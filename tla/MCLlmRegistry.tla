---------------------------- MODULE MCLlmRegistry ----------------------------
(* Instances of LlmRegistry for TLC: endpoints "a" and "b", with "a" the      *)
(* default; administrators rotate credentials, or change the default.         *)
EXTENDS LlmRegistry, TLC

CONSTANTS p1, p2, t1, t2

Open == [enabled |-> TRUE, token |-> None]
Closed == [enabled |-> FALSE, token |-> None]
Sealed == [enabled |-> TRUE, token |-> [key |-> 1, n |-> 0]]

OneProc == [t \in {t1, t2} |-> p1]
TwoProcs == [t \in {t1, t2} |-> IF t = t1 THEN p1 ELSE p2]

\* One endpoint, its API key encrypted.
Solo == [default |-> "a", entries |-> [k \in Keys |-> IF k = "a" THEN Sealed ELSE None]]
\* One endpoint open, and one whose API key is encrypted.
Mixed == [default |-> "a", entries |-> [k \in Keys |-> IF k = "a" THEN Open ELSE Sealed]]
Plain == [default |-> "a", entries |-> [k \in Keys |-> Open]]
ADefault == [default |-> "a", entries |-> [k \in Keys |-> IF k = "a" THEN Open ELSE Closed]]

Do(kind, k, enabled, auth) == [kind |-> kind, key |-> k, enabled |-> enabled, auth |-> auth]

\* Edits that rotate credentials: a Fernet token never repeats; and a second
\* endpoint made, or removed where a hand edit has made it.
Rotations == {Do("update", "a", TRUE, "new"), Do("create", "b", TRUE, "new"),
              Do("delete", "b", TRUE, "none")}
\* Edits of two parts of the file, which do not make up for each other.
Apart == {Do("update", "b", TRUE, "new"), Do("default", "b", TRUE, "none")}

HandEdits == {Broken, ADefault}
\* A slip of the operator, and a backup that brings the first content back.
Backup == {Broken, Mixed}

==============================================================================
