-------------------------- MODULE MaintenanceWindow --------------------------
(***************************************************************************)
(* What the retrieval configuration promises its readers: one preset and   *)
(* one index version are in force; both change together, and only when a   *)
(* maintenance window that was opened for that preset closes successfully. *)
(* A preset that cuts documents the same way may be switched outside a     *)
(* window without a new version.  Crashes and restarts are invisible here. *)
(***************************************************************************)
EXTENDS Naturals

CONSTANTS Presets, ChunkShape, DefaultPreset, None

VARIABLES
  open,     \* the window: writes and chats are refused while it is open
  active,   \* preset in force
  version,  \* index version in force
  target    \* preset the open window will put in force

vars == <<open, active, version, target>>

Init == open = FALSE /\ active = DefaultPreset /\ version = 1 /\ target = None

\* Another chunking takes a window; a retried job may rebuild the active preset.
Open(p) ==
  /\ ~open
  /\ open' = TRUE /\ target' = p
  /\ UNCHANGED <<active, version>>

Commit ==
  /\ open
  /\ open' = FALSE /\ target' = None
  /\ active' = target /\ version' = version + 1

Abandon ==
  /\ open
  /\ open' = FALSE /\ target' = None
  /\ UNCHANGED <<active, version>>

Switch(p) ==
  /\ ~open /\ ChunkShape[p] = ChunkShape[active]
  /\ active' = p
  /\ UNCHANGED <<open, version, target>>

Next == Commit \/ Abandon \/ \E p \in Presets : Open(p) \/ Switch(p)

Spec == Init /\ [][Next]_vars

=============================================================================
