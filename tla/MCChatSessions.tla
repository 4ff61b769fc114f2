--------------------------- MODULE MCChatSessions ---------------------------
(* Instances of ChatSessions for TLC. *)
EXTENDS ChatSessions, TLC

CONSTANTS r1, r2, r3, k1

RequestSymmetry == Permutations(Requests)

=============================================================================
