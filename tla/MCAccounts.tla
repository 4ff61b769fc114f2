------------------------------ MODULE MCAccounts -----------------------------
(* Instances of Accounts for TLC: an administrator and another user, with their *)
(* passwords or with what they own.                                             *)
EXTENDS Accounts, TLC

CONSTANTS r1, r2, u1, u2, t1, t2

RequestSymmetry == Permutations(Requests)

==============================================================================
