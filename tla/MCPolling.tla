------------------------------ MODULE MCPolling ------------------------------
(* Instances of Polling.                                                      *)
EXTENDS Polling, TLC
CONSTANTS d1
==============================================================================
