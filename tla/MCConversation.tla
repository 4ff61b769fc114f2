--------------------------- MODULE MCConversation ----------------------------
(* Instances of Conversation: one conversation about a document, one about    *)
(* all, and a place for a new one; ids of the two alternate.                  *)
EXTENDS Conversation, TLC
CONSTANTS a, b, c
TwoChats == <<a, b, a, a, b>>
==============================================================================
