--------------------------- MODULE MCConversation ---------------------------
(***************************************************************************)
(* Bounded instances of Conversation for TLC.                              *)
(***************************************************************************)
EXTENDS ConversationInvariants
=============================================================================
