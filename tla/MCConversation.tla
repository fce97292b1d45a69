--------------------------- MODULE MCConversation ---------------------------
(* TLC instances of Conversation. *)
EXTENDS Conversation
=============================================================================
