--------------------------- MODULE MCConversation ---------------------------
(* Conversation for TLC: the constants are given in the cfg.               *)
EXTENDS Conversation
=============================================================================
