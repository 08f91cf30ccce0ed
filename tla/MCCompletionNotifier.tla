------------------------ MODULE MCCompletionNotifier ------------------------
(* CompletionNotifier for TLC: the constants are given in the cfg.         *)
EXTENDS CompletionNotifier
=============================================================================
