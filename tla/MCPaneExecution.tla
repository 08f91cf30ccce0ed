--------------------------- MODULE MCPaneExecution ---------------------------
(* PaneExecution for TLC: the constants are given in the cfg.              *)
EXTENDS PaneExecution
=============================================================================
