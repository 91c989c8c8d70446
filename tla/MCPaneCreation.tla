---------------------------- MODULE MCPaneCreation ----------------------------
(* An instance of PaneCreation for TLC.                                     *)
EXTENDS PaneCreation
=============================================================================
