------------------------- MODULE MCDashboardRuntime -------------------------
(* An instance of DashboardRuntime for TLC.                                 *)
EXTENDS DashboardRuntime
=============================================================================
