-------------------------- MODULE MCDashboardPreview --------------------------
(* An instance of DashboardPreview for TLC.                                  *)
EXTENDS DashboardPreview

CONSTANTS p1, p2

Size(wide, height) == [wide |-> wide, height |-> height]
Terminals == {Size(TRUE, 4), Size(FALSE, 9)}
HelpText == [wide |-> 3, narrow |-> 8]
TwoPanes == {p1, p2}
=============================================================================
