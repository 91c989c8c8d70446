--------------------------- MODULE MCServiceOwnership ---------------------------
(* Instances of ServiceOwnership for TLC: an old service and newer ones.    *)
EXTENDS ServiceOwnership

MixedVersions == [p \in Procs |-> IF p = "old" THEN 1 ELSE 2]
=============================================================================
