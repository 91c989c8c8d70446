----------------------------- MODULE MCInstallLock -----------------------------
(* InstallLock with three commands. *)
EXTENDS InstallLock
=============================================================================
