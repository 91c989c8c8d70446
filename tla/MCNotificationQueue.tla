-------------------------- MODULE MCNotificationQueue --------------------------
(* A small instance of NotificationQueue for TLC.                           *)
EXTENDS NotificationQueue, TLC

Symmetry == Permutations(EventIds) \cup Permutations(Panes)
=============================================================================
