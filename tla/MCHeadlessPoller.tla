--------------------------- MODULE MCHeadlessPoller ---------------------------
(* An instance of HeadlessPoller for TLC: a child, its root and another      *)
(* root, or two sessions that are each other's parent.                       *)
EXTENDS HeadlessPoller

CONSTANTS child, root, other, w1, w2

ThreeSessions == {child, root, other}
Homes == [s \in ThreeSessions |-> IF s = child THEN w2 ELSE w1]
Listing == <<w1, w1, w2>>
Tree == [s \in ThreeSessions |-> IF s = child THEN root ELSE NoSession]
Circle == [s \in ThreeSessions |-> CASE s = child -> root
                                    [] s = root -> child
                                    [] OTHER -> NoSession]
Families == {Tree, Circle}
=============================================================================
