-------------------------- MODULE NotificationPromise --------------------------
(***************************************************************************)
(* What the notification service promises, without saying how: every       *)
(* notification gets a number of its own, waits until it is withdrawn or   *)
(* claimed, and a claim takes the user to its pane once or not at all.     *)
(***************************************************************************)
EXTENDS Naturals

VARIABLES
    fresh,      \* the number of the next notification
    pending,    \* numbers of the notifications the user can still act on
    claimed,    \* the one a click or selection has taken, if any
    visited     \* numbers whose pane the user was taken to

promiseVars == <<fresh, pending, claimed, visited>>

Init ==
    /\ fresh = 1
    /\ pending = {}
    /\ claimed = {}
    /\ visited = {}

\* A notification arrives; a full queue withdraws another one for it.
Post ==
    /\ fresh' = fresh + 1
    /\ \E withdrawn \in SUBSET pending :
         pending' = (pending \ withdrawn) \cup {fresh}
    /\ UNCHANGED <<claimed, visited>>

\* The user saw the pane, or the pane is gone.
Withdraw ==
    /\ pending' \subseteq pending
    /\ UNCHANGED <<fresh, claimed, visited>>

Claim(number) ==
    /\ claimed = {}
    /\ number \in pending
    /\ pending' = pending \ {number}
    /\ claimed' = {number}
    /\ UNCHANGED <<fresh, visited>>

Visit(number) ==
    /\ number \in claimed
    /\ claimed' = claimed \ {number}
    /\ visited' = visited \cup {number}
    /\ UNCHANGED <<fresh, pending>>

Abandon ==
    /\ claimed # {}
    /\ claimed' = {}
    /\ UNCHANGED <<fresh, pending, visited>>

Next ==
    \/ Post
    \/ Withdraw
    \/ \E number \in pending : Claim(number)
    \/ \E number \in claimed : Visit(number)
    \/ Abandon

Spec == Init /\ [][Next]_promiseVars
=============================================================================
