------------------------- MODULE MCNotificationService -------------------------
(* An instance of NotificationService for TLC. Each budget picks the events *)
(* one question needs; what it leaves out has budget 0.                     *)
EXTENDS NotificationService

Event(kind, id, pane) == [kind |-> kind, event_id |-> id, pane |-> pane]

First == Event("finished", "e1", "p1")
Urgent == Event("error", "e2", "p2")
Malformed == Event("finished", MalformedId, "p1")

Nothing ==
    [publish |-> 0, focus |-> 0, pane_exited |-> 0, detach |-> 0, click |-> 0,
     popup |-> 0, select |-> 0, stop |-> 0, tmux_failure |-> 0,
     publications |-> {First, Urgent}]

\* Clicks and exits racing publications.
Routing ==
    [Nothing EXCEPT !.publish = 2, !.click = 2, !.pane_exited = 1, !.detach = 1]

\* Failing tmux calls, and a focus that changes under them.
Failing ==
    [Nothing EXCEPT !.publish = 2, !.click = 1, !.focus = 1, !.tmux_failure = 1,
                    !.publications = {First, Malformed}]

\* More publications than the queue holds.
Crowded ==
    [Nothing EXCEPT !.publish = 3, !.click = 1, !.publications = @ \cup
                        {Event("finished", "e3", "p2")}]

\* The list popup paging through a queue that changes under it, a daemon that
\* is told to stop, and clients that die.
Listing ==
    [Nothing EXCEPT !.publish = 2, !.pane_exited = 1, !.click = 1, !.popup = 1,
                    !.select = 1, !.stop = 1]

Scenarios == {Routing, Failing, Crowded, Listing}
=============================================================================
