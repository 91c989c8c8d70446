---------------------------- MODULE MCDashboardApp ----------------------------
(* An instance of DashboardApp for TLC. Pane 1 is in session 1, pane 2 in    *)
(* session 2, and pane 3 is the one a creation makes.                        *)
EXTENDS DashboardApp

Pane(session, pane, status, since) ==
    [session |-> session, name |-> 3 - session, window |-> session, windex |-> 1,
     pane |-> pane, pindex |-> pane, active |-> TRUE, status |-> status, since |-> since,
     heartbeat |-> 2, matches |-> TRUE, opencode |-> None, tag |-> FALSE, dead |-> FALSE,
     group |-> TRUE, text |-> 0]

Answer(form, record) == [form |-> form, record |-> record]
Whole(record) == Answer("whole", record)

One == Pane(1, 1, "working", 0)
Two == [Pane(2, 2, "needs_input", 3) EXCEPT !.opencode = 7]
Made == [Pane(1, 3, "", Never) EXCEPT !.matches = FALSE]

Both == <<Whole(One), Whole(Two)>>
Linked == <<Whole(One), Whole([One EXCEPT !.session = 2]), Whole([Made EXCEPT !.text = 1])>>
Flat == <<Whole([One EXCEPT !.group = FALSE]), Whole([Made EXCEPT !.session = 2, !.tag = TRUE])>>
Damaged == <<Whole([One EXCEPT !.status = "idle"]), Answer("partial", Made)>>
Lost == <<Whole(Two), Answer("lost", Made)>>
Exited == <<Whole(One), Whole([Made EXCEPT !.dead = TRUE])>>

TmuxAnswers == {<<>>, Both, Linked, Flat, Damaged, Lost, Exited}

HeadlessSession(id, status) == [id |-> id, status |-> status, since |-> 0, text |-> 0]
HeadlessAnswers == {<<>>, <<HeadlessSession(8, "working"), HeadlessSession(7, "working")>>}

\* "x" finds pane 3 best, then pane 1; "s" finds nothing.
MatchScore(query, row) ==
    IF Head(query) = "x" /\ row.focus.kind = "pane" /\ row.focus.pane # 2
    THEN row.focus.pane ELSE 0
=============================================================================
