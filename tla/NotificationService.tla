-------------------------- MODULE NotificationService --------------------------
(***************************************************************************)
(* The notification daemon (pane-dash/src/notification_service.rs), the    *)
(* processes that talk to it over its socket, and the tmux server it       *)
(* drives. The queue itself is NotificationQueue.                          *)
(*                                                                         *)
(* The daemon is single-threaded and serves one connection at a time, but  *)
(* a request is not one step: `pc` is where its handler awaits tmux or the *)
(* client, and between two awaits panes exit, clients detach and further   *)
(* requests are sent. Requests are short-lived processes (hooks started by *)
(* `run-shell -b`, producers, clicks, the list popup), so a request in     *)
(* flight may be served in any order.                                      *)
(*                                                                         *)
(* A budget bounds how often each thing outside the daemon happens; nothing *)
(* the daemon does is bounded by it. The socket's life before `listen` and *)
(* after it returns is ServiceOwnership.                                   *)
(***************************************************************************)
EXTENDS Integers, Sequences, FiniteSets, SequencesExt

CONSTANTS
    EventIds, MalformedId, Panes, NoPane, Clients, NoClient, Widths,
    QUEUE_CAPACITY, DEDUP_HISTORY_CAPACITY, MAX_SEQUENCE,
    LIST_PAGE_SIZE,           \* 2 in the code
    Budgets                   \* how often each outside event may happen, and
                              \* which events producers publish

VARIABLES
    queue, dedup_history, next_sequence, active_client, status_width, result,
    service_client,           \* NotificationService.active_client
    pc,                       \* where the handler of `request` is waiting
    request,                  \* the request being served
    response,                 \* what it will be answered
    tmux_row,                 \* tmux option @pane_dash_notify_status
    row_stale,                \* history: the last write of that option failed
    alive, attached,          \* panes and clients tmux still has
    inflight,                 \* requests sent and not yet accepted
    left,                     \* what is left of the budget
    jumped,                   \* history: sequences whose pane was switched to
    popup,                    \* the notification list popup
    steady,                   \* history: queued since the popup began listing
    lost                      \* history: panes whose exit hook died unread

Queue == INSTANCE NotificationQueue

queueVars ==
    <<queue, dedup_history, next_sequence, active_client, status_width, result>>
daemonVars == <<service_client, pc, request, response>>
tmuxVars == <<tmux_row, row_stale, alive, attached>>
outsideVars == <<inflight, left, jumped, popup, steady, lost>>
vars == <<queueVars, daemonVars, tmuxVars, outsideVars>>

ASSUME PageAssumption == LIST_PAGE_SIZE \in Nat \ {0}

\* How often each outside event may still happen, and what may be published:
\* events that parse_kind_value and validate_pane let through.
Budget ==
    [publish : Nat, focus : Nat, pane_exited : Nat, detach : Nat, click : Nat,
     popup : Nat, select : Nat, stop : Nat, tmux_failure : Nat,
     publications : SUBSET Queue!Events]

ASSUME BudgetAssumption == Budgets \subseteq Budget

NoRequest == [op |-> "none"]
NoResponse == [ok |-> TRUE, outcome |-> "none"]
Failure(outcome) == [ok |-> FALSE, outcome |-> outcome]
NoCursor == [priority |-> 5, sequence |-> 0]   \* before every notification

\* The status row, as far as anything depends on it: the sequence a click on
\* the visible range carries, and how many more there are.
EmptyRow == [visible |-> 0, more |-> 0]
Row(notifications, width) ==
    IF notifications = {} THEN EmptyRow
    ELSE LET first == CHOOSE n \in notifications :
                        \A m \in notifications \ {n} : Queue!Before(n, m) IN
         [visible |-> first.sequence, width |-> width,
          more |-> Cardinality(notifications) - 1]

\* Where the daemon may be: awaiting a connection, a frame on it, tmux, or the
\* client, or gone.
Waits == {"accept", "read", "resolve", "apply", "write_status", "refresh",
          "jump", "sessions", "respond", "down"}

\* `opened`: the popup has shown a list before. `received`: pages so far.
ClosedPopup == [phase |-> "closed", client |-> NoClient, opened |-> FALSE,
                received |-> <<>>, items |-> <<>>]

-----------------------------------------------------------------------------
(* Startup. `initialize` clears the row, then seeds the focus from one of   *)
(* the attached clients; its tmux calls all succeed or the daemon exits.    *)

SeededClients ==
    {NoClient} \cup [client_id : Clients, focused : BOOLEAN, current_pane : Panes]

Init ==
    /\ queue = {}
    /\ dedup_history = <<>>
    /\ next_sequence = 1
    /\ active_client \in SeededClients
    /\ status_width \in Widths
    /\ result = [outcome |-> "none", changed |-> FALSE, route |-> Queue!NoRoute]
    /\ service_client = IF active_client = NoClient THEN NoClient
                        ELSE active_client.client_id
    /\ pc = "accept"
    /\ request = NoRequest
    /\ response = NoResponse
    /\ tmux_row = EmptyRow
    /\ row_stale = FALSE
    /\ alive = Panes
    /\ attached = Clients
    /\ inflight = {}
    /\ left \in Budgets
    /\ jumped = {}
    /\ popup = ClosedPopup
    /\ steady = {}
    /\ lost = {}

-----------------------------------------------------------------------------
(* Outside the daemon: producers, hooks, the user, tmux                     *)

Spend(what) == left[what] > 0 /\ left' = [left EXCEPT ![what] = @ - 1]

\* Requests are told apart by what is left of their budget.
Send(fields) == inflight' = inflight \cup {fields}

Producer(event) ==
    /\ Spend("publish")
    /\ Send([op |-> "publish", id |-> left.publish, event |-> event])
    /\ UNCHANGED <<queueVars, daemonVars, tmuxVars, jumped, popup, steady, lost>>

\* The focus hooks of pane_dash.tmux: focus-in and the selection hooks send
\* focused 1 acknowledge 1, focus-out 0 0, resize 1 0.
FocusHook(client, pane, width, focused, acknowledge) ==
    /\ acknowledge => focused
    /\ client \in attached
    /\ pane \in alive
    /\ Spend("focus")
    /\ Send([op |-> "focus", id |-> left.focus, client |-> client,
             pane |-> pane, width |-> width, focused |-> focused,
             acknowledge |-> acknowledge])
    /\ UNCHANGED <<queueVars, daemonVars, tmuxVars, jumped, popup, steady, lost>>

\* A pane exits, and tmux starts the pane-exited hook.
PaneExits(pane) ==
    /\ pane \in alive
    /\ Spend("pane_exited")
    /\ alive' = alive \ {pane}
    /\ Send([op |-> "pane_exited", pane |-> pane])
    /\ UNCHANGED <<queueVars, daemonVars, tmux_row, row_stale, attached,
                   jumped, popup, steady, lost>>

ClientDetaches(client) ==
    /\ client \in attached
    /\ Spend("detach")
    /\ attached' = attached \ {client}
    /\ UNCHANGED <<queueVars, daemonVars, tmux_row, row_stale, alive,
                   inflight, jumped, popup, steady, lost>>

\* MouseDown1Status on the visible range: the click carries the sequence the
\* row shows now; by the time it is served the row may show another.
UserClicksRow(client) ==
    /\ client \in attached
    /\ tmux_row.visible # 0
    /\ Spend("click")
    /\ Send([op |-> "click", id |-> left.click, client |-> client,
             sequence |-> tmux_row.visible])
    /\ UNCHANGED <<queueVars, daemonVars, tmuxVars, jumped, popup, steady, lost>>

\* ... and on the `+N more` range.
UserClicksMore(client) ==
    /\ client \in attached
    /\ tmux_row.more > 0
    /\ Spend("click")
    /\ Send([op |-> "click_more", id |-> left.click, client |-> client])
    /\ UNCHANGED <<queueVars, daemonVars, tmuxVars, jumped, popup, steady, lost>>

\* The session-closed hook, and a newer binary's Shutdown.
ControlRequest(op) ==
    /\ Spend("stop")
    /\ Send([op |-> op, id |-> left.stop])
    /\ UNCHANGED <<queueVars, daemonVars, tmuxVars, jumped, popup, steady, lost>>

-----------------------------------------------------------------------------
(* The list popup (notification_ui.rs `run`, `list_notifications`)          *)

ListRequest(cursor) == [op |-> "list", cursor |-> cursor]
SelectRequest(n) ==
    [op |-> "select", event_id |-> n.event_id, client |-> popup.client]

PopupOpens(client) ==
    /\ popup.phase = "closed"
    /\ client \in attached
    /\ Spend("popup")
    /\ popup' = [ClosedPopup EXCEPT !.phase = "listing", !.client = client]
    /\ Send(ListRequest(NoCursor))
    /\ steady' = queue
    /\ UNCHANGED <<queueVars, daemonVars, tmuxVars, jumped, lost>>

PopupSelects ==
    /\ popup.phase = "open"
    /\ Spend("select")
    /\ \E i \in 1 .. Len(popup.items) : Send(SelectRequest(popup.items[i]))
    /\ popup' = [popup EXCEPT !.phase = "selecting"]
    /\ UNCHANGED <<queueVars, daemonVars, tmuxVars, jumped, steady, lost>>

PopupCloses ==
    /\ popup.phase = "open"
    /\ popup' = ClosedPopup
    /\ UNCHANGED <<queueVars, daemonVars, tmuxVars, inflight, left, jumped,
                   steady, lost>>

\* The service cannot be reached. The first listing fails the popup, a refresh
\* keeps the items on screen, a failed selection tries to refresh.
PopupRequestFails(others) ==
    \/ /\ popup.phase = "listing" /\ ~popup.opened
       /\ popup' = ClosedPopup
       /\ inflight' = others
       /\ UNCHANGED steady
    \/ /\ popup.phase = "listing" /\ popup.opened
       /\ popup' = [popup EXCEPT !.phase = "open", !.received = <<>>]
       /\ steady' = {}
       /\ inflight' = others
    \/ /\ popup.phase = "selecting"
       /\ popup' = [popup EXCEPT !.phase = "listing"]
       /\ inflight' = others \cup {ListRequest(NoCursor)}
       /\ UNCHANGED steady

\* One page arrived: show the list, or ask for the next page from its cursor.
\* A cursor that does not advance fails the listing.
PopupReceivesPage ==
    LET received == popup.received \o response.page IN
    IF response.next = NoCursor
      THEN /\ popup' = [popup EXCEPT !.phase = "open", !.opened = TRUE,
                                     !.received = <<>>, !.items = received]
           /\ UNCHANGED <<inflight, steady>>
    ELSE IF response.next = request.cursor
      THEN PopupRequestFails(inflight)
      ELSE /\ popup' = [popup EXCEPT !.received = received]
           /\ Send(ListRequest(response.next))
           /\ UNCHANGED steady

\* A routed selection closes the popup; a stale or failed one lists again.
PopupReceivesSelection ==
    IF response.ok /\ response.outcome = "selected"
      THEN /\ popup' = ClosedPopup
           /\ UNCHANGED <<inflight, steady>>
      ELSE /\ popup' = [popup EXCEPT !.phase = "listing"]
           /\ Send(ListRequest(NoCursor))
           /\ steady' = queue

-----------------------------------------------------------------------------
(* handle_connection: accept, read one frame                                *)

\* What `steady` keeps of the queue after a step of the daemon.
StillSteady == steady' = steady \cap queue'

Accept(r) ==
    /\ pc = "accept"
    /\ r \in inflight
    /\ inflight' = inflight \ {r}
    /\ request' = r
    /\ pc' = "read"
    /\ UNCHANGED <<queueVars, service_client, response, tmuxVars, left,
                   jumped, popup, steady, lost>>

\* The client's process dies before its frame is complete: nothing is applied,
\* and nobody sends it again. (The popup is a terminal program: it closes.) If
\* part of a frame was read, the daemon ends on the write of its complaint.
ClientHangsUp ==
    /\ pc = "read"
    /\ Spend("stop")
    /\ pc' \in {"accept", "down"}
    /\ request' = NoRequest
    /\ popup' = IF request.op \in {"list", "select"} THEN ClosedPopup ELSE popup
    /\ lost' = IF request.op = "pane_exited" THEN lost \cup {request.pane}
               ELSE lost
    /\ UNCHANGED <<queueVars, service_client, response, tmuxVars,
                   inflight, jumped, steady>>

Respond(answer) ==
    /\ response' = answer
    /\ pc' = "respond"

-----------------------------------------------------------------------------
(* finish_state_change                                                      *)

\* Mutant: a pane's exit does not rewrite the row.
writes_status_unless_stale(outcome) ==
    outcome \in {"published", "clicked_visible", "selected",
                 "active_client_updated"}

writes_status(outcome) ==
    outcome \in {"published", "clicked_visible", "selected",
                 "active_client_updated", "removed_stale"}

\* After the row is written: a routed click or selection goes on to its jump.
AfterStatus(reply) ==
    IF reply.route.to = "pane"
      THEN pc' = "jump" /\ UNCHANGED response
      ELSE Respond([ok |-> TRUE, outcome |-> reply.outcome])

\* Taken in the same step as the command: there is no await in between.
FinishStateChange ==
    IF result'.outcome = "queue_full" THEN Respond(Failure("queue_full"))
    ELSE IF result'.outcome = "rejected" THEN Respond(Failure("malformed"))
    ELSE IF result'.changed /\ writes_status(result'.outcome)
           THEN pc' = "write_status" /\ UNCHANGED response
           ELSE AfterStatus(result')

\* The client whose status line is refreshed.
RefreshClient ==
    IF request.op \in {"click", "click_more", "select"} THEN {request.client}
    ELSE {service_client} \ {NoClient}

\* set_notification_status: the row of the state the command left, which no
\* other request can have changed since.
WriteStatus ==
    /\ pc = "write_status"
    /\ tmux_row' = Row(queue, status_width)
    /\ row_stale' = FALSE
    /\ IF RefreshClient = {} THEN AfterStatus(result)
       ELSE pc' = "refresh" /\ UNCHANGED response
    /\ UNCHANGED <<queueVars, service_client, request, alive, attached,
                   outsideVars>>

WriteStatusFails ==
    /\ pc = "write_status"
    /\ Spend("tmux_failure")
    /\ row_stale' = TRUE
    /\ Respond(Failure("service_unavailable"))
    /\ UNCHANGED <<queueVars, service_client, request, tmux_row, alive,
                   attached, inflight, jumped, popup, steady, lost>>

\* refresh_client_status fails when tmux no longer knows the client.
Refresh ==
    /\ pc = "refresh"
    /\ IF RefreshClient \subseteq attached THEN AfterStatus(result)
       ELSE Respond(Failure("service_unavailable"))
    /\ UNCHANGED <<queueVars, service_client, request, tmuxVars,
                   outsideVars>>

\* execute_jump: switch-client to the pane. The notification is already gone.
Jump ==
    /\ pc = "jump"
    /\ IF request.client \in attached /\ result.route.pane \in alive
         THEN /\ jumped' = jumped \cup {result.route.sequence}
              /\ Respond([ok |-> TRUE, outcome |-> result.outcome])
         ELSE /\ Respond(Failure("missing_pane"))
              /\ UNCHANGED jumped
    /\ UNCHANGED <<queueVars, service_client, request, tmuxVars,
                   inflight, left, popup, steady, lost>>

-----------------------------------------------------------------------------
(* NotificationService::handle                                              *)

\* A command of the queue, applied by the handler of the request just read.
Handle(command) ==
    /\ command
    /\ FinishStateChange
    /\ StillSteady
    /\ UNCHANGED <<request, tmuxVars, inflight, left, jumped, popup, lost>>

\* publish: first ask tmux whether the pane exists ...
HandlePublish ==
    /\ pc = "read" /\ request.op = "publish"
    /\ IF request.event.event_id = MalformedId
         THEN Respond(Failure("malformed"))
         ELSE pc' = "resolve" /\ UNCHANGED response
    /\ UNCHANGED <<queueVars, service_client, request, tmuxVars,
                   outsideVars>>

\* Mutant: trusts the pane the producer named.
ResolveBlindly ==
    /\ pc = "resolve"
    /\ pc' = "apply"
    /\ UNCHANGED <<queueVars, service_client, request, response, tmuxVars,
                   outsideVars>>

ResolvePane ==
    /\ pc = "resolve"
    /\ IF request.event.pane \in alive
         THEN pc' = "apply" /\ UNCHANGED response
         ELSE Respond(Failure("missing_pane"))
    /\ UNCHANGED <<queueVars, service_client, request, tmuxVars,
                   outsideVars>>

\* ... then apply; the pane may have exited since tmux answered.
ApplyPublish ==
    /\ pc = "apply"
    /\ Handle(Queue!Publish(request.event))
    /\ UNCHANGED service_client

HandleFocus ==
    /\ pc = "read" /\ request.op = "focus"
    /\ Handle(Queue!UpdateActiveClient(
                 [client_id |-> request.client, focused |-> request.focused,
                  current_pane |-> request.pane],
                 request.width, request.acknowledge))
    /\ service_client' = request.client

HandlePaneExited ==
    /\ pc = "read" /\ request.op = "pane_exited"
    /\ Handle(Queue!RemoveStalePanes({request.pane}))
    /\ UNCHANGED service_client

HandleClick ==
    /\ pc = "read"
    /\ \/ /\ request.op = "click"
          /\ Handle(Queue!ClickVisible(request.sequence))
       \/ /\ request.op = "click_more"
          /\ Handle(Queue!ClickMore)
    /\ UNCHANGED service_client

HandleSelect ==
    /\ pc = "read" /\ request.op = "select"
    /\ Handle(Queue!Select(request.event_id))
    /\ UNCHANGED service_client

\* Mutant: goes by sequence alone.
BehindBySequence(cursor) == {n \in queue : n.sequence > cursor.sequence}

\* snapshot_items: the first LIST_PAGE_SIZE notifications behind the cursor's
\* sort key, whether or not the cursor's own notification still exists.
Behind(cursor) ==
    {n \in queue :
        \/ Queue!priority[n.kind] < cursor.priority
        \/ Queue!priority[n.kind] = cursor.priority /\ n.sequence > cursor.sequence}

\* Its place in list order, counted from 0.
Rank(n, notifications) == Cardinality({m \in notifications : Queue!Before(m, n)})

Page(cursor) ==
    LET behind == Behind(cursor) IN
    [i \in 1 .. Min({LIST_PAGE_SIZE, Cardinality(behind)}) |->
        CHOOSE n \in behind : Rank(n, behind) = i - 1]

CursorOf(n) == [priority |-> Queue!priority[n.kind], sequence |-> n.sequence]

HandleList ==
    /\ pc = "read" /\ request.op = "list"
    /\ LET page == Page(request.cursor) IN
       Respond([ok |-> TRUE, outcome |-> "listed", page |-> page,
                next |-> IF Len(page) < Cardinality(Behind(request.cursor))
                           THEN CursorOf(Last(page)) ELSE NoCursor])
    /\ UNCHANGED <<queueVars, service_client, request, tmuxVars,
                   outsideVars>>

HandleShutdown ==
    /\ pc = "read" /\ request.op = "shutdown"
    /\ Respond([ok |-> TRUE, outcome |-> "stopped"])
    /\ UNCHANGED <<queueVars, service_client, request, tmuxVars,
                   outsideVars>>

HandleSessionClosed ==
    /\ pc = "read" /\ request.op = "session_closed"
    /\ pc' = "sessions"
    /\ UNCHANGED <<queueVars, service_client, request, response, tmuxVars,
                   outsideVars>>

\* list_sessions: an error counts as "no sessions".
CountSessions ==
    /\ pc = "sessions"
    /\ \E outcome \in {"server_alive", "stopped"} :
         Respond([ok |-> TRUE, outcome |-> outcome])
    /\ UNCHANGED <<queueVars, service_client, request, tmuxVars,
                   outsideVars>>

-----------------------------------------------------------------------------
(* write_response, and the end of the daemon                                *)

ClientGetsResponse ==
    CASE request.op = "list"   -> PopupReceivesPage
      [] request.op = "select" -> PopupReceivesSelection
      [] OTHER                 -> UNCHANGED <<inflight, popup, steady>>

WriteResponse ==
    /\ pc = "respond"
    /\ ClientGetsResponse
    /\ pc' = IF response.outcome = "stopped" THEN "down" ELSE "accept"
    /\ request' = NoRequest
    /\ response' = NoResponse
    /\ UNCHANGED <<queueVars, service_client, tmuxVars, left, jumped, lost>>

\* The client is gone: the write error leaves `listen`, and the daemon exits.
WriteResponseFails ==
    /\ pc = "respond"
    /\ Spend("stop")
    /\ pc' = "down"
    /\ request' = NoRequest
    /\ response' = NoResponse
    /\ popup' = IF request.op \in {"list", "select"} THEN ClosedPopup ELSE popup
    /\ UNCHANGED <<queueVars, service_client, tmuxVars, inflight, jumped,
                   steady, lost>>

\* SIGINT, SIGTERM and SIGHUP are only polled between connections.
Signal ==
    /\ pc = "accept"
    /\ Spend("stop")
    /\ pc' = "down"
    /\ UNCHANGED <<queueVars, service_client, request, response, tmuxVars,
                   inflight, jumped, popup, steady, lost>>

\* Mutant: a hook or producer tries to connect for ever.
UnreachableForPopup(r) ==
    /\ pc = "down"
    /\ r \in inflight /\ r.op \in {"list", "select"}
    /\ PopupRequestFails(inflight \ {r})
    /\ UNCHANGED <<queueVars, daemonVars, tmuxVars, left, jumped, lost>>

\* No daemon: connect_with_retry gives up after CLIENT_RETRY.
Unreachable(r) ==
    /\ pc = "down"
    /\ r \in inflight
    /\ IF r.op \in {"list", "select"} THEN PopupRequestFails(inflight \ {r})
       ELSE inflight' = inflight \ {r} /\ UNCHANGED <<popup, steady>>
    /\ UNCHANGED <<queueVars, daemonVars, tmuxVars, left, jumped, lost>>

-----------------------------------------------------------------------------
(* The specification                                                        *)

Outside ==
    \/ \E event \in left.publications : Producer(event)
    \/ \E client \in Clients, pane \in Panes, width \in Widths,
          focused, acknowledge \in BOOLEAN :
            FocusHook(client, pane, width, focused, acknowledge)
    \/ \E pane \in Panes : PaneExits(pane)
    \/ \E client \in Clients : ClientDetaches(client)
    \/ \E client \in Clients : UserClicksRow(client)
    \/ \E client \in Clients : UserClicksMore(client)
    \/ \E op \in {"session_closed", "shutdown"} : ControlRequest(op)
    \/ \E client \in Clients : PopupOpens(client)
    \/ PopupSelects
    \/ PopupCloses
    \/ ClientHangsUp
    \/ Signal

Daemon ==
    \/ \E r \in inflight : Accept(r)
    \/ HandlePublish \/ ResolvePane \/ ApplyPublish
    \/ HandleFocus \/ HandlePaneExited \/ HandleClick \/ HandleSelect
    \/ HandleList \/ HandleShutdown \/ HandleSessionClosed \/ CountSessions
    \/ WriteStatus \/ WriteStatusFails \/ Refresh \/ Jump
    \/ WriteResponse \/ WriteResponseFails

\* Nothing is being served, sent or listed: the system may rest here.
Quiescent ==
    /\ pc \in {"accept", "down"}
    /\ inflight = {}
    /\ popup.phase \in {"closed", "open"}

Next ==
    \/ Outside
    \/ Daemon
    \/ \E r \in inflight : Unreachable(r)
    \/ Quiescent /\ UNCHANGED vars

Spec == Init /\ [][Next]_vars

\* The daemon keeps running, a client that connected writes its frame, and a
\* client that cannot connect gives up.
FairSpec ==
    /\ Spec
    /\ WF_vars(Daemon)
    /\ WF_vars(\E r \in inflight : Unreachable(r))

-----------------------------------------------------------------------------
(* Properties                                                               *)

\* "queued items for exited panes are removed" (README.md:151): a notification
\* of a pane that exited is queued only while the pane's exit hook is still on
\* its way, although tmux is asked about the pane long before the event is
\* applied. A hook that dies unread is never repeated, and its items stay.
ExitedPanesDrain ==
    pc # "down" =>
        \A n \in queue : \/ n.pane \in alive \cup lost
                         \/ [op |-> "pane_exited", pane |-> n.pane]
                              \in inflight \cup {request}

\* Between requests the status row shows the queue, unless the last write of
\* the row failed: no command changes the queue and forgets the row.
RowTellsTheQueue ==
    pc = "accept" /\ ~row_stale => tmux_row = Row(queue, status_width)

\* Pages listed while the queue changes never repeat a notification, and come
\* in list order ("must not restart paging at the head", tests/notifications.rs).
ListInOrder ==
    \A list \in {popup.received, popup.items} :
        \A i, j \in 1 .. Len(list) : i < j => Queue!Before(list[i], list[j])

\* ... and whatever was queued all the time is in the finished list.
ListComplete ==
    popup.phase = "open" =>
        \A n \in steady : \E i \in 1 .. Len(popup.items) : popup.items[i] = n

\* So a list made of several requests is as good as one made at once.
ListIsTrue == ListInOrder /\ ListComplete

\* What users are promised about a notification (NotificationPromise): once
\* claimed by a click or a selection it is switched to at most once, and never
\* after it was withdrawn.
Sequences(notifications) == {n.sequence : n \in notifications}

Claimed ==
    IF pc \in {"write_status", "refresh", "jump"} /\ result.route.to = "pane"
      THEN {result.route.sequence} ELSE {}

Promise == INSTANCE NotificationPromise WITH
    fresh <- next_sequence,
    pending <- Sequences(queue),
    claimed <- Claimed,
    visited <- jumped

KeepsPromise == Promise!Spec

\* Every request is served or refused: the daemon never hangs on one.
EveryRequestEnds == inflight # {} ~> inflight = {}

\* A listing ends although each page is a request of its own.
ListingEnds == popup.phase = "listing" ~> popup.phase # "listing"

\* Nobody waits for ever, while panes exit, clients die and the daemon stops.
NothingHangs == EveryRequestEnds /\ ListingEnds
=============================================================================
