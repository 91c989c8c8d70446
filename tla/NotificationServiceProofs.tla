----------------------- MODULE NotificationServiceProofs -----------------------
(***************************************************************************)
(* That the notification daemon keeps its promise, for any requests in any *)
(* order, any budgets and any capacities.                                  *)
(*                                                                         *)
(* A command of the queue is one step, but what it means for the user is   *)
(* spread over several: the row is written, a client refreshed, the jump   *)
(* made, and each of them may fail. The argument is that nothing of the    *)
(* queue changes in between (Quiet), so that what the daemon still has to  *)
(* do is what the last command left it (Settled).                          *)
(*                                                                         *)
(* The last part is about the socket by which the daemon is reached.       *)
(***************************************************************************)
EXTENDS NotificationService, ServiceOwnership, FiniteSetTheorems, TLAPS

\* A sequence names one notification, and none that is yet to come.
Numbered ==
    /\ next_sequence \in Nat
    /\ \A n \in queue :
           /\ n.sequence \in Nat /\ n.sequence < next_sequence
           /\ n.event_id \in EventIds
    /\ \A m, n \in queue : m.sequence = n.sequence => m = n

\* What the daemon does after a command, and before it answers.
After == {"write_status", "refresh", "jump"}

\* The row tells the queue once it is written, and only what was routed to a
\* pane is jumped to.
Settled ==
    /\ pc # "write_status" /\ ~row_stale => tmux_row = Row(queue, status_width)
    /\ pc = "jump" => result.route.to = "pane"

PromiseInv == Numbered /\ Settled

-----------------------------------------------------------------------------
(* What the steps do to the queue                                           *)

\* The commands that requests bring.
Command ==
    \/ \E event : Queue!Publish(event)
    \/ \E client, width, acknowledge : Queue!UpdateActiveClient(client, width, acknowledge)
    \/ \E panes : Queue!RemoveStalePanes(panes)
    \/ \E sequence : Queue!ClickVisible(sequence)
    \/ Queue!ClickMore
    \/ \E id : Queue!Select(id)

\* A notification arrives, some are withdrawn, or one is routed to.
Posts ==
    /\ \E new, gone :
           /\ new.sequence = next_sequence /\ new.event_id \in EventIds
           /\ queue' = (queue \ gone) \cup {new}
    /\ next_sequence' = next_sequence + 1
    /\ result'.route.to # "pane"
Withdraws ==
    queue' \subseteq queue /\ next_sequence' = next_sequence /\ result'.route.to # "pane"
Claims ==
    \E n \in queue :
        /\ queue' = queue \ {n} /\ next_sequence' = next_sequence
        /\ result'.route.to = "pane" /\ result'.route.sequence = n.sequence

\* A change of what the row shows is said to be one.
Said ==
    /\ result'.route.to = "pane" \/ queue' # queue \/ status_width' # status_width =>
           result'.changed /\ writes_status(result'.outcome)
    /\ result'.outcome \in {"queue_full", "rejected"} => ~writes_status(result'.outcome)

\* One command does one of the three, and says so.
LEMMA CommandEffect ==
    ASSUME Numbered, Command
    PROVE  (Posts \/ Withdraws \/ Claims) /\ Said
<1>1. /\ Queue!NoRoute.to # "pane" /\ Queue!ListRoute.to # "pane"
      /\ \A n : /\ Queue!PaneRoute(n).to = "pane"
                /\ Queue!PaneRoute(n).sequence = n.sequence
  BY DEF Queue!NoRoute, Queue!ListRoute, Queue!PaneRoute
<1>2. ASSUME NEW o, NEW c, NEW r, Queue!Reply(o, c, r)
      PROVE  result'.outcome = o /\ result'.changed = c /\ result'.route = r
  BY <1>2 DEF Queue!Reply
<1>3. /\ ~writes_status("queue_full") /\ ~writes_status("rejected")
      /\ writes_status("published") /\ writes_status("clicked_visible")
      /\ writes_status("selected") /\ writes_status("active_client_updated")
      /\ writes_status("removed_stale")
  BY DEF writes_status
<1>4. ASSUME NEW o, NEW c, NEW r, Queue!Reply(o, c, r), r.to # "pane",
             UNCHANGED <<queue, status_width, next_sequence>>
      PROVE  Withdraws /\ Said
  BY <1>2, <1>3, <1>4 DEF Withdraws, Said
<1>5. ASSUME NEW event, Queue!Publish(event)
      PROVE  (Posts \/ Withdraws) /\ Said
  <2>1. CASE Queue!Enqueue(event)
    <3> DEFINE new == Queue!Queued(event, next_sequence)
               gone == Queue!Evicted(event.kind)
    <3>1. /\ queue' = (queue \ gone) \cup {new} /\ next_sequence' = next_sequence + 1
          /\ Queue!Reply("published", TRUE, Queue!NoRoute)
          /\ event.event_id \in EventIds
      BY <2>1 DEF Queue!Enqueue, Queue!HasRoom, Queue!Fresh
    <3>2. new.sequence = next_sequence /\ new.event_id \in EventIds
      BY <3>1 DEF Queue!Queued
    <3> HIDE DEF new, gone
    <3>3. Posts
      BY <1>1, <1>2, <3>1, <3>2 DEF Posts
    <3>4. Said
      BY <1>1, <1>2, <1>3, <3>1 DEF Said
    <3> QED
      BY <3>3, <3>4
  <2>2. CASE /\ UNCHANGED <<queue, next_sequence>>
             /\ \E o, c : Queue!Reply(o, c, Queue!NoRoute)
    BY <1>1, <1>4, <1>5, <2>2 DEF Queue!Publish
  <2> QED
    BY <1>5, <2>1, <2>2 DEF Queue!Publish, Queue!RejectEventId, Queue!DropDuplicate,
       Queue!SuppressByFocus, Queue!RefuseFull, Queue!SequenceExhausted
<1>6. ASSUME NEW client, NEW width, NEW acknowledge,
             Queue!UpdateActiveClient(client, width, acknowledge)
      PROVE  Withdraws /\ Said
  <2> DEFINE gone == Queue!Acknowledged(client, acknowledge)
             changed == gone # {} \/ active_client # client \/ status_width # width
  <2>1. /\ queue' = queue \ gone /\ status_width' = width /\ next_sequence' = next_sequence
        /\ Queue!Reply("active_client_updated", changed, Queue!NoRoute)
    BY <1>6 DEF Queue!UpdateActiveClient
  <2>2. result'.route.to # "pane" /\ result'.changed = changed
        /\ result'.outcome = "active_client_updated"
    BY <1>1, <1>2, <2>1
  <2>3. Withdraws
    BY <2>1, <2>2 DEF Withdraws
  <2>4. queue' # queue \/ status_width' # status_width => changed
    BY <2>1
  <2> HIDE DEF gone, changed
  <2>5. Said
    BY <1>3, <2>2, <2>4 DEF Said
  <2> QED
    BY <2>3, <2>5
<1>7. ASSUME NEW panes, Queue!RemoveStalePanes(panes)
      PROVE  Withdraws /\ Said
  <2> DEFINE stale == {n \in queue : n.pane \in panes}
             changed == stale # {}
  <2>1. /\ queue' = queue \ stale /\ UNCHANGED <<status_width, next_sequence>>
        /\ Queue!Reply("removed_stale", changed, Queue!NoRoute)
    BY <1>7 DEF Queue!RemoveStalePanes
  <2>2. result'.route.to # "pane" /\ result'.changed = changed
        /\ result'.outcome = "removed_stale"
    BY <1>1, <1>2, <2>1
  <2>3. Withdraws
    BY <2>1, <2>2 DEF Withdraws
  <2>4. queue' # queue => changed
    BY <2>1
  <2> HIDE DEF stale, changed
  <2>5. Said
    BY <1>3, <2>1, <2>2, <2>4 DEF Said
  <2> QED
    BY <2>3, <2>5
<1>8. ASSUME NEW n \in queue, queue' = queue \ {n}, next_sequence' = next_sequence,
             NEW o \in {"clicked_visible", "selected"},
             Queue!Reply(o, TRUE, Queue!PaneRoute(n))
      PROVE  Claims /\ Said
  <2>1. /\ result'.outcome = o /\ result'.changed = TRUE /\ result'.route.to = "pane"
        /\ result'.route.sequence = n.sequence
    BY <1>1, <1>8 DEF Queue!Reply
  <2>2. Claims
    BY <1>8, <2>1 DEF Claims
  <2>3. Said
    BY <1>3, <1>8, <2>1 DEF Said
  <2> QED
    BY <2>2, <2>3
<1>9. ASSUME NEW sequence, Queue!ClickVisible(sequence)
      PROVE  (Withdraws \/ Claims) /\ Said
  <2> DEFINE shown == {n \in queue : Queue!IsVisible(n) /\ n.sequence = sequence}
  <2>1. queue' = queue \ shown /\ UNCHANGED <<status_width, next_sequence>>
    BY <1>9 DEF Queue!ClickVisible
  <2>2. CASE shown = {}
    <3>1. queue' = queue /\ Queue!Reply("ignored_click", FALSE, Queue!NoRoute)
      BY <1>9, <2>1, <2>2 DEF Queue!ClickVisible
    <3> QED
      BY <1>1, <1>4, <2>1, <3>1
  <2>3. CASE shown # {}
    <3>1. PICK n \in shown : Queue!Reply("clicked_visible", TRUE, Queue!PaneRoute(n))
      BY <1>9, <2>3 DEF Queue!ClickVisible
    <3>2. shown = {n}
      BY <3>1 DEF Numbered
    <3> QED
      BY <1>8, <2>1, <3>1, <3>2
  <2> QED
    BY <2>2, <2>3
<1>10. ASSUME Queue!ClickMore
       PROVE  Withdraws /\ Said
  BY <1>1, <1>4, <1>10 DEF Queue!ClickMore
<1>11. ASSUME NEW id, Queue!Select(id)
       PROVE  (Withdraws \/ Claims) /\ Said
  <2> DEFINE named == {n \in queue : n.event_id = id}
             first == {n \in named : \A m \in named : n.sequence <= m.sequence}
  <2>1. queue' = queue \ first /\ UNCHANGED <<status_width, next_sequence>>
    BY <1>11 DEF Queue!Select
  <2>2. id \notin EventIds => first = {}
    BY DEF Numbered
  <2>3. CASE first = {}
    <3>1. queue' = queue /\ \E o : Queue!Reply(o, FALSE, Queue!NoRoute)
      BY <1>11, <2>1, <2>3 DEF Queue!Select
    <3> QED
      BY <1>1, <1>4, <2>1, <3>1
  <2>4. CASE first # {}
    <3>1. PICK n \in first : Queue!Reply("selected", TRUE, Queue!PaneRoute(n))
      BY <1>11, <2>2, <2>4 DEF Queue!Select
    <3>2. first = {n}
      BY <3>1 DEF Numbered
    <3> QED
      BY <1>8, <2>1, <3>1, <3>2
  <2> QED
    BY <2>3, <2>4
<1> QED
  BY <1>5, <1>6, <1>7, <1>9, <1>10, <1>11 DEF Command

\* The steps that leave the queue and the row alone, and those of a command.
Quiet ==
    /\ UNCHANGED <<queue, next_sequence, status_width, result, tmux_row, row_stale, jumped>>
    /\ pc' = pc \/ (pc \notin After /\ pc' \notin After)
Commands ==
    /\ pc \notin After
    /\ Command /\ FinishStateChange
    /\ UNCHANGED <<tmux_row, row_stale, jumped>>

\* Every step is one of these or one of the four that follow a command.
LEMMA StepIs ==
    ASSUME [Next]_vars
    PROVE  Quiet \/ Commands \/ WriteStatus \/ WriteStatusFails \/ Refresh \/ Jump
<1> USE DEF queueVars, daemonVars, tmuxVars, outsideVars
<1>1. CASE UNCHANGED vars
  BY <1>1 DEF vars, Quiet
<1>2. CASE Outside
  BY <1>2 DEF Outside, Producer, FocusHook, PaneExits, ClientDetaches, UserClicksRow,
     UserClicksMore, ControlRequest, PopupOpens, PopupSelects, PopupCloses, ClientHangsUp,
     Signal, Quiet, After
<1>3. CASE Daemon
  <2>1. CASE \E r \in inflight : Accept(r)
    BY <2>1 DEF Accept, Quiet, After
  <2>2. CASE HandlePublish \/ ResolvePane \/ HandleList \/ HandleShutdown
             \/ HandleSessionClosed \/ CountSessions
    BY <2>2 DEF HandlePublish, ResolvePane, HandleList, HandleShutdown, HandleSessionClosed,
       CountSessions, Respond, Quiet, After
  <2>3. CASE ApplyPublish \/ HandleFocus \/ HandlePaneExited \/ HandleClick \/ HandleSelect
    BY <2>3 DEF ApplyPublish, HandleFocus, HandlePaneExited, HandleClick, HandleSelect, Handle,
       Commands, Command, After
  <2>4. CASE WriteResponse \/ WriteResponseFails
    BY <2>4 DEF WriteResponse, WriteResponseFails, Quiet, After
  <2> QED
    BY <1>3, <2>1, <2>2, <2>3, <2>4 DEF Daemon
<1>4. CASE \E r \in inflight : Unreachable(r)
  BY <1>4 DEF Unreachable, Quiet
<1> QED
  BY <1>1, <1>2, <1>3, <1>4 DEF Next

-----------------------------------------------------------------------------
(* The promise                                                              *)

\* What a command leaves for the daemon to do.
LEMMA FinishIs ==
    ASSUME FinishStateChange, Said
    PROVE  /\ pc' \in {"write_status", "jump", "respond"}
           /\ pc' = "jump" => result'.route.to = "pane"
           /\ result'.route.to = "pane" => pc' = "write_status"
           /\ queue' # queue \/ status_width' # status_width => pc' = "write_status"
BY DEF FinishStateChange, Said, AfterStatus, Respond, writes_status

LEMMA StepKeepsPromiseInv ==
    ASSUME PromiseInv, [Next]_vars
    PROVE  PromiseInv'
<1>1. Numbered /\ Settled
  BY DEF PromiseInv
<1>2. CASE Quiet
  BY <1>1, <1>2 DEF Quiet, PromiseInv, Numbered, Settled, After
<1>3. CASE Commands
  <2>1. (Posts \/ Withdraws \/ Claims) /\ Said
    BY <1>1, <1>3, CommandEffect DEF Commands
  <2>2. Numbered'
    <3>1. CASE Posts
      <4>1. PICK new, gone :
               /\ new.sequence = next_sequence /\ new.event_id \in EventIds
               /\ queue' = (queue \ gone) \cup {new}
        BY <3>1 DEF Posts
      <4>2. next_sequence' = next_sequence + 1
        BY <3>1 DEF Posts
      <4> QED
        BY <1>1, <4>1, <4>2 DEF Numbered
    <3>2. CASE Withdraws \/ Claims
      <4>1. queue' \subseteq queue /\ next_sequence' = next_sequence
        BY <3>2 DEF Withdraws, Claims
      <4> QED
        BY <1>1, <4>1 DEF Numbered
    <3> QED
      BY <2>1, <3>1, <3>2
  <2>3. Settled'
    <3>1. /\ pc' = "jump" => result'.route.to = "pane"
          /\ queue' # queue \/ status_width' # status_width => pc' = "write_status"
      BY <1>3, <2>1, FinishIs DEF Commands
    <3>2. pc # "write_status" /\ UNCHANGED <<tmux_row, row_stale>>
      BY <1>3 DEF Commands, After
    <3> QED
      BY <1>1, <3>1, <3>2 DEF Settled
  <2> QED
    BY <2>2, <2>3 DEF PromiseInv
<1>4. CASE WriteStatus \/ WriteStatusFails \/ Refresh \/ Jump
  <2>1. UNCHANGED <<queue, next_sequence, result, status_width>>
    BY <1>4 DEF WriteStatus, WriteStatusFails, Refresh, Jump, queueVars
  <2>2. Numbered'
    BY <1>1, <2>1 DEF Numbered
  <2>3. pc' = "jump" => result.route.to = "pane"
    BY <1>4 DEF WriteStatus, WriteStatusFails, Refresh, Jump, AfterStatus, Respond
  <2>4. pc' # "write_status" /\ ~row_stale' => tmux_row' = Row(queue, status_width)
    BY <1>1, <1>4 DEF WriteStatus, WriteStatusFails, Refresh, Jump, tmuxVars, Settled
  <2> QED
    BY <2>1, <2>2, <2>3, <2>4 DEF PromiseInv, Settled
<1> QED
  BY <1>2, <1>3, <1>4, StepIs

LEMMA PromiseInvHolds == Spec => []PromiseInv
<1>1. ASSUME Init
      PROVE  PromiseInv
  BY <1>1 DEF Init, PromiseInv, Numbered, Settled, Row
<1>2. PromiseInv /\ [Next]_vars => PromiseInv'
  BY StepKeepsPromiseInv
<1> QED
  BY <1>1, <1>2, PTL DEF Spec

\* Between requests the row shows the queue, whatever tmux calls failed before
\* the last write (finish_state_change, set_notification_status).
THEOREM RowAlwaysTells == Spec => []RowTellsTheQueue
<1>1. PromiseInv => RowTellsTheQueue
  BY DEF PromiseInv, Settled, RowTellsTheQueue
<1> QED
  BY <1>1, PromiseInvHolds, PTL

\* The steps as they are seen through the refinement mapping.
LEMMA StepKeepsPromise ==
    ASSUME PromiseInv, [Next]_vars
    PROVE  [Promise!Next]_(Promise!promiseVars)
<1> DEFINE numbers == Sequences(queue)
           claimed == Claimed
<1>1. Numbered /\ Settled
  BY DEF PromiseInv
<1>2. ASSUME numbers' \subseteq numbers, next_sequence' = next_sequence, claimed' = claimed,
             jumped' = jumped
      PROVE  Promise!Next
  BY <1>2 DEF Promise!Next, Promise!Withdraw
<1>3. CASE Quiet
  <2>1. /\ UNCHANGED <<queue, next_sequence, result, jumped>>
        /\ pc' = pc \/ (pc \notin After /\ pc' \notin After)
    BY <1>3 DEF Quiet
  <2>2. claimed' = claimed
    BY <2>1 DEF Claimed, After
  <2> QED
    BY <1>2, <2>1, <2>2
<1>4. CASE Commands
  <2>1. (Posts \/ Withdraws \/ Claims) /\ Said /\ claimed = {} /\ jumped' = jumped
    BY <1>1, <1>4, CommandEffect DEF Commands, Claimed, After
  <2>2. claimed' = IF result'.route.to = "pane" THEN {result'.route.sequence} ELSE {}
    BY <1>4, <2>1, FinishIs DEF Commands, Claimed
  <2>3. CASE Posts
    <3>1. PICK new, gone :
             new.sequence = next_sequence /\ queue' = (queue \ gone) \cup {new}
      BY <2>3 DEF Posts
    <3> DEFINE withdrawn == numbers \ Sequences(queue \ gone)
    <3>2. numbers' = (numbers \ withdrawn) \cup {next_sequence} /\ withdrawn \in SUBSET numbers
      BY <3>1 DEF Sequences
    <3>3. next_sequence' = next_sequence + 1 /\ claimed' = claimed
      BY <2>1, <2>2, <2>3 DEF Posts
    <3> HIDE DEF withdrawn
    <3> QED
      BY <2>1, <3>2, <3>3 DEF Promise!Next, Promise!Post
  <2>4. CASE Withdraws
    <3>1. numbers' \subseteq numbers
      BY <2>4 DEF Withdraws, Sequences
    <3> QED
      BY <1>2, <2>1, <2>2, <2>4, <3>1 DEF Withdraws
  <2>5. CASE Claims
    <3>1. PICK n \in queue :
             /\ queue' = queue \ {n} /\ next_sequence' = next_sequence
             /\ result'.route.to = "pane" /\ result'.route.sequence = n.sequence
      BY <2>5 DEF Claims
    <3>2. n.sequence \in numbers /\ numbers' = numbers \ {n.sequence}
      BY <1>1, <3>1 DEF Numbered, Sequences
    <3>3. claimed' = {n.sequence}
      BY <2>2, <3>1
    <3> QED
      BY <2>1, <3>1, <3>2, <3>3 DEF Promise!Next, Promise!Claim
  <2> QED
    BY <2>1, <2>3, <2>4, <2>5
<1>5. CASE WriteStatus \/ WriteStatusFails \/ Refresh \/ Jump
  <2>1. UNCHANGED <<queue, next_sequence, result>> /\ numbers' = numbers
    BY <1>5 DEF WriteStatus, WriteStatusFails, Refresh, Jump, queueVars
  <2>2. CASE claimed' = claimed /\ jumped' = jumped
    BY <1>2, <2>1, <2>2
  <2>3. CASE claimed # {} /\ claimed' = {} /\ jumped' = jumped
    BY <2>1, <2>3 DEF Promise!Next, Promise!Abandon
  <2>4. CASE WriteStatus \/ WriteStatusFails \/ Refresh
    <3>1. /\ jumped' = jumped /\ pc \in {"write_status", "refresh"}
          /\ pc' \in {"refresh", "jump", "respond"}
          /\ pc' = "respond" \/ claimed' = claimed
      BY <2>1, <2>4 DEF WriteStatus, WriteStatusFails, Refresh, AfterStatus, Respond, Claimed,
         outsideVars
    <3>2. claimed' = claimed \/ (claimed # {} /\ claimed' = {})
      BY <3>1 DEF Claimed
    <3> QED
      BY <2>2, <2>3, <3>1, <3>2
  <2>5. CASE Jump
    <3>1. claimed = {result.route.sequence} /\ claimed' = {}
      BY <1>1, <2>5 DEF Jump, Claimed, Respond, Settled
    <3>2. jumped' = jumped \/ jumped' = jumped \cup {result.route.sequence}
      BY <2>5 DEF Jump
    <3>3. CASE jumped' = jumped \cup {result.route.sequence}
      <4>1. claimed' = claimed \ {result.route.sequence}
        BY <3>1
      <4> QED
        BY <2>1, <3>1, <3>3, <4>1 DEF Promise!Next, Promise!Visit
    <3> QED
      BY <2>3, <3>1, <3>2, <3>3
  <2> QED
    BY <1>5, <2>4, <2>5
<1> QED
  BY <1>3, <1>4, <1>5, StepIs

\* The daemon implements the promise: once claimed, a notification's pane is
\* switched to at most once, and never after it was withdrawn, although the queue,
\* the row and the jump are steps of their own and each may fail (handle,
\* finish_state_change, execute_jump).
THEOREM PromiseKept == Spec => KeepsPromise
<1>1. ASSUME Init
      PROVE  Promise!Init
  BY <1>1 DEF Init, Promise!Init, Sequences, Claimed
<1>2. PromiseInv /\ [Next]_vars => [Promise!Next]_(Promise!promiseVars)
  BY StepKeepsPromise
<1> QED
  BY <1>1, <1>2, PromiseInvHolds, PTL DEF Spec, KeepsPromise, Promise!Spec

-----------------------------------------------------------------------------
(* Exited panes                                                             *)

\* The one thing that takes a pane's notifications away when it has exited.
Hook(pane) == [op |-> "pane_exited", pane |-> pane]

\* While the hook has not been read, the pane's notifications are accounted for.
Underway(pane) == pane \in alive \cup lost \/ Hook(pane) \in inflight
Accounted(pane) == Underway(pane) \/ (pc = "read" /\ request = Hook(pane))

\* What was queued is accounted for, and what is about to be: since tmux was
\* asked about its pane, no hook can have been served.
DrainInv ==
    pc # "down" =>
        /\ \A n \in queue : Accounted(n.pane)
        /\ pc = "apply" => Underway(request.event.pane)

\* A publication queues its own pane, nothing else queues one, and the hook takes
\* its pane's notifications away.
LEMMA CommandPanes ==
    /\ \A event : Queue!Publish(event) =>
           \A n \in queue' : n \in queue \/ n.pane = event.pane
    /\ \A client, width, acknowledge :
           Queue!UpdateActiveClient(client, width, acknowledge) => queue' \subseteq queue
    /\ \A panes : Queue!RemoveStalePanes(panes) =>
           queue' \subseteq queue /\ \A n \in queue' : n.pane \notin panes
    /\ \A sequence : Queue!ClickVisible(sequence) => queue' \subseteq queue
    /\ Queue!ClickMore => queue' \subseteq queue
    /\ \A id : Queue!Select(id) => queue' \subseteq queue
<1>1. ASSUME NEW event, Queue!Publish(event), NEW n \in queue'
      PROVE  n \in queue \/ n.pane = event.pane
  <2>1. CASE Queue!Enqueue(event)
    <3>1. queue' = (queue \ Queue!Evicted(event.kind))
                       \cup {Queue!Queued(event, next_sequence)}
      BY <2>1 DEF Queue!Enqueue
    <3>2. Queue!Queued(event, next_sequence).pane = event.pane
      BY DEF Queue!Queued
    <3> QED
      BY <1>1, <3>1, <3>2
  <2>2. CASE queue' = queue
    BY <1>1, <2>2
  <2> QED
    BY <1>1, <2>1, <2>2 DEF Queue!Publish, Queue!RejectEventId, Queue!DropDuplicate,
       Queue!SuppressByFocus, Queue!RefuseFull, Queue!SequenceExhausted
<1>2. ASSUME NEW panes, Queue!RemoveStalePanes(panes)
      PROVE  queue' \subseteq queue /\ \A n \in queue' : n.pane \notin panes
  BY <1>2 DEF Queue!RemoveStalePanes
<1>3. \A client, width, acknowledge :
          Queue!UpdateActiveClient(client, width, acknowledge) => queue' \subseteq queue
  BY DEF Queue!UpdateActiveClient
<1>4. \A sequence : Queue!ClickVisible(sequence) => queue' \subseteq queue
  BY DEF Queue!ClickVisible
<1>5. Queue!ClickMore => queue' \subseteq queue
  BY DEF Queue!ClickMore
<1>6. \A id : Queue!Select(id) => queue' \subseteq queue
  BY DEF Queue!Select
<1> QED
  BY <1>1, <1>2, <1>3, <1>4, <1>5, <1>6

\* A step that loses no pane's hook, and reads or resolves no request.
LEMMA NothingLost ==
    ASSUME DrainInv, pc # "down", queue' \subseteq queue,
           inflight \subseteq inflight', alive' = alive, lost \subseteq lost',
           \/ pc' = pc /\ request' = request
           \/ /\ pc = "read" /\ request.op = "pane_exited" =>
                    \/ request.pane \in lost'
                    \/ \A n \in queue' : n.pane # request.pane
              /\ pc' # "apply"
    PROVE  DrainInv'
<1>1. \A pane : Underway(pane) => Underway(pane)'
  BY DEF Underway, Hook
<1>2. ASSUME NEW n \in queue'
      PROVE  Accounted(n.pane)'
  <2>1. n \in queue /\ Accounted(n.pane)
    BY <1>2 DEF DrainInv
  <2>2. CASE pc = "read" /\ request = Hook(n.pane)
    <3>1. request.op = "pane_exited" /\ request.pane = n.pane
      BY <2>2 DEF Hook
    <3> QED
      BY <1>2, <2>2, <3>1 DEF Accounted, Underway, Hook
  <2> QED
    BY <1>1, <2>1, <2>2 DEF Accounted
<1>3. pc' = "apply" => Underway(request.event.pane)'
  BY <1>1 DEF DrainInv
<1> QED
  BY <1>2, <1>3 DEF DrainInv

LEMMA StepKeepsDrainInv ==
    ASSUME DrainInv, [Next]_vars
    PROVE  DrainInv'
<1> USE DEF queueVars, daemonVars, tmuxVars, outsideVars
<1>1. CASE UNCHANGED vars
  BY <1>1 DEF vars, DrainInv, Accounted, Underway, Hook
<1>2. CASE pc = "down"
  <2>1. CASE Outside
    BY <1>2, <2>1 DEF Outside, Producer, FocusHook, PaneExits, ClientDetaches, UserClicksRow,
       UserClicksMore, ControlRequest, PopupOpens, PopupSelects, PopupCloses, ClientHangsUp,
       Signal, DrainInv
  <2>2. ~Daemon
    BY <1>2 DEF Daemon, Accept, HandlePublish, ResolvePane, ApplyPublish, HandleFocus,
       HandlePaneExited, HandleClick, HandleSelect, HandleList, HandleShutdown,
       HandleSessionClosed, CountSessions, WriteStatus, WriteStatusFails, Refresh, Jump,
       WriteResponse, WriteResponseFails
  <2>3. CASE \E r \in inflight : Unreachable(r)
    BY <1>2, <2>3 DEF Unreachable, DrainInv
  <2> QED
    BY <1>1, <2>1, <2>2, <2>3 DEF Next
<1>3. ASSUME pc # "down", Outside
      PROVE  DrainInv'
  <2>1. CASE \/ \E event \in left.publications : Producer(event)
             \/ \E client \in Clients, pane \in Panes, width \in Widths,
                   focused, acknowledge \in BOOLEAN :
                     FocusHook(client, pane, width, focused, acknowledge)
             \/ \E client \in Clients : ClientDetaches(client)
             \/ \E client \in Clients : UserClicksRow(client) \/ UserClicksMore(client)
             \/ \E op \in {"session_closed", "shutdown"} : ControlRequest(op)
             \/ \E client \in Clients : PopupOpens(client)
             \/ PopupSelects
             \/ PopupCloses
    <3>1. /\ UNCHANGED <<queue, pc, request, alive, lost>>
          /\ inflight \subseteq inflight'
      BY <2>1 DEF Producer, FocusHook, ClientDetaches, UserClicksRow, UserClicksMore,
         ControlRequest, PopupOpens, PopupSelects, PopupCloses, Send
    <3> QED
      BY <1>3, <3>1, NothingLost
  <2>2. ASSUME NEW gone \in Panes, PaneExits(gone)
        PROVE  DrainInv'
    <3>1. /\ UNCHANGED <<queue, pc, request, lost>>
          /\ alive' = alive \ {gone} /\ inflight' = inflight \cup {Hook(gone)}
      BY <2>2 DEF PaneExits, Send, Hook
    <3>2. \A pane : Underway(pane) => Underway(pane)'
      BY <3>1 DEF Underway, Hook
    <3> QED
      BY <3>1, <3>2 DEF DrainInv, Accounted, Hook
  <2>3. CASE ClientHangsUp
    <3>1. /\ UNCHANGED <<queue, alive, inflight>>
          /\ pc = "read" /\ pc' # "apply"
          /\ lost \subseteq lost'
          /\ request.op = "pane_exited" => request.pane \in lost'
      BY <2>3 DEF ClientHangsUp
    <3> QED
      BY <1>3, <3>1, NothingLost
  <2>4. CASE Signal
    BY <2>4 DEF Signal, DrainInv
  <2> QED
    BY <1>3, <2>1, <2>2, <2>3, <2>4 DEF Outside
<1>4. ASSUME pc # "down", Daemon
      PROVE  DrainInv'
  <2>1. ASSUME NEW r \in inflight, Accept(r)
        PROVE  DrainInv'
    <3>1. /\ UNCHANGED <<queue, alive, lost>>
          /\ pc = "accept" /\ pc' = "read" /\ request' = r
          /\ inflight' = inflight \ {r}
      BY <2>1 DEF Accept
    <3>2. \A n \in queue : Underway(n.pane)
      BY <1>4, <3>1 DEF DrainInv, Accounted
    <3> QED
      BY <3>1, <3>2 DEF DrainInv, Accounted, Underway, Hook
  <2>2. CASE HandlePublish \/ HandleList \/ HandleShutdown \/ HandleSessionClosed
             \/ CountSessions \/ WriteStatus \/ WriteStatusFails \/ Refresh \/ Jump
    <3>1. /\ UNCHANGED <<queue, alive, lost, inflight>>
          /\ pc = "read" => request.op # "pane_exited"
          /\ pc' # "apply"
      BY <2>2 DEF HandlePublish, HandleList, HandleShutdown, HandleSessionClosed,
         CountSessions, WriteStatus, WriteStatusFails, Refresh, Jump, Respond, AfterStatus
    <3> QED
      BY <1>4, <3>1, NothingLost
  <2>3. CASE ResolvePane
    <3>1. /\ UNCHANGED <<queue, alive, lost, inflight, request>>
          /\ pc = "resolve" /\ pc' # "read"
          /\ pc' = "apply" => request.event.pane \in alive
      BY <2>3 DEF ResolvePane, Respond
    <3> QED
      BY <1>4, <3>1 DEF DrainInv, Accounted, Underway, Hook
  <2>4. ASSUME NEW command, Handle(command)
        PROVE  /\ UNCHANGED <<alive, lost, inflight, request>>
               /\ pc' \in {"write_status", "jump", "respond"}
    BY <2>4 DEF Handle, FinishStateChange, AfterStatus, Respond
  <2>5. CASE ApplyPublish
    <3>1. /\ UNCHANGED <<alive, lost, inflight, request>>
          /\ pc' \in {"write_status", "jump", "respond"}
          /\ pc = "apply"
      BY <2>4, <2>5 DEF ApplyPublish
    <3>2. \A n \in queue' : n \in queue \/ n.pane = request.event.pane
      BY <2>5, CommandPanes DEF ApplyPublish, Handle
    <3>3. \A n \in queue' : Underway(n.pane)
      BY <1>4, <3>1, <3>2 DEF DrainInv, Accounted
    <3> QED
      BY <3>1, <3>3 DEF DrainInv, Accounted, Underway, Hook
  <2>6. CASE HandleFocus \/ HandleClick \/ HandleSelect
    <3>1. /\ UNCHANGED <<alive, lost, inflight, request>>
          /\ pc' \in {"write_status", "jump", "respond"}
          /\ request.op # "pane_exited"
      BY <2>4, <2>6 DEF HandleFocus, HandleClick, HandleSelect
    <3>2. queue' \subseteq queue
      BY <2>6, CommandPanes DEF HandleFocus, HandleClick, HandleSelect, Handle
    <3> QED
      BY <1>4, <3>1, <3>2, NothingLost
  <2>7. CASE HandlePaneExited
    <3>1. /\ UNCHANGED <<alive, lost, inflight, request>>
          /\ pc' \in {"write_status", "jump", "respond"}
      BY <2>4, <2>7 DEF HandlePaneExited
    <3>2. queue' \subseteq queue /\ \A n \in queue' : n.pane # request.pane
      BY <2>7, CommandPanes DEF HandlePaneExited, Handle
    <3> QED
      BY <1>4, <3>1, <3>2, NothingLost
  <2>8. CASE WriteResponse \/ WriteResponseFails
    <3>1. /\ UNCHANGED <<queue, alive, lost>>
          /\ pc = "respond" /\ pc' # "apply"
          /\ inflight \subseteq inflight'
      BY <2>8 DEF WriteResponse, WriteResponseFails, ClientGetsResponse, PopupReceivesPage,
         PopupReceivesSelection, PopupRequestFails, Send
    <3> QED
      BY <1>4, <3>1, NothingLost
  <2> QED
    BY <1>4, <2>1, <2>2, <2>3, <2>5, <2>6, <2>7, <2>8 DEF Daemon
<1> QED
  BY <1>1, <1>2, <1>3, <1>4 DEF Next, Unreachable

\* A notification of a pane that exited is queued only while the pane's exit hook
\* is on its way, or died unread, although tmux is asked about the pane before
\* the event is applied (publish, remove_stale_panes).
THEOREM ExitedPanesAlwaysDrain == Spec => []ExitedPanesDrain
<1>1. ASSUME Init
      PROVE  DrainInv
  BY <1>1 DEF Init, DrainInv
<1>2. DrainInv /\ [Next]_vars => DrainInv'
  BY StepKeepsDrainInv
<1>3. ASSUME DrainInv
      PROVE  ExitedPanesDrain
  BY <1>3 DEF DrainInv, Accounted, Underway, Hook, ExitedPanesDrain
<1> QED
  BY <1>1, <1>2, <1>3, PTL DEF Spec

-----------------------------------------------------------------------------
(* The list, page by page                                                   *)

Ascending(list) ==
    \A i, j \in 1 .. Len(list) : i < j => Queue!Before(list[i], list[j])
Has(list, n) == \E i \in 1 .. Len(list) : list[i] = n

\* Cursors are ordered as the notifications they stand behind.
Cursor == [priority : Nat, sequence : Nat]
IsBehind(n, cursor) ==
    \/ Queue!priority[n.kind] < cursor.priority
    \/ Queue!priority[n.kind] = cursor.priority /\ n.sequence > cursor.sequence
Advances(next, cursor) ==
    \/ next.priority < cursor.priority
    \/ next.priority = cursor.priority /\ next.sequence > cursor.sequence

Asks(r) == r.op \in {"list", "select"}

Popups ==
    [phase : {"closed", "listing", "open", "selecting"},
     client : Clients \cup {NoClient}, opened : BOOLEAN,
     received : Seq(Queue!Notification), items : Seq(Queue!Notification)]

ListTypes ==
    /\ IsFiniteSet(queue) /\ queue \subseteq Queue!Notification
    /\ steady \subseteq queue
    /\ left \in Budget
    /\ \A r \in inflight \cup {request} : r.op = "publish" => r.event \in Queue!Events
    /\ popup \in Popups

\* The popup has one request under way, and it is the one it waits for.
OneAsked ==
    /\ pc \in {"accept", "down"} => request = NoRequest
    /\ request.op = "list" => pc \in {"read", "respond"}
    /\ \A r \in inflight \cup {request} :
           /\ r.op = "list" => popup.phase = "listing"
           /\ r.op = "select" => popup.phase = "selecting"
    /\ \A r, q \in inflight : Asks(r) /\ Asks(q) => r = q
    /\ Asks(request) => \A r \in inflight : ~Asks(r)

\* A cursor divides what was received from what is to come: of what was queued
\* all the time, nothing is on neither side.
Divides(cursor) ==
    /\ cursor \in Cursor
    /\ \A i \in 1 .. Len(popup.received) : ~IsBehind(popup.received[i], cursor)
    /\ \A n \in steady : IsBehind(n, cursor) \/ Has(popup.received, n)

\* The answer to a listing continues behind its cursor, and says how far.
Continues(page, next, cursor) ==
    /\ page \in Seq(Queue!Notification) /\ Ascending(page)
    /\ \A i \in 1 .. Len(page) : IsBehind(page[i], cursor)
    /\ next = NoCursor =>
           \A n \in steady : IsBehind(n, cursor) => Has(page, n)
    /\ next # NoCursor =>
           /\ next \in Cursor /\ Advances(next, cursor)
           /\ \A i \in 1 .. Len(page) : ~IsBehind(page[i], next)
           /\ \A n \in steady : IsBehind(n, cursor) => IsBehind(n, next) \/ Has(page, n)

Listing ==
    /\ Ascending(popup.received) /\ Ascending(popup.items)
    /\ popup.phase # "listing" => popup.received = <<>>
    /\ popup.phase = "open" => \A n \in steady : Has(popup.items, n)
    /\ \A r \in inflight \cup {request} : r.op = "list" => Divides(r.cursor)
    /\ pc = "respond" /\ request.op = "list" =>
           Continues(response.page, response.next, request.cursor)

ListInv == ListTypes /\ OneAsked /\ Listing

\* The keys of the list order.
LEMMA KeyIs ==
    ASSUME NEW n \in Queue!Notification
    PROVE  /\ Queue!priority[n.kind] \in Nat /\ Queue!priority[n.kind] < 5
           /\ n.sequence \in Nat
BY DEF Queue!Notification, Queue!Kinds, Queue!priority

\* Notifications are totally ordered where their sequences tell them apart.
LEMMA OrderIs ==
    ASSUME NEW a \in Queue!Notification, NEW b \in Queue!Notification,
           NEW c \in Queue!Notification
    PROVE  /\ ~Queue!Before(a, a)
           /\ Queue!Before(a, b) /\ Queue!Before(b, c) => Queue!Before(a, c)
           /\ a.sequence # b.sequence => Queue!Before(a, b) \/ Queue!Before(b, a)
BY KeyIs DEF Queue!Before

\* Places in the order of a finite set: each is taken once.
LEMMA Places ==
    ASSUME NEW S, IsFiniteSet(S), S \subseteq Queue!Notification,
           \A m, n \in S : m.sequence = n.sequence => m = n
    PROVE  /\ Cardinality(S) \in Nat
           /\ \A n \in S : Rank(n, S) \in Nat /\ Rank(n, S) < Cardinality(S)
           /\ \A m, n \in S : Queue!Before(m, n) <=> Rank(m, S) < Rank(n, S)
           /\ \A k \in Nat : k < Cardinality(S) => \E n \in S : Rank(n, S) = k
<1> DEFINE Ahead(n) == {m \in S : Queue!Before(m, n)}
           size == Cardinality(S)
<1>1. size \in Nat
  BY FS_CardinalityType
<1>2. ASSUME NEW n \in S
      PROVE  /\ IsFiniteSet(Ahead(n)) /\ Rank(n, S) = Cardinality(Ahead(n))
             /\ Rank(n, S) \in Nat /\ Rank(n, S) < size
  <2>1. Ahead(n) \in SUBSET S /\ n \notin Ahead(n)
    BY <1>2, OrderIs
  <2>2. /\ IsFiniteSet(Ahead(n)) /\ Cardinality(Ahead(n)) <= size
        /\ size = Cardinality(Ahead(n)) => S = Ahead(n)
    BY <2>1, FS_Subset
  <2>3. Cardinality(Ahead(n)) \in Nat
    BY <2>2, FS_CardinalityType
  <2>4. Rank(n, S) = Cardinality(Ahead(n))
    BY DEF Rank
  <2> QED
    BY <1>1, <1>2, <2>1, <2>2, <2>3, <2>4
<1>3. ASSUME NEW m \in S, NEW n \in S, Queue!Before(m, n)
      PROVE  Rank(m, S) < Rank(n, S)
  <2>1. Ahead(m) \in SUBSET Ahead(n)
    BY <1>3, OrderIs
  <2>2. m \in Ahead(n) /\ m \notin Ahead(m)
    BY <1>3, OrderIs
  <2>3. /\ Cardinality(Ahead(m)) <= Cardinality(Ahead(n))
        /\ Cardinality(Ahead(n)) = Cardinality(Ahead(m)) => Ahead(n) = Ahead(m)
    BY <1>2, <2>1, FS_Subset
  <2>4. Cardinality(Ahead(n)) # Cardinality(Ahead(m))
    BY <2>2, <2>3
  <2>5. /\ Rank(m, S) = Cardinality(Ahead(m)) /\ Rank(m, S) \in Nat
        /\ Rank(n, S) = Cardinality(Ahead(n)) /\ Rank(n, S) \in Nat
    BY <1>2
  <2> HIDE DEF Ahead
  <2> QED
    BY <2>3, <2>4, <2>5
<1>4. /\ \A n \in S : Rank(n, S) \in Nat /\ Rank(n, S) < size
      /\ \A m, n \in S : Queue!Before(m, n) => Rank(m, S) < Rank(n, S)
  BY <1>2, <1>3
<1> HIDE DEF Ahead, size
<1>5. ASSUME NEW m \in S, NEW n \in S, Rank(m, S) < Rank(n, S)
      PROVE  Queue!Before(m, n)
  <2>1. m.sequence # n.sequence
    BY <1>4, <1>5
  <2>2. ~Queue!Before(n, m)
    BY <1>4, <1>5
  <2> QED
    BY <2>1, <2>2, OrderIs
<1>6. ASSUME NEW k \in Nat, k < size
      PROVE  \E n \in S : Rank(n, S) = k
  <2> DEFINE ranks == 0 .. (size - 1)
             place == [n \in S |-> Rank(n, S)]
  <2>1. IsFiniteSet(ranks) /\ Cardinality(ranks) = size
    BY <1>1, FS_Interval
  <2>2. place \in [S -> ranks]
    BY <1>1, <1>4
  <2>3. ASSUME NEW m \in S, NEW n \in S, place[m] = place[n]
        PROVE  m = n
    <3>1. ~Queue!Before(m, n) /\ ~Queue!Before(n, m)
      BY <1>4, <2>3
    <3> QED
      BY <2>3, <3>1, OrderIs
  <2>4. place \in Injection(S, ranks)
    BY <2>2, <2>3 DEF Injection, IsInjective
  <2>5. place \in Surjection(S, ranks)
    BY <2>1, <2>4, FS_Injection DEF size
  <2>6. k \in ranks
    BY <1>1, <1>6
  <2> HIDE DEF ranks
  <2>7. PICK n \in S : place[n] = k
    BY <2>5, <2>6 DEF Surjection
  <2> QED
    BY <2>7
<1> QED
  BY <1>1, <1>4, <1>5, <1>6 DEF size

LEMMA SmallerIs ==
    ASSUME NEW a \in Nat, NEW b \in Nat
    PROVE  /\ Min({a, b}) \in {a, b}
           /\ Min({a, b}) <= a /\ Min({a, b}) <= b
<1>1. \E x \in {a, b} : \A y \in {a, b} : x <= y
  OBVIOUS
<1> QED
  BY <1>1 DEF Min

\* A page is the first of what is behind the cursor, in order.
LEMMA PageIs ==
    ASSUME IsFiniteSet(queue), queue \subseteq Queue!Notification, Numbered,
           NEW cursor
    PROVE  LET behind == Behind(cursor)
               page == Page(cursor) IN
           /\ page \in Seq(behind)
           /\ Cardinality(behind) \in Nat /\ Len(page) <= Cardinality(behind)
           /\ Ascending(page)
           /\ Len(page) = Cardinality(behind) => \A n \in behind : Has(page, n)
           /\ Len(page) < Cardinality(behind) =>
                  /\ Len(page) > 0
                  /\ \A n \in behind : Has(page, n) \/ Queue!Before(Last(page), n)
<1> DEFINE behind == Behind(cursor)
           page == Page(cursor)
           size == Min({LIST_PAGE_SIZE, Cardinality(behind)})
<1>1. /\ IsFiniteSet(behind) /\ behind \subseteq Queue!Notification
      /\ \A m, n \in behind : m.sequence = n.sequence => m = n
  <2>1. behind \in SUBSET queue
    BY DEF Behind
  <2> QED
    BY <2>1, FS_Subset DEF Numbered
<1>2. page = [i \in 1 .. size |-> CHOOSE n \in behind : Rank(n, behind) = i - 1]
  BY DEF Page
<1> HIDE DEF behind, page
<1>3. /\ Cardinality(behind) \in Nat
      /\ \A m, n \in behind : Queue!Before(m, n) <=> Rank(m, behind) < Rank(n, behind)
      /\ \A n \in behind : Rank(n, behind) \in Nat /\ Rank(n, behind) < Cardinality(behind)
      /\ \A k \in Nat : k < Cardinality(behind) => \E n \in behind : Rank(n, behind) = k
  BY <1>1, Places
<1>4. /\ size \in Nat /\ size <= Cardinality(behind)
      /\ size = Cardinality(behind) \/ size > 0
  BY <1>3, SmallerIs, PageAssumption
<1> HIDE DEF size
<1>5. ASSUME NEW i \in 1 .. size
      PROVE  page[i] \in behind /\ Rank(page[i], behind) = i - 1
  <2>1. \E n \in behind : Rank(n, behind) = i - 1
    BY <1>3, <1>4
  <2> QED
    BY <1>2, <2>1
<1>6. page \in Seq(behind) /\ Len(page) = size
  BY <1>2, <1>4, <1>5
<1>7. Ascending(page)
  BY <1>3, <1>4, <1>5, <1>6 DEF Ascending
<1>8. ASSUME NEW n \in behind, Rank(n, behind) < size
      PROVE  Has(page, n)
  <2> DEFINE i == Rank(n, behind) + 1
  <2>1. i \in 1 .. size /\ i - 1 = Rank(n, behind)
    BY <1>3, <1>4, <1>8
  <2> HIDE DEF i
  <2>2. page[i] \in behind /\ Rank(page[i], behind) = Rank(n, behind)
    BY <1>5, <2>1
  <2>3. ~Queue!Before(page[i], n) /\ ~Queue!Before(n, page[i])
    BY <1>3, <2>2
  <2>4. page[i] = n
    BY <1>1, <2>2, <2>3, OrderIs
  <2> QED
    BY <1>6, <2>1, <2>4 DEF Has
<1>9. ASSUME size < Cardinality(behind)
      PROVE  /\ size > 0
             /\ \A n \in behind : Has(page, n) \/ Queue!Before(Last(page), n)
  <2>1. size > 0
    BY <1>3, <1>4, <1>9
  <2>2. Last(page) \in behind /\ Rank(Last(page), behind) = size - 1
    BY <1>4, <1>5, <1>6, <2>1 DEF Last
  <2>3. ASSUME NEW n \in behind, ~(Rank(n, behind) < size)
        PROVE  Queue!Before(Last(page), n)
    BY <1>3, <1>4, <2>2, <2>3
  <2> QED
    BY <1>8, <2>1, <2>3
<1>10. size = Cardinality(behind) => \A n \in behind : Has(page, n)
  BY <1>3, <1>8
<1> QED
  BY <1>3, <1>4, <1>6, <1>7, <1>9, <1>10 DEF behind, page

\* How cursors compare with the notifications they were made from.
LEMMA CursorIs ==
    ASSUME NEW m \in Queue!Notification, NEW n \in Queue!Notification,
           NEW c \in Cursor, NEW d \in Cursor
    PROVE  /\ ~IsBehind(m, c) /\ IsBehind(n, c) => Queue!Before(m, n)
           /\ Advances(d, c) /\ ~IsBehind(m, c) => ~IsBehind(m, d)
           /\ CursorOf(m) \in Cursor /\ CursorOf(m) # NoCursor
           /\ IsBehind(n, CursorOf(m)) <=> Queue!Before(m, n)
           /\ IsBehind(m, c) => Advances(CursorOf(m), c)
<1>1. /\ CursorOf(m).priority = Queue!priority[m.kind]
      /\ CursorOf(m).sequence = m.sequence
  BY DEF CursorOf
<1>2. CursorOf(m) \in Cursor
  BY KeyIs DEF CursorOf, Cursor
<1>3. CursorOf(m) # NoCursor
  BY <1>1, KeyIs DEF NoCursor
<1> QED
  BY <1>1, <1>2, <1>3, KeyIs DEF IsBehind, Advances, Queue!Before, Cursor

LEMMA StartIs ==
    /\ NoCursor \in Cursor
    /\ \A n \in Queue!Notification : IsBehind(n, NoCursor)
BY KeyIs DEF NoCursor, Cursor, IsBehind

\* What a page adds to what was received.
LEMMA ReceivedIs ==
    ASSUME NEW list \in Seq(Queue!Notification), NEW page \in Seq(Queue!Notification),
           NEW both, both = list \o page
    PROVE  /\ both \in Seq(Queue!Notification)
           /\ \A n : Has(both, n) <=> Has(list, n) \/ Has(page, n)
           /\ \A i \in 1 .. Len(both) : Has(list, both[i]) \/ Has(page, both[i])
           /\ /\ Ascending(list) /\ Ascending(page)
              /\ \A i \in 1 .. Len(list), j \in 1 .. Len(page) :
                     Queue!Before(list[i], page[j])
              => Ascending(both)
<1>1. /\ both \in Seq(Queue!Notification) /\ Len(both) = Len(list) + Len(page)
      /\ Len(list) \in Nat /\ Len(page) \in Nat
      /\ \A i \in 1 .. Len(list) : both[i] = list[i]
      /\ \A i \in 1 .. Len(both) : i > Len(list) =>
             both[i] = page[i - Len(list)] /\ i - Len(list) \in 1 .. Len(page)
      /\ \A j \in 1 .. Len(page) :
             both[Len(list) + j] = page[j] /\ Len(list) + j \in 1 .. Len(both)
  OBVIOUS
<1>2. \A i \in 1 .. Len(both) : i \in 1 .. Len(list) \/ i > Len(list)
  BY <1>1
<1>3. \A i \in 1 .. Len(both) : Has(list, both[i]) \/ Has(page, both[i])
  BY <1>1, <1>2 DEF Has
<1>4. ASSUME NEW n
      PROVE  Has(both, n) <=> Has(list, n) \/ Has(page, n)
  <2>1. Has(list, n) => Has(both, n)
    BY <1>1 DEF Has
  <2>2. Has(page, n) => Has(both, n)
    BY <1>1 DEF Has
  <2> QED
    BY <1>3, <2>1, <2>2 DEF Has
<1>5. ASSUME Ascending(list), Ascending(page),
             \A i \in 1 .. Len(list), j \in 1 .. Len(page) : Queue!Before(list[i], page[j]),
             NEW i \in 1 .. Len(both), NEW j \in 1 .. Len(both), i < j
      PROVE  Queue!Before(both[i], both[j])
  <2>1. CASE j \in 1 .. Len(list)
    <3>1. i \in 1 .. Len(list)
      BY <1>1, <1>5, <2>1
    <3> QED
      BY <1>1, <1>5, <2>1, <3>1 DEF Ascending
  <2>2. CASE i \in 1 .. Len(list) /\ j > Len(list)
    BY <1>1, <1>5, <2>2
  <2>3. CASE i > Len(list) /\ j > Len(list)
    <3>1. i - Len(list) < j - Len(list)
      BY <1>1, <1>5
    <3> QED
      BY <1>1, <1>5, <2>3, <3>1 DEF Ascending
  <2> QED
    BY <1>2, <2>1, <2>2, <2>3
<1> QED
  BY <1>1, <1>3, <1>4, <1>5 DEF Ascending

LEMMA SpendIs ==
    ASSUME left \in Budget,
           NEW what \in {"publish", "focus", "pane_exited", "detach", "click", "popup",
                         "select", "stop", "tmux_failure"},
           Spend(what)
    PROVE  left' \in Budget /\ left'.publications = left.publications
BY DEF Budget, Spend

\* A step that leaves the popup and its request alone; the queue may lose what it
\* held, and gain what is new.
LEMMA QuietKeepsList ==
    ASSUME ListInv,
           IsFiniteSet(queue'), queue' \subseteq Queue!Notification,
           steady' \subseteq steady, steady' \subseteq queue',
           left' \in Budget, popup' = popup,
           \A r \in inflight' :
               r \in inflight \/ (~Asks(r) /\ (r.op = "publish" => r.event \in Queue!Events)),
           \/ request' = NoRequest
           \/ /\ request' = request
              /\ \/ pc' = pc /\ response' = response
                 \/ pc = "accept" /\ pc' = "down"
                 \/ request.op # "list" /\ pc' \notin {"accept", "down"}
    PROVE  ListInv'
<1>1. ListTypes /\ OneAsked /\ Listing
  BY DEF ListInv
<1>2. NoRequest.op = "none" /\ ~Asks(NoRequest)
  BY DEF NoRequest, Asks
<1>3. ListTypes'
  BY <1>1, <1>2 DEF ListTypes
<1>4. OneAsked'
  BY <1>1, <1>2 DEF OneAsked, Asks
<1>5. Listing'
  <2>1. \A c : Divides(c) => Divides(c)'
    BY DEF Divides, Has
  <2>2. \A page, next, c : Continues(page, next, c) => Continues(page, next, c)'
    BY DEF Continues, Ascending, Has
  <2>3. \A r \in (inflight \cup {request})' : r.op = "list" => Divides(r.cursor)'
    BY <1>1, <1>2, <2>1 DEF Listing, Asks
  <2>4. (pc = "respond" /\ request.op = "list")' =>
            Continues(response.page, response.next, request.cursor)'
    BY <1>1, <1>2, <2>2 DEF Listing
  <2>5. /\ Ascending(popup.received)' /\ Ascending(popup.items)'
        /\ popup'.phase # "listing" => popup'.received = <<>>
        /\ popup'.phase = "open" => \A n \in steady' : Has(popup.items, n)'
    BY <1>1 DEF Listing, Ascending, Has
  <2> QED
    BY <2>3, <2>4, <2>5 DEF Listing
<1> QED
  BY <1>3, <1>4, <1>5 DEF ListInv

\* A step after which the popup waits for nothing ...
LEMMA NothingAsked ==
    ASSUME ListTypes', pc' \in {"accept", "down"} => request' = NoRequest,
           \A r \in inflight' \cup {request'} : ~Asks(r),
           popup'.phase \in {"closed", "open"}, popup'.received = <<>>,
           Ascending(popup'.items),
           popup'.phase = "open" => \A n \in steady' : Has(popup'.items, n)
    PROVE  ListInv'
<1>1. \A r \in inflight' \cup {request'} : r.op # "list" /\ r.op # "select"
  BY DEF Asks
<1>2. OneAsked'
  BY <1>1 DEF OneAsked, Asks
<1>3. Ascending(popup'.received)
  BY DEF Ascending
<1> QED
  BY <1>1, <1>2, <1>3 DEF ListInv, Listing, Ascending, Has

\* ... and one after which it waits for what it has just asked.
LEMMA NextAsked ==
    ASSUME ListTypes', pc' \in {"accept", "down"} => request' = NoRequest,
           NEW others, NEW q, inflight' = others \cup {q},
           \A r \in others \cup {request'} : ~Asks(r),
           \/ q.op = "list" /\ popup'.phase = "listing" /\ Divides(q.cursor)'
           \/ q.op = "select" /\ popup'.phase = "selecting" /\ popup'.received = <<>>,
           Ascending(popup'.received), Ascending(popup'.items)
    PROVE  ListInv'
<1>1. \A r \in others \cup {request'} : r.op # "list" /\ r.op # "select"
  BY DEF Asks
<1>2. OneAsked'
  BY <1>1 DEF OneAsked, Asks
<1>3. \A r \in inflight' \cup {request'} : r.op = "list" => Divides(r.cursor)'
  BY <1>1
<1> QED
  BY <1>1, <1>2, <1>3 DEF ListInv, Listing, Ascending, Has

\* A step of the popup keeps the sets its state is in.
LEMMA PopupTypes ==
    ASSUME ListTypes, queue' = queue, left' \in Budget, popup' \in Popups,
           steady' \subseteq queue, request' \in {request, NoRequest},
           \A r \in inflight' : r \in inflight \/ r.op # "publish"
    PROVE  ListTypes'
<1>1. NoRequest.op # "publish"
  BY DEF NoRequest
<1> QED
  BY <1>1 DEF ListTypes

\* The popup lists again from the start, or gives up: nothing it shows is touched.
LEMMA FailureKeepsList ==
    ASSUME ListInv, UNCHANGED <<queue, left>>,
           NEW others, PopupRequestFails(others), others \subseteq inflight,
           request' \in {request, NoRequest},
           pc' \in {"accept", "down"} => request' = NoRequest,
           \A r \in others \cup {request'} : ~Asks(r)
    PROVE  ListInv'
<1>1. ListTypes /\ OneAsked /\ Listing
  BY DEF ListInv
<1>2. ASSUME popup' \in Popups, steady' \in {steady, {}},
             \A r \in inflight' : r \in others \/ r.op # "publish"
      PROVE  ListTypes'
  <2>1. steady' \subseteq queue /\ left' \in Budget
    BY <1>1, <1>2 DEF ListTypes
  <2> QED
    BY <1>1, <1>2, <2>1, PopupTypes
<1>3. CASE popup.phase = "listing" /\ ~popup.opened
  <2>1. popup' = ClosedPopup /\ inflight' = others /\ steady' = steady
    BY <1>3 DEF PopupRequestFails
  <2>2. /\ popup'.phase = "closed" /\ popup'.received = <<>> /\ popup'.items = <<>>
        /\ popup' \in Popups
    BY <2>1 DEF ClosedPopup, Popups
  <2>3. ListTypes'
    BY <1>2, <2>1, <2>2
  <2>4. Ascending(popup'.items)
    BY <2>2 DEF Ascending
  <2> QED
    BY <2>1, <2>2, <2>3, <2>4, NothingAsked
<1>4. CASE popup.phase = "listing" /\ popup.opened
  <2>1. /\ popup' = [popup EXCEPT !.phase = "open", !.received = <<>>]
        /\ inflight' = others /\ steady' = {}
    BY <1>4 DEF PopupRequestFails
  <2>2. /\ popup'.phase = "open" /\ popup'.received = <<>> /\ popup'.items = popup.items
        /\ popup' \in Popups
    <3> DEFINE none == <<>>
    <3>1. none \in Seq(Queue!Notification)
      OBVIOUS
    <3>2. popup' = [popup EXCEPT !.phase = "open", !.received = none]
      BY <2>1
    <3> HIDE DEF none
    <3>3. /\ popup'.phase = "open" /\ popup'.received = none /\ popup'.items = popup.items
          /\ popup' \in Popups
      BY <1>1, <3>1, <3>2 DEF ListTypes, Popups
    <3> QED
      BY <3>3 DEF none
  <2>3. ListTypes'
    BY <1>2, <2>1, <2>2
  <2>4. Ascending(popup'.items)
    BY <1>1, <2>2 DEF Listing
  <2> QED
    BY <2>1, <2>2, <2>3, <2>4, NothingAsked
<1>5. CASE popup.phase = "selecting"
  <2> DEFINE q == ListRequest(NoCursor)
  <2>1. /\ popup' = [popup EXCEPT !.phase = "listing"]
        /\ inflight' = others \cup {q} /\ steady' = steady
    BY <1>5 DEF PopupRequestFails
  <2>2. q.op = "list" /\ q.cursor = NoCursor
    BY DEF ListRequest
  <2>3. popup.received = <<>> /\ Ascending(popup.items)
    BY <1>1, <1>5 DEF Listing
  <2>4. /\ popup'.phase = "listing" /\ popup'.received = <<>> /\ popup'.items = popup.items
        /\ popup' \in Popups
    BY <1>1, <2>1, <2>3 DEF ListTypes, Popups
  <2> HIDE DEF q
  <2>5. ListTypes'
    BY <1>2, <2>1, <2>2, <2>4
  <2>6. Divides(q.cursor)'
    BY <1>1, <2>1, <2>2, <2>4, StartIs DEF Divides, ListTypes
  <2>7. Ascending(popup'.received) /\ Ascending(popup'.items)
    BY <2>3, <2>4 DEF Ascending
  <2> QED
    BY <2>1, <2>2, <2>4, <2>5, <2>6, <2>7, NextAsked
<1> QED
  BY <1>3, <1>4, <1>5 DEF PopupRequestFails

\* The daemon's page continues what the popup has received.
LEMMA ListAnswer ==
    ASSUME ListInv, Numbered, HandleList
    PROVE  ListInv'
<1>1. ListTypes /\ OneAsked /\ Listing
  BY DEF ListInv
<1> DEFINE c == request.cursor
           behind == Behind(c)
           page == Page(c)
           next == IF Len(page) < Cardinality(behind) THEN CursorOf(Last(page)) ELSE NoCursor
<1>2. /\ pc = "read" /\ request.op = "list" /\ pc' = "respond"
      /\ response'.page = page /\ response'.next = next
      /\ UNCHANGED <<queue, request, inflight, left, popup, steady>>
  BY DEF HandleList, Respond, queueVars, outsideVars
<1>3. c \in Cursor
  BY <1>1, <1>2 DEF Listing, Divides
<1>4. /\ page \in Seq(behind)
      /\ Cardinality(behind) \in Nat /\ Len(page) <= Cardinality(behind)
      /\ Ascending(page)
      /\ Len(page) = Cardinality(behind) => \A n \in behind : Has(page, n)
      /\ Len(page) < Cardinality(behind) =>
             /\ Len(page) > 0
             /\ \A n \in behind : Has(page, n) \/ Queue!Before(Last(page), n)
  BY <1>1, PageIs DEF ListTypes
<1>5. /\ behind \subseteq Queue!Notification
      /\ \A n \in behind : IsBehind(n, c)
      /\ \A n \in steady : IsBehind(n, c) => n \in behind
  BY <1>1 DEF Behind, IsBehind, ListTypes
<1> HIDE DEF behind, page, c
<1>6. /\ page \in Seq(Queue!Notification)
      /\ \A i \in 1 .. Len(page) : page[i] \in behind
  BY <1>4, <1>5
<1>7. Continues(page, next, c)
  <2>1. CASE Len(page) < Cardinality(behind)
    <3> DEFINE last == Last(page)
    <3>1. last \in behind /\ next = CursorOf(last)
      BY <1>4, <1>6, <2>1 DEF Last
    <3>2. \A i \in 1 .. Len(page) : page[i] = last \/ Queue!Before(page[i], last)
      BY <1>4, <1>6, <2>1 DEF Ascending, Last
    <3>3. \A n \in behind : Has(page, n) \/ Queue!Before(last, n)
      BY <1>4, <2>1
    <3> HIDE DEF last, next
    <3>4. next \in Cursor /\ next # NoCursor /\ Advances(next, c)
      BY <1>3, <1>5, <3>1, CursorIs
    <3>5. \A i \in 1 .. Len(page) : ~IsBehind(page[i], next)
      <4> TAKE i \in 1 .. Len(page)
      <4>1. page[i] \in Queue!Notification /\ last \in Queue!Notification
        BY <1>5, <1>6, <3>1
      <4>2. ~Queue!Before(last, page[i])
        BY <3>2, <4>1, OrderIs
      <4> QED
        BY <1>3, <3>1, <4>1, <4>2, CursorIs
    <3>6. \A n \in behind : Has(page, n) \/ IsBehind(n, next)
      BY <1>3, <1>5, <3>1, <3>3, CursorIs
    <3> QED
      BY <1>4, <1>5, <1>6, <3>4, <3>5, <3>6 DEF Continues
  <2>2. CASE ~(Len(page) < Cardinality(behind))
    <3>1. next = NoCursor /\ Len(page) = Cardinality(behind)
      BY <1>4, <2>2
    <3> HIDE DEF next
    <3> QED
      BY <1>4, <1>5, <1>6, <3>1 DEF Continues
  <2> QED
    BY <2>1, <2>2
<1> HIDE DEF next
<1>8. ListTypes' /\ OneAsked'
  BY <1>1, <1>2 DEF ListTypes, OneAsked, Asks
<1>9. Listing'
  <2>1. Continues(response.page, response.next, request.cursor)'
    BY <1>2, <1>7 DEF Continues, Has, Ascending, c
  <2>2. \A d : Divides(d) => Divides(d)'
    BY <1>2 DEF Divides, Has
  <2> QED
    BY <1>1, <1>2, <2>1, <2>2 DEF Listing, Ascending, Has, c
<1> QED
  BY <1>8, <1>9 DEF ListInv

\* The popup's program ends: nothing is shown or asked any more.
LEMMA PopupGone ==
    ASSUME ListInv, popup' = ClosedPopup, UNCHANGED <<queue, inflight, steady>>,
           left' \in Budget, request' \in {request, NoRequest},
           pc' \in {"accept", "down"} => request' = NoRequest,
           \A r \in inflight \cup {request'} : ~Asks(r)
    PROVE  ListInv'
<1>1. /\ popup'.phase = "closed" /\ popup'.received = <<>> /\ popup'.items = <<>>
      /\ popup' \in Popups
  BY DEF ClosedPopup, Popups
<1>2. ListTypes'
  BY <1>1, PopupTypes DEF ListInv, ListTypes
<1>3. Ascending(popup'.items)
  BY <1>1 DEF Ascending
<1> QED
  BY <1>1, <1>2, <1>3, NothingAsked

\* A page is shown, or the next one asked for.
LEMMA PageKeepsList ==
    ASSUME ListInv, pc = "respond", request.op = "list", PopupReceivesPage,
           UNCHANGED <<queue, left>>, request' = NoRequest
    PROVE  ListInv'
<1>1. ListTypes /\ OneAsked /\ Listing
  BY DEF ListInv
<1> DEFINE received == popup.received \o response.page
           next == response.next
           c == request.cursor
<1>2. /\ popup \in Popups /\ popup.phase = "listing"
      /\ popup.received \in Seq(Queue!Notification) /\ popup.items \in Seq(Queue!Notification)
  BY <1>1 DEF ListTypes, OneAsked, Popups
<1>3. Divides(c) /\ Continues(response.page, next, c)
  BY <1>1 DEF Listing
<1>4. /\ \A r \in inflight : ~Asks(r)
      /\ ~Asks(request')
  BY <1>1 DEF OneAsked, Asks, NoRequest
<1>5. response.page \in Seq(Queue!Notification)
  BY <1>3 DEF Continues
<1>6. \A i \in 1 .. Len(popup.received), j \in 1 .. Len(response.page) :
          Queue!Before(popup.received[i], response.page[j])
  <2> TAKE i \in 1 .. Len(popup.received), j \in 1 .. Len(response.page)
  <2>1. popup.received[i] \in Queue!Notification /\ response.page[j] \in Queue!Notification
    BY <1>2, <1>5
  <2>2. ~IsBehind(popup.received[i], c) /\ IsBehind(response.page[j], c) /\ c \in Cursor
    BY <1>3 DEF Divides, Continues
  <2> QED
    BY <2>1, <2>2, CursorIs
<1>7. /\ received \in Seq(Queue!Notification) /\ Ascending(received)
      /\ \A n : Has(received, n) <=> Has(popup.received, n) \/ Has(response.page, n)
      /\ \A i \in 1 .. Len(received) :
             Has(popup.received, received[i]) \/ Has(response.page, received[i])
  <2>1. Ascending(popup.received) /\ Ascending(response.page)
    BY <1>1, <1>3 DEF Listing, Continues
  <2> DEFINE list == popup.received
             page == response.page
  <2>2. received = list \o page
    OBVIOUS
  <2>3. /\ list \in Seq(Queue!Notification) /\ page \in Seq(Queue!Notification)
        /\ Ascending(list) /\ Ascending(page)
        /\ \A i \in 1 .. Len(list), j \in 1 .. Len(page) : Queue!Before(list[i], page[j])
    BY <1>2, <1>5, <1>6, <2>1
  <2> HIDE DEF received, list, page
  <2>4. /\ received \in Seq(Queue!Notification) /\ Ascending(received)
        /\ \A n : Has(received, n) <=> Has(list, n) \/ Has(page, n)
        /\ \A i \in 1 .. Len(received) : Has(list, received[i]) \/ Has(page, received[i])
    BY <2>2, <2>3, ReceivedIs
  <2> QED
    BY <2>4 DEF list, page
<1>8. steady \subseteq queue /\ steady \subseteq Queue!Notification /\ left \in Budget
  BY <1>1 DEF ListTypes
<1>9. CASE next = NoCursor
  <2>1. /\ popup' = [popup EXCEPT !.phase = "open", !.opened = TRUE, !.received = <<>>,
                                  !.items = received]
        /\ UNCHANGED <<inflight, steady>>
    BY <1>9 DEF PopupReceivesPage
  <2> HIDE DEF received
  <2>2. /\ popup'.phase = "open" /\ popup'.received = <<>> /\ popup'.items = received
        /\ popup' \in Popups
    <3> DEFINE none == <<>>
    <3>1. none \in Seq(Queue!Notification)
      OBVIOUS
    <3>2. popup' = [popup EXCEPT !.phase = "open", !.opened = TRUE, !.received = none,
                                 !.items = received]
      BY <2>1
    <3> HIDE DEF none
    <3>3. /\ popup'.phase = "open" /\ popup'.received = none /\ popup'.items = received
          /\ popup' \in Popups
      BY <1>2, <1>7, <3>1, <3>2 DEF Popups
    <3> QED
      BY <3>3 DEF none
  <2>3. ListTypes'
    BY <1>1, <1>8, <2>1, <2>2, PopupTypes
  <2>4. \A n \in steady' : Has(popup'.items, n)
    BY <1>3, <1>7, <1>9, <2>1, <2>2 DEF Divides, Continues
  <2> QED
    BY <1>4, <1>7, <2>1, <2>2, <2>3, <2>4, NothingAsked
<1>10. CASE next # NoCursor /\ next = c
  <2>1. PopupRequestFails(inflight)
    BY <1>10 DEF PopupReceivesPage
  <2> QED
    BY <1>4, <2>1, FailureKeepsList
<1>11. CASE next # NoCursor /\ next # c
  <2>1. PICK q :
           /\ q = ListRequest(next)
           /\ popup' = [popup EXCEPT !.received = received]
           /\ inflight' = inflight \cup {q} /\ steady' = steady
    BY <1>11 DEF PopupReceivesPage, Send
  <2>2. q.op = "list" /\ q.cursor = next
    BY <2>1 DEF ListRequest
  <2> HIDE DEF received
  <2>3. /\ popup'.phase = "listing" /\ popup'.received = received
        /\ popup'.items = popup.items /\ popup' \in Popups
    BY <1>2, <1>7, <2>1 DEF Popups
  <2>4. ListTypes'
    BY <1>1, <1>8, <2>1, <2>2, <2>3, PopupTypes
  <2>5. /\ next \in Cursor /\ Advances(next, c)
        /\ \A i \in 1 .. Len(response.page) : ~IsBehind(response.page[i], next)
        /\ \A n \in steady : IsBehind(n, c) => IsBehind(n, next) \/ Has(response.page, n)
    BY <1>3, <1>11 DEF Continues
  <2>6. \A i \in 1 .. Len(popup.received) : ~IsBehind(popup.received[i], next)
    <3> TAKE i \in 1 .. Len(popup.received)
    <3>1. popup.received[i] \in Queue!Notification
      BY <1>2
    <3>2. ~IsBehind(popup.received[i], c) /\ c \in Cursor
      BY <1>3 DEF Divides
    <3> QED
      BY <2>5, <3>1, <3>2, CursorIs
  <2>7. \A i \in 1 .. Len(received) : ~IsBehind(received[i], next)
    BY <1>7, <2>5, <2>6 DEF Has
  <2>8. \A n \in steady : IsBehind(n, next) \/ Has(received, n)
    BY <1>3, <1>7, <2>5 DEF Divides
  <2> HIDE DEF next, c
  <2>9. Divides(q.cursor)'
    BY <2>1, <2>2, <2>3, <2>5, <2>7, <2>8 DEF Divides, Has
  <2>10. Ascending(popup'.received) /\ Ascending(popup'.items)
    BY <1>1, <1>7, <2>3 DEF Listing
  <2> QED
    BY <1>4, <2>1, <2>2, <2>3, <2>4, <2>9, <2>10, NextAsked
<1> QED
  BY <1>9, <1>10, <1>11

\* A selection closes the popup, or lists what is queued now.
LEMMA SelectionKeepsList ==
    ASSUME ListInv, pc = "respond", request.op = "select", PopupReceivesSelection,
           UNCHANGED <<queue, left>>, request' = NoRequest
    PROVE  ListInv'
<1>1. ListTypes /\ OneAsked /\ Listing
  BY DEF ListInv
<1>2. /\ \A r \in inflight : ~Asks(r)
      /\ ~Asks(request')
      /\ popup \in Popups /\ popup.phase = "selecting"
  BY <1>1 DEF OneAsked, Asks, NoRequest, ListTypes
<1>3. CASE popup' = ClosedPopup /\ UNCHANGED <<inflight, steady>>
  <2>1. /\ popup'.phase = "closed" /\ popup'.received = <<>> /\ popup'.items = <<>>
        /\ popup' \in Popups
    BY <1>3 DEF ClosedPopup, Popups
  <2>2. ListTypes'
    BY <1>1, <1>3, <2>1, PopupTypes DEF ListTypes
  <2>3. Ascending(popup'.items)
    BY <2>1 DEF Ascending
  <2> QED
    BY <1>2, <1>3, <2>1, <2>2, <2>3, NothingAsked
<1>4. CASE /\ popup' = [popup EXCEPT !.phase = "listing"]
           /\ Send(ListRequest(NoCursor)) /\ steady' = queue
  <2> DEFINE q == ListRequest(NoCursor)
  <2>1. q.op = "list" /\ q.cursor = NoCursor /\ inflight' = inflight \cup {q}
    BY <1>4 DEF ListRequest, Send
  <2> HIDE DEF q
  <2>2. popup.received = <<>> /\ Ascending(popup.items)
    BY <1>1, <1>2 DEF Listing
  <2>3. /\ popup'.phase = "listing" /\ popup'.received = <<>> /\ popup'.items = popup.items
        /\ popup' \in Popups
    BY <1>2, <1>4, <2>2 DEF Popups
  <2>4. ListTypes'
    BY <1>1, <1>4, <2>1, <2>3, PopupTypes DEF ListTypes
  <2>5. Divides(q.cursor)'
    BY <1>1, <1>4, <2>1, <2>3, StartIs DEF Divides, ListTypes
  <2>6. Ascending(popup'.received) /\ Ascending(popup'.items)
    BY <2>2, <2>3 DEF Ascending
  <2> QED
    BY <1>2, <2>1, <2>3, <2>4, <2>5, <2>6, NextAsked
<1> QED
  BY <1>3, <1>4 DEF PopupReceivesSelection

\* Only a publication is resolved and applied in two steps.
Resolving == pc \in {"resolve", "apply"} => request.op = "publish"

LEMMA ResolvingHolds == Spec => []Resolving
<1> USE DEF queueVars, daemonVars, tmuxVars, outsideVars
<1>1. ASSUME Init
      PROVE  Resolving
  BY <1>1 DEF Init, Resolving
<1>2. ASSUME Resolving, [Next]_vars
      PROVE  Resolving'
  <2>1. CASE UNCHANGED vars
    BY <1>2, <2>1 DEF vars, Resolving
  <2>2. CASE Outside
    BY <1>2, <2>2 DEF Outside, Producer, FocusHook, PaneExits, ClientDetaches, UserClicksRow,
       UserClicksMore, ControlRequest, PopupOpens, PopupSelects, PopupCloses, ClientHangsUp,
       Signal, Resolving
  <2>3. CASE \E r \in inflight : Unreachable(r)
    BY <1>2, <2>3 DEF Unreachable, Resolving
  <2>4. CASE HandlePublish \/ ResolvePane
    BY <1>2, <2>4 DEF HandlePublish, ResolvePane, Respond, Resolving
  <2>5. CASE \/ \E r \in inflight : Accept(r)
             \/ HandleList \/ HandleShutdown \/ HandleSessionClosed \/ CountSessions
             \/ WriteStatus \/ WriteStatusFails \/ Refresh \/ Jump
             \/ WriteResponse \/ WriteResponseFails
    BY <2>5 DEF Accept, HandleList, HandleShutdown, HandleSessionClosed, CountSessions,
       WriteStatus, WriteStatusFails, Refresh, Jump, WriteResponse, WriteResponseFails,
       AfterStatus, Respond, Resolving
  <2>6. CASE ApplyPublish \/ HandleFocus \/ HandlePaneExited \/ HandleClick \/ HandleSelect
    BY <2>6 DEF ApplyPublish, HandleFocus, HandlePaneExited, HandleClick, HandleSelect, Handle,
       FinishStateChange, AfterStatus, Respond, Resolving
  <2> QED
    BY <1>2, <2>1, <2>2, <2>3, <2>4, <2>5, <2>6 DEF Next, Daemon
<1> QED
  BY <1>1, <1>2, PTL DEF Spec

LEMMA StepKeepsListInv ==
    ASSUME ListInv, PromiseInv, Resolving, [Next]_vars
    PROVE  ListInv'
<1> USE DEF queueVars, daemonVars, tmuxVars, outsideVars
<1>1. ListTypes /\ OneAsked /\ Listing /\ Numbered
  BY DEF ListInv, PromiseInv
<1>2. /\ IsFiniteSet(queue) /\ queue \subseteq Queue!Notification
      /\ steady \subseteq queue /\ left \in Budget
  BY <1>1 DEF ListTypes
<1>3. CASE UNCHANGED vars
  <2>1. UNCHANGED <<queue, steady, left, popup, inflight, request, pc, response>>
    BY <1>3 DEF vars
  <2> QED
    BY <1>2, <2>1, QuietKeepsList
<1>4. CASE Outside
  <2>1. CASE \/ \E event \in left.publications : Producer(event)
             \/ \E client \in Clients, pane \in Panes, width \in Widths,
                   focused, acknowledge \in BOOLEAN :
                     FocusHook(client, pane, width, focused, acknowledge)
             \/ \E pane \in Panes : PaneExits(pane)
             \/ \E client \in Clients : ClientDetaches(client)
             \/ \E client \in Clients : UserClicksRow(client) \/ UserClicksMore(client)
             \/ \E op \in {"session_closed", "shutdown"} : ControlRequest(op)
             \/ Signal
    <3>1. \A event \in left.publications : event \in Queue!Events
      BY <1>2 DEF Budget
    <3>2. \E what \in {"publish", "focus", "pane_exited", "detach", "click", "stop"} :
              Spend(what)
      BY <2>1 DEF Producer, FocusHook, PaneExits, ClientDetaches, UserClicksRow,
         UserClicksMore, ControlRequest, Signal
    <3>3. left' \in Budget
      BY <1>2, <3>2, SpendIs
    <3>4. /\ UNCHANGED <<queue, steady, popup, request>>
          /\ (pc' = pc /\ response' = response) \/ (pc = "accept" /\ pc' = "down")
      BY <2>1 DEF Producer, FocusHook, PaneExits, ClientDetaches, UserClicksRow,
         UserClicksMore, ControlRequest, Signal
    <3>5. \A r \in inflight' :
              \/ r \in inflight
              \/ ~Asks(r) /\ (r.op = "publish" => r.event \in Queue!Events)
      BY <2>1, <3>1 DEF Producer, FocusHook, PaneExits, ClientDetaches, UserClicksRow,
         UserClicksMore, ControlRequest, Signal, Send, Asks
    <3> QED
      BY <1>2, <3>3, <3>4, <3>5, QuietKeepsList
  <2>2. ASSUME NEW client \in Clients, PopupOpens(client)
        PROVE  ListInv'
    <3>1. PICK q :
             /\ q = ListRequest(NoCursor)
             /\ inflight' = inflight \cup {q}
             /\ popup' = [ClosedPopup EXCEPT !.phase = "listing", !.client = client]
             /\ popup.phase = "closed" /\ steady' = queue
             /\ UNCHANGED <<queue, request, pc>>
      BY <2>2 DEF PopupOpens, Send
    <3>2. q.op = "list" /\ q.cursor = NoCursor
      BY <3>1 DEF ListRequest
    <3>3. /\ popup'.phase = "listing" /\ popup'.received = <<>> /\ popup'.items = <<>>
          /\ popup' \in Popups
      <4>1. ClosedPopup.received = <<>> /\ ClosedPopup.items = <<>> /\ ClosedPopup \in Popups
        BY DEF ClosedPopup, Popups
      <4> QED
        BY <3>1, <4>1 DEF Popups
    <3>4. left' \in Budget
      BY <1>2, <2>2, SpendIs DEF PopupOpens
    <3>5. ListTypes'
      BY <1>1, <1>2, <3>1, <3>2, <3>3, <3>4, PopupTypes
    <3>6. \A r \in inflight \cup {request'} : ~Asks(r)
      BY <1>1, <3>1 DEF OneAsked, Asks
    <3>7. Divides(q.cursor)'
      BY <1>2, <3>1, <3>2, <3>3, StartIs DEF Divides
    <3>8. Ascending(popup'.received) /\ Ascending(popup'.items)
      BY <3>3 DEF Ascending
    <3>9. pc' \in {"accept", "down"} => request' = NoRequest
      BY <1>1, <3>1 DEF OneAsked
    <3> QED
      BY <3>1, <3>2, <3>3, <3>5, <3>6, <3>7, <3>8, <3>9, NextAsked
  <2>3. CASE PopupSelects
    <3>1. PICK q :
             /\ q.op = "select" /\ inflight' = inflight \cup {q}
             /\ popup' = [popup EXCEPT !.phase = "selecting"]
             /\ popup.phase = "open"
             /\ UNCHANGED <<queue, request, pc, steady>>
      BY <2>3 DEF PopupSelects, Send, SelectRequest
    <3>2. popup.received = <<>> /\ Ascending(popup.items) /\ popup \in Popups
      BY <1>1, <3>1 DEF Listing, ListTypes
    <3>3. /\ popup'.phase = "selecting" /\ popup'.received = <<>>
          /\ popup'.items = popup.items /\ popup' \in Popups
      BY <3>1, <3>2 DEF Popups
    <3>4. left' \in Budget
      BY <1>2, <2>3, SpendIs DEF PopupSelects
    <3>5. ListTypes'
      BY <1>1, <1>2, <3>1, <3>3, <3>4, PopupTypes
    <3>6. \A r \in inflight \cup {request'} : ~Asks(r)
      BY <1>1, <3>1 DEF OneAsked, Asks
    <3>7. Ascending(popup'.received) /\ Ascending(popup'.items)
      BY <3>2, <3>3 DEF Ascending
    <3>8. pc' \in {"accept", "down"} => request' = NoRequest
      BY <1>1, <3>1 DEF OneAsked
    <3> QED
      BY <3>1, <3>3, <3>5, <3>6, <3>7, <3>8, NextAsked
  <2>4. CASE PopupCloses
    <3>1. /\ popup' = ClosedPopup /\ UNCHANGED <<queue, inflight, steady, left, request, pc>>
          /\ popup.phase = "open"
      BY <2>4 DEF PopupCloses
    <3>2. /\ pc' \in {"accept", "down"} => request' = NoRequest
          /\ \A r \in inflight \cup {request'} : ~Asks(r)
      BY <1>1, <3>1 DEF OneAsked, Asks
    <3> QED
      BY <1>2, <3>1, <3>2, PopupGone
  <2>5. CASE ClientHangsUp
    <3>1. /\ request' = NoRequest /\ UNCHANGED <<queue, inflight, steady>>
          /\ popup' = IF Asks(request) THEN ClosedPopup ELSE popup
      BY <2>5 DEF ClientHangsUp, Asks
    <3>2. left' \in Budget
      BY <1>2, <2>5, SpendIs DEF ClientHangsUp
    <3>3. ~Asks(request')
      BY <3>1 DEF Asks, NoRequest
    <3>4. CASE Asks(request)
      BY <1>1, <3>1, <3>2, <3>3, <3>4, PopupGone DEF OneAsked
    <3>5. CASE ~Asks(request)
      BY <1>2, <3>1, <3>2, <3>5, QuietKeepsList
    <3> QED
      BY <3>4, <3>5
  <2> QED
    BY <1>4, <2>1, <2>2, <2>3, <2>4, <2>5 DEF Outside
<1>5. CASE Daemon
  <2>1. ASSUME NEW r \in inflight, Accept(r)
        PROVE  ListInv'
    <3>1. /\ UNCHANGED <<queue, left, popup, steady>>
          /\ pc = "accept" /\ pc' = "read" /\ request' = r /\ inflight' = inflight \ {r}
      BY <2>1 DEF Accept
    <3>2. ListTypes'
      BY <1>1, <3>1 DEF ListTypes
    <3>3. OneAsked'
      BY <1>1, <3>1 DEF OneAsked, Asks
    <3>4. \A c : Divides(c) => Divides(c)'
      BY <3>1 DEF Divides, Has
    <3>5. \A q \in (inflight \cup {request})' : q.op = "list" => Divides(q.cursor)'
      BY <1>1, <3>1, <3>4 DEF Listing
    <3>6. Listing'
      BY <1>1, <3>1, <3>5 DEF Listing, Ascending, Has
    <3> QED
      BY <3>2, <3>3, <3>6 DEF ListInv
  <2>2. CASE HandleList
    BY <1>1, <2>2, ListAnswer
  <2>3. CASE HandlePublish \/ ResolvePane \/ HandleShutdown \/ HandleSessionClosed
             \/ CountSessions \/ WriteStatus \/ WriteStatusFails \/ Refresh \/ Jump
    <3>1. /\ UNCHANGED <<queue, steady, popup, inflight, request>>
          /\ left' = left \/ Spend("tmux_failure")
          /\ pc' \notin {"accept", "down"}
          /\ pc # "respond" /\ (pc = "read" => request.op # "list")
      BY <2>3 DEF HandlePublish, ResolvePane, HandleShutdown, HandleSessionClosed,
         CountSessions, WriteStatus, WriteStatusFails, Refresh, Jump, AfterStatus, Respond
    <3>2. left' \in Budget
      BY <1>2, <3>1, SpendIs
    <3>3. request.op # "list"
      BY <1>1, <3>1 DEF OneAsked
    <3> QED
      BY <1>2, <3>1, <3>2, <3>3, QuietKeepsList
  <2>4. CASE ApplyPublish \/ HandleFocus \/ HandlePaneExited \/ HandleClick \/ HandleSelect
    <3>1. /\ UNCHANGED <<left, popup, inflight, request>>
          /\ pc' \in {"write_status", "jump", "respond"}
          /\ steady' = steady \cap queue'
          /\ request.op # "list"
      BY <1>1, <2>4 DEF ApplyPublish, HandleFocus, HandlePaneExited, HandleClick,
         HandleSelect, Handle, FinishStateChange, AfterStatus, Respond, StillSteady, OneAsked
    <3>2. CASE ApplyPublish
      <4>1. Queue!Publish(request.event) /\ request.event \in Queue!Events
        BY <1>1, <3>2 DEF ApplyPublish, Handle, Resolving, ListTypes
      <4>2. CASE queue' = queue
        BY <1>2, <3>1, <4>2, QuietKeepsList
      <4>3. CASE Queue!Enqueue(request.event)
        <5> DEFINE new == Queue!Queued(request.event, next_sequence)
                   gone == Queue!Evicted(request.event.kind)
        <5>1. queue' = (queue \ gone) \cup {new} /\ request.event.event_id \in EventIds
          BY <4>3 DEF Queue!Enqueue, Queue!HasRoom, Queue!Fresh
        <5>2. new \in Queue!Notification
          BY <1>1, <4>1, <5>1 DEF Queue!Queued, Queue!Notification, Queue!Events, Numbered
        <5> HIDE DEF new, gone
        <5>3. queue \ gone \in SUBSET queue
          OBVIOUS
        <5>4. IsFiniteSet(queue') /\ queue' \subseteq Queue!Notification
          BY <1>2, <5>1, <5>2, <5>3, FS_Subset, FS_AddElement
        <5> QED
          BY <1>2, <3>1, <5>4, QuietKeepsList
      <4> QED
        BY <4>1, <4>2, <4>3 DEF Queue!Publish, Queue!RejectEventId, Queue!DropDuplicate,
           Queue!SuppressByFocus, Queue!RefuseFull, Queue!SequenceExhausted
    <3>3. CASE HandleFocus \/ HandlePaneExited \/ HandleClick \/ HandleSelect
      <4>1. queue' \in SUBSET queue
        BY <3>3, CommandPanes DEF HandleFocus, HandlePaneExited, HandleClick, HandleSelect,
           Handle
      <4>2. IsFiniteSet(queue') /\ queue' \subseteq Queue!Notification
        BY <1>2, <4>1, FS_Subset
      <4> QED
        BY <1>2, <3>1, <4>2, QuietKeepsList
    <3> QED
      BY <2>4, <3>2, <3>3
  <2>5. CASE WriteResponse
    <3>1. /\ pc = "respond" /\ request' = NoRequest /\ ClientGetsResponse
          /\ UNCHANGED <<queue, left>>
      BY <2>5 DEF WriteResponse
    <3>2. CASE request.op = "list"
      <4>1. PopupReceivesPage
        BY <3>1, <3>2 DEF ClientGetsResponse
      <4> QED
        BY <3>1, <3>2, <4>1, PageKeepsList
    <3>3. CASE request.op = "select"
      <4>1. PopupReceivesSelection
        BY <3>1, <3>3 DEF ClientGetsResponse
      <4> QED
        BY <3>1, <3>3, <4>1, SelectionKeepsList
    <3>4. CASE request.op # "list" /\ request.op # "select"
      <4>1. UNCHANGED <<inflight, popup, steady>>
        BY <3>1, <3>4 DEF ClientGetsResponse
      <4> QED
        BY <1>2, <3>1, <4>1, QuietKeepsList
    <3> QED
      BY <3>2, <3>3, <3>4
  <2>6. CASE WriteResponseFails
    <3>1. /\ request' = NoRequest /\ UNCHANGED <<queue, inflight, steady>>
          /\ popup' = IF Asks(request) THEN ClosedPopup ELSE popup
      BY <2>6 DEF WriteResponseFails, Asks
    <3>2. left' \in Budget
      BY <1>2, <2>6, SpendIs DEF WriteResponseFails
    <3>3. ~Asks(request')
      BY <3>1 DEF Asks, NoRequest
    <3>4. CASE Asks(request)
      BY <1>1, <3>1, <3>2, <3>3, <3>4, PopupGone DEF OneAsked
    <3>5. CASE ~Asks(request)
      BY <1>2, <3>1, <3>2, <3>5, QuietKeepsList
    <3> QED
      BY <3>4, <3>5
  <2> QED
    BY <1>5, <2>1, <2>2, <2>3, <2>4, <2>5, <2>6 DEF Daemon
<1>6. ASSUME NEW r \in inflight, Unreachable(r)
      PROVE  ListInv'
  <2>1. /\ pc = "down" /\ UNCHANGED <<queue, left, request, pc, response>>
        /\ request' = NoRequest
    BY <1>1, <1>6 DEF Unreachable, OneAsked
  <2>2. CASE Asks(r)
    <3>1. PopupRequestFails(inflight \ {r})
      BY <1>6, <2>2 DEF Unreachable, Asks
    <3>2. \A q \in (inflight \ {r}) \cup {request'} : ~Asks(q)
      BY <1>1, <2>1, <2>2 DEF OneAsked, Asks, NoRequest
    <3> QED
      BY <2>1, <3>1, <3>2, FailureKeepsList
  <2>3. CASE ~Asks(r)
    <3>1. inflight' = inflight \ {r} /\ UNCHANGED <<popup, steady>>
      BY <1>6, <2>3 DEF Unreachable, Asks
    <3> QED
      BY <1>2, <2>1, <3>1, QuietKeepsList
  <2> QED
    BY <2>2, <2>3
<1> QED
  BY <1>3, <1>4, <1>5, <1>6 DEF Next

\* Pages listed one request at a time, while the queue changes between them, are in
\* list order, repeat nothing, and miss nothing that was queued all the time
\* (snapshot_items, list_notifications).
THEOREM ListAlwaysTrue == Spec => []ListIsTrue
<1>1. ASSUME Init
      PROVE  ListInv
  <2>1. ClosedPopup.received = <<>> /\ ClosedPopup.items = <<>> /\ ClosedPopup \in Popups
        /\ ClosedPopup.phase = "closed"
    BY DEF ClosedPopup, Popups
  <2>2. NoRequest.op = "none"
    BY DEF NoRequest
  <2>3. ListTypes
    BY <1>1, <2>1, <2>2, FS_EmptySet, BudgetAssumption DEF Init, ListTypes
  <2>4. OneAsked
    BY <1>1, <2>2 DEF Init, OneAsked, Asks
  <2>5. Listing
    BY <1>1, <2>1, <2>2 DEF Init, Listing, Ascending
  <2> QED
    BY <2>3, <2>4, <2>5 DEF ListInv
<1>2. ListInv /\ PromiseInv /\ Resolving /\ [Next]_vars => ListInv'
  BY StepKeepsListInv
<1>3. ASSUME ListInv
      PROVE  ListIsTrue
  BY <1>3 DEF ListInv, Listing, Ascending, Has, ListIsTrue, ListInOrder, ListComplete
<1> QED
  BY <1>1, <1>2, <1>3, PromiseInvHolds, ResolvingHolds, PTL DEF Spec

-----------------------------------------------------------------------------
(* Who owns the socket                                                      *)
(*                                                                          *)
(* For any number of processes, versions and crashes, and however their     *)
(* starts overlap. A process that bound the socket while no other one was   *)
(* poised is sheltered: its file stays at the path, so that nobody gets as  *)
(* far as binding, adopting or removing there (Sheltered), and nobody who   *)
(* recorded an identity before can have recorded this one (Unborn). What    *)
(* is left at the path holds without that: a process that ends by itself    *)
(* with its file still there has recorded it as its own (Recorded), and     *)
(* removes it first.                                                        *)

Unbound == {"off", "bind", "connect", "ping", "connect_again", "shutdown",
            "await_release", "remove_stale", "rebind"}

Unborn ==
    \A p \in Procs : stage[p] \in Unbound =>
        path # p /\ p \notin settled /\ \A q \in Procs : owner[q] # p

Recorded ==
    \A p \in Procs :
        path = p /\ stage[p] \in {"initialize", "listen"} \cup Stopping => owner[p] = p

LeftByTheDead ==
    \A p \in Procs : path = p => Listening(p) \/ stage[p] = "crashed"

Sheltered ==
    \A p \in settled : Listening(p) =>
        /\ path = p
        /\ \A q \in Procs \ {p} : stage[q] \notin Poised /\ owner[q] # p

OwnsInv == Unborn /\ Recorded /\ LeftByTheDead /\ Sheltered

OwnershipInv == OwnershipTypeOK /\ OwnsInv

\* The variables of ServiceOwnership stay in their sets, and a process that
\* waits for an answer has a peer, however starts overlap.
THEOREM OwnershipTypeCorrect == OwnershipSpec => []OwnershipTypeOK
<1>1. OwnershipInit => OwnershipTypeOK
  BY OwnershipAssumption DEF OwnershipInit, OwnershipTypeOK, Starting, Stopping, Ended
<1>2. OwnershipTypeOK /\ [OwnershipNext]_ownershipVars => OwnershipTypeOK'
  <2> SUFFICES ASSUME OwnershipTypeOK, [OwnershipNext]_ownershipVars PROVE OwnershipTypeOK'
    OBVIOUS
  <2>1. CASE UNCHANGED ownershipVars
    BY <2>1 DEF ownershipVars, OwnershipTypeOK
  <2>2. ASSUME NEW p \in Procs, Start(p) PROVE OwnershipTypeOK'
    BY <2>2 DEF Start, Goto, OwnershipTypeOK, Starting, Stopping, Ended
  <2>3. ASSUME NEW p \in Procs, Bind(p) \/ Connect(p) \/ PingAnswered(p)
        PROVE  OwnershipTypeOK'
    <3>1. CASE Bind(p)
      BY <3>1 DEF Bind, BindSocket, Goto, OwnershipTypeOK, Starting, Stopping, Ended
    <3>2. CASE Connect(p)
      BY <3>2, OwnershipAssumption
         DEF Connect, Connected, Reachable, Goto, OwnershipTypeOK, Starting, Stopping, Ended
    <3>3. CASE PingAnswered(p)
      BY <3>3 DEF PingAnswered, Goto, OwnershipTypeOK, Starting, Stopping, Ended
    <3> QED
      BY <2>3, <3>1, <3>2, <3>3
  <2>4. ASSUME NEW p \in Procs,
               ConnectAgain(p) \/ ShutdownAnswered(p) \/ GivesUp(p) \/ SocketReleased(p)
        PROVE  OwnershipTypeOK'
    <3>1. CASE ConnectAgain(p)
      BY <3>1, OwnershipAssumption
         DEF ConnectAgain, Connected, Reachable, Goto, OwnershipTypeOK, Starting, Stopping, Ended
    <3>2. CASE ShutdownAnswered(p)
      BY <3>2 DEF ShutdownAnswered, Goto, OwnershipTypeOK, Starting, Stopping, Ended
    <3>3. CASE GivesUp(p) \/ SocketReleased(p)
      BY <3>3 DEF GivesUp, SocketReleased, Goto, OwnershipTypeOK, Starting, Stopping, Ended
    <3> QED
      BY <2>4, <3>1, <3>2, <3>3
  <2>5. ASSUME NEW p \in Procs, RemoveStale(p) \/ Rebind(p) \/ Configure(p)
        PROVE  OwnershipTypeOK'
    BY <2>5 DEF RemoveStale, Rebind, BindSocket, Configure, Goto, OwnershipTypeOK, Starting, Stopping, Ended
  <2>6. ASSUME NEW p \in Procs, Identify(p) \/ Initialize(p) \/ LeaveListen(p)
        PROVE  OwnershipTypeOK'
    BY <2>6 DEF Identify, Initialize, LeaveListen, Goto, OwnershipTypeOK, Starting, Stopping, Ended
  <2>7. ASSUME NEW p \in Procs, CheckOwner(p) \/ RemoveOwned(p)
        PROVE  OwnershipTypeOK'
    BY <2>7 DEF CheckOwner, RemoveOwned, Goto, OwnershipTypeOK, Starting, Stopping, Ended
  <2>8. ASSUME NEW p \in Procs, Crash(p) PROVE OwnershipTypeOK'
    BY <2>8, OwnershipAssumption DEF Crash, Goto, OwnershipTypeOK, Starting, Stopping, Ended
  <2> QED
    BY <2>1, <2>2, <2>3, <2>4, <2>5, <2>6, <2>7, <2>8 DEF OwnershipNext, Advance
<1> QED
  BY <1>1, <1>2, PTL DEF OwnershipSpec

\* Every step of a process that starts, serves or stops keeps OwnsInv.
LEMMA OwnershipStep ==
  ASSUME OwnershipTypeOK, OwnsInv, OwnershipTypeOK', NEW p \in Procs,
         Start(p) \/ Advance(p) \/ LeaveListen(p) \/ Crash(p)
  PROVE  OwnsInv'
<1> USE OwnershipAssumption
        DEF OwnsInv, Unborn, Recorded, LeftByTheDead, Sheltered, OwnershipTypeOK, Unbound,
            Poised, Listening, Starting, Stopping, Ended, Goto
<1>1. CASE Start(p)
  BY <1>1 DEF Start
<1>2. CASE Bind(p) \/ Rebind(p)
  <2>1. CASE path = NoSocket
    <3>1. BindSocket(p) /\ stage[p] \in {"bind", "rebind"} /\ UNCHANGED <<peer, owner, crashes>>
      BY <1>2, <2>1 DEF Bind, Rebind
    <3>2. \A q \in Procs : path # q
      BY <2>1
    <3>3. Unborn' /\ Recorded' /\ LeftByTheDead'
      BY <3>1, <3>2 DEF BindSocket
    <3>4. Sheltered'
      BY <3>1, <3>2 DEF BindSocket
    <3> QED
      BY <3>3, <3>4
  <2>2. CASE path # NoSocket
    BY <1>2, <2>2 DEF Bind, Rebind
  <2> QED
    BY <2>1, <2>2
<1>3. CASE Connect(p)
  BY <1>3 DEF Connect, Connected, Reachable
<1>4. CASE PingAnswered(p)
  BY <1>4 DEF PingAnswered, Serving
<1>5. CASE ConnectAgain(p)
  BY <1>5 DEF ConnectAgain, Connected, Reachable
<1>6. CASE ShutdownAnswered(p)
  BY <1>6 DEF ShutdownAnswered, Serving
<1>7. CASE GivesUp(p)
  BY <1>7 DEF GivesUp
<1>8. CASE SocketReleased(p)
  BY <1>8 DEF SocketReleased
<1>9. CASE RemoveStale(p)
  BY <1>9 DEF RemoveStale
<1>10. CASE Configure(p)
  BY <1>10 DEF Configure
<1>11. CASE Identify(p)
  BY <1>11 DEF Identify
<1>12. CASE Initialize(p)
  BY <1>12 DEF Initialize
<1>13. CASE LeaveListen(p)
  BY <1>13 DEF LeaveListen
<1>14. CASE CheckOwner(p)
  BY <1>14 DEF CheckOwner
<1>15. CASE RemoveOwned(p)
  BY <1>15 DEF RemoveOwned
<1>16. CASE Crash(p)
  BY <1>16 DEF Crash
<1> QED
  BY <1>1, <1>2, <1>3, <1>4, <1>5, <1>6, <1>7, <1>8, <1>9, <1>10, <1>11, <1>12, <1>13, <1>14,
     <1>15, <1>16 DEF Advance

\* OwnershipInv is inductive.
LEMMA OwnershipInductive == OwnershipSpec => []OwnershipInv
<1>1. OwnershipInit => OwnsInv
  BY OwnershipAssumption
     DEF OwnershipInit, OwnsInv, Unborn, Recorded, LeftByTheDead, Sheltered, Listening, Stopping
<1>2. OwnershipTypeOK /\ OwnershipTypeOK' /\ OwnsInv /\ [OwnershipNext]_ownershipVars => OwnsInv'
  <2> SUFFICES ASSUME OwnershipTypeOK, OwnershipTypeOK', OwnsInv, [OwnershipNext]_ownershipVars
               PROVE  OwnsInv'
    OBVIOUS
  <2>1. CASE UNCHANGED ownershipVars
    BY <2>1 DEF ownershipVars, OwnsInv, Unborn, Recorded, LeftByTheDead, Sheltered, Listening
  <2>2. CASE OwnershipNext
    BY <2>2, OwnershipStep DEF OwnershipNext
  <2> QED
    BY <2>1, <2>2
<1> QED
  BY <1>1, <1>2, OwnershipTypeCorrect, PTL DEF OwnershipSpec, OwnershipInv

\* bind_or_join and remove_socket_if_owned never leave two services behind, an
\* orphan and its replacement, of which each bound while nobody was poised.
THEOREM SoleOwner == OwnershipSpec => []SoleService
<1>1. OwnershipInv => SoleService
  BY DEF OwnershipInv, OwnershipTypeOK, OwnsInv, Sheltered, Listening, Serving, SoleService
<1> QED
  BY <1>1, OwnershipInductive, PTL

\* A serving process that bound while nobody was poised is the one clients
\* reach, and whatever file a later start finds at the path is a running
\* service's, or what a crash left.
THEOREM SocketOwner == OwnershipSpec => []SocketIsItsOwners
<1>1. OwnershipInv => SocketIsItsOwners
  <2> SUFFICES ASSUME OwnershipInv PROVE SocketIsItsOwners
    OBVIOUS
  <2>1. \A p \in settled : Serving(p) => path = p
    BY DEF OwnershipInv, OwnsInv, Sheltered, Listening, Serving
  <2>2. path # NoSocket => Listening(path) \/ stage[path] = "crashed"
    BY DEF OwnershipInv, OwnershipTypeOK, OwnsInv, LeftByTheDead
  <2> QED
    BY <2>1, <2>2 DEF SocketIsItsOwners
<1> QED
  BY <1>1, OwnershipInductive, PTL

\* The checks of bind_or_join and remove_socket_if_owned are not atomic with
\* what they decide, and yet nobody else takes the socket of such a service.
THEOREM CleansUpItsOwn == OwnershipSpec => LosesItToNobody
<1> DEFINE Keeps == \A p \in settled : path = p /\ Listening(p) =>
                       path' = p \/ stage[p] = "remove_owned"
<1>1. OwnershipInv /\ [OwnershipNext]_ownershipVars => [Keeps]_ownershipVars
  <2> SUFFICES ASSUME OwnershipInv, NEW p \in Procs,
                      Start(p) \/ Advance(p) \/ LeaveListen(p) \/ Crash(p),
                      NEW q \in settled, path = q, Listening(q), stage[q] # "remove_owned"
               PROVE  path' = q
    BY DEF OwnershipNext
  <2>1. q \in Procs /\ path # NoSocket /\ (p = q \/ stage[p] \notin Poised)
    BY OwnershipAssumption DEF OwnershipInv, OwnershipTypeOK, OwnsInv, Sheltered
  <2> QED
    BY <2>1 DEF Start, Advance, LeaveListen, Crash, Bind, Connect, PingAnswered, ConnectAgain,
                ShutdownAnswered, GivesUp, SocketReleased, RemoveStale, Rebind, Configure,
                Identify, Initialize, CheckOwner, RemoveOwned, Poised, Listening, Stopping
<1> QED
  BY <1>1, OwnershipInductive, PTL DEF OwnershipSpec, LosesItToNobody
=============================================================================
