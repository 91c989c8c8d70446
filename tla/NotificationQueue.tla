--------------------------- MODULE NotificationQueue ---------------------------
(***************************************************************************)
(* The notification queue of pane-dash (pane-dash/src/notifications.rs):   *)
(* NotificationState and the commands `apply` dispatches on it.            *)
(*                                                                         *)
(* A VecDeque of notifications is modelled by the SET of its elements.     *)
(* Nothing is lost: elements are only ever pushed at the back and every    *)
(* push carries a larger sequence than all earlier ones, so the position   *)
(* of a notification in the VecDeque is the rank of its sequence (that the *)
(* sequences are distinct is part of QueueInv below, and is proved).       *)
(* Message text, labels and the rendering of widths are left out: no       *)
(* decision of the queue looks at them.                                    *)
(***************************************************************************)
EXTENDS Integers, Sequences, FiniteSets

CONSTANTS
    EventIds,                 \* the well-formed event ids
    MalformedId,              \* an id EventId::new rejects
    Panes, NoPane,            \* tmux panes, and Option<PaneId>::None
    Clients, NoClient,        \* tmux clients, and Option<ActiveClient>::None
    Widths,                   \* status row widths
    QUEUE_CAPACITY,           \* 64 in the code
    DEDUP_HISTORY_CAPACITY,   \* 256 in the code
    MAX_SEQUENCE              \* u64::MAX in the code

ASSUME CapacityAssumption ==
    /\ QUEUE_CAPACITY \in Nat \ {0}
    /\ DEDUP_HISTORY_CAPACITY \in Nat \ {0}
    /\ MAX_SEQUENCE \in Nat \ {0}

ASSUME NullAssumption ==
    /\ MalformedId \notin EventIds
    /\ NoPane \notin Panes

Kinds == {"error", "permission", "question", "finished"}

priority == [error |-> 4, permission |-> 3, question |-> 2, finished |-> 1]

\* What a producer hands to the queue, and what the queue keeps of it.
Events == [kind : Kinds, event_id : EventIds \cup {MalformedId}, pane : Panes]

Notification ==
    [kind : Kinds, event_id : EventIds, pane : Panes, sequence : Nat]

ActiveClient ==
    [client_id : Clients, focused : BOOLEAN, current_pane : Panes \cup {NoPane}]

\* RouteIntent: where a dismissed notification takes the user.
NoRoute == [to |-> "none"]
ListRoute == [to |-> "list"]
PaneRoute(n) == [to |-> "pane", pane |-> n.pane, sequence |-> n.sequence]

Routes ==
    {NoRoute, ListRoute} \cup [to : {"pane"}, pane : Panes, sequence : Nat]

Outcomes ==
    {"none", "published", "suppressed_by_focus", "duplicate", "queue_full",
     "removed_stale", "clicked_visible", "clicked_more", "ignored_click",
     "selected", "ignored_selection", "active_client_updated",
     "status_width_updated", "rejected"}

VARIABLES
    queue,            \* the notifications held, a set (see above)
    dedup_history,    \* the event ids remembered, oldest first
    next_sequence,    \* the sequence the next notification gets
    active_client,    \* the client whose focus suppresses, or NoClient
    status_width,     \* width the status row is rendered for
    result            \* the ApplyResult of the last command

queueVars ==
    <<queue, dedup_history, next_sequence, active_client, status_width, result>>

-----------------------------------------------------------------------------
(* Order, membership and the reply                                         *)

\* ordered_notifications: most urgent first, then oldest first.
Before(a, b) ==
    \/ priority[a.kind] > priority[b.kind]
    \/ priority[a.kind] = priority[b.kind] /\ a.sequence < b.sequence

\* The notification the status row shows: the first of the order.
IsVisible(n) == n \in queue /\ \A m \in queue \ {n} : Before(n, m)

Remembered(id) == \E i \in 1 .. Len(dedup_history) : dedup_history[i] = id

is_focus_suppressed(pane) ==
    /\ active_client # NoClient
    /\ active_client.focused
    /\ active_client.current_pane = pane

Reply(outcome, changed, route) ==
    result' = [outcome |-> outcome, changed |-> changed, route |-> route]

\* A full history forgets its oldest id for the new one.
Remembering(history, id) ==
    Append(IF Len(history) = DEDUP_HISTORY_CAPACITY
             THEN Tail(history) ELSE history, id)

remember_event(id) == dedup_history' = Remembering(dedup_history, id)

\* Mutants, here and below, are wrong on purpose: each stands for a slip in the
\* definition after it. This one evicts the oldest of the least urgent.
EvictedOldest(kind) ==
    {n \in queue :
        /\ Cardinality(queue) >= QUEUE_CAPACITY
        /\ priority[n.kind] < priority[kind]
        /\ \A m \in queue : /\ priority[n.kind] <= priority[m.kind]
                            /\ priority[n.kind] = priority[m.kind]
                                 => n.sequence <= m.sequence}

\* eviction_index: in a full queue, the newest of the least urgent
\* notifications, and only for something strictly more urgent. At most one.
Evicted(kind) ==
    {n \in queue :
        /\ Cardinality(queue) >= QUEUE_CAPACITY
        /\ priority[n.kind] < priority[kind]
        /\ \A m \in queue : /\ priority[n.kind] <= priority[m.kind]
                            /\ priority[n.kind] = priority[m.kind]
                                 => m.sequence <= n.sequence}

\* `width` starts at DEFAULT_STATUS_WIDTH; Widths gives it and its successors.
Init ==
    /\ queue = {}
    /\ dedup_history = <<>>
    /\ next_sequence = 1
    /\ active_client = NoClient
    /\ status_width \in Widths
    /\ result = [outcome |-> "none", changed |-> FALSE, route |-> NoRoute]

-----------------------------------------------------------------------------
(* publish: one disjunct per early return, in the order of the code        *)

RejectEventId(event) ==
    /\ event.event_id \notin EventIds
    /\ Reply("rejected", FALSE, NoRoute)
    /\ UNCHANGED <<queue, dedup_history, next_sequence>>

DropDuplicate(event) ==
    /\ event.event_id \in EventIds
    /\ Remembered(event.event_id)
    /\ Reply("duplicate", FALSE, NoRoute)
    /\ UNCHANGED <<queue, dedup_history, next_sequence>>

\* Mutant: looks for duplicates in the queue only.
FreshIfNotQueued(event) ==
    /\ event.event_id \in EventIds
    /\ \A n \in queue : n.event_id # event.event_id

Fresh(event) == event.event_id \in EventIds /\ ~Remembered(event.event_id)

SuppressByFocus(event) ==
    /\ Fresh(event)
    /\ is_focus_suppressed(event.pane)
    /\ remember_event(event.event_id)
    /\ Reply("suppressed_by_focus", TRUE, NoRoute)
    /\ UNCHANGED <<queue, next_sequence>>

\* A full queue turns the event away without remembering it: a retry may pass.
RefuseFull(event) ==
    /\ Fresh(event)
    /\ ~is_focus_suppressed(event.pane)
    /\ Cardinality(queue) = QUEUE_CAPACITY
    /\ Evicted(event.kind) = {}
    /\ Reply("queue_full", FALSE, NoRoute)
    /\ UNCHANGED <<queue, dedup_history, next_sequence>>

HasRoom(event) ==
    /\ Fresh(event)
    /\ ~is_focus_suppressed(event.pane)
    /\ Cardinality(queue) # QUEUE_CAPACITY \/ Evicted(event.kind) # {}

\* reserve_sequence: checked_add fails at u64::MAX, before anything is evicted.
SequenceExhausted(event) ==
    /\ HasRoom(event)
    /\ next_sequence = MAX_SEQUENCE
    /\ Reply("rejected", FALSE, NoRoute)
    /\ UNCHANGED <<queue, dedup_history, next_sequence>>

Queued(event, sequence) ==
    [kind |-> event.kind, event_id |-> event.event_id, pane |-> event.pane,
     sequence |-> sequence]

Enqueue(event) ==
    /\ HasRoom(event)
    /\ next_sequence < MAX_SEQUENCE
    /\ queue' = (queue \ Evicted(event.kind)) \cup {Queued(event, next_sequence)}
    /\ next_sequence' = next_sequence + 1
    /\ remember_event(event.event_id)
    /\ Reply("published", TRUE, NoRoute)

Publish(event) ==
    /\ \/ RejectEventId(event)
       \/ DropDuplicate(event)
       \/ SuppressByFocus(event)
       \/ RefuseFull(event)
       \/ SequenceExhausted(event)
       \/ Enqueue(event)
    /\ UNCHANGED <<active_client, status_width>>

-----------------------------------------------------------------------------
(* focus, panes, clicks and selections                                     *)

SetActiveClient(client) ==
    /\ active_client' = client
    /\ Reply("active_client_updated", active_client # client, NoRoute)
    /\ UNCHANGED <<queue, dedup_history, next_sequence, status_width>>

\* The pane whose notifications a focus change acknowledges.
Acknowledged(client, acknowledge) ==
    {n \in queue : /\ acknowledge
                   /\ client # NoClient
                   /\ client.focused
                   /\ client.current_pane = n.pane}

UpdateActiveClient(client, width, acknowledge) ==
    LET gone == Acknowledged(client, acknowledge) IN
    /\ queue' = queue \ gone
    /\ active_client' = client
    /\ status_width' = width
    /\ Reply("active_client_updated",
             gone # {} \/ active_client # client \/ status_width # width,
             NoRoute)
    /\ UNCHANGED <<dedup_history, next_sequence>>

RemoveStalePanes(panes) ==
    LET stale == {n \in queue : n.pane \in panes} IN
    /\ queue' = queue \ stale
    /\ Reply("removed_stale", stale # {}, NoRoute)
    /\ UNCHANGED <<dedup_history, next_sequence, active_client, status_width>>

\* A click on the `m` range: it opens the list, and dismisses nothing.
ClickMore ==
    /\ IF Cardinality(queue) > 1
         THEN Reply("clicked_more", FALSE, ListRoute)
         ELSE Reply("ignored_click", FALSE, NoRoute)
    /\ UNCHANGED <<queue, dedup_history, next_sequence, active_client,
                   status_width>>

\* Mutant: routes, and leaves the notification to be clicked again.
ClickVisibleKeeps(sequence) ==
    LET shown == {n \in queue : IsVisible(n) /\ n.sequence = sequence} IN
    /\ IF shown = {}
         THEN Reply("ignored_click", FALSE, NoRoute)
         ELSE \E n \in shown : Reply("clicked_visible", TRUE, PaneRoute(n))
    /\ UNCHANGED <<queue, dedup_history, next_sequence, active_client,
                   status_width>>

\* A click on range v<sequence> counts only while that notification is shown.
ClickVisible(sequence) ==
    LET shown == {n \in queue : IsVisible(n) /\ n.sequence = sequence} IN
    /\ queue' = queue \ shown
    /\ IF shown = {}
         THEN Reply("ignored_click", FALSE, NoRoute)
         ELSE \E n \in shown : Reply("clicked_visible", TRUE, PaneRoute(n))
    /\ UNCHANGED <<dedup_history, next_sequence, active_client, status_width>>

\* select takes the first entry of the VecDeque with that event id.
Select(id) ==
    LET named == {n \in queue : n.event_id = id}
        first == {n \in named : \A m \in named : n.sequence <= m.sequence} IN
    /\ queue' = queue \ first
    /\ IF id \notin EventIds
         THEN Reply("rejected", FALSE, NoRoute)
         ELSE IF first = {}
                THEN Reply("ignored_selection", FALSE, NoRoute)
                ELSE \E n \in first : Reply("selected", TRUE, PaneRoute(n))
    /\ UNCHANGED <<dedup_history, next_sequence, active_client, status_width>>

SetStatusWidth(width) ==
    /\ status_width' = width
    /\ Reply("status_width_updated", status_width # width, NoRoute)
    /\ UNCHANGED <<queue, dedup_history, next_sequence, active_client>>

Next ==
    \/ \E event \in Events : Publish(event)
    \/ \E client \in ActiveClient \cup {NoClient} : SetActiveClient(client)
    \/ \E client \in ActiveClient \cup {NoClient}, width \in Widths,
          acknowledge \in BOOLEAN :
            UpdateActiveClient(client, width, acknowledge)
    \/ \E panes \in SUBSET Panes : RemoveStalePanes(panes)
    \/ ClickMore
    \/ \E sequence \in 1 .. MAX_SEQUENCE : ClickVisible(sequence)
    \/ \E id \in EventIds \cup {MalformedId} : Select(id)
    \/ \E width \in Widths : SetStatusWidth(width)

Spec == Init /\ [][Next]_queueVars

-----------------------------------------------------------------------------
(* Properties                                                              *)

\* The variables stay in their sets.
TypeOK ==
    /\ queue \subseteq Notification
    /\ dedup_history \in Seq(EventIds)
    /\ next_sequence \in 1 .. MAX_SEQUENCE
    /\ active_client \in ActiveClient \cup {NoClient}
    /\ status_width \in Widths
    /\ result \in [outcome : Outcomes, changed : BOOLEAN, route : Routes]

\* The two bounds of notifications.rs hold whatever is published, and a
\* sequence names one queued notification, so that a click token and a list
\* cursor, which carry a sequence, cannot mean two of them.
QueueInv ==
    /\ IsFiniteSet(queue)
    /\ Cardinality(queue) <= QUEUE_CAPACITY
    /\ Len(dedup_history) <= DEDUP_HISTORY_CAPACITY
    /\ \A n \in queue : n.sequence \in 1 .. next_sequence - 1
    /\ \A m, n \in queue : m.sequence = n.sequence => m = n

\* The deduplication window. An id is remembered once; a queued notification
\* outlives its own dedup entry, and two queued notifications share an event
\* id, only after DEDUP_HISTORY_CAPACITY later events pushed the entry out.
\* Until then a producer's retry can never show an event twice.
DedupWindow ==
    /\ \A i, j \in 1 .. Len(dedup_history) :
         dedup_history[i] = dedup_history[j] => i = j
    /\ Len(dedup_history) < DEDUP_HISTORY_CAPACITY =>
         /\ \A n \in queue : Remembered(n.event_id)
         /\ \A m, n \in queue : m.event_id = n.event_id => m = n

\* A full queue gives way from its end only: what a publish drops is behind
\* everything the queue keeps, the new notification included, and it is
\* dropped only when the queue is full and stays full.
EvictsFromTheEnd ==
    result'.outcome = "published" =>
        \A n \in queue \ queue' :
            /\ Cardinality(queue) = QUEUE_CAPACITY
            /\ Cardinality(queue') = QUEUE_CAPACITY
            /\ \A m \in queue' : Before(m, n)

EvictionSparesTheUrgent == [][EvictsFromTheEnd]_queueVars

\* While a notification stays queued, only a strictly more urgent arrival takes
\* the visible place from it: the user's target does not move for an equal.
YieldsTo(n, m) ==
    /\ m \notin queue
    /\ priority[m.kind] > priority[n.kind]

VisibleYieldsOnlyToUrgent ==
    [][\A n \in queue \cap queue' :
         (IsVisible(n) /\ ~IsVisible(n)') =>
             \E m \in queue' : IsVisible(m)' /\ YieldsTo(n, m)]_queueVars

\* A sequence that was given out and left the queue never comes back, and a
\* queued notification never changes: a click token the user saw either still
\* means the same notification or means none.
TokensNeverReused ==
    [][{n \in queue' : n.sequence < next_sequence} \subseteq queue]_queueVars

\* The user is routed to the pane of the one notification the command takes off
\* the queue; no command that routes nowhere by itself, clicks and selections
\* of something stale among them, takes one off without the queue saying so.
SilentOutcomes ==
    {"ignored_click", "ignored_selection", "clicked_more", "duplicate",
     "queue_full", "rejected", "suppressed_by_focus"}

DismissalIsRouted ==
    /\ result'.route.to = "pane" =>
         \E n \in queue : queue' = queue \ {n} /\ result'.route = PaneRoute(n)
    /\ result'.outcome \in SilentOutcomes => queue' = queue

RoutesWhatItDismisses == [][DismissalIsRouted]_queueVars
=============================================================================
