------------------------ MODULE NotificationQueueProofs ------------------------
(***************************************************************************)
(* Proofs about NotificationQueue, for every capacity and every set of     *)
(* events, panes and clients.                                              *)
(*                                                                         *)
(* The argument: a command either only shrinks the queue, or remembers an  *)
(* id, or enqueues one notification (CommandEffect). IInv, the conjunction *)
(* of the type invariant, QueueInv and DedupWindow, is preserved by each   *)
(* of the three, and the action properties follow from it.                 *)
(***************************************************************************)
EXTENDS NotificationQueue, FiniteSetTheorems, SequenceTheorems, TLAPS

IInv == TypeOK /\ QueueInv /\ DedupWindow

\* What a command that only takes notifications off the queue does.
Shrinks ==
    /\ queue' \subseteq queue
    /\ UNCHANGED <<dedup_history, next_sequence>>

-----------------------------------------------------------------------------
(* Operators                                                               *)

\* Priorities are numbers, so Before compares them.
LEMMA PriorityType == \A kind \in Kinds : priority[kind] \in Nat
  BY DEF priority, Kinds

\* At most one notification is evicted, and it comes last in list order.
LEMMA EvictedIsLast ==
  ASSUME IInv, NEW kind \in Kinds
  PROVE  /\ Evicted(kind) \subseteq queue
         /\ \A n \in Evicted(kind) : Evicted(kind) = {n}
         /\ \A n \in Evicted(kind), m \in queue \ Evicted(kind) : Before(m, n)
<1>1. Evicted(kind) \subseteq queue
  BY DEF Evicted
<1>2. \A m, n \in Evicted(kind) : m = n
  <2> SUFFICES ASSUME NEW m \in Evicted(kind), NEW n \in Evicted(kind)
               PROVE  m = n
    OBVIOUS
  <2>1. m \in Notification /\ n \in Notification /\ m \in queue /\ n \in queue
    BY <1>1 DEF IInv, TypeOK
  <2>2. m.sequence <= n.sequence /\ n.sequence <= m.sequence
    BY <2>1, PriorityType DEF Evicted, Notification
  <2>3. m.sequence = n.sequence
    BY <2>1, <2>2 DEF Notification
  <2> QED
    BY <2>1, <2>3 DEF IInv, QueueInv
<1>3. ASSUME NEW n \in Evicted(kind), NEW m \in queue \ Evicted(kind)
      PROVE  Before(m, n)
  <2>1. /\ m \in Notification /\ n \in Notification
        /\ m \in queue /\ n \in queue /\ m # n
    BY <1>1, <1>3 DEF IInv, TypeOK
  <2>2. priority[m.kind] \in Nat /\ priority[n.kind] \in Nat
    BY <2>1, PriorityType DEF Notification
  <2>3. /\ priority[n.kind] <= priority[m.kind]
        /\ priority[n.kind] = priority[m.kind] => m.sequence <= n.sequence
    BY <2>1, <1>3 DEF Evicted
  <2>4. m.sequence # n.sequence
    BY <2>1 DEF IInv, QueueInv
  <2> QED
    BY <2>1, <2>2, <2>3, <2>4 DEF Before, Notification
<1> QED
  BY <1>1, <1>2, <1>3

\* Remembering a fresh id keeps the history bounded and free of repetitions,
\* and until the history is full it forgets nothing.
LEMMA RememberingProperties ==
  ASSUME NEW h \in Seq(EventIds), NEW id \in EventIds,
         Len(h) <= DEDUP_HISTORY_CAPACITY,
         \A i, j \in 1 .. Len(h) : h[i] = h[j] => i = j,
         \A i \in 1 .. Len(h) : h[i] # id
  PROVE  LET g == Remembering(h, id) IN
         /\ g \in Seq(EventIds)
         /\ Len(g) <= DEDUP_HISTORY_CAPACITY
         /\ \A i, j \in 1 .. Len(g) : g[i] = g[j] => i = j
         /\ Len(g) < DEDUP_HISTORY_CAPACITY =>
              /\ Len(h) < DEDUP_HISTORY_CAPACITY
              /\ Len(g) = Len(h) + 1
              /\ g[Len(g)] = id
              /\ \A i \in 1 .. Len(h) : g[i] = h[i]
<1> DEFINE g == Remembering(h, id)
<1>0. /\ Len(h) \in Nat
      /\ DEDUP_HISTORY_CAPACITY \in Nat /\ DEDUP_HISTORY_CAPACITY >= 1
  BY LenProperties, CapacityAssumption
<1>1. CASE Len(h) = DEDUP_HISTORY_CAPACITY
  <2>1. h # << >>
    BY <1>0, <1>1, EmptySeq
  <2>2. /\ Tail(h) \in Seq(EventIds) /\ Len(Tail(h)) = Len(h) - 1
        /\ \A i \in 1 .. Len(Tail(h)) : Tail(h)[i] = h[i+1]
    BY <2>1, HeadTailProperties
  <2>3. g = Append(Tail(h), id)
    BY <1>1 DEF Remembering
  <2>4. /\ g \in Seq(EventIds) /\ Len(g) = Len(h)
        /\ \A i \in 1 .. Len(h) - 1 : g[i] = h[i+1]
        /\ g[Len(h)] = id
    BY <1>0, <2>2, <2>3, AppendProperties
  <2>5. \A i, j \in 1 .. Len(g) : g[i] = g[j] => i = j
    <3> SUFFICES ASSUME NEW i \in 1 .. Len(h), NEW j \in 1 .. Len(h),
                        g[i] = g[j]
                 PROVE  i = j
      BY <2>4
    <3>1. CASE i < Len(h) /\ j < Len(h)
      BY <1>0, <2>4, <3>1
    <3>2. CASE i = Len(h) \/ j = Len(h)
      BY <1>0, <2>4, <3>2
    <3> QED
      BY <1>0, <3>1, <3>2
  <2> QED
    BY <1>0, <1>1, <2>4, <2>5
<1>2. CASE Len(h) < DEDUP_HISTORY_CAPACITY
  <2>1. g = Append(h, id)
    BY <1>0, <1>2 DEF Remembering
  <2>2. /\ g \in Seq(EventIds) /\ Len(g) = Len(h) + 1
        /\ \A i \in 1 .. Len(h) : g[i] = h[i]
        /\ g[Len(h) + 1] = id
    BY <2>1, AppendProperties
  <2>3. \A i, j \in 1 .. Len(g) : g[i] = g[j] => i = j
    BY <1>0, <2>2
  <2> QED
    BY <1>0, <1>2, <2>2, <2>3
<1> QED
  BY <1>0, <1>1, <1>2

-----------------------------------------------------------------------------
(* The three effects a command can have                                    *)

LEMMA CommandEffect ==
  ASSUME TypeOK, Next
  PROVE  \/ Shrinks
         \/ \E event \in Events : SuppressByFocus(event)
         \/ \E event \in Events : Enqueue(event)
<1>1. CASE \E event \in Events : Publish(event)
  BY <1>1 DEF Publish, RejectEventId, DropDuplicate, RefuseFull,
              SequenceExhausted, Shrinks
<1>2. CASE \E client \in ActiveClient \cup {NoClient} : SetActiveClient(client)
  BY <1>2 DEF SetActiveClient, Shrinks
<1>3. CASE \E client \in ActiveClient \cup {NoClient}, width \in Widths,
             acknowledge \in BOOLEAN :
               UpdateActiveClient(client, width, acknowledge)
  BY <1>3 DEF UpdateActiveClient, Shrinks
<1>4. CASE \E panes \in SUBSET Panes : RemoveStalePanes(panes)
  BY <1>4 DEF RemoveStalePanes, Shrinks
<1>5. CASE ClickMore
  BY <1>5 DEF ClickMore, Shrinks
<1>6. CASE \E sequence \in 1 .. MAX_SEQUENCE : ClickVisible(sequence)
  BY <1>6 DEF ClickVisible, Shrinks
<1>7. CASE \E id \in EventIds \cup {MalformedId} : Select(id)
  BY <1>7 DEF Select, Shrinks
<1>8. CASE \E width \in Widths : SetStatusWidth(width)
  BY <1>8 DEF SetStatusWidth, Shrinks
<1> QED
  BY <1>1, <1>2, <1>3, <1>4, <1>5, <1>6, <1>7, <1>8 DEF Next

-----------------------------------------------------------------------------
(* The inductive invariant                                                 *)

LEMMA InitEstablishes == Init => IInv
<1> SUFFICES ASSUME Init PROVE IInv
  OBVIOUS
<1>1. IsFiniteSet({}) /\ Cardinality({}) = 0
  BY FS_EmptySet
<1>2. << >> \in Seq(EventIds) /\ Len(<< >>) = 0
  BY EmptySeq
<1>3. TypeOK
  BY <1>2, CapacityAssumption DEF Init, TypeOK, Outcomes, Routes
<1>4. QueueInv
  BY <1>1, <1>2, CapacityAssumption DEF Init, QueueInv
<1>5. DedupWindow
  BY <1>2 DEF Init, DedupWindow
<1> QED
  BY <1>3, <1>4, <1>5 DEF IInv

\* Taking notifications off the queue disturbs no part of the invariant.
LEMMA ShrinksPreserves ==
  ASSUME IInv, Shrinks
  PROVE  QueueInv' /\ DedupWindow'
<1>1. IsFiniteSet(queue') /\ Cardinality(queue') <= Cardinality(queue)
  BY FS_Subset DEF IInv, QueueInv, Shrinks
<1>2. Cardinality(queue') \in Nat /\ Cardinality(queue) \in Nat
  BY <1>1, FS_CardinalityType DEF IInv, QueueInv
<1>3. QueueInv'
  BY <1>1, <1>2, CapacityAssumption DEF IInv, QueueInv, Shrinks
<1>4. DedupWindow'
  BY DEF IInv, DedupWindow, Shrinks, Remembered
<1> QED
  BY <1>3, <1>4

\* What remembering a fresh id does to the history, stated on the variables.
LEMMA RememberPreserves ==
  ASSUME IInv, NEW id \in EventIds, ~Remembered(id), remember_event(id)
  PROVE  /\ dedup_history' \in Seq(EventIds)
         /\ Len(dedup_history') <= DEDUP_HISTORY_CAPACITY
         /\ \A i, j \in 1 .. Len(dedup_history') :
               dedup_history'[i] = dedup_history'[j] => i = j
         /\ Len(dedup_history') < DEDUP_HISTORY_CAPACITY =>
              /\ Len(dedup_history) < DEDUP_HISTORY_CAPACITY
              /\ Remembered(id)'
              /\ \A x : Remembered(x) => Remembered(x)'
<1> DEFINE h == dedup_history
           g == Remembering(h, id)
<1>0. h \in Seq(EventIds) /\ Len(h) \in Nat
  BY LenProperties DEF IInv, TypeOK
<1>1. /\ Len(h) <= DEDUP_HISTORY_CAPACITY
      /\ \A i, j \in 1 .. Len(h) : h[i] = h[j] => i = j
      /\ \A i \in 1 .. Len(h) : h[i] # id
  BY DEF IInv, QueueInv, DedupWindow, Remembered
<1>2. /\ g \in Seq(EventIds)
      /\ Len(g) <= DEDUP_HISTORY_CAPACITY
      /\ \A i, j \in 1 .. Len(g) : g[i] = g[j] => i = j
      /\ Len(g) < DEDUP_HISTORY_CAPACITY =>
           /\ Len(h) < DEDUP_HISTORY_CAPACITY
           /\ Len(g) = Len(h) + 1
           /\ g[Len(g)] = id
           /\ \A i \in 1 .. Len(h) : g[i] = h[i]
  <2> HIDE DEF h
  <2> QED BY <1>0, <1>1, RememberingProperties
<1>3. dedup_history' = g
  BY DEF remember_event
<1>4. ASSUME Len(g) < DEDUP_HISTORY_CAPACITY
      PROVE  /\ Remembered(id)'
             /\ \A x : Remembered(x) => Remembered(x)'
  <2>1. Len(g) = Len(h) + 1 /\ g[Len(g)] = id
        /\ \A i \in 1 .. Len(h) : g[i] = h[i]
    BY <1>2, <1>4
  <2>2. Len(g) \in 1 .. Len(g) /\ 1 .. Len(h) \subseteq 1 .. Len(g)
    BY <1>0, <2>1
  <2> QED
    BY <1>3, <2>1, <2>2 DEF Remembered
<1> QED
  BY <1>2, <1>3, <1>4

\* Suppression remembers the id and leaves the queue alone.
LEMMA SuppressPreserves ==
  ASSUME IInv, NEW event \in Events, SuppressByFocus(event)
  PROVE  QueueInv' /\ DedupWindow'
<1>1. /\ event.event_id \in EventIds /\ ~Remembered(event.event_id)
      /\ remember_event(event.event_id)
      /\ UNCHANGED <<queue, next_sequence>>
  BY DEF SuppressByFocus, Fresh
<1>2. QueueInv'
  BY <1>1, RememberPreserves DEF IInv, QueueInv
<1>3. DedupWindow'
  <2>1. ASSUME (Len(dedup_history) < DEDUP_HISTORY_CAPACITY)'
        PROVE  /\ \A n \in queue : Remembered(n.event_id)'
               /\ \A m, n \in queue : m.event_id = n.event_id => m = n
    BY <1>1, <2>1, RememberPreserves DEF IInv, DedupWindow
  <2> QED
    BY <1>1, <2>1, RememberPreserves DEF DedupWindow
<1> QED
  BY <1>2, <1>3

\* The queue after an enqueue: the new notification joins what was not evicted.
LEMMA EnqueueQueue ==
  ASSUME IInv, NEW event \in Events, Enqueue(event)
  PROVE  \E new \in Notification :
           /\ new.sequence = next_sequence /\ new.event_id = event.event_id
           /\ new.kind = event.kind
           /\ new \notin queue
           /\ queue' = (queue \ Evicted(event.kind)) \cup {new}
           /\ IsFiniteSet(queue')
           /\ Cardinality(queue') <= QUEUE_CAPACITY
           /\ Evicted(event.kind) # {} => /\ Cardinality(queue) = QUEUE_CAPACITY
                                         /\ Cardinality(queue') = QUEUE_CAPACITY
<1> DEFINE new == [kind |-> event.kind, event_id |-> event.event_id,
                   pane |-> event.pane, sequence |-> next_sequence]
           gone == Evicted(event.kind)
<1>0. event.kind \in Kinds /\ event.event_id \in EventIds /\ event.pane \in Panes
  BY DEF Events, Enqueue, HasRoom, Fresh
<1>1. next_sequence \in Nat /\ new \in Notification
  BY <1>0, CapacityAssumption DEF IInv, TypeOK, Notification
<1>2. new \notin queue
  BY <1>1 DEF IInv, QueueInv
<1>3. queue' = (queue \ gone) \cup {new}
  BY DEF Enqueue, Queued
<1>4. /\ IsFiniteSet(queue) /\ Cardinality(queue) \in Nat
      /\ Cardinality(queue) <= QUEUE_CAPACITY /\ QUEUE_CAPACITY \in Nat
  BY FS_CardinalityType, CapacityAssumption DEF IInv, QueueInv
<1>5. CASE gone = {}
  <2>1. Cardinality(queue) # QUEUE_CAPACITY
    BY <1>5 DEF Enqueue, HasRoom
  <2>2. queue' = queue \cup {new}
    BY <1>3, <1>5
  <2>3. IsFiniteSet(queue') /\ Cardinality(queue') = Cardinality(queue) + 1
    BY <1>2, <1>4, <2>2, FS_AddElement
  <2>4. Cardinality(queue') <= QUEUE_CAPACITY
    BY <1>4, <2>1, <2>3
  <2> QED
    BY <1>1, <1>2, <1>3, <1>5, <2>3, <2>4
<1>6. CASE gone # {}
  <2>1. PICK n \in gone : gone = {n} /\ n \in queue
    BY <1>0, <1>6, EvictedIsLast
  <2>2. Cardinality(queue) >= QUEUE_CAPACITY
    BY <2>1 DEF Evicted
  <2>3. Cardinality(queue) = QUEUE_CAPACITY
    BY <1>4, <2>2
  <2>4. /\ IsFiniteSet(queue \ {n})
        /\ Cardinality(queue \ {n}) = QUEUE_CAPACITY - 1
    BY <1>4, <2>1, <2>3, FS_RemoveElement
  <2>5. queue' = (queue \ {n}) \cup {new} /\ new \notin queue \ {n}
    BY <1>2, <1>3, <2>1
  <2>6. /\ IsFiniteSet(queue')
        /\ Cardinality(queue') = QUEUE_CAPACITY - 1 + 1
    BY <2>4, <2>5, FS_AddElement
  <2>7. Cardinality(queue') = QUEUE_CAPACITY
    BY <1>4, <2>6
  <2> QED
    BY <1>1, <1>2, <1>3, <1>4, <2>3, <2>6, <2>7
<1> QED
  BY <1>5, <1>6

LEMMA EnqueuePreserves ==
  ASSUME IInv, NEW event \in Events, Enqueue(event)
  PROVE  QueueInv' /\ DedupWindow'
<1>1. PICK new \in Notification :
         /\ new.sequence = next_sequence /\ new.event_id = event.event_id
         /\ new \notin queue
         /\ queue' = (queue \ Evicted(event.kind)) \cup {new}
         /\ IsFiniteSet(queue')
         /\ Cardinality(queue') <= QUEUE_CAPACITY
  BY EnqueueQueue
<1>2. /\ event.event_id \in EventIds /\ ~Remembered(event.event_id)
      /\ remember_event(event.event_id)
      /\ next_sequence' = next_sequence + 1
  BY DEF Enqueue, HasRoom, Fresh
<1>3. next_sequence \in Nat /\ next_sequence >= 1
  BY CapacityAssumption DEF IInv, TypeOK
<1>4. \A n \in queue' : n \in queue \/ n = new
  BY <1>1 DEF Evicted
<1>5. \A n \in queue : n.sequence \in 1 .. next_sequence - 1
  BY DEF IInv, QueueInv
<1>6. \A n \in queue' : n.sequence \in 1 .. next_sequence' - 1
  <2> SUFFICES ASSUME NEW n \in queue'
               PROVE  n.sequence \in 1 .. next_sequence' - 1
    OBVIOUS
  <2>1. CASE n \in queue
    BY <1>2, <1>3, <1>5, <2>1
  <2>2. CASE n = new
    BY <1>1, <1>2, <1>3, <2>2
  <2> QED
    BY <1>4, <2>1, <2>2
<1>7. \A m, n \in queue' : m.sequence = n.sequence => m = n
  <2>1. \A m, n \in queue : m.sequence = n.sequence => m = n
    BY DEF IInv, QueueInv
  <2>2. \A n \in queue : n.sequence # new.sequence
    BY <1>1, <1>3, <1>5
  <2> QED
    BY <1>4, <2>1, <2>2
<1>8. QueueInv'
  BY <1>1, <1>2, <1>6, <1>7, RememberPreserves DEF QueueInv
<1>9. DedupWindow'
  <2>1. ASSUME (Len(dedup_history) < DEDUP_HISTORY_CAPACITY)'
        PROVE  /\ \A n \in queue' : Remembered(n.event_id)'
               /\ \A m, n \in queue' : m.event_id = n.event_id => m = n
    <3>1. /\ Len(dedup_history) < DEDUP_HISTORY_CAPACITY
          /\ Remembered(event.event_id)'
          /\ \A x : Remembered(x) => Remembered(x)'
      BY <1>2, <2>1, RememberPreserves
    <3>2. /\ \A n \in queue : Remembered(n.event_id)
          /\ \A m, n \in queue : m.event_id = n.event_id => m = n
      BY <3>1 DEF IInv, DedupWindow
    <3>3. \A n \in queue : n.event_id # new.event_id
      BY <1>1, <1>2, <3>2
    <3> QED
      BY <1>1, <1>4, <3>1, <3>2, <3>3
  <2> QED
    BY <1>2, <2>1, RememberPreserves DEF DedupWindow
<1> QED
  BY <1>8, <1>9

\* Each command replies with a well-formed result.
LEMMA ReplyType ==
  ASSUME TypeOK, Next
  PROVE  result' \in [outcome : Outcomes, changed : BOOLEAN, route : Routes]
<1>0. NoRoute \in Routes /\ ListRoute \in Routes
  BY DEF Routes
<1>1. ASSUME NEW n \in queue PROVE PaneRoute(n) \in Routes
  BY <1>1 DEF TypeOK, Notification, PaneRoute, Routes
<1>2. ASSUME NEW o \in Outcomes, NEW c \in BOOLEAN, NEW r \in Routes,
             Reply(o, c, r)
      PROVE  result' \in [outcome : Outcomes, changed : BOOLEAN, route : Routes]
  BY <1>2 DEF Reply
<1>3. ASSUME NEW event \in Events, Publish(event)
      PROVE  \E o \in Outcomes, c \in BOOLEAN, r \in Routes : Reply(o, c, r)
  BY <1>0, <1>3 DEF Publish, RejectEventId, DropDuplicate, SuppressByFocus,
                    RefuseFull, SequenceExhausted, Enqueue, Outcomes
<1>4. ASSUME NEW client, SetActiveClient(client)
      PROVE  \E o \in Outcomes, c \in BOOLEAN, r \in Routes : Reply(o, c, r)
  BY <1>0, <1>4 DEF SetActiveClient, Outcomes
<1>5. ASSUME NEW client, NEW width, NEW acknowledge \in BOOLEAN,
             UpdateActiveClient(client, width, acknowledge)
      PROVE  \E o \in Outcomes, c \in BOOLEAN, r \in Routes : Reply(o, c, r)
  BY <1>0, <1>5 DEF UpdateActiveClient, Outcomes
<1>6. ASSUME NEW panes, RemoveStalePanes(panes)
      PROVE  \E o \in Outcomes, c \in BOOLEAN, r \in Routes : Reply(o, c, r)
  BY <1>0, <1>6 DEF RemoveStalePanes, Outcomes
<1>7. ASSUME ClickMore
      PROVE  \E o \in Outcomes, c \in BOOLEAN, r \in Routes : Reply(o, c, r)
  BY <1>0, <1>7 DEF ClickMore, Outcomes
<1>8. ASSUME NEW sequence, ClickVisible(sequence)
      PROVE  \E o \in Outcomes, c \in BOOLEAN, r \in Routes : Reply(o, c, r)
  BY <1>0, <1>1, <1>8 DEF ClickVisible, Outcomes
<1>9. ASSUME NEW id, Select(id)
      PROVE  \E o \in Outcomes, c \in BOOLEAN, r \in Routes : Reply(o, c, r)
  BY <1>0, <1>1, <1>9 DEF Select, Outcomes
<1>10. ASSUME NEW width, SetStatusWidth(width)
       PROVE  \E o \in Outcomes, c \in BOOLEAN, r \in Routes : Reply(o, c, r)
  BY <1>0, <1>10 DEF SetStatusWidth, Outcomes
<1> QED
  BY <1>2, <1>3, <1>4, <1>5, <1>6, <1>7, <1>8, <1>9, <1>10 DEF Next

LEMMA ClientAndWidthType ==
  ASSUME TypeOK, Next
  PROVE  /\ active_client' \in ActiveClient \cup {NoClient}
         /\ status_width' \in Widths
  BY DEF TypeOK, Next, Publish, SetActiveClient, UpdateActiveClient,
         RemoveStalePanes, ClickMore, ClickVisible, Select, SetStatusWidth

LEMMA StepPreserves == IInv /\ [Next]_queueVars => IInv'
<1> SUFFICES ASSUME IInv, [Next]_queueVars PROVE IInv'
  OBVIOUS
<1>1. CASE UNCHANGED queueVars
  BY <1>1 DEF IInv, TypeOK, QueueInv, DedupWindow, Remembered, queueVars
<1>2. CASE Next
  <2>1. /\ result' \in [outcome : Outcomes, changed : BOOLEAN, route : Routes]
        /\ active_client' \in ActiveClient \cup {NoClient}
        /\ status_width' \in Widths
    BY <1>2, ReplyType, ClientAndWidthType DEF IInv
  <2>2. CASE Shrinks
    <3>1. /\ queue' \subseteq Notification
          /\ dedup_history' \in Seq(EventIds)
          /\ next_sequence' \in 1 .. MAX_SEQUENCE
      BY <2>2 DEF IInv, TypeOK, Shrinks
    <3> QED
      BY <2>1, <2>2, <3>1, ShrinksPreserves DEF IInv, TypeOK
  <2>3. CASE \E event \in Events : SuppressByFocus(event)
    <3>1. PICK event \in Events : SuppressByFocus(event)
      BY <2>3
    <3>2. dedup_history' \in Seq(EventIds)
      BY <3>1, RememberPreserves DEF SuppressByFocus, Fresh
    <3>3. queue' \subseteq Notification /\ next_sequence' \in 1 .. MAX_SEQUENCE
      BY <3>1 DEF IInv, TypeOK, SuppressByFocus
    <3> QED
      BY <2>1, <3>1, <3>2, <3>3, SuppressPreserves DEF IInv, TypeOK
  <2>4. CASE \E event \in Events : Enqueue(event)
    <3>1. PICK event \in Events : Enqueue(event)
      BY <2>4
    <3>2. dedup_history' \in Seq(EventIds)
      BY <3>1, RememberPreserves DEF Enqueue, HasRoom, Fresh
    <3>3. queue' \subseteq Notification
      BY <3>1, EnqueueQueue DEF IInv, TypeOK, Evicted
    <3>4. next_sequence' \in 1 .. MAX_SEQUENCE
      BY <3>1, CapacityAssumption DEF IInv, TypeOK, Enqueue
    <3> QED
      BY <2>1, <3>1, <3>2, <3>3, <3>4, EnqueuePreserves DEF IInv, TypeOK
  <2> QED
    BY <1>2, <2>2, <2>3, <2>4, CommandEffect DEF IInv
<1> QED
  BY <1>1, <1>2

LEMMA InvariantHolds == Spec => []IInv
  BY InitEstablishes, StepPreserves, PTL DEF Spec

-----------------------------------------------------------------------------
(* Theorems                                                                *)

\* The variables of notifications.rs's NotificationState keep their types.
THEOREM TypeCorrect == Spec => []TypeOK
  BY InvariantHolds, PTL DEF IInv

\* Queue and history stay within their capacities, and a sequence names at
\* most one queued notification (`publish`, `remember_event`).
THEOREM QueueInvariant == Spec => []QueueInv
  BY InvariantHolds, PTL DEF IInv

\* No event is queued twice until the dedup history has overflowed (`publish`).
THEOREM Deduplication == Spec => []DedupWindow
  BY InvariantHolds, PTL DEF IInv

\* A sequence that left the queue never returns (`reserve_sequence`).
THEOREM TokensStayDead == Spec => TokensNeverReused
<1> DEFINE Fixed == {n \in queue' : n.sequence < next_sequence} \subseteq queue
<1>1. IInv /\ [Next]_queueVars => [Fixed]_queueVars
  <2> SUFFICES ASSUME IInv, Next PROVE Fixed
    OBVIOUS
  <2>1. CASE Shrinks
    BY <2>1 DEF Shrinks
  <2>2. CASE \E event \in Events : SuppressByFocus(event)
    BY <2>2 DEF SuppressByFocus
  <2>3. CASE \E event \in Events : Enqueue(event)
    <3>1. PICK new \in Notification :
             /\ new.sequence = next_sequence
             /\ queue' \subseteq queue \cup {new}
      BY <2>3, EnqueueQueue DEF Evicted
    <3>2. ~(next_sequence < next_sequence)
      BY DEF IInv, TypeOK
    <3> QED
      BY <3>1, <3>2
  <2> QED
    BY <2>1, <2>2, <2>3, CommandEffect DEF IInv
<1> QED
  BY <1>1, InvariantHolds, PTL DEF Spec, TokensNeverReused

\* The replies that go with the three effects: only `publish` queues, and it
\* says so; only `click` and `select` route to a pane.
LEMMA PublishedMeansEnqueued ==
  ASSUME Next, result'.outcome = "published"
  PROVE  \E event \in Events : Enqueue(event)
<1>1. ASSUME NEW o, NEW c, NEW r, Reply(o, c, r)
      PROVE  o = "published"
  BY <1>1 DEF Reply
<1> QED
  BY <1>1 DEF Next, Publish, RejectEventId, DropDuplicate, SuppressByFocus,
              RefuseFull, SequenceExhausted, SetActiveClient,
              UpdateActiveClient, RemoveStalePanes, ClickMore, ClickVisible,
              Select, SetStatusWidth

\* A full queue evicts only from the end of the list order (`eviction_index`).
THEOREM EvictionOrder == Spec => EvictionSparesTheUrgent
<1>1. IInv /\ [Next]_queueVars => [EvictsFromTheEnd]_queueVars
  <2> SUFFICES ASSUME IInv, Next, result'.outcome = "published",
                      NEW n \in queue \ queue'
               PROVE  /\ Cardinality(queue) = QUEUE_CAPACITY
                      /\ Cardinality(queue') = QUEUE_CAPACITY
                      /\ \A m \in queue' : Before(m, n)
    BY DEF EvictsFromTheEnd
  <2>1. PICK event \in Events : Enqueue(event)
    BY PublishedMeansEnqueued
  <2> DEFINE gone == Evicted(event.kind)
  <2>2. event.kind \in Kinds
    BY DEF Events
  <2>3. PICK new \in Notification :
           /\ new.kind = event.kind
           /\ queue' = (queue \ gone) \cup {new}
           /\ gone # {} => /\ Cardinality(queue) = QUEUE_CAPACITY
                           /\ Cardinality(queue') = QUEUE_CAPACITY
    BY <2>1, EnqueueQueue
  <2>4. n \in gone
    BY <2>3
  <2>5. \A m \in queue \ gone : Before(m, n)
    BY <2>2, <2>4, EvictedIsLast
  <2>6. Before(new, n)
    <3>1. priority[n.kind] < priority[new.kind]
      BY <2>3, <2>4 DEF Evicted
    <3>2. priority[n.kind] \in Nat /\ priority[new.kind] \in Nat
      BY PriorityType DEF IInv, TypeOK, Notification
    <3> QED
      BY <3>1, <3>2 DEF Before
  <2> QED
    BY <2>3, <2>4, <2>5, <2>6
<1> QED
  BY <1>1, InvariantHolds, PTL DEF Spec, EvictionSparesTheUrgent

\* What is shown gives way only to something strictly more urgent (`publish`,
\* `ordered_notifications`).
THEOREM VisibleStability == Spec => VisibleYieldsOnlyToUrgent
<1> DEFINE Yields ==
      \A n \in queue \cap queue' :
         (IsVisible(n) /\ ~IsVisible(n)') =>
             \E m \in queue' : IsVisible(m)' /\ YieldsTo(n, m)
<1>1. IInv /\ [Next]_queueVars => [Yields]_queueVars
  <2> SUFFICES ASSUME IInv, Next,
                      NEW n \in queue \cap queue', IsVisible(n), ~IsVisible(n)'
               PROVE  \E m \in queue' : IsVisible(m)' /\ YieldsTo(n, m)
    OBVIOUS
  <2>1. \A m \in queue \ {n} : Before(n, m)
    BY DEF IsVisible
  <2>2. PICK m \in queue' \ {n} : ~Before(n, m)
    BY DEF IsVisible, Before
  <2>3. PICK event \in Events : Enqueue(event)
    <3>1. ~(queue' \subseteq queue)
      BY <2>1, <2>2
    <3> QED
      BY <3>1, CommandEffect DEF Shrinks, SuppressByFocus, IInv
  <2>4. PICK new \in Notification :
           /\ new.sequence = next_sequence /\ new \notin queue
           /\ queue' = (queue \ Evicted(event.kind)) \cup {new}
    BY <2>3, EnqueueQueue
  <2>5. m = new
    BY <2>1, <2>2, <2>4
  <2>6. /\ n.sequence < new.sequence
        /\ n.sequence \in Nat /\ new.sequence \in Nat
    BY <2>4, CapacityAssumption DEF IInv, TypeOK, QueueInv, Notification
  <2>7. \A x \in queue' : priority[x.kind] \in Nat
    BY <2>4, PriorityType DEF IInv, TypeOK, Notification
  <2>8. priority[new.kind] > priority[n.kind]
    BY <2>2, <2>5, <2>6, <2>7 DEF Before
  <2>9. \A x \in queue' \ {new} : Before(new, x)
    <3> SUFFICES ASSUME NEW x \in queue' \ {new} PROVE Before(new, x)
      OBVIOUS
    <3>1. x = n \/ Before(n, x)
      BY <2>1, <2>4
    <3>2. priority[x.kind] <= priority[n.kind]
      BY <2>7, <3>1 DEF Before
    <3> QED
      BY <2>4, <2>7, <2>8, <3>2 DEF Before
  <2>10. IsVisible(new)'
    BY <2>4, <2>9 DEF IsVisible, Before
  <2> QED
    BY <2>4, <2>8, <2>10 DEF YieldsTo
<1> QED
  BY <1>1, InvariantHolds, PTL DEF Spec, VisibleYieldsOnlyToUrgent

\* At most one notification is shown, and at most one is the first of an id.
LEMMA ChosenIsUnique ==
  ASSUME IInv
  PROVE  /\ \A m, n \in queue : IsVisible(m) /\ IsVisible(n) => m = n
         /\ \A m, n \in queue :
              m.sequence <= n.sequence /\ n.sequence <= m.sequence => m = n
<1>1. \A n \in queue : n.sequence \in Nat /\ priority[n.kind] \in Nat
  BY PriorityType DEF IInv, TypeOK, Notification
<1>2. \A m, n \in queue : ~(Before(m, n) /\ Before(n, m))
  BY <1>1 DEF Before
<1>3. \A m, n \in queue : IsVisible(m) /\ IsVisible(n) => m = n
  BY <1>2 DEF IsVisible
<1>4. \A m, n \in queue :
        m.sequence <= n.sequence /\ n.sequence <= m.sequence => m = n
  BY <1>1 DEF IInv, QueueInv
<1> QED
  BY <1>3, <1>4

\* The user is taken to the pane of the notification that is dismissed
\* (`click`, `select`).
THEOREM RouteMatchesDismissal == Spec => RoutesWhatItDismisses
<1>1. ASSUME NEW o, NEW c, NEW r, Reply(o, c, r), r.to # "pane",
             queue' = queue \/ o \notin SilentOutcomes
      PROVE  DismissalIsRouted
  BY <1>1 DEF Reply, DismissalIsRouted
<1>2. ASSUME NEW n \in queue, NEW o, NEW c, Reply(o, c, PaneRoute(n)),
             queue' = queue \ {n}, o \notin SilentOutcomes
      PROVE  DismissalIsRouted
  BY <1>2 DEF Reply, DismissalIsRouted
<1>3. NoRoute.to # "pane" /\ ListRoute.to # "pane"
  BY DEF NoRoute, ListRoute
<1>4. IInv /\ [Next]_queueVars => [DismissalIsRouted]_queueVars
  <2> SUFFICES ASSUME IInv, Next PROVE DismissalIsRouted
    OBVIOUS
  <2>1. CASE \E event \in Events : Publish(event)
    <3>1. CASE \E event \in Events : Enqueue(event)
      <4>1. Reply("published", TRUE, NoRoute)
        BY <3>1 DEF Enqueue
      <4>2. "published" \notin SilentOutcomes
        BY DEF SilentOutcomes
      <4> QED
        BY <1>1, <1>3, <4>1, <4>2
    <3>2. CASE \E o, c : queue' = queue /\ Reply(o, c, NoRoute)
      BY <1>1, <1>3, <3>2
    <3> QED
      BY <2>1, <3>1, <3>2 DEF Publish, RejectEventId, DropDuplicate,
            SuppressByFocus, RefuseFull, SequenceExhausted
  <2>2. CASE \/ \E client \in ActiveClient \cup {NoClient} :
                 SetActiveClient(client)
             \/ \E client \in ActiveClient \cup {NoClient}, width \in Widths,
                   acknowledge \in BOOLEAN :
                     UpdateActiveClient(client, width, acknowledge)
             \/ \E width \in Widths : SetStatusWidth(width)
             \/ \E panes \in SUBSET Panes : RemoveStalePanes(panes)
    <3>1. PICK o, c : Reply(o, c, NoRoute) /\ o \notin SilentOutcomes
      BY <2>2 DEF SetActiveClient, UpdateActiveClient, SetStatusWidth,
            RemoveStalePanes, SilentOutcomes
    <3> QED
      BY <1>1, <1>3, <3>1
  <2>3. CASE ClickMore
    <3>1. queue' = queue /\ \E o, c : \/ Reply(o, c, NoRoute)
                                     \/ Reply(o, c, ListRoute)
      BY <2>3 DEF ClickMore
    <3> QED
      BY <1>1, <1>3, <3>1
  <2>4. CASE \E sequence \in 1 .. MAX_SEQUENCE : ClickVisible(sequence)
    <3>1. PICK sequence \in 1 .. MAX_SEQUENCE : ClickVisible(sequence)
      BY <2>4
    <3> DEFINE shown == {n \in queue : IsVisible(n) /\ n.sequence = sequence}
    <3>2. queue' = queue \ shown
      BY <3>1 DEF ClickVisible
    <3>3. CASE shown = {}
      <4>1. Reply("ignored_click", FALSE, NoRoute)
        BY <3>1, <3>3 DEF ClickVisible
      <4>2. queue' = queue
        BY <3>2, <3>3
      <4> QED
        BY <1>1, <1>3, <4>1, <4>2
    <3>4. CASE shown # {}
      <4>1. PICK n \in shown : Reply("clicked_visible", TRUE, PaneRoute(n))
        BY <3>1, <3>4 DEF ClickVisible
      <4>2. shown = {n}
        BY <4>1, ChosenIsUnique
      <4>3. n \in queue /\ queue' = queue \ {n}
        BY <3>2, <4>2
      <4>4. "clicked_visible" \notin SilentOutcomes
        BY DEF SilentOutcomes
      <4> QED
        BY <1>2, <4>1, <4>3, <4>4
    <3> QED
      BY <3>3, <3>4
  <2>5. CASE \E id \in EventIds \cup {MalformedId} : Select(id)
    <3>1. PICK id \in EventIds \cup {MalformedId} : Select(id)
      BY <2>5
    <3> DEFINE named == {n \in queue : n.event_id = id}
               first == {n \in named : \A m \in named : n.sequence <= m.sequence}
    <3>2. queue' = queue \ first
      BY <3>1 DEF Select
    <3>3. id \notin EventIds => first = {}
      BY DEF IInv, TypeOK, Notification
    <3>4. CASE first = {}
      <4>1. \E o : Reply(o, FALSE, NoRoute)
        BY <3>1, <3>4 DEF Select
      <4>2. queue' = queue
        BY <3>2, <3>4
      <4> QED
        BY <1>1, <1>3, <4>1, <4>2
    <3>5. CASE first # {}
      <4>1. PICK n \in first : Reply("selected", TRUE, PaneRoute(n))
        BY <3>1, <3>3, <3>5 DEF Select
      <4>2. first = {n}
        BY <4>1, ChosenIsUnique
      <4>3. n \in queue /\ queue' = queue \ {n}
        BY <3>2, <4>2
      <4>4. "selected" \notin SilentOutcomes
        BY DEF SilentOutcomes
      <4> QED
        BY <1>2, <4>1, <4>3, <4>4
    <3> QED
      BY <3>4, <3>5
  <2> QED
    BY <2>1, <2>2, <2>3, <2>4, <2>5 DEF Next
<1> QED
  BY <1>4, InvariantHolds, PTL DEF Spec, RoutesWhatItDismisses
=============================================================================
