-------------------------- MODULE PaneCreationProofs --------------------------
(***************************************************************************)
(* That a creation never cuts another one short and that no pane is        *)
(* forgotten or misreported, however many creations there are.             *)
(*                                                                         *)
(* The reducer knows nothing of the workers: that it has done with a       *)
(* creation must mean that the worker has too. It does because whatever    *)
(* makes the reducer conclude is the last report of a worker (Final). What *)
(* it knows of the pane is what the reports before that one said, in the   *)
(* order in which they were sent (Trail, further below).                   *)
(***************************************************************************)
EXTENDS PaneCreation, TLAPS

Conclusions == {"none", "error", "awaiting"}
States == Conclusions \cup {"creating", "created", "tagging", "sending", "entering"}
WorkerStages == {"idle", "create", "tag", "send", "enter", "done"}

StageNames == {"none", "create", "tag", "send", "enter"}
Resolutions ==
    [kind : {"none", "success", "tagFailed", "commandFailed", "timedOut"}, stage : StageNames]
Pendings ==
    [id : Ids \cup {None}, state : States, pane : Ids \cup {None}, resolution : Resolutions]
Messages ==
    [kind : {"stage", "created", "finished", "createFailed", "timedOut", "taskFailed"},
     id : Ids, stage : StageNames, pane : Ids \cup {None}, resolution : Resolutions]
Workers ==
    [stage : WorkerStages, child : {"none", "running", "ran", "failed"}, typed : BOOLEAN,
     cancelled : BOOLEAN, overdue : BOOLEAN, panicked : BOOLEAN]

Types ==
    /\ pending \in Pendings
    /\ modal \in {"none", "form", "submitting", "other"}
    /\ nextId \in Nat \ {None}
    /\ task \in Ids \cup {None}
    /\ progress \in Seq(Messages)
    /\ worker \in [Ids -> Workers]
    /\ quit \in BOOLEAN

\* The creations that were not yet begun, and the worker that is kept.
Begun(next, kept, ws) ==
    /\ kept < next
    /\ \A id \in Ids : id >= next => ws[id].stage = "idle" /\ ~ws[id].cancelled

\* The reports that make the reducer conclude come from workers that ended.
Last == {"createFailed", "timedOut", "taskFailed", "finished"}
Final(ms, ws) ==
    \A i \in 1 .. Len(ms) : ms[i].kind \in Last => ws[ms[i].id].stage = "done"

\* A worker at work serves the pending creation, and nobody told it to stop.
Working(ws, id) == ws[id].stage \notin {"idle", "done"}
Serving(p, ws, left) ==
    \A id \in Ids : Working(ws, id) =>
        /\ p.id = id /\ p.state \notin Conclusions
        /\ ~left => ~ws[id].cancelled

\* An open form is for a creation that is not under way.
FormIsFree(m, p) == m = "form" => p.state \in {"none", "error"}

Inv ==
    /\ Types
    /\ Begun(nextId, task, worker)
    /\ Final(progress, worker)
    /\ Serving(pending, worker, quit)
    /\ FormIsFree(modal, pending)

-----------------------------------------------------------------------------
(* The loop                                                                 *)

\* The resolutions that are reported.
LEMMA ResolutionsFit ==
    /\ NoResolution \in Resolutions /\ Success \in Resolutions /\ TagFailed \in Resolutions
    /\ \A stage \in StageNames :
          CommandFailed(stage) \in Resolutions /\ TimedOut(stage) \in Resolutions
<1>1. NoResolution \in Resolutions /\ Success \in Resolutions /\ TagFailed \in Resolutions
  BY DEF NoResolution, Success, TagFailed, Resolutions, StageNames
<1>2. ASSUME NEW stage \in StageNames
      PROVE  CommandFailed(stage) \in Resolutions /\ TimedOut(stage) \in Resolutions
  BY <1>2 DEF CommandFailed, TimedOut, Resolutions
<1> QED
  BY <1>1, <1>2

\* The messages that workers and the loop send.
LEMMA MessagesFit ==
    ASSUME NEW id \in Ids
    PROVE  /\ \A stage \in StageNames : StageMessage(id, stage) \in Messages
           /\ Created(id) \in Messages
           /\ \A r \in Resolutions : Finished(id, r) \in Messages
           /\ \A kind \in Last : Outcome(kind, id) \in Messages
<1>1. ASSUME NEW kind \in {"stage", "created", "finished"} \cup Last,
             NEW stage \in StageNames, NEW pane \in Ids \cup {None}, NEW r \in Resolutions
      PROVE  Message(kind, id, stage, pane, r) \in Messages
  BY <1>1 DEF Message, Messages, Last
<1>2. "none" \in StageNames
  BY DEF StageNames
<1> QED
  BY <1>1, <1>2, ResolutionsFit DEF StageMessage, Created, Finished, Outcome, Last

\* Reaping reports a worker that panicked, which ended with that.
LEMMA ReapingKeeps ==
    ASSUME Types, Begun(nextId, task, worker), NEW ms \in Seq(Messages), Final(ms, worker)
    PROVE  /\ Reaped \in Ids \cup {None} /\ Reaped < nextId
           /\ ReapedProgress(ms) \in Seq(Messages)
           /\ Final(ReapedProgress(ms), worker)
<1>1. Reaped \in Ids \cup {None} /\ Reaped < nextId
  BY DEF Types, Begun, Reaped, None
<1>2. CASE ReapedProgress(ms) = ms
  BY <1>1, <1>2
<1>3. CASE /\ task # None /\ Ended(task)
           /\ ReapedProgress(ms) = Append(ms, Outcome("taskFailed", task))
  <2>1. task \in Ids /\ Outcome("taskFailed", task) \in Messages
    BY <1>3, MessagesFit DEF Types, Last
  <2>2. Outcome("taskFailed", task).id = task
    BY DEF Outcome, Message
  <2> DEFINE m == Outcome("taskFailed", task)
  <2> HIDE DEF m
  <2>3. /\ Append(ms, m) \in Seq(Messages)
        /\ Len(ms) \in Nat /\ Len(Append(ms, m)) = Len(ms) + 1
        /\ Append(ms, m)[Len(ms) + 1] = m
        /\ \A i \in 1 .. Len(ms) : Append(ms, m)[i] = ms[i]
    BY <2>1 DEF m
  <2>4. ASSUME NEW i \in 1 .. Len(Append(ms, m)), Append(ms, m)[i].kind \in Last
        PROVE  worker[Append(ms, m)[i].id].stage = "done"
    <3>1. CASE i \in 1 .. Len(ms)
      BY <2>3, <2>4, <3>1 DEF Final
    <3>2. CASE i = Len(ms) + 1
      BY <1>3, <2>2, <2>3, <3>2 DEF Ended, m
    <3> QED
      BY <2>3, <3>1, <3>2
  <2>5. Final(Append(ms, m), worker)
    BY <2>4 DEF Final
  <2> QED
    BY <1>1, <1>3, <2>3, <2>5 DEF m
<1> QED
  BY <1>2, <1>3 DEF ReapedProgress

\* The reducer concludes only on a last report of the pending creation.
LEMMA ReducingKeeps ==
    ASSUME Types, FormIsFree(modal, pending), NEW m \in Messages, ReduceCreationProgress(m)
    PROVE  /\ pending' \in Pendings
           /\ modal' \in {"none", "form", "submitting", "other"}
           /\ FormIsFree(modal', pending')
           /\ \/ pending' = pending
              \/ /\ pending'.id = pending.id
                 /\ pending.state \notin Conclusions => pending'.state \notin Conclusions
              \/ m.id = pending.id /\ m.kind \in Last
<1> DEFINE stage == StageOf(pending.state)
           next == NextState(pending.state, m.stage)
<1>1. /\ pending \in Pendings /\ NoPending \in Pendings
      /\ stage \in StageNames
      /\ next \in {"tagging", "sending", "entering", "none"}
      /\ next # "none" => pending.state \notin Conclusions
      /\ m.pane \in Ids \cup {None} /\ m.resolution \in Resolutions
  <2>1. pending \in Pendings /\ m.pane \in Ids \cup {None} /\ m.resolution \in Resolutions
    BY DEF Types, Messages
  <2>2. NoPending \in Pendings
    BY ResolutionsFit DEF NoPending, Pending, Pendings, States, Conclusions
  <2>3. stage \in StageNames
    BY DEF StageOf, StageNames
  <2>4. next \in {"tagging", "sending", "entering", "none"}
    BY DEF NextState
  <2>5. next # "none" => pending.state \notin Conclusions
    BY DEF NextState, Conclusions
  <2> QED
    BY <2>1, <2>2, <2>3, <2>4, <2>5
<1>2. \A s \in States : /\ [pending EXCEPT !.state = s] \in Pendings
                        /\ [pending EXCEPT !.state = s].id = pending.id
                        /\ [pending EXCEPT !.state = s].state = s
  BY <1>1 DEF Pendings
<1>3. CASE pending' = pending /\ modal' = modal
  BY <1>3 DEF Types
<1>4. CASE m.id = pending.id /\ m.kind \in Last /\ pending.state = "creating" /\ FailToCreate
  <2>1. \/ pending' = [pending EXCEPT !.state = "error"] /\ modal' = "form"
        \/ pending' = NoPending /\ modal' = modal
    BY <1>4 DEF FailToCreate
  <2>2. "error" \in States /\ NoPending.state = "none"
    BY DEF States, Conclusions, NoPending, Pending
  <2> QED
    BY <1>1, <1>2, <1>4, <2>1, <2>2 DEF FormIsFree, Types
<1>5. CASE /\ m.kind = "created" /\ pending.state = "creating" /\ modal' = "none"
           /\ pending' = [pending EXCEPT !.state = "created", !.pane = m.pane]
  BY <1>1, <1>5 DEF Pendings, States, Conclusions, FormIsFree
<1>6. CASE next # "none" /\ pending' = [pending EXCEPT !.state = next] /\ modal' = modal
  <2>1. next \in States /\ next \notin Conclusions
    BY <1>1, <1>6 DEF States, Conclusions
  <2>2. modal # "form"
    BY <1>1, <1>6 DEF FormIsFree, Conclusions
  <2> QED
    BY <1>2, <1>6, <2>1, <2>2 DEF FormIsFree, Types
<1>7. ASSUME NEW pane, NEW r \in Resolutions, FinishCreation(pane, r),
             m.id = pending.id, m.kind \in Last
      PROVE  /\ pending' \in Pendings
             /\ modal' \in {"none", "form", "submitting", "other"}
             /\ FormIsFree(modal', pending')
  <2>1. CASE pending' = [pending EXCEPT !.state = "awaiting", !.resolution = r]
             /\ Fits(pending.state, r) /\ modal' = modal
    <3>1. pending' \in Pendings
      BY <1>1, <2>1 DEF Pendings, States, Conclusions
    <3>2. modal # "form"
      BY <2>1 DEF Fits, FormIsFree
    <3> QED
      BY <2>1, <3>1, <3>2 DEF FormIsFree, Types
  <2>2. CASE pending' = pending /\ modal' = modal
    BY <2>2 DEF Types
  <2> QED
    BY <1>7, <2>1, <2>2 DEF FinishCreation
<1>8. CASE m.id = pending.id /\ m.kind = "finished" /\ FinishCreation(m.pane, m.resolution)
  BY <1>1, <1>7, <1>8 DEF Last
<1>9. CASE /\ m.id = pending.id /\ m.kind = "timedOut"
           /\ FinishCreation(pending.pane, TimedOut(stage))
  <2>1. TimedOut(stage) \in Resolutions
    BY <1>1, ResolutionsFit
  <2> QED
    BY <1>7, <1>9, <2>1 DEF Last
<1>10. CASE /\ m.id = pending.id /\ m.kind = "taskFailed"
            /\ FinishCreation(pending.pane,
                              IF stage = "tag" THEN TagFailed ELSE CommandFailed(stage))
  <2>1. (IF stage = "tag" THEN TagFailed ELSE CommandFailed(stage)) \in Resolutions
    BY <1>1, ResolutionsFit
  <2> QED
    BY <1>7, <1>10, <2>1 DEF Last
<1> HIDE DEF stage, next
<1> QED
  BY <1>3, <1>4, <1>5, <1>6, <1>8, <1>9, <1>10 DEF ReduceCreationProgress, Last, stage, next

-----------------------------------------------------------------------------
(* The steps                                                                *)

\* Events of the loop that begin nothing: the reducer may conclude only what has
\* no worker any more.
LEMMA EventKeeps ==
    ASSUME Inv, NEW ms \in Seq(Messages), Final(ms, worker),
           pending' \in Pendings, modal' \in {"none", "form", "submitting", "other"},
           FormIsFree(modal', pending'),
           \/ pending' = pending
           \/ pending'.id = pending.id /\ pending'.state \notin Conclusions
           \/ \A id \in Ids : ~Working(worker, id),
           nextId' \in {nextId, nextId + 1},
           task' = Reaped, progress' = ReapedProgress(ms), UNCHANGED <<worker, quit>>
    PROVE  Inv'
<1>1. /\ task' \in Ids \cup {None} /\ task' < nextId /\ progress' \in Seq(Messages)
      /\ Final(progress', worker)
  BY ReapingKeeps DEF Inv
<1>2. nextId \in Nat \ {None} /\ nextId' \in Nat \ {None} /\ nextId' >= nextId
      /\ task' \in Nat
  BY <1>1 DEF Inv, Types, None, Ids
<1>3. Begun(nextId', task', worker')
  BY <1>1, <1>2 DEF Inv, Begun, Ids
<1>4. Serving(pending', worker', quit')
  BY DEF Inv, Serving
<1> QED
  BY <1>1, <1>2, <1>3, <1>4 DEF Inv, Types

\* A creation begins where no worker is at work: the one that start_creation
\* finds, and cancels, has ended.
LEMMA BeginningKeeps ==
    ASSUME Inv, NEW viaForm \in BOOLEAN, NEW typed \in BOOLEAN, Begin(viaForm, typed),
           \A id \in Ids : ~Working(worker, id), modal' \in {"none", "submitting"}
    PROVE  Inv'
<1>1. /\ nextId \in Ids /\ nextId \in Nat \ {None} /\ nextId' = nextId + 1
      /\ Reaped \in Ids \cup {None} /\ Reaped < nextId /\ task' = nextId
      /\ worker \in [Ids -> Workers]
  BY ReapingKeeps DEF Inv, Types, Begin, StartCreation
<1>2. progress' \in Seq(Messages) /\ Final(progress', worker)
  BY ReapingKeeps DEF Inv, Types, Begin
<1>3. worker[nextId].stage = "idle" /\ ~worker[nextId].cancelled
  BY <1>1 DEF Inv, Begun
<1>4. /\ worker' \in [Ids -> Workers]
      /\ worker'[nextId].stage = "create" /\ ~worker'[nextId].cancelled
      /\ \A id \in Ids \ {nextId} : worker'[id].stage = worker[id].stage
      /\ \A id \in Ids \ {nextId, Reaped} : worker'[id] = worker[id]
  <2>1. worker' = [w \in Ids |->
           IF w = nextId THEN [worker[w] EXCEPT !.stage = "create", !.typed = typed]
           ELSE IF w = Reaped THEN [worker[w] EXCEPT !.cancelled = TRUE]
           ELSE worker[w]]
    BY DEF Begin, StartCreation
  <2>2. ASSUME NEW w \in Ids
        PROVE  /\ [worker[w] EXCEPT !.stage = "create", !.typed = typed] \in Workers
               /\ [worker[w] EXCEPT !.stage = "create", !.typed = typed].stage = "create"
               /\ [worker[w] EXCEPT !.stage = "create", !.typed = typed].cancelled
                    = worker[w].cancelled
               /\ [worker[w] EXCEPT !.cancelled = TRUE] \in Workers
               /\ [worker[w] EXCEPT !.cancelled = TRUE].stage = worker[w].stage
    <3>1. worker[w] \in Workers
      BY <1>1, <2>2
    <3> QED
      BY <3>1 DEF Workers, WorkerStages
  <2> QED
    BY <1>1, <1>3, <2>1, <2>2
<1>5. pending' = Pending(nextId, "creating", None, NoResolution)
  BY DEF Begin
<1>6. pending' \in Pendings /\ pending'.id = nextId /\ pending'.state = "creating"
  BY <1>1, <1>5, ResolutionsFit DEF Pending, Pendings, States
<1>7. Final(progress', worker')
  <2>1. \A i \in 1 .. Len(progress') : progress'[i] \in Messages
    BY <1>2
  <2> QED
    BY <1>2, <1>3, <1>4, <2>1 DEF Final, Messages
<1>8. Serving(pending', worker', quit')
  <2>1. \A id \in Ids : Working(worker', id) => id = nextId
    BY <1>4 DEF Working
  <2> QED
    BY <1>4, <1>6, <2>1 DEF Serving, Conclusions
<1>9. Begun(nextId', task', worker')
  <2>1. \A id \in Ids : id >= nextId + 1 => id \notin {nextId, Reaped} /\ id >= nextId
    BY <1>1 DEF Ids, None
  <2> QED
    BY <1>1, <1>4, <2>1 DEF Inv, Begun
<1>10. FormIsFree(modal', pending')
  BY DEF FormIsFree
<1> QED
  BY <1>1, <1>2, <1>4, <1>6, <1>7, <1>8, <1>9, <1>10 DEF Inv, Types, Begin, None

\* A worker goes on, and its last report comes with its end.
LEMMA WorkerKeeps ==
    ASSUME Inv, NEW id \in Ids, Working(worker, id), NEW ms \in Seq(Messages),
           worker' \in [Ids -> Workers],
           \A other \in Ids \ {id} : worker'[other] = worker[other],
           worker'[id].stage # "idle", worker'[id].cancelled = worker[id].cancelled,
           \A i \in 1 .. Len(ms) :
              ms[i].kind \in Last => ms[i].id = id /\ worker'[id].stage = "done",
           progress' = progress \o ms, UNCHANGED <<pending, modal, nextId, task, quit>>
    PROVE  Inv'
<1>1. progress \in Seq(Messages) /\ progress' \in Seq(Messages)
  BY DEF Inv, Types
<1>2. /\ Len(progress) \in Nat /\ Len(ms) \in Nat /\ Len(progress') = Len(progress) + Len(ms)
      /\ \A i \in 1 .. Len(progress) : progress'[i] = progress[i]
      /\ \A i \in 1 .. Len(progress') : i > Len(progress) =>
            i - Len(progress) \in 1 .. Len(ms) /\ progress'[i] = ms[i - Len(progress)]
  BY <1>1
<1>3. ASSUME NEW i \in 1 .. Len(progress'), progress'[i].kind \in Last
      PROVE  worker'[progress'[i].id].stage = "done"
  <2>1. CASE i \in 1 .. Len(progress)
    <3>1. progress[i] \in Messages /\ progress'[i] = progress[i]
      BY <1>1, <1>2, <2>1
    <3>2. worker[progress[i].id].stage = "done" /\ progress[i].id \in Ids
      BY <1>3, <2>1, <3>1 DEF Inv, Final, Messages
    <3>3. progress[i].id # id
      BY <3>2 DEF Working
    <3> QED
      BY <3>1, <3>2, <3>3
  <2>2. CASE i > Len(progress)
    BY <1>2, <1>3, <2>2
  <2> QED
    BY <1>2, <2>1, <2>2
<1>4. Final(progress', worker')
  BY <1>3 DEF Final
<1>5. Serving(pending', worker', quit')
  BY DEF Inv, Serving, Working
<1>6. Begun(nextId', task', worker')
  BY DEF Inv, Begun, Working
<1> QED
  BY <1>1, <1>4, <1>5, <1>6 DEF Inv, Types

\* Neither a child that is started or answers nor a clock makes a difference.
LEMMA QuietKeeps ==
    ASSUME Inv, worker' \in [Ids -> Workers],
           \A id \in Ids : worker'[id].stage = worker[id].stage,
           \A id \in Ids : worker'[id].cancelled = worker[id].cancelled,
           UNCHANGED <<pending, modal, nextId, task, progress, quit>>
    PROVE  Inv'
<1>1. Final(progress', worker')
  <2>1. \A i \in 1 .. Len(progress) : progress[i] \in Messages
    BY DEF Inv, Types
  <2> QED
    BY <2>1 DEF Inv, Final, Messages
<1>2. Begun(nextId', task', worker') /\ Serving(pending', worker', quit')
  BY DEF Inv, Begun, Serving, Working
<1> QED
  BY <1>1, <1>2 DEF Inv, Types

\* What a worker says when it ends, is killed, or goes on.
LEMMA EndKeeps ==
    ASSUME Inv, NEW id \in Ids, Working(worker, id), NEW ms \in Seq(Messages),
           \A i \in 1 .. Len(ms) : ms[i].id = id,
           End(id, ms), UNCHANGED <<pending, modal, nextId, task, quit>>
    PROVE  Inv'
<1>1. worker \in [Ids -> Workers] /\ worker[id] \in Workers
  BY DEF Inv, Types
<1>2. worker' = [worker EXCEPT ![id] = [worker[id] EXCEPT !.stage = "done", !.child = "none"]]
  BY <1>1 DEF End
<1>3. /\ worker' \in [Ids -> Workers]
      /\ \A other \in Ids \ {id} : worker'[other] = worker[other]
      /\ worker'[id].stage = "done" /\ worker'[id].cancelled = worker[id].cancelled
  BY <1>1, <1>2 DEF Workers, WorkerStages
<1> QED
  BY <1>3, WorkerKeeps DEF End

\* A worker that goes on to its next stage has nothing conclusive to say.
LEMMA AdvanceKeeps ==
    ASSUME Inv, NEW id \in Ids, Working(worker, id), worker[id].stage # "enter",
           Advance(id), UNCHANGED <<pending, modal, nextId, task, quit>>
    PROVE  Inv'
<1> DEFINE next == Stages[StageIndex(worker[id].stage) + 1]
           ms == IF next = "tag" THEN <<Created(id), StageMessage(id, next)>>
                 ELSE <<StageMessage(id, next)>>
<1>1. worker \in [Ids -> Workers] /\ worker[id] \in Workers
  BY DEF Inv, Types
<1>2. next \in {"tag", "send", "enter"}
  <2>1. worker[id].stage \in {"create", "tag", "send"}
    BY <1>1 DEF Working, Workers, WorkerStages
  <2>2. \E i \in 1 .. 4 : Stages[i] = worker[id].stage
    BY <2>1 DEF Stages
  <2>3. /\ StageIndex(worker[id].stage) \in 1 .. 4
        /\ Stages[StageIndex(worker[id].stage)] = worker[id].stage
    BY <2>2 DEF StageIndex
  <2> QED
    BY <2>1, <2>3 DEF Stages
<1>3. worker' = [worker EXCEPT ![id] = [worker[id] EXCEPT !.stage = next, !.child = "none"]]
  BY <1>1 DEF Advance
<1>4. Created(id) \in Messages /\ StageMessage(id, next) \in Messages
  BY <1>2, MessagesFit DEF StageNames
<1>5. Created(id).kind = "created" /\ StageMessage(id, next).kind = "stage"
  BY DEF Created, StageMessage, Message
<1>6. progress' = progress \o ms
  BY DEF Advance
<1> HIDE DEF next
<1>7. /\ worker' \in [Ids -> Workers]
      /\ \A other \in Ids \ {id} : worker'[other] = worker[other]
      /\ worker'[id].stage # "idle" /\ worker'[id].cancelled = worker[id].cancelled
  BY <1>1, <1>2, <1>3 DEF Workers, WorkerStages
<1>8. ms \in Seq(Messages) /\ \A i \in 1 .. Len(ms) : ms[i].kind \notin Last
  BY <1>4, <1>5 DEF Last
<1> HIDE DEF ms
<1> QED
  BY <1>6, <1>7, <1>8, WorkerKeeps

\* Every step keeps the invariant.
LEMMA StepKeeps ==
    ASSUME Inv, [Next]_vars
    PROVE  Inv'
<1>1. /\ progress \in Seq(Messages) /\ Final(progress, worker)
      /\ pending \in Pendings /\ NoPending \in Pendings /\ NoPending.state = "none"
      /\ modal \in {"none", "form", "submitting", "other"}
      /\ worker \in [Ids -> Workers]
      /\ FormIsFree(modal, pending)
  BY ResolutionsFit DEF Inv, Types, NoPending, Pending, Pendings, States, Conclusions
<1>2. pending.state \in Conclusions => \A id \in Ids : ~Working(worker, id)
  BY DEF Inv, Serving
<1>3. ASSUME NEW form \in BOOLEAN, OpenModal(form)
      PROVE  Inv'
  <2>1. FormIsFree(modal', pending')
    BY <1>1, <1>3 DEF OpenModal, FormIsFree
  <2> QED
    BY <1>1, <1>3, <2>1, EventKeeps DEF OpenModal
<1>4. CASE CloseModal
  <2>1. \/ pending' = pending
        \/ pending' = NoPending /\ pending.state = "error"
    BY <1>4 DEF CloseModal
  <2>2. \/ pending' = pending
        \/ \A id \in Ids : ~Working(worker, id)
    BY <1>2, <2>1 DEF Conclusions
  <2>3. pending' \in Pendings /\ FormIsFree(modal', pending')
    BY <1>1, <1>4, <2>1 DEF CloseModal, FormIsFree
  <2> QED
    BY <1>1, <1>4, <2>2, <2>3, EventKeeps DEF CloseModal
<1>5. CASE Submit
  <2>1. \A id \in Ids : ~Working(worker, id)
    BY <1>1, <1>2, <1>5 DEF Submit, FormIsFree, Conclusions
  <2> QED
    BY <1>5, <2>1, BeginningKeeps DEF Submit
<1>6. CASE AttachHeadless
  <2>1. \A id \in Ids : ~Working(worker, id)
    BY <1>1, <1>2, <1>6 DEF AttachHeadless, Conclusions
  <2> QED
    BY <1>6, <2>1, BeginningKeeps DEF AttachHeadless
<1>7. CASE AttachRefused
  BY <1>1, <1>7, EventKeeps DEF AttachRefused
<1>8. CASE HandleProgress
  <2> DEFINE m == Head(progress)
             ms == Tail(progress)
  <2>1. /\ m \in Messages /\ m = progress[1] /\ 1 \in 1 .. Len(progress)
        /\ ms \in Seq(Messages) /\ \A i \in 1 .. Len(ms) :
              i + 1 \in 1 .. Len(progress) /\ ms[i] = progress[i + 1]
    BY <1>1, <1>8 DEF HandleProgress
  <2>2. Final(ms, worker)
    BY <1>1, <2>1 DEF Final
  <2>3. /\ pending' \in Pendings
        /\ modal' \in {"none", "form", "submitting", "other"}
        /\ FormIsFree(modal', pending')
        /\ \/ pending' = pending
           \/ /\ pending'.id = pending.id
              /\ pending.state \notin Conclusions => pending'.state \notin Conclusions
           \/ m.id = pending.id /\ m.kind \in Last
    BY <1>1, <1>8, <2>1, ReducingKeeps DEF HandleProgress, Inv
  <2>4. m.id = pending.id /\ m.kind \in Last => \A id \in Ids : ~Working(worker, id)
    BY <1>1, <2>1 DEF Inv, Final, Serving, Working
  <2> HIDE DEF m, ms
  <2>5. \/ pending' = pending
        \/ pending'.id = pending.id /\ pending'.state \notin Conclusions
        \/ \A id \in Ids : ~Working(worker, id)
    BY <1>2, <2>3, <2>4
  <2>6. /\ task' = Reaped /\ progress' = ReapedProgress(ms)
        /\ UNCHANGED <<nextId, worker, quit>>
    BY <1>8 DEF HandleProgress, ms
  <2> QED
    BY <2>1, <2>2, <2>3, <2>5, <2>6, EventKeeps
<1>9. CASE SnapshotOrExpiry
  <2>1. \A id \in Ids : ~Working(worker, id)
    BY <1>2, <1>9 DEF SnapshotOrExpiry, Conclusions
  <2>2. FormIsFree(modal', pending')
    BY <1>1, <1>9 DEF SnapshotOrExpiry, FormIsFree
  <2> QED
    BY <1>1, <1>9, <2>1, <2>2, EventKeeps DEF SnapshotOrExpiry
<1>10. CASE Tick
  BY <1>1, <1>10, EventKeeps DEF Tick, appVars
<1>11. CASE Quit
  <2>1. /\ quit' = TRUE /\ task' = None /\ progress' = progress
        /\ UNCHANGED <<pending, modal, nextId>>
        /\ \/ worker' = worker
           \/ task \in Ids /\ worker' = [worker EXCEPT ![task].cancelled = TRUE]
    BY <1>11 DEF Quit, Inv, Types, appVars
  <2>2. /\ worker' \in [Ids -> Workers]
        /\ \A id \in Ids : worker'[id].stage = worker[id].stage
        /\ \A id \in Ids \ {task} : worker'[id] = worker[id]
    <3>1. CASE worker' = worker
      BY <1>1, <3>1
    <3>2. CASE task \in Ids /\ worker' = [worker EXCEPT ![task].cancelled = TRUE]
      <4>1. worker' = [worker EXCEPT ![task] = [worker[task] EXCEPT !.cancelled = TRUE]]
        BY <1>1, <3>2
      <4>2. worker[task] \in Workers
        BY <1>1, <3>2
      <4>3. /\ [worker[task] EXCEPT !.cancelled = TRUE] \in Workers
            /\ [worker[task] EXCEPT !.cancelled = TRUE].stage = worker[task].stage
        BY <4>2 DEF Workers
      <4> QED
        BY <1>1, <3>2, <4>1, <4>3
    <3> QED
      BY <2>1, <3>1, <3>2
  <2>3. Final(progress', worker')
    <3>1. \A i \in 1 .. Len(progress) : progress[i] \in Messages
      BY <1>1
    <3> QED
      BY <1>1, <2>1, <2>2, <3>1 DEF Final, Messages
  <2>4. Begun(nextId', task', worker')
    BY <2>1, <2>2 DEF Inv, Types, Begun, Ids, None
  <2>5. Serving(pending', worker', quit')
    BY <2>1, <2>2 DEF Inv, Serving, Working
  <2> QED
    BY <1>1, <2>1, <2>2, <2>3, <2>4, <2>5 DEF Inv, Types, None
<1>12. ASSUME NEW id \in Ids, Working(worker, id), UNCHANGED <<pending, modal, nextId, task, quit>>
       PROVE  /\ \A ms \in Seq(Messages) :
                    (\A i \in 1 .. Len(ms) : ms[i].id = id) /\ End(id, ms) => Inv'
              /\ Fail(id) => Inv'
              /\ \A captured \in BOOLEAN : TimeOutStage(id, captured) => Inv'
              /\ Succeed(id) => Inv'
  <2>1. \A ms \in Seq(Messages) :
           (\A i \in 1 .. Len(ms) : ms[i].id = id) /\ End(id, ms) => Inv'
    BY <1>12, EndKeeps
  <2>2. ASSUME NEW m \in Messages, m.id = id, End(id, <<m>>)
        PROVE  Inv'
    <3>1. <<m>> \in Seq(Messages) /\ \A i \in 1 .. Len(<<m>>) : <<m>>[i].id = id
      BY <2>2
    <3> QED
      BY <2>1, <2>2, <3>1
  <2>3. /\ worker[id].stage \in {"create", "tag", "send", "enter"}
        /\ worker[id].stage \in StageNames
    BY <1>1, <1>12 DEF Working, Workers, WorkerStages, StageNames
  <2>4. /\ \A kind \in Last : Outcome(kind, id) \in Messages /\ Outcome(kind, id).id = id
        /\ \A r \in Resolutions : Finished(id, r) \in Messages /\ Finished(id, r).id = id
        /\ Created(id) \in Messages /\ Created(id).id = id
    BY <1>12, MessagesFit DEF Outcome, Finished, Created, Message
  <2>5. "createFailed" \in Last /\ "timedOut" \in Last /\ "create" \in StageNames
    BY DEF Last, StageNames
  <2>6. Fail(id) => Inv'
    BY <2>2, <2>3, <2>4, <2>5, ResolutionsFit DEF Fail
  <2>7. ASSUME NEW captured \in BOOLEAN, TimeOutStage(id, captured)
        PROVE  Inv'
    <3>1. CASE End(id, <<Outcome("timedOut", id)>>)
      BY <2>2, <2>4, <2>5, <3>1
    <3>2. CASE End(id, <<Created(id), Finished(id, TimedOut("create"))>>)
      <4> DEFINE m == Created(id)
                 n == Finished(id, TimedOut("create"))
      <4>1. m \in Messages /\ m.id = id /\ n \in Messages /\ n.id = id
        BY <2>4, <2>5, ResolutionsFit
      <4> HIDE DEF m, n
      <4>2. <<m, n>> \in Seq(Messages) /\ \A i \in 1 .. Len(<<m, n>>) : <<m, n>>[i].id = id
        BY <4>1
      <4>3. End(id, <<m, n>>)
        BY <3>2 DEF m, n
      <4> QED
        BY <2>1, <4>2, <4>3
    <3> QED
      BY <2>7, <3>1, <3>2 DEF TimeOutStage
  <2>8. Succeed(id) => Inv'
    BY <1>12, <2>2, <2>4, ResolutionsFit, AdvanceKeeps DEF Succeed
  <2> QED
    BY <2>1, <2>6, <2>7, <2>8
<1>13. ASSUME NEW id \in Ids, RunCommand(id) \/ CommandStopped(id) \/ CommandExits(id)
       PROVE  Inv'
  <2>1. /\ Working(worker, id) /\ UNCHANGED <<pending, modal, nextId, task, quit>>
        /\ \/ worker' = [worker EXCEPT ![id].child = "running"] /\ progress' = progress
           \/ Fail(id) \/ Succeed(id)
           \/ \E captured \in BOOLEAN : TimeOutStage(id, captured)
    BY <1>13 DEF RunCommand, CommandStopped, CommandExits, Busy, Working, appVars
  <2>2. CASE worker' = [worker EXCEPT ![id].child = "running"] /\ progress' = progress
    <3>1. worker' = [worker EXCEPT ![id] = [worker[id] EXCEPT !.child = "running"]]
      BY <1>1, <2>2
    <3>2. /\ worker' \in [Ids -> Workers]
          /\ \A other \in Ids : worker'[other].stage = worker[other].stage
          /\ \A other \in Ids : worker'[other].cancelled = worker[other].cancelled
      BY <1>1, <3>1 DEF Workers
    <3> QED
      BY <2>1, <2>2, <3>2, QuietKeeps
  <2> QED
    BY <1>12, <2>1, <2>2
<1>14. ASSUME NEW id \in Ids, Overdue(id) \/ TmuxRuns(id)
       PROVE  Inv'
  <2>1. /\ UNCHANGED <<pending, modal, nextId, task, progress, quit>>
        /\ \/ worker' = [worker EXCEPT ![id].overdue = TRUE]
           \/ \E child \in {"ran", "failed"} : worker' = [worker EXCEPT ![id].child = child]
    BY <1>14 DEF Overdue, TmuxRuns, appVars
  <2>2. /\ worker' \in [Ids -> Workers]
        /\ \A other \in Ids : worker'[other].stage = worker[other].stage
        /\ \A other \in Ids : worker'[other].cancelled = worker[other].cancelled
    <3>1. PICK child \in {"ran", "failed"} :
            \/ worker' = [worker EXCEPT ![id] = [worker[id] EXCEPT !.overdue = TRUE]]
            \/ worker' = [worker EXCEPT ![id] = [worker[id] EXCEPT !.child = child]]
      BY <1>1, <2>1
    <3> DEFINE w == IF worker' = [worker EXCEPT ![id] = [worker[id] EXCEPT !.overdue = TRUE]]
                    THEN [worker[id] EXCEPT !.overdue = TRUE]
                    ELSE [worker[id] EXCEPT !.child = child]
    <3>2. worker' = [worker EXCEPT ![id] = w]
      BY <3>1
    <3>3. worker[id] \in Workers /\ child \in {"none", "running", "ran", "failed"}
      BY <1>1
    <3>4. w \in Workers /\ w.stage = worker[id].stage /\ w.cancelled = worker[id].cancelled
      BY <3>3 DEF Workers
    <3> HIDE DEF w
    <3> QED
      BY <1>1, <3>2, <3>4
  <2> QED
    BY <2>1, <2>2, QuietKeeps
<1>15. ASSUME NEW id \in Ids, Panic(id)
       PROVE  Inv'
  <2> DEFINE w == [worker[id] EXCEPT !.stage = "done", !.panicked = TRUE, !.child = "none"]
             ms == <<>>
  <2>1. /\ Working(worker, id) /\ UNCHANGED <<pending, modal, nextId, task, progress, quit>>
        /\ worker' = [worker EXCEPT ![id] = w]
    BY <1>1, <1>15 DEF Panic, Busy, Working, appVars
  <2>2. worker[id] \in Workers
    BY <1>1
  <2>3. w \in Workers /\ w.stage = "done" /\ w.cancelled = worker[id].cancelled
    BY <2>2 DEF Workers, WorkerStages
  <2> HIDE DEF w
  <2>4. /\ worker' \in [Ids -> Workers] /\ worker'[id] = w
        /\ \A other \in Ids \ {id} : worker'[other] = worker[other]
    BY <1>1, <2>1, <2>3
  <2>5. /\ ms \in Seq(Messages) /\ progress' = progress \o ms
        /\ \A i \in 1 .. Len(ms) : FALSE
    BY <1>1, <2>1
  <2> HIDE DEF ms
  <2> QED
    BY <2>1, <2>3, <2>4, <2>5, WorkerKeeps
<1>16. CASE UNCHANGED vars
  BY <1>16 DEF vars, appVars, Inv, Types
<1> QED
  BY <1>3, <1>4, <1>5, <1>6, <1>7, <1>8, <1>9, <1>10, <1>11, <1>13, <1>14, <1>15, <1>16
     DEF Next, Loop, Worker

\* Nothing goes on at first.
LEMMA InitEstablishes == Init => Inv
<1> SUFFICES ASSUME Init PROVE Inv
  OBVIOUS
<1>1. /\ pending \in Pendings /\ nextId = 1 /\ task = None /\ progress = <<>>
      /\ pending.state = "none"
  BY ResolutionsFit DEF Init, NoPending, Pending, Pendings, States, Conclusions
<1>2. /\ worker \in [Ids -> Workers]
      /\ \A id \in Ids : worker[id].stage = "idle" /\ ~worker[id].cancelled
  BY DEF Init, Workers, WorkerStages
<1>3. Types
  <2>1. nextId \in Nat \ {None} /\ progress \in Seq(Messages)
    BY <1>1 DEF None
  <2> QED
    BY <1>1, <1>2, <2>1 DEF Init, Types
<1>4. Begun(nextId, task, worker) /\ Serving(pending, worker, quit)
  BY <1>1, <1>2 DEF Begun, Serving, Working, None
<1>5. Final(progress, worker) /\ FormIsFree(modal, pending)
  BY <1>1 DEF Final, FormIsFree
<1> QED
  BY <1>3, <1>4, <1>5 DEF Inv

\* The invariant that the theorems rest on.
LEMMA InvHolds == Spec => []Inv
<1>1. Inv /\ [Next]_vars => Inv'
  BY StepKeeps
<1> QED
  BY <1>1, InitEstablishes, PTL DEF Spec

\* The reducer, the loop's slot for a worker, the workers and their reports keep
\* to their types.
THEOREM TypeCorrect == Spec => []Types
BY InvHolds, PTL DEF Inv

\* A creation never starts while another has a worker at work, and until the loop
\* is left nobody cancels one (start_creation, cleanup_creation_task), whatever
\* tmux, the deadlines and the snapshots do.
THEOREM CreationNeverCutShort == Spec => []NeverCutsShort
<1>1. Inv => NeverCutsShort
  BY DEF Inv, Serving, Working, NeverCutsShort, Running
<1> QED
  BY <1>1, InvHolds, PTL

-----------------------------------------------------------------------------
(* Every report of a worker takes the pending creation one step further, up *)
(* to the last one, which ends it: the reports on the way lead from the     *)
(* state of the reducer to that of the worker.                              *)

Rank(state) ==
    CASE state = "creating" -> 0 [] state = "created" -> 1 [] state = "tagging" -> 2
      [] state = "sending" -> 3 [] OTHER -> 4

\* What a creation reports in its course, and how much of it by each stage.
Script(id) ==
    <<Created(id), StageMessage(id, "tag"), StageMessage(id, "send"), StageMessage(id, "enter")>>
Sent(stage) ==
    CASE stage = "create" -> 0 [] stage = "tag" -> 2 [] stage = "send" -> 3 [] OTHER -> 4

\* What was done to the pane of a creation that reported so much, and what a
\* command that was run did. A worker has a command only while it is at work.
Effects(sent, t) ==
    /\ sent >= 1 => t.made
    /\ sent >= 3 => t.tagged
    /\ sent >= 4 => t.typed
Ran(w, t) ==
    /\ w.panicked => w.stage = "done"
    /\ w.stage \in {"idle", "done"} => w.child = "none"
    /\ w.child = "ran" =>
           /\ w.stage = "create" => t.made
           /\ w.stage = "tag" => t.tagged
           /\ w.stage = "send" => t.typed
           /\ w.stage = "enter" => t.entered

\* A resolution that says nothing false of the pane.
IsTrue(r, w, t) ==
    /\ r \notin {TagFailed, TimedOut("create"), TimedOut("tag")} => t.tagged
    /\ r \in {CommandFailed("enter"), TimedOut("enter")} => t.typed
    /\ r = Success /\ w.typed => t.typed /\ t.entered

\* The state that the reducer is in after so many reports, and the last reports
\* that end a creation there.
StateAfter(sent) == <<"creating", "created", "tagging", "sending", "entering">>[sent + 1]
Closes(id, w, t, sent, m) ==
    /\ m.id = id
    /\ \/ m.kind \in {"timedOut", "taskFailed"}
       \/ m.kind = "createFailed" /\ sent = 0
       \/ /\ m.kind = "finished" /\ m.pane = id /\ Fits(StateAfter(sent), m.resolution)
          /\ IsTrue(m.resolution, w, t)

OnTheWay(p, ms, w, t, kept, sent) ==
    LET told == sent - Rank(p.state) IN
    /\ told >= 0 /\ w.stage # "idle"
    /\ p.pane = IF p.state = "creating" THEN None ELSE p.id
    /\ Effects(sent, t)
    /\ \A i \in 1 .. told : i =< Len(ms) /\ ms[i] = Script(p.id)[Rank(p.state) + i]
    /\ \/ Len(ms) = told /\ kept = p.id /\ w.stage # "done" /\ sent = Sent(w.stage)
       \/ Len(ms) = told /\ kept = p.id /\ w.stage = "done" /\ w.panicked
       \/ /\ Len(ms) = told + 1 /\ w.stage = "done" /\ Closes(p.id, w, t, sent, ms[told + 1])
          /\ kept = None \/ (kept = p.id /\ ~w.panicked)

Trail(p, ms, ws, ts, kept) ==
    IF p.state \in Conclusions
    THEN ms = <<>> /\ (kept # None => ws[kept].stage = "done" /\ ~ws[kept].panicked)
    ELSE p.id \in Ids /\ \E sent \in 0 .. 4 : OnTheWay(p, ms, ws[p.id], ts[p.id], kept, sent)

\* The pane of the pending creation, and how the creation ended.
Bound(p, ws, ts) ==
    /\ p.pane # None => p.pane = p.id /\ p.id \in Ids /\ ts[p.id].made
    /\ p.state = "awaiting" => p.id \in Ids /\ IsTrue(p.resolution, ws[p.id], ts[p.id])

Panes == [made : BOOLEAN, tagged : BOOLEAN, typed : BOOLEAN, entered : BOOLEAN]

TrailInv ==
    /\ Inv
    /\ tmux \in [Ids -> Panes]
    /\ \A id \in Ids : Ran(worker[id], tmux[id])
    /\ Bound(pending, worker, tmux)
    /\ ~quit => Trail(pending, progress, worker, tmux, task)

Grows(t, u) ==
    /\ t.made => u.made
    /\ t.tagged => u.tagged
    /\ t.typed => u.typed
    /\ t.entered => u.entered

\* What is true of a pane remains so when more is done to it.
LEMMA TruthRemains ==
    ASSUME NEW t \in Panes, NEW u \in Panes, Grows(t, u),
           NEW w \in Workers, NEW v \in Workers, w.typed = v.typed,
           NEW sent \in 0 .. 4, NEW id, NEW m \in Messages, NEW r \in Resolutions
    PROVE  /\ Effects(sent, t) => Effects(sent, u)
           /\ IsTrue(r, w, t) => IsTrue(r, v, u)
           /\ Closes(id, w, t, sent, m) => Closes(id, v, u, sent, m)
<1>1. Effects(sent, t) => Effects(sent, u)
  BY DEF Effects, Grows
<1>2. \A q \in Resolutions : IsTrue(q, w, t) => IsTrue(q, v, u)
  BY DEF IsTrue, Grows
<1>3. Closes(id, w, t, sent, m) => Closes(id, v, u, sent, m)
  BY <1>2 DEF Closes, Messages
<1> QED
  BY <1>1, <1>2, <1>3

\* Steps of the workers and of tmux that report nothing, and end no worker.
LEMMA QuietTrail ==
    ASSUME NEW p \in Pendings, NEW ms \in Seq(Messages), NEW kept \in Ids \cup {None},
           NEW ws \in [Ids -> Workers], NEW vs \in [Ids -> Workers],
           NEW ts \in [Ids -> Panes], NEW us \in [Ids -> Panes],
           \A id \in Ids : /\ Grows(ts[id], us[id])
                           /\ ws[id].typed = vs[id].typed
    PROVE  /\ Bound(p, ws, ts) => Bound(p, vs, us)
           /\ (\A id \in Ids : ws[id].stage = vs[id].stage /\ ws[id].panicked = vs[id].panicked)
              /\ Trail(p, ms, ws, ts, kept) => Trail(p, ms, vs, us, kept)
<1>1. p.resolution \in Resolutions
  BY DEF Pendings
<1>2. ASSUME Bound(p, ws, ts)
      PROVE  Bound(p, vs, us)
  <2>1. p.pane # None => p.pane = p.id /\ p.id \in Ids /\ us[p.id].made
    BY <1>2 DEF Bound, Grows
  <2>2. ASSUME p.state = "awaiting"
        PROVE  p.id \in Ids /\ IsTrue(p.resolution, vs[p.id], us[p.id])
    <3>1. p.id \in Ids /\ IsTrue(p.resolution, ws[p.id], ts[p.id])
      BY <1>2, <2>2 DEF Bound
    <3>2. /\ ts[p.id] \in Panes /\ us[p.id] \in Panes /\ ws[p.id] \in Workers
          /\ vs[p.id] \in Workers /\ Grows(ts[p.id], us[p.id])
          /\ ws[p.id].typed = vs[p.id].typed
      BY <3>1
    <3> QED
      BY <1>1, <3>1, <3>2 DEF IsTrue, Grows
  <2> QED
    BY <2>1, <2>2 DEF Bound
<1>3. ASSUME \A id \in Ids : ws[id].stage = vs[id].stage /\ ws[id].panicked = vs[id].panicked,
             Trail(p, ms, ws, ts, kept)
      PROVE  Trail(p, ms, vs, us, kept)
  <2>1. CASE p.state \in Conclusions
    BY <1>3, <2>1 DEF Trail, None
  <2>2. CASE p.state \notin Conclusions
    <3>1. p.id \in Ids
      BY <1>3, <2>2 DEF Trail
    <3>2. PICK sent \in 0 .. 4 : OnTheWay(p, ms, ws[p.id], ts[p.id], kept, sent)
      BY <1>3, <2>2 DEF Trail
    <3> DEFINE w == ws[p.id]
               v == vs[p.id]
               t == ts[p.id]
               u == us[p.id]
               told == sent - Rank(p.state)
    <3>3. /\ t \in Panes /\ u \in Panes /\ w \in Workers /\ v \in Workers /\ Grows(t, u)
          /\ w.typed = v.typed /\ w.stage = v.stage /\ w.panicked = v.panicked
      BY <1>3, <3>1
    <3>4. told \in Nat /\ Len(ms) \in Nat
      BY <3>2 DEF OnTheWay, Rank
    <3>5. OnTheWay(p, ms, w, t, kept, sent)
      BY <3>2
    <3> HIDE DEF w, v, t, u
    <3>6. Effects(sent, u)
      BY <3>3, <3>5, TruthRemains, ResolutionsFit DEF OnTheWay, Effects, Grows
    <3>7. ASSUME Len(ms) = told + 1, Closes(p.id, w, t, sent, ms[told + 1])
          PROVE  Closes(p.id, v, u, sent, ms[told + 1])
      <4>1. ms[told + 1] \in Messages
        BY <3>4, <3>7
      <4> QED
        BY <1>1, <3>3, <3>7, <4>1, TruthRemains
    <3>8. OnTheWay(p, ms, v, u, kept, sent)
      BY <3>3, <3>5, <3>6, <3>7 DEF OnTheWay
    <3> QED
      BY <2>2, <3>1, <3>8 DEF Trail, v, u
  <2> QED
    BY <2>1, <2>2
<1> QED
  BY <1>2, <1>3

\* The loop reports the panic of a worker, which is then the last report, and
\* gives up the worker that ended.
LEMMA ReapingTrail ==
    ASSUME TrailInv, NEW p \in Pendings, NEW ms \in Seq(Messages),
           Trail(p, ms, worker, tmux, task)
    PROVE  Trail(p, ReapedProgress(ms), worker, tmux, Reaped)
<1>1. worker \in [Ids -> Workers] /\ task \in Ids \cup {None} /\ tmux \in [Ids -> Panes]
  BY DEF TrailInv, Inv, Types
<1>2. CASE p.state \in Conclusions
  <2>1. ms = <<>> /\ (task # None => worker[task].stage = "done" /\ ~worker[task].panicked)
    BY <1>2 DEF Trail
  <2>2. Reaped = None /\ ReapedProgress(ms) = ms
    BY <2>1 DEF Reaped, ReapedProgress, Ended
  <2> QED
    BY <1>2, <2>1, <2>2 DEF Trail
<1>3. CASE p.state \notin Conclusions
  <2>1. p.id \in Ids
    BY <1>3 DEF Trail
  <2>2. PICK sent \in 0 .. 4 : OnTheWay(p, ms, worker[p.id], tmux[p.id], task, sent)
    BY <1>3 DEF Trail
  <2> DEFINE w == worker[p.id]
             t == tmux[p.id]
             told == sent - Rank(p.state)
  <2>3. /\ OnTheWay(p, ms, w, t, task, sent) /\ told \in Nat /\ Len(ms) \in Nat
        /\ w \in Workers /\ task \in {p.id, None} /\ p.id # None
    BY <1>1, <2>1, <2>2 DEF OnTheWay, Rank, None, Ids
  <2>4. CASE ReapedProgress(ms) = ms /\ Reaped = task
    BY <1>3, <2>1, <2>2, <2>4 DEF Trail
  <2>5. CASE task = p.id /\ w.stage = "done" /\ ~w.panicked
    <3>1. Reaped = None /\ ReapedProgress(ms) = ms
      BY <2>3, <2>5 DEF Reaped, ReapedProgress, Ended
    <3>2. OnTheWay(p, ms, w, t, None, sent)
      BY <2>3, <2>5 DEF OnTheWay
    <3> QED
      BY <1>3, <2>1, <3>1, <3>2 DEF Trail
  <2>6. CASE task = p.id /\ w.stage = "done" /\ w.panicked
    <3> DEFINE m == Outcome("taskFailed", p.id)
    <3>1. Reaped = None /\ ReapedProgress(ms) = Append(ms, m)
      BY <2>3, <2>6 DEF Reaped, ReapedProgress, Ended
    <3>2. Closes(p.id, w, t, sent, m) /\ m \in Messages
      BY <2>1, MessagesFit DEF Closes, Outcome, Message, Last
    <3> HIDE DEF m
    <3>3. Len(ms) = told
      BY <2>3, <2>6 DEF OnTheWay
    <3>4. /\ Len(Append(ms, m)) = told + 1 /\ Append(ms, m)[told + 1] = m
          /\ \A i \in 1 .. told : Append(ms, m)[i] = ms[i]
      BY <2>3, <3>2, <3>3
    <3>5. OnTheWay(p, Append(ms, m), w, t, None, sent)
      BY <2>3, <2>6, <3>2, <3>3, <3>4 DEF OnTheWay
    <3> QED
      BY <1>3, <2>1, <3>1, <3>5 DEF Trail
  <2>7. CASE task = None \/ w.stage # "done"
    <3>1. ReapedProgress(ms) = ms /\ Reaped = task
      BY <2>3, <2>7 DEF Reaped, ReapedProgress, Ended
    <3> QED
      BY <2>4, <3>1
  <2> HIDE DEF w
  <2> QED
    BY <2>3, <2>5, <2>6, <2>7
<1> QED
  BY <1>2, <1>3

\* The first report on the way is the one that the reducer expects: it takes the
\* creation one step on, and the last one ends it.
LEMMA ReducingTrail ==
    ASSUME TrailInv, Trail(pending, progress, worker, tmux, task), progress # <<>>,
           ReduceCreationProgress(Head(progress))
    PROVE  /\ Trail(pending', Tail(progress), worker, tmux, task)
           /\ Bound(pending', worker, tmux)
<1> DEFINE p == pending
           id == p.id
           w == worker[id]
           t == tmux[id]
           m == progress[1]
           ms == Tail(progress)
<1>1. /\ p \in Pendings /\ progress \in Seq(Messages) /\ worker \in [Ids -> Workers]
      /\ tmux \in [Ids -> Panes] /\ Len(progress) \in Nat \ {None} /\ m = Head(progress)
      /\ m \in Messages /\ p.state \notin Conclusions
      /\ ms \in Seq(Messages) /\ Len(ms) + 1 = Len(progress)
      /\ \A i \in 1 .. Len(ms) : ms[i] = progress[i + 1]
  BY DEF TrailInv, Inv, Types, None, Trail
<1>2. id \in Ids /\ w \in Workers /\ t \in Panes /\ id # None
  BY <1>1 DEF Trail, None, Ids
<1>3. PICK sent \in 0 .. 4 : OnTheWay(p, progress, w, t, task, sent)
  BY <1>1 DEF Trail
<1> DEFINE told == sent - Rank(p.state)
<1>4. /\ told \in Nat /\ p.state \in {"creating", "created", "tagging", "sending", "entering"}
      /\ p.pane = IF p.state = "creating" THEN None ELSE id
      /\ Effects(sent, t)
  BY <1>1, <1>3 DEF OnTheWay, Rank, Pendings, States
<1>5. ReduceCreationProgress(m)
  BY <1>1
<1>6. CASE told >= 1
  <2>1. /\ m = Script(id)[Rank(p.state) + 1] /\ sent >= Rank(p.state) + 1
        /\ p.state \in {"creating", "created", "tagging", "sending"}
    BY <1>3, <1>4, <1>6 DEF OnTheWay, Rank
  <2> DEFINE q == StateAfter(Rank(p.state) + 1)
  <2>2. /\ q \in {"created", "tagging", "sending", "entering"} /\ Rank(q) = Rank(p.state) + 1
        /\ q \notin Conclusions
    BY <2>1 DEF StateAfter, Rank, Conclusions
  <2>3. /\ pending'.state = q /\ pending'.id = id /\ pending'.pane = id
    <3>1. CASE p.state = "creating"
      <4>1. m = Created(id)
        BY <2>1, <3>1 DEF Rank, Script
      <4>2. pending' = [pending EXCEPT !.state = "created", !.pane = id]
        BY <1>5, <3>1, <4>1 DEF ReduceCreationProgress, Created, Message
      <4> QED
        BY <1>1, <3>1, <4>2 DEF Pendings, StateAfter, Rank
    <3>2. ASSUME NEW stage, m = StageMessage(id, stage), NextState(p.state, stage) = q,
                 p.state # "creating"
          PROVE  /\ pending'.state = q /\ pending'.id = id /\ pending'.pane = id
      <4>1. pending' = [pending EXCEPT !.state = q]
        BY <1>4, <1>5, <2>2, <3>2 DEF ReduceCreationProgress, StageMessage, Message
      <4> QED
        BY <1>1, <1>4, <3>2, <4>1 DEF Pendings
    <3>3. CASE p.state = "created"
      BY <2>1, <3>2, <3>3 DEF Rank, Script, NextState, StateAfter
    <3>4. CASE p.state = "tagging"
      BY <2>1, <3>2, <3>4 DEF Rank, Script, NextState, StateAfter
    <3>5. CASE p.state = "sending"
      BY <2>1, <3>2, <3>5 DEF Rank, Script, NextState, StateAfter
    <3> QED
      BY <2>1, <3>1, <3>3, <3>4, <3>5
  <2> HIDE DEF q
  <2>4. OnTheWay(pending', ms, w, t, task, sent)
    <3> DEFINE left == sent - Rank(pending'.state)
    <3>1. left = told - 1 /\ left \in Nat /\ Rank(p.state) \in 0 .. 3
      BY <1>4, <1>6, <2>1, <2>2, <2>3 DEF Rank
    <3>2. \A i \in 1 .. left : i =< Len(ms) /\ ms[i] = Script(id)[Rank(pending'.state) + i]
      <4>1. ASSUME NEW i \in 1 .. left
            PROVE  i =< Len(ms) /\ ms[i] = Script(id)[Rank(pending'.state) + i]
        <5>1. i + 1 \in 1 .. told
          BY <3>1
        <5>2. i + 1 =< Len(progress) /\ progress[i + 1] = Script(id)[Rank(p.state) + (i + 1)]
          BY <1>3, <5>1 DEF OnTheWay
        <5>3. Rank(p.state) + (i + 1) = Rank(pending'.state) + i
          BY <2>2, <2>3, <3>1
        <5> QED
          BY <1>1, <5>2, <5>3
      <4> QED
        BY <4>1
    <3>3. Len(progress) = told + 1 => Len(ms) = left + 1 /\ ms[left + 1] = progress[told + 1]
      BY <1>1, <1>6, <3>1
    <3>4. Len(progress) = told => Len(ms) = left
      BY <1>1, <3>1
    <3>5. pending'.pane = IF pending'.state = "creating" THEN None ELSE id
      BY <2>2, <2>3
    <3> QED
      BY <1>3, <2>3, <3>1, <3>2, <3>3, <3>4, <3>5 DEF OnTheWay
  <2>5. Trail(pending', ms, worker, tmux, task)
    BY <1>2, <2>2, <2>3, <2>4 DEF Trail
  <2>6. Bound(pending', worker, tmux)
    BY <1>2, <1>4, <2>1, <2>2, <2>3 DEF Bound, Effects, Rank
  <2> QED
    BY <2>5, <2>6
<1>7. CASE told = 0
  <2>1. /\ Len(progress) = 1 /\ w.stage = "done" /\ Closes(id, w, t, sent, m)
        /\ task = None \/ (task = id /\ ~w.panicked)
    BY <1>1, <1>3, <1>7 DEF OnTheWay, None
  <2>2. ms = <<>>
    <3>1. ms \in Seq(Messages) /\ Len(ms) = 0
      BY <1>1, <2>1
    <3> HIDE DEF ms
    <3> QED
      BY <3>1
  <2>3. /\ sent = Rank(p.state) /\ StateAfter(sent) = p.state /\ m.id = id
        /\ StageOf(p.state) = "none" <=> p.state = "creating"
    BY <1>4, <1>7, <2>1 DEF Closes, Rank, StateAfter, StageOf
  <2>4. ASSUME NEW r \in Resolutions, FinishCreation(id, r), Fits(p.state, r), IsTrue(r, w, t),
               p.state # "creating"
        PROVE  pending'.state \in Conclusions /\ Bound(pending', worker, tmux)
    <3>1. pending' = [pending EXCEPT !.state = "awaiting", !.resolution = r]
      BY <1>4, <2>4 DEF FinishCreation
    <3>2. /\ pending'.state = "awaiting" /\ pending'.resolution = r /\ pending'.id = id
          /\ pending'.pane = id
      BY <1>1, <1>4, <2>4, <3>1 DEF Pendings
    <3>3. t.made
      BY <1>4, <2>3, <2>4 DEF Effects, Rank
    <3> QED
      BY <1>2, <2>4, <3>2, <3>3 DEF Bound, Conclusions
  <2>5. ASSUME p.state # "creating"
        PROVE  /\ Fits(p.state, TimedOut(StageOf(p.state)))
               /\ IsTrue(TimedOut(StageOf(p.state)), w, t)
               /\ StageOf(p.state) = "tag" => Fits(p.state, TagFailed) /\ IsTrue(TagFailed, w, t)
               /\ StageOf(p.state) # "tag" =>
                     /\ Fits(p.state, CommandFailed(StageOf(p.state)))
                     /\ IsTrue(CommandFailed(StageOf(p.state)), w, t)
    BY <1>4, <2>3, <2>5 DEF Fits, IsTrue, StageOf, TimedOut, CommandFailed, TagFailed, Success,
       Effects, Rank
  <2>6. \/ m.kind \in {"timedOut", "taskFailed"}
        \/ m.kind = "createFailed" /\ p.state = "creating"
        \/ /\ m.kind = "finished" /\ m.pane = id /\ Fits(p.state, m.resolution)
           /\ IsTrue(m.resolution, w, t)
    <3>1. sent = 0 => p.state = "creating"
      BY <1>4, <2>3 DEF Rank
    <3> HIDE DEF p, id, w, t, m, told
    <3> QED
      BY <2>1, <2>3, <3>1 DEF Closes
  <2>7. pending'.state \in Conclusions /\ Bound(pending', worker, tmux)
    <3>1. CASE m.kind = "createFailed" /\ p.state = "creating"
      <4>1. pending' = [pending EXCEPT !.state = "error"] \/ pending' = NoPending
        BY <1>5, <2>3, <3>1 DEF ReduceCreationProgress, FailToCreate
      <4> QED
        BY <1>1, <1>4, <3>1, <4>1 DEF Pendings, NoPending, Pending, Bound, Conclusions
    <3>2. CASE m.kind \in {"timedOut", "taskFailed"} /\ p.state = "creating"
      <4>1. pending' = [pending EXCEPT !.state = "error"] \/ pending' = NoPending
        BY <1>5, <2>3, <3>2 DEF ReduceCreationProgress, FailToCreate
      <4> QED
        BY <1>1, <1>4, <3>2, <4>1 DEF Pendings, NoPending, Pending, Bound, Conclusions
    <3>3. CASE m.kind = "finished" /\ m.pane = id /\ Fits(p.state, m.resolution)
               /\ IsTrue(m.resolution, w, t)
      <4>1. FinishCreation(id, m.resolution)
        BY <1>5, <2>3, <3>3 DEF ReduceCreationProgress
      <4>2. p.state # "creating" /\ m.resolution \in Resolutions
        BY <1>1, <3>3 DEF Fits, Messages
      <4> QED
        BY <2>4, <3>3, <4>1, <4>2
    <3>4. CASE m.kind = "timedOut" /\ p.state # "creating"
      <4>1. FinishCreation(id, TimedOut(StageOf(p.state)))
        BY <1>4, <1>5, <2>3, <3>4 DEF ReduceCreationProgress
      <4>2. StageOf(p.state) \in StageNames
        BY <1>4 DEF StageOf, StageNames
      <4> QED
        BY <2>4, <2>5, <3>4, <4>1, <4>2, ResolutionsFit
    <3>5. CASE m.kind = "taskFailed" /\ p.state # "creating"
      <4> DEFINE r == IF StageOf(p.state) = "tag" THEN TagFailed
                      ELSE CommandFailed(StageOf(p.state))
      <4>1. FinishCreation(id, r)
        BY <1>4, <1>5, <2>3, <3>5 DEF ReduceCreationProgress
      <4>2. StageOf(p.state) \in StageNames
        BY <1>4 DEF StageOf, StageNames
      <4>3. r \in Resolutions /\ Fits(p.state, r) /\ IsTrue(r, w, t)
        BY <2>5, <3>5, <4>2, ResolutionsFit
      <4> HIDE DEF r
      <4> QED
        BY <2>4, <3>5, <4>1, <4>3
    <3> QED
      BY <2>6, <3>1, <3>2, <3>3, <3>4, <3>5
  <2>8. task # None => worker[task].stage = "done" /\ ~worker[task].panicked
    BY <2>1
  <2> QED
    BY <2>2, <2>7, <2>8 DEF Trail
<1> QED
  BY <1>4, <1>6, <1>7

\* What a worker that had sent s of its script reports when it becomes v: more of
\* the script, and with its end a last report, unless it panicked.
Reports(id, s, v, t, rep, sent) ==
    /\ sent >= s /\ Effects(sent, t)
    /\ \A i \in 1 .. sent - s : i =< Len(rep) /\ rep[i] = Script(id)[s + i]
    /\ \/ Len(rep) = sent - s /\ v.stage # "done" /\ sent = Sent(v.stage)
       \/ Len(rep) = sent - s /\ v.stage = "done" /\ v.panicked
       \/ /\ Len(rep) = sent - s + 1 /\ v.stage = "done" /\ ~v.panicked
          /\ Closes(id, v, t, sent, rep[sent - s + 1])

\* A report extends the trail of the creation whose worker is at work.
LEMMA ReportExtends ==
    ASSUME NEW p \in Pendings, NEW ms \in Seq(Messages), NEW rep \in Seq(Messages),
           NEW w \in Workers, NEW v \in Workers, NEW t \in Panes, NEW kept,
           NEW s \in 0 .. 4, NEW sent \in 0 .. 4,
           OnTheWay(p, ms, w, t, kept, s), w.stage # "done", v.stage # "idle",
           Reports(p.id, s, v, t, rep, sent)
    PROVE  OnTheWay(p, ms \o rep, v, t, kept, sent)
<1> DEFINE r == Rank(p.state)
           all == ms \o rep
<1>1. r \in 0 .. 4 /\ s >= r /\ Len(ms) = s - r /\ kept = p.id /\ sent >= s
  BY DEF OnTheWay, Rank, Reports
<1>2. /\ Len(rep) \in Nat /\ Len(all) = Len(ms) + Len(rep)
      /\ \A i \in 1 .. Len(ms) : all[i] = ms[i]
      /\ \A i \in 1 .. Len(rep) : all[Len(ms) + i] = rep[i]
  BY <1>1
<1>3. Len(rep) >= sent - s
  BY <1>1, <1>2 DEF Reports
<1>4. \A i \in 1 .. s - r : ms[i] = Script(p.id)[r + i]
  BY DEF OnTheWay
<1> HIDE DEF all, r
<1>5. ASSUME NEW i \in 1 .. sent - r
      PROVE  i =< Len(all) /\ all[i] = Script(p.id)[r + i]
  <2>1. CASE i \in 1 .. s - r
    <3>1. ms[i] = Script(p.id)[r + i]
      BY <1>4, <2>1
    <3> QED
      BY <1>1, <1>2, <2>1, <3>1
  <2>2. CASE i > s - r
    <3> DEFINE j == i - (s - r)
    <3>1. j \in 1 .. sent - s /\ i = Len(ms) + j /\ s + j = r + i
      BY <1>1, <2>2
    <3>2. j =< Len(rep) /\ rep[j] = Script(p.id)[s + j]
      BY <3>1 DEF Reports
    <3> HIDE DEF j
    <3> QED
      BY <1>1, <1>2, <3>1, <3>2
  <2> QED
    BY <1>1, <2>1, <2>2
<1>6. \A i \in 1 .. sent - r : i =< Len(all) /\ all[i] = Script(p.id)[r + i]
  BY <1>5
<1>7. Len(rep) = sent - s + 1 => Len(all) = (sent - r) + 1
                                 /\ all[(sent - r) + 1] = rep[sent - s + 1]
  <2>1. ASSUME Len(rep) = sent - s + 1
        PROVE  Len(all) = (sent - r) + 1 /\ all[(sent - r) + 1] = rep[sent - s + 1]
    <3>1. (sent - r) + 1 = Len(ms) + (sent - s + 1) /\ sent - s + 1 \in 1 .. Len(rep)
      BY <1>1, <1>2, <2>1
    <3> QED
      BY <1>2, <2>1, <3>1
  <2> QED
    BY <2>1
<1>8. Len(rep) = sent - s => Len(all) = sent - r
  BY <1>1, <1>2
<1>9. sent - r >= 0 /\ Effects(sent, t)
      /\ p.pane = IF p.state = "creating" THEN None ELSE p.id
  BY <1>1 DEF Reports, OnTheWay, r
<1>10. \/ Len(all) = sent - r /\ v.stage # "done" /\ sent = Sent(v.stage)
       \/ Len(all) = sent - r /\ v.stage = "done" /\ v.panicked
       \/ /\ Len(all) = (sent - r) + 1 /\ v.stage = "done" /\ ~v.panicked
          /\ Closes(p.id, v, t, sent, all[(sent - r) + 1])
  BY <1>7, <1>8 DEF Reports
<1> QED
  BY <1>1, <1>6, <1>9, <1>10 DEF OnTheWay, all, r

\* What tmux does to a pane is added to what was done.
LEMMA DoneAdds ==
    ASSUME tmux \in [Ids -> Panes], NEW id \in Ids,
           NEW stage \in {"create", "tag", "send", "enter"}, tmux' = Done(id, stage)
    PROVE  /\ tmux' \in [Ids -> Panes]
           /\ \A other \in Ids : Grows(tmux[other], tmux'[other])
           /\ stage = "create" => tmux'[id].made
           /\ stage = "tag" => tmux'[id].tagged
           /\ stage = "send" => tmux'[id].typed
           /\ stage = "enter" => tmux'[id].entered
<1> DEFINE t == tmux[id]
           u == CASE stage = "create" -> [t EXCEPT !.made = TRUE]
                  [] stage = "tag" -> [t EXCEPT !.tagged = TRUE]
                  [] stage = "send" -> [t EXCEPT !.typed = TRUE]
                  [] stage = "enter" -> [t EXCEPT !.entered = TRUE]
<1>1. t \in Panes
  OBVIOUS
<1>2. tmux' = [tmux EXCEPT ![id] = u]
  BY DEF Done
<1>3. /\ u \in Panes /\ Grows(t, u)
      /\ stage = "create" => u.made
      /\ stage = "tag" => u.tagged
      /\ stage = "send" => u.typed
      /\ stage = "enter" => u.entered
  BY <1>1 DEF Panes, Grows
<1> HIDE DEF u
<1>4. tmux'[id] = u /\ \A other \in Ids \ {id} : tmux'[other] = tmux[other]
  BY <1>2
<1>5. tmux' \in [Ids -> Panes]
  BY <1>2, <1>3
<1> QED
  BY <1>3, <1>4, <1>5 DEF Grows

\* A worker at work that reports keeps the invariant.
LEMMA ReportKeeps ==
    ASSUME TrailInv, Inv', NEW id \in Ids, Working(worker, id), NEW v \in Workers,
           NEW rep \in Seq(Messages), worker' = [worker EXCEPT ![id] = v],
           progress' = progress \o rep, UNCHANGED <<pending, task, quit>>,
           tmux' \in [Ids -> Panes], \A other \in Ids : Grows(tmux[other], tmux'[other]),
           v.typed = worker[id].typed, v.child = "none", v.stage # "idle",
           v.panicked => v.stage = "done",
           Effects(Sent(worker[id].stage), tmux'[id]) =>
               \E sent \in 0 .. 4 :
                   Reports(id, Sent(worker[id].stage), v, tmux'[id], rep, sent)
    PROVE  TrailInv'
<1>1. /\ worker \in [Ids -> Workers] /\ tmux \in [Ids -> Panes] /\ pending \in Pendings
      /\ progress \in Seq(Messages) /\ task \in Ids \cup {None} /\ Bound(pending, worker, tmux)
      /\ worker' \in [Ids -> Workers] /\ worker'[id] = v
      /\ \A other \in Ids \ {id} : worker'[other] = worker[other]
  BY DEF TrailInv, Inv, Types
<1>2. \A other \in Ids : Ran(worker'[other], tmux'[other])
  <2>1. ASSUME NEW other \in Ids, other # id
        PROVE  Ran(worker'[other], tmux'[other])
    <3>1. Ran(worker[other], tmux[other]) /\ Grows(tmux[other], tmux'[other])
      BY DEF TrailInv
    <3> QED
      BY <1>1, <2>1, <3>1 DEF Ran, Grows
  <2>2. Ran(worker'[id], tmux'[id])
    BY <1>1 DEF Ran
  <2> QED
    BY <2>1, <2>2
<1>3. Bound(pending', worker', tmux')
  BY <1>1, QuietTrail
<1>4. ASSUME ~quit
      PROVE  Trail(pending', progress', worker', tmux', task')
  <2> DEFINE w == worker[id]
             s == Sent(w.stage)
  <2>1. pending.id = id /\ pending.state \notin Conclusions /\ w \in Workers
    BY <1>1 DEF TrailInv, Inv, Serving
  <2>2. Trail(pending, progress, worker, tmux, task)
    BY <1>4 DEF TrailInv
  <2>3. Trail(pending, progress, worker, tmux', task)
    BY <1>1, <2>2, QuietTrail
  <2>4. PICK sent \in 0 .. 4 : OnTheWay(pending, progress, w, tmux'[id], task, sent)
    BY <2>1, <2>3 DEF Trail
  <2>5. sent = s /\ Effects(s, tmux'[id]) /\ w.stage # "done"
    BY <2>4 DEF OnTheWay, Working
  <2>6. PICK sent2 \in 0 .. 4 : Reports(id, s, v, tmux'[id], rep, sent2)
    BY <2>5
  <2>7. OnTheWay(pending, progress \o rep, v, tmux'[id], task, sent2)
    <3>1. tmux'[id] \in Panes
      BY <1>1
    <3>2. s \in 0 .. 4 /\ OnTheWay(pending, progress, w, tmux'[id], task, s)
      BY <2>4, <2>5
    <3> HIDE DEF w, s
    <3> QED
      BY <1>1, <2>1, <2>5, <2>6, <3>1, <3>2, ReportExtends
  <2> QED
    BY <1>1, <2>1, <2>7 DEF Trail
<1> QED
  BY <1>2, <1>3, <1>4 DEF TrailInv

\* The reports with which a worker ends or goes on are the next of its script, or
\* close the creation in the state that the script has led to.
LEMMA OutcomeKeeps ==
    ASSUME TrailInv, Inv', NEW id \in Ids, Working(worker, id),
           UNCHANGED <<pending, task, quit>>,
           tmux' \in [Ids -> Panes], \A other \in Ids : Grows(tmux[other], tmux'[other])
    PROVE  /\ Fail(id) => TrailInv'
           /\ \A captured \in BOOLEAN :
                 (captured => worker[id].child = "ran") /\ TimeOutStage(id, captured) => TrailInv'
           /\ worker[id].child = "ran" /\ Succeed(id) => TrailInv'
<1> DEFINE w == worker[id]
           t == tmux'[id]
           v == [w EXCEPT !.stage = "done", !.child = "none"]
           s == Sent(w.stage)
<1>1. /\ w \in Workers /\ worker \in [Ids -> Workers] /\ t \in Panes
      /\ w.stage \in {"create", "tag", "send", "enter"}
      /\ Ran(w, t) /\ ~w.panicked
  <2>1. w \in Workers /\ worker \in [Ids -> Workers] /\ t \in Panes
    BY DEF TrailInv, Inv, Types
  <2>2. w.stage \in {"create", "tag", "send", "enter"}
    BY <2>1 DEF Working, Workers, WorkerStages
  <2>3. Ran(w, tmux[id]) /\ Grows(tmux[id], t)
    BY DEF TrailInv
  <2> QED
    BY <2>1, <2>2, <2>3 DEF Ran, Grows
<1>2. /\ v \in Workers /\ v.stage = "done" /\ v.child = "none" /\ v.typed = w.typed /\ ~v.panicked
  BY <1>1 DEF Workers, WorkerStages
<1>3. s \in 0 .. 4
  BY DEF Sent
<1>4. \A ms : End(id, ms) => worker' = [worker EXCEPT ![id] = v] /\ progress' = progress \o ms
  BY <1>1 DEF End
<1> HIDE DEF v
<1>5. ASSUME NEW m \in Messages, End(id, <<m>>), Effects(s, t) => Closes(id, v, t, s, m)
      PROVE  TrailInv'
  <2> DEFINE rep == <<m>>
  <2>1. rep \in Seq(Messages) /\ Len(rep) = 1 /\ rep[1] = m
    BY <1>5
  <2>2. worker' = [worker EXCEPT ![id] = v] /\ progress' = progress \o rep
    BY <1>4, <1>5
  <2> HIDE DEF rep
  <2>3. ASSUME Effects(s, t)
        PROVE  Reports(id, s, v, t, rep, s)
    <3>1. s - s = 0 /\ s - s + 1 = 1
      BY <1>3
    <3> HIDE DEF s, t
    <3> QED
      BY <1>2, <1>3, <1>5, <2>1, <2>3, <3>1 DEF Reports
  <2> QED
    BY <1>1, <1>2, <1>3, <2>1, <2>2, <2>3, ReportKeeps
<1>6. ASSUME NEW r \in Resolutions, Effects(s, t) => Fits(StateAfter(s), r) /\ IsTrue(r, v, t)
      PROVE  /\ Finished(id, r) \in Messages
             /\ Effects(s, t) => Closes(id, v, t, s, Finished(id, r))
  BY <1>6, MessagesFit DEF Closes, Finished, Message
<1>7. "create" \in StageNames /\ w.stage \in StageNames
  BY <1>1 DEF StageNames
<1>8. ASSUME Fail(id)
      PROVE  TrailInv'
  <2>1. CASE w.stage = "create"
    <3> DEFINE m == Outcome("createFailed", id)
    <3>1. End(id, <<m>>) /\ s = 0
      BY <1>8, <2>1 DEF Fail, Sent
    <3>2. m \in Messages /\ Closes(id, v, t, s, m)
      BY <3>1, MessagesFit DEF Closes, Outcome, Message, Last
    <3> HIDE DEF m
    <3> QED
      BY <1>5, <3>1, <3>2
  <2>2. CASE w.stage = "tag"
    <3>1. End(id, <<Finished(id, TagFailed)>>)
      BY <1>8, <2>2 DEF Fail
    <3>2. Fits(StateAfter(s), TagFailed) /\ IsTrue(TagFailed, v, t)
      BY <2>2 DEF Fits, StateAfter, Sent, IsTrue, TagFailed, Success, CommandFailed, TimedOut
    <3> QED
      BY <1>5, <1>6, <3>1, <3>2, ResolutionsFit
  <2>3. CASE w.stage \in {"send", "enter"}
    <3>1. End(id, <<Finished(id, CommandFailed(w.stage))>>)
      BY <1>8, <2>3 DEF Fail
    <3>2. Effects(s, t) => /\ Fits(StateAfter(s), CommandFailed(w.stage))
                           /\ IsTrue(CommandFailed(w.stage), v, t)
      BY <2>3 DEF Fits, StateAfter, Sent, IsTrue, TagFailed, Success, CommandFailed, TimedOut,
                  Effects
    <3>3. CommandFailed(w.stage) \in Resolutions
      BY <1>7, ResolutionsFit
    <3> QED
      BY <1>5, <1>6, <3>1, <3>2, <3>3
  <2> QED
    BY <1>1, <2>1, <2>2, <2>3
<1>9. ASSUME NEW captured \in BOOLEAN, captured => w.child = "ran", TimeOutStage(id, captured)
      PROVE  TrailInv'
  <2>1. CASE w.stage = "create" /\ captured
    <3> DEFINE r == TimedOut("create")
               m == Created(id)
               n == Finished(id, r)
               rep == <<m, n>>
    <3>1. r \in Resolutions /\ m \in Messages /\ n \in Messages
      BY <1>7, MessagesFit, ResolutionsFit
    <3>2. rep \in Seq(Messages) /\ Len(rep) = 2 /\ rep[1] = m /\ rep[2] = n
      BY <3>1
    <3>3. s = 0 /\ Effects(1, t) /\ Script(id)[1] = m
      BY <1>1, <1>9, <2>1 DEF Sent, Effects, Ran, Script
    <3>4. Closes(id, v, t, 1, n)
      BY DEF Closes, Finished, Message, Fits, StateAfter, IsTrue, TimedOut, CommandFailed, Success
    <3>5. End(id, rep)
      BY <1>9, <2>1 DEF TimeOutStage
    <3> HIDE DEF m, n, rep, r
    <3>6. Reports(id, s, v, t, rep, 1)
      BY <1>2, <3>2, <3>3, <3>4 DEF Reports
    <3>7. worker' = [worker EXCEPT ![id] = v] /\ progress' = progress \o rep
      BY <1>4, <3>5
    <3>8. \E sent \in 0 .. 4 : Reports(id, s, v, t, rep, sent)
      BY <3>6
    <3> QED
      BY <1>1, <1>2, <3>2, <3>7, <3>8, ReportKeeps
  <2>2. CASE ~(w.stage = "create" /\ captured)
    <3> DEFINE m == Outcome("timedOut", id)
    <3>1. End(id, <<m>>)
      BY <1>9, <2>2 DEF TimeOutStage
    <3>2. m \in Messages /\ Closes(id, v, t, s, m)
      BY MessagesFit DEF Closes, Outcome, Message, Last
    <3> HIDE DEF m
    <3> QED
      BY <1>5, <3>1, <3>2
  <2> QED
    BY <2>1, <2>2
<1>10. ASSUME w.child = "ran", Succeed(id)
       PROVE  TrailInv'
  <2>1. CASE w.stage = "enter" \/ (w.stage = "tag" /\ ~w.typed)
    <3>1. End(id, <<Finished(id, Success)>>)
      BY <1>10, <2>1 DEF Succeed
    <3>2. Effects(s, t) => Fits(StateAfter(s), Success) /\ IsTrue(Success, v, t)
      BY <1>1, <1>2, <1>10, <2>1 DEF Fits, StateAfter, Sent, IsTrue, TagFailed, Success,
         CommandFailed, TimedOut, Effects, Ran
    <3> QED
      BY <1>5, <1>6, <3>1, <3>2, ResolutionsFit
  <2>2. CASE ~(w.stage = "enter" \/ (w.stage = "tag" /\ ~w.typed))
    <3> DEFINE next == Stages[StageIndex(w.stage) + 1]
               ws == [w EXCEPT !.stage = next, !.child = "none"]
               rep == IF next = "tag" THEN <<Created(id), StageMessage(id, next)>>
                      ELSE <<StageMessage(id, next)>>
    <3>1. Advance(id) /\ w.stage \in {"create", "tag", "send"}
      BY <1>1, <1>10, <2>2 DEF Succeed
    <3>2. /\ w.stage = "create" => next = "tag"
          /\ w.stage = "tag" => next = "send"
          /\ w.stage = "send" => next = "enter"
      <4>1. \E i \in 1 .. 4 : Stages[i] = w.stage
        BY <3>1 DEF Stages
      <4>2. /\ StageIndex(w.stage) \in 1 .. 4
            /\ Stages[StageIndex(w.stage)] = w.stage
        BY <4>1 DEF StageIndex
      <4> QED
        BY <3>1, <4>2 DEF Stages
    <3>3. worker' = [worker EXCEPT ![id] = ws] /\ progress' = progress \o rep
      BY <1>1, <3>1 DEF Advance
    <3> HIDE DEF next
    <3>4. next \in {"tag", "send", "enter"} /\ next \in StageNames
      BY <3>1, <3>2 DEF StageNames
    <3>5. /\ ws \in Workers /\ ws.stage = next /\ ws.child = "none" /\ ws.typed = w.typed
          /\ ~ws.panicked
      BY <1>1, <3>4 DEF Workers, WorkerStages
    <3>6. Created(id) \in Messages /\ StageMessage(id, next) \in Messages
      BY <3>4, MessagesFit
    <3>7. /\ rep \in Seq(Messages)
          /\ next = "tag" => Len(rep) = 2 /\ rep[1] = Created(id) /\ rep[2] = StageMessage(id, next)
          /\ next # "tag" => Len(rep) = 1 /\ rep[1] = StageMessage(id, next)
      BY <3>6
    <3> HIDE DEF rep, ws
    <3>8. ASSUME Effects(s, t)
          PROVE  Reports(id, s, ws, t, rep, Sent(next))
      <4>1. CASE w.stage = "create"
        <5>1. s = 0 /\ Sent(next) = 2 /\ next = "tag" /\ Effects(2, t)
          BY <1>1, <1>10, <3>2, <4>1 DEF Sent, Effects, Ran
        <5>2. Script(id)[1] = Created(id) /\ Script(id)[2] = StageMessage(id, "tag")
          BY DEF Script
        <5> HIDE DEF s, t
        <5>3. \A i \in 1 .. Sent(next) - s : i =< Len(rep) /\ rep[i] = Script(id)[s + i]
          <6>1. 1 .. Sent(next) - s = {1, 2}
            BY <5>1
          <6>2. Len(rep) = 2 /\ rep[1] = Script(id)[1] /\ rep[2] = Script(id)[2]
            BY <3>7, <5>1, <5>2
          <6>3. s + 1 = 1 /\ s + 2 = 2
            BY <5>1
          <6>4. \A i \in {1, 2} : i =< Len(rep) /\ rep[i] = Script(id)[s + i]
            BY <6>2, <6>3
          <6> QED
            BY <6>1, <6>4
        <5>4. Len(rep) = Sent(next) - s /\ Sent(next) >= s /\ Effects(Sent(next), t)
          BY <3>7, <5>1
        <5>5. ws.stage # "done" /\ Sent(next) = Sent(ws.stage)
          BY <3>4, <3>5
        <5> QED
          BY <5>3, <5>4, <5>5 DEF Reports
      <4>2. CASE w.stage = "tag"
        <5>1. s = 2 /\ Sent(next) = 3 /\ next = "send" /\ Effects(3, t)
          BY <1>1, <1>10, <3>2, <3>8, <4>2 DEF Sent, Effects, Ran
        <5>2. Script(id)[3] = StageMessage(id, "send")
          BY DEF Script
        <5> HIDE DEF s, t
        <5>3. \A i \in 1 .. Sent(next) - s : i =< Len(rep) /\ rep[i] = Script(id)[s + i]
          <6>1. 1 .. Sent(next) - s = {1}
            BY <5>1
          <6>2. Len(rep) = 1 /\ rep[1] = Script(id)[3]
            BY <3>7, <5>1, <5>2
          <6>3. s + 1 = 3
            BY <5>1
          <6>4. \A i \in {1} : i =< Len(rep) /\ rep[i] = Script(id)[s + i]
            BY <6>2, <6>3
          <6> QED
            BY <6>1, <6>4
        <5>4. Len(rep) = Sent(next) - s /\ Sent(next) >= s /\ Effects(Sent(next), t)
          BY <3>7, <5>1
        <5>5. ws.stage # "done" /\ Sent(next) = Sent(ws.stage)
          BY <3>4, <3>5
        <5> QED
          BY <5>3, <5>4, <5>5 DEF Reports
      <4>3. CASE w.stage = "send"
        <5>1. s = 3 /\ Sent(next) = 4 /\ next = "enter" /\ Effects(4, t)
          BY <1>1, <1>10, <3>2, <3>8, <4>3 DEF Sent, Effects, Ran
        <5>2. Script(id)[4] = StageMessage(id, "enter")
          BY DEF Script
        <5> HIDE DEF s, t
        <5>3. \A i \in 1 .. Sent(next) - s : i =< Len(rep) /\ rep[i] = Script(id)[s + i]
          <6>1. 1 .. Sent(next) - s = {1}
            BY <5>1
          <6>2. Len(rep) = 1 /\ rep[1] = Script(id)[4]
            BY <3>7, <5>1, <5>2
          <6>3. s + 1 = 4
            BY <5>1
          <6>4. \A i \in {1} : i =< Len(rep) /\ rep[i] = Script(id)[s + i]
            BY <6>2, <6>3
          <6> QED
            BY <6>1, <6>4
        <5>4. Len(rep) = Sent(next) - s /\ Sent(next) >= s /\ Effects(Sent(next), t)
          BY <3>7, <5>1
        <5>5. ws.stage # "done" /\ Sent(next) = Sent(ws.stage)
          BY <3>4, <3>5
        <5> QED
          BY <5>3, <5>4, <5>5 DEF Reports
      <4> QED
        BY <3>1, <4>1, <4>2, <4>3
    <3>9. Sent(next) \in 0 .. 4
      BY DEF Sent
    <3> QED
      BY <3>3, <3>4, <3>5, <3>7, <3>8, <3>9, ReportKeeps
  <2> QED
    BY <2>1, <2>2
<1> QED
  BY <1>8, <1>9, <1>10

\* Events of the loop that begin nothing.
LEMMA EventTrail ==
    ASSUME TrailInv, Inv', NEW ms \in Seq(Messages), pending' \in Pendings,
           ~quit => Trail(pending', ms, worker, tmux, task), Bound(pending', worker, tmux),
           task' = Reaped, progress' = ReapedProgress(ms), UNCHANGED <<worker, tmux, quit>>
    PROVE  TrailInv'
<1> DEFINE p == pending'
<1>1. p \in Pendings /\ (~quit => Trail(p, ms, worker, tmux, task))
  OBVIOUS
<1> HIDE DEF p
<1>2. ~quit => Trail(p, ReapedProgress(ms), worker, tmux, Reaped)
  BY <1>1, ReapingTrail
<1> QED
  BY <1>2 DEF TrailInv, p

\* A creation begins with nothing on the way, as the one before was concluded.
LEMMA BeginningTrail ==
    ASSUME TrailInv, Inv', ~quit, pending.state \in Conclusions,
           NEW viaForm \in BOOLEAN, NEW typed \in BOOLEAN, Begin(viaForm, typed)
    PROVE  TrailInv'
<1>1. /\ nextId \in Ids /\ nextId # None /\ task' = nextId /\ quit' = quit /\ tmux' = tmux
      /\ pending' = Pending(nextId, "creating", None, NoResolution)
      /\ progress' = ReapedProgress(progress)
      /\ worker \in [Ids -> Workers] /\ tmux \in [Ids -> Panes]
  BY DEF TrailInv, Inv, Types, Begin, StartCreation, None
<1>2. progress = <<>> /\ (task # None => worker[task].stage = "done" /\ ~worker[task].panicked)
  BY DEF TrailInv, Trail
<1>3. Reaped = None /\ progress' = <<>>
  BY <1>1, <1>2 DEF Reaped, ReapedProgress, Ended
<1> DEFINE w == [worker[nextId] EXCEPT !.stage = "create", !.typed = typed]
<1>4. worker' = [worker EXCEPT ![nextId] = w]
  <2>1. \A id \in Ids : id # None
    BY DEF Ids, None
  <2> QED
    BY <1>1, <1>3, <2>1 DEF Begin, StartCreation
<1>5. /\ worker[nextId] \in Workers /\ worker[nextId].stage = "idle"
      /\ Ran(worker[nextId], tmux[nextId])
  BY <1>1 DEF TrailInv, Inv, Types, Begun
<1>6. w \in Workers /\ w.stage = "create" /\ w.child = "none" /\ ~w.panicked
  BY <1>5 DEF Workers, WorkerStages, Ran
<1> HIDE DEF w
<1>7. worker'[nextId] = w /\ \A id \in Ids \ {nextId} : worker'[id] = worker[id]
  BY <1>1, <1>4, <1>6
<1>8. \A id \in Ids : Ran(worker'[id], tmux'[id])
  <2>1. Ran(w, tmux[nextId])
    BY <1>6 DEF Ran
  <2> QED
    BY <1>1, <1>7, <2>1 DEF TrailInv
<1>9. /\ pending'.state = "creating" /\ pending'.id = nextId /\ pending'.pane = None
  BY <1>1 DEF Pending
<1>10. Bound(pending', worker', tmux')
  BY <1>9 DEF Bound
<1>11. OnTheWay(pending', progress', w, tmux[nextId], nextId, 0)
  <2>1. Rank("creating") = 0 /\ Sent("create") = 0 /\ Len(progress') = 0
    BY <1>3 DEF Rank, Sent
  <2>2. Effects(0, tmux[nextId])
    BY DEF Effects
  <2>3. 0 - Rank(pending'.state) = 0
    BY <1>9, <2>1
  <2> QED
    BY <1>6, <1>9, <2>1, <2>2, <2>3 DEF OnTheWay
<1>12. Trail(pending', progress', worker', tmux', task')
  BY <1>1, <1>7, <1>9, <1>11 DEF Trail, Conclusions
<1> QED
  BY <1>1, <1>8, <1>10, <1>12 DEF TrailInv

\* Steps of workers and tmux that report nothing and end nothing.
LEMMA QuietStepTrail ==
    ASSUME TrailInv, Inv', NEW id \in Ids, NEW v \in Workers,
           worker' = [worker EXCEPT ![id] = v],
           v.stage = worker[id].stage, v.typed = worker[id].typed,
           v.panicked = worker[id].panicked, Ran(v, tmux'[id]),
           tmux' \in [Ids -> Panes], \A other \in Ids : Grows(tmux[other], tmux'[other]),
           UNCHANGED <<pending, task, progress, quit>>
    PROVE  TrailInv'
<1>1. /\ worker \in [Ids -> Workers] /\ tmux \in [Ids -> Panes] /\ pending \in Pendings
      /\ progress \in Seq(Messages) /\ task \in Ids \cup {None}
      /\ worker' \in [Ids -> Workers] /\ worker'[id] = v
      /\ \A other \in Ids \ {id} : worker'[other] = worker[other]
  BY DEF TrailInv, Inv, Types
<1>2. \A other \in Ids : /\ worker'[other].stage = worker[other].stage
                         /\ worker'[other].typed = worker[other].typed
                         /\ worker'[other].panicked = worker[other].panicked
  BY <1>1
<1>3. Bound(pending', worker', tmux')
      /\ (~quit' => Trail(pending', progress', worker', tmux', task'))
  BY <1>1, <1>2, QuietTrail DEF TrailInv
<1>4. \A other \in Ids : Ran(worker'[other], tmux'[other])
  <2>1. ASSUME NEW other \in Ids, other # id
        PROVE  Ran(worker'[other], tmux'[other])
    <3>1. Ran(worker[other], tmux[other]) /\ Grows(tmux[other], tmux'[other])
      BY DEF TrailInv
    <3> QED
      BY <1>1, <2>1, <3>1 DEF Ran, Grows
  <2> QED
    BY <1>1, <2>1
<1> QED
  BY <1>3, <1>4 DEF TrailInv

\* Every step keeps the trail.
LEMMA StepKeepsTrail ==
    ASSUME TrailInv, [Next]_vars
    PROVE  TrailInv'
<1>1. /\ Inv' /\ pending' \in Pendings
      /\ progress \in Seq(Messages) /\ pending \in Pendings /\ NoPending \in Pendings
      /\ worker \in [Ids -> Workers] /\ tmux \in [Ids -> Panes]
      /\ \A id \in Ids : Grows(tmux[id], tmux[id])
      /\ ~quit => Trail(pending, progress, worker, tmux, task)
      /\ Bound(pending, worker, tmux)
  <2>1. Inv' /\ pending' \in Pendings
    BY StepKeeps DEF TrailInv, Inv, Types
  <2>2. NoPending \in Pendings
    BY ResolutionsFit DEF NoPending, Pending, Pendings, States, Conclusions
  <2> QED
    BY <2>1, <2>2 DEF TrailInv, Inv, Types, Grows
<1>2. Bound(NoPending, worker, tmux)
  BY DEF NoPending, Pending, Bound, None
<1>3. ASSUME pending' = pending \/ (pending.state \in Conclusions /\ pending' = NoPending),
             task' = Reaped, progress' = ReapedProgress(progress), UNCHANGED <<worker, tmux, quit>>
      PROVE  TrailInv'
  <2>1. Bound(pending', worker, tmux)
    BY <1>1, <1>2, <1>3
  <2>2. NoPending.state \in Conclusions
    BY DEF NoPending, Pending, Conclusions
  <2>3. ~quit => Trail(pending', progress, worker, tmux, task)
    BY <1>1, <1>3, <2>2 DEF Trail
  <2> QED
    BY <1>1, <1>3, <2>1, <2>3, EventTrail
<1>4. ASSUME NEW form \in BOOLEAN, OpenModal(form)
      PROVE  TrailInv'
  BY <1>3, <1>4 DEF OpenModal
<1>5. CASE CloseModal
  BY <1>3, <1>5 DEF CloseModal, Conclusions
<1>6. CASE Submit
  <2>1. pending.state \in Conclusions
    BY <1>6 DEF Submit, TrailInv, Inv, FormIsFree, Conclusions
  <2> QED
    BY <1>1, <1>6, <2>1, BeginningTrail DEF Submit
<1>7. CASE AttachHeadless
  <2>1. pending.state \in Conclusions
    BY <1>7 DEF AttachHeadless, NoPending, Pending, Conclusions
  <2> QED
    BY <1>1, <1>7, <2>1, BeginningTrail DEF AttachHeadless
<1>8. CASE AttachRefused
  BY <1>3, <1>8 DEF AttachRefused
<1>9. CASE HandleProgress
  <2>1. /\ ~quit /\ progress # <<>> /\ ReduceCreationProgress(Head(progress))
        /\ progress' = ReapedProgress(Tail(progress)) /\ task' = Reaped
        /\ UNCHANGED <<worker, tmux, quit>>
    BY <1>9 DEF HandleProgress
  <2>2. Trail(pending', Tail(progress), worker, tmux, task) /\ Bound(pending', worker, tmux)
    BY <1>1, <2>1, ReducingTrail
  <2>3. Tail(progress) \in Seq(Messages)
    BY <1>1, <2>1
  <2> QED
    BY <1>1, <2>1, <2>2, <2>3, EventTrail
<1>10. CASE SnapshotOrExpiry
  BY <1>3, <1>10 DEF SnapshotOrExpiry, Conclusions
<1>11. CASE Tick
  BY <1>3, <1>11 DEF Tick, appVars
<1>12. CASE Quit
  <2>1. /\ quit' = TRUE /\ UNCHANGED <<pending, tmux>>
        /\ \/ worker' = worker
           \/ task \in Ids /\ worker' = [worker EXCEPT ![task].cancelled = TRUE]
    BY <1>12 DEF Quit, TrailInv, Inv, Types, appVars
  <2>2. /\ worker' \in [Ids -> Workers]
        /\ \A id \in Ids : /\ worker'[id].typed = worker[id].typed
                           /\ Ran(worker'[id], tmux[id])
    <3>1. \A id \in Ids : worker[id] \in Workers /\ Ran(worker[id], tmux[id])
      BY <1>1 DEF TrailInv
    <3>2. CASE task \in Ids /\ worker' = [worker EXCEPT ![task].cancelled = TRUE]
      <4> DEFINE v == [worker[task] EXCEPT !.cancelled = TRUE]
      <4>1. worker' = [worker EXCEPT ![task] = v]
        BY <1>1, <3>2
      <4>2. /\ v \in Workers /\ v.typed = worker[task].typed /\ v.stage = worker[task].stage
            /\ v.child = worker[task].child /\ v.panicked = worker[task].panicked
        BY <3>1, <3>2 DEF Workers
      <4> HIDE DEF v
      <4>3. Ran(v, tmux[task])
        BY <3>1, <3>2, <4>2 DEF Ran
      <4> QED
        BY <1>1, <3>1, <3>2, <4>1, <4>2, <4>3
    <3> QED
      BY <1>1, <2>1, <3>1, <3>2
  <2>3. Bound(pending', worker', tmux')
    BY <1>1, <2>1, <2>2, QuietTrail DEF TrailInv, Inv, Types
  <2> QED
    BY <1>1, <2>1, <2>2, <2>3 DEF TrailInv
<1>13. ASSUME NEW id \in Ids, RunCommand(id) \/ CommandStopped(id) \/ CommandExits(id)
       PROVE  TrailInv'
  <2>1. /\ Working(worker, id) /\ UNCHANGED <<pending, task, quit>> /\ worker[id] \in Workers
        /\ worker[id].stage \in {"create", "tag", "send", "enter"}
        /\ tmux' \in [Ids -> Panes] /\ \A other \in Ids : Grows(tmux[other], tmux'[other])
    <3>1. Working(worker, id) /\ UNCHANGED <<pending, task, quit>>
      BY <1>13 DEF RunCommand, CommandStopped, CommandExits, Busy, Working, appVars
    <3>2. worker[id] \in Workers /\ worker[id].stage \in {"create", "tag", "send", "enter"}
      BY <1>1, <3>1 DEF Working, Workers, WorkerStages
    <3>3. tmux' = tmux \/ tmux' = Done(id, worker[id].stage)
      BY <1>13 DEF RunCommand, CommandStopped, CommandExits
    <3> QED
      BY <1>1, <3>1, <3>2, <3>3, DoneAdds
  <2>2. CASE worker' = [worker EXCEPT ![id].child = "running"] /\ UNCHANGED <<progress, tmux>>
    <3> DEFINE v == [worker[id] EXCEPT !.child = "running"]
    <3>1. worker' = [worker EXCEPT ![id] = v]
      BY <1>1, <2>2
    <3>2. /\ v \in Workers /\ v.stage = worker[id].stage /\ v.typed = worker[id].typed
          /\ v.panicked = worker[id].panicked /\ v.child = "running"
      BY <2>1 DEF Workers
    <3> HIDE DEF v
    <3>3. Ran(v, tmux'[id])
      BY <2>1, <3>2 DEF Ran, TrailInv
    <3> QED
      BY <1>1, <2>1, <2>2, <3>1, <3>2, <3>3, QuietStepTrail
  <2>3. \/ worker' = [worker EXCEPT ![id].child = "running"] /\ UNCHANGED <<progress, tmux>>
        \/ Fail(id)
        \/ worker[id].child = "ran" /\ Succeed(id)
        \/ \E captured \in BOOLEAN :
              (captured => worker[id].child = "ran") /\ TimeOutStage(id, captured)
    BY <1>13 DEF RunCommand, CommandStopped, CommandExits
  <2> QED
    BY <1>1, <2>1, <2>2, <2>3, OutcomeKeeps
<1>14. ASSUME NEW id \in Ids, Overdue(id)
       PROVE  TrailInv'
  <2> DEFINE v == [worker[id] EXCEPT !.overdue = TRUE]
  <2>1. worker' = [worker EXCEPT ![id] = v] /\ UNCHANGED <<pending, task, progress, tmux, quit>>
    BY <1>1, <1>14 DEF Overdue, appVars
  <2>2. worker[id] \in Workers /\ Ran(worker[id], tmux[id])
    BY <1>1 DEF TrailInv
  <2>3. /\ v \in Workers /\ v.stage = worker[id].stage /\ v.typed = worker[id].typed
        /\ v.panicked = worker[id].panicked /\ v.child = worker[id].child
    BY <2>2 DEF Workers
  <2> HIDE DEF v
  <2>4. Ran(v, tmux'[id])
    BY <2>1, <2>2, <2>3 DEF Ran
  <2> QED
    BY <1>1, <2>1, <2>3, <2>4, QuietStepTrail
<1>15. ASSUME NEW id \in Ids, TmuxRuns(id)
       PROVE  TrailInv'
  <2>1. /\ worker[id].child = "running" /\ UNCHANGED <<pending, task, progress, quit>>
        /\ \/ tmux' = Done(id, worker[id].stage) /\ worker' = [worker EXCEPT ![id].child = "ran"]
           \/ tmux' = tmux /\ worker' = [worker EXCEPT ![id].child = "failed"]
    BY <1>15 DEF TmuxRuns, appVars
  <2>2. PICK child \in {"ran", "failed"} :
           /\ worker' = [worker EXCEPT ![id].child = child]
           /\ \/ tmux' = Done(id, worker[id].stage)
              \/ tmux' = tmux /\ child = "failed"
    BY <2>1
  <2> DEFINE v == [worker[id] EXCEPT !.child = child]
  <2>3. worker' = [worker EXCEPT ![id] = v]
    BY <1>1, <2>2
  <2>4. worker[id] \in Workers /\ Ran(worker[id], tmux[id])
    BY <1>1 DEF TrailInv
  <2>5. worker[id].stage \in {"create", "tag", "send", "enter"} /\ ~worker[id].panicked
    BY <2>1, <2>4 DEF Workers, WorkerStages, Ran
  <2>6. /\ v \in Workers /\ v.stage = worker[id].stage /\ v.typed = worker[id].typed
        /\ v.panicked = worker[id].panicked /\ v.child = child
    BY <2>4 DEF Workers
  <2> HIDE DEF v
  <2>7. tmux' \in [Ids -> Panes] /\ \A other \in Ids : Grows(tmux[other], tmux'[other])
    BY <1>1, <2>2, <2>5, DoneAdds
  <2>8. Ran(v, tmux'[id])
    BY <1>1, <2>2, <2>5, <2>6, DoneAdds DEF Ran
  <2> QED
    BY <1>1, <2>1, <2>3, <2>6, <2>7, <2>8, QuietStepTrail
<1>16. ASSUME NEW id \in Ids, Panic(id)
       PROVE  TrailInv'
  <2> DEFINE v == [worker[id] EXCEPT !.stage = "done", !.panicked = TRUE, !.child = "none"]
             rep == <<>>
             s == Sent(worker[id].stage)
  <2>1. /\ Working(worker, id) /\ UNCHANGED <<pending, task, progress, tmux, quit>>
        /\ worker' = [worker EXCEPT ![id] = v]
    BY <1>1, <1>16 DEF Panic, Busy, Working, appVars
  <2>2. worker[id] \in Workers
    BY <1>1
  <2>3. /\ v \in Workers /\ v.stage = "done" /\ v.panicked /\ v.child = "none"
        /\ v.typed = worker[id].typed
    BY <2>2 DEF Workers, WorkerStages
  <2> HIDE DEF v
  <2>4. rep \in Seq(Messages) /\ Len(rep) = 0 /\ progress' = progress \o rep
    BY <1>1, <2>1
  <2>5. s \in 0 .. 4
    BY DEF Sent
  <2> HIDE DEF rep, s
  <2>6. Effects(s, tmux'[id]) => Reports(id, s, v, tmux'[id], rep, s)
    <3>1. s - s = 0
      BY <2>5
    <3> QED
      BY <2>3, <2>4, <2>5, <3>1 DEF Reports
  <2> QED
    BY <1>1, <2>1, <2>3, <2>4, <2>5, <2>6, ReportKeeps DEF s
<1>17. CASE UNCHANGED vars
  BY <1>1, <1>17 DEF vars, appVars, TrailInv
<1> QED
  BY <1>4, <1>5, <1>6, <1>7, <1>8, <1>9, <1>10, <1>11, <1>12, <1>13, <1>14, <1>15, <1>16, <1>17
     DEF Next, Loop, Worker

\* The trail holds at first.
LEMMA InitTrail ==
    ASSUME Init
    PROVE  TrailInv
<1>1. Inv /\ quit = FALSE /\ progress = <<>> /\ task = None /\ pending = NoPending
  BY InitEstablishes DEF Init
<1>2. tmux \in [Ids -> Panes] /\ \A id \in Ids : Ran(worker[id], tmux[id])
  BY DEF Init, Panes, Ran
<1>3. Bound(pending, worker, tmux)
  BY <1>1 DEF Bound, NoPending, Pending
<1>4. Trail(pending, progress, worker, tmux, task)
  BY <1>1 DEF Trail, NoPending, Pending, Conclusions
<1> QED
  BY <1>1, <1>2, <1>3, <1>4 DEF TrailInv

\* The trail holds in every state.
LEMMA TrailHolds == Spec => []TrailInv
<1>1. Init => TrailInv
  BY InitTrail
<1>2. TrailInv /\ [Next]_vars => TrailInv'
  BY StepKeepsTrail
<1> QED
  BY <1>1, <1>2, PTL DEF Spec

-----------------------------------------------------------------------------
(* A pane that is known. The first report of a creation that a worker has   *)
(* the id of is the id, so nothing but the id can end the state "creating", *)
(* and from there on every report that ends the creation leaves it waiting. *)

Kept(id, p, ms) ==
    /\ p.id = id /\ p.state \notin {"none", "error"}
    /\ p.state = "creating" => Len(ms) >= 1 /\ ms[1] = Created(id)
    /\ p.state # "creating" => p.pane = id

KnownInv ==
    /\ TrailInv
    /\ known \subseteq Ids
    /\ ~quit => \A id \in known : Kept(id, pending, progress)

\* Reports that are added behind the first leave it the first.
LEMMA KeptBehind ==
    ASSUME NEW ms \in Seq(Messages), NEW rep \in Seq(Messages), NEW p, NEW id,
           Kept(id, p, ms)
    PROVE  Kept(id, p, ms \o rep)
<1>1. Len(ms) >= 1 => Len(ms \o rep) >= 1 /\ (ms \o rep)[1] = ms[1]
  OBVIOUS
<1> QED
  BY <1>1 DEF Kept

\* Reaping a worker adds at most a report behind the others.
LEMMA KeptReaped ==
    ASSUME TrailInv, NEW ms \in Seq(Messages), NEW p, NEW id, Kept(id, p, ms)
    PROVE  Kept(id, p, ReapedProgress(ms))
<1>1. CASE ReapedProgress(ms) = ms
  BY <1>1
<1>2. CASE ReapedProgress(ms) # ms
  <2> DEFINE m == Outcome("taskFailed", task)
             rep == <<m>>
  <2>1. task \in Ids /\ ReapedProgress(ms) = Append(ms, m)
    BY <1>2 DEF ReapedProgress, TrailInv, Inv, Types
  <2>2. m \in Messages
    BY <2>1, MessagesFit DEF Last
  <2> HIDE DEF m
  <2>3. rep \in Seq(Messages) /\ ReapedProgress(ms) = ms \o rep
    BY <2>1, <2>2
  <2> QED
    BY <2>3, KeptBehind
<1> QED
  BY <1>1, <1>2

\* A report takes a creation whose pane is known on, or leaves it waiting.
LEMMA KeptReduced ==
    ASSUME KnownInv, ~quit, progress # <<>>, ReduceCreationProgress(Head(progress)),
           NEW id \in known
    PROVE  Kept(id, pending', Tail(progress))
<1> DEFINE m == Head(progress)
           state == pending.state
<1>1. /\ pending \in Pendings /\ id \in Ids /\ pending.id = id /\ progress \in Seq(Messages)
      /\ state \in {"creating", "created", "tagging", "sending", "entering", "awaiting"}
      /\ state = "creating" => m = Created(id)
      /\ state # "creating" => pending.pane = id
  BY DEF KnownInv, Kept, TrailInv, Inv, Types, Pendings, States, Conclusions
<1>2. CASE state = "creating"
  <2>1. m = Created(id) /\ pending.id = id /\ ReduceCreationProgress(m)
    BY <1>1, <1>2
  <2> HIDE DEF m
  <2>2. pending' = [pending EXCEPT !.state = "created", !.pane = id]
    BY <1>2, <2>1 DEF ReduceCreationProgress, Created, Message
  <2> QED
    BY <1>1, <2>2 DEF Kept, Pendings
<1>3. CASE state # "creating"
  <2>1. \/ pending' = pending
        \/ \E next \in {"tagging", "sending", "entering"} :
               pending' = [pending EXCEPT !.state = next]
        \/ \E r : pending' = [pending EXCEPT !.state = "awaiting", !.resolution = r]
    <3>1. NextState(state, m.stage) \in {"tagging", "sending", "entering", "none"}
      BY DEF NextState
    <3> HIDE DEF m, state
    <3>2. \A pane, r : FinishCreation(pane, r) =>
             \/ pending' = pending
             \/ pending' = [pending EXCEPT !.state = "awaiting", !.resolution = r]
      BY DEF FinishCreation
    <3> QED
      BY <1>3, <3>1, <3>2 DEF ReduceCreationProgress, m, state
  <2> QED
    BY <1>1, <1>3, <2>1 DEF Kept, Pendings
<1> QED
  BY <1>2, <1>3

\* When a worker reads its pane's id, the id is the first report on the way.
LEMMA ReadingKeeps ==
    ASSUME TrailInv, TrailInv', ~quit, NEW id \in Ids, Working(worker, id),
           pending' = pending, NEW rep \in Seq(Messages), progress' = progress \o rep,
           worker[id].stage = "create" => Len(rep) >= 1 /\ rep[1] = Created(id)
    PROVE  Kept(id, pending', progress')
<1> DEFINE w == worker[id]
<1>1. /\ pending.id = id /\ pending.state \notin Conclusions /\ w \in Workers
      /\ progress \in Seq(Messages) /\ Trail(pending, progress, worker, tmux, task)
  BY DEF TrailInv, Inv, Types, Serving
<1>2. PICK sent \in 0 .. 4 : OnTheWay(pending, progress, w, tmux[id], task, sent)
  BY <1>1 DEF Trail
<1>3. /\ pending.state # "creating" => pending.pane = id
      /\ sent = Sent(w.stage) /\ Len(progress) = sent - Rank(pending.state)
  BY <1>1, <1>2 DEF OnTheWay, Working
<1>4. ASSUME pending.state = "creating"
      PROVE  Len(progress') >= 1 /\ progress'[1] = Created(id)
  <2>1. Rank(pending.state) = 0 /\ Len(progress) = sent
    BY <1>3, <1>4 DEF Rank
  <2>2. CASE sent = 0
    <3>1. w.stage = "create"
      BY <1>1, <1>3, <2>2 DEF Sent, Working, Workers, WorkerStages
    <3>2. progress = <<>>
      BY <1>1, <2>1, <2>2
    <3>3. progress' = rep
      BY <3>2
    <3> QED
      BY <3>1, <3>3
  <2>3. CASE sent # 0
    <3>1. progress[1] = Script(id)[1] /\ Len(progress) >= 1
      BY <1>1, <1>2, <2>1, <2>3 DEF OnTheWay
    <3>2. progress[1] = Created(id)
      BY <3>1 DEF Script
    <3> QED
      BY <1>1, <3>1, <3>2
  <2> QED
    BY <2>2, <2>3
<1> QED
  BY <1>1, <1>3, <1>4 DEF Kept, Conclusions

\* The steps of a worker report behind what is on the way.
LEMMA WorkerKnown ==
    ASSUME KnownInv, TrailInv', NEW id \in Ids,
           RunCommand(id) \/ CommandStopped(id) \/ CommandExits(id)
    PROVE  KnownInv'
<1>1. /\ Working(worker, id) /\ UNCHANGED <<pending, quit>> /\ worker[id] \in Workers
      /\ worker[id].stage \in {"create", "tag", "send", "enter"}
      /\ progress \in Seq(Messages)
  <2>1. Working(worker, id) /\ UNCHANGED <<pending, quit>>
    BY DEF RunCommand, CommandStopped, CommandExits, Busy, Working, appVars
  <2>2. worker[id] \in Workers /\ progress \in Seq(Messages)
    BY DEF KnownInv, TrailInv, Inv, Types
  <2> QED
    BY <2>1, <2>2 DEF Working, Workers, WorkerStages
<1>2. /\ "create" \in StageNames /\ "tag" \in StageNames
      /\ \A stage \in StageNames : /\ TimedOut(stage) \in Resolutions
                                   /\ CommandFailed(stage) \in Resolutions
      /\ TagFailed \in Resolutions /\ Success \in Resolutions
      /\ worker[id].stage \in StageNames
  BY <1>1, ResolutionsFit DEF StageNames
<1>3. Fail(id) => \E rep \in Seq(Messages) : progress' = progress \o rep
  <2>1. \A r \in Resolutions : <<Finished(id, r)>> \in Seq(Messages)
    BY MessagesFit
  <2>2. <<Outcome("createFailed", id)>> \in Seq(Messages)
    BY MessagesFit DEF Last
  <2> QED
    BY <1>2, <2>1, <2>2 DEF Fail, End
<1>4. \A captured \in BOOLEAN : TimeOutStage(id, captured) =>
         \E rep \in Seq(Messages) :
             /\ progress' = progress \o rep
             /\ captured /\ worker[id].stage = "create" => Len(rep) >= 1 /\ rep[1] = Created(id)
  <2>1. <<Created(id), Finished(id, TimedOut("create"))>> \in Seq(Messages)
    BY <1>2, MessagesFit
  <2>2. <<Outcome("timedOut", id)>> \in Seq(Messages)
    BY MessagesFit DEF Last
  <2>3. /\ Len(<<Created(id), Finished(id, TimedOut("create"))>>) >= 1
        /\ <<Created(id), Finished(id, TimedOut("create"))>>[1] = Created(id)
    OBVIOUS
  <2>4. ASSUME NEW captured \in BOOLEAN, TimeOutStage(id, captured)
        PROVE  \E rep \in Seq(Messages) :
                  /\ progress' = progress \o rep
                  /\ captured /\ worker[id].stage = "create" =>
                         Len(rep) >= 1 /\ rep[1] = Created(id)
    <3>1. CASE worker[id].stage = "create" /\ captured
      <4>1. progress' = progress \o <<Created(id), Finished(id, TimedOut("create"))>>
        BY <2>4, <3>1 DEF TimeOutStage, End
      <4> QED
        BY <2>1, <2>3, <4>1
    <3>2. CASE ~(worker[id].stage = "create" /\ captured)
      <4>1. progress' = progress \o <<Outcome("timedOut", id)>>
        BY <2>4, <3>2 DEF TimeOutStage, End
      <4> QED
        BY <2>2, <3>2, <4>1
    <3> QED
      BY <3>1, <3>2
  <2> QED
    BY <2>4
<1>5. Succeed(id) =>
         \E rep \in Seq(Messages) :
             /\ progress' = progress \o rep
             /\ worker[id].stage = "create" => Len(rep) >= 1 /\ rep[1] = Created(id)
  <2>1. ASSUME Succeed(id), worker[id].stage = "enter" \/ (worker[id].stage = "tag" /\ ~worker[id].typed)
        PROVE  progress' = progress \o <<Finished(id, Success)>> /\ worker[id].stage # "create"
    BY <2>1 DEF Succeed, End
  <2>2. <<Finished(id, Success)>> \in Seq(Messages)
    BY <1>2, MessagesFit
  <2>3. ASSUME Succeed(id), ~(worker[id].stage = "enter" \/ (worker[id].stage = "tag" /\ ~worker[id].typed))
        PROVE  \E rep \in Seq(Messages) :
                  /\ progress' = progress \o rep
                  /\ worker[id].stage = "create" => Len(rep) >= 1 /\ rep[1] = Created(id)
    <3> DEFINE next == Stages[StageIndex(worker[id].stage) + 1]
               rep == IF next = "tag" THEN <<Created(id), StageMessage(id, next)>>
                      ELSE <<StageMessage(id, next)>>
    <3>1. progress' = progress \o rep /\ worker[id].stage \in {"create", "tag", "send"}
      BY <1>1, <2>3 DEF Succeed, Advance
    <3>2. /\ worker[id].stage = "create" => next = "tag"
          /\ worker[id].stage = "tag" => next = "send"
          /\ worker[id].stage = "send" => next = "enter"
      <4>1. \E i \in 1 .. 4 : Stages[i] = worker[id].stage
        BY <3>1 DEF Stages
      <4>2. /\ StageIndex(worker[id].stage) \in 1 .. 4
            /\ Stages[StageIndex(worker[id].stage)] = worker[id].stage
        BY <4>1 DEF StageIndex
      <4> QED
        BY <3>1, <4>2 DEF Stages
    <3> HIDE DEF next
    <3>3. next \in StageNames
      BY <3>1, <3>2 DEF StageNames
    <3>4. Created(id) \in Messages /\ StageMessage(id, next) \in Messages
      BY <3>3, MessagesFit
    <3>5. rep \in Seq(Messages) /\ (next = "tag" => Len(rep) >= 1 /\ rep[1] = Created(id))
      BY <3>4
    <3> HIDE DEF rep
    <3> QED
      BY <3>1, <3>2, <3>5
  <2> QED
    BY <2>1, <2>2, <2>3
<1>6. \/ UNCHANGED <<progress, known>>
      \/ known' = known /\ \E rep \in Seq(Messages) : progress' = progress \o rep
      \/ /\ known' = known \cup {id}
         /\ \E rep \in Seq(Messages) :
                /\ progress' = progress \o rep
                /\ worker[id].stage = "create" => Len(rep) >= 1 /\ rep[1] = Created(id)
  <2>1. CASE RunCommand(id)
    BY <1>3, <1>4, <2>1 DEF RunCommand
  <2>2. CASE CommandStopped(id)
    BY <1>4, <2>2 DEF CommandStopped
  <2>3. CASE CommandExits(id)
    BY <1>3, <1>5, <2>3 DEF CommandExits
  <2> QED
    BY <2>1, <2>2, <2>3
<1>7. known' \subseteq Ids
  BY <1>6 DEF KnownInv
<1>8. ASSUME ~quit', NEW other \in known'
      PROVE  Kept(other, pending', progress')
  <2>1. ~quit
    BY <1>1, <1>8
  <2>2. CASE other \in known
    <3>1. Kept(other, pending, progress)
      BY <2>1, <2>2 DEF KnownInv
    <3>2. CASE progress' = progress
      BY <1>1, <3>1, <3>2
    <3>3. ASSUME NEW rep \in Seq(Messages), progress' = progress \o rep
          PROVE  Kept(other, pending', progress')
      BY <1>1, <3>1, <3>3, KeptBehind
    <3> QED
      BY <1>6, <3>2, <3>3
  <2>3. CASE other \notin known
    <3>1. other = id
      BY <1>6, <1>8, <2>3
    <3>2. PICK rep \in Seq(Messages) :
             /\ progress' = progress \o rep
             /\ worker[id].stage = "create" => Len(rep) >= 1 /\ rep[1] = Created(id)
      BY <1>6, <1>8, <2>3
    <3> QED
      BY <1>1, <2>1, <3>1, <3>2, ReadingKeeps DEF KnownInv
  <2> QED
    BY <2>2, <2>3
<1> QED
  BY <1>7, <1>8 DEF KnownInv

\* Every step keeps what is known.
LEMMA StepKeepsKnown ==
    ASSUME KnownInv, [Next]_vars
    PROVE  KnownInv'
<1>1. /\ TrailInv /\ TrailInv' /\ known \subseteq Ids
      /\ progress \in Seq(Messages) /\ pending \in Pendings
  BY StepKeepsTrail DEF KnownInv, TrailInv, Inv, Types
<1>2. ASSUME UNCHANGED <<pending, known, quit>>, progress' = ReapedProgress(progress)
      PROVE  KnownInv'
  <2>1. ASSUME ~quit, NEW id \in known
        PROVE  Kept(id, pending, ReapedProgress(progress))
    BY <1>1, <2>1, KeptReaped DEF KnownInv
  <2> QED
    BY <1>1, <1>2, <2>1 DEF KnownInv
<1>3. ASSUME known' \subseteq known, ~quit => known' = {}
      PROVE  KnownInv' \/ quit' # quit
  BY <1>1, <1>3 DEF KnownInv
<1>4. ~quit /\ pending.state \in {"none", "error"} => known = {}
  BY DEF KnownInv, Kept
<1>5. ASSUME NEW form \in BOOLEAN, OpenModal(form)
      PROVE  KnownInv'
  BY <1>2, <1>5 DEF OpenModal
<1>6. CASE CloseModal
  <2>1. CASE pending' = pending
    BY <1>2, <1>6, <2>1 DEF CloseModal
  <2>2. CASE pending' # pending
    BY <1>1, <1>4, <1>6, <2>2 DEF CloseModal, KnownInv
  <2> QED
    BY <2>1, <2>2
<1>7. CASE Submit
  <2>1. known = {} /\ known' = known /\ quit' = quit
    BY <1>1, <1>4, <1>7 DEF Submit, Begin, TrailInv, Inv, FormIsFree
  <2> QED
    BY <1>1, <2>1 DEF KnownInv
<1>8. CASE AttachHeadless
  <2>1. known = {} /\ known' = known /\ quit' = quit
    BY <1>1, <1>4, <1>8 DEF AttachHeadless, Begin, NoPending, Pending
  <2> QED
    BY <1>1, <2>1 DEF KnownInv
<1>9. CASE AttachRefused
  BY <1>2, <1>9 DEF AttachRefused
<1>10. CASE HandleProgress
  <2>1. /\ ~quit /\ progress # <<>> /\ ReduceCreationProgress(Head(progress))
        /\ progress' = ReapedProgress(Tail(progress)) /\ UNCHANGED <<quit, known>>
        /\ Tail(progress) \in Seq(Messages)
    BY <1>1, <1>10 DEF HandleProgress
  <2>2. ASSUME NEW id \in known
        PROVE  Kept(id, pending', ReapedProgress(Tail(progress)))
    <3> DEFINE p == pending'
               ms == Tail(progress)
    <3>1. Kept(id, p, ms) /\ ms \in Seq(Messages)
      BY <2>1, KeptReduced
    <3> HIDE DEF p, ms
    <3>2. Kept(id, p, ReapedProgress(ms))
      BY <1>1, <3>1, KeptReaped
    <3> QED
      BY <3>2 DEF p, ms
  <2> QED
    BY <1>1, <2>1, <2>2 DEF KnownInv
<1>11. CASE SnapshotOrExpiry
  <2>1. ~quit /\ known' = known \ {pending.id} /\ quit' = quit
    BY <1>11 DEF SnapshotOrExpiry
  <2>2. known' = {}
    BY <2>1 DEF KnownInv, Kept
  <2> QED
    BY <1>1, <2>2 DEF KnownInv
<1>12. CASE Tick
  BY <1>2, <1>12 DEF Tick, appVars
<1>13. CASE Quit
  BY <1>1, <1>13 DEF Quit, KnownInv
<1>14. ASSUME NEW id \in Ids, RunCommand(id) \/ CommandStopped(id) \/ CommandExits(id)
       PROVE  KnownInv'
  BY <1>1, <1>14, WorkerKnown
<1>15. ASSUME NEW id \in Ids, Overdue(id) \/ Panic(id) \/ TmuxRuns(id)
       PROVE  KnownInv'
  <2>1. UNCHANGED <<pending, progress, quit, known>>
    BY <1>15 DEF Overdue, Panic, TmuxRuns, appVars
  <2> QED
    BY <1>1, <2>1 DEF KnownInv
<1>16. CASE UNCHANGED vars
  BY <1>1, <1>16 DEF vars, appVars, KnownInv
<1> QED
  BY <1>5, <1>6, <1>7, <1>8, <1>9, <1>10, <1>11, <1>12, <1>13, <1>14, <1>15, <1>16
     DEF Next, Loop, Worker

\* What is known is kept in every state.
LEMMA KnownHolds == Spec => []KnownInv
<1>1. Init => KnownInv
  <2>1. ASSUME Init
        PROVE  TrailInv
    BY <2>1, InitTrail
  <2> QED
    BY <2>1 DEF Init, KnownInv
<1>2. KnownInv /\ [Next]_vars => KnownInv'
  BY StepKeepsKnown
<1> QED
  BY <1>1, <1>2, PTL DEF Spec

\* A pane whose id a worker read is never lost to the dashboard: its id is on the
\* way, or the creation that it is bound to goes on or awaits the snapshot, and it
\* does await it once the worker is given up and its reports are handled, whether
\* the commands after the create succeed, fail, time out or panic
\* (reduce_creation_progress, reap_finished_creation_task, run_creation).
THEOREM PaneNeverForgotten == Spec => []NoPaneForgotten
<1>1. ASSUME KnownInv
      PROVE  NoPaneForgotten
  <2>1. pending.pane # None => pending.pane = pending.id /\ tmux[pending.id].made
    BY <1>1 DEF KnownInv, TrailInv, Bound
  <2>2. /\ worker \in [Ids -> Workers] /\ pending \in Pendings /\ progress \in Seq(Messages)
        /\ ~quit => Trail(pending, progress, worker, tmux, task)
    BY <1>1 DEF KnownInv, TrailInv, Inv, Types
  <2>3. ASSUME NEW id \in known, ~quit
        PROVE  /\ pending.id = id
               /\ \/ pending.state = "creating" /\ Told(id)
                  \/ /\ pending.state \in {"created", "tagging", "sending", "entering", "awaiting"}
                     /\ pending.pane = id
               /\ task = None /\ progress = <<>> => pending.state = "awaiting"
    <3>1. Kept(id, pending, progress)
      BY <1>1, <2>3 DEF KnownInv
    <3>2. /\ pending.id = id /\ (pending.state # "creating" => pending.pane = id)
          /\ pending.state \in {"creating", "created", "tagging", "sending", "entering", "awaiting"}
      BY <2>2, <3>1 DEF Kept, Pendings, States, Conclusions
    <3>3. pending.state = "creating" => Told(id)
      <4>1. Len(progress) >= 1 => 1 \in 1 .. Len(progress)
        BY <2>2
      <4> QED
        BY <3>1, <4>1 DEF Kept, Told
    <3>4. ASSUME task = None, progress = <<>>
          PROVE  pending.state = "awaiting"
      <4>1. ASSUME pending.state \notin Conclusions
            PROVE  FALSE
        <5>1. pending.id \in Ids
          BY <2>2, <2>3, <4>1 DEF Trail
        <5>2. PICK sent \in 0 .. 4 :
                 OnTheWay(pending, progress, worker[pending.id], tmux[pending.id], task, sent)
          BY <2>2, <2>3, <4>1 DEF Trail
        <5>3. Len(progress) = 0 /\ pending.id # None /\ sent - Rank(pending.state) \in Nat
          BY <3>4, <5>1, <5>2 DEF Ids, None, OnTheWay, Rank
        <5> QED
          BY <3>4, <5>2, <5>3 DEF OnTheWay
      <4> QED
        BY <3>2, <4>1 DEF Conclusions
    <3> QED
      BY <3>2, <3>3, <3>4
  <2> QED
    BY <2>1, <2>3 DEF NoPaneForgotten
<1> QED
  BY <1>1, KnownHolds, PTL

\* How a creation is said to have ended is true of its pane, though the state of
\* the reducer that a time-out is judged by lags behind the worker (finish_creation,
\* pending_timeout_target).
THEOREM ResolutionTrue == Spec => []ResolutionIsTrue
<1>1. TrailInv => ResolutionIsTrue
  BY DEF TrailInv, Bound, IsTrue, ResolutionIsTrue
<1> QED
  BY <1>1, TrailHolds, PTL

===============================================================================
