------------------------------ MODULE PaneCreation ------------------------------
(***************************************************************************)
(* The creation of a pane: the worker that gives tmux its commands         *)
(* (pane-dash/src/creation.rs, TmuxExec::run_argv_until of tmux_exec.rs),  *)
(* the task slot of the event loop (main.rs) and the part of the reducer   *)
(* that follows the worker's reports (app.rs).                             *)
(*                                                                         *)
(* A creation is its CreationId, and its pane bears the same number. Texts *)
(* are left out but for whether a command is to be typed; so is the report *)
(* that the first stage begins, which nobody reads.                        *)
(* What a snapshot or the expiry of its wait makes of a pane is in         *)
(* DashboardRuntime; here either ends the creation.                        *)
(*                                                                         *)
(* tmux is external: it runs a command or fails it, may take any time for  *)
(* either, and goes on with what it began when its client is killed.       *)
(* MaxCreations bounds the creations.                                      *)
(***************************************************************************)
EXTENDS Naturals, Sequences

CONSTANT MaxCreations

ASSUME CreationAssumption == MaxCreations \in Nat

Ids == 1..MaxCreations
None == 0

VARIABLES
    pending,    \* pending_creation
    modal,      \* the create form, another modal, or none
    attach,     \* attach_creation_id
    nextId,     \* next_creation_id
    task,       \* creation_task: the creation whose worker is kept
    progress,   \* messages of the workers
    worker,     \* run_creation of each creation
    tmux,       \* external: what was done to the pane of each creation
    quit,       \* the loop was left
    known       \* history: creations whose worker read the id of their pane,
                \* until a snapshot or the expiry of its wait

appVars == <<pending, modal, attach, nextId>>
vars == <<appVars, task, progress, worker, tmux, quit, known>>

\* Messages and states.
Stages == <<"create", "tag", "send", "enter">>
NoResolution == [kind |-> "none", stage |-> "none"]
Success == [kind |-> "success", stage |-> "none"]
TagFailed == [kind |-> "tagFailed", stage |-> "tag"]
CommandFailed(stage) == [kind |-> "commandFailed", stage |-> stage]
TimedOut(stage) == [kind |-> "timedOut", stage |-> stage]

Pending(id, state, pane, resolution) ==
    [id |-> id, state |-> state, pane |-> pane, resolution |-> resolution]
NoPending == Pending(None, "none", None, NoResolution)

Message(kind, id, stage, pane, resolution) ==
    [kind |-> kind, id |-> id, stage |-> stage, pane |-> pane, resolution |-> resolution]
StageMessage(id, stage) == Message("stage", id, stage, id, NoResolution)
Created(id) == Message("created", id, "none", id, NoResolution)
Finished(id, resolution) == Message("finished", id, "none", id, resolution)
Outcome(kind, id) == Message(kind, id, "none", None, NoResolution)

-----------------------------------------------------------------------------
(* The reducer                                                              *)

\* next_creation_stage
NextState(state, stage) ==
    CASE state = "created" /\ stage = "tag" -> "tagging"
      [] state = "tagging" /\ stage = "send" -> "sending"
      [] state = "sending" /\ stage = "enter" -> "entering"
      [] OTHER -> "none"

\* pending_timeout_target: the stage that a state of the creation stands in.
StageOf(state) ==
    CASE state \in {"created", "tagging"} -> "tag"
      [] state = "sending" -> "send"
      [] state = "entering" -> "enter"
      [] OTHER -> "none"

\* The resolutions that finish_creation accepts in each state.
Fits(state, resolution) ==
    \/ state = "created" /\ resolution \in {TimedOut("create"), TimedOut("tag"), TagFailed}
    \/ state = "tagging" /\ resolution \in {Success, TagFailed, TimedOut("tag")}
    \/ state = "sending" /\ resolution \in {CommandFailed("send"), TimedOut("send")}
    \/ state = "entering" /\ resolution \in {Success, CommandFailed("enter"), TimedOut("enter")}

FinishCreation(pane, resolution) ==
    IF Fits(pending.state, resolution) /\ pending.pane = pane
    THEN /\ pending' = [pending EXCEPT !.state = "awaiting", !.resolution = resolution]
         /\ attach' = IF resolution = Success THEN attach ELSE None
         /\ UNCHANGED modal
    ELSE UNCHANGED <<pending, attach, modal>>

\* What ends a creation before its pane is known: the form shows the error,
\* or the creation is forgotten when no form is open.
FailToCreate ==
    IF modal = "submitting"
    THEN /\ pending' = [pending EXCEPT !.state = "error"]
         /\ modal' = "form"
         /\ UNCHANGED attach
    ELSE /\ pending' = NoPending
         /\ attach' = None
         /\ UNCHANGED modal

\* Progress of another creation than the pending one is ignored. Created
\* closes whichever modal is open.
ReduceCreationProgress(m) ==
    LET stage == StageOf(pending.state)
        creating == pending.state = "creating"
        next == NextState(pending.state, m.stage)
    IN  IF m.id # pending.id THEN UNCHANGED <<pending, attach, modal>>
        ELSE CASE m.kind \in {"createFailed", "timedOut", "taskFailed"} /\ creating -> FailToCreate
               [] m.kind = "created" /\ creating ->
                      /\ pending' = [pending EXCEPT !.state = "created", !.pane = m.pane]
                      /\ modal' = "none"
                      /\ UNCHANGED attach
               [] m.kind = "stage" /\ next # "none" /\ m.pane = pending.pane ->
                      /\ pending' = [pending EXCEPT !.state = next]
                      /\ UNCHANGED <<attach, modal>>
               [] m.kind = "finished" -> FinishCreation(m.pane, m.resolution)
               [] m.kind = "timedOut" /\ stage # "none" ->
                      FinishCreation(pending.pane, TimedOut(stage))
               [] m.kind = "taskFailed" /\ stage # "none" ->
                      FinishCreation(pending.pane,
                                     IF stage = "tag" THEN TagFailed ELSE CommandFailed(stage))
               [] OTHER -> UNCHANGED <<pending, attach, modal>>

-----------------------------------------------------------------------------
(* The event loop                                                           *)

\* A worker that ended left its last message before the loop can run.
Ended(id) == worker[id].stage = "done"
Running == {id \in Ids : worker[id].stage \notin {"idle", "done"}}

\* reap_finished_creation_task, first of all in apply_event.
Reaped == IF task # None /\ Ended(task) THEN None ELSE task

\* Mutant: a worker that panicked is not reported.
ReapedProgressSilent(messages) == messages

ReapedProgress(messages) ==
    IF task # None /\ Ended(task) /\ worker[task].panicked
    THEN Append(messages, Outcome("taskFailed", task)) ELSE messages

\* start_creation: the worker it finds is cancelled. Its end is awaited too,
\* which is left out as there is never one (NeverCutsShort).
StartCreation(id, typed) ==
    /\ task' = id
    /\ worker' = [w \in Ids |->
           IF w = id THEN [worker[w] EXCEPT !.stage = "create", !.typed = typed]
           ELSE IF w = Reaped THEN [worker[w] EXCEPT !.cancelled = TRUE]
           ELSE worker[w]]

\* open_create_modal, and any other modal.
OpenModal(form) ==
    /\ ~quit
    /\ modal = "none"
    /\ form => pending = NoPending
    /\ modal' = IF form THEN "form" ELSE "other"
    /\ task' = Reaped /\ progress' = ReapedProgress(progress)
    /\ UNCHANGED <<pending, attach, nextId, worker, tmux, quit, known>>

\* Esc: the error of a creation that failed is forgotten with its form.
CloseModal ==
    /\ ~quit
    /\ modal \in {"form", "other"}
    /\ modal' = "none"
    /\ pending' = IF modal = "form" /\ pending.state = "error" THEN NoPending ELSE pending
    /\ task' = Reaped /\ progress' = ReapedProgress(progress)
    /\ UNCHANGED <<attach, nextId, worker, tmux, quit, known>>

Begin(viaForm, typed) ==
    /\ nextId \in Ids
    /\ nextId' = nextId + 1
    /\ pending' = Pending(nextId, "creating", None, NoResolution)
    /\ attach' = IF viaForm THEN None ELSE nextId
    /\ progress' = ReapedProgress(progress)
    /\ StartCreation(nextId, typed)
    /\ UNCHANGED <<tmux, quit, known>>

\* Enter in the form, when build_request accepts the draft.
Submit ==
    /\ ~quit
    /\ modal = "form"
    /\ modal' = "submitting"
    /\ \E typed \in BOOLEAN : Begin(TRUE, typed)

\* Mutant: another creation may be under way.
AttachWhilePending ==
    /\ ~quit
    /\ modal = "none"
    /\ UNCHANGED modal
    /\ Begin(FALSE, TRUE)

\* Enter on a headless session: what is typed attaches to it.
AttachHeadless ==
    /\ ~quit
    /\ modal = "none" /\ pending = NoPending
    /\ UNCHANGED modal
    /\ Begin(FALSE, TRUE)

\* The same, when attach_create_request is refused: CreateFailed at once.
AttachRefused ==
    /\ ~quit
    /\ modal = "none" /\ pending = NoPending /\ nextId \in Ids
    /\ nextId' = nextId + 1
    /\ task' = Reaped /\ progress' = ReapedProgress(progress)
    /\ UNCHANGED <<pending, modal, attach, worker, tmux, quit, known>>

HandleProgress ==
    /\ ~quit
    /\ progress # <<>>
    /\ ReduceCreationProgress(Head(progress))
    /\ progress' = ReapedProgress(Tail(progress))
    /\ task' = Reaped
    /\ UNCHANGED <<nextId, worker, tmux, quit, known>>

\* A snapshot shows the pane or its absence, or the wait for one expires.
SnapshotOrExpiry ==
    /\ ~quit
    /\ pending.state = "awaiting"
    /\ pending' = NoPending
    /\ attach' = None
    /\ task' = Reaped /\ progress' = ReapedProgress(progress)
    /\ known' = known \ {pending.id}
    /\ UNCHANGED <<modal, nextId, worker, tmux, quit>>

\* Any other event, the tick of every second among them.
Tick ==
    /\ ~quit
    /\ Reaped # task
    /\ task' = Reaped /\ progress' = ReapedProgress(progress)
    /\ UNCHANGED <<appVars, worker, tmux, quit, known>>

\* cleanup_creation_task
Quit ==
    /\ ~quit
    /\ quit' = TRUE
    /\ task' = None
    /\ worker' = IF task = None THEN worker ELSE [worker EXCEPT ![task].cancelled = TRUE]
    /\ UNCHANGED <<appVars, progress, tmux, known>>

-----------------------------------------------------------------------------
(* The worker                                                               *)

StageIndex(stage) == CHOOSE i \in 1..4 : Stages[i] = stage

\* The worker's next stage and the message that announces it.
Advance(id) ==
    LET next == Stages[StageIndex(worker[id].stage) + 1] IN
    /\ worker' = [worker EXCEPT ![id].stage = next, ![id].child = "none"]
    /\ progress' = progress \o (IF next = "tag" THEN <<Created(id), StageMessage(id, next)>>
                                ELSE <<StageMessage(id, next)>>)

End(id, messages) ==
    /\ worker' = [worker EXCEPT ![id].stage = "done", ![id].child = "none"]
    /\ progress' = progress \o messages

\* A stage that succeeded. Without a command, the tag is the last.
Succeed(id) ==
    LET w == worker[id] IN
    IF w.stage = "enter" \/ (w.stage = "tag" /\ ~w.typed)
    THEN End(id, <<Finished(id, Success)>>)
    ELSE Advance(id)

\* Mutant: a tag that fails is not reported.
FailAsCommand(id) ==
    LET stage == worker[id].stage IN
    End(id, IF stage = "create" THEN <<Outcome("createFailed", id)>>
            ELSE IF stage = "tag" THEN <<Finished(id, Success)>>
            ELSE <<Finished(id, CommandFailed(stage))>>)

Fail(id) ==
    LET stage == worker[id].stage IN
    End(id, IF stage = "create" THEN <<Outcome("createFailed", id)>>
            ELSE IF stage = "tag" THEN <<Finished(id, TagFailed)>>
            ELSE <<Finished(id, CommandFailed(stage))>>)

\* Mutant: what a create told before it was killed is dropped.
TimeOutForgetful(id, captured) == End(id, <<Outcome("timedOut", id)>>)

\* A create that timed out may have told its pane's id before it was killed.
TimeOutStage(id, captured) ==
    End(id, IF worker[id].stage = "create" /\ captured
            THEN <<Created(id), Finished(id, TimedOut("create"))>>
            ELSE <<Outcome("timedOut", id)>>)

Busy(id) == worker[id].stage \notin {"idle", "done"}

\* External: the effect of a stage's command on the pane.
Done(id, stage) ==
    CASE stage = "create" -> [tmux EXCEPT ![id].made = TRUE]
      [] stage = "tag" -> [tmux EXCEPT ![id].tagged = TRUE]
      [] stage = "send" -> [tmux EXCEPT ![id].typed = TRUE]
      [] stage = "enter" -> [tmux EXCEPT ![id].entered = TRUE]

\* run_argv_until: cancellation, then the deadline, then the directory (for
\* create) and the spawn, each of which may fail.
RunCommand(id) ==
    /\ Busy(id) /\ worker[id].child = "none"
    /\ IF worker[id].cancelled \/ worker[id].overdue THEN TimeOutStage(id, FALSE)
       ELSE \/ /\ worker' = [worker EXCEPT ![id].child = "running"]
               /\ UNCHANGED progress
            \/ Fail(id)
    /\ UNCHANGED <<appVars, task, tmux, quit, known>>

\* Cancellation wins over the deadline, the deadline over the child's exit: a
\* child that exited before is not asked. Its output is read for a moment; and
\* tmux may yet do what the killed child asked.
CommandStopped(id) ==
    /\ Busy(id) /\ worker[id].child # "none"
    /\ worker[id].cancelled \/ worker[id].overdue
    /\ \E captured \in BOOLEAN :
           /\ captured => ~worker[id].cancelled /\ worker[id].child = "ran"
           /\ TimeOutStage(id, captured)
           /\ known' = IF captured /\ worker[id].stage = "create" THEN known \cup {id} ELSE known
    /\ \/ UNCHANGED tmux
       \/ worker[id].child = "running" /\ tmux' = Done(id, worker[id].stage)
    /\ UNCHANGED <<appVars, task, quit>>

\* The child exits before the deadline. What it did does not count when its
\* output cannot be read, or names no pane after a create.
CommandExits(id) ==
    /\ Busy(id) /\ worker[id].child \in {"ran", "failed"}
    /\ ~worker[id].cancelled /\ ~worker[id].overdue
    /\ \/ worker[id].child = "ran" /\ Succeed(id) /\ known' = known \cup {id}
       \/ Fail(id) /\ UNCHANGED known
    /\ UNCHANGED <<appVars, task, tmux, quit>>

Overdue(id) ==
    /\ Busy(id) /\ ~worker[id].overdue
    /\ worker' = [worker EXCEPT ![id].overdue = TRUE]
    /\ UNCHANGED <<appVars, task, progress, tmux, quit, known>>

Panic(id) ==
    /\ Busy(id)
    /\ worker' = [worker EXCEPT ![id].stage = "done", ![id].panicked = TRUE, ![id].child = "none"]
    /\ UNCHANGED <<appVars, task, progress, tmux, quit, known>>

-----------------------------------------------------------------------------
\* External: tmux does what the running child asks, and says so, or fails it.
TmuxRuns(id) ==
    /\ worker[id].child = "running"
    /\ \/ /\ tmux' = Done(id, worker[id].stage)
          /\ worker' = [worker EXCEPT ![id].child = "ran"]
       \/ worker' = [worker EXCEPT ![id].child = "failed"] /\ UNCHANGED tmux
    /\ UNCHANGED <<appVars, task, progress, quit, known>>

Init ==
    /\ pending = NoPending
    /\ modal = "none"
    /\ attach = None
    /\ nextId = 1
    /\ task = None
    /\ progress = <<>>
    /\ worker = [id \in Ids |-> [stage |-> "idle", child |-> "none", typed |-> FALSE,
                                 cancelled |-> FALSE, overdue |-> FALSE, panicked |-> FALSE]]
    /\ tmux = [id \in Ids |-> [made |-> FALSE, tagged |-> FALSE, typed |-> FALSE,
                               entered |-> FALSE]]
    /\ quit = FALSE
    /\ known = {}

Loop ==
    \/ Submit \/ AttachHeadless \/ AttachRefused
    \/ HandleProgress \/ SnapshotOrExpiry \/ Tick \/ CloseModal \/ Quit
    \/ \E form \in BOOLEAN : OpenModal(form)

Worker(id) ==
    RunCommand(id) \/ CommandStopped(id) \/ CommandExits(id) \/ Overdue(id) \/ Panic(id)

Next == Loop \/ \E id \in Ids : Worker(id) \/ TmuxRuns(id)

Spec == Init /\ [][Next]_vars

\* The tasks are scheduled and the clock runs: the loop takes its messages and
\* ticks, the worker goes on, its deadline comes. tmux may never answer.
FairSpec ==
    /\ Spec
    /\ WF_vars(HandleProgress) /\ WF_vars(Tick)
    /\ \A id \in Ids :
           WF_vars(RunCommand(id) \/ CommandStopped(id) \/ CommandExits(id)) /\ WF_vars(Overdue(id))

-----------------------------------------------------------------------------
Concluded == pending.state \in {"none", "error", "awaiting"}

Told(id) ==
    \E i \in 1..Len(progress) : progress[i] = Created(id)

\* A pane whose id the worker read is never lost to the dashboard. Until the
\* pane is bound its id is on the way, then it stands in a creation that goes on
\* or awaits the snapshot, and once the worker ended and its reports were handled
\* the creation does await the snapshot, with that very pane: neither a form that
\* failed nor a forgotten creation ever stands for a pane that is known.
NoPaneForgotten ==
    /\ pending.pane # None => pending.pane = pending.id /\ tmux[pending.id].made
    /\ ~quit =>
           \A id \in known :
               /\ pending.id = id
               /\ \/ pending.state = "creating" /\ Told(id)
                  \/ /\ pending.state \in {"created", "tagging", "sending", "entering", "awaiting"}
                     /\ pending.pane = id
               /\ task = None /\ progress = <<>> => pending.state = "awaiting"

\* What the reducer relies on when it decides whether an undiscovered pane is
\* kept in view for its own sake: unless the resolution leaves the tag in doubt
\* the pane is tagged, and a success means that all was done.
ResolutionIsTrue ==
    pending.state = "awaiting" =>
        LET t == tmux[pending.id]
            r == pending.resolution
        IN  /\ r \notin {TagFailed, TimedOut("create"), TimedOut("tag")} => t.tagged
            /\ r \in {CommandFailed("enter"), TimedOut("enter")} => t.typed
            /\ r = Success /\ worker[pending.id].typed => t.typed /\ t.entered

\* A creation never starts while another has a worker at work, so that
\* start_creation never cancels a creation the user still waits for.
NeverCutsShort ==
    /\ \A id \in Running, other \in Running : id = other
    /\ ~quit => \A id \in Running : ~worker[id].cancelled /\ pending.id = id

\* A creation does not stay under way: its deadline comes even if tmux never
\* answers, and a worker that panics is noticed by the next event.
CreationConcludes == ~Concluded ~> (Concluded \/ quit)
=============================================================================
