---------------------------- MODULE DashboardRuntime ----------------------------
(***************************************************************************)
(* The event loop of the dashboard (pane-dash/src/main.rs) and the         *)
(* TransportCoordinator it obeys (transport.rs).                           *)
(*                                                                         *)
(* Connection attempts and snapshots are tasks of their own; their         *)
(* messages reach the loop whenever they are done. The coordinator knows   *)
(* neither tasks nor generations, and the loop repeats in variables of its *)
(* own part of what the coordinator holds: the modes and flags of one must *)
(* agree with the handles and numbers of the other.                        *)
(*                                                                         *)
(* tmux is its list of panes: a version that grows with each change, and   *)
(* whether the pane a creation made and the dashboard's own session are    *)
(* in it. Previews, focus and the keyboard's modes are left out, as they   *)
(* share nothing with this state; so is wrapping at 2^64. One pane is      *)
(* created. MaxVersion bounds the changes of tmux (but for that pane's     *)
(* exit), MaxTickSeq the snapshots that ticks begin.                       *)
(***************************************************************************)
EXTENDS Naturals, Sequences

CONSTANTS MaxVersion, MaxTickSeq

ASSUME RuntimeAssumption == MaxVersion \in Nat /\ MaxTickSeq \in Nat

VARIABLES
    coord,      \* the TransportCoordinator
    run,        \* run_dashboard's generations, sequence numbers, deadline
    attempting, \* generations of connection attempts under way
    live,       \* generations whose control_actor runs
    messages,   \* connection_messages
    tasks,      \* snapshots asked for whose responses were not yet received
    tmux,       \* external: the panes
    announced,  \* external: the version the control client was last told of
    mutating,   \* the loop awaits a command whose effect tmux already shows
    creation,   \* pending_creation and the worker that serves it
    shown,      \* the version of tmux that app.model was built from
    acked,      \* history: the version when the last mutation was recorded
    quit        \* app.should_quit, and on whose account

taskVars == <<attempting, live, messages, tasks>>
externalVars == <<tmux, announced>>
appVars == <<mutating, creation, shown, acked, quit>>
vars == <<coord, run, taskVars, externalVars, appVars>>

None == 0   \* no generation, no sequence number

Coordinators ==
    [mode : {"connecting", "healthy", "degraded"}, attempts : Nat, reconnected : BOOLEAN,
     inFlight : BOOLEAN, followUp : BOOLEAN, debounce : BOOLEAN, malformed : Nat]

Runs ==
    [pending : Nat, active : Nat, nextConn : Nat, deadline : BOOLEAN,
     nextSeq : Nat, inFlight : Nat, stamp : Nat, lastSeq : Nat]

Panes ==
    [version : Nat, pane : {"none", "live", "gone"}, session : BOOLEAN]

\* What a snapshot shows, and whether parse dropped no record of it.
Views == [panes : Panes, complete : BOOLEAN]

Tasks ==
    [seq : Nat, stamp : Nat, conn : Nat,
     status : {"asked", "valid", "failed", "malformed"}, view : Views]

Kinds == {"connected", "failed", "topology", "session", "terminated"}
Messages == [kind : Kinds, gen : Nat]

AtStartup == [version |-> 0, pane |-> "none", session |-> TRUE]
Unseen == [panes |-> AtStartup, complete |-> TRUE]

TypeOK ==
    /\ coord \in Coordinators
    /\ run \in Runs
    /\ attempting \in SUBSET Nat
    /\ live \in SUBSET Nat
    /\ messages \in Seq(Messages)
    /\ tasks \in SUBSET Tasks
    /\ tmux \in Panes
    /\ announced \in Nat
    /\ mutating \in BOOLEAN
    /\ creation \in {"none", "made", "awaiting", "shown", "exited", "unverified"}
    /\ shown \in Nat
    /\ acked \in Nat
    /\ quit \in {"no", "user", "self"}

-----------------------------------------------------------------------------
(* TransportCoordinator: what it becomes and the directive it gives         *)

Give(c, directive) == [coord |-> c, directive |-> directive]

RequestSnapshot(c) ==
    IF c.inFlight
    THEN Give([c EXCEPT !.followUp = TRUE], "none")
    ELSE Give([c EXCEPT !.inFlight = TRUE],
              IF c.mode = "healthy" THEN "channelSnapshot" ELSE "oneShotSnapshot")

TopologyChanged(c) ==
    IF c.mode = "healthy" /\ ~c.debounce
    THEN Give([c EXCEPT !.debounce = TRUE], "startDebounce")
    ELSE Give(c, "none")

DebounceElapsed(c) ==
    IF c.mode = "healthy" /\ c.debounce
    THEN RequestSnapshot([c EXCEPT !.debounce = FALSE])
    ELSE Give(c, "none")

Connected(c) ==
    Give(IF c.mode = "connecting" THEN [c EXCEPT !.mode = "healthy", !.attempts = 0] ELSE c,
         "none")

ConnectionFailed(c) ==
    IF c.mode # "connecting" THEN Give(c, "none")
    ELSE IF c.reconnected \/ c.attempts >= 2 THEN Give([c EXCEPT !.mode = "degraded"], "none")
    ELSE Give([c EXCEPT !.attempts = @ + 1], "connect")

\* A mutant that goes on counting on what the ended channel was asked.
ChannelEndedKeepingState(c) ==
    IF c.mode # "healthy" THEN Give(c, "none")
    ELSE IF c.reconnected THEN Give([c EXCEPT !.mode = "degraded"], "none")
    ELSE Give([c EXCEPT !.mode = "connecting", !.reconnected = TRUE], "connect")

ClearTransientState(c) ==
    [c EXCEPT !.inFlight = FALSE, !.followUp = FALSE, !.debounce = FALSE, !.malformed = 0]

ChannelEnded(c) ==
    LET cleared == ClearTransientState(c) IN
    IF c.mode # "healthy" THEN Give(c, "none")
    ELSE IF c.reconnected THEN Give([cleared EXCEPT !.mode = "degraded"], "none")
    ELSE Give([cleared EXCEPT !.mode = "connecting", !.reconnected = TRUE], "connect")

\* A mutant that takes a requested follow-up for served by what was under way.
SnapshotCompletedOnce(c, status) ==
    Give([c EXCEPT !.inFlight = FALSE, !.followUp = FALSE], "none")

SnapshotCompleted(c, status) ==
    LET retry == status = "malformed" /\ c.mode = "healthy" /\ c.malformed = 0
        ended == [c EXCEPT !.inFlight = FALSE, !.followUp = FALSE,
                           !.malformed = CASE status = "valid" -> 0
                                           [] status = "malformed" -> @ + 1
                                           [] OTHER -> @]
    IN IF ~c.inFlight THEN Give(c, "none")
       ELSE IF c.followUp \/ retry THEN RequestSnapshot(ended)
       ELSE Give(ended, "none")

\* recover_missing_channel_snapshot: completed, and again if that asks for more
MissingChannel(c) == [c EXCEPT !.inFlight = FALSE, !.followUp = FALSE]

-----------------------------------------------------------------------------
(* dispatch_directives                                                      *)

Ask(r, conn) ==
    [seq |-> r.nextSeq + 1, stamp |-> r.stamp, conn |-> conn,
     status |-> "asked", view |-> Unseen]

Asking(r) == [r EXCEPT !.nextSeq = @ + 1, !.inFlight = r.nextSeq + 1]

Connecting(r) == [r EXCEPT !.nextConn = @ + 1, !.pending = r.nextConn + 1, !.active = None]

\* The loop obeys "given" when its own variables are r and the tasks are ts.
\* A control handle is there exactly when a generation is active.
Dispatch(given, r, ts) ==
    LET Obey(c, r2, ts2, atts) ==
            /\ coord' = c
            /\ run' = r2
            /\ tasks' = ts2
            /\ attempting' = atts
        c == given.coord
    IN CASE given.directive = "connect" ->
              Obey(c, Connecting(r), ts, attempting \cup {r.nextConn + 1})
         [] given.directive = "channelSnapshot" /\ r.active = None ->
              Obey(MissingChannel(c), r, ts, attempting)
         [] given.directive = "channelSnapshot" /\ r.active # None ->
              Obey(c, Asking(r), ts \cup {Ask(r, r.active)}, attempting)
         [] given.directive = "oneShotSnapshot" ->
              Obey(c, Asking(r), ts \cup {Ask(r, None)}, attempting)
         [] given.directive = "startDebounce" ->
              Obey(c, [r EXCEPT !.deadline = TRUE], ts, attempting)
         [] OTHER ->
              Obey(c, r, ts, attempting)

-----------------------------------------------------------------------------
(* The loop starts with the first attempt to connect and the startup view.  *)

Init ==
    /\ coord = [mode |-> "connecting", attempts |-> 1, reconnected |-> FALSE,
                inFlight |-> FALSE, followUp |-> FALSE, debounce |-> FALSE, malformed |-> 0]
    /\ run = [pending |-> 1, active |-> None, nextConn |-> 1, deadline |-> FALSE,
              nextSeq |-> 0, inFlight |-> None, stamp |-> 0, lastSeq |-> 0]
    /\ attempting = {1}
    /\ live = {}
    /\ messages = <<>>
    /\ tasks = {}
    /\ tmux = AtStartup
    /\ announced = 0
    /\ mutating = FALSE
    /\ creation = "none"
    /\ shown = 0
    /\ acked = 0
    /\ quit = "no"

-----------------------------------------------------------------------------
(* tmux and its control clients                                             *)

Change(panes) == tmux' = [panes EXCEPT !.version = tmux.version + 1]

MayChange == tmux.version < MaxVersion

TopologyShifts ==
    /\ MayChange
    /\ Change(tmux)
    /\ UNCHANGED <<coord, run, taskVars, announced, appVars>>

CreatedPaneExits ==
    /\ tmux.pane = "live"
    /\ Change([tmux EXCEPT !.pane = "gone"])
    /\ UNCHANGED <<coord, run, taskVars, announced, appVars>>

SessionEnds ==
    /\ tmux.session
    /\ MayChange
    /\ Change([tmux EXCEPT !.session = FALSE])
    /\ UNCHANGED <<coord, run, taskVars, announced, appVars>>

Send(kind, g) == messages' = Append(messages, [kind |-> kind, gen |-> g])

\* spawn_connection_attempt: attached and subscribed, or not, each in two seconds
AttemptSucceeds(g) ==
    /\ g \in attempting
    /\ attempting' = attempting \ {g}
    /\ live' = live \cup {g}
    /\ Send("connected", g)
    /\ announced' = tmux.version
    /\ UNCHANGED <<coord, run, tasks, tmux, appVars>>

AttemptFails(g) ==
    /\ g \in attempting
    /\ attempting' = attempting \ {g}
    /\ Send("failed", g)
    /\ UNCHANGED <<coord, run, live, tasks, externalVars, appVars>>

\* control_actor passes a notification on: of panes or windows changed,
Announce(g) ==
    /\ g \in live
    /\ announced < tmux.version
    /\ announced' = tmux.version
    /\ Send("topology", g)
    /\ UNCHANGED <<coord, run, attempting, live, tasks, tmux, appVars>>

\* of its client moved to another session, its own having ended.
ClientMoves(g) ==
    /\ g \in live
    /\ ~tmux.session
    /\ announced < tmux.version
    /\ announced' = tmux.version
    /\ Send("session", g)
    /\ UNCHANGED <<coord, run, attempting, live, tasks, tmux, appVars>>

\* The channel closes, breaks its protocol or lets a request time out.
ChannelDies(g) ==
    /\ g \in live
    /\ live' = live \ {g}
    /\ Send("terminated", g)
    /\ UNCHANGED <<coord, run, attempting, tasks, externalVars, appVars>>

-----------------------------------------------------------------------------
(* A snapshot's task: list-panes through the channel, or by a process of    *)
(* its own. A channel that ended answers nothing, and only a channel's      *)
(* answer can be malformed. Dropped records matter where something is       *)
(* looked for: the created pane, or a session that ended.                   *)

Answer(t, status, view) ==
    /\ t.status = "asked"
    /\ tasks' = (tasks \ {t}) \cup {[t EXCEPT !.status = status, !.view = view]}
    /\ UNCHANGED <<coord, run, attempting, live, messages, externalVars, appVars>>

SnapshotTaken(t) ==
    /\ t.conn \in live \cup {None}
    /\ \E complete \in {TRUE, tmux.pane = "none" /\ tmux.session} :
          Answer(t, "valid", [panes |-> tmux, complete |-> complete])

SnapshotMalformed(t) ==
    /\ t.conn \in live
    /\ Answer(t, "malformed", Unseen)

SnapshotFails(t) == Answer(t, "failed", Unseen)

-----------------------------------------------------------------------------
(* Branches of the loop's select. None is taken while a command is awaited.  *)

Looping == ~mutating

\* expire_creation_verification, at some tick or snapshot past the deadline
OrExpired(state) == IF state = "awaiting" THEN {state, "unverified"} ELSE {state}

Tick ==
    /\ Looping
    /\ \/ run.nextSeq < MaxTickSeq
       \/ coord.inFlight /\ run.nextSeq = MaxTickSeq
    /\ Dispatch(RequestSnapshot(coord), run, tasks)
    /\ creation' \in OrExpired(creation)
    /\ UNCHANGED <<live, messages, externalVars, mutating, shown, acked, quit>>

DebounceFires ==
    /\ Looping
    /\ run.deadline
    /\ Dispatch(DebounceElapsed(coord), [run EXCEPT !.deadline = FALSE], tasks)
    /\ UNCHANGED <<live, messages, externalVars, appVars>>

\* Mutant: a channel that ended is still to answer.
KeepingInFlight(r) == [r EXCEPT !.active = None, !.deadline = FALSE]

ClearTerminatedConnection(r) == [r EXCEPT !.active = None, !.inFlight = None, !.deadline = FALSE]

Install(r, g) == [r EXCEPT !.pending = None, !.active = g]
GiveUpPending(r) == [r EXCEPT !.pending = None]

IsPending(g) == run.pending = g
IsActive(g) == run.active = g

\* classify_connection_message, and what run_dashboard does with the route
Routed(m) ==
    \/ /\ m.kind = "connected" /\ IsPending(m.gen)
       /\ Dispatch(Connected(coord), Install(run, m.gen), tasks)
    \/ /\ m.kind = "failed" /\ IsPending(m.gen)
       /\ Dispatch(ConnectionFailed(coord), GiveUpPending(run), tasks)
    \/ /\ m.kind = "topology" /\ IsActive(m.gen)
       /\ Dispatch(TopologyChanged(coord), run, tasks)
    \/ /\ m.kind = "terminated" /\ IsActive(m.gen)
       /\ Dispatch(ChannelEnded(coord), ClearTerminatedConnection(run), tasks)
    \/ /\ \/ m.kind = "session"
          \/ m.kind \in {"connected", "failed"} /\ ~IsPending(m.gen)
          \/ m.kind \in {"topology", "terminated"} /\ ~IsActive(m.gen)
       /\ Dispatch(Give(coord, "none"), run, tasks)

MessageArrives ==
    /\ Looping
    /\ messages # <<>>
    /\ messages' = Tail(messages)
    /\ Routed(Head(messages))
    /\ quit' = IF Head(messages).kind = "session" /\ IsActive(Head(messages).gen)
               THEN "self" ELSE quit
    /\ UNCHANGED <<live, externalVars, mutating, creation, shown, acked>>

-----------------------------------------------------------------------------
(* A snapshot's response                                                    *)

\* reconcile_snapshot_presence: what a view says of the created pane, or may
\* leave open where records were dropped
Reconciled(view) ==
    LET verdict == IF view.panes.pane = "live" THEN "shown" ELSE "exited" IN
    IF creation # "awaiting" THEN {creation}
    ELSE IF view.complete THEN {verdict}
    ELSE {verdict, creation}

\* A mutant that looks at the order of the snapshots only.
AcceptsAnyStamp(t) == t.seq > run.lastSeq

\* SnapshotGeneration::accepts
Accepts(t) == t.seq > run.lastSeq /\ t.stamp = run.stamp

\* A mutant for which a record that was dropped is a session that ended.
KeepsListedSession(view) == view.complete /\ view.panes.session

KeepsLaunchSession(view) == ~view.complete \/ view.panes.session

Discard(t) ==
    /\ t.conn \notin {None, run.active} \/ run.inFlight # t.seq
    /\ Dispatch(Give(coord, "none"), run, tasks \ {t})
    /\ UNCHANGED <<creation, shown, quit>>

\* reduce_snapshot; a pane created by attaching is jumped to, which may quit
ApplyView(view) ==
    IF run.active = None /\ ~KeepsLaunchSession(view)
    THEN quit' = "self" /\ UNCHANGED <<creation, shown>>
    ELSE /\ shown' = view.panes.version
         /\ creation' \in UNION {OrExpired(state) : state \in Reconciled(view)}
         /\ quit' \in IF creation # "shown" /\ creation' = "shown" THEN {"no", "user"} ELSE {"no"}

Receive(t) ==
    /\ t.conn \in {None, run.active}
    /\ run.inFlight = t.seq
    /\ Dispatch(SnapshotCompleted(coord, t.status),
                [run EXCEPT !.inFlight = None,
                            !.lastSeq = IF t.seq > @ THEN t.seq ELSE @],
                tasks \ {t})
    /\ IF Accepts(t) /\ t.status = "valid"
       THEN ApplyView(t.view)
       ELSE UNCHANGED <<creation, shown, quit>>

ResponseArrives(t) ==
    /\ Looping
    /\ t.status # "asked"
    /\ Discard(t) \/ Receive(t)
    /\ UNCHANGED <<live, messages, externalVars, mutating, acked>>

-----------------------------------------------------------------------------
(* Mutations: commands a key asked for, and the creation of a pane          *)

\* set_group, send_text or kill_pane: tmux has it, the loop waits for the reply.
CommandLands ==
    /\ Looping
    /\ MayChange
    /\ Change(tmux)
    /\ mutating' = TRUE
    /\ UNCHANGED <<coord, run, taskVars, announced, creation, shown, acked, quit>>

\* process_action_effects of a mutation: record it, then ask for a snapshot
RecordMutation ==
    /\ Dispatch(RequestSnapshot(coord), [run EXCEPT !.stamp = @ + 1], tasks)
    /\ acked' = tmux.version

CommandReplies ==
    /\ mutating
    /\ mutating' = FALSE
    /\ RecordMutation
    /\ UNCHANGED <<live, messages, externalVars, creation, shown, quit>>

\* run_creation: the worker makes the pane. Where it fails to, nothing changes.
PaneCreated ==
    /\ creation = "none"
    /\ MayChange
    /\ creation' = "made"
    /\ Change([tmux EXCEPT !.pane = "live"])
    /\ UNCHANGED <<coord, run, taskVars, announced, mutating, shown, acked, quit>>

\* finish_creation, whatever became of tagging and of the command
CreationFinishes ==
    /\ Looping
    /\ creation = "made"
    /\ creation' = "awaiting"
    /\ RecordMutation
    /\ UNCHANGED <<live, messages, externalVars, mutating, shown, quit>>

-----------------------------------------------------------------------------

Loop ==
    \/ Tick
    \/ DebounceFires
    \/ MessageArrives
    \/ \E t \in tasks : ResponseArrives(t)
    \/ CommandLands
    \/ CommandReplies
    \/ CreationFinishes

Spawned ==
    \/ \E g \in attempting : AttemptSucceeds(g) \/ AttemptFails(g)
    \/ \E g \in live : Announce(g) \/ ClientMoves(g) \/ ChannelDies(g)
    \/ \E t \in tasks : SnapshotTaken(t) \/ SnapshotMalformed(t) \/ SnapshotFails(t)
    \/ PaneCreated

Environment ==
    \/ TopologyShifts
    \/ CreatedPaneExits
    \/ SessionEnds

Next == quit = "no" /\ (Loop \/ Spawned \/ Environment)

Spec == Init /\ [][Next]_vars

\* Tasks run, the select picks among the branches that are ready at random, a
\* response is due in two seconds, and a tmux process ends. Nothing more: not
\* that a connection is made, that a snapshot succeeds, or that a tick comes.
Fairness ==
    /\ WF_vars(quit = "no" /\ MessageArrives)
    /\ WF_vars(quit = "no" /\ DebounceFires)
    /\ WF_vars(quit = "no" /\ CommandReplies)
    /\ WF_vars(quit = "no" /\ \E g \in attempting : AttemptSucceeds(g) \/ AttemptFails(g))
    /\ WF_vars(quit = "no" /\ \E t \in tasks : SnapshotTaken(t) \/ SnapshotMalformed(t) \/ SnapshotFails(t))
    /\ WF_vars(quit = "no" /\ \E t \in tasks : ResponseArrives(t))

FairSpec == Spec /\ Fairness

-----------------------------------------------------------------------------

\* The coordinator thinks a snapshot is under way exactly when the loop waits
\* for one, whose task is there to answer; it thinks the debounce armed exactly
\* when a deadline is set. Were only the coordinator to think so, no snapshot
\* would ever be asked for again; were only the loop to, two would overlap.
FlagsAgree ==
    /\ coord.inFlight <=> run.inFlight # None
    /\ run.inFlight # None => \E t \in tasks : t.seq = run.inFlight /\ t.conn \in {None, run.active}
    /\ coord.debounce <=> run.deadline

\* The coordinator's mode is the connection's: healthy while a generation is
\* active, connecting while one is pending, and so whatever old generations say.
\* Every attempt under way is the pending one: no connection is forgotten.
ModeAgrees ==
    /\ coord.mode = "healthy" <=> run.active # None
    /\ coord.mode = "connecting" <=> run.pending # None
    /\ attempting \subseteq {run.pending}

\* Recording a mutation leaves a snapshot to come that will show it, and a
\* follow-up that was asked for is either begun, with the latest stamp, or still
\* asked for: only a channel that ends takes it along, and ticks go on then.
RefreshFollows ==
    [][/\ run'.stamp # run.stamp =>
             coord'.followUp \/ \E t \in tasks' : t.seq = run'.inFlight /\ t.stamp = run'.stamp
       /\ coord.followUp =>
             \/ coord'.followUp
             \/ run'.active # run.active
             \/ \E t \in tasks' \ tasks : t.seq = run'.inFlight /\ t.stamp = run'.stamp]_vars

\* What is shown is never from before a mutation that was recorded: a snapshot
\* taken while the command ran does not undo it on the screen. Nor does the
\* screen go back from a later state of tmux to an earlier one.
NothingStale ==
    [][shown' # shown => shown' >= acked /\ shown' >= shown]_vars

\* The dashboard says that the pane it created exited only if it did, and
\* selects it only if it was made, however old the snapshot in between is.
VerdictIsTrue ==
    /\ creation = "exited" => tmux.pane = "gone"
    /\ creation = "shown" => tmux.pane # "none"

\* It quits of itself only if its session ended (errors of the terminal or of
\* setting the group end it too and are left out).
QuitsForReason == quit = "self" => ~tmux.session

\* No snapshot stays under way: each is answered or given up.
SnapshotsSettle ==
    \A n \in 1 .. MaxTickSeq + 1 : run.inFlight = n ~> (run.inFlight # n \/ quit # "no")
=============================================================================
