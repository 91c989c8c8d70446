------------------------- MODULE DashboardRuntimeProofs -------------------------
(***************************************************************************)
(* That the loop and its coordinator agree, that nothing stale is shown,   *)
(* that every mutation is followed by a refresh, and that what is          *)
(* concluded from a snapshot is true, whatever the bounds.                 *)
(*                                                                         *)
(* A handler first changes the coordinator and the loop's variables, then  *)
(* Dispatch obeys the directive it was given. Fits says when the two may   *)
(* disagree in between: by exactly what the directive makes up for.        *)
(***************************************************************************)
EXTENDS DashboardRuntime, TLAPS

Directives == {"none", "connect", "channelSnapshot", "oneShotSnapshot", "startDebounce"}

\* The loop waits for the newest snapshot, whose task is there to answer.
Waits(r, ts) ==
    r.inFlight # None =>
        /\ r.inFlight = r.nextSeq
        /\ \E t \in ts : t.seq = r.inFlight /\ t.conn \in {None, r.active}

Flags(c, r, ts) ==
    /\ c.inFlight <=> r.inFlight # None
    /\ Waits(r, ts)
    /\ c.debounce <=> r.deadline
    /\ c.debounce => c.mode = "healthy"

Modes(c, r, atts) ==
    /\ c.mode = "healthy" <=> r.active # None
    /\ c.mode = "connecting" <=> r.pending # None
    /\ atts \subseteq {r.pending} \ {None}

Numbered(r, ts) ==
    /\ r.lastSeq <= r.nextSeq
    /\ \A t \in ts : t.seq # None /\ t.seq <= r.nextSeq /\ t.stamp <= r.stamp
    /\ \A t, u \in ts : t.seq = u.seq => t = u

\* An attempt that has reported is over, and no generation is used twice.
Reported(ms, atts, r) ==
    /\ r.pending <= r.nextConn
    /\ \A i \in 1 .. Len(ms) :
          /\ ms[i].gen # None
          /\ ms[i].gen <= r.nextConn
          /\ ms[i].kind \in {"connected", "failed"} => ms[i].gen \notin atts

Fits(given, r, ts, atts) ==
    LET c == given.coord
        d == given.directive
        debounced == (c.debounce <=> r.deadline) /\ (c.debounce => c.mode = "healthy")
        waiting == (c.inFlight <=> r.inFlight # None) /\ Waits(r, ts)
    IN /\ c \in Coordinators
       /\ d \in Directives
       /\ d = "none" => debounced /\ waiting /\ Modes(c, r, atts)
       /\ d = "connect" =>
             /\ debounced /\ waiting
             /\ c.mode = "connecting" /\ r.active = None /\ atts = {}
       /\ d \in {"channelSnapshot", "oneShotSnapshot"} =>
             debounced /\ c.inFlight /\ r.inFlight = None /\ Modes(c, r, atts)
       /\ d = "channelSnapshot" => c.mode = "healthy"
       /\ d = "startDebounce" =>
             c.debounce /\ c.mode = "healthy" /\ waiting /\ Modes(c, r, atts)

\* What the views of tasks and screen have seen.
Recent ==
    /\ acked <= tmux.version
    /\ shown <= tmux.version
    /\ \A t \in tasks : t.status = "valid" =>
          /\ t.view.panes.version <= tmux.version
          /\ t.stamp = run.stamp => t.view.panes.version >= acked
          /\ t.seq > run.lastSeq => t.view.panes.version >= shown

Agreement ==
    /\ Flags(coord, run, tasks)
    /\ Modes(coord, run, attempting)
    /\ Numbered(run, tasks)
    /\ Reported(messages, attempting, run)
    /\ \A g \in live : g # None /\ g <= run.nextConn

Inv == TypeOK /\ Agreement /\ Recent

\* What the views of the created pane imply of it. One that may be accepted
\* once the creation is over has seen the pane.
PaneTold ==
    /\ creation = "none" <=> tmux.pane = "none"
    /\ creation = "exited" => tmux.pane = "gone"
    /\ \A t \in tasks : t.status = "valid" =>
          /\ t.view.panes.pane = "gone" => tmux.pane = "gone"
          /\ t.view.panes.pane # "none" => tmux.pane # "none"
          /\ creation \notin {"none", "made"} /\ t.stamp = run.stamp => t.view.panes.pane # "none"

\* Whatever makes the dashboard quit of itself tells of a session that ended.
SessionTold ==
    /\ quit = "self" => ~tmux.session
    /\ \A i \in 1 .. Len(messages) : messages[i].kind = "session" => ~tmux.session
    /\ \A t \in tasks : t.status = "valid" /\ ~KeepsLaunchSession(t.view) => ~tmux.session

\* A step's tasks: those there were, and such as are only just asked for.
OnlyAsks == \A t \in tasks' : t \in tasks \/ t.status = "asked"

-----------------------------------------------------------------------------
(* What the coordinator is asked fits what it answers.                      *)

\* A snapshot is begun, or follows the one under way.
LEMMA RequestFits ==
    ASSUME NEW c \in Coordinators, NEW r \in Runs, NEW ts, NEW atts,
           Flags(c, r, ts), Modes(c, r, atts)
    PROVE  Fits(RequestSnapshot(c), r, ts, atts)
BY DEF Fits, RequestSnapshot, Give, Flags, Modes, Coordinators, Directives, Waits

\* A task that was answered leaves; a follow-up or a retry takes its place.
LEMMA CompletedFits ==
    ASSUME NEW c \in Coordinators, NEW r \in Runs, NEW ts, NEW atts, NEW status,
           c.inFlight, r.inFlight = None,
           c.debounce <=> r.deadline, c.debounce => c.mode = "healthy", Modes(c, r, atts)
    PROVE  Fits(SnapshotCompleted(c, status), r, ts, atts)
<1> DEFINE ended == [c EXCEPT !.inFlight = FALSE, !.followUp = FALSE,
                              !.malformed = CASE status = "valid" -> 0
                                              [] status = "malformed" -> @ + 1
                                              [] OTHER -> @]
<1>1. /\ ended \in Coordinators
      /\ ~ended.inFlight /\ ended.debounce = c.debounce /\ ended.mode = c.mode
  <2>1. (CASE status = "valid" -> 0
           [] status = "malformed" -> c.malformed + 1
           [] OTHER -> c.malformed) \in Nat
    BY DEF Coordinators
  <2> QED
    BY <2>1 DEF Coordinators
<1>2. Flags(ended, r, ts) /\ Modes(ended, r, atts)
  BY <1>1 DEF Flags, Modes, Waits
<1>3. Fits(RequestSnapshot(ended), r, ts, atts)
  BY <1>1, <1>2, RequestFits
<1>4. Fits(Give(ended, "none"), r, ts, atts)
  BY <1>1, <1>2 DEF Fits, Give, Flags, Directives
<1>5. SnapshotCompleted(c, status) \in {RequestSnapshot(ended), Give(ended, "none")}
  BY DEF SnapshotCompleted
<1> QED
  BY <1>3, <1>4, <1>5

\* A connection is made: nothing was active before.
LEMMA ConnectedFits ==
    ASSUME NEW c \in Coordinators, NEW r \in Runs, NEW ts, NEW atts, NEW g \in Nat \ {None},
           Flags(c, r, ts), Modes(c, r, atts), r.pending = g, g \notin atts
    PROVE  Install(r, g) \in Runs /\ Fits(Connected(c), Install(r, g), ts, atts)
<1> DEFINE r2 == Install(r, g)
           c2 == [c EXCEPT !.mode = "healthy", !.attempts = 0]
<1>1. c.mode = "connecting" /\ r.active = None /\ atts = {}
  BY DEF Modes
<1>2. /\ r2 \in Runs /\ r2.pending = None /\ r2.active = g
      /\ r2.inFlight = r.inFlight /\ r2.deadline = r.deadline /\ r2.nextSeq = r.nextSeq
  BY DEF Install, Runs, None
<1>3. /\ c2 \in Coordinators /\ c2.mode = "healthy"
      /\ c2.inFlight = c.inFlight /\ c2.debounce = c.debounce
  BY DEF Coordinators
<1>4. Connected(c) = Give(c2, "none")
  BY <1>1 DEF Connected
<1> HIDE DEF r2, c2
<1>5. Flags(c2, r2, ts) /\ Modes(c2, r2, atts)
  BY <1>1, <1>2, <1>3 DEF Flags, Modes, Waits
<1>6. Fits(Give(c2, "none"), r2, ts, atts)
  BY <1>3, <1>5 DEF Fits, Give, Flags, Directives
<1> QED
  BY <1>2, <1>4, <1>6 DEF r2

\* An attempt failed: another is made, or polling has to do.
LEMMA FailedFits ==
    ASSUME NEW c \in Coordinators, NEW r \in Runs, NEW ts, NEW atts, NEW g \in Nat \ {None},
           Flags(c, r, ts), Modes(c, r, atts), r.pending = g, g \notin atts
    PROVE  GiveUpPending(r) \in Runs /\ Fits(ConnectionFailed(c), GiveUpPending(r), ts, atts)
<1> DEFINE r2 == GiveUpPending(r)
           polling == [c EXCEPT !.mode = "degraded"]
           again == [c EXCEPT !.attempts = @ + 1]
<1>1. c.mode = "connecting" /\ r.active = None /\ atts = {} /\ ~c.debounce
  BY DEF Modes, Flags
<1>2. /\ r2 \in Runs /\ r2.pending = None /\ r2.active = None
      /\ r2.inFlight = r.inFlight /\ r2.deadline = r.deadline /\ r2.nextSeq = r.nextSeq
  BY <1>1 DEF GiveUpPending, Runs, None
<1>3. /\ polling \in Coordinators /\ polling.mode = "degraded"
      /\ polling.inFlight = c.inFlight /\ ~polling.debounce
      /\ again \in Coordinators /\ again.mode = "connecting"
      /\ again.inFlight = c.inFlight /\ ~again.debounce
  BY <1>1 DEF Coordinators
<1>4. ConnectionFailed(c) \in {Give(polling, "none"), Give(again, "connect")}
  BY <1>1 DEF ConnectionFailed
<1> HIDE DEF r2, polling, again
<1>5. Flags(polling, r2, ts) /\ Modes(polling, r2, atts)
  BY <1>1, <1>2, <1>3 DEF Flags, Modes, Waits
<1>6. Fits(Give(polling, "none"), r2, ts, atts)
  BY <1>3, <1>5 DEF Fits, Give, Flags, Directives
<1>7. Fits(Give(again, "connect"), r2, ts, atts)
  BY <1>1, <1>2, <1>3 DEF Fits, Give, Flags, Waits, Directives
<1> QED
  BY <1>2, <1>4, <1>6, <1>7 DEF r2

\* The channel ended: once it is replaced, then polling has to do.
LEMMA EndedFits ==
    ASSUME NEW c \in Coordinators, NEW r \in Runs, NEW ts, NEW atts, NEW g \in Nat \ {None},
           Flags(c, r, ts), Modes(c, r, atts), r.active = g
    PROVE  /\ ClearTerminatedConnection(r) \in Runs
           /\ Fits(ChannelEnded(c), ClearTerminatedConnection(r), ts, atts)
<1> DEFINE r2 == ClearTerminatedConnection(r)
           polling == [ClearTransientState(c) EXCEPT !.mode = "degraded"]
           again == [ClearTransientState(c) EXCEPT !.mode = "connecting", !.reconnected = TRUE]
<1>1. c.mode = "healthy" /\ r.pending = None /\ atts = {}
  BY DEF Modes
<1>2. /\ r2 \in Runs /\ r2.pending = r.pending /\ r2.active = None
      /\ r2.inFlight = None /\ ~r2.deadline
  BY DEF ClearTerminatedConnection, Runs, None
<1>3. /\ polling \in Coordinators /\ polling.mode = "degraded"
      /\ ~polling.inFlight /\ ~polling.debounce
      /\ again \in Coordinators /\ again.mode = "connecting"
      /\ ~again.inFlight /\ ~again.debounce
  BY DEF ClearTransientState, Coordinators
<1>4. ChannelEnded(c) \in {Give(polling, "none"), Give(again, "connect")}
  BY <1>1 DEF ChannelEnded
<1> HIDE DEF r2, polling, again
<1>5. Fits(Give(polling, "none"), r2, ts, atts)
  BY <1>1, <1>2, <1>3 DEF Fits, Give, Modes, Waits, Directives
<1>6. Fits(Give(again, "connect"), r2, ts, atts)
  BY <1>1, <1>2, <1>3 DEF Fits, Give, Waits, Directives
<1> QED
  BY <1>2, <1>4, <1>5, <1>6 DEF r2

\* What the loop's variables become when it begins a snapshot or an attempt.
LEMMA AskingKeeps ==
    ASSUME NEW r \in Runs
    PROVE  /\ Asking(r) \in Runs /\ r.nextSeq \in Nat /\ r.lastSeq \in Nat /\ r.stamp \in Nat
           /\ Asking(r).nextSeq = r.nextSeq + 1 /\ Asking(r).inFlight = r.nextSeq + 1
           /\ Asking(r).pending = r.pending /\ Asking(r).active = r.active
           /\ Asking(r).nextConn = r.nextConn /\ Asking(r).deadline = r.deadline
           /\ Asking(r).lastSeq = r.lastSeq /\ Asking(r).stamp = r.stamp
<1>1. r.nextSeq \in Nat /\ r.nextSeq + 1 \in Nat
  BY DEF Runs
<1>2. DOMAIN r = {"pending", "active", "nextConn", "deadline", "nextSeq", "inFlight", "stamp", "lastSeq"}
  BY DEF Runs
<1> QED
  BY <1>1, <1>2 DEF Asking, Runs

\* The same of an attempt to connect, under a number no message bears yet.
LEMMA ConnectingKeeps ==
    ASSUME NEW r \in Runs
    PROVE  /\ Connecting(r) \in Runs /\ r.nextConn \in Nat
           /\ Connecting(r).nextConn = r.nextConn + 1 /\ Connecting(r).pending = r.nextConn + 1
           /\ Connecting(r).active = None /\ Connecting(r).inFlight = r.inFlight
           /\ Connecting(r).deadline = r.deadline /\ Connecting(r).nextSeq = r.nextSeq
           /\ Connecting(r).lastSeq = r.lastSeq /\ Connecting(r).stamp = r.stamp
<1>1. r.nextConn \in Nat /\ r.nextConn + 1 \in Nat /\ None \in Nat
  BY DEF Runs, None
<1>2. DOMAIN r = {"pending", "active", "nextConn", "deadline", "nextSeq", "inFlight", "stamp", "lastSeq"}
  BY DEF Runs
<1> QED
  BY <1>1, <1>2 DEF Connecting, Runs

-----------------------------------------------------------------------------
(* Obeying a directive that fits restores the agreement.                    *)

\* Obeying a directive that fits restores the agreement (dispatch_directives).
LEMMA DispatchAgrees ==
    ASSUME NEW given, NEW r \in Runs, NEW ts \in SUBSET Tasks,
           attempting \in SUBSET Nat,
           Fits(given, r, ts, attempting), Numbered(r, ts),
           Dispatch(given, r, ts)
    PROVE  /\ coord' \in Coordinators /\ run' \in Runs
           /\ tasks' \in SUBSET Tasks /\ attempting' \in SUBSET Nat
           /\ Flags(coord', run', tasks')
           /\ Modes(coord', run', attempting')
           /\ Numbered(run', tasks')
<1> DEFINE c == given.coord
           d == given.directive
<1> USE DEF None
<1>1. c \in Coordinators /\ d \in Directives
  BY DEF Fits
<1>2. CASE d = "none"
  <2>1. coord' = c /\ run' = r /\ tasks' = ts /\ attempting' = attempting
    BY <1>2 DEF Dispatch
  <2> QED
    BY <1>1, <1>2, <2>1 DEF Fits, Flags
<1>3. CASE d = "connect"
  <2>1. /\ coord' = c
        /\ run' = Connecting(r)
        /\ tasks' = ts
        /\ attempting' = attempting \cup {r.nextConn + 1}
    BY <1>3 DEF Dispatch
  <2>2. /\ run' \in Runs /\ run'.pending = r.nextConn + 1 /\ run'.active = None
        /\ run'.inFlight = r.inFlight /\ run'.deadline = r.deadline
        /\ run'.nextSeq = r.nextSeq /\ run'.lastSeq = r.lastSeq /\ run'.stamp = r.stamp
        /\ r.nextConn + 1 \in Nat \ {None}
    BY <2>1, ConnectingKeeps
  <2>3. Flags(coord', run', tasks')
    BY <1>3, <2>1, <2>2 DEF Fits, Flags, Waits
  <2>4. Modes(coord', run', attempting')
    BY <1>3, <2>1, <2>2 DEF Fits, Modes
  <2> QED
    BY <1>1, <2>1, <2>2, <2>3, <2>4 DEF Numbered
<1>4. CASE d \in {"channelSnapshot", "oneShotSnapshot"}
  <2>1. PICK conn \in {None, r.active} :
          /\ coord' = c
          /\ run' = Asking(r)
          /\ tasks' = ts \cup {Ask(r, conn)}
          /\ attempting' = attempting
    <3>1. d = "channelSnapshot" => r.active # None
      BY DEF Fits, Modes
    <3> QED
      BY <1>4, <3>1 DEF Dispatch
  <2>2. /\ run' \in Runs /\ run'.pending = r.pending /\ run'.active = r.active
        /\ run'.inFlight = r.nextSeq + 1 /\ run'.deadline = r.deadline
        /\ run'.nextSeq = r.nextSeq + 1 /\ run'.lastSeq = r.lastSeq /\ run'.stamp = r.stamp
        /\ r.nextSeq \in Nat /\ r.lastSeq \in Nat /\ r.stamp \in Nat
    BY <2>1, AskingKeeps
  <2>3. /\ Ask(r, conn) \in Tasks
        /\ Ask(r, conn).seq = r.nextSeq + 1
        /\ Ask(r, conn).stamp = r.stamp
        /\ Ask(r, conn).conn = conn
    BY DEF Ask, Tasks, Views, Unseen, AtStartup, Panes, Runs
  <2>4. Flags(coord', run', tasks')
    BY <1>4, <2>1, <2>2, <2>3 DEF Fits, Flags, Waits
  <2>5. Modes(coord', run', attempting')
    BY <1>4, <2>1, <2>2 DEF Fits, Modes
  <2>6. \A t \in ts : t.seq \in Nat /\ t.stamp \in Nat
    BY DEF Tasks
  <2>7. Numbered(run', tasks')
    BY <2>1, <2>2, <2>3, <2>6 DEF Numbered
  <2> QED
    BY <1>1, <2>1, <2>2, <2>3, <2>4, <2>5, <2>7
<1>5. CASE d = "startDebounce"
  <2>1. /\ coord' = c /\ run' = [r EXCEPT !.deadline = TRUE]
        /\ tasks' = ts /\ attempting' = attempting
    BY <1>5 DEF Dispatch
  <2>2. /\ run' \in Runs /\ run'.pending = r.pending /\ run'.active = r.active
        /\ run'.inFlight = r.inFlight /\ run'.deadline
        /\ run'.nextSeq = r.nextSeq /\ run'.lastSeq = r.lastSeq /\ run'.stamp = r.stamp
    BY <2>1 DEF Runs
  <2>3. Flags(coord', run', tasks')
    BY <1>5, <2>1, <2>2 DEF Fits, Flags, Waits
  <2>4. Modes(coord', run', attempting')
    BY <1>5, <2>1, <2>2 DEF Fits, Modes
  <2> QED
    BY <1>1, <2>1, <2>2, <2>3, <2>4 DEF Numbered
<1> QED
  BY <1>1, <1>2, <1>3, <1>4, <1>5 DEF Directives

\* What Dispatch leaves as it was, and what it may add.
LEMMA DispatchKeeps ==
    ASSUME NEW given, NEW r \in Runs, NEW ts \in SUBSET Tasks, Dispatch(given, r, ts)
    PROVE  /\ run'.stamp = r.stamp /\ run'.lastSeq = r.lastSeq
           /\ \A t \in tasks' : t \in ts \/ t.status = "asked"
           /\ run'.nextConn >= r.nextConn
           /\ \/ run'.pending = r.pending /\ attempting' = attempting
              \/ /\ run'.pending = r.nextConn + 1 /\ run'.nextConn = r.nextConn + 1
                 /\ attempting' = attempting \cup {r.nextConn + 1}
<1>1. r.nextConn \in Nat
  BY DEF Runs
<1>2. CASE given.directive = "connect"
  BY <1>1, <1>2, ConnectingKeeps DEF Dispatch
<1>3. CASE given.directive \in {"channelSnapshot", "oneShotSnapshot"}
  BY <1>1, <1>3, AskingKeeps DEF Dispatch, Ask
<1>4. CASE given.directive \notin {"connect", "channelSnapshot", "oneShotSnapshot"}
  BY <1>1, <1>4 DEF Dispatch, Runs
<1> QED
  BY <1>2, <1>3, <1>4

-----------------------------------------------------------------------------
(* The steps                                                                *)

\* A branch of the loop that changes its own variables to r and ts, and the
\* messages to ones that were there, agrees again after Dispatch.
LEMMA BranchAgrees ==
    ASSUME TypeOK, Agreement, NEW given, NEW r \in Runs, NEW ts \in SUBSET Tasks,
           Fits(given, r, ts, attempting), Numbered(r, ts), Dispatch(given, r, ts),
           r.nextConn = run.nextConn, r.pending \in {run.pending, None},
           messages' \in IF messages = <<>> THEN {messages} ELSE {messages, Tail(messages)},
           live' = live
    PROVE  /\ coord' \in Coordinators /\ run' \in Runs
           /\ tasks' \in SUBSET Tasks /\ attempting' \in SUBSET Nat
           /\ messages' \in Seq(Messages)
           /\ Agreement'
<1>1. /\ coord' \in Coordinators /\ run' \in Runs
      /\ tasks' \in SUBSET Tasks /\ attempting' \in SUBSET Nat
      /\ Flags(coord', run', tasks')
      /\ Modes(coord', run', attempting')
      /\ Numbered(run', tasks')
  BY DispatchAgrees DEF TypeOK
<1>2. /\ messages' \in Seq(Messages) /\ Len(messages') \in Nat
      /\ \A i \in 1 .. Len(messages') : \E j \in 1 .. Len(messages) : messages'[i] = messages[j]
  <2>1. CASE messages' = messages
    BY <2>1 DEF TypeOK
  <2>2. CASE messages # <<>> /\ messages' = Tail(messages)
    <3>1. /\ messages' \in Seq(Messages) /\ Len(messages') = Len(messages) - 1
          /\ \A i \in 1 .. Len(messages') : messages'[i] = messages[i + 1]
          /\ Len(messages) \in Nat /\ Len(messages) > 0
      BY <2>2 DEF TypeOK
    <3> QED
      BY <3>1
  <2> QED
    BY <2>1, <2>2
<1>3. /\ \A j \in 1 .. Len(messages) : messages[j].gen \in Nat
      /\ run.nextConn \in Nat /\ run'.nextConn \in Nat /\ run.pending \in Nat
  <2>1. \A j \in 1 .. Len(messages) : messages[j] \in Messages
    BY DEF TypeOK
  <2> QED
    BY <1>1, <2>1 DEF TypeOK, Messages, Runs
<1>4. /\ run'.nextConn >= run.nextConn
      /\ \/ run'.pending = r.pending /\ attempting' = attempting
         \/ /\ run'.pending = run.nextConn + 1 /\ run'.nextConn = run.nextConn + 1
            /\ attempting' = attempting \cup {run.nextConn + 1}
  BY DispatchKeeps
<1>5. Reported(messages', attempting', run')
  <2>1. run'.pending <= run'.nextConn
    BY <1>3, <1>4 DEF Agreement, Reported, None
  <2>2. ASSUME NEW j \in 1 .. Len(messages)
        PROVE  /\ messages[j].gen # None /\ messages[j].gen <= run'.nextConn
               /\ messages[j].kind \in {"connected", "failed"} => messages[j].gen \notin attempting'
    <3>1. /\ messages[j].gen # None /\ messages[j].gen <= run.nextConn /\ messages[j].gen \in Nat
          /\ messages[j].kind \in {"connected", "failed"} => messages[j].gen \notin attempting
      BY <1>3 DEF Agreement, Reported
    <3>2. attempting' = attempting \/ attempting' = attempting \cup {run.nextConn + 1}
      BY <1>4
    <3> QED
      BY <1>3, <1>4, <3>1, <3>2
  <2> QED
    BY <1>2, <2>1, <2>2 DEF Reported
<1>6. \A g \in live' : g # None /\ g <= run'.nextConn
  <2>1. ASSUME NEW g \in live PROVE g # None /\ g <= run'.nextConn
    <3>1. g \in Nat /\ g # None /\ g <= run.nextConn
      BY DEF TypeOK, Agreement
    <3> QED
      BY <1>3, <1>4, <3>1
  <2> QED
    BY <2>1
<1> QED
  BY <1>1, <1>2, <1>5, <1>6 DEF Agreement

\* Branches that only ask the coordinator for a snapshot.
LEMMA RequestAgrees ==
    ASSUME TypeOK, Agreement, NEW r \in Runs,
           r = run \/ r = [run EXCEPT !.stamp = @ + 1],
           Dispatch(RequestSnapshot(coord), r, tasks), messages' = messages, live' = live
    PROVE  /\ coord' \in Coordinators /\ run' \in Runs
           /\ tasks' \in SUBSET Tasks /\ attempting' \in SUBSET Nat
           /\ messages' \in Seq(Messages)
           /\ Agreement'
<1>1. /\ r.nextConn = run.nextConn /\ r.pending = run.pending /\ r.active = run.active
      /\ r.inFlight = run.inFlight /\ r.deadline = run.deadline
      /\ r.nextSeq = run.nextSeq /\ r.lastSeq = run.lastSeq
      /\ run.stamp \in Nat /\ r.stamp \in {run.stamp, run.stamp + 1}
  BY DEF TypeOK, Runs
<1>2. Flags(coord, r, tasks) /\ Modes(coord, r, attempting)
  BY <1>1 DEF Agreement, Flags, Modes, Waits
<1>3. Numbered(r, tasks)
  BY <1>1 DEF Agreement, Numbered, TypeOK, Tasks
<1>4. Fits(RequestSnapshot(coord), r, tasks, attempting)
  BY <1>2, RequestFits DEF TypeOK
<1> QED
  BY <1>1, <1>3, <1>4, BranchAgrees DEF TypeOK

\* run_runtime_timer_step keeps the invariant.
LEMMA TickKeeps == Inv /\ Tick => Inv' /\ run'.stamp = run.stamp /\ OnlyAsks
<1> SUFFICES ASSUME Inv, Tick PROVE Inv' /\ run'.stamp = run.stamp /\ OnlyAsks
  OBVIOUS
<1>1. /\ run \in Runs /\ tasks \in SUBSET Tasks
      /\ Dispatch(RequestSnapshot(coord), run, tasks) /\ messages' = messages /\ live' = live
  BY DEF Inv, TypeOK, Tick
<1>2. /\ coord' \in Coordinators /\ run' \in Runs
      /\ tasks' \in SUBSET Tasks /\ attempting' \in SUBSET Nat
      /\ messages' \in Seq(Messages)
      /\ Agreement'
  BY <1>1, RequestAgrees DEF Inv
<1>3. TypeOK'
  BY <1>2 DEF Inv, Tick, TypeOK, OrExpired, externalVars
<1>4. /\ run'.stamp = run.stamp /\ run'.lastSeq = run.lastSeq
      /\ \A t \in tasks' : t \in tasks \/ t.status = "asked"
  BY <1>1, DispatchKeeps
<1>5. Recent'
  BY <1>4 DEF Inv, Tick, Recent, externalVars
<1> QED
  BY <1>2, <1>3, <1>4, <1>5 DEF Inv, OnlyAsks

\* The deadline passes: it is cleared on both sides, and a snapshot begun.
LEMMA DebounceKeeps == Inv /\ DebounceFires => Inv' /\ run'.stamp = run.stamp /\ OnlyAsks
<1> SUFFICES ASSUME Inv, DebounceFires PROVE Inv' /\ run'.stamp = run.stamp /\ OnlyAsks
  OBVIOUS
<1> DEFINE r == [run EXCEPT !.deadline = FALSE]
           c == [coord EXCEPT !.debounce = FALSE]
<1>1. /\ coord \in Coordinators /\ run \in Runs /\ tasks \in SUBSET Tasks
      /\ run.deadline /\ coord.debounce /\ coord.mode = "healthy"
      /\ Dispatch(RequestSnapshot(c), r, tasks) /\ messages' = messages /\ live' = live
  BY DEF Inv, TypeOK, Agreement, Flags, DebounceFires, DebounceElapsed
<1>2. /\ c \in Coordinators /\ c.inFlight = coord.inFlight /\ c.mode = coord.mode /\ ~c.debounce
  BY <1>1 DEF Coordinators
<1>3. /\ r \in Runs /\ ~r.deadline /\ r.nextConn = run.nextConn /\ r.pending = run.pending
      /\ r.active = run.active /\ r.inFlight = run.inFlight /\ r.nextSeq = run.nextSeq
      /\ r.lastSeq = run.lastSeq /\ r.stamp = run.stamp
  BY <1>1 DEF Runs
<1>4. Flags(c, r, tasks) /\ Modes(c, r, attempting) /\ Numbered(r, tasks)
  BY <1>2, <1>3 DEF Inv, Agreement, Flags, Modes, Waits, Numbered
<1> HIDE DEF c, r
<1>5. Fits(RequestSnapshot(c), r, tasks, attempting)
  BY <1>2, <1>3, <1>4, RequestFits
<1>6. /\ coord' \in Coordinators /\ run' \in Runs
      /\ tasks' \in SUBSET Tasks /\ attempting' \in SUBSET Nat
      /\ messages' \in Seq(Messages)
      /\ Agreement'
  BY <1>1, <1>3, <1>4, <1>5, BranchAgrees DEF Inv
<1>7. TypeOK'
  BY <1>6 DEF Inv, DebounceFires, TypeOK, externalVars, appVars
<1>8. /\ run'.stamp = run.stamp /\ run'.lastSeq = run.lastSeq
      /\ \A t \in tasks' : t \in tasks \/ t.status = "asked"
  BY <1>1, <1>3, DispatchKeeps
<1>9. Recent'
  BY <1>8 DEF Inv, DebounceFires, Recent, externalVars, appVars
<1> QED
  BY <1>6, <1>7, <1>8, <1>9 DEF Inv, OnlyAsks

\* What RecordMutation does for a command's reply and for a creation.
LEMMA MutationKeeps ==
    ASSUME Inv, RecordMutation, UNCHANGED <<live, messages, externalVars, shown, quit>>,
           mutating' \in BOOLEAN, creation' \in {creation, "awaiting"}
    PROVE  Inv' /\ run'.stamp = run.stamp + 1 /\ OnlyAsks
<1> DEFINE r == [run EXCEPT !.stamp = @ + 1]
<1>1. /\ run \in Runs /\ tasks \in SUBSET Tasks /\ run.stamp \in Nat
      /\ Dispatch(RequestSnapshot(coord), r, tasks) /\ messages' = messages /\ live' = live
  BY DEF Inv, TypeOK, RecordMutation, Runs
<1>2. r \in Runs /\ r.stamp = run.stamp + 1 /\ r.lastSeq = run.lastSeq
  BY <1>1 DEF Runs
<1>3. /\ coord' \in Coordinators /\ run' \in Runs
      /\ tasks' \in SUBSET Tasks /\ attempting' \in SUBSET Nat
      /\ messages' \in Seq(Messages)
      /\ Agreement'
  BY <1>1, <1>2, RequestAgrees DEF Inv
<1>4. TypeOK'
  BY <1>3 DEF Inv, RecordMutation, TypeOK, externalVars, Panes
<1>5. /\ run'.stamp = run.stamp + 1 /\ run'.lastSeq = run.lastSeq
      /\ \A t \in tasks' : t \in tasks \/ t.status = "asked"
  BY <1>1, <1>2, DispatchKeeps
<1>6. \A t \in tasks : t.stamp \in Nat /\ t.stamp <= run.stamp
  BY DEF Inv, TypeOK, Tasks, Agreement, Numbered
<1>7. Recent'
  BY <1>1, <1>5, <1>6 DEF Inv, RecordMutation, Recent, externalVars, TypeOK, Panes
<1> QED
  BY <1>3, <1>4, <1>5, <1>7 DEF Inv, OnlyAsks

\* A message moves both sides on if its generation is the current one, and
\* neither otherwise (classify_connection_message).
LEMMA MessageKeeps == Inv /\ MessageArrives => Inv' /\ run'.stamp = run.stamp /\ OnlyAsks
<1> SUFFICES ASSUME Inv, MessageArrives PROVE Inv' /\ run'.stamp = run.stamp /\ OnlyAsks
  OBVIOUS
<1> DEFINE m == Head(messages)
<1>1. /\ coord \in Coordinators /\ run \in Runs /\ tasks \in SUBSET Tasks
      /\ Flags(coord, run, tasks) /\ Modes(coord, run, attempting) /\ Numbered(run, tasks)
  BY DEF Inv, TypeOK, Agreement
<1>2. Routed(m) /\ messages # <<>> /\ messages' = Tail(messages) /\ live' = live
  BY DEF MessageArrives
<1>3. /\ m.gen \in Nat \ {None}
      /\ m.kind \in {"connected", "failed"} => m.gen \notin attempting
  <2>1. messages \in Seq(Messages)
    BY DEF Inv, TypeOK
  <2>2. m = messages[1] /\ 1 \in 1 .. Len(messages) /\ messages[1] \in Messages
    BY <1>2, <2>1
  <2> QED
    BY <2>2 DEF Inv, Agreement, Reported, Messages
<1> HIDE DEF m
<1>4. PICK given, r :
         /\ r \in Runs
         /\ Dispatch(given, r, tasks) /\ Fits(given, r, tasks, attempting)
         /\ r.nextConn = run.nextConn /\ r.pending \in {run.pending, None}
         /\ r.nextSeq = run.nextSeq /\ r.lastSeq = run.lastSeq /\ r.stamp = run.stamp
  <2>1. CASE /\ m.kind = "connected" /\ IsPending(m.gen)
             /\ Dispatch(Connected(coord), Install(run, m.gen), tasks)
    <3>1. /\ Install(run, m.gen) \in Runs
          /\ Fits(Connected(coord), Install(run, m.gen), tasks, attempting)
      BY <1>1, <1>3, <2>1, ConnectedFits DEF IsPending
    <3>2. /\ Install(run, m.gen).nextConn = run.nextConn
          /\ Install(run, m.gen).pending = None
          /\ Install(run, m.gen).nextSeq = run.nextSeq
          /\ Install(run, m.gen).lastSeq = run.lastSeq
          /\ Install(run, m.gen).stamp = run.stamp
      BY <1>1 DEF Install, Runs
    <3> QED
      BY <2>1, <3>1, <3>2
  <2>2. CASE /\ m.kind = "failed" /\ IsPending(m.gen)
             /\ Dispatch(ConnectionFailed(coord), GiveUpPending(run), tasks)
    <3>1. /\ GiveUpPending(run) \in Runs
          /\ Fits(ConnectionFailed(coord), GiveUpPending(run), tasks, attempting)
      BY <1>1, <1>3, <2>2, FailedFits DEF IsPending
    <3> QED
      BY <1>1, <2>2, <3>1 DEF GiveUpPending, Runs
  <2>3. CASE /\ m.kind = "topology" /\ IsActive(m.gen)
             /\ Dispatch(TopologyChanged(coord), run, tasks)
    <3>1. Fits(TopologyChanged(coord), run, tasks, attempting)
      BY <1>1 DEF TopologyChanged, Give, Fits, Flags, Modes, Coordinators, Directives
    <3> QED
      BY <1>1, <2>3, <3>1
  <2>4. CASE /\ m.kind = "terminated" /\ IsActive(m.gen)
             /\ Dispatch(ChannelEnded(coord), ClearTerminatedConnection(run), tasks)
    <3>1. /\ ClearTerminatedConnection(run) \in Runs
          /\ Fits(ChannelEnded(coord), ClearTerminatedConnection(run), tasks, attempting)
      BY <1>1, <1>3, <2>4, EndedFits DEF IsActive
    <3>2. /\ ClearTerminatedConnection(run).nextConn = run.nextConn
          /\ ClearTerminatedConnection(run).pending = run.pending
          /\ ClearTerminatedConnection(run).nextSeq = run.nextSeq
          /\ ClearTerminatedConnection(run).lastSeq = run.lastSeq
          /\ ClearTerminatedConnection(run).stamp = run.stamp
      BY <1>1 DEF ClearTerminatedConnection, Runs
    <3> QED
      BY <2>4, <3>1, <3>2
  <2>5. CASE Dispatch(Give(coord, "none"), run, tasks)
    <3>1. Fits(Give(coord, "none"), run, tasks, attempting)
      BY <1>1 DEF Give, Fits, Flags, Directives
    <3> QED
      BY <1>1, <2>5, <3>1
  <2> QED
    BY <1>2, <2>1, <2>2, <2>3, <2>4, <2>5 DEF Routed
<1>5. Numbered(r, tasks)
  BY <1>1, <1>4 DEF Numbered
<1>6. /\ coord' \in Coordinators /\ run' \in Runs
      /\ tasks' \in SUBSET Tasks /\ attempting' \in SUBSET Nat
      /\ messages' \in Seq(Messages)
      /\ Agreement'
  <2>1. messages' \in IF messages = <<>> THEN {messages} ELSE {messages, Tail(messages)}
    BY <1>2
  <2> QED
    BY <1>1, <1>2, <1>4, <1>5, <2>1, BranchAgrees DEF Inv
<1>7. TypeOK'
  BY <1>6 DEF Inv, MessageArrives, TypeOK, externalVars
<1>8. /\ run'.stamp = run.stamp /\ run'.lastSeq = run.lastSeq
      /\ \A t \in tasks' : t \in tasks \/ t.status = "asked"
  BY <1>1, <1>4, DispatchKeeps
<1>9. Recent'
  BY <1>8 DEF Inv, MessageArrives, Recent, externalVars
<1> QED
  BY <1>6, <1>7, <1>8, <1>9 DEF Inv, OnlyAsks

\* A response that is received is of the newest snapshot: of those still to
\* come, none is newer than what is shown.
LEMMA ReceiveKeeps ==
    ASSUME Inv, NEW t \in tasks, t.status # "asked", Receive(t),
           UNCHANGED <<live, messages, externalVars, mutating, acked>>
    PROVE  /\ Inv' /\ (shown' # shown => shown' >= acked /\ shown' >= shown)
           /\ run'.stamp = run.stamp /\ OnlyAsks
<1> DEFINE last == IF t.seq > run.lastSeq THEN t.seq ELSE run.lastSeq
           r == [run EXCEPT !.inFlight = None,
                            !.lastSeq = IF t.seq > @ THEN t.seq ELSE @]
           ts == tasks \ {t}
<1>1. /\ coord \in Coordinators /\ run \in Runs /\ tasks \in SUBSET Tasks
      /\ Flags(coord, run, tasks) /\ Modes(coord, run, attempting) /\ Numbered(run, tasks)
      /\ t \in Tasks
  BY DEF Inv, TypeOK, Agreement
<1>2. /\ run.inFlight = t.seq /\ t.seq # None /\ t.seq = run.nextSeq
      /\ t.seq \in Nat /\ run.lastSeq \in Nat /\ run.nextSeq \in Nat
  BY <1>1 DEF Receive, Numbered, Flags, Waits, Tasks, Runs
<1>3. last \in Nat /\ last = run.nextSeq
  BY <1>1, <1>2 DEF Numbered
<1>4. /\ r \in Runs /\ r.inFlight = None /\ r.lastSeq = last /\ r.nextSeq = run.nextSeq
      /\ r.pending = run.pending /\ r.active = run.active /\ r.nextConn = run.nextConn
      /\ r.deadline = run.deadline /\ r.stamp = run.stamp
  BY <1>1, <1>2, <1>3 DEF Runs, None
<1>5. Dispatch(SnapshotCompleted(coord, t.status), r, ts)
  BY DEF Receive
<1> HIDE DEF last, r
<1>6. Fits(SnapshotCompleted(coord, t.status), r, ts, attempting)
  <2>1. Modes(coord, r, attempting)
    BY <1>1, <1>4 DEF Modes
  <2> QED
    BY <1>1, <1>2, <1>4, <2>1, CompletedFits DEF Flags
<1>7. Numbered(r, ts)
  BY <1>1, <1>2, <1>3, <1>4 DEF Numbered
<1>8. /\ coord' \in Coordinators /\ run' \in Runs
      /\ tasks' \in SUBSET Tasks /\ attempting' \in SUBSET Nat
      /\ messages' \in Seq(Messages)
      /\ Agreement'
  BY <1>1, <1>4, <1>5, <1>6, <1>7, BranchAgrees DEF Inv
<1>9. /\ run'.stamp = run.stamp /\ run'.lastSeq = run.nextSeq
      /\ \A u \in tasks' : u \in ts \/ u.status = "asked"
  BY <1>1, <1>3, <1>4, <1>5, DispatchKeeps
<1>10. \A u \in ts : u.seq \in Nat /\ ~(u.seq > run.nextSeq)
  BY <1>1, <1>2 DEF Numbered, Tasks
<1>11. CASE Accepts(t) /\ t.status = "valid" /\ ApplyView(t.view)
  <2>1. /\ t.view.panes.version \in Nat /\ t.view.panes.version <= tmux.version
        /\ t.view.panes.version >= acked /\ t.view.panes.version >= shown
    BY <1>1, <1>2, <1>11 DEF Inv, Recent, Accepts, Tasks, Views, Panes
  <2>2. shown' \in {shown, t.view.panes.version}
    BY <1>11 DEF ApplyView
  <2>3. /\ creation' \in {"none", "made", "awaiting", "shown", "exited", "unverified"}
        /\ quit' \in {"no", "user", "self"}
    BY <1>11 DEF ApplyView, Reconciled, OrExpired, Inv, TypeOK
  <2>4. TypeOK'
    BY <1>8, <2>1, <2>2, <2>3 DEF Inv, TypeOK, externalVars
  <2>5. Recent'
    BY <1>9, <1>10, <2>1, <2>2 DEF Inv, Recent, externalVars
  <2> QED
    BY <1>8, <1>9, <2>1, <2>2, <2>4, <2>5 DEF Inv, OnlyAsks
<1>12. CASE UNCHANGED <<creation, shown, quit>>
  <2>1. TypeOK'
    BY <1>8, <1>12 DEF Inv, TypeOK, externalVars
  <2>2. Recent'
    BY <1>9, <1>10, <1>12 DEF Inv, Recent, externalVars
  <2> QED
    BY <1>8, <1>9, <1>12, <2>1, <2>2 DEF Inv, OnlyAsks
<1> QED
  BY <1>11, <1>12 DEF Receive

\* A response that is discarded is not the one the loop waits for.
LEMMA DiscardKeeps ==
    ASSUME Inv, NEW t \in tasks, Discard(t),
           UNCHANGED <<live, messages, externalVars, mutating, acked>>
    PROVE  Inv' /\ run'.stamp = run.stamp /\ OnlyAsks
<1> DEFINE ts == tasks \ {t}
<1>1. /\ coord \in Coordinators /\ run \in Runs /\ tasks \in SUBSET Tasks
      /\ Flags(coord, run, tasks) /\ Modes(coord, run, attempting) /\ Numbered(run, tasks)
  BY DEF Inv, TypeOK, Agreement
<1>2. Flags(coord, run, ts) /\ Numbered(run, ts)
  BY <1>1 DEF Flags, Waits, Numbered, Discard
<1>3. Fits(Give(coord, "none"), run, ts, attempting)
  BY <1>1, <1>2 DEF Give, Fits, Flags, Directives
<1>4. Dispatch(Give(coord, "none"), run, ts)
  BY DEF Discard
<1>5. /\ coord' \in Coordinators /\ run' \in Runs
      /\ tasks' \in SUBSET Tasks /\ attempting' \in SUBSET Nat
      /\ messages' \in Seq(Messages)
      /\ Agreement'
  BY <1>1, <1>2, <1>3, <1>4, BranchAgrees DEF Inv
<1>6. TypeOK'
  BY <1>5 DEF Inv, Discard, TypeOK, externalVars
<1>7. /\ run'.stamp = run.stamp /\ run'.lastSeq = run.lastSeq
      /\ \A u \in tasks' : u \in ts \/ u.status = "asked"
  BY <1>1, <1>4, DispatchKeeps
<1>8. Recent'
  BY <1>7 DEF Inv, Discard, Recent, externalVars
<1> QED
  BY <1>5, <1>6, <1>7, <1>8 DEF Inv, OnlyAsks

\* A snapshot is answered with what tmux shows now, or with nothing.
LEMMA AnswerKeeps ==
    ASSUME Inv, NEW t \in tasks, NEW view \in Views,
           NEW status \in {"valid", "failed", "malformed"},
           Answer(t, status, view), status = "valid" => view.panes = tmux
    PROVE  Inv'
<1> DEFINE t2 == [t EXCEPT !.status = status, !.view = view]
<1>1. /\ tasks \in SUBSET Tasks /\ t \in Tasks
      /\ Flags(coord, run, tasks) /\ Numbered(run, tasks)
      /\ UNCHANGED <<coord, run, attempting, live, messages, externalVars, appVars>>
      /\ tasks' = (tasks \ {t}) \cup {t2}
  BY DEF Inv, TypeOK, Agreement, Answer
<1>2. /\ t2 \in Tasks /\ t2.seq = t.seq /\ t2.stamp = t.stamp /\ t2.conn = t.conn
      /\ t2.status = status /\ t2.view = view
  BY <1>1 DEF Tasks
<1> HIDE DEF t2
<1>3. Flags(coord, run, tasks') /\ Numbered(run, tasks')
  BY <1>1, <1>2 DEF Flags, Waits, Numbered
<1>4. TypeOK' /\ Agreement'
  BY <1>1, <1>2, <1>3 DEF Inv, TypeOK, Agreement, externalVars, appVars
<1>5. Recent'
  BY <1>1, <1>2 DEF Inv, TypeOK, Recent, Panes, externalVars, appVars
<1> QED
  BY <1>4, <1>5 DEF Inv

\* A message about a generation is queued.
LEMMA SendKeeps ==
    ASSUME Inv, NEW g \in Nat, NEW kind \in Kinds, Send(kind, g),
           g # None, g <= run.nextConn,
           attempting' \in SUBSET attempting,
           kind \in {"connected", "failed"} => g \notin attempting',
           live' \subseteq live \cup {g}, announced' \in Nat,
           UNCHANGED <<coord, run, tasks, tmux, appVars>>
    PROVE  Inv'
<1>1. messages \in Seq(Messages) /\ [kind |-> kind, gen |-> g] \in Messages
  BY DEF Inv, TypeOK, Messages
<1>2. /\ messages' \in Seq(Messages)
      /\ Len(messages') = Len(messages) + 1 /\ Len(messages) \in Nat
      /\ messages'[Len(messages) + 1] = [kind |-> kind, gen |-> g]
      /\ \A i \in 1 .. Len(messages) : messages'[i] = messages[i]
  BY <1>1 DEF Send
<1>3. Reported(messages', attempting', run)
  BY <1>2 DEF Inv, Agreement, Reported
<1>4. TypeOK' /\ Agreement'
  BY <1>2, <1>3 DEF Inv, TypeOK, Agreement, Modes, appVars
<1>5. Recent'
  BY DEF Inv, Recent, appVars
<1> QED
  BY <1>4, <1>5 DEF Inv

\* tmux changes while nothing else of what is told here does.
LEMMA ChangeKeeps ==
    ASSUME Inv, NEW panes \in Panes, Change(panes), mutating' \in BOOLEAN,
           creation' \in {creation, "made"},
           UNCHANGED <<coord, run, taskVars, announced, shown, acked, quit>>
    PROVE  Inv'
<1>1. tmux'.version = tmux.version + 1 /\ tmux' \in Panes /\ tmux.version \in Nat
  BY DEF Inv, TypeOK, Change, Panes
<1>2. TypeOK' /\ Agreement'
  BY <1>1 DEF Inv, TypeOK, Agreement, taskVars
<1>3. \A t \in tasks : t.view.panes.version \in Nat
  BY DEF Inv, TypeOK, Tasks, Views, Panes
<1>4. Recent'
  BY <1>1, <1>3 DEF Inv, TypeOK, Recent, taskVars
<1> QED
  BY <1>2, <1>4 DEF Inv

\* The loop starts in agreement: one attempt is pending, nothing else goes on.
LEMMA InitEstablishes == Init => Inv
<1> SUFFICES ASSUME Init PROVE Inv
  OBVIOUS
<1>1. TypeOK
  <2>1. coord \in Coordinators
    BY DEF Init, Coordinators
  <2>2. run \in Runs
    BY DEF Init, Runs, None
  <2>3. tmux \in Panes
    BY DEF Init, Panes, AtStartup
  <2>4. /\ messages \in Seq(Messages) /\ attempting \in SUBSET Nat
        /\ live \in SUBSET Nat /\ tasks \in SUBSET Tasks
    BY DEF Init
  <2> QED
    BY <2>1, <2>2, <2>3, <2>4 DEF Init, TypeOK
<1>2. Flags(coord, run, tasks) /\ Modes(coord, run, attempting) /\ Numbered(run, tasks)
  BY DEF Init, Flags, Modes, Waits, Numbered, None
<1>3. Reported(messages, attempting, run) /\ live = {}
  BY DEF Init, Reported
<1>4. Recent
  BY DEF Init, Recent, AtStartup
<1> QED
  BY <1>1, <1>2, <1>3, <1>4 DEF Inv, Agreement

\* Every step keeps the invariant, and shows nothing older than what it must.
LEMMA StepKeeps ==
    ASSUME Inv, [Next]_vars
    PROVE  Inv' /\ (shown' # shown => shown' >= acked /\ shown' >= shown)
<1>1. CASE Tick
  BY <1>1, TickKeeps DEF Tick
<1>2. CASE DebounceFires
  BY <1>2, DebounceKeeps DEF DebounceFires, appVars
<1>3. CASE MessageArrives
  BY <1>3, MessageKeeps DEF MessageArrives
<1>4. ASSUME NEW t \in tasks, ResponseArrives(t)
      PROVE  Inv' /\ (shown' # shown => shown' >= acked /\ shown' >= shown)
  <2>1. CASE Discard(t)
    BY <1>4, <2>1, DiscardKeeps DEF ResponseArrives, Discard
  <2>2. CASE Receive(t)
    BY <1>4, <2>2, ReceiveKeeps DEF ResponseArrives
  <2> QED
    BY <1>4, <2>1, <2>2 DEF ResponseArrives
<1>5. CASE CommandLands
  BY <1>5, ChangeKeeps DEF CommandLands, Inv, TypeOK
<1>6. CASE CommandReplies
  BY <1>6, MutationKeeps DEF CommandReplies
<1>7. CASE CreationFinishes
  <2>1. mutating' \in BOOLEAN
    BY <1>7 DEF CreationFinishes, Inv, TypeOK
  <2> QED
    BY <1>7, <2>1, MutationKeeps DEF CreationFinishes
<1>8. ASSUME NEW g \in attempting, AttemptSucceeds(g) \/ AttemptFails(g)
      PROVE  Inv' /\ shown' = shown
  <2>1. g \in Nat /\ g # None /\ g <= run.nextConn
    BY DEF Inv, TypeOK, Agreement, Modes, Reported
  <2>2. CASE AttemptSucceeds(g)
    BY <2>1, <2>2, SendKeeps DEF AttemptSucceeds, Kinds, appVars, Inv, TypeOK, Panes
  <2>3. CASE AttemptFails(g)
    BY <2>1, <2>3, SendKeeps DEF AttemptFails, Kinds, externalVars, appVars, Inv, TypeOK
  <2> QED
    BY <1>8, <2>2, <2>3
<1>9. ASSUME NEW g \in live, Announce(g) \/ ClientMoves(g) \/ ChannelDies(g)
      PROVE  Inv' /\ shown' = shown
  <2>1. g \in Nat /\ g # None /\ g <= run.nextConn
    BY DEF Inv, TypeOK, Agreement
  <2>2. CASE Announce(g)
    BY <2>1, <2>2, SendKeeps DEF Announce, Kinds, appVars, Inv, TypeOK, Panes
  <2>3. CASE ClientMoves(g)
    BY <2>1, <2>3, SendKeeps DEF ClientMoves, Kinds, appVars, Inv, TypeOK, Panes
  <2>4. CASE ChannelDies(g)
    BY <2>1, <2>4, SendKeeps DEF ChannelDies, Kinds, externalVars, appVars, Inv, TypeOK
  <2> QED
    BY <1>9, <2>2, <2>3, <2>4
<1>10. ASSUME NEW t \in tasks, SnapshotTaken(t) \/ SnapshotMalformed(t) \/ SnapshotFails(t)
       PROVE  Inv' /\ shown' = shown
  <2>1. /\ Unseen \in Views
        /\ \A complete \in BOOLEAN : [panes |-> tmux, complete |-> complete] \in Views
    BY DEF Views, Unseen, AtStartup, Panes, Inv, TypeOK
  <2>2. CASE SnapshotTaken(t)
    <3>1. PICK complete \in BOOLEAN : Answer(t, "valid", [panes |-> tmux, complete |-> complete])
      BY <2>2 DEF SnapshotTaken
    <3>2. Inv'
      BY <2>1, <3>1, AnswerKeeps
    <3> QED
      BY <3>1, <3>2 DEF Answer, appVars
  <2>3. CASE SnapshotMalformed(t)
    BY <2>1, <2>3, AnswerKeeps DEF SnapshotMalformed, Answer, appVars
  <2>4. CASE SnapshotFails(t)
    BY <2>1, <2>4, AnswerKeeps DEF SnapshotFails, Answer, appVars
  <2> QED
    BY <1>10, <2>2, <2>3, <2>4
<1>11. CASE TopologyShifts \/ CreatedPaneExits \/ SessionEnds \/ PaneCreated
  <2>1. /\ tmux \in Panes
        /\ [tmux EXCEPT !.pane = "gone"] \in Panes
        /\ [tmux EXCEPT !.pane = "live"] \in Panes
        /\ [tmux EXCEPT !.session = FALSE] \in Panes
        /\ mutating \in BOOLEAN
    BY DEF Inv, TypeOK, Panes
  <2>2. CASE TopologyShifts
    BY <2>1, <2>2, ChangeKeeps DEF TopologyShifts, appVars
  <2>3. CASE CreatedPaneExits
    BY <2>1, <2>3, ChangeKeeps DEF CreatedPaneExits, appVars
  <2>4. CASE SessionEnds
    BY <2>1, <2>4, ChangeKeeps DEF SessionEnds, appVars
  <2>5. CASE PaneCreated
    BY <2>1, <2>5, ChangeKeeps DEF PaneCreated
  <2> QED
    BY <1>11, <2>2, <2>3, <2>4, <2>5
<1>12. CASE UNCHANGED vars
  BY <1>12 DEF vars, taskVars, externalVars, appVars, Inv, TypeOK, Agreement, Recent
<1>13. CASE Loop
  BY <1>1, <1>2, <1>3, <1>4, <1>5, <1>6, <1>7, <1>13 DEF Loop
<1>14. CASE Spawned
  <2>1. CASE PaneCreated
    BY <1>11, <2>1
  <2>2. CASE \E g \in attempting : AttemptSucceeds(g) \/ AttemptFails(g)
    BY <1>8, <2>2
  <2>3. CASE \E g \in live : Announce(g) \/ ClientMoves(g) \/ ChannelDies(g)
    BY <1>9, <2>3
  <2>4. CASE \E t \in tasks : SnapshotTaken(t) \/ SnapshotMalformed(t) \/ SnapshotFails(t)
    BY <1>10, <2>4
  <2> QED
    BY <1>14, <2>1, <2>2, <2>3, <2>4 DEF Spawned
<1> QED
  BY <1>11, <1>12, <1>13, <1>14 DEF Next, Environment

\* The invariant that the theorems below rest on.
THEOREM InvHolds == Spec => []Inv
<1>1. Inv /\ [Next]_vars => Inv'
  BY StepKeeps
<1> QED
  BY <1>1, InitEstablishes, PTL DEF Spec

\* run_dashboard's variables and the coordinator's keep their types.
THEOREM TypeCorrect == Spec => []TypeOK
BY InvHolds, PTL DEF Inv

\* The coordinator and the loop agree on what is under way, so that neither
\* waits for a snapshot or a deadline the other does not know of (transport.rs,
\* main.rs: SnapshotInFlight, debounce_deadline).
THEOREM FlagsAlwaysAgree == Spec => []FlagsAgree
<1>1. Inv => FlagsAgree
  BY DEF Inv, Agreement, Flags, Waits, FlagsAgree
<1> QED
  BY <1>1, InvHolds, PTL

\* The coordinator's mode is that of the connection, in every order in which
\* attempts and channels of whatever generation report.
THEOREM ModeAlwaysAgrees == Spec => []ModeAgrees
<1>1. Inv => ModeAgrees
  BY DEF Inv, Agreement, Modes, ModeAgrees
<1> QED
  BY <1>1, InvHolds, PTL

\* No snapshot from before a recorded mutation is applied after it, and none
\* older than the one shown (SnapshotGeneration).
THEOREM NeverStale == Spec => NothingStale
<1>1. Inv /\ [Next]_vars => [shown' # shown => shown' >= acked /\ shown' >= shown]_vars
  BY StepKeeps
<1> QED
  BY <1>1, InvHolds, PTL DEF Spec, NothingStale
-----------------------------------------------------------------------------
(* A refresh that was asked for                                             *)

\* A snapshot is begun with the latest stamp, or still asked for.
Refreshing ==
    \/ coord'.followUp
    \/ \E t \in tasks' \ tasks : t.seq = run'.inFlight /\ t.stamp = run'.stamp

\* Asking the coordinator for a snapshot leaves one to come, whoever asks.
LEMMA RequestRefreshes ==
    ASSUME NEW c \in Coordinators, NEW r \in Runs, NEW ts \in SUBSET Tasks,
           c.mode = "healthy" => r.active # None, \A u \in tasks : u.seq <= r.nextSeq,
           Dispatch(RequestSnapshot(c), r, ts)
    PROVE  Refreshing
<1>1. CASE c.inFlight
  <2>1. coord' = [c EXCEPT !.followUp = TRUE]
    BY <1>1 DEF RequestSnapshot, Give, Dispatch
  <2> QED
    BY <2>1 DEF Refreshing, Coordinators
<1>2. CASE ~c.inFlight
  <2>1. PICK conn \in {None, r.active} : run' = Asking(r) /\ tasks' = ts \cup {Ask(r, conn)}
    BY <1>2 DEF RequestSnapshot, Give, Dispatch
  <2>2. run'.inFlight = r.nextSeq + 1 /\ run'.stamp = r.stamp /\ r.nextSeq \in Nat
    BY <2>1, AskingKeeps
  <2>3. Ask(r, conn).seq = r.nextSeq + 1 /\ Ask(r, conn).stamp = r.stamp
    BY DEF Ask
  <2>4. Ask(r, conn) \notin tasks
    BY <2>2, <2>3
  <2> QED
    BY <2>1, <2>2, <2>3, <2>4 DEF Refreshing
<1> QED
  BY <1>1, <1>2

\* A message leaves a follow-up asked for, but that of a channel that ended.
LEMMA MessageRefreshes ==
    ASSUME Inv, MessageArrives, coord.followUp
    PROVE  coord'.followUp \/ run'.active # run.active
<1> DEFINE m == Head(messages)
<1>1. m.gen # None /\ Routed(m) /\ coord \in Coordinators /\ run \in Runs
  <2>1. messages # <<>> /\ messages \in Seq(Messages)
    BY DEF MessageArrives, Inv, TypeOK
  <2>2. m = messages[1] /\ 1 \in 1 .. Len(messages)
    BY <2>1
  <2> QED
    BY <2>2 DEF MessageArrives, Inv, TypeOK, Agreement, Reported
<1> HIDE DEF m
<1>2. CASE Dispatch(Connected(coord), Install(run, m.gen), tasks)
  BY <1>1, <1>2 DEF Connected, Give, Dispatch, Coordinators
<1>3. CASE Dispatch(ConnectionFailed(coord), GiveUpPending(run), tasks)
  BY <1>1, <1>3 DEF ConnectionFailed, Give, Dispatch, Coordinators
<1>4. CASE Dispatch(TopologyChanged(coord), run, tasks)
  BY <1>1, <1>4 DEF TopologyChanged, Give, Dispatch, Coordinators
<1>5. CASE IsActive(m.gen) /\ Dispatch(ChannelEnded(coord), ClearTerminatedConnection(run), tasks)
  <2>1. /\ ClearTerminatedConnection(run) \in Runs
        /\ ClearTerminatedConnection(run).active = None
    BY <1>1 DEF ClearTerminatedConnection, Runs, None
  <2>2. ChannelEnded(coord).directive \in {"none", "connect"}
    BY DEF ChannelEnded, Give
  <2>3. run' \in {ClearTerminatedConnection(run), Connecting(ClearTerminatedConnection(run))}
    BY <1>5, <2>2 DEF Dispatch
  <2>4. run'.active = None
    BY <2>1, <2>3, ConnectingKeeps
  <2> QED
    BY <1>1, <1>5, <2>4 DEF IsActive
<1>6. CASE Dispatch(Give(coord, "none"), run, tasks)
  BY <1>6 DEF Give, Dispatch
<1> QED
  BY <1>1, <1>2, <1>3, <1>4, <1>5, <1>6 DEF Routed

\* A response that is received makes room for the follow-up that was asked for.
LEMMA ReceiveRefreshes ==
    ASSUME Inv, NEW t \in tasks, Receive(t), coord.followUp
    PROVE  Refreshing
<1> DEFINE r == [run EXCEPT !.inFlight = None,
                            !.lastSeq = IF t.seq > @ THEN t.seq ELSE @]
           ended == [coord EXCEPT !.inFlight = FALSE, !.followUp = FALSE,
                                  !.malformed = CASE t.status = "valid" -> 0
                                                  [] t.status = "malformed" -> @ + 1
                                                  [] OTHER -> @]
<1>1. /\ coord \in Coordinators /\ run \in Runs /\ tasks \in SUBSET Tasks /\ t \in Tasks
      /\ Flags(coord, run, tasks) /\ Modes(coord, run, attempting) /\ Numbered(run, tasks)
  BY DEF Inv, TypeOK, Agreement
<1>2. coord.inFlight
  BY <1>1 DEF Receive, Flags, Numbered
<1>3. SnapshotCompleted(coord, t.status) = RequestSnapshot(ended)
  BY <1>2 DEF SnapshotCompleted
<1>4. ended \in Coordinators /\ ended.mode = coord.mode
  <2>1. (CASE t.status = "valid" -> 0
           [] t.status = "malformed" -> coord.malformed + 1
           [] OTHER -> coord.malformed) \in Nat
    BY <1>1 DEF Coordinators
  <2> QED
    BY <1>1, <2>1 DEF Coordinators
<1>5. r \in Runs /\ r.active = run.active /\ r.nextSeq = run.nextSeq
  <2>1. (IF t.seq > run.lastSeq THEN t.seq ELSE run.lastSeq) \in Nat /\ None \in Nat
    BY <1>1 DEF Tasks, Runs, None
  <2> QED
    BY <1>1, <2>1 DEF Runs
<1>6. Dispatch(RequestSnapshot(ended), r, tasks \ {t})
  BY <1>3 DEF Receive
<1> HIDE DEF r, ended
<1>7. (ended.mode = "healthy" => r.active # None) /\ \A u \in tasks : u.seq <= r.nextSeq
  BY <1>1, <1>4, <1>5 DEF Modes, Numbered
<1> QED
  BY <1>1, <1>4, <1>5, <1>6, <1>7, RequestRefreshes

\* Recording a mutation, a tick and the debounce ask; whoever else takes a step
\* leaves what was asked for, or answers it.
LEMMA StepRefreshes ==
    ASSUME Inv, [Next]_vars
    PROVE  /\ run'.stamp # run.stamp => Refreshing
           /\ coord.followUp => Refreshing \/ run'.active # run.active
<1>1. /\ coord \in Coordinators /\ run \in Runs /\ tasks \in SUBSET Tasks
      /\ Flags(coord, run, tasks) /\ Modes(coord, run, attempting) /\ Numbered(run, tasks)
      /\ coord.mode = "healthy" => run.active # None
      /\ \A u \in tasks : u.seq <= run.nextSeq
  BY DEF Inv, TypeOK, Agreement, Modes, Numbered
<1>2. CASE Tick
  BY <1>1, <1>2, RequestRefreshes DEF Tick
<1>3. CASE DebounceFires
  <2> DEFINE r == [run EXCEPT !.deadline = FALSE]
             c == [coord EXCEPT !.debounce = FALSE]
  <2>1. Dispatch(RequestSnapshot(c), r, tasks)
    BY <1>1, <1>3 DEF DebounceFires, DebounceElapsed, Flags
  <2>2. c \in Coordinators /\ c.mode = coord.mode
    BY <1>1 DEF Coordinators
  <2>3. r \in Runs /\ r.active = run.active /\ r.nextSeq = run.nextSeq
    BY <1>1 DEF Runs
  <2> HIDE DEF r, c
  <2> QED
    BY <1>1, <2>1, <2>2, <2>3, RequestRefreshes
<1>4. CASE MessageArrives
  BY <1>4, MessageKeeps, MessageRefreshes DEF Refreshing
<1>5. ASSUME NEW t \in tasks, ResponseArrives(t)
      PROVE  /\ run'.stamp = run.stamp
             /\ coord.followUp => Refreshing
  <2>1. CASE Discard(t)
    <3>1. run'.stamp = run.stamp
      BY <1>5, <2>1, DiscardKeeps DEF ResponseArrives
    <3>2. coord' = coord
      BY <2>1 DEF Discard, Give, Dispatch
    <3> QED
      BY <3>1, <3>2 DEF Refreshing
  <2>2. CASE Receive(t)
    BY <1>5, <2>2, ReceiveKeeps, ReceiveRefreshes DEF ResponseArrives
  <2> QED
    BY <1>5, <2>1, <2>2 DEF ResponseArrives
<1>6. CASE RecordMutation
  <2> DEFINE r == [run EXCEPT !.stamp = @ + 1]
  <2>1. Dispatch(RequestSnapshot(coord), r, tasks)
    BY <1>6 DEF RecordMutation
  <2>2. r \in Runs /\ r.active = run.active /\ r.nextSeq = run.nextSeq
    BY <1>1 DEF Runs
  <2> HIDE DEF r
  <2> QED
    BY <1>1, <2>1, <2>2, RequestRefreshes
<1>7. CASE UNCHANGED <<coord, run>>
  BY <1>7 DEF Refreshing
<1>8. CASE Loop
  BY <1>2, <1>3, <1>4, <1>5, <1>6, <1>7, <1>8
     DEF Loop, CommandLands, CommandReplies, CreationFinishes
<1>9. CASE Spawned \/ Environment \/ UNCHANGED vars
  BY <1>7, <1>9
     DEF Spawned, Environment, vars, AttemptSucceeds, AttemptFails, Announce, ClientMoves,
         ChannelDies, SnapshotTaken, SnapshotMalformed, SnapshotFails, Answer, PaneCreated,
         TopologyShifts, CreatedPaneExits, SessionEnds
<1> QED
  BY <1>8, <1>9 DEF Next

\* A recorded mutation leaves a snapshot to come that shows it, and no follow-up
\* that was asked for is lost but with the channel (transport.rs: follow_up_snapshot).
THEOREM RefreshAlwaysFollows == Spec => RefreshFollows
<1> DEFINE A == /\ run'.stamp # run.stamp =>
                     coord'.followUp \/ \E t \in tasks' : t.seq = run'.inFlight /\ t.stamp = run'.stamp
                /\ coord.followUp =>
                     \/ coord'.followUp
                     \/ run'.active # run.active
                     \/ \E t \in tasks' \ tasks : t.seq = run'.inFlight /\ t.stamp = run'.stamp
<1>1. Inv /\ [Next]_vars => [A]_vars
  BY StepRefreshes DEF Refreshing
<1> QED
  BY <1>1, InvHolds, PTL DEF Spec, RefreshFollows

-----------------------------------------------------------------------------
(* What the dashboard concludes from views and messages                     *)

\* The created pane is made once and exits once, so that what a view says of it
\* stays true. A step that goes on with the creation leaves only views behind
\* that may not be accepted.
LEMMA PaneToldStays ==
    ASSUME Inv, PaneTold, OnlyAsks,
           \/ tmux'.pane = tmux.pane
           \/ tmux.pane = "live" /\ tmux'.pane = "gone",
           run'.stamp \in {run.stamp, run.stamp + 1},
           \/ creation' \in OrExpired(creation)
           \/ creation = "made" /\ creation' = "awaiting" /\ run'.stamp # run.stamp
    PROVE  PaneTold'
<1>1. \A t \in tasks : t.stamp \in Nat /\ t.stamp <= run.stamp /\ run.stamp \in Nat
  BY DEF Inv, TypeOK, Tasks, Runs, Agreement, Numbered
<1>2. creation' = "none" <=> tmux'.pane = "none"
  BY DEF PaneTold, OrExpired
<1>3. creation' = "exited" => tmux'.pane = "gone"
  BY DEF PaneTold, OrExpired
<1>4. ASSUME NEW t \in tasks', t.status = "valid"
      PROVE  /\ t.view.panes.pane = "gone" => tmux'.pane = "gone"
             /\ t.view.panes.pane # "none" => tmux'.pane # "none"
             /\ creation' \notin {"none", "made"} /\ t.stamp = run'.stamp =>
                  t.view.panes.pane # "none"
  <2>1. t \in tasks
    BY <1>4 DEF OnlyAsks
  <2>2. t.stamp = run'.stamp => run'.stamp = run.stamp
    BY <1>1, <2>1
  <2> QED
    BY <1>4, <2>1, <2>2 DEF PaneTold, OrExpired
<1> QED
  BY <1>2, <1>3, <1>4 DEF PaneTold

\* A session that ended does not come back, so that what told of it stays true.
LEMMA SessionToldStays ==
    ASSUME Inv, SessionTold, OnlyAsks,
           tmux'.session => tmux.session,
           messages' \in {messages} \cup (IF messages = <<>> THEN {} ELSE {Tail(messages)}),
           quit' = "self" => quit = "self" \/ ~tmux.session
    PROVE  SessionTold'
<1>1. \A i \in 1 .. Len(messages') : messages'[i].kind = "session" => ~tmux.session
  <2>1. CASE messages' = messages
    BY <2>1 DEF SessionTold
  <2>2. CASE messages # <<>> /\ messages' = Tail(messages)
    <3>1. \A i \in 1 .. Len(messages') :
             i + 1 \in 1 .. Len(messages) /\ messages'[i] = messages[i + 1]
      BY <2>2 DEF Inv, TypeOK
    <3> QED
      BY <3>1 DEF SessionTold
  <2> QED
    BY <2>1, <2>2
<1>2. \A t \in tasks' : t.status = "valid" /\ ~KeepsLaunchSession(t.view) => ~tmux.session
  BY DEF SessionTold, OnlyAsks
<1> QED
  BY <1>1, <1>2 DEF SessionTold

\* A valid response shows what tmux was, and its verdict on the created pane, or
\* on the session, is what the views have told.
LEMMA ReceiveTells ==
    ASSUME Inv, PaneTold, SessionTold, NEW t \in tasks, t.status # "asked", Receive(t),
           UNCHANGED <<live, messages, externalVars, mutating, acked>>
    PROVE  PaneTold' /\ SessionTold'
<1>1. OnlyAsks /\ run'.stamp = run.stamp /\ tmux' = tmux
  BY ReceiveKeeps DEF externalVars
<1>2. CASE Accepts(t) /\ t.status = "valid" /\ ApplyView(t.view)
  <2>1. quit' = "self" => ~tmux.session
    BY <1>2 DEF ApplyView, SessionTold
  <2>2. SessionTold'
    BY <1>1, <2>1, SessionToldStays
  <2>3. CASE creation' \in OrExpired(creation)
    BY <1>1, <2>2, <2>3, PaneToldStays
  <2>4. CASE creation' \notin OrExpired(creation)
    <3>1. /\ creation = "awaiting"
          /\ creation' \in OrExpired(IF t.view.panes.pane = "live" THEN "shown" ELSE "exited")
      BY <1>2, <2>4 DEF ApplyView, Reconciled, OrExpired
    <3>2. t.view.panes.pane # "none" /\ t.view.panes.pane \in {"none", "live", "gone"}
      BY <1>2, <3>1 DEF PaneTold, Accepts, Inv, TypeOK, Tasks, Views, Panes
    <3>3. /\ creation' \in {"shown", "exited"}
          /\ creation' = "exited" => tmux.pane = "gone"
          /\ tmux.pane # "none"
      BY <1>2, <3>1, <3>2 DEF PaneTold, OrExpired
    <3> QED
      BY <1>1, <2>2, <3>1, <3>3 DEF PaneTold, OnlyAsks
  <2> QED
    BY <2>3, <2>4
<1>3. CASE UNCHANGED <<creation, shown, quit>>
  BY <1>1, <1>3, PaneToldStays, SessionToldStays DEF OrExpired
<1> QED
  BY <1>2, <1>3 DEF Receive

\* An answer tells of tmux as it is.
LEMMA AnswerTells ==
    ASSUME Inv, PaneTold, SessionTold, NEW t \in tasks, NEW view \in Views,
           NEW status \in {"valid", "failed", "malformed"},
           Answer(t, status, view), status = "valid" => view.panes = tmux
    PROVE  PaneTold' /\ SessionTold'
<1> DEFINE t2 == [t EXCEPT !.status = status, !.view = view]
<1>1. /\ t \in Tasks /\ tasks' = (tasks \ {t}) \cup {t2}
      /\ UNCHANGED <<coord, run, attempting, live, messages, externalVars, appVars>>
  BY DEF Inv, TypeOK, Answer
<1>2. t2.status = status /\ t2.view = view /\ t2.stamp = t.stamp
  BY <1>1 DEF Tasks
<1> HIDE DEF t2
<1>3. PaneTold'
  BY <1>1, <1>2 DEF PaneTold, externalVars, appVars
<1>4. SessionTold'
  BY <1>1, <1>2 DEF SessionTold, KeepsLaunchSession, externalVars, appVars
<1> QED
  BY <1>3, <1>4

\* A report joins the queue. Only the client of a session that ended moves.
LEMMA SendTells ==
    ASSUME Inv, PaneTold, SessionTold, NEW g \in Nat, NEW kind \in Kinds, Send(kind, g),
           kind = "session" => ~tmux.session,
           UNCHANGED <<run, tasks, tmux, appVars>>
    PROVE  PaneTold' /\ SessionTold'
<1>1. messages \in Seq(Messages) /\ [kind |-> kind, gen |-> g] \in Messages
  BY DEF Inv, TypeOK, Messages
<1>2. /\ Len(messages') = Len(messages) + 1 /\ Len(messages) \in Nat
      /\ messages'[Len(messages) + 1] = [kind |-> kind, gen |-> g]
      /\ \A i \in 1 .. Len(messages) : messages'[i] = messages[i]
  BY <1>1 DEF Send
<1>3. SessionTold'
  BY <1>2 DEF SessionTold, appVars
<1>4. PaneTold'
  BY DEF PaneTold, appVars
<1> QED
  BY <1>3, <1>4

\* Every step keeps what was told true.
LEMMA StepTells ==
    ASSUME Inv, PaneTold, SessionTold, quit = "no", Loop \/ Spawned \/ Environment
    PROVE  PaneTold' /\ SessionTold'
<1> USE DEF externalVars, taskVars, appVars, OrExpired
<1>1. CASE Tick
  BY <1>1, TickKeeps, PaneToldStays, SessionToldStays DEF Tick
<1>2. CASE DebounceFires
  BY <1>2, DebounceKeeps, PaneToldStays, SessionToldStays DEF DebounceFires
<1>3. CASE MessageArrives
  <2>1. OnlyAsks /\ run'.stamp = run.stamp
    BY <1>3, MessageKeeps
  <2>2. quit' = "self" => quit = "self" \/ ~tmux.session
    <3>1. messages # <<>> => Head(messages) = messages[1] /\ 1 \in 1 .. Len(messages)
      BY DEF Inv, TypeOK
    <3> QED
      BY <1>3, <3>1 DEF MessageArrives, SessionTold
  <2> QED
    BY <1>3, <2>1, <2>2, PaneToldStays, SessionToldStays DEF MessageArrives
<1>4. ASSUME NEW t \in tasks, ResponseArrives(t)
      PROVE  PaneTold' /\ SessionTold'
  <2>1. CASE Discard(t)
    <3>1. OnlyAsks /\ run'.stamp = run.stamp
      BY <1>4, <2>1, DiscardKeeps DEF ResponseArrives
    <3> QED
      BY <1>4, <2>1, <3>1, PaneToldStays, SessionToldStays DEF ResponseArrives, Discard
  <2>2. CASE Receive(t)
    BY <1>4, <2>2, ReceiveTells DEF ResponseArrives
  <2> QED
    BY <1>4, <2>1, <2>2 DEF ResponseArrives
<1>5. CASE CommandReplies
  <2>1. OnlyAsks /\ run'.stamp = run.stamp + 1
    BY <1>5, MutationKeeps DEF CommandReplies
  <2> QED
    BY <1>5, <2>1, PaneToldStays, SessionToldStays DEF CommandReplies
<1>6. CASE CreationFinishes
  <2>1. OnlyAsks /\ run'.stamp = run.stamp + 1 /\ run.stamp \in Nat
    BY <1>6, MutationKeeps DEF CreationFinishes, Inv, TypeOK, Runs
  <2> QED
    BY <1>6, <2>1, PaneToldStays, SessionToldStays DEF CreationFinishes
<1>7. CASE CommandLands \/ TopologyShifts \/ CreatedPaneExits \/ SessionEnds
  <2>1. /\ OnlyAsks /\ run'.stamp = run.stamp
        /\ UNCHANGED <<messages, creation, quit>>
    BY <1>7 DEF CommandLands, TopologyShifts, CreatedPaneExits, SessionEnds, OnlyAsks
  <2>2. /\ \/ tmux'.pane = tmux.pane
           \/ tmux.pane = "live" /\ tmux'.pane = "gone"
        /\ tmux'.session => tmux.session
    BY <1>7 DEF CommandLands, TopologyShifts, CreatedPaneExits, SessionEnds, Change,
                Inv, TypeOK, Panes
  <2> QED
    BY <2>1, <2>2, PaneToldStays, SessionToldStays
<1>8. CASE PaneCreated
  <2>1. /\ tmux.pane = "none" /\ tmux'.pane = "live" /\ tmux'.session = tmux.session
        /\ creation' = "made" /\ OnlyAsks /\ UNCHANGED <<run, messages, tasks, quit>>
    BY <1>8 DEF PaneCreated, PaneTold, Change, Inv, TypeOK, Panes, OnlyAsks
  <2>2. PaneTold'
    BY <2>1 DEF PaneTold
  <2> QED
    BY <2>1, <2>2, SessionToldStays
<1>9. ASSUME NEW g \in attempting, AttemptSucceeds(g) \/ AttemptFails(g)
      PROVE  PaneTold' /\ SessionTold'
  <2>1. g \in Nat
    BY DEF Inv, TypeOK
  <2> QED
    BY <1>9, <2>1, SendTells DEF AttemptSucceeds, AttemptFails, Kinds
<1>10. ASSUME NEW g \in live, Announce(g) \/ ClientMoves(g) \/ ChannelDies(g)
       PROVE  PaneTold' /\ SessionTold'
  <2>1. g \in Nat
    BY DEF Inv, TypeOK
  <2> QED
    BY <1>10, <2>1, SendTells DEF Announce, ClientMoves, ChannelDies, Kinds
<1>11. ASSUME NEW t \in tasks, SnapshotTaken(t) \/ SnapshotMalformed(t) \/ SnapshotFails(t)
       PROVE  PaneTold' /\ SessionTold'
  <2>1. /\ Unseen \in Views
        /\ \A complete \in BOOLEAN : [panes |-> tmux, complete |-> complete] \in Views
    BY DEF Views, Unseen, AtStartup, Panes, Inv, TypeOK
  <2>2. CASE SnapshotTaken(t)
    <3>1. PICK complete \in BOOLEAN : Answer(t, "valid", [panes |-> tmux, complete |-> complete])
      BY <2>2 DEF SnapshotTaken
    <3> QED
      BY <2>1, <3>1, AnswerTells
  <2>3. CASE SnapshotMalformed(t)
    BY <2>1, <2>3, AnswerTells DEF SnapshotMalformed
  <2>4. CASE SnapshotFails(t)
    BY <2>1, <2>4, AnswerTells DEF SnapshotFails
  <2> QED
    BY <1>11, <2>2, <2>3, <2>4
<1> QED
  BY <1>1, <1>2, <1>3, <1>4, <1>5, <1>6, <1>7, <1>8, <1>9, <1>10, <1>11
     DEF Loop, Spawned, Environment

\* What was told is true all along.
LEMMA ToldHolds == Spec => [](PaneTold /\ SessionTold)
<1>1. Init => PaneTold /\ SessionTold
  BY DEF Init, PaneTold, SessionTold, AtStartup
<1>2. Inv /\ PaneTold /\ SessionTold /\ [Next]_vars => PaneTold' /\ SessionTold'
  <2>1. CASE UNCHANGED vars
    BY <2>1 DEF vars, taskVars, externalVars, appVars, PaneTold, SessionTold
  <2> QED
    BY <2>1, StepTells DEF Next
<1> QED
  BY <1>1, <1>2, InvHolds, PTL DEF Spec

\* The dashboard says that the pane it created exited only if it did, and
\* selects it only if it was made, in whatever order snapshots are answered
\* (SnapshotGeneration, reconcile_snapshot_presence).
THEOREM VerdictAlwaysTrue == Spec => []VerdictIsTrue
<1>1. PaneTold => VerdictIsTrue
  BY DEF PaneTold, VerdictIsTrue
<1> QED
  BY <1>1, ToldHolds, PTL

\* It quits of itself only if its session ended: neither a record that parse
\* dropped nor a report of an old generation makes it (reduce_snapshot).
THEOREM AlwaysQuitsForReason == Spec => []QuitsForReason
<1>1. SessionTold => QuitsForReason
  BY DEF SessionTold, QuitsForReason
<1> QED
  BY <1>1, ToldHolds, PTL
=============================================================================
