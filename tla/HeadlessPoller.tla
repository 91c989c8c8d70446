----------------------------- MODULE HeadlessPoller -----------------------------
(***************************************************************************)
(* The source of headless sessions (pane-dash/src/opencode.rs) and what    *)
(* the dashboard makes of its updates.                                     *)
(*                                                                         *)
(* A poll asks an OpenCode server, in requests of their own, for its port, *)
(* its projects, the status of the sessions of each worktree, the requests *)
(* for input of each, and then for every active session and its parents up *)
(* to the root. The server goes on between two requests; one that fails    *)
(* fails the poll. The channel holds one update and try_send drops another.*)
(*                                                                         *)
(* The order of a HashMap is any order. Of a record its root and status    *)
(* are kept; the server is external: it answers of what it holds, a        *)
(* session that asks for input is among the busy ones, and a request to a  *)
(* server that is down, slow, damaged or too talkative fails alike.        *)
(* Bound: MaxChanges changes of the server and of the panes.               *)
(***************************************************************************)
EXTENDS Integers, Sequences, Functions

CONSTANTS
    Sessions, NoSession,
    Home,           \* the worktree of each session
    Projects,       \* the worktrees the server lists, some perhaps twice
    Ancestries,     \* the parents of the sessions; one may go in a circle
    MaxChanges

ASSUME PollerAssumption ==
    /\ NoSession \notin Sessions
    /\ Projects \in Seq(Range(Projects))
    /\ Home \in [Sessions -> Range(Projects)]
    /\ Ancestries \subseteq [Sessions -> Sessions \cup {NoSession}]
    /\ MaxChanges \in Nat

VARIABLES
    server,     \* [up, state, parent]: external
    poll,       \* the poll under way
    healthy, warned,    \* of the poller
    channel,    \* the update that waits, at most one
    shown, warning,     \* of the dashboard: headless sessions, kimaki_warning
    attached,   \* the sessions that panes are attached to
    history,    \* of the server since the poll began
    changes     \* how many changes are left

pollerVars ==
    <<server, poll, healthy, warned, channel, shown, warning, attached, history, changes>>

States == {"gone", "idle", "busy", "permission", "question"}
Asking == {"permission", "question"}
Busy == {"busy"} \cup Asking

Waiting == [phase |-> "waiting", todo |-> <<>>, seen |-> {}, active |-> <<>>,
            session |-> NoSession, at |-> NoSession, visited |-> {}, cache |-> {}, roots |-> <<>>]

-----------------------------------------------------------------------------
(* The server                                                               *)

\* What GET /session/status gives of a worktree, and what it may add.
BusyIn(worktree) == {s \in Sessions : Home[s] = worktree /\ server.state[s] \in Busy}
IdleIn(worktree) == {s \in Sessions : Home[s] = worktree /\ server.state[s] = "idle"}

\* GET /permission and GET /question
AskingIn(worktree, endpoint) == {s \in Sessions : Home[s] = worktree /\ server.state[s] = endpoint}

\* A session, its parent, the parent of that and so on: what every set has that
\* has the session and the parents of its members.
HasParents(set) == \A s \in set : server.parent[s] \in set \cup {NoSession}

Lineage(session) ==
    {s \in Sessions :
        \A set \in SUBSET Sessions : session \in set /\ HasParents(set) => s \in set}

\* The last of them; none if they go in a circle.
RootOf(session) ==
    LET roots == {s \in Lineage(session) : server.parent[s] = NoSession}
    IN  IF roots = {} THEN NoSession ELSE CHOOSE s \in roots : TRUE

\* What became of the server since the poll began: whose state never changed,
\* which roots were active and which asked for input.
Observe(h, s) ==
    LET active == {x \in Sessions : s.state[x] \in Busy}
    IN  [steady |-> {x \in h.steady : s.state[x] = server.state[x]},
         active |-> h.active \cup {RootOf(x) : x \in active},
         asked |-> h.asked \cup {RootOf(x) : x \in {y \in active : s.state[y] \in Asking}}]

ServerChanges ==
    /\ changes > 0 /\ changes' = changes - 1
    /\ \/ \E s \in Sessions, state \in States :
              state # server.state[s] /\ server' = [server EXCEPT !.state[s] = state]
       \/ server' = [server EXCEPT !.up = ~@]
    /\ history' = Observe(history, server')
    /\ UNCHANGED <<poll, healthy, warned, channel, shown, warning, attached>>

-----------------------------------------------------------------------------
(* The poller                                                               *)

\* Mutant: a warning that finds the channel full is taken for sent.
WarnOnce(full) == TRUE

\* Whether the poller remembers to have warned.
WarnUntilSent(full) == ~full

TrySend(update) == channel' = IF channel = <<>> THEN <<update>> ELSE channel

Succeed(records) ==
    /\ poll' = Waiting
    /\ healthy' = TRUE /\ warned' = FALSE
    /\ TrySend([records |-> records, warning |-> FALSE])

Fail ==
    /\ poll' = Waiting
    /\ UNCHANGED healthy
    /\ IF healthy /\ ~warned
       THEN /\ TrySend([records |-> <<>>, warning |-> TRUE])
            /\ warned' = WarnUntilSent(channel # <<>>)
       ELSE UNCHANGED <<warned, channel>>

Go(next) == poll' = next /\ UNCHANGED <<healthy, warned, channel>>

PollBegins ==
    /\ poll.phase = "waiting"
    /\ Go([Waiting EXCEPT !.phase = "discovery"])
    /\ history' = Observe([steady |-> Sessions, active |-> {}, asked |-> {}], server)

Worktree == Head(poll.todo)
SessionKey == <<Home[poll.session], poll.at>>

\* Whether the next step is a request: a worktree is asked once, and a session
\* once of each worktree.
Requesting ==
    CASE poll.phase = "status" -> Worktree \notin poll.seen
      [] poll.phase = "session" -> poll.at \notin poll.visited /\ SessionKey \notin poll.cache
      [] OTHER -> poll.phase \notin {"waiting", "aggregate"}

Unreachable == Requesting /\ ~server.up /\ Fail /\ UNCHANGED history

Answered(phase) == poll.phase = phase /\ Requesting /\ server.up /\ UNCHANGED history

Discover == Answered("discovery") /\ Go([poll EXCEPT !.phase = "projects"])

ListProjects ==
    /\ Answered("projects")
    /\ Go([poll EXCEPT !.phase = IF Projects = <<>> THEN "aggregate" ELSE "status",
                       !.todo = Projects])

NextProject(p) ==
    [p EXCEPT !.phase = IF Len(p.todo) = 1 THEN "aggregate" ELSE "status",
              !.todo = Tail(@), !.seen = @ \cup {Worktree}]

SkipWorktree ==
    /\ poll.phase = "status" /\ ~Requesting
    /\ Go(NextProject(poll))
    /\ UNCHANGED history

\* A worktree whose list is empty is not asked for requests. The server may
\* list sessions that are idle too, which the poller passes over.
ReadStatus ==
    /\ Answered("status")
    /\ LET busy == BusyIn(Worktree)
       IN  \/ busy = {} /\ Go(NextProject(poll))
           \/ /\ busy \cup IdleIn(Worktree) # {}
              /\ Go([poll EXCEPT !.phase = "permission",
                                 !.active = [s \in DOMAIN @ \cup busy |->
                                     IF s \in DOMAIN @ THEN @[s] ELSE "working"]])

ReadRequests(endpoint) ==
    /\ Answered(endpoint)
    /\ LET asking == AskingIn(Worktree, endpoint)
           known == [poll EXCEPT !.active = [s \in DOMAIN @ \cup asking |->
                        IF s \in asking THEN "needs_input" ELSE @[s]]]
       IN  Go(IF endpoint = "permission" THEN [known EXCEPT !.phase = "question"]
              ELSE NextProject(known))

\* aggregate_roots: any active session is next.
TakeSession ==
    /\ poll.phase = "aggregate"
    /\ IF DOMAIN poll.active = {}
       THEN Succeed(poll.roots)
       ELSE \E s \in DOMAIN poll.active :
                Go([poll EXCEPT !.phase = "session", !.session = s, !.at = s, !.visited = {}])
    /\ UNCHANGED history

\* Mutant: the session that is counted last tells the status of its root.
LastStatusWins(root, status) == status

\* Input that is needed anywhere below a root is needed of the root.
RootStatus(root, status) ==
    IF root \in DOMAIN poll.roots /\ status # "needs_input" THEN poll.roots[root] ELSE status

\* The walk to the root: from the session to its parent, or it ends there.
WalkOn ==
    LET s == poll.at
        status == RootStatus(s, poll.active[poll.session])
        read == [poll EXCEPT !.visited = @ \cup {s}, !.cache = @ \cup {SessionKey}]
    IN  IF server.parent[s] # NoSession THEN Go([read EXCEPT !.at = server.parent[s]])
        ELSE Go([read EXCEPT !.phase = "aggregate",
                     !.active = Restrict(@, DOMAIN @ \ {poll.session}),
                     !.roots = [r \in DOMAIN @ \cup {s} |-> IF r = s THEN status ELSE @[r]]])

ReadSession ==
    /\ Answered("session")
    /\ IF server.state[poll.at] = "gone" THEN Fail ELSE WalkOn

RememberSession ==
    /\ poll.phase = "session" /\ ~Requesting
    /\ IF poll.at \in poll.visited THEN Fail ELSE WalkOn
    /\ UNCHANGED history

PollStep ==
    /\ \/ PollBegins
       \/ Unreachable
       \/ Discover
       \/ ListProjects
       \/ SkipWorktree
       \/ ReadStatus
       \/ \E endpoint \in Asking : ReadRequests(endpoint)
       \/ TakeSession
       \/ ReadSession
       \/ RememberSession
    /\ UNCHANGED <<server, shown, warning, attached, changes>>

-----------------------------------------------------------------------------
(* The dashboard                                                            *)

\* replace_headless: no session that a pane is attached to.
Listed(records, panes) == Restrict(records, DOMAIN records \ panes)

Receive ==
    /\ channel # <<>>
    /\ channel' = <<>>
    /\ shown' = Listed(channel[1].records, attached)
    /\ warning' = channel[1].warning
    /\ UNCHANGED <<server, poll, healthy, warned, attached, history, changes>>

\* Mutant: only the list that the source sends is filtered.
SnapshotShowsAll(panes) == shown

\* Model::build of a snapshot, from the list that is shown.
ListedInSnapshot(panes) == Listed(shown, panes)

\* Panes attach and detach, and a snapshot tells the dashboard.
Snapshot ==
    /\ changes > 0 /\ changes' = changes - 1
    /\ \E panes \in SUBSET {s \in Sessions : server.parent[s] = NoSession} :
           /\ panes # attached
           /\ attached' = panes
           /\ shown' = ListedInSnapshot(panes)
    /\ UNCHANGED <<server, poll, healthy, warned, channel, warning, history>>

PollerInit ==
    /\ \E parent \in Ancestries, up \in BOOLEAN :
           server = [up |-> up, state |-> [s \in Sessions |-> "idle"], parent |-> parent]
    /\ poll = Waiting
    /\ healthy = FALSE /\ warned = FALSE
    /\ channel = <<>>
    /\ shown = <<>> /\ warning = FALSE
    /\ attached = {}
    /\ history = [steady |-> Sessions, active |-> {}, asked |-> {}]
    /\ changes = MaxChanges

PollerNext == ServerChanges \/ PollStep \/ Receive \/ Snapshot

PollerSpec == PollerInit /\ [][PollerNext]_pollerVars

\* The interval ticks, requests end, within two seconds if they must, and the
\* loop receives what is in the channel.
FairPollerSpec == PollerSpec /\ WF_pollerVars(PollStep) /\ WF_pollerVars(Receive)

-----------------------------------------------------------------------------
(* Properties                                                               *)

\* What a poll that was not atomic may say: a root was active during the poll,
\* one that needs input asked for it during the poll, and a session that was
\* active, or asked, all along is not missed.
PollsTellTruth ==
    poll.phase = "aggregate" /\ DOMAIN poll.active = {} =>
        LET roots == poll.roots
            steady == {s \in history.steady : server.state[s] \in Busy}
        IN  /\ DOMAIN roots \subseteq history.active
            /\ {r \in DOMAIN roots : roots[r] = "needs_input"} \subseteq history.asked
            /\ \A s \in steady :
                   /\ RootOf(s) \in DOMAIN roots
                   /\ server.state[s] \in Asking => roots[RootOf(s)] = "needs_input"

\* A session that a pane is attached to has no second row, whichever of the
\* snapshot and the update came first.
AttachedOnce == DOMAIN shown \cap attached = {}

\* Once the server and the panes are left alone the dashboard comes to show
\* what the server runs, or that it was lost: no update dropped on a full
\* channel, no failed poll and no snapshot leaves it wrong for good.
RunningRoots == {RootOf(s) : s \in {x \in Sessions : server.state[x] \in Busy}}
AskingRoots == {RootOf(s) : s \in {x \in Sessions : server.state[x] \in Asking}}
PollsFail ==
    \/ ~server.up
    \/ NoSession \in RunningRoots
    \/ \E s \in Sessions : /\ server.state[s] \in Busy
                          /\ \E parent \in Lineage(s) : server.state[parent] = "gone"

ShownIsRunning ==
    IF PollsFail THEN healthy => warning /\ shown = <<>>
    ELSE /\ ~warning
         /\ shown = [r \in RunningRoots \ attached |->
                        IF r \in AskingRoots THEN "needs_input" ELSE "working"]

SourceIsShown == <>[]ShownIsRunning
=============================================================================
