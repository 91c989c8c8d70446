---------------------------- MODULE ServiceOwnership ----------------------------
(***************************************************************************)
(* Which process owns the notification socket (run_server, bind_or_join    *)
(* and remove_socket_if_owned of pane-dash/src/notification_service.rs).   *)
(*                                                                         *)
(* Every load of pane_dash.tmux starts `notify serve` in the background,   *)
(* whether or not an earlier start has come to its end. A starter binds    *)
(* the socket, or joins the service that has it, or takes over from an     *)
(* older one or from a socket file nobody listens on. What a service does  *)
(* between `listen` and its end is NotificationService.                    *)
(*                                                                         *)
(* A file system step is atomic, and nothing else is: a test of the path   *)
(* and the use of its answer are two steps. The socket file is named by    *)
(* the process that bound it, which is what its inode tells apart: no inode *)
(* is used again while the socket bound to it is open.                     *)
(***************************************************************************)
EXTENDS Naturals, FiniteSets

CONSTANTS
    Procs,          \* the `notify serve` processes ever started
    NoSocket,       \* nothing at the socket path
    Version,        \* PROTOCOL_VERSION of each process
    Crashes         \* how many may die without cleaning up

ASSUME OwnershipAssumption ==
    /\ NoSocket \notin Procs
    /\ Crashes \in Nat

VARIABLES
    path,           \* the socket file, by the process that bound it
    stage,          \* where each process is
    peer,           \* the process its connection leads to, or NoSocket
    owner,          \* the identity a service recorded as its own socket's
    crashes,        \* how many have crashed
    settled         \* history: the processes whose socket nobody was about to hit

ownershipVars == <<path, stage, peer, owner, crashes, settled>>

\* From bind_or_join to the end of run_server, in order.
Starting ==
    {"bind", "connect", "ping", "connect_again", "shutdown", "await_release",
     "remove_stale", "rebind", "configure", "identify", "initialize"}
Stopping == {"check_owner", "remove_owned"}
Ended == {"joined", "failed", "stopped", "crashed"}

\* Whoever bound a socket accepts connections on it until the process is gone.
Listening(p) ==
    stage[p] \in {"configure", "identify", "initialize", "listen"} \cup Stopping

Serving(p) == stage[p] = "listen"

Goto(p, place) == stage' = [stage EXCEPT ![p] = place]

\* About to remove, or to take for its own, what is at the path, because of what
\* was there before.
Poised == {"remove_stale", "configure", "identify", "remove_owned"}

\* UnixListener::bind on an empty path, at a moment when some other process is
\* poised or none is.
BindSocket(p) ==
    /\ path' = p
    /\ Goto(p, "configure")
    /\ settled' = IF \E q \in Procs \ {p} : stage[q] \in Poised THEN settled
                  ELSE settled \cup {p}

OwnershipInit ==
    /\ path = NoSocket
    /\ stage = [p \in Procs |-> "off"]
    /\ peer = [p \in Procs |-> NoSocket]
    /\ owner = [p \in Procs |-> NoSocket]
    /\ crashes = 0
    /\ settled = {}

\* The entrypoint is loaded, or loaded again.
Start(p) ==
    /\ stage[p] = "off"
    /\ Goto(p, "bind")
    /\ UNCHANGED <<path, peer, owner, crashes, settled>>

-----------------------------------------------------------------------------
(* bind_or_join                                                             *)

Bind(p) ==
    /\ stage[p] = "bind"
    /\ IF path = NoSocket
         THEN BindSocket(p)
         ELSE Goto(p, "connect") /\ UNCHANGED <<path, settled>>
    /\ UNCHANGED <<peer, owner, crashes>>

\* connect_with_retry: some attempt within CLIENT_RETRY finds a listener, or the
\* last one finds the path empty or a socket without a listener.
Reachable == \E q \in Procs : path = q /\ Listening(q)

Connected(p) == Reachable /\ peer' = [peer EXCEPT ![p] = path]

Connect(p) ==
    /\ stage[p] = "connect"
    /\ \/ Connected(p) /\ Goto(p, "ping")
       \/ ~Reachable /\ Goto(p, "remove_stale") /\ UNCHANGED peer
    /\ UNCHANGED <<path, owner, crashes, settled>>

\* The peer answers while it serves: same version, or a mismatch.
PingAnswered(p) ==
    /\ stage[p] = "ping"
    /\ Serving(peer[p])
    /\ Goto(p, IF Version[peer[p]] = Version[p] THEN "joined"
               ELSE "connect_again")
    /\ UNCHANGED <<path, peer, owner, crashes, settled>>

\* The Shutdown request is sent on a connection of its own.
ConnectAgain(p) ==
    /\ stage[p] = "connect_again"
    /\ \/ Connected(p) /\ Goto(p, "shutdown")
       \/ ~Reachable /\ Goto(p, "failed") /\ UNCHANGED peer
    /\ UNCHANGED <<path, owner, crashes, settled>>

ShutdownAnswered(p) ==
    /\ stage[p] = "shutdown"
    /\ Serving(peer[p])
    /\ stage' = [stage EXCEPT ![p] = "await_release", ![peer[p]] = "check_owner"]
    /\ UNCHANGED <<path, peer, owner, crashes, settled>>

\* Mutant: the wait for the release has no deadline.
GivesUpOnAnswersOnly(p) ==
    /\ stage[p] \in {"ping", "shutdown"}
    /\ Goto(p, "failed")
    /\ UNCHANGED <<path, peer, owner, crashes, settled>>

\* OWNER_RELEASE_TIMEOUT passes, or the peer closes the connection.
GivesUp(p) ==
    /\ \/ stage[p] \in {"ping", "shutdown"}
       \/ stage[p] = "await_release" /\ path # NoSocket
    /\ Goto(p, "failed")
    /\ UNCHANGED <<path, peer, owner, crashes, settled>>

SocketReleased(p) ==
    /\ stage[p] = "await_release"
    /\ path = NoSocket
    /\ Goto(p, "rebind")
    /\ UNCHANGED <<path, peer, owner, crashes, settled>>

\* Removes whatever is at the path by now; a path already empty is an error.
RemoveStale(p) ==
    /\ stage[p] = "remove_stale"
    /\ path' = NoSocket
    /\ Goto(p, IF path = NoSocket THEN "failed" ELSE "rebind")
    /\ UNCHANGED <<peer, owner, crashes, settled>>

Rebind(p) ==
    /\ stage[p] = "rebind"
    /\ IF path = NoSocket
         THEN BindSocket(p)
         ELSE Goto(p, "failed") /\ UNCHANGED <<path, settled>>
    /\ UNCHANGED <<peer, owner, crashes>>

-----------------------------------------------------------------------------
(* run_server                                                               *)

\* configure_listener: the mode of the file at the path, which must exist.
Configure(p) ==
    /\ stage[p] = "configure"
    /\ Goto(p, IF path = NoSocket THEN "failed" ELSE "identify")
    /\ UNCHANGED <<path, peer, owner, crashes, settled>>

\* socket_identity: of the file at the path, whoever's it is by now.
Identify(p) ==
    /\ stage[p] = "identify"
    /\ owner' = [owner EXCEPT ![p] = path]
    /\ Goto(p, IF path = NoSocket THEN "failed" ELSE "initialize")
    /\ UNCHANGED <<path, peer, crashes, settled>>

\* A tmux call of `initialize` may fail, which stops the service again.
Initialize(p) ==
    /\ stage[p] = "initialize"
    /\ \E place \in {"listen", "check_owner"} : Goto(p, place)
    /\ UNCHANGED <<path, peer, owner, crashes, settled>>

\* A signal, an I/O error on a connection, or the last session's end.
LeaveListen(p) ==
    /\ stage[p] = "listen"
    /\ Goto(p, "check_owner")
    /\ UNCHANGED <<path, peer, owner, crashes, settled>>

\* Mutant: the identity is not compared.
CheckThere(p) ==
    /\ stage[p] = "check_owner"
    /\ Goto(p, IF path # NoSocket THEN "remove_owned" ELSE "stopped")
    /\ UNCHANGED <<path, peer, owner, crashes, settled>>

\* remove_socket_if_owned reads the identity at the path ...
CheckOwner(p) ==
    /\ stage[p] = "check_owner"
    /\ Goto(p, IF path # NoSocket /\ path = owner[p] THEN "remove_owned"
               ELSE "stopped")
    /\ UNCHANGED <<path, peer, owner, crashes, settled>>

\* ... and then removes what is there.
RemoveOwned(p) ==
    /\ stage[p] = "remove_owned"
    /\ path' = NoSocket
    /\ Goto(p, "stopped")
    /\ UNCHANGED <<peer, owner, crashes, settled>>

\* SIGKILL, or the machine: no cleanup.
Crash(p) ==
    /\ crashes < Crashes
    /\ stage[p] \notin {"off"} \cup Ended
    /\ crashes' = crashes + 1
    /\ Goto(p, "crashed")
    /\ UNCHANGED <<path, peer, owner, settled>>

-----------------------------------------------------------------------------
(* The specification                                                        *)

Advance(p) ==
    \/ Bind(p) \/ Connect(p) \/ PingAnswered(p) \/ ConnectAgain(p)
    \/ ShutdownAnswered(p) \/ GivesUp(p) \/ SocketReleased(p)
    \/ RemoveStale(p) \/ Rebind(p) \/ Configure(p) \/ Identify(p)
    \/ Initialize(p) \/ CheckOwner(p) \/ RemoveOwned(p)

OwnershipNext == \E p \in Procs : Start(p) \/ Advance(p) \/ LeaveListen(p) \/ Crash(p)

OwnershipSpec == OwnershipInit /\ [][OwnershipNext]_ownershipVars

\* A process that can go on does; nobody is obliged to start, stop or crash.
FairOwnershipSpec == OwnershipSpec /\ \A p \in Procs : WF_ownershipVars(Advance(p))

-----------------------------------------------------------------------------
(* Properties                                                               *)

\* The variables stay in their sets, and every process that waits for an
\* answer has somebody to wait for.
OwnershipTypeOK ==
    /\ path \in Procs \cup {NoSocket}
    /\ stage \in [Procs -> {"off", "listen"} \cup Starting \cup Stopping \cup Ended]
    /\ peer \in [Procs -> Procs \cup {NoSocket}]
    /\ owner \in [Procs -> Procs \cup {NoSocket}]
    /\ crashes \in 0 .. Crashes
    /\ settled \in SUBSET Procs
    /\ \A p \in Procs : stage[p] \in {"ping", "shutdown"} => peer[p] # NoSocket

\* "same owner second service exits" (tests/notifications.rs:306): two services
\* that each bound the socket while nobody was about to remove or adopt another
\* one never serve side by side, although others start, stop and die meanwhile.
SoleService == \A p, q \in settled : Serving(p) /\ Serving(q) => p = q

\* Such a service is reachable for as long as it serves; and whoever left it
\* there, a socket at the path belongs to a running process or to one that
\* crashed, never to one that ended by itself.
SocketIsItsOwners ==
    /\ \A p \in settled : Serving(p) => path = p
    /\ path # NoSocket => Listening(path) \/ stage[path] = "crashed"

\* Nobody else's start or cleanup takes such a service's socket from the path,
\* not even that of a service whose own socket is long gone.
LosesItToNobody ==
    [][\A p \in settled : path = p /\ Listening(p) =>
          path' = p \/ stage[p] = "remove_owned"]_ownershipVars

\* The same test of the repository, of every start: no two services ever serve
\* at once. Not kept, and in no run: TLC refutes it under the bounds of
\* ServiceOwnership.cfg.
SecondServiceExits == \A p, q \in Procs : Serving(p) /\ Serving(q) => p = q

\* Every start ends: serving, joined, or with an error that tmux shows.
StartsEnd == \A p \in Procs : stage[p] = "bind" ~> stage[p] \notin Starting
=============================================================================
