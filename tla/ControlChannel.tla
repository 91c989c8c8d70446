----------------------------- MODULE ControlChannel -----------------------------
(***************************************************************************)
(* The control-mode channel to tmux (pane-dash/src/control.rs): the attach *)
(* handshake, the actor that owns the child process, the handle that its   *)
(* callers share, and the parser of tmux's protocol.                       *)
(*                                                                         *)
(* A call is one use of the handle: it waits for room in the queue, then   *)
(* for its reply, and its future may be dropped at any time. A line of     *)
(* tmux is its first token, the number of its guard (0 where the fields    *)
(* are no numbers) and the text that matters of the rest. Sending to the   *)
(* queue is one step. A command is written at once: at most one is in the  *)
(* pipe, which holds far more.                                             *)
(*                                                                         *)
(* tmux is external: it answers commands one at a time and in order,       *)
(* announces changes between its answers, and may refuse a command, stop   *)
(* answering, leave or die. MaxNotices bounds what it announces.           *)
(***************************************************************************)
EXTENDS Naturals, Sequences

CONSTANTS
    Calls,      \* uses of the handle
    KindOf,     \* what each asks for
    Capacity,   \* requests the queue holds
    Notices,    \* lines tmux may announce
    MaxNotices

Attach == "attach"    \* the command that tmux was started with
None == "none"

ASSUME ChannelAssumption ==
    /\ KindOf \in [Calls -> {"snapshot", "jump", "focus"}]
    /\ Attach \notin Calls /\ None \notin Calls
    /\ Capacity \in Nat \ {0} /\ MaxNotices \in Nat
    /\ \A line \in Notices : line.token \in {"%begin", "%end", "%error"} => line.id = 0

VARIABLES
    pc,         \* where connect_control, then control_actor, stands
    parser,     \* the block being read
    active,     \* the request whose response is awaited
    deadline,   \* response_deadline is set
    queue,      \* requests
    closed,     \* the receiver refuses requests
    termination,\* what the handle reads when it is refused
    held,       \* the loop of the dashboard holds a handle
    calls,      \* what each caller knows
    early,      \* initial_events
    events,     \* the events sent to the loop of the dashboard
    stdin,      \* external: commands tmux has not read
    stdout,     \* external: lines of tmux not read yet
    tmux,       \* external: tmux itself
    announced   \* history: the sessions that tmux announced

actorVars == <<parser, active, deadline, queue, closed, termination, early, events>>
pipeVars == <<stdin, stdout, tmux, announced>>
vars == <<pc, actorVars, held, calls, pipeVars>>

Line(token, id, text) == [token |-> token, id |-> id, text |-> text]

Reasons ==
    {"timed out", "truncated", "malformed", "closed", "exited", "read failed", "write failed"}

-----------------------------------------------------------------------------
(* The protocol                                                             *)

TopologyTokens ==
    {"%window-add", "%window-close", "%window-renamed", "%layout-change",
     "%window-pane-changed", "%session-window-changed", "%sessions-changed",
     "%session-renamed", "%unlinked-window-add", "%unlinked-window-close",
     "%unlinked-window-renamed"}

IsGuard(line) == line.token \in {"%begin", "%end", "%error"} /\ line.id > 0

FocusSubscriptionChanged(line) ==
    line.token = "%subscription-changed" /\ line.text \in {"0", "1"}

\* A session id that is no "$" and digits is the text "".
SessionChanged(line) == line.token = "%session-changed" /\ line.text # ""

Quiet == [kind |-> "none"]
Response(ok, data) == [kind |-> "response", ok |-> ok, data |-> data]

Notice(line) ==
    CASE line.token \in TopologyTokens -> [kind |-> "topology"]
      [] FocusSubscriptionChanged(line) -> [kind |-> "focus", text |-> line.text]
      [] SessionChanged(line) -> [kind |-> "session", text |-> line.text]
      [] line.token = "%exit" -> [kind |-> "exit"]
      [] OTHER -> Quiet

NoBlock == [open |-> 0, data |-> <<>>]

Closes(p, line) == IsGuard(line) /\ line.id = p.open /\ line.token # "%begin"

\* The parser after a line, and the event of that line. Inside a block only
\* the guard that closes it is no data.
PushLine(p, line) ==
    IF p.open > 0 THEN
        IF Closes(p, line)
        THEN [parser |-> NoBlock, event |-> Response(line.token = "%end", p.data)]
        ELSE [parser |-> [p EXCEPT !.data = Append(@, line.text)], event |-> Quiet]
    ELSE IF IsGuard(line) /\ line.token = "%begin"
    THEN [parser |-> [open |-> line.id, data |-> <<>>], event |-> Quiet]
    ELSE [parser |-> p, event |-> Notice(line)]

-----------------------------------------------------------------------------
(* The handle                                                               *)

Unused == [state |-> "idle", value |-> <<>>]
Answered(value) == [state |-> "answered", value |-> value]
Failed(reason) == [state |-> "failed", value |-> <<reason>>]

\* The Result that Request::complete sends for a response.
Complete(kind, ok, data) ==
    CASE kind = "jump" -> Answered(<<IF ok THEN "true" ELSE "false">>)
      [] kind # "jump" /\ ~ok -> [state |-> "rejected", value |-> <<>>]
      [] kind = "snapshot" /\ ok -> Answered(data)
      [] kind = "focus" /\ ok -> Answered(<<>>)

\* The reply of a caller that is gone is dropped.
Reply(c, result) ==
    IF calls[c].state = "sent" THEN [calls EXCEPT ![c] = result] ELSE calls

\* snapshot, jump and subscribe_focus: the command is made, a place awaited.
Ask(c) ==
    /\ held
    /\ calls[c].state = "idle"
    /\ calls' = [calls EXCEPT ![c].state = "sending"]
    /\ UNCHANGED <<pc, actorVars, held, pipeVars>>

Send(c) ==
    /\ calls[c].state = "sending"
    /\ ~closed
    /\ Len(queue) < Capacity
    /\ queue' = Append(queue, c)
    /\ calls' = [calls EXCEPT ![c].state = "sent"]
    /\ UNCHANGED <<pc, parser, active, deadline, closed, termination, early, events,
                   held, pipeVars>>

\* termination_error, when the send is refused.
Refuse(c) ==
    /\ calls[c].state = "sending"
    /\ closed
    /\ calls' = [calls EXCEPT ![c] = [state |-> "refused", value |-> <<termination>>]]
    /\ UNCHANGED <<pc, actorVars, held, pipeVars>>

\* The task that awaits the call ends, and its future with it.
Abandon(c) ==
    /\ calls[c].state \in {"sending", "sent"}
    /\ calls' = [calls EXCEPT ![c] = [state |-> "abandoned", value |-> <<>>]]
    /\ UNCHANGED <<pc, actorVars, held, pipeVars>>

DropHandle ==
    /\ held
    /\ held' = FALSE
    /\ UNCHANGED <<pc, actorVars, calls, pipeVars>>

-----------------------------------------------------------------------------
(* connect_control and its handshake                                        *)

\* Every error kills the child and ends the attempt.
ConnectFails ==
    /\ pc' = "refused"
    /\ tmux' = [tmux EXCEPT !.alive = FALSE]
    /\ UNCHANGED <<actorVars, held, calls, stdin, announced>>

\* Mutant: an announcement that comes before the handshake is over is lost.
HandshakeDeafToSessions ==
    /\ pc = "attach" /\ stdout # <<>>
    /\ stdout' = Tail(stdout)
    /\ LET pushed == PushLine(parser, Head(stdout))
           event == pushed.event
       IN  IF event.kind = "response" /\ event.ok
           THEN /\ pc' = "run" /\ held' = TRUE
                /\ parser' = NoBlock
                /\ events' = early
                /\ early' = <<>>
                /\ UNCHANGED <<active, deadline, queue, closed, termination, calls,
                               stdin, tmux, announced>>
           ELSE IF event.kind \in {"response", "exit"} THEN ConnectFails
           ELSE /\ parser' = pushed.parser
                /\ UNCHANGED <<pc, active, deadline, queue, closed, termination,
                               early, events, held, calls, stdin, tmux, announced>>

\* A line of the handshake: its response starts the actor, with a parser of
\* its own and the sessions announced so far. Other notices are dropped.
Handshake ==
    /\ pc = "attach" /\ stdout # <<>>
    /\ stdout' = Tail(stdout)
    /\ LET pushed == PushLine(parser, Head(stdout))
           event == pushed.event
       IN  IF event.kind = "response" /\ event.ok
           THEN /\ pc' = "run" /\ held' = TRUE
                /\ parser' = NoBlock
                /\ events' = early
                /\ early' = <<>>
                /\ UNCHANGED <<active, deadline, queue, closed, termination, calls,
                               stdin, tmux, announced>>
           ELSE IF event.kind \in {"response", "exit"} THEN ConnectFails
           ELSE /\ parser' = pushed.parser
                /\ early' = IF event.kind = "session" THEN Append(early, event) ELSE early
                /\ UNCHANGED <<pc, active, deadline, queue, closed, termination,
                               events, held, calls, stdin, tmux, announced>>

\* The handshake's two seconds are over, or tmux ended before its response.
HandshakeEnds ==
    /\ pc = "attach"
    /\ UNCHANGED stdout
    /\ ConnectFails

-----------------------------------------------------------------------------
(* control_actor                                                            *)

Pending(c) == c = active \/ \E i \in 1..Len(queue) : queue[i] = c

\* Mutant: the requests in the queue are not failed.
FailingActiveOnly(reason) ==
    IF active = None THEN calls ELSE Reply(active, Failed(reason))

\* fail_requests: the active request, then those in the queue.
FailRequests(reason) ==
    [c \in Calls |->
        IF Pending(c) /\ calls[c].state = "sent" THEN Failed(reason) ELSE calls[c]]

\* Mutant: the reason is not left for those who are refused later.
EndSilently(reason) ==
    /\ pc' = "reaping"
    /\ closed' = TRUE
    /\ calls' = FailRequests(reason)
    /\ active' = None
    /\ queue' = <<>>
    /\ events' = Append(events, [kind |-> "terminated", text |-> reason])
    /\ tmux' = [tmux EXCEPT !.alive = FALSE]
    /\ UNCHANGED <<termination, early, held, announced>>

\* The loop is left with a reason. Nothing is awaited from there on but the
\* exit of the child, which is killed if it still runs.
End(reason) ==
    /\ pc' = "reaping"
    /\ termination' = reason
    /\ closed' = TRUE
    /\ calls' = FailRequests(reason)
    /\ active' = None
    /\ queue' = <<>>
    /\ events' = Append(events, [kind |-> "terminated", text |-> reason])
    /\ tmux' = [tmux EXCEPT !.alive = FALSE]
    /\ UNCHANGED <<early, held, announced>>

\* Mutant: only the request that waited is failed, and the channel goes on.
TimeOutKeepingChannel ==
    /\ pc = "run" /\ deadline
    /\ deadline' = FALSE
    /\ active' = None
    /\ calls' = Reply(active, Failed("timed out"))
    /\ UNCHANGED <<pc, parser, queue, closed, termination, early, events, held, pipeVars>>

TimeOut ==
    /\ pc = "run" /\ deadline
    /\ End("timed out")
    /\ UNCHANGED <<parser, deadline, stdin, stdout>>

\* A response is that of the active request, and of nobody if there is none.
TakeResponse(event) ==
    /\ active' = None
    /\ deadline' = FALSE
    /\ calls' = IF active = None THEN calls
                ELSE Reply(active, Complete(KindOf[active], event.ok, event.data))
    /\ UNCHANGED <<pc, queue, closed, termination, early, events, held, tmux, announced>>

ReadLine ==
    /\ pc = "run" /\ stdout # <<>>
    /\ stdout' = Tail(stdout)
    /\ LET pushed == PushLine(parser, Head(stdout))
           event == pushed.event
       IN  /\ parser' = pushed.parser
           /\ CASE event.kind = "response" -> TakeResponse(event)
                [] event.kind = "exit" -> End("exited") /\ UNCHANGED deadline
                [] OTHER ->
                       /\ events' = IF event.kind = "none" THEN events ELSE Append(events, event)
                       /\ UNCHANGED <<pc, active, deadline, queue, closed, termination, early,
                                      held, calls, tmux, announced>>
    /\ UNCHANGED stdin

\* The end of tmux's output, or a read that fails.
ReadEnd ==
    /\ pc = "run"
    /\ \/ /\ stdout = <<>> /\ ~tmux.alive
          /\ End(IF tmux.partial THEN "truncated"
                 ELSE IF parser.open > 0 THEN "malformed" ELSE "closed")
          /\ parser' = NoBlock
       \/ End("read failed") /\ UNCHANGED parser
    /\ UNCHANGED <<deadline, stdin, stdout>>

\* The next request, once none is active; its write fails when tmux is gone.
Receive ==
    /\ pc = "run" /\ active = None /\ queue # <<>>
    /\ IF tmux.alive
       THEN /\ queue' = Tail(queue)
            /\ stdin' = Append(stdin, Head(queue))
            /\ active' = Head(queue)
            /\ deadline' = TRUE
            /\ UNCHANGED <<pc, closed, termination, early, events, held, calls, tmux, announced>>
       ELSE End("write failed") /\ UNCHANGED <<stdin, deadline>>
    /\ UNCHANGED <<parser, stdout>>

\* recv gives None once every handle is dropped: the actor ends without a
\* word, and lets tmux leave by dropping its stdin.
ReceiveNone ==
    /\ pc = "run" /\ active = None /\ queue = <<>>
    /\ ~held
    /\ \A c \in Calls : calls[c].state \notin {"sending", "sent"}
    /\ pc' = "reaping"
    /\ UNCHANGED <<actorVars, held, calls, pipeVars>>

Reap ==
    /\ pc = "reaping"
    /\ ~tmux.alive
    /\ pc' = "done"
    /\ UNCHANGED <<actorVars, held, calls, pipeVars>>

-----------------------------------------------------------------------------
(* External: tmux                                                           *)

TmuxBegins ==
    /\ tmux.alive /\ tmux.serving = None /\ stdin # <<>>
    /\ stdin' = Tail(stdin)
    /\ stdout' = Append(stdout, Line("%begin", tmux.number, ""))
    /\ tmux' = [tmux EXCEPT !.serving = Head(stdin)]
    /\ UNCHANGED <<pc, actorVars, held, calls, announced>>

\* A command that fails says nothing that a caller reads.
TmuxAnswers(ok) ==
    /\ tmux.alive /\ tmux.serving # None
    /\ stdout' = stdout \o <<Line("", 0, tmux.serving),
                             Line(IF ok THEN "%end" ELSE "%error", tmux.number, "")>>
    /\ tmux' = [tmux EXCEPT !.serving = None, !.number = @ + 1,
                            !.ran = [@ EXCEPT ![tmux.serving] = IF ok THEN "ok" ELSE "error"]]
    /\ UNCHANGED <<pc, actorVars, held, calls, stdin, announced>>

TmuxAnnounces(line) ==
    /\ tmux.alive /\ tmux.serving = None /\ tmux.notices < MaxNotices
    /\ stdout' = Append(stdout, line)
    /\ tmux' = [tmux EXCEPT !.notices = @ + 1, !.alive = line.token # "%exit"]
    /\ announced' = IF SessionChanged(line) THEN Append(announced, line.text) ELSE announced
    /\ UNCHANGED <<pc, actorVars, held, calls, stdin>>

TmuxDies ==
    /\ tmux.alive
    /\ \E partial \in BOOLEAN :
           tmux' = [tmux EXCEPT !.alive = FALSE, !.partial = partial]
    /\ UNCHANGED <<pc, actorVars, held, calls, stdin, stdout, announced>>

-----------------------------------------------------------------------------
Init ==
    /\ pc = "attach"
    /\ parser = NoBlock
    /\ active = None
    /\ deadline = FALSE
    /\ queue = <<>>
    /\ closed = FALSE
    /\ termination = None
    /\ held = FALSE
    /\ calls = [c \in Calls |-> Unused]
    /\ early = <<>>
    /\ events = <<>>
    /\ stdin = <<Attach>>
    /\ stdout = <<>>
    /\ tmux = [alive |-> TRUE, partial |-> FALSE, serving |-> None, number |-> 1,
               ran |-> [c \in Calls \cup {Attach} |-> "no"], notices |-> 0]
    /\ announced = <<>>

Connect == Handshake \/ HandshakeEnds

Actor ==
    TimeOut \/ ReadLine \/ ReadEnd \/ Receive \/ ReceiveNone \/ Reap

Caller(c) == Ask(c) \/ Send(c) \/ Refuse(c) \/ Abandon(c)

Tmux ==
    \/ TmuxBegins
    \/ \E ok \in BOOLEAN : TmuxAnswers(ok)
    \/ \E line \in Notices : TmuxAnnounces(line)
    \/ TmuxDies

Next == Connect \/ Actor \/ (\E c \in Calls : Caller(c)) \/ DropHandle \/ Tmux

Spec == Init /\ [][Next]_vars

\* The actor's task is scheduled and its clock runs; callers await their sends.
\* Nothing is assumed of tmux.
FairSpec ==
    /\ Spec
    /\ WF_vars(TimeOut)
    /\ WF_vars(ReadLine)
    /\ WF_vars(Receive)
    /\ \A c \in Calls : WF_vars(Send(c) \/ Refuse(c))

-----------------------------------------------------------------------------
\* A caller gets the answer tmux gave to its own command: neither the late
\* answer to a request that timed out, nor one to a call that was abandoned,
\* nor the answer to the handshake (control_actor pairs a response with the
\* active request and never looks at the guard's number).
AnswersMatch ==
    \A c \in Calls :
        calls[c].state \in {"answered", "rejected"} =>
            /\ tmux.ran[c] # "no"
            /\ calls[c] = Complete(KindOf[c], tmux.ran[c] = "ok", <<c>>)

\* Whoever is refused or failed by the end of the channel is told its one
\* reason, the one that is reported last of all to the loop; by then nobody
\* still waits for a reply.
OneStory ==
    /\ \A c \in Calls :
           calls[c].state \in {"refused", "failed"} =>
               closed /\ termination # None /\ calls[c].value = <<termination>>
    /\ \A i \in 1..Len(events) :
           events[i].kind = "terminated" =>
               /\ i = Len(events)
               /\ events[i].text = termination /\ closed
               /\ \A c \in Calls : calls[c].state # "sent"

\* The texts of a stream that are not empty, in their order.
Keeps(stream, kept) ==
    \E place \in [1..Len(kept) -> 1..Len(stream)] :
        /\ \A i, j \in 1..Len(kept) : i < j => place[i] < place[j]
        /\ \A i \in 1..Len(kept) : kept[i] # "" /\ stream[place[i]] = kept[i]
        /\ \A n \in 1..Len(stream) : stream[n] # "" => \E i \in 1..Len(kept) : place[i] = n

\* The session that an event or a line tells of, if it does.
SessionOf(event) == IF event.kind = "session" THEN event.text ELSE ""
SessionIn(line) == IF SessionChanged(line) THEN line.text ELSE ""

\* The sessions among the events that were heard and the lines not read yet.
Stream(heard, unread) ==
    [i \in 1..(Len(heard) + Len(unread)) |->
        IF i <= Len(heard) THEN SessionOf(heard[i]) ELSE SessionIn(unread[i - Len(heard)])]

\* Every session tmux announced, during the handshake or after it, is with the
\* loop or still on its way there, once, in the order of the announcements.
SessionsInOrder == Keeps(Stream(events \o early, stdout), announced)

\* A call that was made is answered, refused or failed, whatever tmux does:
\* its deadline ends the channel, and the end of the channel fails the others.
CallsSettle ==
    \A c \in Calls :
        (calls[c].state \in {"sending", "sent"})
            ~> (calls[c].state \notin {"sending", "sent"})
=============================================================================
