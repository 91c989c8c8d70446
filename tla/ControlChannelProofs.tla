-------------------------- MODULE ControlChannelProofs --------------------------
(***************************************************************************)
(* How the control channel ends, that answers go where they belong and     *)
(* that no session is missed, for any number of calls, any capacity of the *)
(* queue and whatever tmux says.                                           *)
(*                                                                         *)
(* The argument: while the actor runs, a call that was sent is the active  *)
(* request or in the queue (Tracked), so that the end of the channel fails *)
(* every one of them; from then on the receiver is closed, and nothing is  *)
(* sent or reported any more (Told, Silent). A channel that ends without a *)
(* word has nobody left who could ask (Unasked).                           *)
(***************************************************************************)
EXTENDS ControlChannel, Integers, TLAPS

Commands == Calls \cup {Attach}
Lines == Notices \cup [token : {"", "%begin", "%end", "%error"}, id : Nat,
                       text : Commands \cup {""}]
Words == {line.text : line \in Lines}
Parsers == [open : {0} \cup {line.id : line \in Lines}, data : Seq(Words)]
Events == {Notice(line) : line \in Lines} \cup [kind : {"terminated"}, text : Reasons]
States ==
    {"idle", "sending", "sent", "answered", "rejected", "failed", "refused", "abandoned"}
Results == [state : States, value : Seq(Words \cup Reasons \cup {None, "true", "false"})]
Stages == {"attach", "refused", "run", "reaping", "done"}
Servers ==
    [alive : BOOLEAN, partial : BOOLEAN, serving : Commands \cup {None}, number : Nat,
     ran : [Commands -> {"no", "ok", "error"}], notices : Nat]

Types ==
    /\ pc \in Stages /\ parser \in Parsers
    /\ active \in Calls \cup {None} /\ queue \in Seq(Calls)
    /\ closed \in BOOLEAN /\ held \in BOOLEAN
    /\ termination \in Reasons \cup {None}
    /\ calls \in [Calls -> Results]
    /\ early \in Seq(Events) /\ events \in Seq(Events)
    /\ stdin \in Seq(Commands) /\ stdout \in Seq(Lines)
    /\ tmux \in Servers

\* While the actor runs it knows of every call that was sent.
Tracked == pc = "run" => \A c \in Calls : calls[c].state = "sent" => Pending(c)

\* The end of the channel is told once and for all, and to everyone.
Told ==
    /\ closed => pc \in {"reaping", "done"} /\ termination # None
    /\ closed => \A c \in Calls : calls[c].state # "sent"
    /\ \A c \in Calls :
           calls[c].state \in {"refused", "failed"} =>
               closed /\ calls[c].value = <<termination>>

Silent ==
    /\ \A i \in 1..Len(events) :
           events[i].kind = "terminated" =>
               i = Len(events) /\ events[i].text = termination /\ closed
    /\ \A i \in 1..Len(early) : early[i].kind # "terminated"

\* Nobody asks before there is a handle, nor of an actor that ended because
\* the last one was dropped.
Unasked ==
    pc # "run" /\ ~closed => ~held /\ \A c \in Calls : calls[c].state \notin {"sending", "sent"}

IInv == Types /\ Tracked /\ Told /\ Silent /\ Unasked

\* What the parser makes of a line stays in its sets.
LEMMA Pushes ==
    ASSUME NEW p \in Parsers, NEW line \in Lines
    PROVE  LET pushed == PushLine(p, line)
           IN  /\ pushed.parser \in Parsers
               /\ \/ pushed.event = Quiet
                  \/ pushed.event = Notice(line)
                  \/ \E ok \in BOOLEAN, data \in Seq(Words) : pushed.event = Response(ok, data)
<1>1. NoBlock \in Parsers
  BY DEF NoBlock, Parsers
<1>2. p.data \in Seq(Words) /\ line.text \in Words
  BY DEF Parsers, Words
<1>3. CASE p.open > 0 /\ Closes(p, line)
  <2>1. PushLine(p, line) = [parser |-> NoBlock, event |-> Response(line.token = "%end", p.data)]
    BY <1>3 DEF PushLine
  <2> DEFINE pushed == PushLine(p, line)
             ok == line.token = "%end"
  <2>2. pushed.parser = NoBlock /\ pushed.event = Response(ok, p.data)
    BY <2>1
  <2>3. ok \in BOOLEAN
    OBVIOUS
  <2> HIDE DEF pushed, ok
  <2>4. \E k \in BOOLEAN, data \in Seq(Words) : pushed.event = Response(k, data)
    BY <1>2, <2>2, <2>3
  <2> QED
    BY <1>1, <2>2, <2>4 DEF pushed
<1>4. CASE p.open > 0 /\ ~Closes(p, line)
  <2> DEFINE q == [p EXCEPT !.data = Append(@, line.text)]
  <2>1. PushLine(p, line) = [parser |-> q, event |-> Quiet]
    BY <1>4 DEF PushLine
  <2>2. Append(p.data, line.text) \in Seq(Words)
    BY <1>2
  <2>3. q \in Parsers
    BY <2>2 DEF Parsers
  <2> QED
    BY <2>1, <2>3
<1>5. CASE ~(p.open > 0) /\ IsGuard(line) /\ line.token = "%begin"
  <2> DEFINE q == [open |-> line.id, data |-> <<>>]
  <2>1. PushLine(p, line) = [parser |-> q, event |-> Quiet]
    BY <1>5 DEF PushLine
  <2>2. q \in Parsers
    BY DEF Parsers
  <2> QED
    BY <2>1, <2>2
<1>6. CASE ~(p.open > 0) /\ ~(IsGuard(line) /\ line.token = "%begin")
  BY <1>6 DEF PushLine
<1> QED
  BY <1>3, <1>4, <1>5, <1>6

\* The kinds of events, which tell them apart.
LEMMA Kinds ==
    /\ Quiet.kind = "none"
    /\ \A ok, data : /\ Response(ok, data).kind = "response"
                     /\ Response(ok, data).ok = ok
                     /\ Response(ok, data).data = data
    /\ \A line \in Lines : /\ Notice(line).kind \in {"none", "topology", "focus", "session", "exit"}
                           /\ Notice(line) \in Events
BY DEF Quiet, Response, Notice, Events

\* What a caller is told of the end of the channel.
LEMMA Failures ==
    ASSUME NEW reason \in Reasons
    PROVE  /\ Failed(reason) \in Results /\ Failed(reason).state = "failed"
           /\ Failed(reason).value = <<reason>>
<1>1. <<reason>> \in Seq(Words \cup Reasons \cup {None, "true", "false"})
  OBVIOUS
<1> QED
  BY <1>1 DEF Failed, Results, States

\* What a caller is told of a response.
LEMMA Sent ==
    ASSUME NEW kind \in {"snapshot", "jump", "focus"}, NEW ok \in BOOLEAN, NEW data \in Seq(Words)
    PROVE  /\ Complete(kind, ok, data) \in Results
           /\ Complete(kind, ok, data).state \in {"answered", "rejected"}
<1> DEFINE V == Words \cup Reasons \cup {None, "true", "false"}
<1>1. /\ <<>> \in Seq(V) /\ <<"true">> \in Seq(V) /\ <<"false">> \in Seq(V)
      /\ data \in Seq(V)
  OBVIOUS
<1> HIDE DEF V
<1>2. Results = [state : States, value : Seq(V)]
  BY DEF Results, V
<1>5. \A value \in Seq(V) : Answered(value) \in Results /\ Answered(value).state = "answered"
  BY <1>2 DEF Answered, States
<1>6. [state |-> "rejected", value |-> <<>>] \in Results
  BY <1>1, <1>2 DEF States
<1>7. CASE kind = "jump"
  BY <1>1, <1>5, <1>7 DEF Complete
<1>8. CASE kind # "jump" /\ ~ok
  BY <1>6, <1>8 DEF Complete
<1>9. CASE kind # "jump" /\ ok
  <2>1. CASE kind = "snapshot"
    BY <1>1, <1>5, <1>9, <2>1 DEF Complete
  <2>2. CASE kind = "focus"
    <3>1. Complete(kind, ok, data) = Answered(<<>>)
      BY <1>9, <2>2 DEF Complete
    <3>2. Answered(<<>>) \in Results /\ Answered(<<>>).state = "answered"
      BY <1>1, <1>5
    <3> QED
      BY <3>1, <3>2
  <2> QED
    BY <1>9, <2>1, <2>2
<1> QED
  BY <1>7, <1>8, <1>9

-----------------------------------------------------------------------------
(* Steps                                                                    *)

\* The loop of the actor is left with a reason.
LEMMA Ends ==
    ASSUME IInv, NEW reason \in Reasons, pc = "run", End(reason),
           parser' \in Parsers, stdin' \in Seq(Commands), stdout' \in Seq(Lines)
    PROVE  IInv'
<1> DEFINE told == [kind |-> "terminated", text |-> reason]
<1>1. /\ pc' = "reaping" /\ termination' = reason /\ closed' = TRUE
      /\ calls' = FailRequests(reason) /\ active' = None /\ queue' = <<>>
      /\ events' = Append(events, told)
      /\ tmux' = [tmux EXCEPT !.alive = FALSE]
      /\ early' = early /\ held' = held
  BY DEF End
<1>2. None \notin Reasons
  BY DEF None, Reasons
<1>3. told \in Events /\ told.kind = "terminated" /\ told.text = reason
  BY DEF Events
<1> HIDE DEF told
<1>4. ~closed
  BY DEF IInv, Told
<1>5. /\ calls' \in [Calls -> Results]
      /\ \A c \in Calls : /\ calls'[c].state # "sent"
                          /\ calls'[c].state \in {"refused", "failed"}
                                 => calls'[c].value = <<reason>>
  <2>1. /\ Failed(reason) \in Results /\ Failed(reason).state = "failed"
        /\ Failed(reason).value = <<reason>>
    BY Failures
  <2>2. ASSUME NEW c \in Calls
        PROVE  /\ calls'[c] = IF calls[c].state = "sent" THEN Failed(reason) ELSE calls[c]
               /\ calls[c] \in Results
               /\ calls[c].state \notin {"refused", "failed"}
    BY <1>1, <1>4 DEF FailRequests, IInv, Types, Tracked, Told
  <2>3. calls' = [c \in Calls |-> calls'[c]]
    BY <1>1 DEF FailRequests
  <2> QED
    BY <2>1, <2>2, <2>3
<1>6. Types'
  <2>1. tmux' \in Servers
    BY <1>1 DEF IInv, Types, Servers
  <2>2. events' \in Seq(Events) /\ early' \in Seq(Events)
    BY <1>1, <1>3 DEF IInv, Types
  <2>3. /\ pc' \in Stages /\ active' \in Calls \cup {None} /\ queue' \in Seq(Calls)
        /\ closed' \in BOOLEAN /\ held' \in BOOLEAN /\ termination' \in Reasons \cup {None}
    BY <1>1 DEF IInv, Types, Stages
  <2> QED
    BY <1>5, <2>1, <2>2, <2>3 DEF Types
<1>7. Silent'
  BY <1>1, <1>3, <1>4 DEF IInv, Types, Silent
<1>8. Tracked' /\ Told' /\ Unasked'
  BY <1>1, <1>2, <1>5 DEF Tracked, Told, Unasked
<1> QED
  BY <1>6, <1>7, <1>8 DEF IInv

\* A step of a caller: its result changes, and perhaps the queue grows.
LEMMA CallerStep ==
    ASSUME IInv, NEW c \in Calls, Caller(c)
    PROVE  IInv'
<1>1. /\ calls \in [Calls -> Results] /\ queue \in Seq(Calls)
      /\ termination \in Reasons \cup {None}
  BY DEF IInv, Types
<1>2. CASE Ask(c)
  <2>1. /\ held /\ calls[c].state = "idle" /\ calls' = [calls EXCEPT ![c].state = "sending"]
        /\ UNCHANGED <<pc, actorVars, held, pipeVars>>
    BY <1>2 DEF Ask
  <2>2. /\ calls' \in [Calls -> Results] /\ calls'[c].state = "sending"
        /\ \A d \in Calls : d # c => calls'[d] = calls[d]
    BY <1>1, <2>1 DEF Results, States
  <2> QED
    BY <2>1, <2>2 DEF IInv, Types, Tracked, Told, Silent, Unasked, Pending, actorVars, pipeVars
<1>3. CASE Send(c)
  <2>1. /\ calls[c].state = "sending" /\ ~closed /\ queue' = Append(queue, c)
        /\ calls' = [calls EXCEPT ![c].state = "sent"]
        /\ UNCHANGED <<pc, parser, active, deadline, closed, termination, early, events,
                       held, pipeVars>>
    BY <1>3 DEF Send
  <2>2. /\ calls' \in [Calls -> Results] /\ calls'[c].state = "sent"
        /\ \A d \in Calls : d # c => calls'[d] = calls[d]
    BY <1>1, <2>1 DEF Results, States
  <2>3. /\ queue' \in Seq(Calls) /\ Len(queue') = Len(queue) + 1
        /\ \A i \in 1..Len(queue) : i \in 1..Len(queue') /\ queue'[i] = queue[i]
        /\ Len(queue) + 1 \in 1..Len(queue') /\ queue'[Len(queue) + 1] = c
    BY <1>1, <2>1
  <2>4. Tracked'
    BY <2>1, <2>2, <2>3 DEF IInv, Tracked, Pending
  <2>5. pc = "run"
    BY <2>1 DEF IInv, Unasked
  <2> QED
    BY <2>1, <2>2, <2>3, <2>4, <2>5 DEF IInv, Types, Told, Silent, Unasked, pipeVars
<1>4. CASE Refuse(c)
  <2> DEFINE refusal == [state |-> "refused", value |-> <<termination>>]
  <2>1. /\ closed /\ calls' = [calls EXCEPT ![c] = refusal]
        /\ UNCHANGED <<pc, actorVars, held, pipeVars>>
    BY <1>4 DEF Refuse
  <2>2. <<termination>> \in Seq(Words \cup Reasons \cup {None, "true", "false"})
    BY <1>1
  <2>3. refusal \in Results /\ refusal.state = "refused" /\ refusal.value = <<termination>>
    BY <2>2 DEF Results, States
  <2> HIDE DEF refusal
  <2>4. /\ calls' \in [Calls -> Results] /\ calls'[c] = refusal
        /\ \A d \in Calls : d # c => calls'[d] = calls[d]
    BY <1>1, <2>1, <2>3
  <2> QED
    BY <2>1, <2>3, <2>4
       DEF IInv, Types, Tracked, Told, Silent, Unasked, Pending, actorVars, pipeVars
<1>5. CASE Abandon(c)
  <2> DEFINE nothing == [state |-> "abandoned", value |-> <<>>]
  <2>1. calls' = [calls EXCEPT ![c] = nothing] /\ UNCHANGED <<pc, actorVars, held, pipeVars>>
    BY <1>5 DEF Abandon
  <2>2. nothing \in Results /\ nothing.state = "abandoned"
    BY DEF Results, States
  <2> HIDE DEF nothing
  <2>3. /\ calls' \in [Calls -> Results] /\ calls'[c] = nothing
        /\ \A d \in Calls : d # c => calls'[d] = calls[d]
    BY <1>1, <2>1, <2>2
  <2> QED
    BY <2>1, <2>2, <2>3
       DEF IInv, Types, Tracked, Told, Silent, Unasked, Pending, actorVars, pipeVars
<1> QED
  BY <1>2, <1>3, <1>4, <1>5 DEF Caller

\* A step of tmux, which the channel hears of by its lines only.
LEMMA TmuxStep ==
    ASSUME IInv, Tmux
    PROVE  IInv'
<1>1. /\ UNCHANGED <<pc, actorVars, held, calls>>
      /\ stdin' \in Seq(Commands) /\ stdout' \in Seq(Lines)
      /\ tmux' \in Servers
  <2>1. /\ stdin \in Seq(Commands) /\ stdout \in Seq(Lines)
        /\ tmux \in Servers
    BY DEF IInv, Types
  <2>2. \A token \in {"", "%begin", "%end", "%error"}, n \in Nat, x \in Commands \cup {""} :
            Line(token, n, x) \in Lines
    BY DEF Line, Lines
  <2>3. CASE TmuxBegins
    <3>1. stdin # <<>> /\ tmux' = [tmux EXCEPT !.serving = Head(stdin)]
      BY <2>3 DEF TmuxBegins
    <3>2. Head(stdin) \in Commands /\ Tail(stdin) \in Seq(Commands)
      BY <2>1, <3>1
    <3>3. tmux' \in Servers
      BY <2>1, <3>1, <3>2 DEF Servers
    <3> DEFINE begin == Line("%begin", tmux.number, "")
    <3>4. begin \in Lines /\ stdout' = Append(stdout, begin)
      BY <2>1, <2>2, <2>3 DEF Servers, TmuxBegins
    <3> HIDE DEF begin
    <3>5. stdout' \in Seq(Lines)
      BY <2>1, <3>4
    <3> QED
      BY <2>3, <3>2, <3>3, <3>5 DEF TmuxBegins
  <2>4. ASSUME NEW ok \in BOOLEAN, TmuxAnswers(ok)
        PROVE  /\ UNCHANGED <<pc, actorVars, held, calls>>
               /\ stdin' \in Seq(Commands) /\ stdout' \in Seq(Lines)
               /\ tmux' \in Servers
    <3>1. tmux.serving \in Commands
      BY <2>1, <2>4 DEF TmuxAnswers, Servers
    <3> DEFINE data == Line("", 0, tmux.serving)
               guard == Line(IF ok THEN "%end" ELSE "%error", tmux.number, "")
    <3>2. data \in Lines /\ guard \in Lines
      BY <2>1, <2>2, <3>1 DEF Servers
    <3>3. stdout' = stdout \o <<data, guard>>
      BY <2>4 DEF TmuxAnswers
    <3> HIDE DEF data, guard
    <3>4. <<data, guard>> \in Seq(Lines)
      BY <3>2
    <3>5. stdout' \in Seq(Lines)
      BY <2>1, <3>3, <3>4
    <3> DEFINE ran == [tmux.ran EXCEPT ![tmux.serving] = IF ok THEN "ok" ELSE "error"]
    <3>6. ran \in [Commands -> {"no", "ok", "error"}]
      BY <2>1, <3>1 DEF Servers
    <3>7. tmux' = [tmux EXCEPT !.serving = None, !.number = @ + 1, !.ran = ran]
      BY <2>4 DEF TmuxAnswers
    <3> HIDE DEF ran
    <3>8. tmux.number + 1 \in Nat
      BY <2>1 DEF Servers
    <3>9. tmux' \in Servers
      BY <2>1, <3>6, <3>7, <3>8 DEF Servers
    <3> QED
      BY <2>1, <2>4, <3>5, <3>9 DEF TmuxAnswers
  <2>5. ASSUME NEW line \in Notices, TmuxAnnounces(line)
        PROVE  /\ UNCHANGED <<pc, actorVars, held, calls>>
               /\ stdin' \in Seq(Commands) /\ stdout' \in Seq(Lines)
               /\ tmux' \in Servers
    <3>1. stdout' = Append(stdout, line) /\ line \in Lines
      BY <2>5 DEF TmuxAnnounces, Lines
    <3>2. stdout' \in Seq(Lines)
      BY <2>1, <3>1
    <3> DEFINE alive == line.token # "%exit"
    <3>3. alive \in BOOLEAN /\ tmux' = [tmux EXCEPT !.notices = @ + 1, !.alive = alive]
      BY <2>5 DEF TmuxAnnounces
    <3> HIDE DEF alive
    <3>4. tmux.notices + 1 \in Nat
      BY <2>1 DEF Servers
    <3>5. tmux' \in Servers
      BY <2>1, <3>3, <3>4 DEF Servers
    <3> QED
      BY <2>1, <2>5, <3>2, <3>5 DEF TmuxAnnounces
  <2>6. CASE TmuxDies
    BY <2>1, <2>6 DEF TmuxDies, Servers
  <2> QED
    BY <2>3, <2>4, <2>5, <2>6 DEF Tmux
<1> QED
  BY <1>1 DEF IInv, Types, Tracked, Told, Silent, Unasked, Pending, actorVars

\* A step of the handshake: nobody can have asked yet.
LEMMA ConnectStep ==
    ASSUME IInv, Connect
    PROVE  IInv'
<1>1. /\ pc = "attach" /\ ~closed /\ ~held /\ parser \in Parsers /\ tmux \in Servers
      /\ early \in Seq(Events) /\ stdout \in Seq(Lines)
  BY DEF IInv, Types, Connect, Handshake, HandshakeEnds, Told, Unasked
<1>2. \A c \in Calls : calls[c].state \notin {"sending", "sent"}
  BY <1>1 DEF IInv, Unasked
<1>3. ASSUME ConnectFails, stdout' \in Seq(Lines) PROVE IInv'
  <2>1. /\ pc' = "refused" /\ tmux' = [tmux EXCEPT !.alive = FALSE]
        /\ UNCHANGED <<actorVars, held, calls, stdin>>
    BY <1>3 DEF ConnectFails
  <2>2. tmux' \in Servers
    BY <1>1, <2>1 DEF Servers
  <2> QED
    BY <1>1, <1>2, <1>3, <2>1, <2>2
       DEF IInv, Types, Stages, Tracked, Told, Silent, Unasked, actorVars
<1>4. CASE HandshakeEnds
  BY <1>1, <1>3, <1>4 DEF HandshakeEnds
<1>5. CASE Handshake
  <2> DEFINE pushed == PushLine(parser, Head(stdout))
             event == pushed.event
  <2>1. /\ stdout # <<>> /\ stdout' = Tail(stdout)
        /\ IF event.kind = "response" /\ event.ok
           THEN /\ pc' = "run" /\ held' = TRUE /\ parser' = NoBlock
                /\ events' = early /\ early' = <<>>
                /\ UNCHANGED <<active, deadline, queue, closed, termination, calls,
                               stdin, tmux, announced>>
           ELSE IF event.kind \in {"response", "exit"} THEN ConnectFails
           ELSE /\ parser' = pushed.parser
                /\ early' = IF event.kind = "session" THEN Append(early, event) ELSE early
                /\ UNCHANGED <<pc, active, deadline, queue, closed, termination,
                               events, held, calls, stdin, tmux, announced>>
    BY <1>5 DEF Handshake
  <2>2. stdout' \in Seq(Lines) /\ Head(stdout) \in Lines
    BY <1>1, <2>1
  <2>3. /\ pushed.parser \in Parsers
        /\ \/ event = Quiet \/ event = Notice(Head(stdout))
           \/ \E ok \in BOOLEAN, data \in Seq(Words) : event = Response(ok, data)
    BY <1>1, <2>2, Pushes
  <2> HIDE DEF pushed, event
  <2>4. event.kind = "session" => event \in Events /\ event.kind # "terminated"
    BY <2>2, <2>3, Kinds
  <2>5. CASE event.kind = "response" /\ event.ok
    <3>1. NoBlock \in Parsers
      BY DEF NoBlock, Parsers
    <3> QED
      BY <1>1, <1>2, <2>1, <2>2, <2>5, <3>1
         DEF IInv, Types, Stages, Tracked, Told, Silent, Unasked
  <2>6. CASE ~(event.kind = "response" /\ event.ok) /\ event.kind \in {"response", "exit"}
    BY <1>3, <2>1, <2>2, <2>6
  <2>7. CASE event.kind \notin {"response", "exit"}
    <3>1. /\ parser' \in Parsers
          /\ early' = IF event.kind = "session" THEN Append(early, event) ELSE early
          /\ UNCHANGED <<pc, active, deadline, queue, closed, termination,
                         events, held, calls, stdin, tmux>>
      BY <2>1, <2>3, <2>7
    <3>2. early' \in Seq(Events) /\ \A i \in 1..Len(early') : early'[i].kind # "terminated"
      BY <1>1, <2>4, <3>1 DEF IInv, Silent
    <3> QED
      BY <2>2, <3>1, <3>2 DEF IInv, Types, Tracked, Told, Silent, Unasked, Pending
  <2> QED
    BY <2>5, <2>6, <2>7
<1> QED
  BY <1>4, <1>5 DEF Connect

\* A step of the actor.
LEMMA ActorStep ==
    ASSUME IInv, Actor
    PROVE  IInv'
<1>1. /\ parser \in Parsers /\ stdin \in Seq(Commands) /\ stdout \in Seq(Lines)
      /\ queue \in Seq(Calls) /\ active \in Calls \cup {None} /\ events \in Seq(Events)
      /\ calls \in [Calls -> Results]
  BY DEF IInv, Types
<1>2. {"timed out", "truncated", "malformed", "closed", "exited", "read failed",
       "write failed"} \subseteq Reasons
  BY DEF Reasons
<1>3. CASE TimeOut
  BY <1>1, <1>2, <1>3, Ends DEF TimeOut
<1>4. CASE ReadEnd
  <2>1. pc = "run" /\ stdin' = stdin /\ stdout' = stdout
    BY <1>4 DEF ReadEnd
  <2>2. NoBlock \in Parsers
    BY DEF NoBlock, Parsers
  <2>3. PICK reason \in Reasons : End(reason) /\ parser' \in {parser, NoBlock}
    BY <1>2, <1>4 DEF ReadEnd
  <2> QED
    BY <1>1, <2>1, <2>2, <2>3, Ends
<1>5. CASE Receive
  <2>1. pc = "run" /\ active = None /\ queue # <<>> /\ UNCHANGED <<parser, stdout>>
    BY <1>5 DEF Receive
  <2>2. CASE ~tmux.alive
    BY <1>1, <1>2, <1>5, <2>1, <2>2, Ends DEF Receive
  <2>3. CASE tmux.alive
    <3>1. /\ queue' = Tail(queue) /\ stdin' = Append(stdin, Head(queue))
          /\ active' = Head(queue)
          /\ UNCHANGED <<pc, closed, termination, early, events, held, calls, tmux>>
      BY <1>5, <2>3 DEF Receive
    <3>2. /\ Head(queue) \in Calls /\ queue' \in Seq(Calls)
          /\ \A i \in 1..Len(queue) : queue[i] = Head(queue)
                                      \/ (i - 1 \in 1..Len(queue') /\ queue[i] = queue'[i - 1])
      BY <1>1, <2>1, <3>1
    <3>3. stdin' \in Seq(Commands)
      BY <1>1, <3>1, <3>2 DEF Commands
    <3>4. \A c \in Calls : Pending(c) => Pending(c)'
      BY <2>1, <3>1, <3>2, ChannelAssumption DEF Pending
    <3> QED
      BY <2>1, <3>1, <3>2, <3>3, <3>4 DEF IInv, Types, Tracked, Told, Silent, Unasked
  <2> QED
    BY <2>2, <2>3
<1>6. CASE ReceiveNone
  <2>1. /\ pc = "run" /\ pc' = "reaping" /\ ~held
        /\ \A c \in Calls : calls[c].state \notin {"sending", "sent"}
        /\ UNCHANGED <<actorVars, held, calls, pipeVars>>
    BY <1>6 DEF ReceiveNone
  <2> QED
    BY <2>1 DEF IInv, Types, Stages, Tracked, Told, Silent, Unasked, actorVars, pipeVars
<1>7. CASE Reap
  BY <1>7 DEF Reap, IInv, Types, Stages, Tracked, Told, Silent, Unasked, actorVars, pipeVars
<1>8. CASE ReadLine
  <2> DEFINE pushed == PushLine(parser, Head(stdout))
             event == pushed.event
  <2>1. /\ pc = "run" /\ stdout # <<>> /\ stdout' = Tail(stdout) /\ stdin' = stdin
        /\ parser' = pushed.parser
        /\ CASE event.kind = "response" -> TakeResponse(event)
             [] event.kind = "exit" -> End("exited") /\ UNCHANGED deadline
             [] OTHER ->
                    /\ events' = IF event.kind = "none" THEN events ELSE Append(events, event)
                    /\ UNCHANGED <<pc, active, deadline, queue, closed, termination, early,
                                   held, calls, tmux, announced>>
    BY <1>8 DEF ReadLine
  <2>2. stdout' \in Seq(Lines) /\ Head(stdout) \in Lines
    BY <1>1, <2>1
  <2>3. /\ pushed.parser \in Parsers
        /\ \/ event = Quiet \/ event = Notice(Head(stdout))
           \/ \E ok \in BOOLEAN, data \in Seq(Words) : event = Response(ok, data)
    BY <1>1, <2>2, Pushes
  <2> HIDE DEF pushed, event
  <2>4. CASE event.kind = "response"
    <3>1. TakeResponse(event)
      BY <2>1, <2>4
    <3>2. PICK ok \in BOOLEAN, data \in Seq(Words) : event.ok = ok /\ event.data = data
      BY <2>2, <2>3, <2>4, Kinds
    <3>3. /\ active' = None
          /\ calls' = IF active = None THEN calls
                      ELSE Reply(active, Complete(KindOf[active], ok, data))
          /\ UNCHANGED <<pc, queue, closed, termination, early, events, held, tmux>>
      BY <3>1, <3>2 DEF TakeResponse
    <3>4. CASE active = None
      BY <2>1, <2>2, <2>3, <3>3, <3>4
         DEF IInv, Types, Tracked, Told, Silent, Unasked, Pending
    <3>5. CASE active # None
      <4> DEFINE result == Complete(KindOf[active], ok, data)
      <4>1. active \in Calls /\ KindOf[active] \in {"snapshot", "jump", "focus"}
        BY <1>1, <3>5, ChannelAssumption
      <4>2. result \in Results /\ result.state \in {"answered", "rejected"}
        BY <4>1, Sent
      <4>3. calls' = Reply(active, result)
        BY <3>3, <3>5
      <4> HIDE DEF result
      <4>4. /\ calls' \in [Calls -> Results] /\ calls'[active].state # "sent"
            /\ calls'[active] = calls[active]
               \/ calls'[active].state \notin {"refused", "failed", "sending"}
            /\ \A c \in Calls : c # active => calls'[c] = calls[c]
        BY <1>1, <4>1, <4>2, <4>3 DEF Reply
      <4>5. Tracked'
        BY <2>1, <3>3, <4>1, <4>4 DEF IInv, Tracked, Pending
      <4>6. Told'
        BY <2>1, <3>3, <4>4 DEF IInv, Told
      <4> QED
        BY <2>1, <2>2, <2>3, <3>3, <4>4, <4>5, <4>6 DEF IInv, Types, Silent, Unasked
    <3> QED
      BY <3>4, <3>5
  <2>5. CASE event.kind = "exit"
    <3>1. End("exited")
      BY <2>1, <2>5
    <3> QED
      BY <1>1, <1>2, <2>1, <2>2, <2>3, <3>1, Ends
  <2>6. CASE event.kind \notin {"response", "exit"}
    <3>1. /\ events' = IF event.kind = "none" THEN events ELSE Append(events, event)
          /\ UNCHANGED <<pc, active, deadline, queue, closed, termination, early,
                         held, calls, tmux>>
      BY <2>1, <2>6
    <3>2. event.kind # "none" => event \in Events /\ event.kind # "terminated"
      BY <2>2, <2>3, <2>6, Kinds
    <3>3. ~closed
      BY <2>1 DEF IInv, Told
    <3>4. events' \in Seq(Events)
      BY <1>1, <3>1, <3>2
    <3>5. Silent'
      BY <1>1, <3>1, <3>2, <3>3 DEF IInv, Silent
    <3> QED
      BY <2>1, <2>2, <2>3, <3>1, <3>4, <3>5 DEF IInv, Types, Tracked, Told, Unasked, Pending
  <2> QED
    BY <2>4, <2>5, <2>6
<1> QED
  BY <1>3, <1>4, <1>5, <1>6, <1>7, <1>8 DEF Actor

\* The channel starts with nobody who knows of it.
LEMMA Starts == ASSUME Init PROVE IInv
<1>1. Unused \in Results /\ Unused.state = "idle"
  BY DEF Unused, Results, States
<1>2. calls \in [Calls -> Results] /\ \A c \in Calls : calls[c].state = "idle"
  BY <1>1 DEF Init
<1>3. NoBlock \in Parsers
  BY DEF NoBlock, Parsers
<1>4. stdin \in Seq(Commands)
  BY DEF Init, Commands
<1>5. [c \in Calls \cup {Attach} |-> "no"] \in [Commands -> {"no", "ok", "error"}]
  BY DEF Commands
<1>6. tmux \in Servers
  BY <1>5 DEF Init, Servers
<1>7. /\ pc = "attach" /\ parser = NoBlock /\ active = None /\ queue = <<>> /\ closed = FALSE
      /\ termination = None /\ held = FALSE /\ early = <<>> /\ events = <<>> /\ stdout = <<>>
  BY DEF Init
<1>8. Types
  <2>1. /\ queue \in Seq(Calls) /\ early \in Seq(Events) /\ events \in Seq(Events)
        /\ stdout \in Seq(Lines)
    BY <1>7
  <2>2. /\ pc \in Stages /\ active \in Calls \cup {None} /\ termination \in Reasons \cup {None}
        /\ closed \in BOOLEAN /\ held \in BOOLEAN
    BY <1>7 DEF Stages
  <2> QED
    BY <1>2, <1>3, <1>4, <1>6, <1>7, <2>1, <2>2 DEF Types
<1>9. Tracked /\ Told /\ Silent /\ Unasked
  BY <1>2, <1>7 DEF Tracked, Told, Silent, Unasked
<1> QED
  BY <1>8, <1>9 DEF IInv

-----------------------------------------------------------------------------
(* Theorems                                                                 *)

\* The invariant holds always.
LEMMA Invariance == Spec => []IInv
<1>1. Init => IInv
  BY Starts
<1>2. IInv /\ [Next]_vars => IInv'
  <2> SUFFICES ASSUME IInv, [Next]_vars PROVE IInv'
    OBVIOUS
  <2>1. CASE UNCHANGED vars
    BY <2>1 DEF vars, actorVars, pipeVars, IInv, Types, Tracked, Told, Silent, Unasked, Pending
  <2>2. CASE DropHandle
    BY <2>2 DEF DropHandle, actorVars, pipeVars, IInv, Types, Tracked, Told, Silent, Unasked,
                Pending
  <2> QED
    BY <2>1, <2>2, ConnectStep, ActorStep, CallerStep, TmuxStep DEF Next
<1> QED
  BY <1>1, <1>2, PTL DEF Spec

\* The variables of ControlChannel stay in their sets, whatever tmux says.
THEOREM TypeCorrect == Spec => []Types
<1>1. IInv => Types
  BY DEF IInv
<1> QED
  BY <1>1, Invariance, PTL

\* Everybody who is refused or failed hears the same reason as the loop, and
\* nobody is left waiting for the reply of a channel that reported its end.
THEOREM OneEnd == Spec => []OneStory
<1>1. IInv => OneStory
  BY DEF IInv, Told, Silent, OneStory
<1> QED
  BY <1>1, Invariance, PTL

-----------------------------------------------------------------------------
(* That an answer goes to the call it answers, although the actor never     *)
(* looks at the number of a guard and requests are abandoned, time out and  *)
(* are overtaken by announcements.                                          *)
(*                                                                          *)
(* The argument: one command at a time is on its way through tmux, and it   *)
(* is that of the active request. Shape says where it may be: not written   *)
(* (Resting), written, served, or answered, with the rest of the answer     *)
(* still to be read. What is announced in between carries no guard. The     *)
(* end of the channel takes tmux with it, so that no late answer is left    *)
(* for anybody.                                                             *)

\* The command that is on its way through tmux, if there is one.
InFlight == IF pc = "attach" THEN Attach ELSE active

Block(n, data) == [open |-> n, data |-> data]

Guardless(out) == \A i \in 1..Len(out) : ~IsGuard(out[i])

Begin(n) == Line("%begin", n, "")
Text(x) == Line("", 0, x)
Closing(x, n, t) == Line(IF t.ran[x] = "ok" THEN "%end" ELSE "%error", n, "")
Answer(x, t) == Response(t.ran[x] = "ok", <<x>>)

\* Of a command x, the parser p, the lines out that are not read, the commands
\* in that tmux has not read, and tmux t itself. Nothing is asked of tmux.
Resting(x, p, out, in, t) ==
    /\ x = None /\ p = NoBlock /\ in = <<>> /\ t.serving = None
    /\ Guardless(out)

\* The command is written and not read.
Written(x, p, out, in, t) ==
    /\ x \in Commands /\ p = NoBlock /\ in = <<x>> /\ t.serving = None
    /\ t.ran[x] = "no"
    /\ Guardless(out)

\* tmux serves it: its first guard is the last line there is, or was read.
Served(x, p, out, in, t) ==
    /\ x \in Commands /\ in = <<>> /\ t.serving = x /\ t.ran[x] = "no"
    /\ \/ out = <<>> /\ p = Block(t.number, <<>>)
       \/ /\ out # <<>> /\ p = NoBlock /\ out[Len(out)] = Begin(t.number)
          /\ \A i \in 1..(Len(out) - 1) : ~IsGuard(out[i])

\* tmux answered it: the lines of the answer are those at b, b + 1 and b + 2,
\* of which the ones before the first line of out are read.
AnsweredAt(x, p, out, in, t, b, n) ==
    /\ x \in Commands /\ in = <<>> /\ t.serving = None
    /\ t.ran[x] \in {"ok", "error"}
    /\ b >= -1 /\ b + 2 <= Len(out)
    /\ \/ b > 0 /\ p = NoBlock /\ out[b] = Begin(n)
       \/ b = 0 /\ p = Block(n, <<>>)
       \/ b = -1 /\ p = Block(n, <<x>>)
    /\ b >= 0 => out[b + 1] = Text(x)
    /\ out[b + 2] = Closing(x, n, t)
    /\ \A i \in 1..Len(out) : i \notin {b, b + 1, b + 2} => ~IsGuard(out[i])

Shape(x, p, out, in, t) ==
    \/ Resting(x, p, out, in, t) \/ Written(x, p, out, in, t) \/ Served(x, p, out, in, t)
    \/ \E b \in Int, n \in Nat \ {0} : AnsweredAt(x, p, out, in, t, b, n)

\* One command at a time is with tmux, as long as anybody reads its answers
\* or tmux gives any.
OneAtATime ==
    /\ tmux.number > 0
    /\ pc \in {"attach", "run"} \/ tmux.alive => Shape(InFlight, parser, stdout, stdin, tmux)

Holds(q, c) == \E i \in 1..Len(q) : q[i] = c

\* No call is made twice, or run before it is active.
Once ==
    /\ pc = "attach" => active = None
    /\ \A i, j \in 1..Len(queue) : queue[i] = queue[j] => i = j
    /\ \A c \in Calls :
           /\ ~(c = active /\ Holds(queue, c))
           /\ c = active \/ Holds(queue, c) => calls[c].state \in {"sent", "abandoned"}
           /\ calls[c].state \in {"idle", "sending"} \/ Holds(queue, c) => tmux.ran[c] = "no"

AInv == OneAtATime /\ Once /\ AnswersMatch

-----------------------------------------------------------------------------
(* Reading the lines of an answer                                           *)

\* A line that is no guard, outside a block, is no response.
LEMMA NoResponse ==
    ASSUME NEW line \in Lines, ~IsGuard(line)
    PROVE  /\ PushLine(NoBlock, line).parser = NoBlock
           /\ PushLine(NoBlock, line).event.kind # "response"
<1>1. PushLine(NoBlock, line) = [parser |-> NoBlock, event |-> Notice(line)]
  BY DEF PushLine, NoBlock
<1> QED
  BY <1>1, Kinds

\* The first guard opens a block.
LEMMA BeginPushed ==
    ASSUME NEW n \in Nat \ {0}
    PROVE  LET pushed == PushLine(NoBlock, Begin(n))
           IN  pushed.parser = Block(n, <<>>) /\ pushed.event.kind # "response"
<1> DEFINE line == Begin(n)
<1>1. line.token = "%begin" /\ line.id = n /\ n > 0 /\ NoBlock.open = 0
  BY DEF Line, Begin, NoBlock
<1> HIDE DEF line
<1>2. IsGuard(line) /\ ~(NoBlock.open > 0)
  BY <1>1 DEF IsGuard
<1>3. PushLine(NoBlock, line) = [parser |-> [open |-> line.id, data |-> <<>>], event |-> Quiet]
  BY <1>1, <1>2 DEF PushLine
<1>4. Quiet.kind # "response" /\ [open |-> line.id, data |-> <<>>] = Block(n, <<>>)
  BY <1>1 DEF Quiet, Block
<1>5. PushLine(NoBlock, line) = [parser |-> Block(n, <<>>), event |-> Quiet]
  BY <1>3, <1>4
<1> QED
  BY <1>4, <1>5 DEF line

\* The text of the answer is the data of that block.
LEMMA TextPushed ==
    ASSUME NEW n \in Nat \ {0}, NEW x
    PROVE  LET pushed == PushLine(Block(n, <<>>), Text(x))
           IN  pushed.parser = Block(n, <<x>>) /\ pushed.event.kind # "response"
<1> DEFINE p == Block(n, <<>>)
           line == Text(x)
           q == [p EXCEPT !.data = Append(@, line.text)]
<1>1. n > 0
  OBVIOUS
<1>2. p.open = n /\ p.data = <<>> /\ line.token = "" /\ line.text = x
  BY DEF Block, Line, Text
<1>3. q = Block(n, <<x>>)
  <2>1. Append(<<>>, x) = <<x>>
    OBVIOUS
  <2>2. [p EXCEPT !.data = <<x>>] = Block(n, <<x>>)
    BY DEF Block
  <2> QED
    BY <1>2, <2>1, <2>2
<1> HIDE DEF p, line
<1>4. p.open > 0 /\ ~Closes(p, line)
  BY <1>1, <1>2 DEF Closes, IsGuard
<1>5. PushLine(p, line) = [parser |-> q, event |-> Quiet]
  BY <1>4 DEF PushLine
<1>6. Quiet.kind # "response"
  BY DEF Quiet
<1>7. PushLine(p, line) = [parser |-> Block(n, <<x>>), event |-> Quiet]
  BY <1>3, <1>5
<1> QED
  BY <1>6, <1>7 DEF p, line

\* The last guard closes it, and makes the response.
LEMMA ClosingPushed ==
    ASSUME NEW n \in Nat \ {0}, NEW x, NEW t
    PROVE  LET pushed == PushLine(Block(n, <<x>>), Closing(x, n, t))
           IN  pushed.parser = NoBlock /\ pushed.event = Answer(x, t)
<1> DEFINE p == Block(n, <<x>>)
           line == Closing(x, n, t)
           ok == t.ran[x] = "ok"
<1>1. n > 0
  OBVIOUS
<1>2. p.open = n /\ p.data = <<x>> /\ line.id = n
  BY DEF Block, Line, Closing
<1>3. line.token = IF ok THEN "%end" ELSE "%error"
  BY DEF Line, Closing
<1>4. line.token \in {"%end", "%error"} /\ line.token # "%begin" /\ ((line.token = "%end") = ok)
  BY <1>3
<1> HIDE DEF p, line, ok
<1>5. p.open > 0 /\ Closes(p, line)
  BY <1>1, <1>2, <1>4 DEF Closes, IsGuard
<1>6. PushLine(p, line) = [parser |-> NoBlock, event |-> Response(line.token = "%end", p.data)]
  BY <1>5 DEF PushLine
<1>7. PushLine(p, line) = [parser |-> NoBlock, event |-> Response(ok, <<x>>)]
  BY <1>2, <1>4, <1>6
<1> QED
  BY <1>7 DEF p, line, ok, Answer

\* The next line leaves the command where it was or a line further, and is no
\* response; or it is the response to the command, which is then over.
LEMMA ReadShape ==
    ASSUME NEW x, NEW p, NEW out \in Seq(Lines), NEW in, NEW t, out # <<>>,
           t.number \in Nat \ {0}, Shape(x, p, out, in, t)
    PROVE  LET pushed == PushLine(p, Head(out))
           IN  \/ /\ pushed.event.kind # "response"
                  /\ Shape(x, pushed.parser, Tail(out), in, t)
               \/ /\ x \in Commands /\ t.ran[x] \in {"ok", "error"}
                  /\ pushed.event = Answer(x, t)
                  /\ pushed.parser = NoBlock
                  /\ Resting(None, NoBlock, Tail(out), in, t)
<1> DEFINE pushed == PushLine(p, Head(out))
           rest == Tail(out)
<1>1. /\ Head(out) = out[1] /\ out[1] \in Lines /\ 1 \in 1..Len(out)
      /\ rest \in Seq(Lines) /\ Len(rest) = Len(out) - 1 /\ Len(out) \in Nat \ {0}
      /\ \A i \in 1..Len(rest) : rest[i] = out[i + 1] /\ i + 1 \in 1..Len(out)
  OBVIOUS
<1>2. ASSUME p = NoBlock, ~IsGuard(out[1])
      PROVE  pushed.parser = NoBlock /\ pushed.event.kind # "response"
  BY <1>1, <1>2, NoResponse
<1> HIDE DEF rest
<1>3. CASE Resting(x, p, out, in, t)
  <2>1. p = NoBlock /\ Guardless(out)
    BY <1>3 DEF Resting
  <2>2. pushed.parser = NoBlock /\ pushed.event.kind # "response" /\ Guardless(rest)
    BY <1>1, <1>2, <2>1 DEF Guardless
  <2> HIDE DEF pushed
  <2>3. Resting(x, pushed.parser, rest, in, t)
    BY <1>3, <2>2 DEF Resting
  <2> QED
    BY <2>2, <2>3 DEF Shape, pushed, rest
<1>4. CASE Written(x, p, out, in, t)
  <2>1. p = NoBlock /\ Guardless(out)
    BY <1>4 DEF Written
  <2>2. pushed.parser = NoBlock /\ pushed.event.kind # "response" /\ Guardless(rest)
    BY <1>1, <1>2, <2>1 DEF Guardless
  <2> HIDE DEF pushed
  <2>3. Written(x, pushed.parser, rest, in, t)
    BY <1>4, <2>2 DEF Written
  <2> QED
    BY <2>2, <2>3 DEF Shape, pushed, rest
<1>5. CASE Served(x, p, out, in, t)
  <2>1. /\ p = NoBlock /\ out[Len(out)] = Begin(t.number)
        /\ \A i \in 1..(Len(out) - 1) : ~IsGuard(out[i])
    BY <1>5 DEF Served
  <2>2. CASE Len(out) = 1
    <3>1. pushed.parser = Block(t.number, <<>>) /\ pushed.event.kind # "response"
      BY <1>1, <2>1, <2>2, BeginPushed
    <3>2. rest = <<>>
      BY <1>1, <2>2
    <3> HIDE DEF pushed
    <3>3. Served(x, pushed.parser, rest, in, t)
      BY <1>5, <3>1, <3>2 DEF Served
    <3> QED
      BY <3>1, <3>3 DEF Shape, pushed, rest
  <2>3. CASE Len(out) # 1
    <3>1. pushed.parser = NoBlock /\ pushed.event.kind # "response"
      BY <1>1, <1>2, <2>1, <2>3
    <3>2. /\ rest # <<>> /\ rest[Len(rest)] = Begin(t.number)
          /\ \A i \in 1..(Len(rest) - 1) : ~IsGuard(rest[i])
      BY <1>1, <2>1, <2>3
    <3> HIDE DEF pushed
    <3>3. Served(x, pushed.parser, rest, in, t)
      BY <1>5, <3>1, <3>2 DEF Served
    <3> QED
      BY <3>1, <3>3 DEF Shape, pushed, rest
  <2> QED
    BY <2>2, <2>3
<1>6. ASSUME NEW b \in Int, NEW n \in Nat \ {0}, AnsweredAt(x, p, out, in, t, b, n)
      PROVE  \/ /\ pushed.event.kind # "response"
                /\ Shape(x, pushed.parser, rest, in, t)
             \/ /\ x \in Commands /\ t.ran[x] \in {"ok", "error"}
                /\ pushed.event = Answer(x, t)
                /\ pushed.parser = NoBlock
                /\ Resting(None, NoBlock, rest, in, t)
  <2>1. /\ x \in Commands /\ in = <<>> /\ t.serving = None
        /\ t.ran[x] \in {"ok", "error"}
        /\ b >= -1 /\ b + 2 <= Len(out)
        /\ \/ b > 0 /\ p = NoBlock /\ out[b] = Begin(n)
           \/ b = 0 /\ p = Block(n, <<>>)
           \/ b = -1 /\ p = Block(n, <<x>>)
        /\ b >= 0 => out[b + 1] = Text(x)
        /\ out[b + 2] = Closing(x, n, t)
        /\ \A i \in 1..Len(out) : i \notin {b, b + 1, b + 2} => ~IsGuard(out[i])
    BY <1>6 DEF AnsweredAt
  <2>2. ASSUME b >= 0, pushed.event.kind # "response",
               \/ b - 1 > 0 /\ pushed.parser = NoBlock
               \/ b - 1 = 0 /\ pushed.parser = Block(n, <<>>)
               \/ b - 1 = -1 /\ pushed.parser = Block(n, <<x>>)
        PROVE  /\ pushed.event.kind # "response"
               /\ Shape(x, pushed.parser, rest, in, t)
    <3> DEFINE c == b - 1
    <3>1. c \in Int /\ c >= -1 /\ c + 2 <= Len(rest) /\ b = c + 1
      BY <1>1, <1>6, <2>1, <2>2
    <3>2. c > 0 => rest[c] = Begin(n)
      BY <1>1, <1>6, <2>1, <3>1
    <3>3. c >= 0 => rest[c + 1] = Text(x)
      BY <1>1, <1>6, <2>1, <3>1
    <3>4. rest[c + 2] = Closing(x, n, t)
      BY <1>1, <1>6, <2>1, <3>1
    <3>5. \A i \in 1..Len(rest) : i \notin {c, c + 1, c + 2} => ~IsGuard(rest[i])
      BY <1>1, <1>6, <2>1, <3>1
    <3>6. \/ c > 0 /\ pushed.parser = NoBlock
          \/ c = 0 /\ pushed.parser = Block(n, <<>>)
          \/ c = -1 /\ pushed.parser = Block(n, <<x>>)
      BY <2>2
    <3> HIDE DEF c, pushed
    <3>7. AnsweredAt(x, pushed.parser, rest, in, t, c, n)
      BY <2>1, <3>1, <3>2, <3>3, <3>4, <3>5, <3>6 DEF AnsweredAt
    <3> QED
      BY <2>2, <3>1, <3>7 DEF Shape
  <2>3. CASE b > 1
    <3>1. p = NoBlock /\ ~IsGuard(out[1])
      BY <1>1, <1>6, <2>1, <2>3
    <3>2. pushed.parser = NoBlock /\ pushed.event.kind # "response"
      BY <1>2, <3>1
    <3>3. b >= 0 /\ b - 1 > 0
      BY <2>3
    <3> HIDE DEF pushed
    <3> QED
      BY <2>2, <3>2, <3>3
  <2>4. CASE b = 1
    <3>1. p = NoBlock /\ out[1] = Begin(n)
      BY <1>6, <2>1, <2>4
    <3>2. pushed.parser = Block(n, <<>>) /\ pushed.event.kind # "response"
      BY <1>1, <1>6, <3>1, BeginPushed
    <3>3. b >= 0 /\ b - 1 = 0
      BY <2>4
    <3> HIDE DEF pushed
    <3> QED
      BY <2>2, <3>2, <3>3
  <2>5. CASE b = 0
    <3>1. p = Block(n, <<>>) /\ out[1] = Text(x)
      BY <1>6, <2>1, <2>5
    <3>2. pushed.parser = Block(n, <<x>>) /\ pushed.event.kind # "response"
      BY <1>1, <1>6, <3>1, TextPushed
    <3>3. b >= 0 /\ b - 1 = -1
      BY <2>5
    <3> HIDE DEF pushed
    <3> QED
      BY <2>2, <3>2, <3>3
  <2>6. CASE b = -1
    <3>1. p = Block(n, <<x>>) /\ out[1] = Closing(x, n, t)
      BY <1>6, <2>1, <2>6
    <3>2. pushed.parser = NoBlock /\ pushed.event = Answer(x, t)
      BY <1>1, <1>6, <3>1, ClosingPushed
    <3>3. Guardless(rest)
      BY <1>1, <1>6, <2>1, <2>6 DEF Guardless
    <3> HIDE DEF pushed
    <3>4. Resting(None, NoBlock, rest, in, t)
      BY <2>1, <3>3 DEF Resting
    <3> QED
      BY <2>1, <3>2, <3>4
  <2>7. b > 1 \/ b = 1 \/ b = 0 \/ b = -1
    BY <1>6, <2>1
  <2> QED
    BY <2>3, <2>4, <2>5, <2>6, <2>7
<1> QED
  BY <1>3, <1>4, <1>5, <1>6 DEF Shape, rest

-----------------------------------------------------------------------------
(* Steps                                                                    *)

\* What the steps are told of the types.
LEMMA Typed ==
    ASSUME IInv
    PROVE  /\ calls \in [Calls -> Results] /\ queue \in Seq(Calls)
           /\ active \in Calls \cup {None} /\ stdout \in Seq(Lines) /\ stdin \in Seq(Commands)
           /\ tmux \in Servers /\ tmux.number \in Nat
           /\ tmux.ran \in [Calls \cup {Attach} -> {"no", "ok", "error"}]
BY DEF IInv, Types, Servers, Commands

\* A call that was answered before the step, or that the step does not answer.
LEMMA KeepAnswers ==
    ASSUME AnswersMatch,
           \A c \in Calls :
               calls'[c].state \in {"answered", "rejected"} =>
                   calls'[c] = calls[c] /\ tmux'.ran[c] = tmux.ran[c]
    PROVE  AnswersMatch'
BY DEF AnswersMatch

\* The end of the channel takes tmux with it.
LEMMA EndAnswers ==
    ASSUME IInv, AInv, NEW reason \in Reasons, End(reason)
    PROVE  AInv'
<1>1. /\ pc' = "reaping" /\ active' = None /\ queue' = <<>>
      /\ calls' = FailRequests(reason)
      /\ tmux' = [tmux EXCEPT !.alive = FALSE]
  BY DEF End
<1>2. /\ tmux'.number = tmux.number /\ tmux'.ran = tmux.ran /\ ~tmux'.alive
  BY <1>1, Typed DEF Servers
<1>3. OneAtATime'
  BY <1>1, <1>2 DEF AInv, OneAtATime
<1>4. Failed(reason).state = "failed"
  BY Failures
<1>5. \A c \in Calls : calls'[c] = calls[c] \/ calls'[c].state = "failed"
  BY <1>1, <1>4 DEF FailRequests
<1>6. Once'
  <2>1. \A c \in Calls : ~Holds(queue', c) /\ c # active'
    BY <1>1, ChannelAssumption DEF Holds
  <2> QED
    BY <1>1, <1>2, <1>5, <2>1 DEF AInv, Once
<1>7. AnswersMatch'
  BY <1>2, <1>5, KeepAnswers DEF AInv
<1> QED
  BY <1>3, <1>6, <1>7 DEF AInv

\* A caller adds to the queue what was never there.
LEMMA CallerAnswers ==
    ASSUME IInv, AInv, NEW c \in Calls, Caller(c)
    PROVE  AInv'
<1>1. UNCHANGED <<pc, parser, active, stdin, stdout, tmux>>
  BY DEF Caller, Ask, Send, Refuse, Abandon, actorVars, pipeVars
<1>2. OneAtATime'
  BY <1>1 DEF AInv, OneAtATime, InFlight
<1>3. /\ \A d \in Calls : d # c => calls'[d] = calls[d]
      /\ \/ /\ queue' = queue
            /\ \/ calls[c].state = "idle" /\ calls'[c].state = "sending"
               \/ calls[c].state = "sending" /\ calls'[c].state = "refused"
               \/ calls[c].state \in {"sending", "sent"} /\ calls'[c].state = "abandoned"
         \/ /\ queue' = Append(queue, c)
            /\ calls[c].state = "sending" /\ calls'[c].state = "sent"
  BY Typed DEF Caller, Ask, Send, Refuse, Abandon, actorVars, Results
<1>4. AnswersMatch'
  BY <1>1, <1>3, KeepAnswers DEF AInv
<1>5. Once'
  <2>1. CASE queue' = queue
    <3>1. \A d \in Calls : Holds(queue', d) <=> Holds(queue, d)
      BY <2>1 DEF Holds
    <3>2. \A d \in Calls :
              /\ d = active \/ Holds(queue, d) => calls'[d].state \in {"sent", "abandoned"}
              /\ calls'[d].state \in {"idle", "sending"} => calls[d].state \in {"idle", "sending"}
      BY <1>3, <2>1 DEF AInv, Once
    <3> QED
      BY <1>1, <2>1, <3>1, <3>2 DEF AInv, Once
  <2>2. CASE queue' = Append(queue, c) /\ calls[c].state = "sending" /\ calls'[c].state = "sent"
    <3>1. c # active /\ ~Holds(queue, c) /\ tmux.ran[c] = "no"
      BY <2>2 DEF AInv, Once
    <3>2. /\ Len(queue') = Len(queue) + 1 /\ Len(queue) \in Nat
          /\ \A i \in 1..Len(queue) : queue'[i] = queue[i]
          /\ queue'[Len(queue) + 1] = c
      BY <2>2, Typed
    <3>3. \A i, j \in 1..Len(queue') : queue'[i] = queue'[j] => i = j
      <4>1. \A i \in 1..Len(queue') : i \in 1..Len(queue) \/ i = Len(queue) + 1
        BY <3>2
      <4>2. \A i \in 1..Len(queue) : queue[i] # c
        BY <3>1 DEF Holds
      <4> QED
        BY <3>2, <4>1, <4>2 DEF AInv, Once
    <3>4. \A d \in Calls : Holds(queue', d) <=> (Holds(queue, d) \/ d = c)
      BY <3>2 DEF Holds
    <3> QED
      BY <1>1, <1>3, <2>2, <3>1, <3>3, <3>4 DEF AInv, Once
  <2> QED
    BY <1>3, <2>1, <2>2
<1> QED
  BY <1>2, <1>4, <1>5 DEF AInv

\* The handshake reads the answer to the attach command, which is nobody's.
LEMMA ConnectAnswers ==
    ASSUME IInv, AInv, Connect
    PROVE  AInv'
<1>1. /\ pc = "attach" /\ active = None /\ Shape(Attach, parser, stdout, stdin, tmux)
      /\ tmux.number \in Nat \ {0}
  BY Typed DEF Connect, Handshake, HandshakeEnds, AInv, OneAtATime, Once, InFlight
<1>2. ASSUME ConnectFails PROVE AInv'
  <2>1. /\ pc' = "refused" /\ tmux' = [tmux EXCEPT !.alive = FALSE]
        /\ UNCHANGED <<active, queue, calls>>
    BY <1>2 DEF ConnectFails, actorVars
  <2>2. tmux'.number = tmux.number /\ tmux'.ran = tmux.ran /\ ~tmux'.alive
    BY <2>1, Typed DEF Servers
  <2>3. AnswersMatch'
    BY <2>1, <2>2, KeepAnswers DEF AInv
  <2> QED
    BY <2>1, <2>2, <2>3 DEF AInv, OneAtATime, Once, Holds
<1>3. CASE HandshakeEnds
  BY <1>2, <1>3 DEF HandshakeEnds
<1>4. CASE Handshake
  <2> DEFINE pushed == PushLine(parser, Head(stdout))
             event == pushed.event
  <2>1. /\ stdout # <<>> /\ stdout' = Tail(stdout)
        /\ IF event.kind = "response" /\ event.ok
           THEN /\ pc' = "run" /\ parser' = NoBlock
                /\ UNCHANGED <<active, queue, calls, stdin, tmux>>
           ELSE IF event.kind \in {"response", "exit"} THEN ConnectFails
           ELSE /\ parser' = pushed.parser
                /\ UNCHANGED <<pc, active, queue, calls, stdin, tmux>>
    BY <1>4 DEF Handshake
  <2>2. \/ event.kind # "response" /\ Shape(Attach, pushed.parser, stdout', stdin, tmux)
        \/ event.kind = "response" /\ Resting(None, NoBlock, stdout', stdin, tmux)
    <3>1. stdout \in Seq(Lines)
      BY Typed
    <3>2. Answer(Attach, tmux).kind = "response"
      BY DEF Answer, Response
    <3> QED
      BY <1>1, <2>1, <3>1, <3>2, ReadShape
  <2> HIDE DEF pushed, event
  <2>3. CASE event.kind = "response" /\ event.ok
    <3>1. /\ pc' = "run" /\ parser' = NoBlock
          /\ UNCHANGED <<active, queue, calls, stdin, tmux>>
      BY <2>1, <2>3
    <3>2. Shape(None, NoBlock, stdout', stdin, tmux)
      BY <2>2, <2>3 DEF Shape
    <3>3. OneAtATime'
      BY <1>1, <3>1, <3>2 DEF AInv, OneAtATime, InFlight
    <3>4. AnswersMatch'
      BY <3>1, KeepAnswers DEF AInv
    <3> QED
      BY <3>1, <3>3, <3>4 DEF AInv, Once, Holds
  <2>4. CASE ~(event.kind = "response" /\ event.ok) /\ event.kind \in {"response", "exit"}
    BY <1>2, <2>1, <2>4
  <2>5. CASE event.kind \notin {"response", "exit"}
    <3>1. parser' = pushed.parser /\ UNCHANGED <<pc, active, queue, calls, stdin, tmux>>
      BY <2>1, <2>5
    <3>2. OneAtATime'
      BY <1>1, <2>2, <2>5, <3>1 DEF AInv, OneAtATime, InFlight
    <3>3. AnswersMatch'
      BY <3>1, KeepAnswers DEF AInv
    <3> QED
      BY <3>1, <3>2, <3>3 DEF AInv, Once, Holds
  <2> QED
    BY <2>3, <2>4, <2>5
<1> QED
  BY <1>3, <1>4 DEF Connect

\* The request is sent while nothing is on its way.
LEMMA ReceiveAnswers ==
    ASSUME IInv, AInv, Receive
    PROVE  AInv'
<1>1. pc = "run" /\ active = None /\ queue # <<>> /\ UNCHANGED <<parser, stdout>>
  BY DEF Receive
<1>2. CASE ~tmux.alive
  <2>1. End("write failed") /\ "write failed" \in Reasons
    BY <1>2 DEF Receive, Reasons
  <2> QED
    BY <2>1, EndAnswers
<1>3. CASE tmux.alive
  <2> DEFINE x == Head(queue)
  <2>1. /\ queue' = Tail(queue) /\ stdin' = Append(stdin, x) /\ active' = x
        /\ UNCHANGED <<pc, calls, tmux>>
    BY <1>3 DEF Receive
  <2>2. /\ x \in Calls /\ x = queue[1] /\ 1 \in 1..Len(queue)
        /\ Len(queue') = Len(queue) - 1
        /\ \A i \in 1..Len(queue') : queue'[i] = queue[i + 1] /\ i + 1 \in 1..Len(queue)
    BY <1>1, <2>1, Typed
  <2> HIDE DEF x
  <2>3. Holds(queue, x) /\ tmux.ran[x] = "no"
    BY <2>2 DEF Holds, AInv, Once
  <2>4. Resting(None, parser, stdout, stdin, tmux)
    <3>1. Shape(None, parser, stdout, stdin, tmux)
      BY <1>1 DEF AInv, OneAtATime, InFlight
    <3>2. None \notin Commands
      BY ChannelAssumption DEF Commands, None, Attach
    <3> QED
      BY <3>1, <3>2 DEF Shape, Written, Served, AnsweredAt
  <2>5. Written(x, parser, stdout, <<x>>, tmux)
    BY <2>2, <2>3, <2>4 DEF Resting, Written, Commands
  <2>6. OneAtATime'
    <3>1. stdin' = <<x>>
      BY <2>1, <2>4 DEF Resting
    <3>2. InFlight' = x /\ tmux'.number > 0
      BY <1>1, <2>1 DEF InFlight, AInv, OneAtATime
    <3>3. Shape(x, parser, stdout, <<x>>, tmux)
      BY <2>5 DEF Shape
    <3> QED
      BY <1>1, <2>1, <3>1, <3>2, <3>3 DEF OneAtATime
  <2>7. /\ \A c \in Calls : Holds(queue', c) => Holds(queue, c)
        /\ \A c \in Calls : Holds(queue', c) => c # x
    <3>1. \A i \in 1..Len(queue') : queue'[i] # x
      <4> SUFFICES ASSUME NEW i \in 1..Len(queue'), queue'[i] = x PROVE FALSE
        OBVIOUS
      <4>1. queue[i + 1] = queue[1] /\ i + 1 \in 1..Len(queue)
        BY <2>2
      <4>2. i + 1 = 1
        BY <2>2, <4>1 DEF AInv, Once
      <4> QED
        BY <4>2
    <3> QED
      BY <2>1, <2>2, <2>3, <3>1 DEF Holds
  <2>8. \A i, j \in 1..Len(queue') : queue'[i] = queue'[j] => i = j
    <3> SUFFICES ASSUME NEW i \in 1..Len(queue'), NEW j \in 1..Len(queue'), queue'[i] = queue'[j]
                 PROVE  i = j
      OBVIOUS
    <3>1. queue[i + 1] = queue[j + 1] /\ i + 1 \in 1..Len(queue) /\ j + 1 \in 1..Len(queue)
      BY <2>2
    <3>2. i + 1 = j + 1
      BY <3>1 DEF AInv, Once
    <3> QED
      BY <3>2
  <2>9. Once'
    <3>1. ASSUME NEW c \in Calls
          PROVE  /\ ~(c = active' /\ Holds(queue', c))
                 /\ c = active' \/ Holds(queue', c) => calls'[c].state \in {"sent", "abandoned"}
                 /\ calls'[c].state \in {"idle", "sending"} \/ Holds(queue', c) => tmux'.ran[c] = "no"
      <4>1. /\ Holds(queue, c) => calls[c].state \in {"sent", "abandoned"}
            /\ calls[c].state \in {"idle", "sending"} \/ Holds(queue, c) => tmux.ran[c] = "no"
        BY DEF AInv, Once
      <4>2. ~(c = active' /\ Holds(queue', c))
        BY <2>1, <2>7, <3>1
      <4>3. c = active' => calls'[c].state \in {"sent", "abandoned"}
        BY <2>1, <2>3, <4>1
      <4>4. Holds(queue', c) => calls'[c].state \in {"sent", "abandoned"}
        BY <2>1, <2>7, <3>1, <4>1
      <4>5. calls'[c].state \in {"idle", "sending"} \/ Holds(queue', c) => tmux'.ran[c] = "no"
        BY <2>1, <2>7, <3>1, <4>1
      <4> QED
        BY <4>2, <4>3, <4>4, <4>5
    <3> QED
      BY <1>1, <2>1, <2>8, <3>1 DEF Once
  <2>10. AnswersMatch'
    BY <2>1, KeepAnswers DEF AInv
  <2> QED
    BY <2>6, <2>9, <2>10 DEF AInv
<1> QED
  BY <1>2, <1>3

\* A response is read: it is that of the active request, if there is one.
LEMMA ReadAnswers ==
    ASSUME IInv, AInv, ReadLine
    PROVE  AInv'
<1> DEFINE pushed == PushLine(parser, Head(stdout))
           event == pushed.event
<1>1. /\ pc = "run" /\ stdout # <<>> /\ stdout' = Tail(stdout) /\ stdin' = stdin
      /\ parser' = pushed.parser
      /\ CASE event.kind = "response" -> TakeResponse(event)
           [] event.kind = "exit" -> End("exited") /\ UNCHANGED deadline
           [] OTHER ->
                  /\ events' = IF event.kind = "none" THEN events ELSE Append(events, event)
                  /\ UNCHANGED <<pc, active, deadline, queue, closed, termination, early,
                                 held, calls, tmux, announced>>
  BY DEF ReadLine
<1>2. Shape(active, parser, stdout, stdin, tmux) /\ tmux.number \in Nat \ {0}
  BY <1>1, Typed DEF AInv, OneAtATime, InFlight
<1>3. \/ event.kind # "response" /\ Shape(active, pushed.parser, stdout', stdin, tmux)
      \/ /\ active \in Commands /\ tmux.ran[active] \in {"ok", "error"}
         /\ event = Answer(active, tmux) /\ pushed.parser = NoBlock
         /\ Resting(None, NoBlock, stdout', stdin, tmux)
  <2>1. stdout \in Seq(Lines)
    BY Typed
  <2> QED
    BY <1>1, <1>2, <2>1, ReadShape
<1> HIDE DEF pushed, event
<1>4. CASE event.kind = "response"
  <2>1. /\ active' = None
        /\ calls' = IF active = None THEN calls
                    ELSE Reply(active, Complete(KindOf[active], event.ok, event.data))
        /\ UNCHANGED <<pc, queue, tmux>>
    BY <1>1, <1>4 DEF TakeResponse
  <2>2. /\ active \in Commands /\ tmux.ran[active] \in {"ok", "error"}
        /\ event = Answer(active, tmux) /\ parser' = NoBlock
        /\ Resting(None, NoBlock, stdout', stdin, tmux)
    BY <1>1, <1>3, <1>4
  <2>3. OneAtATime'
    <3>1. InFlight' = None /\ tmux'.number > 0
      BY <1>1, <2>1 DEF InFlight, AInv, OneAtATime
    <3>2. Shape(None, NoBlock, stdout', stdin, tmux)
      BY <2>2 DEF Shape
    <3> QED
      BY <1>1, <2>1, <2>2, <3>1, <3>2 DEF OneAtATime
  <2>4. active \in Calls
    BY <2>2, Typed, ChannelAssumption DEF Commands, None, Attach
  <2> DEFINE ok == tmux.ran[active] = "ok"
             result == Complete(KindOf[active], ok, <<active>>)
  <2>5. event.ok = ok /\ event.data = <<active>>
    BY <2>2 DEF Answer, Response
  <2>6. calls' = Reply(active, result)
    <3>1. active # None
      BY <2>4, ChannelAssumption
    <3>2. calls' = Reply(active, Complete(KindOf[active], event.ok, event.data))
      BY <2>1, <3>1
    <3> QED
      BY <2>5, <3>2
  <2>7. result.state \in {"answered", "rejected"}
    <3>1. KindOf[active] \in {"snapshot", "jump", "focus"}
      BY <2>4, ChannelAssumption
    <3>2. <<active>> \in Seq(Words)
      <4>1. Line("", 0, active) \in Lines /\ Line("", 0, active).text = active
        BY <2>4 DEF Line, Lines, Commands
      <4>2. active \in Words
        BY <4>1 DEF Words
      <4> QED
        BY <4>2
    <3>3. ok \in BOOLEAN
      OBVIOUS
    <3> HIDE DEF ok
    <3> QED
      BY <3>1, <3>2, <3>3, Sent
  <2>8. /\ \A c \in Calls : c # active => calls'[c] = calls[c]
        /\ calls'[active] = calls[active] \/ calls'[active] = result
    BY <2>4, <2>6, Typed DEF Reply
  <2>9. AnswersMatch'
    <3> SUFFICES ASSUME NEW c \in Calls, calls'[c].state \in {"answered", "rejected"}
                 PROVE  /\ tmux'.ran[c] # "no"
                        /\ calls'[c] = Complete(KindOf[c], tmux'.ran[c] = "ok", <<c>>)
      BY DEF AnswersMatch
    <3>1. CASE calls'[c] = calls[c]
      BY <2>1, <3>1 DEF AInv, AnswersMatch
    <3>2. CASE calls'[c] # calls[c]
      <4>1. c = active /\ calls'[c] = result
        BY <2>8, <3>2
      <4>2. tmux'.ran[c] # "no" /\ tmux' = tmux
        BY <2>1, <2>2, <4>1
      <4> QED
        BY <4>1, <4>2
    <3> QED
      BY <3>1, <3>2
  <2> HIDE DEF result
  <2>10. Once'
    <3>1. ~Holds(queue, active) /\ active' \notin Calls
      BY <2>1, <2>4, ChannelAssumption DEF AInv, Once
    <3>2. \A c \in Calls : Holds(queue', c) <=> Holds(queue, c)
      BY <2>1 DEF Holds
    <3>3. /\ \A c \in Calls : Holds(queue, c) => calls'[c] = calls[c]
          /\ \A c \in Calls :
                 calls'[c].state \in {"idle", "sending"} => calls'[c] = calls[c]
      BY <2>7, <2>8, <3>1
    <3>4. ASSUME NEW c \in Calls
          PROVE  /\ ~(c = active' /\ Holds(queue', c))
                 /\ c = active' \/ Holds(queue', c) => calls'[c].state \in {"sent", "abandoned"}
                 /\ calls'[c].state \in {"idle", "sending"} \/ Holds(queue', c) => tmux'.ran[c] = "no"
      <4>1. /\ Holds(queue, c) => calls[c].state \in {"sent", "abandoned"}
            /\ calls[c].state \in {"idle", "sending"} \/ Holds(queue, c) => tmux.ran[c] = "no"
        BY DEF AInv, Once
      <4>2. ~(c = active' /\ Holds(queue', c))
        BY <3>1
      <4>3. Holds(queue', c) => calls'[c].state \in {"sent", "abandoned"}
        BY <3>2, <3>3, <3>4, <4>1
      <4>4. c # active'
        BY <3>1, <3>4
      <4>5. calls'[c].state \in {"idle", "sending"} \/ Holds(queue', c) => tmux'.ran[c] = "no"
        BY <2>1, <3>2, <3>3, <4>1
      <4> QED
        BY <4>2, <4>3, <4>4, <4>5
    <3> QED
      BY <1>1, <2>1, <3>4 DEF AInv, Once
  <2> QED
    BY <2>3, <2>9, <2>10 DEF AInv
<1>5. CASE event.kind = "exit"
  <2>1. End("exited") /\ "exited" \in Reasons
    BY <1>1, <1>5 DEF Reasons
  <2> QED
    BY <2>1, EndAnswers
<1>6. CASE event.kind \notin {"response", "exit"}
  <2>1. UNCHANGED <<pc, active, queue, calls, tmux>>
    BY <1>1, <1>6
  <2>2. Shape(active, parser', stdout', stdin, tmux)
    BY <1>1, <1>3, <1>6 DEF Answer, Response
  <2>3. OneAtATime'
    BY <1>1, <2>1, <2>2 DEF AInv, OneAtATime, InFlight
  <2>4. AnswersMatch'
    BY <2>1, KeepAnswers DEF AInv
  <2> QED
    BY <2>1, <2>3, <2>4 DEF AInv, Once, Holds
<1> QED
  BY <1>4, <1>5, <1>6

\* The other steps of the actor read and write nothing.
LEMMA ActorAnswers ==
    ASSUME IInv, AInv, Actor
    PROVE  AInv'
<1>1. CASE TimeOut
  <2>1. End("timed out") /\ "timed out" \in Reasons
    BY <1>1 DEF TimeOut, Reasons
  <2> QED
    BY <2>1, EndAnswers
<1>2. CASE ReadEnd
  <2>1. \E reason \in Reasons : End(reason)
    BY <1>2 DEF ReadEnd, Reasons
  <2> QED
    BY <2>1, EndAnswers
<1>3. CASE ReceiveNone
  <2>1. /\ pc = "run" /\ pc' = "reaping"
        /\ UNCHANGED <<parser, active, queue, calls, stdin, stdout, tmux>>
    BY <1>3 DEF ReceiveNone, actorVars, pipeVars
  <2>2. OneAtATime'
    BY <2>1 DEF AInv, OneAtATime, InFlight
  <2>3. AnswersMatch'
    BY <2>1, KeepAnswers DEF AInv
  <2> QED
    BY <2>1, <2>2, <2>3 DEF AInv, Once, Holds
<1>4. CASE Reap
  <2>1. /\ pc' = "done" /\ ~tmux.alive
        /\ UNCHANGED <<active, queue, calls, tmux>>
    BY <1>4 DEF Reap, actorVars, pipeVars
  <2>2. AnswersMatch'
    BY <2>1, KeepAnswers DEF AInv
  <2> QED
    BY <2>1, <2>2 DEF AInv, OneAtATime, Once, Holds
<1> QED
  BY <1>1, <1>2, <1>3, <1>4, ReceiveAnswers, ReadAnswers DEF Actor

\* tmux reads the command that was written.
LEMMA BeginsAnswers ==
    ASSUME IInv, AInv, TmuxBegins
    PROVE  AInv'
<1>1. /\ tmux.alive /\ stdin # <<>> /\ stdin' = Tail(stdin)
      /\ stdout' = Append(stdout, Begin(tmux.number))
      /\ tmux' = [tmux EXCEPT !.serving = Head(stdin)]
      /\ UNCHANGED <<pc, parser, active, queue, calls>>
  BY DEF TmuxBegins, Begin, actorVars
<1>2. Written(InFlight, parser, stdout, stdin, tmux)
  <2>1. Shape(InFlight, parser, stdout, stdin, tmux)
    BY <1>1 DEF AInv, OneAtATime
  <2> QED
    BY <1>1, <2>1 DEF Shape, Resting, Served, AnsweredAt
<1>3. /\ InFlight \in Commands /\ parser = NoBlock /\ stdin = <<InFlight>>
      /\ tmux.ran[InFlight] = "no" /\ Guardless(stdout)
  BY <1>2 DEF Written
<1>4. stdin' = <<>> /\ Head(stdin) = InFlight
  BY <1>1, <1>3
<1>5. /\ tmux'.serving = InFlight /\ tmux'.ran = tmux.ran /\ tmux'.number = tmux.number
  BY <1>1, <1>4, Typed DEF Servers
<1>6. /\ stdout' # <<>> /\ stdout'[Len(stdout')] = Begin(tmux'.number)
      /\ \A i \in 1..(Len(stdout') - 1) : ~IsGuard(stdout'[i])
  <2>1. stdout \in Seq(Lines)
    BY Typed
  <2> QED
    BY <1>1, <1>3, <1>5, <2>1 DEF Guardless
<1>7. InFlight' = InFlight
  BY <1>1 DEF InFlight
<1>8. Served(InFlight, parser, stdout', <<>>, tmux')
  BY <1>3, <1>5, <1>6 DEF Served
<1>9. Shape(InFlight, parser, stdout', <<>>, tmux')
  BY <1>8 DEF Shape
<1>10. OneAtATime'
  BY <1>1, <1>4, <1>5, <1>7, <1>9 DEF AInv, OneAtATime
<1>11. AnswersMatch'
  BY <1>1, <1>5, KeepAnswers DEF AInv
<1> QED
  BY <1>1, <1>5, <1>10, <1>11 DEF AInv, Once

\* tmux answers the command that it serves, which is that of the request.
LEMMA GivesAnswers ==
    ASSUME IInv, AInv, NEW ok \in BOOLEAN, TmuxAnswers(ok)
    PROVE  AInv'
<1> DEFINE x == tmux.serving
           n == tmux.number
           end == Line(IF ok THEN "%end" ELSE "%error", n, "")
           ran == [tmux.ran EXCEPT ![x] = IF ok THEN "ok" ELSE "error"]
<1>1. tmux.alive /\ x # None
  BY DEF TmuxAnswers
<1>2. /\ stdout' = stdout \o <<Text(x), end>>
      /\ UNCHANGED <<pc, parser, active, queue, calls, stdin>>
  BY DEF TmuxAnswers, Text, actorVars
<1>3. tmux' = [tmux EXCEPT !.serving = None, !.number = @ + 1, !.ran = ran]
  BY DEF TmuxAnswers
<1>4. /\ x \in Commands /\ n \in Nat \ {0} /\ stdout \in Seq(Lines)
      /\ tmux.ran \in [Commands -> {"no", "ok", "error"}]
  <2>1. tmux \in Servers /\ stdout \in Seq(Lines)
    BY Typed
  <2>2. n > 0
    BY DEF AInv, OneAtATime
  <2>3. /\ tmux.serving \in Commands \cup {None} /\ tmux.number \in Nat
        /\ tmux.ran \in [Commands -> {"no", "ok", "error"}]
    BY <2>1 DEF Servers
  <2> QED
    BY <1>1, <2>1, <2>2, <2>3
<1>5. /\ tmux'.serving = None /\ tmux'.ran = ran /\ tmux'.number = n + 1
  BY <1>3, Typed DEF Servers
<1>6. /\ ran[x] = IF ok THEN "ok" ELSE "error"
      /\ \A y \in Commands : y # x => ran[y] = tmux.ran[y]
  BY <1>4
<1>7. end = Closing(x, n, tmux')
  <2>1. (IF ok THEN "%end" ELSE "%error") = IF tmux'.ran[x] = "ok" THEN "%end" ELSE "%error"
    BY <1>5, <1>6
  <2> QED
    BY <2>1 DEF Closing, Line
<1> HIDE DEF x, n, end, ran
<1>8. Served(x, parser, stdout, stdin, tmux) /\ InFlight = x
  <2>1. Shape(InFlight, parser, stdout, stdin, tmux)
    BY <1>1 DEF AInv, OneAtATime
  <2> QED
    BY <1>1, <2>1 DEF Shape, Resting, Written, Served, AnsweredAt, x
<1>9. /\ stdin = <<>>
      /\ \/ stdout = <<>> /\ parser = Block(n, <<>>)
         \/ /\ stdout # <<>> /\ parser = NoBlock /\ stdout[Len(stdout)] = Begin(n)
            /\ \A i \in 1..(Len(stdout) - 1) : ~IsGuard(stdout[i])
  BY <1>8 DEF Served, n
<1>10. AnsweredAt(x, parser, stdout', stdin, tmux', Len(stdout), n)
  <2>1. /\ Len(stdout) \in Nat /\ Len(stdout') = Len(stdout) + 2
        /\ \A i \in 1..Len(stdout) : stdout'[i] = stdout[i]
        /\ stdout'[Len(stdout) + 1] = Text(x)
        /\ stdout'[Len(stdout) + 2] = end
    BY <1>2, <1>4
  <2>2. \/ Len(stdout) > 0 /\ parser = NoBlock /\ stdout'[Len(stdout)] = Begin(n)
        \/ Len(stdout) = 0 /\ parser = Block(n, <<>>)
    BY <1>4, <1>9, <2>1
  <2>3. \A i \in 1..Len(stdout') :
            i \notin {Len(stdout), Len(stdout) + 1, Len(stdout) + 2} => ~IsGuard(stdout'[i])
    BY <1>4, <1>9, <2>1
  <2>4. tmux'.ran[x] \in {"ok", "error"}
    BY <1>5, <1>6
  <2>5. Len(stdout) >= -1 /\ Len(stdout) + 2 <= Len(stdout')
    BY <2>1
  <2> QED
    BY <1>4, <1>5, <1>7, <1>9, <2>1, <2>2, <2>3, <2>4, <2>5 DEF AnsweredAt
<1>11. OneAtATime'
  <2>1. InFlight' = x
    BY <1>2, <1>8 DEF InFlight
  <2>2. Len(stdout) \in Int /\ n + 1 > 0
    BY <1>4
  <2>3. Shape(x, parser, stdout', stdin, tmux')
    BY <1>4, <1>10, <2>2 DEF Shape
  <2> QED
    BY <1>2, <1>5, <2>1, <2>2, <2>3 DEF OneAtATime
<1>12. x \in Calls => /\ calls[x].state \in {"sent", "abandoned"} /\ ~Holds(queue, x)
  <2>1. x \in Calls => x = active
    BY <1>8, ChannelAssumption DEF InFlight
  <2> QED
    BY <2>1 DEF AInv, Once
<1>13. \A c \in Calls : c # x => tmux'.ran[c] = tmux.ran[c]
  BY <1>5, <1>6 DEF Commands
<1>14. AnswersMatch'
  BY <1>2, <1>12, <1>13, KeepAnswers DEF AInv
<1>15. Once'
  <2>1. ASSUME NEW c \in Calls, calls[c].state \in {"idle", "sending"} \/ Holds(queue, c)
        PROVE  tmux'.ran[c] = "no"
    <3>1. tmux.ran[c] = "no"
      BY <2>1 DEF AInv, Once
    <3>2. c # x
      BY <1>12, <2>1
    <3> QED
      BY <1>13, <2>1, <3>1, <3>2
  <2> QED
    BY <1>2, <2>1 DEF AInv, Once
<1> QED
  BY <1>11, <1>14, <1>15 DEF AInv

\* What tmux announces carries no guard.
LEMMA AnnouncesAnswers ==
    ASSUME IInv, AInv, NEW line \in Notices, TmuxAnnounces(line)
    PROVE  AInv'
<1>1. /\ tmux.alive /\ tmux.serving = None
      /\ stdout' = Append(stdout, line)
      /\ UNCHANGED <<pc, parser, active, queue, calls, stdin>>
  BY DEF TmuxAnnounces, actorVars
<1>2. tmux'.serving = None /\ tmux'.ran = tmux.ran /\ tmux'.number = tmux.number
  BY <1>1, Typed DEF TmuxAnnounces, Servers
<1>3. ~IsGuard(line)
  BY ChannelAssumption DEF IsGuard
<1>4. stdout \in Seq(Lines)
  BY Typed
<1>5. /\ Len(stdout') = Len(stdout) + 1 /\ Len(stdout) \in Nat
      /\ \A i \in 1..Len(stdout) : stdout'[i] = stdout[i]
      /\ \A i \in 1..Len(stdout') : i \in 1..Len(stdout) \/ ~IsGuard(stdout'[i])
  BY <1>1, <1>3, <1>4
<1>6. Guardless(stdout) => Guardless(stdout')
  BY <1>5 DEF Guardless
<1>7. Shape(InFlight, parser, stdout, stdin, tmux)
  BY <1>1 DEF AInv, OneAtATime
<1>8. Shape(InFlight, parser, stdout', stdin, tmux')
  <2>1. CASE Resting(InFlight, parser, stdout, stdin, tmux)
    <3>1. Resting(InFlight, parser, stdout', stdin, tmux')
      BY <1>2, <1>6, <2>1 DEF Resting
    <3> QED
      BY <3>1 DEF Shape
  <2>2. CASE Written(InFlight, parser, stdout, stdin, tmux)
    <3>1. Written(InFlight, parser, stdout', stdin, tmux')
      BY <1>2, <1>6, <2>2 DEF Written
    <3> QED
      BY <3>1 DEF Shape
  <2>3. CASE Served(InFlight, parser, stdout, stdin, tmux)
    <3>1. None \notin Commands
      BY ChannelAssumption DEF Commands, None, Attach
    <3> QED
      BY <1>1, <2>3, <3>1 DEF Served
  <2>4. ASSUME NEW b \in Int, NEW n \in Nat \ {0},
               AnsweredAt(InFlight, parser, stdout, stdin, tmux, b, n)
        PROVE  Shape(InFlight, parser, stdout', stdin, tmux')
    <3>1. /\ InFlight \in Commands /\ stdin = <<>>
          /\ tmux.ran[InFlight] \in {"ok", "error"}
          /\ b >= -1 /\ b + 2 <= Len(stdout)
          /\ \/ b > 0 /\ parser = NoBlock /\ stdout[b] = Begin(n)
             \/ b = 0 /\ parser = Block(n, <<>>)
             \/ b = -1 /\ parser = Block(n, <<InFlight>>)
          /\ b >= 0 => stdout[b + 1] = Text(InFlight)
          /\ stdout[b + 2] = Closing(InFlight, n, tmux)
          /\ \A i \in 1..Len(stdout) : i \notin {b, b + 1, b + 2} => ~IsGuard(stdout[i])
      BY <2>4 DEF AnsweredAt
    <3>2. /\ b + 2 <= Len(stdout')
          /\ \/ b > 0 /\ parser = NoBlock /\ stdout'[b] = Begin(n)
             \/ b = 0 /\ parser = Block(n, <<>>)
             \/ b = -1 /\ parser = Block(n, <<InFlight>>)
      BY <1>5, <2>4, <3>1
    <3>3. b >= 0 => stdout'[b + 1] = Text(InFlight)
      BY <1>5, <2>4, <3>1
    <3>4. stdout'[b + 2] = Closing(InFlight, n, tmux)
      BY <1>5, <2>4, <3>1
    <3>5. \A i \in 1..Len(stdout') : i \notin {b, b + 1, b + 2} => ~IsGuard(stdout'[i])
      BY <1>5, <2>4, <3>1
    <3>6. Closing(InFlight, n, tmux') = Closing(InFlight, n, tmux)
      BY <1>2 DEF Closing
    <3>7. AnsweredAt(InFlight, parser, stdout', stdin, tmux', b, n)
      BY <1>2, <3>1, <3>2, <3>3, <3>4, <3>5, <3>6 DEF AnsweredAt
    <3> QED
      BY <2>4, <3>7 DEF Shape
  <2> QED
    BY <1>7, <2>1, <2>2, <2>3, <2>4 DEF Shape
<1>9. InFlight' = InFlight
  BY <1>1 DEF InFlight
<1>10. OneAtATime'
  BY <1>1, <1>2, <1>8, <1>9 DEF AInv, OneAtATime
<1>11. AnswersMatch'
  BY <1>1, <1>2, KeepAnswers DEF AInv
<1> QED
  BY <1>1, <1>2, <1>10, <1>11 DEF AInv, Once

\* A step that leaves alone all but who lives and who holds a handle.
LEMMA OtherAnswers ==
    ASSUME IInv, AInv, UNCHANGED <<pc, parser, active, queue, calls, stdin, stdout>>,
           tmux' = tmux \/ TmuxDies
    PROVE  AInv'
<1>1. /\ tmux'.serving = tmux.serving /\ tmux'.ran = tmux.ran /\ tmux'.number = tmux.number
      /\ tmux'.alive => tmux.alive
  BY Typed DEF TmuxDies, Servers
<1>2. ASSUME Shape(InFlight, parser, stdout, stdin, tmux)
      PROVE  Shape(InFlight, parser, stdout, stdin, tmux')
  <2>1. ASSUME NEW b \in Int, NEW n \in Nat \ {0},
               AnsweredAt(InFlight, parser, stdout, stdin, tmux, b, n)
        PROVE  AnsweredAt(InFlight, parser, stdout, stdin, tmux', b, n)
    <3>1. Closing(InFlight, n, tmux') = Closing(InFlight, n, tmux)
      BY <1>1 DEF Closing
    <3> QED
      BY <1>1, <2>1, <3>1 DEF AnsweredAt
  <2> QED
    BY <1>1, <1>2, <2>1 DEF Shape, Resting, Written, Served
<1>3. InFlight' = InFlight
  BY DEF InFlight
<1>4. OneAtATime'
  BY <1>1, <1>2, <1>3 DEF AInv, OneAtATime
<1>5. AnswersMatch'
  BY <1>1, KeepAnswers DEF AInv
<1> QED
  BY <1>1, <1>4, <1>5 DEF AInv, Once

\* At the start only the attach command is written.
LEMMA AnswersStart == ASSUME Init PROVE AInv
<1>1. /\ pc = "attach" /\ parser = NoBlock /\ active = None /\ queue = <<>>
      /\ stdin = <<Attach>> /\ stdout = <<>>
      /\ \A c \in Calls : calls[c] = Unused
  BY DEF Init
<1>2. /\ tmux.serving = None /\ tmux.number = 1
      /\ tmux.ran = [c \in Commands |-> "no"]
  BY DEF Init, Commands
<1>3. \A c \in Commands : tmux.ran[c] = "no"
  BY <1>2
<1>4. Guardless(stdout) /\ \A c : ~Holds(queue, c)
  BY <1>1 DEF Guardless, Holds
<1>5. Written(Attach, parser, stdout, stdin, tmux)
  BY <1>1, <1>2, <1>3, <1>4 DEF Written, Commands
<1>6. OneAtATime
  BY <1>1, <1>2, <1>5 DEF OneAtATime, InFlight, Shape
<1>7. Unused.state = "idle"
  BY DEF Unused
<1>8. Once
  BY <1>1, <1>3, <1>4, <1>7, ChannelAssumption DEF Once, Commands
<1>9. AnswersMatch
  BY <1>1, <1>7 DEF AnswersMatch
<1> QED
  BY <1>6, <1>8, <1>9 DEF AInv

-----------------------------------------------------------------------------
(* Theorem                                                                  *)

\* One command at a time, in every reachable state.
LEMMA Answering == Spec => []AInv
<1>1. Init => AInv
  BY AnswersStart
<1>2. IInv /\ AInv /\ [Next]_vars => AInv'
  <2> SUFFICES ASSUME IInv, AInv, [Next]_vars PROVE AInv'
    OBVIOUS
  <2>1. CASE UNCHANGED vars
    BY <2>1, OtherAnswers DEF vars, actorVars, pipeVars
  <2>2. CASE DropHandle
    BY <2>2, OtherAnswers DEF DropHandle, actorVars, pipeVars
  <2>3. CASE TmuxDies
    BY <2>3, OtherAnswers DEF TmuxDies, actorVars
  <2> QED
    BY <2>1, <2>2, <2>3, ConnectAnswers, ActorAnswers, CallerAnswers, BeginsAnswers,
       GivesAnswers, AnnouncesAnswers DEF Next, Tmux
<1> QED
  BY <1>1, <1>2, Invariance, PTL DEF Spec

\* Every caller that is answered has the answer that tmux gave to its own
\* command, for any number of calls, any queue and whatever tmux announces:
\* neither a request that timed out nor one that was abandoned leaves an answer
\* that another could take for its own.
THEOREM AnswersAreMatched == Spec => []AnswersMatch
<1>1. AInv => AnswersMatch
  BY DEF AInv
<1> QED
  BY <1>1, Answering, PTL

-----------------------------------------------------------------------------
(* The sessions that tmux announces                                         *)
(*                                                                          *)
(* The argument: the events, the early events and the lines that are not    *)
(* read make one stream, from which a step may take a member that tells of  *)
(* no session, or put one in; a session only moves from the lines to the    *)
(* events, and is new only at the end. That the parser takes no notice for  *)
(* data needs Shape.                                                        *)

\* Keeps, of the first a members of a stream and the first k that are kept, of
\* members that are not e.
KeepsOf(stream, a, kept, k, e) ==
    \E place \in [1..k -> 1..a] :
        /\ \A i, j \in 1..k : i < j => place[i] < place[j]
        /\ \A i \in 1..k : kept[i] # e /\ stream[place[i]] = kept[i]
        /\ \A n \in 1..a : stream[n] # e => \E i \in 1..k : place[i] = n

\* A member that tells of no session makes no difference, wherever it is.
LEMMA Unheard ==
    ASSUME NEW a \in Nat, NEW k \in Nat, NEW s, NEW r, NEW e, NEW kept, NEW n \in 0..a,
           \A i \in 1..n : r[i] = s[i],
           r[n + 1] = e,
           \A i \in (n + 1)..a : r[i + 1] = s[i]
    PROVE  KeepsOf(s, a, kept, k, e) <=> KeepsOf(r, a + 1, kept, k, e)
<1>1. a \in Nat /\ k \in Nat /\ n \in Nat
  OBVIOUS
<1>2. ASSUME KeepsOf(s, a, kept, k, e) PROVE KeepsOf(r, a + 1, kept, k, e)
  <2>1. PICK place \in [1..k -> 1..a] :
            /\ \A i, j \in 1..k : i < j => place[i] < place[j]
            /\ \A i \in 1..k : kept[i] # e /\ s[place[i]] = kept[i]
            /\ \A m \in 1..a : s[m] # e => \E i \in 1..k : place[i] = m
    BY <1>2 DEF KeepsOf
  <2> DEFINE moved == [i \in 1..k |-> IF place[i] <= n THEN place[i] ELSE place[i] + 1]
  <2>2. ASSUME NEW i \in 1..k
        PROVE  /\ place[i] \in 1..a /\ moved[i] \in 1..(a + 1)
               /\ place[i] <= n => moved[i] = place[i]
               /\ ~(place[i] <= n) => moved[i] = place[i] + 1 /\ place[i] \in (n + 1)..a
    <3>1. place[i] \in 1..a
      BY <2>1, <2>2
    <3> QED
      BY <1>1, <2>2, <3>1
  <2>3. moved \in [1..k -> 1..(a + 1)]
    BY <2>2
  <2> HIDE DEF moved
  <2>4. \A i, j \in 1..k : i < j => moved[i] < moved[j]
    BY <1>1, <2>1, <2>2
  <2>5. \A i \in 1..k : kept[i] # e /\ r[moved[i]] = kept[i]
    <3> SUFFICES ASSUME NEW i \in 1..k PROVE kept[i] # e /\ r[moved[i]] = kept[i]
      OBVIOUS
    <3>1. CASE place[i] <= n
      <4>1. place[i] \in 1..n
        BY <1>1, <2>2, <3>1
      <4> QED
        BY <2>1, <2>2, <3>1, <4>1
    <3>2. CASE ~(place[i] <= n)
      <4>1. PICK l \in (n + 1)..a : l = place[i]
        BY <2>2, <3>2
      <4>2. r[l + 1] = s[l] /\ moved[i] = l + 1
        BY <2>2, <3>2, <4>1
      <4> QED
        BY <2>1, <4>1, <4>2
    <3> QED
      BY <3>1, <3>2
  <2>6. ASSUME NEW m \in 1..(a + 1), r[m] # e
        PROVE  \E i \in 1..k : moved[i] = m
    <3>1. CASE m <= n
      <4>1. m \in 1..n /\ m \in 1..a
        BY <1>1, <2>6, <3>1
      <4>2. s[m] # e
        BY <2>6, <4>1
      <4> QED
        BY <2>1, <2>2, <3>1, <4>1, <4>2
    <3>2. CASE m > n
      <4>1. m # n + 1
        BY <2>6
      <4>2. m - 1 \in (n + 1)..a /\ m - 1 \in 1..a /\ (m - 1) + 1 = m /\ ~(m - 1 <= n)
        BY <1>1, <2>6, <3>2, <4>1
      <4>3. PICK l \in (n + 1)..a : l + 1 = m /\ l \in 1..a /\ ~(l <= n)
        BY <4>2
      <4>4. r[l + 1] = s[l]
        OBVIOUS
      <4>5. PICK i \in 1..k : place[i] = l
        BY <2>1, <2>6, <4>3, <4>4
      <4> QED
        BY <2>2, <4>3, <4>5
    <3> QED
      BY <1>1, <2>6, <3>1, <3>2
  <2> QED
    BY <2>3, <2>4, <2>5, <2>6 DEF KeepsOf
<1>3. ASSUME KeepsOf(r, a + 1, kept, k, e) PROVE KeepsOf(s, a, kept, k, e)
  <2>1. PICK place \in [1..k -> 1..(a + 1)] :
            /\ \A i, j \in 1..k : i < j => place[i] < place[j]
            /\ \A i \in 1..k : kept[i] # e /\ r[place[i]] = kept[i]
            /\ \A m \in 1..(a + 1) : r[m] # e => \E i \in 1..k : place[i] = m
    BY <1>3 DEF KeepsOf
  <2> DEFINE moved == [i \in 1..k |-> IF place[i] <= n THEN place[i] ELSE place[i] - 1]
  <2>2. ASSUME NEW i \in 1..k
        PROVE  /\ place[i] \in 1..(a + 1) /\ moved[i] \in 1..a /\ place[i] # n + 1
               /\ place[i] <= n => moved[i] = place[i] /\ place[i] \in 1..n
               /\ ~(place[i] <= n) => /\ moved[i] = place[i] - 1 /\ moved[i] + 1 = place[i]
                                      /\ moved[i] \in (n + 1)..a
    <3>1. place[i] \in 1..(a + 1) /\ place[i] # n + 1
      BY <2>1, <2>2
    <3>2. moved[i] = IF place[i] <= n THEN place[i] ELSE place[i] - 1
      BY <2>2
    <3> HIDE DEF moved
    <3>3. PICK j \in 1..(a + 1) : j = place[i]
      BY <3>1
    <3>4. PICK l \in Int : l = moved[i] /\ l = IF j <= n THEN j ELSE j - 1
      BY <3>2, <3>3
    <3>5. j # n + 1
      BY <3>1, <3>3
    <3>6. CASE j <= n
      <4>1. l \in 1..a /\ j \in 1..n
        BY <1>1, <3>4, <3>6
      <4> QED
        BY <3>1, <3>3, <3>4, <3>6, <4>1
    <3>7. CASE ~(j <= n)
      <4>1. l \in 1..a /\ l + 1 = j /\ l \in (n + 1)..a
        BY <1>1, <3>4, <3>5, <3>7
      <4> QED
        BY <3>1, <3>3, <3>4, <3>7, <4>1
    <3> QED
      BY <3>6, <3>7
  <2>3. moved \in [1..k -> 1..a]
    BY <2>2
  <2> HIDE DEF moved
  <2>4. \A i, j \in 1..k : i < j => moved[i] < moved[j]
    <3> SUFFICES ASSUME NEW i \in 1..k, NEW j \in 1..k, i < j
                 PROVE  moved[i] < moved[j]
      OBVIOUS
    <3>1. place[i] < place[j]
      BY <2>1
    <3> QED
      BY <1>1, <2>2, <3>1
  <2>5. \A i \in 1..k : kept[i] # e /\ s[moved[i]] = kept[i]
    <3> SUFFICES ASSUME NEW i \in 1..k PROVE kept[i] # e /\ s[moved[i]] = kept[i]
      OBVIOUS
    <3>1. kept[i] # e /\ r[place[i]] = kept[i]
      BY <2>1
    <3>2. CASE place[i] <= n
      BY <2>2, <3>1, <3>2
    <3>3. CASE ~(place[i] <= n)
      <4>1. PICK l \in (n + 1)..a : l = moved[i] /\ l + 1 = place[i]
        BY <2>2, <3>3
      <4>2. r[l + 1] = s[l]
        OBVIOUS
      <4> QED
        BY <3>1, <4>1, <4>2
    <3> QED
      BY <3>2, <3>3
  <2>6. ASSUME NEW m \in 1..a, s[m] # e
        PROVE  \E i \in 1..k : moved[i] = m
    <3>1. CASE m <= n
      <4>1. m \in 1..n /\ m \in 1..(a + 1)
        BY <1>1, <2>6, <3>1
      <4>2. r[m] # e
        BY <2>6, <4>1
      <4> QED
        BY <2>1, <2>2, <3>1, <4>1, <4>2
    <3>2. CASE m > n
      <4>1. m \in (n + 1)..a /\ m + 1 \in 1..(a + 1) /\ ~(m + 1 <= n) /\ (m + 1) - 1 = m
        BY <1>1, <2>6, <3>2
      <4>2. r[m + 1] # e
        BY <2>6, <4>1
      <4>3. PICK i \in 1..k : place[i] = m + 1
        BY <2>1, <4>1, <4>2
      <4> QED
        BY <2>2, <4>1, <4>3
    <3> QED
      BY <1>1, <2>6, <3>1, <3>2
  <2> QED
    BY <2>3, <2>4, <2>5, <2>6 DEF KeepsOf
<1> QED
  BY <1>2, <1>3

\* A session that is new is the last of all.
LEMMA Heard ==
    ASSUME NEW a \in Nat, NEW k \in Nat, NEW s, NEW r, NEW e, NEW kept, NEW more, NEW x,
           x # e, r[a + 1] = x, more[k + 1] = x,
           \A i \in 1..k : more[i] = kept[i],
           \A i \in 1..a : r[i] = s[i],
           KeepsOf(s, a, kept, k, e)
    PROVE  KeepsOf(r, a + 1, more, k + 1, e)
<1>1. a \in Nat /\ k \in Nat
  OBVIOUS
<1>2. more[k + 1] = x /\ \A i \in 1..k : more[i] = kept[i]
  OBVIOUS
<1>3. PICK place \in [1..k -> 1..a] :
          /\ \A i, j \in 1..k : i < j => place[i] < place[j]
          /\ \A i \in 1..k : kept[i] # e /\ s[place[i]] = kept[i]
          /\ \A m \in 1..a : s[m] # e => \E i \in 1..k : place[i] = m
  BY DEF KeepsOf
<1> DEFINE moved == [i \in 1..(k + 1) |-> IF i <= k THEN place[i] ELSE (a + 1)]
<1>4. ASSUME NEW i \in 1..(k + 1)
      PROVE  /\ moved[i] \in 1..(a + 1)
             /\ i <= k => i \in 1..k /\ moved[i] = place[i] /\ place[i] \in 1..a
             /\ ~(i <= k) => i = k + 1 /\ moved[i] = (a + 1)
  <2>1. i \in Nat /\ 1 <= i /\ i <= k + 1
    BY <1>1, <1>2, <1>4
  <2>2. moved[i] = IF i <= k THEN place[i] ELSE (a + 1)
    BY <1>4
  <2> HIDE DEF moved
  <2>3. CASE i <= k
    <3>1. i \in 1..k
      BY <1>1, <2>1, <2>3
    <3>2. place[i] \in 1..a
      BY <1>3, <3>1
    <3> QED
      BY <1>1, <2>2, <2>3, <3>1, <3>2
  <2>4. CASE ~(i <= k)
    BY <1>1, <2>1, <2>2, <2>4
  <2> QED
    BY <2>3, <2>4
<1>5. moved \in [1..(k + 1) -> 1..(a + 1)]
  BY <1>4
<1>6. \A i \in 1..k : i \in 1..(k + 1)
  BY <1>1, <1>2
<1>7. k + 1 \in 1..(k + 1) /\ TRUE /\ ~(k + 1 <= k)
  BY <1>1, <1>2
<1> HIDE DEF moved
<1>8. \A i, j \in 1..(k + 1) : i < j => moved[i] < moved[j]
  <2> SUFFICES ASSUME NEW i \in 1..(k + 1), NEW j \in 1..(k + 1), i < j
               PROVE  moved[i] < moved[j]
    OBVIOUS
  <2>1. i <= k
    BY <1>1, <1>2
  <2>2. CASE j <= k
    BY <1>3, <1>4, <2>1, <2>2
  <2>3. CASE ~(j <= k)
    <3>1. moved[i] \in 1..a /\ moved[j] = a + 1
      BY <1>4, <1>7, <2>1, <2>3
    <3> QED
      BY <1>1, <3>1
  <2> QED
    BY <2>2, <2>3
<1>9. \A i \in 1..(k + 1) : more[i] # e /\ r[moved[i]] = more[i]
  <2> SUFFICES ASSUME NEW i \in 1..(k + 1) PROVE more[i] # e /\ r[moved[i]] = more[i]
    OBVIOUS
  <2>1. CASE i <= k
    BY <1>2, <1>3, <1>4, <2>1
  <2>2. CASE ~(i <= k)
    BY <1>2, <1>4, <2>2
  <2> QED
    BY <2>1, <2>2
<1>10. ASSUME NEW m \in 1..(a + 1), r[m] # e
       PROVE  \E i \in 1..(k + 1) : moved[i] = m
  <2>1. CASE m \in 1..a
    <3>1. PICK i \in 1..k : place[i] = m
      BY <1>3, <1>10, <2>1
    <3>2. i \in 1..(k + 1) /\ i <= k
      BY <1>1, <1>6
    <3> QED
      BY <1>4, <3>1, <3>2
  <2>2. CASE m \notin 1..a
    <3>1. m = (a + 1)
      BY <1>1, <1>10, <2>2
    <3> QED
      BY <1>4, <1>7, <3>1
  <2> QED
    BY <2>1, <2>2
<1>11. KeepsOf(r, a + 1, more, k + 1, e)
  BY <1>5, <1>8, <1>9, <1>10 DEF KeepsOf
<1> QED
  BY <1>11
\* The text of what tells of no session.
Empty == ""

\* Keeps is KeepsOf of all members.
LEMMA KeepsAll ==
    ASSUME NEW s, NEW kept, NEW a, NEW k, a = Len(s), k = Len(kept)
    PROVE  Keeps(s, kept) <=> KeepsOf(s, a, kept, k, Empty)
BY Zenon DEF Keeps, KeepsOf, Empty

\* The members of a stream.
LEMMA Members ==
    ASSUME NEW V, NEW h \in Seq(V), NEW W, NEW out \in Seq(W)
    PROVE  /\ Len(Stream(h, out)) = Len(h) + Len(out)
           /\ \A i \in 1..Len(h) : Stream(h, out)[i] = SessionOf(h[i])
           /\ \A i \in 1..Len(out) : Stream(h, out)[Len(h) + i] = SessionIn(out[i])
<1>1. Len(h) \in Nat /\ Len(out) \in Nat
  OBVIOUS
<1>2. Len(h) + Len(out) \in Nat
  BY <1>1
<1>3. Len(Stream(h, out)) = Len(h) + Len(out)
  BY <1>2 DEF Stream
<1>4. \A i \in 1..Len(h) : Stream(h, out)[i] = SessionOf(h[i])
  BY <1>1 DEF Stream
<1>5. ASSUME NEW i \in 1..Len(out)
      PROVE  Stream(h, out)[Len(h) + i] = SessionIn(out[i])
  <2>1. /\ Len(h) + i \in 1..(Len(h) + Len(out)) /\ ~(Len(h) + i <= Len(h))
        /\ (Len(h) + i) - Len(h) = i
    BY <1>1, <1>5
  <2> QED
    BY <2>1 DEF Stream
<1> QED
  BY <1>3, <1>4, <1>5

\* A line that is read and told of stays where it was.
LEMMA Passed ==
    ASSUME NEW V, NEW h \in Seq(V), NEW W, NEW out \in Seq(W), out # <<>>, NEW e \in V,
           SessionOf(e) = SessionIn(Head(out))
    PROVE  Stream(Append(h, e), Tail(out)) = Stream(h, out)
<1> DEFINE more == Append(h, e)
           rest == Tail(out)
<1>1. /\ Len(h) \in Nat /\ Len(out) \in Nat \ {0} /\ Head(out) = out[1]
      /\ rest \in Seq(W) /\ Len(rest) = Len(out) - 1
      /\ \A i \in 1..Len(rest) : rest[i] = out[i + 1]
  OBVIOUS
<1>2. /\ more \in Seq(V) /\ Len(more) = Len(h) + 1 /\ more[Len(h) + 1] = e
      /\ \A i \in 1..Len(h) : more[i] = h[i]
  OBVIOUS
<1> HIDE DEF more, rest
<1>3. Len(more) + Len(rest) = Len(h) + Len(out)
  BY <1>1, <1>2
<1>4. ASSUME NEW i \in 1..(Len(h) + Len(out))
      PROVE  (IF i <= Len(more) THEN SessionOf(more[i]) ELSE SessionIn(rest[i - Len(more)]))
              = (IF i <= Len(h) THEN SessionOf(h[i]) ELSE SessionIn(out[i - Len(h)]))
  <2>1. CASE i <= Len(h)
    <3>1. i \in 1..Len(h) /\ i <= Len(more)
      BY <1>1, <1>2, <1>4, <2>1
    <3> QED
      BY <1>2, <2>1, <3>1
  <2>2. CASE i = Len(h) + 1
    <3>1. i <= Len(more) /\ ~(i <= Len(h)) /\ i - Len(h) = 1
      BY <1>1, <1>2, <2>2
    <3> QED
      BY <1>1, <1>2, <2>2, <3>1
  <2>3. CASE i > Len(h) + 1
    <3>1. /\ ~(i <= Len(more)) /\ ~(i <= Len(h)) /\ i - Len(more) \in 1..Len(rest)
          /\ (i - Len(more)) + 1 = i - Len(h)
      BY <1>1, <1>2, <1>4, <2>3
    <3> QED
      BY <1>1, <3>1
  <2>4. i <= Len(h) \/ i = Len(h) + 1 \/ i > Len(h) + 1
    BY <1>1, <1>4
  <2> QED
    BY <2>1, <2>2, <2>3, <2>4
<1>5. Stream(more, rest) = Stream(h, out)
  BY <1>3, <1>4 DEF Stream
<1> QED
  BY <1>5 DEF more, rest

\* A line that tells of no session may be read and forgotten.
LEMMA Skipped ==
    ASSUME NEW V, NEW h \in Seq(V), NEW W, NEW out \in Seq(W), out # <<>>, NEW U,
           NEW kept \in Seq(U), SessionIn(Head(out)) = Empty, Keeps(Stream(h, out), kept)
    PROVE  Keeps(Stream(h, Tail(out)), kept)
<1> DEFINE rest == Tail(out)
           s == Stream(h, rest)
           r == Stream(h, out)
           n == Len(h)
           a == Len(h) + Len(rest)
           k == Len(kept)
<1>1. /\ n \in Nat /\ Len(out) \in Nat \ {0} /\ Head(out) = out[1] /\ k \in Nat
      /\ rest \in Seq(W) /\ Len(rest) = Len(out) - 1
      /\ \A i \in 1..Len(rest) : rest[i] = out[i + 1]
  OBVIOUS
<1>2. /\ Len(s) = n + Len(rest) /\ \A i \in 1..n : s[i] = SessionOf(h[i])
      /\ \A i \in 1..Len(rest) : s[n + i] = SessionIn(rest[i])
  <2>1. rest \in Seq(W)
    BY <1>1
  <2> HIDE DEF rest
  <2> QED
    BY <2>1, Members
<1>3. /\ Len(r) = n + Len(out) /\ \A i \in 1..n : r[i] = SessionOf(h[i])
      /\ \A i \in 1..Len(out) : r[n + i] = SessionIn(out[i])
  BY Members
<1>4. a = n + Len(rest)
  OBVIOUS
<1> HIDE DEF rest, s, r, n, a, k
<1>5. a \in Nat /\ n \in 0..a /\ Len(r) = a + 1
  BY <1>1, <1>3, <1>4
<1>6. \A i \in 1..n : r[i] = s[i]
  BY <1>2, <1>3
<1>7. r[n + 1] = SessionIn(out[1])
  BY <1>1, <1>3
<1>8. ASSUME NEW i \in (n + 1)..a PROVE r[i + 1] = s[i]
  <2>1. PICK j \in 1..Len(rest) : n + j = i /\ j + 1 \in 1..Len(out) /\ n + (j + 1) = i + 1
    <3>1. /\ i - n \in 1..Len(rest) /\ n + (i - n) = i /\ (i - n) + 1 \in 1..Len(out)
          /\ n + ((i - n) + 1) = i + 1
      BY <1>1, <1>4, <1>8
    <3> QED
      BY <3>1
  <2> QED
    BY <1>1, <1>2, <1>3, <2>1
<1>9. KeepsOf(r, a + 1, kept, k, Empty)
  <2>1. k = Len(kept)
    BY DEF k
  <2> QED
    BY <1>5, <2>1, KeepsAll DEF r
<1>10. r[n + 1] = Empty
  BY <1>1, <1>7
<1>11. KeepsOf(s, a, kept, k, Empty) <=> KeepsOf(r, a + 1, kept, k, Empty)
  BY <1>1, <1>5, <1>6, <1>8, <1>10, Unheard
<1>12. Keeps(s, kept)
  <2>1. k = Len(kept) /\ a = Len(s)
    BY <1>2, <1>4 DEF k
  <2> QED
    BY <1>9, <1>11, <2>1, KeepsAll
<1> QED
  BY <1>12 DEF s, rest

\* An event that tells of no session may follow, whatever is not read.
LEMMA Ended ==
    ASSUME NEW V, NEW h \in Seq(V), NEW W, NEW out \in Seq(W), NEW e \in V, NEW U,
           NEW kept \in Seq(U), SessionOf(e) = Empty, Keeps(Stream(h, out), kept)
    PROVE  Keeps(Stream(Append(h, e), out), kept)
<1> DEFINE more == Append(h, e)
           s == Stream(h, out)
           r == Stream(more, out)
           n == Len(h)
           a == Len(h) + Len(out)
           k == Len(kept)
<1>1. n \in Nat /\ Len(out) \in Nat /\ k \in Nat
  OBVIOUS
<1>2. /\ more \in Seq(V) /\ Len(more) = n + 1 /\ more[n + 1] = e
      /\ \A i \in 1..n : more[i] = h[i]
  OBVIOUS
<1>3. /\ Len(s) = n + Len(out) /\ \A i \in 1..n : s[i] = SessionOf(h[i])
      /\ \A i \in 1..Len(out) : s[n + i] = SessionIn(out[i])
  BY Members
<1>4. /\ Len(r) = Len(more) + Len(out) /\ \A i \in 1..Len(more) : r[i] = SessionOf(more[i])
      /\ \A i \in 1..Len(out) : r[Len(more) + i] = SessionIn(out[i])
  BY <1>2, Members
<1>5. a = n + Len(out)
  OBVIOUS
<1> HIDE DEF more, s, r, n, a, k
<1>6. a \in Nat /\ n \in 0..a /\ Len(r) = a + 1 /\ Len(s) = a
  BY <1>1, <1>2, <1>3, <1>4, <1>5
<1>7. ASSUME NEW i \in 1..n PROVE r[i] = s[i]
  <2>1. i \in 1..Len(more)
    BY <1>1, <1>2, <1>7
  <2> QED
    BY <1>2, <1>3, <1>4, <2>1
<1>8. r[n + 1] = SessionOf(e)
  BY <1>1, <1>2, <1>4
<1>9. ASSUME NEW i \in (n + 1)..a PROVE r[i + 1] = s[i]
  <2>1. PICK j \in 1..Len(out) : n + j = i /\ Len(more) + j = i + 1
    <3>1. i - n \in 1..Len(out) /\ n + (i - n) = i /\ Len(more) + (i - n) = i + 1
      BY <1>1, <1>2, <1>5, <1>9
    <3> QED
      BY <3>1
  <2> QED
    BY <1>3, <1>4, <2>1
<1>10. k = Len(kept)
  BY DEF k
<1>11. KeepsOf(s, a, kept, k, Empty)
  BY <1>6, <1>10, KeepsAll DEF s
<1>12. KeepsOf(s, a, kept, k, Empty) <=> KeepsOf(r, a + 1, kept, k, Empty)
  BY <1>1, <1>6, <1>7, <1>8, <1>9, Unheard
<1>13. Keeps(r, kept)
  BY <1>6, <1>10, <1>11, <1>12, KeepsAll
<1> QED
  BY <1>13 DEF r, more

\* A line that tmux says: it tells of no session, or of the last.
LEMMA Said ==
    ASSUME NEW V, NEW h \in Seq(V), NEW W, NEW out \in Seq(W), NEW line \in W, NEW U,
           NEW kept \in Seq(U), Keeps(Stream(h, out), kept)
    PROVE  /\ SessionIn(line) = Empty => Keeps(Stream(h, Append(out, line)), kept)
           /\ SessionIn(line) # Empty /\ SessionIn(line) \in U =>
                  Keeps(Stream(h, Append(out, line)), Append(kept, SessionIn(line)))
<1> DEFINE longer == Append(out, line)
           s == Stream(h, out)
           r == Stream(h, longer)
           n == Len(h)
           a == Len(h) + Len(out)
           k == Len(kept)
           x == SessionIn(line)
           more == Append(kept, x)
<1>1. n \in Nat /\ Len(out) \in Nat /\ k \in Nat
  OBVIOUS
<1>2. /\ longer \in Seq(W) /\ Len(longer) = Len(out) + 1 /\ longer[Len(out) + 1] = line
      /\ \A i \in 1..Len(out) : longer[i] = out[i]
  OBVIOUS
<1>3. /\ Len(s) = n + Len(out) /\ \A i \in 1..n : s[i] = SessionOf(h[i])
      /\ \A i \in 1..Len(out) : s[n + i] = SessionIn(out[i])
  BY Members
<1>4. /\ Len(r) = n + Len(longer) /\ \A i \in 1..n : r[i] = SessionOf(h[i])
      /\ \A i \in 1..Len(longer) : r[n + i] = SessionIn(longer[i])
  BY <1>2, Members
<1>5. a = n + Len(out)
  OBVIOUS
<1>6. ASSUME x \in U
      PROVE  /\ Len(more) = k + 1 /\ more[k + 1] = x
             /\ \A i \in 1..k : more[i] = kept[i]
  <2> HIDE DEF x
  <2> QED
    BY <1>6
<1> HIDE DEF longer, s, r, n, a, k, x, more
<1>7. a \in Nat /\ a \in 0..a /\ Len(r) = a + 1 /\ Len(s) = a
  BY <1>1, <1>2, <1>3, <1>4, <1>5
<1>8. ASSUME NEW i \in 1..a PROVE r[i] = s[i]
  <2>1. CASE i <= n
    <3>1. i \in 1..n
      BY <1>1, <1>7, <1>8, <2>1
    <3> QED
      BY <1>3, <1>4, <3>1
  <2>2. CASE ~(i <= n)
    <3>1. PICK j \in 1..Len(out) : n + j = i /\ j \in 1..Len(longer)
      <4>1. i - n \in 1..Len(out) /\ n + (i - n) = i /\ i - n \in 1..Len(longer)
        BY <1>1, <1>2, <1>5, <1>7, <1>8, <2>2
      <4> QED
        BY <4>1
    <3> QED
      BY <1>2, <1>3, <1>4, <3>1
  <2> QED
    BY <2>1, <2>2
<1>9. r[a + 1] = x
  <2>1. Len(longer) \in 1..Len(longer) /\ n + Len(longer) = a + 1
    BY <1>1, <1>2, <1>5
  <2> QED
    BY <1>2, <1>4, <2>1 DEF x
<1>10. k = Len(kept)
  BY DEF k
<1>11. KeepsOf(s, a, kept, k, Empty)
  BY <1>7, <1>10, KeepsAll DEF s
<1>12. ASSUME x = Empty PROVE Keeps(r, kept)
  <2>1. r[a + 1] = Empty
    BY <1>9, <1>12
  <2>2. \A i \in (a + 1)..a : r[i + 1] = s[i]
    BY <1>7
  <2>3. KeepsOf(s, a, kept, k, Empty) <=> KeepsOf(r, a + 1, kept, k, Empty)
    BY <1>1, <1>7, <1>8, <2>1, <2>2, Unheard
  <2>4. KeepsOf(r, a + 1, kept, k, Empty)
    BY <1>11, <2>3
  <2> QED
    BY <1>7, <1>10, <2>4, KeepsAll
<1>13. ASSUME x # Empty, x \in U PROVE Keeps(r, more)
  <2>1. x # Empty /\ KeepsOf(s, a, kept, k, Empty)
    BY <1>11, <1>13
  <2>2. KeepsOf(r, a + 1, more, k + 1, Empty)
    BY <1>1, <1>6, <1>7, <1>8, <1>9, <1>13, <2>1, Heard
  <2>3. k + 1 = Len(more)
    BY <1>6, <1>13
  <2> QED
    BY <1>7, <2>2, <2>3, KeepsAll
<1> QED
  BY <1>12, <1>13 DEF r, longer, x, more
\* The session of a line that is none of an announcement.
LEMMA NoSession ==
    ASSUME NEW line, line.token # "%session-changed"
    PROVE  SessionIn(line) = Empty
BY Zenon DEF SessionIn, SessionChanged, Empty

\* The event of a notice tells of the session that its line tells of.
LEMMA Noticed ==
    ASSUME NEW line \in Lines
    PROVE  SessionOf(Notice(line)) = SessionIn(line)
<1>1. CASE SessionChanged(line)
  <2>1. line.token = "%session-changed"
    BY <1>1, Zenon DEF SessionChanged
  <2>2. line.token \notin TopologyTokens
    BY <2>1 DEF TopologyTokens
  <2>3. line.token # "%subscription-changed" /\ line.token # "%exit"
    BY <2>1
  <2>4. ~FocusSubscriptionChanged(line)
    BY <2>3, Zenon DEF FocusSubscriptionChanged
  <2>5. Notice(line) = [kind |-> "session", text |-> line.text]
    BY <1>1, <2>2, <2>3, <2>4 DEF Notice
  <2>6. PICK event : event = Notice(line)
    OBVIOUS
  <2>7. event.kind = "session" /\ event.text = line.text
    BY <2>5, <2>6
  <2>8. SessionOf(event) = line.text
    BY <2>7, Zenon DEF SessionOf
  <2>9. SessionIn(line) = line.text
    BY <1>1, Zenon DEF SessionIn
  <2> QED
    BY <2>6, <2>8, <2>9
<1>2. CASE ~SessionChanged(line)
  <2>1. Notice(line).kind # "session"
    BY <1>2 DEF Notice, Quiet
  <2> QED
    BY <1>2, <2>1, Zenon DEF SessionOf, SessionIn
<1> QED
  BY <1>1, <1>2

\* No notice is taken for data, and none of the guards and data for a notice.
LEMMA Heeds ==
    ASSUME NEW x, NEW p, NEW out \in Seq(Lines), NEW in, NEW t, out # <<>>,
           Shape(x, p, out, in, t)
    PROVE  SessionOf(PushLine(p, Head(out)).event) = SessionIn(Head(out))
<1> DEFINE line == Head(out)
           event == PushLine(p, line).event
<1>1. line = out[1] /\ out[1] \in Lines /\ Len(out) \in Nat \ {0} /\ 1 \in 1..Len(out)
  OBVIOUS
<1>2. p = NoBlock \/ (p.open > 0 /\ line.token # "%session-changed")
  <2>1. ASSUME NEW b \in Int, NEW n \in Nat \ {0}, AnsweredAt(x, p, out, in, t, b, n),
               p # NoBlock
        PROVE  p.open > 0 /\ line.token # "%session-changed"
    <3>1. b = 0 \/ b = -1
      BY <2>1 DEF AnsweredAt
    <3>2. p.open = n /\ n > 0
      BY <2>1 DEF AnsweredAt, Block
    <3>3. out[1] = Text(x) \/ out[1] = Closing(x, n, t)
      BY <2>1, <3>1 DEF AnsweredAt
    <3>4. Text(x).token = "" /\ Closing(x, n, t).token \in {"%end", "%error"}
      BY DEF Text, Closing, Line
    <3>5. Text(x).token # "%session-changed" /\ Closing(x, n, t).token # "%session-changed"
      BY <3>4
    <3> QED
      BY <1>1, <3>2, <3>3, <3>5
  <2> QED
    BY <2>1 DEF Shape, Resting, Written, Served
<1> HIDE DEF line
<1>3. CASE p.open > 0 /\ line.token # "%session-changed"
  <2>1. event.kind # "session"
    BY <1>3 DEF PushLine, Response, Quiet
  <2>2. SessionOf(event) = Empty
    BY <2>1, Zenon DEF SessionOf, Empty
  <2> QED
    BY <1>3, <2>2, NoSession DEF line
<1>4. CASE p = NoBlock
  <2>1. ~(p.open > 0)
    BY <1>4 DEF NoBlock
  <2>2. CASE IsGuard(line) /\ line.token = "%begin"
    <3>1. event = Quiet
      BY <2>1, <2>2 DEF PushLine
    <3>2. Quiet.kind # "session"
      BY DEF Quiet
    <3>3. SessionOf(event) = Empty
      BY <3>1, <3>2, Zenon DEF SessionOf, Empty
    <3>4. line.token # "%session-changed"
      BY <2>2
    <3> QED
      BY <3>3, <3>4, NoSession DEF line
  <2>3. CASE ~(IsGuard(line) /\ line.token = "%begin")
    <3>1. event = Notice(line)
      BY <2>1, <2>3 DEF PushLine
    <3> QED
      BY <1>1, <3>1, Noticed DEF line
  <2> QED
    BY <2>2, <2>3
<1> QED
  BY <1>2, <1>3, <1>4 DEF line

\* What was heard early is told when the actor begins.
OInv ==
    /\ announced \in Seq(Words)
    /\ pc \in {"attach", "refused"} => events = <<>>
    /\ pc \notin {"attach", "refused"} => early = <<>>
    /\ SessionsInOrder

\* One of the two lists of events is empty.
LEMMA OneList ==
    ASSUME IInv, OInv
    PROVE  /\ pc \in {"attach", "refused"} =>
                  events = <<>> /\ Keeps(Stream(early, stdout), announced)
           /\ pc \notin {"attach", "refused"} =>
                  early = <<>> /\ Keeps(Stream(events, stdout), announced)
<1>1. early \in Seq(Events) /\ events \in Seq(Events)
  BY DEF IInv, Types
<1>2. <<>> \o early = early /\ events \o <<>> = events
  BY <1>1
<1> QED
  BY <1>2 DEF OInv, SessionsInOrder

\* The lists and their stream give OInv.
LEMMA TwoLists ==
    ASSUME announced' \in Seq(Words), early' \in Seq(Events), events' \in Seq(Events),
           \/ /\ pc' \in {"attach", "refused"} /\ events' = <<>>
              /\ Keeps(Stream(early', stdout'), announced')
           \/ /\ pc' \notin {"attach", "refused"} /\ early' = <<>>
              /\ Keeps(Stream(events', stdout'), announced')
    PROVE  OInv'
<1>1. <<>> \o early' = early' /\ events' \o <<>> = events'
  OBVIOUS
<1> QED
  BY <1>1 DEF OInv, SessionsInOrder

\* A step that tells nobody anything.
LEMMA OtherOrder ==
    ASSUME IInv, OInv, UNCHANGED <<events, early, stdout, announced>>,
           pc' \in {"attach", "refused"} <=> pc \in {"attach", "refused"}
    PROVE  OInv'
BY DEF OInv, SessionsInOrder

\* The end is told after everything else.
LEMMA EndOrder ==
    ASSUME IInv, OInv, NEW reason \in Reasons, End(reason), pc = "run",
           stdout' \in Seq(Lines), Keeps(Stream(events, stdout'), announced)
    PROVE  OInv'
<1> DEFINE e == [kind |-> "terminated", text |-> reason]
<1>1. /\ pc' = "reaping" /\ events' = Append(events, e) /\ early' = early
      /\ announced' = announced
  BY DEF End
<1>2. e \in Events /\ e.kind # "session"
  BY DEF Events
<1> HIDE DEF e
<1>3. SessionOf(e) = Empty
  BY <1>2, Zenon DEF SessionOf, Empty
<1>4. events \in Seq(Events) /\ early \in Seq(Events) /\ announced \in Seq(Words) /\ early = <<>>
  BY DEF IInv, Types, OInv
<1>5. events' \in Seq(Events)
  BY <1>1, <1>2, <1>4
<1>6. Keeps(Stream(Append(events, e), stdout'), announced)
  BY <1>2, <1>3, <1>4, Ended
<1> QED
  BY <1>1, <1>4, <1>5, <1>6, TwoLists

\* Every step of the handshake.
LEMMA ConnectOrder ==
    ASSUME IInv, AInv, OInv, Connect
    PROVE  OInv'
<1>1. CASE HandshakeEnds
  <2>1. /\ pc = "attach" /\ pc' = "refused"
        /\ UNCHANGED <<events, early, stdout, announced>>
    BY <1>1 DEF HandshakeEnds, ConnectFails, actorVars
  <2> QED
    BY <2>1, OtherOrder
<1>2. CASE Handshake
  <2> DEFINE pushed == PushLine(parser, Head(stdout))
             event == pushed.event
  <2>1. /\ pc = "attach" /\ stdout # <<>> /\ stdout' = Tail(stdout) /\ announced' = announced
        /\ IF event.kind = "response" /\ event.ok
           THEN pc' = "run" /\ events' = early /\ early' = <<>>
           ELSE IF event.kind \in {"response", "exit"}
           THEN pc' = "refused" /\ events' = events /\ early' = early
           ELSE /\ early' = IF event.kind = "session" THEN Append(early, event) ELSE early
                /\ UNCHANGED <<pc, events>>
    BY <1>2 DEF Handshake, ConnectFails, actorVars
  <2>2. /\ stdout \in Seq(Lines) /\ early \in Seq(Events) /\ announced \in Seq(Words)
        /\ parser \in Parsers /\ events = <<>> /\ Keeps(Stream(early, stdout), announced)
    BY <2>1, OneList DEF IInv, Types, OInv
  <2>3. SessionOf(event) = SessionIn(Head(stdout))
    <3>1. Shape(Attach, parser, stdout, stdin, tmux)
      BY <2>1 DEF AInv, OneAtATime, InFlight
    <3> QED
      BY <2>1, <2>2, <3>1, Heeds
  <2>4. ASSUME event.kind # "session" PROVE Keeps(Stream(early, stdout'), announced)
    <3>1. SessionIn(Head(stdout)) = Empty
      BY <2>3, <2>4, Zenon DEF SessionOf, Empty
    <3> QED
      BY <2>1, <2>2, <3>1, Skipped
  <2>5. event.kind = "session" => event \in Events
    <3>1. Head(stdout) \in Lines
      BY <2>1, <2>2
    <3> QED
      BY <2>2, <3>1, Pushes, Kinds
  <2> HIDE DEF pushed, event
  <2>6. <<>> \in Seq(Events)
    OBVIOUS
  <2>7. CASE event.kind = "response" /\ event.ok
    <3>1. event.kind # "session"
      BY <2>7
    <3>2. pc' = "run" /\ events' = early /\ early' = <<>>
      BY <2>1, <2>7
    <3> QED
      BY <2>1, <2>2, <2>4, <2>6, <3>1, <3>2, TwoLists
  <2>8. CASE ~(event.kind = "response" /\ event.ok) /\ event.kind # "session"
    <3>1. pc' \in {"attach", "refused"} /\ events' = events /\ early' = early
      BY <2>1, <2>8
    <3> QED
      BY <2>1, <2>2, <2>4, <2>6, <2>8, <3>1, TwoLists
  <2>9. CASE event.kind = "session"
    <3>1. pc' = "attach" /\ events' = events /\ early' = Append(early, event)
      BY <2>1, <2>9
    <3>2. early' \in Seq(Events)
      BY <2>2, <2>5, <2>9, <3>1
    <3>3. Stream(early', stdout') = Stream(early, stdout)
      BY <2>1, <2>2, <2>3, <2>5, <2>9, <3>1, Passed
    <3> QED
      BY <2>1, <2>2, <2>6, <3>1, <3>2, <3>3, TwoLists
  <2> QED
    BY <2>7, <2>8, <2>9
<1> QED
  BY <1>1, <1>2 DEF Connect

\* A line that the actor reads.
LEMMA ReadOrder ==
    ASSUME IInv, AInv, OInv, ReadLine
    PROVE  OInv'
<1> DEFINE pushed == PushLine(parser, Head(stdout))
           event == pushed.event
<1>1. /\ pc = "run" /\ stdout # <<>> /\ stdout' = Tail(stdout)
      /\ CASE event.kind = "response" -> TakeResponse(event)
           [] event.kind = "exit" -> End("exited") /\ UNCHANGED deadline
           [] OTHER ->
                  /\ events' = IF event.kind = "none" THEN events ELSE Append(events, event)
                  /\ UNCHANGED <<pc, active, deadline, queue, closed, termination, early,
                                 held, calls, tmux, announced>>
  BY DEF ReadLine
<1>2. /\ stdout \in Seq(Lines) /\ events \in Seq(Events) /\ announced \in Seq(Words)
      /\ parser \in Parsers /\ early = <<>> /\ Keeps(Stream(events, stdout), announced)
  BY <1>1, OneList DEF IInv, Types, OInv
<1>3. SessionOf(event) = SessionIn(Head(stdout))
  <2>1. Shape(active, parser, stdout, stdin, tmux)
    BY <1>1 DEF AInv, OneAtATime, InFlight
  <2> QED
    BY <1>1, <1>2, <2>1, Heeds
<1>4. ASSUME event.kind # "session" PROVE Keeps(Stream(events, stdout'), announced)
  <2>1. SessionIn(Head(stdout)) = Empty
    BY <1>3, <1>4, Zenon DEF SessionOf, Empty
  <2> QED
    BY <1>1, <1>2, <2>1, Skipped
<1>5. stdout' \in Seq(Lines)
  BY <1>1, <1>2
<1>6. event.kind \notin {"response", "none"} => event \in Events
  <2>1. Head(stdout) \in Lines
    BY <1>1, <1>2
  <2> QED
    BY <1>2, <2>1, Pushes, Kinds
<1>7. <<>> \in Seq(Events)
  OBVIOUS
<1> HIDE DEF pushed, event
<1>8. CASE event.kind = "exit"
  <2>1. End("exited") /\ "exited" \in Reasons /\ event.kind # "session"
    BY <1>1, <1>8 DEF Reasons
  <2> QED
    BY <1>1, <1>4, <1>5, <2>1, EndOrder
<1>9. CASE event.kind \in {"response", "none"}
  <2>1. UNCHANGED <<pc, events, early, announced>> /\ event.kind # "session"
    BY <1>1, <1>9 DEF TakeResponse
  <2> QED
    BY <1>1, <1>2, <1>4, <1>7, <2>1, TwoLists
<1>10. CASE event.kind \notin {"response", "none", "exit"}
  <2>1. UNCHANGED <<pc, early, announced>> /\ events' = Append(events, event)
    BY <1>1, <1>10
  <2>2. events' \in Seq(Events)
    BY <1>2, <1>6, <1>10, <2>1
  <2>3. Stream(events', stdout') = Stream(events, stdout)
    BY <1>1, <1>2, <1>3, <1>6, <1>10, <2>1, Passed
  <2> QED
    BY <1>1, <1>2, <1>7, <2>1, <2>2, <2>3, TwoLists
<1> QED
  BY <1>8, <1>9, <1>10

\* The other steps of the actor tell of nothing but its end.
LEMMA ActorOrder ==
    ASSUME IInv, AInv, OInv, Actor
    PROVE  OInv'
<1>1. ASSUME NEW reason \in Reasons, End(reason), pc = "run", stdout' = stdout
      PROVE  OInv'
  <2>1. stdout \in Seq(Lines) /\ Keeps(Stream(events, stdout), announced)
    BY <1>1, OneList DEF IInv, Types
  <2> QED
    BY <1>1, <2>1, EndOrder
<1>2. CASE TimeOut
  <2>1. End("timed out") /\ "timed out" \in Reasons /\ pc = "run" /\ stdout' = stdout
    BY <1>2 DEF TimeOut, Reasons
  <2> QED
    BY <1>1, <2>1
<1>3. CASE ReadEnd
  <2>1. pc = "run" /\ stdout' = stdout /\ \E reason \in Reasons : End(reason)
    BY <1>3 DEF ReadEnd, Reasons
  <2> QED
    BY <1>1, <2>1
<1>4. CASE Receive
  <2>1. pc = "run" /\ stdout' = stdout
    BY <1>4 DEF Receive
  <2>2. CASE tmux.alive
    <3>1. UNCHANGED <<pc, events, early, announced>>
      BY <1>4, <2>2 DEF Receive
    <3> QED
      BY <2>1, <3>1, OtherOrder
  <2>3. CASE ~tmux.alive
    <3>1. End("write failed") /\ "write failed" \in Reasons
      BY <1>4, <2>3 DEF Receive, Reasons
    <3> QED
      BY <1>1, <2>1, <3>1
  <2> QED
    BY <2>2, <2>3
<1>5. CASE ReceiveNone \/ Reap
  <2>1. /\ pc \in {"run", "reaping"} /\ pc' \in {"reaping", "done"}
        /\ UNCHANGED <<events, early, stdout, announced>>
    BY <1>5 DEF ReceiveNone, Reap, actorVars, pipeVars
  <2> QED
    BY <2>1, OtherOrder
<1> QED
  BY <1>2, <1>3, <1>4, <1>5, ReadOrder DEF Actor

\* A line that tmux says, when it tells of no session.
LEMMA SaidOrder ==
    ASSUME NEW h \in Seq(Events), NEW out \in Seq(Lines), NEW line \in Lines,
           NEW kept \in Seq(Words), line.token # "%session-changed", Keeps(Stream(h, out), kept)
    PROVE  Append(out, line) \in Seq(Lines) /\ Keeps(Stream(h, Append(out, line)), kept)
BY NoSession, Said

\* Two members are appended one by one.
LEMMA Twice ==
    ASSUME NEW V, NEW s \in Seq(V), NEW a \in V, NEW b \in V
    PROVE  s \o <<a, b>> = Append(Append(s, a), b)
OBVIOUS

\* What tmux says.
LEMMA TmuxOrder ==
    ASSUME IInv, AInv, OInv, Tmux
    PROVE  OInv'
<1>1. UNCHANGED <<pc, events, early>>
  BY DEF Tmux, TmuxBegins, TmuxAnswers, TmuxAnnounces, TmuxDies, actorVars
<1>2. /\ stdout \in Seq(Lines) /\ early \in Seq(Events) /\ events \in Seq(Events)
      /\ announced \in Seq(Words) /\ tmux \in Servers
  BY DEF IInv, Types, OInv
<1>3. /\ pc \in {"attach", "refused"} =>
             events = <<>> /\ Keeps(Stream(early, stdout), announced)
      /\ pc \notin {"attach", "refused"} =>
             early = <<>> /\ Keeps(Stream(events, stdout), announced)
  BY OneList
<1>4. ASSUME announced' \in Seq(Words),
             \A h \in Seq(Events) :
                 Keeps(Stream(h, stdout), announced) => Keeps(Stream(h, stdout'), announced')
      PROVE  OInv'
  BY <1>1, <1>2, <1>3, <1>4, TwoLists
<1>5. CASE TmuxBegins
  <2> DEFINE line == Line("%begin", tmux.number, "")
  <2>1. stdout' = Append(stdout, line) /\ announced' = announced
    BY <1>5 DEF TmuxBegins
  <2>2. line \in Lines /\ line.token = "%begin"
    BY <1>2 DEF Line, Lines, Servers
  <2> HIDE DEF line
  <2>3. line.token # "%session-changed"
    BY <2>2
  <2> QED
    BY <1>2, <1>4, <2>1, <2>2, <2>3, SaidOrder
<1>6. ASSUME NEW ok \in BOOLEAN, TmuxAnswers(ok) PROVE OInv'
  <2> DEFINE first == Line("", 0, tmux.serving)
             second == Line(IF ok THEN "%end" ELSE "%error", tmux.number, "")
  <2>1. stdout' = stdout \o <<first, second>> /\ announced' = announced /\ tmux.serving # None
    BY <1>6 DEF TmuxAnswers
  <2>2. first \in Lines /\ first.token = ""
    BY <1>2, <2>1 DEF Line, Lines, Servers
  <2>3. second \in Lines /\ second.token \in {"%end", "%error"}
    BY <1>2 DEF Line, Lines, Servers
  <2> HIDE DEF first, second
  <2>4. first.token # "%session-changed" /\ second.token # "%session-changed"
    BY <2>2, <2>3
  <2>5. stdout' = Append(Append(stdout, first), second)
    <3>1. first \in Lines /\ second \in Lines /\ stdout \in Seq(Lines)
      BY <1>2, <2>2, <2>3
    <3>2. stdout \o <<first, second>> = Append(Append(stdout, first), second)
      BY <3>1, Twice
    <3> QED
      BY <2>1, <3>2
  <2>6. ASSUME NEW h \in Seq(Events), Keeps(Stream(h, stdout), announced)
        PROVE  Keeps(Stream(h, stdout'), announced')
    <3> DEFINE once == Append(stdout, first)
    <3>1. once \in Seq(Lines) /\ Keeps(Stream(h, once), announced)
      BY <1>2, <2>2, <2>4, <2>6, SaidOrder
    <3>2. stdout' = Append(once, second)
      BY <2>5
    <3> HIDE DEF once
    <3> QED
      BY <1>2, <2>1, <2>3, <2>4, <3>1, <3>2, SaidOrder
  <2> QED
    BY <1>2, <1>4, <2>1, <2>6
<1>7. ASSUME NEW line \in Notices, TmuxAnnounces(line) PROVE OInv'
  <2>1. /\ stdout' = Append(stdout, line)
        /\ announced' = IF SessionChanged(line) THEN Append(announced, line.text) ELSE announced
    BY <1>7 DEF TmuxAnnounces
  <2>2. line \in Lines /\ line.text \in Words
    BY DEF Lines, Words
  <2>3. CASE SessionChanged(line)
    <3>1. SessionIn(line) = line.text /\ SessionIn(line) # Empty
      BY <2>3, Zenon DEF SessionIn, SessionChanged, Empty
    <3>2. announced' = Append(announced, SessionIn(line))
      BY <2>1, <2>3, <3>1
    <3>3. announced' \in Seq(Words)
      BY <1>2, <2>2, <3>1, <3>2
    <3>4. ASSUME NEW h \in Seq(Events), Keeps(Stream(h, stdout), announced)
          PROVE  Keeps(Stream(h, stdout'), announced')
      BY <1>2, <2>1, <2>2, <3>1, <3>2, <3>4, Said
    <3> QED
      BY <1>4, <3>3, <3>4
  <2>4. CASE ~SessionChanged(line)
    <3>1. SessionIn(line) = Empty
      BY <2>4, Zenon DEF SessionIn, Empty
    <3>2. announced' = announced
      BY <2>1, <2>4
    <3>3. ASSUME NEW h \in Seq(Events), Keeps(Stream(h, stdout), announced)
          PROVE  Keeps(Stream(h, stdout'), announced')
      BY <1>2, <2>1, <2>2, <3>1, <3>2, <3>3, Said
    <3> QED
      BY <1>2, <1>4, <3>2, <3>3
  <2> QED
    BY <2>3, <2>4
<1>8. CASE TmuxDies
  <2>1. UNCHANGED <<stdout, announced>>
    BY <1>8 DEF TmuxDies
  <2> QED
    BY <1>1, <2>1, OtherOrder
<1> QED
  BY <1>5, <1>6, <1>7, <1>8 DEF Tmux

\* At the start nothing is announced.
LEMMA OrderStarts == ASSUME Init PROVE OInv
<1>1. /\ pc = "attach" /\ events = <<>> /\ early = <<>> /\ stdout = <<>> /\ announced = <<>>
  BY DEF Init
<1> DEFINE s == Stream(<<>> \o <<>>, <<>>)
           kept == <<>>
           none == [i \in 1..0 |-> 0]
<1>2. Len(s) = 0 /\ Len(kept) = 0
  BY DEF Stream
<1>3. none \in [1..0 -> 1..0] /\ \A i : i \notin 1..0
  OBVIOUS
<1> HIDE DEF s, kept, none
<1>4. KeepsOf(s, 0, kept, 0, Empty)
  BY <1>3 DEF KeepsOf
<1>5. Keeps(s, kept)
  BY <1>2, <1>4, KeepsAll
<1>6. announced \in Seq(Words)
  BY <1>1
<1> QED
  BY <1>1, <1>5, <1>6 DEF OInv, SessionsInOrder, s, kept

\* Every session that tmux announces reaches the loop, once and in the order
\* of the announcements, for any number of them, any number of calls, and
\* whenever the handshake ends and a channel dies: none is taken for the data
\* of an answer, and what is announced during the handshake is told first.
THEOREM SessionsStayInOrder == Spec => []SessionsInOrder
<1>1. Init => OInv
  BY OrderStarts
<1>2. IInv /\ AInv /\ OInv /\ [Next]_vars => OInv'
  <2> SUFFICES ASSUME IInv, AInv, OInv, [Next]_vars PROVE OInv'
    OBVIOUS
  <2>1. CASE UNCHANGED vars
    BY <2>1, OtherOrder DEF vars, actorVars, pipeVars
  <2>2. CASE DropHandle
    BY <2>2, OtherOrder DEF DropHandle, actorVars, pipeVars
  <2>3. ASSUME NEW c \in Calls, Caller(c) PROVE OInv'
    <3>1. UNCHANGED <<pc, events, early, stdout, announced>>
      BY <2>3 DEF Caller, Ask, Send, Refuse, Abandon, actorVars, pipeVars
    <3> QED
      BY <3>1, OtherOrder
  <2> QED
    BY <2>1, <2>2, <2>3, ConnectOrder, ActorOrder, TmuxOrder DEF Next
<1>3. OInv => SessionsInOrder
  BY DEF OInv
<1> QED
  BY <1>1, <1>2, <1>3, Invariance, Answering, PTL DEF Spec
=============================================================================
