---------------------------- MODULE DashboardPreview ----------------------------
(***************************************************************************)
(* The preview of the dashboard (PreviewState and its handlers in          *)
(* pane-dash/src/app.rs, the captures that main.rs spawns, what ui.rs      *)
(* draws) and the scrolling of the help dialog.                            *)
(*                                                                         *)
(* The pane that has the focus is captured again and again by tasks that   *)
(* end in any order. A capture that is awaited has a sequence number and a *)
(* pane, `in_flight`; answers to others are dropped. Ctrl-u and Ctrl-d     *)
(* inspect: the frame stays while the user scrolls. No capture is made     *)
(* while the terminal is out of focus. Before every frame, redraw feeds    *)
(* the heights of the preview and of the help page to the reducer.         *)
(*                                                                         *)
(* How the focus moves is in DashboardApp: here any event may give it to   *)
(* any pane or to none. Of a frame its pane and its number of lines are    *)
(* kept. Bounds: MaxSequence captures; the sizes and alerts given.         *)
(***************************************************************************)
EXTENDS Integers, Sequences, FiniteSets

CONSTANTS
    Panes, NoPane,
    LineCounts,     \* how many lines a capture may have
    Areas,          \* [wide, height]: the sizes of the terminal
    MaxAlerts,      \* how many lines of alerts there may be
    HelpLines,      \* [wide |-> , narrow |-> ]: the lines of the help text
    MaxSequence

ASSUME PreviewAssumption ==
    /\ NoPane \notin Panes
    /\ LineCounts \subseteq Nat
    /\ \A area \in Areas : area.wide \in BOOLEAN /\ area.height \in Nat
    /\ {MaxAlerts, MaxSequence, HelpLines.wide, HelpLines.narrow} \subseteq Nat

VARIABLES
    preview,    \* PreviewState
    help,       \* HelpState, or NoHelp
    area, alerts,   \* the terminal, and how many alerts are shown
    captures,   \* the captures under way
    answers,    \* the channel of PreviewResponses
    screen,     \* what was drawn last
    history     \* when the pane was selected, and the frame's capture made

vars == <<preview, help, area, alerts, captures, answers, screen, history>>

NoFrame == [pane |-> NoPane, lines |-> 0]
NoCapture == [sequence |-> 0, pane |-> NoPane]
NoHelp == [offset |-> -1, max |-> 0, page |-> 0]

Monus(x, y) == IF x > y THEN x - y ELSE 0
Least(x, y) == IF x < y THEN x ELSE y
Most(x, y) == IF x > y THEN x ELSE y

\* What a handler gives: the state, the capture to make, whether to redraw.
Give(p, capture, changed) == [preview |-> p, capture |-> capture, changed |-> changed]
Changed(result) == Give(result.preview, result.capture, TRUE)

-----------------------------------------------------------------------------
(* Layout                                                                   *)

\* preview_inner_height: beside the list, or below it under a border.
InnerHeight(size, lines) ==
    LET content == Monus(Monus(size.height, 1), Least(lines, Monus(size.height, 1)))
    IN  IF size.wide THEN content ELSE Monus((content * 55) \div 100, 1)

\* help_viewport: the dialog has a border and a footer.
HelpPage(size) == Monus(Least(size.height, 48), 3)
HelpEnd(size) == Monus(IF size.wide THEN HelpLines.wide ELSE HelpLines.narrow, HelpPage(size))

-----------------------------------------------------------------------------
(* Handlers                                                                 *)

RequestPreview(p) ==
    LET capture == [sequence |-> p.sequence + 1, pane |-> p.target]
    IN  Give([p EXCEPT !.sequence = @ + 1, !.inFlight = capture],
             IF p.focused THEN capture ELSE NoCapture, FALSE)

\* sync_preview_target, when the selected pane is another.
SyncTarget(p, pane) ==
    LET moved == [p EXCEPT !.target = pane, !.frame = NoFrame, !.error = FALSE,
                           !.inspect = FALSE, !.bottom = 0, !.inFlight = NoCapture]
    IN  IF pane = p.target THEN Give(p, NoCapture, FALSE)
        ELSE IF pane = NoPane THEN Give(moved, NoCapture, TRUE)
        ELSE Changed(RequestPreview(moved))

PreviewTick(p) ==
    IF p.target # NoPane /\ ~p.inspect /\ p.focused /\ p.inFlight = NoCapture
    THEN RequestPreview(p) ELSE Give(p, NoCapture, FALSE)

MaxOffset(p) == Monus(p.frame.lines, p.height)

\* Mutant: a higher viewport leaves the offset where it was.
ViewportUnclamped(p, height) == [p EXCEPT !.height = height]

\* reduce_preview_viewport
Viewport(p, height) ==
    LET sized == [p EXCEPT !.height = height]
    IN  [sized EXCEPT !.bottom = Least(@, MaxOffset(sized))]

\* reduce_help_viewport
HelpViewport(h, size) ==
    IF h = NoHelp THEN NoHelp
    ELSE [offset |-> Least(h.offset, HelpEnd(size)), max |-> HelpEnd(size),
          page |-> HelpPage(size)]

\* Mutant: the timer is to request what the terminal's focus brings back.
TerminalFocusAwaitingTimer(p, focused) ==
    LET b == [p EXCEPT !.focused = focused]
    IN  IF p.focused = focused THEN Give(p, NoCapture, FALSE)
        ELSE IF ~focused THEN Give([b EXCEPT !.inFlight = NoCapture], NoCapture, TRUE)
        ELSE Give(b, NoCapture, TRUE)

\* reduce_terminal_focus
TerminalFocus(p, focused) ==
    LET b == [p EXCEPT !.focused = focused]
    IN  IF p.focused = focused THEN Give(p, NoCapture, FALSE)
        ELSE IF ~focused THEN Give([b EXCEPT !.inFlight = NoCapture], NoCapture, TRUE)
        ELSE IF p.target # NoPane /\ ~p.inspect
        THEN Changed(RequestPreview(b))
        ELSE Give(b, NoCapture, TRUE)

\* Mutant: an answer is taken if it is of the pane, whichever request it was.
CapturedForPane(p, answer) ==
    LET b == [p EXCEPT !.inFlight = NoCapture, !.error = ~answer.good,
                       !.frame = IF answer.good THEN answer.frame ELSE NoFrame,
                       !.bottom = IF answer.good THEN 0 ELSE @]
    IN  IF p.target # answer.capture.pane \/ p.inFlight = NoCapture
        THEN Give(p, NoCapture, FALSE)
        ELSE Give(b, NoCapture, <<b.frame, b.error, b.bottom>> # <<p.frame, p.error, p.bottom>>)

PreviewCaptured(p, answer) ==
    LET b == [p EXCEPT !.inFlight = NoCapture, !.error = ~answer.good,
                       !.frame = IF answer.good THEN answer.frame ELSE NoFrame,
                       !.bottom = IF answer.good THEN 0 ELSE @]
    IN  IF p.target # answer.capture.pane \/ p.inFlight # answer.capture
        THEN Give(p, NoCapture, FALSE)
        ELSE Give(b, NoCapture, <<b.frame, b.error, b.bottom>> # <<p.frame, p.error, p.bottom>>)

\* Mutant: the capture under way is still awaited.
InspectAwaiting(p, up) ==
    LET half == Most(p.height \div 2, 1)
        b == [p EXCEPT !.inspect = TRUE,
                       !.bottom = IF up THEN Least(@ + half, MaxOffset(p)) ELSE Monus(@, half)]
    IN  Give(b, NoCapture, b # p)

\* inspect_preview: Ctrl-u and Ctrl-d.
InspectPreview(p, up) ==
    LET half == Most(p.height \div 2, 1)
        b == [p EXCEPT !.inspect = TRUE, !.inFlight = NoCapture,
                       !.bottom = IF up THEN Least(@ + half, MaxOffset(p)) ELSE Monus(@, half)]
    IN  Give(b, NoCapture, b # p)

\* Ctrl-r
FollowPreview(p) ==
    LET b == [p EXCEPT !.inspect = FALSE, !.bottom = 0]
    IN  IF p.target # NoPane /\ p.focused
        THEN Changed(RequestPreview(b))
        ELSE Give(b, NoCapture, p.inspect \/ p.bottom # 0)

\* reduce_help_key: where each key of the help dialog scrolls to.
HelpScrolls(h) ==
    LET half == Most(h.page \div 2, 1)
        full == Most(h.page, 1)
        down(n) == Least(h.offset + n, h.max)
        up(n) == Monus(h.offset, n)
    IN  {down(1), up(1), down(half), up(half), down(full), up(full), 0, h.max}

-----------------------------------------------------------------------------
(* Frames                                                                   *)

\* render_preview and preview_scroll: the first line of the frame drawn.
PreviewScroll(p, height) ==
    LET follow == Monus(p.frame.lines, height)
    IN  IF p.inspect THEN Monus(follow, p.bottom) ELSE follow

Draw(p, h, size, lines) ==
    [shows |-> IF p.target = NoPane THEN "hint"
               ELSE IF p.error THEN "error"
               ELSE IF p.frame # NoFrame THEN "frame" ELSE "capturing",
     frame |-> p.frame, start |-> PreviewScroll(p, InnerHeight(size, lines)),
     help |-> IF h = NoHelp THEN -1 ELSE Least(h.offset, HelpEnd(size))]

\* redraw
Redraw(p, h) ==
    /\ preview' = Viewport(p, InnerHeight(area', alerts'))
    /\ help' = HelpViewport(h, area')
    /\ screen' = Draw(preview', help', area', alerts')

\* apply_event: the capture is spawned, the screen is drawn if it changed.
Apply(result) ==
    /\ UNCHANGED <<area, alerts>>
    /\ captures' = IF result.capture = NoCapture THEN captures
                   ELSE captures \cup {result.capture}
    /\ IF result.changed THEN Redraw(result.preview, help)
       ELSE preview' = result.preview /\ UNCHANGED <<help, screen>>

-----------------------------------------------------------------------------
(* Actions                                                                  *)

\* The bound: a request can be made.
MayRequest == preview.sequence < MaxSequence

SelectPane(pane) ==
    /\ MayRequest
    /\ pane # preview.target
    /\ Apply(SyncTarget(preview, pane))
    /\ history' = [history EXCEPT !.selected = preview.sequence]
    /\ UNCHANGED answers

PreviewTimer ==
    /\ MayRequest
    /\ Apply(PreviewTick(preview))
    /\ UNCHANGED <<answers, history>>

FocusTerminal(focused) ==
    /\ MayRequest
    /\ Apply(TerminalFocus(preview, focused))
    /\ UNCHANGED <<answers, history>>

Inspect(up) ==
    /\ help = NoHelp
    /\ Apply(InspectPreview(preview, up))
    /\ UNCHANGED <<answers, history>>

Follow ==
    /\ help = NoHelp
    /\ MayRequest
    /\ Apply(FollowPreview(preview))
    /\ UNCHANGED <<answers, history>>

OpenHelp ==
    /\ help = NoHelp
    /\ UNCHANGED <<area, alerts, captures, answers, history>>
    /\ Redraw(preview, [offset |-> 0, max |-> 0, page |-> 0])

CloseHelp ==
    /\ help # NoHelp
    /\ UNCHANGED <<area, alerts, captures, answers, history>>
    /\ Redraw(preview, NoHelp)

ScrollHelp ==
    /\ help # NoHelp
    /\ UNCHANGED <<area, alerts, captures, answers, history>>
    /\ \E offset \in HelpScrolls(help) :
           offset # help.offset /\ Redraw(preview, [help EXCEPT !.offset = offset])

\* A resize of the terminal, or an event that changes the alerts.
Resize ==
    /\ area' \in Areas /\ alerts' \in 0..MaxAlerts
    /\ UNCHANGED <<captures, answers, history>>
    /\ Redraw(preview, help)

\* tmux capture-pane ends: the pane has so many lines, or is gone.
CaptureEnds ==
    \E capture \in captures :
        /\ captures' = captures \ {capture}
        /\ \/ \E lines \in LineCounts :
                  answers' = Append(answers, [capture |-> capture, good |-> TRUE,
                                              frame |-> [pane |-> capture.pane, lines |-> lines]])
           \/ answers' = Append(answers, [capture |-> capture, good |-> FALSE,
                                          frame |-> NoFrame])
        /\ UNCHANGED <<preview, help, area, alerts, screen, history>>

ReceiveAnswer ==
    /\ answers # <<>>
    /\ answers' = Tail(answers)
    /\ LET result == PreviewCaptured(preview, Head(answers))
       IN  /\ Apply(result)
           /\ history' = IF result.preview = preview THEN history
                         ELSE [history EXCEPT !.frame = Head(answers).capture.sequence]

\* run_dashboard: the first redraw selects the pane that the dashboard was
\* launched from, and the capture that reduce asks for is not made.
Launch(pane) ==
    SyncTarget([target |-> NoPane, frame |-> NoFrame, error |-> FALSE, inspect |-> FALSE,
                bottom |-> 0, height |-> InnerHeight(area, alerts), focused |-> TRUE,
                sequence |-> 0, inFlight |-> NoCapture], pane).preview

Init ==
    /\ area \in Areas /\ alerts = 0
    /\ \E pane \in Panes \cup {NoPane} : preview = Launch(pane)
    /\ help = NoHelp
    /\ captures = {} /\ answers = <<>>
    /\ screen = Draw(preview, help, area, alerts)
    /\ history = [selected |-> 0, frame |-> 0, lost |-> preview.sequence]

Next ==
    \/ \E pane \in Panes \cup {NoPane} : SelectPane(pane)
    \/ PreviewTimer
    \/ \E focused \in BOOLEAN : FocusTerminal(focused)
    \/ \E up \in BOOLEAN : Inspect(up)
    \/ Follow
    \/ OpenHelp
    \/ CloseHelp
    \/ ScrollHelp
    \/ Resize
    \/ CaptureEnds
    \/ ReceiveAnswer

Spec == Init /\ [][Next]_vars

\* tmux answers, and the loop takes the answers.
FairSpec == Spec /\ WF_vars(CaptureEnds) /\ WF_vars(ReceiveAnswer)

-----------------------------------------------------------------------------
(* Properties                                                               *)

\* The frame is of the pane that is selected, and was asked for since it was:
\* a pane left and come back to does not show what it was before.
FrameIsOfSelection ==
    preview.frame # NoFrame =>
        preview.frame.pane = preview.target /\ history.frame > history.selected

\* While the user inspects a pane the frame does not move under them, and
\* otherwise no frame gives way to an older one, in whatever order captures
\* end (README:216, "pause preview capture only").
HoldsStill ==
    [][/\ preview.inspect /\ preview'.inspect /\ preview'.target = preview.target
          => preview'.frame = preview.frame
       /\ history'.frame >= history.frame]_vars

\* The screen shows the preview and the help page as they are, from an offset
\* within them: whatever resizes, alerts, keys and answers come in between,
\* nothing is drawn past an end, and no change stays undrawn.
ScreenFollows ==
    /\ screen = Draw(preview, help, area, alerts)
    /\ preview.bottom <= Monus(preview.frame.lines, InnerHeight(area, alerts))
    /\ help # NoHelp => help.offset <= HelpEnd(area) /\ help.page = HelpPage(area)

\* A pane that is selected and not inspected gets a frame or an error, unless
\* it is the launch pane, whose first capture is never made.
Unanswered ==
    /\ preview.target # NoPane /\ preview.focused /\ ~preview.inspect
    /\ preview.frame = NoFrame /\ ~preview.error
    /\ preview.inFlight = NoCapture \/ preview.inFlight.sequence # history.lost

PreviewAnswers == Unanswered ~> ~Unanswered
=============================================================================
