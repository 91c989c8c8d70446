------------------------- MODULE DashboardPreviewProofs -------------------------
(***************************************************************************)
(* The preview shows the selected pane as it was after it was selected,    *)
(* holds still for a user who inspects it, never goes back to an older     *)
(* frame, and is drawn whenever it changes, for any panes, sizes of the    *)
(* terminal and number of captures.                                        *)
(*                                                                         *)
(* The argument: the capture that is awaited was asked for after the pane  *)
(* was selected and after the capture of the frame, and nothing is awaited *)
(* while the user inspects (Awaits); an answer is taken only when it is    *)
(* the one awaited, and whoever was asked answers of the pane it was asked *)
(* about (Answered). Every handler gives such a state, and reports a       *)
(* change whenever it gives another picture (Gives).                       *)
(***************************************************************************)
EXTENDS DashboardPreview, TLAPS

Frames == [pane : Panes \cup {NoPane}, lines : Nat]
Captures == [sequence : Nat, pane : Panes \cup {NoPane}]
Answers == [capture : Captures, good : BOOLEAN, frame : Frames]
Previews ==
    [target : Panes \cup {NoPane}, frame : Frames, error : BOOLEAN, inspect : BOOLEAN,
     bottom : Nat, height : Nat, focused : BOOLEAN, sequence : Nat, inFlight : Captures]
Helps == {NoHelp} \cup [offset : Nat, max : Nat, page : Nat]
Histories == [selected : Nat, frame : Nat, lost : Nat]

Types ==
    /\ preview \in Previews /\ help \in Helps
    /\ area \in Areas /\ alerts \in Nat
    /\ captures \subseteq Captures /\ answers \in Seq(Answers)
    /\ history \in Histories

Asked(capture) == capture.sequence > 0

Answered ==
    /\ \A capture \in captures : Asked(capture)
    /\ \A i \in 1..Len(answers) :
           /\ Asked(answers[i].capture)
           /\ answers[i].good => answers[i].frame.pane = answers[i].capture.pane

Awaits(p, h) ==
    /\ h.selected <= p.sequence /\ h.frame <= p.sequence
    /\ p.inFlight # NoCapture =>
           /\ p.inFlight.pane = p.target /\ ~p.inspect
           /\ p.inFlight.sequence > h.selected /\ p.inFlight.sequence > h.frame
           /\ p.inFlight.sequence <= p.sequence

Framed(p, h) == p.frame # NoFrame => p.frame.pane = p.target /\ h.frame > h.selected

Fits ==
    /\ preview.height = InnerHeight(area, alerts)
    /\ preview.bottom <= MaxOffset(preview)
    /\ help # NoHelp => help.offset <= HelpEnd(area) /\ help.page = HelpPage(area)
    /\ screen = Draw(preview, help, area, alerts)

IInv == Types /\ Answered /\ Awaits(preview, history) /\ Framed(preview, history) /\ Fits

\* What is drawn of p and q is the same.
Looks(p, q) ==
    /\ p.target = q.target /\ p.error = q.error /\ p.frame = q.frame
    /\ p.inspect = q.inspect /\ p.bottom = q.bottom

\* What a handler gives, the history being h then.
Gives(result, h) ==
    /\ result.preview \in Previews
    /\ result.preview.height = preview.height
    /\ result.capture \in Captures
    /\ result.capture # NoCapture => Asked(result.capture)
    /\ result.changed \in BOOLEAN
    /\ ~result.changed => Looks(result.preview, preview)
    /\ Awaits(result.preview, h) /\ Framed(result.preview, h)
    /\ preview.inspect /\ result.preview.inspect /\ result.preview.target = preview.target
           => result.preview.frame = preview.frame

-----------------------------------------------------------------------------
(* Layout                                                                   *)

\* Heights and lengths are natural numbers, whatever the terminal.
LEMMA Heights ==
    ASSUME NEW size \in Areas, NEW lines \in Nat
    PROVE  InnerHeight(size, lines) \in Nat /\ HelpPage(size) \in Nat /\ HelpEnd(size) \in Nat
<1>1. size.height \in Nat /\ HelpLines.wide \in Nat /\ HelpLines.narrow \in Nat
  BY PreviewAssumption
<1>2. \A x, y \in Nat : Monus(x, y) \in Nat /\ Least(x, y) \in Nat
  BY DEF Monus, Least
<1>3. \A x \in Nat : (x * 55) \div 100 \in Nat
  OBVIOUS
<1>4. Monus(Monus(size.height, 1), Least(lines, Monus(size.height, 1))) \in Nat
  BY <1>1, <1>2
<1>5. InnerHeight(size, lines) \in Nat
  BY <1>2, <1>3, <1>4 DEF InnerHeight
<1>6. HelpPage(size) \in Nat
  BY <1>1, <1>2 DEF HelpPage
<1>7. (IF size.wide THEN HelpLines.wide ELSE HelpLines.narrow) \in Nat
  BY <1>1
<1>8. HelpEnd(size) \in Nat
  BY <1>2, <1>6, <1>7 DEF HelpEnd
<1> QED
  BY <1>5, <1>6, <1>8

\* The null values have the types of what they stand for.
LEMMA Nulls == NoFrame \in Frames /\ NoCapture \in Captures /\ NoFrame.lines = 0
BY DEF NoFrame, NoCapture, Frames, Captures

\* What redraw makes of a preview: its height and offset are those of the
\* terminal, and the rest is as it was.
LEMMA Sized ==
    ASSUME NEW p \in Previews, NEW height \in Nat
    PROVE  LET q == Viewport(p, height)
           IN  /\ q \in Previews /\ q.height = height /\ q.bottom <= MaxOffset(q)
               /\ q.target = p.target /\ q.frame = p.frame /\ q.error = p.error
               /\ q.inspect = p.inspect /\ q.focused = p.focused
               /\ q.sequence = p.sequence /\ q.inFlight = p.inFlight
<1> DEFINE sized == [p EXCEPT !.height = height]
           bottom == Least(sized.bottom, MaxOffset(sized))
           q == [sized EXCEPT !.bottom = bottom]
<1>1. /\ sized \in Previews /\ sized.height = height
      /\ sized.target = p.target /\ sized.frame = p.frame /\ sized.error = p.error
      /\ sized.inspect = p.inspect /\ sized.focused = p.focused
      /\ sized.sequence = p.sequence /\ sized.inFlight = p.inFlight
  BY DEF Previews
<1>2. Viewport(p, height) = q
  BY DEF Viewport
<1> HIDE DEF sized
<1>3. MaxOffset(sized) \in Nat
  BY <1>1 DEF MaxOffset, Monus, Previews, Frames
<1>4. bottom \in Nat /\ bottom <= MaxOffset(sized)
  BY <1>1, <1>3 DEF Least, Previews
<1> HIDE DEF bottom
<1>5. /\ q \in Previews /\ q.height = height /\ q.bottom = bottom
      /\ q.target = sized.target /\ q.frame = sized.frame /\ q.error = sized.error
      /\ q.inspect = sized.inspect /\ q.focused = sized.focused
      /\ q.sequence = sized.sequence /\ q.inFlight = sized.inFlight
  BY <1>1, <1>4 DEF Previews
<1>6. MaxOffset(q) = MaxOffset(sized)
  BY <1>1, <1>5 DEF MaxOffset
<1> QED
  BY <1>1, <1>2, <1>4, <1>5, <1>6

\* A page of help that is redrawn lies within the text.
LEMMA Paged ==
    ASSUME NEW h \in Helps, NEW size \in Areas
    PROVE  LET g == HelpViewport(h, size)
           IN  /\ g \in Helps
               /\ g # NoHelp => g.offset <= HelpEnd(size) /\ g.page = HelpPage(size)
<1>1. HelpPage(size) \in Nat /\ HelpEnd(size) \in Nat
  BY Heights, 0 \in Nat
<1>2. CASE h = NoHelp
  BY <1>2 DEF HelpViewport, Helps
<1>3. CASE h # NoHelp
  <2> DEFINE offset == Least(h.offset, HelpEnd(size))
             g == [offset |-> offset, max |-> HelpEnd(size), page |-> HelpPage(size)]
  <2>1. HelpViewport(h, size) = g
    BY <1>3 DEF HelpViewport
  <2>2. offset \in Nat /\ offset <= HelpEnd(size)
    BY <1>1, <1>3 DEF Helps, Least
  <2> QED
    BY <1>1, <2>1, <2>2 DEF Helps
<1> QED
  BY <1>2, <1>3

-----------------------------------------------------------------------------
(* Handlers                                                                 *)

\* What request_preview gives: a capture newer than the selection and the
\* frame, awaited, and the preview otherwise as it was.
LEMMA Requests ==
    ASSUME NEW p \in Previews, NEW h \in Histories, ~p.inspect,
           h.selected <= p.sequence, h.frame <= p.sequence, Framed(p, h)
    PROVE  \E q \in Previews, capture \in Captures :
               /\ RequestPreview(p) = Give(q, capture, FALSE)
               /\ Changed(RequestPreview(p)) = Give(q, capture, TRUE)
               /\ Looks(q, p) /\ q.height = p.height
               /\ capture # NoCapture => Asked(capture)
               /\ Awaits(q, h) /\ Framed(q, h)
<1> DEFINE asked == [sequence |-> p.sequence + 1, pane |-> p.target]
           q == [p EXCEPT !.sequence = @ + 1, !.inFlight = asked]
           capture == IF p.focused THEN asked ELSE NoCapture
<1>1. /\ asked \in Captures /\ Asked(asked) /\ p.sequence + 1 \in Nat
      /\ asked.sequence = p.sequence + 1 /\ asked.pane = p.target
  BY DEF Previews, Captures, Asked
<1> HIDE DEF asked, capture
<1>2. /\ q \in Previews /\ q.sequence = p.sequence + 1 /\ q.inFlight = asked
      /\ q.target = p.target /\ q.frame = p.frame /\ q.error = p.error
      /\ q.inspect = p.inspect /\ q.bottom = p.bottom /\ q.height = p.height
  BY <1>1 DEF Previews
<1>3. RequestPreview(p) = Give(q, capture, FALSE)
  BY DEF RequestPreview, asked, capture
<1> HIDE DEF q
<1>4. capture \in Captures /\ (capture # NoCapture => Asked(capture))
  BY <1>1, Nulls DEF capture
<1>5. Changed(RequestPreview(p)) = Give(q, capture, TRUE)
  BY <1>3 DEF Give, Changed
<1>6. Awaits(q, h)
  BY <1>1, <1>2 DEF Awaits, Previews, Histories
<1>7. Framed(q, h) /\ Looks(q, p)
  BY <1>2 DEF Framed, Looks
<1> QED
  BY <1>2, <1>3, <1>4, <1>5, <1>6, <1>7

\* What it takes for a handler to give a sound preview.
LEMMA GivesThat ==
    ASSUME NEW p \in Previews, NEW capture \in Captures, NEW changed \in BOOLEAN, NEW h,
           p.height = preview.height, capture # NoCapture => Asked(capture),
           ~changed => Looks(p, preview), Awaits(p, h), Framed(p, h),
           preview.inspect /\ p.inspect /\ p.target = preview.target => p.frame = preview.frame
    PROVE  Gives(Give(p, capture, changed), h)
<1>1. /\ Give(p, capture, changed).preview = p
      /\ Give(p, capture, changed).capture = capture
      /\ Give(p, capture, changed).changed = changed
  BY DEF Give
<1> QED
  BY <1>1 DEF Gives

\* A handler that changes nothing.
LEMMA GivesNothing ==
    ASSUME IInv
    PROVE  Gives(Give(preview, NoCapture, FALSE), history)
BY Nulls DEF Gives, Give, IInv, Types, Looks

\* sync_preview_target, when another pane is selected or none.
LEMMA SyncGives ==
    ASSUME IInv, NEW pane \in Panes \cup {NoPane}, pane # preview.target
    PROVE  Gives(SyncTarget(preview, pane), [history EXCEPT !.selected = preview.sequence])
<1> DEFINE h == [history EXCEPT !.selected = preview.sequence]
           moved == [preview EXCEPT !.target = pane, !.frame = NoFrame, !.error = FALSE,
                                    !.inspect = FALSE, !.bottom = 0, !.inFlight = NoCapture]
<1>1. h \in Histories /\ h.selected = preview.sequence /\ h.frame <= preview.sequence
  BY DEF IInv, Types, Histories, Previews, Awaits
<1>2. /\ moved \in Previews /\ moved.target = pane /\ moved.frame = NoFrame /\ ~moved.inspect
      /\ moved.inFlight = NoCapture /\ moved.sequence = preview.sequence
      /\ moved.height = preview.height
  BY Nulls DEF IInv, Types, Previews
<1>3. SyncTarget(preview, pane) = IF pane = NoPane THEN Give(moved, NoCapture, TRUE)
                                  ELSE Changed(RequestPreview(moved))
  BY DEF SyncTarget
<1> HIDE DEF h, moved
<1>4. Framed(moved, h)
  BY <1>2 DEF Framed
<1>5. CASE pane = NoPane
  <2>1. Awaits(moved, h)
    BY <1>1, <1>2 DEF Awaits, IInv, Types, Previews
  <2>2. SyncTarget(preview, pane) = Give(moved, NoCapture, TRUE)
    BY <1>3, <1>5
  <2>3. Gives(Give(moved, NoCapture, TRUE), h)
    BY <1>2, <1>4, <2>1, Nulls, GivesThat
  <2> QED
    BY <2>2, <2>3 DEF h
<1>6. CASE pane # NoPane
  <2>1. h.selected <= moved.sequence /\ h.frame <= moved.sequence
    BY <1>1, <1>2 DEF IInv, Types, Previews
  <2>2. PICK q \in Previews, capture \in Captures :
            /\ Changed(RequestPreview(moved)) = Give(q, capture, TRUE)
            /\ Looks(q, moved) /\ q.height = moved.height
            /\ capture # NoCapture => Asked(capture)
            /\ Awaits(q, h) /\ Framed(q, h)
    BY <1>1, <1>2, <1>4, <2>1, Requests
  <2>3. SyncTarget(preview, pane) = Give(q, capture, TRUE)
    BY <1>3, <1>6, <2>2
  <2>4. ~q.inspect /\ q.height = preview.height
    BY <1>2, <2>2 DEF Looks
  <2>5. Gives(Give(q, capture, TRUE), h)
    BY <2>2, <2>4, GivesThat
  <2> QED
    BY <2>3, <2>5 DEF h
<1> QED
  BY <1>5, <1>6

\* The preview timer.
LEMMA TickGives ==
    ASSUME IInv
    PROVE  Gives(PreviewTick(preview), history)
<1>1. CASE ~(preview.target # NoPane /\ ~preview.inspect /\ preview.focused
             /\ preview.inFlight = NoCapture)
  BY <1>1, GivesNothing DEF PreviewTick
<1>2. CASE /\ preview.target # NoPane /\ ~preview.inspect /\ preview.focused
           /\ preview.inFlight = NoCapture
  <2>1. PICK q \in Previews, capture \in Captures :
            /\ RequestPreview(preview) = Give(q, capture, FALSE)
            /\ Looks(q, preview) /\ q.height = preview.height
            /\ capture # NoCapture => Asked(capture)
            /\ Awaits(q, history) /\ Framed(q, history)
    BY <1>2, Requests DEF IInv, Types, Awaits
  <2> QED
    BY <1>2, <2>1 DEF PreviewTick, Gives, Give, Looks
<1> QED
  BY <1>1, <1>2

\* The terminal gains or loses the focus.
LEMMA TerminalGives ==
    ASSUME IInv, NEW focused \in BOOLEAN
    PROVE  Gives(TerminalFocus(preview, focused), history)
<1> DEFINE b == [preview EXCEPT !.focused = focused]
           c == [b EXCEPT !.inFlight = NoCapture]
<1>1. /\ b \in Previews /\ Looks(b, preview) /\ b.height = preview.height
      /\ b.sequence = preview.sequence /\ b.inFlight = preview.inFlight
  BY DEF IInv, Types, Previews, Looks
<1>2. /\ c \in Previews /\ Looks(c, preview) /\ c.height = preview.height
      /\ c.sequence = preview.sequence /\ c.inFlight = NoCapture
  BY <1>1, Nulls DEF Previews, Looks
<1>3. TerminalFocus(preview, focused) =
          IF preview.focused = focused THEN Give(preview, NoCapture, FALSE)
          ELSE IF ~focused THEN Give(c, NoCapture, TRUE)
          ELSE IF preview.target # NoPane /\ ~preview.inspect
          THEN Changed(RequestPreview(b))
          ELSE Give(b, NoCapture, TRUE)
  BY DEF TerminalFocus
<1> HIDE DEF b, c
<1>4. Awaits(preview, history) /\ Framed(preview, history)
  BY DEF IInv
<1>5. Framed(b, history) /\ Awaits(b, history)
  BY <1>1, <1>4 DEF Looks, Framed, Awaits
<1>6. Framed(c, history) /\ Awaits(c, history)
  BY <1>2, <1>4 DEF Looks, Framed, Awaits
<1>7. CASE preview.focused = focused
  BY <1>3, <1>7, GivesNothing
<1>8. CASE preview.focused # focused /\ ~focused
  BY <1>2, <1>3, <1>6, <1>8, Nulls DEF Gives, Give, Looks
<1>9. CASE /\ preview.focused # focused /\ focused
           /\ preview.target # NoPane /\ ~preview.inspect
  <2>1. PICK q \in Previews, capture \in Captures :
            /\ Changed(RequestPreview(b)) = Give(q, capture, TRUE)
            /\ Looks(q, b) /\ q.height = b.height
            /\ capture # NoCapture => Asked(capture)
            /\ Awaits(q, history) /\ Framed(q, history)
    BY <1>1, <1>4, <1>5, <1>9, Requests DEF IInv, Types, Awaits, Looks
  <2> QED
    BY <1>1, <1>3, <1>9, <2>1 DEF Gives, Give, Looks
<1>10. CASE /\ preview.focused # focused /\ focused
            /\ ~(preview.target # NoPane /\ ~preview.inspect)
  <2>1. TerminalFocus(preview, focused) = Give(b, NoCapture, TRUE)
    BY <1>3, <1>10
  <2>2. Gives(Give(b, NoCapture, TRUE), history)
    BY <1>1, <1>5, Nulls, GivesThat DEF Looks
  <2> QED
    BY <2>1, <2>2
<1> QED
  BY <1>7, <1>8, <1>9, <1>10

\* Ctrl-u and Ctrl-d.
LEMMA InspectGives ==
    ASSUME IInv, NEW up \in BOOLEAN
    PROVE  Gives(InspectPreview(preview, up), history)
<1> DEFINE half == Most(preview.height \div 2, 1)
           bottom == IF up THEN Least(preview.bottom + half, MaxOffset(preview))
                     ELSE Monus(preview.bottom, half)
           b == [preview EXCEPT !.inspect = TRUE, !.inFlight = NoCapture, !.bottom = bottom]
<1>1. preview \in Previews
  BY DEF IInv, Types
<1>2. preview.bottom \in Nat /\ preview.height \in Nat /\ preview.frame.lines \in Nat
  BY <1>1 DEF Previews, Frames
<1>3. preview.height \div 2 \in Nat
  BY <1>2
<1>4. half \in Nat
  BY <1>3 DEF Most
<1>5. MaxOffset(preview) \in Nat
  BY <1>2 DEF MaxOffset, Monus
<1> HIDE DEF half
<1>6. bottom \in Nat
  BY <1>2, <1>4, <1>5 DEF Least, Monus
<1>7. InspectPreview(preview, up) = Give(b, NoCapture, b # preview)
  BY DEF InspectPreview, half
<1> HIDE DEF bottom
<1>8. /\ b \in Previews /\ b.height = preview.height /\ b.frame = preview.frame
      /\ b.sequence = preview.sequence /\ b.inFlight = NoCapture /\ b.target = preview.target
  BY <1>1, <1>6, Nulls DEF Previews
<1> HIDE DEF b
<1>9. Awaits(b, history) /\ Framed(b, history)
  BY <1>8 DEF IInv, Awaits, Framed
<1>10. b = preview => Looks(b, preview)
  BY DEF Looks
<1>11. Gives(Give(b, NoCapture, b # preview), history)
  BY <1>8, <1>9, <1>10, Nulls, GivesThat
<1> QED
  BY <1>7, <1>11

\* Ctrl-r
LEMMA FollowGives ==
    ASSUME IInv
    PROVE  Gives(FollowPreview(preview), history)
<1> DEFINE b == [preview EXCEPT !.inspect = FALSE, !.bottom = 0]
           moves == preview.inspect \/ preview.bottom # 0
<1>1. preview \in Previews /\ Awaits(preview, history) /\ Framed(preview, history)
  BY DEF IInv, Types
<1>2. /\ b \in Previews /\ b.height = preview.height /\ b.frame = preview.frame
      /\ ~b.inspect /\ b.error = preview.error /\ b.bottom = 0
      /\ b.sequence = preview.sequence /\ b.inFlight = preview.inFlight
      /\ b.target = preview.target
  BY <1>1 DEF Previews
<1>3. ~moves => preview.inspect = b.inspect
  BY <1>1, <1>2 DEF Previews
<1>4. FollowPreview(preview) = IF preview.target # NoPane /\ preview.focused
                               THEN Changed(RequestPreview(b))
                               ELSE Give(b, NoCapture, moves)
  BY DEF FollowPreview
<1> HIDE DEF b
<1>5. Awaits(b, history) /\ Framed(b, history)
  BY <1>1, <1>2 DEF Awaits, Framed
<1>6. CASE ~(preview.target # NoPane /\ preview.focused)
  <2>1. FollowPreview(preview) = Give(b, NoCapture, moves)
    BY <1>4, <1>6
  <2>2. ~moves => Looks(b, preview)
    BY <1>2, <1>3 DEF Looks
  <2>3. Gives(Give(b, NoCapture, moves), history)
    BY <1>2, <1>5, <2>2, Nulls, GivesThat
  <2> QED
    BY <2>1, <2>3
<1>7. CASE preview.target # NoPane /\ preview.focused
  <2>1. PICK q \in Previews, capture \in Captures :
            /\ Changed(RequestPreview(b)) = Give(q, capture, TRUE)
            /\ Looks(q, b) /\ q.height = b.height
            /\ capture # NoCapture => Asked(capture)
            /\ Awaits(q, history) /\ Framed(q, history)
    BY <1>2, <1>5, Requests DEF IInv, Types, Awaits
  <2>2. FollowPreview(preview) = Give(q, capture, TRUE)
    BY <1>4, <1>7, <2>1
  <2>3. Gives(Give(q, capture, TRUE), history)
    BY <1>2, <2>1, GivesThat DEF Looks
  <2> QED
    BY <2>2, <2>3
<1> QED
  BY <1>6, <1>7

\* What is remembered of an answer that was received.
Receipt(answer) ==
    IF PreviewCaptured(preview, answer).preview = preview THEN history
    ELSE [history EXCEPT !.frame = answer.capture.sequence]

\* reduce_preview: an answer that is taken is of the pane that is selected,
\* was asked for since it was, and is newer than the frame.
LEMMA AnswerGives ==
    ASSUME IInv, NEW answer \in Answers, Asked(answer.capture),
           answer.good => answer.frame.pane = answer.capture.pane
    PROVE  /\ Gives(PreviewCaptured(preview, answer), Receipt(answer))
           /\ Receipt(answer) \in Histories /\ Receipt(answer).frame >= history.frame
<1> DEFINE b == [preview EXCEPT !.inFlight = NoCapture, !.error = ~answer.good,
                                !.frame = IF answer.good THEN answer.frame ELSE NoFrame,
                                !.bottom = IF answer.good THEN 0 ELSE @]
           same == b.frame = preview.frame /\ b.error = preview.error
                   /\ b.bottom = preview.bottom
           taken == preview.target = answer.capture.pane /\ preview.inFlight = answer.capture
           changed == <<b.frame, b.error, b.bottom>>
                         # <<preview.frame, preview.error, preview.bottom>>
<1>1. /\ preview \in Previews /\ history \in Histories
      /\ Awaits(preview, history) /\ Framed(preview, history)
  BY DEF IInv, Types
<1>2. answer.capture \in Captures /\ answer.frame \in Frames /\ answer.good \in BOOLEAN
  BY DEF Answers
<1>3. /\ b \in Previews /\ b.height = preview.height /\ b.target = preview.target
      /\ b.inspect = preview.inspect /\ b.inFlight = NoCapture
      /\ b.sequence = preview.sequence
      /\ b.frame = IF answer.good THEN answer.frame ELSE NoFrame
  BY <1>1, <1>2, Nulls DEF Previews
<1>4. PreviewCaptured(preview, answer) = IF taken THEN Give(b, NoCapture, changed)
                                         ELSE Give(preview, NoCapture, FALSE)
  BY DEF PreviewCaptured
<1>5. changed \in BOOLEAN /\ (~changed => same)
  OBVIOUS
<1> HIDE DEF b
<1>6. CASE ~taken
  <2>1. PreviewCaptured(preview, answer) = Give(preview, NoCapture, FALSE)
    BY <1>4, <1>6
  <2>2. Receipt(answer) = history
    BY <2>1 DEF Receipt, Give
  <2>3. Receipt(answer) \in Histories /\ Receipt(answer).frame >= history.frame
    BY <1>1, <2>2 DEF Histories
  <2> QED
    BY <2>1, <2>2, <2>3, GivesNothing
<1>7. CASE taken
  <2>1. PreviewCaptured(preview, answer) = Give(b, NoCapture, changed)
    BY <1>4, <1>7
  <2>2. preview.inFlight # NoCapture
    BY <1>7 DEF Asked, NoCapture
  <2>3. b # preview
    BY <1>3, <2>2
  <2>4. Give(b, NoCapture, changed).preview = b
    BY DEF Give
  <2>5. Receipt(answer) = [history EXCEPT !.frame = answer.capture.sequence]
    BY <2>1, <2>3, <2>4 DEF Receipt
  <2>6. /\ Receipt(answer) \in Histories /\ Receipt(answer).selected = history.selected
        /\ Receipt(answer).frame = answer.capture.sequence
    BY <1>1, <1>2, <2>5 DEF Histories, Captures
  <2>7. /\ answer.capture.pane = preview.target /\ ~preview.inspect
        /\ answer.capture.sequence > history.selected
        /\ answer.capture.sequence > history.frame
        /\ answer.capture.sequence <= preview.sequence
    BY <1>1, <1>7, <2>2 DEF Awaits
  <2>8. Awaits(b, Receipt(answer))
    BY <1>1, <1>3, <2>6, <2>7 DEF Awaits
  <2>9. Framed(b, Receipt(answer))
    BY <1>3, <2>6, <2>7 DEF Framed
  <2>10. ~changed => Looks(b, preview)
    BY <1>3, <1>5 DEF Looks
  <2>11. Gives(Give(b, NoCapture, changed), Receipt(answer))
    BY <1>3, <1>5, <2>7, <2>8, <2>9, <2>10, Nulls, GivesThat
  <2>12. answer.capture.sequence \in Nat /\ history.frame \in Nat
    BY <1>1, <1>2 DEF Histories, Captures
  <2>13. Receipt(answer).frame >= history.frame
    BY <2>6, <2>7, <2>12
  <2> QED
    BY <2>1, <2>6, <2>11, <2>13
<1> QED
  BY <1>6, <1>7

-----------------------------------------------------------------------------
(* Steps                                                                    *)

\* What every step keeps of the frame.
Still ==
    /\ preview.inspect /\ preview'.inspect /\ preview'.target = preview.target
           => preview'.frame = preview.frame
    /\ history'.frame >= history.frame

\* What is drawn of previews that look the same, at one size.
LEMMA DrawsTheSame ==
    ASSUME NEW p, NEW q, NEW h, NEW size, NEW lines, Looks(p, q)
    PROVE  Draw(p, h, size, lines) = Draw(q, h, size, lines)
BY DEF Looks, Draw, PreviewScroll

\* redraw leaves the screen as the preview and the help page are.
LEMMA RedrawFits ==
    ASSUME NEW p \in Previews, NEW h \in Helps, area' \in Areas, alerts' \in Nat, Redraw(p, h)
    PROVE  /\ preview' \in Previews /\ help' \in Helps /\ Fits'
           /\ preview'.target = p.target /\ preview'.frame = p.frame
           /\ preview'.inspect = p.inspect /\ preview'.sequence = p.sequence
           /\ preview'.inFlight = p.inFlight
<1>1. InnerHeight(area', alerts') \in Nat
  BY Heights
<1>2. preview' = Viewport(p, InnerHeight(area', alerts')) /\ help' = HelpViewport(h, area')
  BY DEF Redraw
<1>3. /\ preview' \in Previews /\ preview'.height = InnerHeight(area', alerts')
      /\ preview'.bottom <= MaxOffset(preview')
      /\ preview'.target = p.target /\ preview'.frame = p.frame
      /\ preview'.inspect = p.inspect /\ preview'.sequence = p.sequence
      /\ preview'.inFlight = p.inFlight
  BY <1>1, <1>2, Sized
<1>4. /\ help' \in Helps
      /\ help' # NoHelp => help'.offset <= HelpEnd(area') /\ help'.page = HelpPage(area')
  BY <1>2, Paged
<1>5. screen' = Draw(preview', help', area', alerts')
  BY DEF Redraw
<1> QED
  BY <1>3, <1>4, <1>5 DEF Fits, MaxOffset

\* A step that redraws and does nothing else.
LEMMA RedrawStep ==
    ASSUME IInv, NEW h \in Helps, area' \in Areas, alerts' \in Nat, Redraw(preview, h),
           UNCHANGED <<captures, answers, history>>
    PROVE  IInv' /\ Still
<1>1. /\ preview \in Previews /\ history \in Histories
      /\ Awaits(preview, history) /\ Framed(preview, history)
  BY DEF IInv, Types
<1>2. /\ preview' \in Previews /\ help' \in Helps /\ Fits'
      /\ preview'.target = preview.target /\ preview'.frame = preview.frame
      /\ preview'.inspect = preview.inspect /\ preview'.sequence = preview.sequence
      /\ preview'.inFlight = preview.inFlight
  BY <1>1, RedrawFits
<1>3. Awaits(preview', history') /\ Framed(preview', history')
  BY <1>1, <1>2 DEF Awaits, Framed
<1>4. Types' /\ Answered'
  BY <1>2 DEF IInv, Types, Answered
<1>5. Still
  BY <1>1, <1>2 DEF Still, Histories
<1> QED
  BY <1>2, <1>3, <1>4, <1>5 DEF IInv

\* A step that applies what a handler gives.
LEMMA ApplyStep ==
    ASSUME IInv, NEW result, NEW h \in Histories, Gives(result, h), h.frame >= history.frame,
           Apply(result), history' = h, answers' \in Seq(Answers),
           \A i \in 1..Len(answers') :
               /\ Asked(answers'[i].capture)
               /\ answers'[i].good => answers'[i].frame.pane = answers'[i].capture.pane
    PROVE  IInv' /\ Still
<1>1. /\ result.preview \in Previews /\ result.preview.height = preview.height
      /\ Awaits(result.preview, h) /\ Framed(result.preview, h)
      /\ ~result.changed => Looks(result.preview, preview)
  BY DEF Gives
<1>2. /\ area' \in Areas /\ area' = area /\ alerts' \in Nat /\ alerts' = alerts
      /\ preview \in Previews /\ help \in Helps
  BY DEF Apply, IInv, Types
<1>3. captures' \subseteq Captures /\ \A capture \in captures' : Asked(capture)
  BY DEF Apply, IInv, Types, Answered, Gives
<1>4. /\ preview' \in Previews /\ help' \in Helps /\ Fits'
      /\ preview'.target = result.preview.target /\ preview'.frame = result.preview.frame
      /\ preview'.inspect = result.preview.inspect
      /\ preview'.sequence = result.preview.sequence
      /\ preview'.inFlight = result.preview.inFlight
  <2>1. CASE result.changed
    <3>1. Redraw(result.preview, help)
      BY <2>1 DEF Apply
    <3> QED
      BY <1>1, <1>2, <3>1, RedrawFits
  <2>2. CASE ~result.changed
    <3>1. preview' = result.preview /\ help' = help /\ screen' = screen
      BY <2>2 DEF Apply
    <3>2. Looks(preview', preview) /\ preview'.height = preview.height
      BY <1>1, <2>2, <3>1
    <3>3. Draw(preview', help, area, alerts) = Draw(preview, help, area, alerts)
      BY <3>2, DrawsTheSame
    <3>4. MaxOffset(preview') = MaxOffset(preview) /\ preview'.bottom = preview.bottom
      BY <3>2 DEF Looks, MaxOffset
    <3>5. Fits'
      BY <1>2, <3>1, <3>2, <3>3, <3>4 DEF IInv, Fits
    <3> QED
      BY <1>1, <1>2, <3>1, <3>5
  <2> QED
    BY <2>1, <2>2
<1>5. Awaits(preview', history') /\ Framed(preview', history')
  BY <1>1, <1>4 DEF Awaits, Framed
<1>6. Types' /\ Answered'
  BY <1>2, <1>3, <1>4 DEF Types, Answered
<1>7. Still
  BY <1>4 DEF Still, Gives
<1> QED
  BY <1>4, <1>5, <1>6, <1>7 DEF IInv

\* Every action keeps the invariant, and the frame still.
LEMMA Steps ==
    ASSUME IInv, [Next]_vars
    PROVE  IInv' /\ Still
<1>1. /\ preview \in Previews /\ help \in Helps /\ area \in Areas /\ alerts \in Nat
      /\ history \in Histories /\ answers \in Seq(Answers) /\ captures \subseteq Captures
  BY DEF IInv, Types
<1>2. history.frame \in Nat /\ history.frame >= history.frame
  BY <1>1 DEF Histories
<1>3. \A i \in 1..Len(answers) :
          /\ Asked(answers[i].capture)
          /\ answers[i].good => answers[i].frame.pane = answers[i].capture.pane
  BY DEF IInv, Answered
<1>4. ASSUME NEW result, Gives(result, history), Apply(result), UNCHANGED <<answers, history>>
      PROVE  IInv' /\ Still
  BY <1>1, <1>2, <1>3, <1>4, ApplyStep
<1>5. CASE UNCHANGED vars
  BY <1>1, <1>2, <1>5 DEF vars, IInv, Types, Answered, Awaits, Framed, Fits, Still
<1>6. ASSUME NEW pane \in Panes \cup {NoPane}, SelectPane(pane) PROVE IInv' /\ Still
  <2> DEFINE h == [history EXCEPT !.selected = preview.sequence]
  <2>1. h \in Histories /\ h.frame = history.frame
    BY <1>1 DEF Histories, Previews
  <2>2. Gives(SyncTarget(preview, pane), h)
    BY <1>6, SyncGives DEF SelectPane
  <2>3. Apply(SyncTarget(preview, pane)) /\ history' = h /\ answers' = answers
    BY <1>6 DEF SelectPane
  <2> QED
    BY <1>1, <1>2, <1>3, <2>1, <2>2, <2>3, ApplyStep
<1>7. CASE PreviewTimer
  BY <1>4, <1>7, TickGives DEF PreviewTimer
<1>8. ASSUME NEW focused \in BOOLEAN, FocusTerminal(focused) PROVE IInv' /\ Still
  BY <1>4, <1>8, TerminalGives DEF FocusTerminal
<1>9. ASSUME NEW up \in BOOLEAN, Inspect(up) PROVE IInv' /\ Still
  BY <1>4, <1>9, InspectGives DEF Inspect
<1>10. CASE Follow
  BY <1>4, <1>10, FollowGives DEF Follow
<1>11. CASE OpenHelp
  <2>1. [offset |-> 0, max |-> 0, page |-> 0] \in Helps
    BY DEF Helps
  <2> QED
    BY <1>1, <1>11, <2>1, RedrawStep DEF OpenHelp
<1>12. CASE CloseHelp
  BY <1>1, <1>12, RedrawStep DEF CloseHelp, Helps
<1>13. CASE ScrollHelp
  <2>1. PICK offset \in HelpScrolls(help) : Redraw(preview, [help EXCEPT !.offset = offset])
    BY <1>13 DEF ScrollHelp
  <2>2. help \in [offset : Nat, max : Nat, page : Nat]
    BY <1>1, <1>13 DEF ScrollHelp, Helps
  <2>3. help.page \div 2 \in Nat
    BY <2>2
  <2>4. offset \in Nat
    BY <2>1, <2>2, <2>3 DEF HelpScrolls, Most, Least, Monus
  <2>5. [help EXCEPT !.offset = offset] \in Helps
    BY <2>2, <2>4 DEF Helps
  <2> QED
    BY <1>1, <1>13, <2>1, <2>5, RedrawStep DEF ScrollHelp
<1>14. CASE Resize
  <2>1. area' \in Areas /\ alerts' \in Nat
    BY <1>14, PreviewAssumption DEF Resize
  <2> QED
    BY <1>1, <1>14, <2>1, RedrawStep DEF Resize
<1>15. CASE CaptureEnds
  <2>1. PICK capture \in captures :
            /\ captures' = captures \ {capture}
            /\ \/ \E lines \in LineCounts :
                      answers' = Append(answers, [capture |-> capture, good |-> TRUE,
                                     frame |-> [pane |-> capture.pane, lines |-> lines]])
               \/ answers' = Append(answers, [capture |-> capture, good |-> FALSE,
                                              frame |-> NoFrame])
            /\ UNCHANGED <<preview, help, area, alerts, screen, history>>
    BY <1>15 DEF CaptureEnds
  <2>2. capture \in Captures /\ Asked(capture)
    BY <1>1 DEF IInv, Answered
  <2>3. PICK answer \in Answers :
            /\ answers' = Append(answers, answer) /\ Asked(answer.capture)
            /\ answer.good => answer.frame.pane = answer.capture.pane
    <3>1. ASSUME NEW lines \in LineCounts
          PROVE  [capture |-> capture, good |-> TRUE,
                  frame |-> [pane |-> capture.pane, lines |-> lines]] \in Answers
      BY <2>2, PreviewAssumption DEF Answers, Frames, Captures
    <3>2. [capture |-> capture, good |-> FALSE, frame |-> NoFrame] \in Answers
      BY <2>2, Nulls DEF Answers
    <3> QED
      BY <2>1, <2>2, <3>1, <3>2
  <2>4. /\ answers' \in Seq(Answers)
        /\ \A i \in 1..Len(answers') : answers'[i] = answer \/ (i \in 1..Len(answers)
                                                               /\ answers'[i] = answers[i])
    BY <1>1, <2>3
  <2>5. Types' /\ Answered'
    BY <1>1, <1>3, <2>1, <2>3, <2>4 DEF Types, IInv, Answered
  <2>6. Awaits(preview', history') /\ Framed(preview', history') /\ Fits'
    BY <2>1 DEF IInv, Awaits, Framed, Fits
  <2> QED
    BY <1>2, <2>1, <2>5, <2>6 DEF IInv, Still
<1>16. CASE ReceiveAnswer
  <2> DEFINE answer == Head(answers)
  <2>1. answers # <<>> /\ answers' = Tail(answers)
    BY <1>16 DEF ReceiveAnswer
  <2>2. /\ answer \in Answers /\ Asked(answer.capture)
        /\ answer.good => answer.frame.pane = answer.capture.pane
    BY <1>1, <1>3, <2>1
  <2>3. /\ answers' \in Seq(Answers)
        /\ \A i \in 1..Len(answers') : i + 1 \in 1..Len(answers) /\ answers'[i] = answers[i + 1]
    BY <1>1, <2>1
  <2> HIDE DEF answer
  <2>4. /\ Gives(PreviewCaptured(preview, answer), Receipt(answer))
        /\ Receipt(answer) \in Histories /\ Receipt(answer).frame >= history.frame
    BY <2>2, AnswerGives
  <2>5. Apply(PreviewCaptured(preview, answer)) /\ history' = Receipt(answer)
    BY <1>16 DEF ReceiveAnswer, Receipt, answer
  <2>6. \A i \in 1..Len(answers') :
            /\ Asked(answers'[i].capture)
            /\ answers'[i].good => answers'[i].frame.pane = answers'[i].capture.pane
    BY <1>3, <2>3
  <2> QED
    BY <2>3, <2>4, <2>5, <2>6, ApplyStep
<1> QED
  BY <1>5, <1>6, <1>7, <1>8, <1>9, <1>10, <1>11, <1>12, <1>13, <1>14, <1>15, <1>16 DEF Next

\* The dashboard starts with a capture awaited that nobody makes.
LEMMA Starts == ASSUME Init PROVE IInv
<1> DEFINE blank == [target |-> NoPane, frame |-> NoFrame, error |-> FALSE, inspect |-> FALSE,
                     bottom |-> 0, height |-> InnerHeight(area, alerts), focused |-> TRUE,
                     sequence |-> 0, inFlight |-> NoCapture]
           h == [selected |-> 0, frame |-> 0, lost |-> 0]
<1>1. area \in Areas /\ alerts \in Nat /\ InnerHeight(area, alerts) \in Nat
  BY Heights DEF Init
<1>2. PICK pane \in Panes \cup {NoPane} : preview = Launch(pane)
  BY DEF Init
<1>3. /\ blank \in Previews /\ blank.target = NoPane /\ blank.frame = NoFrame
      /\ blank.bottom = 0 /\ ~blank.inspect /\ blank.sequence = 0
      /\ blank.inFlight = NoCapture /\ blank.height = InnerHeight(area, alerts)
  BY <1>1, Nulls DEF Previews
<1>4. h \in Histories /\ h.selected = 0 /\ h.frame = 0
  BY DEF Histories
<1>5. Launch(pane) = SyncTarget(blank, pane).preview
  BY DEF Launch
<1> DEFINE moved == [blank EXCEPT !.target = pane, !.frame = NoFrame, !.error = FALSE,
                                  !.inspect = FALSE, !.bottom = 0, !.inFlight = NoCapture]
<1>6. SyncTarget(blank, pane) = IF pane = blank.target THEN Give(blank, NoCapture, FALSE)
                                ELSE IF pane = NoPane THEN Give(moved, NoCapture, TRUE)
                                ELSE Changed(RequestPreview(moved))
  BY DEF SyncTarget
<1> HIDE DEF blank, h
<1>7. /\ moved \in Previews /\ moved.frame = NoFrame /\ moved.bottom = 0 /\ ~moved.inspect
      /\ moved.sequence = 0 /\ moved.inFlight = NoCapture
      /\ moved.height = InnerHeight(area, alerts)
  BY <1>3, Nulls DEF Previews
<1> HIDE DEF moved
<1>8. /\ preview \in Previews /\ preview.frame = NoFrame /\ preview.bottom = 0
      /\ preview.height = InnerHeight(area, alerts) /\ Awaits(preview, h)
  <2>1. CASE pane = NoPane
    <3>1. preview = blank
      BY <1>2, <1>3, <1>5, <1>6, <2>1 DEF Give
    <3> QED
      BY <1>3, <1>4, <3>1 DEF Awaits
  <2>2. CASE pane # NoPane
    <3>1. Framed(moved, h) /\ h.selected <= moved.sequence /\ h.frame <= moved.sequence
      BY <1>4, <1>7 DEF Framed
    <3>2. PICK q \in Previews, capture \in Captures :
              /\ Changed(RequestPreview(moved)) = Give(q, capture, TRUE)
              /\ Looks(q, moved) /\ q.height = moved.height /\ Awaits(q, h)
      BY <1>4, <1>7, <3>1, Requests
    <3>3. preview = q
      BY <1>2, <1>3, <1>5, <1>6, <2>2, <3>2 DEF Give
    <3> QED
      BY <1>7, <3>2, <3>3 DEF Looks
  <2> QED
    BY <2>1, <2>2
<1>9. /\ history \in Histories /\ history.selected = 0 /\ history.frame = 0
      /\ captures = {} /\ answers = <<>> /\ help = NoHelp
      /\ screen = Draw(preview, help, area, alerts)
  BY <1>8 DEF Init, Histories, Previews
<1>10. Awaits(preview, history) /\ Framed(preview, history)
  BY <1>4, <1>8, <1>9 DEF Awaits, Framed
<1>11. MaxOffset(preview) \in Nat
  BY <1>8 DEF MaxOffset, Monus, Previews, Frames
<1>12. Types /\ Answered /\ Fits
  BY <1>1, <1>8, <1>9, <1>11 DEF Types, Answered, Fits, Helps
<1> QED
  BY <1>10, <1>12 DEF IInv

-----------------------------------------------------------------------------
(* Theorems                                                                 *)

\* The invariant holds always.
LEMMA Invariance == Spec => []IInv
<1>1. Init => IInv
  BY Starts
<1>2. IInv /\ [Next]_vars => IInv'
  BY Steps
<1> QED
  BY <1>1, <1>2, PTL DEF Spec

\* The variables of DashboardPreview stay in their sets, among them every
\* height and offset that is computed from the size of a terminal.
THEOREM TypeCorrect == Spec => []Types
<1>1. IInv => Types
  BY DEF IInv
<1> QED
  BY <1>1, Invariance, PTL

\* No answer of another pane, and none that was asked for before the pane was
\* selected, becomes the frame, in whatever order captures end.
THEOREM PreviewIsOfSelection == Spec => []FrameIsOfSelection
<1>1. IInv => FrameIsOfSelection
  BY DEF IInv, Framed, FrameIsOfSelection
<1> QED
  BY <1>1, Invariance, PTL

\* The screen shows the preview and the help page as they are, within their
\* ends, whatever resizes, alerts, keys and answers come in between.
THEOREM PreviewIsDrawn == Spec => []ScreenFollows
<1>1. IInv => ScreenFollows
  BY DEF IInv, Fits, MaxOffset, ScreenFollows
<1> QED
  BY <1>1, Invariance, PTL

\* The frame does not move under a user who inspects it, and never gives way
\* to an older one.
THEOREM InspectionIsStill == Spec => HoldsStill
<1>1. IInv /\ [Next]_vars
      => [/\ preview.inspect /\ preview'.inspect /\ preview'.target = preview.target
                 => preview'.frame = preview.frame
          /\ history'.frame >= history.frame]_vars
  BY Steps DEF Still
<1> QED
  BY <1>1, Invariance, PTL DEF Spec, HoldsStill
=============================================================================
