------------------------------ MODULE DashboardApp ------------------------------
(***************************************************************************)
(* The reducer of the dashboard (pane-dash/src/app.rs), what its view      *)
(* draws (ui.rs) and apply_event and redraw of the loop that joins them    *)
(* (main.rs): keys, snapshots, headless sessions, ticks and the progress   *)
(* of a creation become rows, a highlighted row, dialogs and commands.     *)
(*                                                                         *)
(* A handler is an operator on AppState that gives the new state, whether  *)
(* to redraw, and the command for tmux. The rows are cached until          *)
(* something invalidates them, and so is the time when an age on the       *)
(* screen will change: what is drawn comes from these caches.              *)
(*                                                                         *)
(* The preview and the scrolling of help are in DashboardPreview, the      *)
(* order in which snapshots may arrive in DashboardRuntime, the worker of  *)
(* a creation in PaneCreation (here its progress is three steps). Drafts   *)
(* and messages are left out, but for whether there is one. The screen is  *)
(* wide: the list is as high as the alerts and the status bar let it be.   *)
(*                                                                         *)
(* Bounds: MaxKeys keys; MaxUpdates snapshots, failures of them and        *)
(* messages of the headless source; MaxEvents of both; MaxTime; one        *)
(* failure of polling at a time; one character of a text to send.          *)
(***************************************************************************)
EXTENDS PaneModel

CONSTANTS
    Snapshots,      \* what tmux may answer: sequences of lines
    HeadlessLists,  \* what the headless source may send
    LaunchSession, LaunchPane,  \* where the dashboard was opened
    NewPane,        \* the pane that a creation makes
    Minute, Hour, Day, VerificationTimeout,     \* in seconds
    ScreenHeight,
    Keys, QueryKeys, MaxQuery,  \* the keys pressed, and those typed in a filter
    StartTime, MaxKeys, MaxUpdates, MaxEvents, MaxTime

Statuses == {"needs_input", "working", "idle", "error", "unknown", "stale"}

\* A time, or none; the time until the next age is shown comes before Never.
Times == 0..(Never - Day - 1) \cup {Never}

\* What tmux and the headless source tell.
Ids == Nat \ {None}
RawRecord ==
    [session : Ids, name : Nat, window : Ids, windex : Nat, pane : Ids, pindex : Nat,
     active : BOOLEAN, dead : BOOLEAN, group : BOOLEAN, tag : BOOLEAN, matches : BOOLEAN,
     status : STRING, since : Times, heartbeat : Times, opencode : Nat, text : Nat]
Line == [form : {"whole", "partial", "lost"}, record : RawRecord]
HeadlessRecord == [id : Ids, status : Statuses, since : Times, text : Nat]

ASSUME AppAssumption ==
    /\ NewPane # None /\ LaunchPane # None
    /\ {Minute, Hour, Day, VerificationTimeout, ScreenHeight} \subseteq Nat \ {0}
    /\ Hour % Minute = 0 /\ Day % Hour = 0
    /\ {MaxQuery, MaxKeys, MaxUpdates, MaxEvents} \subseteq Nat
    /\ Never \in Nat /\ {StartTime, MaxTime} \subseteq Times \ {Never}
    /\ QueryKeys \subseteq Keys

ASSUME SnapshotAssumption ==
    Snapshots \subseteq Seq(Line) /\ HeadlessLists \subseteq Seq(HeadlessRecord)

VARIABLES
    app,        \* AppState
    screen,     \* what was drawn last
    effect,     \* the command that the last event gave
    now,        \* the clock
    left        \* what is left of MaxKeys and MaxUpdates

vars == <<app, screen, effect, now, left>>

\* Contexts, dialogs, commands.
Context(kind, target, session, cwd, linked) ==
    [kind |-> kind, target |-> target, session |-> session, cwd |-> cwd, linked |-> linked]
NewSessionIn(cwd) == Context("session", None, None, cwd, 0)
NewWindowIn(session, cwd) == Context("window", session, session, cwd, 0)

NoModal == [kind |-> "none"]
Help == [kind |-> "help"]
Send(pane, text) == [kind |-> "send", pane |-> pane, text |-> text]
Kill(pane) == [kind |-> "kill", pane |-> pane]
Choice(choices, selected) == [kind |-> "choice", choices |-> choices, selected |-> selected]
Fields(context) ==
    IF context.kind = "split" THEN <<"cwd", "command">> ELSE <<"name", "cwd", "command">>
Form(context, field, submitting, failed) ==
    [kind |-> "form", context |-> context, field |-> field, submitting |-> submitting,
     failed |-> failed]
CreateForm(context) == Form(context, Head(Fields(context)), FALSE, FALSE)

NoPending == [state |-> "none", pane |-> None, session |-> None, resolution |-> "none"]

Effect(kind, target) == [kind |-> kind, target |-> target]
NoEffect == Effect("none", NoFocus)

Give(a, changed, eff) == [app |-> a, changed |-> changed, effect |-> eff]
Quiet(a) == Give(a, FALSE, NoEffect)
Redrawn(a) == Give(a, TRUE, NoEffect)

-----------------------------------------------------------------------------
(* Rows, caches and focus                                                   *)

NoCache == [valid |-> FALSE, rows |-> <<>>, counts |-> <<>>]

InvalidateRenderCache(a) ==
    [a EXCEPT !.cache = NoCache, !.ageDue = Never, !.aged = FALSE]

SessionIsCollapsed(a, session) ==
    a.grouped /\ a.query = <<>> /\ session \in a.collapsed

StatusCounts(model) ==
    [s \in Statuses |->
        Cardinality({p \in DOMAIN model.panes : model.panes[p].status = s})
        + Cardinality({i \in DOMAIN model.headless : model.headless[i].status = s})]

\* The rows but for the panes of folded sessions.
Unfolded(rows, folded) ==
    Only(rows, {i \in DOMAIN rows :
                    rows[i].focus.kind = "pane" => rows[i].focus.session \notin folded})

ShownRows(a) ==
    Unfolded(RankedRows(a.model, a.grouped, a.query),
             {session \in a.collapsed : SessionIsCollapsed(a, session)})

\* render_cache
Cached(a) ==
    IF a.cache.valid THEN a
    ELSE [a EXCEPT !.cache = [valid |-> TRUE, rows |-> ShownRows(a),
                              counts |-> StatusCounts(a.model)]]

\* visible_rows, of a state whose rows are cached.
Visible(a) == [i \in DOMAIN a.cache.rows |-> a.cache.rows[i].focus]

Position(focuses, focus) == SelectInSeq(focuses, LAMBDA f : f = focus)

SelectedPane(a) == IF a.focus.kind = "pane" THEN a.focus.pane ELSE None

\* The focus, and the selection that sync_selection makes of it.
FocusOn(a, focus) ==
    [a EXCEPT !.focus = focus,
              !.selection = IF focus.kind = "pane" THEN focus ELSE NoFocus]

FirstOr(focuses, focus) == IF focuses = <<>> THEN focus ELSE Head(focuses)

\* reconcile_focus and preserve_focus, of a state whose rows are cached: where
\* the focus goes when the rows change under it.
ReconcileFocus(c) ==
    FocusOn(c, IF Position(Visible(c), c.focus) > 0 THEN c.focus
               ELSE FirstOr(Visible(c), NoFocus))

KeepFocus(c, old, oldVisible) ==
    LET visible == Visible(c)
        at == Position(oldVisible, old)
    IN  FocusOn(c, IF Position(visible, old) > 0 THEN old
                   ELSE IF visible = <<>> THEN NoFocus
                   ELSE IF at = 0 THEN Head(visible)
                   ELSE IF at <= Len(visible) THEN visible[at]
                   ELSE Last(visible))

UpdateFilter(a, query) ==
    ReconcileFocus(Cached(InvalidateRenderCache([a EXCEPT !.query = query])))

-----------------------------------------------------------------------------
(* Keys                                                                     *)

\* Keys that are no characters, or bear Control.
Plain(key) == key \notin {"Enter", "Esc", "Backspace", "Tab", "BackTab", "C-s", "C-z"}

SelectAPane(a) ==
    Give([a EXCEPT !.banner = "select a pane"], a.banner # "select a pane", NoEffect)

OpenSendModal(a) ==
    IF SelectedPane(a) = None THEN SelectAPane(a)
    ELSE Redrawn([a EXCEPT !.modal = Send(SelectedPane(a), 0)])

OpenKillModal(a) ==
    IF SelectedPane(a) = None THEN SelectAPane(a)
    ELSE Redrawn([a EXCEPT !.modal = Kill(SelectedPane(a))])

\* The pane whose directory a session offers: its first active one, or its
\* first.
SessionDefaultCwd(a, session) ==
    LET all == a.model.memberships
        place(i) == <<all[i].windex, all[i].pindex, all[i].window, all[i].pane, i>>
        members == Arranged(all, {place(i) : i \in {j \in DOMAIN all : all[j].session = session}})
        active == SelectInSeq(members, LAMBDA m : m.active)
    IN  IF members = <<>> THEN None
        ELSE IF active > 0 THEN members[active].pane ELSE members[1].pane

LinkedSessions(a, pane) ==
    {m.session : m \in {l \in ToSet(a.model.memberships) : l.pane = pane}}

\* The four directions of a split are one choice here.
PaneCreateChoices(a, session, pane) ==
    <<Context("split", pane, session, pane, Cardinality(LinkedSessions(a, pane))),
      NewWindowIn(session, pane), NewSessionIn(pane)>>

CreateChoices(a) ==
    CASE a.focus.kind = "pane" -> PaneCreateChoices(a, a.focus.session, a.focus.pane)
      [] a.focus.kind = "header" ->
             LET cwd == SessionDefaultCwd(a, a.focus.session)
             IN  <<NewWindowIn(a.focus.session, cwd), NewSessionIn(cwd)>>
      [] OTHER -> <<NewSessionIn(None)>>

OpenCreateModal(a) ==
    IF a.pending # NoPending THEN Quiet(a)
    ELSE Redrawn([a EXCEPT !.modal =
             IF DOMAIN a.model.panes = {} THEN CreateForm(NewSessionIn(None))
             ELSE Choice(CreateChoices(a), 1)])

SendKey(a, key) ==
    LET pane == a.modal.pane
        text == a.modal.text
        closed == [a EXCEPT !.modal = NoModal]
    IN  CASE key = "Esc" -> Redrawn(closed)
          [] key = "Enter" ->
                 Give(closed, TRUE, IF text = 0 THEN NoEffect ELSE Effect("send", pane))
          [] key = "Backspace" /\ text > 0 -> Redrawn([a EXCEPT !.modal = Send(pane, text - 1)])
          [] Plain(key) -> Redrawn([a EXCEPT !.modal = Send(pane, text + 1)])
          [] OTHER -> Quiet(a)

\* Mutant: the pane that has the selection by now is killed.
KillTheSelected(a, key) ==
    Give([a EXCEPT !.modal = NoModal], TRUE,
         IF key = "y" THEN Effect("kill", SelectedPane(a)) ELSE NoEffect)

KillKey(a, key) ==
    Give([a EXCEPT !.modal = NoModal], TRUE,
         IF key = "y" THEN Effect("kill", a.modal.pane) ELSE NoEffect)

ChoiceKey(a, key) ==
    LET choices == a.modal.choices
        at == a.modal.selected
        select(i) == Redrawn([a EXCEPT !.modal = Choice(choices, i)])
    IN  CASE key = "Esc" -> Redrawn([a EXCEPT !.modal = NoModal])
          [] key = "j" -> select(IF at < Len(choices) THEN at + 1 ELSE at)
          [] key = "k" -> select(IF at > 1 THEN at - 1 ELSE at)
          [] key = "Enter" -> Redrawn([a EXCEPT !.modal = CreateForm(choices[at])])
          [] OTHER -> Quiet(a)

NextCreateField(modal, forward) ==
    LET fields == Fields(modal.context)
        at == SelectInSeq(fields, LAMBDA f : f = modal.field)
    IN  fields[IF forward THEN (at % Len(fields)) + 1
               ELSE IF at > 1 THEN at - 1 ELSE Len(fields)]

\* Enter submits a draft that build_request finds valid.
FormKey(a, key, valid) ==
    LET context == a.modal.context
        field == a.modal.field
    IN  CASE key = "Esc" ->
                 Redrawn([a EXCEPT !.modal = NoModal,
                             !.pending = IF @.state = "error" THEN NoPending ELSE @])
          [] key = "Enter" /\ ~valid -> Redrawn([a EXCEPT !.modal = Form(context, field, FALSE, TRUE)])
          [] key = "Enter" /\ valid ->
                 Give([a EXCEPT !.modal = Form(context, field, TRUE, FALSE), !.attach = FALSE,
                          !.pending = [NoPending EXCEPT !.state = "creating",
                                                        !.session = context.session]],
                      TRUE, Effect("create", context))
          [] key \in {"Tab", "BackTab"} ->
                 Redrawn([a EXCEPT !.modal.field = NextCreateField(a.modal, key = "Tab")])
          [] key = "Backspace" \/ Plain(key) -> Redrawn(a)
          [] OTHER -> Quiet(a)

SubmittingKey(a, key) ==
    IF key \in {"q", "Esc"}
    THEN Give([a EXCEPT !.modal = NoModal, !.quit = TRUE], TRUE, Effect("quit", NoFocus))
    ELSE Quiet(a)

ModalKey(a, key, valid) ==
    CASE a.modal.kind = "help" ->
             IF key \in {"?", "Esc", "q"} THEN Redrawn([a EXCEPT !.modal = NoModal]) ELSE Quiet(a)
      [] a.modal.kind # "help" /\ key = "?" -> Quiet(a)
      [] a.modal.kind = "send" /\ key # "?" -> SendKey(a, key)
      [] a.modal.kind = "kill" /\ key # "?" -> KillKey(a, key)
      [] a.modal.kind = "choice" /\ key # "?" -> ChoiceKey(a, key)
      [] a.modal.kind = "form" /\ key # "?" ->
             IF a.modal.submitting THEN SubmittingKey(a, key) ELSE FormKey(a, key, valid)

FilterKey(a, key) ==
    CASE key = "Esc" -> Redrawn([a EXCEPT !.typing = FALSE])
      [] key = "Backspace" /\ a.query # <<>> -> Redrawn(UpdateFilter(a, Front(a.query)))
      [] Plain(key) -> Redrawn(UpdateFilter(a, Append(a.query, key)))
      [] OTHER -> Quiet(a)

\* The row at an index is given the focus, if there is one. c's rows are cached.
GoTo(c, index) ==
    IF index \in DOMAIN c.cache.rows /\ Visible(c)[index] # c.focus
    THEN Redrawn(FocusOn(c, Visible(c)[index])) ELSE Quiet(c)

MoveFocus(c, down) ==
    LET rows == Len(c.cache.rows)
        at == Position(Visible(c), c.focus)
    IN  GoTo(c, IF at = 0 THEN (IF down THEN 1 ELSE rows)
                ELSE IF down THEN (IF at < rows THEN at + 1 ELSE at)
                ELSE IF at > 1 THEN at - 1 ELSE at)

SessionAtFocus(a) == IF a.focus.kind \in {"header", "pane"} THEN a.focus.session ELSE None

SetCollapsed(a, collapse) ==
    LET session == SessionAtFocus(a)
        b == [a EXCEPT !.collapsed = IF collapse THEN @ \cup {session} ELSE @ \ {session}]
    IN  IF ~a.grouped \/ session = None \/ b = a THEN Quiet(a)
        ELSE Redrawn(InvalidateRenderCache(IF collapse THEN FocusOn(b, Header(session)) ELSE b))

ToggleCollapsed(a) == SetCollapsed(a, SessionAtFocus(a) \notin a.collapsed)

\* Enter on a headless session creates a pane that attaches to it.
EmitJump(a, zoom) ==
    LET known == \E h \in ToSet(a.model.headless) : h.id = a.focus.session
    IN  CASE a.focus.kind \in {"pane", "header"} -> Give(a, TRUE, Effect("jump", a.focus))
          [] a.focus.kind = "headless" /\ ~zoom /\ a.pending = NoPending /\ known ->
                 Give([a EXCEPT !.pending = [NoPending EXCEPT !.state = "creating"],
                                !.attach = TRUE],
                      TRUE, Effect("attach", a.focus))
          [] OTHER -> Quiet(a)

ToggleMode(a) ==
    LET b == InvalidateRenderCache([a EXCEPT !.grouped = ~@, !.zKey = FALSE])
    IN  Give(ReconcileFocus(Cached(b)), TRUE, Effect("group", NoFocus))

NavigationKey(a, key) ==
    CASE key = "Enter" -> EmitJump(a, FALSE)
      [] key = "C-z" -> EmitJump(a, TRUE)
      [] key = "/" -> Redrawn([a EXCEPT !.typing = TRUE])
      [] key = "j" -> MoveFocus(Cached(a), TRUE)
      [] key = "k" -> MoveFocus(Cached(a), FALSE)
      [] key = "g" -> GoTo(Cached(a), 1)
      [] key = "G" -> GoTo(Cached(a), Len(Cached(a).cache.rows))
      [] key = "h" -> SetCollapsed(a, TRUE)
      [] key = "l" -> SetCollapsed(a, FALSE)
      [] key = "z" -> Quiet([a EXCEPT !.zKey = TRUE])
      [] key = "s" -> ToggleMode(a)
      [] key = "x" -> OpenKillModal(a)
      [] key = "n" -> OpenCreateModal(a)
      [] key \in {"q", "Esc"} -> Give([a EXCEPT !.quit = TRUE], TRUE, Effect("quit", NoFocus))
      [] OTHER -> Quiet(a)

ReduceKey(a, key, valid) ==
    IF a.modal # NoModal THEN ModalKey(a, key, valid)
    ELSE IF key = "C-s" THEN OpenSendModal(a)
    ELSE IF a.typing THEN FilterKey(a, key)
    ELSE IF key = "?" THEN Redrawn([a EXCEPT !.modal = Help])
    ELSE IF a.zKey
    THEN LET b == [a EXCEPT !.zKey = FALSE]
         IN  IF key = "a" THEN ToggleCollapsed(b) ELSE Quiet(b)
    ELSE NavigationKey(a, key)

-----------------------------------------------------------------------------
(* Time, snapshots and creations                                            *)

Awaiting(a) == a.pending.state = "awaiting"

ObserveCreationTime(a, time) ==
    [a EXCEPT !.clock = IF @ = Never \/ time > @ THEN time ELSE @,
              !.deadline = IF Awaiting(a) /\ @ = Never THEN time + VerificationTimeout ELSE @]

ForgetCreation(a) ==
    [a EXCEPT !.pending = NoPending, !.attach = FALSE, !.deadline = Never]

Expires(a, time) == a.deadline # Never /\ time >= a.deadline /\ Awaiting(a)

ExpireCreationVerification(a, time) ==
    IF Expires(a, time)
    THEN InvalidateRenderCache([ForgetCreation(a) EXCEPT !.banner = "unverified"]) ELSE a

\* Mutant: the boundary after the next one.
AgeBoundaryTooFar(since, time) ==
    LET age == Elapsed(since, time)
        unit == IF age < Hour THEN Minute ELSE IF age < Day THEN Hour ELSE Day
    IN  since + (age \div unit + 1) * unit

NextAgeBoundary(since, time) ==
    LET age == Elapsed(since, time)
        unit == IF age < Minute THEN 1 ELSE IF age < Hour THEN Minute
                ELSE IF age < Day THEN Hour ELSE Day
    IN  since + (age \div unit + 1) * unit

FormatAge(since, time) ==
    LET age == Elapsed(since, time)
    IN  CASE since = Never -> <<"-", 0>>
          [] since # Never /\ age >= Day -> <<"d", age \div Day>>
          [] since # Never /\ age >= Hour /\ age < Day -> <<"h", age \div Hour>>
          [] since # Never /\ age >= Minute /\ age < Hour -> <<"m", age \div Minute>>
          [] since # Never /\ age < Minute -> <<"s", age>>

ReduceTick(a, time) ==
    LET observed == ObserveCreationTime(a, time)
        due == observed.ageDue # Never /\ time >= observed.ageDue
        b == IF due THEN [observed EXCEPT !.aged = FALSE] ELSE observed
    IN  Give(ExpireCreationVerification(b, time), due \/ Expires(b, time), NoEffect)

AbsenceIsTrustworthy(o, pane) == pane \notin o.ambiguous /\ o.unattributable = 0

RecordsOf(o, pane) == {r \in ToSet(o.records) : r.pane = pane}
Live(records) == \E r \in records : ~r.dead
Discovered(records, time) == \E r \in records : IsDiscovered(r, time)

KeepsEphemeral(o, pane, time) ==
    LET records == RecordsOf(o, pane)
    IN  IF Live(records) THEN ~Discovered(records, time)
        ELSE pane \notin o.raw /\ ~AbsenceIsTrustworthy(o, pane)

\* reconcile_snapshot_presence: what a snapshot tells of the created pane.
\* "shown" selects it, "gone" gives it up, "none" waits on.
Presence(a, o) ==
    LET records == RecordsOf(o, a.pending.pane)
    IN  IF ~Awaiting(a) THEN "none"
        ELSE IF Live(records) THEN "shown"
        ELSE IF \/ records # {}
                \/ a.pending.pane \notin o.raw /\ AbsenceIsTrustworthy(o, a.pending.pane)
        THEN "gone" ELSE "none"

ReconcileSnapshotPresence(a, o, time) ==
    LET kept == {p \in a.ephemeral : KeepsEphemeral(o, p, time)}
        pane == a.pending.pane
        uncertain == /\ a.pending.resolution = "untagged"
                     /\ ~Discovered(RecordsOf(o, pane), time)
        b == [a EXCEPT !.ephemeral = kept]
    IN  CASE Presence(a, o) = "shown" ->
                 [ForgetCreation(b) EXCEPT
                     !.ephemeral = IF uncertain THEN kept \cup {pane} ELSE kept,
                     !.banner = IF a.pending.resolution = "success" THEN "none" ELSE "created"]
          [] Presence(a, o) = "gone" ->
                 [ForgetCreation(b) EXCEPT !.ephemeral = kept \ {pane}, !.banner = "exited"]
          [] OTHER -> b

\* The row of the created pane, in the session it was created from if it is
\* there.
SelectionFocus(model, session, pane) ==
    LET rows == GroupedRows(model)
        its == {i \in DOMAIN rows : rows[i].focus.kind = "pane" /\ rows[i].focus.pane = pane}
        there == {i \in its : rows[i].focus.session = session}
    IN  IF there # {} THEN rows[Min(there)].focus
        ELSE IF its # {} THEN rows[Min(its)].focus ELSE NoFocus

\* Selection of the created pane clears the filter and expands the session.
SelectCreated(a, pending) ==
    FocusOn([a EXCEPT !.query = <<>>, !.typing = FALSE,
                      !.collapsed = @ \ {pending.session}],
            SelectionFocus(a.model, pending.session, pending.pane))

Nothing(a, b, o, model) ==
    /\ ContentHash(model) = ContentHash(a.model)
    /\ model.grouped = a.grouped
    /\ b.failures = 0 /\ b.banner = "none"
    /\ a.dropped = o.dropped
    /\ b.pending = a.pending

\* a is the state before, b what the snapshot tells of the created pane.
TakeModel(a, b, o, model) ==
    LET resolved == Awaiting(a) /\ b.pending = NoPending
        c == InvalidateRenderCache(
                 [b EXCEPT !.model = model, !.grouped = model.grouped, !.failures = 0,
                           !.dropped = o.dropped, !.collapsed = @ \cap DOMAIN model.sessions,
                           !.banner = IF resolved THEN @ ELSE "none"])
    IN  IF Nothing(a, b, o, model) THEN Quiet(b)
        ELSE IF Presence(a, o) # "shown"
        THEN Redrawn(KeepFocus(Cached(c), a.focus, Visible(a)))
        ELSE Give(SelectCreated(c, a.pending), TRUE,
                  IF a.attach THEN Effect("jump", PaneFocus([session |-> None, window |-> None,
                                                             pane |-> a.pending.pane]))
                  ELSE NoEffect)

\* reduce_snapshot, of a state whose rows are cached.
ReduceSnapshot(c, o, time) ==
    LET a == ObserveCreationTime(c, time)
        b == ExpireCreationVerification(ReconcileSnapshotPresence(a, o, time), time)
    IN  TakeModel(a, b, o, Build(o.records, b.model.headless, time, b.ephemeral))

\* Mutant: rows change and the focus does not.
HeadlessKeepingFocus(a, records, warning) ==
    LET model == ReplaceHeadless(a.model, records)
    IN  IF ContentHash(model) = ContentHash(a.model) /\ a.kimaki = warning THEN Quiet(a)
        ELSE Redrawn(InvalidateRenderCache([a EXCEPT !.model = model, !.kimaki = warning]))

\* The rows of the state are cached.
ReduceHeadlessSnapshot(a, records, warning) ==
    LET model == ReplaceHeadless(a.model, records)
        b == InvalidateRenderCache([a EXCEPT !.model = model, !.kimaki = warning])
    IN  IF ContentHash(model) = ContentHash(a.model) /\ a.kimaki = warning THEN Quiet(a)
        ELSE Redrawn(KeepFocus(Cached(b), a.focus, Visible(a)))

ReduceSnapshotFailure(a) ==
    Redrawn([a EXCEPT !.failures = @ + 1, !.banner = "snapshot failed"])

\* CreateFailed, or the end of a worker that reported no pane.
CreateFailed(a) ==
    LET b == IF a.modal.kind = "form"
             THEN [a EXCEPT !.pending.state = "error",
                            !.modal = Form(a.modal.context, a.modal.field, FALSE, TRUE)]
             ELSE [a EXCEPT !.pending = NoPending, !.attach = FALSE, !.banner = "create failed"]
    IN  Redrawn(InvalidateRenderCache(b))

Created(a) ==
    Redrawn(InvalidateRenderCache(
        [a EXCEPT !.pending.state = "created", !.pending.pane = NewPane, !.modal = NoModal]))

FinishCreation(a, resolution) ==
    Give(InvalidateRenderCache(
             [a EXCEPT !.pending.state = "awaiting", !.pending.resolution = resolution,
                       !.attach = @ /\ resolution = "success",
                       !.deadline = IF a.clock = Never THEN Never
                                    ELSE a.clock + VerificationTimeout]),
         TRUE, Effect("refresh", NoFocus))

ReduceActionFinished(a, kind, outcome) ==
    LET message == IF outcome = "success" THEN "none" ELSE "action failed"
    IN  IF kind = "kill" /\ outcome # "failed" THEN Quiet(a)
        ELSE Give([a EXCEPT !.banner = message], a.banner # message, NoEffect)

-----------------------------------------------------------------------------
(* The view                                                                 *)

AlertLines(a) ==
    LET alert(given, text) == IF given THEN <<text>> ELSE <<>>
    IN  alert(a.banner # "none", a.banner) \o alert(a.kimaki, "kimaki source unavailable")
        \o alert(a.failures > 0, "polling failures") \o alert(a.dropped > 0, "dropped")

Monus(x, y) == IF x > y THEN x - y ELSE 0
Lesser(x, y) == IF x < y THEN x ELSE y

\* The lines for rows: what alerts, the status bar and the line of a pending
\* creation leave.
ListHeight(a) ==
    Monus(Monus(ScreenHeight - 1, Lesser(Len(AlertLines(a)), ScreenHeight - 1)),
          IF a.pending = NoPending THEN 0 ELSE 1)

ScrollOffset(selected, rows, height) ==
    IF height = 0 \/ rows <= height THEN 0
    ELSE Lesser(Monus(Monus(selected, 1), height - 1), rows - height)

\* row_line: the row, the mark of a folded session, and the name of a pane's
\* session where no header bears it.
RowLine(a, row) ==
    [row |-> row,
     folded |-> row.focus.kind = "header" /\ SessionIsCollapsed(a, row.focus.session),
     session |-> IF row.focus.kind = "pane" /\ ~a.grouped
                 THEN a.model.sessions[row.focus.session] ELSE None]

PendingLine(pending) ==
    CASE pending.state = "created" -> <<"tagging">>
      [] pending.state = "awaiting" -> <<"waiting for snapshot">>
      [] pending.state \in {"creating", "error"} -> <<pending.state>>
      [] pending.state = "none" -> <<>>

StatusBar(c) ==
    [counts |-> c.cache.counts, of |-> IF c.model.headless = <<>> THEN "panes" ELSE "items",
     grouped |-> c.grouped, input |-> IF c.typing THEN "FILTER" ELSE "NAV", query |-> c.query]

\* centered_modal_rect, without the borders.
ModalHeight(desired) == Monus(Lesser(ScreenHeight, desired), 2)

\* A line below the choices tells the keys, where there are two.
RenderCreateChoice(modal) ==
    LET count == Len(modal.choices)
        height == ModalHeight(count + 4)
        slots == IF height > 1 THEN height - 1 ELSE 1
        from == ScrollOffset(modal.selected, count, slots)
    IN  [kind |-> "choice", at |-> modal.selected - from,
         choices |-> SubSeq(modal.choices, from + 1, Lesser(from + slots, count))]

\* The lines of a form, and which is active. Where there is no room for all,
\* the active field comes first, then the error; but of a form that was
\* submitted the last lines are shown.
RenderCreateForm(modal) ==
    LET height == ModalHeight(10)
        fields == Fields(modal.context)
        error == IF modal.failed THEN <<"error">> ELSE <<>>
        notice == IF modal.context.linked > 1 THEN <<"linked window">> ELSE <<>>
        footer == <<IF modal.submitting THEN "submitting" ELSE "keys">>
        all == fields \o notice \o error \o footer
        rest == Only(fields, {i \in DOMAIN fields : fields[i] # modal.field})
        first == <<modal.field>> \o error \o notice \o footer \o rest
        lines == IF Len(all) <= height THEN all
                 ELSE IF modal.submitting THEN SubSeq(all, Len(all) - height + 1, Len(all))
                 ELSE SubSeq(first, 1, height)
    IN  [kind |-> "form", context |-> modal.context, lines |-> lines,
         active |-> IF modal.submitting THEN "none" ELSE modal.field]

RenderModal(modal) ==
    CASE modal.kind = "choice" -> RenderCreateChoice(modal)
      [] modal.kind = "form" -> RenderCreateForm(modal)
      [] OTHER -> modal

LastPosition(rows, focus) == SelectLastInSeq(rows, LAMBDA r : r.focus = focus)

\* The rows drawn of a state whose rows are cached, and which is highlighted.
Render(c, time) ==
    LET rows == c.cache.rows
        at == LastPosition(rows, c.focus)
        height == ListHeight(c)
        from == ScrollOffset(at, Len(rows), height)
        drawn == SubSeq(rows, from + 1, Lesser(from + height, Len(rows)))
    IN  [lines |-> [i \in DOMAIN drawn |-> RowLine(c, drawn[i])], cursor |-> Monus(at, from),
         ages |-> [i \in DOMAIN drawn |-> FormatAge(drawn[i].since, time)],
         alerts |-> AlertLines(c), pending |-> PendingLine(c.pending),
         modal |-> RenderModal(c.modal), bar |-> StatusBar(c)]

Earliest(times) == IF times = {} THEN Never ELSE CHOOSE t \in times : \A u \in times : t <= u

\* When the first age of these rows changes.
FirstBoundary(rows, time) ==
    Earliest({NextAgeBoundary(t, time) : t \in {r.since : r \in ToSet(rows)} \ {Never}})

\* Of a state whose rows are cached.
PrepareAges(c, time) ==
    IF c.aged THEN c
    ELSE [c EXCEPT !.aged = TRUE, !.ageDue = FirstBoundary(c.cache.rows, time)]

\* prepare_render
PrepareRender(a, time) == PrepareAges(Cached(a), time)

-----------------------------------------------------------------------------
(* The loop                                                                 *)

\* What comes of a command. Its completion is reduced before the next event;
\* a creation that cannot be asked for fails at once.
Outcomes(kind) ==
    CASE kind \in {"send", "kill"} -> {"success", "vanished", "failed"}
      [] kind \in {"jump", "group", "attach"} -> {"success", "failed"}
      [] OTHER -> {"success"}

Complete(a, kind, outcome) ==
    CASE kind \in {"send", "kill"} -> ReduceActionFinished(a, kind, outcome)
      [] kind = "jump" /\ outcome = "success" -> Quiet([a EXCEPT !.quit = TRUE])
      [] kind = "group" /\ outcome = "failed" -> Quiet([a EXCEPT !.quit = TRUE])
      [] kind = "attach" /\ outcome = "failed" -> CreateFailed(a)
      [] OTHER -> Quiet(a)

Draw(drawn) == app' = drawn /\ screen' = Render(drawn, now')

\* Mutant: the completion of a command is drawn only with its event.
ApplyForgetting(result) ==
    \E outcome \in Outcomes(result.effect.kind) :
        LET done == Complete(result.app, result.effect.kind, outcome)
        IN  /\ effect' = result.effect
            /\ IF done.changed
               THEN Draw(PrepareRender(done.app, now'))
               ELSE app' = done.app /\ UNCHANGED screen

\* apply_event
Apply(result) ==
    \E outcome \in Outcomes(result.effect.kind) :
        LET done == Complete(result.app, result.effect.kind, outcome)
        IN  /\ effect' = result.effect
            /\ IF result.changed \/ done.changed
               THEN Draw(PrepareRender(done.app, now'))
               ELSE app' = done.app /\ UNCHANGED screen

Running == ~app.quit

\* What changes nothing is not counted.
Spend(what, result) ==
    /\ left[what] > 0
    /\ (MaxKeys - left.keys) + (MaxUpdates - left.updates) < MaxEvents
    /\ left' = IF result = Quiet(app) THEN left ELSE [left EXCEPT ![what] = @ - 1]

\* The keys that the bounds leave out: longer texts and queries.
Pressable(key) ==
    /\ app.modal.kind = "send" /\ Plain(key) => app.modal.text = 0
    /\ app.modal = NoModal /\ app.typing /\ Plain(key) =>
           key \in QueryKeys /\ Len(app.query) < MaxQuery

Press(key, valid) ==
    /\ Running /\ Pressable(key)
    /\ valid \/ (app.modal.kind = "form" /\ key = "Enter")
    /\ UNCHANGED now
    /\ LET result == ReduceKey(app, key, valid) IN Spend("keys", result) /\ Apply(result)

SnapshotArrives ==
    /\ Running
    /\ UNCHANGED now
    /\ \E lines \in Snapshots :
           LET result == ReduceSnapshot(Cached(app), Parse(lines), now)
           IN  Spend("updates", result) /\ Apply(result)

SnapshotFails ==
    /\ Running
    /\ app.failures = 0
    /\ UNCHANGED now
    /\ LET result == ReduceSnapshotFailure(app)
       IN  Spend("updates", result) /\ Apply(result)

\* The source sends its sessions, or that it is lost.
HeadlessArrives ==
    /\ Running
    /\ UNCHANGED now
    /\ \E records \in HeadlessLists, warning \in BOOLEAN :
           LET result == ReduceHeadlessSnapshot(Cached(app), records, warning)
           IN  /\ warning => records = <<>>
               /\ Spend("updates", result) /\ Apply(result)

TimePasses ==
    /\ Running
    /\ now < MaxTime
    /\ now' = now + 1
    /\ UNCHANGED <<app, screen, effect, left>>

Tick ==
    /\ Running
    /\ UNCHANGED <<now, left>>
    /\ Apply(ReduceTick(app, now))

CreationProgresses ==
    /\ Running
    /\ UNCHANGED <<now, left>>
    /\ \/ app.pending.state = "creating" /\ Apply(CreateFailed(app))
       \/ app.pending.state = "creating" /\ Apply(Created(app))
       \/ /\ app.pending.state = "created"
          /\ \E resolution \in {"success", "untagged", "unsent"} :
                 Apply(FinishCreation(app, resolution))

\* AppState::new, focus_pane_in_session, and the first frame.
InitialApp(lines) ==
    LET o == Parse(lines)
        model == Build(o.records, <<>>, StartTime, {})
        launched == {i \in DOMAIN model.memberships :
                         /\ model.memberships[i].session = LaunchSession
                         /\ model.memberships[i].pane = LaunchPane}
        a == [model |-> model, grouped |-> model.grouped, typing |-> FALSE, query |-> <<>>,
              focus |-> NoFocus, selection |-> NoFocus, collapsed |-> {}, modal |-> NoModal,
              zKey |-> FALSE, ephemeral |-> {}, pending |-> NoPending, attach |-> FALSE,
              clock |-> Never, deadline |-> Never, failures |-> 0, dropped |-> o.dropped,
              banner |-> "none", kimaki |-> FALSE, cache |-> NoCache, ageDue |-> Never,
              aged |-> FALSE, quit |-> FALSE]
    IN  IF launched = {} THEN a ELSE FocusOn(a, PaneFocus(model.memberships[Min(launched)]))

Init ==
    /\ now = StartTime
    /\ \E lines \in Snapshots : app = PrepareRender(InitialApp(lines), now)
    /\ screen = Render(app, now)
    /\ effect = NoEffect
    /\ left = [keys |-> MaxKeys, updates |-> MaxUpdates]

Next ==
    \/ \E key \in Keys, valid \in BOOLEAN : Press(key, valid)
    \/ SnapshotArrives
    \/ SnapshotFails
    \/ HeadlessArrives
    \/ TimePasses
    \/ Tick
    \/ CreationProgresses

Spec == Init /\ [][Next]_vars

-----------------------------------------------------------------------------
(* Properties                                                               *)

\* The focus that no row shows: the created pane was selected in a session
\* that is collapsed and is not the one it was created from.
FocusIsHidden ==
    /\ app.focus.kind = "pane" /\ app.focus.pane = NewPane
    /\ SessionIsCollapsed(app, app.focus.session)

\* What is on the screen is what would be drawn from scratch: no cached row,
\* count, dialog or alert outlives what it was made of, and every change that
\* can be seen is drawn. Ages are the matter of AgesFresh.
ScreenIsCurrent ==
    LET fresh == Render(Cached([app EXCEPT !.cache = NoCache]), now)
    IN  app.quit \/ [screen EXCEPT !.ages = <<>>] = [fresh EXCEPT !.ages = <<>>]

\* Whatever changes the rows, keys, snapshots, headless sessions, filters or a
\* creation, the focus is one of them, and the selection that commands act on
\* is the focus. However little room alerts, a pending creation and the terminal
\* leave, its row is among the lines drawn, the highlighted choice among the
\* choices, and of a form the field that is typed into and what is wrong with
\* it.
FocusOnScreen ==
    /\ \/ app.focus = NoFocus
       \/ FocusIsHidden
       \/ \E r \in ToSet(ShownRows(app)) : r.focus = app.focus
    /\ app.selection = (IF app.focus.kind = "pane" THEN app.focus ELSE NoFocus)
    /\ \/ app.quit \/ app.focus = NoFocus \/ FocusIsHidden \/ screen.lines = <<>>
       \/ /\ screen.cursor \in DOMAIN screen.lines
          /\ screen.lines[screen.cursor].row.focus = app.focus
    /\ ~app.quit /\ app.modal.kind = "choice" =>
           screen.modal.choices[screen.modal.at] = app.modal.choices[app.modal.selected]
    /\ ~app.quit /\ app.modal.kind = "form" /\ ~app.modal.submitting =>
           {app.modal.field} \cup (IF app.modal.failed THEN {"error"} ELSE {})
               \subseteq ToSet(screen.modal.lines)

\* After a tick every age on the screen is right, though only ticks at a
\* boundary redraw them.
AgesAreRight ==
    \A i \in DOMAIN screen.lines : screen.ages[i] = FormatAge(screen.lines[i].row.since, now)

AgesFresh == [][AgesAreRight' \/ ~Tick]_vars

\* A command for tmux names what the screen showed when the key was pressed:
\* the pane of the dialog, the context of the form, the highlighted row. What
\* came since the dialog was opened does not redirect it.
IsShown(command) ==
    CASE command.kind \in {"send", "kill"} ->
             screen.modal.kind = command.kind /\ screen.modal.pane = command.target
      [] command.kind = "create" ->
             screen.modal.kind = "form" /\ screen.modal.context = command.target
      [] command.kind \in {"jump", "attach"} ->
             \/ FocusIsHidden \/ screen.lines = <<>>
             \/ /\ screen.cursor \in DOMAIN screen.lines
                /\ screen.lines[screen.cursor].row.focus = command.target
      [] OTHER -> TRUE

ActsOnWhatIsShown == [][left'.keys # left.keys => IsShown(effect')]_vars
=============================================================================
