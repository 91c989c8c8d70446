# tmux-pane-dash: a formal model

TLA+ modules of tmux-pane-dash, checked with TLC on small instances and, where
a theorem says so, proved with TLAPS for all. Paths are relative to the root of
the repository; `pane-dash/src` is abbreviated to `rs`, and
`packages/tmux-pane-dash/src` to `ts`.

## 1. The system

tmux-pane-dash is a tmux plugin. Its processes share no memory. They meet in
the tmux server (options, hooks, panes), on a Unix socket, and in files.

| Component | State it keeps | Operations | Talks to |
| --- | --- | --- | --- |
| Notification queue, `rs/notifications.rs` | queue, dedup history, next sequence, active client, status width | the seven `NotificationCommand`s of `apply` | called by the daemon |
| Notification daemon, `rs/notification_service.rs` | the queue, the last client, the request being served | one handler per `Request`; awaits tmux and the client | producers, hooks, clicks, popup (socket); tmux (subprocesses) |
| Socket ownership, same file | the socket file, its recorded identity | `bind_or_join`, cleanup | other `notify serve` processes |
| List popup, `rs/notification_ui.rs` | items, selection | list (paged), select, close | the daemon |
| Entrypoint, `pane_dash.tmux` | tmux hooks and bindings | starts the daemon, installs hooks | tmux |
| Dashboard loop, `rs/main.rs`, `rs/transport.rs` | generations, mode, deadlines, snapshots in flight, stamps | connect, retry, poll, snapshot, command, dispatch of directives | every part below |
| Control channel, `rs/control.rs` | the child process, parser, active request, queue | attach, request, deadline, events, end | tmux in control mode; callers; the loop |
| Pane creation, `rs/creation.rs` | stage, deadline, cancellation | create, tag, type, enter; progress | tmux; the loop; the reducer |
| Headless poller, `rs/opencode.rs` | health, whether it warned, one update waiting | a poll of many requests | an OpenCode server; the reducer |
| Reducer, `rs/app.rs`, `rs/model.rs`, `rs/filter.rs` | model, filter, focus, selection, collapsed sessions, dialog, caches | one handler per `AppEvent` | called by the loop; gives commands |
| Preview and help, `rs/app.rs`, `rs/preview.rs` | target, frame, awaited capture, offsets | focus, capture, inspect, scroll, resize | capture tasks; the view |
| View, `rs/ui.rs` | none | draws the reducer's state | the terminal |
| Installer transaction, `ts/transaction.ts`, `ts/journal.ts`, `ts/commands` | version directories, `current`, `ownership.json`, configuration files, journal | setup, update, uninstall, recovery, rollback | the user's configuration files |
| Installer lock, `ts/lock.ts` | lock directory, `owner.json` | acquire, release | other installer processes |
| Installer's other parts | none across commands | download, archive, manifest, JSONC and tmux.conf editing, doctor | |
| OpenCode plugin, `opencode-plugin` | session tree, desired and confirmed options, published events | event reduction, asynchronous tree refresh, tmux writes, publishing | OpenCode, tmux, the daemon |

How the parts of the dashboard interact: the loop owns everything that waits
(the channel, snapshots, captures, the creation's worker, the poller) and turns
each report into an event of the reducer; the reducer changes its state and
answers whether to redraw and what tmux is to do; `redraw` prepares the caches,
draws, and feeds the heights it drew with back to the reducer.

What is hard, and what makes each part correct:

- **Queue.** Three bounds meet (capacity, dedup window, sequences). Correct: the
  urgent survive, an event is shown once, and the number in a click means one
  notification or none, for ever.
- **Daemon.** One request at a time, but each awaits tmux several times while
  panes exit and clients detach. Correct: no notification of a dead pane stays,
  the row shows the queue, a click jumps at most once, and every request ends.
- **Popup.** A list is several requests over a queue that changes. Correct: no
  repetition, no omission, the user's order, an end.
- **Ownership.** Tests of the socket path and uses of their answer are apart.
  Correct: one service, reachable, cleaning up only after itself. Overlapping
  starts can break this, and what they leave true is worth knowing.
- **Loop.** Attempts, channels and snapshots are tasks that report late,
  beside commands that change what the snapshots show; its coordinator and its
  loop keep two accounts of them. Correct: the accounts agree, nothing stale is
  shown, a refresh follows each command, and it quits for a reason.
- **Channel.** Answers carry no name: they are paired with requests by order
  alone, while requests time out and are abandoned, tmux announces in between,
  and the end is told in three places. Correct: an answer reaches the call it
  answers, everybody hears one reason for the end, no session is missed.
- **Creation.** Four commands with one deadline, any of which may fail or be
  cancelled after tmux did its part. Correct: a pane that is known is never
  forgotten, what is concluded of it is so, and the form does not hang.
- **Poller.** A poll is not atomic, and its channel drops. Correct: a poll says
  only what was so during it, and what is shown ends up true.
- **Reducer and view.** Rows, counts and the next change of an age are cached; a
  dialog outlives the row it was opened for; a window may have no room. Correct:
  the screen is what the state says, the highlighted row is the one that
  commands act on, and a command goes where the screen said.
- **Preview.** Captures end in any order and after the selection moved. Correct:
  the frame is of the selection, stands still while inspected, and comes.
- **Transaction.** Dies anywhere, while recovering too, and the user edits the files
  it changes. Correct: all or nothing of what was asked for, and the user's edits
  survive.
- **Lock.** Its holder dies, and others look at a lock and then act on whatever is
  there by then. Correct: one holder.
- **Plugin.** Asynchronous results overtaken by newer state; retries. Not
  modelled; see the plan.

`PROJECT.json` lists every component with its status, and every hazard at its
line with the properties that watch it.

## 2. Modules

| Module | Models | Extended or composed by |
| --- | --- | --- |
| `NotificationQueue` | the queue and its commands | `NotificationService` (INSTANCE), `NotificationQueueProofs`, `MCNotificationQueue` |
| `NotificationService` | daemon, protocol, popup, hooks, tmux | `NotificationServiceProofs`, `MCNotificationService` |
| `NotificationPromise` | what users are promised of a notification, abstractly | refined by `NotificationService` |
| `ServiceOwnership` | who owns the socket | `NotificationServiceProofs`, `MCServiceOwnership` |
| `DashboardRuntime` | the dashboard's loop, its transport coordinator, snapshots, mutations | `DashboardRuntimeProofs`, `MCDashboardRuntime` |
| `ControlChannel` | the control-mode channel, its callers, its parser, tmux | `ControlChannelProofs`, `MCControlChannel` |
| `PaneCreation` | the creation worker, its reports, what the reducer makes of them | `PaneCreationProofs`, `MCPaneCreation` |
| `HeadlessPoller` | polls of an OpenCode server and the list made of them | `DashboardAppProofs`, `MCHeadlessPoller` |
| `PaneModel` | records, model, rows, filter: pure operators | `DashboardApp` (EXTENDS) |
| `DashboardApp` | the reducer, its caches, what the view draws | `DashboardAppProofs`, `MCDashboardApp` |
| `DashboardPreview` | preview, captures, help, what is drawn of them | `DashboardPreviewProofs`, `MCDashboardPreview` |
| `InstallTransaction` | setup, update, uninstall, journal, recovery | `InstallerProofs`, `MCInstallTransaction` |
| `InstallLock` | the installer's lock | `InstallerProofs`, `MCInstallLock` |

Definitions in a module whose comment calls them mutants are wrong on purpose.
No action uses them: each stands for a slip in the definition after it, and
shows that the property named with it in `PROJECT.json` would notice.

### NotificationQueue

`queue` is the VecDeque as a set: every push goes to the back with a larger
sequence than all before, so order in the VecDeque is order of sequences. That
sequences are distinct is part of `QueueInv`, and proved. `publish` is a
disjunction with one action per early return, in the code's order: malformed
id, duplicate, focused origin, full queue, exhausted sequences, enqueue. Each
command leaves its `ApplyResult` in `result`. Messages, labels and widths of
text are left out.

### NotificationService

`pc` is the await the single-threaded daemon is at: `accept`, `read`, `resolve`
(tmux asked about a pane), `apply`, `write_status`, `refresh`, `jump`,
`sessions`, `respond`, `down`. A command of the queue and the decision of
`finish_state_change` are one step, since there is no await in between; the tmux
calls after it are steps of their own and may fail. Requests in flight form a
set: hooks run by `run-shell -b` reorder freely. Between any two steps panes
exit, clients detach, users click what the row shows *then*, and further
requests are sent. A client may die before its frame is complete (its request is
lost) or before its answer is written (the daemon exits, as `listen` returns the
error). `ping` changes nothing and is in `ServiceOwnership`.

A behaviour begins with one of the `Budgets`, which says how often each thing
outside the daemon may happen in it and which events are published.

History variables: `jumped` (sequences switched to), `steady` (queued since the
popup's listing began), `lost` (panes whose exit hook died), `row_stale` (the
last write of the row failed). They are read by properties only.

`NotificationPromise` has four variables and five actions: a notification gets a
fresh number, waits until withdrawn or claimed, and a claim leads to one visit
or is abandoned. `NotificationService` implements it under `pending` = the
queue's sequences, `claimed` = the route a handler still has to jump to,
`visited` = `jumped` (property `KeepsPromise`).

### ServiceOwnership

One action per file system step of `bind_or_join`, `configure_listener`,
`socket_identity` and `remove_socket_if_owned`, for any number of `notify serve`
processes of several versions, which start, crash and end side by side in any
order: `pane_dash.tmux` starts them with `run-shell -b` and waits for nobody. The
socket file is named by the process that bound it, which is what its inode tells
apart (inodes are not reused in the model).

A process that has looked at the path and is about to act on it by name is
`Poised`: to remove a stale file, to set the mode and read the identity of what it
bound, to remove what it owned. `settled` is history: the processes that bound the
socket while no other was poised. What holds of them holds whatever overlaps
afterwards; of the others nothing holds (`SecondServiceExits` is refuted, section 6).

### DashboardRuntime

`coord` is the `TransportCoordinator`; each of its inputs is an operator that
gives what it becomes and the directive it returns (never more than one).
`run` holds the variables of `run_dashboard`: pending and active generation, the
debounce deadline, the sequence and stamp numbers. One action per branch of the
select; each ends in `Dispatch`, which is `dispatch_directives`. The `control`
handle is there exactly when a generation is active, as the code sets and clears
them together.

Connection attempts (`attempting`), the actors of their channels (`live`) and
snapshots (`tasks`) run beside the loop. `messages` is the queue of
`connection_messages`, in order; responses of snapshots are taken from the set
`tasks` in any order, since each is sent by a task of its own. tmux is abstracted
to what snapshots tell apart: a version, the pane that a creation made, the
dashboard's own session. While a command is awaited (`mutating`) no branch of
the loop is taken, but snapshots are: that is the window the mutation stamps are
for. `shown` is the version on the screen; `acked` is history: the version when
the last mutation was recorded. A command that fails records nothing and is no
step.

Left out, because a module of its own has it: what is inside a channel
(`ControlChannel`), the stages of a creation (`PaneCreation`), the reducer
(`DashboardApp`), captures (`DashboardPreview`), headless updates
(`HeadlessPoller`). Left out altogether: errors of the terminal or of setting
the group, which end the loop; the user's own quitting (a behaviour may stop at
any time but for fairness; only a jump to an attached pane quits here); wrapping
at 2^64.

### ControlChannel

`pc` is where `connect_control` (`attach`, `refused`) and then `control_actor`
(`run`, `reaping`, `done`) stands. One action per branch of the actor's select
and per step of the handshake; `PushLine` is the parser, which gives what it
becomes and the event of a line. A line is its first token, the number of its
guard and the text that matters; bytes, lengths and the quoting of commands are
left out. A call waits for room (`Ask`, `Send`), is refused with the reason the
handle reads (`Refuse`), or its future is dropped (`Abandon`); `calls` is what
each caller knows. `End` is everything that happens when the loop of the actor
is left. tmux is external: one command at a time and in order, notices between
its answers, refusal, silence, exit, death at any moment, in the middle of a
line too. `announced` is history.

### PaneCreation

`worker` is `run_creation` of each creation: a stage, the command tmux has
(`child`), cancellation and the deadline, which all the commands share
(`run_argv_until`). A child that is killed may have been obeyed or may still be:
`TmuxRuns` is an action of its own. The task slot of the loop (`task`), the channel
of reports (`progress`) and the reducer's `pending`, `modal` and `attach` complete
the state. `known` is history: the creations whose worker read the id of their pane,
but for one that the dashboard is done with. The report that the first stage begins
is left out: nobody reads it. What a snapshot makes of the created pane is in
`DashboardRuntime`, what the rows make of it in `DashboardApp`.

### HeadlessPoller

`poll` goes through `poll_once`'s requests one by one: port, projects, the status of
each worktree, the requests for input of each, then every active session and its
parents to the root. The server changes between any two. `GET /session/status` may
or may not list idle sessions, which decides whether a worktree is asked for
requests at all. One request that fails fails the poll; `WarnUntilSent` says whether
the loop takes its warning for given: only when it got through the channel, which
holds one update and drops the next. `Receive` and `Snapshot` are
`reduce_headless_snapshot` and `Model::build`. `history` says which sessions were
active, asked, or were the same all along since the poll began. The server's trees
are external; `Lineage`, which only properties and history use, is a session with
its parents, theirs and so on, stated without recursion: what every set has that has
the session and the parents of its members.

### PaneModel and DashboardApp

`PaneModel` holds the pure part: which lines of a snapshot are records
(`Parse`), the memberships, groups and counts made of them (`Build`), and which
rows a query and collapsed sessions leave, in which order (`Rows`, `Matching`).
What the code sorts, the module arranges by keys (`Arranged`): tuples of the fields
that `sort_by` compares, with the index last, since the sort is stable, each at
the place of its rank (`InOrder`). What the code filters is `Only` of some indices.
No definition is recursive, so that what rows are made of can be proved.

A handler of `DashboardApp` is an operator on the record `AppState` that gives
the new state, whether to redraw, and a command; `Apply` is `apply_event`
followed by `redraw`. Caches are state: `cache` (rows and counts) and `ageDue`
(the next age boundary) change only where the code changes or invalidates them.
`screen` is what was drawn last, `Render` what `ui.rs` draws: lines with their
marks and ages, the part of the list that fits, dialogs and alerts. The created
pane may be selected in a collapsed session other than the one it was created
from; the focus then has no row (`FocusIsHidden`), and the properties say so.
`RawRecord`, `HeadlessRecord` and `Times` are what tmux and the poller may tell.
Times lie a day before `Never` or are `Never`: the code's next boundary saturates
at the largest number instead, so that ages of the last day before it are out of
the model.

Left out: texts typed in a dialog (but for their first character), the alerts
of degraded transport and of the configuration, the cut after eight alerts,
widths, colours, and the fuzzy matcher, which is the constant `Score`.

### DashboardPreview

`preview` is `PreviewState`, `help` the scroll position of the help page.
Captures are tasks that end in any order and whose answers queue up
(`captures`, `answers`); `history` numbers them, so that a frame can be told
from an older one of the same pane. `Redraw` feeds the heights back before it
draws, as the code does. How the focus moves is in `DashboardApp`; here any
event may give it to any pane or to none.

### InstallTransaction

`setup`, `update` and `uninstall` plan from what they read (`Plan`), then run
`executeTransaction`: make the root's directories, recover an interrupted
transaction, capture the configuration files, and for each path in `Steps`
record the intent durably (`Record`) and change it (`PublishDirectory`,
`PublishPointer`, `CheckFile` and `PublishFile`). `Complete` marks the journal;
`Cleanup` removes it. An error rolls back (`Fail`, `IOError`); a crash (`Crash`)
leaves everything where it is, and the next command recovers with the same
`reverse` (`ReverseOne`, `RestoreFile`).

Components. A setup is asked for some of the configs (`Selections`, the flags
`--no-tmux` and `--no-opencode`), an update or uninstall goes by what
ownership.json lists (`owned`). `Record` passes over the others, and what
ownership.json is to say of them is copied from what it said when the command was
planned, which is before recovery (`Stale`).

Refusals. Before it touches anything a command refuses (`Refused`) unknown names in
the root, downgrades, an installation or an entry that is not as recorded. The new
link of `current` is made under a name of its own (`Stage`): a command that dies
before the rename leaves it (`leaked`), and `validateManagedRoot` refuses it ever
after. `Begin` allows a refusal at any time besides, for what the user wrote into a
file or for want of a release.

The user. A configuration file's content is what the user wrote (the number of the
edit) and which version's block or entry is in it. The look at such a file
(`verifyPlanned`, `publish`, `reverse`) and the rename or removal after it are two
steps, and `checked` says what came in between. The installer's own paths are
looked at and renamed in one step, as only commands write them and the lock admits
one.

History: `before` is what the installer's part of the files was when the
transaction began, `edited` counts the user's edits, `overwritten` names the files
whose last edit fell between look and rename, and `torn` says what the code could
not make good: a rollback of a complete journal that was interrupted, payloads that
recovery lost, a plan that recovery made stale (section 6).

A symlink is reversed by removing and writing it: a process that dies in between
leaves no link where the journal says before or after, and its recovery ends in
E_RECOVERY, the journal kept, until somebody puts a link back. The model has that
(outcome `stuck`); no property speaks of it but that nothing else is harmed.

### InstallLock

A directory made by mkdir, and `owner.json` in it, are two file operations; so are
reading an owner, testing its pid and renaming the lock away. Any number of commands
take these steps side by side, and any may die at any of them. The rename fails
when the lock is gone, and when the tombstone's name is none: eight random bytes
read as text may hold a slash or a NUL. Either is E_LOCK. `Poised` and `settled` are
as for the socket: those about to act on a lock they looked at, and those who made
theirs while nobody was.

## 3. Runs

Every run that passes ends in less than five minutes on two cores.

| Run | Question | Bounds | Result |
| --- | --- | --- | --- |
| `queue` | who is queued, dropped and remembered | 3 ids, 2 panes, capacity 2, history 2, sequences to 5 | holds |
| `service` | the daemon, its popup and its promise, liveness | capacity 2, history 2, page 1; four scenarios (below) | holds, 840,000 states |
| `service_ownership` | the socket, starts and ends side by side, liveness | 3 processes, 2 versions, 2 crashes | holds, 9,800 states |
| `dashboard` | the loop with everything reporting in any order | 1 change of tmux besides the created pane's exit, 1 snapshot begun by a tick (and a follow-up) | holds, 900,000 states |
| `control` | answers, order, the one end of a channel | 3 calls of different kinds, capacity 1, 1 notice | holds, 760,000 states |
| `creation` | stages, deadline, cancellation, reports | 2 creations | holds, 110,000 states |
| `app` | what is drawn, highlighted and acted on | 4 keys, 2 updates, 5 of both, 3 panes, a screen of 4 lines | holds, 380,000 states |
| `preview` | frames, inspection, scrolling | 2 panes, 3 captures, 2 terminal sizes, 1 alert | holds, 270,000 states |
| `headless` | polls of a changing server | 3 sessions in a tree or with a circle, 3 changes | holds, 760,000 states |
| `install_recovery` | crashes, errors and edits anywhere | 3 commands of any choice of configs, 2 crashes, 1 error, 1 edit, 2 versions, 2 files | holds, 3 million states |
| `setup_rerun` | does a rerun of an interrupted setup install? | 3 commands, 1 crash | violated (section 6) |
| `install_lock` | the lock, all commands side by side | 3 commands, all may crash | holds, 3,800 states |

Why the bounds are enough to meet the interesting cases.

- `queue`: queue and history hold 2 and sequences end at 5, so that a full
  queue, a full history and exhausted sequences all occur, with ids left over
  after the window has moved on; two panes suffice because commands only compare
  panes for equality.
- `service`: the scenarios each spend their budget on one question. `Routing`:
  two clicks and an exit race two publications while the client detaches.
  `Failing`: a tmux call fails, and the focus moves. `Crowded`: a third
  publication meets a full queue. `Listing`: a popup pages, page by page, through
  a queue that an exit and a click change; the daemon is told to stop, clients
  die. One terminal width is enough here, since widths reach only the queue.
- `service_ownership`: three processes allow a service, its replacement and a
  late third, or two that meet what a crashed one left; a second version forces the
  shutdown path.
- `dashboard`: one change lets a command, a creation, the end of the session or a
  change behind the dashboard's back happen, and a created pane may exit after
  it; snapshots begun by ticks, topology changes, mutations, follow-ups and
  retries then overlap, the channel fails and is replaced, and polling takes over
  (attempts are bounded by the code).
- `control`: with a capacity of 1 three calls are active, queued and waiting for
  room at once; the notice may fall into the handshake, between an answer and the
  next, or be the exit.
- `creation`: the second creation may be submitted at every point of the first.
- `app`: four keys open a dialog, type, and confirm, with two updates in between;
  the seven answers of tmux add, remove, move, damage, link and regroup panes; on
  four lines three rows do not all fit, and an alert takes one more.
- `preview`: the third capture may end before the first, and after the selection
  left and came back; the frame is longer than one terminal and not the other.
- `headless`: a session may start, ask and go within one poll, and one poll may
  fail between two that do not.
- `install_recovery`: two crashes let recovery itself be interrupted; three
  commands allow installing, breaking and recovering; two configuration files tell a
  partial publication from a whole one, can be chosen one by one, and one of them
  names the version and the other does not. The edit may fall anywhere. `setup_rerun`
  needs no errors and no edits.
- `install_lock`: three commands are the dead holder and two that find it.

`Budgets`, `Limit` and the constants named `Max...` bound what happens outside;
nothing the programs do themselves is bounded by them.

Symmetry is used in `queue` only, whose properties are invariants and action
properties and treat event ids and panes alike; the runs that check liveness,
refinement or use named values do without. `CHECK_DEADLOCK FALSE` appears where
a process ends for good (sockets, installer, lock, dashboard, channel, creation)
or the bounded outside has nothing left to do; the daemon's run has an explicit
idle step for its resting states.

Properties that are proved for all values of the constants are not all checked
in a run again: `TypeOK` of the queue and the loop, `OwnershipTypeOK`,
`LockTypeOK`, `QueueInv`, `VisibleYieldsOnlyToUrgent`, `TokensNeverReused`,
`RoutesWhatItDismisses`, `SoleService`, `LosesItToNobody`, `ModeAgrees`.

## 4. Properties

Each has a comment in its module. By part:

- Queue: `DedupWindow` (an event is queued twice only after the window moved past
  it), `EvictionSparesTheUrgent`.
- Daemon: `ExitedPanesDrain` (a notification of a pane that exited is queued only
  while the pane's exit hook is on its way, or died), `RowTellsTheQueue` (between
  requests the row shows the queue), `ListIsTrue` (a list over several pages has
  no repetition or omission), `KeepsPromise` (the refinement: a stale click never
  hits another notification, a claim jumps at most once), `NothingHangs`.
- Socket: `SocketIsItsOwners` (a service that bound the socket while nobody was poised
  stays reachable while it serves, and no process that ended leaves a socket behind),
  `StartsEnd`.
- Loop: `FlagsAgree` (what the coordinator believes is what the loop has),
  `NothingStale` and `RefreshFollows` (a snapshot taken before or during a command
  never replaces what came after it, and one taken after it follows),
  `VerdictIsTrue` and `QuitsForReason` (what is concluded from a snapshot, that
  the created pane exited, that the session ended, is so), `SnapshotsSettle`.
- Channel: `AnswersMatch` (the answer a caller gets is tmux's to its own command),
  `OneStory` (one reason for the end, told to everyone), `SessionsInOrder`,
  `CallsSettle`.
- Creation: `NoPaneForgotten` (a pane whose id was read is on its way to the reducer,
  then stands in a creation that goes on, and in the end in one that awaits the
  snapshot with that pane), `ResolutionIsTrue`, `NeverCutsShort`,
  `CreationConcludes`.
- Poller: `PollsTellTruth`, `AttachedOnce`, `SourceIsShown`.
- Reducer and view: `ScreenIsCurrent` (the screen is what would be drawn from
  scratch, without any cache), `FocusOnScreen`, `AgesFresh`, `ActsOnWhatIsShown`
  (a command goes to what the screen showed when the key was pressed).
- Preview: `FrameIsOfSelection`, `HoldsStill`, `ScreenFollows`, `PreviewAnswers`.
- Installer: `RecoveryRestores`, `AllOrNothing` (`current` is the version ownership.json
  says, and every config has the entry recorded there, none if none is),
  `NeverDangles`, `EditsSurvive` (an edit is lost only between the last look at the
  file and the rename after it).
- Lock: `OneHolder`, `LiveLockStays` (two commands that made their lock while nobody
  was poised never run at once, and nobody else takes such a lock away).
- Refuted: `SetupInstalls`, by a run of its own, and `SecondServiceExits`,
  `RerunIsAdmitted`, `FailureRestores`, `NoEditIsLost` and `LiveLockBlocks`, which
  stand in their modules to say which guarantee is missing (section 6).

**Fairness.** `NotificationService`: weak fairness of the daemon's steps as a whole
(a single-threaded loop that always has a next step while it is not idle) and of a
client that cannot connect giving up (`CLIENT_RETRY`). It includes that a client
that connected writes its frame: the code has no read timeout, so with a silent
client no request would ever end. (That is the hazard at
`rs/notification_service.rs:934`.) `ServiceOwnership`: weak fairness of each
process's own steps, which never wait without a deadline. `InstallTransaction` and
`InstallLock` have safety and action properties only. `DashboardRuntime`: weak
fairness of the loop's branches (the select picks among those that are ready at
random), of connection attempts (two seconds to attach, two to subscribe) and of
snapshots. A channel's request has a deadline of two seconds; a one-shot
`list-panes` has none, so that a tmux process that hangs would stop the polling:
that it ends is assumed. Ticks, channels' deaths and successes are not obliged to
happen. `ControlChannel`: the actor's task is scheduled, its clock runs, and callers
await their sends; nothing is assumed of tmux. `PaneCreation`: the loop takes its
messages and ticks, the worker goes on, its deadline comes; tmux may never answer
the worker. That the loop goes on assumes that it is not inside `apply_event`
awaiting a tmux command of its own, which has no deadline (`rs/main.rs:881-918`: a
group toggle, a jump, a sent text, a killed pane): the same cause as that of the
one-shot snapshots above. `DashboardPreview`: captures end and their answers are
taken. `HeadlessPoller`: the interval ticks, a request ends (it has a timeout), and
the loop receives. `DashboardApp` has safety and action properties only. Nothing
obliges anyone to publish, click, type, start, stop or crash.

## 5. Proofs

Eight modules hold theorems, for all values of the constants under the modules'
named assumptions: positive capacities and page size; null values that are not
members of the sets; Boolean switches; notices of tmux that are no guards;
budgets of the events that validation lets through; versions that are numbers,
and configuration files that are distinct and none of the paths the installer
itself owns; worktrees in a finite list; units of ages that divide each other.
Together they prove every safety and action property that a run checks.

- **Queue** (`NotificationQueueProofs`). Inductive invariant: the type invariant,
  the bounds with `sequence < next_sequence` and distinct sequences, and the dedup
  window strengthened by distinctness of remembered ids. Finiteness of the queue is
  carried along, since cardinalities are compared. Distinct sequences are
  needed for nearly everything: they make `Before` a strict order, the evicted
  notification at most one, and the visible one unique.
- **Daemon** (`NotificationServiceProofs`). What a command means for the user takes
  several steps, and nothing of the queue changes in between (`Quiet`). So
  `RowTellsTheQueue` holds because what the daemon still has to do is what the last
  command left (`Settled`), and the refinement `KeepsPromise` because each command
  posts, withdraws or claims (`Command`) and each other step maps to a stutter or to
  a visit; it needs `Numbered`, sequences that name one notification.
  `ExitedPanesDrain` rests on `DrainInv`: what is queued is accounted for by its
  pane's life, its exit hook or the hook's death, and so is what is *about* to be
  queued, since tmux is asked about the pane after the request was read and no hook
  is served between that and the publication. `ListIsTrue` rests on
  `ListInv`: the popup has one request under way (`OneAsked`), the cursor divides
  what was received from what is to come (`Divides`), and an answer continues behind
  its cursor and says how far (`Continues`).
- **Socket ownership** (same module, any number of processes that start, crash and
  end side by side). `SoleOwner`, `SocketOwner` and `CleansUpItsOwn` are of the
  `settled` processes: when such a one bound the path nobody was poised, so that
  everyone who becomes poised later looked at its socket, found a listener and went
  to join it (`Sheltered`); who removes a socket by identity has that identity, and
  who adopts the one at the path has bound it (`Recorded`, `Unborn`). Nothing is
  claimed of a process that bound its socket while another was poised; Section 6
  says why.
- **Transaction** (`InstallerProofs`). The journal is an undo log, and the invariant
  says what undoing it gives: a change in it remembers what was there before the
  transaction (`FromBefore`), a path without one is as it was, and undoing what is
  still to be undone, from any point at which a crash may have left it, leads back
  (`Reaches`). That gives `RecoveryRestores`. For `AllOrNothing` it is followed what
  the plan would make of the files (`Planned`, `Chosen`), that those already passed are
  as planned and the others as before (`Progress`), and that what was there before
  agreed with ownership.json (`Agreement`), for any choice of components. `EditsSurvive`
  needs that a file neither as before nor as after is the user's (`Edits`), and that
  a file just looked at is in the state it was found in, unless it was edited since
  (`Looked`). For `NeverDangles` the directories are followed: the version's directory
  is changed first and reversed last (`DirectoryFirst`), so that `current` is what it was
  when a staged version is removed, and names another (`Spares`); what it named is in
  place or aside (`Backed`), and only a journal that says so has anything aside
  (`Aside`).
- **Lock** (same module, any number of commands side by side). `Exclusive` and
  `LiveLockIsLeft` are of the `settled` commands, as with the socket: who becomes
  poised after such a one made its lock has read its owner.json, finds it alive or
  the file not yet there, and is refused.
- **Dashboard loop** (`DashboardRuntimeProofs`, any bounds). Between a handler's
  change of coordinator and variables and the obeying of its directive the two
  accounts differ by exactly what the directive makes up for (`Fits`): a lemma for
  each input shows that it gives a directive that fits, and `DispatchAgrees` that
  obeying one that fits restores the agreement. It needs that no generation reports
  a connection twice (`Reported`), and that the awaited snapshot is the newest
  (`Waits`). `NothingStale` rests on `Recent`: a response with the current stamp saw
  tmux after the last recorded mutation, and a later one than the last received saw
  no less than the screen shows, because only one snapshot is awaited at a time.
  `RefreshFollows` needs no more than that invariant. The verdicts on the created
  pane and on the session rest on `PaneTold` and `SessionTold`: both are gone for
  good once they are gone, so that what a view, however old, says of that stays
  true; and a view with the stamp that finishing a creation issued has seen the
  pane, so that its absence there is an exit.
- **Control channel** (`ControlChannelProofs`). `OneStory` is not inductive: that
  the end of the channel reaches everyone needs that the running actor knows of
  every call that was sent (`Tracked`), that nothing is sent or reported once it
  was told (`Told`, `Silent`), and that a channel that ends without a word has
  nobody left who could ask (`Unasked`). The actor never looks at the number of a
  guard, so `AnswersMatch` rests on where the one command in flight may be: `Shape`
  says that it is not written, written, served by tmux, or answered with some of the
  answer's lines still to be read, among announcements that are no guards.
  `ReadShape` shows that a line takes it from one of these to the next, and that the
  response comes with the last. `Once` adds that no call is queued twice or run
  before it is active. A deadline that ended only the request and not the channel
  would break `Shape`. For `SessionsInOrder` the events that wait, those the handshake
  kept and the lines not yet read are one stream: a step takes from it or puts into
  it what tells of no session (`Unheard`), moves a session from the lines to the
  events (`Passed`), or adds one at its end (`Heard`).
- **Creation** (`PaneCreationProofs`). The reducer knows nothing of workers: that
  it has done with a creation must mean that the worker has. It does because what
  makes the reducer conclude is always a worker's last report (`Final`), so that a
  worker at work serves the pending creation and finds it unconcluded
  (`Serving`), and because a form that is open is for nothing under way
  (`FormIsFree`). `NeverCutsShort` follows for any number of creations.
  `NoPaneForgotten` and `ResolutionIsTrue` need to know more of the reports on their
  way (`Trail`): they are the worker's script from where the reducer stands to where
  the worker stands, perhaps with a last one that ends it, and each tells what had
  been done to the pane when it was sent. `KnownInv` follows an id that was read
  from there: it is in a report on its way or in the creation, and no report that
  would end the creation without it can come before it or in its place.
- **Preview** (`DashboardPreviewProofs`). The capture that is awaited is newer
  than the selection and than the frame, none is awaited while the user inspects,
  and every handler that changes the picture asks for a redraw, which clamps what
  it draws.
- **Screen** (`DashboardAppProofs`, any keys, snapshots and bounds). `View` is what
  drawing reads of a state but for the cached rows and counts, and `CacheTrue` says
  that these, while they are valid, are what they would be if they were made now.
  Each handler has a lemma (`Step`): it leaves the caches true, and unless it asks
  for a draw it leaves `View` as it was. Hence what was drawn last is what would be
  drawn now without a cache (`ScreenInv`), but for the ages. This proof does not
  look at how rows are sorted or filtered. What a snapshot brings that is not
  applied, because its content is the same, is not in the model either, so that
  nothing is owed to the screen.
- **Rows** (same module). The elements of a finite strict order take the ranks 0, 1,
  ... one each (`Ranks`: ranks differ, so that they fill an interval of the same
  size; no induction is needed, nor for the least of a set of naturals,
  `LeastMember`, which is the end of its smallest interval); tuples of numbers of
  one length are so ordered (`LessIsTotal`). So `InOrder` lists all of a set,
  `Arranged` and `Only` have the elements that they should, and no others, and a
  model made of any snapshot names only sessions and panes that it has (`BuildIs`).
  `RankedIs` says what rows there are: of the model, with every membership while
  there is no query, and grouped never a pane without the header of its session.
- **Focus** (same module). `FocusOnScreen` is not inductive: whether the next rows
  have the focus depends on the model, the caches and what is pending. `FocusInv`
  adds that the model is one that a snapshot can make (`ModelOK`), that the focus is
  a row that the query leaves, in a folded session only if it is the created pane
  (`Fits`), that dialogs highlight one of their choices and a field of theirs, that
  a creation that has told its pane told the new one, and that a dashboard that
  runs has its rows and ages. Each handler keeps this (`Moved`). What is drawn then
  follows from `ScreenInv` and the arithmetic of scrolling (`ScrolledIs`): the part
  of a list that is drawn holds what is selected, and a form shows first the active
  field and what is wrong with it. `FocusAlwaysOnScreen` assumes a terminal of at
  least four lines, which is also what the run has: with fewer, a dialog has no
  room for both, and the code shows only the field, or nothing.
- **Commands** (same module). What a key names is the dialog's pane, the form's
  context or the focus (`Named`), handler by handler; by `ScreenInv` and `FocusInv`
  this is what the screen shows. Only keys are counted as keys (`KeysAreCounted`).
- **Ages** (same module). Until the next boundary of an age, and no longer, it is
  shown the same (`AgeHolds`, from the uniqueness of quotients and from units that
  divide each other); the cached boundary is the least of those of the rows
  (`FirstBoundaryIs`). The invariant (`AgesInv`) says of every later time before
  `ageDue` that the ages of the rows and those drawn will be right then
  (`RightUntilDue`), so that a tick that draws nothing has nothing to draw.
- **Poller** (same module). What is active or asks is in the history the
  moment a request reads it (`Observed`), so that a poll has nothing else to tell
  (`Honest`). A session that stays as it is is found when its worktree is asked, and
  from there on it is among the active ones or counted at its root
  (`NothingMissed`);
  every worktree is asked (`Pending`); and the walk to the root leaves a set behind
  that has all the parents of its members but where it stands (`Walk`), so that it
  ends at the session's root and nowhere else. `AttachedOnce` is inductive as it
  stands.

Two operators are stated so that they can be reasoned about without recursion:
`Page` of the daemon picks the notification of each rank, and `Lineage` of the
poller is the least set closed under parents. Both mean what the recursive form
means.

Model-checked only: liveness (fairness and ENABLED are beyond the proof system):
`NothingHangs`, `StartsEnd`, `SnapshotsSettle`, `CallsSettle`,
`CreationConcludes`, `PreviewAnswers`, `SourceIsShown`. That `Cardinality` counts what
it should in `StatusCounts` and in headers needs no theorem: the cached counts are
compared with the same expression. What a query matches is the constant `Score`.

## 6. Findings

Found by model checking, or met while modelling and confirmed in the model.

- `setup_rerun` (a run): a setup that is killed after moving its version directory
  in, and then rerun as the README advises, decides to reuse the directory,
  recovers (which deletes it), recreates it empty and reports success.

Five more are statements in the modules which TLC refutes as soon as they are added
as an INVARIANT to the .cfg named with them:

- `SecondServiceExits` (`ServiceOwnership.cfg`): two overlapping starts that meet a
  stale socket both remove it; the second removal hits the first's fresh socket. Two
  services run, one unreachable. The test
  `service_socket_is_private_and_same_owner_second_service_exits` has the second start
  wait for the first.
- `LiveLockBlocks` (`InstallLock.cfg`): two commands that read a dead owner both rename
  the lock away, the second one the first's, and both run. A reader that is slow
  enough does the same to a lock that is released and made anew, without any crash.
- `NoEditIsLost` (`InstallRecovery.cfg`): what the user writes to a configuration file
  between the last look at it and the rename after it is overwritten, and is not in
  the saved preimage (`transaction.ts:21,44,48`).
- `FailureRestores` (`InstallRecovery.cfg`): a setup whose last step fails, after its
  journal is complete, rolls back; if it dies doing so, recovery takes the journal for
  done, and half of the entries stay (`transaction.ts:46,82-83`).
- `RerunIsAdmitted` (`InstallRecovery.cfg`): a command that is killed between making
  the new link of `current` and renaming it leaves `.current.<hex>.0` in the root, and
  every later command is refused for it before it recovers
  (`transaction.ts:17,20,65`, `ownership.ts:28-29`). Somebody has to remove it by hand.

Found while modelling:

- The name a dead owner's lock is moved to is made of eight random bytes read as text
  (`lock.ts:51-52`): it may hold a slash or a NUL, and the command then fails with
  E_LOCK although the owner is dead.
- A setup or update that leaves a component out copies what ownership.json said of it
  before recovery (`setup.ts:73-78`, `transaction.ts:52`). If recovery changes that
  back, ownership.json then tells something else than the file. `AllOrNothing`
  excludes it by `torn`.
- An update or uninstall that is killed and rerun can be refused by checks that run
  before recovery: what it left halfway is not what ownership.json says. A setup
  recovers it.
- A process that dies between removing and rewriting `current` in a reversal leaves a
  recovery that ends in E_RECOVERY every time.
- A publication that was queued reports an error after the client the daemon saw
  last has detached.
- The launch pane has no preview until the selection moves: the first `redraw` of
  `run_dashboard` drops what the reducer returned (`rs/main.rs:315`), so that the
  capture is marked as in flight and never made, although
  `focusing_a_pane_starts_an_immediate_preview_capture` (`rs/app.rs:3146`) has the
  reducer ask for it. `PreviewAnswers` excludes that one capture by
  `history.lost`.
- The report that a pane was created closes whatever dialog is open
  (`rs/app.rs:1568`). Keys typed for a Send dialog that was opened in the meantime
  become commands of the list.
- A window that is linked twice into one session makes two rows with the same
  focus: `j` does not get past them, and the highlight is on the last.
- `reduce_snapshot` rebuilds the model from headless sessions that are already
  filtered, so that one that was hidden while a pane was attached stays away
  until the next poll.
- One session that is deleted during a poll, or a circle of parents, fails the
  whole poll: the list is emptied and the source reported as unavailable until a
  poll succeeds.
- After the attach of a pane into a collapsed session the focus has no row
  (`FocusIsHidden`): nothing is highlighted until a key moves it.
- The spinner of a pending creation depends on the time (`rs/ui.rs:751`), but ticks
  redraw only when an age changes or the creation expires (`rs/app.rs:763`).
- `expire_creation_verification` takes the pending creation before it tests what it
  is; the other states cannot have a deadline, so that nothing is lost.

Three behaviours are excluded from `AllOrNothing` or `NeverDangles` by `torn`: the
interrupted rollback that refutes `FailureRestores`, the stale plan above, and that
`ensureManagedRoot` makes `versions` anew before recovery, so that the payloads
an uninstall moved aside are taken for restored and deleted with the journal
(`transaction.ts:44,46,52`).

## 7. Not modelled

- The OpenCode plugin: its writer, session tree, producer and publisher. Its
  hazards are listed; it is the next part of the plan.
- Option parsing, quoting, `config.toml`, palettes, the fuzzy matcher, widths and
  colours, the wording of alerts: functions of one input, or layout.
- Archive extraction, download, manifest validation, JSONC editing: the same.
- The mouse, terminal errors, the command line of the dashboard.
- In `DashboardApp`: the texts of drafts, the alerts of degraded transport and of
  the configuration, and the cut after eight alerts.
- In `NotificationService`: which row of the popup is highlighted, and its keys.
- Doctor: read-only. The installer's command line: parses arguments. Release
  tooling: not part of the running system.
- Pid and inode reuse; a second daemon life (sequences restart at 1).
- A death in the middle of writing `owner.json` (the file is there or not, and names
  its owner), a user who removes the installer's own block from a file, and anybody
  but the installer writing to its own root.
- A tick of the dashboard that changes no variable is a stutter: `AgesFresh` says
  nothing of it.
- `--migrate`'s symlink removals, and the removal of a `tui.json` the installer
  made.

## 8. Plan

1. `TmuxWriter` (`opencode-plugin/src/writer.ts`): desired and confirmed values,
   the drain loop, forced writes and failures. Abstract specification: the pane
   option eventually equals the last desired value. Proof: what is confirmed was
   written.
2. `TuiProducer` (`tui.ts`, `tui-state.ts`, `notifications.ts`) over an
   `OpenCodeStore` (`state.ts`): tree refresh against events, route changes and
   disposal; what is published, and with which event id.
3. `DashboardApp`: the alerts left out, a terminal of fewer than four lines, and
   type invariants for the modules that have none of their own.
4. Proofs: the order of rows (that `Arranged` sorts is so by its definition, but
   that the tie-breaks make it total over what can be told apart is not stated).
