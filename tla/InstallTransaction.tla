--------------------------- MODULE InstallTransaction ---------------------------
(***************************************************************************)
(* The installer's journalled transaction (packages/tmux-pane-dash/src/    *)
(* transaction.ts) under the commands that plan it (commands/setup.ts,     *)
(* update.ts, uninstall.ts), with crashes, I/O errors and a user who edits *)
(* the configuration files meanwhile. Ctrl-C is a crash: the process has   *)
(* no signal handler.                                                      *)
(*                                                                         *)
(* A transaction changes paths one by one. It journals the intent to       *)
(* change a path durably before it renames anything there, so that the     *)
(* same process after an error, or the next command after a crash, can     *)
(* reverse the changes. The lock admits one command at a time.             *)
(*                                                                         *)
(* Content is abstract: of a configuration file, what the user wrote and   *)
(* which version's block or package entry is in it; of ownership.json, the *)
(* version and the entry it says each config has. The phase of a journal   *)
(* is only ever compared with `complete`, and `applied` is never read. The *)
(* check of a configuration file and the rename that follows it are two    *)
(* steps, as the user may come in between; of the installer's own paths    *)
(* they are one. Left out: the unlinking of symlinks that --migrate asks   *)
(* for, and the removal of a tui.json the installer itself created.        *)
(***************************************************************************)
EXTENDS Naturals, Sequences, SequencesExt

CONSTANTS
    Configs,        \* the configuration files, in the order they are changed
    Versioned,      \* those whose entry names the version (tmux.conf's does not)
    Versions,       \* release versions, a set of positive numbers
    Selections,     \* the sets of configs a setup can be asked for (--no-tmux ...)
    Limit           \* how many commands, crashes, errors and edits there may be

ASSUME InstallAssumption ==
    /\ Versions \subseteq Nat \ {0}
    /\ Configs \in Seq(ToSet(Configs))
    /\ \A i, j \in 1 .. Len(Configs) : Configs[i] = Configs[j] => i = j
    /\ ToSet(Configs) \cap {"current", "ownership", "version", "versions"} = {}
    /\ Versioned \subseteq ToSet(Configs)
    /\ Selections \subseteq SUBSET ToSet(Configs) \ {{}}
    /\ Limit \in [{"command", "crash", "error", "edit"} -> Nat]

VARIABLES
    files,          \* what current, ownership.json and the configs hold
    versions,       \* each version's directory: "absent", "empty" or "full"
    versions_dir,   \* does the directory `versions` itself exist
    tombstone,      \* `versions` as an uninstall moved it aside
    leaked,         \* is there a symlink `.current.<hex>.0`, yet to be renamed
    journal,        \* the transaction on disk: its phase and its mutations
    pc, plan,       \* the running command: where it is and what it planned
    todo,           \* the paths it has yet to change
    undo,           \* the mutations it has yet to reverse, latest first
    checked,        \* the config at hand was looked at, and edited since
    outcome,        \* how the last command ended
    before,         \* history: what was `ours` when the transaction began
    edited,         \* history: how often the user edited each config
    overwritten,    \* history: configs whose last edit fell between check and rename
    torn,           \* history: what could not be made good, see Final, RecoverDone
    spent           \* how much of Limit is used up

diskVars == <<files, versions, versions_dir, tombstone, leaked, journal>>
processVars == <<pc, plan, todo, undo, checked, outcome>>
historyVars == <<before, edited, overwritten, torn>>
vars == <<diskVars, processVars, historyVars, spent>>

None == 0                   \* no version: the path is absent, the block is not there
ConfigNames == ToSet(Configs)
Paths == {"current", "ownership"} \cup ConfigNames
NoOwnership == [version |-> None, entries |-> [c \in ConfigNames |-> None]]
NoPlan == [command |-> "none", version |-> None]
NoJournal == [phase |-> "none", mutations |-> <<>>]
NoVersions == [v \in Versions |-> "absent"]
Commands == {"setup", "setup --allow-downgrade", "update", "uninstall"}

\* What the installer has put into the files: not what the user wrote.
Part(p, content) == IF p \in ConfigNames THEN content.block ELSE content
ours == [p \in Paths |-> Part(p, files[p])]

Init ==
    /\ files = [p \in Paths |-> IF p \in ConfigNames THEN [user |-> 0, block |-> None]
                                ELSE IF p = "ownership" THEN NoOwnership ELSE None]
    /\ versions = NoVersions
    /\ versions_dir = FALSE
    /\ tombstone = NoVersions
    /\ leaked = FALSE
    /\ journal = NoJournal
    /\ pc = "idle" /\ plan = NoPlan /\ todo = <<>> /\ undo = <<>>
    /\ checked = "no"
    /\ outcome = "none"
    /\ before = ours
    /\ edited = [c \in ConfigNames |-> 0]
    /\ overwritten = {}
    /\ torn = {}
    /\ spent = [k \in DOMAIN Limit |-> 0]

Spend(what) ==
    /\ spent[what] < Limit[what]
    /\ spent' = [spent EXCEPT ![what] = @ + 1]

-----------------------------------------------------------------------------
(* Planning: setup, update and uninstall read everything they plan from,    *)
(* and only then call executeTransaction.                                   *)

uninstalling == plan.command = "uninstall"
installed == IF uninstalling THEN None ELSE plan.version

\* What a config's block or package entry is once v is set up.
Entry(c, v) == IF v = None \/ c \in Versioned THEN v ELSE 1

owned == {c \in ConfigNames : files["ownership"].entries[c] # None}

\* A version directory that validates is reused, another is staged anew. What
\* ownership.json says of the other configs is copied from what it says now.
Plan(command, v, chosen) ==
    [command |-> command, version |-> v, chosen |-> chosen,
     staged |-> versions[v] # "full", prior |-> files["ownership"],
     expected |-> [c \in ConfigNames |-> files[c]]]

\* Mutants, here and below, are wrong on purpose: each stands for a slip in the
\* definition after it. This one switches current before its target is there.
StepsCurrentFirst(command) ==
    <<"current", IF command = "uninstall" THEN "versions" ELSE "version">>
        \o Configs \o <<"ownership">>

\* The order in which executeTransaction changes the paths. Record passes over
\* the configs that were not chosen.
Steps(command) ==
    <<IF command = "uninstall" THEN "versions" ELSE "version", "current">>
        \o Configs \o <<"ownership">>

\* Refusals of setup, update and uninstall, before they touch the disk: an
\* unknown name in the root (validateManagedRoot), a downgrade, an installation
\* that is not what ownership.json says, an entry that is not as recorded there.
Refused(command, v, chosen) ==
    LET own == files["ownership"] IN
    \/ leaked
    \/ command \in {"setup", "update"} /\ v < own.version
    \/ command = "update" /\ own.version = None
    \/ command \in {"update", "uninstall"} /\ files["current"] # own.version
    \/ command = "uninstall" /\ versions[v] # "full"
    \/ command = "uninstall" /\ \E c \in chosen : files[c].block # own.entries[c]
    \/ command # "uninstall" /\ \E c \in chosen \cap Versioned :
          files[c].block \notin {None, v, own.entries[c]}

\* Mutant: begins without recovering.
BeginAfresh(command, v, chosen) ==
    /\ pc = "idle"
    /\ command = "uninstall" => v = files["ownership"].version
    /\ command \in {"update", "uninstall"} => chosen = owned
    /\ Spend("command")
    /\ ~Refused(command, v, chosen)
    /\ plan' = Plan(command, v, chosen)
    /\ versions_dir' = TRUE
    /\ pc' = "recover"
    /\ undo' = <<>>
    /\ outcome' = "running"
    /\ UNCHANGED <<files, versions, tombstone, leaked, journal, todo, checked, historyVars>>

\* executeTransaction makes sure of the root's directories before it recovers.
\* A command may also be refused for what the user wrote into a config or for
\* want of a release to unpack: for that, a setup has made the directories.
\* An uninstall of what is not installed returns without a transaction.
Begin(command, v, chosen) ==
    /\ pc = "idle"
    /\ command = "uninstall" => v = files["ownership"].version
    /\ command \in {"update", "uninstall"} => chosen = owned
    /\ Spend("command")
    /\ \/ /\ outcome' = "refused"
          /\ \/ versions_dir' = versions_dir
             \/ versions_dir' = TRUE /\ command # "uninstall" /\ ~Refused(command, v, chosen)
          /\ UNCHANGED <<pc, plan, undo>>
       \/ /\ ~Refused(command, v, chosen)
          /\ plan' = Plan(command, v, chosen)
          /\ versions_dir' = TRUE
          /\ pc' = "recover"
          /\ undo' = Reverse(journal.mutations)
          /\ outcome' = "running"
    /\ UNCHANGED <<files, versions, tombstone, leaked, journal, todo, checked, historyVars>>

-----------------------------------------------------------------------------
(* Reversal: recoverIncomplete before a transaction, rollback after an error *)

\* ownership.json was read before the recovery that changed it back.
Stale == \E c \in ConfigNames \ plan.chosen :
            plan.prior.entries[c] # before["ownership"].entries[c]

\* A complete journal is never looked at again. A rollback of one that does not
\* get to its end leaves its mark, and so does what a stale plan wrote.
Final ==
    torn' = torn \cup {"rollback" : p \in {pc} \cap {"rollback"}}
                 \cup {"stale" : s \in {Stale} \cap {TRUE}}

\* The process is gone, or gives up.
Stop(how) ==
    /\ pc' = "idle" /\ plan' = NoPlan /\ todo' = <<>> /\ undo' = <<>>
    /\ checked' = "no"
    /\ outcome' = how
    /\ IF journal.phase = "complete"
         THEN journal' = NoJournal /\ tombstone' = NoVersions /\ Final
         ELSE UNCHANGED <<journal, tombstone, torn>>

\* state(): a directory has no content, only its presence is told apart.
State(path, v) ==
    IF path \in Paths THEN files[path]
    ELSE IF path = "versions" THEN versions_dir
    ELSE versions[v] # "absent"

Reverting == pc \in {"recover", "rollback"} /\ undo # <<>>
Undone ==
    /\ undo' = Tail(undo) /\ checked' = "no"
    /\ UNCHANGED <<pc, plan, todo, outcome, journal, torn>>

\* The configuration file that the next step looks at or, looked at, replaces.
AtHand == {c \in ConfigNames : \/ pc = "publish" /\ Head(todo) = c
                               \/ Reverting /\ Head(undo).path = c}

\* It is replaced by what was staged, whatever it holds by now.
Replace(c, content) ==
    /\ files' = [files EXCEPT ![c] = content]
    /\ overwritten' = IF checked = "edited" THEN overwritten \cup {c} ELSE overwritten

\* A file is replaced in one step, a symlink is removed and then written.
Restore(m) ==
    \/ /\ m.path = "current" => None \in {m.pre, m.post}
       /\ m.path \in {"current", "ownership"}
       /\ files' = [files EXCEPT ![m.path] = m.pre]
       /\ Undone
       /\ UNCHANGED <<versions, versions_dir, tombstone>>
    \/ /\ m.path = "current" /\ None \notin {m.pre, m.post}
       /\ files' = [files EXCEPT !["current"] = None]
       /\ undo' = <<[m EXCEPT !.post = None]>> \o Tail(undo)
       /\ UNCHANGED <<versions, versions_dir, pc, plan, todo, checked, outcome, journal,
                      tombstone, torn>>
    \/ /\ m.path = "versions"
       /\ versions' = tombstone /\ versions_dir' = TRUE /\ tombstone' = NoVersions
       /\ Undone
       /\ UNCHANGED files
    \/ /\ m.path = "version"
       /\ versions' = [versions EXCEPT ![m.version] = "absent"]
       /\ Undone
       /\ UNCHANGED <<files, versions_dir, tombstone>>

\* reverse: a path in neither the state before nor the state after the change
\* is somebody else's by now: E_RECOVERY, and the journal stays.
ReverseOne ==
    /\ Reverting /\ checked = "no"
    /\ LET m == Head(undo)
           now == State(m.path, m.version) IN
       \/ /\ now = m.pre
          /\ Undone
          /\ UNCHANGED <<files, versions, versions_dir, tombstone>>
       \/ now # m.pre /\ now = m.post /\ Restore(m)
       \/ /\ now # m.pre /\ now = m.post /\ m.path \in ConfigNames
          /\ checked' = "yes"
          /\ UNCHANGED <<files, versions, versions_dir, tombstone, pc, plan, todo, undo,
                         outcome, journal, torn>>
       \/ /\ now # m.pre /\ now # m.post
          /\ Stop("stuck")
          /\ UNCHANGED <<files, versions, versions_dir>>
    /\ UNCHANGED <<leaked, before, edited, overwritten, spent>>

\* The rename, or the removal, of a configuration file that was looked at.
RestoreFile ==
    /\ Reverting /\ checked # "no"
    /\ Replace(Head(undo).path, Head(undo).pre)
    /\ Undone
    /\ UNCHANGED <<versions, versions_dir, tombstone, leaked, before, edited, spent>>

\* Removing the recovered transaction's directory removes with it the payloads
\* an uninstall had moved there, if `versions` was made anew in between.
RecoverDone ==
    /\ pc = "recover" /\ undo = <<>>
    /\ tombstone' = NoVersions
    /\ torn' = torn \cup {"payload" : t \in {tombstone} \ {NoVersions}}
    /\ journal' = [phase |-> "open", mutations |-> <<>>]
    /\ before' = ours
    /\ todo' = Steps(plan.command)
    /\ pc' = "capture"
    /\ UNCHANGED <<files, versions, versions_dir, leaked, plan, undo, checked, outcome,
                   edited, overwritten, spent>>

RollbackDone ==
    /\ pc = "rollback" /\ undo = <<>>
    /\ tombstone' = NoVersions
    /\ journal' = NoJournal
    /\ pc' = "idle" /\ plan' = NoPlan /\ todo' = <<>>
    /\ outcome' = "failed"
    /\ UNCHANGED <<files, versions, versions_dir, leaked, undo, checked, historyVars, spent>>

-----------------------------------------------------------------------------
(* The transaction *)

Fail ==
    /\ pc' = "rollback"
    /\ undo' = Reverse(journal.mutations)
    /\ checked' = "no"
    /\ UNCHANGED <<diskVars, plan, todo, outcome, historyVars, spent>>

\* verifyPlanned
AsPlanned(c) == files[c] = plan.expected[c]

\* capture(), of all the chosen configs, before anything is changed.
Capture ==
    /\ pc = "capture"
    /\ \/ /\ \E c \in plan.chosen : ~AsPlanned(c)
          /\ Fail
       \/ /\ \A c \in plan.chosen : AsPlanned(c)
          /\ pc' = "record"
          /\ UNCHANGED <<diskVars, plan, todo, undo, checked, outcome, historyVars, spent>>

\* What ownership.json will say: of a config that is not chosen, what it said.
NewOwnership ==
    IF uninstalling THEN NoOwnership
    ELSE [version |-> plan.version,
          entries |-> [c \in ConfigNames |-> IF c \in plan.chosen THEN Entry(c, plan.version)
                                             ELSE plan.prior.entries[c]]]

\* The change a path is in for: state before, state after.
Mutation(path) ==
    [path |-> path, version |-> plan.version,
     pre |-> IF path \in ConfigNames THEN plan.expected[path]
             ELSE State(path, plan.version),
     post |-> IF path \in ConfigNames
                THEN [plan.expected[path] EXCEPT !.block = Entry(path, installed)]
              ELSE IF path = "ownership" THEN NewOwnership
              ELSE IF path = "current" THEN installed
              ELSE path = "version"]

\* stageSymlink: the link is made under a name of its own, in the root.
Linking == Head(todo) = "current" /\ ~uninstalling
Stage ==
    /\ pc = "record" /\ todo # <<>> /\ Linking /\ ~leaked
    /\ leaked' = TRUE
    /\ UNCHANGED <<files, versions, versions_dir, tombstone, journal, processVars,
                   historyVars, spent>>

\* Mutant: changes what it has not recorded.
Unrecorded ==
    /\ pc = "record" /\ todo # <<>>
    /\ Linking => leaked
    /\ pc' = "publish"
    /\ UNCHANGED <<diskVars, plan, todo, undo, checked, outcome, historyVars, spent>>

\* record(): the intent, durably, before the change. A version that was to be
\* reused needs no record: its directory is there, or is made, empty.
Record ==
    /\ pc = "record" /\ todo # <<>>
    /\ LET path == Head(todo) IN
       \/ /\ path \in ConfigNames \ plan.chosen
          /\ todo' = Tail(todo)
          /\ UNCHANGED <<diskVars, pc, plan, undo, checked, outcome, historyVars, spent>>
       \/ /\ path = "version" /\ ~plan.staged
          /\ versions' = [versions EXCEPT ![plan.version] =
                            IF @ = "absent" THEN "empty" ELSE @]
          /\ todo' = Tail(todo)
          /\ UNCHANGED <<files, versions_dir, tombstone, leaked, journal, pc, plan, undo,
                         checked, outcome, historyVars, spent>>
       \/ /\ path = "version" /\ plan.staged /\ versions[plan.version] # "absent"
          /\ Fail
       \/ /\ path = "version" => plan.staged /\ versions[plan.version] = "absent"
          /\ path \in ConfigNames => path \in plan.chosen
          /\ Linking => leaked
          /\ journal' = [journal EXCEPT !.mutations = Append(@, Mutation(path))]
          /\ pc' = "publish"
          /\ UNCHANGED <<files, versions, versions_dir, tombstone, leaked, plan, todo, undo,
                         checked, outcome, historyVars, spent>>

Published == pc' = "record" /\ todo' = Tail(todo) /\ checked' = "no"

\* The rename into place of a staged directory, and of all directories aside.
PublishDirectory ==
    /\ pc = "publish" /\ Head(todo) \notin Paths
    /\ \/ /\ Head(todo) = "version"
          /\ versions' = [versions EXCEPT ![plan.version] = "full"]
          /\ UNCHANGED <<versions_dir, tombstone>>
       \/ /\ Head(todo) = "versions"
          /\ tombstone' = versions /\ versions' = NoVersions /\ versions_dir' = FALSE
    /\ Published
    /\ UNCHANGED <<files, leaked, journal, plan, undo, outcome, historyVars, spent>>

\* The link is renamed into place, ownership.json is replaced, or both are
\* removed. Nobody but the installer writes them.
PublishPointer ==
    /\ pc = "publish" /\ Head(todo) \in {"current", "ownership"}
    /\ files' = [files EXCEPT ![Head(todo)] = Mutation(Head(todo)).post]
    /\ leaked' = (leaked /\ ~Linking)
    /\ Published
    /\ UNCHANGED <<versions, versions_dir, tombstone, journal, plan, undo, outcome,
                   historyVars, spent>>

\* Mutant: does not look at the file again.
CheckNothing ==
    /\ pc = "publish" /\ Head(todo) \in ConfigNames /\ checked = "no"
    /\ checked' = "yes"
    /\ UNCHANGED <<diskVars, pc, plan, todo, undo, outcome, historyVars, spent>>

\* verifyPlanned and publish: only what is still in the recorded state is changed.
CheckFile ==
    /\ pc = "publish" /\ Head(todo) \in ConfigNames /\ checked = "no"
    /\ \/ /\ AsPlanned(Head(todo))
          /\ checked' = "yes"
          /\ UNCHANGED <<diskVars, pc, plan, todo, undo, outcome, historyVars, spent>>
       \/ /\ ~AsPlanned(Head(todo))
          /\ Fail

PublishFile ==
    /\ pc = "publish" /\ Head(todo) \in ConfigNames /\ checked # "no"
    /\ Replace(Head(todo), Mutation(Head(todo)).post)
    /\ Published
    /\ UNCHANGED <<versions, versions_dir, tombstone, leaked, journal, plan, undo, outcome,
                   before, edited, torn, spent>>

Complete ==
    /\ pc = "record" /\ todo = <<>>
    /\ journal' = [journal EXCEPT !.phase = "complete"]
    /\ pc' = "cleanup"
    /\ UNCHANGED <<files, versions, versions_dir, tombstone, leaked, plan, todo, undo,
                   checked, outcome, historyVars, spent>>

Cleanup ==
    /\ pc = "cleanup"
    /\ journal' = NoJournal /\ tombstone' = NoVersions
    /\ pc' = "idle" /\ plan' = NoPlan
    /\ outcome' = IF uninstalling THEN "uninstalled" ELSE "installed"
    /\ Final
    /\ UNCHANGED <<files, versions, versions_dir, leaked, todo, undo, checked,
                   before, edited, overwritten, spent>>

\* Any file operation of the transaction may fail: the process rolls back.
IOError ==
    /\ pc \in {"capture", "record", "publish", "cleanup"}
    /\ spent["error"] < Limit["error"]
    /\ pc' = "rollback"
    /\ undo' = Reverse(journal.mutations)
    /\ checked' = "no"
    /\ spent' = [spent EXCEPT !["error"] = @ + 1]
    /\ UNCHANGED <<diskVars, plan, todo, outcome, historyVars>>

\* The process dies, or an error ends its recovery or its rollback early.
Crash ==
    /\ pc # "idle"
    /\ Spend("crash")
    /\ Stop("crashed")
    /\ UNCHANGED <<files, versions, versions_dir, leaked, before, edited, overwritten>>

\* The user may edit a configuration file at any time.
UserEdit(c) ==
    /\ Spend("edit")
    /\ files' = [files EXCEPT ![c].user = edited[c] + 1]
    /\ edited' = [edited EXCEPT ![c] = @ + 1]
    /\ overwritten' = overwritten \ {c}
    /\ checked' = IF c \in AtHand /\ checked = "yes" THEN "edited" ELSE checked
    /\ UNCHANGED <<versions, versions_dir, tombstone, leaked, journal, pc, plan, todo, undo,
                   outcome, before, torn>>

Next ==
    \/ \E command \in Commands, v \in Versions, chosen \in Selections \cup {owned} :
          Begin(command, v, chosen)
    \/ ReverseOne \/ RestoreFile \/ RecoverDone \/ RollbackDone
    \/ Capture \/ Stage \/ Record
    \/ PublishDirectory \/ PublishPointer \/ CheckFile \/ PublishFile
    \/ Complete \/ Cleanup
    \/ IOError \/ Crash
    \/ \E c \in ConfigNames : UserEdit(c)

Spec == Init /\ [][Next]_vars

-----------------------------------------------------------------------------
(* Properties *)

\* A reversal that gets to its end has put current, ownership.json and what is
\* the installer's in every configuration file back to what it was when the
\* transaction began, whichever step it was interrupted at and however often
\* the reversal itself was (rollback and recoverIncomplete, transaction.ts).
RecoveryRestores ==
    pc \in {"recover", "rollback"} /\ undo = <<>> /\ journal.phase # "none"
        => ours = before

\* The installation is what ownership.json says: current is its version, and
\* every config has the entry recorded there, whatever a setup left out.
AsOwned ==
    /\ files["current"] = files["ownership"].version
    /\ \A c \in ConfigNames : files[c].block = files["ownership"].entries[c]

\* When no command runs and none awaits recovery, current, ownership.json and
\* every configuration file agree (executeTransaction), but for what two gaps
\* leave behind: an interrupted rollback of a complete transaction, whose
\* journal is not looked at again, and a plan made before the recovery that
\* changed ownership.json back.
AllOrNothing ==
    pc = "idle" /\ journal.phase = "none" /\ torn \cap {"rollback", "stale"} = {}
        => AsOwned

\* Only an uninstall, or the recovery from one, ever takes the directory that
\* current points to away: a setup or update moves the version in before it
\* switches current, and reverses that in the opposite order. Once recovery has
\* lost the payloads, a setup that puts one back may of course be reversed.
Dangles == files["current"] # None /\ versions[files["current"]] = "absent"
Recorded(path) == {m \in ToSet(journal.mutations) : m.path = path}
NeverDangles ==
    [][~Dangles /\ Dangles' /\ torn = {}
         => uninstalling \/ Recorded("versions") # {}]_vars

\* An edit of the user's is lost only if it falls between the last look at that
\* file and the rename right after it, never to any other command, error, crash
\* or recovery (verifyPlanned, publish and reverse).
EditsSurvive == \A c \in ConfigNames : c \in overwritten \/ files[c].user = edited[c]

\* README.md: after an interrupted transaction, rerunning the same setup,
\* update or uninstall puts things right. So a setup that reports success has
\* left its version's files where current points.
SetupInstalls == outcome = "installed" => versions[files["current"]] = "full"

-----------------------------------------------------------------------------
(* What the code does not keep: TLC refutes each of these under the bounds   *)
(* of InstallRecovery.cfg. They are here to say which guarantee is missing.  *)

\* tests/transaction.test.ts:11, "every phase failure ... restores exact
\* preimages", complete among the phases. Refuted: the rollback of a complete
\* journal dies halfway.
FailureRestores ==
    pc = "idle" /\ journal.phase = "none" /\ torn \cap {"stale"} = {} => AsOwned

\* No edit of the user's is lost. Refuted: one between check and rename is.
NoEditIsLost == \A c \in ConfigNames : files[c].user = edited[c]

\* README.md:260, an interrupted command can be rerun. Refuted: a link that a
\* crash left in the root has every later command refused.
RerunIsAdmitted == pc = "idle" => ~leaked
=============================================================================
