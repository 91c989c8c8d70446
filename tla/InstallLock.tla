------------------------------- MODULE InstallLock -------------------------------
(***************************************************************************)
(* The installer's lock (packages/tmux-pane-dash/src/lock.ts), under which *)
(* runCli runs one setup, update or uninstall at a time: a directory made  *)
(* by mkdir, and in it owner.json with the pid of the command that made it.*)
(*                                                                         *)
(* The directory and the file are two file operations, and so are looking  *)
(* at a lock and moving it away: each step of a command is a step here,    *)
(* and any number of commands take theirs side by side. Pids are not       *)
(* reused.                                                                 *)
(***************************************************************************)
EXTENDS Naturals

CONSTANTS
    Procs,          \* commands, each run once
    Nobody          \* no owner.json in the lock

ASSUME LockAssumption == Nobody \notin Procs

VARIABLES
    lock,           \* the lock directory: is it there, whom does it name
    at,             \* where each command is in acquireLock and release
    prior,          \* the owner it read from a lock it found
    settled         \* history: the commands whose lock nobody was about to hit

lockVars == <<lock, at, prior, settled>>

NoLock == [there |-> FALSE, owner |-> Nobody]
NewLock == [there |-> TRUE, owner |-> Nobody]

Acquiring == {"mkdir", "read", "check", "rename", "remake", "write"}
Holding == {"held", "release", "emptied"}
Ended == {"refused", "done", "crashed"}

\* isPidAlive
Alive(p) == at[p] \notin Ended \cup {"idle"}

Goto(p, place) == at' = [at EXCEPT ![p] = place]

\* About to act, by name, on a lock it looked at or made before: whichever lock
\* is there by then is the one that is hit.
Poised == {"check", "rename", "write", "release", "emptied"}

\* The lock p makes, at a moment when some other command is poised or none is.
MakeLock(p) ==
    /\ lock' = NewLock
    /\ Goto(p, "write")
    /\ settled' = IF \E q \in Procs \ {p} : at[q] \in Poised THEN settled
                  ELSE settled \cup {p}

LockInit ==
    /\ lock = NoLock
    /\ at = [p \in Procs |-> "idle"]
    /\ prior = [p \in Procs |-> Nobody]
    /\ settled = {}

-----------------------------------------------------------------------------
(* acquireLock *)

Start(p) ==
    /\ at[p] = "idle"
    /\ Goto(p, "mkdir")
    /\ UNCHANGED <<lock, prior, settled>>

\* Mutants are wrong on purpose. This one makes do with a lock that is there.
MkdirRecursively(p) ==
    /\ at[p] = "mkdir"
    /\ MakeLock(p)
    /\ UNCHANGED prior

Mkdir(p) ==
    /\ at[p] = "mkdir"
    /\ IF lock.there THEN Goto(p, "read") /\ UNCHANGED <<lock, settled>> ELSE MakeLock(p)
    /\ UNCHANGED prior

\* A lock without an owner.json, or gone by now: E_LOCK.
ReadOwner(p) ==
    /\ at[p] = "read"
    /\ prior' = [prior EXCEPT ![p] = lock.owner]
    /\ Goto(p, IF lock.owner = Nobody THEN "refused" ELSE "check")
    /\ UNCHANGED <<lock, settled>>

CheckAlive(p) ==
    /\ at[p] = "check"
    /\ Goto(p, IF Alive(prior[p]) THEN "refused" ELSE "rename")
    /\ UNCHANGED <<lock, prior, settled>>

\* The dead owner's lock is moved aside, whatever is at the path by now; or the
\* move fails, as it does when the random name it goes to is none (it may hold
\* a slash or a NUL): E_LOCK, and the lock stays.
Rename(p) ==
    /\ at[p] = "rename"
    /\ \/ lock.there /\ lock' = NoLock /\ Goto(p, "remake")
       \/ Goto(p, "refused") /\ UNCHANGED lock
    /\ UNCHANGED <<prior, settled>>

Remake(p) ==
    /\ at[p] = "remake"
    /\ IF lock.there THEN Goto(p, "refused") /\ UNCHANGED <<lock, settled>> ELSE MakeLock(p)
    /\ UNCHANGED prior

\* writeFile overwrites, and fails if the directory is gone.
WriteOwner(p) ==
    /\ at[p] = "write"
    /\ IF lock.there THEN lock' = [lock EXCEPT !.owner = p] /\ Goto(p, "held")
       ELSE Goto(p, "refused") /\ UNCHANGED lock
    /\ UNCHANGED <<prior, settled>>

-----------------------------------------------------------------------------
(* The command, and release() *)

\* Mutant: the token in owner.json is not looked at.
FinishUnread(p) ==
    /\ at[p] = "held"
    /\ Goto(p, "release")
    /\ UNCHANGED <<lock, prior, settled>>

\* The command has run: release reads owner.json, and leaves another's alone.
Finish(p) ==
    /\ at[p] = "held"
    /\ Goto(p, IF lock.owner = p THEN "release" ELSE "done")
    /\ UNCHANGED <<lock, prior, settled>>

\* rm removes the file, then the directory.
Release(p) ==
    /\ at[p] = "release"
    /\ lock' = [lock EXCEPT !.owner = Nobody]
    /\ Goto(p, "emptied")
    /\ UNCHANGED <<prior, settled>>

RemoveLock(p) ==
    /\ at[p] = "emptied"
    /\ lock' = NoLock
    /\ Goto(p, "done")
    /\ UNCHANGED <<prior, settled>>

Dies(p) ==
    /\ Alive(p)
    /\ Goto(p, "crashed")
    /\ UNCHANGED <<lock, prior, settled>>

\* What a command that runs does next.
Advance(p) ==
    \/ Mkdir(p) \/ ReadOwner(p) \/ CheckAlive(p) \/ Rename(p) \/ Remake(p)
    \/ WriteOwner(p) \/ Finish(p) \/ Release(p) \/ RemoveLock(p)

LockNext == \E p \in Procs : Start(p) \/ Advance(p) \/ Dies(p)

LockSpec == LockInit /\ [][LockNext]_lockVars

-----------------------------------------------------------------------------
(* Properties *)

\* The variables stay in their sets; only a lock that is there names an owner.
LockTypeOK ==
    /\ lock \in [there : BOOLEAN, owner : Procs \cup {Nobody}]
    /\ at \in [Procs -> Acquiring \cup Holding \cup Ended \cup {"idle"}]
    /\ prior \in [Procs -> Procs \cup {Nobody}]
    /\ settled \in SUBSET Procs
    /\ ~lock.there => lock.owner = Nobody

\* Two commands that each made the lock while nobody else was about to move or
\* remove an earlier one never run at once, although others acquire, run, die
\* and release beside them, in any order.
OneHolder ==
    \A p, q \in settled : at[p] \in Holding /\ at[q] \in Holding => p = q

\* The lock of such a command names it until it lets go of it or dies: neither
\* one that recovers a dead owner's lock nor one that releases late, its own
\* lock gone, ever hits it.
LocksOf(p) == lock.owner = p
LiveLockStays ==
    [][\A p \in settled :
         LocksOf(p) /\ Alive(p) => LocksOf(p)' \/ at[p] = "release"]_lockVars

\* "a live transaction lock blocks a second run" (tests/lifecycle.test.ts:16):
\* no two commands ever run at once. Not kept, and in no run: TLC refutes it
\* under the bounds of InstallLock.cfg.
LiveLockBlocks ==
    \A p, q \in Procs : at[p] \in Holding /\ at[q] \in Holding => p = q
=============================================================================
