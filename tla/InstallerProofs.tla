---------------------------- MODULE InstallerProofs ----------------------------
(***************************************************************************)
(* What is proved about the installer: that its transaction, under errors, *)
(* crashes and edits, restores what it does not complete, and that its     *)
(* lock, once it was made with nobody about to hit it, keeps every other   *)
(* command out. The transaction relies on that: it takes commands to run   *)
(* one at a time.                                                          *)
(*                                                                         *)
(* The argument for the files: a change that is in the journal remembers   *)
(* what was there before the transaction (FromBefore), and a path without  *)
(* one is as it was (Reaches). Both hold of the changes that are still to  *)
(* be reversed, so that with none left every file is as it was, whichever  *)
(* step was interrupted. A config that neither is as before nor as after   *)
(* the change is the user's: reversal stops, and nothing is overwritten    *)
(* but for an edit right between the look at a file and its rename         *)
(* (Looked). What a setup leaves out stays as ownership.json said of it    *)
(* before, so that all agree in the end if the plan was not stale.         *)
(*                                                                         *)
(* The argument for the directories: the directory is the first thing to   *)
(* be changed and the last to be reversed (DirectoryFirst). So current is  *)
(* what it was by the time a staged version is removed, and that version   *)
(* was absent when current was looked at: they differ (Spares). What       *)
(* current pointed to is in place, or aside (Backed), and only a journal   *)
(* with a change of `versions` in it has anything aside (Aside).           *)
(***************************************************************************)
EXTENDS InstallTransaction, InstallLock, TLAPS

-----------------------------------------------------------------------------
(* The sets the variables stay in *)

Directories == {"version", "versions"}
Pointers == Versions \cup {None}
Blocks == Versions \cup {None, 1}
Contents == [user : Nat, block : Blocks]
Ownerships == [version : Pointers, entries : [ConfigNames -> Blocks]]
States == Contents \cup Pointers \cup Ownerships \cup BOOLEAN
Parts == Blocks \cup Ownerships
Levels == {"absent", "empty", "full"}

\* What a path may hold: of a directory only whether it is there.
IsState(path, s) ==
    /\ path \in ConfigNames => s \in Contents
    /\ path = "current" => s \in Pointers
    /\ path = "ownership" => s \in Ownerships
    /\ path \in Directories => s \in BOOLEAN

\* What of it is the installer's.
IsPart(path, s) ==
    /\ path \in ConfigNames => s \in Blocks
    /\ path = "current" => s \in Pointers
    /\ path = "ownership" => s \in Ownerships

\* A change of a config leaves what the user wrote; a directory comes or goes.
Changes ==
    {m \in [path : Paths \cup Directories, version : Versions, pre : States, post : States] :
        /\ IsState(m.path, m.pre) /\ IsState(m.path, m.post)
        /\ m.path \in ConfigNames => m.pre.user = m.post.user
        /\ m.path \in Directories => m.post = ~m.pre /\ m.pre = (m.path = "versions")}

\* An uninstall takes every config that ownership.json has an entry of.
Plans ==
    {p \in [command : Commands, version : Versions, chosen : SUBSET ConfigNames,
            staged : BOOLEAN, prior : Ownerships, expected : [ConfigNames -> Contents]] :
        p.command = "uninstall" => \A c \in ConfigNames \ p.chosen : p.prior.entries[c] = None}

FilesOK ==
    /\ files \in [Paths -> States] /\ before \in [Paths -> Parts]
    /\ \A p \in Paths : IsState(p, files[p]) /\ IsPart(p, before[p])
    /\ edited \in [ConfigNames -> Nat]

DirectoriesOK ==
    /\ versions \in [Versions -> Levels]
    /\ tombstone \in [Versions -> Levels]
    /\ versions_dir \in BOOLEAN
    /\ leaked \in BOOLEAN

JournalOK ==
    /\ journal \in [phase : {"none", "open", "complete"}, mutations : Seq(Changes)]
    /\ undo \in Seq(Changes)
    /\ todo \in Seq(Paths \cup Directories)
    /\ pc \in {"idle", "recover", "rollback", "capture", "record", "publish", "cleanup"}
    /\ checked \in {"no", "yes", "edited"}
    /\ pc # "idle" => plan \in Plans

Types == FilesOK /\ DirectoriesOK /\ JournalOK

-----------------------------------------------------------------------------
(* The inductive invariant *)

Started == journal.phase # "none"
Working == pc \in {"record", "publish"}
Reversing == pc \in {"recover", "rollback"}
Touched(changes, p) == \E i \in 1 .. Len(changes) : changes[i].path = p

\* Which phases of the journal go with which steps of the command.
Phases ==
    /\ ~Started => journal.mutations = <<>>
    /\ pc \in {"idle", "recover"} => journal.phase # "complete"
    /\ pc = "recover" /\ ~Started => undo = <<>>
    /\ pc \in {"capture", "record", "publish"} => journal.phase = "open"
    /\ pc = "capture" => journal.mutations = <<>> /\ todo = Steps(plan.command)
    /\ pc = "cleanup" => journal.phase = "complete" /\ todo = <<>>
    /\ pc = "rollback" => Started
    /\ pc = "publish" => todo # <<>> /\ Touched(journal.mutations, Head(todo))

\* The user's part of a config.
Edits == \A c \in ConfigNames : c \in overwritten \/ files[c].user = edited[c]

\* A config that was looked at is about to be replaced. Unless it was edited
\* since, it is what it was taken for.
Looked ==
    checked # "no" =>
        \/ /\ pc = "publish" /\ Head(todo) \in ConfigNames
           /\ checked = "yes" => AsPlanned(Head(todo))
        \/ /\ Reverting /\ Head(undo).path \in ConfigNames
           /\ checked = "yes" => files[Head(undo).path] = Head(undo).post

\* What a change says was there before it was there before the transaction.
FromBefore(m) == m.path \in Paths => Part(m.path, m.pre) = before[m.path]

\* With these changes reversed everything is as it was.
Restored(p) == Part(p, files[p]) = before[p]
Reaches(changes) ==
    /\ \A i \in 1 .. Len(changes) : FromBefore(changes[i])
    /\ \A p \in Paths : ~Touched(changes, p) => Restored(p)

Journalled ==
    /\ Started => Reaches(journal.mutations)
    /\ Started /\ Reversing =>
          /\ Reaches(undo)
          /\ \A i \in 1 .. Len(undo) : Touched(journal.mutations, undo[i].path)

\* No path is changed twice, and none that was not captured.
Planned ==
    Working =>
        /\ \A c \in plan.chosen : plan.expected[c].block = before[c]
        /\ \A i, j \in 1 .. Len(todo) : todo[i] = todo[j] => i = j
        /\ \A i \in 1 .. Len(todo) :
               i > 1 \/ pc = "record" => ~Touched(journal.mutations, todo[i])

\* A config that was not chosen is not changed.
Chosen ==
    Working \/ pc = "cleanup" =>
        \A c \in ConfigNames \ plan.chosen : ~Touched(journal.mutations, c)

Done(p) ==
    /\ p \in plan.chosen => files[p].block = Entry(p, installed)
    /\ p = "current" => files[p] = installed
    /\ p = "ownership" => files[p] = NewOwnership

\* A path that is not to be changed any more has been.
Progress ==
    Working \/ pc = "cleanup" =>
        \A p \in Paths : Done(p) \/ \E i \in 1 .. Len(todo) : todo[i] = p

\* current and the configs are as ownership.json says.
Agrees(f) ==
    /\ f["current"] = f["ownership"].version
    /\ \A c \in ConfigNames : f[c] = f["ownership"].entries[c]

\* Between transactions the paths agree, and so does what they are put back to.
Sound == torn \cap {"rollback", "stale"} = {}
Agreement ==
    Sound => /\ ~Started => AsOwned
             /\ Started => Agrees(before)

EditsInv == Looked /\ Edits
FilesInv == Phases /\ Journalled /\ Planned /\ Chosen /\ Progress /\ Agreement

-----------------------------------------------------------------------------
(* The directories *)

\* The directory is the first thing a transaction changes, the last it reverses.
DirectoryFirst ==
    /\ \A i \in 1 .. Len(journal.mutations) :
           journal.mutations[i].path \in Directories => i = 1
    /\ Reversing => \A i \in 1 .. Len(undo) : undo[i].path \in Directories => i = Len(undo)
    /\ Working => \A i \in 1 .. Len(todo) :
           todo[i] \in Directories =>
               /\ i = 1 /\ versions_dir
               /\ todo[i] = IF uninstalling THEN "versions" ELSE "version"
               /\ pc = "record" => journal.mutations = <<>>

\* The versions are aside only while an uninstall is under way or undone.
Aside ==
    tombstone # NoVersions =>
        /\ Touched(journal.mutations, "versions")
        /\ pc \notin {"idle", "recover"} => ~versions_dir /\ pc # "capture"
        /\ pc = "rollback" => Touched(undo, "versions")

\* Once its directory has been dealt with, the version to install is there.
Present ==
    /\ pc \in {"recover", "capture"} => versions_dir
    /\ ~versions_dir => versions = NoVersions
    /\ (Working \/ pc = "cleanup") /\ ~uninstalling /\ (todo = <<>> \/ Head(todo) # "version")
           => versions[plan.version] # "absent"

Spares(changes) ==
    \A i \in 1 .. Len(changes) :
        changes[i].path = "version" => changes[i].version # before["current"]

\* What current pointed to before the transaction is there, or aside, and it is
\* not the directory that a reversal removes.
Backed ==
    before["current"] # None =>
        /\ versions[before["current"]] # "absent" \/ tombstone[before["current"]] # "absent"
        /\ Spares(journal.mutations)
        /\ Reversing => Spares(undo)

Standing == torn = {} => /\ Started => Backed
                         /\ ~Started => ~Dangles

DirectoriesInv == DirectoryFirst /\ Aside /\ Present /\ Standing

IInv == Types /\ EditsInv /\ FilesInv /\ DirectoriesInv

-----------------------------------------------------------------------------
(* Names and sequences *)

\* No config has the name of one of the installer's own paths.
LEMMA Names ==
  /\ "current" \in Paths /\ "ownership" \in Paths /\ ConfigNames \subseteq Paths
  /\ "current" \notin ConfigNames /\ "ownership" \notin ConfigNames
  /\ "version" \notin Paths /\ "versions" \notin Paths
  /\ \A p \in Paths : p \in ConfigNames \/ p \in {"current", "ownership"}
  /\ None \notin Versions
BY InstallAssumption DEF Paths, ConfigNames, None

\* Reverse keeps the elements, and the last becomes the first.
LEMMA Reversed ==
  ASSUME NEW S, NEW s \in Seq(S)
  PROVE  /\ Reverse(s) \in Seq(S) /\ Len(Reverse(s)) = Len(s)
         /\ \A i \in 1 .. Len(s) : Reverse(s)[i] = s[Len(s) - i + 1]
BY DEF Reverse

\* Append leaves the earlier elements where they are.
LEMMA Appended ==
  ASSUME NEW S, NEW s \in Seq(S), NEW e \in S
  PROVE  /\ Append(s, e) \in Seq(S) /\ Len(Append(s, e)) = Len(s) + 1
         /\ Append(s, e)[Len(s) + 1] = e
         /\ \A i \in 1 .. Len(s) : Append(s, e)[i] = s[i]
OBVIOUS

\* The rest of a sequence is the sequence without its first element.
LEMMA Rest ==
  ASSUME NEW S, NEW s \in Seq(S), s # <<>>
  PROVE  /\ Len(s) \in Nat /\ Len(s) >= 1 /\ Head(s) = s[1] /\ Head(s) \in S
         /\ Tail(s) \in Seq(S) /\ Len(Tail(s)) = Len(s) - 1
         /\ \A i \in 1 .. Len(s) - 1 : Tail(s)[i] = s[i + 1]
OBVIOUS

\* The first element exchanged for another, the others stay.
LEMMA Exchanged ==
  ASSUME NEW S, NEW s \in Seq(S), s # <<>>, NEW e
  PROVE  /\ e \in S => <<e>> \o Tail(s) \in Seq(S)
         /\ Len(<<e>> \o Tail(s)) = Len(s)
         /\ (<<e>> \o Tail(s))[1] = e
         /\ \A i \in 2 .. Len(s) : (<<e>> \o Tail(s))[i] = s[i]
<1>1. /\ Len(s) \in Nat /\ Len(s) >= 1 /\ Tail(s) \in Seq(S)
      /\ \A i \in 1 .. Len(s) - 1 : Tail(s)[i] = s[i + 1]
  BY Rest
<1>2. /\ e \in S => <<e>> \o Tail(s) \in Seq(S)
      /\ Len(<<e>> \o Tail(s)) = Len(s)
      /\ (<<e>> \o Tail(s))[1] = e
      /\ \A i \in 2 .. Len(s) : (<<e>> \o Tail(s))[i] = Tail(s)[i - 1]
  OBVIOUS
<1>3. \A i \in 2 .. Len(s) : i - 1 \in 1 .. Len(s) - 1 /\ (i - 1) + 1 = i
  BY <1>1
<1> QED
  BY <1>1, <1>2, <1>3

\* A concatenation holds the elements of both, in order.
LEMMA Joined ==
  ASSUME NEW S, NEW s \in Seq(S), NEW t \in Seq(S)
  PROVE  /\ Len(s) \in Nat /\ Len(t) \in Nat
         /\ s \o t \in Seq(S) /\ Len(s \o t) = Len(s) + Len(t)
         /\ \A i \in 1 .. Len(s) : (s \o t)[i] = s[i]
         /\ \A i \in 1 .. Len(t) : (s \o t)[Len(s) + i] = t[i]
OBVIOUS

\* Two elements before a sequence and one after it.
LEMMA Framed ==
  ASSUME NEW S, NEW a \in S, NEW b \in S, NEW c \in S, NEW s \in Seq(S), Len(s) \in Nat
  PROVE  LET t == <<a, b>> \o s \o <<c>> IN
         /\ t \in Seq(S) /\ Len(t) = Len(s) + 3
         /\ t[1] = a /\ t[2] = b /\ t[Len(s) + 3] = c
         /\ \A i \in 1 .. Len(s) : t[2 + i] = s[i]
<1>1. PICK front : front = <<a, b>>
  OBVIOUS
<1>2. front \in Seq(S)
  BY <1>1
<1>3. Len(front) = 2 /\ front[1] = a /\ front[2] = b
  BY <1>1
<1>4. PICK back : back = <<c>>
  OBVIOUS
<1>5. back \in Seq(S)
  BY <1>4
<1>6. Len(back) = 1 /\ back[1] = c
  BY <1>4
<1>7. /\ front \o s \in Seq(S) /\ Len(front \o s) = Len(front) + Len(s)
      /\ \A i \in 1 .. Len(front) : (front \o s)[i] = front[i]
      /\ \A i \in 1 .. Len(s) : (front \o s)[Len(front) + i] = s[i]
  BY <1>2, Joined
<1>8. PICK r : r = front \o s
  OBVIOUS
<1>9. r \in Seq(S) /\ Len(r) \in Nat
  BY <1>7, <1>8
<1>10. /\ Len(r) = 2 + Len(s) /\ r[1] = a /\ r[2] = b
       /\ \A i \in 1 .. Len(s) : r[2 + i] = s[i]
  BY <1>3, <1>7, <1>8
<1>11. /\ r \o back \in Seq(S) /\ Len(r \o back) = Len(r) + Len(back)
       /\ \A i \in 1 .. Len(r) : (r \o back)[i] = r[i]
       /\ \A i \in 1 .. Len(back) : (r \o back)[Len(r) + i] = back[i]
  BY <1>5, <1>9, Joined
<1>12. PICK t : t = r \o back
  OBVIOUS
<1>13. /\ t \in Seq(S) /\ Len(t) = Len(s) + 3
       /\ t[1] = a /\ t[2] = b /\ t[Len(s) + 3] = c
  BY <1>6, <1>9, <1>10, <1>11, <1>12
<1>14. ASSUME NEW i \in 1 .. Len(s) PROVE t[2 + i] = s[i]
  <2>1. 2 + i \in 1 .. Len(r)
    BY <1>10
  <2> QED
    BY <1>10, <1>11, <1>12, <2>1
<1>15. t = <<a, b>> \o s \o <<c>>
  BY <1>1, <1>4, <1>8, <1>12
<1> QED
  BY <1>13, <1>14, <1>15

\* The paths a transaction changes: a directory, then every other path, each once.
LEMMA StepsAre ==
  ASSUME NEW command \in Commands
  PROVE  /\ Steps(command) \in Seq(Paths \cup Directories)
         /\ Steps(command) # <<>>
         /\ Steps(command)[1] = IF command = "uninstall" THEN "versions" ELSE "version"
         /\ \A i, j \in 1 .. Len(Steps(command)) : Steps(command)[i] = Steps(command)[j] => i = j
         /\ \A i \in 1 .. Len(Steps(command)) : Steps(command)[i] \in Directories => i = 1
         /\ \A p \in Paths : \E i \in 1 .. Len(Steps(command)) : Steps(command)[i] = p
<1> DEFINE first == IF command = "uninstall" THEN "versions" ELSE "version"
           n == Len(Configs)
           s == Steps(command)
<1>1. /\ Configs \in Seq(ConfigNames) /\ n \in Nat
      /\ \A i \in 1 .. n : Configs[i] \in ConfigNames
      /\ \A c \in ConfigNames : \E i \in 1 .. n : Configs[i] = c
      /\ \A i, j \in 1 .. n : Configs[i] = Configs[j] => i = j
  BY InstallAssumption DEF ConfigNames, ToSet
<1>2. first \in Directories
  BY DEF Directories
<1>3. /\ s \in Seq(Paths \cup Directories) /\ Len(s) = n + 3
      /\ s[1] = first /\ s[2] = "current" /\ s[n + 3] = "ownership"
      /\ \A i \in 1 .. n : s[2 + i] = Configs[i]
  <2>1. /\ Configs \in Seq(Paths \cup Directories)
        /\ first \in Paths \cup Directories
        /\ "current" \in Paths \cup Directories /\ "ownership" \in Paths \cup Directories
    BY <1>1, <1>2, Names
  <2>2. s = <<first, "current">> \o Configs \o <<"ownership">>
    BY DEF Steps
  <2> HIDE DEF s, first
  <2> QED
    BY <1>1, <2>1, <2>2, Framed
<1>4. first # "current" /\ first # "ownership" /\ first \notin ConfigNames
  BY Names
<1>5. n \in Nat /\ first \in Directories
  BY <1>1, <1>2
<1> HIDE DEF s, first, n
<1> DEFINE Place(i) == \/ i = 1 /\ s[i] = first
                       \/ i = 2 /\ s[i] = "current"
                       \/ i = n + 3 /\ s[i] = "ownership"
                       \/ \E k \in 1 .. n : i = 2 + k /\ s[i] = Configs[k]
<1>6. ASSUME NEW i \in 1 .. n + 3 PROVE Place(i)
  <2>1. CASE i \in {1, 2, n + 3}
    BY <1>3, <2>1
  <2>2. CASE i \notin {1, 2, n + 3}
    <3>1. PICK k \in 1 .. n : i = 2 + k
      <4>1. i - 2 \in 1 .. n /\ i = 2 + (i - 2)
        BY <1>5, <1>6, <2>2
      <4> QED
        BY <4>1
    <3>2. s[i] = Configs[k]
      BY <1>3, <3>1
    <3> QED
      BY <3>1, <3>2
  <2> QED
    BY <2>1, <2>2
<1>7. \A i, j \in 1 .. n + 3 : s[i] = s[j] => i = j
  <2> SUFFICES ASSUME NEW i \in 1 .. n + 3, NEW j \in 1 .. n + 3, s[i] = s[j] PROVE i = j
    OBVIOUS
  <2>1. Place(i) /\ Place(j)
    BY <1>6
  <2> QED
    BY <1>1, <1>4, <1>5, <2>1, Names
<1>8. \A i \in 1 .. n + 3 : s[i] \in Directories => i = 1
  <2> SUFFICES ASSUME NEW i \in 1 .. n + 3, s[i] \in Directories PROVE i = 1
    OBVIOUS
  <2>1. Place(i)
    BY <1>6
  <2> QED
    BY <1>1, <2>1, Names DEF Directories
<1>9. \A p \in Paths : \E i \in 1 .. n + 3 : s[i] = p
  <2> SUFFICES ASSUME NEW p \in Paths PROVE \E i \in 1 .. n + 3 : s[i] = p
    OBVIOUS
  <2>1. CASE p \in {"current", "ownership"}
    BY <1>1, <1>3, <2>1
  <2>2. CASE p \in ConfigNames
    <3>1. PICK i \in 1 .. n : Configs[i] = p
      BY <1>1, <2>2
    <3>2. 2 + i \in 1 .. n + 3 /\ s[2 + i] = p
      BY <1>1, <1>3, <3>1
    <3> QED
      BY <3>2
  <2> QED
    BY <2>1, <2>2, Names
<1> QED
  BY <1>1, <1>3, <1>7, <1>8, <1>9 DEF s, first, n

-----------------------------------------------------------------------------
(* Types *)

\* What is recorded of every config is one of its entries.
LEMMA OwnershipIs == NoOwnership \in Ownerships
BY DEF NoOwnership, Ownerships, Pointers, Blocks

\* What the installer has put into a file is part of what is in it.
LEMMA PartIs ==
  ASSUME NEW p \in Paths, NEW s, IsState(p, s)
  PROVE  IsPart(p, Part(p, s)) /\ Part(p, s) \in Parts
<1>1. CASE p \in ConfigNames
  BY <1>1, Names DEF IsState, IsPart, Part, Contents, Parts
<1>2. CASE p = "current"
  BY <1>2, Names DEF IsState, IsPart, Part, Parts, Blocks, Pointers
<1>3. CASE p = "ownership"
  BY <1>3, Names DEF IsState, IsPart, Part, Parts
<1> QED
  BY <1>1, <1>2, <1>3, Names

\* A plan remembers of every config what is in it, and an uninstall takes all
\* that have an entry in ownership.json.
LEMMA PlanIs ==
  ASSUME Types, NEW command \in Commands, NEW v \in Versions, NEW chosen \in SUBSET ConfigNames,
         command = "uninstall" => chosen = owned
  PROVE  Plan(command, v, chosen) \in Plans
<1>1. \A c \in ConfigNames : files[c] \in Contents
  BY Names DEF Types, FilesOK, IsState
<1>2. files["ownership"] \in Ownerships
  BY Names DEF Types, FilesOK, IsState
<1>3. PICK q : q = Plan(command, v, chosen)
  OBVIOUS
<1>4. PICK e : e = [c \in ConfigNames |-> files[c]]
  OBVIOUS
<1>5. e \in [ConfigNames -> Contents]
  BY <1>1, <1>4
<1>6. q = [command |-> command, version |-> v, chosen |-> chosen,
           staged |-> versions[v] # "full", prior |-> files["ownership"], expected |-> e]
  BY <1>3, <1>4 DEF Plan
<1>7. q \in [command : Commands, version : Versions, chosen : SUBSET ConfigNames,
            staged : BOOLEAN, prior : Ownerships, expected : [ConfigNames -> Contents]]
  BY <1>2, <1>5, <1>6
<1>8. command = "uninstall" =>
        \A c \in ConfigNames \ chosen : files["ownership"].entries[c] = None
  BY DEF owned
<1> QED
  BY <1>3, <1>6, <1>7, <1>8 DEF Plans

\* The parts of a plan.
LEMMA PlanParts ==
  ASSUME plan \in Plans
  PROVE  /\ plan.command \in Commands /\ plan.version \in Versions
         /\ plan.chosen \in SUBSET ConfigNames /\ plan.prior \in Ownerships
         /\ plan.expected \in [ConfigNames -> Contents]
         /\ uninstalling => \A c \in ConfigNames \ plan.chosen : plan.prior.entries[c] = None
BY DEF Plans, uninstalling

\* An entry is absent, a version, or one that names none.
LEMMA EntryIs ==
  ASSUME NEW c, NEW v \in Pointers
  PROVE  Entry(c, v) \in Blocks
BY DEF Entry, Pointers, Blocks

\* What a command installs is one of its release's versions, or nothing.
LEMMA InstalledIs == plan \in Plans => installed \in Pointers /\ plan.version \in Versions
BY PlanParts DEF installed, Pointers

\* What a command makes of ownership.json.
LEMMA NewOwnershipIs == plan \in Plans => NewOwnership \in Ownerships
<1> SUFFICES ASSUME plan \in Plans PROVE NewOwnership \in Ownerships
  OBVIOUS
<1>1. CASE uninstalling
  BY <1>1, OwnershipIs DEF NewOwnership
<1>2. CASE ~uninstalling
  <2>1. PICK e : e = [c \in ConfigNames |-> IF c \in plan.chosen THEN Entry(c, plan.version)
                                           ELSE plan.prior.entries[c]]
    OBVIOUS
  <2>2. plan.version \in Pointers
    BY PlanParts DEF Pointers
  <2>3. plan.prior.entries \in [ConfigNames -> Blocks]
    BY PlanParts DEF Ownerships
  <2>4. e \in [ConfigNames -> Blocks]
    BY <2>1, <2>2, <2>3, EntryIs
  <2>5. NewOwnership = [version |-> plan.version, entries |-> e]
    BY <1>2, <2>1 DEF NewOwnership
  <2> QED
    BY <2>2, <2>4, <2>5 DEF Ownerships
<1> QED
  BY <1>1, <1>2

\* The recorded change of a path: of a config its entry, of a directory that it
\* comes or goes, of current the version, of ownership.json all of it.
LEMMA MutationIs ==
  ASSUME Types, plan \in Plans, NEW path \in Paths \cup Directories,
         path = "version" => versions[plan.version] = "absent",
         path = "versions" => versions_dir
  PROVE  /\ Mutation(path) \in Changes
         /\ Mutation(path).path = path
         /\ Mutation(path).version = plan.version
<1> DEFINE m == Mutation(path)
<1>1. /\ m = [path |-> path, version |-> plan.version, pre |-> m.pre, post |-> m.post]
      /\ path \in ConfigNames =>
            /\ m.pre = plan.expected[path]
            /\ m.post = [plan.expected[path] EXCEPT !.block = Entry(path, installed)]
      /\ path = "current" => m.pre = files[path] /\ m.post = installed
      /\ path = "ownership" => m.pre = files[path] /\ m.post = NewOwnership
      /\ path \in Directories => /\ m.pre = State(path, plan.version)
                                 /\ m.post = (path = "version")
  BY Names DEF Mutation, State, Directories
<1>2. CASE path \in ConfigNames
  <2>1. plan.expected[path] \in Contents
    BY <1>2, PlanParts
  <2>2. Entry(path, installed) \in Blocks
    BY EntryIs, InstalledIs
  <2>3. m.post \in Contents /\ m.post.user = m.pre.user
    BY <1>1, <1>2, <2>1, <2>2 DEF Contents
  <2>4. path \in Paths /\ path \notin {"current", "ownership"} \cup Directories
    BY <1>2, Names DEF Directories
  <2> HIDE DEF m
  <2>5. m.pre \in Contents
    BY <1>1, <1>2, <2>1
  <2>6. m \in [path : Paths \cup Directories, version : Versions, pre : States, post : States]
    BY <1>1, <2>3, <2>4, <2>5, InstalledIs DEF States
  <2>7. m.path = path /\ m.version = plan.version
    BY <1>1
  <2> QED
    BY <1>2, <2>3, <2>4, <2>5, <2>6, <2>7 DEF Changes, IsState, m
<1>3. CASE path \in {"current", "ownership"}
  <2>1. IsState(path, m.pre) /\ IsState(path, m.post)
    <3>1. path \notin ConfigNames \cup Directories
      BY <1>3, Names DEF Directories
    <3>2. IsState(path, files[path])
      BY <1>3, Names DEF Types, FilesOK
    <3> HIDE DEF m
    <3> QED
      BY <1>1, <1>3, <3>1, <3>2, InstalledIs, NewOwnershipIs DEF IsState
  <2>2. path \in Paths /\ path \notin ConfigNames \cup Directories
    BY <1>3, Names DEF Directories
  <2> HIDE DEF m
  <2>3. m.pre \in States /\ m.post \in States
    BY <1>3, <2>1 DEF IsState, States
  <2>4. m \in [path : Paths \cup Directories, version : Versions, pre : States, post : States]
    BY <1>1, <2>2, <2>3, InstalledIs
  <2>5. m.path = path /\ m.version = plan.version
    BY <1>1
  <2> QED
    BY <2>1, <2>2, <2>4, <2>5 DEF Changes, m
<1>4. CASE path \in Directories
  <2>1. m.pre = (path = "versions") /\ m.post = ~m.pre
    BY <1>1, <1>4, Names DEF State, Directories, Types, DirectoriesOK
  <2>2. path \notin ConfigNames \cup {"current", "ownership"}
    BY <1>4, Names DEF Directories
  <2> HIDE DEF m
  <2>3. m.pre \in BOOLEAN /\ m.post \in BOOLEAN
    BY <2>1
  <2>4. m \in [path : Paths \cup Directories, version : Versions, pre : States, post : States]
    BY <1>1, <1>4, <2>3, InstalledIs DEF States
  <2>5. m.path = path /\ m.version = plan.version
    BY <1>1
  <2> QED
    BY <2>1, <2>2, <2>3, <2>4, <2>5 DEF Changes, IsState, m
<1> QED
  BY <1>2, <1>3, <1>4, Names

LEMMA TypesInit == Init => Types
<1> SUFFICES ASSUME Init PROVE Types
  OBVIOUS
<1>1. \A p \in Paths : IsState(p, files[p]) /\ files[p] \in States
  <2> SUFFICES ASSUME NEW p \in Paths PROVE IsState(p, files[p]) /\ files[p] \in States
    OBVIOUS
  <2>1. CASE p \in ConfigNames
    <3>1. files[p] = [user |-> 0, block |-> None]
      BY <2>1 DEF Init
    <3>2. files[p] \in Contents
      BY <3>1 DEF Contents, Blocks
    <3>3. p \notin {"current", "ownership"} \cup Directories
      BY <2>1, Names DEF Directories
    <3> QED
      BY <2>1, <3>2, <3>3 DEF IsState, States
  <2>2. CASE p = "current"
    <3>1. files[p] = None
      BY <2>2, Names DEF Init
    <3>2. p \notin ConfigNames \cup Directories
      BY <2>2, Names DEF Directories
    <3> QED
      BY <2>2, <3>1, <3>2 DEF IsState, States, Pointers
  <2>3. CASE p = "ownership"
    <3>1. files[p] = NoOwnership
      BY <2>3, Names DEF Init
    <3>2. p \notin ConfigNames \cup Directories
      BY <2>3, Names DEF Directories
    <3> QED
      BY <2>3, <3>1, <3>2, OwnershipIs DEF IsState, States
  <2> QED
    BY <2>1, <2>2, <2>3, Names
<1>2. files \in [Paths -> States]
  BY <1>1 DEF Init
<1>3. FilesOK
  <2>1. before = [p \in Paths |-> Part(p, files[p])]
    BY DEF Init, ours
  <2>2. before \in [Paths -> Parts] /\ \A p \in Paths : IsPart(p, before[p])
    BY <1>1, <2>1, PartIs
  <2> QED
    BY <1>1, <1>2, <2>2 DEF Init, FilesOK
<1>4. DirectoriesOK
  BY DEF Init, DirectoriesOK, NoVersions, Levels
<1>5. JournalOK
  <2> DEFINE none == <<>>
  <2>1. none \in Seq(Changes) /\ none \in Seq(Paths \cup Directories)
    OBVIOUS
  <2> HIDE DEF none
  <2>2. journal = [phase |-> "none", mutations |-> none] /\ undo = none /\ todo = none
    BY DEF Init, NoJournal, none
  <2> QED
    BY <2>1, <2>2 DEF Init, JournalOK
<1> QED
  BY <1>3, <1>4, <1>5 DEF Types

\* A process that is gone leaves its journal, unless that is complete.
LEMMA StopTypes ==
  ASSUME Types, NEW how, Stop(how),
         UNCHANGED <<files, versions, versions_dir, leaked, before, edited>>
  PROVE  Types'
<1>1. FilesOK'
  BY DEF Types, FilesOK
<1>2. DirectoriesOK'
  BY DEF Types, DirectoriesOK, Stop, NoVersions, Levels
<1>3. JournalOK'
  <2> DEFINE none == <<>>
  <2>1. none \in Seq(Changes) /\ none \in Seq(Paths \cup Directories)
    OBVIOUS
  <2> HIDE DEF none
  <2>2. /\ pc' = "idle" /\ undo' = none /\ todo' = none /\ checked' = "no"
        /\ journal' \in {journal, [phase |-> "none", mutations |-> none]}
    BY DEF Stop, NoJournal, none
  <2> QED
    BY <2>1, <2>2 DEF Types, JournalOK
<1> QED
  BY <1>1, <1>2, <1>3 DEF Types

\* Rolling back starts with the journal's changes, the latest first.
LEMMA RollbackTypes ==
  ASSUME Types, pc # "idle", pc' = "rollback", undo' = Reverse(journal.mutations),
         checked' = "no", UNCHANGED <<diskVars, plan, todo, outcome, historyVars>>
  PROVE  Types'
<1>1. journal.mutations \in Seq(Changes)
  BY DEF Types, JournalOK
<1>2. undo' \in Seq(Changes)
  BY <1>1, Reversed
<1> QED
  BY <1>2 DEF Types, FilesOK, DirectoriesOK, JournalOK, diskVars, historyVars

LEMMA ReverseTypes == ASSUME Types, ReverseOne PROVE Types'
<1> DEFINE m == Head(undo)
           now == State(m.path, m.version)
<1>1. undo \in Seq(Changes) /\ undo # <<>> /\ pc # "idle"
  BY DEF Types, JournalOK, ReverseOne, Reverting
<1>2. m \in Changes /\ Tail(undo) \in Seq(Changes)
  BY <1>1, Rest
<1>3. CASE \/ Undone /\ UNCHANGED <<files, versions, versions_dir, tombstone, leaked, before, edited>>
          \/ /\ checked' = "yes" /\ UNCHANGED <<pc, plan, todo, undo, journal>>
             /\ UNCHANGED <<files, versions, versions_dir, tombstone, leaked, before, edited>>
  <2>1. undo' \in Seq(Changes) /\ UNCHANGED <<journal, todo, pc, plan>>
    BY <1>1, <1>2, <1>3 DEF Undone
  <2>2. checked' \in {"no", "yes", "edited"}
    BY <1>3 DEF Undone
  <2> QED
    BY <1>3, <2>1, <2>2 DEF Types, FilesOK, DirectoriesOK, JournalOK
<1>4. CASE Restore(m) /\ UNCHANGED <<leaked, before, edited>>
  <2>1. /\ m.path \in Paths \cup Directories /\ m.version \in Versions
        /\ m.pre \in States /\ m.post \in States
        /\ IsState(m.path, m.pre) /\ IsState(m.path, m.post)
    BY <1>2 DEF Changes
  <2>2. /\ UNCHANGED <<journal, todo, pc, plan>>
        /\ undo' = Tail(undo) \/ undo' = <<[m EXCEPT !.post = None]>> \o Tail(undo)
        /\ checked' \in {"no", checked}
    BY <1>4 DEF Restore, Undone
  <2>3. FilesOK'
    <3>1. CASE UNCHANGED files
      BY <1>4, <3>1 DEF Types, FilesOK
    <3>2. CASE m.path \in Paths /\ files' = [files EXCEPT ![m.path] = m.pre]
      BY <1>4, <2>1, <3>2 DEF Types, FilesOK
    <3>3. CASE m.path = "current" /\ files' = [files EXCEPT !["current"] = None]
      <4>1. None \in States /\ IsState("current", None)
        BY Names DEF States, Pointers, IsState, Directories
      <4> QED
        BY <1>4, <3>3, <4>1, Names DEF Types, FilesOK
    <3> QED
      BY <1>4, <3>1, <3>2, <3>3, Names DEF Restore
  <2>4. DirectoriesOK'
    BY <1>4, <2>1 DEF Restore, Types, DirectoriesOK, NoVersions, Levels
  <2>5. JournalOK'
    <3>1. CASE undo' = Tail(undo)
      BY <1>2, <2>2, <3>1 DEF Types, JournalOK
    <3>2. CASE m.path = "current" /\ undo' = <<[m EXCEPT !.post = None]>> \o Tail(undo)
      <4>1. PICK n : n = [m EXCEPT !.post = None]
        OBVIOUS
      <4>2. None \in States /\ IsState("current", None)
            /\ "current" \notin ConfigNames \cup Directories
        BY Names DEF States, Pointers, IsState, Directories
      <4>3. n \in Changes
        BY <1>2, <3>2, <4>1, <4>2 DEF Changes
      <4>4. undo' = <<n>> \o Tail(undo)
        BY <3>2, <4>1
      <4>5. undo' \in Seq(Changes)
        BY <1>1, <4>3, <4>4, Exchanged
      <4> QED
        BY <2>2, <4>5 DEF Types, JournalOK
    <3> QED
      BY <1>4, <2>2, <3>1, <3>2 DEF Restore, Undone
  <2> QED
    BY <2>3, <2>4, <2>5 DEF Types
<1>5. CASE Stop("stuck") /\ UNCHANGED <<files, versions, versions_dir, leaked, before, edited>>
  BY <1>5, StopTypes
<1> QED
  BY <1>3, <1>4, <1>5 DEF ReverseOne

LEMMA RestoreFileTypes == ASSUME Types, Looked, RestoreFile PROVE Types'
<1> DEFINE m == Head(undo)
<1>1. undo \in Seq(Changes) /\ undo # <<>> /\ Reverting /\ checked # "no"
  BY DEF Types, JournalOK, RestoreFile, Reverting
<1>2. m \in Changes /\ Tail(undo) \in Seq(Changes)
  BY <1>1, Rest
<1>3. m.path \in ConfigNames
  BY <1>1 DEF Looked, Reverting
<1>4. /\ m.path \in Paths /\ m.pre \in States /\ IsState(m.path, m.pre)
  BY <1>2, <1>3, Names DEF Changes
<1>5. /\ files' = [files EXCEPT ![m.path] = m.pre]
      /\ UNCHANGED <<versions, versions_dir, tombstone, leaked, before, edited>>
      /\ undo' = Tail(undo) /\ checked' = "no" /\ UNCHANGED <<pc, plan, todo, journal>>
  BY DEF RestoreFile, Replace, Undone
<1>6. FilesOK'
  BY <1>4, <1>5 DEF Types, FilesOK
<1> QED
  BY <1>2, <1>5, <1>6 DEF Types, DirectoriesOK, JournalOK

LEMMA TypesStep == ASSUME Types, Phases, Looked, DirectoryFirst, [Next]_vars PROVE Types'
<1> USE DEF Types
<1>1. ASSUME NEW command \in Commands, NEW v \in Versions, NEW chosen \in Selections \cup {owned},
             Begin(command, v, chosen)
      PROVE  Types'
  <2>1. CASE pc' = pc
    <3>1. UNCHANGED <<pc, plan, undo>> /\ versions_dir' \in {versions_dir, TRUE}
      BY <1>1, <2>1 DEF Begin
    <3> QED
      BY <1>1, <3>1 DEF Begin, FilesOK, DirectoriesOK, JournalOK, historyVars
  <2>2. CASE pc' # pc
    <3>1. plan' = Plan(command, v, chosen) /\ undo' = Reverse(journal.mutations)
          /\ pc' = "recover" /\ versions_dir' = TRUE
      BY <1>1, <2>2 DEF Begin
    <3>2. chosen \in SUBSET ConfigNames /\ (command = "uninstall" => chosen = owned)
      BY <1>1, InstallAssumption DEF Begin, owned, ConfigNames
    <3>3. plan' \in Plans
      BY <3>1, <3>2, PlanIs
    <3>4. journal.mutations \in Seq(Changes)
      BY DEF JournalOK
    <3>5. undo' \in Seq(Changes)
      BY <3>1, <3>4, Reversed
    <3> QED
      BY <1>1, <3>1, <3>3, <3>5 DEF Begin, FilesOK, DirectoriesOK, JournalOK, historyVars
  <2> QED
    BY <2>1, <2>2
<1>2. CASE ReverseOne
  BY <1>2, ReverseTypes
<1>3. CASE RestoreFile
  BY <1>3, RestoreFileTypes
<1>4. CASE RecoverDone
  <2>1. plan.command \in Commands /\ Steps(plan.command) \in Seq(Paths \cup Directories)
    BY <1>4, StepsAre, PlanParts DEF RecoverDone, JournalOK
  <2>2. PICK none : none = <<>>
    OBVIOUS
  <2>3. none \in Seq(Changes)
    BY <2>2
  <2>4. journal' = [phase |-> "open", mutations |-> none] /\ todo' = Steps(plan.command)
    BY <1>4, <2>2 DEF RecoverDone
  <2>5. JournalOK'
    BY <1>4, <2>1, <2>3, <2>4 DEF RecoverDone, JournalOK
  <2>6. before' = [p \in Paths |-> Part(p, files[p])] /\ UNCHANGED <<files, edited>>
    BY <1>4 DEF RecoverDone, ours
  <2>7. before' \in [Paths -> Parts] /\ \A p \in Paths : IsPart(p, before'[p])
    BY <2>6, PartIs DEF FilesOK
  <2>8. FilesOK'
    BY <2>6, <2>7 DEF FilesOK
  <2> QED
    BY <1>4, <2>5, <2>8 DEF RecoverDone, DirectoriesOK, NoVersions, Levels
<1>5. CASE RollbackDone \/ Cleanup
  <2>1. PICK none : none = <<>>
    OBVIOUS
  <2>2. none \in Seq(Changes) /\ none \in Seq(Paths \cup Directories)
    BY <2>1
  <2>3. /\ journal' = [phase |-> "none", mutations |-> none] /\ pc' = "idle"
        /\ undo' = undo /\ todo' \in {todo, none} /\ checked' = checked
    BY <1>5, <2>1 DEF RollbackDone, Cleanup, NoJournal
  <2>4. JournalOK'
    BY <2>2, <2>3 DEF JournalOK
  <2> QED
    BY <1>5, <2>4 DEF RollbackDone, Cleanup, FilesOK, DirectoriesOK, NoVersions, Levels, historyVars
<1>6. CASE Fail /\ pc # "idle"
  BY <1>6, RollbackTypes DEF Fail
<1>7. CASE IOError
  BY <1>7, RollbackTypes DEF IOError
<1>8. CASE Capture
  BY <1>6, <1>8 DEF Capture, FilesOK, DirectoriesOK, JournalOK, diskVars, historyVars
<1>9. CASE Stage
  BY <1>9 DEF Stage, FilesOK, DirectoriesOK, JournalOK, processVars, historyVars
<1>10. CASE Record
  <2> DEFINE path == Head(todo)
  <2>1. /\ todo \in Seq(Paths \cup Directories) /\ todo # <<>> /\ pc = "record"
        /\ plan \in Plans /\ plan.version \in Versions
    BY <1>10, PlanParts DEF Record, JournalOK
  <2>2. path \in Paths \cup Directories /\ Tail(todo) \in Seq(Paths \cup Directories)
    BY <2>1, Rest
  <2>3. CASE /\ todo' = Tail(todo)
             /\ UNCHANGED <<diskVars, pc, plan, undo, checked, outcome, historyVars, spent>>
    BY <2>2, <2>3 DEF FilesOK, DirectoriesOK, JournalOK, diskVars, historyVars
  <2>4. CASE /\ versions' = [versions EXCEPT ![plan.version] = IF @ = "absent" THEN "empty" ELSE @]
             /\ todo' = Tail(todo)
             /\ UNCHANGED <<files, versions_dir, tombstone, leaked, journal, pc, plan, undo,
                            checked, outcome, historyVars, spent>>
    BY <2>1, <2>2, <2>4 DEF FilesOK, DirectoriesOK, JournalOK, Levels, historyVars
  <2>5. CASE Fail
    BY <1>6, <2>1, <2>5
  <2>6. CASE /\ path = "version" => plan.staged /\ versions[plan.version] = "absent"
             /\ journal' = [journal EXCEPT !.mutations = Append(journal.mutations, Mutation(path))]
             /\ pc' = "publish"
             /\ UNCHANGED <<files, versions, versions_dir, tombstone, leaked, plan, todo, undo,
                            checked, outcome, historyVars, spent>>
    <3>1. path = "versions" => versions_dir
      <4>1. 1 \in 1 .. Len(todo) /\ path = todo[1]
        BY <2>1, Rest
      <4> QED
        BY <2>1, <4>1 DEF DirectoryFirst, Working, Directories
    <3>2. Mutation(path) \in Changes
      BY <2>1, <2>2, <2>6, <3>1, MutationIs
    <3>3. journal.mutations \in Seq(Changes)
      BY DEF JournalOK
    <3>4. Append(journal.mutations, Mutation(path)) \in Seq(Changes)
      BY <3>2, <3>3, Appended
    <3>5. JournalOK'
      BY <2>1, <2>6, <3>4 DEF JournalOK
    <3> QED
      BY <2>6, <3>5 DEF FilesOK, DirectoriesOK, historyVars
  <2> QED
    BY <1>10, <2>3, <2>4, <2>5, <2>6 DEF Record
<1>11. ASSUME pc = "publish"
       PROVE  /\ todo \in Seq(Paths \cup Directories) /\ todo # <<>>
              /\ plan \in Plans /\ plan.version \in Versions
              /\ Tail(todo) \in Seq(Paths \cup Directories)
  <2>1. todo \in Seq(Paths \cup Directories) /\ todo # <<>>
    BY <1>11 DEF JournalOK, Phases
  <2> QED
    BY <1>11, <2>1, Rest, PlanParts DEF JournalOK
<1>12. CASE PublishDirectory
  <2>1. pc = "publish"
    BY <1>12 DEF PublishDirectory
  <2> QED
    BY <1>11, <1>12, <2>1
       DEF PublishDirectory, Published, FilesOK, DirectoriesOK, JournalOK, NoVersions, Levels,
           historyVars
<1>13. CASE PublishPointer \/ PublishFile
  <2> DEFINE path == Head(todo)
  <2>1. /\ pc = "publish" /\ path \in Paths
        /\ files' = [files EXCEPT ![path] = Mutation(path).post]
        /\ pc' = "record" /\ todo' = Tail(todo) /\ checked' = "no"
        /\ leaked' \in {leaked, leaked /\ ~Linking}
        /\ UNCHANGED <<versions, versions_dir, tombstone, journal, plan, undo, before, edited>>
    BY <1>13, Names DEF PublishPointer, PublishFile, Replace, Published, historyVars
  <2>2. Mutation(path) \in Changes /\ Mutation(path).path = path
    BY <1>11, <2>1, MutationIs, Names
  <2>3. Mutation(path).post \in States /\ IsState(path, Mutation(path).post)
    BY <2>2 DEF Changes
  <2>4. FilesOK'
    BY <2>1, <2>3 DEF FilesOK
  <2>5. leaked' \in BOOLEAN
    BY <2>1 DEF DirectoriesOK
  <2> QED
    BY <1>11, <2>1, <2>4, <2>5 DEF DirectoriesOK, JournalOK
<1>14. CASE CheckFile
  <2>1. pc = "publish"
    BY <1>14 DEF CheckFile
  <2>2. CASE checked' = "yes" /\ UNCHANGED <<diskVars, pc, plan, todo, undo, outcome, historyVars>>
    BY <2>2 DEF FilesOK, DirectoriesOK, JournalOK, diskVars, historyVars
  <2> QED
    BY <1>6, <1>14, <2>1, <2>2 DEF CheckFile
<1>15. CASE Complete
  BY <1>15 DEF Complete, FilesOK, DirectoriesOK, JournalOK, historyVars
<1>16. CASE Crash
  BY <1>16, StopTypes DEF Crash
<1>17. ASSUME NEW c \in ConfigNames, UserEdit(c) PROVE Types'
  <2>1. c \in Paths /\ files[c] \in Contents /\ edited[c] \in Nat
    BY Names DEF FilesOK, IsState
  <2>2. PICK f : f = [files[c] EXCEPT !.user = edited[c] + 1]
    OBVIOUS
  <2>3. f \in Contents
    BY <2>1, <2>2 DEF Contents
  <2>4. c \notin {"current", "ownership"} \cup Directories
    BY Names, <2>1 DEF Directories
  <2>5. /\ files' = [files EXCEPT ![c] = f] /\ before' = before
        /\ edited' = [edited EXCEPT ![c] = edited[c] + 1]
        /\ checked' \in {"edited", checked}
    BY <1>17, <2>2 DEF UserEdit
  <2>6. FilesOK'
    BY <2>1, <2>3, <2>4, <2>5 DEF FilesOK, IsState, States
  <2> QED
    BY <1>17, <2>5, <2>6 DEF UserEdit, DirectoriesOK, JournalOK
<1>18. CASE UNCHANGED vars
  BY <1>18 DEF FilesOK, DirectoriesOK, JournalOK, vars, diskVars, processVars, historyVars
<1> QED
  BY <1>1, <1>2, <1>3, <1>4, <1>5, <1>7, <1>8, <1>9, <1>10, <1>12, <1>13, <1>14, <1>15, <1>16,
     <1>17, <1>18 DEF Next

-----------------------------------------------------------------------------
(* What the user wrote *)

LEMMA EditsInit == Init => EditsInv
<1> SUFFICES ASSUME Init PROVE EditsInv
  OBVIOUS
<1>1. \A c \in ConfigNames : files[c].user = 0 /\ edited[c] = 0
  BY Names DEF Init
<1> QED
  BY <1>1 DEF Init, EditsInv, Looked, Edits

\* Between the look at a file and its rename nothing happens but an edit.
LEMMA LookedStep == ASSUME Types, Looked, [Next]_vars PROVE Looked'
<1>1. ASSUME checked' = "no" PROVE Looked'
  BY <1>1 DEF Looked
<1>2. ASSUME pc # "publish", ~Reverting, checked' = checked PROVE Looked'
  BY <1>2 DEF Looked
<1>3. CASE Fail \/ IOError \/ Crash \/ PublishDirectory \/ PublishPointer \/ PublishFile \/ RestoreFile
  BY <1>1, <1>3 DEF Fail, IOError, Crash, Stop, PublishDirectory, PublishPointer, PublishFile,
                    Published, RestoreFile, Undone
<1>4. ASSUME NEW command \in Commands, NEW v \in Versions, NEW chosen \in Selections \cup {owned},
             Begin(command, v, chosen)
      PROVE  Looked'
  BY <1>2, <1>4 DEF Begin, Reverting
<1>5. CASE RecoverDone \/ RollbackDone
  BY <1>2, <1>5 DEF RecoverDone, RollbackDone, Reverting
<1>6. CASE Capture \/ Stage \/ Record \/ Complete \/ Cleanup
  <2>1. pc # "publish" /\ ~Reverting
    BY <1>6 DEF Capture, Stage, Record, Complete, Cleanup, Reverting
  <2>2. Fail \/ checked' = checked
    BY <1>6 DEF Capture, Stage, Record, Complete, Cleanup, processVars
  <2> QED
    BY <1>2, <1>3, <2>1, <2>2
<1>7. CASE CheckFile
  <2>1. CASE Fail
    BY <1>3, <2>1
  <2>2. CASE ~Fail
    <3>1. pc' = "publish" /\ Head(todo') \in ConfigNames /\ AsPlanned(Head(todo))'
      BY <1>7, <2>2 DEF CheckFile, diskVars, AsPlanned
    <3> QED
      BY <3>1 DEF Looked
  <2> QED
    BY <2>1, <2>2
<1>8. CASE ReverseOne
  <2>1. CASE checked' = "no"
    BY <1>1, <2>1
  <2>2. CASE checked' # "no"
    <3>1. /\ Reverting /\ Head(undo).path \in ConfigNames
          /\ files[Head(undo).path] = Head(undo).post
          /\ UNCHANGED <<pc, undo, files>>
      BY <1>8, <2>2, Names DEF ReverseOne, Undone, Restore, Stop, State
    <3> QED
      BY <3>1 DEF Looked, Reverting
  <2> QED
    BY <2>1, <2>2
<1>9. ASSUME NEW c \in ConfigNames, UserEdit(c) PROVE Looked'
  <2>1. /\ UNCHANGED <<pc, plan, todo, undo>>
        /\ checked' = IF c \in AtHand /\ checked = "yes" THEN "edited" ELSE checked
        /\ files' = [files EXCEPT ![c].user = edited[c] + 1]
    BY <1>9 DEF UserEdit
  <2>2. CASE checked' # "yes"
    <3>1. checked' # "no" => checked # "no"
      BY <2>1
    <3> QED
      BY <2>1, <2>2, <3>1 DEF Looked, Reverting
  <2>3. CASE checked' = "yes"
    <3>1. checked = "yes" /\ c \notin AtHand
      BY <2>1, <2>3
    <3>2. CASE pc = "publish" /\ Head(todo) \in ConfigNames /\ AsPlanned(Head(todo))
      <4>1. Head(todo) # c
        BY <1>9, <3>1, <3>2 DEF AtHand
      <4>2. files'[Head(todo)] = files[Head(todo)]
        BY <2>1, <3>2, <4>1, Names DEF Types, FilesOK
      <4> QED
        BY <2>1, <3>2, <4>2 DEF Looked, AsPlanned
    <3>3. CASE /\ Reverting /\ Head(undo).path \in ConfigNames
               /\ files[Head(undo).path] = Head(undo).post
      <4>1. Head(undo).path # c
        BY <1>9, <3>1, <3>3 DEF AtHand
      <4>2. files'[Head(undo).path] = files[Head(undo).path]
        BY <2>1, <3>3, <4>1, Names DEF Types, FilesOK
      <4> QED
        BY <2>1, <3>3, <4>2 DEF Looked, Reverting
    <3> QED
      BY <3>1, <3>2, <3>3 DEF Looked
  <2> QED
    BY <2>2, <2>3
<1>10. CASE UNCHANGED vars
  BY <1>10 DEF vars, diskVars, processVars, Looked, Reverting, AsPlanned
<1> QED
  BY <1>3, <1>4, <1>5, <1>6, <1>7, <1>8, <1>9, <1>10 DEF Next

\* A file is replaced by one with the same edits, unless one came in between.
LEMMA EditsStep == ASSUME Types, Phases, EditsInv, [Next]_vars PROVE Edits'
<1> USE DEF EditsInv
<1>1. ASSUME UNCHANGED <<edited, overwritten>>, \A c \in ConfigNames : files'[c] = files[c]
      PROVE  Edits'
  BY <1>1 DEF Edits
<1>2. files \in [Paths -> States] /\ edited \in [ConfigNames -> Nat]
  BY DEF Types, FilesOK
<1>3. ASSUME NEW c \in ConfigNames, NEW content, Replace(c, content), UNCHANGED edited,
             checked # "edited" => content.user = files[c].user
      PROVE  Edits'
  <2>1. /\ files' = [files EXCEPT ![c] = content]
        /\ overwritten' = IF checked = "edited" THEN overwritten \cup {c} ELSE overwritten
    BY <1>3 DEF Replace
  <2>2. \A d \in ConfigNames : d # c => files'[d] = files[d]
    BY <1>2, <2>1, Names
  <2>3. files'[c] = content
    BY <1>2, <2>1, Names
  <2>4. c \in overwritten' \/ files'[c].user = edited'[c]
    BY <1>3, <2>1, <2>3 DEF Edits
  <2>5. overwritten \subseteq overwritten'
    BY <2>1
  <2> QED
    BY <1>3, <2>2, <2>4, <2>5 DEF Edits
<1>4. CASE PublishFile
  <2>1. pc = "publish" /\ Head(todo) \in ConfigNames /\ checked # "no"
    BY <1>4 DEF PublishFile
  <2>2. plan.expected[Head(todo)] \in Contents
    BY <2>1, PlanParts DEF Types, JournalOK
  <2>3. Mutation(Head(todo)).post =
          [plan.expected[Head(todo)] EXCEPT !.block = Entry(Head(todo), installed)]
    BY <2>1 DEF Mutation
  <2>4. Mutation(Head(todo)).post.user = plan.expected[Head(todo)].user
    BY <2>2, <2>3 DEF Contents
  <2>5. checked # "edited" => files[Head(todo)] = plan.expected[Head(todo)]
    BY <2>1 DEF Looked, Reverting, AsPlanned, Types, JournalOK
  <2>6. Replace(Head(todo), Mutation(Head(todo)).post) /\ UNCHANGED edited
    BY <1>4 DEF PublishFile
  <2> QED
    BY <1>3, <2>1, <2>4, <2>5, <2>6
<1>5. CASE RestoreFile
  <2>1. undo \in Seq(Changes) /\ undo # <<>> /\ Reverting /\ checked # "no"
    BY <1>5 DEF RestoreFile, Types, JournalOK, Reverting
  <2>2. Head(undo) \in Changes
    BY <2>1, Rest
  <2>3. /\ Head(undo).path \in ConfigNames
        /\ checked # "edited" => files[Head(undo).path] = Head(undo).post
    BY <2>1 DEF Looked, Reverting, Types, JournalOK
  <2>4. Head(undo).pre.user = Head(undo).post.user
    BY <2>2, <2>3 DEF Changes
  <2>5. Replace(Head(undo).path, Head(undo).pre) /\ UNCHANGED edited
    BY <1>5 DEF RestoreFile
  <2> QED
    BY <1>3, <2>3, <2>4, <2>5
<1>6. ASSUME NEW c \in ConfigNames, UserEdit(c) PROVE Edits'
  <2>1. /\ files' = [files EXCEPT ![c].user = edited[c] + 1]
        /\ edited' = [edited EXCEPT ![c] = edited[c] + 1]
        /\ overwritten' = overwritten \ {c}
    BY <1>6 DEF UserEdit
  <2>2. files[c] \in Contents
    BY Names DEF Types, FilesOK, IsState
  <2>3. files'[c].user = edited'[c]
    BY <1>2, <2>1, <2>2, Names DEF Contents
  <2>4. \A d \in ConfigNames : d # c => files'[d] = files[d] /\ edited'[d] = edited[d]
    BY <1>2, <2>1, Names
  <2> QED
    BY <2>1, <2>3, <2>4 DEF Edits
<1>7. CASE PublishPointer
  <2>1. /\ Head(todo) \in {"current", "ownership"}
        /\ files' = [files EXCEPT ![Head(todo)] = Mutation(Head(todo)).post]
        /\ UNCHANGED <<edited, overwritten>>
    BY <1>7 DEF PublishPointer, historyVars
  <2> QED
    BY <1>1, <1>2, <2>1, Names
<1>8. CASE ReverseOne
  <2>1. UNCHANGED <<edited, overwritten>>
    BY <1>8 DEF ReverseOne
  <2>2. \/ UNCHANGED files
        \/ \E p \in {"current", "ownership"} : \E content : files' = [files EXCEPT ![p] = content]
    BY <1>8 DEF ReverseOne, Restore
  <2>3. \A c \in ConfigNames : files'[c] = files[c]
    BY <1>2, <2>2, Names
  <2> QED
    BY <1>1, <2>1, <2>3
<1>9. ASSUME UNCHANGED <<files, edited, overwritten>> PROVE Edits'
  BY <1>1, <1>9
<1>10. CASE \/ RecoverDone \/ RollbackDone \/ Capture \/ Stage \/ Record
            \/ PublishDirectory \/ CheckFile \/ Complete \/ Cleanup \/ IOError \/ Crash
            \/ UNCHANGED vars
  BY <1>9, <1>10
     DEF RecoverDone, RollbackDone, Capture, Stage, Record, PublishDirectory, CheckFile, Fail,
         Complete, Cleanup, IOError, Crash, vars, diskVars, historyVars
<1>11. ASSUME NEW command \in Commands, NEW v \in Versions, NEW chosen \in Selections \cup {owned},
              Begin(command, v, chosen)
       PROVE  Edits'
  BY <1>9, <1>11 DEF Begin, historyVars
<1> QED
  BY <1>4, <1>5, <1>6, <1>7, <1>8, <1>10, <1>11 DEF Next

-----------------------------------------------------------------------------
(* What the files hold, and what a reversal makes of them *)

\* The journal's changes in the order of their reversal are the same changes.
LEMMA ReversedTouches ==
  ASSUME NEW changes \in Seq(Changes)
  PROVE  /\ \A p : Touched(Reverse(changes), p) <=> Touched(changes, p)
         /\ \A i \in 1 .. Len(changes) :
                Len(changes) - i + 1 \in 1 .. Len(changes)
                /\ Reverse(changes)[i] = changes[Len(changes) - i + 1]
         /\ Reverse(changes) \in Seq(Changes)
         /\ Len(Reverse(changes)) = Len(changes) /\ Len(changes) \in Nat
<1> DEFINE n == Len(changes)
           r == Reverse(changes)
<1>1. /\ r \in Seq(Changes) /\ Len(r) = n /\ n \in Nat
      /\ \A i \in 1 .. n : r[i] = changes[n - i + 1]
  BY Reversed
<1> HIDE DEF r, n
<1>2. \A i \in 1 .. n : n - i + 1 \in 1 .. n /\ n - (n - i + 1) + 1 = i
  BY <1>1
<1>3. ASSUME NEW i \in 1 .. n PROVE changes[i] = r[n - i + 1]
  BY <1>1, <1>2
<1>4. ASSUME NEW p PROVE Touched(r, p) <=> Touched(changes, p)
  <2>1. ASSUME NEW i \in 1 .. n, r[i].path = p PROVE Touched(changes, p)
    <3>1. n - i + 1 \in 1 .. n /\ changes[n - i + 1].path = p
      BY <1>1, <1>2, <2>1
    <3> QED
      BY <3>1 DEF Touched, n
  <2>2. ASSUME NEW i \in 1 .. n, changes[i].path = p PROVE Touched(r, p)
    <3>1. n - i + 1 \in 1 .. n /\ r[n - i + 1].path = p
      BY <1>2, <1>3, <2>2
    <3> QED
      BY <1>1, <3>1 DEF Touched
  <2>3. Len(r) = n
    BY <1>1
  <2> QED
    BY <2>1, <2>2, <2>3 DEF Touched, n
<1> QED
  BY <1>1, <1>2, <1>4 DEF r, n

LEMMA ReversedReaches ==
  ASSUME NEW changes \in Seq(Changes), Reaches(changes)
  PROVE  Reaches(Reverse(changes))
<1>1. \A i \in 1 .. Len(Reverse(changes)) : FromBefore(Reverse(changes)[i])
  BY ReversedTouches DEF Reaches
<1>2. \A p \in Paths : ~Touched(Reverse(changes), p) => Restored(p)
  BY ReversedTouches DEF Reaches
<1> QED
  BY <1>1, <1>2 DEF Reaches

\* While files and what they would be do not change, a reversal gets as far.
LEMMA ReachesKept ==
  ASSUME NEW changes, UNCHANGED <<files, before>>
  PROVE  Reaches(changes)' <=> Reaches(changes)
BY DEF Reaches, Restored, FromBefore, Touched

\* What has been done stays done, until a file changes.
LEMMA DoneKept ==
  ASSUME UNCHANGED <<files, plan>>, NEW p
  PROVE  Done(p)' <=> Done(p)
BY DEF Done, NewOwnership, installed, uninstalling

\* A step that changes none of it keeps it.
LEMMA FilesKept ==
  ASSUME FilesInv, UNCHANGED <<files, journal, pc, plan, todo, undo, before, torn>>
  PROVE  FilesInv'
<1>1. Journalled'
  BY ReachesKept DEF FilesInv, Journalled, Started, Reversing, Touched
<1>2. Planned' /\ Progress' /\ Chosen'
  BY DoneKept DEF FilesInv, Planned, Progress, Chosen, Working, Touched
<1>3. Phases' /\ Agreement'
  BY DEF FilesInv, Phases, Started, Touched, Agreement, Sound, AsOwned, Agrees
<1> QED
  BY <1>1, <1>2, <1>3 DEF FilesInv

\* Files that are as they were agree if they did.
LEMMA AgreesIs ==
  ASSUME NEW f, NEW b, \A p \in Paths : Part(p, f[p]) = b[p]
  PROVE  Agrees(b) <=> /\ f["current"] = f["ownership"].version
                       /\ \A c \in ConfigNames : f[c].block = f["ownership"].entries[c]
BY Names DEF Agrees, Part

\* The end of a complete transaction leaves its mark if the rollback of it is
\* interrupted, or its plan was stale.
LEMMA FinalIs ==
  ASSUME Final
  PROVE  /\ torn \subseteq torn'
         /\ pc = "rollback" => torn' # {}
         /\ Sound' => Sound /\ pc # "rollback" /\ ~Stale
<1>1. torn \subseteq torn'
  BY DEF Final
<1>2. pc = "rollback" => "rollback" \in torn'
  BY DEF Final
<1>3. Stale => "stale" \in torn'
  BY DEF Final
<1> QED
  BY <1>1, <1>2, <1>3 DEF Sound

\* What a transaction leaves out is as ownership.json goes on to say, if that
\* was not changed by the recovery after it was read.
LEMMA FinishedAgrees ==
  ASSUME Types, FilesInv, pc = "cleanup", Sound, ~Stale
  PROVE  AsOwned
<1>1. plan \in Plans /\ todo = <<>> /\ Started
  BY DEF Types, JournalOK, FilesInv, Phases, Started
<1>2. \A p \in Paths : Done(p)
  BY <1>1 DEF FilesInv, Progress
<1>3. files["current"] = installed /\ files["ownership"] = NewOwnership
  BY <1>2, Names DEF Done
<1>4. NewOwnership.version = installed
  BY DEF NewOwnership, NoOwnership, installed
<1>5. ASSUME NEW c \in ConfigNames PROVE files[c].block = NewOwnership.entries[c]
  <2>1. CASE c \in plan.chosen
    <3>1. files[c].block = Entry(c, installed)
      BY <1>2, <2>1, Names DEF Done
    <3>2. NewOwnership.entries[c] = Entry(c, installed)
      BY <2>1 DEF NewOwnership, NoOwnership, installed, Entry
    <3> QED
      BY <3>1, <3>2
  <2>2. CASE c \notin plan.chosen
    <3>1. ~Touched(journal.mutations, c) /\ Reaches(journal.mutations)
      BY <1>1, <2>2 DEF FilesInv, Chosen, Journalled
    <3>2. files[c].block = before[c]
      BY <3>1, Names DEF Reaches, Restored, Part
    <3>3. before[c] = before["ownership"].entries[c]
      BY <1>1 DEF FilesInv, Agreement, Agrees
    <3>4. plan.prior.entries[c] = before["ownership"].entries[c]
      BY <2>2 DEF Stale
    <3>5. NewOwnership.entries[c] = plan.prior.entries[c]
      <4>1. uninstalling => plan.prior.entries[c] = None
        BY <1>1, <2>2, PlanParts
      <4> QED
        BY <2>2, <4>1 DEF NewOwnership, NoOwnership
    <3> QED
      BY <3>2, <3>3, <3>4, <3>5
  <2> QED
    BY <2>1, <2>2
<1> QED
  BY <1>3, <1>4, <1>5 DEF AsOwned

\* A process that is gone: what a complete transaction did is all done.
LEMMA StopFiles ==
  ASSUME Types, FilesInv, pc # "idle", NEW how, Stop(how), UNCHANGED <<files, before>>
  PROVE  FilesInv'
<1> USE DEF FilesInv
<1>1. pc' = "idle" /\ ~Working' /\ ~Reversing'
  BY DEF Stop, Working, Reversing
<1>2. Phases'
  <2>1. journal' \in {journal, NoJournal} /\ journal'.phase # "complete"
    BY DEF Stop, NoJournal
  <2> QED
    BY <1>1, <2>1 DEF Phases, Started, NoJournal
<1>3. Journalled'
  <2>1. CASE journal' = journal
    BY <1>1, <2>1, ReachesKept DEF Journalled, Started
  <2>2. CASE journal' = NoJournal
    BY <1>1, <2>2 DEF Journalled, Started, NoJournal
  <2> QED
    BY <2>1, <2>2 DEF Stop
<1>4. Planned' /\ Progress' /\ Chosen'
  BY <1>1 DEF Planned, Progress, Chosen
<1>5. Agreement'
  <2>1. CASE journal.phase # "complete"
    BY <2>1 DEF Stop, Agreement, Sound, AsOwned, Started, Agrees
  <2>2. CASE journal.phase = "complete"
    <3>1. journal' = NoJournal /\ Final
      BY <2>2 DEF Stop
    <3>2. ASSUME Sound' PROVE AsOwned
      <4>1. pc = "cleanup" /\ Sound /\ ~Stale
        BY <2>2, <3>1, <3>2, FinalIs DEF Phases, Types, JournalOK
      <4> QED
        BY <4>1, FinishedAgrees
    <3> QED
      BY <3>1, <3>2 DEF Agreement, AsOwned, Started, NoJournal
  <2> QED
    BY <2>1, <2>2
<1> QED
  BY <1>2, <1>3, <1>4, <1>5

\* A rollback begins with everything that was changed still in the journal.
LEMMA RollbackFiles ==
  ASSUME Types, FilesInv, Started, pc' = "rollback", undo' = Reverse(journal.mutations),
         UNCHANGED <<diskVars, plan, todo, outcome, historyVars>>
  PROVE  FilesInv'
<1> USE DEF FilesInv, diskVars, historyVars
<1>1. ~Working' /\ pc' # "cleanup" /\ Started'
  BY DEF Working, Started
<1>2. Phases'
  BY <1>1 DEF Phases, Started
<1>3. Journalled'
  <2>1. journal.mutations \in Seq(Changes) /\ Reaches(journal.mutations)
    BY DEF Types, JournalOK, Journalled
  <2>2. PICK s, r : s = journal.mutations /\ r = Reverse(journal.mutations)
    OBVIOUS
  <2>3. Reaches(s)' /\ Reaches(r)'
    BY <2>1, <2>2, ReversedReaches, ReachesKept
  <2>4. journal.mutations' = s /\ undo' = r
    BY <2>2
  <2>5. \A i \in 1 .. Len(r) : Touched(s, r[i].path)
    BY <2>1, <2>2, ReversedTouches DEF Touched
  <2>6. \A i \in 1 .. Len(r) : Touched(s, r[i].path)'
    BY <2>5 DEF Touched
  <2> QED
    BY <2>3, <2>4, <2>6 DEF Journalled
<1>4. Planned' /\ Progress' /\ Chosen' /\ Agreement'
  BY <1>1 DEF Planned, Progress, Chosen, Agreement, Sound, AsOwned, Agrees, Started
<1> QED
  BY <1>2, <1>3, <1>4

\* Reversing the latest change brings its path back, and no other.
LEMMA ReverseFiles ==
  ASSUME Types, FilesInv, Looked, ReverseOne \/ RestoreFile
  PROVE  FilesInv'
<1> USE DEF FilesInv
<1> DEFINE m == Head(undo)
           now == State(m.path, m.version)
<1>1. /\ undo \in Seq(Changes) /\ undo # <<>> /\ pc \in {"recover", "rollback"} /\ Reversing
      /\ UNCHANGED before
  BY DEF Types, JournalOK, ReverseOne, RestoreFile, Reverting, Reversing
<1>2. /\ m \in Changes /\ m = undo[1] /\ Len(undo) \in Nat /\ Len(undo) >= 1
      /\ Tail(undo) \in Seq(Changes) /\ Len(Tail(undo)) = Len(undo) - 1
      /\ \A i \in 1 .. Len(undo) - 1 : Tail(undo)[i] = undo[i + 1]
  BY <1>1, Rest
<1>3. Started /\ Reaches(undo)
  BY <1>1 DEF Phases, Journalled
<1>4. FromBefore(m) /\ \A i \in 1 .. Len(Tail(undo)) : FromBefore(Tail(undo)[i])
  <2>1. \A i \in 1 .. Len(undo) : FromBefore(undo[i])
    BY <1>3 DEF Reaches
  <2>2. \A i \in 1 .. Len(undo) - 1 : i + 1 \in 1 .. Len(undo)
    BY <1>2
  <2> QED
    BY <1>2, <2>1, <2>2
<1>5. ASSUME NEW p \in Paths, ~Touched(Tail(undo), p), p # m.path PROVE Restored(p)
  <2>1. ASSUME NEW i \in 1 .. Len(undo), undo[i].path = p PROVE FALSE
    <3>1. i # 1
      BY <1>2, <1>5, <2>1
    <3>2. i - 1 \in 1 .. Len(Tail(undo)) /\ Tail(undo)[i - 1] = undo[i]
      BY <1>2, <3>1
    <3> QED
      BY <1>5, <2>1, <3>2 DEF Touched
  <2> QED
    BY <1>3, <2>1 DEF Reaches, Touched
<1>6. CASE Stop("stuck") /\ UNCHANGED <<files, versions, versions_dir>>
  BY <1>1, <1>6, StopFiles
<1>7. CASE UNCHANGED <<files, journal, pc, plan, todo, undo, torn>>
  BY <1>1, <1>7, FilesKept
<1>8. CASE /\ ~(Stop("stuck") /\ UNCHANGED <<files, versions, versions_dir>>)
           /\ ~UNCHANGED <<files, journal, pc, plan, todo, undo, torn>>
  <2>1. UNCHANGED <<pc, plan, todo, outcome, journal, torn>>
    BY <1>8 DEF ReverseOne, RestoreFile, Restore, Undone
  <2>2. \/ UNCHANGED files /\ m.path \notin Paths /\ undo' = Tail(undo)
        \/ UNCHANGED files /\ m.path \in Paths /\ undo' = Tail(undo) /\ files[m.path] = m.pre
        \/ m.path \in Paths /\ files' = [files EXCEPT ![m.path] = m.pre] /\ undo' = Tail(undo)
        \/ /\ m.path = "current" /\ files' = [files EXCEPT !["current"] = None]
           /\ undo' = <<[m EXCEPT !.post = None]>> \o Tail(undo)
    <3>1. CASE RestoreFile
      <4>1. m.path \in Paths
        BY <1>1, <3>1, Names DEF RestoreFile, Looked
      <4> QED
        BY <3>1, <4>1 DEF RestoreFile, Replace, Undone
    <3>2. CASE ReverseOne /\ Restore(m)
      BY <3>2, Names DEF Restore, Undone
    <3>3. CASE ReverseOne /\ Undone /\ UNCHANGED files /\ now = m.pre
      BY <3>3 DEF Undone, State
    <3> QED
      BY <1>8, <3>1, <3>2, <3>3 DEF ReverseOne
  <2>3. files \in [Paths -> States]
    BY DEF Types, FilesOK
  <2>4. m.path \in Paths => Part(m.path, m.pre) = before[m.path]
    BY <1>4 DEF FromBefore
  <2>5. Reaches(undo)'
    <3>1. CASE /\ undo' = Tail(undo)
               /\ \/ UNCHANGED files /\ m.path \notin Paths
                  \/ UNCHANGED files /\ m.path \in Paths /\ files[m.path] = m.pre
                  \/ m.path \in Paths /\ files' = [files EXCEPT ![m.path] = m.pre]
      <4>1. PICK s : s = Tail(undo)
        OBVIOUS
      <4>2. ASSUME NEW p \in Paths, ~Touched(s, p) PROVE Restored(p)'
        <5>1. CASE p # m.path
          <6>1. files'[p] = files[p]
            BY <2>3, <3>1, <5>1
          <6> QED
            BY <1>1, <1>5, <4>1, <4>2, <5>1, <6>1 DEF Restored
        <5>2. CASE p = m.path
          <6>1. files'[p] = m.pre
            BY <2>3, <3>1, <5>2
          <6> QED
            BY <1>1, <2>4, <5>2, <6>1 DEF Restored
        <5> QED
          BY <5>1, <5>2
      <4>3. \A i \in 1 .. Len(s) : FromBefore(s[i])'
        BY <1>1, <1>4, <4>1 DEF FromBefore
      <4>4. Reaches(s)'
        BY <1>1, <4>2, <4>3 DEF Reaches, Touched
      <4> QED
        BY <3>1, <4>1, <4>4
    <3>2. CASE /\ m.path = "current" /\ files' = [files EXCEPT !["current"] = None]
               /\ undo' = <<[m EXCEPT !.post = None]>> \o Tail(undo)
      <4>1. PICK e : e = [m EXCEPT !.post = None]
        OBVIOUS
      <4>2. e.path = m.path /\ e.pre = m.pre
        BY <1>2, <4>1 DEF Changes
      <4>3. PICK s : s = <<e>> \o Tail(undo)
        OBVIOUS
      <4>4. /\ Len(s) = Len(undo) /\ s[1] = e
            /\ \A i \in 2 .. Len(undo) : s[i] = undo[i]
        BY <1>1, <4>3, Exchanged
      <4>5. \A i \in 1 .. Len(s) : FromBefore(s[i])
        <5>1. FromBefore(e)
          BY <1>4, <4>2 DEF FromBefore
        <5>2. \A i \in 2 .. Len(undo) : FromBefore(undo[i])
          BY <1>2, <1>3 DEF Reaches
        <5> QED
          BY <1>2, <4>4, <5>1, <5>2
      <4>6. ASSUME NEW p \in Paths, ~Touched(s, p) PROVE Restored(p)'
        <5>1. p # "current"
          <6>1. 1 \in 1 .. Len(s)
            BY <1>2, <4>4
          <6> QED
            BY <3>2, <4>2, <4>4, <4>6, <6>1 DEF Touched
        <5>2. ~Touched(Tail(undo), p)
          <6> SUFFICES ASSUME NEW i \in 1 .. Len(Tail(undo)), Tail(undo)[i].path = p PROVE FALSE
            BY DEF Touched
          <6>1. i + 1 \in 1 .. Len(s) /\ i + 1 \in 2 .. Len(undo) /\ undo[i + 1] = Tail(undo)[i]
            BY <1>2, <4>4
          <6> QED
            BY <4>4, <4>6, <6>1 DEF Touched
        <5>3. Restored(p)
          BY <1>5, <3>2, <5>1, <5>2
        <5>4. files'[p] = files[p]
          BY <2>3, <3>2, <5>1
        <5> QED
          BY <1>1, <5>3, <5>4 DEF Restored
      <4>7. \A i \in 1 .. Len(s) : FromBefore(s[i])'
        BY <1>1, <4>5 DEF FromBefore
      <4>8. Reaches(s)'
        BY <1>1, <4>6, <4>7 DEF Reaches, Touched
      <4> QED
        BY <3>2, <4>1, <4>3, <4>8
    <3> QED
      BY <2>2, <3>1, <3>2
  <2>6. Touched(journal.mutations, m.path)
    <3>1. 1 \in 1 .. Len(undo)
      BY <1>2
    <3> QED
      BY <1>1, <1>2, <1>3, <3>1 DEF Journalled
  <2>7. Reaches(journal.mutations)'
    <3>1. Reaches(journal.mutations) /\ journal' = journal
      BY <1>3, <2>1 DEF Journalled
    <3>2. PICK s : s = journal.mutations
      OBVIOUS
    <3>3. ASSUME NEW p \in Paths, ~Touched(s, p) PROVE Restored(p)'
      <4>1. p # m.path
        BY <2>6, <3>2, <3>3
      <4>2. files'[p] = files[p]
        BY <2>2, <2>3, <4>1
      <4> QED
        BY <1>1, <3>1, <3>2, <3>3, <4>2 DEF Reaches, Restored
    <3>4. \A i \in 1 .. Len(s) : FromBefore(s[i])'
      BY <1>1, <3>1, <3>2 DEF Reaches, FromBefore
    <3>5. Reaches(s)'
      BY <1>1, <3>3, <3>4 DEF Reaches, Touched
    <3> QED
      BY <3>1, <3>2, <3>5
  <2>8. \A i \in 1 .. Len(undo') : Touched(journal.mutations, undo'[i].path)
    <3>1. \A i \in 1 .. Len(undo) : Touched(journal.mutations, undo[i].path)
      BY <1>1, <1>3 DEF Journalled
    <3>2. CASE undo' = Tail(undo)
      <4>1. \A i \in 1 .. Len(undo) - 1 : i + 1 \in 1 .. Len(undo)
        BY <1>2
      <4> QED
        BY <1>2, <3>1, <3>2, <4>1
    <3>3. CASE undo' = <<[m EXCEPT !.post = None]>> \o Tail(undo)
      <4>1. PICK e : e = [m EXCEPT !.post = None]
        OBVIOUS
      <4>2. e.path = m.path
        BY <1>2, <4>1 DEF Changes
      <4>3. PICK s : s = <<e>> \o Tail(undo)
        OBVIOUS
      <4>4. /\ Len(s) = Len(undo) /\ s[1] = e
            /\ \A i \in 2 .. Len(undo) : s[i] = undo[i]
        BY <1>1, <4>3, Exchanged
      <4>5. \A i \in 1 .. Len(s) : Touched(journal.mutations, s[i].path)
        BY <1>2, <2>6, <3>1, <4>2, <4>4
      <4> QED
        BY <3>3, <4>1, <4>3, <4>5
    <3> QED
      BY <2>2, <3>2, <3>3
  <2>9. Journalled'
    <3>1. \A i \in 1 .. Len(undo)' : Touched(journal.mutations, undo[i].path)'
      BY <2>1, <2>8 DEF Touched
    <3> QED
      BY <2>5, <2>7, <3>1 DEF Journalled
  <2>10. Phases'
    BY <1>1, <1>3, <2>1 DEF Phases, Started
  <2>11. Planned' /\ Progress' /\ Chosen'
    BY <1>1, <2>1 DEF Planned, Progress, Chosen, Working
  <2>12. Agreement'
    BY <1>1, <1>3, <2>1 DEF Agreement, Sound, Agrees, Started
  <2> QED
    BY <2>9, <2>10, <2>11, <2>12
<1> QED
  BY <1>6, <1>7, <1>8

\* With nothing to reverse everything is as it was.
LEMMA NothingToReverse ==
  ASSUME NEW changes, changes = <<>>
  PROVE  Reaches(changes) <=> \A p \in Paths : Restored(p)
<1>1. Len(changes) = 0
  OBVIOUS
<1> QED
  BY <1>1 DEF Reaches, Touched

LEMMA FilesInit == Init => FilesInv
<1> SUFFICES ASSUME Init PROVE FilesInv
  OBVIOUS
<1>1. /\ pc = "idle" /\ journal = NoJournal /\ undo = <<>> /\ todo = <<>> /\ ~Started
  BY DEF Init, Started, NoJournal
<1>2. /\ \A c \in ConfigNames : files[c] = [user |-> 0, block |-> None]
      /\ files["current"] = None /\ files["ownership"] = NoOwnership
  BY Names DEF Init
<1>3. Phases /\ Planned /\ Progress /\ Chosen /\ Journalled
  BY <1>1 DEF Phases, Planned, Progress, Chosen, Journalled, Working, NoJournal
<1>4. AsOwned
  BY <1>2 DEF AsOwned, NoOwnership
<1> QED
  BY <1>1, <1>3, <1>4 DEF FilesInv, Agreement

LEMMA BeginFiles ==
  ASSUME Types, FilesInv, NEW command \in Commands, NEW v \in Versions, NEW chosen,
         Begin(command, v, chosen)
  PROVE  FilesInv'
<1> USE DEF FilesInv
<1>1. /\ pc = "idle"
      /\ UNCHANGED <<files, journal, todo, before, torn>>
  BY DEF Begin, historyVars
<1>2. CASE UNCHANGED <<pc, plan, undo>>
  BY <1>1, <1>2, FilesKept
<1>3. CASE ~UNCHANGED <<pc, plan, undo>>
  <2>1. pc' = "recover" /\ undo' = Reverse(journal.mutations) /\ ~Working'
    BY <1>3 DEF Begin, Working
  <2>2. journal.mutations \in Seq(Changes)
    BY DEF Types, JournalOK
  <2>3. Agreement' /\ Planned' /\ Progress' /\ Chosen'
    BY <1>1, <2>1
       DEF Agreement, Sound, AsOwned, Agrees, Started, Planned, Progress, Chosen
  <2>4. ~Started => undo' = <<>>
    <3>1. ASSUME ~Started PROVE Len(undo') = 0 /\ undo' \in Seq(Changes)
      <4>1. Len(journal.mutations) = 0
        BY <3>1 DEF Phases
      <4> QED
        BY <2>1, <2>2, <4>1, Reversed
    <3> QED
      BY <3>1
  <2>5. Phases'
    BY <1>1, <2>1, <2>4 DEF Phases, Started
  <2>6. Journalled'
    <3>1. PICK s, r : s = journal.mutations /\ r = Reverse(journal.mutations)
      OBVIOUS
    <3>2. Started => Reaches(s)' /\ Reaches(r)'
      BY <1>1, <2>2, <3>1, ReversedReaches, ReachesKept DEF Journalled
    <3>3. \A i \in 1 .. Len(r) : Touched(s, r[i].path)
      BY <2>2, <3>1, ReversedTouches DEF Touched
    <3>4. \A i \in 1 .. Len(r) : Touched(s, r[i].path)'
      BY <3>3 DEF Touched
    <3>5. journal' = journal /\ journal.mutations = s /\ undo' = r
      BY <1>1, <2>1, <3>1
    <3> QED
      BY <3>2, <3>4, <3>5 DEF Journalled, Started
  <2> QED
    BY <2>3, <2>5, <2>6
<1> QED
  BY <1>2, <1>3

LEMMA RecoveredFiles == ASSUME Types, FilesInv, RecoverDone \/ RollbackDone PROVE FilesInv'
<1> USE DEF FilesInv
<1>1. /\ UNCHANGED files /\ undo = <<>> /\ Reversing
      /\ pc' \in {"idle", "capture"} /\ journal'.mutations = <<>>
  BY DEF RecoverDone, RollbackDone, NoJournal, Reversing
<1>2. Started => \A p \in Paths : Restored(p)
  BY <1>1, NothingToReverse DEF Journalled
<1>3. ~Working' /\ ~Reversing'
  BY <1>1 DEF Working, Reversing
<1>4. Planned' /\ Progress' /\ Chosen'
  BY <1>1, <1>3 DEF Planned, Progress, Chosen
<1>5. Sound => AsOwned
  <2>1. ASSUME Started, Sound PROVE AsOwned
    <3>1. \A p \in Paths : Part(p, files[p]) = before[p]
      BY <1>2, <2>1 DEF Restored
    <3>2. Agrees(before)
      BY <2>1 DEF Agreement
    <3> QED
      BY <3>1, <3>2, AgreesIs DEF AsOwned
  <2> QED
    BY <2>1 DEF Agreement
<1>6. CASE RecoverDone
  <2>1. /\ before' = ours /\ Started' /\ torn \subseteq torn' /\ pc' = "capture"
        /\ todo' = Steps(plan.command) /\ plan' = plan /\ journal'.phase = "open"
    BY <1>6 DEF RecoverDone, Started
  <2>2. Phases'
    BY <1>1, <2>1 DEF Phases, Started, Steps
  <2>3. \A p \in Paths : Part(p, files'[p]) = before'[p]
    BY <1>1, <2>1 DEF ours
  <2>4. Journalled'
    <3>1. PICK s : s = <<>>
      OBVIOUS
    <3>2. Reaches(s)'
      <4>1. Len(s) = 0
        BY <3>1
      <4> QED
        BY <2>3, <4>1 DEF Reaches, Restored
    <3> QED
      BY <1>1, <1>3, <3>1, <3>2 DEF Journalled
  <2>5. Agreement'
    <3>1. Sound' => AsOwned
      BY <1>5, <2>1 DEF Sound
    <3>2. PICK f, b : f = files' /\ b = before'
      OBVIOUS
    <3>3. AsOwned <=> /\ f["current"] = f["ownership"].version
                      /\ \A c \in ConfigNames : f[c].block = f["ownership"].entries[c]
      BY <1>1, <3>2 DEF AsOwned
    <3>4. \A p \in Paths : Part(p, f[p]) = b[p]
      BY <2>3, <3>2
    <3>5. Sound' => Agrees(b)
      BY <3>1, <3>3, <3>4, AgreesIs
    <3> QED
      BY <2>1, <3>2, <3>5 DEF Agreement, Agrees
  <2> QED
    BY <1>4, <2>2, <2>4, <2>5
<1>7. CASE RollbackDone
  <2>1. pc' = "idle" /\ ~Started' /\ UNCHANGED torn
    BY <1>7 DEF RollbackDone, Started, NoJournal, historyVars
  <2>2. Phases' /\ Journalled'
    BY <1>1, <2>1 DEF Phases, Journalled, Started
  <2>3. Agreement'
    BY <1>1, <1>5, <2>1 DEF Agreement, AsOwned, Sound
  <2> QED
    BY <1>4, <2>2, <2>3
<1> QED
  BY <1>6, <1>7

LEMMA CaptureFiles == ASSUME Types, FilesInv, Capture PROVE FilesInv'
<1> USE DEF FilesInv
<1>1. pc = "capture" /\ Started /\ journal.mutations = <<>> /\ todo = Steps(plan.command)
  BY DEF Capture, Phases, Started
<1>2. CASE Fail
  BY <1>1, <1>2, RollbackFiles DEF Fail
<1>3. CASE /\ \A c \in plan.chosen : AsPlanned(c)
           /\ pc' = "record"
           /\ UNCHANGED <<diskVars, plan, todo, undo, checked, outcome, historyVars, spent>>
  <2> USE DEF diskVars, historyVars
  <2>1. plan \in Plans /\ plan.command \in Commands /\ plan.chosen \in SUBSET ConfigNames
    BY <1>1, PlanParts DEF Types, JournalOK
  <2>2. /\ \A i, j \in 1 .. Len(todo) : todo[i] = todo[j] => i = j
        /\ \A p \in Paths : \E i \in 1 .. Len(todo) : todo[i] = p
    BY <1>1, <2>1, StepsAre
  <2>3. \A p \in Paths : Restored(p)
    BY <1>1, NothingToReverse DEF Journalled
  <2>4. \A c \in plan.chosen : plan.expected[c].block = before[c]
    BY <1>3, <2>1, <2>3, Names DEF AsPlanned, Restored, Part
  <2>5. \A p : ~Touched(journal.mutations, p)'
    BY <1>1, <1>3 DEF Touched
  <2>6. Planned' /\ Chosen'
    BY <1>3, <2>2, <2>4, <2>5 DEF Planned, Chosen
  <2>7. Progress'
    BY <1>3, <2>2 DEF Progress
  <2>8. Phases' /\ Journalled'
    BY <1>1, <1>3, ReachesKept DEF Phases, Journalled, Started, Reversing
  <2>9. Agreement'
    BY <1>3 DEF Agreement, Sound, AsOwned, Agrees, Started
  <2> QED
    BY <2>6, <2>7, <2>8, <2>9
<1> QED
  BY <1>2, <1>3 DEF Capture

\* What a change appended to the journal does to the paths it touches.
LEMMA AppendTouches ==
  ASSUME NEW changes \in Seq(Changes), NEW m \in Changes, NEW p
  PROVE  Touched(Append(changes, m), p) <=> Touched(changes, p) \/ m.path = p
<1>1. /\ Len(changes) \in Nat /\ Len(Append(changes, m)) = Len(changes) + 1
      /\ Append(changes, m)[Len(changes) + 1] = m
      /\ \A i \in 1 .. Len(changes) : Append(changes, m)[i] = changes[i]
  BY Appended
<1>2. ASSUME NEW i \in 1 .. Len(changes), changes[i].path = p
      PROVE  Touched(Append(changes, m), p)
  <2>1. i \in 1 .. Len(Append(changes, m))
    BY <1>1
  <2> QED
    BY <1>1, <1>2, <2>1 DEF Touched
<1>3. ASSUME m.path = p PROVE Touched(Append(changes, m), p)
  <2>1. Len(changes) + 1 \in 1 .. Len(Append(changes, m))
    BY <1>1
  <2> QED
    BY <1>1, <1>3, <2>1 DEF Touched
<1>4. ASSUME NEW i \in 1 .. Len(Append(changes, m)), Append(changes, m)[i].path = p
      PROVE  Touched(changes, p) \/ m.path = p
  <2>1. i \in 1 .. Len(changes) \/ i = Len(changes) + 1
    BY <1>1
  <2> QED
    BY <1>1, <1>4, <2>1 DEF Touched
<1> QED
  BY <1>2, <1>3, <1>4 DEF Touched

\* Going on to the next path: the one at hand is done, the others stay so.
LEMMA PassedOn ==
  ASSUME Types, FilesInv, Working, todo # <<>>, todo' = Tail(todo), pc' = "record",
         pc = "publish" \/ Head(todo) \notin Paths \/ Head(todo) \in ConfigNames,
         UNCHANGED <<journal, plan, before>>,
         \A p \in Paths : Done(p) /\ p # Head(todo) => Done(p)',
         \A p \in Paths : p = Head(todo) => Done(p)'
  PROVE  Planned' /\ Chosen' /\ Progress'
<1>1. todo \in Seq(Paths \cup Directories)
  BY DEF Types, JournalOK
<1>2. /\ Head(todo) = todo[1] /\ Len(todo) \in Nat /\ Len(todo) >= 1
      /\ Len(Tail(todo)) = Len(todo) - 1
      /\ \A i \in 1 .. Len(todo) - 1 : Tail(todo)[i] = todo[i + 1] /\ i + 1 \in 1 .. Len(todo)
  BY <1>1, Rest
<1>3. /\ \A c \in plan.chosen : plan.expected[c].block = before[c]
      /\ \A i, j \in 1 .. Len(todo) : todo[i] = todo[j] => i = j
      /\ \A i \in 1 .. Len(todo) : i > 1 => ~Touched(journal.mutations, todo[i])
  BY DEF FilesInv, Planned
<1>4. Planned'
  <2>1. \A i, j \in 1 .. Len(todo') : todo'[i] = todo'[j] => i = j
    BY <1>2, <1>3
  <2>2. \A i \in 1 .. Len(todo') : ~Touched(journal.mutations, todo'[i])
    BY <1>2, <1>3
  <2>3. \A i \in 1 .. Len(todo)' : ~Touched(journal.mutations, todo[i])'
    BY <2>2 DEF Touched
  <2> QED
    BY <1>3, <2>1, <2>3 DEF Planned
<1>5. Chosen'
  BY DEF FilesInv, Chosen, Touched
<1>6. Progress'
  <2>1. ASSUME NEW p \in Paths, NEW i \in 1 .. Len(todo), todo[i] = p, p # Head(todo)
        PROVE  \E j \in 1 .. Len(todo') : todo'[j] = p
    <3>1. i # 1
      BY <1>2, <2>1
    <3>2. i - 1 \in 1 .. Len(todo) - 1 /\ Tail(todo)[i - 1] = todo[i]
      BY <1>2, <3>1
    <3> QED
      BY <1>2, <2>1, <3>2
  <2>2. \A p \in Paths : Done(p) \/ \E i \in 1 .. Len(todo) : todo[i] = p
    BY DEF FilesInv, Progress
  <2>3. ASSUME NEW p \in Paths PROVE Done(p)' \/ \E j \in 1 .. Len(todo') : todo'[j] = p
    BY <2>1, <2>2
  <2> QED
    BY <2>3 DEF Progress
<1> QED
  BY <1>4, <1>5, <1>6

LEMMA RecordFiles ==
  ASSUME Types, FilesInv, DirectoryFirst, Record
  PROVE  FilesInv'
<1> USE DEF FilesInv
<1> DEFINE path == Head(todo)
<1>1. /\ todo \in Seq(Paths \cup Directories) /\ todo # <<>> /\ pc = "record"
      /\ plan \in Plans /\ plan.chosen \in SUBSET ConfigNames
      /\ Started /\ Working /\ journal.phase = "open" /\ journal.mutations \in Seq(Changes)
  BY PlanParts DEF Record, Types, JournalOK, Phases, Started, Working
<1>2. /\ path = todo[1] /\ path \in Paths \cup Directories /\ Len(todo) \in Nat /\ Len(todo) >= 1
  BY <1>1, Rest
<1>3. /\ \A c \in plan.chosen : plan.expected[c].block = before[c]
      /\ \A i, j \in 1 .. Len(todo) : todo[i] = todo[j] => i = j
      /\ \A i \in 1 .. Len(todo) : ~Touched(journal.mutations, todo[i])
  BY <1>1 DEF Planned
<1>4. \A p \in Paths : Done(p) \/ \E i \in 1 .. Len(todo) : todo[i] = p
  BY <1>1 DEF Progress
<1>5. CASE Fail
  BY <1>1, <1>5, RollbackFiles DEF Fail
<1>6. CASE path \in ConfigNames \ plan.chosen \/ (path = "version" /\ ~plan.staged)
  <2>1. CASE Fail
    BY <1>5, <2>1
  <2>2. CASE ~Fail
    <3>1. /\ todo' = Tail(todo) /\ pc' = "record"
          /\ UNCHANGED <<files, journal, pc, plan, undo, before, torn>>
      BY <1>1, <1>6, <2>2, Names DEF Record, diskVars, historyVars
    <3>2. path \in ConfigNames \/ path \notin Paths
      BY <1>6, Names
    <3>3. \A p \in Paths : p = path => Done(p)
      BY <1>6, <1>1, Names DEF Done
    <3>4. \A p \in Paths : Done(p) => Done(p)'
      BY <3>1, DoneKept
    <3>5. Planned' /\ Chosen' /\ Progress'
      BY <1>1, <3>1, <3>2, <3>3, <3>4, PassedOn
    <3>6. Phases' /\ Journalled'
      BY <1>1, <3>1, ReachesKept DEF Phases, Journalled, Started, Reversing
    <3>7. Agreement'
      BY <3>1 DEF Agreement, Sound, AsOwned, Agrees, Started
    <3> QED
      BY <3>5, <3>6, <3>7
  <2> QED
    BY <2>1, <2>2
<1>7. CASE /\ ~Fail /\ ~(path = "version" /\ ~plan.staged)
           /\ path \notin ConfigNames \ plan.chosen
  <2> DEFINE m == Mutation(path)
  <2>1. /\ path = "version" => plan.staged /\ versions[plan.version] = "absent"
        /\ journal' = [journal EXCEPT !.mutations = Append(journal.mutations, m)]
        /\ pc' = "publish"
        /\ UNCHANGED <<files, plan, todo, undo, before, torn>>
    BY <1>7 DEF Record, historyVars
  <2>2. path = "versions" => versions_dir
    <3>1. 1 \in 1 .. Len(todo)
      BY <1>2
    <3> QED
      BY <1>1, <1>2, <3>1 DEF DirectoryFirst, Directories
  <2>3. m \in Changes /\ m.path = path
    BY <1>1, <1>2, <2>1, <2>2, MutationIs
  <2>4. PICK s : s = Append(journal.mutations, m)
    OBVIOUS
  <2>5. \A p : Touched(s, p) <=> Touched(journal.mutations, p) \/ p = path
    BY <1>1, <2>3, <2>4, AppendTouches
  <2>6. journal'.mutations = s /\ journal'.phase = "open"
    BY <1>1, <2>1, <2>4 DEF Types, JournalOK
  <2>7. FromBefore(m)
    <3>1. CASE path \in ConfigNames
      <4>1. m.pre = plan.expected[path] /\ path \in plan.chosen
        BY <1>7, <3>1 DEF Mutation
      <4>2. Part(path, m.pre) = before[path]
        BY <1>3, <3>1, <4>1 DEF Part
      <4> QED
        BY <2>3, <4>2 DEF FromBefore
    <3>2. CASE path \in {"current", "ownership"}
      <4>1. m.pre = files[path]
        BY <3>2, Names DEF Mutation, State
      <4>2. Restored(path)
        <5>1. 1 \in 1 .. Len(todo)
          BY <1>2
        <5>2. ~Touched(journal.mutations, path)
          BY <1>2, <1>3, <5>1
        <5> QED
          BY <1>1, <3>2, <5>2, Names DEF Journalled, Reaches
      <4> QED
        BY <2>3, <4>1, <4>2 DEF FromBefore, Restored
    <3>3. CASE path \in Directories
      BY <2>3, <3>3, Names DEF FromBefore, Directories
    <3> QED
      BY <1>2, <3>1, <3>2, <3>3, Names
  <2>8. Journalled'
    <3>1. /\ Len(journal.mutations) \in Nat /\ Len(s) = Len(journal.mutations) + 1
          /\ s[Len(journal.mutations) + 1] = m
          /\ \A i \in 1 .. Len(journal.mutations) : s[i] = journal.mutations[i]
      BY <1>1, <2>3, <2>4, Appended
    <3>2. ASSUME NEW i \in 1 .. Len(s) PROVE FromBefore(s[i])
      <4>1. i \in 1 .. Len(journal.mutations) \/ i = Len(journal.mutations) + 1
        BY <3>1
      <4> QED
        BY <1>1, <2>7, <3>1, <4>1 DEF Journalled, Reaches
    <3>3. \A p \in Paths : ~Touched(s, p) => Restored(p)
      BY <1>1, <2>5 DEF Journalled, Reaches
    <3>4. Reaches(s)'
      BY <2>1, <3>2, <3>3, ReachesKept DEF Reaches
    <3> QED
      BY <2>1, <2>6, <3>4 DEF Journalled, Reversing
  <2>9. Phases'
    <3>1. Touched(s, path) /\ path' = path
      BY <2>1, <2>5
    <3>2. Touched(s, path)'
      BY <3>1 DEF Touched
    <3> QED
      BY <1>1, <2>1, <2>6, <3>2 DEF Phases, Started
  <2>10. Planned'
    <3>1. ASSUME NEW i \in 1 .. Len(todo), i > 1 PROVE ~Touched(s, todo[i])
      <4>1. 1 \in 1 .. Len(todo) /\ todo[i] # todo[1]
        BY <1>2, <1>3, <3>1
      <4> QED
        BY <1>2, <1>3, <2>5, <4>1
    <3>2. \A i \in 1 .. Len(todo) : i > 1 => ~Touched(s, todo[i])'
      BY <2>1, <3>1 DEF Touched
    <3> QED
      BY <1>3, <2>1, <2>6, <3>2 DEF Planned
  <2>11. Chosen'
    <3>1. \A c \in ConfigNames \ plan.chosen : ~Touched(s, c)
      BY <1>1, <1>7, <2>5 DEF Chosen
    <3>2. \A c \in ConfigNames \ plan.chosen : ~Touched(s, c)'
      BY <3>1 DEF Touched
    <3> QED
      BY <2>1, <2>6, <3>2 DEF Chosen
  <2>12. Agreement' /\ Progress'
    BY <1>1, <1>4, <2>1, <2>6, DoneKept DEF Agreement, Sound, AsOwned, Agrees, Progress, Started
  <2> QED
    BY <2>8, <2>9, <2>10, <2>11, <2>12
<1> QED
  BY <1>5, <1>6, <1>7

\* After the directory the files are as they were.
LEMMA PublishDirectoryFiles == ASSUME Types, FilesInv, PublishDirectory PROVE FilesInv'
<1> USE DEF FilesInv
<1>1. /\ pc = "publish" /\ Head(todo) \notin Paths /\ todo' = Tail(todo) /\ pc' = "record"
      /\ UNCHANGED <<files, journal, plan, undo, before, torn>>
  BY DEF PublishDirectory, Published, historyVars
<1>2. todo # <<>> /\ Working /\ Started /\ journal.phase = "open"
  BY <1>1 DEF Phases, Working, Started
<1>3. Phases' /\ Journalled' /\ Agreement'
  BY <1>1, <1>2, ReachesKept
     DEF Phases, Journalled, Started, Reversing, Agreement, Sound, AsOwned, Agrees
<1>4. \A p \in Paths : Done(p) => Done(p)'
  BY <1>1, DoneKept
<1>5. Planned' /\ Chosen' /\ Progress'
  BY <1>1, <1>2, <1>4, PassedOn
<1> QED
  BY <1>3, <1>5

\* A file is changed as recorded, and no other.
LEMMA PublishFiles ==
  ASSUME Types, FilesInv, PublishPointer \/ PublishFile
  PROVE  FilesInv'
<1> USE DEF FilesInv
<1> DEFINE path == Head(todo)
           m == Mutation(path)
<1>1. /\ pc = "publish" /\ path \in Paths /\ pc' = "record" /\ todo' = Tail(todo)
      /\ files' = [files EXCEPT ![path] = m.post]
      /\ UNCHANGED <<journal, plan, undo, before, torn>>
  BY Names DEF PublishPointer, PublishFile, Replace, Published, historyVars
<1>2. /\ todo # <<>> /\ Working /\ plan \in Plans /\ Started /\ journal.phase = "open"
      /\ Touched(journal.mutations, path)
  BY <1>1 DEF Types, JournalOK, Phases, Working, Started
<1>3. files \in [Paths -> States] /\ files'[path] = m.post
  BY <1>1 DEF Types, FilesOK
<1>4. \A p \in Paths : p # path => files'[p] = files[p]
  BY <1>1, <1>3
<1>5. Journalled'
  <2>1. PICK s : s = journal.mutations
    OBVIOUS
  <2>2. Reaches(s) /\ Touched(s, path)
    BY <1>2, <2>1 DEF Journalled
  <2>3. ASSUME NEW p \in Paths, ~Touched(s, p) PROVE Restored(p)'
    <3>1. Restored(p)
      BY <2>2, <2>3 DEF Reaches
    <3>2. p # path
      BY <2>2, <2>3
    <3> QED
      BY <1>1, <1>4, <3>1, <3>2 DEF Restored
  <2>4. \A i \in 1 .. Len(s) : FromBefore(s[i])'
    BY <1>1, <2>2 DEF Reaches, FromBefore
  <2>5. Reaches(s)'
    BY <1>1, <2>3, <2>4 DEF Reaches, Touched
  <2> QED
    BY <1>1, <2>1, <2>5 DEF Journalled, Reversing
<1>6. \A p \in Paths : Done(p) /\ p # path => Done(p)'
  BY <1>1, <1>4 DEF Done, NewOwnership, installed, uninstalling
<1>7. PICK q : q = path
  OBVIOUS
<1>8. Done(q)'
  <2>1. q \in plan.chosen => m.post.block = Entry(q, installed)
    <3>1. ASSUME q \in plan.chosen PROVE q \in ConfigNames /\ plan.expected[q] \in Contents
      BY <1>2, <3>1, PlanParts
    <3> QED
      BY <1>7, <3>1 DEF Mutation, Contents
  <2>2. /\ q = "current" => m.post = installed
        /\ q = "ownership" => m.post = NewOwnership
    BY <1>7, Names DEF Mutation
  <2> QED
    BY <1>1, <1>3, <1>7, <2>1, <2>2 DEF Done, NewOwnership, installed, uninstalling
<1>9. Planned' /\ Chosen' /\ Progress'
  BY <1>1, <1>2, <1>6, <1>7, <1>8, PassedOn
<1>10. Phases' /\ Agreement'
  BY <1>1, <1>2 DEF Phases, Started, Agreement, Sound, Agrees
<1> QED
  BY <1>5, <1>9, <1>10

\* An edit of the user's leaves what is the installer's as it is.
LEMMA EditFiles == ASSUME Types, FilesInv, NEW c \in ConfigNames, UserEdit(c) PROVE FilesInv'
<1> USE DEF FilesInv
<1>1. /\ c \in Paths /\ files[c] \in Contents /\ files \in [Paths -> States]
  BY Names DEF Types, FilesOK, IsState
<1>2. /\ files' = [files EXCEPT ![c].user = edited[c] + 1]
      /\ UNCHANGED <<journal, pc, plan, todo, undo, before, torn>>
  BY DEF UserEdit
<1>3. /\ \A d \in ConfigNames : files'[d].block = files[d].block
      /\ \A p \in {"current", "ownership"} : files'[p] = files[p]
  BY <1>1, <1>2, Names DEF Contents
<1>4. \A p \in Paths : Restored(p)' <=> Restored(p)
  BY <1>2, <1>3, Names DEF Restored, Part
<1>5. ASSUME NEW s, Reaches(s) PROVE Reaches(s)'
  BY <1>2, <1>4, <1>5 DEF Reaches, FromBefore, Touched
<1>6. Journalled'
  <2>1. PICK s, r : s = journal.mutations /\ r = undo
    OBVIOUS
  <2>2. /\ Started => Reaches(s)'
        /\ Started /\ Reversing =>
              Reaches(r)' /\ \A i \in 1 .. Len(r) : Touched(s, r[i].path)'
    BY <1>5, <2>1 DEF Journalled, Touched
  <2>3. journal'.mutations = s /\ undo' = r
    BY <1>2, <2>1
  <2> QED
    BY <1>2, <2>2, <2>3 DEF Journalled, Started, Reversing
<1>7. Planned' /\ Chosen'
  BY <1>2 DEF Planned, Chosen, Working, Touched
<1>8. Progress'
  <2>1. ASSUME Working \/ pc = "cleanup" PROVE plan.chosen \in SUBSET ConfigNames
    BY <2>1, PlanParts DEF Working, Types, JournalOK
  <2>2. ASSUME Working \/ pc = "cleanup", NEW p \in Paths, Done(p) PROVE Done(p)'
    BY <1>2, <1>3, <2>1, <2>2 DEF Done, NewOwnership, installed, uninstalling
  <2> QED
    BY <1>2, <2>2 DEF Progress, Working
<1>9. Phases' /\ Agreement'
  BY <1>2, <1>3 DEF Phases, Started, Touched, Agreement, Sound, AsOwned, Agrees
<1> QED
  BY <1>6, <1>7, <1>8, <1>9

LEMMA FilesStep ==
  ASSUME Types, FilesInv, Looked, DirectoryFirst, [Next]_vars
  PROVE  FilesInv'
<1>1. ASSUME NEW command \in Commands, NEW v \in Versions, NEW chosen \in Selections \cup {owned},
             Begin(command, v, chosen)
      PROVE  FilesInv'
  BY <1>1, BeginFiles
<1>2. CASE ReverseOne \/ RestoreFile
  BY <1>2, ReverseFiles
<1>3. CASE RecoverDone \/ RollbackDone
  BY <1>3, RecoveredFiles
<1>4. CASE Capture
  BY <1>4, CaptureFiles
<1>5. CASE Record
  BY <1>5, RecordFiles
<1>6. CASE PublishDirectory
  BY <1>6, PublishDirectoryFiles
<1>7. CASE PublishPointer \/ PublishFile
  BY <1>7, PublishFiles
<1>8. CASE CheckFile /\ Fail
  <2>1. Started
    BY <1>8 DEF CheckFile, FilesInv, Phases, Started
  <2> QED
    BY <1>8, <2>1, RollbackFiles DEF Fail
<1>9. CASE Stage \/ (CheckFile /\ ~Fail) \/ UNCHANGED vars
  <2>1. UNCHANGED <<files, journal, pc, plan, todo, undo, before, torn>>
    BY <1>9 DEF Stage, CheckFile, vars, diskVars, processVars, historyVars
  <2> QED
    BY <2>1, FilesKept
<1>10. CASE Complete
  <2>1. /\ pc = "record" /\ pc' = "cleanup" /\ todo = <<>> /\ Working
        /\ journal'.mutations = journal.mutations /\ journal'.phase = "complete"
        /\ UNCHANGED <<files, plan, todo, undo, before, torn>>
    BY <1>10 DEF Complete, historyVars, Types, JournalOK, Working
  <2>2. Phases'
    BY <2>1 DEF FilesInv, Phases, Started
  <2>3. Journalled' /\ Planned'
    <3>1. Started /\ Reaches(journal.mutations)
      BY <2>1 DEF FilesInv, Phases, Started, Journalled
    <3>2. PICK s : s = journal.mutations
      OBVIOUS
    <3>3. Reaches(s)'
      BY <2>1, <3>1, <3>2, ReachesKept
    <3> QED
      BY <2>1, <3>2, <3>3 DEF Journalled, Planned, Working, Reversing
  <2>4. Progress' /\ Chosen'
    BY <2>1, DoneKept DEF FilesInv, Progress, Chosen, Touched
  <2>5. Agreement'
    BY <2>1 DEF FilesInv, Phases, Agreement, Sound, Agrees, Started
  <2> QED
    BY <2>2, <2>3, <2>4, <2>5 DEF FilesInv
<1>11. CASE Cleanup
  <2>1. /\ pc = "cleanup" /\ pc' = "idle" /\ journal' = NoJournal /\ Final
        /\ UNCHANGED files
    BY <1>11 DEF Cleanup
  <2>2. Phases' /\ Journalled' /\ Planned' /\ Progress' /\ Chosen'
    BY <2>1
       DEF FilesInv, Phases, Started, Journalled, Planned, Progress, Chosen, Working, NoJournal
  <2>3. Sound' => AsOwned
    BY <2>1, FinalIs, FinishedAgrees
  <2>4. Agreement'
    BY <2>1, <2>3 DEF Agreement, AsOwned, Started, NoJournal
  <2> QED
    BY <2>2, <2>4 DEF FilesInv
<1>12. CASE IOError
  <2>1. Started
    BY <1>12 DEF IOError, FilesInv, Phases, Started
  <2> QED
    BY <1>12, <2>1, RollbackFiles DEF IOError
<1>13. CASE Crash
  BY <1>13, StopFiles DEF Crash
<1>14. ASSUME NEW c \in ConfigNames, UserEdit(c) PROVE FilesInv'
  BY <1>14, EditFiles
<1> QED
  BY <1>1, <1>2, <1>3, <1>4, <1>5, <1>6, <1>7, <1>8, <1>9, <1>10, <1>11, <1>12, <1>13, <1>14
     DEF Next

-----------------------------------------------------------------------------
(* The directories, and what current points to *)

\* The journal's changes in the order of their reversal: the directory is last,
\* and they spare what the journal's changes spare.
LEMMA ReversedDirectories ==
  ASSUME NEW changes \in Seq(Changes),
         \A i \in 1 .. Len(changes) : changes[i].path \in Directories => i = 1
  PROVE  /\ \A i \in 1 .. Len(Reverse(changes)) :
                Reverse(changes)[i].path \in Directories => i = Len(Reverse(changes))
         /\ Spares(changes) => Spares(Reverse(changes))
<1>1. \A i \in 1 .. Len(changes) : Len(changes) - i + 1 = 1 => i = Len(changes)
  BY ReversedTouches
<1>2. \A i \in 1 .. Len(Reverse(changes)) :
          Reverse(changes)[i].path \in Directories => i = Len(Reverse(changes))
  BY <1>1, ReversedTouches
<1>3. Spares(changes) => Spares(Reverse(changes))
  BY ReversedTouches DEF Spares
<1> QED
  BY <1>2, <1>3

LEMMA DirectoriesInit == Init => DirectoriesInv
<1> SUFFICES ASSUME Init PROVE DirectoriesInv
  OBVIOUS
<1>1. /\ pc = "idle" /\ journal.mutations = <<>> /\ tombstone = NoVersions
      /\ versions = NoVersions /\ ~Started /\ files["current"] = None
  BY Names DEF Init, NoJournal, Started
<1>2. Len(journal.mutations) = 0
  BY <1>1
<1> QED
  BY <1>1, <1>2
     DEF DirectoriesInv, DirectoryFirst, Aside, Present, Standing, Dangles, Working, Reversing

\* A step that changes none of it keeps it.
LEMMA DirectoriesKept ==
  ASSUME DirectoriesInv,
         UNCHANGED <<versions, versions_dir, tombstone, journal, pc, plan, todo, undo, torn>>,
         files'["current"] = files["current"], before'["current"] = before["current"]
  PROVE  DirectoriesInv'
<1>1. DirectoryFirst'
  BY DEF DirectoriesInv, DirectoryFirst, Working, Reversing, uninstalling
<1>2. Aside'
  BY DEF DirectoriesInv, Aside, Touched, NoVersions
<1>3. Present'
  BY DEF DirectoriesInv, Present, Working, uninstalling, NoVersions
<1>4. Standing'
  BY DEF DirectoriesInv, Standing, Started, Backed, Spares, Reversing, Dangles
<1> QED
  BY <1>1, <1>2, <1>3, <1>4 DEF DirectoriesInv

\* A process that is gone: a complete transaction's version is there.
LEMMA StopDirectories ==
  ASSUME Types, FilesInv, DirectoriesInv, pc # "idle", NEW how, Stop(how),
         UNCHANGED <<files, versions, versions_dir, before>>
  PROVE  DirectoriesInv'
<1> USE DEF DirectoriesInv
<1>1. /\ pc' = "idle" /\ ~Working' /\ ~Reversing' /\ torn \subseteq torn'
      /\ \/ journal.phase # "complete" /\ UNCHANGED <<journal, tombstone, torn>>
         \/ /\ journal.phase = "complete" /\ journal' = NoJournal /\ tombstone' = NoVersions
            /\ pc = "rollback" => torn' # {}
  BY FinalIs DEF Stop, Working, Reversing
<1>2. Len(NoJournal.mutations) = 0 /\ NoJournal.phase = "none"
  BY DEF NoJournal
<1>3. DirectoryFirst'
  BY <1>1, <1>2 DEF DirectoryFirst
<1>4. Aside'
  BY <1>1 DEF Aside, Touched, NoVersions
<1>5. Present'
  BY <1>1 DEF Present, NoVersions
<1>6. Standing'
  <2>1. CASE journal.phase # "complete"
    <3>1. UNCHANGED <<journal, tombstone, torn>>
      BY <1>1, <2>1
    <3> QED
      BY <1>1, <3>1 DEF Standing, Started, Backed, Spares, Dangles
  <2>2. CASE journal.phase = "complete" /\ pc = "rollback"
    BY <1>1, <2>2 DEF Standing
  <2>3. CASE journal.phase = "complete" /\ pc # "rollback"
    <3>1. pc = "cleanup" /\ todo = <<>>
      BY <2>3 DEF FilesInv, Phases, Types, JournalOK
    <3>2. files["current"] = installed
      BY <3>1, Names DEF FilesInv, Progress, Done
    <3>3. ~Dangles
      BY <3>1, <3>2 DEF Present, Dangles, installed
    <3>4. ~Started' /\ ~Dangles'
      BY <1>1, <1>2, <2>3, <3>3 DEF Started, Dangles
    <3> QED
      BY <3>4 DEF Standing
  <2> QED
    BY <2>1, <2>2, <2>3
<1> QED
  BY <1>3, <1>4, <1>5, <1>6

LEMMA RollbackDirectories ==
  ASSUME Types, DirectoriesInv, Started, pc # "idle", pc # "recover",
         pc' = "rollback", undo' = Reverse(journal.mutations),
         UNCHANGED <<diskVars, plan, todo, outcome, historyVars>>
  PROVE  DirectoriesInv'
<1> USE DEF DirectoriesInv, diskVars, historyVars
<1>1. ~Working' /\ Started' /\ Reversing'
  BY DEF Working, Started, Reversing
<1>2. PICK s, r : s = journal.mutations /\ r = Reverse(journal.mutations)
  OBVIOUS
<1>3. /\ s \in Seq(Changes) /\ \A i \in 1 .. Len(s) : s[i].path \in Directories => i = 1
      /\ journal'.mutations = s /\ undo' = r
  BY <1>2 DEF Types, JournalOK, DirectoryFirst
<1>4. /\ \A i \in 1 .. Len(r) : r[i].path \in Directories => i = Len(r)
      /\ Spares(s) => Spares(r)
      /\ \A p : Touched(r, p) <=> Touched(s, p)
  BY <1>2, <1>3, ReversedDirectories, ReversedTouches
<1>5. DirectoryFirst'
  BY <1>1, <1>3, <1>4 DEF DirectoryFirst
<1>6. Aside'
  <2>1. tombstone # NoVersions => Touched(s, "versions") /\ Touched(r, "versions") /\ ~versions_dir
    BY <1>2, <1>4 DEF Aside
  <2>2. tombstone # NoVersions => Touched(s, "versions")' /\ Touched(r, "versions")'
    BY <2>1 DEF Touched
  <2> QED
    BY <1>3, <2>1, <2>2 DEF Aside, NoVersions
<1>7. Present'
  BY <1>1 DEF Present, NoVersions
<1>8. Standing'
  <2>1. torn = {} /\ before["current"] # None =>
          /\ versions[before["current"]] # "absent" \/ tombstone[before["current"]] # "absent"
          /\ Spares(s) /\ Spares(r)
    BY <1>2, <1>4 DEF Standing, Backed
  <2>2. torn = {} /\ before["current"] # None => Spares(s)' /\ Spares(r)'
    BY <2>1 DEF Spares
  <2> QED
    BY <1>1, <1>3, <2>1, <2>2 DEF Standing, Backed
<1> QED
  BY <1>5, <1>6, <1>7, <1>8

LEMMA BeginDirectories ==
  ASSUME Types, FilesInv, DirectoriesInv, NEW command \in Commands, NEW v \in Versions,
         NEW chosen, Begin(command, v, chosen)
  PROVE  DirectoriesInv'
<1> USE DEF DirectoriesInv
<1>1. /\ pc = "idle" /\ ~Reversing /\ pc' \in {"idle", "recover"} /\ ~Working'
      /\ UNCHANGED <<files, versions, tombstone, journal, before, torn>>
      /\ ~versions_dir' => ~versions_dir
      /\ pc' = "recover" => versions_dir' = TRUE /\ undo' = Reverse(journal.mutations)
  BY DEF Begin, historyVars, Working, Reversing
<1>2. PICK s, r : s = journal.mutations /\ r = Reverse(journal.mutations)
  OBVIOUS
<1>3. /\ s \in Seq(Changes) /\ \A i \in 1 .. Len(s) : s[i].path \in Directories => i = 1
      /\ journal'.mutations = s /\ (Reversing' => undo' = r)
  BY <1>1, <1>2 DEF Types, JournalOK, DirectoryFirst, Reversing
<1>4. /\ \A i \in 1 .. Len(r) : r[i].path \in Directories => i = Len(r)
      /\ Spares(s) => Spares(r)
  BY <1>2, <1>3, ReversedDirectories
<1>5. DirectoryFirst'
  BY <1>1, <1>3, <1>4 DEF DirectoryFirst
<1>6. Aside'
  BY <1>1 DEF Aside, Touched, NoVersions
<1>7. Present'
  BY <1>1 DEF Present, NoVersions
<1>8. Standing'
  <2>1. ASSUME torn = {}, Started, before["current"] # None
        PROVE  /\ versions[before["current"]] # "absent" \/ tombstone[before["current"]] # "absent"
               /\ Spares(s) /\ Spares(r)
    BY <1>2, <1>4, <2>1 DEF Standing, Backed
  <2>2. ASSUME torn = {}, Started, before["current"] # None PROVE Spares(s)' /\ Spares(r)'
    BY <1>1, <2>1, <2>2 DEF Spares
  <2>3. torn = {} /\ Started => Backed'
    BY <1>1, <1>3, <2>1, <2>2 DEF Backed
  <2> QED
    BY <1>1, <2>3 DEF Standing, Started, Dangles
<1> QED
  BY <1>5, <1>6, <1>7, <1>8

\* Recovery that gets to its end has everything that current points to back.
LEMMA RecoveredDirectories ==
  ASSUME Types, FilesInv, DirectoriesInv, RecoverDone \/ RollbackDone
  PROVE  DirectoriesInv'
<1> USE DEF DirectoriesInv
<1>1. /\ UNCHANGED <<files, versions, versions_dir>> /\ undo = <<>> /\ Reversing
      /\ pc' \in {"idle", "capture"} /\ journal'.mutations = <<>> /\ tombstone' = NoVersions
      /\ torn \subseteq torn'
      /\ pc' = "capture" => pc = "recover"
  BY DEF RecoverDone, RollbackDone, NoJournal, historyVars, Reversing
<1>2. ~Working' /\ ~Reversing' /\ Len(journal'.mutations) = 0
  BY <1>1 DEF Working, Reversing
<1>3. Len(undo) = 0
  BY <1>1
<1>4. torn' = {} => torn = {} /\ tombstone = NoVersions
  <2>1. CASE RecoverDone
    BY <2>1 DEF RecoverDone
  <2>2. CASE RollbackDone
    <3>1. ~Touched(undo, "versions") /\ pc = "rollback"
      BY <1>3, <2>2 DEF Touched, RollbackDone
    <3> QED
      BY <1>1, <3>1 DEF Aside
  <2> QED
    BY <2>1, <2>2
<1>5. torn' = {} => ~Dangles
  <2>1. CASE ~Started
    BY <1>1, <2>1 DEF Standing
  <2>2. CASE Started
    <3>1. files["current"] = before["current"]
      BY <1>1, <2>2, NothingToReverse, Names DEF FilesInv, Journalled, Restored, Part
    <3>2. before["current"] # None => before["current"] \in Versions
      BY Names DEF Types, FilesOK, IsPart, Pointers
    <3>3. torn' = {} /\ before["current"] # None => versions[before["current"]] # "absent"
      BY <1>1, <1>4, <2>2, <3>2 DEF Standing, Backed, NoVersions
    <3> QED
      BY <3>1, <3>3 DEF Dangles
  <2> QED
    BY <2>1, <2>2
<1>6. Standing'
  <2>1. CASE RecoverDone
    <3>1. before'["current"] = files["current"]
      BY <2>1, Names DEF RecoverDone, ours, Part
    <3>2. torn' = {} => Backed'
      BY <1>1, <1>2, <1>5, <3>1 DEF Backed, Spares, Dangles
    <3>3. Started'
      BY <2>1 DEF RecoverDone, Started
    <3> QED
      BY <3>2, <3>3 DEF Standing
  <2>2. CASE RollbackDone
    <3>1. ~Started' /\ (torn' = {} => ~Dangles')
      BY <1>1, <1>5, <2>2 DEF RollbackDone, Started, NoJournal, Dangles
    <3> QED
      BY <3>1 DEF Standing
  <2> QED
    BY <2>1, <2>2
<1>7. DirectoryFirst' /\ Aside'
  BY <1>1, <1>2 DEF DirectoryFirst, Aside, NoVersions
<1>8. Present'
  BY <1>1, <1>2 DEF Present, NoVersions
<1> QED
  BY <1>6, <1>7, <1>8

LEMMA CaptureDirectories ==
  ASSUME Types, FilesInv, DirectoriesInv, Capture
  PROVE  DirectoriesInv'
<1> USE DEF DirectoriesInv
<1>1. pc = "capture" /\ Started /\ journal.mutations = <<>> /\ todo = Steps(plan.command)
  BY DEF Capture, FilesInv, Phases, Started
<1>2. CASE Fail
  BY <1>1, <1>2, RollbackDirectories DEF Fail
<1>3. CASE /\ pc' = "record"
           /\ UNCHANGED <<diskVars, plan, todo, undo, checked, outcome, historyVars, spent>>
  <2> USE DEF diskVars, historyVars
  <2>1. plan.command \in Commands
    BY <1>1, PlanParts DEF Types, JournalOK
  <2>2. /\ todo \in Seq(Paths \cup Directories) /\ todo # <<>>
        /\ todo[1] = IF uninstalling THEN "versions" ELSE "version"
        /\ \A i \in 1 .. Len(todo) : todo[i] \in Directories => i = 1
    BY <1>1, <2>1, StepsAre DEF uninstalling
  <2>3. Head(todo) = todo[1]
    BY <2>2, Rest
  <2>4. versions_dir /\ tombstone = NoVersions
    BY <1>1 DEF Present, Aside
  <2>5. Len(journal.mutations) = 0
    BY <1>1
  <2>6. DirectoryFirst'
    BY <1>1, <1>3, <2>2, <2>4, <2>5 DEF DirectoryFirst, Reversing, uninstalling
  <2>7. Aside'
    BY <1>3, <2>4 DEF Aside, NoVersions
  <2>8. Present'
    BY <1>3, <2>2, <2>3, <2>4 DEF Present, uninstalling
  <2>9. Standing'
    BY <1>1, <1>3 DEF Standing, Started, Backed, Spares, Dangles, Reversing
  <2> QED
    BY <2>6, <2>7, <2>8, <2>9
<1> QED
  BY <1>2, <1>3 DEF Capture

\* Reversing a change takes away or brings back what the reversal before it
\* relied on, never what current points to by then.
LEMMA ReverseDirectories ==
  ASSUME Types, FilesInv, DirectoriesInv, Looked, ReverseOne \/ RestoreFile
  PROVE  DirectoriesInv'
<1> USE DEF DirectoriesInv
<1> DEFINE m == Head(undo)
           now == State(m.path, m.version)
<1>1. /\ undo \in Seq(Changes) /\ undo # <<>> /\ pc \in {"recover", "rollback"} /\ Reversing
      /\ UNCHANGED before /\ Started
  BY DEF Types, JournalOK, ReverseOne, RestoreFile, Reverting, Reversing, FilesInv, Phases, Started
<1>2. /\ m \in Changes /\ m = undo[1] /\ Len(undo) \in Nat /\ Len(undo) >= 1
      /\ Tail(undo) \in Seq(Changes) /\ Len(Tail(undo)) = Len(undo) - 1
      /\ \A i \in 1 .. Len(undo) - 1 : Tail(undo)[i] = undo[i + 1] /\ i + 1 \in 1 .. Len(undo)
  BY <1>1, Rest
<1>3. CASE Stop("stuck") /\ UNCHANGED <<files, versions, versions_dir>>
  BY <1>1, <1>3, StopDirectories
<1>4. CASE UNCHANGED <<files, versions, versions_dir, tombstone, journal, pc, plan, todo, undo,
                       torn>>
  BY <1>1, <1>4, DirectoriesKept
<1>5. CASE /\ ~(Stop("stuck") /\ UNCHANGED <<files, versions, versions_dir>>)
           /\ ~UNCHANGED <<files, versions, versions_dir, tombstone, journal, pc, plan, todo, undo,
                           torn>>
  <2>1. UNCHANGED <<pc, plan, todo, outcome, journal, torn>>
    BY <1>5 DEF ReverseOne, RestoreFile, Restore, Undone
  <2>2. PICK r : r = undo'
    OBVIOUS
  <2>3. \/ r = Tail(undo)
        \/ m.path = "current" /\ r = <<[m EXCEPT !.post = None]>> \o Tail(undo)
    BY <1>5, <2>2 DEF ReverseOne, RestoreFile, Restore, Undone
  <2>4. /\ \A i \in 1 .. Len(r) : r[i].path \in Directories => i = Len(r)
        /\ Spares(undo) => Spares(r)
        /\ \A p : Touched(undo, p) /\ p # m.path => Touched(r, p)
    <3>0. \A i \in 1 .. Len(undo) : undo[i].path \in Directories => i = Len(undo)
      BY <1>1 DEF DirectoryFirst
    <3>1. ASSUME r = Tail(undo)
          PROVE  /\ \A i \in 1 .. Len(r) : r[i].path \in Directories => i = Len(r)
                 /\ Spares(undo) => Spares(r)
                 /\ \A p : Touched(undo, p) /\ p # m.path => Touched(r, p)
      <4>1. ASSUME NEW i \in 1 .. Len(r), r[i].path \in Directories PROVE i = Len(r)
        <5>1. i \in 1 .. Len(undo) - 1 /\ r[i] = undo[i + 1] /\ i + 1 \in 1 .. Len(undo)
          BY <1>2, <3>1, <4>1
        <5>2. i + 1 = Len(undo)
          BY <3>0, <4>1, <5>1
        <5>3. PICK k, n : k = i /\ n = Len(undo)
          OBVIOUS
        <5>4. n \in Nat /\ k \in 1 .. n - 1 /\ k + 1 = n
          BY <1>2, <5>1, <5>2, <5>3
        <5>5. k = n - 1
          BY <5>4
        <5> QED
          BY <1>2, <3>1, <5>3, <5>5
      <4>2. Spares(undo) => Spares(r)
        BY <1>2, <3>1 DEF Spares
      <4>3. ASSUME NEW p, NEW i \in 1 .. Len(undo), undo[i].path = p, p # m.path
            PROVE  Touched(r, p)
        <5>1. i # 1
          BY <1>2, <4>3
        <5>2. i - 1 \in 1 .. Len(r) /\ r[i - 1] = undo[i]
          BY <1>2, <3>1, <5>1
        <5> QED
          BY <4>3, <5>2 DEF Touched
      <4> QED
        BY <4>1, <4>2, <4>3 DEF Touched
    <3>2. ASSUME m.path = "current", r = <<[m EXCEPT !.post = None]>> \o Tail(undo)
          PROVE  /\ \A i \in 1 .. Len(r) : r[i].path \in Directories => i = Len(r)
                 /\ Spares(undo) => Spares(r)
                 /\ \A p : Touched(undo, p) /\ p # m.path => Touched(r, p)
      <4>1. PICK e : e = [m EXCEPT !.post = None]
        OBVIOUS
      <4>2. e.path = "current"
        BY <1>2, <3>2, <4>1 DEF Changes
      <4>3. r = <<e>> \o Tail(undo)
        BY <3>2, <4>1
      <4>4. Len(r) = Len(undo) /\ r[1] = e /\ \A i \in 2 .. Len(undo) : r[i] = undo[i]
        BY <1>1, <4>3, Exchanged
      <4>5. ASSUME NEW i \in 1 .. Len(r), r[i].path \in Directories PROVE i = Len(r)
        <5>1. i # 1
          BY <4>2, <4>4, <4>5 DEF Directories
        <5>2. i \in 2 .. Len(undo) /\ i \in 1 .. Len(undo) /\ r[i] = undo[i]
          BY <1>2, <4>4, <5>1
        <5> QED
          BY <3>0, <4>4, <4>5, <5>2
      <4>6. Spares(undo) => Spares(r)
        BY <1>2, <4>2, <4>4 DEF Spares
      <4>7. ASSUME NEW p, NEW i \in 1 .. Len(undo), undo[i].path = p, p # m.path
            PROVE  Touched(r, p)
        <5>1. i \in 2 .. Len(undo)
          BY <1>2, <4>7
        <5>2. i \in 1 .. Len(r) /\ r[i] = undo[i]
          BY <4>4, <5>1
        <5> QED
          BY <4>7, <5>2 DEF Touched
      <4> QED
        BY <4>5, <4>6, <4>7 DEF Touched
    <3> QED
      BY <2>3, <3>1, <3>2
  <2>5. \/ UNCHANGED <<versions, versions_dir, tombstone>>
        \/ /\ m.path = "versions" /\ now # m.pre /\ r = Tail(undo)
           /\ versions' = tombstone /\ versions_dir' = TRUE /\ tombstone' = NoVersions
        \/ /\ m.path = "version" /\ UNCHANGED <<versions_dir, tombstone>>
           /\ versions' = [versions EXCEPT ![m.version] = "absent"]
    BY <1>5, <2>2 DEF ReverseOne, RestoreFile, Restore, Undone
  <2>6. m.path = "versions" /\ UNCHANGED <<versions, versions_dir, tombstone>> => versions_dir
    <3>1. ASSUME m.path = "versions", now = m.pre PROVE versions_dir
      BY <1>2, <3>1, Names DEF Changes, Directories, State
    <3>2. ASSUME m.path = "versions", now # m.pre, UNCHANGED versions_dir PROVE versions_dir
      <4>1. versions_dir' = TRUE
        BY <1>1, <1>5, <3>2, Names DEF ReverseOne, RestoreFile, Looked, Restore
      <4> QED
        BY <3>2, <4>1
    <3> QED
      BY <3>1, <3>2
  <2>7. m.path = "versions" /\ now # m.pre => ~versions_dir
    BY <1>2, Names DEF Changes, Directories, State, Types, DirectoriesOK
  <2>8. DirectoryFirst'
    BY <1>1, <2>1, <2>2, <2>4 DEF DirectoryFirst, Working
  <2>9. Aside'
    <3>1. CASE tombstone' # NoVersions
      <4>1. tombstone' = tombstone /\ (versions_dir' = versions_dir)
        BY <2>5, <3>1
      <4>2. /\ Touched(journal.mutations, "versions")
            /\ pc = "rollback" => ~versions_dir /\ Touched(undo, "versions")
        BY <3>1, <4>1 DEF Aside
      <4>3. ASSUME pc = "rollback" PROVE Touched(r, "versions")
        <5>1. m.path # "versions"
          BY <2>5, <2>6, <3>1, <4>1, <4>2, <4>3
        <5> QED
          BY <2>4, <4>2, <4>3, <5>1
      <4>4. pc = "rollback" => Touched(r, "versions")'
        BY <4>3 DEF Touched
      <4> QED
        BY <1>1, <2>1, <2>2, <4>1, <4>2, <4>4 DEF Aside, Touched
    <3>2. CASE tombstone' = NoVersions
      BY <3>2 DEF Aside, NoVersions
    <3> QED
      BY <3>1, <3>2
  <2>10. Present'
    <3>1. versions = NoVersions => [versions EXCEPT ![m.version] = "absent"] = NoVersions
      BY DEF NoVersions
    <3>2. ~versions_dir' => versions' = NoVersions
      BY <2>5, <3>1 DEF Present
    <3>3. ~versions_dir' => versions' = NoVersions'
      BY <3>2 DEF NoVersions
    <3> QED
      BY <1>1, <2>1, <2>5, <3>3 DEF Present, Working, Reversing
  <2>11. ASSUME torn = {} PROVE Backed'
    <3> DEFINE b == before["current"]
    <3>1. ASSUME b # None
          PROVE  /\ versions[b] # "absent" \/ tombstone[b] # "absent"
                 /\ Spares(journal.mutations) /\ Spares(undo) /\ Spares(r) /\ b \in Versions
      <4>1. b \in Versions
        BY <3>1, Names DEF Types, FilesOK, IsPart, Pointers
      <4> QED
        BY <1>1, <2>4, <2>11, <3>1, <4>1 DEF Standing, Backed
    <3>2. ASSUME b # None PROVE versions'[b] # "absent" \/ tombstone'[b] # "absent"
      <4>1. CASE UNCHANGED <<versions, versions_dir, tombstone>>
        BY <3>1, <3>2, <4>1
      <4>2. CASE /\ m.path = "versions" /\ now # m.pre
                 /\ versions' = tombstone
        <5>1. versions = NoVersions
          BY <2>7, <4>2 DEF Present
        <5>2. tombstone[b] # "absent"
          BY <3>1, <3>2, <5>1 DEF NoVersions
        <5> QED
          BY <4>2, <5>2
      <4>3. CASE /\ m.path = "version" /\ tombstone' = tombstone
                 /\ versions' = [versions EXCEPT ![m.version] = "absent"]
        <5>1. m.version # b
          <6>1. 1 \in 1 .. Len(undo)
            BY <1>2
          <6> QED
            BY <1>2, <3>1, <3>2, <4>3, <6>1 DEF Spares
        <5> QED
          BY <3>1, <3>2, <4>3, <5>1 DEF Types, DirectoriesOK
      <4> QED
        BY <2>5, <4>1, <4>2, <4>3
    <3>3. b # None => Spares(r)' /\ Spares(journal.mutations)'
      BY <1>1, <2>1, <3>1 DEF Spares
    <3> QED
      BY <1>1, <2>2, <3>2, <3>3 DEF Backed
  <2>12. Standing'
    BY <1>1, <2>1, <2>11 DEF Standing, Started
  <2> QED
    BY <2>8, <2>9, <2>10, <2>12
<1> QED
  BY <1>3, <1>4, <1>5

LEMMA RecordDirectories ==
  ASSUME Types, FilesInv, DirectoriesInv, Record
  PROVE  DirectoriesInv'
<1> USE DEF DirectoriesInv
<1> DEFINE path == Head(todo)
           now == journal.mutations
<1>1. /\ todo \in Seq(Paths \cup Directories) /\ todo # <<>> /\ pc = "record"
      /\ plan \in Plans /\ plan.version \in Versions /\ Started /\ Working /\ ~Reversing
      /\ now \in Seq(Changes) /\ versions \in [Versions -> Levels]
  BY PlanParts
     DEF Record, Types, JournalOK, DirectoriesOK, FilesInv, Phases, Started, Working, Reversing
<1>2. /\ path = todo[1] /\ path \in Paths \cup Directories /\ 1 \in 1 .. Len(todo)
      /\ Len(todo) \in Nat /\ Len(Tail(todo)) = Len(todo) - 1
      /\ \A i \in 1 .. Len(todo) - 1 : Tail(todo)[i] = todo[i + 1] /\ i + 1 \in 1 .. Len(todo)
  BY <1>1, Rest
<1>3. path \in Directories =>
        /\ versions_dir /\ now = <<>>
        /\ path = IF uninstalling THEN "versions" ELSE "version"
  BY <1>1, <1>2 DEF DirectoryFirst
<1>4. versions_dir => tombstone = NoVersions
  BY <1>1 DEF Aside
<1>5. CASE Fail
  BY <1>1, <1>5, RollbackDirectories DEF Fail
<1>6. CASE path = "version" /\ ~plan.staged /\ ~Fail
  <2>1. /\ todo' = Tail(todo)
        /\ versions' = [versions EXCEPT ![plan.version] = IF @ = "absent" THEN "empty" ELSE @]
        /\ UNCHANGED <<files, versions_dir, tombstone, journal, pc, plan, undo, outcome,
                       before, torn>>
    BY <1>6, Names DEF Record, historyVars
  <2>2. \A v \in Versions : versions[v] # "absent" => versions'[v] # "absent"
    BY <1>1, <2>1
  <2>3. versions'[plan.version] # "absent"
    BY <1>1, <2>1
  <2>4. versions_dir /\ tombstone = NoVersions
    BY <1>3, <1>4, <1>6 DEF Directories
  <2>5. DirectoryFirst'
    <3>1. ASSUME NEW i \in 1 .. Len(todo'), todo'[i] \in Directories PROVE FALSE
      <4>1. i \in 1 .. Len(todo) - 1 /\ todo[i + 1] \in Directories /\ i + 1 \in 1 .. Len(todo)
        BY <1>2, <2>1, <3>1
      <4>2. i + 1 = 1
        BY <1>1, <4>1 DEF DirectoryFirst
      <4> QED
        BY <4>1, <4>2
    <3> QED
      BY <1>1, <2>1, <3>1 DEF DirectoryFirst, Reversing
  <2>6. Aside'
    BY <2>1, <2>4 DEF Aside, NoVersions
  <2>7. Present'
    BY <1>1, <2>1, <2>3, <2>4 DEF Present, NoVersions
  <2>8. Standing'
    <3>1. before["current"] # None => before["current"] \in Versions
      BY Names DEF Types, FilesOK, IsPart, Pointers
    <3> QED
      BY <1>1, <2>1, <2>2, <3>1 DEF Standing, Started, Backed, Spares, Reversing
  <2> QED
    BY <2>5, <2>6, <2>7, <2>8
<1>7. CASE path \in ConfigNames \ plan.chosen /\ ~Fail
  <2>1. /\ todo' = Tail(todo) /\ path # "version"
        /\ UNCHANGED <<files, versions, versions_dir, tombstone, journal, pc, plan, undo,
                       before, torn>>
    BY <1>7, Names DEF Record, diskVars, historyVars
  <2>2. DirectoryFirst'
    <3>1. ASSUME NEW i \in 1 .. Len(todo'), todo'[i] \in Directories PROVE FALSE
      <4>1. i \in 1 .. Len(todo) - 1 /\ todo[i + 1] \in Directories /\ i + 1 \in 1 .. Len(todo)
        BY <1>2, <2>1, <3>1
      <4>2. i + 1 = 1
        BY <1>1, <4>1 DEF DirectoryFirst
      <4> QED
        BY <4>1, <4>2
    <3> QED
      BY <1>1, <2>1, <3>1 DEF DirectoryFirst, Reversing
  <2>3. Aside'
    BY <2>1 DEF Aside, Touched, NoVersions
  <2>4. Present'
    BY <1>1, <2>1 DEF Present, Working, uninstalling, NoVersions
  <2>5. Standing'
    BY <1>1, <2>1 DEF Standing, Started, Backed, Spares, Reversing
  <2> QED
    BY <2>2, <2>3, <2>4, <2>5
<1>8. CASE /\ ~Fail /\ ~(path = "version" /\ ~plan.staged)
           /\ path \notin ConfigNames \ plan.chosen
  <2> DEFINE m == Mutation(path)
  <2>1. /\ path = "version" => plan.staged /\ versions[plan.version] = "absent"
        /\ journal' = [journal EXCEPT !.mutations = Append(journal.mutations, m)]
        /\ pc' = "publish"
        /\ UNCHANGED <<files, versions, versions_dir, tombstone, plan, todo, undo,
                       outcome, before, torn>>
    BY <1>8 DEF Record, historyVars
  <2>2. m \in Changes /\ m.path = path /\ m.version = plan.version
    BY <1>1, <1>2, <1>3, <2>1, MutationIs DEF Directories
  <2>3. PICK s : s = Append(journal.mutations, m)
    OBVIOUS
  <2>4. journal'.mutations = s /\ journal'.phase = journal.phase
    BY <1>1, <2>1, <2>3 DEF Types, JournalOK
  <2>5. /\ Len(now) \in Nat /\ Len(s) = Len(now) + 1 /\ s[Len(now) + 1] = m
        /\ \A i \in 1 .. Len(now) : s[i] = now[i]
    BY <1>1, <2>2, <2>3, Appended
  <2>6. \A i \in 1 .. Len(s) : i \in 1 .. Len(now) \/ i = Len(now) + 1
    BY <2>5
  <2>7. ~Working' \/ Working
    BY <1>1
  <2>8. DirectoryFirst'
    <3>1. ASSUME NEW i \in 1 .. Len(s), s[i].path \in Directories PROVE i = 1
      <4>1. CASE i \in 1 .. Len(now)
        BY <2>5, <3>1, <4>1 DEF DirectoryFirst
      <4>2. CASE i = Len(now) + 1
        <5>1. now = <<>>
          BY <1>3, <2>2, <2>5, <3>1, <4>2
        <5>2. Len(now) = 0
          BY <5>1
        <5> QED
          BY <4>2, <5>2
      <4> QED
        BY <2>6, <4>1, <4>2
    <3>2. \A i \in 1 .. Len(todo) :
             todo[i] \in Directories =>
                 i = 1 /\ versions_dir /\ todo[i] = IF uninstalling THEN "versions" ELSE "version"
      BY <1>1 DEF DirectoryFirst
    <3> QED
      BY <2>1, <2>4, <3>1, <3>2 DEF DirectoryFirst, Reversing, uninstalling
  <2>9. Aside'
    <3>1. tombstone # NoVersions => Touched(s, "versions") /\ ~versions_dir
      BY <1>1, <2>2, <2>3, AppendTouches DEF Aside
    <3>2. tombstone # NoVersions => Touched(s, "versions")'
      BY <3>1 DEF Touched
    <3> QED
      BY <2>1, <2>4, <3>1, <3>2 DEF Aside, NoVersions
  <2>10. Present'
    BY <1>1, <2>1 DEF Present, Working, uninstalling, NoVersions
  <2>11. ASSUME torn = {}, before["current"] # None
         PROVE  /\ versions[before["current"]] # "absent" \/ tombstone[before["current"]] # "absent"
                /\ Spares(s)
    <3>1. before["current"] \in Versions
      BY <2>11, Names DEF Types, FilesOK, IsPart, Pointers
    <3>2. /\ versions[before["current"]] # "absent" \/ tombstone[before["current"]] # "absent"
          /\ Spares(now)
      BY <1>1, <2>11 DEF Standing, Backed
    <3>3. m.path = "version" => m.version # before["current"]
      BY <1>3, <1>4, <2>1, <2>2, <3>1, <3>2 DEF Directories, NoVersions
    <3> QED
      BY <2>5, <2>6, <3>2, <3>3 DEF Spares
  <2>12. Standing'
    <3>1. torn = {} /\ before["current"] # None => Spares(s)'
      BY <2>1, <2>11 DEF Spares
    <3> QED
      BY <1>1, <2>1, <2>4, <2>11, <3>1 DEF Standing, Started, Backed, Reversing
  <2> QED
    BY <2>8, <2>9, <2>10, <2>12
<1> QED
  BY <1>5, <1>6, <1>7, <1>8

LEMMA PublishDirectoryDirectories ==
  ASSUME Types, FilesInv, DirectoriesInv, PublishDirectory
  PROVE  DirectoriesInv'
<1> USE DEF DirectoriesInv
<1> DEFINE path == Head(todo)
<1>1. /\ pc = "publish" /\ path \notin Paths /\ todo' = Tail(todo) /\ pc' = "record"
      /\ UNCHANGED <<files, journal, plan, undo, before, torn>>
  BY DEF PublishDirectory, Published, historyVars
<1>2. /\ todo \in Seq(Paths \cup Directories) /\ todo # <<>> /\ Working /\ ~Reversing /\ Started
      /\ plan \in Plans /\ plan.version \in Versions /\ versions \in [Versions -> Levels]
      /\ Touched(journal.mutations, path)
  BY <1>1, PlanParts
     DEF Types, JournalOK, DirectoriesOK, FilesInv, Phases, Working, Reversing, Started
<1>3. /\ path = todo[1] /\ path \in Directories /\ 1 \in 1 .. Len(todo)
      /\ Len(todo) \in Nat /\ Len(Tail(todo)) = Len(todo) - 1
      /\ \A i \in 1 .. Len(todo) - 1 : Tail(todo)[i] = todo[i + 1] /\ i + 1 \in 1 .. Len(todo)
  BY <1>1, <1>2, Rest
<1>4. /\ versions_dir /\ tombstone = NoVersions
      /\ path = IF uninstalling THEN "versions" ELSE "version"
  BY <1>1, <1>2, <1>3 DEF DirectoryFirst, Aside
<1>5. before["current"] # None => before["current"] \in Versions
  BY Names DEF Types, FilesOK, IsPart, Pointers
<1>6. torn = {} /\ before["current"] # None =>
          versions[before["current"]] # "absent" /\ Spares(journal.mutations)
  BY <1>2, <1>4, <1>5 DEF Standing, Backed, NoVersions
<1>7. DirectoryFirst'
  <2>1. ASSUME NEW i \in 1 .. Len(todo'), todo'[i] \in Directories PROVE FALSE
    <3>1. i \in 1 .. Len(todo) - 1 /\ todo[i + 1] \in Directories /\ i + 1 \in 1 .. Len(todo)
      BY <1>1, <1>3, <2>1
    <3>2. i + 1 = 1
      BY <1>2, <3>1 DEF DirectoryFirst
    <3> QED
      BY <3>1, <3>2
  <2> QED
    BY <1>1, <2>1 DEF DirectoryFirst, Reversing
<1>8. CASE path = "version"
  <2>1. /\ versions' = [versions EXCEPT ![plan.version] = "full"]
        /\ UNCHANGED <<versions_dir, tombstone>>
    BY <1>8 DEF PublishDirectory
  <2>2. Aside'
    BY <1>4, <2>1 DEF Aside, NoVersions
  <2>3. Present'
    BY <1>1, <1>2, <1>4, <2>1 DEF Present, Working, NoVersions
  <2>4. Standing'
    BY <1>1, <1>2, <1>5, <1>6, <2>1 DEF Standing, Started, Backed, Spares, Reversing
  <2> QED
    BY <1>7, <2>2, <2>3, <2>4
<1>9. CASE path = "versions"
  <2>1. /\ tombstone' = versions /\ versions' = NoVersions /\ versions_dir' = FALSE
    BY <1>9 DEF PublishDirectory
  <2>2. Aside'
    <3>1. Touched(journal.mutations, "versions")'
      BY <1>1, <1>2, <1>9 DEF Touched
    <3> QED
      BY <1>1, <2>1, <3>1 DEF Aside
  <2>3. Present'
    BY <1>1, <1>4, <1>9, <2>1 DEF Present, Working, uninstalling, NoVersions
  <2>4. Standing'
    BY <1>1, <1>2, <1>6, <2>1 DEF Standing, Started, Backed, Spares, Reversing
  <2> QED
    BY <1>7, <2>2, <2>3, <2>4
<1> QED
  BY <1>3, <1>8, <1>9 DEF Directories

LEMMA PublishFileDirectories ==
  ASSUME Types, FilesInv, DirectoriesInv, PublishPointer \/ PublishFile
  PROVE  DirectoriesInv'
<1> USE DEF DirectoriesInv
<1>1. /\ pc = "publish" /\ Head(todo) \in Paths /\ pc' = "record" /\ todo' = Tail(todo)
      /\ todo \in Seq(Paths \cup Directories) /\ todo # <<>> /\ Working /\ ~Reversing /\ Started
      /\ UNCHANGED <<versions, versions_dir, tombstone, journal, plan, undo, before, torn>>
  BY Names
     DEF PublishPointer, PublishFile, Published, historyVars, Types, JournalOK, FilesInv, Phases,
         Working, Reversing, Started
<1>2. /\ Head(todo) = todo[1] /\ Len(todo) \in Nat /\ Len(Tail(todo)) = Len(todo) - 1
      /\ \A i \in 1 .. Len(todo) - 1 : Tail(todo)[i] = todo[i + 1] /\ i + 1 \in 1 .. Len(todo)
  BY <1>1, Rest
<1>3. DirectoryFirst'
  <2>1. ASSUME NEW i \in 1 .. Len(todo'), todo'[i] \in Directories PROVE FALSE
    <3>1. i \in 1 .. Len(todo) - 1 /\ todo[i + 1] \in Directories /\ i + 1 \in 1 .. Len(todo)
      BY <1>1, <1>2, <2>1
    <3>2. i + 1 = 1
      BY <1>1, <3>1 DEF DirectoryFirst
    <3> QED
      BY <3>1, <3>2
  <2> QED
    BY <1>1, <2>1 DEF DirectoryFirst, Reversing
<1>4. Aside'
  BY <1>1 DEF Aside, Touched, NoVersions
<1>5. Present'
  BY <1>1, Names DEF Present, Working, uninstalling, NoVersions
<1>6. Standing'
  BY <1>1 DEF Standing, Started, Backed, Spares, Reversing
<1> QED
  BY <1>3, <1>4, <1>5, <1>6

LEMMA DirectoriesStep ==
  ASSUME Types, FilesInv, Looked, DirectoriesInv, [Next]_vars
  PROVE  DirectoriesInv'
<1>1. ASSUME NEW command \in Commands, NEW v \in Versions, NEW chosen \in Selections \cup {owned},
             Begin(command, v, chosen)
      PROVE  DirectoriesInv'
  BY <1>1, BeginDirectories
<1>2. CASE ReverseOne \/ RestoreFile
  BY <1>2, ReverseDirectories
<1>3. CASE RecoverDone \/ RollbackDone
  BY <1>3, RecoveredDirectories
<1>4. CASE Capture
  BY <1>4, CaptureDirectories
<1>5. CASE Record
  BY <1>5, RecordDirectories
<1>6. CASE PublishDirectory
  BY <1>6, PublishDirectoryDirectories
<1>7. CASE PublishPointer \/ PublishFile
  BY <1>7, PublishFileDirectories
<1>8. CASE Complete
  <2>1. /\ pc = "record" /\ pc' = "cleanup" /\ todo = <<>> /\ Working /\ ~Reversing /\ Started
        /\ journal'.mutations = journal.mutations /\ journal'.phase = "complete"
        /\ UNCHANGED <<files, versions, versions_dir, tombstone, plan, todo, undo, before, torn>>
    BY <1>8
       DEF Complete, historyVars, Types, JournalOK, FilesInv, Phases, Working, Reversing, Started
  <2>2. DirectoryFirst'
    BY <2>1 DEF DirectoriesInv, DirectoryFirst, Working, Reversing
  <2>3. Aside'
    BY <2>1 DEF DirectoriesInv, Aside, Touched, NoVersions
  <2>4. Present'
    BY <2>1 DEF DirectoriesInv, Present, uninstalling, NoVersions
  <2>5. Standing'
    BY <2>1 DEF DirectoriesInv, Standing, Started, Backed, Spares, Reversing
  <2> QED
    BY <2>2, <2>3, <2>4, <2>5 DEF DirectoriesInv
<1>9. CASE Cleanup
  <2>1. /\ pc = "cleanup" /\ pc' = "idle" /\ journal' = NoJournal /\ tombstone' = NoVersions
        /\ todo = <<>> /\ torn \subseteq torn'
        /\ UNCHANGED <<files, versions, versions_dir, undo, before>>
    BY <1>9, FinalIs DEF Cleanup, FilesInv, Phases
  <2>2. Len(NoJournal.mutations) = 0 /\ NoJournal.phase = "none"
    BY DEF NoJournal
  <2>3. files["current"] = installed
    BY <2>1, Names DEF FilesInv, Progress, Done
  <2>4. ~Dangles
    BY <2>1, <2>3 DEF DirectoriesInv, Present, Dangles, installed
  <2>5. DirectoryFirst' /\ Aside'
    BY <2>1, <2>2 DEF DirectoryFirst, Working, Reversing, Aside, NoVersions
  <2>6. Present'
    BY <2>1 DEF DirectoriesInv, Present, Working, NoVersions
  <2>7. Standing'
    BY <2>1, <2>2, <2>4 DEF Standing, Started, Dangles
  <2> QED
    BY <2>5, <2>6, <2>7 DEF DirectoriesInv
<1>10. CASE IOError
  <2>1. Started /\ pc # "idle" /\ pc # "recover"
    BY <1>10 DEF IOError, FilesInv, Phases, Started
  <2> QED
    BY <1>10, <2>1, RollbackDirectories DEF IOError
<1>11. CASE Crash
  BY <1>11, StopDirectories DEF Crash
<1>12. CASE \/ UNCHANGED vars \/ Stage \/ (CheckFile /\ ~Fail)
            \/ \E c \in ConfigNames : UserEdit(c)
  <2>1. files \in [Paths -> States]
    BY DEF Types, FilesOK
  <2>2. /\ UNCHANGED <<versions, versions_dir, tombstone, journal, pc, plan, todo, undo, torn>>
        /\ files'["current"] = files["current"] /\ before'["current"] = before["current"]
    BY <1>12, <2>1, Names
       DEF UserEdit, Stage, CheckFile, vars, diskVars, processVars, historyVars
  <2> QED
    BY <2>2, DirectoriesKept
<1>13. CASE CheckFile /\ Fail
  <2>1. Started /\ pc # "idle" /\ pc # "recover"
    BY <1>13 DEF CheckFile, FilesInv, Phases, Started
  <2> QED
    BY <1>13, <2>1, RollbackDirectories DEF Fail
<1> QED
  BY <1>1, <1>2, <1>3, <1>4, <1>5, <1>6, <1>7, <1>8, <1>9, <1>10, <1>11, <1>12, <1>13 DEF Next

LEMMA Inductive == Spec => []IInv
<1>1. Init => IInv
  BY TypesInit, EditsInit, FilesInit, DirectoriesInit DEF IInv
<1>2. IInv /\ [Next]_vars => IInv'
  <2> SUFFICES ASSUME Types, EditsInv, FilesInv, DirectoriesInv, [Next]_vars PROVE IInv'
    BY DEF IInv
  <2>1. Looked /\ Phases /\ DirectoryFirst
    BY DEF EditsInv, FilesInv, DirectoriesInv
  <2>2. Types'
    BY <2>1, TypesStep
  <2>3. EditsInv'
    BY <2>1, LookedStep, EditsStep DEF EditsInv
  <2>4. FilesInv'
    BY <2>1, FilesStep
  <2>5. DirectoriesInv'
    BY <2>1, DirectoriesStep
  <2> QED
    BY <2>2, <2>3, <2>4, <2>5 DEF IInv
<1> QED
  BY <1>1, <1>2, PTL DEF Spec

-----------------------------------------------------------------------------
(* The theorems about the transaction *)

\* An edit of the user's to a configuration file is lost only if it falls right
\* between the last look at the file and the rename that replaces it: never to a
\* command, an error, a crash or a recovery it falls between.
THEOREM EditsAlwaysSurvive == Spec => []EditsSurvive
<1>1. IInv => EditsSurvive
  BY DEF IInv, EditsInv, Edits, EditsSurvive
<1> QED
  BY <1>1, Inductive, PTL

\* A rollback or a recovery that gets to its end has put current, ownership.json
\* and what is the installer's in every config back to what it was when the
\* transaction began, however often commands crashed, in the transaction or in
\* reversing it, and whatever the user wrote meanwhile.
THEOREM RecoveryAlwaysRestores == Spec => []RecoveryRestores
<1>1. IInv => RecoveryRestores
  <2> SUFFICES ASSUME IInv, pc \in {"recover", "rollback"}, undo = <<>>, journal.phase # "none"
               PROVE  ours = before
    BY DEF RecoveryRestores
  <2>1. \A p \in Paths : Part(p, files[p]) = before[p]
    BY NothingToReverse DEF IInv, FilesInv, Journalled, Started, Reversing, Restored
  <2>2. before \in [Paths -> Parts]
    BY DEF IInv, Types, FilesOK
  <2>3. \A p \in Paths : ours[p] = before[p]
    BY <2>1 DEF ours
  <2> QED
    BY <2>2, <2>3 DEF ours
<1> QED
  BY <1>1, Inductive, PTL

\* Between commands the files are as ownership.json says, whichever configs each
\* setup left out, unless a complete transaction's rollback was interrupted or
\* its plan was older than the recovery before it.
THEOREM AlwaysAllOrNothing == Spec => []AllOrNothing
<1>1. IInv => AllOrNothing
  BY DEF IInv, FilesInv, Agreement, Sound, Started, AllOrNothing
<1> QED
  BY <1>1, Inductive, PTL

\* Only an uninstall, or the recovery from one, takes the directory away that
\* current points to.
THEOREM CurrentNeverDangles == Spec => NeverDangles
<1> DEFINE Stands == ~Dangles /\ Dangles' /\ torn = {}
                       => uninstalling \/ Recorded("versions") # {}
<1>1. IInv /\ [Next]_vars => [Stands]_vars
  <2> SUFFICES ASSUME IInv, Next, ~Dangles, Dangles', torn = {}, ~uninstalling,
                      ~Touched(journal.mutations, "versions")
               PROVE  FALSE
    <3>1. ASSUME Touched(journal.mutations, "versions") PROVE Recorded("versions") # {}
      <4>1. PICK i \in 1 .. Len(journal.mutations) : journal.mutations[i].path = "versions"
        BY <3>1 DEF Touched
      <4>2. journal.mutations[i] \in ToSet(journal.mutations)
        BY <4>1 DEF ToSet, IInv, Types, JournalOK
      <4> QED
        BY <4>1, <4>2 DEF Recorded
    <3> QED
      BY <3>1
  <2> USE DEF IInv
  <2>1. /\ files["current"] # None => files["current"] \in Versions
        /\ before["current"] # None => before["current"] \in Versions
        /\ files \in [Paths -> States] /\ versions \in [Versions -> Levels]
    BY Names DEF Types, FilesOK, DirectoriesOK, IsState, IsPart, Pointers
  <2>2. files["current"] # None => versions[files["current"]] # "absent"
    BY DEF Dangles
  <2>3. files'["current"] # None /\ versions'[files'["current"]] = "absent"
    BY DEF Dangles
  <2>4. CASE UNCHANGED versions /\ files'["current"] = files["current"]
    BY <2>2, <2>3, <2>4
  <2>5. CASE ReverseOne
    <3> DEFINE m == Head(undo)
    <3>1. /\ undo \in Seq(Changes) /\ undo # <<>> /\ Reversing /\ Started
      BY <2>5 DEF Types, JournalOK, ReverseOne, Reverting, Reversing, FilesInv, Phases, Started
    <3>2. m \in Changes /\ m = undo[1] /\ 1 \in 1 .. Len(undo) /\ Len(undo) \in Nat
      BY <3>1, Rest
    <3>3. Touched(journal.mutations, m.path) /\ FromBefore(m) /\ Reaches(undo)
      BY <3>1, <3>2 DEF FilesInv, Journalled, Reaches
    <3>4. CASE m.path = "current" /\ UNCHANGED versions
      <4>1. m.pre = before["current"]
        BY <3>3, <3>4, Names DEF FromBefore, Part
      <4>2. files'["current"] \in {files["current"], m.pre, None}
        BY <2>1, <2>5, <3>4, Names DEF ReverseOne, Restore
      <4>3. before["current"] # None => versions[before["current"]] # "absent"
        BY <2>1, <3>1 DEF DirectoriesInv, Standing, Backed, Aside, NoVersions
      <4> QED
        BY <2>2, <2>3, <3>4, <4>1, <4>2, <4>3
    <3>5. CASE m.path = "version" /\ UNCHANGED files
      <4>1. undo[1].path \in Directories
        BY <3>2, <3>5 DEF Directories
      <4>2. Len(undo) = 1
        BY <3>1, <3>2, <4>1 DEF DirectoriesInv, DirectoryFirst
      <4>3. ~Touched(undo, "current")
        BY <3>2, <3>5, <4>2 DEF Touched
      <4>4. files["current"] = before["current"]
        BY <3>3, <4>3, Names DEF Reaches, Restored, Part
      <4>5. before["current"] # None => m.version # before["current"]
        BY <3>1, <3>2, <3>5 DEF DirectoriesInv, Standing, Backed, Spares
      <4>6. \A v \in Versions : v # m.version => versions'[v] = versions[v]
        BY <2>1, <2>5, <3>5 DEF ReverseOne, Restore
      <4> QED
        BY <2>1, <2>2, <2>3, <3>5, <4>4, <4>5, <4>6
    <3>6. m.path # "versions"
      BY <3>3
    <3>7. \/ m.path = "current" /\ UNCHANGED versions
          \/ m.path = "version" /\ UNCHANGED files
          \/ UNCHANGED versions /\ files'["current"] = files["current"]
      BY <2>1, <2>5, <3>6, Names DEF ReverseOne, Restore
    <3> QED
      BY <2>4, <3>4, <3>5, <3>7
  <2>6. CASE Record /\ UNCHANGED files
    <3>1. \A v \in Versions : versions[v] # "absent" => versions'[v] # "absent"
      BY <2>1, <2>6 DEF Record, Fail, diskVars
    <3> QED
      BY <2>1, <2>2, <2>3, <2>6, <3>1
  <2>7. CASE PublishDirectory
    <3>1. /\ todo \in Seq(Paths \cup Directories) /\ todo # <<>> /\ Working
          /\ pc = "publish" /\ UNCHANGED files
      BY <2>7 DEF PublishDirectory, Types, JournalOK, FilesInv, Phases, Working
    <3>2. Head(todo) = todo[1] /\ 1 \in 1 .. Len(todo)
      BY <3>1, Rest
    <3>3. Head(todo) # "versions"
      BY <3>1, <3>2 DEF DirectoriesInv, DirectoryFirst, Directories
    <3>4. \A v \in Versions : versions[v] # "absent" => versions'[v] # "absent"
      BY <2>1, <2>7, <3>3 DEF PublishDirectory
    <3> QED
      BY <2>1, <2>2, <2>3, <3>1, <3>4
  <2>8. CASE PublishPointer
    <3>1. UNCHANGED versions /\ Head(todo) \in Paths /\ Working /\ todo # <<>>
      BY <2>8, Names DEF PublishPointer, FilesInv, Phases, Working
    <3>2. CASE files'["current"] # files["current"]
      <4>1. /\ Head(todo) = "current"
            /\ files' = [files EXCEPT !["current"] = Mutation("current").post]
        BY <2>1, <2>8, <3>2, Names DEF PublishPointer
      <4>2. files'["current"] = plan.version
        BY <2>1, <4>1, Names DEF Mutation, installed
      <4>3. versions[plan.version] # "absent"
        BY <3>1, <4>1, Names DEF DirectoriesInv, Present
      <4> QED
        BY <2>3, <3>1, <4>2, <4>3
    <3> QED
      BY <2>4, <3>1, <3>2
  <2>9. CASE PublishFile \/ RestoreFile
    <3>1. PICK c, content : c \in ConfigNames /\ files' = [files EXCEPT ![c] = content]
      <4>1. CASE PublishFile
        BY <4>1 DEF PublishFile, Replace
      <4>2. CASE RestoreFile
        <5>1. Reverting /\ checked # "no" /\ pc # "publish"
          BY <4>2 DEF RestoreFile, Reverting
        <5>2. Head(undo).path \in ConfigNames
          BY <5>1 DEF EditsInv, Looked
        <5> QED
          BY <4>2, <5>2 DEF RestoreFile, Replace
      <4> QED
        BY <2>9, <4>1, <4>2
    <3>2. UNCHANGED versions /\ files'["current"] = files["current"]
      BY <2>1, <2>9, <3>1, Names DEF PublishFile, RestoreFile
    <3> QED
      BY <2>4, <3>2
  <2>10. CASE ~(\/ ReverseOne \/ Record \/ PublishDirectory \/ PublishPointer \/ PublishFile
                \/ RestoreFile)
    <3>1. UNCHANGED versions /\ files'["current"] = files["current"]
      BY <2>1, <2>10, Names
         DEF Next, Begin, RecoverDone, RollbackDone, Capture, Stage, CheckFile, Fail, diskVars,
             Complete, Cleanup, IOError, Crash, UserEdit
    <3> QED
      BY <2>4, <3>1
  <2>11. Record => UNCHANGED files
    BY DEF Record, Fail, diskVars
  <2> QED
    BY <2>5, <2>6, <2>7, <2>8, <2>9, <2>10, <2>11
<1> QED
  BY <1>1, Inductive, PTL DEF Spec, NeverDangles

-----------------------------------------------------------------------------
(* The lock. A command that made the directory while nobody was poised is   *)
(* safe until it lets go (Sheltered): its directory is there and names it   *)
(* or nobody, and whoever looks at it from then on reads its name, finds it *)
(* alive and gives up, so that nobody gets as far as moving, writing or     *)
(* removing it.                                                             *)

Sheltered(p) ==
    /\ lock.there
    /\ lock.owner = IF at[p] \in {"held", "release"} THEN p ELSE Nobody
    /\ \A q \in Procs \ {p} : /\ at[q] \in Poised => at[q] = "check"
                              /\ at[q] = "check" => prior[q] = p

LockInv ==
    /\ LockTypeOK
    /\ \A p \in settled : /\ at[p] \in {"write"} \cup Holding \cup Ended
                          /\ at[p] \in {"write"} \cup Holding => Sheltered(p)

\* The variables of InstallLock stay in their sets, and only a lock that is
\* there names an owner, however acquisitions overlap.
THEOREM LockTypeCorrect == LockSpec => []LockTypeOK
<1>1. LockInit => LockTypeOK
  BY LockAssumption DEF LockInit, LockTypeOK, NoLock
<1>2. LockTypeOK /\ [LockNext]_lockVars => LockTypeOK'
  <2> SUFFICES ASSUME LockTypeOK, [LockNext]_lockVars PROVE LockTypeOK'
    OBVIOUS
  <2>0. /\ {NoLock, NewLock} \subseteq [there : BOOLEAN, owner : Procs \cup {Nobody}]
        /\ NoLock.owner = Nobody
        /\ NewLock.there
    BY DEF NoLock, NewLock
  <2> USE DEF LockTypeOK, Goto, Acquiring, Holding, Ended
  <2>1. CASE UNCHANGED lockVars
    BY <2>1 DEF lockVars
  <2>2. ASSUME NEW p \in Procs, Start(p) \/ Dies(p) PROVE LockTypeOK'
    BY <2>2 DEF Start, Dies
  <2>3. ASSUME NEW p \in Procs, Mkdir(p) \/ Remake(p) PROVE LockTypeOK'
    BY <2>0, <2>3 DEF Mkdir, Remake, MakeLock
  <2>4. ASSUME NEW p \in Procs, Rename(p) \/ RemoveLock(p) PROVE LockTypeOK'
    BY <2>0, <2>4 DEF Rename, RemoveLock
  <2>5. ASSUME NEW p \in Procs, ReadOwner(p) \/ CheckAlive(p) PROVE LockTypeOK'
    BY <2>5 DEF ReadOwner, CheckAlive
  <2>6. ASSUME NEW p \in Procs, WriteOwner(p) \/ Release(p) PROVE LockTypeOK'
    BY <2>6 DEF WriteOwner, Release
  <2>7. ASSUME NEW p \in Procs, Finish(p) PROVE LockTypeOK'
    BY <2>7 DEF Finish
  <2> QED
    BY <2>1, <2>2, <2>3, <2>4, <2>5, <2>6, <2>7 DEF LockNext, Advance
<1> QED
  BY <1>1, <1>2, PTL DEF LockSpec

\* One step of one command preserves the inductive invariant.
LEMMA LockStepPreserves ==
  ASSUME LockInv, LockTypeOK', NEW p \in Procs, Start(p) \/ Advance(p) \/ Dies(p)
  PROVE  LockInv'
<1> SUFFICES ASSUME NEW q \in settled'
             PROVE  /\ at'[q] \in {"write"} \cup Holding \cup Ended
                    /\ at'[q] \in {"write"} \cup Holding => Sheltered(q)'
  BY DEF LockInv
<1> USE LockAssumption
<1> USE DEF LockInv, LockTypeOK, Sheltered, Poised, Goto, Acquiring, Holding, Ended, Alive
<1>0. /\ NewLock.there /\ NewLock.owner = Nobody
      /\ ~NoLock.there /\ NoLock.owner = Nobody
      /\ q \in Procs
  BY DEF NewLock, NoLock
<1>1. CASE Start(p)
  BY <1>1 DEF Start
<1>2. CASE Mkdir(p) \/ Remake(p)
  <2>1. CASE lock.there
    BY <1>2, <2>1 DEF Mkdir, Remake
  <2>2. CASE ~lock.there
    <3>1. MakeLock(p) /\ prior' = prior /\ at[p] \in {"mkdir", "remake"}
      BY <1>2, <2>2 DEF Mkdir, Remake
    <3>2. q = p \/ (q \in settled /\ at[q] \in Ended)
      BY <2>2, <3>1 DEF MakeLock
    <3>3. CASE q = p
      <4>1. \A r \in Procs \ {p} : at[r] \notin Poised
        BY <3>1, <3>3 DEF MakeLock
      <4> QED
        BY <1>0, <3>1, <3>3, <4>1 DEF MakeLock
    <3> QED
      BY <3>1, <3>2, <3>3 DEF MakeLock
  <2> QED
    BY <2>1, <2>2
<1>3. CASE ReadOwner(p)
  BY <1>3 DEF ReadOwner
<1>4. CASE CheckAlive(p)
  BY <1>4 DEF CheckAlive
<1>5. CASE Rename(p)
  BY <1>5 DEF Rename
<1>6. CASE WriteOwner(p)
  BY <1>6 DEF WriteOwner
<1>7. CASE Finish(p)
  BY <1>7 DEF Finish
<1>8. CASE Release(p)
  BY <1>8 DEF Release
<1>9. CASE RemoveLock(p)
  BY <1>9 DEF RemoveLock
<1>10. CASE Dies(p)
  BY <1>10 DEF Dies
<1> QED
  BY <1>1, <1>2, <1>3, <1>4, <1>5, <1>6, <1>7, <1>8, <1>9, <1>10 DEF Advance

LEMMA LockInductive == LockSpec => []LockInv
<1>1. LockInit => LockInv
  BY LockAssumption DEF LockInit, LockInv, LockTypeOK, NoLock
<1>2. LockInv /\ LockTypeOK' /\ [LockNext]_lockVars => LockInv'
  <2> SUFFICES ASSUME LockInv, LockTypeOK', [LockNext]_lockVars PROVE LockInv'
    OBVIOUS
  <2>1. CASE UNCHANGED lockVars
    BY <2>1 DEF lockVars, LockInv, Sheltered
  <2>2. ASSUME NEW p \in Procs, Start(p) \/ Advance(p) \/ Dies(p) PROVE LockInv'
    BY <2>2, LockStepPreserves
  <2> QED
    BY <2>1, <2>2 DEF LockNext
<1> QED
  BY <1>1, <1>2, LockTypeCorrect, PTL DEF LockSpec

\* Two commands that each made the lock while nobody was poised never hold it
\* at once, whatever the others do beside them.
THEOREM Exclusive == LockSpec => []OneHolder
<1>1. LockInv => OneHolder
  BY DEF LockInv, LockTypeOK, Sheltered, Poised, Holding, OneHolder
<1> QED
  BY <1>1, LockInductive, PTL

\* The lock of such a command names it until it lets go of it or dies.
THEOREM LiveLockIsLeft == LockSpec => LiveLockStays
<1> DEFINE Stays ==
      \A p \in settled : LocksOf(p) /\ Alive(p) => LocksOf(p)' \/ at[p] = "release"
<1>1. LockInv /\ LockInv' /\ [LockNext]_lockVars => [Stays]_lockVars
  <2> SUFFICES ASSUME LockInv, LockInv', NEW p \in Procs, Start(p) \/ Advance(p) \/ Dies(p),
                      NEW q \in settled, LocksOf(q), Alive(q), at[q] # "release"
               PROVE  LocksOf(q)'
    BY DEF LockNext
  <2> USE LockAssumption
  <2> USE DEF LockInv, LockTypeOK, LocksOf, Alive, Sheltered, Poised, Holding, Ended, Goto
  <2>1. at[q] = "held"
    OBVIOUS
  <2>2. CASE Start(p) \/ ReadOwner(p) \/ CheckAlive(p) \/ Finish(p) \/ Dies(p)
    BY <2>2 DEF Start, ReadOwner, CheckAlive, Finish, Dies
  <2>3. CASE Mkdir(p) \/ Remake(p)
    BY <2>1, <2>3 DEF Mkdir, Remake
  <2>4. CASE Rename(p) \/ WriteOwner(p) \/ Release(p) \/ RemoveLock(p)
    BY <2>1, <2>4 DEF Rename, WriteOwner, Release, RemoveLock
  <2> QED
    BY <2>2, <2>3, <2>4 DEF Advance
<1> QED
  BY <1>1, LockInductive, PTL DEF LockSpec, LiveLockStays
=============================================================================
