--------------------------- MODULE DashboardAppProofs ---------------------------
(***************************************************************************)
(* The dashboard's screen and its list of headless sessions, for every     *)
(* tree of panes, sessions and worktrees, and any order of what comes.     *)
(*                                                                         *)
(* Orders and lists: what is arranged by keys or left of a list has the    *)
(* elements it should, since the ranks of a finite order are all taken     *)
(* (Ranks). Hence what rows stand for (RankedIs).                          *)
(*                                                                         *)
(* The screen: a state looks like what View has of it and its rows and     *)
(* counts. The caches of these, when valid, are true of what they are made *)
(* of (CacheTrue), and a handler that does not ask for a draw leaves View  *)
(* as it was (Step); so the screen last drawn is the one that would be     *)
(* drawn from the state without any cache (ScreenInv). Each handler has    *)
(* its lemma.                                                              *)
(*                                                                         *)
(* The focus: it is one of the rows that the query leaves (Fits), and each *)
(* handler keeps it so, and the ages with the rows or has them made again  *)
(* (Moved). Hence what of it is drawn, what a command names (Named), and   *)
(* until when the ages on the screen are right (RightUntilDue).            *)
(*                                                                         *)
(* The list: what was active or asked is in the history the moment a       *)
(* request reads it (Observed), so that the poll has nothing to tell but   *)
(* that (Honest); a session that stays as it is is found when its worktree *)
(* is asked, and from there on it is among the active sessions or counted  *)
(* at its root (NothingMissed); every worktree is asked (Pending); and the *)
(* walk from a session to the end of its parents leaves a set behind that  *)
(* has all the parents of its members, so that the root it ends at is the  *)
(* session's (Walk).                                                       *)
(***************************************************************************)
EXTENDS DashboardApp, HeadlessPoller, FiniteSetTheorems, SequenceTheorems, TLAPS

-----------------------------------------------------------------------------
(* Orders and lists                                                         *)

\* A set of natural numbers has a least member.
LEMMA LeastMember ==
    ASSUME NEW T, T \subseteq Nat, T # {}
    PROVE  \E t \in T : \A u \in T : t <= u
<1> DEFINE below(t) == 0 .. t
           intervals == {below(t) : t \in T}
<1>1. intervals \subseteq FiniteSubsetsOf(Nat) /\ intervals # {}
  <2>1. ASSUME NEW t \in T PROVE IsFiniteSet(below(t)) /\ below(t) \in SUBSET Nat
    BY FS_Interval
  <2> HIDE DEF below
  <2> QED
    BY <2>1 DEF FiniteSubsetsOf
<1>2. IsWellFoundedOn(StrictSubsetOrdering(Nat), FiniteSubsetsOf(Nat))
  BY FS_StrictSubsetOrderingWellFounded
<1>3. PICK x \in intervals : \A y \in intervals : <<y, x>> \notin StrictSubsetOrdering(Nat)
  BY <1>1, <1>2, WFMin
<1>4. PICK t \in T : x = below(t)
  OBVIOUS
<1>5. ASSUME NEW u \in T, u < t PROVE FALSE
  <2>1. below(u) \subseteq below(t) /\ t \in below(t) /\ t \notin below(u)
    BY <1>5
  <2>2. below(u) \in SUBSET Nat /\ below(t) \in SUBSET Nat
    OBVIOUS
  <2>3. below(u) \in intervals
    OBVIOUS
  <2> HIDE DEF below, intervals
  <2>4. <<below(u), x>> \in StrictSubsetOrdering(Nat)
    BY <1>4, <2>1, <2>2 DEF StrictSubsetOrdering
  <2> QED
    BY <1>3, <2>3, <2>4
<1> QED
  BY <1>5

\* The least and the greatest of some indices.
LEMMA Extremes ==
    ASSUME NEW n \in Nat, NEW T, T \subseteq 1..n, T # {}
    PROVE  /\ Min(T) \in T /\ \A t \in T : Min(T) <= t
           /\ Max(T) \in T /\ \A t \in T : t <= Max(T)
<1>1. \E t \in T : \A u \in T : t <= u
  <2>1. T \subseteq Nat
    OBVIOUS
  <2> QED
    BY <2>1, LeastMember
<1>2. \E t \in T : \A u \in T : t >= u
  <2> DEFINE gaps == {n - t : t \in T}
  <2>1. gaps \subseteq Nat /\ gaps # {}
    <3>1. \A t \in T : n - t \in Nat
      OBVIOUS
    <3> QED
      BY <3>1
  <2>2. PICK g \in gaps : \A h \in gaps : g <= h
    BY <2>1, LeastMember
  <2>3. PICK t \in T : g = n - t
    OBVIOUS
  <2>4. ASSUME NEW u \in T PROVE t >= u
    <3>1. n - u \in gaps
      OBVIOUS
    <3>2. g <= n - u
      BY <2>2, <3>1
    <3> QED
      BY <2>3, <3>2
  <2> QED
    BY <2>4
<1>3. Min(T) \in T /\ \A t \in T : Min(T) <= t
  BY <1>1 DEF Min
<1>4. Max(T) \in T /\ \A t \in T : t <= Max(T)
  BY <1>2 DEF Max
<1> QED
  BY <1>3, <1>4

\* In a finite set with a total order each number below its size is the number of
\* those that come before some member.
LEMMA Ranks ==
    ASSUME NEW S, IsFiniteSet(S), NEW R,
           \A x \in S : <<x, x>> \notin R,
           \A x, y, z \in S : <<x, y>> \in R /\ <<y, z>> \in R => <<x, z>> \in R,
           \A x, y \in S : x = y \/ <<x, y>> \in R \/ <<y, x>> \in R
    PROVE  /\ Cardinality(S) \in Nat
           /\ \A k \in 1..Cardinality(S) :
                  \E x \in S : Cardinality({y \in S : <<y, x>> \in R}) = k - 1
           /\ \A x \in S : \E k \in 1..Cardinality(S) :
                  Cardinality({y \in S : <<y, x>> \in R}) = k - 1
           /\ \A x, y \in S :
                  Cardinality({z \in S : <<z, x>> \in R}) = Cardinality({z \in S : <<z, y>> \in R})
                      => x = y
<1> DEFINE Ahead(x) == {y \in S : <<y, x>> \in R}
           size == Cardinality(S)
           Rank(x) == Cardinality(Ahead(x))
<1>1. size \in Nat
  BY FS_CardinalityType
<1>2. ASSUME NEW x \in S
      PROVE  IsFiniteSet(Ahead(x)) /\ Rank(x) \in Nat /\ Rank(x) < size
  <2>1. Ahead(x) \in SUBSET S /\ x \notin Ahead(x)
    BY <1>2
  <2>2. /\ IsFiniteSet(Ahead(x)) /\ Cardinality(Ahead(x)) <= size
        /\ size = Cardinality(Ahead(x)) => S = Ahead(x)
    BY <2>1, FS_Subset
  <2>3. Cardinality(Ahead(x)) \in Nat
    BY <2>2, FS_CardinalityType
  <2> QED
    BY <1>1, <1>2, <2>1, <2>2, <2>3
<1>3. ASSUME NEW x \in S, NEW y \in S, <<x, y>> \in R
      PROVE  Rank(x) < Rank(y)
  <2>1. Ahead(x) \in SUBSET Ahead(y)
    BY <1>3
  <2>2. x \in Ahead(y) /\ x \notin Ahead(x)
    BY <1>3
  <2>3. /\ Cardinality(Ahead(x)) <= Cardinality(Ahead(y))
        /\ Cardinality(Ahead(y)) = Cardinality(Ahead(x)) => Ahead(y) = Ahead(x)
    BY <1>2, <2>1, FS_Subset
  <2>4. Cardinality(Ahead(x)) # Cardinality(Ahead(y))
    BY <2>2, <2>3
  <2>5. Rank(x) \in Nat /\ Rank(y) \in Nat
    BY <1>2
  <2> HIDE DEF Ahead
  <2> QED
    BY <2>3, <2>4, <2>5
<1>4. /\ \A x \in S : Rank(x) \in Nat /\ Rank(x) < size
      /\ \A x, y \in S : <<x, y>> \in R => Rank(x) < Rank(y)
  BY <1>2, <1>3
<1> HIDE DEF Rank
<1>5. ASSUME NEW x \in S, NEW y \in S, Rank(x) = Rank(y) PROVE x = y
  <2>1. <<x, y>> \notin R /\ <<y, x>> \notin R
    BY <1>4, <1>5
  <2> QED
    BY <2>1
<1> HIDE DEF Ahead, size
<1>6. ASSUME NEW k \in Nat, k < size PROVE \E x \in S : Rank(x) = k
  <2> DEFINE ranks == 0 .. (size - 1)
             place == [x \in S |-> Rank(x)]
  <2>1. IsFiniteSet(ranks) /\ Cardinality(ranks) = size
    BY <1>1, FS_Interval
  <2>2. place \in [S -> ranks]
    BY <1>1, <1>4
  <2>3. place \in Injection(S, ranks)
    BY <1>5, <2>2 DEF Injection, IsInjective
  <2>4. place \in Surjection(S, ranks)
    BY <2>1, <2>3, FS_Injection DEF size
  <2>5. k \in ranks
    BY <1>1, <1>6
  <2> HIDE DEF ranks
  <2>6. PICK x \in S : place[x] = k
    BY <2>4, <2>5 DEF Surjection
  <2> QED
    BY <2>6
<1>7. ASSUME NEW k \in 1..size PROVE \E x \in S : Rank(x) = k - 1
  <2>1. k - 1 \in Nat /\ k - 1 < size
    BY <1>1, <1>7
  <2> QED
    BY <1>6, <2>1
<1>8. ASSUME NEW x \in S PROVE \E k \in 1..size : Rank(x) = k - 1
  <2>1. PICK r \in Nat : r = Rank(x) /\ r < size
    BY <1>4, <1>8
  <2>2. r + 1 \in 1..size /\ r = (r + 1) - 1
    BY <1>1, <2>1
  <2> QED
    BY <2>1, <2>2
<1> QED
  BY <1>1, <1>5, <1>7, <1>8 DEF Rank, Ahead, size

-----------------------------------------------------------------------------
\* Tuples of one length are totally ordered.
LEMMA LessIsTotal ==
    ASSUME NEW n \in Nat, NEW S, S \subseteq Seq(Int), \A t \in S : Len(t) = n
    PROVE  /\ \A t \in S : ~Less(t, t)
           /\ \A t, u, v \in S : Less(t, u) /\ Less(u, v) => Less(t, v)
           /\ \A t, u \in S : t = u \/ Less(t, u) \/ Less(u, t)
<1>1. ASSUME NEW t \in S PROVE DOMAIN t = 1..n /\ \A i \in 1..n : t[i] \in Int
  BY <1>1
<1>2. ASSUME NEW t \in S PROVE ~Less(t, t)
  BY <1>1, <1>2 DEF Less
<1>3. ASSUME NEW t \in S, NEW u \in S, NEW v \in S, Less(t, u), Less(u, v) PROVE Less(t, v)
  <2>1. PICK i \in 1..n : t[i] < u[i] /\ \A k \in 1..(i - 1) : t[k] = u[k]
    BY <1>1, <1>3 DEF Less
  <2>2. PICK j \in 1..n : u[j] < v[j] /\ \A k \in 1..(j - 1) : u[k] = v[k]
    BY <1>1, <1>3 DEF Less
  <2>3. DOMAIN t = 1..n /\ \A k \in 1..n : t[k] \in Int /\ u[k] \in Int /\ v[k] \in Int
    BY <1>1
  <2>4. CASE i <= j
    <3>1. t[i] < v[i]
      BY <2>1, <2>2, <2>3, <2>4
    <3>2. \A k \in 1..(i - 1) : t[k] = v[k]
      BY <2>1, <2>2, <2>3, <2>4
    <3> QED
      BY <2>3, <3>1, <3>2 DEF Less
  <2>5. CASE j < i
    <3>1. t[j] < v[j]
      BY <2>1, <2>2, <2>3, <2>5
    <3>2. \A k \in 1..(j - 1) : t[k] = v[k]
      BY <2>1, <2>2, <2>3, <2>5
    <3> QED
      BY <2>3, <3>1, <3>2 DEF Less
  <2> QED
    BY <2>4, <2>5
<1>4. ASSUME NEW t \in S, NEW u \in S, t # u PROVE Less(t, u) \/ Less(u, t)
  <2> DEFINE apart == {i \in 1..n : t[i] # u[i]}
  <2>1. /\ DOMAIN t = 1..n /\ DOMAIN u = 1..n
        /\ \A k \in 1..n : t[k] \in Int /\ u[k] \in Int
    BY <1>1
  <2>2. t = [k \in 1..n |-> t[k]] /\ u = [k \in 1..n |-> u[k]]
    BY <2>1
  <2>3. apart # {}
    BY <1>4, <2>2
  <2>4. apart \subseteq Nat
    OBVIOUS
  <2>5. PICK i \in apart : \A j \in apart : i <= j
    <3> HIDE DEF apart
    <3> QED
      BY <2>3, <2>4, LeastMember
  <2>6. i \in 1..n /\ \A j \in 1..(i - 1) : t[j] = u[j]
    BY <2>5
  <2>7. t[i] < u[i] \/ u[i] < t[i]
    BY <2>1, <2>5
  <2> QED
    BY <2>1, <2>6, <2>7 DEF Less
<1> QED
  BY <1>2, <1>3, <1>4

\* Tuples put in order are the tuples, each once.
LEMMA InOrderIs ==
    ASSUME NEW n \in Nat, NEW S, IsFiniteSet(S), S \subseteq Seq(Int), \A t \in S : Len(t) = n
    PROVE  /\ Cardinality(S) \in Nat
           /\ InOrder(S) \in [1..Cardinality(S) -> S]
           /\ \A t \in S : \E k \in 1..Cardinality(S) : InOrder(S)[k] = t
<1> DEFINE R == {p \in S \X S : Less(p[1], p[2])}
           Before(t) == Cardinality({u \in S : Less(u, t)})
<1>1. ASSUME NEW t \in S, NEW u \in S PROVE <<t, u>> \in R <=> Less(t, u)
  OBVIOUS
<1>2. /\ \A t \in S : <<t, t>> \notin R
      /\ \A t, u, v \in S : <<t, u>> \in R /\ <<u, v>> \in R => <<t, v>> \in R
      /\ \A t, u \in S : t = u \/ <<t, u>> \in R \/ <<u, t>> \in R
  <2> HIDE DEF R
  <2> QED
    BY <1>1, LessIsTotal
<1>3. ASSUME NEW t \in S PROVE {u \in S : <<u, t>> \in R} = {u \in S : Less(u, t)}
  BY <1>1
<1> HIDE DEF R
<1>4. /\ Cardinality(S) \in Nat
      /\ \A k \in 1..Cardinality(S) : \E t \in S : Before(t) = k - 1
      /\ \A t \in S : \E k \in 1..Cardinality(S) : Before(t) = k - 1
      /\ \A t, u \in S : Before(t) = Before(u) => t = u
  <2>1. /\ Cardinality(S) \in Nat
        /\ \A k \in 1..Cardinality(S) :
               \E x \in S : Cardinality({y \in S : <<y, x>> \in R}) = k - 1
        /\ \A x \in S : \E k \in 1..Cardinality(S) :
               Cardinality({y \in S : <<y, x>> \in R}) = k - 1
        /\ \A x, y \in S :
               Cardinality({z \in S : <<z, x>> \in R}) = Cardinality({z \in S : <<z, y>> \in R})
                   => x = y
    BY <1>2, Ranks
  <2>2. \A t \in S : Before(t) = Cardinality({u \in S : <<u, t>> \in R})
    BY <1>3
  <2> HIDE DEF Before
  <2> QED
    BY <2>1, <2>2
<1>5. InOrder(S) = [k \in 1..Cardinality(S) |-> CHOOSE t \in S : Before(t) = k - 1]
  BY DEF InOrder
<1> HIDE DEF Before
<1>6. ASSUME NEW k \in 1..Cardinality(S)
      PROVE  InOrder(S)[k] \in S /\ Before(InOrder(S)[k]) = k - 1
  BY <1>4, <1>5
<1>7. ASSUME NEW t \in S PROVE \E k \in 1..Cardinality(S) : InOrder(S)[k] = t
  <2>1. PICK k \in 1..Cardinality(S) : Before(t) = k - 1
    BY <1>4
  <2>2. InOrder(S)[k] = t
    BY <1>4, <1>6, <2>1
  <2> QED
    BY <2>2
<1> QED
  BY <1>4, <1>5, <1>6, <1>7

\* What a finite set is mapped to is finite.
LEMMA ImageFinite ==
    ASSUME NEW I, IsFiniteSet(I), NEW f, DOMAIN f = I
    PROVE  IsFiniteSet({f[i] : i \in I})
<1> DEFINE image == {f[i] : i \in I}
           g == [i \in I |-> f[i]]
<1>1. g \in Surjection(I, image)
  BY DEF Surjection
<1> QED
  BY <1>1, FS_Surjection

\* The indices of a sequence are finitely many.
LEMMA Indices ==
    ASSUME NEW X, NEW s \in Seq(X)
    PROVE  Len(s) \in Nat /\ DOMAIN s = 1..Len(s) /\ IsFiniteSet(DOMAIN s)
BY FS_Interval

\* Elements that are put in order.
LEMMA ArrangedIs ==
    ASSUME NEW X, NEW s \in Seq(X), NEW n \in Nat \ {0}, NEW S, IsFiniteSet(S),
           S \subseteq Seq(Int), \A t \in S : Len(t) = n /\ t[n] \in DOMAIN s
    PROVE  /\ Arranged(s, S) \in Seq(X)
           /\ ToSet(Arranged(s, S)) = {s[t[n]] : t \in S}
<1> DEFINE order == InOrder(S)
           size == Cardinality(S)
           r == Arranged(s, S)
<1>1. /\ size \in Nat /\ order \in [1..size -> S]
      /\ \A t \in S : \E k \in 1..size : order[k] = t
  BY InOrderIs
<1>2. r = [k \in DOMAIN order |-> s[Last(order[k])]]
  BY DEF Arranged
<1>3. DOMAIN order = 1..size
  BY <1>1
<1> HIDE DEF order, size, r
<1>4. ASSUME NEW k \in 1..size PROVE order[k] \in S /\ Last(order[k]) = order[k][n]
  BY <1>1, <1>4 DEF Last
<1>5. r = [k \in 1..size |-> s[order[k][n]]]
  BY <1>2, <1>3, <1>4
<1>6. \A k \in 1..size : s[order[k][n]] \in X
  BY <1>4
<1>7. r \in Seq(X) /\ DOMAIN r = 1..size
  BY <1>1, <1>5, <1>6
<1>8. ToSet(r) = {s[t[n]] : t \in S}
  BY <1>1, <1>4, <1>5, <1>7 DEF ToSet
<1> QED
  BY <1>7, <1>8 DEF r

\* Elements that are picked by their indices.
LEMMA OnlyIs ==
    ASSUME NEW X, NEW s \in Seq(X), NEW I, I \subseteq DOMAIN s
    PROVE  /\ Only(s, I) \in Seq(X) /\ ToSet(Only(s, I)) = {s[i] : i \in I}
           /\ Len(Only(s, I)) = Cardinality(I)
<1> DEFINE R == {p \in I \X I : p[1] < p[2]}
           before(i) == Cardinality({j \in I : j < i})
           size == Cardinality(I)
           r == Only(s, I)
<1>1. IsFiniteSet(I) /\ I \subseteq Nat
  <2>1. DOMAIN s = 1..Len(s) /\ IsFiniteSet(DOMAIN s) /\ Len(s) \in Nat
    BY Indices
  <2> QED
    BY <2>1, FS_Subset
<1>2. ASSUME NEW i \in I, NEW j \in I PROVE <<i, j>> \in R <=> i < j
  OBVIOUS
<1>3. ASSUME NEW i \in I PROVE {j \in I : <<j, i>> \in R} = {j \in I : j < i}
  BY <1>2
<1> HIDE DEF R
<1>4. /\ \A i \in I : <<i, i>> \notin R
      /\ \A i, j, k \in I : <<i, j>> \in R /\ <<j, k>> \in R => <<i, k>> \in R
      /\ \A i, j \in I : i = j \/ <<i, j>> \in R \/ <<j, i>> \in R
  BY <1>1, <1>2
<1>5. /\ size \in Nat
      /\ \A k \in 1..size : \E i \in I : before(i) = k - 1
      /\ \A i \in I : \E k \in 1..size : before(i) = k - 1
      /\ \A i, j \in I : before(i) = before(j) => i = j
  <2>1. /\ size \in Nat
        /\ \A k \in 1..size : \E i \in I : Cardinality({j \in I : <<j, i>> \in R}) = k - 1
        /\ \A i \in I : \E k \in 1..size : Cardinality({j \in I : <<j, i>> \in R}) = k - 1
        /\ \A i, j \in I :
               Cardinality({k \in I : <<k, i>> \in R}) = Cardinality({k \in I : <<k, j>> \in R})
                   => i = j
    BY <1>1, <1>4, Ranks
  <2>2. \A i \in I : before(i) = Cardinality({j \in I : <<j, i>> \in R})
    BY <1>3
  <2> HIDE DEF before, size
  <2> QED
    BY <2>1, <2>2
<1> DEFINE at(k) == CHOOSE i \in I : before(i) = k - 1
<1>6. r = [k \in 1..size |-> s[at(k)]]
  BY DEF Only
<1> HIDE DEF before, size, r
<1>7. ASSUME NEW k \in 1..size PROVE at(k) \in I /\ before(at(k)) = k - 1
  BY <1>5, <1>7
<1>8. ASSUME NEW i \in I PROVE \E k \in 1..size : at(k) = i
  <2>1. PICK k \in 1..size : before(i) = k - 1
    BY <1>5
  <2>2. at(k) = i
    BY <1>5, <1>7, <2>1
  <2> QED
    BY <2>2
<1> HIDE DEF at
<1>9. \A k \in 1..size : s[at(k)] \in X
  BY <1>7
<1>10. r \in Seq(X) /\ DOMAIN r = 1..size /\ Len(r) = size
  BY <1>5, <1>6, <1>9
<1>11. ToSet(r) = {s[i] : i \in I}
  BY <1>6, <1>7, <1>8, <1>10 DEF ToSet
<1> QED
  BY <1>10, <1>11 DEF r, size

-----------------------------------------------------------------------------
(* What snapshots make                                                      *)

Membership ==
    [session : Ids, window : Ids, pane : Ids, windex : Nat, pindex : Nat, active : BOOLEAN]

\* A model names sessions and panes that it has, and its times and statuses are known.
ModelOK(model) ==
    /\ model.memberships \in Seq(Membership)
    /\ model.headless \in Seq(HeadlessRecord)
    /\ IsFiniteSet(DOMAIN model.sessions) /\ DOMAIN model.sessions \subseteq Ids
    /\ \A s \in DOMAIN model.sessions : model.sessions[s] \in Nat
    /\ \A p \in DOMAIN model.panes :
           model.panes[p].status \in Statuses /\ model.panes[p].since \in Times
    /\ \A i \in DOMAIN model.memberships :
           /\ model.memberships[i].session \in DOMAIN model.sessions
           /\ model.memberships[i].pane \in DOMAIN model.panes

\* parse
LEMMA ParseIs ==
    ASSUME NEW lines \in Seq(Line)
    PROVE  Parse(lines).records \in Seq(RawRecord)
<1> DEFINE whole == {i \in DOMAIN lines : lines[i].form = "whole"}
           records == [i \in DOMAIN lines |-> lines[i].record]
<1>1. Parse(lines).records = Only(records, whole)
  BY DEF Parse
<1>2. records \in Seq(RawRecord) /\ DOMAIN records = DOMAIN lines
  <2>1. DOMAIN lines = 1..Len(lines) /\ Len(lines) \in Nat
    BY Indices
  <2>2. \A i \in DOMAIN lines : lines[i] \in Line
    OBVIOUS
  <2>3. \A i \in DOMAIN lines : lines[i].record \in RawRecord
    BY <2>2 DEF Line
  <2> QED
    BY <2>1, <2>3
<1> HIDE DEF records
<1>3. whole \subseteq DOMAIN records
  BY <1>2
<1> HIDE DEF whole
<1> QED
  BY <1>1, <1>2, <1>3, OnlyIs

\* The list of headless sessions is sorted and has no session twice; what is left of
\* it are records that the source sent.
LEMMA UnattachedIs ==
    ASSUME NEW headless \in Seq(HeadlessRecord), NEW panes
    PROVE  Unattached(headless, panes) \in Seq(HeadlessRecord)
<1> DEFINE taken == {panes[p].opencode : p \in DOMAIN panes} \ {None}
           first == {i \in DOMAIN headless :
                         /\ headless[i].id \notin taken
                         /\ \A j \in 1..(i - 1) : headless[j].id # headless[i].id}
           place == [i \in first |-> <<headless[i].id, i>>]
           places == {<<headless[i].id, i>> : i \in first}
<1>1. Unattached(headless, panes) = Arranged(headless, places)
  BY DEF Unattached
<1>2. first \subseteq DOMAIN headless
  OBVIOUS
<1> HIDE DEF first
<1>3. IsFiniteSet(first)
  BY <1>2, Indices, FS_Subset
<1>4. places = {place[i] : i \in first}
  OBVIOUS
<1>5. IsFiniteSet(places)
  <2> HIDE DEF place, places
  <2>1. DOMAIN place = first
    BY DEF place
  <2> QED
    BY <1>3, <1>4, <2>1, ImageFinite
<1>6. ASSUME NEW t \in places
      PROVE  t \in Seq(Int) /\ Len(t) = 2 /\ t[2] \in DOMAIN headless
  <2>1. PICK i \in first : t = <<headless[i].id, i>>
    OBVIOUS
  <2>2. headless[i] \in HeadlessRecord /\ i \in DOMAIN headless /\ i \in Int
    BY <1>2
  <2>3. headless[i].id \in Int
    BY <2>2 DEF HeadlessRecord, Ids
  <2> QED
    BY <2>1, <2>2, <2>3
<1> DEFINE n == 2
<1>7. /\ n \in Nat \ {0} /\ places \subseteq Seq(Int)
      /\ \A t \in places : Len(t) = n /\ t[n] \in DOMAIN headless
  BY <1>6
<1> HIDE DEF taken, place, places, n
<1>8. Arranged(headless, places) \in Seq(HeadlessRecord)
  BY <1>5, <1>7, ArrangedIs
<1> QED
  BY <1>1, <1>8

\* build_complete: sessions and panes are those of the memberships.
LEMMA BuildIs ==
    ASSUME NEW records \in Seq(RawRecord), NEW headless \in Seq(HeadlessRecord),
           NEW time, NEW ephemeral
    PROVE  ModelOK(Build(records, headless, time, ephemeral))
<1> DEFINE its == {i \in DOMAIN records : \/ IsDiscovered(records[i], time)
                                          \/ ~records[i].dead /\ records[i].pane \in ephemeral}
           kept == Only(records, its)
           lastOf(pane) == Max({i \in DOMAIN kept : kept[i].pane = pane})
           lastIn(session) == Max({i \in DOMAIN kept : kept[i].session = session})
           names == {kept[i].session : i \in DOMAIN kept}
           panes == [p \in {kept[i].pane : i \in DOMAIN kept} |-> PaneOf(kept[lastOf(p)], time)]
           sessions == [s \in names |-> kept[lastIn(s)].name]
           memberships == [i \in DOMAIN kept |-> MembershipOf(kept[i])]
           model == Build(records, headless, time, ephemeral)
<1>1. /\ model.memberships = memberships /\ model.panes = panes /\ model.sessions = sessions
      /\ model.headless = Unattached(headless, panes)
  BY DEF Build
<1>2. kept \in Seq(RawRecord)
  <2>1. its \subseteq DOMAIN records
    OBVIOUS
  <2> HIDE DEF its
  <2> QED
    BY <2>1, OnlyIs
<1> HIDE DEF kept
<1>3. Len(kept) \in Nat /\ DOMAIN kept = 1..Len(kept) /\ IsFiniteSet(DOMAIN kept)
  BY <1>2, Indices
<1>4. ASSUME NEW i \in DOMAIN kept
      PROVE  /\ MembershipOf(kept[i]) \in Membership
             /\ MembershipOf(kept[i]).session = kept[i].session
             /\ MembershipOf(kept[i]).pane = kept[i].pane
             /\ kept[i].session \in Ids /\ kept[i].name \in Nat /\ kept[i].since \in Times
  <2>1. kept[i] \in RawRecord
    BY <1>2, <1>4
  <2> QED
    BY <2>1 DEF RawRecord, MembershipOf, Membership
<1>5. memberships \in Seq(Membership) /\ DOMAIN memberships = DOMAIN kept
  <2>1. \A i \in 1..Len(kept) : MembershipOf(kept[i]) \in Membership
    BY <1>3, <1>4
  <2> QED
    BY <1>3, <2>1
<1>6. IsFiniteSet(names) /\ names \subseteq Ids
  <2> DEFINE f == [i \in DOMAIN kept |-> kept[i].session]
  <2>1. DOMAIN f = DOMAIN kept /\ names = {f[i] : i \in DOMAIN kept}
    OBVIOUS
  <2>2. names \subseteq Ids
    BY <1>4
  <2> HIDE DEF f, names
  <2> QED
    BY <1>3, <2>1, <2>2, ImageFinite
<1>7. ASSUME NEW s \in names PROVE sessions[s] \in Nat
  <2> DEFINE T == {i \in DOMAIN kept : kept[i].session = s}
  <2>1. T \subseteq 1..Len(kept) /\ T # {}
    BY <1>3
  <2>2. Max(T) \in T
    <3> HIDE DEF T
    <3> QED
      BY <1>3, <2>1, Extremes
  <2>3. lastIn(s) \in DOMAIN kept
    BY <2>2
  <2> HIDE DEF lastIn
  <2> QED
    BY <1>4, <2>3
<1>8. ASSUME NEW p \in DOMAIN panes
      PROVE  panes[p].status \in Statuses /\ panes[p].since \in Times
  <2> DEFINE T == {i \in DOMAIN kept : kept[i].pane = p}
  <2>1. T \subseteq 1..Len(kept) /\ T # {}
    BY <1>3
  <2>2. Max(T) \in T
    <3> HIDE DEF T
    <3> QED
      BY <1>3, <2>1, Extremes
  <2>3. lastOf(p) \in DOMAIN kept
    BY <2>2
  <2> HIDE DEF lastOf
  <2>4. panes[p] = PaneOf(kept[lastOf(p)], time)
    OBVIOUS
  <2>5. kept[lastOf(p)].since \in Times
    BY <1>4, <2>3
  <2>6. \A record : DeriveStatus(record, time) \in Statuses
    BY DEF DeriveStatus, Statuses
  <2> QED
    BY <2>4, <2>5, <2>6 DEF PaneOf
<1>9. ASSUME NEW i \in DOMAIN memberships
      PROVE  memberships[i].session \in names /\ memberships[i].pane \in DOMAIN panes
  BY <1>4, <1>5
<1>10. DOMAIN sessions = names
  OBVIOUS
<1>11. Unattached(headless, panes) \in Seq(HeadlessRecord)
  BY UnattachedIs
<1> HIDE DEF memberships, panes, sessions, names, model
<1> QED
  BY <1>1, <1>5, <1>6, <1>7, <1>8, <1>9, <1>10, <1>11 DEF ModelOK, model

\* replace_headless
LEMMA ReplaceHeadlessIs ==
    ASSUME NEW model, ModelOK(model), NEW headless \in Seq(HeadlessRecord)
    PROVE  ModelOK(ReplaceHeadless(model, headless))
<1> DEFINE list == Unattached(headless, model.panes)
           new == [model EXCEPT !.headless = list]
<1>1. list \in Seq(HeadlessRecord)
  BY UnattachedIs
<1> HIDE DEF list
<1> QED
  BY <1>1 DEF ModelOK, ReplaceHeadless, list

\* A sequence, of whatever it has.
IsList(s) == s \in Seq(ToSet(s))

\* Every sequence is one.
LEMMA Lists ==
    /\ \A X : \A s \in Seq(X) : IsList(s) /\ ToSet(s) \subseteq X
    /\ IsList(<<>>) /\ ToSet(<<>>) = {}
<1>1. ASSUME NEW X, NEW s \in Seq(X) PROVE IsList(s) /\ ToSet(s) \subseteq X
  <2>1. \A i \in DOMAIN s : s[i] \in X
    OBVIOUS
  <2>2. ToSet(s) \subseteq X
    BY <2>1 DEF ToSet
  <2>3. \A i \in 1..Len(s) : s[i] \in ToSet(s)
    BY DEF ToSet
  <2>4. s \in Seq(ToSet(s))
    BY <2>3
  <2> QED
    BY <2>2, <2>4 DEF IsList
<1>2. IsList(<<>>) /\ ToSet(<<>>) = {}
  BY DEF IsList, ToSet
<1> QED
  BY <1>1, <1>2

\* One element.
LEMMA Single ==
    ASSUME NEW x
    PROVE  IsList(<<x>>) /\ ToSet(<<x>>) = {x}
<1> DEFINE s == <<x>>
<1>1. s \in Seq({x}) /\ DOMAIN s = {1} /\ s[1] = x
  OBVIOUS
<1> HIDE DEF s
<1>2. ToSet(s) = {x}
  BY <1>1 DEF ToSet
<1> QED
  BY <1>1, <1>2, Lists DEF s

\* The indices of a list.
LEMMA ListIs ==
    ASSUME NEW s, IsList(s)
    PROVE  Len(s) \in Nat /\ DOMAIN s = 1..Len(s) /\ IsFiniteSet(DOMAIN s)
BY Indices DEF IsList

\* A function on 1..n is one.
LEMMA ListOf ==
    ASSUME NEW n \in Nat, NEW f, DOMAIN f = 1..n
    PROVE  LET s == [i \in 1..n |-> f[i]] IN
           IsList(s) /\ ToSet(s) = {f[i] : i \in 1..n} /\ Len(s) = n
<1> DEFINE s == [i \in 1..n |-> f[i]]
           X == {f[i] : i \in 1..n}
<1>1. s \in Seq(X) /\ DOMAIN s = 1..n /\ Len(s) = n
  OBVIOUS
<1>2. ToSet(s) = X
  BY <1>1 DEF ToSet
<1> HIDE DEF s, X
<1>3. IsList(s)
  BY <1>1, Lists
<1> QED
  BY <1>1, <1>2, <1>3 DEF s, X

\* What is joined has the elements of both.
LEMMA Joined ==
    ASSUME NEW s, IsList(s), NEW t, IsList(t)
    PROVE  IsList(s \o t) /\ ToSet(s \o t) = ToSet(s) \cup ToSet(t)
<1> DEFINE X == ToSet(s) \cup ToSet(t)
           u == s \o t
<1>1. s \in Seq(X) /\ t \in Seq(X)
  <2>1. /\ Len(s) \in Nat /\ DOMAIN s = 1..Len(s) /\ s \in Seq(ToSet(s))
        /\ Len(t) \in Nat /\ DOMAIN t = 1..Len(t) /\ t \in Seq(ToSet(t))
    BY ListIs DEF IsList
  <2> QED
    BY <2>1
<1>2. /\ u \in Seq(X) /\ Len(u) = Len(s) + Len(t)
      /\ \A i \in 1..Len(s) : u[i] = s[i]
      /\ \A i \in 1..Len(t) : u[Len(s) + i] = t[i]
  BY <1>1
<1>3. ToSet(u) \subseteq X
  BY <1>2, Lists
<1>4. /\ Len(s) \in Nat /\ DOMAIN s = 1..Len(s) /\ Len(t) \in Nat /\ DOMAIN t = 1..Len(t)
      /\ DOMAIN u = 1..(Len(s) + Len(t))
  BY <1>1, <1>2
<1> HIDE DEF u
<1>5. ASSUME NEW x \in ToSet(s) PROVE x \in ToSet(u)
  <2>1. PICK i \in 1..Len(s) : x = s[i]
    BY <1>4 DEF ToSet
  <2>2. i \in DOMAIN u /\ u[i] = x
    BY <1>2, <1>4, <2>1
  <2> QED
    BY <2>2 DEF ToSet
<1>6. ASSUME NEW x \in ToSet(t) PROVE x \in ToSet(u)
  <2>1. PICK i \in 1..Len(t) : x = t[i]
    BY <1>4 DEF ToSet
  <2>2. Len(s) + i \in DOMAIN u /\ u[Len(s) + i] = x
    BY <1>2, <1>4, <2>1
  <2> QED
    BY <2>2 DEF ToSet
<1> QED
  BY <1>2, <1>3, <1>5, <1>6, Lists DEF u

\* Some elements of a list.
LEMMA OnlyOf ==
    ASSUME NEW s, IsList(s), NEW I, I \subseteq DOMAIN s
    PROVE  IsList(Only(s, I)) /\ ToSet(Only(s, I)) = {s[i] : i \in I}
BY OnlyIs, Lists DEF IsList

\* Some elements of a list, put in order.
LEMMA ArrangedOf ==
    ASSUME NEW s, IsList(s), NEW n \in Nat \ {0}, NEW S, IsFiniteSet(S),
           S \subseteq Seq(Int), \A t \in S : Len(t) = n /\ t[n] \in DOMAIN s
    PROVE  IsList(Arranged(s, S)) /\ ToSet(Arranged(s, S)) = {s[t[n]] : t \in S}
BY ArrangedIs, Lists DEF IsList

\* Keys are put together of numbers.
Key(s, n) == s \in Seq(Int) /\ Len(s) = n

\* A key with an index at its end.
LEMMA LongerKey ==
    ASSUME NEW s, NEW n, n \in Nat, Key(s, n), NEW i \in Int, NEW m, m = n + 1
    PROVE  Key(Append(s, i), m) /\ Append(s, i)[m] = i
BY DEF Key

\* Two keys, joined.
LEMMA JoinedKeys ==
    ASSUME NEW s, NEW t, NEW m, NEW n, m \in Nat, n \in Nat, Key(s, m), Key(t, n),
           NEW k, k = m + n
    PROVE  Key(s \o t, k)
BY DEF Key

\* Some elements, in the order of keys that end with their indices.
LEMMA ArrangedBy ==
    ASSUME NEW s, IsList(s), NEW n \in Nat \ {0}, NEW I, I \subseteq DOMAIN s, NEW key,
           DOMAIN key = I, \A i \in I : Key(key[i], n) /\ key[i][n] = i,
           NEW S, \A x : x \in S <=> \E i \in I : x = key[i]
    PROVE  IsList(Arranged(s, S)) /\ ToSet(Arranged(s, S)) = {s[i] : i \in I}
<1>0. S = {key[i] : i \in I}
  OBVIOUS
<1>1. IsFiniteSet(S)
  <2>1. IsFiniteSet(I)
    BY ListIs, FS_Subset
  <2> QED
    BY <1>0, <2>1, ImageFinite
<1>2. \A i \in I : key[i] \in S
  OBVIOUS
<1>3. \A t \in S : t \in Seq(Int) /\ Len(t) = n /\ t[n] \in I /\ t = key[t[n]]
  BY DEF Key
<1>4. IsList(Arranged(s, S)) /\ ToSet(Arranged(s, S)) = {s[t[n]] : t \in S}
  BY <1>1, <1>3, ArrangedOf
<1>5. {s[t[n]] : t \in S} = {s[i] : i \in I}
  BY <1>2, <1>3
<1> QED
  BY <1>4, <1>5

-----------------------------------------------------------------------------
(* Rows                                                                     *)

\* A row of a model.
Row(model, r) ==
    /\ r.since \in Times
    /\ \/ r.focus = HeadlessHeader
       \/ \E h \in ToSet(model.headless) : r.focus = Headless(h.id)
       \/ \E s \in DOMAIN model.sessions : r.focus = Header(s)
       \/ \E m \in ToSet(model.memberships) : r.focus = PaneFocus(m)

\* A membership of a model.
LEMMA MembershipIs ==
    ASSUME NEW model, ModelOK(model), NEW i \in DOMAIN model.memberships
    PROVE  LET m == model.memberships[i] IN
           /\ i \in Int /\ m \in ToSet(model.memberships)
           /\ m.session \in DOMAIN model.sessions /\ m.pane \in DOMAIN model.panes
           /\ m.session \in Int /\ m.windex \in Int /\ m.pindex \in Int
           /\ m.window \in Int /\ m.pane \in Int /\ model.sessions[m.session] \in Int
<1> DEFINE m == model.memberships[i]
<1>1. m \in Membership /\ i \in Int /\ m \in ToSet(model.memberships)
  BY DEF ModelOK, ToSet
<1>2. m.session \in DOMAIN model.sessions /\ m.pane \in DOMAIN model.panes
  BY DEF ModelOK
<1> HIDE DEF m
<1>3. model.sessions[m.session] \in Int
  BY <1>2 DEF ModelOK
<1>4. /\ m.session \in Int /\ m.windex \in Int /\ m.pindex \in Int
      /\ m.window \in Int /\ m.pane \in Int
  BY <1>1 DEF Membership, Ids
<1> QED
  BY <1>1, <1>2, <1>3, <1>4 DEF m

\* The rows of headless sessions.
LEMMA HeadlessRowsIs ==
    ASSUME NEW model, ModelOK(model)
    PROVE  /\ IsList(HeadlessRows(model))
           /\ Len(HeadlessRows(model)) = Len(model.headless)
           /\ \A r \in ToSet(HeadlessRows(model)) : Row(model, r) /\ r.status \in Statuses
<1> DEFINE f == [i \in DOMAIN model.headless |-> HeadlessRow(model.headless[i])]
           n == Len(model.headless)
<1>1. n \in Nat /\ DOMAIN model.headless = 1..n
  BY Indices DEF ModelOK
<1>2. HeadlessRows(model) = [i \in 1..n |-> f[i]] /\ DOMAIN f = 1..n
  BY <1>1 DEF HeadlessRows
<1> HIDE DEF n
<1>3. ASSUME NEW i \in 1..n PROVE Row(model, f[i]) /\ f[i].status \in Statuses
  <2>1. model.headless[i] \in HeadlessRecord /\ model.headless[i] \in ToSet(model.headless)
    BY <1>1, <1>3 DEF ModelOK, ToSet
  <2>2. f[i] = HeadlessRow(model.headless[i])
    BY <1>1, <1>3
  <2>3. /\ f[i].since = model.headless[i].since /\ f[i].status = model.headless[i].status
        /\ f[i].focus = Headless(model.headless[i].id)
    BY <2>2 DEF HeadlessRow
  <2> HIDE DEF f
  <2>4. f[i].since \in Times /\ f[i].status \in Statuses
    BY <2>1, <2>3 DEF HeadlessRecord
  <2> QED
    BY <2>1, <2>3, <2>4 DEF Row
<1> HIDE DEF f
<1>4. /\ IsList(HeadlessRows(model)) /\ ToSet(HeadlessRows(model)) = {f[i] : i \in 1..n}
      /\ Len(HeadlessRows(model)) = n
  BY <1>1, <1>2, ListOf
<1> QED
  BY <1>3, <1>4 DEF n

\* The row of a membership.
LEMMA PaneRowIs ==
    ASSUME NEW model, ModelOK(model), NEW i \in DOMAIN model.memberships
    PROVE  /\ PaneRow(model, model.memberships[i]).focus = PaneFocus(model.memberships[i])
           /\ Row(model, PaneRow(model, model.memberships[i]))
           /\ PaneRow(model, model.memberships[i]).status \in Statuses
<1> DEFINE m == model.memberships[i]
           r == PaneRow(model, m)
<1>1. m \in ToSet(model.memberships) /\ m.pane \in DOMAIN model.panes
  BY DEF ToSet, ModelOK
<1>2. /\ r.focus = PaneFocus(m) /\ r.since = model.panes[m.pane].since
      /\ r.status = model.panes[m.pane].status
  BY DEF PaneRow
<1> HIDE DEF r, m
<1>3. r.since \in Times /\ r.status \in Statuses
  BY <1>1, <1>2 DEF ModelOK
<1> QED
  BY <1>1, <1>2, <1>3 DEF Row, r, m

\* The row of a session.
LEMMA SessionHeaderIs ==
    ASSUME NEW model, NEW s
    PROVE  /\ SessionHeader(model, s).focus = Header(s)
           /\ s \in DOMAIN model.sessions => Row(model, SessionHeader(model, s))
<1>1. SessionHeader(model, s).focus = Header(s) /\ SessionHeader(model, s).since = Never
  BY DEF SessionHeader, HeaderRow
<1>2. Never \in Times
  BY DEF Times
<1> QED
  BY <1>1, <1>2 DEF Row

\* Grouped rows: all sessions and all memberships.
LEMMA GroupedIs ==
    ASSUME NEW model, ModelOK(model)
    PROVE  LET rows == GroupedRows(model) IN
           /\ IsList(rows) /\ \A r \in ToSet(rows) : Row(model, r)
           /\ \A m \in ToSet(model.memberships) : \E r \in ToSet(rows) : r.focus = PaneFocus(m)
           /\ \A s \in DOMAIN model.sessions : \E r \in ToSet(rows) : r.focus = Header(s)
<1> DEFINE list == HeadlessRows(model)
           header == HeaderRow(HeadlessHeader, None, [i \in DOMAIN list |-> list[i].status])
           sessions == DOMAIN model.sessions
           indices == DOMAIN model.memberships
           heads == {HeaderOrder(model, s) : s \in sessions}
           members == {GroupedOrder(model, i) : i \in indices}
           places == heads \cup members
           order == InOrder(places)
           row(place) == IF place[3] = 0 THEN SessionHeader(model, place[2])
                         ELSE PaneRow(model, model.memberships[place[6]])
           front == IF list = <<>> THEN <<>> ELSE <<header>> \o list
           back == [k \in DOMAIN order |-> row(order[k])]
<1>1. GroupedRows(model) = front \o back
  BY DEF GroupedRows
<1>2. IsList(list) /\ \A r \in ToSet(list) : Row(model, r)
  BY HeadlessRowsIs
<1>3. Row(model, header)
  <2>1. header.focus = HeadlessHeader /\ header.since = Never
    BY DEF HeaderRow
  <2> HIDE DEF header
  <2> QED
    BY <2>1 DEF Row, Times
<1> HIDE DEF list, header
<1>4. IsList(front) /\ \A r \in ToSet(front) : Row(model, r)
  <2>1. IsList(<<header>>) /\ ToSet(<<header>>) = {header}
    BY Single
  <2>2. /\ IsList(<<header>> \o list)
        /\ ToSet(<<header>> \o list) = ToSet(<<header>>) \cup ToSet(list)
    BY <1>2, <2>1, Joined
  <2> QED
    BY <1>2, <1>3, <2>1, <2>2, Lists
<1>5. ASSUME NEW s \in sessions
      PROVE  LET t == HeaderOrder(model, s) IN
             t \in Seq(Int) /\ Len(t) = 6 /\ t[3] = 0 /\ t[2] = s
  <2>1. model.sessions[s] \in Int /\ s \in Int
    BY DEF ModelOK, Ids
  <2> QED
    BY <2>1 DEF HeaderOrder
<1>6. ASSUME NEW i \in indices
      PROVE  LET t == GroupedOrder(model, i) IN
             t \in Seq(Int) /\ Len(t) = 6 /\ t[3] = 1 /\ t[6] = i
  BY MembershipIs DEF GroupedOrder
<1>7. IsFiniteSet(places)
  <2> DEFINE f == [s \in sessions |-> HeaderOrder(model, s)]
             g == [i \in indices |-> GroupedOrder(model, i)]
  <2>1. heads = {f[s] : s \in sessions} /\ members = {g[i] : i \in indices}
    OBVIOUS
  <2>2. DOMAIN f = sessions /\ DOMAIN g = indices
    OBVIOUS
  <2>3. IsFiniteSet(sessions) /\ IsFiniteSet(indices)
    BY Indices DEF ModelOK
  <2> HIDE DEF f, g, sessions, indices, heads, members
  <2>4. IsFiniteSet(heads) /\ IsFiniteSet(members)
    BY <2>1, <2>2, <2>3, ImageFinite
  <2> QED
    BY <2>4, FS_Union
<1> HIDE DEF order
<1>8. /\ Cardinality(places) \in Nat /\ DOMAIN order = 1..Cardinality(places)
      /\ \A k \in DOMAIN order : order[k] \in places
      /\ \A t \in places : \E k \in DOMAIN order : order[k] = t
  <2>1. places \subseteq Seq(Int) /\ \A t \in places : Len(t) = 6
    BY <1>5, <1>6
  <2> HIDE DEF places
  <2>2. /\ Cardinality(places) \in Nat
        /\ InOrder(places) \in [1..Cardinality(places) -> places]
        /\ \A t \in places : \E k \in 1..Cardinality(places) : InOrder(places)[k] = t
    BY <1>7, <2>1, InOrderIs
  <2> QED
    BY <2>2 DEF order
<1>9. ASSUME NEW k \in DOMAIN order
      PROVE  Row(model, row(order[k]))
  <2>1. CASE order[k] \in heads
    <3>1. PICK s \in sessions : order[k] = HeaderOrder(model, s)
      BY <2>1
    <3>2. order[k][3] = 0 /\ order[k][2] = s
      BY <1>5, <3>1
    <3> QED
      BY <3>2, SessionHeaderIs
  <2>2. CASE order[k] \in members
    <3>1. PICK i \in indices : order[k] = GroupedOrder(model, i)
      BY <2>2
    <3>2. order[k][3] = 1 /\ order[k][6] = i
      BY <1>6, <3>1
    <3> QED
      BY <3>2, PaneRowIs
  <2> QED
    BY <1>8, <2>1, <2>2
<1>10. IsList(back) /\ ToSet(back) = {row(order[k]) : k \in DOMAIN order}
  <2> DEFINE n == Cardinality(places)
  <2> HIDE DEF row, places
  <2>1. back = [k \in 1..n |-> back[k]] /\ DOMAIN back = 1..n /\ n \in Nat
    BY <1>8
  <2>2. \A k \in DOMAIN order : back[k] = row(order[k])
    OBVIOUS
  <2> HIDE DEF back, n
  <2>3. IsList(back) /\ ToSet(back) = {back[k] : k \in 1..n}
    BY <2>1, ListOf
  <2> QED
    BY <1>8, <2>2, <2>3 DEF n
<1>11. IsList(GroupedRows(model)) /\ ToSet(GroupedRows(model)) = ToSet(front) \cup ToSet(back)
  <2> HIDE DEF front, back
  <2> QED
    BY <1>1, <1>4, <1>10, Joined
<1>12. ASSUME NEW m \in ToSet(model.memberships)
       PROVE  \E r \in ToSet(back) : r.focus = PaneFocus(m)
  <2>1. PICK i \in indices : m = model.memberships[i]
    BY DEF ToSet
  <2>2. GroupedOrder(model, i) \in places
    OBVIOUS
  <2>3. PICK k \in DOMAIN order : order[k] = GroupedOrder(model, i)
    BY <1>8, <2>2
  <2>4. row(order[k]) = PaneRow(model, m)
    BY <1>6, <2>1, <2>3
  <2>5. PaneRow(model, m).focus = PaneFocus(m)
    BY <2>1, PaneRowIs
  <2> HIDE DEF row, back
  <2> QED
    BY <1>10, <2>4, <2>5
<1>13. ASSUME NEW s \in sessions
       PROVE  \E r \in ToSet(back) : r.focus = Header(s)
  <2>1. HeaderOrder(model, s) \in places
    OBVIOUS
  <2>2. PICK k \in DOMAIN order : order[k] = HeaderOrder(model, s)
    BY <1>8, <2>1
  <2>3. row(order[k]) = SessionHeader(model, s)
    BY <1>5, <2>2
  <2> HIDE DEF row, back
  <2> QED
    BY <1>10, <2>3, SessionHeaderIs
<1> HIDE DEF row, back, front
<1> QED
  BY <1>4, <1>9, <1>10, <1>11, <1>12, <1>13

\* Flat rows: all memberships.
LEMMA FlatIs ==
    ASSUME NEW model, ModelOK(model)
    PROVE  LET rows == FlatRows(model) IN
           /\ IsList(rows) /\ \A r \in ToSet(rows) : Row(model, r)
           /\ \A m \in ToSet(model.memberships) : \E r \in ToSet(rows) : r.focus = PaneFocus(m)
<1> DEFINE all == model.memberships
           place == [i \in DOMAIN all |-> Append(FlatOrder(model, all[i]), i)]
           members == Arranged(all, {Append(FlatOrder(model, all[i]), i) : i \in DOMAIN all})
           panes == [i \in DOMAIN members |-> PaneRow(model, members[i])]
           list == HeadlessRows(model)
           rows == panes \o list
           urgency == [i \in DOMAIN rows |-> Append(Urgency(rows[i]), i)]
           flat == Arranged(rows, {Append(Urgency(rows[i]), i) : i \in DOMAIN rows})
<1>1. FlatRows(model) = flat
  BY DEF FlatRows
<1>2. ASSUME NEW x, x.status \in Statuses, x.since \in Times
      PROVE  Key(Urgency(x), 2)
  <2>1. x.since \in Int
    BY <1>2, AppAssumption DEF Times
  <2>2. StatusPriority(x.status) \in Int
    BY <1>2 DEF StatusPriority, Statuses
  <2> QED
    BY <2>1, <2>2 DEF Urgency, Key
<1>3. ASSUME NEW i \in DOMAIN all
      PROVE  Key(place[i], 8) /\ place[i][8] = i
  <2> DEFINE m == all[i]
             urgent == Urgency(model.panes[m.pane])
             topology == TopologyOrder(m)
             key == urgent \o topology
  <2>1. /\ i \in Int /\ m.pane \in DOMAIN model.panes
        /\ m.session \in Int /\ m.windex \in Int /\ m.pindex \in Int
        /\ m.window \in Int /\ m.pane \in Int
    BY MembershipIs
  <2>2. Key(urgent, 2)
    BY <1>2, <2>1 DEF ModelOK
  <2>3. Key(topology, 5)
    BY <2>1 DEF TopologyOrder, Key
  <2>4. place[i] = Append(key, i)
    BY DEF FlatOrder
  <2> HIDE DEF urgent, topology, place, all
  <2>5. 2 \in Nat /\ 5 \in Nat /\ 7 = 2 + 5
    OBVIOUS
  <2>6. Key(key, 7)
    BY <2>2, <2>3, <2>5, JoinedKeys
  <2> HIDE DEF key, m
  <2>7. Key(Append(key, i), 8) /\ Append(key, i)[8] = i
    BY <2>1, <2>6, LongerKey
  <2> QED
    BY <2>4, <2>7
<1>4. IsList(all)
  BY Lists DEF ModelOK
<1>5. {Append(FlatOrder(model, all[i]), i) : i \in DOMAIN all} = {place[i] : i \in DOMAIN all}
  OBVIOUS
<1>6. IsList(members) /\ ToSet(members) = ToSet(all)
  <2>1. DOMAIN place = DOMAIN all
    OBVIOUS
  <2> DEFINE S == {place[i] : i \in DOMAIN all}
  <2>0. members = Arranged(all, S)
    BY <1>5
  <2> HIDE DEF place, members
  <2>2. IsList(Arranged(all, S)) /\ ToSet(Arranged(all, S)) = {all[i] : i \in DOMAIN all}
    <3> DEFINE n == 8
    <3> HIDE DEF all
    <3>1. n \in Nat \ {0} /\ DOMAIN all \subseteq DOMAIN all
      OBVIOUS
    <3>2. \A i \in DOMAIN all : Key(place[i], n) /\ place[i][n] = i
      BY <1>3
    <3>3. \A x : x \in S <=> \E i \in DOMAIN all : x = place[i]
      OBVIOUS
    <3> HIDE DEF n, S
    <3> QED
      BY <1>4, <2>1, <3>1, <3>2, <3>3, ArrangedBy
  <2> HIDE DEF all, S
  <2> QED
    BY <2>0, <2>2 DEF ToSet
<1> HIDE DEF members
<1>7. /\ IsList(panes) /\ DOMAIN panes = DOMAIN members
      /\ ToSet(panes) = {PaneRow(model, m) : m \in ToSet(members)}
  <2> DEFINE n == Len(members)
  <2>1. n \in Nat /\ DOMAIN members = 1..n
    BY <1>6, ListIs
  <2>2. panes = [i \in 1..n |-> panes[i]] /\ DOMAIN panes = 1..n
    BY <2>1
  <2>3. \A i \in 1..n : panes[i] = PaneRow(model, members[i])
    BY <2>1
  <2> HIDE DEF panes, n
  <2>4. IsList(panes) /\ ToSet(panes) = {panes[i] : i \in 1..n}
    BY <2>1, <2>2, ListOf
  <2> QED
    BY <2>1, <2>2, <2>3, <2>4 DEF ToSet
<1>8. \A r \in ToSet(panes) : Row(model, r) /\ r.status \in Statuses
  <2>1. ASSUME NEW m \in ToSet(all)
        PROVE  Row(model, PaneRow(model, m)) /\ PaneRow(model, m).status \in Statuses
    <3>1. PICK i \in DOMAIN all : m = all[i]
      BY DEF ToSet
    <3> QED
      BY <3>1, PaneRowIs
  <2> HIDE DEF panes, all
  <2> QED
    BY <1>6, <1>7, <2>1
<1>9. IsList(list) /\ \A r \in ToSet(list) : Row(model, r) /\ r.status \in Statuses
  BY HeadlessRowsIs
<1> HIDE DEF panes, list
<1>10. IsList(rows) /\ ToSet(rows) = ToSet(panes) \cup ToSet(list)
  BY <1>7, <1>9, Joined
<1>11. \A r \in ToSet(rows) : Row(model, r) /\ r.status \in Statuses
  BY <1>8, <1>9, <1>10
<1> HIDE DEF rows
<1>12. ASSUME NEW i \in DOMAIN rows
       PROVE  Key(urgency[i], 3) /\ urgency[i][3] = i
  <2>1. rows[i] \in ToSet(rows) /\ i \in Int
    BY <1>10, <1>12, ListIs DEF ToSet
  <2>2. Key(Urgency(rows[i]), 2)
    BY <1>2, <1>11, <2>1 DEF Row
  <2> DEFINE key == Urgency(rows[i])
  <2>3. urgency[i] = Append(key, i)
    OBVIOUS
  <2> HIDE DEF key, urgency
  <2>4. Key(Append(key, i), 3) /\ Append(key, i)[3] = i
    BY <2>1, <2>2, LongerKey DEF key
  <2> QED
    BY <2>3, <2>4
<1>13. {Append(Urgency(rows[i]), i) : i \in DOMAIN rows} = {urgency[i] : i \in DOMAIN rows}
  OBVIOUS
<1>14. IsList(flat) /\ ToSet(flat) = ToSet(rows)
  <2>1. DOMAIN urgency = DOMAIN rows
    OBVIOUS
  <2> DEFINE S == {urgency[i] : i \in DOMAIN rows}
  <2>0. flat = Arranged(rows, S)
    BY <1>13
  <2> HIDE DEF urgency, flat
  <2>2. IsList(Arranged(rows, S)) /\ ToSet(Arranged(rows, S)) = {rows[i] : i \in DOMAIN rows}
    <3> DEFINE n == 3
    <3>1. n \in Nat \ {0} /\ DOMAIN rows \subseteq DOMAIN rows
      OBVIOUS
    <3>2. \A i \in DOMAIN rows : Key(urgency[i], n) /\ urgency[i][n] = i
      BY <1>12
    <3>3. \A x : x \in S <=> \E i \in DOMAIN rows : x = urgency[i]
      OBVIOUS
    <3> HIDE DEF n, S
    <3> QED
      BY <1>10, <2>1, <3>1, <3>2, <3>3, ArrangedBy
  <2> HIDE DEF S
  <2> QED
    BY <2>0, <2>2 DEF ToSet
<1>15. ASSUME NEW m \in ToSet(all) PROVE \E r \in ToSet(rows) : r.focus = PaneFocus(m)
  <2>1. PICK i \in DOMAIN all : m = all[i]
    BY DEF ToSet
  <2>2. PaneRow(model, m).focus = PaneFocus(m)
    BY <2>1, PaneRowIs
  <2> QED
    BY <1>6, <1>7, <1>10, <2>2
<1> HIDE DEF flat
<1> QED
  BY <1>1, <1>11, <1>14, <1>15

\* What the kinds of focuses are.
LEMMA Kinds ==
    /\ NoFocus.kind = "none" /\ HeadlessHeader.kind = "headlessHeader"
    /\ \A id : Headless(id).kind = "headless" /\ Headless(id).session = id
    /\ \A s : Header(s).kind = "header" /\ Header(s).session = s
    /\ \A m : /\ PaneFocus(m).kind = "pane" /\ PaneFocus(m).session = m.session
               /\ PaneFocus(m).window = m.window /\ PaneFocus(m).pane = m.pane
BY DEF NoFocus, HeadlessHeader, Headless, Header, PaneFocus, Focus

\* The kind of a row's focus tells what it is the row of.
LEMMA RowKinds ==
    ASSUME NEW model, NEW r, Row(model, r)
    PROVE  /\ r.focus.kind \in {"headlessHeader", "headless", "header", "pane"}
           /\ r.focus.kind = "headlessHeader" => r.focus = HeadlessHeader
           /\ r.focus.kind = "headless" =>
                  \E h \in ToSet(model.headless) : r.focus = Headless(h.id)
           /\ r.focus.kind = "header" =>
                  \E s \in DOMAIN model.sessions : r.focus = Header(s)
           /\ r.focus.kind = "pane" =>
                  \E m \in ToSet(model.memberships) : r.focus = PaneFocus(m)
BY Kinds DEF Row

\* The rows that match are some of the rows; grouped, a pane comes with its header.
LEMMA MatchingIs ==
    ASSUME NEW rows, IsList(rows), NEW grouped, NEW query
    PROVE  LET some == Matching(rows, grouped, query) IN
           /\ IsList(some) /\ ToSet(some) \subseteq ToSet(rows)
           /\ grouped => \A r \in ToSet(some) : r.focus.kind = "pane" =>
                  \E h \in ToSet(some) : InGroup(h, r)
<1> DEFINE found == {i \in DOMAIN rows :
                         ~IsHeader(rows[i]) /\ Score(query, rows[i]) \in Nat \ {0}}
           rank(i) == -Score(query, rows[i])
           groups == {g \in (DOMAIN rows) \X found : InGroup(rows[g[1]], rows[g[2]])}
           flat == {<<rank(i), i>> : i \in found}
           heads == {<<g[1], 0, 0, g[1]>> : g \in groups}
           tails == {<<g[1], 1, rank(g[2]), g[2]>> : g \in groups}
           some == Matching(rows, grouped, query)
<1>1. some = IF ~grouped THEN Arranged(rows, flat) ELSE Arranged(rows, heads \cup tails)
  BY DEF Matching
<1>2. /\ Len(rows) \in Nat /\ DOMAIN rows = 1..Len(rows) /\ IsFiniteSet(DOMAIN rows)
      /\ \A i \in DOMAIN rows : i \in Int
  BY ListIs
<1>3. IsFiniteSet(found) /\ found \subseteq DOMAIN rows /\ \A i \in found : rank(i) \in Int
  <2>1. found \subseteq DOMAIN rows /\ \A i \in found : rank(i) \in Int
    OBVIOUS
  <2> HIDE DEF found
  <2> QED
    BY <1>2, <2>1, FS_Subset
<1>4. /\ IsFiniteSet(groups)
      /\ \A g \in groups : /\ g[1] \in DOMAIN rows /\ g[2] \in found
                           /\ InGroup(rows[g[1]], rows[g[2]])
  <2>1. IsFiniteSet((DOMAIN rows) \X found)
    BY <1>2, <1>3, FS_Product
  <2>2. groups \subseteq (DOMAIN rows) \X found
    OBVIOUS
  <2>3. IsFiniteSet(groups)
    <3> HIDE DEF groups, found
    <3> QED
      BY <2>1, <2>2, FS_Subset
  <2> QED
    BY <2>3
<1> HIDE DEF found, groups, rank, some
<1>5. ASSUME ~grouped
      PROVE  IsList(some) /\ ToSet(some) \subseteq ToSet(rows)
  <2> DEFINE f == [i \in found |-> <<rank(i), i>>]
             n == 2
  <2>1. DOMAIN f = found /\ \A x : x \in flat <=> \E i \in found : x = f[i]
    OBVIOUS
  <2>2. \A i \in found : Key(f[i], n) /\ f[i][n] = i
    BY <1>2, <1>3 DEF Key
  <2>3. n \in Nat \ {0}
    OBVIOUS
  <2> HIDE DEF f, n, flat
  <2>0. found \subseteq DOMAIN rows
    BY <1>3
  <2>4. /\ IsList(Arranged(rows, flat))
        /\ ToSet(Arranged(rows, flat)) = {rows[i] : i \in found}
    BY <2>0, <2>1, <2>2, <2>3, ArrangedBy
  <2>5. {rows[i] : i \in found} \subseteq ToSet(rows)
    BY <1>3 DEF ToSet
  <2> QED
    BY <1>1, <1>5, <2>4, <2>5
<1>6. ASSUME grouped
      PROVE  /\ IsList(some)
             /\ ToSet(some) = {rows[g[1]] : g \in groups} \cup {rows[g[2]] : g \in groups}
  <2> DEFINE f == [g \in groups |-> <<g[1], 0, 0, g[1]>>]
             e == [g \in groups |-> <<g[1], 1, rank(g[2]), g[2]>>]
             all == heads \cup tails
             n == 4
  <2>1. \A g \in groups : Key(f[g], 4) /\ f[g][4] = g[1]
    BY <1>2, <1>3, <1>4 DEF Key
  <2>2. \A g \in groups : Key(e[g], 4) /\ e[g][4] = g[2]
    BY <1>2, <1>3, <1>4 DEF Key
  <2>3. /\ DOMAIN f = groups /\ DOMAIN e = groups
        /\ heads = {f[g] : g \in groups} /\ tails = {e[g] : g \in groups}
    OBVIOUS
  <2> HIDE DEF f, e, heads, tails
  <2>4. IsFiniteSet(all)
    <3>1. IsFiniteSet(heads) /\ IsFiniteSet(tails)
      BY <1>4, <2>3, ImageFinite
    <3> QED
      BY <3>1, FS_Union
  <2>5. /\ n \in Nat \ {0} /\ all \subseteq Seq(Int)
        /\ \A t \in all : Len(t) = n /\ t[n] \in DOMAIN rows
    <3>1. \A t \in heads : Key(t, n) /\ t[n] \in DOMAIN rows
      BY <1>4, <2>1, <2>3
    <3>2. \A t \in tails : Key(t, n) /\ t[n] \in DOMAIN rows
      BY <1>3, <1>4, <2>2, <2>3
    <3>3. n \in Nat \ {0}
      OBVIOUS
    <3> HIDE DEF n
    <3> QED
      BY <3>1, <3>2, <3>3 DEF Key
  <2>6. {rows[t[n]] : t \in all} = {rows[g[1]] : g \in groups} \cup {rows[g[2]] : g \in groups}
    BY <2>1, <2>2, <2>3
  <2> HIDE DEF all, n
  <2>7. IsList(Arranged(rows, all)) /\ ToSet(Arranged(rows, all)) = {rows[t[n]] : t \in all}
    BY <2>4, <2>5, ArrangedOf
  <2> QED
    BY <1>1, <1>6, <2>6, <2>7 DEF all
<1>7. ASSUME grouped
      PROVE  ToSet(some) \subseteq ToSet(rows)
  BY <1>3, <1>4, <1>6, <1>7 DEF ToSet
<1>8. ASSUME grouped, NEW r \in ToSet(some), r.focus.kind = "pane"
      PROVE  \E h \in ToSet(some) : InGroup(h, r)
  <2>1. CASE \E g \in groups : r = rows[g[1]]
    <3>1. PICK g \in groups : r = rows[g[1]]
      BY <2>1
    <3>2. r.focus.kind \in {"header", "headlessHeader"}
      BY <1>4, <3>1 DEF InGroup
    <3> QED
      BY <1>8, <3>2
  <2>2. CASE \E g \in groups : r = rows[g[2]]
    <3>1. PICK g \in groups : r = rows[g[2]]
      BY <2>2
    <3>2. rows[g[1]] \in ToSet(some) /\ InGroup(rows[g[1]], r)
      BY <1>4, <1>6, <1>8, <3>1
    <3> QED
      BY <3>2
  <2> QED
    BY <1>6, <1>8, <2>1, <2>2
<1> QED
  BY <1>5, <1>6, <1>7, <1>8 DEF some

\* The rows that a query leaves; grouped, a pane comes with the header of its session.
LEMMA RankedIs ==
    ASSUME NEW model, ModelOK(model), NEW grouped, NEW query
    PROVE  LET rows == RankedRows(model, grouped, query) IN
           /\ IsList(rows) /\ \A r \in ToSet(rows) : Row(model, r)
           /\ grouped => \A r \in ToSet(rows) : r.focus.kind = "pane" =>
                  \E h \in ToSet(rows) : h.focus = Header(r.focus.session)
           /\ query = <<>> =>
                  \A m \in ToSet(model.memberships) : \E r \in ToSet(rows) : r.focus = PaneFocus(m)
<1> DEFINE all == Rows(model, grouped)
           some == Matching(all, grouped, query)
           rows == RankedRows(model, grouped, query)
<1>1. /\ IsList(all) /\ \A r \in ToSet(all) : Row(model, r)
      /\ \A m \in ToSet(model.memberships) : \E r \in ToSet(all) : r.focus = PaneFocus(m)
      /\ grouped => \A s \in DOMAIN model.sessions : \E r \in ToSet(all) : r.focus = Header(s)
  BY GroupedIs, FlatIs DEF Rows
<1>2. rows = IF query = <<>> THEN all ELSE some
  BY DEF RankedRows
<1> HIDE DEF all
<1>3. /\ IsList(some) /\ ToSet(some) \subseteq ToSet(all)
      /\ grouped => \A r \in ToSet(some) : r.focus.kind = "pane" =>
             \E h \in ToSet(some) : InGroup(h, r)
  BY <1>1, MatchingIs
<1> HIDE DEF some, rows
<1>4. ASSUME grouped, NEW r \in ToSet(all), r.focus.kind = "pane"
      PROVE  \E h \in ToSet(all) : h.focus = Header(r.focus.session)
  <2>1. Row(model, r)
    BY <1>1
  <2>2. PICK m \in ToSet(model.memberships) : r.focus = PaneFocus(m)
    BY <1>4, <2>1, RowKinds
  <2>3. m.session \in DOMAIN model.sessions /\ r.focus.session = m.session
    <3>1. PICK i \in DOMAIN model.memberships : m = model.memberships[i]
      BY DEF ToSet
    <3> QED
      BY <2>2, <3>1, MembershipIs, Kinds
  <2> QED
    BY <1>1, <1>4, <2>3
<1>5. ASSUME grouped, NEW r \in ToSet(some), r.focus.kind = "pane"
      PROVE  \E h \in ToSet(some) : h.focus = Header(r.focus.session)
  <2>1. PICK h \in ToSet(some) : InGroup(h, r)
    BY <1>3, <1>5
  <2>2. h.focus.kind = "header" /\ h.focus.session = r.focus.session
    BY <1>5, <2>1 DEF InGroup
  <2>3. Row(model, h)
    BY <1>1, <1>3
  <2>4. PICK s \in DOMAIN model.sessions : h.focus = Header(s)
    BY <2>2, <2>3, RowKinds
  <2>5. h.focus.session = s
    BY <2>4, Kinds
  <2> QED
    BY <2>2, <2>4, <2>5
<1> QED
  BY <1>1, <1>2, <1>3, <1>4, <1>5 DEF rows

\* What is shown: the rows that a query leaves, but for the panes of folded sessions.
LEMMA ShownIs ==
    ASSUME NEW a, ModelOK(a.model)
    PROVE  /\ IsList(ShownRows(a))
           /\ \A r : r \in ToSet(ShownRows(a)) <=>
                  /\ r \in ToSet(RankedRows(a.model, a.grouped, a.query))
                  /\ r.focus.kind = "pane" =>
                         ~(/\ r.focus.session \in a.collapsed
                           /\ SessionIsCollapsed(a, r.focus.session))
<1> DEFINE rows == RankedRows(a.model, a.grouped, a.query)
           folded == {session \in a.collapsed : SessionIsCollapsed(a, session)}
           I == {i \in DOMAIN rows :
                     rows[i].focus.kind = "pane" => rows[i].focus.session \notin folded}
<1>1. ShownRows(a) = Only(rows, I)
  BY DEF ShownRows, Unfolded
<1>2. IsList(rows)
  BY RankedIs
<1> HIDE DEF rows, folded
<1>3. IsList(Only(rows, I)) /\ ToSet(Only(rows, I)) = {rows[i] : i \in I}
  BY <1>2, OnlyOf
<1>4. \A r : r \in {rows[i] : i \in I} <=>
             r \in ToSet(rows) /\ (r.focus.kind = "pane" => r.focus.session \notin folded)
  BY DEF ToSet
<1> QED
  BY <1>1, <1>3, <1>4 DEF rows, folded

-----------------------------------------------------------------------------
(* The screen                                                               *)

\* The fields of a state.
AppFields ==
    {"model", "grouped", "typing", "query", "focus", "selection", "collapsed", "modal", "zKey",
     "ephemeral", "pending", "attach", "clock", "deadline", "failures", "dropped", "banner",
     "kimaki", "cache", "ageDue", "aged", "quit"}

\* What the view reads of a state, but for the rows and the counts.
View(a) ==
    <<a.model, a.grouped, a.typing, a.query, a.focus, a.collapsed, a.modal, a.pending, a.failures,
      a.dropped, a.banner, a.kimaki>>

\* The same but for the ages.
SameFrame(s, t) == [s EXCEPT !.ages = <<>>] = [t EXCEPT !.ages = <<>>]

\* Two states with the same view and the same rows and counts make the same frame.
LEMMA SameViewSameFrame ==
    ASSUME NEW c, NEW d, NEW t, NEW u, View(c) = View(d),
           c.cache.rows = d.cache.rows, c.cache.counts = d.cache.counts
    PROVE  SameFrame(Render(c, t), Render(d, u))
<1>1. /\ c.model = d.model /\ c.grouped = d.grouped /\ c.typing = d.typing
      /\ c.query = d.query /\ c.focus = d.focus /\ c.collapsed = d.collapsed
      /\ c.modal = d.modal /\ c.pending = d.pending /\ c.failures = d.failures
      /\ c.dropped = d.dropped /\ c.banner = d.banner /\ c.kimaki = d.kimaki
  BY DEF View
<1>2. AlertLines(c) = AlertLines(d)
  BY <1>1 DEF AlertLines
<1>3. ListHeight(c) = ListHeight(d)
  BY <1>1, <1>2 DEF ListHeight
<1>4. \A row : RowLine(c, row) = RowLine(d, row)
  BY <1>1 DEF RowLine, SessionIsCollapsed
<1>5. StatusBar(c) = StatusBar(d)
  BY <1>1 DEF StatusBar
<1> DEFINE rows == c.cache.rows
           at == LastPosition(rows, c.focus)
           height == ListHeight(c)
           from == ScrollOffset(at, Len(rows), height)
           drawn == SubSeq(rows, from + 1, Lesser(from + height, Len(rows)))
           cursor == Monus(at, from)
           Frame(a, lines, ages) ==
               [lines |-> lines, cursor |-> cursor, ages |-> ages,
                alerts |-> AlertLines(a), pending |-> PendingLine(a.pending),
                modal |-> RenderModal(a.modal), bar |-> StatusBar(a)]
           Lines(a) == [i \in DOMAIN drawn |-> RowLine(a, drawn[i])]
           Ages(time) == [i \in DOMAIN drawn |-> FormatAge(drawn[i].since, time)]
<1>6. Render(c, t) = Frame(c, Lines(c), Ages(t))
  BY DEF Render
<1>7. Render(d, u) = Frame(d, Lines(d), Ages(u))
  BY <1>1, <1>3 DEF Render
<1>8. Lines(c) = Lines(d)
  BY <1>4
<1>9. Frame(c, Lines(c), Ages(u)) = Frame(d, Lines(d), Ages(u))
  BY <1>1, <1>2, <1>5, <1>8
<1>10. SameFrame(Frame(c, Lines(c), Ages(t)), Frame(c, Lines(c), Ages(u)))
  <2> HIDE DEF rows, at, height, from, drawn, cursor, Lines, Ages
  <2>1. \A lines, ages :
            [Frame(c, lines, ages) EXCEPT !.ages = <<>>] = Frame(c, lines, <<>>)
    OBVIOUS
  <2> HIDE DEF Frame
  <2> QED
    BY <2>1 DEF SameFrame
<1> QED
  BY <1>6, <1>7, <1>9, <1>10

\* A dialog is of one of the kinds, and only none is no dialog.
ModalOK(m) ==
    /\ "kind" \in DOMAIN m
    /\ m.kind \in {"none", "help", "send", "kill", "choice", "form"}
    /\ m.kind = "none" => m = NoModal

\* What is cached, while it is valid, is what it would be if it were made now.
CacheTrue(a) ==
    a.cache.valid => a.cache.rows = ShownRows(a) /\ a.cache.counts = StatusCounts(a.model)

StateOK(a) == DOMAIN a = AppFields /\ CacheTrue(a) /\ ModalOK(a.modal)

\* What comes of an event in a state: a state, and if it is not to be drawn one that
\* looks the same.
Step(a, result) ==
    /\ StateOK(result.app)
    /\ ~result.changed => View(result.app) = View(a)

\* What rows are made of.
LEMMA SameShownRows ==
    ASSUME NEW a, NEW b, a.model = b.model, a.grouped = b.grouped, a.query = b.query,
           a.collapsed = b.collapsed
    PROVE  ShownRows(a) = ShownRows(b)
<1>1. {s \in a.collapsed : SessionIsCollapsed(a, s)} =
          {s \in b.collapsed : SessionIsCollapsed(b, s)}
  BY DEF SessionIsCollapsed
<1> QED
  BY <1>1 DEF ShownRows

\* Caches that stay true, since nothing that they are made of changes.
LEMMA SameCache ==
    ASSUME NEW a, NEW b, CacheTrue(a), b.cache = a.cache, b.model = a.model,
           b.grouped = a.grouped, b.query = a.query, b.collapsed = a.collapsed
    PROVE  CacheTrue(b)
BY SameShownRows DEF CacheTrue

\* The parts of what a handler returns.
LEMMA Results ==
    ASSUME NEW a, NEW changed, NEW eff
    PROVE  /\ Give(a, changed, eff).app = a /\ Give(a, changed, eff).changed = changed
           /\ Give(a, changed, eff).effect = eff
           /\ Redrawn(a).app = a /\ Redrawn(a).changed = TRUE /\ Redrawn(a).effect = NoEffect
           /\ Quiet(a).app = a /\ Quiet(a).changed = FALSE /\ Quiet(a).effect = NoEffect
BY DEF Give, Redrawn, Quiet

\* A handler that asks for a draw has only to leave a good state.
LEMMA Drawn ==
    ASSUME NEW a, NEW b, StateOK(b), NEW eff
    PROVE  Step(a, Redrawn(b)) /\ Step(a, Give(b, TRUE, eff))
BY DEF Step, Give, Redrawn, Quiet

\* One that does not ask must leave the view as it was.
LEMMA Undrawn ==
    ASSUME NEW a, NEW b, StateOK(b), View(b) = View(a)
    PROVE  Step(a, Quiet(b))
BY DEF Step, Give, Redrawn, Quiet

\* After an invalidation nothing is cached, so nothing cached is untrue.
LEMMA Invalidated ==
    ASSUME NEW a, DOMAIN a = AppFields, ModalOK(a.modal)
    PROVE  /\ StateOK(InvalidateRenderCache(a)) /\ View(InvalidateRenderCache(a)) = View(a)
           /\ ~InvalidateRenderCache(a).cache.valid
<1> DEFINE b == InvalidateRenderCache(a)
<1>1. /\ DOMAIN b = AppFields /\ b.modal = a.modal /\ b.cache = NoCache /\ View(b) = View(a)
  BY DEF InvalidateRenderCache, AppFields, View
<1> HIDE DEF b
<1>2. ~b.cache.valid
  BY <1>1 DEF NoCache
<1>3. StateOK(b)
  BY <1>1, <1>2 DEF StateOK, CacheTrue
<1> QED
  BY <1>1, <1>2, <1>3 DEF b

\* The caches are filled with what they stand for, and the view stays.
LEMMA CachedOK ==
    ASSUME NEW a, StateOK(a)
    PROVE  /\ StateOK(Cached(a)) /\ View(Cached(a)) = View(a)
           /\ Cached(a).cache.valid /\ Cached(a).cache.rows = ShownRows(a)
           /\ Cached(a).cache.counts = StatusCounts(a.model) /\ Cached(a).quit = a.quit
<1>1. CASE a.cache.valid
  BY <1>1 DEF Cached, StateOK, CacheTrue
<1>2. CASE ~a.cache.valid
  <2> DEFINE cache == [valid |-> TRUE, rows |-> ShownRows(a), counts |-> StatusCounts(a.model)]
             b == [a EXCEPT !.cache = cache]
  <2>1. Cached(a) = b
    BY <1>2 DEF Cached
  <2>2. cache.valid /\ cache.rows = ShownRows(a) /\ cache.counts = StatusCounts(a.model)
    OBVIOUS
  <2> HIDE DEF cache
  <2>3. /\ DOMAIN b = AppFields /\ b.modal = a.modal /\ b.cache = cache /\ View(b) = View(a)
        /\ b.model = a.model /\ b.grouped = a.grouped /\ b.query = a.query
        /\ b.collapsed = a.collapsed /\ b.quit = a.quit
    BY DEF AppFields, View, StateOK
  <2> HIDE DEF b
  <2>4. ShownRows(b) = ShownRows(a)
    BY <2>3, SameShownRows
  <2> QED
    BY <2>1, <2>2, <2>3, <2>4 DEF StateOK, CacheTrue
<1> QED
  BY <1>1, <1>2

\* Rows do not depend on the focus.
LEMMA FocusOnOK ==
    ASSUME NEW a, StateOK(a), NEW focus
    PROVE  StateOK(FocusOn(a, focus))
<1> DEFINE b == FocusOn(a, focus)
<1>1. /\ DOMAIN b = AppFields /\ b.modal = a.modal /\ b.cache = a.cache
      /\ b.model = a.model /\ b.grouped = a.grouped /\ b.query = a.query
      /\ b.collapsed = a.collapsed
  BY DEF AppFields, FocusOn, StateOK
<1> HIDE DEF b
<1>2. CacheTrue(b)
  BY <1>1, SameCache DEF StateOK
<1> QED
  BY <1>1, <1>2 DEF b, StateOK

\* A change of what the rows are not made of.
LEMMA Touched ==
    ASSUME NEW a, StateOK(a), NEW b, DOMAIN b = AppFields, ModalOK(b.modal),
           b.cache = a.cache, b.model = a.model, b.grouped = a.grouped, b.query = a.query,
           b.collapsed = a.collapsed
    PROVE  StateOK(b)
BY SameCache DEF StateOK

\* Nor on the dialog that is open.
LEMMA DialogOK ==
    ASSUME NEW a, StateOK(a), NEW modal, ModalOK(modal)
    PROVE  StateOK([a EXCEPT !.modal = modal])
<1> DEFINE b == [a EXCEPT !.modal = modal]
<1>1. /\ DOMAIN b = AppFields /\ b.modal = modal /\ b.cache = a.cache
      /\ b.model = a.model /\ b.grouped = a.grouped /\ b.query = a.query
      /\ b.collapsed = a.collapsed
  BY DEF AppFields, StateOK
<1> HIDE DEF b
<1>2. StateOK(b)
  BY <1>1, Touched
<1> QED
  BY <1>2 DEF b

\* A banner that is already there is not drawn again.
LEMMA BannerOK ==
    ASSUME NEW a, StateOK(a), NEW banner
    PROVE  Step(a, Give([a EXCEPT !.banner = banner], a.banner # banner, NoEffect))
<1> DEFINE b == [a EXCEPT !.banner = banner]
<1>1. /\ DOMAIN b = AppFields /\ b.modal = a.modal /\ b.cache = a.cache
      /\ b.model = a.model /\ b.grouped = a.grouped /\ b.query = a.query
      /\ b.collapsed = a.collapsed
      /\ a.banner = banner => View(b) = View(a)
  BY DEF AppFields, StateOK, View
<1> HIDE DEF b
<1>2. StateOK(b)
  BY <1>1, Touched DEF StateOK
<1>3. Step(a, Give(b, a.banner # banner, NoEffect))
  BY <1>1, <1>2 DEF Step, Give
<1> QED
  BY <1>3 DEF b

\* The dialogs that the handlers open.
LEMMA Dialogs ==
    /\ ModalOK(NoModal) /\ ModalOK(Help)
    /\ \A pane, text : ModalOK(Send(pane, text))
    /\ \A pane : ModalOK(Kill(pane))
    /\ \A choices, selected : ModalOK(Choice(choices, selected))
    /\ \A context, field, submitting, failed : ModalOK(Form(context, field, submitting, failed))
    /\ \A context : ModalOK(CreateForm(context))
BY DEF ModalOK, NoModal, Help, Send, Kill, Choice, Form, CreateForm

\* An end of the program leaves a good state, which nobody draws.
LEMMA QuitOK ==
    ASSUME NEW a, StateOK(a)
    PROVE  StateOK([a EXCEPT !.quit = TRUE]) /\ [a EXCEPT !.quit = TRUE].quit
<1> DEFINE b == [a EXCEPT !.quit = TRUE]
<1>1. /\ DOMAIN b = AppFields /\ b.modal = a.modal /\ b.cache = a.cache
      /\ b.model = a.model /\ b.grouped = a.grouped /\ b.query = a.query
      /\ b.collapsed = a.collapsed /\ b.quit
  BY DEF AppFields, StateOK
<1> HIDE DEF b
<1>2. StateOK(b) /\ b.quit
  BY <1>1, Touched DEF StateOK
<1> QED
  BY <1>2 DEF b

-----------------------------------------------------------------------------
(* Keys                                                                     *)

\* open_send_modal
LEMMA OpenSendModalStep ==
    ASSUME NEW a, StateOK(a)
    PROVE  Step(a, OpenSendModal(a))
<1>1. StateOK([a EXCEPT !.modal = Send(SelectedPane(a), 0)])
  BY Dialogs, DialogOK
<1> QED
  BY <1>1, Drawn, BannerOK DEF OpenSendModal, SelectAPane

\* open_kill_modal
LEMMA OpenKillModalStep ==
    ASSUME NEW a, StateOK(a)
    PROVE  Step(a, OpenKillModal(a))
<1>1. StateOK([a EXCEPT !.modal = Kill(SelectedPane(a))])
  BY Dialogs, DialogOK
<1> QED
  BY <1>1, Drawn, BannerOK DEF OpenKillModal, SelectAPane

\* open_create_modal
LEMMA OpenCreateModalStep ==
    ASSUME NEW a, StateOK(a)
    PROVE  Step(a, OpenCreateModal(a))
<1> DEFINE modal == IF DOMAIN a.model.panes = {} THEN CreateForm(NewSessionIn(None))
                    ELSE Choice(CreateChoices(a), 1)
<1>1. ModalOK(modal)
  BY Dialogs
<1> HIDE DEF modal
<1>2. StateOK([a EXCEPT !.modal = modal])
  BY <1>1, DialogOK
<1>3. OpenCreateModal(a) = IF a.pending # NoPending THEN Quiet(a)
                           ELSE Redrawn([a EXCEPT !.modal = modal])
  BY DEF OpenCreateModal, modal
<1> QED
  BY <1>2, <1>3, Drawn, Undrawn

\* Keys of the dialog that sends a text.
LEMMA SendKeyStep ==
    ASSUME NEW a, StateOK(a), NEW key
    PROVE  Step(a, SendKey(a, key))
<1> DEFINE pane == a.modal.pane
           text == a.modal.text
           closed == [a EXCEPT !.modal = NoModal]
           shorter == [a EXCEPT !.modal = Send(pane, text - 1)]
           longer == [a EXCEPT !.modal = Send(pane, text + 1)]
<1>1. StateOK(closed) /\ StateOK(shorter) /\ StateOK(longer)
  BY Dialogs, DialogOK
<1>2. SendKey(a, key) \in
          {Redrawn(closed), Redrawn(shorter), Redrawn(longer), Quiet(a),
           Give(closed, TRUE, IF text = 0 THEN NoEffect ELSE Effect("send", pane))}
  <2>1. CASE key = "Esc"
    BY <2>1 DEF SendKey, Plain
  <2>2. CASE key = "Enter"
    BY <2>2 DEF SendKey, Plain
  <2>3. CASE key = "Backspace"
    BY <2>3 DEF SendKey, Plain
  <2>4. CASE key \notin {"Esc", "Enter", "Backspace"}
    BY <2>4 DEF SendKey
  <2> QED
    BY <2>1, <2>2, <2>3, <2>4
<1> HIDE DEF closed, shorter, longer
<1> QED
  BY <1>1, <1>2, Drawn, Undrawn

\* Keys of the dialog that kills a pane.
LEMMA KillKeyStep ==
    ASSUME NEW a, StateOK(a), NEW key
    PROVE  Step(a, KillKey(a, key))
<1>1. StateOK([a EXCEPT !.modal = NoModal])
  BY Dialogs, DialogOK
<1> QED
  BY <1>1, Drawn DEF KillKey

\* Keys of the choice of a context.
LEMMA ChoiceKeyStep ==
    ASSUME NEW a, StateOK(a), NEW key
    PROVE  Step(a, ChoiceKey(a, key))
<1> DEFINE choices == a.modal.choices
           at == a.modal.selected
           select(i) == Redrawn([a EXCEPT !.modal = Choice(choices, i)])
           closed == Redrawn([a EXCEPT !.modal = NoModal])
           form == Redrawn([a EXCEPT !.modal = CreateForm(choices[at])])
<1>1. Step(a, closed) /\ Step(a, form) /\ \A i : Step(a, select(i))
  BY Dialogs, DialogOK, Drawn
<1>2. Step(a, Quiet(a))
  BY Undrawn
<1>3. CASE key = "Esc"
  <2>1. ChoiceKey(a, key) = closed
    BY <1>3 DEF ChoiceKey
  <2> QED
    BY <1>1, <2>1
<1>4. CASE key = "j"
  <2>1. ChoiceKey(a, key) = select(IF at < Len(choices) THEN at + 1 ELSE at)
    BY <1>4 DEF ChoiceKey
  <2> HIDE DEF select
  <2> QED
    BY <1>1, <2>1
<1>5. CASE key = "k"
  <2>1. ChoiceKey(a, key) = select(IF at > 1 THEN at - 1 ELSE at)
    BY <1>5 DEF ChoiceKey
  <2> HIDE DEF select
  <2> QED
    BY <1>1, <2>1
<1>6. CASE key = "Enter"
  <2>1. ChoiceKey(a, key) = form
    BY <1>6 DEF ChoiceKey
  <2> QED
    BY <1>1, <2>1
<1>7. CASE key \notin {"Esc", "j", "k", "Enter"}
  <2>1. ChoiceKey(a, key) = Quiet(a)
    BY <1>7 DEF ChoiceKey
  <2> QED
    BY <1>2, <2>1
<1> QED
  BY <1>3, <1>4, <1>5, <1>6, <1>7

\* Keys of the form of a new pane; a press that submits sets what the pending line shows.
LEMMA FormKeyStep ==
    ASSUME NEW a, StateOK(a), NEW key, NEW valid \in BOOLEAN
    PROVE  Step(a, FormKey(a, key, valid))
<1> DEFINE context == a.modal.context
           field == a.modal.field
           pending == [NoPending EXCEPT !.state = "creating", !.session = context.session]
           closed == [a EXCEPT !.modal = NoModal,
                               !.pending = IF @.state = "error" THEN NoPending ELSE @]
           wrong == [a EXCEPT !.modal = Form(context, field, FALSE, TRUE)]
           sent == [a EXCEPT !.modal = Form(context, field, TRUE, FALSE), !.attach = FALSE,
                             !.pending = pending]
           moved == [a EXCEPT !.modal.field = NextCreateField(a.modal, key = "Tab")]
<1>1. StateOK(wrong)
  BY Dialogs, DialogOK
<1>2. StateOK(closed)
  <2>1. /\ DOMAIN closed = AppFields /\ closed.modal = NoModal /\ closed.cache = a.cache
        /\ closed.model = a.model /\ closed.grouped = a.grouped /\ closed.query = a.query
        /\ closed.collapsed = a.collapsed
    BY DEF AppFields, StateOK
  <2> HIDE DEF closed
  <2> QED
    BY <2>1, Touched, Dialogs
<1>3. StateOK(sent)
  <2> HIDE DEF pending
  <2>1. /\ DOMAIN sent = AppFields /\ sent.modal = Form(context, field, TRUE, FALSE)
        /\ sent.cache = a.cache
        /\ sent.model = a.model /\ sent.grouped = a.grouped /\ sent.query = a.query
        /\ sent.collapsed = a.collapsed
    BY DEF AppFields, StateOK
  <2> HIDE DEF sent
  <2> QED
    BY <2>1, Touched, Dialogs
<1>4. StateOK(moved)
  <2> DEFINE next == NextCreateField(a.modal, key = "Tab")
             modal == [a.modal EXCEPT !.field = next]
  <2>1. moved = [a EXCEPT !.modal = modal]
    OBVIOUS
  <2>2. ModalOK(a.modal)
    BY DEF StateOK
  <2> HIDE DEF next
  <2>3. a.modal.kind = "none" => modal = NoModal
    <3> SUFFICES ASSUME a.modal = NoModal PROVE modal = NoModal
      BY <2>2 DEF ModalOK
    <3> QED
      BY DEF NoModal
  <2>4. "kind" \in DOMAIN modal /\ modal.kind = a.modal.kind
    BY <2>2 DEF ModalOK
  <2>5. ModalOK(modal)
    <3> HIDE DEF modal
    <3> QED
      BY <2>2, <2>3, <2>4 DEF ModalOK
  <2> HIDE DEF modal
  <2> QED
    BY <2>1, <2>5, DialogOK
<1>5. FormKey(a, key, valid) \in
          {Redrawn(closed), Redrawn(wrong), Redrawn(moved), Redrawn(a), Quiet(a),
           Give(sent, TRUE, Effect("create", context))}
  <2>1. CASE key = "Esc"
    BY <2>1 DEF FormKey, Plain
  <2>2. CASE key = "Enter" /\ valid
    BY <2>2 DEF FormKey, Plain
  <2>3. CASE key = "Enter" /\ ~valid
    BY <2>3 DEF FormKey, Plain
  <2>4. CASE key \in {"Tab", "BackTab"}
    BY <2>4 DEF FormKey, Plain
  <2>5. CASE key = "Backspace" \/ (Plain(key) /\ key \notin {"Esc", "Enter", "Tab", "BackTab"})
    BY <2>5 DEF FormKey
  <2>6. CASE key \notin {"Esc", "Enter", "Tab", "BackTab", "Backspace"} /\ ~Plain(key)
    BY <2>6 DEF FormKey
  <2> QED
    BY <2>1, <2>2, <2>3, <2>4, <2>5, <2>6 DEF Plain
<1> HIDE DEF closed, wrong, sent, moved
<1> QED
  BY <1>1, <1>2, <1>3, <1>4, <1>5, Drawn, Undrawn

\* Any key while a dialog is open.
LEMMA ModalKeyStep ==
    ASSUME NEW a, StateOK(a), a.modal # NoModal, NEW key, NEW valid \in BOOLEAN
    PROVE  Step(a, ModalKey(a, key, valid))
<1>1. a.modal.kind \in {"help", "send", "kill", "choice", "form"}
  BY DEF StateOK, ModalOK
<1>2. Step(a, Quiet(a)) /\ Step(a, Redrawn([a EXCEPT !.modal = NoModal]))
  BY Undrawn, Drawn, Dialogs, DialogOK
<1>3. CASE a.modal.kind = "help"
  BY <1>2, <1>3 DEF ModalKey
<1>4. CASE a.modal.kind # "help" /\ key = "?"
  BY <1>2, <1>4 DEF ModalKey
<1>5. CASE a.modal.kind = "send" /\ key # "?"
  BY <1>5, SendKeyStep DEF ModalKey
<1>6. CASE a.modal.kind = "kill" /\ key # "?"
  BY <1>6, KillKeyStep DEF ModalKey
<1>7. CASE a.modal.kind = "choice" /\ key # "?"
  BY <1>7, ChoiceKeyStep DEF ModalKey
<1>8. CASE a.modal.kind = "form" /\ key # "?"
  <2> DEFINE b == [a EXCEPT !.modal = NoModal]
             c == [a EXCEPT !.modal = NoModal, !.quit = TRUE]
  <2>1. c = [b EXCEPT !.quit = TRUE]
    OBVIOUS
  <2>2. StateOK(b)
    BY Dialogs, DialogOK
  <2> HIDE DEF b, c
  <2>3. StateOK(c)
    BY <2>1, <2>2, QuitOK
  <2>4. Step(a, SubmittingKey(a, key))
    BY <1>2, <2>3, Drawn DEF SubmittingKey, c
  <2>5. Step(a, FormKey(a, key, valid))
    BY FormKeyStep
  <2>6. ModalKey(a, key, valid) =
            IF a.modal.submitting THEN SubmittingKey(a, key) ELSE FormKey(a, key, valid)
    BY <1>8 DEF ModalKey
  <2> QED
    BY <2>4, <2>5, <2>6
<1> QED
  BY <1>1, <1>3, <1>4, <1>5, <1>6, <1>7, <1>8

\* A change of the query invalidates the rows and fills them again.
LEMMA UpdateFilterOK ==
    ASSUME NEW a, StateOK(a), NEW query
    PROVE  StateOK(UpdateFilter(a, query))
<1> DEFINE b == [a EXCEPT !.query = query]
<1>1. DOMAIN b = AppFields /\ b.modal = a.modal
  BY DEF AppFields, StateOK
<1> HIDE DEF b
<1>2. StateOK(Cached(InvalidateRenderCache(b)))
  BY <1>1, Invalidated, CachedOK DEF StateOK
<1>3. UpdateFilter(a, query) = ReconcileFocus(Cached(InvalidateRenderCache(b)))
  BY DEF UpdateFilter, b
<1> QED
  BY <1>2, <1>3, FocusOnOK DEF ReconcileFocus

\* Any key while a filter is typed.
LEMMA FilterKeyStep ==
    ASSUME NEW a, StateOK(a), NEW key
    PROVE  Step(a, FilterKey(a, key))
<1> DEFINE b == [a EXCEPT !.typing = FALSE]
<1>1. StateOK(b)
  <2>1. /\ DOMAIN b = AppFields /\ b.modal = a.modal /\ b.cache = a.cache
        /\ b.model = a.model /\ b.grouped = a.grouped /\ b.query = a.query
        /\ b.collapsed = a.collapsed
    BY DEF AppFields, StateOK
  <2> HIDE DEF b
  <2> QED
    BY <2>1, Touched DEF StateOK
<1>2. FilterKey(a, key) \in
          {Redrawn(b), Redrawn(UpdateFilter(a, Front(a.query))),
           Redrawn(UpdateFilter(a, Append(a.query, key))), Quiet(a)}
  <2>1. CASE key = "Esc"
    BY <2>1 DEF FilterKey, Plain
  <2>2. CASE key = "Backspace"
    BY <2>2 DEF FilterKey, Plain
  <2>3. CASE key \notin {"Esc", "Backspace"}
    BY <2>3 DEF FilterKey
  <2> QED
    BY <2>1, <2>2, <2>3
<1> HIDE DEF b
<1> QED
  BY <1>1, <1>2, UpdateFilterOK, Drawn, Undrawn

\* A focus that moves is drawn, one that stays is not.
LEMMA GoToStep ==
    ASSUME NEW a, NEW c, StateOK(c), View(c) = View(a), NEW index
    PROVE  Step(a, GoTo(c, index))
BY FocusOnOK, Drawn, Undrawn DEF GoTo

\* Up and down.
LEMMA MoveFocusStep ==
    ASSUME NEW a, NEW c, StateOK(c), View(c) = View(a), NEW down
    PROVE  Step(a, MoveFocus(c, down))
BY GoToStep DEF MoveFocus

\* A session that is folded or unfolded.
LEMMA SetCollapsedStep ==
    ASSUME NEW a, NEW b, StateOK(b), View(b) = View(a), NEW collapse
    PROVE  Step(a, SetCollapsed(b, collapse))
<1> DEFINE session == SessionAtFocus(b)
           sessions == IF collapse THEN b.collapsed \cup {session} ELSE b.collapsed \ {session}
           c == [b EXCEPT !.collapsed = sessions]
           d == IF collapse THEN FocusOn(c, Header(session)) ELSE c
<1>1. DOMAIN c = AppFields /\ c.modal = b.modal
  BY DEF AppFields, StateOK
<1>2. SetCollapsed(b, collapse) =
          IF ~b.grouped \/ session = None \/ c = b THEN Quiet(b)
          ELSE Redrawn(InvalidateRenderCache(d))
  BY DEF SetCollapsed
<1> HIDE DEF c
<1>3. DOMAIN d = AppFields /\ d.modal = b.modal
  BY <1>1 DEF FocusOn, AppFields
<1> HIDE DEF d
<1>4. StateOK(InvalidateRenderCache(d))
  BY <1>3, Invalidated DEF StateOK
<1> QED
  BY <1>2, <1>4, Drawn, Undrawn

\* A jump to a pane, or a window made for a headless session to attach to.
LEMMA EmitJumpStep ==
    ASSUME NEW a, StateOK(a), NEW zoom \in BOOLEAN
    PROVE  Step(a, EmitJump(a, zoom))
<1> DEFINE pending == [NoPending EXCEPT !.state = "creating"]
           b == [a EXCEPT !.pending = pending, !.attach = TRUE]
<1>1. StateOK(b)
  <2> HIDE DEF pending
  <2>1. /\ DOMAIN b = AppFields /\ b.modal = a.modal /\ b.cache = a.cache
        /\ b.model = a.model /\ b.grouped = a.grouped /\ b.query = a.query
        /\ b.collapsed = a.collapsed
    BY DEF AppFields, StateOK
  <2> HIDE DEF b
  <2> QED
    BY <2>1, Touched DEF StateOK
<1>2. EmitJump(a, zoom) \in
          {Give(a, TRUE, Effect("jump", a.focus)), Give(b, TRUE, Effect("attach", a.focus)),
           Quiet(a)}
  <2>1. CASE a.focus.kind \in {"pane", "header"}
    BY <2>1 DEF EmitJump
  <2>2. CASE a.focus.kind \notin {"pane", "header"}
    BY <2>2 DEF EmitJump
  <2> QED
    BY <2>1, <2>2
<1> HIDE DEF b
<1> QED
  BY <1>1, <1>2, Drawn, Undrawn

\* Grouped rows or flat ones.
LEMMA ToggleModeStep ==
    ASSUME NEW a, StateOK(a)
    PROVE  Step(a, ToggleMode(a))
<1> DEFINE b == [a EXCEPT !.grouped = ~@, !.zKey = FALSE]
           c == Cached(InvalidateRenderCache(b))
<1>1. DOMAIN b = AppFields /\ b.modal = a.modal
  BY DEF AppFields, StateOK
<1>2. ToggleMode(a) = Give(ReconcileFocus(c), TRUE, Effect("group", NoFocus))
  BY DEF ToggleMode
<1> HIDE DEF b
<1>3. StateOK(c)
  BY <1>1, Invalidated, CachedOK DEF StateOK
<1> HIDE DEF c
<1>4. StateOK(ReconcileFocus(c))
  BY <1>3, FocusOnOK DEF ReconcileFocus
<1> QED
  BY <1>2, <1>4, Drawn

\* Any other key of the list.
LEMMA NavigationKeyStep ==
    ASSUME NEW a, StateOK(a), NEW key
    PROVE  Step(a, NavigationKey(a, key))
<1> DEFINE typing == [a EXCEPT !.typing = TRUE]
           waiting == [a EXCEPT !.zKey = TRUE]
           over == [a EXCEPT !.quit = TRUE]
<1>1. StateOK(Cached(a)) /\ View(Cached(a)) = View(a)
  BY CachedOK
<1>2. StateOK(typing)
  <2>1. /\ DOMAIN typing = AppFields /\ typing.modal = a.modal /\ typing.cache = a.cache
        /\ typing.model = a.model /\ typing.grouped = a.grouped /\ typing.query = a.query
        /\ typing.collapsed = a.collapsed
    BY DEF AppFields, StateOK
  <2> HIDE DEF typing
  <2> QED
    BY <2>1, Touched DEF StateOK
<1>3. StateOK(waiting) /\ View(waiting) = View(a)
  <2>1. /\ DOMAIN waiting = AppFields /\ waiting.modal = a.modal /\ waiting.cache = a.cache
        /\ waiting.model = a.model /\ waiting.grouped = a.grouped /\ waiting.query = a.query
        /\ waiting.collapsed = a.collapsed /\ View(waiting) = View(a)
    BY DEF AppFields, StateOK, View
  <2> HIDE DEF waiting
  <2> QED
    BY <2>1, Touched DEF StateOK
<1>4. StateOK(over)
  BY QuitOK
<1>5. /\ Step(a, Redrawn(typing)) /\ Step(a, Quiet(waiting)) /\ Step(a, Quiet(a))
      /\ Step(a, Give(over, TRUE, Effect("quit", NoFocus)))
  <2> HIDE DEF typing, waiting, over
  <2> QED
    BY <1>2, <1>3, <1>4, Drawn, Undrawn
<1>6. /\ \A index : Step(a, GoTo(Cached(a), index))
      /\ \A down : Step(a, MoveFocus(Cached(a), down))
      /\ \A collapse : Step(a, SetCollapsed(a, collapse))
      /\ \A zoom \in BOOLEAN : Step(a, EmitJump(a, zoom))
      /\ Step(a, ToggleMode(a)) /\ Step(a, OpenKillModal(a)) /\ Step(a, OpenCreateModal(a))
  BY <1>1, GoToStep, MoveFocusStep, SetCollapsedStep, EmitJumpStep, ToggleModeStep,
     OpenKillModalStep, OpenCreateModalStep
<1>7. CASE key = "Enter"
  BY <1>6, <1>7 DEF NavigationKey
<1>8. CASE key = "C-z"
  BY <1>6, <1>8 DEF NavigationKey
<1>9. CASE key = "/"
  BY <1>5, <1>9 DEF NavigationKey
<1>10. CASE key = "j"
  BY <1>6, <1>10 DEF NavigationKey
<1>11. CASE key = "k"
  BY <1>6, <1>11 DEF NavigationKey
<1>12. CASE key = "g"
  BY <1>6, <1>12 DEF NavigationKey
<1>13. CASE key = "G"
  BY <1>6, <1>13 DEF NavigationKey
<1>14. CASE key = "h"
  BY <1>6, <1>14 DEF NavigationKey
<1>15. CASE key = "l"
  BY <1>6, <1>15 DEF NavigationKey
<1>16. CASE key = "z"
  BY <1>5, <1>16 DEF NavigationKey
<1>17. CASE key = "s"
  BY <1>6, <1>17 DEF NavigationKey
<1>18. CASE key = "x"
  BY <1>6, <1>18 DEF NavigationKey
<1>19. CASE key = "n"
  BY <1>6, <1>19 DEF NavigationKey
<1>20. CASE key \in {"q", "Esc"}
  BY <1>5, <1>20 DEF NavigationKey
<1>21. CASE key \notin {"Enter", "C-z", "/", "j", "k", "g", "G", "h", "l", "z", "s", "x", "n",
                        "q", "Esc"}
  BY <1>5, <1>21 DEF NavigationKey
<1> QED
  BY <1>7, <1>8, <1>9, <1>10, <1>11, <1>12, <1>13, <1>14, <1>15, <1>16, <1>17, <1>18, <1>19,
     <1>20, <1>21

\* Any key, whatever is open.
LEMMA ReduceKeyStep ==
    ASSUME NEW a, StateOK(a), NEW key, NEW valid \in BOOLEAN
    PROVE  Step(a, ReduceKey(a, key, valid))
<1> DEFINE b == [a EXCEPT !.zKey = FALSE]
<1>1. StateOK(b) /\ View(b) = View(a)
  <2>1. /\ DOMAIN b = AppFields /\ b.modal = a.modal /\ b.cache = a.cache
        /\ b.model = a.model /\ b.grouped = a.grouped /\ b.query = a.query
        /\ b.collapsed = a.collapsed /\ View(b) = View(a)
    BY DEF AppFields, StateOK, View
  <2> HIDE DEF b
  <2> QED
    BY <2>1, Touched DEF StateOK
<1>2. Step(a, Redrawn([a EXCEPT !.modal = Help]))
  BY Dialogs, DialogOK, Drawn
<1>3. Step(a, IF key = "a" THEN ToggleCollapsed(b) ELSE Quiet(b))
  <2> HIDE DEF b
  <2> QED
    BY <1>1, SetCollapsedStep, Undrawn DEF ToggleCollapsed
<1>4. a.modal # NoModal => Step(a, ModalKey(a, key, valid))
  BY ModalKeyStep
<1>5. /\ Step(a, OpenSendModal(a)) /\ Step(a, FilterKey(a, key))
      /\ Step(a, NavigationKey(a, key))
  BY OpenSendModalStep, FilterKeyStep, NavigationKeyStep
<1> QED
  BY <1>2, <1>3, <1>4, <1>5 DEF ReduceKey

-----------------------------------------------------------------------------
(* Time, snapshots and creations                                            *)

\* Where a clock and a deadline are all that changes.
LEMMA ObservedOK ==
    ASSUME NEW a, StateOK(a), NEW time
    PROVE  /\ StateOK(ObserveCreationTime(a, time))
           /\ View(ObserveCreationTime(a, time)) = View(a)
<1> DEFINE b == ObserveCreationTime(a, time)
<1>1. /\ DOMAIN b = AppFields /\ b.modal = a.modal /\ b.cache = a.cache
      /\ b.model = a.model /\ b.grouped = a.grouped /\ b.query = a.query
      /\ b.collapsed = a.collapsed /\ View(b) = View(a)
  BY DEF AppFields, StateOK, View, ObserveCreationTime
<1> HIDE DEF b
<1>2. StateOK(b) /\ View(b) = View(a)
  BY <1>1, Touched DEF StateOK
<1> QED
  BY <1>2 DEF b

\* A creation that is forgotten has no pending line.
LEMMA ForgottenOK ==
    ASSUME NEW a, StateOK(a), NEW b, b = ForgetCreation(a)
    PROVE  StateOK(b) /\ b.pending = NoPending
<1>1. /\ DOMAIN b = AppFields /\ b.modal = a.modal /\ b.cache = a.cache
      /\ b.model = a.model /\ b.grouped = a.grouped /\ b.query = a.query
      /\ b.collapsed = a.collapsed /\ b.pending = NoPending
  BY DEF AppFields, StateOK, ForgetCreation
<1> QED
  BY <1>1, Touched DEF StateOK

\* The wait for a pane that was made ends, at its deadline only.
LEMMA ExpiredOK ==
    ASSUME NEW a, StateOK(a), NEW time, NEW b, b = ExpireCreationVerification(a, time)
    PROVE  /\ StateOK(b)
           /\ ~Expires(a, time) => b = a
           /\ Expires(a, time) => b.pending = NoPending /\ Awaiting(a)
<1> DEFINE c == ForgetCreation(a)
           d == [c EXCEPT !.banner = "unverified"]
<1>1. StateOK(c) /\ c.pending = NoPending
  BY ForgottenOK
<1> HIDE DEF c
<1>2. DOMAIN d = AppFields /\ d.modal = c.modal /\ d.pending = NoPending
  BY <1>1 DEF AppFields, StateOK
<1>3. CASE Expires(a, time)
  <2>1. b = InvalidateRenderCache(d)
    BY <1>3 DEF ExpireCreationVerification, c
  <2> HIDE DEF d
  <2>2. StateOK(b) /\ View(b) = View(d)
    BY <1>1, <1>2, <2>1, Invalidated DEF StateOK
  <2>3. b.pending = NoPending
    BY <1>2, <2>2 DEF View
  <2> QED
    BY <1>3, <2>2, <2>3 DEF Expires
<1>4. CASE ~Expires(a, time)
  BY <1>4 DEF ExpireCreationVerification
<1> QED
  BY <1>3, <1>4

\* A tick of the clock, which draws when an age or a wait is due.
LEMMA ReduceTickStep ==
    ASSUME NEW a, StateOK(a), NEW time
    PROVE  Step(a, ReduceTick(a, time))
<1> DEFINE observed == ObserveCreationTime(a, time)
           due == observed.ageDue # Never /\ time >= observed.ageDue
           b == IF due THEN [observed EXCEPT !.aged = FALSE] ELSE observed
           c == ExpireCreationVerification(b, time)
<1>1. StateOK(observed) /\ View(observed) = View(a)
  BY ObservedOK
<1>2. ReduceTick(a, time) = Give(c, due \/ Expires(b, time), NoEffect)
  BY DEF ReduceTick
<1> HIDE DEF observed
<1>3. StateOK(b) /\ View(b) = View(a)
  <2>1. /\ DOMAIN b = AppFields /\ b.modal = observed.modal /\ b.cache = observed.cache
        /\ b.model = observed.model /\ b.grouped = observed.grouped /\ b.query = observed.query
        /\ b.collapsed = observed.collapsed /\ View(b) = View(observed)
    BY <1>1 DEF AppFields, StateOK, View
  <2> HIDE DEF b
  <2> QED
    BY <1>1, <2>1, Touched DEF StateOK
<1> HIDE DEF b
<1>4. StateOK(c) /\ (~Expires(b, time) => c = b)
  BY <1>3, ExpiredOK
<1> HIDE DEF c
<1> DEFINE changed == due \/ Expires(b, time)
<1>5. ~changed => c = b
  BY <1>4
<1> HIDE DEF due, changed
<1>6. Step(a, Give(c, changed, NoEffect))
  BY <1>3, <1>4, <1>5 DEF Step, Give
<1> QED
  BY <1>2, <1>6 DEF changed

\* A snapshot that shows the new pane, or that it is gone, ends the wait for it.
LEMMA ReconciledOK ==
    ASSUME NEW a, StateOK(a), NEW o, NEW time,
           NEW b, b = ReconcileSnapshotPresence(a, o, time)
    PROVE  /\ StateOK(b)
           /\ b.pending = a.pending => View(b) = View(a)
           /\ b.pending = a.pending \/ b.pending = NoPending
<1> DEFINE kept == {p \in a.ephemeral : KeepsEphemeral(o, p, time)}
           pane == a.pending.pane
           uncertain == /\ a.pending.resolution = "untagged"
                        /\ ~Discovered(RecordsOf(o, pane), time)
           c == [a EXCEPT !.ephemeral = kept]
           d == ForgetCreation(c)
           e == [d EXCEPT !.ephemeral = IF uncertain THEN kept \cup {pane} ELSE kept,
                          !.banner = IF a.pending.resolution = "success" THEN "none"
                                     ELSE "created"]
           f == [d EXCEPT !.ephemeral = kept \ {pane}, !.banner = "exited"]
<1>1. StateOK(c) /\ View(c) = View(a) /\ c.pending = a.pending
  <2> HIDE DEF kept
  <2>1. /\ DOMAIN c = AppFields /\ c.modal = a.modal /\ c.cache = a.cache
        /\ c.model = a.model /\ c.grouped = a.grouped /\ c.query = a.query
        /\ c.collapsed = a.collapsed /\ View(c) = View(a) /\ c.pending = a.pending
    BY DEF AppFields, StateOK, View
  <2> HIDE DEF c
  <2> QED
    BY <2>1, Touched DEF StateOK
<1>2. \/ b = e /\ Presence(a, o) # "none"
      \/ b = f /\ Presence(a, o) # "none"
      \/ b = c
  <2>1. CASE Presence(a, o) = "shown"
    BY <2>1 DEF ReconcileSnapshotPresence
  <2>2. CASE Presence(a, o) = "gone"
    BY <2>2 DEF ReconcileSnapshotPresence
  <2>3. CASE Presence(a, o) \notin {"shown", "gone"}
    BY <2>3 DEF ReconcileSnapshotPresence
  <2> QED
    BY <2>1, <2>2, <2>3
<1>3. Presence(a, o) # "none" => a.pending # NoPending
  BY DEF Presence, Awaiting, NoPending
<1> HIDE DEF c
<1>4. StateOK(d) /\ d.pending = NoPending
  BY <1>1, ForgottenOK
<1> HIDE DEF d, kept, uncertain, pane
<1>5. StateOK(e) /\ e.pending = NoPending
  <2>1. /\ DOMAIN e = AppFields /\ e.modal = d.modal /\ e.cache = d.cache
        /\ e.model = d.model /\ e.grouped = d.grouped /\ e.query = d.query
        /\ e.collapsed = d.collapsed /\ e.pending = d.pending
    BY <1>4 DEF AppFields, StateOK
  <2> HIDE DEF e
  <2> QED
    BY <1>4, <2>1, Touched DEF StateOK
<1>6. StateOK(f) /\ f.pending = NoPending
  <2>1. /\ DOMAIN f = AppFields /\ f.modal = d.modal /\ f.cache = d.cache
        /\ f.model = d.model /\ f.grouped = d.grouped /\ f.query = d.query
        /\ f.collapsed = d.collapsed /\ f.pending = d.pending
    BY <1>4 DEF AppFields, StateOK
  <2> HIDE DEF f
  <2> QED
    BY <1>4, <2>1, Touched DEF StateOK
<1> HIDE DEF e, f
<1> QED
  BY <1>1, <1>2, <1>3, <1>5, <1>6

\* The focus finds its row again.
LEMMA KeepFocusOK ==
    ASSUME NEW c, StateOK(c), NEW old, NEW oldVisible
    PROVE  StateOK(KeepFocus(c, old, oldVisible))
BY FocusOnOK DEF KeepFocus

\* A snapshot: not drawn only if the content is the same, and no creation ended.
LEMMA ReduceSnapshotStep ==
    ASSUME NEW s, NEW c, StateOK(c), View(c) = View(s), NEW o, NEW time
    PROVE  Step(s, ReduceSnapshot(c, o, time))
<1> DEFINE a == ObserveCreationTime(c, time)
           r == ReconcileSnapshotPresence(a, o, time)
           b == ExpireCreationVerification(r, time)
           model == Build(o.records, b.model.headless, time, b.ephemeral)
           resolved == Awaiting(a) /\ b.pending = NoPending
           filled == [b EXCEPT !.model = model, !.grouped = model.grouped, !.failures = 0,
                               !.dropped = o.dropped,
                               !.collapsed = @ \cap DOMAIN model.sessions,
                               !.banner = IF resolved THEN @ ELSE "none"]
           d == InvalidateRenderCache(filled)
           e == [d EXCEPT !.query = <<>>, !.typing = FALSE,
                          !.collapsed = @ \ {a.pending.session}]
           jump == IF a.attach
                   THEN Effect("jump", PaneFocus([session |-> None, window |-> None,
                                                  pane |-> a.pending.pane]))
                   ELSE NoEffect
<1>1. ReduceSnapshot(c, o, time) = TakeModel(a, b, o, model)
  BY DEF ReduceSnapshot
<1>2. TakeModel(a, b, o, model) =
          IF Nothing(a, b, o, model) THEN Quiet(b)
          ELSE IF Presence(a, o) # "shown"
          THEN Redrawn(KeepFocus(Cached(d), a.focus, Visible(a)))
          ELSE Give(SelectCreated(d, a.pending), TRUE, jump)
  BY DEF TakeModel
<1>3. SelectCreated(d, a.pending) =
          FocusOn(e, SelectionFocus(d.model, a.pending.session, a.pending.pane))
  BY DEF SelectCreated
<1>4. StateOK(a) /\ View(a) = View(s)
  BY ObservedOK
<1> HIDE DEF a
<1>5. /\ StateOK(r)
      /\ r.pending = a.pending => View(r) = View(a)
      /\ r.pending = a.pending \/ r.pending = NoPending
  BY <1>4, ReconciledOK
<1> HIDE DEF r
<1>6. /\ StateOK(b)
      /\ ~Expires(r, time) => b = r
      /\ Expires(r, time) => b.pending = NoPending /\ Awaiting(r)
  BY <1>5, ExpiredOK
<1> HIDE DEF b, model, resolved, jump
<1>7. DOMAIN filled = AppFields /\ filled.modal = b.modal
  BY <1>6 DEF AppFields, StateOK
<1> HIDE DEF filled
<1>8. StateOK(d) /\ ~d.cache.valid
  BY <1>6, <1>7, Invalidated DEF StateOK
<1> HIDE DEF d
<1>9. StateOK(e)
  <2>1. DOMAIN e = AppFields /\ e.modal = d.modal /\ e.cache = d.cache
    BY <1>8 DEF AppFields, StateOK
  <2> HIDE DEF e
  <2> QED
    BY <1>8, <2>1 DEF StateOK, CacheTrue
<1> HIDE DEF e
<1>10. Step(s, Redrawn(KeepFocus(Cached(d), a.focus, Visible(a))))
  BY <1>8, CachedOK, KeepFocusOK, Drawn
<1>11. Step(s, Give(SelectCreated(d, a.pending), TRUE, jump))
  BY <1>3, <1>9, FocusOnOK, Drawn
<1>12. ASSUME Nothing(a, b, o, model) PROVE Step(s, Quiet(b))
  <2>1. b.pending = a.pending
    BY <1>12 DEF Nothing
  <2>2. CASE Expires(r, time)
    <3>1. a.pending = NoPending /\ r.pending # NoPending
      BY <1>6, <2>1, <2>2 DEF Awaiting, NoPending
    <3> QED
      BY <1>5, <3>1
  <2>3. CASE ~Expires(r, time)
    BY <1>4, <1>5, <1>6, <2>1, <2>3, Undrawn
  <2> QED
    BY <2>2, <2>3
<1> QED
  BY <1>1, <1>2, <1>10, <1>11, <1>12

\* A list of headless sessions: not drawn only if it shows the same.
LEMMA ReduceHeadlessStep ==
    ASSUME NEW s, NEW a, StateOK(a), View(a) = View(s), NEW records, NEW alarm
    PROVE  Step(s, ReduceHeadlessSnapshot(a, records, alarm))
<1> DEFINE model == ReplaceHeadless(a.model, records)
           c == [a EXCEPT !.model = model, !.kimaki = alarm]
           b == InvalidateRenderCache(c)
<1>1. ReduceHeadlessSnapshot(a, records, alarm) =
          IF ContentHash(model) = ContentHash(a.model) /\ a.kimaki = alarm THEN Quiet(a)
          ELSE Redrawn(KeepFocus(Cached(b), a.focus, Visible(a)))
  BY DEF ReduceHeadlessSnapshot
<1>2. DOMAIN c = AppFields /\ c.modal = a.modal
  BY DEF AppFields, StateOK
<1> HIDE DEF c, model
<1>3. StateOK(b)
  BY <1>2, Invalidated DEF StateOK
<1> HIDE DEF b
<1>4. StateOK(KeepFocus(Cached(b), a.focus, Visible(a)))
  BY <1>3, CachedOK, KeepFocusOK
<1> QED
  BY <1>1, <1>4, Drawn, Undrawn

\* A snapshot that failed.
LEMMA ReduceSnapshotFailureStep ==
    ASSUME NEW a, StateOK(a)
    PROVE  Step(a, ReduceSnapshotFailure(a))
<1> DEFINE b == [a EXCEPT !.failures = @ + 1, !.banner = "snapshot failed"]
<1>1. /\ DOMAIN b = AppFields /\ b.modal = a.modal /\ b.cache = a.cache
      /\ b.model = a.model /\ b.grouped = a.grouped /\ b.query = a.query
      /\ b.collapsed = a.collapsed
  BY DEF AppFields, StateOK
<1>2. ReduceSnapshotFailure(a) = Redrawn(b)
  BY DEF ReduceSnapshotFailure
<1> HIDE DEF b
<1>3. StateOK(b)
  BY <1>1, Touched DEF StateOK
<1> QED
  BY <1>2, <1>3, Drawn

\* A creation that failed says so in its form if that is still open.
LEMMA CreateFailedStep ==
    ASSUME NEW s, NEW a, StateOK(a)
    PROVE  Step(s, CreateFailed(a))
<1> DEFINE modal == Form(a.modal.context, a.modal.field, FALSE, TRUE)
           b == [a EXCEPT !.pending.state = "error", !.modal = modal]
           c == [a EXCEPT !.pending = NoPending, !.attach = FALSE, !.banner = "create failed"]
           d == IF a.modal.kind = "form" THEN b ELSE c
<1>1. ModalOK(modal)
  BY Dialogs
<1>2. CreateFailed(a) = Redrawn(InvalidateRenderCache(d))
  BY DEF CreateFailed
<1> HIDE DEF modal
<1>3. DOMAIN b = AppFields /\ b.modal = modal
  BY DEF AppFields, StateOK
<1>4. DOMAIN c = AppFields /\ c.modal = a.modal
  BY DEF AppFields, StateOK
<1> HIDE DEF b, c
<1>5. DOMAIN d = AppFields /\ ModalOK(d.modal)
  BY <1>1, <1>3, <1>4 DEF StateOK
<1> HIDE DEF d
<1>6. StateOK(InvalidateRenderCache(d))
  BY <1>5, Invalidated
<1> QED
  BY <1>2, <1>6, Drawn

\* A pane was made; any dialog is closed.
LEMMA CreatedStep ==
    ASSUME NEW a, StateOK(a)
    PROVE  Step(a, Created(a))
<1> DEFINE b == [a EXCEPT !.pending.state = "created", !.pending.pane = NewPane,
                          !.modal = NoModal]
<1>1. Created(a) = Redrawn(InvalidateRenderCache(b))
  BY DEF Created
<1>2. DOMAIN b = AppFields /\ b.modal = NoModal
  BY DEF AppFields, StateOK
<1> HIDE DEF b
<1>3. StateOK(InvalidateRenderCache(b))
  BY <1>2, Invalidated, Dialogs
<1> QED
  BY <1>1, <1>3, Drawn

\* The worker of a creation is done.
LEMMA FinishCreationStep ==
    ASSUME NEW a, StateOK(a), NEW resolution
    PROVE  Step(a, FinishCreation(a, resolution))
<1> DEFINE deadline == IF a.clock = Never THEN Never ELSE a.clock + VerificationTimeout
           b == [a EXCEPT !.pending.state = "awaiting", !.pending.resolution = resolution,
                          !.attach = @ /\ resolution = "success", !.deadline = deadline]
<1>1. FinishCreation(a, resolution) =
          Give(InvalidateRenderCache(b), TRUE, Effect("refresh", NoFocus))
  BY DEF FinishCreation
<1>2. DOMAIN b = AppFields /\ b.modal = a.modal
  BY DEF AppFields, StateOK
<1> HIDE DEF b
<1>3. StateOK(InvalidateRenderCache(b))
  BY <1>2, Invalidated DEF StateOK
<1> QED
  BY <1>1, <1>3, Drawn

\* What a completed command makes of the state.
LEMMA CompleteStep ==
    ASSUME NEW a, StateOK(a), NEW kind, NEW outcome, NEW done, done = Complete(a, kind, outcome)
    PROVE  Step(a, done) \/ (StateOK(done.app) /\ done.app.quit)
<1> DEFINE over == Quiet([a EXCEPT !.quit = TRUE])
<1>1. StateOK(over.app) /\ over.app.quit
  BY QuitOK DEF Quiet, Give
<1> HIDE DEF over
<1>2. Step(a, ReduceActionFinished(a, kind, outcome))
  BY Undrawn, BannerOK DEF ReduceActionFinished
<1>3. Step(a, CreateFailed(a)) /\ Step(a, Quiet(a))
  BY CreateFailedStep, Undrawn
<1>4. CASE kind \in {"send", "kill"}
  BY <1>2, <1>4 DEF Complete
<1>5. CASE kind = "jump" /\ outcome = "success"
  BY <1>1, <1>5 DEF Complete, over
<1>6. CASE kind = "group" /\ outcome = "failed"
  BY <1>1, <1>6 DEF Complete, over
<1>7. CASE kind = "attach" /\ outcome = "failed"
  BY <1>3, <1>7 DEF Complete
<1>8. CASE /\ kind \notin {"send", "kill"} /\ ~(kind = "jump" /\ outcome = "success")
           /\ ~(kind = "group" /\ outcome = "failed") /\ ~(kind = "attach" /\ outcome = "failed")
  BY <1>3, <1>8 DEF Complete
<1> QED
  BY <1>4, <1>5, <1>6, <1>7, <1>8

-----------------------------------------------------------------------------
(* What is drawn                                                            *)

\* A state as it is drawn.
LEMMA PreparedOK ==
    ASSUME NEW a, StateOK(a), NEW time, NEW b, b = PrepareRender(a, time)
    PROVE  StateOK(b) /\ View(b) = View(a) /\ b.quit = a.quit /\ b.cache.valid
<1> DEFINE c == Cached(a)
           due == FirstBoundary(c.cache.rows, time)
           d == [c EXCEPT !.aged = TRUE, !.ageDue = due]
<1>1. b = IF c.aged THEN c ELSE d
  BY DEF PrepareRender, PrepareAges
<1>2. StateOK(c) /\ View(c) = View(a) /\ c.quit = a.quit /\ c.cache.valid
  BY CachedOK
<1> HIDE DEF c, due
<1>3. /\ DOMAIN d = AppFields /\ d.modal = c.modal /\ d.cache = c.cache
      /\ d.model = c.model /\ d.grouped = c.grouped /\ d.query = c.query
      /\ d.collapsed = c.collapsed /\ View(d) = View(c) /\ d.quit = c.quit
  BY <1>2 DEF AppFields, StateOK, View
<1> HIDE DEF d
<1>4. StateOK(d)
  BY <1>2, <1>3, Touched DEF StateOK
<1> QED
  BY <1>1, <1>2, <1>3, <1>4

\* The frame of a state without any cache.
FreshFrame(a, time) == Render(Cached([a EXCEPT !.cache = NoCache]), time)

\* A frame that is drawn with the caches is the one drawn without.
LEMMA DrawnIsFresh ==
    ASSUME NEW a, StateOK(a), a.cache.valid, NEW t, NEW u
    PROVE  SameFrame(Render(a, t), FreshFrame(a, u))
<1> DEFINE b == [a EXCEPT !.cache = NoCache]
<1>1. /\ DOMAIN b = AppFields /\ b.modal = a.modal /\ b.cache = NoCache
      /\ b.model = a.model /\ b.grouped = a.grouped /\ b.query = a.query
      /\ b.collapsed = a.collapsed /\ View(b) = View(a)
  BY DEF AppFields, StateOK, View
<1>2. FreshFrame(a, u) = Render(Cached(b), u)
  BY DEF FreshFrame
<1> HIDE DEF b
<1>3. StateOK(b)
  BY <1>1 DEF StateOK, CacheTrue, NoCache
<1>4. ShownRows(b) = ShownRows(a)
  BY <1>1, SameShownRows
<1>5. /\ View(Cached(b)) = View(a) /\ Cached(b).cache.rows = a.cache.rows
      /\ Cached(b).cache.counts = a.cache.counts
  BY <1>1, <1>3, <1>4, CachedOK DEF StateOK, CacheTrue
<1> QED
  BY <1>2, <1>5, SameViewSameFrame

\* States that look the same have the same frame, but for the ages.
LEMMA SameFreshFrame ==
    ASSUME NEW a, NEW b, StateOK(a), StateOK(b), View(a) = View(b), NEW t, NEW u
    PROVE  SameFrame(FreshFrame(a, t), FreshFrame(b, u))
<1> DEFINE c == [a EXCEPT !.cache = NoCache]
           d == [b EXCEPT !.cache = NoCache]
<1>1. /\ DOMAIN c = AppFields /\ c.modal = a.modal /\ c.cache = NoCache /\ View(c) = View(a)
      /\ DOMAIN d = AppFields /\ d.modal = b.modal /\ d.cache = NoCache /\ View(d) = View(b)
  BY DEF AppFields, StateOK, View
<1>2. FreshFrame(a, t) = Render(Cached(c), t) /\ FreshFrame(b, u) = Render(Cached(d), u)
  BY DEF FreshFrame
<1> HIDE DEF c, d
<1>3. StateOK(c) /\ StateOK(d)
  BY <1>1 DEF StateOK, CacheTrue, NoCache
<1>4. /\ c.model = d.model /\ c.grouped = d.grouped /\ c.query = d.query
      /\ c.collapsed = d.collapsed
  BY <1>1 DEF View
<1>5. ShownRows(c) = ShownRows(d)
  BY <1>4, SameShownRows
<1>6. /\ View(Cached(c)) = View(Cached(d)) /\ Cached(c).cache.rows = Cached(d).cache.rows
      /\ Cached(c).cache.counts = Cached(d).cache.counts
  BY <1>1, <1>3, <1>4, <1>5, CachedOK
<1> QED
  BY <1>2, <1>6, SameViewSameFrame

-----------------------------------------------------------------------------
(* Theorems                                                                 *)

\* The screen is the one that would be drawn of the state without any cache.
ScreenInv == StateOK(app) /\ (app.quit \/ SameFrame(screen, FreshFrame(app, now)))

\* What the invariant says of the screen is what is wanted.
LEMMA ScreenInvIs == ScreenInv => ScreenIsCurrent
BY DEF ScreenInv, ScreenIsCurrent, SameFrame, FreshFrame

\* An event is applied.
LEMMA Applied ==
    ASSUME ScreenInv, ~app.quit, NEW result, Step(app, result), Apply(result)
    PROVE  ScreenInv'
<1>1. PICK outcome \in Outcomes(result.effect.kind) :
          LET done == Complete(result.app, result.effect.kind, outcome)
          IN  IF result.changed \/ done.changed
              THEN Draw(PrepareRender(done.app, now'))
              ELSE app' = done.app /\ UNCHANGED screen
  BY DEF Apply
<1> DEFINE done == Complete(result.app, result.effect.kind, outcome)
<1>2. Step(result.app, done) \/ (StateOK(done.app) /\ done.app.quit)
  BY CompleteStep DEF Step
<1>3. CASE result.changed \/ done.changed
  <2>1. app' = PrepareRender(done.app, now') /\ screen' = Render(app', now')
    BY <1>1, <1>3 DEF Draw
  <2>2. StateOK(app') /\ app'.cache.valid
    BY <1>2, <2>1, PreparedOK DEF Step
  <2>3. SameFrame(screen', FreshFrame(app', now'))
    BY <2>1, <2>2, DrawnIsFresh
  <2> QED
    BY <2>2, <2>3 DEF ScreenInv
<1>4. CASE ~(result.changed \/ done.changed)
  <2>1. app' = done.app /\ screen' = screen
    BY <1>1, <1>4
  <2> HIDE DEF done
  <2>2. StateOK(app') /\ StateOK(app)
    BY <1>2, <2>1 DEF Step, ScreenInv
  <2>3. View(result.app) = View(app)
    BY <1>4 DEF Step
  <2>4. app'.quit \/ View(app') = View(app)
    BY <1>2, <1>4, <2>1, <2>3 DEF Step
  <2>5. SameFrame(screen, FreshFrame(app, now))
    BY DEF ScreenInv
  <2>6. CASE View(app') = View(app)
    <3>1. SameFrame(FreshFrame(app, now), FreshFrame(app', now'))
      BY <2>2, <2>6, SameFreshFrame
    <3> QED
      BY <2>1, <2>2, <2>5, <3>1 DEF ScreenInv, SameFrame
  <2> QED
    BY <2>2, <2>4, <2>6 DEF ScreenInv
<1> QED
  BY <1>3, <1>4

\* The first frame is drawn from the first state.
LEMMA Opened == Init => ScreenInv
<1> SUFFICES ASSUME Init PROVE ScreenInv
  OBVIOUS
<1>1. PICK lines \in Snapshots : app = PrepareRender(InitialApp(lines), now)
  BY DEF Init
<1> DEFINE a == InitialApp(lines)
<1>2. PICK o : o = Parse(lines)
  OBVIOUS
<1>3. PICK model : model = Build(o.records, <<>>, StartTime, {})
  OBVIOUS
<1> DEFINE b == [model |-> model, grouped |-> model.grouped, typing |-> FALSE, query |-> <<>>,
                 focus |-> NoFocus, selection |-> NoFocus, collapsed |-> {}, modal |-> NoModal,
                 zKey |-> FALSE, ephemeral |-> {}, pending |-> NoPending, attach |-> FALSE,
                 clock |-> Never, deadline |-> Never, failures |-> 0, dropped |-> o.dropped,
                 banner |-> "none", kimaki |-> FALSE, cache |-> NoCache, ageDue |-> Never,
                 aged |-> FALSE, quit |-> FALSE]
<1>4. a = b \/ \E focus : a = FocusOn(b, focus)
  BY <1>2, <1>3 DEF InitialApp
<1>5. DOMAIN b = AppFields /\ b.modal = NoModal /\ b.cache = NoCache
  BY DEF AppFields
<1> HIDE DEF a, b
<1>6. StateOK(b)
  BY <1>5, Dialogs DEF StateOK, CacheTrue, NoCache
<1>7. StateOK(a)
  BY <1>4, <1>6, FocusOnOK
<1>8. StateOK(app) /\ app.cache.valid
  BY <1>1, <1>7, PreparedOK DEF a
<1>9. screen = Render(app, now)
  BY DEF Init
<1> QED
  BY <1>8, <1>9, DrawnIsFresh DEF ScreenInv

\* Every event is applied so, and the clock alone changes no more than ages.
LEMMA StepKeepsScreenInv == ScreenInv /\ [Next]_vars => ScreenInv'
<1> SUFFICES ASSUME ScreenInv, [Next]_vars PROVE ScreenInv'
  OBVIOUS
<1>1. StateOK(app)
  BY DEF ScreenInv
<1>2. StateOK(Cached(app)) /\ View(Cached(app)) = View(app)
  BY <1>1, CachedOK
<1>3. ASSUME NEW key \in Keys, NEW valid \in BOOLEAN, Press(key, valid)
      PROVE  ScreenInv'
  BY <1>1, <1>3, ReduceKeyStep, Applied DEF Press, Running
<1>4. CASE SnapshotArrives
  BY <1>2, <1>4, ReduceSnapshotStep, Applied DEF SnapshotArrives, Running
<1>5. CASE SnapshotFails
  BY <1>1, <1>5, ReduceSnapshotFailureStep, Applied DEF SnapshotFails, Running
<1>6. CASE HeadlessArrives
  BY <1>2, <1>6, ReduceHeadlessStep, Applied DEF HeadlessArrives, Running
<1>7. CASE UNCHANGED <<app, screen>>
  <2>1. SameFrame(FreshFrame(app, now), FreshFrame(app', now'))
    BY <1>1, <1>7, SameFreshFrame
  <2> QED
    BY <1>1, <1>7, <2>1 DEF ScreenInv, SameFrame
<1>8. CASE Tick
  BY <1>1, <1>8, ReduceTickStep, Applied DEF Tick, Running
<1>9. CASE CreationProgresses
  BY <1>1, <1>9, CreateFailedStep, CreatedStep, FinishCreationStep, Applied
     DEF CreationProgresses, Running
<1>10. CASE TimePasses \/ UNCHANGED vars
  BY <1>7, <1>10 DEF TimePasses, vars
<1> QED
  BY <1>3, <1>4, <1>5, <1>6, <1>8, <1>9, <1>10 DEF Next

\* Whatever comes in whatever order, the screen shows what would be drawn without
\* any cache: no row, count, dialog or alert outlives what it was made of, and
\* every change that can be seen is drawn.
THEOREM ScreenAlwaysCurrent == Spec => []ScreenIsCurrent
BY Opened, StepKeepsScreenInv, ScreenInvIs, PTL DEF Spec

-----------------------------------------------------------------------------
(* The focus                                                                *)

\* A focus is a row that the query leaves, and not a folded one unless it was
\* created there; the selection is the focus.
Fits(a, focus) ==
    \/ focus = NoFocus
    \/ /\ \E r \in ToSet(RankedRows(a.model, a.grouped, a.query)) : r.focus = focus
       /\ focus.kind = "pane" /\ SessionIsCollapsed(a, focus.session) => focus.pane = NewPane
Synced(a) == a.selection = IF a.focus.kind = "pane" THEN a.focus ELSE NoFocus

\* One of the choices is highlighted, and one of the fields active.
DialogGood(m) ==
    /\ m.kind = "choice" => IsList(m.choices) /\ m.selected \in 1..Len(m.choices)
    /\ m.kind = "form" => m.field \in ToSet(Fields(m.context))

\* A creation that told its pane told the new one.
PendingGood(p) ==
    /\ DOMAIN p = {"state", "pane", "session", "resolution"}
    /\ p.state \in {"created", "awaiting"} => p.pane = NewPane

Base(a) == ModelOK(a.model) /\ DialogGood(a.modal) /\ PendingGood(a.pending)
FocusOK(a) == Base(a) /\ Fits(a, a.focus) /\ Synced(a)

\* What is cached, and the ages among it, which are those of the rows.
Caches(a) == <<a.cache, a.ageDue, a.aged>>
Sound(a) == StateOK(a) /\ FocusOK(a) /\ (a.aged => a.cache.valid)

\* What comes of an event in a good state: the focus is still right, and the ages are
\* those there were, or the next draw finds them again.
Moved(a, result) ==
    /\ FocusOK(result.app)
    /\ \/ Caches(result.app) = Caches(a)
       \/ ~result.app.aged /\ (result.changed \/ ~a.cache.valid)

\* The ages stay with their rows.
LEMMA SameMoved ==
    ASSUME NEW a, NEW b, FocusOK(b), Caches(b) = Caches(a)
    PROVE  /\ Moved(a, Redrawn(b)) /\ Moved(a, Quiet(b))
           /\ \A changed, eff : Moved(a, Give(b, changed, eff))
BY DEF Moved, Redrawn, Quiet, Give

\* Rows that changed have no ages.
LEMMA StaleMoved ==
    ASSUME NEW a, NEW b, FocusOK(b), ~b.aged
    PROVE  Moved(a, Redrawn(b)) /\ \A eff : Moved(a, Give(b, TRUE, eff))
BY DEF Moved, Redrawn, Give

\* Nothing moves.
LEMMA UnmovedIs ==
    ASSUME NEW a, Sound(a)
    PROVE  /\ Moved(a, Quiet(a)) /\ Moved(a, Redrawn(a))
           /\ \A changed, eff : Moved(a, Give(a, changed, eff))
BY SameMoved DEF Sound

\* A change of nothing that the focus depends on.
LEMMA FocusKept ==
    ASSUME NEW a, FocusOK(a), NEW b, b.model = a.model, b.grouped = a.grouped,
           b.query = a.query, b.collapsed = a.collapsed, b.focus = a.focus,
           b.selection = a.selection, DialogGood(b.modal), PendingGood(b.pending)
    PROVE  FocusOK(b)
<1>1. \A s : SessionIsCollapsed(b, s) <=> SessionIsCollapsed(a, s)
  BY DEF SessionIsCollapsed
<1>2. Fits(b, b.focus) /\ Synced(b)
  BY <1>1 DEF FocusOK, Fits, Synced
<1> QED
  BY <1>2 DEF FocusOK, Base

\* Another dialog.
LEMMA DialogMoved ==
    ASSUME NEW a, Sound(a), NEW modal, DialogGood(modal), NEW b, b = [a EXCEPT !.modal = modal]
    PROVE  FocusOK(b) /\ Caches(b) = Caches(a)
<1>1. /\ b.modal = modal /\ b.pending = a.pending /\ b.model = a.model
      /\ b.grouped = a.grouped /\ b.query = a.query /\ b.collapsed = a.collapsed
      /\ b.focus = a.focus /\ b.selection = a.selection
      /\ b.cache = a.cache /\ b.ageDue = a.ageDue /\ b.aged = a.aged
  BY DEF AppFields, Sound, StateOK
<1>2. FocusOK(b)
  BY <1>1, FocusKept DEF Sound, FocusOK, Base
<1> QED
  BY <1>1, <1>2 DEF Caches

\* The dialogs that are opened.
LEMMA DialogsGood ==
    /\ DialogGood(NoModal) /\ DialogGood(Help)
    /\ \A pane, text : DialogGood(Send(pane, text))
    /\ \A pane : DialogGood(Kill(pane))
    /\ \A context : DialogGood(CreateForm(context))
<1>1. DialogGood(NoModal) /\ DialogGood(Help)
  BY DEF DialogGood, NoModal, Help
<1>2. ASSUME NEW pane, NEW text PROVE DialogGood(Send(pane, text)) /\ DialogGood(Kill(pane))
  BY DEF DialogGood, Send, Kill
<1>3. ASSUME NEW context PROVE DialogGood(CreateForm(context))
  <2> DEFINE form == CreateForm(context)
  <2>1. form.kind = "form" /\ form.context = context /\ form.field = Head(Fields(context))
    BY DEF CreateForm, Form
  <2>2. Head(Fields(context)) \in ToSet(Fields(context))
    BY DEF Fields, ToSet
  <2> HIDE DEF form
  <2>3. DialogGood(form)
    BY <2>1, <2>2 DEF DialogGood
  <2> QED
    BY <2>3 DEF form
<1> QED
  BY <1>1, <1>2, <1>3

\* The fields of a form, which are few.
LEMMA FieldsAre ==
    ASSUME NEW context
    PROVE  /\ ToSet(Fields(context)) = {Fields(context)[i] : i \in DOMAIN Fields(context)}
           /\ IsList(Fields(context)) /\ Len(Fields(context)) \in {2, 3}
           /\ DOMAIN Fields(context) = 1..Len(Fields(context))
<1> DEFINE s == Fields(context)
           x == "name"
           y == "cwd"
           z == "command"
<1>1. s \in Seq({x, y, z}) /\ Len(s) \in {2, 3}
  <2>1. s = <<y, z>> \/ s = <<x, y, z>>
    BY DEF Fields
  <2> HIDE DEF s, x, y, z
  <2>2. CASE s = <<y, z>>
    BY <2>2
  <2>3. CASE s = <<x, y, z>>
    BY <2>3
  <2> QED
    BY <2>1, <2>2, <2>3
<1> HIDE DEF s
<1>2. IsList(s) /\ DOMAIN s = 1..Len(s)
  BY <1>1, Lists
<1> QED
  BY <1>1, <1>2 DEF s, ToSet

\* open_send_modal, open_kill_modal
LEMMA BannerMoved ==
    ASSUME NEW a, Sound(a)
    PROVE  Moved(a, SelectAPane(a))
<1> DEFINE b == [a EXCEPT !.banner = "select a pane"]
<1>1. /\ b.modal = a.modal /\ b.pending = a.pending /\ b.model = a.model
      /\ b.grouped = a.grouped /\ b.query = a.query /\ b.collapsed = a.collapsed
      /\ b.focus = a.focus /\ b.selection = a.selection
      /\ b.cache = a.cache /\ b.ageDue = a.ageDue /\ b.aged = a.aged
  BY DEF AppFields, Sound, StateOK
<1> HIDE DEF b
<1>2. FocusOK(b) /\ Caches(b) = Caches(a)
  BY <1>1, FocusKept DEF Sound, FocusOK, Base, Caches
<1> QED
  BY <1>2, SameMoved DEF b, SelectAPane

\* The dialogs of the highlighted pane.
LEMMA OpenSendModalMoved ==
    ASSUME NEW a, Sound(a)
    PROVE  Moved(a, OpenSendModal(a))
BY BannerMoved, DialogMoved, DialogsGood, SameMoved DEF OpenSendModal

\* So with the question whether to kill it.
LEMMA OpenKillModalMoved ==
    ASSUME NEW a, Sound(a)
    PROVE  Moved(a, OpenKillModal(a))
BY BannerMoved, DialogMoved, DialogsGood, SameMoved DEF OpenKillModal

\* The choices of a new pane's context are a list, which is not empty.
LEMMA ChoicesGood ==
    ASSUME NEW a
    PROVE  DialogGood(Choice(CreateChoices(a), 1))
<1> DEFINE choices == CreateChoices(a)
           modal == Choice(choices, 1)
<1>1. IsList(choices) /\ 1 \in 1..Len(choices)
  <2>1. CASE a.focus.kind = "pane"
    <3> DEFINE x == Context("split", a.focus.pane, a.focus.session, a.focus.pane,
                            Cardinality(LinkedSessions(a, a.focus.pane)))
               y == NewWindowIn(a.focus.session, a.focus.pane)
               z == NewSessionIn(a.focus.pane)
    <3>1. choices = <<x, y, z>>
      BY <2>1 DEF CreateChoices, PaneCreateChoices
    <3> HIDE DEF choices, x, y, z
    <3>2. choices \in Seq({x, y, z}) /\ Len(choices) = 3
      BY <3>1
    <3> QED
      BY <3>2, Lists
  <2>2. CASE a.focus.kind = "header"
    <3> DEFINE cwd == SessionDefaultCwd(a, a.focus.session)
               x == NewWindowIn(a.focus.session, cwd)
               y == NewSessionIn(cwd)
    <3>1. choices = <<x, y>>
      BY <2>2 DEF CreateChoices
    <3> HIDE DEF choices, x, y
    <3>2. choices \in Seq({x, y}) /\ Len(choices) = 2
      BY <3>1
    <3> QED
      BY <3>2, Lists
  <2>3. CASE a.focus.kind \notin {"pane", "header"}
    <3> DEFINE x == NewSessionIn(None)
    <3>1. choices = <<x>>
      BY <2>3 DEF CreateChoices
    <3> HIDE DEF choices, x
    <3>2. choices \in Seq({x}) /\ Len(choices) = 1
      BY <3>1
    <3> QED
      BY <3>2, Lists
  <2> QED
    BY <2>1, <2>2, <2>3
<1> HIDE DEF choices
<1>2. modal.kind = "choice" /\ modal.choices = choices /\ modal.selected = 1
  BY DEF Choice
<1> HIDE DEF modal
<1>3. DialogGood(modal)
  BY <1>1, <1>2 DEF DialogGood
<1> QED
  BY <1>3 DEF modal, choices

\* open_create_modal
LEMMA OpenCreateModalMoved ==
    ASSUME NEW a, Sound(a)
    PROVE  Moved(a, OpenCreateModal(a))
<1> DEFINE modal == IF DOMAIN a.model.panes = {} THEN CreateForm(NewSessionIn(None))
                    ELSE Choice(CreateChoices(a), 1)
<1>1. DialogGood(modal)
  BY DialogsGood, ChoicesGood
<1>2. OpenCreateModal(a) = IF a.pending # NoPending THEN Quiet(a)
                           ELSE Redrawn([a EXCEPT !.modal = modal])
  BY DEF OpenCreateModal
<1> HIDE DEF modal
<1> QED
  BY <1>1, <1>2, DialogMoved, SameMoved, UnmovedIs

\* Keys of the dialogs that send a text and kill a pane.
LEMMA SendKeyMoved ==
    ASSUME NEW a, Sound(a), NEW key
    PROVE  Moved(a, SendKey(a, key))
<1> DEFINE pane == a.modal.pane
           text == a.modal.text
           closed == [a EXCEPT !.modal = NoModal]
           shorter == [a EXCEPT !.modal = Send(pane, text - 1)]
           longer == [a EXCEPT !.modal = Send(pane, text + 1)]
<1>1. /\ FocusOK(closed) /\ FocusOK(shorter) /\ FocusOK(longer)
      /\ Caches(closed) = Caches(a) /\ Caches(shorter) = Caches(a) /\ Caches(longer) = Caches(a)
  BY DialogsGood, DialogMoved
<1>2. SendKey(a, key) \in
          {Redrawn(closed), Redrawn(shorter), Redrawn(longer), Quiet(a),
           Give(closed, TRUE, IF text = 0 THEN NoEffect ELSE Effect("send", pane))}
  <2>1. CASE key = "Esc"
    BY <2>1 DEF SendKey, Plain
  <2>2. CASE key = "Enter"
    BY <2>2 DEF SendKey, Plain
  <2>3. CASE key = "Backspace"
    BY <2>3 DEF SendKey, Plain
  <2>4. CASE key \notin {"Esc", "Enter", "Backspace"}
    BY <2>4 DEF SendKey
  <2> QED
    BY <2>1, <2>2, <2>3, <2>4
<1> HIDE DEF closed, shorter, longer
<1> QED
  BY <1>1, <1>2, SameMoved, UnmovedIs

\* Its answer.
LEMMA KillKeyMoved ==
    ASSUME NEW a, Sound(a), NEW key
    PROVE  Moved(a, KillKey(a, key))
BY DialogsGood, DialogMoved, SameMoved DEF KillKey

\* Keys of the choice of a context: the highlighted one stays among them.
LEMMA ChoiceKeyMoved ==
    ASSUME NEW a, Sound(a), a.modal.kind = "choice", NEW key
    PROVE  Moved(a, ChoiceKey(a, key))
<1> DEFINE choices == a.modal.choices
           at == a.modal.selected
           select(i) == Redrawn([a EXCEPT !.modal = Choice(choices, i)])
           closed == Redrawn([a EXCEPT !.modal = NoModal])
           form == Redrawn([a EXCEPT !.modal = CreateForm(choices[at])])
<1>1. IsList(choices) /\ at \in 1..Len(choices) /\ Len(choices) \in Nat
  BY ListIs DEF Sound, FocusOK, Base, DialogGood
<1>2. Moved(a, closed) /\ Moved(a, form) /\ Moved(a, Quiet(a))
  BY DialogsGood, DialogMoved, SameMoved, UnmovedIs
<1>3. ASSUME NEW i \in 1..Len(choices) PROVE Moved(a, select(i))
  <2> DEFINE modal == Choice(choices, i)
  <2>1. modal.kind = "choice" /\ modal.choices = choices /\ modal.selected = i
    BY DEF Choice
  <2> HIDE DEF modal, choices
  <2>2. DialogGood(modal)
    BY <1>1, <2>1 DEF DialogGood
  <2>3. Moved(a, Redrawn([a EXCEPT !.modal = modal]))
    BY <2>2, DialogMoved, SameMoved
  <2> QED
    BY <2>3 DEF modal
<1>4. CASE key = "Esc"
  BY <1>2, <1>4 DEF ChoiceKey
<1>5. CASE key = "j"
  <2>1. ChoiceKey(a, key) = select(IF at < Len(choices) THEN at + 1 ELSE at)
    BY <1>5 DEF ChoiceKey
  <2> HIDE DEF select
  <2>2. (IF at < Len(choices) THEN at + 1 ELSE at) \in 1..Len(choices)
    BY <1>1
  <2> QED
    BY <1>3, <2>1, <2>2
<1>6. CASE key = "k"
  <2>1. ChoiceKey(a, key) = select(IF at > 1 THEN at - 1 ELSE at)
    BY <1>6 DEF ChoiceKey
  <2> HIDE DEF select
  <2>2. (IF at > 1 THEN at - 1 ELSE at) \in 1..Len(choices)
    BY <1>1
  <2> QED
    BY <1>3, <2>1, <2>2
<1>7. CASE key = "Enter"
  <2>1. ChoiceKey(a, key) = form
    BY <1>7 DEF ChoiceKey
  <2> QED
    BY <1>2, <2>1
<1>8. CASE key \notin {"Esc", "j", "k", "Enter"}
  <2>1. ChoiceKey(a, key) = Quiet(a)
    BY <1>8 DEF ChoiceKey
  <2> QED
    BY <1>2, <2>1
<1> QED
  BY <1>4, <1>5, <1>6, <1>7, <1>8

\* The next field of a form is one of its fields.
LEMMA NextFieldIs ==
    ASSUME NEW modal, DialogGood(modal), modal.kind = "form", NEW forward
    PROVE  NextCreateField(modal, forward) \in ToSet(Fields(modal.context))
<1> DEFINE fields == Fields(modal.context)
           at == SelectInSeq(fields, LAMBDA f : f = modal.field)
           next == IF forward THEN (at % Len(fields)) + 1
                   ELSE IF at > 1 THEN at - 1 ELSE Len(fields)
<1>1. Len(fields) \in {2, 3} /\ DOMAIN fields = 1..Len(fields)
  BY FieldsAre
<1>2. NextCreateField(modal, forward) = fields[next]
  BY DEF NextCreateField
<1> HIDE DEF fields
<1>3. at \in 0..Len(fields)
  <2> DEFINE I == {i \in 1..Len(fields) : fields[i] = modal.field}
  <2>1. at = IF I = {} THEN 0 ELSE Min(I)
    BY DEF SelectInSeq
  <2>2. Len(fields) \in Nat
    BY <1>1
  <2>3. I # {} => Min(I) \in I
    BY <2>2, Extremes
  <2> HIDE DEF at
  <2> QED
    BY <2>1, <2>2, <2>3
<1> HIDE DEF at
<1>4. next \in DOMAIN fields
  BY <1>1, <1>3
<1> HIDE DEF next
<1> QED
  BY <1>2, <1>4 DEF fields, ToSet

\* A form with one of its fields is good.
LEMMA FormGood ==
    ASSUME NEW context, NEW field \in ToSet(Fields(context)), NEW submitting, NEW failed
    PROVE  DialogGood(Form(context, field, submitting, failed))
<1> DEFINE form == Form(context, field, submitting, failed)
<1>1. form.kind = "form" /\ form.context = context /\ form.field = field
  BY DEF Form
<1> HIDE DEF form
<1>2. DialogGood(form)
  BY <1>1 DEF DialogGood
<1> QED
  BY <1>2 DEF form

\* What a key does to a form: it is closed, found wrong, submitted, or another field
\* is active.
FormClosed(a) ==
    [a EXCEPT !.modal = NoModal, !.pending = IF @.state = "error" THEN NoPending ELSE @]
FormWrong(a) == [a EXCEPT !.modal = Form(a.modal.context, a.modal.field, FALSE, TRUE)]
FormSent(a) ==
    [a EXCEPT !.modal = Form(a.modal.context, a.modal.field, TRUE, FALSE), !.attach = FALSE,
              !.pending = [NoPending EXCEPT !.state = "creating",
                                            !.session = a.modal.context.session]]
FormMoved(a, key) == [a EXCEPT !.modal.field = NextCreateField(a.modal, key = "Tab")]

\* What a key makes of a form.
LEMMA FormKeyIs ==
    ASSUME NEW a, NEW key, NEW valid \in BOOLEAN
    PROVE  FormKey(a, key, valid) \in
               {Redrawn(FormClosed(a)), Redrawn(FormWrong(a)), Redrawn(FormMoved(a, key)),
                Redrawn(a), Quiet(a),
                Give(FormSent(a), TRUE, Effect("create", a.modal.context))}
<1>1. CASE key = "Esc"
  BY <1>1 DEF FormKey, Plain, FormClosed
<1>2. CASE key = "Enter" /\ valid
  BY <1>2 DEF FormKey, Plain, FormSent
<1>3. CASE key = "Enter" /\ ~valid
  BY <1>3 DEF FormKey, Plain, FormWrong
<1>4. CASE key \in {"Tab", "BackTab"}
  BY <1>4 DEF FormKey, Plain, FormMoved
<1>5. CASE key = "Backspace" \/ (Plain(key) /\ key \notin {"Esc", "Enter", "Tab", "BackTab"})
  BY <1>5 DEF FormKey
<1>6. CASE key \notin {"Esc", "Enter", "Tab", "BackTab", "Backspace"} /\ ~Plain(key)
  BY <1>6 DEF FormKey
<1> QED
  BY <1>1, <1>2, <1>3, <1>4, <1>5, <1>6 DEF Plain

\* Keys of the form of a new pane.
LEMMA FormKeyMoved ==
    ASSUME NEW a, Sound(a), a.modal.kind = "form", NEW key, NEW valid \in BOOLEAN
    PROVE  Moved(a, FormKey(a, key, valid))
<1> DEFINE context == a.modal.context
           field == a.modal.field
           pending == [NoPending EXCEPT !.state = "creating", !.session = context.session]
           kept == IF a.pending.state = "error" THEN NoPending ELSE a.pending
           closed == FormClosed(a)
           wrong == FormWrong(a)
           sent == FormSent(a)
           next == NextCreateField(a.modal, key = "Tab")
           modal == [a.modal EXCEPT !.field = next]
           moved == FormMoved(a, key)
<1>1. DialogGood(a.modal) /\ field \in ToSet(Fields(context)) /\ PendingGood(a.pending)
  BY DEF Sound, FocusOK, Base, DialogGood
<1>2. FocusOK(wrong) /\ Caches(wrong) = Caches(a)
  BY <1>1, FormGood, DialogMoved DEF FormWrong
<1>3. FocusOK(closed) /\ Caches(closed) = Caches(a)
  <2>1. /\ closed.modal = NoModal /\ closed.pending = kept /\ closed.model = a.model
        /\ closed.grouped = a.grouped /\ closed.query = a.query
        /\ closed.collapsed = a.collapsed /\ closed.focus = a.focus
        /\ closed.selection = a.selection
        /\ closed.cache = a.cache /\ closed.ageDue = a.ageDue /\ closed.aged = a.aged
    BY DEF AppFields, Sound, StateOK, FormClosed
  <2>2. PendingGood(kept)
    BY <1>1 DEF PendingGood, NoPending
  <2> HIDE DEF closed, kept
  <2> QED
    BY <2>1, <2>2, FocusKept, DialogsGood DEF Sound, Caches
<1>4. FocusOK(sent) /\ Caches(sent) = Caches(a)
  <2> DEFINE form == Form(context, field, TRUE, FALSE)
  <2>1. DialogGood(form)
    BY <1>1, FormGood
  <2>2. PendingGood(pending)
    BY DEF PendingGood, NoPending
  <2>3. sent = [a EXCEPT !.modal = form, !.attach = FALSE, !.pending = pending]
    BY DEF FormSent
  <2> HIDE DEF form, pending, sent
  <2>4. /\ sent.modal = form /\ sent.pending = pending /\ sent.model = a.model
        /\ sent.grouped = a.grouped /\ sent.query = a.query
        /\ sent.collapsed = a.collapsed /\ sent.focus = a.focus
        /\ sent.selection = a.selection
        /\ sent.cache = a.cache /\ sent.ageDue = a.ageDue /\ sent.aged = a.aged
    BY <2>3 DEF AppFields, Sound, StateOK
  <2> QED
    BY <2>1, <2>2, <2>4, FocusKept DEF Sound, Caches
<1>5. FocusOK(moved) /\ Caches(moved) = Caches(a)
  <2>1. moved = [a EXCEPT !.modal = modal]
    BY DEF FormMoved
  <2>2. next \in ToSet(Fields(context))
    BY <1>1, NextFieldIs
  <2> HIDE DEF next
  <2>3. /\ modal.kind = "form" /\ modal.context = context
        /\ modal.field = next \/ modal.field = a.modal.field
    OBVIOUS
  <2> HIDE DEF modal
  <2>4. DialogGood(modal)
    BY <1>1, <2>2, <2>3 DEF DialogGood
  <2> QED
    BY <2>1, <2>4, DialogMoved
<1>6. FormKey(a, key, valid) \in
          {Redrawn(closed), Redrawn(wrong), Redrawn(moved), Redrawn(a), Quiet(a),
           Give(sent, TRUE, Effect("create", context))}
  BY FormKeyIs
<1> HIDE DEF closed, wrong, sent, moved
<1> QED
  BY <1>2, <1>3, <1>4, <1>5, <1>6, SameMoved, UnmovedIs

\* Keys while a form is under way.
LEMMA SubmittingKeyMoved ==
    ASSUME NEW a, Sound(a), NEW key
    PROVE  Moved(a, SubmittingKey(a, key))
<1> DEFINE b == [a EXCEPT !.modal = NoModal, !.quit = TRUE]
<1>1. /\ b.modal = NoModal /\ b.pending = a.pending /\ b.model = a.model
      /\ b.grouped = a.grouped /\ b.query = a.query /\ b.collapsed = a.collapsed
      /\ b.focus = a.focus /\ b.selection = a.selection
      /\ b.cache = a.cache /\ b.ageDue = a.ageDue /\ b.aged = a.aged
  BY DEF AppFields, Sound, StateOK
<1> HIDE DEF b
<1>2. FocusOK(b) /\ Caches(b) = Caches(a)
  BY <1>1, FocusKept, DialogsGood DEF Sound, FocusOK, Base, Caches
<1> QED
  BY <1>2, SameMoved, UnmovedIs DEF b, SubmittingKey

\* Which dialog a key is for.
LEMMA ModalKeyIs ==
    ASSUME NEW a, StateOK(a), a.modal # NoModal, NEW key, NEW valid \in BOOLEAN,
           NEW result, result = ModalKey(a, key, valid)
    PROVE  \/ result \in {Quiet(a), Redrawn([a EXCEPT !.modal = NoModal])}
           \/ a.modal.kind = "send" /\ result = SendKey(a, key)
           \/ a.modal.kind = "kill" /\ result = KillKey(a, key)
           \/ a.modal.kind = "choice" /\ result = ChoiceKey(a, key)
           \/ a.modal.kind = "form" /\ result = SubmittingKey(a, key)
           \/ a.modal.kind = "form" /\ result = FormKey(a, key, valid)
<1>1. a.modal.kind \in {"help", "send", "kill", "choice", "form"}
  BY DEF StateOK, ModalOK
<1>2. CASE a.modal.kind = "help"
  BY <1>2 DEF ModalKey
<1>3. CASE a.modal.kind # "help" /\ key = "?"
  BY <1>3 DEF ModalKey
<1>4. CASE a.modal.kind = "send" /\ key # "?"
  BY <1>4 DEF ModalKey
<1>5. CASE a.modal.kind = "kill" /\ key # "?"
  BY <1>5 DEF ModalKey
<1>6. CASE a.modal.kind = "choice" /\ key # "?"
  BY <1>6 DEF ModalKey
<1>7. CASE a.modal.kind = "form" /\ key # "?"
  <2>1. ModalKey(a, key, valid) =
            IF a.modal.submitting THEN SubmittingKey(a, key) ELSE FormKey(a, key, valid)
    BY <1>7 DEF ModalKey
  <2> QED
    BY <1>7, <2>1
<1> QED
  BY <1>1, <1>2, <1>3, <1>4, <1>5, <1>6, <1>7

\* Keys of all dialogs.
LEMMA ModalKeyMoved ==
    ASSUME NEW a, Sound(a), a.modal # NoModal, NEW key, NEW valid \in BOOLEAN
    PROVE  Moved(a, ModalKey(a, key, valid))
<1>1. Moved(a, Quiet(a)) /\ Moved(a, Redrawn([a EXCEPT !.modal = NoModal]))
  BY DialogsGood, DialogMoved, SameMoved, UnmovedIs
<1>2. StateOK(a)
  BY DEF Sound
<1> QED
  BY <1>1, <1>2, ModalKeyIs, SendKeyMoved, KillKeyMoved, ChoiceKeyMoved, SubmittingKeyMoved,
     FormKeyMoved

-----------------------------------------------------------------------------
(* Where the focus goes                                                     *)

\* A place of a focus in a list, or none.
LEMMA PositionIs ==
    ASSUME NEW s, IsList(s), NEW focus
    PROVE  /\ Position(s, focus) \in 0..Len(s)
           /\ Position(s, focus) > 0 => s[Position(s, focus)] = focus
           /\ focus \in ToSet(s) => Position(s, focus) > 0
<1> DEFINE I == {i \in 1..Len(s) : s[i] = focus}
           at == Position(s, focus)
<1>1. at = IF I = {} THEN 0 ELSE Min(I)
  BY DEF Position, SelectInSeq
<1>2. Len(s) \in Nat /\ DOMAIN s = 1..Len(s)
  BY ListIs
<1>3. I # {} => Min(I) \in I
  BY <1>2, Extremes
<1>4. focus \in ToSet(s) => I # {}
  BY <1>2 DEF ToSet
<1> HIDE DEF at
<1>5. at \in 0..Len(s) /\ (at > 0 => s[at] = focus) /\ (I # {} => at > 0)
  BY <1>1, <1>2, <1>3
<1> QED
  BY <1>4, <1>5 DEF at

\* The ends of a list.
LEMMA EndsAre ==
    ASSUME NEW s, IsList(s), s # <<>>
    PROVE  /\ 1 \in DOMAIN s /\ Head(s) = s[1]
           /\ Len(s) \in DOMAIN s /\ Last(s) = s[Len(s)]
<1>1. s \in Seq(ToSet(s))
  BY DEF IsList
<1> HIDE DEF IsList
<1>2. Len(s) \in Nat /\ DOMAIN s = 1..Len(s) /\ Len(s) # 0
  BY <1>1
<1> QED
  BY <1>1, <1>2 DEF Last

\* What is visible: rows that a focus may be on.
LEMMA VisibleIs ==
    ASSUME NEW c, StateOK(c), c.cache.valid, ModelOK(c.model)
    PROVE  /\ IsList(c.cache.rows) /\ IsList(Visible(c))
           /\ Len(Visible(c)) = Len(c.cache.rows) /\ DOMAIN Visible(c) = DOMAIN c.cache.rows
           /\ \A i \in DOMAIN Visible(c) :
                  Visible(c)[i] = c.cache.rows[i].focus /\ Fits(c, Visible(c)[i])
<1> DEFINE rows == c.cache.rows
           n == Len(rows)
           s == [i \in 1..n |-> rows[i].focus]
<1>1. rows = ShownRows(c)
  BY DEF StateOK, CacheTrue
<1>2. IsList(rows)
  BY <1>1, ShownIs
<1>3. n \in Nat /\ DOMAIN rows = 1..n
  BY <1>2, ListIs
<1>4. Visible(c) = s
  BY <1>3 DEF Visible
<1>5. s \in Seq(ToSet(s)) /\ Len(s) = n /\ DOMAIN s = 1..n
  <2>1. s \in Seq({rows[i].focus : i \in 1..n}) /\ Len(s) = n /\ DOMAIN s = 1..n
    BY <1>3
  <2> HIDE DEF s
  <2> QED
    BY <2>1, Lists DEF IsList
<1>6. ASSUME NEW i \in 1..n
      PROVE  Fits(c, rows[i].focus)
  <2> DEFINE r == rows[i]
  <2>1. r \in ToSet(ShownRows(c))
    BY <1>1, <1>3 DEF ToSet
  <2> HIDE DEF r
  <2>2. /\ r \in ToSet(RankedRows(c.model, c.grouped, c.query))
        /\ r.focus.kind = "pane" =>
               ~(r.focus.session \in c.collapsed /\ SessionIsCollapsed(c, r.focus.session))
    BY <2>1, ShownIs
  <2>3. r.focus.kind = "pane" => ~SessionIsCollapsed(c, r.focus.session)
    BY <2>2 DEF SessionIsCollapsed
  <2>4. Fits(c, r.focus)
    BY <2>2, <2>3 DEF Fits
  <2> QED
    BY <2>4 DEF r
<1> HIDE DEF n
<1> QED
  BY <1>2, <1>3, <1>4, <1>5, <1>6 DEF IsList, n

\* The focus is put where it may be.
LEMMA FocusOnFits ==
    ASSUME NEW c, DOMAIN c = AppFields, Base(c), NEW focus, Fits(c, focus)
    PROVE  FocusOK(FocusOn(c, focus)) /\ Caches(FocusOn(c, focus)) = Caches(c)
<1> DEFINE b == FocusOn(c, focus)
           selection == IF focus.kind = "pane" THEN focus ELSE NoFocus
<1>1. /\ b.modal = c.modal /\ b.pending = c.pending /\ b.model = c.model
      /\ b.grouped = c.grouped /\ b.query = c.query /\ b.collapsed = c.collapsed
      /\ b.cache = c.cache /\ b.ageDue = c.ageDue /\ b.aged = c.aged
      /\ b.focus = focus /\ b.selection = selection
  BY DEF FocusOn, AppFields
<1> HIDE DEF b
<1>2. \A s : SessionIsCollapsed(b, s) <=> SessionIsCollapsed(c, s)
  BY <1>1 DEF SessionIsCollapsed
<1>3. Fits(b, focus)
  BY <1>1, <1>2 DEF Fits
<1>4. FocusOK(b) /\ Caches(b) = Caches(c)
  BY <1>1, <1>3 DEF FocusOK, Base, Synced, Caches
<1> QED
  BY <1>4 DEF b

\* reconcile_focus, preserve_focus
LEMMA ReconcileFocusFits ==
    ASSUME NEW c, StateOK(c), c.cache.valid, Base(c)
    PROVE  FocusOK(ReconcileFocus(c)) /\ Caches(ReconcileFocus(c)) = Caches(c)
<1> DEFINE focus == IF Position(Visible(c), c.focus) > 0 THEN c.focus
                    ELSE FirstOr(Visible(c), NoFocus)
<1>1. /\ IsList(Visible(c)) /\ DOMAIN Visible(c) = 1..Len(Visible(c)) /\ Len(Visible(c)) \in Nat
      /\ \A i \in DOMAIN Visible(c) : Fits(c, Visible(c)[i])
  BY VisibleIs, ListIs DEF Base
<1>2. ASSUME Position(Visible(c), c.focus) > 0
      PROVE  Fits(c, focus)
  <2>1. Position(Visible(c), c.focus) \in 1..Len(Visible(c))
    BY <1>1, <1>2, PositionIs
  <2>2. Visible(c)[Position(Visible(c), c.focus)] = c.focus
    BY <1>1, <1>2, PositionIs
  <2>3. focus = c.focus
    BY <1>2
  <2> QED
    BY <1>1, <2>1, <2>2, <2>3
<1>3. ASSUME ~(Position(Visible(c), c.focus) > 0)
      PROVE  Fits(c, focus)
  <2>1. CASE Visible(c) = <<>>
    BY <1>3, <2>1 DEF FirstOr, Fits
  <2>2. CASE Visible(c) # <<>>
    BY <1>1, <1>3, <2>2, EndsAre DEF FirstOr
  <2> QED
    BY <2>1, <2>2
<1>4. Fits(c, focus)
  BY <1>1, <1>2, <1>3
<1>5. ReconcileFocus(c) = FocusOn(c, focus)
  BY DEF ReconcileFocus
<1> HIDE DEF focus
<1> QED
  BY <1>4, <1>5, FocusOnFits DEF StateOK

\* Where rows changed under the focus, it is on the row it was, or on one that is there.
LEMMA KeepFocusFits ==
    ASSUME NEW c, StateOK(c), c.cache.valid, Base(c), NEW old, NEW oldVisible, IsList(oldVisible)
    PROVE  /\ FocusOK(KeepFocus(c, old, oldVisible))
           /\ Caches(KeepFocus(c, old, oldVisible)) = Caches(c)
<1> DEFINE visible == Visible(c)
           at == Position(oldVisible, old)
           focus == IF Position(visible, old) > 0 THEN old
                    ELSE IF visible = <<>> THEN NoFocus
                    ELSE IF at = 0 THEN Head(visible)
                    ELSE IF at <= Len(visible) THEN visible[at]
                    ELSE Last(visible)
<1>1. /\ IsList(visible) /\ DOMAIN visible = 1..Len(visible) /\ Len(visible) \in Nat
      /\ \A i \in DOMAIN visible : Fits(c, visible[i])
  BY VisibleIs, ListIs DEF Base
<1>2. at \in Nat
  BY PositionIs, ListIs
<1>3. KeepFocus(c, old, oldVisible) = FocusOn(c, focus)
  BY DEF KeepFocus
<1> HIDE DEF visible, at
<1>4. ASSUME Position(visible, old) > 0
      PROVE  Fits(c, focus)
  <2>1. Position(visible, old) \in 1..Len(visible) /\ visible[Position(visible, old)] = old
    BY <1>1, <1>4, PositionIs
  <2> QED
    BY <1>1, <1>4, <2>1
<1>5. ASSUME visible = <<>>, ~(Position(visible, old) > 0)
      PROVE  Fits(c, focus)
  BY <1>5 DEF Fits
<1>6. ASSUME visible # <<>>, ~(Position(visible, old) > 0)
      PROVE  Fits(c, focus)
  <2>1. /\ 1 \in DOMAIN visible /\ Head(visible) = visible[1]
        /\ Len(visible) \in DOMAIN visible /\ Last(visible) = visible[Len(visible)]
    BY <1>1, <1>6, EndsAre
  <2>2. focus = visible[1] \/ focus = visible[Len(visible)]
        \/ (focus = visible[at] /\ at \in 1..Len(visible))
    BY <1>1, <1>2, <1>6, <2>1
  <2> HIDE DEF focus
  <2> QED
    BY <1>1, <2>1, <2>2
<1>7. Fits(c, focus)
  BY <1>4, <1>5, <1>6
<1> HIDE DEF focus
<1> QED
  BY <1>3, <1>7, FocusOnFits DEF StateOK

\* Caches that are filled or dropped leave the rest as it is.
LEMMA CachedKeeps ==
    ASSUME NEW a, DOMAIN a = AppFields
    PROVE  LET c == Cached(a) IN
           /\ DOMAIN c = AppFields /\ c.modal = a.modal /\ c.pending = a.pending
           /\ c.model = a.model /\ c.grouped = a.grouped /\ c.query = a.query
           /\ c.collapsed = a.collapsed /\ c.focus = a.focus /\ c.selection = a.selection
           /\ c.ageDue = a.ageDue /\ c.aged = a.aged /\ c.ephemeral = a.ephemeral
           /\ a.cache.valid => c.cache = a.cache
           /\ c.cache.valid /\ (~a.cache.valid => c.quit = a.quit)
<1>1. CASE a.cache.valid
  <2>1. Cached(a) = a
    BY <1>1 DEF Cached
  <2> QED
    BY <1>1, <2>1
<1>2. CASE ~a.cache.valid
  <2> DEFINE cache == [valid |-> TRUE, rows |-> ShownRows(a), counts |-> StatusCounts(a.model)]
  <2>1. cache.valid
    OBVIOUS
  <2> HIDE DEF cache
  <2>2. Cached(a) = [a EXCEPT !.cache = cache]
    BY <1>2 DEF Cached, cache
  <2> QED
    BY <1>2, <2>1, <2>2 DEF AppFields
<1> QED
  BY <1>1, <1>2

\* What is forgotten with the rows.
LEMMA InvalidatedKeeps ==
    ASSUME NEW a, DOMAIN a = AppFields
    PROVE  LET c == InvalidateRenderCache(a) IN
           /\ DOMAIN c = AppFields /\ c.modal = a.modal /\ c.pending = a.pending
           /\ c.model = a.model /\ c.grouped = a.grouped /\ c.query = a.query
           /\ c.collapsed = a.collapsed /\ c.focus = a.focus /\ c.selection = a.selection
           /\ c.ephemeral = a.ephemeral /\ ~c.aged
BY DEF InvalidateRenderCache, AppFields

\* What the model and dialogs are does not depend on the rest.
LEMMA BaseKept ==
    ASSUME NEW a, Base(a), NEW b, b.modal = a.modal, b.pending = a.pending, b.model = a.model
    PROVE  Base(b)
BY DEF Base

\* Nor does the focus depend on what is cached.
LEMMA InvalidatedFocus ==
    ASSUME NEW a, DOMAIN a = AppFields, FocusOK(a)
    PROVE  FocusOK(InvalidateRenderCache(a)) /\ ~InvalidateRenderCache(a).aged
<1> DEFINE b == InvalidateRenderCache(a)
<1>1. /\ b.modal = a.modal /\ b.pending = a.pending
      /\ b.model = a.model /\ b.grouped = a.grouped /\ b.query = a.query
      /\ b.collapsed = a.collapsed /\ b.focus = a.focus /\ b.selection = a.selection /\ ~b.aged
  BY InvalidatedKeeps
<1> HIDE DEF b
<1>2. FocusOK(b)
  BY <1>1, FocusKept DEF FocusOK, Base
<1> QED
  BY <1>1, <1>2 DEF b

\* The caches of a good state are filled.
LEMMA CachedGood ==
    ASSUME NEW a, Sound(a)
    PROVE  LET c == Cached(a) IN
           /\ Sound(c) /\ c.cache.valid
           /\ Caches(c) = Caches(a) \/ (~c.aged /\ ~a.cache.valid)
<1> DEFINE c == Cached(a)
<1>1. /\ c.modal = a.modal /\ c.pending = a.pending
      /\ c.model = a.model /\ c.grouped = a.grouped /\ c.query = a.query
      /\ c.collapsed = a.collapsed /\ c.focus = a.focus /\ c.selection = a.selection
      /\ c.ageDue = a.ageDue /\ c.aged = a.aged /\ (a.cache.valid => c.cache = a.cache)
      /\ c.cache.valid
  BY CachedKeeps DEF Sound, StateOK
<1>2. StateOK(c)
  BY CachedOK DEF Sound
<1> HIDE DEF c
<1>3. FocusOK(c)
  BY <1>1, FocusKept DEF Sound, FocusOK, Base
<1>4. Sound(c)
  BY <1>1, <1>2, <1>3 DEF Sound
<1>5. Caches(c) = Caches(a) \/ (~c.aged /\ ~a.cache.valid)
  BY <1>1 DEF Sound, Caches
<1> QED
  BY <1>1, <1>4, <1>5 DEF c

\* A handler may fill the caches first, or change what has no part in them.
LEMMA MovedVia ==
    ASSUME NEW a, NEW c, Caches(c) = Caches(a) \/ (~c.aged /\ ~a.cache.valid),
           NEW result, Moved(c, result), c.cache.valid \/ Caches(c) = Caches(a)
    PROVE  Moved(a, result)
<1>1. CASE Caches(result.app) = Caches(c)
  BY <1>1 DEF Moved, Caches
<1>2. CASE ~result.app.aged /\ (result.changed \/ ~c.cache.valid)
  BY <1>2 DEF Moved, Caches
<1> QED
  BY <1>1, <1>2 DEF Moved

\* A change of the query finds the focus again.
LEMMA UpdateFilterMoved ==
    ASSUME NEW a, Sound(a), NEW query
    PROVE  Moved(a, Redrawn(UpdateFilter(a, query)))
<1> DEFINE b == [a EXCEPT !.query = query]
           d == InvalidateRenderCache(b)
           c == Cached(d)
<1>1. DOMAIN b = AppFields /\ b.modal = a.modal /\ b.pending = a.pending /\ b.model = a.model
  BY DEF AppFields, Sound, StateOK
<1> HIDE DEF b
<1>2. StateOK(d) /\ ModalOK(b.modal)
  BY <1>1, Invalidated DEF Sound, StateOK
<1>3. Base(d) /\ DOMAIN d = AppFields /\ ~d.aged
  BY <1>1, InvalidatedKeeps, BaseKept DEF Sound, FocusOK
<1> HIDE DEF d
<1>4. StateOK(c) /\ c.cache.valid /\ Base(c) /\ ~c.aged
  BY <1>2, <1>3, CachedOK, CachedKeeps, BaseKept
<1> HIDE DEF c
<1>5. FocusOK(ReconcileFocus(c)) /\ ~ReconcileFocus(c).aged
  BY <1>4, ReconcileFocusFits DEF Caches
<1>6. UpdateFilter(a, query) = ReconcileFocus(c)
  BY DEF UpdateFilter, b, c, d
<1> QED
  BY <1>5, <1>6, StaleMoved

\* What a key does to a filter.
LEMMA FilterKeyIs ==
    ASSUME NEW a, NEW key
    PROVE  FilterKey(a, key) \in
               {Redrawn([a EXCEPT !.typing = FALSE]), Redrawn(UpdateFilter(a, Front(a.query))),
                Redrawn(UpdateFilter(a, Append(a.query, key))), Quiet(a)}
<1>1. CASE key = "Esc"
  BY <1>1 DEF FilterKey, Plain
<1>2. CASE key = "Backspace"
  BY <1>2 DEF FilterKey, Plain
<1>3. CASE key \notin {"Esc", "Backspace"}
  BY <1>3 DEF FilterKey
<1> QED
  BY <1>1, <1>2, <1>3

\* Keys of a filter.
LEMMA FilterKeyMoved ==
    ASSUME NEW a, Sound(a), NEW key
    PROVE  Moved(a, FilterKey(a, key))
<1> DEFINE b == [a EXCEPT !.typing = FALSE]
<1>1. /\ b.modal = a.modal /\ b.pending = a.pending /\ b.model = a.model
      /\ b.grouped = a.grouped /\ b.query = a.query /\ b.collapsed = a.collapsed
      /\ b.focus = a.focus /\ b.selection = a.selection
      /\ b.cache = a.cache /\ b.ageDue = a.ageDue /\ b.aged = a.aged
  BY DEF AppFields, Sound, StateOK
<1>2. FilterKey(a, key) \in
          {Redrawn(b), Redrawn(UpdateFilter(a, Front(a.query))),
           Redrawn(UpdateFilter(a, Append(a.query, key))), Quiet(a)}
  BY FilterKeyIs
<1> HIDE DEF b
<1>3. FocusOK(b) /\ Caches(b) = Caches(a)
  BY <1>1, FocusKept DEF Sound, FocusOK, Base, Caches
<1> QED
  BY <1>2, <1>3, SameMoved, UnmovedIs, UpdateFilterMoved

\* The focus goes to a row.
LEMMA GoToMoved ==
    ASSUME NEW c, Sound(c), c.cache.valid, NEW index
    PROVE  Moved(c, GoTo(c, index))
<1>1. Moved(c, Quiet(c))
  BY UnmovedIs
<1>2. ASSUME index \in DOMAIN c.cache.rows
      PROVE  Moved(c, Redrawn(FocusOn(c, Visible(c)[index])))
  <2>1. Fits(c, Visible(c)[index])
    BY <1>2, VisibleIs DEF Sound, FocusOK, Base
  <2> QED
    BY <2>1, FocusOnFits, SameMoved DEF Sound, FocusOK, StateOK
<1> QED
  BY <1>1, <1>2 DEF GoTo

\* One row up or down.
LEMMA MoveFocusMoved ==
    ASSUME NEW c, Sound(c), c.cache.valid, NEW down
    PROVE  Moved(c, MoveFocus(c, down))
BY GoToMoved DEF MoveFocus

\* The focus goes to the header of the session that is folded.
LEMMA SetCollapsedMoved ==
    ASSUME NEW b, Sound(b), NEW collapse
    PROVE  Moved(b, SetCollapsed(b, collapse))
<1> DEFINE session == SessionAtFocus(b)
           sessions == IF collapse THEN b.collapsed \cup {session} ELSE b.collapsed \ {session}
           c == [b EXCEPT !.collapsed = sessions]
           d == IF collapse THEN FocusOn(c, Header(session)) ELSE c
           rows == ToSet(RankedRows(b.model, b.grouped, b.query))
<1>1. /\ DOMAIN c = AppFields /\ c.modal = b.modal /\ c.pending = b.pending
      /\ c.model = b.model /\ c.grouped = b.grouped /\ c.query = b.query
      /\ c.collapsed = sessions /\ c.focus = b.focus /\ c.selection = b.selection
  BY DEF AppFields, Sound, StateOK
<1>2. SetCollapsed(b, collapse) =
          IF ~b.grouped \/ session = None \/ c = b THEN Quiet(b)
          ELSE Redrawn(InvalidateRenderCache(d))
  BY DEF SetCollapsed
<1> HIDE DEF c
<1>3. Moved(b, Quiet(b))
  BY UnmovedIs
<1>4. Base(c) /\ Base(b) /\ ModelOK(b.model) /\ Fits(b, b.focus) /\ Synced(b)
  BY <1>1, BaseKept DEF Sound, FocusOK, Base
<1>5. ASSUME b.grouped, session # None, collapse
      PROVE  Fits(c, Header(session))
  <2>1. b.focus.kind \in {"header", "pane"} /\ session = b.focus.session
    BY <1>5 DEF SessionAtFocus
  <2>2. PICK r \in rows : r.focus = b.focus
    BY <1>4, <2>1, Kinds DEF Fits
  <2>3. Row(b.model, r)
    BY <1>4, <2>2, RankedIs
  <2>4. \E h \in rows : h.focus = Header(session)
    <3>1. CASE b.focus.kind = "header"
      <4>1. PICK s \in DOMAIN b.model.sessions : b.focus = Header(s)
        BY <2>2, <2>3, <3>1, RowKinds
      <4>2. session = s
        BY <2>1, <4>1, Kinds
      <4> QED
        BY <2>2, <4>1, <4>2
    <3>2. CASE b.focus.kind = "pane"
      <4>1. \A q \in rows : q.focus.kind = "pane" =>
                \E h \in rows : h.focus = Header(q.focus.session)
        BY <1>4, <1>5, RankedIs
      <4> HIDE DEF rows, session
      <4> QED
        BY <2>1, <2>2, <3>2, <4>1
    <3> QED
      BY <2>1, <3>1, <3>2
  <2> HIDE DEF session
  <2> QED
    BY <1>1, <2>4, Kinds DEF Fits
<1>6. ASSUME ~collapse
      PROVE  FocusOK(c)
  <2>1. \A s : SessionIsCollapsed(c, s) => SessionIsCollapsed(b, s)
    BY <1>1, <1>6 DEF SessionIsCollapsed
  <2>2. Fits(c, c.focus)
    BY <1>1, <1>4, <2>1 DEF Fits
  <2> QED
    BY <1>1, <1>4, <2>2 DEF FocusOK, Synced
<1>7. ASSUME b.grouped, session # None
      PROVE  DOMAIN d = AppFields /\ FocusOK(d)
  <2> HIDE DEF session
  <2>1. CASE collapse
    <3>1. FocusOK(FocusOn(c, Header(session)))
      BY <1>1, <1>4, <1>5, <1>7, <2>1, FocusOnFits
    <3>2. DOMAIN FocusOn(c, Header(session)) = AppFields
      BY <1>1 DEF FocusOn, AppFields
    <3> QED
      BY <2>1, <3>1, <3>2
  <2>2. CASE ~collapse
    BY <1>1, <1>6, <2>2
  <2> QED
    BY <2>1, <2>2
<1> HIDE DEF d, session
<1> QED
  BY <1>2, <1>3, <1>7, InvalidatedFocus, StaleMoved

\* A jump, or a window for a headless session.
Attaching(a) == [a EXCEPT !.pending = [NoPending EXCEPT !.state = "creating"], !.attach = TRUE]

\* What Enter makes of the focus.
LEMMA EmitJumpIs ==
    ASSUME NEW a, NEW zoom \in BOOLEAN
    PROVE  EmitJump(a, zoom) \in
               {Give(a, TRUE, Effect("jump", a.focus)), Quiet(a),
                Give(Attaching(a), TRUE, Effect("attach", a.focus))}
<1>1. CASE a.focus.kind \in {"pane", "header"}
  BY <1>1 DEF EmitJump
<1>2. CASE a.focus.kind \notin {"pane", "header"}
  BY <1>2 DEF EmitJump, Attaching
<1> QED
  BY <1>1, <1>2

\* It moves nothing.
LEMMA EmitJumpMoved ==
    ASSUME NEW a, Sound(a), NEW zoom \in BOOLEAN
    PROVE  Moved(a, EmitJump(a, zoom))
<1> DEFINE pending == [NoPending EXCEPT !.state = "creating"]
           b == Attaching(a)
<1>1. PendingGood(pending)
  BY DEF PendingGood, NoPending
<1> HIDE DEF pending
<1>2. b = [a EXCEPT !.pending = pending, !.attach = TRUE]
  BY DEF Attaching, pending
<1> HIDE DEF b
<1>3. /\ b.modal = a.modal /\ b.pending = pending /\ b.model = a.model
      /\ b.grouped = a.grouped /\ b.query = a.query /\ b.collapsed = a.collapsed
      /\ b.focus = a.focus /\ b.selection = a.selection
      /\ b.cache = a.cache /\ b.ageDue = a.ageDue /\ b.aged = a.aged
  BY <1>2 DEF AppFields, Sound, StateOK
<1>4. FocusOK(b) /\ Caches(b) = Caches(a)
  BY <1>1, <1>3, FocusKept DEF Sound, FocusOK, Base, Caches
<1> QED
  BY <1>4, EmitJumpIs, SameMoved, UnmovedIs DEF b

\* Grouped rows or flat ones: the focus is found again.
LEMMA ToggleModeMoved ==
    ASSUME NEW a, Sound(a)
    PROVE  Moved(a, ToggleMode(a))
<1> DEFINE b == [a EXCEPT !.grouped = ~@, !.zKey = FALSE]
           d == InvalidateRenderCache(b)
           c == Cached(d)
<1>1. DOMAIN b = AppFields /\ b.modal = a.modal /\ b.pending = a.pending /\ b.model = a.model
  BY DEF AppFields, Sound, StateOK
<1>2. ToggleMode(a) = Give(ReconcileFocus(c), TRUE, Effect("group", NoFocus))
  BY DEF ToggleMode
<1> HIDE DEF b
<1>3. StateOK(d)
  BY <1>1, Invalidated DEF Sound, StateOK
<1>4. Base(d) /\ DOMAIN d = AppFields /\ ~d.aged
  BY <1>1, InvalidatedKeeps, BaseKept DEF Sound, FocusOK
<1> HIDE DEF d
<1>5. StateOK(c) /\ c.cache.valid /\ Base(c) /\ ~c.aged
  BY <1>3, <1>4, CachedOK, CachedKeeps, BaseKept
<1> HIDE DEF c
<1>6. FocusOK(ReconcileFocus(c)) /\ ~ReconcileFocus(c).aged
  BY <1>5, ReconcileFocusFits DEF Caches
<1> QED
  BY <1>2, <1>6, StaleMoved

\* What a key does in the list.
LEMMA NavigationKeyIs ==
    ASSUME NEW a, NEW key, NEW result, result = NavigationKey(a, key)
    PROVE  \/ \E zoom \in BOOLEAN : result = EmitJump(a, zoom)
           \/ \E index : result = GoTo(Cached(a), index)
           \/ \E down : result = MoveFocus(Cached(a), down)
           \/ \E collapse : result = SetCollapsed(a, collapse)
           \/ result \in {ToggleMode(a), OpenKillModal(a), OpenCreateModal(a), Quiet(a)}
           \/ result = Redrawn([a EXCEPT !.typing = TRUE])
           \/ result = Quiet([a EXCEPT !.zKey = TRUE])
           \/ result = Give([a EXCEPT !.quit = TRUE], TRUE, Effect("quit", NoFocus))
<1>1. CASE key \in {"Enter", "C-z"}
  BY <1>1 DEF NavigationKey
<1>2. CASE key \in {"j", "k"}
  BY <1>2 DEF NavigationKey
<1>3. CASE key \in {"g", "G"}
  BY <1>3 DEF NavigationKey
<1>4. CASE key \in {"h", "l"}
  BY <1>4 DEF NavigationKey
<1>5. CASE key = "/"
  BY <1>5 DEF NavigationKey
<1>6. CASE key = "z"
  BY <1>6 DEF NavigationKey
<1>7. CASE key \in {"s", "x", "n"}
  BY <1>7 DEF NavigationKey
<1>8. CASE key \in {"q", "Esc"}
  BY <1>8 DEF NavigationKey
<1>9. CASE key \notin {"Enter", "C-z", "/", "j", "k", "g", "G", "h", "l", "z", "s", "x", "n",
                       "q", "Esc"}
  BY <1>9 DEF NavigationKey
<1> QED
  BY <1>1, <1>2, <1>3, <1>4, <1>5, <1>6, <1>7, <1>8, <1>9

\* Three fields that the focus and the caches do not depend on.
LEMMA SetAside ==
    ASSUME NEW a, Sound(a)
    PROVE  /\ FocusOK([a EXCEPT !.typing = TRUE])
           /\ Caches([a EXCEPT !.typing = TRUE]) = Caches(a)
           /\ FocusOK([a EXCEPT !.quit = TRUE]) /\ Caches([a EXCEPT !.quit = TRUE]) = Caches(a)
           /\ \A is : FocusOK([a EXCEPT !.zKey = is]) /\ Caches([a EXCEPT !.zKey = is]) = Caches(a)
<1>1. ASSUME NEW b, b.modal = a.modal, b.pending = a.pending, b.model = a.model,
             b.grouped = a.grouped, b.query = a.query, b.collapsed = a.collapsed,
             b.focus = a.focus, b.selection = a.selection,
             b.cache = a.cache, b.ageDue = a.ageDue, b.aged = a.aged
      PROVE  FocusOK(b) /\ Caches(b) = Caches(a)
  BY <1>1, FocusKept DEF Sound, FocusOK, Base, Caches
<1>2. FocusOK([a EXCEPT !.typing = TRUE]) /\ Caches([a EXCEPT !.typing = TRUE]) = Caches(a)
  <2> DEFINE b == [a EXCEPT !.typing = TRUE]
  <2>1. /\ b.modal = a.modal /\ b.pending = a.pending /\ b.model = a.model
        /\ b.grouped = a.grouped /\ b.query = a.query /\ b.collapsed = a.collapsed
        /\ b.focus = a.focus /\ b.selection = a.selection
        /\ b.cache = a.cache /\ b.ageDue = a.ageDue /\ b.aged = a.aged
    BY DEF AppFields, Sound, StateOK
  <2> HIDE DEF b
  <2>2. FocusOK(b) /\ Caches(b) = Caches(a)
    BY <1>1, <2>1
  <2> QED
    BY <2>2 DEF b
<1>3. FocusOK([a EXCEPT !.quit = TRUE]) /\ Caches([a EXCEPT !.quit = TRUE]) = Caches(a)
  <2> DEFINE b == [a EXCEPT !.quit = TRUE]
  <2>1. /\ b.modal = a.modal /\ b.pending = a.pending /\ b.model = a.model
        /\ b.grouped = a.grouped /\ b.query = a.query /\ b.collapsed = a.collapsed
        /\ b.focus = a.focus /\ b.selection = a.selection
        /\ b.cache = a.cache /\ b.ageDue = a.ageDue /\ b.aged = a.aged
    BY DEF AppFields, Sound, StateOK
  <2> HIDE DEF b
  <2>2. FocusOK(b) /\ Caches(b) = Caches(a)
    BY <1>1, <2>1
  <2> QED
    BY <2>2 DEF b
<1>4. ASSUME NEW is
      PROVE  FocusOK([a EXCEPT !.zKey = is]) /\ Caches([a EXCEPT !.zKey = is]) = Caches(a)
  <2> DEFINE b == [a EXCEPT !.zKey = is]
  <2>1. /\ b.modal = a.modal /\ b.pending = a.pending /\ b.model = a.model
        /\ b.grouped = a.grouped /\ b.query = a.query /\ b.collapsed = a.collapsed
        /\ b.focus = a.focus /\ b.selection = a.selection
        /\ b.cache = a.cache /\ b.ageDue = a.ageDue /\ b.aged = a.aged
    BY DEF AppFields, Sound, StateOK
  <2> HIDE DEF b
  <2>2. FocusOK(b) /\ Caches(b) = Caches(a)
    BY <1>1, <2>1
  <2> QED
    BY <2>2 DEF b
<1> QED
  BY <1>2, <1>3, <1>4

\* Keys of the list.
LEMMA NavigationKeyMoved ==
    ASSUME NEW a, Sound(a), NEW key
    PROVE  Moved(a, NavigationKey(a, key))
<1> DEFINE result == NavigationKey(a, key)
           c == Cached(a)
           typing == [a EXCEPT !.typing = TRUE]
           waiting == [a EXCEPT !.zKey = TRUE]
           over == [a EXCEPT !.quit = TRUE]
<1>1. Sound(c) /\ c.cache.valid /\ (Caches(c) = Caches(a) \/ (~c.aged /\ ~a.cache.valid))
  BY CachedGood
<1>2. ASSUME NEW index PROVE Moved(a, GoTo(c, index))
  <2>1. Moved(c, GoTo(c, index))
    BY <1>1, GoToMoved
  <2> HIDE DEF c
  <2> QED
    BY <1>1, <2>1, MovedVia
<1>3. ASSUME NEW down PROVE Moved(a, MoveFocus(c, down))
  <2>1. Moved(c, MoveFocus(c, down))
    BY <1>1, MoveFocusMoved
  <2> HIDE DEF c
  <2> QED
    BY <1>1, <2>1, MovedVia
<1>4. Moved(a, Redrawn(typing)) /\ Moved(a, Quiet(waiting))
      /\ Moved(a, Give(over, TRUE, Effect("quit", NoFocus)))
  <2>1. /\ FocusOK(typing) /\ FocusOK(waiting) /\ FocusOK(over)
        /\ Caches(typing) = Caches(a) /\ Caches(waiting) = Caches(a) /\ Caches(over) = Caches(a)
    BY SetAside
  <2> HIDE DEF typing, waiting, over
  <2> QED
    BY <2>1, SameMoved
<1>5. /\ Moved(a, ToggleMode(a)) /\ Moved(a, OpenKillModal(a)) /\ Moved(a, OpenCreateModal(a))
      /\ Moved(a, Quiet(a)) /\ \A zoom \in BOOLEAN : Moved(a, EmitJump(a, zoom))
      /\ \A collapse : Moved(a, SetCollapsed(a, collapse))
  BY ToggleModeMoved, OpenKillModalMoved, OpenCreateModalMoved, UnmovedIs, EmitJumpMoved,
     SetCollapsedMoved
<1>6. \/ \E zoom \in BOOLEAN : result = EmitJump(a, zoom)
      \/ \E index : result = GoTo(c, index)
      \/ \E down : result = MoveFocus(c, down)
      \/ \E collapse : result = SetCollapsed(a, collapse)
      \/ result \in {ToggleMode(a), OpenKillModal(a), OpenCreateModal(a), Quiet(a)}
      \/ result = Redrawn(typing)
      \/ result = Quiet(waiting)
      \/ result = Give(over, TRUE, Effect("quit", NoFocus))
  BY NavigationKeyIs
<1> HIDE DEF result, c, typing, waiting, over
<1>7. Moved(a, result)
  BY <1>2, <1>3, <1>4, <1>5, <1>6
<1> QED
  BY <1>7 DEF result

\* What is open decides which handler takes a key.
LEMMA ReduceKeyIs ==
    ASSUME NEW a, NEW key, NEW valid \in BOOLEAN, NEW result, result = ReduceKey(a, key, valid)
    PROVE  \/ a.modal # NoModal /\ result = ModalKey(a, key, valid)
           \/ /\ a.modal = NoModal
              /\ \/ result \in {OpenSendModal(a), FilterKey(a, key), NavigationKey(a, key)}
                 \/ result = Redrawn([a EXCEPT !.modal = Help])
                 \/ result = ToggleCollapsed([a EXCEPT !.zKey = FALSE])
                 \/ result = Quiet([a EXCEPT !.zKey = FALSE])
BY DEF ReduceKey

\* All keys.
LEMMA ReduceKeyMoved ==
    ASSUME NEW a, Sound(a), NEW key, NEW valid \in BOOLEAN
    PROVE  Moved(a, ReduceKey(a, key, valid))
<1> DEFINE b == [a EXCEPT !.zKey = FALSE]
           helped == Redrawn([a EXCEPT !.modal = Help])
           result == ReduceKey(a, key, valid)
<1>1. FocusOK(b) /\ Caches(b) = Caches(a)
  BY SetAside
<1>2. StateOK(b)
  <2>1. /\ DOMAIN b = AppFields /\ b.modal = a.modal /\ b.cache = a.cache
        /\ b.model = a.model /\ b.grouped = a.grouped /\ b.query = a.query
        /\ b.collapsed = a.collapsed
    BY DEF AppFields, Sound, StateOK
  <2> HIDE DEF b
  <2> QED
    BY <2>1, Touched DEF Sound, StateOK
<1>3. Moved(a, helped)
  BY DialogsGood, DialogMoved, SameMoved
<1>4. \/ a.modal # NoModal /\ result = ModalKey(a, key, valid)
      \/ result \in {OpenSendModal(a), FilterKey(a, key), NavigationKey(a, key)}
      \/ result \in {helped, ToggleCollapsed(b), Quiet(b)}
  BY ReduceKeyIs
<1> HIDE DEF b, helped, result
<1>5. Moved(a, Quiet(b))
  BY <1>1, SameMoved
<1>6. Moved(a, ToggleCollapsed(b))
  <2>1. Sound(b)
    BY <1>1, <1>2 DEF Sound, Caches
  <2>2. Moved(b, ToggleCollapsed(b))
    BY <2>1, SetCollapsedMoved DEF ToggleCollapsed
  <2> QED
    BY <1>1, <2>2, MovedVia
<1>7. Moved(a, result)
  BY <1>3, <1>4, <1>5, <1>6, ModalKeyMoved, OpenSendModalMoved, FilterKeyMoved,
     NavigationKeyMoved
<1> QED
  BY <1>7 DEF result

-----------------------------------------------------------------------------
(* Time, snapshots and creations move the focus                             *)

\* A clock and a deadline have no part in the focus.
LEMMA ObservedMoved ==
    ASSUME NEW a, Sound(a), NEW time, NEW b, b = ObserveCreationTime(a, time)
    PROVE  Sound(b) /\ Caches(b) = Caches(a) /\ b.focus = a.focus /\ b.pending = a.pending
<1>1. /\ b.modal = a.modal /\ b.pending = a.pending /\ b.model = a.model
      /\ b.grouped = a.grouped /\ b.query = a.query /\ b.collapsed = a.collapsed
      /\ b.focus = a.focus /\ b.selection = a.selection
      /\ b.cache = a.cache /\ b.ageDue = a.ageDue /\ b.aged = a.aged
  BY DEF AppFields, Sound, StateOK, ObserveCreationTime
<1>2. StateOK(b)
  BY ObservedOK DEF Sound
<1>3. FocusOK(b)
  BY <1>1, FocusKept DEF Sound, FocusOK, Base
<1> QED
  BY <1>1, <1>2, <1>3 DEF Sound, Caches

\* Nor has a creation that is forgotten.
LEMMA ForgottenFocus ==
    ASSUME NEW a, DOMAIN a = AppFields, FocusOK(a), NEW b, b = ForgetCreation(a)
    PROVE  DOMAIN b = AppFields /\ FocusOK(b) /\ Caches(b) = Caches(a) /\ b.model = a.model
<1>1. /\ DOMAIN b = AppFields /\ b.modal = a.modal /\ b.pending = NoPending
      /\ b.model = a.model /\ b.grouped = a.grouped /\ b.query = a.query
      /\ b.collapsed = a.collapsed /\ b.focus = a.focus /\ b.selection = a.selection
      /\ b.cache = a.cache /\ b.ageDue = a.ageDue /\ b.aged = a.aged
  BY DEF AppFields, ForgetCreation
<1>2. PendingGood(NoPending)
  BY DEF PendingGood, NoPending
<1>3. FocusOK(b)
  BY <1>1, <1>2, FocusKept DEF FocusOK, Base
<1> QED
  BY <1>1, <1>3 DEF Caches

\* A wait that ends leaves the focus.
LEMMA ExpiredFocus ==
    ASSUME NEW a, DOMAIN a = AppFields, FocusOK(a), NEW time,
           NEW b, b = ExpireCreationVerification(a, time)
    PROVE  /\ FocusOK(b) /\ b.model = a.model
           /\ IF Expires(a, time) THEN ~b.aged ELSE b = a
<1> DEFINE c == ForgetCreation(a)
           d == [c EXCEPT !.banner = "unverified"]
<1>1. DOMAIN c = AppFields /\ FocusOK(c) /\ c.model = a.model
  BY ForgottenFocus
<1>2. b = IF Expires(a, time) THEN InvalidateRenderCache(d) ELSE a
  BY DEF ExpireCreationVerification
<1> HIDE DEF c
<1>3. /\ DOMAIN d = AppFields /\ d.modal = c.modal /\ d.pending = c.pending
      /\ d.model = c.model /\ d.grouped = c.grouped /\ d.query = c.query
      /\ d.collapsed = c.collapsed /\ d.focus = c.focus /\ d.selection = c.selection
  BY <1>1 DEF AppFields
<1> HIDE DEF d
<1>4. FocusOK(d)
  BY <1>1, <1>3, FocusKept DEF FocusOK, Base
<1>5. /\ FocusOK(InvalidateRenderCache(d)) /\ ~InvalidateRenderCache(d).aged
      /\ InvalidateRenderCache(d).model = d.model
  BY <1>3, <1>4, InvalidatedFocus, InvalidatedKeeps
<1> QED
  BY <1>1, <1>2, <1>3, <1>5

\* A tick changes no rows, and has the ages made again when one is due.
LEMMA ReduceTickMoved ==
    ASSUME NEW a, Sound(a), NEW time
    PROVE  Moved(a, ReduceTick(a, time))
<1> DEFINE observed == ObserveCreationTime(a, time)
           due == observed.ageDue # Never /\ time >= observed.ageDue
           b == IF due THEN [observed EXCEPT !.aged = FALSE] ELSE observed
           c == ExpireCreationVerification(b, time)
           changed == due \/ Expires(b, time)
<1>1. Sound(observed) /\ Caches(observed) = Caches(a)
  BY ObservedMoved
<1>2. ReduceTick(a, time) = Give(c, changed, NoEffect)
  BY DEF ReduceTick
<1> HIDE DEF observed
<1>3. /\ DOMAIN b = AppFields /\ FocusOK(b)
      /\ IF due THEN ~b.aged ELSE Caches(b) = Caches(a)
  <2>1. /\ DOMAIN b = AppFields /\ b.modal = observed.modal /\ b.pending = observed.pending
        /\ b.model = observed.model /\ b.grouped = observed.grouped
        /\ b.query = observed.query /\ b.collapsed = observed.collapsed
        /\ b.focus = observed.focus /\ b.selection = observed.selection
        /\ IF due THEN ~b.aged ELSE b = observed
    BY <1>1 DEF AppFields, Sound, StateOK
  <2> HIDE DEF b, due
  <2>2. FocusOK(b)
    BY <1>1, <2>1, FocusKept DEF Sound, FocusOK, Base
  <2> QED
    BY <1>1, <2>1, <2>2
<1> HIDE DEF b, due
<1>4. FocusOK(c) /\ IF Expires(b, time) THEN ~c.aged ELSE c = b
  BY <1>3, ExpiredFocus
<1> HIDE DEF c
<1>5. Moved(a, Give(c, changed, NoEffect))
  <2>1. CASE changed
    <3>1. ~c.aged
      BY <1>3, <1>4, <2>1
    <3> HIDE DEF changed
    <3> QED
      BY <1>4, <2>1, <3>1, StaleMoved
  <2>2. CASE ~changed
    <3>1. Caches(c) = Caches(a)
      BY <1>3, <1>4, <2>2
    <3> HIDE DEF changed
    <3> QED
      BY <1>4, <3>1, SameMoved
  <2> QED
    BY <2>1, <2>2
<1> QED
  BY <1>2, <1>5

\* What a snapshot tells of the created pane leaves the focus, at first.
LEMMA ReconciledFocus ==
    ASSUME NEW a, Sound(a), NEW o, NEW time, NEW b, b = ReconcileSnapshotPresence(a, o, time)
    PROVE  /\ DOMAIN b = AppFields /\ FocusOK(b) /\ Caches(b) = Caches(a) /\ b.model = a.model
<1> DEFINE kept == {p \in a.ephemeral : KeepsEphemeral(o, p, time)}
           pane == a.pending.pane
           uncertain == /\ a.pending.resolution = "untagged"
                        /\ ~Discovered(RecordsOf(o, pane), time)
           c == [a EXCEPT !.ephemeral = kept]
           d == ForgetCreation(c)
           e == [d EXCEPT !.ephemeral = IF uncertain THEN kept \cup {pane} ELSE kept,
                          !.banner = IF a.pending.resolution = "success" THEN "none"
                                     ELSE "created"]
           f == [d EXCEPT !.ephemeral = kept \ {pane}, !.banner = "exited"]
<1>1. b \in {c, e, f}
  <2>1. CASE Presence(a, o) = "shown"
    BY <2>1 DEF ReconcileSnapshotPresence
  <2>2. CASE Presence(a, o) = "gone"
    BY <2>2 DEF ReconcileSnapshotPresence
  <2>3. CASE Presence(a, o) \notin {"shown", "gone"}
    BY <2>3 DEF ReconcileSnapshotPresence
  <2> QED
    BY <2>1, <2>2, <2>3
<1> DEFINE Same(x, y) ==
               /\ DOMAIN x = AppFields /\ x.modal = y.modal /\ x.pending = y.pending
               /\ x.model = y.model /\ x.grouped = y.grouped /\ x.query = y.query
               /\ x.collapsed = y.collapsed /\ x.focus = y.focus /\ x.selection = y.selection
               /\ x.cache = y.cache /\ x.ageDue = y.ageDue /\ x.aged = y.aged
<1>2. Same(c, a)
  <2> HIDE DEF kept
  <2> QED
    BY DEF AppFields, Sound, StateOK
<1>3. ASSUME NEW x, NEW y, FocusOK(y), Same(x, y)
      PROVE  FocusOK(x) /\ Caches(x) = Caches(y)
  BY <1>3, FocusKept DEF FocusOK, Base, Caches
<1> HIDE DEF c
<1>4. DOMAIN c = AppFields /\ FocusOK(c) /\ Caches(c) = Caches(a) /\ c.model = a.model
  BY <1>2, <1>3 DEF Sound
<1>5. DOMAIN d = AppFields /\ FocusOK(d) /\ Caches(d) = Caches(a) /\ d.model = a.model
  BY <1>4, ForgottenFocus
<1> HIDE DEF d, kept, uncertain, pane
<1>6. Same(e, d) /\ Same(f, d)
  BY <1>5 DEF AppFields
<1> HIDE DEF e, f
<1> QED
  BY <1>1, <1>3, <1>4, <1>5, <1>6

\* The row of the created pane, or none.
LEMMA SelectionFocusIs ==
    ASSUME NEW model, ModelOK(model), NEW session, NEW pane
    PROVE  LET focus == SelectionFocus(model, session, pane) IN
           \/ focus = NoFocus
           \/ focus.pane = pane /\ \E m \in ToSet(model.memberships) : focus = PaneFocus(m)
<1> DEFINE rows == GroupedRows(model)
           its == {i \in DOMAIN rows : rows[i].focus.kind = "pane" /\ rows[i].focus.pane = pane}
           there == {i \in its : rows[i].focus.session = session}
           focus == SelectionFocus(model, session, pane)
<1>1. /\ IsList(rows) /\ Len(rows) \in Nat /\ DOMAIN rows = 1..Len(rows)
      /\ \A r \in ToSet(rows) : Row(model, r)
  BY GroupedIs, ListIs
<1>2. focus = IF there # {} THEN rows[Min(there)].focus
              ELSE IF its # {} THEN rows[Min(its)].focus ELSE NoFocus
  BY DEF SelectionFocus
<1> HIDE DEF rows
<1>3. (there # {} => Min(there) \in there) /\ (its # {} => Min(its) \in its)
  BY <1>1, Extremes
<1> HIDE DEF focus
<1>4. focus = NoFocus \/ \E i \in its : focus = rows[i].focus
  BY <1>2, <1>3
<1>5. ASSUME NEW i \in its, focus = rows[i].focus
      PROVE  focus.pane = pane /\ \E m \in ToSet(model.memberships) : focus = PaneFocus(m)
  <2>1. Row(model, rows[i])
    BY <1>1 DEF ToSet
  <2> QED
    BY <1>5, <2>1, RowKinds
<1>6. \/ focus = NoFocus
      \/ focus.pane = pane /\ \E m \in ToSet(model.memberships) : focus = PaneFocus(m)
  BY <1>4, <1>5
<1> QED
  BY <1>6 DEF focus

\* The focus goes to the created pane.
LEMMA SelectCreatedFocus ==
    ASSUME NEW a, DOMAIN a = AppFields, Base(a), NEW p, p.pane = NewPane
    PROVE  FocusOK(SelectCreated(a, p)) /\ Caches(SelectCreated(a, p)) = Caches(a)
<1> DEFINE b == [a EXCEPT !.query = <<>>, !.typing = FALSE, !.collapsed = @ \ {p.session}]
           focus == SelectionFocus(a.model, p.session, p.pane)
<1>1. /\ DOMAIN b = AppFields /\ b.modal = a.modal /\ b.pending = a.pending
      /\ b.model = a.model /\ b.query = <<>>
      /\ b.cache = a.cache /\ b.ageDue = a.ageDue /\ b.aged = a.aged
  BY DEF AppFields
<1>2. SelectCreated(a, p) = FocusOn(b, focus)
  BY DEF SelectCreated
<1> HIDE DEF b
<1>3. Base(b) /\ ModelOK(b.model)
  BY <1>1, BaseKept DEF Base
<1>4. focus = NoFocus \/
      (focus.pane = NewPane /\ \E m \in ToSet(b.model.memberships) : focus = PaneFocus(m))
  BY <1>1, <1>3, SelectionFocusIs
<1> HIDE DEF focus
<1>5. Fits(b, focus)
  <2>1. CASE focus = NoFocus
    BY <2>1 DEF Fits
  <2>2. CASE focus # NoFocus
    <3>1. PICK m \in ToSet(b.model.memberships) : focus = PaneFocus(m)
      BY <1>4, <2>2
    <3>2. \E r \in ToSet(RankedRows(b.model, b.grouped, b.query)) : r.focus = focus
      BY <1>1, <1>3, <3>1, RankedIs
    <3> QED
      BY <1>4, <2>2, <3>2 DEF Fits
  <2> QED
    BY <2>1, <2>2
<1> QED
  BY <1>1, <1>2, <1>3, <1>5, FocusOnFits DEF Caches

\* A snapshot: the focus finds its row again, or goes to the created pane.
LEMMA ReduceSnapshotMoved ==
    ASSUME NEW c, Sound(c), c.cache.valid, NEW o, o.records \in Seq(RawRecord), NEW time
    PROVE  Moved(c, ReduceSnapshot(c, o, time))
<1> DEFINE a == ObserveCreationTime(c, time)
           r == ReconcileSnapshotPresence(a, o, time)
           b == ExpireCreationVerification(r, time)
           model == Build(o.records, b.model.headless, time, b.ephemeral)
           resolved == Awaiting(a) /\ b.pending = NoPending
           filled == [b EXCEPT !.model = model, !.grouped = model.grouped, !.failures = 0,
                               !.dropped = o.dropped,
                               !.collapsed = @ \cap DOMAIN model.sessions,
                               !.banner = IF resolved THEN @ ELSE "none"]
           d == InvalidateRenderCache(filled)
           jump == IF a.attach
                   THEN Effect("jump", PaneFocus([session |-> None, window |-> None,
                                                  pane |-> a.pending.pane]))
                   ELSE NoEffect
<1>1. ReduceSnapshot(c, o, time) =
          IF Nothing(a, b, o, model) THEN Quiet(b)
          ELSE IF Presence(a, o) # "shown"
          THEN Redrawn(KeepFocus(Cached(d), a.focus, Visible(a)))
          ELSE Give(SelectCreated(d, a.pending), TRUE, jump)
  BY DEF ReduceSnapshot, TakeModel
<1>2. Sound(a) /\ Caches(a) = Caches(c)
  BY ObservedMoved
<1> HIDE DEF a
<1>3. DOMAIN r = AppFields /\ FocusOK(r) /\ Caches(r) = Caches(a) /\ r.model = a.model
  BY <1>2, ReconciledFocus
<1>4. /\ StateOK(r)
      /\ r.pending = a.pending \/ r.pending = NoPending
  BY <1>2, ReconciledOK DEF Sound
<1> HIDE DEF r
<1>5. /\ FocusOK(b) /\ b.model = a.model
      /\ IF Expires(r, time) THEN ~b.aged ELSE b = r
  BY <1>3, ExpiredFocus
<1>6. /\ StateOK(b)
      /\ Expires(r, time) => b.pending = NoPending /\ Awaiting(r)
  BY <1>4, ExpiredOK
<1> HIDE DEF b
<1>7. ModelOK(model)
  BY <1>5, BuildIs DEF FocusOK, Base, ModelOK
<1> HIDE DEF model, resolved, jump
<1>8. DOMAIN filled = AppFields /\ filled.modal = b.modal /\ filled.pending = b.pending
      /\ filled.model = model
  BY <1>6 DEF AppFields, StateOK
<1> HIDE DEF filled
<1>9. Base(filled) /\ ModalOK(filled.modal)
  BY <1>5, <1>6, <1>7, <1>8 DEF FocusOK, Base, StateOK
<1>10. DOMAIN d = AppFields /\ StateOK(d) /\ Base(d) /\ ~d.aged
  BY <1>8, <1>9, Invalidated, InvalidatedKeeps, BaseKept
<1> HIDE DEF d
<1>11. Moved(c, Redrawn(KeepFocus(Cached(d), a.focus, Visible(a))))
  <2> DEFINE full == Cached(d)
             old == Visible(a)
  <2>1. StateOK(full) /\ full.cache.valid /\ Base(full) /\ ~full.aged
    BY <1>10, CachedOK, CachedKeeps, BaseKept
  <2>2. IsList(old)
    <3>1. a.cache.valid
      BY <1>2 DEF Caches
    <3> QED
      BY <1>2, <3>1, VisibleIs DEF Sound, FocusOK, Base
  <2> HIDE DEF full, old
  <2>3. FocusOK(KeepFocus(full, a.focus, old)) /\ ~KeepFocus(full, a.focus, old).aged
    BY <2>1, <2>2, KeepFocusFits DEF Caches
  <2>4. Moved(c, Redrawn(KeepFocus(full, a.focus, old)))
    BY <2>3, StaleMoved
  <2> QED
    BY <2>4 DEF full, old
<1>12. ASSUME Presence(a, o) = "shown"
       PROVE  Moved(c, Give(SelectCreated(d, a.pending), TRUE, jump))
  <2>1. Awaiting(a)
    BY <1>12 DEF Presence
  <2>2. a.pending.pane = NewPane
    BY <1>2, <2>1 DEF Awaiting, Sound, FocusOK, Base, PendingGood
  <2>3. FocusOK(SelectCreated(d, a.pending)) /\ ~SelectCreated(d, a.pending).aged
    BY <1>10, <2>2, SelectCreatedFocus DEF Caches
  <2> QED
    BY <2>3, StaleMoved
<1>13. ASSUME Nothing(a, b, o, model) PROVE Moved(c, Quiet(b))
  <2>1. b.pending = a.pending
    BY <1>13 DEF Nothing
  <2>2. ~Expires(r, time)
    <3>1. SUFFICES ASSUME Expires(r, time) PROVE FALSE
      OBVIOUS
    <3>2. a.pending = NoPending /\ r.pending # NoPending
      BY <1>6, <2>1, <3>1 DEF Awaiting, NoPending
    <3> QED
      BY <1>4, <3>2
  <2>3. Caches(b) = Caches(c)
    BY <1>2, <1>3, <1>5, <2>2
  <2> QED
    BY <1>5, <2>3, SameMoved
<1> QED
  BY <1>1, <1>11, <1>12, <1>13

\* A list of headless sessions: the focus finds its row again.
LEMMA ReduceHeadlessMoved ==
    ASSUME NEW a, Sound(a), a.cache.valid, NEW records \in Seq(HeadlessRecord), NEW alarm
    PROVE  Moved(a, ReduceHeadlessSnapshot(a, records, alarm))
<1> DEFINE model == ReplaceHeadless(a.model, records)
           c == [a EXCEPT !.model = model, !.kimaki = alarm]
           d == InvalidateRenderCache(c)
<1>1. ReduceHeadlessSnapshot(a, records, alarm) =
          IF ContentHash(model) = ContentHash(a.model) /\ a.kimaki = alarm THEN Quiet(a)
          ELSE Redrawn(KeepFocus(Cached(d), a.focus, Visible(a)))
  BY DEF ReduceHeadlessSnapshot
<1>2. ModelOK(model)
  BY ReplaceHeadlessIs DEF Sound, FocusOK, Base
<1> HIDE DEF model
<1>3. DOMAIN c = AppFields /\ c.modal = a.modal /\ c.pending = a.pending /\ c.model = model
  BY DEF AppFields, Sound, StateOK
<1> HIDE DEF c
<1>4. Base(c) /\ ModalOK(c.modal)
  BY <1>2, <1>3 DEF Sound, FocusOK, Base, StateOK
<1>5. DOMAIN d = AppFields /\ StateOK(d) /\ Base(d) /\ ~d.aged
  BY <1>3, <1>4, Invalidated, InvalidatedKeeps, BaseKept
<1> HIDE DEF d
<1> DEFINE full == Cached(d)
           old == Visible(a)
<1>6. StateOK(full) /\ full.cache.valid /\ Base(full) /\ ~full.aged
  BY <1>5, CachedOK, CachedKeeps, BaseKept
<1>7. IsList(old)
  BY VisibleIs DEF Sound, FocusOK, Base
<1> HIDE DEF full, old
<1>8. FocusOK(KeepFocus(full, a.focus, old)) /\ ~KeepFocus(full, a.focus, old).aged
  BY <1>6, <1>7, KeepFocusFits DEF Caches
<1>9. Moved(a, Redrawn(KeepFocus(full, a.focus, old)))
  BY <1>8, StaleMoved
<1> QED
  BY <1>1, <1>9, UnmovedIs DEF full, old

\* A snapshot that failed leaves the focus.
LEMMA ReduceSnapshotFailureMoved ==
    ASSUME NEW a, Sound(a)
    PROVE  Moved(a, ReduceSnapshotFailure(a))
<1> DEFINE b == [a EXCEPT !.failures = @ + 1, !.banner = "snapshot failed"]
<1>1. /\ b.modal = a.modal /\ b.pending = a.pending /\ b.model = a.model
      /\ b.grouped = a.grouped /\ b.query = a.query /\ b.collapsed = a.collapsed
      /\ b.focus = a.focus /\ b.selection = a.selection
      /\ b.cache = a.cache /\ b.ageDue = a.ageDue /\ b.aged = a.aged
  BY DEF AppFields, Sound, StateOK
<1>2. ReduceSnapshotFailure(a) = Redrawn(b)
  BY DEF ReduceSnapshotFailure
<1> HIDE DEF b
<1>3. FocusOK(b) /\ Caches(b) = Caches(a)
  BY <1>1, FocusKept DEF Sound, FocusOK, Base, Caches
<1> QED
  BY <1>2, <1>3, SameMoved

\* A creation that failed keeps the active field of its form.
LEMMA CreateFailedMoved ==
    ASSUME NEW s, NEW a, Sound(a)
    PROVE  Moved(s, CreateFailed(a))
<1> DEFINE modal == Form(a.modal.context, a.modal.field, FALSE, TRUE)
           b == [a EXCEPT !.pending.state = "error", !.modal = modal]
           c == [a EXCEPT !.pending = NoPending, !.attach = FALSE, !.banner = "create failed"]
           d == IF a.modal.kind = "form" THEN b ELSE c
<1>1. CreateFailed(a) = Redrawn(InvalidateRenderCache(d))
  BY DEF CreateFailed
<1>2. modal.kind = "form" /\ modal.context = a.modal.context /\ modal.field = a.modal.field
  BY DEF Form
<1> HIDE DEF modal
<1>3. FocusOK(a) /\ DialogGood(a.modal) /\ PendingGood(a.pending) /\ DOMAIN a = AppFields
  BY DEF Sound, FocusOK, Base, StateOK
<1>4. /\ DOMAIN b = AppFields /\ b.modal = modal /\ b.model = a.model
      /\ b.pending = [a.pending EXCEPT !.state = "error"]
      /\ b.grouped = a.grouped /\ b.query = a.query /\ b.collapsed = a.collapsed
      /\ b.focus = a.focus /\ b.selection = a.selection
  BY <1>3 DEF AppFields
<1>5. /\ DOMAIN c = AppFields /\ c.modal = a.modal /\ c.model = a.model /\ c.pending = NoPending
      /\ c.grouped = a.grouped /\ c.query = a.query /\ c.collapsed = a.collapsed
      /\ c.focus = a.focus /\ c.selection = a.selection
  BY <1>3 DEF AppFields
<1> HIDE DEF b, c
<1>6. a.modal.kind = "form" => DialogGood(modal)
  BY <1>2, <1>3 DEF DialogGood
<1>7. PendingGood([a.pending EXCEPT !.state = "error"]) /\ PendingGood(NoPending)
  BY <1>3 DEF PendingGood, NoPending
<1>8. a.modal.kind = "form" => FocusOK(b)
  BY <1>3, <1>4, <1>6, <1>7, FocusKept
<1>9. FocusOK(c)
  BY <1>3, <1>5, <1>7, FocusKept
<1>10. DOMAIN d = AppFields /\ FocusOK(d)
  BY <1>4, <1>5, <1>8, <1>9
<1> HIDE DEF d
<1> QED
  BY <1>1, <1>10, InvalidatedFocus, StaleMoved

\* A pane was made: it is the new one.
LEMMA CreatedMoved ==
    ASSUME NEW a, Sound(a)
    PROVE  Moved(a, Created(a))
<1> DEFINE pending == [a.pending EXCEPT !.state = "created", !.pane = NewPane]
           b == [a EXCEPT !.pending.state = "created", !.pending.pane = NewPane,
                          !.modal = NoModal]
<1>1. Created(a) = Redrawn(InvalidateRenderCache(b))
  BY DEF Created
<1>2. FocusOK(a) /\ PendingGood(a.pending) /\ DOMAIN a = AppFields
  BY DEF Sound, FocusOK, Base, StateOK
<1>3. /\ DOMAIN b = AppFields /\ b.modal = NoModal /\ b.model = a.model /\ b.pending = pending
      /\ b.grouped = a.grouped /\ b.query = a.query /\ b.collapsed = a.collapsed
      /\ b.focus = a.focus /\ b.selection = a.selection
  BY <1>2 DEF AppFields
<1> HIDE DEF b
<1>4. PendingGood(pending)
  BY <1>2 DEF PendingGood
<1> HIDE DEF pending
<1>5. FocusOK(b)
  BY <1>2, <1>3, <1>4, DialogsGood, FocusKept
<1> QED
  BY <1>1, <1>3, <1>5, InvalidatedFocus, StaleMoved

\* The worker is done: what is awaited is the pane that it made.
LEMMA FinishCreationMoved ==
    ASSUME NEW a, Sound(a), a.pending.state = "created", NEW resolution
    PROVE  Moved(a, FinishCreation(a, resolution))
<1> DEFINE deadline == IF a.clock = Never THEN Never ELSE a.clock + VerificationTimeout
           pending == [a.pending EXCEPT !.state = "awaiting", !.resolution = resolution]
           b == [a EXCEPT !.pending.state = "awaiting", !.pending.resolution = resolution,
                          !.attach = @ /\ resolution = "success", !.deadline = deadline]
<1>1. FinishCreation(a, resolution) =
          Give(InvalidateRenderCache(b), TRUE, Effect("refresh", NoFocus))
  BY DEF FinishCreation
<1> HIDE DEF deadline
<1>2. FocusOK(a) /\ PendingGood(a.pending) /\ DialogGood(a.modal) /\ DOMAIN a = AppFields
  BY DEF Sound, FocusOK, Base, StateOK
<1>3. /\ DOMAIN b = AppFields /\ b.modal = a.modal /\ b.model = a.model /\ b.pending = pending
      /\ b.grouped = a.grouped /\ b.query = a.query /\ b.collapsed = a.collapsed
      /\ b.focus = a.focus /\ b.selection = a.selection
  BY <1>2 DEF AppFields
<1> HIDE DEF b
<1>4. PendingGood(pending)
  BY <1>2 DEF PendingGood
<1> HIDE DEF pending
<1>5. FocusOK(b)
  BY <1>2, <1>3, <1>4, FocusKept
<1> QED
  BY <1>1, <1>3, <1>5, InvalidatedFocus, StaleMoved

-----------------------------------------------------------------------------
(* The focus, always                                                        *)

\* What comes of an event in a good state is a good state.
LEMMA MovedGood ==
    ASSUME NEW a, Sound(a), NEW result, StateOK(result.app), Moved(a, result)
    PROVE  Sound(result.app)
BY DEF Sound, Moved, Caches

\* A command that is done moves no focus.
LEMMA CompleteMoved ==
    ASSUME NEW a, Sound(a), NEW kind, NEW outcome, NEW done, done = Complete(a, kind, outcome)
    PROVE  Moved(a, done) /\ Sound(done.app)
<1> DEFINE over == [a EXCEPT !.quit = TRUE]
           other == IF outcome = "success" THEN "none" ELSE "action failed"
           b == [a EXCEPT !.banner = other]
<1>1. /\ b.modal = a.modal /\ b.pending = a.pending /\ b.model = a.model
      /\ b.grouped = a.grouped /\ b.query = a.query /\ b.collapsed = a.collapsed
      /\ b.focus = a.focus /\ b.selection = a.selection
      /\ b.cache = a.cache /\ b.ageDue = a.ageDue /\ b.aged = a.aged
  BY DEF AppFields, Sound, StateOK
<1>2. ReduceActionFinished(a, kind, outcome) =
          IF kind = "kill" /\ outcome # "failed" THEN Quiet(a)
          ELSE Give(b, a.banner # other, NoEffect)
  BY DEF ReduceActionFinished
<1>3. Moved(a, Quiet(over))
  BY SetAside, SameMoved
<1>4. done \in {ReduceActionFinished(a, kind, outcome), Quiet(over), CreateFailed(a), Quiet(a)}
  <2>1. CASE kind \in {"send", "kill"}
    BY <2>1 DEF Complete
  <2>2. CASE kind = "jump" /\ outcome = "success"
    BY <2>2 DEF Complete
  <2>3. CASE kind = "group" /\ outcome = "failed"
    BY <2>3 DEF Complete
  <2>4. CASE kind = "attach" /\ outcome = "failed"
    BY <2>4 DEF Complete
  <2>5. CASE /\ kind \notin {"send", "kill"} /\ ~(kind = "jump" /\ outcome = "success")
             /\ ~(kind = "group" /\ outcome = "failed")
             /\ ~(kind = "attach" /\ outcome = "failed")
    BY <2>5 DEF Complete
  <2> QED
    BY <2>1, <2>2, <2>3, <2>4, <2>5
<1> HIDE DEF b, over, other
<1>5. FocusOK(b) /\ Caches(b) = Caches(a)
  BY <1>1, FocusKept DEF Sound, FocusOK, Base, Caches
<1>6. Moved(a, ReduceActionFinished(a, kind, outcome))
  BY <1>2, <1>5, SameMoved, UnmovedIs
<1>7. Moved(a, done)
  BY <1>3, <1>4, <1>6, CreateFailedMoved, UnmovedIs
<1>8. StateOK(done.app)
  BY CompleteStep DEF Step, Sound
<1> QED
  BY <1>7, <1>8, MovedGood

\* What is drawn has its ages, as they were kept or made now.
LEMMA PreparedGood ==
    ASSUME NEW a, Sound(a), NEW time, NEW b, b = PrepareRender(a, time)
    PROVE  /\ Sound(b) /\ b.aged /\ b.cache.valid
           /\ IF a.aged THEN Caches(b) = Caches(a)
              ELSE b.ageDue = FirstBoundary(b.cache.rows, time)
<1> DEFINE c == Cached(a)
           due == FirstBoundary(c.cache.rows, time)
           d == [c EXCEPT !.aged = TRUE, !.ageDue = due]
<1>1. b = IF c.aged THEN c ELSE d
  BY DEF PrepareRender, PrepareAges
<1>2. Sound(c) /\ c.cache.valid /\ (Caches(c) = Caches(a) \/ (~c.aged /\ ~a.cache.valid))
  BY CachedGood
<1>3. c.aged = a.aged
  BY CachedKeeps DEF Sound, StateOK
<1>4. StateOK(b)
  BY PreparedOK DEF Sound
<1> HIDE DEF c
<1>5. due = FirstBoundary(c.cache.rows, time)
  OBVIOUS
<1> HIDE DEF due
<1>6. /\ d.modal = c.modal /\ d.pending = c.pending /\ d.model = c.model
      /\ d.grouped = c.grouped /\ d.query = c.query /\ d.collapsed = c.collapsed
      /\ d.focus = c.focus /\ d.selection = c.selection
      /\ d.cache = c.cache /\ d.ageDue = due /\ d.aged = TRUE
  BY <1>2 DEF AppFields, Sound, StateOK
<1> HIDE DEF d
<1>7. FocusOK(d)
  BY <1>2, <1>6, FocusKept DEF Sound, FocusOK, Base
<1>8. CASE c.aged
  BY <1>1, <1>2, <1>3, <1>8 DEF Sound
<1>9. CASE ~c.aged
  <2>1. b = d
    BY <1>1, <1>9
  <2>2. Sound(b) /\ b.aged /\ b.cache.valid
    BY <1>2, <1>4, <1>6, <1>7, <2>1 DEF Sound
  <2>3. ~a.aged /\ b.ageDue = FirstBoundary(b.cache.rows, time)
    BY <1>3, <1>5, <1>6, <1>9, <2>1
  <2> QED
    BY <2>2, <2>3
<1> QED
  BY <1>8, <1>9

\* What an event that is applied leaves: the frame and the ages of before, or a new
\* frame, of ages that were kept or made again.
LEMMA AppliedGood ==
    ASSUME Sound(app), app.cache.valid, NEW result, StateOK(result.app), Moved(app, result),
           Apply(result)
    PROVE  /\ Sound(app')
           /\ \/ Caches(app') = Caches(app) /\ screen' = screen
              \/ /\ app'.cache.valid /\ app'.aged /\ screen' = Render(app', now')
                 /\ \/ Caches(app') = Caches(app)
                    \/ app'.ageDue = FirstBoundary(app'.cache.rows, now')
<1>1. PICK outcome \in Outcomes(result.effect.kind) :
          LET done == Complete(result.app, result.effect.kind, outcome)
          IN  IF result.changed \/ done.changed
              THEN Draw(PrepareRender(done.app, now'))
              ELSE app' = done.app /\ UNCHANGED screen
  BY DEF Apply
<1> DEFINE done == Complete(result.app, result.effect.kind, outcome)
<1>2. Sound(result.app)
  BY MovedGood
<1>3. Moved(result.app, done) /\ Sound(done.app)
  BY <1>2, CompleteMoved
<1>4. \/ result.changed \/ done.changed
      \/ app' = done.app /\ screen' = screen
  BY <1>1
<1>5. result.changed \/ done.changed =>
          app' = PrepareRender(done.app, now') /\ screen' = Render(app', now')
  BY <1>1 DEF Draw
<1> HIDE DEF done
<1>6. Caches(done.app) = Caches(app) \/ ~done.app.aged
  BY <1>3 DEF Moved, Caches
<1>7. CASE result.changed \/ done.changed
  <2>1. /\ Sound(app') /\ app'.aged /\ app'.cache.valid
        /\ IF done.app.aged THEN Caches(app') = Caches(done.app)
           ELSE app'.ageDue = FirstBoundary(app'.cache.rows, now')
    BY <1>3, <1>5, <1>7, PreparedGood
  <2> QED
    BY <1>5, <1>6, <1>7, <2>1
<1>8. CASE ~(result.changed \/ done.changed)
  <2>1. Caches(result.app) = Caches(app)
    BY <1>8 DEF Moved
  <2>2. result.app.cache.valid
    BY <2>1 DEF Caches
  <2>3. Caches(done.app) = Caches(result.app)
    BY <1>3, <1>8, <2>2 DEF Moved
  <2> QED
    BY <1>3, <1>4, <1>8, <2>1, <2>3
<1> QED
  BY <1>7, <1>8

\* Before the first snapshot arrives, the focus is the pane where the dashboard was
\* opened.
LEMMA InitialGood ==
    ASSUME NEW lines \in Snapshots
    PROVE  Sound(InitialApp(lines)) /\ ~InitialApp(lines).aged
<1>1. PICK o : o = Parse(lines)
  OBVIOUS
<1>2. PICK model : model = Build(o.records, <<>>, StartTime, {})
  OBVIOUS
<1>3. o.records \in Seq(RawRecord) /\ <<>> \in Seq(HeadlessRecord)
  BY <1>1, SnapshotAssumption, ParseIs
<1>4. ModelOK(model)
  BY <1>2, <1>3, BuildIs
<1> DEFINE a == InitialApp(lines)
           launched == {i \in DOMAIN model.memberships :
                            /\ model.memberships[i].session = LaunchSession
                            /\ model.memberships[i].pane = LaunchPane}
           m == model.memberships[Min(launched)]
           b == [model |-> model, grouped |-> model.grouped, typing |-> FALSE, query |-> <<>>,
                 focus |-> NoFocus, selection |-> NoFocus, collapsed |-> {}, modal |-> NoModal,
                 zKey |-> FALSE, ephemeral |-> {}, pending |-> NoPending, attach |-> FALSE,
                 clock |-> Never, deadline |-> Never, failures |-> 0, dropped |-> o.dropped,
                 banner |-> "none", kimaki |-> FALSE, cache |-> NoCache, ageDue |-> Never,
                 aged |-> FALSE, quit |-> FALSE]
<1>5. a = IF launched = {} THEN b ELSE FocusOn(b, PaneFocus(m))
  BY <1>1, <1>2 DEF InitialApp
<1>6. /\ DOMAIN b = AppFields /\ b.modal = NoModal /\ b.cache = NoCache /\ b.model = model
      /\ b.query = <<>> /\ b.collapsed = {} /\ b.pending = NoPending /\ ~b.aged
      /\ b.focus = NoFocus /\ b.selection = NoFocus
  BY DEF AppFields
<1>7. launched # {} => Min(launched) \in DOMAIN model.memberships
  <2>1. Len(model.memberships) \in Nat /\ DOMAIN model.memberships = 1..Len(model.memberships)
    BY <1>4 DEF ModelOK
  <2> QED
    BY <2>1, Extremes
<1> HIDE DEF a, b, launched
<1>8. Base(b)
  BY <1>4, <1>6, DialogsGood DEF Base, PendingGood, NoPending
<1>9. StateOK(b)
  BY <1>6, Dialogs DEF StateOK, CacheTrue, NoCache
<1>10. CASE launched = {}
  <2>1. Synced(b) /\ Fits(b, b.focus)
    BY <1>6 DEF Synced, Fits
  <2> QED
    BY <1>5, <1>6, <1>8, <1>9, <1>10, <2>1 DEF Sound, FocusOK, a
<1>11. CASE launched # {}
  <2> DEFINE focus == PaneFocus(m)
  <2>1. m \in ToSet(model.memberships)
    BY <1>4, <1>7, <1>11, MembershipIs
  <2> HIDE DEF m
  <2>2. \E r \in ToSet(RankedRows(b.model, b.grouped, b.query)) : r.focus = focus
    BY <1>4, <1>6, <2>1, RankedIs
  <2>3. ~SessionIsCollapsed(b, focus.session)
    BY <1>6 DEF SessionIsCollapsed
  <2>4. Fits(b, focus)
    BY <2>2, <2>3 DEF Fits
  <2> HIDE DEF focus
  <2>5. FocusOK(FocusOn(b, focus)) /\ Caches(FocusOn(b, focus)) = Caches(b)
    BY <1>6, <1>8, <2>4, FocusOnFits
  <2>6. StateOK(FocusOn(b, focus))
    BY <1>9, FocusOnOK
  <2>7. a = FocusOn(b, focus)
    BY <1>5, <1>11 DEF focus
  <2> QED
    BY <1>6, <2>5, <2>6, <2>7 DEF Sound, Caches, a
<1> QED
  BY <1>10, <1>11

\* Everything but the clock is an event that moves the focus as it should.
LEMMA Events ==
    ASSUME Sound(app), Next, ~TimePasses
    PROVE  /\ ~app.quit /\ now' = now
           /\ \E result : /\ StateOK(result.app) /\ Moved(app, result) /\ Apply(result)
<1> DEFINE c == Cached(app)
           Event(result) == StateOK(result.app) /\ Moved(app, result) /\ Apply(result)
<1>1. StateOK(app)
  BY DEF Sound
<1>2. Sound(c) /\ c.cache.valid /\ (Caches(c) = Caches(app) \/ (~c.aged /\ ~app.cache.valid))
  BY CachedGood
<1>3. ASSUME NEW key \in Keys, NEW valid \in BOOLEAN, Press(key, valid)
      PROVE  ~app.quit /\ now' = now /\ \E result : Event(result)
  <2>1. ~app.quit /\ now' = now /\ Apply(ReduceKey(app, key, valid))
    BY <1>3 DEF Press, Running
  <2>2. StateOK(ReduceKey(app, key, valid).app) /\ Moved(app, ReduceKey(app, key, valid))
    BY <1>1, ReduceKeyStep, ReduceKeyMoved DEF Step
  <2> QED
    BY <2>1, <2>2
<1>4. ASSUME SnapshotArrives
      PROVE  ~app.quit /\ now' = now /\ \E result : Event(result)
  <2>1. PICK lines \in Snapshots : Apply(ReduceSnapshot(c, Parse(lines), now))
    BY <1>4 DEF SnapshotArrives
  <2> DEFINE result == ReduceSnapshot(c, Parse(lines), now)
  <2>2. Parse(lines).records \in Seq(RawRecord)
    BY SnapshotAssumption, ParseIs
  <2>3. Moved(c, result)
    BY <1>2, <2>2, ReduceSnapshotMoved
  <2>4. StateOK(result.app)
    BY <1>2, ReduceSnapshotStep DEF Step, Sound
  <2> HIDE DEF result, c
  <2>5. Moved(app, result)
    BY <1>2, <2>3, MovedVia
  <2>6. Event(result)
    BY <2>1, <2>4, <2>5 DEF result
  <2> QED
    BY <1>4, <2>6 DEF SnapshotArrives, Running
<1>5. ASSUME SnapshotFails
      PROVE  ~app.quit /\ now' = now /\ \E result : Event(result)
  <2>1. ~app.quit /\ now' = now /\ Apply(ReduceSnapshotFailure(app))
    BY <1>5 DEF SnapshotFails, Running
  <2>2. StateOK(ReduceSnapshotFailure(app).app) /\ Moved(app, ReduceSnapshotFailure(app))
    BY <1>1, ReduceSnapshotFailureStep, ReduceSnapshotFailureMoved DEF Step
  <2> QED
    BY <2>1, <2>2
<1>6. ASSUME HeadlessArrives
      PROVE  ~app.quit /\ now' = now /\ \E result : Event(result)
  <2>1. PICK records \in HeadlessLists, alarm \in BOOLEAN :
            Apply(ReduceHeadlessSnapshot(c, records, alarm))
    BY <1>6 DEF HeadlessArrives
  <2> DEFINE result == ReduceHeadlessSnapshot(c, records, alarm)
  <2>2. Moved(c, result)
    BY <1>2, SnapshotAssumption, ReduceHeadlessMoved
  <2>3. StateOK(result.app)
    BY <1>2, ReduceHeadlessStep DEF Step, Sound
  <2> HIDE DEF result, c
  <2>4. Moved(app, result)
    BY <1>2, <2>2, MovedVia
  <2>5. Event(result)
    BY <2>1, <2>3, <2>4 DEF result
  <2> QED
    BY <1>6, <2>5 DEF HeadlessArrives, Running
<1>7. ASSUME Tick
      PROVE  ~app.quit /\ now' = now /\ \E result : Event(result)
  <2>1. ~app.quit /\ now' = now /\ Apply(ReduceTick(app, now))
    BY <1>7 DEF Tick, Running
  <2>2. StateOK(ReduceTick(app, now).app) /\ Moved(app, ReduceTick(app, now))
    BY <1>1, ReduceTickStep, ReduceTickMoved DEF Step
  <2> QED
    BY <2>1, <2>2
<1>8. ASSUME CreationProgresses
      PROVE  ~app.quit /\ now' = now /\ \E result : Event(result)
  <2>1. ~app.quit /\ now' = now
    BY <1>8 DEF CreationProgresses, Running
  <2>2. CASE Apply(CreateFailed(app))
    BY <1>1, <2>1, <2>2, CreateFailedStep, CreateFailedMoved DEF Step
  <2>3. CASE Apply(Created(app))
    BY <1>1, <2>1, <2>3, CreatedStep, CreatedMoved DEF Step
  <2>4. CASE /\ app.pending.state = "created"
             /\ \E resolution : Apply(FinishCreation(app, resolution))
    BY <1>1, <2>1, <2>4, FinishCreationStep, FinishCreationMoved DEF Step
  <2> QED
    BY <1>8, <2>2, <2>3, <2>4 DEF CreationProgresses
<1> QED
  BY <1>3, <1>4, <1>5, <1>6, <1>7, <1>8 DEF Next

\* A dashboard that runs has its rows and their ages.
FocusInv == Sound(app) /\ (app.quit \/ (app.cache.valid /\ app.aged))

\* The first frame.
LEMMA FocusBegins == Init => FocusInv
<1> SUFFICES ASSUME Init PROVE FocusInv
  OBVIOUS
<1>1. PICK lines \in Snapshots : app = PrepareRender(InitialApp(lines), now)
  BY DEF Init
<1>2. Sound(InitialApp(lines))
  BY InitialGood
<1> QED
  BY <1>1, <1>2, PreparedGood DEF FocusInv

\* Every event is applied so, and the clock moves no focus.
LEMMA FocusStays == FocusInv /\ [Next]_vars => FocusInv'
<1> SUFFICES ASSUME FocusInv, [Next]_vars PROVE FocusInv'
  OBVIOUS
<1>1. CASE TimePasses \/ UNCHANGED vars
  BY <1>1 DEF TimePasses, vars, FocusInv
<1>2. CASE Next /\ ~TimePasses
  <2>1. /\ ~app.quit
        /\ \E result : /\ StateOK(result.app) /\ Moved(app, result) /\ Apply(result)
    BY <1>2, Events DEF FocusInv
  <2>2. app.cache.valid /\ app.aged /\ Sound(app)
    BY <2>1 DEF FocusInv
  <2>3. /\ Sound(app')
        /\ Caches(app') = Caches(app) \/ (app'.cache.valid /\ app'.aged)
    BY <2>1, <2>2, AppliedGood
  <2> QED
    BY <2>2, <2>3 DEF FocusInv, Caches
<1> QED
  BY <1>1, <1>2

-----------------------------------------------------------------------------
(* What of the focus is drawn                                               *)

\* The part of a list that is drawn holds what is selected.
LEMMA ScrolledIs ==
    ASSUME NEW s, IsList(s), NEW at \in 1..Len(s), NEW height \in Nat, height # 0
    PROVE  LET from == ScrollOffset(at, Len(s), height)
               drawn == SubSeq(s, from + 1, Lesser(from + height, Len(s)))
           IN  /\ from \in Nat /\ at > from /\ at - from \in DOMAIN drawn
               /\ drawn[at - from] = s[at]
<1> DEFINE n == Len(s)
           from == ScrollOffset(at, n, height)
           to == Lesser(from + height, n)
           drawn == SubSeq(s, from + 1, to)
<1>1. n \in Nat /\ DOMAIN s = 1..n
  BY ListIs
<1> HIDE DEF n
<1>2. at \in 1..n
  BY DEF n
<1>3. from \in Nat /\ from < at /\ at <= from + height
  BY <1>1, <1>2 DEF ScrollOffset, Lesser, Monus
<1> HIDE DEF from
<1>4. to \in Nat /\ at <= to /\ to <= n
  BY <1>1, <1>2, <1>3 DEF Lesser
<1> HIDE DEF to
<1>5. \A i \in (from + 1)..to : s[i] \in ToSet(s)
  BY <1>1, <1>3, <1>4 DEF ToSet
<1>6. from + 1 \in Int /\ to \in Int
  BY <1>3, <1>4
<1>7. /\ drawn \in Seq(ToSet(s))
      /\ Len(drawn) = (IF from + 1 <= to THEN to - (from + 1) + 1 ELSE 0)
      /\ \A i \in 1..(to - (from + 1) + 1) : drawn[i] = s[from + 1 + i - 1]
  BY <1>5, <1>6, SubSeqProperties
<1> HIDE DEF drawn
<1>8. DOMAIN drawn = 1..Len(drawn)
  BY <1>7
<1>9. at - from \in 1..(to - from) /\ Len(drawn) = to - from /\ from + 1 + (at - from) - 1 = at
  BY <1>2, <1>3, <1>4, <1>7
<1>10. at - from \in DOMAIN drawn /\ drawn[at - from] = s[at]
  BY <1>3, <1>4, <1>7, <1>8, <1>9
<1> QED
  BY <1>2, <1>3, <1>10 DEF drawn, to, from, n

\* The last place of a focus among rows.
LEMMA LastPositionIs ==
    ASSUME NEW rows, IsList(rows), NEW focus, \E r \in ToSet(rows) : r.focus = focus
    PROVE  /\ LastPosition(rows, focus) \in 1..Len(rows)
           /\ rows[LastPosition(rows, focus)].focus = focus
<1> DEFINE I == {i \in 1..Len(rows) : rows[i].focus = focus}
<1>1. LastPosition(rows, focus) = IF I # {} THEN Max(I) ELSE 0
  BY DEF LastPosition, SelectLastInSeq
<1>2. Len(rows) \in Nat /\ DOMAIN rows = 1..Len(rows)
  BY ListIs
<1>3. I # {}
  BY <1>2 DEF ToSet
<1>4. Max(I) \in I
  BY <1>2, <1>3, Extremes
<1> QED
  BY <1>1, <1>3, <1>4

\* There are few alerts.
LEMMA AlertLinesAre ==
    ASSUME NEW a
    PROVE  IsList(AlertLines(a)) /\ Len(AlertLines(a)) \in Nat
<1> DEFINE alert(given, text) == IF given THEN <<text>> ELSE <<>>
           w == alert(a.banner # "none", a.banner)
           x == alert(a.kimaki, "kimaki source unavailable")
           y == alert(a.failures > 0, "polling failures")
           z == alert(a.dropped > 0, "dropped")
<1>1. \A given, text : IsList(alert(given, text))
  BY Single, Lists
<1>2. AlertLines(a) = ((w \o x) \o y) \o z
  BY DEF AlertLines
<1>3. IsList(w) /\ IsList(x) /\ IsList(y) /\ IsList(z)
  BY <1>1
<1> HIDE DEF alert, w, x, y, z
<1>4. IsList(w \o x)
  BY <1>3, Joined
<1>5. IsList((w \o x) \o y)
  BY <1>3, <1>4, Joined
<1>6. IsList(AlertLines(a))
  BY <1>2, <1>3, <1>5, Joined
<1> QED
  BY <1>6, ListIs

\* How many rows there is room for.
LEMMA ListHeightIs ==
    ASSUME NEW a
    PROVE  ListHeight(a) \in Nat
<1> DEFINE n == Len(AlertLines(a))
<1>1. n \in Nat /\ ScreenHeight \in Nat \ {0}
  BY AlertLinesAre, AppAssumption
<1>2. ListHeight(a) = Monus(Monus(ScreenHeight - 1, Lesser(n, ScreenHeight - 1)),
                            IF a.pending = NoPending THEN 0 ELSE 1)
  BY DEF ListHeight
<1> HIDE DEF n
<1> QED
  BY <1>1, <1>2 DEF Monus, Lesser

\* The parts of a frame.
LEMMA FrameIs ==
    ASSUME NEW s, NEW c, NEW t, SameFrame(s, Render(c, t))
    PROVE  /\ s.lines = Render(c, t).lines /\ s.cursor = Render(c, t).cursor
           /\ s.modal = Render(c, t).modal
BY DEF SameFrame, Render

\* The row of the focus is drawn, and highlighted, where there is room for any.
LEMMA CursorIs ==
    ASSUME NEW c, NEW t, IsList(c.cache.rows),
           \E r \in ToSet(c.cache.rows) : r.focus = c.focus
    PROVE  LET frame == Render(c, t) IN
           \/ frame.lines = <<>>
           \/ /\ frame.cursor \in DOMAIN frame.lines
              /\ frame.lines[frame.cursor].row.focus = c.focus
<1> DEFINE frame == Render(c, t)
           rows == c.cache.rows
           at == LastPosition(rows, c.focus)
           height == ListHeight(c)
           from == ScrollOffset(at, Len(rows), height)
           drawn == SubSeq(rows, from + 1, Lesser(from + height, Len(rows)))
           lines == [i \in DOMAIN drawn |-> RowLine(c, drawn[i])]
<1>1. frame.lines = lines /\ frame.cursor = Monus(at, from)
  BY DEF Render
<1>2. at \in 1..Len(rows) /\ rows[at].focus = c.focus /\ Len(rows) \in Nat
  BY LastPositionIs, ListIs
<1>3. height \in Nat
  BY ListHeightIs
<1> HIDE DEF frame
<1>4. ASSUME height = 0
      PROVE  frame.lines = <<>>
  <2>1. from = 0 /\ Lesser(from + height, Len(rows)) = 0
    BY <1>2, <1>4 DEF ScrollOffset, Lesser
  <2>2. drawn = <<>>
    <3>1. SubSeq(rows, 1, 0) = <<>>
      BY SubSeqEmpty
    <3> QED
      BY <2>1, <3>1
  <2>3. lines = <<>>
    <3> HIDE DEF drawn
    <3>1. DOMAIN drawn = {}
      BY <2>2
    <3> QED
      BY <3>1
  <2> QED
    BY <1>1, <2>3
<1>5. ASSUME height # 0
      PROVE  frame.cursor \in DOMAIN frame.lines /\ frame.lines[frame.cursor].row.focus = c.focus
  <2>1. /\ from \in Nat /\ at > from /\ at - from \in DOMAIN drawn
        /\ drawn[at - from] = rows[at]
    BY <1>2, <1>3, <1>5, ScrolledIs
  <2>2. rows[at].focus = c.focus /\ at \in Nat
    BY <1>2
  <2> HIDE DEF at, from, drawn, rows
  <2>3. Monus(at, from) = at - from
    BY <2>1, <2>2 DEF Monus
  <2>4. lines[at - from].row = drawn[at - from] /\ DOMAIN lines = DOMAIN drawn
    BY <2>1 DEF RowLine
  <2> HIDE DEF lines
  <2> QED
    BY <1>1, <2>1, <2>2, <2>3, <2>4
<1> QED
  BY <1>4, <1>5 DEF frame

\* There is room for the choice that is highlighted.
LEMMA ChoiceIsDrawn ==
    ASSUME NEW modal, IsList(modal.choices), modal.selected \in 1..Len(modal.choices)
    PROVE  LET drawn == RenderCreateChoice(modal) IN
           /\ drawn.kind = "choice" /\ drawn.at \in DOMAIN drawn.choices
           /\ drawn.choices[drawn.at] = modal.choices[modal.selected]
<1> DEFINE count == Len(modal.choices)
           height == ModalHeight(count + 4)
           slots == IF height > 1 THEN height - 1 ELSE 1
           from == ScrollOffset(modal.selected, count, slots)
           drawn == RenderCreateChoice(modal)
           choices == SubSeq(modal.choices, from + 1, Lesser(from + slots, count))
<1>1. count \in Nat
  BY ListIs
<1>2. slots \in Nat /\ slots # 0
  <2>1. ScreenHeight \in Nat
    BY AppAssumption
  <2> HIDE DEF count
  <2>2. height \in Nat
    BY <1>1, <2>1 DEF ModalHeight, Monus, Lesser
  <2> HIDE DEF height
  <2> QED
    BY <2>2
<1>3. drawn.kind = "choice" /\ drawn.at = modal.selected - from /\ drawn.choices = choices
  BY DEF RenderCreateChoice
<1> HIDE DEF drawn, slots
<1>4. /\ modal.selected - from \in DOMAIN choices
      /\ choices[modal.selected - from] = modal.choices[modal.selected]
  BY <1>2, ScrolledIs
<1> QED
  BY <1>3, <1>4 DEF drawn

\* What a list that is longer begins with.
LEMMA BeginsWith ==
    ASSUME NEW s, IsList(s), NEW t, IsList(t)
    PROVE  /\ IsList(s \o t) /\ Len(s \o t) = Len(s) + Len(t)
           /\ \A i \in 1..Len(s) : (s \o t)[i] = s[i] /\ i \in 1..Len(s \o t)
           /\ \A i \in 1..Len(t) : (s \o t)[Len(s) + i] = t[i]
<1>1. IsList(s \o t)
  BY Joined
<1> DEFINE X == ToSet(s) \cup ToSet(t)
<1>2. s \in Seq(X) /\ t \in Seq(X)
  BY DEF IsList
<1> HIDE DEF X
<1>3. Len(s) \in Nat /\ Len(t) \in Nat /\ Len(s \o t) = Len(s) + Len(t)
  BY <1>2
<1>4. \A i \in 1..Len(s) : (s \o t)[i] = s[i] /\ i \in 1..Len(s \o t)
  BY <1>2, <1>3
<1>5. \A i \in 1..Len(t) : (s \o t)[Len(s) + i] = t[i]
  BY <1>2, <1>3
<1> QED
  BY <1>1, <1>3, <1>4, <1>5

\* There is room for the active field and for what is wrong, on a screen of four lines.
LEMMA FormIsDrawn ==
    ASSUME ScreenHeight >= 4, NEW modal, modal.field \in ToSet(Fields(modal.context)),
           ~modal.submitting
    PROVE  LET lines == ToSet(RenderCreateForm(modal).lines) IN
           /\ modal.field \in lines
           /\ modal.failed => "error" \in lines
<1> DEFINE height == ModalHeight(10)
           fields == Fields(modal.context)
           error == IF modal.failed THEN <<"error">> ELSE <<>>
           notice == IF modal.context.linked > 1 THEN <<"linked window">> ELSE <<>>
           footer == <<IF modal.submitting THEN "submitting" ELSE "keys">>
           all == ((fields \o notice) \o error) \o footer
           rest == Only(fields, {i \in DOMAIN fields : fields[i] # modal.field})
           active == <<modal.field>>
           first == (((active \o error) \o notice) \o footer) \o rest
           lines == RenderCreateForm(modal).lines
<1>1. lines = IF Len(all) <= height THEN all ELSE SubSeq(first, 1, height)
  BY DEF RenderCreateForm
<1>2. height \in Nat /\ height >= 2
  <2>1. ScreenHeight \in Nat
    BY AppAssumption
  <2> QED
    BY <2>1 DEF ModalHeight, Monus, Lesser
<1>3. IsList(fields) /\ IsList(active) /\ ToSet(active) = {modal.field}
  BY FieldsAre, Single
<1>4. /\ IsList(error) /\ (modal.failed => error = <<"error">> /\ "error" \in ToSet(error))
      /\ (~modal.failed => error = <<>>)
  BY Single, Lists
<1>5. IsList(notice) /\ IsList(footer) /\ footer # <<>>
  BY Single, Lists
<1>6. IsList(rest)
  BY <1>3, OnlyOf
<1>7. active # <<>> /\ Len(active) = 1 /\ active[1] = modal.field
  OBVIOUS
<1>8. modal.failed => Len(error) = 1 /\ error[1] = "error"
  <2>1. CASE modal.failed
    <3>1. error = <<"error">>
      BY <2>1
    <3> HIDE DEF error
    <3>2. Len(<<"error">>) = 1 /\ <<"error">>[1] = "error"
      OBVIOUS
    <3> QED
      BY <3>1, <3>2
  <2> QED
    BY <2>1
<1> HIDE DEF height, lines, fields, error, notice, footer, rest, active
<1>9. /\ IsList(all) /\ modal.field \in ToSet(all)
      /\ modal.failed => "error" \in ToSet(all)
  <2>1. IsList(fields \o notice) /\ ToSet(fields) \subseteq ToSet(fields \o notice)
    BY <1>3, <1>5, Joined
  <2>2. /\ IsList((fields \o notice) \o error)
        /\ ToSet((fields \o notice) \o error) = ToSet(fields \o notice) \cup ToSet(error)
    BY <1>4, <2>1, Joined
  <2>3. IsList(all) /\ ToSet((fields \o notice) \o error) \subseteq ToSet(all)
    BY <1>5, <2>2, Joined
  <2> HIDE DEF all
  <2> QED
    BY <1>4, <2>1, <2>2, <2>3 DEF fields
<1>10. /\ first[1] = modal.field /\ (modal.failed => first[2] = "error")
  <2> DEFINE x == active \o error
             y == x \o notice
             z == y \o footer
  <2>1. /\ IsList(x) /\ 1 \in 1..Len(x) /\ x[1] = modal.field
        /\ modal.failed => 2 \in 1..Len(x) /\ x[2] = "error"
    <3>1. Len(active) \in Nat /\ Len(error) \in Nat /\ 1 \in 1..Len(active)
      BY <1>3, <1>4, <1>7, ListIs
    <3>2. IsList(x) /\ Len(x) = Len(active) + Len(error) /\ x[1] = active[1]
      BY <1>3, <1>4, <3>1, BeginsWith
    <3>3. ASSUME modal.failed PROVE x[2] = "error" /\ Len(x) = 2
      <4>1. Len(error) = 1 /\ error[1] = "error"
        BY <1>8, <3>3, Zenon
      <4>2. 1 \in 1..Len(error)
        BY <4>1
      <4>3. \A i \in 1..Len(error) : x[Len(active) + i] = error[i]
        BY <1>3, <1>4, BeginsWith
      <4> HIDE DEF x
      <4> QED
        BY <1>7, <3>2, <4>1, <4>2, <4>3
    <3> HIDE DEF x
    <3> QED
      BY <1>7, <3>1, <3>2, <3>3
  <2> HIDE DEF x
  <2>2. /\ IsList(y) /\ 1 \in 1..Len(y) /\ y[1] = modal.field
        /\ modal.failed => 2 \in 1..Len(y) /\ y[2] = "error"
    BY <1>5, <2>1, BeginsWith
  <2> HIDE DEF y
  <2>3. /\ IsList(z) /\ 1 \in 1..Len(z) /\ z[1] = modal.field
        /\ modal.failed => 2 \in 1..Len(z) /\ z[2] = "error"
    BY <1>5, <2>2, BeginsWith
  <2>4. first = z \o rest
    BY DEF x, y
  <2> HIDE DEF z, first
  <2> QED
    BY <1>6, <2>3, <2>4, BeginsWith
<1>11. ASSUME ~(Len(all) <= height)
       PROVE  /\ modal.field \in ToSet(lines)
              /\ modal.failed => "error" \in ToSet(lines)
  <2> DEFINE X == {first[i] : i \in 1..height}
             some == SubSeq(first, 1, height)
  <2>1. some \in Seq(X) /\ Len(some) = height /\ \A i \in 1..height : some[i] = first[i]
    <3>1. \A i \in 1..height : first[i] \in X
      OBVIOUS
    <3> HIDE DEF X, first
    <3>2. 1 \in Int /\ height \in Int
      BY <1>2
    <3>3. /\ some \in Seq(X)
          /\ Len(some) = (IF 1 <= height THEN height - 1 + 1 ELSE 0)
          /\ \A i \in 1..(height - 1 + 1) : some[i] = first[1 + i - 1]
      BY <3>1, <3>2, SubSeqProperties
    <3> HIDE DEF some
    <3> QED
      BY <1>2, <3>3
  <2>2. lines = some
    BY <1>1, <1>11
  <2> HIDE DEF X, some, first
  <2>3. 1 \in DOMAIN some /\ 2 \in DOMAIN some /\ some[1] = first[1] /\ some[2] = first[2]
    BY <1>2, <2>1
  <2> QED
    BY <1>10, <2>2, <2>3 DEF ToSet
<1> HIDE DEF all, first
<1>12. modal.field \in ToSet(lines) /\ (modal.failed => "error" \in ToSet(lines))
  BY <1>1, <1>9, <1>11
<1> QED
  BY <1>12 DEF lines

\* What is on the screen is of the state: the rows that are shown and the dialog.
LEMMA ScreenIs ==
    ASSUME ScreenInv, ~app.quit
    PROVE  \E c : /\ SameFrame(screen, Render(c, now)) /\ c.cache.rows = ShownRows(app)
                  /\ c.focus = app.focus /\ c.modal = app.modal
<1> DEFINE b == [app EXCEPT !.cache = NoCache]
           c == Cached(b)
<1>1. StateOK(app) /\ SameFrame(screen, Render(c, now))
  BY DEF ScreenInv, FreshFrame
<1>2. /\ DOMAIN b = AppFields /\ b.modal = app.modal /\ b.cache = NoCache
      /\ b.model = app.model /\ b.grouped = app.grouped /\ b.query = app.query
      /\ b.collapsed = app.collapsed /\ View(b) = View(app)
  BY <1>1 DEF AppFields, StateOK, View
<1> HIDE DEF b
<1>3. StateOK(b)
  BY <1>1, <1>2 DEF StateOK, CacheTrue, NoCache
<1>4. ShownRows(b) = ShownRows(app)
  BY <1>2, SameShownRows
<1>5. View(c) = View(app) /\ c.cache.rows = ShownRows(app)
  BY <1>2, <1>3, <1>4, CachedOK
<1>6. c.focus = app.focus /\ c.modal = app.modal
  BY <1>5 DEF View
<1> QED
  BY <1>1, <1>5, <1>6

\* The focus is a row that is shown.
LEMMA FocusShown ==
    ASSUME Sound(app), app.focus # NoFocus, ~FocusIsHidden
    PROVE  \E r \in ToSet(ShownRows(app)) : r.focus = app.focus
<1>1. /\ \E r \in ToSet(RankedRows(app.model, app.grouped, app.query)) : r.focus = app.focus
      /\ ModelOK(app.model)
      /\ app.focus.kind = "pane" => ~SessionIsCollapsed(app, app.focus.session)
  BY DEF Sound, FocusOK, Base, Fits, FocusIsHidden
<1> QED
  BY <1>1, ShownIs

\* It is highlighted.
LEMMA CursorShown ==
    ASSUME Sound(app), ScreenInv, ~app.quit, app.focus # NoFocus, ~FocusIsHidden,
           screen.lines # <<>>
    PROVE  /\ screen.cursor \in DOMAIN screen.lines
           /\ screen.lines[screen.cursor].row.focus = app.focus
<1>1. PICK c : /\ SameFrame(screen, Render(c, now)) /\ c.cache.rows = ShownRows(app)
               /\ c.focus = app.focus
  BY ScreenIs
<1>2. IsList(c.cache.rows) /\ \E r \in ToSet(c.cache.rows) : r.focus = c.focus
  BY <1>1, FocusShown, ShownIs DEF Sound, FocusOK, Base
<1> DEFINE frame == Render(c, now)
<1>3. screen.lines = frame.lines /\ screen.cursor = frame.cursor
  BY <1>1, FrameIs
<1>4. \/ frame.lines = <<>>
      \/ /\ frame.cursor \in DOMAIN frame.lines
         /\ frame.lines[frame.cursor].row.focus = c.focus
  BY <1>2, CursorIs
<1> HIDE DEF frame
<1> QED
  BY <1>1, <1>3, <1>4

\* The dialog is drawn.
LEMMA ModalShown ==
    ASSUME ScreenInv, ~app.quit
    PROVE  screen.modal = RenderModal(app.modal)
<1>1. PICK c : SameFrame(screen, Render(c, now)) /\ c.modal = app.modal
  BY ScreenIs
<1>2. screen.modal = Render(c, now).modal
  BY <1>1, FrameIs
<1>3. Render(c, now).modal = RenderModal(c.modal)
  BY DEF Render
<1> QED
  BY <1>1, <1>2, <1>3

\* What the invariants say of the focus and of dialogs is what is wanted.
LEMMA FocusInvIs ==
    ASSUME ScreenHeight >= 4, FocusInv, ScreenInv
    PROVE  FocusOnScreen
<1>1. Sound(app) /\ DialogGood(app.modal) /\ Synced(app)
  BY DEF FocusInv, Sound, FocusOK, Base
<1>2. \/ app.focus = NoFocus
      \/ FocusIsHidden
      \/ \E r \in ToSet(ShownRows(app)) : r.focus = app.focus
  BY <1>1, FocusShown
<1>3. \/ app.quit \/ app.focus = NoFocus \/ FocusIsHidden \/ screen.lines = <<>>
      \/ /\ screen.cursor \in DOMAIN screen.lines
         /\ screen.lines[screen.cursor].row.focus = app.focus
  BY <1>1, CursorShown
<1>4. ASSUME ~app.quit, app.modal.kind = "choice"
      PROVE  screen.modal.choices[screen.modal.at] = app.modal.choices[app.modal.selected]
  <2> DEFINE drawn == RenderCreateChoice(app.modal)
  <2>1. screen.modal = drawn
    BY <1>4, ModalShown DEF RenderModal
  <2>2. drawn.choices[drawn.at] = app.modal.choices[app.modal.selected]
    BY <1>1, <1>4, ChoiceIsDrawn DEF DialogGood
  <2> QED
    BY <2>1, <2>2
<1>5. ASSUME ~app.quit, app.modal.kind = "form", ~app.modal.submitting
      PROVE  {app.modal.field} \cup (IF app.modal.failed THEN {"error"} ELSE {})
                 \subseteq ToSet(screen.modal.lines)
  <2> DEFINE lines == ToSet(RenderCreateForm(app.modal).lines)
  <2>1. screen.modal = RenderCreateForm(app.modal)
    BY <1>4, <1>5, ModalShown DEF RenderModal
  <2>2. app.modal.field \in lines /\ (app.modal.failed => "error" \in lines)
    BY <1>1, <1>5, FormIsDrawn DEF DialogGood
  <2> QED
    BY <2>1, <2>2
<1>6. app.selection = (IF app.focus.kind = "pane" THEN app.focus ELSE NoFocus)
  BY <1>1 DEF Synced
<1> QED
  BY <1>2, <1>3, <1>4, <1>5, <1>6 DEF FocusOnScreen

\* On a screen of four lines or more, whatever changes the rows, the focus is one of
\* them, its row is among the lines drawn, the highlighted choice among the choices,
\* and the field that is typed into and what is wrong with it in the form.
THEOREM FocusAlwaysOnScreen == ASSUME ScreenHeight >= 4 PROVE Spec => []FocusOnScreen
<1>1. Spec => []FocusInv
  BY FocusBegins, FocusStays, PTL DEF Spec
<1>2. Spec => []ScreenInv
  BY Opened, StepKeepsScreenInv, PTL DEF Spec
<1>3. FocusInv /\ ScreenInv => FocusOnScreen
  BY FocusInvIs
<1> QED
  BY <1>1, <1>2, <1>3, PTL

-----------------------------------------------------------------------------
(* Commands                                                                 *)

\* A command that names nothing.
Silent(result) == result.effect.kind \in {"none", "quit", "group"}

\* The parts of a command.
LEMMA EffectIs ==
    /\ \A kind, target : Effect(kind, target).kind = kind /\ Effect(kind, target).target = target
    /\ NoEffect.kind = "none"
BY DEF Effect, NoEffect

\* The command of a result.
LEMMA EffectOf ==
    /\ \A a, changed, command : Give(a, changed, command).effect = command
    /\ \A a : Redrawn(a).effect = NoEffect /\ Quiet(a).effect = NoEffect
BY DEF Give, Redrawn, Quiet

\* The results that name nothing.
LEMMA SilentIs ==
    /\ \A a : Silent(Redrawn(a)) /\ Silent(Quiet(a))
    /\ \A a, changed : Silent(Give(a, changed, NoEffect))
    /\ \A a, changed, target : /\ Silent(Give(a, changed, Effect("quit", target)))
                               /\ Silent(Give(a, changed, Effect("group", target)))
BY EffectIs, EffectOf DEF Silent

\* A result that is drawn and gives a command.
Given(a, command) == Give(a, TRUE, command)

\* Its command is the one given.
LEMMA EffectGiven ==
    ASSUME NEW a, NEW command
    PROVE  Given(a, command).effect = command
BY DEF Given, Give

\* Without one it names nothing.
LEMMA SilentGiven ==
    ASSUME NEW a
    PROVE  Silent(Given(a, NoEffect))
BY EffectGiven, EffectIs DEF Silent

\* What a key names is what is there: the pane of the dialog, the context of the form
\* or the focus.
Named(a, command) ==
    /\ command.kind \in {"send", "kill"} =>
           a.modal.kind = command.kind /\ command.target = a.modal.pane
    /\ command.kind = "create" => a.modal.kind = "form" /\ command.target = a.modal.context
    /\ command.kind \in {"jump", "attach"} => command.target = a.focus /\ a.focus # NoFocus

\* What names nothing names nothing wrong.
LEMMA SilentNamed ==
    ASSUME NEW a, NEW result, Silent(result)
    PROVE  Named(a, result.effect)
BY DEF Silent, Named

\* Keys of the dialogs.
LEMMA SendKeyNames ==
    ASSUME NEW a, a.modal.kind = "send", NEW key
    PROVE  Named(a, SendKey(a, key).effect)
<1> DEFINE pane == a.modal.pane
           text == a.modal.text
           closed == [a EXCEPT !.modal = NoModal]
           shorter == [a EXCEPT !.modal = Send(pane, text - 1)]
           longer == [a EXCEPT !.modal = Send(pane, text + 1)]
           result == SendKey(a, key)
<1>1. \/ result \in {Redrawn(closed), Redrawn(shorter), Redrawn(longer), Quiet(a)}
      \/ result = Give(closed, TRUE, IF text = 0 THEN NoEffect ELSE Effect("send", pane))
  <2>1. CASE key = "Esc"
    BY <2>1 DEF SendKey, Plain
  <2>2. CASE key = "Enter"
    BY <2>2 DEF SendKey, Plain
  <2>3. CASE key = "Backspace"
    BY <2>3 DEF SendKey, Plain
  <2>4. CASE key \notin {"Esc", "Enter", "Backspace"}
    BY <2>4 DEF SendKey
  <2> QED
    BY <2>1, <2>2, <2>3, <2>4
<1> HIDE DEF closed, shorter, longer, result
<1>2. Silent(result) \/ result.effect = Effect("send", pane)
  <2>1. CASE result \in {Redrawn(closed), Redrawn(shorter), Redrawn(longer), Quiet(a)}
    BY <2>1, SilentIs
  <2>2. CASE result = Give(closed, TRUE, IF text = 0 THEN NoEffect ELSE Effect("send", pane))
    <3>1. CASE text = 0
      <4>1. result = Given(closed, NoEffect)
        BY <2>2, <3>1 DEF Given
      <4> QED
        BY <4>1, SilentGiven
    <3>2. CASE text # 0
      <4>1. result = Given(closed, Effect("send", pane))
        BY <2>2, <3>2 DEF Given
      <4> QED
        BY <4>1, EffectGiven
    <3> QED
      BY <3>1, <3>2
  <2> QED
    BY <1>1, <2>1, <2>2
<1>3. Named(a, Effect("send", pane))
  BY EffectIs DEF Named
<1> QED
  BY <1>2, <1>3, SilentNamed DEF result

\* The answer to the question whether to kill.
LEMMA KillKeyNames ==
    ASSUME NEW a, a.modal.kind = "kill", NEW key
    PROVE  Named(a, KillKey(a, key).effect)
<1> DEFINE closed == [a EXCEPT !.modal = NoModal]
           command == IF key = "y" THEN Effect("kill", a.modal.pane) ELSE NoEffect
<1>1. KillKey(a, key).effect = NoEffect \/ KillKey(a, key).effect = Effect("kill", a.modal.pane)
  <2>1. KillKey(a, key) = Given(closed, command)
    BY DEF KillKey, Given
  <2>2. Given(closed, command).effect = command
    BY EffectGiven
  <2> QED
    BY <2>1, <2>2
<1>2. Named(a, Effect("kill", a.modal.pane)) /\ Named(a, NoEffect)
  BY EffectIs DEF Named
<1> QED
  BY <1>1, <1>2

\* A form that is sent.
LEMMA FormKeyNames ==
    ASSUME NEW a, a.modal.kind = "form", NEW key, NEW valid \in BOOLEAN
    PROVE  Named(a, FormKey(a, key, valid).effect)
<1> DEFINE result == FormKey(a, key, valid)
<1>1. result \in {Redrawn(FormClosed(a)), Redrawn(FormWrong(a)), Redrawn(FormMoved(a, key)),
                  Redrawn(a), Quiet(a),
                  Given(FormSent(a), Effect("create", a.modal.context))}
  BY FormKeyIs DEF Given
<1> HIDE DEF result
<1>2. Silent(result) \/ result.effect = Effect("create", a.modal.context)
  BY <1>1, SilentIs, EffectGiven
<1>3. Named(a, Effect("create", a.modal.context))
  BY EffectIs DEF Named
<1> QED
  BY <1>2, <1>3, SilentNamed DEF result

\* A choice gives no command.
LEMMA ChoiceKeySilent ==
    ASSUME NEW a, NEW key
    PROVE  Silent(ChoiceKey(a, key))
<1> DEFINE result == ChoiceKey(a, key)
<1>1. \E b : result \in {Redrawn(b), Quiet(b)}
  <2>1. CASE key = "Esc"
    BY <2>1 DEF ChoiceKey
  <2>2. CASE key = "j"
    BY <2>2 DEF ChoiceKey
  <2>3. CASE key = "k"
    BY <2>3 DEF ChoiceKey
  <2>4. CASE key = "Enter"
    BY <2>4 DEF ChoiceKey
  <2>5. CASE key \notin {"Esc", "j", "k", "Enter"}
    BY <2>5 DEF ChoiceKey
  <2> QED
    BY <2>1, <2>2, <2>3, <2>4, <2>5
<1> HIDE DEF result
<1> QED
  BY <1>1, SilentIs DEF result

\* Keys of all dialogs.
LEMMA ModalKeyNames ==
    ASSUME NEW a, StateOK(a), a.modal # NoModal, NEW key, NEW valid \in BOOLEAN
    PROVE  Named(a, ModalKey(a, key, valid).effect)
<1> DEFINE result == ModalKey(a, key, valid)
<1>1. \/ result \in {Quiet(a), Redrawn([a EXCEPT !.modal = NoModal])}
      \/ a.modal.kind = "send" /\ result = SendKey(a, key)
      \/ a.modal.kind = "kill" /\ result = KillKey(a, key)
      \/ a.modal.kind = "choice" /\ result = ChoiceKey(a, key)
      \/ a.modal.kind = "form" /\ result = SubmittingKey(a, key)
      \/ a.modal.kind = "form" /\ result = FormKey(a, key, valid)
  BY ModalKeyIs
<1>2. Silent(SubmittingKey(a, key))
  BY SilentIs DEF SubmittingKey
<1> HIDE DEF result
<1> QED
  BY <1>1, <1>2, SilentIs, SilentNamed, SendKeyNames, KillKeyNames, ChoiceKeySilent, FormKeyNames
     DEF result

\* Keys of the list.
LEMMA OpeningIsSilent ==
    ASSUME NEW a
    PROVE  /\ Silent(OpenSendModal(a)) /\ Silent(OpenKillModal(a)) /\ Silent(OpenCreateModal(a))
           /\ \A c, index : Silent(GoTo(c, index))
           /\ \A c, down : Silent(MoveFocus(c, down))
           /\ \A collapse : Silent(SetCollapsed(a, collapse))
           /\ Silent(ToggleCollapsed(a)) /\ Silent(ToggleMode(a))
<1>1. Silent(SelectAPane(a))
  BY SilentIs DEF SelectAPane
<1>2. Silent(OpenSendModal(a)) /\ Silent(OpenKillModal(a)) /\ Silent(OpenCreateModal(a))
  BY <1>1, SilentIs DEF OpenSendModal, OpenKillModal, OpenCreateModal
<1>3. \A c, index : Silent(GoTo(c, index))
  BY SilentIs DEF GoTo
<1>4. \A c, down : Silent(MoveFocus(c, down))
  BY <1>3 DEF MoveFocus
<1>5. \A collapse : Silent(SetCollapsed(a, collapse))
  BY SilentIs DEF SetCollapsed
<1>6. Silent(ToggleCollapsed(a)) /\ Silent(ToggleMode(a))
  BY <1>5, SilentIs DEF ToggleCollapsed, ToggleMode
<1> QED
  BY <1>2, <1>3, <1>4, <1>5, <1>6

\* Enter on a row.
LEMMA EmitJumpNames ==
    ASSUME NEW a, NEW zoom \in BOOLEAN
    PROVE  Named(a, EmitJump(a, zoom).effect)
<1> DEFINE result == EmitJump(a, zoom)
           b == [a EXCEPT !.pending = [NoPending EXCEPT !.state = "creating"], !.attach = TRUE]
<1>1. CASE a.focus.kind \in {"pane", "header"}
  <2>1. result = Given(a, Effect("jump", a.focus))
    BY <1>1 DEF EmitJump, Given
  <2>2. Named(a, Effect("jump", a.focus))
    BY <1>1, EffectIs, Kinds DEF Named
  <2> HIDE DEF result
  <2> QED
    BY <2>1, <2>2, EffectGiven DEF result
<1>2. CASE a.focus.kind = "headless"
  <2>1. result = Given(b, Effect("attach", a.focus)) \/ result = Quiet(a)
    BY <1>2 DEF EmitJump, Given
  <2>2. Named(a, Effect("attach", a.focus))
    BY <1>2, EffectIs, Kinds DEF Named
  <2> HIDE DEF result, b
  <2> QED
    BY <2>1, <2>2, EffectGiven, SilentIs, SilentNamed DEF result
<1>3. CASE a.focus.kind \notin {"pane", "header", "headless"}
  <2>1. result = Quiet(a)
    BY <1>3 DEF EmitJump
  <2> QED
    BY <2>1, SilentIs, SilentNamed
<1> QED
  BY <1>1, <1>2, <1>3

\* Keys of the list.
LEMMA NavigationKeyNames ==
    ASSUME NEW a, NEW key
    PROVE  Named(a, NavigationKey(a, key).effect)
<1> DEFINE result == NavigationKey(a, key)
           c == Cached(a)
           typing == [a EXCEPT !.typing = TRUE]
           waiting == [a EXCEPT !.zKey = TRUE]
           over == [a EXCEPT !.quit = TRUE]
<1>1. \/ \E zoom \in BOOLEAN : result = EmitJump(a, zoom)
      \/ \E index : result = GoTo(c, index)
      \/ \E down : result = MoveFocus(c, down)
      \/ \E collapse : result = SetCollapsed(a, collapse)
      \/ result \in {ToggleMode(a), OpenKillModal(a), OpenCreateModal(a), Quiet(a)}
      \/ result = Redrawn(typing)
      \/ result = Quiet(waiting)
      \/ result = Give(over, TRUE, Effect("quit", NoFocus))
  BY NavigationKeyIs
<1> HIDE DEF result, c, typing, waiting, over
<1>2. (\E zoom \in BOOLEAN : result = EmitJump(a, zoom)) \/ Silent(result)
  BY <1>1, SilentIs, OpeningIsSilent
<1> QED
  BY <1>2, EmitJumpNames, SilentNamed DEF result

\* Whatever is open, a key names what is there.
LEMMA ReduceKeyNames ==
    ASSUME NEW a, StateOK(a), NEW key, NEW valid \in BOOLEAN
    PROVE  Named(a, ReduceKey(a, key, valid).effect)
<1> DEFINE b == [a EXCEPT !.zKey = FALSE]
           helped == Redrawn([a EXCEPT !.modal = Help])
           result == ReduceKey(a, key, valid)
<1>1. \/ a.modal # NoModal /\ result = ModalKey(a, key, valid)
      \/ result \in {OpenSendModal(a), FilterKey(a, key), NavigationKey(a, key)}
      \/ result \in {helped, ToggleCollapsed(b), Quiet(b)}
  BY ReduceKeyIs
<1>2. Silent(FilterKey(a, key))
  BY FilterKeyIs, SilentIs
<1>3. Silent(helped) /\ Silent(ToggleCollapsed(b)) /\ Silent(Quiet(b)) /\ Silent(OpenSendModal(a))
  BY SilentIs, OpeningIsSilent
<1> HIDE DEF b, helped, result
<1> QED
  BY <1>1, <1>2, <1>3, SilentNamed, ModalKeyNames, NavigationKeyNames DEF result

\* A form is drawn as a form, with its context.
LEMMA FormKind ==
    ASSUME NEW modal
    PROVE  /\ RenderCreateForm(modal).kind = "form"
           /\ RenderCreateForm(modal).context = modal.context
BY Zenon DEF RenderCreateForm

\* What a key names is on the screen.
LEMMA NamedIsShown ==
    ASSUME Sound(app), ScreenInv, ~app.quit, NEW command, Named(app, command)
    PROVE  IsShown(command)
<1>1. screen.modal = RenderModal(app.modal)
  BY ModalShown
<1>2. CASE command.kind \in {"send", "kill"}
  <2>1. app.modal.kind = command.kind /\ app.modal.pane = command.target
    BY <1>2 DEF Named
  <2>2. screen.modal = app.modal
    BY <1>1, <1>2, <2>1 DEF RenderModal
  <2> QED
    BY <1>2, <2>1, <2>2 DEF IsShown
<1>3. CASE command.kind = "create"
  <2>1. app.modal.kind = "form" /\ command.target = app.modal.context
    BY <1>3 DEF Named
  <2>2. screen.modal = RenderCreateForm(app.modal)
    BY <1>1, <2>1 DEF RenderModal
  <2>3. screen.modal.kind = "form" /\ screen.modal.context = app.modal.context
    BY <2>2, FormKind
  <2> QED
    BY <1>3, <2>1, <2>3 DEF IsShown
<1>4. CASE command.kind \in {"jump", "attach"}
  <2>1. command.target = app.focus /\ app.focus # NoFocus
    BY <1>4 DEF Named
  <2>2. \/ FocusIsHidden \/ screen.lines = <<>>
        \/ /\ screen.cursor \in DOMAIN screen.lines
           /\ screen.lines[screen.cursor].row.focus = command.target
    BY <2>1, CursorShown
  <2> QED
    BY <1>4, <2>2 DEF IsShown
<1>5. CASE command.kind \notin {"send", "kill", "create", "jump", "attach"}
  BY <1>5 DEF IsShown
<1> QED
  BY <1>2, <1>3, <1>4, <1>5

\* Only keys are counted as keys.
Counts == DOMAIN left = {"keys", "updates"}

\* What is spent on updates is not spent on keys.
LEMMA SpendKeeps ==
    ASSUME Counts, NEW result
    PROVE  /\ Spend("updates", result) => left'.keys = left.keys /\ Counts'
           /\ Spend("keys", result) => Counts'
BY DEF Counts, Spend

\* Every step of the loop keeps the count, and only a key changes that of keys.
LEMMA KeysAreCounted ==
    ASSUME Counts, [Next]_vars
    PROVE  /\ Counts'
           /\ \/ left'.keys = left.keys
              \/ \E key \in Keys, valid \in BOOLEAN : Press(key, valid)
<1>1. ASSUME NEW key \in Keys, NEW valid \in BOOLEAN, Press(key, valid)
      PROVE  Counts'
  BY <1>1, SpendKeeps DEF Press
<1>2. CASE SnapshotArrives
  BY <1>2, SpendKeeps DEF SnapshotArrives
<1>3. CASE SnapshotFails
  BY <1>3, SpendKeeps DEF SnapshotFails
<1>4. CASE HeadlessArrives
  BY <1>4, SpendKeeps DEF HeadlessArrives
<1>5. CASE UNCHANGED left
  BY <1>5 DEF Counts
<1> QED
  BY <1>1, <1>2, <1>3, <1>4, <1>5 DEF Next, TimePasses, Tick, CreationProgresses, vars

\* Whatever came since a dialog was opened or the row was highlighted, the command that
\* a key gives names what the screen shows when the key is pressed.
THEOREM AlwaysActsOnWhatIsShown == Spec => ActsOnWhatIsShown
<1>1. FocusInv /\ ScreenInv /\ Counts /\ [Next]_vars =>
          [left'.keys # left.keys => IsShown(effect')]_vars
  <2> SUFFICES ASSUME FocusInv, ScreenInv, Counts, [Next]_vars, left'.keys # left.keys
               PROVE  IsShown(effect')
    OBVIOUS
  <2>1. PICK key \in Keys, valid \in BOOLEAN : Press(key, valid)
    BY KeysAreCounted
  <2>2. ~app.quit /\ effect' = ReduceKey(app, key, valid).effect
    BY <2>1 DEF Press, Running, Apply
  <2>3. Sound(app)
    BY DEF FocusInv
  <2>4. Named(app, effect')
    BY <2>2, <2>3, ReduceKeyNames DEF Sound
  <2> QED
    BY <2>2, <2>3, <2>4, NamedIsShown
<1>2. Init => Counts
  BY DEF Init, Counts
<1>3. Counts /\ [Next]_vars => Counts'
  BY KeysAreCounted
<1> QED
  BY <1>1, <1>2, <1>3, FocusBegins, FocusStays, Opened, StepKeepsScreenInv, PTL
     DEF Spec, ActsOnWhatIsShown

-----------------------------------------------------------------------------
(* Ages                                                                     *)

\* What a quotient is.
LEMMA Quotient ==
    ASSUME NEW x \in Nat, NEW unit \in Nat \ {0}
    PROVE  /\ x \div unit \in Nat /\ (x \div unit) * unit <= x
           /\ x < (x \div unit + 1) * unit
OBVIOUS

\* Nothing else is that quotient.
LEMMA SameQuotient ==
    ASSUME NEW x \in Nat, NEW y \in Nat, NEW unit \in Nat \ {0}, x <= y,
           y < (x \div unit + 1) * unit
    PROVE  y \div unit = x \div unit
<1> DEFINE p == x \div unit
           q == y \div unit
<1>1. p \in Nat /\ p * unit <= x /\ q \in Nat /\ q * unit <= y /\ y < (q + 1) * unit
  BY Quotient
<1> HIDE DEF p, q
<1>2. y < (p + 1) * unit
  BY DEF p
<1>3. p * unit < (q + 1) * unit /\ q * unit < (p + 1) * unit
  BY <1>1, <1>2
<1>4. ASSUME NEW i \in Nat, NEW j \in Nat, i * unit < (j + 1) * unit
      PROVE  i <= j
  <2>1. ASSUME i >= j + 1
        PROVE  FALSE
    <3>1. PICK k \in Nat : i = j + 1 + k
      BY <2>1
    <3>2. i * unit = (j + 1) * unit + k * unit /\ k * unit >= 0
      BY <3>1
    <3> QED
      BY <1>4, <3>2
  <2> QED
    BY <2>1
<1>5. p <= q /\ q <= p
  BY <1>1, <1>3, <1>4
<1> QED
  BY <1>1, <1>5 DEF p, q

\* What is below a multiple of the unit is so by a whole unit.
LEMMA WholeUnits ==
    ASSUME NEW x \in Nat, NEW unit \in Nat \ {0}, NEW larger \in Nat \ {0},
           larger % unit = 0, x < larger
    PROVE  (x \div unit + 1) * unit <= larger
<1> DEFINE p == x \div unit
           q == larger \div unit
<1>1. p \in Nat /\ q \in Nat /\ p * unit <= x /\ larger = q * unit
  BY Quotient
<1> HIDE DEF p, q
<1>2. p + 1 <= q
  <2>1. ASSUME p >= q
        PROVE  FALSE
    <3>1. PICK k \in Nat : p = q + k
      BY <1>1, <2>1
    <3>2. p * unit = q * unit + k * unit /\ k * unit >= 0
      BY <1>1, <3>1
    <3> QED
      BY <1>1, <3>2
  <2> QED
    BY <1>1, <2>1
<1>3. PICK k \in Nat : q = p + 1 + k
  BY <1>1, <1>2
<1>4. q * unit = (p + 1) * unit + k * unit /\ k * unit >= 0
  BY <1>1, <1>3
<1> QED
  BY <1>1, <1>4 DEF p

\* The units of ages, and the times that they are of.
LEMMA Units ==
    /\ Minute \in Nat \ {0} /\ Hour \in Nat \ {0} /\ Day \in Nat \ {0}
    /\ Hour % Minute = 0 /\ Day % Hour = 0
    /\ Never \in Nat
    /\ \A t \in Times \ {Never} : t \in Nat /\ t + Day < Never
BY AppAssumption DEF Times

\* Each unit is no less than the one before.
LEMMA UnitsGrow == Minute <= Hour /\ Hour <= Day
<1>1. ASSUME NEW x \in Nat \ {0}, NEW y \in Nat \ {0}, y % x = 0
      PROVE  x <= y
  BY <1>1
<1> QED
  BY <1>1, Units

\* The next boundary of an age comes later, and before Never.
LEMMA BoundaryIs ==
    ASSUME NEW since \in Times \ {Never}, NEW time \in Times \ {Never}
    PROVE  NextAgeBoundary(since, time) \in Nat /\ NextAgeBoundary(since, time) < Never
<1> DEFINE age == Elapsed(since, time)
           unit == IF age < Minute THEN 1 ELSE IF age < Hour THEN Minute
                   ELSE IF age < Day THEN Hour ELSE Day
           steps == age \div unit
<1>1. /\ since \in Nat /\ since + Day < Never /\ time \in Nat /\ time + Day < Never
      /\ Never \in Nat
  BY Units
<1>2. age \in Nat /\ (since + age = time \/ age = 0)
  BY <1>1 DEF Elapsed
<1>3. Minute <= Hour /\ Hour <= Day
  BY UnitsGrow
<1> HIDE DEF age
<1>4. unit \in Nat \ {0} /\ unit <= Day
  BY <1>2, <1>3, Units
<1>5. NextAgeBoundary(since, time) = since + (steps + 1) * unit
  BY DEF NextAgeBoundary, age
<1> HIDE DEF unit
<1>6. steps \in Nat /\ steps * unit <= age
  BY <1>2, <1>4, Quotient
<1> HIDE DEF steps
<1>7. (steps + 1) * unit = steps * unit + unit /\ steps * unit \in Nat
  BY <1>4, <1>6
<1>8. (steps + 1) * unit \in Nat /\ (steps + 1) * unit <= age + Day
  BY <1>2, <1>4, <1>6, <1>7, Units
<1> HIDE DEF age
<1>9. since + age + Day < Never
  BY <1>1, <1>2, Units
<1> QED
  BY <1>1, <1>2, <1>5, <1>8, <1>9, Units

\* How an age is shown.
ShownAge(age) ==
    CASE age >= Day -> <<"d", age \div Day>>
      [] age >= Hour /\ age < Day -> <<"h", age \div Hour>>
      [] age >= Minute /\ age < Hour -> <<"m", age \div Minute>>
      [] age < Minute -> <<"s", age>>

\* The unit that is shown.
LEMMA ShownAgeIs ==
    ASSUME NEW age \in Nat
    PROVE  /\ age >= Day => ShownAge(age) = <<"d", age \div Day>>
           /\ age >= Hour /\ age < Day => ShownAge(age) = <<"h", age \div Hour>>
           /\ age >= Minute /\ age < Hour => ShownAge(age) = <<"m", age \div Minute>>
BY Units, UnitsGrow DEF ShownAge

\* A known time is shown by its age.
LEMMA FormatAgeIs ==
    ASSUME NEW since, since # Never, NEW time, Elapsed(since, time) \in Nat
    PROVE  FormatAge(since, time) = ShownAge(Elapsed(since, time))
<1> DEFINE age == Elapsed(since, time)
<1> HIDE DEF age
<1>1. FormatAge(since, time) =
          CASE since = Never -> <<"-", 0>>
            [] since # Never /\ age >= Day -> <<"d", age \div Day>>
            [] since # Never /\ age >= Hour /\ age < Day -> <<"h", age \div Hour>>
            [] since # Never /\ age >= Minute /\ age < Hour -> <<"m", age \div Minute>>
            [] since # Never /\ age < Minute -> <<"s", age>>
  BY DEF FormatAge, age
<1>2. age \in Nat
  BY DEF age
<1>3. CASE age >= Day
  BY <1>1, <1>2, <1>3, Units, UnitsGrow DEF ShownAge, age
<1>4. CASE age >= Hour /\ age < Day
  BY <1>1, <1>2, <1>4, Units, UnitsGrow DEF ShownAge, age
<1>5. CASE age >= Minute /\ age < Hour
  BY <1>1, <1>2, <1>5, Units, UnitsGrow DEF ShownAge, age
<1>6. CASE age < Minute
  BY <1>1, <1>2, <1>6, Units, UnitsGrow DEF ShownAge, age
<1> QED
  BY <1>2, <1>3, <1>4, <1>5, <1>6, Units

\* Until its next boundary an age is shown the same.
LEMMA AgeHolds ==
    ASSUME NEW since \in Times \ {Never}, NEW time \in Times \ {Never}, NEW later \in Nat,
           time <= later, later < NextAgeBoundary(since, time)
    PROVE  FormatAge(since, later) = FormatAge(since, time)
<1> DEFINE age == Elapsed(since, time)
           old == Elapsed(since, later)
           unit == IF age < Minute THEN 1 ELSE IF age < Hour THEN Minute
                   ELSE IF age < Day THEN Hour ELSE Day
<1>1. since \in Nat /\ time \in Nat /\ since # Never
  BY Units
<1>2. age \in Nat /\ old \in Nat /\ age <= old
  BY <1>1 DEF Elapsed
<1>3. later < since + (age \div unit + 1) * unit
  BY DEF NextAgeBoundary
<1>4. (old = 0 /\ age = 0) \/ old < (age \div unit + 1) * unit
  <2> DEFINE next == (age \div unit + 1) * unit
  <2> HIDE DEF age, unit
  <2>1. next \in Nat \/ later < since + next
    BY <1>3
  <2>2. next \in Int
    <3>1. unit \in Nat \ {0}
      BY Units DEF unit
    <3>2. age \div unit \in Nat
      BY <1>2, <3>1, Quotient
    <3> QED
      BY <3>1, <3>2
  <2> HIDE DEF next
  <2>3. later < since + next
    BY <1>3 DEF next
  <2> QED
    BY <1>1, <1>2, <2>2, <2>3 DEF Elapsed, old, age, next
<1>5. /\ FormatAge(since, time) = ShownAge(age) /\ FormatAge(since, later) = ShownAge(old)
  BY <1>1, <1>2, FormatAgeIs
<1>6. CASE age < Minute
  <2>1. unit = 1 /\ age \div 1 = age
    BY <1>2, <1>6
  <2> HIDE DEF age, old
  <2>2. old = age
    BY <1>2, <1>4, <2>1
  <2> QED
    BY <1>5, <2>2
<1>7. CASE age >= Minute /\ age < Hour
  <2>1. unit = Minute
    BY <1>2, <1>7, Units
  <2> HIDE DEF age, old, unit
  <2>2. old < (age \div Minute + 1) * Minute
    BY <1>2, <1>4, <1>7, <2>1, Units
  <2>3. old \div Minute = age \div Minute
    BY <1>2, <2>2, SameQuotient, Units
  <2>4. (age \div Minute + 1) * Minute <= Hour
    BY <1>2, <1>7, WholeUnits, Units
  <2>5. old < Hour
    <3> DEFINE next == (age \div Minute + 1) * Minute
    <3>1. age \div Minute \in Nat
      BY <1>2, Quotient, Units
    <3>2. next \in Int
      BY <3>1, Units
    <3> HIDE DEF next
    <3>3. old < next /\ next <= Hour
      BY <2>2, <2>4 DEF next
    <3> QED
      BY <1>2, <3>2, <3>3, Units
  <2>6. old >= Minute
    BY <1>2, <1>7, Units
  <2> QED
    BY <1>2, <1>5, <1>7, <2>3, <2>5, <2>6, ShownAgeIs
<1>8. CASE age >= Hour /\ age < Day
  <2>1. unit = Hour
    BY <1>2, <1>8, UnitsGrow, Units
  <2> HIDE DEF age, old, unit
  <2>2. old < (age \div Hour + 1) * Hour
    BY <1>2, <1>4, <1>8, <2>1, Units
  <2>3. old \div Hour = age \div Hour
    BY <1>2, <2>2, SameQuotient, Units
  <2>4. (age \div Hour + 1) * Hour <= Day
    BY <1>2, <1>8, WholeUnits, Units
  <2>5. old < Day
    <3> DEFINE next == (age \div Hour + 1) * Hour
    <3>1. age \div Hour \in Nat
      BY <1>2, Quotient, Units
    <3>2. next \in Int
      BY <3>1, Units
    <3> HIDE DEF next
    <3>3. old < next /\ next <= Day
      BY <2>2, <2>4 DEF next
    <3> QED
      BY <1>2, <3>2, <3>3, Units
  <2>6. old >= Hour
    BY <1>2, <1>8, Units
  <2> QED
    BY <1>2, <1>5, <1>8, <2>3, <2>5, <2>6, ShownAgeIs
<1>9. CASE age >= Day
  <2>1. unit = Day
    BY <1>2, <1>9, UnitsGrow, Units
  <2> HIDE DEF age, old, unit
  <2>2. old < (age \div Day + 1) * Day
    BY <1>2, <1>4, <1>9, <2>1, Units
  <2>3. old \div Day = age \div Day
    BY <1>2, <2>2, SameQuotient, Units
  <2>4. old >= Day
    BY <1>2, <1>9, Units
  <2> QED
    BY <1>2, <1>5, <1>9, <2>3, <2>4, ShownAgeIs
<1> QED
  BY <1>2, <1>6, <1>7, <1>8, <1>9, Units

\* Until the first boundary of some rows, all their ages are shown the same.
LEMMA FirstBoundaryIs ==
    ASSUME NEW rows, \A r \in ToSet(rows) : r.since \in Times,
           NEW time \in Times \ {Never}, NEW due, due = FirstBoundary(rows, time)
    PROVE  /\ due \in Nat
           /\ \A later \in Nat : time <= later /\ (due = Never \/ later < due) =>
                  \A r \in ToSet(rows) : FormatAge(r.since, later) = FormatAge(r.since, time)
<1> DEFINE times == {r.since : r \in ToSet(rows)} \ {Never}
           next == {NextAgeBoundary(t, time) : t \in times}
<1>1. due = Earliest(next)
  BY DEF FirstBoundary
<1>2. times \subseteq Times \ {Never}
  OBVIOUS
<1>3. \A r \in ToSet(rows) : r.since = Never \/ r.since \in times
  OBVIOUS
<1> HIDE DEF times
<1>4. next \subseteq Nat /\ \A t \in next : t < Never
  BY <1>2, BoundaryIs
<1>5. \A t \in times : NextAgeBoundary(t, time) \in next
  OBVIOUS
<1> HIDE DEF next
<1>6. /\ next = {} => due = Never
      /\ next # {} => due \in next /\ \A u \in next : due <= u
  <2>1. CASE next = {}
    BY <1>1, <2>1 DEF Earliest
  <2>2. CASE next # {}
    <3>1. \E t \in next : \A u \in next : t <= u
      <4>1. next \subseteq Nat /\ next # {}
        BY <1>4, <2>2
      <4> QED
        BY <4>1, LeastMember
    <3> QED
      BY <1>1, <2>2, <3>1 DEF Earliest
  <2> QED
    BY <2>1, <2>2
<1>7. due \in Nat
  BY <1>4, <1>6, Units
<1>8. ASSUME NEW later \in Nat, time <= later, due = Never \/ later < due,
             NEW r \in ToSet(rows)
      PROVE  FormatAge(r.since, later) = FormatAge(r.since, time)
  <2>1. CASE r.since = Never
    BY <2>1 DEF FormatAge
  <2>2. CASE r.since # Never
    <3>1. r.since \in times /\ NextAgeBoundary(r.since, time) \in next
      BY <1>3, <1>5, <2>2
    <3>2. due <= NextAgeBoundary(r.since, time) /\ due # Never
      <4>1. due \in next /\ due <= NextAgeBoundary(r.since, time)
        BY <1>6, <3>1
      <4>2. due < Never /\ Never \in Nat
        BY <1>4, <4>1, Units
      <4> QED
        BY <1>7, <4>1, <4>2
    <3>3. NextAgeBoundary(r.since, time) \in Nat
      BY <1>4, <3>1
    <3>4. later < NextAgeBoundary(r.since, time)
      BY <1>7, <1>8, <3>2, <3>3
    <3>5. r.since \in Times \ {Never}
      BY <1>2, <3>1
    <3> QED
      BY <1>8, <3>4, <3>5, AgeHolds
  <2> QED
    BY <2>1, <2>2
<1> QED
  BY <1>7, <1>8

\* The ages of a frame are those of rows, at the time of the frame.
LEMMA FrameAges ==
    ASSUME NEW c, IsList(c.cache.rows), NEW time, NEW frame, frame = Render(c, time),
           NEW i \in DOMAIN frame.lines
    PROVE  /\ frame.ages[i] = FormatAge(frame.lines[i].row.since, time)
           /\ frame.lines[i].row \in ToSet(c.cache.rows)
<1> DEFINE rows == c.cache.rows
           at == LastPosition(rows, c.focus)
           height == ListHeight(c)
           from == ScrollOffset(at, Len(rows), height)
           to == Lesser(from + height, Len(rows))
           drawn == SubSeq(rows, from + 1, to)
<1>1. /\ frame.lines = [j \in DOMAIN drawn |-> RowLine(c, drawn[j])]
      /\ frame.ages = [j \in DOMAIN drawn |-> FormatAge(drawn[j].since, time)]
  BY DEF Render
<1> HIDE DEF drawn
<1>2. i \in DOMAIN drawn /\ frame.lines[i].row = drawn[i]
  BY <1>1 DEF RowLine
<1>3. frame.ages[i] = FormatAge(drawn[i].since, time)
  BY <1>1, <1>2
<1>4. drawn[i] \in ToSet(rows)
  <2>1. Len(rows) \in Nat /\ DOMAIN rows = 1..Len(rows) /\ height \in Nat
    BY ListIs, ListHeightIs
  <2>2. at \in Nat
    <3> DEFINE its == {j \in 1..Len(rows) : rows[j].focus = c.focus}
    <3>1. at = IF its # {} THEN Max(its) ELSE 0
      BY DEF LastPosition, SelectLastInSeq
    <3>2. its \subseteq 1..Len(rows)
      OBVIOUS
    <3> HIDE DEF its, at
    <3>3. ASSUME its # {}
          PROVE  Max(its) \in Nat
      <4>1. Max(its) \in 1..Len(rows)
        BY <2>1, <3>2, <3>3, Extremes
      <4> QED
        BY <2>1, <4>1
    <3> QED
      BY <3>1, <3>3
  <2> DEFINE n == Len(rows)
  <2> HIDE DEF at, height
  <2>3. from \in Nat /\ to \in Int /\ to <= n /\ n \in Nat
    <3>1. n \in Nat
      BY <2>1
    <3> HIDE DEF n
    <3>2. ScrollOffset(at, n, height) \in Nat
      BY <2>1, <2>2, <3>1 DEF ScrollOffset, Lesser, Monus
    <3>3. from \in Nat
      BY <3>2 DEF n
    <3> HIDE DEF from
    <3>4. Lesser(from + height, n) \in Int /\ Lesser(from + height, n) <= n
      BY <2>1, <3>1, <3>3 DEF Lesser
    <3> QED
      BY <3>1, <3>3, <3>4 DEF n
  <2> HIDE DEF from, to, n
  <2>4. \A j \in (from + 1)..to : rows[j] \in ToSet(rows)
    BY <2>1, <2>3 DEF ToSet, n
  <2>5. from + 1 \in Int /\ to \in Int
    BY <2>3
  <2>6. drawn \in Seq(ToSet(rows))
    BY <2>4, <2>5, SubSeqProperties DEF drawn
  <2> QED
    BY <1>2, <2>6
<1> QED
  BY <1>2, <1>3, <1>4

\* Until they are due, the ages of the rows and those drawn are right.
RightUntilDue(a, drawn, time) ==
    /\ a.ageDue \in Nat
    /\ \A later \in Nat : time <= later /\ (a.ageDue = Never \/ later < a.ageDue) =>
           /\ \A r \in ToSet(a.cache.rows) :
                  FormatAge(r.since, later) = FormatAge(r.since, time)
           /\ \A i \in DOMAIN drawn.lines :
                  drawn.ages[i] = FormatAge(drawn.lines[i].row.since, later)

AgesInv == FocusInv /\ now \in Times \ {Never} /\ RightUntilDue(app, screen, now)

\* The rows of a good state that has any.
LEMMA CachedRowsAre ==
    ASSUME NEW a, Sound(a), a.cache.valid
    PROVE  IsList(a.cache.rows) /\ \A r \in ToSet(a.cache.rows) : r.since \in Times
<1>1. a.cache.rows = ShownRows(a) /\ ModelOK(a.model)
  BY DEF Sound, StateOK, CacheTrue, FocusOK, Base
<1>2. /\ IsList(ShownRows(a))
      /\ \A r \in ToSet(ShownRows(a)) : r \in ToSet(RankedRows(a.model, a.grouped, a.query))
  BY <1>1, ShownIs
<1>3. \A r \in ToSet(RankedRows(a.model, a.grouped, a.query)) : Row(a.model, r)
  BY <1>1, RankedIs
<1> QED
  BY <1>1, <1>2, <1>3 DEF Row

\* A new frame has the ages of its rows, which are right as long as those.
LEMMA DrawnAges ==
    ASSUME NEW a, Sound(a), a.cache.valid, NEW time \in Times \ {Never},
           a.ageDue \in Nat,
           \A later \in Nat : time <= later /\ (a.ageDue = Never \/ later < a.ageDue) =>
               \A r \in ToSet(a.cache.rows) : FormatAge(r.since, later) = FormatAge(r.since, time)
    PROVE  RightUntilDue(a, Render(a, time), time)
<1> DEFINE drawn == Render(a, time)
<1>1. \A i \in DOMAIN drawn.lines :
          /\ drawn.ages[i] = FormatAge(drawn.lines[i].row.since, time)
          /\ drawn.lines[i].row \in ToSet(a.cache.rows)
  BY CachedRowsAre, FrameAges
<1> HIDE DEF drawn
<1>2. RightUntilDue(a, drawn, time)
  BY <1>1 DEF RightUntilDue
<1> QED
  BY <1>2 DEF drawn

\* Ages that were made now.
LEMMA MadeAges ==
    ASSUME NEW a, Sound(a), a.cache.valid, NEW time \in Times \ {Never},
           a.ageDue = FirstBoundary(a.cache.rows, time)
    PROVE  RightUntilDue(a, Render(a, time), time)
BY CachedRowsAre, FirstBoundaryIs, DrawnAges

\* The first frame is of ages made now.
LEMMA AgesBegin == Init => AgesInv
<1> SUFFICES ASSUME Init PROVE AgesInv
  OBVIOUS
<1>1. PICK lines \in Snapshots : app = PrepareRender(InitialApp(lines), now)
  BY DEF Init
<1>2. now \in Times \ {Never} /\ screen = Render(app, now)
  BY AppAssumption DEF Init
<1>3. Sound(InitialApp(lines)) /\ ~InitialApp(lines).aged
  BY InitialGood
<1>4. Sound(app) /\ app.cache.valid /\ app.ageDue = FirstBoundary(app.cache.rows, now)
  BY <1>1, <1>3, PreparedGood
<1> QED
  BY <1>2, <1>4, FocusBegins, MadeAges DEF AgesInv

\* Time alone makes right ages wrong only when they are due.
LEMMA LaterAges ==
    ASSUME NEW a, NEW drawn, NEW time \in Nat, RightUntilDue(a, drawn, time)
    PROVE  RightUntilDue(a, drawn, time + 1)
<1>1. ASSUME NEW later \in Nat, time + 1 <= later, a.ageDue = Never \/ later < a.ageDue
      PROVE  /\ \A r \in ToSet(a.cache.rows) :
                    FormatAge(r.since, later) = FormatAge(r.since, time + 1)
             /\ \A i \in DOMAIN drawn.lines :
                    drawn.ages[i] = FormatAge(drawn.lines[i].row.since, later)
  <2>1. /\ time + 1 \in Nat /\ time <= time + 1 /\ time <= later
        /\ a.ageDue = Never \/ time + 1 < a.ageDue
    BY <1>1 DEF RightUntilDue
  <2>2. \A r \in ToSet(a.cache.rows) :
            /\ FormatAge(r.since, later) = FormatAge(r.since, time)
            /\ FormatAge(r.since, time + 1) = FormatAge(r.since, time)
    BY <1>1, <2>1 DEF RightUntilDue
  <2> QED
    BY <1>1, <2>1, <2>2 DEF RightUntilDue
<1> QED
  BY <1>1 DEF RightUntilDue

\* Every event is applied so, and the clock is no event.
LEMMA AgesStay == AgesInv /\ [Next]_vars => AgesInv'
<1> SUFFICES ASSUME AgesInv, [Next]_vars PROVE AgesInv'
  OBVIOUS
<1>1. FocusInv' /\ now \in Nat
  BY FocusStays, Units DEF AgesInv
<1>2. CASE UNCHANGED vars
  BY <1>1, <1>2 DEF vars, AgesInv, RightUntilDue
<1>3. CASE TimePasses
  <2>1. now' = now + 1 /\ now < MaxTime /\ app' = app /\ screen' = screen
    BY <1>3 DEF TimePasses
  <2>2. now + 1 \in Times \ {Never}
    BY <1>1, <2>1, AppAssumption DEF Times
  <2>3. RightUntilDue(app, screen, now + 1)
    BY <1>1, LaterAges DEF AgesInv
  <2> QED
    BY <1>1, <2>1, <2>2, <2>3 DEF AgesInv
<1>4. CASE Next /\ ~TimePasses
  <2>1. Sound(app)
    BY DEF AgesInv, FocusInv
  <2>2. /\ ~app.quit /\ now' = now
        /\ \E result : /\ StateOK(result.app) /\ Moved(app, result) /\ Apply(result)
    BY <1>4, <2>1, Events
  <2>3. app.cache.valid
    BY <2>2 DEF AgesInv, FocusInv
  <2>4. /\ Sound(app')
        /\ \/ Caches(app') = Caches(app) /\ screen' = screen
           \/ /\ app'.cache.valid /\ app'.aged /\ screen' = Render(app', now')
              /\ \/ Caches(app') = Caches(app)
                 \/ app'.ageDue = FirstBoundary(app'.cache.rows, now')
    BY <2>1, <2>2, <2>3, AppliedGood
  <2>5. RightUntilDue(app', screen', now')
    <3>1. now' \in Times \ {Never} /\ now' = now /\ RightUntilDue(app, screen, now)
      BY <2>2 DEF AgesInv
    <3>2. Caches(app') = Caches(app) => app'.cache = app.cache /\ app'.ageDue = app.ageDue
      BY DEF Caches
    <3>3. CASE Caches(app') = Caches(app) /\ screen' = screen
      BY <3>1, <3>2, <3>3 DEF RightUntilDue
    <3>4. CASE /\ app'.cache.valid /\ screen' = Render(app', now')
               /\ Caches(app') = Caches(app)
      <4>1. /\ app'.ageDue \in Nat
            /\ \A later \in Nat :
                   now' <= later /\ (app'.ageDue = Never \/ later < app'.ageDue) =>
                   \A r \in ToSet(app'.cache.rows) :
                       FormatAge(r.since, later) = FormatAge(r.since, now')
        BY <3>1, <3>2, <3>4 DEF RightUntilDue
      <4>2. RightUntilDue(app', Render(app', now'), now')
        BY <2>4, <3>1, <3>4, <4>1, DrawnAges
      <4> QED
        BY <3>4, <4>2
    <3>5. CASE /\ app'.cache.valid /\ screen' = Render(app', now')
               /\ app'.ageDue = FirstBoundary(app'.cache.rows, now')
      BY <2>4, <3>1, <3>5, MadeAges
    <3> QED
      BY <2>4, <3>3, <3>4, <3>5
  <2> QED
    BY <1>1, <2>2, <2>5 DEF AgesInv
<1> QED
  BY <1>2, <1>3, <1>4

\* A tick draws, or no age is due.
LEMMA TickDraws ==
    ASSUME Sound(app), app.cache.valid, Tick
    PROVE  \/ Sound(app') /\ app'.cache.valid /\ screen' = Render(app', now)
           \/ screen' = screen /\ ~(app.ageDue # Never /\ now >= app.ageDue)
<1> DEFINE result == ReduceTick(app, now)
<1>1. now' = now /\ Apply(result)
  BY DEF Tick
<1>2. StateOK(result.app) /\ Moved(app, result)
  <2>1. StateOK(app)
    BY DEF Sound
  <2> QED
    BY <2>1, ReduceTickStep, ReduceTickMoved DEF Step
<1>3. PICK outcome \in Outcomes(result.effect.kind) :
          LET done == Complete(result.app, result.effect.kind, outcome)
          IN  IF result.changed \/ done.changed
              THEN Draw(PrepareRender(done.app, now'))
              ELSE app' = done.app /\ UNCHANGED screen
  BY <1>1 DEF Apply
<1> DEFINE done == Complete(result.app, result.effect.kind, outcome)
<1>4. Sound(done.app)
  BY <1>2, MovedGood, CompleteMoved
<1>5. app.ageDue # Never /\ now >= app.ageDue => result.changed
  <2> DEFINE observed == ObserveCreationTime(app, now)
             due == observed.ageDue # Never /\ now >= observed.ageDue
             b == IF due THEN [observed EXCEPT !.aged = FALSE] ELSE observed
             changed == due \/ Expires(b, now)
  <2>1. result = Give(ExpireCreationVerification(b, now), changed, NoEffect)
    BY DEF ReduceTick
  <2>2. observed.ageDue = app.ageDue
    BY ObservedMoved DEF Caches
  <2>3. app.ageDue # Never /\ now >= app.ageDue => changed
    BY <2>2
  <2> HIDE DEF result, changed, b
  <2>4. result.changed = changed
    <3> DEFINE c == ExpireCreationVerification(b, now)
    <3> HIDE DEF c
    <3>1. Give(c, changed, NoEffect).changed = changed
      BY Zenon DEF Give
    <3> QED
      BY <2>1, <3>1 DEF c
  <2> QED
    BY <2>3, <2>4
<1>6. CASE result.changed \/ done.changed
  <2>1. app' = PrepareRender(done.app, now) /\ screen' = Render(app', now)
    BY <1>1, <1>3, <1>6 DEF Draw
  <2> HIDE DEF done
  <2> QED
    BY <1>4, <2>1, PreparedGood
<1>7. CASE ~(result.changed \/ done.changed)
  BY <1>3, <1>5, <1>7
<1> QED
  BY <1>6, <1>7

\* However few ticks redraw them, and whatever came between them, after a tick every age
\* on the screen is that of its row by now.
THEOREM AgesAlwaysFresh == Spec => AgesFresh
<1>1. AgesInv /\ Tick => AgesAreRight'
  <2> SUFFICES ASSUME AgesInv, Tick PROVE AgesAreRight'
    OBVIOUS
  <2>1. ~app.quit /\ now' = now
    BY DEF Tick, Running
  <2>2. Sound(app) /\ app.cache.valid /\ RightUntilDue(app, screen, now) /\ now \in Nat
    BY <2>1, Units DEF AgesInv, FocusInv
  <2>3. CASE Sound(app') /\ app'.cache.valid /\ screen' = Render(app', now)
    <3>1. \A i \in DOMAIN Render(app', now).lines :
              Render(app', now).ages[i] = FormatAge(Render(app', now).lines[i].row.since, now)
      BY <2>3, CachedRowsAre, FrameAges
    <3> QED
      BY <2>1, <2>3, <3>1 DEF AgesAreRight
  <2>4. CASE screen' = screen /\ ~(app.ageDue # Never /\ now >= app.ageDue)
    <3>1. app.ageDue = Never \/ now < app.ageDue
      BY <2>2, <2>4 DEF RightUntilDue
    <3>2. \A i \in DOMAIN screen.lines :
              screen.ages[i] = FormatAge(screen.lines[i].row.since, now)
      BY <2>2, <3>1 DEF RightUntilDue
    <3> QED
      BY <2>1, <2>4, <3>2 DEF AgesAreRight
  <2> QED
    BY <2>2, <2>3, <2>4, TickDraws
<1>2. AgesInv /\ [Next]_vars => [AgesAreRight' \/ ~Tick]_vars
  BY <1>1
<1> QED
  BY <1>2, AgesBegin, AgesStay, PTL DEF Spec, AgesFresh

-----------------------------------------------------------------------------
(* The list of headless sessions                                            *)

Phases == {"waiting", "discovery", "projects", "status", "permission", "question", "aggregate",
           "session"}
Worktrees == Range(Projects)
ListStatuses == {"working", "needs_input"}
Maps == UNION {[some -> ListStatuses] : some \in SUBSET Sessions}
Polls ==
    [phase : Phases, todo : Seq(Worktrees), seen : SUBSET Worktrees, active : Maps,
     session : Sessions \cup {NoSession}, at : Sessions \cup {NoSession},
     visited : SUBSET Sessions, cache : SUBSET (Worktrees \X Sessions), roots : Maps]
Servers ==
    [up : BOOLEAN, state : [Sessions -> States], parent : [Sessions -> Sessions \cup {NoSession}]]

Types ==
    /\ server \in Servers /\ poll \in Polls
    /\ history.steady \subseteq Sessions

\* What is active or asks now is in the history.
Observed ==
    \A s \in Sessions :
        /\ server.state[s] \in Busy => RootOf(s) \in history.active
        /\ server.state[s] \in Asking => RootOf(s) \in history.asked

\* What a poll has found was so.
Honest(p) ==
    /\ \A s \in DOMAIN p.active :
           /\ RootOf(s) \in history.active
           /\ p.active[s] = "needs_input" => RootOf(s) \in history.asked
    /\ \A r \in DOMAIN p.roots :
           /\ r \in history.active
           /\ p.roots[r] = "needs_input" => r \in history.asked

\* The sessions that were active, and the same, all along.
Steady == {s \in history.steady : server.state[s] \in Busy}

\* A session is to be counted, or is.
Counted(p, s) ==
    \/ /\ s \in DOMAIN p.active
       /\ server.state[s] \in Asking => p.active[s] = "needs_input"
    \/ /\ RootOf(s) \in DOMAIN p.roots
       /\ server.state[s] \in Asking => p.roots[RootOf(s)] = "needs_input"

\* What a poll has not missed: of the worktrees it is through with, and of the
\* one it asks.
NothingMissed(p) ==
    \A s \in Steady :
        /\ Home[s] \in p.seen => Counted(p, s)
        /\ p.phase \in Asking /\ Home[s] = Head(p.todo) => s \in DOMAIN p.active
        /\ p.phase = "question" /\ Home[s] = Head(p.todo) /\ server.state[s] = "permission" =>
               p.active[s] = "needs_input"

\* No worktree is left out.
Pending(p) ==
    /\ p.phase \in {"status"} \cup Asking =>
           p.todo # <<>> /\ Worktrees \subseteq p.seen \cup Range(p.todo)
    /\ p.phase \in {"aggregate", "session"} => Worktrees \subseteq p.seen

\* Where the walk to the root stands.
Walk(p) ==
    p.phase = "session" =>
        /\ p.session \in DOMAIN p.active
        /\ p.at \in Lineage(p.session)
        /\ p.session \in p.visited \cup {p.at}
        /\ \A s \in p.visited :
               server.parent[s] \in Sessions /\ server.parent[s] \in p.visited \cup {p.at}

Good(p) == p \in Polls /\ Honest(p) /\ NothingMissed(p) /\ Pending(p) /\ Walk(p)

IInv == Types /\ Observed /\ Good(poll)

-----------------------------------------------------------------------------
(* Maps, sequences and roots                                                *)

\* A map of sessions to statuses.
LEMMA MapIs ==
    ASSUME NEW f
    PROVE  f \in Maps <=> DOMAIN f \subseteq Sessions /\ f \in [DOMAIN f -> ListStatuses]
BY DEF Maps

\* The empty map.
LEMMA NoMap == <<>> \in Maps /\ DOMAIN <<>> = {}
<1>1. DOMAIN <<>> = {}
  OBVIOUS
<1>2. <<>> \in [{} -> ListStatuses]
  OBVIOUS
<1> QED
  BY <1>1, <1>2 DEF Maps

\* The first of the worktrees and the others.
LEMMA FirstAndRest ==
    ASSUME NEW S, NEW q \in Seq(S), q # <<>>
    PROVE  /\ Head(q) \in S /\ Tail(q) \in Seq(S)
           /\ \A x \in Range(q) : x = Head(q) \/ x \in Range(Tail(q))
           /\ Len(q) = 1 => \A x \in Range(q) : x = Head(q)
           /\ Len(q) # 1 => Tail(q) # <<>>
<1>1. /\ Len(q) \in Nat \ {0} /\ Head(q) = q[1] /\ q[1] \in S
      /\ Tail(q) \in Seq(S) /\ Len(Tail(q)) = Len(q) - 1
      /\ DOMAIN q = 1..Len(q) /\ DOMAIN Tail(q) = 1..(Len(q) - 1)
      /\ \A i \in 1..(Len(q) - 1) : Tail(q)[i] = q[i + 1]
  OBVIOUS
<1>2. ASSUME NEW x \in Range(q) PROVE x = Head(q) \/ (x \in Range(Tail(q)) /\ Len(q) # 1)
  <2>1. PICK i \in 1..Len(q) : q[i] = x
    BY <1>1, <1>2 DEF Range
  <2>2. CASE i = 1
    BY <1>1, <2>1, <2>2
  <2>3. CASE i # 1
    <3>1. i - 1 \in 1..(Len(q) - 1) /\ (i - 1) + 1 = i /\ Len(q) # 1
      BY <1>1, <2>3
    <3>2. Tail(q)[i - 1] = x
      BY <1>1, <2>1, <3>1
    <3> QED
      BY <1>1, <3>1, <3>2 DEF Range
  <2> QED
    BY <2>2, <2>3
<1>3. ASSUME Len(q) # 1 PROVE Tail(q) # <<>>
  <2>1. Len(Tail(q)) # 0
    BY <1>1, <1>3
  <2>2. PICK t : t = Tail(q)
    OBVIOUS
  <2>3. Len(t) # 0
    BY <2>1, <2>2
  <2>4. t # <<>>
    BY <2>3
  <2> QED
    BY <2>2, <2>4
<1> QED
  BY <1>1, <1>2, <1>3

\* Sessions have the same root as long as they have the same parents.
LEMMA SameRoots ==
    ASSUME server'.parent = server.parent
    PROVE  /\ \A s : RootOf(s)' = RootOf(s)
           /\ \A s : Lineage(s)' = Lineage(s)
<1>1. \A set : HasParents(set)' = HasParents(set)
  BY DEF HasParents
<1>2. ASSUME NEW s PROVE Lineage(s)' = Lineage(s)
  BY <1>1 DEF Lineage
<1>3. ASSUME NEW s PROVE RootOf(s)' = RootOf(s)
  <2> DEFINE roots == {t \in Lineage(s) : server.parent[t] = NoSession}
             RootIn(some) == IF some = {} THEN NoSession ELSE CHOOSE t \in some : TRUE
  <2>1. roots' = roots
    BY <1>2
  <2>2. RootOf(s) = RootIn(roots) /\ RootOf(s)' = RootIn(roots')
    BY DEF RootOf
  <2> HIDE DEF roots, RootIn
  <2> QED
    BY <2>1, <2>2
<1> QED
  BY <1>2, <1>3

\* A session is of its own lineage, and so is the parent of one that is.
LEMMA Upwards ==
    ASSUME server \in Servers, NEW s \in Sessions
    PROVE  /\ s \in Lineage(s) /\ Lineage(s) \subseteq Sessions
           /\ \A t \in Lineage(s) : server.parent[t] # NoSession =>
                  server.parent[t] \in Lineage(s) /\ server.parent[t] \in Sessions
<1>1. s \in Lineage(s) /\ Lineage(s) \subseteq Sessions
  BY DEF Lineage
<1>2. ASSUME NEW t \in Lineage(s), server.parent[t] # NoSession
      PROVE  server.parent[t] \in Lineage(s) /\ server.parent[t] \in Sessions
  <2>1. t \in Sessions /\ server.parent[t] \in Sessions
    BY <1>1, <1>2 DEF Servers
  <2>2. ASSUME NEW set \in SUBSET Sessions, s \in set, HasParents(set)
        PROVE  server.parent[t] \in set
    <3>1. t \in set
      BY <1>2, <2>2 DEF Lineage
    <3> QED
      BY <1>2, <2>2, <3>1 DEF HasParents
  <2> QED
    BY <2>1, <2>2 DEF Lineage
<1> QED
  BY <1>1, <1>2

\* The walk that comes to a session without a parent has found the root.
LEMMA RootFound ==
    ASSUME server \in Servers, NEW s \in Sessions, NEW at \in Lineage(s),
           NEW visited \in SUBSET Sessions, server.parent[at] = NoSession,
           s \in visited \cup {at},
           \A v \in visited :
               server.parent[v] \in Sessions /\ server.parent[v] \in visited \cup {at}
    PROVE  RootOf(s) = at /\ at \in Sessions
<1> DEFINE set == visited \cup {at}
           roots == {r \in Lineage(s) : server.parent[r] = NoSession}
<1>1. at \in Sessions
  BY DEF Lineage
<1>2. set \in SUBSET Sessions /\ HasParents(set)
  BY <1>1 DEF HasParents
<1>3. \A r \in Lineage(s) : r \in set
  BY <1>2 DEF Lineage
<1>4. \A r \in roots : r = at
  BY <1>3, PollerAssumption
<1>5. roots = {at}
  BY <1>4
<1>6. RootOf(s) = at
  BY <1>5 DEF RootOf
<1> QED
  BY <1>1, <1>6

-----------------------------------------------------------------------------
(* Steps                                                                    *)

\* A step of the poller that finds its poll good.
LEMMA Kept ==
    ASSUME IInv, UNCHANGED <<server, history>>, Good(poll')
    PROVE  IInv'
<1>1. \A s : RootOf(s)' = RootOf(s) /\ Lineage(s)' = Lineage(s)
  BY SameRoots
<1>2. Types' /\ Observed'
  BY <1>1 DEF IInv, Types, Observed, Good
<1>3. Honest(poll)' <=> Honest(poll')
  BY <1>1 DEF Honest
<1>4. Steady' = Steady /\ \A s : Counted(poll, s)' <=> Counted(poll', s)
  BY <1>1 DEF Steady, Counted
<1>5. NothingMissed(poll)' <=> NothingMissed(poll')
  BY <1>4 DEF NothingMissed
<1>6. (Pending(poll)' <=> Pending(poll')) /\ (Walk(poll)' <=> Walk(poll'))
  BY <1>1 DEF Pending, Walk
<1> QED
  BY <1>2, <1>3, <1>5, <1>6 DEF IInv, Good

\* A poll that has found nothing and asked no worktree.
LEMMA NothingFound ==
    ASSUME NEW p \in Polls, p.active = <<>>, p.roots = <<>>, p.seen = {},
           p.phase \in {"waiting", "discovery", "projects"}
    PROVE  Good(p)
<1>1. Honest(p)
  BY NoMap DEF Honest
<1>2. NothingMissed(p) /\ Pending(p) /\ Walk(p)
  BY DEF NothingMissed, Pending, Walk, Asking
<1> QED
  BY <1>1, <1>2 DEF Good

\* Between two polls.
LEMMA Rests ==
    /\ Waiting \in Polls /\ Waiting.active = <<>> /\ Waiting.roots = <<>> /\ Waiting.seen = {}
    /\ Waiting.phase = "waiting"
    /\ Good(Waiting)
<1>1. <<>> \in Seq(Worktrees) /\ <<>> \in Maps
  BY NoMap
<1>2. Waiting \in Polls
  BY <1>1 DEF Waiting, Polls, Phases
<1>3. /\ Waiting.active = <<>> /\ Waiting.roots = <<>> /\ Waiting.seen = {}
      /\ Waiting.phase = "waiting"
  BY DEF Waiting
<1> QED
  BY <1>2, <1>3, NothingFound

\* What was counted stays so when more is known.
LEMMA StillCounted ==
    ASSUME NEW p, NEW q, NEW s, q.roots = p.roots, DOMAIN p.active \subseteq DOMAIN q.active,
           \A t \in DOMAIN p.active : p.active[t] = "needs_input" => q.active[t] = "needs_input"
    PROVE  Counted(p, s) => Counted(q, s)
BY DEF Counted

\* On to the next worktree when this one's sessions are counted.
LEMMA Onward ==
    ASSUME NEW p \in Polls, Honest(p), p.phase \in {"status"} \cup Asking, Pending(p),
           p.todo = poll.todo,
           \A s \in Steady : Home[s] \in p.seen \cup {Worktree} => Counted(p, s)
    PROVE  Good(NextProject(p))
<1> DEFINE q == NextProject(p)
<1>1. /\ p.todo \in Seq(Worktrees) /\ p.todo # <<>> /\ Worktree = Head(p.todo)
      /\ Worktrees \subseteq p.seen \cup Range(p.todo)
  BY DEF Polls, Pending, Worktree
<1>2. /\ Worktree \in Worktrees /\ Tail(p.todo) \in Seq(Worktrees)
      /\ \A x \in Range(p.todo) : x = Worktree \/ x \in Range(Tail(p.todo))
      /\ Len(p.todo) = 1 => \A x \in Range(p.todo) : x = Worktree
      /\ Len(p.todo) # 1 => Tail(p.todo) # <<>>
  BY <1>1, FirstAndRest
<1>3. /\ q.phase = IF Len(p.todo) = 1 THEN "aggregate" ELSE "status"
      /\ q.todo = Tail(p.todo) /\ q.seen = p.seen \cup {Worktree}
      /\ q.active = p.active /\ q.roots = p.roots
  BY DEF NextProject, Polls
<1>4. q \in Polls
  BY <1>2 DEF NextProject, Polls, Phases
<1> HIDE DEF q
<1>5. Honest(q)
  BY <1>3 DEF Honest
<1>6. NothingMissed(q)
  BY <1>3 DEF NothingMissed, Counted, Asking
<1>7. Pending(q) /\ Walk(q)
  BY <1>1, <1>2, <1>3 DEF Pending, Walk, Asking
<1>8. Good(q)
  BY <1>4, <1>5, <1>6, <1>7 DEF Good
<1> QED
  BY <1>8 DEF q

\* A step that finds nothing and asks for no input.
LEMMA SameFindings ==
    ASSUME NEW p, NEW q, Honest(p), NothingMissed(p), q.active = p.active, q.roots = p.roots,
           q.seen = p.seen, q.phase \notin Asking
    PROVE  Honest(q) /\ NothingMissed(q)
BY DEF Honest, NothingMissed, Counted, Asking

\* The server answers.
LEMMA DiscoverGood ==
    ASSUME IInv, Discover
    PROVE  Good(poll')
<1>1. /\ poll \in Polls /\ Honest(poll) /\ NothingMissed(poll)
      /\ poll' = [poll EXCEPT !.phase = "projects"]
  BY DEF IInv, Good, Discover, Go
<1>2. /\ poll' \in Polls /\ poll'.phase = "projects" /\ poll'.active = poll.active
      /\ poll'.roots = poll.roots /\ poll'.seen = poll.seen
  BY <1>1 DEF Polls, Phases
<1>3. Honest(poll') /\ NothingMissed(poll')
  BY <1>1, <1>2, SameFindings DEF Asking
<1> QED
  BY <1>2, <1>3 DEF Good, Pending, Walk, Asking

\* All the worktrees are to be asked.
LEMMA ListProjectsGood ==
    ASSUME IInv, ListProjects
    PROVE  Good(poll')
<1> DEFINE phase == IF Projects = <<>> THEN "aggregate" ELSE "status"
<1>1. /\ poll \in Polls /\ Honest(poll) /\ NothingMissed(poll)
      /\ poll' = [poll EXCEPT !.phase = phase, !.todo = Projects]
  BY DEF IInv, Good, ListProjects, Go
<1>2. Projects \in Seq(Worktrees)
  BY PollerAssumption DEF Worktrees
<1>3. /\ poll' \in Polls /\ poll'.phase = phase /\ poll'.active = poll.active
      /\ poll'.roots = poll.roots /\ poll'.seen = poll.seen /\ poll'.todo = Projects
  BY <1>1, <1>2 DEF Polls, Phases
<1>4. poll'.phase \in {"aggregate", "status"}
  BY <1>3
<1>5. /\ Projects = <<>> => Worktrees = {}
      /\ poll'.phase = "status" => Projects # <<>>
      /\ poll'.phase = "aggregate" => Projects = <<>>
  BY <1>3 DEF Range, Worktrees
<1> HIDE DEF phase
<1>6. poll'.phase \notin Asking
  BY <1>4 DEF Asking
<1>7. Honest(poll') /\ NothingMissed(poll')
  BY <1>1, <1>3, <1>6, SameFindings
<1>8. Worktrees \subseteq poll'.seen \cup Range(poll'.todo)
  BY <1>3 DEF Worktrees
<1>9. Pending(poll') /\ Walk(poll')
  BY <1>3, <1>4, <1>5, <1>6, <1>8 DEF Pending, Walk
<1> QED
  BY <1>3, <1>7, <1>9 DEF Good

\* A worktree that was asked before.
LEMMA SkipWorktreeGood ==
    ASSUME IInv, SkipWorktree
    PROVE  Good(poll')
<1>1. /\ poll \in Polls /\ Honest(poll) /\ NothingMissed(poll) /\ Pending(poll)
      /\ poll.phase = "status" /\ poll' = NextProject(poll)
  BY DEF IInv, Good, SkipWorktree, Go
<1>2. Worktree \in poll.seen
  BY <1>1 DEF SkipWorktree, Requesting
<1>3. \A s \in Steady : Home[s] \in poll.seen \cup {Worktree} => Counted(poll, s)
  BY <1>1, <1>2 DEF NothingMissed
<1> QED
  BY <1>1, <1>3, Onward

\* Those that are busy are found.
LEMMA ReadStatusGood ==
    ASSUME IInv, ReadStatus
    PROVE  Good(poll')
<1> DEFINE busy == BusyIn(Worktree)
           active == [s \in DOMAIN poll.active \cup busy |->
                         IF s \in DOMAIN poll.active THEN poll.active[s] ELSE "working"]
<1>1. /\ poll \in Polls /\ Honest(poll) /\ NothingMissed(poll) /\ Pending(poll)
      /\ poll.phase = "status" /\ server \in Servers /\ Observed /\ Steady \subseteq Sessions
  BY DEF IInv, Good, ReadStatus, Answered, Types, Steady
<1>2. \A s \in Steady : Home[s] = Worktree => s \in busy
  BY <1>1 DEF BusyIn, Steady
<1>3. CASE busy = {} /\ poll' = NextProject(poll)
  <2>1. poll' = NextProject(poll)
    BY <1>3
  <2>2. \A s \in Steady : Home[s] \in poll.seen \cup {Worktree} => Counted(poll, s)
    BY <1>1, <1>2, <1>3 DEF NothingMissed
  <2> QED
    BY <1>1, <2>1, <2>2, Onward
<1>4. CASE poll' = [poll EXCEPT !.phase = "permission", !.active = active]
  <2>1. poll' = [poll EXCEPT !.phase = "permission", !.active = active]
    BY <1>4
  <2>2. poll.active \in Maps /\ busy \subseteq Sessions
    BY <1>1 DEF Polls, BusyIn
  <2>3. /\ DOMAIN poll.active \subseteq Sessions
        /\ \A s \in DOMAIN poll.active : poll.active[s] \in ListStatuses
    BY <2>2, MapIs
  <2>4. active \in [DOMAIN active -> ListStatuses] /\ DOMAIN active \subseteq Sessions
    BY <2>2, <2>3 DEF ListStatuses
  <2>5. active \in Maps
    BY <2>4, MapIs
  <2>6. /\ DOMAIN active = DOMAIN poll.active \cup busy
        /\ \A s \in DOMAIN poll.active : active[s] = poll.active[s]
        /\ \A s \in DOMAIN active : s \notin DOMAIN poll.active => active[s] = "working"
    OBVIOUS
  <2> HIDE DEF active
  <2>7. /\ poll' \in Polls /\ poll'.phase = "permission" /\ poll'.active = active
        /\ poll'.roots = poll.roots /\ poll'.seen = poll.seen /\ poll'.todo = poll.todo
    BY <1>1, <2>1, <2>5 DEF Polls, Phases
  <2>8. \A s \in busy : s \in Sessions /\ server.state[s] \in Busy
    BY DEF BusyIn
  <2>9. \A s \in busy : RootOf(s) \in history.active
    BY <1>1, <2>8 DEF Observed
  <2>10. Honest(poll')
    BY <1>1, <2>6, <2>7, <2>9 DEF Honest
  <2>11. \A s \in Steady : Counted(poll, s) => Counted(poll', s)
    BY <2>6, <2>7, StillCounted
  <2>12. NothingMissed(poll')
    BY <1>1, <1>2, <2>6, <2>7, <2>11 DEF NothingMissed, Worktree
  <2>13. Pending(poll') /\ Walk(poll')
    BY <1>1, <2>7 DEF Pending, Walk, Asking
  <2> QED
    BY <2>7, <2>10, <2>12, <2>13 DEF Good
<1> QED
  BY <1>3, <1>4 DEF ReadStatus, Go

\* Those that ask are found.
LEMMA ReadRequestsGood ==
    ASSUME IInv, NEW endpoint \in Asking, ReadRequests(endpoint)
    PROVE  Good(poll')
<1> DEFINE asking == AskingIn(Worktree, endpoint)
           active == [s \in DOMAIN poll.active \cup asking |->
                         IF s \in asking THEN "needs_input" ELSE poll.active[s]]
           known == [poll EXCEPT !.active = active]
<1>1. /\ poll \in Polls /\ Honest(poll) /\ NothingMissed(poll) /\ Pending(poll)
      /\ poll.phase = endpoint /\ server \in Servers /\ Observed /\ Steady \subseteq Sessions
  BY DEF IInv, Good, ReadRequests, Answered, Types, Steady
<1>2. endpoint \in {"permission", "question"}
  BY DEF Asking
<1>3. \A s \in asking : s \in Sessions /\ server.state[s] = endpoint
  BY DEF AskingIn
<1>4. poll.active \in Maps
  BY <1>1 DEF Polls
<1>5. /\ DOMAIN poll.active \subseteq Sessions
      /\ \A s \in DOMAIN poll.active : poll.active[s] \in ListStatuses
  BY <1>4, MapIs
<1>6. active \in [DOMAIN active -> ListStatuses] /\ DOMAIN active \subseteq Sessions
  BY <1>3, <1>5 DEF ListStatuses
<1>7. active \in Maps
  BY <1>6, MapIs
<1>8. /\ DOMAIN active = DOMAIN poll.active \cup asking
      /\ \A s \in asking : active[s] = "needs_input"
      /\ \A s \in DOMAIN active : s \notin asking => active[s] = poll.active[s]
  OBVIOUS
<1>9. \A s \in Steady : Home[s] = Worktree /\ server.state[s] = endpoint => s \in asking
  BY <1>1 DEF AskingIn
<1>10. \A s \in asking : RootOf(s) \in history.active /\ RootOf(s) \in history.asked
  BY <1>2, <1>3, <1>1 DEF Observed, Busy, Asking
<1> HIDE DEF active, asking
<1>11. /\ known \in Polls /\ known.phase = endpoint /\ known.active = active
       /\ known.roots = poll.roots /\ known.seen = poll.seen /\ known.todo = poll.todo
  BY <1>1, <1>7 DEF Polls
<1>12. Honest(known)
  BY <1>1, <1>8, <1>10, <1>11 DEF Honest
<1>13. \A s \in Steady : Counted(poll, s) => Counted(known, s)
  <2> HIDE DEF known
  <2>1. /\ known.roots = poll.roots /\ DOMAIN poll.active \subseteq DOMAIN known.active
        /\ \A t \in DOMAIN poll.active :
               poll.active[t] = "needs_input" => known.active[t] = "needs_input"
    BY <1>8, <1>11
  <2> QED
    BY <2>1, StillCounted
<1>14. Pending(known)
  BY <1>1, <1>11 DEF Pending
<1>15. \A s \in Steady : Home[s] = Worktree => s \in DOMAIN active
  BY <1>1, <1>2, <1>8 DEF NothingMissed, Worktree, Asking
<1>16. CASE endpoint = "permission"
  <2>1. poll' = [known EXCEPT !.phase = "question"]
    BY <1>16 DEF ReadRequests, Go, active, asking
  <2> HIDE DEF known
  <2>2. /\ poll' \in Polls /\ poll'.phase = "question" /\ poll'.active = active
        /\ poll'.roots = poll.roots /\ poll'.seen = poll.seen /\ poll'.todo = poll.todo
    BY <1>11, <2>1 DEF Polls, Phases
  <2>3. Honest(poll')
    BY <1>11, <1>12, <2>2 DEF Honest
  <2>4. \A s \in Steady : Counted(known, s) => Counted(poll', s)
    BY <1>11, <2>2 DEF Counted
  <2>5. NothingMissed(poll')
    BY <1>1, <1>8, <1>9, <1>13, <1>15, <1>16, <2>2, <2>4 DEF NothingMissed, Worktree
  <2>6. Pending(poll') /\ Walk(poll')
    BY <1>11, <1>14, <1>16, <2>2 DEF Pending, Walk, Asking
  <2> QED
    BY <2>2, <2>3, <2>5, <2>6 DEF Good
<1>17. CASE endpoint = "question"
  <2>1. poll' = NextProject(known)
    BY <1>17 DEF ReadRequests, Go, active, asking
  <2> HIDE DEF known
  <2>2. ASSUME NEW s \in Steady, Home[s] = Worktree
        PROVE  Counted(known, s)
    <3>1. s \in DOMAIN known.active
      BY <1>11, <1>15, <2>2
    <3>2. server.state[s] = "question" => known.active[s] = "needs_input"
      BY <1>8, <1>9, <1>11, <1>17, <2>2
    <3>3. server.state[s] = "permission" => known.active[s] = "needs_input"
      BY <1>1, <1>8, <1>11, <1>15, <1>17, <2>2 DEF NothingMissed, Worktree
    <3> QED
      BY <3>1, <3>2, <3>3 DEF Counted, Asking
  <2>3. \A s \in Steady : Home[s] \in known.seen \cup {Worktree} => Counted(known, s)
    BY <1>1, <1>11, <1>13, <2>2 DEF NothingMissed
  <2> QED
    BY <1>11, <1>12, <1>14, <2>1, <2>3, Onward
<1> QED
  BY <1>2, <1>16, <1>17

\* The next session is walked from.
LEMMA TakeSessionGood ==
    ASSUME IInv, TakeSession
    PROVE  Good(poll')
<1>1. /\ poll \in Polls /\ Honest(poll) /\ NothingMissed(poll) /\ Pending(poll)
      /\ poll.phase = "aggregate" /\ server \in Servers
  BY DEF IInv, Good, TakeSession, Types
<1>2. CASE DOMAIN poll.active = {}
  BY <1>2, Rests DEF TakeSession, Succeed
<1>3. CASE DOMAIN poll.active # {}
  <2>1. PICK s \in DOMAIN poll.active :
            poll' = [poll EXCEPT !.phase = "session", !.session = s, !.at = s, !.visited = {}]
    BY <1>3 DEF TakeSession, Go
  <2>2. poll.active \in Maps
    BY <1>1 DEF Polls
  <2>3. s \in Sessions
    BY <2>2, MapIs
  <2>4. /\ poll' \in Polls /\ poll'.phase = "session" /\ poll'.session = s /\ poll'.at = s
        /\ poll'.visited = {} /\ poll'.active = poll.active
        /\ poll'.roots = poll.roots /\ poll'.seen = poll.seen
    BY <1>1, <2>1, <2>3 DEF Polls, Phases
  <2>5. s \in Lineage(s)
    BY <1>1, <2>3, Upwards
  <2>6. Walk(poll')
    BY <2>4, <2>5 DEF Walk
  <2>7. Honest(poll') /\ NothingMissed(poll')
    BY <1>1, <2>4, SameFindings DEF Asking
  <2>8. Pending(poll')
    BY <1>1, <2>4 DEF Pending, Asking
  <2> QED
    BY <2>4, <2>6, <2>7, <2>8 DEF Good
<1> QED
  BY <1>2, <1>3

\* The walk goes on to the parent, or ends at the root and counts the session.
LEMMA WalkOnGood ==
    ASSUME IInv, poll.phase = "session", WalkOn
    PROVE  Good(poll')
<1> DEFINE s == poll.at
           t == poll.session
           status == RootStatus(s, poll.active[t])
           visited == poll.visited \cup {s}
           cache == poll.cache \cup {SessionKey}
           active == Restrict(poll.active, DOMAIN poll.active \ {t})
           roots == [r \in DOMAIN poll.roots \cup {s} |->
                        IF r = s THEN status ELSE poll.roots[r]]
<1>1. /\ poll \in Polls /\ Honest(poll) /\ NothingMissed(poll) /\ Pending(poll) /\ Walk(poll)
      /\ server \in Servers
  BY DEF IInv, Good, Types
<1>2. /\ poll.active \in Maps /\ poll.roots \in Maps /\ poll.visited \in SUBSET Sessions
      /\ poll.cache \in SUBSET (Worktrees \X Sessions)
  BY <1>1 DEF Polls
<1>3. /\ DOMAIN poll.active \subseteq Sessions /\ DOMAIN poll.roots \subseteq Sessions
      /\ \A x \in DOMAIN poll.active : poll.active[x] \in ListStatuses
      /\ \A x \in DOMAIN poll.roots : poll.roots[x] \in ListStatuses
  BY <1>2, MapIs
<1>4. /\ t \in DOMAIN poll.active /\ s \in Lineage(t) /\ t \in poll.visited \cup {s}
      /\ \A v \in poll.visited :
             server.parent[v] \in Sessions /\ server.parent[v] \in poll.visited \cup {s}
  BY <1>1 DEF Walk
<1>5. t \in Sessions /\ s \in Sessions
  BY <1>1, <1>3, <1>4, Upwards
<1>6. Home \in [Sessions -> Worktrees]
  BY PollerAssumption DEF Worktrees
<1>7. cache \in SUBSET (Worktrees \X Sessions) /\ visited \in SUBSET Sessions
  BY <1>2, <1>5, <1>6 DEF SessionKey
<1>8. CASE server.parent[s] # NoSession
  <2>1. poll' = [poll EXCEPT !.visited = visited, !.cache = cache, !.at = server.parent[s]]
    BY <1>1, <1>8 DEF WalkOn, Go, Polls
  <2>2. server.parent[s] \in Lineage(t) /\ server.parent[s] \in Sessions
    BY <1>1, <1>4, <1>5, <1>8, Upwards
  <2> HIDE DEF cache
  <2>3. /\ poll' \in Polls /\ poll'.phase = "session" /\ poll'.session = t
        /\ poll'.at = server.parent[s] /\ poll'.visited = visited
        /\ poll'.active = poll.active /\ poll'.roots = poll.roots /\ poll'.seen = poll.seen
    BY <1>1, <1>7, <2>1, <2>2 DEF Polls
  <2>4. Walk(poll')
    BY <1>4, <2>2, <2>3 DEF Walk
  <2>5. Honest(poll') /\ NothingMissed(poll')
    BY <1>1, <2>3, SameFindings DEF Asking
  <2>6. Pending(poll')
    BY <1>1, <2>3 DEF Pending, Asking
  <2> QED
    BY <2>3, <2>4, <2>5, <2>6 DEF Good
<1>9. CASE server.parent[s] = NoSession
  <2>1. poll' = [poll EXCEPT !.visited = visited, !.cache = cache, !.phase = "aggregate",
                             !.active = active, !.roots = roots]
    BY <1>1, <1>9 DEF WalkOn, Go, Polls
  <2>2. RootOf(t) = s
    BY <1>1, <1>2, <1>4, <1>5, <1>9, RootFound
  <2>3. /\ DOMAIN active = DOMAIN poll.active \ {t}
        /\ \A x \in DOMAIN active : active[x] = poll.active[x]
        /\ active \in [DOMAIN active -> ListStatuses]
    BY <1>3 DEF Restrict
  <2>4. active \in Maps
    BY <1>3, <2>3, MapIs
  <2>5. /\ status \in ListStatuses
        /\ status = "needs_input" =>
               \/ poll.active[t] = "needs_input"
               \/ s \in DOMAIN poll.roots /\ poll.roots[s] = "needs_input"
        /\ poll.active[t] = "needs_input" => status = "needs_input"
        /\ s \in DOMAIN poll.roots /\ poll.roots[s] = "needs_input" => status = "needs_input"
    BY <1>3, <1>4 DEF RootStatus
  <2> HIDE DEF status, active, cache, visited
  <2>6. /\ DOMAIN roots = DOMAIN poll.roots \cup {s} /\ roots[s] = status
        /\ \A r \in DOMAIN poll.roots : r # s => roots[r] = poll.roots[r]
        /\ roots \in [DOMAIN roots -> ListStatuses]
    BY <1>3, <2>5
  <2>7. roots \in Maps
    BY <1>3, <1>5, <2>6, MapIs
  <2> HIDE DEF roots
  <2>8. /\ poll' \in Polls /\ poll'.phase = "aggregate" /\ poll'.active = active
        /\ poll'.roots = roots /\ poll'.seen = poll.seen
    BY <1>1, <1>7, <2>1, <2>4, <2>7 DEF Polls, Phases
  <2>9. s \in history.active /\ (status = "needs_input" => s \in history.asked)
    BY <1>1, <1>4, <2>2, <2>5 DEF Honest
  <2>10. Honest(poll')
    BY <1>1, <2>3, <2>6, <2>8, <2>9 DEF Honest
  <2>11. ASSUME NEW x \in Steady, Counted(poll, x)
         PROVE  Counted(poll', x)
    <3>1. CASE x = t /\ x \in DOMAIN poll.active /\
               (server.state[x] \in Asking => poll.active[x] = "needs_input")
      BY <2>2, <2>5, <2>6, <2>8, <3>1 DEF Counted
    <3>2. CASE x # t /\ x \in DOMAIN poll.active /\
               (server.state[x] \in Asking => poll.active[x] = "needs_input")
      BY <2>3, <2>8, <3>2 DEF Counted
    <3>3. CASE /\ RootOf(x) \in DOMAIN poll.roots
               /\ server.state[x] \in Asking => poll.roots[RootOf(x)] = "needs_input"
      BY <2>5, <2>6, <2>8, <3>3 DEF Counted
    <3> QED
      BY <2>11, <3>1, <3>2, <3>3 DEF Counted
  <2>12. NothingMissed(poll')
    BY <1>1, <2>8, <2>11 DEF NothingMissed, Asking
  <2>13. Pending(poll') /\ Walk(poll')
    BY <1>1, <2>8 DEF Pending, Walk, Asking
  <2> QED
    BY <2>8, <2>10, <2>12, <2>13 DEF Good
<1> QED
  BY <1>8, <1>9

\* The server goes on: what it was is in the history, and what changes is not
\* steady any more.
LEMMA ServerChangesKept ==
    ASSUME IInv, ServerChanges
    PROVE  IInv'
<1> DEFINE busy == {x \in Sessions : server'.state[x] \in Busy}
<1>1. /\ server \in Servers /\ history.steady \subseteq Sessions /\ Observed
      /\ poll \in Polls /\ Honest(poll) /\ NothingMissed(poll) /\ Pending(poll) /\ Walk(poll)
  BY DEF IInv, Types, Good
<1>2. poll' = poll /\ history' = Observe(history, server')
  BY DEF ServerChanges
<1>3. server' \in Servers /\ server'.parent = server.parent
  <2>1. CASE \E s \in Sessions, state \in States :
                 server' = [server EXCEPT !.state[s] = state]
    <3>1. PICK s \in Sessions, state \in States : server' = [server EXCEPT !.state[s] = state]
      BY <2>1
    <3>2. server' = [server EXCEPT !.state = [server.state EXCEPT ![s] = state]]
      BY <3>1
    <3>3. [server.state EXCEPT ![s] = state] \in [Sessions -> States]
      BY <1>1 DEF Servers
    <3> QED
      BY <1>1, <3>2, <3>3 DEF Servers
  <2>2. CASE server' = [server EXCEPT !.up = ~@]
    BY <1>1, <2>2 DEF Servers
  <2> QED
    BY <2>1, <2>2 DEF ServerChanges
<1>4. /\ \A s : RootOf(s)' = RootOf(s)
      /\ \A s : Lineage(s)' = Lineage(s)
  BY <1>3, SameRoots
<1>5. /\ history'.steady = {x \in history.steady : server'.state[x] = server.state[x]}
      /\ history'.active = history.active \cup {RootOf(x) : x \in busy}
      /\ history'.asked = history.asked \cup
             {RootOf(x) : x \in {y \in busy : server'.state[y] \in Asking}}
  BY <1>2 DEF Observe
<1>6. \A s \in Sessions :
          /\ server'.state[s] \in Busy => RootOf(s) \in history'.active
          /\ server'.state[s] \in Asking => RootOf(s) \in history'.asked
  BY <1>5 DEF Busy
<1>7. /\ history.active \subseteq history'.active /\ history.asked \subseteq history'.asked
  BY <1>5
<1>8. \A s : s \in Steady' => s \in Steady /\ server'.state[s] = server.state[s]
  BY <1>5 DEF Steady
<1>9. Types' /\ Observed'
  BY <1>1, <1>2, <1>3, <1>4, <1>5, <1>6 DEF Types, Observed
<1>10. Honest(poll)'
  BY <1>1, <1>2, <1>4, <1>7 DEF Honest
<1>11. \A s : s \in Steady' /\ Counted(poll, s) => Counted(poll, s)'
  BY <1>2, <1>4, <1>8 DEF Counted
<1>12. NothingMissed(poll)'
  BY <1>1, <1>2, <1>8, <1>11 DEF NothingMissed
<1>13. Pending(poll)' /\ Walk(poll)'
  BY <1>1, <1>2, <1>3, <1>4 DEF Pending, Walk
<1> QED
  BY <1>1, <1>2, <1>9, <1>10, <1>12, <1>13 DEF IInv, Good

\* A poll begins, and the history with it.
LEMMA PollBeginsKept ==
    ASSUME IInv, PollBegins, UNCHANGED server
    PROVE  IInv'
<1>1. server \in Servers
  BY DEF IInv, Types
<1>2. /\ poll' = [Waiting EXCEPT !.phase = "discovery"]
      /\ history' = Observe([steady |-> Sessions, active |-> {}, asked |-> {}], server)
  BY DEF PollBegins, Go
<1>3. /\ poll' \in Polls /\ poll'.phase = "discovery" /\ poll'.active = <<>>
      /\ poll'.roots = <<>> /\ poll'.seen = {}
  BY <1>2, Rests DEF Polls, Phases
<1>4. /\ \A s : RootOf(s)' = RootOf(s)
      /\ \A s : Lineage(s)' = Lineage(s)
  BY SameRoots
<1>5. Types' /\ Observed'
  BY <1>1, <1>2, <1>3, <1>4 DEF Types, Observed, Observe, Busy
<1>6. Honest(poll)'
  BY <1>3, NoMap DEF Honest
<1>7. NothingMissed(poll)' /\ Pending(poll)' /\ Walk(poll)'
  BY <1>3 DEF NothingMissed, Pending, Walk, Asking
<1> QED
  BY <1>3, <1>5, <1>6, <1>7 DEF IInv, Good

-----------------------------------------------------------------------------
(* Theorems                                                                 *)

\* The invariant begins true.
LEMMA Begins == PollerInit => IInv
<1> SUFFICES ASSUME PollerInit PROVE IInv
  OBVIOUS
<1>1. PICK parent \in Ancestries, up \in BOOLEAN :
          server = [up |-> up, state |-> [s \in Sessions |-> "idle"], parent |-> parent]
  BY DEF PollerInit
<1>2. parent \in [Sessions -> Sessions \cup {NoSession}]
  BY PollerAssumption
<1>3. server \in Servers /\ \A s \in Sessions : server.state[s] = "idle"
  BY <1>1, <1>2 DEF Servers, States
<1>4. poll = Waiting /\ history = [steady |-> Sessions, active |-> {}, asked |-> {}]
  BY DEF PollerInit
<1>5. Good(poll) /\ poll \in Polls
  BY <1>4, Rests
<1>6. Observed
  BY <1>3 DEF Observed, Busy, Asking
<1> QED
  BY <1>3, <1>4, <1>5, <1>6 DEF IInv, Types

\* A step of the poller keeps the invariant.
LEMMA PollStepKept ==
    ASSUME IInv, PollStep
    PROVE  IInv'
<1>1. UNCHANGED server
  BY DEF PollStep
<1>2. CASE PollBegins
  BY <1>1, <1>2, PollBeginsKept
<1>3. ASSUME Fail PROVE Good(poll')
  BY <1>3, Rests DEF Fail
<1>4. CASE Unreachable
  BY <1>1, <1>3, <1>4, Kept DEF Unreachable
<1>5. CASE Discover
  BY <1>1, <1>5, DiscoverGood, Kept DEF Discover, Answered
<1>6. CASE ListProjects
  BY <1>1, <1>6, ListProjectsGood, Kept DEF ListProjects, Answered
<1>7. CASE SkipWorktree
  BY <1>1, <1>7, SkipWorktreeGood, Kept DEF SkipWorktree
<1>8. CASE ReadStatus
  BY <1>1, <1>8, ReadStatusGood, Kept DEF ReadStatus, Answered
<1>9. ASSUME NEW endpoint \in Asking, ReadRequests(endpoint) PROVE IInv'
  BY <1>1, <1>9, ReadRequestsGood, Kept DEF ReadRequests, Answered
<1>10. CASE TakeSession
  BY <1>1, <1>10, TakeSessionGood, Kept DEF TakeSession
<1>11. CASE ReadSession
  BY <1>1, <1>3, <1>11, WalkOnGood, Kept DEF ReadSession, Answered
<1>12. CASE RememberSession
  BY <1>1, <1>3, <1>12, WalkOnGood, Kept DEF RememberSession
<1> QED
  BY <1>2, <1>4, <1>5, <1>6, <1>7, <1>8, <1>9, <1>10, <1>11, <1>12 DEF PollStep

\* Every step keeps the invariant.
LEMMA Stays == IInv /\ [PollerNext]_pollerVars => IInv'
<1> SUFFICES ASSUME IInv, [PollerNext]_pollerVars PROVE IInv'
  OBVIOUS
<1>1. ASSUME UNCHANGED <<server, poll, history>> PROVE IInv'
  BY <1>1, Kept DEF IInv
<1>2. CASE ServerChanges
  BY <1>2, ServerChangesKept
<1>3. CASE PollStep
  BY <1>3, PollStepKept
<1>4. CASE Receive \/ Snapshot \/ UNCHANGED pollerVars
  BY <1>1, <1>4 DEF Receive, Snapshot, pollerVars
<1> QED
  BY <1>2, <1>3, <1>4 DEF PollerNext

\* What a poll is about to tell is true of the time it took.
LEMMA Truth == IInv => PollsTellTruth
<1> SUFFICES ASSUME IInv, poll.phase = "aggregate", DOMAIN poll.active = {}
             PROVE  /\ DOMAIN poll.roots \subseteq history.active
                    /\ {r \in DOMAIN poll.roots : poll.roots[r] = "needs_input"}
                           \subseteq history.asked
                    /\ \A s \in Steady :
                           /\ RootOf(s) \in DOMAIN poll.roots
                           /\ server.state[s] \in Asking =>
                                  poll.roots[RootOf(s)] = "needs_input"
  BY DEF PollsTellTruth, Steady
<1>1. Honest(poll) /\ NothingMissed(poll) /\ Pending(poll) /\ history.steady \subseteq Sessions
  BY DEF IInv, Good, Types
<1>2. \A s \in Sessions : Home[s] \in Worktrees
  BY PollerAssumption DEF Worktrees
<1>3. \A s \in Steady : s \in Sessions
  BY <1>1 DEF Steady
<1>4. \A s \in Steady : Counted(poll, s)
  BY <1>1, <1>2, <1>3 DEF NothingMissed, Pending
<1> QED
  BY <1>1, <1>4 DEF Honest, Counted

\* A poll takes many requests while the server goes on, and its update still
\* says nothing that was not so at some time during the poll and misses no
\* session that was active, or waited for input, all that time.
THEOREM PollsAlwaysTellTruth == PollerSpec => []PollsTellTruth
<1>1. PollerSpec => []IInv
  BY Begins, Stays, PTL DEF PollerSpec
<1> QED
  BY <1>1, Truth, PTL

\* No order of the updates of the source and of the snapshots of the panes gives
\* a session that a pane is attached to a second row.
THEOREM AlwaysAttachedOnce == PollerSpec => []AttachedOnce
<1>1. PollerInit => AttachedOnce
  BY DEF PollerInit, AttachedOnce
<1>2. AttachedOnce /\ [PollerNext]_pollerVars => AttachedOnce'
  <2> SUFFICES ASSUME AttachedOnce, [PollerNext]_pollerVars PROVE AttachedOnce'
    OBVIOUS
  <2>1. \A records, panes : DOMAIN Listed(records, panes) \cap panes = {}
    BY DEF Listed, Restrict
  <2>2. CASE Receive
    BY <2>1, <2>2 DEF Receive, AttachedOnce
  <2>3. CASE Snapshot
    BY <2>1, <2>3 DEF Snapshot, ListedInSnapshot, AttachedOnce
  <2>4. CASE UNCHANGED <<shown, attached>>
    BY <2>4 DEF AttachedOnce
  <2>5. ServerChanges \/ PollStep \/ UNCHANGED pollerVars => UNCHANGED <<shown, attached>>
    BY DEF ServerChanges, PollStep, pollerVars
  <2> QED
    BY <2>2, <2>3, <2>4, <2>5 DEF PollerNext
<1> QED
  BY <1>1, <1>2, PTL DEF PollerSpec
================================================================================
