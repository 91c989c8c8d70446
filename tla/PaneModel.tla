------------------------------- MODULE PaneModel -------------------------------
(***************************************************************************)
(* What the dashboard makes of a snapshot: the records that parse keeps    *)
(* (pane-dash/src/snapshot.rs), the Model built from them and its rows     *)
(* (model.rs), and the rows a filter leaves (filter.rs).                   *)
(*                                                                         *)
(* Ids, names and times are numbers. Of the texts of a pane, the command   *)
(* is whether it matches the pattern, and the rest is one value. A window  *)
(* has no name of its own. Score is the fuzzy matcher, external: 0 is no   *)
(* match. The content hash is the value that it hashes.                    *)
(***************************************************************************)
EXTENDS Integers, Sequences, FiniteSets, SequencesExt

CONSTANTS
    Never,          \* a time that does not come: an absent timestamp
    StaleSecs,      \* @dash_stale_secs
    Score(_, _)     \* of a query and a row

None == 0   \* no pane, no session

\* The order of pairs and longer tuples of numbers.
Less(a, b) ==
    \E i \in DOMAIN a : a[i] < b[i] /\ \A j \in 1..(i - 1) : a[j] = b[j]

\* The tuples of a finite set, which have the same length, in their order.
InOrder(S) ==
    [k \in 1..Cardinality(S) |->
        CHOOSE t \in S : Cardinality({u \in S : Less(u, t)}) = k - 1]

\* The elements of a sequence at the indices that end the tuples, in the order of
\* these: sort_by, which is stable, is an order that ends with the index.
Arranged(s, S) ==
    LET order == InOrder(S)
    IN  [k \in DOMAIN order |-> s[Last(order[k])]]

\* The elements at some indices.
Only(s, indices) ==
    [k \in 1..Cardinality(indices) |->
        s[CHOOSE i \in indices : Cardinality({j \in indices : j < i}) = k - 1]]

Elapsed(since, now) == IF now > since THEN now - since ELSE 0

-----------------------------------------------------------------------------
(* A snapshot                                                               *)

\* Each line of a response is whole, or damaged with the id of its pane still
\* legible, or damaged beyond that.
Parse(lines) ==
    LET whole == {i \in DOMAIN lines : lines[i].form = "whole"}
        damaged == DOMAIN lines \ whole
        lost == {i \in damaged : lines[i].form = "lost"}
        records == [i \in DOMAIN lines |-> lines[i].record]
    IN  [records |-> Only(records, whole),
         raw |-> {records[i].pane : i \in whole},
         ambiguous |-> {records[i].pane : i \in damaged \ lost},
         dropped |-> Cardinality(damaged),
         unattributable |-> Cardinality(lost)]

Fresh(record, now) ==
    record.heartbeat # Never /\ Elapsed(record.heartbeat, now) <= StaleSecs

IsDiscovered(record, now) ==
    \/ record.tag
    \/ /\ record.status # "hidden"
       /\ \/ record.status # "" /\ Fresh(record, now)
          \/ record.matches

DeriveStatus(record, now) ==
    IF record.status # "" /\ ~Fresh(record, now) THEN "stale"
    ELSE IF record.status \in {"working", "needs_input", "idle", "error"} THEN record.status
    ELSE "unknown"

-----------------------------------------------------------------------------
(* The model                                                                *)

PaneOf(record, now) ==
    [text |-> record.text, tag |-> record.tag, dead |-> record.dead,
     opencode |-> record.opencode, status |-> DeriveStatus(record, now),
     since |-> record.since]

MembershipOf(record) ==
    [session |-> record.session, window |-> record.window, pane |-> record.pane,
     windex |-> record.windex, pindex |-> record.pindex, active |-> record.active]

\* The headless sessions that no pane is attached to, each once, by id.
Unattached(headless, panes) ==
    LET attached == {panes[p].opencode : p \in DOMAIN panes} \ {None}
        first == {i \in DOMAIN headless :
                      /\ headless[i].id \notin attached
                      /\ \A j \in 1..(i - 1) : headless[j].id # headless[i].id}
    IN  Arranged(headless, {<<headless[i].id, i>> : i \in first})

\* build_complete. The last record of a pane tells its texts.
Build(records, headless, now, ephemeral) ==
    LET kept == Only(records, {i \in DOMAIN records :
                                   \/ IsDiscovered(records[i], now)
                                   \/ ~records[i].dead /\ records[i].pane \in ephemeral})
        lastOf(pane) == Max({i \in DOMAIN kept : kept[i].pane = pane})
        lastIn(session) == Max({i \in DOMAIN kept : kept[i].session = session})
        panes == [p \in {kept[i].pane : i \in DOMAIN kept} |-> PaneOf(kept[lastOf(p)], now)]
    IN  [grouped |-> \A i \in DOMAIN records : records[i].group,
         memberships |-> [i \in DOMAIN kept |-> MembershipOf(kept[i])],
         panes |-> panes,
         sessions |-> [s \in {kept[i].session : i \in DOMAIN kept} |-> kept[lastIn(s)].name],
         headless |-> Unattached(headless, panes)]

ReplaceHeadless(model, headless) ==
    [model EXCEPT !.headless = Unattached(headless, model.panes)]

\* hash_content: the order of the memberships is not part of it.
ContentHash(model) ==
    <<model.grouped, model.sessions,
      [m \in ToSet(model.memberships) |->
          <<Cardinality({i \in DOMAIN model.memberships : model.memberships[i] = m}),
            model.panes[m.pane]>>],
      model.headless>>

-----------------------------------------------------------------------------
(* The rows                                                                 *)

\* What names a row: Focus.
Focus(kind, session, window, pane) ==
    [kind |-> kind, session |-> session, window |-> window, pane |-> pane]
NoFocus == Focus("none", None, None, None)
HeadlessHeader == Focus("headlessHeader", None, None, None)
Headless(id) == Focus("headless", id, None, None)
Header(session) == Focus("header", session, None, None)
PaneFocus(m) == Focus("pane", m.session, m.window, m.pane)

PaneRow(model, m) ==
    [focus |-> PaneFocus(m), at |-> m, pane |-> model.panes[m.pane],
     status |-> model.panes[m.pane].status, since |-> model.panes[m.pane].since]

HeadlessRow(h) ==
    [focus |-> Headless(h.id), text |-> h.text, status |-> h.status, since |-> h.since]

\* Of a header, the statuses of what it stands for.
HeaderRow(focus, name, statuses) ==
    [focus |-> focus, name |-> name, since |-> Never, count |-> Cardinality(DOMAIN statuses),
     working |-> Cardinality({i \in DOMAIN statuses : statuses[i] = "working"})]

StatusPriority(status) ==
    CASE status = "needs_input" -> 0 [] status = "error" -> 1 [] status = "working" -> 2
      [] status = "idle" -> 3 [] status = "unknown" -> 4 [] status = "stale" -> 5

Urgency(x) == <<StatusPriority(x.status), x.since>>

SessionHeader(model, session) ==
    HeaderRow(Header(session), model.sessions[session],
              [i \in {j \in DOMAIN model.memberships : model.memberships[j].session = session} |->
                  model.panes[model.memberships[i].pane].status])

HeadlessRows(model) == [i \in DOMAIN model.headless |-> HeadlessRow(model.headless[i])]

\* The order of grouped rows: sessions by name, then id, of each its header, then
\* its panes.
HeaderOrder(model, session) == <<model.sessions[session], session, 0, 0, 0, 0>>
GroupedOrder(model, i) ==
    LET m == model.memberships[i]
    IN  <<model.sessions[m.session], m.session, 1, m.windex, m.pindex, i>>

GroupedRows(model) ==
    LET headless == HeadlessRows(model)
        header == HeaderRow(HeadlessHeader, None, [i \in DOMAIN headless |-> headless[i].status])
        order == InOrder({HeaderOrder(model, s) : s \in DOMAIN model.sessions}
                         \cup {GroupedOrder(model, i) : i \in DOMAIN model.memberships})
        row(place) == IF place[3] = 0 THEN SessionHeader(model, place[2])
                      ELSE PaneRow(model, model.memberships[place[6]])
    IN  (IF headless = <<>> THEN <<>> ELSE <<header>> \o headless)
        \o [k \in DOMAIN order |-> row(order[k])]

TopologyOrder(m) == <<m.session, m.windex, m.pindex, m.window, m.pane>>

FlatOrder(model, m) == Urgency(model.panes[m.pane]) \o TopologyOrder(m)

\* Headless sessions come after the panes that are as urgent.
FlatRows(model) ==
    LET places == {Append(FlatOrder(model, model.memberships[i]), i) :
                       i \in DOMAIN model.memberships}
        members == Arranged(model.memberships, places)
        rows == [i \in DOMAIN members |-> PaneRow(model, members[i])] \o HeadlessRows(model)
    IN  Arranged(rows, {Append(Urgency(rows[i]), i) : i \in DOMAIN rows})

Rows(model, grouped) == IF grouped THEN GroupedRows(model) ELSE FlatRows(model)

IsHeader(row) == row.focus.kind \in {"header", "headlessHeader"}

\* The group that a header begins.
InGroup(header, row) ==
    \/ /\ header.focus.kind = "header" /\ row.focus.kind = "pane"
       /\ header.focus.session = row.focus.session
    \/ header.focus.kind = "headlessHeader" /\ row.focus.kind = "headless"

\* The rows that match a query, the best first, under their headers when
\* grouped.
Matching(rows, grouped, query) ==
    LET found == {i \in DOMAIN rows :
                      ~IsHeader(rows[i]) /\ Score(query, rows[i]) \in Nat \ {0}}
        rank(i) == -Score(query, rows[i])
        groups == {g \in (DOMAIN rows) \X found : InGroup(rows[g[1]], rows[g[2]])}
    IN  Arranged(rows, IF ~grouped THEN {<<rank(i), i>> : i \in found}
                       ELSE {<<g[1], 0, 0, g[1]>> : g \in groups}
                            \cup {<<g[1], 1, rank(g[2]), g[2]>> : g \in groups})

\* ranked_row_indices
RankedRows(model, grouped, query) ==
    IF query = <<>> THEN Rows(model, grouped)
    ELSE Matching(Rows(model, grouped), grouped, query)
=============================================================================
