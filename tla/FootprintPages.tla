---------------------------- MODULE FootprintPages ----------------------------
(***************************************************************************)
(* A data recipient walks through the footprints of a node, page by page,  *)
(* while the node's records change (getFootprints of                       *)
(* apps/api/src/services/internal-node-pact-service.ts and its route; the  *)
(* writers are footprint-service.ts and the exchange of footprints).       *)
(*                                                                         *)
(* The server keeps nothing between two pages, and counts and selects in   *)
(* two statements.  The recipient either follows a link of the answer as   *)
(* it is, or repeats its own query with the offset the link names.  Links  *)
(* carry limit and offset, not the filter.                                 *)
(*                                                                         *)
(* Rows are ordered by the time they were stamped with, the newest first;  *)
(* rows with the same stamp come in an order that each statement chooses   *)
(* anew.  A stamp is taken by the handler before its INSERT is executed,   *)
(* so a row may arrive with a stamp older than that of a row already       *)
(* there; the rows of one import are stamped within a millisecond.         *)
(*                                                                         *)
(* Left out: the check of the access token (NodeConnections), and negative *)
(* limits and offsets, which the database refuses.                         *)
(***************************************************************************)
EXTENDS FootprintQuery

CONSTANTS Rows,       \* ids of the footprints of one node
          Data,       \* contents a footprint may have
          Filters,    \* queries of the recipient
          Limits,     \* limits it asks for
          Stamps,     \* bound: the times of insertion
          Changes,    \* bound: how often the records change during one walk
          Dates       \* bound: the days a validity is asked for

ASSUME RowsAssumption   == IsFiniteSet(Rows)
ASSUME FiltersAssumption == NoFilter \in Filters
ASSUME DataAssumption ==
  \A d \in Data : {d.start, d.end, d.refEnd} \subseteq Int \cup {None}
ASSUME LimitsAssumption == Limits \subseteq Nat \cup {None}
ASSUME StampsAssumption == Stamps \subseteq Nat
ASSUME ChangesAssumption == Changes \in Nat
ASSUME DatesAssumption  == Dates \subseteq Int
ASSUME RowAssumption    == None \notin [at : Stamps, data : Data]

VARIABLES table,    \* the node's product_footprints: id -> row, or None
          walk,     \* the recipient: its query, the request on its way, the last answer
          steady,   \* history: rows that were there to be found all along the walk
          shown,    \* history: how often the walk has shown each row (bound: 2)
          since,    \* history: what has happened during the walk
          changes   \* ... and how many changes of the records

history == <<steady, shown, since, changes>>
vars    == <<table, walk, history>>

Row == [at : Stamps, data : Data]

Events == {"entered",      \* a row came to be among those to be found
           "left",         \* one ceased to be
           "torn",         \* either happened between the count and the select
           "jumped",       \* the walk did not keep to "next"
           "unfiltered"}   \* it followed a link that forgot its filter

Phases == {"idle", "asked", "counted", "answered"}

Walk == [phase : Phases,
         filter : Filters,                       \* what the recipient asked for,
         sent : Filters \cup {NoFilter},         \* what the request says
         limit : Nat, offset : Nat,
         total : Nat,                            \* the count of the running request
         links : [Relations -> Nat \cup {None}],  \* those of the last answer
         via : Relations \cup {"start"}]

-----------------------------------------------------------------------------
(* What a statement finds.                                                 *)

There(r) == table[r] # None

Found(f) == {r \in Rows : There(r) /\ Matches(table[r].data, f)}

\* how one statement orders rows with the same stamp
TieBreaks == {t \in [Rows -> 1 .. Cardinality(Rows)] :
                \A q, r \in Rows : t[q] = t[r] => q = r}

\* ORDER BY createdAt DESC
SortsBefore(q, r, t) == \/ table[q].at > table[r].at
                        \/ table[q].at = table[r].at /\ t[q] < t[r]

Rank(r, S, t) == Cardinality({q \in S : SortsBefore(q, r, t)})

\* faulty variant: the page starts one row late
PageOffByOne(f, limit, offset, t) ==
  {r \in Found(f) : Rank(r, Found(f), t) \in offset + 1 .. offset + limit}

\* LIMIT ... OFFSET ...
Page(f, limit, offset, t) ==
  {r \in Found(f) : Rank(r, Found(f), t) \in offset .. offset + limit - 1}

-----------------------------------------------------------------------------
(* The recipient.                                                          *)

Unseen == [r \in Rows |-> 0]

\* Nothing is claimed of what a walk shows once it has left the order of its
\* pages, or rows were taken from under it: the history forgets.
Spoilt(e) == e \cap {"left", "torn", "jumped"} # {}

Unstarted == [phase |-> "idle", filter |-> NoFilter, sent |-> NoFilter,
              limit |-> DefaultLimit, offset |-> 0, total |-> 0,
              links |-> NoLinks, via |-> "start"]

Ask(f, l) ==
  /\ walk.phase = "idle"
  /\ walk' = [Unstarted EXCEPT !.phase = "asked", !.filter = f, !.sent = f,
                               !.limit = Limit(l)]
  /\ steady' = Found(f)
  /\ shown' = Unseen
  /\ since' = {}
  /\ changes' = 0
  /\ UNCHANGED table

\* the next request: to where a link of the last answer leads
Continue(rel, f) ==
  /\ walk.phase = "answered"
  /\ walk.links[rel] # None
  /\ walk' = [walk EXCEPT !.phase = "asked", !.sent = f,
                          !.offset = walk.links[rel], !.via = rel,
                          !.links = NoLinks]
  /\ since' = since \cup {e \in {"jumped"} : rel # "next"}
                    \cup {e \in {"unfiltered"} : f # walk.filter}
  /\ steady' = IF Spoilt(since') THEN {} ELSE steady
  /\ shown' = IF Spoilt(since') THEN Unseen ELSE shown
  /\ UNCHANGED <<table, changes>>

\* ?limit=...&offset=... is all a link says
Follow(rel) == Continue(rel, NoFilter)

\* listFootprints(filters, {limit, offset}) with the offset moved on
Repeat(rel) == Continue(rel, walk.filter)

Leave ==
  /\ walk.phase = "answered"
  /\ walk' = Unstarted
  /\ steady' = {}
  /\ shown' = Unseen
  /\ since' = {}
  /\ changes' = 0
  /\ UNCHANGED table

-----------------------------------------------------------------------------
(* getFootprints: count, then select.                                      *)

CountRows ==
  /\ walk.phase = "asked"
  /\ walk' = [walk EXCEPT !.phase = "counted", !.total = Cardinality(Found(walk.sent))]
  /\ UNCHANGED <<table, history>>

Shown(P) == [r \in Rows |-> IF r \in P /\ shown[r] < 2 THEN shown[r] + 1 ELSE shown[r]]

SelectPage(t) ==
  LET P == Page(walk.sent, walk.limit, walk.offset, t)
  IN /\ walk.phase = "counted"
     /\ walk' = [walk EXCEPT !.phase = "answered", !.total = 0,
                             !.links = Links(walk.total, walk.limit, walk.offset)]
     /\ shown' = IF Spoilt(since) THEN shown ELSE Shown(P)
     /\ UNCHANGED <<table, steady, since, changes>>

\* the request or its answer is lost, and made again
AskAgain ==
  /\ walk.phase = "counted"
  /\ walk' = [walk EXCEPT !.phase = "asked", !.total = 0]
  /\ UNCHANGED <<table, history>>

-----------------------------------------------------------------------------
(* The records change under the walk.                                      *)

\* what a change of the records means for the walk
Observe ==
  LET entered == Found(walk.filter)' \ Found(walk.filter)
      left    == Found(walk.filter) \ Found(walk.filter)'
  IN /\ UNCHANGED walk
     /\ IF walk.phase = "idle"
        THEN UNCHANGED history
        ELSE /\ changes < Changes
             /\ changes' = changes + 1
             /\ since' = since \cup {e \in {"entered"} : entered # {}}
                  \cup {e \in {"left"} : left # {}}
                  \cup {e \in {"torn"} : walk.phase = "counted" /\ entered \cup left # {}}
             /\ steady' = IF Spoilt(since') THEN {} ELSE steady \ left
             /\ shown' = IF Spoilt(since') THEN Unseen ELSE shown

\* create, import and the upserts of the exchange: the rows of one INSERT
Insert(P, at, data) ==
  /\ P # {} /\ \A r \in P : ~There(r)
  /\ table' = [r \in Rows |-> IF r \in P THEN [at |-> at[r], data |-> data[r]] ELSE table[r]]
  /\ Observe

\* ON CONFLICT (id, node_id) DO UPDATE SET data, updated_at
Rewrite(r, d) ==
  /\ There(r)
  /\ table' = [table EXCEPT ![r].data = d]
  /\ Observe

Delete(r) ==
  /\ There(r)
  /\ table' = [table EXCEPT ![r] = None]
  /\ Observe

-----------------------------------------------------------------------------
Init == /\ table  = [r \in Rows |-> None]
        /\ walk   = Unstarted
        /\ steady = {}
        /\ shown  = Unseen
        /\ since  = {}
        /\ changes = 0

Recipient == \/ \E f \in Filters, l \in Limits : Ask(f, l)
             \/ \E rel \in Relations : Follow(rel) \/ Repeat(rel)
             \/ Leave

Server == CountRows \/ (\E t \in TieBreaks : SelectPage(t)) \/ AskAgain

Writers == \/ \E P \in SUBSET Rows : \E at \in [P -> Stamps], data \in [P -> Data] :
                Insert(P, at, data)
           \/ \E r \in Rows : Delete(r) \/ \E d \in Data : Rewrite(r, d)

Next == Recipient \/ Server \/ Writers

Spec == Init /\ [][Next]_vars
-----------------------------------------------------------------------------
(* Properties.                                                             *)

\* Every row and every request has the shape its table or handler gives it.
TypeOK == /\ table \in [Rows -> Row \cup {None}]
          /\ walk \in Walk
          /\ steady \subseteq Rows
          /\ shown \in [Rows -> 0 .. 2]
          /\ since \subseteq Events
          /\ changes \in 0 .. Changes

\* the recipient has been given a page without a link to a next one
Finished == walk.phase = "answered" /\ walk.links["next"] = None

\* no two rows to be found have the same stamp
Untied == \A q, r \in Found(walk.filter) : table[q].at = table[r].at => q = r

\* Rows inserted between two pages, wherever their stamps put them, never
\* make a walk miss a row that was there all along: offsets only lag behind.
InsertsOnlyRepeat ==
  Finished /\ since \subseteq {"entered"} /\ Untied => \A r \in steady : shown[r] > 0

\* A walk over records that do not change, and whose stamps differ, shows
\* every footprint that matches its query exactly once, and no other.
QuietWalkIsExact ==
  Finished /\ since = {} /\ Untied
    => \A r \in Rows : shown[r] = IF r \in Found(walk.filter) THEN 1 ELSE 0

\* The link to the last page leads to a page with the oldest row on it and
\* nothing after it, wherever in the list it was found.
LastHoldsTheEnd ==
  walk.phase = "counted" /\ walk.via = "last" /\ since = {"jumped"} /\ Untied
    => /\ ~MoreAfter(walk.total, walk.limit, walk.offset)
       /\ \A t \in TieBreaks : \E r \in Page(walk.sent, walk.limit, walk.offset, t) :
            \A q \in Found(walk.filter) : table[q].at >= table[r].at

\* "ListFootprints ... can specify various criteria to filter the list", with
\* the example of a next link that keeps the geography asked for: while the
\* records stay as they are, a walk shows nothing that its query excludes.
FilterKept ==
  since \cap {"entered", "left"} = {}
    => \A r \in Rows : shown[r] > 0 => r \in Found(walk.filter)

\* For any date, each dated footprint is valid before, on or after it, and
\* only one of these: the three filters split the records between them.
ValiditySplits ==
  \A r \in Rows, d \in Dates : There(r) => Splits(table[r].data, d)
=============================================================================
