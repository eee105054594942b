------------------------- MODULE FootprintPagesProofs -------------------------
(***************************************************************************)
(* Proofs about FootprintQuery and FootprintPages, for every set of rows,  *)
(* contents, filters and limits.                                           *)
(*                                                                         *)
(* That insertions never make a walk lose a row rests on one fact about    *)
(* offsets, kept by every step (Lag): as long as nothing was taken from    *)
(* under the walk, every row not shown yet has at least as many newer rows *)
(* before it as the offset the walk goes on from.                          *)
(***************************************************************************)
EXTENDS FootprintPages, FiniteSetTheorems, TLAPS

-----------------------------------------------------------------------------
(* The pure part.                                                          *)

\* The three filters for a date split the dated footprints between them.
THEOREM DateSplits ==
  ASSUME NEW fp, NEW d \in Int,
         fp.start \in Int \cup {None}, fp.end \in Int \cup {None},
         fp.refEnd \in Int \cup {None}
  PROVE  Splits(fp, d)
<1>1. ValidFrom(fp) \in Int \cup {None}
  BY DEF ValidFrom
<1>2. ValidTo(fp) \in Int \cup {None}
  BY IntervalAssumption, NoneAssumption DEF ValidTo
<1> QED
  BY <1>1, <1>2, NoneAssumption
  DEF Splits, ValidOn, ValidBefore, ValidAfter, Before, NotAfter

LEMMA DivisionBounds ==
  ASSUME NEW n \in Nat, NEW m \in Nat \ {0}
  PROVE  /\ n \div m \in Nat
         /\ (n \div m) * m <= n
         /\ n < (n \div m) * m + m
  OBVIOUS

\* The last link lies behind the page it is given with, on a row that
\* exists, and no more than a page from the end.
THEOREM LastIsLast ==
  ASSUME NEW total \in Nat, NEW limit \in Nat \ {0}, NEW offset \in Nat,
         MoreAfter(total, limit, offset)
  PROVE  LET last == LastOffset(total, limit)
         IN /\ last \in Nat
            /\ offset < last /\ last < total
            /\ ~MoreAfter(total, limit, last)
<1> DEFINE q == (total - 1) \div limit
<1>1. total - 1 \in Nat /\ offset + limit < total
  BY DEF MoreAfter
<1>2. q \in Nat /\ q * limit <= total - 1 /\ total - 1 < q * limit + limit
  BY <1>1, DivisionBounds
<1>3. q * limit \in Nat
  BY <1>2
<1> HIDE DEF q
<1>4. LastOffset(total, limit) = q * limit
  BY DEF LastOffset, q
<1> QED
  BY <1>1, <1>2, <1>3, <1>4 DEF MoreAfter

-----------------------------------------------------------------------------
(* The walk.                                                               *)

Unshown == {r \in steady : shown[r] = 0}

Newer(r) == {q \in Found(walk.filter) : table[q].at > table[r].at}

\* nothing has gone wrong with the walk but insertions between its pages
Sound == since \subseteq {"entered"} /\ Untied

LagAt(offset) == \A r \in Unshown : Cardinality(Newer(r)) >= offset

Lag ==
  walk.phase # "idle" /\ Sound =>
    /\ walk.sent = walk.filter
    /\ steady \subseteq Found(walk.filter)
    /\ walk.phase \in {"asked", "counted"} => LagAt(walk.offset)
    /\ walk.phase = "counted" => walk.total = Cardinality(Found(walk.filter))
    /\ walk.phase = "answered" => IF walk.links["next"] = None THEN Unshown = {}
                                  ELSE LagAt(walk.links["next"])

LimitsPositive == walk.limit \in Nat \ {0}

Inv == TypeOK /\ LimitsPositive /\ Lag

LEMMA FoundIsFinite ==
  ASSUME NEW f
  PROVE  /\ IsFiniteSet(Found(f))
         /\ Cardinality(Found(f)) \in Nat
         /\ Found(f) \subseteq Rows
<1>1. Found(f) \subseteq Rows
  BY DEF Found
<1> QED
  BY <1>1, RowsAssumption, FS_Subset, FS_CardinalityType

LEMMA StampOf ==
  ASSUME TypeOK, NEW f, NEW r \in Found(f)
  PROVE  r \in Rows /\ table[r] \in Row /\ table[r].at \in Nat
  BY StampsAssumption DEF TypeOK, Found, There, Row

LEMMA NewerIsSmaller ==
  ASSUME TypeOK, NEW r \in Found(walk.filter)
  PROVE  /\ IsFiniteSet(Newer(r))
         /\ Cardinality(Newer(r)) \in Nat
         /\ Cardinality(Newer(r)) < Cardinality(Found(walk.filter))
<1> DEFINE F == Found(walk.filter)
<1>1. IsFiniteSet(F) /\ Newer(r) \subseteq F
  BY FoundIsFinite DEF Newer
<1>2. r \in F /\ r \notin Newer(r)
  BY StampOf DEF Newer
<1>3. Newer(r) # F
  BY <1>2
<1> QED
  BY <1>1, <1>3, FS_Subset, FS_CardinalityType

\* Without ties every statement ranks a row by the number of newer ones.
LEMMA RankIsAge ==
  ASSUME TypeOK, Untied, NEW r \in Found(walk.filter), NEW t \in TieBreaks
  PROVE  Rank(r, Found(walk.filter), t) = Cardinality(Newer(r))
<1> DEFINE F == Found(walk.filter)
<1>1. \A q \in F : SortsBefore(q, r, t) <=> table[q].at > table[r].at
  <2> TAKE q \in F
  <2>1. q \in Rows /\ r \in Rows /\ table[q].at \in Nat /\ table[r].at \in Nat
    BY StampOf
  <2>2. table[q].at = table[r].at => q = r
    BY DEF Untied
  <2>3. t[q] \in Int
    BY <2>1, RowsAssumption, FS_CardinalityType DEF TieBreaks
  <2> QED
    BY <2>1, <2>2, <2>3 DEF SortsBefore
<1>2. {q \in F : SortsBefore(q, r, t)} = Newer(r)
  BY <1>1 DEF Newer
<1> QED
  BY <1>2 DEF Rank

-----------------------------------------------------------------------------
(* Types.                                                                  *)

LEMMA LinksType ==
  ASSUME NEW total \in Nat, NEW limit \in Nat \ {0}, NEW offset \in Nat
  PROVE  Links(total, limit, offset) \in [Relations -> Nat \cup {None}]
<1> SUFFICES ASSUME NEW rel \in Relations, rel \in Rels(total, limit, offset)
             PROVE  Target(rel, total, limit, offset) \in Nat
  BY DEF Links
<1>1. rel = "last" => LastOffset(total, limit) \in Nat
  BY LastIsLast DEF Rels
<1> QED
  BY <1>1 DEF Target, Relations

LEMMA NoLinksType == NoLinks \in [Relations -> Nat \cup {None}]
  BY DEF NoLinks

LEMMA UnstartedType == Unstarted \in Walk /\ Unstarted.limit \in Nat \ {0}
  BY FiltersAssumption, LimitAssumption, NoLinksType
  DEF Unstarted, Walk, Phases, Relations

LEMMA InitType == Init => TypeOK /\ LimitsPositive
  BY UnstartedType, ChangesAssumption DEF Init, TypeOK, LimitsPositive, Unseen

LEMMA ObserveType ==
  ASSUME TypeOK, LimitsPositive, Observe, table' \in [Rows -> Row \cup {None}]
  PROVE  TypeOK' /\ LimitsPositive'
<1>1. CASE walk.phase = "idle"
  BY <1>1 DEF Observe, TypeOK, LimitsPositive, history
<1>2. CASE walk.phase # "idle"
  <2>1. walk' = walk /\ changes' \in 0 .. Changes
    BY <1>2, ChangesAssumption DEF Observe, TypeOK
  <2>2. steady' \subseteq Rows /\ shown' \in [Rows -> 0 .. 2]
    BY <1>2 DEF Observe, TypeOK, Unseen
  <2>3. since' \subseteq Events
    BY <1>2 DEF Observe, TypeOK, Events
  <2> QED
    BY <2>1, <2>2, <2>3 DEF TypeOK, LimitsPositive
<1> QED
  BY <1>1, <1>2

LEMMA NextType ==
  ASSUME TypeOK, LimitsPositive, [Next]_vars
  PROVE  TypeOK' /\ LimitsPositive'
<1> USE DEF TypeOK, LimitsPositive
<1>1. ASSUME NEW f \in Filters, NEW l \in Limits, Ask(f, l)
      PROVE  TypeOK' /\ LimitsPositive'
  <2>1. Limit(l) \in Nat \ {0}
    BY LimitAssumption, LimitsAssumption DEF Limit
  <2>2. walk' \in Walk /\ walk'.limit \in Nat \ {0}
    BY <1>1, <2>1, UnstartedType DEF Ask, Walk, Phases, Unstarted
  <2>3. steady' \subseteq Rows
    BY <1>1, FoundIsFinite DEF Ask
  <2> QED
    BY <1>1, <2>2, <2>3, ChangesAssumption DEF Ask, Unseen
<1>2. ASSUME NEW rel \in Relations, NEW f \in Filters \cup {NoFilter}, Continue(rel, f)
      PROVE  TypeOK' /\ LimitsPositive'
  <2>1. walk' \in Walk /\ walk'.limit \in Nat \ {0}
    BY <1>2, NoLinksType DEF Continue, Walk, Phases
  <2>2. since' \subseteq Events
    BY <1>2 DEF Continue, Events
  <2>3. steady' \subseteq Rows /\ shown' \in [Rows -> 0 .. 2]
    BY <1>2 DEF Continue, Unseen
  <2> QED
    BY <1>2, <2>1, <2>2, <2>3 DEF Continue
<1>3. CASE Leave
  BY <1>3, UnstartedType, ChangesAssumption DEF Leave, Unseen
<1>4. CASE CountRows
  BY <1>4, FoundIsFinite DEF CountRows, Walk, Phases, history
<1>5. ASSUME NEW t \in TieBreaks, SelectPage(t)
      PROVE  TypeOK' /\ LimitsPositive'
  <2>1. walk.total \in Nat /\ walk.limit \in Nat \ {0} /\ walk.offset \in Nat
    BY DEF Walk
  <2>2. walk' \in Walk /\ walk'.limit \in Nat \ {0}
    BY <1>5, <2>1, LinksType DEF SelectPage, Walk, Phases
  <2>3. shown' \in [Rows -> 0 .. 2]
    BY <1>5 DEF SelectPage, Shown
  <2> QED
    BY <1>5, <2>2, <2>3 DEF SelectPage
<1>6. CASE AskAgain
  BY <1>6 DEF AskAgain, Walk, Phases, history
<1>7. ASSUME NEW P \in SUBSET Rows, NEW at \in [P -> Stamps], NEW data \in [P -> Data],
             Insert(P, at, data)
      PROVE  TypeOK' /\ LimitsPositive'
  <2>1. table' \in [Rows -> Row \cup {None}]
    BY <1>7 DEF Insert, Row
  <2> QED
    BY <1>7, <2>1, ObserveType DEF Insert
<1>8. ASSUME NEW r \in Rows, NEW d \in Data, Rewrite(r, d)
      PROVE  TypeOK' /\ LimitsPositive'
  <2>1. table' \in [Rows -> Row \cup {None}]
    BY <1>8 DEF Rewrite, There, Row
  <2> QED
    BY <1>8, <2>1, ObserveType DEF Rewrite
<1>9. ASSUME NEW r \in Rows, Delete(r)
      PROVE  TypeOK' /\ LimitsPositive'
  <2>1. table' \in [Rows -> Row \cup {None}]
    BY <1>9 DEF Delete
  <2> QED
    BY <1>9, <2>1, ObserveType DEF Delete
<1>10. CASE UNCHANGED vars
  BY <1>10 DEF vars, history
<1> HIDE DEF TypeOK, LimitsPositive
<1>11. walk.filter \in Filters
  BY DEF TypeOK, Walk
<1> QED
  BY <1>1, <1>2, <1>3, <1>4, <1>5, <1>6, <1>7, <1>8, <1>9, <1>10, <1>11
  DEF Next, Recipient, Server, Writers, Follow, Repeat

-----------------------------------------------------------------------------
(* The walk keeps behind what it has not shown.                            *)

\* A change of the records that took nothing and tied nothing leaves every
\* row where it was, or further back.
LEMMA ObserveLag ==
  ASSUME TypeOK, TypeOK', Lag, Observe,
         \A q \in Rows : There(q) /\ There(q)' => table'[q].at = table[q].at
  PROVE  Lag'
<1> SUFFICES ASSUME walk'.phase # "idle", Sound'
             PROVE  /\ walk'.sent = walk'.filter
                    /\ steady' \subseteq Found(walk.filter)'
                    /\ walk'.phase \in {"asked", "counted"} => LagAt(walk.offset)'
                    /\ walk'.phase = "counted"
                         => walk'.total = Cardinality(Found(walk.filter)')
                    /\ walk'.phase = "answered"
                         => IF walk'.links["next"] = None THEN Unshown' = {}
                            ELSE LagAt(walk.links["next"])'
  BY DEF Lag
<1> DEFINE F == Found(walk.filter)
<1>1. walk' = walk /\ walk.phase # "idle"
  BY DEF Observe
<1>2. F \subseteq F'
  BY <1>1 DEF Observe, Sound
<1>3. walk.phase = "counted" => F' = F
  BY <1>1, <1>2 DEF Observe, Sound
<1>4. since \subseteq {"entered"} /\ ~Spoilt(since')
  BY <1>1 DEF Observe, Sound, Spoilt
<1>5. steady' = steady /\ shown' = shown
  <2>1. steady' = steady \ (F \ F') /\ shown' = shown
    BY <1>1, <1>4 DEF Observe
  <2> QED
    BY <2>1, <1>2
<1>6. \A q \in F : q \in Rows /\ There(q) /\ There(q)' /\ table'[q].at = table[q].at
  BY <1>2 DEF Found
<1>7. Untied
  BY <1>1, <1>2, <1>6 DEF Sound, Untied
<1>8. /\ walk.sent = walk.filter
      /\ steady \subseteq F
      /\ walk.phase \in {"asked", "counted"} => LagAt(walk.offset)
      /\ walk.phase = "counted" => walk.total = Cardinality(F)
      /\ walk.phase = "answered" => IF walk.links["next"] = None THEN Unshown = {}
                                    ELSE LagAt(walk.links["next"])
  BY <1>1, <1>4, <1>7 DEF Lag, Sound
<1>9. Unshown' = Unshown
  BY <1>5 DEF Unshown
<1>10. \A r \in Unshown : Cardinality(Newer(r)') >= Cardinality(Newer(r))
  <2> TAKE r \in Unshown
  <2>1. r \in F /\ r \in F'
    BY <1>8, <1>2 DEF Unshown
  <2>2. Newer(r) \subseteq Newer(r)'
    BY <2>1, <1>1, <1>2, <1>6 DEF Newer
  <2>3. IsFiniteSet(Newer(r)') /\ Cardinality(Newer(r)') \in Nat
    <3>1. IsFiniteSet(F')
      <4>1. F' \subseteq Rows
        BY <1>1 DEF Found
      <4> QED
        BY <4>1, RowsAssumption, FS_Subset
    <3>2. Newer(r)' \subseteq F'
      BY <1>1 DEF Newer
    <3> QED
      BY <3>1, <3>2, FS_Subset, FS_CardinalityType
  <2> QED
    BY <2>2, <2>3, FS_Subset
<1>11. ASSUME NEW o \in Nat, LagAt(o)
       PROVE  \A r \in Unshown : Cardinality(Newer(r)') >= o
  <2> TAKE r \in Unshown
  <2>1. r \in F /\ r \in F'
    BY <1>8, <1>2 DEF Unshown
  <2>2. Cardinality(Newer(r)) \in Nat /\ Cardinality(Newer(r)) >= o
    BY <1>11, <2>1, NewerIsSmaller DEF LagAt
  <2>3. Cardinality(Newer(r)') \in Nat
    <3>1. Newer(r)' \subseteq Rows
      BY <1>1 DEF Newer, Found
    <3> QED
      BY <3>1, RowsAssumption, FS_Subset, FS_CardinalityType
  <2> QED
    BY <1>10, <2>2, <2>3
<1>12. walk.offset \in Nat /\ (walk.links["next"] # None => walk.links["next"] \in Nat)
  BY DEF TypeOK, Walk, Relations
<1>13. walk.phase \in {"asked", "counted"} => LagAt(walk.offset)'
  BY <1>1, <1>8, <1>9, <1>11, <1>12 DEF LagAt
<1>14. walk.phase = "answered" => IF walk.links["next"] = None THEN Unshown' = {}
                                  ELSE LagAt(walk.links["next"])'
  BY <1>1, <1>8, <1>9, <1>11, <1>12 DEF LagAt
<1> QED
  BY <1>1, <1>2, <1>3, <1>5, <1>8, <1>13, <1>14

\* A page shows all the rows before the offset it ends at.
LEMMA SelectLag ==
  ASSUME TypeOK, LimitsPositive, Lag, NEW t \in TieBreaks, SelectPage(t)
  PROVE  Lag'
<1> SUFFICES ASSUME Sound'
             PROVE  /\ walk'.sent = walk'.filter
                    /\ steady' \subseteq Found(walk.filter)'
                    /\ IF walk'.links["next"] = None THEN Unshown' = {}
                       ELSE LagAt(walk.links["next"])'
  BY DEF Lag, SelectPage
<1> DEFINE F    == Found(walk.filter)
           P    == Page(walk.sent, walk.limit, walk.offset, t)
           next == walk.offset + walk.limit
<1>1. /\ walk.phase = "counted" /\ table' = table /\ steady' = steady /\ since' = since
      /\ walk'.filter = walk.filter /\ walk'.sent = walk.sent
      /\ walk'.links = Links(walk.total, walk.limit, walk.offset)
  BY DEF SelectPage, TypeOK, Walk
<1>2. F' = F /\ Found(walk.filter)' = F
  BY <1>1 DEF Found, There
<1>3. Untied /\ since \subseteq {"entered"}
  BY <1>1, <1>2 DEF Sound, Untied
<1>4. /\ walk.sent = walk.filter /\ steady \subseteq F
      /\ LagAt(walk.offset) /\ walk.total = Cardinality(F)
  BY <1>1, <1>3 DEF Lag, Sound
<1>5. walk.offset \in Nat /\ walk.limit \in Nat \ {0} /\ walk.total \in Nat
  BY DEF TypeOK, Walk, LimitsPositive
<1>6. shown' = Shown(P)
  BY <1>3 DEF SelectPage, Spoilt
<1>7. \A r \in Unshown' : r \in Unshown /\ r \in F /\ r \notin P
  <2> TAKE r \in Unshown'
  <2>1. r \in steady /\ shown'[r] = 0
    BY <1>1 DEF Unshown
  <2>2. r \in Rows /\ shown[r] \in 0 .. 2
    BY <2>1 DEF TypeOK
  <2>3. r \notin P /\ shown[r] = 0
    BY <1>6, <2>1, <2>2 DEF Shown
  <2> QED
    BY <2>1, <2>3, <1>4 DEF Unshown
<1>8. \A r \in Unshown' : Cardinality(Newer(r)) \in Nat /\ Cardinality(Newer(r)) >= next
  <2> TAKE r \in Unshown'
  <2>1. r \in F /\ r \in Unshown /\ r \notin P
    BY <1>7
  <2>2. Rank(r, F, t) = Cardinality(Newer(r))
    BY <2>1, <1>3, RankIsAge
  <2>3. Cardinality(Newer(r)) \in Nat /\ Cardinality(Newer(r)) >= walk.offset
    BY <2>1, <1>4, NewerIsSmaller DEF LagAt
  <2>4. Rank(r, F, t) \notin walk.offset .. walk.offset + walk.limit - 1
    BY <2>1, <1>4 DEF Page
  <2> QED
    BY <2>2, <2>3, <2>4, <1>5
<1>9. \A r \in Unshown' : next < walk.total
  <2> TAKE r \in Unshown'
  <2>1. Cardinality(Newer(r)) < Cardinality(F)
    BY <1>7, NewerIsSmaller
  <2> QED
    BY <2>1, <1>4, <1>5, <1>8
<1>10. walk'.links["next"] = IF next < walk.total THEN next ELSE None
  BY <1>1 DEF Links, Relations, Rels, Target, MoreAfter
<1>11. \A r \in Unshown' : Newer(r)' = Newer(r)
  BY <1>1, <1>2 DEF Newer
<1>12. CASE next < walk.total
  <2>1. walk'.links["next"] = next /\ next # None
    BY <1>10, <1>12, <1>5, NoneAssumption
  <2>2. LagAt(walk.links["next"])'
    BY <2>1, <1>8, <1>11 DEF LagAt
  <2> QED
    BY <2>1, <2>2, <1>1, <1>2, <1>4
<1>13. CASE ~(next < walk.total)
  <2>1. walk'.links["next"] = None /\ Unshown' = {}
    BY <1>10, <1>13, <1>9
  <2> QED
    BY <2>1, <1>1, <1>2, <1>4
<1> QED
  BY <1>12, <1>13

LEMMA NextLag ==
  ASSUME TypeOK, TypeOK', LimitsPositive, Lag, [Next]_vars
  PROVE  Lag'
<1>1. ASSUME NEW f \in Filters, NEW l \in Limits, Ask(f, l)
      PROVE  Lag'
  <2>1. /\ walk'.phase = "asked" /\ walk'.filter = f /\ walk'.sent = f
        /\ walk'.offset = 0 /\ steady' = Found(f)
    BY <1>1 DEF Ask, Unstarted
  <2>2. Found(walk.filter)' = Found(f)
    BY <1>1, <2>1 DEF Ask, Found, There
  <2>3. LagAt(walk.offset)'
    <3> SUFFICES ASSUME NEW r \in Unshown'
                 PROVE  Cardinality(Newer(r))' >= 0
      BY <2>1 DEF LagAt
    <3>1. Newer(r)' \subseteq Rows
      BY DEF Newer, Found
    <3> QED
      BY <3>1, RowsAssumption, FS_Subset, FS_CardinalityType
  <2> QED
    BY <2>1, <2>2, <2>3 DEF Lag
<1>2. ASSUME NEW rel \in Relations, NEW f \in Filters \cup {NoFilter}, Continue(rel, f)
      PROVE  Lag'
  <2> SUFFICES ASSUME Sound'
               PROVE  /\ walk'.sent = walk'.filter
                      /\ steady' \subseteq Found(walk.filter)'
                      /\ LagAt(walk.offset)'
    BY <1>2 DEF Lag, Continue, TypeOK, Walk
  <2>1. /\ walk.phase = "answered" /\ table' = table /\ walk.links[rel] # None
        /\ walk'.sent = f /\ walk'.filter = walk.filter
        /\ walk'.offset = walk.links[rel]
    BY <1>2 DEF Continue, TypeOK, Walk
  <2>2. rel = "next" /\ f = walk.filter /\ since \subseteq {"entered"} /\ ~Spoilt(since')
    BY <1>2 DEF Continue, Sound, Spoilt
  <2>3. steady' = steady /\ shown' = shown
    BY <1>2, <2>2 DEF Continue
  <2>4. Found(walk.filter)' = Found(walk.filter)
    BY <2>1 DEF Found, There
  <2>5. Untied
    BY <2>1, <2>4 DEF Sound, Untied
  <2>6. steady \subseteq Found(walk.filter) /\ LagAt(walk.links["next"])
    BY <2>1, <2>2, <2>5 DEF Lag, Sound
  <2>7. Unshown' = Unshown /\ \A r \in Unshown : Newer(r)' = Newer(r)
    BY <2>1, <2>3, <2>4 DEF Unshown, Newer
  <2>8. LagAt(walk.offset)'
    BY <2>1, <2>2, <2>6, <2>7 DEF LagAt
  <2> QED
    BY <2>1, <2>2, <2>3, <2>4, <2>6, <2>8
<1>3. CASE Leave
  BY <1>3 DEF Leave, Unstarted, Lag
<1>4. CASE CountRows
  <2>1. /\ walk.phase = "asked" /\ walk'.phase = "counted" /\ walk'.sent = walk.sent
        /\ walk'.filter = walk.filter /\ walk'.offset = walk.offset
        /\ walk'.total = Cardinality(Found(walk.sent))
        /\ table' = table /\ steady' = steady /\ shown' = shown /\ since' = since
    BY <1>4 DEF CountRows, history, TypeOK, Walk
  <2>2. Found(walk.filter)' = Found(walk.filter)
    BY <2>1 DEF Found, There
  <2>3. Sound' => Sound
    BY <2>1, <2>2 DEF Sound, Untied
  <2>4. Unshown' = Unshown /\ \A r \in Unshown : Newer(r)' = Newer(r)
    BY <2>1, <2>2 DEF Unshown, Newer
  <2>5. LagAt(walk.offset) => LagAt(walk.offset)'
    BY <2>1, <2>4 DEF LagAt
  <2> QED
    BY <2>1, <2>2, <2>3, <2>5 DEF Lag
<1>5. ASSUME NEW t \in TieBreaks, SelectPage(t)
      PROVE  Lag'
  BY <1>5, SelectLag
<1>6. CASE AskAgain
  <2>1. /\ walk.phase = "counted" /\ walk'.phase = "asked" /\ walk'.sent = walk.sent
        /\ walk'.filter = walk.filter /\ walk'.offset = walk.offset
        /\ table' = table /\ steady' = steady /\ shown' = shown /\ since' = since
    BY <1>6 DEF AskAgain, history, TypeOK, Walk
  <2> QED
    BY <2>1 DEF Lag, LagAt, Sound, Untied, Unshown, Newer, Found, There
<1>7. ASSUME NEW P \in SUBSET Rows, NEW at \in [P -> Stamps], NEW data \in [P -> Data],
             Insert(P, at, data)
      PROVE  Lag'
  <2>1. \A q \in Rows : There(q) => table'[q].at = table[q].at
    BY <1>7 DEF Insert, There
  <2> QED
    BY <1>7, <2>1, ObserveLag DEF Insert
<1>8. ASSUME NEW r \in Rows, NEW d \in Data, Rewrite(r, d)
      PROVE  Lag'
  <2>1. \A q \in Rows : There(q) => table'[q].at = table[q].at
    BY <1>8 DEF Rewrite, There, TypeOK, Row
  <2> QED
    BY <1>8, <2>1, ObserveLag DEF Rewrite
<1>9. ASSUME NEW r \in Rows, Delete(r)
      PROVE  Lag'
  <2>1. \A q \in Rows : There(q) /\ There(q)' => table'[q].at = table[q].at
    BY <1>9 DEF Delete, There, TypeOK
  <2> QED
    BY <1>9, <2>1, ObserveLag DEF Delete
<1>10. CASE UNCHANGED vars
  BY <1>10 DEF vars, history, Lag, LagAt, Sound, Untied, Unshown, Newer, Found, There
<1>11. walk.filter \in Filters
  BY DEF TypeOK, Walk
<1> QED
  BY <1>1, <1>2, <1>3, <1>4, <1>5, <1>6, <1>7, <1>8, <1>9, <1>10, <1>11
  DEF Next, Recipient, Server, Writers, Follow, Repeat

-----------------------------------------------------------------------------
(* Ages: without ties, how many newer rows a row has is its place in the   *)
(* list, and every place is taken.                                         *)

All == Cardinality(Found(walk.filter))

LEMMA NewerGrows ==
  ASSUME TypeOK, NEW q \in Found(walk.filter), NEW r \in Found(walk.filter),
         table[q].at > table[r].at
  PROVE  Cardinality(Newer(q)) < Cardinality(Newer(r))
<1>1. \A x \in Found(walk.filter) : table[x].at \in Nat
  BY StampOf
<1>2. q \in Newer(r) /\ q \notin Newer(q)
  BY <1>1 DEF Newer
<1>3. Newer(q) \subseteq Newer(r)
  <2> SUFFICES ASSUME NEW x \in Found(walk.filter), table[x].at > table[q].at
               PROVE  table[x].at > table[r].at
    BY DEF Newer
  <2>1. table[x].at \in Nat /\ table[q].at \in Nat /\ table[r].at \in Nat
    BY <1>1
  <2> QED
    BY <2>1
<1>4. IsFiniteSet(Newer(r)) /\ Cardinality(Newer(r)) \in Nat /\ Cardinality(Newer(q)) \in Nat
  BY NewerIsSmaller
<1>5. Newer(q) # Newer(r)
  BY <1>2
<1> QED
  BY <1>3, <1>4, <1>5, FS_Subset

\* Every age below the number of rows found is that of a row.
LEMMA AgeTaken ==
  ASSUME TypeOK, Untied, NEW k \in 0 .. All - 1
  PROVE  \E r \in Found(walk.filter) : Cardinality(Newer(r)) = k
<1> DEFINE F == Found(walk.filter)
           T == 0 .. All - 1
           f == [r \in F |-> Cardinality(Newer(r))]
<1>1. IsFiniteSet(F) /\ All \in Nat
  BY FoundIsFinite DEF All
<1>2. IsFiniteSet(T) /\ Cardinality(T) = Cardinality(F)
  BY <1>1, FS_Interval DEF All
<1>3. f \in [F -> T]
  <2> SUFFICES ASSUME NEW r \in F PROVE Cardinality(Newer(r)) \in T
    OBVIOUS
  <2> QED
    BY <1>1, NewerIsSmaller DEF All
<1>4. \A q, r \in F : f[q] = f[r] => q = r
  <2> SUFFICES ASSUME NEW q \in F, NEW r \in F, q # r
               PROVE  Cardinality(Newer(q)) # Cardinality(Newer(r))
    OBVIOUS
  <2>1. table[q].at \in Nat /\ table[r].at \in Nat /\ table[q].at # table[r].at
    BY StampOf DEF Untied
  <2>2. table[q].at > table[r].at \/ table[r].at > table[q].at
    BY <2>1
  <2>3. Cardinality(Newer(q)) \in Nat /\ Cardinality(Newer(r)) \in Nat
    BY NewerIsSmaller
  <2> QED
    BY <2>2, <2>3, NewerGrows
<1>5. k \in T
  OBVIOUS
<1> HIDE DEF f, T, F
<1>6. f \in Injection(F, T)
  BY <1>3, <1>4 DEF Injection, IsInjective
<1>7. f \in Surjection(F, T)
  BY <1>2, <1>6, FS_Injection
<1>8. PICK r \in F : f[r] = k
  BY <1>5, <1>7 DEF Surjection
<1> QED
  BY <1>8 DEF f, F

\* The row with the greatest age is the oldest.
LEMMA OldestIsLast ==
  ASSUME TypeOK, NEW r \in Found(walk.filter), Cardinality(Newer(r)) = All - 1,
         NEW q \in Found(walk.filter)
  PROVE  table[q].at >= table[r].at
<1>1. table[q].at \in Nat /\ table[r].at \in Nat
  BY StampOf
<1>2. Cardinality(Newer(q)) \in Nat /\ All \in Nat /\ Cardinality(Newer(q)) < All
  BY NewerIsSmaller, FoundIsFinite DEF All
<1>3. ~(table[r].at > table[q].at)
  BY <1>2, NewerGrows
<1> QED
  BY <1>1, <1>3

-----------------------------------------------------------------------------
(* A walk over records that stay as they are.                              *)

ShownBefore(offset) ==
  \A r \in Rows :
    shown[r] = IF r \in Found(walk.filter) /\ Cardinality(Newer(r)) < offset THEN 1 ELSE 0

\* each row before the offset has been shown once, and no other row
Exact ==
  walk.phase # "idle" /\ since = {} /\ Untied =>
    /\ walk.sent = walk.filter
    /\ walk.phase \in {"asked", "counted"} => ShownBefore(walk.offset)
    /\ walk.phase = "counted" => walk.total = All
    /\ walk.phase = "answered" =>
         ShownBefore(IF walk.links["next"] = None THEN All ELSE walk.links["next"])

EndsAt(offset) == offset < All /\ All <= offset + walk.limit

\* a last link given, or followed, leads to the last page
Still ==
  walk.phase # "idle" /\ since \subseteq {"jumped"} =>
    /\ walk.sent = walk.filter
    /\ walk.phase = "counted" => walk.total = All
    /\ walk.phase = "answered" /\ walk.links["last"] # None => EndsAt(walk.links["last"])
    /\ walk.phase \in {"asked", "counted"} /\ walk.via = "last" => EndsAt(walk.offset)

\* What a step that keeps the records, or those of them the walk looks for,
\* leaves as it was.
SameList ==
  /\ walk'.filter = walk.filter
  /\ Found(walk.filter)' = Found(walk.filter)
  /\ All' = All
  /\ Untied' => Untied
  /\ \A r \in Found(walk.filter) : Newer(r)' = Newer(r)

LEMMA RecordsKept ==
  ASSUME table' = table, walk'.filter = walk.filter
  PROVE  SameList
<1>1. Found(walk.filter)' = Found(walk.filter)
  BY DEF Found, There
<1> QED
  BY <1>1 DEF SameList, All, Untied, Newer

LEMMA WriteSeen ==
  ASSUME TypeOK, Observe, walk.phase # "idle", since' \subseteq {"jumped"},
         \A q \in Rows : There(q) /\ There(q)' => table'[q].at = table[q].at
  PROVE  /\ SameList /\ walk' = walk /\ since' = since
         /\ since' = {} => shown' = shown
<1> DEFINE F == Found(walk.filter)
<1>1. walk' = walk /\ F' = F /\ since' = since
  BY DEF Observe
<1>2. since' = {} => shown' = shown
  BY DEF Observe, Spoilt
<1>3. \A q \in F : q \in Rows /\ There(q) /\ There(q)'
  BY <1>1 DEF Found
<1>4. \A q \in F : table'[q].at = table[q].at
  BY <1>3
<1>5. \A r \in F : Newer(r)' = Newer(r)
  BY <1>1, <1>4 DEF Newer
<1>6. Untied' => Untied
  BY <1>1, <1>4 DEF Untied
<1> QED
  BY <1>1, <1>2, <1>5, <1>6 DEF SameList, All

LEMMA ShownKept ==
  ASSUME SameList, shown' = shown, NEW o, NEW p, p = o, ShownBefore(o)
  PROVE  \A r \in Rows : shown'[r] = IF r \in Found(walk.filter)' /\ Cardinality(Newer(r)') < p
                                     THEN 1 ELSE 0
  BY DEF SameList, ShownBefore

\* A page shows the rows from its offset on, each for the first time.
LEMMA SelectExact ==
  ASSUME TypeOK, LimitsPositive, Exact, NEW t \in TieBreaks, SelectPage(t)
  PROVE  Exact'
<1> SUFFICES ASSUME since' = {}, Untied'
             PROVE  /\ walk'.sent = walk'.filter
                    /\ ShownBefore(IF walk.links["next"] = None THEN All
                                   ELSE walk.links["next"])'
  BY DEF Exact, SelectPage
<1> DEFINE F    == Found(walk.filter)
           P    == Page(walk.sent, walk.limit, walk.offset, t)
           next == walk.offset + walk.limit
           age(r) == Cardinality(Newer(r))
<1>1. /\ walk.phase = "counted" /\ table' = table /\ since' = since
      /\ walk'.filter = walk.filter /\ walk'.sent = walk.sent
      /\ walk'.links = Links(walk.total, walk.limit, walk.offset)
  BY DEF SelectPage, TypeOK, Walk
<1>2. SameList /\ Untied
  BY <1>1, RecordsKept DEF SameList
<1>3. walk.sent = walk.filter /\ ShownBefore(walk.offset) /\ walk.total = All
  BY <1>1, <1>2 DEF Exact
<1>4. walk.offset \in Nat /\ walk.limit \in Nat \ {0} /\ All \in Nat
  BY FoundIsFinite DEF TypeOK, Walk, LimitsPositive, All
<1>5. shown' = Shown(P)
  BY <1>1 DEF SelectPage, Spoilt
<1>6. \A r \in F : age(r) \in Nat /\ age(r) < All
  BY NewerIsSmaller DEF All
<1>7. \A r \in F : r \in P <=> walk.offset <= age(r) /\ age(r) < next
  <2> TAKE r \in F
  <2>1. Rank(r, F, t) = age(r)
    BY <1>2, RankIsAge
  <2>2. r \in P <=> age(r) \in walk.offset .. walk.offset + walk.limit - 1
    BY <1>3, <2>1 DEF Page
  <2> QED
    BY <2>2, <1>4, <1>6
<1>8. P \subseteq F
  BY <1>3 DEF Page
<1>9. ASSUME NEW r \in Rows
      PROVE  shown'[r] = IF r \in F /\ age(r) < next THEN 1 ELSE 0
  <2>1. shown[r] = IF r \in F /\ age(r) < walk.offset THEN 1 ELSE 0
    BY <1>3 DEF ShownBefore
  <2>2. shown'[r] = IF r \in P /\ shown[r] < 2 THEN shown[r] + 1 ELSE shown[r]
    BY <1>5 DEF Shown
  <2> HIDE DEF P, F, age
  <2> QED
    BY <2>1, <2>2, <1>4, <1>6, <1>7, <1>8
<1>10. walk'.links["next"] = IF next < All THEN next ELSE None
  BY <1>1, <1>3 DEF Links, Relations, Rels, Target, MoreAfter
<1>11. \A r \in F : Newer(r)' = Newer(r)
  BY <1>2 DEF SameList
<1>12. Found(walk.filter)' = F /\ All' = All
  BY <1>2 DEF SameList
<1>13. CASE next < All
  <2>1. walk'.links["next"] = next /\ next # None
    BY <1>10, <1>13, <1>4, NoneAssumption
  <2> QED
    BY <2>1, <1>1, <1>3, <1>9, <1>11, <1>12 DEF ShownBefore
<1>14. CASE ~(next < All)
  <2>1. walk'.links["next"] = None
    BY <1>10, <1>14
  <2>2. \A r \in F : age(r) < next <=> age(r) < All
    BY <1>4, <1>6, <1>14
  <2> QED
    BY <2>1, <2>2, <1>1, <1>3, <1>9, <1>11, <1>12 DEF ShownBefore
<1> QED
  BY <1>13, <1>14

LEMMA NextExact ==
  ASSUME TypeOK, TypeOK', LimitsPositive, Exact, [Next]_vars
  PROVE  Exact'
<1>1. ASSUME NEW f \in Filters, NEW l \in Limits, Ask(f, l)
      PROVE  Exact'
  <2>1. /\ walk'.phase = "asked" /\ walk'.filter = f /\ walk'.sent = f
        /\ walk'.offset = 0 /\ shown' = Unseen
    BY <1>1 DEF Ask, Unstarted
  <2>2. ASSUME NEW r \in Rows PROVE ~(Cardinality(Newer(r))' < 0)
    <3>1. Newer(r)' \subseteq Rows
      BY DEF Newer, Found
    <3> QED
      BY <3>1, RowsAssumption, FS_Subset, FS_CardinalityType
  <2>3. ShownBefore(walk.offset)'
    BY <2>1, <2>2 DEF ShownBefore, Unseen
  <2> QED
    BY <2>1, <2>3 DEF Exact
<1>2. ASSUME NEW rel \in Relations, NEW f \in Filters \cup {NoFilter}, Continue(rel, f)
      PROVE  Exact'
  <2> SUFFICES ASSUME since' = {}, Untied'
               PROVE  walk'.sent = walk'.filter /\ ShownBefore(walk.offset)'
    BY <1>2 DEF Exact, Continue, TypeOK, Walk
  <2>1. /\ walk.phase = "answered" /\ table' = table /\ walk.links[rel] # None
        /\ walk'.sent = f /\ walk'.filter = walk.filter
        /\ walk'.offset = walk.links[rel]
    BY <1>2 DEF Continue, TypeOK, Walk
  <2>2. rel = "next" /\ f = walk.filter /\ since = {}
    BY <1>2 DEF Continue
  <2>3. shown' = shown
    BY <1>2 DEF Continue, Spoilt
  <2>4. SameList
    BY <2>1, RecordsKept
  <2>5. ShownBefore(walk.links["next"])
    BY <2>1, <2>2, <2>4 DEF Exact, SameList
  <2> QED
    BY <2>1, <2>2, <2>3, <2>4, <2>5, ShownKept DEF ShownBefore
<1>3. CASE Leave
  BY <1>3 DEF Leave, Unstarted, Exact
<1>4. CASE CountRows \/ AskAgain
  <2>1. /\ walk.phase \in {"asked", "counted"} /\ walk'.phase \in {"asked", "counted"}
        /\ walk'.sent = walk.sent /\ walk'.filter = walk.filter /\ walk'.offset = walk.offset
        /\ walk'.phase = "counted" => walk'.total = Cardinality(Found(walk.sent))
        /\ table' = table /\ shown' = shown /\ since' = since
    BY <1>4 DEF CountRows, AskAgain, history, TypeOK, Walk
  <2>2. SameList
    BY <2>1, RecordsKept
  <2> SUFFICES ASSUME since' = {}, Untied'
               PROVE  /\ walk'.sent = walk'.filter /\ ShownBefore(walk.offset)'
                      /\ walk'.phase = "counted" => walk'.total = All'
    BY <2>1 DEF Exact
  <2>3. walk.sent = walk.filter /\ ShownBefore(walk.offset)
    BY <2>1, <2>2 DEF Exact, SameList
  <2>4. ShownBefore(walk.offset)'
    BY <2>1, <2>2, <2>3, ShownKept DEF ShownBefore
  <2> QED
    BY <2>1, <2>2, <2>3, <2>4 DEF SameList, All
<1>5. ASSUME NEW t \in TieBreaks, SelectPage(t)
      PROVE  Exact'
  BY <1>5, SelectExact
<1>6. ASSUME Observe, \A q \in Rows : There(q) /\ There(q)' => table'[q].at = table[q].at
      PROVE  Exact'
  <2> SUFFICES ASSUME walk'.phase # "idle", since' = {}, Untied'
               PROVE  /\ walk'.sent = walk'.filter
                      /\ walk'.phase \in {"asked", "counted"} => ShownBefore(walk.offset)'
                      /\ walk'.phase = "counted" => walk'.total = All'
                      /\ walk'.phase = "answered" =>
                           ShownBefore(IF walk.links["next"] = None THEN All
                                       ELSE walk.links["next"])'
    BY DEF Exact
  <2>1. SameList /\ walk' = walk /\ since = {} /\ shown' = shown
    BY <1>6, WriteSeen DEF Observe
  <2>2. /\ walk.sent = walk.filter
        /\ walk.phase \in {"asked", "counted"} => ShownBefore(walk.offset)
        /\ walk.phase = "counted" => walk.total = All
        /\ walk.phase = "answered" =>
             ShownBefore(IF walk.links["next"] = None THEN All ELSE walk.links["next"])
    BY <2>1 DEF Exact, SameList
  <2>3. All' = All
    BY <2>1 DEF SameList
  <2> QED
    BY <2>1, <2>2, <2>3, ShownKept DEF ShownBefore
<1>7. CASE UNCHANGED vars
  BY <1>7 DEF vars, history, Exact, ShownBefore, All, Untied, Newer, Found, There
<1>8. CASE Writers
  BY <1>6, <1>8 DEF Writers, Insert, Rewrite, Delete, There, TypeOK, Row
<1>9. walk.filter \in Filters
  BY DEF TypeOK, Walk
<1> QED
  BY <1>1, <1>2, <1>3, <1>4, <1>5, <1>7, <1>8, <1>9 DEF Next, Recipient, Server, Follow, Repeat

\* The last link of a page leads to the last page.
LEMMA SelectStill ==
  ASSUME TypeOK, LimitsPositive, Still, NEW t \in TieBreaks, SelectPage(t)
  PROVE  Still'
<1> SUFFICES ASSUME since' \subseteq {"jumped"}
             PROVE  /\ walk'.sent = walk'.filter
                    /\ walk'.links["last"] # None => EndsAt(walk.links["last"])'
  BY DEF Still, SelectPage
<1>1. /\ walk.phase = "counted" /\ table' = table /\ since' = since
      /\ walk'.filter = walk.filter /\ walk'.sent = walk.sent /\ walk'.limit = walk.limit
      /\ walk'.links = Links(walk.total, walk.limit, walk.offset)
  BY DEF SelectPage, TypeOK, Walk
<1>2. SameList
  BY <1>1, RecordsKept
<1>3. walk.sent = walk.filter /\ walk.total = All
  BY <1>1 DEF Still
<1>4. walk.offset \in Nat /\ walk.limit \in Nat \ {0} /\ All \in Nat
  BY FoundIsFinite DEF TypeOK, Walk, LimitsPositive, All
<1>5. walk'.links["last"] = IF MoreAfter(All, walk.limit, walk.offset)
                            THEN LastOffset(All, walk.limit) ELSE None
  BY <1>1, <1>3 DEF Links, Relations, Rels, Target
<1>6. CASE MoreAfter(All, walk.limit, walk.offset)
  <2> DEFINE last == LastOffset(All, walk.limit)
  <2>1. last \in Nat /\ last < All /\ ~MoreAfter(All, walk.limit, last)
    BY <1>4, <1>6, LastIsLast
  <2> HIDE DEF last
  <2>2. last < All /\ All <= last + walk.limit
    BY <2>1, <1>4 DEF MoreAfter
  <2>3. walk'.links["last"] = last
    BY <1>5, <1>6 DEF last
  <2> QED
    BY <2>2, <2>3, <1>1, <1>2, <1>3 DEF EndsAt, SameList
<1>7. CASE ~MoreAfter(All, walk.limit, walk.offset)
  BY <1>1, <1>3, <1>5, <1>7
<1> QED
  BY <1>6, <1>7

LEMMA NextStill ==
  ASSUME TypeOK, TypeOK', LimitsPositive, Still, [Next]_vars
  PROVE  Still'
<1>1. ASSUME NEW f \in Filters, NEW l \in Limits, Ask(f, l)
      PROVE  Still'
  BY <1>1 DEF Ask, Unstarted, Still
<1>2. ASSUME NEW rel \in Relations, NEW f \in Filters \cup {NoFilter}, Continue(rel, f)
      PROVE  Still'
  <2> SUFFICES ASSUME since' \subseteq {"jumped"}
               PROVE  /\ walk'.sent = walk'.filter
                      /\ walk'.via = "last" => EndsAt(walk.offset)'
    BY <1>2 DEF Still, Continue, TypeOK, Walk
  <2>1. /\ walk.phase = "answered" /\ table' = table /\ walk.links[rel] # None
        /\ walk'.sent = f /\ walk'.filter = walk.filter /\ walk'.limit = walk.limit
        /\ walk'.offset = walk.links[rel] /\ walk'.via = rel
    BY <1>2 DEF Continue, TypeOK, Walk
  <2>2. f = walk.filter /\ since \subseteq {"jumped"}
    BY <1>2 DEF Continue
  <2>3. SameList
    BY <2>1, RecordsKept
  <2>4. rel = "last" => EndsAt(walk.links["last"])
    BY <2>1, <2>2 DEF Still
  <2> QED
    BY <2>1, <2>2, <2>3, <2>4 DEF EndsAt, SameList
<1>3. CASE Leave
  BY <1>3 DEF Leave, Unstarted, Still
<1>4. CASE CountRows \/ AskAgain
  <2>1. /\ walk.phase \in {"asked", "counted"} /\ walk'.phase \in {"asked", "counted"}
        /\ walk'.sent = walk.sent /\ walk'.filter = walk.filter /\ walk'.offset = walk.offset
        /\ walk'.via = walk.via /\ walk'.limit = walk.limit
        /\ walk'.phase = "counted" => walk'.total = Cardinality(Found(walk.sent))
        /\ table' = table /\ since' = since
    BY <1>4 DEF CountRows, AskAgain, history, TypeOK, Walk
  <2>2. SameList
    BY <2>1, RecordsKept
  <2> QED
    BY <2>1, <2>2 DEF Still, EndsAt, SameList, All
<1>5. ASSUME NEW t \in TieBreaks, SelectPage(t)
      PROVE  Still'
  BY <1>5, SelectStill
<1>6. ASSUME Observe, \A q \in Rows : There(q) /\ There(q)' => table'[q].at = table[q].at
      PROVE  Still'
  <2> SUFFICES ASSUME walk'.phase # "idle", since' \subseteq {"jumped"}
               PROVE  Still'
    BY DEF Still
  <2>1. SameList /\ walk' = walk /\ since' = since
    BY <1>6, WriteSeen DEF Observe
  <2> QED
    BY <2>1 DEF Still, EndsAt, SameList
<1>7. CASE UNCHANGED vars
  BY <1>7 DEF vars, history, Still, EndsAt, All, Found, There
<1>8. CASE Writers
  BY <1>6, <1>8 DEF Writers, Insert, Rewrite, Delete, There, TypeOK, Row
<1>9. walk.filter \in Filters
  BY DEF TypeOK, Walk
<1> QED
  BY <1>1, <1>2, <1>3, <1>4, <1>5, <1>7, <1>8, <1>9 DEF Next, Recipient, Server, Follow, Repeat

-----------------------------------------------------------------------------
(* The theorems.                                                           *)

\* Types, positive limits and the lag of the offset are kept by every step.
THEOREM WalkInvariance == Spec => []Inv
<1>1. Init => Inv
  BY InitType DEF Inv, Lag, Init, Unstarted
<1>2. Inv /\ [Next]_vars => Inv'
  BY NextType, NextLag DEF Inv
<1> QED
  BY <1>1, <1>2, PTL DEF Spec

\* The records and the walk keep their types.
THEOREM WalkTypeCorrect == Spec => []TypeOK
<1>1. Inv => TypeOK
  BY DEF Inv
<1> QED
  BY <1>1, WalkInvariance, PTL

\* Rows inserted between two pages never make a walk miss a row that was
\* there all along, for any number of rows and pages.
THEOREM InsertionsNeverLose == Spec => []InsertsOnlyRepeat
<1>1. Inv => InsertsOnlyRepeat
  <2> SUFFICES ASSUME TypeOK, Lag, Finished, since \subseteq {"entered"}, Untied,
                      NEW r \in steady
               PROVE  shown[r] > 0
    BY DEF Inv, InsertsOnlyRepeat
  <2>1. Unshown = {}
    BY DEF Lag, Sound, Finished
  <2>2. shown[r] \in 0 .. 2 /\ shown[r] # 0
    BY <2>1 DEF TypeOK, Unshown
  <2> QED
    BY <2>2
<1> QED
  BY <1>1, WalkInvariance, PTL

\* The three filters for a date split the records between them.
THEOREM ValidityAlwaysSplits == Spec => []ValiditySplits
<1>1. TypeOK => ValiditySplits
  <2> SUFFICES ASSUME TypeOK, NEW r \in Rows, NEW d \in Dates, There(r)
               PROVE  Splits(table[r].data, d)
    BY DEF ValiditySplits
  <2>1. table[r].data \in Data /\ d \in Int
    BY DatesAssumption DEF TypeOK, There, Row
  <2> QED
    BY <2>1, DataAssumption, DateSplits
<1> QED
  BY <1>1, WalkTypeCorrect, PTL
\* A walk over records that stay as they are, of different ages, shows every
\* footprint its query selects exactly once, and no other, for any number of
\* rows and any limit.
THEOREM QuietWalksAreExact == Spec => []QuietWalkIsExact
<1>1. Init => Exact
  BY DEF Init, Unstarted, Exact
<1>2. Inv /\ Inv' /\ Exact /\ [Next]_vars => Exact'
  BY NextExact DEF Inv
<1>3. Inv /\ Exact => QuietWalkIsExact
  <2> SUFFICES ASSUME Inv, Exact, Finished, since = {}, Untied, NEW r \in Rows
               PROVE  shown[r] = IF r \in Found(walk.filter) THEN 1 ELSE 0
    BY DEF QuietWalkIsExact
  <2>1. ShownBefore(All)
    BY DEF Exact, Finished
  <2>2. r \in Found(walk.filter) => Cardinality(Newer(r)) < All
    BY NewerIsSmaller DEF Inv, All
  <2> QED
    BY <2>1, <2>2 DEF ShownBefore
<1> QED
  BY <1>1, <1>2, <1>3, WalkInvariance, PTL DEF Spec

\* The link to the last page leads to a page that ends with the oldest row,
\* for any number of rows and any limit, multiples of it included.
THEOREM LastPageHoldsTheEnd == Spec => []LastHoldsTheEnd
<1>1. Init => Still
  BY DEF Init, Unstarted, Still
<1>2. Inv /\ Inv' /\ Still /\ [Next]_vars => Still'
  BY NextStill DEF Inv
<1>3. Inv /\ Still => LastHoldsTheEnd
  <2> SUFFICES ASSUME Inv, Still, walk.phase = "counted", walk.via = "last",
                      since = {"jumped"}, Untied
               PROVE  /\ ~MoreAfter(walk.total, walk.limit, walk.offset)
                      /\ \A t \in TieBreaks :
                           \E r \in Page(walk.sent, walk.limit, walk.offset, t) :
                             \A q \in Found(walk.filter) : table[q].at >= table[r].at
    BY DEF LastHoldsTheEnd
  <2>1. walk.sent = walk.filter /\ walk.total = All /\ EndsAt(walk.offset)
    BY DEF Still
  <2>2. walk.offset \in Nat /\ walk.limit \in Nat \ {0} /\ All \in Nat
    BY FoundIsFinite DEF Inv, TypeOK, Walk, LimitsPositive, All
  <2>3. ~MoreAfter(walk.total, walk.limit, walk.offset)
    BY <2>1, <2>2 DEF EndsAt, MoreAfter
  <2>4. All - 1 \in 0 .. All - 1
    BY <2>1, <2>2 DEF EndsAt
  <2>5. PICK r \in Found(walk.filter) : Cardinality(Newer(r)) = All - 1
    BY <2>4, AgeTaken DEF Inv
  <2>6. \A q \in Found(walk.filter) : table[q].at >= table[r].at
    BY <2>5, OldestIsLast DEF Inv
  <2>7. ASSUME NEW t \in TieBreaks
        PROVE  r \in Page(walk.sent, walk.limit, walk.offset, t)
    <3>1. Rank(r, Found(walk.filter), t) = All - 1
      BY <2>5, RankIsAge DEF Inv
    <3>2. All - 1 \in walk.offset .. walk.offset + walk.limit - 1
      BY <2>1, <2>2 DEF EndsAt
    <3> QED
      BY <2>1, <3>1, <3>2 DEF Page
  <2> QED
    BY <2>3, <2>6, <2>7
<1> QED
  BY <1>1, <1>2, <1>3, WalkInvariance, PTL DEF Spec
=============================================================================
