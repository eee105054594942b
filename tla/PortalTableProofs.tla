--------------------------- MODULE PortalTableProofs ---------------------------
(***************************************************************************)
(* Proofs about PortalTable, for any listing, any terms, any page size and *)
(* any number of loads that overlap and fail.                              *)
(*                                                                         *)
(* SelectionIsShown is inductive by itself: a load that begins hides the   *)
(* rows, one that arrives drops the selection, one that fails shows the    *)
(* error instead, and rows are selected on the screen only.  The other     *)
(* properties speak of a table at rest; what they need is a statement      *)
(* about the answers on their way to it (PagesAreWhole, RowsAreFresh,      *)
(* SearchesAgree).  That the paging strip leads on as long as a name       *)
(* follows, and to pages with rows, is a fact about the places of rows in  *)
(* a listing.                                                              *)
(***************************************************************************)
EXTENDS PortalTable, FiniteSetTheorems, TLAPS

-----------------------------------------------------------------------------
(* The pages of a listing.                                                 *)

\* the place of r among the rows of S, from 0
Place(r, S, o) == Cardinality({q \in S : o[q] < o[r]})

LEMMA ListingIsFinite ==
  ASSUME NEW S \in SUBSET Rows
  PROVE  IsFiniteSet(S) /\ Cardinality(S) \in Nat
  BY RowsAssumption, FS_Subset, FS_CardinalityType

\* An order puts one of two rows before the other.
LEMMA OrdersAreTotal ==
  ASSUME NEW o \in Orders, NEW q \in Rows, NEW r \in Rows
  PROVE  /\ o[q] \in Nat
         /\ q # r => o[q] < o[r] \/ o[r] < o[q]
         /\ Name[q] < Name[r] => o[q] < o[r]
<1>1. o \in [Rows -> Nat]
  BY OrdersAssumption
<1>2. o[q] \in Nat /\ o[r] \in Nat
  BY <1>1
<1>3. o[q] = o[r] => q = r
  BY OrdersAssumption
<1>4. Name[q] < Name[r] => o[q] < o[r]
  BY OrdersAssumption
<1> QED
  BY <1>2, <1>3, <1>4

LEMMA PlaceBounds ==
  ASSUME NEW S \in SUBSET Rows, NEW o \in Orders, NEW r \in S
  PROVE  Place(r, S, o) \in 0 .. Cardinality(S) - 1
<1> DEFINE B == {q \in S : o[q] < o[r]}
<1>1. IsFiniteSet(S) /\ B \subseteq S /\ B # S
  <2>1. o[r] \in Nat
    BY OrdersAreTotal
  <2>2. r \notin B
    BY <2>1
  <2> QED
    BY <2>2, ListingIsFinite
<1>2. Cardinality(B) \in Nat /\ Cardinality(S) \in Nat /\ Cardinality(B) < Cardinality(S)
  BY <1>1, FS_Subset, FS_CardinalityType
<1> QED
  BY <1>2 DEF Place

LEMMA PlaceGrows ==
  ASSUME NEW S \in SUBSET Rows, NEW o \in Orders, NEW q \in S, NEW r \in S, o[q] < o[r]
  PROVE  Place(q, S, o) < Place(r, S, o)
<1> DEFINE B == {x \in S : o[x] < o[q]}
           C == {x \in S : o[x] < o[r]}
<1>1. IsFiniteSet(S)
  BY ListingIsFinite
<1>2. B \subseteq C /\ q \in C /\ q \notin B
  <2>1. o[q] \in Nat /\ o[r] \in Nat
    BY OrdersAreTotal
  <2>2. ASSUME NEW x \in S, o[x] < o[q] PROVE o[x] < o[r]
    <3>1. o[x] \in Nat
      BY OrdersAreTotal
    <3> QED
      BY <2>1, <2>2, <3>1
  <2>3. ~(o[q] < o[q])
    BY <2>1
  <2> QED
    BY <2>2, <2>3
<1>3. IsFiniteSet(C)
  BY <1>1, FS_Subset
<1>4. Cardinality(B) \in Nat /\ Cardinality(C) \in Nat /\ Cardinality(B) < Cardinality(C)
  <2>1. B # C /\ B \in SUBSET C
    BY <1>2
  <2>2. IsFiniteSet(B)
    BY <2>1, <1>3, FS_Subset
  <2> HIDE DEF B, C
  <2> QED
    BY <2>1, <2>2, <1>3, FS_Subset, FS_CardinalityType
<1> QED
  BY <1>4 DEF Place

\* Every place below the number of rows is taken.
LEMMA PlaceTaken ==
  ASSUME NEW S \in SUBSET Rows, NEW o \in Orders, NEW k \in 0 .. Cardinality(S) - 1
  PROVE  \E r \in S : Place(r, S, o) = k
<1> DEFINE n == Cardinality(S)
           T == 0 .. n - 1
           f == [r \in S |-> Place(r, S, o)]
<1>1. IsFiniteSet(S) /\ n \in Nat
  BY ListingIsFinite
<1>2. IsFiniteSet(T) /\ Cardinality(T) = n
  BY <1>1, FS_Interval
<1>3. f \in [S -> T]
  BY PlaceBounds
<1>4. \A q, r \in S : f[q] = f[r] => q = r
  <2> SUFFICES ASSUME NEW q \in S, NEW r \in S, q # r
               PROVE  Place(q, S, o) # Place(r, S, o)
    OBVIOUS
  <2>1. o[q] < o[r] \/ o[r] < o[q]
    BY OrdersAreTotal
  <2>2. Place(q, S, o) \in Int /\ Place(r, S, o) \in Int
    BY PlaceBounds
  <2> QED
    BY <2>1, <2>2, PlaceGrows
<1> HIDE DEF f, T, n
<1>5. f \in Injection(S, T)
  BY <1>3, <1>4 DEF Injection, IsInjective
<1>6. f \in Surjection(S, T)
  BY <1>2, <1>5, FS_Injection DEF n
<1>7. k \in T
  BY DEF T, n
<1>8. PICK r \in S : f[r] = k
  BY <1>6, <1>7 DEF Surjection
<1> QED
  BY <1>8 DEF f

LEMMA DivisionBounds ==
  ASSUME NEW n \in Nat, NEW m \in Nat \ {0}
  PROVE  /\ n \div m \in Nat
         /\ (n \div m) * m <= n
         /\ n < (n \div m) * m + m
  OBVIOUS

\* A page is not the last one counted exactly if rows are left behind it.
LEMMA PagesCounted ==
  ASSUME NEW total \in Nat, NEW p \in Nat \ {0}
  PROVE  /\ TotalPages(total) \in Nat
         /\ p < TotalPages(total) <=> p * PageSize < total
<1> DEFINE q == TotalPages(total)
<1>1. PageSize \in Nat \ {0} /\ total + PageSize - 1 \in Nat
  BY SizeAssumption
<1>2. /\ q \in Nat
      /\ q * PageSize <= total + PageSize - 1
      /\ total + PageSize - 1 < q * PageSize + PageSize
  BY <1>1, DivisionBounds DEF TotalPages
<1> HIDE DEF q
<1>3. q * PageSize \in Nat /\ p * PageSize \in Nat
  BY <1>1, <1>2
<1>4. ASSUME p < q PROVE p * PageSize + PageSize <= q * PageSize
  <2>1. (p + 1) * PageSize <= q * PageSize
    BY <1>1, <1>2, <1>4
  <2>2. (p + 1) * PageSize = p * PageSize + PageSize
    BY <1>1
  <2> QED
    BY <2>1, <2>2
<1>5. ASSUME ~(p < q) PROVE q * PageSize <= p * PageSize
  BY <1>1, <1>2, <1>5
<1>6. p < q <=> p * PageSize < total
  BY <1>1, <1>2, <1>3, <1>4, <1>5
<1> QED
  BY <1>2, <1>6 DEF q

\* A page has rows exactly if there are more rows than the pages before it
\* hold, in whatever order they come.
LEMMA PageHasRows ==
  ASSUME NEW S \in SUBSET Rows, NEW o \in Orders, NEW p \in Nat \ {0}
  PROVE  Window(S, p, o) # {} <=> (p - 1) * PageSize < Cardinality(S)
<1> DEFINE n  == Cardinality(S)
           lo == (p - 1) * PageSize
           hi == p * PageSize
<1>1. n \in Nat
  BY ListingIsFinite
<1>2. lo \in Nat /\ hi \in Nat /\ lo < hi
  <2>1. p - 1 \in Nat /\ PageSize \in Nat \ {0} /\ p = (p - 1) + 1
    BY SizeAssumption
  <2>2. lo \in Nat /\ hi = lo + PageSize
    BY <2>1
  <2> QED
    BY <2>1, <2>2
<1>3. \A r \in S : r \in Window(S, p, o) <=> lo <= Place(r, S, o) /\ Place(r, S, o) < hi
  BY DEF Window, Place
<1>4. Window(S, p, o) \subseteq S
  BY DEF Window
<1> HIDE DEF lo, hi, n
<1>5. ASSUME lo < n PROVE Window(S, p, o) # {}
  <2>1. lo \in 0 .. n - 1
    BY <1>1, <1>2, <1>5
  <2>2. PICK r \in S : Place(r, S, o) = lo
    BY <2>1, PlaceTaken DEF n
  <2> QED
    BY <2>2, <1>2, <1>3
<1>6. ASSUME NEW r \in Window(S, p, o) PROVE lo < n
  <2>1. r \in S /\ lo <= Place(r, S, o)
    BY <1>3, <1>4
  <2>2. Place(r, S, o) \in 0 .. n - 1
    BY <2>1, PlaceBounds DEF n
  <2> QED
    BY <2>1, <2>2, <1>1, <1>2
<1> QED
  BY <1>5, <1>6 DEF lo, n

\* If a row comes after all of a page that has rows, it is on a later page.
LEMMA MoreFollows ==
  ASSUME NEW S \in SUBSET Rows, NEW o \in Orders, NEW p \in Nat \ {0},
         Window(S, p, o) # {},
         NEW r \in S, \A q \in Window(S, p, o) : o[q] < o[r]
  PROVE  p * PageSize < Cardinality(S)
<1> DEFINE n  == Cardinality(S)
           lo == (p - 1) * PageSize
           hi == p * PageSize
<1>1. n \in Nat /\ lo \in Int /\ hi \in Int
  BY ListingIsFinite, SizeAssumption
<1>2. \A q \in S : q \in Window(S, p, o) <=> lo <= Place(q, S, o) /\ Place(q, S, o) < hi
  BY DEF Window, Place
<1>3. PICK w \in Window(S, p, o) : TRUE
  OBVIOUS
<1>4. w \in S /\ o[w] < o[r]
  BY <1>3 DEF Window
<1> HIDE DEF lo, hi, n
<1>5. lo <= Place(w, S, o) /\ Place(w, S, o) < Place(r, S, o)
  BY <1>2, <1>3, <1>4, PlaceGrows
<1>6. Place(w, S, o) \in Int /\ Place(r, S, o) \in 0 .. n - 1
  BY <1>4, PlaceBounds DEF n
<1>7. r \notin Window(S, p, o)
  <2>1. o[r] \in Nat
    BY OrdersAreTotal
  <2> QED
    BY <2>1
<1>8. ~(Place(r, S, o) < hi)
  BY <1>1, <1>2, <1>5, <1>6, <1>7
<1> QED
  BY <1>1, <1>6, <1>8 DEF hi, n

-----------------------------------------------------------------------------
(* Types.                                                                  *)

LEMMA WindowOfRows ==
  ASSUME NEW t \in Terms, NEW p, NEW o
  PROVE  Match[t] \in SUBSET Rows /\ Window(Match[t], p, o) \in SUBSET Rows
  BY TermsAssumption DEF Window

\* What a listing says of its pages is well typed.
LEMMA PagingType ==
  ASSUME NEW t \in Terms, NEW p \in Nat \ {0}, NEW o
  PROVE  PagingOf(p, Match[t], o) \in Paging
<1>1. Cardinality(Match[t]) \in Nat
  BY WindowOfRows, ListingIsFinite
<1>2. TotalPages(Cardinality(Match[t])) \in Nat
  BY <1>1, PagesCounted
<1>3. Counted(p, Cardinality(Match[t])) \in Paging
  BY <1>2 DEF Counted, Paging
<1>4. Uncounted(p, Cardinality(Window(Match[t], p, o))) \in Paging
  BY DEF Uncounted, Paging
<1> QED
  BY <1>3, <1>4 DEF PagingOf

LEMMA NoRowsType == NoRows \in Table
<1>1. NoRows \in [{} -> BOOLEAN]
  BY DEF NoRows
<1> QED
  BY <1>1 DEF Table

Answers == [data : Table, paging : Paging]

\* The answer to a load is a table and its place in the listing.
LEMMA AnswerType ==
  ASSUME NEW l \in Load, NEW o
  PROVE  Listing(l.page, Match[l.search], o) \in Answers
<1> DEFINE W == Window(Match[l.search], l.page, o)
<1>1. l.search \in Terms /\ l.page \in Nat \ {0}
  BY DEF Load
<1>2. W \in SUBSET Rows
  BY <1>1, WindowOfRows
<1>3. [r \in W |-> r \in enabled] \in [W -> BOOLEAN]
  OBVIOUS
<1>4. [r \in W |-> r \in enabled] \in Table
  BY <1>2, <1>3 DEF Table
<1> QED
  BY <1>1, <1>4, PagingType DEF Answers, Listing

LEMMA StartType ==
  ASSUME TypeOK, NEW page \in Nat \ {0}, NEW search \in Terms, Start(page, search)
  PROVE  /\ load' \in [Slots -> Load \cup {None}]
         /\ newest' \in Slots
         /\ {loading', error', outrun', unheard'} \subseteq BOOLEAN
         /\ UNCHANGED <<source, enabled, data, paging, shownFor>>
<1>1. [page |-> page, search |-> search, answer |-> None] \in Load
  BY DEF Load
<1> QED
  BY <1>1 DEF Start, TypeOK

LEMMA InitType == Init => TypeOK
<1> SUFFICES ASSUME Init PROVE TypeOK
  OBVIOUS
<1>1. [page |-> 1, search |-> NoTerm, answer |-> None] \in Load
  BY TermsAssumption DEF Load
<1>2. load \in [Slots -> Load \cup {None}]
  BY <1>1 DEF Init
<1>3. paging \in Paging /\ data \in Table
  BY NoRowsType DEF Init, Paging
<1> QED
  BY <1>2, <1>3, TermsAssumption, SizeAssumption DEF Init, TypeOK

LEMMA NextType == TypeOK /\ [Next]_vars => TypeOK'
<1> SUFFICES ASSUME TypeOK, [Next]_vars PROVE TypeOK'
  OBVIOUS
<1>1. ASSUME NEW s \in Slots, Serve(s)
      PROVE  TypeOK'
  <2>1. load[s] \in Load
    BY <1>1 DEF Serve, Free, TypeOK
  <2>2. load'[s] \in Load /\ load' \in [Slots -> Load \cup {None}]
    BY <1>1, <2>1, AnswerType DEF Serve, TypeOK, Load, Answers
  <2> QED
    BY <1>1, <2>2 DEF Serve, TypeOK, screen, history
<1>2. ASSUME NEW s \in Slots, Arrive(s)
      PROVE  TypeOK'
  <2>1. load[s] \in Load /\ load[s].answer \in Answers
    BY <1>2 DEF Arrive, Free, TypeOK, Load, Answers
  <2>2. load[s].answer.data \in Table /\ load[s].answer.paging \in Paging
        /\ load[s].search \in Terms
    BY <2>1 DEF Answers, Load
  <2>3. data' \in Table /\ paging' \in Paging /\ shownFor' \in Terms
    BY <1>2, <2>2 DEF Arrive
  <2>4. load' \in [Slots -> Load \cup {None}] /\ loading' \in BOOLEAN /\ selected' = {}
    BY <1>2 DEF Arrive, AfterLoad, TypeOK
  <2> QED
    BY <1>2, <2>3, <2>4 DEF Arrive, TypeOK
<1>3. ASSUME NEW s \in Slots, Fail(s)
      PROVE  TypeOK'
  BY <1>3, NoRowsType DEF Fail, TypeOK, history
<1>4. ASSUME NEW t \in Terms, Type(t)
      PROVE  TypeOK'
  BY <1>4 DEF Type, TypeOK, history
<1>5. CASE Debounce
  <2>1. CASE Reload(box)
    <3>1. Start(1, box)
      BY <1>5, <2>1 DEF Debounce
    <3>2. box \in Terms
      BY DEF TypeOK
    <3>3. /\ load' \in [Slots -> Load \cup {None}]
          /\ newest' \in Slots
          /\ {loading', error', outrun', unheard'} \subseteq BOOLEAN
          /\ UNCHANGED <<source, enabled, data, paging, shownFor>>
      BY <3>1, <3>2, StartType
    <3> QED
      BY <1>5, <2>1, <3>3 DEF Debounce, TypeOK
  <2>2. CASE ~Reload(box)
    BY <1>5, <2>2 DEF Debounce, NoStart, TypeOK, history
  <2> QED
    BY <2>1, <2>2
<1>6. CASE Search \/ Forward \/ Previous
  <2>1. PICK page \in Nat \ {0}, search \in Terms : Start(page, search)
    <3>1. CASE Search
      BY <3>1 DEF Search, TypeOK
    <3>2. CASE Forward
      BY <3>2 DEF Forward, Turn, TurnSearch, TypeOK, Paging
    <3>3. CASE Previous
      <4>1. paging.page - 1 \in Nat \ {0}
        BY <3>3 DEF Previous, CanPrevious, TypeOK, Paging
      <4> QED
        BY <3>3, <4>1 DEF Previous, Turn, TurnSearch, TypeOK
    <3> QED
      BY <1>6, <3>1, <3>2, <3>3
  <2>2. /\ load' \in [Slots -> Load \cup {None}]
        /\ newest' \in Slots
        /\ {loading', error', outrun', unheard'} \subseteq BOOLEAN
        /\ UNCHANGED <<source, enabled, data, paging, shownFor>>
    BY <2>1, StartType
  <2> QED
    BY <1>6, <2>2 DEF Search, Forward, Previous, Turn, TurnSearch, TypeOK
<1>7. ASSUME NEW r \in Rows, Select(r)
      PROVE  TypeOK'
  BY <1>7 DEF Select, NoStart, TypeOK, history
<1>8. ASSUME NEW r \in Rows, Updated(r) \/ Unheard(r) \/ Refused(r)
      PROVE  TypeOK'
  BY <1>8 DEF Updated, Unheard, Refused, Changed, NoStart, screen, history, TypeOK, Bulk
<1>9. ASSUME NEW on \in BOOLEAN, BulkBegin(on)
      PROVE  TypeOK'
  BY <1>9 DEF BulkBegin, ToChange, NoStart, history, TypeOK, Bulk
<1>10. CASE ClearSelection
  BY <1>10 DEF ClearSelection, NoStart, TypeOK, history
<1>11. CASE BulkEnd
  <2>1. CASE Refresh
    <3>1. Start(1, applied) /\ applied \in Terms
      BY <1>11, <2>1 DEF BulkEnd, TypeOK
    <3>2. /\ load' \in [Slots -> Load \cup {None}]
          /\ newest' \in Slots
          /\ {loading', error', outrun', unheard'} \subseteq BOOLEAN
          /\ UNCHANGED <<source, enabled, data, paging, shownFor>>
      BY <3>1, StartType
    <3> QED
      BY <1>11, <2>1, <3>2 DEF BulkEnd, TypeOK
  <2>2. CASE ~Refresh
    BY <1>11, <2>2 DEF BulkEnd, NoStart, TypeOK, history
  <2> QED
    BY <2>1, <2>2
<1>12. CASE UNCHANGED vars
  BY <1>12 DEF vars, screen, history, TypeOK
<1> QED
  BY <1>1, <1>2, <1>3, <1>4, <1>5, <1>6, <1>7, <1>8, <1>9, <1>10, <1>11, <1>12 DEF Next

-----------------------------------------------------------------------------
(* What answers and screen owe to the listing.                             *)

\* A load that begins is the newest, and not answered yet.
LEMMA StartEffect ==
  ASSUME TypeOK, NEW page \in Nat \ {0}, NEW search \in Terms, Start(page, search)
  PROVE  /\ ~Settled'
         /\ \A s \in Slots : Answered(s)' => Answered(s) /\ load'[s] = load[s]
         /\ ~Answered(newest)'
         /\ load'[newest'].search = search
<1> DEFINE l == [page |-> page, search |-> search, answer |-> None]
<1>1. l \in Load /\ l # None
  BY NullAssumption DEF Load
<1>2. PICK s \in Slots : Free(s) /\ load' = [load EXCEPT ![s] = l] /\ newest' = s
  BY DEF Start
<1>3. load'[s] = l /\ \A t \in Slots \ {s} : load'[t] = load[t]
  BY <1>2 DEF TypeOK
<1>4. ~Settled'
  BY <1>1, <1>3 DEF Settled, Free
<1>5. \A t \in Slots : Answered(t)' => Answered(t) /\ load'[t] = load[t]
  BY <1>3 DEF Answered, Free
<1>6. ~Answered(newest)' /\ load'[newest'].search = search
  BY <1>2, <1>3 DEF Answered
<1> QED
  BY <1>4, <1>5, <1>6

\* Typing, paging, searching and the refresh all start a load like that; the
\* other actions leave the loads, the rows and the list as they are.
Loads == \E page \in Nat \ {0}, search \in Terms : Start(page, search)

Quiet == UNCHANGED <<source, load, data, paging, loading, error, history>>

LEMMA LoadKinds ==
  ASSUME TypeOK, \/ Debounce /\ Reload(box)
                 \/ Search \/ Forward \/ Previous
                 \/ BulkEnd /\ Refresh
  PROVE  Loads
<1>1. CASE (Debounce /\ Reload(box)) \/ Search \/ (BulkEnd /\ Refresh)
  <2>1. Start(1, box) \/ Start(1, applied)
    BY <1>1 DEF Debounce, Search, BulkEnd
  <2>2. 1 \in Nat \ {0} /\ box \in Terms /\ applied \in Terms
    BY DEF TypeOK
  <2> QED
    BY <2>1, <2>2 DEF Loads
<1>2. CASE Forward
  <2>1. paging.page + 1 \in Nat \ {0} /\ applied \in Terms
    BY DEF TypeOK, Paging
  <2> QED
    BY <1>2, <2>1 DEF Forward, Turn, TurnSearch, Loads
<1>3. CASE Previous
  <2>1. paging.page - 1 \in Nat \ {0} /\ applied \in Terms
    BY <1>3 DEF Previous, CanPrevious, TypeOK, Paging
  <2> QED
    BY <1>3, <2>1 DEF Previous, Turn, TurnSearch, Loads
<1> QED
  BY <1>1, <1>2, <1>3

LEMMA StepKinds ==
  ASSUME TypeOK, [Next]_vars
  PROVE  \/ Loads
         \/ Quiet
         \/ \E s \in Slots : Serve(s) \/ Arrive(s) \/ Fail(s)
<1>1. CASE Debounce /\ ~Reload(box)
  BY <1>1 DEF Debounce, NoStart, Quiet
<1>2. CASE BulkEnd /\ ~Refresh
  BY <1>2 DEF BulkEnd, NoStart, Quiet
<1>3. ASSUME \/ \E t \in Terms : Type(t)
             \/ \E r \in Rows : Select(r) \/ Updated(r) \/ Unheard(r) \/ Refused(r)
             \/ \E on \in BOOLEAN : BulkBegin(on)
             \/ ClearSelection \/ UNCHANGED vars
      PROVE  Quiet
  BY <1>3 DEF Type, Select, Updated, Unheard, Refused, BulkBegin, ClearSelection, NoStart,
     Quiet, vars, screen
<1> QED
  BY <1>1, <1>2, <1>3, LoadKinds DEF Next

\* The page an answer names is the page that was asked for.
LEMMA PagingNamesPage ==
  ASSUME NEW p, NEW S, NEW o
  PROVE  PagingOf(p, S, o).page = p
  BY DEF PagingOf, Counted, Uncounted

LEMMA CountedNext ==
  ASSUME NEW p, NEW total
  PROVE  Counted(p, total).hasNext <=> p < TotalPages(total)
<1>1. Counted(p, total).hasNext = (p < TotalPages(total))
  BY Zenon DEF Counted
<1> QED
  BY <1>1, Zenon

LEMMA WholeStep == TypeOK /\ PagesAreWhole /\ [Next]_vars => PagesAreWhole'
<1> SUFFICES ASSUME TypeOK, PagesAreWhole, [Next]_vars PROVE PagesAreWhole'
  OBVIOUS
<1>1. source' = source
  BY DEF Next, vars, Serve, Arrive, Fail, Type, Debounce, Search, Forward, Previous, Turn,
         Select, Updated, Unheard, Refused, BulkBegin, ClearSelection, BulkEnd, Start, NoStart
<1>2. \A d, pg, t : Lists(d, pg, t) => Lists(d, pg, t)'
  BY <1>1 DEF Lists, PagingOf
<1>3. CASE Loads
  <2>1. /\ ~Settled'
        /\ \A s \in Slots : Answered(s)' => Answered(s) /\ load'[s] = load[s]
    BY <1>3, StartEffect DEF Loads
  <2> QED
    BY <2>1, <1>1 DEF PagesAreWhole, Lists, PagingOf
<1>4. CASE Quiet
  BY <1>4 DEF Quiet, history, PagesAreWhole, Lists, PagingOf, Settled, Answered, Free
<1>5. ASSUME NEW s \in Slots, Serve(s) PROVE PagesAreWhole'
  <2>1. PICK o \in Orders :
          load' = [load EXCEPT ![s].answer = Listing(load[s].page, Match[load[s].search], o)]
    BY <1>5 DEF Serve
  <2> DEFINE a == Listing(load[s].page, Match[load[s].search], o)
  <2>2. /\ load[s] \in Load
        /\ load'[s] = [load[s] EXCEPT !.answer = a]
        /\ \A t \in Slots \ {s} : load'[t] = load[t]
    BY <1>5, <2>1 DEF Serve, Free, TypeOK
  <2>3. load'[s].answer = a /\ load'[s].search = load[s].search /\ load'[s] # None
    <3>1. a \in Answers
      BY <2>2, AnswerType
    <3> HIDE DEF a
    <3>2. load'[s].answer = a /\ load'[s].search = load[s].search
      BY <2>2 DEF Load
    <3>3. load'[s] \in Load
      BY <2>2, <3>1 DEF Load, Answers
    <3> QED
      BY <3>2, <3>3, NullAssumption
  <2>4. Lists(load[s].answer.data, load[s].answer.paging, load[s].search)'
    <3>1. Lists(a.data, a.paging, load[s].search)
      <4>1. a.paging = PagingOf(load[s].page, Match[load[s].search], o)
        BY DEF Listing
      <4>2. DOMAIN a.data = Window(Match[load[s].search], load[s].page, o)
        BY DEF Listing
      <4>3. a.paging.page = load[s].page
        BY <4>1, PagingNamesPage
      <4> HIDE DEF a
      <4> QED
        BY <4>1, <4>2, <4>3 DEF Lists
    <3> HIDE DEF a
    <3> QED
      BY <2>3, <1>2, <3>1
  <2>5. ~Settled'
    BY <2>3 DEF Settled, Free
  <2>6. ASSUME NEW t \in Slots, Answered(t)'
        PROVE  Lists(load[t].answer.data, load[t].answer.paging, load[t].search)'
    <3>1. CASE t = s
      BY <2>4, <3>1
    <3>2. CASE t # s
      <4>1. load'[t] = load[t] /\ Answered(t)
        BY <2>2, <2>6, <3>2 DEF Answered, Free
      <4> QED
        BY <4>1, <1>1 DEF PagesAreWhole, Lists, PagingOf
    <3> QED
      BY <3>1, <3>2
  <2> QED
    BY <2>5, <2>6 DEF PagesAreWhole
<1>6. ASSUME NEW s \in Slots, Arrive(s) \/ Fail(s) PROVE PagesAreWhole'
  <2>1. load'[s] = None /\ \A t \in Slots \ {s} : load'[t] = load[t]
    BY <1>6 DEF Arrive, Fail, TypeOK
  <2>2. ASSUME NEW t \in Slots, Answered(t)'
        PROVE  Lists(load[t].answer.data, load[t].answer.paging, load[t].search)'
    <3>1. load'[t] = load[t] /\ Answered(t)
      BY <2>1, <2>2 DEF Answered, Free
    <3> QED
      BY <3>1, <1>1 DEF PagesAreWhole, Lists, PagingOf
  <2>3. ASSUME Settled' PROVE ~loading' /\ Lists(data, paging, shownFor)'
    <3>1. Arrive(s) /\ Answered(s)
      BY <1>6, <2>3 DEF Fail, Settled, Arrive, Answered
    <3> QED
      BY <3>1, <1>1 DEF Arrive, PagesAreWhole, Lists, PagingOf
  <2> QED
    BY <2>2, <2>3 DEF PagesAreWhole
<1> QED
  BY <1>3, <1>4, <1>5, <1>6, StepKinds

-----------------------------------------------------------------------------
(* Freshness.                                                              *)

LEMMA FreshStep == TypeOK /\ RowsAreFresh /\ [Next]_vars => RowsAreFresh'
<1> SUFFICES ASSUME TypeOK, RowsAreFresh, [Next]_vars,
                    ~unheard', bulk' = None \/ ~bulk'.success
             PROVE  /\ Answered(newest)' => Fresh(load[newest].answer.data)'
                    /\ Settled' /\ ~outrun' => Fresh(data)'
  BY DEF RowsAreFresh
<1>1. CASE Loads
  BY <1>1, StartEffect DEF Loads
<1>2. ASSUME Quiet, UNCHANGED <<enabled, unheard>>, bulk = None \/ ~bulk.success
      PROVE  /\ Answered(newest)' => Fresh(load[newest].answer.data)'
             /\ Settled' /\ ~outrun' => Fresh(data)'
  <2>1. ~unheard
    BY <1>2, Zenon
  <2> QED
    BY <2>1, <1>2 DEF Quiet, history, RowsAreFresh, Answered, Settled, Free, Fresh
<1>3. ASSUME NEW s \in Slots, Serve(s)
      PROVE  /\ Answered(newest)' => Fresh(load[newest].answer.data)'
             /\ Settled' /\ ~outrun' => Fresh(data)'
  <2>1. PICK o \in Orders :
          load' = [load EXCEPT ![s].answer = Listing(load[s].page, Match[load[s].search], o)]
    BY <1>3 DEF Serve
  <2> DEFINE W == Window(Match[load[s].search], load[s].page, o)
             a == Listing(load[s].page, Match[load[s].search], o)
  <2>2. /\ load[s] \in Load
        /\ load'[s] = [load[s] EXCEPT !.answer = a]
        /\ \A t \in Slots \ {s} : load'[t] = load[t]
    BY <1>3, <2>1 DEF Serve, Free, TypeOK
  <2>3. load'[s].answer = a /\ load'[s] # None
    <3>1. a \in Answers
      BY <2>2, AnswerType
    <3> HIDE DEF a
    <3>2. load'[s].answer = a
      BY <2>2 DEF Load
    <3>3. load'[s] \in Load
      BY <2>2, <3>1 DEF Load, Answers
    <3> QED
      BY <3>2, <3>3, NullAssumption
  <2>4. UNCHANGED <<enabled, data, error, newest, outrun, bulk, unheard>>
    BY <1>3 DEF Serve, screen, history
  <2>5. ~unheard /\ (bulk = None \/ ~bulk.success)
    BY <2>4, Zenon
  <2>6. Fresh(load[s].answer.data)'
    <3>1. load'[s].answer.data = [r \in W |-> r \in enabled]
      BY <2>3 DEF Listing
    <3>2. DOMAIN [r \in W |-> r \in enabled] = W
      OBVIOUS
    <3>3. \A r \in W : [q \in W |-> q \in enabled][r] = (r \in enabled)
      BY Zenon
    <3> HIDE DEF W
    <3> QED
      BY <3>1, <3>2, <3>3, <2>4 DEF Fresh
  <2>7. Answered(newest)' => Fresh(load[newest].answer.data)'
    <3>1. newest \in Slots /\ newest' = newest
      BY <2>4 DEF TypeOK
    <3>2. CASE newest = s
      BY <2>6, <3>1, <3>2 DEF Fresh
    <3>3. ASSUME newest # s, Answered(newest)' PROVE Fresh(load[newest].answer.data)'
      <4>1. load'[newest] = load[newest]
        BY <2>2, <3>1, <3>3
      <4>2. Answered(newest)
        BY <3>1, <3>3, <4>1 DEF Answered, Free
      <4>3. Fresh(load[newest].answer.data)
        BY <4>2, <2>5 DEF RowsAreFresh
      <4> QED
        BY <4>1, <4>3, <3>1, <2>4 DEF Fresh
    <3> QED
      BY <3>2, <3>3
  <2>8. ~Settled'
    BY <2>3 DEF Settled, Free
  <2> QED
    BY <2>7, <2>8
<1>4. ASSUME NEW s \in Slots, Arrive(s) \/ Fail(s)
      PROVE  /\ Answered(newest)' => Fresh(load[newest].answer.data)'
             /\ Settled' /\ ~outrun' => Fresh(data)'
  <2>1. load'[s] = None /\ \A t \in Slots \ {s} : load'[t] = load[t]
    BY <1>4 DEF Arrive, Fail, TypeOK
  <2>2. UNCHANGED <<enabled, newest, bulk, unheard>>
    BY <1>4 DEF Arrive, Fail, history
  <2>3. ~unheard /\ (bulk = None \/ ~bulk.success)
    BY <2>2, Zenon
  <2>4. Answered(newest) => Fresh(load[newest].answer.data)
    BY <2>3 DEF RowsAreFresh
  <2>5. ASSUME Answered(newest)' PROVE Fresh(load[newest].answer.data)'
    <3>1. newest \in Slots /\ newest' = newest
      BY <2>2 DEF TypeOK
    <3>2. newest # s
      BY <2>1, <2>5, <3>1 DEF Answered, Free
    <3>3. load'[newest] = load[newest] /\ Answered(newest)
      BY <2>1, <2>5, <3>1, <3>2 DEF Answered, Free
    <3> QED
      BY <3>1, <3>3, <2>2, <2>4 DEF Fresh
  <2>6. ASSUME Settled', ~outrun' PROVE Fresh(data)'
    <3>1. Arrive(s) /\ Answered(s)
      BY <1>4, <2>6 DEF Fail, Settled, Arrive, Answered
    <3>2. outrun' = (s # newest)
      BY <3>1 DEF Arrive
    <3>3. s = newest
      BY <2>6, <3>2, Zenon
    <3> QED
      BY <3>1, <3>3, <2>2, <2>4 DEF Arrive, Fresh
  <2> QED
    BY <2>5, <2>6
<1>5. ASSUME NEW r \in Rows, Updated(r)
      PROVE  FALSE
  <2>1. bulk \in Bulk /\ bulk' = [bulk EXCEPT !.todo = @ \ {r}, !.success = TRUE]
    BY <1>5 DEF Updated, TypeOK
  <2>2. bulk' \in Bulk /\ bulk'.success = TRUE
    BY <2>1 DEF Bulk
  <2> QED
    BY <2>2, NullAssumption
<1>6. ASSUME NEW r \in Rows, Refused(r)
      PROVE  bulk = None \/ ~bulk.success
  <2>1. bulk \in Bulk /\ bulk' = [bulk EXCEPT !.todo = @ \ {r}]
    BY <1>6 DEF Refused, TypeOK
  <2>2. bulk' \in Bulk /\ bulk'.success = bulk.success
    BY <2>1 DEF Bulk
  <2> QED
    BY <2>2, NullAssumption
<1>7. ASSUME NEW r \in Rows, Unheard(r)
      PROVE  FALSE
  BY <1>7 DEF Unheard
<1>8. CASE Debounce \/ Search \/ Forward \/ Previous
  <2>1. CASE Debounce /\ ~Reload(box)
    <3>1. Quiet /\ UNCHANGED <<enabled, unheard, bulk>>
      BY <2>1 DEF Debounce, NoStart, Quiet
    <3>2. bulk = None \/ ~bulk.success
      BY <3>1
    <3> QED
      BY <1>2, <3>1, <3>2
  <2> QED
    BY <1>1, <1>8, <2>1, LoadKinds
<1>9. CASE BulkEnd
  <2>1. CASE Refresh
    BY <1>1, <1>9, <2>1, LoadKinds
  <2>2. CASE ~Refresh
    <3>1. Quiet /\ UNCHANGED <<enabled, unheard>> /\ ~bulk.success
      BY <1>9, <2>2 DEF BulkEnd, Refresh, NoStart, Quiet
    <3> QED
      BY <1>2, <3>1
  <2> QED
    BY <2>1, <2>2
<1>10. ASSUME \/ \E t \in Terms : Type(t)
              \/ \E r \in Rows : Select(r)
              \/ ClearSelection \/ UNCHANGED vars
       PROVE  Quiet /\ UNCHANGED <<enabled, unheard>> /\ (bulk = None \/ ~bulk.success)
  <2>1. Quiet /\ UNCHANGED <<enabled, unheard, bulk>>
    BY <1>10 DEF Type, Select, ClearSelection, NoStart, Quiet, vars, screen
  <2> QED
    BY <2>1
<1>11. ASSUME NEW on \in BOOLEAN, BulkBegin(on)
       PROVE  Quiet /\ UNCHANGED <<enabled, unheard>> /\ bulk = None
  BY <1>11 DEF BulkBegin, NoStart, Quiet
<1>12. ASSUME NEW r \in Rows, Refused(r)
       PROVE  Quiet /\ UNCHANGED <<enabled, unheard>>
  BY <1>12 DEF Refused, NoStart, Quiet
<1> QED
  BY <1>2, <1>3, <1>4, <1>5, <1>6, <1>7, <1>8, <1>9, <1>10, <1>11, <1>12 DEF Next

-----------------------------------------------------------------------------
(* The search.                                                             *)

\* A load searches for what is applied when it begins, but for one that the
\* Enter key starts ahead of time.
LEMMA LoadsApplied ==
  ASSUME TypeOK, ~entered',
         \/ Debounce /\ Reload(box)
         \/ Search \/ Forward \/ Previous
         \/ BulkEnd /\ Refresh
  PROVE  applied' \in Terms /\ \E page \in Nat \ {0} : Start(page, applied')
<1>1. CASE Search
  <2>1. entered' = (box # applied)
    BY <1>1 DEF Search
  <2>2. box = applied
    BY <2>1, Zenon
  <2>3. Start(1, applied') /\ applied' = applied /\ 1 \in Nat \ {0}
    BY <1>1, <2>2 DEF Search
  <2> QED
    BY <2>3 DEF TypeOK
<1>2. CASE (Debounce /\ Reload(box)) \/ (BulkEnd /\ Refresh)
  <2>1. Start(1, applied') /\ applied' \in {box, applied} /\ 1 \in Nat \ {0}
    BY <1>2 DEF Debounce, BulkEnd
  <2> QED
    BY <2>1 DEF TypeOK
<1>3. CASE Forward \/ Previous
  <2>1. applied' = applied
    BY <1>3 DEF Forward, Previous, Turn
  <2>2. paging.page + 1 \in Nat \ {0} /\ (CanPrevious => paging.page - 1 \in Nat \ {0})
    BY DEF TypeOK, Paging, CanPrevious
  <2>3. \E page \in Nat \ {0} : Start(page, applied)
    BY <1>3, <2>2 DEF Forward, Previous, Turn, TurnSearch
  <2> QED
    BY <2>1, <2>3 DEF TypeOK
<1> QED
  BY <1>1, <1>2, <1>3

LEMMA SearchStep == TypeOK /\ SearchesAgree /\ [Next]_vars => SearchesAgree'
<1> SUFFICES ASSUME TypeOK, SearchesAgree, [Next]_vars PROVE SearchesAgree'
  OBVIOUS
<1> DEFINE Agree == ~entered => /\ ~Free(newest) => load[newest].search = applied
                                /\ Settled /\ ~outrun => shownFor = applied
<1>1. ~timer' => box' = applied'
  <2>1. CASE UNCHANGED <<box, applied, timer>>
    <3>1. ~timer' => ~timer
      BY <2>1, Zenon
    <3> QED
      BY <2>1, <3>1 DEF SearchesAgree
  <2>2. CASE Debounce
    BY <2>2 DEF Debounce
  <2>3. ASSUME NEW t \in Terms, Type(t) PROVE ~timer' => box' = applied'
    BY <2>3 DEF Type
  <2>4. ASSUME NEW s \in Slots, Serve(s) \/ Arrive(s) \/ Fail(s)
        PROVE  UNCHANGED <<box, applied, timer>>
    BY <2>4 DEF Serve, Arrive, Fail, screen
  <2>5. CASE Search \/ Forward \/ Previous \/ BulkEnd \/ ClearSelection \/ UNCHANGED vars
    BY <2>1, <2>5 DEF Search, Forward, Previous, Turn, BulkEnd, ClearSelection, vars, screen
  <2>6. ASSUME \/ \E r \in Rows : Select(r) \/ Updated(r) \/ Unheard(r) \/ Refused(r)
               \/ \E on \in BOOLEAN : BulkBegin(on)
        PROVE  UNCHANGED <<box, applied, timer>>
    BY <2>6 DEF Select, Updated, Unheard, Refused, BulkBegin, screen
  <2> QED
    BY <2>1, <2>2, <2>3, <2>4, <2>5, <2>6 DEF Next
<1>2. ASSUME \/ Debounce /\ Reload(box)
             \/ Search \/ Forward \/ Previous
             \/ BulkEnd /\ Refresh
      PROVE  Agree'
  <2> SUFFICES ASSUME ~entered'
               PROVE  load'[newest'].search = applied' /\ ~Settled'
    OBVIOUS
  <2>1. applied' \in Terms /\ \E page \in Nat \ {0} : Start(page, applied')
    BY <1>2, LoadsApplied
  <2> QED
    BY <2>1, StartEffect
<1>3. ASSUME Quiet, UNCHANGED applied PROVE Agree'
  <2> SUFFICES ASSUME ~entered'
               PROVE  /\ ~Free(newest)' => load'[newest'].search = applied'
                      /\ Settled' /\ ~outrun' => shownFor' = applied'
    OBVIOUS
  <2>1. UNCHANGED <<entered, load, error, newest, outrun, shownFor>>
    BY <1>3 DEF Quiet, history
  <2>2. ~entered
    BY <2>1, Zenon
  <2>3. /\ ~Free(newest) => load[newest].search = applied
        /\ Settled /\ ~outrun => shownFor = applied
    BY <2>2 DEF SearchesAgree
  <2>4. (Settled' => Settled) /\ (~Free(newest)' => ~Free(newest))
    BY <2>1 DEF Settled, Free
  <2>5. ~outrun' => ~outrun
    BY <2>1, Zenon
  <2> QED
    BY <1>3, <2>1, <2>3, <2>4, <2>5
<1>4. ASSUME NEW s \in Slots, Serve(s) \/ Arrive(s) \/ Fail(s) PROVE Agree'
  <2> SUFFICES ASSUME ~entered'
               PROVE  /\ ~Free(newest)' => load'[newest'].search = applied'
                      /\ Settled' /\ ~outrun' => shownFor' = applied'
    OBVIOUS
  <2>1. UNCHANGED <<applied, newest, entered>> /\ newest \in Slots
    BY <1>4 DEF Serve, Arrive, Fail, screen, history, TypeOK
  <2>2. ~entered
    BY <2>1, Zenon
  <2>3. ~Free(newest) => load[newest].search = applied
    BY <2>2 DEF SearchesAgree
  <2>4. load[s] \in Load
    BY <1>4 DEF Serve, Arrive, Fail, Free, TypeOK
  <2>5. \A t \in Slots \ {s} : load'[t] = load[t]
    BY <1>4 DEF Serve, Arrive, Fail, TypeOK
  <2>6. ~Free(s)' => load'[s].search = load[s].search
    BY <1>4, <2>4 DEF Serve, Arrive, Fail, Free, TypeOK, Load
  <2>7. ~Free(newest)' => ~Free(newest) /\ load'[newest].search = load[newest].search
    <3>1. CASE newest = s
      BY <3>1, <1>4, <2>1, <2>6 DEF Serve, Arrive, Fail, Free
    <3>2. CASE newest # s
      BY <3>2, <2>1, <2>5 DEF Free
    <3> QED
      BY <3>1, <3>2
  <2>8. ASSUME Settled', ~outrun' PROVE shownFor' = applied'
    <3>1. CASE Serve(s)
      <4>1. PICK o \in Orders :
              load' = [load EXCEPT ![s].answer =
                         Listing(load[s].page, Match[load[s].search], o)]
        BY <3>1 DEF Serve
      <4>2. load'[s] = [load[s] EXCEPT !.answer =
                          Listing(load[s].page, Match[load[s].search], o)]
        BY <4>1 DEF TypeOK
      <4>3. load'[s] \in Load
        BY <4>2, <2>4, AnswerType DEF Load, Answers
      <4> QED
        BY <4>3, <2>8, NullAssumption DEF Settled, Free
    <3>2. CASE Arrive(s)
      <4>1. outrun' = (s # newest) /\ shownFor' = load[s].search /\ ~Free(s)
        BY <3>2 DEF Arrive
      <4>2. s = newest
        BY <4>1, <2>8, Zenon
      <4> QED
        BY <4>1, <4>2, <2>1, <2>3
    <3> QED
      BY <1>4, <2>8, <3>1, <3>2 DEF Fail, Settled
  <2> QED
    BY <2>1, <2>3, <2>7, <2>8
<1> HIDE DEF Agree
<1>5. ASSUME (Debounce /\ ~Reload(box)) \/ (BulkEnd /\ ~Refresh)
      PROVE  Agree'
  <2>1. CASE Debounce /\ ~Reload(box)
    BY <1>3, <2>1 DEF Debounce, Reload, NoStart, Quiet
  <2>2. CASE BulkEnd /\ ~Refresh
    BY <1>3, <2>2 DEF BulkEnd, NoStart, Quiet
  <2> QED
    BY <1>5, <2>1, <2>2
<1>6. ASSUME \/ \E t \in Terms : Type(t)
             \/ \E r \in Rows : Select(r) \/ Updated(r) \/ Unheard(r) \/ Refused(r)
             \/ \E on \in BOOLEAN : BulkBegin(on)
             \/ ClearSelection \/ UNCHANGED vars
      PROVE  Agree'
  <2>1. Quiet /\ UNCHANGED applied
    BY <1>6 DEF Type, Select, Updated, Unheard, Refused, BulkBegin, ClearSelection, NoStart,
       Quiet, vars, screen
  <2> QED
    BY <2>1, <1>3
<1>7. Agree'
  BY <1>2, <1>4, <1>5, <1>6 DEF Next
<1> QED
  BY <1>1, <1>7 DEF SearchesAgree, Agree

-----------------------------------------------------------------------------
(* The selection.                                                          *)

LEMMA StartHides ==
  ASSUME NEW page, NEW search, Start(page, search)
  PROVE  SelectionIsShown'
BY DEF Start, SelectionIsShown

LEMMA SelectionStep ==
  ASSUME SelectionIsShown, [Next]_vars
  PROVE  SelectionIsShown'
<1>1. ASSUME NEW s \in Slots, Serve(s)
      PROVE  SelectionIsShown'
  BY <1>1 DEF Serve, screen, SelectionIsShown
<1>2. ASSUME NEW s \in Slots, Arrive(s)
      PROVE  SelectionIsShown'
  BY <1>2 DEF Arrive, AfterLoad, SelectionIsShown
<1>3. ASSUME NEW s \in Slots, Fail(s)
      PROVE  SelectionIsShown'
  BY <1>3 DEF Fail, SelectionIsShown
<1>4. ASSUME NEW t \in Terms, Type(t)
      PROVE  SelectionIsShown'
  BY <1>4 DEF Type, SelectionIsShown
<1>5. CASE Debounce
  <2>1. CASE Reload(box)
    BY <1>5, <2>1, StartHides DEF Debounce
  <2>2. CASE ~Reload(box)
    BY <1>5, <2>2 DEF Debounce, NoStart, SelectionIsShown
  <2> QED
    BY <2>1, <2>2
<1>6. CASE Search \/ Forward \/ Previous
  BY <1>6, StartHides DEF Search, Forward, Previous, Turn
<1>7. ASSUME NEW r \in Rows, Select(r)
      PROVE  SelectionIsShown'
  BY <1>7 DEF Select, NoStart, SelectionIsShown
<1>8. ASSUME NEW r \in Rows, Updated(r) \/ Unheard(r) \/ Refused(r)
      PROVE  SelectionIsShown'
  BY <1>8 DEF Updated, Unheard, Refused, NoStart, screen, SelectionIsShown
<1>9. ASSUME NEW on \in BOOLEAN, BulkBegin(on)
      PROVE  SelectionIsShown'
  BY <1>9 DEF BulkBegin, NoStart, SelectionIsShown
<1>10. CASE ClearSelection
  BY <1>10 DEF ClearSelection, NoStart, SelectionIsShown
<1>11. CASE BulkEnd
  <2>1. CASE Refresh
    BY <1>11, <2>1, StartHides DEF BulkEnd
  <2>2. CASE ~Refresh
    BY <1>11, <2>2 DEF BulkEnd, NoStart, SelectionIsShown
  <2> QED
    BY <2>1, <2>2
<1>12. CASE UNCHANGED vars
  BY <1>12 DEF vars, screen, SelectionIsShown
<1> QED
  BY <1>1, <1>2, <1>3, <1>4, <1>5, <1>6, <1>7, <1>8, <1>9, <1>10, <1>11, <1>12 DEF Next

\* No bulk action changes a user that is not on the screen (OrganizationUsers,
\* selectedUsers).
THEOREM NothingHiddenIsSelected == Spec => []SelectionIsShown
<1>1. Init => SelectionIsShown
  BY DEF Init, SelectionIsShown
<1> QED
  BY <1>1, SelectionStep, PTL DEF Spec

-----------------------------------------------------------------------------
(* The table at rest.                                                      *)

\* Types, and what answers and screen owe to the listing, are kept by every
\* step, whatever loads overlap, fail or come in another order.
THEOREM TableInvariance == Spec => []IInv
<1>1. Init => IInv
  <2> SUFFICES ASSUME Init PROVE IInv
    OBVIOUS
  <2>1. PICK s \in Slots : /\ load[s] = [page |-> 1, search |-> NoTerm, answer |-> None]
                           /\ \A t \in Slots \ {s} : load[t] = None
                           /\ newest = s
    BY DEF Init
  <2>2. load[s] # None
    BY <2>1, NullAssumption, TermsAssumption DEF Load
  <2>3. ~Settled /\ \A t \in Slots : ~Answered(t)
    BY <2>1, <2>2 DEF Settled, Answered, Free
  <2>4. load[newest].search = applied /\ ~Answered(newest)
    BY <2>1, <2>3 DEF Init
  <2>5. timer = TRUE
    BY DEF Init
  <2> QED
    BY <2>3, <2>4, <2>5, InitType DEF IInv, PagesAreWhole, RowsAreFresh, SearchesAgree
<1>2. IInv /\ [Next]_vars => IInv'
  BY NextType, WholeStep, FreshStep, SearchStep DEF IInv
<1> QED
  BY <1>1, <1>2, PTL DEF Spec

\* Types of the screen, the loads and the bulk action.
THEOREM TableTypeCorrect == Spec => []TypeOK
<1>1. IInv => TypeOK
  BY DEF IInv
<1> QED
  BY <1>1, TableInvariance, PTL

\* Once its loads are done the table shows every row as the server has it, the
\* rows a bulk action was refused for included, unless the answer to an older
\* load came last or the reply to a change was lost since the newest load began.
THEOREM OutcomeIsShown == Spec => []ShowsTheOutcome
<1>1. IInv => ShowsTheOutcome
  BY DEF IInv, RowsAreFresh, ShowsTheOutcome, AtRest, Settled, Fresh
<1> QED
  BY <1>1, TableInvariance, PTL

\* The strip leads on from every page of a listing that counts as long as a name
\* follows the ones shown, and to pages with rows unless what is shown is not
\* what is applied, for any number of rows, any ties and any page size.
THEOREM StripLeadsOn == Spec => []CountedPagesReachable
<1>1. IInv => CountedPagesReachable
  <2> SUFFICES ASSUME IInv, AtRest, source = "query", data # NoRows
               PROVE  /\ Beyond # {} => CanNext
                      /\ ~outrun /\ ~entered => /\ CanNext => HasRows(paging.page + 1)
                                                /\ CanPrevious => HasRows(paging.page - 1)
    BY DEF CountedPagesReachable
  <2> DEFINE S == Match[shownFor]
             p == paging.page
             n == Cardinality(S)
  <2>1. ~error /\ ~loading /\ Lists(data, paging, shownFor)
    BY DEF IInv, PagesAreWhole, AtRest, Settled
  <2>2. S \in SUBSET Rows /\ p \in Nat \ {0}
    BY WindowOfRows DEF IInv, TypeOK, Paging
  <2>3. PICK o \in Orders : DOMAIN data = Window(S, p, o) /\ paging = Counted(p, n)
    BY <2>1 DEF Lists, PagingOf
  <2>4. n \in Nat /\ TotalPages(n) \in Nat /\ (p < TotalPages(n) <=> p * PageSize < n)
    BY <2>2, ListingIsFinite, PagesCounted
  <2>5. CanNext <=> p * PageSize < n
    <3>1. paging.totalPages = TotalPages(n)
      BY <2>3 DEF Counted
    <3>2. paging.hasNext <=> p < TotalPages(n)
      BY <2>3, CountedNext
    <3>3. CanNext <=> TotalPages(n) > 1 /\ p < TotalPages(n)
      BY <2>1, <3>1, <3>2 DEF CanNext, Strip
    <3>4. CanNext <=> p < TotalPages(n)
      BY <2>2, <2>4, <3>3
    <3> QED
      BY <2>4, <3>4
  <2>6. Window(S, p, o) # {}
    <3>1. \E T \in SUBSET Rows : data \in [T -> BOOLEAN]
      BY DEF IInv, TypeOK, Table
    <3>2. DOMAIN data = {} => data = NoRows
      BY <3>1 DEF NoRows
    <3> QED
      BY <2>3, <3>2
  <2>7. ASSUME Beyond # {} PROVE CanNext
    <3>1. PICK r \in S : \A q \in Window(S, p, o) : Name[q] < Name[r]
      BY <2>3, <2>7 DEF Beyond
    <3>2. \A q \in Window(S, p, o) : o[q] < o[r]
      BY <2>2, <3>1, OrdersAreTotal DEF Window
    <3>3. p * PageSize < n
      BY <2>2, <2>6, <3>2, MoreFollows
    <3> QED
      BY <2>5, <3>3
  <2>8. ASSUME ~outrun, ~entered, NEW k \in Nat \ {0}, (k - 1) * PageSize < n
        PROVE  HasRows(k)
    <3>1. shownFor = applied
      BY <2>8 DEF IInv, SearchesAgree, AtRest, Settled
    <3>2. \A x \in Orders : Window(S, k, x) # {}
      BY <2>2, <2>8, PageHasRows
    <3> QED
      BY <3>1, <3>2 DEF HasRows, TurnSearch
  <2>9. ASSUME ~outrun, ~entered, CanNext PROVE HasRows(p + 1)
    <3>1. p + 1 \in Nat \ {0} /\ (p + 1) - 1 = p
      BY <2>2
    <3>2. ((p + 1) - 1) * PageSize < n
      BY <2>5, <2>9, <3>1
    <3> QED
      BY <2>8, <2>9, <3>1, <3>2
  <2>10. ASSUME ~outrun, ~entered, CanPrevious PROVE HasRows(p - 1)
    <3>1. p - 1 \in Nat \ {0} /\ PageSize \in Nat \ {0}
      BY <2>2, <2>10, SizeAssumption DEF CanPrevious
    <3>2. (p - 1) * PageSize < n
      BY <2>2, <2>6, PageHasRows
    <3> DEFINE k == p - 1
    <3>3. (k - 1) * PageSize + PageSize = k * PageSize
      <4>1. k \in Nat \ {0}
        BY <3>1
      <4> HIDE DEF k
      <4> QED
        BY <3>1, <4>1
    <3>4. (k - 1) * PageSize < n
      <4>1. k \in Nat \ {0} /\ k * PageSize < n
        BY <3>1, <3>2
      <4> HIDE DEF k
      <4>2. (k - 1) * PageSize \in Int /\ k * PageSize \in Int
        BY <3>1, <4>1
      <4> QED
        BY <3>1, <3>3, <4>1, <4>2, <2>4
    <3> QED
      BY <2>8, <2>10, <3>1, <3>4
  <2> QED
    BY <2>7, <2>9, <2>10
<1> QED
  BY <1>1, TableInvariance, PTL

\* Half a second after the last key the table shows what the box says, or an
\* error, whatever overlapped or was entered early before: as long as the answer
\* to the newest load came last, and that load was not itself an early Enter.
THEOREM SearchIsCaughtUp == Spec => []SearchCatchesUp
<1>1. IInv => SearchCatchesUp
  BY DEF IInv, SearchesAgree, SearchCatchesUp, AtRest, Settled
<1> QED
  BY <1>1, TableInvariance, PTL
=============================================================================
