------------------------------ MODULE PortalTable ------------------------------
(***************************************************************************)
(* A paged, searchable list of the portal, with the bulk actions on the    *)
(* members of an organization, and the listing that serves it              *)
(* (PaginatedDataTable.tsx, DataTable.tsx and OrganizationUsers.tsx of     *)
(* apps/directory-portal/src; ListQuery and the services that list).       *)
(*                                                                         *)
(* The component keeps the rows it shows, their place among the pages, the *)
(* search box and its value half a second ago.  Typing, paging, a search   *)
(* by the Enter key and a refresh each start a load; nothing cancels one   *)
(* that is under way, and answers come in any order.  A load is served at  *)
(* one moment between its start and its arrival.                           *)
(*                                                                         *)
(* A listing tells the number of pages by counting what matches            *)
(* (ListQuery.pagination), or not at all, as that of the test runs.        *)
(*                                                                         *)
(* A listing is ordered by one column, such as the name of a user; rows    *)
(* that are equal there may come in another order every time.              *)
(*                                                                         *)
(* A row is its name and whether it is enabled; the other columns, sorting *)
(* by them, and rows that come and go are left out.                        *)
(***************************************************************************)
EXTENDS FiniteSets, Integers

CONSTANTS Rows,       \* what is listed
          Name,       \* what the listing orders the rows by, as a number
          Orders,     \* orderBy: the orders in which it may list them, as their places
          Terms,      \* what may stand in the search box
          NoTerm,     \* the empty search box
          Match,      \* the rows that match each term
          PageSize,   \* defaultPageSize
          Sources,    \* bound: the kinds of listing, "query" or "tests"
          Enabled,    \* the rows enabled at first
          Deleted,    \* the rows of deleted users
          Slots,      \* bound: loads under way at the same time
          None

ASSUME RowsAssumption == IsFiniteSet(Rows) /\ Name \in [Rows -> Nat]

\* by name, and at random among equals
ASSUME OrdersAssumption ==
  /\ Orders \subseteq [Rows -> Nat]
  /\ \A o \in Orders :
       \A q, r \in Rows : /\ o[q] = o[r] => q = r
                          /\ Name[q] < Name[r] => o[q] < o[r]

ASSUME TermsAssumption == NoTerm \in Terms /\ Match \in [Terms -> SUBSET Rows]
ASSUME SizeAssumption == PageSize \in Nat \ {0} /\ Enabled \subseteq Rows \ Deleted

VARIABLES source,    \* what lists the rows
          enabled,   \* the enabled rows, on the server
          box,       \* searchTerm
          applied,   \* debouncedSearchTerm
          timer,     \* is the half second running?
          load,      \* loads under way
          data,      \* the rows shown: row -> shown as enabled?
          paging,    \* pagination
          loading, error,
          selected,  \* selectedUserIds
          bulk,      \* the bulk action under way, or None
          shownFor,  \* history: the search whose answer is shown
          newest,    \* history: the load that began last
          outrun,    \* history: did the answer that is shown come after a newer load's?
          entered,   \* history: is the newest load one by Enter, ahead of the half second?
          unheard    \* history: has the reply to a change been lost since the newest load began?

screen  == <<box, applied, timer, data, paging, loading, error, selected>>
history == <<shownFor, newest, outrun, entered>>
vars    == <<source, enabled, load, bulk, screen, history, unheard>>

Paging == [page : Nat \ {0}, totalPages : Nat \cup {-1}, hasNext : BOOLEAN]

Table == UNION {[S -> BOOLEAN] : S \in SUBSET Rows}

Load == [page : Nat \ {0}, search : Terms,
         answer : [data : Table, paging : Paging] \cup {None}]

Bulk == [on : BOOLEAN, todo : SUBSET Rows, success : BOOLEAN]

ASSUME NullAssumption == None \notin Load /\ None \notin Bulk

-----------------------------------------------------------------------------
(* The listings.                                                           *)

\* the rows of S that stand on page p when they come in the order o
Window(S, p, o) == {r \in S : LET before == Cardinality({q \in S : o[q] < o[r]})
                              IN (p - 1) * PageSize <= before /\ before < p * PageSize}

\* Math.ceil(total / pageSize)
TotalPages(total) == (total + PageSize - 1) \div PageSize

Counted(p, total) == [page |-> p, totalPages |-> TotalPages(total),
                      hasNext |-> p < TotalPages(total)]

\* count is the number of rows on the page
Uncounted(p, count) == [page |-> p, totalPages |-> -1, hasNext |-> count >= PageSize]

PagingOf(p, S, o) == IF source = "query" THEN Counted(p, Cardinality(S))
                     ELSE Uncounted(p, Cardinality(Window(S, p, o)))

Listing(p, S, o) == [data   |-> [r \in Window(S, p, o) |-> r \in enabled],
                     paging |-> PagingOf(p, S, o)]

-----------------------------------------------------------------------------
(* Loads.                                                                  *)

Free(s) == load[s] = None

\* loadData(page, search) begins
Start(page, search) ==
  /\ \E s \in Slots :
       /\ Free(s)
       /\ load' = [load EXCEPT ![s] = [page |-> page, search |-> search, answer |-> None]]
       /\ newest' = s
  /\ loading' = TRUE
  /\ error' = FALSE
  /\ unheard' = FALSE
  /\ UNCHANGED <<source, enabled, data, paging, shownFor, outrun>>

\* no load begins
NoStart == UNCHANGED <<source, enabled, load, data, paging, loading, error, history, unheard>>

\* the service lists the rows
Serve(s) ==
  /\ ~Free(s) /\ load[s].answer = None
  /\ \E o \in Orders :
       load' = [load EXCEPT ![s].answer = Listing(load[s].page, Match[load[s].search], o)]
  /\ UNCHANGED <<source, enabled, bulk, screen, history, unheard>>

\* faulty variant: the selection is kept from page to page
KeepSelection == selected

\* setSelectedUserIds([]), once the answer is there
AfterLoad == {}

Arrive(s) ==
  /\ ~Free(s) /\ load[s].answer # None
  /\ data' = load[s].answer.data
  /\ paging' = load[s].answer.paging
  /\ shownFor' = load[s].search
  /\ outrun' = (s # newest)
  /\ selected' = AfterLoad
  /\ loading' = FALSE
  /\ load' = [load EXCEPT ![s] = None]
  /\ UNCHANGED <<source, enabled, bulk, box, applied, timer, error, newest, entered, unheard>>

\* faulty variant: nothing in place of the rows
Undefined == None

NoRows == [r \in {} |-> FALSE]

\* the call fails, or is not answered by a list
Fail(s) ==
  /\ ~Free(s)
  /\ data' = NoRows
  /\ error' = TRUE
  /\ loading' = FALSE
  /\ load' = [load EXCEPT ![s] = None]
  /\ UNCHANGED <<source, enabled, bulk, box, applied, timer, paging, selected,
                 history, unheard>>

-----------------------------------------------------------------------------
(* The search box and the pages.                                           *)

Type(t) ==
  /\ t # box
  /\ box' = t
  /\ timer' = TRUE
  /\ UNCHANGED <<source, enabled, load, bulk, applied, data, paging, loading, error,
                 selected, history, unheard>>

\* faulty variant: the effect does not depend on the search
NeverReload(t) == FALSE

\* an effect runs when the value it depends on changes
Reload(t) == applied # t

Debounce ==
  /\ timer
  /\ timer' = FALSE
  /\ applied' = box
  /\ IF Reload(box) THEN Start(1, box) /\ entered' = FALSE ELSE NoStart
  /\ UNCHANGED <<bulk, box, selected>>

\* the Enter key, or the button beside the box
Search ==
  /\ Start(1, box)
  /\ entered' = (box # applied)
  /\ UNCHANGED <<bulk, box, applied, timer, selected>>

\* the paging strip is there when several pages are counted
Strip == ~error /\ ~loading /\ paging.totalPages > 1

CanNext == Strip /\ paging.hasNext
CanPrevious == Strip /\ paging.page > 1

\* faulty variant: the box, whose half second may still be running
BoxSearch == box

\* what another page is loaded for: not the search that is shown, but the applied one
TurnSearch == applied

Turn(page) ==
  /\ Start(page, TurnSearch)
  /\ entered' = FALSE
  /\ UNCHANGED <<bulk, box, applied, timer, selected>>

Forward == CanNext /\ Turn(paging.page + 1)

Previous == CanPrevious /\ Turn(paging.page - 1)

-----------------------------------------------------------------------------
(* Selecting rows and changing them.                                       *)

Select(r) ==
  /\ ~loading /\ ~error /\ r \in DOMAIN data \ Deleted
  /\ selected' = IF r \in selected THEN selected \ {r} ELSE selected \cup {r}
  /\ UNCHANGED <<bulk, box, applied, timer>> /\ NoStart

ClearSelection ==
  /\ bulk = None
  /\ selected' = {}
  /\ UNCHANGED <<bulk, box, applied, timer>> /\ NoStart

\* usersToEnable, usersToDisable
ToChange(on) == {r \in selected \cap DOMAIN data : data[r] # on}

\* handleBulkEnable, handleBulkDisable: one call for each row
BulkBegin(on) ==
  /\ bulk = None
  /\ ToChange(on) # {}
  /\ bulk' = [on |-> on, todo |-> ToChange(on), success |-> FALSE]
  /\ UNCHANGED <<selected, box, applied, timer>> /\ NoStart

Changed(r, on) == IF on THEN enabled \cup {r} ELSE enabled \ {r}

Updated(r) ==
  /\ bulk # None /\ r \in bulk.todo
  /\ enabled' = Changed(r, bulk.on)
  /\ bulk' = [bulk EXCEPT !.todo = @ \ {r}, !.success = TRUE]
  /\ UNCHANGED <<source, load, screen, history, unheard>>

\* the server updates the row, and its reply is lost: rejected, as if refused
Unheard(r) ==
  /\ bulk # None /\ r \in bulk.todo
  /\ enabled' = Changed(r, bulk.on)
  /\ bulk' = [bulk EXCEPT !.todo = @ \ {r}]
  /\ unheard' = TRUE
  /\ UNCHANGED <<source, load, screen, history>>

\* the server refuses
Refused(r) ==
  /\ bulk # None /\ r \in bulk.todo
  /\ bulk' = [bulk EXCEPT !.todo = @ \ {r}]
  /\ UNCHANGED <<selected, box, applied, timer>> /\ NoStart

\* faulty variant: the list is left as it is
NoRefresh == FALSE

\* whatever was refused
Refresh == bulk.success

\* Promise.allSettled, then a refresh unless everything failed
BulkEnd ==
  /\ bulk # None /\ bulk.todo = {}
  /\ bulk' = None
  /\ IF Refresh THEN Start(1, applied) /\ entered' = FALSE /\ selected' = {}
     ELSE NoStart /\ UNCHANGED selected
  /\ UNCHANGED <<box, applied, timer>>

-----------------------------------------------------------------------------
\* mounting the component starts the first load, and the half second
Init == /\ source \in Sources
        /\ enabled = Enabled
        /\ box = NoTerm /\ applied = NoTerm /\ timer = TRUE
        /\ \E s \in Slots :
             /\ load = [t \in Slots |-> IF t = s THEN [page |-> 1, search |-> NoTerm, answer |-> None]
                                        ELSE None]
             /\ newest = s
        /\ data = NoRows
        /\ paging = [page |-> 1, totalPages |-> 0, hasNext |-> FALSE]
        /\ loading = TRUE /\ error = FALSE
        /\ selected = {} /\ bulk = None
        /\ shownFor = NoTerm
        /\ outrun = FALSE /\ entered = FALSE /\ unheard = FALSE

Next == \/ \E s \in Slots : Serve(s) \/ Arrive(s) \/ Fail(s)
        \/ \E t \in Terms : Type(t)
        \/ Debounce \/ Search \/ Forward \/ Previous
        \/ \E r \in Rows : Select(r) \/ Updated(r) \/ Unheard(r) \/ Refused(r)
        \/ \E on \in BOOLEAN : BulkBegin(on)
        \/ ClearSelection \/ BulkEnd

Spec == Init /\ [][Next]_vars
-----------------------------------------------------------------------------
(* Properties.                                                             *)

\* The screen, the loads and the bulk action have the shape of their types.
TypeOK == /\ source \in Sources
          /\ enabled \subseteq Rows
          /\ box \in Terms /\ applied \in Terms /\ shownFor \in Terms
          /\ load \in [Slots -> Load \cup {None}]
          /\ data \in Table
          /\ paging \in Paging
          /\ selected \subseteq Rows
          /\ bulk \in Bulk \cup {None}
          /\ newest \in Slots
          /\ {timer, loading, error, outrun, entered, unheard} \subseteq BOOLEAN

\* What a bulk action is about to change is on the screen: a selection never
\* outlives the rows it was made on, however loads overlap and fail.
SelectionIsShown == ~error /\ ~loading => selected \subseteq DOMAIN data

AtRest == bulk = None /\ ~error /\ \A s \in Slots : Free(s)

\* After a bulk action the table shows what became of the rows, the ones that
\* were refused included.  Loads may overlap as long as the answer to an older
\* one does not come last; where the reply to a change was lost, the next load
\* makes up for it.
ShowsTheOutcome ==
  AtRest /\ ~outrun /\ ~unheard => \A r \in DOMAIN data : data[r] = (r \in enabled)

\* the rows that match, with names behind all that are shown
Beyond == {r \in Match[shownFor] : \A q \in DOMAIN data : Name[q] < Name[r]}

\* page p of the search that pages are loaded for has rows, in whatever order
HasRows(p) == \A o \in Orders : Window(Match[TurnSearch], p, o) # {}

\* Where the listing counts what matches, the strip leads on from a page as long
\* as a name follows the ones shown.  And no button of the strip leads to an
\* empty page, unless what is shown is the answer to an early Enter or to a load
\* that a newer one outran: pages are loaded for the applied search.  That rows
\* of one name are all come by is not promised: their order may change between
\* two pages.
CountedPagesReachable ==
  AtRest /\ source = "query" /\ data # NoRows =>
    /\ Beyond # {} => CanNext
    /\ ~outrun /\ ~entered => /\ CanNext => HasRows(paging.page + 1)
                              /\ CanPrevious => HasRows(paging.page - 1)

\* "The API returns one no totals, so we need to determine hasNext without
\* needing total count": the rows of every listing can be reached.
PagesReachable == AtRest /\ Beyond # {} /\ data # NoRows => CanNext

\* Half a second after the last key the table shows what the box says, or an
\* error, however loads overlapped and whatever was entered early before.  Two
\* cases are left: the answer to an older load came last, and the box went back
\* to what it was after an early Enter, so that nothing is loaded any more.
SearchCatchesUp ==
  AtRest /\ ~timer /\ ~outrun /\ ~entered => shownFor = box
-----------------------------------------------------------------------------
(* What makes them inductive: what the answers under way owe to the        *)
(* listing, and what the screen shows once the last of them is there.      *)

Settled == ~error /\ \A s \in Slots : Free(s)

Answered(s) == ~Free(s) /\ load[s].answer # None

\* d and pg are a page of the rows that match t, and its place in the listing
Lists(d, pg, t) == \E o \in Orders : /\ DOMAIN d = Window(Match[t], pg.page, o)
                                     /\ pg = PagingOf(pg.page, Match[t], o)

\* Every answer is a page of what its load searched for, and so is the screen
\* once it has settled, whichever answer came last.
PagesAreWhole ==
  /\ \A s \in Slots :
       Answered(s) => Lists(load[s].answer.data, load[s].answer.paging, load[s].search)
  /\ Settled => ~loading /\ Lists(data, paging, shownFor)

Fresh(d) == \A r \in DOMAIN d : d[r] = (r \in enabled)

\* A row the bulk action has changed may be shown as it was until the next load;
\* apart from that, the answer to the newest load is not stale, on its way and
\* on the screen.
RowsAreFresh ==
  ~unheard /\ (bulk = None \/ ~bulk.success)
    => /\ Answered(newest) => Fresh(load[newest].answer.data)
       /\ Settled /\ ~outrun => Fresh(data)

\* The search waits for the half second only; the newest load, and the answer
\* to it, are for the search that was applied last, or entered since.
SearchesAgree ==
  /\ ~timer => box = applied
  /\ ~entered => /\ ~Free(newest) => load[newest].search = applied
                 /\ Settled /\ ~outrun => shownFor = applied

IInv == TypeOK /\ PagesAreWhole /\ RowsAreFresh /\ SearchesAgree
=============================================================================
