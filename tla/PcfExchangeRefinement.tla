------------------------- MODULE PcfExchangeRefinement -------------------------
(***************************************************************************)
(* PcfExchange implements PcfLifecycle: every step of every interleaving   *)
(* of handlers, callbacks and partners is a step in the life of one        *)
(* request, or none, and a footprint goes astray only where a partner is a *)
(* node of another directory that bears the number of a node of this one.  *)
(* Between the nodes of this directory, and as long as no two decisions on *)
(* a request overlap, it is answered once: the strict form of PcfLifecycle.*)
(***************************************************************************)
EXTENDS PcfExchangeProofs, ExchangeInSequence

askerBar == [e \in Events |-> IF asked[e] = None THEN None ELSE asked[e].from]
lifeBar  == [e \in Events |-> IF HasRow(e) THEN requests[e].status ELSE "none"]

LEMMA InitRefines == Init => PL!Init
BY DEF Init, PL!Init, HasRow

\* A step that keeps the parties and the status of every row changes no life.
LEMMA SameLife ==
  ASSUME UNCHANGED requests
  PROVE  lifeBar' = lifeBar
BY DEF lifeBar, HasRow

LEMMA SameAsker ==
  ASSUME UNCHANGED asked
  PROVE  askerBar' = askerBar
BY DEF askerBar

LEMMA Stutters ==
  ASSUME askerBar' = askerBar, lifeBar' = lifeBar, UNCHANGED <<offers, received>>
  PROVE  UNCHANGED PL!vars
BY DEF askerBar, lifeBar, PL!vars

\* Where one row is written, one life changes.
LEMMA OneLife ==
  ASSUME Inv, NEW e \in Events, Written(e), requests'[e] \in PcfRow
  PROVE  lifeBar' = [lifeBar EXCEPT ![e] = requests'[e].status]
<1>1. requests'[e] # None
  BY RowsAssumption
<1>2. \A d \in Events : d # e => requests'[d] = requests[d]
  BY DEF Written, Inv, TypeOK
<1>3. ASSUME NEW d \in Events
      PROVE  lifeBar'[d] = [lifeBar EXCEPT ![e] = requests'[e].status][d]
  BY <1>1, <1>2 DEF lifeBar, HasRow
<1> QED
  BY <1>3 DEF lifeBar

\* A new row is the beginning of a life.
LEMMA NewLife ==
  ASSUME Inv, NEW e \in Events, Written(e), NewRow(e)
  PROVE  lifeBar[e] = "none" /\ lifeBar' = [lifeBar EXCEPT ![e] = "pending"]
<1>1. requests'[e] \in PcfRow /\ requests'[e].status = "pending" /\ ~HasRow(e)
  BY DEF NewRow
<1> QED
  BY <1>1, OneLife DEF lifeBar

LEMMA AskRefines ==
  ASSUME Inv, NEW e \in Events, NEW p \in Pair,
         asked[e] \in {None, p}, asked' = [asked EXCEPT ![e] = p],
         UNCHANGED requests \/ (Written(e) /\ NewRow(e)),
         UNCHANGED <<offers, received>>
  PROVE  [PL!StrictNext]_PL!vars
<1>1. p # None /\ p.from \in Nodes /\ p.from # None
  BY LinksAssumption, NodesAssumption DEF Pair
<1>2. CASE asked[e] = None
  <2>1. askerBar' = [askerBar EXCEPT ![e] = p.from]
    BY <1>1 DEF askerBar, Inv, TypeOK
  <2>2. askerBar[e] = None
    BY <1>2 DEF askerBar
  <2>3. \/ lifeBar' = lifeBar
        \/ lifeBar[e] = "none" /\ lifeBar' = [lifeBar EXCEPT ![e] = "pending"]
    BY NewLife, SameLife
  <2>4. PL!Ask(e, p.from)
    BY <2>1, <2>2, <2>3 DEF PL!Ask, askerBar, lifeBar
  <2> QED
    BY <1>1, <2>4 DEF PL!StrictNext, PL!Exchange
<1>3. CASE asked[e] = p
  <2>1. asked' = asked
    BY <1>3 DEF Inv, TypeOK
  <2>2. askerBar' = askerBar
    BY <2>1, SameAsker
  <2>3. CASE UNCHANGED requests
    BY <2>2, <2>3, SameLife, Stutters
  <2>4. CASE Written(e) /\ NewRow(e)
    <3>1. askerBar[e] # None
      BY <1>1, <1>3 DEF askerBar
    <3>2. PL!Record(e)
      BY <2>2, <2>4, <3>1, NewLife DEF PL!Record, askerBar, lifeBar
    <3> QED
      BY <3>2 DEF PL!StrictNext, PL!Exchange
  <2> QED
    BY <2>3, <2>4
<1> QED
  BY <1>2, <1>3

LEMMA InsertRefines ==
  ASSUME Inv, NEW h \in Slots, CreateInsert(h)
  PROVE  [PL!StrictNext]_PL!vars
<1>1. askerBar' = askerBar /\ UNCHANGED <<asked, offers, received>>
  BY SameAsker DEF CreateInsert, history
<1>2. CASE UNCHANGED requests
  BY <1>1, <1>2, SameLife, Stutters
<1>3. ASSUME NEW e \in Events, Written(e), NewRow(e) PROVE PL!StrictNext
  <2>1. asked[e] # None /\ asked[e].from # None
    BY <1>1, <1>3, NodesAssumption DEF NewRow, Inv, TypeOK, Pair
  <2>2. askerBar[e] # None
    BY <2>1 DEF askerBar
  <2>3. PL!Record(e)
    BY <1>1, <1>3, <2>2, NewLife DEF PL!Record, askerBar, lifeBar
  <2> QED
    BY <2>3 DEF PL!StrictNext, PL!Exchange
<1>4. ASSUME NEW e \in Events, Written(e), LinkedRow(e) PROVE UNCHANGED PL!vars
  <2>1. requests'[e] \in PcfRow /\ HasRow(e) /\ requests'[e].status = requests[e].status
    BY <1>4 DEF LinkedRow, SameParties
  <2>2. lifeBar' = [lifeBar EXCEPT ![e] = requests[e].status]
    BY <1>4, <2>1, OneLife
  <2>3. lifeBar[e] = requests[e].status
    BY <2>1 DEF lifeBar
  <2>4. lifeBar' = lifeBar
    BY <2>2, <2>3 DEF lifeBar
  <2> QED
    BY <1>1, <2>4, Stutters
<1> QED
  BY <1>2, <1>3, <1>4, InsertEffect

\* An UPDATE of an answer settles the request, again or for the first time;
\* when the request was pending, or shows this answer already, it is settled once.
LEMMA SettledRefines ==
  ASSUME Inv, NEW e \in Events, Written(e), SettledRow(e),
         UNCHANGED <<asked, offers, received>>
  PROVE  /\ PL!Next
         /\ requests[e].status \in {"pending", requests'[e].status}
              => [PL!StrictNext]_PL!vars
<1>1. HasRow(e) /\ requests[e] \in PcfRow /\ requests'[e] \in PcfRow
  BY DEF SettledRow, SameParties, HasRow, Inv, TypeOK
<1>2. lifeBar[e] = requests[e].status
      /\ requests[e].status \in {"pending"} \cup {"fulfilled", "rejected"}
  BY <1>1 DEF lifeBar, PcfRow, Status
<1>3. lifeBar' = [lifeBar EXCEPT ![e] = requests'[e].status]
  BY <1>1, OneLife
<1>4. /\ requests'[e].status \in {"fulfilled", "rejected"}
      /\ requests'[e].status = "fulfilled" => offers[e] # {}
  BY DEF SettledRow
<1>5. askerBar' = askerBar
  BY SameAsker
<1>6. ASSUME NEW from, requests[e].status \in from PROVE PL!Decide(from)
  BY <1>2, <1>3, <1>4, <1>5, <1>6 DEF PL!Decide, PL!Settled, askerBar, lifeBar
<1>7. PL!Settle
  BY <1>2, <1>6 DEF PL!Settle, PL!Settled
<1>8. CASE requests[e].status = "pending"
  <2>1. PL!SettleStrict
    BY <1>6, <1>8 DEF PL!SettleStrict
  <2> QED
    BY <1>7, <2>1 DEF PL!Next, PL!StrictNext
<1>9. CASE requests[e].status = requests'[e].status
  <2>1. lifeBar' = lifeBar
    BY <1>2, <1>3, <1>9 DEF lifeBar
  <2>2. UNCHANGED PL!vars
    BY <1>5, <2>1, Stutters
  <2> QED
    BY <1>7, <2>2 DEF PL!Next
<1> QED
  BY <1>7, <1>8, <1>9 DEF PL!Next

\* A step that offers a set of footprints in answer to e, and one that does not.
LEMMA OfferRefines ==
  ASSUME Inv, NEW e \in Events, asked[e] # None, NEW P \in SUBSET Pfs,
         UNCHANGED <<asked, requests, received>>,
         offers' = offers \/ offers' = [offers EXCEPT ![e] = @ \cup {P}]
  PROVE  [PL!StrictNext]_PL!vars
<1>1. askerBar' = askerBar /\ lifeBar' = lifeBar
  BY SameAsker, SameLife
<1>2. askerBar[e] # None
  BY NodesAssumption DEF askerBar, Inv, TypeOK, Pair
<1>3. CASE offers' = offers
  BY <1>1, <1>3, Stutters
<1>4. CASE offers' = [offers EXCEPT ![e] = @ \cup {P}]
  <2>1. PL!Offer(e, P)
    BY <1>1, <1>2, <1>4 DEF PL!Offer, askerBar, lifeBar
  <2> QED
    BY <2>1 DEF PL!StrictNext, PL!Exchange
<1> QED
  BY <1>3, <1>4

LEMMA DecideRefines ==
  ASSUME Inv, NEW h \in Slots, NEW e \in Events, NEW s \in Verdicts,
         NEW F \in SUBSET Pfs, NEW found \in SUBSET Pfs, DecideBegin(h, e, s, F, found)
  PROVE  [PL!StrictNext]_PL!vars
<1>1. asked[e] # None
  BY DEF DecideBegin, Pending, Inv, RowsTrue, Matching
<1> QED
  BY <1>1, OfferRefines DEF DecideBegin

LEMMA AnswerRefines ==
  ASSUME Inv, NEW h \in Slots, NEW e \in Events, NEW s \in Verdicts,
         NEW P \in SUBSET Pfs, ExternalAnswer(h, e, s, P)
  PROVE  [PL!StrictNext]_PL!vars
BY OfferRefines DEF ExternalAnswer

\* A footprint written to the node that asked, one that was offered to it.
LEMMA WriteRefines ==
  ASSUME Inv, NEW e \in Events, asked[e] # None, NEW pf \in UNION offers[e],
         Write(asked[e].from, pf), UNCHANGED <<asked, requests, offers>>
  PROVE  PL!StrictNext
<1>1. askerBar' = askerBar /\ lifeBar' = lifeBar
  BY SameAsker, SameLife
<1>2. askerBar[e] = asked[e].from /\ asked[e].from \in Nodes
  BY DEF askerBar, Inv, TypeOK, Pair
<1>3. received' = [received EXCEPT ![askerBar[e]] = @ \cup {pf}]
  BY <1>2 DEF Write
<1>4. PL!Deliver(e, pf)
  BY <1>1, <1>2, <1>3 DEF PL!Deliver, PL!Hand, askerBar, lifeBar
<1>5. pf \in Pfs
  BY DEF Inv, TypeOK
<1> QED
  BY <1>4, <1>5 DEF PL!StrictNext, PL!Exchange

LEMMA StoreRefines ==
  ASSUME Inv, NEW h \in Slots, Store(h)
  PROVE  PL!StrictNext \/ (PL!Misdeliver /\ req[h].row.source = "elsewhere")
<1> DEFINE e == req[h].event
<1>1. OfHandler(req[h]) /\ req[h].step \in Answering
  BY DEF Store, At, Answering, Inv, InFlight
<1>2. PICK pf \in req[h].pfs : Write(req[h].row.from, pf)
  BY DEF Store
<1>3. req[h].row.from \in Nodes
  BY <1>2 DEF Write, Inv, TypeOK
<1>4. /\ e \in Events /\ asked[e] # None /\ pf \in UNION offers[e]
      /\ req[h].row.from \in Asker(e, req[h].row.source)
  BY <1>1, <1>2 DEF OfHandler
<1>5. UNCHANGED <<asked, requests, offers>>
  BY DEF Store
<1>6. CASE req[h].row.source = "elsewhere"
  <2>1. req[h].row.from \in Aliases /\ asked[e].from \in External
    BY <1>3, <1>4, <1>6, NodesAssumption DEF Asker
  <2>2. askerBar' = askerBar /\ lifeBar' = lifeBar /\ askerBar[e] \in External
    BY <1>4, <1>5, <2>1, SameAsker, SameLife DEF askerBar
  <2>3. received' = [received EXCEPT ![req[h].row.from] = @ \cup {pf}]
    BY <1>2 DEF Write
  <2>4. pf \in Pfs
    BY <1>4 DEF Inv, TypeOK
  <2>5. PL!Hand(e, req[h].row.from, pf)
    BY <1>4, <1>5, <2>2, <2>3 DEF PL!Hand, askerBar, lifeBar
  <2>6. PL!Misdeliver
    BY <1>4, <2>1, <2>2, <2>4, <2>5 DEF PL!Misdeliver, askerBar
  <2> QED
    BY <1>6, <2>6
<1>7. CASE req[h].row.source # "elsewhere"
  BY <1>2, <1>4, <1>5, <1>7, WriteRefines DEF Asker
<1> QED
  BY <1>6, <1>7

LEMMA JobStoreRefines ==
  ASSUME Inv, NEW h \in Slots, JobStore(h)
  PROVE  PL!StrictNext
<1> DEFINE e == job[h].event
<1>1. OfJob(job[h]) /\ job[h] # None /\ e \in Events
  BY DEF JobStore, Inv, InFlight, TypeOK, Job
<1>2. PICK pf \in job[h].pfs : Write(job[h].to, pf)
  BY DEF JobStore
<1>3. asked[e] # None /\ pf \in UNION offers[e] /\ job[h].to = asked[e].from
  BY <1>1, <1>2 DEF OfJob
<1>4. UNCHANGED <<asked, requests, offers>>
  BY DEF JobStore
<1> QED
  BY <1>1, <1>2, <1>3, <1>4, WriteRefines

\* Rows that go with their connection or their target vanish.
LEMMA CascadeRefines ==
  ASSUME Inv, NEW ids, NEW nodes, requests' = CascadeAll(ids, nodes),
         UNCHANGED <<asked, offers, received>>
  PROVE  PL!StrictNext
<1> DEFINE S == {e \in Events : requests'[e] = None}
<1>1. \A e \in Events : requests'[e] \in {None, requests[e]}
  BY DEF CascadeAll
<1>2. lifeBar' = [e \in Events |-> IF e \in S THEN "none" ELSE lifeBar[e]]
  <2>1. ASSUME NEW e \in Events
        PROVE  lifeBar'[e] = IF e \in S THEN "none" ELSE lifeBar[e]
    BY <1>1 DEF lifeBar, HasRow
  <2> QED
    BY <2>1 DEF lifeBar
<1>3. askerBar' = askerBar
  BY SameAsker
<1>4. PL!Vanish
  BY <1>2, <1>3 DEF PL!Vanish, askerBar, lifeBar
<1> QED
  BY <1>4 DEF PL!StrictNext

LEMMA NothingToSee ==
  ASSUME UNCHANGED <<asked, requests, offers, received>>
  PROVE  UNCHANGED PL!vars
BY SameAsker, SameLife, Stutters

\* nobody asked from outside this directory
HomelyRows == \A e \in Events : HasRow(e) => requests[e].source # "elsewhere"
Homely == \A h \in Slots : req[h].step \in Answering => req[h].row.source # "elsewhere"

\* But for an answer written to a row, and for footprints that go astray,
\* every step keeps to the strict form.
LEMMA StepKinds ==
  ASSUME Inv, [Next]_vars
  PROVE  \/ [PL!StrictNext]_PL!vars
         \/ PL!Misdeliver /\ ~Homely
         \/ \E h \in Slots : Update(h) \/ JobUpdate(h)
<1>1. ASSUME NEW h \in Slots, Begin(h) PROVE [PL!StrictNext]_PL!vars
  <2>1. ASSUME NEW id \in ConnIds, CreateBegin(h, id) PROVE [PL!StrictNext]_PL!vars
    BY <2>1, NothingToSee DEF CreateBegin, history
  <2>2. ASSUME NEW e \in Events, NEW F \in SUBSET Pfs, FulfillBegin(h, e, F)
        PROVE  [PL!StrictNext]_PL!vars
    BY <2>2, DecideRefines DEF FulfillBegin, Verdicts, Status
  <2>3. ASSUME NEW e \in Events, RejectBegin(h, e) PROVE [PL!StrictNext]_PL!vars
    BY <2>3, DecideRefines DEF RejectBegin, Verdicts, Status
  <2> QED
    BY <1>1, <2>1, <2>2, <2>3 DEF Begin
<1>2. ASSUME NEW h \in Slots, CreatePost(h) PROVE [PL!StrictNext]_PL!vars
  <2>1. UNCHANGED <<offers, received>>
    BY <1>2 DEF CreatePost
  <2> QED
    BY <1>2, <2>1, PostEffect, AskRefines
<1>3. ASSUME NEW h \in Slots, \/ CreateAuth(h) \/ CreatePostFails(h) \/ Callback(h)
                              \/ Await(h) \/ Check(h) \/ StoreFails(h) \/ JobFails(h)
                              \/ Abandon(h) \/ JobDies(h)
      PROVE  [PL!StrictNext]_PL!vars
  BY <1>3, NothingToSee DEF CreateAuth, CreatePostFails, Callback, Await, Check,
     StoreFails, JobFails, Abandon, JobDies, history
<1>4. ASSUME NEW h \in Slots, Store(h)
      PROVE  PL!StrictNext \/ (PL!Misdeliver /\ ~Homely)
  <2>1. req[h].row.source = "elsewhere" => ~Homely
    BY <1>4 DEF Store, At, Homely, Answering
  <2> QED
    BY <1>4, <2>1, StoreRefines
<1>5. ASSUME NEW h \in Slots, Proceed(h) \/ Serve(h)
      PROVE  \/ [PL!StrictNext]_PL!vars \/ (PL!Misdeliver /\ ~Homely)
             \/ Update(h) \/ JobUpdate(h)
  BY <1>2, <1>4, <1>3, <1>5, InsertRefines, JobStoreRefines DEF Proceed, Serve
<1>6. CASE Partner
  <2>1. ASSUME NEW x \in Nodes, NEW n \in Nodes, NEW e \in Events, ExternalAsk(x, n, e)
        PROVE  [PL!StrictNext]_PL!vars
    <3>1. UNCHANGED <<offers, received>>
      BY <2>1 DEF ExternalAsk
    <3> QED
      BY <2>1, <3>1, AskEffect, AskRefines
  <2> QED
    BY <1>6, <2>1, AnswerRefines DEF Partner, Verdicts, Status
<1>7. CASE Manage
  BY <1>7, CascadeRefines, NothingToSee
     DEF Manage, DeleteNode, Disconnect, Import, DeleteFootprint, Connect, history
<1>8. CASE UNCHANGED vars
  BY <1>8, NothingToSee DEF vars, history
<1> QED
  BY <1>1, <1>3, <1>5, <1>6, <1>7, <1>8 DEF Next

\* An answer written to a row settles the request.
LEMMA AnswerSettles ==
  ASSUME Inv, NEW h \in Slots, Update(h)
  PROVE  [PL!Next]_PL!vars
<1>1. UNCHANGED <<asked, offers, received>>
  BY DEF Update, history
<1> QED
  BY <1>1, AnswerEffect, SettledRefines, NothingToSee

LEMMA CallbackSettles ==
  ASSUME Inv, NEW h \in Slots, JobUpdate(h)
  PROVE  [PL!Next]_PL!vars
<1>1. UNCHANGED <<asked, offers, received>>
  BY DEF JobUpdate, history
<1> QED
  BY <1>1, JobEffect, SettledRefines, NothingToSee

LEMMA StepRefines ==
  ASSUME Inv, [Next]_vars
  PROVE  [PL!Next]_PL!vars
<1>1. PL!StrictNext => PL!Next
  BY DEF PL!StrictNext, PL!Next, PL!SettleStrict, PL!Settle, PL!Decide
<1>2. PL!Misdeliver => PL!Next
  BY DEF PL!Next
<1> QED
  BY <1>1, <1>2, StepKinds, AnswerSettles, CallbackSettles

\* Every request is asked, settled and delivered as PcfLifecycle says: never
\* reopened, never fulfilled without an offer, delivered to nobody but those
\* who asked or, in answer to a node elsewhere, one that bears its number,
\* whatever handlers, callbacks and partners do at the same time.
THEOREM LifeOfRequestsImplemented == Spec => ImplementsPcfLifecycle
<1>1. Inv /\ [Next]_vars => [PL!Next]_PL!vars
  BY StepRefines
<1> QED
  BY InitRefines, ExchangeInvariance, <1>1, PTL DEF Spec, ImplementsPcfLifecycle, PL!Spec

-----------------------------------------------------------------------------
(* Decisions that do not overlap, among the nodes of this directory.       *)

\* Next without a partner
Local == \/ \E h \in Slots : Begin(h) \/ Proceed(h) \/ Serve(h) \/ Abandon(h) \/ JobDies(h)
         \/ Manage

\* Watching changes nothing.
LEMMA WatchedStep ==
  ASSUME [SequenceNext]_<<vars, overlap>>
  PROVE  [Local]_vars /\ (Watch \/ UNCHANGED <<vars, overlap>>)
<1>1. CASE UNCHANGED <<vars, overlap>>
  BY <1>1
<1>2. CASE SequenceNext
  BY <1>2 DEF SequenceNext, Local, Begin, Proceed
<1> QED
  BY <1>1, <1>2

LEMMA LocalStep ==
  ASSUME [Local]_vars
  PROVE  [Next]_vars
BY DEF Local, Next

\* Decisions that have not met after a step had not met before it.
LEMMA NotYet ==
  ASSUME [SequenceNext]_<<vars, overlap>>, ~overlap'
  PROVE  ~overlap
<1>1. CASE Watch
  BY <1>1, Zenon DEF Watch
<1>2. CASE UNCHANGED <<vars, overlap>>
  <2>1. overlap' = overlap
    BY <1>2
  <2> QED
    BY <2>1, Zenon
<1> QED
  BY <1>1, <1>2, WatchedStep

\* A step is of one handler, or of the callback beside it, or of neither.
LEMMA OneAtWork ==
  ASSUME Inv, [Local]_vars
  PROVE  \/ UNCHANGED <<req, job>>
         \/ \E k \in Slots :
              /\ Begin(k) \/ Proceed(k) \/ Serve(k) \/ Abandon(k) \/ JobDies(k)
              /\ \A h \in Slots \ {k} : req'[h] = req[h] /\ job'[h] = job[h]
<1>1. CASE Manage \/ UNCHANGED vars
  BY <1>1 DEF Manage, DeleteNode, Import, DeleteFootprint, Connect, Disconnect, vars
<1>2. ASSUME NEW k \in Slots, Begin(k) \/ Abandon(k)
      PROVE  \A h \in Slots \ {k} : req'[h] = req[h] /\ job'[h] = job[h]
  BY <1>2 DEF Begin, CreateBegin, FulfillBegin, RejectBegin, DecideBegin, Abandon, End,
     Inv, TypeOK
<1>3. ASSUME NEW k \in Slots, Serve(k) \/ JobDies(k)
      PROVE  \A h \in Slots \ {k} : req'[h] = req[h] /\ job'[h] = job[h]
  BY <1>3 DEF Serve, JobUpdate, JobStore, JobFails, JobDies, Inv, TypeOK
<1>4. ASSUME NEW k \in Slots, Proceed(k)
      PROVE  \A h \in Slots \ {k} : req'[h] = req[h] /\ job'[h] = job[h]
  BY <1>4 DEF Proceed, CreateAuth, CreatePost, CreatePostFails, CreateInsert, Callback,
     Await, Update, Check, Store, StoreFails, Goto, End, Inv, TypeOK
<1> QED
  BY <1>1, <1>2, <1>3, <1>4 DEF Local

\* the steps at which a decision has its answer still to write
Open == {"callback", "await", "update"}

\* A decision under way was so before, with its answer to write if that is
\* still to be done; or it finds a pending row.
LEMMA HandlersMove ==
  ASSUME Inv, [Local]_vars, NEW h \in Slots, req'[h].step \in Answering
  PROVE  /\ req'[h].step \in Open => ~Update(h)
         /\ \/ /\ req[h].step \in Answering
               /\ req'[h].step \in Open => req[h].step \in Open
               /\ req'[h].event = req[h].event /\ req'[h].answer = req[h].answer
               /\ req'[h].row = req[h].row
            \/ \E e \in Events : /\ Pending(e) /\ UNCHANGED requests
                                 /\ req'[h].event = e /\ req'[h].row = requests[e]
<1>1. req[h] \in Handler /\ req \in [Slots -> Handler] /\ Idle.step = "idle"
  BY IdleFits DEF Inv, TypeOK
<1>2. ASSUME End(h) PROVE FALSE
  BY <1>1, <1>2 DEF End, Answering
<1>3. ASSUME NEW s, Goto(h, s)
      PROVE  /\ req'[h].step = s /\ req'[h].event = req[h].event
             /\ req'[h].answer = req[h].answer /\ req'[h].row = req[h].row
  <2>1. req'[h] = [req[h] EXCEPT !.step = s]
    BY <1>1, <1>3 DEF Goto
  <2> QED
    BY <1>1, <2>1 DEF Handler
<1>4. req'[h].step \in Open => ~Update(h)
  BY <1>2, <1>3 DEF Update, Open
<1>5. CASE req'[h] = req[h]
  BY <1>4, <1>5
<1>6. CASE Begin(h)
  <2>1. ASSUME NEW id \in ConnIds, CreateBegin(h, id) PROVE FALSE
    <3>1. req'[h] = [Idle EXCEPT !.step = "create.auth", !.conn = id]
      BY <1>1, <2>1 DEF CreateBegin
    <3> QED
      BY <3>1 DEF Idle, Answering
  <2>2. ASSUME NEW e \in Events, NEW s, NEW F, NEW found, DecideBegin(h, e, s, F, found)
        PROVE  /\ Pending(e) /\ UNCHANGED requests
               /\ req'[h].event = e /\ req'[h].row = requests[e]
    BY <1>1, <2>2 DEF DecideBegin
  <2> QED
    BY <1>4, <1>6, <2>1, <2>2 DEF Begin, FulfillBegin, RejectBegin
<1>7. CASE Proceed(h)
  <2>1. CASE Callback(h) \/ Await(h)
    <3>1. req[h].step \in Open /\ req[h].step \in Answering /\ \E s : Goto(h, s)
      BY <2>1 DEF Callback, Await, At, Open, Answering
    <3> QED
      BY <1>3, <1>4, <3>1
  <2>2. CASE CreateAuth(h) \/ CreatePostFails(h) \/ CreateInsert(h) \/ StoreFails(h)
    BY <1>2, <1>3, <2>2 DEF CreateAuth, CreatePostFails, CreateInsert, StoreFails, Answering
  <2>5. CASE Update(h) \/ Check(h)
    <3>1. /\ req[h].step \in Answering
          /\ Goto(h, "check") \/ Goto(h, "store")
      BY <1>2, <2>5 DEF Update, Check, At, Answering
    <3> QED
      BY <1>3, <1>4, <3>1 DEF Open
  <2>3. ASSUME CreatePost(h) PROVE FALSE
    <3>1. PICK e \in Events :
            req' = [req EXCEPT ![h].step = "create.insert", ![h].event = e]
      BY <2>3 DEF CreatePost
    <3>2. req'[h].step = "create.insert"
      BY <1>1, <3>1 DEF Handler
    <3> QED
      BY <3>2 DEF Answering
  <2>4. CASE Store(h)
    <3>1. PICK P : End(h) \/ req' = [req EXCEPT ![h] = [req[h] EXCEPT !.pfs = P]]
      BY <1>1, <2>4 DEF Store
    <3>2. /\ req'[h].step = "store" /\ req[h].step = "store"
          /\ req'[h].event = req[h].event /\ req'[h].answer = req[h].answer
          /\ req'[h].row = req[h].row
      BY <1>1, <1>2, <2>4, <3>1 DEF Store, At, Handler
    <3> QED
      BY <1>4, <3>2 DEF Open, Answering
  <2> QED
    BY <1>4, <1>7, <2>1, <2>2, <2>3, <2>4, <2>5 DEF Proceed
<1>8. CASE Serve(h) \/ JobDies(h)
  <2>1. req'[h] = req[h]
    BY <1>8 DEF Serve, JobUpdate, JobStore, JobFails, JobDies
  <2> QED
    BY <1>5, <2>1
<1>9. CASE Abandon(h)
  BY <1>2, <1>9 DEF Abandon
<1>10. CASE UNCHANGED <<req, job>>
  BY <1>5, <1>10
<1>11. ASSUME NEW k \in Slots, k # h,
              \A g \in Slots \ {k} : req'[g] = req[g] /\ job'[g] = job[g]
       PROVE  req'[h] = req[h]
  BY <1>11
<1> QED
  BY <1>5, <1>6, <1>7, <1>8, <1>9, <1>10, <1>11, OneAtWork

\* A callback with its answer to write had it before, or is posted just now.
LEMMA CallbacksMove ==
  ASSUME Inv, [Local]_vars, NEW h \in Slots, job'[h] # None, job'[h].step = "update"
  PROVE  /\ ~JobUpdate(h)
         /\ \/ job'[h] = job[h]
            \/ /\ req[h].step = "callback" /\ UNCHANGED requests
               /\ job'[h].event = req[h].event /\ job'[h].answer = req[h].answer
<1>1. job \in [Slots -> Job \cup {None}]
  BY DEF Inv, TypeOK
<1>2. ASSUME JobUpdate(h) PROVE FALSE
  <2>1. job[h] \in Job /\ job'[h] = [job[h] EXCEPT !.step = "store"]
    BY <1>1, <1>2 DEF JobUpdate
  <2> QED
    BY <2>1 DEF Job
<1>3. ASSUME JobStore(h) \/ JobFails(h) \/ JobDies(h) PROVE FALSE
  <2>1. CASE JobFails(h) \/ JobDies(h)
    BY <1>1, <2>1 DEF JobFails, JobDies
  <2>2. CASE JobStore(h)
    <3>1. PICK P : job'[h] = [job[h] EXCEPT !.pfs = P]
      BY <1>1, <2>2 DEF JobStore
    <3>2. job[h] \in Job /\ job[h].step = "store"
      BY <1>1, <2>2 DEF JobStore
    <3> QED
      BY <3>1, <3>2 DEF Job
  <2> QED
    BY <1>3, <2>1, <2>2
<1>4. CASE job'[h] = job[h]
  BY <1>2, <1>4
<1>5. CASE Callback(h) /\ job' # job
  <2>1. job' = [job EXCEPT ![h] = [step |-> "update", event |-> req[h].event,
                                   to |-> req[h].row.from, answer |-> req[h].answer,
                                   pfs |-> req[h].pfs]]
    BY <1>5 DEF Callback
  <2>2. job'[h].event = req[h].event /\ job'[h].answer = req[h].answer
    BY <1>1, <2>1
  <2>3. req[h].step = "callback" /\ UNCHANGED requests
    BY <1>5 DEF Callback, At
  <2> QED
    BY <1>2, <2>2, <2>3
<1>6. CASE Begin(h) \/ (Proceed(h) /\ ~(Callback(h) /\ job' # job)) \/ Abandon(h)
  <2>1. job' = job
    BY <1>6 DEF Begin, CreateBegin, FulfillBegin, RejectBegin, DecideBegin, Proceed,
       CreateAuth, CreatePost, CreatePostFails, CreateInsert, Await, Update, Check, Store,
       StoreFails, Abandon
  <2> QED
    BY <1>4, <2>1
<1>7. CASE UNCHANGED <<req, job>>
  BY <1>4, <1>7
<1>8. ASSUME NEW k \in Slots, k # h,
             \A g \in Slots \ {k} : req'[g] = req[g] /\ job'[g] = job[g]
      PROVE  job'[h] = job[h]
  BY <1>8
<1> QED
  BY <1>2, <1>3, <1>4, <1>5, <1>6, <1>7, <1>8, OneAtWork DEF Serve

\* Nobody asks from outside, so no handler answers there.
LEMMA HomelyStep ==
  ASSUME Inv, [Local]_vars, HomelyRows, Homely
  PROVE  HomelyRows' /\ Homely'
<1>1. Homely'
  <2> SUFFICES ASSUME NEW h \in Slots, req'[h].step \in Answering
               PROVE  req'[h].row.source # "elsewhere"
    BY DEF Homely
  <2> QED
    BY HandlersMove DEF Homely, HomelyRows, Pending
<1>2. ASSUME UNCHANGED requests PROVE HomelyRows'
  BY <1>2 DEF HomelyRows, HasRow
<1>3. ASSUME NEW e \in Events, Written(e), requests'[e].source # "elsewhere"
      PROVE  HomelyRows'
  <2>1. \A d \in Events \ {e} : requests'[d] = requests[d]
    BY <1>3 DEF Written, Inv, TypeOK
  <2> QED
    BY <1>3, <2>1 DEF HomelyRows, HasRow
<1>4. ASSUME NEW h \in Slots, CreatePost(h) PROVE HomelyRows'
  <2>1. PICK e \in Events :
          requests' \in {requests, Inbox(e, InboxRow(LinkOf[req[h].conn].from,
                                                     LinkOf[req[h].conn].target, "node"))}
    BY <1>4 DEF CreatePost
  <2>2. UNCHANGED requests \/ (Written(e) /\ requests'[e].source = "node")
    BY <2>1 DEF Inbox, InboxRow, Written, Inv, TypeOK
  <2> QED
    BY <1>2, <1>3, <2>2
<1>5. ASSUME NEW h \in Slots, CreateInsert(h) PROVE HomelyRows'
  <2> DEFINE e == req[h].event
             p == LinkOf[req[h].conn]
  <2>1. e \in Events
    BY <1>5 DEF CreateInsert, At, Inv, InFlight, OfHandler
  <2>2. CASE HasRow(e)
    <3>1. UNCHANGED requests
          \/ requests' = [requests EXCEPT ![e] = [requests[e] EXCEPT !.conn = req[h].conn]]
      BY <1>5, <2>2 DEF CreateInsert, Outbox
    <3>2. requests[e] \in PcfRow
      BY <2>1, <2>2 DEF HasRow, Inv, TypeOK
    <3>3. UNCHANGED requests \/ (Written(e) /\ requests'[e].source = requests[e].source)
      BY <2>1, <3>1, <3>2 DEF Written, Inv, TypeOK, PcfRow
    <3> QED
      BY <1>2, <1>3, <2>1, <2>2, <3>3 DEF HomelyRows
  <2>3. CASE ~HasRow(e)
    <3> DEFINE row == [InboxRow(p.from, p.target, None) EXCEPT !.conn = req[h].conn]
    <3>1. UNCHANGED requests \/ requests' = [requests EXCEPT ![e] = row]
      BY <1>5, <2>3 DEF CreateInsert, Outbox
    <3>2. row.source = None
      BY DEF InboxRow
    <3> HIDE DEF row
    <3>3. UNCHANGED requests \/ (Written(e) /\ requests'[e].source = None)
      BY <2>1, <3>1, <3>2 DEF Written, Inv, TypeOK
    <3> QED
      BY <1>2, <1>3, <2>1, <3>3, RowsAssumption
  <2> QED
    BY <2>2, <2>3
<1>6. ASSUME NEW e \in Events, Written(e), SettledRow(e) PROVE HomelyRows'
  BY <1>3, <1>6 DEF HomelyRows, SettledRow, SameParties
<1>7. ASSUME NEW h \in Slots, Begin(h) \/ Proceed(h) \/ Serve(h) \/ Abandon(h) \/ JobDies(h)
      PROVE  HomelyRows'
  <2>1. CASE Update(h) \/ JobUpdate(h)
    BY <1>2, <1>6, <2>1, AnswerEffect, JobEffect
  <2>2. CASE Begin(h) \/ CreateAuth(h) \/ CreatePostFails(h) \/ Callback(h) \/ Await(h)
             \/ Check(h) \/ Store(h) \/ StoreFails(h) \/ JobStore(h) \/ JobFails(h)
             \/ Abandon(h) \/ JobDies(h)
    <3>1. UNCHANGED requests
      BY <2>2 DEF Begin, CreateBegin, FulfillBegin, RejectBegin, DecideBegin, CreateAuth,
         CreatePostFails, Callback, Await, Check, Store, StoreFails, JobStore, JobFails,
         Abandon, JobDies
    <3> QED
      BY <1>2, <3>1
  <2> QED
    BY <1>4, <1>5, <1>7, <2>1, <2>2 DEF Proceed, Serve
<1>8. CASE Manage
  <2> SUFFICES ASSUME NEW e \in Events, requests'[e] # None
               PROVE  requests'[e].source # "elsewhere"
    BY <1>1 DEF HomelyRows, HasRow
  <2>1. requests'[e] \in {None, requests[e]}
    BY <1>8 DEF Manage, DeleteNode, Import, DeleteFootprint, Connect, Disconnect, CascadeAll
  <2> QED
    BY <2>1 DEF HomelyRows, HasRow
<1>9. CASE UNCHANGED vars
  BY <1>1, <1>2, <1>9 DEF vars
<1> QED
  BY <1>1, <1>7, <1>8, <1>9 DEF Local

-----------------------------------------------------------------------------
(* Who writes an answer.                                                   *)

Settles(k, e) ==
  \/ Update(k) /\ req[k].event = e /\ requests'[e].status = req[k].answer
  \/ JobUpdate(k) /\ job[k].event = e /\ requests'[e].status = job[k].answer

\* nothing is answered to e: its row goes, comes or keeps its status
Calm(e) == requests'[e] # None =>
             \/ requests'[e].status = "pending"
             \/ HasRow(e) /\ requests'[e].status = requests[e].status

LEMMA Settlers ==
  ASSUME Inv, [Next]_vars, NEW e \in Events
  PROVE  Calm(e) \/ \E k \in Slots : Settles(k, e)
<1>1. ASSUME UNCHANGED requests PROVE Calm(e)
  BY <1>1 DEF Calm, HasRow
<1>2. ASSUME NEW d \in Events, Written(d), NewRow(d) \/ LinkedRow(d) PROVE Calm(e)
  <2>1. CASE d = e
    BY <1>2, <2>1 DEF Calm, NewRow, LinkedRow, SameParties
  <2>2. CASE d # e
    <3>1. requests'[e] = requests[e]
      BY <1>2, <2>2 DEF Written, Inv, TypeOK
    <3> QED
      BY <3>1 DEF Calm, HasRow
  <2> QED
    BY <2>1, <2>2
<1>3. ASSUME NEW d \in Events, Written(d), d # e PROVE Calm(e)
  <2>1. requests'[e] = requests[e]
    BY <1>3 DEF Written, Inv, TypeOK
  <2> QED
    BY <2>1 DEF Calm, HasRow
<1>4. ASSUME NEW k \in Slots, Update(k) PROVE Calm(e) \/ Settles(k, e)
  BY <1>1, <1>3, <1>4, AnswerEffect DEF Settles
<1>5. ASSUME NEW k \in Slots, JobUpdate(k) PROVE Calm(e) \/ Settles(k, e)
  BY <1>1, <1>3, <1>5, JobEffect DEF Settles
<1>6. ASSUME NEW k \in Slots, CreatePost(k) \/ CreateInsert(k) PROVE Calm(e)
  BY <1>1, <1>2, <1>6, PostEffect, InsertEffect
<1>7. ASSUME NEW k \in Slots, Begin(k) \/ Proceed(k) \/ Serve(k) \/ Abandon(k) \/ JobDies(k)
      PROVE  Calm(e) \/ Settles(k, e)
  <2>1. CASE Begin(k) \/ CreateAuth(k) \/ CreatePostFails(k) \/ Callback(k) \/ Await(k)
             \/ Check(k) \/ Store(k) \/ StoreFails(k) \/ JobStore(k) \/ JobFails(k)
             \/ Abandon(k) \/ JobDies(k)
    <3>1. UNCHANGED requests
      BY <2>1 DEF Begin, CreateBegin, FulfillBegin, RejectBegin, DecideBegin, CreateAuth,
         CreatePostFails, Callback, Await, Check, Store, StoreFails, JobStore, JobFails,
         Abandon, JobDies
    <3> QED
      BY <1>1, <3>1
  <2> QED
    BY <1>4, <1>5, <1>6, <1>7, <2>1 DEF Proceed, Serve
<1>8. CASE Partner
  <2>1. ASSUME NEW x \in Nodes, NEW n \in Nodes, NEW d \in Events, ExternalAsk(x, n, d)
        PROVE  Calm(e)
    BY <1>1, <1>2, <2>1, AskEffect
  <2>2. ASSUME NEW h \in Slots, NEW d \in Events, NEW s, NEW P, ExternalAnswer(h, d, s, P)
        PROVE  Calm(e)
    BY <1>1, <2>2 DEF ExternalAnswer
  <2> QED
    BY <1>8, <2>1, <2>2 DEF Partner
<1>9. CASE Manage
  <2>1. requests'[e] \in {None, requests[e]}
    BY <1>9 DEF Manage, DeleteNode, Import, DeleteFootprint, Connect, Disconnect, CascadeAll
  <2> QED
    BY <2>1 DEF Calm, HasRow
<1>10. CASE UNCHANGED vars
  BY <1>1, <1>10 DEF vars
<1> QED
  BY <1>7, <1>8, <1>9, <1>10 DEF Next

-----------------------------------------------------------------------------
(* A decision that is alone.                                               *)

LEMMA OneDecides ==
  ASSUME ~Together, NEW e \in Events, NEW c \in Deciding(e), NEW d \in Deciding(e)
  PROVE  c = d
<1>1. Deciding(e) = {d}
  BY DEF Together
<1> QED
  BY <1>1

\* who decides when the callback beside h writes its answer
Decider(h) == IF At(h, "await") THEN <<"handler", h>> ELSE <<"callback", h>>

LEMMA Deciders ==
  ASSUME Inv, NEW h \in Slots, Own(h)
  PROVE  /\ req[h].step \in Open
              => req[h].event \in Events /\ <<"handler", h>> \in Deciding(req[h].event)
         /\ job[h] # None
              => job[h].event \in Events /\ Decider(h) \in Deciding(job[h].event)
<1>1. req[h].step \in Open => req[h].event \in Events /\ req[h].answer # None
  BY RowsAssumption DEF Open, Inv, InFlight, OfHandler, Answering, Verdicts
<1>2. job[h] # None => job[h].event \in Events
  BY DEF Inv, TypeOK, Job
<1>3. req[h].step \in Open => <<"handler", h>> \in Deciding(req[h].event)
  BY <1>1 DEF Deciding
<1>4. CASE At(h, "await")
  <2>1. job[h] # None => req[h].event = job[h].event
    BY <1>4 DEF Own
  <2> QED
    BY <1>1, <1>2, <1>3, <1>4, <2>1 DEF Decider, At, Open
<1>5. CASE ~At(h, "await")
  <2>1. job[h] # None => <<"callback", h>> \in Deciding(job[h].event)
    BY <1>5 DEF Deciding
  <2> QED
    BY <1>1, <1>2, <1>3, <1>5, <2>1 DEF Decider
<1> QED
  BY <1>4, <1>5

\* A callback keeps its event and its answer.
LEMMA OwnStep ==
  ASSUME Inv, [Local]_vars, NEW h \in Slots, Own(h)
  PROVE  Own(h)'
<1> SUFFICES ASSUME req'[h].step = "await", job'[h] # None
             PROVE  job'[h].event = req'[h].event /\ job'[h].answer = req'[h].answer
  BY DEF Own, At
<1>1. req \in [Slots -> Handler] /\ job \in [Slots -> Job \cup {None}] /\ req[h] \in Handler
  BY DEF Inv, TypeOK
<1>2. CASE req'[h] = req[h] /\ job'[h] = job[h]
  BY <1>2 DEF Own, At
<1>3. ASSUME Begin(h) \/ Abandon(h) PROVE FALSE
  <2>1. CASE \E id \in ConnIds : CreateBegin(h, id)
    <3>1. PICK id \in ConnIds : req'[h] = [Idle EXCEPT !.step = "create.auth", !.conn = id]
      BY <1>1, <2>1 DEF CreateBegin
    <3> QED
      BY <3>1 DEF Idle
  <2>2. ASSUME NEW e \in Events, NEW s, NEW F, NEW found, DecideBegin(h, e, s, F, found)
        PROVE  FALSE
    BY <1>1, <2>2 DEF DecideBegin
  <2>3. CASE Abandon(h)
    BY <1>1, <2>3, IdleFits DEF Abandon, End
  <2> QED
    BY <1>3, <2>1, <2>2, <2>3 DEF Begin, FulfillBegin, RejectBegin
<1>4. CASE Callback(h)
  <2> DEFINE r == req[h]
  <2>1. \/ Goto(h, "update")
        \/ /\ Goto(h, "await")
           /\ job' = [job EXCEPT ![h] = [step |-> "update", event |-> r.event,
                                         to |-> r.row.from, answer |-> r.answer,
                                         pfs |-> r.pfs]]
    BY <1>4 DEF Callback
  <2>2. ASSUME NEW s, Goto(h, s)
        PROVE  req'[h].step = s /\ req'[h].event = r.event /\ req'[h].answer = r.answer
    BY <1>1, <2>2 DEF Goto, Handler
  <2>3. job' = [job EXCEPT ![h] = [step |-> "update", event |-> r.event,
                                   to |-> r.row.from, answer |-> r.answer, pfs |-> r.pfs]]
        => job'[h].event = r.event /\ job'[h].answer = r.answer
    BY <1>1
  <2> QED
    BY <2>1, <2>2, <2>3
<1>5. ASSUME Proceed(h), ~Callback(h) PROVE FALSE
  <2>1. ~End(h)
    BY <1>1, IdleFits DEF End
  <2>2. ASSUME NEW s, Goto(h, s) PROVE s = "await"
    BY <1>1, <2>2 DEF Goto, Handler
  <2>3. CASE CreateAuth(h) \/ CreatePostFails(h) \/ CreateInsert(h) \/ Await(h) \/ Update(h)
             \/ Check(h) \/ StoreFails(h)
    BY <2>1, <2>2, <2>3 DEF CreateAuth, CreatePostFails, CreateInsert, Await, Update, Check,
       StoreFails
  <2>4. ASSUME CreatePost(h) PROVE FALSE
    <3>1. PICK e \in Events :
            req' = [req EXCEPT ![h].step = "create.insert", ![h].event = e]
      BY <2>4 DEF CreatePost
    <3>2. req'[h].step = "create.insert"
      BY <1>1, <3>1 DEF Handler
    <3> QED
      BY <3>2
  <2>5. ASSUME Store(h) PROVE FALSE
    <3>1. PICK P : req' = [req EXCEPT ![h] = [req[h] EXCEPT !.pfs = P]]
      BY <1>1, <2>1, <2>5 DEF Store
    <3>2. req'[h].step = "store"
      BY <1>1, <2>5, <3>1 DEF Store, At, Handler
    <3> QED
      BY <3>2
  <2> QED
    BY <1>5, <2>3, <2>4, <2>5 DEF Proceed
<1>6. CASE Serve(h) \/ JobDies(h)
  <2>1. req'[h] = req[h] /\ job[h] \in Job /\ job[h] # None
    BY <1>1, <1>6 DEF Serve, JobUpdate, JobStore, JobFails, JobDies
  <2>2. PICK t, P : job'[h] \in {[job[h] EXCEPT !.step = t], [job[h] EXCEPT !.pfs = P]}
    <3>1. CASE JobUpdate(h)
      BY <1>1, <3>1 DEF JobUpdate
    <3>2. CASE JobStore(h)
      BY <1>1, <3>2 DEF JobStore
    <3>3. CASE JobFails(h) \/ JobDies(h)
      BY <1>1, <3>3 DEF JobFails, JobDies
    <3> QED
      BY <1>6, <3>1, <3>2, <3>3 DEF Serve
  <2>3. job'[h].event = job[h].event /\ job'[h].answer = job[h].answer
    BY <2>1, <2>2 DEF Job
  <2> QED
    BY <2>1, <2>3 DEF Own, At
<1>7. CASE UNCHANGED <<req, job>>
  BY <1>2, <1>7
<1>8. ASSUME NEW k \in Slots, k # h,
             \A g \in Slots \ {k} : req'[g] = req[g] /\ job'[g] = job[g]
      PROVE  req'[h] = req[h] /\ job'[h] = job[h]
  BY <1>8
<1> QED
  BY <1>2, <1>3, <1>4, <1>5, <1>6, <1>7, <1>8, OneAtWork

\* What nobody has answered stays so, but for the answer itself.
LEMMA UndecidedStays ==
  ASSUME Inv, [Next]_vars, NEW e \in Events, NEW s, Undecided(e, s),
         \A k \in Slots : Settles(k, e) => requests'[e].status = s
  PROVE  Undecided(e, s)'
BY Settlers DEF Undecided, Calm, HasRow

\* For a decision that is alone, the row is pending until it writes.
LEMMA UndecidedStep ==
  ASSUME Inv, [Local]_vars, ~Together, \A h \in Slots : Own(h),
         \A h \in Slots :
            /\ req[h].step \in Open => Undecided(req[h].event, req[h].answer)
            /\ job[h] # None /\ job[h].step = "update"
                 => Undecided(job[h].event, job[h].answer),
         NEW h \in Slots
  PROVE  /\ req'[h].step \in Open => Undecided(req[h].event, req[h].answer)'
         /\ job'[h] # None /\ job'[h].step = "update"
              => Undecided(job[h].event, job[h].answer)'
<1>0. [Next]_vars
  BY LocalStep
<1>1. ASSUME NEW e \in Events, NEW k \in Slots, Settles(k, e)
      PROVE  \/ Update(k) /\ At(k, "update") /\ <<"handler", k>> \in Deciding(e)
             \/ JobUpdate(k) /\ requests'[e].status = job[k].answer /\ job[k] # None
                /\ job[k].event = e /\ Decider(k) \in Deciding(e)
  BY <1>1, Deciders DEF Settles, Update, JobUpdate, At, Open
<1>2. ASSUME req'[h].step \in Open, UNCHANGED requests,
             NEW e \in Events, Pending(e), req'[h].event = e
      PROVE  Undecided(req[h].event, req[h].answer)'
  BY <1>2 DEF Undecided, Pending, HasRow
<1>3. ASSUME req'[h].step \in Open, ~Update(h), req[h].step \in Open,
             req'[h].event = req[h].event, req'[h].answer = req[h].answer
      PROVE  Undecided(req[h].event, req[h].answer)'
  <2>1. PICK s : s = req[h].answer
    OBVIOUS
  <2>2. PICK e \in Events : /\ e = req[h].event
                            /\ <<"handler", h>> \in Deciding(e) /\ Undecided(e, s)
    BY <1>3, <2>1, Deciders
  <2>3. ASSUME NEW k \in Slots, Settles(k, e) PROVE requests'[e].status = s
    <3>1. CASE Update(k) /\ <<"handler", k>> \in Deciding(e)
      <4>1. <<"handler", k>> = <<"handler", h>>
        BY <2>2, <3>1, OneDecides
      <4> QED
        BY <1>3, <3>1, <4>1
    <3>2. CASE JobUpdate(k) /\ requests'[e].status = job[k].answer /\ job[k] # None
               /\ Decider(k) \in Deciding(e)
      <4>1. Decider(k) = <<"handler", h>>
        BY <2>2, <3>2, OneDecides
      <4>2. At(k, "await") /\ k = h
        BY <4>1 DEF Decider
      <4> QED
        BY <2>1, <2>2, <3>2, <4>2 DEF Own
    <3> QED
      BY <1>1, <2>2, <2>3, <3>1, <3>2
  <2>4. Undecided(e, s)'
    BY <1>0, <2>2, <2>3, UndecidedStays
  <2> QED
    BY <1>3, <2>1, <2>2, <2>4 DEF Undecided, HasRow
<1>4. ASSUME req[h].step = "callback", UNCHANGED requests,
             job'[h].event = req[h].event, job'[h].answer = req[h].answer
      PROVE  Undecided(job[h].event, job[h].answer)'
  BY <1>4 DEF Undecided, HasRow, Open
<1>5. ASSUME job'[h] # None, job'[h].step = "update", ~JobUpdate(h), job'[h] = job[h]
      PROVE  Undecided(job[h].event, job[h].answer)'
  <2>1. PICK s : s = job[h].answer
    OBVIOUS
  <2>2. PICK e \in Events : /\ e = job[h].event
                            /\ Decider(h) \in Deciding(e) /\ Undecided(e, s)
    BY <1>5, <2>1, Deciders
  <2>3. ASSUME NEW k \in Slots, Settles(k, e) PROVE FALSE
    <3>1. CASE Update(k) /\ At(k, "update") /\ <<"handler", k>> \in Deciding(e)
      <4>1. <<"handler", k>> = Decider(h)
        BY <2>2, <3>1, OneDecides
      <4>2. At(h, "await") /\ k = h
        BY <4>1 DEF Decider
      <4> QED
        BY <3>1, <4>2 DEF At
    <3>2. CASE JobUpdate(k) /\ Decider(k) \in Deciding(e)
      <4>1. Decider(k) = Decider(h)
        BY <2>2, <3>2, OneDecides
      <4>2. k = h
        BY <4>1 DEF Decider
      <4> QED
        BY <1>5, <3>2, <4>2
    <3> QED
      BY <1>1, <2>2, <2>3, <3>1, <3>2
  <2>4. Undecided(e, s)'
    BY <1>0, <2>2, <2>3, UndecidedStays
  <2> QED
    BY <1>5, <2>1, <2>2, <2>4 DEF Undecided, HasRow
<1>6. req'[h].step \in Open => Undecided(req[h].event, req[h].answer)'
  <2>1. req'[h].step \in Open => req'[h].step \in Answering
    BY DEF Open, Answering
  <2> QED
    BY <1>2, <1>3, <2>1, HandlersMove
<1>7. job'[h] # None /\ job'[h].step = "update" => Undecided(job[h].event, job[h].answer)'
  BY <1>4, <1>5, CallbacksMove
<1> QED
  BY <1>6, <1>7

LEMMA AloneStep ==
  ASSUME Inv, AloneAndUndecided, [SequenceNext]_<<vars, overlap>>
  PROVE  AloneAndUndecided'
<1>1. [Local]_vars /\ \A h \in Slots : Own(h)
  BY WatchedStep DEF AloneAndUndecided
<1>2. \A h \in Slots : Own(h)'
  BY <1>1, OwnStep
<1>3. ASSUME ~overlap'
      PROVE  /\ ~Together'
             /\ \A h \in Slots :
                  /\ req'[h].step \in {"callback", "await", "update"}
                       => Undecided(req[h].event, req[h].answer)'
                  /\ job'[h] # None /\ job'[h].step = "update"
                       => Undecided(job[h].event, job[h].answer)'
  <2>1. ~overlap
    BY <1>3, NotYet
  <2>2. /\ ~Together
        /\ \A h \in Slots : /\ req[h].step \in Open => Undecided(req[h].event, req[h].answer)
                            /\ job[h] # None /\ job[h].step = "update"
                                 => Undecided(job[h].event, job[h].answer)
    BY <2>1 DEF AloneAndUndecided, Open
  <2>3. ~Together'
    <3>1. CASE Watch
      BY <1>3, <3>1, Zenon DEF Watch
    <3>2. CASE UNCHANGED <<vars, overlap>>
      <4>1. UNCHANGED <<req, job>>
        BY <3>2 DEF vars
      <4> QED
        BY <2>2, <4>1 DEF Together, Deciding, At
    <3> QED
      BY <3>1, <3>2, WatchedStep
  <2>4. ASSUME NEW h \in Slots
        PROVE  /\ req'[h].step \in Open => Undecided(req[h].event, req[h].answer)'
               /\ job'[h] # None /\ job'[h].step = "update"
                    => Undecided(job[h].event, job[h].answer)'
    BY <1>1, <2>2, UndecidedStep
  <2> QED
    BY <2>3, <2>4 DEF Open
<1> QED
  BY <1>2, <1>3, Zenon DEF AloneAndUndecided

LEMMA AloneInit == SequenceInit => AloneAndUndecided
<1> SUFFICES ASSUME SequenceInit PROVE AloneAndUndecided
  OBVIOUS
<1>1. \A h \in Slots : req[h] = Idle /\ job[h] = None
  BY DEF SequenceInit, Init
<1>2. Idle.step \notin {"callback", "await", "update"} /\ Idle.answer = None
  BY DEF Idle
<1>3. \A e \in Events : Deciding(e) = {}
  BY <1>1, <1>2 DEF Deciding
<1>4. ~Together
  BY <1>3 DEF Together
<1> QED
  BY <1>1, <1>2, <1>4 DEF AloneAndUndecided, Own, At

\* The exchange among the nodes of this directory is the exchange: with the
\* history, or without it, the same steps.
THEOREM ExchangeSequenceIsSpec == SequenceSpec => Spec
<1>1. SequenceInit => Init
  BY DEF SequenceInit
<1>2. [SequenceNext]_<<vars, overlap>> => [Next]_vars
  BY WatchedStep, LocalStep
<1> QED
  BY <1>1, <1>2, PTL DEF SequenceSpec, Spec

\* As long as no two decisions on a request have been under way together, a
\* decision is alone, and the row is pending until its answer is written, by the
\* handler or by its callback, whichever comes first.
THEOREM AloneAndUndecidedHolds == SequenceSpec => []AloneAndUndecided
<1> QED
  BY AloneInit, AloneStep, ExchangeSequenceIsSpec, ExchangeInvariance, PTL DEF SequenceSpec

\* The two UPDATEs of one decision settle a request once.
LEMMA StrictStep ==
  ASSUME Inv, HomelyRows, Homely, AloneAndUndecided,
         [SequenceNext]_<<vars, overlap>>, ~overlap'
  PROVE  [PL!StrictNext]_PL!vars
<1>1. [Next]_vars
  BY WatchedStep, LocalStep
<1>2. ~overlap
  BY NotYet
<1>3. ASSUME NEW h \in Slots, Update(h) PROVE [PL!StrictNext]_PL!vars
  <2>1. UNCHANGED <<asked, offers, received>>
    BY <1>3 DEF Update, history
  <2>2. Undecided(req[h].event, req[h].answer)
    BY <1>2, <1>3 DEF AloneAndUndecided, Update, At
  <2>3. SettledRow(req[h].event) => HasRow(req[h].event)
    BY DEF SettledRow, SameParties
  <2> QED
    BY <1>3, <2>1, <2>2, <2>3, AnswerEffect, SettledRefines, NothingToSee DEF Undecided
<1>4. ASSUME NEW h \in Slots, JobUpdate(h) PROVE [PL!StrictNext]_PL!vars
  <2>1. UNCHANGED <<asked, offers, received>>
    BY <1>4 DEF JobUpdate, history
  <2>2. Undecided(job[h].event, job[h].answer)
    BY <1>2, <1>4 DEF AloneAndUndecided, JobUpdate
  <2>3. SettledRow(job[h].event) => HasRow(job[h].event)
    BY DEF SettledRow, SameParties
  <2> QED
    BY <1>4, <2>1, <2>2, <2>3, JobEffect, SettledRefines, NothingToSee DEF Undecided
<1> QED
  BY <1>1, <1>3, <1>4, StepKinds

\* A request is answered once as long as no two decisions on it overlap,
\* whatever dies or is lost on the way: the abstract lifecycle in its strict form.
THEOREM AnsweredOnce == SequenceSpec => OneAnswerInSequence
<1>1. SequenceInit => HomelyRows /\ Homely
  BY IdleFits DEF SequenceInit, Init, HomelyRows, Homely, HasRow, Answering
<1>2. Inv /\ HomelyRows /\ Homely /\ [SequenceNext]_<<vars, overlap>>
        => HomelyRows' /\ Homely'
  BY WatchedStep, HomelyStep
<1>3. SequenceSpec => [](HomelyRows /\ Homely)
  BY <1>1, <1>2, ExchangeSequenceIsSpec, ExchangeInvariance, PTL DEF SequenceSpec
<1>4. Inv /\ HomelyRows /\ Homely /\ AloneAndUndecided /\ [SequenceNext]_<<vars, overlap>>
        => [~overlap' => PL!StrictNext \/ UNCHANGED PL!vars]_<<vars, overlap>>
  BY StrictStep
<1> QED
  BY <1>3, <1>4, AloneAndUndecidedHolds, ExchangeSequenceIsSpec, ExchangeInvariance, PTL
     DEF SequenceSpec, OneAnswerInSequence
=============================================================================
