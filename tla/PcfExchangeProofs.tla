--------------------------- MODULE PcfExchangeProofs ---------------------------
(***************************************************************************)
(* The exchange of footprints keeps its rows to what was asked and what    *)
(* was offered, for any nodes, connections, requests and footprints and    *)
(* any number of handlers and callbacks in flight.                         *)
(*                                                                         *)
(* A handler writes a row it read some steps ago, or never read.  What it  *)
(* may still rely on is history: which nodes its event was asked between,  *)
(* and what was offered in answer (OfHandler, OfJob).  RowStep says what   *)
(* any step can do to one row; the properties follow from it.              *)
(***************************************************************************)
EXTENDS PcfExchange, FiniteSetTheorems, TLAPS

-----------------------------------------------------------------------------
(* The inductive invariant.                                                *)

Creating == {"create.auth", "create.post", "create.insert"}
Answering == {"callback", "await", "update", "check", "store"}

\* who a row may say has asked for e
Asker(e, source) == IF source = "elsewhere"
                    THEN {n \in {None} \cup Aliases : asked[e].from \in External}
                    ELSE {asked[e].from}

OfHandler(r) ==
  /\ r.step \in Creating => r.conn \in ConnIds
  /\ r.step = "create.insert" => r.event \in Events /\ asked[r.event] = LinkOf[r.conn]
  /\ r.step \in Answering => /\ r.event \in Events /\ asked[r.event] # None
                            /\ r.row \in PcfRow /\ r.answer \in Verdicts
                            /\ r.row.from \in Asker(r.event, r.row.source)
                            /\ r.pfs \subseteq UNION offers[r.event]
  /\ r.step \in {"callback", "await", "update"} /\ r.answer = "fulfilled"
       => r.pfs \in offers[r.event] /\ r.pfs # {} /\ r.pfs \subseteq r.ids

OfJob(j) ==
  j # None => /\ asked[j.event] # None
              /\ j.to = asked[j.event].from
              /\ j.pfs \subseteq UNION offers[j.event]
              /\ j.step = "update" /\ j.answer = "fulfilled" => j.pfs \in offers[j.event]

InFlight == \A h \in Slots : OfHandler(req[h]) /\ OfJob(job[h])

Matching(e) ==
  LET row == requests[e]
  IN /\ asked[e] # None
     /\ row.target = asked[e].target /\ row.target \in live
     /\ row.from \in Asker(e, row.source)
     /\ row.source = "elsewhere" => asked[e].from \in External
     /\ row.conn # None => Up(row.conn) /\ LinkOf[row.conn] = asked[e]

\* what a row lists as ids stays true while a later answer is given
Answered(e) ==
  /\ requests[e].status = "fulfilled" =>
       \E S \in offers[e] : requests[e].count = Cardinality(S)
  /\ requests[e].ids # None =>
       \E S \in offers[e] : S # {} /\ S \subseteq requests[e].ids

RowsTrue == \A e \in Events : HasRow(e) => Matching(e) /\ Answered(e)

Inv == TypeOK /\ InFlight /\ RowsTrue

-----------------------------------------------------------------------------
(* Types.                                                                  *)

LEMMA IdleFits == Idle \in Handler /\ OfHandler(Idle) /\ Idle.step = "idle"
BY DEF Idle, Handler, Steps, OfHandler, Creating, Answering

LEMMA FootprintsCounted ==
  ASSUME NEW P \in SUBSET Pfs
  PROVE  Cardinality(P) \in Nat
BY EventsAssumption, FS_Subset, FS_CardinalityType

LEMMA RowTypes ==
  ASSUME NEW n \in Nodes \cup {None}, NEW m \in Nodes,
         NEW s \in {"node", "elsewhere", None}, NEW id \in ConnIds \cup {None}
  PROVE  /\ InboxRow(n, m, s) \in PcfRow
         /\ [InboxRow(n, m, s) EXCEPT !.conn = id] \in PcfRow
<1>1. InboxRow(n, m, s) \in PcfRow
  BY DEF InboxRow, PcfRow, Status
<1>2. [InboxRow(n, m, s) EXCEPT !.conn = id] \in PcfRow
  BY <1>1 DEF PcfRow
<1> QED
  BY <1>1, <1>2

LEMMA EndType ==
  ASSUME TypeOK, NEW h \in Slots, End(h)
  PROVE  req' \in [Slots -> Handler]
BY IdleFits DEF TypeOK, End

LEMMA GotoType ==
  ASSUME TypeOK, NEW h \in Slots, NEW s \in Steps, Goto(h, s)
  PROVE  req' \in [Slots -> Handler]
<1>1. [req[h] EXCEPT !.step = s] \in Handler
  BY DEF TypeOK, Handler
<1>2. req' = [req EXCEPT ![h] = [req[h] EXCEPT !.step = s]]
  BY DEF Goto
<1> QED
  BY <1>1, <1>2 DEF TypeOK

LEMMA LinkIsPair ==
  ASSUME NEW id \in ConnIds
  PROVE  LinkOf[id] \in Pair /\ LinkOf[id].from \in Nodes /\ LinkOf[id].target \in Nodes
BY LinksAssumption DEF Pair

LEMMA CreateType ==
  ASSUME Inv, NEW h \in Slots,
         \/ \E id \in ConnIds : CreateBegin(h, id)
         \/ CreateAuth(h) \/ CreatePost(h) \/ CreatePostFails(h) \/ CreateInsert(h)
  PROVE  TypeOK'
<1> USE DEF Inv
<1>1. OfHandler(req[h]) /\ req[h] \in Handler
  BY DEF InFlight, TypeOK
<1>2. CASE \E id \in ConnIds : CreateBegin(h, id)
  <2>1. PICK id \in ConnIds : CreateBegin(h, id)
    BY <1>2
  <2>2. [Idle EXCEPT !.step = "create.auth", !.conn = id] \in Handler
    BY DEF Idle, Handler, Steps
  <2> QED
    BY <2>1, <2>2 DEF CreateBegin, TypeOK, world, history
<1>3. CASE CreateAuth(h)
  <2>1. req' \in [Slots -> Handler]
    BY <1>3, EndType, GotoType DEF CreateAuth, Steps
  <2> QED
    BY <1>3, <2>1 DEF CreateAuth, TypeOK, world, history
<1>4. CASE CreatePost(h)
  <2> DEFINE p == LinkOf[req[h].conn]
  <2>1. p \in Pair /\ p.from \in Nodes /\ p.target \in Nodes
    BY <1>1, <1>4, LinkIsPair DEF CreatePost, At, OfHandler, Creating
  <2>2. PICK e \in Events :
          /\ asked' = [asked EXCEPT ![e] = p]
          /\ requests' = IF p.target \in External THEN requests
                         ELSE Inbox(e, InboxRow(p.from, p.target, "node"))
          /\ req' = [req EXCEPT ![h].step = "create.insert", ![h].event = e]
    BY <1>4 DEF CreatePost
  <2>3. req' \in [Slots -> Handler]
    <3>1. req' = [req EXCEPT ![h] = [req[h] EXCEPT !.step = "create.insert", !.event = e]]
      BY <1>1, <2>2 DEF TypeOK, Handler
    <3>2. [req[h] EXCEPT !.step = "create.insert", !.event = e] \in Handler
      BY <1>1 DEF Handler, Steps
    <3> QED
      BY <3>1, <3>2 DEF TypeOK
  <2>4. InboxRow(p.from, p.target, "node") \in PcfRow
    BY <2>1, RowTypes
  <2>5. requests' \in [Events -> PcfRow \cup {None}]
    BY <2>2, <2>4 DEF Inbox, TypeOK
  <2>6. asked' \in [Events -> Pair \cup {None}]
    BY <2>1, <2>2 DEF TypeOK
  <2> QED
    BY <1>4, <2>3, <2>5, <2>6 DEF CreatePost, TypeOK, world
<1>5. CASE CreatePostFails(h)
  BY <1>5, EndType DEF CreatePostFails, TypeOK, world, history
<1>6. CASE CreateInsert(h)
  <2> DEFINE id == req[h].conn
             p  == LinkOf[id]
             e  == req[h].event
  <2>1. id \in ConnIds /\ e \in Events
    BY <1>1, <1>6 DEF CreateInsert, At, OfHandler, Creating
  <2>2. p.from \in Nodes /\ p.target \in Nodes
    BY <2>1, LinkIsPair
  <2>3. [InboxRow(p.from, p.target, None) EXCEPT !.conn = id] \in PcfRow
    BY <2>1, <2>2, RowTypes
  <2>4. HasRow(e) => [requests[e] EXCEPT !.conn = id] \in PcfRow
    BY <2>1 DEF HasRow, TypeOK, PcfRow
  <2>5. requests' \in [Events -> PcfRow \cup {None}]
    BY <1>6, <2>1, <2>3, <2>4 DEF CreateInsert, Outbox, TypeOK
  <2> QED
    BY <1>6, <2>5, EndType DEF CreateInsert, TypeOK, world, history
<1> QED
  BY <1>2, <1>3, <1>4, <1>5, <1>6

LEMMA DecideType ==
  ASSUME Inv, NEW h \in Slots, NEW e \in Events, NEW s \in Verdicts,
         NEW F \in SUBSET Pfs, NEW found \in SUBSET Pfs,
         DecideBegin(h, e, s, F, found)
  PROVE  TypeOK'
<1> USE DEF Inv
<1>1. requests[e] \in PcfRow
  BY DEF DecideBegin, Pending, HasRow, TypeOK
<1>2. [step |-> IF requests[e].source = None THEN "update" ELSE "callback",
       event |-> e, conn |-> None, row |-> requests[e], answer |-> s,
       ids |-> F, pfs |-> found] \in Handler
  BY <1>1 DEF Handler, Steps
<1>3. req' \in [Slots -> Handler]
  BY <1>2 DEF DecideBegin, TypeOK
<1>4. offers' \in [Events -> SUBSET SUBSET Pfs]
  BY DEF DecideBegin, TypeOK
<1> QED
  BY <1>3, <1>4 DEF DecideBegin, TypeOK, world

LEMMA WriteType ==
  ASSUME TypeOK, NEW n, NEW pf \in Pfs, Write(n, pf)
  PROVE  /\ n \in Nodes
         /\ records' \in [Nodes -> SUBSET Pfs] /\ received' \in [Nodes -> SUBSET Pfs]
<1>1. n \in Nodes
  BY DEF Write, TypeOK
<1>2. records' = [records EXCEPT ![n] = records[n] \cup {pf}]
      /\ received' = [received EXCEPT ![n] = received[n] \cup {pf}]
  BY DEF Write, Stored
<1> QED
  BY <1>1, <1>2 DEF TypeOK

LEMMA AnswerType ==
  ASSUME Inv, NEW h \in Slots,
         \/ Callback(h) \/ Await(h) \/ Update(h) \/ Check(h) \/ Store(h) \/ StoreFails(h)
  PROVE  TypeOK'
<1> USE DEF Inv
<1>1. OfHandler(req[h]) /\ req[h] \in Handler
  BY DEF InFlight, TypeOK
<1>2. /\ req[h].event \in Events /\ req[h].row \in PcfRow /\ req[h].answer \in Verdicts
      /\ req[h].ids \in SUBSET Pfs /\ req[h].pfs \in SUBSET Pfs
  BY <1>1 DEF Callback, Await, Update, Check, Store, StoreFails, At, OfHandler, Answering,
              Handler
<1>3. CASE Callback(h)
  <2>1. req' \in [Slots -> Handler]
    <3>1. CASE Admitted(req[h].row)
      BY <1>3, <3>1, GotoType DEF Callback, Steps
    <3>2. CASE ~Admitted(req[h].row)
      BY <1>3, <3>2, GotoType DEF Callback, Steps
    <3> QED
      BY <3>1, <3>2
  <2>2. job' \in [Slots -> Job \cup {None}]
    <3>1. CASE Admitted(req[h].row)
      <4>1. [step |-> "update", event |-> req[h].event, to |-> req[h].row.from,
             answer |-> req[h].answer, pfs |-> req[h].pfs] \in Job
        BY <1>2, <3>1 DEF Admitted, Internal, Job
      <4> QED
        BY <1>3, <3>1, <4>1 DEF Callback, TypeOK
    <3>2. CASE ~Admitted(req[h].row)
      BY <1>3, <3>2 DEF Callback, TypeOK
    <3> QED
      BY <3>1, <3>2
  <2> QED
    BY <1>3, <2>1, <2>2 DEF Callback, TypeOK, world, history
<1>4. CASE Await(h)
  BY <1>4, GotoType DEF Await, Steps, TypeOK, world, history
<1>5. CASE Update(h)
  <2>1. requests' \in [Events -> PcfRow \cup {None}]
    <3> DEFINE e == req[h].event
               row == requests[e]
    <3>1. CASE ~HasRow(e)
      BY <1>5, <3>1 DEF Update, AnswerRow, TypeOK
    <3>2. CASE HasRow(e) /\ req[h].answer = "rejected"
      <4>1. row \in PcfRow
        BY <1>2, <3>2 DEF HasRow, TypeOK
      <4>2. [row EXCEPT !.status = "rejected"] \in PcfRow
        BY <4>1 DEF PcfRow, Status
      <4>3. requests' = [requests EXCEPT ![e] = [row EXCEPT !.status = "rejected"]]
        BY <1>5, <3>2 DEF Update, AnswerRow
      <4> QED
        BY <4>2, <4>3 DEF TypeOK
    <3>3. CASE HasRow(e) /\ req[h].answer # "rejected"
      <4>1. row \in PcfRow
        BY <1>2, <3>3 DEF HasRow, TypeOK
      <4>2. Cardinality(req[h].pfs) \in Nat
        BY <1>2, FootprintsCounted
      <4>3. [row EXCEPT !.status = "fulfilled", !.ids = req[h].ids,
                        !.count = Cardinality(req[h].pfs)] \in PcfRow
        BY <1>2, <4>1, <4>2 DEF PcfRow, Status
      <4>4. requests' = [requests EXCEPT ![e] =
                           [row EXCEPT !.status = "fulfilled", !.ids = req[h].ids,
                                       !.count = Cardinality(req[h].pfs)]]
        BY <1>5, <3>3 DEF Update, AnswerRow
      <4> QED
        BY <4>3, <4>4 DEF TypeOK
    <3> QED
      BY <3>1, <3>2, <3>3
  <2>2. req' \in [Slots -> Handler]
    BY <1>5, EndType, GotoType DEF Update, Steps
  <2> QED
    BY <1>5, <2>1, <2>2 DEF Update, TypeOK, world, history
<1>6. CASE Check(h)
  <2>1. req' \in [Slots -> Handler]
    BY <1>6, EndType, GotoType DEF Check, Steps
  <2> QED
    BY <1>6, <2>1 DEF Check, TypeOK, world, history
<1>7. CASE Store(h)
  <2>1. PICK pf \in req[h].pfs :
          /\ Write(req[h].row.from, pf)
          /\ IF req[h].pfs = {pf} THEN End(h)
             ELSE req' = [req EXCEPT ![h].pfs = @ \ {pf}]
    BY <1>7 DEF Store
  <2>2. req' \in [Slots -> Handler]
    <3>1. CASE End(h)
      BY <3>1, EndType
    <3>2. CASE req' = [req EXCEPT ![h].pfs = @ \ {pf}]
      <4>1. [req[h] EXCEPT !.pfs = req[h].pfs \ {pf}] \in Handler
        BY <1>1 DEF Handler
      <4>2. req' = [req EXCEPT ![h] = [req[h] EXCEPT !.pfs = req[h].pfs \ {pf}]]
        BY <3>2
      <4> QED
        BY <4>1, <4>2 DEF TypeOK
    <3> QED
      BY <2>1, <3>1, <3>2
  <2>3. pf \in Pfs
    BY <1>2
  <2> QED
    BY <1>7, <2>1, <2>2, <2>3, WriteType DEF Store, TypeOK, world
<1>8. CASE StoreFails(h)
  BY <1>8, EndType DEF StoreFails, TypeOK, world, history
<1> QED
  BY <1>3, <1>4, <1>5, <1>6, <1>7, <1>8

LEMMA JobType ==
  ASSUME Inv, NEW h \in Slots, JobUpdate(h) \/ JobStore(h) \/ JobFails(h)
  PROVE  TypeOK'
<1> USE DEF Inv
<1>1. /\ job[h] \in Job /\ job[h].event \in Events /\ job[h].answer \in Verdicts
      /\ job[h].pfs \in SUBSET Pfs
  BY DEF JobUpdate, JobStore, JobFails, TypeOK, Job
<1>2. CASE JobUpdate(h)
  <2> DEFINE e == job[h].event
             row == requests[e]
  <2>1. requests' \in [Events -> PcfRow \cup {None}]
    <3>1. CASE ~HasRow(e) \/ row.from # job[h].to
      BY <1>2, <3>1 DEF JobUpdate, JobRow, TypeOK
    <3>2. CASE HasRow(e) /\ row.from = job[h].to /\ job[h].answer = "rejected"
      <4>1. row \in PcfRow
        BY <1>1, <3>2 DEF HasRow, TypeOK
      <4>2. [row EXCEPT !.status = "rejected"] \in PcfRow
        BY <4>1 DEF PcfRow, Status
      <4>3. requests' = [requests EXCEPT ![e] = [row EXCEPT !.status = "rejected"]]
        BY <1>2, <3>2 DEF JobUpdate, JobRow
      <4> QED
        BY <4>2, <4>3 DEF TypeOK
    <3>3. CASE HasRow(e) /\ row.from = job[h].to /\ job[h].answer # "rejected"
      <4>1. row \in PcfRow
        BY <1>1, <3>3 DEF HasRow, TypeOK
      <4>2. Cardinality(job[h].pfs) \in Nat
        BY <1>1, FootprintsCounted
      <4>3. [row EXCEPT !.status = "fulfilled", !.count = Cardinality(job[h].pfs)] \in PcfRow
        BY <4>1, <4>2 DEF PcfRow, Status
      <4>4. requests' = [requests EXCEPT ![e] =
                           [row EXCEPT !.status = "fulfilled",
                                       !.count = Cardinality(job[h].pfs)]]
        BY <1>2, <3>3 DEF JobUpdate, JobRow
      <4> QED
        BY <4>3, <4>4 DEF TypeOK
    <3> QED
      BY <3>1, <3>2, <3>3
  <2>2. [job[h] EXCEPT !.step = "store"] \in Job
    BY <1>1 DEF Job
  <2>3. job' \in [Slots -> Job \cup {None}]
    BY <1>2, <2>2 DEF JobUpdate, TypeOK
  <2> QED
    BY <1>2, <2>1, <2>3 DEF JobUpdate, TypeOK, world, history
<1>3. CASE JobStore(h)
  <2>1. PICK pf \in job[h].pfs :
          /\ Write(job[h].to, pf)
          /\ job' = [job EXCEPT ![h] = IF job[h].pfs = {pf} THEN None
                                      ELSE [job[h] EXCEPT !.pfs = @ \ {pf}]]
    BY <1>3 DEF JobStore
  <2>2. [job[h] EXCEPT !.pfs = @ \ {pf}] \in Job
    BY <1>1 DEF Job
  <2>3. job' \in [Slots -> Job \cup {None}]
    BY <2>1, <2>2 DEF TypeOK
  <2>4. pf \in Pfs
    BY <1>1
  <2> QED
    BY <1>3, <2>1, <2>3, <2>4, WriteType DEF JobStore, TypeOK, world
<1>4. CASE JobFails(h)
  BY <1>4 DEF JobFails, TypeOK, world, history
<1> QED
  BY <1>2, <1>3, <1>4

LEMMA PartnerType ==
  ASSUME Inv, Partner
  PROVE  TypeOK'
<1> USE DEF Inv
<1>1. ASSUME NEW x \in Nodes, NEW n \in Nodes, NEW e \in Events, ExternalAsk(x, n, e)
      PROVE  TypeOK'
  <2>1. asked' \in [Events -> Pair \cup {None}]
    <3>1. [from |-> x, target |-> n] \in Pair
      BY DEF Pair
    <3> QED
      BY <1>1, <3>1 DEF ExternalAsk, TypeOK
  <2>2. PICK f \in SourceNodes : requests' = Inbox(e, InboxRow(f, n, "elsewhere"))
    BY <1>1 DEF ExternalAsk
  <2>3. InboxRow(f, n, "elsewhere") \in PcfRow
    BY NodesAssumption, RowTypes DEF SourceNodes
  <2>4. requests' \in [Events -> PcfRow \cup {None}]
    BY <2>2, <2>3 DEF Inbox, TypeOK
  <2> QED
    BY <1>1, <2>1, <2>4 DEF ExternalAsk, TypeOK, world
<1>2. ASSUME NEW h \in Slots, NEW e \in Events, NEW s \in Verdicts, NEW P \in SUBSET Pfs,
             ExternalAnswer(h, e, s, P)
      PROVE  TypeOK'
  <2>1. asked[e].from \in Nodes
    BY <1>2 DEF ExternalAnswer, TypeOK, Pair
  <2>2. [step |-> "update", event |-> e, to |-> asked[e].from, answer |-> s, pfs |-> P] \in Job
    BY <2>1 DEF Job
  <2>3. job' \in [Slots -> Job \cup {None}]
    BY <1>2, <2>2 DEF ExternalAnswer, TypeOK
  <2>4. verdict' \in [Events -> Verdicts \cup {None}]
    BY <1>2 DEF ExternalAnswer, TypeOK
  <2>5. offers' \in [Events -> SUBSET SUBSET Pfs]
    BY <1>2 DEF ExternalAnswer, TypeOK
  <2> QED
    BY <1>2, <2>3, <2>4, <2>5 DEF ExternalAnswer, TypeOK, world
<1>3. "rejected" \in Verdicts /\ "fulfilled" \in Verdicts
  BY DEF Verdicts, Status
<1> QED
  BY <1>1, <1>2, <1>3 DEF Partner

LEMMA CascadeType ==
  ASSUME TypeOK, NEW ids, NEW nodes, requests' = CascadeAll(ids, nodes)
  PROVE  requests' \in [Events -> PcfRow \cup {None}]
BY DEF CascadeAll, TypeOK

LEMMA ManageType ==
  ASSUME Inv, Manage
  PROVE  TypeOK'
<1> USE DEF Inv
<1>1. ASSUME NEW n \in Nodes, DeleteNode(n) PROVE TypeOK'
  BY <1>1, CascadeType DEF DeleteNode, TypeOK, history
<1>2. ASSUME NEW n \in Nodes, NEW P \in SUBSET Pfs, Import(n, P) PROVE TypeOK'
  BY <1>2 DEF Import, TypeOK, world, history
<1>3. ASSUME NEW n \in Nodes, NEW pf \in Pfs, DeleteFootprint(n, pf) PROVE TypeOK'
  BY <1>3 DEF DeleteFootprint, TypeOK, world, history
<1>4. ASSUME NEW id \in ConnIds, Connect(id) PROVE TypeOK'
  BY <1>4 DEF Connect, TypeOK, history
<1>5. ASSUME NEW id \in ConnIds, Disconnect(id) PROVE TypeOK'
  BY <1>5, CascadeType DEF Disconnect, TypeOK, history
<1> QED
  BY <1>1, <1>2, <1>3, <1>4, <1>5 DEF Manage

LEMMA TypeStep ==
  ASSUME Inv, [Next]_vars
  PROVE  TypeOK'
<1> USE DEF Inv
<1>1. ASSUME NEW h \in Slots, Begin(h) PROVE TypeOK'
  <2>1. ASSUME NEW e \in Events, NEW F \in SUBSET Pfs, FulfillBegin(h, e, F) PROVE TypeOK'
    BY <2>1, DecideType DEF FulfillBegin, Verdicts, Status
  <2>2. ASSUME NEW e \in Events, RejectBegin(h, e) PROVE TypeOK'
    BY <2>2, DecideType DEF RejectBegin, Verdicts, Status
  <2> QED
    BY <1>1, <2>1, <2>2, CreateType DEF Begin
<1>2. ASSUME NEW h \in Slots, Proceed(h) PROVE TypeOK'
  BY <1>2, CreateType, AnswerType DEF Proceed
<1>3. ASSUME NEW h \in Slots, Serve(h) PROVE TypeOK'
  BY <1>3, JobType DEF Serve
<1>4. ASSUME NEW h \in Slots, Abandon(h) PROVE TypeOK'
  BY <1>4, EndType DEF Abandon, TypeOK, world
<1>5. ASSUME NEW h \in Slots, JobDies(h) PROVE TypeOK'
  BY <1>5 DEF JobDies, TypeOK, world
<1>6. CASE UNCHANGED vars
  BY <1>6 DEF vars, world, history, TypeOK
<1> QED
  BY <1>1, <1>2, <1>3, <1>4, <1>5, <1>6, PartnerType, ManageType DEF Next

-----------------------------------------------------------------------------
(* What handlers may rely on.                                              *)

Grown == \A e \in Events : /\ asked[e] # None => asked'[e] = asked[e]
                           /\ offers[e] \subseteq offers'[e]

\* What was asked and offered is never taken back.
LEMMA HistoryGrows ==
  ASSUME Inv, [Next]_vars
  PROVE  Grown
<1> USE DEF Inv
<1>1. CASE UNCHANGED <<asked, offers>>
  BY <1>1 DEF Grown
<1>2. ASSUME NEW h \in Slots, Begin(h) \/ Proceed(h) \/ Serve(h) PROVE Grown
  <2>1. CASE CreatePost(h)
    BY <2>1 DEF CreatePost, Grown, TypeOK
  <2>2. ASSUME NEW e \in Events, NEW s, NEW F, NEW found, DecideBegin(h, e, s, F, found)
        PROVE  Grown
    BY <2>2 DEF DecideBegin, Grown, TypeOK
  <2>3. CASE \/ \E id \in ConnIds : CreateBegin(h, id)
             \/ CreateAuth(h) \/ CreatePostFails(h) \/ CreateInsert(h)
             \/ Callback(h) \/ Await(h) \/ Update(h) \/ Check(h) \/ Store(h) \/ StoreFails(h)
             \/ Serve(h)
    BY <1>1, <2>3 DEF CreateBegin, CreateAuth, CreatePostFails, CreateInsert,
       Callback, Await, Update, Check, Store, StoreFails, Serve, JobUpdate, JobStore,
       JobFails, history
  <2> QED
    BY <1>2, <2>1, <2>2, <2>3 DEF Begin, Proceed, FulfillBegin, RejectBegin
<1>3. CASE Partner
  <2>1. ASSUME NEW x \in Nodes, NEW n \in Nodes, NEW e \in Events, ExternalAsk(x, n, e)
        PROVE  Grown
    BY <2>1 DEF ExternalAsk, Grown, TypeOK
  <2>2. ASSUME NEW h \in Slots, NEW e \in Events, NEW s, NEW P, ExternalAnswer(h, e, s, P)
        PROVE  Grown
    BY <2>2 DEF ExternalAnswer, Grown, TypeOK
  <2> QED
    BY <1>3, <2>1, <2>2 DEF Partner
<1>4. CASE Manage
  BY <1>1, <1>4 DEF Manage, DeleteNode, Import, DeleteFootprint, Connect, Disconnect, history
<1>5. ASSUME NEW h \in Slots, Abandon(h) \/ JobDies(h) PROVE Grown
  BY <1>1, <1>5 DEF Abandon, JobDies
<1>6. CASE UNCHANGED vars
  BY <1>1, <1>6 DEF vars, history
<1> QED
  BY <1>2, <1>3, <1>4, <1>5, <1>6 DEF Next

\* So what a handler or a callback relied on before a step, it may afterwards.
LEMMA InFlightStays ==
  ASSUME Inv, Grown,
         \A h \in Slots : /\ req'[h] \in {req[h], Idle} \/ OfHandler(req[h])'
                          /\ job'[h] \in {job[h], None} \/ OfJob(job[h])'
  PROVE  InFlight'
<1> USE DEF Inv
<1> SUFFICES ASSUME NEW h \in Slots PROVE OfHandler(req[h])' /\ OfJob(job[h])'
  BY DEF InFlight
<1>1. ASSUME req'[h] = req[h] PROVE OfHandler(req[h])'
  <2> DEFINE r == req[h]
  <2>1. OfHandler(r)
    BY DEF InFlight
  <2>2. CASE r.step \in Creating
    <3>1. r.step = "create.insert" => asked[r.event] # None /\ r.event \in Events
      BY <2>1, <2>2, LinkIsPair, LinksAssumption DEF OfHandler
    <3>2. r.step \notin Answering
      BY <2>2 DEF Creating, Answering
    <3> QED
      BY <1>1, <2>1, <3>1, <3>2 DEF OfHandler, Grown, Answering
  <2>3. CASE r.step \in Answering
    <3>1. r.event \in Events /\ asked'[r.event] = asked[r.event] /\ asked'[r.event] # None
      BY <2>1, <2>3 DEF OfHandler, Grown
    <3>2. offers[r.event] \subseteq offers'[r.event]
      BY <3>1 DEF Grown
    <3>3. r.pfs \subseteq UNION offers'[r.event]
      BY <2>1, <2>3, <3>2 DEF OfHandler
    <3>4. r.row.from \in IF r.row.source = "elsewhere"
                         THEN {n \in {None} \cup Aliases : asked'[r.event].from \in External}
                         ELSE {asked'[r.event].from}
      BY <2>1, <2>3, <3>1 DEF OfHandler, Asker
    <3>5. r.step \notin Creating
      BY <2>3 DEF Creating, Answering
    <3>6. OfHandler(r) /\ r.step # "create.insert"
      BY <2>1, <3>5 DEF Creating
    <3> QED
      BY <1>1, <2>3, <3>1, <3>2, <3>3, <3>4, <3>5, <3>6 DEF OfHandler, Asker
  <2>4. CASE r.step \notin Creating \cup Answering
    BY <1>1, <2>4 DEF OfHandler, Creating, Answering
  <2> QED
    BY <2>2, <2>3, <2>4
<1>2. ASSUME req'[h] = Idle PROVE OfHandler(req[h])'
  <2>1. Idle.step \notin Creating \cup Answering
    BY IdleFits DEF Creating, Answering
  <2> QED
    BY <1>2, <2>1 DEF OfHandler, Creating, Answering
<1>3. ASSUME job'[h] = job[h] PROVE OfJob(job[h])'
  <2> DEFINE j == job[h]
  <2>1. OfJob(j) /\ (j # None => j.event \in Events)
    BY DEF InFlight, TypeOK, Job
  <2>2. j # None => /\ asked'[j.event] = asked[j.event]
                    /\ offers[j.event] \subseteq offers'[j.event]
    BY <2>1 DEF OfJob, Grown
  <2>3. j # None => j.pfs \subseteq UNION offers'[j.event]
    BY <2>1, <2>2 DEF OfJob
  <2> QED
    BY <1>3, <2>1, <2>2, <2>3 DEF OfJob
<1>4. ASSUME job'[h] = None PROVE OfJob(job[h])'
  BY <1>4 DEF OfJob
<1> QED
  BY <1>1, <1>2, <1>3, <1>4

\* A step of one handler, or of the callback beside it.
LEMMA OneInFlight ==
  ASSUME Inv, Grown, NEW h \in Slots,
         \A k \in Slots \ {h} : req'[k] = req[k] /\ job'[k] = job[k],
         req'[h] \in {req[h], Idle} \/ OfHandler(req[h])',
         job'[h] \in {job[h], None} \/ OfJob(job[h])'
  PROVE  InFlight'
<1>1. ASSUME NEW k \in Slots
      PROVE  /\ req'[k] \in {req[k], Idle} \/ OfHandler(req[k])'
             /\ job'[k] \in {job[k], None} \/ OfJob(job[k])'
  <2>1. CASE k = h
    BY <2>1
  <2>2. CASE k # h
    BY <2>2
  <2> QED
    BY <2>1, <2>2
<1> QED
  BY <1>1, InFlightStays

\* A decision that moves on, not back before its UPDATE, knows what it knew.
LEMMA MovesOn ==
  ASSUME Inv, NEW h \in Slots, NEW s \in Answering, req[h].step \in Answering,
         Goto(h, s), UNCHANGED <<asked, offers>>,
         s \in {"callback", "await", "update"}
           => req[h].step \in {"callback", "await", "update"}
  PROVE  OfHandler(req[h])'
<1>1. req[h] \in Handler /\ OfHandler(req[h])
  BY DEF Inv, InFlight, TypeOK
<1>2. req'[h] = [req[h] EXCEPT !.step = s]
  BY DEF Goto, Inv, TypeOK
<1>3. /\ req'[h].step = s /\ req'[h].event = req[h].event /\ req'[h].row = req[h].row
      /\ req'[h].answer = req[h].answer /\ req'[h].pfs = req[h].pfs
      /\ req'[h].ids = req[h].ids
  BY <1>1, <1>2 DEF Handler
<1>4. s \notin Creating /\ s # "create.insert"
  BY DEF Creating, Answering
<1> QED
  BY <1>1, <1>3, <1>4 DEF OfHandler, Asker

LEMMA InFlightEnds ==
  ASSUME Inv, Grown, NEW h \in Slots, End(h), UNCHANGED job
  PROVE  InFlight'
<1>1. req'[h] = Idle /\ \A k \in Slots \ {h} : req'[k] = req[k] /\ job'[k] = job[k]
  BY DEF End, Inv, TypeOK
<1> QED
  BY <1>1, OneInFlight

LEMMA InFlightCreates ==
  ASSUME Inv, Grown, NEW h \in Slots,
         \/ \E id \in ConnIds : CreateBegin(h, id)
         \/ CreateAuth(h) \/ CreatePost(h) \/ CreatePostFails(h) \/ CreateInsert(h)
  PROVE  InFlight'
<1>1. OfHandler(req[h]) /\ req[h] \in Handler /\ req \in [Slots -> Handler]
  BY DEF Inv, InFlight, TypeOK
<1>2. CASE CreatePostFails(h) \/ CreateInsert(h) \/ (CreateAuth(h) /\ End(h))
  BY <1>2, InFlightEnds DEF CreatePostFails, CreateInsert, CreateAuth
<1>3. CASE \E id \in ConnIds : CreateBegin(h, id)
  <2>1. PICK id \in ConnIds :
          req' = [req EXCEPT ![h] = [Idle EXCEPT !.step = "create.auth", !.conn = id]]
    BY <1>3 DEF CreateBegin
  <2>2. req'[h].step = "create.auth" /\ req'[h].conn = id
    BY <1>1, <2>1 DEF Idle
  <2>3. OfHandler(req[h])'
    BY <2>2 DEF OfHandler, Creating, Answering
  <2> QED
    BY <1>1, <1>3, <2>1, <2>3, OneInFlight DEF CreateBegin
<1>4. CASE CreateAuth(h) /\ Goto(h, "create.post")
  <2>1. req'[h].step = "create.post" /\ req'[h].conn = req[h].conn
    BY <1>1, <1>4 DEF Goto, Handler
  <2>2. req[h].conn \in ConnIds
    BY <1>1, <1>4 DEF CreateAuth, At, OfHandler, Creating
  <2>3. OfHandler(req[h])'
    BY <2>1, <2>2 DEF OfHandler, Creating, Answering
  <2> QED
    BY <1>1, <1>4, <2>3, OneInFlight DEF CreateAuth, Goto
<1>5. CASE CreatePost(h)
  <2>1. PICK e \in Events :
          /\ asked' = [asked EXCEPT ![e] = LinkOf[req[h].conn]]
          /\ req' = [req EXCEPT ![h].step = "create.insert", ![h].event = e]
    BY <1>5 DEF CreatePost
  <2>2. req'[h].step = "create.insert" /\ req'[h].event = e /\ req'[h].conn = req[h].conn
    BY <1>1, <2>1 DEF Handler
  <2>3. req[h].conn \in ConnIds
    BY <1>1, <1>5 DEF CreatePost, At, OfHandler, Creating
  <2>4. asked'[e] = LinkOf[req[h].conn]
    BY <2>1 DEF Inv, TypeOK
  <2>5. OfHandler(req[h])'
    BY <2>2, <2>3, <2>4 DEF OfHandler, Creating, Answering
  <2> QED
    BY <1>1, <1>5, <2>1, <2>5, OneInFlight DEF CreatePost
<1> QED
  BY <1>2, <1>3, <1>4, <1>5 DEF CreateAuth

LEMMA InFlightDecides ==
  ASSUME Inv, Grown, NEW h \in Slots, NEW e \in Events, NEW s \in Verdicts,
         NEW F, NEW found, DecideBegin(h, e, s, F, found),
         s = "fulfilled" => found # {} /\ found \subseteq F,
         s = "rejected" => found = {}
  PROVE  InFlight'
<1>1. requests[e] \in PcfRow /\ HasRow(e) /\ Matching(e)
  BY DEF DecideBegin, Pending, HasRow, Inv, RowsTrue, TypeOK
<1>2. /\ req'[h].step \in {"update", "callback"} /\ req'[h].event = e
      /\ req'[h].row = requests[e] /\ req'[h].answer = s
      /\ req'[h].ids = F /\ req'[h].pfs = found
  BY DEF DecideBegin, Inv, TypeOK
<1>3. asked' = asked /\ asked[e] # None /\ requests[e].from \in Asker(e, requests[e].source)
  BY <1>1 DEF DecideBegin, Matching
<1>4. s = "fulfilled" => found \in offers'[e]
  BY DEF DecideBegin, Inv, TypeOK
<1>5. found \subseteq UNION offers'[e]
  BY <1>4 DEF Verdicts, Status
<1>6. OfHandler(req[h])'
  <2>1. req'[h].step \notin Creating /\ req'[h].step # "create.insert"
    BY <1>2 DEF Creating
  <2> QED
    BY <1>1, <1>2, <1>3, <1>4, <1>5, <2>1 DEF OfHandler, Asker
<1>7. \A k \in Slots \ {h} : req'[k] = req[k] /\ job'[k] = job[k]
  BY DEF DecideBegin, Inv, TypeOK
<1>8. job' = job
  BY DEF DecideBegin
<1> QED
  BY <1>6, <1>7, <1>8, OneInFlight

LEMMA InFlightAnswers ==
  ASSUME Inv, Grown, NEW h \in Slots,
         \/ Callback(h) \/ Await(h) \/ Update(h) \/ Check(h) \/ Store(h) \/ StoreFails(h)
  PROVE  InFlight'
<1>1. /\ OfHandler(req[h]) /\ req[h] \in Handler /\ req[h].step \in Answering
      /\ req \in [Slots -> Handler] /\ job \in [Slots -> Job \cup {None}]
  BY DEF Inv, InFlight, TypeOK, Callback, Await, Update, Check, Store, StoreFails, At, Answering
<1>2. UNCHANGED <<asked, offers>>
  BY DEF Callback, Await, Update, Check, Store, StoreFails, history
<1>3. ASSUME End(h), UNCHANGED job PROVE InFlight'
  BY <1>3, InFlightEnds
<1>4. ASSUME NEW s \in Answering, Goto(h, s), UNCHANGED job,
             s \in {"callback", "await", "update"}
               => req[h].step \in {"callback", "await", "update"}
      PROVE  InFlight'
  <2>1. OfHandler(req[h])'
    BY <1>1, <1>2, <1>4, MovesOn
  <2>2. \A k \in Slots \ {h} : req'[k] = req[k] /\ job'[k] = job[k]
    BY <1>1, <1>4 DEF Goto
  <2> QED
    BY <1>4, <2>1, <2>2, OneInFlight
<1>5. CASE Callback(h) /\ Admitted(req[h].row)
  <2> DEFINE r == req[h]
  <2>1. OfHandler(req[h])'
    BY <1>1, <1>2, <1>5, MovesOn DEF Callback, At, Answering
  <2>2. job' = [job EXCEPT ![h] = [step |-> "update", event |-> r.event,
                                   to |-> r.row.from, answer |-> r.answer,
                                   pfs |-> r.pfs]]
    BY <1>5 DEF Callback
  <2>3. \A k \in Slots \ {h} : req'[k] = req[k] /\ job'[k] = job[k]
    BY <1>1, <1>5, <2>2 DEF Callback, Goto
  <2>4. /\ job'[h].step = "update" /\ job'[h].event = r.event /\ job'[h].to = r.row.from
        /\ job'[h].answer = r.answer /\ job'[h].pfs = r.pfs
    BY <1>1, <2>2
  <2>5. asked[r.event] # None /\ r.row.from = asked[r.event].from
    BY <1>1, <1>5 DEF OfHandler, Asker, Admitted
  <2>6. /\ r.pfs \subseteq UNION offers[r.event]
        /\ r.answer = "fulfilled" => r.pfs \in offers[r.event]
    BY <1>1, <1>5 DEF OfHandler, Callback, At
  <2>7. OfJob(job[h])'
    BY <1>2, <2>4, <2>5, <2>6 DEF OfJob
  <2> QED
    BY <2>1, <2>3, <2>7, OneInFlight
<1>6. CASE Callback(h) /\ ~Admitted(req[h].row)
  BY <1>4, <1>6 DEF Callback, At, Answering
<1>7. CASE Await(h)
  BY <1>4, <1>7 DEF Await, At, Answering
<1>8. CASE Update(h)
  <2>1. End(h) \/ Goto(h, "check")
    BY <1>8 DEF Update
  <2> QED
    BY <1>3, <1>4, <1>8, <2>1 DEF Update, Answering
<1>9. CASE Check(h)
  <2>1. End(h) \/ Goto(h, "store")
    BY <1>9 DEF Check
  <2> QED
    BY <1>3, <1>4, <1>9, <2>1 DEF Check, Answering
<1>10. CASE Store(h)
  <2>1. PICK pf \in req[h].pfs :
          IF req[h].pfs = {pf} THEN End(h) ELSE req' = [req EXCEPT ![h].pfs = @ \ {pf}]
    BY <1>10 DEF Store
  <2>2. CASE End(h)
    BY <1>3, <1>10, <2>2 DEF Store
  <2>3. CASE req' = [req EXCEPT ![h].pfs = @ \ {pf}]
    <3>1. /\ req'[h].step = "store" /\ req'[h].event = req[h].event
          /\ req'[h].row = req[h].row /\ req'[h].answer = req[h].answer
          /\ req'[h].pfs \subseteq req[h].pfs
      BY <1>1, <1>10, <2>3 DEF Handler, Store, At
    <3>2. req[h].pfs \subseteq UNION offers[req[h].event]
      BY <1>1 DEF OfHandler
    <3>3. OfHandler(req[h])'
      <4>1. req'[h].pfs \subseteq UNION offers'[req'[h].event]
        BY <1>2, <3>1, <3>2
      <4> QED
        BY <1>1, <1>2, <3>1, <4>1 DEF OfHandler, Asker, Creating, Answering
    <3>4. \A k \in Slots \ {h} : req'[k] = req[k] /\ job'[k] = job[k]
      BY <1>1, <1>10, <2>3 DEF Store
    <3>5. job' = job
      BY <1>10 DEF Store
    <3> QED
      BY <3>3, <3>4, <3>5, OneInFlight
  <2> QED
    BY <2>1, <2>2, <2>3
<1>11. CASE StoreFails(h)
  BY <1>3, <1>11 DEF StoreFails
<1> QED
  BY <1>5, <1>6, <1>7, <1>8, <1>9, <1>10, <1>11

LEMMA InFlightServes ==
  ASSUME Inv, Grown, NEW h \in Slots, JobUpdate(h) \/ JobStore(h) \/ JobFails(h) \/ JobDies(h)
  PROVE  InFlight'
<1>1. /\ OfJob(job[h]) /\ job[h] \in Job /\ job[h] # None
      /\ job \in [Slots -> Job \cup {None}]
  BY DEF Inv, InFlight, TypeOK, JobUpdate, JobStore, JobFails, JobDies
<1>2. UNCHANGED <<req, asked, offers>>
  BY DEF JobUpdate, JobStore, JobFails, JobDies, history
<1>3. PICK j : job' = [job EXCEPT ![h] = j]
  BY DEF JobUpdate, JobStore, JobFails, JobDies
<1>4. job'[h] = None \/ OfJob(job[h])'
  <2>1. CASE JobFails(h) \/ JobDies(h)
    BY <1>1, <2>1 DEF JobFails, JobDies
  <2>2. CASE JobUpdate(h)
    <3>1. job'[h] = None \/ job'[h] = [job[h] EXCEPT !.step = "store"]
      BY <1>1, <2>2 DEF JobUpdate
    <3> QED
      BY <1>1, <1>2, <3>1 DEF OfJob, Job
  <2>3. CASE JobStore(h)
    <3>1. PICK pf : job'[h] = None \/ job'[h] = [job[h] EXCEPT !.pfs = @ \ {pf}]
      BY <1>1, <2>3 DEF JobStore
    <3>2. job[h].step = "store"
      BY <2>3 DEF JobStore
    <3> QED
      BY <1>1, <1>2, <3>1, <3>2 DEF OfJob, Job
  <2> QED
    BY <2>1, <2>2, <2>3
<1> QED
  BY <1>1, <1>2, <1>3, <1>4, OneInFlight

LEMMA InFlightPartner ==
  ASSUME Inv, Grown, Partner
  PROVE  InFlight'
<1>1. ASSUME NEW x \in Nodes, NEW n \in Nodes, NEW e \in Events, ExternalAsk(x, n, e)
      PROVE  InFlight'
  BY <1>1, InFlightStays DEF ExternalAsk
<1>2. ASSUME NEW h \in Slots, NEW e \in Events, NEW s \in Verdicts, NEW P \in SUBSET Pfs,
             ExternalAnswer(h, e, s, P), s = "rejected" => P = {}
      PROVE  InFlight'
  <2>1. job' = [job EXCEPT ![h] = [step |-> "update", event |-> e, to |-> asked[e].from,
                                   answer |-> s, pfs |-> P]]
    BY <1>2 DEF ExternalAnswer
  <2>2. /\ job'[h].step = "update" /\ job'[h].event = e /\ job'[h].to = asked[e].from
        /\ job'[h].answer = s /\ job'[h].pfs = P
    BY <2>1 DEF Inv, TypeOK
  <2>3. asked' = asked /\ asked[e] # None
    BY <1>2 DEF ExternalAnswer
  <2>4. s = "fulfilled" => P \in offers'[e]
    BY <1>2 DEF ExternalAnswer, Inv, TypeOK
  <2>5. P \subseteq UNION offers'[e]
    BY <1>2, <2>4 DEF Verdicts, Status
  <2>6. OfJob(job[h])'
    BY <2>2, <2>3, <2>4, <2>5 DEF OfJob
  <2>7. req' = req /\ \A k \in Slots \ {h} : job'[k] = job[k]
    BY <1>2, <2>1 DEF ExternalAnswer, Inv, TypeOK
  <2> QED
    BY <2>6, <2>7, OneInFlight
<1>3. "rejected" \in Verdicts /\ "fulfilled" \in Verdicts
  BY DEF Verdicts, Status
<1> QED
  BY <1>1, <1>2, <1>3 DEF Partner

LEMMA InFlightStep ==
  ASSUME Inv, [Next]_vars
  PROVE  InFlight'
<1>0. Grown
  BY HistoryGrows
<1>1. ASSUME NEW h \in Slots, Begin(h) PROVE InFlight'
  <2>1. ASSUME NEW e \in Events, NEW F \in SUBSET Pfs, FulfillBegin(h, e, F) PROVE InFlight'
    BY <1>0, <2>1, InFlightDecides DEF FulfillBegin, Verdicts, Status
  <2>2. ASSUME NEW e \in Events, RejectBegin(h, e) PROVE InFlight'
    BY <1>0, <2>2, InFlightDecides DEF RejectBegin, Verdicts, Status
  <2> QED
    BY <1>0, <1>1, <2>1, <2>2, InFlightCreates DEF Begin
<1>2. ASSUME NEW h \in Slots, Proceed(h) PROVE InFlight'
  BY <1>0, <1>2, InFlightCreates, InFlightAnswers DEF Proceed
<1>3. ASSUME NEW h \in Slots, Serve(h) \/ JobDies(h) PROVE InFlight'
  BY <1>0, <1>3, InFlightServes DEF Serve
<1>4. ASSUME NEW h \in Slots, Abandon(h) PROVE InFlight'
  BY <1>0, <1>4, InFlightEnds DEF Abandon
<1>5. CASE Manage \/ UNCHANGED vars
  <2>1. UNCHANGED <<req, job>>
    BY <1>5 DEF Manage, DeleteNode, Import, DeleteFootprint, Connect, Disconnect, vars
  <2> QED
    BY <1>0, <2>1, InFlightStays
<1> QED
  BY <1>0, <1>1, <1>2, <1>3, <1>4, <1>5, InFlightPartner DEF Next

-----------------------------------------------------------------------------
(* What a step does to a row.                                              *)

GoneRow(e) == requests'[e] = None

NewRow(e) ==
  LET row == requests'[e]
  IN /\ ~HasRow(e) /\ asked'[e] # None
     /\ row \in PcfRow /\ row.status = "pending" /\ row.ids = None
     /\ row.target = asked'[e].target
     /\ row.from \in IF row.source = "elsewhere" THEN {None} \cup Aliases
                                                 ELSE {asked'[e].from}
     /\ row.source = "elsewhere" => asked'[e].from \in External
     /\ row.conn # None => row.conn \in ConnIds /\ LinkOf[row.conn] = asked'[e]

\* who asked whom, and where to answer, stay with a row
SameParties(e) ==
  /\ HasRow(e) /\ requests'[e] \in PcfRow
  /\ requests'[e].from = requests[e].from /\ requests'[e].target = requests[e].target
  /\ requests'[e].source = requests[e].source

LinkedRow(e) ==
  /\ SameParties(e)
  /\ requests'[e].conn \in ConnIds /\ LinkOf[requests'[e].conn] = asked[e]
  /\ requests'[e].status = requests[e].status
  /\ requests'[e].count = requests[e].count /\ requests'[e].ids = requests[e].ids

SettledRow(e) ==
  /\ SameParties(e)
  /\ requests'[e].conn = requests[e].conn
  /\ \/ requests'[e].status = "rejected" /\ requests'[e].ids = requests[e].ids
     \/ /\ requests'[e].status = "fulfilled"
        /\ \E S \in offers[e] : /\ requests'[e].count = Cardinality(S)
                                /\ \/ requests'[e].ids = requests[e].ids
                                   \/ S # {} /\ S \subseteq requests'[e].ids

\* one row at most is written
Written(e) == requests' = [requests EXCEPT ![e] = requests'[e]]

LEMMA AnswerEffect ==
  ASSUME Inv, NEW h \in Slots, Update(h)
  PROVE  \/ UNCHANGED requests
         \/ /\ req[h].event \in Events
            /\ Written(req[h].event) /\ SettledRow(req[h].event)
            /\ requests'[req[h].event].status = req[h].answer
<1> DEFINE r == req[h]
           e == r.event
           row == requests[e]
<1>1. /\ OfHandler(r) /\ r \in Handler /\ e \in Events /\ r.answer \in Verdicts
      /\ requests \in [Events -> PcfRow \cup {None}] /\ requests' = AnswerRow(e, r)
      /\ r.pfs \in SUBSET Pfs /\ r.ids \in SUBSET Pfs
  BY DEF Inv, InFlight, TypeOK, Update, At, OfHandler, Answering, Handler
<1>3. CASE ~HasRow(e)
  BY <1>1, <1>3 DEF AnswerRow
<1>4. CASE HasRow(e) /\ r.answer = "rejected"
  <2>1. row \in PcfRow /\ requests' = [requests EXCEPT ![e] = [row EXCEPT !.status = "rejected"]]
    BY <1>1, <1>4 DEF HasRow, AnswerRow
  <2>2. requests'[e] = [row EXCEPT !.status = "rejected"]
    BY <1>1, <2>1
  <2>3. requests'[e] \in PcfRow
    BY <2>1, <2>2 DEF PcfRow, Status
  <2>4. SettledRow(e)
    BY <1>4, <2>1, <2>2, <2>3 DEF SettledRow, SameParties, PcfRow
  <2>5. Written(e) /\ requests'[e].status = r.answer
    BY <1>4, <2>1, <2>2 DEF Written, PcfRow
  <2> QED
    BY <1>1, <2>4, <2>5
<1>5. CASE HasRow(e) /\ r.answer = "fulfilled"
  <2>1. row \in PcfRow
        /\ requests' = [requests EXCEPT ![e] = [row EXCEPT !.status = "fulfilled",
                                                           !.ids = r.ids,
                                                           !.count = Cardinality(r.pfs)]]
    BY <1>1, <1>5 DEF HasRow, AnswerRow
  <2>2. requests'[e] = [row EXCEPT !.status = "fulfilled", !.ids = r.ids,
                                   !.count = Cardinality(r.pfs)]
    BY <1>1, <2>1
  <2>3. requests'[e] \in PcfRow
    <3>1. Cardinality(r.pfs) \in Nat
      BY <1>1, FootprintsCounted
    <3> QED
      BY <1>1, <2>1, <2>2, <3>1 DEF PcfRow, Status
  <2>4. r.pfs \in offers[e] /\ r.pfs # {} /\ r.pfs \subseteq r.ids
    BY <1>1, <1>5 DEF OfHandler, Update, At
  <2>5. /\ requests'[e].status = "fulfilled" /\ requests'[e].ids = r.ids
        /\ requests'[e].count = Cardinality(r.pfs)
    BY <2>1, <2>2 DEF PcfRow
  <2>6. SameParties(e) /\ requests'[e].conn = row.conn
    BY <1>5, <2>1, <2>2, <2>3 DEF SameParties, PcfRow
  <2>7. SettledRow(e)
    BY <2>4, <2>5, <2>6 DEF SettledRow
  <2>8. Written(e)
    BY <2>1, <2>2 DEF Written
  <2> QED
    BY <1>1, <1>5, <2>5, <2>7, <2>8
<1> QED
  BY <1>1, <1>3, <1>4, <1>5 DEF Verdicts, Status

LEMMA JobEffect ==
  ASSUME Inv, NEW h \in Slots, JobUpdate(h)
  PROVE  \/ UNCHANGED requests
         \/ /\ job[h].event \in Events
            /\ Written(job[h].event) /\ SettledRow(job[h].event)
            /\ requests'[job[h].event].status = job[h].answer
<1> DEFINE j == job[h]
           e == j.event
           row == requests[e]
<1>1. /\ OfJob(j) /\ j \in Job /\ j # None /\ e \in Events /\ j.answer \in Verdicts
      /\ requests \in [Events -> PcfRow \cup {None}] /\ requests' = JobRow(e, j)
      /\ j.pfs \in SUBSET Pfs
  BY DEF Inv, InFlight, TypeOK, JobUpdate, Job
<1>2. CASE ~HasRow(e) \/ row.from # j.to
  BY <1>1, <1>2 DEF JobRow
<1>3. CASE HasRow(e) /\ row.from = j.to /\ j.answer = "rejected"
  <2>1. row \in PcfRow /\ requests' = [requests EXCEPT ![e] = [row EXCEPT !.status = "rejected"]]
    BY <1>1, <1>3 DEF HasRow, JobRow
  <2>2. requests'[e] = [row EXCEPT !.status = "rejected"]
    BY <1>1, <2>1
  <2>3. requests'[e] \in PcfRow
    BY <2>1, <2>2 DEF PcfRow, Status
  <2>4. SettledRow(e)
    BY <1>3, <2>1, <2>2, <2>3 DEF SettledRow, SameParties, PcfRow
  <2>5. Written(e) /\ requests'[e].status = j.answer
    BY <1>3, <2>1, <2>2 DEF Written, PcfRow
  <2> QED
    BY <1>1, <2>4, <2>5
<1>4. CASE HasRow(e) /\ row.from = j.to /\ j.answer = "fulfilled"
  <2>1. row \in PcfRow
        /\ requests' = [requests EXCEPT ![e] = [row EXCEPT !.status = "fulfilled",
                                                           !.count = Cardinality(j.pfs)]]
    BY <1>1, <1>4 DEF HasRow, JobRow
  <2>2. requests'[e] = [row EXCEPT !.status = "fulfilled", !.count = Cardinality(j.pfs)]
    BY <1>1, <2>1
  <2>3. requests'[e] \in PcfRow
    <3>1. Cardinality(j.pfs) \in Nat
      BY <1>1, FootprintsCounted
    <3> HIDE DEF j
    <3>2. [row EXCEPT !.status = "fulfilled", !.count = Cardinality(j.pfs)] \in PcfRow
      BY <2>1, <3>1 DEF PcfRow, Status
    <3> QED
      BY <2>2, <3>2
  <2>4. j.pfs \in offers[e]
    BY <1>1, <1>4 DEF OfJob, JobUpdate
  <2>5. /\ requests'[e].status = "fulfilled" /\ requests'[e].ids = row.ids
        /\ requests'[e].count = Cardinality(j.pfs)
    BY <2>1, <2>2 DEF PcfRow
  <2>6. SameParties(e) /\ requests'[e].conn = row.conn
    BY <1>4, <2>1, <2>2, <2>3 DEF SameParties, PcfRow
  <2>7. SettledRow(e)
    BY <2>4, <2>5, <2>6 DEF SettledRow
  <2>8. Written(e)
    BY <2>1, <2>2 DEF Written
  <2> QED
    BY <1>1, <1>4, <2>5, <2>7, <2>8
<1> QED
  BY <1>1, <1>2, <1>3, <1>4 DEF Verdicts, Status

\* What an INSERT of an event handler leaves: the row it finds, or a new one.
LEMMA InboxEffect ==
  ASSUME Inv, NEW e \in Events, NEW n \in Nodes \cup {None}, NEW m \in Nodes,
         NEW source \in {"node", "elsewhere", None},
         requests' = Inbox(e, InboxRow(n, m, source)),
         asked'[e] # None, m = asked'[e].target,
         n \in IF source = "elsewhere" THEN {None} \cup Aliases ELSE {asked'[e].from},
         source = "elsewhere" => asked'[e].from \in External
  PROVE  \/ UNCHANGED requests
         \/ /\ Written(e) /\ NewRow(e)
            /\ requests'[e].target = m /\ requests'[e].conn = None
<1>1. CASE HasRow(e)
  BY <1>1 DEF Inbox
<1>2. CASE ~HasRow(e)
  <2> DEFINE row == InboxRow(n, m, source)
  <2>1. row \in PcfRow
    BY RowTypes
  <2>2. requests' = [requests EXCEPT ![e] = row]
    BY <1>2 DEF Inbox
  <2>3. requests'[e] = row
    BY <2>2 DEF Inv, TypeOK
  <2>4. /\ row.from = n /\ row.target = m /\ row.source = source /\ row.conn = None
        /\ row.status = "pending" /\ row.ids = None
    BY DEF InboxRow
  <2> HIDE DEF row
  <2>5. NewRow(e)
    BY <1>2, <2>1, <2>3, <2>4 DEF NewRow
  <2>6. Written(e)
    BY <2>2, <2>3 DEF Written
  <2> QED
    BY <2>3, <2>4, <2>5, <2>6
<1> QED
  BY <1>1, <1>2

LEMMA PostEffect ==
  ASSUME Inv, NEW h \in Slots, CreatePost(h)
  PROVE  \E e \in Events, p \in Pair :
           /\ asked[e] = None /\ ~HasRow(e)
           /\ asked' = [asked EXCEPT ![e] = p] /\ asked'[e] = p
           /\ \/ UNCHANGED requests
              \/ /\ Written(e) /\ NewRow(e)
                 /\ requests'[e].target \in live /\ requests'[e].conn = None
<1> DEFINE p == LinkOf[req[h].conn]
<1>1. p \in Pair /\ p.from \in Nodes /\ p.target \in Nodes
  <2>1. OfHandler(req[h])
    BY DEF Inv, InFlight
  <2> QED
    BY <2>1, LinkIsPair DEF CreatePost, At, OfHandler, Creating
<1>2. PICK e \in Events :
        /\ asked[e] = None /\ asked' = [asked EXCEPT ![e] = p]
        /\ requests' = IF p.target \in External THEN requests
                       ELSE Inbox(e, InboxRow(p.from, p.target, "node"))
  BY DEF CreatePost
<1>3. ~HasRow(e)
  BY <1>2 DEF Inv, RowsTrue, Matching
<1>4. asked'[e] = p /\ p # None
  BY <1>1, <1>2, LinksAssumption DEF Inv, TypeOK
<1>5. p.target \in live \cup External
  BY DEF CreatePost
<1>6. \/ UNCHANGED requests
      \/ /\ Written(e) /\ NewRow(e)
         /\ requests'[e].target \in live /\ requests'[e].conn = None
  <2>1. CASE p.target \in External
    BY <1>2, <2>1
  <2>2. CASE p.target \notin External
    <3> HIDE DEF p
    <3> QED
      BY <1>1, <1>2, <1>4, <1>5, <2>2, InboxEffect
  <2> QED
    BY <2>1, <2>2
<1> QED
  BY <1>1, <1>2, <1>3, <1>4, <1>6

LEMMA AskEffect ==
  ASSUME Inv, NEW x \in Nodes, NEW n \in Nodes, NEW e \in Events, ExternalAsk(x, n, e)
  PROVE  \E p \in Pair :
           /\ p.from = x /\ asked[e] \in {None, p}
           /\ asked' = [asked EXCEPT ![e] = p] /\ asked'[e] = p
           /\ \/ UNCHANGED requests
              \/ /\ Written(e) /\ NewRow(e)
                 /\ requests'[e].target \in live /\ requests'[e].conn = None
<1> DEFINE p == [from |-> x, target |-> n]
<1>1. p \in Pair /\ p.from = x /\ p.target = n /\ p # None
  BY LinksAssumption DEF Pair
<1>2. /\ asked[e] \in {None, p} /\ asked' = [asked EXCEPT ![e] = p] /\ n \in live
      /\ x \in External
  BY DEF ExternalAsk
<1>3. asked'[e] = p
  BY <1>2 DEF Inv, TypeOK
<1>4. PICK f \in {None} \cup Aliases : requests' = Inbox(e, InboxRow(f, n, "elsewhere"))
  BY DEF ExternalAsk, SourceNodes
<1>5. f \in Nodes \cup {None}
  BY NodesAssumption
<1> HIDE DEF p
<1>6. \/ UNCHANGED requests
      \/ /\ Written(e) /\ NewRow(e)
         /\ requests'[e].target \in live /\ requests'[e].conn = None
  BY <1>1, <1>2, <1>3, <1>4, <1>5, InboxEffect
<1> QED
  BY <1>1, <1>2, <1>3, <1>6

LEMMA InsertEffect ==
  ASSUME Inv, NEW h \in Slots, CreateInsert(h)
  PROVE  \/ UNCHANGED requests
         \/ \E e \in Events :
              /\ Written(e)
              /\ NewRow(e) \/ LinkedRow(e)
              /\ requests'[e].target \in live /\ Up(requests'[e].conn)
<1> DEFINE id == req[h].conn
           p  == LinkOf[id]
           e  == req[h].event
<1>1. id \in ConnIds /\ e \in Events /\ asked[e] = p
  <2>1. OfHandler(req[h])
    BY DEF Inv, InFlight
  <2> QED
    BY <2>1 DEF CreateInsert, At, OfHandler, Creating
<1>2. p \in Pair /\ p.from \in Nodes /\ p.target \in Nodes /\ p # None
  BY <1>1, LinkIsPair, LinksAssumption
<1>3. CASE ~OutboxKeysHold(p, id)
  BY <1>3 DEF CreateInsert
<1>4. CASE OutboxKeysHold(p, id) /\ HasRow(e)
  <2>1. requests[e] \in PcfRow /\ Matching(e)
    BY <1>1, <1>4 DEF HasRow, Inv, TypeOK, RowsTrue
  <2>2. requests' = [requests EXCEPT ![e] = [requests[e] EXCEPT !.conn = id]]
    BY <1>4 DEF CreateInsert, Outbox
  <2>3. requests'[e] = [requests[e] EXCEPT !.conn = id]
    BY <1>1, <2>2 DEF Inv, TypeOK
  <2>4. requests'[e] \in PcfRow
    BY <1>1, <2>1, <2>3 DEF PcfRow
  <2>5. /\ requests'[e].conn = id /\ SameParties(e)
        /\ requests'[e].status = requests[e].status
        /\ requests'[e].count = requests[e].count /\ requests'[e].ids = requests[e].ids
    BY <1>4, <2>1, <2>3, <2>4 DEF PcfRow, SameParties
  <2>6. LinkedRow(e)
    BY <1>1, <2>5 DEF LinkedRow
  <2>7. Written(e)
    BY <2>2, <2>3 DEF Written
  <2>8. requests'[e].target \in live
    BY <2>1, <2>5 DEF SameParties, Matching
  <2> QED
    BY <1>1, <1>4, <2>5, <2>6, <2>7, <2>8 DEF OutboxKeysHold
<1>5. CASE OutboxKeysHold(p, id) /\ ~HasRow(e)
  <2> DEFINE row == [InboxRow(p.from, p.target, None) EXCEPT !.conn = id]
  <2>1. row \in PcfRow
    BY <1>1, <1>2, RowTypes
  <2>2. requests' = [requests EXCEPT ![e] = row]
    BY <1>5 DEF CreateInsert, Outbox
  <2>3. requests'[e] = row
    BY <1>1, <2>2 DEF Inv, TypeOK
  <2>4. /\ row.from = p.from /\ row.target = p.target /\ row.source = None
        /\ row.source # "elsewhere"
        /\ row.conn = id /\ row.status = "pending" /\ row.ids = None
    BY RowsAssumption DEF InboxRow
  <2>6. asked'[e] = p
    BY <1>1 DEF CreateInsert, history
  <2> HIDE DEF row
  <2>7. NewRow(e)
    BY <1>1, <1>2, <1>5, <2>1, <2>3, <2>4, <2>6, RowsAssumption DEF NewRow
  <2>8. Written(e)
    BY <2>2, <2>3 DEF Written
  <2> QED
    BY <1>1, <1>5, <2>3, <2>4, <2>7, <2>8 DEF OutboxKeysHold
<1> QED
  BY <1>3, <1>4, <1>5

RowStep(e) == \/ requests'[e] = requests[e] \/ GoneRow(e)
              \/ NewRow(e) \/ LinkedRow(e) \/ SettledRow(e)

\* the foreign keys of a row, after a step
WellPlaced(e) ==
  requests'[e] # None => /\ requests'[e].target \in live'
                         /\ requests'[e].conn # None => link'[requests'[e].conn] = "up"

RowsMove == \A e \in Events : RowStep(e) /\ WellPlaced(e)

LEMMA NoRowMoves ==
  ASSUME Inv, UNCHANGED <<requests, live>>, \A id \in ConnIds : Up(id) => Up(id)'
  PROVE  RowsMove
<1> SUFFICES ASSUME NEW e \in Events PROVE WellPlaced(e)
  BY DEF RowsMove, RowStep
<1>1. requests[e] # None => /\ Matching(e) /\ requests[e].target \in live
                            /\ requests[e].conn \in ConnIds \cup {None}
  BY DEF Inv, RowsTrue, TypeOK, HasRow, PcfRow, Matching
<1> QED
  BY <1>1 DEF Matching, WellPlaced, Up

LEMMA OneRowMoves ==
  ASSUME Inv, UNCHANGED world, NEW e \in Events, Written(e),
         NewRow(e) \/ LinkedRow(e) \/ SettledRow(e),
         requests'[e].target \in live,
         requests'[e].conn # None => Up(requests'[e].conn)
  PROVE  RowsMove
<1> SUFFICES ASSUME NEW d \in Events PROVE RowStep(d) /\ WellPlaced(d)
  BY DEF RowsMove
<1>1. CASE d = e
  BY <1>1 DEF RowStep, WellPlaced, Up, world
<1>2. CASE d # e
  <2>1. requests'[d] = requests[d]
    BY <1>2 DEF Written, Inv, TypeOK
  <2>2. requests[d] # None => Matching(d)
    BY DEF Inv, RowsTrue, HasRow
  <2> QED
    BY <2>1, <2>2 DEF RowStep, WellPlaced, Matching, Up, world
<1> QED
  BY <1>1, <1>2

LEMMA SettledRowMoves ==
  ASSUME Inv, UNCHANGED world, NEW e \in Events, Written(e), SettledRow(e)
  PROVE  RowsMove
<1>1. Matching(e)
  BY DEF SettledRow, SameParties, Inv, RowsTrue
<1> QED
  BY <1>1, OneRowMoves DEF SettledRow, SameParties, Matching

LEMMA CascadeMoves ==
  ASSUME Inv, Manage
  PROVE  RowsMove
<1>1. CASE \E n \in Nodes : \/ \E P \in SUBSET Pfs : Import(n, P)
                            \/ \E pf \in Pfs : DeleteFootprint(n, pf)
  BY <1>1, NoRowMoves DEF Import, DeleteFootprint, world, Up
<1>2. ASSUME NEW id \in ConnIds, Connect(id) PROVE RowsMove
  <2>1. \A i \in ConnIds : Up(i) => Up(i)'
    BY <1>2 DEF Connect, Up, Inv, TypeOK
  <2> QED
    BY <1>2, <2>1, NoRowMoves DEF Connect
<1>3. ASSUME NEW e \in Events PROVE requests[e] # None => /\ Matching(e)
                                                         /\ requests[e].conn \in ConnIds \cup {None}
  BY DEF Inv, RowsTrue, TypeOK, HasRow, PcfRow
<1>4. ASSUME NEW id \in ConnIds, Disconnect(id) PROVE RowsMove
  <2> SUFFICES ASSUME NEW e \in Events PROVE RowStep(e) /\ WellPlaced(e)
    BY DEF RowsMove
  <2>1. /\ live' = live /\ link' = [link EXCEPT ![id] = "gone"]
        /\ requests' = CascadeAll({id}, {})
    BY <1>4 DEF Disconnect
  <2>2. requests'[e] = None \/ (requests'[e] = requests[e] /\ requests[e].conn # id)
        \/ (requests'[e] = requests[e] /\ requests[e] = None)
    BY <2>1 DEF CascadeAll, HasRow
  <2>3. \A i \in ConnIds \ {id} : Up(i) => Up(i)'
    BY <2>1 DEF Up, Inv, TypeOK
  <2> QED
    BY <1>3, <2>1, <2>2, <2>3 DEF RowStep, GoneRow, WellPlaced, Matching, Up
<1>5. ASSUME NEW n \in Nodes, DeleteNode(n) PROVE RowsMove
  <2> DEFINE cut == {id \in ConnIds : Up(id) /\ n \in {LinkOf[id].from, LinkOf[id].target}}
  <2> SUFFICES ASSUME NEW e \in Events PROVE RowStep(e) /\ WellPlaced(e)
    BY DEF RowsMove
  <2>1. /\ live' = live \ {n}
        /\ link' = [id \in ConnIds |-> IF id \in cut THEN "gone" ELSE link[id]]
        /\ requests' = CascadeAll(cut, {n})
    BY <1>5 DEF DeleteNode
  <2> HIDE DEF cut
  <2>2. \/ requests'[e] = None
        \/ /\ requests'[e] = requests[e]
           /\ requests[e] # None => requests[e].conn \notin cut /\ requests[e].target # n
    BY <2>1 DEF CascadeAll, HasRow
  <2>3. \A i \in ConnIds \ cut : Up(i) => Up(i)'
    BY <2>1 DEF Up
  <2> QED
    BY <1>3, <2>1, <2>2, <2>3 DEF RowStep, GoneRow, WellPlaced, Matching, Up
<1> QED
  BY <1>1, <1>2, <1>4, <1>5 DEF Manage

LEMMA RowSteps ==
  ASSUME Inv, [Next]_vars
  PROVE  RowsMove
<1>1. CASE UNCHANGED <<requests, live, link>>
  BY <1>1, NoRowMoves DEF Up
<1>2. ASSUME NEW h \in Slots, CreatePost(h) PROVE RowsMove
  <2>1. UNCHANGED world
    BY <1>2 DEF CreatePost
  <2>2. PICK e \in Events :
          \/ UNCHANGED requests
          \/ /\ Written(e) /\ NewRow(e)
             /\ requests'[e].target \in live /\ requests'[e].conn = None
    BY <1>2, PostEffect
  <2> QED
    BY <1>1, <2>1, <2>2, OneRowMoves DEF world
<1>3. ASSUME NEW h \in Slots, CreateInsert(h) PROVE RowsMove
  <2>1. UNCHANGED world
    BY <1>3 DEF CreateInsert
  <2>2. CASE UNCHANGED requests
    BY <1>1, <2>1, <2>2 DEF world
  <2>3. CASE \E e \in Events :
               /\ Written(e)
               /\ NewRow(e) \/ LinkedRow(e)
               /\ requests'[e].target \in live /\ Up(requests'[e].conn)
    BY <2>1, <2>3, OneRowMoves
  <2> QED
    BY <1>3, <2>2, <2>3, InsertEffect
<1>4. ASSUME NEW h \in Slots, Update(h) PROVE RowsMove
  <2>1. UNCHANGED world
    BY <1>4 DEF Update
  <2> QED
    BY <1>1, <1>4, <2>1, AnswerEffect, SettledRowMoves DEF world
<1>5. ASSUME NEW h \in Slots, JobUpdate(h) PROVE RowsMove
  <2>1. UNCHANGED world
    BY <1>5 DEF JobUpdate
  <2> QED
    BY <1>1, <1>5, <2>1, JobEffect, SettledRowMoves DEF world
<1>6. ASSUME NEW x \in Nodes, NEW n \in Nodes, NEW e \in Events, ExternalAsk(x, n, e)
      PROVE  RowsMove
  <2>1. UNCHANGED world
    BY <1>6 DEF ExternalAsk
  <2>2. \/ UNCHANGED requests
        \/ /\ Written(e) /\ NewRow(e)
           /\ requests'[e].target \in live /\ requests'[e].conn = None
    BY <1>6, AskEffect
  <2> QED
    BY <1>1, <2>1, <2>2, OneRowMoves DEF world
<1>7. ASSUME NEW h \in Slots, Begin(h) PROVE RowsMove
  BY <1>1, <1>7 DEF Begin, CreateBegin, FulfillBegin, RejectBegin, DecideBegin, world
<1>8. ASSUME NEW h \in Slots, Proceed(h) PROVE RowsMove
  BY <1>1, <1>2, <1>3, <1>4, <1>8 DEF Proceed, CreateAuth, CreatePostFails,
     Callback, Await, Check, Store, StoreFails, world
<1>9. ASSUME NEW h \in Slots, Serve(h) \/ Abandon(h) \/ JobDies(h) PROVE RowsMove
  BY <1>1, <1>5, <1>9 DEF Serve, JobStore, JobFails, Abandon, JobDies, world
<1>10. ASSUME NEW h \in Slots, NEW e \in Events, NEW s, NEW P, ExternalAnswer(h, e, s, P)
       PROVE  RowsMove
  BY <1>1, <1>10 DEF ExternalAnswer, world
<1>11. CASE Partner
  BY <1>6, <1>10, <1>11 DEF Partner
<1>12. CASE UNCHANGED vars
  BY <1>1, <1>12 DEF vars, world
<1> QED
  BY <1>7, <1>8, <1>9, <1>11, <1>12, CascadeMoves DEF Next

LEMMA RowsStep ==
  ASSUME Inv, [Next]_vars
  PROVE  RowsTrue'
<1> SUFFICES ASSUME NEW e \in Events, requests'[e] # None
             PROVE  Matching(e)' /\ Answered(e)'
  BY DEF RowsTrue, HasRow
<1>1. RowStep(e) /\ WellPlaced(e) /\ Grown
  BY RowSteps, HistoryGrows DEF RowsMove
<1>2. asked[e] # None => asked'[e] = asked[e]
  BY <1>1 DEF Grown
<1>3. offers[e] \subseteq offers'[e]
  BY <1>1 DEF Grown
<1>4. HasRow(e) => Matching(e) /\ Answered(e)
  BY DEF Inv, RowsTrue
<1>5. CASE requests'[e] = requests[e]
  BY <1>1, <1>2, <1>3, <1>4, <1>5 DEF HasRow, Matching, Answered, Asker, WellPlaced, Up
<1>6. CASE NewRow(e)
  BY <1>1, <1>6 DEF NewRow, Matching, Answered, Asker, WellPlaced, Up
<1>7. CASE LinkedRow(e)
  <2>1. Matching(e)'
    BY <1>1, <1>2, <1>4, <1>7 DEF LinkedRow, SameParties, Matching, Asker, WellPlaced, Up
  <2>2. Answered(e)'
    BY <1>3, <1>4, <1>7 DEF LinkedRow, SameParties, Answered
  <2> QED
    BY <2>1, <2>2
<1>8. CASE SettledRow(e)
  <2>1. Matching(e)'
    BY <1>1, <1>2, <1>4, <1>8 DEF SettledRow, SameParties, Matching, Asker, WellPlaced, Up
  <2>2. Answered(e)'
    BY <1>3, <1>4, <1>8 DEF SettledRow, SameParties, Answered
  <2> QED
    BY <2>1, <2>2
<1> QED
  BY <1>1, <1>5, <1>6, <1>7, <1>8 DEF RowStep, GoneRow

-----------------------------------------------------------------------------
(* Where an offer is until it arrives: with a handler whose row names the  *)
(* requester, or with a callback.                                          *)

HandlerCarries(h, e, pf) ==
  /\ req[h].step \in Answering
  /\ req[h].event = e /\ req[h].answer = "fulfilled"
  /\ req[h].row.from = asked[e].from
  /\ pf \in req[h].pfs

JobCarries(h, e, pf) == job[h] # None /\ job[h].event = e /\ pf \in job[h].pfs

Carries(h, e, pf) == HandlerCarries(h, e, pf) \/ JobCarries(h, e, pf)

\* the requester of e is served here, and exists
Owed(e) == asked[e] # None /\ asked[e].from \in Internal \cap live

Arriving(e) ==
  Owed(e) => \A pf \in UNION offers[e] : \/ pf \in received[asked[e].from]
                                         \/ \E h \in Slots : Carries(h, e, pf)

\* a callback that a handler awaits carries nothing the handler does not: the
\* handler makes up for it
Backed(h) ==
  /\ At(h, "callback") => (req[h].pfs # {} => req[h].answer = "fulfilled")
  /\ At(h, "await") /\ job[h] # None =>
       /\ job[h].event = req[h].event /\ job[h].pfs \subseteq req[h].pfs
       /\ job[h].pfs # {} => req[h].answer = "fulfilled"
       /\ req[h].row.from = asked[req[h].event].from

Backing == \A h \in Slots : Backed(h)

Delivery == \A e \in Events : /\ asked[e] = None => offers[e] = {}
                              /\ ~lost => Arriving(e)

\* Nothing is offered in answer to what nobody asked.
LEMMA OffersAreAnswers ==
  ASSUME Inv, [Next]_vars, NEW e \in Events,
         asked[e] = None => offers[e] = {}, asked'[e] = None
  PROVE  offers'[e] = {}
<1>0. asked[e] = None
  BY HistoryGrows DEF Grown
<1>1. CASE UNCHANGED offers
  BY <1>0, <1>1
<1>2. ASSUME NEW h \in Slots, NEW d \in Events, NEW s, NEW F, NEW found,
             DecideBegin(h, d, s, F, found)
      PROVE  offers'[e] = {}
  <2>1. asked[d] # None
    BY <1>2 DEF DecideBegin, Pending, Inv, RowsTrue, Matching
  <2> QED
    BY <1>0, <1>2, <2>1 DEF DecideBegin, Inv, TypeOK
<1>3. ASSUME NEW h \in Slots, NEW d \in Events, NEW s, NEW P, ExternalAnswer(h, d, s, P)
      PROVE  offers'[e] = {}
  BY <1>0, <1>3 DEF ExternalAnswer, Inv, TypeOK
<1>4. ASSUME NEW h \in Slots, Begin(h) PROVE offers'[e] = {}
  <2>1. ASSUME NEW id \in ConnIds, CreateBegin(h, id) PROVE UNCHANGED offers
    BY <2>1 DEF CreateBegin, history
  <2> QED
    BY <1>1, <1>2, <1>4, <2>1 DEF Begin, FulfillBegin, RejectBegin
<1>5. ASSUME NEW h \in Slots, Proceed(h) \/ Serve(h) \/ Abandon(h) \/ JobDies(h)
      PROVE  UNCHANGED offers
  BY <1>5 DEF Proceed, CreateAuth, CreatePost, CreatePostFails, CreateInsert, Callback,
     Await, Update, Check, Store, StoreFails, Serve, JobUpdate, JobStore, JobFails,
     Abandon, JobDies, history
<1>6. CASE Partner
  <2>1. ASSUME NEW x \in Nodes, NEW n \in Nodes, NEW d \in Events, ExternalAsk(x, n, d)
        PROVE  UNCHANGED offers
    BY <2>1 DEF ExternalAsk
  <2> QED
    BY <1>1, <1>3, <1>6, <2>1 DEF Partner
<1>7. CASE Manage \/ UNCHANGED vars
  BY <1>1, <1>7 DEF Manage, DeleteNode, Import, DeleteFootprint, Connect, Disconnect,
     history, vars
<1> QED
  BY <1>1, <1>4, <1>5, <1>6, <1>7 DEF Next

\* A step that takes nothing back: what was carried, and what it offers, is
\* carried or has arrived afterwards.
LEMMA ArrivingStays ==
  ASSUME Inv, NEW e \in Events, Arriving(e),
         asked'[e] = asked[e], live' \subseteq live,
         \A n \in Nodes : received[n] \subseteq received'[n],
         \A pf \in UNION offers'[e] :
            Owed(e)' => pf \in UNION offers[e] \/ \E h \in Slots : Carries(h, e, pf)',
         \A h \in Slots, pf \in UNION offers[e] :
            Owed(e)' /\ Carries(h, e, pf) => \/ pf \in received'[asked[e].from]
                                             \/ Carries(h, e, pf)'
  PROVE  Arriving(e)'
<1> SUFFICES ASSUME Owed(e)', NEW pf \in UNION offers'[e], pf \in UNION offers[e]
             PROVE  \/ pf \in received'[asked'[e].from]
                    \/ \E h \in Slots : Carries(h, e, pf)'
  BY DEF Arriving
<1>1. Owed(e) /\ asked[e].from \in Nodes
  BY DEF Owed, Inv, TypeOK, Pair
<1>2. CASE pf \in received[asked[e].from]
  BY <1>1, <1>2
<1>3. CASE \E h \in Slots : Carries(h, e, pf)
  BY <1>3
<1> QED
  BY <1>1, <1>2, <1>3 DEF Arriving

\* A step of one handler or of the callback beside it, that offers nothing.
LEMMA OneCarrier ==
  ASSUME Inv, NEW h \in Slots, NEW e \in Events, Arriving(e),
         UNCHANGED <<asked, offers, live>>,
         \A n \in Nodes : received[n] \subseteq received'[n],
         \A k \in Slots \ {h} : req'[k] = req[k] /\ job'[k] = job[k],
         \A pf \in UNION offers[e] :
            Owed(e) /\ Carries(h, e, pf) => \/ pf \in received'[asked[e].from]
                                            \/ Carries(h, e, pf)'
  PROVE  Arriving(e)'
<1>1. ASSUME NEW k \in Slots, k # h, NEW pf, Carries(k, e, pf)
      PROVE  Carries(k, e, pf)'
  BY <1>1 DEF Carries, HandlerCarries, JobCarries
<1>2. Owed(e)' => Owed(e)
  BY DEF Owed
<1>3. ASSUME NEW k \in Slots, NEW pf \in UNION offers[e], Owed(e)', Carries(k, e, pf)
      PROVE  pf \in received'[asked[e].from] \/ Carries(k, e, pf)'
  <2>1. CASE k = h
    BY <1>2, <1>3, <2>1
  <2>2. CASE k # h
    BY <1>1, <1>3, <2>2
  <2> QED
    BY <2>1, <2>2
<1> QED
  BY <1>3, ArrivingStays

\* A handler that is not answering carries nothing.
LEMMA CreatorsCarryNothing ==
  ASSUME Inv, NEW h \in Slots, NEW e \in Events, Arriving(e),
         req[h].step \notin Answering,
         \A k \in Slots \ {h} : req'[k] = req[k],
         UNCHANGED <<asked, offers, live, job, received>>
  PROVE  Arriving(e)'
<1>1. ASSUME NEW pf, Carries(h, e, pf) PROVE Carries(h, e, pf)'
  BY <1>1 DEF Carries, HandlerCarries, JobCarries
<1> QED
  BY <1>1, OneCarrier

\* A handler that only moves on, or ends when nothing is owed to its requester.
LEMMA CarrierMoves ==
  ASSUME Inv, NEW h \in Slots, NEW e \in Events, Arriving(e),
         UNCHANGED <<asked, offers, live, received>>,
         \A k \in Slots \ {h} : req'[k] = req[k] /\ job'[k] = job[k],
         job[h] = None \/ job'[h] = job[h],
         \/ \E s \in Answering : Goto(h, s)
         \/ \A pf \in UNION offers[e] : Owed(e) => ~HandlerCarries(h, e, pf)
  PROVE  Arriving(e)'
<1>1. ASSUME NEW pf \in UNION offers[e], Owed(e), HandlerCarries(h, e, pf)
      PROVE  HandlerCarries(h, e, pf)'
  <2>1. PICK s \in Answering : Goto(h, s)
    BY <1>1
  <2>2. req[h] \in Handler /\ req'[h] = [req[h] EXCEPT !.step = s]
    BY <2>1 DEF Goto, Inv, TypeOK
  <2>3. /\ req'[h].step = s /\ req'[h].event = req[h].event /\ req'[h].row = req[h].row
        /\ req'[h].answer = req[h].answer /\ req'[h].pfs = req[h].pfs
    BY <2>2 DEF Handler
  <2> QED
    BY <1>1, <2>3 DEF HandlerCarries
<1>2. ASSUME NEW pf, JobCarries(h, e, pf) PROVE JobCarries(h, e, pf)'
  BY <1>2 DEF JobCarries
<1>3. ASSUME NEW pf \in UNION offers[e], Owed(e), Carries(h, e, pf)
      PROVE  Carries(h, e, pf)'
  BY <1>1, <1>2, <1>3 DEF Carries
<1> QED
  BY <1>3, OneCarrier

\* One footprint written to the requester, and nothing else put down.
LEMMA CarrierWrites ==
  ASSUME Inv, NEW h \in Slots, NEW e \in Events, Arriving(e),
         NEW n, NEW pf \in Pfs, Write(n, pf), UNCHANGED <<asked, offers, live>>,
         \A k \in Slots \ {h} : req'[k] = req[k] /\ job'[k] = job[k],
         \A q \in UNION offers[e] :
            Owed(e) /\ Carries(h, e, q) => \/ q = pf /\ n = asked[e].from
                                           \/ Carries(h, e, q)'
  PROVE  Arriving(e)'
<1>1. n \in Nodes /\ received' = [received EXCEPT ![n] = received[n] \cup {pf}]
  BY DEF Write, Inv, TypeOK
<1>2. pf \in received'[n] /\ \A m \in Nodes : received[m] \subseteq received'[m]
  BY <1>1 DEF Inv, TypeOK
<1> QED
  BY <1>2, OneCarrier

LEMMA AnswersArrive ==
  ASSUME Inv, NEW h \in Slots, NEW e \in Events, Arriving(e),
         \/ Callback(h) \/ Await(h) \/ Update(h) \/ Check(h) \/ Store(h) \/ StoreFails(h)
  PROVE  Arriving(e)'
<1> DEFINE r == req[h]
<1>1. /\ r \in Handler /\ OfHandler(r) /\ r.step \in Answering
      /\ req \in [Slots -> Handler] /\ job \in [Slots -> Job \cup {None}]
  BY DEF Inv, InFlight, TypeOK, Callback, Await, Update, Check, Store, StoreFails, At, Answering
<1>2. /\ UNCHANGED <<asked, offers, live>>
      /\ \A k \in Slots \ {h} : req'[k] = req[k] /\ job'[k] = job[k]
  <2>1. UNCHANGED <<asked, offers, live>>
    BY DEF Callback, Await, Update, Check, Store, StoreFails, history, world
  <2>2. \A k \in Slots \ {h} : job'[k] = job[k]
    BY <1>1 DEF Callback, Await, Update, Check, Store, StoreFails
  <2>3. \A k \in Slots \ {h} : req'[k] = req[k]
    BY <1>1 DEF Callback, Await, Update, Check, Store, StoreFails, Goto, End
  <2> QED
    BY <2>1, <2>2, <2>3
<1>3. Owed(e) => asked[e].from # None /\ asked[e].from \in live
  BY NodesAssumption DEF Owed, Inv, TypeOK, Pair
<1>4. CASE Callback(h)
  <2>1. UNCHANGED received /\ (job[h] = None \/ job'[h] = job[h])
    BY <1>4 DEF Callback, history
  <2>2. Goto(h, "await") \/ Goto(h, "update")
    BY <1>4 DEF Callback
  <2> QED
    BY <1>2, <2>1, <2>2, CarrierMoves DEF Answering
<1>5. CASE Await(h)
  <2>1. UNCHANGED received /\ job'[h] = job[h] /\ Goto(h, "update")
    BY <1>5 DEF Await, history
  <2> QED
    BY <1>2, <2>1, CarrierMoves DEF Answering
<1>6. CASE Update(h)
  <2>1. UNCHANGED received /\ job'[h] = job[h]
    BY <1>6 DEF Update, history
  <2>2. \/ Goto(h, "check")
        \/ \A pf \in UNION offers[e] : Owed(e) => ~HandlerCarries(h, e, pf)
    BY <1>3, <1>6 DEF Update, HandlerCarries
  <2> QED
    BY <1>2, <2>1, <2>2, CarrierMoves DEF Answering
<1>7. CASE Check(h)
  <2>1. UNCHANGED received /\ job'[h] = job[h]
    BY <1>7 DEF Check, history
  <2>2. \/ Goto(h, "store")
        \/ \A pf \in UNION offers[e] : Owed(e) => ~HandlerCarries(h, e, pf)
    BY <1>3, <1>7 DEF Check, RequesterIsLocal, HandlerCarries
  <2> QED
    BY <1>2, <2>1, <2>2, CarrierMoves DEF Answering
<1>8. CASE StoreFails(h)
  <2>1. UNCHANGED received /\ job'[h] = job[h]
    BY <1>8 DEF StoreFails, history
  <2>2. \A pf \in UNION offers[e] : Owed(e) => ~HandlerCarries(h, e, pf)
    BY <1>3, <1>8 DEF StoreFails, HandlerCarries
  <2> QED
    BY <1>2, <2>1, <2>2, CarrierMoves
<1>9. CASE Store(h)
  <2>1. PICK pf \in r.pfs :
          /\ Write(r.row.from, pf)
          /\ IF r.pfs = {pf} THEN End(h) ELSE req' = [req EXCEPT ![h].pfs = @ \ {pf}]
    BY <1>9 DEF Store
  <2>2. pf \in Pfs /\ job'[h] = job[h]
    BY <1>1, <1>9, <2>1 DEF Handler, Store
  <2>3. ASSUME NEW q \in UNION offers[e], HandlerCarries(h, e, q), q # pf
        PROVE  HandlerCarries(h, e, q)'
    <3>1. req' = [req EXCEPT ![h].pfs = @ \ {pf}]
      BY <2>1, <2>3 DEF HandlerCarries
    <3>2. req'[h] = [r EXCEPT !.pfs = r.pfs \ {pf}]
      BY <1>1, <3>1
    <3>3. /\ req'[h].step = r.step /\ req'[h].event = r.event /\ req'[h].row = r.row
          /\ req'[h].answer = r.answer /\ req'[h].pfs = r.pfs \ {pf}
      BY <1>1, <3>2 DEF Handler
    <3> QED
      BY <1>2, <2>3, <3>3 DEF HandlerCarries
  <2>4. ASSUME NEW q, JobCarries(h, e, q) PROVE JobCarries(h, e, q)'
    BY <2>2, <2>4 DEF JobCarries
  <2>5. ASSUME NEW q \in UNION offers[e], Owed(e), Carries(h, e, q)
        PROVE  \/ q = pf /\ r.row.from = asked[e].from
               \/ Carries(h, e, q)'
    BY <2>3, <2>4, <2>5 DEF Carries, HandlerCarries
  <2> QED
    BY <1>2, <2>1, <2>2, <2>5, CarrierWrites
<1> QED
  BY <1>4, <1>5, <1>6, <1>7, <1>8, <1>9

LEMMA CallbacksArrive ==
  ASSUME Inv, NEW h \in Slots, NEW e \in Events, Arriving(e), Serve(h)
  PROVE  Arriving(e)'
<1> DEFINE j == job[h]
<1>1. /\ j # None /\ j \in Job /\ OfJob(j) /\ job \in [Slots -> Job \cup {None}]
  BY DEF Inv, InFlight, TypeOK, Serve, JobUpdate, JobStore, JobFails
<1>2. UNCHANGED <<asked, offers, live, req>>
  BY DEF Serve, JobUpdate, JobStore, JobFails, history, world
<1>3. \A k \in Slots \ {h} : req'[k] = req[k] /\ job'[k] = job[k]
  BY <1>1, <1>2 DEF Serve, JobUpdate, JobStore, JobFails
<1>4. ASSUME NEW q, HandlerCarries(h, e, q) PROVE HandlerCarries(h, e, q)'
  BY <1>2, <1>4 DEF HandlerCarries
<1>5. Owed(e) /\ j.event = e => asked[e].from \in live /\ j.to = asked[e].from
  BY <1>1 DEF Owed, OfJob
<1>6. CASE JobUpdate(h)
  <2>1. UNCHANGED received
    BY <1>6 DEF JobUpdate, history
  <2>2. ASSUME NEW q, JobCarries(h, e, q) PROVE JobCarries(h, e, q)'
    <3>1. j.pfs # {} /\ q \in j.pfs /\ j.event = e
      BY <2>2 DEF JobCarries
    <3>2. job'[h] = [j EXCEPT !.step = "store"]
      BY <1>1, <1>6, <3>1 DEF JobUpdate
    <3>3. job'[h] \in Job /\ job'[h].event = j.event /\ job'[h].pfs = j.pfs
      BY <1>1, <3>2 DEF Job
    <3> QED
      BY <3>1, <3>3, JobsAssumption DEF JobCarries
  <2>3. ASSUME NEW q, Carries(h, e, q) PROVE Carries(h, e, q)'
    BY <1>4, <2>2, <2>3 DEF Carries
  <2> QED
    BY <1>2, <1>3, <2>1, <2>3, OneCarrier
<1>7. CASE JobStore(h)
  <2>1. PICK pf \in j.pfs :
          /\ Write(j.to, pf)
          /\ job' = [job EXCEPT ![h] = IF j.pfs = {pf} THEN None
                                      ELSE [j EXCEPT !.pfs = @ \ {pf}]]
    BY <1>7 DEF JobStore
  <2>2. pf \in Pfs
    BY <1>1, <2>1 DEF Job
  <2>3. ASSUME NEW q, JobCarries(h, e, q), q # pf PROVE JobCarries(h, e, q)'
    <3>1. q \in j.pfs /\ j.pfs # {pf} /\ j.event = e
      BY <2>3 DEF JobCarries
    <3>2. job'[h] = [j EXCEPT !.pfs = j.pfs \ {pf}]
      BY <1>1, <2>1, <3>1
    <3>3. job'[h] \in Job /\ job'[h].event = j.event /\ job'[h].pfs = j.pfs \ {pf}
      BY <1>1, <3>2 DEF Job
    <3> QED
      BY <2>3, <3>1, <3>3, JobsAssumption DEF JobCarries
  <2>4. ASSUME NEW q \in UNION offers[e], Owed(e), Carries(h, e, q)
        PROVE  \/ q = pf /\ j.to = asked[e].from
               \/ Carries(h, e, q)'
    BY <1>4, <1>5, <2>3, <2>4 DEF Carries, JobCarries
  <2> QED
    BY <1>2, <1>3, <2>1, <2>2, <2>4, CarrierWrites
<1>8. CASE JobFails(h)
  <2>1. UNCHANGED received
    BY <1>8 DEF JobFails, history
  <2>2. ASSUME NEW q, Owed(e), Carries(h, e, q) PROVE Carries(h, e, q)'
    BY <1>4, <1>5, <1>8, <2>2 DEF Carries, JobCarries, JobFails
  <2> QED
    BY <1>2, <1>3, <2>1, <2>2, OneCarrier
<1> QED
  BY <1>6, <1>7, <1>8 DEF Serve

\* A decision that begins carries what it offers.
LEMMA DecisionCarries ==
  ASSUME Inv, NEW h \in Slots, NEW e \in Events, Arriving(e), NEW d \in Events,
         NEW s, NEW F, NEW found, DecideBegin(h, d, s, F, found)
  PROVE  Arriving(e)'
<1>1. req[h].step \notin Answering /\ UNCHANGED <<asked, live, job, received>>
  BY IdleFits DEF DecideBegin, Answering, world
<1>2. \A k \in Slots \ {h} : req'[k] = req[k]
  BY DEF DecideBegin, Inv, TypeOK
<1>3. ASSUME NEW k \in Slots, NEW pf, Carries(k, e, pf) PROVE Carries(k, e, pf)'
  BY <1>1, <1>2, <1>3 DEF Carries, HandlerCarries, JobCarries
<1>4. CASE offers' = offers
  BY <1>1, <1>3, <1>4, ArrivingStays
<1>5. CASE s = "fulfilled" /\ offers' = [offers EXCEPT ![d] = @ \cup {found}]
  <2>1. CASE e # d
    <3>1. offers'[e] = offers[e]
      BY <1>5, <2>1 DEF Inv, TypeOK
    <3> QED
      BY <1>1, <1>3, <3>1, ArrivingStays
  <2>2. CASE e = d
    <3>1. offers'[e] = offers[e] \cup {found}
      BY <1>5, <2>2 DEF Inv, TypeOK
    <3>2. /\ req'[h].step \in {"update", "callback"} /\ req'[h].event = e
          /\ req'[h].row = requests[e] /\ req'[h].answer = s /\ req'[h].pfs = found
      BY <2>2 DEF DecideBegin, Inv, TypeOK
    <3>3. HasRow(e) /\ Matching(e)
      BY <2>2 DEF DecideBegin, Pending, Inv, RowsTrue
    <3>4. Owed(e)' => requests[e].from = asked[e].from
      BY <1>1, <3>3 DEF Owed, Matching, Asker, Internal
    <3>5. ASSUME NEW pf \in found, Owed(e)' PROVE Carries(h, e, pf)'
      BY <1>1, <1>5, <3>2, <3>4, <3>5 DEF Carries, HandlerCarries, Answering
    <3>6. \A pf \in UNION offers'[e] :
            Owed(e)' => pf \in UNION offers[e] \/ \E k \in Slots : Carries(k, e, pf)'
      BY <3>1, <3>5
    <3> QED
      BY <1>1, <1>3, <3>6, ArrivingStays
  <2> QED
    BY <2>1, <2>2
<1> QED
  BY <1>4, <1>5 DEF DecideBegin

\* So does the callback of a partner that answers.
LEMMA PartnerCarries ==
  ASSUME Inv, NEW h \in Slots, NEW e \in Events, Arriving(e), NEW d \in Events,
         NEW s \in Verdicts, NEW P \in SUBSET Pfs, ExternalAnswer(h, d, s, P)
  PROVE  Arriving(e)'
<1>1. job[h] = None /\ UNCHANGED <<asked, live, req, received>>
  BY DEF ExternalAnswer, world
<1>2. job' = [job EXCEPT ![h] = [step |-> "update", event |-> d, to |-> asked[d].from,
                                 answer |-> s, pfs |-> P]]
  BY DEF ExternalAnswer
<1>3. ASSUME NEW k \in Slots, NEW pf, Carries(k, e, pf) PROVE Carries(k, e, pf)'
  <2>1. JobCarries(k, e, pf) => job'[k] = job[k]
    BY <1>1, <1>2 DEF JobCarries, Inv, TypeOK
  <2> QED
    BY <1>1, <1>3, <2>1 DEF Carries, HandlerCarries, JobCarries
<1>4. CASE offers' = offers
  BY <1>1, <1>3, <1>4, ArrivingStays
<1>5. CASE offers' = [offers EXCEPT ![d] = @ \cup {P}]
  <2>1. CASE e # d
    <3>1. offers'[e] = offers[e]
      BY <1>5, <2>1 DEF Inv, TypeOK
    <3> QED
      BY <1>1, <1>3, <3>1, ArrivingStays
  <2>2. CASE e = d
    <3>1. offers'[e] = offers[e] \cup {P}
      BY <1>5, <2>2 DEF Inv, TypeOK
    <3>2. job'[h].event = e /\ job'[h].pfs = P
      BY <1>2, <2>2 DEF Inv, TypeOK
    <3>3. job'[h] # None
      <4>1. asked[d].from \in Nodes
        BY DEF ExternalAnswer, Inv, TypeOK, Pair
      <4>2. [step |-> "update", event |-> d, to |-> asked[d].from, answer |-> s, pfs |-> P]
              \in Job
        BY <4>1 DEF Job
      <4> QED
        BY <1>2, <4>2, JobsAssumption DEF Inv, TypeOK
    <3>4. ASSUME NEW pf \in P PROVE Carries(h, e, pf)'
      BY <3>2, <3>3, <3>4 DEF Carries, JobCarries
    <3> QED
      BY <1>1, <1>3, <3>1, <3>4, ArrivingStays
  <2> QED
    BY <2>1, <2>2
<1> QED
  BY <1>4, <1>5 DEF ExternalAnswer

\* A callback that dies while its handler awaits it.
LEMMA LossMadeUpFor ==
  ASSUME Inv, NEW h \in Slots, NEW e \in Events, Arriving(e), Backed(h),
         JobDies(h), At(h, "await")
  PROVE  Arriving(e)'
<1>1. /\ job[h] # None /\ UNCHANGED <<asked, offers, live, req, received>>
      /\ \A k \in Slots \ {h} : req'[k] = req[k] /\ job'[k] = job[k]
  BY DEF JobDies, world, Inv, TypeOK
<1>2. ASSUME NEW pf, HandlerCarries(h, e, pf) PROVE HandlerCarries(h, e, pf)'
  BY <1>1, <1>2 DEF HandlerCarries
<1>3. ASSUME NEW pf, JobCarries(h, e, pf) PROVE HandlerCarries(h, e, pf)
  BY <1>3 DEF JobCarries, HandlerCarries, Backed, At, Answering
<1>4. ASSUME NEW pf, Carries(h, e, pf) PROVE Carries(h, e, pf)'
  BY <1>2, <1>3, <1>4 DEF Carries
<1> QED
  BY <1>1, <1>4, OneCarrier

\* A new question leaves the others alone, and nothing is owed to it yet.
LEMMA QuestionsCarryNothing ==
  ASSUME Inv, NEW e \in Events, Arriving(e), asked[e] = None => offers[e] = {},
         asked[e] # None => asked'[e] = asked[e],
         UNCHANGED <<offers, live, received, job>>,
         \A h \in Slots : req'[h] = req[h] \/ (req[h].step \notin Answering)
  PROVE  Arriving(e)'
<1>1. CASE asked[e] = None
  BY <1>1 DEF Arriving
<1>2. CASE asked[e] # None
  <2>1. asked'[e] = asked[e]
    BY <1>2
  <2>2. ASSUME NEW h \in Slots, NEW pf, Carries(h, e, pf) PROVE Carries(h, e, pf)'
    BY <2>1, <2>2 DEF Carries, HandlerCarries, JobCarries
  <2> QED
    BY <2>1, <2>2, ArrivingStays
<1> QED
  BY <1>1, <1>2

LEMMA ArrivingStep ==
  ASSUME Inv, Delivery, Backing, [Next]_vars, ~lost, ~lost', NEW e \in Events
  PROVE  Arriving(e)'
<1>1. Arriving(e) /\ (asked[e] = None => offers[e] = {})
  BY DEF Delivery
<1>2. ASSUME UNCHANGED <<asked, offers, received, req, job>>, live' \subseteq live
      PROVE  Arriving(e)'
  BY <1>1, <1>2, ArrivingStays DEF Carries, HandlerCarries, JobCarries
<1>3. ASSUME NEW h \in Slots, Begin(h) PROVE Arriving(e)'
  <2>1. ASSUME NEW id \in ConnIds, CreateBegin(h, id) PROVE Arriving(e)'
    <3>1. /\ req[h].step \notin Answering /\ UNCHANGED <<asked, offers, live, job, received>>
          /\ \A k \in Slots \ {h} : req'[k] = req[k]
      BY <2>1, IdleFits DEF CreateBegin, Answering, history, world, Inv, TypeOK
    <3> QED
      BY <1>1, <3>1, CreatorsCarryNothing
  <2> QED
    BY <1>1, <1>3, <2>1, DecisionCarries DEF Begin, FulfillBegin, RejectBegin
<1>4. ASSUME NEW h \in Slots, CreateAuth(h) \/ CreatePostFails(h) \/ CreateInsert(h)
      PROVE  Arriving(e)'
  <2>1. /\ req[h].step \notin Answering /\ UNCHANGED <<asked, offers, live, job, received>>
        /\ \A k \in Slots \ {h} : req'[k] = req[k]
    BY <1>4 DEF CreateAuth, CreatePostFails, CreateInsert, At, Goto, End, Answering,
       history, world, Inv, TypeOK
  <2> QED
    BY <1>1, <2>1, CreatorsCarryNothing
<1>5. ASSUME NEW h \in Slots, CreatePost(h) PROVE Arriving(e)'
  <2>1. PICK d \in Events :
          /\ asked[d] = None /\ asked' = [asked EXCEPT ![d] = LinkOf[req[h].conn]]
          /\ req' = [req EXCEPT ![h].step = "create.insert", ![h].event = d]
    BY <1>5 DEF CreatePost
  <2>2. /\ UNCHANGED <<offers, live, received, job>>
        /\ \A k \in Slots : req'[k] = req[k] \/ req[k].step \notin Answering
    BY <1>5, <2>1 DEF CreatePost, At, Answering, world, Inv, TypeOK
  <2>3. asked[e] # None => asked'[e] = asked[e]
    BY <2>1 DEF Inv, TypeOK
  <2> QED
    BY <1>1, <2>2, <2>3, QuestionsCarryNothing
<1>6. ASSUME NEW h \in Slots, Proceed(h) PROVE Arriving(e)'
  BY <1>1, <1>4, <1>5, <1>6, AnswersArrive DEF Proceed
<1>7. ASSUME NEW h \in Slots, Abandon(h) \/ JobDies(h) PROVE Arriving(e)'
  <2>1. JobDies(h) /\ At(h, "await")
    BY <1>7 DEF Abandon, JobDies
  <2> QED
    BY <1>1, <2>1, LossMadeUpFor DEF Backing
<1>8. CASE Partner
  <2>1. ASSUME NEW x \in Nodes, NEW n \in Nodes, NEW d \in Events, ExternalAsk(x, n, d)
        PROVE  Arriving(e)'
    <3>1. UNCHANGED <<offers, live, received, job, req>>
      BY <2>1 DEF ExternalAsk, world
    <3>2. asked[e] # None => asked'[e] = asked[e]
      BY <2>1 DEF ExternalAsk, Inv, TypeOK
    <3> QED
      BY <1>1, <3>1, <3>2, QuestionsCarryNothing
  <2> QED
    BY <1>1, <1>8, <2>1, PartnerCarries DEF Partner, Verdicts, Status
<1>9. CASE Manage
  BY <1>2, <1>9 DEF Manage, DeleteNode, Import, DeleteFootprint, Connect, Disconnect,
     history, world
<1>10. CASE UNCHANGED vars
  BY <1>2, <1>10 DEF vars, history
<1> QED
  BY <1>1, <1>3, <1>6, <1>7, <1>8, <1>9, <1>10, CallbacksArrive DEF Next

\* What is lost stays lost.
LEMMA LossIsForEver ==
  ASSUME [Next]_vars, lost
  PROVE  lost'
<1>1. CASE UNCHANGED lost
  BY <1>1, Zenon
<1>2. ASSUME NEW h \in Slots, Abandon(h) \/ JobDies(h) PROVE lost'
  BY <1>2, Zenon DEF Abandon, JobDies
<1>3. ASSUME NEW h \in Slots, Begin(h) \/ Proceed(h) \/ Serve(h) PROVE UNCHANGED lost
  BY <1>3 DEF Begin, CreateBegin, FulfillBegin, RejectBegin, DecideBegin, Proceed,
     CreateAuth, CreatePost, CreatePostFails, CreateInsert, Callback, Await, Update,
     Check, Store, StoreFails, Serve, JobUpdate, JobStore, JobFails, history
<1>4. CASE Partner \/ Manage \/ UNCHANGED vars
  BY <1>1, <1>4 DEF Partner, ExternalAsk, ExternalAnswer, Manage, DeleteNode, Import,
     DeleteFootprint, Connect, Disconnect, history, vars
<1> QED
  BY <1>1, <1>2, <1>3, <1>4 DEF Next

\* What a handler and its callback carry stays together.
LEMMA BackedStep ==
  ASSUME Inv, [Next]_vars, NEW h \in Slots, Backed(h)
  PROVE  Backed(h)'
<1>1. /\ req \in [Slots -> Handler] /\ job \in [Slots -> Job \cup {None}]
      /\ OfHandler(req[h]) /\ Grown
  BY HistoryGrows DEF Inv, InFlight, TypeOK
<1>2. ASSUME req'[h] = req[h], job'[h] \in {job[h], None} PROVE Backed(h)'
  <2>1. At(h, "await") => asked'[req[h].event] = asked[req[h].event]
    BY <1>1 DEF At, OfHandler, Answering, Grown
  <2> QED
    BY <1>2, <2>1 DEF Backed, At
<1>3. ASSUME ~At(h, "callback")', ~At(h, "await")' PROVE Backed(h)'
  BY <1>3 DEF Backed
<1>4. ASSUME NEW k \in Slots, Begin(k) \/ Proceed(k) \/ Abandon(k)
      PROVE  Backed(h)'
  <2>1. CASE k # h
    <3>1. req'[h] = req[h] /\ job'[h] = job[h]
      BY <1>1, <1>4, <2>1 DEF Begin, CreateBegin, FulfillBegin, RejectBegin, DecideBegin,
         Proceed, CreateAuth, CreatePost, CreatePostFails, CreateInsert, Callback, Await,
         Update, Check, Store, StoreFails, Abandon, Goto, End
    <3> QED
      BY <1>2, <3>1
  <2>2. CASE k = h
    <3>1. ASSUME NEW e \in Events, NEW s, NEW F, NEW found, DecideBegin(h, e, s, F, found),
                 found # {} => s = "fulfilled"
          PROVE  Backed(h)'
      <4>1. /\ req'[h].step \in {"update", "callback"}
            /\ req'[h].answer = s /\ req'[h].pfs = found
        BY <1>1, <3>1 DEF DecideBegin
      <4> QED
        BY <3>1, <4>1 DEF Backed, At
    <3>2. CASE Begin(h)
      <4>1. ASSUME NEW id \in ConnIds, CreateBegin(h, id) PROVE Backed(h)'
        <5>1. req'[h].step = "create.auth"
          BY <1>1, <4>1 DEF CreateBegin, Idle
        <5> QED
          BY <1>3, <5>1 DEF At
      <4> QED
        BY <3>1, <3>2, <4>1 DEF Begin, FulfillBegin, RejectBegin
    <3>3. CASE Callback(h)
      <4> DEFINE r == req[h]
      <4>1. CASE Admitted(r.row)
        <5>1. job' = [job EXCEPT ![h] = [step |-> "update", event |-> r.event,
                        to |-> r.row.from, answer |-> r.answer, pfs |-> r.pfs]]
          BY <3>3, <4>1 DEF Callback
        <5>2. job'[h].event = r.event /\ job'[h].pfs = r.pfs
          BY <1>1, <5>1
        <5>3. req' = [req EXCEPT ![h].step = "await"]
          BY <3>3, <4>1 DEF Callback, Goto
        <5>4. /\ req'[h].step = "await" /\ req'[h].event = r.event /\ req'[h].row = r.row
              /\ req'[h].answer = r.answer /\ req'[h].pfs = r.pfs
          BY <1>1, <5>3 DEF Handler
        <5>5. r.row.from = asked[r.event].from /\ asked' = asked
          BY <1>1, <3>3, <4>1 DEF Callback, At, OfHandler, Answering, Asker, Admitted, history
        <5>6. r.pfs # {} => r.answer = "fulfilled"
          BY <3>3 DEF Callback, Backed
        <5> QED
          BY <5>2, <5>4, <5>5, <5>6 DEF Backed, At
      <4>2. CASE ~Admitted(r.row)
        <5>1. req'[h].step = "update"
          BY <1>1, <3>3, <4>2 DEF Callback, Goto, Handler
        <5> QED
          BY <1>3, <5>1 DEF At
      <4> QED
        BY <4>1, <4>2
    <3>4. CASE Proceed(h) /\ ~Callback(h)
      <4>1. req'[h].step \in {"create.post", "create.insert", "update", "check", "store", "idle"}
        <5>1. ASSUME End(h) PROVE req'[h].step = "idle"
          BY <1>1, <5>1, IdleFits DEF End
        <5>2. ASSUME NEW s \in Steps, Goto(h, s) PROVE req'[h].step = s
          BY <1>1, <5>2 DEF Goto, Handler
        <5>3. ASSUME CreatePost(h) PROVE req'[h].step = "create.insert"
          BY <1>1, <5>3 DEF CreatePost, Handler
        <5>4. ASSUME Store(h) PROVE req'[h].step \in {"store", "idle"}
          <6>1. PICK pf \in req[h].pfs :
                  IF req[h].pfs = {pf} THEN End(h) ELSE req' = [req EXCEPT ![h].pfs = @ \ {pf}]
            BY <5>4 DEF Store
          <6> QED
            BY <1>1, <5>1, <5>4, <6>1 DEF Store, At, Handler
        <5> QED
          BY <3>4, <5>1, <5>2, <5>3, <5>4 DEF Proceed, CreateAuth, CreatePostFails,
             CreateInsert, Await, Update, Check, StoreFails, Steps
      <4> QED
        BY <1>3, <4>1 DEF At
    <3>5. CASE Abandon(h)
      <4>1. req'[h].step = "idle"
        BY <1>1, <3>5, IdleFits DEF Abandon, End
      <4> QED
        BY <1>3, <4>1 DEF At
    <3> QED
      BY <1>4, <2>2, <3>2, <3>3, <3>4, <3>5
  <2> QED
    BY <2>1, <2>2
<1>5. ASSUME NEW k \in Slots, Serve(k) \/ JobDies(k) PROVE Backed(h)'
  <2>1. req' = req
    BY <1>5 DEF Serve, JobUpdate, JobStore, JobFails, JobDies
  <2>2. job'[h] # None => /\ job[h] # None /\ job'[h].event = job[h].event
                          /\ job'[h].pfs \subseteq job[h].pfs
    BY <1>1, <1>5 DEF Serve, JobUpdate, JobStore, JobFails, JobDies, Job
  <2>3. At(h, "await") => asked'[req[h].event] = asked[req[h].event]
    BY <1>1 DEF At, OfHandler, Answering, Grown
  <2> QED
    BY <2>1, <2>2, <2>3 DEF Backed, At
<1>6. CASE Partner
  <2>1. req' = req
    BY <1>6 DEF Partner, ExternalAsk, ExternalAnswer
  <2>2. \/ job'[h] = job[h]
        \/ ~At(h, "callback") /\ ~At(h, "await")
    BY <1>1, <1>6 DEF Partner, ExternalAsk, ExternalAnswer
  <2> QED
    BY <1>2, <1>3, <2>1, <2>2 DEF At
<1>7. CASE Manage \/ UNCHANGED vars
  BY <1>2, <1>7 DEF Manage, DeleteNode, Import, DeleteFootprint, Connect, Disconnect, vars
<1> QED
  BY <1>4, <1>5, <1>6, <1>7 DEF Next

LEMMA DeliveryStep ==
  ASSUME Inv, Delivery, Backing, [Next]_vars
  PROVE  Delivery'
<1> SUFFICES ASSUME NEW e \in Events
             PROVE  /\ asked'[e] = None => offers'[e] = {}
                    /\ ~lost' => Arriving(e)'
  BY Zenon DEF Delivery
<1>1. asked'[e] = None => offers'[e] = {}
  BY OffersAreAnswers DEF Delivery
<1>2. ~lost' => ~lost
  BY LossIsForEver, Zenon
<1>3. ~lost' => Arriving(e)'
  BY <1>2, ArrivingStep, Zenon
<1> QED
  BY <1>1, <1>3, Zenon

-----------------------------------------------------------------------------
(* The theorems.                                                           *)

LEMMA InvInit == Init => Inv
<1> SUFFICES ASSUME Init PROVE Inv
  OBVIOUS
<1>1. TypeOK
  BY IdleFits DEF Init, TypeOK
<1>2. InFlight
  BY IdleFits DEF Init, InFlight, OfJob
<1>3. RowsTrue
  BY DEF Init, RowsTrue, HasRow
<1> QED
  BY <1>1, <1>2, <1>3 DEF Inv

\* What handlers in flight rely on, and what rows show, is kept by every step
\* of the handlers, the callbacks, the partners and the managers.
THEOREM ExchangeInvariance == Spec => []Inv
<1>1. Inv /\ [Next]_vars => Inv'
  BY TypeStep, InFlightStep, RowsStep DEF Inv
<1> QED
  BY InvInit, <1>1, PTL DEF Spec

\* Rows, handlers, callbacks and histories keep their types.
THEOREM ExchangeTypeCorrect == Spec => []TypeOK
<1>1. Inv => TypeOK
  BY DEF Inv
<1> QED
  BY ExchangeInvariance, <1>1, PTL

\* A row tells who asked whom, in whatever order its two writers come, and
\* goes with its connection and its target.
THEOREM RowsTellWhoAsked == Spec => []RowsMatchAsk
<1>1. Inv => RowsMatchAsk
  BY DEF Inv, RowsTrue, Matching, Asker, RowsMatchAsk
<1> QED
  BY ExchangeInvariance, <1>1, PTL

\* A fulfilled row shows an answer really given, however the direct write,
\* the callback and second answers interleave.
THEOREM AnswersAreOnRecord == Spec => []AnswerOnRecord
<1>1. Inv => AnswerOnRecord
  BY DEF Inv, RowsTrue, Answered, AnswerOnRecord
<1> QED
  BY ExchangeInvariance, <1>1, PTL

\* The callback address of a row never changes.
THEOREM SourcesAreKept == Spec => SourceKept
<1>1. Inv /\ [Next]_vars =>
        [\A e \in Events :
           HasRow(e) /\ requests'[e] # None
             => requests'[e].source = requests[e].source]_vars
  <2> SUFFICES ASSUME Inv, [Next]_vars, NEW e \in Events, HasRow(e), requests'[e] # None
               PROVE  requests'[e].source = requests[e].source
    OBVIOUS
  <2> QED
    BY RowSteps DEF RowsMove, RowStep, GoneRow, NewRow, LinkedRow, SettledRow, SameParties
<1> QED
  BY ExchangeInvariance, <1>1, PTL DEF Spec, SourceKept

\* As long as no handler dies, nor a callback that none awaits, what was
\* offered to a local requester is in its records once the handlers are done,
\* whatever else goes on: until it arrives there is always a handler, or a
\* callback, that has yet to write it.
THEOREM OffersDoArrive == Spec => []OffersArrive
<1>1. Init => Delivery /\ Backing
  <2> SUFFICES ASSUME Init PROVE Delivery /\ Backing
    OBVIOUS
  <2>1. ASSUME NEW e \in Events PROVE asked[e] = None /\ offers[e] = {}
    BY DEF Init
  <2>2. ASSUME NEW h \in Slots PROVE Backed(h)
    BY IdleFits DEF Init, Backed, At
  <2> QED
    BY <2>1, <2>2 DEF Delivery, Backing, Arriving, Owed
<1>2. Inv /\ Delivery /\ Backing /\ [Next]_vars => Delivery' /\ Backing'
  BY DeliveryStep, BackedStep DEF Backing
<1>3. Delivery => OffersArrive
  <2> SUFFICES ASSUME Delivery, NEW e \in Events, ~lost, asked[e] # None, ~Busy(e),
                      asked[e].from \in Internal \cap live, NEW pf \in UNION offers[e]
               PROVE  pf \in received[asked[e].from]
    BY DEF OffersArrive
  <2>1. \A h \in Slots : ~Carries(h, e, pf)
    BY DEF Busy, Carries, HandlerCarries, JobCarries
  <2> QED
    BY <2>1 DEF Delivery, Arriving, Owed
<1> QED
  BY ExchangeInvariance, <1>1, <1>2, <1>3, PTL DEF Spec
=============================================================================
