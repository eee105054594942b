----------------------------- MODULE PcfExchange -----------------------------
(***************************************************************************)
(* Requests for product carbon footprints (PCFs) between nodes: the        *)
(* pcf_requests and product_footprints tables, the dashboard handlers that *)
(* create, fulfil and reject a request (pcf-request-service.ts), the       *)
(* events endpoint of internal nodes (internal-node-pact-service.ts) and   *)
(* the footprint records (footprint-service.ts).                           *)
(*                                                                         *)
(* A request travels as HTTP calls between nodes, some of which this same  *)
(* server answers.  The two sides of a call are two processes: req[h] is   *)
(* the dashboard handler in slot h, job[h] the event handler that serves   *)
(* the callback it posted, or one an external partner posted.  One row,    *)
(* keyed by the unique id of the RequestCreated event, is shared by both   *)
(* ends of a request between local nodes.                                  *)
(*                                                                         *)
(* Left out: the filters of a request, who may use which dashboard         *)
(* (NodeConnections has the same checks), and the payload of a footprint   *)
(* beyond its id.  External partners are modelled from the calls the       *)
(* server makes to and expects of them, and answer only what they were     *)
(* asked.                                                                  *)
(***************************************************************************)
EXTENDS FiniteSets, Naturals

CONSTANTS Nodes,          \* node ids
          External,       \* those whose API is served elsewhere
          ConnIds,        \* connection ids
          LinkOf,         \* the pair of nodes each of them joins
          Events,         \* ids of RequestCreated events
          Pfs,            \* footprint ids
          Slots,          \* bound: handlers in flight at the same time
          Authors,        \* bound: the nodes that edit footprints of their own
          Aliases,        \* nodes whose id another directory uses for a node of its own
          None            \* SQL null, absent

Pair == [from : Nodes, target : Nodes]

ASSUME NodesAssumption == /\ External \subseteq Nodes /\ None \notin Nodes
                          /\ Aliases \subseteq Nodes
ASSUME LinksAssumption == LinkOf \in [ConnIds -> Pair] /\ None \notin ConnIds \cup Pair
ASSUME EventsAssumption == None \notin Events /\ IsFiniteSet(Pfs)

VARIABLES live,       \* the nodes that exist
          link,       \* "unborn", "up" (accepted) or "gone", for each connection id
          requests,   \* the pcf_requests table: event id -> row, or None
          records,    \* the product_footprints table: node -> footprint ids
          req,        \* dashboard handlers in flight
          job,        \* event handlers in flight
          asked,      \* history: event id -> who asked whom, or None
          offers,     \* history: event id -> the sets of footprints offered in answer
          verdict,    \* history: event id -> what an external target answered, or None
          received,   \* history: node -> the footprints the exchange ever wrote to it
          lost        \* history: has a handler died, or a callback no handler awaits?

history == <<asked, offers, verdict, received, lost>>
world   == <<live, link>>
vars    == <<live, link, requests, records, req, job, history>>

Status == {"pending", "fulfilled", "rejected"}

PcfRow == [from : Nodes \cup {None}, target : Nodes, conn : ConnIds \cup {None},
           source : {"node", "elsewhere", None}, status : Status,
           count : Nat \cup {None}, ids : (SUBSET Pfs) \cup {None}]

ASSUME RowsAssumption == None \notin PcfRow \cup Status \cup {"node", "elsewhere"}

Verdicts == Status \ {"pending"}

Steps == {"idle", "create.auth", "create.post", "create.insert",
          "callback", "await", "update", "check", "store"}

Handler == [step : Steps, event : Events \cup {None}, conn : ConnIds \cup {None},
            row : PcfRow \cup {None}, answer : Verdicts \cup {None},
            ids : SUBSET Pfs, pfs : SUBSET Pfs]

Idle == [step |-> "idle", event |-> None, conn |-> None, row |-> None,
         answer |-> None, ids |-> {}, pfs |-> {}]

Job == [step : {"update", "store"}, event : Events, to : Nodes, answer : Verdicts,
        pfs : SUBSET Pfs]

ASSUME JobsAssumption == None \notin Job

Internal == Nodes \ External

-----------------------------------------------------------------------------
(* The tables.                                                             *)

Up(id)       == link[id] = "up"
Linked(n, m) == \E id \in ConnIds : Up(id) /\ LinkOf[id] = [from |-> n, target |-> m]

\* a token issued over a connection is good for an hour, removed or not
HasToken(n, m) ==
  \E id \in ConnIds : link[id] # "unborn" /\ LinkOf[id] = [from |-> n, target |-> m]

HasRow(e)  == requests[e] # None

\* faulty variant: the status is not part of the WHERE clause
Found(e)   == HasRow(e)

Pending(e) == HasRow(e) /\ requests[e].status = "pending"

\* INSERT INTO product_footprints ... ON CONFLICT (id, node_id) DO UPDATE
Stored(n, pf) == [records EXCEPT ![n] = @ \cup {pf}]

\* faulty variant: ON DELETE SET NULL
CascadeSetsNull(ids, nodes) ==
  [e \in Events |-> IF HasRow(e) /\ requests[e].target \in nodes
                    THEN [requests[e] EXCEPT !.target = None] ELSE requests[e]]

\* the rows that go with a set of connections and a set of nodes
CascadeAll(ids, nodes) ==
  [e \in Events |-> IF HasRow(e) /\ (requests[e].conn \in ids \/ requests[e].target \in nodes)
                    THEN None ELSE requests[e]]

-----------------------------------------------------------------------------
(* Where a handler is.                                                     *)

At(h, s)   == req[h].step = s
Goto(h, s) == req' = [req EXCEPT ![h].step = s]
End(h)     == req' = [req EXCEPT ![h] = Idle]

-----------------------------------------------------------------------------
(* create: read the connection, post RequestCreated to the target, then    *)
(* record the outgoing request.                                            *)

CreateBegin(h, id) ==
  /\ req[h] = Idle
  /\ Up(id)
  /\ req' = [req EXCEPT ![h] = [Idle EXCEPT !.step = "create.auth", !.conn = id]]
  /\ UNCHANGED <<world, requests, records, job, history>>

\* a token from the target's token endpoint, which reads the connection
\* again; an external one decides for itself
CreateAuth(h) ==
  LET id == req[h].conn
  IN /\ At(h, "create.auth")
     /\ \/ (Up(id) \/ LinkOf[id].target \in External) /\ Goto(h, "create.post")
        \/ (~Up(id) \/ LinkOf[id].target \in External) /\ End(h)
     /\ UNCHANGED <<world, requests, records, job, history>>

\* faulty variant: ON CONFLICT DO UPDATE
InboxOverwrites(e, row) == [requests EXCEPT ![e] = row]

\* an inbox row, ON CONFLICT (request_event_id) DO NOTHING
Inbox(e, row) == IF HasRow(e) THEN requests ELSE [requests EXCEPT ![e] = row]

InboxRow(n, m, source) ==
  [from |-> n, target |-> m, conn |-> None, source |-> source,
   status |-> "pending", count |-> None, ids |-> None]

\* the target takes RequestCreated in: an internal one by the INSERT of its
\* event handler, which fails when the node is gone; an external one knows
\* nothing of its entry in the directory
CreatePost(h) ==
  LET p == LinkOf[req[h].conn]
  IN /\ At(h, "create.post")
     /\ p.target \in live \cup External
     /\ \E e \in Events :
          /\ asked[e] = None
          /\ asked' = [asked EXCEPT ![e] = p]
          /\ requests' = IF p.target \in External THEN requests
                         ELSE Inbox(e, InboxRow(p.from, p.target, "node"))
          /\ req' = [req EXCEPT ![h].step = "create.insert", ![h].event = e]
     /\ UNCHANGED <<world, records, job, offers, verdict, received, lost>>

CreatePostFails(h) ==
  /\ At(h, "create.post")
  /\ LinkOf[req[h].conn].target \notin live \ External
  /\ End(h)
  /\ UNCHANGED <<world, requests, records, job, history>>

\* faulty variant: the conflict updates every column
OutboxOverwrites(e, p, id) ==
  [requests EXCEPT ![e] = [InboxRow(p.from, p.target, None) EXCEPT !.conn = id]]

\* ON CONFLICT (request_event_id) DO UPDATE SET connection_id: the shared
\* row keeps everything else
Outbox(e, p, id) ==
  IF HasRow(e) THEN [requests EXCEPT ![e].conn = id]
  ELSE [requests EXCEPT ![e] = [InboxRow(p.from, p.target, None) EXCEPT !.conn = id]]

\* faulty variant: without the foreign keys
OutboxNoForeignKey(p, id) == p.target \in Nodes

\* the foreign keys of connection_id and target_node_id
OutboxKeysHold(p, id) == Up(id) /\ p.target \in live

CreateInsert(h) ==
  LET id == req[h].conn
      p  == LinkOf[id]
  IN /\ At(h, "create.insert")
     /\ requests' = IF OutboxKeysHold(p, id) THEN Outbox(req[h].event, p, id) ELSE requests
     /\ End(h)
     /\ UNCHANGED <<world, records, job, history>>

-----------------------------------------------------------------------------
(* RequestCreated from an external partner, delivered once or more.        *)

\* faulty variant: any number in the source is the id of a node here
AnyNumber == Nodes

\* the node that the source of a partner is taken for: none, unless it reads
\* .../api/nodes/<id> because the partner is a node of another directory, for
\* the host is not looked at
SourceNodes == {None} \cup Aliases

ExternalAsk(x, n, e) ==
  /\ x \in External /\ n \in Internal \cap live
  /\ HasToken(x, n)
  /\ asked[e] \in {None, [from |-> x, target |-> n]}
  /\ asked' = [asked EXCEPT ![e] = [from |-> x, target |-> n]]
  /\ \E f \in SourceNodes : requests' = Inbox(e, InboxRow(f, n, "elsewhere"))
  /\ UNCHANGED <<world, records, req, job, offers, verdict, received, lost>>

-----------------------------------------------------------------------------
(* fulfill and reject: read the pending row, post the callback, UPDATE the *)
(* row by id alone; fulfill then writes the footprints to a local          *)
(* requester itself.                                                       *)

DecideBegin(h, e, s, F, found) ==
  /\ req[h] = Idle
  /\ Pending(e)
  /\ req' = [req EXCEPT ![h] =
               [step |-> IF requests[e].source = None THEN "update" ELSE "callback",
                event |-> e, conn |-> None, row |-> requests[e], answer |-> s,
                ids |-> F, pfs |-> found]]
  /\ offers' = IF s = "fulfilled" THEN [offers EXCEPT ![e] = @ \cup {found}] ELSE offers
  /\ UNCHANGED <<world, requests, records, job, asked, verdict, received, lost>>

\* of the footprints selected, those the node has
FulfillBegin(h, e, F) ==
  LET found == F \cap records[requests[e].target]
  IN HasRow(e) /\ found # {} /\ DecideBegin(h, e, "fulfilled", F, found)

RejectBegin(h, e) == DecideBegin(h, e, "rejected", {}, {})

\* the requester's events endpoint admits the callback: its node is served
\* here and a connection in the reverse direction yields a token
Admitted(row) == /\ row.source = "node"
                 /\ row.from \in Internal \cap live
                 /\ Linked(row.target, row.from)

\* a callback that is refused is only logged
Callback(h) ==
  LET r == req[h]
  IN /\ At(h, "callback")
     /\ IF Admitted(r.row)
        THEN /\ job[h] = None
             /\ job' = [job EXCEPT ![h] = [step |-> "update", event |-> r.event,
                                          to |-> r.row.from, answer |-> r.answer,
                                          pfs |-> r.pfs]]
             /\ Goto(h, "await")
        ELSE Goto(h, "update") /\ UNCHANGED job
     /\ UNCHANGED <<world, requests, records, history>>

Await(h) ==
  /\ At(h, "await")
  /\ job[h] = None
  /\ Goto(h, "update")
  /\ UNCHANGED <<world, requests, records, job, history>>

\* faulty variant: only the status is written
AnswerKeepsCount(e, r) ==
  IF HasRow(e) THEN [requests EXCEPT ![e].status = r.answer] ELSE requests

\* UPDATE ... WHERE id: no row, no effect
AnswerRow(e, r) ==
  IF ~HasRow(e) THEN requests
  ELSE IF r.answer = "rejected" THEN [requests EXCEPT ![e].status = "rejected"]
  ELSE [requests EXCEPT ![e] = [@ EXCEPT !.status = "fulfilled", !.ids = r.ids,
                                         !.count = Cardinality(r.pfs)]]

Update(h) ==
  LET r == req[h]
  IN /\ At(h, "update")
     /\ requests' = AnswerRow(r.event, r)
     /\ IF r.answer = "fulfilled" /\ r.row.from # None THEN Goto(h, "check") ELSE End(h)
     /\ UNCHANGED <<world, records, job, history>>

\* faulty variant: the callback is trusted to deliver
CheckTrustsCallback(r) == FALSE

\* does the requester exist here?
RequesterIsLocal(r) == r.row.from \in live

Check(h) ==
  /\ At(h, "check")
  /\ IF RequesterIsLocal(req[h]) THEN Goto(h, "store") ELSE End(h)
  /\ UNCHANGED <<world, requests, records, job, history>>

\* one footprint written to node n; the foreign key fails if n is gone
Write(n, pf) ==
  /\ n \in live
  /\ records' = Stored(n, pf)
  /\ received' = [received EXCEPT ![n] = @ \cup {pf}]

Store(h) ==
  LET r == req[h]
  IN /\ At(h, "store")
     /\ \E pf \in r.pfs :
          /\ Write(r.row.from, pf)
          /\ IF r.pfs = {pf} THEN End(h)
                            ELSE req' = [req EXCEPT ![h].pfs = @ \ {pf}]
     /\ UNCHANGED <<world, requests, job, asked, offers, verdict, lost>>

StoreFails(h) ==
  /\ At(h, "store")
  /\ req[h].row.from \notin live
  /\ End(h)
  /\ UNCHANGED <<world, requests, records, job, history>>

-----------------------------------------------------------------------------
(* handleEvent at an internal node: RequestFulfilled and RequestRejected   *)
(* UPDATE the row that this node asked, then store the footprints.         *)

\* an external target answers through the connection back to the requester
ExternalAnswer(h, e, s, P) ==
  LET p == asked[e]
  IN /\ job[h] = None /\ ~At(h, "callback") /\ ~At(h, "await")
     /\ p # None
     /\ p.target \in External /\ p.from \in Internal
     /\ HasToken(p.target, p.from)
     /\ verdict[e] \in {None, s}
     /\ verdict' = [verdict EXCEPT ![e] = s]
     /\ offers' = IF s = "fulfilled" THEN [offers EXCEPT ![e] = @ \cup {P}] ELSE offers
     /\ job' = [job EXCEPT ![h] = [step |-> "update", event |-> e, to |-> p.from,
                                  answer |-> s, pfs |-> P]]
     /\ UNCHANGED <<world, requests, records, req, asked, received, lost>>

JobRow(e, j) ==
  IF ~HasRow(e) \/ requests[e].from # j.to THEN requests
  ELSE IF j.answer = "rejected" THEN [requests EXCEPT ![e].status = "rejected"]
  ELSE [requests EXCEPT ![e] = [@ EXCEPT !.status = "fulfilled",
                                         !.count = Cardinality(j.pfs)]]

JobUpdate(h) ==
  /\ job[h] # None /\ job[h].step = "update"
  /\ requests' = JobRow(job[h].event, job[h])
  /\ job' = [job EXCEPT ![h] = IF job[h].pfs = {} THEN None
                              ELSE [job[h] EXCEPT !.step = "store"]]
  /\ UNCHANGED <<world, records, req, history>>

JobStore(h) ==
  /\ job[h] # None /\ job[h].step = "store"
  /\ \E pf \in job[h].pfs :
       /\ Write(job[h].to, pf)
       /\ job' = [job EXCEPT ![h] = IF job[h].pfs = {pf} THEN None
                                   ELSE [job[h] EXCEPT !.pfs = @ \ {pf}]]
  /\ UNCHANGED <<world, requests, req, asked, offers, verdict, lost>>

\* faulty variant: the failing INSERT is never answered
JobHangs(h) ==
  /\ job[h] # None /\ job[h].step = "store" /\ job[h].to \notin live
  /\ UNCHANGED vars

JobFails(h) ==
  /\ job[h] # None /\ job[h].step = "store" /\ job[h].to \notin live
  /\ job' = [job EXCEPT ![h] = None]
  /\ UNCHANGED <<world, requests, records, req, history>>

-----------------------------------------------------------------------------
(* Footprint records: import (create is an import of one) fails as a whole *)
(* on the primary key (id, node_id); delete is by footprint id alone.      *)

Import(n, P) ==
  /\ n \in live \cap Authors
  /\ P # {} /\ P \cap records[n] = {}
  /\ records' = [records EXCEPT ![n] = @ \cup P]
  /\ UNCHANGED <<world, requests, req, job, history>>

DeleteFootprint(n, pf) ==
  /\ n \in live
  /\ pf \in records[n]
  /\ records' = [m \in Nodes |-> records[m] \ {pf}]
  /\ UNCHANGED <<world, requests, req, job, history>>

-----------------------------------------------------------------------------
(* Around the exchange: connections are accepted and removed, nodes are    *)
(* deleted, and what is lost is lost.                                      *)

Connect(id) ==
  /\ link[id] = "unborn"
  /\ {LinkOf[id].from, LinkOf[id].target} \subseteq live
  /\ ~Linked(LinkOf[id].from, LinkOf[id].target)
  /\ link' = [link EXCEPT ![id] = "up"]
  /\ UNCHANGED <<live, requests, records, req, job, history>>

Disconnect(id) ==
  /\ Up(id)
  /\ link' = [link EXCEPT ![id] = "gone"]
  /\ requests' = CascadeAll({id}, {})
  /\ UNCHANGED <<live, records, req, job, history>>

DeleteNode(n) ==
  LET cut == {id \in ConnIds : Up(id) /\ n \in {LinkOf[id].from, LinkOf[id].target}}
  IN /\ n \in live
     /\ live' = live \ {n}
     /\ link' = [id \in ConnIds |-> IF id \in cut THEN "gone" ELSE link[id]]
     /\ requests' = CascadeAll(cut, {n})
     /\ records' = [records EXCEPT ![n] = {}]
     /\ UNCHANGED <<req, job, history>>

\* the process dies, or the call a handler awaits never ends
Abandon(h) ==
  /\ req[h] # Idle
  /\ End(h)
  /\ lost' = TRUE
  /\ UNCHANGED <<world, requests, records, job, asked, offers, verdict, received>>

\* a callback is lost or fails between two of its writes; one that a handler
\* awaits is made up for by the handler, which writes the footprints itself
JobDies(h) ==
  /\ job[h] # None
  /\ job' = [job EXCEPT ![h] = None]
  /\ lost' = (lost \/ ~At(h, "await"))
  /\ UNCHANGED <<world, requests, records, req, asked, offers, verdict, received>>

-----------------------------------------------------------------------------
Init == /\ live     = Nodes
        /\ link     = [id \in ConnIds |-> "unborn"]
        /\ requests = [e \in Events |-> None]
        /\ records  = [n \in Nodes |-> {}]
        /\ req      = [h \in Slots |-> Idle]
        /\ job      = [h \in Slots |-> None]
        /\ asked    = [e \in Events |-> None]
        /\ offers   = [e \in Events |-> {}]
        /\ verdict  = [e \in Events |-> None]
        /\ received = [n \in Nodes |-> {}]
        /\ lost     = FALSE

Begin(h) == \/ \E id \in ConnIds : CreateBegin(h, id)
            \/ \E e \in Events : \/ \E F \in SUBSET Pfs : FulfillBegin(h, e, F)
                                \/ RejectBegin(h, e)

Proceed(h) == \/ CreateAuth(h) \/ CreatePost(h) \/ CreatePostFails(h) \/ CreateInsert(h)
              \/ Callback(h) \/ Await(h) \/ Update(h)
              \/ Check(h) \/ Store(h) \/ StoreFails(h)

Serve(h) == JobUpdate(h) \/ JobStore(h) \/ JobFails(h)

Partner == \/ \E x, n \in Nodes, e \in Events : ExternalAsk(x, n, e)
           \/ \E h \in Slots, e \in Events :
                \/ ExternalAnswer(h, e, "rejected", {})
                \/ \E P \in SUBSET Pfs : ExternalAnswer(h, e, "fulfilled", P)

Manage == \/ \E n \in Nodes : \/ DeleteNode(n)
                             \/ \E P \in SUBSET Pfs : Import(n, P)
                             \/ \E pf \in Pfs : DeleteFootprint(n, pf)
          \/ \E id \in ConnIds : Connect(id) \/ Disconnect(id)

Next == \/ \E h \in Slots : Begin(h) \/ Proceed(h) \/ Serve(h) \/ Abandon(h) \/ JobDies(h)
        \/ Partner
        \/ Manage

Spec == Init /\ [][Next]_vars

\* the event loop runs every continuation whose call has returned
Fairness == \A h \in Slots : WF_vars(Proceed(h)) /\ WF_vars(Serve(h))

FairSpec == Spec /\ Fairness
-----------------------------------------------------------------------------
(* Properties.                                                             *)

\* Every row, request and token has the shape its table or handler gives it.
TypeOK == /\ live \subseteq Nodes
          /\ link \in [ConnIds -> {"unborn", "up", "gone"}]
          /\ requests \in [Events -> PcfRow \cup {None}]
          /\ records \in [Nodes -> SUBSET Pfs]
          /\ req \in [Slots -> Handler]
          /\ job \in [Slots -> Job \cup {None}]
          /\ asked \in [Events -> Pair \cup {None}]
          /\ offers \in [Events -> SUBSET SUBSET Pfs]
          /\ verdict \in [Events -> Verdicts \cup {None}]
          /\ received \in [Nodes -> SUBSET Pfs]
          /\ lost \in BOOLEAN

\* A row tells who asked whom, whichever of its two writers came first, and
\* it keeps to live rows: its target exists, and its connection, if any, is
\* an accepted one that joins exactly these two nodes.
RowsMatchAsk ==
  \A e \in Events : HasRow(e) =>
    LET row == requests[e]
    IN /\ asked[e] # None
       /\ row.target = asked[e].target /\ row.target \in live
       /\ row.from \in IF row.source = "elsewhere" THEN {None} \cup Aliases
                                                   ELSE {asked[e].from}
       /\ row.conn # None => Up(row.conn) /\ LinkOf[row.conn] = asked[e]

\* The callback address of a request is what it arrived with, for good: a
\* row with one keeps it, a row without one never gains one.
SourceKept ==
  [][\A e \in Events :
       HasRow(e) /\ requests'[e] # None
         => requests'[e].source = requests[e].source]_vars

\* A fulfilled request shows the size of an answer really given to it, and
\* the ids it lists cover one: no mixture of a callback, a direct write and
\* a second answer shows anything else.
AnswerOnRecord ==
  \A e \in Events : HasRow(e) /\ requests[e].status = "fulfilled" =>
    /\ \E S \in offers[e] : requests[e].count = Cardinality(S)
    /\ requests[e].ids # None => \E S \in offers[e] : S # {} /\ S \subseteq requests[e].ids

\* a handler or a callback is still at work on e
Busy(e) == \E h \in Slots : req[h].event = e \/ (job[h] # None /\ job[h].event = e)

\* As long as no handler dies, nor a callback that no handler awaits: whatever
\* was offered to a local requester that still exists has reached its records
\* once the handlers are done, with or without a reverse connection for the
\* callback, and also when the callback is lost or fails half-way.
OffersArrive ==
  \A e \in Events :
    ~lost /\ asked[e] # None /\ ~Busy(e) /\ asked[e].from \in Internal \cap live
      => UNION offers[e] \subseteq received[asked[e].from]

\* A decision once begun comes to its end: neither the callback it awaits,
\* nor a requester or a row that is gone, holds it up for ever.
DecisionsFinish == \A h \in Slots : req[h].answer # None ~> req[h] = Idle

\* "correlate the eventual RequestFulfilled/RequestRejected callback": the
\* answer of an external target is found on the row it answers, once the
\* handlers are done and no call was lost.
AnswerCorrelated ==
  \A e \in Events :
    ~lost /\ HasRow(e) /\ verdict[e] # None /\ ~Busy(e) => ~Pending(e)

\* "Parse fromNodeId from source URL if it's a directory-internal node": what
\* the exchange writes to a node was offered in answer to a request of that
\* very node, and not of a node elsewhere that bears the same number.
OnlyTheAskerIsServed ==
  \A n \in Nodes :
    received[n] \subseteq UNION {UNION offers[e] : e \in
                     {d \in Events : asked[d] # None /\ asked[d].from = n}}

-----------------------------------------------------------------------------
(* The exchange implements PcfLifecycle.                                   *)

PL == INSTANCE PcfLifecycle
        WITH asker   <- [e \in Events |-> IF asked[e] = None THEN None ELSE asked[e].from],
             life    <- [e \in Events |-> IF HasRow(e) THEN requests[e].status ELSE "none"],
             offered <- offers,
             held    <- received

\* Whatever the handlers, the callbacks and the partners do to one shared
\* row, seen from outside each request is asked, settled and delivered as the
\* abstract lifecycle says: never reopened, whichever of the INSERTs of
\* create() and of the event handler comes last and whatever came in between,
\* never fulfilled without an offer, and what was offered in answer to a node
\* of this directory delivered to that node and no other.  An answer to a
\* node elsewhere may reach, of the nodes here, one that bears its number.
ImplementsPcfLifecycle == PL!Spec
=============================================================================
