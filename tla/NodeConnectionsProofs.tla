----------------------- MODULE NodeConnectionsProofs -----------------------
(***************************************************************************)
(* TLAPS proofs about NodeConnections, for every set of nodes, users,      *)
(* connection ids, credentials and requests in flight.                     *)
(***************************************************************************)
EXTENDS NodeConnections, TLAPS

\* Steps of a request either leave its type alone, start it or end it.
LEMMA IdleIsRequest == Idle \in Request
  BY DEF Idle, Request, Steps

\* Begin fills the slot of a request with well-typed ids.
LEMMA BeginType ==
  ASSUME TypeOK, NEW h \in Requests, NEW s \in Steps, NEW u \in Users,
         NEW n \in Nodes, NEW m \in Nodes, NEW id \in ConnIds \cup {None},
         Begin(h, s, u, n, m, id)
  PROVE  req' \in [Requests -> Request]
  BY DEF Begin, TypeOK, Request

\* Goto moves a request on to another step and keeps its ids.
LEMMA GotoType ==
  ASSUME TypeOK, NEW h \in Requests, NEW s \in Steps, Goto(h, s)
  PROVE  req' \in [Requests -> Request]
  BY DEF Goto, TypeOK, Request

\* End frees the slot of a request.
LEMMA EndType ==
  ASSUME TypeOK, NEW h \in Requests, End(h)
  PROVE  req' \in [Requests -> Request]
  BY IdleIsRequest DEF End, TypeOK

\* An UPDATE of one column keeps the table well typed.
LEMMA WithStatusType ==
  ASSUME TypeOK, NEW id, NEW s \in Status
  PROVE  WithStatus(id, s) \in [ConnIds -> Row \cup {None}]
  BY DEF TypeOK, WithStatus, Exists, Row

\* So does the rotation of its credentials.
LEMMA WithCredType ==
  ASSUME TypeOK, NEW id, NEW c \in Creds
  PROVE  WithCred(id, c) \in [ConnIds -> Row \cup {None}]
  BY DEF TypeOK, WithCred, Exists, Row
-----------------------------------------------------------------------------
(* Type correctness: needs InFlight, which says that a request inserting a *)
(* row holds node ids.                                                     *)

\* The empty tables are well typed.
LEMMA InitType == Init => TypeOK
  BY IdleIsRequest DEF Init, TypeOK, Token

\* The steps of a request, the life of a node and of a token keep the type
\* invariant, one action at a time.
LEMMA NextType == TypeOK /\ InFlight /\ [Next]_vars => TypeOK'
<1> SUFFICES ASSUME TypeOK, InFlight, [Next]_vars PROVE TypeOK'
  OBVIOUS
<1> USE DEF Steps
<1>1. ASSUME NEW h \in Requests, NEW u \in Users, NEW n \in Nodes, NEW m \in Nodes,
             CreateBegin(h, u, n, m)
      PROVE  TypeOK'
  BY <1>1, BeginType DEF CreateBegin, TypeOK, db
<1>2. ASSUME NEW h \in Requests, NEW u \in Users, NEW id \in ConnIds,
             \/ AcceptBegin(h, u, id) \/ RejectBegin(h, u, id)
             \/ RemoveBegin(h, u, id) \/ RotateBegin(h, u, id)
      PROVE  TypeOK'
  <2>1. PICK s \in Steps : Begin(h, s, u, rows[id].from, rows[id].target, id)
    BY <1>2 DEF AcceptBegin, RejectBegin, DecideBegin, RemoveBegin, RotateBegin
  <2>2. Exists(id) /\ UNCHANGED db
    BY <1>2 DEF AcceptBegin, RejectBegin, DecideBegin, RemoveBegin, RotateBegin,
                MayDecide, MayRemove, HasStatus
  <2>3. rows[id].from \in Nodes /\ rows[id].target \in Nodes
    BY <2>2 DEF TypeOK, Row, Exists
  <2> QED
    BY <2>1, <2>2, <2>3, BeginType DEF TypeOK, db
<1>3. ASSUME NEW h \in Requests, CreateCheck(h) PROVE TypeOK'
  BY <1>3, GotoType, EndType DEF CreateCheck, TypeOK, db
<1>4. ASSUME NEW h \in Requests, CreateCleanup(h) PROVE TypeOK'
  BY <1>4, GotoType DEF CreateCleanup, TypeOK
<1>5. ASSUME NEW h \in Requests, CreateInsert(h) PROVE TypeOK'
  <2>1. PICK id \in ConnIds, c \in Creds :
          /\ rows' = [rows EXCEPT ![id] = [from |-> req[h].from,
                                           target |-> req[h].target,
                                           cred |-> c, status |-> "pending"]]
          /\ ledger' = [ledger EXCEPT ![id] = [from |-> req[h].from,
                                               target |-> req[h].target]]
          /\ minted' = [minted EXCEPT ![c] = id]
    BY <1>5 DEF CreateInsert
  <2>2. req[h].from \in Nodes /\ req[h].target \in Nodes
    BY <1>5 DEF CreateInsert, At, InFlight, CreateSteps
  <2>3. req' \in [Requests -> Request]
    BY <1>5, GotoType DEF CreateInsert
  <2> QED
    BY <1>5, <2>1, <2>2, <2>3 DEF CreateInsert, TypeOK, Row, Pair, Status
<1>6. ASSUME NEW h \in Requests,
             \/ CreateInsertFails(h) \/ CreateEmail(h)
             \/ DecideReply(h) \/ Abandon(h)
      PROVE  TypeOK'
  BY <1>6, EndType DEF CreateInsertFails, CreateEmail, DecideReply, Abandon, TypeOK, db
<1>7. ASSUME NEW h \in Requests, AcceptUpdate(h) PROVE TypeOK'
  <2>1. req[h].conn \in ConnIds /\ req[h].user \in Users
    BY <1>7 DEF AcceptUpdate, At, InFlight, RowSteps
  <2>2. rows' \in [ConnIds -> Row \cup {None}]
    BY <1>7, WithStatusType DEF AcceptUpdate, Status
  <2>3. consent' \in [ConnIds -> SUBSET Users]
    BY <1>7, <2>1 DEF AcceptUpdate, TypeOK
  <2> QED
    BY <1>7, <2>2, <2>3, GotoType DEF AcceptUpdate, TypeOK
<1>8. ASSUME NEW h \in Requests, RejectUpdate(h) PROVE TypeOK'
  BY <1>8, WithStatusType, GotoType DEF RejectUpdate, TypeOK, Status
<1>9. ASSUME NEW h \in Requests, RemoveDelete(h) PROVE TypeOK'
  BY <1>9, EndType DEF RemoveDelete, TypeOK
<1>10. ASSUME NEW h \in Requests, RotateUpdate(h) PROVE TypeOK'
  <2>1. PICK c \in Creds : /\ rows' = WithCred(req[h].conn, c)
                           /\ minted' = [minted EXCEPT ![c] = req[h].conn]
    BY <1>10 DEF RotateUpdate
  <2>2. req[h].conn \in ConnIds
    BY <1>10 DEF RotateUpdate, At, InFlight, RowSteps
  <2>3. rows' \in [ConnIds -> Row \cup {None}]
    BY <2>1, WithCredType
  <2> QED
    BY <1>10, <2>1, <2>2, <2>3, EndType DEF RotateUpdate, TypeOK
<1>11. ASSUME NEW u \in Users, NEW n \in Nodes, CreateNode(u, n) PROVE TypeOK'
  BY <1>11 DEF CreateNode, TypeOK
<1>12. ASSUME NEW u \in Users, NEW n \in Nodes, DeleteNode(u, n) PROVE TypeOK'
  BY <1>12 DEF DeleteNode, TypeOK, Cascade
<1>13. ASSUME NEW n \in Nodes, NEW c \in Creds, IssueToken(n, c) PROVE TypeOK'
  <2>1. PICK id \in ConnIds :
          /\ Verifies(id, n, c)
          /\ tokens' = tokens \cup {[conn |-> id, from |-> rows[id].from,
                                     target |-> n, cred |-> c]}
    BY <1>13 DEF IssueToken
  <2>2. rows[id].from \in Nodes
    BY <2>1 DEF Verifies, HasStatus, Exists, TypeOK, Row
  <2> QED
    BY <1>13, <2>1, <2>2 DEF IssueToken, TypeOK, Token
<1>14. ASSUME NEW t \in tokens, ExpireToken(t) PROVE TypeOK'
  BY <1>14 DEF ExpireToken, TypeOK
<1>15. CASE UNCHANGED vars
  BY <1>15 DEF vars, TypeOK
<1> QED
  BY <1>1, <1>2, <1>3, <1>4, <1>5, <1>6, <1>7, <1>8, <1>9, <1>10, <1>11, <1>12,
     <1>13, <1>14, <1>15 DEF Next, Start, Proceed
-----------------------------------------------------------------------------
(* History only grows: ids and credentials stay with what they were        *)
(* generated for, and an accept is never forgotten.                        *)

\* What every step does to the history, whichever handler takes it.
HistoryKept ==
  /\ \A id \in ConnIds : ledger[id] # None => ledger'[id] = ledger[id]
  /\ \A c \in Creds : minted[c] # None => minted'[c] = minted[c]
  /\ \A id \in ConnIds : consent[id] \subseteq consent'[id]

\* Entries of ledger and minted never change once made; consent only grows.
LEMMA HistoryGrows == TypeOK /\ [Next]_vars => HistoryKept
<1> SUFFICES ASSUME TypeOK, [Next]_vars PROVE HistoryKept
  OBVIOUS
<1>1. ASSUME NEW h \in Requests, CreateInsert(h) PROVE HistoryKept
  BY <1>1 DEF CreateInsert, HistoryKept, TypeOK
<1>2. ASSUME NEW h \in Requests, AcceptUpdate(h) PROVE HistoryKept
  BY <1>2 DEF AcceptUpdate, HistoryKept, TypeOK
<1>3. ASSUME NEW h \in Requests, RotateUpdate(h) PROVE HistoryKept
  BY <1>3 DEF RotateUpdate, HistoryKept, TypeOK
<1>4. ASSUME UNCHANGED <<ledger, minted, consent>> PROVE HistoryKept
  BY <1>4 DEF HistoryKept
<1>5. ASSUME NEW h \in Requests, Start(h) PROVE HistoryKept
  BY <1>4, <1>5 DEF Start, CreateBegin, AcceptBegin, RejectBegin, DecideBegin,
                    RemoveBegin, RotateBegin, db
<1>6. ASSUME NEW h \in Requests, Proceed(h) PROVE HistoryKept
  BY <1>1, <1>2, <1>3, <1>4, <1>6
  DEF Proceed, CreateCheck, CreateCleanup, CreateInsertFails, CreateEmail,
      RejectUpdate, DecideReply, RemoveDelete, db
<1> QED
  BY <1>4, <1>5, <1>6 DEF Next, Abandon, CreateNode, DeleteNode, IssueToken,
                          ExpireToken, vars, db

\* Consent, once given for a node, stays given.
LEMMA ConsentStays ==
  ASSUME HistoryKept, NEW id \in ConnIds, NEW n, HasConsent(id, n)
  PROVE  \E u \in consent'[id] : CanManage(u, n)
  BY DEF HistoryKept, HasConsent

-----------------------------------------------------------------------------
(* Requests in flight.                                                     *)

\* InFlight, for one request.
Knows(h) ==
  /\ req[h].step # "idle"
       => req[h].from \in Nodes /\ req[h].target \in Nodes /\ req[h].user \in Users
  /\ req[h].step \in CreateSteps => req[h].from # req[h].target
  /\ req[h].step \in RowSteps
       => /\ req[h].conn \in ConnIds
          /\ ledger[req[h].conn] = [from |-> req[h].from, target |-> req[h].target]
  /\ req[h].step = "accept.update" => CanManage(req[h].user, req[h].target)

\* InFlight, said of one request at a time.
LEMMA InFlightIsKnows == InFlight <=> \A h \in Requests : Knows(h)
  BY DEF InFlight, Knows

\* A request that does not move, or moves on to a later step of the same
\* handler, still knows what it knew.
LEMMA KnowsKept ==
  ASSUME TypeOK, HistoryKept, NEW h \in Requests, Knows(h),
         \/ req'[h] = req[h]
         \/ \E s \in Steps \ {"accept.update"} :
              /\ req'[h] = [req[h] EXCEPT !.step = s]
              /\ s \in CreateSteps => req[h].step \in CreateSteps
              /\ s \in RowSteps => req[h].step \in RowSteps
  PROVE  Knows(h)'
<1>1. CASE req'[h] = req[h]
  <2>1. req[h].step \in RowSteps => ledger'[req[h].conn] = ledger[req[h].conn]
    <3> SUFFICES ASSUME req[h].step \in RowSteps
                 PROVE  ledger'[req[h].conn] = ledger[req[h].conn]
      OBVIOUS
    <3>1. req[h].conn \in ConnIds /\ ledger[req[h].conn] \in Pair
      BY DEF Knows, TypeOK, Request, Pair, RowSteps
    <3> QED
      BY <3>1, NullAssumption DEF HistoryKept
  <2> QED
    BY <1>1, <2>1 DEF Knows
<1>2. ASSUME NEW s \in Steps \ {"accept.update"},
             req'[h] = [req[h] EXCEPT !.step = s],
             s \in CreateSteps => req[h].step \in CreateSteps,
             s \in RowSteps => req[h].step \in RowSteps
      PROVE  Knows(h)'
  <2>1. /\ req'[h].step = s           /\ req'[h].user = req[h].user
        /\ req'[h].from = req[h].from /\ req'[h].target = req[h].target
        /\ req'[h].conn = req[h].conn
    BY <1>2 DEF TypeOK, Request
  <2>2. req[h].step \in RowSteps => ledger'[req[h].conn] = ledger[req[h].conn]
    <3> SUFFICES ASSUME req[h].step \in RowSteps
                 PROVE  ledger'[req[h].conn] = ledger[req[h].conn]
      OBVIOUS
    <3>1. req[h].conn \in ConnIds /\ ledger[req[h].conn] \in Pair
      BY DEF Knows, TypeOK, Request, Pair, RowSteps
    <3> QED
      BY <3>1, NullAssumption DEF HistoryKept
  <2> QED
    BY <1>2, <2>1, <2>2 DEF Knows, Steps, CreateSteps, RowSteps
<1> QED
  BY <1>1, <1>2
\* An idle request knows nothing and needs nothing.
LEMMA IdleKnows ==
  ASSUME NEW h \in Requests, req'[h] = Idle
  PROVE  Knows(h)'
  BY DEF Knows, Idle, CreateSteps, RowSteps

\* Every step keeps what requests in flight rely on (InFlight).
LEMMA InFlightStep == IInv /\ [Next]_vars => InFlight'
<1> SUFFICES ASSUME IInv, [Next]_vars PROVE \A g \in Requests : Knows(g)'
  BY DEF InFlight, Knows
<1>1. TypeOK /\ HistoryKept /\ \A g \in Requests : Knows(g)
  BY HistoryGrows, InFlightIsKnows DEF IInv
<1>2. ASSUME UNCHANGED req PROVE \A g \in Requests : Knows(g)'
  BY <1>1, <1>2, KnowsKept
<1>3. ASSUME NEW h \in Requests, End(h) PROVE \A g \in Requests : Knows(g)'
  <2>1. \A g \in Requests : req'[g] = req[g] \/ req'[g] = Idle
    BY <1>1, <1>3 DEF End, TypeOK
  <2> QED
    BY <1>1, <2>1, KnowsKept, IdleKnows
<1>4. ASSUME NEW h \in Requests, NEW s \in Steps \ {"accept.update"}, Goto(h, s),
             s \in CreateSteps => req[h].step \in CreateSteps,
             s \in RowSteps => req[h].step \in RowSteps
      PROVE  \A g \in Requests : Knows(g)'
  <2>1. \A g \in Requests : \/ req'[g] = req[g]
                            \/ g = h /\ req'[g] = [req[h] EXCEPT !.step = s]
    BY <1>1, <1>4 DEF Goto, TypeOK
  <2> QED
    BY <1>1, <1>4, <2>1, KnowsKept
<1>5. ASSUME NEW h \in Requests, NEW u \in Users, NEW n \in Nodes, NEW m \in Nodes,
             CreateBegin(h, u, n, m)
      PROVE  \A g \in Requests : Knows(g)'
  <2>1. req'[h] = [step |-> "create.existing", user |-> u, from |-> n,
                   target |-> m, conn |-> None]
    BY <1>1, <1>5 DEF CreateBegin, Begin, TypeOK
  <2>2. Knows(h)'
    BY <1>5, <2>1 DEF Knows, CreateBegin, CreateSteps, RowSteps
  <2>3. \A g \in Requests : g # h => req'[g] = req[g]
    BY <1>1, <1>5 DEF CreateBegin, Begin, TypeOK
  <2> QED
    BY <1>1, <2>2, <2>3, KnowsKept
<1>6. ASSUME NEW h \in Requests, NEW u \in Users, NEW id \in ConnIds,
             NEW s \in RowSteps, Exists(id), UNCHANGED db,
             s = "accept.update" => CanManage(u, rows[id].target),
             Begin(h, s, u, rows[id].from, rows[id].target, id)
      PROVE  \A g \in Requests : Knows(g)'
  <2>1. req'[h] = [step |-> s, user |-> u, from |-> rows[id].from,
                   target |-> rows[id].target, conn |-> id]
    BY <1>1, <1>6 DEF Begin, TypeOK
  <2>2. /\ rows[id].from \in Nodes /\ rows[id].target \in Nodes
        /\ ledger[id] = [from |-> rows[id].from, target |-> rows[id].target]
    BY <1>6 DEF IInv, TypeOK, RowsBacked, Exists, Row
  <2>3. Knows(h)'
    BY <1>6, <2>1, <2>2 DEF Knows, CreateSteps, RowSteps, db
  <2>4. \A g \in Requests : g # h => req'[g] = req[g]
    BY <1>1, <1>6 DEF Begin, TypeOK
  <2> QED
    BY <1>1, <2>3, <2>4, KnowsKept
<1>7. ASSUME NEW h \in Requests, Start(h) PROVE \A g \in Requests : Knows(g)'
  <2>1. PICK u \in Users :
          \/ \E n, m \in Nodes : CreateBegin(h, u, n, m)
          \/ \E id \in ConnIds : \/ AcceptBegin(h, u, id) \/ RejectBegin(h, u, id)
                                 \/ RemoveBegin(h, u, id) \/ RotateBegin(h, u, id)
    BY <1>7 DEF Start
  <2>2. ASSUME NEW id \in ConnIds,
               \/ AcceptBegin(h, u, id) \/ RejectBegin(h, u, id)
               \/ RemoveBegin(h, u, id) \/ RotateBegin(h, u, id)
        PROVE  \A g \in Requests : Knows(g)'
    BY <1>6, <2>2 DEF AcceptBegin, RejectBegin, DecideBegin, MayDecide, RemoveBegin,
                      MayRemove, RotateBegin, HasStatus, RowSteps
  <2> QED
    BY <1>5, <2>1, <2>2
<1>8. ASSUME NEW h \in Requests, Proceed(h) PROVE \A g \in Requests : Knows(g)'
  BY <1>3, <1>4, <1>8
  DEF Proceed, CreateCheck, CreateCleanup, CreateInsert, CreateInsertFails,
      CreateEmail, AcceptUpdate, RejectUpdate, DecideReply, RemoveDelete,
      RotateUpdate, At, Steps, CreateSteps, RowSteps
<1> QED
  BY <1>2, <1>3, <1>7, <1>8 DEF Next, Abandon, CreateNode, DeleteNode, IssueToken,
                                ExpireToken, vars
-----------------------------------------------------------------------------
(* The connections table.                                                  *)

\* Every row of the next state was there before and joins the same nodes.
PairsKept ==
  \A id \in ConnIds :
    rows'[id] # None => /\ rows[id] # None
                        /\ rows'[id].from = rows[id].from
                        /\ rows'[id].target = rows[id].target

\* Only the INSERT of createInvitation makes a row.
LEMMA OnlyInsertMakesRows ==
  ASSUME TypeOK, [Next]_vars, \A h \in Requests : ~CreateInsert(h)
  PROVE  PairsKept
<1>1. ASSUME UNCHANGED rows PROVE PairsKept
  BY <1>1 DEF PairsKept
<1>2. ASSUME NEW id, NEW s \in Status, rows' = WithStatus(id, s) PROVE PairsKept
  BY <1>2 DEF WithStatus, Exists, PairsKept, TypeOK, Row
<1>3. ASSUME NEW h \in Requests, RotateUpdate(h) PROVE PairsKept
  BY <1>3 DEF RotateUpdate, WithCred, Exists, PairsKept, TypeOK, Row
<1>4. ASSUME NEW h \in Requests, CreateCleanup(h) PROVE PairsKept
  BY <1>4 DEF CreateCleanup, PairsKept
<1>5. ASSUME NEW h \in Requests, RemoveDelete(h) PROVE PairsKept
  BY <1>5 DEF RemoveDelete, PairsKept, TypeOK
<1>6. ASSUME NEW u \in Users, NEW n \in Nodes, DeleteNode(u, n) PROVE PairsKept
  BY <1>6 DEF DeleteNode, Cascade, PairsKept
<1>7. ASSUME NEW h \in Requests, Start(h) PROVE PairsKept
  BY <1>1, <1>7 DEF Start, CreateBegin, AcceptBegin, RejectBegin, DecideBegin,
                    RemoveBegin, RotateBegin, db
<1>8. ASSUME NEW h \in Requests, Proceed(h) PROVE PairsKept
  BY <1>1, <1>2, <1>3, <1>4, <1>5, <1>8
  DEF Proceed, CreateCheck, CreateInsertFails, CreateEmail, AcceptUpdate,
      RejectUpdate, DecideReply, Status, db
<1> QED
  BY <1>1, <1>6, <1>7, <1>8 DEF Next, Abandon, CreateNode, IssueToken, ExpireToken,
                                vars, db

\* What the INSERT does, in full.
LEMMA InsertEffect ==
  ASSUME IInv, NEW h \in Requests, CreateInsert(h)
  PROVE  \E id \in ConnIds, c \in Creds :
           /\ ledger[id] = None /\ rows[id] = None /\ minted[c] = None
           /\ rows' = [rows EXCEPT ![id] = [from |-> req[h].from,
                                            target |-> req[h].target,
                                            cred |-> c, status |-> "pending"]]
           /\ ledger' = [ledger EXCEPT ![id] = [from |-> req[h].from,
                                                target |-> req[h].target]]
           /\ minted' = [minted EXCEPT ![c] = id]
           /\ req[h].from \in Nodes /\ req[h].target \in Nodes
           /\ req[h].from # req[h].target
           /\ Live(req[h].from) /\ Live(req[h].target)
           /\ PairFree(req[h].from, req[h].target)
           /\ UNCHANGED <<node, consent, tokens>>
<1>1. PICK id \in ConnIds, c \in Creds :
        /\ ledger[id] = None
        /\ minted[c] = None
        /\ rows' = [rows EXCEPT ![id] = [from |-> req[h].from,
                                         target |-> req[h].target,
                                         cred |-> c, status |-> "pending"]]
        /\ ledger' = [ledger EXCEPT ![id] = [from |-> req[h].from,
                                             target |-> req[h].target]]
        /\ minted' = [minted EXCEPT ![c] = id]
  BY DEF CreateInsert
<1>2. rows[id] = None
  <2> SUFFICES ASSUME rows[id] # None PROVE FALSE
    OBVIOUS
  <2>1. ledger[id] \in Pair
    BY DEF IInv, TypeOK, RowsBacked, Exists, Row, Pair
  <2> QED
    BY <1>1, <2>1, NullAssumption
<1>3. /\ req[h].from \in Nodes /\ req[h].target \in Nodes
      /\ req[h].from # req[h].target
  BY DEF CreateInsert, At, IInv, InFlight, CreateSteps
<1> QED
  BY <1>1, <1>2, <1>3 DEF CreateInsert, ForeignKeysHold

\* No step makes a second row for a pair: the unique index at the INSERT.
LEMMA OnePerPairStep == IInv /\ [Next]_vars => OnePerPair'
<1> SUFFICES ASSUME IInv, [Next]_vars PROVE OnePerPair'
  OBVIOUS
<1>1. CASE \A h \in Requests : ~CreateInsert(h)
  <2>1. PairsKept
    BY <1>1, OnlyInsertMakesRows DEF IInv
  <2> QED
    BY <2>1 DEF PairsKept, IInv, OnePerPair, Exists
<1>2. ASSUME NEW h \in Requests, CreateInsert(h) PROVE OnePerPair'
  BY <1>2, InsertEffect DEF IInv, TypeOK, OnePerPair, PairFree, Links, Exists
<1> QED
  BY <1>1, <1>2

\* No step leaves a row without its nodes: the foreign keys and the cascade.
LEMMA NoDanglingStep == IInv /\ [Next]_vars => NoDangling'
<1> SUFFICES ASSUME IInv, [Next]_vars PROVE NoDangling'
  OBVIOUS
<1>1. ASSUME NEW h \in Requests, CreateInsert(h) PROVE NoDangling'
  BY <1>1, InsertEffect DEF IInv, TypeOK, NoDangling, Exists, Live
<1>2. ASSUME NEW u \in Users, NEW n \in Nodes, DeleteNode(u, n) PROVE NoDangling'
  BY <1>2 DEF DeleteNode, Cascade, IInv, TypeOK, NoDangling, Exists, Live
<1>3. ASSUME \A h \in Requests : ~CreateInsert(h),
             \A u \in Users, n \in Nodes : ~DeleteNode(u, n)
      PROVE  NoDangling'
  <2>1. PairsKept
    BY <1>3, OnlyInsertMakesRows DEF IInv
  <2>2. \A n \in Nodes : node[n] = "live" => node'[n] = "live"
    BY <1>3 DEF IInv, TypeOK, Next, Start, CreateBegin, AcceptBegin, RejectBegin,
      DecideBegin, RemoveBegin, RotateBegin, Proceed, CreateCheck, CreateCleanup,
      CreateInsert, CreateInsertFails, CreateEmail, AcceptUpdate, RejectUpdate,
      DecideReply, RemoveDelete, RotateUpdate, Abandon, CreateNode, IssueToken,
      ExpireToken, db, vars
  <2>3. \A id \in ConnIds : Exists(id) => rows[id].from \in Nodes /\ rows[id].target \in Nodes
    BY DEF IInv, TypeOK, Exists, Row
  <2> QED
    BY <2>1, <2>2, <2>3 DEF PairsKept, IInv, NoDangling, Exists, Live
<1> QED
  BY <1>1, <1>2, <1>3

\* No step accepts a row without consent, or takes a row from its pair or its
\* credentials from their row.
LEMMA RowsBackedStep == IInv /\ [Next]_vars => RowsBacked'
<1> SUFFICES ASSUME IInv, [Next]_vars PROVE RowsBacked'
  OBVIOUS
<1> DEFINE Backed(id) == Exists(id) =>
             /\ ledger[id] = [from |-> rows[id].from, target |-> rows[id].target]
             /\ minted[rows[id].cred] = id
             /\ rows[id].status = "accepted" => HasConsent(id, rows[id].target)
<1>1. HistoryKept /\ TypeOK
  BY HistoryGrows DEF IInv
<1>2. ASSUME NEW id \in ConnIds, rows'[id] \in {rows[id], None} PROVE Backed(id)'
  <2> SUFFICES ASSUME Exists(id)' PROVE Backed(id)'
    OBVIOUS
  <2>1. rows'[id] = rows[id] /\ Exists(id) /\ rows[id] \in Row
    BY <1>1, <1>2 DEF Exists, TypeOK
  <2>2. ledger[id] \in Pair /\ minted[rows[id].cred] = id /\ rows[id].cred \in Creds
    <3>1. /\ ledger[id] = [from |-> rows[id].from, target |-> rows[id].target]
          /\ minted[rows[id].cred] = id
      BY <2>1 DEF IInv, RowsBacked
    <3>2. rows[id].from \in Nodes /\ rows[id].target \in Nodes /\ rows[id].cred \in Creds
      BY <2>1 DEF Row
    <3> QED
      BY <3>1, <3>2 DEF Pair
  <2>3. ledger'[id] = ledger[id] /\ minted'[rows[id].cred] = id
    BY <1>1, <2>2, NullAssumption, IdsAssumption DEF HistoryKept
  <2> QED
    BY <1>1, <2>1, <2>3 DEF IInv, RowsBacked, HistoryKept, HasConsent
<1>3. ASSUME \A id \in ConnIds : rows'[id] \in {rows[id], None} PROVE RowsBacked'
  BY <1>2, <1>3 DEF RowsBacked
<1>4. ASSUME NEW h \in Requests, CreateInsert(h) PROVE RowsBacked'
  <2>1. PICK i \in ConnIds, c \in Creds :
           /\ rows' = [rows EXCEPT ![i] = [from |-> req[h].from,
                                            target |-> req[h].target,
                                            cred |-> c, status |-> "pending"]]
           /\ ledger' = [ledger EXCEPT ![i] = [from |-> req[h].from,
                                                target |-> req[h].target]]
           /\ minted' = [minted EXCEPT ![c] = i]
    BY <1>4, InsertEffect
  <2>2. Backed(i)'
    BY <1>1, <2>1 DEF TypeOK, Exists
  <2>3. \A id \in ConnIds : id # i => Backed(id)'
    BY <1>1, <1>2, <2>1 DEF TypeOK
  <2> QED
    BY <2>2, <2>3 DEF RowsBacked
<1>5. ASSUME NEW i \in ConnIds, NEW s \in Status, rows' = WithStatus(i, s),
             NEW u \in Users,
             s = "accepted" => /\ Exists(i) => u \in consent'[i]
                               /\ CanManage(u, ledger[i].target)
      PROVE  RowsBacked'
  <2>1. \A id \in ConnIds : id # i => rows'[id] = rows[id]
    BY <1>1, <1>5 DEF WithStatus, TypeOK
  <2>2. CASE ~Exists(i)
    BY <1>3, <1>5, <2>2 DEF WithStatus
  <2>3. CASE Exists(i)
    <3>1. /\ rows[i] \in Row
          /\ rows'[i] = [rows[i] EXCEPT !.status = s]
      BY <1>1, <1>5, <2>3 DEF WithStatus, TypeOK, Exists
    <3>2. /\ rows'[i].from = rows[i].from     /\ rows'[i].status = s
          /\ rows'[i].target = rows[i].target /\ rows'[i].cred = rows[i].cred
      BY <3>1 DEF Row
    <3>3. /\ ledger[i] = [from |-> rows[i].from, target |-> rows[i].target]
          /\ ledger[i] \in Pair
          /\ minted[rows[i].cred] = i /\ rows[i].cred \in Creds
      BY <2>3, <3>1 DEF IInv, RowsBacked, Row, Pair
    <3>4. ledger'[i] = ledger[i] /\ minted'[rows[i].cred] = i
      BY <1>1, <3>3, NullAssumption, IdsAssumption DEF HistoryKept
    <3>5. s = "accepted" => HasConsent(i, rows[i].target)'
      BY <1>5, <2>3, <3>2, <3>3 DEF HasConsent
    <3>6. Backed(i)'
      BY <3>2, <3>3, <3>4, <3>5
    <3> QED
      BY <1>2, <2>1, <3>6 DEF RowsBacked
  <2> QED
    BY <2>2, <2>3
<1>6. ASSUME NEW h \in Requests, AcceptUpdate(h) PROVE RowsBacked'
  <2>1. PICK i \in ConnIds, u \in Users : i = req[h].conn /\ u = req[h].user
    BY <1>6 DEF AcceptUpdate, At, IInv, InFlight, RowSteps
  <2>2. ledger[i] = [from |-> req[h].from, target |-> req[h].target]
    BY <1>6, <2>1 DEF AcceptUpdate, At, IInv, InFlight, RowSteps
  <2>3. CanManage(u, req[h].target)
    BY <1>6, <2>1 DEF AcceptUpdate, At, IInv, InFlight
  <2>4. Exists(i) => u \in consent'[i]
    BY <1>1, <1>6, <2>1 DEF AcceptUpdate, TypeOK
  <2> QED
    BY <1>5, <1>6, <2>1, <2>2, <2>3, <2>4 DEF AcceptUpdate, Status
<1>7. ASSUME NEW h \in Requests, RejectUpdate(h) PROVE RowsBacked'
  <2>1. PICK i \in ConnIds, u \in Users : i = req[h].conn /\ u = req[h].user
    BY <1>7 DEF RejectUpdate, At, IInv, InFlight, RowSteps
  <2> QED
    BY <1>5, <1>7, <2>1 DEF RejectUpdate, Status
<1>8. ASSUME NEW h \in Requests, RotateUpdate(h) PROVE RowsBacked'
  <2>1. PICK i \in ConnIds : i = req[h].conn
    BY <1>8 DEF RotateUpdate, At, IInv, InFlight, RowSteps
  <2>2. PICK c \in Creds : rows' = WithCred(i, c) /\ minted' = [minted EXCEPT ![c] = i]
    BY <1>8, <2>1 DEF RotateUpdate
  <2>3. CASE ~Exists(i)
    BY <1>3, <2>2, <2>3 DEF WithCred
  <2>4. CASE Exists(i)
    <3>1. /\ rows[i] \in Row
          /\ rows'[i] = [rows[i] EXCEPT !.cred = c]
          /\ \A id \in ConnIds : id # i => rows'[id] = rows[id]
          /\ minted'[c] = i
      BY <1>1, <2>2, <2>4 DEF WithCred, TypeOK, Exists
    <3>2. /\ rows'[i].from = rows[i].from     /\ rows'[i].status = rows[i].status
          /\ rows'[i].target = rows[i].target /\ rows'[i].cred = c
      BY <3>1 DEF Row
    <3>3. Backed(i)'
      BY <1>8, <2>4, <3>1, <3>2 DEF RotateUpdate, IInv, RowsBacked, HasConsent
    <3> QED
      BY <1>2, <3>1, <3>3 DEF RowsBacked
  <2> QED
    BY <2>3, <2>4
<1>9. ASSUME NEW h \in Requests, Start(h) PROVE RowsBacked'
  BY <1>3, <1>9 DEF Start, CreateBegin, AcceptBegin, RejectBegin, DecideBegin,
                    RemoveBegin, RotateBegin, db
<1>10. ASSUME NEW h \in Requests, CreateCleanup(h) PROVE RowsBacked'
  BY <1>3, <1>10 DEF CreateCleanup
<1>11. ASSUME NEW h \in Requests, RemoveDelete(h) PROVE RowsBacked'
  BY <1>1, <1>3, <1>11 DEF RemoveDelete, TypeOK
<1>12. ASSUME NEW u \in Users, NEW n \in Nodes, DeleteNode(u, n) PROVE RowsBacked'
  BY <1>3, <1>12 DEF DeleteNode, Cascade
<1>13. ASSUME UNCHANGED rows PROVE RowsBacked'
  BY <1>3, <1>13
<1>14. ASSUME NEW h \in Requests, Proceed(h) PROVE RowsBacked'
  BY <1>4, <1>6, <1>7, <1>8, <1>10, <1>11, <1>13, <1>14
  DEF Proceed, CreateCheck, CreateInsertFails, CreateEmail, DecideReply, db
<1> QED
  BY <1>9, <1>12, <1>13, <1>14 DEF Next, Abandon, CreateNode, IssueToken, ExpireToken,
                                   vars, db
-----------------------------------------------------------------------------
(* Tokens.                                                                 *)

\* A token issued by generateToken goes back to an accepted row, and the
\* history that backs an older token never changes.
LEMMA TokenProvenanceStep == IInv /\ [Next]_vars => TokenProvenance'
<1> SUFFICES ASSUME IInv, [Next]_vars PROVE TokenProvenance'
  OBVIOUS
<1> DEFINE Proven(t) == /\ ledger[t.conn] = [from |-> t.from, target |-> t.target]
                        /\ minted[t.cred] = t.conn
                        /\ t.target \in InternalNodes
                        /\ HasConsent(t.conn, t.target)
<1>1. HistoryKept /\ TypeOK
  BY HistoryGrows DEF IInv
<1>2. ASSUME NEW t \in tokens PROVE Proven(t)'
  <2>1. Proven(t)
    BY DEF IInv, TokenProvenance
  <2>2. /\ t.conn \in ConnIds /\ t.cred \in Creds
        /\ t.from \in Nodes /\ t.target \in Nodes
    BY <1>1 DEF TypeOK, Token
  <2>3. ledger[t.conn] \in Pair
    BY <2>1, <2>2 DEF Pair
  <2>4. ledger'[t.conn] = ledger[t.conn] /\ minted'[t.cred] = minted[t.cred]
    BY <1>1, <2>1, <2>2, <2>3, NullAssumption, IdsAssumption DEF HistoryKept
  <2>5. HasConsent(t.conn, t.target)'
    BY <1>1, <2>1, <2>2 DEF HistoryKept, HasConsent
  <2> QED
    BY <2>1, <2>4, <2>5
<1>3. ASSUME tokens' \subseteq tokens PROVE TokenProvenance'
  BY <1>2, <1>3 DEF TokenProvenance
<1>4. ASSUME NEW n \in Nodes, NEW c \in Creds, IssueToken(n, c)
      PROVE  TokenProvenance'
  <2>1. PICK id \in ConnIds :
          /\ Verifies(id, n, c)
          /\ tokens' = tokens \cup {[conn |-> id, from |-> rows[id].from,
                                     target |-> n, cred |-> c]}
    BY <1>4 DEF IssueToken
  <2>2. /\ n \in InternalNodes
        /\ UNCHANGED <<rows, ledger, minted, consent>>
    BY <1>4 DEF IssueToken
  <2>3. /\ ledger[id] = [from |-> rows[id].from, target |-> n]
        /\ minted[c] = id
        /\ HasConsent(id, n)
    BY <2>1 DEF Verifies, HasStatus, IInv, RowsBacked
  <2> DEFINE t == [conn |-> id, from |-> rows[id].from, target |-> n, cred |-> c]
  <2>4. Proven(t)'
    BY <2>2, <2>3 DEF HasConsent
  <2> QED
    BY <1>2, <2>1, <2>2, <2>4 DEF TokenProvenance
<1> QED
  BY <1>3, <1>4 DEF Next, Start, CreateBegin, AcceptBegin, RejectBegin,
    DecideBegin, RemoveBegin, RotateBegin, Proceed, CreateCheck, CreateCleanup,
    CreateInsert, CreateInsertFails, CreateEmail, AcceptUpdate, RejectUpdate,
    DecideReply, RemoveDelete, RotateUpdate, Abandon, CreateNode, DeleteNode,
    ExpireToken, db, vars

-----------------------------------------------------------------------------
(* The theorems.                                                           *)

\* The inductive invariant holds before the first request.
LEMMA InitInv == Init => IInv
  BY InitType DEF Init, IInv, InFlight, RowsBacked, OnePerPair, NoDangling,
                  TokenProvenance, Exists, Idle, CreateSteps, RowSteps

\* Every reachable state of the connection subsystem satisfies the inductive
\* invariant: its types, what requests in flight know, and what rows and
\* tokens owe to the history.
THEOREM Invariance == Spec => []IInv
<1>1. IInv /\ [Next]_vars => IInv'
  <2> SUFFICES ASSUME IInv, [Next]_vars PROVE IInv'
    OBVIOUS
  <2> QED
    BY NextType, InFlightStep, RowsBackedStep, OnePerPairStep, NoDanglingStep,
       TokenProvenanceStep DEF IInv
<1> QED
  BY InitInv, <1>1, PTL DEF Spec

\* Type correctness of the connection subsystem.
THEOREM TypeCorrect == Spec => []TypeOK
<1>1. IInv => TypeOK
  BY DEF IInv
<1> QED
  BY Invariance, <1>1, PTL

\* What requests in flight know of their own: the ids they carry are well
\* formed, the row they read stays the one its id was given to, and an accept
\* under way works for a user who manages the invited node.
THEOREM RequestsKnowTheirRows == Spec => []InFlight
<1>1. IInv => InFlight
  BY DEF IInv
<1> QED
  BY Invariance, <1>1, PTL

\* Every connection row owes itself to an invitation, its credentials were
\* generated for it, and it is accepted only with the consent of its target.
THEOREM RowsAreBacked == Spec => []RowsBacked
<1>1. IInv => RowsBacked
  BY DEF IInv
<1> QED
  BY Invariance, <1>1, PTL

\* However createInvitation handlers interleave, no ordered pair of nodes
\* ever has two connection rows.
THEOREM PairsAreUnique == Spec => []OnePerPair
<1>1. IInv => OnePerPair
  BY DEF IInv
<1> QED
  BY Invariance, <1>1, PTL

\* No connection row outlives a node it joins.
THEOREM RowsJoinLiveNodes == Spec => []NoDangling
<1>1. IInv => NoDangling
  BY DEF IInv
<1> QED
  BY Invariance, <1>1, PTL

\* Every token in circulation goes back to an acceptance by somebody who
\* manages its target node.
THEOREM TokensGoBackToConsent == Spec => []TokenProvenance
<1>1. IInv => TokenProvenance
  BY DEF IInv
<1> QED
  BY Invariance, <1>1, PTL

\* A deleted row stays deleted: handlers that read it before write nothing.
THEOREM DeletedRowsStayDeleted == Spec => NoRevival
<1>1. IInv /\ [Next]_vars
        => [\A id \in ConnIds : ledger[id] # None /\ ~Exists(id) => rows'[id] = None]_vars
  <2> SUFFICES ASSUME IInv, [Next]_vars, NEW id \in ConnIds,
                      ledger[id] # None, ~Exists(id)
               PROVE  rows'[id] = None
    OBVIOUS
  <2>1. ASSUME NEW h \in Requests, CreateInsert(h) PROVE rows'[id] = None
    BY <2>1, InsertEffect DEF IInv, TypeOK, Exists
  <2>2. CASE \A h \in Requests : ~CreateInsert(h)
    BY <2>2, OnlyInsertMakesRows DEF IInv, PairsKept, Exists
  <2> QED
    BY <2>1, <2>2
<1> QED
  BY Invariance, <1>1, PTL DEF Spec, NoRevival
=============================================================================
