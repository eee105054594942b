--------------------- MODULE NodeConnectionsRefinement ---------------------
(***************************************************************************)
(* NodeConnections implements ConnectionLifecycle: every step of every     *)
(* interleaving of handlers is, seen one link at a time, a step of the     *)
(* abstract lifecycle or no step at all; and a step of its strict form as  *)
(* long as requests do not overlap.                                        *)
(***************************************************************************)
EXTENDS NodeConnectionsProofs, ConnectionsInSequence

Table == [ConnIds -> Row \cup {None}]

\* a table without two rows for one ordered pair, nor a row from a node to itself
Unique(table) ==
  \A i, j \in ConnIds :
    table[i] # None /\ table[j] # None
      => /\ table[i].from # table[i].target
         /\ table[i].from = table[j].from /\ table[i].target = table[j].target => i = j

\* In such a table a row gives its pair its status ...
LEMMA StatusOfRow ==
  ASSUME NEW table \in Table, Unique(table), NEW p, NEW id \in ConnIds,
         LinksIn(table, id, p)
  PROVE  StatusIn(table, p) = table[id].status
<1> DEFINE w == CHOOSE i \in ConnIds : LinksIn(table, i, p)
<1>1. w \in ConnIds /\ LinksIn(table, w, p)
  OBVIOUS
<1>2. w = id
  BY <1>1 DEF Unique, LinksIn
<1> QED
  BY <1>2 DEF StatusIn

\* ... and a pair without a row has status "none".
LEMMA StatusOfNoRow ==
  ASSUME NEW table, NEW p, \A id \in ConnIds : ~LinksIn(table, id, p)
  PROVE  StatusIn(table, p) = "none"
  BY DEF StatusIn

\* If two tables give a pair the same rows, or no rows, they agree on it.
LEMMA StatusAgrees ==
  ASSUME NEW t1 \in Table, NEW t2 \in Table, Unique(t1), Unique(t2), NEW p,
         \A id \in ConnIds : LinksIn(t1, id, p) <=> LinksIn(t2, id, p),
         \A id \in ConnIds : LinksIn(t1, id, p) => t1[id].status = t2[id].status
  PROVE  StatusIn(t1, p) = StatusIn(t2, p)
<1>1. CASE \E id \in ConnIds : LinksIn(t1, id, p)
  <2>1. PICK id \in ConnIds : LinksIn(t1, id, p)
    BY <1>1
  <2> QED
    BY <2>1, StatusOfRow
<1>2. CASE \A id \in ConnIds : ~LinksIn(t1, id, p)
  BY <1>2, StatusOfNoRow
<1> QED
  BY <1>1, <1>2

\* The table, before a step and after it, links no pair twice.
LEMMA TablesAreUnique ==
  ASSUME IInv, [Next]_vars
  PROVE  rows \in Table /\ rows' \in Table /\ Unique(rows) /\ Unique(rows')
  BY NextType, OnePerPairStep DEF IInv, TypeOK, Table, OnePerPair, Unique, Exists

-----------------------------------------------------------------------------
liveBar == {n \in Nodes : Live(n)}
linkBar == [p \in AllPairs |-> StatusIn(rows, p)]

\* The empty tables are the empty directory of the abstract lifecycle.
LEMMA InitRefines == Init => LC!Init
<1> SUFFICES ASSUME Init PROVE LC!Init
  OBVIOUS
<1>1. \A p : StatusIn(rows, p) = "none"
  BY DEF Init, StatusIn, LinksIn
<1>2. {n \in Nodes : Live(n)} = {}
  BY DEF Init, Live
<1> QED
  BY <1>1, <1>2 DEF LC!Init, LC!Pairs, AllPairs

\* A step that leaves every row its pair and its status changes no link.
LEMMA LinksKept ==
  ASSUME IInv, [Next]_vars,
         \A id \in ConnIds : rows'[id] # None <=> rows[id] # None,
         \A id \in ConnIds :
           rows[id] # None => /\ rows'[id].from = rows[id].from
                              /\ rows'[id].target = rows[id].target
                              /\ rows'[id].status = rows[id].status
  PROVE  linkBar' = linkBar
<1>1. ASSUME NEW p \in AllPairs PROVE StatusIn(rows', p) = StatusIn(rows, p)
  <2>1. \A id \in ConnIds : LinksIn(rows', id, p) <=> LinksIn(rows, id, p)
    BY DEF LinksIn
  <2>2. \A id \in ConnIds : LinksIn(rows', id, p) => rows'[id].status = rows[id].status
    BY DEF LinksIn
  <2> HIDE DEF LinksIn
  <2> QED
    BY <2>1, <2>2, TablesAreUnique, StatusAgrees
<1> QED
  BY <1>1 DEF linkBar

\* A step that only deletes rows turns exactly their links to "none".
LEMMA LinksDropped ==
  ASSUME IInv, [Next]_vars, \A id \in ConnIds : rows'[id] \in {rows[id], None},
         NEW p \in AllPairs
  PROVE  /\ (\E id \in ConnIds : LinksIn(rows, id, p) /\ rows'[id] = None)
              => StatusIn(rows', p) = "none"
         /\ (\A id \in ConnIds : LinksIn(rows, id, p) => rows'[id] # None)
              => StatusIn(rows', p) = StatusIn(rows, p)
<1>1. \A id \in ConnIds : LinksIn(rows', id, p) => LinksIn(rows, id, p)
  BY DEF LinksIn
<1>2. ASSUME NEW id \in ConnIds, LinksIn(rows, id, p), rows'[id] = None
      PROVE  StatusIn(rows', p) = "none"
  <2>1. \A i \in ConnIds : ~LinksIn(rows', i, p)
    BY <1>1, <1>2, TablesAreUnique DEF Unique, LinksIn
  <2> QED
    BY <2>1, StatusOfNoRow
<1>3. ASSUME \A id \in ConnIds : LinksIn(rows, id, p) => rows'[id] # None
      PROVE  StatusIn(rows', p) = StatusIn(rows, p)
  <2>1. \A id \in ConnIds : LinksIn(rows, id, p) => LinksIn(rows', id, p) /\ rows'[id] = rows[id]
    BY <1>3 DEF LinksIn
  <2> QED
    BY <1>1, <2>1, TablesAreUnique, StatusAgrees
<1> QED
  BY <1>2, <1>3

\* The INSERT of createInvitation invites.
LEMMA InsertRefines ==
  ASSUME IInv, [Next]_vars, NEW h \in Requests, CreateInsert(h)
  PROVE  LC!Invite
<1>1. PICK id \in ConnIds, c \in Creds :
        /\ rows[id] = None
        /\ rows' = [rows EXCEPT ![id] = [from |-> req[h].from,
                                         target |-> req[h].target,
                                         cred |-> c, status |-> "pending"]]
        /\ req[h].from \in Nodes /\ req[h].target \in Nodes
        /\ req[h].from # req[h].target
        /\ Live(req[h].from) /\ Live(req[h].target)
        /\ PairFree(req[h].from, req[h].target)
        /\ UNCHANGED node
  BY InsertEffect
<1>2. PICK q \in AllPairs : q[1] = req[h].from /\ q[2] = req[h].target
  <2>1. <<req[h].from, req[h].target>> \in AllPairs
    BY <1>1 DEF AllPairs
  <2> QED
    BY <2>1
<1>3. \A i \in ConnIds : ~LinksIn(rows, i, q)
  BY <1>1, <1>2 DEF PairFree, Links, LinksIn, Exists
<1>4. StatusIn(rows, q) = "none"
  BY <1>3, StatusOfNoRow
<1>5. rows \in Table /\ rows' \in Table /\ Unique(rows) /\ Unique(rows')
  BY TablesAreUnique
<1>6. rows'[id] = [from |-> q[1], target |-> q[2], cred |-> c, status |-> "pending"]
  BY <1>1, <1>2, <1>5 DEF Table
<1>7. StatusIn(rows', q) = "pending"
  <2>1. LinksIn(rows', id, q)
    <3>1. q[1] \in Nodes /\ q[2] \in Nodes
      BY <1>1, <1>2
    <3>2. rows'[id] \in Row
      BY <1>6, <3>1 DEF Row, Status
    <3> QED
      BY <1>6, <3>2, NullAssumption DEF LinksIn
  <2> QED
    BY <1>5, <1>6, <2>1, StatusOfRow
<1>8. ASSUME NEW p \in AllPairs, p # q PROVE StatusIn(rows', p) = StatusIn(rows, p)
  <2>1. ~(p[1] = q[1] /\ p[2] = q[2])
    BY <1>8 DEF AllPairs
  <2>2. \A i \in ConnIds : i # id => rows'[i] = rows[i]
    BY <1>1, <1>5 DEF Table
  <2>3. ~LinksIn(rows', id, p) /\ ~LinksIn(rows, id, p)
    BY <1>1, <1>6, <2>1 DEF LinksIn
  <2>4. \A i \in ConnIds : i # id => (LinksIn(rows', i, p) <=> LinksIn(rows, i, p))
    BY <2>2 DEF LinksIn
  <2> QED
    BY <1>5, <2>2, <2>3, <2>4, StatusAgrees
<1>9. linkBar' = [linkBar EXCEPT ![q] = "pending"]
  BY <1>7, <1>8 DEF linkBar
<1>10. linkBar[q] = "none" /\ {q[1], q[2]} \subseteq liveBar /\ liveBar' = liveBar
  BY <1>1, <1>2, <1>4 DEF linkBar, liveBar, Live
<1> QED
  BY <1>9, <1>10 DEF LC!Invite, LC!Pairs, AllPairs, linkBar, liveBar

\* The UPDATE of an acceptance or a rejection settles the link of its row, or
\* stutters if the row is gone.
LEMMA DecideRefines ==
  ASSUME IInv, [Next]_vars, UNCHANGED node, NEW id \in ConnIds,
         NEW s \in {"accepted", "rejected"}, rows' = WithStatus(id, s)
  PROVE  \/ Exists(id) /\ LC!Decide({rows[id].status})
         \/ linkBar' = linkBar /\ liveBar' = liveBar
<1>1. liveBar' = liveBar
  BY DEF liveBar, Live
<1>2. CASE ~Exists(id)
  BY <1>1, <1>2 DEF WithStatus, linkBar
<1>3. CASE Exists(id)
  <2>1. rows \in Table /\ rows' \in Table /\ Unique(rows) /\ Unique(rows')
    BY TablesAreUnique
  <2>2. rows[id] \in Row /\ rows'[id] = [rows[id] EXCEPT !.status = s]
    BY <1>3, <2>1 DEF WithStatus, Table, Exists
  <2>3. rows'[id].from = rows[id].from /\ rows'[id].target = rows[id].target
        /\ rows'[id].status = s /\ rows[id] # None /\ rows'[id] # None
    BY <1>3, <2>1, <2>2, NullAssumption DEF Row, Table, Exists, Status
  <2>4. PICK q \in AllPairs : q[1] = rows[id].from /\ q[2] = rows[id].target
    <3>1. rows[id].from \in Nodes /\ rows[id].target \in Nodes
      BY <2>2 DEF Row
    <3>2. rows[id].from # rows[id].target
      BY <2>1, <2>3 DEF Unique
    <3>3. <<rows[id].from, rows[id].target>> \in AllPairs
      BY <3>1, <3>2 DEF AllPairs
    <3> QED
      BY <3>3
  <2>5. LinksIn(rows, id, q) /\ LinksIn(rows', id, q)
    BY <2>3, <2>4 DEF LinksIn
  <2>6. StatusIn(rows, q) = rows[id].status /\ StatusIn(rows', q) = s
    BY <2>1, <2>3, <2>5, StatusOfRow
  <2>7. ASSUME NEW p \in AllPairs, p # q PROVE StatusIn(rows', p) = StatusIn(rows, p)
    <3>1. ~(p[1] = q[1] /\ p[2] = q[2])
      BY <2>7 DEF AllPairs
    <3>2. \A i \in ConnIds : i # id => rows'[i] = rows[i]
      BY <1>3, <2>1 DEF WithStatus, Table
    <3>3. ~LinksIn(rows', id, p) /\ ~LinksIn(rows, id, p)
      BY <2>3, <2>4, <3>1 DEF LinksIn
    <3>4. \A i \in ConnIds : i # id => (LinksIn(rows', i, p) <=> LinksIn(rows, i, p))
      BY <3>2 DEF LinksIn
    <3> QED
      BY <2>1, <3>2, <3>3, <3>4, StatusAgrees
  <2>8. linkBar' = [linkBar EXCEPT ![q] = s]
    BY <2>6, <2>7 DEF linkBar
  <2>9. linkBar[q] = rows[id].status
    BY <2>6 DEF linkBar
  <2> QED
    BY <1>1, <1>3, <2>8, <2>9 DEF LC!Decide, LC!Settled, LC!Pairs, AllPairs, linkBar, liveBar
<1> QED
  BY <1>2, <1>3

\* A rotation of credentials is invisible in the lifecycle.
LEMMA RotateRefines ==
  ASSUME IInv, [Next]_vars, NEW h \in Requests, RotateUpdate(h)
  PROVE  linkBar' = linkBar
<1>1. PICK c \in Creds : rows' = WithCred(req[h].conn, c)
  BY DEF RotateUpdate
<1>2. rows \in Table /\ rows' \in Table
  BY TablesAreUnique
<1>3. \A id \in ConnIds : rows[id] # None => rows[id] \in Row
  BY <1>2 DEF Table
<1>4. \A id \in ConnIds : rows'[id] # None => rows'[id] \in Row
  BY <1>2 DEF Table
<1>5. \A id \in ConnIds :
        \/ rows'[id] = rows[id]
        \/ rows[id] # None /\ rows'[id] = [rows[id] EXCEPT !.cred = c]
  BY <1>1, <1>2 DEF WithCred, Exists, Table
<1>6. ASSUME NEW id \in ConnIds, rows[id] # None
      PROVE  /\ rows'[id] # None
             /\ rows'[id].from = rows[id].from
             /\ rows'[id].target = rows[id].target
             /\ rows'[id].status = rows[id].status
  <2>1. rows[id] \in Row
    BY <1>3, <1>6
  <2>2. [rows[id] EXCEPT !.cred = c] \in Row
    BY <2>1 DEF Row
  <2> QED
    BY <1>5, <1>6, <2>1, <2>2, NullAssumption DEF Row
<1>7. \A id \in ConnIds : rows[id] = None => rows'[id] = None
  BY <1>5
<1> QED
  BY <1>6, <1>7, LinksKept

\* The clean-up of createInvitation clears rejected links.
LEMMA CleanupRefines ==
  ASSUME IInv, [Next]_vars, NEW h \in Requests, CreateCleanup(h)
  PROVE  LC!ClearRejected
<1>1. /\ rows' = [id \in ConnIds |-> IF StalePair(req[h].from, req[h].target, id)
                                    THEN None ELSE rows[id]]
      /\ liveBar' = liveBar
  BY DEF CreateCleanup, liveBar, Live
<1>2. rows \in Table /\ Unique(rows)
  BY TablesAreUnique
<1> DEFINE S == {p \in AllPairs : \E id \in ConnIds :
                   LinksIn(rows, id, p) /\ StalePair(req[h].from, req[h].target, id)}
<1>3. S \in SUBSET {p \in AllPairs : linkBar[p] = "rejected"}
  <2> SUFFICES ASSUME NEW p \in S PROVE linkBar[p] = "rejected"
    OBVIOUS
  <2>1. PICK id \in ConnIds : /\ LinksIn(rows, id, p)
                              /\ StalePair(req[h].from, req[h].target, id)
    OBVIOUS
  <2>2. rows[id].status = "rejected"
    BY <2>1 DEF StalePair, HasStatus
  <2> QED
    BY <1>2, <2>1, <2>2, StatusOfRow DEF linkBar
<1>4. ASSUME NEW p \in AllPairs
      PROVE  StatusIn(rows', p) = IF p \in S THEN "none" ELSE StatusIn(rows, p)
  <2>1. \A id \in ConnIds : rows'[id] \in {rows[id], None}
    BY <1>1
  <2>2. CASE p \in S
    <3>1. PICK id \in ConnIds : /\ LinksIn(rows, id, p)
                                /\ StalePair(req[h].from, req[h].target, id)
      BY <2>2
    <3>2. rows'[id] = None
      BY <1>1, <3>1
    <3> QED
      BY <2>1, <2>2, <3>1, <3>2, LinksDropped
  <2>3. CASE p \notin S
    <3>1. \A id \in ConnIds : LinksIn(rows, id, p) => rows'[id] # None
      BY <1>1, <2>3 DEF LinksIn
    <3> QED
      BY <2>1, <2>3, <3>1, LinksDropped
  <2> QED
    BY <2>2, <2>3
<1>5. linkBar' = [p \in AllPairs |-> IF p \in S THEN "none" ELSE linkBar[p]]
  BY <1>4 DEF linkBar
<1> HIDE DEF S
<1> QED
  BY <1>1, <1>3, <1>5 DEF LC!ClearRejected, LC!Pairs, AllPairs, linkBar, liveBar

\* The DELETE of removeConnection withdraws one link, or stutters.
LEMMA RemoveRefines ==
  ASSUME IInv, [Next]_vars, NEW h \in Requests, RemoveDelete(h)
  PROVE  LC!Withdraw \/ (linkBar' = linkBar /\ liveBar' = liveBar)
<1>1. PICK id \in ConnIds : rows' = [rows EXCEPT ![id] = None]
  BY DEF RemoveDelete, At, IInv, InFlight, RowSteps
<1>2. liveBar' = liveBar
  BY DEF RemoveDelete, liveBar, Live
<1>3. rows \in Table /\ Unique(rows)
  BY TablesAreUnique
<1>4. \A i \in ConnIds : rows'[i] = IF i = id THEN None ELSE rows[i]
  BY <1>1, <1>3 DEF Table
<1>5. CASE ~Exists(id)
  <2>1. rows' = rows
    BY <1>1, <1>3, <1>5 DEF Exists, Table
  <2> QED
    BY <1>2, <2>1 DEF linkBar
<1>6. CASE Exists(id)
  <2>1. rows[id].from \in Nodes /\ rows[id].target \in Nodes
        /\ rows[id].from # rows[id].target
    BY <1>3, <1>6 DEF Table, Unique, Exists, Row
  <2>2. PICK q \in AllPairs : q[1] = rows[id].from /\ q[2] = rows[id].target
    <3>1. <<rows[id].from, rows[id].target>> \in AllPairs
      BY <2>1 DEF AllPairs
    <3> QED
      BY <3>1
  <2>3. LinksIn(rows, id, q)
    BY <1>6, <2>2 DEF LinksIn, Exists
  <2>4. StatusIn(rows', q) = "none"
    BY <1>4, <2>3, LinksDropped
  <2>5. ASSUME NEW p \in AllPairs, p # q PROVE StatusIn(rows', p) = StatusIn(rows, p)
    <3>1. ~LinksIn(rows, id, p)
      BY <2>2, <2>5 DEF AllPairs, LinksIn
    <3>2. \A i \in ConnIds : LinksIn(rows, i, p) => rows'[i] # None
      BY <1>4, <3>1 DEF LinksIn
    <3> QED
      BY <1>4, <3>2, LinksDropped
  <2>6. linkBar' = [linkBar EXCEPT ![q] = "none"]
    BY <2>4, <2>5 DEF linkBar
  <2> QED
    BY <1>2, <2>6 DEF LC!Withdraw, LC!Pairs, AllPairs, linkBar, liveBar
<1> QED
  BY <1>5, <1>6

\* The deletion of a node retires it with all its links.
LEMMA DeleteRefines ==
  ASSUME IInv, [Next]_vars, NEW u \in Users, NEW n \in Nodes, DeleteNode(u, n)
  PROVE  LC!Retire
<1>1. rows' = Cascade(n) /\ node' = [node EXCEPT ![n] = "deleted"]
  BY DEF DeleteNode
<1>2. liveBar' = liveBar \ {n}
  BY <1>1 DEF liveBar, Live, IInv, TypeOK
<1>3. \A id \in ConnIds :
        rows'[id] = IF rows[id] # None /\ n \in {rows[id].from, rows[id].target}
                    THEN None ELSE rows[id]
  BY <1>1 DEF Cascade, Exists
<1>4. ASSUME NEW p \in AllPairs
      PROVE  StatusIn(rows', p) = IF n \in {p[1], p[2]} THEN "none"
                                                       ELSE StatusIn(rows, p)
  <2>1. CASE n \in {p[1], p[2]}
    <3>1. \A id \in ConnIds : ~LinksIn(rows', id, p)
      BY <1>3, <2>1 DEF LinksIn
    <3> QED
      BY <2>1, <3>1, StatusOfNoRow
  <2>2. CASE n \notin {p[1], p[2]}
    <3>1. \A id \in ConnIds : LinksIn(rows, id, p) => rows'[id] # None
      BY <1>3, <2>2 DEF LinksIn
    <3> QED
      BY <1>3, <2>2, <3>1, LinksDropped
  <2> QED
    BY <2>1, <2>2
<1>5. linkBar' = [p \in AllPairs |-> IF n \in {p[1], p[2]} THEN "none" ELSE linkBar[p]]
  BY <1>4 DEF linkBar
<1> QED
  BY <1>2, <1>5 DEF LC!Retire, LC!Pairs, AllPairs, linkBar, liveBar

Stutter == linkBar' = linkBar /\ liveBar' = liveBar

\* What a step may be that settles no link.
Other == LC!Join \/ LC!Invite \/ LC!Withdraw \/ LC!ClearRejected \/ LC!Retire \/ Stutter

\* a decision on the row of request h, whatever its status
Decision(h) == /\ At(h, "accept.update") \/ At(h, "reject.update")
               /\ req[h].conn \in ConnIds /\ Exists(req[h].conn)
               /\ LC!Decide({rows[req[h].conn].status})

\* Every step is a step of the abstract lifecycle, or a stutter; a link is
\* settled only by the UPDATE of an accept or a reject.
LEMMA StepKinds ==
  ASSUME IInv, [Next]_vars
  PROVE  Other \/ \E h \in Requests : Decision(h)
<1>1. ASSUME UNCHANGED <<node, rows>> PROVE Stutter
  BY <1>1 DEF Stutter, linkBar, liveBar, Live
<1>2. ASSUME NEW u \in Users, NEW n \in Nodes, CreateNode(u, n) PROVE LC!Join
  <2>1. liveBar' = liveBar \cup {n} /\ linkBar' = linkBar
    BY <1>2 DEF CreateNode, liveBar, linkBar, Live, IInv, TypeOK
  <2> QED
    BY <2>1 DEF LC!Join, liveBar, linkBar
<1>3. ASSUME NEW h \in Requests, AcceptUpdate(h) \/ RejectUpdate(h)
      PROVE  Decision(h) \/ Stutter
  <2>1. PICK id \in ConnIds : id = req[h].conn
    BY <1>3 DEF AcceptUpdate, RejectUpdate, At, IInv, InFlight, RowSteps
  <2>2. UNCHANGED node /\ \E s \in {"accepted", "rejected"} : rows' = WithStatus(id, s)
    BY <1>3, <2>1 DEF AcceptUpdate, RejectUpdate
  <2>3. (Exists(id) /\ LC!Decide({rows[id].status})) \/ Stutter
    BY <2>2, DecideRefines DEF Stutter
  <2>4. At(h, "accept.update") \/ At(h, "reject.update")
    BY <1>3 DEF AcceptUpdate, RejectUpdate
  <2> QED
    BY <2>1, <2>3, <2>4 DEF Decision
<1>4. ASSUME NEW h \in Requests, RotateUpdate(h)
      PROVE  Stutter
  BY <1>4, RotateRefines DEF RotateUpdate, Stutter, liveBar, Live
<1>5. ASSUME NEW h \in Requests, Start(h)
      PROVE  Stutter
  BY <1>1, <1>5 DEF Start, CreateBegin, AcceptBegin, RejectBegin, DecideBegin,
                    RemoveBegin, RotateBegin, db
<1>6. ASSUME NEW h \in Requests, Proceed(h)
      PROVE  Other \/ Decision(h)
  <2>1. CASE CreateInsert(h)
    BY <2>1, InsertRefines DEF Other
  <2>2. CASE CreateCleanup(h)
    BY <2>2, CleanupRefines DEF Other
  <2>3. CASE AcceptUpdate(h) \/ RejectUpdate(h)
    BY <2>3, <1>3 DEF Other
  <2>4. CASE RemoveDelete(h)
    BY <2>4, RemoveRefines DEF Other, Stutter
  <2>5. CASE RotateUpdate(h)
    BY <2>5, <1>4 DEF Other
  <2>6. CASE CreateCheck(h) \/ CreateInsertFails(h) \/ CreateEmail(h) \/ DecideReply(h)
    BY <2>6, <1>1 DEF CreateCheck, CreateInsertFails, CreateEmail, DecideReply, db, Other
  <2> QED
    BY <1>6, <2>1, <2>2, <2>3, <2>4, <2>5, <2>6 DEF Proceed
<1>7. ASSUME NEW u \in Users, NEW n \in Nodes, DeleteNode(u, n) PROVE LC!Retire
  BY <1>7, DeleteRefines
<1> QED
  BY <1>1, <1>2, <1>5, <1>6, <1>7 DEF Next, Abandon, IssueToken, ExpireToken, db, vars, Other

\* Every step maps to a step of the abstract lifecycle or to a stutter.
LEMMA StepRefines == IInv /\ [Next]_vars => [LC!Next]_LC!vars
<1> SUFFICES ASSUME IInv, [Next]_vars
             PROVE  LC!Next \/ Stutter
  BY DEF LC!vars, Stutter, linkBar, liveBar
<1>1. ASSUME NEW h \in Requests, Decision(h) PROVE LC!Settle
  <2>1. rows[req[h].conn].status \in {"pending"} \cup LC!Settled
    BY <1>1 DEF Decision, IInv, TypeOK, Exists, Row, Status, LC!Settled
  <2> QED
    BY <1>1, <2>1 DEF Decision, LC!Settle, LC!Decide
<1> QED
  BY <1>1, StepKinds DEF Other, LC!Next

\* The handlers of node-connection-service and node-service, interleaved in
\* any way, implement the abstract lifecycle of links.
THEOREM LifecycleImplemented == Spec => ImplementsLifecycle
<1> QED
  BY InitRefines, StepRefines, Invariance, PTL DEF Spec, LC!Spec, ImplementsLifecycle

-----------------------------------------------------------------------------
(* Requests that do not overlap.                                           *)

\* Watching changes nothing.
LEMMA WatchedStep ==
  ASSUME [SequenceNext]_<<vars, overlap>>
  PROVE  [Next]_vars /\ (Watch \/ UNCHANGED <<vars, overlap>>)
  BY DEF SequenceNext, Next, Start, Proceed, vars

\* Requests that have not met after a step had not met before it.
LEMMA NotYet ==
  ASSUME [SequenceNext]_<<vars, overlap>>, ~overlap'
  PROVE  ~overlap
<1>1. CASE Watch
  BY <1>1, Zenon DEF Watch
<1>2. CASE UNCHANGED <<vars, overlap>>
  <2>1. overlap' = overlap
    BY <1>2
  <2> QED
    BY <2>1, Zenon
<1> QED
  BY <1>1, <1>2, WatchedStep

\* A handler's step leaves the other requests alone; starting one leaves the
\* table alone too, and only a request in flight goes on.
LEMMA HandlerStep ==
  ASSUME TypeOK, NEW k \in Requests, Start(k) \/ Proceed(k) \/ Abandon(k)
  PROVE  /\ \A h \in Requests \ {k} : req'[h] = req[h]
         /\ rows' = rows \/ req[k] # Idle
<1>1. \A h \in Requests \ {k} : req'[h] = req[h]
  <2>1. CASE Start(k)
    BY <2>1 DEF TypeOK, Start, CreateBegin, AcceptBegin, RejectBegin, DecideBegin,
                RemoveBegin, RotateBegin, Begin
  <2>2. CASE Proceed(k)
    BY <2>2 DEF TypeOK, Proceed, CreateCheck, CreateCleanup, CreateInsert,
                CreateInsertFails, CreateEmail, AcceptUpdate, RejectUpdate, DecideReply,
                RemoveDelete, RotateUpdate, Goto, End
  <2>3. CASE Abandon(k)
    BY <2>3 DEF TypeOK, Abandon, End
  <2> QED
    BY <2>1, <2>2, <2>3
<1>2. CASE Start(k)
  BY <1>1, <1>2 DEF Start, CreateBegin, AcceptBegin, RejectBegin, DecideBegin,
              RemoveBegin, RotateBegin, db
<1>3. CASE Proceed(k)
  BY <1>1, <1>3 DEF Proceed, CreateCheck, CreateCleanup, CreateInsert,
              CreateInsertFails, CreateEmail, AcceptUpdate, RejectUpdate, DecideReply,
              RemoveDelete, RotateUpdate, At, Idle
<1> QED
  BY <1>1, <1>2, <1>3 DEF Abandon

\* What a request reads or clears itself, it may rely on.
LEMMA HandlerInforms ==
  ASSUME IInv, NEW h \in Requests, Informed(req[h]), Start(h) \/ Proceed(h) \/ Abandon(h)
  PROVE  Informed(req[h])'
<1> USE DEF IInv, TypeOK
<1>1. CASE Start(h)
  <2>1. ASSUME NEW u \in Users, NEW id \in ConnIds,
               AcceptBegin(h, u, id) \/ RejectBegin(h, u, id)
        PROVE  Informed(req[h])'
    BY <2>1 DEF AcceptBegin, RejectBegin, DecideBegin, MayDecide, HasStatus, Begin,
                Informed, Exists, db
  <2>2. ASSUME NEW u \in Users, NEW n \in Nodes, NEW m \in Nodes, CreateBegin(h, u, n, m)
        PROVE  Informed(req[h])'
    BY <2>2 DEF CreateBegin, Begin, Informed
  <2>3. ASSUME NEW u \in Users, NEW id \in ConnIds,
               RemoveBegin(h, u, id) \/ RotateBegin(h, u, id)
        PROVE  Informed(req[h])'
    BY <2>3 DEF RemoveBegin, RotateBegin, Begin, Informed
  <2> QED
    BY <1>1, <2>1, <2>2, <2>3 DEF Start
<1>2. ASSUME End(h) PROVE Informed(req[h])'
  BY <1>2 DEF End, Informed, Idle
<1>3. CASE CreateCheck(h)
  <2>1. CASE Engaged(req[h].from, req[h].target)
    BY <1>2, <1>3, <2>1 DEF CreateCheck
  <2>2. CASE ~Engaged(req[h].from, req[h].target)
    <3>1. req'[h] = [req[h] EXCEPT !.step = "create.cleanup"] /\ rows' = rows
      BY <1>3, <2>2 DEF CreateCheck, Goto, db
    <3>2. req'[h].step = "create.cleanup" /\ req'[h].from = req[h].from
          /\ req'[h].target = req[h].target
      BY <3>1 DEF Request
    <3> QED
      BY <2>2, <3>1, <3>2 DEF Informed, Engaged, Links, HasStatus, Exists
  <2> QED
    BY <2>1, <2>2
<1>4. CASE CreateCleanup(h)
  <2>1. ~Engaged(req[h].from, req[h].target)
    BY <1>4 DEF CreateCleanup, At, Informed
  <2>2. req'[h].step = "create.insert" /\ req'[h].from = req[h].from
        /\ req'[h].target = req[h].target
    BY <1>4 DEF CreateCleanup, Goto, Request
  <2>3. ASSUME NEW id \in ConnIds, Links(id, req[h].from, req[h].target)'
        PROVE  FALSE
    <3>1. rows'[id] = IF StalePair(req[h].from, req[h].target, id) THEN None ELSE rows[id]
      BY <1>4 DEF CreateCleanup
    <3>2. rows'[id] # None /\ rows'[id].from = req[h].from /\ rows'[id].target = req[h].target
      BY <2>2, <2>3 DEF Links, Exists
    <3>3. Links(id, req[h].from, req[h].target) /\ ~StalePair(req[h].from, req[h].target, id)
      BY <3>1, <3>2 DEF Links, Exists
    <3>4. rows[id] \in Row
      BY <3>3 DEF Links, Exists
    <3>5. rows[id].status \in {"pending", "accepted"}
      BY <3>3, <3>4 DEF Row, Status, StalePair, HasStatus, Links
    <3> QED
      BY <2>1, <3>3, <3>5 DEF Engaged, HasStatus, Links
  <2> QED
    BY <2>2, <2>3 DEF Informed, PairFree
<1>5. CASE CreateInsert(h) \/ AcceptUpdate(h) \/ RejectUpdate(h)
  <2>1. req'[h].step \in {"create.email", "accept.from", "reject.from"}
    BY <1>5 DEF CreateInsert, AcceptUpdate, RejectUpdate, Goto, Request
  <2> QED
    BY <2>1 DEF Informed
<1> QED
  BY <1>1, <1>2, <1>3, <1>4, <1>5 DEF Proceed, Abandon, CreateInsertFails, CreateEmail,
     DecideReply, RemoveDelete, RotateUpdate

\* Nodes come and go: rows only go, and no request moves.
LEMMA DirectoryStep ==
  ASSUME IInv, [Next]_vars, ~\E h \in Requests : Start(h) \/ Proceed(h) \/ Abandon(h)
  PROVE  req' = req /\ \A id \in ConnIds : rows'[id] \in {rows[id], None}
  BY DEF IInv, TypeOK, Next, CreateNode, DeleteNode, Cascade, IssueToken, ExpireToken, vars

\* A request stays alone and informed until it meets another.
LEMMA AloneStep ==
  IInv /\ AloneAndInformed /\ [SequenceNext]_<<vars, overlap>> => AloneAndInformed'
<1> SUFFICES ASSUME IInv, AloneAndInformed, [SequenceNext]_<<vars, overlap>>, ~overlap'
             PROVE  ~InFlightTogether' /\ \A h \in Requests : Informed(req[h])'
  BY DEF AloneAndInformed
<1>1. [Next]_vars /\ ~overlap
  BY WatchedStep, NotYet
<1>2. ~InFlightTogether /\ \A h \in Requests : Informed(req[h])
  BY <1>1 DEF AloneAndInformed
<1>3. ~InFlightTogether'
  <2>1. CASE Watch
    BY <2>1 DEF Watch
  <2>2. CASE UNCHANGED <<vars, overlap>>
    BY <1>2, <2>2 DEF vars, InFlightTogether
  <2> QED
    BY <2>1, <2>2, WatchedStep
<1>4. ASSUME NEW h \in Requests, req'[h] = req[h],
             \A id \in ConnIds : rows'[id] \in {rows[id], None}
      PROVE  Informed(req[h])'
  <2>1. req[h] \in Request /\ (req[h].step \in {"accept.update", "reject.update"}
                                 => req[h].conn \in ConnIds)
    BY DEF IInv, TypeOK, InFlight, RowSteps
  <2> QED
    BY <1>2, <1>4, <2>1 DEF Informed, Engaged, PairFree, Links, HasStatus, Exists
<1>5. ASSUME NEW h \in Requests, NEW k \in Requests, Start(k) \/ Proceed(k) \/ Abandon(k)
      PROVE  Informed(req[h])'
  <2>1. CASE h = k
    BY <1>2, <1>5, <2>1, HandlerInforms
  <2>2. CASE h # k
    <3>1. req'[h] = req[h] /\ (rows' = rows \/ req[k] # Idle)
      BY <1>5, <2>2, HandlerStep DEF IInv
    <3>2. CASE req[h] = Idle
      BY <3>1, <3>2 DEF Informed, Idle
    <3>3. CASE req[h] # Idle
      BY <1>2, <1>4, <2>2, <3>1, <3>3 DEF InFlightTogether
    <3> QED
      BY <3>2, <3>3
  <2> QED
    BY <2>1, <2>2
<1> QED
  BY <1>1, <1>3, <1>4, <1>5, DirectoryStep

\* No request is in flight at first.
LEMMA AloneInit == SequenceInit => AloneAndInformed
  BY DEF SequenceInit, Init, AloneAndInformed, InFlightTogether, Informed, Idle

\* The watched directory is the directory: the history restricts nothing that
\* the theorems about Spec speak of.
THEOREM SequenceIsSpec == SequenceSpec => Spec
<1>1. SequenceInit => Init
  BY DEF SequenceInit
<1>2. [SequenceNext]_<<vars, overlap>> => [Next]_vars
  BY WatchedStep
<1> QED
  BY <1>1, <1>2, PTL DEF SequenceSpec, Spec

\* As long as no two requests have been in flight together, one is alone, and
\* what it read of the connections table still holds when it writes.
THEOREM AloneAndInformedHolds == SequenceSpec => []AloneAndInformed
<1> QED
  BY AloneInit, AloneStep, SequenceIsSpec, Invariance, PTL DEF SequenceSpec

\* The checks of createInvitation suffice for requests one at a time: whatever
\* nodes are deleted between its statements, its INSERT never meets the unique
\* index.
THEOREM InsertFindsPairFreeOneAtATime == SequenceSpec => []InsertFindsPairFreeInSequence
<1>1. AloneAndInformed => InsertFindsPairFreeInSequence
  BY DEF AloneAndInformed, Informed, InsertFindsPairFreeInSequence, InsertFindsPairFree, At
<1> QED
  BY <1>1, AloneAndInformedHolds, PTL

\* Without overlap a step that settles a link settles a pending one.
LEMMA StrictStep ==
  ASSUME IInv, AloneAndInformed, [SequenceNext]_<<vars, overlap>>, ~overlap'
  PROVE  LC!StrictNext \/ UNCHANGED LC!vars
<1>1. [Next]_vars /\ ~overlap
  BY WatchedStep, NotYet
<1>2. ASSUME NEW h \in Requests, Decision(h) PROVE LC!Decide({"pending"})
  <2>1. rows[req[h].conn].status = "pending"
    BY <1>1, <1>2 DEF AloneAndInformed, Informed, Decision, At
  <2> QED
    BY <1>2, <2>1 DEF Decision
<1> QED
  BY <1>1, <1>2, StepKinds DEF Other, Stutter, LC!StrictNext, LC!SettleStrict, LC!vars,
     linkBar, liveBar

\* acceptInvitation and rejectInvitation decide pending links only, and a
\* decision is final, as long as requests do not overlap: the abstract
\* lifecycle in its strict form.
THEOREM DecisionsFinalOneAtATime == SequenceSpec => StrictLifecycleInSequence
<1> QED
  BY StrictStep, AloneAndInformedHolds, SequenceIsSpec, Invariance, PTL
     DEF SequenceSpec, StrictLifecycleInSequence
=============================================================================
