-------------------------- MODULE NodeConnections --------------------------
(***************************************************************************)
(* The directory's nodes, the connections table between them, and the      *)
(* access tokens issued over a connection                                  *)
(* (apps/api/src/services/node-connection-service.ts, node-service.ts and  *)
(* internal-node-auth-service.ts).                                         *)
(*                                                                         *)
(* The server keeps no state of its own: every HTTP request runs a handler *)
(* that awaits one SQL statement after another, and any number of handlers *)
(* interleave at those awaits.  A handler is therefore a small process:    *)
(* req[h] says where request h is and what it remembers of the rows it     *)
(* read.  Consecutive reads whose answer later steps cannot make harmful   *)
(* (ownership and type of a node never change; a node deleted meanwhile is *)
(* caught by the foreign keys) are one step; every read that decides a     *)
(* later write is a step apart from that write.                            *)
(*                                                                         *)
(* A handler that fails a check throws before writing anything; such a     *)
(* request is one that never started, or one that Abandons.                *)
(***************************************************************************)

CONSTANTS Nodes,          \* node ids the serial will hand out
          InternalNodes,  \* those created with type 'internal'
          OrgOf,          \* the organization owning each node
          Users,          \* users logged in, by what their token says of them
          UserOrg,        \* ... their organization
          RoleOf,         \* ... and their role
          ConnIds,        \* connection ids the serial will hand out
          Creds,          \* (client id, client secret) pairs yet to be generated
          Requests,       \* slots for requests in flight at the same time
          None            \* SQL null, absent

Roles == {"root", "administrator", "user"}

ASSUME NodesAssumption == /\ InternalNodes \subseteq Nodes
                          /\ None \notin Nodes

ASSUME UsersAssumption == /\ RoleOf \in [Users -> Roles]
                          /\ None \notin Users

ASSUME IdsAssumption == /\ None \notin ConnIds
                        /\ None \notin Creds

VARIABLES node,      \* "unborn", "live" or "deleted", for each node id
          rows,      \* the connections table: id -> row, or None
          ledger,    \* history: id -> the pair it was inserted for, or None
          minted,    \* history: credentials -> the connection they were generated for
          consent,   \* history: id -> the users whose accept reached its row
          tokens,    \* access tokens issued and not yet expired
          req        \* the requests in flight

db   == <<node, rows, ledger, minted, consent, tokens>>
vars == <<node, rows, ledger, minted, consent, tokens, req>>

Status == {"pending", "accepted", "rejected"}
Pair   == [from : Nodes, target : Nodes]
Row    == [from : Nodes, target : Nodes, cred : Creds, status : Status]
Token  == [conn : ConnIds, from : Nodes, target : Nodes, cred : Creds]

ASSUME NullAssumption == /\ None \notin Pair
                         /\ None \notin Row

Steps == {"idle", "create.existing", "create.cleanup", "create.insert",
          "create.email", "accept.update", "accept.from", "reject.update",
          "reject.from", "remove.delete", "rotate.update"}

Request == [step : Steps, user : Users \cup {None}, from : Nodes \cup {None},
            target : Nodes \cup {None}, conn : ConnIds \cup {None}]

Idle == [step |-> "idle", user |-> None, from |-> None, target |-> None,
         conn |-> None]

-----------------------------------------------------------------------------
(* Access: the policies each role is registered with, and the checks the   *)
(* handlers make of them.                                                  *)

PoliciesOf(role) ==
  CASE role = "root"          -> {"view-nodes-all-organizations",
                                  "edit-nodes-all-organizations",
                                  "manage-connections-all-nodes"}
    [] role = "administrator" -> {"view-nodes-own-organization",
                                  "edit-nodes-own-organization",
                                  "manage-connections-own-nodes"}
    [] role = "user"          -> {}

Holds(u, policy) == policy \in PoliciesOf(RoleOf[u])
OwnNode(u, n)    == UserOrg[u] = OrgOf[n]

CanView(u, n) == \/ Holds(u, "view-nodes-all-organizations")
                 \/ Holds(u, "view-nodes-own-organization") /\ OwnNode(u, n)

CanEdit(u, n) == \/ Holds(u, "edit-nodes-all-organizations")
                 \/ Holds(u, "edit-nodes-own-organization") /\ OwnNode(u, n)

CanManage(u, n) == \/ Holds(u, "manage-connections-all-nodes")
                   \/ Holds(u, "manage-connections-own-nodes") /\ OwnNode(u, n)

Live(n) == node[n] = "live"

\* NodeService.get answers, rather than throwing NotFound or Forbidden
Visible(u, n) == Live(n) /\ CanView(u, n)

-----------------------------------------------------------------------------
(* The connections table.                                                  *)

Exists(id)         == rows[id] # None
HasStatus(id, S)   == Exists(id) /\ rows[id].status \in S
Links(id, n, m)    == Exists(id) /\ rows[id].from = n /\ rows[id].target = m

\* the SELECT that refuses a second invitation
Engaged(n, m) == \E id \in ConnIds : /\ Links(id, n, m)
                                     /\ HasStatus(id, {"pending", "accepted"})

\* faulty variant: only the reverse direction is cleaned
ReverseStale(n, m, id) == Links(id, m, n) /\ HasStatus(id, {"rejected"})

\* the DELETE of earlier rejections, in either direction
StalePair(n, m, id) == /\ Links(id, n, m) \/ Links(id, m, n)
                       /\ HasStatus(id, {"rejected"})

\* faulty variant: without the index
NoIndex(n, m) == TRUE

\* the unique index on (from_node_id, target_node_id)
PairFree(n, m) == ~ \E id \in ConnIds : Links(id, n, m)

\* faulty variant: without the foreign keys
NoForeignKey(n, m) == TRUE

\* the foreign keys of the table, checked by INSERT ...
ForeignKeysHold(n, m) == Live(n) /\ Live(m)

\* faulty variant: ON DELETE SET NULL
CascadeSetsNull(n) == [id \in ConnIds |->
                        IF Exists(id) /\ rows[id].from = n
                        THEN [rows[id] EXCEPT !.from = None] ELSE rows[id]]
\* faulty variant: no cascade from the target node
CascadeFromOnly(n) == [id \in ConnIds |->
                        IF Exists(id) /\ rows[id].from = n THEN None ELSE rows[id]]

\* ... and cascading on DELETE of a node
Cascade(n) == [id \in ConnIds |->
                 IF Exists(id) /\ n \in {rows[id].from, rows[id].target}
                 THEN None ELSE rows[id]]

\* faulty variant: an upsert of the row that was read
UpsertStatus(id, s) ==
  [rows EXCEPT ![id] = [from |-> ledger[id].from, target |-> ledger[id].target,
                        cred |-> CHOOSE c \in Creds : minted[c] = id, status |-> s]]

\* UPDATE connections SET status = s WHERE id = id: no row, no effect
WithStatus(id, s) ==
  IF Exists(id) THEN [rows EXCEPT ![id].status = s] ELSE rows

\* UPDATE connections SET clientId, clientSecret WHERE id = id
WithCred(id, c) ==
  IF Exists(id) THEN [rows EXCEPT ![id].cred = c] ELSE rows

-----------------------------------------------------------------------------
(* Where a request is.                                                     *)

At(h, s) == req[h].step = s

Begin(h, s, u, n, m, id) ==
  /\ req[h] = Idle
  /\ req' = [req EXCEPT ![h] = [step |-> s, user |-> u, from |-> n,
                                target |-> m, conn |-> id]]

Goto(h, s) == req' = [req EXCEPT ![h].step = s]
End(h)     == req' = [req EXCEPT ![h] = Idle]

-----------------------------------------------------------------------------
(* createInvitation: look up both nodes, refuse if the pair is engaged,    *)
(* clear rejected rows, insert, send the e-mail.                           *)

CreateBegin(h, u, n, m) ==
  /\ n # m
  /\ Visible(u, n) /\ Visible(u, m)
  /\ CanManage(u, n)
  /\ Begin(h, "create.existing", u, n, m, None)
  /\ UNCHANGED db

CreateCheck(h) ==
  /\ At(h, "create.existing")
  /\ IF Engaged(req[h].from, req[h].target)
     THEN End(h)
     ELSE Goto(h, "create.cleanup")
  /\ UNCHANGED db

CreateCleanup(h) ==
  /\ At(h, "create.cleanup")
  /\ rows' = [id \in ConnIds |->
                IF StalePair(req[h].from, req[h].target, id)
                THEN None ELSE rows[id]]
  /\ Goto(h, "create.insert")
  /\ UNCHANGED <<node, ledger, minted, consent, tokens>>

CreateInsert(h) ==
  LET n == req[h].from
      m == req[h].target
  IN /\ At(h, "create.insert")
     /\ PairFree(n, m) /\ ForeignKeysHold(n, m)
     /\ \E id \in ConnIds, c \in Creds :
          /\ ledger[id] = None
          /\ minted[c] = None
          /\ rows' = [rows EXCEPT ![id] = [from |-> n, target |-> m,
                                           cred |-> c, status |-> "pending"]]
          /\ ledger' = [ledger EXCEPT ![id] = [from |-> n, target |-> m]]
          /\ minted' = [minted EXCEPT ![c] = id]
     /\ Goto(h, "create.email")
     /\ UNCHANGED <<node, consent, tokens>>

\* the INSERT raises a constraint violation: a 500, nothing written
CreateInsertFails(h) ==
  /\ At(h, "create.insert")
  /\ ~ (PairFree(req[h].from, req[h].target)
          /\ ForeignKeysHold(req[h].from, req[h].target))
  /\ End(h)
  /\ UNCHANGED db

\* the e-mail goes out, or the mail service throws: the row is there already
CreateEmail(h) ==
  /\ At(h, "create.email")
  /\ End(h)
  /\ UNCHANGED db

-----------------------------------------------------------------------------
(* acceptInvitation and rejectInvitation: read the pending row and its     *)
(* target node, UPDATE by id alone, then look up the inviting node for the *)
(* log.  A lookup that throws fails a request whose UPDATE has committed.  *)

\* faulty variant: any row may be decided
DecideNoGuard(u, id) == HasStatus(id, Status)
\* faulty variant: the inviting side decides
DecideFromSide(u, id) == /\ HasStatus(id, {"pending"})
                         /\ Visible(u, rows[id].from)
                         /\ CanManage(u, rows[id].from)

MayDecide(u, id) == /\ HasStatus(id, {"pending"})
                    /\ Visible(u, rows[id].target)
                    /\ CanManage(u, rows[id].target)

DecideBegin(h, u, id, s) ==
  /\ MayDecide(u, id)
  /\ Begin(h, s, u, rows[id].from, rows[id].target, id)
  /\ UNCHANGED db

AcceptBegin(h, u, id) == DecideBegin(h, u, id, "accept.update")
RejectBegin(h, u, id) == DecideBegin(h, u, id, "reject.update")

AcceptUpdate(h) ==
  LET id == req[h].conn
  IN /\ At(h, "accept.update")
     /\ rows' = WithStatus(id, "accepted")
     /\ consent' = IF Exists(id)
                   THEN [consent EXCEPT ![id] = @ \cup {req[h].user}]
                   ELSE consent
     /\ Goto(h, "accept.from")
     /\ UNCHANGED <<node, ledger, minted, tokens>>

RejectUpdate(h) ==
  /\ At(h, "reject.update")
  /\ rows' = WithStatus(req[h].conn, "rejected")
  /\ Goto(h, "reject.from")
  /\ UNCHANGED <<node, ledger, minted, consent, tokens>>

DecideReply(h) ==
  /\ At(h, "accept.from") \/ At(h, "reject.from")
  /\ End(h)
  /\ UNCHANGED db

-----------------------------------------------------------------------------
(* removeConnection: any status; both nodes must be visible.               *)

MayRemove(u, id) ==
  /\ Exists(id)
  /\ Visible(u, rows[id].from) /\ Visible(u, rows[id].target)
  /\ CanManage(u, rows[id].from) \/ CanManage(u, rows[id].target)

RemoveBegin(h, u, id) ==
  /\ MayRemove(u, id)
  /\ Begin(h, "remove.delete", u, rows[id].from, rows[id].target, id)
  /\ UNCHANGED db

RemoveDelete(h) ==
  /\ At(h, "remove.delete")
  /\ rows' = [rows EXCEPT ![req[h].conn] = None]
  /\ End(h)
  /\ UNCHANGED <<node, ledger, minted, consent, tokens>>

-----------------------------------------------------------------------------
(* rotateCredentials: read the accepted row and its from node, UPDATE the  *)
(* credentials by id alone.                                                *)

RotateBegin(h, u, id) ==
  /\ HasStatus(id, {"accepted"})
  /\ Visible(u, rows[id].from)
  /\ CanManage(u, rows[id].from)
  /\ Begin(h, "rotate.update", u, rows[id].from, rows[id].target, id)
  /\ UNCHANGED db

RotateUpdate(h) ==
  LET id == req[h].conn
  IN /\ At(h, "rotate.update")
     /\ \E c \in Creds :
          /\ minted[c] = None
          /\ rows' = WithCred(id, c)
          /\ minted' = [minted EXCEPT ![c] = id]
     /\ End(h)
     /\ UNCHANGED <<node, ledger, consent, tokens>>

-----------------------------------------------------------------------------
(* Nodes come and go; a deleted node's id is never used again.             *)

CreateNode(u, n) ==
  /\ node[n] = "unborn"
  /\ CanEdit(u, n)
  /\ node' = [node EXCEPT ![n] = "live"]
  /\ UNCHANGED <<rows, ledger, minted, consent, tokens, req>>

DeleteNode(u, n) ==
  /\ Visible(u, n) /\ CanEdit(u, n)
  /\ node' = [node EXCEPT ![n] = "deleted"]
  /\ rows' = Cascade(n)
  /\ UNCHANGED <<ledger, minted, consent, tokens, req>>

-----------------------------------------------------------------------------
(* generateToken: one SELECT decides; the token names what it returned.    *)

\* faulty variant: credentials of any row are good
AnyStatus(id, n, c) == /\ Exists(id) /\ rows[id].target = n /\ rows[id].cred = c
                       /\ Live(rows[id].from)

Verifies(id, n, c) == /\ HasStatus(id, {"accepted"})
                      /\ rows[id].target = n
                      /\ rows[id].cred = c
                      /\ Live(rows[id].from)

IssueToken(n, c) ==
  /\ Live(n) /\ n \in InternalNodes
  /\ \E id \in ConnIds :
       /\ Verifies(id, n, c)
       /\ tokens' = tokens \cup {[conn |-> id, from |-> rows[id].from,
                                  target |-> n, cred |-> c]}
  /\ UNCHANGED <<node, rows, ledger, minted, consent, req>>

\* an hour passes; nothing else ends a token
ExpireToken(t) ==
  /\ tokens' = tokens \ {t}
  /\ UNCHANGED <<node, rows, ledger, minted, consent, req>>

\* the process dies, the client's connection pool fails, a later check throws
Abandon(h) ==
  /\ req[h] # Idle
  /\ End(h)
  /\ UNCHANGED db

-----------------------------------------------------------------------------
Init == /\ node    = [n \in Nodes |-> "unborn"]
        /\ rows    = [id \in ConnIds |-> None]
        /\ ledger  = [id \in ConnIds |-> None]
        /\ minted  = [c \in Creds |-> None]
        /\ consent = [id \in ConnIds |-> {}]
        /\ tokens  = {}
        /\ req     = [h \in Requests |-> Idle]

Start(h) == \E u \in Users :
              \/ \E n, m \in Nodes : CreateBegin(h, u, n, m)
              \/ \E id \in ConnIds : \/ AcceptBegin(h, u, id)
                                     \/ RejectBegin(h, u, id)
                                     \/ RemoveBegin(h, u, id)
                                     \/ RotateBegin(h, u, id)

Proceed(h) == \/ CreateCheck(h) \/ CreateCleanup(h) \/ CreateInsert(h)
              \/ CreateInsertFails(h) \/ CreateEmail(h)
              \/ AcceptUpdate(h) \/ RejectUpdate(h) \/ DecideReply(h)
              \/ RemoveDelete(h) \/ RotateUpdate(h)

Next == \/ \E h \in Requests : Start(h) \/ Proceed(h) \/ Abandon(h)
        \/ \E u \in Users, n \in Nodes : CreateNode(u, n) \/ DeleteNode(u, n)
        \/ \E n \in Nodes, c \in Creds : IssueToken(n, c)
        \/ \E t \in tokens : ExpireToken(t)

Spec == Init /\ [][Next]_vars
-----------------------------------------------------------------------------
(* Type invariant.                                                         *)

\* Every row, request and token has the shape its table or handler gives it.
TypeOK == /\ node \in [Nodes -> {"unborn", "live", "deleted"}]
          /\ rows \in [ConnIds -> Row \cup {None}]
          /\ ledger \in [ConnIds -> Pair \cup {None}]
          /\ minted \in [Creds -> ConnIds \cup {None}]
          /\ consent \in [ConnIds -> SUBSET Users]
          /\ tokens \subseteq Token
          /\ req \in [Requests -> Request]

\* Two createInvitation handlers may both find the pair free; still, no two
\* rows ever join the same ordered pair of nodes, nor a node to itself.
OnePerPair ==
  \A i, j \in ConnIds :
    Exists(i) /\ Exists(j)
      => /\ rows[i].from # rows[i].target
         /\ rows[i].from = rows[j].from /\ rows[i].target = rows[j].target => i = j

\* No row outlives either of its nodes, however a node's deletion
\* interleaves with an invitation, an acceptance or a rotation.
NoDangling ==
  \A id \in ConnIds : Exists(id) => Live(rows[id].from) /\ Live(rows[id].target)

HasConsent(id, n) == \E u \in consent[id] : CanManage(u, n)

\* Every access token in circulation was issued for credentials generated
\* for its own connection, names the two nodes that connection was made
\* for, and some user who manages the target node accepted that very
\* invitation, whatever has become of the row since.
TokenProvenance ==
  \A t \in tokens :
    /\ ledger[t.conn] = [from |-> t.from, target |-> t.target]
    /\ minted[t.cred] = t.conn
    /\ t.target \in InternalNodes
    /\ HasConsent(t.conn, t.target)

\* A row, once deleted, never comes back: an accept, reject or rotation
\* that read it before the deletion writes nothing.
NoRevival ==
  [][\A id \in ConnIds : ledger[id] # None /\ ~Exists(id) => rows'[id] = None]_vars

\* The INSERT of createInvitation does not meet the unique index: its checks
\* still hold when it runs.  True of requests that do not overlap.
InsertFindsPairFree ==
  \A h \in Requests : At(h, "create.insert") => PairFree(req[h].from, req[h].target)

\* An accept that has committed goes on to answer with the credentials: the
\* lookup of the inviting node that follows it is allowed to this user.
CommittedAcceptAnswers ==
  \A h \in Requests : At(h, "accept.from") => CanView(req[h].user, req[h].from)

-----------------------------------------------------------------------------
(* What makes the safety invariants inductive: what a request in flight    *)
(* may rely on, and what the table owes to the history.                    *)

CreateSteps == {"create.existing", "create.cleanup", "create.insert", "create.email"}
RowSteps    == {"accept.update", "accept.from", "reject.update", "reject.from",
                "remove.delete", "rotate.update"}

\* A request's ids are well formed; one about to accept works for a user
\* who manages the target of the invitation it read.
InFlight ==
  \A h \in Requests :
    /\ req[h].step # "idle"
         => req[h].from \in Nodes /\ req[h].target \in Nodes /\ req[h].user \in Users
    /\ req[h].step \in CreateSteps => req[h].from # req[h].target
    /\ req[h].step \in RowSteps
         => /\ req[h].conn \in ConnIds
            /\ ledger[req[h].conn] = [from |-> req[h].from, target |-> req[h].target]
    /\ req[h].step = "accept.update" => CanManage(req[h].user, req[h].target)

\* A row joins the nodes it was inserted for, holds credentials generated
\* for it, and is accepted only with consent.
RowsBacked ==
  \A id \in ConnIds :
    Exists(id) => /\ ledger[id] = [from |-> rows[id].from, target |-> rows[id].target]
                  /\ minted[rows[id].cred] = id
                  /\ rows[id].status = "accepted" => HasConsent(id, rows[id].target)

IInv == /\ TypeOK
        /\ InFlight
        /\ RowsBacked
        /\ OnePerPair
        /\ NoDangling
        /\ TokenProvenance

-----------------------------------------------------------------------------
(* The connections table implements ConnectionLifecycle.                   *)

AllPairs == {p \in Nodes \X Nodes : p[1] # p[2]}

\* the status of the row of a table that links p, "none" if no row does
LinksIn(table, id, p) ==
  table[id] # None /\ table[id].from = p[1] /\ table[id].target = p[2]

StatusIn(table, p) ==
  IF \E id \in ConnIds : LinksIn(table, id, p)
  THEN table[CHOOSE id \in ConnIds : LinksIn(table, id, p)].status
  ELSE "none"

LC == INSTANCE ConnectionLifecycle
        WITH live <- {n \in Nodes : Live(n)},
             link <- [p \in AllPairs |-> StatusIn(rows, p)]

\* Seen one link at a time, every step of every interleaving is a step of
\* the abstract lifecycle.
ImplementsLifecycle == LC!Spec
=============================================================================
