------------------------ MODULE ConnectionsInSequence ------------------------
(***************************************************************************)
(* NodeConnections together with a history: have two requests ever been in *)
(* flight together?  A check of a handler and the write it admits are      *)
(* statements apart; what the checks alone are worth shows as long as no   *)
(* other request comes in between.  Nodes are still created and deleted,   *)
(* tokens issued and expired, and requests die anywhere.                   *)
(***************************************************************************)
EXTENDS NodeConnections

VARIABLE overlap    \* history: see above

InFlightTogether == \E h \in Requests : \E k \in Requests \ {h} : req[h] # Idle /\ req[k] # Idle

Watch == overlap' = (overlap \/ InFlightTogether')

\* Next, watched
SequenceNext ==
  \/ \E h \in Requests :
       \/ \E u \in Users :
            \/ \E n, m \in Nodes : CreateBegin(h, u, n, m) /\ Watch
            \/ \E id \in ConnIds : \/ AcceptBegin(h, u, id) /\ Watch
                                   \/ RejectBegin(h, u, id) /\ Watch
                                   \/ RemoveBegin(h, u, id) /\ Watch
                                   \/ RotateBegin(h, u, id) /\ Watch
       \/ CreateCheck(h) /\ Watch
       \/ CreateCleanup(h) /\ Watch
       \/ CreateInsert(h) /\ Watch
       \/ CreateInsertFails(h) /\ Watch
       \/ CreateEmail(h) /\ Watch
       \/ DecideReply(h) /\ Watch
       \/ AcceptUpdate(h) /\ Watch
       \/ RejectUpdate(h) /\ Watch
       \/ RemoveDelete(h) /\ Watch
       \/ RotateUpdate(h) /\ Watch
       \/ Abandon(h) /\ Watch
  \/ \E u \in Users, n \in Nodes : \/ CreateNode(u, n) /\ Watch
                                   \/ DeleteNode(u, n) /\ Watch
  \/ \E n \in Nodes, c \in Creds : IssueToken(n, c) /\ Watch
  \/ \E t \in tokens : ExpireToken(t) /\ Watch

SequenceInit == Init /\ overlap = FALSE

SequenceSpec == SequenceInit /\ [][SequenceNext]_<<vars, overlap>>

-----------------------------------------------------------------------------
(* What a request that is alone may rely on.                               *)

Informed(r) ==
  /\ r.step = "create.cleanup" => ~Engaged(r.from, r.target)
  /\ r.step = "create.insert"  => PairFree(r.from, r.target)
  /\ r.step \in {"accept.update", "reject.update"} /\ Exists(r.conn)
       => rows[r.conn].status = "pending"

\* A request that has never met another one is alone, and what it read of
\* the table is still true when it writes.
AloneAndInformed ==
  ~overlap => ~InFlightTogether /\ \A h \in Requests : Informed(req[h])

-----------------------------------------------------------------------------
\* As long as requests do not overlap, the checks of createInvitation suffice:
\* its INSERT never meets the unique index.
InsertFindsPairFreeInSequence == ~overlap => InsertFindsPairFree

\* ... and a decision is final: only pending links are decided (the abstract
\* lifecycle in its strict form).
StrictLifecycleInSequence ==
  [][~overlap' => LC!StrictNext \/ UNCHANGED LC!vars]_<<vars, overlap>>
=============================================================================
