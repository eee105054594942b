------------------------ MODULE ConnectionLifecycle ------------------------
(***************************************************************************)
(* What the connection subsystem promises, one link at a time: between two *)
(* nodes of the directory there is at most one link in each direction; it  *)
(* appears as a pending invitation, it is settled by a decision of the     *)
(* target side, it may be withdrawn, rejected links may be cleared away,   *)
(* and it never outlives either of its nodes.                              *)
(*                                                                         *)
(* Settle lets a settled link be settled again.  The code does that when   *)
(* two decisions on one invitation overlap (see NodeConnections); the      *)
(* promise that holds of a server handling one request at a time,          *)
(* StrictNext, settles pending links only.                                 *)
(***************************************************************************)

CONSTANT Nodes      \* every node id the directory will ever hand out

VARIABLES live,     \* the nodes that exist now
          link      \* the status of the link from p[1] to p[2]

vars == <<live, link>>

Pairs == {p \in Nodes \X Nodes : p[1] # p[2]}

Settled  == {"accepted", "rejected"}
Statuses == {"none", "pending"} \cup Settled

Init == /\ live = {}
        /\ link = [p \in Pairs |-> "none"]

Join == \E n \in Nodes : live' = live \cup {n} /\ UNCHANGED link

Invite == \E p \in Pairs :
             /\ link[p] = "none"
             /\ {p[1], p[2]} \subseteq live
             /\ link' = [link EXCEPT ![p] = "pending"]
             /\ UNCHANGED live

Decide(from) == \E p \in Pairs, s \in Settled :
                   /\ link[p] \in from
                   /\ link' = [link EXCEPT ![p] = s]
                   /\ UNCHANGED live

Settle       == Decide({"pending"} \cup Settled)
SettleStrict == Decide({"pending"})

Withdraw == \E p \in Pairs : /\ link' = [link EXCEPT ![p] = "none"]
                             /\ UNCHANGED live

ClearRejected == \E S \in SUBSET {p \in Pairs : link[p] = "rejected"} :
                    /\ link' = [p \in Pairs |-> IF p \in S THEN "none" ELSE link[p]]
                    /\ UNCHANGED live

Retire == \E n \in Nodes :
             /\ live' = live \ {n}
             /\ link' = [p \in Pairs |-> IF n \in {p[1], p[2]} THEN "none"
                                                               ELSE link[p]]

Next == Join \/ Invite \/ Settle \/ Withdraw \/ ClearRejected \/ Retire

StrictNext == Join \/ Invite \/ SettleStrict \/ Withdraw \/ ClearRejected \/ Retire

Spec == Init /\ [][Next]_vars

StrictSpec == Init /\ [][StrictNext]_vars
=============================================================================
