----------------------------- MODULE PcfLifecycle -----------------------------
(***************************************************************************)
(* What the exchange of product carbon footprints promises, one request    *)
(* and one delivery at a time: a request is asked by one node; it may be   *)
(* recorded, and is pending then; it is settled, as fulfilled only if      *)
(* footprints were offered in answer to it; a settled request never goes   *)
(* back to pending; its record may vanish; and a footprint is delivered    *)
(* only if it was offered, and only to the node that asked or, when that   *)
(* node is served elsewhere, to one that bears its number here.            *)
(*                                                                         *)
(* Settle lets a settled request be settled again, as decisions that       *)
(* overlap do, and Misdeliver hands a footprint to a namesake of the node  *)
(* that asked (see PcfExchange).  StrictNext settles pending requests only *)
(* and delivers to nobody but the node that asked.                         *)
(***************************************************************************)

CONSTANTS Nodes,
          External,  \* those served elsewhere
          Aliases,   \* those whose number a node elsewhere may bear
          Events, Pfs, None

VARIABLES asker,     \* who asked each request, or None
          life,      \* what its record shows
          offered,   \* the sets of footprints offered in answer to it
          held       \* the footprints delivered to each node

vars == <<asker, life, offered, held>>

Settled == {"fulfilled", "rejected"}

Init == /\ asker   = [e \in Events |-> None]
        /\ life    = [e \in Events |-> "none"]
        /\ offered = [e \in Events |-> {}]
        /\ held    = [n \in Nodes |-> {}]

\* asked, and recorded in the same step or later
Ask(e, n) == /\ asker[e] = None
             /\ asker' = [asker EXCEPT ![e] = n]
             /\ \/ UNCHANGED life
                \/ life[e] = "none" /\ life' = [life EXCEPT ![e] = "pending"]
             /\ UNCHANGED <<offered, held>>

Record(e) == /\ asker[e] # None
             /\ life[e] = "none"
             /\ life' = [life EXCEPT ![e] = "pending"]
             /\ UNCHANGED <<asker, offered, held>>

Offer(e, P) == /\ asker[e] # None
               /\ offered' = [offered EXCEPT ![e] = @ \cup {P}]
               /\ UNCHANGED <<asker, life, held>>

Decide(from) == \E e \in Events, s \in Settled :
                   /\ life[e] \in from
                   /\ s = "fulfilled" => offered[e] # {}
                   /\ life' = [life EXCEPT ![e] = s]
                   /\ UNCHANGED <<asker, offered, held>>

Settle       == Decide({"pending"} \cup Settled)
SettleStrict == Decide({"pending"})

Hand(e, n, pf) == /\ pf \in UNION offered[e]
                  /\ held' = [held EXCEPT ![n] = @ \cup {pf}]
                  /\ UNCHANGED <<asker, life, offered>>

Deliver(e, pf) == asker[e] \in Nodes /\ Hand(e, asker[e], pf)

Misdeliver == \E e \in Events, n \in Aliases, pf \in Pfs :
                asker[e] \in External /\ Hand(e, n, pf)

Vanish == \E S \in SUBSET Events :
             /\ life' = [e \in Events |-> IF e \in S THEN "none" ELSE life[e]]
             /\ UNCHANGED <<asker, offered, held>>

Exchange == \E e \in Events : \/ \E n \in Nodes : Ask(e, n)
                              \/ Record(e)
                              \/ \E P \in SUBSET Pfs : Offer(e, P)
                              \/ \E pf \in Pfs : Deliver(e, pf)

Next       == Exchange \/ Settle \/ Vanish \/ Misdeliver
StrictNext == Exchange \/ SettleStrict \/ Vanish

Spec == Init /\ [][Next]_vars
=============================================================================
