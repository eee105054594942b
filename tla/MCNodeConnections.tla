------------------------- MODULE MCNodeConnections -------------------------
(* Instances of NodeConnections for TLC: two organizations with one node   *)
(* each (n3, where there is one, belongs to the first), an administrator   *)
(* of each, and a root user.                                               *)
EXTENDS ConnectionsInSequence, TLC

CONSTANTS n1, n2, admin1, admin2, root1, org1, org2, c1, c2, k1, k2, k3, h1, h2

TwoNodes == {n1, n2}
Internal == {n2}
Owner    == n1 :> org1 @@ n2 :> org2
Everyone == {admin2, root1}
OrgOfUser == admin1 :> org1 @@ admin2 :> org2 @@ root1 :> org1
RoleOfUser == admin2 :> "administrator" @@ root1 :> "root"
TwoIds   == {c1, c2}
TwoCreds == {k1, k2}
ThreeCreds == {k1, k2, k3}
OneSlot  == {h1}
TwoSlots == {h1, h2}

Symm == Permutations(TwoIds) \cup Permutations(ThreeCreds) \cup Permutations(TwoSlots)
=============================================================================
