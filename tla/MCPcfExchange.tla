---------------------------- MODULE MCPcfExchange ----------------------------
(* Instances of PcfExchange for TLC: two internal nodes and an external    *)
(* partner.                                                                *)
EXTENDS PcfExchange, TLC

CONSTANTS a, b, x, ab, ba, ax, xa, s1, s2

MCLinkOf == ab :> [from |-> a, target |-> b] @@ ba :> [from |-> b, target |-> a]
         @@ ax :> [from |-> a, target |-> x] @@ xa :> [from |-> x, target |-> a]

LocalLinks == ab :> [from |-> a, target |-> b] @@ ba :> [from |-> b, target |-> a]

PartnerLinks == ax :> [from |-> a, target |-> x] @@ xa :> [from |-> x, target |-> a]

Symm == Permutations({s1, s2})
=============================================================================
