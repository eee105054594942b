----------------------------- MODULE MCPortalTable -----------------------------
(* Instances of PortalTable for TLC: five rows on pages of two, the second *)
(* and third of one name; two of the rows match the one term.              *)
EXTENDS PortalTable, TLC

CONSTANTS all, a, s1, s2

Symm == Permutations({s1, s2})

TwoTerms == {all, a}
MCMatch  == [t \in TwoTerms |-> IF t = all THEN Rows ELSE {1, 3}]
MCName   == [r \in Rows |-> IF r < 3 THEN r ELSE r - 1]
MCOrders == {<<1, 2, 3, 4, 5>>, <<1, 3, 2, 4, 5>>}

\* bound: while a bulk action is under way at most one load is
OneLoadBesides == bulk # None => \E s \in Slots : Free(s)
=============================================================================
