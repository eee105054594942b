--------------------------- MODULE MCFootprintPages ---------------------------
(* Instances of FootprintPages for TLC: a node with up to three footprints *)
(* of two kinds, one valid for a stated period, one from its reference     *)
(* period on.                                                              *)
EXTENDS FootprintPages, TLC

CONSTANTS r1, r2, r3, Active, FR, DE

Kind(place, start, end, refEnd) ==
  [has |-> [c \in Criteria |-> IF c = "geography" THEN {place} ELSE {}],
   status |-> Active, start |-> start, end |-> end, refEnd |-> refEnd]

Stated  == Kind(FR, 2, 3, 1)
Derived == Kind(DE, None, None, 1)

TwoKinds == {Stated, Derived}

InFrance == [NoFilter EXCEPT !.any = [@ EXCEPT !["geography"] = {FR}]]

TwoQueries == {NoFilter, InFrance}

Symm == Permutations(Rows)
=============================================================================
