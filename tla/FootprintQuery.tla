---------------------------- MODULE FootprintQuery ----------------------------
(***************************************************************************)
(* The query of a node's footprints by a data recipient, as pure operators *)
(* (getFootprints of apps/api/src/services/internal-node-pact-service.ts): *)
(* which footprints a filter selects, and which page links go with an      *)
(* answer.                                                                 *)
(*                                                                         *)
(* A footprint is what the filters see of its JSON: for each criterion the *)
(* set of its values (its geography is the set of its country, region and  *)
(* subdivision), its status, and the dates of its validity.  A filter      *)
(* gives for each criterion the values asked for, {} when it is not given, *)
(* and None for a status or date that is not given.                        *)
(***************************************************************************)
EXTENDS FiniteSets, Integers

CONSTANTS None,           \* undefined, SQL null
          DefaultLimit,   \* rows per page when none are asked for: 10
          ThreeYears      \* interval '3 years', in the unit of the dates

ASSUME LimitAssumption == DefaultLimit \in Nat \ {0}
ASSUME IntervalAssumption == ThreeYears \in Nat
ASSUME NoneAssumption == None \notin Int

Criteria == {"productId", "companyId", "geography", "classification"}

-----------------------------------------------------------------------------
(* Filters.                                                                *)

\* the validity of a footprint, from its reference period unless stated
ValidFrom(fp) == IF fp.start # None THEN fp.start ELSE fp.refEnd

ValidTo(fp)   == IF fp.end # None THEN fp.end
                 ELSE IF fp.refEnd # None THEN fp.refEnd + ThreeYears ELSE None

\* SQL comparisons: null compares to nothing
Before(d, e)   == d # None /\ e # None /\ d < e
NotAfter(d, e) == d # None /\ e # None /\ d <= e

SomeValue(fp, f, c) == f.any[c] = {} \/ f.any[c] \cap fp.has[c] # {}

\* faulty variant: the period ends before its last day
OnBeforeEnd(fp, d) == NotAfter(ValidFrom(fp), d) /\ Before(d, ValidTo(fp))

ValidOn(fp, d)     == NotAfter(ValidFrom(fp), d) /\ NotAfter(d, ValidTo(fp))
ValidAfter(fp, d)  == Before(d, ValidFrom(fp))
ValidBefore(fp, d) == Before(ValidTo(fp), d)

Matches(fp, f) ==
  /\ \A c \in Criteria : SomeValue(fp, f, c)
  /\ f.status \in {None, fp.status}
  /\ f.validOn # None     => ValidOn(fp, f.validOn)
  /\ f.validAfter # None  => ValidAfter(fp, f.validAfter)
  /\ f.validBefore # None => ValidBefore(fp, f.validBefore)

\* exactly one of the three filters for a date selects a footprint, unless
\* its period lacks an end or ends before it starts
Splits(fp, d) ==
  NotAfter(ValidFrom(fp), ValidTo(fp))
    => /\ ValidBefore(fp, d) \/ ValidOn(fp, d) \/ ValidAfter(fp, d)
       /\ ~ (ValidBefore(fp, d) /\ ValidOn(fp, d))
       /\ ~ (ValidOn(fp, d) /\ ValidAfter(fp, d))
       /\ ~ (ValidBefore(fp, d) /\ ValidAfter(fp, d))

NoFilter == [any |-> [c \in Criteria |-> {}], status |-> None,
             validOn |-> None, validAfter |-> None, validBefore |-> None]

-----------------------------------------------------------------------------
(* Pages.                                                                  *)

\* limit || 10: zero counts as not given
Limit(l) == IF l \in {None, 0} THEN DefaultLimit ELSE l

\* faulty variant: off by one when the total is a multiple of the limit
LastPastEnd(total, limit) == (total \div limit) * limit

LastOffset(total, limit) == ((total - 1) \div limit) * limit

Relations == {"first", "prev", "next", "last"}

\* faulty variant: next and last whatever the total
MoreAlways(total, limit, offset) == TRUE

\* faulty variant: off by one at the end
MoreAfterShort(total, limit, offset) == offset + limit + 1 < total

MoreAfter(total, limit, offset) == offset + limit < total

Rels(total, limit, offset) ==
  {rel \in {"first", "prev"} : offset > 0}
    \cup {rel \in {"next", "last"} : MoreAfter(total, limit, offset)}

Target(rel, total, limit, offset) ==
  CASE rel = "first" -> 0
    [] rel = "prev"  -> IF offset > limit THEN offset - limit ELSE 0
    [] rel = "next"  -> offset + limit
    [] rel = "last"  -> LastOffset(total, limit)

\* the Link header: where each relation leads, None for those left out
Links(total, limit, offset) ==
  [rel \in Relations |-> IF rel \in Rels(total, limit, offset)
                         THEN Target(rel, total, limit, offset) ELSE None]

NoLinks == [rel \in Relations |-> None]
=============================================================================
