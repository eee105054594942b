------------------------------ MODULE MCAccounts ------------------------------
(* Instances of Accounts for TLC: one organization, its founder and a      *)
(* colleague.                                                              *)
EXTENDS Accounts, TLC

CONSTANTS ann, bob

OneOrganization == ann :> ann @@ bob :> ann

\* every status is asked for, a role alone, and a role with a status
BodiesOfRequests == [role : {None}, status : {"enabled", "disabled", "unverified"}]
  \cup {[role |-> "root", status |-> None], [role |-> "user", status |-> "deleted"]}

TokenSymmetry == Permutations(Tokens) \cup Permutations(Slots)

\* bound: nobody holds valid JWTs of two roles
OneRoleEach == \A u \in Users : Cardinality(session[u]) <= 1
=============================================================================
