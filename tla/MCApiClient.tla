----------------------------- MODULE MCApiClient -----------------------------
(* Instances of ApiClient for TLC: a clock in units of the lag.            *)
EXTENDS ApiClient, TLC

Symm == Permutations(Calls)
=============================================================================
