------------------------------- MODULE MCAudit -------------------------------
(***************************************************************************)
(* Bounds: a window of three receipts, so that it has a middle, and two    *)
(* publish calls more than it holds, so that receipts are dropped; two     *)
(* subscriptions, so that one may replay while the other is live; two      *)
(* outcomes, so that one can be put in the place of the other.             *)
(***************************************************************************)
EXTENDS Audit, TLC

Interchangeable ==
  Permutations(Threads) \cup Permutations(Subscriptions) \cup Permutations(Outcomes)
=============================================================================
