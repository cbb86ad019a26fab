------------------------------ MODULE MCExternal -----------------------------
(***************************************************************************)
(* A small instance of ExternalSettlement: two interchangeable threads.    *)
(***************************************************************************)
EXTENDS ExternalSettlement, TLC

ThreadSymmetry == Permutations(Threads)
=============================================================================
