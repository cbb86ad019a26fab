------------------------------ MODULE MCGateway ------------------------------
(***************************************************************************)
(* Two instances.  RacingRequests: an original, an altered copy with the   *)
(* same nonce, and a payment to a hard-blocked recipient.  LedgerRequests: *)
(* two payments with nonces of their own, which the balance covers one by  *)
(* one and not together, and one of an agent that has a mandate but no     *)
(* balance.                                                                *)
(***************************************************************************)
EXTENDS Gateway, TLC

Request(agent, nonce, recipient, amount, expires) ==
  [agent |-> agent, nonce |-> nonce, mandate |-> "m1", recipient |-> recipient,
   amount |-> amount, expires |-> expires]

Original  == Request("alice", "n1", "shop", 2, 2)
Altered   == Request("alice", "n1", "kiosk", 1, 2)
Forbidden == Request("alice", "n2", "thief", 1, 2)
Second    == Request("alice", "n3", "shop", 2, 1)
Unfunded  == Request("bob", "n1", "shop", 1, 2)

RacingRequests == {Original, Altered, Forbidden}
LedgerRequests == {Original, Second, Unfunded}

MCMandates ==
  [a \in {"alice", "bob"} |-> [id |-> "m1", limit |-> 2, blocked |-> {"thief"},
                               allowed |-> {}]]

MCInitialBalances == [a \in {"alice"} |-> 3]

AllSteps == RaisingSteps
NoSteps == {}

ThreadSymmetry == Permutations(Threads)
=============================================================================
