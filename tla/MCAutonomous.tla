---------------------------- MODULE MCAutonomous -----------------------------
(* Two runs of the program for one agent, and a client that holds another   *)
(* agent's key and may resend what the runner signed, while the runner's    *)
(* own call is being served or later.  Two times, so that a request can     *)
(* differ from another with its nonce.  The scenarios are those of the      *)
(* demonstration: a payment, its replay, and a payment to be approved.      *)
EXTENDS Autonomous, TLC

CONSTANTS r1, mallory, agentA, agentB, keyA, keyB, first, second

MCOwner == keyA :> agentA @@ keyB :> agentB
MCKeyOf == r1 :> keyA @@ mallory :> keyB

MCScenarios ==
  <<[attempt |-> first,  expected |-> "ALLOW",            replay_of |-> 0],
    [attempt |-> first,  expected |-> "BLOCK",            replay_of |-> 1],
    [attempt |-> second, expected |-> "REQUIRE_APPROVAL", replay_of |-> 0]>>
=============================================================================
