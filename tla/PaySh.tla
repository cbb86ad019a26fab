-------------------------------- MODULE PaySh --------------------------------
(***************************************************************************)
(* The pay.sh adapter's reading of an MPP charge challenge (paysh.py).     *)
(*                                                                         *)
(* A challenge is [status, authenticate, wellFormed, minor, decimals,      *)
(* recipient, expires]: authenticate says that the WWW-Authenticate header *)
(* is there, wellFormed that its parameters are those of a Solana charge   *)
(* on localnet in USDC and within their bounds.  The scale of the amount   *)
(* comes from the challenge.                                               *)
(***************************************************************************)
EXTENDS Amounts

CONSTANT MaxDecimals   \* the most decimals a challenge may name

ASSUME PayShAssumption == MaxDecimals \in Nat

PayShParses(challenge) ==
  /\ challenge.status = 402
  /\ challenge.authenticate /\ challenge.wellFormed
  /\ challenge.decimals \in 0..MaxDecimals
  /\ challenge.minor > 0

(* in units of the finest scale *)
PayShAmount(challenge) ==
  Rounded(challenge.minor * 10 ^ (MaxDecimals - challenge.decimals))

(* mutant: a challenge that has just expired is still taken up *)
MayAnswerExpired(challenge, observed) == challenge.expires >= observed

MayAnswer(challenge, observed) == challenge.expires > observed

PayShRequest(challenge) ==
  [recipient |-> challenge.recipient, amount |-> PayShAmount(challenge),
   expires |-> challenge.expires]
=============================================================================
