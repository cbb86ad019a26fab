-------------------------------- MODULE X402 ---------------------------------
(***************************************************************************)
(* The x402 v2 adapter's reading of an HTTP 402 answer (x402.py): which    *)
(* requirement it makes of it, the canonical request a requirement becomes *)
(* and when a request belongs to a requirement.                            *)
(*                                                                         *)
(* An answer is [status, headers, wellFormed, offers]: the status code,    *)
(* how many PAYMENT-REQUIRED headers it has, whether the envelope decodes  *)
(* to what version 2 asks for, and its accepts array.  An offer is         *)
(* [supported, amount, padded, payTo, timeout]; supported stands for the   *)
(* scheme, network and mint, padded for an amount spelled with leading     *)
(* zeros.  Requirement and request hold the whole answer where the code    *)
(* holds its digest.                                                       *)
(***************************************************************************)
EXTENDS Amounts, Sequences

CONSTANT MaxTimeout   \* _MAX_TIMEOUT_SECONDS

ASSUME X402Assumption == MaxTimeout \in Nat \ {0}

Supported(answer) == SelectSeq(answer.offers, LAMBDA offer : offer.supported)

(* an amount is a text of MaxDigits digits at most *)
Payable(offer) ==
  offer.amount \in 1..(10 ^ MaxDigits - 1) /\ offer.timeout \in 1..MaxTimeout

(* mutant: the first of several supported offers will do *)
ParsesFirst(answer) ==
  /\ answer.status = 402 /\ answer.headers = 1 /\ answer.wellFormed
  /\ Len(Supported(answer)) >= 1 /\ Payable(Supported(answer)[1])

X402Parses(answer) ==
  /\ answer.status = 402 /\ answer.headers = 1 /\ answer.wellFormed
  /\ Len(Supported(answer)) = 1 /\ Payable(Supported(answer)[1])

(* the one supported offer, its amount divided into USDC *)
X402Requirement(answer) ==
  LET offer == Supported(answer)[1] IN
  [accepted |-> offer, recipient |-> offer.payTo, amount |-> Rounded(offer.amount),
   answer |-> answer]

X402Request(requirement, mode) ==
  [recipient |-> requirement.recipient, amount |-> requirement.amount,
   lifetime |-> requirement.accepted.timeout, answer |-> requirement.answer,
   mode |-> mode]

SameTerms(requirement, request) ==
  /\ request.recipient = requirement.recipient
  /\ request.amount = requirement.amount
  /\ request.lifetime = requirement.accepted.timeout

(* mutant: the settlement mode of the metadata is not compared *)
MatchesAnyMode(requirement, request, mode) ==
  SameTerms(requirement, request) /\ request.answer = requirement.answer

Matches(requirement, request, mode) ==
  /\ SameTerms(requirement, request)
  /\ request.answer = requirement.answer
  /\ request.mode = mode

(* what the signer gives back: the offer it accepted, and a payload or none *)
ValidSignature(requirement, payload) ==
  payload.accepted = requirement.accepted /\ payload.filled
=============================================================================
