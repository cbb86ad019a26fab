---------------------------- MODULE PaymentSafety ----------------------------
(***************************************************************************)
(* What SolGuard promises about one payment, whatever the number of        *)
(* callers, the order of their steps and the failures on the way: money    *)
(* moves only at the end of a chain of four single-use rights.             *)
(*                                                                         *)
(*    a request claims the (agent, nonce) pair it carries,                 *)
(*    a claimed request that the owner's rules permit is authorized,       *)
(*    an authorized request is redeemed at the wallet boundary,            *)
(*    a redeemed request is paid.                                          *)
(*                                                                         *)
(* No link is taken twice, and a pair that one request has claimed is lost *)
(* to every other request.  Gateway implements this specification.         *)
(***************************************************************************)
EXTENDS Naturals

CONSTANTS
  Requests,        \* the payment requests
  KeyOf(_),        \* the (agent, nonce) pair a request carries
  Permitted(_)     \* the owner's rules permit the request

VARIABLES
  claimed,         \* requests that hold their (agent, nonce) pair
  authorized,      \* requests a signing authorization was issued for
  redeemed,        \* requests whose authorization the wallet has consumed
  paid             \* how many times the money of a request has moved

vars == <<claimed, authorized, redeemed, paid>>

TypeOK ==
  /\ claimed \subseteq Requests
  /\ authorized \subseteq claimed
  /\ redeemed \subseteq authorized
  /\ paid \in [Requests -> {0, 1}]

Init ==
  /\ claimed = {}
  /\ authorized = {}
  /\ redeemed = {}
  /\ paid = [r \in Requests |-> 0]

Claim(r) ==
  /\ \A q \in claimed : KeyOf(q) # KeyOf(r)
  /\ claimed' = claimed \cup {r}
  /\ UNCHANGED <<authorized, redeemed, paid>>

Authorize(r) ==
  /\ r \in claimed \ authorized
  /\ Permitted(r)
  /\ authorized' = authorized \cup {r}
  /\ UNCHANGED <<claimed, redeemed, paid>>

Redeem(r) ==
  /\ r \in authorized \ redeemed
  /\ redeemed' = redeemed \cup {r}
  /\ UNCHANGED <<claimed, authorized, paid>>

Pay(r) ==
  /\ r \in redeemed
  /\ paid[r] = 0
  /\ paid' = [paid EXCEPT ![r] = 1]
  /\ UNCHANGED <<claimed, authorized, redeemed>>

Next == \E r \in Requests : Claim(r) \/ Authorize(r) \/ Redeem(r) \/ Pay(r)

Spec == Init /\ [][Next]_vars
=============================================================================
