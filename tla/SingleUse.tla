------------------------------ MODULE SingleUse ------------------------------
(***************************************************************************)
(* A set of rights, each spent at most once before it is used, and used at *)
(* most once.  A right that is spent and not used is lost: the promise of  *)
(* docs/WALLET_SIGNER.md that a failure cannot turn a permission into one  *)
(* that can be retried.  WalletSigner implements this specification.       *)
(***************************************************************************)
EXTENDS Naturals

CONSTANT Rights

VARIABLES
  spent,    \* rights that are taken
  used      \* how often each was used

vars == <<spent, used>>

Init ==
  /\ spent = {}
  /\ used = [x \in Rights |-> 0]

Spend(x) ==
  /\ x \notin spent
  /\ spent' = spent \cup {x}
  /\ UNCHANGED used

Use(x) ==
  /\ x \in spent
  /\ used[x] = 0
  /\ used' = [used EXCEPT ![x] = 1]
  /\ UNCHANGED spent

Next == \E x \in Rights : Spend(x) \/ Use(x)

Spec == Init /\ [][Next]_vars
=============================================================================
