---------------------------- MODULE Confirmation -----------------------------
(***************************************************************************)
(* The independent confirmation of a devnet payment (devnet_rpc.py): what  *)
(* the confirmer concludes from the two answers of a Solana RPC service.   *)
(*                                                                         *)
(* A transaction changes the balances of token accounts of the expected    *)
(* mint and may open, close or hand over accounts on the way.  The service *)
(* lists the balances before and after; an account that does not exist yet *)
(* or any more is missing from its list.                                   *)
(***************************************************************************)
EXTENDS Integers, FiniteSets

CONSTANTS
  OwnerOf,     \* token account |-> its owner
  Holding      \* what an account holds that is neither opened nor emptied

ASSUME ConfirmationAssumption == Holding \in Nat

(* changes are account |-> gain or loss; a plain payment opens and closes nothing *)
Transaction(changes) ==
  [changes |-> changes, opened |-> {}, closed |-> {}, handedOver |-> {},
   failed |-> FALSE, slot |-> 1]

Touched(tx) == DOMAIN tx.changes

Moved(tx, account) == tx.changes[account]

(* an account is opened empty, and emptied before it is closed *)
Before(tx, account) ==
  CASE account \in tx.opened -> 0
    [] account \in tx.closed -> -Moved(tx, account)
    [] OTHER -> Holding

PreBalances(tx) ==
  [a \in Touched(tx) \ tx.opened |-> [owner |-> OwnerOf[a], amount |-> Before(tx, a)]]

PostBalances(tx) ==
  [a \in Touched(tx) \ tx.closed |->
     [owner |-> IF a \in tx.handedOver THEN "somebody" ELSE OwnerOf[a],
      amount |-> Before(tx, a) + Moved(tx, a)]]

-----------------------------------------------------------------------------
(* the lists hold accounts of the expected mint only *)
MintPresent(list) == DOMAIN list # {}

Balance(list, account) == IF account \in DOMAIN list THEN list[account].amount ELSE 0

ObservedOwner(pre, post, account) ==
  IF account \in DOMAIN post THEN post[account].owner ELSE pre[account].owner

OwnersKept(pre, post) ==
  \A a \in DOMAIN pre \cap DOMAIN post : pre[a].owner = post[a].owner

(* mutant: an account that the transaction closed is not looked at *)
MatchingOpen(pre, post, owner, delta) ==
  {a \in DOMAIN post :
     post[a].owner = owner /\ Balance(post, a) - Balance(pre, a) = delta}

Matching(pre, post, owner, delta) ==
  {a \in DOMAIN pre \cup DOMAIN post :
     /\ ObservedOwner(pre, post, a) = owner
     /\ Balance(post, a) - Balance(pre, a) = delta}

ShowsTransfer(tx, source, destination, amount) ==
  LET pre == PreBalances(tx)
      post == PostBalances(tx)
  IN  /\ MintPresent(pre) /\ MintPresent(post)
      /\ OwnersKept(pre, post)
      /\ Cardinality(Matching(pre, post, source, -amount)) = 1
      /\ Cardinality(Matching(pre, post, destination, amount)) = 1

(* mutant: the outcome of the transaction is taken from the status alone *)
ConfirmsFailed(tx, slot, source, destination, amount) ==
  ShowsTransfer(tx, source, destination, amount)

(* the second answer agrees with the first and shows the expected transfer *)
Confirms(tx, slot, source, destination, amount) ==
  /\ ~tx.failed /\ tx.slot = slot
  /\ ShowsTransfer(tx, source, destination, amount)
=============================================================================
