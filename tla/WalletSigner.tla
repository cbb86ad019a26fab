---------------------------- MODULE WalletSigner -----------------------------
(***************************************************************************)
(* The isolated wallet signer (wallet_signer.py).  The issuer on the       *)
(* decision side signs an authorization together with the fields of the    *)
(* one transaction that it permits.  A wallet gets transaction bytes and a *)
(* signed authorization from an agent that it does not trust, verifies,    *)
(* compares, consumes the authorization's identifier, and only then asks   *)
(* the backend that holds its key.  Threads call the signers of several    *)
(* wallets at once; each signer has an authorization store of its own, or  *)
(* shares one.                                                             *)
(*                                                                         *)
(* A canonical message stands for the bytes that are signed, so that a     *)
(* signature is the content it covers.                                     *)
(***************************************************************************)
EXTENDS Naturals

CONSTANTS
  Threads,            \* callers of the signers
  Wallets,            \* wallet addresses, one signer each
  Stores,             \* authorization stores
  Requests,           \* payment requests
  Devnet,             \* those for USDC on Solana devnet
  Authorizations,     \* authorizations granted by the gateway
  RequestOf,          \* the request each was granted for
  ExpiresAt,          \* when an authorization expires
  RequestExpires,     \* when a request expires
  MaxTime             \* bound on the clock

ASSUME SignerAssumption ==
  /\ Devnet \subseteq Requests
  /\ RequestOf \in [Authorizations -> Requests]
  /\ ExpiresAt \in [Authorizations -> Nat]
  /\ RequestExpires \in [Requests -> Nat]
  /\ MaxTime \in Nat

VARIABLES
  store,      \* the store of each wallet's signer
  now,        \* the wallet's clock
  issued,     \* contents that the issuer has signed
  spent,      \* per store, the consumed authorizations
  call,       \* what each thread is doing
  uses,       \* history: how often the backend signed for each authorization
  signed,     \* history: what the backends signed, and when it was checked
  receipts    \* signing receipts given to callers

vars == <<store, now, issued, spent, call, uses, signed, receipts>>

(* Financial fields of a transaction: those the request asks for, or others *)
(* under the digest of the request.                                         *)
Transactions ==
  [request : Requests, wallet : Wallets, terms : {"requested", "altered"}]

Contents == [authorization : Authorizations, transaction : Transactions]

(* Any content under any signature that the issuer once made. *)
Presented == [content : Contents, signature : Contents]

Idle == [step |-> "idle"]

Signings ==
  [wallet : Wallets, transaction : Transactions,
   authorization : Authorizations, checked : 0..MaxTime]

Calls == [step : {"consume", "backend"}, signing : Signings]

Init ==
  /\ store \in [Wallets -> Stores]
  /\ now = 0
  /\ issued = {}
  /\ spent = [s \in Stores |-> {}]
  /\ call = [t \in Threads |-> Idle]
  /\ uses = [s \in Stores |-> [a \in Authorizations |-> 0]]
  /\ signed = {}
  /\ receipts = {}

Tick ==
  /\ now < MaxTime
  /\ now' = now + 1
  /\ UNCHANGED <<store, issued, spent, call, uses, signed, receipts>>

-----------------------------------------------------------------------------
(* the issuer; a request that is not the authorization's is refused *)
(* mutant: an amount with a fraction of an atomic unit is cut *)
TransactionRounded(request, wallet) ==
  [request |-> request, wallet |-> wallet, terms |-> "rounded"]

TransactionOf(request, wallet) ==
  [request |-> request, wallet |-> wallet, terms |-> "requested"]

Issue(a, request, wallet) ==
  /\ request = RequestOf[a]
  /\ request \in Devnet
  /\ issued' = issued \cup
       {[authorization |-> a, transaction |-> TransactionOf(request, wallet)]}
  /\ UNCHANGED <<store, now, spent, call, uses, signed, receipts>>

-----------------------------------------------------------------------------
(* mutant: some signature of the issuer, whatever it covers *)
VerifiedByIssuerOnly(presented) == presented.signature \in issued

Verified(presented) == presented.content = presented.signature

Timely(content) ==
  /\ now < ExpiresAt[content.authorization]
  /\ now < RequestExpires[content.transaction.request]

Bound(wallet, transaction, content) ==
  /\ transaction = content.transaction
  /\ transaction.wallet = wallet
  /\ transaction.request \in Devnet
  /\ RequestOf[content.authorization] = transaction.request

(* What a thread presents is checked against no state but the clock: a call *)
(* that fails here, one without an authorization, or with bytes that the    *)
(* inspector cannot read, changes nothing.                                  *)
Accept(t, wallet, transaction, presented) ==
  /\ call[t] = Idle
  /\ Verified(presented)
  /\ Timely(presented.content)
  /\ Bound(wallet, transaction, presented.content)
  /\ call' = [call EXCEPT ![t] =
       [step |-> "consume",
        signing |-> [wallet |-> wallet, transaction |-> transaction,
                     authorization |-> presented.content.authorization,
                     checked |-> now]]]
  /\ UNCHANGED <<store, now, issued, spent, uses, signed, receipts>>

At(t, step) == call[t] # Idle /\ call[t].step = step

Identifier(t) == call[t].signing.authorization

StoreOf(t) == store[call[t].signing.wallet]

Record(t) ==
  spent' = [spent EXCEPT ![StoreOf(t)] = @ \cup {Identifier(t)}]

Return(t) == call' = [call EXCEPT ![t] = Idle]

(* mutant: looked up, and consumed elsewhere after the signature *)
ConsumeUnrecorded(t) ==
  /\ At(t, "consume")
  /\ Identifier(t) \notin spent[StoreOf(t)]
  /\ call' = [call EXCEPT ![t].step = "backend"]
  /\ UNCHANGED <<store, now, issued, spent, uses, signed, receipts>>

Consume(t) ==
  /\ At(t, "consume")
  /\ Identifier(t) \notin spent[StoreOf(t)]
  /\ Record(t)
  /\ call' = [call EXCEPT ![t].step = "backend"]
  /\ UNCHANGED <<store, now, issued, uses, signed, receipts>>

RejectReplayed(t) ==
  /\ At(t, "consume")
  /\ Identifier(t) \in spent[StoreOf(t)]
  /\ Return(t)
  /\ UNCHANGED <<store, now, issued, spent, uses, signed, receipts>>

(* the store raises or returns no boolean, after it recorded or before *)
StoreFails(t) ==
  /\ At(t, "consume")
  /\ \/ UNCHANGED spent
     \/ Record(t)
  /\ Return(t)
  /\ UNCHANGED <<store, now, issued, uses, signed, receipts>>

Signature(t) ==
  /\ uses' = [uses EXCEPT ![StoreOf(t)][Identifier(t)] = @ + 1]
  /\ signed' = signed \cup {call[t].signing}

Sign(t) ==
  /\ At(t, "backend")
  /\ Signature(t)
  /\ receipts' = receipts \cup {call[t].signing}
  /\ Return(t)
  /\ UNCHANGED <<store, now, issued, spent>>

(* mutant: the identifier is given back, for another try *)
BackendFailsAndReturns(t) ==
  /\ At(t, "backend")
  /\ \/ UNCHANGED <<uses, signed>>
     \/ Signature(t)
  /\ spent' = [spent EXCEPT ![StoreOf(t)] = @ \ {Identifier(t)}]
  /\ Return(t)
  /\ UNCHANGED <<store, now, issued, receipts>>

(* mutant: an empty signature is taken for one *)
BackendFailsWithReceipt(t) ==
  /\ At(t, "backend")
  /\ UNCHANGED <<uses, signed>>
  /\ receipts' = receipts \cup {call[t].signing}
  /\ Return(t)
  /\ UNCHANGED <<store, now, issued, spent>>

(* the backend raises or returns nothing; it may have signed before *)
BackendFails(t) ==
  /\ At(t, "backend")
  /\ \/ UNCHANGED <<uses, signed>>
     \/ Signature(t)
  /\ Return(t)
  /\ UNCHANGED <<store, now, issued, spent, receipts>>

Continue(t) ==
  \/ Consume(t) \/ RejectReplayed(t) \/ StoreFails(t)
  \/ Sign(t) \/ BackendFails(t)

Submit(t) ==
  \E wallet \in Wallets, transaction \in Transactions,
     content \in Contents, signature \in issued :
    Accept(t, wallet, transaction, [content |-> content, signature |-> signature])

Next ==
  \/ Tick
  \/ \E a \in Authorizations, request \in Requests, wallet \in Wallets :
       Issue(a, request, wallet)
  \/ \E t \in Threads : Submit(t) \/ Continue(t)

Spec == Init /\ [][Next]_vars

-----------------------------------------------------------------------------
TypeOK ==
  /\ store \in [Wallets -> Stores]
  /\ now \in 0..MaxTime
  /\ issued \subseteq Contents
  /\ spent \in [Stores -> SUBSET Authorizations]
  /\ call \in [Threads -> Calls \cup {Idle}]
  /\ uses \in [Stores -> [Authorizations -> Nat]]
  /\ signed \subseteq Signings
  /\ receipts \subseteq Signings

(***************************************************************************)
(* Exact binding (docs/WALLET_SIGNER.md, wallet_signer.py:373-393): what a *)
(* backend signed is a transaction of its own wallet, with the terms of    *)
(* the request, that the issuer permitted under this authorization, and    *)
(* neither had expired when it was checked.                                *)
(***************************************************************************)
AsIssued(s) ==
  /\ [authorization |-> s.authorization, transaction |-> s.transaction] \in issued
  /\ s.transaction = TransactionOf(RequestOf[s.authorization], s.wallet)
  /\ s.checked < ExpiresAt[s.authorization]
  /\ s.checked < RequestExpires[s.transaction.request]

SignedAsIssued == \A s \in signed : AsIssued(s)

(***************************************************************************)
(* One permission is one signature, for all wallets that share a store:    *)
(* an authorization that was issued for two of them, or that two threads   *)
(* present, or whose backend failed, is not signed again.                  *)
(***************************************************************************)
SignedOnce ==
  /\ \A s \in Stores, a \in Authorizations : uses[s][a] <= 1
  /\ \A x, y \in signed :
       x.authorization = y.authorization /\ store[x.wallet] = store[y.wallet] => x = y

(***************************************************************************)
(* A receipt is evidence of a signature (wallet_signer.py:404-415): it is  *)
(* given only when the backend signed, for exactly that signing, which     *)
(* consumed its authorization.                                             *)
(***************************************************************************)
ReceiptsAreSignatures ==
  \A r \in receipts :
    /\ r \in signed
    /\ r.authorization \in spent[store[r.wallet]]

(***************************************************************************)
(* The signers implement single-use rights: consumed before the backend is *)
(* called, whatever fails, and never usable again (wallet_signer.py:394-409).*)
(***************************************************************************)
Rights == INSTANCE SingleUse WITH
  Rights <- Stores \X Authorizations,
  spent <- {x \in Stores \X Authorizations : x[2] \in spent[x[1]]},
  used <- [x \in Stores \X Authorizations |-> uses[x[1]][x[2]]]

PermissionIsSingleUse == Rights!Spec
=============================================================================
