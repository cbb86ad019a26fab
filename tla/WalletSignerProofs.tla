-------------------------- MODULE WalletSignerProofs -------------------------
(***************************************************************************)
(* Proofs about WalletSigner for every set of threads, wallets, stores and *)
(* authorizations: types, exact binding, one signature per authorization,  *)
(* and the refinement of SingleUse.                                        *)
(***************************************************************************)
EXTENDS WalletSigner, TLAPS

-----------------------------------------------------------------------------
Busy(t) == call[t] # Idle

(* the right that a thread is about to spend or to use *)
RightOf(x) == <<store[x.wallet], x.authorization>>

(* what the issuer signs has the terms of the authorization's request *)
IssuedInv ==
  \A c \in issued :
    c.transaction = TransactionOf(RequestOf[c.authorization], c.transaction.wallet)

(* a signing was compared with what was issued before it got this far *)
CheckedInv == \A t \in Threads : Busy(t) => AsIssued(call[t].signing)

(* a thread that may call the backend holds its right alone *)
HoldInv ==
  /\ \A t \in Threads : At(t, "backend") =>
       /\ Identifier(t) \in spent[StoreOf(t)]
       /\ uses[StoreOf(t)][Identifier(t)] = 0
  /\ \A t, u \in Threads :
       At(t, "backend") /\ At(u, "backend")
         /\ RightOf(call[t].signing) = RightOf(call[u].signing) => t = u

(* a right is used at most once, and after it was spent *)
UseInv ==
  \A s \in Stores, a \in Authorizations :
    /\ uses[s][a] \in {0, 1}
    /\ uses[s][a] = 1 => a \in spent[s]

(* every signature is the one use of its right *)
SignedInv ==
  /\ \A x \in signed :
       /\ AsIssued(x)
       /\ uses[store[x.wallet]][x.authorization] = 1
  /\ \A x, y \in signed : RightOf(x) = RightOf(y) => x = y
  /\ receipts \subseteq signed

IInv == TypeOK /\ IssuedInv /\ CheckedInv /\ HoldInv /\ UseInv /\ SignedInv

-----------------------------------------------------------------------------
LEMMA Pieces ==
  ASSUME IInv
  PROVE  TypeOK /\ IssuedInv /\ CheckedInv /\ HoldInv /\ UseInv /\ SignedInv
  BY DEF IInv

LEMMA BusyTyped ==
  ASSUME TypeOK, NEW t \in Threads, Busy(t)
  PROVE  /\ call[t] \in Calls
         /\ call[t].step \in {"consume", "backend"}
         /\ call[t].signing \in Signings
         /\ Identifier(t) \in Authorizations
         /\ call[t].signing.wallet \in Wallets
         /\ StoreOf(t) \in Stores
  BY DEF TypeOK, Busy, Calls, Signings, Identifier, StoreOf

(* only thread t's call moves *)
CallMoves(t, c) ==
  /\ call' \in [Threads -> Calls \cup {Idle}]
  /\ call'[t] = c
  /\ \A u \in Threads : u # t => call'[u] = call[u]

LEMMA ReturnMoves ==
  ASSUME TypeOK, NEW t \in Threads, Return(t)
  PROVE  CallMoves(t, Idle)
  BY DEF TypeOK, Return, CallMoves

LEMMA InitIInv == Init => IInv
<1> SUFFICES ASSUME Init PROVE IInv OBVIOUS
<1>1. TypeOK BY SignerAssumption DEF Init, TypeOK
<1>2. \A t \in Threads : ~Busy(t) BY DEF Init, Busy
<1>3. CheckedInv /\ HoldInv BY <1>2 DEF CheckedInv, HoldInv, At, Busy
<1>4. IssuedInv /\ UseInv /\ SignedInv BY DEF Init, IssuedInv, UseInv, SignedInv
<1> QED BY <1>1, <1>3, <1>4 DEF IInv

-----------------------------------------------------------------------------
LEMMA TickKeeps == IInv /\ Tick => IInv'
<1> SUFFICES ASSUME IInv, Tick PROVE IInv' OBVIOUS
<1> USE Pieces DEF Tick
<1>1. TypeOK' BY SignerAssumption DEF TypeOK
<1>2. IssuedInv' BY DEF IssuedInv
<1>3. CheckedInv' BY DEF CheckedInv, Busy, AsIssued
<1>4. HoldInv' BY DEF HoldInv, At, Identifier, StoreOf, RightOf
<1>5. UseInv' BY DEF UseInv
<1>6. SignedInv' BY DEF SignedInv, AsIssued, RightOf
<1> QED BY <1>1, <1>2, <1>3, <1>4, <1>5, <1>6 DEF IInv

LEMMA IssueKeeps ==
  ASSUME IInv, NEW a \in Authorizations, NEW r \in Requests, NEW w \in Wallets,
         Issue(a, r, w)
  PROVE  IInv'
<1> USE Pieces DEF Issue
<1>1. TypeOK' BY DEF TypeOK, Contents, Transactions, TransactionOf
<1>2. IssuedInv' BY DEF IssuedInv, TransactionOf
<1>3. CheckedInv' BY DEF CheckedInv, Busy, AsIssued
<1>4. HoldInv' BY DEF HoldInv, At, Identifier, StoreOf, RightOf
<1>5. UseInv' BY DEF UseInv
<1>6. SignedInv' BY DEF SignedInv, AsIssued, RightOf
<1> QED BY <1>1, <1>2, <1>3, <1>4, <1>5, <1>6 DEF IInv

LEMMA AcceptKeeps ==
  ASSUME IInv, NEW t \in Threads, NEW w \in Wallets, NEW tr \in Transactions,
         NEW content \in Contents, NEW signature \in issued,
         Accept(t, w, tr, [content |-> content, signature |-> signature])
  PROVE  IInv'
<1> DEFINE x == [wallet |-> w, transaction |-> tr,
                 authorization |-> content.authorization, checked |-> now]
           c == [step |-> "consume", signing |-> x]
<1> USE Pieces
<1>a. /\ content = signature /\ tr = content.transaction /\ tr.wallet = w
      /\ now < ExpiresAt[content.authorization]
      /\ now < RequestExpires[tr.request]
      /\ RequestOf[content.authorization] = tr.request
  BY DEF Accept, Verified, Timely, Bound
<1>b. x \in Signings BY DEF Signings, Contents, TypeOK
<1>c. c \in Calls BY <1>b DEF Calls
<1>0. CallMoves(t, c)
  BY <1>c DEF Accept, CallMoves, TypeOK
<1>u. UNCHANGED <<store, now, issued, spent, uses, signed, receipts>> BY DEF Accept
<1>d. AsIssued(x)
  <2>1. [authorization |-> x.authorization, transaction |-> x.transaction] = content
    BY <1>a DEF Contents
  <2>2. content.transaction = TransactionOf(RequestOf[content.authorization], w)
    BY <1>a DEF IssuedInv
  <2> QED BY <1>a, <2>1, <2>2 DEF AsIssued
<1>1. TypeOK' BY <1>0, <1>u DEF TypeOK, CallMoves
<1>2. IssuedInv' BY <1>u DEF IssuedInv
<1>3. CheckedInv' BY <1>0, <1>d, <1>u DEF CheckedInv, Busy, AsIssued, CallMoves
<1>4. HoldInv'
  <2>1. \A u \in Threads : At(u, "backend")' => u # t /\ At(u, "backend") /\ call'[u] = call[u]
    BY <1>0 DEF At, CallMoves
  <2> QED BY <2>1, <1>u DEF HoldInv, Identifier, StoreOf, RightOf
<1>5. UseInv' BY <1>u DEF UseInv
<1>6. SignedInv' BY <1>u DEF SignedInv, AsIssued, RightOf
<1> QED BY <1>1, <1>2, <1>3, <1>4, <1>5, <1>6 DEF IInv

-----------------------------------------------------------------------------
(***************************************************************************)
(* A call ends without a signature.  The store may have recorded its       *)
(* identifier.                                                             *)
(***************************************************************************)
LEMMA RefusalKeeps ==
  ASSUME IInv, NEW t \in Threads, Busy(t), Return(t),
         UNCHANGED spent \/ Record(t),
         UNCHANGED <<store, now, issued, uses, signed, receipts>>
  PROVE  IInv'
<1> USE Pieces
<1>0. CallMoves(t, Idle) BY ReturnMoves
<1>a. /\ spent' \in [Stores -> SUBSET Authorizations]
      /\ \A s \in Stores : spent[s] \subseteq spent'[s]
  <2>1. StoreOf(t) \in Stores /\ Identifier(t) \in Authorizations BY BusyTyped
  <2>2. spent \in [Stores -> SUBSET Authorizations] BY DEF TypeOK
  <2>3. CASE UNCHANGED spent BY <2>2, <2>3
  <2>4. CASE Record(t) BY <2>1, <2>2, <2>4 DEF Record
  <2> QED BY <2>3, <2>4
<1>1. TypeOK' BY <1>0, <1>a DEF TypeOK, CallMoves
<1>2. IssuedInv' BY DEF IssuedInv
<1>3. CheckedInv' BY <1>0 DEF CheckedInv, Busy, AsIssued, CallMoves
<1>4. HoldInv'
  <2>1. \A u \in Threads : At(u, "backend")' =>
          u # t /\ At(u, "backend") /\ call'[u] = call[u] /\ StoreOf(u) \in Stores
    BY <1>0, BusyTyped DEF At, Busy, CallMoves
  <2> QED BY <2>1, <1>a DEF HoldInv, Identifier, StoreOf, RightOf
<1>5. UseInv' BY <1>a DEF UseInv
<1>6. SignedInv' BY DEF SignedInv, AsIssued, RightOf
<1> QED BY <1>1, <1>2, <1>3, <1>4, <1>5, <1>6 DEF IInv

LEMMA ConsumeKeeps ==
  ASSUME IInv, NEW t \in Threads, Consume(t) PROVE IInv'
<1> DEFINE id == Identifier(t)
           s == StoreOf(t)
<1> USE Pieces DEF Consume
<1>a. Busy(t) /\ call[t] \in Calls /\ s \in Stores /\ id \in Authorizations
  BY BusyTyped DEF At, Busy
<1>b. /\ spent' \in [Stores -> SUBSET Authorizations]
      /\ spent'[s] = spent[s] \cup {id}
      /\ \A z \in Stores : spent[z] \subseteq spent'[z]
  BY <1>a DEF Record, TypeOK
<1>0. /\ CallMoves(t, [call[t] EXCEPT !.step = "backend"])
      /\ call'[t].signing = call[t].signing
  BY <1>a DEF CallMoves, TypeOK, Calls
<1>1. TypeOK' BY <1>0, <1>b DEF TypeOK, CallMoves
<1>2. IssuedInv' BY DEF IssuedInv
<1>3. CheckedInv' BY <1>0, <1>a DEF CheckedInv, Busy, AsIssued, CallMoves
<1>4. HoldInv'
  <2>1. \A u \in Threads \ {t} : At(u, "backend")' =>
          /\ At(u, "backend") /\ call'[u] = call[u]
          /\ StoreOf(u) \in Stores
          /\ Identifier(u) \in spent[StoreOf(u)]
    BY <1>0, BusyTyped DEF At, Busy, CallMoves, HoldInv
  <2>2. \A u \in Threads \ {t} : At(u, "backend") =>
          RightOf(call[u].signing) # RightOf(call[t].signing)
    BY DEF HoldInv, RightOf, Identifier, StoreOf
  <2>3. uses[s][id] = 0 BY <1>a DEF UseInv
  <2>4. StoreOf(t)' = s /\ Identifier(t)' = id
    BY <1>0 DEF StoreOf, Identifier
  <2>5. ASSUME NEW u \in Threads, At(u, "backend")'
        PROVE  /\ Identifier(u)' \in spent'[StoreOf(u)']
               /\ uses'[StoreOf(u)'][Identifier(u)'] = 0
    <3>1. CASE u = t BY <3>1, <1>b, <2>3, <2>4
    <3>2. CASE u # t
      <4>1. /\ Identifier(u)' = Identifier(u) /\ StoreOf(u)' = StoreOf(u)
            /\ At(u, "backend") /\ StoreOf(u) \in Stores
            /\ Identifier(u) \in spent[StoreOf(u)]
        BY <2>1, <2>5, <3>2 DEF Identifier, StoreOf
      <4> QED BY <4>1, <1>b DEF HoldInv
    <3> QED BY <3>1, <3>2
  <2>6. \A u \in Threads : RightOf(call[u].signing)' = RightOf(call'[u].signing)
    BY DEF RightOf
  <2>7. ASSUME NEW u \in Threads, NEW v \in Threads,
               At(u, "backend")', At(v, "backend")',
               RightOf(call'[u].signing) = RightOf(call'[v].signing)
        PROVE  u = v
    <3>1. CASE u = t \/ v = t BY <3>1, <1>0, <2>1, <2>2, <2>7
    <3>2. CASE u # t /\ v # t
      BY <3>2, <2>1, <2>7 DEF HoldInv
    <3> QED BY <3>1, <3>2
  <2> QED BY <2>5, <2>6, <2>7 DEF HoldInv
<1>5. UseInv' BY <1>b DEF UseInv
<1>6. SignedInv' BY DEF SignedInv, AsIssued, RightOf
<1> QED BY <1>1, <1>2, <1>3, <1>4, <1>5, <1>6 DEF IInv

(* The backend signed; whether the caller gets a receipt does not matter. *)
LEMMA SignatureKeeps ==
  ASSUME IInv, NEW t \in Threads, At(t, "backend"), Signature(t), Return(t),
         UNCHANGED <<store, now, issued, spent>>,
         receipts' \subseteq receipts \cup {call[t].signing}
  PROVE  IInv'
<1> DEFINE id == Identifier(t)
           s == StoreOf(t)
           x == call[t].signing
<1> USE Pieces
<1>a. Busy(t) /\ s \in Stores /\ id \in Authorizations /\ x \in Signings
  BY BusyTyped DEF At, Busy
<1>b. uses[s][id] = 0 /\ id \in spent[s] BY DEF HoldInv
<1>c. /\ uses' \in [Stores -> [Authorizations -> Nat]]
      /\ uses'[s][id] = 1
      /\ \A z \in Stores, a \in Authorizations :
           z # s \/ a # id => uses'[z][a] = uses[z][a]
  BY <1>a, <1>b DEF Signature, TypeOK
<1>d. signed' = signed \cup {x} BY DEF Signature
<1>0. CallMoves(t, Idle) BY ReturnMoves
<1>1. TypeOK' BY <1>0, <1>a, <1>c, <1>d DEF TypeOK, CallMoves
<1>2. IssuedInv' BY DEF IssuedInv
<1>3. CheckedInv' BY <1>0 DEF CheckedInv, Busy, AsIssued, CallMoves
<1>4. HoldInv'
  <2>1. \A u \in Threads : At(u, "backend")' =>
          /\ u # t /\ At(u, "backend") /\ call'[u] = call[u]
          /\ StoreOf(u) \in Stores /\ Identifier(u) \in Authorizations
    BY <1>0, BusyTyped DEF At, Busy, CallMoves
  <2>2. \A u \in Threads : At(u, "backend")' => StoreOf(u) # s \/ Identifier(u) # id
    BY <2>1 DEF HoldInv, RightOf, StoreOf, Identifier
  <2>3. \A u \in Threads : At(u, "backend")' => uses'[StoreOf(u)][Identifier(u)] = 0
    BY <2>1, <2>2, <1>c DEF HoldInv
  <2> QED BY <2>1, <2>3 DEF HoldInv, Identifier, StoreOf, RightOf
<1>5. UseInv' BY <1>b, <1>c DEF UseInv
<1>6. SignedInv'
  <2>1. \A y \in signed : store[y.wallet] \in Stores /\ y.authorization \in Authorizations
    BY DEF TypeOK, Signings
  <2>2. \A y \in signed : store[y.wallet] # s \/ y.authorization # id
    BY <1>b DEF SignedInv
  <2>3. AsIssued(x) BY <1>a DEF CheckedInv
  <2>4. \A y \in signed' :
          AsIssued(y) /\ uses'[store[y.wallet]][y.authorization] = 1
    BY <1>c, <1>d, <2>1, <2>2, <2>3 DEF SignedInv, StoreOf, Identifier
  <2>5. \A y, z \in signed' : RightOf(y) = RightOf(z) => y = z
    BY <1>d, <2>2 DEF SignedInv, RightOf, StoreOf, Identifier
  <2>6. receipts' \subseteq signed' BY <1>d DEF SignedInv
  <2> QED BY <2>4, <2>5, <2>6 DEF SignedInv, AsIssued, RightOf
<1> QED BY <1>1, <1>2, <1>3, <1>4, <1>5, <1>6 DEF IInv

LEMMA ContinueKeeps ==
  ASSUME IInv, NEW t \in Threads, Continue(t) PROVE IInv'
<1>1. CASE Consume(t) BY <1>1, ConsumeKeeps
<1>2. CASE RejectReplayed(t)
  BY <1>2, RefusalKeeps DEF RejectReplayed, At, Busy
<1>3. CASE StoreFails(t)
  BY <1>3, RefusalKeeps DEF StoreFails, At, Busy
<1>4. CASE Sign(t) BY <1>4, SignatureKeeps DEF Sign
<1>5. CASE BackendFails(t)
  <2>1. CASE UNCHANGED <<uses, signed>>
    BY <1>5, <2>1, RefusalKeeps DEF BackendFails, At, Busy
  <2>2. CASE Signature(t)
    BY <1>5, <2>2, SignatureKeeps DEF BackendFails
  <2> QED BY <1>5, <2>1, <2>2 DEF BackendFails
<1> QED BY <1>1, <1>2, <1>3, <1>4, <1>5 DEF Continue

LEMMA StutterKeeps == IInv /\ UNCHANGED vars => IInv'
<1> SUFFICES ASSUME IInv, UNCHANGED vars PROVE IInv' OBVIOUS
<1> USE Pieces DEF vars
<1>1. TypeOK' BY DEF TypeOK
<1>2. IssuedInv' /\ UseInv' BY DEF IssuedInv, UseInv
<1>3. CheckedInv' /\ HoldInv'
  BY DEF CheckedInv, HoldInv, Busy, AsIssued, At, Identifier, StoreOf, RightOf
<1>4. SignedInv' BY DEF SignedInv, AsIssued, RightOf
<1> QED BY <1>1, <1>2, <1>3, <1>4 DEF IInv

LEMMA NextKeeps == IInv /\ [Next]_vars => IInv'
<1> SUFFICES ASSUME IInv, [Next]_vars PROVE IInv' OBVIOUS
<1>1. CASE Tick BY <1>1, TickKeeps
<1>2. CASE \E a \in Authorizations, r \in Requests, w \in Wallets : Issue(a, r, w)
  BY <1>2, IssueKeeps
<1>3. CASE \E t \in Threads : Submit(t) BY <1>3, AcceptKeeps DEF Submit
<1>4. CASE \E t \in Threads : Continue(t) BY <1>4, ContinueKeeps
<1>5. CASE UNCHANGED vars BY <1>5, StutterKeeps
<1> QED BY <1>1, <1>2, <1>3, <1>4, <1>5 DEF Next

-----------------------------------------------------------------------------
(***************************************************************************)
(* The invariant behind the theorems below.                                *)
(***************************************************************************)
THEOREM Inductive == Spec => []IInv
<1> QED BY InitIInv, NextKeeps, PTL DEF Spec

(***************************************************************************)
(* Every reachable state of the signers has its type.                      *)
(***************************************************************************)
THEOREM SignerTypeCorrect == Spec => []TypeOK
<1>1. IInv => TypeOK BY Pieces
<1> QED BY <1>1, Inductive, PTL

(***************************************************************************)
(* Exact binding: whatever agents present, a backend signs only what was   *)
(* issued for its wallet, with the terms of the request, unexpired.        *)
(***************************************************************************)
THEOREM ExactBinding == Spec => []SignedAsIssued
<1>1. IInv => SignedAsIssued BY Pieces DEF SignedInv, SignedAsIssued
<1> QED BY <1>1, Inductive, PTL

(***************************************************************************)
(* An authorization is signed for at most once through one store, however  *)
(* many wallets and threads use the store and whatever fails.              *)
(***************************************************************************)
THEOREM OneSignature == Spec => []SignedOnce
<1>1. IInv => SignedOnce
  <2> SUFFICES ASSUME IInv PROVE SignedOnce OBVIOUS
  <2>1. \A s \in Stores, a \in Authorizations : uses[s][a] <= 1
    BY Pieces DEF UseInv
  <2>2. \A x, y \in signed :
          x.authorization = y.authorization /\ store[x.wallet] = store[y.wallet] => x = y
    BY Pieces DEF SignedInv, RightOf
  <2> QED BY <2>1, <2>2 DEF SignedOnce
<1> QED BY <1>1, Inductive, PTL

(***************************************************************************)
(* A receipt proves a signature and a consumed authorization.              *)
(***************************************************************************)
THEOREM ReceiptsProveSignatures == Spec => []ReceiptsAreSignatures
<1>1. IInv => ReceiptsAreSignatures
  <2> SUFFICES ASSUME IInv, NEW r \in receipts
               PROVE  r \in signed /\ r.authorization \in spent[store[r.wallet]]
    BY DEF ReceiptsAreSignatures
  <2>1. r \in signed BY Pieces DEF SignedInv
  <2>2. store[r.wallet] \in Stores /\ r.authorization \in Authorizations
    BY <2>1, Pieces DEF TypeOK, Signings
  <2> QED BY <2>1, <2>2, Pieces DEF SignedInv, UseInv
<1> QED BY <1>1, Inductive, PTL

-----------------------------------------------------------------------------
AllRights == Stores \X Authorizations

SpentRights == {x \in AllRights : x[2] \in spent[x[1]]}

UsedRights == [x \in AllRights |-> uses[x[1]][x[2]]]

LEMMA InitRefines == Init => Rights!Init
<1> SUFFICES ASSUME Init PROVE Rights!Init OBVIOUS
<1>1. SpentRights = {} BY DEF Init, SpentRights, AllRights
<1>2. UsedRights = [x \in AllRights |-> 0] BY DEF Init, UsedRights, AllRights
<1> QED BY <1>1, <1>2 DEF Rights!Init, SpentRights, UsedRights, AllRights

LEMMA AbstractStep ==
  ASSUME NEW x \in AllRights, Rights!Spend(x) \/ Rights!Use(x)
  PROVE  Rights!Next
  BY DEF Rights!Next, AllRights

(* recording an identifier is a Spend, or nothing when it was recorded before *)
LEMMA RecordRefines ==
  ASSUME IInv, NEW t \in Threads, Busy(t), Record(t), UNCHANGED uses
  PROVE  [Rights!Next]_(Rights!vars)
<1>1. StoreOf(t) \in Stores /\ Identifier(t) \in Authorizations
  BY Pieces, BusyTyped
<1>2. PICK x \in AllRights : x = <<StoreOf(t), Identifier(t)>>
  BY <1>1 DEF AllRights
<1>3. spent \in [Stores -> SUBSET Authorizations] BY Pieces DEF TypeOK
<1>4. \A s \in Stores, a \in Authorizations :
        a \in spent'[s] <=> (a \in spent[s] \/ (s = StoreOf(t) /\ a = Identifier(t)))
  BY <1>1, <1>3 DEF Record
<1>5. SpentRights' = SpentRights \cup {x}
  BY <1>2, <1>4 DEF SpentRights, AllRights
<1>6. UsedRights' = UsedRights BY DEF UsedRights
<1>7. CASE x \in SpentRights
  <2>1. SpentRights' = SpentRights BY <1>5, <1>7
  <2> QED BY <2>1, <1>6 DEF Rights!vars, SpentRights, UsedRights, AllRights
<1>8. CASE x \notin SpentRights
  <2>1. Rights!Spend(x)
    BY <1>5, <1>6, <1>8 DEF Rights!Spend, SpentRights, UsedRights, AllRights
  <2> QED BY <2>1, <1>2, AbstractStep
<1> QED BY <1>7, <1>8

(* a signature is a Use *)
LEMMA SignatureRefines ==
  ASSUME IInv, NEW t \in Threads, At(t, "backend"), Signature(t), UNCHANGED spent
  PROVE  Rights!Next
<1>1. StoreOf(t) \in Stores /\ Identifier(t) \in Authorizations
  BY Pieces, BusyTyped DEF At, Busy
<1>2. PICK x \in AllRights : x = <<StoreOf(t), Identifier(t)>>
  BY <1>1 DEF AllRights
<1>3. Identifier(t) \in spent[StoreOf(t)] /\ uses[StoreOf(t)][Identifier(t)] = 0
  BY Pieces DEF HoldInv
<1>4. x \in SpentRights /\ UsedRights[x] = 0
  BY <1>2, <1>3 DEF SpentRights, UsedRights
<1>5. SpentRights' = SpentRights BY DEF SpentRights
<1>6. UsedRights' = [UsedRights EXCEPT ![x] = 1]
  <2>1. \A s \in Stores, a \in Authorizations :
          uses'[s][a] = IF s = StoreOf(t) /\ a = Identifier(t) THEN 1 ELSE uses[s][a]
    BY <1>1, <1>3, Pieces DEF Signature, TypeOK
  <2>2. \A y \in AllRights : uses'[y[1]][y[2]] = IF y = x THEN 1 ELSE uses[y[1]][y[2]]
    BY <2>1, <1>2 DEF AllRights
  <2> QED BY <2>2, <1>2 DEF UsedRights
<1>7. Rights!Use(x)
  BY <1>4, <1>5, <1>6 DEF Rights!Use, SpentRights, UsedRights, AllRights
<1> QED BY <1>2, <1>7, AbstractStep

LEMMA ContinueRefines ==
  ASSUME IInv, NEW t \in Threads, Continue(t)
  PROVE  [Rights!Next]_(Rights!vars)
<1>0. UNCHANGED <<spent, uses>> => UNCHANGED Rights!vars BY DEF Rights!vars
<1>1. CASE Consume(t)
  BY <1>1, RecordRefines DEF Consume, At, Busy
<1>2. CASE RejectReplayed(t) BY <1>0, <1>2 DEF RejectReplayed
<1>3. CASE StoreFails(t)
  <2>1. CASE UNCHANGED spent BY <1>0, <1>3, <2>1 DEF StoreFails
  <2>2. CASE Record(t) BY <1>3, <2>2, RecordRefines DEF StoreFails, At, Busy
  <2> QED BY <1>3, <2>1, <2>2 DEF StoreFails
<1>4. CASE Sign(t) BY <1>4, SignatureRefines DEF Sign
<1>5. CASE BackendFails(t)
  <2>1. CASE UNCHANGED <<uses, signed>> BY <1>0, <1>5, <2>1 DEF BackendFails
  <2>2. CASE Signature(t) BY <1>5, <2>2, SignatureRefines DEF BackendFails
  <2> QED BY <1>5, <2>1, <2>2 DEF BackendFails
<1> QED BY <1>1, <1>2, <1>3, <1>4, <1>5 DEF Continue

LEMMA NextRefines == IInv /\ [Next]_vars => [Rights!Next]_(Rights!vars)
<1> SUFFICES ASSUME IInv, [Next]_vars PROVE [Rights!Next]_(Rights!vars) OBVIOUS
<1>0. UNCHANGED <<spent, uses>> => UNCHANGED Rights!vars BY DEF Rights!vars
<1>1. CASE Tick BY <1>0, <1>1 DEF Tick
<1>2. CASE \E a \in Authorizations, r \in Requests, w \in Wallets : Issue(a, r, w)
  BY <1>0, <1>2 DEF Issue
<1>3. CASE \E t \in Threads : Submit(t) BY <1>0, <1>3 DEF Submit, Accept
<1>4. CASE \E t \in Threads : Continue(t) BY <1>4, ContinueRefines
<1>5. CASE UNCHANGED vars BY <1>0, <1>5 DEF vars
<1> QED BY <1>1, <1>2, <1>3, <1>4, <1>5 DEF Next

(***************************************************************************)
(* The signers of all wallets together implement single-use rights, one    *)
(* for each store and authorization.                                       *)
(***************************************************************************)
THEOREM SignersImplementSingleUse == Spec => PermissionIsSingleUse
<1>1. Init => Rights!Init BY InitRefines
<1>2. IInv /\ [Next]_vars => [Rights!Next]_(Rights!vars) BY NextRefines
<1> QED BY <1>1, <1>2, Inductive, PTL DEF Spec, PermissionIsSingleUse, Rights!Spec
=============================================================================
