---------------------------- MODULE ExternalProofs ---------------------------
(***************************************************************************)
(* Proofs about ExternalSettlement for every set of threads and attempts,  *)
(* every lifetime, clock and number of restarts: what a restart can cost,  *)
(* when that exposure ends, and that a failed call is final.               *)
(***************************************************************************)
EXTENDS ExternalSettlement, FiniteSetTheorems, SequenceTheorems, TLAPS

-----------------------------------------------------------------------------
Busy(t) == call[t] # Idle

(* the guard has let the call pass *)
Passed(t) == call[t].step \in {"consume", "execute", "response", "confirm"}

(* the call has given the service a payment *)
Paying(t) == call[t].step \in {"response", "confirm"}

(* an authorization that may still be redeemed, or was *)
Held(x) ==
  \/ x \in released
  \/ \E t \in Threads : Busy(t) /\ call[t].authorization = x
  \/ \E i \in DOMAIN given : given[i].authorization = x

Known(attempt) == {x \in Authorizations : x.request.attempt = attempt /\ Held(x)}

(* an authorization is dated before its request expires *)
DatedInv ==
  \A x \in Authorizations : Held(x) => x.issued < RequestExpires(x.request)

(* what passed the guard was in time *)
GuardInv ==
  /\ \A t \in Threads : Passed(t) =>
       call[t].guarded < ExpiresAt(call[t].authorization)
  /\ \A i \in DOMAIN given :
       given[i].guarded < ExpiresAt(given[i].authorization)

(* a call that waits for the service has given it a payment *)
PaymentInv ==
  /\ \A t \in Threads : Busy(t) => (call[t].payment # 0 <=> Paying(t))
  /\ \A t \in Threads : Paying(t) =>
       /\ call[t].payment \in DOMAIN given
       /\ given[call[t].payment].authorization = call[t].authorization

(* a life admits an attempt to one authorization *)
AdmissionInv ==
  \A x \in Authorizations : Held(x) =>
    /\ x.admitted <= life
    /\ x.admitted = life => x.request.attempt \in nonces
    /\ \A y \in Authorizations :
         /\ Held(y) /\ y.request.attempt = x.request.attempt
         /\ y.admitted = x.admitted
         => y = x

(* the authorization of a call of process is in nobody else's hands *)
PrivateInv ==
  \A t \in Threads : Busy(t) /\ call[t].mode = "process" =>
    /\ call[t].authorization \notin released
    /\ \A u \in Threads :
         Busy(u) /\ call[u].authorization = call[t].authorization => u = t
    /\ \A i \in DOMAIN given :
         given[i].authorization = call[t].authorization => i = call[t].payment

(* and is in nobody's when the call has failed *)
Failed(a) == a.mode = "process" /\ a.verdict = "FAILED"

FailedInv ==
  \A a \in answers :
    /\ a.payment \in DOMAIN given
    /\ Failed(a) =>
         /\ given[a.payment].authorization \notin released
         /\ \A t \in Threads :
              Busy(t) => call[t].authorization # given[a.payment].authorization
         /\ \A i \in DOMAIN given :
              given[i].authorization = given[a.payment].authorization => i = a.payment

(* within a life, a call about to send holds its authorization alone *)
OnceInv ==
  /\ \A i \in DOMAIN given :
       /\ given[i].life <= life
       /\ given[i].life = life => Identifier(given[i].authorization) \in consumed
  /\ \A t \in Threads : At(t, "execute") =>
       /\ Identifier(call[t].authorization) \in consumed
       /\ \A i \in DOMAIN given :
            given[i].life = life =>
              Identifier(given[i].authorization) # Identifier(call[t].authorization)
  /\ \A t, u \in Threads :
       /\ At(t, "execute") /\ At(u, "execute")
       /\ Identifier(call[t].authorization) = Identifier(call[u].authorization)
       => t = u
  /\ \A i, j \in DOMAIN given :
       /\ given[i].life = given[j].life
       /\ Identifier(given[i].authorization) = Identifier(given[j].authorization)
       => i = j

(* a life admits an attempt once, and adds one authorization to the known *)
CountInv ==
  \A attempt \in Attempts :
    /\ IsFiniteSet(Known(attempt))
    /\ Cardinality(Known(attempt)) <= life + (IF attempt \in nonces THEN 1 ELSE 0)

(* the lives that are over *)
PastInv ==
  \A attempt \in Attempts : \A n \in 0..life :
    n < life => Cardinality(Sent(attempt, n)) <= n + 1

IInv ==
  /\ TypeOK /\ DatedInv /\ GuardInv /\ PaymentInv /\ FailedInv /\ OnceInv
  /\ CountInv /\ PastInv /\ AdmissionInv /\ PrivateInv

-----------------------------------------------------------------------------
(* only thread t's call moves *)
CallMoves(t, c) ==
  /\ call' \in [Threads -> Calls \cup {Idle}]
  /\ call'[t] = c
  /\ \A u \in Threads : u # t => call'[u] = call[u]

LEMMA BusyTyped ==
  ASSUME TypeOK, NEW t \in Threads, Busy(t)
  PROVE  /\ call[t] \in Calls
         /\ call[t].step \in Steps
         /\ call[t].authorization \in Authorizations
         /\ call[t].guarded \in 0..MaxTime
         /\ call[t].payment \in Nat
  BY DEF TypeOK, Busy, Calls

LEMMA IdleSteps ==
  ASSUME TypeOK, NEW t \in Threads
  PROVE  /\ At(t, "idle") <=> ~Busy(t)
         /\ Passed(t) => Busy(t)
         /\ Paying(t) => Busy(t) /\ Passed(t)
         /\ call[t].step \in Steps => Busy(t)
  BY DEF TypeOK, Busy, At, Idle, Calls, Steps, Passed, Paying

LEMMA GivenTyped ==
  ASSUME TypeOK
  PROVE  /\ Len(given) \in Nat
         /\ DOMAIN given = 1..Len(given)
         /\ \A i \in DOMAIN given :
              /\ given[i] \in Payments
              /\ given[i].authorization \in Authorizations
              /\ given[i].life \in 0..MaxRestarts
              /\ given[i].guarded \in 0..MaxTime
<1>1. given \in Seq(Payments) BY DEF TypeOK
<1>2. Len(given) \in Nat /\ DOMAIN given = 1..Len(given) BY <1>1, LenProperties
<1>3. \A i \in DOMAIN given : given[i] \in Payments BY <1>1, <1>2, ElementOfSeq
<1> QED BY <1>2, <1>3 DEF Payments

LEMMA AuthorizationTyped ==
  ASSUME NEW x \in Authorizations
  PROVE  /\ x.request \in Requests /\ x.issued \in 0..MaxTime
         /\ x.admitted \in 0..MaxRestarts
         /\ Identifier(x) \in Requests \X (0..MaxTime)
         /\ x.request.attempt \in Attempts /\ x.request.created \in 0..MaxTime
         /\ ExpiresAt(x) \in Int
         /\ RequestExpires(x.request) \in Int
  BY ExternalAssumption DEF Authorizations, Requests, ExpiresAt, RequestExpires, Identifier

(***************************************************************************)
(* Nothing that was not known becomes known, or only what was admitted     *)
(* under a fresh nonce.                                                    *)
(***************************************************************************)
LEMMA KnownKept ==
  ASSUME TypeOK, CountInv, UNCHANGED <<nonces, life>>,
         \A x \in Authorizations : Held(x)' => Held(x)
  PROVE  CountInv'
<1> SUFFICES ASSUME NEW a \in Attempts
             PROVE  /\ IsFiniteSet(Known(a)')
                    /\ Cardinality(Known(a)') <= life + (IF a \in nonces THEN 1 ELSE 0)
  BY DEF CountInv
<1>1. Known(a)' \in SUBSET Known(a) BY DEF Known
<1>2. IsFiniteSet(Known(a)) BY DEF CountInv
<1>3. IsFiniteSet(Known(a)') /\ Cardinality(Known(a)') <= Cardinality(Known(a))
  BY <1>1, <1>2, FS_Subset
<1>4. Cardinality(Known(a)) \in Nat /\ Cardinality(Known(a)') \in Nat
  BY <1>2, <1>3, FS_CardinalityType
<1>5. life \in Int BY ExternalAssumption DEF TypeOK
<1>6. Cardinality(Known(a)) <= life + (IF a \in nonces THEN 1 ELSE 0) BY DEF CountInv
<1> QED BY <1>3, <1>4, <1>5, <1>6

LEMMA KnownAdmitted ==
  ASSUME TypeOK, CountInv, UNCHANGED life, NEW y \in Authorizations,
         y.request.attempt \notin nonces, nonces' = nonces \cup {y.request.attempt},
         \A x \in Authorizations : Held(x)' => Held(x) \/ x = y
  PROVE  CountInv'
<1> SUFFICES ASSUME NEW a \in Attempts
             PROVE  /\ IsFiniteSet(Known(a)')
                    /\ Cardinality(Known(a)') <= life + (IF a \in nonces' THEN 1 ELSE 0)
  BY DEF CountInv
<1>0. IsFiniteSet(Known(a)) /\ Cardinality(Known(a)) \in Nat
  BY FS_CardinalityType DEF CountInv
<1>l. life \in Int BY ExternalAssumption DEF TypeOK
<1>1. CASE a = y.request.attempt
  <2>1. Known(a)' \in SUBSET (Known(a) \cup {y}) BY DEF Known
  <2>2. /\ IsFiniteSet(Known(a) \cup {y})
        /\ Cardinality(Known(a) \cup {y}) <= Cardinality(Known(a)) + 1
        /\ Cardinality(Known(a) \cup {y}) \in Nat
    <3>1. /\ IsFiniteSet(Known(a) \cup {y})
          /\ Cardinality(Known(a) \cup {y}) =
               IF y \in Known(a) THEN Cardinality(Known(a)) ELSE Cardinality(Known(a)) + 1
      BY <1>0, FS_AddElement
    <3>2. Cardinality(Known(a) \cup {y}) \in Nat BY <3>1, FS_CardinalityType
    <3> QED BY <1>0, <3>1, <3>2
  <2>3. /\ IsFiniteSet(Known(a)')
        /\ Cardinality(Known(a)') <= Cardinality(Known(a) \cup {y})
        /\ Cardinality(Known(a)') \in Nat
    BY <2>1, <2>2, FS_Subset, FS_CardinalityType
  <2>4. Cardinality(Known(a)) <= life BY <1>1, <1>0, <1>l DEF CountInv
  <2> QED BY <1>0, <1>1, <1>l, <2>2, <2>3, <2>4
<1>2. CASE a # y.request.attempt
  <2>1. Known(a)' \in SUBSET Known(a) BY <1>2 DEF Known
  <2>2. /\ IsFiniteSet(Known(a)') /\ Cardinality(Known(a)') <= Cardinality(Known(a))
        /\ Cardinality(Known(a)') \in Nat
    BY <1>0, <2>1, FS_Subset, FS_CardinalityType
  <2>3. a \in nonces' <=> a \in nonces BY <1>2
  <2>4. Cardinality(Known(a)) <= life + (IF a \in nonces' THEN 1 ELSE 0)
    BY <2>3 DEF CountInv
  <2> QED BY <1>0, <1>l, <2>2, <2>4
<1> QED BY <1>1, <1>2

(* no other admission is known, and the nonces are those of before *)
LEMMA AdmissionKept ==
  ASSUME AdmissionInv, UNCHANGED <<nonces, life>>,
         \A x \in Authorizations : Held(x)' => Held(x)
  PROVE  AdmissionInv'
  BY DEF AdmissionInv

(***************************************************************************)
(* A call goes on with the authorization and the payment it has: nothing   *)
(* changes hands.                                                          *)
(***************************************************************************)
LEMMA HandsKept ==
  ASSUME AdmissionInv, PrivateInv, FailedInv, NEW t \in Threads, NEW c,
         Busy(t), CallMoves(t, c), c # Idle, c.mode = call[t].mode,
         c.authorization = call[t].authorization, c.payment = call[t].payment,
         UNCHANGED <<life, nonces, released, given, answers>>
  PROVE  AdmissionInv' /\ PrivateInv' /\ FailedInv'
<1>1. \A u \in Threads :
        /\ Busy(u)' <=> Busy(u)
        /\ Busy(u) => /\ call'[u].mode = call[u].mode
                      /\ call'[u].authorization = call[u].authorization
                      /\ call'[u].payment = call[u].payment
  BY DEF Busy, CallMoves
<1>2. \A x : Held(x)' => Held(x) BY <1>1 DEF Held
<1>3. AdmissionInv' BY <1>2, AdmissionKept
<1>4. PrivateInv' BY <1>1 DEF PrivateInv
<1>5. FailedInv' BY <1>1 DEF FailedInv
<1> QED BY <1>3, <1>4, <1>5

(* the payments of the lives that are over stay as they are *)
LEMMA PastKept ==
  ASSUME PastInv, UNCHANGED life,
         \A attempt \in Attempts : \A n \in 0..life :
           n < life => Sent(attempt, n)' = Sent(attempt, n)
  PROVE  PastInv'
  BY DEF PastInv

(***************************************************************************)
(* The present life: every payment of the attempt has an authorization of  *)
(* its own among the known ones.                                           *)
(***************************************************************************)
LEMMA PresentLife ==
  ASSUME IInv, NEW a \in Attempts
  PROVE  /\ IsFiniteSet(Sent(a, life))
         /\ Cardinality(Sent(a, life)) <= life + 1
<1> DEFINE f == [i \in Sent(a, life) |-> given[i].authorization]
<1>t. TypeOK /\ OnceInv /\ CountInv BY DEF IInv
<1>1. \A i \in Sent(a, life) : given[i].authorization \in Known(a)
  BY <1>t, GivenTyped DEF Sent, Known, Held
<1>2. \A i, j \in Sent(a, life) : f[i] = f[j] => i = j
  BY <1>t DEF Sent, OnceInv
<1>3. f \in Injection(Sent(a, life), Known(a))
  BY <1>1, <1>2 DEF Injection, IsInjective
<1>4. IsFiniteSet(Known(a)) BY <1>t DEF CountInv
<1>5. IsFiniteSet(Sent(a, life)) /\ Cardinality(Sent(a, life)) <= Cardinality(Known(a))
  BY <1>3, <1>4, FS_Injection
<1>6. Cardinality(Known(a)) <= life + 1
  BY <1>t, <1>4, FS_CardinalityType, ExternalAssumption DEF CountInv, TypeOK
<1> QED BY <1>4, <1>5, <1>6, <1>t, FS_CardinalityType, ExternalAssumption DEF TypeOK

LEMMA InitIInv == Init => IInv
<1> SUFFICES ASSUME Init PROVE IInv OBVIOUS
<1>1. \A t \in Threads : call[t] = Idle /\ call[t].step = "idle" /\ ~Busy(t)
  BY DEF Init, Idle, Busy
<1>2. given = <<>> /\ DOMAIN given = {} /\ given \in Seq(Payments) BY DEF Init
<1>3. TypeOK BY <1>2, ExternalAssumption DEF Init, TypeOK
<1>4. \A x \in Authorizations : ~Held(x) BY <1>1, <1>2 DEF Init, Held
<1>5. DatedInv /\ GuardInv /\ PaymentInv /\ FailedInv /\ OnceInv /\ AdmissionInv
      /\ PrivateInv
  BY <1>1, <1>2, <1>4
  DEF Init, DatedInv, GuardInv, PaymentInv, FailedInv, OnceInv, AdmissionInv, PrivateInv,
      Passed, Paying, At
<1>6. CountInv
  <2>1. \A a \in Attempts : Known(a) = {} BY <1>4 DEF Known
  <2>2. IsFiniteSet({}) /\ Cardinality({}) = 0 BY FS_EmptySet
  <2>3. \A a \in Attempts : IsFiniteSet(Known(a)) /\ Cardinality(Known(a)) = 0
    BY <2>1, <2>2
  <2>4. life = 0 BY DEF Init
  <2> QED BY <2>3, <2>4 DEF CountInv
<1>7. PastInv BY DEF PastInv, Init
<1> QED BY <1>3, <1>5, <1>6, <1>7 DEF IInv

-----------------------------------------------------------------------------
(* Time passes. *)
LEMMA TickKeeps == IInv /\ Tick => IInv'
<1> SUFFICES ASSUME IInv, Tick PROVE IInv' OBVIOUS
<1>0. /\ TypeOK /\ DatedInv /\ GuardInv /\ PaymentInv /\ FailedInv /\ OnceInv
      /\ CountInv /\ PastInv /\ AdmissionInv /\ PrivateInv
  BY DEF IInv
<1>u. UNCHANGED <<adapter, bound, life, nonces, consumed, released, call, given, answers>>
  BY DEF Tick
<1>1. TypeOK' BY <1>0, ExternalAssumption DEF Tick, TypeOK
<1>2. \A x \in Authorizations : Held(x)' <=> Held(x) BY <1>u DEF Held, Busy
<1>3. DatedInv' /\ GuardInv'
  BY <1>0, <1>2, <1>u DEF DatedInv, GuardInv, RequestExpires, Passed, ExpiresAt
<1>4. PaymentInv' /\ FailedInv' /\ OnceInv'
  BY <1>0, <1>u DEF PaymentInv, FailedInv, OnceInv, Busy, Paying, At
<1>5. CountInv' BY <1>0, <1>2, <1>u, KnownKept
<1>6. PastInv' BY <1>0, <1>u DEF PastInv, Sent
<1>7. AdmissionInv' BY <1>0, <1>2, <1>u, AdmissionKept
<1>8. PrivateInv' BY <1>0, <1>u DEF PrivateInv, Busy
<1> QED BY <1>1, <1>3, <1>4, <1>5, <1>6, <1>7, <1>8 DEF IInv

(***************************************************************************)
(* An attempt is admitted: its nonce was fresh, and the one authorization  *)
(* that becomes known is dated now, before the request expires.            *)
(***************************************************************************)
LEMMA AdmitKeeps ==
  ASSUME IInv, NEW t \in Threads, NEW y \in Authorizations,
         At(t, "idle"), Fresh(y.request), y.issued = now, y.admitted = life,
         nonces' = nonces \cup {y.request.attempt},
         \/ UNCHANGED released /\ ToAdapter(t, "process", y)
         \/ UNCHANGED call /\ released' = released \cup {y},
         UNCHANGED <<adapter, bound, now, life, consumed, given, answers>>
  PROVE  IInv'
<1>0. /\ TypeOK /\ DatedInv /\ GuardInv /\ PaymentInv /\ FailedInv /\ OnceInv
      /\ CountInv /\ PastInv /\ AdmissionInv /\ PrivateInv
  BY DEF IInv
<1>c. /\ call' \in [Threads -> Calls \cup {Idle}]
      /\ call' # call => call'[t].authorization = y /\ call'[t].step = "guard"
                         /\ call'[t].payment = 0
      /\ call' = call \/ call'[t] # Idle
      /\ \A u \in Threads : u # t => call'[u] = call[u]
  <2>1. CASE UNCHANGED call BY <2>1, <1>0 DEF TypeOK
  <2>2. CASE ToAdapter(t, "process", y)
    <3>1. 0 \in 0..MaxTime BY ExternalAssumption
    <3> DEFINE c == [step |-> "guard", mode |-> "process", authorization |-> y,
                     guarded |-> 0, payment |-> 0]
    <3>2. c \in Calls BY <3>1 DEF Calls, Steps
    <3>3. call' = [call EXCEPT ![t] = c] BY <2>2 DEF ToAdapter
    <3>4. c # Idle
      <4>1. c.step = "guard" /\ Idle.step = "idle" BY DEF Idle
      <4> QED BY <4>1
    <3> QED BY <3>2, <3>3, <3>4, <1>0 DEF TypeOK
  <2> QED BY <2>1, <2>2
<1>1. TypeOK' BY <1>0, <1>c, AuthorizationTyped DEF TypeOK
<1>2. \A x \in Authorizations : Held(x)' => Held(x) \/ x = y
  BY <1>c DEF Held, Busy
<1>3. y.issued < RequestExpires(y.request) BY DEF Fresh
<1>4. DatedInv' BY <1>0, <1>2, <1>3 DEF DatedInv, RequestExpires
<1>5. \A u \in Threads : /\ Passed(u)' => Passed(u) /\ call'[u] = call[u]
                         /\ Paying(u)' => Paying(u) /\ call'[u] = call[u]
                         /\ At(u, "execute")' => At(u, "execute") /\ call'[u] = call[u]
  BY <1>c DEF Passed, Paying, At
<1>6. GuardInv' BY <1>0, <1>5 DEF GuardInv, ExpiresAt
<1>7. PaymentInv'
  <2>1. \A u \in Threads : Busy(u)' => (call'[u].payment # 0 <=> Paying(u)')
    BY <1>0, <1>c DEF PaymentInv, Busy, Paying
  <2> QED BY <1>0, <1>5, <2>1 DEF PaymentInv
<1>f. ~Held(y) BY <1>0 DEF Fresh, AdmissionInv
<1>h. /\ \A u \in Threads : Busy(u)' =>
           \/ u = t /\ call'[t].authorization = y /\ released' = released
           \/ Busy(u) /\ call'[u] = call[u]
      /\ released' \subseteq released \cup {y}
  BY <1>c DEF Busy, ToAdapter
<1>8. FailedInv'
  <2>1. \A i \in DOMAIN given : given[i].authorization # y BY <1>f DEF Held
  <2> QED BY <1>0, <1>h, <2>1 DEF FailedInv
<1>9. OnceInv' BY <1>0, <1>5 DEF OnceInv
<1>10. CountInv'
  BY <1>0, <1>2, KnownAdmitted DEF Fresh
<1>11. PastInv' BY <1>0 DEF PastInv, Sent
<1>12. AdmissionInv'
  <2>1. \A x \in Authorizations : Held(x) =>
          ~(x.request.attempt = y.request.attempt /\ x.admitted = life)
    BY <1>0 DEF AdmissionInv, Fresh
  <2>2. life \in Int BY <1>0, ExternalAssumption DEF TypeOK
  <2> QED BY <1>0, <1>2, <2>1, <2>2 DEF AdmissionInv
<1>13. PrivateInv'
  <2>1. \A i \in DOMAIN given : given[i].authorization # y BY <1>f DEF Held
  <2>2. \A u \in Threads : Busy(u) => call[u].authorization # y BY <1>f DEF Held
  <2>3. y \notin released BY <1>f DEF Held
  <2>4. ~Busy(t) BY <1>0, IdleSteps
  <2> QED BY <1>0, <1>h, <2>1, <2>2, <2>3, <2>4 DEF PrivateInv
<1> QED BY <1>1, <1>4, <1>6, <1>7, <1>8, <1>9, <1>10, <1>11, <1>12, <1>13 DEF IInv

(* A released authorization is presented: nothing becomes known. *)
LEMMA PresentKeeps ==
  ASSUME IInv, NEW t \in Threads, NEW y \in released, Present(t, y)
  PROVE  IInv'
<1>0. /\ TypeOK /\ DatedInv /\ GuardInv /\ PaymentInv /\ FailedInv /\ OnceInv
      /\ CountInv /\ PastInv /\ AdmissionInv /\ PrivateInv
  BY DEF IInv
<1>u. UNCHANGED <<adapter, bound, now, life, nonces, consumed, released, given, answers>>
  BY DEF Present
<1> DEFINE c == [step |-> "guard", mode |-> "present", authorization |-> y,
                 guarded |-> 0, payment |-> 0]
<1>c. /\ c \in Calls /\ c.authorization = y /\ c.step = "guard" /\ c.payment = 0
      /\ c.mode = "present" /\ CallMoves(t, c)
  <2>1. 0 \in 0..MaxTime /\ y \in Authorizations
    BY <1>0, ExternalAssumption DEF TypeOK
  <2>2. c \in Calls BY <2>1 DEF Calls, Steps
  <2>3. call' = [call EXCEPT ![t] = c] BY DEF Present, ToAdapter
  <2> QED BY <2>2, <2>3, <1>0 DEF TypeOK, CallMoves
<1> HIDE DEF c
<1>1. TypeOK' BY <1>0, <1>c, <1>u DEF TypeOK, CallMoves
<1>2. \A x \in Authorizations : Held(x)' => Held(x)
  BY <1>c, <1>u DEF Held, Busy, CallMoves
<1>4. DatedInv' BY <1>0, <1>2, <1>u DEF DatedInv, RequestExpires
<1>5. \A u \in Threads : /\ Passed(u)' => Passed(u) /\ call'[u] = call[u]
                         /\ Paying(u)' => Paying(u) /\ call'[u] = call[u]
                         /\ At(u, "execute")' => At(u, "execute") /\ call'[u] = call[u]
  BY <1>c DEF Passed, Paying, At, CallMoves
<1>6. GuardInv' BY <1>0, <1>5, <1>u DEF GuardInv, ExpiresAt
<1>7. PaymentInv'
  <2>1. \A u \in Threads : Busy(u)' => (call'[u].payment # 0 <=> Paying(u)')
    BY <1>0, <1>c DEF PaymentInv, Busy, Paying, CallMoves
  <2> QED BY <1>0, <1>5, <1>u, <2>1 DEF PaymentInv
<1>h. /\ \A u \in Threads : u # t =>
            (Busy(u)' <=> Busy(u)) /\ call'[u] = call[u]
      /\ call'[t].mode = "present" /\ call'[t].authorization = y /\ y \in released
  BY <1>c DEF Busy, CallMoves
<1>8. FailedInv' BY <1>0, <1>h, <1>u DEF FailedInv
<1>9. OnceInv' BY <1>0, <1>5, <1>u DEF OnceInv
<1>10. CountInv' BY <1>0, <1>2, <1>u, KnownKept
<1>11. PastInv' BY <1>0, <1>u DEF PastInv, Sent
<1>12. AdmissionInv' BY <1>0, <1>2, <1>u, AdmissionKept
<1>13. PrivateInv' BY <1>0, <1>h, <1>u DEF PrivateInv
<1> QED BY <1>1, <1>4, <1>6, <1>7, <1>8, <1>9, <1>10, <1>11, <1>12, <1>13 DEF IInv

-----------------------------------------------------------------------------
(* The wallet guard lets a call pass, in time and for its requirement. *)
LEMMA PassGuardKeeps ==
  ASSUME IInv, NEW t \in Threads, PassGuard(t)
  PROVE  IInv'
<1>0. /\ TypeOK /\ DatedInv /\ GuardInv /\ PaymentInv /\ FailedInv /\ OnceInv
      /\ CountInv /\ PastInv /\ AdmissionInv /\ PrivateInv
  BY DEF IInv
<1>u. UNCHANGED <<adapter, bound, now, life, nonces, consumed, released, given, answers>>
  BY DEF PassGuard
<1>b. Busy(t) /\ call[t].step = "guard" /\ call[t] \in Calls
  BY <1>0, IdleSteps, BusyTyped DEF PassGuard, At, Steps
<1> DEFINE c == [call[t] EXCEPT !.step = "consume", !.guarded = now]
<1>c. /\ c \in Calls /\ c # Idle /\ c.step = "consume" /\ c.guarded = now
      /\ c.authorization = call[t].authorization /\ c.payment = call[t].payment
      /\ c.mode = call[t].mode
      /\ CallMoves(t, c)
  <2>1. c \in Calls /\ c.step = "consume" /\ c.guarded = now
        /\ c.authorization = call[t].authorization /\ c.payment = call[t].payment
        /\ c.mode = call[t].mode
    BY <1>b, <1>0 DEF Calls, Steps, TypeOK
  <2>2. c # Idle BY <2>1 DEF Idle
  <2>3. call' = [call EXCEPT ![t] = c] BY DEF PassGuard
  <2> QED BY <2>1, <2>2, <2>3, <1>0 DEF TypeOK, CallMoves
<1> HIDE DEF c
<1>1. TypeOK' BY <1>0, <1>c, <1>u DEF TypeOK, CallMoves
<1>2. \A x \in Authorizations : Held(x)' => Held(x)
  BY <1>b, <1>c, <1>u DEF Held, Busy, CallMoves
<1>4. DatedInv' BY <1>0, <1>2, <1>u DEF DatedInv, RequestExpires
<1>5. \A u \in Threads : /\ Passed(u)' => u = t \/ (Passed(u) /\ call'[u] = call[u])
                         /\ Paying(u)' => Paying(u) /\ call'[u] = call[u]
                         /\ At(u, "execute")' => At(u, "execute") /\ call'[u] = call[u]
  BY <1>c DEF Passed, Paying, At, CallMoves
<1>6. GuardInv'
  <2>1. c.guarded < ExpiresAt(c.authorization)
    BY <1>c DEF PassGuard, Acceptable
  <2> QED BY <1>0, <1>5, <1>u, <1>c, <2>1 DEF GuardInv, ExpiresAt, CallMoves
<1>7. PaymentInv'
  <2>1. \A u \in Threads : Busy(u)' => (call'[u].payment # 0 <=> Paying(u)')
    BY <1>0, <1>b, <1>c DEF PaymentInv, Busy, Paying, CallMoves
  <2> QED BY <1>0, <1>5, <1>u, <2>1 DEF PaymentInv
<1>8. AdmissionInv' /\ PrivateInv' /\ FailedInv'
  BY <1>0, <1>b, <1>c, <1>u, HandsKept
<1>9. OnceInv' BY <1>0, <1>5, <1>u DEF OnceInv
<1>10. CountInv' BY <1>0, <1>2, <1>u, KnownKept
<1>11. PastInv' BY <1>0, <1>u DEF PastInv, Sent
<1> QED BY <1>1, <1>4, <1>6, <1>7, <1>8, <1>9, <1>10, <1>11 DEF IInv

(***************************************************************************)
(* The authorization is consumed: until now nothing was sent on it in this *)
(* life, and nobody else is about to.                                      *)
(***************************************************************************)
LEMMA ConsumeKeeps ==
  ASSUME IInv, NEW t \in Threads, Consume(t)
  PROVE  IInv'
<1>0. /\ TypeOK /\ DatedInv /\ GuardInv /\ PaymentInv /\ FailedInv /\ OnceInv
      /\ CountInv /\ PastInv /\ AdmissionInv /\ PrivateInv
  BY DEF IInv
<1>u. UNCHANGED <<adapter, bound, now, life, nonces, released, given, answers>>
  BY DEF Consume
<1>b. Busy(t) /\ call[t].step = "consume" /\ call[t] \in Calls /\ Passed(t)
  BY <1>0, IdleSteps, BusyTyped DEF Consume, At, Steps, Passed
<1> DEFINE c == [call[t] EXCEPT !.step = "execute"]
<1>c. /\ c \in Calls /\ c # Idle /\ c.step = "execute" /\ c.guarded = call[t].guarded
      /\ c.authorization = call[t].authorization /\ c.payment = call[t].payment
      /\ c.mode = call[t].mode
      /\ CallMoves(t, c)
  <2>1. c \in Calls /\ c.step = "execute" /\ c.guarded = call[t].guarded
        /\ c.authorization = call[t].authorization /\ c.payment = call[t].payment
        /\ c.mode = call[t].mode
    BY <1>b DEF Calls, Steps
  <2>2. c # Idle BY <2>1 DEF Idle
  <2>3. call' = [call EXCEPT ![t] = c] BY DEF Consume, Advance
  <2> QED BY <2>1, <2>2, <2>3, <1>0 DEF TypeOK, CallMoves
<1> HIDE DEF c
<1>s. /\ call[t].authorization \in Authorizations
      /\ Identifier(call[t].authorization) \notin consumed
      /\ consumed' = consumed \cup {Identifier(call[t].authorization)}
  BY <1>0, <1>b, BusyTyped DEF Consume
<1>1. TypeOK' BY <1>0, <1>c, <1>u, <1>s, AuthorizationTyped DEF TypeOK, CallMoves
<1>2. \A x \in Authorizations : Held(x)' => Held(x)
  BY <1>b, <1>c, <1>u DEF Held, Busy, CallMoves
<1>4. DatedInv' BY <1>0, <1>2, <1>u DEF DatedInv, RequestExpires
<1>5. \A u \in Threads :
        /\ Passed(u)' => Passed(u) /\ call'[u].guarded = call[u].guarded
                         /\ call'[u].authorization = call[u].authorization
        /\ Paying(u)' => Paying(u) /\ call'[u] = call[u]
        /\ At(u, "execute")' => u = t \/ (At(u, "execute") /\ call'[u] = call[u])
  BY <1>b, <1>c DEF Passed, Paying, At, CallMoves
<1>6. GuardInv' BY <1>0, <1>5, <1>u DEF GuardInv, ExpiresAt
<1>7. PaymentInv'
  <2>1. \A u \in Threads : Busy(u)' => (call'[u].payment # 0 <=> Paying(u)')
    BY <1>0, <1>b, <1>c DEF PaymentInv, Busy, Paying, CallMoves
  <2> QED BY <1>0, <1>5, <1>u, <2>1 DEF PaymentInv
<1>8. AdmissionInv' /\ PrivateInv' /\ FailedInv'
  BY <1>0, <1>b, <1>c, <1>u, HandsKept
<1>9. OnceInv'
  <2>1. \A i \in DOMAIN given :
          given[i].life = life =>
            Identifier(given[i].authorization) # Identifier(call[t].authorization)
    BY <1>0, <1>s DEF OnceInv
  <2>2. \A u \in Threads :
          At(u, "execute") =>
            Identifier(call[u].authorization) # Identifier(call[t].authorization)
    BY <1>0, <1>s DEF OnceInv
  <2>3. call'[t].authorization = call[t].authorization BY <1>c DEF CallMoves
  <2> QED BY <1>0, <1>5, <1>u, <1>s, <2>1, <2>2, <2>3 DEF OnceInv
<1>10. CountInv' BY <1>0, <1>2, <1>u, KnownKept
<1>11. PastInv' BY <1>0, <1>u DEF PastInv, Sent
<1> QED BY <1>1, <1>4, <1>6, <1>7, <1>8, <1>9, <1>10, <1>11 DEF IInv

(* The facilitator confirms: the call keeps its payment and goes on. *)
LEMMA FacilitatorKeeps ==
  ASSUME IInv, NEW t \in Threads, FacilitatorConfirms(t)
  PROVE  IInv'
<1>0. /\ TypeOK /\ DatedInv /\ GuardInv /\ PaymentInv /\ FailedInv /\ OnceInv
      /\ CountInv /\ PastInv /\ AdmissionInv /\ PrivateInv
  BY DEF IInv
<1>u. UNCHANGED <<adapter, bound, now, life, nonces, consumed, released, given, answers>>
  BY DEF FacilitatorConfirms
<1>b. Busy(t) /\ call[t] \in Calls /\ Passed(t) /\ Paying(t)
  BY <1>0, IdleSteps, BusyTyped DEF FacilitatorConfirms, At, Steps, Passed, Paying
<1> DEFINE c == [call[t] EXCEPT !.step = "confirm"]
<1>c. /\ c \in Calls /\ c # Idle /\ c.step = "confirm" /\ c.guarded = call[t].guarded
      /\ c.authorization = call[t].authorization /\ c.payment = call[t].payment
      /\ c.mode = call[t].mode
      /\ CallMoves(t, c)
  <2>1. c \in Calls /\ c.step = "confirm" /\ c.guarded = call[t].guarded
        /\ c.authorization = call[t].authorization /\ c.payment = call[t].payment
        /\ c.mode = call[t].mode
    BY <1>b DEF Calls, Steps
  <2>2. c # Idle BY <2>1 DEF Idle
  <2>3. call' = [call EXCEPT ![t] = c] BY DEF FacilitatorConfirms, Advance
  <2> QED BY <2>1, <2>2, <2>3, <1>0 DEF TypeOK, CallMoves
<1> HIDE DEF c
<1>1. TypeOK' BY <1>0, <1>c, <1>u DEF TypeOK, CallMoves
<1>2. \A x \in Authorizations : Held(x)' => Held(x)
  BY <1>b, <1>c, <1>u DEF Held, Busy, CallMoves
<1>4. DatedInv' BY <1>0, <1>2, <1>u DEF DatedInv, RequestExpires
<1>5. \A u \in Threads :
        /\ Passed(u)' => Passed(u) /\ call'[u].guarded = call[u].guarded
                         /\ call'[u].authorization = call[u].authorization
        /\ Paying(u)' => Paying(u) /\ call'[u].payment = call[u].payment
                         /\ call'[u].authorization = call[u].authorization
        /\ At(u, "execute")' => At(u, "execute") /\ call'[u] = call[u]
  BY <1>b, <1>c DEF Passed, Paying, At, CallMoves
<1>6. GuardInv' BY <1>0, <1>5, <1>u DEF GuardInv, ExpiresAt
<1>7. PaymentInv'
  <2>1. \A u \in Threads : Busy(u)' => (call'[u].payment # 0 <=> Paying(u)')
    BY <1>0, <1>b, <1>c DEF PaymentInv, Busy, Paying, CallMoves
  <2> QED BY <1>0, <1>5, <1>u, <2>1 DEF PaymentInv
<1>8. AdmissionInv' /\ PrivateInv' /\ FailedInv'
  BY <1>0, <1>b, <1>c, <1>u, HandsKept
<1>9. OnceInv' BY <1>0, <1>5, <1>u DEF OnceInv
<1>10. CountInv' BY <1>0, <1>2, <1>u, KnownKept
<1>11. PastInv' BY <1>0, <1>u DEF PastInv, Sent
<1> QED BY <1>1, <1>4, <1>6, <1>7, <1>8, <1>9, <1>10, <1>11 DEF IInv

(***************************************************************************)
(* A call is answered.  If it settled its authorization leaves the         *)
(* process; if it failed, a call of process takes it along.                *)
(***************************************************************************)
LEMMA AnswerKeeps ==
  ASSUME IInv, NEW t \in Threads, NEW verdict \in {"SETTLED", "FAILED"},
         Busy(t), Answer(t, verdict),
         UNCHANGED <<adapter, bound, now, life, nonces, consumed, given>>
  PROVE  IInv'
<1>0. /\ TypeOK /\ DatedInv /\ GuardInv /\ PaymentInv /\ FailedInv /\ OnceInv
      /\ CountInv /\ PastInv /\ AdmissionInv /\ PrivateInv
  BY DEF IInv
<1>b. /\ call[t] \in Calls /\ call[t].authorization \in Authorizations
      /\ call[t].mode \in {"process", "present"} /\ call[t].payment \in Nat
  BY <1>0, BusyTyped DEF Calls
<1>c. CallMoves(t, Idle) BY <1>0 DEF Answer, CallMoves, TypeOK
<1> DEFINE new == [mode |-> call[t].mode, request |-> call[t].authorization.request,
                   verdict |-> verdict, payment |-> call[t].payment]
<1>n. /\ new \in Answers /\ new.verdict = verdict /\ new.payment = call[t].payment
      /\ new.request = call[t].authorization.request /\ new.mode = call[t].mode
  BY <1>b, AuthorizationTyped DEF Answers
<1>a. \A a \in answers' : a \in answers \/ (a = new /\ Paying(t))
  BY <1>0 DEF Answer, PaymentInv
<1> HIDE DEF new
<1>i. Idle.step = "idle" BY DEF Idle
<1>1. TypeOK'
  <2>1. answers' \subseteq Answers BY <1>0, <1>a, <1>n DEF TypeOK
  <2>2. released' \subseteq Authorizations BY <1>0, <1>b DEF TypeOK, Answer
  <2> QED BY <1>0, <1>c, <2>1, <2>2 DEF TypeOK, CallMoves
<1>2. \A x \in Authorizations : Held(x)' => Held(x)
  BY <1>c DEF Held, Busy, CallMoves, Answer
<1>4. DatedInv' BY <1>0, <1>2 DEF DatedInv, RequestExpires
<1>5. \A u \in Threads :
        /\ Busy(u)' => u # t /\ Busy(u) /\ call'[u] = call[u]
        /\ Passed(u)' => u # t /\ Passed(u) /\ call'[u] = call[u]
        /\ Paying(u)' => u # t /\ Paying(u) /\ call'[u] = call[u]
        /\ At(u, "execute")' => u # t /\ At(u, "execute") /\ call'[u] = call[u]
  BY <1>c, <1>i DEF Busy, Passed, Paying, At, CallMoves
<1>6. GuardInv' BY <1>0, <1>5 DEF GuardInv, ExpiresAt
<1>7. PaymentInv'
  <2>1. \A u \in Threads : Busy(u)' => (Paying(u)' <=> Paying(u))
    BY <1>5 DEF Paying
  <2> QED BY <1>0, <1>5, <2>1 DEF PaymentInv
<1>8. FailedInv'
  <2>1. Paying(t) => new.payment \in DOMAIN given
    BY <1>0, <1>n DEF PaymentInv
  <2>2. ASSUME Paying(t), Failed(new)
        PROVE  /\ given[new.payment].authorization \notin released'
               /\ \A u \in Threads : u # t /\ Busy(u) =>
                    call[u].authorization # given[new.payment].authorization
               /\ \A i \in DOMAIN given :
                    given[i].authorization = given[new.payment].authorization
                      => i = new.payment
    <3>1. call[t].mode = "process" /\ verdict = "FAILED" BY <2>2, <1>n DEF Failed
    <3>2. released' = released BY <3>1 DEF Answer
    <3>3. given[new.payment].authorization = call[t].authorization
      BY <1>0, <1>n, <2>2 DEF PaymentInv
    <3> QED BY <1>0, <1>n, <3>1, <3>2, <3>3 DEF PrivateInv
  <2>3. ASSUME NEW a \in answers, Failed(a)
        PROVE  given[a.payment].authorization \notin released'
    BY <1>0, <2>3 DEF FailedInv, Answer
  <2> SUFFICES ASSUME NEW a \in answers'
               PROVE  /\ a.payment \in DOMAIN given
                      /\ Failed(a) =>
                           /\ given[a.payment].authorization \notin released'
                           /\ \A u \in Threads : Busy(u)' =>
                                call'[u].authorization # given[a.payment].authorization
                           /\ \A i \in DOMAIN given :
                                given[i].authorization = given[a.payment].authorization
                                  => i = a.payment
    BY DEF FailedInv
  <2>4. CASE a \in answers BY <1>0, <1>5, <2>3, <2>4 DEF FailedInv
  <2>5. CASE a = new /\ Paying(t) BY <1>5, <2>1, <2>2, <2>5
  <2> QED BY <1>a, <2>4, <2>5
<1>9. OnceInv' BY <1>0, <1>5 DEF OnceInv
<1>10. CountInv' BY <1>0, <1>2, KnownKept
<1>11. PastInv' BY <1>0 DEF PastInv, Sent
<1>12. AdmissionInv' BY <1>0, <1>2, AdmissionKept
<1>13. PrivateInv'
  <2> SUFFICES ASSUME NEW u \in Threads, Busy(u)', call'[u].mode = "process"
               PROVE  /\ call'[u].authorization \notin released'
                      /\ \A w \in Threads :
                           Busy(w)' /\ call'[w].authorization = call'[u].authorization
                             => w = u
                      /\ \A i \in DOMAIN given :
                           given[i].authorization = call'[u].authorization
                             => i = call'[u].payment
    BY DEF PrivateInv
  <2>1. u # t /\ Busy(u) /\ call'[u] = call[u] BY <1>5
  <2>2. call[u].authorization # call[t].authorization BY <1>0, <2>1 DEF PrivateInv
  <2>3. call[u].authorization \notin released' BY <1>0, <2>1, <2>2 DEF PrivateInv, Answer
  <2> QED BY <1>0, <1>5, <2>1, <2>3 DEF PrivateInv
<1> QED BY <1>1, <1>4, <1>6, <1>7, <1>8, <1>9, <1>10, <1>11, <1>12, <1>13 DEF IInv

(***************************************************************************)
(* The service is given the payment, the first of this life on its         *)
(* authorization.                                                          *)
(***************************************************************************)
LEMMA SendKeeps ==
  ASSUME IInv, NEW t \in Threads, Send(t)
  PROVE  IInv'
<1>0. /\ TypeOK /\ DatedInv /\ GuardInv /\ PaymentInv /\ FailedInv /\ OnceInv
      /\ CountInv /\ PastInv /\ AdmissionInv /\ PrivateInv
  BY DEF IInv
<1>u. UNCHANGED <<adapter, bound, now, life, nonces, consumed, released, answers>>
  BY DEF Send
<1>b. Busy(t) /\ call[t] \in Calls /\ Passed(t) /\ ~Paying(t) /\ At(t, "execute")
  BY <1>0, IdleSteps, BusyTyped DEF Send, At, Steps, Passed, Paying
<1>bt. call[t].authorization \in Authorizations /\ call[t].guarded \in 0..MaxTime
  BY <1>0, <1>b, BusyTyped
<1> DEFINE p == [authorization |-> call[t].authorization, life |-> life,
                 guarded |-> call[t].guarded]
           n == Len(given) + 1
<1>p. /\ p \in Payments /\ p.authorization = call[t].authorization /\ p.life = life
      /\ p.guarded = call[t].guarded
  BY <1>0, <1>bt DEF Payments, TypeOK
<1>h. given' = Append(given, p) BY DEF Send
<1> HIDE DEF p
<1>d. /\ Len(given) \in Nat /\ DOMAIN given = 1..Len(given)
      /\ given' \in Seq(Payments) /\ Len(given') = n
      /\ DOMAIN given' = 1..n
      /\ \A i \in DOMAIN given : given'[i] = given[i]
      /\ given'[n] = p
  <2>1. given \in Seq(Payments) BY <1>0 DEF TypeOK
  <2> QED BY <1>h, <1>p, <2>1, AppendProperties, LenProperties
<1>e. /\ n \in Nat /\ n # 0 /\ n \in DOMAIN given' /\ n \notin DOMAIN given
      /\ \A i \in DOMAIN given : i \in DOMAIN given'
      /\ \A i \in DOMAIN given' : i \in DOMAIN given \/ i = n
  BY <1>d
<1> DEFINE c == [call[t] EXCEPT !.step = "response", !.payment = n]
<1>c. /\ c \in Calls /\ c # Idle /\ c.step = "response" /\ c.guarded = call[t].guarded
      /\ c.authorization = call[t].authorization /\ c.payment = n
      /\ c.mode = call[t].mode /\ CallMoves(t, c)
  <2>1. c \in Calls /\ c.step = "response" /\ c.guarded = call[t].guarded
        /\ c.authorization = call[t].authorization /\ c.payment = n
        /\ c.mode = call[t].mode
    BY <1>b, <1>e DEF Calls, Steps
  <2>2. c # Idle BY <2>1 DEF Idle
  <2>3. call' = [call EXCEPT ![t] = c] BY <1>d DEF Send
  <2> QED BY <2>1, <2>2, <2>3, <1>0 DEF TypeOK, CallMoves
<1> HIDE DEF c, n
<1>1. TypeOK' BY <1>0, <1>c, <1>d, <1>u DEF TypeOK, CallMoves
<1>2. \A x \in Authorizations : Held(x)' => Held(x)
  <2>1. \A i \in DOMAIN given' :
          \/ i \in DOMAIN given /\ given'[i] = given[i]
          \/ given'[i].authorization = call[t].authorization
    BY <1>d, <1>e, <1>p
  <2> QED BY <1>b, <1>c, <1>u, <2>1 DEF Held, Busy, CallMoves
<1>4. DatedInv' BY <1>0, <1>2, <1>u DEF DatedInv, RequestExpires
<1>5. \A u \in Threads :
        /\ Passed(u)' => Passed(u) /\ call'[u].guarded = call[u].guarded
                         /\ call'[u].authorization = call[u].authorization
        /\ Paying(u)' => u = t \/ (Paying(u) /\ call'[u] = call[u])
        /\ At(u, "execute")' => u # t /\ At(u, "execute") /\ call'[u] = call[u]
  BY <1>b, <1>c DEF Passed, Paying, At, CallMoves
<1>t. call'[t] = c BY <1>c DEF CallMoves
<1>6. GuardInv'
  <2>1. p.guarded < ExpiresAt(p.authorization)
    BY <1>0, <1>b, <1>p DEF GuardInv
  <2> QED BY <1>0, <1>5, <1>u, <1>d, <1>e, <2>1 DEF GuardInv, ExpiresAt
<1>7. PaymentInv'
  <2>1. \A u \in Threads : Busy(u)' => (call'[u].payment # 0 <=> Paying(u)')
    BY <1>0, <1>c, <1>e DEF PaymentInv, Busy, Paying, CallMoves
  <2>3. \A u \in Threads : Paying(u)' =>
          /\ call'[u].payment \in DOMAIN given'
          /\ given'[call'[u].payment].authorization = call'[u].authorization
    BY <1>0, <1>5, <1>t, <1>c, <1>d, <1>e, <1>p DEF PaymentInv
  <2> QED BY <2>1, <2>3 DEF PaymentInv
<1>o. \A u \in Threads :
        /\ Busy(u)' <=> Busy(u)
        /\ Busy(u) => /\ call'[u].authorization = call[u].authorization
                      /\ call'[u].mode = call[u].mode
        /\ u # t => call'[u] = call[u]
  BY <1>b, <1>c DEF Busy, CallMoves
<1>8. FailedInv'
  <2> SUFFICES ASSUME NEW a \in answers
               PROVE  /\ a.payment \in DOMAIN given'
                      /\ Failed(a) =>
                           /\ given'[a.payment].authorization \notin released
                           /\ \A u \in Threads : Busy(u)' =>
                                call'[u].authorization # given'[a.payment].authorization
                           /\ \A i \in DOMAIN given' :
                                given'[i].authorization = given'[a.payment].authorization
                                  => i = a.payment
    BY <1>u DEF FailedInv
  <2>1. a.payment \in DOMAIN given /\ given'[a.payment] = given[a.payment]
        /\ a.payment \in DOMAIN given'
    BY <1>0, <1>d, <1>e DEF FailedInv
  <2>2. Failed(a) => p.authorization # given[a.payment].authorization
    BY <1>0, <1>b, <1>p DEF FailedInv
  <2> QED BY <1>0, <1>d, <1>e, <1>o, <2>1, <2>2 DEF FailedInv
<1>9. OnceInv'
  <2>l. life \in Int BY <1>0, ExternalAssumption DEF TypeOK
  <2>1. /\ Identifier(call[t].authorization) \in consumed
        /\ \A i \in DOMAIN given :
             given[i].life = life =>
               Identifier(given[i].authorization) # Identifier(call[t].authorization)
    BY <1>0, <1>b DEF OnceInv
  <2>2. \A u \in Threads : u # t /\ At(u, "execute") =>
          Identifier(call[u].authorization) # Identifier(call[t].authorization)
    BY <1>0, <1>b DEF OnceInv
  <2>3. \A i \in DOMAIN given' :
          /\ given'[i].life <= life'
          /\ given'[i].life = life' => Identifier(given'[i].authorization) \in consumed'
    BY <1>0, <1>d, <1>e, <1>p, <1>u, <2>1, <2>l DEF OnceInv
  <2>4. \A u \in Threads : At(u, "execute")' =>
          /\ Identifier(call'[u].authorization) \in consumed'
          /\ \A i \in DOMAIN given' :
               given'[i].life = life' =>
                 Identifier(given'[i].authorization) # Identifier(call'[u].authorization)
    BY <1>0, <1>5, <1>d, <1>e, <1>p, <1>u, <2>2 DEF OnceInv
  <2>5. \A u, w \in Threads :
          /\ At(u, "execute")' /\ At(w, "execute")'
          /\ Identifier(call'[u].authorization) = Identifier(call'[w].authorization)
          => u = w
    BY <1>0, <1>5 DEF OnceInv
  <2>6. \A i, j \in DOMAIN given' :
          /\ given'[i].life = given'[j].life
          /\ Identifier(given'[i].authorization) = Identifier(given'[j].authorization)
          => i = j
    BY <1>0, <1>d, <1>e, <1>p, <2>1 DEF OnceInv
  <2> QED BY <2>3, <2>4, <2>5, <2>6 DEF OnceInv
<1>10. CountInv' BY <1>0, <1>2, <1>u, KnownKept
<1>11. PastInv'
  <2>l. life \in Int BY <1>0, ExternalAssumption DEF TypeOK
  <2>1. \A a \in Attempts : \A m \in 0..life : m < life => Sent(a, m)' = Sent(a, m)
    BY <1>d, <1>e, <1>p, <2>l DEF Sent
  <2> QED BY <1>0, <1>u, <2>1, PastKept
<1>12. AdmissionInv' BY <1>0, <1>2, <1>u, AdmissionKept
<1>13. PrivateInv'
  <2>1. ASSUME NEW u \in Threads, Busy(u), call[u].mode = "process",
               NEW i \in DOMAIN given',
               given'[i].authorization = call[u].authorization
        PROVE  i = call'[u].payment
    <3>1. CASE i = n
      <4>1. call[t].authorization = call[u].authorization BY <1>d, <1>p, <2>1, <3>1
      <4>2. u = t BY <1>0, <1>b, <2>1, <4>1 DEF PrivateInv
      <4> QED BY <1>t, <1>c, <3>1, <4>2
    <3>2. CASE i \in DOMAIN given
      <4>1. i = call[u].payment BY <1>0, <1>d, <2>1, <3>2 DEF PrivateInv
      <4>2. i # 0 BY <1>d, <3>2
      <4>3. u # t BY <1>0, <1>b, <4>1, <4>2 DEF PaymentInv
      <4> QED BY <1>o, <4>1, <4>3
    <3> QED BY <1>e, <3>1, <3>2
  <2> QED BY <1>0, <1>o, <1>u, <2>1 DEF PrivateInv
<1> QED BY <1>1, <1>4, <1>6, <1>7, <1>8, <1>9, <1>10, <1>11, <1>12, <1>13 DEF IInv

(***************************************************************************)
(* A restart forgets nonces, consumed authorizations and calls.  The life  *)
(* that ends keeps the bound of PresentLife; in the one that begins every  *)
(* attempt may be admitted once more.                                      *)
(***************************************************************************)
LEMMA RestartKeeps == IInv /\ Restart => IInv'
<1> SUFFICES ASSUME IInv, Restart PROVE IInv' OBVIOUS
<1>0. /\ TypeOK /\ DatedInv /\ GuardInv /\ PaymentInv /\ FailedInv /\ OnceInv
      /\ CountInv /\ PastInv /\ AdmissionInv /\ PrivateInv
  BY DEF IInv
<1>u. /\ UNCHANGED <<adapter, bound, now, released, given, answers>>
      /\ life < MaxRestarts /\ life' = life + 1 /\ nonces' = {} /\ consumed' = {}
  BY DEF Restart
<1>l. life \in Nat /\ life \in 0..MaxRestarts /\ life' \in 0..MaxRestarts
  BY <1>0, <1>u, ExternalAssumption DEF TypeOK
<1>c. \A t \in Threads : /\ call'[t] = Idle /\ ~Busy(t)' /\ ~Passed(t)' /\ ~Paying(t)'
                         /\ ~At(t, "execute")'
  BY DEF Restart, Busy, Passed, Paying, At, Idle
<1>1. TypeOK' BY <1>0, <1>u, <1>l DEF TypeOK, Restart
<1>2. \A x \in Authorizations : Held(x)' => Held(x) BY <1>c, <1>u DEF Held
<1>3. DatedInv' BY <1>0, <1>2, <1>u DEF DatedInv, RequestExpires
<1>4. GuardInv' BY <1>0, <1>c, <1>u DEF GuardInv, ExpiresAt
<1>5. PaymentInv' BY <1>c DEF PaymentInv
<1>6. FailedInv' BY <1>0, <1>c, <1>u DEF FailedInv
<1>7. OnceInv'
  <2>1. \A i \in DOMAIN given : given[i].life \in Int /\ given[i].life <= life
    BY <1>0, GivenTyped, ExternalAssumption DEF OnceInv
  <2>2. \A i \in DOMAIN given : given[i].life <= life' /\ given[i].life # life'
    BY <2>1, <1>l, <1>u
  <2> QED BY <1>0, <1>c, <1>u, <2>2 DEF OnceInv
<1>8. CountInv'
  <2> SUFFICES ASSUME NEW a \in Attempts
               PROVE  IsFiniteSet(Known(a)') /\ Cardinality(Known(a)') <= life'
    BY <1>u, <1>l DEF CountInv
  <2>1. Known(a)' \in SUBSET Known(a) BY <1>2 DEF Known
  <2>2. IsFiniteSet(Known(a)) BY <1>0 DEF CountInv
  <2>3. IsFiniteSet(Known(a)') /\ Cardinality(Known(a)') <= Cardinality(Known(a))
    BY <2>1, <2>2, FS_Subset
  <2>4. Cardinality(Known(a)) \in Nat /\ Cardinality(Known(a)') \in Nat
    BY <2>2, <2>3, FS_CardinalityType
  <2>5. Cardinality(Known(a)) <= life + (IF a \in nonces THEN 1 ELSE 0)
    BY <1>0 DEF CountInv
  <2>6. Cardinality(Known(a)) <= life + 1 BY <2>4, <2>5, <1>l
  <2> QED BY <1>l, <1>u, <2>3, <2>4, <2>6
<1>9. PastInv'
  <2> SUFFICES ASSUME NEW a \in Attempts, NEW m \in 0..life', m < life'
               PROVE  Cardinality(Sent(a, m)') <= m + 1
    BY DEF PastInv
  <2>1. Sent(a, m)' = Sent(a, m) BY <1>u DEF Sent
  <2>2. CASE m = life BY <2>1, <2>2, PresentLife
  <2>3. CASE m # life
    <3>1. m \in 0..life /\ m < life BY <2>3, <1>l, <1>u
    <3> QED BY <1>0, <2>1, <3>1 DEF PastInv
  <2> QED BY <2>2, <2>3
<1>10. AdmissionInv'
  <2>1. \A x \in Authorizations : Held(x)' => x.admitted <= life' /\ x.admitted # life'
    <3>1. \A x \in Authorizations : Held(x)' => x.admitted <= life
      BY <1>0, <1>2 DEF AdmissionInv
    <3>2. \A x \in Authorizations : x.admitted \in Int
      BY AuthorizationTyped, ExternalAssumption
    <3> QED BY <3>1, <3>2, <1>l, <1>u
  <2> QED BY <1>0, <1>2, <2>1 DEF AdmissionInv
<1>11. PrivateInv' BY <1>c DEF PrivateInv
<1> QED BY <1>1, <1>3, <1>4, <1>5, <1>6, <1>7, <1>8, <1>9, <1>10, <1>11 DEF IInv

-----------------------------------------------------------------------------
LEMMA ContinueKeeps ==
  ASSUME IInv, NEW t \in Threads, Continue(t)
  PROVE  IInv'
<1>0. TypeOK /\ PaymentInv BY DEF IInv
<1>1. CASE PassGuard(t) BY <1>1, PassGuardKeeps
<1>2. CASE Consume(t) BY <1>2, ConsumeKeeps
<1>3. CASE Send(t) BY <1>3, SendKeeps
<1>4. CASE FacilitatorConfirms(t) BY <1>4, FacilitatorKeeps
<1>5. CASE \/ RejectAuthorization(t) \/ RejectReplayed(t) \/ FailBeforeSending(t)
           \/ FailAfterSending(t) \/ FailToConfirm(t)
  <2>1. call[t].step \in Steps /\ Answer(t, "FAILED")
    BY <1>5
    DEF RejectAuthorization, RejectReplayed, FailBeforeSending, FailAfterSending,
        FailToConfirm, At, Steps
  <2>2. Busy(t) BY <1>0, <2>1, IdleSteps
  <2>3. UNCHANGED <<adapter, bound, now, life, nonces, consumed, given>>
    BY <1>5
    DEF RejectAuthorization, RejectReplayed, FailBeforeSending, FailAfterSending,
        FailToConfirm
  <2> QED BY <2>1, <2>2, <2>3, AnswerKeeps
<1>6. CASE CommandReturns(t) \/ Confirm(t)
  <2>1. Paying(t) /\ Answer(t, "SETTLED")
    BY <1>6 DEF CommandReturns, Confirm, At, Paying
  <2>2. Busy(t) BY <1>0, <2>1, IdleSteps
  <2>3. UNCHANGED <<adapter, bound, now, life, nonces, consumed, given>>
    BY <1>6 DEF CommandReturns, Confirm
  <2> QED BY <2>1, <2>2, <2>3, AnswerKeeps
<1> QED BY <1>1, <1>2, <1>3, <1>4, <1>5, <1>6 DEF Continue

LEMMA EnterKeeps ==
  ASSUME IInv, NEW t \in Threads, Enter(t)
  PROVE  IInv'
<1>0. TypeOK /\ now \in 0..MaxTime /\ life \in 0..MaxRestarts BY DEF IInv, TypeOK
<1>1. ASSUME NEW request \in Requests, Process(t, request) \/ Evaluate(t, request)
      PROVE  IInv'
  <2> DEFINE y == [request |-> request, issued |-> now, admitted |-> life]
  <2>1. /\ y \in Authorizations /\ y.request = request /\ y.issued = now
        /\ y.admitted = life
    BY <1>0 DEF Authorizations
  <2>2. \/ UNCHANGED released /\ ToAdapter(t, "process", y)
        \/ UNCHANGED call /\ released' = released \cup {y}
    BY <1>1 DEF Process, Evaluate
  <2>3. /\ At(t, "idle") /\ Fresh(request) /\ nonces' = nonces \cup {request.attempt}
        /\ UNCHANGED <<adapter, bound, now, life, consumed, given, answers>>
    BY <1>1 DEF Process, Evaluate
  <2> HIDE DEF y
  <2> QED BY <2>1, <2>2, <2>3, AdmitKeeps
<1>2. ASSUME NEW y \in released, Present(t, y) PROVE IInv'
  BY <1>2, PresentKeeps
<1> QED BY <1>1, <1>2 DEF Enter

LEMMA StutterKeeps == IInv /\ UNCHANGED vars => IInv'
<1> SUFFICES ASSUME IInv, UNCHANGED vars PROVE IInv' OBVIOUS
<1>1. UNCHANGED <<adapter, bound, now, life, nonces, consumed, released, call, given, answers>>
  BY DEF vars
<1>2. \A x : Held(x)' <=> Held(x) BY <1>1 DEF Held, Busy
<1>3. \A a : Known(a)' = Known(a) BY <1>2 DEF Known
<1>4. \A a, m : Sent(a, m)' = Sent(a, m) BY <1>1 DEF Sent
<1>5. TypeOK' BY <1>1 DEF IInv, TypeOK
<1>6. DatedInv' /\ GuardInv'
  BY <1>1, <1>2 DEF IInv, DatedInv, GuardInv, RequestExpires, Passed, ExpiresAt
<1>7. PaymentInv' /\ FailedInv' /\ OnceInv'
  BY <1>1 DEF IInv, PaymentInv, FailedInv, OnceInv, Busy, Paying, At
<1>8. CountInv' /\ PastInv' BY <1>1, <1>3, <1>4 DEF IInv, CountInv, PastInv
<1>9. AdmissionInv' /\ PrivateInv'
  BY <1>1, <1>2 DEF IInv, AdmissionInv, PrivateInv, Busy
<1> QED BY <1>5, <1>6, <1>7, <1>8, <1>9 DEF IInv

LEMMA NextKeeps == IInv /\ [Next]_vars => IInv'
<1> SUFFICES ASSUME IInv, Next PROVE IInv' BY StutterKeeps
<1>1. CASE Tick BY <1>1, TickKeeps
<1>2. CASE Restart BY <1>2, RestartKeeps
<1>4. CASE \E t \in Threads : Enter(t) \/ Continue(t)
  BY <1>4, EnterKeeps, ContinueKeeps
<1> QED BY <1>1, <1>2, <1>4 DEF Next

LEMMA Inductive == Spec => []IInv
BY InitIInv, NextKeeps, PTL DEF Spec

-----------------------------------------------------------------------------
(* Every reachable state has its type, across calls and restarts. *)
THEOREM ExternalTypeCorrect == Spec => []TypeOK
<1>1. IInv => TypeOK BY DEF IInv
<1> QED BY <1>1, Inductive, PTL

(***************************************************************************)
(* In the life after n restarts an attempt is sent to the service n + 1    *)
(* times at most, each time on another authorization; without a restart,   *)
(* once (memory-only stores of integrity.py and authorization.py).         *)
(***************************************************************************)
THEOREM RestartCost == Spec => []RestartExposure
<1>1. IInv => RestartExposure
  <2> SUFFICES ASSUME IInv, NEW a \in Attempts, NEW m \in 0..life
               PROVE  /\ Cardinality(Sent(a, m)) <= m + 1
                      /\ \A i, j \in Sent(a, m) :
                           Identifier(given[i].authorization) =
                             Identifier(given[j].authorization) => i = j
    BY DEF RestartExposure
  <2>0. life \in Int BY ExternalAssumption DEF IInv, TypeOK
  <2>1. m = life => Cardinality(Sent(a, m)) <= m + 1 BY PresentLife
  <2>2. m < life => Cardinality(Sent(a, m)) <= m + 1 BY DEF IInv, PastInv
  <2>3. Cardinality(Sent(a, m)) <= m + 1 BY <2>0, <2>1, <2>2
  <2>4. \A i, j \in Sent(a, m) :
          Identifier(given[i].authorization) = Identifier(given[j].authorization) => i = j
    BY DEF Sent, IInv, OnceInv
  <2> QED BY <2>3, <2>4
<1> QED BY <1>1, Inductive, PTL

(***************************************************************************)
(* Whatever restarts, no payment is sent on a check made later than one    *)
(* authorization lifetime after the request expired.                       *)
(***************************************************************************)
THEOREM ExposureIsBounded == Spec => []ExposureEnds
<1>1. IInv => ExposureEnds
  <2> SUFFICES ASSUME IInv, NEW i \in DOMAIN given
               PROVE  given[i].guarded <
                        RequestExpires(given[i].authorization.request)
                          + AuthorizationLifetime
    BY DEF ExposureEnds
  <2> DEFINE x == given[i].authorization
  <2>1. x \in Authorizations /\ given[i].guarded \in Int
    BY GivenTyped, ExternalAssumption DEF IInv
  <2>2. x.issued < RequestExpires(x.request) BY <2>1 DEF IInv, DatedInv, Held
  <2>3. given[i].guarded < x.issued + AuthorizationLifetime
    BY DEF IInv, GuardInv, ExpiresAt
  <2>4. x.issued \in Int /\ RequestExpires(x.request) \in Int
    BY <2>1, AuthorizationTyped, ExternalAssumption
  <2> QED BY <2>1, <2>2, <2>3, <2>4, ExternalAssumption
<1> QED BY <1>1, Inductive, PTL

(***************************************************************************)
(* After a call of process that failed with its payment given, no payment  *)
(* is made on the same admission of the attempt, in any life.              *)
(***************************************************************************)
THEOREM NoSecondTry == Spec => []FailureIsFinal
<1>1. IInv => FailureIsFinal
  <2> SUFFICES ASSUME IInv, NEW a \in answers, Failed(a),
                      NEW i \in DOMAIN given, i # a.payment,
                      given[i].authorization.request.attempt =
                        given[a.payment].authorization.request.attempt,
                      given[i].authorization.admitted =
                        given[a.payment].authorization.admitted
               PROVE  FALSE
    BY DEF FailureIsFinal, Failed
  <2>1. a.payment \in DOMAIN given
        /\ given[i].authorization # given[a.payment].authorization
    BY DEF IInv, FailedInv
  <2>2. /\ given[i].authorization \in Authorizations /\ Held(given[i].authorization)
        /\ given[a.payment].authorization \in Authorizations
        /\ Held(given[a.payment].authorization)
    BY <2>1, GivenTyped DEF IInv, Held
  <2> QED BY <2>1, <2>2 DEF IInv, AdmissionInv
<1> QED BY <1>1, Inductive, PTL
=============================================================================
