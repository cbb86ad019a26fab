----------------------------- MODULE AuditProofs -----------------------------
(***************************************************************************)
(* Proofs about Audit for every set of threads and subscriptions and every *)
(* retention: the exported window is a stretch of one chain, tampering     *)
(* with it is detected, and callbacks that threads make outside the lock   *)
(* neither repeat nor lose a receipt.                                      *)
(***************************************************************************)
EXTENDS Audit, SequenceTheorems, TLAPS

-----------------------------------------------------------------------------
IsSequence(s) == s \in Seq({s[i] : i \in DOMAIN s})

SequenceInv ==
  /\ IsSequence(events) /\ IsSequence(subscribers)
  /\ outbox = [t \in Threads |-> outbox[t]]
  /\ \A t \in Threads : IsSequence(outbox[t])
  /\ received = [s \in Subscriptions |-> received[s]]
  /\ \A s \in Subscriptions : IsSequence(received[s])
  /\ owed \in [Subscriptions -> Nat]
  /\ sequence \in Nat

Sealed(receipt) ==
  /\ receipt = Receipt(receipt.payload, receipt.previous)
  /\ receipt.payload \in [sequence : Nat, outcome : Outcomes]

(* the window: the latest receipts, numbered without a gap and linked *)
WindowInv ==
  /\ Len(events) = IF sequence < MaxEvents THEN sequence ELSE MaxEvents
  /\ \A i \in DOMAIN events :
       /\ Sealed(events[i])
       /\ Number(events[i]) + Len(events) = sequence + i
       /\ i > 1 => events[i].previous = events[i - 1].digest
  /\ events # <<>> => events[Len(events)].digest = lastDigest

(* who is registered, and what callbacks are about *)
CallInv ==
  /\ \A i \in DOMAIN subscribers :
       /\ subscribers[i] \in Subscriptions
       /\ owed[subscribers[i]] > 0
       /\ \A j \in DOMAIN subscribers : subscribers[i] = subscribers[j] => i = j
  /\ \A t \in Threads : \A i \in DOMAIN outbox[t] :
       /\ outbox[t][i].to \in Subscriptions
       /\ owed[outbox[t][i].to] > 0
       /\ Number(outbox[t][i].receipt) \in 1..sequence
  /\ \A s \in Subscriptions : \A i \in DOMAIN received[s] :
       /\ owed[s] > 0
       /\ Number(received[s][i]) \in 1..sequence

(* a number is received or about to be, once for each subscription *)
OnceInv ==
  /\ \A s \in Subscriptions : \A i, j \in DOMAIN received[s] :
       Number(received[s][i]) = Number(received[s][j]) => i = j
  /\ \A t \in Threads : \A i \in DOMAIN outbox[t] :
       \A k \in DOMAIN received[outbox[t][i].to] :
         Number(received[outbox[t][i].to][k]) # Number(outbox[t][i].receipt)
  /\ \A t, u \in Threads : \A i \in DOMAIN outbox[t], j \in DOMAIN outbox[u] :
       /\ outbox[t][i].to = outbox[u][j].to
       /\ Number(outbox[t][i].receipt) = Number(outbox[u][j].receipt)
       => t = u /\ i = j

(* what a registered subscription is owed it has, or a thread has to call *)
OwedInv ==
  \A s \in SubscribersAsSet : \A n \in owed[s]..sequence :
    \/ \E i \in DOMAIN received[s] : Number(received[s][i]) = n
    \/ \E t \in Threads : \E i \in DOMAIN outbox[t] :
         outbox[t][i].to = s /\ Number(outbox[t][i].receipt) = n

IInv == SequenceInv /\ WindowInv /\ CallInv /\ OnceInv /\ OwedInv

-----------------------------------------------------------------------------
(* Sequences, whatever they hold. *)
LEMMA SequenceShape ==
  ASSUME NEW s, IsSequence(s)
  PROVE  Len(s) \in Nat /\ DOMAIN s = 1..Len(s)
BY LenProperties DEF IsSequence

LEMMA InSomeSeq ==
  ASSUME NEW S, NEW s \in Seq(S)
  PROVE  IsSequence(s)
<1> DEFINE T == {s[i] : i \in DOMAIN s}
<1>1. Len(s) \in Nat /\ s \in [1..Len(s) -> S] /\ DOMAIN s = 1..Len(s)
  BY LenProperties
<1>2. s \in [1..Len(s) -> T] BY <1>1
<1>3. s \in Seq(T) BY <1>1, <1>2, SeqDef
<1> QED BY <1>3 DEF IsSequence

LEMMA Appended ==
  ASSUME NEW s, NEW x, IsSequence(s)
  PROVE  /\ IsSequence(Append(s, x))
         /\ Len(Append(s, x)) = Len(s) + 1
         /\ DOMAIN Append(s, x) = 1..(Len(s) + 1)
         /\ \A i \in DOMAIN s : Append(s, x)[i] = s[i]
         /\ Append(s, x)[Len(s) + 1] = x
         /\ Append(s, x) # <<>>
<1> DEFINE S == {s[i] : i \in DOMAIN s}
           T == S \cup {x}
<1>1. Len(s) \in Nat /\ DOMAIN s = 1..Len(s) /\ s \in [1..Len(s) -> S]
  BY LenProperties DEF IsSequence
<1>2. s \in Seq(T)
  <2>1. s \in [1..Len(s) -> T] BY <1>1
  <2> QED BY <1>1, <2>1, SeqDef
<1>3. x \in T OBVIOUS
<1> HIDE DEF S, T
<1>4. /\ Append(s, x) \in Seq(T) /\ Append(s, x) # <<>>
      /\ Len(Append(s, x)) = Len(s) + 1
      /\ \A i \in 1..Len(s) : Append(s, x)[i] = s[i]
      /\ Append(s, x)[Len(s) + 1] = x
  BY <1>2, <1>3, AppendProperties
<1>5. IsSequence(Append(s, x)) BY <1>4, InSomeSeq
<1>6. DOMAIN Append(s, x) = 1..(Len(s) + 1) BY <1>4, LenProperties
<1> QED BY <1>1, <1>4, <1>5, <1>6

LEMMA Tailed ==
  ASSUME NEW s, IsSequence(s), s # <<>>
  PROVE  /\ IsSequence(Tail(s))
         /\ Len(Tail(s)) = Len(s) - 1
         /\ DOMAIN Tail(s) = 1..(Len(s) - 1)
         /\ \A i \in DOMAIN Tail(s) : Tail(s)[i] = s[i + 1] /\ i + 1 \in DOMAIN s
         /\ 1 \in DOMAIN s /\ Head(s) = s[1] /\ Len(s) >= 1
<1> DEFINE S == {s[i] : i \in DOMAIN s}
<1>1. s \in Seq(S) BY DEF IsSequence
<1> HIDE DEF S
<1>2. Len(s) \in Nat /\ DOMAIN s = 1..Len(s) /\ Len(s) # 0
  BY <1>1, LenProperties, EmptySeq
<1>3. /\ Tail(s) \in Seq(S) /\ Len(Tail(s)) = Len(s) - 1
      /\ \A i \in 1..Len(Tail(s)) : Tail(s)[i] = s[i + 1]
  BY <1>1, HeadTailProperties
<1>4. DOMAIN Tail(s) = 1..(Len(s) - 1) BY <1>3, LenProperties
<1>5. Head(s) = s[1] BY <1>1, <1>2
<1>6. IsSequence(Tail(s)) BY <1>3, InSomeSeq
<1> QED BY <1>2, <1>3, <1>4, <1>5, <1>6

LEMMA Tabulated ==
  ASSUME NEW n \in Nat, NEW f, f = [i \in 1..n |-> f[i]]
  PROVE  IsSequence(f) /\ Len(f) = n /\ DOMAIN f = 1..n
<1> DEFINE S == {f[i] : i \in 1..n}
<1>1. f \in [1..n -> S] OBVIOUS
<1>2. f \in Seq(S) BY <1>1, SeqDef
<1>3. DOMAIN f = 1..n BY <1>1
<1>4. Len(f) = n BY <1>2, <1>3, LenProperties
<1> QED BY <1>2, <1>3, <1>4, InSomeSeq

LEMMA WithoutShape ==
  ASSUME NEW s, IsSequence(s), NEW i \in DOMAIN s
  PROVE  /\ IsSequence(Without(s, i))
         /\ Len(Without(s, i)) = Len(s) - 1
         /\ DOMAIN Without(s, i) = 1..(Len(s) - 1)
         /\ \A k \in DOMAIN Without(s, i) :
              /\ k < i => k \in DOMAIN s /\ Without(s, i)[k] = s[k]
              /\ k >= i => k + 1 \in DOMAIN s /\ Without(s, i)[k] = s[k + 1]
<1> DEFINE S == {s[k] : k \in DOMAIN s}
           a == SubSeq(s, 1, i - 1)
           b == SubSeq(s, i + 1, Len(s))
<1>1. Len(s) \in Nat /\ DOMAIN s = 1..Len(s) /\ i \in 1..Len(s) /\ \A k \in DOMAIN s : s[k] \in S
  BY SequenceShape
<1> HIDE DEF S
<1>2. /\ a \in Seq(S) /\ Len(a) = i - 1
      /\ \A k \in 1..(i - 1) : a[k] = s[k]
  <2>1. \A k \in 1..(i - 1) : s[k] \in S BY <1>1
  <2>2. 1 \in Int /\ i - 1 \in Int BY <1>1
  <2>3. /\ a \in Seq(S) /\ Len(a) = IF 1 <= i - 1 THEN i - 1 - 1 + 1 ELSE 0
        /\ \A k \in 1..(i - 1 - 1 + 1) : a[k] = s[1 + k - 1]
    BY <2>1, <2>2, SubSeqProperties
  <2>4. Len(a) = i - 1 BY <2>3, <1>1
  <2>5. \A k \in 1..(i - 1) : a[k] = s[k]
    <3> SUFFICES ASSUME NEW k \in 1..(i - 1) PROVE a[k] = s[k] OBVIOUS
    <3>1. k \in 1..(i - 1 - 1 + 1) /\ 1 + k - 1 = k BY <1>1
    <3> QED BY <2>3, <3>1
  <2> QED BY <2>3, <2>4, <2>5
<1>3. /\ b \in Seq(S) /\ Len(b) = Len(s) - i
      /\ \A k \in 1..(Len(s) - i) : b[k] = s[i + k]
  <2>1. \A k \in (i + 1)..Len(s) : s[k] \in S BY <1>1
  <2>2. i + 1 \in Int /\ Len(s) \in Int BY <1>1
  <2>3. /\ b \in Seq(S) /\ Len(b) = IF i + 1 <= Len(s) THEN Len(s) - (i + 1) + 1 ELSE 0
        /\ \A k \in 1..(Len(s) - (i + 1) + 1) : b[k] = s[(i + 1) + k - 1]
    BY <2>1, <2>2, SubSeqProperties, SMTT(30)
  <2>4. Len(b) = Len(s) - i BY <2>3, <1>1
  <2>5. \A k \in 1..(Len(s) - i) : b[k] = s[i + k]
    <3> SUFFICES ASSUME NEW k \in 1..(Len(s) - i) PROVE b[k] = s[i + k] OBVIOUS
    <3>1. k \in 1..(Len(s) - (i + 1) + 1) /\ (i + 1) + k - 1 = i + k BY <1>1
    <3> QED BY <2>3, <3>1
  <2> QED BY <2>3, <2>4, <2>5
<1>w. Without(s, i) = a \o b BY DEF Without
<1> HIDE DEF a, b
<1>4. /\ a \o b \in Seq(S) /\ Len(a \o b) = Len(a) + Len(b)
      /\ \A k \in 1..(Len(a) + Len(b)) :
           (a \o b)[k] = IF k <= Len(a) THEN a[k] ELSE b[k - Len(a)]
  BY <1>2, <1>3, ConcatProperties
<1>5. Len(a) + Len(b) = Len(s) - 1 BY <1>1, <1>2, <1>3
<1>6. DOMAIN (a \o b) = 1..(Len(s) - 1) BY <1>4, <1>5, LenProperties
<1>7. IsSequence(a \o b) BY <1>4, InSomeSeq
<1>8. ASSUME NEW k \in 1..(Len(s) - 1)
      PROVE  /\ k < i => k \in DOMAIN s /\ (a \o b)[k] = s[k]
             /\ k >= i => k + 1 \in DOMAIN s /\ (a \o b)[k] = s[k + 1]
  <2>1. k < i => k <= Len(a) /\ k \in 1..(i - 1) BY <1>1, <1>2
  <2>2. k >= i => ~(k <= Len(a)) /\ k - Len(a) = k - i + 1
                  /\ k - i + 1 \in 1..(Len(s) - i) /\ i + (k - i + 1) = k + 1
    BY <1>1, <1>2
  <2>3. (a \o b)[k] = IF k <= Len(a) THEN a[k] ELSE b[k - Len(a)] BY <1>4, <1>5
  <2>4. k < i => (a \o b)[k] = s[k] BY <2>1, <2>3, <1>2
  <2>5. k >= i => (a \o b)[k] = s[k + 1] BY <2>2, <2>3, <1>3
  <2>6. k \in DOMAIN s /\ k + 1 \in DOMAIN s BY <1>1
  <2> QED BY <2>4, <2>5, <2>6
<1> QED BY <1>4, <1>5, <1>6, <1>7, <1>8, <1>w

-----------------------------------------------------------------------------
LEMMA Pieces ==
  ASSUME IInv
  PROVE  SequenceInv /\ WindowInv /\ CallInv /\ OnceInv /\ OwedInv
BY DEF IInv

LEMMA InitIInv == Init => IInv
<1> SUFFICES ASSUME Init PROVE IInv OBVIOUS
<1>0. IsSequence(<<>>) /\ DOMAIN <<>> = {} /\ Len(<<>>) = 0
  <2>1. <<>> \in Seq({}) OBVIOUS
  <2>2. IsSequence(<<>>) BY <2>1, InSomeSeq
  <2> QED BY <2>2
<1>1. \A t \in Threads : outbox[t] = <<>> BY DEF Init
<1>2. \A s \in Subscriptions : received[s] = <<>> /\ owed[s] = 0 BY DEF Init
<1>3. SequenceInv BY <1>0, <1>1, <1>2 DEF Init, SequenceInv
<1>4. WindowInv BY <1>0, AuditAssumption DEF Init, WindowInv
<1>5. CallInv /\ OnceInv BY <1>0, <1>1, <1>2 DEF Init, CallInv, OnceInv
<1>6. OwedInv BY <1>0 DEF Init, OwedInv, SubscribersAsSet
<1> QED BY <1>3, <1>4, <1>5, <1>6 DEF IInv

(***************************************************************************)
(* The window after one more receipt: still the latest, without a gap.     *)
(***************************************************************************)
LEMMA WindowGrows ==
  ASSUME SequenceInv, WindowInv, NEW receipt, Sealed(receipt),
         Number(receipt) = sequence + 1, receipt.previous = lastDigest,
         sequence' = sequence + 1, lastDigest' = receipt.digest,
         events' = Retain(receipt)
  PROVE  IsSequence(events') /\ WindowInv'
<1> DEFINE all == Append(events, receipt)
           n == Len(events)
<1>0. n \in Nat /\ DOMAIN events = 1..n /\ sequence \in Nat /\ MaxEvents \in Nat \ {0}
  BY SequenceShape, AuditAssumption DEF SequenceInv
<1>1. /\ IsSequence(all) /\ Len(all) = n + 1 /\ DOMAIN all = 1..(n + 1) /\ all # <<>>
      /\ \A i \in DOMAIN events : all[i] = events[i]
      /\ all[n + 1] = receipt
  <2>1. IsSequence(events) BY DEF SequenceInv
  <2>2. /\ IsSequence(Append(events, receipt))
        /\ Len(Append(events, receipt)) = Len(events) + 1
        /\ DOMAIN Append(events, receipt) = 1..(Len(events) + 1)
        /\ \A i \in DOMAIN events : Append(events, receipt)[i] = events[i]
        /\ Append(events, receipt)[Len(events) + 1] = receipt
        /\ Append(events, receipt) # <<>>
    BY <2>1, Appended, Zenon
  <2> QED BY <2>2
<1>2. \A i \in DOMAIN all :
        /\ Sealed(all[i])
        /\ Number(all[i]) + n = sequence + i
        /\ i > 1 => all[i].previous = all[i - 1].digest
  <2> SUFFICES ASSUME NEW i \in DOMAIN all
               PROVE  /\ Sealed(all[i])
                      /\ Number(all[i]) + n = sequence + i
                      /\ i > 1 => all[i].previous = all[i - 1].digest
    OBVIOUS
  <2>1. CASE i \in DOMAIN events
    <3>1. i > 1 => i - 1 \in DOMAIN events BY <1>0, <2>1
    <3> QED BY <1>1, <2>1, <3>1 DEF WindowInv
  <2>2. CASE i = n + 1
    <3>1. Number(all[i]) + n = sequence + i BY <1>0, <1>1, <2>2
    <3>2. i > 1 => i - 1 = n /\ n \in DOMAIN events /\ events # <<>> BY <1>0, <2>2
    <3>3. i > 1 => all[i].previous = all[i - 1].digest
      BY <1>1, <2>2, <3>2 DEF WindowInv
    <3> QED BY <1>1, <2>2, <3>1, <3>3
  <2> QED BY <1>0, <1>1, <2>1, <2>2
<1> HIDE DEF all, n
<1>3. CASE n + 1 > MaxEvents
  <2>1. events' = Tail(all) BY <1>1, <1>3 DEF Retain, all
  <2>2. /\ IsSequence(events') /\ Len(events') = n /\ DOMAIN events' = 1..n
        /\ \A i \in DOMAIN events' : events'[i] = all[i + 1] /\ i + 1 \in DOMAIN all
    BY <1>0, <1>1, <2>1, Tailed
  <2>3. n = MaxEvents /\ sequence >= MaxEvents BY <1>0, <1>3 DEF WindowInv, n
  <2>4. Len(events') = IF sequence' < MaxEvents THEN sequence' ELSE MaxEvents
    BY <1>0, <2>2, <2>3
  <2>5. ASSUME NEW i \in DOMAIN events'
        PROVE  /\ Sealed(events'[i])
               /\ Number(events'[i]) + n = sequence' + i
               /\ i > 1 => events'[i].previous = events'[i - 1].digest
    <3>1. Number(all[i + 1]) + n = sequence + (i + 1) BY <1>2, <2>2
    <3>2. i \in Nat BY <1>0, <2>2
    <3>3. i > 1 => i - 1 \in DOMAIN events' /\ (i - 1) + 1 = i /\ (i + 1) - 1 = i
      BY <1>0, <2>2
    <3>4. i > 1 => events'[i].previous = events'[i - 1].digest
      BY <1>2, <2>2, <3>2, <3>3
    <3>5. sequence + (i + 1) = sequence' + i BY <1>0, <3>2
    <3> QED BY <1>2, <2>2, <3>1, <3>4, <3>5
  <2>6. events'[Len(events')].digest = lastDigest'
    <3>1. n \in DOMAIN events' BY <1>0, <2>2, <2>3
    <3> QED BY <1>1, <2>2, <3>1
  <2> QED BY <2>2, <2>4, <2>5, <2>6 DEF WindowInv
<1>4. CASE ~(n + 1 > MaxEvents)
  <2>1. events' = all BY <1>1, <1>4 DEF Retain, all
  <2>2. n = sequence BY <1>0, <1>4 DEF WindowInv, n
  <2>3. Len(events') = IF sequence' < MaxEvents THEN sequence' ELSE MaxEvents
    BY <1>0, <1>1, <1>4, <2>1, <2>2
  <2>4. ASSUME NEW i \in DOMAIN events'
        PROVE  /\ Sealed(events'[i])
               /\ Number(events'[i]) + Len(events') = sequence' + i
               /\ i > 1 => events'[i].previous = events'[i - 1].digest
    <3>1. Number(all[i]) + n = sequence + i BY <1>2, <2>1
    <3>2. i \in Nat BY <1>0, <1>1, <2>1
    <3>3. Number(all[i]) \in Nat BY <1>2, <2>1 DEF Sealed, Number
    <3>4. Number(all[i]) + (n + 1) = sequence' + i BY <1>0, <3>1, <3>2, <3>3
    <3> QED BY <1>1, <1>2, <2>1, <3>4
  <2>5. events'[Len(events')].digest = lastDigest' BY <1>1, <2>1
  <2> QED BY <1>1, <2>1, <2>3, <2>4, <2>5 DEF WindowInv
<1> QED BY <1>3, <1>4

(***************************************************************************)
(* A receipt is published: its number is new to everybody, and the thread  *)
(* owes it once to each subscription that is registered.                   *)
(***************************************************************************)
LEMMA PublishKeeps ==
  ASSUME IInv, NEW t \in Threads, NEW outcome \in Outcomes, Publish(t, outcome)
  PROVE  IInv'
<1> USE Pieces
<1> DEFINE payload == [sequence |-> sequence + 1, outcome |-> outcome]
           receipt == Receipt(payload, lastDigest)
           m == Len(subscribers)
           box == [i \in DOMAIN subscribers |->
                     [to |-> subscribers[i], receipt |-> receipt, replay |-> FALSE]]
<1>u. UNCHANGED <<subscribers, received, owed>> BY DEF Publish
<1>0. /\ sequence \in Nat /\ outbox[t] = <<>> /\ sequence' = sequence + 1
      /\ m \in Nat /\ DOMAIN subscribers = 1..m /\ DOMAIN outbox[t] = {}
  BY SequenceShape DEF Publish, Idle, SequenceInv
<1>1. /\ Sealed(receipt) /\ Number(receipt) = sequence + 1
      /\ receipt.previous = lastDigest
  BY <1>0 DEF Sealed, Receipt, Number
<1>2. /\ lastDigest' = receipt.digest /\ events' = Retain(receipt)
      /\ outbox' = [outbox EXCEPT ![t] = box]
  BY DEF Publish
<1> HIDE DEF receipt
<1>3. IsSequence(events') /\ WindowInv' BY <1>0, <1>1, <1>2, WindowGrows
<1>4. /\ IsSequence(box) /\ DOMAIN box = 1..m
      /\ \A i \in 1..m : box[i].to = subscribers[i] /\ box[i].receipt = receipt
  BY <1>0, Tabulated
<1> HIDE DEF box
<1>5. /\ outbox' = [u \in Threads |-> outbox'[u]] /\ outbox'[t] = box
      /\ \A u \in Threads : u # t => outbox'[u] = outbox[u]
  BY <1>2 DEF SequenceInv
<1>6. SequenceInv' BY <1>0, <1>u, <1>3, <1>4, <1>5 DEF SequenceInv
<1>7. CallInv'
  <2>1. \A n : n \in 1..sequence => n \in 1..sequence' BY <1>0
  <2>2. sequence + 1 \in 1..sequence' BY <1>0
  <2>3. ASSUME NEW u \in Threads, NEW i \in DOMAIN outbox'[u]
        PROVE  /\ outbox'[u][i].to \in Subscriptions
               /\ owed[outbox'[u][i].to] > 0
               /\ Number(outbox'[u][i].receipt) \in 1..sequence'
    BY <1>0, <1>1, <1>4, <1>5, <2>1, <2>2 DEF CallInv
  <2> QED BY <1>u, <2>1, <2>3 DEF CallInv
<1>8. OnceInv'
  <2>1. \A u \in Threads : \A i \in DOMAIN outbox[u] :
          Number(outbox[u][i].receipt) # sequence + 1
    BY <1>0 DEF CallInv
  <2>2. \A s \in Subscriptions : \A i \in DOMAIN received[s] :
          Number(received[s][i]) # sequence + 1
    BY <1>0 DEF CallInv
  <2>3. \A u \in Threads : \A i \in DOMAIN outbox'[u] :
          \/ u # t /\ i \in DOMAIN outbox[u] /\ outbox'[u][i] = outbox[u][i]
          \/ u = t /\ i \in 1..m /\ outbox'[u][i].to = subscribers[i]
             /\ Number(outbox'[u][i].receipt) = sequence + 1
    BY <1>1, <1>4, <1>5
  <2>4. \A i \in 1..m : subscribers[i] \in Subscriptions BY <1>0 DEF CallInv
  <2>5. \A i, j \in 1..m : subscribers[i] = subscribers[j] => i = j
    BY <1>0 DEF CallInv
  <2>6. \A u \in Threads : \A i \in DOMAIN outbox'[u] :
          \A k \in DOMAIN received[outbox'[u][i].to] :
            Number(received[outbox'[u][i].to][k]) # Number(outbox'[u][i].receipt)
    <3> SUFFICES ASSUME NEW u \in Threads, NEW i \in DOMAIN outbox'[u],
                        NEW k \in DOMAIN received[outbox'[u][i].to]
                 PROVE  Number(received[outbox'[u][i].to][k]) # Number(outbox'[u][i].receipt)
      OBVIOUS
    <3>1. CASE i \in DOMAIN outbox[u] /\ outbox'[u][i] = outbox[u][i]
      BY <3>1 DEF OnceInv
    <3>2. CASE /\ outbox'[u][i].to \in Subscriptions
               /\ Number(outbox'[u][i].receipt) = sequence + 1
      BY <2>2, <3>2
    <3> QED BY <2>3, <2>4, <3>1, <3>2
  <2>7. \A u, v \in Threads : \A i \in DOMAIN outbox'[u], j \in DOMAIN outbox'[v] :
          /\ outbox'[u][i].to = outbox'[v][j].to
          /\ Number(outbox'[u][i].receipt) = Number(outbox'[v][j].receipt)
          => u = v /\ i = j
    BY <2>1, <2>3, <2>5 DEF OnceInv
  <2> QED BY <1>u, <2>6, <2>7 DEF OnceInv
<1>9. OwedInv'
  <2> SUFFICES ASSUME NEW s \in SubscribersAsSet, NEW n \in owed[s]..sequence'
               PROVE  \/ \E i \in DOMAIN received[s] : Number(received[s][i]) = n
                      \/ \E u \in Threads : \E i \in DOMAIN outbox'[u] :
                           outbox'[u][i].to = s /\ Number(outbox'[u][i].receipt) = n
    BY <1>u DEF OwedInv, SubscribersAsSet
  <2>1. CASE n = sequence + 1
    <3>1. PICK i \in 1..m : subscribers[i] = s BY <1>0 DEF SubscribersAsSet
    <3> QED BY <1>1, <1>4, <1>5, <2>1, <3>1
  <2>2. CASE n # sequence + 1
    <3>0. s \in Subscriptions /\ owed[s] \in Nat
      BY DEF SubscribersAsSet, CallInv, SequenceInv
    <3>1. n \in owed[s]..sequence BY <1>0, <2>2, <3>0
    <3>2. CASE \E i \in DOMAIN received[s] : Number(received[s][i]) = n BY <3>2
    <3>3. CASE \E u \in Threads : \E i \in DOMAIN outbox[u] :
                 outbox[u][i].to = s /\ Number(outbox[u][i].receipt) = n
      <4>1. PICK u \in Threads : \E i \in DOMAIN outbox[u] :
              outbox[u][i].to = s /\ Number(outbox[u][i].receipt) = n
        BY <3>3
      <4>2. u # t BY <1>0, <4>1
      <4> QED BY <1>5, <4>1, <4>2
    <3> QED BY <3>1, <3>2, <3>3 DEF OwedInv
  <2> QED BY <2>1, <2>2
<1> QED BY <1>3, <1>6, <1>7, <1>8, <1>9 DEF IInv

(***************************************************************************)
(* A subscription registers under the lock that read the window: what it   *)
(* replays ends where its live receipts begin.                             *)
(***************************************************************************)
LEMMA SubscribeKeeps ==
  ASSUME IInv, NEW t \in Threads, NEW s \in Subscriptions, NEW replay \in BOOLEAN,
         Subscribe(t, s, replay)
  PROVE  IInv'
<1> USE Pieces
<1> DEFINE existing == IF replay THEN events ELSE <<>>
           k == Len(existing)
           m == Len(subscribers)
           box == [i \in DOMAIN existing |->
                     [to |-> s, receipt |-> existing[i], replay |-> TRUE]]
<1>u. UNCHANGED <<sequence, lastDigest, events, received>> BY DEF Subscribe
<1>0. /\ sequence \in Nat /\ outbox[t] = <<>> /\ owed[s] = 0
      /\ m \in Nat /\ DOMAIN subscribers = 1..m /\ DOMAIN outbox[t] = {}
      /\ Len(events) \in Nat /\ DOMAIN events = 1..Len(events)
      /\ IsSequence(subscribers) /\ owed \in [Subscriptions -> Nat]
  BY SequenceShape DEF Subscribe, Idle, SequenceInv
<1>1. /\ k \in Nat /\ k <= sequence /\ DOMAIN existing = 1..k
      /\ \A i \in 1..k : Number(existing[i]) \in Nat /\ Number(existing[i]) + k = sequence + i
  <2>1. CASE replay
    <3>1. Len(events) <= sequence
      <4>1. Len(events) = IF sequence < MaxEvents THEN sequence ELSE MaxEvents
        BY DEF WindowInv
      <4> QED BY <1>0, <4>1, AuditAssumption
    <3>2. \A i \in DOMAIN events : Number(events[i]) \in Nat
      BY DEF WindowInv, Sealed, Number
    <3> QED BY <1>0, <2>1, <3>1, <3>2 DEF WindowInv
  <2>2. CASE ~replay BY <1>0, <2>2
  <2> QED BY <2>1, <2>2
<1>2. /\ subscribers' = Append(subscribers, s)
      /\ owed' = [owed EXCEPT ![s] = sequence + 1 - k]
      /\ outbox' = [outbox EXCEPT ![t] = box]
  BY DEF Subscribe
<1> HIDE DEF existing, k
<1>3. /\ IsSequence(box) /\ DOMAIN box = 1..k
      /\ \A i \in 1..k : /\ box[i].to = s /\ Number(box[i].receipt) \in 1..sequence
                         /\ Number(box[i].receipt) + k = sequence + i
  <2>1. IsSequence(box) /\ DOMAIN box = 1..k BY <1>1, Tabulated
  <2>2. \A i \in 1..k : box[i].to = s /\ box[i].receipt = existing[i] BY <1>1
  <2>3. \A i \in 1..k : Number(existing[i]) \in 1..sequence BY <1>0, <1>1
  <2> HIDE DEF box
  <2> QED BY <1>1, <2>1, <2>2, <2>3
<1> HIDE DEF box
<1>4. /\ outbox' = [u \in Threads |-> outbox'[u]] /\ outbox'[t] = box
      /\ \A u \in Threads : u # t => outbox'[u] = outbox[u]
  BY <1>2 DEF SequenceInv
<1>5. /\ IsSequence(subscribers') /\ DOMAIN subscribers' = 1..(m + 1)
      /\ \A i \in 1..m : subscribers'[i] = subscribers[i]
      /\ subscribers'[m + 1] = s
  BY <1>0, <1>2, Appended
<1> HIDE DEF m
<1>6. /\ owed' \in [Subscriptions -> Nat] /\ owed'[s] = sequence + 1 - k /\ owed'[s] > 0
      /\ \A r \in Subscriptions : r # s => owed'[r] = owed[r]
      /\ \A r \in Subscriptions : owed[r] > 0 => owed'[r] > 0
  BY <1>0, <1>1, <1>2
<1>7. /\ DOMAIN received[s] = {}
      /\ \A i \in DOMAIN subscribers : subscribers[i] # s
      /\ \A u \in Threads : \A i \in DOMAIN outbox[u] : outbox[u][i].to # s
  <2>1. ~(owed[s] > 0) BY <1>0
  <2> QED BY <2>1 DEF CallInv
<1>8. \A u \in Threads : \A i \in DOMAIN outbox'[u] :
        \/ u # t /\ i \in DOMAIN outbox[u] /\ outbox'[u][i] = outbox[u][i]
        \/ /\ u = t /\ i \in 1..k /\ outbox'[u][i].to = s
           /\ Number(outbox'[u][i].receipt) \in 1..sequence
           /\ Number(outbox'[u][i].receipt) + k = sequence + i
  BY <1>3, <1>4
<1>9. SequenceInv' BY <1>u, <1>3, <1>4, <1>5, <1>6 DEF SequenceInv
<1>10. WindowInv' BY <1>u DEF WindowInv
<1>11. CallInv'
  <2>1. ASSUME NEW i \in DOMAIN subscribers'
        PROVE  /\ subscribers'[i] \in Subscriptions
               /\ owed'[subscribers'[i]] > 0
               /\ \A j \in DOMAIN subscribers' : subscribers'[i] = subscribers'[j] => i = j
    <3>1. \A j \in DOMAIN subscribers' :
            \/ j \in DOMAIN subscribers /\ subscribers'[j] = subscribers[j]
            \/ j = m + 1 /\ subscribers'[j] = s
      BY <1>0, <1>5
    <3> QED BY <1>6, <1>7, <3>1 DEF CallInv
  <2>2. ASSUME NEW u \in Threads, NEW i \in DOMAIN outbox'[u]
        PROVE  /\ outbox'[u][i].to \in Subscriptions
               /\ owed'[outbox'[u][i].to] > 0
               /\ Number(outbox'[u][i].receipt) \in 1..sequence
    BY <1>6, <1>8 DEF CallInv
  <2>3. ASSUME NEW r \in Subscriptions, NEW i \in DOMAIN received[r]
        PROVE  owed'[r] > 0 /\ Number(received[r][i]) \in 1..sequence
    BY <1>6 DEF CallInv
  <2> QED BY <1>u, <2>1, <2>2, <2>3 DEF CallInv
<1>12. OnceInv'
  <2>1. \A u \in Threads : \A i \in DOMAIN outbox'[u] :
          \A n \in DOMAIN received[outbox'[u][i].to] :
            Number(received[outbox'[u][i].to][n]) # Number(outbox'[u][i].receipt)
    <3> SUFFICES ASSUME NEW u \in Threads, NEW i \in DOMAIN outbox'[u],
                        NEW n \in DOMAIN received[outbox'[u][i].to]
                 PROVE  Number(received[outbox'[u][i].to][n]) # Number(outbox'[u][i].receipt)
      OBVIOUS
    <3>1. CASE i \in DOMAIN outbox[u] /\ outbox'[u][i] = outbox[u][i]
      BY <3>1 DEF OnceInv
    <3>2. CASE outbox'[u][i].to = s BY <1>7, <3>2
    <3> QED BY <1>8, <3>1, <3>2
  <2>2. ASSUME NEW u \in Threads, NEW v \in Threads,
               NEW i \in DOMAIN outbox'[u], NEW j \in DOMAIN outbox'[v],
               outbox'[u][i].to = outbox'[v][j].to,
               Number(outbox'[u][i].receipt) = Number(outbox'[v][j].receipt)
        PROVE  u = v /\ i = j
    <3>1. CASE outbox'[u][i].to = s
      <4>1. u = t /\ v = t /\ i \in 1..k /\ j \in 1..k
        <5>1. \A w \in Threads : \A n \in DOMAIN outbox'[w] :
                outbox'[w][n].to = s => w = t /\ n \in 1..k
          BY <1>7, <1>8
        <5> QED BY <2>2, <3>1, <5>1
      <4>2. sequence + i = sequence + j BY <1>8, <2>2, <4>1
      <4> QED BY <1>0, <1>1, <4>1, <4>2
    <3>2. CASE outbox'[u][i].to # s BY <1>8, <2>2, <3>2 DEF OnceInv
    <3> QED BY <3>1, <3>2
  <2>3. \A r \in Subscriptions : \A i, j \in DOMAIN received'[r] :
          Number(received'[r][i]) = Number(received'[r][j]) => i = j
    BY <1>u DEF OnceInv
  <2>4. \A u \in Threads : \A i \in DOMAIN outbox'[u] :
          \A n \in DOMAIN received'[outbox'[u][i].to] :
            Number(received'[outbox'[u][i].to][n]) # Number(outbox'[u][i].receipt)
    BY <1>u, <2>1
  <2>5. \A u, v \in Threads : \A i \in DOMAIN outbox'[u], j \in DOMAIN outbox'[v] :
          /\ outbox'[u][i].to = outbox'[v][j].to
          /\ Number(outbox'[u][i].receipt) = Number(outbox'[v][j].receipt)
          => u = v /\ i = j
    BY <2>2
  <2> QED BY <2>3, <2>4, <2>5 DEF OnceInv
<1>13. OwedInv'
  <2> SUFFICES ASSUME NEW r \in SubscribersAsSet', NEW n \in owed'[r]..sequence
               PROVE  \/ \E i \in DOMAIN received[r] : Number(received[r][i]) = n
                      \/ \E u \in Threads : \E i \in DOMAIN outbox'[u] :
                           outbox'[u][i].to = r /\ Number(outbox'[u][i].receipt) = n
    BY <1>u DEF OwedInv
  <2>1. CASE r = s
    <3> DEFINE i == n + k - sequence
    <3>1. i \in 1..k /\ sequence + i = n + k /\ n \in Nat BY <1>0, <1>1, <1>6, <2>1
    <3> HIDE DEF i
    <3>2. box[i].to = s /\ Number(box[i].receipt) + k = sequence + i
          /\ Number(box[i].receipt) \in Nat
      BY <1>3, <3>1
    <3>3. Number(box[i].receipt) = n BY <1>1, <3>1, <3>2
    <3> QED BY <1>3, <1>4, <2>1, <3>1, <3>2, <3>3
  <2>2. CASE r # s
    <3>1. r \in SubscribersAsSet /\ r \in Subscriptions
      BY <1>0, <1>5, <2>2 DEF SubscribersAsSet, CallInv
    <3>2. n \in owed[r]..sequence BY <1>6, <2>2, <3>1
    <3>3. CASE \E i \in DOMAIN received[r] : Number(received[r][i]) = n BY <3>3
    <3>4. CASE \E u \in Threads : \E i \in DOMAIN outbox[u] :
                 outbox[u][i].to = r /\ Number(outbox[u][i].receipt) = n
      <4>1. PICK u \in Threads : \E i \in DOMAIN outbox[u] :
              outbox[u][i].to = r /\ Number(outbox[u][i].receipt) = n
        BY <3>4
      <4>2. u # t BY <1>0, <4>1
      <4> QED BY <1>4, <4>1, <4>2
    <3> QED BY <3>1, <3>2, <3>3, <3>4 DEF OwedInv
  <2> QED BY <2>1, <2>2
<1> QED BY <1>9, <1>10, <1>11, <1>12, <1>13 DEF IInv

(***************************************************************************)
(* A callback: the receipt leaves the thread's calls and is received.      *)
(***************************************************************************)
LEMMA DeliverKeeps ==
  ASSUME IInv, NEW t \in Threads, Deliver(t)
  PROVE  IInv'
<1> USE Pieces
<1> DEFINE c == Head(outbox[t])
           s == c.to
           k == Len(received[s])
<1>u. UNCHANGED <<sequence, lastDigest, events, subscribers, owed>> BY DEF Deliver
<1>1. /\ IsSequence(Tail(outbox[t])) /\ 1 \in DOMAIN outbox[t] /\ c = outbox[t][1]
      /\ \A i \in DOMAIN Tail(outbox[t]) :
           /\ i \in Nat \ {0}
           /\ i + 1 \in DOMAIN outbox[t]
           /\ Tail(outbox[t])[i] = outbox[t][i + 1]
      /\ \A i \in DOMAIN outbox[t] : i = 1 \/ i - 1 \in DOMAIN Tail(outbox[t])
      /\ \A i \in DOMAIN outbox[t] : i \in Nat
  <2>1. IsSequence(outbox[t]) /\ outbox[t] # <<>> BY DEF Deliver, Idle, SequenceInv
  <2>2. Len(outbox[t]) \in Nat /\ DOMAIN outbox[t] = 1..Len(outbox[t])
    BY <2>1, SequenceShape
  <2> QED BY <2>1, <2>2, Tailed
<1>2. /\ received' = [received EXCEPT ![s] = Append(@, c.receipt)]
      /\ outbox' = [outbox EXCEPT ![t] = Tail(@)]
  BY DEF Deliver
<1> HIDE DEF c
<1>3. s \in Subscriptions /\ owed[s] > 0 /\ Number(c.receipt) \in 1..sequence
  BY <1>1 DEF CallInv
<1>4. /\ outbox' = [u \in Threads |-> outbox'[u]] /\ outbox'[t] = Tail(outbox[t])
      /\ \A u \in Threads : u # t => outbox'[u] = outbox[u]
  BY <1>2 DEF SequenceInv
<1>5. /\ received' = [r \in Subscriptions |-> received'[r]]
      /\ received'[s] = Append(received[s], c.receipt)
      /\ \A r \in Subscriptions : r # s => received'[r] = received[r]
  BY <1>2, <1>3 DEF SequenceInv
<1>6. /\ k \in Nat /\ DOMAIN received[s] = 1..k
      /\ IsSequence(received'[s]) /\ DOMAIN received'[s] = 1..(k + 1)
      /\ \A i \in 1..k : received'[s][i] = received[s][i]
      /\ received'[s][k + 1] = c.receipt
  <2>1. IsSequence(received[s]) BY <1>3 DEF SequenceInv
  <2>2. k \in Nat /\ DOMAIN received[s] = 1..k BY <2>1, SequenceShape
  <2> QED BY <1>5, <2>1, <2>2, Appended
<1> HIDE DEF s, k
<1>7. \A u \in Threads : \A i \in DOMAIN outbox'[u] :
        \/ u # t /\ i \in DOMAIN outbox[u] /\ outbox'[u][i] = outbox[u][i]
        \/ /\ u = t /\ i \in Nat \ {0} /\ i + 1 \in DOMAIN outbox[t]
           /\ outbox'[u][i] = outbox[t][i + 1]
  BY <1>1, <1>4
<1>8. \A r \in Subscriptions : \A i \in DOMAIN received'[r] :
        \/ i \in DOMAIN received[r] /\ received'[r][i] = received[r][i]
        \/ r = s /\ i = k + 1 /\ i \notin DOMAIN received[r]
           /\ received'[r][i] = c.receipt
  <2>1. k + 1 \notin 1..k /\ \A i \in 1..(k + 1) : i \in 1..k \/ i = k + 1 BY <1>6
  <2>2. ASSUME NEW i \in DOMAIN received'[s]
        PROVE  \/ i \in DOMAIN received[s] /\ received'[s][i] = received[s][i]
               \/ i = k + 1 /\ i \notin DOMAIN received[s] /\ received'[s][i] = c.receipt
    BY <1>6, <2>1
  <2> QED BY <1>5, <2>2
<1>r. \A r \in Subscriptions : \A i \in DOMAIN received[r] :
        i \in DOMAIN received'[r] /\ received'[r][i] = received[r][i]
  <2>1. \A i \in 1..k : i \in 1..(k + 1) BY <1>6
  <2>2. \A i \in DOMAIN received[s] :
          i \in DOMAIN received'[s] /\ received'[s][i] = received[s][i]
    BY <1>6, <2>1
  <2> QED BY <1>5, <2>2
<1>9. SequenceInv' BY <1>u, <1>1, <1>4, <1>5, <1>6 DEF SequenceInv
<1>10. WindowInv' BY <1>u DEF WindowInv
<1>11. CallInv'
  <2>1. ASSUME NEW u \in Threads, NEW i \in DOMAIN outbox'[u]
        PROVE  /\ outbox'[u][i].to \in Subscriptions
               /\ owed[outbox'[u][i].to] > 0
               /\ Number(outbox'[u][i].receipt) \in 1..sequence
    BY <1>7 DEF CallInv
  <2>2. ASSUME NEW r \in Subscriptions, NEW i \in DOMAIN received'[r]
        PROVE  owed[r] > 0 /\ Number(received'[r][i]) \in 1..sequence
    BY <1>3, <1>8 DEF CallInv
  <2> QED BY <1>u, <2>1, <2>2 DEF CallInv
<1>12. OnceInv'
  <2>1. \A i \in DOMAIN received[s] : Number(received[s][i]) # Number(c.receipt)
    <3>1. \A i \in DOMAIN received[outbox[t][1].to] :
            Number(received[outbox[t][1].to][i]) # Number(outbox[t][1].receipt)
      BY <1>1 DEF OnceInv
    <3> QED BY <1>1, <3>1 DEF s
  <2>2. \A u \in Threads : \A i \in DOMAIN outbox[u] :
          /\ outbox[u][i].to = s
          /\ Number(outbox[u][i].receipt) = Number(c.receipt)
          => u = t /\ i = 1
    BY <1>1 DEF OnceInv, s
  <2>3. \A r \in Subscriptions : \A i, j \in DOMAIN received'[r] :
          Number(received'[r][i]) = Number(received'[r][j]) => i = j
    BY <1>8, <2>1 DEF OnceInv
  <2>4. \A u \in Threads : \A i \in DOMAIN outbox'[u] :
          \A n \in DOMAIN received'[outbox'[u][i].to] :
            Number(received'[outbox'[u][i].to][n]) # Number(outbox'[u][i].receipt)
    <3> SUFFICES ASSUME NEW u \in Threads, NEW i \in DOMAIN outbox'[u],
                        NEW n \in DOMAIN received'[outbox'[u][i].to]
                 PROVE  Number(received'[outbox'[u][i].to][n])
                          # Number(outbox'[u][i].receipt)
      OBVIOUS
    <3>1. PICK j \in DOMAIN outbox[u] :
            outbox'[u][i] = outbox[u][j] /\ (u = t => j # 1)
      <4>1. CASE u # t BY <1>7, <4>1
      <4>2. CASE u = t
        <5>1. i \in Nat \ {0} /\ i + 1 \in DOMAIN outbox[u] /\ outbox'[u][i] = outbox[u][i + 1]
          BY <1>7, <4>2
        <5>2. i + 1 # 1 BY <5>1
        <5> QED BY <5>1, <5>2
      <4> QED BY <4>1, <4>2
    <3>2. outbox'[u][i].to \in Subscriptions BY <3>1 DEF CallInv
    <3>3. CASE n \in DOMAIN received[outbox'[u][i].to]
      <4>1. received'[outbox'[u][i].to][n] = received[outbox'[u][i].to][n]
        BY <1>8, <3>2, <3>3
      <4> QED BY <3>1, <3>3, <4>1 DEF OnceInv
    <3>4. CASE n \notin DOMAIN received[outbox'[u][i].to]
      <4>1. outbox'[u][i].to = s /\ received'[outbox'[u][i].to][n] = c.receipt
        BY <1>8, <3>2, <3>4
      <4> QED BY <2>2, <3>1, <4>1
    <3> QED BY <3>3, <3>4
  <2>5. ASSUME NEW u \in Threads, NEW v \in Threads,
               NEW i \in DOMAIN outbox'[u], NEW j \in DOMAIN outbox'[v],
               outbox'[u][i].to = outbox'[v][j].to,
               Number(outbox'[u][i].receipt) = Number(outbox'[v][j].receipt)
        PROVE  u = v /\ i = j
    <3>1. CASE u = t /\ v = t
      <4>1. /\ i \in Nat /\ i + 1 \in DOMAIN outbox[t] /\ outbox'[u][i] = outbox[t][i + 1]
            /\ j \in Nat /\ j + 1 \in DOMAIN outbox[t] /\ outbox'[v][j] = outbox[t][j + 1]
        BY <1>7, <3>1
      <4>2. i + 1 = j + 1 BY <2>5, <4>1 DEF OnceInv
      <4> QED BY <3>1, <4>1, <4>2
    <3>2. CASE ~(u = t /\ v = t)
      <4>1. PICK a \in DOMAIN outbox[u] : outbox'[u][i] = outbox[u][a] /\ (u # t => a = i)
        BY <1>7
      <4>2. PICK b \in DOMAIN outbox[v] : outbox'[v][j] = outbox[v][b] /\ (v # t => b = j)
        BY <1>7
      <4>3. u = v /\ a = b BY <2>5, <4>1, <4>2 DEF OnceInv
      <4> QED BY <3>2, <4>1, <4>2, <4>3
    <3> QED BY <3>1, <3>2
  <2> QED BY <2>3, <2>4, <2>5 DEF OnceInv
<1>13. OwedInv'
  <2> SUFFICES ASSUME NEW r \in SubscribersAsSet, NEW n \in owed[r]..sequence
               PROVE  \/ \E i \in DOMAIN received'[r] : Number(received'[r][i]) = n
                      \/ \E u \in Threads : \E i \in DOMAIN outbox'[u] :
                           outbox'[u][i].to = r /\ Number(outbox'[u][i].receipt) = n
    BY <1>u DEF OwedInv, SubscribersAsSet
  <2>0. r \in Subscriptions BY DEF SubscribersAsSet, CallInv
  <2>1. CASE \E i \in DOMAIN received[r] : Number(received[r][i]) = n
    <3>1. PICK i \in DOMAIN received[r] : Number(received[r][i]) = n BY <2>1
    <3>2. i \in DOMAIN received'[r] /\ received'[r][i] = received[r][i]
      BY <1>r, <2>0, <3>1
    <3> QED BY <3>1, <3>2
  <2>2. CASE \E u \in Threads : \E i \in DOMAIN outbox[u] :
               outbox[u][i].to = r /\ Number(outbox[u][i].receipt) = n
    <3>1. PICK u \in Threads : \E i \in DOMAIN outbox[u] :
            outbox[u][i].to = r /\ Number(outbox[u][i].receipt) = n
      BY <2>2
    <3>2. PICK i \in DOMAIN outbox[u] :
            outbox[u][i].to = r /\ Number(outbox[u][i].receipt) = n
      BY <3>1
    <3>3. CASE u # t BY <1>4, <3>2, <3>3
    <3>4. CASE u = t /\ i = 1
      <4>1. r = s /\ Number(c.receipt) = n BY <1>1, <3>2, <3>4 DEF s
      <4>2. k + 1 \in DOMAIN received'[s] BY <1>6
      <4> QED BY <1>6, <4>1, <4>2
    <3>5. CASE u = t /\ i # 1
      <4>1. i - 1 \in DOMAIN Tail(outbox[t]) /\ (i - 1) + 1 = i BY <1>1, <3>5
      <4>2. i - 1 \in DOMAIN outbox'[t] /\ outbox'[t][i - 1] = outbox[t][i]
        BY <1>1, <1>4, <4>1
      <4> QED BY <3>2, <3>5, <4>2
    <3> QED BY <3>3, <3>4, <3>5
  <2> QED BY <2>1, <2>2 DEF OwedInv
<1> QED BY <1>9, <1>10, <1>11, <1>12, <1>13 DEF IInv

(* One registration is taken out; the others keep their order and calls. *)
LEMMA UnsubscribeKeeps ==
  ASSUME IInv, NEW t \in Threads, NEW s \in Subscriptions, Unsubscribe(t, s)
  PROVE  IInv'
<1> USE Pieces
<1>u. UNCHANGED <<sequence, lastDigest, events, outbox, received, owed>>
  BY DEF Unsubscribe
<1>1. /\ IsSequence(subscribers')
      /\ \A i \in DOMAIN subscribers' : subscribers'[i] \in SubscribersAsSet
      /\ \A i, j \in DOMAIN subscribers' : subscribers'[i] = subscribers'[j] => i = j
  <2>0. /\ IsSequence(subscribers) /\ Len(subscribers) \in Nat
        /\ DOMAIN subscribers = 1..Len(subscribers)
    BY SequenceShape DEF SequenceInv
  <2>1. CASE UNCHANGED subscribers BY <2>0, <2>1 DEF CallInv, SubscribersAsSet
  <2>2. CASE \E i \in DOMAIN subscribers : subscribers' = Without(subscribers, i)
    <3>1. PICK a \in DOMAIN subscribers : subscribers' = Without(subscribers, a) BY <2>2
    <3>2. /\ IsSequence(subscribers') /\ DOMAIN subscribers' = 1..(Len(subscribers) - 1)
          /\ \A n \in DOMAIN subscribers' :
               /\ n < a => n \in DOMAIN subscribers /\ subscribers'[n] = subscribers[n]
               /\ n >= a => n + 1 \in DOMAIN subscribers /\ subscribers'[n] = subscribers[n + 1]
      BY <2>0, <3>1, WithoutShape
    <3>3. \A n \in DOMAIN subscribers' : n \in Int /\ (n < a \/ n >= a) BY <2>0, <3>2
    <3>4. \A i \in DOMAIN subscribers' : subscribers'[i] \in SubscribersAsSet
      BY <3>2, <3>3 DEF SubscribersAsSet
    <3>5. ASSUME NEW i \in DOMAIN subscribers', NEW j \in DOMAIN subscribers',
                 subscribers'[i] = subscribers'[j]
          PROVE  i = j
      <4> DEFINE At(n) == IF n < a THEN n ELSE n + 1
      <4>1. \A n \in DOMAIN subscribers' :
              At(n) \in DOMAIN subscribers /\ subscribers'[n] = subscribers[At(n)]
        BY <3>2, <3>3
      <4>2. At(i) = At(j) BY <3>5, <4>1 DEF CallInv
      <4>3. i \in Int /\ j \in Int /\ a \in Int BY <2>0, <3>3
      <4> QED BY <4>2, <4>3
    <3> QED BY <3>2, <3>4, <3>5
  <2> QED BY <2>1, <2>2 DEF Unsubscribe
<1>2. SequenceInv' BY <1>u, <1>1 DEF SequenceInv
<1>3. WindowInv' BY <1>u DEF WindowInv
<1>4. CallInv'
  <2>1. \A r \in SubscribersAsSet : r \in Subscriptions /\ owed[r] > 0
    BY DEF SubscribersAsSet, CallInv
  <2> QED BY <1>u, <1>1, <2>1 DEF CallInv
<1>5. OnceInv' BY <1>u DEF OnceInv
<1>6. OwedInv'
  <2>1. SubscribersAsSet' \subseteq SubscribersAsSet BY <1>1 DEF SubscribersAsSet
  <2> QED BY <1>u, <2>1 DEF OwedInv
<1> QED BY <1>2, <1>3, <1>4, <1>5, <1>6 DEF IInv

LEMMA StutterKeeps == IInv /\ UNCHANGED vars => IInv'
<1> SUFFICES ASSUME IInv, UNCHANGED vars PROVE IInv' OBVIOUS
<1> USE Pieces
<1>u. UNCHANGED <<sequence, lastDigest, events, subscribers, outbox, received, owed>>
  BY DEF vars
<1>1. SequenceInv' /\ WindowInv' BY <1>u DEF SequenceInv, WindowInv
<1>2. CallInv' /\ OnceInv' BY <1>u DEF CallInv, OnceInv
<1>3. OwedInv' BY <1>u DEF OwedInv, SubscribersAsSet
<1> QED BY <1>1, <1>2, <1>3 DEF IInv

LEMMA NextKeeps == IInv /\ [Next]_vars => IInv'
BY PublishKeeps, SubscribeKeeps, DeliverKeeps, UnsubscribeKeeps, StutterKeeps DEF Next

LEMMA Inductive == Spec => []IInv
BY InitIInv, NextKeeps, PTL DEF Spec

-----------------------------------------------------------------------------
(***************************************************************************)
(* The exported window verifies, is as long as the retention allows and    *)
(* ends with the latest receipt, whoever published (audit.py:183-200,      *)
(* 242-255).                                                               *)
(***************************************************************************)
LEMMA WindowVerifies == IInv => RetainedChain
<1> SUFFICES ASSUME IInv PROVE RetainedChain OBVIOUS
<1> USE Pieces
<1>0. /\ sequence \in Nat /\ Len(events) \in Nat /\ DOMAIN events = 1..Len(events)
      /\ IsSequence(events)
  BY SequenceShape DEF SequenceInv
<1>1. \A i \in DOMAIN events :
        /\ i \in Nat /\ Number(events[i]) \in Nat
        /\ Number(events[i]) + Len(events) = sequence + i
        /\ i > 1 => i - 1 \in DOMAIN events
  <2>1. \A i \in DOMAIN events :
          /\ events[i].payload \in [sequence : Nat, outcome : Outcomes]
          /\ Number(events[i]) + Len(events) = sequence + i
    BY DEF WindowInv, Sealed
  <2>2. \A i \in DOMAIN events : Number(events[i]) \in Nat BY <2>1 DEF Number
  <2>3. \A i \in DOMAIN events : i \in Nat /\ (i > 1 => i - 1 \in DOMAIN events)
    BY <1>0
  <2> QED BY <2>1, <2>2, <2>3
<1>2. ASSUME NEW i \in DOMAIN events
      PROVE  /\ VerifyReceipt(events[i])
             /\ i > 1 => /\ events[i].previous = events[i - 1].digest
                        /\ Number(events[i]) = Number(events[i - 1]) + 1
  <2>1. VerifyReceipt(events[i])
    <3>1. events[i] = Receipt(events[i].payload, events[i].previous)
      BY DEF WindowInv, Sealed
    <3> QED BY <3>1 DEF Receipt, VerifyReceipt
  <2>2. i > 1 => Number(events[i]) = Number(events[i - 1]) + 1
    <3> SUFFICES ASSUME i > 1 PROVE Number(events[i]) = Number(events[i - 1]) + 1
      OBVIOUS
    <3>1. /\ Number(events[i]) \in Nat /\ Number(events[i - 1]) \in Nat /\ i \in Nat
          /\ Number(events[i]) + Len(events) = sequence + i
          /\ Number(events[i - 1]) + Len(events) = sequence + (i - 1)
      BY <1>1
    <3> QED BY <1>0, <3>1
  <2> QED BY <2>1, <2>2 DEF WindowInv
<1>3. events # <<>> => Number(events[Len(events)]) = sequence
  <2> SUFFICES ASSUME events # <<>> PROVE Number(events[Len(events)]) = sequence
    OBVIOUS
  <2>1. Len(events) >= 1 BY <1>0, Tailed
  <2>2. Len(events) \in DOMAIN events BY <1>0, <2>1
  <2> QED BY <1>0, <1>1, <2>2
<1> QED BY <1>2, <1>3 DEF RetainedChain, VerifyChain, WindowInv

(***************************************************************************)
(* The retained receipts verify as one chain whose end is the stream's     *)
(* tail, whatever was published, dropped and subscribed (audit.py:176-199).*)
(***************************************************************************)
THEOREM WindowIsOneChain == Spec => []RetainedChain
BY WindowVerifies, Inductive, PTL

(***************************************************************************)
(* In an exported window another outcome, a receipt taken out of the       *)
(* middle and an exchange of two receipts are all detected                 *)
(* (docs/AUDIT.md:23), when the digest is injective.                       *)
(***************************************************************************)
LEMMA TamperingDetected == IInv => TamperEvident
<1> SUFFICES ASSUME IInv, NEW i \in DOMAIN events
             PROVE  /\ \A outcome \in Outcomes \ {events[i].payload.outcome} :
                         /\ ~VerifyChain(Rewritten(events, i, outcome))
                         /\ i < Len(events) => ~VerifyChain(Resealed(events, i, outcome))
                    /\ 1 < i /\ i < Len(events) => ~VerifyChain(Without(events, i))
                    /\ \A j \in DOMAIN events \ {i} : ~VerifyChain(Exchanged(events, i, j))
  BY DEF TamperEvident
<1> USE Pieces
<1>0. /\ sequence \in Nat /\ Len(events) \in Nat /\ DOMAIN events = 1..Len(events)
      /\ IsSequence(events)
  BY SequenceShape DEF SequenceInv
<1>1. \A k \in DOMAIN events :
        /\ k \in Nat /\ Number(events[k]) \in Nat
        /\ Number(events[k]) + Len(events) = sequence + k
  <2>1. \A k \in DOMAIN events :
          /\ events[k].payload \in [sequence : Nat, outcome : Outcomes]
          /\ Number(events[k]) + Len(events) = sequence + k
    BY DEF WindowInv, Sealed
  <2>2. \A k \in DOMAIN events : Number(events[k]) \in Nat BY <2>1 DEF Number
  <2> QED BY <1>0, <2>1, <2>2
<1>2. \A k \in DOMAIN events :
        /\ events[k] = Receipt(events[k].payload, events[k].previous)
        /\ events[k].digest = <<events[k].payload, events[k].previous>>
        /\ events[k].payload \in [sequence : Nat, outcome : Outcomes]
  <2>1. \A k \in DOMAIN events :
          /\ events[k] = Receipt(events[k].payload, events[k].previous)
          /\ events[k].payload \in [sequence : Nat, outcome : Outcomes]
    BY DEF WindowInv, Sealed
  <2> QED BY <2>1 DEF Receipt, Digest
<1>3. ASSUME NEW outcome \in Outcomes, outcome # events[i].payload.outcome
      PROVE  ~VerifyChain(Rewritten(events, i, outcome))
  <2> DEFINE X == Rewritten(events, i, outcome)
             changed == [events[i].payload EXCEPT !.outcome = outcome]
  <2>1. /\ i \in DOMAIN X /\ X[i] = [events[i] EXCEPT !.payload = changed]
    BY DEF Rewritten
  <2>2. changed # events[i].payload
    <3>1. changed.outcome = outcome BY <1>2
    <3> QED BY <1>3, <3>1
  <2> HIDE DEF changed, X
  <2>3. /\ X[i].payload = changed /\ X[i].previous = events[i].previous
        /\ X[i].digest = <<events[i].payload, events[i].previous>>
    <3>1. events[i] = [payload |-> events[i].payload, previous |-> events[i].previous,
                       digest |-> events[i].digest]
      BY <1>2 DEF Receipt
    <3> QED BY <1>2, <2>1, <3>1
  <2>4. ~VerifyReceipt(X[i]) BY <2>2, <2>3 DEF VerifyReceipt, Digest
  <2> QED BY <2>1, <2>4 DEF VerifyChain, X
<1>4. ASSUME NEW outcome \in Outcomes, outcome # events[i].payload.outcome, i < Len(events)
      PROVE  ~VerifyChain(Resealed(events, i, outcome))
  <2> DEFINE X == Resealed(events, i, outcome)
             changed == [events[i].payload EXCEPT !.outcome = outcome]
  <2>0. i + 1 \in DOMAIN events /\ i + 1 # i /\ i + 1 > 1 /\ (i + 1) - 1 = i
    BY <1>0, <1>4
  <2>1. /\ DOMAIN X = DOMAIN events /\ X[i + 1] = events[i + 1]
        /\ X[i] = Receipt(changed, events[i].previous)
    BY <2>0 DEF Resealed
  <2>2. changed # events[i].payload
    <3>1. changed.outcome = outcome BY <1>2
    <3> QED BY <1>4, <3>1
  <2> HIDE DEF changed, X
  <2>3. X[i].digest = <<changed, events[i].previous>> BY <2>1 DEF Receipt, Digest
  <2>4. events[i + 1].previous = <<events[i].payload, events[i].previous>>
    BY <1>2, <2>0 DEF WindowInv
  <2>5. X[i + 1].previous # X[(i + 1) - 1].digest BY <2>0, <2>1, <2>2, <2>3, <2>4
  <2> QED BY <2>0, <2>1, <2>5 DEF VerifyChain, X
<1>5. ASSUME 1 < i, i < Len(events)
      PROVE  ~VerifyChain(Without(events, i))
  <2> DEFINE X == Without(events, i)
  <2>0. i \in Nat /\ i + 1 \in DOMAIN events /\ i - 1 \in DOMAIN events
    BY <1>0, <1>5
  <2>1. /\ DOMAIN X = 1..(Len(events) - 1)
        /\ \A k \in DOMAIN X :
             /\ k < i => X[k] = events[k]
             /\ k >= i => X[k] = events[k + 1]
    BY <1>0, WithoutShape
  <2> HIDE DEF X
  <2>2. i \in DOMAIN X /\ i - 1 \in DOMAIN X BY <1>0, <1>5, <2>0, <2>1
  <2>3. X[i] = events[i + 1] /\ X[i - 1] = events[i - 1] BY <2>0, <2>1, <2>2
  <2>4. /\ Number(events[i + 1]) + Len(events) = sequence + (i + 1)
        /\ Number(events[i - 1]) + Len(events) = sequence + (i - 1)
        /\ Number(events[i + 1]) \in Nat /\ Number(events[i - 1]) \in Nat
    BY <1>1, <2>0
  <2>5. Number(events[i + 1]) # Number(events[i - 1]) + 1
    <3>1. \A x, y, l, q \in Nat : x + l = q + (i + 1) /\ y + l = q + (i - 1) => x # y + 1
      BY <2>0
    <3> QED BY <1>0, <2>4, <3>1
  <2> QED BY <1>5, <2>2, <2>3, <2>5 DEF VerifyChain, X
<1>6. ASSUME NEW a \in DOMAIN events, NEW b \in DOMAIN events, a < b
      PROVE  ~VerifyChain(Exchanged(events, a, b))
  <2> DEFINE X == Exchanged(events, a, b)
  <2>0. a \in Nat /\ b \in Nat /\ a # b /\ a + 1 \in DOMAIN events /\ a + 1 > 1
        /\ (a + 1) - 1 = a /\ a + 1 # a
    BY <1>0, <1>6
  <2>1. DOMAIN X = DOMAIN events /\ X[a] = events[b] /\ X[b] = events[a]
        /\ (a + 1 # b => X[a + 1] = events[a + 1])
    BY <2>0 DEF Exchanged
  <2> HIDE DEF X
  <2>2. /\ Number(events[a]) + Len(events) = sequence + a
        /\ Number(events[b]) + Len(events) = sequence + b
        /\ Number(events[a + 1]) + Len(events) = sequence + (a + 1)
        /\ Number(events[a]) \in Nat /\ Number(events[b]) \in Nat
        /\ Number(events[a + 1]) \in Nat
    BY <1>1, <2>0
  <2>3. Number(events[a]) # Number(events[b]) + 1
    <3>1. \A x, y, l, q \in Nat : x + l = q + a /\ y + l = q + b => x # y + 1
      BY <1>6, <2>0
    <3> QED BY <1>0, <2>2, <3>1
  <2>4. Number(events[a + 1]) # Number(events[b]) + 1
    <3>1. \A x, y, l, q \in Nat : x + l = q + (a + 1) /\ y + l = q + b => x # y + 1
      BY <1>6, <2>0
    <3> QED BY <1>0, <2>2, <3>1
  <2>5. Number(X[a + 1]) # Number(X[(a + 1) - 1]) + 1
    <3>1. CASE a + 1 = b BY <2>0, <2>1, <2>3, <3>1
    <3>2. CASE a + 1 # b BY <2>0, <2>1, <2>4, <3>2
    <3> QED BY <3>1, <3>2
  <2> QED BY <2>0, <2>1, <2>5 DEF VerifyChain, X
<1>7. ASSUME NEW j \in DOMAIN events \ {i}
      PROVE  ~VerifyChain(Exchanged(events, i, j))
  <2>1. CASE i < j BY <1>6, <2>1
  <2>2. CASE j < i
    <3>1. Exchanged(events, i, j) = Exchanged(events, j, i) BY DEF Exchanged
    <3>2. ~VerifyChain(Exchanged(events, j, i)) BY <1>6, <2>2
    <3> QED BY <3>1, <3>2
  <2>3. i < j \/ j < i BY <1>0
  <2> QED BY <2>1, <2>2, <2>3
<1> QED BY <1>3, <1>4, <1>5, <1>7

(* So any window that a reader can have exported shows such a change. *)
THEOREM TamperingIsEvident == Spec => []TamperEvident
BY TamperingDetected, Inductive, PTL

(***************************************************************************)
(* However many threads make callbacks outside the lock, no subscription   *)
(* is called twice with one receipt (audit.py:212-216).                    *)
(***************************************************************************)
THEOREM CalledOnce == Spec => []DeliveredOnce
<1>1. IInv => DeliveredOnce BY DEF IInv, OnceInv, DeliveredOnce
<1> QED BY <1>1, Inductive, PTL

(***************************************************************************)
(* A registered subscription has every receipt from the first one it is    *)
(* owed, or a thread has the call before it (audit.py:199-206, 212-222).   *)
(***************************************************************************)
THEOREM CalledForAll == Spec => []NothingMissed
<1>1. IInv => NothingMissed
  <2> SUFFICES ASSUME IInv, NEW s \in SubscribersAsSet, NEW n \in owed[s]..sequence
               PROVE  \/ \E i \in DOMAIN received[s] : Number(received[s][i]) = n
                      \/ \E c \in Pending : c.to = s /\ Number(c.receipt) = n
    BY DEF NothingMissed
  <2>1. \A t \in Threads : \A i \in DOMAIN outbox[t] : outbox[t][i] \in Pending
    BY DEF Pending
  <2> QED BY <2>1 DEF IInv, OwedInv
<1> QED BY <1>1, Inductive, PTL
=============================================================================
