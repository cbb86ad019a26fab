-------------------------------- MODULE Audit --------------------------------
(***************************************************************************)
(* The audit event stream (audit.py): hash-linked receipts, a bounded      *)
(* window of them, and subscribers that are called with every receipt.     *)
(*                                                                         *)
(* publish and subscribe do their bookkeeping under the stream's lock, one *)
(* action here, and call subscribers after they have released it: every    *)
(* callback is a step of its own, and other threads run in between.        *)
(*                                                                         *)
(* A digest is the pair it is computed from, the payload and the previous  *)
(* digest: SHA-256 of canonical JSON is taken to be injective.  Of the     *)
(* payload only the sequence number and the outcome are kept.              *)
(***************************************************************************)
EXTENDS Naturals, Sequences, FiniteSets

CONSTANTS
  Threads,         \* callers of the stream
  Subscriptions,   \* subscribe calls
  Outcomes,        \* what a payload says beside its sequence number
  MaxEvents,       \* retention of the stream
  MaxPublished,    \* bound on the publish calls
  NoDigest         \* None, the predecessor of the first receipt

ASSUME AuditAssumption ==
  /\ MaxEvents \in Nat \ {0}
  /\ MaxPublished \in Nat

VARIABLES
  sequence,      \* number of the latest receipt
  lastDigest,    \* its digest
  events,        \* the retained window, oldest first
  subscribers,   \* registered subscriptions in the order they registered
  outbox,        \* callbacks each thread has still to make before it returns
  received,      \* history: the receipts each subscription was called with
  owed           \* history: first sequence number owed to each subscription

vars == <<sequence, lastDigest, events, subscribers, outbox, received, owed>>

Digest(payload, previous) == <<payload, previous>>

Receipt(payload, previous) ==
  [payload |-> payload, previous |-> previous,
   digest |-> Digest(payload, previous)]

Number(receipt) == receipt.payload.sequence

VerifyReceipt(receipt) == receipt.digest = Digest(receipt.payload, receipt.previous)

(* mutant: numbers are compared and links are not *)
VerifyNumbersOnly(chain) ==
  \A i \in DOMAIN chain :
    /\ VerifyReceipt(chain[i])
    /\ i > 1 => Number(chain[i]) = Number(chain[i - 1]) + 1

VerifyChain(chain) ==
  \A i \in DOMAIN chain :
    /\ VerifyReceipt(chain[i])
    /\ i > 1 =>
         /\ chain[i].previous = chain[i - 1].digest
         /\ Number(chain[i]) = Number(chain[i - 1]) + 1

SubscribersAsSet == {subscribers[i] : i \in DOMAIN subscribers}

Pending == UNION {{outbox[t][i] : i \in DOMAIN outbox[t]} : t \in Threads}

Idle(t) == outbox[t] = <<>>

Without(s, i) == SubSeq(s, 1, i - 1) \o SubSeq(s, i + 1, Len(s))

(* a deque with a maximum length drops its oldest element *)
Retain(receipt) ==
  LET all == Append(events, receipt)
  IN  IF Len(all) > MaxEvents THEN Tail(all) ELSE all

-----------------------------------------------------------------------------
Init ==
  /\ sequence = 0
  /\ lastDigest = NoDigest
  /\ events = <<>>
  /\ subscribers = <<>>
  /\ outbox = [t \in Threads |-> <<>>]
  /\ received = [s \in Subscriptions |-> <<>>]
  /\ owed = [s \in Subscriptions |-> 0]

(* mutant: the number is counted from the window *)
NumbersFromWindow(t, outcome) ==
  LET receipt == Receipt([sequence |-> Len(events) + 1, outcome |-> outcome], lastDigest)
  IN  /\ Idle(t)
      /\ sequence < MaxPublished
      /\ sequence' = sequence + 1
      /\ lastDigest' = receipt.digest
      /\ events' = Retain(receipt)
      /\ outbox' = [outbox EXCEPT ![t] =
           [i \in DOMAIN subscribers |->
              [to |-> subscribers[i], receipt |-> receipt, replay |-> FALSE]]]
      /\ UNCHANGED <<subscribers, received, owed>>

Publish(t, outcome) ==
  LET receipt == Receipt([sequence |-> sequence + 1, outcome |-> outcome], lastDigest)
  IN  /\ Idle(t)
      /\ sequence < MaxPublished
      /\ sequence' = sequence + 1
      /\ lastDigest' = receipt.digest
      /\ events' = Retain(receipt)
      /\ outbox' = [outbox EXCEPT ![t] =
           [i \in DOMAIN subscribers |->
              [to |-> subscribers[i], receipt |-> receipt, replay |-> FALSE]]]
      /\ UNCHANGED <<subscribers, received, owed>>

Subscribe(t, s, replay) ==
  LET existing == IF replay THEN events ELSE <<>>
  IN  /\ Idle(t)
      /\ owed[s] = 0
      /\ subscribers' = Append(subscribers, s)
      /\ owed' = [owed EXCEPT ![s] = sequence + 1 - Len(existing)]
      /\ outbox' = [outbox EXCEPT ![t] =
           [i \in DOMAIN existing |->
              [to |-> s, receipt |-> existing[i], replay |-> TRUE]]]
      /\ UNCHANGED <<sequence, lastDigest, events, received>>

(* mutant: a callback that raises ends the loop that makes the calls *)
LosesTheRest(t) ==
  LET call == Head(outbox[t])
  IN  /\ ~Idle(t)
      /\ received' = [received EXCEPT ![call.to] = Append(@, call.receipt)]
      /\ \E rest \in {Tail(outbox[t]), <<>>} : outbox' = [outbox EXCEPT ![t] = rest]
      /\ UNCHANGED <<sequence, lastDigest, events, subscribers, owed>>

(* mutant: a callback that raises is called again *)
CallsAgain(t) ==
  LET call == Head(outbox[t])
  IN  /\ ~Idle(t)
      /\ received' = [received EXCEPT ![call.to] = Append(@, call.receipt)]
      /\ \E rest \in {Tail(outbox[t]), outbox[t]} : outbox' = [outbox EXCEPT ![t] = rest]
      /\ UNCHANGED <<sequence, lastDigest, events, subscribers, owed>>

(* one callback; whether it raises makes no difference to anybody *)
Deliver(t) ==
  LET call == Head(outbox[t])
  IN  /\ ~Idle(t)
      /\ received' = [received EXCEPT ![call.to] = Append(@, call.receipt)]
      /\ outbox' = [outbox EXCEPT ![t] = Tail(@)]
      /\ UNCHANGED <<sequence, lastDigest, events, subscribers, owed>>

(* the handle exists once subscribe has returned; a second call does nothing *)
Unsubscribe(t, s) ==
  /\ Idle(t)
  /\ owed[s] > 0
  /\ \A c \in Pending : ~(c.to = s /\ c.replay)
  /\ \/ /\ s \notin SubscribersAsSet
        /\ UNCHANGED subscribers
     \/ \E i \in DOMAIN subscribers :
          /\ subscribers[i] = s
          /\ subscribers' = Without(subscribers, i)
  /\ UNCHANGED <<sequence, lastDigest, events, outbox, received, owed>>

Next ==
  \E t \in Threads :
    \/ \E outcome \in Outcomes : Publish(t, outcome)
    \/ \E s \in Subscriptions : \E replay \in BOOLEAN : Subscribe(t, s, replay)
    \/ \E s \in Subscriptions : Unsubscribe(t, s)
    \/ Deliver(t)

Spec == Init /\ [][Next]_vars

-----------------------------------------------------------------------------
(***************************************************************************)
(* Whoever publishes in whatever order, and however many receipts have     *)
(* been dropped, the window that /api/audit exports verifies and is the    *)
(* latest stretch of one unforked chain (audit.py:183-200, 242-255).       *)
(***************************************************************************)
RetainedChain ==
  /\ VerifyChain(events)
  /\ Len(events) = IF sequence < MaxEvents THEN sequence ELSE MaxEvents
  /\ events # <<>> =>
       /\ Number(events[Len(events)]) = sequence
       /\ events[Len(events)].digest = lastDigest

(***************************************************************************)
(* Tamper evidence (docs/AUDIT.md:23): in an exported window, another      *)
(* outcome put in place of a recorded one, with its digest left alone or   *)
(* computed afresh, a receipt taken out of the middle, and two receipts    *)
(* exchanged are all detected.  A fresh digest on the last receipt is not: *)
(* the chain is not signed.                                                *)
(***************************************************************************)
Rewritten(chain, i, outcome) ==
  [chain EXCEPT ![i].payload.outcome = outcome]

Resealed(chain, i, outcome) ==
  [chain EXCEPT ![i] = Receipt([@.payload EXCEPT !.outcome = outcome], @.previous)]

Exchanged(chain, i, j) == [chain EXCEPT ![i] = chain[j], ![j] = chain[i]]

TamperEvident ==
  \A i \in DOMAIN events :
    /\ \A outcome \in Outcomes \ {events[i].payload.outcome} :
         /\ ~VerifyChain(Rewritten(events, i, outcome))
         /\ i < Len(events) => ~VerifyChain(Resealed(events, i, outcome))
    /\ 1 < i /\ i < Len(events) => ~VerifyChain(Without(events, i))
    /\ \A j \in DOMAIN events \ {i} : ~VerifyChain(Exchanged(events, i, j))

(***************************************************************************)
(* No subscription is called twice with one receipt: what it replays and   *)
(* what it gets live never overlap (audit.py:212-216).                     *)
(***************************************************************************)
DeliveredOnce ==
  \A s \in Subscriptions : \A i, j \in DOMAIN received[s] :
    received[s][i] = received[s][j] => i = j

(***************************************************************************)
(* Nothing falls between the replay and the live receipts: a registered    *)
(* subscription was called with every receipt it is owed, or some thread   *)
(* has the call before it, though other subscribers raise (audit.py:       *)
(* 199-206, 212-222).                                                      *)
(***************************************************************************)
NothingMissed ==
  \A s \in SubscribersAsSet : \A n \in owed[s]..sequence :
    \/ \E i \in DOMAIN received[s] : Number(received[s][i]) = n
    \/ \E c \in Pending : c.to = s /\ Number(c.receipt) = n

(***************************************************************************)
(* A subscriber sees receipts in the order of the stream, as audit.py:210  *)
(* says ("Subscribe to ordered events").  With two threads callbacks        *)
(* overtake each other once the lock is released.                          *)
(***************************************************************************)
InOrder ==
  \A s \in Subscriptions : \A i, j \in DOMAIN received[s] :
    i < j => Number(received[s][i]) < Number(received[s][j])
=============================================================================
