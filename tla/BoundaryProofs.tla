--------------------------- MODULE BoundaryProofs ---------------------------
(***************************************************************************)
(* The properties of what enters SolGuard from outside: of one purchase,   *)
(* for every set of answers, challenges and transactions, every precision  *)
(* and every limit; and of the copy of its metadata, for all metadata and  *)
(* all bounds.                                                             *)
(***************************************************************************)
EXTENDS Purchase, Sanitizer, FiniteSetTheorems, SequenceTheorems, TLAPS

(***************************************************************************)
(* A nonempty set of numbers has a least one: the intervals up to its      *)
(* numbers have a smallest one.                                            *)
(***************************************************************************)
LEMMA LeastNumber ==
  ASSUME NEW T \in SUBSET Nat, T # {}
  PROVE  \E x \in T : \A y \in T : x <= y
<1> DEFINE upTo == {0..n : n \in T}
<1>1. upTo \subseteq FiniteSubsetsOf(Nat)
  <2>1. \A n \in T : IsFiniteSet(0..n)
    BY FS_Interval
  <2>2. QED
    BY <2>1 DEF FiniteSubsetsOf
<1>2. upTo # {}
  OBVIOUS
<1>3. IsWellFoundedOn(StrictSubsetOrdering(Nat), FiniteSubsetsOf(Nat))
  BY FS_StrictSubsetOrderingWellFounded
<1>4. \E A \in upTo : \A B \in upTo : <<B, A>> \notin StrictSubsetOrdering(Nat)
  <2> HIDE DEF upTo
  <2> QED
    BY <1>1, <1>2, <1>3, WFMin
<1>5. PICK x \in T : \A n \in T : <<0..n, 0..x>> \notin StrictSubsetOrdering(Nat)
  BY <1>4
<1>6. ASSUME NEW y \in T, y < x
      PROVE  FALSE
  <2>1. 0..y \subseteq 0..x /\ x \in 0..x /\ x \notin 0..y
    BY <1>6
  <2>2. 0..y \in SUBSET Nat /\ 0..x \in SUBSET Nat /\ 0..y # 0..x
    BY <2>1
  <2>3. <<0..y, 0..x>> \in StrictSubsetOrdering(Nat)
    BY <2>1, <2>2, Zenon DEF StrictSubsetOrdering
  <2>4. QED
    BY <2>3, <1>5
<1>7. QED
  BY <1>6

(***************************************************************************)
(* A set of numbers up to a bound that has zero, and after each number the *)
(* next, has them all.                                                     *)
(***************************************************************************)
LEMMA CountingUp ==
  ASSUME NEW n \in Nat, NEW T \in SUBSET (0..n), 0 \in T,
         \A i \in 1..n : i - 1 \in T => i \in T
  PROVE  T = 0..n
<1> DEFINE missed == (0..n) \ T
<1>1. SUFFICES ASSUME missed # {}
               PROVE  FALSE
  OBVIOUS
<1>2. missed \in SUBSET Nat
  OBVIOUS
<1>3. PICK m \in missed : \A k \in missed : m <= k
  <2> HIDE DEF missed
  <2> QED
    BY <1>1, <1>2, LeastNumber
<1>4. m \in 1..n /\ m \notin T
  BY <1>3
<1>5. m - 1 \in 0..n /\ m - 1 \notin missed
  <2> HIDE DEF missed
  <2> QED
    BY <1>3, <1>4
<1>6. QED
  BY <1>4, <1>5

(* A nonempty set of numbers with a bound has a greatest one. *)
LEMMA GreatestNumber ==
  ASSUME NEW n \in Nat, NEW T \in SUBSET (1..n), T # {}
  PROVE  \E i \in T : \A j \in T : j <= i
<1> DEFINE rest == {n - i : i \in T}
<1>1. rest \in SUBSET Nat /\ rest # {}
  <2>1. \A i \in T : n - i \in Nat
    OBVIOUS
  <2>2. QED
    BY <2>1
<1>2. PICK r \in rest : \A q \in rest : r <= q
  <2> HIDE DEF rest
  <2> QED
    BY <1>1, LeastNumber
<1>3. PICK i \in T : r = n - i
  BY <1>2 DEF rest
<1>4. \A j \in T : n - i <= n - j
  BY <1>2, <1>3
<1> HIDE DEF rest
<1>5. \A j \in T : j \in Int /\ i \in Int
  OBVIOUS
<1>6. \A x, y \in Int : n - x <= n - y => y <= x
  OBVIOUS
<1>7. QED
  BY <1>4, <1>5, <1>6

-----------------------------------------------------------------------------
(* Rounding an amount. *)

(* An amount of no more than MaxDigits digits has a last kept digit. *)
LEMMA UlpType ==
  ASSUME NEW amount \in 0..(10 ^ MaxDigits - 1)
  PROVE  Ulp(amount) \in Nat \ {0}
<1> DEFINE fits == {e \in 0..MaxDigits : amount < 10 ^ (Precision + e)}
           least == CHOOSE e \in fits : \A f \in fits : e <= f
<1>1. fits # {}
  <2>1. /\ MaxDigits - Precision \in 0..MaxDigits
        /\ Precision + (MaxDigits - Precision) = MaxDigits
    BY AmountsAssumption
  <2>2. amount < 10 ^ MaxDigits
    BY AmountsAssumption
  <2>3. MaxDigits - Precision \in fits
    BY <2>1, <2>2
  <2>4. QED
    BY <2>3
<1>2. fits \subseteq Nat
  BY AmountsAssumption
<1>3. \E e \in fits : \A f \in fits : e <= f
  BY <1>1, <1>2, LeastNumber
<1>4. least \in fits
  BY <1>3
<1>5. Ulp(amount) = 10 ^ least
  BY DEF Ulp
<1>6. QED
  BY <1>4, <1>5, AmountsAssumption

LEMMA Division ==
  ASSUME NEW a \in Nat, NEW u \in Nat \ {0}
  PROVE  /\ a \div u \in Nat
         /\ a % u \in 0..(u - 1)
         /\ a = u * (a \div u) + (a % u)
<1>1. a \div u \in Nat
  OBVIOUS
<1>2. a % u \in 0..(u - 1)
  OBVIOUS
<1>3. a = u * (a \div u) + (a % u)
  OBVIOUS
<1>4. QED
  BY <1>1, <1>2, <1>3

(* Rounding moves an amount by half of its last kept digit at most. *)
LEMMA RoundedIsNear ==
  ASSUME NEW amount \in 0..(10 ^ MaxDigits - 1)
  PROVE  2 * Distance(amount, Rounded(amount)) <= Ulp(amount)
<1> DEFINE u == Ulp(amount)
           kept == amount \div u
           rest == amount % u
<1>1. u \in Nat \ {0}
  BY UlpType
<1>2. amount \in Nat
  BY AmountsAssumption
<1>3. kept \in Nat /\ rest \in 0..(u - 1) /\ amount = u * kept + rest
  BY <1>1, <1>2, Division
<1>4. u * (kept + 1) = u * kept + u /\ u * kept \in Int
  <2> HIDE DEF kept, u
  <2> QED
    BY <1>1, <1>3
<1>5. \/ Rounded(amount) = u * (kept + 1) /\ 2 * rest >= u
      \/ Rounded(amount) = u * kept /\ 2 * rest <= u
  <2>1. Rounded(amount) =
          u * (IF 2 * rest > u \/ (2 * rest = u /\ kept % 2 = 1) THEN kept + 1 ELSE kept)
    BY DEF Rounded
  <2> HIDE DEF kept, u, rest
  <2> QED
    BY <2>1, <1>1, <1>3
<1>6. QED
  <2> HIDE DEF kept, u, rest
  <2>1. CASE Rounded(amount) = u * (kept + 1) /\ 2 * rest >= u
    BY <2>1, <1>1, <1>2, <1>3, <1>4 DEF Distance, u
  <2>2. CASE Rounded(amount) = u * kept /\ 2 * rest <= u
    BY <2>2, <1>1, <1>2, <1>3, <1>4 DEF Distance, u
  <2>3. QED
    BY <1>5, <2>1, <2>2

-----------------------------------------------------------------------------
(* What the two lists of balances say of a transaction. *)

(* The difference of the lists is what the transaction moved. *)
LEMMA ListsTellChange ==
  ASSUME NEW tx, NEW a \in Touched(tx), Moved(tx, a) \in Int,
         a \in DOMAIN PreBalances(tx) \cup DOMAIN PostBalances(tx)
  PROVE  Balance(PostBalances(tx), a) - Balance(PreBalances(tx), a) = Moved(tx, a)
<1> DEFINE m == Moved(tx, a)
<1>1. Balance(PreBalances(tx), a) = IF a \in tx.opened THEN 0 ELSE Before(tx, a)
  BY DEF Balance, PreBalances
<1>2. Balance(PostBalances(tx), a) = IF a \in tx.closed THEN 0 ELSE Before(tx, a) + m
  BY DEF Balance, PostBalances
<1>3. ~(a \in tx.opened /\ a \in tx.closed)
  BY DEF PreBalances, PostBalances
<1>4. Before(tx, a) = IF a \in tx.opened THEN 0 ELSE IF a \in tx.closed THEN -m ELSE Holding
  BY <1>3 DEF Before
<1>5. m \in Int /\ Holding \in Nat
  BY ConfirmationAssumption
<1> HIDE DEF m
<1>6. QED
  BY <1>1, <1>2, <1>3, <1>4, <1>5 DEF m

(* An account that the lists give to somebody known was his all along. *)
LEMMA ListsTellOwner ==
  ASSUME NEW tx, NEW a \in DOMAIN PreBalances(tx) \cup DOMAIN PostBalances(tx),
         ObservedOwner(PreBalances(tx), PostBalances(tx), a) # "somebody"
  PROVE  ObservedOwner(PreBalances(tx), PostBalances(tx), a) = OwnerOf[a]
BY DEF ObservedOwner, PreBalances, PostBalances

(* What the lists show has happened. *)
LEMMA ShownHasMoved ==
  ASSUME NEW tx, NEW owner, NEW delta \in Int,
         \A a \in Touched(tx) : Moved(tx, a) \in Int,
         owner # "somebody",
         Cardinality(Matching(PreBalances(tx), PostBalances(tx), owner, delta)) = 1
  PROVE  \E a \in Touched(tx) : OwnerOf[a] = owner /\ Moved(tx, a) = delta
<1> DEFINE found == Matching(PreBalances(tx), PostBalances(tx), owner, delta)
<1>1. found # {}
  BY FS_EmptySet
<1>2. PICK a \in found : TRUE
  BY <1>1
<1>3. a \in DOMAIN PreBalances(tx) \cup DOMAIN PostBalances(tx)
  BY DEF Matching
<1>4. /\ ObservedOwner(PreBalances(tx), PostBalances(tx), a) = owner
      /\ Balance(PostBalances(tx), a) - Balance(PreBalances(tx), a) = delta
  BY DEF Matching
<1>5. a \in Touched(tx)
  BY <1>3 DEF PreBalances, PostBalances
<1>6. QED
  BY <1>3, <1>4, <1>5, ListsTellChange, ListsTellOwner

(* A payment between two accounts that are not handed over is shown,       *)
(* whether it opens the one or empties the other.                          *)
LEMMA PaymentIsShown ==
  ASSUME NEW tx, NEW from, NEW to, NEW amount \in Nat \ {0},
         from # to, OwnerOf[from] = "payer",
         tx.changes = [x \in {from, to} |-> IF x = to THEN amount ELSE -amount],
         tx.handedOver = {}, from \notin tx.opened, to \notin tx.closed
  PROVE  ShowsTransfer(tx, "payer", OwnerOf[to], amount)
<1> DEFINE pre == PreBalances(tx)
           post == PostBalances(tx)
<1>1. Touched(tx) = {from, to} /\ Moved(tx, from) = -amount /\ Moved(tx, to) = amount
  BY DEF Touched, Moved
<1>2. from \in DOMAIN pre /\ to \in DOMAIN post
  BY <1>1 DEF PreBalances, PostBalances
<1>3. DOMAIN pre \cup DOMAIN post = {from, to}
  BY <1>1, <1>2 DEF PreBalances, PostBalances
<1>4. \A a \in {from, to} : ObservedOwner(pre, post, a) = OwnerOf[a]
  BY <1>3 DEF ObservedOwner, PreBalances, PostBalances
<1>5. OwnersKept(pre, post)
  BY DEF OwnersKept, PreBalances, PostBalances
<1>6. /\ Balance(post, from) - Balance(pre, from) = -amount
      /\ Balance(post, to) - Balance(pre, to) = amount
  <2> HIDE DEF pre, post
  <2> QED
    BY <1>1, <1>3, ListsTellChange DEF pre, post
<1> HIDE DEF pre, post
<1>7. -amount # amount
  OBVIOUS
<1>8. Matching(pre, post, "payer", -amount) = {from}
  BY <1>3, <1>4, <1>6, <1>7 DEF Matching
<1>9. Matching(pre, post, OwnerOf[to], amount) = {to}
  BY <1>3, <1>4, <1>6, <1>7 DEF Matching
<1>10. Cardinality({from}) = 1 /\ Cardinality({to}) = 1
  BY FS_Singleton
<1>11. QED
  BY <1>2, <1>5, <1>8, <1>9, <1>10 DEF ShowsTransfer, MintPresent, pre, post

-----------------------------------------------------------------------------
(* The inductive invariant. *)

Steps ==
  {"answered", "decide", "facilitator", "status", "transaction", "compare", "done"} \cup Adapters

(* between the sending of a payment and the end of the purchase *)
Later == {"facilitator", "status", "transaction", "compare"}

TypeInv ==
  /\ adapter \in Adapters
  /\ step \in Steps
  /\ invoked \in BOOLEAN
  /\ DOMAIN ledger = DOMAIN Earlier
  /\ \A s \in DOMAIN Earlier : \A a \in Touched(ledger[s]) : Moved(ledger[s], a) \in Int
  /\ step = "done" <=> verdict # "none"

(* before the adapter's guard has let a request pass nothing has been touched *)
StageInv ==
  /\ step \in {"answered", "decide"} \cup Adapters =>
       ~invoked /\ ledger = Earlier /\ signed = Nothing
  /\ step # "answered" /\ verdict # "PROTOCOL_FAILURE" => Readable
  /\ step \in Adapters => step = adapter /\ Permitted

PayShInv ==
  adapter = "paysh" /\ step # "answered" /\ verdict # "PROTOCOL_FAILURE" =>
    request = PayShRequest(answer)

(* the request passed the mandate and the guard, and its own offer was signed *)
Evaluated ==
  /\ Readable
  /\ Permitted
  /\ Matches(Requirement, request, Mode)
  /\ signed = Requirement.accepted

(* the payment goes from the payer to an account of the signed recipient *)
IsPayment(tx) ==
  /\ tx = [changes |-> tx.changes, opened |-> tx.opened, closed |-> tx.closed,
           handedOver |-> tx.handedOver, failed |-> tx.failed, slot |-> tx.slot]
  /\ \E to \in DOMAIN OwnerOf :
    /\ to # PayerAccount /\ OwnerOf[to] = Requirement.recipient
    /\ tx.changes = [x \in {PayerAccount, to} |->
                       IF x = to THEN signed.amount ELSE -signed.amount]
    /\ tx.handedOver = {} /\ PayerAccount \notin tx.opened /\ to \notin tx.closed

(* a payment was sent, or its settlement was judged *)
Sent ==
  \/ step \in Later
  \/ adapter = "live" /\ (signed # Nothing \/ verdict \in {"SETTLED", "REFUSED"})

SentInv == Sent => adapter = "live" /\ Evaluated /\ IsPayment(ledger["payment"])

SimulatedInv == adapter = "simulated" /\ verdict = "SETTLED" => Evaluated

InvokedInv ==
  /\ verdict \in {"PROTOCOL_FAILURE", "BLOCK"} => ~invoked /\ ledger = Earlier
  /\ invoked => Permitted /\ Readable /\ verdict # "PROTOCOL_FAILURE"

(* the transaction that the facilitator names, and the slot of its status *)
NamedInv ==
  /\ step \in {"status", "transaction", "compare"} => report.signature \in DOMAIN Earlier
  /\ step = "transaction" /\ report.signature = "payment" /\ ledger["payment"].slot = 1 =>
       slot = 1
  /\ step = "compare" => Confirmed

SettledInv ==
  adapter = "live" /\ verdict = "SETTLED" => report.signature \in DOMAIN Earlier /\ Confirmed

IInv ==
  /\ TypeInv /\ StageInv /\ PayShInv /\ SentInv /\ SimulatedInv
  /\ InvokedInv /\ NamedInv /\ SettledInv /\ HonestIsReported

-----------------------------------------------------------------------------
LEMMA InitInv == Init => IInv
<1> SUFFICES ASSUME Init
             PROVE  IInv
  OBVIOUS
<1> USE DEF Init
<1>1. TypeInv
  BY PurchaseAssumption DEF TypeInv, Steps, Adapters
<1>2. StageInv /\ PayShInv /\ SimulatedInv /\ InvokedInv /\ NamedInv /\ SettledInv
  BY DEF StageInv, PayShInv, SimulatedInv, InvokedInv, NamedInv, SettledInv, Adapters
<1>3. SentInv /\ HonestIsReported
  BY DEF SentInv, Sent, Later, HonestIsReported
<1>4. QED
  BY <1>1, <1>2, <1>3 DEF IInv

(* What depends on the answers, the request and the signed offer only. *)
LEMMA Frame ==
  ASSUME UNCHANGED <<adapter, offered, answer>>
  PROVE  /\ Readable' = Readable
         /\ PayShRequest(answer)' = PayShRequest(answer)
         /\ UNCHANGED <<Requirement, Mode>>
         /\ UNCHANGED request => Permitted' = Permitted
         /\ UNCHANGED <<request, signed>> =>
              Evaluated' = Evaluated /\ \A tx : IsPayment(tx) => IsPayment(tx)'
         /\ UNCHANGED <<request, ledger, report, slot>> => Confirmed' = Confirmed
<1>1. Readable' = Readable
  BY DEF Readable
<1>2. UNCHANGED <<Requirement, Mode>> /\ PayShRequest(answer)' = PayShRequest(answer)
  BY DEF Requirement, Mode
<1>3. UNCHANGED request => Permitted' = Permitted
  BY DEF Permitted
<1>4. UNCHANGED <<request, signed>> => Evaluated' = Evaluated
  BY <1>1, <1>2, <1>3 DEF Evaluated
<1>5. UNCHANGED <<request, signed>> => \A tx : IsPayment(tx) => IsPayment(tx)'
  BY <1>2 DEF IsPayment
<1>6. UNCHANGED <<request, ledger, report, slot>> => Confirmed' = Confirmed
  BY <1>2 DEF Confirmed, Named
<1>7. QED
  BY <1>1, <1>2, <1>3, <1>4, <1>5, <1>6

(* The actions before anything is sent. *)
LEMMA EarlyStep ==
  ASSUME IInv, ProtocolFailure \/ Build \/ DecideBlock \/ DecideAllow \/ RejectMismatch
  PROVE  IInv'
<1> USE DEF Goto, End
<1> USE DEF IInv, TypeInv, StageInv, PayShInv, SentInv, Sent, Later, SimulatedInv, InvokedInv,
        NamedInv, SettledInv, HonestIsReported, Steps, Adapters
<1>1. CASE ProtocolFailure
  BY <1>1, Frame DEF ProtocolFailure
<1>2. CASE Build
  <2>1. adapter = "paysh" => request' = PayShRequest(answer)
    BY <1>2 DEF Build, Buildable
  <2>2. QED
    BY <1>2, <2>1, Frame DEF Build
<1>3. CASE DecideBlock
  BY <1>3, Frame DEF DecideBlock
<1>4. CASE DecideAllow
  BY <1>4, Frame DEF DecideAllow
<1>5. CASE RejectMismatch
  BY <1>5, Frame DEF RejectMismatch
<1>6. QED
  BY <1>1, <1>2, <1>3, <1>4, <1>5

(* The offer of a requirement that parses has a bounded, positive amount. *)
LEMMA OfferAmount ==
  ASSUME Readable, adapter # "paysh"
  PROVE  /\ Requirement.accepted.amount \in 0..(10 ^ MaxDigits - 1)
         /\ Requirement.accepted.amount \in Nat \ {0}
<1>1. Requirement.accepted = Supported(offered)[1]
  BY DEF Requirement, X402Requirement
<1>2. Requirement.accepted.amount \in 1..(10 ^ MaxDigits - 1)
  BY <1>1 DEF Readable, X402Parses, Payable
<1>3. 10 ^ MaxDigits \in Nat
  BY AmountsAssumption
<1>4. QED
  BY <1>2, <1>3

LEMMA ExecuteStep ==
  ASSUME IInv, Execute
  PROVE  IInv'
<1>1. /\ adapter = "live" /\ step = "live" /\ step' = "facilitator" /\ Readable /\ Permitted
      /\ verdict = "none" /\ verdict' = "none"
      /\ Matches(Requirement, request, Mode)
      /\ signed' = Requirement.accepted
      /\ invoked' = TRUE
      /\ UNCHANGED <<adapter, offered, answer, request, report, slot>>
  BY DEF Execute, Goto, IInv, TypeInv, StageInv, Adapters
<1>2. PICK payment \in Payments : ledger' = [ledger EXCEPT !["payment"] = payment]
  BY DEF Execute
<1>3. PICK to \in DOMAIN OwnerOf \ {PayerAccount} :
        /\ OwnerOf[to] = Requirement.recipient
        /\ payment.changes = [x \in {PayerAccount, to} |->
             IF x = to THEN Requirement.accepted.amount ELSE -Requirement.accepted.amount]
        /\ payment.handedOver = {}
        /\ PayerAccount \notin payment.opened /\ to \notin payment.closed
        /\ payment = [changes |-> payment.changes, opened |-> payment.opened,
                      closed |-> payment.closed, handedOver |-> payment.handedOver,
                      failed |-> payment.failed, slot |-> payment.slot]
  <2>1. PICK to \in PayeeAccounts, o \in {{}, PayeeAccounts}, c \in {{}, {PayerAccount}},
             f \in BOOLEAN :
          payment = [changes |-> ChangesTo(to), opened |-> o, closed |-> c,
                     handedOver |-> {}, failed |-> f, slot |-> 1]
    BY DEF Payments
  <2>2. /\ to \in DOMAIN OwnerOf \ {PayerAccount} /\ OwnerOf[to] = Requirement.recipient
        /\ PayerAccount \notin o /\ to \notin c
    BY <2>1 DEF PayeeAccounts
  <2>3. QED
    BY <2>1, <2>2 DEF ChangesTo
<1>4. Requirement.accepted.amount \in Nat
  BY <1>1, OfferAmount
<1>5. \A a \in Touched(payment) : Moved(payment, a) \in Int
  BY <1>3, <1>4 DEF Touched, Moved
<1>6. "payment" \in DOMAIN ledger /\ DOMAIN ledger = DOMAIN Earlier
  BY PurchaseAssumption DEF IInv, TypeInv
<1>7. DOMAIN ledger' = DOMAIN ledger /\ ledger'["payment"] = payment
  BY <1>2, <1>6
<1>8. \A s \in DOMAIN Earlier : s # "payment" => ledger'[s] = ledger[s]
  BY <1>2, <1>6
<1>9. TypeInv'
  BY <1>1, <1>5, <1>6, <1>7, <1>8 DEF IInv, TypeInv, Steps
<1>10. Evaluated'
  BY <1>1, Frame DEF Evaluated
<1>11. IsPayment(payment)'
  BY <1>1, <1>3, Frame DEF IsPayment
<1>12. SentInv'
  BY <1>1, <1>7, <1>10, <1>11 DEF SentInv
<1>13. (StageInv /\ PayShInv /\ SimulatedInv /\ InvokedInv /\ NamedInv /\ SettledInv)'
  BY <1>1, Frame
     DEF StageInv, PayShInv, SimulatedInv, InvokedInv, NamedInv, SettledInv, Adapters
<1>14. HonestIsReported'
  BY <1>1 DEF HonestIsReported
<1>15. QED
  BY <1>9, <1>12, <1>13, <1>14 DEF IInv

(* The other actions of the adapters. *)
LEMMA AdapterStep ==
  ASSUME IInv, Simulate \/ FailToExecute \/ CommandReturns \/ CommandFails
  PROVE  IInv'
<1> USE DEF Goto, End
<1> USE DEF IInv, TypeInv, StageInv, PayShInv, SentInv, Sent, Later, SimulatedInv, InvokedInv,
        NamedInv, SettledInv, HonestIsReported, Steps, Adapters
<1>1. CASE Simulate
  <2>1. adapter = "simulated" /\ Readable /\ Permitted /\ Matches(Requirement, request, Mode)
    BY <1>1 DEF Simulate
  <2>2. verdict' = "SETTLED" => signed' = Requirement.accepted
    BY <1>1 DEF Simulate, ValidSignature
  <2>3. verdict' = "SETTLED" => Evaluated'
    BY <1>1, <2>1, <2>2, Frame DEF Simulate, Evaluated
  <2>4. verdict' \in {"SETTLED", "REFUSED"}
    BY <1>1 DEF Simulate
  <2>5. QED
    BY <1>1, <2>1, <2>3, <2>4, Frame DEF Simulate
<1>2. CASE FailToExecute
  BY <1>2, Frame DEF FailToExecute
<1>3. CASE CommandReturns
  BY <1>3, Frame DEF CommandReturns
<1>4. CASE CommandFails
  BY <1>4, Frame DEF CommandFails
<1>5. QED
  BY <1>1, <1>2, <1>3, <1>4

(* The facilitator, the node and the command's failures end a purchase as it is. *)
LEMMA OutsideStep ==
  ASSUME IInv, FacilitatorReports \/ FacilitatorFails \/ ReadStatus \/ RpcFails
  PROVE  IInv'
<1> USE DEF Goto, End
<1> USE DEF IInv, TypeInv, StageInv, PayShInv, SentInv, Sent, Later, SimulatedInv, InvokedInv,
        NamedInv, SettledInv, HonestIsReported, Steps, Adapters
<1>1. CASE FacilitatorReports
  BY <1>1, Frame DEF FacilitatorReports
<1>2. CASE FacilitatorFails
  BY <1>2, Frame DEF FacilitatorFails
<1>3. CASE ReadStatus
  BY <1>3, Frame DEF ReadStatus, Named
<1>4. CASE RpcFails
  BY <1>4, Frame DEF RpcFails
<1>5. QED
  BY <1>1, <1>2, <1>3, <1>4

(* An honest report of a payment that landed passes all the comparisons. *)
LEMMA HonestPasses ==
  ASSUME IInv, Sent, report.signature = "payment", slot = 1,
         ~ledger["payment"].failed, ledger["payment"].slot = 1
  PROVE  Confirmed
<1>1. Evaluated /\ IsPayment(ledger["payment"]) /\ adapter = "live"
  BY DEF IInv, SentInv
<1>2. signed = Requirement.accepted /\ signed.amount \in Nat \ {0}
  BY <1>1, OfferAmount DEF Evaluated
<1>3. request.recipient = Requirement.recipient
  BY <1>1 DEF Evaluated, Matches, SameTerms
<1>4. PICK to \in DOMAIN OwnerOf :
        /\ to # PayerAccount /\ OwnerOf[to] = Requirement.recipient
        /\ ledger["payment"].changes = [x \in {PayerAccount, to} |->
             IF x = to THEN signed.amount ELSE -signed.amount]
        /\ ledger["payment"].handedOver = {}
        /\ PayerAccount \notin ledger["payment"].opened /\ to \notin ledger["payment"].closed
  BY <1>1 DEF IsPayment
<1>5. OwnerOf[PayerAccount] = "payer"
  BY PurchaseAssumption
<1>6. ShowsTransfer(ledger["payment"], "payer", OwnerOf[to], signed.amount)
  BY <1>2, <1>4, <1>5, PaymentIsShown
<1>7. QED
  BY <1>2, <1>3, <1>4, <1>6 DEF Confirmed, Confirms, Named

(* The comparison fails an honest report for the spelling of the amount only. *)
LEMMA HonestCompares ==
  ASSUME Evaluated, report.payer = "payer", report.amount = signed.amount, ~signed.padded
  PROVE  Compares
BY DEF Compares, Evaluated, Matches, SameTerms, Requirement, X402Requirement

LEMMA RefusalStep ==
  ASSUME IInv, StatusRefused \/ ReadTransaction \/ TransactionRefused \/ Compare
  PROVE  IInv'
<1> USE DEF Goto, End
<1> USE DEF IInv, TypeInv, StageInv, PayShInv, SentInv, Sent, Later, SimulatedInv, InvokedInv,
        NamedInv, SettledInv, Steps, Adapters
<1>1. CASE StatusRefused
  <2>1. HonestIsReported'
    BY <1>1 DEF StatusRefused, HonestIsReported, Named
  <2>2. QED
    BY <1>1, <2>1, Frame DEF StatusRefused
<1>2. CASE ReadTransaction
  BY <1>2, Frame DEF ReadTransaction, HonestIsReported
<1>3. CASE TransactionRefused
  <2>1. ~(report.signature = "payment" /\ ~ledger["payment"].failed /\ ledger["payment"].slot = 1)
    BY <1>3, HonestPasses DEF TransactionRefused
  <2>2. HonestIsReported'
    BY <1>3, <2>1 DEF TransactionRefused, HonestIsReported
  <2>3. QED
    BY <1>3, <2>2, Frame DEF TransactionRefused
<1>4. CASE Compare
  <2>1. HonestIsReported'
    BY <1>4, HonestCompares DEF Compare, HonestIsReported
  <2>2. QED
    BY <1>4, <2>1, Frame DEF Compare
<1>5. QED
  BY <1>1, <1>2, <1>3, <1>4

(* The payment lands again: what it moves and for whom stays. *)
LEMMA ForkStep ==
  ASSUME IInv, Fork
  PROVE  IInv'
<1>1. /\ step = "transaction" /\ ledger["payment"].slot = 1
      /\ UNCHANGED <<adapter, offered, answer, step, request, invoked, signed, report, slot,
                     verdict>>
  BY DEF Fork
<1>2. PICK failed \in BOOLEAN :
        ledger' = [ledger EXCEPT !["payment"].slot = 2, !["payment"].failed = failed]
  BY DEF Fork
<1> DEFINE tx == ledger["payment"]
<1>3. "payment" \in DOMAIN ledger /\ DOMAIN ledger = DOMAIN Earlier
  BY PurchaseAssumption DEF IInv, TypeInv
<1>4. ledger' = [ledger EXCEPT !["payment"] = [[tx EXCEPT !.slot = 2] EXCEPT !.failed = failed]]
  BY <1>2, <1>3
<1>5. /\ DOMAIN ledger' = DOMAIN ledger
      /\ \A s \in DOMAIN ledger : s # "payment" => ledger'[s] = ledger[s]
      /\ ledger'["payment"] = [[tx EXCEPT !.slot = 2] EXCEPT !.failed = failed]
  BY <1>3, <1>4
<1>6. /\ Evaluated /\ IsPayment(tx) /\ adapter = "live"
      /\ Evaluated' = Evaluated
      /\ UNCHANGED Requirement
  BY <1>1, Frame DEF IInv, SentInv, Sent, Later
<1>7. tx = [changes |-> tx.changes, opened |-> tx.opened, closed |-> tx.closed,
            handedOver |-> tx.handedOver, failed |-> tx.failed, slot |-> tx.slot]
  BY <1>6 DEF IsPayment
<1> HIDE DEF tx
<1>8. ledger'["payment"] = [tx EXCEPT !.slot = 2, !.failed = failed]
  BY <1>5
<1>9. ledger'["payment"] =
        [changes |-> tx.changes, opened |-> tx.opened, closed |-> tx.closed,
         handedOver |-> tx.handedOver, failed |-> failed, slot |-> 2]
  BY <1>7, <1>8
<1>10. TypeInv'
  <2>1. \A a \in Touched(ledger'["payment"]) : Moved(ledger'["payment"], a) \in Int
    BY <1>3, <1>9 DEF Touched, Moved, tx, IInv, TypeInv
  <2>2. QED
    BY <1>1, <1>3, <1>5, <2>1 DEF IInv, TypeInv
<1>11. IsPayment(ledger'["payment"])
  BY <1>6, <1>9 DEF IsPayment
<1>12. SentInv'
  BY <1>1, <1>6, <1>11, Frame DEF SentInv, IsPayment
<1>13. NamedInv'
  BY <1>1, <1>9 DEF NamedInv, IInv
<1>14. (StageInv /\ PayShInv /\ SimulatedInv /\ InvokedInv /\ SettledInv)'
  BY <1>1, Frame DEF IInv, TypeInv, StageInv, PayShInv, SimulatedInv, InvokedInv, SettledInv,
                     Adapters
<1>15. HonestIsReported'
  BY <1>1 DEF IInv, TypeInv, HonestIsReported
<1>16. QED
  BY <1>10, <1>12, <1>13, <1>14, <1>15 DEF IInv

LEMMA Inductive == IInv /\ [Next]_vars => IInv'
<1> SUFFICES ASSUME IInv, [Next]_vars
             PROVE  IInv'
  OBVIOUS
<1>1. CASE Next
  BY <1>1, EarlyStep, ExecuteStep, AdapterStep, OutsideStep, RefusalStep, ForkStep DEF Next
<1>2. CASE UNCHANGED vars
  <2>1. UNCHANGED <<adapter, offered, answer, step, request, invoked, signed, ledger, report,
                    slot, verdict>>
    BY <1>2 DEF vars
  <2>2. (TypeInv /\ StageInv /\ PayShInv /\ SimulatedInv /\ InvokedInv)'
    BY <2>1, Frame DEF IInv, TypeInv, StageInv, PayShInv, SimulatedInv, InvokedInv
  <2>3. (SentInv /\ NamedInv /\ SettledInv /\ HonestIsReported)'
    BY <2>1, Frame DEF IInv, SentInv, Sent, NamedInv, SettledInv, HonestIsReported
  <2>4. QED
    BY <2>2, <2>3 DEF IInv
<1>3. QED
  BY <1>1, <1>2

LEMMA Invariant == Spec => []IInv
BY InitInv, Inductive, PTL DEF Spec

-----------------------------------------------------------------------------
(***************************************************************************)
(* What is signed is the one supported offer of the answer that was        *)
(* evaluated, in its mode and within the mandate, and the rounding that    *)
(* lies between the two amounts is no more than half of the last digit it  *)
(* keeps (x402.py:126-149, contracts.py:79).                               *)
(***************************************************************************)
THEOREM SignedIsEvaluated == Spec => []SignedAsEvaluated
<1>1. IInv => SignedAsEvaluated
  <2> SUFFICES ASSUME IInv,
                      (adapter = "live" /\ signed # Nothing)
                        \/ (adapter = "simulated" /\ verdict = "SETTLED")
               PROVE  /\ Supported(request.answer) = <<signed>>
                      /\ request.mode = Mode
                      /\ Permitted
                      /\ 2 * Distance(signed.amount, request.amount) <= Ulp(signed.amount)
    BY Zenon DEF SignedAsEvaluated
  <2>1. Evaluated /\ adapter # "paysh"
    BY DEF IInv, SentInv, Sent, SimulatedInv
  <2>2. /\ request.answer = offered /\ request.mode = Mode /\ Permitted
        /\ signed = Supported(offered)[1]
        /\ request.amount = Rounded(signed.amount)
    BY <2>1 DEF Evaluated, Matches, SameTerms, Requirement, X402Requirement
  <2>3. Len(Supported(offered)) = 1
    BY <2>1 DEF Evaluated, Readable, X402Parses
  <2>4. Supported(offered) = <<Supported(offered)[1]>>
    BY <2>3 DEF Supported
  <2>5. signed.amount \in 0..(10 ^ MaxDigits - 1)
    BY <2>1, OfferAmount DEF Evaluated
  <2>6. QED
    BY <2>2, <2>4, <2>5, RoundedIsNear
<1>2. QED
  BY <1>1, Invariant, PTL

(***************************************************************************)
(* A live settlement is reported for a transaction that succeeded in one   *)
(* consistent view and moved exactly the signed amount from the payer to   *)
(* the decided recipient (x402_live.py:151-170, devnet_rpc.py:160-231).    *)
(***************************************************************************)
THEOREM SettledIsDecided == Spec => []SettledAsDecided
<1>1. IInv => SettledAsDecided
  <2> SUFFICES ASSUME IInv, adapter = "live", verdict = "SETTLED"
               PROVE  /\ ~Named.failed /\ Named.slot = slot
                      /\ \E a \in Touched(Named) :
                           OwnerOf[a] = "payer" /\ Moved(Named, a) = -signed.amount
                      /\ \E a \in Touched(Named) :
                           OwnerOf[a] = request.recipient /\ Moved(Named, a) = signed.amount
    BY Zenon DEF SettledAsDecided
  <2>1. Evaluated /\ Confirmed /\ report.signature \in DOMAIN Earlier
    BY DEF IInv, SentInv, Sent, SettledInv
  <2>2. signed = Requirement.accepted /\ signed.amount \in Nat \ {0}
    BY <2>1, OfferAmount DEF Evaluated
  <2>3. request.recipient # "somebody"
    BY <2>1, PurchaseAssumption DEF Evaluated, Permitted
  <2>4. \A a \in Touched(Named) : Moved(Named, a) \in Int
    BY <2>1 DEF Named, IInv, TypeInv
  <2>5. /\ ~Named.failed /\ Named.slot = slot
        /\ ShowsTransfer(Named, "payer", request.recipient, signed.amount)
    BY <2>1, <2>2 DEF Confirmed, Confirms
  <2>6. /\ Cardinality(Matching(PreBalances(Named), PostBalances(Named),
                                "payer", -signed.amount)) = 1
        /\ Cardinality(Matching(PreBalances(Named), PostBalances(Named),
                                request.recipient, signed.amount)) = 1
    BY <2>5 DEF ShowsTransfer
  <2>7. \E a \in Touched(Named) : OwnerOf[a] = "payer" /\ Moved(Named, a) = -signed.amount
    <3>1. -signed.amount \in Int /\ "payer" # "somebody"
      BY <2>2
    <3>2. QED
      BY <2>4, <2>6, <3>1, ShownHasMoved
  <2>8. \E a \in Touched(Named) :
          OwnerOf[a] = request.recipient /\ Moved(Named, a) = signed.amount
    <3>1. signed.amount \in Int
      BY <2>2
    <3>2. QED
      BY <2>3, <2>4, <2>6, <3>1, ShownHasMoved
  <2>9. QED
    BY <2>5, <2>7, <2>8
<1>2. QED
  BY <1>1, Invariant, PTL

(***************************************************************************)
(* An honest report of a payment that landed is refused for the spelling   *)
(* of the amount only, whatever accounts the payment opens or empties and  *)
(* whatever rounding does to its amount (x402_live.py:154-166).            *)
(***************************************************************************)
THEOREM HonestyIsReported == Spec => []HonestIsReported
<1>1. IInv => HonestIsReported
  BY DEF IInv
<1>2. QED
  BY <1>1, Invariant, PTL

(***************************************************************************)
(* What is rejected before the guard calls nothing and leaves the chain    *)
(* alone, and what was called was called for a permitted request in time   *)
(* (x402.py:293, x402_live.py:148, paysh.py:91).                           *)
(***************************************************************************)
THEOREM RefusalTouchesNothing == Spec => []RefusedTouchesNothing
<1>1. IInv => RefusedTouchesNothing
  <2> SUFFICES ASSUME IInv
               PROVE  RefusedTouchesNothing
    OBVIOUS
  <2>1. invoked /\ adapter = "paysh" => request.expires > 0
    <3>1. invoked => step # "answered" /\ verdict # "PROTOCOL_FAILURE" /\ Readable
      BY DEF IInv, StageInv, InvokedInv
    <3>2. adapter = "paysh" /\ Readable => answer.expires > 0
      BY DEF Readable, MayAnswer
    <3>3. PayShRequest(answer).expires = answer.expires
      BY DEF PayShRequest
    <3>4. QED
      BY <3>1, <3>2, <3>3 DEF IInv, PayShInv
  <2>2. QED
    BY <2>1 DEF RefusedTouchesNothing, IInv, InvokedInv
<1>2. QED
  BY <1>1, Invariant, PTL

-----------------------------------------------------------------------------
(* The texts of metadata. *)

(***************************************************************************)
(* The words of a redacted text, one after the other: what the recursive   *)
(* definition stands for. There is such a function up to every number,     *)
(* which is all that its definition needs.                                 *)
(***************************************************************************)
LEMMA RedactedUnfolds ==
  ASSUME NEW words, Len(words) \in Nat
  PROVE  \E done :
           /\ done[0] = <<>>
           /\ \A i \in 1..Len(words) :
                done[i] = IF i > 1 /\ words[i - 1] = "sec" /\ words[i] = "ret"
                          THEN Append(Front(done[i - 1]), "[REDACTED]")
                          ELSE Append(done[i - 1], words[i])
           /\ Redacted(words) = done[Len(words)]
<1> DEFINE n == Len(words)
           Step(i, s) == IF i > 1 /\ words[i - 1] = "sec" /\ words[i] = "ret"
                         THEN Append(Front(s), "[REDACTED]") ELSE Append(s, words[i])
           Folds(f, m) == f = [i \in 0..m |-> IF i = 0 THEN <<>> ELSE Step(i, f[i - 1])]
           good == {m \in 0..n : \E f : Folds(f, m)}
<1>1. \E f : Folds(f, n)
  <2> HIDE DEF Step
  <2>1. \E f : Folds(f, 0)
    <3>1. Folds([i \in 0..0 |-> <<>>], 0)
      OBVIOUS
    <3>2. QED
      BY <3>1
  <2>2. ASSUME NEW m \in 1..n, NEW f, Folds(f, m - 1)
        PROVE  \E g : Folds(g, m)
    <3> DEFINE g == [i \in 0..m |-> IF i = m THEN Step(m, f[m - 1]) ELSE f[i]]
    <3>1. Folds(g, m)
      BY <2>2
    <3>2. QED
      BY <3>1
  <2> HIDE DEF Folds
  <2>3. 0 \in good /\ \A m \in 1..n : m - 1 \in good => m \in good
    BY <2>1, <2>2
  <2>4. good = 0..n
    <3> HIDE DEF good
    <3> QED
      BY <2>3, CountingUp DEF good
  <2>5. QED
    BY <2>4
<1>2. PICK done : Folds(done, n)
  BY <1>1
<1> DEFINE chosen == CHOOSE f : Folds(f, n)
<1>3. Folds(chosen, n)
  BY <1>2
<1>4. Redacted(words) = chosen[n]
  BY DEF Redacted
<1>5. chosen[0] = <<>> /\ \A i \in 1..n : chosen[i] = Step(i, chosen[i - 1])
  <2> HIDE DEF Step, chosen
  <2> QED
    BY <1>3
<1>6. QED
  <2> HIDE DEF chosen
  <2> QED
    BY <1>4, <1>5

(* What was appended is what the front leaves out. *)
LEMMA FrontOfAppend ==
  ASSUME NEW S, NEW s \in Seq(S), NEW e \in S
  PROVE  Front(Append(s, e)) = s
<1>1. /\ Append(s, e) \in Seq(S) /\ Len(Append(s, e)) = Len(s) + 1
      /\ \A i \in 1..Len(s) : Append(s, e)[i] = s[i]
  BY AppendProperties
<1>2. Len(s) \in Nat
  BY LenProperties
<1>3. Front(Append(s, e)) = SubSeq(Append(s, e), 1, Len(s))
  BY <1>1, <1>2 DEF Front
<1>4. \A i \in 1..Len(s) : Append(s, e)[i] \in S
  BY <1>1, ElementOfSeq
<1>5. /\ SubSeq(Append(s, e), 1, Len(s)) \in Seq(S)
      /\ Len(SubSeq(Append(s, e), 1, Len(s))) = IF 1 <= Len(s) THEN Len(s) - 1 + 1 ELSE 0
      /\ \A i \in 1..(Len(s) - 1 + 1) :
           SubSeq(Append(s, e), 1, Len(s))[i] = Append(s, e)[1 + i - 1]
  BY <1>2, <1>4, SubSeqProperties
<1>6. Len(SubSeq(Append(s, e), 1, Len(s))) = Len(s)
  BY <1>2, <1>5
<1>7. \A i \in 1..Len(s) : SubSeq(Append(s, e), 1, Len(s))[i] = s[i]
  BY <1>1, <1>2, <1>5
<1>8. QED
  BY <1>3, <1>5, <1>6, <1>7, SeqEqual

(* the words that the sanitizer writes, and all that a copy may show *)
Marks == {"[REDACTED]", "[TRUNCATED]", "_redacted", "_redacted_key"}

Plain == (Words \cup Marks) \ {"sec", "ret"}

(***************************************************************************)
(* No half of a secret is left: the word before a second half is a first   *)
(* half, and the mark takes the place of both.                             *)
(***************************************************************************)
LEMMA RedactedClean ==
  ASSUME NEW words, IsText(words)
  PROVE  Redacted(words) \in Seq(Plain)
<1> DEFINE n == Len(words)
<1>1. /\ words \in Seq(Words) /\ n \in Nat /\ DOMAIN words = 1..n
      /\ \A i \in 1..n : words[i] \in Words
  BY LenProperties, ElementOfSeq DEF IsText
<1>2. PICK done :
        /\ done[0] = <<>>
        /\ \A i \in 1..n :
             done[i] = IF i > 1 /\ words[i - 1] = "sec" /\ words[i] = "ret"
                       THEN Append(Front(done[i - 1]), "[REDACTED]")
                       ELSE Append(done[i - 1], words[i])
        /\ Redacted(words) = done[n]
  BY <1>1, RedactedUnfolds
<1> DEFINE Opens(i) == i > 0 /\ words[i] = "sec"
           Good(i) == IF Opens(i) THEN \E s \in Seq(Plain) : done[i] = Append(s, "sec")
                      ELSE done[i] \in Seq(Plain)
           good == {i \in 0..n : Good(i)}
<1>3. \A i \in 1..n :
        /\ words[i] = "sec" => i + 1 \in 1..n /\ words[i + 1] = "ret"
        /\ words[i] = "ret" => i - 1 \in 1..n /\ words[i - 1] = "sec"
  BY <1>1 DEF IsText, Whole
<1>4. Good(0)
  BY <1>2, EmptySeq
<1>5. ASSUME NEW i \in 1..n, Good(i - 1)
      PROVE  Good(i)
  <2>1. CASE i > 1 /\ words[i - 1] = "sec" /\ words[i] = "ret"
    <3>1. PICK s \in Seq(Plain) : done[i - 1] = Append(s, "sec")
      BY <1>5, <2>1
    <3>2. Front(done[i - 1]) = s
      <4>1. s \in Seq(Plain \cup {"sec"}) /\ "sec" \in Plain \cup {"sec"}
        BY SeqMonotonic
      <4>2. QED
        BY <3>1, <4>1, FrontOfAppend
    <3>3. done[i] = Append(s, "[REDACTED]")
      BY <1>2, <2>1, <3>2
    <3>4. "[REDACTED]" \in Plain
      BY DEF Plain, Marks
    <3>5. Append(s, "[REDACTED]") \in Seq(Plain)
      BY <3>4, AppendProperties
    <3>6. QED
      BY <2>1, <3>3, <3>5
  <2>2. CASE ~(i > 1 /\ words[i - 1] = "sec" /\ words[i] = "ret")
    <3>1. ~Opens(i - 1) /\ words[i] # "ret"
      BY <1>1, <1>3, <2>2
    <3>2. done[i - 1] \in Seq(Plain)
      BY <1>5, <3>1
    <3>3. done[i] = Append(done[i - 1], words[i])
      BY <1>2, <2>2
    <3>4. CASE words[i] = "sec"
      BY <3>2, <3>3, <3>4
    <3>5. CASE words[i] # "sec"
      <4>1. words[i] \in Plain
        BY <1>1, <3>1, <3>5 DEF Plain, Words
      <4>2. Append(done[i - 1], words[i]) \in Seq(Plain)
        BY <3>2, <4>1, AppendProperties
      <4>3. QED
        BY <3>3, <3>5, <4>2
    <3>6. QED
      BY <3>4, <3>5
  <2>3. QED
    BY <2>1, <2>2
<1>6. good = 0..n
  <2> HIDE DEF Good
  <2>1. 0 \in good /\ \A i \in 1..n : i - 1 \in good => i \in good
    BY <1>1, <1>4, <1>5
  <2>2. good \in SUBSET (0..n)
    OBVIOUS
  <2> HIDE DEF good
  <2>3. QED
    BY <1>1, <2>1, <2>2, CountingUp
<1>7. ~Opens(n)
  BY <1>1, <1>3
<1>8. Good(n)
  <2> HIDE DEF Good
  <2> QED
    BY <1>1, <1>6
<1>9. QED
  BY <1>2, <1>7, <1>8

(* A cut keeps the beginning, up to its length. *)
LEMMA CutIsPrefix ==
  ASSUME NEW S, NEW s \in Seq(S), NEW length \in Nat
  PROVE  /\ Cut(s, length) \in Seq(S)
         /\ Len(Cut(s, length)) = IF Len(s) > length THEN length ELSE Len(s)
         /\ \A i \in 1..Len(Cut(s, length)) : Cut(s, length)[i] = s[i]
<1>1. Len(s) \in Nat /\ \A i \in 1..Len(s) : s[i] \in S
  BY LenProperties, ElementOfSeq
<1>2. CASE Len(s) > length
  <2>1. \A i \in 1..length : s[i] \in S
    BY <1>1, <1>2
  <2>2. /\ SubSeq(s, 1, length) \in Seq(S)
        /\ Len(SubSeq(s, 1, length)) = IF 1 <= length THEN length - 1 + 1 ELSE 0
        /\ \A i \in 1..(length - 1 + 1) : SubSeq(s, 1, length)[i] = s[1 + i - 1]
    BY <2>1, SubSeqProperties
  <2>3. /\ SubSeq(s, 1, length) \in Seq(S)
        /\ Len(SubSeq(s, 1, length)) = length
        /\ \A i \in 1..length : SubSeq(s, 1, length)[i] = s[i]
    BY <2>2
  <2>4. Cut(s, length) = SubSeq(s, 1, length)
    BY <1>2 DEF Cut
  <2>5. QED
    BY <1>2, <2>3, <2>4
<1>3. CASE ~(Len(s) > length)
  BY <1>1, <1>3 DEF Cut
<1>4. QED
  BY <1>2, <1>3

-----------------------------------------------------------------------------
(* Keys. *)

IsKey(key) == key \in Seq(Plain) /\ (MaxLength > 1 => Len(key) <= MaxLength)

(***************************************************************************)
(* A safe key shows nothing, is no longer than the bound allows, suffix    *)
(* included, and is the key itself when it is free and nothing was         *)
(* reported.                                                               *)
(***************************************************************************)
LEMMA SafeKeyIsKey ==
  ASSUME NEW key, IsText(key), NEW i \in 0..(MaxItems - 1), NEW taken
  PROVE  /\ IsKey(SafeKey(key, i, taken))
         /\ KeyReports(key, i) = {} /\ key \notin taken => SafeKey(key, i, taken) = key
<1> DEFINE name == KeyName(key, i)
           short == Cut(name, MaxLength)
           prefix == IF MaxLength > 1 THEN MaxLength - 1 ELSE 1
<1>1. MaxLength \in Nat \ {0} /\ IndexText[i] \in Plain
  BY SanitizerAssumption DEF Plain
<1>2. name \in Seq(Plain)
  <2>1. Redacted(key) \in Seq(Plain)
    BY RedactedClean
  <2>2. "_redacted_key" \in Plain
    BY DEF Plain, Marks
  <2>3. <<"_redacted_key", IndexText[i]>> \in Seq(Plain)
    BY <1>1, <2>2
  <2>4. QED
    BY <2>1, <2>3 DEF KeyName
<1> HIDE DEF name
<1>3. /\ short \in Seq(Plain)
      /\ Len(short) = IF Len(name) > MaxLength THEN MaxLength ELSE Len(name)
  BY <1>1, <1>2, CutIsPrefix
<1>4. Len(name) \in Nat
  BY <1>2, LenProperties
<1> HIDE DEF short
<1>5. Len(short) \in Nat /\ Len(short) <= MaxLength
  BY <1>1, <1>3, <1>4
<1>6. prefix \in Nat /\ (MaxLength > 1 => prefix + 1 <= MaxLength)
  BY <1>1
<1> HIDE DEF prefix
<1>7. /\ Cut(short, prefix) \in Seq(Plain)
      /\ Len(Cut(short, prefix)) = IF Len(short) > prefix THEN prefix ELSE Len(short)
  BY <1>3, <1>6, CutIsPrefix
<1>8. /\ Append(Cut(short, prefix), IndexText[i]) \in Seq(Plain)
      /\ Len(Append(Cut(short, prefix), IndexText[i])) = Len(Cut(short, prefix)) + 1
  BY <1>1, <1>7, AppendProperties
<1>9. Len(Cut(short, prefix)) \in Nat /\ Len(Cut(short, prefix)) <= prefix
  BY <1>5, <1>6, <1>7
<1>10. MaxLength > 1 => Len(Append(Cut(short, prefix), IndexText[i])) <= MaxLength
  BY <1>1, <1>6, <1>8, <1>9
<1>11. SafeKey(key, i, taken) =
         IF short \in taken THEN Append(Cut(short, prefix), IndexText[i]) ELSE short
  BY DEF SafeKey, short, name, prefix
<1>12. IsKey(SafeKey(key, i, taken))
  BY <1>3, <1>5, <1>8, <1>10, <1>11 DEF IsKey
<1>13. ASSUME KeyReports(key, i) = {}
       PROVE  short = key
  <2>1. Redacted(key) = key
    BY <1>13 DEF KeyReports, Hidden
  <2>2. name = key
    BY <2>1 DEF name, KeyName
  <2>3. Exceeds(name, MaxLength, "STRING_LENGTH") = {}
    BY <1>13 DEF KeyReports, name
  <2>4. ~(Len(name) > MaxLength)
    BY <2>3 DEF Exceeds
  <2>5. QED
    BY <2>2, <2>4 DEF short, Cut
<1>14. QED
  BY <1>11, <1>12, <1>13

(* The safe keys, one after the other. *)
LEMMA SafeKeysUnfolds ==
  ASSUME NEW keys, Len(keys) \in Nat
  PROVE  \E named :
           /\ named[0] = <<>>
           /\ \A i \in 1..Len(keys) :
                named[i] = Append(named[i - 1], SafeKey(keys[i], i - 1, Range(named[i - 1])))
           /\ SafeKeys(keys) = named[Len(keys)]
<1> DEFINE n == Len(keys)
           Step(i, s) == Append(s, SafeKey(keys[i], i - 1, Range(s)))
           Folds(f, m) == f = [i \in 0..m |-> IF i = 0 THEN <<>> ELSE Step(i, f[i - 1])]
           good == {m \in 0..n : \E f : Folds(f, m)}
<1>1. \E f : Folds(f, n)
  <2> HIDE DEF Step
  <2>1. \E f : Folds(f, 0)
    <3>1. Folds([i \in 0..0 |-> <<>>], 0)
      OBVIOUS
    <3>2. QED
      BY <3>1
  <2>2. ASSUME NEW m \in 1..n, NEW f, Folds(f, m - 1)
        PROVE  \E g : Folds(g, m)
    <3> DEFINE g == [i \in 0..m |-> IF i = m THEN Step(m, f[m - 1]) ELSE f[i]]
    <3>1. Folds(g, m)
      BY <2>2
    <3>2. QED
      BY <3>1
  <2> HIDE DEF Folds
  <2>3. 0 \in good /\ \A m \in 1..n : m - 1 \in good => m \in good
    BY <2>1, <2>2
  <2>4. good = 0..n
    <3> HIDE DEF good
    <3> QED
      BY <2>3, CountingUp DEF good
  <2>5. QED
    BY <2>4
<1>2. PICK named : Folds(named, n)
  BY <1>1
<1> DEFINE chosen == CHOOSE f : Folds(f, n)
<1>3. Folds(chosen, n)
  BY <1>2
<1>4. SafeKeys(keys) = chosen[n]
  BY DEF SafeKeys
<1>5. chosen[0] = <<>> /\ \A i \in 1..n : chosen[i] = Step(i, chosen[i - 1])
  <2> HIDE DEF Step, chosen
  <2> QED
    BY <1>3
<1>6. QED
  <2> HIDE DEF chosen
  <2> QED
    BY <1>4, <1>5

Keys == {key \in Seq(Plain) : IsKey(key)}

(***************************************************************************)
(* Every key has a safe key in its place; with nothing reported and no key *)
(* listed twice, they are the keys themselves.                             *)
(***************************************************************************)
LEMMA SafeKeysAreKeys ==
  ASSUME NEW S, NEW keys \in Seq(S), Len(keys) <= MaxItems,
         \A key \in S : IsText(key)
  PROVE  /\ SafeKeys(keys) \in Seq(Keys) /\ Len(SafeKeys(keys)) = Len(keys)
         /\ IsInjective(keys) /\ (\A i \in 1..Len(keys) : KeyReports(keys[i], i - 1) = {})
              => \A i \in 1..Len(keys) : SafeKeys(keys)[i] = keys[i]
<1> DEFINE n == Len(keys)
           Kept == IsInjective(keys) /\ \A i \in 1..n : KeyReports(keys[i], i - 1) = {}
<1>1. n \in Nat /\ n <= MaxItems /\ DOMAIN keys = 1..n /\ MaxItems \in Nat
  BY LenProperties, SanitizerAssumption
<1>2. \A i \in 1..n : IsText(keys[i])
  BY ElementOfSeq
<1>3. PICK named :
        /\ named[0] = <<>>
        /\ \A i \in 1..n :
             named[i] = Append(named[i - 1], SafeKey(keys[i], i - 1, Range(named[i - 1])))
        /\ SafeKeys(keys) = named[n]
  BY <1>1, SafeKeysUnfolds
<1> DEFINE Good(i) == /\ named[i] \in Seq(Keys) /\ Len(named[i]) = i
                      /\ Kept => \A j \in 1..i : named[i][j] = keys[j]
           good == {i \in 0..n : Good(i)}
<1>4. Good(0)
  BY <1>3, EmptySeq
<1>5. ASSUME NEW i \in 1..n, Good(i - 1)
      PROVE  Good(i)
  <2> DEFINE before == named[i - 1]
             key == SafeKey(keys[i], i - 1, Range(before))
  <2>1. i - 1 \in 0..(MaxItems - 1) /\ i \in Nat \ {0}
    BY <1>1
  <2>2. IsKey(key) /\ (KeyReports(keys[i], i - 1) = {} /\ keys[i] \notin Range(before) => key = keys[i])
    BY <1>2, <2>1, SafeKeyIsKey
  <2>3. key \in Keys
    BY <2>2 DEF Keys, IsKey
  <2>4. named[i] = Append(before, key)
    BY <1>3
  <2>5. before \in Seq(Keys) /\ Len(before) = i - 1
    BY <1>5
  <2> HIDE DEF key
  <2>6. /\ Append(before, key) \in Seq(Keys) /\ Len(Append(before, key)) = Len(before) + 1
        /\ \A j \in 1..Len(before) : Append(before, key)[j] = before[j]
        /\ Append(before, key)[Len(before) + 1] = key
    BY <2>3, <2>5, AppendProperties
  <2>7. named[i] \in Seq(Keys) /\ Len(named[i]) = i
    BY <2>1, <2>4, <2>5, <2>6
  <2>8. ASSUME Kept
        PROVE  \A j \in 1..i : named[i][j] = keys[j]
    <3>1. \A j \in 1..(i - 1) : before[j] = keys[j]
      BY <1>5, <2>8
    <3>2. keys[i] \notin Range(before)
      <4>1. DOMAIN before = 1..(i - 1)
        BY <2>5, LenProperties
      <4>2. \A j \in 1..(i - 1) : keys[j] # keys[i]
        BY <1>1, <2>1, <2>8 DEF IsInjective
      <4>3. QED
        BY <3>1, <4>1, <4>2 DEF Range
    <3>3. key = keys[i]
      BY <2>2, <2>8, <3>2
    <3>4. QED
      BY <2>1, <2>4, <2>5, <2>6, <3>1, <3>3
  <2>9. QED
    BY <2>7, <2>8
<1>6. good = 0..n
  <2> HIDE DEF Good
  <2>1. 0 \in good /\ \A i \in 1..n : i - 1 \in good => i \in good
    BY <1>1, <1>4, <1>5
  <2>2. good \in SUBSET (0..n)
    OBVIOUS
  <2> HIDE DEF good
  <2>3. QED
    BY <1>1, <2>1, <2>2, CountingUp
<1>7. Good(n)
  <2> HIDE DEF Good
  <2> QED
    BY <1>1, <1>6
<1>8. QED
  BY <1>3, <1>7

(* The sorted keys, one after the other. *)
LEMMA SortedUnfolds ==
  ASSUME NEW keys, Len(KeyOrder) \in Nat
  PROVE  \E listed :
           /\ listed[0] = <<>>
           /\ \A i \in 1..Len(KeyOrder) :
                listed[i] = IF KeyOrder[i] \in keys THEN Append(listed[i - 1], KeyOrder[i])
                            ELSE listed[i - 1]
           /\ Sorted(keys) = listed[Len(KeyOrder)]
<1> DEFINE n == Len(KeyOrder)
           Step(i, s) == IF KeyOrder[i] \in keys THEN Append(s, KeyOrder[i]) ELSE s
           Folds(f, m) == f = [i \in 0..m |-> IF i = 0 THEN <<>> ELSE Step(i, f[i - 1])]
           good == {m \in 0..n : \E f : Folds(f, m)}
<1>1. \E f : Folds(f, n)
  <2> HIDE DEF Step
  <2>1. \E f : Folds(f, 0)
    <3>1. Folds([i \in 0..0 |-> <<>>], 0)
      OBVIOUS
    <3>2. QED
      BY <3>1
  <2>2. ASSUME NEW m \in 1..n, NEW f, Folds(f, m - 1)
        PROVE  \E g : Folds(g, m)
    <3> DEFINE g == [i \in 0..m |-> IF i = m THEN Step(m, f[m - 1]) ELSE f[i]]
    <3>1. Folds(g, m)
      BY <2>2
    <3>2. QED
      BY <3>1
  <2> HIDE DEF Folds
  <2>3. 0 \in good /\ \A m \in 1..n : m - 1 \in good => m \in good
    BY <2>1, <2>2
  <2>4. good = 0..n
    <3> HIDE DEF good
    <3> QED
      BY <2>3, CountingUp DEF good
  <2>5. QED
    BY <2>4
<1>2. PICK listed : Folds(listed, n)
  BY <1>1
<1> DEFINE chosen == CHOOSE f : Folds(f, n)
<1>3. Folds(chosen, n)
  BY <1>2
<1>4. Sorted(keys) = chosen[n]
  BY DEF Sorted
<1>5. chosen[0] = <<>> /\ \A i \in 1..n : chosen[i] = Step(i, chosen[i - 1])
  <2> HIDE DEF Step, chosen
  <2> QED
    BY <1>3
<1>6. QED
  <2> HIDE DEF chosen
  <2> QED
    BY <1>4, <1>5

(* Each of the keys is listed once. *)
LEMMA SortedListsKeys ==
  ASSUME NEW keys \in SUBSET Range(KeyOrder)
  PROVE  /\ Sorted(keys) \in Seq(keys) /\ Range(Sorted(keys)) = keys
         /\ IsInjective(Sorted(keys))
<1> DEFINE n == Len(KeyOrder)
           upTo(i) == {KeyOrder[j] : j \in 1..i} \cap keys
<1>1. n \in Nat /\ DOMAIN KeyOrder = 1..n /\ IsInjective(KeyOrder)
  BY LenProperties, SanitizerAssumption
<1>2. PICK listed :
        /\ listed[0] = <<>>
        /\ \A i \in 1..n :
             listed[i] = IF KeyOrder[i] \in keys THEN Append(listed[i - 1], KeyOrder[i])
                         ELSE listed[i - 1]
        /\ Sorted(keys) = listed[n]
  BY <1>1, SortedUnfolds
<1> DEFINE Good(i) == /\ listed[i] \in Seq(keys) /\ Range(listed[i]) = upTo(i)
                      /\ IsInjective(listed[i])
           good == {i \in 0..n : Good(i)}
<1>3. Good(0)
  <2>1. <<>> \in Seq(keys) /\ DOMAIN <<>> = 1..0
    BY EmptySeq, LenProperties
  <2>2. upTo(0) = {}
    OBVIOUS
  <2>3. Range(<<>>) = {} /\ IsInjective(<<>>)
    BY <2>1 DEF Range, IsInjective
  <2>4. QED
    BY <1>2, <2>1, <2>2, <2>3
<1>4. ASSUME NEW i \in 1..n, Good(i - 1)
      PROVE  Good(i)
  <2> DEFINE before == listed[i - 1]
             key == KeyOrder[i]
  <2>1. before \in Seq(keys) /\ Range(before) = upTo(i - 1) /\ IsInjective(before)
    BY <1>4
  <2>2. key \notin upTo(i - 1)
    BY <1>1 DEF IsInjective
  <2>3. upTo(i) = IF key \in keys THEN upTo(i - 1) \cup {key} ELSE upTo(i - 1)
    <3>1. 1..i = (1..(i - 1)) \cup {i}
      BY <1>1
    <3>2. QED
      BY <3>1
  <2> HIDE DEF upTo
  <2>4. CASE key \notin keys
    BY <1>2, <2>1, <2>3, <2>4
  <2>5. CASE key \in keys
    <3>1. listed[i] = Append(before, key)
      BY <1>2, <2>5
    <3> HIDE DEF key
    <3>2. /\ Append(before, key) \in Seq(keys) /\ Len(Append(before, key)) = Len(before) + 1
          /\ \A j \in 1..Len(before) : Append(before, key)[j] = before[j]
          /\ Append(before, key)[Len(before) + 1] = key
      BY <2>1, <2>5, AppendProperties
    <3>3. /\ Len(before) \in Nat /\ DOMAIN before = 1..Len(before)
          /\ DOMAIN Append(before, key) = 1..(Len(before) + 1)
      BY <2>1, <3>2, LenProperties
    <3>4. Range(Append(before, key)) = Range(before) \cup {key}
      <4>1. 1..(Len(before) + 1) = (1..Len(before)) \cup {Len(before) + 1}
        BY <3>3
      <4>2. Range(before) = {before[j] : j \in 1..Len(before)}
        BY <3>3 DEF Range
      <4>3. Range(Append(before, key)) =
              {Append(before, key)[j] : j \in (1..Len(before)) \cup {Len(before) + 1}}
        BY <3>3, <4>1 DEF Range
      <4>4. QED
        BY <3>2, <4>2, <4>3
    <3>5. key \notin Range(before)
      BY <2>1, <2>2
    <3>6. IsInjective(Append(before, key))
      <4>1. \A j \in 1..Len(before) : before[j] # key
        BY <3>3, <3>5 DEF Range
      <4>2. \A j, k \in 1..Len(before) : before[j] = before[k] => j = k
        BY <2>1, <3>3 DEF IsInjective
      <4>3. \A j \in 1..(Len(before) + 1) : j \in 1..Len(before) \/ j = Len(before) + 1
        BY <3>3
      <4>4. \A j, k \in 1..(Len(before) + 1) :
              Append(before, key)[j] = Append(before, key)[k] => j = k
        BY <3>2, <4>1, <4>2, <4>3
      <4>5. QED
        BY <3>3, <4>4 DEF IsInjective
    <3>7. QED
      BY <2>1, <2>3, <2>5, <3>1, <3>2, <3>4, <3>6
  <2>6. QED
    BY <2>4, <2>5
<1>5. good = 0..n
  <2> HIDE DEF Good
  <2>1. 0 \in good /\ \A i \in 1..n : i - 1 \in good => i \in good
    BY <1>1, <1>3, <1>4
  <2>2. good \in SUBSET (0..n)
    OBVIOUS
  <2> HIDE DEF good
  <2>3. QED
    BY <1>1, <2>1, <2>2, CountingUp
<1>6. Good(n)
  <2> HIDE DEF Good
  <2> QED
    BY <1>1, <1>5
<1>7. upTo(n) = keys
  BY <1>1 DEF Range
<1>8. QED
  BY <1>2, <1>6, <1>7

-----------------------------------------------------------------------------
(* Values. *)

(* A value has one of four kinds. *)
LEMMA ValueKinds ==
  ASSUME NEW value \in Values
  PROVE  value.kind \in {"text", "list", "object", "null"} /\ IsValue(value)
<1>1. IsValue(value)
  BY SanitizerAssumption
<1>2. QED
  BY <1>1 DEF IsValue, Null

(***************************************************************************)
(* What a value is made to, by the levels left. With none left it does not *)
(* depend on the levels below, so the function exists.                     *)
(***************************************************************************)
LEMMA SafeUnfolds ==
  \A left \in 0..MaxDepth :
    Safe[left] = [value \in Values |-> SafeValue(value, left, Safe[left - 1])]
<1> DEFINE First == [value \in Values |-> SafeValue(value, 0, <<>>)]
           Step(i, s) == [value \in Values |-> SafeValue(value, i, s)]
           Folds(f, m) == f = [i \in 0..m |-> Step(i, f[i - 1])]
           Counts(f, m) == f = [i \in 0..m |-> IF i = 0 THEN First ELSE Step(i, f[i - 1])]
           good == {m \in 0..MaxDepth : \E f : Counts(f, m)}
<1>1. MaxDepth \in Nat
  BY SanitizerAssumption
<1>2. \A s : Step(0, s) = First
  <2>1. ASSUME NEW s, NEW value \in Values
        PROVE  SafeValue(value, 0, s) = SafeValue(value, 0, <<>>)
    <3>1. value.kind \in {"text", "list", "object", "null"}
      BY ValueKinds
    <3>2. QED
      BY <3>1 DEF SafeValue
  <2>2. QED
    BY <2>1
<1> HIDE DEF Step, First
<1>3. \E f : Counts(f, MaxDepth)
  <2>1. \E f : Counts(f, 0)
    <3>1. Counts([i \in 0..0 |-> First], 0)
      OBVIOUS
    <3>2. QED
      BY <3>1
  <2>2. ASSUME NEW m \in 1..MaxDepth, NEW f, Counts(f, m - 1)
        PROVE  \E g : Counts(g, m)
    <3> DEFINE g == [i \in 0..m |-> IF i = m THEN Step(m, f[m - 1]) ELSE f[i]]
    <3>1. Counts(g, m)
      BY <1>1, <2>2
    <3>2. QED
      BY <3>1
  <2> HIDE DEF Counts
  <2>3. 0 \in good /\ \A m \in 1..MaxDepth : m - 1 \in good => m \in good
    BY <1>1, <2>1, <2>2
  <2>4. good = 0..MaxDepth
    <3> HIDE DEF good
    <3> QED
      BY <1>1, <2>3, CountingUp DEF good
  <2>5. QED
    BY <1>1, <2>4
<1>4. PICK f : Counts(f, MaxDepth)
  BY <1>3
<1>5. Folds(f, MaxDepth)
  <2>1. \A i \in 0..MaxDepth : (IF i = 0 THEN First ELSE Step(i, f[i - 1])) = Step(i, f[i - 1])
    BY <1>2
  <2>2. QED
    BY <1>4, <2>1
<1> DEFINE chosen == CHOOSE h : Folds(h, MaxDepth)
<1>6. Folds(chosen, MaxDepth)
  BY <1>5
<1>7. Safe = chosen
  BY DEF Safe, Step
<1>8. \A left \in 0..MaxDepth : chosen[left] = Step(left, chosen[left - 1])
  <2> HIDE DEF chosen
  <2> QED
    BY <1>6
<1>9. QED
  <2> HIDE DEF chosen
  <2> QED
    BY <1>7, <1>8 DEF Step

(* What may stand in a copy where so many levels are left; where none is   *)
(* left only the mark may.                                                 *)
Copies(left) ==
  {Mark} \cup (IF left < 0 THEN {}
               ELSE {MarkObject} \cup {Safe[left][value].value : value \in Values})

HoldsCopies(part, left) ==
  \/ part = Null
  \/ \E words \in Seq(Plain) : part = Text(words) /\ Len(words) <= MaxLength + 1
  \/ /\ left > 0
     /\ \E items \in Seq(Copies(left - 1)) : part = List(items) /\ Len(items) <= MaxItems
  \/ /\ left >= 0
     /\ \E names \in SUBSET Keys : \E entries \in [names -> Copies(left - 1)] :
          part = Object(entries) /\ IsFiniteSet(names) /\ Cardinality(names) <= MaxItems

(* A text of harmless words within the bound may stand anywhere. *)
LEMMA TextHoldsCopies ==
  ASSUME NEW words \in Seq(Plain), Len(words) <= MaxLength + 1, NEW left
  PROVE  HoldsCopies(Text(words), left)
BY DEF HoldsCopies

(* So may the mark, and the marked object where an object may. *)
LEMMA MarksHoldCopies ==
  ASSUME NEW left \in Int
  PROVE  /\ HoldsCopies(Mark, left)
         /\ left >= 0 => HoldsCopies(MarkObject, left)
<1>1. MaxLength \in Nat \ {0} /\ MaxItems \in Nat \ {0}
  BY SanitizerAssumption
<1>2. "[REDACTED]" \in Plain /\ "_redacted" \in Plain
  BY DEF Plain, Marks
<1>3. HoldsCopies(Mark, left)
  <2> DEFINE words == <<"[REDACTED]">>
  <2>1. words \in Seq(Plain) /\ Len(words) = 1 /\ Mark = Text(words)
    BY <1>2 DEF Mark
  <2> HIDE DEF words
  <2>2. words \in Seq(Plain) /\ Len(words) <= MaxLength + 1
    BY <1>1, <2>1
  <2>3. HoldsCopies(Text(words), left)
    BY <2>2, TextHoldsCopies
  <2>4. QED
    BY <2>1, <2>3
<1>4. ASSUME left >= 0
      PROVE  HoldsCopies(MarkObject, left)
  <2> DEFINE key == <<"_redacted">>
             entries == [k \in {key} |-> Mark]
  <2>1. key \in Seq(Plain) /\ Len(key) = 1
    BY <1>2
  <2>2. {key} \in SUBSET Keys
    BY <1>1, <2>1 DEF Keys, IsKey
  <2>3. IsFiniteSet({key}) /\ Cardinality({key}) = 1
    BY FS_Singleton
  <2>4. entries \in [{key} -> Copies(left - 1)]
    BY DEF Copies
  <2>5. MarkObject = Object(entries)
    BY DEF MarkObject
  <2> HIDE DEF key, entries
  <2>6. QED
    BY <1>1, <1>4, <2>2, <2>3, <2>4, <2>5 DEF HoldsCopies
<1>5. QED
  BY <1>3, <1>4

(* What a text is made to is harmless and bounded. *)
LEMMA SafeTextHoldsCopies ==
  ASSUME NEW words, IsText(words), NEW left \in Int
  PROVE  HoldsCopies(SafeText(words).value, left)
<1> DEFINE safe == Redacted(words)
           cut == Cut(safe, MaxLength)
<1>1. MaxLength \in Nat \ {0} /\ "[TRUNCATED]" \in Plain
  BY SanitizerAssumption DEF Plain, Marks
<1>2. safe \in Seq(Plain)
  BY RedactedClean
<1> HIDE DEF safe
<1>3. CASE Len(safe) > MaxLength
  <2>1. SafeText(words).value = Text(Append(cut, "[TRUNCATED]"))
    BY <1>3 DEF SafeText, Exceeds, Result, safe
  <2>2. cut \in Seq(Plain) /\ Len(cut) = MaxLength
    BY <1>1, <1>2, <1>3, CutIsPrefix
  <2> HIDE DEF cut
  <2>3. /\ Append(cut, "[TRUNCATED]") \in Seq(Plain)
        /\ Len(Append(cut, "[TRUNCATED]")) = Len(cut) + 1
    BY <1>1, <2>2, AppendProperties
  <2> DEFINE shown == Append(cut, "[TRUNCATED]")
  <2> HIDE DEF shown
  <2>4. shown \in Seq(Plain) /\ Len(shown) <= MaxLength + 1 /\ SafeText(words).value = Text(shown)
    BY <1>1, <2>1, <2>2, <2>3 DEF shown
  <2>5. QED
    BY <2>4, TextHoldsCopies
<1>4. CASE ~(Len(safe) > MaxLength)
  <2>1. SafeText(words).value = Text(safe)
    BY <1>4 DEF SafeText, Exceeds, Result, safe
  <2>2. Len(safe) \in Nat
    BY <1>2, LenProperties
  <2>3. QED
    BY <1>1, <1>2, <1>4, <2>1, <2>2, TextHoldsCopies
<1>5. QED
  BY <1>3, <1>4

(* What a list is made to holds copies of one level less. *)
LEMMA SafeListHoldsCopies ==
  ASSUME NEW items \in Seq(Values), NEW left \in 1..MaxDepth
  PROVE  HoldsCopies(SafeList(items, Safe[left - 1]).value, left)
<1> DEFINE kept == Cut(items, MaxItems)
           copies == [i \in DOMAIN kept |-> Safe[left - 1][kept[i]].value]
<1>1. MaxItems \in Nat /\ left \in Nat /\ left > 0 /\ left - 1 >= 0
  BY SanitizerAssumption
<1>2. /\ kept \in Seq(Values)
      /\ Len(kept) = IF Len(items) > MaxItems THEN MaxItems ELSE Len(items)
  BY <1>1, CutIsPrefix
<1>3. Len(items) \in Nat
  BY LenProperties
<1>4. Len(kept) \in Nat /\ DOMAIN kept = 1..Len(kept) /\ \A i \in 1..Len(kept) : kept[i] \in Values
  BY <1>2, LenProperties, ElementOfSeq
<1>5. Len(kept) <= MaxItems
  BY <1>1, <1>2, <1>3
<1> HIDE DEF kept
<1>6. \A i \in 1..Len(kept) : Safe[left - 1][kept[i]].value \in Copies(left - 1)
  BY <1>1, <1>4 DEF Copies
<1>7. copies \in Seq(Copies(left - 1)) /\ Len(copies) = Len(kept)
  BY <1>4, <1>6, IsASeq
<1>8. SafeList(items, Safe[left - 1]).value = List(copies)
  BY DEF SafeList, Result, kept
<1> HIDE DEF copies
<1>9. QED
  BY <1>1, <1>5, <1>7, <1>8 DEF HoldsCopies

(* the entries of an object, its keys that are kept, and their names *)
AreEntries(entries) ==
  /\ entries = [key \in DOMAIN entries |-> entries[key]]
  /\ \A key \in DOMAIN entries :
       key \in Range(KeyOrder) /\ (Hides(key, entries[key]) \/ entries[key] \in Values)

KeptKeys(entries) == Cut(Sorted(DOMAIN entries), MaxItems)

Names(entries) == SafeKeys(KeptKeys(entries))

LastKey(entries, name) ==
  CHOOSE i \in DOMAIN KeptKeys(entries) :
    /\ Names(entries)[i] = name
    /\ \A j \in DOMAIN KeptKeys(entries) : Names(entries)[j] = name => j <= i

(***************************************************************************)
(* The keys that are kept, each once and no more than the bound, have their*)
(* safe keys.                                                              *)
(***************************************************************************)
LEMMA KeptKeysNamed ==
  ASSUME NEW entries, AreEntries(entries)
  PROVE  /\ KeptKeys(entries) \in Seq(DOMAIN entries)
         /\ Len(KeptKeys(entries)) \in Nat /\ Len(KeptKeys(entries)) <= MaxItems
         /\ DOMAIN KeptKeys(entries) = 1..Len(KeptKeys(entries))
         /\ \A i \in DOMAIN KeptKeys(entries) : KeptKeys(entries)[i] \in DOMAIN entries
         /\ IsInjective(KeptKeys(entries))
         /\ Names(entries) \in Seq(Keys)
         /\ DOMAIN Names(entries) = DOMAIN KeptKeys(entries)
         /\ (\A i \in DOMAIN KeptKeys(entries) : KeyReports(KeptKeys(entries)[i], i - 1) = {})
              => \A i \in DOMAIN KeptKeys(entries) : Names(entries)[i] = KeptKeys(entries)[i]
<1> DEFINE all == Sorted(DOMAIN entries)
           keys == KeptKeys(entries)
           names == Names(entries)
<1>1. MaxItems \in Nat /\ \A key \in Range(KeyOrder) : IsText(key)
  BY SanitizerAssumption
<1>2. DOMAIN entries \in SUBSET Range(KeyOrder)
  BY DEF AreEntries
<1>3. all \in Seq(DOMAIN entries) /\ IsInjective(all)
  BY <1>2, SortedListsKeys
<1>4. Len(all) \in Nat /\ DOMAIN all = 1..Len(all)
  BY <1>3, LenProperties
<1> HIDE DEF all
<1>5. /\ keys \in Seq(DOMAIN entries)
      /\ Len(keys) = IF Len(all) > MaxItems THEN MaxItems ELSE Len(all)
      /\ \A i \in 1..Len(keys) : keys[i] = all[i]
  BY <1>1, <1>3, CutIsPrefix DEF KeptKeys, all
<1>6. /\ Len(keys) \in Nat /\ DOMAIN keys = 1..Len(keys)
      /\ \A i \in 1..Len(keys) : keys[i] \in DOMAIN entries
  BY <1>5, LenProperties, ElementOfSeq
<1>7. Len(keys) <= MaxItems /\ Len(keys) <= Len(all)
  BY <1>1, <1>4, <1>5
<1> HIDE DEF keys, names
<1>8. IsInjective(keys)
  <2>1. 1..Len(keys) \subseteq 1..Len(all)
    BY <1>4, <1>6, <1>7
  <2>2. QED
    BY <1>3, <1>4, <1>5, <1>6, <2>1 DEF IsInjective
<1>9. \A key \in DOMAIN entries : IsText(key)
  BY <1>1, <1>2
<1>10. names = SafeKeys(keys)
  BY DEF names, keys, Names
<1>11. /\ SafeKeys(keys) \in Seq(Keys) /\ Len(SafeKeys(keys)) = Len(keys)
       /\ IsInjective(keys) /\ (\A i \in 1..Len(keys) : KeyReports(keys[i], i - 1) = {})
            => \A i \in 1..Len(keys) : SafeKeys(keys)[i] = keys[i]
  BY <1>5, <1>7, <1>9, SafeKeysAreKeys
<1>12. names \in Seq(Keys) /\ Len(names) = Len(keys)
  BY <1>10, <1>11
<1>13. DOMAIN names = 1..Len(keys)
  BY <1>12, LenProperties
<1>14. (\A i \in 1..Len(keys) : KeyReports(keys[i], i - 1) = {})
         => \A i \in 1..Len(keys) : names[i] = keys[i]
  BY <1>8, <1>10, <1>11
<1>15. QED
  BY <1>5, <1>6, <1>7, <1>8, <1>12, <1>13, <1>14 DEF keys, names

(* Every name is the safe key of a last kept key. *)
LEMMA LastKeyNamed ==
  ASSUME NEW entries, AreEntries(entries), NEW name \in Range(Names(entries))
  PROVE  /\ LastKey(entries, name) \in DOMAIN KeptKeys(entries)
         /\ Names(entries)[LastKey(entries, name)] = name
<1> DEFINE keys == KeptKeys(entries)
           names == Names(entries)
           of == {i \in DOMAIN keys : names[i] = name}
<1>1. Len(keys) \in Nat /\ DOMAIN keys = 1..Len(keys) /\ DOMAIN names = DOMAIN keys
  BY KeptKeysNamed
<1>2. of \in SUBSET (1..Len(keys)) /\ of # {}
  BY <1>1 DEF Range
<1>3. PICK i \in of : \A j \in of : j <= i
  <2> HIDE DEF of
  <2> QED
    BY <1>1, <1>2, GreatestNumber
<1>4. /\ i \in DOMAIN KeptKeys(entries) /\ Names(entries)[i] = name
      /\ \A j \in DOMAIN KeptKeys(entries) : Names(entries)[j] = name => j <= i
  BY <1>3
<1>5. QED
  BY <1>4 DEF LastKey

(* An entry is the mark or a copy of one level less. *)
LEMMA SafeFieldIsCopy ==
  ASSUME NEW entries, AreEntries(entries), NEW key \in DOMAIN entries, NEW left \in 1..MaxDepth
  PROVE  SafeField(key, entries[key], Safe[left - 1]).value \in Copies(left - 1)
<1>1. left - 1 >= 0
  BY SanitizerAssumption
<1>2. CASE Hides(key, entries[key])
  BY <1>2 DEF SafeField, Result, Copies
<1>3. CASE ~Hides(key, entries[key])
  <2>1. entries[key] \in Values
    BY <1>3 DEF AreEntries
  <2>2. SafeField(key, entries[key], Safe[left - 1]) = Safe[left - 1][entries[key]]
    BY <1>3 DEF SafeField
  <2>3. QED
    BY <1>1, <2>1, <2>2 DEF Copies
<1>4. QED
  BY <1>2, <1>3

(***************************************************************************)
(* What an object is made to has as many entries as the bound allows at    *)
(* most: two keys may have fallen on one name.                             *)
(***************************************************************************)
LEMMA SafeObjectHoldsCopies ==
  ASSUME NEW entries, AreEntries(entries), NEW left \in 1..MaxDepth
  PROVE  HoldsCopies(SafeObject(entries, Safe[left - 1]).value, left)
<1> DEFINE keys == KeptKeys(entries)
           names == Names(entries)
           field(i) == SafeField(keys[i], entries[keys[i]], Safe[left - 1])
           copied == [name \in Range(names) |-> field(LastKey(entries, name)).value]
<1>1. MaxItems \in Nat /\ left \in Nat /\ left >= 0
  BY SanitizerAssumption
<1>2. /\ Len(keys) \in Nat /\ Len(keys) <= MaxItems /\ DOMAIN keys = 1..Len(keys)
      /\ \A i \in DOMAIN keys : keys[i] \in DOMAIN entries
      /\ names \in Seq(Keys) /\ DOMAIN names = DOMAIN keys
  BY KeptKeysNamed
<1>3. \A i \in DOMAIN keys : field(i).value \in Copies(left - 1)
  BY <1>2, SafeFieldIsCopy
<1>4. \A name \in Range(names) : LastKey(entries, name) \in DOMAIN keys
  BY LastKeyNamed
<1>5. copied \in [Range(names) -> Copies(left - 1)]
  <2> HIDE DEF field, keys, names
  <2> QED
    BY <1>3, <1>4
<1>6. SafeObject(entries, Safe[left - 1]).value = Object(copied)
  BY DEF SafeObject, Result, KeptKeys, Names, LastKey
<1> HIDE DEF copied, keys, names
<1>7. Range(names) \in SUBSET Keys
  BY <1>2, RangeOfSeq
<1>8. IsFiniteSet(Range(names)) /\ Cardinality(Range(names)) <= Len(keys)
  <2>1. IsFiniteSet(1..Len(keys)) /\ Cardinality(1..Len(keys)) = Len(keys)
    <3>1. 1 \in Int /\ Len(keys) \in Int
      BY <1>2
    <3>2. /\ IsFiniteSet(1..Len(keys))
          /\ Cardinality(1..Len(keys)) = IF 1 > Len(keys) THEN 0 ELSE Len(keys) - 1 + 1
      BY <3>1, FS_Interval
    <3>3. QED
      BY <1>2, <3>2
  <2>2. names \in Surjection(1..Len(keys), Range(names))
    <3>1. names \in [1..Len(keys) -> Keys]
      BY <1>2, LenProperties
    <3>2. names \in [1..Len(keys) -> Range(names)]
      BY <3>1 DEF Range
    <3>3. \A name \in Range(names) : \E i \in 1..Len(keys) : names[i] = name
      BY <3>1 DEF Range
    <3>4. QED
      BY <3>2, <3>3 DEF Surjection
  <2>3. QED
    BY <2>1, <2>2, FS_Surjection
<1>9. Cardinality(Range(names)) \in Nat
  BY <1>8, FS_CardinalityType
<1>10. Cardinality(Range(names)) <= MaxItems
  BY <1>1, <1>2, <1>8, <1>9
<1>11. QED
  BY <1>1, <1>5, <1>6, <1>7, <1>8, <1>10 DEF HoldsCopies

(***************************************************************************)
(* Every copy holds copies of one level less, and its own words are        *)
(* harmless.                                                               *)
(***************************************************************************)
LEMMA CopiesHoldCopies ==
  ASSUME NEW left \in -1..MaxDepth, NEW part \in Copies(left)
  PROVE  HoldsCopies(part, left)
<1>1. MaxDepth \in Nat
  BY SanitizerAssumption
<1>2. left \in Int
  BY <1>1
<1>3. CASE part = Mark \/ (left >= 0 /\ part = MarkObject)
  BY <1>2, <1>3, MarksHoldCopies
<1>4. CASE left >= 0 /\ \E value \in Values : part = Safe[left][value].value
  <2>1. left \in 0..MaxDepth
    BY <1>1, <1>4
  <2>2. PICK value \in Values : part = Safe[left][value].value
    BY <1>4
  <2>3. IsValue(value)
    BY ValueKinds
  <2>4. part = SafeValue(value, left, Safe[left - 1]).value
    BY <2>1, <2>2, SafeUnfolds
  <2>5. CASE value.kind = "text"
    <3>1. IsText(value.words)
      BY <2>3, <2>5 DEF IsValue, Null
    <3>2. SafeValue(value, left, Safe[left - 1]) = SafeText(value.words)
      BY <2>5 DEF SafeValue
    <3>3. QED
      BY <1>2, <2>4, <3>1, <3>2, SafeTextHoldsCopies
  <2>6. CASE value.kind = "list" /\ left > 0
    <3>1. value.items \in Seq(Values)
      BY <2>3, <2>6 DEF IsValue, Null
    <3>2. SafeValue(value, left, Safe[left - 1]) = SafeList(value.items, Safe[left - 1])
      BY <2>6 DEF SafeValue
    <3>3. left \in 1..MaxDepth
      BY <2>1, <2>6
    <3>4. QED
      BY <2>4, <3>1, <3>2, <3>3, SafeListHoldsCopies
  <2>7. CASE value.kind = "object" /\ left > 0
    <3>1. AreEntries(value.entries)
      BY <2>3, <2>7 DEF IsValue, Null, AreEntries
    <3>2. SafeValue(value, left, Safe[left - 1]) = SafeObject(value.entries, Safe[left - 1])
      BY <2>7 DEF SafeValue
    <3>3. left \in 1..MaxDepth
      BY <2>1, <2>7
    <3>4. QED
      BY <2>4, <3>1, <3>2, <3>3, SafeObjectHoldsCopies
  <2>8. CASE value.kind = "list" /\ left = 0
    <3>1. part = Mark
      BY <2>4, <2>8 DEF SafeValue, Result
    <3>2. QED
      BY <1>2, <3>1, MarksHoldCopies
  <2>9. CASE value.kind = "object" /\ left = 0
    <3>1. part = MarkObject
      BY <2>4, <2>9 DEF SafeValue, Result
    <3>2. QED
      BY <1>2, <2>9, <3>1, MarksHoldCopies
  <2>10. CASE value.kind = "null"
    <3>1. value = Null
      BY <2>3, <2>10 DEF IsValue
    <3>2. part = Null
      BY <2>4, <2>10, <3>1 DEF SafeValue, Result
    <3>3. QED
      BY <3>2 DEF HoldsCopies
  <2>11. QED
    <3>1. value.kind \in {"text", "list", "object", "null"}
      BY ValueKinds
    <3>2. left > 0 \/ left = 0
      BY <2>1
    <3>3. QED
      BY <2>5, <2>6, <2>7, <2>8, <2>9, <2>10, <3>1, <3>2
<1>5. QED
  BY <1>2, <1>3, <1>4 DEF Copies

-----------------------------------------------------------------------------
(* The nodes of a copy. *)

(* The nodes of a value, level by level. *)
LEMMA NodesUnfold ==
  ASSUME NEW value
  PROVE  \E level :
           /\ level[0] = {<< <<>>, value>>}
           /\ \A n \in 1..(MaxDepth + 1) : level[n] = UNION {Parts(node) : node \in level[n - 1]}
           /\ Nodes(value) = UNION {level[n] : n \in 0..(MaxDepth + 1)}
<1> DEFINE last == MaxDepth + 1
           First == {<< <<>>, value>>}
           Step(s) == UNION {Parts(node) : node \in s}
           Folds(f, m) == f = [i \in 0..m |-> IF i = 0 THEN First ELSE Step(f[i - 1])]
           good == {m \in 0..last : \E f : Folds(f, m)}
<1>1. last \in Nat
  BY SanitizerAssumption
<1>2. \E f : Folds(f, last)
  <2> HIDE DEF First, Step, last
  <2>1. \E f : Folds(f, 0)
    <3>1. Folds([i \in 0..0 |-> First], 0)
      OBVIOUS
    <3>2. QED
      BY <3>1
  <2>2. ASSUME NEW m \in 1..last, NEW f, Folds(f, m - 1)
        PROVE  \E g : Folds(g, m)
    <3> DEFINE g == [i \in 0..m |-> IF i = m THEN Step(f[m - 1]) ELSE f[i]]
    <3>1. Folds(g, m)
      BY <1>1, <2>2
    <3>2. QED
      BY <3>1
  <2> HIDE DEF Folds
  <2>3. 0 \in good /\ \A m \in 1..last : m - 1 \in good => m \in good
    BY <1>1, <2>1, <2>2
  <2>4. good = 0..last
    <3> HIDE DEF good
    <3> QED
      BY <1>1, <2>3, CountingUp DEF good
  <2>5. QED
    BY <1>1, <2>4
<1> DEFINE chosen == CHOOSE f : Folds(f, last)
<1>3. Folds(chosen, last)
  <2> HIDE DEF Folds
  <2> QED
    BY <1>2
<1>4. Nodes(value) = UNION {chosen[n] : n \in 0..last}
  BY DEF Nodes
<1>5. chosen[0] = First /\ \A i \in 1..last : chosen[i] = Step(chosen[i - 1])
  <2> HIDE DEF Step, First, chosen, last
  <2> QED
    BY <1>1, <1>3
<1>6. QED
  <2> HIDE DEF chosen
  <2> QED
    BY <1>4, <1>5

(* the part at the end of a path is a copy made at its depth *)
IsNode(node, n) ==
  \E path \in Seq(Nat \cup Keys) : \E part \in Copies(MaxDepth - n) :
    node = <<path, part>> /\ Len(path) = n

(* What is in a node is a copy one level deeper. *)
LEMMA PartsAreNodes ==
  ASSUME NEW n \in 1..(MaxDepth + 1), NEW node, IsNode(node, n - 1), NEW inner \in Parts(node)
  PROVE  IsNode(inner, n)
<1> DEFINE left == MaxDepth - (n - 1)
<1>1. MaxDepth \in Nat
  BY SanitizerAssumption
<1>2. PICK path \in Seq(Nat \cup Keys), part \in Copies(left) :
        node = <<path, part>> /\ Len(path) = n - 1
  BY DEF IsNode
<1>3. left \in 0..MaxDepth /\ left \in -1..MaxDepth /\ left - 1 = MaxDepth - n
  BY <1>1
<1> HIDE DEF left
<1>4. HoldsCopies(part, left)
  BY <1>3, CopiesHoldCopies
<1>5. \A edge \in Nat \cup Keys :
        Append(path, edge) \in Seq(Nat \cup Keys) /\ Len(Append(path, edge)) = n
  <2>1. ASSUME NEW edge \in Nat \cup Keys
        PROVE  Append(path, edge) \in Seq(Nat \cup Keys) /\ Len(Append(path, edge)) = n
    <3>1. /\ Append(path, edge) \in Seq(Nat \cup Keys)
          /\ Len(Append(path, edge)) = Len(path) + 1
      BY AppendProperties
    <3>2. QED
      BY <1>1, <1>2, <3>1
  <2>2. QED
    BY <2>1
<1>6. ASSUME NEW edge \in Nat \cup Keys, NEW copied \in Copies(left - 1),
             inner = <<Append(path, edge), copied>>
      PROVE  IsNode(inner, n)
  BY <1>3, <1>5, <1>6 DEF IsNode
<1>7. CASE part = Null \/ \E words : part = Text(words)
  <2>1. part.kind = "null" \/ part.kind = "text"
    BY <1>7 DEF Null, Text
  <2>2. Parts(node) = {}
    BY <1>2, <2>1 DEF Parts
  <2>3. QED
    BY <2>2
<1>8. CASE \E items \in Seq(Copies(left - 1)) : part = List(items)
  <2>1. PICK items \in Seq(Copies(left - 1)) : part = List(items)
    BY <1>8
  <2>2. Parts(node) = {<<Append(path, i), items[i]>> : i \in DOMAIN items}
    BY <1>2, <2>1 DEF Parts, List
  <2>3. PICK i \in DOMAIN items : inner = <<Append(path, i), items[i]>>
    BY <2>2
  <2>4. i \in Nat /\ items[i] \in Copies(left - 1)
    BY <2>1, LenProperties, ElementOfSeq
  <2>5. QED
    BY <1>6, <2>3, <2>4
<1>9. CASE \E names \in SUBSET Keys : \E entries \in [names -> Copies(left - 1)] :
             part = Object(entries)
  <2>1. PICK names \in SUBSET Keys :
          \E entries \in [names -> Copies(left - 1)] : part = Object(entries)
    BY <1>9
  <2>2. PICK entries \in [names -> Copies(left - 1)] : part = Object(entries)
    BY <2>1
  <2>3. Parts(node) = {<<Append(path, key), entries[key]>> : key \in names}
    BY <1>2, <2>2 DEF Parts, Object
  <2>4. PICK key \in names : inner = <<Append(path, key), entries[key]>>
    BY <2>3
  <2>5. key \in Nat \cup Keys /\ entries[key] \in Copies(left - 1)
    BY <2>1, <2>2
  <2>6. QED
    BY <1>6, <2>4, <2>5
<1>10. QED
  BY <1>4, <1>7, <1>8, <1>9 DEF HoldsCopies

(* All nodes of a copy are copies, each made at the depth where it stands. *)
LEMMA NodesAreCopies ==
  ASSUME NEW value \in Copies(MaxDepth), NEW node \in Nodes(value)
  PROVE  \E n \in 0..(MaxDepth + 1) : IsNode(node, n)
<1>1. MaxDepth \in Nat
  BY SanitizerAssumption
<1>2. PICK level :
        /\ level[0] = {<< <<>>, value>>}
        /\ \A n \in 1..(MaxDepth + 1) : level[n] = UNION {Parts(m) : m \in level[n - 1]}
        /\ Nodes(value) = UNION {level[n] : n \in 0..(MaxDepth + 1)}
  BY NodesUnfold
<1> DEFINE Good(n) == \A m \in level[n] : IsNode(m, n)
           good == {n \in 0..(MaxDepth + 1) : Good(n)}
<1>3. Good(0)
  <2>1. IsNode(<< <<>>, value>>, 0)
    <3>1. <<>> \in Seq(Nat \cup Keys) /\ Len(<<>>) = 0
      BY EmptySeq
    <3>2. value \in Copies(MaxDepth - 0)
      BY <1>1
    <3>3. QED
      BY <3>1, <3>2 DEF IsNode
  <2>2. QED
    BY <1>2, <2>1
<1>4. ASSUME NEW n \in 1..(MaxDepth + 1), Good(n - 1)
      PROVE  Good(n)
  <2>1. ASSUME NEW m \in level[n]
        PROVE  IsNode(m, n)
    <3>1. PICK outer \in level[n - 1] : m \in Parts(outer)
      BY <1>2, <2>1
    <3>2. IsNode(outer, n - 1)
      BY <1>4, <3>1
    <3>3. QED
      BY <3>1, <3>2, PartsAreNodes
  <2>2. QED
    BY <2>1
<1> HIDE DEF Good
<1>5. good = 0..(MaxDepth + 1)
  <2>1. 0 \in good /\ \A n \in 1..(MaxDepth + 1) : n - 1 \in good => n \in good
    BY <1>1, <1>3, <1>4
  <2>2. good \in SUBSET (0..(MaxDepth + 1))
    OBVIOUS
  <2> HIDE DEF good
  <2>3. QED
    BY <1>1, <2>1, <2>2, CountingUp
<1>6. PICK n \in 0..(MaxDepth + 1) : node \in level[n]
  BY <1>2
<1>7. Good(n)
  BY <1>5, <1>6
<1>8. QED
  BY <1>6, <1>7 DEF Good

(***************************************************************************)
(* A copy without a report is the value itself, by the levels left: no     *)
(* text was changed, no entry is missing and the keys have their names.    *)
(***************************************************************************)
Lossless(left) ==
  \A value \in Values : Safe[left][value].reported = {} => Safe[left][value].value = value

(* The two fields of a result. *)
LEMMA ResultFields ==
  ASSUME NEW value, NEW reports
  PROVE  Result(value, reports).value = value /\ Result(value, reports).reported = reports
BY DEF Result

(* A text without a report is unchanged. *)
LEMMA LosslessText ==
  ASSUME NEW words, SafeText(words).reported = {}
  PROVE  SafeText(words).value = Text(words)
<1>1. Hidden(words) = {} /\ Exceeds(Redacted(words), MaxLength, "STRING_LENGTH") = {}
  BY DEF SafeText, Result
<1>2. Redacted(words) = words
  BY <1>1 DEF Hidden
<1>3. QED
  BY <1>1, <1>2 DEF SafeText, Result

(* So is a list, when what is in it is. *)
LEMMA LosslessList ==
  ASSUME NEW items \in Seq(Values), NEW left \in 1..MaxDepth, Lossless(left - 1),
         SafeList(items, Safe[left - 1]).reported = {}
  PROVE  SafeList(items, Safe[left - 1]).value = List(items)
<1> DEFINE kept == Cut(items, MaxItems)
           below == Safe[left - 1]
<1>1. /\ \A i \in DOMAIN kept : below[kept[i]].reported = {}
      /\ Exceeds(items, MaxItems, "COLLECTION_ITEMS") = {}
  <2> DEFINE reports == UNION {below[kept[i]].reported : i \in DOMAIN kept}
             limit == Exceeds(items, MaxItems, "COLLECTION_ITEMS")
             copied == [i \in DOMAIN kept |-> below[kept[i]].value]
  <2>4. SafeList(items, below) = Result(List(copied), reports \cup limit)
    BY DEF SafeList
  <2>1. SafeList(items, below).reported = reports \cup limit
    <3> HIDE DEF reports, limit, below, kept, copied
    <3> QED
      BY <2>4, ResultFields
  <2>2. \A i \in DOMAIN kept : below[kept[i]].reported \subseteq reports
    OBVIOUS
  <2> HIDE DEF reports, limit, below, kept
  <2>3. QED
    BY <2>1, <2>2 DEF below, limit
<1>2. kept = items
  BY <1>1 DEF Exceeds, Cut
<1>3. DOMAIN items = 1..Len(items) /\ \A i \in 1..Len(items) : items[i] \in Values
  BY LenProperties, ElementOfSeq
<1>4. items \in [1..Len(items) -> Values]
  BY LenProperties
<1> HIDE DEF kept, below
<1>5. \A i \in DOMAIN items : below[items[i]].value = items[i]
  BY <1>1, <1>2, <1>3 DEF Lossless, below
<1>6. [i \in DOMAIN items |-> below[items[i]].value] = items
  BY <1>3, <1>4, <1>5
<1>7. SafeList(items, below).value = List([i \in DOMAIN kept |-> below[kept[i]].value])
  BY DEF SafeList, Result, kept
<1>8. QED
  BY <1>2, <1>6, <1>7 DEF below

(***************************************************************************)
(* And an object: every key is kept under its own name, which no other key *)
(* has, and no value is hidden.                                            *)
(***************************************************************************)
LEMMA LosslessObject ==
  ASSUME NEW entries, AreEntries(entries), NEW left \in 1..MaxDepth, Lossless(left - 1),
         SafeObject(entries, Safe[left - 1]).reported = {}
  PROVE  SafeObject(entries, Safe[left - 1]).value = Object(entries)
<1> DEFINE all == Sorted(DOMAIN entries)
           keys == KeptKeys(entries)
           names == Names(entries)
           field(i) == SafeField(keys[i], entries[keys[i]], Safe[left - 1])
           copied == [name \in Range(names) |-> field(LastKey(entries, name)).value]
<1>1. SafeObject(entries, Safe[left - 1]) =
        Result(Object(copied),
               (UNION {KeyReports(keys[i], i - 1) \cup field(i).reported : i \in DOMAIN keys})
                 \cup Exceeds(all, MaxItems, "COLLECTION_ITEMS"))
  BY DEF SafeObject, KeptKeys, Names, LastKey
<1>2. /\ \A i \in DOMAIN keys : KeyReports(keys[i], i - 1) = {} /\ field(i).reported = {}
      /\ Exceeds(all, MaxItems, "COLLECTION_ITEMS") = {}
  <2> DEFINE reports == UNION {KeyReports(keys[i], i - 1) \cup field(i).reported : i \in DOMAIN keys}
             limit == Exceeds(all, MaxItems, "COLLECTION_ITEMS")
  <2> HIDE DEF all, keys, field, copied
  <2>1. \A i \in DOMAIN keys : KeyReports(keys[i], i - 1) \cup field(i).reported \subseteq reports
    OBVIOUS
  <2> HIDE DEF reports, limit
  <2>2. SafeObject(entries, Safe[left - 1]).reported = reports \cup limit
    <3>1. SafeObject(entries, Safe[left - 1]) = Result(Object(copied), reports \cup limit)
      BY <1>1 DEF reports, limit
    <3>2. QED
      BY <3>1, ResultFields
  <2>3. reports = {} /\ limit = {}
    BY <2>2
  <2>4. QED
    BY <2>1, <2>3 DEF limit
<1>3. keys = all
  BY <1>2 DEF Exceeds, Cut, KeptKeys
<1>4. DOMAIN entries \in SUBSET Range(KeyOrder)
  BY DEF AreEntries
<1>5. Range(keys) = DOMAIN entries
  BY <1>3, <1>4, SortedListsKeys
<1>6. /\ IsInjective(keys) /\ DOMAIN names = DOMAIN keys
      /\ \A i \in DOMAIN keys : keys[i] \in DOMAIN entries
      /\ (\A i \in DOMAIN keys : KeyReports(keys[i], i - 1) = {})
           => \A i \in DOMAIN keys : names[i] = keys[i]
  BY KeptKeysNamed
<1>7. \A i \in DOMAIN keys : names[i] = keys[i]
  BY <1>2, <1>6
<1>8. \A i \in DOMAIN keys : field(i).value = entries[keys[i]]
  <2>1. ASSUME NEW i \in DOMAIN keys
        PROVE  field(i).value = entries[keys[i]]
    <3>1. ~Hides(keys[i], entries[keys[i]])
      BY <1>2 DEF SafeField, Result
    <3>2. entries[keys[i]] \in Values
      BY <1>6, <3>1 DEF AreEntries
    <3>3. field(i) = Safe[left - 1][entries[keys[i]]]
      BY <3>1 DEF SafeField
    <3>4. QED
      BY <1>2, <3>2, <3>3 DEF Lossless
  <2>2. QED
    BY <2>1
<1>9. \A name \in Range(names) : LastKey(entries, name) \in DOMAIN keys /\ names[LastKey(entries, name)] = name
  BY LastKeyNamed
<1> HIDE DEF all, keys, names, field
<1>10. Range(names) = DOMAIN entries
  BY <1>5, <1>6, <1>7 DEF Range
<1>11. \A name \in DOMAIN entries : field(LastKey(entries, name)).value = entries[name]
  BY <1>7, <1>8, <1>9, <1>10
<1>12. copied = [name \in DOMAIN entries |-> entries[name]]
  BY <1>10, <1>11
<1>13. copied = entries
  BY <1>12 DEF AreEntries
<1>14. QED
  <2> HIDE DEF copied
  <2> QED
    BY <1>1, <1>13 DEF Result

(* And so every value, whatever the levels left. *)
LEMMA LosslessCopies ==
  \A left \in 0..MaxDepth : Lossless(left)
<1> DEFINE good == {left \in 0..MaxDepth : Lossless(left)}
<1>1. MaxDepth \in Nat
  BY SanitizerAssumption
<1>2. ASSUME NEW left \in 0..MaxDepth, left > 0 => Lossless(left - 1)
      PROVE  Lossless(left)
  <2>1. SUFFICES ASSUME NEW value \in Values, Safe[left][value].reported = {}
                 PROVE  Safe[left][value].value = value
    BY DEF Lossless
  <2>2. Safe[left][value] = SafeValue(value, left, Safe[left - 1])
    BY SafeUnfolds
  <2>3. IsValue(value) /\ value.kind \in {"text", "list", "object", "null"}
    BY ValueKinds
  <2>4. CASE value.kind = "text"
    <3>1. value = Text(value.words)
      BY <2>3, <2>4 DEF IsValue, Null
    <3>2. Safe[left][value] = SafeText(value.words)
      BY <2>2, <2>4 DEF SafeValue
    <3>3. QED
      BY <2>1, <3>1, <3>2, LosslessText
  <2>5. CASE value.kind = "list" /\ left > 0
    <3>1. value = List(value.items) /\ value.items \in Seq(Values)
      BY <2>3, <2>5 DEF IsValue, Null
    <3>2. Safe[left][value] = SafeList(value.items, Safe[left - 1])
      BY <2>2, <2>5 DEF SafeValue
    <3>3. left \in 1..MaxDepth
      BY <1>1, <2>5
    <3>4. QED
      BY <1>2, <2>1, <2>5, <3>1, <3>2, <3>3, LosslessList
  <2>6. CASE value.kind = "object" /\ left > 0
    <3>1. value = Object(value.entries) /\ AreEntries(value.entries)
      BY <2>3, <2>6 DEF IsValue, Null, AreEntries
    <3>2. Safe[left][value] = SafeObject(value.entries, Safe[left - 1])
      BY <2>2, <2>6 DEF SafeValue
    <3>3. left \in 1..MaxDepth
      BY <1>1, <2>6
    <3>4. QED
      BY <1>2, <2>1, <2>6, <3>1, <3>2, <3>3, LosslessObject
  <2>7. CASE value.kind \in {"list", "object"} /\ left = 0
    <3>1. Safe[left][value].reported = {"DEPTH"}
      BY <2>2, <2>7 DEF SafeValue, Result
    <3>2. QED
      BY <2>1, <3>1
  <2>8. CASE value.kind = "null"
    BY <2>2, <2>8 DEF SafeValue, Result
  <2>9. QED
    <3>1. left > 0 \/ left = 0
      BY <1>1
    <3>2. QED
      BY <2>3, <2>4, <2>5, <2>6, <2>7, <2>8, <3>1
<1>3. good = 0..MaxDepth
  <2>1. 0 \in good /\ \A left \in 1..MaxDepth : left - 1 \in good => left \in good
    <3>1. 0 \in 0..MaxDepth /\ \A left \in 1..MaxDepth : left \in 0..MaxDepth
      BY <1>1
    <3>2. QED
      BY <1>2, <3>1
  <2>2. good \in SUBSET (0..MaxDepth)
    OBVIOUS
  <2> HIDE DEF good
  <2>3. QED
    BY <1>1, <2>1, <2>2, CountingUp
<1>4. QED
  BY <1>3

-----------------------------------------------------------------------------
(* The whole copy. *)

(***************************************************************************)
(* What replaces a copy that is too large has two words: its key and its   *)
(* text.                                                                   *)
(***************************************************************************)
LEMMA MarkObjectIsSmall ==
  Size(MarkObject) <= MaxSize
<1> DEFINE key == <<"_redacted">>
           outer == << <<>>, MarkObject>>
           inner == <<Append(<<>>, key), Mark>>
           places == {<< <<>>, key, 1>>, <<Append(<<>>, key), 1>>}
           last == MaxDepth + 1
<1>1. last \in Nat /\ MaxSize \in Nat /\ MaxSize >= 2
  BY SanitizerAssumption
<1>2. Parts(outer) = {inner} /\ Parts(inner) = {}
  BY DEF Parts, MarkObject, Mark, Object, Text
<1>3. Places(outer) = {<< <<>>, key, 1>>} /\ Places(inner) = {<<Append(<<>>, key), 1>>}
  BY DEF Places, MarkObject, Mark, Object, Text
<1>4. PICK level :
        /\ level[0] = {outer}
        /\ \A n \in 1..last : level[n] = UNION {Parts(node) : node \in level[n - 1]}
        /\ Nodes(MarkObject) = UNION {level[n] : n \in 0..last}
  BY NodesUnfold
<1> HIDE DEF outer, inner, last
<1> DEFINE good == {n \in 0..last : level[n] \subseteq {outer, inner}}
<1>5. good = 0..last
  <2>1. 0 \in good
    BY <1>1, <1>4
  <2>2. ASSUME NEW n \in 1..last, n - 1 \in good
        PROVE  n \in good
    <3>1. level[n] \subseteq {inner}
      BY <1>2, <1>4, <2>2
    <3>2. n \in 0..last
      BY <1>1
    <3>3. QED
      BY <3>1, <3>2
  <2>3. good \in SUBSET (0..last)
    OBVIOUS
  <2> HIDE DEF good
  <2>4. QED
    BY <1>1, <2>1, <2>2, <2>3, CountingUp
<1>6. Nodes(MarkObject) \subseteq {outer, inner}
  BY <1>4, <1>5
<1> DEFINE filled == UNION {Places(node) : node \in Nodes(MarkObject)}
<1>7. filled \subseteq places
  BY <1>3, <1>6
<1> HIDE DEF filled
<1>8. IsFiniteSet(places) /\ Cardinality(places) <= 2
  <2> DEFINE first == << <<>>, key, 1>>
             second == <<Append(<<>>, key), 1>>
  <2>1. places = {first} \cup {second}
    OBVIOUS
  <2> HIDE DEF first, second, places
  <2>2. /\ IsFiniteSet({first}) /\ Cardinality({first}) = 1
        /\ IsFiniteSet({second}) /\ Cardinality({second}) = 1
    BY FS_Singleton
  <2>3. /\ IsFiniteSet({first} \cup {second})
        /\ Cardinality({first} \cup {second}) =
             Cardinality({first}) + Cardinality({second}) - Cardinality({first} \cap {second})
    BY <2>2, FS_Union
  <2> DEFINE common == Cardinality({first} \cap {second})
  <2>4. common \in Nat
    BY <2>2, FS_Intersection, FS_CardinalityType
  <2>5. IsFiniteSet(places) /\ Cardinality(places) = 1 + 1 - common
    BY <2>1, <2>2, <2>3
  <2> HIDE DEF common
  <2>6. \A c \in Nat : 1 + 1 - c <= 2
    OBVIOUS
  <2>7. QED
    BY <2>4, <2>5, <2>6
<1> HIDE DEF places
<1>9. IsFiniteSet(filled) /\ Cardinality(filled) <= Cardinality(places)
  BY <1>7, <1>8, FS_Subset
<1>10. Cardinality(filled) \in Nat /\ Cardinality(places) \in Nat
  BY <1>8, <1>9, FS_CardinalityType
<1>11. Size(MarkObject) = Cardinality(filled)
  BY DEF Size, filled
<1>12. QED
  BY <1>1, <1>8, <1>9, <1>10, <1>11

(***************************************************************************)
(* What the sanitizer makes of a value is a copy, within the size, and the *)
(* value itself if nothing is reported.                                    *)
(***************************************************************************)
LEMMA SanitizedIsCopy ==
  ASSUME NEW value \in Values
  PROVE  /\ Sanitized(value).value \in Copies(MaxDepth)
         /\ Size(Sanitized(value).value) <= MaxSize
         /\ Sanitized(value).reported = {} => Sanitized(value).value = value
<1> DEFINE safe == Safe[MaxDepth][value]
<1>1. MaxDepth \in 0..MaxDepth /\ ~(MaxDepth < 0)
  BY SanitizerAssumption
<1>2. safe.value \in Copies(MaxDepth) /\ MarkObject \in Copies(MaxDepth)
  BY <1>1 DEF Copies
<1>3. safe.reported = {} => safe.value = value
  BY <1>1, LosslessCopies DEF Lossless
<1> HIDE DEF safe
<1>4. CASE Size(safe.value) <= MaxSize
  <2>1. Sanitized(value) = safe
    BY <1>4 DEF Sanitized, safe
  <2>2. QED
    BY <1>2, <1>3, <1>4, <2>1
<1>5. CASE ~(Size(safe.value) <= MaxSize)
  <2>1. Sanitized(value) = Result(MarkObject, safe.reported \cup {"METADATA_SIZE"})
    BY <1>5 DEF Sanitized, safe
  <2>2. /\ Sanitized(value).value = MarkObject
        /\ Sanitized(value).reported = safe.reported \cup {"METADATA_SIZE"}
    BY <2>1, ResultFields
  <2>3. QED
    BY <1>2, <2>2, MarkObjectIsSmall
<1>6. QED
  BY <1>4, <1>5

(***************************************************************************)
(* Nothing is copied, or the copy is what the sanitizer makes of the       *)
(* metadata.                                                               *)
(***************************************************************************)
CopyInv ==
  /\ metadata \in Samples \cup {Absent}
  /\ IF copy = Absent THEN reported = {}
     ELSE /\ metadata \in Samples
          /\ copy = Sanitized(metadata).value /\ reported = Sanitized(metadata).reported

(* The one step of the sanitizer establishes it. *)
LEMMA CopyInvHolds ==
  SanitizerSpec => []CopyInv
<1>1. SanitizerInit => CopyInv
  BY DEF SanitizerInit, CopyInv
<1>2. CopyInv /\ [Sanitize]_sanitizerVars => CopyInv'
  <2> SUFFICES ASSUME CopyInv, [Sanitize]_sanitizerVars
               PROVE  CopyInv'
    OBVIOUS
  <2>1. CASE Sanitize
    <3>1. /\ metadata # Absent /\ metadata' = metadata
          /\ copy' = Sanitized(metadata).value /\ reported' = Sanitized(metadata).reported
      BY <2>1 DEF Sanitize
    <3>2. metadata \in Samples
      BY <3>1 DEF CopyInv
    <3>3. copy' # Absent
      <4>1. copy' \in Copies(MaxDepth)
        BY <3>1, <3>2, SanitizedIsCopy, SanitizerAssumption
      <4>2. MaxDepth \in -1..MaxDepth
        BY SanitizerAssumption
      <4>3. HoldsCopies(copy', MaxDepth)
        BY <4>1, <4>2, CopiesHoldCopies
      <4>4. QED
        BY <4>3 DEF HoldsCopies, Absent, Null, Text, List, Object
    <3>4. QED
      BY <3>1, <3>2, <3>3 DEF CopyInv
  <2>2. CASE UNCHANGED sanitizerVars
    BY <2>2 DEF sanitizerVars, CopyInv
  <2>3. QED
    BY <2>1, <2>2
<1>3. QED
  BY <1>1, <1>2, PTL DEF SanitizerSpec

(* What it says of the copy. *)
LEMMA CopyIsSanitized ==
  ASSUME CopyInv, copy # Absent
  PROVE  /\ copy \in Copies(MaxDepth) /\ Size(copy) <= MaxSize
         /\ reported = {} => copy = metadata
<1>1. /\ metadata \in Values
      /\ copy = Sanitized(metadata).value /\ reported = Sanitized(metadata).reported
  BY SanitizerAssumption DEF CopyInv
<1>2. QED
  BY <1>1, SanitizedIsCopy

(***************************************************************************)
(* No half or whole secret and nothing from a sensitive field gets into    *)
(* the copy, for all metadata and all bounds (privacy.py:139-197).         *)
(***************************************************************************)
THEOREM SecretsStayOut ==
  SanitizerSpec => []NothingSensitive
<1>1. CopyInv => NothingSensitive
  <2>1. SUFFICES ASSUME CopyInv, copy # Absent, NEW node \in Nodes(copy)
                 PROVE  OwnWords(node[2]) \cap {"sec", "ret", "private"} = {}
    BY DEF NothingSensitive
  <2>2. copy \in Copies(MaxDepth)
    BY <2>1, CopyIsSanitized
  <2>3. PICK n \in 0..(MaxDepth + 1) : IsNode(node, n)
    BY <2>2, NodesAreCopies
  <2> DEFINE left == MaxDepth - n
             part == node[2]
  <2>4. part \in Copies(left) /\ left \in -1..MaxDepth
    BY <2>3, SanitizerAssumption DEF IsNode
  <2> HIDE DEF left, part
  <2>5. HoldsCopies(part, left)
    BY <2>4, CopiesHoldCopies
  <2>6. OwnWords(part) \subseteq Plain
    <3>1. CASE part = Null
      BY <3>1 DEF OwnWords, Null
    <3>2. CASE \E words \in Seq(Plain) : part = Text(words)
      <4>1. PICK words \in Seq(Plain) : part = Text(words)
        BY <3>2
      <4>2. OwnWords(part) = Range(words)
        BY <4>1 DEF OwnWords, Text
      <4>3. QED
        BY <4>2, RangeOfSeq
    <3>3. CASE \E items : part = List(items)
      BY <3>3 DEF OwnWords, List
    <3>4. CASE \E names \in SUBSET Keys : \E entries \in [names -> Copies(left - 1)] :
                 part = Object(entries)
      <4>1. PICK names \in SUBSET Keys :
              \E entries \in [names -> Copies(left - 1)] : part = Object(entries)
        BY <3>4
      <4>2. OwnWords(part) = UNION {Range(name) : name \in names}
        BY <4>1 DEF OwnWords, Object
      <4>3. \A name \in names : Range(name) \in SUBSET Plain
        BY <4>1, RangeOfSeq DEF Keys
      <4>4. QED
        BY <4>2, <4>3
    <3>5. QED
      BY <2>5, <3>1, <3>2, <3>3, <3>4 DEF HoldsCopies
  <2>7. QED
    BY <2>6 DEF Plain, Words, Marks, part
<1>2. QED
  BY <1>1, CopyInvHolds, PTL

(***************************************************************************)
(* The copy keeps every bound, for all metadata (privacy.py:120-123,       *)
(* 136-157, 175-192).  A key needs room for the suffix that makes it       *)
(* unique: prefix_length is never less than one.                           *)
(***************************************************************************)
THEOREM CopyIsBounded ==
  ASSUME MaxLength > 1
  PROVE  SanitizerSpec => []Bounded
<1>1. CopyInv => Bounded
  <2>1. SUFFICES ASSUME CopyInv, copy # Absent
                 PROVE  (\A node \in Nodes(copy) : Within(node)) /\ Size(copy) <= MaxSize
    BY DEF Bounded
  <2>2. copy \in Copies(MaxDepth) /\ Size(copy) <= MaxSize
    BY <2>1, CopyIsSanitized
  <2>3. ASSUME NEW node \in Nodes(copy)
        PROVE  Within(node)
    <3>1. PICK n \in 0..(MaxDepth + 1) : IsNode(node, n)
      BY <2>2, NodesAreCopies
    <3> DEFINE left == MaxDepth - n
               part == node[2]
               depth == Len(node[1])
    <3>2. MaxDepth \in Nat /\ n \in Nat
      BY SanitizerAssumption
    <3>3. part \in Copies(left) /\ left \in -1..MaxDepth /\ depth = n
      BY <3>1, <3>2 DEF IsNode
    <3>4. (left > 0 => depth < MaxDepth) /\ (left >= 0 => depth <= MaxDepth)
      BY <3>2, <3>3
    <3> HIDE DEF left, part, depth
    <3>5. HoldsCopies(part, left)
      BY <3>3, CopiesHoldCopies
    <3>6. CASE part = Null
      BY <3>6 DEF Within, Null, part
    <3>7. CASE \E words \in Seq(Plain) : part = Text(words) /\ Len(words) <= MaxLength + 1
      BY <3>7 DEF Within, Text, part
    <3>8. CASE left > 0 /\ \E items : part = List(items) /\ Len(items) <= MaxItems
      BY <3>4, <3>8 DEF Within, List, part, depth
    <3>9. CASE /\ left >= 0
               /\ \E names \in SUBSET Keys : \E entries \in [names -> Copies(left - 1)] :
                    part = Object(entries) /\ Cardinality(names) <= MaxItems
      <4>1. PICK names \in SUBSET Keys : \E entries \in [names -> Copies(left - 1)] :
              part = Object(entries) /\ Cardinality(names) <= MaxItems
        BY <3>9
      <4>2. part.kind = "object" /\ DOMAIN part.entries = names
        BY <4>1 DEF Object
      <4>3. \A name \in names : Len(name) <= MaxLength
        BY <4>1 DEF Keys, IsKey
      <4>4. QED
        BY <3>4, <3>9, <4>1, <4>2, <4>3 DEF Within, part, depth
    <3>10. QED
      BY <3>5, <3>6, <3>7, <3>8, <3>9 DEF HoldsCopies
  <2>4. QED
    BY <2>2, <2>3
<1>2. QED
  BY <1>1, CopyInvHolds, PTL

(***************************************************************************)
(* A copy with no redaction count and no limit is the metadata, for all    *)
(* metadata and all bounds (privacy.py:142-162).                           *)
(***************************************************************************)
THEOREM LossIsNeverSilent ==
  SanitizerSpec => []LossIsReported
<1>1. CopyInv => LossIsReported
  BY CopyIsSanitized DEF LossIsReported
<1>2. QED
  BY <1>1, CopyInvHolds, PTL
=============================================================================
