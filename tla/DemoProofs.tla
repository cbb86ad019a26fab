----------------------------- MODULE DemoProofs ------------------------------
(***************************************************************************)
(* What the dashboard's operations can settle between two resets, for      *)
(* every initial balance, and every velocity rule that the burst of the    *)
(* attack scenario is long enough to trip; and that the scenario on the    *)
(* screen is the one its receipts show.                                    *)
(***************************************************************************)
EXTENDS Demo, FiniteSetTheorems, SequenceTheorems, TLAPS

Payees == {"weather-api", "market-data-api", "attacker-wallet"}

Instructions ==
  {"reset", "normal", "seed", "wait", "novel", "attack", "original", "replayed"}

(***************************************************************************)
(* Money and baseline                                                      *)
(***************************************************************************)
TypeInv ==
  /\ initial \in Nat
  /\ balance \in Nat
  /\ clean \in [number : Nat, total : Nat, recipients : SUBSET Payees]
  /\ seeds \in Nat

MoneyInv == TypeInv /\ SettledIsLearned

(***************************************************************************)
(* Scripts: what follows what.  A wait is followed by a payment to a new   *)
(* recipient or by a whole burst.                                          *)
(***************************************************************************)
WellFormed(s) ==
  /\ s \in Seq(Instructions)
  /\ \A i \in 1..Len(s) :
       /\ s[i] = "reset" => i = Len(s) \/ s[i + 1] \in {"normal", "seed", "original"}
       /\ s[i] = "seed" => i + 2 <= Len(s) /\ s[i + 1] = "wait"
       /\ s[i] = "wait" => \/ i + 1 <= Len(s) /\ s[i + 1] = "novel"
                           \/ i + 5 <= Len(s) /\ \A k \in 1..5 : s[i + k] = "attack"
       /\ s[i] = "original" => i + 1 <= Len(s) /\ s[i + 1] = "replayed"
       /\ s[i] = "attack" => i = Len(s) \/ s[i + 1] \in {"attack", "reset"}
       /\ s[i] \in {"normal", "novel", "replayed"} => i = Len(s)

ScriptInv ==
  /\ WellFormed(script)
  /\ running = "none" => script = <<>>

(***************************************************************************)
(* The velocity rule: the last m attempts were made in successive seconds, *)
(* one more at most for a replay, and it takes one attempt to settle one   *)
(* payment.                                                                *)
(***************************************************************************)
Packed(list, m) ==
  /\ m <= Len(list)
  /\ \A k \in 0..(m - 1) : list[Len(list) - k] <= k + 2

Paced == \E m \in 0..(VelocityThreshold - 1) : Packed(ages, m) /\ clean.number <= m + 2

BaselineInv ==
  /\ ages \in Seq(Nat)
  /\ clean.recipients = IF clean.number = 0 THEN {} ELSE {"weather-api"}
  /\ seeds <= clean.number
  /\ clean.number <= VelocityThreshold + 1

(* a burst of five under way: so many attempts since the wait *)
BurstInv ==
  Doing("attack") =>
    /\ clean.number > 0
    /\ \E m \in 0..4 :
         /\ Packed(ages, IF m < VelocityThreshold THEN m ELSE VelocityThreshold - 1)
         /\ 5 - m <= Len(script)
         /\ \A k \in 1..(5 - m) : script[k] = "attack"

ApprovalInv ==
  /\ Doing("seed") /\ script[3] = "novel" => clean.number = seeds /\ seeds <= 3
  /\ Doing("wait") => clean.number > 0 /\ (script[2] = "novel" => clean.number <= 3)
  /\ Doing("novel") => clean.number > 0 /\ clean.number <= 3

ReplayInv ==
  /\ Doing("original") => ages = <<>> /\ clean.number = 0
  /\ Doing("replayed") => Len(ages) = 1 /\ ages[1] <= 1 /\ clean.number <= 1

PaceInv == ~Doing("attack") /\ ~Doing("novel") => Paced

IInv == 
  /\ MoneyInv /\ ScriptInv /\ BaselineInv
  /\ BurstInv /\ ApprovalInv /\ ReplayInv /\ PaceInv

-----------------------------------------------------------------------------
(* The instructions that keep the money, and those that pay. *)

LEMMA PaymentTypes ==
  \A payment \in {Normal, Novel, Attack} : payment.recipient \in Payees /\ payment.amount \in Nat
<1>1. Normal.recipient \in Payees /\ Normal.amount \in Nat
  BY DEF Normal, Payees
<1>2. Novel.recipient \in Payees /\ Novel.amount \in Nat
  BY DEF Novel, Payees
<1>3. Attack.recipient \in Payees /\ Attack.amount \in Nat
  BY DEF Attack, Payees
<1>4. QED
  BY <1>1, <1>2, <1>3

(* Only what the balance covers is allowed, and only it is learned. *)
LEMMA PaymentKeepsBooks ==
  ASSUME MoneyInv, UNCHANGED initial, seeds' \in Nat,
         NEW payment \in {Normal, Novel, Attack}, Pay(payment)
  PROVE  MoneyInv'
<1>1. payment.recipient \in Payees /\ payment.amount \in Nat
  BY PaymentTypes
<1>2. CASE Decide(payment) = "ALLOW"
  <2>1. payment.amount <= balance
    BY <1>2 DEF Decide
  <2>2. /\ balance' = balance - payment.amount
        /\ clean' = Learned(clean, payment.recipient, payment.amount)
    BY <1>2 DEF Pay
  <2>3. balance' \in Nat /\ clean'.total = clean.total + payment.amount
    BY <1>1, <2>1, <2>2 DEF Learned, MoneyInv, TypeInv
  <2>4. clean' \in [number : Nat, total : Nat, recipients : SUBSET Payees]
    BY <1>1, <2>2 DEF Learned, MoneyInv, TypeInv
  <2>5. QED
    BY <1>1, <2>2, <2>3, <2>4 DEF MoneyInv, TypeInv, SettledIsLearned
<1>3. CASE Decide(payment) # "ALLOW"
  <2>1. UNCHANGED <<balance, clean>>
    BY <1>3 DEF Pay
  <2>2. QED
    BY <2>1 DEF MoneyInv, TypeInv, SettledIsLearned
<1>4. QED
  BY <1>2, <1>3

LEMMA InitMoney == Init => MoneyInv
<1> SUFFICES ASSUME Init
             PROVE  MoneyInv
  OBVIOUS
<1>1. initial \in Nat /\ balance = initial /\ seeds = 0 /\ clean = NoHistory
  BY DemoAssumption DEF Init
<1>2. /\ NoHistory \in [number : Nat, total : Nat, recipients : SUBSET Payees]
      /\ NoHistory.total = 0
  BY DEF NoHistory
<1>3. QED
  BY <1>1, <1>2 DEF MoneyInv, TypeInv, SettledIsLearned

LEMMA MoneyKept == MoneyInv /\ [Next]_vars => MoneyInv'
<1> SUFFICES ASSUME MoneyInv, [Next]_vars
             PROVE  MoneyInv'
  OBVIOUS
<1>1. CASE UNCHANGED vars
  BY <1>1 DEF vars, MoneyInv, TypeInv, SettledIsLearned
<1>2. ASSUME NEW operation \in Operations, Start(operation)
      PROVE  MoneyInv'
  BY <1>2 DEF Start, MoneyInv, TypeInv, SettledIsLearned
<1>3. CASE Finish \/ Warm \/ Wait \/ ProcessReplayed
  BY <1>3 DEF Finish, Warm, Wait, ProcessReplayed, Replay, MoneyInv, TypeInv, SettledIsLearned
<1>4. CASE Reset
  BY <1>4 DEF Reset, NoHistory, MoneyInv, TypeInv, SettledIsLearned
<1>5. CASE ProcessNormal \/ Seed
  <2>1. UNCHANGED initial /\ seeds' \in Nat /\ Pay(Normal)
    BY <1>5 DEF ProcessNormal, Seed, Seeded, MoneyInv, TypeInv
  <2>2. QED
    BY <2>1, PaymentKeepsBooks
<1>6. CASE ProcessNovel
  BY <1>6, PaymentKeepsBooks DEF ProcessNovel, MoneyInv, TypeInv
<1>7. CASE ProcessAttack
  BY <1>7, PaymentKeepsBooks DEF ProcessAttack, MoneyInv, TypeInv
<1>8. CASE ProcessOriginal
  BY <1>8, PaymentKeepsBooks DEF ProcessOriginal, MoneyInv, TypeInv
<1>9. QED
  BY <1>1, <1>2, <1>3, <1>4, <1>5, <1>6, <1>7, <1>8 DEF Next, Continue

(***************************************************************************)
(* What left the simulated balance since the last reset is what the clean  *)
(* baseline was taught, to the cent, and the balance is never overdrawn    *)
(* (gateway.py:169-197, simulation.py:97-100).                             *)
(***************************************************************************)
THEOREM SpentIsLearned == Spec => []SettledIsLearned
<1>1. MoneyInv => SettledIsLearned
  BY DEF MoneyInv
<1>2. QED
  BY <1>1, InitMoney, MoneyKept, PTL DEF Spec

-----------------------------------------------------------------------------
(* Clearing the window. *)

(* A nonempty set of numbers up to n has a greatest one. *)
LEMMA GreatestNumber ==
  ASSUME NEW n \in Nat, NEW T \in SUBSET (0..n), T # {}
  PROVE  \E x \in T : \A y \in T : y <= x
<1> DEFINE above == {x..n : x \in T}
<1>1. above \subseteq FiniteSubsetsOf(Nat)
  <2>1. \A x \in T : IsFiniteSet(x..n)
    BY FS_Interval
  <2>2. QED
    BY <2>1 DEF FiniteSubsetsOf
<1>2. above # {}
  OBVIOUS
<1>3. IsWellFoundedOn(StrictSubsetOrdering(Nat), FiniteSubsetsOf(Nat))
  BY FS_StrictSubsetOrderingWellFounded
<1>4. \E A \in above : \A B \in above : <<B, A>> \notin StrictSubsetOrdering(Nat)
  <2> HIDE DEF above
  <2> QED
    BY <1>1, <1>2, <1>3, WFMin
<1>5. PICK x \in T : \A y \in T : <<y..n, x..n>> \notin StrictSubsetOrdering(Nat)
  BY <1>4
<1>6. ASSUME NEW y \in T, x < y
      PROVE  FALSE
  <2>1. y..n \subseteq x..n /\ x \in x..n /\ x \notin y..n
    BY <1>6
  <2>2. y..n \in SUBSET Nat /\ x..n \in SUBSET Nat /\ y..n # x..n
    BY <2>1
  <2>3. <<y..n, x..n>> \in StrictSubsetOrdering(Nat)
    BY <2>1, <2>2, Zenon DEF StrictSubsetOrdering
  <2>4. QED
    BY <2>3, <1>5
<1>7. QED
  BY <1>6

(* Attempts at the end of the list that are in the window stay there. *)
LEMMA Clearing ==
  ASSUME NEW list \in Seq(Nat), NEW m \in 0..Len(list),
         \A k \in 0..(m - 1) : list[Len(list) - k] <= VelocityWindow
  PROVE  \E d \in 0..(Len(list) - m) : Kept(list) = SubSeq(list, d + 1, Len(list))
<1> DEFINE old == {k \in 0..Len(list) : \A i \in 1..k : Outlived(list[i])}
           cleared == CHOOSE k \in old : \A j \in old : j <= k
<1>1. 0 \in old /\ old \in SUBSET (0..Len(list)) /\ Len(list) \in Nat
  OBVIOUS
<1>2. cleared \in old
  <2>1. \E k \in old : \A j \in old : j <= k
    <3> HIDE DEF old
    <3> QED
      BY <1>1, GreatestNumber
  <2>2. QED
    BY <2>1
<1>3. cleared <= Len(list) - m
  <2>1. SUFFICES ASSUME cleared > Len(list) - m
                 PROVE  FALSE
    BY <1>2
  <2> HIDE DEF cleared
  <2>2. m - 1 \in 0..(m - 1) /\ Len(list) - (m - 1) \in 1..cleared
    BY <1>1, <1>2, <2>1
  <2>3. Outlived(list[Len(list) - (m - 1)])
    BY <1>2, <2>2
  <2>4. list[Len(list) - (m - 1)] \in Nat
    BY <1>1, <1>2, <2>2
  <2>5. list[Len(list) - (m - 1)] <= VelocityWindow
    BY <2>2
  <2>6. QED
    BY <2>3, <2>4, <2>5, DetectionAssumption DEF Outlived
<1>4. Kept(list) = SubSeq(list, cleared + 1, Len(list))
  BY DEF Kept
<1> HIDE DEF cleared
<1>5. cleared \in 0..(Len(list) - m)
  BY <1>1, <1>2, <1>3
<1> HIDE DEF old
<1>6. QED
  BY <1>4, <1>5

LEMMA AgedType ==
  ASSUME NEW list \in Seq(Nat), NEW s \in Nat
  PROVE  /\ Aged(list, s) \in Seq(Nat)
         /\ Len(Aged(list, s)) = Len(list)
         /\ \A i \in 1..Len(list) : Aged(list, s)[i] <= list[i] + s
<1>1. DOMAIN list = 1..Len(list) /\ Len(list) \in Nat
  OBVIOUS
<1>2. \A i \in 1..Len(list) : list[i] \in Nat
  OBVIOUS
<1> DEFINE e(i) == IF list[i] + s > VelocityWindow THEN VelocityWindow + 1 ELSE list[i] + s
<1>3. Aged(list, s) = [i \in 1..Len(list) |-> e(i)]
  BY <1>1 DEF Aged
<1>4. \A i \in 1..Len(list) : e(i) \in Nat /\ e(i) <= list[i] + s
  BY <1>2, DetectionAssumption
<1> HIDE DEF e
<1>5. [i \in 1..Len(list) |-> e(i)] \in Seq(Nat)
  BY <1>1, <1>4, IsASeq
<1>6. QED
  BY <1>1, <1>3, <1>4, <1>5

Attempted(list) == Aged(Append(Kept(list), 0), 1)

(* One more attempt, a second ago, at the end of those already packed. *)
LEMMA AttemptPacks ==
  ASSUME NEW list \in Seq(Nat), NEW m \in Nat, Packed(list, m), m < VelocityWindow
  PROVE  /\ Attempted(list) \in Seq(Nat)
         /\ Packed(Attempted(list), m + 1)
         /\ Len(Kept(list)) \in Nat /\ m <= Len(Kept(list))
<1>1. m \in 0..Len(list) /\ Len(list) \in Nat /\ VelocityWindow \in Nat
  BY DetectionAssumption DEF Packed
<1>2. \A k \in 0..(m - 1) : list[Len(list) - k] <= VelocityWindow
  <2> SUFFICES ASSUME NEW k \in 0..(m - 1)
               PROVE  list[Len(list) - k] <= VelocityWindow
    OBVIOUS
  <2>1. Len(list) - k \in 1..Len(list)
    BY <1>1
  <2>2. list[Len(list) - k] \in Nat /\ list[Len(list) - k] <= k + 2
    BY <2>1 DEF Packed
  <2>3. QED
    BY <1>1, <2>2
<1>3. PICK d \in 0..(Len(list) - m) : Kept(list) = SubSeq(list, d + 1, Len(list))
  BY <1>1, <1>2, Clearing
<1> DEFINE kept == Kept(list)
           all == Append(kept, 0)
           n == Len(list) - d
<1>4. n \in Nat /\ m <= n
  BY <1>1, <1>3
<1>5. /\ kept \in Seq(Nat) /\ Len(kept) = n
      /\ \A i \in 1..n : kept[i] = list[d + i]
  <2>1. d + 1 \in Int /\ Len(list) \in Int /\ \A i \in (d + 1)..Len(list) : list[i] \in Nat
    BY <1>1, <1>3
  <2>2. /\ SubSeq(list, d + 1, Len(list)) \in Seq(Nat)
        /\ Len(SubSeq(list, d + 1, Len(list))) =
             IF d + 1 <= Len(list) THEN Len(list) - (d + 1) + 1 ELSE 0
        /\ \A i \in 1..(Len(list) - (d + 1) + 1) :
             SubSeq(list, d + 1, Len(list))[i] = list[d + 1 + i - 1]
    BY <2>1, SubSeqProperties
  <2>3. Len(list) - (d + 1) + 1 = n /\ \A i \in 1..n : d + 1 + i - 1 = d + i
    BY <1>1, <1>3
  <2>4. kept \in Seq(Nat)
    BY <1>3, <2>2
  <2>5. Len(kept) = n
    <3>1. (IF d + 1 <= Len(list) THEN Len(list) - (d + 1) + 1 ELSE 0) = n
      BY <1>1, <1>3
    <3> HIDE DEF n
    <3>2. QED
      BY <1>3, <2>2, <3>1
  <2>6. \A i \in 1..n : kept[i] = list[d + i]
    <3> HIDE DEF n
    <3> QED
      BY <1>3, <2>2, <2>3
  <2>7. QED
    BY <2>4, <2>5, <2>6
<1>6. /\ all \in Seq(Nat) /\ Len(all) = n + 1
      /\ \A i \in 1..n : all[i] = kept[i]
      /\ all[n + 1] = 0
  BY <1>5, AppendProperties
<1>7. /\ Attempted(list) \in Seq(Nat)
      /\ Len(Attempted(list)) = n + 1
      /\ \A i \in 1..(n + 1) : Attempted(list)[i] <= all[i] + 1
  BY <1>6, AgedType DEF Attempted
<1> HIDE DEF kept, all, n
<1>8. \A k \in 0..m : Attempted(list)[(n + 1) - k] <= k + 2
  <2> SUFFICES ASSUME NEW k \in 0..m
               PROVE  Attempted(list)[(n + 1) - k] <= k + 2
    OBVIOUS
  <2>1. (n + 1) - k \in 1..(n + 1)
    BY <1>4
  <2>2. /\ Attempted(list)[(n + 1) - k] \in Nat /\ all[(n + 1) - k] \in Nat
        /\ Attempted(list)[(n + 1) - k] <= all[(n + 1) - k] + 1
    <3>1. \A i \in 1..(n + 1) : all[i] \in Nat
      BY <1>6
    <3>2. \A i \in 1..(n + 1) : Attempted(list)[i] \in Nat
      BY <1>7
    <3>3. QED
      BY ONLY <1>7, <2>1, <3>1, <3>2
  <2>3. CASE k = 0
    <3>1. (n + 1) - k = n + 1
      BY <1>4, <2>3
    <3>2. QED
      BY <1>6, <2>2, <2>3, <3>1
  <2>4. CASE k # 0
    <3>1. /\ (n + 1) - k \in 1..n /\ k - 1 \in 0..(m - 1)
          /\ d + ((n + 1) - k) = Len(list) - (k - 1)
      BY <1>1, <1>3, <1>4, <2>4 DEF n
    <3>2. all[(n + 1) - k] = list[Len(list) - (k - 1)]
      BY <1>5, <1>6, <3>1
    <3>3. list[Len(list) - (k - 1)] <= (k - 1) + 2
      BY <3>1 DEF Packed
    <3>4. \A x, y, z \in Nat : x <= y + 1 /\ y <= (z - 1) + 2 => x <= z + 2
      OBVIOUS
    <3>5. k \in Nat /\ all[(n + 1) - k] <= (k - 1) + 2
      BY <1>4, <3>2, <3>3
    <3>6. QED
      BY ONLY <2>2, <3>4, <3>5
  <2>5. QED
    BY <2>3, <2>4
<1>9. \A k \in 0..((m + 1) - 1) : Attempted(list)[Len(Attempted(list)) - k] <= k + 2
  BY <1>7, <1>8
<1>10. QED
  BY <1>4, <1>5, <1>7, <1>9 DEF Packed, kept

LEMMA PackedLess ==
  ASSUME NEW list \in Seq(Nat), NEW m \in Nat, NEW n \in 0..m, Packed(list, m)
  PROVE  Packed(list, n)
BY DEF Packed

LEMMA FirstAttempt ==
  ASSUME NEW list \in Seq(Nat), Len(list) = 0
  PROVE  /\ Attempted(list) \in Seq(Nat)
         /\ Len(Attempted(list)) = 1
         /\ Attempted(list)[1] <= 1
<1> DEFINE all == Append(Kept(list), 0)
<1>1. PICK d \in 0..0 : Kept(list) = SubSeq(list, d + 1, 0)
  <2>1. 0 \in 0..Len(list) /\ \A k \in 0..(0 - 1) : list[Len(list) - k] <= VelocityWindow
    OBVIOUS
  <2>2. \E d \in 0..(Len(list) - 0) : Kept(list) = SubSeq(list, d + 1, Len(list))
    BY <2>1, Clearing
  <2>3. QED
    BY <2>2
<1>2. Kept(list) = <<>>
  <2>1. d + 1 \in Int /\ 0 \in Int /\ 0 < d + 1
    OBVIOUS
  <2>2. QED
    BY <1>1, <2>1, SubSeqEmpty
<1>3. all = <<0>>
  BY <1>2
<1> HIDE DEF all
<1>4. all \in Seq(Nat) /\ Len(all) = 1 /\ all[1] = 0 /\ 1 \in 1..Len(all)
  BY <1>3
<1>5. /\ Aged(all, 1) \in Seq(Nat)
      /\ Len(Aged(all, 1)) = Len(all)
      /\ \A i \in 1..Len(all) : Aged(all, 1)[i] <= all[i] + 1
  BY <1>4, AgedType
<1>6. Aged(all, 1)[1] <= 1
  BY <1>4, <1>5
<1>7. QED
  BY <1>4, <1>5, <1>6 DEF Attempted, all

-----------------------------------------------------------------------------
(* Scripts. *)

LEMMA HeadIsFirst ==
  ASSUME NEW s \in Seq(Instructions)
  PROVE  \A w : (s # <<>> /\ Head(s) = w) <=> (1 <= Len(s) /\ s[1] = w)
OBVIOUS

(* What is left of a script is a script. *)
LEMMA TailIsWellFormed ==
  ASSUME NEW s, WellFormed(s), s # <<>>
  PROVE  /\ WellFormed(Tail(s))
         /\ Len(Tail(s)) = Len(s) - 1 /\ Len(s) \in Nat \ {0}
         /\ \A i \in 1..(Len(s) - 1) : Tail(s)[i] = s[i + 1]
<1>1. s \in Seq(Instructions) /\ Len(s) \in Nat \ {0}
  BY DEF WellFormed
<1> DEFINE t == Tail(s)
<1>2. t \in Seq(Instructions) /\ Len(t) = Len(s) - 1
      /\ \A i \in 1..Len(t) : t[i] = s[i + 1]
  BY <1>1, HeadTailProperties
<1> HIDE DEF t
<1>3. WellFormed(t)
  <2>1. SUFFICES ASSUME NEW i \in 1..Len(t)
        PROVE  /\ t[i] = "reset" => i = Len(t) \/ t[i + 1] \in {"normal", "seed", "original"}
               /\ t[i] = "seed" => i + 2 <= Len(t) /\ t[i + 1] = "wait"
               /\ t[i] = "wait" => \/ i + 1 <= Len(t) /\ t[i + 1] = "novel"
                                   \/ i + 5 <= Len(t) /\ \A k \in 1..5 : t[i + k] = "attack"
               /\ t[i] = "original" => i + 1 <= Len(t) /\ t[i + 1] = "replayed"
               /\ t[i] = "attack" => i = Len(t) \/ t[i + 1] \in {"attack", "reset"}
               /\ t[i] \in {"normal", "novel", "replayed"} => i = Len(t)
    BY <1>2 DEF WellFormed
  <2>2. /\ i + 1 \in 1..Len(s) /\ t[i] = s[i + 1] /\ i \in Nat /\ Len(t) \in Nat
        /\ \A k \in 1..5 : i + k <= Len(t) => t[i + k] = s[(i + 1) + k]
    <3>1. i + 1 \in 1..Len(s) /\ i \in Nat /\ Len(t) \in Nat
      BY <1>1, <1>2
    <3>2. \A k \in 1..5 : i + k <= Len(t) => i + k \in 1..Len(t) /\ (i + k) + 1 = (i + 1) + k
      BY <3>1
    <3>3. QED
      BY <1>2, <3>1, <3>2
  <2>3. i + 1 <= Len(t) => t[i + 1] = s[(i + 1) + 1]
    BY <2>2
  <2>4. i + 1 = Len(s) <=> i = Len(t)
    BY <1>1, <1>2, <2>2
  <2>5. t[i] = "wait" => \/ i + 1 <= Len(t) /\ t[i + 1] = "novel"
                         \/ i + 5 <= Len(t) /\ \A k \in 1..5 : t[i + k] = "attack"
    <3> SUFFICES ASSUME t[i] = "wait"
                 PROVE  \/ i + 1 <= Len(t) /\ t[i + 1] = "novel"
                        \/ i + 5 <= Len(t) /\ \A k \in 1..5 : t[i + k] = "attack"
      OBVIOUS
    <3>1. \/ (i + 1) + 1 <= Len(s) /\ s[(i + 1) + 1] = "novel"
          \/ (i + 1) + 5 <= Len(s) /\ \A k \in 1..5 : s[(i + 1) + k] = "attack"
      BY <2>2 DEF WellFormed
    <3>2. CASE (i + 1) + 1 <= Len(s) /\ s[(i + 1) + 1] = "novel"
      BY <1>1, <1>2, <2>2, <2>3, <3>2
    <3>3. CASE (i + 1) + 5 <= Len(s) /\ \A k \in 1..5 : s[(i + 1) + k] = "attack"
      <4>1. i + 5 <= Len(t) /\ \A k \in 1..5 : i + k <= Len(t)
        BY <1>1, <1>2, <2>2, <3>3
      <4>2. QED
        BY <2>2, <3>3, <4>1
    <3>4. QED
      BY <3>1, <3>2, <3>3
  <2>6. /\ s[i + 1] = "reset" =>
             i + 1 = Len(s) \/ s[(i + 1) + 1] \in {"normal", "seed", "original"}
        /\ s[i + 1] = "seed" => (i + 1) + 2 <= Len(s) /\ s[(i + 1) + 1] = "wait"
        /\ s[i + 1] = "original" => (i + 1) + 1 <= Len(s) /\ s[(i + 1) + 1] = "replayed"
        /\ s[i + 1] = "attack" => i + 1 = Len(s) \/ s[(i + 1) + 1] \in {"attack", "reset"}
        /\ s[i + 1] \in {"normal", "novel", "replayed"} => i + 1 = Len(s)
    BY <2>2 DEF WellFormed
  <2>7. i # Len(t) => i + 1 <= Len(t)
    BY <2>2
  <2>8. /\ (i + 1) + 2 <= Len(s) => i + 2 <= Len(t) /\ i + 1 <= Len(t)
        /\ (i + 1) + 1 <= Len(s) => i + 1 <= Len(t)
    BY <1>1, <1>2, <2>2
  <2>9. QED
    BY <2>2, <2>3, <2>4, <2>5, <2>6, <2>7, <2>8
<1>4. QED
  BY <1>1, <1>2, <1>3 DEF t

LEMMA BurstIsFive ==
  /\ Burst \in Seq(Instructions) /\ Len(Burst) = 5
  /\ \A i \in 1..5 : Burst[i] = "attack"
<1>1. Burst = <<"attack", "attack", "attack", "attack", "attack">>
  BY DEF Burst
<1>2. QED
  BY <1>1 DEF Instructions

LEMMA WithBurst ==
  ASSUME NEW a \in Seq(Instructions)
  PROVE  /\ a \o Burst \in Seq(Instructions)
         /\ Len(a \o Burst) = Len(a) + 5
         /\ \A i \in 1..Len(a) : (a \o Burst)[i] = a[i]
         /\ \A i \in (Len(a) + 1)..(Len(a) + 5) : (a \o Burst)[i] = "attack"
<1> DEFINE n == Len(a)
<1>0. n \in Nat
  OBVIOUS
<1>1. /\ a \o Burst \in Seq(Instructions) /\ Len(a \o Burst) = Len(a) + Len(Burst)
      /\ \A i \in 1..(Len(a) + Len(Burst)) :
           (a \o Burst)[i] = IF i <= Len(a) THEN a[i] ELSE Burst[i - Len(a)]
  BY BurstIsFive, ConcatProperties
<1>2. \A i \in 1..(n + 5) : (a \o Burst)[i] = IF i <= n THEN a[i] ELSE Burst[i - n]
  BY <1>1, BurstIsFive
<1> HIDE DEF n
<1>3. \A i \in (n + 1)..(n + 5) : i \in 1..(n + 5) /\ ~(i <= n) /\ i - n \in 1..5
  BY <1>0
<1>4. \A i \in 1..n : i \in 1..(n + 5) /\ i <= n
  BY <1>0
<1>5. \A i \in (n + 1)..(n + 5) : (a \o Burst)[i] = "attack"
  BY <1>2, <1>3, BurstIsFive
<1>6. \A i \in 1..n : (a \o Burst)[i] = a[i]
  BY <1>2, <1>4
<1>7. QED
  BY <1>1, <1>5, <1>6, BurstIsFive DEF n

(* What the operations do, instruction by instruction. *)
Entries(operation, s) ==
  /\ s \in Seq(Instructions)
  /\ operation = "run_normal" => Len(s) = 1 /\ s[1] = "normal"
  /\ operation = "reset" => Len(s) = 1 /\ s[1] = "reset"
  /\ operation = "run_normal_scenario" => Len(s) = 2 /\ s[1] = "reset" /\ s[2] = "normal"
  /\ operation = "run_approval_scenario" =>
       Len(s) = 4 /\ s[1] = "reset" /\ s[2] = "seed" /\ s[3] = "wait" /\ s[4] = "novel"
  /\ operation = "run_replay_scenario" =>
       Len(s) = 3 /\ s[1] = "reset" /\ s[2] = "original" /\ s[3] = "replayed"
  /\ operation = "run_attack" =>
       Len(s) = 7 /\ s[1] = "seed" /\ s[2] = "wait" /\ \A i \in 3..7 : s[i] = "attack"
  /\ operation = "run_attack_scenario" =>
       /\ Len(s) = 8 /\ s[1] = "reset" /\ s[2] = "seed" /\ s[3] = "wait"
       /\ \A i \in 4..8 : s[i] = "attack"
  /\ operation = "run_demo_sequence" =>
       /\ Len(s) = 10 /\ s[1] = "reset" /\ s[2] = "seed" /\ s[3] = "wait"
       /\ \A i \in 4..8 : s[i] = "attack"
       /\ s[9] = "reset" /\ s[10] = "normal"

LEMMA ScriptEntries ==
  ASSUME NEW operation \in Operations
  PROVE  Entries(operation, Script(operation))
<1> DEFINE s == Script(operation)
<1>1. CASE operation = "run_normal"
  <2>1. s = <<"normal">>
    BY <1>1 DEF Script
  <2> HIDE DEF s
  <2>2. s \in Seq(Instructions) /\ Len(s) = 1 /\ s[1] = "normal"
    BY <2>1 DEF Instructions
  <2>3. QED
    BY <1>1, <2>2 DEF Entries, s
<1>2. CASE operation = "reset"
  <2>1. s = <<"reset">>
    BY <1>2 DEF Script
  <2> HIDE DEF s
  <2>2. s \in Seq(Instructions) /\ Len(s) = 1 /\ s[1] = "reset"
    BY <2>1 DEF Instructions
  <2>3. QED
    BY <1>2, <2>2 DEF Entries, s
<1>3. CASE operation = "run_normal_scenario"
  <2>1. s = <<"reset", "normal">>
    BY <1>3 DEF Script
  <2> HIDE DEF s
  <2>2. s \in Seq(Instructions) /\ Len(s) = 2 /\ s[1] = "reset" /\ s[2] = "normal"
    BY <2>1 DEF Instructions
  <2>3. QED
    BY <1>3, <2>2 DEF Entries, s
<1>4. CASE operation = "run_approval_scenario"
  <2>1. s = <<"reset", "seed", "wait", "novel">>
    BY <1>4 DEF Script
  <2> HIDE DEF s
  <2>2. /\ s \in Seq(Instructions) /\ Len(s) = 4
        /\ s[1] = "reset" /\ s[2] = "seed" /\ s[3] = "wait" /\ s[4] = "novel"
    BY <2>1 DEF Instructions
  <2>3. QED
    BY <1>4, <2>2 DEF Entries, s
<1>5. CASE operation = "run_replay_scenario"
  <2>1. s = <<"reset", "original", "replayed">>
    BY <1>5 DEF Script
  <2> HIDE DEF s
  <2>2. /\ s \in Seq(Instructions) /\ Len(s) = 3
        /\ s[1] = "reset" /\ s[2] = "original" /\ s[3] = "replayed"
    BY <2>1 DEF Instructions
  <2>3. QED
    BY <1>5, <2>2 DEF Entries, s
<1>6. CASE operation = "run_attack"
  <2> DEFINE a == <<"seed", "wait">>
  <2>1. s = a \o Burst
    BY <1>6 DEF Script
  <2>2. a \in Seq(Instructions) /\ Len(a) = 2 /\ a[1] = "seed" /\ a[2] = "wait"
    BY DEF Instructions
  <2> HIDE DEF s, a
  <2>3. /\ s \in Seq(Instructions) /\ Len(s) = 7
        /\ s[1] = "seed" /\ s[2] = "wait"
        /\ \A i \in 3..7 : s[i] = "attack"
    <3>1. /\ a \o Burst \in Seq(Instructions)
          /\ Len(a \o Burst) = Len(a) + 5
          /\ \A i \in 1..Len(a) : (a \o Burst)[i] = a[i]
          /\ \A i \in (Len(a) + 1)..(Len(a) + 5) : (a \o Burst)[i] = "attack"
      BY <2>2, WithBurst, Zenon
    <3>2. /\ s \in Seq(Instructions)
          /\ Len(s) = Len(a) + 5
          /\ \A i \in 1..Len(a) : s[i] = a[i]
          /\ \A i \in (Len(a) + 1)..(Len(a) + 5) : s[i] = "attack"
      BY ONLY <2>1, <3>1, Zenon
    <3>3. Len(a) = 2
      BY <2>2
    <3>4. Len(s) = 7 /\ \A i \in 3..7 : s[i] = "attack"
      BY ONLY <3>2, <3>3
    <3>5. s[1] = a[1] /\ s[2] = a[2]
      BY ONLY <3>2, <3>3
    <3>6. QED
      BY <2>2, <3>2, <3>4, <3>5
  <2>4. QED
    BY <1>6, <2>3 DEF Entries, s
<1>7. CASE operation = "run_attack_scenario"
  <2> DEFINE a == <<"reset", "seed", "wait">>
  <2>1. s = a \o Burst
    BY <1>7 DEF Script
  <2>2. /\ a \in Seq(Instructions) /\ Len(a) = 3
        /\ a[1] = "reset" /\ a[2] = "seed" /\ a[3] = "wait"
    BY DEF Instructions
  <2> HIDE DEF s, a
  <2>3. /\ s \in Seq(Instructions) /\ Len(s) = 8
        /\ s[1] = "reset" /\ s[2] = "seed" /\ s[3] = "wait"
        /\ \A i \in 4..8 : s[i] = "attack"
    <3>1. /\ a \o Burst \in Seq(Instructions)
          /\ Len(a \o Burst) = Len(a) + 5
          /\ \A i \in 1..Len(a) : (a \o Burst)[i] = a[i]
          /\ \A i \in (Len(a) + 1)..(Len(a) + 5) : (a \o Burst)[i] = "attack"
      BY <2>2, WithBurst, Zenon
    <3>2. /\ s \in Seq(Instructions)
          /\ Len(s) = Len(a) + 5
          /\ \A i \in 1..Len(a) : s[i] = a[i]
          /\ \A i \in (Len(a) + 1)..(Len(a) + 5) : s[i] = "attack"
      BY ONLY <2>1, <3>1, Zenon
    <3>3. Len(a) = 3
      BY <2>2
    <3>4. Len(s) = 8 /\ \A i \in 4..8 : s[i] = "attack"
      BY ONLY <3>2, <3>3
    <3>5. s[1] = a[1] /\ s[2] = a[2] /\ s[3] = a[3]
      BY ONLY <3>2, <3>3
    <3>6. QED
      BY <2>2, <3>2, <3>4, <3>5
  <2>4. QED
    BY <1>7, <2>3 DEF Entries, s
<1>8. CASE operation = "run_demo_sequence"
  <2> DEFINE a == <<"reset", "seed", "wait">>
             b == a \o Burst
             c == <<"reset", "normal">>
  <2>1. s = b \o c
    BY <1>8 DEF Script
  <2>2. /\ a \in Seq(Instructions) /\ Len(a) = 3
        /\ a[1] = "reset" /\ a[2] = "seed" /\ a[3] = "wait"
    BY DEF Instructions
  <2>3. c \in Seq(Instructions) /\ Len(c) = 2 /\ c[1] = "reset" /\ c[2] = "normal"
    BY DEF Instructions
  <2> HIDE DEF s, a, c
  <2>4. /\ b \in Seq(Instructions) /\ Len(b) = 8
        /\ b[1] = "reset" /\ b[2] = "seed" /\ b[3] = "wait"
        /\ \A i \in 4..8 : b[i] = "attack"
    <3>1. /\ a \o Burst \in Seq(Instructions)
          /\ Len(a \o Burst) = Len(a) + 5
          /\ \A i \in 1..Len(a) : (a \o Burst)[i] = a[i]
          /\ \A i \in (Len(a) + 1)..(Len(a) + 5) : (a \o Burst)[i] = "attack"
      BY <2>2, WithBurst, Zenon
    <3>2. /\ b \in Seq(Instructions)
          /\ Len(b) = Len(a) + 5
          /\ \A i \in 1..Len(a) : b[i] = a[i]
          /\ \A i \in (Len(a) + 1)..(Len(a) + 5) : b[i] = "attack"
      BY <3>1, Zenon
    <3>3. Len(a) = 3
      BY <2>2
    <3>4. Len(b) = 8 /\ \A i \in 4..8 : b[i] = "attack"
      BY ONLY <3>2, <3>3
    <3>5. b[1] = a[1] /\ b[2] = a[2] /\ b[3] = a[3]
      BY ONLY <3>2, <3>3
    <3>6. QED
      BY <2>2, <3>2, <3>4, <3>5
  <2> HIDE DEF b
  <2>5. /\ s \in Seq(Instructions) /\ Len(s) = 10
        /\ s[1] = "reset" /\ s[2] = "seed" /\ s[3] = "wait"
        /\ \A i \in 4..8 : s[i] = "attack"
        /\ s[9] = "reset" /\ s[10] = "normal"
    <3>1. /\ b \o c \in Seq(Instructions) /\ Len(b \o c) = Len(b) + Len(c)
          /\ \A i \in 1..(Len(b) + Len(c)) :
               (b \o c)[i] = IF i <= Len(b) THEN b[i] ELSE c[i - Len(b)]
      BY <2>3, <2>4, ConcatProperties
    <3>2. /\ s \in Seq(Instructions) /\ Len(s) = Len(b) + Len(c)
          /\ \A i \in 1..(Len(b) + Len(c)) :
               s[i] = IF i <= Len(b) THEN b[i] ELSE c[i - Len(b)]
      BY ONLY <2>1, <3>1, Zenon
    <3>3. Len(b) = 8 /\ Len(c) = 2
      BY <2>3, <2>4
    <3>4. \A i \in 1..8 : s[i] = b[i]
      BY ONLY <3>2, <3>3
    <3>5. s[9] = c[1] /\ s[10] = c[2]
      <4>1. /\ 9 \in 1..(8 + 2) /\ 10 \in 1..(8 + 2)
            /\ 9 - 8 = 1 /\ 10 - 8 = 2 /\ ~(9 <= 8) /\ ~(10 <= 8)
        OBVIOUS
      <4>2. \A i \in 1..(8 + 2) : s[i] = IF i <= 8 THEN b[i] ELSE c[i - 8]
        BY ONLY <3>2, <3>3
      <4>3. QED
        BY ONLY <4>1, <4>2
    <3>6. Len(s) = 10
      BY ONLY <3>2, <3>3
    <3>7. QED
      BY <2>3, <2>4, <3>2, <3>4, <3>5, <3>6
  <2>6. QED
    BY <1>8, <2>5 DEF Entries, s
<1>9. QED
  BY <1>1, <1>2, <1>3, <1>4, <1>5, <1>6, <1>7, <1>8 DEF Operations, s

(* A script that begins with a baseline goes on to a burst. *)
LEMMA ScriptsAreWellFormed ==
  ASSUME NEW operation \in Operations
  PROVE  /\ WellFormed(Script(operation))
         /\ Script(operation) # <<>>
         /\ Script(operation)[1] \in {"normal", "seed", "reset"}
         /\ Script(operation)[1] = "seed" => Script(operation)[3] = "attack"
<1> DEFINE s == Script(operation)
<1>1. Entries(operation, s)
  BY ScriptEntries
<1> SUFFICES /\ WellFormed(s) /\ s # <<>>
             /\ s[1] \in {"normal", "seed", "reset"}
             /\ s[1] = "seed" => s[3] = "attack"
  OBVIOUS
<1> HIDE DEF s
<1>2. CASE operation = "run_normal"
  <2>1. /\ s \in Seq(Instructions)
        /\ Len(s) = 1 /\ s[1] = "normal"
    BY <1>1, <1>2 DEF Entries
  <2>2. WellFormed(s)
    BY <2>1 DEF WellFormed
  <2>3. s # <<>>
    <3>1. Len(s) # 0
      BY <2>1
    <3>2. QED
      BY <3>1
  <2>4. QED
    BY <2>1, <2>2, <2>3
<1>3. CASE operation = "reset"
  <2>1. /\ s \in Seq(Instructions)
        /\ Len(s) = 1 /\ s[1] = "reset"
    BY <1>1, <1>3 DEF Entries
  <2>2. WellFormed(s)
    BY <2>1 DEF WellFormed
  <2>3. s # <<>>
    <3>1. Len(s) # 0
      BY <2>1
    <3>2. QED
      BY <3>1
  <2>4. QED
    BY <2>1, <2>2, <2>3
<1>4. CASE operation = "run_normal_scenario"
  <2>1. /\ s \in Seq(Instructions)
        /\ Len(s) = 2 /\ s[1] = "reset" /\ s[2] = "normal"
    BY <1>1, <1>4 DEF Entries
  <2>2. WellFormed(s)
    BY <2>1 DEF WellFormed
  <2>3. s # <<>>
    <3>1. Len(s) # 0
      BY <2>1
    <3>2. QED
      BY <3>1
  <2>4. QED
    BY <2>1, <2>2, <2>3
<1>5. CASE operation = "run_approval_scenario"
  <2>1. /\ s \in Seq(Instructions)
        /\ Len(s) = 4 /\ s[1] = "reset" /\ s[2] = "seed" /\ s[3] = "wait" /\ s[4] = "novel"
    BY <1>1, <1>5 DEF Entries
  <2>2. WellFormed(s)
    BY <2>1 DEF WellFormed
  <2>3. s # <<>>
    <3>1. Len(s) # 0
      BY <2>1
    <3>2. QED
      BY <3>1
  <2>4. QED
    BY <2>1, <2>2, <2>3
<1>6. CASE operation = "run_replay_scenario"
  <2>1. /\ s \in Seq(Instructions)
        /\ Len(s) = 3 /\ s[1] = "reset" /\ s[2] = "original" /\ s[3] = "replayed"
    BY <1>1, <1>6 DEF Entries
  <2>2. WellFormed(s)
    BY <2>1 DEF WellFormed
  <2>3. s # <<>>
    <3>1. Len(s) # 0
      BY <2>1
    <3>2. QED
      BY <3>1
  <2>4. QED
    BY <2>1, <2>2, <2>3
<1>7. CASE operation = "run_attack"
  <2>1. /\ s \in Seq(Instructions)
        /\ Len(s) = 7 /\ s[1] = "seed" /\ s[2] = "wait" /\ \A i \in 3..7 : s[i] = "attack"
    BY <1>1, <1>7 DEF Entries
  <2>2. WellFormed(s)
    BY <2>1 DEF WellFormed
  <2>3. s # <<>>
    <3>1. Len(s) # 0
      BY <2>1
    <3>2. QED
      BY <3>1
  <2>4. QED
    BY <2>1, <2>2, <2>3
<1>8. CASE operation = "run_attack_scenario"
  <2>1. /\ s \in Seq(Instructions)
        /\ Len(s) = 8 /\ s[1] = "reset" /\ s[2] = "seed" /\ s[3] = "wait"
        /\ \A i \in 4..8 : s[i] = "attack"
    BY <1>1, <1>8 DEF Entries
  <2>2. WellFormed(s)
    BY <2>1 DEF WellFormed
  <2>3. s # <<>>
    <3>1. Len(s) # 0
      BY <2>1
    <3>2. QED
      BY <3>1
  <2>4. QED
    BY <2>1, <2>2, <2>3
<1>9. CASE operation = "run_demo_sequence"
  <2>1. /\ s \in Seq(Instructions)
        /\ Len(s) = 10 /\ s[1] = "reset" /\ s[2] = "seed" /\ s[3] = "wait"
        /\ \A i \in 4..8 : s[i] = "attack"
        /\ s[9] = "reset" /\ s[10] = "normal"
    BY <1>1, <1>9 DEF Entries
  <2>2. WellFormed(s)
    BY <2>1 DEF WellFormed
  <2>3. s # <<>>
    <3>1. Len(s) # 0
      BY <2>1
    <3>2. QED
      BY <3>1
  <2>4. QED
    BY <2>1, <2>2, <2>3
<1>10. QED
  BY <1>2, <1>3, <1>4, <1>5, <1>6, <1>7, <1>8, <1>9 DEF Operations, s

-----------------------------------------------------------------------------
(***************************************************************************)
(* The velocity rule as the engine calibrates it: the window is no shorter *)
(* than its threshold, and a burst of five trips it for the payment after. *)
(***************************************************************************)
Calibrated == VelocityThreshold <= VelocityWindow /\ VelocityThreshold <= 6

LEMMA Thresholds ==
  ASSUME Calibrated
  PROVE  /\ VelocityThreshold \in Nat \ {0} /\ VelocityWindow \in Nat \ {0}
         /\ VelocityThreshold <= VelocityWindow /\ VelocityThreshold <= 6
BY DetectionAssumption DEF Calibrated

(* What a payment does to the window, and when it may settle. *)
LEMMA PaymentIsPaced ==
  ASSUME Calibrated, MoneyInv, BaselineInv,
         NEW payment \in {Normal, Novel, Attack}, Pay(payment),
         NEW m \in 0..(VelocityThreshold - 1), Packed(ages, m)
  PROVE  /\ ages' = Attempted(ages)
         /\ ages' \in Seq(Nat)
         /\ Packed(ages', m + 1)
         /\ \/ clean' = clean /\ Decide(payment) # "ALLOW"
            \/ /\ clean' = Learned(clean, payment.recipient, payment.amount)
               /\ Decide(payment) = "ALLOW"
               /\ m + 1 < VelocityThreshold
               /\ clean.number = 0 \/ payment.recipient = "weather-api"
<1>1. ages' = Attempted(ages)
  BY DEF Pay, Attempted
<1>2. ages \in Seq(Nat) /\ m \in Nat /\ m < VelocityWindow
  BY Thresholds DEF BaselineInv
<1>3. /\ Attempted(ages) \in Seq(Nat) /\ Packed(Attempted(ages), m + 1)
      /\ Len(Kept(ages)) \in Nat /\ m <= Len(Kept(ages))
  BY <1>2, AttemptPacks
<1>4. CASE Decide(payment) = "ALLOW"
  <2>1. ~HighVelocity(Len(Kept(ages)) + 1) /\ ~NewRecipient(clean, payment.recipient)
    BY <1>4 DEF Decide, Signal
  <2>2. m + 1 < VelocityThreshold
    BY <1>3, <2>1, Thresholds DEF HighVelocity
  <2>3. clean.number = 0 \/ payment.recipient = "weather-api"
    BY <2>1 DEF NewRecipient, BaselineInv
  <2>4. QED
    BY <1>1, <1>3, <1>4, <2>2, <2>3 DEF Pay
<1>5. CASE Decide(payment) # "ALLOW"
  BY <1>1, <1>3, <1>5 DEF Pay
<1>6. QED
  BY <1>4, <1>5

(* An ordinary payment keeps the pace: it settles with an attempt of its own. *)
LEMMA NormalIsPaced ==
  ASSUME Calibrated, MoneyInv, BaselineInv, Paced, Pay(Normal),
         \/ seeds' = seeds
         \/ Decide(Normal) = "ALLOW" /\ seeds' = seeds + 1
  PROVE  /\ Paced' /\ BaselineInv'
         /\ \/ clean'.number = clean.number /\ Decide(Normal) # "ALLOW"
            \/ clean'.number = clean.number + 1 /\ Decide(Normal) = "ALLOW"
<1>1. PICK m \in 0..(VelocityThreshold - 1) : Packed(ages, m) /\ clean.number <= m + 2
  BY DEF Paced
<1>2. m \in Nat /\ m < VelocityThreshold /\ VelocityThreshold \in Nat
  BY Thresholds
<1>3. clean.number \in Nat /\ seeds \in Nat /\ seeds <= clean.number
  BY DEF MoneyInv, TypeInv, BaselineInv
<1>4. /\ ages' \in Seq(Nat)
      /\ Packed(ages', m + 1)
      /\ \/ clean' = clean /\ Decide(Normal) # "ALLOW"
         \/ /\ clean' = Learned(clean, Normal.recipient, Normal.amount)
            /\ Decide(Normal) = "ALLOW"
            /\ m + 1 < VelocityThreshold
  BY <1>1, PaymentIsPaced
<1>5. CASE Decide(Normal) # "ALLOW"
  <2>1. clean' = clean /\ seeds' = seeds
    BY <1>4, <1>5
  <2>2. Packed(ages', m)
    BY <1>2, <1>4, PackedLess
  <2>3. Paced'
    BY <1>1, <2>1, <2>2 DEF Paced
  <2>4. BaselineInv'
    BY <1>4, <2>1 DEF BaselineInv
  <2>5. QED
    BY <1>5, <2>1, <2>3, <2>4
<1>6. CASE Decide(Normal) = "ALLOW"
  <2>1. /\ clean' = Learned(clean, Normal.recipient, Normal.amount)
        /\ m + 1 < VelocityThreshold
    BY <1>4, <1>6
  <2>2. /\ clean'.number = clean.number + 1
        /\ clean'.recipients = clean.recipients \cup {Normal.recipient}
    BY <2>1 DEF Learned
  <2>3. clean'.recipients = {"weather-api"} /\ clean'.number # 0
    <3>1. Normal.recipient = "weather-api"
      BY DEF Normal
    <3>2. clean.recipients \subseteq {"weather-api"}
      BY DEF BaselineInv
    <3>3. QED
      BY <1>3, <2>2, <3>1, <3>2
  <2>4. m + 1 \in 0..(VelocityThreshold - 1) /\ clean'.number <= (m + 1) + 2
    BY <1>1, <1>2, <1>3, <2>1, <2>2
  <2>5. Paced'
    BY <1>4, <2>4 DEF Paced
  <2>6. clean'.number <= VelocityThreshold + 1 /\ seeds' <= clean'.number
    BY <1>2, <1>3, <2>2, <2>4
  <2>7. BaselineInv'
    BY <1>4, <2>3, <2>6 DEF BaselineInv
  <2>8. QED
    BY <1>6, <2>2, <2>5, <2>7
<1>7. QED
  BY <1>5, <1>6

(* A payment to a new recipient is refused. *)
LEMMA NovelIsRefused ==
  ASSUME Calibrated, MoneyInv, BaselineInv, clean.number > 0, seeds' = seeds,
         NEW payment \in {Novel, Attack}, Pay(payment),
         NEW m \in 0..(VelocityThreshold - 1), Packed(ages, m)
  PROVE  BaselineInv' /\ clean' = clean /\ Packed(ages', m + 1)
<1>1. payment.recipient # "weather-api"
  BY DEF Novel, Attack
<1>2. /\ ages' \in Seq(Nat)
      /\ Packed(ages', m + 1)
      /\ \/ clean' = clean
         \/ clean.number = 0 \/ payment.recipient = "weather-api"
  BY PaymentIsPaced
<1>3. clean' = clean
  BY <1>1, <1>2
<1>4. QED
  BY <1>2, <1>3 DEF BaselineInv

-----------------------------------------------------------------------------
(* The invariant, one instruction at a time. *)

(* how the heads of scripts are told *)
LEMMA Heads ==
  ASSUME NEW s, WellFormed(s)
  PROVE  /\ \A w : (s # <<>> /\ Head(s) = w) <=> (1 <= Len(s) /\ s[1] = w)
         /\ s # <<>> => 1 \in 1..Len(s)
         /\ Len(s) \in Nat
BY DEF WellFormed

LEMMA NextScript ==
  ASSUME ScriptInv, script # <<>>, Done, running # "none", running' = running
  PROVE  /\ ScriptInv'
         /\ Len(script') = Len(script) - 1
         /\ \A i \in 1..(Len(script) - 1) : script'[i] = script[i + 1]
         /\ \A w : (script' # <<>> /\ Head(script') = w) <=> (2 <= Len(script) /\ script[2] = w)
<1>1. /\ WellFormed(script') /\ Len(script) \in Nat \ {0}
      /\ Len(script') = Len(script) - 1
      /\ \A i \in 1..(Len(script) - 1) : script'[i] = script[i + 1]
  BY TailIsWellFormed DEF ScriptInv, Done
<1>2. \A w : (script' # <<>> /\ Head(script') = w) <=> (1 <= Len(script') /\ script'[1] = w)
  BY <1>1, Heads
<1>3. 1 <= Len(script') <=> 2 <= Len(script)
  BY <1>1
<1>4. 1 <= Len(script') => script'[1] = script[2]
  BY <1>1
<1>5. ScriptInv'
  BY <1>1 DEF ScriptInv
<1>6. QED
  BY <1>1, <1>2, <1>3, <1>4, <1>5

LEMMA ResetStep ==
  ASSUME Calibrated, IInv, MoneyInv', Reset
  PROVE  IInv'
<1> USE DEF Doing
<1>1. /\ script # <<>> /\ Head(script) = "reset" /\ Done
      /\ running # "none" /\ running' = running
      /\ ages' = <<>> /\ clean' = NoHistory /\ seeds' = 0
  BY DEF Reset, IInv, ScriptInv
<1>2. ScriptInv /\ WellFormed(script) /\ Len(script) \in Nat
  BY DEF IInv, ScriptInv, WellFormed
<1>3. /\ ScriptInv'
      /\ \A w : (script' # <<>> /\ Head(script') = w) <=> (2 <= Len(script) /\ script[2] = w)
  BY <1>1, <1>2, NextScript
<1>4. 2 <= Len(script) => script[2] \in {"normal", "seed", "original"}
  <2>1. 1 <= Len(script) /\ script[1] = "reset" /\ 1 \in 1..Len(script)
    BY <1>1, <1>2, Heads
  <2>2. 1 = Len(script) \/ script[1 + 1] \in {"normal", "seed", "original"}
    BY <1>2, <2>1 DEF WellFormed
  <2>3. QED
    BY <2>2
<1>5. clean'.number = 0 /\ clean'.recipients = {}
  BY <1>1 DEF NoHistory
<1>6. BaselineInv'
  BY <1>1, <1>5, Thresholds DEF BaselineInv
<1>7. PaceInv'
  <2>1. Packed(<<>>, 0)
    BY DEF Packed
  <2>2. 0 \in 0..(VelocityThreshold - 1) /\ 0 <= 0 + 2
    BY Thresholds
  <2>3. QED
    BY <1>1, <1>5, <2>1, <2>2 DEF PaceInv, Paced
<1>8. BurstInv' /\ ApprovalInv' /\ ReplayInv'
  BY <1>1, <1>3, <1>4, <1>5 DEF BurstInv, ApprovalInv, ReplayInv
<1>9. QED
  BY <1>3, <1>6, <1>7, <1>8 DEF IInv

LEMMA NormalStep ==
  ASSUME Calibrated, IInv, MoneyInv', ProcessNormal
  PROVE  IInv'
<1> USE DEF Doing
<1>1. /\ script # <<>> /\ Head(script) = "normal" /\ Done
      /\ running # "none" /\ running' = running
      /\ Pay(Normal) /\ Seeded
  BY DEF ProcessNormal, IInv, ScriptInv
<1>2. ScriptInv /\ WellFormed(script) /\ Len(script) \in Nat
  BY DEF IInv, ScriptInv, WellFormed
<1>3. /\ ScriptInv'
      /\ \A w : (script' # <<>> /\ Head(script') = w) <=> (2 <= Len(script) /\ script[2] = w)
  BY <1>1, <1>2, NextScript
<1>4. ~(2 <= Len(script))
  <2>1. 1 <= Len(script) /\ script[1] = "normal" /\ 1 \in 1..Len(script)
    BY <1>1, <1>2, Heads
  <2>2. 1 = Len(script)
    BY <1>2, <2>1 DEF WellFormed
  <2>3. QED
    BY <2>2
<1>5. Paced
  BY <1>1 DEF IInv, PaceInv
<1>6. Paced' /\ BaselineInv'
  BY <1>1, <1>5, NormalIsPaced DEF IInv, Seeded
<1>7. BurstInv' /\ ApprovalInv' /\ ReplayInv' /\ PaceInv'
  BY <1>3, <1>4, <1>6 DEF BurstInv, ApprovalInv, ReplayInv, PaceInv
<1>8. QED
  BY <1>3, <1>6, <1>7 DEF IInv

LEMMA SeedStep ==
  ASSUME Calibrated, IInv, MoneyInv', Seed
  PROVE  IInv'
<1> USE DEF Doing
<1>1. /\ script # <<>> /\ Head(script) = "seed" /\ seeds < 3
      /\ script' = script /\ running' = running
      /\ Pay(Normal) /\ Seeded
  BY DEF Seed
<1>2. Paced
  BY <1>1 DEF IInv, PaceInv
<1>3. /\ Paced' /\ BaselineInv'
      /\ \/ clean'.number = clean.number /\ Decide(Normal) # "ALLOW"
         \/ clean'.number = clean.number + 1 /\ Decide(Normal) = "ALLOW"
  BY <1>1, <1>2, NormalIsPaced DEF IInv, Seeded
<1>4. seeds \in Nat
  BY DEF IInv, MoneyInv, TypeInv
<1>5. script[3] = "novel" => clean'.number = seeds' /\ seeds' <= 3
  BY <1>1, <1>3, <1>4 DEF IInv, ApprovalInv, Seeded
<1>6. ScriptInv'
  BY <1>1 DEF IInv, ScriptInv
<1>7. BurstInv' /\ ApprovalInv' /\ ReplayInv' /\ PaceInv'
  BY <1>1, <1>3, <1>5 DEF BurstInv, ApprovalInv, ReplayInv, PaceInv
<1>8. QED
  BY <1>3, <1>6, <1>7 DEF IInv

LEMMA WarmStep ==
  ASSUME Calibrated, IInv, MoneyInv', Warm
  PROVE  IInv'
<1> USE DEF Doing
<1>1. /\ script # <<>> /\ Head(script) = "seed" /\ seeds >= 3 /\ Done
      /\ running # "none" /\ running' = running
      /\ UNCHANGED <<ages, clean, seeds>>
  BY DEF Warm, IInv, ScriptInv
<1>2. ScriptInv /\ WellFormed(script) /\ Len(script) \in Nat
  BY DEF IInv, ScriptInv, WellFormed
<1>3. /\ ScriptInv'
      /\ \A i \in 1..(Len(script) - 1) : script'[i] = script[i + 1]
      /\ \A w : (script' # <<>> /\ Head(script') = w) <=> (2 <= Len(script) /\ script[2] = w)
  BY <1>1, <1>2, NextScript
<1>4. script[2] = "wait" /\ 3 <= Len(script)
  <2>1. 1 <= Len(script) /\ script[1] = "seed" /\ 1 \in 1..Len(script)
    BY <1>1, <1>2, Heads
  <2>2. 1 + 2 <= Len(script) /\ script[1 + 1] = "wait"
    BY <1>2, <2>1 DEF WellFormed
  <2>3. QED
    BY <2>2
<1>5. script'[2] = script[3]
  <2>1. 2 \in 1..(Len(script) - 1) /\ 2 + 1 = 3
    BY <1>2, <1>4
  <2>2. QED
    BY <1>3, <2>1
<1>6. clean.number \in Nat /\ seeds \in Nat /\ seeds <= clean.number
  BY DEF IInv, MoneyInv, TypeInv, BaselineInv
<1>7. clean.number > 0 /\ (script[3] = "novel" => clean.number <= 3)
  BY <1>1, <1>6 DEF IInv, ApprovalInv
<1>8. BaselineInv'
  BY <1>1 DEF IInv, BaselineInv
<1>9. PaceInv'
  BY <1>1 DEF IInv, PaceInv, Paced
<1>10. BurstInv' /\ ApprovalInv' /\ ReplayInv'
  BY <1>1, <1>3, <1>4, <1>5, <1>7 DEF BurstInv, ApprovalInv, ReplayInv
<1>11. QED
  BY <1>3, <1>8, <1>9, <1>10 DEF IInv

LEMMA WaitStep ==
  ASSUME Calibrated, IInv, MoneyInv', Wait
  PROVE  IInv'
<1> USE DEF Doing
<1>1. /\ script # <<>> /\ Head(script) = "wait" /\ Done
      /\ running # "none" /\ running' = running
      /\ ages' = Aged(ages, 11)
      /\ UNCHANGED <<clean, seeds>>
  BY DEF Wait, IInv, ScriptInv
<1>2. ScriptInv /\ WellFormed(script) /\ Len(script) \in Nat
  BY DEF IInv, ScriptInv, WellFormed
<1>3. /\ ScriptInv'
      /\ Len(script') = Len(script) - 1
      /\ \A i \in 1..(Len(script) - 1) : script'[i] = script[i + 1]
      /\ \A w : (script' # <<>> /\ Head(script') = w) <=> (2 <= Len(script) /\ script[2] = w)
  BY <1>1, <1>2, NextScript
<1>4. \/ 2 <= Len(script) /\ script[2] = "novel"
      \/ 6 <= Len(script) /\ \A k \in 1..5 : script[1 + k] = "attack"
  <2>1. 1 <= Len(script) /\ script[1] = "wait" /\ 1 \in 1..Len(script)
    BY <1>1, <1>2, Heads
  <2>2. \/ 1 + 1 <= Len(script) /\ script[1 + 1] = "novel"
        \/ 1 + 5 <= Len(script) /\ \A k \in 1..5 : script[1 + k] = "attack"
    BY <1>2, <2>1 DEF WellFormed
  <2>3. QED
    BY <2>2
<1>5. clean.number > 0 /\ (script[2] = "novel" => clean.number <= 3)
  BY <1>1 DEF IInv, ApprovalInv
<1>6. ages \in Seq(Nat)
  BY DEF IInv, BaselineInv
<1>7. ages' \in Seq(Nat)
  BY <1>1, <1>6, AgedType
<1>8. BaselineInv'
  BY <1>1, <1>7 DEF IInv, BaselineInv
<1>9. script[2] \in {"novel", "attack"} /\ 2 <= Len(script)
  <2>1. CASE 2 <= Len(script) /\ script[2] = "novel"
    BY <2>1
  <2>2. CASE 6 <= Len(script) /\ \A k \in 1..5 : script[1 + k] = "attack"
    <3>1. script[1 + 1] = "attack" /\ 2 <= Len(script)
      BY <1>2, <2>2
    <3>2. QED
      BY <3>1
  <2>3. QED
    BY <1>4, <2>1, <2>2
<1>10. BurstInv'
  <2>1. SUFFICES ASSUME script[2] = "attack"
                 PROVE  BurstInv'
    BY <1>3 DEF BurstInv
  <2>2. 6 <= Len(script) /\ \A k \in 1..5 : script[1 + k] = "attack"
    BY <1>4, <2>1
  <2>3. \A k \in 1..(5 - 0) : script'[k] = "attack"
    <3>1. \A k \in 1..(5 - 0) : k \in 1..(Len(script) - 1) /\ k + 1 = 1 + k
      BY <1>2, <2>2
    <3>2. QED
      BY <1>3, <2>2, <3>1
  <2>4. Packed(ages', IF 0 < VelocityThreshold THEN 0 ELSE VelocityThreshold - 1)
    <3>1. Packed(ages', 0)
      BY <1>7 DEF Packed
    <3>2. QED
      BY <3>1, Thresholds
  <2>5. 5 - 0 <= Len(script') /\ 0 \in 0..4
    BY <1>2, <1>3, <2>2
  <2>6. QED
    BY <1>1, <1>5, <2>3, <2>4, <2>5 DEF BurstInv
<1>11. ApprovalInv' /\ ReplayInv' /\ PaceInv'
  BY <1>1, <1>3, <1>5, <1>9 DEF ApprovalInv, ReplayInv, PaceInv
<1>12. QED
  BY <1>3, <1>8, <1>10, <1>11 DEF IInv

LEMMA NovelStep ==
  ASSUME Calibrated, IInv, MoneyInv', ProcessNovel
  PROVE  IInv'
<1> USE DEF Doing
<1>1. /\ script # <<>> /\ Head(script) = "novel" /\ Done
      /\ running # "none" /\ running' = running
      /\ Pay(Novel) /\ seeds' = seeds
  BY DEF ProcessNovel, IInv, ScriptInv
<1>2. ScriptInv /\ WellFormed(script) /\ Len(script) \in Nat
  BY DEF IInv, ScriptInv, WellFormed
<1>3. /\ ScriptInv'
      /\ \A w : (script' # <<>> /\ Head(script') = w) <=> (2 <= Len(script) /\ script[2] = w)
  BY <1>1, <1>2, NextScript
<1>4. ~(2 <= Len(script))
  <2>1. 1 <= Len(script) /\ script[1] = "novel" /\ 1 \in 1..Len(script)
    BY <1>1, <1>2, Heads
  <2>2. 1 = Len(script)
    BY <1>2, <2>1 DEF WellFormed
  <2>3. QED
    BY <2>2
<1>5. clean.number > 0 /\ clean.number <= 3
  BY <1>1 DEF IInv, ApprovalInv
<1>6. 0 \in 0..(VelocityThreshold - 1) /\ Packed(ages, 0)
  BY Thresholds DEF Packed, IInv, BaselineInv
<1>7. BaselineInv' /\ clean' = clean /\ Packed(ages', 0 + 1)
  BY <1>1, <1>5, <1>6, NovelIsRefused DEF IInv
<1>8. Paced'
  <2>1. ages' \in Seq(Nat) /\ clean.number \in Nat /\ clean.number <= VelocityThreshold + 1
    BY <1>7 DEF IInv, BaselineInv, MoneyInv, TypeInv
  <2>2. Packed(ages', 0) /\ Packed(ages', 1)
    BY <1>7, <2>1, PackedLess
  <2>3. CASE VelocityThreshold = 1
    <3>1. 0 \in 0..(VelocityThreshold - 1) /\ clean'.number <= 0 + 2
      BY <1>7, <2>1, <2>3
    <3>2. QED
      BY <2>2, <3>1 DEF Paced
  <2>4. CASE VelocityThreshold # 1
    <3>1. 1 \in 0..(VelocityThreshold - 1) /\ clean'.number <= 1 + 2
      BY <1>5, <1>7, <2>1, <2>4, Thresholds
    <3>2. QED
      BY <2>2, <3>1 DEF Paced
  <2>5. QED
    BY <2>3, <2>4
<1>9. BurstInv' /\ ApprovalInv' /\ ReplayInv' /\ PaceInv'
  BY <1>3, <1>4, <1>8 DEF BurstInv, ApprovalInv, ReplayInv, PaceInv
<1>10. QED
  BY <1>3, <1>7, <1>9 DEF IInv

(* Every attempt of a burst is refused and fills the window. *)
LEMMA AttackStep ==
  ASSUME Calibrated, IInv, MoneyInv', ProcessAttack
  PROVE  IInv'
<1> USE DEF Doing
<1>1. /\ script # <<>> /\ Head(script) = "attack" /\ Done
      /\ running # "none" /\ running' = running
      /\ Pay(Attack) /\ seeds' = seeds
  BY DEF ProcessAttack, IInv, ScriptInv
<1>2. ScriptInv /\ WellFormed(script) /\ Len(script) \in Nat
  BY DEF IInv, ScriptInv, WellFormed
<1>3. /\ ScriptInv'
      /\ Len(script') = Len(script) - 1
      /\ \A i \in 1..(Len(script) - 1) : script'[i] = script[i + 1]
      /\ \A w : (script' # <<>> /\ Head(script') = w) <=> (2 <= Len(script) /\ script[2] = w)
  BY <1>1, <1>2, NextScript
<1>4. 2 <= Len(script) => script[2] \in {"attack", "reset"}
  <2>1. 1 <= Len(script) /\ script[1] = "attack" /\ 1 \in 1..Len(script)
    BY <1>1, <1>2, Heads
  <2>2. 1 = Len(script) \/ script[1 + 1] \in {"attack", "reset"}
    BY <1>2, <2>1 DEF WellFormed
  <2>3. QED
    BY <2>2
<1> DEFINE Capped(m) == IF m < VelocityThreshold THEN m ELSE VelocityThreshold - 1
<1>5. clean.number > 0
  BY <1>1 DEF IInv, BurstInv
<1>6. PICK m \in 0..4 :
        /\ Packed(ages, Capped(m))
        /\ 5 - m <= Len(script)
        /\ \A k \in 1..(5 - m) : script[k] = "attack"
  BY <1>1 DEF IInv, BurstInv
<1>7. Capped(m) \in 0..(VelocityThreshold - 1) /\ Capped(m) \in Nat
  BY Thresholds
<1>8. BaselineInv' /\ clean' = clean /\ Packed(ages', Capped(m) + 1)
  <2> HIDE DEF Capped
  <2>1. QED
    BY <1>1, <1>5, <1>6, <1>7, NovelIsRefused DEF IInv
<1>9. ages' \in Seq(Nat)
  BY <1>8 DEF BaselineInv
<1>10. \A n \in 0..(Capped(m) + 1) : Packed(ages', n)
  <2>1. Capped(m) + 1 \in Nat
    BY <1>7
  <2> HIDE DEF Capped
  <2>2. QED
    BY <1>8, <1>9, <2>1, PackedLess
<1>11. ApprovalInv' /\ ReplayInv'
  BY <1>3, <1>4 DEF ApprovalInv, ReplayInv
<1>12. CASE m < 4
  <2>1. m + 1 \in 0..4 /\ 5 - (m + 1) <= Len(script')
    BY <1>2, <1>3, <1>6, <1>12
  <2>2. \A k \in 1..(5 - (m + 1)) : script'[k] = "attack"
    <3>1. \A k \in 1..(5 - (m + 1)) : k \in 1..(Len(script) - 1) /\ k + 1 \in 1..(5 - m)
      BY <1>2, <1>6
    <3>2. QED
      BY <1>3, <1>6, <3>1
  <2>3. Capped(m + 1) \in 0..(Capped(m) + 1)
    BY Thresholds
  <2>4. Packed(ages', Capped(m + 1))
    BY <1>10, <2>3
  <2>5. BurstInv'
    BY <1>5, <1>8, <2>1, <2>2, <2>4 DEF BurstInv
  <2>6. 2 <= Len(script) /\ script[2] = "attack"
    <3>1. 2 \in 1..(5 - m) /\ 2 <= Len(script)
      BY <1>2, <1>6, <1>12
    <3>2. QED
      BY <1>6, <3>1
  <2>7. PaceInv'
    BY <1>3, <2>6 DEF PaceInv
  <2>8. QED
    BY <1>3, <1>8, <1>11, <2>5, <2>7 DEF IInv
<1>13. CASE m = 4
  <2>1. Capped(4) \in 0..(Capped(m) + 1) /\ VelocityThreshold - 1 \in 0..(Capped(m) + 1)
    BY <1>13, Thresholds
  <2>2. Packed(ages', Capped(4)) /\ Packed(ages', VelocityThreshold - 1)
    BY <1>10, <2>1
  <2>3. BurstInv'
    <3>1. SUFFICES ASSUME 2 <= Len(script), script[2] = "attack"
                   PROVE  BurstInv'
      BY <1>3 DEF BurstInv
    <3>2. 5 - 4 <= Len(script') /\ 1 \in 1..(Len(script) - 1) /\ 4 \in 0..4
      BY <1>2, <1>3, <3>1
    <3>3. \A k \in 1..(5 - 4) : script'[k] = "attack"
      BY <1>3, <3>1, <3>2
    <3>4. QED
      BY <1>5, <1>8, <2>2, <3>2, <3>3 DEF BurstInv
  <2>4. Paced'
    <3>1. /\ VelocityThreshold - 1 \in 0..(VelocityThreshold - 1)
          /\ clean'.number <= (VelocityThreshold - 1) + 2
      <4>1. clean.number \in Nat /\ clean'.number <= VelocityThreshold + 1
        BY <1>8 DEF IInv, BaselineInv, MoneyInv, TypeInv
      <4>2. QED
        BY <1>8, <4>1, Thresholds
    <3>2. QED
      BY <2>2, <3>1 DEF Paced
  <2>5. PaceInv'
    BY <2>4 DEF PaceInv
  <2>6. QED
    BY <1>3, <1>8, <1>11, <2>3, <2>5 DEF IInv
<1>14. QED
  BY <1>6, <1>12, <1>13

LEMMA OriginalStep ==
  ASSUME Calibrated, IInv, MoneyInv', ProcessOriginal
  PROVE  IInv'
<1> USE DEF Doing
<1>1. /\ script # <<>> /\ Head(script) = "original" /\ Done
      /\ running # "none" /\ running' = running
      /\ Pay(Normal) /\ seeds' = seeds
  BY DEF ProcessOriginal, IInv, ScriptInv
<1>2. ScriptInv /\ WellFormed(script) /\ Len(script) \in Nat
  BY DEF IInv, ScriptInv, WellFormed
<1>3. /\ ScriptInv'
      /\ \A w : (script' # <<>> /\ Head(script') = w) <=> (2 <= Len(script) /\ script[2] = w)
  BY <1>1, <1>2, NextScript
<1>4. script[2] = "replayed"
  <2>1. 1 <= Len(script) /\ script[1] = "original" /\ 1 \in 1..Len(script)
    BY <1>1, <1>2, Heads
  <2>2. script[1 + 1] = "replayed"
    BY <1>2, <2>1 DEF WellFormed
  <2>3. QED
    BY <2>2
<1>5. Paced /\ ages = <<>> /\ clean.number = 0
  BY <1>1 DEF IInv, PaceInv, ReplayInv
<1>6. /\ Paced' /\ BaselineInv'
      /\ clean'.number <= 1
  BY <1>1, <1>5, NormalIsPaced DEF IInv
<1>7. Len(ages') = 1 /\ ages'[1] <= 1
  <2>1. ages \in Seq(Nat) /\ Len(ages) = 0 /\ ages' = Attempted(ages)
    BY <1>1, <1>5 DEF IInv, BaselineInv, Pay, Attempted
  <2>2. QED
    BY <2>1, FirstAttempt
<1>8. BurstInv' /\ ApprovalInv' /\ ReplayInv' /\ PaceInv'
  BY <1>3, <1>4, <1>6, <1>7 DEF BurstInv, ApprovalInv, ReplayInv, PaceInv
<1>9. QED
  BY <1>3, <1>6, <1>8 DEF IInv

LEMMA ReplayedStep ==
  ASSUME Calibrated, IInv, MoneyInv', ProcessReplayed
  PROVE  IInv'
<1> USE DEF Doing
<1>1. /\ script # <<>> /\ Head(script) = "replayed" /\ Done
      /\ running # "none" /\ running' = running
      /\ ages' = Aged(ages, 1) /\ UNCHANGED <<clean, seeds>>
  BY DEF ProcessReplayed, Replay, IInv, ScriptInv
<1>2. ScriptInv /\ WellFormed(script) /\ Len(script) \in Nat
  BY DEF IInv, ScriptInv, WellFormed
<1>3. /\ ScriptInv'
      /\ \A w : (script' # <<>> /\ Head(script') = w) <=> (2 <= Len(script) /\ script[2] = w)
  BY <1>1, <1>2, NextScript
<1>4. ~(2 <= Len(script))
  <2>1. 1 <= Len(script) /\ script[1] = "replayed" /\ 1 \in 1..Len(script)
    BY <1>1, <1>2, Heads
  <2>2. 1 = Len(script)
    BY <1>2, <2>1 DEF WellFormed
  <2>3. QED
    BY <2>2
<1>5. Len(ages) = 1 /\ ages[1] <= 1 /\ clean.number <= 1
  BY <1>1 DEF IInv, ReplayInv
<1>6. ages \in Seq(Nat) /\ clean.number \in Nat
  BY DEF IInv, BaselineInv, MoneyInv, TypeInv
<1>7. ages' \in Seq(Nat) /\ Len(ages') = 1 /\ ages'[1] <= ages[1] + 1
  <2>1. /\ Aged(ages, 1) \in Seq(Nat) /\ Len(Aged(ages, 1)) = Len(ages)
        /\ \A i \in 1..Len(ages) : Aged(ages, 1)[i] <= ages[i] + 1
    BY <1>6, AgedType
  <2>2. QED
    BY <1>1, <1>5, <2>1
<1>8. BaselineInv'
  BY <1>1, <1>7 DEF IInv, BaselineInv
<1>9. Paced'
  <2>1. Packed(ages', 0)
    BY <1>7 DEF Packed
  <2>2. 0 \in 0..(VelocityThreshold - 1) /\ clean'.number <= 0 + 2
    BY <1>1, <1>5, <1>6, Thresholds
  <2>3. QED
    BY <2>1, <2>2 DEF Paced
<1>10. BurstInv' /\ ApprovalInv' /\ ReplayInv' /\ PaceInv'
  BY <1>3, <1>4, <1>9 DEF BurstInv, ApprovalInv, ReplayInv, PaceInv
<1>11. QED
  BY <1>3, <1>8, <1>10 DEF IInv

(* an operation begins or ends, or nothing happens *)
LEMMA IdleStep ==
  ASSUME Calibrated, IInv, MoneyInv', Finish \/ UNCHANGED vars
  PROVE  IInv'
<1>1. /\ UNCHANGED <<ages, clean, seeds, script>>
      /\ running' = running \/ script = <<>>
  BY DEF Finish, vars
<1>2. ScriptInv'
  BY <1>1 DEF IInv, ScriptInv
<1>3. BaselineInv' /\ BurstInv' /\ ApprovalInv' /\ ReplayInv' /\ PaceInv'
  BY <1>1 DEF IInv, BaselineInv, BurstInv, ApprovalInv, ReplayInv, PaceInv, Paced, Doing
<1>4. QED
  BY <1>2, <1>3 DEF IInv

LEMMA StartStep ==
  ASSUME Calibrated, IInv, MoneyInv', NEW operation \in Operations, Start(operation)
  PROVE  IInv'
<1> USE DEF Doing
<1>1. /\ script = <<>> /\ script' = Script(operation) /\ running' = operation
      /\ UNCHANGED <<ages, clean, seeds>>
  BY DEF Start, IInv, ScriptInv
<1>2. operation # "none"
  BY DEF Operations
<1>3. /\ WellFormed(script')
      /\ script'[1] \in {"normal", "seed", "reset"}
      /\ script'[1] = "seed" => script'[3] = "attack"
  BY <1>1, ScriptsAreWellFormed
<1>4. \A w : (script' # <<>> /\ Head(script') = w) <=> (1 <= Len(script') /\ script'[1] = w)
  BY <1>3, Heads
<1>5. ScriptInv'
  BY <1>1, <1>2, <1>3 DEF ScriptInv
<1>6. BaselineInv'
  BY <1>1 DEF IInv, BaselineInv
<1>7. Paced'
  BY <1>1 DEF IInv, PaceInv, Paced
<1>8. BurstInv' /\ ApprovalInv' /\ ReplayInv' /\ PaceInv'
  BY <1>3, <1>4, <1>7 DEF BurstInv, ApprovalInv, ReplayInv, PaceInv
<1>9. QED
  BY <1>5, <1>6, <1>8 DEF IInv

LEMMA InitInv == Calibrated /\ Init => IInv
<1> SUFFICES ASSUME Calibrated, Init
             PROVE  IInv
  OBVIOUS
<1>1. MoneyInv
  BY InitMoney
<1>2. /\ ages = <<>> /\ script = <<>> /\ seeds = 0
      /\ clean.number = 0 /\ clean.recipients = {}
  BY DEF Init, NoHistory
<1>3. ScriptInv
  BY <1>2 DEF ScriptInv, WellFormed
<1>4. BaselineInv
  BY <1>2, Thresholds DEF BaselineInv
<1>5. Paced
  <2>1. 0 \in 0..(VelocityThreshold - 1) /\ Packed(<<>>, 0) /\ 0 <= 0 + 2
    BY Thresholds DEF Packed
  <2>2. QED
    BY <1>2, <2>1 DEF Paced
<1>6. QED
  BY <1>1, <1>2, <1>3, <1>4, <1>5
     DEF IInv, BurstInv, ApprovalInv, ReplayInv, PaceInv, Doing

LEMMA Inductive == Calibrated /\ IInv /\ [Next]_vars => IInv'
<1> SUFFICES ASSUME Calibrated, IInv, [Next]_vars
             PROVE  IInv'
  OBVIOUS
<1>1. MoneyInv'
  BY MoneyKept DEF IInv
<1>2. QED
  BY <1>1, ResetStep, NormalStep, SeedStep, WarmStep, WaitStep, NovelStep, AttackStep,
     OriginalStep, ReplayedStep, IdleStep, StartStep DEF Next, Continue

(***************************************************************************)
(* However the dashboard's operations follow each other, between two       *)
(* resets there settle at most the three payments before the one wait      *)
(* that clears the window, and after the refused attempt that follows it   *)
(* one less than the threshold (detection.py:59, dashboard.py:142-144,     *)
(* 163, 344).                                                              *)
(***************************************************************************)
THEOREM VelocityCaps ==
  ASSUME Calibrated
  PROVE  Spec => []VelocityCapsSettlement
<1>1. IInv => VelocityCapsSettlement
  BY Thresholds DEF IInv, BaselineInv, MoneyInv, TypeInv, VelocityCapsSettlement
<1>2. Init => IInv
  BY InitInv
<1>3. IInv /\ [Next]_vars => IInv'
  BY Inductive
<1>4. QED
  BY <1>1, <1>2, <1>3, PTL DEF Spec

-----------------------------------------------------------------------------
(***************************************************************************)
(* What the screen shows                                                   *)
(*                                                                         *)
(* The instruction a script is at, when left instructions of it are left.  *)
(***************************************************************************)
Drains == {"run_attack", "run_attack_scenario"}

Length(operation) == Len(Script(operation))

At(operation, left) == Script(operation)[Length(operation) + 1 - left]

PlaceInv ==
  /\ running \in Operations \cup {"none"}
  /\ running = "none" => script = <<>>
  /\ script \in Seq(Instructions)
  /\ running # "none" =>
       /\ Len(script) <= Length(running)
       /\ \A i \in 1..Len(script) : script[i] = At(running, Len(script) + 1 - i)

(* the attempts of a burst, k of them, fill the window alone *)
Fresh(list, k) ==
  IF k = 0 THEN \A i \in 1..Len(list) : Outlived(list[i])
  ELSE Len(list) = k /\ \A i \in 1..k : list[i] = k + 1 - i

DrainVerdict(j) == IF j = 5 THEN "BLOCK" ELSE "REQUIRE_APPROVAL"

(* the last k receipts are those of the burst so far *)
ShowsDrain(k) ==
  /\ k <= Len(events)
  /\ \A j \in 1..k : events[Len(events) - k + j].decision = DrainVerdict(j)

(* a attempts of the burst are still to come *)
Bursting(a) ==
  \/ running \in Drains /\ Len(script) = a
  \/ running = "run_demo_sequence" /\ Len(script) = a + 2

Waited ==
  \/ running \in Drains /\ Len(script) \in 1..6
  \/ running = "run_demo_sequence" /\ Len(script) \in 3..8
  \/ running = "run_approval_scenario" /\ Len(script) \in 1..2

Receipts == [decision : {"ALLOW", "REQUIRE_APPROVAL", "BLOCK"}, amount : Nat]

LearnedInv ==
  /\ initial \in InitialBalances
  /\ ages \in Seq(Nat)
  /\ events \in Seq(Receipts)
  /\ clean.recipients = IF clean.number = 0 THEN {} ELSE {"weather-api"}
  /\ clean.total = Normal.amount * clean.number
  /\ seeds <= clean.number

WarmInv == Waited => seeds >= 3

DrainInv ==
  \A k \in 0..5 : Bursting(5 - k) => (k <= 4 => Fresh(ages, k)) /\ ShowsDrain(k)

(* only allowed payments are on the screen, n of them *)
ShowsAllowed(n) ==
  Len(events) = n /\ \A i \in 1..n : events[i].decision = "ALLOW"

Unused == events = <<>> /\ ages = <<>> /\ clean = NoHistory /\ balance = initial

NovelInv ==
  running = "run_approval_scenario" =>
    /\ Len(script) = 3 =>
         \/ ShowsAllowed(seeds) /\ Len(ages) <= seeds /\ clean.number = seeds /\ seeds <= 3
         \/ seeds < 3 /\ balance < Normal.amount
    /\ Len(script) \in 1..2 => ShowsAllowed(3) /\ clean.number = 3
    /\ Len(script) = 1 => Fresh(ages, 0)
    /\ Len(script) = 0 => /\ Len(events) = 4 /\ events[4].decision = "REQUIRE_APPROVAL"
                          /\ \A i \in 1..3 : events[i].decision = "ALLOW"

TwiceInv ==
  running = "run_replay_scenario" =>
    /\ Len(script) = 2 => Unused
    /\ Len(script) = 1 => ShowsAllowed(1)
    /\ Len(script) = 0 => /\ Len(events) = 2 /\ events[1].decision = "ALLOW"
                          /\ events[2].decision = "BLOCK"

OrdinaryInv ==
  /\ running = "run_demo_sequence" /\ Len(script) = 1 => Unused
  /\ running = "run_demo_sequence" /\ Len(script) = 0 => ShowsAllowed(1)
  /\ running = "reset" /\ Len(script) = 0 => events = <<>>
  /\ running \in {"run_normal", "run_normal_scenario"} /\ Len(script) = 0 =>
       /\ events # <<>>
       /\ events[Len(events)].decision = "BLOCK" => balance < Normal.amount

ScreenInv ==
  /\ MoneyInv /\ PlaceInv /\ LearnedInv /\ WarmInv
  /\ DrainInv /\ NovelInv /\ TwiceInv /\ OrdinaryInv
  /\ ScreenTellsScenario

Readable ==
  /\ VelocityThreshold = 5 /\ VelocityWindow \in 4..10
  /\ AmountBlockMultiplier >= 3 /\ DrainAmountMultiplier <= 2
  /\ MaxEvents >= 5
  /\ \A b \in InitialBalances : Normal.amount <= b

-----------------------------------------------------------------------------
(* Where the scripts are. *)

Reading(operation) ==
  /\ operation = "run_normal" => Length(operation) = 1 /\ At(operation, 1) = "normal"
  /\ operation = "reset" => Length(operation) = 1 /\ At(operation, 1) = "reset"
  /\ operation = "run_normal_scenario" =>
       Length(operation) = 2 /\ At(operation, 2) = "reset" /\ At(operation, 1) = "normal"
  /\ operation = "run_approval_scenario" =>
       /\ Length(operation) = 4 /\ At(operation, 4) = "reset" /\ At(operation, 3) = "seed"
       /\ At(operation, 2) = "wait" /\ At(operation, 1) = "novel"
  /\ operation = "run_replay_scenario" =>
       /\ Length(operation) = 3 /\ At(operation, 3) = "reset"
       /\ At(operation, 2) = "original" /\ At(operation, 1) = "replayed"
  /\ operation = "run_attack" =>
       /\ Length(operation) = 7 /\ At(operation, 7) = "seed" /\ At(operation, 6) = "wait"
       /\ \A l \in 1..5 : At(operation, l) = "attack"
  /\ operation = "run_attack_scenario" =>
       /\ Length(operation) = 8 /\ At(operation, 8) = "reset" /\ At(operation, 7) = "seed"
       /\ At(operation, 6) = "wait"
       /\ \A l \in 1..5 : At(operation, l) = "attack"
  /\ operation = "run_demo_sequence" =>
       /\ Length(operation) = 10 /\ At(operation, 10) = "reset" /\ At(operation, 9) = "seed"
       /\ At(operation, 8) = "wait"
       /\ \A l \in 3..7 : At(operation, l) = "attack"
       /\ At(operation, 2) = "reset" /\ At(operation, 1) = "normal"

LEMMA ScriptsRead ==
  ASSUME NEW operation \in Operations
  PROVE  /\ Script(operation) \in Seq(Instructions) /\ Length(operation) \in Nat
         /\ Reading(operation)
<1> DEFINE s == Script(operation)
<1>1. Entries(operation, s)
  BY ScriptEntries
<1>2. s \in Seq(Instructions) /\ Len(s) \in Nat
  BY <1>1 DEF Entries
<1>3. /\ Length(operation) = Len(s)
      /\ \A l \in Int : At(operation, l) = s[Len(s) + 1 - l]
  BY DEF At, Length
<1> SUFFICES s \in Seq(Instructions) /\ Length(operation) \in Nat /\ Reading(operation)
  OBVIOUS
<1> HIDE DEF s
<1>4. CASE operation = "run_attack"
  <2>1. Len(s) = 7 /\ s[1] = "seed" /\ s[2] = "wait" /\ \A i \in 3..7 : s[i] = "attack"
    BY <1>1, <1>4 DEF Entries
  <2>2. \A l \in 1..5 : 7 + 1 - l \in 3..7 /\ l \in Int
    OBVIOUS
  <2>3. \A l \in 1..5 : At(operation, l) = "attack"
    BY <1>3, <2>1, <2>2
  <2>4. Length(operation) = 7 /\ At(operation, 7) = "seed" /\ At(operation, 6) = "wait"
    BY <1>3, <2>1
  <2>5. QED
    BY <1>4, <1>2, <1>3, <2>3, <2>4 DEF Reading
<1>5. CASE operation = "run_attack_scenario"
  <2>1. /\ Len(s) = 8 /\ s[1] = "reset" /\ s[2] = "seed" /\ s[3] = "wait"
        /\ \A i \in 4..8 : s[i] = "attack"
    BY <1>1, <1>5 DEF Entries
  <2>2. \A l \in 1..5 : 8 + 1 - l \in 4..8 /\ l \in Int
    OBVIOUS
  <2>3. \A l \in 1..5 : At(operation, l) = "attack"
    BY <1>3, <2>1, <2>2
  <2>4. /\ Length(operation) = 8 /\ At(operation, 8) = "reset"
        /\ At(operation, 7) = "seed" /\ At(operation, 6) = "wait"
    BY <1>3, <2>1
  <2>5. QED
    BY <1>5, <1>2, <1>3, <2>3, <2>4 DEF Reading
<1>6. CASE operation = "run_demo_sequence"
  <2>1. /\ Len(s) = 10 /\ s[1] = "reset" /\ s[2] = "seed" /\ s[3] = "wait"
        /\ \A i \in 4..8 : s[i] = "attack"
        /\ s[9] = "reset" /\ s[10] = "normal"
    BY <1>1, <1>6 DEF Entries
  <2>2. \A l \in 3..7 : 10 + 1 - l \in 4..8 /\ l \in Int
    OBVIOUS
  <2>3. \A l \in 3..7 : At(operation, l) = "attack"
    BY <1>3, <2>1, <2>2
  <2>4. /\ Length(operation) = 10 /\ At(operation, 10) = "reset"
        /\ At(operation, 9) = "seed" /\ At(operation, 8) = "wait"
        /\ At(operation, 2) = "reset" /\ At(operation, 1) = "normal"
    BY <1>3, <2>1
  <2>5. QED
    BY <1>6, <1>2, <1>3, <2>3, <2>4 DEF Reading
<1>7. CASE operation \in {"run_normal", "reset", "run_normal_scenario",
                          "run_approval_scenario", "run_replay_scenario"}
  BY <1>1, <1>2, <1>3, <1>7 DEF Reading, Entries
<1>8. QED
  BY <1>4, <1>5, <1>6, <1>7 DEF Operations

LEMMA HeadPlace ==
  ASSUME PlaceInv, NEW instruction, Doing(instruction)
  PROVE  /\ running \in Operations /\ Length(running) \in Nat /\ Reading(running)
         /\ Len(script) \in 1..Length(running)
         /\ At(running, Len(script)) = instruction
<1>1. script # <<>> /\ Head(script) = instruction /\ script \in Seq(Instructions)
  BY DEF Doing, PlaceInv
<1>2. 1 <= Len(script) /\ script[1] = instruction /\ Len(script) \in Nat
  BY <1>1, HeadIsFirst
<1>3. running \in Operations /\ running # "none"
  BY <1>1 DEF PlaceInv, Operations
<1>4. Length(running) \in Nat /\ Reading(running)
  BY <1>3, ScriptsRead
<1>5. /\ Len(script) <= Length(running)
      /\ \A i \in 1..Len(script) : script[i] = At(running, Len(script) + 1 - i)
  BY <1>3 DEF PlaceInv
<1>6. 1 \in 1..Len(script) /\ Len(script) + 1 - 1 = Len(script)
  BY <1>2
<1>7. At(running, Len(script)) = instruction
  BY <1>2, <1>5, <1>6
<1>8. QED
  BY <1>2, <1>3, <1>4, <1>5, <1>7

(* What an operation is when it is at an instruction, and how far it is. *)
Place(instruction) ==
  /\ instruction = "reset" =>
       \/ running = "reset" /\ Len(script) = 1
       \/ running = "run_normal_scenario" /\ Len(script) = 2
       \/ running = "run_approval_scenario" /\ Len(script) = 4
       \/ running = "run_replay_scenario" /\ Len(script) = 3
       \/ running = "run_attack_scenario" /\ Len(script) = 8
       \/ running = "run_demo_sequence" /\ Len(script) \in {2, 10}
  /\ instruction = "seed" =>
       \/ running = "run_approval_scenario" /\ Len(script) = 3
       \/ running \in Drains /\ Len(script) = 7
       \/ running = "run_demo_sequence" /\ Len(script) = 9
  /\ instruction = "wait" =>
       \/ running = "run_approval_scenario" /\ Len(script) = 2
       \/ running \in Drains /\ Len(script) = 6
       \/ running = "run_demo_sequence" /\ Len(script) = 8
  /\ instruction = "attack" =>
       \/ running \in Drains /\ Len(script) \in 1..5
       \/ running = "run_demo_sequence" /\ Len(script) \in 3..7
  /\ instruction = "normal" =>
       /\ running \in {"run_normal", "run_normal_scenario", "run_demo_sequence"}
       /\ Len(script) = 1
  /\ instruction = "novel" => running = "run_approval_scenario" /\ Len(script) = 1
  /\ instruction = "original" => running = "run_replay_scenario" /\ Len(script) = 2
  /\ instruction = "replayed" => running = "run_replay_scenario" /\ Len(script) = 1

LEMMA Where ==
  ASSUME PlaceInv, NEW instruction, Doing(instruction)
  PROVE  Place(instruction)
<1> DEFINE l == Len(script)
<1>1. /\ running \in Operations /\ Length(running) \in Nat /\ Reading(running)
      /\ l \in 1..Length(running)
      /\ At(running, l) = instruction
  BY HeadPlace
<1> HIDE DEF l
<1>2. CASE running = "run_normal"
  <2>1. l \in {1}
    BY <1>1, <1>2 DEF Reading
  <2>2. QED
    BY <1>1, <1>2, <2>1 DEF Reading, Place, Drains, l
<1>3. CASE running = "reset"
  <2>1. l \in {1}
    BY <1>1, <1>3 DEF Reading
  <2>2. QED
    BY <1>1, <1>3, <2>1 DEF Reading, Place, Drains, l
<1>4. CASE running = "run_normal_scenario"
  <2>1. l \in {1, 2}
    BY <1>1, <1>4 DEF Reading
  <2>2. QED
    BY <1>1, <1>4, <2>1 DEF Reading, Place, Drains, l
<1>5. CASE running = "run_approval_scenario"
  <2>1. l \in {1, 2, 3, 4}
    BY <1>1, <1>5 DEF Reading
  <2>2. QED
    BY <1>1, <1>5, <2>1 DEF Reading, Place, Drains, l
<1>6. CASE running = "run_replay_scenario"
  <2>1. l \in {1, 2, 3}
    BY <1>1, <1>6 DEF Reading
  <2>2. QED
    BY <1>1, <1>6, <2>1 DEF Reading, Place, Drains, l
<1>7. CASE running = "run_attack"
  <2>1. l \in {1, 2, 3, 4, 5, 6, 7}
    BY <1>1, <1>7 DEF Reading
  <2>2. l \in 1..5 => instruction = "attack"
    BY <1>1, <1>7 DEF Reading
  <2>3. (l = 7 => instruction = "seed") /\ (l = 6 => instruction = "wait")
    BY <1>1, <1>7 DEF Reading
  <2>4. QED
    BY <1>7, <2>1, <2>2, <2>3 DEF Place, Drains, l
<1>8. CASE running = "run_attack_scenario"
  <2>1. l \in {1, 2, 3, 4, 5, 6, 7, 8}
    BY <1>1, <1>8 DEF Reading
  <2>2. l \in 1..5 => instruction = "attack"
    BY <1>1, <1>8 DEF Reading
  <2>3. /\ l = 8 => instruction = "reset"
        /\ l = 7 => instruction = "seed"
        /\ l = 6 => instruction = "wait"
    BY <1>1, <1>8 DEF Reading
  <2>4. QED
    BY <1>8, <2>1, <2>2, <2>3 DEF Place, Drains, l
<1>9. CASE running = "run_demo_sequence"
  <2>1. l \in {1, 2, 3, 4, 5, 6, 7, 8, 9, 10}
    BY <1>1, <1>9 DEF Reading
  <2>2. l \in 3..7 => instruction = "attack"
    BY <1>1, <1>9 DEF Reading
  <2>3. /\ l \in {2, 10} => instruction = "reset"
        /\ l = 9 => instruction = "seed"
        /\ l = 8 => instruction = "wait"
        /\ l = 1 => instruction = "normal"
    BY <1>1, <1>9 DEF Reading
  <2>4. QED
    BY <1>9, <2>1, <2>2, <2>3 DEF Place, Drains, l
<1>10. QED
  BY <1>1, <1>2, <1>3, <1>4, <1>5, <1>6, <1>7, <1>8, <1>9 DEF Operations

LEMMA NextPlace ==
  ASSUME PlaceInv, script # <<>>, Done, running' = running
  PROVE  PlaceInv' /\ Len(script) \in Nat /\ Len(script') = Len(script) - 1
<1>1. script \in Seq(Instructions) /\ running # "none" /\ Len(script) \in Nat
  BY DEF PlaceInv
<1>2. /\ script' \in Seq(Instructions) /\ Len(script') = Len(script) - 1
      /\ \A i \in 1..Len(script') : script'[i] = script[i + 1]
  BY <1>1, HeadTailProperties DEF Done
<1>3. \A i \in 1..Len(script') : /\ i + 1 \in 1..Len(script)
                                 /\ Len(script) + 1 - (i + 1) = Len(script') + 1 - i
  BY <1>1, <1>2
<1>4. /\ running \in Operations /\ Len(script) <= Length(running)
      /\ \A i \in 1..Len(script) : script[i] = At(running, Len(script) + 1 - i)
  BY <1>1 DEF PlaceInv
<1>5. Length(running) \in Nat
  BY <1>4, ScriptsRead
<1>6. \A i \in 1..Len(script') : script'[i] = At(running, Len(script') + 1 - i)
  BY <1>2, <1>3, <1>4
<1>7. Len(script') <= Length(running)
  BY <1>1, <1>2, <1>4, <1>5
<1>8. QED
  BY <1>1, <1>2, <1>4, <1>6, <1>7 DEF PlaceInv

-----------------------------------------------------------------------------
(* What the rules say of the three payments. *)

LEMMA ReadableRules ==
  ASSUME Readable
  PROVE  /\ VelocityThreshold = 5 /\ VelocityWindow \in Nat
         /\ 4 <= VelocityWindow /\ VelocityWindow <= 10
         /\ AmountBlockMultiplier \in Nat /\ AmountBlockMultiplier >= 3
         /\ DrainAmountMultiplier \in Nat
         /\ DrainAmountMultiplier >= 1 /\ DrainAmountMultiplier <= 2
         /\ MaxEvents \in Nat /\ MaxEvents >= 5
BY DetectionAssumption, DemoAssumption DEF Readable

LEMMA Amounts ==
  /\ Normal.amount = 10 /\ Normal.recipient = "weather-api"
  /\ Novel.amount = 10 /\ Novel.recipient = "market-data-api"
  /\ Attack.amount = 25 /\ Attack.recipient = "attacker-wallet"
BY DEF Normal, Novel, Attack

LEMMA Multiples ==
  ASSUME NEW n \in Nat, n > 0, NEW m \in Nat
  PROVE  /\ m >= 3 => ~(10 * n >= m * (10 * n)) /\ ~(25 * n >= m * (10 * n))
         /\ m >= 1 /\ m <= 2 => 25 * n >= m * (10 * n)
<1>1. m >= 3 => m * (10 * n) >= 3 * (10 * n)
  OBVIOUS
<1>2. m >= 1 /\ m <= 2 => m = 1 \/ m = 2
  OBVIOUS
<1>3. m * (10 * n) \in Nat
  OBVIOUS
<1>4. m = 1 \/ m = 2 => 25 * n >= m * (10 * n)
  OBVIOUS
<1>5. m >= 3 => ~(10 * n >= m * (10 * n)) /\ ~(25 * n >= m * (10 * n))
  BY <1>1, <1>3
<1>6. QED
  BY <1>2, <1>4, <1>5

(* A payment the agent is used to is escalated by its pace alone. *)
LEMMA NormalVerdict ==
  ASSUME Readable, MoneyInv, LearnedInv
  PROVE  Decide(Normal) = IF HighVelocity(Len(Kept(ages)) + 1) THEN "REQUIRE_APPROVAL"
                          ELSE IF Normal.amount <= balance THEN "ALLOW" ELSE "BLOCK"
<1> DEFINE count == Len(Kept(ages)) + 1
<1>1. clean.number \in Nat /\ clean.total = 10 * clean.number
  BY Amounts DEF MoneyInv, TypeInv, LearnedInv
<1>2. ~NewRecipient(clean, Normal.recipient)
  BY Amounts DEF LearnedInv, NewRecipient
<1>3. ~AmountAnomaly(clean, Normal.amount)
  <2>1. SUFFICES ASSUME clean.number > 0
                 PROVE  ~AtLeastTimes(AmountBlockMultiplier, clean, Normal.amount)
    BY DEF AmountAnomaly, AtLeastTimes
  <2>2. ~(10 * clean.number >= AmountBlockMultiplier * (10 * clean.number))
    BY <1>1, <2>1, Multiples, ReadableRules
  <2>3. QED
    BY <1>1, <2>2, Amounts DEF AtLeastTimes
<1>4. Signal(count, clean, Normal.recipient, Normal.amount) =
        IF HighVelocity(count) THEN "FLAG" ELSE "CLEAN"
  BY <1>2, <1>3 DEF Signal, DrainPattern
<1>5. QED
  BY <1>4 DEF Decide

(* A first-seen recipient is escalated, and refused if it drains. *)
LEMMA FirstSeenVerdicts ==
  ASSUME Readable, MoneyInv, LearnedInv, clean.number > 0
  PROVE  /\ Len(Kept(ages)) = 0 => Decide(Novel) = "REQUIRE_APPROVAL"
         /\ \A k \in 0..4 : Len(Kept(ages)) = k => Decide(Attack) = DrainVerdict(k + 1)
<1>1. clean.number \in Nat /\ clean.total = 10 * clean.number
  BY Amounts DEF MoneyInv, TypeInv, LearnedInv
<1>2. NewRecipient(clean, Novel.recipient) /\ NewRecipient(clean, Attack.recipient)
  BY Amounts DEF LearnedInv, NewRecipient
<1>3. /\ ~(10 * clean.number >= AmountBlockMultiplier * (10 * clean.number))
      /\ ~(25 * clean.number >= AmountBlockMultiplier * (10 * clean.number))
      /\ 25 * clean.number >= DrainAmountMultiplier * (10 * clean.number)
  BY <1>1, Multiples, ReadableRules
<1>4. ~AmountAnomaly(clean, Novel.amount)
  BY <1>1, <1>3, Amounts DEF AmountAnomaly, AtLeastTimes
<1>5. ~AmountAnomaly(clean, Attack.amount)
  BY <1>1, <1>3, Amounts DEF AmountAnomaly, AtLeastTimes
<1>6. AtLeastTimes(DrainAmountMultiplier, clean, Attack.amount)
  BY <1>1, <1>3, Amounts DEF AtLeastTimes
<1>7. /\ \A c : HighVelocity(c) => Signal(c, clean, Attack.recipient, Attack.amount) = "BLOCK"
      /\ \A c : ~HighVelocity(c) => Signal(c, clean, Attack.recipient, Attack.amount) = "FLAG"
  <2>1. \A c : DrainPattern(c, clean, Attack.recipient, Attack.amount) <=> HighVelocity(c)
    BY <1>2, <1>6 DEF DrainPattern
  <2>2. \A c : HighVelocity(c) => Signal(c, clean, Attack.recipient, Attack.amount) = "BLOCK"
    BY <2>1 DEF Signal
  <2>3. \A c : ~HighVelocity(c) => Signal(c, clean, Attack.recipient, Attack.amount) = "FLAG"
    BY <1>2, <1>5, <2>1 DEF Signal
  <2>4. QED
    BY <2>2, <2>3
<1>8. \A c : ~HighVelocity(c) => Signal(c, clean, Novel.recipient, Novel.amount) = "FLAG"
  BY <1>2, <1>4 DEF Signal, DrainPattern
<1>9. \A k \in 0..4 : HighVelocity(k + 1) <=> k + 1 = 5
  BY ReadableRules DEF HighVelocity
<1>10. ASSUME Len(Kept(ages)) = 0
       PROVE  Decide(Novel) = "REQUIRE_APPROVAL"
  BY <1>8, <1>9, <1>10 DEF Decide
<1>11. ASSUME NEW k \in 0..4, Len(Kept(ages)) = k
       PROVE  Decide(Attack) = DrainVerdict(k + 1)
  BY <1>7, <1>9, <1>11 DEF Decide, DrainVerdict
<1>12. QED
  BY <1>10, <1>11

-----------------------------------------------------------------------------
(* What an attempt and a wait do to the window, and a receipt to the screen. *)

LEMMA KeptIsShorter ==
  ASSUME NEW list \in Seq(Nat)
  PROVE  Kept(list) \in Seq(Nat) /\ Len(Kept(list)) \in 0..Len(list)
<1>1. 0 \in 0..Len(list) /\ \A k \in 0..(0 - 1) : list[Len(list) - k] <= VelocityWindow
  OBVIOUS
<1>2. PICK d \in 0..(Len(list) - 0) : Kept(list) = SubSeq(list, d + 1, Len(list))
  BY <1>1, Clearing
<1>3. d + 1 \in 1..(Len(list) + 1) /\ Len(list) \in Nat /\ d \in 0..Len(list)
  BY <1>2
<1>4. /\ SubSeq(list, d + 1, Len(list)) \in Seq(Nat)
      /\ Len(SubSeq(list, d + 1, Len(list))) =
           IF d + 1 <= Len(list) THEN Len(list) - (d + 1) + 1 ELSE 0
  BY <1>3, SubSeqProperties
<1>5. QED
  BY <1>2, <1>3, <1>4

LEMMA AttemptType ==
  ASSUME NEW list \in Seq(Nat)
  PROVE  /\ Attempted(list) \in Seq(Nat)
         /\ Len(Attempted(list)) = Len(Kept(list)) + 1
         /\ Len(Attempted(list)) <= Len(list) + 1
<1>1. Kept(list) \in Seq(Nat) /\ Len(Kept(list)) \in 0..Len(list)
  BY KeptIsShorter
<1>2. Append(Kept(list), 0) \in Seq(Nat) /\ Len(Append(Kept(list), 0)) = Len(Kept(list)) + 1
  BY <1>1, AppendProperties
<1>3. /\ Attempted(list) \in Seq(Nat)
      /\ Len(Attempted(list)) = Len(Append(Kept(list), 0))
  BY <1>2, AgedType DEF Attempted
<1>4. QED
  BY <1>1, <1>2, <1>3

(* What is not outlived stays, what is outlived goes. *)
LEMMA KeptFresh ==
  ASSUME Readable, NEW list \in Seq(Nat), NEW k \in 0..4, Fresh(list, k)
  PROVE  /\ Kept(list) \in Seq(Nat) /\ Len(Kept(list)) = k
         /\ \A i \in 1..k : Kept(list)[i] = k + 1 - i
<1>1. VelocityWindow \in Nat /\ 4 <= VelocityWindow /\ Len(list) \in Nat
  BY ReadableRules
<1>2. CASE k = 0
  <2>1. \A i \in 1..Len(list) : Outlived(list[i])
    BY <1>2 DEF Fresh
  <2> DEFINE old == {j \in 0..Len(list) : \A i \in 1..j : Outlived(list[i])}
             cleared == CHOOSE j \in old : \A h \in old : h <= j
  <2>2. Len(list) \in old /\ \A h \in old : h <= Len(list)
    BY <1>1, <2>1
  <2>3. cleared \in old /\ \A h \in old : h <= cleared
    <3> HIDE DEF old
    <3> QED
      BY <2>2
  <2>4. Kept(list) = SubSeq(list, cleared + 1, Len(list))
    BY DEF Kept
  <2>5. cleared = Len(list)
    <3>1. cleared \in 0..Len(list) /\ Len(list) <= cleared
      BY <2>2, <2>3
    <3> HIDE DEF cleared
    <3>2. QED
      BY <1>1, <3>1
  <2> HIDE DEF cleared
  <2>6. Kept(list) = <<>>
    BY <1>1, <2>4, <2>5
  <2>7. QED
    BY <1>2, <2>6
<1>3. CASE k # 0
  <2>1. Len(list) = k /\ \A i \in 1..k : list[i] = k + 1 - i
    BY <1>3 DEF Fresh
  <2>2. k \in 0..Len(list) /\ \A j \in 0..(k - 1) : list[Len(list) - j] <= VelocityWindow
    <3>1. \A j \in 0..(k - 1) : k - j \in 1..k /\ k + 1 - (k - j) = j + 1 /\ j + 1 <= 4
      OBVIOUS
    <3>2. QED
      BY <1>1, <2>1, <3>1
  <2>3. PICK d \in 0..(Len(list) - k) : Kept(list) = SubSeq(list, d + 1, Len(list))
    BY <2>2, Clearing
  <2>4. d = 0
    BY <2>1
  <2>5. SubSeq(list, 1, Len(list)) = list
    OBVIOUS
  <2>6. Kept(list) = list
    BY <2>3, <2>4, <2>5
  <2>7. QED
    BY <2>1, <2>6
<1>4. QED
  BY <1>2, <1>3

(* One more attempt of a burst. *)
LEMMA AttemptFresh ==
  ASSUME Readable, NEW list \in Seq(Nat), NEW k \in 0..3, Fresh(list, k)
  PROVE  Fresh(Attempted(list), k + 1)
<1> DEFINE kept == Kept(list)
           all == Append(kept, 0)
<1>1. kept \in Seq(Nat) /\ Len(kept) = k /\ \A i \in 1..k : kept[i] = k + 1 - i
  <2>1. k \in 0..4
    OBVIOUS
  <2>2. QED
    BY <2>1, KeptFresh
<1> HIDE DEF kept
<1>2. /\ all \in Seq(Nat) /\ Len(all) = k + 1
      /\ \A i \in 1..k : all[i] = kept[i]
      /\ all[k + 1] = 0
  BY <1>1, AppendProperties
<1> HIDE DEF all
<1>3. \A i \in 1..(k + 1) : all[i] = k + 1 - i
  BY <1>1, <1>2
<1>4. VelocityWindow \in Nat /\ 4 <= VelocityWindow
  BY ReadableRules
<1>5. Aged(all, 1) = [i \in 1..(k + 1) |->
                        IF all[i] + 1 > VelocityWindow THEN VelocityWindow + 1 ELSE all[i] + 1]
  BY <1>2 DEF Aged
<1>6. \A i \in 1..(k + 1) : Aged(all, 1)[i] = (k + 1) + 1 - i
  BY <1>3, <1>4, <1>5
<1>7. Len(Aged(all, 1)) = k + 1
  BY <1>2, AgedType
<1>8. QED
  BY <1>6, <1>7 DEF Fresh, Attempted, all, kept

LEMMA WaitClears ==
  ASSUME Readable, NEW list \in Seq(Nat)
  PROVE  Aged(list, 11) \in Seq(Nat) /\ Fresh(Aged(list, 11), 0)
<1>1. VelocityWindow \in Nat /\ VelocityWindow <= 10
  BY ReadableRules
<1>2. DOMAIN list = 1..Len(list) /\ \A i \in 1..Len(list) : list[i] \in Nat
  OBVIOUS
<1>3. \A i \in 1..Len(list) : Aged(list, 11)[i] = VelocityWindow + 1
  BY <1>1, <1>2 DEF Aged
<1>4. Aged(list, 11) \in Seq(Nat) /\ Len(Aged(list, 11)) = Len(list)
  BY AgedType
<1>5. QED
  BY <1>1, <1>3, <1>4 DEF Fresh, Outlived

(* The last receipts are retained, and at first all of them. *)
LEMMA RetainedEnd ==
  ASSUME Readable, events \in Seq(Receipts), NEW e \in Receipts
  PROVE  /\ Retained(e) \in Seq(Receipts)
         /\ Len(Retained(e)) \in Nat \ {0} /\ Retained(e)[Len(Retained(e))] = e
         /\ Len(events) <= 4 =>
              /\ Len(Retained(e)) = Len(events) + 1
              /\ \A i \in 1..Len(events) : Retained(e)[i] = events[i]
         /\ \A k \in 0..4 : k <= Len(events) =>
              /\ k + 1 <= Len(Retained(e))
              /\ \A j \in 1..k : Retained(e)[Len(Retained(e)) - (k + 1) + j]
                                   = events[Len(events) - k + j]
<1> DEFINE n == Len(events)
           all == Append(events, e)
           d == IF n + 1 > MaxEvents THEN (n + 1) - MaxEvents ELSE 0
           kept == SubSeq(all, d + 1, n + 1)
<1>1. MaxEvents \in Nat /\ MaxEvents >= 5 /\ n \in Nat
  BY ReadableRules
<1>2. /\ all \in Seq(Receipts) /\ Len(all) = n + 1
      /\ \A i \in 1..n : all[i] = events[i]
      /\ all[n + 1] = e
  BY AppendProperties
<1>3. Retained(e) = kept
  <2>1. Retained(e) = SubSeq(all, IF Len(all) > MaxEvents THEN Len(all) + 1 - MaxEvents ELSE 1,
                             Len(all))
    BY DEF Retained
  <2> HIDE DEF all, n
  <2>2. (IF Len(all) > MaxEvents THEN Len(all) + 1 - MaxEvents ELSE 1) = d + 1
    BY <1>1, <1>2
  <2>3. QED
    BY <1>2, <2>1, <2>2
<1>4. d \in Nat /\ d <= n /\ (n <= 4 => d = 0) /\ (n + 1) - d >= 1
      /\ \A k \in 0..4 : k <= n => k + 1 <= (n + 1) - d
  <2> HIDE DEF n
  <2> QED
    BY <1>1
<1> HIDE DEF all, d
<1>5. /\ kept \in Seq(Receipts) /\ Len(kept) = (n + 1) - d
      /\ \A i \in 1..((n + 1) - d) : kept[i] = all[d + i]
  <2> HIDE DEF n, kept
  <2>1. d + 1 \in 1..(Len(all) + 1) /\ n + 1 \in 0..Len(all) /\ d + 1 <= n + 1
    BY <1>1, <1>2, <1>4
  <2>2. /\ SubSeq(all, d + 1, n + 1) \in Seq(Receipts)
        /\ Len(SubSeq(all, d + 1, n + 1)) =
             IF d + 1 <= n + 1 THEN (n + 1) - (d + 1) + 1 ELSE 0
        /\ \A i \in 1..((n + 1) - (d + 1) + 1) :
             SubSeq(all, d + 1, n + 1)[i] = all[(d + 1) + i - 1]
    BY <1>2, <2>1, SubSeqProperties
  <2>3. (n + 1) - (d + 1) + 1 = (n + 1) - d /\ \A i \in Nat : (d + 1) + i - 1 = d + i
    BY <1>1, <1>4
  <2>4. \A i \in 1..((n + 1) - d) : i \in Nat
    BY <1>1, <1>4
  <2>5. QED
    BY <2>1, <2>2, <2>3, <2>4 DEF kept
<1> HIDE DEF n, kept
<1>6. kept[Len(kept)] = e /\ Len(kept) \in Nat \ {0}
  <2>1. (n + 1) - d \in 1..((n + 1) - d) /\ d + ((n + 1) - d) = n + 1
    BY <1>1, <1>4
  <2>2. QED
    BY <1>2, <1>5, <2>1
<1>7. n <= 4 => Len(kept) = n + 1 /\ \A i \in 1..n : kept[i] = events[i]
  <2> SUFFICES ASSUME n <= 4
               PROVE  Len(kept) = n + 1 /\ \A i \in 1..n : kept[i] = events[i]
    OBVIOUS
  <2>1. d = 0 /\ \A i \in 1..n : i \in 1..((n + 1) - 0) /\ 0 + i = i
    BY <1>1, <1>4
  <2>2. QED
    BY <1>1, <1>2, <1>5, <2>1
<1>8. ASSUME NEW k \in 0..4, k <= n, NEW j \in 1..k
      PROVE  kept[Len(kept) - (k + 1) + j] = events[n - k + j]
  <2>1. /\ Len(kept) - (k + 1) + j \in 1..((n + 1) - d)
        /\ d + (Len(kept) - (k + 1) + j) = n - k + j
        /\ n - k + j \in 1..n
    BY <1>1, <1>4, <1>5, <1>8
  <2>2. QED
    BY <1>2, <1>5, <2>1
<1>9. QED
  BY <1>3, <1>4, <1>5, <1>6, <1>7, <1>8 DEF n

-----------------------------------------------------------------------------
(* The invariant of the screen, one instruction at a time. *)

LEMMA Moving ==
  ASSUME ScreenInv, NEW instruction, Doing(instruction), Done, running' = running
  PROVE  /\ PlaceInv' /\ Place(instruction)
         /\ Len(script) \in Nat /\ Len(script') = Len(script) - 1
         /\ running \in Operations /\ running # "none"
         /\ ScreenTellsScenario'
<1>1. script # <<>> /\ PlaceInv
  BY DEF Doing, ScreenInv
<1>2. PlaceInv' /\ Len(script) \in Nat /\ Len(script') = Len(script) - 1
  BY <1>1, NextPlace
<1>3. Place(instruction)
  BY <1>1, Where
<1>4. running \in Operations /\ running # "none"
  BY <1>1 DEF PlaceInv
<1>5. ScreenTellsScenario'
  BY <1>4 DEF ScreenTellsScenario
<1>6. QED
  BY <1>2, <1>3, <1>4, <1>5

(* What a payment leaves in the window, in the baseline and on the screen. *)
LEMMA PaymentShown ==
  ASSUME Readable, ScreenInv, NEW payment \in {Normal, Novel, Attack}, Pay(payment)
  PROVE  LET e == [decision |-> Decide(payment), amount |-> payment.amount] IN
         /\ e \in Receipts /\ events' = Retained(e)
         /\ ages' = Attempted(ages)
         /\ \/ /\ Decide(payment) = "ALLOW"
               /\ clean' = Learned(clean, payment.recipient, payment.amount)
            \/ Decide(payment) # "ALLOW" /\ UNCHANGED <<balance, clean>>
<1>1. Decide(payment) \in {"ALLOW", "REQUIRE_APPROVAL", "BLOCK"}
  BY DEF Decide
<1>2. payment.amount \in Nat
  BY PaymentTypes
<1>3. [decision |-> Decide(payment), amount |-> payment.amount] \in Receipts
  BY <1>1, <1>2 DEF Receipts
<1>4. /\ events' = Retained([decision |-> Decide(payment), amount |-> payment.amount])
      /\ ages' = Attempted(ages)
  BY DEF Pay, Publish, Attempted
<1>5. \/ /\ Decide(payment) = "ALLOW"
         /\ clean' = Learned(clean, payment.recipient, payment.amount)
      \/ Decide(payment) # "ALLOW" /\ UNCHANGED <<balance, clean>>
  BY DEF Pay
<1>6. QED
  BY <1>3, <1>4, <1>5

LEMMA NormalShown ==
  ASSUME Readable, ScreenInv, MoneyInv', Pay(Normal), UNCHANGED initial,
         \/ seeds' = seeds
         \/ Decide(Normal) = "ALLOW" /\ seeds' = seeds + 1
  PROVE  /\ LearnedInv' /\ Len(ages') <= Len(ages) + 1
         /\ events' # <<>> /\ events'[Len(events')].decision = Decide(Normal)
         /\ Len(events) <= 4 =>
              /\ Len(events') = Len(events) + 1
              /\ \A i \in 1..Len(events) : events'[i] = events[i]
         /\ Decide(Normal) # "ALLOW" => UNCHANGED <<balance, clean>>
         /\ Decide(Normal) = "ALLOW" => clean'.number = clean.number + 1
<1> DEFINE e == [decision |-> Decide(Normal), amount |-> Normal.amount]
<1>1. /\ e \in Receipts /\ events' = Retained(e) /\ ages' = Attempted(ages)
      /\ \/ /\ Decide(Normal) = "ALLOW"
            /\ clean' = Learned(clean, Normal.recipient, Normal.amount)
         \/ Decide(Normal) # "ALLOW" /\ UNCHANGED <<balance, clean>>
  BY PaymentShown
<1>2. e.decision = Decide(Normal)
  OBVIOUS
<1> HIDE DEF e
<1>3. LearnedInv /\ ages \in Seq(Nat) /\ events \in Seq(Receipts)
  BY DEF ScreenInv, LearnedInv
<1>4. ages' \in Seq(Nat) /\ Len(ages') <= Len(ages) + 1
  BY <1>1, <1>3, AttemptType
<1>5. /\ events' \in Seq(Receipts)
      /\ Len(events') \in Nat \ {0} /\ events'[Len(events')] = e
      /\ Len(events) <= 4 =>
           /\ Len(events') = Len(events) + 1
           /\ \A i \in 1..Len(events) : events'[i] = events[i]
  BY <1>1, <1>3, RetainedEnd
<1>6. clean.number \in Nat /\ clean.total \in Nat /\ seeds \in Nat
  BY DEF ScreenInv, MoneyInv, TypeInv
<1>7. CASE Decide(Normal) = "ALLOW"
  <2>1. /\ clean'.number = clean.number + 1 /\ clean'.total = clean.total + 10
        /\ clean'.recipients = clean.recipients \cup {"weather-api"}
    BY <1>1, <1>7, Amounts DEF Learned
  <2>2. clean'.recipients = {"weather-api"} /\ clean'.number # 0
    BY <1>3, <1>6, <2>1 DEF LearnedInv
  <2>3. clean'.total = 10 * clean'.number
    BY <1>3, <1>6, <2>1, Amounts DEF LearnedInv
  <2>4. seeds' <= clean'.number
    BY <1>3, <1>6, <2>1 DEF LearnedInv
  <2>5. LearnedInv'
    BY <1>3, <1>4, <1>5, <2>2, <2>3, <2>4, Amounts DEF LearnedInv
  <2>6. QED
    BY <1>2, <1>4, <1>5, <1>7, <2>1, <2>5
<1>8. CASE Decide(Normal) # "ALLOW"
  <2>1. UNCHANGED <<balance, clean, seeds, initial>>
    BY <1>1, <1>8
  <2>2. LearnedInv'
    BY <1>3, <1>4, <1>5, <2>1 DEF LearnedInv
  <2>3. QED
    BY <1>2, <1>4, <1>5, <1>8, <2>1, <2>2
<1>9. QED
  BY <1>7, <1>8

(* Nothing stands against the first payment after a reset. *)
LEMMA UnusedAllows ==
  ASSUME Readable, MoneyInv, LearnedInv, Unused
  PROVE  Decide(Normal) = "ALLOW"
<1>1. Normal.amount <= balance
  BY DEF Readable, Unused, LearnedInv
<1>2. Fresh(ages, 0)
  BY DEF Unused, Fresh
<1>3. Len(Kept(ages)) = 0
  <2>1. ages \in Seq(Nat) /\ 0 \in 0..4
    BY DEF LearnedInv
  <2>2. QED
    BY <1>2, <2>1, KeptFresh
<1>4. ~HighVelocity(Len(Kept(ages)) + 1)
  BY <1>3, ReadableRules DEF HighVelocity
<1>5. QED
  BY <1>1, <1>4, NormalVerdict

LEMMA ScreenReset ==
  ASSUME Readable, ScreenInv, MoneyInv', Reset
  PROVE  ScreenInv'
<1>1. /\ Doing("reset") /\ Done /\ running' = running
      /\ ages' = <<>> /\ clean' = NoHistory /\ balance' = initial /\ initial' = initial
      /\ seeds' = 0 /\ events' = <<>>
  BY DEF Reset
<1>2. /\ PlaceInv' /\ Place("reset") /\ ScreenTellsScenario'
      /\ Len(script) \in Nat /\ Len(script') = Len(script) - 1
  BY <1>1, Moving
<1>3. /\ running' \in Drains => Len(script') = 7
      /\ running' = "run_demo_sequence" => Len(script') = 1 \/ Len(script') = 9
      /\ running' = "run_approval_scenario" => Len(script') = 3
      /\ running' = "run_replay_scenario" => Len(script') = 2
      /\ running' \in {"run_normal", "run_normal_scenario"} => Len(script') = 1
  BY <1>1, <1>2 DEF Place, Drains
<1>4. clean'.number = 0 /\ clean'.total = 0 /\ clean'.recipients = {}
  BY <1>1 DEF NoHistory
<1>5. LearnedInv'
  BY <1>1, <1>4, Amounts DEF ScreenInv, LearnedInv
<1>6. WarmInv'
  BY <1>3 DEF WarmInv, Waited
<1>7. DrainInv'
  <2>1. \A k \in 0..5 : 5 - k # 7 /\ 5 - k + 2 # 1 /\ 5 - k + 2 # 9
    OBVIOUS
  <2>2. \A k \in 0..5 : ~Bursting(5 - k)'
    BY <1>3, <2>1 DEF Bursting
  <2>3. QED
    BY <2>2 DEF DrainInv
<1>8. Unused'
  BY <1>1 DEF Unused
<1>9. ShowsAllowed(seeds)' /\ seeds' <= 3 /\ Len(ages') <= seeds' /\ clean'.number = seeds'
  BY <1>1, <1>4 DEF ShowsAllowed
<1>10. NovelInv' /\ TwiceInv' /\ OrdinaryInv'
  <2>1. NovelInv'
    <3>1. SUFFICES ASSUME running' = "run_approval_scenario"
                   PROVE  NovelInv'
      BY DEF NovelInv
    <3>2. Len(script') = 3
      BY <1>3, <3>1
    <3>3. ~(Len(script') \in 1..2) /\ Len(script') # 1 /\ Len(script') # 0
      BY <3>2
    <3>4. QED
      BY <1>9, <3>3, Zenon DEF NovelInv
  <2>2. TwiceInv'
    BY <1>3, <1>8 DEF TwiceInv
  <2>3. OrdinaryInv'
    BY <1>1, <1>3, <1>8 DEF OrdinaryInv
  <2>4. QED
    BY <2>1, <2>2, <2>3
<1>11. QED
  BY <1>2, <1>5, <1>6, <1>7, <1>10 DEF ScreenInv

LEMMA ScreenNormal ==
  ASSUME Readable, ScreenInv, MoneyInv', ProcessNormal
  PROVE  ScreenInv'
<1>1. /\ Doing("normal") /\ Done /\ running' = running
      /\ Pay(Normal) /\ UNCHANGED initial
      /\ seeds' = seeds \/ (Decide(Normal) = "ALLOW" /\ seeds' = seeds + 1)
  BY DEF ProcessNormal, Seeded
<1>2. /\ PlaceInv' /\ Place("normal") /\ ScreenTellsScenario'
      /\ Len(script) \in Nat /\ Len(script') = Len(script) - 1
  BY <1>1, Moving
<1>3. /\ Len(script) = 1 /\ Len(script') = 0
      /\ running' \in {"run_normal", "run_normal_scenario", "run_demo_sequence"}
  BY <1>1, <1>2 DEF Place
<1>4. /\ LearnedInv'
      /\ events' # <<>> /\ events'[Len(events')].decision = Decide(Normal)
      /\ Len(events) <= 4 => Len(events') = Len(events) + 1
      /\ Decide(Normal) # "ALLOW" => UNCHANGED <<balance, clean>>
  BY <1>1, NormalShown
<1>5. WarmInv'
  BY <1>3 DEF WarmInv, Waited, Drains
<1>6. DrainInv'
  <2>1. \A k \in 0..5 : 5 - k + 2 # 0
    OBVIOUS
  <2>2. \A k \in 0..5 : ~Bursting(5 - k)'
    BY <1>3, <2>1 DEF Bursting, Drains
  <2>3. QED
    BY <2>2 DEF DrainInv
<1>7. NovelInv' /\ TwiceInv'
  BY <1>3 DEF NovelInv, TwiceInv
<1>8. Decide(Normal) = "BLOCK" => ~(Normal.amount <= balance)
  BY NormalVerdict DEF ScreenInv
<1>9. running = "run_demo_sequence" => ShowsAllowed(1)'
  <2>1. SUFFICES ASSUME running = "run_demo_sequence"
                 PROVE  ShowsAllowed(1)'
    OBVIOUS
  <2>2. Unused
    BY <1>3, <2>1 DEF ScreenInv, OrdinaryInv
  <2>3. Decide(Normal) = "ALLOW"
    BY <2>2, UnusedAllows DEF ScreenInv
  <2>4. Len(events) = 0
    BY <2>2 DEF Unused
  <2>5. Len(events') = 1 /\ events'[1].decision = "ALLOW"
    <3>1. Len(events) <= 4 /\ Len(events) + 1 = 1
      BY <2>4
    <3>2. Len(events') = 1
      BY <1>4, <3>1
    <3>3. QED
      BY <1>4, <2>3, <3>2
  <2>6. QED
    BY <2>5 DEF ShowsAllowed
<1>10. OrdinaryInv'
  <2>1. balance \in Nat /\ Normal.amount \in Nat
    BY Amounts DEF ScreenInv, MoneyInv, TypeInv
  <2>2. events'[Len(events')].decision = "BLOCK" => balance' < Normal.amount
    BY <1>4, <1>8, <2>1
  <2>3. QED
    BY <1>1, <1>3, <1>4, <1>9, <2>2 DEF OrdinaryInv
<1>11. QED
  BY <1>2, <1>4, <1>5, <1>6, <1>7, <1>10 DEF ScreenInv

LEMMA ScreenSeed ==
  ASSUME Readable, ScreenInv, MoneyInv', Seed
  PROVE  ScreenInv'
<1>1. /\ Doing("seed") /\ seeds < 3 /\ script' = script /\ running' = running
      /\ Pay(Normal) /\ UNCHANGED initial
      /\ \/ Decide(Normal) # "ALLOW" /\ seeds' = seeds
         \/ Decide(Normal) = "ALLOW" /\ seeds' = seeds + 1
  BY DEF Seed, Seeded
<1>2. PlaceInv /\ PlaceInv' /\ Place("seed") /\ running # "none"
  <2>1. PlaceInv /\ script # <<>>
    BY <1>1 DEF ScreenInv, Doing
  <2>2. PlaceInv' /\ running # "none"
    BY <1>1, <2>1 DEF PlaceInv
  <2>3. QED
    BY <1>1, <2>1, <2>2, Where
<1>3. /\ running \in Drains => Len(script) = 7
      /\ running = "run_demo_sequence" => Len(script) = 9
      /\ running = "run_approval_scenario" => Len(script) = 3
      /\ running \notin {"run_replay_scenario", "reset", "run_normal", "run_normal_scenario"}
  BY <1>2 DEF Place, Drains
<1>4. /\ LearnedInv' /\ Len(ages') <= Len(ages) + 1
      /\ events'[Len(events')].decision = Decide(Normal)
      /\ Len(events) <= 4 =>
           /\ Len(events') = Len(events) + 1
           /\ \A i \in 1..Len(events) : events'[i] = events[i]
      /\ Decide(Normal) # "ALLOW" => UNCHANGED <<balance, clean>>
      /\ Decide(Normal) = "ALLOW" => clean'.number = clean.number + 1
  BY <1>1, NormalShown
<1>5. WarmInv'
  BY <1>1, <1>3 DEF WarmInv, Waited
<1>6. DrainInv'
  <2>1. \A k \in 0..5 : 5 - k # 7 /\ 5 - k + 2 # 9
    OBVIOUS
  <2>2. \A k \in 0..5 : ~Bursting(5 - k)'
    BY <1>1, <1>3, <2>1 DEF Bursting
  <2>3. QED
    BY <2>2 DEF DrainInv
<1>7. TwiceInv' /\ OrdinaryInv'
  BY <1>1, <1>3 DEF TwiceInv, OrdinaryInv
<1>8. NovelInv'
  <2>1. SUFFICES ASSUME running = "run_approval_scenario"
                 PROVE  \/ /\ ShowsAllowed(seeds)' /\ Len(ages') <= seeds'
                           /\ clean'.number = seeds' /\ seeds' <= 3
                        \/ seeds' < 3 /\ balance' < Normal.amount
    <3>1. running' = "run_approval_scenario" => Len(script') = 3
      BY <1>1, <1>3
    <3>2. Len(script') = 3 => ~(Len(script') \in 1..2) /\ Len(script') # 1 /\ Len(script') # 0
      OBVIOUS
    <3>3. QED
      BY <1>1, <3>1, <3>2, Zenon DEF NovelInv
  <2>2. Len(script) = 3
    BY <1>3, <2>1
  <2>3. /\ balance \in Nat /\ seeds \in Nat /\ Normal.amount \in Nat
        /\ clean.number \in Nat /\ ages \in Seq(Nat)
    BY Amounts DEF ScreenInv, MoneyInv, TypeInv, LearnedInv
  <2>4. CASE balance < Normal.amount
    <3>1. Decide(Normal) # "ALLOW"
      BY <2>3, <2>4, NormalVerdict DEF ScreenInv
    <3>2. QED
      BY <1>1, <1>4, <2>4, <3>1
  <2>5. CASE ~(balance < Normal.amount)
    <3>1. ShowsAllowed(seeds) /\ Len(ages) <= seeds /\ clean.number = seeds
      BY <2>1, <2>2, <2>5 DEF ScreenInv, NovelInv
    <3>2. Len(ages) \in Nat /\ Len(Kept(ages)) \in 0..Len(ages)
      BY <2>3, KeptIsShorter
    <3>3. Len(Kept(ages)) \in 0..2
      <4>1. \A x, y, z \in Nat : x \in 0..y /\ y <= z /\ z < 3 => x \in 0..2
        OBVIOUS
      <4>2. Len(Kept(ages)) \in Nat
        BY <3>2
      <4>3. QED
        BY <1>1, <2>3, <3>1, <3>2, <4>1, <4>2
    <3>4. ~HighVelocity(Len(Kept(ages)) + 1)
      <4>1. \A x \in 0..2 : ~(x + 1 >= 5)
        OBVIOUS
      <4>2. QED
        BY <3>3, <4>1, ReadableRules DEF HighVelocity
    <3>5. Decide(Normal) = "ALLOW"
      BY <2>3, <2>5, <3>4, NormalVerdict DEF ScreenInv
    <3>6. seeds' = seeds + 1 /\ clean'.number = seeds' /\ seeds' <= 3 /\ Len(ages') <= seeds'
      <4>1. Len(ages') \in Nat
        BY <1>4 DEF LearnedInv
      <4>2. QED
        BY <1>1, <1>4, <2>3, <3>1, <3>2, <3>5, <4>1
    <3>7. Len(events) = seeds /\ \A i \in 1..seeds : events[i].decision = "ALLOW"
      BY <3>1 DEF ShowsAllowed
    <3>8. /\ Len(events') = seeds + 1
          /\ \A i \in 1..seeds : events'[i].decision = "ALLOW"
          /\ events'[seeds + 1].decision = "ALLOW"
      BY <1>1, <1>4, <2>3, <3>5, <3>7
    <3>9. ShowsAllowed(seeds)'
      <4>1. \A i \in 1..(seeds + 1) : i \in 1..seeds \/ i = seeds + 1
        BY <2>3
      <4>2. QED
        BY <3>6, <3>8, <4>1 DEF ShowsAllowed
    <3>10. QED
      BY <3>6, <3>9
  <2>6. QED
    BY <2>4, <2>5
<1>9. ScreenTellsScenario'
  BY <1>1, <1>2 DEF ScreenTellsScenario
<1>10. QED
  BY <1>2, <1>4, <1>5, <1>6, <1>7, <1>8, <1>9 DEF ScreenInv

LEMMA ScreenWarm ==
  ASSUME Readable, ScreenInv, MoneyInv', Warm
  PROVE  ScreenInv'
<1>1. /\ Doing("seed") /\ seeds >= 3 /\ Done /\ running' = running
      /\ UNCHANGED <<initial, ages, clean, balance, seeds, events>>
  BY DEF Warm
<1>2. /\ PlaceInv' /\ Place("seed") /\ ScreenTellsScenario'
      /\ Len(script) \in Nat /\ Len(script') = Len(script) - 1
  BY <1>1, Moving
<1>3. /\ running' \in Drains => Len(script') = 6
      /\ running' = "run_demo_sequence" => Len(script') = 8
      /\ running' = "run_approval_scenario" => Len(script') = 2 /\ Len(script) = 3
      /\ running' \notin {"run_replay_scenario", "reset", "run_normal", "run_normal_scenario"}
  BY <1>1, <1>2 DEF Place, Drains
<1>4. LearnedInv' /\ WarmInv'
  BY <1>1 DEF ScreenInv, LearnedInv, WarmInv
<1>5. DrainInv'
  <2>1. \A k \in 0..5 : 5 - k # 6 /\ 5 - k + 2 # 8
    OBVIOUS
  <2>2. \A k \in 0..5 : ~Bursting(5 - k)'
    BY <1>3, <2>1 DEF Bursting
  <2>3. QED
    BY <2>2 DEF DrainInv
<1>6. TwiceInv' /\ OrdinaryInv'
  BY <1>3 DEF TwiceInv, OrdinaryInv
<1>7. NovelInv'
  <2>1. SUFFICES ASSUME running' = "run_approval_scenario"
                 PROVE  NovelInv'
    BY DEF NovelInv
  <2>2. Len(script') = 2 /\ Len(script) = 3
    BY <1>3, <2>1
  <2>3. seeds \in Nat
    BY DEF ScreenInv, MoneyInv, TypeInv
  <2>4. ShowsAllowed(seeds) /\ clean.number = seeds /\ seeds <= 3
    BY <1>1, <2>1, <2>2, <2>3 DEF ScreenInv, NovelInv
  <2>5. seeds = 3
    BY <1>1, <2>3, <2>4
  <2>6. ShowsAllowed(3) /\ clean.number = 3
    BY <2>4, <2>5
  <2>7. ShowsAllowed(3)' /\ clean'.number = 3
    BY <1>1, <2>6 DEF ShowsAllowed
  <2>8. Len(script') # 3 /\ Len(script') # 1 /\ Len(script') # 0
    BY <2>2
  <2>9. QED
    BY <2>7, <2>8, Zenon DEF NovelInv
<1>8. QED
  BY <1>2, <1>4, <1>5, <1>6, <1>7 DEF ScreenInv

LEMMA ScreenWait ==
  ASSUME Readable, ScreenInv, MoneyInv', Wait
  PROVE  ScreenInv'
<1>1. /\ Doing("wait") /\ Done /\ running' = running
      /\ ages' = Aged(ages, 11)
      /\ UNCHANGED <<initial, clean, balance, seeds, events>>
  BY DEF Wait
<1>2. /\ PlaceInv' /\ Place("wait") /\ ScreenTellsScenario'
      /\ Len(script) \in Nat /\ Len(script') = Len(script) - 1
  BY <1>1, Moving
<1>3. /\ running' \in Drains => Len(script') = 5 /\ Len(script) = 6
      /\ running' = "run_demo_sequence" => Len(script') = 7 /\ Len(script) = 8
      /\ running' = "run_approval_scenario" => Len(script') = 1 /\ Len(script) = 2
      /\ running' \notin {"run_replay_scenario", "reset", "run_normal", "run_normal_scenario"}
  BY <1>1, <1>2 DEF Place, Drains
<1>4. ages' \in Seq(Nat) /\ Fresh(ages', 0)
  BY <1>1, WaitClears DEF ScreenInv, LearnedInv
<1>5. LearnedInv'
  BY <1>1, <1>4 DEF ScreenInv, LearnedInv
<1>6. WarmInv'
  <2>1. Waited' => Waited
    BY <1>1, <1>3 DEF Waited
  <2>2. QED
    BY <1>1, <2>1 DEF ScreenInv, WarmInv
<1>7. DrainInv'
  <2>1. \A k \in 0..5 : 5 - k = 5 \/ 5 - k + 2 = 7 => k = 0
    OBVIOUS
  <2>2. \A k \in 0..5 : Bursting(5 - k)' => k = 0
    BY <1>3, <2>1 DEF Bursting
  <2>3. Fresh(ages, 0)' /\ ShowsDrain(0)'
    <3>1. Len(events') \in Nat
      BY <1>5 DEF LearnedInv
    <3>2. QED
      BY <1>4, <3>1 DEF ShowsDrain
  <2>4. QED
    BY <2>2, <2>3 DEF DrainInv
<1>8. TwiceInv' /\ OrdinaryInv'
  BY <1>3 DEF TwiceInv, OrdinaryInv
<1>9. NovelInv'
  <2>1. SUFFICES ASSUME running' = "run_approval_scenario"
                 PROVE  NovelInv'
    BY DEF NovelInv
  <2>2. Len(script') = 1 /\ Len(script) = 2
    BY <1>3, <2>1
  <2>3. ShowsAllowed(3) /\ clean.number = 3
    BY <1>1, <2>1, <2>2 DEF ScreenInv, NovelInv
  <2>4. ShowsAllowed(3)' /\ clean'.number = 3
    BY <1>1, <2>3 DEF ShowsAllowed
  <2>5. Len(script') # 3 /\ Len(script') # 0
    BY <2>2
  <2>6. QED
    BY <1>4, <2>4, <2>5, Zenon DEF NovelInv
<1>10. QED
  BY <1>2, <1>5, <1>6, <1>7, <1>8, <1>9 DEF ScreenInv

(* A payment to a first-seen recipient, once the agent has a baseline. *)
LEMMA FirstSeenShown ==
  ASSUME Readable, ScreenInv, clean.number > 0,
         NEW payment \in {Novel, Attack}, Pay(payment), UNCHANGED <<initial, seeds>>,
         Decide(payment) # "ALLOW"
  PROVE  LearnedInv' /\ UNCHANGED <<balance, clean>>
<1> DEFINE e == [decision |-> Decide(payment), amount |-> payment.amount]
<1>1. /\ e \in Receipts /\ events' = Retained(e) /\ ages' = Attempted(ages)
      /\ UNCHANGED <<balance, clean>>
  BY PaymentShown
<1> HIDE DEF e
<1>2. LearnedInv /\ ages \in Seq(Nat) /\ events \in Seq(Receipts)
  BY DEF ScreenInv, LearnedInv
<1>3. ages' \in Seq(Nat)
  BY <1>1, <1>2, AttemptType
<1>4. events' \in Seq(Receipts)
  BY <1>1, <1>2, RetainedEnd
<1>5. QED
  BY <1>1, <1>2, <1>3, <1>4 DEF LearnedInv

LEMMA ScreenNovel ==
  ASSUME Readable, ScreenInv, MoneyInv', ProcessNovel
  PROVE  ScreenInv'
<1>1. /\ Doing("novel") /\ Done /\ running' = running
      /\ Pay(Novel) /\ UNCHANGED <<initial, seeds>>
  BY DEF ProcessNovel
<1>2. /\ PlaceInv' /\ Place("novel") /\ ScreenTellsScenario'
      /\ Len(script) \in Nat /\ Len(script') = Len(script) - 1
  BY <1>1, Moving
<1>3. /\ running' = "run_approval_scenario" /\ running = "run_approval_scenario"
      /\ Len(script') = 0 /\ Len(script) = 1
  BY <1>1, <1>2 DEF Place
<1>4. ShowsAllowed(3) /\ clean.number = 3 /\ Fresh(ages, 0)
  BY <1>3 DEF ScreenInv, NovelInv
<1>5. Decide(Novel) = "REQUIRE_APPROVAL"
  <2>1. ages \in Seq(Nat) /\ 0 \in 0..4
    BY DEF ScreenInv, LearnedInv
  <2>2. Len(Kept(ages)) = 0
    BY <1>4, <2>1, KeptFresh
  <2>3. QED
    BY <1>4, <2>2, FirstSeenVerdicts DEF ScreenInv
<1>6. LearnedInv'
  BY <1>1, <1>4, <1>5, FirstSeenShown
<1>7. WarmInv' /\ TwiceInv' /\ OrdinaryInv'
  BY <1>3 DEF WarmInv, Waited, Drains, TwiceInv, OrdinaryInv
<1>8. DrainInv'
  BY <1>3 DEF DrainInv, Bursting, Drains
<1>9. /\ Len(events') = 4 /\ events'[4].decision = "REQUIRE_APPROVAL"
      /\ \A i \in 1..3 : events'[i].decision = "ALLOW"
  <2> DEFINE e == [decision |-> Decide(Novel), amount |-> Novel.amount]
  <2>1. e \in Receipts /\ events' = Retained(e) /\ e.decision = "REQUIRE_APPROVAL"
    BY <1>1, <1>5, PaymentShown
  <2> HIDE DEF e
  <2>2. Len(events) = 3 /\ \A i \in 1..3 : events[i].decision = "ALLOW"
    BY <1>4 DEF ShowsAllowed
  <2>3. Len(events) <= 4 /\ Len(events) + 1 = 4
    BY <2>2
  <2>4. events \in Seq(Receipts)
    BY DEF ScreenInv, LearnedInv
  <2>5. /\ Len(events') = 4 /\ events'[Len(events')] = e
        /\ \A i \in 1..3 : events'[i] = events[i]
    BY <2>1, <2>2, <2>3, <2>4, RetainedEnd
  <2>6. QED
    BY <2>1, <2>2, <2>5
<1>10. NovelInv'
  BY <1>3, <1>9 DEF NovelInv
<1>11. QED
  BY <1>2, <1>6, <1>7, <1>8, <1>10 DEF ScreenInv

LEMMA ScreenAttack ==
  ASSUME Readable, ScreenInv, MoneyInv', ProcessAttack
  PROVE  ScreenInv'
<1>1. /\ Doing("attack") /\ Done /\ running' = running
      /\ Pay(Attack) /\ UNCHANGED <<initial, seeds>>
  BY DEF ProcessAttack
<1>2. /\ PlaceInv' /\ Place("attack") /\ ScreenTellsScenario'
      /\ Len(script) \in Nat /\ Len(script') = Len(script) - 1
  BY <1>1, Moving
<1>3. \/ running \in Drains /\ Len(script) \in 1..5
      \/ running = "run_demo_sequence" /\ Len(script) \in 3..7
  BY <1>2 DEF Place
<1>4. PICK k \in 0..4 : Bursting(5 - k)
  <2>1. CASE running \in Drains /\ Len(script) \in 1..5
    <3>1. 5 - Len(script) \in 0..4 /\ 5 - (5 - Len(script)) = Len(script)
      <4>1. \A x \in 1..5 : 5 - x \in 0..4 /\ 5 - (5 - x) = x
        OBVIOUS
      <4>2. QED
        BY <2>1, <4>1
    <3>2. Bursting(5 - (5 - Len(script)))
      BY <2>1, <3>1 DEF Bursting
    <3>3. QED
      BY <3>1, <3>2
  <2>2. CASE running = "run_demo_sequence" /\ Len(script) \in 3..7
    <3>1. 7 - Len(script) \in 0..4 /\ 5 - (7 - Len(script)) + 2 = Len(script)
      <4>1. \A x \in 3..7 : 7 - x \in 0..4 /\ 5 - (7 - x) + 2 = x
        OBVIOUS
      <4>2. QED
        BY <2>2, <4>1
    <3>2. Bursting(5 - (7 - Len(script)))
      BY <2>2, <3>1 DEF Bursting
    <3>3. QED
      BY <3>1, <3>2
  <2>3. QED
    BY <1>3, <2>1, <2>2
<1>5. Fresh(ages, k) /\ ShowsDrain(k)
  BY <1>4 DEF ScreenInv, DrainInv
<1>6. clean.number > 0
  <2>1. Waited
    BY <1>3 DEF Waited
  <2>2. seeds >= 3 /\ seeds <= clean.number /\ seeds \in Nat /\ clean.number \in Nat
    BY <2>1 DEF ScreenInv, WarmInv, LearnedInv, MoneyInv, TypeInv
  <2>3. QED
    BY <2>2
<1>7. Decide(Attack) = DrainVerdict(k + 1)
  <2>1. ages \in Seq(Nat)
    BY DEF ScreenInv, LearnedInv
  <2>2. Len(Kept(ages)) = k
    BY <1>5, <2>1, KeptFresh
  <2>3. QED
    BY <1>6, <2>2, FirstSeenVerdicts DEF ScreenInv
<1>8. LearnedInv' /\ UNCHANGED <<balance, clean>>
  <2>1. Decide(Attack) # "ALLOW"
    BY <1>7 DEF DrainVerdict
  <2>2. QED
    BY <1>1, <1>6, <2>1, FirstSeenShown
<1>9. ShowsDrain(k + 1)'
  <2> DEFINE e == [decision |-> Decide(Attack), amount |-> Attack.amount]
  <2>1. e \in Receipts /\ events' = Retained(e) /\ e.decision = DrainVerdict(k + 1)
    BY <1>1, <1>7, PaymentShown
  <2> HIDE DEF e
  <2>2. events \in Seq(Receipts) /\ k \in Nat
    BY DEF ScreenInv, LearnedInv
  <2>3. k <= Len(events) /\ \A j \in 1..k : events[Len(events) - k + j].decision = DrainVerdict(j)
    BY <1>5 DEF ShowsDrain
  <2>4. /\ Len(events') \in Nat /\ events'[Len(events')] = e
        /\ k + 1 <= Len(events')
        /\ \A j \in 1..k : events'[Len(events') - (k + 1) + j] = events[Len(events) - k + j]
    <3>1. /\ Len(Retained(e)) \in Nat \ {0} /\ Retained(e)[Len(Retained(e))] = e
          /\ \A h \in 0..4 : h <= Len(events) =>
               /\ h + 1 <= Len(Retained(e))
               /\ \A j \in 1..h : Retained(e)[Len(Retained(e)) - (h + 1) + j]
                                    = events[Len(events) - h + j]
      BY <2>1, <2>2, RetainedEnd
    <3>2. /\ k + 1 <= Len(Retained(e))
          /\ \A j \in 1..k : Retained(e)[Len(Retained(e)) - (k + 1) + j]
                               = events[Len(events) - k + j]
      BY <2>3, <3>1, Zenon
    <3>3. Len(Retained(e)) \in Nat
      BY <3>1
    <3>4. QED
      BY <2>1, <3>1, <3>2, <3>3, Zenon
  <2>5. \A j \in 1..(k + 1) : j \in 1..k \/ j = k + 1
    BY <2>2
  <2>6. Len(events') - (k + 1) + (k + 1) = Len(events')
    BY <2>2, <2>4
  <2>7. \A j \in 1..k : events'[Len(events') - (k + 1) + j].decision = DrainVerdict(j)
    BY <2>3, <2>4
  <2>8. events'[Len(events') - (k + 1) + (k + 1)].decision = DrainVerdict(k + 1)
    BY <2>1, <2>4, <2>6
  <2>9. \A j \in 1..(k + 1) : events'[Len(events') - (k + 1) + j].decision = DrainVerdict(j)
    BY <2>5, <2>7, <2>8
  <2>10. QED
    BY <2>4, <2>9 DEF ShowsDrain
<1>10. k + 1 <= 4 => Fresh(ages, k + 1)'
  <2>1. SUFFICES ASSUME k + 1 <= 4
                 PROVE  Fresh(ages, k + 1)'
    OBVIOUS
  <2>2. k \in 0..3 /\ ages \in Seq(Nat)
    BY <2>1 DEF ScreenInv, LearnedInv
  <2>3. Fresh(Attempted(ages), k + 1)
    BY <1>5, <2>2, AttemptFresh
  <2>4. ages' = Attempted(ages)
    BY <1>1 DEF Pay, Attempted
  <2>5. QED
    BY <2>3, <2>4
<1>11. /\ running \in Drains => Len(script) = 5 - k
       /\ running = "run_demo_sequence" => Len(script) = 5 - k + 2
  BY <1>4 DEF Bursting, Drains
<1>12. DrainInv'
  <2>1. SUFFICES ASSUME NEW h \in 0..5, Bursting(5 - h)'
                 PROVE  (h <= 4 => Fresh(ages, h)') /\ ShowsDrain(h)'
    BY DEF DrainInv
  <2>2. h = k + 1
    <3>1. \/ running \in Drains /\ Len(script') = 5 - h
          \/ running = "run_demo_sequence" /\ Len(script') = 5 - h + 2
      BY <1>1, <2>1 DEF Bursting
    <3>2. CASE running \in Drains /\ Len(script') = 5 - h
      BY <1>2, <1>11, <3>2
    <3>3. CASE running = "run_demo_sequence" /\ Len(script') = 5 - h + 2
      BY <1>2, <1>11, <3>3
    <3>4. QED
      BY <3>1, <3>2, <3>3
  <2>3. QED
    BY <1>9, <1>10, <2>2
<1>13. WarmInv'
  <2>1. Waited' => Waited
    BY <1>1, <1>3 DEF Waited, Drains
  <2>2. QED
    BY <1>1, <2>1 DEF ScreenInv, WarmInv
<1>14. /\ running' \notin {"run_approval_scenario", "run_replay_scenario", "reset",
                           "run_normal", "run_normal_scenario"}
       /\ running' = "run_demo_sequence" => Len(script') # 1 /\ Len(script') # 0
  <2>1. running \in Drains \cup {"run_demo_sequence"}
    BY <1>3
  <2>2. running' = "run_demo_sequence" => Len(script) \in 3..7
    BY <1>1, <1>3 DEF Drains
  <2>3. \A x \in 3..7 : x - 1 # 1 /\ x - 1 # 0
    OBVIOUS
  <2>4. running' = "run_demo_sequence" => Len(script') # 1 /\ Len(script') # 0
    BY <1>2, <2>2, <2>3
  <2>5. QED
    BY <1>1, <2>1, <2>4 DEF Drains
<1>15. NovelInv' /\ TwiceInv' /\ OrdinaryInv'
  BY <1>14 DEF NovelInv, TwiceInv, OrdinaryInv
<1>16. QED
  BY <1>2, <1>8, <1>12, <1>13, <1>15 DEF ScreenInv

(* The first of the two receipts of a replay: nothing stands against it. *)
LEMMA ScreenOriginal ==
  ASSUME Readable, ScreenInv, MoneyInv', ProcessOriginal
  PROVE  ScreenInv'
<1>1. /\ Doing("original") /\ Done /\ running' = running
      /\ Pay(Normal) /\ UNCHANGED initial /\ seeds' = seeds
  BY DEF ProcessOriginal
<1>2. /\ PlaceInv' /\ Place("original") /\ ScreenTellsScenario'
      /\ Len(script) \in Nat /\ Len(script') = Len(script) - 1
  BY <1>1, Moving
<1>3. /\ running' = "run_replay_scenario" /\ running = "run_replay_scenario"
      /\ Len(script') = 1 /\ Len(script) = 2
  BY <1>1, <1>2 DEF Place
<1>4. Unused
  BY <1>3 DEF ScreenInv, TwiceInv
<1>5. Decide(Normal) = "ALLOW"
  BY <1>4, UnusedAllows DEF ScreenInv
<1>6. /\ LearnedInv'
      /\ events'[Len(events')].decision = Decide(Normal)
      /\ Len(events) <= 4 => Len(events') = Len(events) + 1
  BY <1>1, NormalShown
<1>7. ShowsAllowed(1)'
  <2>1. Len(events) <= 4 /\ Len(events) + 1 = 1
    BY <1>4 DEF Unused
  <2>2. Len(events') = 1
    BY <1>6, <2>1
  <2>3. QED
    BY <1>5, <1>6, <2>2 DEF ShowsAllowed
<1>8. WarmInv' /\ NovelInv' /\ OrdinaryInv'
  BY <1>3 DEF WarmInv, Waited, Drains, NovelInv, OrdinaryInv
<1>9. DrainInv'
  BY <1>3 DEF DrainInv, Bursting, Drains
<1>10. TwiceInv'
  BY <1>3, <1>7 DEF TwiceInv
<1>11. QED
  BY <1>2, <1>6, <1>8, <1>9, <1>10 DEF ScreenInv

LEMMA ScreenReplayed ==
  ASSUME Readable, ScreenInv, MoneyInv', ProcessReplayed
  PROVE  ScreenInv'
<1> DEFINE e == [decision |-> "BLOCK", amount |-> Normal.amount]
<1>1. /\ Doing("replayed") /\ Done /\ running' = running
      /\ ages' = Aged(ages, 1) /\ events' = Retained(e)
      /\ UNCHANGED <<initial, clean, balance, seeds>>
  BY DEF ProcessReplayed, Replay, Publish
<1>2. e \in Receipts /\ e.decision = "BLOCK"
  BY Amounts DEF Receipts
<1> HIDE DEF e
<1>3. /\ PlaceInv' /\ Place("replayed") /\ ScreenTellsScenario'
      /\ Len(script) \in Nat /\ Len(script') = Len(script) - 1
  BY <1>1, Moving
<1>4. /\ running' = "run_replay_scenario" /\ running = "run_replay_scenario"
      /\ Len(script') = 0 /\ Len(script) = 1
  BY <1>1, <1>3 DEF Place
<1>5. Len(events) = 1 /\ events[1].decision = "ALLOW"
  BY <1>4 DEF ScreenInv, TwiceInv, ShowsAllowed
<1>6. ages \in Seq(Nat) /\ events \in Seq(Receipts)
  BY DEF ScreenInv, LearnedInv
<1>7. /\ events' \in Seq(Receipts) /\ events'[Len(events')] = e
      /\ Len(events) <= 4 => /\ Len(events') = Len(events) + 1
                             /\ \A i \in 1..Len(events) : events'[i] = events[i]
  BY <1>1, <1>2, <1>6, RetainedEnd
<1>8. Len(events') = 2 /\ events'[1].decision = "ALLOW" /\ events'[2].decision = "BLOCK"
  <2>1. Len(events) <= 4 /\ Len(events) + 1 = 2
    BY <1>5
  <2>2. Len(events') = 2 /\ events'[2] = e
    BY <1>7, <2>1
  <2>3. 1 \in 1..Len(events)
    BY <1>5
  <2>4. events'[1] = events[1]
    BY <1>7, <2>1, <2>3
  <2>5. QED
    BY <1>2, <1>5, <2>2, <2>4
<1>9. LearnedInv'
  <2>1. ages' \in Seq(Nat)
    BY <1>1, <1>6, AgedType
  <2>2. QED
    BY <1>1, <1>7, <2>1 DEF ScreenInv, LearnedInv
<1>10. WarmInv' /\ NovelInv' /\ OrdinaryInv'
  BY <1>4 DEF WarmInv, Waited, Drains, NovelInv, OrdinaryInv
<1>11. DrainInv'
  BY <1>4 DEF DrainInv, Bursting, Drains
<1>12. TwiceInv'
  BY <1>4, <1>8 DEF TwiceInv
<1>13. QED
  BY <1>3, <1>9, <1>10, <1>11, <1>12 DEF ScreenInv

(* The name an operation leaves and the receipts it leaves. *)
LEMMA ScenarioShown ==
  ASSUME ScreenInv, running # "none", script = <<>>, scenario' = Scenario(running),
         UNCHANGED <<events, balance>>
  PROVE  ScreenTellsScenario'
<1>1. Len(script) = 0 /\ running \in Operations /\ Len(events) \in Nat
  BY DEF ScreenInv, PlaceInv, LearnedInv
<1>2. \A n : Decisions(n)' = [i \in 1..n |-> events[Len(events) - n + i].decision]
  BY DEF Decisions
<1>3. CASE running \in Drains
  <2>1. Bursting(5 - 5)
    BY <1>1, <1>3 DEF Bursting
  <2>2. 5 \in 0..5
    OBVIOUS
  <2>3. ShowsDrain(5)
    BY <2>1, <2>2 DEF ScreenInv, DrainInv
  <2>4. scenario' = "COMPOUND_DRAIN"
    BY <1>3 DEF Scenario, Drains
  <2>5. Decisions(5)' = <<"REQUIRE_APPROVAL", "REQUIRE_APPROVAL", "REQUIRE_APPROVAL",
                          "REQUIRE_APPROVAL", "BLOCK">>
    <3>1. Decisions(5)' = [i \in 1..5 |-> DrainVerdict(i)]
      BY <1>2, <2>3 DEF ShowsDrain
    <3>2. [i \in 1..5 |-> DrainVerdict(i)]
            = <<"REQUIRE_APPROVAL", "REQUIRE_APPROVAL", "REQUIRE_APPROVAL",
                "REQUIRE_APPROVAL", "BLOCK">>
      BY DEF DrainVerdict
    <3>3. QED
      BY <3>1, <3>2
  <2>6. Len(events') >= 5
    BY <1>1, <2>3 DEF ShowsDrain
  <2>7. QED
    BY <2>4, <2>5, <2>6 DEF ScreenTellsScenario
<1>4. CASE running = "run_approval_scenario"
  <2>1. /\ Len(events) = 4 /\ events[4].decision = "REQUIRE_APPROVAL"
        /\ \A i \in 1..3 : events[i].decision = "ALLOW"
    BY <1>1, <1>4 DEF ScreenInv, NovelInv
  <2>2. scenario' = "NEW_RECIPIENT" /\ Len(events') = 4
    BY <1>4, <2>1 DEF Scenario
  <2>3. Decisions(4)' = <<"ALLOW", "ALLOW", "ALLOW", "REQUIRE_APPROVAL">>
    <3>1. \A i \in 1..4 : events[4 - 4 + i].decision = IF i = 4 THEN "REQUIRE_APPROVAL" ELSE "ALLOW"
      <4>1. \A i \in 1..4 : 4 - 4 + i = i /\ (i = 4 \/ i \in 1..3) /\ (i \in 1..3 => i # 4)
        OBVIOUS
      <4>2. QED
        BY <2>1, <4>1
    <3>2. Decisions(4)' = [i \in 1..4 |-> IF i = 4 THEN "REQUIRE_APPROVAL" ELSE "ALLOW"]
      BY <1>2, <2>1, <3>1
    <3>3. [i \in 1..4 |-> IF i = 4 THEN "REQUIRE_APPROVAL" ELSE "ALLOW"]
            = <<"ALLOW", "ALLOW", "ALLOW", "REQUIRE_APPROVAL">>
      OBVIOUS
    <3>4. QED
      BY <3>2, <3>3
  <2>4. Decisions(Len(events))' = Decisions(4)'
    BY <1>2, <2>1
  <2>5. QED
    BY <2>2, <2>3, <2>4 DEF ScreenTellsScenario
<1>5. CASE running = "run_replay_scenario"
  <2>1. Len(events) = 2 /\ events[1].decision = "ALLOW" /\ events[2].decision = "BLOCK"
    BY <1>1, <1>5 DEF ScreenInv, TwiceInv
  <2>2. scenario' = "REPLAY_ATTACK" /\ Len(events') = 2
    BY <1>5, <2>1 DEF Scenario
  <2>3. Decisions(2)' = <<"ALLOW", "BLOCK">>
    <3>1. \A i \in 1..2 : events[2 - 2 + i].decision = IF i = 2 THEN "BLOCK" ELSE "ALLOW"
      <4>1. \A i \in 1..2 : 2 - 2 + i = i /\ (i = 1 \/ i = 2)
        OBVIOUS
      <4>2. QED
        BY <2>1, <4>1
    <3>2. Decisions(2)' = [i \in 1..2 |-> IF i = 2 THEN "BLOCK" ELSE "ALLOW"]
      BY <1>2, <2>1, <3>1
    <3>3. [i \in 1..2 |-> IF i = 2 THEN "BLOCK" ELSE "ALLOW"] = <<"ALLOW", "BLOCK">>
      OBVIOUS
    <3>4. QED
      BY <3>2, <3>3
  <2>4. Decisions(Len(events))' = Decisions(2)'
    BY <1>2, <2>1
  <2>5. QED
    BY <2>2, <2>3, <2>4 DEF ScreenTellsScenario
<1>6. CASE running = "run_demo_sequence"
  <2>1. Len(events) = 1 /\ events[1].decision = "ALLOW"
    BY <1>1, <1>6 DEF ScreenInv, OrdinaryInv, ShowsAllowed
  <2>2. scenario' = "READY"
    BY <1>6 DEF Scenario
  <2>3. Decisions(1)' = <<"ALLOW">>
    BY <1>2, <2>1
  <2>4. Decisions(Len(events))' = Decisions(1)'
    BY <1>2, <2>1
  <2>5. QED
    BY <2>2, <2>3, <2>4 DEF ScreenTellsScenario
<1>7. CASE running = "reset"
  <2>1. events = <<>>
    BY <1>1, <1>7 DEF ScreenInv, OrdinaryInv
  <2>2. scenario' = "READY"
    BY <1>7 DEF Scenario
  <2>3. Decisions(0)' = <<>>
    BY <1>2
  <2>4. Decisions(Len(events))' = Decisions(0)'
    BY <1>2, <2>1
  <2>5. QED
    BY <2>2, <2>3, <2>4 DEF ScreenTellsScenario
<1>8. CASE running \in {"run_normal", "run_normal_scenario"}
  <2>1. /\ events # <<>>
        /\ events[Len(events)].decision = "BLOCK" => balance < Normal.amount
    BY <1>1, <1>8 DEF ScreenInv, OrdinaryInv
  <2>2. scenario' = "NORMAL_PAYMENT"
    BY <1>8 DEF Scenario
  <2>3. Decisions(1)'[1] = events[Len(events)].decision
    BY <1>1, <1>2
  <2>4. QED
    BY <2>1, <2>2, <2>3 DEF ScreenTellsScenario
<1>9. QED
  BY <1>1, <1>3, <1>4, <1>5, <1>6, <1>7, <1>8 DEF Operations, Drains

LEMMA ScreenFinish ==
  ASSUME Readable, ScreenInv, MoneyInv', Finish
  PROVE  ScreenInv'
<1>1. /\ running # "none" /\ script = <<>> /\ scenario' = Scenario(running)
      /\ running' = "none" /\ script' = script
      /\ UNCHANGED <<initial, ages, clean, balance, seeds, events>>
  BY DEF Finish
<1>2. ScreenTellsScenario'
  BY <1>1, ScenarioShown
<1>3. PlaceInv' /\ LearnedInv'
  BY <1>1 DEF ScreenInv, PlaceInv, LearnedInv
<1>4. WarmInv' /\ DrainInv' /\ NovelInv' /\ TwiceInv' /\ OrdinaryInv'
  BY <1>1 DEF WarmInv, Waited, Drains, DrainInv, Bursting, NovelInv, TwiceInv, OrdinaryInv
<1>5. QED
  BY <1>2, <1>3, <1>4 DEF ScreenInv

LEMMA ScreenStart ==
  ASSUME Readable, ScreenInv, MoneyInv', NEW operation \in Operations, Start(operation)
  PROVE  ScreenInv'
<1>1. /\ running' = operation /\ script' = Script(operation)
      /\ UNCHANGED <<initial, ages, clean, balance, seeds, events>>
  BY DEF Start
<1>2. /\ script' \in Seq(Instructions) /\ Len(script') \in Nat
      /\ Len(script') = Length(operation) /\ Reading(operation)
  BY <1>1, ScriptsRead DEF Length
<1>3. operation # "none"
  BY DEF Operations
<1>4. PlaceInv'
  <2>1. \A i \in 1..Len(script') : script'[i] = At(operation, Len(script') + 1 - i)
    <3>1. \A i \in 1..Len(script') : Len(script') + 1 - (Len(script') + 1 - i) = i
      BY <1>2
    <3>2. QED
      BY <1>1, <1>2, <3>1 DEF At
  <2>2. QED
    BY <1>1, <1>2, <1>3, <2>1 DEF PlaceInv
<1>5. LearnedInv'
  BY <1>1 DEF ScreenInv, LearnedInv
<1>6. /\ running' \in Drains => Len(script') = 7 \/ Len(script') = 8
      /\ running' = "run_demo_sequence" => Len(script') = 10
      /\ running' = "run_approval_scenario" => Len(script') = 4
      /\ running' = "run_replay_scenario" => Len(script') = 3
      /\ running' = "reset" => Len(script') = 1
      /\ running' = "run_normal" => Len(script') = 1
      /\ running' = "run_normal_scenario" => Len(script') = 2
  BY <1>1, <1>2 DEF Reading, Drains
<1>7. WarmInv'
  BY <1>6 DEF WarmInv, Waited
<1>8. DrainInv'
  <2>1. \A k \in 0..5 : 5 - k # 7 /\ 5 - k # 8 /\ 5 - k + 2 # 10
    OBVIOUS
  <2>2. \A k \in 0..5 : ~Bursting(5 - k)'
    BY <1>6, <2>1 DEF Bursting
  <2>3. QED
    BY <2>2 DEF DrainInv
<1>9. NovelInv'
  <2>1. Len(script') = 4 =>
          Len(script') # 3 /\ ~(Len(script') \in 1..2) /\ Len(script') # 1 /\ Len(script') # 0
    OBVIOUS
  <2>2. QED
    BY <1>6, <2>1, Zenon DEF NovelInv
<1>10. TwiceInv' /\ OrdinaryInv'
  <2>1. /\ running' = "run_demo_sequence" => Len(script') # 1 /\ Len(script') # 0
        /\ running' \in {"reset", "run_normal", "run_normal_scenario"} => Len(script') # 0
    <3>1. running' = "run_demo_sequence" => Len(script') # 1 /\ Len(script') # 0
      <4>1. Len(script') = 10 => Len(script') # 1 /\ Len(script') # 0
        OBVIOUS
      <4>2. QED
        BY <1>6, <4>1, Zenon
    <3>2. running' = "reset" => Len(script') # 0
      BY <1>6
    <3>3. running' = "run_normal" => Len(script') # 0
      BY <1>6
    <3>4. running' = "run_normal_scenario" => Len(script') # 0
      BY <1>6
    <3>5. QED
      BY <3>1, <3>2, <3>3, <3>4
  <2>2. running' = "run_replay_scenario" =>
          Len(script') # 2 /\ Len(script') # 1 /\ Len(script') # 0
    BY <1>6
  <2>3. TwiceInv'
    BY <2>2, Zenon DEF TwiceInv
  <2>4. OrdinaryInv'
    BY <2>1 DEF OrdinaryInv
  <2>5. QED
    BY <2>3, <2>4
<1>11. ScreenTellsScenario'
  BY <1>1, <1>3 DEF ScreenTellsScenario
<1>12. QED
  BY <1>4, <1>5, <1>7, <1>8, <1>9, <1>10, <1>11 DEF ScreenInv

LEMMA ScreenInit == Readable /\ Init => ScreenInv
<1> SUFFICES ASSUME Readable, Init
             PROVE  ScreenInv
  OBVIOUS
<1>1. MoneyInv
  BY InitMoney
<1>2. /\ initial \in InitialBalances /\ ages = <<>> /\ events = <<>> /\ seeds = 0
      /\ clean.number = 0 /\ clean.total = 0 /\ clean.recipients = {}
      /\ running = "none" /\ script = <<>> /\ scenario = "READY"
  BY DEF Init, NoHistory
<1>3. PlaceInv
  BY <1>2 DEF PlaceInv
<1>4. LearnedInv
  BY <1>2, Amounts DEF LearnedInv
<1>5. WarmInv /\ DrainInv /\ NovelInv /\ TwiceInv /\ OrdinaryInv
  BY <1>2 DEF WarmInv, Waited, Drains, DrainInv, Bursting, NovelInv, TwiceInv, OrdinaryInv
<1>6. ScreenTellsScenario
  <2>1. Decisions(Len(events)) = <<>>
    BY <1>2 DEF Decisions
  <2>2. QED
    BY <1>2, <2>1 DEF ScreenTellsScenario
<1>7. QED
  BY <1>1, <1>3, <1>4, <1>5, <1>6 DEF ScreenInv

LEMMA ScreenStutters == ScreenInv /\ UNCHANGED vars => ScreenInv'
<1> SUFFICES ASSUME ScreenInv, UNCHANGED vars
             PROVE  ScreenInv'
  OBVIOUS
<1>1. UNCHANGED <<initial, ages, clean, balance, seeds, sequence>>
  BY DEF vars
<1>2. UNCHANGED <<events, scenario, running, script>>
  BY DEF vars
<1>3. MoneyInv' /\ PlaceInv' /\ LearnedInv'
  BY <1>1, <1>2 DEF ScreenInv, MoneyInv, TypeInv, SettledIsLearned, PlaceInv, LearnedInv
<1>4. WarmInv'
  BY <1>1, <1>2 DEF ScreenInv, WarmInv, Waited
<1>5. DrainInv'
  BY <1>1, <1>2 DEF ScreenInv, DrainInv, Bursting, Fresh, ShowsDrain
<1>6. NovelInv'
  BY <1>1, <1>2 DEF ScreenInv, NovelInv, ShowsAllowed, Fresh
<1>7. TwiceInv' /\ OrdinaryInv'
  BY <1>1, <1>2 DEF ScreenInv, TwiceInv, OrdinaryInv, ShowsAllowed, Unused
<1>8. ScreenTellsScenario'
  BY <1>1, <1>2 DEF ScreenInv, ScreenTellsScenario, Decisions
<1>9. QED
  BY <1>3, <1>4, <1>5, <1>6, <1>7, <1>8 DEF ScreenInv

LEMMA ScreenInductive == Readable /\ ScreenInv /\ [Next]_vars => ScreenInv'
<1> SUFFICES ASSUME Readable, ScreenInv, [Next]_vars
             PROVE  ScreenInv'
  OBVIOUS
<1>1. MoneyInv'
  BY MoneyKept DEF ScreenInv
<1>2. CASE UNCHANGED vars
  BY <1>2, ScreenStutters
<1>3. CASE Continue
  BY <1>1, <1>3, ScreenReset, ScreenNormal, ScreenSeed, ScreenWarm, ScreenWait, ScreenNovel,
     ScreenAttack, ScreenOriginal, ScreenReplayed, ScreenFinish DEF Continue
<1>4. CASE \E operation \in Operations : Start(operation)
  BY <1>1, <1>4, ScreenStart
<1>5. QED
  BY <1>2, <1>3, <1>4 DEF Next

(***************************************************************************)
(* The scenario the dashboard names is the one its receipts show, whatever *)
(* operations ran before (docs/DASHBOARD.md:23-34, dashboard.py:130-221),  *)
(* for every balance that covers one payment, every retention of at least  *)
(* a burst, and every rule set for which the demo was written: five        *)
(* attempts trip the velocity rule, its window outlasts a burst and not    *)
(* the wait, and the amounts of the scripts stand on the right side of the *)
(* two multipliers.                                                        *)
(***************************************************************************)
THEOREM ScreenIsTrue ==
  ASSUME Readable
  PROVE  Spec => []ScreenTellsScenario
<1>1. ScreenInv => ScreenTellsScenario
  BY DEF ScreenInv
<1>2. Init => ScreenInv
  BY ScreenInit
<1>3. ScreenInv /\ [Next]_vars => ScreenInv'
  BY ScreenInductive
<1>4. QED
  BY <1>1, <1>2, <1>3, PTL DEF Spec
=============================================================================
