------------------------------ MODULE Detection ------------------------------
(***************************************************************************)
(* The four rules of the behaviour engine (detection.py) as operators on   *)
(* its state: the attempts of the velocity window and the clean baseline   *)
(* of settled payments, kept here as their number, their total and their   *)
(* recipients.                                                             *)
(*                                                                         *)
(* The engine divides decimals: amount / (total / number) is compared with *)
(* a multiplier.  The comparison is made without the division here.        *)
(***************************************************************************)
EXTENDS Integers, Sequences, FiniteSets

CONSTANTS
  VelocityThreshold, VelocityWindow,
  AmountWarmup, AmountBlockMultiplier, DrainAmountMultiplier

ASSUME DetectionAssumption ==
  /\ VelocityThreshold \in Nat \ {0}
  /\ VelocityWindow \in Nat
  /\ AmountWarmup \in Nat
  /\ AmountBlockMultiplier \in Nat \ {0}
  /\ DrainAmountMultiplier \in Nat \ {0}

NoHistory == [number |-> 0, total |-> 0, recipients |-> {}]

Learned(clean, recipient, amount) ==
  [number |-> clean.number + 1, total |-> clean.total + amount,
   recipients |-> clean.recipients \cup {recipient}]

(* an attempt as old as the window still counts *)
Outlived(age) == age > VelocityWindow

(* the window after its head was cleared: attempts are given by their ages *)
Kept(ages) ==
  LET old == {k \in 0..Len(ages) : \A i \in 1..k : Outlived(ages[i])}
      cleared == CHOOSE k \in old : \A j \in old : j <= k
  IN  SubSeq(ages, cleared + 1, Len(ages))

(* mutant: off by one *)
HighVelocityAbove(count) == count > VelocityThreshold

HighVelocity(count) == count >= VelocityThreshold

NewRecipient(clean, recipient) ==
  clean.recipients # {} /\ recipient \notin clean.recipients

AtLeastTimes(multiplier, clean, amount) ==
  clean.number > 0 /\ amount * clean.number >= multiplier * clean.total

AmountAnomaly(clean, amount) ==
  clean.number >= AmountWarmup /\ AtLeastTimes(AmountBlockMultiplier, clean, amount)

DrainPattern(count, clean, recipient, amount) ==
  /\ NewRecipient(clean, recipient)
  /\ HighVelocity(count)
  /\ AtLeastTimes(DrainAmountMultiplier, clean, amount)

Signal(count, clean, recipient, amount) ==
  IF AmountAnomaly(clean, amount) \/ DrainPattern(count, clean, recipient, amount) THEN "BLOCK"
  ELSE IF HighVelocity(count) \/ NewRecipient(clean, recipient) THEN "FLAG"
  ELSE "CLEAN"
=============================================================================
