--------------------------- MODULE VelocityProofs ----------------------------
(***************************************************************************)
(* Under the callers' lock the velocity count is exact, for any number of  *)
(* threads and calls, every window and every clock.                        *)
(***************************************************************************)
EXTENDS Velocity, FiniteSetTheorems, SequenceTheorems, TLAPS

Locked == callers = "locked"

Active(t) == ~At(t, "idle")

TypeInv ==
  /\ now \in Nat
  /\ attempts \in Seq(Nat)
  /\ made \in Seq(Nat)
  /\ step \in [Threads -> Steps]
  /\ observed \in [Threads -> Nat]
  /\ due \in [Threads -> Nat]

(* how many attempts have been dropped *)
Dropped == Len(made) - Len(attempts)

(* one call at a time, with a time that lies between the last attempt's and now *)
LockInv ==
  /\ \A t, u \in Threads : Active(t) /\ Active(u) => t = u
  /\ \A t \in Threads : Active(t) => observed[t] <= now
  /\ \A i \in 1..Len(made) : made[i] <= now
  /\ \A t \in Threads : Active(t) => \A i \in 1..Len(made) : made[i] <= observed[t]

(* the deque holds the last of all attempts, in the order of their times *)
SuffixInv ==
  /\ Dropped >= 0
  /\ \A i \in 1..Len(attempts) : attempts[i] = made[Dropped + i]
  /\ \A i, j \in 1..Len(made) : i <= j => made[i] <= made[j]

(* what was dropped has left the window, of the call at hand and of all to come *)
OutlivedInv ==
  \A i \in 1..Dropped :
    /\ made[i] < now - VelocityWindow
    /\ \A t \in Threads : Active(t) => made[i] < Cutoff(t)

(* what the loop has found out about the head *)
LoopInv ==
  /\ \A t \in Threads : At(t, "peek") => attempts # <<>>
  /\ \A t \in Threads : At(t, "drop") => attempts # <<>> /\ attempts[1] < Cutoff(t)
  /\ \A t \in Threads : At(t, "append") => attempts = <<>> \/ Cutoff(t) <= attempts[1]
  /\ \A t \in Threads : At(t, "count") => due[t] = Len(attempts)

-----------------------------------------------------------------------------
LEMMA TypesKept == TypeInv /\ [Next]_vars => TypeInv'
<1> SUFFICES ASSUME TypeInv, [Next]_vars
             PROVE  TypeInv'
  OBVIOUS
<1> USE DEF TypeInv, Steps, At, Goto
<1>1. CASE Tick
  BY <1>1 DEF Tick
<1>2. ASSUME NEW t \in Threads, Begin(t)
      PROVE  TypeInv'
  BY <1>2 DEF Begin
<1>3. ASSUME NEW t \in Threads, Test(t) \/ Peek(t) \/ Fail(t) \/ Count(t)
      PROVE  TypeInv'
  BY <1>3 DEF Test, Peek, Fail, Count
<1>4. ASSUME NEW t \in Threads, Drop(t)
      PROVE  TypeInv'
  <2>1. Tail(attempts) \in Seq(Nat)
    BY <1>4, HeadTailProperties DEF Drop
  <2>2. QED
    BY <1>4, <2>1 DEF Drop
<1>5. ASSUME NEW t \in Threads, AppendAttempt(t)
      PROVE  TypeInv'
  <2>1. attempts' \in Seq(Nat) /\ made' \in Seq(Nat)
    BY <1>5, AppendProperties DEF AppendAttempt
  <2>2. InWindow(t, made') \in Nat
    <3> DEFINE S == {i \in DOMAIN made' : Cutoff(t) <= made'[i] /\ made'[i] <= observed[t]}
    <3>1. DOMAIN made' = 1..Len(made') /\ Len(made') \in Nat
      BY <2>1
    <3>2. IsFiniteSet(1..Len(made'))
      BY <3>1, FS_Interval
    <3>3. IsFiniteSet(S)
      BY <3>1, <3>2, FS_Subset
    <3>4. Cardinality(S) \in Nat
      BY <3>3, FS_CardinalityType
    <3>5. QED
      BY <3>4 DEF InWindow, Cutoff
  <2>3. QED
    BY <1>5, <2>1, <2>2 DEF AppendAttempt
<1>6. CASE UNCHANGED vars
  BY <1>6 DEF vars
<1>7. QED
  BY <1>1, <1>2, <1>3, <1>4, <1>5, <1>6 DEF Next, Continue

(* The invariant of the locked program. *)
LInv == TypeInv /\ Locked /\ LockInv /\ SuffixInv /\ OutlivedInv /\ LoopInv /\ CountIsExact

LEMMA Lengths ==
  ASSUME TypeInv
  PROVE  Len(attempts) \in Nat /\ Len(made) \in Nat /\ VelocityWindow \in Nat
         /\ DOMAIN made = 1..Len(made)
BY VelocityAssumption DEF TypeInv

(* A step of a call that keeps deque and history moves that call only. *)
LEMMA LookStep ==
  ASSUME LInv, NEW t \in Threads, Test(t) \/ Peek(t) \/ Fail(t)
  PROVE  LInv'
<1> USE DEF LInv, At, Goto, Active
<1>1. TypeInv'
  BY TypesKept DEF Next, Continue
<1>2. /\ UNCHANGED <<callers, now, attempts, observed, made, due, verdicts>>
      /\ Active(t)
      /\ \A u \in Threads : u # t => step[u] = "idle" /\ step'[u] = "idle"
  BY DEF Test, Peek, Fail, LockInv, TypeInv
<1>3. /\ step'[t] = "peek" => attempts # <<>>
      /\ step'[t] = "drop" => attempts # <<>> /\ attempts[1] < Cutoff(t)
      /\ step'[t] = "append" => attempts = <<>> \/ Cutoff(t) <= attempts[1]
      /\ step'[t] # "count"
  <2>1. attempts # <<>> => Head(attempts) = attempts[1] /\ attempts[1] \in Nat
    BY Lengths DEF TypeInv
  <2>2. Cutoff(t) \in Int
    BY Lengths DEF Cutoff, TypeInv
  <2>3. QED
    BY <2>1, <2>2 DEF Test, Peek, Fail, TypeInv
<1>4. LockInv'
  BY <1>2 DEF LockInv
<1>5. SuffixInv' /\ OutlivedInv'
  BY <1>2 DEF SuffixInv, OutlivedInv, Dropped, Cutoff
<1>6. LoopInv'
  BY <1>2, <1>3 DEF LoopInv, Cutoff
<1>7. QED
  BY <1>1, <1>2, <1>4, <1>5, <1>6 DEF Locked, CountIsExact

LEMMA TickStep ==
  ASSUME LInv, Tick
  PROVE  LInv'
<1> USE DEF LInv, At, Active
<1>1. TypeInv'
  BY TypesKept DEF Next
<1>2. /\ now' = now + 1 /\ now \in Nat
      /\ UNCHANGED <<callers, attempts, step, observed, made, due, verdicts>>
  BY DEF Tick, TypeInv
<1>3. \A i \in 1..Len(made) : made[i] \in Nat
  BY DEF TypeInv
<1>4. LockInv'
  BY <1>2, <1>3 DEF LockInv, TypeInv
<1>5. SuffixInv' /\ LoopInv'
  BY <1>2 DEF SuffixInv, LoopInv, Dropped, Cutoff
<1>6. OutlivedInv'
  <2>1. \A i \in 1..Dropped : i \in 1..Len(made)
    BY Lengths DEF Dropped
  <2>2. QED
    BY <1>2, <1>3, <2>1, Lengths DEF OutlivedInv, Dropped, Cutoff
<1>7. QED
  BY <1>1, <1>2, <1>4, <1>5, <1>6 DEF Locked, CountIsExact

LEMMA BeginStep ==
  ASSUME LInv, NEW t \in Threads, Begin(t)
  PROVE  LInv'
<1> USE DEF LInv, At, Active, Goto
<1>1. TypeInv'
  BY TypesKept DEF Next
<1>2. /\ UNCHANGED <<callers, now, attempts, made, due, verdicts>>
      /\ observed'[t] = now
      /\ step'[t] = "test"
      /\ \A u \in Threads : u # t => step'[u] = "idle"
  BY DEF Begin, TypeInv, Locked
<1>3. LockInv'
  BY <1>2 DEF LockInv, TypeInv
<1>4. SuffixInv'
  BY <1>2 DEF SuffixInv, Dropped
<1>5. OutlivedInv'
  BY <1>2 DEF OutlivedInv, Dropped, Cutoff
<1>6. LoopInv'
  BY <1>2 DEF LoopInv
<1>7. QED
  BY <1>1, <1>2, <1>3, <1>4, <1>5, <1>6 DEF Locked, CountIsExact

LEMMA DropStep ==
  ASSUME LInv, NEW t \in Threads, Drop(t)
  PROVE  LInv'
<1> USE DEF LInv, At, Active, Goto
<1>1. TypeInv'
  BY TypesKept DEF Next, Continue
<1>2. /\ UNCHANGED <<callers, now, observed, made, due, verdicts>>
      /\ Active(t) /\ step'[t] = "test"
      /\ \A u \in Threads : u # t => step[u] = "idle" /\ step'[u] = "idle"
      /\ attempts # <<>> /\ attempts' = Tail(attempts) /\ attempts[1] < Cutoff(t)
  BY DEF Drop, LockInv, TypeInv, LoopInv
<1>3. /\ Len(attempts') = Len(attempts) - 1
      /\ \A i \in 1..Len(attempts') : attempts'[i] = attempts[i + 1]
      /\ Len(attempts) \in Nat \ {0}
  BY <1>2, HeadTailProperties DEF TypeInv
<1>4. Dropped' = Dropped + 1 /\ Dropped \in Nat
  BY <1>2, <1>3, Lengths DEF Dropped, SuffixInv
<1>5. LockInv'
  BY <1>2 DEF LockInv
<1>6. SuffixInv'
  <2>1. \A i \in 1..Len(attempts') : attempts'[i] = made[Dropped' + i]
    <3> SUFFICES ASSUME NEW i \in 1..Len(attempts')
                 PROVE  attempts'[i] = made[Dropped' + i]
      OBVIOUS
    <3>1. i + 1 \in 1..Len(attempts) /\ Dropped' + i = Dropped + (i + 1)
      BY <1>3, <1>4
    <3>2. QED
      BY <1>3, <3>1 DEF SuffixInv
  <2>2. \A i \in 1..Len(attempts') : attempts'[i] = made'[Dropped' + i]
    BY <1>2, <2>1
  <2>3. Dropped' >= 0
    BY <1>4
  <2>4. \A i, j \in 1..Len(made') : i <= j => made'[i] <= made'[j]
    BY <1>2 DEF SuffixInv
  <2>5. QED
    BY <2>2, <2>3, <2>4 DEF SuffixInv
<1>7. OutlivedInv'
  <2>1. made[Dropped + 1] < Cutoff(t)
    <3>1. 1 \in 1..Len(attempts)
      BY <1>3
    <3>2. QED
      BY <1>2, <3>1 DEF SuffixInv
  <2>2. Cutoff(t) <= now - VelocityWindow /\ Cutoff(t) \in Int /\ now \in Nat
    BY <1>2, Lengths DEF Cutoff, LockInv, TypeInv
  <2>3. Dropped + 1 \in 1..Len(made)
    BY <1>3, <1>4, Lengths DEF Dropped
  <2>4. made[Dropped + 1] \in Nat
    BY <2>3 DEF TypeInv
  <2>5. made[Dropped + 1] < now - VelocityWindow
    BY <2>1, <2>2, <2>4, Lengths
  <2>6. \A i \in 1..(Dropped + 1) : i \in 1..Dropped \/ i = Dropped + 1
    BY <1>4
  <2>7. \A i \in 1..(Dropped + 1) : made[i] < now - VelocityWindow /\ made[i] < Cutoff(t)
    BY <1>2, <2>1, <2>5, <2>6 DEF OutlivedInv
  <2>8. QED
    BY <1>2, <1>4, <2>7 DEF OutlivedInv, Cutoff
<1>8. LoopInv'
  BY <1>2 DEF LoopInv
<1>9. QED
  BY <1>1, <1>2, <1>5, <1>6, <1>7, <1>8 DEF Locked, CountIsExact

LEMMA CountStep ==
  ASSUME LInv, NEW t \in Threads, Count(t)
  PROVE  LInv'
<1> USE DEF LInv, At, Active, Goto
<1>1. TypeInv'
  BY TypesKept DEF Next, Continue
<1>2. /\ UNCHANGED <<callers, now, attempts, observed, made, due>>
      /\ Active(t) /\ due[t] = Len(attempts)
      /\ \A u \in Threads : step'[u] = "idle"
  BY DEF Count, LockInv, TypeInv, LoopInv
<1>3. LockInv' /\ SuffixInv' /\ OutlivedInv' /\ LoopInv'
  BY <1>2 DEF LockInv, SuffixInv, OutlivedInv, LoopInv, Dropped
<1>4. CountIsExact'
  BY <1>2 DEF CountIsExact, Count
<1>5. QED
  BY <1>1, <1>2, <1>3, <1>4 DEF Locked

(* Once the loop has ended, all that is left in the deque is in the window. *)
LEMMA AppendStep ==
  ASSUME LInv, NEW t \in Threads, AppendAttempt(t)
  PROVE  LInv'
<1> USE DEF LInv, At, Active, Goto
<1>1. TypeInv'
  BY TypesKept DEF Next, Continue
<1>2. /\ UNCHANGED <<callers, now, observed, verdicts>>
      /\ Active(t) /\ step'[t] = "count"
      /\ \A u \in Threads : u # t => step[u] = "idle" /\ step'[u] = "idle"
      /\ attempts = <<>> \/ Cutoff(t) <= attempts[1]
      /\ attempts' = Append(attempts, observed[t])
      /\ made' = Append(made, observed[t])
      /\ due'[t] = InWindow(t, made')
      /\ observed[t] \in Nat /\ observed[t] <= now /\ now \in Nat
      /\ \A i \in 1..Len(made) : made[i] <= observed[t]
  BY DEF AppendAttempt, LockInv, TypeInv, LoopInv
<1>3. /\ Len(attempts') = Len(attempts) + 1
      /\ \A i \in 1..Len(attempts) : attempts'[i] = attempts[i]
      /\ attempts'[Len(attempts) + 1] = observed[t]
  BY <1>2, AppendProperties DEF TypeInv
<1>4. /\ Len(made') = Len(made) + 1
      /\ \A i \in 1..Len(made) : made'[i] = made[i]
      /\ made'[Len(made) + 1] = observed[t]
  BY <1>2, AppendProperties DEF TypeInv
<1>5. Dropped' = Dropped /\ Dropped \in Nat /\ Dropped <= Len(made)
  BY <1>3, <1>4, Lengths DEF Dropped, SuffixInv
<1>6. \A i \in 1..Len(made') : i \in 1..Len(made) \/ i = Len(made) + 1
  BY <1>4, Lengths
<1>7. \A i \in 1..Len(made') : made'[i] <= observed[t] /\ made'[i] <= now /\ made'[i] \in Nat
  BY <1>2, <1>4, <1>6, SMTT(30) DEF LockInv, TypeInv
<1>8. LockInv'
  BY <1>2, <1>7 DEF LockInv
<1>9. SuffixInv'
  <2>1. \A i \in 1..Len(attempts') : i \in 1..Len(attempts) \/ i = Len(attempts) + 1
    BY <1>3, Lengths
  <2>2. \A i \in 1..Len(attempts) : Dropped + i \in 1..Len(made)
    BY <1>5, Lengths DEF Dropped
  <2>3. Dropped + (Len(attempts) + 1) = Len(made) + 1
    BY Lengths DEF Dropped
  <2>4. \A i \in 1..Len(attempts') : attempts'[i] = made'[Dropped + i]
    BY <1>3, <1>4, <2>1, <2>2, <2>3 DEF SuffixInv
  <2>5. \A i, j \in 1..Len(made') : i <= j => made'[i] <= made'[j]
    <3> SUFFICES ASSUME NEW i \in 1..Len(made'), NEW j \in 1..Len(made'), i <= j
                 PROVE  made'[i] <= made'[j]
      OBVIOUS
    <3>1. CASE j = Len(made) + 1
      BY <1>4, <1>7, <3>1
    <3>2. CASE j \in 1..Len(made)
      <4>1. i \in 1..Len(made)
        BY <3>2, Lengths
      <4>2. QED
        BY <1>4, <3>2, <4>1 DEF SuffixInv
    <3>3. QED
      BY <1>6, <3>1, <3>2
  <2>6. QED
    BY <1>5, <2>4, <2>5 DEF SuffixInv
<1>10. OutlivedInv'
  <2>1. \A i \in 1..Dropped : made'[i] = made[i]
    BY <1>4, <1>5, Lengths
  <2>2. QED
    BY <1>2, <1>5, <2>1 DEF OutlivedInv, Cutoff
<1>11. due'[t] = Len(attempts')
  <2> DEFINE inside == {i \in DOMAIN made' : Cutoff(t) <= made'[i] /\ made'[i] <= observed[t]}
             left == (Dropped + 1)..Len(made')
  <2>1. DOMAIN made' = 1..Len(made')
    BY <1>1 DEF TypeInv
  <2>2. \A i \in 1..Dropped : made'[i] < Cutoff(t)
    BY <1>2, <1>4, <1>5, Lengths DEF OutlivedInv
  <2>3. Cutoff(t) \in Int /\ Cutoff(t) <= observed[t]
    BY <1>2, Lengths DEF Cutoff
  <2>4. \A i \in left : Cutoff(t) <= made'[i]
    <3> SUFFICES ASSUME NEW i \in left
                 PROVE  Cutoff(t) <= made'[i]
      OBVIOUS
    <3>1. CASE i = Len(made) + 1
      BY <1>4, <2>3, <3>1
    <3>2. CASE i \in 1..Len(made)
      <4>1. Dropped + 1 \in 1..Len(made) /\ Dropped + 1 <= i /\ Len(attempts) > 0
        BY <1>5, <3>2, Lengths DEF Dropped
      <4>2. attempts # <<>> /\ 1 \in 1..Len(attempts)
        BY <4>1, Lengths
      <4>3. attempts[1] = made[Dropped + 1]
        BY <4>2 DEF SuffixInv
      <4>4. made[Dropped + 1] <= made[i]
        BY <3>2, <4>1 DEF SuffixInv
      <4>5. made[Dropped + 1] \in Nat /\ made[i] \in Nat
        <5>1. \A j \in 1..Len(made) : made[j] \in Nat
          BY DEF TypeInv
        <5>2. QED
          BY <3>2, <4>1, <5>1
      <4>6. QED
        BY <1>2, <1>4, <2>3, <3>2, <4>2, <4>3, <4>4, <4>5
    <3>3. i \in 1..Len(made')
      BY <1>5, <1>4, Lengths
    <3>4. QED
      BY <1>6, <3>1, <3>2, <3>3
  <2>5. \A i \in 1..Len(made') : i \in inside <=> i \in left
    <3> SUFFICES ASSUME NEW i \in 1..Len(made')
                 PROVE  i \in inside <=> i \in left
      OBVIOUS
    <3>1. i \in 1..Dropped \/ i \in left
      BY <1>4, <1>5, Lengths
    <3>2. i \in 1..Dropped => i \notin left /\ ~(Cutoff(t) <= made'[i])
      BY <1>5, <1>7, <2>2, <2>3
    <3>3. i \in left => i \in inside
      BY <1>7, <2>1, <2>4
    <3>4. QED
      BY <3>1, <3>2, <3>3
  <2>6. inside = left
    <3>1. left \subseteq 1..Len(made') /\ inside \subseteq 1..Len(made')
      BY <1>4, <1>5, <2>1, Lengths
    <3> HIDE DEF inside, left
    <3>2. QED
      BY <2>5, <3>1
  <2>7. Cardinality(left) = Len(made') - Dropped
    <3>1. Dropped + 1 \in Int /\ Len(made') \in Int /\ Dropped + 1 <= Len(made')
      BY <1>4, <1>5, Lengths
    <3>2. Cardinality(left) =
            IF Dropped + 1 > Len(made') THEN 0 ELSE Len(made') - (Dropped + 1) + 1
      BY <3>1, FS_Interval
    <3>3. QED
      BY <3>1, <3>2, <1>5
  <2>8. InWindow(t, made') = Cardinality(inside)
    BY DEF InWindow
  <2>9. Len(made') - Dropped = Len(attempts')
    BY <1>3, <1>4, Lengths DEF Dropped
  <2> HIDE DEF inside, left
  <2>10. QED
    BY <1>2, <2>6, <2>7, <2>8, <2>9
<1>12. LoopInv'
  BY <1>2, <1>11 DEF LoopInv
<1>13. QED
  BY <1>1, <1>2, <1>8, <1>9, <1>10, <1>12 DEF Locked, CountIsExact

-----------------------------------------------------------------------------
IInv == TypeInv /\ (Locked => LInv)

LEMMA InitInv == Init => IInv
<1> SUFFICES ASSUME Init
             PROVE  IInv
  OBVIOUS
<1>1. TypeInv
  BY DEF Init, TypeInv, Steps
<1>2. Len(<<>>) = 0
  OBVIOUS
<1>3. Locked => LockInv /\ SuffixInv /\ OutlivedInv /\ LoopInv /\ CountIsExact
  BY <1>2 DEF Init, LockInv, SuffixInv, OutlivedInv, LoopInv, CountIsExact, Dropped, At, Active
<1>4. QED
  BY <1>1, <1>3 DEF IInv, LInv

LEMMA Inductive == IInv /\ [Next]_vars => IInv'
<1> SUFFICES ASSUME IInv, [Next]_vars
             PROVE  IInv'
  OBVIOUS
<1>1. TypeInv'
  BY TypesKept DEF IInv
<1>2. Locked' => Locked
  BY DEF Locked, Next, Continue, Tick, Begin, Test, Peek, Drop, Fail, AppendAttempt, Count, vars
<1>3. ASSUME LInv
      PROVE  LInv'
  <2>1. CASE UNCHANGED vars
    BY <1>1, <1>3, <2>1
       DEF vars, LInv, Locked, LockInv, SuffixInv, OutlivedInv, LoopInv, CountIsExact, Dropped,
           At, Active, Cutoff
  <2>2. QED
    BY <1>3, <2>1, TickStep, BeginStep, LookStep, DropStep, AppendStep, CountStep
       DEF Next, Continue
<1>4. QED
  BY <1>1, <1>2, <1>3 DEF IInv

(***************************************************************************)
(* Under the callers' lock a call counts exactly the attempts of its       *)
(* closed window, its own with them, for any number of threads and calls   *)
(* (detection.py:138-144).                                                 *)
(***************************************************************************)
THEOREM CountsTheWindow == Spec => []CountIsExact
<1>1. IInv => CountIsExact
  BY DEF IInv, LInv, Locked, CountIsExact
<1>2. QED
  BY <1>1, InitInv, Inductive, PTL DEF Spec
=============================================================================
