------------------------------ MODULE Velocity -------------------------------
(***************************************************************************)
(* The attempt window of the behaviour engine (detection.py,               *)
(* _record_attempt) for one agent, under the callers it has: the threads   *)
(* of the autonomous API's HTTP server, which call the gateway without a   *)
(* lock, and those of the dashboard, which hold one around the whole call. *)
(*                                                                         *)
(* The window is one deque.  Each of its operations is atomic; between two *)
(* of them another thread may run, so each is an action: reading the head  *)
(* (the emptiness test and the index are two reads), dropping it,          *)
(* appending, and taking the length.  The clock is read by the gateway     *)
(* (gateway.py:121) when the call begins.                                  *)
(***************************************************************************)
EXTENDS Integers, Sequences, FiniteSets

CONSTANTS
  Threads,         \* callers
  VelocityWindow,  \* BehaviourEngine.VELOCITY_WINDOW, in seconds
  MaxTime,         \* bound on the clock
  MaxAttempts,     \* bound on the calls
  Callers          \* kinds of program: "locked" the dashboard, "unlocked" the API

ASSUME VelocityAssumption ==
  /\ VelocityWindow \in Nat
  /\ MaxTime \in Nat
  /\ MaxAttempts \in Nat
  /\ Callers \subseteq {"locked", "unlocked"}

Steps == {"idle", "test", "peek", "drop", "append", "count"}

VARIABLES
  callers,    \* the program at hand
  now,        \* the clock
  attempts,   \* the deque
  step,       \* where each thread is
  observed,   \* the time of its call
  begun,      \* how many calls were begun
  made,       \* history: the times of all attempts ever appended
  due,        \* history: attempts in the window when the thread appended its own
  verdicts    \* history: what calls counted, and what was due

vars == <<callers, now, attempts, step, observed, begun, made, due, verdicts>>

Cutoff(t) == observed[t] - VelocityWindow

Init ==
  /\ callers \in Callers
  /\ now = 0
  /\ attempts = <<>>
  /\ step = [t \in Threads |-> "idle"]
  /\ observed = [t \in Threads |-> 0]
  /\ begun = 0
  /\ made = <<>>
  /\ due = [t \in Threads |-> 0]
  /\ verdicts = {}

At(t, where) == step[t] = where

Goto(t, where) == step' = [step EXCEPT ![t] = where]

Tick ==
  /\ now < MaxTime
  /\ now' = now + 1
  /\ UNCHANGED <<callers, attempts, step, observed, begun, made, due, verdicts>>

Begin(t) ==
  /\ At(t, "idle")
  /\ callers = "locked" => \A u \in Threads : At(u, "idle")
  /\ begun < MaxAttempts
  /\ begun' = begun + 1
  /\ observed' = [observed EXCEPT ![t] = now]
  /\ Goto(t, "test")
  /\ UNCHANGED <<callers, now, attempts, made, due, verdicts>>

(* while attempts ... *)
Test(t) ==
  /\ At(t, "test")
  /\ Goto(t, IF attempts = <<>> THEN "append" ELSE "peek")
  /\ UNCHANGED <<callers, now, attempts, observed, begun, made, due, verdicts>>

(* mutant: the edge of the window is outside *)
PeekInclusive(t) ==
  /\ At(t, "peek") /\ attempts # <<>>
  /\ Goto(t, IF Head(attempts) <= Cutoff(t) THEN "drop" ELSE "append")
  /\ UNCHANGED <<callers, now, attempts, observed, begun, made, due, verdicts>>

(* ... and attempts[0] < cutoff *)
Peek(t) ==
  /\ At(t, "peek") /\ attempts # <<>>
  /\ Goto(t, IF Head(attempts) < Cutoff(t) THEN "drop" ELSE "append")
  /\ UNCHANGED <<callers, now, attempts, observed, begun, made, due, verdicts>>

(* mutant: the loop looks at the old head again and does not remove it *)
LeaveHead(t) ==
  /\ At(t, "drop") /\ attempts # <<>>
  /\ Goto(t, "test")
  /\ UNCHANGED <<callers, now, attempts, observed, begun, made, due, verdicts>>

Drop(t) ==
  /\ At(t, "drop") /\ attempts # <<>>
  /\ attempts' = Tail(attempts)
  /\ Goto(t, "test")
  /\ UNCHANGED <<callers, now, observed, begun, made, due, verdicts>>

(* the deque is empty by now: IndexError, and the gateway blocks *)
Fail(t) ==
  /\ At(t, "peek") \/ At(t, "drop")
  /\ attempts = <<>>
  /\ Goto(t, "idle")
  /\ UNCHANGED <<callers, now, attempts, observed, begun, made, due, verdicts>>

InWindow(t, times) ==
  Cardinality({i \in DOMAIN times : Cutoff(t) <= times[i] /\ times[i] <= observed[t]})

AppendAttempt(t) ==
  /\ At(t, "append")
  /\ attempts' = Append(attempts, observed[t])
  /\ made' = Append(made, observed[t])
  /\ due' = [due EXCEPT ![t] = InWindow(t, made')]
  /\ Goto(t, "count")
  /\ UNCHANGED <<callers, now, observed, begun, verdicts>>

Count(t) ==
  /\ At(t, "count")
  /\ verdicts' = verdicts \cup
       {[counted |-> Len(attempts), due |-> due[t], delay |-> now - observed[t]]}
  /\ Goto(t, "idle")
  /\ UNCHANGED <<callers, now, attempts, observed, begun, made, due>>

Continue(t) ==
  Test(t) \/ Peek(t) \/ Drop(t) \/ Fail(t) \/ AppendAttempt(t) \/ Count(t)

Next == Tick \/ \E t \in Threads : Begin(t) \/ Continue(t)

Spec == Init /\ [][Next]_vars

(* a call that has begun is scheduled until it returns *)
FairSpec == Spec /\ \A t \in Threads : WF_vars(Continue(t))

-----------------------------------------------------------------------------
(***************************************************************************)
(* Under the callers' lock the count is exact: the attempts of the closed  *)
(* window, blocked ones included, with the one being made.                 *)
(***************************************************************************)
CountIsExact == callers = "locked" => \A v \in verdicts : v.counted = v.due

(***************************************************************************)
(* Every attempt of the window counts (docs/AUTONOMOUS_RUNNER.md:48-49),   *)
(* at least in a call that is answered in the second it began.  Without    *)
(* the lock a thread that has read an old head may drop the new attempt    *)
(* that came to stand there.                                               *)
(***************************************************************************)
EveryAttemptCounts == \A v \in verdicts : v.delay = 0 => v.counted >= v.due

(***************************************************************************)
(* Every call gets out of the loop with a count or an exception, also when *)
(* the deque it loops over is emptied and refilled by others meanwhile.    *)
(***************************************************************************)
CallsReturn == \A t \in Threads : ~At(t, "idle") ~> At(t, "idle")
=============================================================================
