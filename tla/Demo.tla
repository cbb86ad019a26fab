-------------------------------- MODULE Demo ---------------------------------
(***************************************************************************)
(* The scenario controller behind the dashboard (dashboard.py,             *)
(* DemoRuntime): the one program of the repository that puts the whole     *)
(* gateway, the behaviour engine, the simulated settlement, the audit      *)
(* stream and the dashboard store to work together.                        *)
(*                                                                         *)
(* An operation holds the runtime's lock from beginning to end and is a    *)
(* script of payments; one action is one instruction of the script.  Every *)
(* payment is complete: integrity, rules, settlement, baseline, receipt,   *)
(* and the second the demo clock advances.  The fixed mandate permits all  *)
(* the payments the scripts make.                                          *)
(*                                                                         *)
(* Time is relative: the engine's attempts are kept by their ages, and an  *)
(* age beyond the window is one second beyond it.  Every request that is   *)
(* built has a new identifier and a new nonce.                             *)
(***************************************************************************)
EXTENDS Detection

CONSTANTS
  InitialBalances,  \* the values of initial_balance
  MaxEvents         \* retention of stream and store

ASSUME DemoAssumption ==
  /\ InitialBalances \subseteq Nat \ {0}
  /\ MaxEvents \in Nat \ {0}

Normal   == [recipient |-> "weather-api", amount |-> 10]
Novel    == [recipient |-> "market-data-api", amount |-> 10]
Attack   == [recipient |-> "attacker-wallet", amount |-> 25]

Operations == {"run_normal", "run_attack", "run_normal_scenario",
               "run_approval_scenario", "run_replay_scenario",
               "run_attack_scenario", "run_demo_sequence", "reset"}

VARIABLES
  initial,    \* initial_balance
  ages,       \* ages of the attempts in the velocity window, oldest first
  clean,      \* the clean baseline
  balance,    \* simulated balance of the demo agent
  seeds,      \* _clean_seed_count
  sequence,   \* _sequence, the number of requests built, modulo two
  events,     \* [decision, amount] of the retained receipts, oldest first
  scenario,   \* _active_scenario
  running,    \* the operation that holds the lock, or "none"
  script      \* its instructions still to come

vars ==
  <<initial, ages, clean, balance, seeds, sequence, events, scenario, running, script>>

Burst == [i \in 1..5 |-> "attack"]

Script(operation) ==
  CASE operation = "run_normal" -> <<"normal">>
    [] operation = "run_attack" -> <<"seed", "wait">> \o Burst
    [] operation = "run_normal_scenario" -> <<"reset", "normal">>
    [] operation = "run_approval_scenario" -> <<"reset", "seed", "wait", "novel">>
    [] operation = "run_replay_scenario" -> <<"reset", "original", "replayed">>
    [] operation = "run_attack_scenario" -> <<"reset", "seed", "wait">> \o Burst
    [] operation = "run_demo_sequence" ->
         <<"reset", "seed", "wait">> \o Burst \o <<"reset", "normal">>
    [] operation = "reset" -> <<"reset">>

(* run_demo_sequence leaves the scenario that its last reset chose *)
Scenario(operation) ==
  CASE operation \in {"run_normal", "run_normal_scenario"} -> "NORMAL_PAYMENT"
    [] operation \in {"run_attack", "run_attack_scenario"} -> "COMPOUND_DRAIN"
    [] operation = "run_approval_scenario" -> "NEW_RECIPIENT"
    [] operation = "run_replay_scenario" -> "REPLAY_ATTACK"
    [] OTHER -> "READY"

Aged(list, seconds) ==
  [i \in DOMAIN list |->
     IF list[i] + seconds > VelocityWindow THEN VelocityWindow + 1
     ELSE list[i] + seconds]

Retained(event) ==
  LET all == Append(events, event)
  IN  SubSeq(all, IF Len(all) > MaxEvents THEN Len(all) + 1 - MaxEvents ELSE 1, Len(all))

Decide(payment) ==
  LET signal == Signal(Len(Kept(ages)) + 1, clean, payment.recipient, payment.amount)
  IN  CASE signal = "BLOCK" -> "BLOCK"
        [] signal = "FLAG" -> "REQUIRE_APPROVAL"
        [] OTHER -> IF payment.amount <= balance THEN "ALLOW" ELSE "BLOCK"

-----------------------------------------------------------------------------
Init ==
  /\ ages = <<>>
  /\ clean = NoHistory
  /\ initial \in InitialBalances
  /\ balance = initial
  /\ seeds = 0
  /\ sequence = 0
  /\ events = <<>>
  /\ scenario = "READY"
  /\ running = "none"
  /\ script = <<>>

(* a caller takes the lock *)
Start(operation) ==
  /\ running = "none"
  /\ running' = operation
  /\ script' = Script(operation)
  /\ UNCHANGED <<initial, ages, clean, balance, seeds, sequence, events, scenario>>

(* the script is done: the scenario is named and the lock released *)
Finish ==
  /\ running # "none"
  /\ script = <<>>
  /\ scenario' = Scenario(running)
  /\ running' = "none"
  /\ UNCHANGED <<initial, ages, clean, balance, seeds, sequence, events, script>>

Doing(instruction) == script # <<>> /\ Head(script) = instruction

Done == script' = Tail(script)

(* the receipt of a payment goes to the stream and on to the store *)
Publish(payment, decision) ==
  events' = Retained([decision |-> decision, amount |-> payment.amount])

(* mutant: the baseline learns before the money has moved *)
PayLearningFirst(payment) ==
  LET decision == Decide(payment)
      signal == Signal(Len(Kept(ages)) + 1, clean, payment.recipient, payment.amount)
  IN  /\ ages' = Aged(Append(Kept(ages), 0), 1)
      /\ clean' = IF signal = "CLEAN"
                  THEN Learned(clean, payment.recipient, payment.amount) ELSE clean
      /\ balance' = IF decision = "ALLOW" THEN balance - payment.amount ELSE balance
      /\ sequence' = (sequence + 1) % 2
      /\ Publish(payment, decision)

(* the gateway processes a fresh request *)
Pay(payment) ==
  LET decision == Decide(payment)
  IN  /\ ages' = Aged(Append(Kept(ages), 0), 1)
      /\ IF decision = "ALLOW"
         THEN /\ balance' = balance - payment.amount
              /\ clean' = Learned(clean, payment.recipient, payment.amount)
         ELSE UNCHANGED <<balance, clean>>
      /\ sequence' = (sequence + 1) % 2
      /\ Publish(payment, decision)

(* mutant: the replayed request reaches the behaviour engine *)
ReplayCounted ==
  /\ ages' = Aged(Append(Kept(ages), 0), 1)
  /\ Publish(Normal, "BLOCK")
  /\ UNCHANGED <<clean, balance, sequence>>

(* the integrity guard blocks the same request, the engine does not see it *)
Replay ==
  /\ ages' = Aged(ages, 1)
  /\ Publish(Normal, "BLOCK")
  /\ UNCHANGED <<clean, balance, sequence>>

Reset ==
  /\ Doing("reset") /\ Done
  /\ ages' = <<>>
  /\ clean' = NoHistory
  /\ balance' = initial
  /\ seeds' = 0
  /\ sequence' = 0
  /\ events' = <<>>
  /\ scenario' = "READY"
  /\ UNCHANGED <<initial, running>>

Seeded == seeds' = IF Decide(Normal) = "ALLOW" THEN seeds + 1 ELSE seeds

ProcessNormal ==
  /\ Doing("normal") /\ Done
  /\ Pay(Normal) /\ Seeded
  /\ UNCHANGED <<initial, scenario, running>>

(* while self._clean_seed_count < 3 *)
Seed ==
  /\ Doing("seed") /\ seeds < 3
  /\ Pay(Normal) /\ Seeded
  /\ UNCHANGED <<initial, scenario, running, script>>

Warm ==
  /\ Doing("seed") /\ seeds >= 3 /\ Done
  /\ UNCHANGED <<initial, ages, clean, balance, seeds, sequence, events>>
  /\ UNCHANGED <<scenario, running>>

(* mutant: the burst starts while the seeds are still in the window *)
WaitTooShort ==
  /\ Doing("wait") /\ Done
  /\ ages' = Aged(ages, VelocityWindow \div 2)
  /\ UNCHANGED <<initial, clean, balance, seeds, sequence, events, scenario, running>>

(* the window and a second pass *)
Wait ==
  /\ Doing("wait") /\ Done
  /\ ages' = Aged(ages, 11)
  /\ UNCHANGED <<initial, clean, balance, seeds, sequence, events, scenario, running>>

ProcessNovel ==
  /\ Doing("novel") /\ Done
  /\ Pay(Novel)
  /\ UNCHANGED <<initial, seeds, scenario, running>>

ProcessAttack ==
  /\ Doing("attack") /\ Done
  /\ Pay(Attack)
  /\ UNCHANGED <<initial, seeds, scenario, running>>

(* run_replay_scenario does not count its payment as a seed *)
ProcessOriginal ==
  /\ Doing("original") /\ Done
  /\ Pay(Normal)
  /\ UNCHANGED <<initial, seeds, scenario, running>>

ProcessReplayed ==
  /\ Doing("replayed") /\ Done
  /\ Replay
  /\ UNCHANGED <<initial, seeds, scenario, running>>

Continue ==
  \/ Reset \/ ProcessNormal \/ Seed \/ Warm \/ Wait
  \/ ProcessNovel \/ ProcessAttack \/ ProcessOriginal \/ ProcessReplayed
  \/ Finish

Next == Continue \/ \E operation \in Operations : Start(operation)

Spec == Init /\ [][Next]_vars

(* the thread that holds the lock runs on *)
FairSpec == Spec /\ WF_vars(Continue)

-----------------------------------------------------------------------------
(***************************************************************************)
(* Between two resets the settlement and the behaviour engine agree to the *)
(* cent: what left the balance is what the baseline was taught, also after *)
(* a payment the settlement refused, and the balance is never overdrawn    *)
(* (gateway.py:169-197, simulation.py:97-100).                             *)
(***************************************************************************)
SettledIsLearned == balance >= 0 /\ balance + clean.total = initial

(***************************************************************************)
(* The velocity rule caps what can settle between two resets, however the  *)
(* operations follow each other: the three payments before the one wait    *)
(* that clears the window, and after the attempt that follows the wait one *)
(* less than the rule's threshold (detection.py:59, dashboard.py:142-144,  *)
(* 163, 344).                                                              *)
(***************************************************************************)
VelocityCapsSettlement == clean.number <= 3 + (VelocityThreshold - 2)

(***************************************************************************)
(* The scenario the dashboard names is the one its receipts show, from     *)
(* every earlier state of the runtime (docs/DASHBOARD.md:23-34): a drain   *)
(* is four escalations and a block, a first-seen recipient ends escalated, *)
(* a replay is one payment and one block, a fresh start shows at most one  *)
(* allowed payment.                                                        *)
(***************************************************************************)
Decisions(n) == [i \in 1..n |-> events[Len(events) - n + i].decision]

ScreenTellsScenario ==
  running = "none" =>
    CASE scenario = "COMPOUND_DRAIN" ->
           /\ Len(events) >= 5
           /\ Decisions(5) = <<"REQUIRE_APPROVAL", "REQUIRE_APPROVAL", "REQUIRE_APPROVAL",
                               "REQUIRE_APPROVAL", "BLOCK">>
      [] scenario = "NEW_RECIPIENT" ->
           Decisions(Len(events)) = <<"ALLOW", "ALLOW", "ALLOW", "REQUIRE_APPROVAL">>
      [] scenario = "REPLAY_ATTACK" -> Decisions(Len(events)) = <<"ALLOW", "BLOCK">>
      [] scenario = "READY" -> Decisions(Len(events)) \in {<<>>, <<"ALLOW">>}
      [] scenario = "NORMAL_PAYMENT" ->
           /\ events # <<>>
           /\ Decisions(1)[1] = "BLOCK" => balance < Normal.amount

(***************************************************************************)
(* Every operation gives the lock back (dashboard.py:130-221).             *)
(***************************************************************************)
EveryOperationReturns == running # "none" ~> running = "none"

(***************************************************************************)
(* The loops that gather three clean payments end, given a balance of four *)
(* payments: four are allowed before velocity flags them, and a replay     *)
(* scenario uses up one of the four without counting it (dashboard.py:142, *)
(* 161, 179-183, 200).                                                     *)
(***************************************************************************)
OperationsReturn ==
  running # "none" /\ initial >= 4 * Normal.amount ~> running = "none"
=============================================================================
