------------------------------ MODULE Autonomous -----------------------------
(***************************************************************************)
(* The autonomous path: runners (autonomous_runner.py) that sign x402      *)
(* intents, the decision API (autonomous_api.py, agent_auth.py) that       *)
(* authenticates, decides and publishes a receipt on one thread for every  *)
(* call, and the settlement boundary and recorder that a runner takes an   *)
(* ALLOW to.  Deciding, settling and recording are three components that   *)
(* no lock or transaction holds together.                                  *)
(*                                                                         *)
(* The gateway's decision on a fresh pair is any decision, and it may      *)
(* refuse any request without taking its nonce: when the request has       *)
(* expired, or when the clock or a store raised.  The settlement boundary  *)
(* is one step.  Gateway has both in detail.  An authorization is          *)
(* identified with its request, since a pair is admitted once, and is not  *)
(* dated here.  A signature is the content it covers.                      *)
(***************************************************************************)
EXTENDS Naturals, Sequences, FiniteSets, Functions

CONSTANTS
  Runners,       \* runs of the program, each with a decision client
  Clients,       \* others who call the API
  Owner,         \* the agent that each registered key belongs to
  KeyOf,         \* the key a runner or client signs with
  Scenarios,     \* what a run executes, in that order
  Times,         \* times at which a request is built
  MaxRuns,       \* bound on the runs of a runner
  MaxPosts       \* bound on the calls of a client

Callers == Runners \cup Clients
Keys == DOMAIN Owner
Agents == Range(Owner)
Decisions == {"ALLOW", "REQUIRE_APPROVAL", "BLOCK"}

Attempts == {Scenarios[i].attempt : i \in DOMAIN Scenarios}

(* the nonce is made of the attempt, the digest of the time as well *)
Requests == [agent : Agents, attempt : Attempts, built : Times]

Pair(request) == <<request.agent, request.attempt>>

(* replay_of names an earlier scenario, 0 stands for none *)
ASSUME AutonomousAssumption ==
  /\ KeyOf \in [Callers -> Keys]
  /\ Runners \cap Clients = {}
  /\ Scenarios # <<>>
  /\ Scenarios \in Seq([attempt : Attempts, expected : Decisions, replay_of : Nat])
  /\ \A i \in DOMAIN Scenarios : Scenarios[i].replay_of < i
  /\ MaxRuns \in Nat /\ MaxPosts \in Nat

VARIABLES
  signed,     \* signatures that exist: key and request
  nonces,     \* consumed pairs
  log,        \* the audit stream's receipts
  spent,      \* authorizations the settlement boundary has consumed
  paid,       \* payments it has made
  baseline,   \* payments recorded with the behaviour engine
  post,       \* the latest API call of each caller
  run,        \* the state of each runner's latest run
  moved       \* history: payments made in that run

vars == <<signed, nonces, log, spent, paid, baseline, post, run, moved>>

NoPost == [step |-> "none", posts |-> 0]

Fresh(n) ==
  [step |-> "idle", runs |-> n, at |-> 1, requests |-> <<>>,
   attempts |-> 0, settled |-> 0, quarantined |-> 0, blocked |-> 0]

Init ==
  /\ signed = {} /\ nonces = {} /\ log = <<>>
  /\ spent = {} /\ paid = <<>> /\ baseline = {}
  /\ post = [c \in Callers |-> NoPost]
  /\ run = [r \in Runners |-> Fresh(0)]
  /\ moved = [r \in Runners |-> {}]

-----------------------------------------------------------------------------
(* the decision API; each call runs on a thread of its own *)
Posting(c) == post[c].step \in {"sent", "decided"}

Post(c, request, key, signature) ==
  post' = [post EXCEPT ![c] =
    [step |-> "sent", posts |-> @.posts + 1, request |-> request, key |-> key,
     signature |-> signature, decision |-> "BLOCK"]]

(* mutant: the registered agent is not compared with the request's *)
VerifiedByAnyKey(p) == p.signature = [key |-> p.key, request |-> p.request]

Verified(p) ==
  /\ Owner[p.key] = p.request.agent
  /\ p.signature = [key |-> p.key, request |-> p.request]

RejectUnauthenticated(c) ==
  /\ post[c].step = "sent"
  /\ ~Verified(post[c])
  /\ post' = [post EXCEPT ![c].step = "unauthorized"]
  /\ UNCHANGED <<signed, nonces, log, spent, paid, baseline, run, moved>>

(* mutant: the refusal's reason stands where its decision should *)
RejectReplayedByReason(c) ==
  /\ post[c].step = "sent"
  /\ Verified(post[c])
  /\ Pair(post[c].request) \in nonces
  /\ post' = [post EXCEPT ![c].step = "decided", ![c].decision = "NONCE_REPLAYED"]
  /\ UNCHANGED <<signed, nonces, log, spent, paid, baseline, run, moved>>

RejectReplayed(c) ==
  /\ post[c].step = "sent"
  /\ Verified(post[c])
  /\ Pair(post[c].request) \in nonces
  /\ post' = [post EXCEPT ![c].step = "decided"]
  /\ UNCHANGED <<signed, nonces, log, spent, paid, baseline, run, moved>>

(* mutant: the pair is consumed when the answer is not BLOCK *)
DecideAndKeep(c, decision) ==
  /\ post[c].step = "sent"
  /\ Verified(post[c])
  /\ Pair(post[c].request) \notin nonces
  /\ nonces' = IF decision = "ALLOW" THEN nonces \cup {Pair(post[c].request)} ELSE nonces
  /\ post' = [post EXCEPT ![c].step = "decided", ![c].decision = decision]
  /\ UNCHANGED <<signed, log, spent, paid, baseline, run, moved>>

Decide(c, decision) ==
  /\ post[c].step = "sent"
  /\ Verified(post[c])
  /\ Pair(post[c].request) \notin nonces
  /\ nonces' = nonces \cup {Pair(post[c].request)}
  /\ post' = [post EXCEPT ![c].step = "decided", ![c].decision = decision]
  /\ UNCHANGED <<signed, log, spent, paid, baseline, run, moved>>

(* The answer BLOCK to a request that has expired, which is looked at before *)
(* the nonce, or to one for which the gateway raised before it had taken it. *)
RefuseUnconsumed(c) ==
  /\ post[c].step = "sent"
  /\ Verified(post[c])
  /\ post' = [post EXCEPT ![c].step = "decided"]
  /\ UNCHANGED <<signed, nonces, log, spent, paid, baseline, run, moved>>

(* a receipt for every answer of the gateway, a refusal as well *)
Publish(c) ==
  /\ post[c].step = "decided"
  /\ log' = Append(log, [request |-> post[c].request, decision |-> post[c].decision])
  /\ post' = [post EXCEPT ![c].step = "answered"]
  /\ UNCHANGED <<signed, nonces, spent, paid, baseline, run, moved>>

(* the sanitizer or the stream raises: no receipt, and no decision either *)
PublishFails(c) ==
  /\ post[c].step = "decided"
  /\ post' = [post EXCEPT ![c].step = "error"]
  /\ UNCHANGED <<signed, nonces, log, spent, paid, baseline, run, moved>>

Serve(c) ==
  \/ RejectUnauthenticated(c) \/ RejectReplayed(c) \/ RefuseUnconsumed(c)
  \/ Publish(c) \/ PublishFails(c)
  \/ \E decision \in Decisions : Decide(c, decision)

(* A client signs any request with its own key, another agent's as well, or *)
(* sends a signature it has seen.                                           *)
ClientPosts(c, request, key, signature) ==
  /\ ~Posting(c) /\ post[c].posts < MaxPosts
  /\ signature \in signed \cup {[key |-> KeyOf[c], request |-> request]}
  /\ signed' = signed \cup {signature}
  /\ Post(c, request, key, signature)
  /\ UNCHANGED <<nonces, log, spent, paid, baseline, run, moved>>

-----------------------------------------------------------------------------
(* the runner *)
Agent(r) == Owner[KeyOf[r]]

Current(r) == Scenarios[run[r].at]

Running(r) == run[r].step \notin {"idle", "reported", "failed"}

At(r, step) == run[r].step = step

Start(r) ==
  /\ ~Running(r) /\ run[r].runs < MaxRuns
  /\ ~Posting(r)
  /\ run' = [run EXCEPT ![r] = [Fresh(@.runs + 1) EXCEPT !.step = "scenario"]]
  /\ moved' = [moved EXCEPT ![r] = {}]
  /\ UNCHANGED <<signed, nonces, log, spent, paid, baseline, post>>

Submit(r, time) ==
  LET request == IF Current(r).replay_of = 0
                 THEN [agent |-> Agent(r), attempt |-> Current(r).attempt, built |-> time]
                 ELSE run[r].requests[Current(r).replay_of]
      signature == [key |-> KeyOf[r], request |-> request]
  IN  /\ At(r, "scenario") /\ run[r].at <= Len(Scenarios)
      /\ signed' = signed \cup {signature}
      /\ Post(r, request, KeyOf[r], signature)
      /\ run' = [run EXCEPT ![r].step = "waiting",
                            ![r].requests = Append(@, request)]
      /\ UNCHANGED <<nonces, log, spent, paid, baseline, moved>>

(* The exception that ends a run: the resource, the client of the API, whose *)
(* call goes on, the settlement boundary, the recorder or the observer.      *)
Fail(r) ==
  /\ Running(r)
  /\ run' = [run EXCEPT ![r].step = "failed"]
  /\ UNCHANGED <<signed, nonces, log, spent, paid, baseline, post, moved>>

(* A scenario may also name a reason code that the answer must list; without *)
(* it the run ends as with any exception (Fail).                             *)
AnswerIs(r, decision) ==
  /\ At(r, "waiting") /\ post[r].step = "answered"
  /\ post[r].decision = decision
  /\ Current(r).expected = decision

(* not the declared decision, or no decision at all *)
Unexpected(r) ==
  /\ At(r, "waiting")
  /\ \/ post[r].step \in {"unauthorized", "error"}
     \/ post[r].step = "answered" /\ post[r].decision # Current(r).expected
  /\ run' = [run EXCEPT ![r].step = "failed"]
  /\ UNCHANGED <<signed, nonces, log, spent, paid, baseline, post, moved>>

Pay(r) ==
  /\ post[r].request \notin spent
  /\ spent' = spent \cup {post[r].request}
  /\ paid' = Append(paid, post[r].request)
  /\ moved' = [moved EXCEPT ![r] = @ \cup {post[r].request}]

(* mutant: an expected ALLOW settles, whatever the answer is *)
SettleExpected(r) ==
  /\ At(r, "waiting") /\ post[r].step = "answered"
  /\ Current(r).expected = "ALLOW"
  /\ Pay(r)
  /\ run' = [run EXCEPT ![r].step = "record", ![r].attempts = @ + 1]
  /\ UNCHANGED <<signed, nonces, log, baseline, post>>

Settle(r) ==
  /\ AnswerIs(r, "ALLOW")
  /\ Pay(r)
  /\ run' = [run EXCEPT ![r].step = "record", ![r].attempts = @ + 1]
  /\ UNCHANGED <<signed, nonces, log, baseline, post>>

(* the boundary raises, with or without the authorization consumed *)
SettleFails(r) ==
  /\ AnswerIs(r, "ALLOW")
  /\ spent' \in {spent, spent \cup {post[r].request}}
  /\ run' = [run EXCEPT ![r].step = "failed", ![r].attempts = @ + 1]
  /\ UNCHANGED <<signed, nonces, log, paid, baseline, post, moved>>

(* mutant: a failing recorder is passed over *)
RecordOrGoOn(r) ==
  /\ At(r, "record")
  /\ baseline' \in {baseline, baseline \cup {post[r].request}}
  /\ run' = [run EXCEPT ![r].step = "scenario", ![r].at = @ + 1, ![r].settled = @ + 1]
  /\ UNCHANGED <<signed, nonces, log, spent, paid, post, moved>>

Record(r) ==
  /\ At(r, "record")
  /\ baseline' = baseline \cup {post[r].request}
  /\ run' = [run EXCEPT ![r].step = "scenario", ![r].at = @ + 1, ![r].settled = @ + 1]
  /\ UNCHANGED <<signed, nonces, log, spent, paid, post, moved>>

Quarantine(r) ==
  /\ AnswerIs(r, "REQUIRE_APPROVAL")
  /\ run' = [run EXCEPT ![r].step = "scenario", ![r].at = @ + 1, ![r].quarantined = @ + 1]
  /\ UNCHANGED <<signed, nonces, log, spent, paid, baseline, post, moved>>

(* mutant: a block does not count as the end of its scenario *)
BlockAndRepeat(r) ==
  /\ AnswerIs(r, "BLOCK")
  /\ run' = [run EXCEPT ![r].blocked = (@ + 1) % 2]
  /\ UNCHANGED <<signed, nonces, log, spent, paid, baseline, post, moved>>

Block(r) ==
  /\ AnswerIs(r, "BLOCK")
  /\ run' = [run EXCEPT ![r].step = "scenario", ![r].at = @ + 1, ![r].blocked = @ + 1]
  /\ UNCHANGED <<signed, nonces, log, spent, paid, baseline, post, moved>>

Report(r) ==
  /\ At(r, "scenario") /\ run[r].at > Len(Scenarios)
  /\ run' = [run EXCEPT ![r].step = "reported"]
  /\ UNCHANGED <<signed, nonces, log, spent, paid, baseline, post, moved>>

Proceed(r) ==
  \/ \E time \in Times : Submit(r, time)
  \/ Unexpected(r) \/ Settle(r) \/ SettleFails(r) \/ Record(r)
  \/ Quarantine(r) \/ Block(r) \/ Report(r)

Next ==
  \/ \E c \in Callers : Serve(c)
  \/ \E c \in Clients, request \in Requests, key \in Keys :
       \E signature \in signed \cup {[key |-> KeyOf[c], request |-> request]} :
         ClientPosts(c, request, key, signature)
  \/ \E r \in Runners : Start(r) \/ Proceed(r) \/ Fail(r)

Spec == Init /\ [][Next]_vars

(* A thread that serves a call, and a run that has begun, go on; nobody has *)
(* to start one.                                                            *)
FairSpec ==
  /\ Spec
  /\ \A c \in Callers : WF_vars(Serve(c))
  /\ \A r \in Runners : WF_vars(Proceed(r))

-----------------------------------------------------------------------------
Steps == {"idle", "scenario", "waiting", "record", "reported", "failed"}

Receipts == [request : Requests, decision : Decisions]

Posts ==
  [step : {"sent", "unauthorized", "decided", "error", "answered"}, posts : Nat,
   request : Requests, key : Keys, signature : [key : Keys, request : Requests],
   decision : Decisions]

Runs ==
  [step : Steps, runs : 0..MaxRuns, at : 1..(Len(Scenarios) + 1),
   requests : Seq(Requests),
   attempts : Nat, settled : Nat, quarantined : Nat, blocked : Nat]

(* Type correctness of the service's tables and of every run. *)
TypeOK ==
  /\ signed \subseteq [key : Keys, request : Requests]
  /\ nonces \subseteq Agents \X Attempts
  /\ log \in Seq(Receipts)
  /\ spent \subseteq Requests /\ baseline \subseteq Requests /\ paid \in Seq(Requests)
  /\ post \in [Callers -> Posts \cup {NoPost}]
  /\ run \in [Runners -> Runs]
  /\ moved \in [Runners -> SUBSET Requests]

Signer(request) ==
  {s \in signed : s.request = request /\ Owner[s.key] = request.agent}

(* Nothing of an agent's is touched without a signature of that agent:     *)
(* its nonces are consumed, receipts are published in its name and money   *)
(* moves for it only for a request that a key registered to it has signed, *)
(* although every client may sign what it likes and resend what it saw     *)
(* (agent_auth.py:68, autonomous_api.py:105).                              *)
OnlySignedIntents ==
  /\ \A i \in DOMAIN log : Signer(log[i].request) # {}
  /\ \A i \in DOMAIN paid : Signer(paid[i]) # {}
  /\ \A pair \in nonces :
       \E request \in Requests : Pair(request) = pair /\ Signer(request) # {}

Admissions(pair) ==
  {i \in DOMAIN log : Pair(log[i].request) = pair /\ log[i].decision # "BLOCK"}

(* The audit stream accounts for the money, whoever asked and in whatever  *)
(* order the threads published.  Refusals of a pair may be published in    *)
(* any number, replays and expired requests alike, but one receipt at most *)
(* admits it, to be paid or to be approved; it pays once at most, over all *)
(* runs; and a payment's ALLOW is in the stream before the money moves,    *)
(* because the API answers after it has published (integrity.py:71,        *)
(* autonomous_api.py:121).                                                 *)
LogAccountsForMoney ==
  /\ \A pair \in Agents \X Attempts :
       /\ Cardinality(Admissions(pair)) <= 1
       /\ Cardinality({i \in DOMAIN paid : Pair(paid[i]) = pair}) <= 1
  /\ \A i \in DOMAIN paid :
       \E j \in Admissions(Pair(paid[i])) :
         log[j].request = paid[i] /\ log[j].decision = "ALLOW"

(* A report tells what happened to the money: the settlements it counts    *)
(* are the payments made during the run, every one of them was recorded    *)
(* with the behaviour engine, and every attempt to settle has paid.  While *)
(* a run is under way the one payment not yet counted is the one about to  *)
(* be recorded (autonomous_runner.py:291, 296).                            *)
ReportTellsMoney ==
  /\ baseline \subseteq Range(paid)
  /\ \A r \in Runners :
       /\ Running(r) =>
            Cardinality(moved[r]) = run[r].settled + (IF At(r, "record") THEN 1 ELSE 0)
       /\ At(r, "reported") =>
            /\ run[r].attempts = run[r].settled
            /\ run[r].settled = Cardinality(moved[r])
            /\ moved[r] \subseteq baseline
            /\ run[r].settled + run[r].quarantined + run[r].blocked = Len(Scenarios)

(* A run that has begun ends, with a report or an error: its loop takes    *)
(* every scenario once and each call of the API is answered                *)
(* (autonomous_runner.py:234).                                             *)
RunsEnd == \A r \in Runners : Running(r) ~> ~Running(r)
=============================================================================
