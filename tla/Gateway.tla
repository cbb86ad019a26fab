------------------------------- MODULE Gateway -------------------------------
(***************************************************************************)
(* The payment gateway (gateway.py) with everything a payment passes on    *)
(* its way to the money: the request integrity guard (integrity.py), the   *)
(* mandate policy engine (Policy), the behaviour engine behind its         *)
(* protocol, the wallet authorization guard (authorization.py) and the     *)
(* simulated settlement (simulation.py).                                   *)
(*                                                                         *)
(* Threads call the gateway and the settlement concurrently, as the        *)
(* handlers of the two threaded HTTP servers do.  Every action is one step *)
(* of one thread between two accesses to shared state; only the two        *)
(* consume_if_unused operations hold a lock.                               *)
(*                                                                         *)
(* A canonical digest stands for the request it covers: a request is its   *)
(* own digest, and an authorization identifier, the hash of the digest and *)
(* the time of the decision, is the authorization itself.                  *)
(***************************************************************************)
EXTENDS Naturals, FiniteSets, FiniteSetsExt, Policy

CONSTANTS
  Threads,                \* callers
  Requests,               \* requests that pass the contract checks
  InitialBalances,        \* funded agent |-> its simulated balance
  AuthorizationLifetime,  \* PaymentGateway.AUTHORIZATION_LIFETIME
  MaxTime,                \* bound on the clock
  MayRaise,               \* steps whose injected dependency may raise
  CallerLock,             \* the callers hold one lock around each call
  NoAuthorization         \* None, where an authorization is expected

(***************************************************************************)
(* The steps of a call that depend on an injected component: the nonce     *)
(* store, the rules, the wallet clock, the authorization store and the     *)
(* balance table.  Recording an allowed payment is not one of them: the    *)
(* engine's record_allowed only appends to a list and adds to a set.       *)
(***************************************************************************)
RaisingSteps == {"integrity", "decide", "guard", "consume", "balance"}

Agents == {r.agent : r \in Requests}

Authorizations == [request : Requests, issued : 0..MaxTime]

ASSUME GatewayAssumption ==
  /\ Requests # {}
  /\ NoAuthorization \notin Authorizations
  /\ AuthorizationLifetime \in Nat \ {0}
  /\ MaxTime \in Nat
  /\ MayRaise \subseteq RaisingSteps
  /\ CallerLock \in BOOLEAN
  /\ \A r \in Requests : r.amount \in Nat \ {0} /\ r.expires \in Nat
  /\ InitialBalances \in [DOMAIN InitialBalances -> Nat]

Key(r) == <<r.agent, r.nonce>>

ExpiresAt(a) == a.issued + AuthorizationLifetime

-----------------------------------------------------------------------------
VARIABLES
  now,         \* the clock
  nonces,      \* consumed (agent, nonce) pairs
  usedAuths,   \* consumed authorizations
  balances,    \* simulated balances
  baseline,    \* requests in the behaviour engine's clean baselines
  call,        \* what each thread is doing
  claimed,     \* history: requests that consumed their pair
  issued,      \* history: authorizations created
  debits,      \* history: balance writes made for each request
  answers      \* history: outcomes returned to callers

vars == <<now, nonces, usedAuths, balances, baseline, call,
          claimed, issued, debits, answers>>

(***************************************************************************)
(* The three ways into the code: process, evaluate (the same path without  *)
(* settlement) and a wallet that brings an authorization to the settlement *)
(* adapter itself, as the autonomous runner does after evaluate.           *)
(***************************************************************************)
Modes == {"process", "evaluate", "wallet"}

Steps == RaisingSteps \cup {"idle", "debit", "record"}

Call == [step : Steps, mode : Modes, request : Requests,
         observed : 0..MaxTime,
         auth : Authorizations \cup {NoAuthorization},
         before : Nat]

Answer == [request : Requests, decision : {"ALLOW", "REQUIRE_APPROVAL", "BLOCK"},
           holder : BOOLEAN, settled : BOOLEAN,
           auth : Authorizations \cup {NoAuthorization}]

TypeOK ==
  /\ now \in 0..MaxTime
  /\ nonces \subseteq {Key(r) : r \in Requests}
  /\ usedAuths \subseteq Authorizations
  /\ balances \in [DOMAIN InitialBalances -> Nat]
  /\ baseline \subseteq Requests
  /\ call \in [Threads -> Call]
  /\ claimed \subseteq Requests
  /\ issued \subseteq Authorizations
  /\ debits \in [Requests -> Nat]
  /\ answers \subseteq Answer

AnyCall == [step |-> "idle", mode |-> "process",
            request |-> CHOOSE r \in Requests : TRUE,
            observed |-> 0, auth |-> NoAuthorization, before |-> 0]

Init ==
  /\ now = 0
  /\ nonces = {}
  /\ usedAuths = {}
  /\ balances = InitialBalances
  /\ baseline = {}
  /\ call = [t \in Threads |-> AnyCall]
  /\ claimed = {}
  /\ issued = {}
  /\ debits = [r \in Requests |-> 0]
  /\ answers = {}

(***************************************************************************)
(* The authorizations callers hold: every ALLOW carries one.               *)
(***************************************************************************)
Released == {o.auth : o \in {p \in answers : p.decision = "ALLOW"}}

At(t, step) == call[t].step = step

Advance(t, step) == call' = [call EXCEPT ![t].step = step]

(***************************************************************************)
(* A call returns.  A gateway call answers with a decision; holder says    *)
(* whether this call is the one that consumed the pair of its request.     *)
(* What the settlement adapter raises to a wallet is not an answer.        *)
(***************************************************************************)
Return(t, decision, auth, settled) ==
  /\ call' = [call EXCEPT ![t] = AnyCall]
  /\ answers' = answers \cup
       (IF call[t].mode = "wallet" THEN {}
        ELSE {[request |-> call[t].request, decision |-> decision,
               holder |-> call[t].step # "integrity", settled |-> settled,
               auth |-> auth]})

Block(t) == Return(t, "BLOCK", NoAuthorization, FALSE)

-----------------------------------------------------------------------------
Tick ==
  /\ now < MaxTime
  /\ now' = now + 1
  /\ UNCHANGED <<nonces, usedAuths, balances, baseline, call,
                 claimed, issued, debits, answers>>

(* mutant: the callers' lock is forgotten *)
EntersWithoutLock(t) == At(t, "idle")

MayEnter(t) ==
  /\ At(t, "idle")
  /\ CallerLock => \A u \in Threads : At(u, "idle")

(* process or evaluate: the request is well formed, the clock is read once *)
Begin(t, r, mode) ==
  /\ MayEnter(t)
  /\ mode \in {"process", "evaluate"}
  /\ call' = [call EXCEPT ![t] = [AnyCall EXCEPT !.step = "integrity",
                                                 !.mode = mode,
                                                 !.request = r,
                                                 !.observed = now]]
  /\ UNCHANGED <<now, nonces, usedAuths, balances, baseline,
                 claimed, issued, debits, answers>>

(* an expired request is blocked and its nonce stays unused *)
RejectExpired(t) ==
  /\ At(t, "integrity")
  /\ call[t].observed >= call[t].request.expires
  /\ Block(t)
  /\ UNCHANGED <<now, nonces, usedAuths, balances, baseline,
                 claimed, issued, debits>>

RejectReplayed(t) ==
  /\ At(t, "integrity")
  /\ call[t].observed < call[t].request.expires
  /\ Key(call[t].request) \in nonces
  /\ Block(t)
  /\ UNCHANGED <<now, nonces, usedAuths, balances, baseline,
                 claimed, issued, debits>>

(* mutant: the pair is compared and never stored *)
ForgetsNonce(t) ==
  /\ At(t, "integrity")
  /\ call[t].observed < call[t].request.expires
  /\ Key(call[t].request) \notin nonces
  /\ claimed' = claimed \cup {call[t].request}
  /\ Advance(t, "decide")
  /\ UNCHANGED <<now, nonces, usedAuths, balances, baseline, issued, debits, answers>>

ConsumeNonce(t) ==
  /\ At(t, "integrity")
  /\ call[t].observed < call[t].request.expires
  /\ Key(call[t].request) \notin nonces
  /\ nonces' = nonces \cup {Key(call[t].request)}
  /\ claimed' = claimed \cup {call[t].request}
  /\ Advance(t, "decide")
  /\ UNCHANGED <<now, usedAuths, balances, baseline, issued, debits, answers>>

-----------------------------------------------------------------------------
(* mutant: a blocked request gets its nonce back *)
ReturnsNonce(t, signal) ==
  /\ At(t, "decide")
  /\ ~PolicyAllows(call[t].request) \/ signal = "BLOCK"
  /\ nonces' = nonces \ {Key(call[t].request)}
  /\ Block(t)
  /\ UNCHANGED <<now, usedAuths, balances, baseline, claimed, issued, debits>>

(***************************************************************************)
(* The decision.  The behaviour engine is any DetectionEvaluator here: it  *)
(* may answer CLEAN, FLAG or BLOCK.                                        *)
(***************************************************************************)
DecideBlock(t, signal) ==
  /\ At(t, "decide")
  /\ ~PolicyAllows(call[t].request) \/ signal = "BLOCK"
  /\ Block(t)
  /\ UNCHANGED <<now, nonces, usedAuths, balances, baseline,
                 claimed, issued, debits>>

(* mutant: the baseline learns a quarantined payment *)
LearnsQuarantined(t, signal) ==
  /\ At(t, "decide")
  /\ PolicyAllows(call[t].request) /\ signal = "FLAG"
  /\ baseline' = baseline \cup {call[t].request}
  /\ Return(t, "REQUIRE_APPROVAL", NoAuthorization, FALSE)
  /\ UNCHANGED <<now, nonces, usedAuths, balances, claimed, issued, debits>>

Escalate(t, signal) ==
  /\ At(t, "decide")
  /\ PolicyAllows(call[t].request) /\ signal = "FLAG"
  /\ Return(t, "REQUIRE_APPROVAL", NoAuthorization, FALSE)
  /\ UNCHANGED <<now, nonces, usedAuths, balances, baseline,
                 claimed, issued, debits>>

(* the authorization is bound to the request and to the time of step one *)
Authorization(t) == [request |-> call[t].request, issued |-> call[t].observed]

Authorize(t, signal) ==
  /\ At(t, "decide")
  /\ PolicyAllows(call[t].request) /\ signal = "CLEAN"
  /\ issued' = issued \cup {Authorization(t)}
  /\ \/ /\ call[t].mode = "evaluate"
        /\ Return(t, "ALLOW", Authorization(t), FALSE)
     \/ /\ call[t].mode = "process"
        /\ call' = [call EXCEPT ![t] = [@ EXCEPT !.step = "guard",
                                               !.auth = Authorization(t)]]
        /\ UNCHANGED answers
  /\ UNCHANGED <<now, nonces, usedAuths, balances, baseline, claimed, debits>>

-----------------------------------------------------------------------------
(* a wallet presents an authorization it was given, or none, for a request *)
Present(t, r, a) ==
  /\ MayEnter(t)
  /\ call' = [call EXCEPT ![t] = [AnyCall EXCEPT !.step = "guard",
                                                 !.mode = "wallet",
                                                 !.request = r,
                                                 !.auth = a]]
  /\ UNCHANGED <<now, nonces, usedAuths, balances, baseline,
                 claimed, issued, debits, answers>>

(* mutant: the guard does not compare the digest *)
AcceptsAnyDigest(a, r) == a # NoAuthorization /\ now < ExpiresAt(a)

(* missing, bound to another request, or expired on the wallet's own clock *)
Acceptable(a, r) ==
  /\ a # NoAuthorization
  /\ a.request = r
  /\ now < ExpiresAt(a)

RejectAuthorization(t) ==
  /\ At(t, "guard")
  /\ ~Acceptable(call[t].auth, call[t].request)
  /\ Block(t)
  /\ UNCHANGED <<now, nonces, usedAuths, balances, baseline,
                 claimed, issued, debits>>

(* mutant: the authorization is checked and not consumed *)
SkipsConsume(t) ==
  /\ At(t, "guard")
  /\ Acceptable(call[t].auth, call[t].request)
  /\ Advance(t, "balance")
  /\ UNCHANGED <<now, nonces, usedAuths, balances, baseline,
                 claimed, issued, debits, answers>>

PassGuard(t) ==
  /\ At(t, "guard")
  /\ Acceptable(call[t].auth, call[t].request)
  /\ Advance(t, "consume")
  /\ UNCHANGED <<now, nonces, usedAuths, balances, baseline,
                 claimed, issued, debits, answers>>

RejectReplayedAuthorization(t) ==
  /\ At(t, "consume")
  /\ call[t].auth \in usedAuths
  /\ Block(t)
  /\ UNCHANGED <<now, nonces, usedAuths, balances, baseline,
                 claimed, issued, debits>>

(* mutant: a second presentation is consumed again *)
ConsumesAgain(t) ==
  /\ At(t, "consume")
  /\ usedAuths' = usedAuths \cup {call[t].auth}
  /\ Advance(t, "balance")
  /\ UNCHANGED <<now, nonces, balances, baseline, claimed, issued, debits, answers>>

ConsumeAuthorization(t) ==
  /\ At(t, "consume")
  /\ call[t].auth \notin usedAuths
  /\ usedAuths' = usedAuths \cup {call[t].auth}
  /\ Advance(t, "balance")
  /\ UNCHANGED <<now, nonces, balances, baseline, claimed, issued, debits, answers>>

-----------------------------------------------------------------------------
(***************************************************************************)
(* SimulatedSettlement after authorize: the balance is read, compared and  *)
(* written back without a lock.  An agent without a balance raises         *)
(* SimulatedSettlementError, a short one InsufficientSimulatedFunds; the   *)
(* gateway turns both into BLOCK.                                          *)
(***************************************************************************)
Covers(r) ==
  /\ r.agent \in DOMAIN InitialBalances
  /\ r.amount <= balances[r.agent]

(* mutant: an agent without a balance is not provided for *)
RejectsShortOnly(t) ==
  /\ At(t, "balance")
  /\ call[t].request.agent \in DOMAIN InitialBalances
  /\ ~Covers(call[t].request)
  /\ Block(t)
  /\ UNCHANGED <<now, nonces, usedAuths, balances, baseline,
                 claimed, issued, debits>>

RejectFunds(t) ==
  /\ At(t, "balance")
  /\ ~Covers(call[t].request)
  /\ Block(t)
  /\ UNCHANGED <<now, nonces, usedAuths, balances, baseline,
                 claimed, issued, debits>>

(* mutant: the balance that was compared is not the one subtracted from *)
KeepsOldBalance(t) ==
  /\ At(t, "balance")
  /\ Covers(call[t].request)
  /\ Advance(t, "debit")
  /\ UNCHANGED <<now, nonces, usedAuths, balances, baseline,
                 claimed, issued, debits, answers>>

ReadBalance(t) ==
  /\ At(t, "balance")
  /\ Covers(call[t].request)
  /\ call' = [call EXCEPT ![t] = [@ EXCEPT !.step = "debit",
                                         !.before = balances[call[t].request.agent]]]
  /\ UNCHANGED <<now, nonces, usedAuths, balances, baseline,
                 claimed, issued, debits, answers>>

Debit(t) ==
  LET r == call[t].request IN
  /\ At(t, "debit")
  /\ balances' = [balances EXCEPT ![r.agent] = call[t].before - r.amount]
  /\ debits' = [debits EXCEPT ![r] = @ + 1]
  /\ Advance(t, "record")
  /\ UNCHANGED <<now, nonces, usedAuths, baseline, claimed, issued, answers>>

(* the clean baseline learns the settled payment, then the call returns *)
RecordAllowed(t) ==
  /\ At(t, "record")
  /\ baseline' = baseline \cup {call[t].request}
  /\ Return(t, "ALLOW", call[t].auth, TRUE)
  /\ UNCHANGED <<now, nonces, usedAuths, balances, claimed, issued, debits>>

-----------------------------------------------------------------------------
(***************************************************************************)
(* An injected component raises.  The gateway answers BLOCK; a store may   *)
(* have recorded the identifier before it raised, or answered with         *)
(* something that is not a boolean, which raises too.                      *)
(***************************************************************************)
DependencyRaises(t) ==
  /\ call[t].step \in MayRaise
  /\ nonces' \in {nonces} \cup
       (IF At(t, "integrity") /\ call[t].observed < call[t].request.expires
        THEN {nonces \cup {Key(call[t].request)}} ELSE {})
  /\ usedAuths' \in {usedAuths} \cup
       (IF At(t, "consume") THEN {usedAuths \cup {call[t].auth}} ELSE {})
  /\ Block(t)
  /\ UNCHANGED <<now, balances, baseline, claimed, issued, debits>>

(* a call that has begun takes its next step *)
Continue(t) ==
  \/ RejectExpired(t) \/ RejectReplayed(t) \/ ConsumeNonce(t)
  \/ \E signal \in {"CLEAN", "FLAG", "BLOCK"} :
       DecideBlock(t, signal) \/ Escalate(t, signal) \/ Authorize(t, signal)
  \/ RejectAuthorization(t) \/ PassGuard(t)
  \/ RejectReplayedAuthorization(t) \/ ConsumeAuthorization(t)
  \/ RejectFunds(t) \/ ReadBalance(t) \/ Debit(t) \/ RecordAllowed(t)
  \/ DependencyRaises(t)

Enter(t) ==
  \E r \in Requests :
    \/ \E mode \in {"process", "evaluate"} : Begin(t, r, mode)
    \/ \E a \in Released \cup {NoAuthorization} : Present(t, r, a)

Next == Tick \/ \E t \in Threads : Enter(t) \/ Continue(t)

Spec == Init /\ [][Next]_vars

(***************************************************************************)
(* A running thread is scheduled; no caller has to call and the clock may  *)
(* stop.                                                                   *)
(***************************************************************************)
FairSpec == Spec /\ \A t \in Threads : WF_vars(Continue(t))

-----------------------------------------------------------------------------
(***************************************************************************)
(* One (agent, nonce) pair moves money at most once, whatever the requests *)
(* that carry it, the callers that race for it and the authorizations that *)
(* are presented twice: integrity.py:78, authorization.py:73.              *)
(***************************************************************************)
PaidOncePerPair ==
  \A q, r \in Requests :
    Key(q) = Key(r) /\ debits[q] > 0 /\ debits[r] > 0
      => q = r /\ debits[r] = 1

(***************************************************************************)
(* Of all the gateway calls for one pair, exactly one gets past the        *)
(* integrity guard and its verdict is the only one: a concurrent or later  *)
(* call never obtains a second opinion (gateway.py:122).                   *)
(***************************************************************************)
OneVerdictPerPair ==
  \A o, p \in answers :
    o.holder /\ p.holder /\ Key(o.request) = Key(p.request) => o = p

(***************************************************************************)
(* A verdict other than ALLOW is final: once the call that holds the pair  *)
(* was answered BLOCK or REQUIRE_APPROVAL, neither this request nor any    *)
(* other one with the pair is ever paid, by any road (gateway.py:131-155,  *)
(* 171-196, 208).                                                          *)
(***************************************************************************)
RefusedNeverPaid ==
  \A o \in answers, r \in Requests :
    o.holder /\ o.decision # "ALLOW" /\ Key(o.request) = Key(r)
      => debits[r] = 0

(***************************************************************************)
(* Money that moved has its papers: the owner's mandate permits the        *)
(* payment and the wallet consumed an authorization for exactly this       *)
(* request, issued before the request expired.                             *)
(***************************************************************************)
PaidWithPapers ==
  \A r \in Requests :
    debits[r] > 0 =>
      /\ OwnerPermits(r)
      /\ \E a \in usedAuths \cap issued : a.request = r /\ a.issued < r.expires

(***************************************************************************)
(* The clean baseline that later payments are measured against learns from *)
(* settled payments only: no blocked, quarantined or merely authorized     *)
(* payment can teach the engine (gateway.py:197, THREAT_MODEL invariant 5).*)
(***************************************************************************)
BaselineOnlyFromPaid == \A r \in baseline : debits[r] > 0

(***************************************************************************)
(* The balance table is the books: what an agent lost is what its settled  *)
(* payments cost.  It needs the callers' lock: simulation.py:97-113 reads  *)
(* and writes the balance in separate steps.                               *)
(***************************************************************************)
Spent(agent) ==
  MapThenSumSet(LAMBDA r : debits[r] * r.amount,
                {r \in Requests : r.agent = agent})

BooksBalance ==
  \A agent \in DOMAIN InitialBalances :
    balances[agent] + Spent(agent) = InitialBalances[agent]

(***************************************************************************)
(* A call that consumed a pair always gets a verdict out: no path of the   *)
(* gateway loses a request whose nonce is already spent.                   *)
(***************************************************************************)
ConsumedIsAnswered ==
  \A t \in Threads :
    At(t, "decide") ~> At(t, "idle")

(***************************************************************************)
(* The gateway implements the chain of single-use rights.                  *)
(***************************************************************************)
Abstract == INSTANCE PaymentSafety WITH
              KeyOf <- Key,
              Permitted <- OwnerPermits,
              authorized <- {a.request : a \in issued},
              redeemed <- {a.request : a \in usedAuths},
              paid <- debits

ChainOfRights == Abstract!Spec
=============================================================================
