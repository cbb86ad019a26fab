------------------------- MODULE ExternalSettlement --------------------------
(***************************************************************************)
(* Settlement by a service that SolGuard does not control: the x402        *)
(* facilitator on Solana devnet (x402_live.py, devnet_rpc.py) and the      *)
(* pay.sh command (paysh.py).  A call may fail without an answer after the *)
(* service has got the payment, and the process may restart, with nonce    *)
(* and authorization stores that live in its memory.  Whether a payment    *)
(* lands on the chain nobody here knows: the command's exit and output are *)
(* all that paysh.py sees of it, and the transfer that the RPC node is     *)
(* asked about is the one that the facilitator names, which may be another *)
(* of that amount between the same parties.  What a report then says of    *)
(* the chain is a matter of Purchase.                                      *)
(*                                                                         *)
(* The gateway in front of it is shortened to what the payment needs of    *)
(* it: freshness, the single-use nonce and the dated authorization, for    *)
(* requests that its rules allow.  A request that the integrity guard or   *)
(* the rules reject leaves everything here as it was.  The nonce of a      *)
(* request is made from the attempt identifier (x402.py) or from the       *)
(* challenge (paysh.py), so an agent that builds the request of one        *)
(* attempt again, at another time, gets another digest and the same nonce. *)
(***************************************************************************)
EXTENDS Integers, Sequences, FiniteSets

CONSTANTS
  Threads,                \* callers of the process
  Attempts,               \* attempt identifiers, or pay.sh challenges
  Adapters,               \* "x402_live", "paysh"
  RequestLifetime,        \* max_timeout_seconds, or the life of a challenge
  AuthorizationLifetime,  \* PaymentGateway.AUTHORIZATION_LIFETIME
  MaxTime,                \* bound on the clock
  MaxRestarts             \* bound on the restarts

ASSUME ExternalAssumption ==
  /\ Adapters \subseteq {"x402_live", "paysh"}
  /\ RequestLifetime \in Nat \ {0}
  /\ AuthorizationLifetime \in Nat \ {0}
  /\ MaxTime \in Nat
  /\ MaxRestarts \in Nat

VARIABLES
  adapter,    \* the settlement adapter of the program at hand
  bound,      \* attempts made for the adapter's own requirement
  now,        \* the clock of gateway and wallet guard
  life,       \* restarts so far
  nonces,     \* attempts whose nonce is consumed, in memory
  consumed,   \* identifiers of consumed authorizations, in memory
  released,   \* authorizations that left the process in an ALLOW answer
  call,       \* what each thread is doing
  given,      \* the payments the service was given, in that order
  answers     \* history: how calls were answered that gave the service a payment

vars ==
  <<adapter, bound, now, life, nonces, consumed, released, call, given, answers>>

Requests == [attempt : Attempts, created : 0..MaxTime]

(* an x402 request lives from when it is built, a pay.sh request as long as *)
(* the challenge it answers                                                 *)
RequestExpires(request) ==
  RequestLifetime + IF adapter = "x402_live" THEN request.created ELSE 0

(* admitted is history: the life whose gateway admitted the request *)
Authorizations == [request : Requests, issued : 0..MaxTime, admitted : 0..MaxRestarts]

(* a digest of the request and the time, so another life may find it again *)
Identifier(authorization) == <<authorization.request, authorization.issued>>

ExpiresAt(authorization) == authorization.issued + AuthorizationLifetime

Idle == [step |-> "idle"]

At(t, step) == call[t].step = step

Advance(t, step) == call' = [call EXCEPT ![t].step = step]

Init ==
  /\ adapter \in Adapters
  /\ bound \in SUBSET Attempts
  /\ now = 0
  /\ life = 0
  /\ nonces = {}
  /\ consumed = {}
  /\ released = {}
  /\ call = [t \in Threads |-> Idle]
  /\ given = <<>>
  /\ answers = {}

Tick ==
  /\ now < MaxTime
  /\ now' = now + 1
  /\ UNCHANGED <<adapter, bound, life, nonces, consumed, released, call, given, answers>>

-----------------------------------------------------------------------------
(* a thread comes to the adapter with an authorization *)
ToAdapter(t, mode, authorization) ==
  call' = [call EXCEPT ![t] =
    [step |-> "guard", mode |-> mode, authorization |-> authorization,
     guarded |-> 0, payment |-> 0]]

(* mutant: the expiry of the request is not looked at *)
ProcessStale(t, request) ==
  /\ At(t, "idle")
  /\ request.created <= now
  /\ request.attempt \notin nonces
  /\ nonces' = nonces \cup {request.attempt}
  /\ ToAdapter(t, "process", [request |-> request, issued |-> now, admitted |-> life])
  /\ UNCHANGED <<adapter, bound, now, life, consumed, released, given, answers>>

Fresh(request) ==
  /\ request.created <= now
  /\ now < RequestExpires(request)
  /\ request.attempt \notin nonces

Process(t, request) ==
  /\ At(t, "idle")
  /\ Fresh(request)
  /\ nonces' = nonces \cup {request.attempt}
  /\ ToAdapter(t, "process", [request |-> request, issued |-> now, admitted |-> life])
  /\ UNCHANGED <<adapter, bound, now, life, consumed, released, given, answers>>

(* mutant: the authorization is dated at its expiry *)
EvaluateDatedAtExpiry(t, request) ==
  /\ At(t, "idle")
  /\ Fresh(request)
  /\ nonces' = nonces \cup {request.attempt}
  /\ released' = released \cup
       {[request |-> request, issued |-> now + AuthorizationLifetime, admitted |-> life]}
  /\ UNCHANGED <<adapter, bound, now, life, consumed, call, given, answers>>

Evaluate(t, request) ==
  /\ At(t, "idle")
  /\ Fresh(request)
  /\ nonces' = nonces \cup {request.attempt}
  /\ released' = released \cup
       {[request |-> request, issued |-> now, admitted |-> life]}
  /\ UNCHANGED <<adapter, bound, now, life, consumed, call, given, answers>>

(* a wallet presents what an earlier answer gave it, maybe in an earlier life *)
Present(t, authorization) ==
  /\ At(t, "idle")
  /\ authorization \in released
  /\ ToAdapter(t, "present", authorization)
  /\ UNCHANGED <<adapter, bound, now, life, nonces, consumed, released, given, answers>>

-----------------------------------------------------------------------------
(* mutant: the answer carries the authorization, whatever the verdict *)
AnswerReleasesAnyway(t, verdict) ==
  /\ answers' = IF call[t].payment = 0 THEN answers
                ELSE answers \cup
                  {[mode |-> call[t].mode, request |-> call[t].authorization.request,
                    verdict |-> verdict, payment |-> call[t].payment]}
  /\ released' = released \cup {call[t].authorization}
  /\ call' = [call EXCEPT ![t] = Idle]

(* the call ends; an ALLOW answer of process carries the authorization *)
Answer(t, verdict) ==
  /\ answers' = IF call[t].payment = 0 THEN answers
                ELSE answers \cup
                  {[mode |-> call[t].mode, request |-> call[t].authorization.request,
                    verdict |-> verdict, payment |-> call[t].payment]}
  /\ released' = IF verdict = "SETTLED" THEN released \cup {call[t].authorization}
                 ELSE released
  /\ call' = [call EXCEPT ![t] = Idle]

(* only the x402 adapter compares the request with its requirement *)
Matches(request) == adapter = "x402_live" => request.attempt \in bound

Acceptable(authorization) ==
  Matches(authorization.request) /\ now < ExpiresAt(authorization)

PassGuard(t) ==
  /\ At(t, "guard")
  /\ Acceptable(call[t].authorization)
  /\ call' = [call EXCEPT ![t].step = "consume", ![t].guarded = now]
  /\ UNCHANGED <<adapter, bound, now, life, nonces, consumed, released, given, answers>>

RejectAuthorization(t) ==
  /\ At(t, "guard")
  /\ ~Acceptable(call[t].authorization)
  /\ Answer(t, "FAILED")
  /\ UNCHANGED <<adapter, bound, now, life, nonces, consumed, given>>

(* mutant: looked up, and not consumed before the service is called *)
ConsumeLater(t) ==
  /\ At(t, "consume")
  /\ Identifier(call[t].authorization) \notin consumed
  /\ Advance(t, "execute")
  /\ UNCHANGED <<adapter, bound, now, life, nonces, consumed, released, given, answers>>

Consume(t) ==
  /\ At(t, "consume")
  /\ Identifier(call[t].authorization) \notin consumed
  /\ consumed' = consumed \cup {Identifier(call[t].authorization)}
  /\ Advance(t, "execute")
  /\ UNCHANGED <<adapter, bound, now, life, nonces, released, given, answers>>

RejectReplayed(t) ==
  /\ At(t, "consume")
  /\ Identifier(call[t].authorization) \in consumed
  /\ Answer(t, "FAILED")
  /\ UNCHANGED <<adapter, bound, now, life, nonces, consumed, given>>

-----------------------------------------------------------------------------
(* no payload, an invalid one, or a command that does not start *)
FailBeforeSending(t) ==
  /\ At(t, "execute")
  /\ Answer(t, "FAILED")
  /\ UNCHANGED <<adapter, bound, now, life, nonces, consumed, given>>

Send(t) ==
  /\ At(t, "execute")
  /\ given' = Append(given, [authorization |-> call[t].authorization, life |-> life,
                             guarded |-> call[t].guarded])
  /\ call' = [call EXCEPT ![t].step = "response", ![t].payment = Len(given')]
  /\ UNCHANGED <<adapter, bound, now, life, nonces, consumed, released, answers>>

(* the facilitator says it settled, and names a transfer *)
FacilitatorConfirms(t) ==
  /\ At(t, "response") /\ adapter = "x402_live"
  /\ Advance(t, "confirm")
  /\ UNCHANGED <<adapter, bound, now, life, nonces, consumed, released, given, answers>>

(* the Pay command exits with 0 and some output, paid or not *)
CommandReturns(t) ==
  /\ At(t, "response") /\ adapter = "paysh"
  /\ Answer(t, "SETTLED")
  /\ UNCHANGED <<adapter, bound, now, life, nonces, consumed, given>>

(* a timeout, a lost connection or a refusal: the outcome is not known *)
FailAfterSending(t) ==
  /\ At(t, "response")
  /\ Answer(t, "FAILED")
  /\ UNCHANGED <<adapter, bound, now, life, nonces, consumed, given>>

(* The transfer that the facilitator named has landed and is of the right    *)
(* amount and parties; that it is this payment is not compared.              *)
Confirm(t) ==
  /\ At(t, "confirm")
  /\ Answer(t, "SETTLED")
  /\ UNCHANGED <<adapter, bound, now, life, nonces, consumed, given>>

(* the RPC service fails, lags, or knows no such transfer *)
FailToConfirm(t) ==
  /\ At(t, "confirm")
  /\ Answer(t, "FAILED")
  /\ UNCHANGED <<adapter, bound, now, life, nonces, consumed, given>>

-----------------------------------------------------------------------------
Restart ==
  /\ life < MaxRestarts
  /\ life' = life + 1
  /\ nonces' = {}
  /\ consumed' = {}
  /\ call' = [t \in Threads |-> Idle]
  /\ UNCHANGED <<adapter, bound, now, released, given, answers>>

Continue(t) ==
  \/ PassGuard(t) \/ RejectAuthorization(t)
  \/ Consume(t) \/ RejectReplayed(t)
  \/ FailBeforeSending(t) \/ Send(t)
  \/ FacilitatorConfirms(t) \/ CommandReturns(t) \/ FailAfterSending(t)
  \/ Confirm(t) \/ FailToConfirm(t)

Enter(t) ==
  \/ \E request \in Requests : Process(t, request) \/ Evaluate(t, request)
  \/ \E authorization \in released : Present(t, authorization)

Next ==
  \/ Tick \/ Restart
  \/ \E t \in Threads : Enter(t) \/ Continue(t)

Spec == Init /\ [][Next]_vars

-----------------------------------------------------------------------------
Steps == {"guard", "consume", "execute", "response", "confirm"}

Calls ==
  [step : Steps, mode : {"process", "present"}, authorization : Authorizations,
   guarded : 0..MaxTime, payment : Nat]

Payments ==
  [authorization : Authorizations, life : 0..MaxRestarts, guarded : 0..MaxTime]

Answers ==
  [mode : {"process", "present"}, request : Requests, verdict : {"SETTLED", "FAILED"},
   payment : Nat]

(* Type correctness of the process, of the payments and of the history. *)
TypeOK ==
  /\ adapter \in Adapters /\ bound \subseteq Attempts
  /\ now \in 0..MaxTime /\ life \in 0..MaxRestarts
  /\ nonces \subseteq Attempts
  /\ consumed \subseteq Requests \X (0..MaxTime)
  /\ released \subseteq Authorizations
  /\ call \in [Threads -> Calls \cup {Idle}]
  /\ given \in Seq(Payments)
  /\ answers \subseteq Answers

Sent(attempt, inLife) ==
  {i \in DOMAIN given : /\ given[i].authorization.request.attempt = attempt
                        /\ given[i].life = inLife}

(***************************************************************************)
(* What a restart can cost (docs/AUTHORIZATION.md:20, 26).  Without one an *)
(* attempt is sent to the service once, whether the call failed or not.    *)
(* Each restart lets the attempt be admitted once more, and the wallet     *)
(* forgets: in the life after n restarts at most n + 1 authorizations of   *)
(* the attempt can be redeemed, each once.                                 *)
(***************************************************************************)
RestartExposure ==
  \A attempt \in Attempts : \A inLife \in 0..life :
    /\ Cardinality(Sent(attempt, inLife)) <= inLife + 1
    /\ \A i, j \in Sent(attempt, inLife) :
         Identifier(given[i].authorization) = Identifier(given[j].authorization) => i = j

(***************************************************************************)
(* The end of that exposure: whatever happens, a request is not sent on an *)
(* authorization checked later than one authorization's lifetime after the *)
(* request has expired (integrity.py:71, gateway.py:216-222,               *)
(* authorization.py:71).  The wallet guard does not compare the expiry of  *)
(* the request itself.                                                     *)
(***************************************************************************)
ExposureEnds ==
  \A i \in DOMAIN given :
    given[i].guarded <
      RequestExpires(given[i].authorization.request) + AuthorizationLifetime

(***************************************************************************)
(* A failed call is final.  When a call of process fails after the service *)
(* has got the payment, nobody knows whether it was made; but the          *)
(* authorization never left the process (gateway.py:180, 339) and the      *)
(* nonce stays consumed, so the admission that it came from is never paid  *)
(* for again, in this life or a later one.  Another payment of the attempt *)
(* takes another admission, for which the process must have restarted.     *)
(***************************************************************************)
FailureIsFinal ==
  \A a \in answers : a.mode = "process" /\ a.verdict = "FAILED" =>
    \A i \in DOMAIN given \ {a.payment} :
      LET failed == given[a.payment].authorization
          other  == given[i].authorization
      IN  other.request.attempt = failed.request.attempt
            => other.admitted # failed.admitted
==============================================================================
