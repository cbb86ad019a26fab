---------------------------- MODULE GatewayProofs ----------------------------
(***************************************************************************)
(* Proofs about Gateway: type correctness, the inductive invariant behind  *)
(* the safety invariants, and the refinement of PaymentSafety, for every   *)
(* set of threads and requests, every mandate and every clock.             *)
(***************************************************************************)
EXTENDS Gateway, FiniteSetTheorems, TLAPS

-----------------------------------------------------------------------------
(* past the integrity guard: the call that consumed the pair *)
Holding(t) ==
  /\ call[t].step \notin {"idle", "integrity"}
  /\ call[t].mode # "wallet"

(* past the wallet's checks: bound to an authorization it was issued *)
Bound(t) == call[t].step \in {"consume", "balance", "debit", "record"}

(* past the consumption of the authorization *)
Redeemed(t) == call[t].step \in {"balance", "debit", "record"}

Verdicts == {o \in answers : o.holder}

(* a claim stands behind every consumed pair, and one claim for each pair *)
ClaimInv ==
  /\ \A r \in claimed : Key(r) \in nonces
  /\ \A q, r \in claimed : Key(q) = Key(r) => q = r

(* an authorization belongs to a claim the rules permit; one for each;     *)
(* none is consumed that was not issued                                    *)
IssueInv ==
  /\ \A a \in issued : /\ a.request \in claimed
                       /\ PolicyAllows(a.request)
                       /\ a.issued < a.request.expires
  /\ \A a, b \in issued : a.request = b.request => a = b
  /\ usedAuths \subseteq issued

(* the holder of a pair is alone, unanswered and not yet paid *)
HoldInv ==
  /\ \A t \in Threads : Holding(t) =>
       /\ call[t].request \in claimed
       /\ \A o \in Verdicts : o.request # call[t].request
       /\ call[t].step # "record" => debits[call[t].request] = 0
  /\ \A t, u \in Threads :
       Holding(t) /\ Holding(u) /\ call[t].request = call[u].request => t = u
  /\ \A t \in Threads :
       call[t].step \in {"integrity", "decide"} => call[t].mode # "wallet"
  /\ \A t \in Threads : At(t, "decide") =>
       /\ call[t].observed < call[t].request.expires
       /\ \A a \in issued : a.request # call[t].request

(* where an authorization in use comes from *)
AuthInv ==
  /\ \A t \in Threads : Holding(t) /\ ~At(t, "decide") =>
       /\ call[t].auth \in issued
       /\ call[t].auth.request = call[t].request
       /\ call[t].mode = "process"
  /\ \A t \in Threads :
       call[t].mode = "wallet" => call[t].auth \in Released \cup {NoAuthorization}
  /\ \A t \in Threads : Bound(t) =>
       /\ call[t].auth \in issued
       /\ call[t].auth.request = call[t].request
  /\ \A t \in Threads : Redeemed(t) => call[t].auth \in usedAuths
  /\ \A t, u \in Threads :
       Redeemed(t) /\ Redeemed(u) /\ call[t].auth = call[u].auth => t = u

(* what the answers say *)
AnswerInv ==
  /\ \A o \in Verdicts : o.request \in claimed
  /\ \A o, p \in Verdicts : o.request = p.request => o = p
  /\ \A o \in answers : o.decision = "ALLOW" =>
       o.holder /\ o.auth \in issued /\ o.auth.request = o.request
  /\ \A o \in Verdicts : o.decision # "ALLOW" => debits[o.request] = 0

(* the money *)
MoneyInv ==
  /\ \A r \in Requests : debits[r] \in {0, 1}
  /\ \A r \in Requests : debits[r] = 1 =>
       \E a \in usedAuths \cap issued : a.request = r
  /\ \A t \in Threads : call[t].step \in {"balance", "debit"} =>
       debits[call[t].request] = 0
  /\ \A t \in Threads : At(t, "debit") =>
       /\ call[t].request.agent \in DOMAIN InitialBalances
       /\ call[t].request.amount <= call[t].before
  /\ \A t \in Threads : At(t, "record") => debits[call[t].request] = 1
  /\ \A r \in baseline : debits[r] = 1

IInv == TypeOK /\ ClaimInv /\ IssueInv /\ HoldInv /\ AuthInv /\ AnswerInv /\ MoneyInv

-----------------------------------------------------------------------------
(* what a step that moves only thread t's call leaves to show *)
CallMoves(t, c) ==
  /\ call' \in [Threads -> Call]
  /\ call'[t] = c
  /\ \A u \in Threads : u # t => call'[u] = call[u]

LEMMA CallTyped ==
  ASSUME TypeOK, NEW t \in Threads
  PROVE  /\ call[t] \in Call
         /\ call[t].request \in Requests
         /\ call[t].observed \in 0..MaxTime
         /\ call[t].auth \in Authorizations \cup {NoAuthorization}
         /\ call[t].before \in Nat
  BY DEF TypeOK, Call

LEMMA AnyCallTyped == AnyCall \in Call
<1>1. (CHOOSE r \in Requests : TRUE) \in Requests BY GatewayAssumption
<1>2. 0 \in 0..MaxTime BY GatewayAssumption
<1> QED BY <1>1, <1>2 DEF AnyCall, Call, Steps, Modes

(***************************************************************************)
(* The pieces of IInv, so that a leaf cites only what it needs.            *)
(***************************************************************************)
LEMMA Pieces ==
  ASSUME IInv
  PROVE  /\ TypeOK /\ ClaimInv /\ IssueInv /\ HoldInv
         /\ AuthInv /\ AnswerInv /\ MoneyInv
  BY DEF IInv

LEMMA InitIInv == Init => IInv
<1> SUFFICES ASSUME Init PROVE IInv OBVIOUS
<1>0. AnyCall.step = "idle" /\ AnyCall.mode = "process" BY DEF AnyCall
<1>1. TypeOK
  BY AnyCallTyped, GatewayAssumption DEF Init, TypeOK
<1>2. \A t \in Threads : call[t].step = "idle" /\ call[t].mode = "process"
  BY <1>0 DEF Init
<1>3. ClaimInv /\ IssueInv BY DEF Init, ClaimInv, IssueInv
<1>4. HoldInv BY <1>2 DEF HoldInv, Holding, At
<1>5. AuthInv BY <1>2 DEF AuthInv, Holding, Bound, Redeemed
<1>6. AnswerInv BY DEF Init, AnswerInv, Verdicts
<1>7. MoneyInv BY <1>2 DEF Init, MoneyInv, At
<1> QED BY <1>1, <1>3, <1>4, <1>5, <1>6, <1>7 DEF IInv

-----------------------------------------------------------------------------
(* A call begins.  It holds nothing yet, so only types can be disturbed. *)
LEMMA EntryKeeps ==
  ASSUME IInv, NEW t \in Threads, NEW c \in Call,
         call' = [call EXCEPT ![t] = c],
         \/ c.step = "integrity" /\ c.mode # "wallet"
         \/ c.step = "guard" /\ c.mode = "wallet"
                             /\ c.auth \in Released \cup {NoAuthorization},
         UNCHANGED <<now, nonces, usedAuths, balances, baseline,
                     claimed, issued, debits, answers>>
  PROVE  IInv'
<1> USE Pieces
<1>0. CallMoves(t, c) BY DEF CallMoves, TypeOK
<1>1. TypeOK' BY <1>0 DEF CallMoves, TypeOK
<1>2. ClaimInv' /\ IssueInv' BY DEF ClaimInv, IssueInv
<1>3. HoldInv' BY <1>0 DEF CallMoves, HoldInv, Holding, Verdicts, At
<1>4. AuthInv' BY <1>0 DEF CallMoves, AuthInv, Holding, Bound, Redeemed, Released, At
<1>5. AnswerInv' BY DEF AnswerInv, Verdicts
<1>6. MoneyInv' BY <1>0 DEF CallMoves, MoneyInv, At
<1> QED BY <1>1, <1>2, <1>3, <1>4, <1>5, <1>6 DEF IInv

LEMMA BeginKeeps ==
  ASSUME IInv, NEW t \in Threads, NEW r \in Requests,
         NEW mode \in Modes, Begin(t, r, mode)
  PROVE  IInv'
<1> DEFINE c == [AnyCall EXCEPT !.step = "integrity", !.mode = mode,
                                !.request = r, !.observed = now]
<1>1. c \in Call /\ c.step = "integrity" /\ c.mode = mode
  BY AnyCallTyped, Pieces DEF Call, Steps, RaisingSteps, TypeOK
<1>2. mode # "wallet" BY DEF Begin
<1> QED BY <1>1, <1>2, EntryKeeps DEF Begin

LEMMA PresentKeeps ==
  ASSUME IInv, NEW t \in Threads, NEW r \in Requests,
         NEW a \in Released \cup {NoAuthorization}, Present(t, r, a)
  PROVE  IInv'
<1> DEFINE c == [AnyCall EXCEPT !.step = "guard", !.mode = "wallet",
                                !.request = r, !.auth = a]
<1>1. a \in Authorizations \cup {NoAuthorization}
  BY Pieces DEF Released, TypeOK, AnswerInv
<1>2. /\ c \in Call
      /\ c.step = "guard" /\ c.mode = "wallet" /\ c.auth = a
  BY <1>1, AnyCallTyped DEF Call, Steps, RaisingSteps, Modes
<1> QED BY <1>2, EntryKeeps DEF Present

LEMMA ConsumeNonceKeeps ==
  ASSUME IInv, NEW t \in Threads, ConsumeNonce(t) PROVE IInv'
<1> DEFINE r == call[t].request
<1> USE Pieces DEF ConsumeNonce
<1>a. r \in Requests /\ call[t] \in Call BY CallTyped
<1>0. CallMoves(t, [call[t] EXCEPT !.step = "decide"])
  BY <1>a DEF CallMoves, Advance, TypeOK, Call, Steps, RaisingSteps
<1>b. At(t, "integrity") /\ r \notin claimed BY DEF ClaimInv
<1>1. TypeOK' BY <1>a, <1>0 DEF CallMoves, TypeOK
<1>2. ClaimInv' BY <1>a DEF ClaimInv
<1>3. IssueInv' BY DEF IssueInv
<1>4. HoldInv'
  <2>1. \A o \in Verdicts : o.request # r BY <1>b DEF AnswerInv
  <2>2. \A a \in issued : a.request # r BY <1>b DEF IssueInv
  <2>3. debits[r] = 0 BY <1>a, <2>2 DEF MoneyInv
  <2>4. \A u \in Threads : Holding(u) => call[u].request # r
    BY <1>b DEF HoldInv
  <2>5. call[t].mode # "wallet" BY <1>b DEF HoldInv, At
  <2> QED
    BY <1>a, <1>0, <2>1, <2>2, <2>3, <2>4, <2>5
       DEF CallMoves, HoldInv, Holding, Verdicts, Call, At
<1>5. AuthInv'
  BY <1>a, <1>0
     DEF CallMoves, AuthInv, Holding, Bound, Redeemed, Released, Call, At
<1>6. AnswerInv' BY DEF AnswerInv, Verdicts
<1>7. MoneyInv' BY <1>a, <1>0 DEF CallMoves, MoneyInv, Call, At
<1> QED BY <1>1, <1>2, <1>3, <1>4, <1>5, <1>6, <1>7 DEF IInv

-----------------------------------------------------------------------------
(***************************************************************************)
(* A call ends in a refusal: no debit, no right issued; the stores may     *)
(* have grown.  The call answers with a verdict when it holds its pair.    *)
(***************************************************************************)
LEMMA RefusalKeeps ==
  ASSUME IInv, NEW t \in Threads, NEW d \in {"BLOCK", "REQUIRE_APPROVAL"},
         call[t].step \in RaisingSteps,
         Return(t, d, NoAuthorization, FALSE),
         nonces \subseteq nonces', nonces' \subseteq {Key(r) : r \in Requests},
         usedAuths \subseteq usedAuths', usedAuths' \subseteq issued,
         UNCHANGED <<now, balances, baseline, claimed, issued, debits>>
  PROVE  IInv'
<1> USE Pieces
<1> DEFINE r == call[t].request
           o == [request |-> r, decision |-> d,
                 holder |-> call[t].step # "integrity", settled |-> FALSE,
                 auth |-> NoAuthorization]
<1>a. call[t] \in Call /\ r \in Requests BY CallTyped
<1>0. CallMoves(t, AnyCall) BY AnyCallTyped DEF CallMoves, Return, TypeOK
<1>b. AnyCall.step = "idle" /\ AnyCall.mode = "process" BY DEF AnyCall
<1>c. \/ call[t].mode = "wallet" /\ answers' = answers
      \/ call[t].mode # "wallet" /\ answers' = answers \cup {o}
  BY DEF Return
<1>d. o \in Answer BY <1>a DEF Answer
<1>e. o.holder /\ call[t].mode # "wallet" => Holding(t)
  BY DEF Holding, RaisingSteps
<1>f. Holding(t) =>
        r \in claimed /\ debits[r] = 0 /\ \A p \in Verdicts : p.request # r
  BY DEF HoldInv, RaisingSteps
<1>g. Verdicts \subseteq Verdicts' /\ Verdicts' \subseteq Verdicts \cup {o}
  BY <1>c DEF Verdicts
<1>h. Released' = Released BY <1>c DEF Released
<1>1. TypeOK' BY <1>0, <1>c, <1>d DEF CallMoves, TypeOK, IssueInv
<1>2. ClaimInv' /\ IssueInv' BY DEF ClaimInv, IssueInv
<1>3. HoldInv'
  <2>1. \A u \in Threads : Holding(u)' => Holding(u) /\ call'[u] = call[u] /\ u # t
    BY <1>0, <1>b DEF CallMoves, Holding
  <2>2. \A u \in Threads : Holding(u)' =>
          \A p \in Verdicts' : p.request # call[u].request
    <3> SUFFICES ASSUME NEW u \in Threads, Holding(u)', NEW p \in Verdicts'
                 PROVE  p.request # call[u].request
      OBVIOUS
    <3>1. CASE p \in Verdicts BY <3>1, <2>1 DEF HoldInv
    <3>2. CASE p \notin Verdicts
      <4>1. p = o /\ o.holder /\ call[t].mode # "wallet"
        BY <3>2, <1>c, <1>g DEF Verdicts
      <4>2. Holding(t) /\ Holding(u) /\ u # t BY <4>1, <1>e, <2>1
      <4> QED BY <4>1, <4>2 DEF HoldInv
    <3> QED BY <3>1, <3>2
  <2> QED BY <1>0, <1>b, <2>1, <2>2 DEF CallMoves, HoldInv, At
<1>4. AuthInv'
  BY <1>0, <1>b, <1>h DEF CallMoves, AuthInv, Holding, Bound, Redeemed, At
<1>5. AnswerInv'
  <2>1. \A p \in answers' : p.decision = "ALLOW" => p \in answers BY <1>c
  <2>2. \A p \in Verdicts' : p = o => Holding(t) \/ o \in Verdicts
    BY <1>c, <1>e DEF Verdicts
  <2>3. \A p \in Verdicts' : p.request \in claimed BY <1>g, <1>f, <2>2 DEF AnswerInv
  <2>4. \A p, q \in Verdicts' : p.request = q.request => p = q
    <3>1. \A p \in Verdicts' : p = o \/ p \in Verdicts BY <1>g
    <3>2. Holding(t) => \A p \in Verdicts : p.request # o.request BY <1>f
    <3>3. \A p, q \in Verdicts : p.request = q.request => p = q BY DEF AnswerInv
    <3> HIDE DEF o
    <3> QED BY <3>1, <3>2, <3>3, <2>2
  <2>5. \A p \in Verdicts' : p.decision # "ALLOW" => debits[p.request] = 0
    BY <1>g, <1>f, <2>2 DEF AnswerInv
  <2> QED BY <2>1, <2>3, <2>4, <2>5 DEF AnswerInv
<1>6. MoneyInv' BY <1>0, <1>b DEF CallMoves, MoneyInv, At
<1> QED BY <1>1, <1>2, <1>3, <1>4, <1>5, <1>6 DEF IInv

LEMMA RefusalsKeep ==
  ASSUME IInv, NEW t \in Threads,
         \/ RejectExpired(t) \/ RejectReplayed(t)
         \/ \E signal \in {"CLEAN", "FLAG", "BLOCK"} :
              DecideBlock(t, signal) \/ Escalate(t, signal)
         \/ RejectAuthorization(t) \/ RejectReplayedAuthorization(t)
         \/ RejectFunds(t) \/ DependencyRaises(t)
  PROVE  IInv'
<1> USE Pieces, RefusalKeeps DEF Block, At, RaisingSteps
<1>a. nonces \subseteq {Key(r) : r \in Requests} /\ usedAuths \subseteq issued
  BY DEF TypeOK, IssueInv
<1>1. CASE RejectExpired(t) BY <1>1, <1>a DEF RejectExpired
<1>2. CASE RejectReplayed(t) BY <1>2, <1>a DEF RejectReplayed
<1>3. CASE \E signal \in {"CLEAN", "FLAG", "BLOCK"} : DecideBlock(t, signal)
  BY <1>3, <1>a DEF DecideBlock
<1>4. CASE \E signal \in {"CLEAN", "FLAG", "BLOCK"} : Escalate(t, signal)
  BY <1>4, <1>a DEF Escalate
<1>5. CASE RejectAuthorization(t) BY <1>5, <1>a DEF RejectAuthorization
<1>6. CASE RejectReplayedAuthorization(t)
  BY <1>6, <1>a DEF RejectReplayedAuthorization
<1>7. CASE RejectFunds(t) BY <1>7, <1>a DEF RejectFunds
<1>8. CASE DependencyRaises(t)
  <2>1. Key(call[t].request) \in {Key(r) : r \in Requests} BY CallTyped
  <2>2. At(t, "consume") => call[t].auth \in issued
    BY DEF AuthInv, Bound
  <2>3. nonces \subseteq nonces' /\ nonces' \subseteq {Key(r) : r \in Requests}
    BY <1>8, <1>a, <2>1 DEF DependencyRaises
  <2>4. usedAuths \subseteq usedAuths' /\ usedAuths' \subseteq issued
    BY <1>8, <1>a, <2>2 DEF DependencyRaises
  <2>5. call[t].step \in RaisingSteps BY <1>8, GatewayAssumption DEF DependencyRaises
  <2> QED BY <1>8, <2>3, <2>4, <2>5 DEF DependencyRaises
<1> QED BY <1>1, <1>2, <1>3, <1>4, <1>5, <1>6, <1>7, <1>8

-----------------------------------------------------------------------------
(* A call is authorized: it holds its pair and is still unanswered. *)
LEMMA AuthorizeKeeps ==
  ASSUME IInv, NEW t \in Threads, NEW signal \in {"CLEAN", "FLAG", "BLOCK"},
         Authorize(t, signal)
  PROVE  IInv'
<1> USE Pieces
<1> DEFINE r == call[t].request
           x == Authorization(t)
<1>a. call[t] \in Call /\ r \in Requests BY CallTyped
<1>b. /\ At(t, "decide") /\ PolicyAllows(r)
      /\ issued' = issued \cup {x}
      /\ UNCHANGED <<now, nonces, usedAuths, balances, baseline, claimed, debits>>
  BY DEF Authorize
<1>c. /\ x \in Authorizations /\ x.request = r /\ x.issued < r.expires
  BY <1>a, <1>b, CallTyped DEF Authorization, Authorizations, HoldInv
<1>d. /\ Holding(t) /\ r \in claimed /\ debits[r] = 0
      /\ \A p \in Verdicts : p.request # r
      /\ \A a \in issued : a.request # r
      /\ call[t].mode # "wallet"
  BY <1>b DEF HoldInv, Holding, At
<1>2. ClaimInv' /\ IssueInv' BY <1>b, <1>c, <1>d DEF ClaimInv, IssueInv, PolicyAllows
<1>3. CASE call[t].mode = "process"
  <2> DEFINE c == [call[t] EXCEPT !.step = "guard", !.auth = x]
  <2>a. call' = [call EXCEPT ![t] = c] /\ answers' = answers BY <1>3 DEF Authorize
  <2> HIDE DEF x
  <2>b. /\ c \in Call /\ c.step = "guard" /\ c.auth = x
        /\ c.request = r /\ c.mode = "process" /\ c.observed = call[t].observed
    BY <1>a, <1>c, <1>3 DEF Call, Steps, RaisingSteps
  <2> HIDE DEF c
  <2>0. CallMoves(t, c) /\ answers' = answers
    BY <2>a, <2>b DEF CallMoves, TypeOK
  <2>1. TypeOK' BY <2>0, <1>b, <1>c DEF CallMoves, TypeOK
  <2> USE <2>b
  <2>2. HoldInv'
    BY <2>0, <1>a, <1>b, <1>c, <1>d DEF CallMoves, HoldInv, Holding, Verdicts, At, Call
  <2>3. AuthInv'
    BY <2>0, <1>3, <1>a, <1>b, <1>c
       DEF CallMoves, AuthInv, Holding, Bound, Redeemed, Released, At, Call
  <2>4. AnswerInv' BY <2>0, <1>b DEF AnswerInv, Verdicts
  <2>5. MoneyInv' BY <2>0, <1>a, <1>b, <1>d DEF CallMoves, MoneyInv, At, Call
  <2> QED BY <1>2, <2>1, <2>2, <2>3, <2>4, <2>5 DEF IInv
<1>4. CASE call[t].mode = "evaluate"
  <2> DEFINE o == [request |-> r, decision |-> "ALLOW", holder |-> TRUE,
                   settled |-> FALSE, auth |-> x]
  <2>0. CallMoves(t, AnyCall) /\ answers' = answers \cup {o}
    BY <1>4, <1>b, AnyCallTyped DEF CallMoves, Authorize, Return, TypeOK, At
  <2>a. AnyCall.step = "idle" /\ AnyCall.mode = "process" BY DEF AnyCall
  <2>b. Verdicts' = Verdicts \cup {o} /\ Released' = Released \cup {x}
    <3>1. o.holder /\ o.decision = "ALLOW" /\ o.auth = x OBVIOUS
    <3> HIDE DEF o, x
    <3> QED BY <2>0, <3>1 DEF Verdicts, Released
  <2>1. TypeOK'
    <3>1. o \in Answer BY <1>a, <1>c DEF Answer
    <3> HIDE DEF o, x
    <3> QED BY <2>0, <3>1, <1>b, <1>c DEF CallMoves, TypeOK
  <2>2. HoldInv'
    <3>1. \A u \in Threads : Holding(u)' => Holding(u) /\ call'[u] = call[u] /\ u # t
      BY <2>0, <2>a DEF CallMoves, Holding
    <3>2. \A u \in Threads : Holding(u)' => call[u].request # r
      BY <3>1, <1>d DEF HoldInv
    <3>3. \A u \in Threads : Holding(u)' =>
            \A p \in Verdicts' : p.request # call[u].request
      BY <3>1, <3>2, <2>b DEF HoldInv
    <3>4. \A u \in Threads : At(u, "decide")' => u # t /\ Holding(u)'
      BY <2>0, <2>a DEF CallMoves, At, Holding, HoldInv
    <3>5. \A u \in Threads : At(u, "decide")' => \A a \in issued' : a.request # call[u].request
      BY <2>0, <3>4, <3>2, <1>b, <1>c DEF CallMoves, At, HoldInv
    <3> QED BY <2>0, <2>a, <1>b, <3>1, <3>3, <3>5 DEF CallMoves, HoldInv, At
  <2>3. AuthInv'
    BY <2>0, <2>a, <2>b, <1>b DEF CallMoves, AuthInv, Holding, Bound, Redeemed, At
  <2>4. AnswerInv'
    <3>1. o.request = r /\ o.decision = "ALLOW" /\ o.holder /\ o.auth = x OBVIOUS
    <3> HIDE DEF o
    <3> QED BY <3>1, <2>0, <2>b, <1>b, <1>c, <1>d DEF AnswerInv
  <2>5. MoneyInv' BY <2>0, <2>a, <1>b DEF CallMoves, MoneyInv, At
  <2> QED BY <1>2, <2>1, <2>2, <2>3, <2>4, <2>5 DEF IInv
<1> QED BY <1>3, <1>4 DEF Authorize

-----------------------------------------------------------------------------
LEMMA PassGuardKeeps ==
  ASSUME IInv, NEW t \in Threads, PassGuard(t) PROVE IInv'
<1> USE Pieces DEF PassGuard
<1>a. call[t] \in Call /\ At(t, "guard") BY CallTyped
<1>0. CallMoves(t, [call[t] EXCEPT !.step = "consume"])
  BY <1>a DEF CallMoves, Advance, TypeOK, Call, Steps, RaisingSteps
<1>b. call[t].auth \in issued /\ call[t].auth.request = call[t].request
  <2>1. call[t].auth # NoAuthorization /\ call[t].auth.request = call[t].request
    BY DEF Acceptable
  <2>2. Released \subseteq issued BY DEF Released, AnswerInv
  <2>3. CASE call[t].mode = "wallet" BY <2>1, <2>2, <2>3 DEF AuthInv
  <2>4. CASE call[t].mode # "wallet"
    BY <2>4, <1>a DEF AuthInv, Holding, At
  <2> QED BY <2>1, <2>3, <2>4
<1>1. TypeOK' BY <1>a, <1>0 DEF CallMoves, TypeOK
<1>2. ClaimInv' /\ IssueInv' BY DEF ClaimInv, IssueInv
<1>3. HoldInv' BY <1>a, <1>0 DEF CallMoves, HoldInv, Holding, Verdicts, At, Call
<1>4. AuthInv'
  BY <1>a, <1>0, <1>b
     DEF CallMoves, AuthInv, Holding, Bound, Redeemed, Released, At, Call
<1>5. AnswerInv' BY DEF AnswerInv, Verdicts
<1>6. MoneyInv' BY <1>a, <1>0 DEF CallMoves, MoneyInv, At, Call
<1> QED BY <1>1, <1>2, <1>3, <1>4, <1>5, <1>6 DEF IInv

(* A call in settlement works for a request whose only verdict can be ALLOW. *)
LEMMA BoundNotRefused ==
  ASSUME IInv, NEW t \in Threads, Bound(t)
  PROVE  \A o \in Verdicts : o.request = call[t].request => o.decision = "ALLOW"
<1> USE Pieces
<1>1. call[t].auth \in issued /\ call[t].auth.request = call[t].request
  BY DEF AuthInv
<1>2. CASE call[t].mode # "wallet" BY <1>2 DEF HoldInv, Holding, Bound
<1>3. CASE call[t].mode = "wallet"
  <2>1. call[t].auth \in Released
    BY <1>1, <1>3, GatewayAssumption DEF AuthInv, TypeOK
  <2>2. PICK p \in answers : p.decision = "ALLOW" /\ p.auth = call[t].auth
    BY <2>1 DEF Released
  <2>3. p \in Verdicts /\ p.request = call[t].request
    BY <2>2, <1>1 DEF AnswerInv, Verdicts
  <2> QED BY <2>2, <2>3 DEF AnswerInv
<1> QED BY <1>2, <1>3

(* Of the calls for one request, only one is past the consumption. *)
LEMMA BoundNotHeldByOther ==
  ASSUME IInv, NEW t \in Threads, NEW u \in Threads, t # u,
         Bound(t), Holding(u)
  PROVE  call[t].request # call[u].request
<1> USE Pieces
<1>1. CASE call[t].mode # "wallet" BY <1>1 DEF HoldInv, Holding, Bound
<1>2. CASE call[t].mode = "wallet"
  <2>1. call[t].auth \in Released /\ call[t].auth.request = call[t].request
    BY <1>2, GatewayAssumption DEF AuthInv, TypeOK
  <2>2. PICK p \in answers : p.decision = "ALLOW" /\ p.auth = call[t].auth
    BY <2>1 DEF Released
  <2>3. p \in Verdicts /\ p.request = call[t].request
    BY <2>1, <2>2 DEF AnswerInv, Verdicts
  <2> QED BY <2>3 DEF HoldInv
<1> QED BY <1>1, <1>2

LEMMA ConsumeAuthorizationKeeps ==
  ASSUME IInv, NEW t \in Threads, ConsumeAuthorization(t) PROVE IInv'
<1> USE Pieces DEF ConsumeAuthorization
<1> DEFINE r == call[t].request
           a == call[t].auth
<1>a. call[t] \in Call /\ At(t, "consume") /\ Bound(t) BY CallTyped DEF At, Bound
<1>0. CallMoves(t, [call[t] EXCEPT !.step = "balance"])
  BY <1>a DEF CallMoves, Advance, TypeOK, Call, Steps, RaisingSteps
<1>b. a \in issued /\ a.request = r /\ r \in Requests BY <1>a, CallTyped DEF AuthInv
<1>c. debits[r] = 0
  <2>1. \A b \in usedAuths \cap issued : b.request # r BY <1>b DEF IssueInv
  <2> QED BY <2>1, <1>b DEF MoneyInv
<1>d. \A u \in Threads : Redeemed(u) => call[u].auth # a BY DEF AuthInv
<1>1. TypeOK' BY <1>0, <1>b DEF CallMoves, TypeOK
<1>2. ClaimInv' /\ IssueInv' BY <1>b DEF ClaimInv, IssueInv
<1>3. HoldInv' BY <1>a, <1>0 DEF CallMoves, HoldInv, Holding, Verdicts, At, Call
<1>4. AuthInv'
  BY <1>a, <1>0, <1>b, <1>d
     DEF CallMoves, AuthInv, Holding, Bound, Redeemed, Released, At, Call
<1>5. AnswerInv' BY DEF AnswerInv, Verdicts
<1>6. MoneyInv' BY <1>a, <1>0, <1>c DEF CallMoves, MoneyInv, At, Call
<1> QED BY <1>1, <1>2, <1>3, <1>4, <1>5, <1>6 DEF IInv

LEMMA ReadBalanceKeeps ==
  ASSUME IInv, NEW t \in Threads, ReadBalance(t) PROVE IInv'
<1> USE Pieces DEF ReadBalance
<1> DEFINE r == call[t].request
           c == [call[t] EXCEPT !.step = "debit", !.before = balances[r.agent]]
<1>a. call[t] \in Call /\ At(t, "balance") BY CallTyped
<1>b. balances[r.agent] \in Nat /\ r.agent \in DOMAIN InitialBalances
      /\ r.amount <= balances[r.agent]
  BY DEF Covers, TypeOK
<1>c. call' = [call EXCEPT ![t] = c] BY <1>a DEF TypeOK
<1>d. /\ c \in Call /\ c.step = "debit" /\ c.before = balances[r.agent]
      /\ c.request = r /\ c.mode = call[t].mode /\ c.auth = call[t].auth
      /\ c.observed = call[t].observed
  BY <1>a, <1>b DEF Call, Steps
<1> HIDE DEF c
<1>0. CallMoves(t, c) BY <1>c, <1>d DEF CallMoves, TypeOK
<1>1. TypeOK' BY <1>0 DEF CallMoves, TypeOK
<1>2. ClaimInv' /\ IssueInv' BY DEF ClaimInv, IssueInv
<1>3. HoldInv' BY <1>a, <1>0, <1>d DEF CallMoves, HoldInv, Holding, Verdicts, At
<1>4. AuthInv'
  BY <1>a, <1>0, <1>d
     DEF CallMoves, AuthInv, Holding, Bound, Redeemed, Released, At
<1>5. AnswerInv' BY DEF AnswerInv, Verdicts
<1>6. MoneyInv' BY <1>a, <1>0, <1>b, <1>d DEF CallMoves, MoneyInv, At
<1> QED BY <1>1, <1>2, <1>3, <1>4, <1>5, <1>6 DEF IInv

(* The money of a request moves: nobody else stands before the same debit. *)
LEMMA DebitKeeps ==
  ASSUME IInv, NEW t \in Threads, Debit(t) PROVE IInv'
<1> USE Pieces DEF Debit
<1> DEFINE r == call[t].request
<1>a. /\ call[t] \in Call /\ r \in Requests /\ At(t, "debit")
      /\ Bound(t) /\ Redeemed(t)
  BY CallTyped DEF Bound, Redeemed, At
<1>b. r.agent \in DOMAIN InitialBalances /\ r.amount <= call[t].before
      /\ debits[r] = 0
  BY <1>a DEF MoneyInv, At
<1>c. call[t].before - r.amount \in Nat
  BY <1>a, <1>b, CallTyped, GatewayAssumption
<1>0. CallMoves(t, [call[t] EXCEPT !.step = "record"])
  BY <1>a DEF CallMoves, Advance, TypeOK, Call, Steps
<1>d. /\ debits' \in [Requests -> Nat] /\ debits'[r] = 1
      /\ \A q \in Requests : q # r => debits'[q] = debits[q]
  BY <1>a, <1>b DEF TypeOK
<1>e. call[t].auth \in usedAuths \cap issued /\ call[t].auth.request = r
  BY <1>a DEF AuthInv
<1>f. \A u \in Threads : Holding(u) /\ u # t => call[u].request # r
  BY <1>a, BoundNotHeldByOther
<1>g. \A u \in Threads : Redeemed(u) /\ u # t => call[u].request # r
  BY <1>a, <1>e DEF AuthInv, IssueInv, Redeemed, Bound
<1>1. TypeOK' BY <1>0, <1>c, <1>d DEF CallMoves, TypeOK, IssueInv
<1>2. ClaimInv' /\ IssueInv' BY DEF ClaimInv, IssueInv
<1>3. HoldInv'
  <2>1. \A u \in Threads : u # t /\ Holding(u) =>
          (call[u].step # "record" => debits'[call[u].request] = 0)
    BY <1>d, <1>f, CallTyped DEF HoldInv
  <2> QED BY <2>1, <1>a, <1>0 DEF CallMoves, HoldInv, Holding, Verdicts, At, Call
<1>4. AuthInv'
  BY <1>a, <1>0 DEF CallMoves, AuthInv, Holding, Bound, Redeemed, Released, At, Call
<1>5. AnswerInv'
  BY <1>a, <1>d, BoundNotRefused DEF AnswerInv, Verdicts, TypeOK
<1>6. MoneyInv'
  <2>1. \A q \in Requests : debits'[q] \in {0, 1} BY <1>d DEF MoneyInv
  <2>2. \A q \in Requests : debits'[q] = 1 =>
          \E a \in usedAuths \cap issued : a.request = q
    BY <1>d, <1>e DEF MoneyInv
  <2>3. \A u \in Threads : u # t /\ Redeemed(u) =>
          debits'[call[u].request] = debits[call[u].request]
    BY <1>d, <1>g, CallTyped
  <2>4. \A u \in Threads : u # t /\ call[u].step \in {"balance", "debit"} =>
          debits'[call[u].request] = 0
    BY <2>3 DEF MoneyInv, Redeemed
  <2>5. \A u \in Threads : u # t /\ At(u, "record") => debits'[call[u].request] = 1
    BY <2>3 DEF MoneyInv, Redeemed, At
  <2>6. \A q \in baseline : debits'[q] = 1 BY <1>d DEF MoneyInv, TypeOK
  <2> QED
    BY <2>1, <2>2, <2>4, <2>5, <2>6, <1>0, <1>a, <1>d
       DEF CallMoves, MoneyInv, At, Call
<1> QED BY <1>1, <1>2, <1>3, <1>4, <1>5, <1>6 DEF IInv

LEMMA RecordAllowedKeeps ==
  ASSUME IInv, NEW t \in Threads, RecordAllowed(t) PROVE IInv'
<1> USE Pieces DEF RecordAllowed
<1> DEFINE r == call[t].request
           x == call[t].auth
           o == [request |-> r, decision |-> "ALLOW", holder |-> TRUE,
                 settled |-> TRUE, auth |-> x]
<1>a. /\ call[t] \in Call /\ r \in Requests /\ At(t, "record")
      /\ x \in issued /\ x.request = r /\ debits[r] = 1
  BY CallTyped DEF AuthInv, MoneyInv, Bound, At
<1>0. CallMoves(t, AnyCall) BY AnyCallTyped DEF CallMoves, Return, TypeOK
<1>b. AnyCall.step = "idle" /\ AnyCall.mode = "process" BY DEF AnyCall
<1>c. \/ call[t].mode = "wallet" /\ answers' = answers
      \/ Holding(t) /\ answers' = answers \cup {o}
  BY <1>a DEF Return, Holding, At
<1>d. Holding(t) => r \in claimed /\ \A p \in Verdicts : p.request # r
  BY DEF HoldInv
<1>e. /\ o.request = r /\ o.decision = "ALLOW" /\ o.holder /\ o.auth = x
      /\ o \in Answer
  BY <1>a DEF Answer, TypeOK
<1> HIDE DEF o
<1>f. \A p \in Verdicts' : p \in Verdicts \/ (p = o /\ Holding(t))
  BY <1>c DEF Verdicts
<1>g. Released \subseteq Released' BY <1>c DEF Released
<1>1. TypeOK' BY <1>0, <1>a, <1>c, <1>e DEF CallMoves, TypeOK
<1>2. ClaimInv' /\ IssueInv' BY DEF ClaimInv, IssueInv
<1>3. HoldInv'
  <2>1. \A u \in Threads : Holding(u)' => Holding(u) /\ call'[u] = call[u] /\ u # t
    BY <1>0, <1>b DEF CallMoves, Holding
  <2>2. \A u \in Threads : Holding(u)' =>
          \A p \in Verdicts' : p.request # call[u].request
    BY <2>1, <1>f, <1>e DEF HoldInv
  <2> QED BY <1>0, <1>b, <2>1, <2>2 DEF CallMoves, HoldInv, At
<1>4. AuthInv'
  BY <1>0, <1>b, <1>g DEF CallMoves, AuthInv, Holding, Bound, Redeemed, At
<1>5. AnswerInv'
  <2>1. \A p \in answers' : p \in answers \/ p = o BY <1>c
  <2>2. \A p, q \in Verdicts' : p.request = q.request => p = q
    BY <1>f, <1>d, <1>e DEF AnswerInv
  <2> QED BY <2>1, <2>2, <1>a, <1>f, <1>d, <1>e DEF AnswerInv
<1>6. MoneyInv' BY <1>0, <1>a, <1>b DEF CallMoves, MoneyInv, At
<1> QED BY <1>1, <1>2, <1>3, <1>4, <1>5, <1>6 DEF IInv

LEMMA TickKeeps ==
  ASSUME IInv, UNCHANGED <<nonces, usedAuths, balances, baseline, call,
                           claimed, issued, debits, answers>>, now' \in 0..MaxTime
  PROVE  IInv'
<1> USE Pieces
<1>1. TypeOK' BY DEF TypeOK
<1>2. ClaimInv' /\ IssueInv' BY DEF ClaimInv, IssueInv
<1>3. HoldInv' BY DEF HoldInv, Holding, Verdicts, At
<1>4. AuthInv' BY DEF AuthInv, Holding, Bound, Redeemed, Released, At
<1>5. AnswerInv' BY DEF AnswerInv, Verdicts
<1>6. MoneyInv' BY DEF MoneyInv, At
<1> QED BY <1>1, <1>2, <1>3, <1>4, <1>5, <1>6 DEF IInv

-----------------------------------------------------------------------------
(* The invariant is inductive: every action of every thread preserves it. *)
LEMMA NextIInv == IInv /\ [Next]_vars => IInv'
<1> SUFFICES ASSUME IInv, [Next]_vars PROVE IInv' OBVIOUS
<1>1. CASE UNCHANGED vars BY <1>1, TickKeeps DEF vars, IInv, TypeOK
<1>2. CASE Tick
  BY <1>2, TickKeeps, GatewayAssumption DEF Tick, IInv, TypeOK
<1>3. ASSUME NEW t \in Threads, Enter(t) PROVE IInv'
  <2>1. ASSUME NEW r \in Requests, NEW mode \in {"process", "evaluate"}, Begin(t, r, mode)
        PROVE  IInv'
    BY <2>1, BeginKeeps DEF Modes
  <2>2. ASSUME NEW r \in Requests, NEW a \in Released \cup {NoAuthorization},
               Present(t, r, a)
        PROVE  IInv'
    BY <2>2, PresentKeeps
  <2> QED BY <1>3, <2>1, <2>2 DEF Enter
<1>4. ASSUME NEW t \in Threads, Continue(t) PROVE IInv'
  <2>1. CASE \E signal \in {"CLEAN", "FLAG", "BLOCK"} : Authorize(t, signal)
    BY <2>1, AuthorizeKeeps
  <2>2. CASE ConsumeNonce(t) BY <2>2, ConsumeNonceKeeps
  <2>3. CASE PassGuard(t) BY <2>3, PassGuardKeeps
  <2>4. CASE ConsumeAuthorization(t) BY <2>4, ConsumeAuthorizationKeeps
  <2>5. CASE ReadBalance(t) BY <2>5, ReadBalanceKeeps
  <2>6. CASE Debit(t) BY <2>6, DebitKeeps
  <2>7. CASE RecordAllowed(t) BY <2>7, RecordAllowedKeeps
  <2> QED
    BY <1>4, <2>1, <2>2, <2>3, <2>4, <2>5, <2>6, <2>7, RefusalsKeep DEF Continue
<1> QED BY <1>1, <1>2, <1>3, <1>4 DEF Next

LEMMA Inductive == Spec => []IInv
BY InitIInv, NextIInv, PTL DEF Spec

(***************************************************************************)
(* Type correctness: in particular no balance ever becomes negative, in    *)
(* any interleaving of settlements (simulation.py:98).                     *)
(***************************************************************************)
THEOREM TypeCorrect == Spec => []TypeOK
<1>1. IInv => TypeOK BY DEF IInv
<1> QED BY <1>1, Inductive, PTL

(***************************************************************************)
(* One (agent, nonce) pair moves money at most once.                       *)
(***************************************************************************)
THEOREM PairPaidOnce == Spec => []PaidOncePerPair
<1>1. IInv => PaidOncePerPair
  <2> SUFFICES ASSUME IInv, NEW q \in Requests, NEW r \in Requests,
                      Key(q) = Key(r), debits[q] > 0, debits[r] > 0
               PROVE  q = r /\ debits[r] = 1
    BY DEF PaidOncePerPair
  <2>1. debits[q] = 1 /\ debits[r] = 1 BY Pieces DEF MoneyInv
  <2>2. q \in claimed /\ r \in claimed BY <2>1, Pieces DEF MoneyInv, IssueInv
  <2> QED BY <2>1, <2>2, Pieces DEF ClaimInv
<1> QED BY <1>1, Inductive, PTL

(***************************************************************************)
(* One (agent, nonce) pair gets one verdict.                               *)
(***************************************************************************)
THEOREM PairJudgedOnce == Spec => []OneVerdictPerPair
<1>1. IInv => OneVerdictPerPair
  <2> SUFFICES ASSUME IInv, NEW o \in Verdicts, NEW p \in Verdicts,
                      Key(o.request) = Key(p.request)
               PROVE  o = p
    BY DEF OneVerdictPerPair, Verdicts
  <2>1. o.request = p.request BY Pieces DEF AnswerInv, ClaimInv
  <2> QED BY <2>1, Pieces DEF AnswerInv
<1> QED BY <1>1, Inductive, PTL

(***************************************************************************)
(* A refusal is final for its pair.                                        *)
(***************************************************************************)
THEOREM RefusalIsFinal == Spec => []RefusedNeverPaid
<1>1. IInv => RefusedNeverPaid
  <2> SUFFICES ASSUME IInv, NEW o \in Verdicts, NEW r \in Requests,
                      o.decision # "ALLOW", Key(o.request) = Key(r)
               PROVE  debits[r] = 0
    BY DEF RefusedNeverPaid, Verdicts
  <2> USE Pieces
  <2>1. CASE r \in claimed
    <3>1. o.request = r BY <2>1 DEF AnswerInv, ClaimInv
    <3> QED BY <3>1 DEF AnswerInv
  <2>2. CASE r \notin claimed
    <3>1. \A a \in issued : a.request # r BY <2>2 DEF IssueInv
    <3> QED BY <3>1 DEF MoneyInv
  <2> QED BY <2>1, <2>2
<1> QED BY <1>1, Inductive, PTL

(* The code's policy decision never permits what the owner's lists forbid. *)
LEMMA PolicyHonoursOwner ==
  ASSUME NEW r \in Requests, PolicyAllows(r) PROVE OwnerPermits(r)
BY GatewayAssumption, PolicyAssumption DEF PolicyAllows, OwnerPermits, OpenTo

(***************************************************************************)
(* Money that moved has its papers.                                        *)
(***************************************************************************)
THEOREM PapersBehindMoney == Spec => []PaidWithPapers
<1>1. IInv => PaidWithPapers
  <2> SUFFICES ASSUME IInv, NEW r \in Requests, debits[r] > 0
               PROVE  /\ OwnerPermits(r)
                      /\ \E a \in usedAuths \cap issued :
                           a.request = r /\ a.issued < r.expires
    BY DEF PaidWithPapers
  <2>1. debits[r] = 1 BY Pieces DEF MoneyInv
  <2>2. PICK a \in usedAuths \cap issued : a.request = r
    BY <2>1, Pieces DEF MoneyInv
  <2> QED BY <2>2, Pieces, PolicyHonoursOwner DEF IssueInv
<1> QED BY <1>1, Inductive, PTL

(***************************************************************************)
(* The behaviour engine learns from paid requests only.                    *)
(***************************************************************************)
THEOREM BaselineIsPaid == Spec => []BaselineOnlyFromPaid
<1>1. IInv => BaselineOnlyFromPaid BY Pieces DEF BaselineOnlyFromPaid, MoneyInv
<1> QED BY <1>1, Inductive, PTL

-----------------------------------------------------------------------------
(***************************************************************************)
(* The refinement.  Each history variable of Gateway is one link of the    *)
(* abstract chain: consuming a nonce is Claim, creating an authorization   *)
(* is Authorize, consuming it is Redeem, the balance write is Pay, and     *)
(* every other step leaves the chain alone.                                *)
(***************************************************************************)
authorizedBar == {a.request : a \in issued}
redeemedBar == {a.request : a \in usedAuths}

LEMMA InitRefines == Init => Abstract!Init
BY DEF Init, Abstract!Init

LEMMA QuietRefines ==
  ASSUME UNCHANGED <<claimed, issued, usedAuths, debits>>
  PROVE  UNCHANGED Abstract!vars
BY DEF Abstract!vars

LEMMA ClaimRefines ==
  ASSUME IInv, NEW t \in Threads, ConsumeNonce(t)
  PROVE  Abstract!Next
<1>1. call[t].request \in Requests BY Pieces, CallTyped
<1> QED BY <1>1, Pieces DEF ConsumeNonce, ClaimInv, Abstract!Next, Abstract!Claim

LEMMA AuthorizeRefines ==
  ASSUME IInv, NEW t \in Threads, NEW signal \in {"CLEAN", "FLAG", "BLOCK"},
         Authorize(t, signal)
  PROVE  Abstract!Next
<1> USE Pieces
<1> DEFINE r == call[t].request
<1>1. /\ At(t, "decide") /\ PolicyAllows(r)
      /\ issued' = issued \cup {Authorization(t)}
      /\ UNCHANGED <<claimed, usedAuths, debits>>
  BY DEF Authorize
<1>2. Authorization(t).request = r BY DEF Authorization
<1>3. r \in claimed /\ r \notin authorizedBar
  BY <1>1 DEF HoldInv, Holding, At, authorizedBar
<1>4. OwnerPermits(r) BY <1>1, CallTyped, PolicyHonoursOwner
<1>5. authorizedBar' = authorizedBar \cup {r} BY <1>1, <1>2 DEF authorizedBar
<1>6. r \in Requests BY CallTyped
<1> QED
  BY <1>1, <1>3, <1>4, <1>5, <1>6
     DEF Abstract!Next, Abstract!Authorize, authorizedBar

(* Consuming an authorization redeems its request, and only once. *)
LEMMA RedeemRefines ==
  ASSUME IInv, NEW t \in Threads, call[t].step = "consume",
         usedAuths' = usedAuths \cup {call[t].auth}, call[t].auth \notin usedAuths,
         UNCHANGED <<claimed, issued, debits>>
  PROVE  Abstract!Next
<1> USE Pieces
<1> DEFINE r == call[t].request
<1>1. call[t].auth \in issued /\ call[t].auth.request = r
  BY DEF AuthInv, Bound
<1>2. r \in authorizedBar /\ r \notin redeemedBar
  BY <1>1 DEF authorizedBar, redeemedBar, IssueInv
<1>3. redeemedBar' = redeemedBar \cup {r} BY <1>1 DEF redeemedBar
<1>4. r \in Requests BY CallTyped
<1> QED
  BY <1>2, <1>3, <1>4 DEF Abstract!Next, Abstract!Redeem, authorizedBar, redeemedBar

LEMMA DebitRefines ==
  ASSUME IInv, NEW t \in Threads, Debit(t)
  PROVE  Abstract!Next
<1> USE Pieces
<1> DEFINE r == call[t].request
<1>1. call[t].step = "debit" /\ r \in Requests BY CallTyped DEF Debit, At
<1>2. call[t].auth \in usedAuths /\ call[t].auth.request = r
  BY <1>1 DEF AuthInv, Bound, Redeemed
<1>3. r \in redeemedBar BY <1>2 DEF redeemedBar
<1>4. debits[r] = 0 BY <1>1 DEF MoneyInv
<1>5. debits' = [debits EXCEPT ![r] = 1] BY <1>1, <1>4 DEF Debit, TypeOK
<1> QED BY <1>1, <1>3, <1>4, <1>5 DEF Debit, Abstract!Next, Abstract!Pay, redeemedBar

LEMMA NextRefines ==
  ASSUME IInv, [Next]_vars PROVE [Abstract!Next]_(Abstract!vars)
<1> DEFINE Quiet == UNCHANGED <<claimed, issued, usedAuths, debits>>
<1>1. CASE UNCHANGED vars BY <1>1, QuietRefines DEF vars
<1>2. CASE Tick BY <1>2, QuietRefines DEF Tick
<1>3. ASSUME NEW t \in Threads, Enter(t) PROVE UNCHANGED Abstract!vars
  BY <1>3, QuietRefines DEF Enter, Begin, Present
<1>4. ASSUME NEW t \in Threads, Continue(t) PROVE [Abstract!Next]_(Abstract!vars)
  <2>1. CASE ConsumeNonce(t) BY <2>1, ClaimRefines
  <2>2. CASE \E signal \in {"CLEAN", "FLAG", "BLOCK"} : Authorize(t, signal)
    BY <2>2, AuthorizeRefines
  <2>3. CASE ConsumeAuthorization(t)
    BY <2>3, RedeemRefines DEF ConsumeAuthorization, At
  <2>4. CASE Debit(t) BY <2>4, DebitRefines
  <2>5. CASE DependencyRaises(t)
    <3>1. UNCHANGED <<claimed, issued, debits>> BY <2>5 DEF DependencyRaises
    <3>2. CASE usedAuths' = usedAuths BY <3>1, <3>2, QuietRefines
    <3>3. CASE usedAuths' # usedAuths
      <4>1. /\ call[t].step = "consume"
            /\ usedAuths' = usedAuths \cup {call[t].auth}
            /\ call[t].auth \notin usedAuths
        BY <2>5, <3>3 DEF DependencyRaises, At
      <4> QED BY <3>1, <4>1, RedeemRefines
    <3> QED BY <3>2, <3>3
  <2>6. CASE Quiet BY <2>6, QuietRefines
  <2> QED
    BY <1>4, <2>1, <2>2, <2>3, <2>4, <2>5, <2>6
       DEF Continue, RejectExpired, RejectReplayed, DecideBlock, Escalate,
           RejectAuthorization, PassGuard, RejectReplayedAuthorization,
           RejectFunds, ReadBalance, RecordAllowed
<1> QED BY <1>1, <1>2, <1>3, <1>4 DEF Next

(***************************************************************************)
(* Gateway implements PaymentSafety.                                       *)
(***************************************************************************)
THEOREM GatewayImplementsChain == Spec => ChainOfRights
<1>1. Init => Abstract!Init BY InitRefines
<1>2. IInv /\ [Next]_vars => [Abstract!Next]_(Abstract!vars) BY NextRefines
<1> QED BY <1>1, <1>2, Inductive, PTL DEF Spec, ChainOfRights, Abstract!Spec

-----------------------------------------------------------------------------
(***************************************************************************)
(* The books.  What the payments of a finite set of requests cost is a     *)
(* fold; its recursion is unfolded here, by induction over the subsets of  *)
(* the set, once for all.                                                  *)
(***************************************************************************)

(* A family of subsets of a finite set that contains the empty set, and    *)
(* every other set whose subsets with one element less it contains,        *)
(* contains all of them.                                                   *)
LEMMA FiniteInduction ==
  ASSUME NEW S, IsFiniteSet(S), NEW family,
         \A A \in SUBSET S : (\A x \in A : A \ {x} \in family) => A \in family
  PROVE  \A A \in SUBSET S : A \in family
<1> DEFINE bad == (SUBSET S) \ family
<1>1. SUFFICES ASSUME bad # {}
               PROVE  FALSE
  OBVIOUS
<1>2. bad \subseteq FiniteSubsetsOf(S)
  BY FS_Subset DEF FiniteSubsetsOf
<1>3. IsWellFoundedOn(StrictSubsetOrdering(S), FiniteSubsetsOf(S))
  BY FS_StrictSubsetOrderingWellFounded
<1>4. \E A \in bad : \A B \in bad : <<B, A>> \notin StrictSubsetOrdering(S)
  <2> HIDE DEF bad
  <2> QED
    BY <1>1, <1>2, <1>3, WFMin
<1>5. PICK A \in bad : \A B \in bad : <<B, A>> \notin StrictSubsetOrdering(S)
  BY <1>4
<1>6. \A x \in A : A \ {x} \in family
  <2> SUFFICES ASSUME NEW x \in A, A \ {x} \notin family
               PROVE  FALSE
    OBVIOUS
  <2>1. A \ {x} \in bad
    OBVIOUS
  <2>2. A \ {x} \in SUBSET S /\ A \in SUBSET S /\ A \ {x} \subseteq A /\ A \ {x} # A
    OBVIOUS
  <2>3. <<A \ {x}, A>> \in StrictSubsetOrdering(S)
    BY <2>2, Zenon DEF StrictSubsetOrdering
  <2>4. QED
    BY <1>5, <2>1, <2>3
<1>7. QED
  BY <1>6

Pick(s) == CHOOSE x \in s : TRUE

Cost(d, r) == d[r] * r.amount

Total(d, S) == MapThenSumSet(LAMBDA r : d[r] * r.amount, S)

Rest(s) == s \ {Pick(s)}

(* g adds up the costs of every subset of S in the order of the fold *)
Sums(g, d, S) ==
  g = [s \in SUBSET S |-> IF s = {} THEN 0 ELSE Cost(d, Pick(s)) + g[Rest(s)]]

LEMMA PickIn == ASSUME NEW s, s # {} PROVE Pick(s) \in s
BY DEF Pick

LEMMA TotalIsSum ==
  ASSUME NEW d, NEW S
  PROVE  Total(d, S) = (CHOOSE g : Sums(g, d, S))[S]
BY Zenon DEF Total, MapThenSumSet, MapThenFoldSet, Sums, Cost, Pick, Rest

LEMMA SumsAgree ==
  ASSUME NEW d, NEW S, NEW T, IsFiniteSet(T), T \subseteq S,
         NEW g, NEW h, Sums(g, d, S), Sums(h, d, T)
  PROVE  \A s \in SUBSET T : g[s] = h[s]
<1> DEFINE family == {s \in SUBSET T : g[s] = h[s]}
<1>1. ASSUME NEW s \in SUBSET T, \A x \in s : s \ {x} \in family
      PROVE  s \in family
  <2>1. CASE s = {}
    BY <2>1 DEF Sums
  <2>2. CASE s # {}
    <3>1. Pick(s) \in s
      BY <2>2, PickIn
    <3>2. Rest(s) \in family
      BY <1>1, <3>1 DEF Rest
    <3>3. g[s] = Cost(d, Pick(s)) + g[Rest(s)]
      BY <2>2 DEF Sums
    <3>4. h[s] = Cost(d, Pick(s)) + h[Rest(s)]
      BY <2>2 DEF Sums
    <3>5. QED
      BY <3>2, <3>3, <3>4
  <2>3. QED
    BY <2>1, <2>2
<1>2. \A s \in SUBSET T : s \in family
  <2> HIDE DEF family
  <2> QED
    BY <1>1, FiniteInduction
<1>3. QED
  BY <1>2

LEMMA SumsExist ==
  ASSUME NEW d, NEW S, IsFiniteSet(S)
  PROVE  \E g : Sums(g, d, S)
<1> DEFINE family == {s \in SUBSET S : \E g : Sums(g, d, s)}
<1>1. ASSUME NEW s \in SUBSET S, \A x \in s : s \ {x} \in family
      PROVE  s \in family
  <2> DEFINE of(r) == CHOOSE g : Sums(g, d, r)
             sum == [r \in SUBSET s |->
                       IF r = {} THEN 0
                       ELSE IF r = s THEN Cost(d, Pick(s)) + of(Rest(s))[Rest(s)]
                       ELSE of(r)[r]]
  <2>1. ASSUME NEW r \in SUBSET s, r # s
        PROVE  IsFiniteSet(r) /\ Sums(of(r), d, r)
    <3>1. PICK x \in s : x \notin r
      BY <2>1
    <3>2. PICK g : Sums(g, d, s \ {x})
      BY <1>1
    <3>3. IsFiniteSet(r)
      BY FS_Subset
    <3>4. Sums([q \in SUBSET r |-> g[q]], d, r)
      <4> DEFINE h == [q \in SUBSET r |-> g[q]]
      <4>1. ASSUME NEW q \in SUBSET r
            PROVE  h[q] = IF q = {} THEN 0 ELSE Cost(d, Pick(q)) + h[Rest(q)]
        <5>1. q \in SUBSET (s \ {x}) /\ Rest(q) \in SUBSET r
          BY <3>1 DEF Rest
        <5>2. g[q] = IF q = {} THEN 0 ELSE Cost(d, Pick(q)) + g[Rest(q)]
          BY <3>2, <5>1 DEF Sums
        <5>3. QED
          BY <5>1, <5>2
      <4>2. h = [q \in SUBSET r |-> h[q]]
        OBVIOUS
      <4> HIDE DEF h
      <4>3. h = [q \in SUBSET r |-> IF q = {} THEN 0 ELSE Cost(d, Pick(q)) + h[Rest(q)]]
        BY <4>1, <4>2
      <4>4. Sums(h, d, r)
        BY <4>3 DEF Sums
      <4>5. QED
        BY <4>4 DEF h
    <3>5. \E g1 : Sums(g1, d, r)
      BY <3>4
    <3>6. Sums(of(r), d, r)
      BY <3>5
    <3>7. QED
      BY <3>3, <3>6
  <2>2. ASSUME NEW r \in SUBSET s
        PROVE  sum[r] = IF r = {} THEN 0 ELSE Cost(d, Pick(r)) + sum[Rest(r)]
    <3>1. CASE r = {}
      BY <3>1
    <3>2. CASE r # {}
      <4>1. Pick(r) \in r /\ Rest(r) \in SUBSET s /\ Rest(r) # s /\ Rest(r) \in SUBSET r
        BY <3>2, PickIn DEF Rest
      <4>2. sum[Rest(r)] = of(Rest(r))[Rest(r)]
        <5>1. CASE Rest(r) = {}
          <6>1. Sums(of({}), d, {})
            BY <2>1, <4>1, <5>1
          <6> HIDE DEF of
          <6>2. of({})[{}] = 0
            BY <6>1 DEF Sums
          <6>3. QED
            BY <5>1, <6>2
        <5>2. CASE Rest(r) # {}
          BY <4>1, <5>2
        <5>3. QED
          BY <5>1, <5>2
      <4>3. CASE r = s
        BY <3>2, <4>2, <4>3
      <4>4. CASE r # s
        <5>1. /\ Sums(of(r), d, r) /\ Sums(of(Rest(r)), d, Rest(r))
              /\ IsFiniteSet(Rest(r))
          BY <2>1, <4>1, <4>4
        <5> HIDE DEF of
        <5>2. of(r)[Rest(r)] = of(Rest(r))[Rest(r)]
          BY <5>1, <4>1, SumsAgree
        <5>3. of(r)[r] = Cost(d, Pick(r)) + of(r)[Rest(r)]
          BY <3>2, <5>1 DEF Sums
        <5>4. sum[r] = of(r)[r]
          BY <3>2, <4>4
        <5>5. QED
          BY <3>2, <4>2, <5>2, <5>3, <5>4
      <4>5. QED
        BY <4>3, <4>4
    <3>3. QED
      BY <3>1, <3>2
  <2>3. sum = [r \in SUBSET s |-> sum[r]]
    OBVIOUS
  <2> HIDE DEF sum
  <2>4. sum = [r \in SUBSET s |-> IF r = {} THEN 0 ELSE Cost(d, Pick(r)) + sum[Rest(r)]]
    BY <2>2, <2>3
  <2>5. Sums(sum, d, s)
    BY <2>4 DEF Sums
  <2>6. QED
    BY <2>5
<1>2. \A s \in SUBSET S : s \in family
  <2> HIDE DEF family
  <2> QED
    BY <1>1, FiniteInduction
<1>3. QED
  BY <1>2

LEMMA TotalOfSet ==
  ASSUME NEW d, NEW S, IsFiniteSet(S)
  PROVE  Total(d, S) = IF S = {} THEN 0 ELSE Cost(d, Pick(S)) + Total(d, Rest(S))
<1> DEFINE g == CHOOSE f : Sums(f, d, S)
           h == CHOOSE f : Sums(f, d, Rest(S))
<1>1. IsFiniteSet(Rest(S)) /\ Rest(S) \subseteq S
  BY FS_Subset DEF Rest
<1>2. Sums(g, d, S) /\ Sums(h, d, Rest(S))
  BY <1>1, SumsExist
<1>3. Total(d, S) = g[S] /\ Total(d, Rest(S)) = h[Rest(S)]
  BY TotalIsSum
<1> HIDE DEF g, h
<1>4. g[Rest(S)] = h[Rest(S)]
  BY <1>1, <1>2, SumsAgree
<1>5. g[S] = IF S = {} THEN 0 ELSE Cost(d, Pick(S)) + g[Rest(S)]
  BY <1>2 DEF Sums
<1>6. QED
  BY <1>3, <1>4, <1>5

LEMMA TotalType ==
  ASSUME NEW d, NEW S, IsFiniteSet(S), \A r \in S : d[r] \in Nat /\ r.amount \in Nat
  PROVE  Total(d, S) \in Nat
<1> DEFINE family == {s \in SUBSET S : Total(d, s) \in Nat}
<1>1. \A r \in S : Cost(d, r) \in Nat
  BY DEF Cost
<1>2. ASSUME NEW s \in SUBSET S, \A x \in s : s \ {x} \in family
      PROVE  s \in family
  <2>1. IsFiniteSet(s)
    BY FS_Subset
  <2>2. Total(d, s) = IF s = {} THEN 0 ELSE Cost(d, Pick(s)) + Total(d, Rest(s))
    BY <2>1, TotalOfSet
  <2>3. s # {} => Pick(s) \in s /\ Total(d, Rest(s)) \in Nat
    BY <1>2, PickIn DEF Rest
  <2>4. QED
    BY <1>1, <2>2, <2>3
<1>3. \A s \in SUBSET S : s \in family
  <2> HIDE DEF family
  <2> QED
    BY <1>2, FiniteInduction
<1>4. QED
  BY <1>3

(* Nothing costs nothing. *)
LEMMA TotalIsZero ==
  ASSUME NEW d, NEW S, IsFiniteSet(S), \A r \in S : d[r] = 0 /\ r.amount \in Nat
  PROVE  Total(d, S) = 0
<1> DEFINE family == {s \in SUBSET S : Total(d, s) = 0}
<1>1. \A r \in S : Cost(d, r) = 0
  BY DEF Cost
<1>2. ASSUME NEW s \in SUBSET S, \A x \in s : s \ {x} \in family
      PROVE  s \in family
  <2>1. IsFiniteSet(s)
    BY FS_Subset
  <2>2. Total(d, s) = IF s = {} THEN 0 ELSE Cost(d, Pick(s)) + Total(d, Rest(s))
    BY <2>1, TotalOfSet
  <2>3. s # {} => Pick(s) \in s /\ Total(d, Rest(s)) = 0
    BY <1>2, PickIn DEF Rest
  <2>4. QED
    BY <1>1, <2>2, <2>3
<1>3. \A s \in SUBSET S : s \in family
  <2> HIDE DEF family
  <2> QED
    BY <1>2, FiniteInduction
<1>4. QED
  BY <1>3

(* Equal counts cost the same. *)
LEMMA TotalKept ==
  ASSUME NEW d, NEW e, NEW S, IsFiniteSet(S), \A r \in S : e[r] = d[r]
  PROVE  Total(e, S) = Total(d, S)
<1> DEFINE family == {s \in SUBSET S : Total(e, s) = Total(d, s)}
<1>1. \A r \in S : Cost(e, r) = Cost(d, r)
  BY DEF Cost
<1>2. ASSUME NEW s \in SUBSET S, \A x \in s : s \ {x} \in family
      PROVE  s \in family
  <2>1. IsFiniteSet(s)
    BY FS_Subset
  <2>2. Total(d, s) = IF s = {} THEN 0 ELSE Cost(d, Pick(s)) + Total(d, Rest(s))
    BY <2>1, TotalOfSet
  <2>3. Total(e, s) = IF s = {} THEN 0 ELSE Cost(e, Pick(s)) + Total(e, Rest(s))
    BY <2>1, TotalOfSet
  <2>4. s # {} => Pick(s) \in s /\ Total(e, Rest(s)) = Total(d, Rest(s))
    BY <1>2, PickIn DEF Rest
  <2>5. QED
    BY <1>1, <2>2, <2>3, <2>4
<1>3. \A s \in SUBSET S : s \in family
  <2> HIDE DEF family
  <2> QED
    BY <1>2, FiniteInduction
<1>4. QED
  BY <1>3

(* One payment more costs its amount. *)
LEMMA TotalGrows ==
  ASSUME NEW d, NEW e, NEW S, IsFiniteSet(S), NEW x \in S,
         \A r \in S : d[r] \in Nat /\ r.amount \in Nat,
         \A r \in S : e[r] = IF r = x THEN d[r] + 1 ELSE d[r]
  PROVE  Total(e, S) = Total(d, S) + x.amount
<1> DEFINE family == {s \in SUBSET S : x \in s => Total(e, s) = Total(d, s) + x.amount}
<1>1. \A r \in S : Cost(d, r) \in Nat /\ (r # x => Cost(e, r) = Cost(d, r))
  BY DEF Cost
<1>2. Cost(e, x) = Cost(d, x) + x.amount
  <2>1. \A m, n \in Nat : (m + 1) * n = m * n + n
    OBVIOUS
  <2>2. d[x] \in Nat /\ x.amount \in Nat /\ e[x] = d[x] + 1
    OBVIOUS
  <2>3. QED
    BY <2>1, <2>2 DEF Cost
<1>3. ASSUME NEW s \in SUBSET S, \A y \in s : s \ {y} \in family
      PROVE  s \in family
  <2> SUFFICES ASSUME x \in s
               PROVE  Total(e, s) = Total(d, s) + x.amount
    OBVIOUS
  <2>1. IsFiniteSet(s) /\ IsFiniteSet(Rest(s)) /\ Rest(s) \subseteq s
    BY FS_Subset DEF Rest
  <2>2. Total(d, s) = Cost(d, Pick(s)) + Total(d, Rest(s))
    BY <2>1, TotalOfSet
  <2>3. Total(e, s) = Cost(e, Pick(s)) + Total(e, Rest(s))
    BY <2>1, TotalOfSet
  <2>4. Pick(s) \in s /\ Pick(s) \in S
    BY PickIn
  <2>5. Total(d, Rest(s)) \in Nat
    BY <2>1, TotalType
  <2>6. CASE Pick(s) = x
    <3>1. \A r \in Rest(s) : e[r] = d[r]
      BY <2>6 DEF Rest
    <3>2. Total(e, Rest(s)) = Total(d, Rest(s))
      BY <2>1, <3>1, TotalKept
    <3>3. Cost(d, x) \in Nat /\ x.amount \in Nat
      BY <1>1
    <3>4. QED
      BY <1>2, <2>2, <2>3, <2>5, <2>6, <3>2, <3>3
  <2>7. CASE Pick(s) # x
    <3>1. Rest(s) \in family /\ x \in Rest(s)
      BY <1>3, <2>4, <2>7 DEF Rest
    <3>2. Total(e, Rest(s)) = Total(d, Rest(s)) + x.amount
      BY <3>1
    <3>3. Cost(d, Pick(s)) \in Nat /\ Cost(e, Pick(s)) = Cost(d, Pick(s)) /\ x.amount \in Nat
      BY <1>1, <2>4, <2>7
    <3>4. QED
      BY <2>2, <2>3, <2>5, <3>2, <3>3
  <2>8. QED
    BY <2>6, <2>7
<1>4. \A s \in SUBSET S : s \in family
  <2> HIDE DEF family
  <2> QED
    BY <1>3, FiniteInduction
<1>5. QED
  BY <1>4

-----------------------------------------------------------------------------
RequestsOf(agent) == {r \in Requests : r.agent = agent}

LEMMA SpentIsTotal ==
  \A agent : Spent(agent) = Total(debits, RequestsOf(agent))
BY Zenon DEF Spent, Total, RequestsOf

LEMMA SpentIsTotalNext ==
  \A agent : Spent(agent)' = Total(debits', RequestsOf(agent))
BY Zenon DEF Spent, Total, RequestsOf, MapThenSumSet, MapThenFoldSet

(* the callers' lock: one call at a time, and no write between its read    *)
(* of the balance and its write                                            *)
LockInv ==
  /\ \A t, u \in Threads : ~At(t, "idle") /\ ~At(u, "idle") => t = u
  /\ \A t \in Threads : At(t, "debit") =>
       call[t].before = balances[call[t].request.agent]

(* What the step of one thread leaves alone. *)
LEMMA EnterFrame ==
  ASSUME IInv, NEW t \in Threads, Enter(t)
  PROVE  /\ MayEnter(t) /\ UNCHANGED <<balances, debits>>
         /\ \A u \in Threads : u # t => call'[u] = call[u]
         /\ call'[t].step # "debit"
<1>1. call \in [Threads -> Call]
  BY DEF IInv, TypeOK
<1>2. \A r \in Requests, mode \in {"process", "evaluate"} : Begin(t, r, mode) =>
        /\ MayEnter(t) /\ UNCHANGED <<balances, debits>>
        /\ \A u \in Threads : u # t => call'[u] = call[u]
        /\ call'[t].step = "integrity"
  BY <1>1 DEF Begin, AnyCall
<1>3. \A r \in Requests, a \in Released \cup {NoAuthorization} : Present(t, r, a) =>
        /\ MayEnter(t) /\ UNCHANGED <<balances, debits>>
        /\ \A u \in Threads : u # t => call'[u] = call[u]
        /\ call'[t].step = "guard"
  BY <1>1 DEF Present, AnyCall
<1>4. QED
  BY <1>2, <1>3 DEF Enter

LEMMA ContinueFrame ==
  ASSUME IInv, NEW t \in Threads, Continue(t)
  PROVE  /\ ~At(t, "idle")
         /\ \A u \in Threads : u # t => call'[u] = call[u]
         /\ \/ Debit(t) /\ call'[t].step = "record"
            \/ /\ UNCHANGED <<balances, debits>>
               /\ call'[t].step = "debit" =>
                    call'[t].before = balances[call'[t].request.agent]
<1>1. call \in [Threads -> Call] /\ AnyCall.step = "idle"
  BY DEF IInv, TypeOK, AnyCall
<1>2. call[t] \in Call
  BY <1>1
<1> USE <1>1, <1>2
<1> USE DEF At, Block, Return, Advance
<1> DEFINE Quiet ==
      /\ ~At(t, "idle") /\ UNCHANGED <<balances, debits>>
      /\ \A u \in Threads : u # t => call'[u] = call[u]
      /\ call'[t].step # "debit"
<1>3. RejectExpired(t) \/ RejectReplayed(t) \/ ConsumeNonce(t) => Quiet
  BY DEF RejectExpired, RejectReplayed, ConsumeNonce, Call
<1>4. \A signal \in {"CLEAN", "FLAG", "BLOCK"} :
        DecideBlock(t, signal) \/ Escalate(t, signal) => Quiet
  BY DEF DecideBlock, Escalate, Call
<1>5. \A signal \in {"CLEAN", "FLAG", "BLOCK"} : Authorize(t, signal) => Quiet
  BY DEF Authorize, Call
<1>6. RejectAuthorization(t) \/ PassGuard(t) => Quiet
  BY DEF RejectAuthorization, PassGuard, Call
<1>7. RejectReplayedAuthorization(t) \/ ConsumeAuthorization(t) => Quiet
  BY DEF RejectReplayedAuthorization, ConsumeAuthorization, Call
<1>8. RejectFunds(t) \/ RecordAllowed(t) => Quiet
  BY DEF RejectFunds, RecordAllowed, Call
<1>9. DependencyRaises(t) => Quiet
  BY GatewayAssumption DEF DependencyRaises, RaisingSteps, Call
<1>10. ReadBalance(t) =>
         /\ ~At(t, "idle") /\ UNCHANGED <<balances, debits>>
         /\ \A u \in Threads : u # t => call'[u] = call[u]
         /\ call'[t].before = balances[call'[t].request.agent]
  BY DEF ReadBalance, Call
<1>11. Debit(t) =>
         /\ ~At(t, "idle")
         /\ \A u \in Threads : u # t => call'[u] = call[u]
         /\ call'[t].step = "record"
  BY DEF Debit, Call
<1>12. QED
  BY <1>3, <1>4, <1>5, <1>6, <1>7, <1>8, <1>9, <1>10, <1>11 DEF Continue

(* A debit takes from the balance what it adds to the costs. *)
LEMMA DebitBalances ==
  ASSUME IInv, LockInv, BooksBalance, IsFiniteSet(Requests), NEW t \in Threads, Debit(t)
  PROVE  BooksBalance'
<1> DEFINE r == call[t].request
<1>1. /\ At(t, "debit") /\ r \in Requests /\ r.agent \in DOMAIN InitialBalances
      /\ r.amount \in Nat /\ call[t].before \in Nat
      /\ call[t].before = balances[r.agent]
  BY CallTyped, GatewayAssumption DEF Debit, IInv, MoneyInv, LockInv
<1>2. balances \in [DOMAIN InitialBalances -> Nat] /\ debits \in [Requests -> Nat]
  BY DEF IInv, TypeOK
<1>3. /\ balances' = [balances EXCEPT ![r.agent] = balances[r.agent] - r.amount]
      /\ debits' = [debits EXCEPT ![r] = debits[r] + 1]
  BY <1>1 DEF Debit
<1> HIDE DEF r
<1>4. ASSUME NEW agent \in DOMAIN InitialBalances
      PROVE  balances'[agent] + Total(debits', RequestsOf(agent)) = InitialBalances[agent]
  <2>1. IsFiniteSet(RequestsOf(agent))
    BY FS_Subset DEF RequestsOf
  <2>2. \A q \in RequestsOf(agent) : debits[q] \in Nat /\ q.amount \in Nat
    BY <1>2, GatewayAssumption DEF RequestsOf
  <2>3. Total(debits, RequestsOf(agent)) \in Nat
    BY <2>1, <2>2, TotalType
  <2>4. balances[agent] + Total(debits, RequestsOf(agent)) = InitialBalances[agent]
    BY SpentIsTotal DEF BooksBalance
  <2>5. balances[agent] \in Nat
    BY <1>2
  <2>6. CASE r.agent = agent
    <3>1. r \in RequestsOf(agent)
      BY <1>1, <2>6 DEF RequestsOf
    <3>2. \A q \in RequestsOf(agent) : debits'[q] = IF q = r THEN debits[q] + 1 ELSE debits[q]
      BY <1>2, <1>3 DEF RequestsOf
    <3>3. Total(debits', RequestsOf(agent)) = Total(debits, RequestsOf(agent)) + r.amount
      BY <2>1, <2>2, <3>1, <3>2, TotalGrows
    <3>4. balances'[agent] = balances[agent] - r.amount
      BY <1>2, <1>3, <2>6
    <3>5. QED
      BY <1>1, <2>3, <2>4, <2>5, <3>3, <3>4
  <2>7. CASE r.agent # agent
    <3>1. \A q \in RequestsOf(agent) : debits'[q] = debits[q]
      BY <1>2, <1>3, <2>7 DEF RequestsOf
    <3>2. Total(debits', RequestsOf(agent)) = Total(debits, RequestsOf(agent))
      BY <2>1, <3>1, TotalKept
    <3>3. balances'[agent] = balances[agent]
      BY <1>2, <1>3, <2>7
    <3>4. QED
      BY <2>4, <3>2, <3>3
  <2>8. QED
    BY <2>6, <2>7
<1>5. QED
  BY <1>4, SpentIsTotalNext DEF BooksBalance

LEMMA QuietBalances ==
  ASSUME BooksBalance, UNCHANGED <<balances, debits>>
  PROVE  BooksBalance'
BY SpentIsTotal, SpentIsTotalNext DEF BooksBalance

LEMMA BooksInductive ==
  ASSUME CallerLock, IsFiniteSet(Requests)
  PROVE  IInv /\ LockInv /\ BooksBalance /\ [Next]_vars => (LockInv /\ BooksBalance)'
<1> SUFFICES ASSUME IInv, LockInv, BooksBalance, [Next]_vars
             PROVE  (LockInv /\ BooksBalance)'
  OBVIOUS
<1>1. CASE Tick \/ UNCHANGED vars
  <2>1. UNCHANGED <<call, balances, debits>>
    BY <1>1 DEF Tick, vars
  <2>2. QED
    BY <2>1, QuietBalances DEF LockInv, At
<1>2. ASSUME NEW t \in Threads, Enter(t)
      PROVE  (LockInv /\ BooksBalance)'
  <2>1. \A u \in Threads : At(u, "idle")
    BY <1>2, EnterFrame DEF MayEnter
  <2>2. LockInv'
    BY <1>2, <2>1, EnterFrame DEF LockInv, At
  <2>3. QED
    BY <1>2, <2>2, EnterFrame, QuietBalances
<1>3. ASSUME NEW t \in Threads, Continue(t)
      PROVE  (LockInv /\ BooksBalance)'
  <2>1. \A u \in Threads : u # t => At(u, "idle") /\ call'[u] = call[u]
    BY <1>3, ContinueFrame DEF LockInv
  <2>2. CASE Debit(t)
    <3>1. call'[t].step = "record" \/ UNCHANGED <<balances, debits>>
      BY <1>3, ContinueFrame
    <3>2. LockInv'
      BY <1>3, <2>1, <3>1, ContinueFrame DEF LockInv, At
    <3>3. QED
      BY <2>2, <3>2, DebitBalances
  <2>3. CASE ~Debit(t)
    <3>1. LockInv'
      BY <1>3, <2>1, <2>3, ContinueFrame DEF LockInv, At
    <3>2. QED
      BY <1>3, <2>3, <3>1, ContinueFrame, QuietBalances
  <2>4. QED
    BY <2>2, <2>3
<1>4. QED
  BY <1>1, <1>2, <1>3 DEF Next

(***************************************************************************)
(* The balance table is the books, for any number of threads under the     *)
(* callers' lock: what an agent lost is what its settled payments cost     *)
(* (simulation.py:97-113).                                                 *)
(***************************************************************************)
THEOREM BooksAreBalanced ==
  ASSUME CallerLock, IsFiniteSet(Requests)
  PROVE  Spec => []BooksBalance
<1>1. Init => LockInv /\ BooksBalance
  <2> SUFFICES ASSUME Init
               PROVE  LockInv /\ BooksBalance
    OBVIOUS
  <2>1. \A t \in Threads : At(t, "idle")
    BY DEF Init, At, AnyCall
  <2>2. LockInv
    BY <2>1 DEF LockInv, At
  <2>3. ASSUME NEW agent \in DOMAIN InitialBalances
        PROVE  balances[agent] + Spent(agent) = InitialBalances[agent]
    <3>1. IsFiniteSet(RequestsOf(agent))
      BY FS_Subset DEF RequestsOf
    <3>2. \A r \in RequestsOf(agent) : debits[r] = 0 /\ r.amount \in Nat
      BY GatewayAssumption DEF Init, RequestsOf
    <3>3. Total(debits, RequestsOf(agent)) = 0
      BY <3>1, <3>2, TotalIsZero
    <3>4. QED
      BY <3>3, SpentIsTotal, GatewayAssumption DEF Init
  <2>4. QED
    BY <2>2, <2>3 DEF BooksBalance
<1>2. QED
  BY <1>1, InitIInv, NextIInv, BooksInductive, PTL DEF Spec
=============================================================================
