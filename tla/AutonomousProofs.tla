--------------------------- MODULE AutonomousProofs ---------------------------
(***************************************************************************)
(* Proofs about Autonomous for every set of runners, clients, keys and     *)
(* scenarios: nothing moves for an agent without its signature, the audit  *)
(* stream accounts for the money, and a report tells where it went.        *)
(***************************************************************************)
EXTENDS Autonomous, FiniteSetTheorems, SequenceTheorems, TLAPS

-----------------------------------------------------------------------------
Served(c) == post[c].step \in {"decided", "answered"}

(* an answer that admits its pair, not yet published *)
Admits(answer) == answer.decision # "BLOCK"

Holding(c) == post[c].step = "decided" /\ Admits(post[c])

(* what a run has asked for, and where it stands *)
RunInv ==
  \A r \in Runners :
    /\ At(r, "scenario") => Len(run[r].requests) + 1 = run[r].at
    /\ run[r].step \in {"waiting", "record"} =>
         /\ run[r].at <= Len(Scenarios)
         /\ Len(run[r].requests) = run[r].at
         /\ post[r] # NoPost

(* a request that was decided carried a signature of its agent *)
SignInv ==
  /\ \A c \in Callers : post[c] # NoPost => post[c].signature \in signed
  /\ \A c \in Callers : Served(c) => Signer(post[c].request) # {}
  /\ OnlySignedIntents

(* whoever admits a pair consumed it, and admits it alone *)
HoldInv ==
  /\ \A c \in Callers :
       post[c].step = "sent" => post[c].decision = "BLOCK"
  /\ \A c \in Callers : Holding(c) => Pair(post[c].request) \in nonces
  /\ \A c, d \in Callers :
       Holding(c) /\ Holding(d) /\ Pair(post[c].request) = Pair(post[d].request) => c = d
  /\ \A i \in DOMAIN log :
       /\ Admits(log[i]) => Pair(log[i].request) \in nonces
       /\ \A c \in Callers : Holding(c) /\ Admits(log[i]) =>
            Pair(post[c].request) # Pair(log[i].request)
       /\ \A j \in DOMAIN log :
            /\ Admits(log[i]) /\ Admits(log[j])
            /\ Pair(log[i].request) = Pair(log[j].request)
            => i = j

(* an answer was published before, and money moves on a published ALLOW *)
Allowed(request) ==
  \E i \in DOMAIN log :
    log[i].request = request /\ log[i].decision = "ALLOW"

PayInv ==
  /\ \A c \in Callers :
       post[c].step = "answered" /\ post[c].decision = "ALLOW" => Allowed(post[c].request)
  /\ \A i \in DOMAIN paid :
       /\ Allowed(paid[i])
       /\ paid[i] \in spent
       /\ \A j \in DOMAIN paid : paid[i] = paid[j] => i = j

(* the runner's counters, and what was recorded *)
BooksInv ==
  /\ \A q \in baseline : \E i \in DOMAIN paid : paid[i] = q
  /\ \A r \in Runners :
       /\ IsFiniteSet(moved[r])
       /\ moved[r] \subseteq spent
       /\ At(r, "record") =>
            /\ post[r].step = "answered"
            /\ \E i \in DOMAIN paid : paid[i] = post[r].request
            /\ post[r].request \in moved[r]
            /\ moved[r] \ {post[r].request} \subseteq baseline
            /\ Cardinality(moved[r]) = run[r].settled + 1
            /\ run[r].attempts = run[r].settled + 1
       /\ run[r].step \in {"scenario", "waiting", "reported"} =>
            /\ moved[r] \subseteq baseline
            /\ Cardinality(moved[r]) = run[r].settled
            /\ run[r].attempts = run[r].settled
       /\ run[r].step \in {"scenario", "waiting", "record"} =>
            run[r].settled + run[r].quarantined + run[r].blocked + 1 = run[r].at
       /\ At(r, "reported") =>
            run[r].settled + run[r].quarantined + run[r].blocked = Len(Scenarios)

IInv == TypeOK /\ RunInv /\ SignInv /\ HoldInv /\ PayInv /\ BooksInv

-----------------------------------------------------------------------------
(* only c's call moves, only r's run *)
PostMoves(c, p) ==
  /\ post' \in [Callers -> Posts \cup {NoPost}]
  /\ post'[c] = p
  /\ \A d \in Callers : d # c => post'[d] = post[d]

RunMoves(r, s) ==
  /\ run' \in [Runners -> Runs]
  /\ run'[r] = s
  /\ \A q \in Runners : q # r => run'[q] = run[q]

LEMMA PostTyped ==
  ASSUME TypeOK, NEW c \in Callers, post[c] # NoPost
  PROVE  /\ post[c] \in Posts
         /\ post[c].request \in Requests /\ post[c].key \in Keys
         /\ post[c].signature \in [key : Keys, request : Requests]
         /\ post[c].decision \in Decisions
         /\ post[c].posts \in Nat
  BY DEF TypeOK, Posts

LEMMA PostSteps ==
  ASSUME TypeOK, NEW c \in Callers
  PROVE  post[c] = NoPost <=>
           post[c].step \notin {"sent", "unauthorized", "decided", "error", "answered"}
  BY DEF TypeOK, Posts, NoPost

LEMMA RunTyped ==
  ASSUME TypeOK, NEW r \in Runners
  PROVE  /\ run[r] \in Runs /\ run[r].step \in Steps
         /\ run[r].at \in Nat /\ run[r].at \in 1..(Len(Scenarios) + 1)
         /\ run[r].requests \in Seq(Requests) /\ Len(run[r].requests) \in Nat
         /\ run[r].attempts \in Nat /\ run[r].settled \in Nat
         /\ run[r].quarantined \in Nat /\ run[r].blocked \in Nat
         /\ run[r].runs \in 0..MaxRuns
<1>1. run[r] \in Runs BY DEF TypeOK
<1>2. Len(Scenarios) \in Nat BY AutonomousAssumption, LenProperties
<1>3. run[r].requests \in Seq(Requests) BY <1>1 DEF Runs
<1>4. Len(run[r].requests) \in Nat BY <1>3, LenProperties
<1> QED BY <1>1, <1>2, <1>3, <1>4 DEF Runs

LEMMA LogTyped ==
  ASSUME TypeOK
  PROVE  /\ Len(log) \in Nat /\ DOMAIN log = 1..Len(log)
         /\ \A i \in DOMAIN log : log[i] \in Receipts /\ log[i].request \in Requests
         /\ Len(paid) \in Nat /\ DOMAIN paid = 1..Len(paid)
         /\ \A i \in DOMAIN paid : paid[i] \in Requests
<1>1. log \in Seq(Receipts) /\ paid \in Seq(Requests) BY DEF TypeOK
<1>2. /\ Len(log) \in Nat /\ DOMAIN log = 1..Len(log)
      /\ Len(paid) \in Nat /\ DOMAIN paid = 1..Len(paid)
  BY <1>1, LenProperties
<1>3. \A i \in DOMAIN log : log[i] \in Receipts BY <1>1, <1>2, ElementOfSeq
<1>4. \A i \in DOMAIN paid : paid[i] \in Requests BY <1>1, <1>2, ElementOfSeq
<1> QED BY <1>2, <1>3, <1>4 DEF Receipts

LEMMA ScenarioTyped ==
  ASSUME NEW i \in 1..Len(Scenarios)
  PROVE  /\ Scenarios[i].attempt \in Attempts
         /\ Scenarios[i].expected \in Decisions
         /\ Scenarios[i].replay_of \in Nat /\ Scenarios[i].replay_of < i
<1>1. DOMAIN Scenarios = 1..Len(Scenarios) BY AutonomousAssumption, LenProperties
<1>2. Scenarios[i] \in [attempt : Attempts, expected : Decisions, replay_of : Nat]
  BY AutonomousAssumption, ElementOfSeq
<1> QED BY <1>1, <1>2, AutonomousAssumption

LEMMA OwnersAreAgents == \A k \in Keys : Owner[k] \in Agents
BY DEF Keys, Agents, Range

LEMMA Pieces ==
  ASSUME IInv
  PROVE  TypeOK /\ RunInv /\ SignInv /\ HoldInv /\ PayInv /\ BooksInv
  BY DEF IInv

LEMMA InitIInv == Init => IInv
<1> SUFFICES ASSUME Init PROVE IInv OBVIOUS
<1>1. \A c \in Callers : post[c] = NoPost /\ post[c].step = "none"
  BY DEF Init, NoPost
<1>2. \A r \in Runners : run[r] = Fresh(0) /\ run[r].step = "idle" /\ moved[r] = {}
  BY DEF Init, Fresh
<1>3. TypeOK
  <2>1. Len(Scenarios) \in Nat BY AutonomousAssumption, LenProperties
  <2>2. Fresh(0) \in Runs
    <3>1. <<>> \in Seq(Requests) OBVIOUS
    <3> QED BY <2>1, <3>1, AutonomousAssumption DEF Fresh, Runs, Steps
  <2>3. <<>> \in Seq(Receipts) /\ <<>> \in Seq(Requests) OBVIOUS
  <2> QED BY <2>2, <2>3 DEF Init, TypeOK
<1>4. DOMAIN log = {} /\ DOMAIN paid = {} BY DEF Init
<1>5. RunInv BY <1>2 DEF RunInv, At
<1>6. SignInv BY <1>1, <1>4 DEF SignInv, OnlySignedIntents, Served, Init
<1>7. HoldInv /\ PayInv BY <1>1, <1>4 DEF HoldInv, PayInv, Holding, Served
<1>8. BooksInv
  <2>1. IsFiniteSet({}) BY FS_EmptySet
  <2> QED BY <1>2, <2>1 DEF BooksInv, At, Init
<1> QED BY <1>3, <1>5, <1>6, <1>7, <1>8 DEF IInv

-----------------------------------------------------------------------------
(***************************************************************************)
(* The server moves a call that is sent or decided: no run waits for it in *)
(* order to record, so runs and their books are as they were.              *)
(***************************************************************************)
LEMMA ServingLeavesRuns ==
  ASSUME IInv, NEW c \in Callers, NEW p \in Posts, post[c].step \in {"sent", "decided"},
         PostMoves(c, p), UNCHANGED <<spent, paid, baseline, run, moved>>
  PROVE  RunInv' /\ BooksInv'
<1> USE Pieces
<1>1. p # NoPost
  <2>1. NoPost.step = "none" /\ p.step # "none" BY DEF NoPost, Posts
  <2> QED BY <2>1
<1>2. \A r \in Runners : r \in Callers BY DEF Callers
<1>3. RunInv' BY <1>1, <1>2 DEF RunInv, PostMoves, At
<1>4. \A r \in Runners : At(r, "record") => r # c /\ post'[r] = post[r]
  BY <1>2 DEF BooksInv, PostMoves
<1>5. BooksInv' BY <1>4 DEF BooksInv, At
<1> QED BY <1>3, <1>5

LEMMA RejectUnauthenticatedKeeps ==
  ASSUME IInv, NEW c \in Callers, RejectUnauthenticated(c)
  PROVE  IInv'
<1> USE Pieces
<1>u. UNCHANGED <<signed, nonces, log, spent, paid, baseline, run, moved>>
  BY DEF RejectUnauthenticated
<1> DEFINE p == [post[c] EXCEPT !.step = "unauthorized"]
<1>p. /\ p \in Posts /\ p.step = "unauthorized" /\ p.signature = post[c].signature
      /\ post[c] # NoPost /\ post[c].step = "sent" /\ PostMoves(c, p)
  <2>1. post[c].step = "sent" /\ post[c] # NoPost
    BY PostSteps DEF RejectUnauthenticated
  <2>2. p \in Posts /\ p.step = "unauthorized" /\ p.signature = post[c].signature
    BY <2>1, PostTyped DEF Posts
  <2>3. post' = [post EXCEPT ![c] = p] BY DEF RejectUnauthenticated
  <2> QED BY <2>1, <2>2, <2>3 DEF PostMoves, TypeOK
<1> HIDE DEF p
<1>1. TypeOK' BY <1>u, <1>p DEF TypeOK, PostMoves
<1>2. RunInv' /\ BooksInv' BY <1>u, <1>p, ServingLeavesRuns
<1>a. \A d \in Callers : post'[d].step = "sent" => post'[d] = post[d]
  BY <1>p DEF PostMoves
<1>3. \A d \in Callers : /\ Served(d)' => Served(d) /\ post'[d] = post[d]
                         /\ Holding(d)' => Holding(d) /\ post'[d] = post[d]
                         /\ post'[d].step = "answered" => post'[d] = post[d]
  BY <1>p DEF Served, Holding, PostMoves
<1>4. SignInv' BY <1>u, <1>p, <1>3 DEF SignInv, OnlySignedIntents, Signer, PostMoves
<1>5. HoldInv' BY <1>u, <1>a, <1>3 DEF HoldInv
<1>6. PayInv' BY <1>u, <1>3 DEF PayInv, Allowed
<1> QED BY <1>1, <1>2, <1>4, <1>5, <1>6 DEF IInv

(* A verified call has a signature of the agent it speaks for. *)
LEMMA VerifiedIsSigned ==
  ASSUME IInv, NEW c \in Callers, post[c].step = "sent", Verified(post[c])
  PROVE  Signer(post[c].request) # {}
<1>1. post[c] # NoPost BY Pieces, PostSteps
<1>2. post[c].signature \in signed BY Pieces, <1>1 DEF SignInv
<1>3. post[c].signature \in Signer(post[c].request)
  BY <1>2 DEF Verified, Signer
<1> QED BY <1>3

(* A refusal that takes no nonce, of a replay or of any other request. *)
LEMMA RefuseKeeps ==
  ASSUME IInv, NEW c \in Callers, RejectReplayed(c) \/ RefuseUnconsumed(c)
  PROVE  IInv'
<1> USE Pieces
<1>u. UNCHANGED <<signed, nonces, log, spent, paid, baseline, run, moved>>
  BY DEF RejectReplayed, RefuseUnconsumed
<1> DEFINE p == [post[c] EXCEPT !.step = "decided"]
<1>p. /\ p \in Posts /\ p.step = "decided" /\ p.signature = post[c].signature
      /\ p.request = post[c].request
      /\ p.decision = post[c].decision
      /\ post[c] # NoPost /\ post[c].step = "sent" /\ PostMoves(c, p)
  <2>1. post[c].step = "sent" /\ post[c] # NoPost
    BY PostSteps DEF RejectReplayed, RefuseUnconsumed
  <2>2. /\ p \in Posts /\ p.step = "decided" /\ p.signature = post[c].signature
        /\ p.request = post[c].request
        /\ p.decision = post[c].decision
    BY <2>1, PostTyped DEF Posts
  <2>3. post' = [post EXCEPT ![c] = p] BY DEF RejectReplayed, RefuseUnconsumed
  <2> QED BY <2>1, <2>2, <2>3 DEF PostMoves, TypeOK
<1> HIDE DEF p
<1>d. p.decision = "BLOCK" BY <1>p DEF HoldInv
<1>1. TypeOK' BY <1>u, <1>p DEF TypeOK, PostMoves
<1>2. RunInv' /\ BooksInv' BY <1>u, <1>p, ServingLeavesRuns
<1>a. \A d \in Callers : post'[d].step = "sent" => post'[d] = post[d]
  BY <1>p DEF PostMoves
<1>3. \A d \in Callers : /\ Served(d)' => d = c \/ (Served(d) /\ post'[d] = post[d])
                         /\ Holding(d)' => Holding(d) /\ post'[d] = post[d]
                         /\ post'[d].step = "answered" => post'[d] = post[d]
  BY <1>p, <1>d DEF Served, Holding, Admits, PostMoves
<1>s. Signer(post[c].request) # {} BY VerifiedIsSigned DEF RejectReplayed, RefuseUnconsumed
<1>4. SignInv' BY <1>u, <1>p, <1>3, <1>s DEF SignInv, OnlySignedIntents, Signer, PostMoves
<1>5. HoldInv' BY <1>u, <1>a, <1>p, <1>d, <1>3 DEF HoldInv, PostMoves
<1>6. PayInv' BY <1>u, <1>3 DEF PayInv, Allowed
<1> QED BY <1>1, <1>2, <1>4, <1>5, <1>6 DEF IInv

(***************************************************************************)
(* The decision on a fresh pair: if it is not BLOCK, nobody else publishes *)
(* one, or has published one, that admits the pair.                        *)
(***************************************************************************)
LEMMA DecideKeeps ==
  ASSUME IInv, NEW c \in Callers, NEW decision \in Decisions, Decide(c, decision)
  PROVE  IInv'
<1> USE Pieces
<1>u. UNCHANGED <<signed, log, spent, paid, baseline, run, moved>>
  BY DEF Decide
<1> DEFINE p == [post[c] EXCEPT !.step = "decided", !.decision = decision]
<1>p. /\ p \in Posts /\ p.step = "decided" /\ p.signature = post[c].signature
      /\ p.request = post[c].request
      /\ post[c] # NoPost /\ post[c].step = "sent" /\ PostMoves(c, p)
  <2>1. post[c].step = "sent" /\ post[c] # NoPost
    BY PostSteps DEF Decide
  <2>2. /\ p \in Posts /\ p.step = "decided" /\ p.signature = post[c].signature
        /\ p.request = post[c].request
    BY <2>1, PostTyped DEF Posts
  <2>3. post' = [post EXCEPT ![c] = p] BY DEF Decide
  <2> QED BY <2>1, <2>2, <2>3 DEF PostMoves, TypeOK
<1> HIDE DEF p
<1>n. /\ Pair(post[c].request) \notin nonces
      /\ nonces' = nonces \cup {Pair(post[c].request)}
      /\ Pair(post[c].request) \in Agents \X Attempts
      /\ post[c].request \in Requests
  BY <1>p, PostTyped DEF Decide, Pair, Requests
<1>1. TypeOK' BY <1>u, <1>p, <1>n DEF TypeOK, PostMoves
<1>2. RunInv' /\ BooksInv' BY <1>u, <1>p, ServingLeavesRuns
<1>3. \A d \in Callers : /\ Served(d)' => d = c \/ (Served(d) /\ post'[d] = post[d])
                         /\ Holding(d)' => d = c \/ (Holding(d) /\ post'[d] = post[d])
                         /\ post'[d].step = "answered" => post'[d] = post[d]
                         /\ post'[d].step = "sent" => post'[d] = post[d]
  BY <1>p DEF Served, Holding, PostMoves
<1>t. post'[c] = p BY <1>p DEF PostMoves
<1>s. Signer(post[c].request) # {} BY VerifiedIsSigned DEF Decide
<1>4. SignInv'
  <2>1. \A q : Signer(q)' = Signer(q) BY <1>u DEF Signer
  <2>2. OnlySignedIntents' BY <1>u, <1>n, <1>s, <2>1 DEF SignInv, OnlySignedIntents
  <2>3. \A d \in Callers : post'[d] # NoPost => post'[d].signature \in signed'
    BY <1>u, <1>p DEF SignInv, PostMoves
  <2>4. \A d \in Callers : Served(d)' => Signer(post[d].request)' # {}
    BY <1>3, <1>t, <1>p, <1>s, <2>1 DEF SignInv
  <2> QED BY <2>2, <2>3, <2>4 DEF SignInv
<1>5. HoldInv'
  <2>1. \A d \in Callers : Holding(d) => Pair(post[d].request) # Pair(post[c].request)
    BY <1>n DEF HoldInv
  <2>2. \A i \in DOMAIN log : Admits(log[i]) => Pair(log[i].request) # Pair(post[c].request)
    BY <1>n DEF HoldInv
  <2> QED BY <1>u, <1>p, <1>t, <1>n, <1>3, <2>1, <2>2 DEF HoldInv
<1>6. PayInv' BY <1>u, <1>3 DEF PayInv, Allowed
<1> QED BY <1>1, <1>2, <1>4, <1>5, <1>6 DEF IInv

(* The receipt is in the stream before the caller has its answer. *)
LEMMA PublishKeeps ==
  ASSUME IInv, NEW c \in Callers, Publish(c)
  PROVE  IInv'
<1> USE Pieces
<1>u. UNCHANGED <<signed, nonces, spent, paid, baseline, run, moved>>
  BY DEF Publish
<1> DEFINE p == [post[c] EXCEPT !.step = "answered"]
           n == Len(log) + 1
           receipt == [request |-> post[c].request, decision |-> post[c].decision]
<1>p. /\ p \in Posts /\ p.step = "answered" /\ p.signature = post[c].signature
      /\ p.request = post[c].request
      /\ p.decision = post[c].decision
      /\ post[c] # NoPost /\ post[c].step = "decided" /\ PostMoves(c, p)
  <2>1. post[c].step = "decided" /\ post[c] # NoPost
    BY PostSteps DEF Publish
  <2>2. /\ p \in Posts /\ p.step = "answered" /\ p.signature = post[c].signature
        /\ p.request = post[c].request
        /\ p.decision = post[c].decision
    BY <2>1, PostTyped DEF Posts
  <2>3. post' = [post EXCEPT ![c] = p] BY DEF Publish
  <2> QED BY <2>1, <2>2, <2>3 DEF PostMoves, TypeOK
<1> HIDE DEF p
<1>r. /\ receipt \in Receipts /\ receipt.request = post[c].request
      /\ receipt.decision = post[c].decision
  BY <1>p, PostTyped DEF Receipts
<1>h. log' = Append(log, receipt) BY DEF Publish
<1> HIDE DEF receipt
<1>d. /\ log' \in Seq(Receipts)
      /\ n \in DOMAIN log' /\ n \notin DOMAIN log /\ log'[n] = receipt
      /\ \A i \in DOMAIN log : i \in DOMAIN log' /\ log'[i] = log[i]
      /\ \A i \in DOMAIN log' : i \in DOMAIN log \/ i = n
  <2>1. log \in Seq(Receipts) BY DEF TypeOK
  <2>2. /\ log' \in Seq(Receipts) /\ Len(log') = n /\ DOMAIN log' = 1..n
        /\ \A i \in 1..Len(log) : log'[i] = log[i]
        /\ log'[n] = receipt
    BY <1>h, <1>r, <2>1, AppendProperties, LenProperties
  <2> QED BY <2>2, LogTyped
<1> HIDE DEF n
<1>1. TypeOK' BY <1>u, <1>p, <1>d DEF TypeOK, PostMoves
<1>2. RunInv' /\ BooksInv' BY <1>u, <1>p, ServingLeavesRuns
<1>3. \A d \in Callers : /\ Served(d)' => Served(d) /\ post'[d].request = post[d].request
                                          /\ post'[d].decision = post[d].decision
                         /\ Holding(d)' => d # c /\ Holding(d) /\ post'[d] = post[d]
                         /\ post'[d].step = "answered" => d = c \/ post'[d] = post[d]
                         /\ post'[d].step = "sent" => post'[d] = post[d]
  BY <1>p DEF Served, Holding, PostMoves
<1>t. post'[c] = p BY <1>p DEF PostMoves
<1>4. SignInv'
  <2>1. \A q : Signer(q)' = Signer(q) BY <1>u DEF Signer
  <2>2. Signer(post[c].request) # {} BY <1>p DEF SignInv, Served
  <2>3. OnlySignedIntents'
    BY <1>u, <1>d, <1>r, <2>1, <2>2 DEF SignInv, OnlySignedIntents
  <2>4. \A d \in Callers : post'[d] # NoPost => post'[d].signature \in signed'
    BY <1>u, <1>p DEF SignInv, PostMoves
  <2>5. \A d \in Callers : Served(d)' => Signer(post[d].request)' # {}
    BY <1>3, <2>1 DEF SignInv
  <2> QED BY <2>3, <2>4, <2>5 DEF SignInv
<1>5. HoldInv'
  <2>1. \A i \in DOMAIN log' :
          i = n \/ (i \in DOMAIN log /\ log'[i] = log[i])
    BY <1>d
  <2>2. Admits(receipt) => Holding(c) BY <1>p, <1>r DEF Holding, Admits
  <2>3. \A i \in DOMAIN log' : Admits(log'[i]) => Pair(log'[i].request) \in nonces'
    BY <1>u, <1>d, <1>r, <2>1, <2>2 DEF HoldInv
  <2>4. \A i \in DOMAIN log', d \in Callers : Holding(d)' /\ Admits(log'[i]) =>
          Pair(post'[d].request) # Pair(log'[i].request)
    BY <1>3, <1>d, <1>r, <2>1, <2>2 DEF HoldInv
  <2>5. \A i, j \in DOMAIN log' :
          /\ Admits(log'[i]) /\ Admits(log'[j])
          /\ Pair(log'[i].request) = Pair(log'[j].request)
          => i = j
    BY <1>d, <1>r, <2>1, <2>2 DEF HoldInv
  <2>6. /\ \A d \in Callers :
             post'[d].step = "sent" => post'[d].decision = "BLOCK"
        /\ \A d \in Callers : Holding(d)' => Pair(post'[d].request) \in nonces'
        /\ \A d, e \in Callers :
             Holding(d)' /\ Holding(e)' /\ Pair(post'[d].request) = Pair(post'[e].request)
               => d = e
    BY <1>u, <1>3 DEF HoldInv
  <2> QED BY <2>3, <2>4, <2>5, <2>6 DEF HoldInv
<1>6. PayInv'
  <2>1. \A q : Allowed(q) => Allowed(q)' BY <1>d DEF Allowed
  <2>2. post[c].decision = "ALLOW" => Allowed(post[c].request)'
    BY <1>p, <1>t, <1>d, <1>r DEF Allowed
  <2> QED BY <1>u, <1>3, <1>t, <1>p, <2>1, <2>2 DEF PayInv
<1> QED BY <1>1, <1>2, <1>4, <1>5, <1>6 DEF IInv

LEMMA PublishFailsKeeps ==
  ASSUME IInv, NEW c \in Callers, PublishFails(c)
  PROVE  IInv'
<1> USE Pieces
<1>u. UNCHANGED <<signed, nonces, log, spent, paid, baseline, run, moved>>
  BY DEF PublishFails
<1> DEFINE p == [post[c] EXCEPT !.step = "error"]
<1>p. /\ p \in Posts /\ p.step = "error" /\ p.signature = post[c].signature
      /\ post[c] # NoPost /\ post[c].step = "decided" /\ PostMoves(c, p)
  <2>1. post[c].step = "decided" /\ post[c] # NoPost
    BY PostSteps DEF PublishFails
  <2>2. p \in Posts /\ p.step = "error" /\ p.signature = post[c].signature
    BY <2>1, PostTyped DEF Posts
  <2>3. post' = [post EXCEPT ![c] = p] BY DEF PublishFails
  <2> QED BY <2>1, <2>2, <2>3 DEF PostMoves, TypeOK
<1> HIDE DEF p
<1>1. TypeOK' BY <1>u, <1>p DEF TypeOK, PostMoves
<1>2. RunInv' /\ BooksInv' BY <1>u, <1>p, ServingLeavesRuns
<1>3. \A d \in Callers : /\ Served(d)' => Served(d) /\ post'[d] = post[d]
                         /\ Holding(d)' => Holding(d) /\ post'[d] = post[d]
                         /\ post'[d].step \in {"sent", "answered"} => post'[d] = post[d]
  BY <1>p DEF Served, Holding, PostMoves
<1>4. SignInv' BY <1>u, <1>p, <1>3 DEF SignInv, OnlySignedIntents, Signer, PostMoves
<1>5. HoldInv' BY <1>u, <1>3 DEF HoldInv
<1>6. PayInv' BY <1>u, <1>3 DEF PayInv, Allowed
<1> QED BY <1>1, <1>2, <1>4, <1>5, <1>6 DEF IInv

-----------------------------------------------------------------------------
(***************************************************************************)
(* A call is sent, with a signature that exists from then on.  Nothing is  *)
(* said about whose request it is: the server looks at that.               *)
(***************************************************************************)
LEMMA PostKeeps ==
  ASSUME IInv, NEW c \in Callers, NEW request \in Requests, NEW key \in Keys,
         NEW signature \in [key : Keys, request : Requests],
         Post(c, request, key, signature),
         signed' = signed \cup {signature},
         UNCHANGED <<nonces, log, spent, paid, baseline, moved>>
  PROVE  /\ SignInv' /\ HoldInv' /\ PayInv'
         /\ post' \in [Callers -> Posts \cup {NoPost}]
         /\ post'[c] # NoPost
         /\ \A d \in Callers : d # c => post'[d] = post[d]
         /\ signed' \subseteq [key : Keys, request : Requests]
<1> USE Pieces
<1> DEFINE p == [step |-> "sent", posts |-> post[c].posts + 1, request |-> request,
                 key |-> key, signature |-> signature, decision |-> "BLOCK"]
<1>p. /\ p \in Posts /\ p.step = "sent" /\ p.signature = signature
      /\ p.decision = "BLOCK" /\ PostMoves(c, p)
  <2>1. post[c].posts \in Nat
    <3>1. CASE post[c] = NoPost BY <3>1 DEF NoPost
    <3>2. CASE post[c] # NoPost BY <3>2, PostTyped
    <3> QED BY <3>1, <3>2
  <2>2. p \in Posts BY <2>1 DEF Posts, Decisions
  <2>3. post' = [post EXCEPT ![c] = p] BY DEF Post
  <2> QED BY <2>2, <2>3 DEF PostMoves, TypeOK
<1> HIDE DEF p
<1>1. p # NoPost
  <2>1. NoPost.step = "none" BY DEF NoPost
  <2> QED BY <1>p, <2>1
<1>3. \A d \in Callers : /\ Served(d)' => Served(d) /\ post'[d] = post[d]
                         /\ Holding(d)' => Holding(d) /\ post'[d] = post[d]
                         /\ post'[d].step = "answered" => post'[d] = post[d]
  BY <1>p DEF Served, Holding, PostMoves
<1>4. SignInv'
  <2>1. \A q : Signer(q) # {} => Signer(q)' # {} BY DEF Signer
  <2>2. OnlySignedIntents' BY <2>1 DEF SignInv, OnlySignedIntents
  <2> QED BY <1>p, <1>3, <2>1, <2>2 DEF SignInv, PostMoves
<1>5. HoldInv' BY <1>p, <1>3 DEF HoldInv, PostMoves
<1>6. PayInv' BY <1>3 DEF PayInv, Allowed
<1> QED BY <1>p, <1>1, <1>4, <1>5, <1>6 DEF PostMoves, TypeOK

LEMMA ClientPostsKeeps ==
  ASSUME IInv, NEW c \in Clients, NEW request \in Requests, NEW key \in Keys,
         NEW signature \in signed \cup {[key |-> KeyOf[c], request |-> request]},
         ClientPosts(c, request, key, signature)
  PROVE  IInv'
<1> USE Pieces
<1>u. UNCHANGED <<nonces, log, spent, paid, baseline, run, moved>>
  BY DEF ClientPosts
<1>c. c \in Callers /\ c \notin Runners BY AutonomousAssumption DEF Callers
<1>s. signature \in [key : Keys, request : Requests]
  BY <1>c, AutonomousAssumption DEF TypeOK
<1>1. /\ SignInv' /\ HoldInv' /\ PayInv'
      /\ post' \in [Callers -> Posts \cup {NoPost}]
      /\ \A d \in Callers : d # c => post'[d] = post[d]
      /\ signed' \subseteq [key : Keys, request : Requests]
  BY <1>u, <1>c, <1>s, PostKeeps DEF ClientPosts
<1>2. TypeOK' BY <1>u, <1>1 DEF TypeOK
<1>3. \A r \in Runners : post'[r] = post[r] BY <1>1, <1>c DEF Callers
<1>4. RunInv' /\ BooksInv' BY <1>u, <1>3 DEF RunInv, BooksInv, At
<1> QED BY <1>1, <1>2, <1>4 DEF IInv

-----------------------------------------------------------------------------
(* the part of the books that is runner r's *)
RunnerBooks(r) ==
  /\ IsFiniteSet(moved[r])
  /\ moved[r] \subseteq spent
  /\ At(r, "record") =>
       /\ post[r].step = "answered"
       /\ \E i \in DOMAIN paid : paid[i] = post[r].request
       /\ post[r].request \in moved[r]
       /\ moved[r] \ {post[r].request} \subseteq baseline
       /\ Cardinality(moved[r]) = run[r].settled + 1
       /\ run[r].attempts = run[r].settled + 1
  /\ run[r].step \in {"scenario", "waiting", "reported"} =>
       /\ moved[r] \subseteq baseline
       /\ Cardinality(moved[r]) = run[r].settled
       /\ run[r].attempts = run[r].settled
  /\ run[r].step \in {"scenario", "waiting", "record"} =>
       run[r].settled + run[r].quarantined + run[r].blocked + 1 = run[r].at
  /\ At(r, "reported") =>
       run[r].settled + run[r].quarantined + run[r].blocked = Len(Scenarios)

LEMMA BooksOfRunners ==
  BooksInv <=> /\ \A q \in baseline : \E i \in DOMAIN paid : paid[i] = q
               /\ \A r \in Runners : RunnerBooks(r)
BY DEF BooksInv, RunnerBooks

(* The runners whose run, call and payments stay keep their books. *)
LEMMA OtherBooks ==
  ASSUME IInv, NEW r \in Runners, NEW s \in Runs, RunMoves(r, s),
         spent \subseteq spent', baseline \subseteq baseline',
         \A i \in DOMAIN paid : i \in DOMAIN paid' /\ paid'[i] = paid[i],
         \A q \in Runners : q # r => moved'[q] = moved[q] /\ post'[q] = post[q],
         NEW q \in Runners, q # r
  PROVE  RunnerBooks(q)'
<1>1. RunnerBooks(q) BY Pieces, BooksOfRunners
<1>2. run'[q] = run[q] /\ moved'[q] = moved[q] /\ post'[q] = post[q] BY DEF RunMoves
<1> QED BY <1>1, <1>2 DEF RunnerBooks, At

(* A step of a run that neither calls, pays nor records. *)
LEMMA RunStepKeeps ==
  ASSUME IInv, NEW r \in Runners, NEW s \in Runs,
         run' = [run EXCEPT ![r] = s],
         moved' \in [Runners -> SUBSET Requests],
         \A q \in Runners : q # r => moved'[q] = moved[q],
         s.step = "scenario" => Len(s.requests) + 1 = s.at,
         s.step \notin {"waiting", "record"},
         RunnerBooks(r)',
         UNCHANGED <<signed, nonces, log, spent, paid, baseline, post>>
  PROVE  IInv'
<1> USE Pieces
<1>0. RunMoves(r, s) BY DEF RunMoves, TypeOK
<1>1. TypeOK' BY <1>0 DEF RunMoves, TypeOK
<1>2. RunInv' BY <1>0 DEF RunMoves, RunInv, At
<1>3. SignInv' /\ HoldInv' /\ PayInv'
  BY DEF SignInv, OnlySignedIntents, Signer, Served, HoldInv, Holding, PayInv, Allowed
<1>4. \A q \in Runners : q # r => RunnerBooks(q)' BY <1>0, OtherBooks
<1>5. \A q \in baseline' : \E i \in DOMAIN paid' : paid'[i] = q BY DEF BooksInv
<1>6. BooksInv'
  <2>1. \A q \in Runners : RunnerBooks(q)' BY <1>4
  <2> QED BY <1>5, <2>1 DEF BooksInv, RunnerBooks
<1> QED BY <1>1, <1>2, <1>3, <1>6 DEF IInv

(* A run starts afresh, with no payment of its own. *)
LEMMA StartKeeps ==
  ASSUME IInv, NEW r \in Runners, Start(r)
  PROVE  IInv'
<1> USE Pieces
<1> DEFINE s == [Fresh(run[r].runs + 1) EXCEPT !.step = "scenario"]
<1>1. /\ s \in Runs /\ s.step = "scenario" /\ s.requests = <<>> /\ s.at = 1
      /\ s.settled = 0 /\ s.attempts = 0 /\ s.quarantined = 0 /\ s.blocked = 0
  <2>1. run[r].runs + 1 \in 0..MaxRuns
    BY RunTyped, AutonomousAssumption DEF Start
  <2>2. Len(Scenarios) \in Nat BY AutonomousAssumption, LenProperties
  <2>3. <<>> \in Seq(Requests) OBVIOUS
  <2>4. 1 \in 1..(Len(Scenarios) + 1) BY <2>2
  <2> QED BY <2>1, <2>3, <2>4 DEF Fresh, Runs, Steps
<1>2. run' = [run EXCEPT ![r] = s] BY DEF Start
<1> HIDE DEF s
<1>3. Len(s.requests) + 1 = s.at
  <2>1. Len(<<>>) = 0 OBVIOUS
  <2> QED BY <1>1, <2>1
<1>4. /\ moved' \in [Runners -> SUBSET Requests] /\ moved'[r] = {}
      /\ \A q \in Runners : q # r => moved'[q] = moved[q]
  BY DEF Start, TypeOK
<1>5. run'[r] = s BY <1>2 DEF TypeOK
<1>6. IsFiniteSet({}) /\ Cardinality({}) = 0 BY FS_EmptySet
<1>7. RunnerBooks(r)' BY <1>1, <1>4, <1>5, <1>6 DEF RunnerBooks, At
<1> QED BY <1>1, <1>2, <1>3, <1>4, <1>7, RunStepKeeps DEF Start

(* A run fails: its report is never made. *)
LEMMA FailKeeps ==
  ASSUME IInv, NEW r \in Runners, Fail(r) \/ Unexpected(r)
  PROVE  IInv'
<1> USE Pieces
<1> DEFINE s == [run[r] EXCEPT !.step = "failed"]
<1>1. s \in Runs /\ s.step = "failed" BY RunTyped DEF Runs, Steps
<1>2. run' = [run EXCEPT ![r] = s] BY DEF Fail, Unexpected
<1> HIDE DEF s
<1>3. UNCHANGED <<signed, nonces, log, spent, paid, baseline, post, moved>>
  BY DEF Fail, Unexpected
<1>4. run'[r] = s BY <1>2 DEF TypeOK
<1>5. RunnerBooks(r)'
  <2>1. RunnerBooks(r) BY BooksOfRunners
  <2> QED BY <1>1, <1>3, <1>4, <2>1 DEF RunnerBooks, At
<1>6. moved' \in [Runners -> SUBSET Requests] BY <1>3 DEF TypeOK
<1> QED BY <1>1, <1>2, <1>3, <1>5, <1>6, RunStepKeeps

(* A scenario ends without money: it is counted once. *)
LEMMA SetAsideKeeps ==
  ASSUME IInv, NEW r \in Runners, Quarantine(r) \/ Block(r)
  PROVE  IInv'
<1> USE Pieces
<1>0. At(r, "waiting") BY DEF Quarantine, Block, AnswerIs
<1>a. run[r].at <= Len(Scenarios) /\ Len(run[r].requests) = run[r].at
  BY <1>0 DEF RunInv, At
<1>l. Len(Scenarios) \in Nat BY AutonomousAssumption, LenProperties
<1>t. /\ run[r] \in Runs /\ run[r].at \in Nat /\ run[r].settled \in Nat
      /\ run[r].quarantined \in Nat /\ run[r].blocked \in Nat
      /\ run[r].quarantined + 1 \in Nat /\ run[r].blocked + 1 \in Nat
  BY RunTyped
<1>n. run[r].at + 1 \in 1..(Len(Scenarios) + 1) BY <1>a, <1>l, <1>t
<1>1. PICK s \in Runs :
        /\ run' = [run EXCEPT ![r] = s]
        /\ s.step = "scenario" /\ s.at = run[r].at + 1 /\ s.requests = run[r].requests
        /\ s.settled = run[r].settled /\ s.attempts = run[r].attempts
        /\ s.quarantined + s.blocked = run[r].quarantined + run[r].blocked + 1
  <2>1. CASE Quarantine(r)
    <3> DEFINE s == [run[r] EXCEPT !.step = "scenario", !.at = @ + 1,
                                   !.quarantined = @ + 1]
    <3>1. s \in Runs BY <1>t, <1>n DEF Runs, Steps
    <3>2. run' = [run EXCEPT ![r] = s] BY <2>1 DEF Quarantine
    <3>3. /\ s.step = "scenario" /\ s.at = run[r].at + 1 /\ s.requests = run[r].requests
          /\ s.settled = run[r].settled /\ s.attempts = run[r].attempts
          /\ s.quarantined = run[r].quarantined + 1 /\ s.blocked = run[r].blocked
      BY <1>t DEF Runs
    <3> HIDE DEF s
    <3>4. s.quarantined + s.blocked = run[r].quarantined + run[r].blocked + 1
      BY <3>3, <1>t
    <3> QED BY <3>1, <3>2, <3>3, <3>4
  <2>2. CASE Block(r)
    <3> DEFINE s == [run[r] EXCEPT !.step = "scenario", !.at = @ + 1,
                                   !.blocked = @ + 1]
    <3>1. s \in Runs BY <1>t, <1>n DEF Runs, Steps
    <3>2. run' = [run EXCEPT ![r] = s] BY <2>2 DEF Block
    <3>3. /\ s.step = "scenario" /\ s.at = run[r].at + 1 /\ s.requests = run[r].requests
          /\ s.settled = run[r].settled /\ s.attempts = run[r].attempts
          /\ s.quarantined = run[r].quarantined /\ s.blocked = run[r].blocked + 1
      BY <1>t DEF Runs
    <3> HIDE DEF s
    <3>4. s.quarantined + s.blocked = run[r].quarantined + run[r].blocked + 1
      BY <3>3, <1>t
    <3> QED BY <3>1, <3>2, <3>3, <3>4
  <2> QED BY <2>1, <2>2
<1>2. UNCHANGED <<signed, nonces, log, spent, paid, baseline, post, moved>>
  BY DEF Quarantine, Block
<1>3. run'[r] = s BY <1>1 DEF TypeOK
<1>4. RunnerBooks(r)'
  <2>1. RunnerBooks(r) BY BooksOfRunners
  <2>2. s.settled + s.quarantined + s.blocked + 1 = s.at
    <3>1. run[r].settled + run[r].quarantined + run[r].blocked + 1 = run[r].at
      BY <1>0, <2>1 DEF RunnerBooks, At
    <3>2. s.quarantined \in Nat /\ s.blocked \in Nat BY DEF Runs
    <3> QED BY <1>1, <1>t, <3>1, <3>2
  <2> QED BY <1>0, <1>1, <1>2, <1>3, <2>1, <2>2 DEF RunnerBooks, At
<1>5. moved' \in [Runners -> SUBSET Requests] BY <1>2 DEF TypeOK
<1>6. Len(s.requests) + 1 = s.at BY <1>a, <1>1
<1> QED BY <1>1, <1>2, <1>4, <1>5, <1>6, RunStepKeeps

(* The report is made when every scenario was taken. *)
LEMMA ReportKeeps ==
  ASSUME IInv, NEW r \in Runners, Report(r)
  PROVE  IInv'
<1> USE Pieces
<1> DEFINE s == [run[r] EXCEPT !.step = "reported"]
<1>1. /\ s \in Runs /\ s.step = "reported" /\ s.settled = run[r].settled
      /\ s.attempts = run[r].attempts /\ s.blocked = run[r].blocked
      /\ s.quarantined = run[r].quarantined
  BY RunTyped DEF Runs, Steps
<1>2. run' = [run EXCEPT ![r] = s] BY DEF Report
<1> HIDE DEF s
<1>3. UNCHANGED <<signed, nonces, log, spent, paid, baseline, post, moved>>
  BY DEF Report
<1>4. run'[r] = s BY <1>2 DEF TypeOK
<1>5. RunnerBooks(r)'
  <2>1. RunnerBooks(r) /\ At(r, "scenario") /\ run[r].at > Len(Scenarios)
    BY BooksOfRunners DEF Report
  <2>2. run[r].settled + run[r].quarantined + run[r].blocked + 1 = run[r].at
    BY <2>1 DEF RunnerBooks, At
  <2>3. run[r].settled + run[r].quarantined + run[r].blocked = Len(Scenarios)
    <3>1. Len(Scenarios) \in Nat BY AutonomousAssumption, LenProperties
    <3>2. /\ run[r].at \in Nat /\ run[r].at <= Len(Scenarios) + 1
          /\ run[r].settled \in Nat /\ run[r].quarantined \in Nat /\ run[r].blocked \in Nat
      BY RunTyped, <3>1
    <3>3. \A x, y, z, n, l \in Nat : x + y + z + 1 = n /\ n > l /\ n <= l + 1 => x + y + z = l
      OBVIOUS
    <3> QED BY <2>1, <2>2, <3>1, <3>2, <3>3
  <2> QED BY <1>1, <1>3, <1>4, <2>1, <2>3 DEF RunnerBooks, At
<1>6. moved' \in [Runners -> SUBSET Requests] BY <1>3 DEF TypeOK
<1> QED BY <1>1, <1>2, <1>3, <1>5, <1>6, RunStepKeeps

-----------------------------------------------------------------------------
(* The run signs the next scenario's request, a new one or an earlier one. *)
LEMMA SubmitKeeps ==
  ASSUME IInv, NEW r \in Runners, NEW time \in Times, Submit(r, time)
  PROVE  IInv'
<1> USE Pieces
<1>u. UNCHANGED <<nonces, log, spent, paid, baseline, moved>> BY DEF Submit
<1>c. r \in Callers /\ KeyOf[r] \in Keys BY AutonomousAssumption DEF Callers
<1>t. /\ run[r] \in Runs /\ run[r].at \in Nat /\ run[r].requests \in Seq(Requests)
      /\ Len(run[r].requests) \in Nat /\ run[r].at >= 1
  BY RunTyped
<1>0. /\ At(r, "scenario") /\ run[r].at <= Len(Scenarios)
      /\ Len(run[r].requests) + 1 = run[r].at
  BY DEF Submit, RunInv
<1>l. Len(Scenarios) \in Nat BY AutonomousAssumption, LenProperties
<1> DEFINE request == IF Current(r).replay_of = 0
                      THEN [agent |-> Agent(r), attempt |-> Current(r).attempt,
                            built |-> time]
                      ELSE run[r].requests[Current(r).replay_of]
           signature == [key |-> KeyOf[r], request |-> request]
           s == [run[r] EXCEPT !.step = "waiting", !.requests = Append(@, request)]
<1>1. request \in Requests
  <2>0. run[r].at \in 1..Len(Scenarios) BY <1>0, <1>t, <1>l
  <2>1. /\ Current(r).attempt \in Attempts /\ Current(r).replay_of \in Nat
        /\ Current(r).replay_of < run[r].at
    BY <2>0, ScenarioTyped DEF Current
  <2>2. CASE Current(r).replay_of = 0
    <3>1. Agent(r) \in Agents BY <1>c, OwnersAreAgents DEF Agent
    <3> QED BY <2>1, <2>2, <3>1 DEF Requests
  <2>3. CASE Current(r).replay_of # 0
    <3>1. Current(r).replay_of \in 1..Len(run[r].requests) BY <1>0, <1>t, <2>1, <2>3
    <3>2. run[r].requests[Current(r).replay_of] \in Requests BY <1>t, <3>1, ElementOfSeq
    <3> QED BY <2>3, <3>2
  <2> QED BY <2>2, <2>3
<1>h. /\ signed' = signed \cup {signature} /\ Post(r, request, KeyOf[r], signature)
      /\ run' = [run EXCEPT ![r] = s]
  BY DEF Submit
<1> HIDE DEF request
<1>2. /\ s \in Runs /\ s.step = "waiting" /\ s.at = run[r].at
      /\ Len(s.requests) = run[r].at
      /\ s.settled = run[r].settled /\ s.attempts = run[r].attempts
      /\ s.blocked = run[r].blocked /\ s.quarantined = run[r].quarantined
  <2>1. /\ Append(run[r].requests, request) \in Seq(Requests)
        /\ Len(Append(run[r].requests, request)) = Len(run[r].requests) + 1
    BY <1>t, <1>1, AppendProperties
  <2> QED BY <1>0, <1>t, <2>1 DEF Runs, Steps
<1> HIDE DEF s
<1>s. signature \in [key : Keys, request : Requests] BY <1>c, <1>1
<1> HIDE DEF signature
<1>3. /\ SignInv' /\ HoldInv' /\ PayInv'
      /\ post' \in [Callers -> Posts \cup {NoPost}]
      /\ post'[r] # NoPost
      /\ \A d \in Callers : d # r => post'[d] = post[d]
      /\ signed' \subseteq [key : Keys, request : Requests]
  BY <1>u, <1>c, <1>1, <1>s, <1>h, PostKeeps
<1>4. RunMoves(r, s) BY <1>h, <1>2 DEF RunMoves, TypeOK
<1>5. TypeOK' BY <1>u, <1>3, <1>4 DEF TypeOK, RunMoves
<1>p. \A q \in Runners : q # r => post'[q] = post[q] BY <1>3 DEF Callers
<1>6. RunInv' BY <1>0, <1>2, <1>3, <1>4, <1>p DEF RunInv, RunMoves, At
<1>7. BooksInv'
  <2>1. \A q \in Runners : q # r => RunnerBooks(q)'
    BY <1>u, <1>2, <1>4, <1>p, OtherBooks
  <2>2. RunnerBooks(r)'
    <3>1. RunnerBooks(r) BY BooksOfRunners
    <3> QED BY <1>0, <1>u, <1>2, <1>4, <3>1 DEF RunnerBooks, RunMoves, At
  <2>3. \A q \in baseline' : \E i \in DOMAIN paid' : paid'[i] = q
    BY <1>u DEF BooksInv
  <2>4. \A q \in Runners : RunnerBooks(q)' BY <2>1, <2>2
  <2> QED BY <2>3, <2>4 DEF BooksInv, RunnerBooks
<1> QED BY <1>3, <1>5, <1>6, <1>7 DEF IInv

(***************************************************************************)
(* The money moves: on an answer ALLOW, which is in the stream, and for a  *)
(* request whose authorization was not spent.                              *)
(***************************************************************************)
LEMMA SettleKeeps ==
  ASSUME IInv, NEW r \in Runners, Settle(r)
  PROVE  IInv'
<1> USE Pieces
<1>u. UNCHANGED <<signed, nonces, log, baseline, post>> BY DEF Settle
<1>c. r \in Callers BY DEF Callers
<1> DEFINE q == post[r].request
<1>0. /\ At(r, "waiting") /\ post[r].step = "answered" /\ post[r].decision = "ALLOW"
      /\ q \notin spent /\ spent' = spent \cup {q} /\ paid' = Append(paid, q)
      /\ moved' = [moved EXCEPT ![r] = @ \cup {q}]
  BY DEF Settle, AnswerIs, Pay
<1>q. q \in Requests BY <1>0, <1>c, PostSteps, PostTyped
<1>a. Allowed(q) BY <1>0, <1>c DEF PayInv
<1>s. Signer(q) # {} BY <1>0, <1>c DEF SignInv, Served
<1> HIDE DEF q
<1> DEFINE n == Len(paid) + 1
<1>d. /\ paid' \in Seq(Requests)
      /\ n \in DOMAIN paid' /\ n \notin DOMAIN paid /\ paid'[n] = q
      /\ \A i \in DOMAIN paid : i \in DOMAIN paid' /\ paid'[i] = paid[i]
      /\ \A i \in DOMAIN paid' : i = n \/ (i \in DOMAIN paid /\ paid'[i] = paid[i])
  <2>1. paid \in Seq(Requests) BY DEF TypeOK
  <2>2. /\ paid' \in Seq(Requests) /\ Len(paid') = n /\ DOMAIN paid' = 1..n
        /\ \A i \in 1..Len(paid) : paid'[i] = paid[i]
        /\ paid'[n] = q
    BY <1>0, <1>q, <2>1, AppendProperties, LenProperties
  <2> QED BY <2>2, LogTyped
<1> HIDE DEF n
<1> DEFINE s == [run[r] EXCEPT !.step = "record", !.attempts = @ + 1]
<1>r. /\ s \in Runs /\ s.step = "record" /\ s.at = run[r].at
      /\ s.requests = run[r].requests
      /\ s.settled = run[r].settled /\ s.attempts = run[r].attempts + 1
      /\ s.blocked = run[r].blocked /\ s.quarantined = run[r].quarantined
      /\ RunMoves(r, s)
  <2>1. run[r] \in Runs /\ run[r].attempts + 1 \in Nat BY RunTyped
  <2>2. /\ s \in Runs /\ s.step = "record" /\ s.at = run[r].at
        /\ s.requests = run[r].requests
        /\ s.settled = run[r].settled /\ s.attempts = run[r].attempts + 1
        /\ s.blocked = run[r].blocked /\ s.quarantined = run[r].quarantined
    BY <2>1 DEF Runs, Steps
  <2>3. run' = [run EXCEPT ![r] = s] BY DEF Settle
  <2> QED BY <2>2, <2>3 DEF RunMoves, TypeOK
<1> HIDE DEF s
<1>m. /\ moved' \in [Runners -> SUBSET Requests] /\ moved'[r] = moved[r] \cup {q}
      /\ \A p \in Runners : p # r => moved'[p] = moved[p]
  BY <1>0, <1>q DEF TypeOK
<1>1. TypeOK' BY <1>u, <1>0, <1>q, <1>d, <1>r, <1>m DEF TypeOK, RunMoves
<1>2. RunInv' BY <1>u, <1>0, <1>r DEF RunInv, RunMoves, At
<1>3. SignInv'
  <2>1. \A p : Signer(p)' = Signer(p) BY <1>u DEF Signer
  <2>2. OnlySignedIntents' BY <1>u, <1>d, <1>s, <2>1 DEF SignInv, OnlySignedIntents
  <2> QED BY <1>u, <2>1, <2>2 DEF SignInv, Served
<1>4. HoldInv' BY <1>u DEF HoldInv, Holding, Served
<1>5. PayInv'
  <2>1. \A p : Allowed(p)' <=> Allowed(p) BY <1>u DEF Allowed
  <2>2. \A i \in DOMAIN paid : paid[i] # q BY <1>0 DEF PayInv
  <2> QED BY <1>u, <1>0, <1>a, <1>d, <2>1, <2>2 DEF PayInv
<1>6. BooksInv'
  <2>1. \A p \in Runners : p # r => RunnerBooks(p)'
    BY <1>u, <1>0, <1>d, <1>r, <1>m, OtherBooks
  <2>2. RunnerBooks(r)'
    <3>1. /\ RunnerBooks(r)
          /\ IsFiniteSet(moved[r]) /\ moved[r] \subseteq spent /\ moved[r] \subseteq baseline
          /\ Cardinality(moved[r]) = run[r].settled /\ run[r].attempts = run[r].settled
      BY <1>0, BooksOfRunners DEF RunnerBooks, At
    <3>2. /\ IsFiniteSet(moved[r] \cup {q})
          /\ Cardinality(moved[r] \cup {q}) = Cardinality(moved[r]) + 1
      BY <1>0, <3>1, FS_AddElement
    <3>3. s.settled + s.quarantined + s.blocked + 1 = s.at
      BY <1>0, <1>r, <3>1 DEF RunnerBooks, At
    <3>4. \E i \in DOMAIN paid' : paid'[i] = q BY <1>d
    <3>5. run'[r] = s /\ post'[r] = post[r] /\ post[r].request = q
      BY <1>u, <1>r DEF RunMoves, q
    <3> QED BY <1>u, <1>0, <1>r, <1>m, <3>1, <3>2, <3>3, <3>4, <3>5 DEF RunnerBooks, At
  <2>3. \A p \in baseline' : \E i \in DOMAIN paid' : paid'[i] = p
    BY <1>u, <1>d DEF BooksInv
  <2>4. \A p \in Runners : RunnerBooks(p)' BY <2>1, <2>2
  <2> QED BY <2>3, <2>4 DEF BooksInv, RunnerBooks
<1> QED BY <1>1, <1>2, <1>3, <1>4, <1>5, <1>6 DEF IInv

(* The boundary raises: the authorization may be spent, the run is over. *)
LEMMA SettleFailsKeeps ==
  ASSUME IInv, NEW r \in Runners, SettleFails(r)
  PROVE  IInv'
<1> USE Pieces
<1>u. UNCHANGED <<signed, nonces, log, paid, baseline, post, moved>> BY DEF SettleFails
<1>c. r \in Callers BY DEF Callers
<1>0. /\ post[r].step = "answered" /\ spent' \in {spent, spent \cup {post[r].request}}
  BY DEF SettleFails, AnswerIs
<1>q. post[r].request \in Requests BY <1>0, <1>c, PostSteps, PostTyped
<1> DEFINE s == [run[r] EXCEPT !.step = "failed", !.attempts = @ + 1]
<1>r. s \in Runs /\ s.step = "failed" /\ RunMoves(r, s)
  <2>1. run[r] \in Runs /\ run[r].attempts + 1 \in Nat BY RunTyped
  <2>2. s \in Runs /\ s.step = "failed" BY <2>1 DEF Runs, Steps
  <2>3. run' = [run EXCEPT ![r] = s] BY DEF SettleFails
  <2> QED BY <2>2, <2>3 DEF RunMoves, TypeOK
<1> HIDE DEF s
<1>1. TypeOK' BY <1>u, <1>0, <1>q, <1>r DEF TypeOK, RunMoves
<1>2. RunInv' BY <1>u, <1>r DEF RunInv, RunMoves, At
<1>3. SignInv' BY <1>u DEF SignInv, OnlySignedIntents, Signer, Served
<1>4. HoldInv' BY <1>u DEF HoldInv, Holding, Served
<1>5. PayInv' BY <1>u, <1>0 DEF PayInv, Allowed
<1>6. BooksInv'
  <2>1. \A p \in Runners : p # r => RunnerBooks(p)'
    BY <1>u, <1>0, <1>r, OtherBooks
  <2>2. RunnerBooks(r)'
    <3>1. RunnerBooks(r) BY BooksOfRunners
    <3> QED BY <1>u, <1>0, <1>r, <3>1 DEF RunnerBooks, RunMoves, At
  <2>3. \A p \in baseline' : \E i \in DOMAIN paid' : paid'[i] = p
    BY <1>u DEF BooksInv
  <2>4. \A p \in Runners : RunnerBooks(p)' BY <2>1, <2>2
  <2> QED BY <2>3, <2>4 DEF BooksInv, RunnerBooks
<1> QED BY <1>1, <1>2, <1>3, <1>4, <1>5, <1>6 DEF IInv

(* The payment is recorded and counted. *)
LEMMA RecordKeeps ==
  ASSUME IInv, NEW r \in Runners, Record(r)
  PROVE  IInv'
<1> USE Pieces
<1>u. UNCHANGED <<signed, nonces, log, spent, paid, post, moved>> BY DEF Record
<1>c. r \in Callers BY DEF Callers
<1>0. At(r, "record") /\ baseline' = baseline \cup {post[r].request} BY DEF Record
<1>b. RunnerBooks(r) BY BooksOfRunners
<1>q. /\ post[r].step = "answered" /\ post[r].request \in Requests
      /\ \E i \in DOMAIN paid : paid[i] = post[r].request
  BY <1>0, <1>b, <1>c, PostSteps, PostTyped DEF RunnerBooks
<1>a. run[r].at <= Len(Scenarios) /\ Len(run[r].requests) = run[r].at
  BY <1>0 DEF RunInv, At
<1>t. /\ run[r] \in Runs /\ run[r].at \in Nat /\ run[r].settled \in Nat
      /\ run[r].settled + 1 \in Nat
      /\ run[r].quarantined \in Nat /\ run[r].blocked \in Nat
  BY RunTyped
<1> DEFINE s == [run[r] EXCEPT !.step = "scenario", !.at = @ + 1, !.settled = @ + 1]
<1>r. /\ s \in Runs /\ s.step = "scenario" /\ s.at = run[r].at + 1
      /\ s.requests = run[r].requests
      /\ s.settled = run[r].settled + 1 /\ s.attempts = run[r].attempts
      /\ s.blocked = run[r].blocked /\ s.quarantined = run[r].quarantined
      /\ RunMoves(r, s)
  <2>1. Len(Scenarios) \in Nat BY AutonomousAssumption, LenProperties
  <2>2. run[r].at + 1 \in 1..(Len(Scenarios) + 1) BY <1>a, <1>t, <2>1
  <2>3. /\ s \in Runs /\ s.step = "scenario" /\ s.at = run[r].at + 1
        /\ s.requests = run[r].requests
        /\ s.settled = run[r].settled + 1 /\ s.attempts = run[r].attempts
        /\ s.blocked = run[r].blocked /\ s.quarantined = run[r].quarantined
    BY <1>t, <2>2 DEF Runs, Steps
  <2>4. run' = [run EXCEPT ![r] = s] BY DEF Record
  <2> QED BY <2>3, <2>4 DEF RunMoves, TypeOK
<1> HIDE DEF s
<1>1. TypeOK' BY <1>u, <1>0, <1>q, <1>r DEF TypeOK, RunMoves
<1>2. RunInv' BY <1>u, <1>a, <1>r DEF RunInv, RunMoves, At
<1>3. SignInv' BY <1>u DEF SignInv, OnlySignedIntents, Signer, Served
<1>4. HoldInv' BY <1>u DEF HoldInv, Holding, Served
<1>5. PayInv' BY <1>u DEF PayInv, Allowed
<1>6. BooksInv'
  <2>1. \A p \in Runners : p # r => RunnerBooks(p)'
    BY <1>u, <1>0, <1>r, OtherBooks
  <2>2. RunnerBooks(r)'
    <3>1. s.settled + s.quarantined + s.blocked + 1 = s.at
      BY <1>0, <1>b, <1>r, <1>t DEF RunnerBooks, At
    <3>2. run'[r] = s BY <1>r DEF RunMoves
    <3> QED BY <1>u, <1>0, <1>b, <1>r, <3>1, <3>2 DEF RunnerBooks, At
  <2>3. \A p \in baseline' : \E i \in DOMAIN paid' : paid'[i] = p
    BY <1>u, <1>0, <1>q DEF BooksInv
  <2>4. \A p \in Runners : RunnerBooks(p)' BY <2>1, <2>2
  <2> QED BY <2>3, <2>4 DEF BooksInv, RunnerBooks
<1> QED BY <1>1, <1>2, <1>3, <1>4, <1>5, <1>6 DEF IInv

-----------------------------------------------------------------------------
LEMMA StutterKeeps == IInv /\ UNCHANGED vars => IInv'
<1> SUFFICES ASSUME IInv, UNCHANGED vars PROVE IInv' OBVIOUS
<1> USE Pieces
<1>u. UNCHANGED <<signed, nonces, log, spent, paid, baseline, post, run, moved>>
  BY DEF vars
<1>1. TypeOK' BY <1>u DEF TypeOK
<1>2. RunInv' BY <1>u DEF RunInv, At
<1>3. SignInv' BY <1>u DEF SignInv, OnlySignedIntents, Signer, Served
<1>4. HoldInv' /\ PayInv' BY <1>u DEF HoldInv, PayInv, Holding, Served, Allowed
<1>5. BooksInv' BY <1>u DEF BooksInv, At
<1> QED BY <1>1, <1>2, <1>3, <1>4, <1>5 DEF IInv

LEMMA NextKeeps == IInv /\ [Next]_vars => IInv'
<1> SUFFICES ASSUME IInv, Next PROVE IInv' BY StutterKeeps
<1>1. ASSUME NEW c \in Callers, Serve(c) PROVE IInv'
  BY <1>1, RejectUnauthenticatedKeeps, RefuseKeeps, DecideKeeps, PublishKeeps,
     PublishFailsKeeps
  DEF Serve
<1>2. ASSUME NEW c \in Clients, NEW request \in Requests, NEW key \in Keys,
             NEW signature \in signed \cup {[key |-> KeyOf[c], request |-> request]},
             ClientPosts(c, request, key, signature)
      PROVE  IInv'
  BY <1>2, ClientPostsKeeps
<1>3. ASSUME NEW r \in Runners, Start(r) \/ Proceed(r) \/ Fail(r) PROVE IInv'
  <2>1. CASE \E time \in Times : Submit(r, time) BY <2>1, SubmitKeeps
  <2>2. CASE Fail(r) \/ Unexpected(r) BY <2>2, FailKeeps
  <2>3. CASE Quarantine(r) \/ Block(r) BY <2>3, SetAsideKeeps
  <2>4. CASE Start(r) BY <2>4, StartKeeps
  <2>5. CASE Settle(r) BY <2>5, SettleKeeps
  <2>6. CASE SettleFails(r) BY <2>6, SettleFailsKeeps
  <2>7. CASE Record(r) BY <2>7, RecordKeeps
  <2>8. CASE Report(r) BY <2>8, ReportKeeps
  <2> QED BY <1>3, <2>1, <2>2, <2>3, <2>4, <2>5, <2>6, <2>7, <2>8 DEF Proceed
<1> QED BY <1>1, <1>2, <1>3 DEF Next

LEMMA Inductive == Spec => []IInv
BY InitIInv, NextKeeps, PTL DEF Spec

-----------------------------------------------------------------------------
(* Every reachable state of the service and of the runs has its type. *)
THEOREM AutonomousTypeCorrect == Spec => []TypeOK
<1>1. IInv => TypeOK BY DEF IInv
<1> QED BY <1>1, Inductive, PTL

(***************************************************************************)
(* Whatever clients sign and resend: no receipt, nonce or payment of an    *)
(* agent without a signature by a key registered to it (agent_auth.py:68). *)
(***************************************************************************)
THEOREM SignedBeforeTouched == Spec => []OnlySignedIntents
<1>1. IInv => OnlySignedIntents BY DEF IInv, SignInv
<1> QED BY <1>1, Inductive, PTL

(* a set whose elements are all the same *)
LEMMA AtMostOne ==
  ASSUME NEW S, \A x, y \in S : x = y
  PROVE  Cardinality(S) <= 1
<1>1. CASE S = {} BY <1>1, FS_EmptySet
<1>2. CASE S # {}
  <2>1. PICK x \in S : TRUE BY <1>2
  <2>2. S = {x} BY <2>1
  <2>3. Cardinality({x}) = 1 BY FS_Singleton
  <2> QED BY <2>2, <2>3
<1> QED BY <1>1, <1>2

(***************************************************************************)
(* One receipt at most admits a pair, however many refuse it, it pays once *)
(* at most, over all runs and clients, and every payment's ALLOW is in the *)
(* stream (autonomous_api.py:121, autonomous_runner.py:291).               *)
(***************************************************************************)
THEOREM StreamAccounts == Spec => []LogAccountsForMoney
<1>1. IInv => LogAccountsForMoney
  <2> SUFFICES ASSUME IInv PROVE LogAccountsForMoney OBVIOUS
  <2> USE Pieces
  <2>1. ASSUME NEW pair PROVE Cardinality(Admissions(pair)) <= 1
    <3>1. \A i, j \in Admissions(pair) : i = j BY DEF Admissions, Admits, HoldInv
    <3> QED BY <3>1, AtMostOne
  <2>2. \A i, j \in DOMAIN paid : Pair(paid[i]) = Pair(paid[j]) => i = j
    <3> SUFFICES ASSUME NEW i \in DOMAIN paid, NEW j \in DOMAIN paid,
                        Pair(paid[i]) = Pair(paid[j])
                 PROVE  i = j
      OBVIOUS
    <3>1. PICK k \in DOMAIN log : log[k].request = paid[i] /\ Admits(log[k])
      BY DEF PayInv, Allowed, Admits
    <3>2. PICK l \in DOMAIN log : log[l].request = paid[j] /\ Admits(log[l])
      BY DEF PayInv, Allowed, Admits
    <3>3. k = l BY <3>1, <3>2 DEF HoldInv
    <3> QED BY <3>1, <3>2, <3>3 DEF PayInv
  <2>3. ASSUME NEW pair PROVE Cardinality({i \in DOMAIN paid : Pair(paid[i]) = pair}) <= 1
    <3>1. \A i, j \in {k \in DOMAIN paid : Pair(paid[k]) = pair} : i = j BY <2>2
    <3> QED BY <3>1, AtMostOne
  <2>4. \A i \in DOMAIN paid : \E j \in Admissions(Pair(paid[i])) :
          log[j].request = paid[i] /\ log[j].decision = "ALLOW"
    BY DEF PayInv, Allowed, Admissions
  <2> QED BY <2>1, <2>3, <2>4 DEF LogAccountsForMoney
<1> QED BY <1>1, Inductive, PTL

(***************************************************************************)
(* A report counts the payments of its run, all of them recorded with the  *)
(* behaviour engine, whatever else was posted meanwhile, and accounts for  *)
(* every scenario (autonomous_runner.py:291, 296).                          *)
(***************************************************************************)
THEOREM ReportIsTrue == Spec => []ReportTellsMoney
<1>1. IInv => ReportTellsMoney
  <2> SUFFICES ASSUME IInv PROVE ReportTellsMoney OBVIOUS
  <2> USE Pieces
  <2>1. baseline \subseteq Range(paid) BY DEF BooksInv, Range
  <2>2. ASSUME NEW r \in Runners
        PROVE  /\ Running(r) =>
                    Cardinality(moved[r]) =
                      run[r].settled + (IF At(r, "record") THEN 1 ELSE 0)
               /\ At(r, "reported") =>
                    /\ run[r].attempts = run[r].settled
                    /\ run[r].settled = Cardinality(moved[r])
                    /\ moved[r] \subseteq baseline
                    /\ run[r].settled + run[r].quarantined + run[r].blocked =
                         Len(Scenarios)
    <3>1. RunnerBooks(r) BY BooksOfRunners
    <3>2. run[r].step \in Steps /\ run[r].settled \in Nat BY RunTyped
    <3> QED BY <3>1, <3>2 DEF RunnerBooks, Running, At, Steps
  <2> QED BY <2>1, <2>2 DEF ReportTellsMoney
<1> QED BY <1>1, Inductive, PTL
=============================================================================
