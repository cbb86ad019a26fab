# SolGuard in TLA+

SolGuard is a gateway that stands between an autonomous agent and its wallet.
The agent proposes payments; the gateway answers `ALLOW`, `REQUIRE_APPROVAL` or
`BLOCK`, and an allowed payment reaches a settlement adapter with a short-lived,
single-use authorization. The code is Python under `src/solguard` (paths below are
relative to the repository root). This directory holds TLA+ models of the parts
that carry state, TLC configurations that check them on small instances, and
proofs checked by TLAPS.

## 1. Inventory

| component | state it keeps | operations | what makes it correct |
|---|---|---|---|
| payment gateway (`gateway.py`) | none of its own; one call is a sequence of steps over the stores below | `process`, `evaluate` | one verdict per request; no money without the whole chain of checks; every exception ends in a verdict |
| request integrity (`integrity.py`) | set of consumed (agent, nonce) pairs, under a lock | `evaluate`, `consume_if_unused` | a pair is consumed once, expired requests consume nothing |
| mandate policy (`policy.py`) | immutable mandates | `evaluate` | only what the owner's lists and limit leave open |
| behaviour engine (`detection.py`) | per agent: deque of attempt times, clean baseline; no lock | `evaluate`, `record_allowed` | exact velocity count; the baseline learns settled payments only |
| wallet authorization (`authorization.py`) | set of consumed authorization identifiers, under a lock | `authorize`, `consume_if_unused` | bound to one request, unexpired, used once |
| simulated settlement (`simulation.py`) | balances, counters; no lock | `settle` | the balance table agrees with what was settled |
| audit stream (`audit.py`) | receipts window, chain tail, subscribers, under a lock; callbacks outside it | `publish`, `subscribe`, unsubscribe, `snapshot`, `verify_chain` | one unforked chain, nothing missed or repeated, tampering shows |
| dashboard runtime and store (`dashboard.py`) | owns one of each of the above, clock, counters, under one re-entrant lock | eight scenario operations, `snapshot`, `audit_receipts` | every operation ends; the screen shows what the money did |
| autonomous API (`autonomous_api.py`, `agent_auth.py`) | identities (immutable), gateway, stream; threaded server without a lock | `evaluate` | no decision without authentication, one receipt per decision |
| autonomous runner (`autonomous_runner.py`) | run counters | `run` | evaluate, settle and record stay in step |
| wallet signer (`wallet_signer.py`) | authorization store | `issue`, `verify`, `sign` | one backend call per signed authorization |
| x402 (`x402.py`) | requirement read from one answer, authorization store, call counters | parsing of HTTP 402 answers, `to_payment_request`, `matches`, `settle` with the signer's header | the one offer that was evaluated is signed |
| live x402 (`x402_live.py`) | the same, and an executor with the official SDK | `settle`, `execute`, the demonstration program | at most one external call per authorization; an unknown outcome is never retried; only a confirmed payment of the decided amount is reported |
| pay.sh (`paysh.py`) | authorization store | `probe`, `to_payment_request`, `settle` with an external command, the purchase program | no command for a refused or expired challenge |
| devnet confirmation (`devnet_rpc.py`) | none | `confirm`: two RPC calls and the matching of balance changes | exactly the transfer that was authorized |
| contracts (`contracts.py`) | none | records, parsing, formatting of amounts, digests | the request that is evaluated is the one that is bound |
| metadata sanitizer (`privacy.py`) | limits | `sanitize_payment` | no secret in a log; bounded; every loss reported |
| demo, security proof, unsafe wallet (`demo.py`, `security_proof.py`, `solguard_demo_reference`) | none | scripts | fixed results |

Components call each other synchronously. Concurrency comes from two
`ThreadingHTTPServer`s: the dashboard's handlers share a `DemoRuntime`, whose lock
they hold for a whole operation, and the autonomous API's handlers share gateway,
engine and audit stream and hold nothing. Stores, settlement, clocks and
subscribers are injected and may raise.

What is hard here: two requests with one nonce, or two presentations of one
authorization, in a race; time that passes between a check and its use; a
dependency that raises after it has already recorded something; the unlocked
balance and the unlocked attempt window; callbacks after a lock was released;
loops that wait for the system's own decisions to change; amounts that are
rounded on one path and exact on another; services outside that may answer
anything, twice, late, or two things that do not fit together; limits that cut
through what they should protect. `PROJECT.json` lists
each of these under `hazards` with its line and the properties that cover it.

## 2. Modules

| module | models | theorems |
|---|---|---|
| `PaymentSafety` | the promise: a chain of four single-use rights (claim, authorize, redeem, pay) | |
| `Policy` | `policy.py` and, for the properties, the owner's reading of a mandate | |
| `Gateway` | gateway, integrity guard, authorization guard, stores, simulated settlement, as steps of concurrent threads | |
| `GatewayProofs` | | eight theorems about `Gateway` |
| `MCGateway` | two small instances of `Gateway` | |
| `Audit`, `MCAudit` | the audit stream and its subscribers | |
| `AuditProofs` | | four theorems about `Audit` |
| `Detection` | the rules of the behaviour engine as operators | |
| `Velocity` | the attempt window under concurrent threads | |
| `VelocityProofs` | | the exact count under the lock |
| `Demo` | `DemoRuntime`: engine, gateway decision, settlement, receipts and scripts together | |
| `DemoProofs` | | three theorems about `Demo` |
| `ExternalSettlement`, `MCExternal` | live x402 and pay.sh settlement: unknown outcomes, restarts with empty stores | |
| `ExternalProofs` | | four theorems about `ExternalSettlement` |
| `Amounts` | the rounding of decimal amounts in `contracts.py` | |
| `X402` | requirements, requests, `matches` and the signed header of `x402.py` | |
| `PaySh` | the challenge of `paysh.py` and its request | |
| `Confirmation` | what `devnet_rpc.py` concludes from balances before and after | |
| `Purchase` | one purchase through each adapter, from the 402 answer to the result; extends the four above | |
| `Sanitizer` | `privacy.py` | |
| `BoundaryProofs` | | four theorems about `Purchase`, three about `Sanitizer` |
| `MCBoundary` | `Purchase` and `Sanitizer`, with the foreign data they meet | |
| `SingleUse` | the promise of a wallet: a right is spent before it is used, and used once at most | |
| `WalletSigner`, `MCWalletSigner` | issuer, verifier and the isolated signers of several wallets | |
| `WalletSignerProofs` | | five theorems about `WalletSigner` |
| `Autonomous`, `MCAutonomous` | agent authentication, decision API and autonomous runner together | |
| `AutonomousProofs` | | four theorems about `Autonomous` |

`Gateway` and `Autonomous` overlap on purpose: `Gateway` has every step of one
process with its stores, `Autonomous` takes a decision and a settlement as one
step each and has what happens around them, across components that share no
lock. `Velocity` and `Demo` share the rules in `Detection`.
`ExternalSettlement` and `Purchase` are two views of the same adapters: the
first has threads, the authorization store and restarts, and one kind of request;
the second one purchase at a time with all the data that the adapters compare.

### Gateway

A thread's `call` record is its position in `_process` and in what `_process`
calls:

    idle -> integrity -> decide -> guard -> consume -> balance -> debit -> record -> idle
            integrity.py  gateway.py  authorization.py   simulation.py      gateway.py:197

One action is one step between two accesses to shared state. The two
`consume_if_unused` operations hold a lock, so each is one action; the balance
is read in `ReadBalance` and written in `Debit`. A thread begins a call with
`process`, with `evaluate`, or as a wallet that presents an authorization it was
given (or none) to the settlement adapter, as the autonomous runner does after
`evaluate`; the authorizations it may present are those of earlier `ALLOW`
answers. The clock is read once at the start of a gateway call and once at the
guard. `DependencyRaises` lets the injected component of a step raise, after it
has recorded the identifier or before. The behaviour engine is any evaluator
that answers CLEAN, FLAG or BLOCK, so nothing proved here depends on its rules.

A canonical digest stands for the request it covers, and an authorization
identifier, the hash of digest and time, for the authorization: SHA-256 over
canonical JSON is taken to be injective. A request's identifier is part of the
request. The variables `claimed`, `issued`, `debits` and `answers` are history.

The refinement to `PaymentSafety` maps a claim to the consumption of the pair,
an authorization to an issued one, a redemption to the consumption of the
identifier and a payment to a balance write.

### Audit

`publish` and `subscribe` do their bookkeeping under the stream's lock, one
action each; every callback is an action of its own (`Deliver`), taken from the
`outbox` of the thread that makes the calls. A digest is the pair it is computed
from. A subscriber that raises is no different from one that returns, because
the loops go on in both cases. No payload that a gateway outcome produces
makes `_payload` raise, so `publish` always completes. Unsubscribing takes one entry
out of the list of subscribers.

### Detection, Velocity, Demo

`Detection` compares `amount * number` with `multiplier * total` where the code
divides decimals of 28 digits: at an exact multiple the average terminates and
both agree, and elsewhere the rounding is many orders of magnitude smaller than
a difference of two amounts. `Velocity` gives every deque operation of
`_record_attempt` an action, and keeps the times of all attempts ever appended as
history, against which a count is judged. `Demo` treats an operation, which holds the
runtime's lock throughout, as a script of instructions, and keeps time relative
(ages of attempts, capped one second beyond the window), so that its state is
finite without a bound on the number of operations. Stream and store of the
dashboard have the same retention and are one variable. The demo's requests all
satisfy its fixed mandate.

### ExternalSettlement

The adapter that a program was built with, and which attempts are for its own
requirement, are chosen once. A call is `guard -> consume -> execute -> response ->
confirm`; what the service gets goes into `given`. Whether such a payment lands
is not modelled, because nobody in the code learns it: pay.sh has the exit and the
output of its command, which is its settlement whatever the command did, and the
x402 adapter asks the RPC node about the transfer that the facilitator names, which
need not be this one. What a report may then say is in `Purchase`. So each answer
may come after each payment, and the properties here are about what is given and
how often. An authorization is redeemed under its `Identifier`, the hash of digest
and time, which another life can compute again; `admitted`, the life whose gateway
let the request pass, is history. `Restart` empties the nonce and authorization
stores, which live in memory, drops the running calls and lets everything that
left the process live on.

### Amounts, X402, PaySh, Confirmation, Purchase

`parse_amount`, comparisons and integers keep every digit, while `format_amount`
and a division keep 28 significant ones, half to even. `Amounts` is this rounding
with `Precision` digits on whole smallest units, which a scale does not affect.
The request, the mandate and the digest carry the rounded amount, the signed
offer and the confirmation the exact one.

An answer of a resource is a record of its status, the number of its payment
headers, one flag for everything about its encoding, and its offers. `padded`
says that an offer spells its amount with leading zeros: the parser takes it, the
comparison of the confirmed change (`x402_live.py:165`) compares spellings. A
pay.sh challenge is a record of its amount, scale, expiry and two flags.

`Purchase` takes the adapter's requirement from one answer (`offered`) and the
request from the same or another (`answer`), for either settlement mode and with
its own or the doubled amount, which the live program makes to see it blocked:

    answered -> decide -> simulated                                        -> done
                       -> live -> facilitator -> status -> transaction -> compare -> done
                       -> paysh                                            -> done

The facilitator reports any signature on the ledger with several amounts and
payers, the signer of the simulated adapter accepts any offer of the answer, the
Pay command succeeds or fails before or after it has acted. `Fork` moves the
payment to another slot between the two RPC calls. `Confirmation` builds the two
balance lists as the RPC service does: an account that a transaction opens is
missing before it, one that it closes is missing after it. A transaction is the gain
or loss of each account it touches, which is all that the balance lists show. The
text of an amount has 64 characters at most, hence `MaxDigits` in `Payable`. What the code cannot
know is not in a property: a facilitator that names an earlier transaction with
the same parties and amount is believed, and `SettledAsDecided` speaks of the
named transaction.

### Sanitizer

A text is a sequence of words, and a secret of any category the two words `sec`
`ret`, so that a cut can run through one. Redaction, cutting, key names, the
uniqueness suffix with its own cut, the limits of depth, items, length and size
and the sensitive field names are translated in the order in which the code
applies them. Only whether a redaction was counted is kept, not how many.

`_sanitize_value` and `_sanitize_mapping` call each other one level deeper until
`max_depth`; `Safe` is a recursive function of the levels that are left, and each
loop one of the entries done so far. `Values` are the samples and everything in
them, but for what a sensitive field hides, which the code does not look at.
`IndexText` gives the text of an index, `_2` say.

### WalletSigner

`Accept` is one action for all checks of `sign` before the store is asked,
because they read nothing that changes but the clock, once; consumption and the
backend's signature are steps of their own. A thread presents any transaction
with any content under any signature the issuer ever made, so altered terms,
another wallet, another request and a signature for something else are all
inputs. `store` gives each signer its store: the wallets may share one or not.
`StoreFails` and `BackendFails` may have recorded or signed before they raise.
The refinement maps a right to a store and an authorization, spending it to its
consumption and using it to a signature.

### Autonomous

An API call is `sent -> decided -> answered` on a thread of its own; the
runner's step is `scenario -> waiting -> record -> scenario`. A client signs any
request with its own key and resends requests and signatures that exist. The
gateway's answer to a fresh pair is any decision (`Decide`), and it may refuse any
signed request without taking the nonce (`RefuseUnconsumed`), because the request
has expired or because a store raised first; the API publishes a receipt for each
of these refusals, so `LogAccountsForMoney` counts the receipts that admit a pair and
allows any number that refuse it. `Fail` is the exception that
may end a run at any step, with the call that it had sent still being served. A
runner does not start another run while its previous call is being served; the
client's calls show that overlap.

## 3. Runs

| run | instance | shows |
|---|---|---|
| `gateway_race` | 2 threads without a lock, an original, an altered copy with its nonce, a forbidden payment; clock 0..2, authorizations live 1; every step may raise | `PaidOncePerPair`, `OneVerdictPerPair`, `RefusedNeverPaid`, `PaidWithPapers`, `BaselineOnlyFromPaid`, refinement of `PaymentSafety` |
| `gateway_books` | 2 threads under the callers' lock; two payments the balance covers one by one and not together, one agent without a balance | `BooksBalance`, `ConsumedIsAnswered` |
| `audit_concurrent` | 2 threads, 2 subscriptions, a window of 3, 5 receipts, 2 outcomes | `RetainedChain`, `TamperEvident`, `DeliveredOnce`, `NothingMissed` |
| `audit_order` | 2 threads | `InOrder` is violated |
| `velocity` | 2 threads with and without the callers' lock, 4 attempts, window 2, clock 0..3 | `CountIsExact` with the lock, `CallsReturn` always |
| `velocity_unlocked` | the same without the lock | `EveryAttemptCounts` is violated |
| `demo` | the code's rule constants, balances of 30, 40 and 1000 | `SettledIsLearned`, `ScreenTellsScenario`, `VelocityCapsSettlement`, `OperationsReturn` |
| `demo_small_balance` | a balance of 20 | `EveryOperationReturns` is violated |
| `external` | 2 threads, 1 attempt, either adapter, 1 restart, clock 0..3, requests live 1 and authorizations 2 | `RestartExposure`, `ExposureEnds`, `FailureIsFinal` |
| `boundary` | a precision of 2 digits, 20 answers, 288 challenges, 11 earlier transactions; metadata of up to four keys with plain values, or of up to two, one of them with any value | `SignedAsEvaluated`, `SettledAsDecided`, `HonestIsReported`, `RefusedTouchesNothing`; `NothingSensitive`, `Bounded`, `LossIsReported` |
| `wallet_signer` | 2 threads, 2 wallets, shared and private stores, 3 requests with an authorization each, clock 0..1 | `SignedAsIssued`, `SignedOnce`, `ReceiptsAreSignatures`, refinement of `SingleUse` |
| `autonomous` | 2 runs of 3 scenarios, a client with another agent's key, 2 times | `OnlySignedIntents`, `LogAccountsForMoney`, `ReportTellsMoney`, `RunsEnd` |

Bounds. Two threads suffice for every race named above: each is between two
steps of one call and one step of another. In `gateway_race` the lifetime of an
authorization is 1 and requests expire at 2 with the clock up to 2, so that
requests and authorizations expire before, between and after every step; three
requests give one contest for a pair and one payment the policy refuses. In
`gateway_books` the clock goes to 1, which lets one request and every first
authorization expire. `MaxPublished` exceeds the audit window, so receipts are
dropped, and a window of three has a middle to tamper with. `MaxAttempts`
exceeds what the velocity window holds, so attempts are cleared. `Demo` has no
bound but the retention (6 receipts instead of 50: the longest scenario is
followed by five). `external` has one restart, the first that lets an attempt
be sent again; a second one only adds a further authorization to the count that
`RestartExposure` states. Its authorizations live longer than its requests, and the
clock goes on beyond the expiry of both, so that an authorization is redeemed, refused
and redeemed again in another life after its request has expired, which is what
`ExposureEnds` is about. In `wallet_signer` one authorization outlives its
request, one expires before it, and one is for a request that no wallet may
pay. In `autonomous` the runner's second run meets the nonces of its first, and
two times give requests that differ under one nonce; the client has one call,
which it may spend before, during or after any of the runner's. Symmetry over
threads is used only where no liveness is checked.

In `boundary` the offered amounts lie below, on and above the half of the last
digit that is kept, next to an even and to an odd digit, and the limit of 110
sits between them, so that rounding decides what the mandate permits. The
answers have no offer, an unsupported one before or after a supported one, two
supported ones, a zero amount, another recipient, and lifetimes at and beyond
their bounds. The earlier transactions each differ from the expected payment in
one respect: outcome, amount, a split, the payer, the recipient, a second equal
transfer, an account that changes hands. Three words, three items, a depth of
two and fourteen words in all are each exceeded by some metadata, a secret lies
across every cut, and the keys collide when cut, when redacted and when a suffix
was added. Metadata and purchase share no state, so one is varied while the
other is fixed.

Deadlock is checked except in the runs of `Velocity`, `MCExternal` and
`MCAutonomous`, where the bounds on attempts, time, runs and calls end the
behaviour, and of `MCBoundary`, where a purchase ends.

Fairness. `Gateway!FairSpec` and `Velocity!FairSpec` are weakly fair in the
continuation of each begun call: a running thread is scheduled by the operating
system, and none of its steps waits for another thread longer than a
`consume_if_unused` takes. Nobody has to call, and the clock need not advance.
`Demo!FairSpec` is weakly fair in the one operation that holds the lock.
`Autonomous!FairSpec` is weakly fair in the service of a call that was sent and
in the next step of a run that has begun; no run has to begin, no client has to
call, and nothing has to fail.

Every property has a mutant in `PROJECT.json`: an operator, next to the one it
replaces, that errs the way the code might.

## 4. What disagrees with the documentation

* `audit_order`: `audit.py:210` promises ordered events and `docs/AUDIT.md:29`
  a replay in publication order; callbacks run after the lock is released, so
  with two threads receipts overtake each other.
* `velocity_unlocked`: `docs/AUTONOMOUS_RUNNER.md:48-49` says attempts count
  toward the velocity rule; two unlocked callers that clear the same old head
  drop a new attempt with it. Under the dashboard's lock the count is exact.
* `demo_small_balance`: the constructor of `DemoRuntime` accepts any positive
  balance, and with less than thirty (forty after a replay scenario) the loops
  of `run_attack` and its relatives never end and keep the lock. The
  counterexample is a cycle of the `Seed` step: the velocity rule escalates
  every further attempt because the attempts themselves fill the window.

Four things that the models show and that no run is made for:

* `docs/AUTHORIZATION.md:16` says a `BLOCK` decision never calls a settlement
  adapter. The code also answers `BLOCK` (`SETTLEMENT_UNAVAILABLE`) for a payment
  that the service has got and whose outcome is unknown, and that may still land
  (`FailureIsFinal` is about these answers);
  `docs/PAYSH.md:54` describes this outcome.
* An x402 offer whose amount has leading zeros is paid, confirmed and then
  refused: `HonestIsReported` excepts it by name.
* `docs/PRIVACY.md` says values that exceed a limit are removed rather than
  partially logged; a text that is too long is logged up to the bound, with
  `[TRUNCATED]` after it.
* Two keys of metadata may end under one name, where the later entry overwrites
  the earlier; `LossIsReported` shows that a limit or a redaction is always among
  the evidence then.

## 5. Proofs

`GatewayProofs` proves, for all sets of threads and requests, all mandates,
balances, lifetimes and bounds on the clock, with or without the callers' lock
and whatever subset of the steps may raise:

| theorem | property |
|---|---|
| `TypeCorrect` | `TypeOK` |
| `PairPaidOnce` | `PaidOncePerPair` |
| `PairJudgedOnce` | `OneVerdictPerPair` |
| `RefusalIsFinal` | `RefusedNeverPaid` |
| `PapersBehindMoney` | `PaidWithPapers` |
| `BaselineIsPaid` | `BaselineOnlyFromPaid` |
| `GatewayImplementsChain` | `ChainOfRights`, the refinement of `PaymentSafety` |

They assume `PolicyAssumption` and `GatewayAssumption` only, which TLC evaluates
in every run of `MCGateway`. The argument is one inductive invariant,

    IInv == TypeOK /\ ClaimInv /\ IssueInv /\ HoldInv /\ AuthInv /\ AnswerInv /\ MoneyInv

because none of the properties is inductive: that a pair is paid once depends
on who may still pay. `ClaimInv` says a consumed pair belongs to one claimed
request; `HoldInv` that of all threads beyond the integrity guard one holds the
pair; `IssueInv` that an authorization was issued for a claimed request by the
call that held it, and once; `AuthInv` that a thread beyond the consumption has
an authorization no other thread has; `AnswerInv` relates answers to all of
these; `MoneyInv` that a debit needs a consumed authorization and happens once
for it. There is one lemma per action (`ConsumeNonceKeeps`, `AuthorizeKeeps`,
`DebitKeeps` and so on), `Pieces` takes the record of a moving call apart, and
the refinement has one lemma per abstract step.

`WalletSignerProofs` proves, for all sets of threads, wallets, stores, requests
and authorizations, all expiries and every assignment of stores to wallets:

| theorem | property |
|---|---|
| `SignerTypeCorrect` | `TypeOK` |
| `ExactBinding` | `SignedAsIssued` |
| `OneSignature` | `SignedOnce` |
| `ReceiptsProveSignatures` | `ReceiptsAreSignatures` |
| `SignersImplementSingleUse` | `PermissionIsSingleUse`, the refinement of `SingleUse` |

from `SignerAssumption`, with the inductive invariant

    IInv == TypeOK /\ IssuedInv /\ CheckedInv /\ HoldInv /\ UseInv /\ SignedInv

`IssuedInv` says what the issuer signs; `CheckedInv` that a call beyond the
checks is for something that was issued, which the signature alone does not
carry over to the backend's step; `HoldInv` that a thread before the backend
holds a spent and unused right that no other thread holds; `UseInv` that a use
needs a spent right; `SignedInv` that every signature is the one use of its
right and every receipt a signature. `StoreFails` and `RejectReplayed` share
one lemma (`RefusalKeeps`), `Sign` and `BackendFails` another (`SignatureKeeps`).

`BooksAreBalanced` (`BooksBalance`) assumes the callers' lock, as the property
does: without it two threads read one balance and the later write hides the
earlier debit. It also assumes a finite set of requests, over which the sum of
what an agent spent is taken. `LockInv` adds to `IInv` that one call is under way
and that the balance it has read is still the balance. The sum is a fold over a
set; the lemmas `TotalIsZero`, `TotalKept` and `TotalGrows` say what one debit does
to it, by induction over the finite set. An induction theorem that takes an
operator cannot be applied by the provers, so `FiniteInduction` states it for a
set of sets and uses that the strict subset order is well-founded.

`ExternalProofs` proves, for all sets of threads and attempts, either adapter,
and any number of restarts:

| theorem | property |
|---|---|
| `ExternalTypeCorrect` | `TypeOK` |
| `RestartCost` | `RestartExposure` |
| `ExposureIsBounded` | `ExposureEnds` |
| `NoSecondTry` | `FailureIsFinal` |

    IInv == TypeOK /\ DatedInv /\ GuardInv /\ PaymentInv /\ FailedInv /\ OnceInv
            /\ CountInv /\ PastInv /\ AdmissionInv /\ PrivateInv

The counting behind `RestartCost` is in `CountInv`: a life of the process adds one
authorization at most to those known of an attempt, because its nonce store admits
the attempt once; `OnceInv` maps what was sent in this life one to one into them,
and `PastInv` keeps the counts of lives that are over. `ExposureIsBounded` needs
`DatedInv`, that an authorization is dated before its request expires, and the
guard's comparison (`GuardInv`). `NoSecondTry` needs `AdmissionInv`, that a life
admits an attempt to one authorization and no later life gets another of it;
`PrivateInv`, that the authorization of a `process` call under way is in nobody
else's hands; and `FailedInv`, that it is in nobody's once the call has failed
with its payment given.

`AutonomousProofs` proves, for all sets of clients, runners, keys and agents and
every list of scenarios:

| theorem | property |
|---|---|
| `AutonomousTypeCorrect` | `TypeOK` |
| `SignedBeforeTouched` | `OnlySignedIntents` |
| `StreamAccounts` | `LogAccountsForMoney` |
| `ReportIsTrue` | `ReportTellsMoney` |

    IInv == TypeOK /\ RunInv /\ SignInv /\ HoldInv /\ PayInv /\ BooksInv

`HoldInv` says that an answer that admits a pair, in the stream or about to be, has
consumed the nonce and is the only one, beside any number of refusals; `PayInv` that
an `ALLOW` a runner has seen is in the stream and that a payment happens once; `BooksInv` follows a payment from the settlement
through the record step to the report, with the cardinality of what a run moved.

`AuditProofs` proves, for all sets of threads and subscriptions and every
retention:

| theorem | property |
|---|---|
| `WindowIsOneChain` | `RetainedChain` |
| `TamperingIsEvident` | `TamperEvident` |
| `CalledOnce` | `DeliveredOnce` |
| `CalledForAll` | `NothingMissed` |

    IInv == SequenceInv /\ WindowInv /\ CallInv /\ OnceInv /\ OwedInv

`WindowInv` is what an exported window satisfies: sealed receipts, numbered up to
the sequence without a gap, linked, ending in the tail's digest; each form of
tampering then breaks one of these links, because a digest is injective. `OnceInv`
compares receipts by their numbers, between what was received and what all
threads still have to deliver, and `OwedInv` is `NothingMissed` in those numbers.
`SequenceInv` says what is a sequence, without naming the set of receipts, whose
digests nest without bound.

`BoundaryProofs` proves about `Purchase!Spec`, for all answers, challenges and
transactions, every precision and every limit:

| theorem | property |
|---|---|
| `SignedIsEvaluated` | `SignedAsEvaluated` |
| `SettledIsDecided` | `SettledAsDecided` |
| `HonestyIsReported` | `HonestIsReported` |
| `RefusalTouchesNothing` | `RefusedTouchesNothing` |

The assumptions on foreign data say what an earlier
transaction is (named apart from the payment, integer balance changes) and that
powers of ten are positive numbers, which the provers do not know.

    IInv == TypeInv /\ StageInv /\ PayShInv /\ SentInv /\ SimulatedInv /\ InvokedInv
            /\ NamedInv /\ SettledInv /\ HonestIsReported

`SentInv` carries the evaluation (mandate, matching requirement, mode, signed
offer) to the steps after the payment was sent. `RoundedIsNear` proves that
rounding half to even errs by half a unit of the last kept digit at most, for any
precision. `ListsTellChange`, `ListsTellOwner` and `ShownHasMoved` say what the two
balance lists, in which accounts may be missing, tell of a transaction;
`PaymentIsShown` that they show the payment whatever accounts it opens or empties.

About `SanitizerSpec`, which shares no variable with the purchase and is beside it in
the run, it proves for all metadata, keys, sensitive fields and bounds:

| theorem | property |
|---|---|
| `SecretsStayOut` | `NothingSensitive` |
| `CopyIsBounded` | `Bounded` |
| `LossIsNeverSilent` | `LossIsReported` |

`CopyInv` only says that the copy is what `Sanitized` makes of the metadata; the work
is in the lemmas about what that is. `RedactedClean` shows that a redacted text has no
half of a secret, `SafeKeyIsKey` that a key keeps its bound with the suffix,
`SafeKeysAreKeys`, `SortedListsKeys` and `KeptKeysNamed` that every kept key has one safe
key. `Copies(left)` is what may stand where so many levels are left, `HoldsCopies` what a
copy looks like from outside: harmless, bounded, with copies of one level less in it
(`CopiesHoldCopies`). So every node of a copy is a copy made at its own depth
(`NodesAreCopies`), which gives the first two theorems. `LosslessCopies` goes up from the
deepest level: without a report no text was changed, no entry is missing and every name
is the key itself. Recursion and induction over levels, keys and words rest on one
lemma about sets of numbers, `CountingUp`: that a recursive function exists up to every
number is what its definition needs to be unfolded.

`SanitizerAssumption` says that a text has both halves of a secret or none, that keys
are listed once, and that `max_metadata_bytes` leaves room for the two words that
replace a copy. `CopyIsBounded` assumes besides that `max_string_length` exceeds the
suffix that makes a key unique. The constructor takes any positive limit, and with one
that short `prefix_length` is clamped to one (`privacy.py:150`), so that such a key does
exceed the limit.

`VelocityProofs` proves `CountsTheWindow` (`CountIsExact`) for any number of threads
and calls, every window and every clock. Under the lock the deque is the end of
the sequence of all attempts (`SuffixInv`), that sequence is ordered by time
(`LockInv`), what was dropped is outside the window of every call to come
(`OutlivedInv`), and the loop ends on a head that is inside it (`LoopInv`): so what
is left is the window, and the count is its length.

`DemoProofs` proves

| theorem | property |
|---|---|
| `SpentIsLearned` | `SettledIsLearned` |
| `VelocityCaps` | `VelocityCapsSettlement` |
| `ScreenIsTrue` | `ScreenTellsScenario` |

The first holds for every calibration of the rules and every initial balance. The
second assumes `Calibrated`: the velocity window is at least as long as its
threshold, and the threshold is 6 at most (10 seconds and 5 attempts in
`detection.py`). A threshold of 7 would not be reached by a burst of five and the
payment after it, and every repetition of `run_attack` would let more payments
through. The invariant `Paced` counts attempts: the last `m` were made in
successive seconds and at most `m + 2` payments were settled, so that each payment
needs an attempt of its own until the window is full. What makes it inductive is
what the scripts allow: a wait is followed by a whole burst, refused because the
recipient is new, or by a first-seen recipient in a script that has just reset
(`ScriptInv`, `BurstInv`, `ApprovalInv`), and a replay, whose second passes without
an attempt, comes right after the first payment (`ReplayInv`).

The third assumes `Readable`, which names what the scripts of `dashboard.py` take for
granted of the other files:

- the velocity threshold is 5. The attack scenario promises four escalations and a
  block from five attempts, so neither 4 nor 6 will do;
- the window is at least 4 seconds, which a burst spans, and at most 10, because the
  scripts wait 11;
- the amount rule blocks from a multiple of 3 or more, above the 2.5 normal payments
  of an attack, and the drain rule from one of 2 or less;
- the stream retains 5 receipts or more, and the balance covers one payment. With a
  smaller balance the replay scenario shows two blocks, with a smaller retention the
  screen cannot show a burst.

`AmountWarmup`, the balance and the retention are otherwise free. The invariant is

    ScreenInv == MoneyInv /\ PlaceInv /\ LearnedInv /\ WarmInv
                   /\ DrainInv /\ NovelInv /\ TwiceInv /\ OrdinaryInv /\ ScreenTellsScenario

`PlaceInv` says that what is left of a script is the end of that operation's own
script, from which every instruction knows the operation and its place in it
(`Where`). From then on the argument follows the scripts: after `k` attempts of a
burst the window holds these attempts alone, one for each second (`Fresh`), and the last
`k` receipts are theirs (`ShowsDrain`), so that the fifth meets both the drain rule and the
threshold and the four before it neither. `run_attack` does not reset, so this must
hold over any screen, window and balance that earlier operations left; `WarmInv` and
`LearnedInv` give it a baseline of normal payments only. In the two scenarios with
first-seen recipients and replays the whole screen is counted from the reset on
(`NovelInv`, `TwiceInv`); a balance that runs out while the approval scenario gathers its
three payments keeps it in that loop, which is why `NovelInv` has a
second disjunct and why `OperationsReturn` asks for a balance.

All invariants were checked by TLC on the runs' instances before they were proved.

Only model-checked: the liveness properties `ConsumedIsAnswered`, `CallsReturn`,
`OperationsReturn` and `RunsEnd`, which are beyond TLAPS. Every safety property and
both refinements are proved.

## 6. Not modelled

The command-line demonstration and the security proof (`demo.py`,
`security_proof.py`) and the release scripts: programs without input that send
one fixed list of requests through the components modelled here and stop at the
first unexpected result; they have a single behaviour, which running them shows.
The deliberately unsafe wallet promises nothing. HTTP handlers, rendering,
latency measurement and evidence texts; Base64, JSON and the syntax of challenge
parameters (a flag of an answer); the character classes of contract fields; every
other property of a digest than that it identifies its request; signatures as
cryptography; the regular expressions of the sanitizer, which are one kind of
secret. The scale of a pay.sh amount is taken from the challenge and what the
command pays is decided outside the repository, so no property can compare them.
The mandate's asset, purpose and validity window are not read by `policy.py`. The
signer's conversion to atomic units, which multiplies with 28 digits, is taken as
exact, as it is for amounts of up to that many. An
injected recorder or timer that raises after a settlement is outside `Gateway`,
whose own do not raise there; a recorder that raises is in `Autonomous`, a
settlement that raises after it has paid is not.

## 7. Plan

Done: `PaymentSafety`, `Gateway`, `Audit`, `Detection`, `Velocity`, `Demo`,
`ExternalSettlement`, `SingleUse`, `WalletSigner`, `Autonomous`, and at the boundary
`Amounts`, `X402`, `PaySh`, `Confirmation`, `Purchase` and `Sanitizer`, with proofs of
every safety property that the runs check.
What is left, in this order:

1. Action properties that the invariants suggest: a consumed identifier stays
   consumed until a restart, a receipt never changes once it is in the window.
2. The mandate's binding that `docs/ARCHITECTURE.md:35` lists and `policy.py` does
   not read, as a run of its own.
