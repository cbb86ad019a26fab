------------------------------ MODULE Purchase -------------------------------
(***************************************************************************)
(* One purchase through an adapter of SolGuard, from the HTTP 402 answer   *)
(* of the resource to the result of the settlement: the simulated x402     *)
(* adapter (x402.py), the live one on Solana devnet (x402_live.py with     *)
(* devnet_rpc.py) and the pay.sh command (paysh.py).  The services outside *)
(* may answer anything: the resource, the payload signer, the facilitator, *)
(* the RPC node and the Pay command.                                       *)
(*                                                                         *)
(* The adapter is built from one answer (offered), the request may be      *)
(* built from another (answer), for either settlement mode, and its amount *)
(* may be changed before the gateway sees it.  The gateway is shortened to *)
(* the mandate; single use, restarts and threads are the matter of         *)
(* ExternalSettlement.                                                     *)
(***************************************************************************)
EXTENDS X402, PaySh, Confirmation

CONSTANTS
  Answers,       \* x402 answers
  Challenges,    \* pay.sh challenges, their expiry relative to the probe
  Limit,         \* max_single_payment
  Allowed,       \* allowed_recipients of the x402 mandate
  Earlier,       \* other transactions on the chain, by signature
  PayerAccount,  \* the token account the payer's key spends from
  ReportedAmounts \* amounts a facilitator may report

(* "payment" names the transaction of the purchase, as far as there is one; *)
(* a stranger's account is nobody's that the mandate lets be paid           *)
ASSUME PurchaseAssumption ==
  /\ Limit \in Nat
  /\ "somebody" \notin Allowed
  /\ OwnerOf[PayerAccount] = "payer"
  /\ "payment" \in DOMAIN Earlier
  /\ \A s \in DOMAIN Earlier : \A a \in Touched(Earlier[s]) : Moved(Earlier[s], a) \in Int

Adapters == {"simulated", "live", "paysh"}

Nothing == [none |-> TRUE]

VARIABLES
  adapter,   \* the settlement adapter of the program at hand
  offered,   \* the answer the adapter's requirement was read from
  answer,    \* the answer the request is made from
  step,      \* where the purchase is
  request,   \* the canonical request, or Nothing
  invoked,   \* the signer, the executor or the Pay command was called
  signed,    \* the offer a payload was signed for, or Nothing
  ledger,    \* signature |-> transaction
  report,    \* what the facilitator says of its settlement
  slot,      \* the slot the first RPC answer named
  verdict    \* how the purchase ended, and on whose word it failed

vars ==
  <<adapter, offered, answer, step, request, invoked, signed, ledger, report, slot, verdict>>

Init ==
  /\ adapter \in Adapters
  /\ answer \in IF adapter = "paysh" THEN Challenges ELSE Answers
  /\ offered \in IF adapter = "paysh" THEN {answer} ELSE Answers
  /\ step = "answered"
  /\ request = Nothing
  /\ invoked = FALSE
  /\ signed = Nothing
  /\ ledger = Earlier
  /\ report = Nothing
  /\ slot = 0
  /\ verdict = "none"

Mode == IF adapter = "live" THEN "LIVE_DEVNET" ELSE "SIMULATED_DEVNET"

Requirement == X402Requirement(offered)

Goto(from, to) == step = from /\ step' = to

End(from, outcome) == Goto(from, "done") /\ verdict' = outcome

-----------------------------------------------------------------------------
Readable ==
  IF adapter = "paysh" THEN PayShParses(answer) /\ MayAnswer(answer, 0)
  ELSE X402Parses(answer) /\ X402Parses(offered)

ProtocolFailure ==
  /\ End("answered", "PROTOCOL_FAILURE")
  /\ ~Readable
  /\ UNCHANGED <<adapter, offered, answer, request, invoked, signed, ledger, report, slot>>

(* the request as the requirement gives it, or with twice its amount, which *)
(* the live program makes to be blocked                                     *)
Buildable ==
  IF adapter = "paysh" THEN {PayShRequest(answer)}
  ELSE UNION {{r, [r EXCEPT !.amount = Rounded(2 * @)]} :
         r \in {X402Request(X402Requirement(answer), mode) :
                  mode \in {"LIVE_DEVNET", "SIMULATED_DEVNET"}}}

Build ==
  /\ Goto("answered", "decide")
  /\ Readable
  /\ request' \in Buildable
  /\ UNCHANGED <<adapter, offered, answer, invoked, signed, ledger, report, slot, verdict>>

(* the mandate of a pay.sh purchase allows the challenge's own recipient *)
Permitted ==
  request.amount <= Limit /\ (adapter = "paysh" \/ request.recipient \in Allowed)

DecideBlock ==
  /\ End("decide", "BLOCK")
  /\ ~Permitted
  /\ UNCHANGED <<adapter, offered, answer, request, invoked, signed, ledger, report, slot>>

DecideAllow ==
  /\ Goto("decide", adapter)
  /\ Permitted
  /\ UNCHANGED <<adapter, offered, answer, request, invoked, signed, ledger, report, slot, verdict>>

(* mutant: the signer is called before the request is compared *)
RejectMismatchLate ==
  /\ \E s \in {"simulated", "live"} : End(s, "BLOCK")
  /\ ~Matches(Requirement, request, Mode)
  /\ invoked' = TRUE
  /\ UNCHANGED <<adapter, offered, answer, request, signed, ledger, report, slot>>

(* AUTHORIZATION_MISMATCH *)
RejectMismatch ==
  /\ \E s \in {"simulated", "live"} : End(s, "BLOCK")
  /\ ~Matches(Requirement, request, Mode)
  /\ UNCHANGED <<adapter, offered, answer, request, invoked, signed, ledger, report, slot>>

-----------------------------------------------------------------------------
(* the simulated adapter asks for a PAYMENT-SIGNATURE header and checks it *)
Simulate ==
  /\ step = "simulated"
  /\ Matches(Requirement, request, Mode)
  /\ \E accepted \in {offered.offers[i] : i \in DOMAIN offered.offers}, filled \in BOOLEAN :
       LET payload == [accepted |-> accepted, filled |-> filled] IN
       /\ signed' = accepted
       /\ End("simulated",
              IF ValidSignature(Requirement, payload) THEN "SETTLED" ELSE "REFUSED")
  /\ invoked' = TRUE
  /\ UNCHANGED <<adapter, offered, answer, request, ledger, report, slot>>

(* the official client pays the offer from one account to one account of   *)
(* the recipient, which it may open; the payer's account may be emptied    *)
PayeeAccounts ==
  {a \in DOMAIN OwnerOf \ {PayerAccount} : OwnerOf[a] = Requirement.recipient}

ChangesTo(account) ==
  LET amount == Requirement.accepted.amount IN
  [a \in {PayerAccount, account} |-> IF a = account THEN amount ELSE -amount]

Payments ==
  {[changes |-> ChangesTo(a), opened |-> o, closed |-> c, handedOver |-> {}, failed |-> f,
    slot |-> 1] :
     a \in PayeeAccounts, o \in {{}, PayeeAccounts}, c \in {{}, {PayerAccount}}, f \in BOOLEAN}

Execute ==
  /\ Goto("live", "facilitator")
  /\ Matches(Requirement, request, Mode)
  /\ invoked' = TRUE
  /\ signed' = Requirement.accepted
  /\ \E payment \in Payments : ledger' = [ledger EXCEPT !["payment"] = payment]
  /\ UNCHANGED <<adapter, offered, answer, request, report, slot, verdict>>

(* no facilitator, no payload, or a payload the facilitator rejects *)
FailToExecute ==
  /\ End("live", "FAILED")
  /\ Matches(Requirement, request, Mode)
  /\ invoked' = TRUE
  /\ UNCHANGED <<adapter, offered, answer, request, signed, ledger, report, slot>>

FacilitatorReports ==
  /\ Goto("facilitator", "status")
  /\ report' \in [signature : DOMAIN ledger, amount : ReportedAmounts \cup {signed.amount},
                  payer : {"payer", "somebody"}]
  /\ UNCHANGED <<adapter, offered, answer, request, invoked, signed, ledger, slot, verdict>>

FacilitatorFails ==
  /\ End("facilitator", "FAILED")
  /\ UNCHANGED <<adapter, offered, answer, request, invoked, signed, ledger, report, slot>>

-----------------------------------------------------------------------------
Named == ledger[report.signature]

ReadStatus ==
  /\ Goto("status", "transaction")
  /\ ~Named.failed
  /\ slot' = Named.slot
  /\ UNCHANGED <<adapter, offered, answer, request, invoked, signed, ledger, report, verdict>>

StatusRefused ==
  /\ End("status", "REFUSED")
  /\ Named.failed
  /\ UNCHANGED <<adapter, offered, answer, request, invoked, signed, ledger, report, slot>>

(* between the two calls the chain may drop the payment's slot, and the    *)
(* payment lands again in a later one, where it may fail                   *)
Fork ==
  /\ step = "transaction"
  /\ ledger["payment"].slot = 1
  /\ \E failed \in BOOLEAN :
       ledger' = [ledger EXCEPT !["payment"].slot = 2, !["payment"].failed = failed]
  /\ UNCHANGED <<adapter, offered, answer, step, request, invoked, signed, report, slot, verdict>>

Confirmed ==
  Confirms(Named, slot, "payer", request.recipient, Requirement.accepted.amount)

ReadTransaction ==
  /\ Goto("transaction", "compare")
  /\ Confirmed
  /\ UNCHANGED <<adapter, offered, answer, request, invoked, signed, ledger, report, slot, verdict>>

TransactionRefused ==
  /\ End("transaction", "REFUSED")
  /\ ~Confirmed
  /\ UNCHANGED <<adapter, offered, answer, request, invoked, signed, ledger, report, slot>>

(* the service cannot be reached, lags, or answers what cannot be read *)
RpcFails ==
  /\ \E s \in {"status", "transaction"} : End(s, "FAILED")
  /\ UNCHANGED <<adapter, offered, answer, request, invoked, signed, ledger, report, slot>>

(* mutant: what the facilitator reports is taken for the decided amount *)
ComparesReported ==
  /\ report.payer = "payer"
  /\ report.amount = request.amount
  /\ ~Requirement.accepted.padded

(* the confirmed change is printed without leading zeros and compared with *)
(* the offer's spelling                                                    *)
Compares ==
  /\ report.payer = "payer"
  /\ Rounded(report.amount) = request.amount
  /\ ~Requirement.accepted.padded

Compare ==
  /\ End("compare", IF Compares THEN "SETTLED" ELSE "REFUSED")
  /\ UNCHANGED <<adapter, offered, answer, request, invoked, signed, ledger, report, slot>>

-----------------------------------------------------------------------------
(* the Pay command ends, in time, without an error, with a bounded answer *)
CommandReturns ==
  /\ End("paysh", "SETTLED")
  /\ invoked' = TRUE
  /\ UNCHANGED <<adapter, offered, answer, request, signed, ledger, report, slot>>

(* it does not start, or it starts and fails, hangs or answers too much *)
CommandFails ==
  /\ End("paysh", "FAILED")
  /\ invoked' \in BOOLEAN
  /\ UNCHANGED <<adapter, offered, answer, request, signed, ledger, report, slot>>

Next ==
  \/ ProtocolFailure \/ Build \/ DecideBlock \/ DecideAllow \/ RejectMismatch
  \/ Simulate \/ Execute \/ FailToExecute
  \/ FacilitatorReports \/ FacilitatorFails
  \/ ReadStatus \/ StatusRefused \/ Fork \/ ReadTransaction \/ TransactionRefused
  \/ RpcFails \/ Compare
  \/ CommandReturns \/ CommandFails

Spec == Init /\ [][Next]_vars

-----------------------------------------------------------------------------
Distance(a, b) == IF a > b THEN a - b ELSE b - a

(***************************************************************************)
(* What is signed is what was evaluated (x402.py:126-149, 192-237,         *)
(* x402_live.py:234-247): the signed offer is the only supported one of    *)
(* the answer that the request was made from, in the mode the request      *)
(* names, the mandate permits the request, and the signed amount is the    *)
(* evaluated one but for half a unit of the last kept digit (contracts.py: *)
(* 79): it may exceed the mandate's limit by that much.                    *)
(***************************************************************************)
SignedAsEvaluated ==
  (adapter = "live" /\ signed # Nothing) \/ (adapter = "simulated" /\ verdict = "SETTLED") =>
    /\ Supported(request.answer) = <<signed>>
    /\ request.mode = Mode
    /\ Permitted
    /\ 2 * Distance(signed.amount, request.amount) <= Ulp(signed.amount)

(***************************************************************************)
(* A live settlement stands for money that moved, whatever facilitator and *)
(* RPC node answered (x402_live.py:151-170, devnet_rpc.py:160-231): the    *)
(* named transaction succeeded in the slot that the status gave, an        *)
(* account of the payer lost and one of the decided recipient gained the   *)
(* signed amount to the last digit.                                        *)
(***************************************************************************)
SettledAsDecided ==
  adapter = "live" /\ verdict = "SETTLED" =>
    LET changed(owner, delta) ==
          \E a \in Touched(Named) : OwnerOf[a] = owner /\ Moved(Named, a) = delta
    IN  /\ ~Named.failed /\ Named.slot = slot
        /\ changed("payer", -signed.amount)
        /\ changed(request.recipient, signed.amount)

(***************************************************************************)
(* A payment that succeeded where it first landed, and that an honest      *)
(* facilitator reports, is not refused, whatever accounts it opens or      *)
(* empties and however its amount was rounded (x402_live.py:154-166,       *)
(* devnet_rpc.py:300-326), with one exception: the offer spelled its       *)
(* amount with leading zeros.                                              *)
(***************************************************************************)
HonestIsReported ==
  LET honest == [signature |-> "payment", amount |-> signed.amount, payer |-> "payer"]
      landed == ~ledger["payment"].failed /\ ledger["payment"].slot = 1
  IN  adapter = "live" /\ verdict = "REFUSED" /\ report = honest /\ landed => signed.padded

(***************************************************************************)
(* What is rejected never starts a payment (docs/PAYSH.md:48, 55; x402.py: *)
(* 293, x402_live.py:148, paysh.py:91): a purchase that ends before the    *)
(* adapter's guard calls no signer, executor or command and leaves the     *)
(* chain as it was, and what was called was called for a permitted request *)
(* whose challenge had not expired.                                        *)
(***************************************************************************)
RefusedTouchesNothing ==
  /\ verdict \in {"PROTOCOL_FAILURE", "BLOCK"} => ~invoked /\ ledger = Earlier
  /\ invoked => Permitted
  /\ invoked /\ adapter = "paysh" => request.expires > 0
=============================================================================
