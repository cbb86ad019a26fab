------------------------------- MODULE Policy --------------------------------
(***************************************************************************)
(* The mandate policy engine (policy.py).  A mandate is the owner's        *)
(* standing order for one agent: its identifier, a limit on every single   *)
(* payment, a hard-block list and an optional allowlist.  The mandate also *)
(* has an asset, a purpose and a validity window, which the engine does    *)
(* not read.                                                               *)
(***************************************************************************)
EXTENDS Naturals

CONSTANT Mandates    \* registered agent |-> its mandate

ASSUME PolicyAssumption == \A a \in DOMAIN Mandates : Mandates[a].limit \in Nat

(***************************************************************************)
(* The request breaks no rule.  The code reports the first broken rule in  *)
(* the order of these conjuncts; the gateway blocks on any of them.        *)
(***************************************************************************)
PolicyAllows(r) ==
  /\ r.agent \in DOMAIN Mandates
  /\ LET m == Mandates[r.agent] IN
       /\ r.mandate = m.id
       /\ r.recipient \notin m.blocked
       /\ r.amount <= m.limit
       /\ m.allowed = {} \/ r.recipient \in m.allowed

(***************************************************************************)
(* The owner's reading of the same mandate, for the properties: a payment  *)
(* of this agent, under this mandate, within the limit, to a recipient of  *)
(* the set the two lists leave open.                                       *)
(***************************************************************************)
OpenTo(m, recipient) ==
  recipient \in (IF m.allowed = {} THEN {recipient} ELSE m.allowed) \ m.blocked

OwnerPermits(r) ==
  \E agent \in DOMAIN Mandates :
    /\ r.agent = agent
    /\ r.mandate = Mandates[agent].id
    /\ ~(r.amount > Mandates[agent].limit)
    /\ OpenTo(Mandates[agent], r.recipient)
=============================================================================
