--------------------------- MODULE PolicyVerdicts ---------------------------
(***************************************************************************)
(* What the check pipeline promises about every call, stated without its   *)
(* order of checks, and one evaluation as a behaviour: the arguments are   *)
(* any, then the verdict is told.                                          *)
(***************************************************************************)
EXTENDS PolicyCheck

CONSTANTS
  Policies,     \* the stored policies to evaluate
  Asked,        \* the calls
  Amounts,      \* their dollar values
  Times         \* block timestamps

ASSUME VerdictAssumption ==
  /\ Policies \subseteq AgentPolicy /\ Asked \subseteq Call
  /\ Amounts \subseteq Nat /\ Times \subseteq Nat

VARIABLES policy, routers, call, tier, usd, now, verdict

vars == <<policy, routers, call, tier, usd, now, verdict>>

Init ==
  /\ policy \in Policies /\ call \in Asked
  /\ routers \in {{}, {call.target}}
  /\ tier \in Tier /\ usd \in Amounts
  /\ now \in {t \in Times : t >= policy.epochStart}
  /\ verdict = "PENDING"

Tell ==
  /\ verdict = "PENDING"
  /\ verdict' = Evaluate(policy, routers, call, tier, usd, now)
  /\ UNCHANGED <<policy, routers, call, tier, usd, now>>

Spec == Init /\ [][Tell]_vars

-----------------------------------------------------------------------------
Permits(p, r, c, t, u, n) == Evaluate(p, r, c, t, u, n) \in {"OK", "COSIGN"}

\* The policy as a set of conditions, in no order.
Condition(p, r, c, t, u, n) ==
  [FROZEN |-> p.frozen,
   SWAPS_NOT_ALLOWED |-> c.hasData /\ c.target \in r /\ ~p.allowSwaps,
   UNKNOWN_CONTRACT |-> c.hasData /\ c.target \notin r /\ ~p.allowUnknownContracts,
   COUNTERPARTY_BELOW_TIER |-> p.minCounterpartyTier > t,
   EXCEEDS_PER_TX_CAP |-> u > p.perTxCapUsd,
   EXCEEDS_DAILY_ALLOWANCE |->
     u + (IF n - p.epochStart > Day THEN 0 ELSE p.spentThisEpoch) > p.dailyCapUsd /\ u > 0]

\* The verdict names a condition that holds, and a call passes exactly when
\* none does; the owner must sign exactly for what is over the threshold.
VerdictIsJust ==
  verdict # "PENDING" =>
    LET cond == Condition(policy, routers, call, tier, usd, now) IN
      /\ verdict \in BlockReason => cond[verdict]
      /\ verdict \in {"OK", "COSIGN"} <=> \A b \in BlockReason : ~cond[b]
      /\ verdict = "COSIGN" => usd > policy.cosignAboveUsd
      /\ verdict = "OK" => usd <= policy.cosignAboveUsd

\* p is at least as strict as q in every term and has spent as much.
Tighter(p, q) ==
  /\ p.dailyCapUsd <= q.dailyCapUsd
  /\ p.perTxCapUsd <= q.perTxCapUsd
  /\ p.cosignAboveUsd <= q.cosignAboveUsd
  /\ p.epochStart = q.epochStart
  /\ p.spentThisEpoch >= q.spentThisEpoch
  /\ p.minCounterpartyTier >= q.minCounterpartyTier
  /\ p.allowSwaps => q.allowSwaps
  /\ p.allowUnknownContracts => q.allowUnknownContracts
  /\ q.frozen => p.frozen

\* Tightening any terms of a policy never lets more through: what the
\* stricter policy permits the looser one permits, and what the stricter one
\* pays without the owner the looser one pays without the owner.
TighterPermitsNoMore ==
  verdict \in {"OK", "COSIGN"} =>
    \A q \in Policies : Tighter(policy, q) =>
      /\ Permits(q, routers, call, tier, usd, now)
      /\ verdict = "OK" => Evaluate(q, routers, call, tier, usd, now) = "OK"

\* Waiting never turns a permitted call into a blocked one: the epoch only
\* ever rolls in the agent's favour.
WaitingNeverHurts ==
  verdict \in {"OK", "COSIGN"} =>
    \A later \in Times : later >= now =>
      Evaluate(policy, routers, call, tier, usd, later) = verdict
=============================================================================
