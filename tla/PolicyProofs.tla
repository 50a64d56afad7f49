---------------------------- MODULE PolicyProofs ----------------------------
(***************************************************************************)
(* The promises of PolicyVerdicts for every policy, amount and time.       *)
(***************************************************************************)
EXTENDS PolicyVerdicts, TLAPS

\* The allowance left of a cap is a number between zero and the cap.
LEMMA RemainingIsNat ==
  ASSUME NEW p \in AgentPolicy, NEW n \in Nat
  PROVE  Remaining(p, n) \in Nat /\ Remaining(p, n) <= p.dailyCapUsd
BY DayAssumption DEF AgentPolicy, Remaining, RolledSpent, EpochIsOver

\* A tighter policy has no more left of its daily allowance: the saturating
\* subtraction of _evaluate is monotone.
LEMMA TighterHasLessLeft ==
  ASSUME NEW p \in AgentPolicy, NEW q \in AgentPolicy, NEW n \in Nat,
         Tighter(p, q)
  PROVE  Remaining(p, n) <= Remaining(q, n)
BY DayAssumption DEF AgentPolicy, Remaining, RolledSpent, EpochIsOver, Tighter

\* Tightening a policy permits no call the looser policy blocks, and pays no
\* call unsigned that the looser policy would have the owner sign.
THEOREM TighterIsSafer ==
  ASSUME NEW p \in AgentPolicy, NEW q \in AgentPolicy, Tighter(p, q),
         NEW r, NEW c \in Call, NEW t \in Tier, NEW u \in Nat, NEW n \in Nat,
         Permits(p, r, c, t, u, n)
  PROVE  /\ Permits(q, r, c, t, u, n)
         /\ Evaluate(p, r, c, t, u, n) = "OK" => Evaluate(q, r, c, t, u, n) = "OK"
<1>1. Remaining(p, n) \in Nat /\ Remaining(q, n) \in Nat
  BY RemainingIsNat
<1>2. Remaining(p, n) <= Remaining(q, n)
  BY TighterHasLessLeft
<1>3. /\ ~p.frozen
      /\ ~(KindOf(r, c) = "SWAP" /\ ~p.allowSwaps)
      /\ ~(c.hasData /\ c.target \notin r /\ ~p.allowUnknownContracts)
      /\ ~(t < p.minCounterpartyTier)
      /\ ~(u > p.perTxCapUsd)
      /\ ~(u > Remaining(p, n))
  BY DEF Permits, Evaluate
<1>4. /\ ~q.frozen
      /\ ~(KindOf(r, c) = "SWAP" /\ ~q.allowSwaps)
      /\ ~(c.hasData /\ c.target \notin r /\ ~q.allowUnknownContracts)
  BY <1>3 DEF Tighter
<1>5. /\ ~(t < q.minCounterpartyTier)
      /\ ~(u > q.perTxCapUsd)
      /\ ~(u > Remaining(q, n))
      /\ (u > q.cosignAboveUsd) => (u > p.cosignAboveUsd)
  BY <1>1, <1>2, <1>3 DEF Tighter, AgentPolicy, Tier
<1>6. Evaluate(q, r, c, t, u, n) = IF u > q.cosignAboveUsd THEN "COSIGN" ELSE "OK"
  BY <1>4, <1>5 DEF Evaluate
<1>7. Evaluate(p, r, c, t, u, n) = IF u > p.cosignAboveUsd THEN "COSIGN" ELSE "OK"
  BY <1>3 DEF Evaluate
<1> QED
  BY <1>5, <1>6, <1>7 DEF Permits

\* A call that is permitted now gets the same verdict at any later time, as
\* long as the policy is not touched in between.
THEOREM PatienceIsSafe ==
  ASSUME NEW p \in AgentPolicy, NEW r, NEW c \in Call, NEW t \in Tier,
         NEW u \in Nat, NEW n \in Nat, NEW later \in Nat, later >= n,
         Permits(p, r, c, t, u, n)
  PROVE  Evaluate(p, r, c, t, u, later) = Evaluate(p, r, c, t, u, n)
<1>1. Remaining(p, n) <= Remaining(p, later)
  BY DayAssumption DEF AgentPolicy, Remaining, RolledSpent, EpochIsOver
<1>2. Remaining(p, n) \in Nat /\ Remaining(p, later) \in Nat
  BY RemainingIsNat
<1>3. ~(u > Remaining(p, n))
  BY DEF Permits, Evaluate
<1>4. ~(u > Remaining(p, later))
  BY <1>1, <1>2, <1>3
<1> QED
  BY <1>3, <1>4 DEF Permits, Evaluate

\* A smaller payment is never worse off: whatever is paid at some value is paid
\* at any lower one, and without the owner where the higher one is.  There is
\* no value below a permitted one that _evaluate refuses.
THEOREM SmallerIsSafer ==
  ASSUME NEW p \in AgentPolicy, NEW r, NEW c \in Call, NEW t \in Tier, NEW n \in Nat,
         NEW u \in Nat, NEW v \in Nat, v <= u, Permits(p, r, c, t, u, n)
  PROVE  /\ Permits(p, r, c, t, v, n)
         /\ Evaluate(p, r, c, t, u, n) = "OK" => Evaluate(p, r, c, t, v, n) = "OK"
<1>1. Remaining(p, n) \in Nat /\ p.perTxCapUsd \in Nat /\ p.cosignAboveUsd \in Nat
  BY RemainingIsNat DEF AgentPolicy
<1>2. /\ ~p.frozen
      /\ ~(KindOf(r, c) = "SWAP" /\ ~p.allowSwaps)
      /\ ~(c.hasData /\ c.target \notin r /\ ~p.allowUnknownContracts)
      /\ ~(t < p.minCounterpartyTier)
      /\ ~(u > p.perTxCapUsd)
      /\ ~(u > Remaining(p, n))
  BY DEF Permits, Evaluate
<1>3. /\ ~(v > p.perTxCapUsd)
      /\ ~(v > Remaining(p, n))
      /\ v > p.cosignAboveUsd => u > p.cosignAboveUsd
  BY <1>1, <1>2
<1>4. Evaluate(p, r, c, t, v, n) = IF v > p.cosignAboveUsd THEN "COSIGN" ELSE "OK"
  BY <1>2, <1>3 DEF Evaluate
<1>5. Evaluate(p, r, c, t, u, n) = IF u > p.cosignAboveUsd THEN "COSIGN" ELSE "OK"
  BY <1>2 DEF Evaluate
<1> QED
  BY <1>3, <1>4, <1>5 DEF Permits

\* The policy after a permitted payment is one again, within its cap whenever
\* it has spent anything in the epoch.
LEMMA ChargedPolicy ==
  ASSUME NEW p \in AgentPolicy, NEW u \in Nat, NEW n \in Nat
  PROVE  /\ Charge(p, u, n) \in AgentPolicy
         /\ Charge(p, u, n).dailyCapUsd = p.dailyCapUsd
         /\ Charge(p, u, n).spentThisEpoch = RolledSpent(p, n) + u
         /\ Charge(p, u, n).epochStart = RolledEpochStart(p, n)
         /\ RolledSpent(p, n) \in Nat /\ RolledEpochStart(p, n) \in Nat
<1>1. RolledSpent(p, n) \in Nat /\ RolledEpochStart(p, n) \in Nat
  BY DEF RolledSpent, RolledEpochStart, AgentPolicy
<1> DEFINE start == RolledEpochStart(p, n)
           spend == RolledSpent(p, n) + u
<1>2. start \in Nat /\ spend \in Nat
  BY <1>1
<1> HIDE DEF start, spend
<1>3. Charge(p, u, n) = [p EXCEPT !.epochStart = start, !.spentThisEpoch = spend]
  BY DEF Charge, start, spend
<1>4. /\ Charge(p, u, n) \in AgentPolicy
      /\ Charge(p, u, n).dailyCapUsd = p.dailyCapUsd
      /\ Charge(p, u, n).spentThisEpoch = spend
      /\ Charge(p, u, n).epochStart = start
  BY <1>2, <1>3 DEF AgentPolicy
<1> QED
  BY <1>1, <1>4 DEF start, spend

\* Splitting a payment gains nothing: of two payments that execute permits one
\* after the other while the epoch of the first runs, whatever they call, the
\* values together are within what was left of the daily cap before them, and
\* what is left after both is exactly that much less.
THEOREM SplittingGainsNothing ==
  ASSUME NEW p \in AgentPolicy, NEW n \in Nat, NEW m \in Nat, n <= m,
         NEW r1, NEW c1 \in Call, NEW t1 \in Tier, NEW u \in Nat,
         NEW r2, NEW c2 \in Call, NEW t2 \in Tier, NEW v \in Nat,
         Permits(p, r1, c1, t1, u, n),
         ~EpochIsOver(Charge(p, u, n), m),
         Permits(Charge(p, u, n), r2, c2, t2, v, m)
  PROVE  /\ u + v <= Remaining(p, n)
         /\ Remaining(Charge(Charge(p, u, n), v, m), m) = Remaining(p, n) - (u + v)
<1> DEFINE q == Charge(p, u, n)
           s == Charge(q, v, m)
           cap == p.dailyCapUsd
           spent == RolledSpent(p, n)
<1>1. /\ q \in AgentPolicy /\ q.dailyCapUsd = cap /\ q.spentThisEpoch = spent + u
      /\ cap \in Nat /\ spent \in Nat
  <2>1. cap \in Nat
    BY DEF AgentPolicy
  <2> QED
    BY <2>1, ChargedPolicy
<1>2. ~(u > Remaining(p, n)) /\ ~(v > Remaining(q, m))
  BY DEF Permits, Evaluate
<1> HIDE DEF q
<1>3. ~EpochIsOver(q, m)
  BY DEF q
<1>4. RolledSpent(q, m) = spent + u /\ RolledEpochStart(q, m) = q.epochStart
  <2> HIDE DEF cap, spent
  <2> QED
    BY <1>1, <1>3 DEF RolledSpent, RolledEpochStart
<1>5. /\ s.dailyCapUsd = cap /\ s.spentThisEpoch = spent + u + v
      /\ s.epochStart = q.epochStart
  <2>1. /\ s.dailyCapUsd = q.dailyCapUsd
        /\ s.spentThisEpoch = RolledSpent(q, m) + v
        /\ s.epochStart = RolledEpochStart(q, m)
    BY <1>1, ChargedPolicy
  <2> HIDE DEF s
  <2> QED
    BY <1>1, <1>4, <2>1
<1> HIDE DEF s
<1>6. RolledSpent(s, m) = spent + u + v
  BY <1>3, <1>5 DEF RolledSpent, EpochIsOver
<1>7. /\ Remaining(p, n) = IF spent >= cap THEN 0 ELSE cap - spent
      /\ Remaining(q, m) = IF spent + u >= cap THEN 0 ELSE cap - (spent + u)
      /\ Remaining(s, m) = IF spent + u + v >= cap THEN 0 ELSE cap - (spent + u + v)
  BY <1>1, <1>4, <1>5, <1>6 DEF Remaining
<1> HIDE DEF cap, spent
<1>8. u + v <= Remaining(p, n) /\ Remaining(s, m) = Remaining(p, n) - (u + v)
  BY <1>1, <1>2, <1>7
<1> QED
  BY <1>8 DEF q, s

\* The reasons of a block are decided by exactly the conditions of their
\* names; the one of the daily allowance needs the epoch's arithmetic.
LEMMA ConditionsDecide ==
  ASSUME NEW p \in AgentPolicy, NEW r, NEW c \in Call, NEW t \in Tier,
         NEW u \in Nat, NEW n \in Nat
  PROVE  LET cond == Condition(p, r, c, t, u, n) IN
           /\ cond.FROZEN <=> p.frozen
           /\ cond.SWAPS_NOT_ALLOWED <=> KindOf(r, c) = "SWAP" /\ ~p.allowSwaps
           /\ cond.UNKNOWN_CONTRACT <=>
                c.hasData /\ c.target \notin r /\ ~p.allowUnknownContracts
           /\ cond.COUNTERPARTY_BELOW_TIER <=> t < p.minCounterpartyTier
           /\ cond.EXCEEDS_PER_TX_CAP <=> u > p.perTxCapUsd
           /\ cond.EXCEEDS_DAILY_ALLOWANCE <=> u > Remaining(p, n)
<1> DEFINE cond == Condition(p, r, c, t, u, n)
<1>1. /\ cond.FROZEN <=> p.frozen
      /\ cond.UNKNOWN_CONTRACT <=>
           c.hasData /\ c.target \notin r /\ ~p.allowUnknownContracts
      /\ cond.EXCEEDS_PER_TX_CAP <=> u > p.perTxCapUsd
  BY DEF Condition
<1>2. cond.SWAPS_NOT_ALLOWED <=> KindOf(r, c) = "SWAP" /\ ~p.allowSwaps
  BY DEF Condition, KindOf
<1>3. cond.COUNTERPARTY_BELOW_TIER <=> t < p.minCounterpartyTier
  BY DEF Condition, AgentPolicy, Tier
<1>4. cond.EXCEEDS_DAILY_ALLOWANCE <=> u > Remaining(p, n)
  <2>1. cond.EXCEEDS_DAILY_ALLOWANCE <=>
          u + RolledSpent(p, n) > p.dailyCapUsd /\ u > 0
    <3>1. cond.EXCEEDS_DAILY_ALLOWANCE <=>
            u + (IF n - p.epochStart > Day THEN 0 ELSE p.spentThisEpoch)
              > p.dailyCapUsd /\ u > 0
      BY DEF Condition
    <3>2. n - p.epochStart > Day <=> EpochIsOver(p, n)
      BY DayAssumption DEF EpochIsOver, AgentPolicy
    <3> QED
      BY <3>1, <3>2 DEF RolledSpent
  <2>2. RolledSpent(p, n) \in Nat /\ p.dailyCapUsd \in Nat
    BY DEF RolledSpent, AgentPolicy
  <2> QED
    BY <2>1, <2>2 DEF Remaining
<1> QED
  BY <1>1, <1>2, <1>3, <1>4

\* What one evaluation keeps: its arguments, and the verdict it tells.
EvaluationInv ==
  /\ policy \in AgentPolicy /\ call \in Call /\ tier \in Tier
  /\ usd \in Nat /\ now \in Nat
  /\ verdict \in {"PENDING", Evaluate(policy, routers, call, tier, usd, now)}

LEMMA EvaluationInvAlways == Spec => []EvaluationInv
<1>1. Init => EvaluationInv
  BY VerdictAssumption DEF Init, EvaluationInv
<1>2. EvaluationInv /\ [Tell]_vars => EvaluationInv'
  BY DEF Tell, vars, EvaluationInv
<1> QED
  BY <1>1, <1>2, PTL DEF Spec

\* The order of the checks only chooses among reasons that hold: a verdict of
\* _evaluate is one the terms justify, for every policy, call and time.
THEOREM VerdictIsJustAlways == Spec => []VerdictIsJust
<1>1. EvaluationInv => VerdictIsJust
  <2> DEFINE cond == Condition(policy, routers, call, tier, usd, now)
  <2> SUFFICES ASSUME EvaluationInv, verdict # "PENDING"
               PROVE  /\ verdict \in BlockReason => cond[verdict]
                      /\ verdict \in {"OK", "COSIGN"} <=>
                           \A b \in BlockReason : ~cond[b]
                      /\ verdict = "COSIGN" => usd > policy.cosignAboveUsd
                      /\ verdict = "OK" => usd <= policy.cosignAboveUsd
    BY DEF VerdictIsJust
  <2>1. verdict = Evaluate(policy, routers, call, tier, usd, now)
    BY DEF EvaluationInv
  <2>2. /\ cond.FROZEN <=> policy.frozen
        /\ cond.SWAPS_NOT_ALLOWED <=>
             KindOf(routers, call) = "SWAP" /\ ~policy.allowSwaps
        /\ cond.UNKNOWN_CONTRACT <=>
             call.hasData /\ call.target \notin routers /\ ~policy.allowUnknownContracts
        /\ cond.COUNTERPARTY_BELOW_TIER <=> tier < policy.minCounterpartyTier
        /\ cond.EXCEEDS_PER_TX_CAP <=> usd > policy.perTxCapUsd
        /\ cond.EXCEEDS_DAILY_ALLOWANCE <=> usd > Remaining(policy, now)
    BY ConditionsDecide DEF EvaluationInv
  <2> HIDE DEF cond
  <2>3. verdict \in BlockReason => cond[verdict]
    BY <2>1, <2>2 DEF Evaluate, BlockReason
  <2>4. verdict \in {"OK", "COSIGN"} <=> \A b \in BlockReason : ~cond[b]
    BY <2>1, <2>2 DEF Evaluate, BlockReason
  <2>5. usd \in Nat /\ policy.cosignAboveUsd \in Nat
    BY DEF EvaluationInv, AgentPolicy
  <2>6. /\ verdict = "COSIGN" => usd > policy.cosignAboveUsd
        /\ verdict = "OK" => usd <= policy.cosignAboveUsd
    BY <2>1, <2>5 DEF Evaluate
  <2> QED
    BY <2>3, <2>4, <2>6
<1> QED
  BY <1>1, EvaluationInvAlways, PTL

\* The invariant the runs check, for the evaluations of every policy.
THEOREM TighterPermitsNoMoreHolds == Spec => []TighterPermitsNoMore
<1>1. EvaluationInv => TighterPermitsNoMore
  <2> SUFFICES ASSUME EvaluationInv, verdict \in {"OK", "COSIGN"},
                      NEW q \in Policies, Tighter(policy, q)
               PROVE  /\ Permits(q, routers, call, tier, usd, now)
                      /\ verdict = "OK" =>
                           Evaluate(q, routers, call, tier, usd, now) = "OK"
    BY DEF TighterPermitsNoMore
  <2>1. verdict = Evaluate(policy, routers, call, tier, usd, now)
    BY DEF EvaluationInv
  <2>2. Permits(policy, routers, call, tier, usd, now)
    BY <2>1 DEF Permits
  <2>3. q \in AgentPolicy
    BY VerdictAssumption
  <2> QED
    BY <2>1, <2>2, <2>3, TighterIsSafer DEF EvaluationInv
<1> QED
  BY <1>1, EvaluationInvAlways, PTL

\* A verdict that lets a call through stays what it is however long the call
\* waits, whatever the epoch does meanwhile.
THEOREM WaitingNeverHurtsAlways == Spec => []WaitingNeverHurts
<1>1. EvaluationInv => WaitingNeverHurts
  <2> SUFFICES ASSUME EvaluationInv, verdict \in {"OK", "COSIGN"},
                      NEW later \in Times, later >= now
               PROVE  Evaluate(policy, routers, call, tier, usd, later) = verdict
    BY DEF WaitingNeverHurts
  <2>1. verdict = Evaluate(policy, routers, call, tier, usd, now)
    BY DEF EvaluationInv
  <2>2. Permits(policy, routers, call, tier, usd, now)
    BY <2>1 DEF Permits
  <2>3. later \in Nat
    BY VerdictAssumption
  <2> QED
    BY <2>1, <2>2, <2>3, PatienceIsSafe DEF EvaluationInv
<1> QED
  BY <1>1, EvaluationInvAlways, PTL
=============================================================================
