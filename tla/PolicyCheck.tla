---------------------------- MODULE PolicyCheck ----------------------------
(***************************************************************************)
(* The check pipeline of HandlerWallet.sol as operators: what the wallet   *)
(* decides about one call of a hired agent, before it changes anything.    *)
(*                                                                         *)
(* USD amounts are natural numbers (the contract's 8-decimal uint128; the  *)
(* checked arithmetic of Solidity 0.8 turns an overflow into a revert, and *)
(* every sum the wallet stores is bounded by a cap).  Time is in units of  *)
(* which Day make one day.  The counterparty's tier and the dollar value   *)
(* are parameters: they come from TrustReader and PriceConverter.  A price *)
(* feed that reverts makes the whole transaction revert, so a call whose   *)
(* value cannot be told has no verdict and no step.                        *)
(***************************************************************************)
EXTENDS Integers

CONSTANTS
  Day,      \* the number of time units in one day
  Address   \* every account a call can name

ASSUME DayAssumption == Day \in Nat \ {0}

\* Tier of ITrustReader: FLAGGED = 0, NEW = 1, VERIFIED = 2.
Tier == 0..2

AgentPolicy ==
  [dailyCapUsd : Nat, perTxCapUsd : Nat, cosignAboveUsd : Nat,
   epochStart : Nat, spentThisEpoch : Nat, minCounterpartyTier : Tier,
   allowSwaps : BOOLEAN, allowUnknownContracts : BOOLEAN, frozen : BOOLEAN]

\* The calldata itself is opaque: only whether there is any matters.
Call == [target : Address, hasData : BOOLEAN, value : Nat]

\* The policy of an account that was never hired: a zeroed storage slot.
NoPolicy ==
  [dailyCapUsd |-> 0, perTxCapUsd |-> 0, cosignAboveUsd |-> 0,
   epochStart |-> 0, spentThisEpoch |-> 0, minCounterpartyTier |-> 0,
   allowSwaps |-> FALSE, allowUnknownContracts |-> FALSE, frozen |-> FALSE]

\* Mutant: the comparison is the wrong way round.
EpochIsOverReversed(policy, now) == now < policy.epochStart + Day

EpochIsOver(policy, now) == now > policy.epochStart + Day

\* The lazy roll: the epoch anchor and the spend already counted in it.
RolledEpochStart(policy, now) ==
  IF EpochIsOver(policy, now) THEN now ELSE policy.epochStart

\* Mutant: the spend survives the roll.
RolledSpentKept(policy, now) == policy.spentThisEpoch

RolledSpent(policy, now) ==
  IF EpochIsOver(policy, now) THEN 0 ELSE policy.spentThisEpoch

\* Mutant: what is left of the cap before the roll.
RemainingUnrolled(policy, now) ==
  IF policy.spentThisEpoch >= policy.dailyCapUsd
  THEN 0 ELSE policy.dailyCapUsd - policy.spentThisEpoch

\* Mutant: the difference is not floored and wraps around in a uint128.
RemainingWrapped(policy, now) ==
  (policy.dailyCapUsd - RolledSpent(policy, now)) % 1000000

Remaining(policy, now) ==
  IF RolledSpent(policy, now) >= policy.dailyCapUsd
  THEN 0 ELSE policy.dailyCapUsd - RolledSpent(policy, now)

KindOf(routers, call) ==
  IF call.hasData /\ call.target \in routers THEN "SWAP" ELSE "TRANSFER"

\* The verdicts that stop a call: BlockReason of the contract.
BlockReason ==
  {"FROZEN", "UNKNOWN_CONTRACT", "SWAPS_NOT_ALLOWED",
   "COUNTERPARTY_BELOW_TIER", "EXCEEDS_PER_TX_CAP",
   "EXCEEDS_DAILY_ALLOWANCE"}

(***************************************************************************)
(* The first check that fails names the verdict, so the order is part of   *)
(* the contract: it is what ExecutionBlocked reports.  "COSIGN" and "OK"   *)
(* are what is left when every policy check passes.                        *)
(***************************************************************************)
Evaluate(policy, routers, call, tier, usd, now) ==
  IF policy.frozen THEN "FROZEN"
  ELSE IF KindOf(routers, call) = "SWAP" /\ ~policy.allowSwaps
    THEN "SWAPS_NOT_ALLOWED"
  ELSE IF /\ call.hasData
          /\ call.target \notin routers
          /\ ~policy.allowUnknownContracts
    THEN "UNKNOWN_CONTRACT"
  ELSE IF tier < policy.minCounterpartyTier THEN "COUNTERPARTY_BELOW_TIER"
  ELSE IF usd > policy.perTxCapUsd THEN "EXCEEDS_PER_TX_CAP"
  ELSE IF usd > Remaining(policy, now) THEN "EXCEEDS_DAILY_ALLOWANCE"
  ELSE IF usd > policy.cosignAboveUsd THEN "COSIGN"
  ELSE "OK"

\* What execute() and tryExecute() store when they pay.
Charge(policy, usd, now) ==
  [policy EXCEPT !.epochStart = RolledEpochStart(policy, now),
                 !.spentThisEpoch = RolledSpent(policy, now) + usd]
=============================================================================
