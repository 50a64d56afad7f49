--------------------------- MODULE PriceConverter ---------------------------
(***************************************************************************)
(* PriceConverter: what an amount of a token is worth in dollars, by the   *)
(* latest round of the Chainlink feed its owner has configured.  A price   *)
(* is a natural number in units of 10^-8 dollars, or, here, of the unit    *)
(* the constants choose.                                                   *)
(***************************************************************************)
EXTENDS Naturals, Integers, Sequences

CONSTANTS
  FeedDecimals,   \* decimals() of the feed
  UsdDecimals,    \* USD_DECIMALS
  TokenUnit,      \* 10 ^ tokenDecimals
  MaxUsd          \* type(uint128).max

ASSUME ConverterAssumption ==
  /\ FeedDecimals \in Nat /\ UsdDecimals \in Nat
  /\ TokenUnit \in Nat \ {0} /\ MaxUsd \in Nat

\* A power of ten with an exponent that is no less than 0 is a positive
\* number.  It holds for all decimals; the provers know no powers.
ASSUME PowersAssumption ==
  /\ FeedDecimals > UsdDecimals => 10 ^ (FeedDecimals - UsdDecimals) \in Nat \ {0}
  /\ UsdDecimals >= FeedDecimals => 10 ^ (UsdDecimals - FeedDecimals) \in Nat \ {0}

VARIABLES
  now,      \* the time
  rounds,   \* the rounds of the feed, the last is the latest
  feeds     \* the token's configuration: unset, or the staleness allowed

chainVars == <<now, rounds, feeds>>

Latest == rounds[Len(rounds)]

NotSet == [isSet |-> FALSE]
Configured(staleness) == [isSet |-> TRUE, maxStaleness |-> staleness]

\* setFeed, by the owner.
SetFeed(staleness) ==
  /\ feeds' = Configured(staleness)
  /\ UNCHANGED <<now, rounds>>

Normalize(answer) ==
  IF FeedDecimals > UsdDecimals
    THEN answer \div 10 ^ (FeedDecimals - UsdDecimals)
    ELSE answer * 10 ^ (UsdDecimals - FeedDecimals)

Reverts(why) == [ok |-> FALSE, why |-> why]

\* Mutant: a round of exactly the age allowed is too old.
TooOldAtTheLimit(age) == age >= feeds.maxStaleness

TooOld(age) == age > feeds.maxStaleness

UsdValue(amount) ==
  LET usd8 == (amount * Normalize(Latest.answer)) \div TokenUnit IN
  CASE ~feeds.isSet -> Reverts("FeedNotSet")
    [] feeds.isSet /\ Latest.answer <= 0 -> Reverts("InvalidPrice")
    [] feeds.isSet /\ Latest.answer > 0 /\ Latest.updatedAt > now ->
         Reverts("InvalidRoundTimestamp")
    [] OTHER ->
         IF TooOld(now - Latest.updatedAt) THEN Reverts("StalePrice")
         ELSE IF usd8 > MaxUsd THEN Reverts("UsdValueOverflow")
         ELSE [ok |-> TRUE, usd8 |-> usd8]
=============================================================================
