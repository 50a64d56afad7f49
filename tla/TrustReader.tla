----------------------------- MODULE TrustReader -----------------------------
(***************************************************************************)
(* The contract that tells the wallet how far a counterparty is trusted,   *)
(* and the two ERC-8004 registries it reads: which account an agent id     *)
(* belongs to, and the ratings the id has been given.                      *)
(*                                                                         *)
(* The identity registry answers only from id to account.  The contract    *)
(* keeps the reverse for the ids somebody has asked it to look up.         *)
(***************************************************************************)
EXTENDS Integers, Sequences, SequencesExt

CONSTANTS
  Accounts,     \* the accounts that may be an agent's
  NoAccount,    \* the zero address
  MinScore,     \* VERIFIED_MIN_SCORE_WAD, in whole points
  MinCount,     \* VERIFIED_MIN_FEEDBACK_COUNT
  MaxDecimals,  \* the decimals of a WAD: 18
  Ratings,      \* the ratings strangers give
  MaxIds,       \* bound on the agent ids ever registered
  MaxStrange    \* bound on moved ids, strangers' ratings and outages together

ASSUME TrustAssumption ==
  /\ NoAccount \notin Accounts
  /\ MinScore \in Nat /\ MinCount \in Nat \ {0} /\ MaxDecimals \in Nat
  /\ Ratings \subseteq [value : Int, decimals : Nat]
  /\ MaxIds \in Nat /\ MaxStrange \in Nat

\* Powers of ten are integers.  It holds for all decimals; the provers know no
\* powers.
ASSUME PowersAssumption ==
  \A decimals \in 0..MaxDecimals : 10 ^ (MaxDecimals - decimals) \in Int

VARIABLES
  wallet,      \* the identity registry: the account of each registered id
  feedback,    \* the reputation registry: the ratings of each registered id
  up,          \* whether the reputation registry can be read
  agentIdOf,   \* the contract's cache, NoId for an account never synced
  strange      \* how many of the bounded events there have been

registryVars == <<wallet, feedback, up, strange>>

NoId == 0
Tiers == {"FLAGGED", "NEW", "VERIFIED"}
Ids == 1..Len(wallet)
NextId == Len(wallet) + 1

RegistryInit ==
  /\ wallet = <<>> /\ feedback = <<>> /\ up = TRUE
  /\ agentIdOf = [a \in Accounts |-> NoId]
  /\ strange = 0

-----------------------------------------------------------------------------
(***************************************************************************)
(* The contract.                                                           *)
(***************************************************************************)
\* Solidity and BigInt division: towards zero.
Quotient(n, d) == IF n >= 0 THEN n \div d ELSE -((-n) \div d)

Wad(n) == n * 10 ^ MaxDecimals

\* Mutant: a rating it cannot scale still counts as one.
AverageFeedbackOfAll(id) ==
  LET usable == SelectSeq(feedback[id], LAMBDA r : r.decimals <= MaxDecimals)
      add(sum, r) == sum + r.value * 10 ^ (MaxDecimals - r.decimals)
      count == Len(feedback[id])
  IN  [count |-> count,
       average |-> IF count = 0 THEN 0 ELSE Quotient(FoldLeft(add, 0, usable), count)]

\* The loop over the ratings: those it cannot scale are passed over.
AverageFeedback(id) ==
  LET add(acc, r) ==
        IF r.decimals > MaxDecimals THEN acc
        ELSE [sum |-> acc.sum + r.value * 10 ^ (MaxDecimals - r.decimals),
              count |-> acc.count + 1]
      all == FoldLeft(add, [sum |-> 0, count |-> 0], feedback[id])
  IN  [count |-> all.count,
       average |-> IF all.count = 0 THEN 0 ELSE Quotient(all.sum, all.count)]

TierOf(account) ==
  LET id == agentIdOf[account] IN
  CASE id = NoId \/ ~up -> "FLAGGED"
    [] OTHER -> LET rating == AverageFeedback(id) IN
                IF rating.count >= MinCount /\ rating.average >= Wad(MinScore)
                THEN "VERIFIED" ELSE "NEW"

\* Anyone may have the cache look an id up.
CacheAgent(id) ==
  agentIdOf' = IF id \in Ids /\ wallet[id] # NoAccount
               THEN [agentIdOf EXCEPT ![wallet[id]] = id]
               ELSE agentIdOf

-----------------------------------------------------------------------------
(***************************************************************************)
(* What strangers do to the registries.                                    *)
(***************************************************************************)
\* Register an id, which gets the caller for its wallet.
RegistryAdds(account) ==
  /\ NextId <= MaxIds
  /\ wallet' = Append(wallet, account) /\ feedback' = Append(feedback, <<>>)
  /\ UNCHANGED <<up, strange>>

Bounded == strange < MaxStrange /\ strange' = strange + 1

RegistryMoves(id, account) ==
  /\ Bounded
  /\ account # wallet[id] /\ wallet' = [wallet EXCEPT ![id] = account]
  /\ UNCHANGED <<feedback, up>>

RegistryRates(id, rating) ==
  /\ feedback' = [feedback EXCEPT ![id] = Append(@, rating)]
  /\ UNCHANGED <<wallet, up>>

Outage == Bounded /\ up /\ up' = FALSE /\ UNCHANGED <<wallet, feedback>>
OutageEnds == ~up /\ up' = TRUE /\ UNCHANGED <<wallet, feedback, strange>>
=============================================================================
