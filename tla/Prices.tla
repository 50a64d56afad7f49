------------------------------- MODULE Prices -------------------------------
(***************************************************************************)
(* PricesService: GET /prices for one symbol.  A quote comes from the row  *)
(* fetched last while that is fresh, else from the feed, else from the     *)
(* row again, marked stale.  Calls run side by side, each from await to    *)
(* await; no two share a read.                                             *)
(***************************************************************************)
EXTENDS PriceConverter, FiniteSets

CONSTANTS
  Calls,          \* the requests
  Answers,        \* what a round may report
  MaxStaleness,   \* maxStalenessSeconds of prices.config.ts
  Ttl,            \* PRICE_CACHE_TTL_MS
  Slow,           \* the longest a read of the chain may take
  MaxNow, MaxRounds, MaxFaults

ASSUME PricesAssumption ==
  /\ Answers \subseteq Int
  /\ {MaxStaleness, Ttl, Slow, MaxNow, MaxRounds, MaxFaults} \subseteq Nat

VARIABLES
  rows,     \* priceSnapshot: at most one row for a round
  calls,    \* where each request is
  faults    \* bound on failing reads and writes

vars == <<chainVars, rows, calls, faults>>

NoRow == [round |-> 0]
Nothing == [round |-> 0, stale |-> TRUE]
Asleep == [step |-> "none"]

Init ==
  /\ now = 0 /\ feeds = NotSet
  /\ \E answer \in Answers :
       rounds = <<[answer |-> answer, updatedAt |-> 0, posted |-> 0]>>
  /\ rows = {} /\ faults = 0
  /\ calls = [c \in Calls |-> Asleep]

-----------------------------------------------------------------------------
(* The chain. *)

\* A read that takes longer than Slow has failed before.  An answer is looked
\* at when it is given.
Tick ==
  /\ now < MaxNow
  /\ \A c \in Calls : calls[c].step \in {"reading", "writing"} => now - calls[c].since < Slow
  /\ now' = now + 1
  /\ calls' = [c \in Calls |-> IF calls[c].step = "answered" THEN Asleep ELSE calls[c]]
  /\ UNCHANGED <<rounds, feeds, rows, faults>>

\* A feed should not date a round in the future; the contract expects that
\* it may.
NewRound ==
  /\ Len(rounds) < MaxRounds
  /\ \E answer \in Answers, ahead \in {0, 1} :
       rounds' = Append(rounds, [answer |-> answer, updatedAt |-> now + ahead, posted |-> now])
  /\ UNCHANGED <<now, feeds, rows, calls, faults>>

Configure ==
  /\ feeds # Configured(MaxStaleness)
  /\ SetFeed(MaxStaleness)
  /\ UNCHANGED <<rows, calls, faults>>

-----------------------------------------------------------------------------
(* A request. *)

ToQuote(row) ==
  [round |-> row.round, price |-> row.price, stale |-> now - row.updatedAt > MaxStaleness]

Answer(c, quote) == calls' = [calls EXCEPT ![c] = [step |-> "answered", quote |-> quote]]

\* The rows fetched last.
Newest == {r \in rows : \A s \in rows : s.fetchedAt <= r.fetchedAt}
IsFresh(row) == now - row.fetchedAt < Ttl

Ask(c) ==
  /\ calls[c].step \in {"none", "answered"}
  /\ \E cached \in IF rows = {} THEN {NoRow} ELSE Newest :
       IF cached # NoRow /\ IsFresh(cached)
         THEN Answer(c, ToQuote(cached))
         ELSE calls' = [calls EXCEPT ![c] =
                          [step |-> "reading", cached |-> cached, since |-> now]]
  /\ UNCHANGED <<chainVars, rows, faults>>

\* Mutant: what is left of the row is served as it is.
FallBackUnmarked(c) ==
  Answer(c, IF calls[c].cached = NoRow THEN Nothing ELSE ToQuote(calls[c].cached))

\* The catch of getPrice.
FallBack(c) ==
  Answer(c, IF calls[c].cached = NoRow THEN Nothing
            ELSE [ToQuote(calls[c].cached) EXCEPT !.stale = TRUE])

\* decimals() and latestRoundData().
ReadFeed(c) ==
  /\ calls[c].step = "reading"
  /\ IF Latest.answer <= 0
       THEN FallBack(c)
       ELSE calls' = [calls EXCEPT ![c] =
              [step |-> "writing", cached |-> @.cached, since |-> @.since,
               row |-> [round |-> Len(rounds), price |-> Normalize(Latest.answer),
                        updatedAt |-> Latest.updatedAt]]]
  /\ UNCHANGED <<chainVars, rows, faults>>

\* A round that has a row keeps it as it is, with the time of its first
\* fetching.
Upsert(c) ==
  /\ calls[c].step = "writing"
  /\ LET read == calls[c].row IN
     /\ rows' = IF \E r \in rows : r.round = read.round THEN rows
                ELSE rows \cup {[round |-> read.round, price |-> read.price,
                                 updatedAt |-> read.updatedAt, fetchedAt |-> now]}
     /\ Answer(c, ToQuote(read))
  /\ UNCHANGED <<chainVars, faults>>

Fails(c) ==
  /\ calls[c].step \in {"reading", "writing"}
  /\ faults < MaxFaults /\ faults' = faults + 1
  /\ FallBack(c)
  /\ UNCHANGED <<chainVars, rows>>

Next ==
  \/ Tick \/ NewRound \/ Configure
  \/ \E c \in Calls : Ask(c) \/ ReadFeed(c) \/ Upsert(c) \/ Fails(c)

Spec == Init /\ [][Next]_vars

-----------------------------------------------------------------------------

Quoted(c) == calls[c].step = "answered" /\ calls[c].quote.round # 0
Unmarked(c) == Quoted(c) /\ ~calls[c].quote.stale

\* A price that is served as current was: its round was the feed's latest
\* within the life of a row and the time of a slow read before the answer,
\* whatever other requests did meanwhile, one that read an earlier round and
\* stored it later included (getPrice).
UnmarkedIsCurrent ==
  \A c \in Calls : Unmarked(c) =>
    LET round == calls[c].quote.round IN
    round < Len(rounds) => now - rounds[round + 1].posted <= Ttl + Slow

\* While the feed stays at the round of a quote that is served as current,
\* the contract pays by it, at the same price: the service and the contract
\* agree on which rounds are usable, to the second, and on the rounding
\* (toQuote and normalizeToUsd8 with usdValue).  The service does not know of
\* a feed that is not configured yet nor of a round dated in the future, and
\* has no limit to a price.
UnmarkedIsPayable ==
  \A c \in Calls :
    Unmarked(c) /\ calls[c].quote.round = Len(rounds)
      /\ feeds.isSet /\ Latest.updatedAt <= now /\ calls[c].quote.price <= MaxUsd =>
      UsdValue(TokenUnit) = [ok |-> TRUE, usd8 |-> calls[c].quote.price]
=============================================================================
