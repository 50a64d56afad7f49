---------------------------- MODULE PricesProofs ----------------------------
(***************************************************************************)
(* What an unmarked quote is worth, for any number of overlapping requests *)
(* and rounds, any times to live, decimals and answers of the feed.        *)
(***************************************************************************)
EXTENDS Prices, SequenceTheorems, TLAPS

-----------------------------------------------------------------------------
(***************************************************************************)
(* Types.                                                                  *)
(***************************************************************************)
Round == [answer : Int, updatedAt : Nat, posted : Nat]
Row == [round : Nat \ {0}, price : Int, updatedAt : Nat, fetchedAt : Nat]
Read == [round : Nat \ {0}, price : Int, updatedAt : Nat]
Quote == [round : Nat \ {0}, price : Int, stale : BOOLEAN]

Reading == [step : {"reading"}, cached : Row \cup {NoRow}, since : Nat]
Writing == [step : {"writing"}, cached : Row \cup {NoRow}, since : Nat, row : Read]
Answered == [step : {"answered"}, quote : Quote \cup {Nothing}]

PricesTyped ==
  /\ now \in Nat /\ rounds \in Seq(Round) /\ Len(rounds) > 0
  /\ feeds \in {NotSet, Configured(MaxStaleness)}
  /\ rows \subseteq Row
  /\ calls \in [Calls -> {Asleep} \cup Reading \cup Writing \cup Answered]

-----------------------------------------------------------------------------
(***************************************************************************)
(* The inductive invariant.                                                *)
(***************************************************************************)
\* r says of its round what the feed, whose rounds are rs, says.
IsOf(rs, r) ==
  /\ r.round \in DOMAIN rs /\ rs[r.round].answer > 0
  /\ r.price = Normalize(rs[r.round].answer)

\* The round after n, if there is one, was posted at t or later.
UpTo(rs, n, t) == n < Len(rs) => t <= rs[n + 1].posted

RowsInv ==
  \A r \in rows :
    /\ IsOf(rounds, r) /\ r.updatedAt = rounds[r.round].updatedAt
    /\ r.fetchedAt <= now
    /\ UpTo(rounds, r.round, r.fetchedAt - Slow)

\* What a request has read was the latest after it began.
RequestsInv ==
  \A c \in Calls :
    /\ calls[c].step \in {"reading", "writing"} =>
         calls[c].since <= now /\ now - calls[c].since <= Slow
    /\ calls[c].step = "writing" =>
         /\ IsOf(rounds, calls[c].row)
         /\ calls[c].row.updatedAt = rounds[calls[c].row.round].updatedAt
         /\ UpTo(rounds, calls[c].row.round, calls[c].since)

QuotesInv ==
  \A c \in Calls : Unmarked(c) =>
    /\ IsOf(rounds, calls[c].quote)
    /\ now - rounds[calls[c].quote.round].updatedAt <= MaxStaleness
    /\ UpTo(rounds, calls[c].quote.round, now - Ttl - Slow)

PostedInv == \A i \in DOMAIN rounds : rounds[i].posted <= now

PricesInv == PricesTyped /\ PostedInv /\ RowsInv /\ RequestsInv /\ QuotesInv

-----------------------------------------------------------------------------
(***************************************************************************)
(* Types hold.                                                             *)
(***************************************************************************)
States == {Asleep} \cup Reading \cup Writing \cup Answered

\* Its step tells what a request has.
LEMMA StepsTell ==
  ASSUME NEW s \in States
  PROVE  /\ s.step = "reading" => s \in Reading
         /\ s.step = "writing" => s \in Writing
         /\ s.step = "answered" => s \in Answered
         /\ s.step = "none" => s = Asleep
         /\ s.step \in {"none", "reading", "writing", "answered"}
BY DEF States, Asleep, Reading, Writing, Answered

LEMMA NormalizeInt ==
  ASSUME NEW a \in Int
  PROVE  Normalize(a) \in Int
  <1>1. CASE FeedDecimals > UsdDecimals
    <2>1. 10 ^ (FeedDecimals - UsdDecimals) \in Nat \ {0}
      BY <1>1, PowersAssumption
    <2> DEFINE p == 10 ^ (FeedDecimals - UsdDecimals)
    <2>2. Normalize(a) = a \div p
      BY <1>1 DEF Normalize
    <2> HIDE DEF p
    <2>3. p \in Nat \ {0}
      BY <2>1 DEF p
    <2> QED
      BY <2>2, <2>3
  <1>2. CASE ~(FeedDecimals > UsdDecimals)
    <2>1. 10 ^ (UsdDecimals - FeedDecimals) \in Nat \ {0}
      BY <1>2, PowersAssumption, ConverterAssumption
    <2> DEFINE p == 10 ^ (UsdDecimals - FeedDecimals)
    <2>2. Normalize(a) = a * p
      BY <1>2 DEF Normalize
    <2> HIDE DEF p
    <2>3. p \in Nat \ {0}
      BY <2>1 DEF p
    <2> QED
      BY <2>2, <2>3
  <1> QED
    BY <1>1, <1>2

\* A price is positive in the feed and at least 0 after the scaling.
LEMMA NormalizeNat ==
  ASSUME NEW a \in Nat
  PROVE  Normalize(a) \in Nat
  <1>1. CASE FeedDecimals > UsdDecimals
    <2> DEFINE p == 10 ^ (FeedDecimals - UsdDecimals)
    <2>1. p \in Nat \ {0} /\ Normalize(a) = a \div p
      BY <1>1, PowersAssumption DEF Normalize
    <2> HIDE DEF p
    <2> QED
      BY <2>1
  <1>2. CASE ~(FeedDecimals > UsdDecimals)
    <2> DEFINE p == 10 ^ (UsdDecimals - FeedDecimals)
    <2>1. p \in Nat \ {0} /\ Normalize(a) = a * p
      BY <1>2, PowersAssumption, ConverterAssumption DEF Normalize
    <2> HIDE DEF p
    <2> QED
      BY <2>1
  <1> QED
    BY <1>1, <1>2

LEMMA Bounds ==
  {MaxStaleness, Ttl, Slow} \subseteq Nat /\ Answers \subseteq Int
BY PricesAssumption

LEMMA LatestRound ==
  ASSUME PricesTyped
  PROVE  /\ Len(rounds) \in DOMAIN rounds /\ Latest = rounds[Len(rounds)] /\ Latest \in Round
         /\ DOMAIN rounds = 1..Len(rounds) /\ Len(rounds) \in Nat \ {0}
         /\ \A i \in DOMAIN rounds : rounds[i] \in Round
BY DEF PricesTyped, Latest

\* Any row and anything read becomes a quote.
LEMMA QuoteOf ==
  ASSUME PricesTyped, NEW r, r.round \in Nat \ {0}, r.price \in Int, r.updatedAt \in Nat
  PROVE  /\ ToQuote(r) \in Quote
         /\ ToQuote(r).round = r.round /\ ToQuote(r).price = r.price
         /\ ToQuote(r).stale = (now - r.updatedAt > MaxStaleness)
  <1>1. ToQuote(r) = [round |-> r.round, price |-> r.price,
                      stale |-> now - r.updatedAt > MaxStaleness]
    BY DEF ToQuote
  <1> DEFINE b == now - r.updatedAt > MaxStaleness
  <1>2. b \in BOOLEAN
    OBVIOUS
  <1> HIDE DEF b
  <1>3. ToQuote(r) = [round |-> r.round, price |-> r.price, stale |-> b]
    BY <1>1 DEF b
  <1>4. ToQuote(r).stale = b
    BY <1>3
  <1>5. ToQuote(r) \in Quote /\ ToQuote(r).round = r.round /\ ToQuote(r).price = r.price
    BY <1>2, <1>3 DEF Quote
  <1> QED
    BY <1>4, <1>5 DEF b

\* The answer of the catch is nothing or marked.
LEMMA FallsBack ==
  ASSUME PricesTyped, NEW c \in Calls, calls[c].step \in {"reading", "writing"}, FallBack(c)
  PROVE  \E q \in Quote \cup {Nothing} :
           /\ calls' = [calls EXCEPT ![c] = [step |-> "answered", quote |-> q]]
           /\ q.round = 0 \/ q.stale
  <1>1. calls[c] \in States
    BY DEF PricesTyped, States
  <1>2. calls[c].cached \in Row \cup {NoRow}
    BY <1>1, StepsTell DEF Reading, Writing
  <1>3. CASE calls[c].cached = NoRow
    <2>1. calls' = [calls EXCEPT ![c] = [step |-> "answered", quote |-> Nothing]]
      BY <1>3 DEF FallBack, Answer
    <2>2. Nothing.round = 0
      BY DEF Nothing
    <2> QED
      BY <2>1, <2>2
  <1>4. CASE calls[c].cached # NoRow
    <2> DEFINE r == calls[c].cached
               q == [ToQuote(r) EXCEPT !.stale = TRUE]
    <2>1. r \in Row
      BY <1>2, <1>4
    <2>2. ToQuote(r) \in Quote
      <3>1. r.round \in Nat \ {0} /\ r.price \in Int /\ r.updatedAt \in Nat
        BY <2>1 DEF Row
      <3> HIDE DEF r
      <3> QED
        BY <3>1, QuoteOf
    <2>3. q \in Quote /\ q.stale
      BY <2>2 DEF Quote
    <2>4. calls' = [calls EXCEPT ![c] = [step |-> "answered", quote |-> q]]
      BY <1>4 DEF FallBack, Answer
    <2> HIDE DEF q
    <2> QED
      BY <2>3, <2>4
  <1> QED
    BY <1>3, <1>4

\* What the steps of a request leave the request in.
Served(c, q) == calls' = [calls EXCEPT ![c] = [step |-> "answered", quote |-> q]]

\* A quote that is not marked says what the feed's round says.
Sound(q) ==
  q.round # 0 /\ ~q.stale =>
    /\ IsOf(rounds, q) /\ now - rounds[q.round].updatedAt <= MaxStaleness
    /\ UpTo(rounds, q.round, now - Ttl - Slow)

LEMMA SoundQuote ==
  ASSUME PricesTyped, NEW r, r.round \in Nat \ {0}, r.price \in Int, r.updatedAt \in Nat,
         IsOf(rounds, r), r.updatedAt = rounds[r.round].updatedAt,
         UpTo(rounds, r.round, now - Ttl - Slow)
  PROVE  Sound(ToQuote(r))
  <1> DEFINE q == ToQuote(r)
  <1>1. q.round = r.round /\ q.price = r.price /\ q.stale = (now - r.updatedAt > MaxStaleness)
    BY QuoteOf
  <1> HIDE DEF q
  <1> SUFFICES ASSUME ~q.stale
               PROVE  /\ IsOf(rounds, q) /\ now - rounds[q.round].updatedAt <= MaxStaleness
                      /\ UpTo(rounds, q.round, now - Ttl - Slow)
    BY DEF Sound, q
  <1>2. ~(now - r.updatedAt > MaxStaleness)
    BY <1>1
  <1>3. now - r.updatedAt <= MaxStaleness
    BY <1>2, Bounds DEF PricesTyped
  <1> QED
    BY <1>1, <1>3 DEF IsOf

LEMMA ServedKeeps ==
  ASSUME PricesInv, NEW c \in Calls, NEW q \in Quote \cup {Nothing}, Sound(q), Served(c, q),
         UNCHANGED <<now, rounds, feeds>>, rows' \subseteq Row, RowsInv'
  PROVE  PricesInv'
  <1>1. PricesTyped'
    <2>1. [step |-> "answered", quote |-> q] \in Answered
      BY DEF Answered
    <2> QED
      BY <2>1 DEF PricesInv, PricesTyped, Served
  <1>2. /\ calls'[c] = [step |-> "answered", quote |-> q]
        /\ \A d \in Calls \ {c} : calls'[d] = calls[d]
    BY DEF PricesInv, PricesTyped, Served
  <1>3. RequestsInv'
    BY <1>2 DEF PricesInv, RequestsInv
  <1>4. QuotesInv'
    <2> SUFFICES ASSUME NEW d \in Calls, Unmarked(d)'
                 PROVE  /\ IsOf(rounds', calls'[d].quote)
                        /\ now' - rounds'[calls'[d].quote.round].updatedAt <= MaxStaleness
                        /\ UpTo(rounds', calls'[d].quote.round, now' - Ttl - Slow)
      BY DEF QuotesInv
    <2>1. CASE d = c
      <3>1. calls'[d].quote = q /\ q.round # 0 /\ ~q.stale
        BY <1>2, <2>1 DEF Unmarked, Quoted
      <3> QED
        BY <3>1 DEF Sound
    <2>2. CASE d # c
      <3>1. calls'[d] = calls[d] /\ Unmarked(d)
        BY <1>2, <2>2 DEF Unmarked, Quoted
      <3> QED
        BY <3>1 DEF PricesInv, QuotesInv
    <2> QED
      BY <2>1, <2>2
  <1>5. PostedInv'
    BY DEF PricesInv, PostedInv
  <1> QED
    BY <1>1, <1>3, <1>4, <1>5 DEF PricesInv

-----------------------------------------------------------------------------
(***************************************************************************)
(* The steps.                                                              *)
(***************************************************************************)
LEMMA InitPrices == Init => PricesInv
  <1> SUFFICES ASSUME Init PROVE PricesInv
    OBVIOUS
  <1>1. PICK answer \in Answers : rounds = <<[answer |-> answer, updatedAt |-> 0, posted |-> 0]>>
    BY DEF Init
  <1>2. rounds \in Seq(Round) /\ Len(rounds) = 1 /\ DOMAIN rounds = {1} /\ rounds[1].posted = 0
    BY <1>1, Bounds DEF Round
  <1>3. \A c \in Calls : calls[c] = Asleep /\ calls[c].step = "none"
    BY DEF Init, Asleep
  <1>4. PricesTyped
    BY <1>2 DEF Init, PricesTyped
  <1>5. PostedInv /\ RowsInv /\ RequestsInv
    BY <1>2, <1>3 DEF Init, PostedInv, RowsInv, RequestsInv
  <1>6. QuotesInv
    BY <1>3 DEF QuotesInv, Unmarked, Quoted
  <1> QED
    BY <1>4, <1>5, <1>6 DEF PricesInv

LEMMA TickKeeps ==
  ASSUME PricesInv, Tick
  PROVE  PricesInv'
  <1>0. PricesTyped /\ now' = now + 1 /\ UNCHANGED <<rounds, feeds, rows>> /\ now \in Nat
    BY DEF PricesInv, PricesTyped, Tick
  <1>1. \A c \in Calls : /\ calls'[c].step = "none" \/ calls'[c] = calls[c]
                         /\ calls'[c].step # "answered"
                         /\ calls'[c] \in States
    BY <1>0 DEF Tick, Asleep, States, PricesTyped
  <1>2. PricesTyped'
    <2>1. calls' \in [Calls -> States]
      BY <1>1 DEF Tick
    <2> QED
      BY <1>0, <2>1 DEF PricesTyped, States
  <1>3. PostedInv'
    <2>1. \A i \in DOMAIN rounds : rounds[i].posted \in Nat
      BY <1>0, LatestRound DEF Round
    <2> QED
      BY <1>0, <2>1 DEF PricesInv, PostedInv
  <1>4. RowsInv'
    <2>1. \A r \in rows : r.fetchedAt \in Nat
      BY <1>0 DEF PricesTyped, Row
    <2> QED
      BY <1>0, <2>1 DEF PricesInv, RowsInv
  <1>5. RequestsInv'
    <2> SUFFICES ASSUME NEW c \in Calls, calls'[c].step \in {"reading", "writing"}
                 PROVE  /\ calls'[c].since <= now' /\ now' - calls'[c].since <= Slow
                        /\ calls'[c].step = "writing" =>
                             /\ IsOf(rounds', calls'[c].row)
                             /\ calls'[c].row.updatedAt = rounds'[calls'[c].row.round].updatedAt
                             /\ UpTo(rounds', calls'[c].row.round, calls'[c].since)
      BY DEF RequestsInv
    <2>1. calls'[c] = calls[c]
      BY <1>1
    <2>2. calls[c].since \in Nat
      <3>1. calls[c] \in States
        BY <1>0 DEF PricesTyped, States
      <3> QED
        BY <2>1, <3>1, StepsTell DEF Reading, Writing
    <2>3. now - calls[c].since < Slow
      BY <2>1 DEF Tick
    <2> QED
      BY <1>0, <2>1, <2>2, <2>3, Bounds DEF PricesInv, RequestsInv
  <1>6. QuotesInv'
    BY <1>1 DEF QuotesInv, Unmarked, Quoted
  <1> QED
    BY <1>2, <1>3, <1>4, <1>5, <1>6 DEF PricesInv

\* A round that comes now leaves the others, and is after what was read.
LEMMA AppendKeeps ==
  ASSUME PricesInv, NEW rd \in Round, rd.posted = now, rounds' = Append(rounds, rd)
  PROVE  /\ rounds' \in Seq(Round) /\ Len(rounds') > 0
         /\ \A i \in DOMAIN rounds : i \in DOMAIN rounds' /\ rounds'[i] = rounds[i]
         /\ \A i \in DOMAIN rounds' : i \in DOMAIN rounds \/ rounds'[i].posted = now
         /\ \A r : IsOf(rounds, r) => IsOf(rounds', r) /\ r.round \in DOMAIN rounds
         /\ \A n \in DOMAIN rounds, t \in Int :
              t <= now /\ UpTo(rounds, n, t) => UpTo(rounds', n, t)
  <1>1. /\ rounds \in Seq(Round) /\ Len(rounds) \in Nat \ {0}
        /\ DOMAIN rounds = 1..Len(rounds)
    BY LatestRound DEF PricesInv, PricesTyped
  <1>2. /\ rounds' \in Seq(Round) /\ Len(rounds') = Len(rounds) + 1
        /\ DOMAIN rounds' = 1..(Len(rounds) + 1)
        /\ \A i \in 1..Len(rounds) : rounds'[i] = rounds[i]
        /\ rounds'[Len(rounds) + 1] = rd
    BY <1>1, AppendProperties
  <1>3. \A i \in DOMAIN rounds : i \in DOMAIN rounds' /\ rounds'[i] = rounds[i]
    BY <1>1, <1>2
  <1>4. \A r : IsOf(rounds, r) => IsOf(rounds', r) /\ r.round \in DOMAIN rounds
    BY <1>3 DEF IsOf
  <1>5. ASSUME NEW n \in DOMAIN rounds, NEW t \in Int, t <= now, UpTo(rounds, n, t)
        PROVE  UpTo(rounds', n, t)
    <2>1. CASE n < Len(rounds)
      BY <1>1, <1>2, <1>5, <2>1 DEF UpTo
    <2>2. CASE n = Len(rounds)
      BY <1>1, <1>2, <1>5, <2>2 DEF UpTo
    <2> QED
      BY <1>1, <2>1, <2>2
  <1> QED
    BY <1>1, <1>2, <1>3, <1>4, <1>5

LEMMA NewRoundKeeps ==
  ASSUME PricesInv, NewRound
  PROVE  PricesInv'
  <1>0. PricesTyped /\ now \in Nat /\ UNCHANGED <<now, feeds, rows, calls>>
    BY DEF PricesInv, PricesTyped, NewRound
  <1>1. PICK answer \in Answers, ahead \in {0, 1} :
          rounds' = Append(rounds, [answer |-> answer, updatedAt |-> now + ahead, posted |-> now])
    BY DEF NewRound
  <1> DEFINE rd == [answer |-> answer, updatedAt |-> now + ahead, posted |-> now]
  <1>2. rd \in Round /\ rd.posted = now
    BY <1>0, Bounds DEF Round
  <1> HIDE DEF rd
  <1>3. /\ rounds' \in Seq(Round) /\ Len(rounds') > 0
        /\ \A i \in DOMAIN rounds : i \in DOMAIN rounds' /\ rounds'[i] = rounds[i]
        /\ \A i \in DOMAIN rounds' : i \in DOMAIN rounds \/ rounds'[i].posted = now
        /\ \A r : IsOf(rounds, r) => IsOf(rounds', r) /\ r.round \in DOMAIN rounds
        /\ \A n \in DOMAIN rounds, t \in Int :
             t <= now /\ UpTo(rounds, n, t) => UpTo(rounds', n, t)
    <2>1. rounds' = Append(rounds, rd)
      BY <1>1 DEF rd
    <2> QED
      BY <1>2, <2>1, AppendKeeps
  <1>4. PricesTyped'
    BY <1>0, <1>3 DEF PricesTyped
  <1>5. PostedInv'
    BY <1>0, <1>3 DEF PricesInv, PostedInv
  <1>6. RowsInv'
    <2> SUFFICES ASSUME NEW r \in rows
                 PROVE  /\ IsOf(rounds', r) /\ r.updatedAt = rounds'[r.round].updatedAt
                        /\ r.fetchedAt <= now /\ UpTo(rounds', r.round, r.fetchedAt - Slow)
      BY <1>0 DEF RowsInv
    <2>1. /\ IsOf(rounds, r) /\ r.updatedAt = rounds[r.round].updatedAt
          /\ r.fetchedAt <= now /\ UpTo(rounds, r.round, r.fetchedAt - Slow)
      BY DEF PricesInv, RowsInv
    <2>2. r.fetchedAt - Slow \in Int /\ r.fetchedAt - Slow <= now
      BY <1>0, <2>1, Bounds DEF PricesTyped, Row
    <2> QED
      BY <1>3, <2>1, <2>2
  <1>7. RequestsInv'
    <2> SUFFICES ASSUME NEW c \in Calls, calls[c].step = "writing"
                 PROVE  /\ IsOf(rounds', calls[c].row)
                        /\ calls[c].row.updatedAt = rounds'[calls[c].row.round].updatedAt
                        /\ UpTo(rounds', calls[c].row.round, calls[c].since)
      BY <1>0 DEF PricesInv, RequestsInv
    <2>1. calls[c].since \in Nat /\ calls[c].since <= now
      <3>1. calls[c] \in States
        BY <1>0 DEF PricesTyped, States
      <3> QED
        BY <3>1, StepsTell DEF Writing, PricesInv, RequestsInv
    <2>2. /\ IsOf(rounds, calls[c].row)
          /\ calls[c].row.updatedAt = rounds[calls[c].row.round].updatedAt
          /\ UpTo(rounds, calls[c].row.round, calls[c].since)
      BY DEF PricesInv, RequestsInv
    <2> QED
      BY <1>3, <2>1, <2>2
  <1>8. QuotesInv'
    <2> SUFFICES ASSUME NEW c \in Calls, Unmarked(c)
                 PROVE  /\ IsOf(rounds', calls[c].quote)
                        /\ now - rounds'[calls[c].quote.round].updatedAt <= MaxStaleness
                        /\ UpTo(rounds', calls[c].quote.round, now - Ttl - Slow)
      BY <1>0 DEF QuotesInv, Unmarked, Quoted
    <2>1. /\ IsOf(rounds, calls[c].quote)
          /\ now - rounds[calls[c].quote.round].updatedAt <= MaxStaleness
          /\ UpTo(rounds, calls[c].quote.round, now - Ttl - Slow)
      BY DEF PricesInv, QuotesInv
    <2>2. now - Ttl - Slow \in Int /\ now - Ttl - Slow <= now
      BY <1>0, Bounds
    <2> QED
      BY <1>3, <2>1, <2>2
  <1> QED
    BY <1>4, <1>5, <1>6, <1>7, <1>8 DEF PricesInv

LEMMA ConfigureKeeps ==
  ASSUME PricesInv, Configure
  PROVE  PricesInv'
  <1>1. PricesTyped'
    BY DEF Configure, SetFeed, PricesInv, PricesTyped
  <1>2. PostedInv' /\ RowsInv' /\ RequestsInv' /\ QuotesInv'
    BY DEF Configure, SetFeed, PricesInv, PostedInv, RowsInv, RequestsInv, QuotesInv,
           Unmarked, Quoted
  <1> QED
    BY <1>1, <1>2 DEF PricesInv

\* A request that goes on without an answer changes nothing but itself.
LEMMA GoesOn ==
  ASSUME PricesInv, NEW c \in Calls, NEW s \in Reading \cup Writing,
         calls' = [calls EXCEPT ![c] = s], UNCHANGED <<now, rounds, feeds, rows>>,
         s.since <= now /\ now - s.since <= Slow,
         s.step = "writing" =>
           /\ IsOf(rounds, s.row) /\ s.row.updatedAt = rounds[s.row.round].updatedAt
           /\ UpTo(rounds, s.row.round, s.since)
  PROVE  PricesInv'
  <1>1. PricesTyped'
    BY DEF PricesInv, PricesTyped
  <1>2. calls'[c] = s /\ \A d \in Calls \ {c} : calls'[d] = calls[d]
    BY DEF PricesInv, PricesTyped
  <1>3. s.step # "answered"
    BY DEF Reading, Writing
  <1>4. PostedInv' /\ RowsInv'
    BY DEF PricesInv, PostedInv, RowsInv
  <1>5. RequestsInv'
    BY <1>2 DEF PricesInv, RequestsInv
  <1>6. QuotesInv'
    BY <1>2, <1>3 DEF PricesInv, QuotesInv, Unmarked, Quoted
  <1> QED
    BY <1>1, <1>4, <1>5, <1>6 DEF PricesInv

LEMMA AskKeeps ==
  ASSUME PricesInv, NEW c \in Calls, Ask(c)
  PROVE  PricesInv'
  <1>0. PricesTyped /\ now \in Nat /\ UNCHANGED <<now, rounds, feeds, rows>> /\ RowsInv
    BY DEF PricesInv, PricesTyped, Ask, chainVars
  <1>1. PICK cached \in rows \cup {NoRow} :
          IF cached # NoRow /\ IsFresh(cached)
            THEN Answer(c, ToQuote(cached))
            ELSE calls' = [calls EXCEPT ![c] =
                             [step |-> "reading", cached |-> cached, since |-> now]]
    BY DEF Ask, Newest
  <1>2. CASE cached # NoRow /\ IsFresh(cached)
    <2>1. cached \in rows /\ cached \in Row
      BY <1>0, <1>1, <1>2 DEF PricesTyped
    <2>2. /\ cached.round \in Nat \ {0} /\ cached.price \in Int /\ cached.updatedAt \in Nat
          /\ cached.fetchedAt \in Nat
      BY <2>1 DEF Row
    <2>3. /\ ToQuote(cached) \in Quote
          /\ ToQuote(cached).round = cached.round /\ ToQuote(cached).price = cached.price
          /\ ToQuote(cached).stale = (now - cached.updatedAt > MaxStaleness)
      BY <1>0, <2>2, QuoteOf
    <2>4. /\ IsOf(rounds, cached) /\ cached.updatedAt = rounds[cached.round].updatedAt
          /\ UpTo(rounds, cached.round, cached.fetchedAt - Slow)
      BY <2>1 DEF PricesInv, RowsInv
    <2>5. UpTo(rounds, cached.round, now - Ttl - Slow)
      <3>1. now - cached.fetchedAt < Ttl
        BY <1>2 DEF IsFresh
      <3>2. cached.round < Len(rounds) => rounds[cached.round + 1].posted \in Nat
        BY <1>0, <2>2, LatestRound DEF Round
      <3>3. ASSUME NEW p \in Nat, cached.fetchedAt - Slow <= p
            PROVE  now - Ttl - Slow <= p
        BY <1>0, <2>2, <3>1, <3>3, Bounds
      <3> QED
        BY <2>4, <3>2, <3>3 DEF UpTo
    <2>6. Sound(ToQuote(cached))
      BY <1>0, <2>2, <2>4, <2>5, SoundQuote
    <2>7. Served(c, ToQuote(cached))
      BY <1>1, <1>2 DEF Answer, Served
    <2>8. RowsInv' /\ rows' \subseteq Row
      BY <1>0 DEF RowsInv, PricesTyped
    <2> QED
      BY <1>0, <2>3, <2>6, <2>7, <2>8, ServedKeeps
  <1>3. CASE ~(cached # NoRow /\ IsFresh(cached))
    <2> DEFINE s == [step |-> "reading", cached |-> cached, since |-> now]
    <2>1. s \in Reading /\ s.since = now /\ s.step # "writing"
      BY <1>0, <1>1 DEF Reading, PricesTyped
    <2>2. calls' = [calls EXCEPT ![c] = s]
      BY <1>1, <1>3
    <2> HIDE DEF s
    <2>3. s.since <= now /\ now - s.since <= Slow
      BY <1>0, <2>1, Bounds
    <2> QED
      BY <1>0, <2>1, <2>2, <2>3, GoesOn
  <1> QED
    BY <1>2, <1>3

LEMMA FallBackKeeps ==
  ASSUME PricesInv, NEW c \in Calls, calls[c].step \in {"reading", "writing"}, FallBack(c),
         UNCHANGED <<now, rounds, feeds, rows>>
  PROVE  PricesInv'
  <1>1. PICK q \in Quote \cup {Nothing} : Served(c, q) /\ (q.round = 0 \/ q.stale)
    BY FallsBack DEF PricesInv, Served
  <1>2. Sound(q)
    BY <1>1 DEF Sound
  <1>3. RowsInv' /\ rows' \subseteq Row
    BY DEF PricesInv, RowsInv, PricesTyped
  <1> QED
    BY <1>1, <1>2, <1>3, ServedKeeps

LEMMA ReadFeedKeeps ==
  ASSUME PricesInv, NEW c \in Calls, ReadFeed(c)
  PROVE  PricesInv'
  <1>0. PricesTyped /\ calls[c].step = "reading" /\ UNCHANGED <<now, rounds, feeds, rows>>
    BY DEF PricesInv, ReadFeed, chainVars
  <1>1. CASE Latest.answer <= 0
    BY <1>0, <1>1, FallBackKeeps DEF ReadFeed
  <1>2. CASE ~(Latest.answer <= 0)
    <2> DEFINE read == [round |-> Len(rounds), price |-> Normalize(Latest.answer),
                        updatedAt |-> Latest.updatedAt]
               s == [step |-> "writing", cached |-> calls[c].cached,
                     since |-> calls[c].since, row |-> read]
    <2>1. Latest.answer \in Int /\ Latest.updatedAt \in Nat /\ Latest = rounds[Len(rounds)]
          /\ Len(rounds) \in DOMAIN rounds /\ Len(rounds) \in Nat \ {0}
      BY <1>0, LatestRound DEF Round
    <2>2. read \in Read
      BY <2>1, NormalizeInt DEF Read
    <2>3. calls[c].cached \in Row \cup {NoRow} /\ calls[c].since \in Nat
      <3>1. calls[c] \in States
        BY <1>0 DEF PricesTyped, States
      <3> QED
        BY <1>0, <3>1, StepsTell DEF Reading
    <2>4. s \in Writing /\ s.since = calls[c].since /\ s.row = read
      BY <2>2, <2>3 DEF Writing
    <2>5. calls' = [calls EXCEPT ![c] = s]
      BY <1>0, <1>2 DEF ReadFeed, PricesTyped
    <2>6. IsOf(rounds, read) /\ read.updatedAt = rounds[read.round].updatedAt
      BY <1>2, <2>1 DEF IsOf
    <2>7. UpTo(rounds, read.round, calls[c].since)
      BY <2>1 DEF UpTo
    <2>8. calls[c].since <= now /\ now - calls[c].since <= Slow
      BY <1>0 DEF PricesInv, RequestsInv
    <2> HIDE DEF read, s
    <2> QED
      BY <1>0, <2>4, <2>5, <2>6, <2>7, <2>8, GoesOn
  <1> QED
    BY <1>1, <1>2

LEMMA UpsertKeeps ==
  ASSUME PricesInv, NEW c \in Calls, Upsert(c)
  PROVE  PricesInv'
  <1> DEFINE read == calls[c].row
             row == [round |-> read.round, price |-> read.price,
                     updatedAt |-> read.updatedAt, fetchedAt |-> now]
  <1>0. PricesTyped /\ now \in Nat /\ calls[c].step = "writing" /\ UNCHANGED <<now, rounds, feeds>>
    BY DEF PricesInv, PricesTyped, Upsert, chainVars
  <1>1. calls[c].since \in Nat /\ read \in Read
    <2>1. calls[c] \in States
      BY <1>0 DEF PricesTyped, States
    <2> QED
      BY <1>0, <2>1, StepsTell DEF Writing
  <1>2. read.round \in Nat \ {0} /\ read.price \in Int /\ read.updatedAt \in Nat
    BY <1>1 DEF Read
  <1>3. /\ IsOf(rounds, read) /\ read.updatedAt = rounds[read.round].updatedAt
        /\ UpTo(rounds, read.round, calls[c].since)
        /\ calls[c].since <= now /\ now - calls[c].since <= Slow
    BY <1>0 DEF PricesInv, RequestsInv
  <1>4. read.round < Len(rounds) => rounds[read.round + 1].posted \in Nat
    <2>1. /\ Len(rounds) \in Nat /\ DOMAIN rounds = 1..Len(rounds)
          /\ \A i \in DOMAIN rounds : rounds[i] \in Round
      BY <1>0, LatestRound
    <2>2. read.round < Len(rounds) => read.round + 1 \in DOMAIN rounds
      BY ONLY <1>2, <2>1
    <2> QED
      BY ONLY <2>1, <2>2 DEF Round
  <1>5. UpTo(rounds, read.round, now - Slow) /\ UpTo(rounds, read.round, now - Ttl - Slow)
    BY <1>0, <1>1, <1>3, <1>4, Bounds, SMTT(30) DEF UpTo
  <1>6. rows' \in {rows, rows \cup {row}} /\ Served(c, ToQuote(read))
    BY DEF Upsert, Answer, Served
  <1>7. row \in Row /\ row.fetchedAt = now /\ row.round = read.round
        /\ row.price = read.price /\ row.updatedAt = read.updatedAt
    BY <1>0, <1>2 DEF Row
  <1>8. /\ ToQuote(read) \in Quote
        /\ ToQuote(read).round = read.round /\ ToQuote(read).price = read.price
        /\ ToQuote(read).stale = (now - read.updatedAt > MaxStaleness)
    BY <1>0, <1>2, QuoteOf
  <1> HIDE DEF read, row
  <1>9. Sound(ToQuote(read))
    BY <1>0, <1>2, <1>3, <1>5, SoundQuote
  <1>10. IsOf(rounds, row) /\ row.updatedAt = rounds[row.round].updatedAt
    BY <1>3, <1>7 DEF IsOf
  <1>11. rows' \subseteq Row
    BY <1>0, <1>6, <1>7 DEF PricesTyped
  <1>12. RowsInv'
    BY <1>0, <1>5, <1>6, <1>7, <1>10 DEF PricesInv, RowsInv
  <1> QED
    BY <1>0, <1>6, <1>8, <1>9, <1>11, <1>12, ServedKeeps

LEMMA PricesStep == PricesInv /\ [Next]_vars => PricesInv'
  <1> SUFFICES ASSUME PricesInv, [Next]_vars PROVE PricesInv'
    OBVIOUS
  <1>1. CASE Tick
    BY <1>1, TickKeeps
  <1>2. CASE NewRound
    BY <1>2, NewRoundKeeps
  <1>3. CASE Configure
    BY <1>3, ConfigureKeeps
  <1>4. ASSUME NEW c \in Calls, Ask(c) PROVE PricesInv'
    BY <1>4, AskKeeps
  <1>5. ASSUME NEW c \in Calls, ReadFeed(c) PROVE PricesInv'
    BY <1>5, ReadFeedKeeps
  <1>6. ASSUME NEW c \in Calls, Upsert(c) PROVE PricesInv'
    BY <1>6, UpsertKeeps
  <1>7. ASSUME NEW c \in Calls, Fails(c) PROVE PricesInv'
    BY <1>7, FallBackKeeps DEF Fails, chainVars
  <1>8. CASE UNCHANGED vars
    BY <1>8 DEF vars, chainVars, PricesInv, PricesTyped, PostedInv, RowsInv, RequestsInv,
                QuotesInv, Unmarked, Quoted
  <1> QED
    BY <1>1, <1>2, <1>3, <1>4, <1>5, <1>6, <1>7, <1>8 DEF Next

LEMMA PricesInvariant == Spec => []PricesInv
  BY InitPrices, PricesStep, PTL DEF Spec

\* Moving two terms of an inequality across.
LEMMA WithinTheLimits ==
  ASSUME NEW n \in Nat, NEW life \in Nat, NEW slow \in Nat, NEW posted \in Nat,
         n - life - slow <= posted
  PROVE  n - posted <= life + slow
  OBVIOUS

\* A price served as current was the feed's within the life of a row and the
\* time of a slow read, for any times and however many requests overlap
\* (getPrice and its upsert, which leaves an older row as it is).
THEOREM UnmarkedIsCurrentAlways == Spec => []UnmarkedIsCurrent
  <1>1. PricesInv => UnmarkedIsCurrent
    <2> SUFFICES ASSUME PricesInv, NEW c \in Calls, Unmarked(c),
                        calls[c].quote.round < Len(rounds)
                 PROVE  now - rounds[calls[c].quote.round + 1].posted <= Ttl + Slow
      BY DEF UnmarkedIsCurrent
    <2>1. /\ calls[c].quote.round \in DOMAIN rounds
          /\ now - Ttl - Slow <= rounds[calls[c].quote.round + 1].posted
      BY DEF PricesInv, QuotesInv, UpTo, IsOf
    <2> DEFINE next == calls[c].quote.round + 1
    <2>2. PricesTyped
      BY DEF PricesInv
    <2>3. next \in DOMAIN rounds
      <3>1. /\ DOMAIN rounds = 1..Len(rounds) /\ Len(rounds) \in Nat
            /\ calls[c].quote.round \in DOMAIN rounds
        BY <2>1, <2>2, LatestRound
      <3> QED
        BY ONLY <3>1, calls[c].quote.round < Len(rounds)
    <2>4. now \in Nat /\ rounds[next].posted \in Nat
      <3>1. rounds[next] \in Round
        BY <2>2, <2>3, LatestRound
      <3> QED
        BY ONLY <2>2, <3>1 DEF PricesTyped, Round
    <2>5. Ttl \in Nat /\ Slow \in Nat
      BY Bounds
    <2> QED
      BY ONLY <2>1, <2>4, <2>5, WithinTheLimits
  <1> QED
    BY <1>1, PricesInvariant, PTL

\* The contract pays by every current quote of the feed's round, at the same
\* price: for any decimals of feed and token, any answer and any staleness
\* limit (toQuote and normalizeToUsd8 with usdValue).
THEOREM UnmarkedIsPayableAlways == Spec => []UnmarkedIsPayable
  <1>1. PricesInv => UnmarkedIsPayable
    <2> SUFFICES ASSUME PricesInv, NEW c \in Calls, Unmarked(c),
                        calls[c].quote.round = Len(rounds), feeds.isSet,
                        Latest.updatedAt <= now, calls[c].quote.price <= MaxUsd
                 PROVE  UsdValue(TokenUnit) = [ok |-> TRUE, usd8 |-> calls[c].quote.price]
      BY DEF UnmarkedIsPayable
    <2> DEFINE price == Normalize(Latest.answer)
    <2>1. PricesTyped /\ now \in Nat /\ Latest = rounds[Len(rounds)] /\ Latest \in Round
      BY LatestRound DEF PricesInv, PricesTyped
    <2>2. Latest.answer > 0 /\ calls[c].quote.price = price
          /\ now - Latest.updatedAt <= MaxStaleness
      BY <2>1 DEF PricesInv, QuotesInv, IsOf
    <2>3. Latest.answer \in Int /\ Latest.updatedAt \in Nat /\ price \in Int
      BY <2>1, NormalizeInt DEF Round
    <2>4. feeds.maxStaleness = MaxStaleness
      BY <2>1 DEF PricesTyped, NotSet, Configured
    <2>5. (TokenUnit * price) \div TokenUnit = price
      <3> HIDE DEF price
      <3>1. \A t \in Nat \ {0}, p \in Int : (t * p) \div t = p
        OBVIOUS
      <3> QED
        BY <2>3, <3>1, ConverterAssumption
    <2>6. ~TooOld(now - Latest.updatedAt)
      BY <2>1, <2>2, <2>3, <2>4, Bounds DEF TooOld
    <2>7. ~(price > MaxUsd)
      BY <2>2, <2>3, ConverterAssumption
    <2>8. UsdValue(TokenUnit) = [ok |-> TRUE, usd8 |-> price]
      <3>1. ~(Latest.answer <= 0) /\ ~(Latest.updatedAt > now)
        BY <2>1, <2>2, <2>3
      <3> QED
        BY <2>5, <2>6, <2>7, <3>1 DEF UsdValue
    <2> QED
      BY <2>2, <2>8
  <1> QED
    BY <1>1, PricesInvariant, PTL
-----------------------------------------------------------------------------
(***************************************************************************)
(* Rounding.                                                               *)
(***************************************************************************)
Value(amount) == (amount * Normalize(Latest.answer)) \div TokenUnit

\* The rounding of a quotient.
LEMMA QuotientOfSum ==
  ASSUME NEW x \in Nat, NEW y \in Nat, NEW d \in Nat \ {0}
  PROVE  /\ x \div d \in Nat /\ y \div d \in Nat /\ (x + y) \div d \in Nat
         /\ x \div d + y \div d <= (x + y) \div d
         /\ (x + y) \div d <= x \div d + y \div d + 1
  <1>1. /\ x = d * (x \div d) + (x % d) /\ x % d \in 0..(d - 1) /\ x \div d \in Nat
        /\ y = d * (y \div d) + (y % d) /\ y % d \in 0..(d - 1) /\ y \div d \in Nat
        /\ x + y = d * ((x + y) \div d) + ((x + y) % d)
        /\ (x + y) % d \in 0..(d - 1) /\ (x + y) \div d \in Nat
    OBVIOUS
  <1> DEFINE a == x \div d
             b == y \div d
             c == (x + y) \div d
  <1>2. /\ a \in Nat /\ b \in Nat /\ c \in Nat
        /\ d * a <= x /\ x < d * a + d /\ d * b <= y /\ y < d * b + d
        /\ d * c <= x + y /\ x + y < d * c + d
    <2> HIDE DEF a, b, c
    <2> QED
      BY <1>1 DEF a, b, c
  <1> HIDE DEF a, b, c
  <1>3. d * (a + b) < d * (c + 1) /\ d * c < d * (a + b + 2)
    <2>1. d * (a + b) = d * a + d * b /\ d * (c + 1) = d * c + d
          /\ d * (a + b + 2) = d * a + d * b + d + d
      BY <1>2
    <2>2. /\ d * a \in Nat /\ d * b \in Nat /\ d * c \in Nat
      BY <1>2
    <2> QED
      BY <1>2, <2>1, <2>2
  <1>4. \A i, j \in Nat : d * i < d * j => i < j
    OBVIOUS
  <1>5. a + b < c + 1 /\ c < a + b + 2
    BY <1>2, <1>3, <1>4
  <1> QED
    BY <1>2, <1>5 DEF a, b, c

\* Paying an amount in two parts: the parts can be valued whenever the whole
\* can, are together never worth more, and less by one unit of the price at
\* most.
SplitLosesAUnit ==
  \A a, b \in Nat :
    UsdValue(a + b).ok =>
      /\ UsdValue(a).ok /\ UsdValue(b).ok
      /\ LET whole == UsdValue(a + b).usd8
             parts == UsdValue(a).usd8 + UsdValue(b).usd8
         IN  parts <= whole /\ whole <= parts + 1

\* What rounding down (usdValue) gives away: each split of a payment lets one
\* unit of 10^-8 dollars at most pass the caps uncounted, in every reachable
\* state of the feed, for any decimals of feed and token.
THEOREM SplitLosesAUnitAlways == Spec => []SplitLosesAUnit
  <1>1. PricesInv => SplitLosesAUnit
    <2> SUFFICES ASSUME PricesInv, NEW a \in Nat, NEW b \in Nat, UsdValue(a + b).ok
                 PROVE  /\ UsdValue(a).ok /\ UsdValue(b).ok
                        /\ UsdValue(a).usd8 + UsdValue(b).usd8 <= UsdValue(a + b).usd8
                        /\ UsdValue(a + b).usd8 <= UsdValue(a).usd8 + UsdValue(b).usd8 + 1
      BY DEF SplitLosesAUnit
    <2> DEFINE price == Normalize(Latest.answer)
    <2>1. /\ feeds.isSet /\ ~(Latest.answer <= 0) /\ ~(Latest.updatedAt > now)
          /\ ~TooOld(now - Latest.updatedAt) /\ ~(Value(a + b) > MaxUsd)
      <3>1. feeds.isSet \in BOOLEAN
        <4>1. feeds = NotSet \/ feeds = Configured(MaxStaleness)
          BY DEF PricesInv, PricesTyped
        <4>2. NotSet.isSet = FALSE /\ Configured(MaxStaleness).isSet = TRUE
          BY DEF NotSet, Configured
        <4> QED
          BY <4>1, <4>2
      <3>2. Latest.answer \in Int /\ Latest.updatedAt \in Nat /\ now \in Nat
        BY LatestRound DEF PricesInv, PricesTyped, Round
      <3>3. \A why : ~Reverts(why).ok
        BY DEF Reverts
      <3>4. feeds.isSet
        BY <3>1, <3>3 DEF UsdValue
      <3>5. ~(Latest.answer <= 0)
        BY <3>3, <3>4 DEF UsdValue
      <3>6. Latest.answer > 0
        BY <3>2, <3>5
      <3>7. ~(Latest.updatedAt > now)
        BY <3>3, <3>4, <3>5, <3>6 DEF UsdValue
      <3>8. UsdValue(a + b) =
              IF TooOld(now - Latest.updatedAt) THEN Reverts("StalePrice")
              ELSE IF Value(a + b) > MaxUsd THEN Reverts("UsdValueOverflow")
              ELSE [ok |-> TRUE, usd8 |-> Value(a + b)]
        BY <3>4, <3>5, <3>7 DEF UsdValue, Value
      <3> QED
        BY <3>3, <3>4, <3>5, <3>7, <3>8
    <2>2. \A n \in Nat : ~(Value(n) > MaxUsd) => UsdValue(n) = [ok |-> TRUE, usd8 |-> Value(n)]
      BY <2>1 DEF UsdValue, Value
    <2>3. Latest.answer \in Nat
      BY <2>1, LatestRound DEF PricesInv, Round
    <2>4. price \in Nat
      BY <2>3, NormalizeNat
    <2>5. /\ Value(a) \in Nat /\ Value(b) \in Nat
          /\ Value(a + b) \in Nat
          /\ Value(a) + Value(b) <= Value(a + b) /\ Value(a + b) <= Value(a) + Value(b) + 1
      <3> HIDE DEF price
      <3>1. a * price \in Nat /\ b * price \in Nat /\ (a + b) * price = a * price + b * price
        BY <2>4
      <3> DEFINE x == a * price
                 y == b * price
      <3>2. /\ Value(a) = x \div TokenUnit /\ Value(b) = y \div TokenUnit
            /\ Value(a + b) = (x + y) \div TokenUnit
        BY <3>1 DEF Value, price
      <3>3. x \in Nat /\ y \in Nat /\ TokenUnit \in Nat \ {0}
        BY <3>1, ConverterAssumption
      <3> HIDE DEF x, y
      <3>4. /\ x \div TokenUnit \in Nat /\ y \div TokenUnit \in Nat /\ (x + y) \div TokenUnit \in Nat
            /\ x \div TokenUnit + y \div TokenUnit <= (x + y) \div TokenUnit
            /\ (x + y) \div TokenUnit <= x \div TokenUnit + y \div TokenUnit + 1
        BY <3>3, QuotientOfSum
      <3> QED
        BY <3>2, <3>4
    <2>6. ~(Value(a) > MaxUsd) /\ ~(Value(b) > MaxUsd)
      BY <2>1, <2>5, ConverterAssumption
    <2>7. /\ UsdValue(a) = [ok |-> TRUE, usd8 |-> Value(a)]
          /\ UsdValue(b) = [ok |-> TRUE, usd8 |-> Value(b)]
          /\ UsdValue(a + b) = [ok |-> TRUE, usd8 |-> Value(a + b)]
      <3>1. a + b \in Nat
        OBVIOUS
      <3> QED
        BY <2>1, <2>2, <2>6, <3>1
    <2> QED
      BY <2>5, <2>7
  <1> QED
    BY <1>1, PricesInvariant, PTL
=============================================================================
