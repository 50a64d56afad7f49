------------------------- MODULE IndexerProperties -------------------------
(***************************************************************************)
(* What makes the indexed database a picture of the chain.                 *)
(***************************************************************************)
EXTENDS Indexer

\* The event a transaction is indexed by, and the proposal it names.
NameOf(n) == txs[n].events[1].name
IdOf(n) == txs[n].events[1].id

\* What the feed shows of the transactions `logs` once they are indexed.
ShownOf(logs) == {Row(n, 1, NameOf(n)) : n \in logs}

\* The proposals filed in `logs`, and the decisions on proposal id in them.
FiledIn(logs) == {IdOf(n) : n \in {m \in logs : NameOf(m) = "Proposed"}}

DecisionsIn(logs, id) ==
  {n \in logs : NameOf(n) \in {"Approved", "Denied"} /\ IdOf(n) = id}

Verdict(n) == IF NameOf(n) = "Approved" THEN "APPROVED" ELSE "DENIED"

\* What proposal id may stand at after `logs`: the decisions of two wallets on
\* one id may differ.
StandingsIn(logs, id) ==
  IF DecisionsIn(logs, id) = {} THEN {"PENDING"}
  ELSE {Verdict(n) : n \in DecisionsIn(logs, id)}

\* The logs the cursors are past.
Done == UNION {LogsOf(w, 1, cursor[w]) : w \in DOMAIN cursor}

\* Until a reset deletes rows, the rows and the cursors agree: for every known
\* wallet, the feed shows each transaction up to the cursor exactly once and
\* nothing later; there is an approval row for each proposal up to there, of a
\* wallet that filed it, pending if nobody has decided it by then and settled
\* as somebody has otherwise.  Through crashes, failing syncs and repeated
\* ranges, and for the first block of a wallet the factory has just created.
\* Where one wallet alone files an id, that is its row and its decision.
RowsMatchCursor ==
  ~deleted =>
    /\ \A w \in DOMAIN cursor : feed[w] = ShownOf(LogsOf(w, 1, cursor[w]))
    /\ DOMAIN approvals = FiledIn(Done)
    /\ \A id \in DOMAIN approvals :
         /\ \E n \in Done : /\ NameOf(n) = "Proposed" /\ IdOf(n) = id
                            /\ txs[n].wallet = approvals[id].wallet
         /\ approvals[id].status \in StandingsIn(Done, id)

\* Two wallets have decided on proposals of the same id.
DecidedTwice(id) ==
  \E m, n \in DecisionsIn(DOMAIN txs, id) : txs[m].wallet # txs[n].wallet

\* A wallet that is never reset, and any wallet until a reset deletes, is not
\* forgotten, its cursor never goes back, and no row of its feed or approval
\* of it disappears; and what a row was settled as it stays, through any
\* number of resets, unless two wallets decide on its id.
RowsAreKept ==
  /\ \A w \in DOMAIN cursor : w \notin Showcase \/ ~deleted' =>
       /\ w \in DOMAIN cursor' /\ cursor[w] <= cursor'[w]
       /\ feed[w] \subseteq feed'[w]
       /\ \A id \in DOMAIN approvals : approvals[id].wallet = w =>
            id \in DOMAIN approvals' /\ approvals'[id].wallet = w
  /\ \A id \in DOMAIN approvals \cap DOMAIN approvals' :
       approvals[id].status = "PENDING" \/ DecidedTwice(id)'
         \/ approvals'[id].status = approvals[id].status

RowsStay == [][RowsAreKept]_vars

\* Nobody is at work and every log up to the head is indexed.
CaughtUp(w) ==
  /\ tick = Idle /\ reset = NoReset
  /\ w \in DOMAIN cursor /\ cursor[w] = head

\* A mirror that has caught up has the terms and the freeze of the contract:
\* although it is read at the head of the chain and not at the event, and
\* not every event refreshes it.  A reset may jump over an event that was
\* not indexed yet, so this too is about the time before one.
MirrorHasTheTerms ==
  ~deleted => \A w \in Wallets : CaughtUp(w) /\ agents[w].hired =>
    /\ mirror[w].row
    /\ mirror[w].terms = agents[w].terms
    /\ mirror[w].frozen = agents[w].frozen

\* Whenever a wallet exists, the indexer reaches the chain's head for it
\* later (the chain of a run is quiet at last), also when another wallet's
\* sync fails every time and a reset moves the cursor.
EverythingIsIndexed ==
  \A w \in Wallets \ Broken :
    w \in Deployed ~> (w \in DOMAIN cursor /\ cursor[w] = head)
=============================================================================
