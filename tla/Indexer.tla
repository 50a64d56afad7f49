------------------------------ MODULE Indexer ------------------------------
(***************************************************************************)
(* The indexer: every three seconds it walks through the wallets it knows, *)
(* fetches each one's logs since the wallet's cursor, and writes the feed, *)
(* the approvals and the mirrored policy in one database transaction with  *)
(* the new cursor.  The policy is not taken from the event: it is read     *)
(* from the chain's head while the transaction is open.                    *)
(*                                                                         *)
(* The demo director's reset runs in the same process and deletes a        *)
(* wallet's feed and approvals and moves its cursor, in a database         *)
(* transaction of its own.                                                 *)
(*                                                                         *)
(* The database runs at READ COMMITTED: a transaction's writes show when   *)
(* it commits, a read sees the rows committed by then and the reader's own *)
(* writes, and a write to a row that another open transaction has written  *)
(* waits for that one.  What a sync writes is held in `sync` until it      *)
(* commits.                                                                *)
(*                                                                         *)
(* A Wallet row and its cursor are created together, so the domain of      *)
(* `cursor` is the set of Wallet rows.  A feed row is named by the         *)
(* transaction and the place of the event in it, which is its unique key.  *)
(***************************************************************************)
EXTENDS WalletLog

CONSTANTS
  Broken,     \* wallets whose sync may fail every time
  Showcase,   \* the wallets the demo director may reset (one or none)
  MaxTroubles \* bound on passing failures, crashes and resets, together

ASSUME IndexerAssumption ==
  /\ Broken \subseteq Wallets /\ Showcase \subseteq Wallets
  /\ MaxTroubles \in Nat

VARIABLES
  factoryCursor,  \* the last block of the factory's log that was handled
  cursor,         \* the same for each known wallet's log
  mirror,         \* the Policy row of each wallet
  approvals,      \* the PendingApproval rows, by the proposal's id alone
  feed,           \* the ActivityEvent rows of each wallet
  tick,           \* the wallets the running tick still has to sync, and its phase
  sync,           \* the sync under way
  reset,          \* the reset under way
  troubles,       \* how many failures, crashes and resets there were
  deleted         \* a reset has deleted rows

dbVars == <<factoryCursor, cursor, mirror, approvals, feed>>
indexerVars == <<tick, sync>>
resetVars == <<reset, deleted>>
vars == <<chainVars, dbVars, indexerVars, resetVars, troubles>>

NoCursor == -1

\* A Policy row: the fields of the contract's policy that the feed and the
\* agents go by.
NoRow == [row |-> FALSE]
MirrorRow == [row : {TRUE}, frozen : BOOLEAN, terms : Terms]

FeedRow == [tx : Nat, index : Nat, type : EventName]

\* A PendingApproval row: the wallet that filed it and where it stands.
ApprovalRow == [wallet : Wallets, status : {"PENDING", "APPROVED", "DENIED"}]

Idle == [phase |-> "idle", todo |-> {}]
NoSync == [wallet |-> "none"]
NoReset == [phase |-> "idle"]

Init ==
  /\ ChainInit
  /\ factoryCursor = NoCursor
  /\ cursor = [w \in {} |-> NoCursor]
  /\ mirror = [w \in Wallets |-> NoRow]
  /\ approvals = Empty
  /\ feed = [w \in Wallets |-> {}]
  /\ tick = Idle /\ sync = NoSync /\ reset = NoReset
  /\ troubles = 0 /\ deleted = FALSE

-----------------------------------------------------------------------------
(***************************************************************************)
(* The tick: bootstrap, factory, wallets.                                  *)
(***************************************************************************)
NotRunning == tick = Idle

\* The pre-seeded wallet has no WalletCreated event and gets its row here;
\* the cursor starts at block 0.
StartTick ==
  /\ NotRunning
  /\ cursor' = IF DevWallet \in DOMAIN cursor THEN cursor
               ELSE Over(cursor, [w \in {DevWallet} |-> 0])
  /\ tick' = [phase |-> "factory", todo |-> {}]
  /\ UNCHANGED <<chainVars, factoryCursor, mirror, approvals, feed, sync,
                 resetVars, troubles>>

\* Mutant: the creation block itself is taken as done.
CursorAt(block) == block

\* Where a new wallet's own log starts: one block before it was created.
CursorBefore(block) == block - 1

\* The first run only creates the factory's cursor.  Then the wallets: the
\* rows as they are when the factory's log is done.
SyncFactory ==
  /\ tick.phase = "factory"
  /\ IF factoryCursor = NoCursor
     THEN /\ factoryCursor' = 0
          /\ UNCHANGED <<cursor, observed>>
     ELSE LET found == CreationsIn(factoryCursor + 1, head)
              new == {txs[n].wallet : n \in found} \ DOMAIN cursor
              block(w) == txs[CHOOSE n \in found : txs[n].wallet = w].block
          IN /\ factoryCursor' = head
             /\ cursor' = Over(cursor, [w \in new |-> CursorBefore(block(w))])
             /\ observed' = TRUE
  /\ tick' = [phase |-> "wallets", todo |-> DOMAIN cursor']
  /\ UNCHANGED <<head, txs, agents, nonces, proposals, mirror, approvals, feed, sync,
                 resetVars, troubles>>

EndTick ==
  /\ tick.phase = "wallets" /\ tick.todo = {} /\ sync = NoSync
  /\ tick' = Idle
  /\ UNCHANGED <<chainVars, dbVars, sync, resetVars, troubles>>

\* Nothing new for this wallet.
SkipWallet(w) ==
  /\ tick.phase = "wallets" /\ w \in tick.todo /\ sync = NoSync
  /\ head <= cursor[w]
  /\ tick' = [tick EXCEPT !.todo = @ \ {w}]
  /\ observed' = TRUE
  /\ UNCHANGED <<head, txs, agents, nonces, proposals, dbVars, sync, resetVars, troubles>>

\* The cursor, the newest block and the logs in between are read, and the
\* database transaction opens.
BeginSync(w) ==
  /\ tick.phase = "wallets" /\ w \in tick.todo /\ sync = NoSync
  /\ head > cursor[w]
  /\ sync' = [wallet |-> w, to |-> head, todo |-> LogsOf(w, cursor[w] + 1, head),
              feed |-> {}, mirror |-> NoRow, approvals |-> Empty]
  /\ tick' = [tick EXCEPT !.todo = @ \ {w}]
  /\ observed' = TRUE
  /\ UNCHANGED <<head, txs, agents, nonces, proposals, dbVars, resetVars, troubles>>

-----------------------------------------------------------------------------
(***************************************************************************)
(* One handler per event.  A handler sees the committed rows under the     *)
(* transaction's own, and is at the first transaction it has not handled.  *)
(***************************************************************************)
SeenMirror == IF sync.mirror.row THEN sync.mirror ELSE mirror[sync.wallet]
SeenApprovals == Over(approvals, sync.approvals)

Row(n, i, type) == [tx |-> n, index |-> i, type |-> type]

\* upsertPolicyMirror: the storage at the head, whatever the log being
\* handled.
ReadMirror ==
  [row |-> TRUE, frozen |-> agents[sync.wallet].frozen,
   terms |-> agents[sync.wallet].terms]

\* The reset's transaction is open.
Deleting == reset.phase \in {"feed", "approvals"}

\* A row that an open reset is deleting cannot be written until it is over,
\* but for one this sync wrote before.
NotBeingDeleted(rows, ids) ==
  /\ Deleting => rows \cap reset.feed = {}
  /\ reset.phase = "approvals" =>
       (ids \ DOMAIN sync.approvals) \cap reset.approvals = {}

\* Handle transaction n: the rows written, and whether the head was read.
Write(n, rows, mirrorRow, decided) ==
  /\ NotBeingDeleted(rows, DOMAIN decided)
  /\ sync' = [sync EXCEPT !.todo = @ \ {n}, !.feed = @ \cup rows,
                          !.mirror = IF mirrorRow.row THEN mirrorRow ELSE @,
                          !.approvals = Over(@, decided)]
  /\ observed' = (observed \/ mirrorRow.row)
  /\ UNCHANGED <<head, txs, agents, nonces, proposals, dbVars, tick, resetVars, troubles>>

IsNext(n) == n \in sync.todo /\ \A m \in sync.todo : n <= m

At(n, name) ==
  sync # NoSync /\ IsNext(n) /\ txs[n].events[1].name = name

HandleAgentHired(n) ==
  /\ At(n, "AgentHired")
  /\ Write(n, {Row(n, 1, "AgentHired")}, ReadMirror, Empty)

\* Mutant: the limits are not read again.
HandlePolicyUpdatedByName(n) ==
  /\ At(n, "PolicyUpdated")
  /\ Write(n, {Row(n, 1, "PolicyUpdated")}, NoRow, Empty)

HandlePolicyUpdated(n) ==
  /\ At(n, "PolicyUpdated")
  /\ Write(n, {Row(n, 1, "PolicyUpdated")}, ReadMirror, Empty)

HandleAgentFrozen(n) ==
  \/ /\ At(n, "AgentFrozen")
     /\ Write(n, {Row(n, 1, "AgentFrozen")}, ReadMirror, Empty)
  \/ /\ At(n, "AgentUnfrozen")
     /\ Write(n, {Row(n, 1, "AgentUnfrozen")}, ReadMirror, Empty)

\* A payment does not refresh the mirror.
HandleExecuted(n) ==
  /\ At(n, "Executed")
  /\ Write(n, {Row(n, 1, "Executed")}, NoRow, Empty)

HandleExecutionBlocked(n) ==
  /\ At(n, "ExecutionBlocked")
  /\ Write(n, {Row(n, 1, "ExecutionBlocked")}, NoRow, Empty)

\* The row of proposal id: it is found by the id, so it may be that of another
\* wallet's proposal.
FiledRow(id) ==
  [i \in {id} |-> IF i \in DOMAIN SeenApprovals THEN SeenApprovals[i]
                  ELSE [wallet |-> sync.wallet, status |-> "PENDING"]]

DecidedRow(id, status) == [i \in {id} |-> [SeenApprovals[i] EXCEPT !.status = status]]

\* Without a Policy row the proposal is skipped for good.  A row that is there
\* is left as it is.
HandleProposed(n) ==
  /\ At(n, "Proposed")
  /\ IF SeenMirror.row
     THEN Write(n, {Row(n, 1, "Proposed")}, NoRow, FiledRow(txs[n].events[1].id))
     ELSE Write(n, {}, NoRow, Empty)

\* approve() emits Approved and Executed: one row for both, unless there is
\* no approval row to settle; then only the Executed event gets one.
HandleApproved(n) ==
  /\ At(n, "Approved")
  /\ LET id == txs[n].events[1].id IN
       IF id \in DOMAIN SeenApprovals
       THEN Write(n, {Row(n, 1, "Approved")}, ReadMirror, DecidedRow(id, "APPROVED"))
       ELSE Write(n, {Row(n, 2, "Executed")}, NoRow, Empty)

HandleDenied(n) ==
  /\ At(n, "Denied")
  /\ LET id == txs[n].events[1].id IN
       IF id \in DOMAIN SeenApprovals
       THEN Write(n, {Row(n, 1, "Denied")}, NoRow, DecidedRow(id, "DENIED"))
       ELSE Write(n, {}, NoRow, Empty)

Handle ==
  \E n \in 1..MaxTxs :
    \/ HandleAgentHired(n) \/ HandlePolicyUpdated(n) \/ HandleAgentFrozen(n)
    \/ HandleExecuted(n) \/ HandleExecutionBlocked(n)
    \/ HandleProposed(n) \/ HandleApproved(n) \/ HandleDenied(n)

\* The rows and the cursor show together.
CommitSync ==
  /\ sync # NoSync /\ sync.todo = {}
  /\ feed' = [feed EXCEPT ![sync.wallet] = @ \cup sync.feed]
  /\ approvals' = SeenApprovals
  /\ mirror' = [mirror EXCEPT ![sync.wallet] = SeenMirror]
  /\ cursor' = [cursor EXCEPT ![sync.wallet] = sync.to]
  /\ sync' = NoSync
  /\ UNCHANGED <<chainVars, factoryCursor, tick, resetVars, troubles>>

-----------------------------------------------------------------------------
(***************************************************************************)
(* Failures: an RPC call or the database transaction of one wallet's sync, *)
(* which that wallet's catch contains; the same before the wallets, which  *)
(* ends the tick; the process.  Beside an open reset a transaction may     *)
(* fail on a row it has read and the reset deletes, or in a deadlock.      *)
(***************************************************************************)
Trouble == troubles < MaxTroubles /\ troubles' = troubles + 1

\* Mutant: a failure is not contained and ends the tick.
SyncFailsAndTickEnds ==
  /\ sync # NoSync
  /\ IF sync.wallet \in Broken \/ Deleting THEN UNCHANGED troubles ELSE Trouble
  /\ sync' = NoSync /\ tick' = Idle
  /\ UNCHANGED <<chainVars, dbVars, resetVars>>

SyncFails ==
  /\ sync # NoSync
  /\ IF sync.wallet \in Broken \/ Deleting THEN UNCHANGED troubles ELSE Trouble
  /\ sync' = NoSync
  /\ UNCHANGED <<chainVars, dbVars, tick, resetVars>>

TickFails ==
  /\ tick.phase = "factory"
  /\ Trouble
  /\ tick' = Idle
  /\ UNCHANGED <<chainVars, dbVars, sync, resetVars>>

Crash ==
  /\ Trouble
  /\ tick' = Idle /\ sync' = NoSync /\ reset' = NoReset
  /\ UNCHANGED <<chainVars, dbVars, deleted>>

-----------------------------------------------------------------------------
(***************************************************************************)
(* The demo director's reset: the head is read first; then one delete      *)
(* after the other, each of the rows committed when it begins; then the    *)
(* cursor moves and all of it shows.  A delete waits for the sync that has *)
(* written one of its rows.  Single flight: one reset at a time.           *)
(***************************************************************************)
ResetRead(w) ==
  /\ reset = NoReset /\ Trouble
  /\ w \in DOMAIN cursor
  /\ reset' = [phase |-> "read", wallet |-> w, block |-> head]
  /\ observed' = TRUE
  /\ UNCHANGED <<head, txs, agents, nonces, proposals, dbVars, indexerVars, deleted>>

ResetDeleteFeed ==
  /\ reset.phase = "read"
  /\ reset' = [phase |-> "feed", wallet |-> reset.wallet, block |-> reset.block,
               feed |-> feed[reset.wallet]]
  /\ UNCHANGED <<chainVars, dbVars, indexerVars, deleted, troubles>>

ResetDeleteApprovals ==
  /\ reset.phase = "feed"
  /\ sync # NoSync => sync.feed \cap reset.feed = {}
  /\ reset' = [phase |-> "approvals", wallet |-> reset.wallet, block |-> reset.block,
               feed |-> reset.feed,
               approvals |-> {id \in DOMAIN approvals : approvals[id].wallet = reset.wallet}]
  /\ UNCHANGED <<chainVars, dbVars, indexerVars, deleted, troubles>>

\* Mutant: the deletes are not scoped to the wallet.
ResetCommitUnscoped ==
  /\ reset.phase = "approvals"
  /\ feed' = [w \in Wallets |-> {}]
  /\ approvals' = Empty
  /\ cursor' = [cursor EXCEPT ![reset.wallet] = reset.block]
  /\ reset' = NoReset /\ deleted' = TRUE
  /\ UNCHANGED <<chainVars, factoryCursor, mirror, indexerVars, troubles>>

ResetCommit ==
  /\ reset.phase = "approvals"
  /\ sync # NoSync => DOMAIN sync.approvals \cap reset.approvals = {}
  /\ feed' = [feed EXCEPT ![reset.wallet] = @ \ reset.feed]
  /\ approvals' = [id \in DOMAIN approvals \ reset.approvals |-> approvals[id]]
  /\ cursor' = [cursor EXCEPT ![reset.wallet] = reset.block]
  /\ reset' = NoReset /\ deleted' = TRUE
  /\ UNCHANGED <<chainVars, factoryCursor, mirror, indexerVars, troubles>>

ResetFails ==
  /\ reset # NoReset
  /\ reset' = NoReset
  /\ UNCHANGED <<chainVars, dbVars, indexerVars, deleted, troubles>>

-----------------------------------------------------------------------------
Chain ==
  /\ ChainStep
  /\ UNCHANGED <<dbVars, indexerVars, resetVars, troubles>>

TickStep ==
  \/ StartTick \/ SyncFactory \/ EndTick
  \/ \E w \in Wallets : SkipWallet(w) \/ BeginSync(w)
  \/ Handle
  \/ CommitSync
  \/ SyncFails

ResetStep == ResetDeleteFeed \/ ResetDeleteApprovals \/ ResetCommit

Next ==
  \/ Chain
  \/ TickStep
  \/ TickFails \/ Crash
  \/ \E w \in Showcase : ResetRead(w)
  \/ ResetStep \/ ResetFails

\* The interval timer fires again and again, and what a tick awaits comes
\* back with a result or an error.  Nothing else has to happen.
Fairness == WF_vars(TickStep) /\ WF_vars(ResetStep)

Spec == Init /\ [][Next]_vars /\ Fairness
=============================================================================
