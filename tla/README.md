# Handler: a TLA+ model

Handler is a payroll for AI agents. An owner funds a smart-contract wallet,
hires agents by their session keys and gives each one an allowance; the
contract lets a session key spend only within its policy, and queues what is
too large for the owner's signature. A NestJS service indexes the wallet's
events into Postgres, runs the demonstration agents, and serves a web client.
This directory holds TLA+ modules that model the system, the TLC
configurations that check them, and proofs checked by TLAPS.

## 1. The system

All paths are relative to `src/`.

| Component | State it keeps | Operations | Source |
|---|---|---|---|
| HandlerWallet | owner, policies and books per session key, routers, cosign queue, ether | hire, update, freeze, execute, tryExecute, propose, approve, deny, receive | `packages/contracts/src/HandlerWallet.sol` |
| TrustReader | account -> agent id, for the ids somebody had it look up | syncAgent, tierOf | `packages/contracts/src/TrustReader.sol` |
| PriceConverter | token -> feed, staleness limit | setFeed, usdValue | `packages/contracts/src/PriceConverter.sol` |
| HandlerWalletFactory | deployed wallets (by CREATE2 address) | createWallet, computeWalletAddress | `packages/contracts/src/HandlerWalletFactory.sol` |
| Indexer | cursors, mirrored policies, approvals, activity feed | tick, one handler per event, factory sync, bootstrap | `apps/api/src/indexer/` |
| Agent runtime, villain | intents, in-flight flag | cron tick, run, pay | `apps/api/src/agents/`, `apps/api/src/chain/agent-payment.ts` |
| Demo director | single-flight flag, DemoRun rows | beats, reset | `apps/api/src/demo/` |
| Auth | nonces, sessions | issueNonce, verify, getSession, revoke, the guard | `apps/api/src/auth/` |
| Activity | per-connection cursor | list, poll, stream | `apps/api/src/activity/` |
| Approvals, policies | none (reads) | catalog, payroll, agent file, approvals | `apps/api/src/approvals/`, `apps/api/src/policies/` |
| Trust service | cached tier and summary per agent, the configuration's promise | tick, refreshTier, getTrustConfig | `apps/api/src/trust/` |
| Registration script | none of its own | register, rate, sync, upsert | `apps/api/scripts/register-agents.ts` |
| Prices service | a row per round read | getPrice | `apps/api/src/prices/` |
| Web client | query cache, write hooks, form, Ledger status | hire, approve with a Ledger, deny, freeze, sign in, live feed | `apps/web/` |

How they interact. The wallet calls TrustReader and PriceConverter inside its
checks, and calls out to whatever account it pays, which may call back. The
factory deploys wallets. The indexer reads the chain's logs block range by
block range and writes the database; for the policy mirror it does not use the
event's data but reads the contract at the chain's head. The agent runtime and
the villain read that mirror to decide whether to pay and send transactions to
the wallet; they record an Intent first, which the indexer resolves when it
sees the transaction's events. The demo director pays through the same code on
an operator's request, or deletes the showcase wallet's rows and moves the
indexer's cursor to the head. The activity stream polls the database with a
cursor per connection. The prices service and the contract judge the same feed
each on its own. The client reads through the API as the account its cookie
stands for, and writes to the chain with the owner's key; its pages show what
the indexer has, which lags behind what they have just done.

What is hard. Callbacks into the wallet in mid-payment and the roll-back of a
failing payment; a lazy epoch that is anchored at payments and not at
midnight; approvals settled long after they were filed; the indexer's
crash between chain and database; a mirror read at the head while logs lag; a
reset whose deletes race a sync; ids that two wallets may share;
two runners, a director and a reset that work from that mirror at the same
time; refreshes of the tiers that overlap, each with a snapshot of its own; a
payment whose receipt timed out; rows of prices written by overlapping
requests; a nonce verified twice at once; answers about the session that
overtake sign-ins and logouts, and a cookie that tabs share; a chain of two
transactions and an effect between them; two hooks that decide on one request;
a transaction sent without an answer; feeds that grow and shrink under their
cursors, and streams that end with an error.

What makes each part correct:

* the wallet: a proposal is settled once and as it was filed, the books agree
  with the payments, a day's spending is bounded, no callback pays twice;
* the indexer: rows and cursor agree, the mirror is the contract's policy once
  it has caught up, a reset takes from its own wallet only and no decided row is
  reopened, every wallet's log is reached;
* the agent runtime: one attempt an epoch, a row's status is what became of its
  transaction, a settled row stays as it is;
* the director: its actions are the runtime's, one at a time; no run hangs but
  an interrupted one, "ran" means decided, and the flag comes down;
* the activity stream: toasts in order, none twice until a query throws, none
  skipped; pages that neither repeat nor miss a row;
* the tiers: the badge is worked out as the contract works out the tier it
  enforces, follows the registries, and is not lost to a failure;
* the prices: a quote shown as current is recent, and is what the wallet pays by;
* the sessions: earned by one signature over one nonce; the account shown is the
  account requests go as; a refused read closes the gate;
* the pages: one transaction for one click, no message that denies a
  transaction the page has heard of, no decision after one it has heard of, an
  answer to every click, and a success that comes to be seen.

## 2. The modules

| Module | What it is |
|---|---|
| `PolicyCheck` | the contract's check pipeline as operators: epoch roll, allowance, verdict, charge |
| `PolicyVerdicts` | one evaluation as a behaviour, and what every verdict must satisfy |
| `HandlerWallet` | the contract: extends `PolicyCheck`, one action per function, external calls split where the callee gets control |
| `WalletProperties` | what makes a wallet correct, and the refinement mapping to `CosignQueue` |
| `CosignQueue` | the abstract queue: filed, then refused or paid once and to the letter |
| `WalletLog` | the chain as the backend sees it: blocks, events, storage at the head |
| `Indexer` | extends `WalletLog` with the ticks, the handlers, the database transaction and the reset |
| `IndexerProperties` | what makes the database a picture of the chain |
| `AgentRuntime` | the timer, the payment, the director beside it, the indexer's part in an Intent |
| `AgentProperties` | what the rows and the payments promise |
| `DemoDirector` | extends `AgentRuntime` with the requests, the flag and the DemoRun rows |
| `ActivityStream` | one wallet's feed, an EventSource connection, the pages |
| `StreamProperties` | what the toasts and the activity screen may rely on |
| `TrustReader` | the contract's cache and average, and the registries it reads |
| `TrustService` | extends `TrustReader` with the overlapping refreshes and the registration script |
| `TrustProperties` | what the tiers must be |
| `PriceConverter` | the feed's rounds, its configuration, usdValue with its reverts |
| `Prices` | extends `PriceConverter` with the overlapping requests for a quote |
| `Sessions` | nonces, verify, sessions, the guard; one browser's cookie, cache, wallet and sign-in |
| `SessionProperties` | what signing in promises |
| `OwnerTab` | what the owner's pages share: chain, database, write hook, wallet address |
| `HireFlow`, `ApprovalSheet`, `AgentFile` | one page each, over `OwnerTab` |
| `OwnerPages` | the composition of the three, and what they promise |
| `PolicyProofs`, `WalletProofs` | theorems about one evaluation; about the wallet's types, queue, refinement and books |
| `IndexerProofs`, `AgentProofs` | theorems about the indexer; about the runtime with the director |
| `TrustProofs`, `SessionProofs`, `PricesProofs` | theorems about the component of that name |
| `WebProofs` | theorems about the feed and its readers (`ActivityStream`) and about the pages (`OwnerPages`) |
| `MC*` | constants for TLC; each `.cfg` begins with what it is for |

Operators whose comment begins with "Mutant:" are deliberate errors of the code,
each written before the definition it spoils: every property of every passing
run fails when its mutant takes the definition's place.

### PolicyCheck and HandlerWallet

`Evaluate` is `_evaluate` with its order of checks; `Remaining`, `RolledSpent` and
`RolledEpochStart` are the lazy epoch. The tier and the dollar value are
parameters there, and in `HandlerWallet` they are chosen anew at each
evaluation: TrustReader's entry and the feed's price may change between any
two transactions. A price call that reverts is a transaction that leaves no
trace, so it has no step.

The variables of `HandlerWallet` are the contract's storage (`owner`, `pendingOwner`,
`policies`, `isHired`, `knownRouters`, `pendingApprovals`, `balance`), the clock, and
four histories that no guard reads: `funded`, `hires`, `denied` and `ledger` (one
entry an `Executed` event). Functions are actions of the same name: `HireAgent`,
`UpdatePolicy`, `FreezeAgent`, `UnfreezeAgent`, `SetKnownRouter`, `Execute`, `TryExecute`,
`Propose`, `Approve`, `Deny`, `Fund` (receive), `TransferOwnership`, `AcceptOwnership`,
`RenounceOwnership`. A revert is an action that is not enabled. A payment is
split: `StartCall` makes the effects, sends the ether and pushes the storage as it
was on `frames`; while a frame is there the callee may take any action whose
guard allows it (all but the nonReentrant ones, and time stands still);
`CallSucceeds` pops the frame and `CallFails` restores what it holds, which is
the revert. A proposal's id, keccak256 over its content and the nonce, is the
nonce: its place in `pendingApprovals`.

### WalletLog and Indexer

`WalletLog` is the wallet reduced to what events tell. A block becomes visible as
a whole (`observed`). In `Indexer`, a sync is `BeginSync` (cursor, head and logs read,
database transaction opened), one `Handle...` action per event and `CommitSync`;
what it writes is in `sync` until it commits. The handlers that refresh the
policy read `agents`, the storage at the head, whatever log they are at.

A proposal's id is its content and its wallet's nonce. The wallet is no part of
it, here as in `_propose` (the nonce hashed there counts from 0, here from 1), so
two wallets that have hired one session key may file the same id. `approvals` is
one table by id, as PendingApproval is: `FiledRow` keeps the row that is there, and
`DecidedRow` settles it whichever wallet decided.

The reset is `ResetRead` (the head), `ResetDeleteFeed`, `ResetDeleteApprovals` and
`ResetCommit` (the cursor, and all of it shows). With the database at READ
COMMITTED each delete is of the rows committed when it begins and waits for
those an open sync has written; a sync waits for rows an open reset deletes
(`NotBeingDeleted`). A sync may so commit between two of the deletes. The third
delete, of intents, is `AgentRuntime`'s. `SyncFails`, `TickFails` and `Crash` leave the
database as the last commit made it.

### AgentRuntime and DemoDirector

Every `await` of `run`, `payWallet` and `submitAgentPayment` ends a step: `StartRun`
(the mirrored epoch is read), `AskRows` (hasActedThisEpoch), `Plan` (the PLANNED
row), `Broadcast`, `StoreHash`, `Receipt`. `SubmitThrows`, `ReceiptTimesOut`, `StepThrows`
and `Crash` are the ways out. A transaction is named by the row it was sent for;
`calls` is its life on the chain. The director's beat is the same payment
without the question. `Include` is the chain (any verdict), `IndexCall` and
`Reconcile` are the indexer.

In `AgentRuntime` the director is abstract: a beat may begin when none is under
way, a reset may delete rows when no beat is. `DemoDirector` is what makes that
so: `Post` is the test of the flag, `OpenRun` the DemoRun row, `Dispatch` to
`BeatReturns` and `BeatThrows` the payment's awaits as steps of the runtime,
`BlockNumber` and `ClearWalletFeed` the reset, `Close` the row's last word and the
finally that puts the flag down. That the whole implements `AgentRuntime`
(`IsRuntime`) is checked and proved: the module adds the single flight, and
every property of the runtime holds of it.

### ActivityStream

A row is its `seq`. `WriteRows` commits several at once, `ResetRows` deletes them.
`Connect`, `FindWallet`, `ResolveStartingCursor`, `PollNewEvents`, `EmitBatch` are the
server's side of a connection in the order of events.controller.ts and
streamForWallet; `wire` holds events sent and not dispatched, and `LoseConnection`
loses them. A query that throws (`StreamThrows`, at any await) is caught by nobody:
the framework sends an error message after what is on the wire, numbers it
(`ErrorId`) and ends the stream, and `DispatchError` has the browser take that
number for its last event's and start over from there. The EventSource keeps the id of the last event it has *dispatched*
(`source.lastId`) over reconnections and forgets it when the component remounts
(`Unmount`, `Mount`). `FetchFirstPage` and `FetchNextPage` are the walk of the
infinite query.

### TrustReader and TrustService

`wallet` and `feedback` are the two registries, which anybody changes: an id is
its place in `wallet`. `CacheAgent` is syncAgent, `TierOf` and `AverageFeedback` are the
contract's; `TierFromRatings` is the service's own computation, written after the
TypeScript. A WAD has `MaxDecimals` decimals, 18 in the code and 1 in the run; a
rating's decimals are compared with it, so that it may have too many.

A refresh is a record in `tick`: the agents to do and their ids as findMany read
them, the agent at hand and the await it is at. `NextAgent` is refreshTier up to its
first await, and takes the shared promise; `ConfigResolves` and `ConfigFails` settle
it for all that wait; `ReadWallet`, `ReadFeedback`, `WriteRow` are the rest, `ReadFails`
and `WriteFails` the errors. A failed refresh writes the summary only, whose
wording is left out. The script is `RunScript` (its look at the row, and the
simulation that yields an id), `Register`, `GiveRating`, `SyncTrustReader`, `UpsertAgent`,
and `ScriptDies` anywhere. `cause` is a history: whether the refresh at hand has seen
a reason to flag its agent.

### PriceConverter and Prices

`rounds` is the feed, which appends rounds with any answer of a small set and may
date one in the future. `UsdValue` is usdValue with its four reverts in their
order, `Normalize` the conversion of the feed's decimals, rounding down. A
request of `Prices` is one call of getPrice: `Ask` looks at the rows fetched last
and serves a fresh one, `ReadFeed` is the read of the chain, `Upsert` the row of the
round (written once, never renewed) and the answer, `FallBack` the catch. Rows
fetched at the same instant are taken in any order. `posted` is a history: when
a round appeared.

### Sessions

The server's side is one step an await: `IssueNonce`; `RefuseChain`, `ClaimNonce` (the
one UPDATE with its count), `CheckSignature` and `CreateSession` of a call of
verify, with `VerifyFails` at each and `PostAgain` for a message that arrives
twice; `Live` is getSession and `GuardPasses` the guard. The browser's side is the
cookie, `shown` (the cached answer of the session query) and `asking` (its request:
the answer is made at the API by `AnswerSession` and taken by `ReceiveSession`),
the sign-in mutation, which keeps the account of the click while the wallet may
switch, and the logouts that the switch, and the logouts that the wallet's comings and goings cause.
`ReadRefused` is any read of a page that is answered 401.

`Invalidate` is invalidateQueries: a request under way is dropped and a new one
sent, unless the query has no data yet, when it keeps the one it has (`Joins`). A
read that failed is made again (`RefetchSession`). A second tab is what it does to
the cookie the tabs share: `SignInElsewhere`, with the steps of any sign-in, and
`LogoutElsewhere`. `SwitchAccount` within a connection logs nobody out: onConnect
does not fire then. `unasked` is a history: the cookie has changed and this tab's
query was not made to ask again.
 is any read of a page that is answered 401.

### The owner's pages

`OwnerTab` has the owner's wallet in `chain` and as the indexer has it in `db`, the
sent transactions in `pool`, and the hook every write goes through:
`useWriteContract` with `useWaitForTransactionReceipt` as a record that follows the
last call it was asked for. `Ask` is writeContractAsync, and its outcomes are three:
`Signs` (the hash), `Declines` (a throw with nothing sent) and `AnswerLost` (a throw
after the wallet has sent). `Mine` and `LoseReceipt` are the receipt's. `HireFlow` is the form and
Confirm (`HandleConfirm`), the effect that hires once the wallet is there
(`ChainIntoHire`), the two catches, and the refetches. `ApprovalSheet` is the denial
through the hook and useLedgerApprove from await to await. `AgentFile` is the
freeze button and its refetches. `OwnerPages` interleaves one of the pages with
the tab; the Confirm clicks, the hireAgent transactions and the sheet's
decisions are histories, the latter two with whether the page heard of the
sending.

## 3. What the runs check

Time is in units of which `Day` or `Epoch` (1 here) make a day; the code compares with
`>`, so one unit before, at and after the boundary are all reached. Amounts are
small numbers around the caps.

| Run | Question | Bounds |
|---|---|---|
| `policy_verdicts` | is every verdict just, does tightening or waiting do what it should | every policy with caps 1..2, three spends, all flags; three amounts, three times |
| `wallet_books` | do books, ether and the two-caps bound hold under callbacks, roll-backs, re-hires, cap changes and a change of owners | one agent, two policies, two owners, 3 ether, 3 payments, 1 proposal, 2 hires, 4 times |
| `wallet_queue` | is a proposal settled once, do callbacks only add, and is the wallet a `CosignQueue` | two agents, a call to a router and a transfer to an agent, 2 proposals, 2 payments, one epoch |
| `indexer` | do rows and cursor agree through failures and crashes, is a mirror that caught up the contract's, does a reset take from its own wallet only and reopen nothing decided, is a healthy wallet always reached | two wallets (one from the factory, whose sync always fails), 3 transactions, one trouble: a failure, a crash or a reset |
| `agents` | one attempt an epoch, true outcomes, settled rows | two firings of the timer and a beat, 2 rows, 1 fault, 1 reset, 3 times |
| `agents_epoch` (violation) | the Subcontractor is paid once per 24h epoch, as the comment on run() says | as `agents`, no fault, no reset |
| `director` | do two requests keep out of each other's way, and what do their rows say | two requests, two actions, one firing of the timer, 2 payments, 1 fault, 1 reset |
| `stream` | order, completeness and liveness of toasts; pages | 4 rows, polls and pages of 2, 2 losses (a broken connection or a query that throws), 1 reset, 2 mounts |
| `trust` | do service and contract agree, is a badge lost without cause, do badges catch up | two agents, two refreshes at once, one id, three ratings, 1 fault, 1 stranger's event or outage, any number of runs of the script |
| `prices` | is an unmarked quote current, and is it what the contract pays by | two requests, 3 rounds of two answers, times 0..6 with a row fresh for 1 and a round usable for 3, reads of up to 1, 1 fault, a feed with two decimals more than a price |
| `sessions` | is a session earned, is the account shown the one sent, does a refused read close the gate | two accounts, 2 sign-ins, 2 calls of verify, 1 move of wallet, page or another tab, 1 fault, a nonce that lives for 1 and a session for 0 of the clock's 1 |
| `pages` | are hires those of clicks, messages true of what was heard, is a decision heard of the last, clicks answered, successes shown | one agent, two terms, 2 clicks, 1 event elsewhere, 1 fault, 3 refetches |

Why these bounds are enough for their questions: two payments are needed to
cross a cap and three to cross it in two epochs; a second proposal and a second
payment are what a broken guard would need; a race needs two actors and one row
of each; two rows a poll of a feed of four give a full poll, a short one and an
empty one; a stale row needs two requests, the round each has read and a third
round to be late for; two accounts and two sign-ins are what a claim, a session
or an answer can be mistaken for; a page's chain of two transactions uses one
click, and a second click is a retry. A larger instance of each has the same
kinds of interleavings. `RowsStay` is what holds through any number of resets;
`RowsMatchCursor` and `MirrorHasTheTerms` are stated for the time before a
reset has deleted anything, and section 4 says why. One case lies beyond the
bounds: two wallets need five transactions to file one id, and the `indexer` run
has three. A simulation with seven reaches it, and the theorems of section 5
hold there.

In `pages`, `KeepsUp` says that the last of the refetches comes after the indexer
is done, which is what the comments at hire/page.tsx:102-106 and
agent/[id]/page.tsx:41-44 count on (refetches for longer than the indexer's
period); without it `SuccessIsShown` does not hold.

What the violation shows. `agents_epoch`: once the mirrored epoch is a day old,
hasActedThisEpoch is false for every firing, and payments do not refresh the
mirror: each firing pays again, in one epoch of the contract, until the daily
cap blocks it (`OncePerEpoch`). What does hold is `OneAttemptAnEpoch`, for a
mirrored epoch that still runs.

Deadlock checking is off in every run: the bounds on time, transactions and
faults let each model stop.

### Fairness

The wallet, the agent runtime and the prices have none: their properties are
safety properties, and nobody has to act.

* `Indexer`: weak fairness on the tick's steps, which the interval timer and the
  await of each call with an outcome (result or error) justify, and on the
  reset's steps, which the database's transaction timeout ends either way; the
  chain, faults and the start of a reset have none.
* `DemoDirector`: weak fairness on each request's steps: the transports of chain
  and database give up in time, and so does the wait for a receipt. Requests
  themselves, the timer, the chain and the indexer have none.
* `ActivityStream`: weak fairness on the server's steps (an interval that fires
  while the connection lasts) and the browser's (EventSource connects again by
  itself, and dispatches what arrived); writers, losses, mounts and the reading
  of pages have none.
* `TrustService`: weak fairness on every refresh (the timer fires for ever, and
  every call has an outcome) and on the configuration's reads; strangers, faults
  and the script have none, and `BadgeCatchesUp` asks for a registry that has
  settled.
* `Sessions`: the session request is answered (weak) and its answer is taken
  (strong). Strong, because each refused read drops the request under way and
  sends a new one; a page has a handful of reads, so one of the requests
  outlives them. The user, the wallet, sign-ins and failures have none.
* `OwnerPages`: a sent transaction is mined, the indexer goes on, a prompt is
  answered yes or no, the device's steps succeed or fail, effects run and
  refetch timers fire. Clicks, events elsewhere, faults and leaving have none.

## 4. Where code and words differ

One divergence has a run, `agents_epoch` above. Its root is that
schema.prisma:184 says the mirror is reconciled on Executed, and handleExecuted
(indexer.service.ts:464-530) writes the feed row only. "Spent today"
(`spentTodayUsd` of policies.service.ts) comes from that mirror, and is stale in
the same way. The others were met while modelling.

The contracts:

* updatePolicy may put the cap below what the epoch has spent; the contract then
  blocks (HandlerWallet.sol:381-383), but spentThisEpoch <= dailyCapUsd, as
  context/contracts-roadmap.md:101 has it, does not hold until the next epoch.
  What does hold is `AtMostTwoCapsADay`.
* approve() looks at the daily cap only, so a freeze does not stop an approval
  (HandlerWallet.sol:372).
* TrustReader.sol:14-16 says the cache is stale until syncAgent is called again.
  An agent whose id moves from wallet A to wallet B keeps A's entry for good:
  syncAgent writes B's (line 45) and leaves A's, and A keeps the agent's tier.

The indexer and the director:

* A reset moves the cursor to the head, also over events that are not indexed
  yet: the mirror then misses a PolicyUpdated until the wallet's next event that
  refreshes it (demo.service.ts:190).
* demo.service.ts:148 calls the gap between the block number and the deletes
  harmless. The reset reads block b; the tick indexes b+1 and opens a sync of
  b+2; the reset deletes the rows of b+1 and puts the cursor at b; the open sync
  commits its cursor, b+2. The rows of b+1 are never written again. Hence
  `~deleted` in `RowsMatchCursor` and `MirrorHasTheTerms`.
* After a reset an approval can be shown twice, against
  indexer.service.ts:161-163 and schema.prisma:228. The deletes are three awaited
  statements (demo.service.ts:198-204). The first misses the Approved row of a
  sync that has not committed; the second waits for that sync, or begins after
  it, and takes the approval. The cursor goes back before the payment, the
  replay finds no approval (indexer.service.ts:731-740) and writes the bare
  Executed row beside the Approved one. In the same way a row of a proposal may
  outlive the reset without its approval.
* The id of a proposal has no wallet in it (HandlerWallet.sol:344), and it alone
  is the key of PendingApproval (schema.prisma:278). Where two wallets have hired
  one session key and it files the same call at the same nonce in both, the
  second gets no row (indexer.service.ts:660-682, an upsert with an empty
  update), so that its owner is never asked, and a decision of either settles the
  first's (:732-764), perhaps against what its own queue says. Hence "as somebody
  has" in `RowsMatchCursor` and `DecidedTwice` in `RowsStay`; where one wallet
  alone files an id, they say what one would expect. `RowsStay` is otherwise
  what demo.service.ts:188-190 calls for ("Every filter is scoped to
  `walletAddress`").
* Nothing keeps a reset from the rows of a timer's run under way: its updates
  then throw, and without the row the next firing pays again.
* submitAgentPayment swallows a failed submission, so the DemoRun reads
  SUCCEEDED; a receipt that timed out makes it FAILED although the transaction
  is out. `RanMeansDecided` is the half that holds: a beat that SUCCEEDED was
  decided on, or its row says FAILED.
* A submission whose answer was lost is marked FAILED and does not count, so that
  the next firing pays again; an event that is indexed before the job has stored
  the hash finds no row, and the row stays SUBMITTED.
* A re-hire keeps frozenAt (indexer.service.ts:443); a villain's row becomes
  HIRED with its first event (indexer.service.ts:225); a proposal whose Policy
  row is missing is skipped for good (indexer.service.ts:636); a chain
  reorganisation is not handled.

The stream and the tiers:

* A connection that drops before its first event has no Last-Event-ID and starts
  again from the newest row: rows written meanwhile are never sent, where
  use-activity-stream.ts:19-22 says the browser's own reconnect is enough. What
  does hold, after the first event, is `NothingIsSkipped`.
* Nothing catches a poll that throws (activity.service.ts:188-198,
  events.controller.ts:27-45). The framework ends the stream with an error
  message and an id it makes up, 1 for the first message of a stream; the browser
  comes back with that id, and resolveStartingCursor honours it
  (activity.service.ts:168-170). Every row after the first that is still there
  then comes as a toast once more. The "no manual cursor tracking is needed" of
  use-activity-stream.ts:19-22 does not hold of that reconnect. `ToastsInOrder`
  speaks of the toasts between two such messages; `NothingIsSkipped` of those
  after one.
* An owner without a wallet gets a stream that completes and is opened again
  every few seconds, where the comment says "stay connected"
  (events.controller.ts:31-33).
* The script keeps the agent id that simulateContract returned
  (register-agents.ts:155). Ids are handed out in the order of the transactions:
  if a stranger registers first, the script rates and syncs the stranger's id
  and writes it to the agent's row; TrustReader cannot resolve the agent,
  against context/contracts-roadmap.md:83, the service flags it, and running
  the script again syncs the wrong id again.
* The badge is not the tier enforced (context/backend-roadmap.md:91) for an agent
  nobody has synced, for an old wallet as above, and for one registered twice
  after the script was killed (register-agents.ts:130-134).

The prices:

* The row of a round is upserted with an empty update (prices.service.ts:94): a
  round read again does not renew its time of fetching, and the cache spares
  reads only in the first time to live after a round was first read. No quote is
  wrong by it (`UnmarkedIsCurrent`).
* A round dated in the future is served unmarked where the contract reverts, the
  service does not know of a feed that is not configured, and it has no limit to
  a price where the contract stops at a uint128: `UnmarkedIsPayable` leaves the
  three out.

Signing in and the pages:

* use-sync-session-with-wallet.ts:8-10 promises that the session ends with the wallet's
  account. It ends only on a connect or a disconnect, and if a session is in the
  cache at that moment: an account switched within a connection (onConnect does
  not fire), a wallet that connects while the session query is loading, or a
  logout that fails, leaves it. What holds is `ShownIsSent`.
* A page may show one account and send as another, where use-session.ts:8-9 calls
  the cookie the sole source of truth. The first read of the session fails; the
  page refetches it, for the earlier session of alice; bob's sign-in ends while
  that request is under way, and invalidateQueries (use-siwe-sign-in.ts:38) joins
  it, since the query has no data; the page shows alice and sends as bob, until
  the session is next asked for (staleTime is Infinity, use-session.ts:14). The
  same happens when another tab signs in. Hence `unasked` in `ShownIsSent`.
* A logout clears whatever cookie the browser holds when its answer arrives,
  that of a sign-in which overtook it included. The page then finds no session
  and shows the gate.
* The cached reads of a page have no account in their keys (use-agents.ts:13):
  after a switch of accounts in one tab the next owner sees the previous one's
  payroll until the refetch.
* The approval sheet says "Once the Ledger-signed approve() lands"
  (approve/[tx]/page.tsx:74-75), but its success is set at the broadcast. A denial
  leaves the page at its hash, so that the message of a reverted denial is never
  seen.
* A lost answer to the broadcast of an approval shows an error while the approval
  is out (use-ledger-approve.ts:163-177) and gives both buttons back
  (approve/[tx]/page.tsx:190-203): a denial or a second approval may follow, of
  which the wallet carries out what comes first (`ProposalsSettleOnce`). Hence
  `heard` in `DecisionsDontCross`.
* "That didn't go through" (hire/page.tsx:152-162, approve/[tx]/page.tsx:90-98,
  agent/[id]/page.tsx:70-77) is said on any throw of writeContractAsync, which may
  come after the wallet has sent the transaction. Hence `heard` in
  `MessagesAreTrue`.
* Confirm is enabled in the moment between the receipt of a creation and the
  effect that hires; a click there asks the same hook, and the effect's call or
  the click's overtakes the other (`Overtaken`). A prompt that is overtaken so is
  followed by no hook, and what it may still send is not modelled.
* After a created wallet and a refused hire, the wallet address the page has
  read is none until the window gets the focus. The message says "Try again"
  (hire/page.tsx:94-96), but the retry asks to create the wallet a second time
  (:143-150), which the comment at :126-128 means to rule out, and fails in
  simulation with a message; `ClicksAreAnswered` asks for no more.

## 5. What is proved

Every safety property that a run checks is a theorem, and so is every refinement
and action property; some more theorems state what no run checks. All theorems
hold for every value of the constants that satisfies the named assumptions: any
set of agents, calls, policies, wallets, firings, requests and accounts, any day
or epoch length, any size of a poll or a page, and any bounds, so the bounds of
the runs are no limit here. The assumptions are the types of the constants
(`DayAssumption`, `WalletAssumption`, `VerdictAssumption`, `LogAssumption`,
`IndexerAssumption`, `RuntimeAssumption`, `DirectorAssumption`,
`StreamAssumption`, `TrustAssumption`, `ServiceAssumption`, `ConverterAssumption`,
`PricesAssumption`, `SessionsAssumption`, `TabAssumption`) and two that say more:
`AccountsAssumption` (no account is one of the words the model uses for "no answer
yet") and `PowersAssumption` (a power of ten with an exponent of 0 or more is a
whole number, and positive where it divides, which is arithmetic the provers do
not know). TLC evaluates each of them in a run. Each inductive invariant below was
checked by TLC before it was proved.

* `PolicyProofs`: `VerdictIsJustAlways`, case by case along the order of the checks,
  from `EvaluationInv` (the verdict is that of the arguments); `TighterPermitsNoMoreHolds`,
  by the monotony of the floored subtraction (`TighterHasLessLeft`); and
  `WaitingNeverHurtsAlways`, from `PatienceIsSafe`. Two are about amounts:
  `SmallerIsSafer` (no value below a permitted one is refused) and
  `SplittingGainsNothing` (two payments of one epoch are together within what was
  left before them, by what `Charge` stores: `ChargedPolicy`).
* `WalletProofs`, types: `TypeCorrect`. The invariant is the type of each variable
  and of every storage on `frames`, which is where a failing call takes its values
  from; the guard of `StartCall` keeps the balance a natural number.
* `WalletProofs`, queue: `SettlesOnceAlways`, `CallbacksOnlyAddAlways`,
  `OnePaymentATransaction`, from `QueueInv`. ProposalsSettleOnce alone is not
  inductive: a failing call falls back to a storage that must be in order too,
  and there must be at most one frame, or a callee could settle what an outer
  call is paying.
* `WalletProofs`, refinement: `WalletImplementsQueue`. A wallet with a call in
  flight stands for the storage before the call; the end of the call is the
  abstract transaction (with whatever the callee filed and refused), its failure
  and every step in mid-call are stutters.
* `WalletProofs`, books: `BooksMatchLedgerAlways`, `EtherIsAccountedForAlways`,
  `AtMostTwoCapsADayAlways`, from `BooksInv`, which says of the storage and of each
  one on `frames` that it is `InOrder`: the spend of a key is the sum of its epoch, an
  entry's running total is the sum up to it and within the cap, an entry lies
  within a day of the start of its epoch, and two epochs of one hire are more
  than a day apart. A day then meets at most two epochs (`TwoEpochsADay`), and
  what falls into it of each is at most the total of the last entry in it
  (`PartOfAnEpoch`). Sums are folds over finite sets; what is needed of them
  (`SumWith`, `SumOfBoth`, `SumOfPart`) rests on `SumEquation`, for which a smallest set
  that has no table of partial sums is chosen and refuted, since the induction
  theorems of the library cannot be used.
* `IndexerProofs`: `RowsMatchCursorAlways`, `MirrorHasTheTermsAlways`, from
  `IndexerInv`. `ChainInv` is what the contracts give: a wallet is created before it
  logs, hired before it proposes, a proposal is filed before it is settled and
  settled once in a wallet, and nothing is added to a block that was read.
  `RowsInv`: the rows of each wallet show the logs up to its cursor, and with what an
  open sync has in hand the logs it has behind it; the one table of approvals has
  the ids filed in all of them, each with a wallet that filed it and a standing
  that a decision left (`TableRight`), whichever wallets share an id. `MirrorInv`: the
  mirror has the contract's terms, or an event that refreshes it is ahead. Both
  hold until a reset deletes.
* `IndexerProofs`, steps: `RowsStayAlways`, through any number of resets, from
  `KeepInv` besides. A settled row is backed by a decision on its id, in the table
  and in the rows an open sync has in hand (`Backed`); a sync agrees with the table
  on what was settled when it began, and an open reset has locked rows of its own
  wallet only (`SyncAgrees`, `ResetAgrees`). A commit of either then changes no
  settled row, unless the chain holds decisions of two wallets on the id, and the
  commit of a sync moves the cursor on (`SyncIsAhead`).
* `AgentProofs`: `TypeCorrect`, `OneAttemptAnEpochAlways`,
  `BeatKeepsItsIntentAlways`, `OutcomesAreTrueAlways`, `SettledIsFinalAlways`, from
  `IInv`. Its parts say which row and transaction a job works with (`Places`),
  that nobody has written what the job has yet to write (`RowsOfJobs`), that the
  indexer settles a row only after its event (`Rows`), that mirrored epochs are
  of the past (`Clocks`), that one run is under way (`OneRun`), and that a run
  which found no payment still would find none until its own row is there
  (`DueIsClear`, the heart of the once-an-epoch argument).
* `AgentProofs`, the director: `DirectorIsRuntime` and
  `OnlyInterruptedRunsHangAlways`, from `DInv`, which is the runtime's `IInv` with
  `OneAction` (at most one request is past the flag, and the beat's job belongs to
  one that pays) and `RunsOfRequests` (a request past OpenRun has its row, one that
  closes it an outcome). `StepIsRuntimes` maps every step of the director to one of
  the runtime or none; `DirectorPaysOnce` then carries the runtime's theorems over.
  `RanMeansDecidedAlways` adds `RInv`: the row of a request that pays names the beat's
  payment (`Told`), and what is decided stays so, since a payment is planned once.
* `TrustProofs`: `TypeCorrect` and `FlaggedForCauseAlways`, from `IInv`: a refresh
  about to write FLAGGED has a cause, and so has one that would flag its agent
  on reading its wallet now (`CauseOf`: the registry can only get there by a move
  under its eyes); the script's id is registered once it has registered, which
  is why rows and snapshots hold registered ids. `PortAgreesAlways`: the contract's
  loop over all ratings and the service's sum over the set of those it can scale
  are both folds over the places of the ratings, the one taking the greatest place
  last, the other any. `LoopCountsAndSums` shows that the loop has the number
  and the sum of the usable places on every subset: of the subsets where it
  had not, one is smallest, and without its last place it would have (`SmallestSubset`,
  in place of an induction; `FoldEquation` and `SumWithout` unfold the two). The last
  theorem, `BadgeIsKeptAlways`, is the safe half of `BadgeCatchesUp`: with no older
  view of an agent under way (`OnlyNews`), a badge changes to what the registries
  say only, until they change.
* `SessionProofs`: `SessionsAreEarnedAlways`, from `SInv`. What makes it inductive is
  `ClaimsAreAlone`: a call between its claim and its session has spent its nonce,
  no other such call and no session has that nonce; and a call past the check
  was signed by the account it names (`CallsGoOn`). `ShownIsSentAlways`, from `PInv`,
  which adds that an answer on its way names the account of the cookie's session
  while that is live, unless the history says that the cookie changed unasked
  (`AnswersAreFresh`): what else changes the cookie asks anew.
* `PricesProofs`: `UnmarkedIsCurrentAlways`, `UnmarkedIsPayableAlways`, from
  `PricesInv`: every row, quote and row in hand is that of a round, at its price,
  and the next round was posted no earlier than the reading began; so a late
  writer stores an old row with its own time only. `SplitLosesAUnitAlways` bounds
  what the rounding down of usdValue gives away: each split of a payment lets one
  unit of 10^-8 dollars at most pass uncounted (`QuotientOfSum`).
* `WebProofs`, the feed: `ToastsInOrderAlways`, `NothingIsSkippedAlways`,
  `PagesMissNothingAlways`, from `StreamInv`. What a source got, what is on the wire
  and what a poll has in hand are one list, `Sent`: it ascends, no row of the feed
  lies in a gap of it (`Gapless`), and the cursor divides it; a lost connection cuts
  it back to what was got, where the next one takes it up (`ResumeInv`), and an
  error message starts it anew. The walk
  over the pages descends and has every row down to the next cursor (`WalkInv`).
  `AscendingSorts` and `DescendingSorts` show that a finite set of rows has its
  sequence in order, the ranks being a bijection.
* `WebProofs`, the pages: `HiresAreConfirmedAlways`, `MessagesAreTrueAlways`,
  `DecisionsDontCrossAlways`, from `PagesInv`: a confirmed draft is in one place (kept
  until the wallet is there, with a prompt, or hired: `DraftsInv`), what a message
  is about is in none and was not heard to be sent (`MessageInv`), and a decision
  that was heard of has taken the buttons or the page away, and is the last
  (`DecisionInv`).

Only model-checked: liveness (`EverythingIsIndexed`, `FlagComesDown`,
`EveryRowIsShown`, `BadgeCatchesUp`, `RefusedReadClosesGate`, `ClicksAreAnswered`,
`SuccessIsShown`), which is out of the prover's reach.

## 6. Not modelled

* Calldata, token amounts, wording of feed rows and summaries, formatting and
  layout: no property tells them apart.
* CREATE2 addresses; ERC-20 transfers (the wallet's calls are opaque).
* Agent rows (names, avatars, kind) and freeze times.
* The approvals' and policies' reads keep no state: their answers are modelled as
  the pages use them, the sums, sentences and recent activity in them are not.
* Several symbols and several wallets of one runtime: they share no state but the
  database's rows, which the modules have. Of a second tab, what it does to the
  cookie is modelled, and not its pages; of two pages on one request in two tabs,
  each has its own hooks, and the wallet settles the request once.
* What the pages behind the gate have cached, and the switch of the network
  before a sign-in or a write.
* Deployment scripts, generated bindings, configuration, the clients of chain
  and database, the landing page and the navigation: no logic of their own.
* Chain reorganisations, and more than one call in one transaction to wallets.
