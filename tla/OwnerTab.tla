------------------------------ MODULE OwnerTab ------------------------------
(***************************************************************************)
(* What the owner's pages share: the chain and the database they are       *)
(* about, the wallet application that signs, the hook every write goes     *)
(* through (useWriteContract and useWaitForTransactionReceipt) and the     *)
(* read of the owner's wallet address.  One tab shows one page.            *)
(*                                                                         *)
(* A hook follows the last transaction it was asked for:                   *)
(*   idle -> asking -> sent -> success | reverted | lost                   *)
(*             `----> declined                                             *)
(* "declined" is a write that threw: as a rule nothing was sent, but the   *)
(* wallet's answer may have been lost after it had sent the transaction.   *)
(* "lost" is a receipt that could not be had; the transaction may be mined *)
(* all the same.                                                           *)
(***************************************************************************)
EXTENDS Naturals, Sequences

CONSTANTS
  Agents,       \* the catalog
  Terms,        \* the allowances and permissions an owner may choose from
  Polls,        \* how often a page refetches after a success
  KeepsUp,      \* whether the indexer is done before the last of them
  Budget        \* bounds: on clicks, on events elsewhere, on faults

ASSUME TabAssumption ==
  /\ Polls \in Nat \ {0} /\ KeepsUp \in BOOLEAN
  /\ Budget \in [{"clicks", "elsewhere", "faults"} -> Nat]

Hooks == {"create", "hire", "deny", "freeze"}
Pages == {"hire", "approve", "file", "left"}

VARIABLES
  page,        \* the page the tab shows; "left" is any page that only reads
  chain,       \* the owner's wallet and what is in it
  db,          \* the same as the indexer has it
  pool,        \* the transactions that are sent and not mined
  writes,      \* the four hooks
  walletRead,  \* useWalletAddress
  budget

tab == <<page, chain, db, pool, writes, walletRead, budget>>

Idle == [step |-> "idle"]

\* A wallet with its agents; `frozen` is of the agent whose file is open,
\* `proposal` of the request whose sheet is open.
NoWallet == [wallet |-> FALSE, hired |-> {}, frozen |-> FALSE, proposal |-> "NONE"]
Employer(frozen) ==
  [wallet |-> TRUE, hired |-> Agents, frozen |-> frozen, proposal |-> "PENDING"]

TabInit ==
  /\ \/ page = "hire" /\ chain \in {NoWallet, [NoWallet EXCEPT !.wallet = TRUE]}
     \/ page \in {"approve", "file"} /\ \E f \in BOOLEAN : chain = Employer(f)
  /\ db \in {chain, NoWallet}
  /\ pool = {}
  /\ writes = [h \in Hooks |-> Idle]
  /\ walletRead = "loading"
  /\ budget = Budget

Spend(what) == budget[what] > 0 /\ budget' = [budget EXCEPT ![what] = @ - 1]

-----------------------------------------------------------------------------
(* The write hook. *)

IsPending(h) == writes[h].step \in {"asking", "sent"}
IsSuccess(h) == writes[h].step = "success"
IsReverted(h) == writes[h].step = "reverted"
HasError(h) == writes[h].step \in {"declined", "lost"}

\* writeContractAsync, called by a click or by an effect: whatever the hook
\* knew of an earlier call is gone.
Ask(h, call, by) ==
  writes' = [writes EXCEPT ![h] = [step |-> "asking", call |-> call, by |-> by]]

\* Whether the chain would carry out the call as it is now.
Passes(kind) ==
  CASE kind = "create" -> ~chain.wallet
    [] kind = "hire" -> chain.wallet
    [] kind \in {"approve", "deny"} -> chain.proposal = "PENDING"
    [] kind = "freeze" -> chain.wallet

\* The owner signs and the wallet sends.  A call that would revert fails
\* before, in simulation.  Of two like transactions in the pool one counts.
Sends(h) ==
  /\ writes[h].step = "asking" /\ Passes(h)
  /\ pool' = pool \cup {[kind |-> h, call |-> writes[h].call]}

Throws(h) ==
  /\ writes[h].step = "asking"
  /\ writes' = [writes EXCEPT ![h].step = "declined"]

\* writeContractAsync answers with the hash.
Signs(h) == Sends(h) /\ writes' = [writes EXCEPT ![h].step = "sent"]

\* It throws with nothing sent: a refusal, a call that would revert, a wallet
\* that is not there.
Declines(h) == Throws(h) /\ UNCHANGED <<pool, budget>>

\* It throws all the same: the transaction is sent and the answer is lost.
AnswerLost(h) == Sends(h) /\ Throws(h) /\ Spend("faults")

\* What a transaction does to the chain.
After(tx) ==
  CASE tx.kind = "create" -> [chain EXCEPT !.wallet = TRUE]
    [] tx.kind = "hire" -> [chain EXCEPT !.hired = @ \cup {tx.call.agent}]
    [] tx.kind = "approve" -> [chain EXCEPT !.proposal = "APPROVED"]
    [] tx.kind = "deny" -> [chain EXCEPT !.proposal = "DENIED"]
    [] tx.kind = "freeze" -> [chain EXCEPT !.frozen = tx.call]

Follows(h, tx) == h = tx.kind /\ writes[h].step = "sent" /\ writes[h].call = tx.call

Receipt(tx, status) ==
  writes' = [h \in Hooks |->
    IF Follows(h, tx) THEN [writes[h] EXCEPT !.step = status] ELSE writes[h]]

\* A payment that is approved may still fail when it is carried out.
Mine(tx) ==
  /\ pool' = pool \ {tx}
  /\ \/ Passes(tx.kind) /\ chain' = After(tx) /\ Receipt(tx, "success")
     \/ ~Passes(tx.kind) /\ Receipt(tx, "reverted") /\ UNCHANGED chain
     \/ tx.kind = "approve" /\ UNCHANGED <<chain, writes>>
  /\ UNCHANGED <<page, db, walletRead, budget>>

LoseReceipt(h) ==
  /\ writes[h].step = "sent" /\ Spend("faults")
  /\ writes' = [writes EXCEPT ![h].step = "lost"]
  /\ UNCHANGED <<page, chain, db, pool, walletRead>>

\* Another tab, or anyone: a wallet can be created for any owner.
Elsewhere ==
  /\ Spend("elsewhere")
  /\ \E kind \in {"create", "deny", "freeze"} :
       /\ Passes(kind)
       /\ chain' = After([kind |-> kind, call |-> ~chain.frozen])
  /\ UNCHANGED <<page, db, pool, writes, walletRead>>

-----------------------------------------------------------------------------
(* The database follows the chain; the address read follows it on demand. *)

Index ==
  /\ db # chain /\ db' = chain
  /\ UNCHANGED <<page, chain, pool, writes, walletRead, budget>>

\* useWalletAddress: null while loading, without a wallet, and when the read
\* has failed.  It reads again when the window gets the focus.
WalletAddressKnown == walletRead = "found"
WalletLoading == walletRead = "loading"

ReadWallet ==
  /\ walletRead' = IF chain.wallet THEN "found" ELSE "none"
  /\ UNCHANGED <<page, chain, db, pool, writes>>

ResolveWallet == WalletLoading /\ ReadWallet /\ UNCHANGED budget
RefocusWallet == ~WalletLoading /\ Spend("elsewhere") /\ ReadWallet

WalletReadFails ==
  /\ WalletLoading /\ Spend("faults")
  /\ walletRead' = "failed"
  /\ UNCHANGED <<page, chain, db, pool, writes>>

TabNext ==
  \/ \E tx \in pool : Mine(tx)
  \/ \E h \in Hooks : LoseReceipt(h)
  \/ Elsewhere \/ Index
  \/ ResolveWallet \/ RefocusWallet \/ WalletReadFails

\* The network mines what is sent, the indexer's ticks go on, reads return.
TabFairness == WF_tab(\E tx \in pool : Mine(tx)) /\ WF_tab(Index) /\ WF_tab(ResolveWallet)

Leave == page' = "left"
=============================================================================
