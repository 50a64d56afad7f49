----------------------------- MODULE WalletLog -----------------------------
(***************************************************************************)
(* The chain as the backend sees it: a growing list of transactions, each  *)
(* in a block and with the events it emitted, and the storage of the       *)
(* wallets at the head, which any reader gets without asking for a block.  *)
(*                                                                         *)
(* The wallets are HandlerWallet reduced to what events tell: one agent    *)
(* each, limits as opaque `terms`, no books.  Whether a call pays, is      *)
(* queued or is blocked is the wallet's business, so any of the three may  *)
(* happen.  A transaction makes one call to one wallet.                    *)
(*                                                                         *)
(* A block becomes visible as a whole.  A transaction may therefore share  *)
(* the block of the one before it as long as nobody has read the head.     *)
(***************************************************************************)
EXTENDS Integers, Sequences, FiniteSets

CONSTANTS
  Wallets,       \* wallets that exist or may be created by the factory
  DevWallet,     \* the wallet that was deployed without the factory
  Terms,         \* the limits an owner may give an agent
  HireTerms,     \* those among them it may be hired with
  Contents,      \* what a proposal is for: agent, target, data, value, price
  MaxTxs         \* bound on the transactions

ASSUME LogAssumption ==
  /\ DevWallet \in Wallets /\ MaxTxs \in Nat /\ IsFiniteSet(Wallets)
  /\ HireTerms \subseteq Terms /\ Contents # {}

VARIABLES
  head,       \* the number of the newest block
  observed,   \* somebody has read the head since it became `head`
  txs,        \* all transactions, oldest first
  agents,     \* the agent's policy in each wallet, at the head
  nonces,     \* how many proposals each wallet has filed
  proposals   \* the cosign queue of each wallet, at the head: id -> status

chainVars == <<head, observed, txs, agents, nonces, proposals>>

Deployed == {DevWallet} \cup {txs[n].wallet : n \in DOMAIN txs}

EventName ==
  {"WalletCreated", "AgentHired", "PolicyUpdated", "AgentFrozen", "AgentUnfrozen",
   "Executed", "ExecutionBlocked", "Proposed", "Approved", "Denied"}

\* A proposal's id is a hash of what it is for and of its wallet's nonce.  The
\* wallet is no part of it: two wallets may file the same id.
ProposalId == Contents \X Nat

\* One event: id is the proposal's (NoProposal for events without one).  The
\* contract's AgentFrozen carries a flag; here it has two names.
NoProposal == <<CHOOSE c \in Contents : TRUE, 0>>
Event == [name : EventName, id : ProposalId]

Ev(name) == [name |-> name, id |-> NoProposal]
EvOf(name, id) == [name |-> name, id |-> id]

Policy == [hired : BOOLEAN, frozen : BOOLEAN, terms : Terms]

NotHired == [hired |-> FALSE, frozen |-> FALSE,
             terms |-> CHOOSE t \in Terms : TRUE]

\* f with the entries of g in place of its own.
Over(f, g) == [x \in DOMAIN f \cup DOMAIN g |-> IF x \in DOMAIN g THEN g[x] ELSE f[x]]

Empty == [id \in {} |-> "PENDING"]

ChainInit ==
  /\ head = 0 /\ observed = FALSE
  /\ txs = <<>>
  /\ agents = [w \in Wallets |-> NotHired]
  /\ nonces = [w \in Wallets |-> 0]
  /\ proposals = [w \in Wallets |-> Empty]

Mine(w, events) ==
  /\ Len(txs) < MaxTxs
  /\ \E b \in {head + 1} \cup (IF observed \/ head = 0 THEN {} ELSE {head}) :
       /\ head' = b
       /\ txs' = Append(txs, [wallet |-> w, block |-> b, events |-> events])
  /\ observed' = FALSE

-----------------------------------------------------------------------------
CreateWallet(w) ==
  /\ w \notin Deployed
  /\ Mine(w, <<Ev("WalletCreated")>>)
  /\ UNCHANGED <<agents, nonces, proposals>>

Hire(w, t) ==
  /\ w \in Deployed
  /\ Mine(w, <<Ev("AgentHired")>>)
  /\ agents' = [agents EXCEPT ![w] =
       [hired |-> TRUE, frozen |-> FALSE, terms |-> t]]
  /\ UNCHANGED <<nonces, proposals>>

Update(w, t) ==
  /\ agents[w].hired
  /\ Mine(w, <<Ev("PolicyUpdated")>>)
  /\ agents' = [agents EXCEPT ![w].terms = t]
  /\ UNCHANGED <<nonces, proposals>>

SetFrozen(w, frozen) ==
  /\ agents[w].hired
  /\ Mine(w, <<Ev(IF frozen THEN "AgentFrozen" ELSE "AgentUnfrozen")>>)
  /\ agents' = [agents EXCEPT ![w].frozen = frozen]
  /\ UNCHANGED <<nonces, proposals>>

Pay(w) ==
  /\ agents[w].hired /\ ~agents[w].frozen
  /\ Mine(w, <<Ev("Executed")>>)
  /\ UNCHANGED <<agents, nonces, proposals>>

Block(w) ==
  /\ agents[w].hired
  /\ Mine(w, <<Ev("ExecutionBlocked")>>)
  /\ UNCHANGED <<agents, nonces, proposals>>

Propose(w, content) ==
  /\ agents[w].hired /\ ~agents[w].frozen
  /\ nonces' = [nonces EXCEPT ![w] = @ + 1]
  /\ LET id == <<content, nonces'[w]>> IN
       /\ Mine(w, <<EvOf("Proposed", id)>>)
       /\ proposals' = [proposals EXCEPT ![w] = Over(@, [i \in {id} |-> "PENDING"])]
  /\ UNCHANGED agents

Approve(w, id) ==
  /\ id \in DOMAIN proposals[w] /\ proposals[w][id] = "PENDING"
  /\ Mine(w, <<EvOf("Approved", id), Ev("Executed")>>)
  /\ proposals' = [proposals EXCEPT ![w][id] = "APPROVED"]
  /\ UNCHANGED <<agents, nonces>>

Deny(w, id) ==
  /\ id \in DOMAIN proposals[w] /\ proposals[w][id] = "PENDING"
  /\ Mine(w, <<EvOf("Denied", id)>>)
  /\ proposals' = [proposals EXCEPT ![w][id] = "DENIED"]
  /\ UNCHANGED <<agents, nonces>>

ChainStep ==
  \E w \in Wallets :
    \/ CreateWallet(w)
    \/ \E t \in HireTerms : Hire(w, t)
    \/ \E t \in Terms : Update(w, t)
    \/ \E frozen \in BOOLEAN : SetFrozen(w, frozen)
    \/ Pay(w) \/ Block(w)
    \/ \E content \in Contents : Propose(w, content)
    \/ \E id \in DOMAIN proposals[w] : Approve(w, id) \/ Deny(w, id)

-----------------------------------------------------------------------------
\* The places in `txs` of w's own transactions in the blocks from..to.
LogsOf(w, from, to) ==
  {n \in DOMAIN txs :
     /\ txs[n].wallet = w
     /\ txs[n].block >= from /\ txs[n].block <= to
     /\ txs[n].events[1].name # "WalletCreated"}

\* The WalletCreated events of the factory in the blocks from..to.
CreationsIn(from, to) ==
  {n \in DOMAIN txs :
     /\ txs[n].block >= from /\ txs[n].block <= to
     /\ txs[n].events[1].name = "WalletCreated"}
=============================================================================
