--------------------------- MODULE HandlerWallet ---------------------------
(***************************************************************************)
(* One HandlerWallet contract: the owner's funds, the policy of every      *)
(* agent (session key) the owner hired, and the queue of calls that wait   *)
(* for the owner's signature.                                              *)
(*                                                                         *)
(* A transaction that reverts leaves no trace, so an early return of the   *)
(* code is an action that is not enabled.  A transaction that calls out is *)
(* split where another contract gets control: the effects and the start    *)
(* of the external call are one step, which pushes the storage as it was   *)
(* on `frames`; the callee may then call back into every function that is  *)
(* not nonReentrant; the end of the call pops the frame, and if the call   *)
(* failed the wallet reverts and the storage is what was pushed.           *)
(*                                                                         *)
(* Abstractions.  keccak256 over the proposal and its nonce is the nonce   *)
(* itself, so pendingApprovals is a sequence and an id is a place in it.   *)
(* The tier and the dollar value of a call are chosen afresh at every      *)
(* evaluation: neither registry nor price feed is the wallet's.  A call    *)
(* names an account other than the wallet, and its calldata is opaque.     *)
(***************************************************************************)
EXTENDS PolicyCheck, Sequences, FiniteSets

CONSTANTS
  Owners,          \* accounts that can own the wallet
  SessionKeys,     \* accounts that can be hired as agents
  Calls,           \* the calls agents may ask for
  Routers,         \* the accounts an owner may list as swap routers
  ZeroAddress,     \* address(0)
  Handover,        \* owners (or ZeroAddress) ownership may pass to
  HirePolicies,    \* the AgentPolicy calldata an owner may send
  Deposits,        \* the amounts of ether the wallet may receive
  UsdValues,       \* what the price feed may say some ether is worth
  MaxNow, MaxFunded, MaxHires, MaxProposals, MaxPayments   \* bounds

ASSUME WalletAssumption ==
  /\ SessionKeys \subseteq Address \ {ZeroAddress}
  /\ Owners \subseteq Address \ {ZeroAddress}
  /\ Calls \subseteq Call
  /\ Routers \subseteq Address
  /\ Handover \subseteq Owners \cup {ZeroAddress}
  /\ HirePolicies \subseteq AgentPolicy
  /\ Deposits \subseteq Nat /\ UsdValues \subseteq Nat
  /\ {MaxNow, MaxFunded, MaxHires, MaxProposals, MaxPayments} \subseteq Nat

VARIABLES
  now,               \* block.timestamp
  owner, pendingOwner,                        \* Ownable2Step
  policies, isHired, knownRouters,            \* the owner's configuration
  pendingApprovals,  \* the proposals, in the order of their nonce
  balance,           \* the wallet's ether
  frames,            \* the external calls in flight: the storage before each
  funded,            \* history: the ether received so far
  hires,             \* history: how often each key was hired
  denied,            \* history: the proposals the owner denied
  ledger             \* history: one entry per Executed event, in order

config == <<policies, isHired, knownRouters>>
ownership == <<owner, pendingOwner>>
vars == <<now, ownership, config, pendingApprovals, balance, frames,
          funded, hires, denied, ledger>>

PendingApproval ==
  [sessionKey : SessionKeys, call : Call, usdValue : Nat, kind : {"TRANSFER", "SWAP"},
   resolved : BOOLEAN]

NoId == 0   \* the id of a payment that did not go through the queue

(***************************************************************************)
(* An entry of the ledger: who was paid for (key), under which proposal    *)
(* (id), how much, when, and what the wallet's books said right after:     *)
(* the epoch's start, its running total and the daily cap in force.        *)
(***************************************************************************)
Entry ==
  [key : SessionKeys, id : Nat, call : Call, usd : Nat, at : Nat,
   hire : Nat, epoch : Nat, total : Nat, cap : Nat]

Storage ==
  [owner : Owners \cup {ZeroAddress}, pendingOwner : Owners \cup {ZeroAddress},
   policies : [SessionKeys -> AgentPolicy], isHired : [SessionKeys -> BOOLEAN],
   knownRouters : SUBSET Routers, pendingApprovals : Seq(PendingApproval),
   balance : Nat, funded : Nat, hires : [SessionKeys -> Nat],
   denied : SUBSET Nat, ledger : Seq(Entry)]

CurrentStorage ==
  [owner |-> owner, pendingOwner |-> pendingOwner, policies |-> policies,
   isHired |-> isHired, knownRouters |-> knownRouters,
   pendingApprovals |-> pendingApprovals, balance |-> balance,
   funded |-> funded, hires |-> hires, denied |-> denied, ledger |-> ledger]

TypeOK ==
  /\ now \in Nat
  /\ CurrentStorage \in Storage
  /\ frames \in Seq(Storage)

Init ==
  /\ now = 0
  /\ owner \in Owners /\ pendingOwner = ZeroAddress
  /\ policies = [k \in SessionKeys |-> NoPolicy]
  /\ isHired = [k \in SessionKeys |-> FALSE]
  /\ knownRouters = {}
  /\ pendingApprovals = <<>>
  /\ balance = 0 /\ funded = 0
  /\ frames = <<>>
  /\ hires = [k \in SessionKeys |-> 0]
  /\ denied = {} /\ ledger = <<>>

-----------------------------------------------------------------------------
(***************************************************************************)
(* Modifiers.                                                              *)
(***************************************************************************)
\* Mutant: the guard is missing.
NonReentrantDropped == TRUE

NonReentrant == frames = <<>>

\* There is an owner to send the transaction.
OnlyOwner == owner # ZeroAddress

OnlySession(k) == isHired[k]

-----------------------------------------------------------------------------
(***************************************************************************)
(* Ownership: OpenZeppelin's Ownable2Step and Ownable.                     *)
(***************************************************************************)
TransferOwnership(o) ==
  /\ OnlyOwner
  /\ pendingOwner' = o
  /\ UNCHANGED <<now, owner, config, pendingApprovals, balance, frames,
                 funded, hires, denied, ledger>>

AcceptOwnership ==
  /\ pendingOwner # ZeroAddress
  /\ owner' = pendingOwner
  /\ pendingOwner' = ZeroAddress
  /\ UNCHANGED <<now, config, pendingApprovals, balance, frames,
                 funded, hires, denied, ledger>>

RenounceOwnership ==
  /\ OnlyOwner
  /\ ZeroAddress \in Handover
  /\ owner' = ZeroAddress
  /\ pendingOwner' = ZeroAddress
  /\ UNCHANGED <<now, config, pendingApprovals, balance, frames,
                 funded, hires, denied, ledger>>

-----------------------------------------------------------------------------
(***************************************************************************)
(* Agent management: onlyOwner, and none of it is nonReentrant.            *)
(***************************************************************************)
\* Hiring starts the books afresh whatever the calldata says, also when the
\* key is hired already.  Queued proposals stay.
HiredPolicy(p) ==
  [p EXCEPT !.epochStart = now, !.spentThisEpoch = 0, !.frozen = FALSE]

HireAgent(k, p) ==
  /\ OnlyOwner
  /\ hires[k] < MaxHires
  /\ isHired' = [isHired EXCEPT ![k] = TRUE]
  /\ policies' = [policies EXCEPT ![k] = HiredPolicy(p)]
  /\ hires' = [hires EXCEPT ![k] = @ + 1]
  /\ UNCHANGED <<now, ownership, knownRouters, pendingApprovals, balance,
                 frames, funded, denied, ledger>>

\* An update changes limits and permissions, not the books or the freeze.
UpdatedPolicy(k, p) ==
  [p EXCEPT !.epochStart = policies[k].epochStart,
            !.spentThisEpoch = policies[k].spentThisEpoch,
            !.frozen = policies[k].frozen]

UpdatePolicy(k, p) ==
  /\ OnlyOwner
  /\ isHired[k]
  /\ policies' = [policies EXCEPT ![k] = UpdatedPolicy(k, p)]
  /\ UNCHANGED <<now, ownership, isHired, knownRouters, pendingApprovals,
                 balance, frames, funded, hires, denied, ledger>>

SetFrozen(k, frozen) ==
  /\ OnlyOwner
  /\ isHired[k]
  /\ policies' = [policies EXCEPT ![k].frozen = frozen]
  /\ UNCHANGED <<now, ownership, isHired, knownRouters, pendingApprovals,
                 balance, frames, funded, hires, denied, ledger>>

FreezeAgent(k) == SetFrozen(k, TRUE)
UnfreezeAgent(k) == SetFrozen(k, FALSE)

SetKnownRouter(r, known) ==
  /\ OnlyOwner
  /\ knownRouters' = IF known THEN knownRouters \cup {r} ELSE knownRouters \ {r}
  /\ UNCHANGED <<now, ownership, policies, isHired, pendingApprovals, balance,
                 frames, funded, hires, denied, ledger>>

-----------------------------------------------------------------------------
(***************************************************************************)
(* The external call both payment paths end in.  The wallet's ether moves  *)
(* when the call starts; if there is not enough the call fails before the  *)
(* callee runs, and the transaction reverts.                               *)
(***************************************************************************)
StartCall(k, id, call, usd) ==
  /\ Len(ledger) < MaxPayments
  /\ balance >= call.value
  /\ balance' = balance - call.value
  /\ frames' = Append(frames, CurrentStorage)
  /\ LET charged == Charge(policies[k], usd, now) IN
       /\ policies' = [policies EXCEPT ![k] = charged]
       /\ ledger' = Append(ledger,
            [key |-> k, id |-> id, call |-> call, usd |-> usd, at |-> now,
             hire |-> hires[k], epoch |-> charged.epochStart,
             total |-> charged.spentThisEpoch, cap |-> charged.dailyCapUsd])

CallSucceeds ==
  /\ frames # <<>>
  /\ frames' = SubSeq(frames, 1, Len(frames) - 1)
  /\ UNCHANGED <<now, ownership, config, pendingApprovals, balance,
                 funded, hires, denied, ledger>>

\* Mutant: the failure is ignored; the ether is back, the effects stay.
CallFailsQuietly ==
  /\ frames # <<>>
  /\ frames' = SubSeq(frames, 1, Len(frames) - 1)
  /\ balance' = balance + ledger[Len(ledger)].call.value
  /\ UNCHANGED <<now, ownership, config, pendingApprovals,
                 funded, hires, denied, ledger>>

\* The callee failed: the wallet bubbles the revert, and what the nested
\* calls did goes with it.
CallFails ==
  /\ frames # <<>>
  /\ LET s == frames[Len(frames)] IN
       /\ owner' = s.owner /\ pendingOwner' = s.pendingOwner
       /\ policies' = s.policies /\ isHired' = s.isHired
       /\ knownRouters' = s.knownRouters
       /\ pendingApprovals' = s.pendingApprovals
       /\ balance' = s.balance /\ funded' = s.funded
       /\ hires' = s.hires /\ denied' = s.denied /\ ledger' = s.ledger
  /\ frames' = SubSeq(frames, 1, Len(frames) - 1)
  /\ UNCHANGED now

-----------------------------------------------------------------------------
(***************************************************************************)
(* Execution: onlySession.                                                 *)
(***************************************************************************)
ValidTarget(k, call) == call.target # k /\ call.target # ZeroAddress

Verdict(k, call, tier, usd) ==
  Evaluate(policies[k], knownRouters, call, tier, usd, now)

CommitAndCall(k, call, usd) ==
  /\ StartCall(k, NoId, call, usd)
  /\ UNCHANGED <<now, ownership, isHired, knownRouters, pendingApprovals,
                 funded, hires, denied>>

\* Mutant: the id is the hash of the call alone, so asking again for what
\* was settled overwrites it with a fresh proposal.
EnqueueProposalByContent(k, call, usd) ==
  LET a == [sessionKey |-> k, call |-> call, usdValue |-> usd,
            kind |-> KindOf(knownRouters, call), resolved |-> FALSE]
      Same(b) == [b EXCEPT !.resolved = FALSE] = a
  IN /\ Len(pendingApprovals) < MaxProposals
     /\ pendingApprovals' =
          IF \E i \in DOMAIN pendingApprovals : Same(pendingApprovals[i])
          THEN [i \in DOMAIN pendingApprovals |->
                 IF Same(pendingApprovals[i]) THEN a ELSE pendingApprovals[i]]
          ELSE Append(pendingApprovals, a)
     /\ UNCHANGED <<now, ownership, config, balance, frames,
                    funded, hires, denied, ledger>>

EnqueueProposal(k, call, usd) ==
  /\ Len(pendingApprovals) < MaxProposals
  /\ pendingApprovals' = Append(pendingApprovals,
       [sessionKey |-> k, call |-> call, usdValue |-> usd,
        kind |-> KindOf(knownRouters, call), resolved |-> FALSE])
  /\ UNCHANGED <<now, ownership, config, balance, frames,
                 funded, hires, denied, ledger>>

Execute(k, call, tier, usd) ==
  /\ NonReentrant /\ OnlySession(k) /\ ValidTarget(k, call)
  /\ Verdict(k, call, tier, usd) = "OK"
  /\ CommitAndCall(k, call, usd)

\* Never reverts on a policy failure: a blocked attempt is a transaction
\* that emits ExecutionBlocked and stores nothing.
TryExecute(k, call, tier, usd) ==
  /\ NonReentrant /\ OnlySession(k) /\ ValidTarget(k, call)
  /\ \/ /\ Verdict(k, call, tier, usd) = "COSIGN"
        /\ EnqueueProposal(k, call, usd)
     \/ /\ Verdict(k, call, tier, usd) \in BlockReason
        /\ UNCHANGED vars
     \/ /\ Verdict(k, call, tier, usd) = "OK"
        /\ CommitAndCall(k, call, usd)

\* Not nonReentrant: a callee that is a session key can propose mid-call.
Propose(k, call, tier, usd) ==
  /\ OnlySession(k) /\ ValidTarget(k, call)
  /\ Verdict(k, call, tier, usd) \in {"OK", "COSIGN"}
  /\ EnqueueProposal(k, call, usd)

-----------------------------------------------------------------------------
(***************************************************************************)
(* The cosign queue: onlyOwner.                                            *)
(***************************************************************************)
\* Mutant: a resolved proposal can be settled again.
IsOpenEvenResolved(id) == id \in DOMAIN pendingApprovals

IsOpen(id) == id \in DOMAIN pendingApprovals /\ ~pendingApprovals[id].resolved

\* Mutant: the approval is measured against the cap alone, not against what
\* the epoch has spent already.
FitsDailyCapAlone(policy, usd) == usd <= policy.dailyCapUsd

\* Only the daily cap is checked again: not the freeze, the tier, the
\* per-transaction cap or the price.
FitsDailyCap(policy, usd) == RolledSpent(policy, now) + usd <= policy.dailyCapUsd

\* Mutant: the proposal is not marked resolved.
ApproveUnmarked(id) ==
  /\ NonReentrant /\ OnlyOwner
  /\ IsOpen(id)
  /\ LET a == pendingApprovals[id] IN
       /\ FitsDailyCap(policies[a.sessionKey], a.usdValue)
       /\ StartCall(a.sessionKey, id, a.call, a.usdValue)
  /\ UNCHANGED <<now, ownership, isHired, knownRouters, pendingApprovals,
                 funded, hires, denied>>

Approve(id) ==
  /\ NonReentrant /\ OnlyOwner
  /\ IsOpen(id)
  /\ LET a == pendingApprovals[id] IN
       /\ FitsDailyCap(policies[a.sessionKey], a.usdValue)
       /\ StartCall(a.sessionKey, id, a.call, a.usdValue)
  /\ pendingApprovals' = [pendingApprovals EXCEPT ![id].resolved = TRUE]
  /\ UNCHANGED <<now, ownership, isHired, knownRouters, funded, hires, denied>>

Deny(id) ==
  /\ OnlyOwner
  /\ IsOpen(id)
  /\ pendingApprovals' = [pendingApprovals EXCEPT ![id].resolved = TRUE]
  /\ denied' = denied \cup {id}
  /\ UNCHANGED <<now, ownership, config, balance, frames,
                 funded, hires, ledger>>

-----------------------------------------------------------------------------
(***************************************************************************)
(* The environment.                                                        *)
(***************************************************************************)
\* receive(): anyone, also a callee that sends ether back.
Fund(v) ==
  /\ funded + v <= MaxFunded
  /\ balance' = balance + v
  /\ funded' = funded + v
  /\ UNCHANGED <<now, ownership, config, pendingApprovals, frames,
                 hires, denied, ledger>>

\* Time passes between transactions, never within one.
Tick ==
  /\ frames = <<>>
  /\ now < MaxNow
  /\ now' = now + 1
  /\ UNCHANGED <<ownership, config, pendingApprovals, balance, frames,
                 funded, hires, denied, ledger>>

OwnerStep ==
  \/ \E o \in Handover : TransferOwnership(o)
  \/ AcceptOwnership
  \/ RenounceOwnership
  \/ \E k \in SessionKeys :
       \/ \E p \in HirePolicies : HireAgent(k, p) \/ UpdatePolicy(k, p)
       \/ FreezeAgent(k)
       \/ UnfreezeAgent(k)
  \/ \E r \in Routers, known \in BOOLEAN : SetKnownRouter(r, known)
  \/ \E id \in 1..MaxProposals : Approve(id) \/ Deny(id)

\* What the price feed may say a call is worth: nothing, for no ether.
DollarValues(call) == IF call.value = 0 THEN {0} ELSE UsdValues

SessionStep ==
  \E k \in SessionKeys, call \in Calls, tier \in Tier :
    \E usd \in DollarValues(call) :
      \/ Execute(k, call, tier, usd)
      \/ TryExecute(k, call, tier, usd)
      \/ Propose(k, call, tier, usd)

Next ==
  \/ OwnerStep
  \/ SessionStep
  \/ CallSucceeds
  \/ CallFails
  \/ \E v \in Deposits : Fund(v)
  \/ Tick

Spec == Init /\ [][Next]_vars
=============================================================================
