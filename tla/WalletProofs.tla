---------------------------- MODULE WalletProofs ----------------------------
(***************************************************************************)
(* Theorems about the wallet, for every set of agents and calls and every  *)
(* value of the bounds: its types, the queue of proposals, that the wallet *)
(* implements the abstract queue, and its books: its ether, what it says it *)
(* spent, and what it can spend in a day.                                  *)
(***************************************************************************)
EXTENDS WalletProperties, SequenceTheorems, FiniteSetTheorems, TLAPS

\* TypeOK with the record of the storage taken apart, one conjunct a field.
Typed ==
  /\ now \in Nat
  /\ owner \in Owners \cup {ZeroAddress}
  /\ pendingOwner \in Owners \cup {ZeroAddress}
  /\ policies \in [SessionKeys -> AgentPolicy]
  /\ isHired \in [SessionKeys -> BOOLEAN]
  /\ knownRouters \in SUBSET Routers
  /\ pendingApprovals \in Seq(PendingApproval)
  /\ balance \in Nat
  /\ funded \in Nat
  /\ hires \in [SessionKeys -> Nat]
  /\ denied \in SUBSET Nat
  /\ ledger \in Seq(Entry)
  /\ frames \in Seq(Storage)

LEMMA TypedIsTypeOK == Typed <=> TypeOK
BY DEF Typed, TypeOK, CurrentStorage, Storage

\* What the wallet stores for a key after a charge is a policy again.
LEMMA ChargeIsPolicy ==
  ASSUME NEW p \in AgentPolicy, NEW usd \in Nat, NEW t \in Nat
  PROVE  /\ Charge(p, usd, t) \in AgentPolicy
         /\ Charge(p, usd, t).dailyCapUsd = p.dailyCapUsd
         /\ Charge(p, usd, t).epochStart = RolledEpochStart(p, t)
         /\ Charge(p, usd, t).spentThisEpoch = RolledSpent(p, t) + usd
<1> DEFINE start == RolledEpochStart(p, t)
           spent == RolledSpent(p, t) + usd
<1>1. start \in Nat /\ spent \in Nat
  BY DEF AgentPolicy, RolledEpochStart, RolledSpent
<1>2. Charge(p, usd, t) = [p EXCEPT !.epochStart = start, !.spentThisEpoch = spent]
  BY DEF Charge
<1> HIDE DEF start, spent
<1>3. /\ [p EXCEPT !.epochStart = start, !.spentThisEpoch = spent] \in AgentPolicy
      /\ [p EXCEPT !.epochStart = start, !.spentThisEpoch = spent].dailyCapUsd
           = p.dailyCapUsd
      /\ [p EXCEPT !.epochStart = start, !.spentThisEpoch = spent].epochStart = start
      /\ [p EXCEPT !.epochStart = start, !.spentThisEpoch = spent].spentThisEpoch = spent
  BY <1>1 DEF AgentPolicy
<1> QED
  BY <1>2, <1>3 DEF start, spent

\* Overwriting the fields a policy does not take from the calldata.
LEMMA OverwriteIsPolicy ==
  ASSUME NEW p \in AgentPolicy, NEW s \in Nat, NEW t \in Nat, NEW f \in BOOLEAN
  PROVE  [p EXCEPT !.epochStart = s, !.spentThisEpoch = t, !.frozen = f] \in AgentPolicy
BY DEF AgentPolicy

\* Freezing or unfreezing a policy leaves a policy.
LEMMA FrozenIsPolicy ==
  ASSUME NEW p \in AgentPolicy, NEW f \in BOOLEAN
  PROVE  [p EXCEPT !.frozen = f] \in AgentPolicy
BY DEF AgentPolicy

\* A resolved proposal is a proposal.
LEMMA ResolvedIsApproval ==
  ASSUME NEW a \in PendingApproval
  PROVE  [a EXCEPT !.resolved = TRUE] \in PendingApproval
BY DEF PendingApproval

\* The start of an external call keeps every variable it assigns in its type.
LEMMA StartCallTyped ==
  ASSUME Typed, NEW k \in SessionKeys, NEW id \in Nat, NEW call \in Call,
         NEW usd \in Nat, StartCall(k, id, call, usd)
  PROVE  /\ policies' \in [SessionKeys -> AgentPolicy]
         /\ balance' \in Nat
         /\ ledger' \in Seq(Entry)
         /\ frames' \in Seq(Storage)
<1> DEFINE charged == Charge(policies[k], usd, now)
           e == [key |-> k, id |-> id, call |-> call, usd |-> usd, at |-> now,
                 hire |-> hires[k], epoch |-> charged.epochStart,
                 total |-> charged.spentThisEpoch, cap |-> charged.dailyCapUsd]
<1>1. policies[k] \in AgentPolicy /\ now \in Nat /\ hires[k] \in Nat
  BY DEF Typed
<1>2. charged \in AgentPolicy
  BY <1>1, ChargeIsPolicy
<1>3. e \in Entry
  BY <1>1, <1>2 DEF Entry, AgentPolicy
<1>4. /\ policies' = [policies EXCEPT ![k] = charged]
      /\ ledger' = Append(ledger, e)
      /\ balance' = balance - call.value
      /\ balance >= call.value
      /\ frames' = Append(frames, CurrentStorage)
  BY DEF StartCall
<1>5. CurrentStorage \in Storage
  BY TypedIsTypeOK DEF TypeOK
<1>6. policies' \in [SessionKeys -> AgentPolicy]
  BY <1>2, <1>4 DEF Typed
<1>7. ledger' \in Seq(Entry)
  BY <1>3, <1>4 DEF Typed
<1>8. balance' \in Nat
  BY <1>4 DEF Typed, Call
<1>9. frames' \in Seq(Storage)
  BY <1>4, <1>5 DEF Typed
<1> QED
  BY <1>6, <1>7, <1>8, <1>9

LEMMA EnqueueTyped ==
  ASSUME Typed, NEW k \in SessionKeys, NEW call \in Call, NEW usd \in Nat,
         EnqueueProposal(k, call, usd)
  PROVE  Typed'
<1>1. [sessionKey |-> k, call |-> call, usdValue |-> usd,
       kind |-> KindOf(knownRouters, call), resolved |-> FALSE] \in PendingApproval
  BY DEF PendingApproval, KindOf
<1> QED
  BY <1>1 DEF Typed, EnqueueProposal, ownership, config

\* The type invariant: every step keeps every variable in its type.
\* Whatever the price feed says is a natural number.
LEMMA ValuesAreNat ==
  ASSUME NEW call, NEW usd \in DollarValues(call)
  PROVE  usd \in Nat
<1>1. UsdValues \subseteq Nat
  BY WalletAssumption
<1>2. CASE call.value = 0
  BY <1>2 DEF DollarValues
<1>3. CASE call.value # 0
  BY <1>1, <1>3 DEF DollarValues
<1> QED
  BY <1>2, <1>3

LEMMA TypedStep == Typed /\ [Next]_vars => Typed'
<1> SUFFICES ASSUME Typed, [Next]_vars
             PROVE  Typed'
  OBVIOUS
<1> USE WalletAssumption
<1>1. ASSUME NEW o \in Handover, TransferOwnership(o)
      PROVE  Typed'
  BY <1>1 DEF Typed, TransferOwnership, config
<1>2. CASE AcceptOwnership
  BY <1>2 DEF Typed, AcceptOwnership, config
<1>3. CASE RenounceOwnership
  BY <1>3 DEF Typed, RenounceOwnership, config
<1>4. ASSUME NEW k \in SessionKeys, NEW p \in HirePolicies, HireAgent(k, p)
      PROVE  Typed'
  <2>1. HiredPolicy(p) \in AgentPolicy
    BY OverwriteIsPolicy DEF HiredPolicy, Typed
  <2> QED
    BY <1>4, <2>1 DEF Typed, HireAgent, ownership
<1>5. ASSUME NEW k \in SessionKeys, NEW p \in HirePolicies, UpdatePolicy(k, p)
      PROVE  Typed'
  <2>1. /\ policies[k].epochStart \in Nat
        /\ policies[k].spentThisEpoch \in Nat
        /\ policies[k].frozen \in BOOLEAN
    BY DEF AgentPolicy, Typed
  <2>2. UpdatedPolicy(k, p) \in AgentPolicy
    BY <2>1, OverwriteIsPolicy DEF UpdatedPolicy
  <2> QED
    BY <1>5, <2>2 DEF Typed, UpdatePolicy, ownership
<1>6. ASSUME NEW k \in SessionKeys, NEW f \in BOOLEAN, SetFrozen(k, f)
      PROVE  Typed'
  <2>1. [policies[k] EXCEPT !.frozen = f] \in AgentPolicy
    BY FrozenIsPolicy DEF Typed
  <2>2. policies' = [policies EXCEPT ![k] = [policies[k] EXCEPT !.frozen = f]]
    BY <1>6 DEF SetFrozen
  <2> QED
    BY <1>6, <2>1, <2>2 DEF Typed, SetFrozen, ownership
<1>7. ASSUME NEW r \in Routers, NEW b \in BOOLEAN, SetKnownRouter(r, b)
      PROVE  Typed'
  BY <1>7 DEF Typed, SetKnownRouter, ownership
<1>8. ASSUME NEW id \in 1..MaxProposals, Approve(id)
      PROVE  Typed'
  <2> DEFINE a == pendingApprovals[id]
  <2>1. a \in PendingApproval /\ id \in Nat
    BY <1>8 DEF Typed, Approve, IsOpen
  <2>2. StartCall(a.sessionKey, id, a.call, a.usdValue)
    BY <1>8 DEF Approve
  <2>3. pendingApprovals' \in Seq(PendingApproval)
    <3>1. [a EXCEPT !.resolved = TRUE] \in PendingApproval
      BY <2>1, ResolvedIsApproval
    <3>2. pendingApprovals' =
            [pendingApprovals EXCEPT ![id] = [a EXCEPT !.resolved = TRUE]]
      BY <1>8 DEF Approve
    <3> QED
      BY <3>1, <3>2, <1>8 DEF Typed, Approve, IsOpen
  <2>4. a.sessionKey \in SessionKeys /\ a.call \in Call /\ a.usdValue \in Nat
    BY <2>1 DEF PendingApproval
  <2>5. /\ policies' \in [SessionKeys -> AgentPolicy]
        /\ balance' \in Nat
        /\ ledger' \in Seq(Entry)
        /\ frames' \in Seq(Storage)
    BY <2>1, <2>2, <2>4, StartCallTyped
  <2> QED
    BY <1>8, <2>3, <2>5 DEF Typed, Approve, ownership
<1>9. ASSUME NEW id \in 1..MaxProposals, Deny(id)
      PROVE  Typed'
  <2> DEFINE a == pendingApprovals[id]
  <2>1. [a EXCEPT !.resolved = TRUE] \in PendingApproval
    BY <1>9, ResolvedIsApproval DEF Typed, Deny, IsOpen
  <2>2. pendingApprovals' =
          [pendingApprovals EXCEPT ![id] = [a EXCEPT !.resolved = TRUE]]
    BY <1>9 DEF Deny
  <2> QED
    BY <1>9, <2>1, <2>2 DEF Typed, Deny, IsOpen, ownership, config
<1>10. ASSUME NEW k \in SessionKeys, NEW call \in Calls, NEW usd \in Nat,
              CommitAndCall(k, call, usd)
       PROVE  Typed'
  <2>1. /\ policies' \in [SessionKeys -> AgentPolicy]
        /\ balance' \in Nat
        /\ ledger' \in Seq(Entry)
        /\ frames' \in Seq(Storage)
    BY <1>10, StartCallTyped DEF CommitAndCall, NoId
  <2> QED
    BY <1>10, <2>1 DEF Typed, CommitAndCall, ownership
<1>11. ASSUME NEW k \in SessionKeys, NEW call \in Calls, NEW usd \in Nat,
              EnqueueProposal(k, call, usd)
       PROVE  Typed'
  BY <1>11, EnqueueTyped
<1>12. CASE CallSucceeds
  BY <1>12 DEF Typed, CallSucceeds, ownership, config
<1>13. CASE CallFails
  <2> DEFINE s == frames[Len(frames)]
  <2>1. s \in Storage
    BY <1>13 DEF Typed, CallFails
  <2>2. /\ owner' = s.owner /\ pendingOwner' = s.pendingOwner
        /\ policies' = s.policies /\ isHired' = s.isHired
        /\ knownRouters' = s.knownRouters
        /\ pendingApprovals' = s.pendingApprovals
        /\ balance' = s.balance /\ funded' = s.funded
        /\ hires' = s.hires /\ denied' = s.denied /\ ledger' = s.ledger
    BY <1>13 DEF CallFails
  <2>3. now' \in Nat /\ frames' \in Seq(Storage)
    BY <1>13 DEF Typed, CallFails
  <2> HIDE DEF s
  <2> QED
    BY <2>1, <2>2, <2>3 DEF Typed, Storage
<1>14. ASSUME NEW v \in Deposits, Fund(v)
       PROVE  Typed'
  BY <1>14 DEF Typed, Fund, ownership, config
<1>15. CASE Tick
  BY <1>15 DEF Typed, Tick, ownership, config
<1>16. CASE UNCHANGED vars
  BY <1>16 DEF Typed, vars, ownership, config
<1>17. CASE OwnerStep
  BY <1>1, <1>2, <1>3, <1>4, <1>5, <1>6, <1>7, <1>8, <1>9, <1>17
     DEF OwnerStep, FreezeAgent, UnfreezeAgent
<1>18. CASE SessionStep
  <2> SUFFICES ASSUME NEW k \in SessionKeys, NEW call \in Calls, NEW tier \in Tier,
                      NEW usd \in DollarValues(call),
                      \/ Execute(k, call, tier, usd)
                      \/ TryExecute(k, call, tier, usd)
                      \/ Propose(k, call, tier, usd)
               PROVE  Typed'
    BY <1>18 DEF SessionStep
  <2>1. usd \in Nat
    BY ValuesAreNat
  <2> QED
    BY <2>1, <1>10, <1>11, <1>16 DEF Execute, TryExecute, Propose
<1> QED
  BY <1>12, <1>13, <1>14, <1>15, <1>16, <1>17, <1>18 DEF Next

\* Every variable of the wallet stays in its type, in particular the balance
\* never goes below zero.
THEOREM TypeCorrect == Spec => []TypeOK
<1>1. Init => Typed
  BY WalletAssumption DEF Init, Typed, NoPolicy, AgentPolicy, Tier
<1> QED
  BY <1>1, TypedStep, TypedIsTypeOK, PTL DEF Spec

-----------------------------------------------------------------------------
(***************************************************************************)
(* The cosign queue settles every proposal at most once, and the wallet    *)
(* implements the abstract queue, whatever its callees do.                 *)
(***************************************************************************)

(***************************************************************************)
(* The inductive invariant.  ProposalsSettleOnce alone is not inductive: a *)
(* failing call falls back to the storage on `frames`, so that storage has *)
(* to be in order too; and there is at most one, or a callee could resolve *)
(* under way what an outer call pays.                                      *)
(***************************************************************************)
QueueInv ==
  /\ Typed
  /\ Len(frames) <= 1
  /\ ProposalsSettleOnce
  /\ CallbacksOnlyAdd

queueVars == <<pendingApprovals, denied, ledger, frames>>

\* What a step can do to the queue.
LEMMA QueueSteps ==
  ASSUME Typed, [Next]_vars
  PROVE  \/ UNCHANGED queueVars
         \/ \E k \in SessionKeys, call \in Call, usd \in Nat :
              EnqueueProposal(k, call, usd)
         \/ \E k \in SessionKeys, call \in Call, usd \in Nat :
              NonReentrant /\ CommitAndCall(k, call, usd)
         \/ \E id \in Nat : Approve(id) \/ Deny(id)
         \/ CallSucceeds
         \/ CallFails
<1> USE DEF queueVars
<1>1. CASE OwnerStep
  <2>1. \/ UNCHANGED queueVars
        \/ \E id \in 1..MaxProposals : Approve(id) \/ Deny(id)
    BY <1>1 DEF OwnerStep, TransferOwnership, AcceptOwnership, RenounceOwnership,
                HireAgent, UpdatePolicy, FreezeAgent, UnfreezeAgent, SetFrozen,
                SetKnownRouter
  <2> QED
    BY <2>1
<1>2. CASE SessionStep
  <2>1. PICK k \in SessionKeys, call \in Calls, tier \in Tier :
          \E usd \in DollarValues(call) :
            \/ Execute(k, call, tier, usd)
            \/ TryExecute(k, call, tier, usd)
            \/ Propose(k, call, tier, usd)
    BY <1>2 DEF SessionStep
  <2>2. PICK usd \in DollarValues(call) :
            \/ Execute(k, call, tier, usd)
            \/ TryExecute(k, call, tier, usd)
            \/ Propose(k, call, tier, usd)
    BY <2>1
  <2>3. usd \in Nat /\ call \in Call
    BY WalletAssumption, ValuesAreNat
  <2>4. \/ UNCHANGED vars
        \/ EnqueueProposal(k, call, usd)
        \/ NonReentrant /\ CommitAndCall(k, call, usd)
    BY <2>2 DEF Execute, TryExecute, Propose
  <2> QED
    BY <2>3, <2>4 DEF vars
<1>3. CASE \E v \in Deposits : Fund(v)
  BY <1>3 DEF Fund
<1>4. CASE Tick
  BY <1>4 DEF Tick
<1>5. CASE UNCHANGED vars
  BY <1>5 DEF vars
<1> QED
  BY <1>1, <1>2, <1>3, <1>4, <1>5 DEF Next

-----------------------------------------------------------------------------
(***************************************************************************)
(* What each kind of step keeps of SettlesOnce, over plain sequences.      *)
(***************************************************************************)

\* Marking a proposal resolved changes nothing else.
LEMMA ResolvingKeepsTheRest ==
  ASSUME NEW A \in Seq(PendingApproval), NEW id \in DOMAIN A
  PROVE  LET R == [A EXCEPT ![id].resolved = TRUE] IN
         /\ R \in Seq(PendingApproval) /\ Len(R) = Len(A)
         /\ DOMAIN R = DOMAIN A
         /\ \A i \in DOMAIN A : i # id => R[i] = A[i]
         /\ R[id].resolved
         /\ \A i \in DOMAIN A : /\ R[i].sessionKey = A[i].sessionKey
                               /\ R[i].call = A[i].call
                               /\ R[i].usdValue = A[i].usdValue
<1> DEFINE a == A[id]
           r == [a EXCEPT !.resolved = TRUE]
           R == [A EXCEPT ![id] = r]
<1>1. a \in PendingApproval
  OBVIOUS
<1>2. /\ r \in PendingApproval
      /\ r.resolved /\ r.sessionKey = a.sessionKey
      /\ r.call = a.call /\ r.usdValue = a.usdValue
  BY <1>1 DEF PendingApproval
<1> HIDE DEF r
<1>3. /\ R \in Seq(PendingApproval) /\ Len(R) = Len(A)
      /\ DOMAIN R = DOMAIN A
      /\ R[id] = r
      /\ \A i \in DOMAIN A : i # id => R[i] = A[i]
  BY <1>2
<1>4. [A EXCEPT ![id].resolved = TRUE] = R
  BY DEF r
<1> QED
  BY <1>2, <1>3, <1>4

\* A new proposal settles nothing.
LEMMA FilingSettlesNothing ==
  ASSUME NEW A \in Seq(PendingApproval), NEW D \in SUBSET Nat, NEW B \in Seq(Entry),
         NEW a \in PendingApproval, a.resolved = FALSE, SettlesOnce(A, D, B)
  PROVE  SettlesOnce(Append(A, a), D, B)
<1>1. /\ DOMAIN Append(A, a) = DOMAIN A \cup {Len(A) + 1}
      /\ \A i \in DOMAIN A : Append(A, a)[i] = A[i]
      /\ Append(A, a)[Len(A) + 1] = a
  OBVIOUS
<1> QED
  BY <1>1 DEF SettlesOnce

\* Denying an open proposal settles that one.
LEMMA DenyingSettlesOne ==
  ASSUME NEW A \in Seq(PendingApproval), NEW D \in SUBSET Nat, NEW B \in Seq(Entry),
         NEW id \in DOMAIN A, ~A[id].resolved, SettlesOnce(A, D, B)
  PROVE  SettlesOnce([A EXCEPT ![id].resolved = TRUE], D \cup {id}, B)
<1> DEFINE R == [A EXCEPT ![id].resolved = TRUE]
<1>1. /\ DOMAIN R = DOMAIN A
      /\ \A i \in DOMAIN A : i # id => R[i] = A[i]
      /\ R[id].resolved
      /\ \A i \in DOMAIN A : /\ R[i].sessionKey = A[i].sessionKey
                            /\ R[i].call = A[i].call
                            /\ R[i].usdValue = A[i].usdValue
  BY ResolvingKeepsTheRest
<1>2. \A i \in DOMAIN B : B[i].id # NoId => B[i].id # id
  BY DEF SettlesOnce
<1> HIDE DEF R
<1>3. SettlesOnce(R, D \cup {id}, B)
  BY <1>1, <1>2 DEF SettlesOnce
<1> QED
  BY <1>3 DEF R

\* A payment outside the queue settles nothing.
LEMMA DirectPaymentSettlesNothing ==
  ASSUME NEW A \in Seq(PendingApproval), NEW D \in SUBSET Nat, NEW B \in Seq(Entry),
         NEW e \in Entry, e.id = NoId, SettlesOnce(A, D, B)
  PROVE  SettlesOnce(A, D, Append(B, e))
<1>1. /\ DOMAIN Append(B, e) = DOMAIN B \cup {Len(B) + 1}
      /\ \A i \in DOMAIN B : Append(B, e)[i] = B[i]
      /\ Append(B, e)[Len(B) + 1] = e
  OBVIOUS
<1>2. \A id \in Nat : (\E i \in DOMAIN B : B[i].id = id)
        => \E i \in DOMAIN Append(B, e) : Append(B, e)[i].id = id
  BY <1>1
<1> QED
  BY <1>1, <1>2 DEF SettlesOnce

\* Paying an open proposal settles that one.
LEMMA ApprovingSettlesOne ==
  ASSUME NEW A \in Seq(PendingApproval), NEW D \in SUBSET Nat, NEW B \in Seq(Entry),
         NEW id \in DOMAIN A, ~A[id].resolved, SettlesOnce(A, D, B),
         NEW e \in Entry, e.id = id, e.key = A[id].sessionKey,
         e.call = A[id].call, e.usd = A[id].usdValue
  PROVE  SettlesOnce([A EXCEPT ![id].resolved = TRUE], D, Append(B, e))
<1> DEFINE R == [A EXCEPT ![id].resolved = TRUE]
           C == Append(B, e)
<1>1. /\ DOMAIN R = DOMAIN A
      /\ \A i \in DOMAIN A : i # id => R[i] = A[i]
      /\ R[id].resolved
      /\ \A i \in DOMAIN A : /\ R[i].sessionKey = A[i].sessionKey
                            /\ R[i].call = A[i].call
                            /\ R[i].usdValue = A[i].usdValue
  BY ResolvingKeepsTheRest
<1>2. /\ DOMAIN C = DOMAIN B \cup {Len(B) + 1}
      /\ \A i \in DOMAIN B : C[i] = B[i]
      /\ C[Len(B) + 1] = e
      /\ Len(B) + 1 \notin DOMAIN B
  OBVIOUS
<1>3. \A i \in DOMAIN B : B[i].id # NoId => B[i].id # id
  BY DEF SettlesOnce
<1>4. id \notin D /\ id # NoId
  BY DEF SettlesOnce, NoId
<1> HIDE DEF R, C
<1>5. \A i, j \in DOMAIN C : C[i].id # NoId /\ C[i].id = C[j].id => i = j
  BY <1>2, <1>3, <1>4 DEF SettlesOnce
<1>6. \A i \in DOMAIN C : C[i].id # NoId =>
        /\ C[i].id \in DOMAIN R \ D
        /\ R[C[i].id].resolved
        /\ R[C[i].id].sessionKey = C[i].key
        /\ R[C[i].id].call = C[i].call
        /\ R[C[i].id].usdValue = C[i].usd
  BY <1>1, <1>2, <1>3, <1>4 DEF SettlesOnce
<1>7. \A i \in DOMAIN R : R[i].resolved => i \in D \/ \E j \in DOMAIN C : C[j].id = i
  BY <1>1, <1>2 DEF SettlesOnce
<1>8. \A i \in D : i \in DOMAIN R /\ R[i].resolved
  BY <1>1, <1>4 DEF SettlesOnce
<1>9. SettlesOnce(R, D, C)
  BY <1>5, <1>6, <1>7, <1>8 DEF SettlesOnce
<1> QED
  BY <1>9 DEF R, C

-----------------------------------------------------------------------------
\* What the start of a call appends to the ledger and to the frames.
LEMMA StartCallAppends ==
  ASSUME Typed, NEW k \in SessionKeys, NEW id \in Nat, NEW call \in Call,
         NEW usd \in Nat, StartCall(k, id, call, usd)
  PROVE  \E e \in Entry :
           /\ e.id = id /\ e.key = k /\ e.call = call /\ e.usd = usd
           /\ ledger' = Append(ledger, e)
           /\ frames' = Append(frames, CurrentStorage)
<1> DEFINE charged == Charge(policies[k], usd, now)
           e == [key |-> k, id |-> id, call |-> call, usd |-> usd, at |-> now,
                 hire |-> hires[k], epoch |-> charged.epochStart,
                 total |-> charged.spentThisEpoch, cap |-> charged.dailyCapUsd]
<1>1. policies[k] \in AgentPolicy /\ now \in Nat /\ hires[k] \in Nat
  BY DEF Typed
<1>2. charged \in AgentPolicy
  BY <1>1, ChargeIsPolicy
<1>3. e \in Entry
  BY <1>1, <1>2 DEF Entry, AgentPolicy
<1>4. ledger' = Append(ledger, e) /\ frames' = Append(frames, CurrentStorage)
  BY DEF StartCall
<1> QED
  BY <1>3, <1>4

\* A call that starts pushes a storage in order, and adds one entry to it.
LEMMA FirstFrame ==
  ASSUME Typed, ProposalsSettleOnce, frames = <<>>,
         NEW e \in Entry, ledger' = Append(ledger, e),
         frames' = Append(frames, CurrentStorage),
         DOMAIN pendingApprovals' = DOMAIN pendingApprovals,
         Len(pendingApprovals') = Len(pendingApprovals),
         \A i \in DOMAIN pendingApprovals :
           RequestOf(pendingApprovals'[i]) = RequestOf(pendingApprovals[i]),
         denied' = denied,
         e.id # NoId => e.id \in DOMAIN pendingApprovals
                          /\ ~pendingApprovals[e.id].resolved
  PROVE  Len(frames') <= 1 /\ CallbacksOnlyAdd'
<1>1. /\ DOMAIN frames' = {1} /\ Len(frames') = 1
      /\ frames'[1] = CurrentStorage
  OBVIOUS
<1>2. /\ CurrentStorage.pendingApprovals = pendingApprovals
      /\ CurrentStorage.denied = denied
      /\ CurrentStorage.ledger = ledger
  BY DEF CurrentStorage
<1>3. /\ Len(ledger') = Len(ledger) + 1
      /\ \A i \in DOMAIN ledger : ledger'[i] = ledger[i]
      /\ ledger'[Len(ledger')] = e
  BY DEF Typed
<1> QED
  BY <1>1, <1>2, <1>3 DEF CallbacksOnlyAdd, ProposalsSettleOnce, Typed

\* The storages on the frames are storages.
LEMMA FramesAreStorages ==
  ASSUME Typed, NEW n \in DOMAIN frames
  PROVE  /\ frames[n].pendingApprovals \in Seq(PendingApproval)
         /\ frames[n].denied \in SUBSET Nat
         /\ frames[n].ledger \in Seq(Entry)
<1>1. frames[n] \in Storage
  BY DEF Typed
<1> QED
  BY <1>1 DEF Storage

LEMMA EnqueueKeepsInv ==
  ASSUME QueueInv, Typed', NEW k \in SessionKeys, NEW call \in Call, NEW usd \in Nat,
         EnqueueProposal(k, call, usd)
  PROVE  QueueInv'
<1> DEFINE a == [sessionKey |-> k, call |-> call, usdValue |-> usd,
                 kind |-> KindOf(knownRouters, call), resolved |-> FALSE]
<1>1. a \in PendingApproval /\ a.resolved = FALSE
  BY DEF PendingApproval, KindOf
<1>2. /\ pendingApprovals' = Append(pendingApprovals, a)
      /\ UNCHANGED <<denied, ledger, frames>>
  BY DEF EnqueueProposal
<1> HIDE DEF a
<1>3. ProposalsSettleOnce'
  BY <1>1, <1>2, FilingSettlesNothing DEF QueueInv, Typed, ProposalsSettleOnce
<1>4. /\ Len(pendingApprovals') = Len(pendingApprovals) + 1
      /\ \A i \in DOMAIN pendingApprovals : pendingApprovals'[i] = pendingApprovals[i]
  BY <1>2 DEF QueueInv, Typed
<1>5. CallbacksOnlyAdd'
  <2> SUFFICES ASSUME NEW n \in DOMAIN frames
               PROVE  LET s == frames[n] IN
                      /\ Len(s.pendingApprovals) <= Len(pendingApprovals')
                      /\ \A i \in DOMAIN s.pendingApprovals :
                           RequestOf(pendingApprovals'[i]) = RequestOf(s.pendingApprovals[i])
    BY <1>2 DEF QueueInv, CallbacksOnlyAdd
  <2> DEFINE s == frames[n]
  <2>1. s.pendingApprovals \in Seq(PendingApproval)
    BY FramesAreStorages DEF QueueInv
  <2>2. /\ Len(s.pendingApprovals) <= Len(pendingApprovals)
        /\ \A i \in DOMAIN s.pendingApprovals :
             RequestOf(pendingApprovals[i]) = RequestOf(s.pendingApprovals[i])
    BY DEF QueueInv, CallbacksOnlyAdd
  <2>3. Len(pendingApprovals) \in Nat
        /\ DOMAIN pendingApprovals = 1..Len(pendingApprovals)
    BY DEF QueueInv, Typed
  <2> HIDE DEF s
  <2>4. \A i \in DOMAIN s.pendingApprovals : i \in DOMAIN pendingApprovals
    BY <2>1, <2>2, <2>3
  <2>5. Len(s.pendingApprovals) <= Len(pendingApprovals')
    BY <1>4, <2>1, <2>2, <2>3
  <2>6. \A i \in DOMAIN s.pendingApprovals :
           RequestOf(pendingApprovals'[i]) = RequestOf(s.pendingApprovals[i])
    BY <1>4, <2>2, <2>4
  <2> QED
    BY <2>5, <2>6 DEF s
<1> QED
  BY <1>2, <1>3, <1>5 DEF QueueInv

LEMMA DenyKeepsInv ==
  ASSUME QueueInv, Typed', NEW id \in Nat, Deny(id)
  PROVE  QueueInv'
<1>1. /\ id \in DOMAIN pendingApprovals /\ ~pendingApprovals[id].resolved
      /\ pendingApprovals' = [pendingApprovals EXCEPT ![id].resolved = TRUE]
      /\ denied' = denied \cup {id}
      /\ UNCHANGED <<ledger, frames>>
  BY DEF Deny, IsOpen
<1>2. ProposalsSettleOnce'
  BY <1>1, DenyingSettlesOne DEF QueueInv, Typed, ProposalsSettleOnce
<1>3. /\ Len(pendingApprovals') = Len(pendingApprovals)
      /\ DOMAIN pendingApprovals' = DOMAIN pendingApprovals
      /\ \A i \in DOMAIN pendingApprovals :
           RequestOf(pendingApprovals'[i]) = RequestOf(pendingApprovals[i])
  BY <1>1, ResolvingKeepsTheRest DEF QueueInv, Typed, RequestOf
<1>4. CallbacksOnlyAdd'
  <2> SUFFICES ASSUME NEW n \in DOMAIN frames
               PROVE  /\ Len(frames[n].pendingApprovals) <= Len(pendingApprovals')
                      /\ \A i \in DOMAIN frames[n].pendingApprovals :
                           RequestOf(pendingApprovals'[i])
                             = RequestOf(frames[n].pendingApprovals[i])
                      /\ frames[n].denied \subseteq denied'
    <3>1. UNCHANGED <<ledger, frames>>
      BY <1>1
    <3> QED
      BY <3>1 DEF QueueInv, CallbacksOnlyAdd
  <2> DEFINE s == frames[n]
  <2>1. s.pendingApprovals \in Seq(PendingApproval)
    BY FramesAreStorages DEF QueueInv
  <2>2. /\ Len(s.pendingApprovals) <= Len(pendingApprovals)
        /\ \A i \in DOMAIN s.pendingApprovals :
             RequestOf(pendingApprovals[i]) = RequestOf(s.pendingApprovals[i])
        /\ s.denied \subseteq denied
    BY DEF QueueInv, CallbacksOnlyAdd
  <2>3. Len(pendingApprovals) \in Nat
        /\ DOMAIN pendingApprovals = 1..Len(pendingApprovals)
    BY DEF QueueInv, Typed
  <2> HIDE DEF s
  <2>4. \A i \in DOMAIN s.pendingApprovals : i \in DOMAIN pendingApprovals
    BY <2>1, <2>2, <2>3
  <2> QED
    BY <1>1, <1>3, <2>2, <2>4 DEF s
<1> QED
  BY <1>1, <1>2, <1>4 DEF QueueInv

LEMMA CommitKeepsInv ==
  ASSUME QueueInv, Typed', NEW k \in SessionKeys, NEW call \in Call, NEW usd \in Nat,
         NonReentrant, CommitAndCall(k, call, usd)
  PROVE  QueueInv'
<1>1. PICK e \in Entry :
        /\ e.id = NoId
        /\ ledger' = Append(ledger, e)
        /\ frames' = Append(frames, CurrentStorage)
  BY StartCallAppends DEF QueueInv, CommitAndCall, NoId
<1>2. UNCHANGED <<pendingApprovals, denied>>
  BY DEF CommitAndCall
<1>3. ProposalsSettleOnce'
  BY <1>1, <1>2, DirectPaymentSettlesNothing DEF QueueInv, Typed, ProposalsSettleOnce
<1>4. Len(frames') <= 1 /\ CallbacksOnlyAdd'
  BY <1>1, <1>2, FirstFrame DEF QueueInv, NonReentrant
<1> QED
  BY <1>3, <1>4 DEF QueueInv

LEMMA ApproveKeepsInv ==
  ASSUME QueueInv, Typed', NEW id \in Nat, Approve(id)
  PROVE  QueueInv'
<1> DEFINE a == pendingApprovals[id]
<1>1. /\ frames = <<>>
      /\ id \in DOMAIN pendingApprovals /\ ~a.resolved
      /\ StartCall(a.sessionKey, id, a.call, a.usdValue)
      /\ pendingApprovals' = [pendingApprovals EXCEPT ![id].resolved = TRUE]
      /\ UNCHANGED denied
  BY DEF Approve, IsOpen, NonReentrant
<1>2. a.sessionKey \in SessionKeys /\ a.call \in Call /\ a.usdValue \in Nat
  BY <1>1 DEF QueueInv, Typed, PendingApproval
<1>3. PICK e \in Entry :
        /\ e.id = id /\ e.key = a.sessionKey /\ e.call = a.call /\ e.usd = a.usdValue
        /\ ledger' = Append(ledger, e)
        /\ frames' = Append(frames, CurrentStorage)
  BY <1>1, <1>2, StartCallAppends DEF QueueInv
<1>4. ProposalsSettleOnce'
  BY <1>1, <1>3, ApprovingSettlesOne DEF QueueInv, Typed, ProposalsSettleOnce
<1>5. /\ Len(pendingApprovals') = Len(pendingApprovals)
      /\ DOMAIN pendingApprovals' = DOMAIN pendingApprovals
      /\ \A i \in DOMAIN pendingApprovals :
           RequestOf(pendingApprovals'[i]) = RequestOf(pendingApprovals[i])
  BY <1>1, ResolvingKeepsTheRest DEF QueueInv, Typed, RequestOf
<1>6. Len(frames') <= 1 /\ CallbacksOnlyAdd'
  BY <1>1, <1>3, <1>5, FirstFrame DEF QueueInv
<1> QED
  BY <1>4, <1>6 DEF QueueInv

\* The end of a call leaves no call in flight.
LEMMA ReturnEmptiesFrames ==
  ASSUME QueueInv, CallSucceeds \/ CallFails
  PROVE  /\ Len(frames) = 1 /\ 1 \in DOMAIN frames
         /\ frames # <<>> /\ frames' = <<>>
<1>1. frames # <<>> /\ frames' = SubSeq(frames, 1, Len(frames) - 1)
  BY DEF CallSucceeds, CallFails
<1>2. frames \in Seq(Storage) /\ Len(frames) <= 1
  BY DEF QueueInv, Typed
<1>3. Len(frames) = 1 /\ 1 \in DOMAIN frames
  <2>1. Len(frames) \in Nat \ {0} /\ DOMAIN frames = 1..Len(frames)
    BY ONLY <1>1, <1>2, EmptySeq
  <2> QED
    BY ONLY <1>2, <2>1
<1>4. SubSeq(frames, 1, 0) = <<>>
  <2>1. 0 \in Int /\ 1 \in Int /\ 0 < 1
    OBVIOUS
  <2> QED
    BY ONLY <2>1, SubSeqEmpty, Zenon
<1>5. Len(frames) - 1 = 0
  BY <1>3
<1> QED
  BY ONLY <1>1, <1>3, <1>4, <1>5

LEMMA ReturnKeepsInv ==
  ASSUME QueueInv, Typed', CallSucceeds \/ CallFails
  PROVE  QueueInv'
<1>1. /\ Len(frames) = 1 /\ frames' = <<>>
      /\ 1 \in DOMAIN frames
  BY ReturnEmptiesFrames
<1>2. Len(frames') <= 1 /\ CallbacksOnlyAdd'
  BY <1>1 DEF CallbacksOnlyAdd
<1>3. ProposalsSettleOnce'
  <2>1. CASE CallSucceeds
    BY <2>1 DEF CallSucceeds, QueueInv, ProposalsSettleOnce
  <2>2. CASE CallFails
    <3>1. /\ pendingApprovals' = frames[1].pendingApprovals
          /\ denied' = frames[1].denied
          /\ ledger' = frames[1].ledger
      BY <1>1, <2>2 DEF CallFails
    <3>2. SettlesOnce(frames[1].pendingApprovals, frames[1].denied, frames[1].ledger)
      BY <1>1 DEF QueueInv, CallbacksOnlyAdd
    <3> QED
      BY <3>1, <3>2 DEF ProposalsSettleOnce
  <2> QED
    BY <2>1, <2>2
<1> QED
  BY <1>2, <1>3 DEF QueueInv

LEMMA QueueInvStep == QueueInv /\ [Next]_vars => QueueInv'
<1> SUFFICES ASSUME QueueInv, [Next]_vars
             PROVE  QueueInv'
  OBVIOUS
<1>1. Typed /\ Typed'
  BY TypedStep DEF QueueInv
<1>2. CASE UNCHANGED queueVars
  BY <1>1, <1>2 DEF queueVars, QueueInv, ProposalsSettleOnce, CallbacksOnlyAdd
<1>3. CASE \E k \in SessionKeys, call \in Call, usd \in Nat : EnqueueProposal(k, call, usd)
  BY <1>1, <1>3, EnqueueKeepsInv
<1>4. CASE \E k \in SessionKeys, call \in Call, usd \in Nat :
             NonReentrant /\ CommitAndCall(k, call, usd)
  BY <1>1, <1>4, CommitKeepsInv
<1>5. CASE \E id \in Nat : Approve(id) \/ Deny(id)
  BY <1>1, <1>5, ApproveKeepsInv, DenyKeepsInv
<1>6. CASE CallSucceeds \/ CallFails
  BY <1>1, <1>6, ReturnKeepsInv
<1> QED
  BY <1>1, <1>2, <1>3, <1>4, <1>5, <1>6, QueueSteps

LEMMA QueueInvInit == Init => QueueInv
<1> SUFFICES ASSUME Init
             PROVE  QueueInv
  OBVIOUS
<1>1. Typed
  BY WalletAssumption DEF Init, Typed, NoPolicy, AgentPolicy, Tier
<1> QED
  BY <1>1 DEF Init, QueueInv, ProposalsSettleOnce, SettlesOnce, CallbacksOnlyAdd

LEMMA QueueInvAlways == Spec => []QueueInv
BY QueueInvInit, QueueInvStep, PTL DEF Spec

\* Every proposal is settled at most once, by the payment of exactly what
\* was queued or by a denial, for any callee that calls back into the wallet.
THEOREM SettlesOnceAlways == Spec => []ProposalsSettleOnce
BY QueueInvAlways, PTL DEF QueueInv

\* A callback neither takes back nor rewords a proposal, nor touches the one
\* being paid.
THEOREM CallbacksOnlyAddAlways == Spec => []CallbacksOnlyAdd
BY QueueInvAlways, PTL DEF QueueInv

\* However the callee calls back in, a transaction pays once.
THEOREM OnePaymentATransaction == Spec => []NoPaymentWithinAPayment
<1>1. QueueInv => NoPaymentWithinAPayment
  <2> SUFFICES ASSUME QueueInv, frames # <<>>
               PROVE  Len(ledger) = Len(frames[1].ledger) + 1
    BY DEF NoPaymentWithinAPayment, QueueInv
  <2>1. 1 \in DOMAIN frames
    BY DEF QueueInv, Typed
  <2> QED
    BY <2>1 DEF QueueInv, CallbacksOnlyAdd
<1> QED
  BY <1>1, QueueInvAlways, PTL

-----------------------------------------------------------------------------
(***************************************************************************)
(* The wallet implements CosignQueue: with a call in flight it stands for  *)
(* the queue before the call, and the end of the call is the transaction.  *)
(***************************************************************************)

\* The requests of a queue are as many as its proposals.
LEMMA RequestsAreASequence ==
  ASSUME NEW A \in Seq(PendingApproval)
  PROVE  /\ RequestsOf(A) \in Seq(Asked)
         /\ Len(RequestsOf(A)) = Len(A)
         /\ DOMAIN RequestsOf(A) = DOMAIN A
         /\ \A i \in DOMAIN A : RequestsOf(A)[i] = RequestOf(A[i])
<1>1. /\ Len(A) \in Nat /\ DOMAIN A = 1..Len(A)
      /\ \A i \in 1..Len(A) : A[i] \in PendingApproval
  OBVIOUS
<1>2. ASSUME NEW a \in PendingApproval
      PROVE  RequestOf(a) \in Asked
  BY DEF RequestOf, PendingApproval, Asked
<1>3. RequestsOf(A) = [i \in 1..Len(A) |-> RequestOf(A[i])]
  BY <1>1 DEF RequestsOf
<1>4. RequestsOf(A) \in [1..Len(A) -> Asked]
  BY <1>1, <1>2, <1>3
<1> QED
  BY <1>1, <1>3, <1>4

\* The places in the queue that were paid, read off the ledger.
LEMMA PaidPlaces ==
  ASSUME NEW B \in Seq(Entry), NEW id
  PROVE  id \in {r.id : r \in ReceiptsOf(B)}
           <=> \E i \in DOMAIN B : B[i].id # NoId /\ B[i].id = id
<1>1. \A i, e : ReceiptOf(i, e).id = e.id
  BY DEF ReceiptOf
<1>2. \A r : r \in ReceiptsOf(B)
               <=> \E i \in DOMAIN B : B[i].id # NoId /\ r = ReceiptOf(i, B[i])
  BY DEF ReceiptsOf
<1>3. ASSUME NEW i \in DOMAIN B, B[i].id # NoId, B[i].id = id
      PROVE  id \in {r.id : r \in ReceiptsOf(B)}
  <2>1. ReceiptOf(i, B[i]) \in ReceiptsOf(B)
    BY <1>2, <1>3
  <2> QED
    BY <1>1, <1>3, <2>1
<1>4. ASSUME NEW r \in ReceiptsOf(B), r.id = id
      PROVE  \E i \in DOMAIN B : B[i].id # NoId /\ B[i].id = id
  BY <1>1, <1>2, <1>4
<1> QED
  BY <1>3, <1>4

\* The queue with proposals A, denials D and ledger B makes a transaction of
\* the abstract queue to A2, D2 and B2.
IsTransaction(A, D, B, A2, D2, B2) ==
  LET paid == {r.id : r \in ReceiptsOf(B)} IN
  /\ RequestsOf(A2) \in Seq(Asked)
  /\ Len(RequestsOf(A2)) >= Len(RequestsOf(A))
  /\ \A i \in DOMAIN RequestsOf(A) : RequestsOf(A2)[i] = RequestsOf(A)[i]
  /\ D \subseteq D2
  /\ D2 \ D \subseteq DOMAIN RequestsOf(A2) \ paid
  /\ \/ ReceiptsOf(B2) = ReceiptsOf(B)
     \/ \E r \in ReceiptsOf(B2) :
          /\ r.id \in DOMAIN RequestsOf(A) \ (paid \cup D) /\ r.id \notin D2
          /\ r.what = RequestsOf(A)[r.id]
          /\ ReceiptsOf(B2) = ReceiptsOf(B) \cup {r}

\* A queue that only grew, was denied more, and had at most one open proposal
\* paid has made a transaction of the abstract queue.
LEMMA GrowthIsTransaction ==
  ASSUME NEW A \in Seq(PendingApproval), NEW D \in SUBSET Nat, NEW B \in Seq(Entry),
         NEW A2 \in Seq(PendingApproval), NEW D2 \in SUBSET Nat, NEW B2 \in Seq(Entry),
         SettlesOnce(A, D, B), SettlesOnce(A2, D2, B2),
         Len(A) <= Len(A2),
         \A i \in DOMAIN A : RequestOf(A2[i]) = RequestOf(A[i]),
         D \subseteq D2,
         \/ B2 = B
         \/ /\ Len(B2) = Len(B) + 1
            /\ \A i \in DOMAIN B : B2[i] = B[i]
            /\ B2[Len(B2)].id # NoId =>
                 B2[Len(B2)].id \in DOMAIN A /\ ~A[B2[Len(B2)].id].resolved
  PROVE  IsTransaction(A, D, B, A2, D2, B2)
<1> DEFINE paid == {r.id : r \in ReceiptsOf(B)}
<1>1. \A id : id \in paid <=> \E i \in DOMAIN B : B[i].id # NoId /\ B[i].id = id
  BY PaidPlaces
<1> HIDE DEF paid
<1>2. /\ RequestsOf(A2) \in Seq(Asked)
      /\ Len(RequestsOf(A2)) >= Len(RequestsOf(A))
  BY RequestsAreASequence
<1>3. \A i \in DOMAIN RequestsOf(A) : RequestsOf(A2)[i] = RequestsOf(A)[i]
  <2>1. DOMAIN A = 1..Len(A) /\ DOMAIN A2 = 1..Len(A2) /\ Len(A) \in Nat /\ Len(A2) \in Nat
    OBVIOUS
  <2>2. \A i \in DOMAIN A : i \in DOMAIN A2
    BY <2>1
  <2> QED
    BY <2>2, RequestsAreASequence
<1>4. \A i \in DOMAIN B : /\ i \in DOMAIN B2 /\ B2[i] = B[i]
  <2>1. DOMAIN B = 1..Len(B) /\ DOMAIN B2 = 1..Len(B2) /\ Len(B) \in Nat /\ Len(B2) \in Nat
    OBVIOUS
  <2>2. CASE B2 = B
    BY <2>2
  <2>3. CASE Len(B2) = Len(B) + 1 /\ \A i \in DOMAIN B : B2[i] = B[i]
    BY ONLY <2>1, <2>3
  <2> QED
    BY <2>2, <2>3
<1>5. D2 \ D \subseteq DOMAIN RequestsOf(A2) \ paid
  <2> SUFFICES ASSUME NEW id \in D2, id \notin D
               PROVE  id \in DOMAIN A2 /\ id \notin paid
    BY RequestsAreASequence
  <2>1. id \in DOMAIN A2
    BY DEF SettlesOnce
  <2>2. ASSUME id \in paid
        PROVE  FALSE
    <3>1. PICK i \in DOMAIN B : B[i].id # NoId /\ B[i].id = id
      BY <1>1, <2>2
    <3>2. i \in DOMAIN B2 /\ B2[i].id # NoId /\ B2[i].id = id
      BY <1>4, <3>1
    <3> QED
      BY <3>2 DEF SettlesOnce
  <2> QED
    BY <2>1, <2>2
<1>6. \/ ReceiptsOf(B2) = ReceiptsOf(B)
      \/ \E r \in ReceiptsOf(B2) :
           /\ r.id \in DOMAIN RequestsOf(A) \ (paid \cup D) /\ r.id \notin D2
           /\ r.what = RequestsOf(A)[r.id]
           /\ ReceiptsOf(B2) = ReceiptsOf(B) \cup {r}
  <2>1. CASE B2 = B
    BY <2>1
  <2>2. CASE /\ Len(B2) = Len(B) + 1
             /\ \A i \in DOMAIN B : B2[i] = B[i]
             /\ B2[Len(B2)].id # NoId =>
                  B2[Len(B2)].id \in DOMAIN A /\ ~A[B2[Len(B2)].id].resolved
    <3> DEFINE n == Len(B2)
               e == B2[n]
    <3>1. DOMAIN B2 = DOMAIN B \cup {n} /\ n \notin DOMAIN B /\ n \in DOMAIN B2
      BY <2>2
    <3> HIDE DEF n
    <3>2. CASE e.id = NoId
      BY <1>4, <3>1, <3>2 DEF ReceiptsOf
    <3>3. CASE e.id # NoId
      <4>1. ReceiptsOf(B2) = ReceiptsOf(B) \cup {ReceiptOf(n, e)}
        BY <1>4, <3>1, <3>3 DEF ReceiptsOf
      <4>2. e.id \in DOMAIN A /\ ~A[e.id].resolved
        BY <2>2, <3>3 DEF n
      <4>3. e.id \notin D /\ e.id \notin D2
        BY <3>1, <3>3, <4>2 DEF SettlesOnce
      <4>4. e.id \notin paid
        BY <1>1, <4>2 DEF SettlesOnce
      <4>5. [key |-> e.key, call |-> e.call, usd |-> e.usd] = RequestOf(A2[e.id])
        BY <3>1, <3>3 DEF SettlesOnce, RequestOf
      <4>6. ReceiptOf(n, e).id = e.id /\ ReceiptOf(n, e).what = RequestsOf(A)[e.id]
        BY <4>2, <4>5, RequestsAreASequence DEF ReceiptOf
      <4>7. e.id \in DOMAIN RequestsOf(A) \ (paid \cup D)
        BY <4>2, <4>3, <4>4, RequestsAreASequence
      <4>8. ReceiptOf(n, e) \in ReceiptsOf(B2)
        BY <4>1
      <4> QED
        BY <4>1, <4>3, <4>6, <4>7, <4>8
    <3> QED
      BY <3>2, <3>3
  <2> QED
    BY <2>1, <2>2
<1> QED
  BY <1>2, <1>3, <1>5, <1>6 DEF paid, IsTransaction

-----------------------------------------------------------------------------
(***************************************************************************)
(* The refinement mapping.                                                 *)
(***************************************************************************)
LEMMA SettledAtRest ==
  ASSUME frames = <<>>
  PROVE  /\ Settled.pendingApprovals = pendingApprovals
         /\ Settled.denied = denied /\ Settled.ledger = ledger
BY DEF Settled, CurrentStorage

LEMMA SettledInFlight ==
  ASSUME frames # <<>>
  PROVE  /\ Settled.pendingApprovals = frames[1].pendingApprovals
         /\ Settled.denied = frames[1].denied /\ Settled.ledger = frames[1].ledger
BY DEF Settled

\* A step that leaves the settled storage alone is a stutter of the queue.
LEMMA Stutter ==
  ASSUME Settled'.pendingApprovals = Settled.pendingApprovals,
         Settled'.denied = Settled.denied, Settled'.ledger = Settled.ledger
  PROVE  UNCHANGED Queue!vars
BY DEF Queue!vars

\* A step that is a transaction on the settled storages.
LEMMA Growth ==
  ASSUME NEW A \in Seq(PendingApproval), NEW D \in SUBSET Nat, NEW B \in Seq(Entry),
         NEW A2 \in Seq(PendingApproval), NEW D2 \in SUBSET Nat, NEW B2 \in Seq(Entry),
         SettlesOnce(A, D, B), SettlesOnce(A2, D2, B2),
         Len(A) <= Len(A2),
         \A i \in DOMAIN A : RequestOf(A2[i]) = RequestOf(A[i]),
         D \subseteq D2,
         \/ B2 = B
         \/ /\ Len(B2) = Len(B) + 1
            /\ \A i \in DOMAIN B : B2[i] = B[i]
            /\ B2[Len(B2)].id # NoId =>
                 B2[Len(B2)].id \in DOMAIN A /\ ~A[B2[Len(B2)].id].resolved,
         Settled.pendingApprovals = A, Settled.denied = D, Settled.ledger = B,
         Settled'.pendingApprovals = A2, Settled'.denied = D2, Settled'.ledger = B2
  PROVE  Queue!Transaction
<1> DEFINE paid == {r.id : r \in ReceiptsOf(B)}
<1>1. /\ RequestsOf(A2) \in Seq(Asked)
      /\ Len(RequestsOf(A2)) >= Len(RequestsOf(A))
      /\ \A i \in DOMAIN RequestsOf(A) : RequestsOf(A2)[i] = RequestsOf(A)[i]
      /\ D \subseteq D2
      /\ D2 \ D \subseteq DOMAIN RequestsOf(A2) \ paid
      /\ \/ ReceiptsOf(B2) = ReceiptsOf(B)
         \/ \E r \in ReceiptsOf(B2) :
              /\ r.id \in DOMAIN RequestsOf(A) \ (paid \cup D) /\ r.id \notin D2
              /\ r.what = RequestsOf(A)[r.id]
              /\ ReceiptsOf(B2) = ReceiptsOf(B) \cup {r}
  <2>1. IsTransaction(A, D, B, A2, D2, B2)
    BY GrowthIsTransaction
  <2> QED
    BY <2>1 DEF IsTransaction
<1>2. Queue!Paid = paid
  BY DEF Queue!Paid
<1>3. Queue!Open = DOMAIN RequestsOf(A) \ (paid \cup D)
  BY <1>2 DEF Queue!Open
<1> HIDE DEF paid
<1>4. Queue!FileMore
  BY <1>1 DEF Queue!FileMore
<1>5. Queue!RefuseSome
  BY <1>1, <1>2 DEF Queue!RefuseSome
<1>6. Queue!PaySome
  BY <1>1, <1>3 DEF Queue!PaySome
<1> QED
  BY <1>4, <1>5, <1>6 DEF Queue!Transaction

\* A proposal filed or denied with no call in flight is a transaction, under
\* a call in flight it does not show yet.
LEMMA QuietStep ==
  ASSUME QueueInv, QueueInv', UNCHANGED <<frames, ledger>>,
         Len(pendingApprovals) <= Len(pendingApprovals'),
         \A i \in DOMAIN pendingApprovals :
           RequestOf(pendingApprovals'[i]) = RequestOf(pendingApprovals[i]),
         denied \subseteq denied'
  PROVE  [Queue!Transaction]_(Queue!vars)
<1>1. CASE frames # <<>>
  <2>1. frames' # <<>>
    BY <1>1
  <2>2. /\ Settled'.pendingApprovals = frames'[1].pendingApprovals
        /\ Settled'.denied = frames'[1].denied /\ Settled'.ledger = frames'[1].ledger
    BY <2>1 DEF Settled
  <2> QED
    BY <1>1, <2>2, SettledInFlight, Stutter
<1>2. CASE frames = <<>>
  <2>1. /\ Settled'.pendingApprovals = pendingApprovals'
        /\ Settled'.denied = denied' /\ Settled'.ledger = ledger'
    BY <1>2 DEF Settled, CurrentStorage
  <2>2. /\ pendingApprovals \in Seq(PendingApproval) /\ denied \in SUBSET Nat
        /\ ledger \in Seq(Entry)
        /\ pendingApprovals' \in Seq(PendingApproval) /\ denied' \in SUBSET Nat
    BY DEF QueueInv, Typed
  <2>3. /\ SettlesOnce(pendingApprovals, denied, ledger)
        /\ SettlesOnce(pendingApprovals', denied', ledger')
    BY DEF QueueInv, ProposalsSettleOnce
  <2> QED
    BY <1>2, <2>1, <2>2, <2>3, SettledAtRest, Growth
<1> QED
  BY <1>1, <1>2

\* The start of a call does not show outside.
LEMMA StartShowsNothing ==
  ASSUME frames = <<>>, frames' = Append(frames, CurrentStorage)
  PROVE  UNCHANGED Queue!vars
<1>1. frames' # <<>> /\ frames'[1] = CurrentStorage
  OBVIOUS
<1>2. /\ Settled'.pendingApprovals = pendingApprovals
      /\ Settled'.denied = denied /\ Settled'.ledger = ledger
  BY <1>1 DEF Settled, CurrentStorage
<1> QED
  BY <1>2, SettledAtRest, Stutter

\* The end of a call shows the whole transaction, or nothing.
LEMMA ReturnShowsAll ==
  ASSUME QueueInv, QueueInv', CallSucceeds \/ CallFails
  PROVE  [Queue!Transaction]_(Queue!vars)
<1>1. frames # <<>> /\ 1 \in DOMAIN frames /\ frames' = <<>>
  BY ReturnEmptiesFrames
<1> DEFINE s == frames[1]
<1>2. /\ Settled.pendingApprovals = s.pendingApprovals
      /\ Settled.denied = s.denied /\ Settled.ledger = s.ledger
  BY <1>1, SettledInFlight
<1>3. /\ Settled'.pendingApprovals = pendingApprovals'
      /\ Settled'.denied = denied' /\ Settled'.ledger = ledger'
  BY <1>1 DEF Settled, CurrentStorage
<1>4. CASE CallFails
  <2>1. /\ pendingApprovals' = s.pendingApprovals
        /\ denied' = s.denied /\ ledger' = s.ledger
    BY <1>1, <1>4, ReturnEmptiesFrames DEF CallFails
  <2> QED
    BY <1>2, <1>3, <2>1, Stutter
<1>5. CASE CallSucceeds
  <2>1. UNCHANGED <<pendingApprovals, denied, ledger>>
    BY <1>5 DEF CallSucceeds
  <2>2. /\ s.pendingApprovals \in Seq(PendingApproval)
        /\ s.denied \in SUBSET Nat /\ s.ledger \in Seq(Entry)
    BY <1>1, FramesAreStorages DEF QueueInv
  <2>3. /\ pendingApprovals \in Seq(PendingApproval)
        /\ denied \in SUBSET Nat /\ ledger \in Seq(Entry)
        /\ SettlesOnce(pendingApprovals, denied, ledger)
    BY DEF QueueInv, Typed, ProposalsSettleOnce
  <2>4. /\ SettlesOnce(s.pendingApprovals, s.denied, s.ledger)
        /\ Len(s.pendingApprovals) <= Len(pendingApprovals)
        /\ \A i \in DOMAIN s.pendingApprovals :
             RequestOf(pendingApprovals[i]) = RequestOf(s.pendingApprovals[i])
        /\ s.denied \subseteq denied
        /\ Len(ledger) = Len(s.ledger) + 1
        /\ \A i \in DOMAIN s.ledger : ledger[i] = s.ledger[i]
        /\ ledger[Len(ledger)].id # NoId =>
             /\ ledger[Len(ledger)].id \in DOMAIN s.pendingApprovals
             /\ ~s.pendingApprovals[ledger[Len(ledger)].id].resolved
    BY <1>1 DEF QueueInv, CallbacksOnlyAdd
  <2> HIDE DEF s
  <2> QED
    BY <1>2, <1>3, <2>1, <2>2, <2>3, <2>4, Growth
<1> QED
  BY <1>4, <1>5

LEMMA RefinementStep ==
  QueueInv /\ QueueInv' /\ [Next]_vars => [Queue!Transaction]_(Queue!vars)
<1> SUFFICES ASSUME QueueInv, QueueInv', [Next]_vars
             PROVE  [Queue!Transaction]_(Queue!vars)
  OBVIOUS
<1>1. CASE UNCHANGED queueVars
  <2>1. UNCHANGED <<pendingApprovals, denied, ledger, frames>>
    BY <1>1 DEF queueVars
  <2>2. Len(pendingApprovals) <= Len(pendingApprovals')
    BY <2>1 DEF QueueInv, Typed
  <2> QED
    BY <2>1, <2>2, QuietStep
<1>2. CASE \E k \in SessionKeys, call \in Call, usd \in Nat : EnqueueProposal(k, call, usd)
  <2>1. PICK a : UNCHANGED <<frames, ledger, denied>>
                 /\ pendingApprovals' = Append(pendingApprovals, a)
    BY <1>2 DEF EnqueueProposal
  <2>2. pendingApprovals \in Seq(PendingApproval)
    BY DEF QueueInv, Typed
  <2>3. /\ Len(pendingApprovals) <= Len(pendingApprovals')
        /\ \A i \in DOMAIN pendingApprovals : pendingApprovals'[i] = pendingApprovals[i]
    BY <2>1, <2>2
  <2> QED
    BY <2>1, <2>3, QuietStep
<1>3. CASE \E k \in SessionKeys, call \in Call, usd \in Nat :
             NonReentrant /\ CommitAndCall(k, call, usd)
  BY <1>3, StartShowsNothing DEF NonReentrant, CommitAndCall, StartCall
<1>4. CASE \E id \in Nat : Approve(id)
  BY <1>4, StartShowsNothing DEF NonReentrant, Approve, StartCall
<1>5. CASE \E id \in Nat : Deny(id)
  <2>1. PICK id \in Nat : Deny(id)
    BY <1>5
  <2>2. /\ id \in DOMAIN pendingApprovals
        /\ pendingApprovals' = [pendingApprovals EXCEPT ![id].resolved = TRUE]
        /\ denied \subseteq denied'
        /\ UNCHANGED <<frames, ledger>>
    BY <2>1 DEF Deny, IsOpen
  <2>3. pendingApprovals \in Seq(PendingApproval)
    BY DEF QueueInv, Typed
  <2>4. /\ Len(pendingApprovals') = Len(pendingApprovals)
        /\ Len(pendingApprovals) \in Nat
        /\ \A i \in DOMAIN pendingApprovals :
             RequestOf(pendingApprovals'[i]) = RequestOf(pendingApprovals[i])
    BY <2>2, <2>3, ResolvingKeepsTheRest DEF RequestOf
  <2>5. Len(pendingApprovals) <= Len(pendingApprovals')
    BY <2>4
  <2> QED
    BY <2>2, <2>4, <2>5, QuietStep
<1>6. CASE CallSucceeds \/ CallFails
  BY <1>6, ReturnShowsAll
<1> QED
  BY <1>1, <1>2, <1>3, <1>4, <1>5, <1>6, QueueSteps DEF QueueInv

LEMMA RefinementInit == Init => Queue!Init
<1> SUFFICES ASSUME Init
             PROVE  Queue!Init
  OBVIOUS
<1>1. /\ Settled.pendingApprovals = <<>>
      /\ Settled.denied = {} /\ Settled.ledger = <<>>
  BY SettledAtRest DEF Init
<1>2. RequestsOf(<<>>) = <<>>
  BY DEF RequestsOf
<1>3. ReceiptsOf(<<>>) = {}
  BY DEF ReceiptsOf
<1> QED
  BY <1>1, <1>2, <1>3 DEF Queue!Init

\* The wallet implements the abstract queue: whatever its callees do, every
\* transaction that is over has only added requests, refused open ones and
\* paid at most one open one, to the letter.
THEOREM WalletImplementsQueue == Spec => ImplementsCosignQueue
BY RefinementInit, RefinementStep, QueueInvAlways, PTL
   DEF Spec, ImplementsCosignQueue, Queue!Spec

-----------------------------------------------------------------------------
(***************************************************************************)
(* Sums over finite sets.                                                  *)
(***************************************************************************)
\* The element a fold over a set takes next, and the table of partial sums
\* that SumFunctionOnSet chooses.
Pick(S) == CHOOSE x \in S : TRUE

IsTable(g, f, S) ==
  g = [s \in SUBSET S |-> IF s = {} THEN 0 ELSE f[Pick(s)] + g[s \ {Pick(s)}]]

SumsInNat(f, S) == \A x \in S : f[x] \in Nat

LEMMA PickOne == \A S : S # {} => Pick(S) \in S
  BY DEF Pick

LEMMA SumIsTable ==
  ASSUME NEW f, NEW S
  PROVE  SumFunctionOnSet(f, S) = (CHOOSE g : IsTable(g, f, S))[S]
BY DEF SumFunctionOnSet, FoldFunctionOnSet, MapThenFoldSet, IsTable, Pick

\* The induction over a finite set as far as it can be stated for sets: what
\* fails for some subset fails for a smallest one.
LEMMA SmallestSubset ==
  ASSUME NEW S, IsFiniteSet(S), NEW T \in SUBSET (SUBSET S), T # {}
  PROVE  \E m \in T : \A u \in T : u \subseteq m => u = m
<1>1. IsWellFoundedOn(StrictSubsetOrdering(S), SUBSET S)
  BY FS_StrictSubsetOrderingWellFounded, FS_FiniteSubsetsOfFinite
<1>2. PICK m \in T : \A u \in T : ~(<<u, m>> \in StrictSubsetOrdering(S))
  BY <1>1, WFMin
<1>3. \A u \in T : u \subseteq m => u = m
  BY <1>2 DEF StrictSubsetOrdering
<1> QED
  BY <1>3

\* Two tables agree where both are defined.
LEMMA TablesAgree ==
  ASSUME NEW f, NEW S, IsFiniteSet(S), NEW R \in SUBSET S, NEW g, NEW h,
         IsTable(g, f, S), IsTable(h, f, R)
  PROVE  \A s \in SUBSET R : g[s] = h[s]
<1> DEFINE Bad == {s \in SUBSET R : g[s] # h[s]}
<1> SUFFICES ASSUME Bad # {} PROVE FALSE
  OBVIOUS
<1>1. PICK m \in Bad : \A u \in Bad : u \subseteq m => u = m
  <2>1. Bad \in SUBSET (SUBSET S)
    OBVIOUS
  <2> HIDE DEF Bad
  <2> QED
    BY <2>1, SmallestSubset
<1>2. /\ g[m] = IF m = {} THEN 0 ELSE f[Pick(m)] + g[m \ {Pick(m)}]
      /\ h[m] = IF m = {} THEN 0 ELSE f[Pick(m)] + h[m \ {Pick(m)}]
  BY DEF IsTable
<1>3. m # {}
  BY <1>2
<1>4. m \ {Pick(m)} \subseteq m /\ m \ {Pick(m)} # m
  BY <1>3, PickOne
<1>5. g[m \ {Pick(m)}] = h[m \ {Pick(m)}]
  BY <1>1, <1>4
<1> QED
  BY <1>2, <1>3, <1>5

LEMMA TableExists ==
  ASSUME NEW f, NEW S, IsFiniteSet(S)
  PROVE  \E g : IsTable(g, f, S)
<1> DEFINE Bad == {s \in SUBSET S : ~\E g : IsTable(g, f, s)}
<1> SUFFICES ASSUME Bad # {} PROVE FALSE
  OBVIOUS
<1>1. PICK m \in Bad : \A u \in Bad : u \subseteq m => u = m
  <2>1. Bad \in SUBSET (SUBSET S)
    OBVIOUS
  <2> HIDE DEF Bad
  <2> QED
    BY <2>1, SmallestSubset
<1> DEFINE c == Pick(m)
           G(u) == CHOOSE g : IsTable(g, f, u)
           H == [u \in SUBSET m |-> IF u = m /\ m # {} THEN f[c] + G(m \ {c})[m \ {c}]
                                    ELSE G(u)[u]]
           Z == [u \in SUBSET {} |-> 0]
<1>2. CASE m = {}
  <2>1. IsTable(Z, f, {})
    BY DEF IsTable
  <2> QED
    BY <1>2, <2>1
<1>3. CASE m # {}
  <2>1. ASSUME NEW u \in SUBSET m, u # m PROVE IsTable(G(u), f, u) /\ IsFiniteSet(u)
    <3>1. u \notin Bad
      BY <1>1, <2>1
    <3>2. \E g : IsTable(g, f, u)
      BY <3>1
    <3> QED
      BY <3>2, FS_Subset
  <2>2. m \ {c} # m /\ m \ {c} \in SUBSET m
    BY <1>3, PickOne
  <2>3. ASSUME NEW u \in SUBSET m, u # m, u # {}
        PROVE  H[u] = f[Pick(u)] + H[u \ {Pick(u)}]
    <3> DEFINE v == u \ {Pick(u)}
    <3>1. v \in SUBSET u /\ v \in SUBSET m /\ v # m
      BY <2>3
    <3>2. H[u] = G(u)[u] /\ H[v] = G(v)[v]
      BY <2>3, <3>1
    <3>3. G(u)[u] = f[Pick(u)] + G(u)[v]
      <4>1. IsTable(G(u), f, u)
        BY <2>1, <2>3
      <4> HIDE DEF G
      <4> QED
        BY <4>1, <2>3 DEF IsTable
    <3>4. G(u)[v] = G(v)[v]
      <4>1. IsTable(G(u), f, u) /\ IsTable(G(v), f, v) /\ IsFiniteSet(u)
        BY <2>1, <2>3, <3>1
      <4> HIDE DEF G, v
      <4> QED
        BY <4>1, <3>1, TablesAgree
    <3> QED
      BY <3>2, <3>3, <3>4
  <2>4. H[{}] = 0
    <3>1. {} \in SUBSET m /\ {} # m
      BY <1>3
    <3>2. IsTable(G({}), f, {})
      BY <2>1, <3>1
    <3>3. G({})[{}] = 0
      BY <3>2 DEF IsTable
    <3> QED
      BY <3>1, <3>3
  <2>5. H[m] = f[c] + H[m \ {c}]
    BY <1>3, <2>2
  <2>6. \A u \in SUBSET m :
          H[u] = IF u = {} THEN 0 ELSE f[Pick(u)] + H[u \ {Pick(u)}]
    <3> HIDE DEF H
    <3> QED
      BY <1>3, <2>3, <2>4, <2>5
  <2>7. H = [u \in SUBSET m |-> H[u]]
    OBVIOUS
  <2> HIDE DEF H
  <2>8. IsTable(H, f, m)
    BY <2>6, <2>7 DEF IsTable
  <2> QED
    BY <2>8
<1> QED
  BY <1>2, <1>3

\* The sum's recursive equation.
LEMMA SumEquation ==
  ASSUME NEW f, NEW S, IsFiniteSet(S)
  PROVE  SumFunctionOnSet(f, S) =
           IF S = {} THEN 0 ELSE f[Pick(S)] + SumFunctionOnSet(f, S \ {Pick(S)})
<1> DEFINE G(u) == CHOOSE g : IsTable(g, f, u)
           v == S \ {Pick(S)}
<1>1. IsTable(G(S), f, S)
  BY TableExists
<1>2. IsFiniteSet(v) /\ v \in SUBSET S
  BY FS_Subset
<1>3. IsTable(G(v), f, v)
  BY <1>2, TableExists
<1>4. SumFunctionOnSet(f, S) = G(S)[S] /\ SumFunctionOnSet(f, v) = G(v)[v]
  BY SumIsTable
<1> HIDE DEF G
<1>5. G(S)[v] = G(v)[v]
  BY <1>1, <1>2, <1>3, TablesAgree
<1>6. G(S)[S] = IF S = {} THEN 0 ELSE f[Pick(S)] + G(S)[v]
  BY <1>1 DEF IsTable
<1> QED
  BY <1>4, <1>5, <1>6

LEMMA SumOfNone ==
  ASSUME NEW f
  PROVE  SumFunctionOnSet(f, {}) = 0
  BY SumEquation, FS_EmptySet

LEMMA SumIsNat ==
  ASSUME NEW f, NEW S, IsFiniteSet(S), SumsInNat(f, S)
  PROVE  SumFunctionOnSet(f, S) \in Nat
<1> DEFINE Bad == {s \in SUBSET S : SumFunctionOnSet(f, s) \notin Nat}
<1> SUFFICES ASSUME Bad # {} PROVE FALSE
  OBVIOUS
<1>1. PICK m \in Bad : \A u \in Bad : u \subseteq m => u = m
  <2>1. Bad \in SUBSET (SUBSET S)
    OBVIOUS
  <2> HIDE DEF Bad
  <2> QED
    BY <2>1, SmallestSubset
<1> DEFINE v == m \ {Pick(m)}
<1>2. IsFiniteSet(m)
  BY FS_Subset
<1>3. SumFunctionOnSet(f, m) = IF m = {} THEN 0 ELSE f[Pick(m)] + SumFunctionOnSet(f, v)
  BY <1>2, SumEquation
<1>4. m # {}
  BY <1>3
<1>5. Pick(m) \in m /\ f[Pick(m)] \in Nat /\ v \subseteq m /\ v # m
  BY <1>4, PickOne DEF SumsInNat
<1>6. SumFunctionOnSet(f, v) \in Nat
  BY <1>1, <1>5
<1> QED
  BY <1>3, <1>4, <1>5, <1>6

\* Any element may be taken first.
LEMMA SumWithout ==
  ASSUME NEW f, NEW S, IsFiniteSet(S), SumsInNat(f, S), NEW x \in S
  PROVE  SumFunctionOnSet(f, S) = f[x] + SumFunctionOnSet(f, S \ {x})
<1> DEFINE Sum(s) == SumFunctionOnSet(f, s)
           Bad == {s \in SUBSET S : \E y \in s : Sum(s) # f[y] + Sum(s \ {y})}
<1> SUFFICES ASSUME Bad # {} PROVE FALSE
  OBVIOUS
<1>1. PICK m \in Bad : \A u \in Bad : u \subseteq m => u = m
  <2>1. Bad \in SUBSET (SUBSET S)
    OBVIOUS
  <2> HIDE DEF Bad
  <2> QED
    BY <2>1, SmallestSubset
<1>2. PICK y \in m : Sum(m) # f[y] + Sum(m \ {y})
  OBVIOUS
<1> DEFINE c == Pick(m)
           rest == m \ {c, y}
<1>3. c \in m
  BY PickOne
<1>4. \A s \in SUBSET S : IsFiniteSet(s) /\ Sum(s) \in Nat
  <2> SUFFICES ASSUME NEW s \in SUBSET S PROVE IsFiniteSet(s) /\ Sum(s) \in Nat
    OBVIOUS
  <2>1. IsFiniteSet(s) /\ SumsInNat(f, s)
    BY FS_Subset DEF SumsInNat
  <2> QED
    BY <2>1, SumIsNat
<1>5. Sum(m) = f[c] + Sum(m \ {c})
  BY <1>3, <1>4, SumEquation
<1>6. c # y
  BY <1>2, <1>5
<1>7. \A s \in SUBSET m : s # m => \A z \in s : Sum(s) = f[z] + Sum(s \ {z})
  BY <1>1
<1>8. Sum(m \ {c}) = f[y] + Sum(rest)
  <2>1. m \ {c} # m /\ y \in m \ {c} /\ (m \ {c}) \ {y} = rest
    BY <1>3, <1>6
  <2> QED
    BY <1>7, <2>1
<1>9. Sum(m \ {y}) = f[c] + Sum(rest)
  <2>1. m \ {y} # m /\ c \in m \ {y} /\ (m \ {y}) \ {c} = rest
    BY <1>3, <1>6
  <2> QED
    BY <1>7, <2>1
<1>10. f[c] \in Nat /\ f[y] \in Nat /\ Sum(rest) \in Nat
  BY <1>3, <1>4 DEF SumsInNat
<1> HIDE DEF Sum, c, rest
<1> QED
  BY <1>2, <1>5, <1>8, <1>9, <1>10

LEMMA SumWith ==
  ASSUME NEW f, NEW S, IsFiniteSet(S), SumsInNat(f, S), NEW x, x \notin S, f[x] \in Nat
  PROVE  SumFunctionOnSet(f, S \cup {x}) = f[x] + SumFunctionOnSet(f, S)
<1>1. IsFiniteSet(S \cup {x}) /\ SumsInNat(f, S \cup {x}) /\ x \in S \cup {x}
  BY FS_AddElement DEF SumsInNat
<1>2. (S \cup {x}) \ {x} = S
  OBVIOUS
<1> QED
  BY <1>1, <1>2, SumWithout

\* Only the values summed matter.
LEMMA SumOfSame ==
  ASSUME NEW f, NEW g, NEW S, IsFiniteSet(S), \A x \in S : f[x] = g[x]
  PROVE  SumFunctionOnSet(f, S) = SumFunctionOnSet(g, S)
<1> DEFINE Bad == {s \in SUBSET S : SumFunctionOnSet(f, s) # SumFunctionOnSet(g, s)}
<1> SUFFICES ASSUME Bad # {} PROVE FALSE
  OBVIOUS
<1>1. PICK m \in Bad : \A u \in Bad : u \subseteq m => u = m
  <2>1. Bad \in SUBSET (SUBSET S)
    OBVIOUS
  <2> HIDE DEF Bad
  <2> QED
    BY <2>1, SmallestSubset
<1> DEFINE v == m \ {Pick(m)}
<1>2. IsFiniteSet(m)
  BY FS_Subset
<1>3. /\ SumFunctionOnSet(f, m) = IF m = {} THEN 0 ELSE f[Pick(m)] + SumFunctionOnSet(f, v)
      /\ SumFunctionOnSet(g, m) = IF m = {} THEN 0 ELSE g[Pick(m)] + SumFunctionOnSet(g, v)
  BY <1>2, SumEquation
<1>4. m # {}
  BY <1>3
<1>5. Pick(m) \in m /\ v \subseteq m /\ v # m
  BY <1>4, PickOne
<1>6. SumFunctionOnSet(f, v) = SumFunctionOnSet(g, v)
  BY <1>1, <1>5
<1> QED
  BY <1>3, <1>4, <1>5, <1>6

\* The sum over two sets that share nothing.
LEMMA SumOfBoth ==
  ASSUME NEW f, NEW S, IsFiniteSet(S), NEW R, IsFiniteSet(R), S \cap R = {},
         SumsInNat(f, S), SumsInNat(f, R)
  PROVE  SumFunctionOnSet(f, S \cup R)
           = SumFunctionOnSet(f, S) + SumFunctionOnSet(f, R)
<1> DEFINE Sum(s) == SumFunctionOnSet(f, s)
           Bad == {s \in SUBSET R : Sum(S \cup s) # Sum(S) + Sum(s)}
<1> SUFFICES ASSUME Bad # {} PROVE FALSE
  OBVIOUS
<1>1. PICK m \in Bad : \A u \in Bad : u \subseteq m => u = m
  <2>1. Bad \in SUBSET (SUBSET R)
    OBVIOUS
  <2> HIDE DEF Bad
  <2> QED
    BY <2>1, SmallestSubset
<1>2. IsFiniteSet(m) /\ SumsInNat(f, m) /\ Sum(S) \in Nat
  BY FS_Subset, SumIsNat DEF SumsInNat
<1>3. CASE m = {}
  <2>1. S \cup m = S /\ Sum(m) = 0
    BY <1>3, SumOfNone
  <2> QED
    BY <1>2, <2>1
<1>4. CASE m # {}
  <2>1. PICK x : x \in m
    BY <1>4
  <2> DEFINE v == m \ {x}
  <2>2. /\ v \subseteq m /\ v # m /\ x \notin v /\ x \notin S \cup v
        /\ S \cup m = (S \cup v) \cup {x} /\ m = v \cup {x}
    BY <2>1
  <2>3. Sum(S \cup v) = Sum(S) + Sum(v)
    BY <1>1, <2>2
  <2>4. /\ IsFiniteSet(v) /\ SumsInNat(f, v)
        /\ IsFiniteSet(S \cup v) /\ SumsInNat(f, S \cup v) /\ f[x] \in Nat
    BY <1>2, <2>1, <2>2, FS_Subset, FS_Union DEF SumsInNat
  <2> HIDE DEF v
  <2>5. /\ Sum((S \cup v) \cup {x}) = f[x] + Sum(S \cup v)
        /\ Sum(v \cup {x}) = f[x] + Sum(v)
        /\ Sum(v) \in Nat
    BY <2>2, <2>4, SumWith, SumIsNat
  <2>6. Sum(S \cup m) = Sum(S) + Sum(m)
    <3>1. Sum(S \cup m) = f[x] + (Sum(S) + Sum(v)) /\ Sum(m) = f[x] + Sum(v)
      BY <2>2, <2>3, <2>5
    <3> HIDE DEF Sum
    <3> QED
      BY <1>2, <2>4, <2>5, <3>1
  <2> QED
    BY <2>6
<1> QED
  BY <1>3, <1>4

\* A part of natural numbers sums to no more than the whole.
LEMMA SumOfPart ==
  ASSUME NEW f, NEW S, IsFiniteSet(S), SumsInNat(f, S), NEW R \in SUBSET S
  PROVE  SumFunctionOnSet(f, R) <= SumFunctionOnSet(f, S)
<1>1. /\ IsFiniteSet(R) /\ IsFiniteSet(S \ R)
      /\ SumsInNat(f, R) /\ SumsInNat(f, S \ R)
  BY FS_Subset DEF SumsInNat
<1>2. R \cup (S \ R) = S /\ R \cap (S \ R) = {}
  OBVIOUS
<1>3. SumFunctionOnSet(f, S) = SumFunctionOnSet(f, R) + SumFunctionOnSet(f, S \ R)
  BY <1>1, <1>2, SumOfBoth
<1>4. SumFunctionOnSet(f, R) \in Nat /\ SumFunctionOnSet(f, S \ R) \in Nat
  BY <1>1, SumIsNat
<1> QED
  BY <1>3, <1>4

\* The values a finite set takes are finitely many.
LEMMA FiniteValues ==
  ASSUME NEW f, NEW S, IsFiniteSet(S)
  PROVE  IsFiniteSet({f[x] : x \in S})
<1> DEFINE Bad == {s \in SUBSET S : ~IsFiniteSet({f[x] : x \in s})}
<1> SUFFICES ASSUME Bad # {} PROVE FALSE
  OBVIOUS
<1>1. PICK m \in Bad : \A u \in Bad : u \subseteq m => u = m
  <2>1. Bad \in SUBSET (SUBSET S)
    OBVIOUS
  <2> HIDE DEF Bad
  <2> QED
    BY <2>1, SmallestSubset
<1>2. CASE m = {}
  <2>1. {f[x] : x \in m} = {}
    BY <1>2
  <2> QED
    BY <2>1, FS_EmptySet
<1>3. CASE m # {}
  <2>1. PICK y : y \in m
    BY <1>3
  <2> DEFINE v == m \ {y}
             V == {f[x] : x \in v}
  <2>2. v \subseteq m /\ v # m
    BY <2>1
  <2>3. IsFiniteSet(V)
    BY <1>1, <2>2
  <2>4. {f[x] : x \in m} = V \cup {f[y]}
    BY <2>1
  <2> HIDE DEF V
  <2>5. IsFiniteSet(V \cup {f[y]})
    BY <2>3, FS_AddElement
  <2> QED
    BY <2>4, <2>5
<1> QED
  BY <1>2, <1>3

\* A finite set of numbers that is not empty has a largest one.
LEMMA LargestOne ==
  ASSUME NEW S, S \subseteq Int, IsFiniteSet(S), S # {}
  PROVE  \E x \in S : \A y \in S : x >= y
<1> DEFINE Bad == {s \in SUBSET S : s # {} /\ ~\E x \in s : \A y \in s : x >= y}
<1> SUFFICES ASSUME Bad # {} PROVE FALSE
  OBVIOUS
<1>1. PICK m \in Bad : \A u \in Bad : u \subseteq m => u = m
  <2>1. Bad \in SUBSET (SUBSET S)
    OBVIOUS
  <2> HIDE DEF Bad
  <2> QED
    BY ONLY <2>1, IsFiniteSet(S), Bad # {}, SmallestSubset
<1>2. PICK x : x \in m
  OBVIOUS
<1> DEFINE v == m \ {x}
<1>3. CASE v = {}
  BY <1>2, <1>3
<1>4. CASE v # {}
  <2>1. v \subseteq m /\ v # m
    BY <1>2
  <2>2. PICK y \in v : \A z \in v : y >= z
    BY <1>1, <1>4, <2>1
  <2>3. CASE x >= y
    BY <1>2, <2>2, <2>3
  <2>4. CASE ~(x >= y)
    BY <1>2, <2>2, <2>4
  <2> QED
    BY <2>3, <2>4
<1> QED
  BY <1>3, <1>4

-----------------------------------------------------------------------------
(***************************************************************************)
(* The inductive invariant.  A failing call falls back to the storage on   *)
(* `frames`, so what makes the books right has to hold of that storage     *)
(* too; it is said of a storage s at the time t.                           *)
(***************************************************************************)

\* The places up to j with an entry for the hire and the epoch of entry j.
EpochUpTo(book, j) ==
  {i \in 1..j : /\ book[i].key = book[j].key
               /\ book[i].hire = book[j].hire
               /\ book[i].epoch = book[j].epoch}

\* An entry is for a hire that was, was made within a day of the start of
\* its epoch, and its epoch is the one its key's policy is in or was over
\* when that one started.
EntriesAreTimely(s, t) ==
  \A i \in DOMAIN s.ledger :
    LET e == s.ledger[i] IN
      /\ e.hire <= s.hires[e.key]
      /\ e.epoch <= e.at /\ e.at <= e.epoch + Day /\ e.at <= t
      /\ e.hire = s.hires[e.key] =>
           \/ e.epoch = s.policies[e.key].epochStart
           \/ e.epoch + Day < s.policies[e.key].epochStart

\* Two epochs of one hire are more than a day apart.
EpochsAreApart(book) ==
  \A i, j \in DOMAIN book :
    book[i].key = book[j].key /\ book[i].hire = book[j].hire =>
      \/ book[i].epoch = book[j].epoch
      \/ book[i].epoch + Day < book[j].epoch
      \/ book[j].epoch + Day < book[i].epoch

\* The running total of an entry is the sum of its epoch up to it, and an
\* entry that is worth something kept within the cap.
TotalsAreRight(book) ==
  \A j \in DOMAIN book :
    /\ book[j].total = DollarsOf(book, EpochUpTo(book, j))
    /\ book[j].usd > 0 => book[j].total <= book[j].cap

\* See BooksMatchLedger.
SpendMatches(s) ==
  \A k \in SessionKeys :
    s.policies[k].spentThisEpoch =
      DollarsOf(s.ledger, PaidInEpoch(s.ledger, k, s.hires[k], s.policies[k].epochStart))

InOrder(s, t) ==
  /\ \A k \in SessionKeys : s.policies[k].epochStart <= t
  /\ EntriesAreTimely(s, t)
  /\ EpochsAreApart(s.ledger)
  /\ TotalsAreRight(s.ledger)
  /\ SpendMatches(s)
  /\ s.balance + EtherOf(s.ledger, DOMAIN s.ledger) = s.funded

BooksInv ==
  /\ Typed
  /\ InOrder(CurrentStorage, now)
  /\ \A n \in DOMAIN frames : InOrder(frames[n], now)

-----------------------------------------------------------------------------
(***************************************************************************)
(* The books of plain storages.                                            *)
(***************************************************************************)

\* What can be summed over a ledger.
LEMMA LedgerSums ==
  ASSUME NEW B \in Seq(Entry), NEW I \in SUBSET DOMAIN B
  PROVE  /\ IsFiniteSet(I)
         /\ SumsInNat([i \in DOMAIN B |-> B[i].usd], I)
         /\ SumsInNat([i \in DOMAIN B |-> B[i].call.value], I)
         /\ DollarsOf(B, I) \in Nat /\ EtherOf(B, I) \in Nat
<1>1. DOMAIN B = 1..Len(B) /\ Len(B) \in Nat
  OBVIOUS
<1>2. IsFiniteSet(I)
  <2>1. IsFiniteSet(1..Len(B))
    BY <1>1, FS_Interval
  <2> QED
    BY <1>1, <2>1, FS_Subset
<1>3. \A i \in DOMAIN B : B[i].usd \in Nat /\ B[i].call.value \in Nat
  <2>1. \A i \in DOMAIN B : B[i] \in Entry
    OBVIOUS
  <2> QED
    BY <2>1 DEF Entry, Call
<1>4. /\ SumsInNat([i \in DOMAIN B |-> B[i].usd], I)
      /\ SumsInNat([i \in DOMAIN B |-> B[i].call.value], I)
  BY <1>3 DEF SumsInNat
<1> QED
  BY <1>2, <1>4, SumIsNat DEF DollarsOf, EtherOf

\* The ledger C is B with the entry e at the new place n.
GrewBy(B, C, n, e) ==
  /\ DOMAIN C = DOMAIN B \cup {n} /\ n \notin DOMAIN B
  /\ \A i \in DOMAIN B : C[i] = B[i]
  /\ C[n] = e

\* What one more entry does to a sum of dollars.
LEMMA DollarsGrow ==
  ASSUME NEW B \in Seq(Entry), NEW C \in Seq(Entry), NEW e \in Entry, NEW n,
         GrewBy(B, C, n, e), NEW I, I \subseteq DOMAIN B
  PROVE  /\ DollarsOf(C, I) = DollarsOf(B, I)
         /\ DollarsOf(C, I \cup {n}) = DollarsOf(B, I) + e.usd
<1> DEFINE fB == [i \in DOMAIN B |-> B[i].usd]
           fC == [i \in DOMAIN C |-> C[i].usd]
<1>1. /\ DOMAIN C = DOMAIN B \cup {n} /\ n \notin DOMAIN B
      /\ \A i \in DOMAIN B : C[i] = B[i]
      /\ C[n] = e
  BY DEF GrewBy
<1>2. (\A i \in I : fB[i] = fC[i]) /\ fC[n] = e.usd
  BY <1>1
<1>3. IsFiniteSet(I) /\ SumsInNat(fC, I) /\ DollarsOf(B, I) \in Nat
  BY <1>1, LedgerSums
<1>4. e.usd \in Nat /\ n \notin I
  BY <1>1 DEF Entry, Call
<1>5. /\ DollarsOf(B, I) = SumFunctionOnSet(fB, I)
      /\ \A K : DollarsOf(C, K) = SumFunctionOnSet(fC, K)
  BY DEF DollarsOf
<1> HIDE DEF fB, fC
<1>6. SumFunctionOnSet(fB, I) = SumFunctionOnSet(fC, I)
  BY <1>2, <1>3, SumOfSame
<1>7. SumFunctionOnSet(fC, I \cup {n}) = fC[n] + SumFunctionOnSet(fC, I)
  BY <1>2, <1>3, <1>4, SumWith
<1> QED
  BY <1>2, <1>3, <1>4, <1>5, <1>6, <1>7

\* What one more entry does to a sum of ether.
LEMMA EtherGrows ==
  ASSUME NEW B \in Seq(Entry), NEW C \in Seq(Entry), NEW e \in Entry, NEW n,
         GrewBy(B, C, n, e), NEW I, I \subseteq DOMAIN B
  PROVE  EtherOf(C, I \cup {n}) = EtherOf(B, I) + e.call.value
<1> DEFINE fB == [i \in DOMAIN B |-> B[i].call.value]
           fC == [i \in DOMAIN C |-> C[i].call.value]
<1>1. /\ DOMAIN C = DOMAIN B \cup {n} /\ n \notin DOMAIN B
      /\ \A i \in DOMAIN B : C[i] = B[i]
      /\ C[n] = e
  BY DEF GrewBy
<1>2. (\A i \in I : fB[i] = fC[i]) /\ fC[n] = e.call.value
  BY <1>1
<1>3. IsFiniteSet(I) /\ SumsInNat(fC, I) /\ EtherOf(B, I) \in Nat
  BY <1>1, LedgerSums
<1>4. e.call.value \in Nat /\ n \notin I
  BY <1>1 DEF Entry, Call
<1>5. /\ EtherOf(B, I) = SumFunctionOnSet(fB, I)
      /\ \A K : EtherOf(C, K) = SumFunctionOnSet(fC, K)
  BY DEF EtherOf
<1> HIDE DEF fB, fC
<1>6. SumFunctionOnSet(fB, I) = SumFunctionOnSet(fC, I)
  BY <1>2, <1>3, SumOfSame
<1>7. SumFunctionOnSet(fC, I \cup {n}) = fC[n] + SumFunctionOnSet(fC, I)
  BY <1>2, <1>3, <1>4, SumWith
<1> QED
  BY <1>2, <1>3, <1>4, <1>5, <1>6, <1>7

\* A storage taken apart.
LEMMA StorageParts ==
  ASSUME NEW s \in Storage
  PROVE  /\ s.policies \in [SessionKeys -> AgentPolicy]
         /\ s.hires \in [SessionKeys -> Nat]
         /\ s.ledger \in Seq(Entry)
         /\ s.balance \in Nat /\ s.funded \in Nat
         /\ \A k \in SessionKeys : /\ s.policies[k].epochStart \in Nat
                                   /\ s.policies[k].spentThisEpoch \in Nat
         /\ \A i \in DOMAIN s.ledger :
              LET e == s.ledger[i] IN
              /\ e.key \in SessionKeys
              /\ e.usd \in Nat /\ e.at \in Nat /\ e.hire \in Nat
              /\ e.epoch \in Nat /\ e.total \in Nat /\ e.cap \in Nat
<1>1. /\ s.policies \in [SessionKeys -> AgentPolicy]
      /\ s.hires \in [SessionKeys -> Nat]
      /\ s.ledger \in Seq(Entry)
      /\ s.balance \in Nat /\ s.funded \in Nat
  BY DEF Storage
<1>2. \A i \in DOMAIN s.ledger : s.ledger[i] \in Entry
  BY <1>1
<1> QED
  BY <1>1, <1>2 DEF AgentPolicy, Entry

\* What leaves the epochs, the spend, the hires and the ledger alone and
\* takes no ether but what came in keeps the books, as does time.
LEMMA QuietInOrder ==
  ASSUME NEW s \in Storage, NEW s2 \in Storage, NEW t \in Nat, NEW t2 \in Nat,
         t <= t2, InOrder(s, t),
         s2.ledger = s.ledger, s2.hires = s.hires,
         \A k \in SessionKeys :
           /\ s2.policies[k].epochStart = s.policies[k].epochStart
           /\ s2.policies[k].spentThisEpoch = s.policies[k].spentThisEpoch,
         s2.balance + s.funded = s.balance + s2.funded
  PROVE  InOrder(s2, t2)
<1>1. \A k \in SessionKeys : s2.policies[k].epochStart <= t2
  <2>1. \A k \in SessionKeys : s.policies[k].epochStart \in Nat /\ s.policies[k].epochStart <= t
    BY StorageParts DEF InOrder
  <2> QED
    BY <2>1
<1>2. EntriesAreTimely(s2, t2)
  <2> SUFFICES ASSUME NEW i \in DOMAIN s.ledger
               PROVE  LET e == s.ledger[i] IN
                 /\ e.hire <= s.hires[e.key]
                 /\ e.epoch <= e.at /\ e.at <= e.epoch + Day /\ e.at <= t2
                 /\ e.hire = s.hires[e.key] =>
                      \/ e.epoch = s2.policies[e.key].epochStart
                      \/ e.epoch + Day < s2.policies[e.key].epochStart
    BY DEF EntriesAreTimely
  <2> DEFINE e == s.ledger[i]
  <2>1. e.key \in SessionKeys /\ e.at \in Nat
    BY StorageParts
  <2>2. /\ e.hire <= s.hires[e.key]
        /\ e.epoch <= e.at /\ e.at <= e.epoch + Day /\ e.at <= t
        /\ e.hire = s.hires[e.key] =>
             \/ e.epoch = s.policies[e.key].epochStart
             \/ e.epoch + Day < s.policies[e.key].epochStart
    BY DEF InOrder, EntriesAreTimely
  <2> HIDE DEF e
  <2>3. e.at <= t2
    BY <2>1, <2>2
  <2>4. s2.policies[e.key].epochStart = s.policies[e.key].epochStart
    BY <2>1
  <2>5. QED
    BY <2>2, <2>3, <2>4 DEF e
<1>3. SpendMatches(s2)
  BY DEF InOrder, SpendMatches
<1>4. s2.balance + EtherOf(s2.ledger, DOMAIN s2.ledger) = s2.funded
  <2>1. EtherOf(s.ledger, DOMAIN s.ledger) \in Nat
    BY StorageParts, LedgerSums
  <2>2. s.balance \in Nat /\ s2.balance \in Nat /\ s.funded \in Nat /\ s2.funded \in Nat
    BY StorageParts
  <2>3. s.balance + EtherOf(s.ledger, DOMAIN s.ledger) = s.funded
    BY DEF InOrder
  <2> QED
    BY <2>1, <2>2, <2>3
<1> QED
  BY <1>1, <1>2, <1>3, <1>4 DEF InOrder

\* Hiring opens a new book: no entry is for a hire that has just begun.
LEMMA HireInOrder ==
  ASSUME NEW s \in Storage, NEW s2 \in Storage, NEW t \in Nat, InOrder(s, t),
         NEW k \in SessionKeys, NEW p, p.epochStart = t, p.spentThisEpoch = 0,
         s2.policies = [s.policies EXCEPT ![k] = p],
         s2.hires = [s.hires EXCEPT ![k] = @ + 1],
         s2.ledger = s.ledger, s2.balance = s.balance, s2.funded = s.funded
  PROVE  InOrder(s2, t)
<1>1. /\ s2.policies[k] = p /\ s2.hires[k] = s.hires[k] + 1
      /\ \A j \in SessionKeys : j # k =>
           s2.policies[j] = s.policies[j] /\ s2.hires[j] = s.hires[j]
      /\ \A j \in SessionKeys : s.hires[j] \in Nat
  BY StorageParts
<1>2. \A i \in DOMAIN s.ledger :
        /\ s.ledger[i].key \in SessionKeys /\ s.ledger[i].hire \in Nat
        /\ s.ledger[i].hire <= s.hires[s.ledger[i].key]
  BY StorageParts DEF InOrder, EntriesAreTimely
<1>3. \A j \in SessionKeys : s2.policies[j].epochStart <= t
  BY <1>1 DEF InOrder
<1>4. EntriesAreTimely(s2, t)
  <2> SUFFICES ASSUME NEW i \in DOMAIN s.ledger
               PROVE  LET e == s.ledger[i] IN
                 /\ e.hire <= s2.hires[e.key]
                 /\ e.epoch <= e.at /\ e.at <= e.epoch + Day /\ e.at <= t
                 /\ e.hire = s2.hires[e.key] =>
                      \/ e.epoch = s2.policies[e.key].epochStart
                      \/ e.epoch + Day < s2.policies[e.key].epochStart
    BY DEF EntriesAreTimely
  <2> DEFINE e == s.ledger[i]
  <2>1. /\ e.epoch <= e.at /\ e.at <= e.epoch + Day /\ e.at <= t
        /\ e.hire = s.hires[e.key] =>
             \/ e.epoch = s.policies[e.key].epochStart
             \/ e.epoch + Day < s.policies[e.key].epochStart
    BY DEF InOrder, EntriesAreTimely
  <2>2. e.key \in SessionKeys /\ e.hire \in Nat /\ e.hire <= s.hires[e.key]
    BY <1>2
  <2> HIDE DEF e
  <2>3. CASE e.key = k
    <3>1. e.hire < s2.hires[e.key]
      BY <1>1, <2>2, <2>3
    <3> QED
      BY <1>1, <2>1, <2>2, <2>3, <3>1 DEF e
  <2>4. CASE e.key # k
    BY <1>1, <2>1, <2>2, <2>4 DEF e
  <2> QED
    BY <2>3, <2>4
<1>5. SpendMatches(s2)
  <2> SUFFICES ASSUME NEW j \in SessionKeys
               PROVE  s2.policies[j].spentThisEpoch =
                        DollarsOf(s.ledger, PaidInEpoch(s.ledger, j, s2.hires[j],
                                                        s2.policies[j].epochStart))
    BY DEF SpendMatches
  <2>1. CASE j = k
    <3>1. PaidInEpoch(s.ledger, k, s2.hires[k], t) = {}
      <4>1. \A i \in DOMAIN s.ledger : s.ledger[i].key = k => s.ledger[i].hire # s2.hires[k]
        BY <1>1, <1>2
      <4> QED
        BY <4>1 DEF PaidInEpoch
    <3>2. DollarsOf(s.ledger, {}) = 0
      BY SumOfNone DEF DollarsOf
    <3> QED
      BY <1>1, <2>1, <3>1, <3>2
  <2>2. CASE j # k
    BY <1>1, <2>2 DEF InOrder, SpendMatches
  <2> QED
    BY <2>1, <2>2
<1> QED
  BY <1>3, <1>4, <1>5 DEF InOrder

\* A payment, as its entry e shows it, keeps the books: the epoch goes on, or
\* it was over and the entry is the first of the next one.
LEMMA PaymentInOrder ==
  ASSUME NEW s \in Storage, NEW s2 \in Storage, NEW t \in Nat, InOrder(s, t),
         NEW k \in SessionKeys, NEW e \in Entry,
         e.key = k, e.at = t, e.hire = s.hires[k],
         e.epoch = RolledEpochStart(s.policies[k], t),
         e.total = RolledSpent(s.policies[k], t) + e.usd,
         e.usd > 0 => e.total <= e.cap,
         s2.policies[k].epochStart = e.epoch,
         s2.policies[k].spentThisEpoch = e.total,
         \A j \in SessionKeys : j # k => s2.policies[j] = s.policies[j],
         s2.hires = s.hires, s2.funded = s.funded,
         s2.balance = s.balance - e.call.value,
         s2.ledger = Append(s.ledger, e)
  PROVE  InOrder(s2, t)
<1> DEFINE B == s.ledger
           C == s2.ledger
           n == Len(B) + 1
           start == s.policies[k].epochStart
<1>1. /\ B \in Seq(Entry) /\ C \in Seq(Entry) /\ DOMAIN C = DOMAIN B \cup {n}
      /\ n \notin DOMAIN B /\ DOMAIN B = 1..(n - 1) /\ n \in Nat
      /\ \A i \in DOMAIN B : C[i] = B[i]
      /\ C[n] = e
  <2>1. B \in Seq(Entry)
    BY StorageParts
  <2> QED
    BY <2>1
<1>2. /\ start \in Nat /\ start <= t /\ Day \in Nat
      /\ e.usd \in Nat /\ e.at \in Nat /\ e.hire \in Nat /\ e.epoch \in Nat
      /\ e.total \in Nat /\ e.cap \in Nat /\ e.call.value \in Nat
      /\ s.policies[k].spentThisEpoch \in Nat
  BY StorageParts, DayAssumption DEF InOrder, Entry, Call
<1>3. \/ /\ e.epoch = start /\ t <= start + Day
         /\ e.total = s.policies[k].spentThisEpoch + e.usd
      \/ e.epoch = t /\ start + Day < t /\ e.total = e.usd
  BY <1>2 DEF RolledEpochStart, RolledSpent, EpochIsOver
<1>4. \A i \in DOMAIN B :
        /\ B[i].key \in SessionKeys
        /\ B[i].at \in Nat /\ B[i].hire \in Nat /\ B[i].epoch \in Nat
        /\ B[i].hire <= s.hires[B[i].key]
        /\ B[i].epoch <= B[i].at /\ B[i].at <= B[i].epoch + Day /\ B[i].at <= t
        /\ B[i].hire = s.hires[B[i].key] =>
             \/ B[i].epoch = s.policies[B[i].key].epochStart
             \/ B[i].epoch + Day < s.policies[B[i].key].epochStart
  BY StorageParts DEF InOrder, EntriesAreTimely
<1>4a. ASSUME NEW i \in DOMAIN B, B[i].key = k, B[i].hire = s.hires[k]
       PROVE  /\ B[i].epoch = e.epoch \/ B[i].epoch + Day < e.epoch
              /\ e.epoch = t /\ start + Day < t => B[i].epoch # t
  <2> DEFINE b == B[i].epoch
  <2>1. b = start \/ b + Day < start
    BY <1>4, <1>4a
  <2>2. b \in Nat
    BY <1>4
  <2> HIDE DEF b, start
  <2>3. /\ b = e.epoch \/ b + Day < e.epoch
        /\ e.epoch = t /\ start + Day < t => b # t
    BY <1>2, <1>3, <2>1, <2>2
  <2> QED
    BY <2>3 DEF b
<1>5. PaidInEpoch(B, k, s.hires[k], e.epoch) \in SUBSET DOMAIN B
      /\ e.total = DollarsOf(B, PaidInEpoch(B, k, s.hires[k], e.epoch)) + e.usd
  <2>1. CASE e.epoch = start /\ e.total = s.policies[k].spentThisEpoch + e.usd
    BY <2>1 DEF InOrder, SpendMatches, PaidInEpoch
  <2>2. CASE e.epoch = t /\ start + Day < t /\ e.total = e.usd
    <3>1. \A i \in DOMAIN B : B[i].key = k /\ B[i].hire = s.hires[k] => B[i].epoch # t
      BY <1>4a, <2>2
    <3>2. PaidInEpoch(B, k, s.hires[k], t) = {}
      BY <3>1 DEF PaidInEpoch
    <3>3. DollarsOf(B, {}) = 0
      BY SumOfNone DEF DollarsOf
    <3> QED
      BY <1>2, <2>2, <3>2, <3>3
  <2> QED
    BY <1>3, <2>1, <2>2
<1>5a. \A I \in SUBSET DOMAIN B :
         /\ DollarsOf(C, I) = DollarsOf(B, I)
         /\ DollarsOf(C, I \cup {n}) = DollarsOf(B, I) + e.usd
         /\ EtherOf(C, I \cup {n}) = EtherOf(B, I) + e.call.value
  <2> SUFFICES ASSUME NEW I \in SUBSET DOMAIN B
               PROVE  /\ DollarsOf(C, I) = DollarsOf(B, I)
                      /\ DollarsOf(C, I \cup {n}) = DollarsOf(B, I) + e.usd
                      /\ EtherOf(C, I \cup {n}) = EtherOf(B, I) + e.call.value
    OBVIOUS
  <2>1. GrewBy(B, C, n, e)
    BY <1>1 DEF GrewBy
  <2> HIDE DEF B, C, n
  <2>2. /\ DollarsOf(C, I) = DollarsOf(B, I)
        /\ DollarsOf(C, I \cup {n}) = DollarsOf(B, I) + e.usd
    BY <1>1, <2>1, DollarsGrow
  <2>3. EtherOf(C, I \cup {n}) = EtherOf(B, I) + e.call.value
    BY <1>1, <2>1, EtherGrows
  <2> QED
    BY <2>2, <2>3
<1>5b. 1..n = DOMAIN B \cup {n}
  BY <1>1
<1> HIDE DEF B, C, n, start
<1>6. \A j \in SessionKeys : s2.policies[j].epochStart <= t
  BY <1>2, <1>3 DEF InOrder
<1>7. EntriesAreTimely(s2, t)
  <2> SUFFICES ASSUME NEW i \in DOMAIN C
               PROVE  /\ C[i].hire <= s.hires[C[i].key]
                      /\ C[i].epoch <= C[i].at /\ C[i].at <= C[i].epoch + Day /\ C[i].at <= t
                      /\ C[i].hire = s.hires[C[i].key] =>
                           \/ C[i].epoch = s2.policies[C[i].key].epochStart
                           \/ C[i].epoch + Day < s2.policies[C[i].key].epochStart
    BY DEF EntriesAreTimely, C
  <2>1. CASE i = n
    <3>1. /\ e.hire <= s.hires[e.key]
          /\ e.epoch <= e.at /\ e.at <= e.epoch + Day /\ e.at <= t
      BY <1>2, <1>3
    <3> QED
      BY <1>1, <2>1, <3>1
  <2>2. CASE i \in DOMAIN B
    <3>1. C[i] = B[i]
      BY <1>1, <2>2
    <3>2. CASE B[i].key # k
      BY <1>4, <2>2, <3>1, <3>2
    <3>3. CASE B[i].key = k
      <4>1. /\ B[i].hire <= s.hires[B[i].key]
            /\ B[i].epoch <= B[i].at /\ B[i].at <= B[i].epoch + Day /\ B[i].at <= t
        BY <1>4, <2>2
      <4>2. B[i].hire = s.hires[k] => B[i].epoch = e.epoch \/ B[i].epoch + Day < e.epoch
        BY <1>4a, <2>2, <3>3
      <4> QED
        BY <3>1, <3>3, <4>1, <4>2
    <3> QED
      BY <3>2, <3>3
  <2> QED
    BY <1>1, <2>1, <2>2
<1>8. EpochsAreApart(C)
  <2>1. ASSUME NEW i \in DOMAIN B, B[i].key = k, B[i].hire = s.hires[k]
        PROVE  B[i].epoch = e.epoch \/ B[i].epoch + Day < e.epoch
    BY <1>4a, <2>1
  <2>2. EpochsAreApart(B)
    BY DEF InOrder, B
  <2> QED
    <3> SUFFICES ASSUME NEW i \in DOMAIN C, NEW j \in DOMAIN C,
                        C[i].key = C[j].key, C[i].hire = C[j].hire
                 PROVE  \/ C[i].epoch = C[j].epoch
                        \/ C[i].epoch + Day < C[j].epoch
                        \/ C[j].epoch + Day < C[i].epoch
      BY SMTT(30) DEF EpochsAreApart
    <3>1. CASE i \in DOMAIN B /\ j \in DOMAIN B
      BY <1>1, <2>2, <3>1 DEF EpochsAreApart
    <3>2. CASE i = n /\ j = n
      BY <3>2
    <3>3. CASE i = n /\ j \in DOMAIN B
      BY <1>1, <2>1, <3>3
    <3>4. CASE i \in DOMAIN B /\ j = n
      BY <1>1, <2>1, <3>4
    <3> QED
      BY <1>1, <3>1, <3>2, <3>3, <3>4
<1>9. TotalsAreRight(C)
  <2> SUFFICES ASSUME NEW j \in DOMAIN C
               PROVE  /\ C[j].total = DollarsOf(C, EpochUpTo(C, j))
                      /\ C[j].usd > 0 => C[j].total <= C[j].cap
    BY DEF TotalsAreRight
  <2>1. CASE j = n
    <3>1. EpochUpTo(C, n) = PaidInEpoch(B, k, s.hires[k], e.epoch) \cup {n}
      BY <1>1, <1>5b DEF EpochUpTo, PaidInEpoch
    <3>2. DollarsOf(C, PaidInEpoch(B, k, s.hires[k], e.epoch) \cup {n})
            = DollarsOf(B, PaidInEpoch(B, k, s.hires[k], e.epoch)) + e.usd
      BY <1>5, <1>5a
    <3> QED
      BY <1>1, <1>5, <2>1, <3>1, <3>2
  <2>2. CASE j \in DOMAIN B
    <3>1. 1..j \subseteq DOMAIN B
      BY <1>1, <2>2
    <3>2. EpochUpTo(C, j) = EpochUpTo(B, j) /\ EpochUpTo(B, j) \subseteq DOMAIN B
      BY <1>1, <2>2, <3>1 DEF EpochUpTo
    <3>3. DollarsOf(C, EpochUpTo(B, j)) = DollarsOf(B, EpochUpTo(B, j))
      BY <3>2, <1>5a
    <3>4. /\ B[j].total = DollarsOf(B, EpochUpTo(B, j))
          /\ B[j].usd > 0 => B[j].total <= B[j].cap
      BY <2>2 DEF InOrder, TotalsAreRight, B
    <3> QED
      BY <1>1, <2>2, <3>2, <3>3, <3>4
  <2> QED
    BY <1>1, <2>1, <2>2
<1>10. SpendMatches(s2)
  <2> SUFFICES ASSUME NEW j \in SessionKeys
               PROVE  s2.policies[j].spentThisEpoch =
                        DollarsOf(C, PaidInEpoch(C, j, s.hires[j], s2.policies[j].epochStart))
    BY DEF SpendMatches, C
  <2>1. CASE j = k
    <3>1. PaidInEpoch(C, k, s.hires[k], e.epoch)
            = PaidInEpoch(B, k, s.hires[k], e.epoch) \cup {n}
      BY <1>1 DEF PaidInEpoch
    <3>2. DollarsOf(C, PaidInEpoch(B, k, s.hires[k], e.epoch) \cup {n})
            = DollarsOf(B, PaidInEpoch(B, k, s.hires[k], e.epoch)) + e.usd
      BY <1>5, <1>5a
    <3> QED
      BY <1>5, <2>1, <3>1, <3>2
  <2>2. CASE j # k
    <3> DEFINE I == PaidInEpoch(B, j, s.hires[j], s.policies[j].epochStart)
    <3>1. I \in SUBSET DOMAIN B
      BY DEF PaidInEpoch
    <3>2. PaidInEpoch(C, j, s.hires[j], s.policies[j].epochStart) = I
      BY <1>1, <2>2 DEF PaidInEpoch
    <3> HIDE DEF I
    <3>3. DollarsOf(C, I) = DollarsOf(B, I)
      BY <3>1, <1>5a
    <3>4. s.policies[j].spentThisEpoch = DollarsOf(B, I)
      BY DEF InOrder, SpendMatches, I, B
    <3> QED
      BY <2>2, <3>2, <3>3, <3>4
  <2> QED
    BY <2>1, <2>2
<1>11. s2.balance + EtherOf(C, DOMAIN C) = s2.funded
  <2>1. EtherOf(C, DOMAIN B \cup {n}) = EtherOf(B, DOMAIN B) + e.call.value
    BY <1>5a
  <2>2. s.balance + EtherOf(B, DOMAIN B) = s.funded
    BY DEF InOrder, B
  <2>3. EtherOf(B, DOMAIN B) \in Nat /\ s.balance \in Nat /\ s.funded \in Nat
    BY <1>1, StorageParts, LedgerSums
  <2> QED
    BY <1>1, <1>2, <2>1, <2>2, <2>3, SMTT(30)
<1> QED
  BY <1>6, <1>7, <1>8, <1>9, <1>10, <1>11 DEF InOrder, C

-----------------------------------------------------------------------------
(***************************************************************************)
(* Every step of the wallet keeps the books.                               *)
(***************************************************************************)

\* A payment for k within the daily cap, as execute and approve make it.
Pays(k, id, call, usd) ==
  /\ StartCall(k, id, call, usd)
  /\ usd > 0 => RolledSpent(policies[k], now) + usd <= policies[k].dailyCapUsd
  /\ UNCHANGED <<now, hires, funded>>

\* A step that does not touch the books.
LeavesBooks ==
  /\ \A k \in SessionKeys :
       /\ policies'[k].epochStart = policies[k].epochStart
       /\ policies'[k].spentThisEpoch = policies[k].spentThisEpoch
  /\ UNCHANGED <<hires, ledger>>
  /\ balance' + funded = balance + funded'
  /\ \/ UNCHANGED <<now, frames>>
     \/ CallSucceeds
     \/ Tick

\* A direct payment the policy let through without the owner is within the cap.
LEMMA OKIsWithinTheCap ==
  ASSUME NEW p \in AgentPolicy, NEW routers, NEW call, NEW tier, NEW usd \in Nat,
         NEW t \in Nat, Evaluate(p, routers, call, tier, usd, t) = "OK", usd > 0
  PROVE  RolledSpent(p, t) + usd <= p.dailyCapUsd
<1>1. usd <= Remaining(p, t)
  <2>1. p.dailyCapUsd \in Nat /\ RolledSpent(p, t) \in Nat /\ Remaining(p, t) \in Nat
    BY DEF AgentPolicy, RolledSpent, Remaining
  <2>2. ~(usd > Remaining(p, t))
    BY DEF Evaluate
  <2> QED
    BY <2>1, <2>2
<1>2. p.dailyCapUsd \in Nat /\ RolledSpent(p, t) \in Nat
  BY DEF AgentPolicy, RolledSpent
<1> QED
  BY <1>1, <1>2 DEF Remaining

\* What a step can do to the books.
LEMMA BooksSteps ==
  ASSUME Typed, [Next]_vars
  PROVE  \/ LeavesBooks
         \/ \E k \in SessionKeys, p \in HirePolicies : HireAgent(k, p)
         \/ \E k \in SessionKeys, id \in Nat, call \in Call, usd \in Nat :
              Pays(k, id, call, usd)
         \/ CallFails
<1>0. balance \in Nat /\ funded \in Nat
  BY DEF Typed
<1>1. ASSUME UNCHANGED <<now, policies, hires, ledger, balance, funded, frames>>
      PROVE  LeavesBooks
  BY <1>0, <1>1 DEF LeavesBooks
<1>2. ASSUME NEW k \in SessionKeys, NEW p \in HirePolicies, UpdatePolicy(k, p)
      PROVE  LeavesBooks
  <2>1. p \in AgentPolicy
    BY WalletAssumption
  <2>2. /\ UpdatedPolicy(k, p).epochStart = policies[k].epochStart
        /\ UpdatedPolicy(k, p).spentThisEpoch = policies[k].spentThisEpoch
    BY <2>1 DEF UpdatedPolicy, AgentPolicy
  <2>3. /\ policies' = [policies EXCEPT ![k] = UpdatedPolicy(k, p)]
        /\ UNCHANGED <<now, hires, ledger, balance, funded, frames>>
    BY <1>2 DEF UpdatePolicy
  <2> QED
    BY <1>0, <2>2, <2>3 DEF LeavesBooks, Typed
<1>3. ASSUME NEW k \in SessionKeys, NEW f \in BOOLEAN, SetFrozen(k, f)
      PROVE  LeavesBooks
  <2>1. policies[k] \in AgentPolicy
    BY DEF Typed
  <2>2. /\ [policies[k] EXCEPT !.frozen = f].epochStart = policies[k].epochStart
        /\ [policies[k] EXCEPT !.frozen = f].spentThisEpoch = policies[k].spentThisEpoch
    BY <2>1 DEF AgentPolicy
  <2>3. /\ policies' = [policies EXCEPT ![k] = [policies[k] EXCEPT !.frozen = f]]
        /\ UNCHANGED <<now, hires, ledger, balance, funded, frames>>
    BY <1>3 DEF SetFrozen
  <2> QED
    BY <1>0, <2>2, <2>3 DEF LeavesBooks, Typed
<1>4. ASSUME NEW id \in 1..MaxProposals, Approve(id)
      PROVE  \E k \in SessionKeys, i \in Nat, call \in Call, usd \in Nat :
               Pays(k, i, call, usd)
  <2> DEFINE a == pendingApprovals[id]
  <2>1. a \in PendingApproval /\ id \in Nat
    BY <1>4 DEF Typed, Approve, IsOpen
  <2>2. a.sessionKey \in SessionKeys /\ a.call \in Call /\ a.usdValue \in Nat
    BY <2>1 DEF PendingApproval
  <2>3. Pays(a.sessionKey, id, a.call, a.usdValue)
    BY <1>4 DEF Approve, Pays, FitsDailyCap
  <2> HIDE DEF a
  <2> QED
    BY <2>1, <2>2, <2>3
<1>5. ASSUME NEW k \in SessionKeys, NEW call \in Calls, NEW tier, NEW usd \in Nat,
             Verdict(k, call, tier, usd) = "OK", CommitAndCall(k, call, usd)
      PROVE  Pays(k, NoId, call, usd)
  <2>1. policies[k] \in AgentPolicy /\ now \in Nat
    BY DEF Typed
  <2>2. usd > 0 => RolledSpent(policies[k], now) + usd <= policies[k].dailyCapUsd
    BY <1>5, <2>1, OKIsWithinTheCap DEF Verdict
  <2> QED
    BY <1>5, <2>2 DEF CommitAndCall, Pays
<1>6. CASE OwnerStep
  <2>1. \/ UNCHANGED <<now, policies, hires, ledger, balance, funded, frames>>
        \/ \E k \in SessionKeys, p \in HirePolicies : HireAgent(k, p) \/ UpdatePolicy(k, p)
        \/ \E k \in SessionKeys, f \in BOOLEAN : SetFrozen(k, f)
        \/ \E id \in 1..MaxProposals : Approve(id)
    BY <1>6 DEF OwnerStep, TransferOwnership, AcceptOwnership, RenounceOwnership,
                FreezeAgent, UnfreezeAgent, SetKnownRouter, Deny, config
  <2> QED
    BY <1>1, <1>2, <1>3, <1>4, <2>1
<1>7. CASE SessionStep
  <2>1. PICK k \in SessionKeys, call \in Calls, tier \in Tier :
          \E usd \in DollarValues(call) :
            \/ Execute(k, call, tier, usd)
            \/ TryExecute(k, call, tier, usd)
            \/ Propose(k, call, tier, usd)
    BY <1>7 DEF SessionStep
  <2>2. PICK usd \in DollarValues(call) :
            \/ Execute(k, call, tier, usd)
            \/ TryExecute(k, call, tier, usd)
            \/ Propose(k, call, tier, usd)
    BY <2>1
  <2>3. usd \in Nat /\ call \in Call /\ NoId \in Nat
    BY WalletAssumption, ValuesAreNat DEF NoId
  <2>4. \/ UNCHANGED <<now, policies, hires, ledger, balance, funded, frames>>
        \/ Verdict(k, call, tier, usd) = "OK" /\ CommitAndCall(k, call, usd)
    BY <2>2 DEF Execute, TryExecute, Propose, EnqueueProposal, vars, config
  <2> QED
    BY <1>1, <1>5, <2>3, <2>4
<1>8. ASSUME NEW v \in Deposits, Fund(v)
      PROVE  LeavesBooks
  <2>1. v \in Nat
    BY WalletAssumption
  <2> QED
    BY <1>0, <1>8, <2>1 DEF LeavesBooks, Fund, config
<1>9. CASE CallSucceeds
  BY <1>0, <1>9 DEF LeavesBooks, CallSucceeds, config
<1>10. CASE Tick
  BY <1>0, <1>10 DEF LeavesBooks, Tick, config
<1>11. CASE UNCHANGED vars
  BY <1>1, <1>11 DEF vars, config
<1> QED
  BY <1>6, <1>7, <1>8, <1>9, <1>10, <1>11 DEF Next

\* The storage is the variables.
LEMMA CurrentParts ==
  /\ CurrentStorage.policies = policies /\ CurrentStorage.hires = hires
  /\ CurrentStorage.ledger = ledger
  /\ CurrentStorage.balance = balance /\ CurrentStorage.funded = funded
BY DEF CurrentStorage

LEMMA BooksStep == BooksInv /\ [Next]_vars => BooksInv'
<1> SUFFICES ASSUME BooksInv, [Next]_vars
             PROVE  BooksInv'
  OBVIOUS
<1> DEFINE s == CurrentStorage
           s2 == CurrentStorage'
<1>1. Typed /\ Typed'
  BY TypedStep DEF BooksInv
<1>2. s \in Storage /\ s2 \in Storage /\ now \in Nat /\ now' \in Nat
  BY <1>1 DEF Typed, CurrentStorage, Storage
<1>3. /\ s.policies = policies /\ s.hires = hires /\ s.ledger = ledger
      /\ s.balance = balance /\ s.funded = funded
      /\ s2.policies = policies' /\ s2.hires = hires' /\ s2.ledger = ledger'
      /\ s2.balance = balance' /\ s2.funded = funded'
  BY DEF CurrentStorage
<1> HIDE DEF s, s2
<1>4. InOrder(s, now) /\ \A n \in DOMAIN frames : frames[n] \in Storage /\ InOrder(frames[n], now)
  BY <1>1 DEF BooksInv, s, Typed
<1>5. CASE LeavesBooks
  <2>1. now <= now'
    BY <1>2, <1>5 DEF LeavesBooks, CallSucceeds, Tick
  <2>2. InOrder(s2, now')
    BY <1>2, <1>3, <1>4, <1>5, <2>1, QuietInOrder DEF LeavesBooks
  <2>3. \A n \in DOMAIN frames' : n \in DOMAIN frames /\ frames'[n] = frames[n] /\ now' = now
    <3>1. CASE UNCHANGED <<now, frames>>
      BY <3>1
    <3>2. CASE CallSucceeds
      BY <1>1, <3>2 DEF CallSucceeds, Typed
    <3>3. CASE Tick
      BY <3>3 DEF Tick
    <3> QED
      BY <1>5, <3>1, <3>2, <3>3 DEF LeavesBooks
  <2> QED
    BY <1>1, <1>4, <2>2, <2>3 DEF BooksInv, s2
<1>6. ASSUME NEW k \in SessionKeys, NEW p \in HirePolicies, HireAgent(k, p)
      PROVE  BooksInv'
  <2>1. /\ policies' = [policies EXCEPT ![k] = HiredPolicy(p)]
        /\ hires' = [hires EXCEPT ![k] = @ + 1]
        /\ UNCHANGED <<ledger, balance, funded, now, frames>>
    BY <1>6 DEF HireAgent
  <2>2. HiredPolicy(p).epochStart = now /\ HiredPolicy(p).spentThisEpoch = 0
    <3>1. p \in AgentPolicy
      BY WalletAssumption
    <3> QED
      BY <3>1 DEF HiredPolicy, AgentPolicy
  <2>3. InOrder(s2, now)
    <3> DEFINE h == HiredPolicy(p)
    <3>1. /\ s2.policies = [s.policies EXCEPT ![k] = h]
          /\ s2.hires = [s.hires EXCEPT ![k] = s.hires[k] + 1]
          /\ s2.ledger = s.ledger /\ s2.balance = s.balance /\ s2.funded = s.funded
      BY <1>3, <2>1
    <3>2. h.epochStart = now /\ h.spentThisEpoch = 0
      BY <2>2
    <3> HIDE DEF h
    <3> QED
      BY <1>2, <1>4, <3>1, <3>2, HireInOrder
  <2> QED
    BY <1>1, <1>4, <2>1, <2>3 DEF BooksInv, s2
<1>7. ASSUME NEW k \in SessionKeys, NEW id \in Nat, NEW call \in Call, NEW usd \in Nat,
             Pays(k, id, call, usd)
      PROVE  BooksInv'
  <2> DEFINE charged == Charge(policies[k], usd, now)
             e == [key |-> k, id |-> id, call |-> call, usd |-> usd, at |-> now,
                   hire |-> hires[k], epoch |-> charged.epochStart,
                   total |-> charged.spentThisEpoch, cap |-> charged.dailyCapUsd]
  <2>1. policies[k] \in AgentPolicy /\ hires[k] \in Nat
    BY <1>1 DEF Typed
  <2>2. /\ charged \in AgentPolicy
        /\ charged.dailyCapUsd = policies[k].dailyCapUsd
        /\ charged.epochStart = RolledEpochStart(policies[k], now)
        /\ charged.spentThisEpoch = RolledSpent(policies[k], now) + usd
    BY <1>2, <2>1, ChargeIsPolicy
  <2>3. /\ balance' = balance - call.value
        /\ frames' = Append(frames, s)
        /\ policies' = [policies EXCEPT ![k] = charged]
        /\ ledger' = Append(ledger, e)
        /\ UNCHANGED <<now, hires, funded>>
    BY <1>7 DEF Pays, StartCall, s
  <2>4. usd > 0 => RolledSpent(policies[k], now) + usd <= policies[k].dailyCapUsd
    BY <1>7 DEF Pays
  <2> HIDE DEF charged
  <2>5. /\ e \in Entry
        /\ e.key = k /\ e.at = now /\ e.hire = hires[k] /\ e.usd = usd /\ e.call = call
        /\ e.epoch = charged.epochStart /\ e.total = charged.spentThisEpoch
        /\ e.cap = charged.dailyCapUsd
    BY <1>2, <2>1, <2>2 DEF Entry, AgentPolicy
  <2>6. policies'[k] = charged /\ \A j \in SessionKeys : j # k => policies'[j] = policies[j]
    BY <1>1, <2>3 DEF Typed
  <2> HIDE DEF e
  <2>7. InOrder(s2, now)
    <3>1. /\ e.hire = s.hires[k]
          /\ e.epoch = RolledEpochStart(s.policies[k], now)
          /\ e.total = RolledSpent(s.policies[k], now) + e.usd
          /\ e.usd > 0 => e.total <= e.cap
      BY <1>3, <2>2, <2>4, <2>5
    <3>2. /\ s2.policies[k].epochStart = e.epoch
          /\ s2.policies[k].spentThisEpoch = e.total
          /\ \A j \in SessionKeys : j # k => s2.policies[j] = s.policies[j]
          /\ s2.hires = s.hires /\ s2.funded = s.funded
          /\ s2.balance = s.balance - e.call.value
          /\ s2.ledger = Append(s.ledger, e)
      BY <1>3, <2>3, <2>5, <2>6
    <3> QED
      BY <1>2, <1>4, <2>5, <3>1, <3>2, PaymentInOrder
  <2>8. \A n \in DOMAIN frames' :
          \/ n \in DOMAIN frames /\ frames'[n] = frames[n]
          \/ frames'[n] = s
    BY <1>1, <1>2, <2>3 DEF Typed
  <2> QED
    BY <1>1, <1>4, <2>3, <2>7, <2>8 DEF BooksInv, s2
<1>8. CASE CallFails
  <2> DEFINE f == frames[Len(frames)]
  <2>1. Len(frames) \in DOMAIN frames
    BY <1>1, <1>8 DEF CallFails, Typed
  <2>2. /\ policies' = f.policies /\ hires' = f.hires /\ ledger' = f.ledger
        /\ balance' = f.balance /\ funded' = f.funded /\ now' = now
        /\ frames' = SubSeq(frames, 1, Len(frames) - 1)
    BY <1>8 DEF CallFails
  <2>3. f \in Storage /\ InOrder(f, now)
    BY <1>4, <2>1
  <2> HIDE DEF f
  <2>4. InOrder(s2, now)
    <3>1. f.balance \in Nat /\ f.funded \in Nat
      BY <2>3, StorageParts
    <3> QED
      BY <1>2, <1>3, <2>2, <2>3, <3>1, QuietInOrder
  <2>5. \A n \in DOMAIN frames' : n \in DOMAIN frames /\ frames'[n] = frames[n]
    BY <1>1, <2>2 DEF Typed
  <2> QED
    BY <1>1, <1>4, <2>2, <2>4, <2>5 DEF BooksInv, s2
<1> QED
  BY <1>1, <1>5, <1>6, <1>7, <1>8, BooksSteps

LEMMA BooksInvAlways == Spec => []BooksInv
<1>1. Init => BooksInv
  <2> SUFFICES ASSUME Init
               PROVE  BooksInv
    OBVIOUS
  <2>1. Typed
    BY WalletAssumption DEF Init, Typed, NoPolicy, AgentPolicy, Tier
  <2>2. /\ \A k \in SessionKeys : policies[k] = NoPolicy
        /\ ledger = <<>> /\ frames = <<>> /\ balance = 0 /\ funded = 0 /\ now = 0
        /\ DOMAIN ledger = {}
    BY DEF Init
  <2>3. /\ EtherOf(ledger, DOMAIN ledger) = 0
        /\ \A I \in SUBSET DOMAIN ledger : DollarsOf(ledger, I) = 0
    BY <2>2, SumOfNone DEF DollarsOf, EtherOf
  <2>4. \A k \in SessionKeys : /\ policies[k].epochStart = 0
                               /\ policies[k].spentThisEpoch = 0
    BY <2>2 DEF NoPolicy
  <2>5. SpendMatches(CurrentStorage)
    <3>1. \A k, h, t : PaidInEpoch(ledger, k, h, t) \in SUBSET DOMAIN ledger
      BY DEF PaidInEpoch
    <3> QED
      BY <2>3, <2>4, <3>1, CurrentParts DEF SpendMatches
  <2>6. InOrder(CurrentStorage, now)
    BY <2>2, <2>3, <2>4, <2>5, CurrentParts
       DEF InOrder, EntriesAreTimely, EpochsAreApart, TotalsAreRight
  <2> QED
    BY <2>1, <2>2, <2>6 DEF BooksInv
<1> QED
  BY <1>1, BooksStep, PTL DEF Spec

\* What a policy says was spent is what the ledger shows was paid, whatever
\* the callees do and whichever calls fail.
THEOREM BooksMatchLedgerAlways == Spec => []BooksMatchLedger
<1>1. BooksInv => BooksMatchLedger
  BY CurrentParts DEF BooksInv, InOrder, SpendMatches, BooksMatchLedger
<1> QED
  BY <1>1, BooksInvAlways, PTL

\* No ether leaves the wallet but by a payment in the ledger.
THEOREM EtherIsAccountedForAlways == Spec => []EtherIsAccountedFor
<1>1. BooksInv => EtherIsAccountedFor
  BY CurrentParts DEF BooksInv, InOrder, EtherIsAccountedFor
<1> QED
  BY <1>1, BooksInvAlways, PTL

-----------------------------------------------------------------------------
(***************************************************************************)
(* A day of payments.                                                      *)
(***************************************************************************)

\* Payments of one epoch, as many as you take, are worth nothing or no more
\* than the cap in force at one of them: the last one that is worth anything.
LEMMA PartOfAnEpoch ==
  ASSUME NEW B \in Seq(Entry), TotalsAreRight(B), NEW S \in SUBSET DOMAIN B,
         \A i, j \in S : /\ B[i].key = B[j].key
                         /\ B[i].hire = B[j].hire
                         /\ B[i].epoch = B[j].epoch
  PROVE  DollarsOf(B, S) = 0 \/ \E i \in S : DollarsOf(B, S) <= B[i].cap
<1> DEFINE f == [i \in DOMAIN B |-> B[i].usd]
           Kept(R) == DollarsOf(B, R) = 0 \/ \E i \in R : DollarsOf(B, R) <= B[i].cap
           Bad == {R \in SUBSET S : ~Kept(R)}
<1> SUFFICES ASSUME Bad # {} PROVE FALSE
  OBVIOUS
<1>1. PICK m \in Bad : \A u \in Bad : u \subseteq m => u = m
  <2>1. Bad \in SUBSET (SUBSET S) /\ IsFiniteSet(S)
    BY LedgerSums
  <2> HIDE DEF Bad
  <2> QED
    BY <2>1, SmallestSubset
<1>2. m \in SUBSET DOMAIN B /\ m \subseteq S /\ ~Kept(m)
  OBVIOUS
<1>3. IsFiniteSet(m) /\ SumsInNat(f, m) /\ DollarsOf(B, m) \in Nat
  BY <1>2, LedgerSums
<1>4. m # {}
  BY <1>2, SumOfNone DEF DollarsOf
<1>5. m \subseteq Int
  <2>1. DOMAIN B = 1..Len(B) /\ Len(B) \in Nat
    OBVIOUS
  <2> QED
    BY <1>2, <2>1
<1>6. PICK n \in m : \A i \in m : n >= i
  <2> HIDE DEF Bad
  <2> QED
    BY <1>3, <1>4, <1>5, LargestOne
<1>7. /\ n \in DOMAIN B /\ B[n] \in Entry
      /\ B[n].usd \in Nat /\ B[n].cap \in Nat /\ B[n].total \in Nat
      /\ n \in Nat
  <2>1. n \in DOMAIN B /\ B[n] \in Entry
    BY <1>2
  <2>2. n \in Nat
    BY <2>1
  <2> QED
    BY <2>1, <2>2 DEF Entry
<1>8. CASE B[n].usd > 0
  <2>1. B[n].total = DollarsOf(B, EpochUpTo(B, n)) /\ B[n].total <= B[n].cap
    BY <1>7, <1>8 DEF TotalsAreRight
  <2>2. EpochUpTo(B, n) \in SUBSET DOMAIN B
    BY <1>7 DEF EpochUpTo
  <2>3. m \subseteq EpochUpTo(B, n)
    <3>1. \A i \in m : i \in 1..n
      BY <1>2, <1>5, <1>6, <1>7
    <3> QED
      BY <1>2, <1>6, <3>1 DEF EpochUpTo
  <2>4. DollarsOf(B, m) <= DollarsOf(B, EpochUpTo(B, n))
    <3>1. IsFiniteSet(EpochUpTo(B, n)) /\ SumsInNat(f, EpochUpTo(B, n))
      BY <2>2, LedgerSums
    <3> QED
      BY <2>3, <3>1, SumOfPart DEF DollarsOf
  <2>5. DollarsOf(B, m) <= B[n].cap
    BY <1>3, <1>7, <2>1, <2>4
  <2> QED
    BY <1>2, <1>6, <2>5
<1>9. CASE B[n].usd = 0
  <2> DEFINE v == m \ {n}
  <2>1. DollarsOf(B, m) = f[n] + DollarsOf(B, v)
    BY <1>3, <1>6, SumWithout DEF DollarsOf
  <2>2. v \subseteq m /\ v # m /\ DollarsOf(B, v) \in Nat
    BY <1>2, <1>6, LedgerSums
  <2>3. Kept(v)
    BY <1>1, <1>2, <2>2
  <2>4. DollarsOf(B, m) = DollarsOf(B, v)
    BY <1>7, <1>9, <2>1, <2>2
  <2> QED
    BY <1>2, <2>2, <2>3, <2>4
<1> QED
  BY <1>7, <1>8, <1>9

\* The epochs of one hire are more than a day apart, so a day meets two.
LEMMA TwoEpochsADay ==
  ASSUME BooksInv, NEW k \in SessionKeys, NEW h \in Nat, NEW t \in Nat,
         NEW i \in PaidInWindow(k, h, t), NEW j \in PaidInWindow(k, h, t),
         NEW l \in PaidInWindow(k, h, t),
         ledger[j].epoch # ledger[i].epoch, ledger[l].epoch # ledger[i].epoch
  PROVE  ledger[j].epoch = ledger[l].epoch
<1> DEFINE a == ledger[i].epoch
           b == ledger[j].epoch
           c == ledger[l].epoch
<1>1. /\ i \in DOMAIN ledger /\ j \in DOMAIN ledger /\ l \in DOMAIN ledger
      /\ ledger[i].key = k /\ ledger[j].key = k /\ ledger[l].key = k
      /\ ledger[i].hire = h /\ ledger[j].hire = h /\ ledger[l].hire = h
  BY DEF PaidInWindow
<1>2. \A n \in PaidInWindow(k, h, t) :
        /\ ledger[n].epoch \in Nat /\ ledger[n].epoch <= t + Day /\ t <= ledger[n].epoch + Day
  <2> SUFFICES ASSUME NEW n \in PaidInWindow(k, h, t)
               PROVE  /\ ledger[n].epoch \in Nat
                      /\ ledger[n].epoch <= t + Day /\ t <= ledger[n].epoch + Day
    OBVIOUS
  <2>1. n \in DOMAIN ledger /\ t <= ledger[n].at /\ ledger[n].at <= t + Day
    BY DEF PaidInWindow
  <2>2. ledger[n] \in Entry
    BY <2>1 DEF BooksInv, Typed
  <2>3. ledger[n].epoch <= ledger[n].at /\ ledger[n].at <= ledger[n].epoch + Day
    BY <2>1, CurrentParts DEF BooksInv, InOrder, EntriesAreTimely
  <2>4. ledger[n].epoch \in Nat /\ ledger[n].at \in Nat /\ Day \in Nat
    BY <2>2, DayAssumption DEF Entry
  <2> QED
    BY <2>1, <2>3, <2>4
<1>3. EpochsAreApart(ledger)
  BY CurrentParts DEF BooksInv, InOrder
<1>4. /\ a + Day < b \/ b + Day < a
      /\ a + Day < c \/ c + Day < a
      /\ b = c \/ b + Day < c \/ c + Day < b
  BY <1>1, <1>3 DEF EpochsAreApart
<1>5. /\ a \in Nat /\ b \in Nat /\ c \in Nat /\ Day \in Nat
      /\ a <= t + Day /\ t <= a + Day
      /\ b <= t + Day /\ t <= b + Day
      /\ c <= t + Day /\ t <= c + Day
  BY <1>2, DayAssumption
<1> HIDE DEF a, b, c
<1>6. b = c
  BY <1>4, <1>5
<1> QED
  BY <1>6 DEF b, c

\* A key hired once is paid at most twice the highest cap in force within
\* any window of a day, however direct and approved payments interleave.
THEOREM AtMostTwoCapsADayAlways == Spec => []AtMostTwoCapsADay
<1>1. BooksInv => AtMostTwoCapsADay
  <2> SUFFICES ASSUME BooksInv, NEW k \in SessionKeys, NEW t \in 0..now,
                      NEW h \in 1..hires[k], PaidInWindow(k, h, t) # {}
               PROVE  LET I == PaidInWindow(k, h, t) IN
                        DollarsOf(ledger, I) <= 2 * Max({ledger[i].cap : i \in I})
    BY DEF AtMostTwoCapsADay
  <2> DEFINE I == PaidInWindow(k, h, t)
             caps == {ledger[i].cap : i \in I}
             top == Max(caps)
  <2>1. /\ ledger \in Seq(Entry) /\ TotalsAreRight(ledger) /\ t \in Nat /\ h \in Nat
        /\ I \in SUBSET DOMAIN ledger
    BY CurrentParts DEF BooksInv, InOrder, Typed, PaidInWindow
  <2>2. IsFiniteSet(I) /\ \A i \in I : ledger[i].cap \in Nat
    <3>1. IsFiniteSet(I)
      BY <2>1, LedgerSums
    <3>2. \A i \in I : ledger[i] \in Entry
      BY <2>1
    <3> QED
      BY <3>1, <3>2 DEF Entry
  <2>3. top \in caps /\ \A c \in caps : c <= top
    <3>1. IsFiniteSet(caps)
      <4> DEFINE capOf == [i \in I |-> ledger[i].cap]
      <4>1. caps = {capOf[i] : i \in I}
        OBVIOUS
      <4> HIDE DEF capOf, caps, I
      <4> QED
        BY <2>2, <4>1, FiniteValues
    <3>2. caps \subseteq Int /\ caps # {}
      BY <2>2
    <3>3. \E x \in caps : \A y \in caps : x >= y
      BY <3>1, <3>2, LargestOne
    <3> HIDE DEF caps
    <3>4. top = CHOOSE x \in caps : \A y \in caps : x >= y
      BY DEF Max
    <3>5. top \in caps /\ \A y \in caps : top >= y
      BY <3>3, <3>4
    <3> QED
      BY <3>2, <3>5
  <2>4. top \in Nat /\ \A i \in I : ledger[i].cap <= top
    BY <2>2, <2>3
  <2>5. PICK i \in I : TRUE
    OBVIOUS
  <2> DEFINE I1 == {j \in I : ledger[j].epoch = ledger[i].epoch}
             I2 == {j \in I : ledger[j].epoch # ledger[i].epoch}
  <2>6. I1 \in SUBSET DOMAIN ledger /\ I2 \in SUBSET DOMAIN ledger
        /\ I = I1 \cup I2 /\ I1 \cap I2 = {}
    BY <2>1
  <2>7. \A j, l \in I : ledger[j].key = ledger[l].key /\ ledger[j].hire = ledger[l].hire
    BY DEF PaidInWindow
  <2>8. \A j, l \in I2 : ledger[j].epoch = ledger[l].epoch
    BY <2>1, TwoEpochsADay
  <2> HIDE DEF top, I
  <2>9. \A J \in {I1, I2} :
          DollarsOf(ledger, J) = 0 \/ \E j \in J : DollarsOf(ledger, J) <= ledger[j].cap
    BY <2>1, <2>6, <2>7, <2>8, PartOfAnEpoch
  <2>10. DollarsOf(ledger, I1) \in Nat /\ DollarsOf(ledger, I2) \in Nat
         /\ DollarsOf(ledger, I) = DollarsOf(ledger, I1) + DollarsOf(ledger, I2)
    <3> DEFINE f == [j \in DOMAIN ledger |-> ledger[j].usd]
    <3>1. /\ IsFiniteSet(I1) /\ SumsInNat(f, I1) /\ IsFiniteSet(I2) /\ SumsInNat(f, I2)
          /\ DollarsOf(ledger, I1) \in Nat /\ DollarsOf(ledger, I2) \in Nat
      BY <2>1, <2>6, LedgerSums
    <3> HIDE DEF I1, I2
    <3>2. SumFunctionOnSet(f, I1 \cup I2) = SumFunctionOnSet(f, I1) + SumFunctionOnSet(f, I2)
      BY <2>6, <3>1, SumOfBoth
    <3> QED
      BY <2>6, <3>1, <3>2 DEF DollarsOf
  <2>11. DollarsOf(ledger, I1) <= top /\ DollarsOf(ledger, I2) <= top
    BY <2>2, <2>4, <2>6, <2>9, <2>10
  <2> QED
    BY <2>4, <2>10, <2>11 DEF top, I
<1> QED
  BY <1>1, BooksInvAlways, PTL
=============================================================================
