---------------------------- MODULE AgentRuntime ----------------------------
(***************************************************************************)
(* The agent runtime: the backend pays with an agent's session key, for    *)
(* one wallet that has hired the agent.  Every payment is an Intent row    *)
(* first, then a tryExecute transaction, then the transaction's hash in    *)
(* the row, then the wait for the receipt.  The indexer settles the row    *)
(* when it meets the transaction's event and knows the hash.               *)
(*                                                                         *)
(* A timer runs the agent every minute; a run pays unless a row says that  *)
(* the epoch has its payment.  The demo director pays on demand, without   *)
(* asking, and can delete the wallet's rows.  The villain is this module   *)
(* with another key, target and amount.                                    *)
(*                                                                         *)
(* Every await is a step: other jobs, the chain and the indexer move in    *)
(* between.  The epoch is read from the mirrored policy, which the indexer *)
(* reconciles when the owner changes, freezes or approves something, and   *)
(* not when the agent pays.                                                *)
(***************************************************************************)
EXTENDS Integers, FiniteSets

CONSTANTS
  Runs,        \* firings of the timer that may be under way together
  Beat,        \* the director's job
  Epoch,       \* the length of an epoch
  MaxNow,      \* bound on time
  MaxIntents,  \* bound on the payments planned
  MaxFaults,   \* bound on calls that throw and on crashes
  MaxResets    \* bound on resets

ASSUME RuntimeAssumption ==
  /\ Beat \notin Runs
  /\ Epoch \in Nat \ {0} /\ MaxNow \in Nat
  /\ MaxIntents \in Nat /\ MaxFaults \in Nat /\ MaxResets \in Nat

VARIABLES
  now,          \* the clock of the chain and of the backend
  epochStart,   \* of the agent's policy, on the chain
  mirrorStart,  \* of its mirror
  calls,        \* the transactions, named by the intent they were sent for
  charged,      \* history: the start of the epoch a payment was charged to
  indexed,      \* the transactions whose events the indexer has handled
  intents,      \* the Intent rows
  planned,      \* how many rows were ever created
  job,          \* what each job is at
  faults, resets

chainVars == <<epochStart, calls, charged>>
vars == <<now, chainVars, mirrorStart, indexed, intents, planned, job, faults, resets>>

Jobs == Runs \cup {Beat}
IntentId == 1..MaxIntents

IntentStatus == {"PLANNED", "SUBMITTED", "CONFIRMED", "BLOCKED", "FAILED"}
CallStatus == {"pool", "executed", "blocked", "queued", "reverted"}

\* A row: hash says whether the transaction's hash is stored.  by and under
\* (not columns) are the job that created it and the epoch it had read.
Intent == [status : IntentStatus, hash : BOOLEAN, created : Nat, by : Jobs, under : Int]

\* due: has to pay; planned: has its row; sent: has a hash; waiting: stored
\* it and waits for the receipt.
Phase == {"idle", "read", "due", "planned", "sent", "waiting"}
NoIntent == 0
NoEpoch == -1
Resting == [phase |-> "idle", under |-> NoEpoch, id |-> NoIntent]

Init ==
  /\ now = 0 /\ epochStart = 0 /\ mirrorStart = 0
  /\ calls = [k \in {} |-> "pool"]
  /\ charged = [k \in {} |-> 0]
  /\ indexed = {}
  /\ intents = [k \in {} |-> NoIntent]
  /\ planned = 0
  /\ job = [j \in Jobs |-> Resting]
  /\ faults = 0 /\ resets = 0

At(j, phase) == job[j].phase = phase

\* f with f[k] = v, whether or not k was in its domain.
Put(f, k, v) == [x \in DOMAIN f \cup {k} |-> IF x = k THEN v ELSE f[x]]

Fault == faults < MaxFaults /\ faults' = faults + 1

-----------------------------------------------------------------------------
(***************************************************************************)
(* A run of the timer: read the mirrored policy, then ask the rows.        *)
(***************************************************************************)
\* Mutant: the timer's firings overlap.
NotRunningDropped == TRUE

NotRunning == \A r \in Runs : At(r, "idle")

StartRun(r) ==
  /\ NotRunning /\ At(r, "idle")
  /\ job' = [job EXCEPT ![r] = [phase |-> "read", under |-> mirrorStart, id |-> NoIntent]]
  /\ UNCHANGED <<now, chainVars, mirrorStart, indexed, intents, planned, faults, resets>>

\* A payment that failed does not count, so it is tried again.
HasActed(start) ==
  /\ now <= start + Epoch
  /\ \E k \in DOMAIN intents :
       intents[k].created >= start /\ intents[k].status # "FAILED"

AskRows(r) ==
  /\ At(r, "read")
  /\ job' = [job EXCEPT ![r] =
       IF HasActed(job[r].under) THEN Resting ELSE [@ EXCEPT !.phase = "due"]]
  /\ UNCHANGED <<now, chainVars, mirrorStart, indexed, intents, planned, faults, resets>>

-----------------------------------------------------------------------------
(***************************************************************************)
(* The director: one action at a time.                                     *)
(***************************************************************************)
\* Mutant: a reset does not wait for the beat.
NoActionRunningDropped == TRUE

NoActionRunning == At(Beat, "idle")

\* A beat, from where it has the policy to pay under.
BeginBeat ==
  /\ job' = [job EXCEPT ![Beat] = [phase |-> "due", under |-> NoEpoch, id |-> NoIntent]]
  /\ UNCHANGED <<now, chainVars, mirrorStart, indexed, intents, planned, faults, resets>>

StartBeat == NoActionRunning /\ At(Beat, "idle") /\ BeginBeat

\* clearWalletFeed, as far as the runtime goes.
ClearRows ==
  /\ resets < MaxResets /\ resets' = resets + 1
  /\ intents' = [k \in {} |-> NoIntent]
  /\ UNCHANGED <<now, chainVars, mirrorStart, indexed, planned, job, faults>>

Reset == NoActionRunning /\ ClearRows

-----------------------------------------------------------------------------
(***************************************************************************)
(* submitAgentPayment.                                                     *)
(***************************************************************************)
Plan(j) ==
  /\ At(j, "due")
  /\ planned < MaxIntents
  /\ planned' = planned + 1
  /\ intents' = Put(intents, planned',
       [status |-> "PLANNED", hash |-> FALSE, created |-> now,
        by |-> j, under |-> job[j].under])
  /\ job' = [job EXCEPT ![j].phase = "planned", ![j].id = planned']
  /\ UNCHANGED <<now, chainVars, mirrorStart, indexed, faults, resets>>

\* A row the director has deleted cannot be updated: the update throws.
Update(k, status, hash) ==
  intents' = IF k \in DOMAIN intents
             THEN [intents EXCEPT ![k].status = status, ![k].hash = hash]
             ELSE intents

\* Mutant: the row has the hash as soon as the transaction is out.
BroadcastWithHash(j) ==
  /\ At(j, "planned")
  /\ calls' = Put(calls, job[j].id, "pool")
  /\ Update(job[j].id, "SUBMITTED", TRUE)
  /\ job' = [job EXCEPT ![j].phase = "sent"]
  /\ UNCHANGED <<now, epochStart, charged, mirrorStart, indexed, planned, faults, resets>>

Broadcast(j) ==
  /\ At(j, "planned")
  /\ calls' = Put(calls, job[j].id, "pool")
  /\ job' = [job EXCEPT ![j].phase = "sent"]
  /\ UNCHANGED <<now, epochStart, charged, mirrorStart, indexed, intents, planned,
                 faults, resets>>

Throws(j) == job' = [job EXCEPT ![j] = Resting]

\* The submission throws: refused, or sent and the answer lost.
SubmitThrows(j) ==
  /\ At(j, "planned")
  /\ Fault
  /\ \/ UNCHANGED calls
     \/ calls' = Put(calls, job[j].id, "pool")
  /\ Update(job[j].id, "FAILED", FALSE)
  /\ Throws(j)
  /\ UNCHANGED <<now, epochStart, charged, mirrorStart, indexed, planned, resets>>

StoreHash(j) ==
  /\ At(j, "sent")
  /\ Update(job[j].id, "SUBMITTED", TRUE)
  /\ IF job[j].id \in DOMAIN intents
     THEN job' = [job EXCEPT ![j].phase = "waiting"]
     ELSE Throws(j)
  /\ UNCHANGED <<now, chainVars, mirrorStart, indexed, planned, faults, resets>>

\* Mutant: whatever is not a payment is marked as failed.
ReceiptOfNoPayment(j) ==
  /\ At(j, "waiting") /\ calls[job[j].id] # "pool"
  /\ IF calls[job[j].id] # "executed"
     THEN Update(job[j].id, "FAILED", TRUE) ELSE UNCHANGED intents
  /\ job' = [job EXCEPT ![j] = Resting]
  /\ UNCHANGED <<now, chainVars, mirrorStart, indexed, planned, faults, resets>>

\* A reverted transaction has no event, so the row is settled here.
Receipt(j) ==
  /\ At(j, "waiting") /\ calls[job[j].id] # "pool"
  /\ IF calls[job[j].id] = "reverted"
     THEN Update(job[j].id, "FAILED", TRUE) ELSE UNCHANGED intents
  /\ job' = [job EXCEPT ![j] = Resting]
  /\ UNCHANGED <<now, chainVars, mirrorStart, indexed, planned, faults, resets>>

\* The wait for a receipt has a limit of its own.
ReceiptTimesOut(j) ==
  /\ At(j, "waiting") /\ calls[job[j].id] = "pool"
  /\ Throws(j)
  /\ UNCHANGED <<now, chainVars, mirrorStart, indexed, intents, planned, faults, resets>>

\* A database or RPC call throws: the per-wallet catch, or the director's.
StepThrows(j) ==
  /\ ~At(j, "idle")
  /\ Fault
  /\ Throws(j)
  /\ UNCHANGED <<now, chainVars, mirrorStart, indexed, intents, planned, resets>>

Crash ==
  /\ Fault
  /\ job' = [j \in Jobs |-> Resting]
  /\ UNCHANGED <<now, chainVars, mirrorStart, indexed, intents, planned, resets>>

-----------------------------------------------------------------------------
(***************************************************************************)
(* The chain and the indexer.                                              *)
(***************************************************************************)
Tock ==
  /\ now < MaxNow /\ now' = now + 1
  /\ UNCHANGED <<chainVars, mirrorStart, indexed, intents, planned, job, faults, resets>>

\* A payment opens a new epoch if the last one is over.
Include(k) ==
  /\ k \in DOMAIN calls /\ calls[k] = "pool"
  /\ \/ /\ calls' = [calls EXCEPT ![k] = "executed"]
        /\ epochStart' = IF now > epochStart + Epoch THEN now ELSE epochStart
        /\ charged' = Put(charged, k, epochStart')
     \/ /\ \E s \in {"blocked", "queued", "reverted"} : calls' = [calls EXCEPT ![k] = s]
        /\ UNCHANGED <<epochStart, charged>>
  /\ UNCHANGED <<now, mirrorStart, indexed, intents, planned, job, faults, resets>>

\* The row is found by its hash, if it has one by now.  A proposal settles
\* no row.
IndexCall(k) ==
  /\ k \in DOMAIN calls \ indexed
  /\ calls[k] \in {"executed", "blocked", "queued"}
  /\ indexed' = indexed \cup {k}
  /\ IF k \in DOMAIN intents /\ intents[k].hash /\ calls[k] # "queued"
     THEN Update(k, IF calls[k] = "executed" THEN "CONFIRMED" ELSE "BLOCKED", TRUE)
     ELSE UNCHANGED intents
  /\ UNCHANGED <<now, chainVars, mirrorStart, planned, job, faults, resets>>

\* An event that refreshes the mirror is indexed.
Reconcile ==
  /\ mirrorStart # epochStart
  /\ mirrorStart' = epochStart
  /\ UNCHANGED <<now, chainVars, indexed, intents, planned, job, faults, resets>>

-----------------------------------------------------------------------------
JobStep(j) ==
  \/ j \in Runs /\ AskRows(j)
  \/ Plan(j) \/ Broadcast(j) \/ StoreHash(j) \/ Receipt(j) \/ ReceiptTimesOut(j)

Next ==
  \/ \E r \in Runs : StartRun(r)
  \/ StartBeat \/ Reset
  \/ \E j \in Jobs : JobStep(j) \/ SubmitThrows(j) \/ StepThrows(j)
  \/ Crash
  \/ Tock \/ Reconcile
  \/ \E k \in IntentId : Include(k) \/ IndexCall(k)

Spec == Init /\ [][Next]_vars
=============================================================================
