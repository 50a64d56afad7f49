---------------------------- MODULE DemoDirector ----------------------------
(***************************************************************************)
(* The demo director over the runtime: an operator asks for a beat, which  *)
(* pays at once, or for a reset, which deletes the wallet's rows, and each *)
(* leaves a DemoRun row that tells how it went.  A flag in the service     *)
(* keeps the actions apart; a request that meets it is answered 409.  A    *)
(* request that the guard refuses changes nothing and is left out.         *)
(***************************************************************************)
EXTENDS AgentRuntime, Sequences

CONSTANTS
  Requests,    \* POST /demo/beat/:n and POST /demo/reset under way together
  MaxActions   \* bound on the actions let through

ASSUME DirectorAssumption == MaxActions \in Nat

VARIABLES
  running,      \* the service's flag
  requests,     \* where each request is
  demoRuns,     \* the DemoRun rows
  interrupted   \* history: the runs nobody was left to finish

directorVars == <<running, requests, demoRuns, interrupted>>

NoRun == 0
NotAsked == [step |-> "none", kind |-> "none", run |-> NoRun, outcome |-> "none"]
Under(r, step) == requests[r].step = step

DirectorInit ==
  /\ Init
  /\ running = FALSE /\ requests = [r \in Requests |-> NotAsked]
  /\ demoRuns = <<>> /\ interrupted = {}

Move(r, step) == requests' = [requests EXCEPT ![r].step = step]

\* The finally of withSingleFlight.
Release(r) == running' = FALSE /\ requests' = [requests EXCEPT ![r] = NotAsked]

-----------------------------------------------------------------------------
(* A request, from await to await. *)

\* Mutant: resets do not mind beats.
FreeForAReset(kind) == kind = "reset" \/ ~running

Free(kind) == ~running

Post(r, kind) ==
  /\ Under(r, "none") /\ Free(kind)
  /\ Len(demoRuns) < MaxActions
  /\ running' = TRUE
  /\ requests' = [requests EXCEPT ![r] = [NotAsked EXCEPT !.step = "asked", !.kind = kind]]
  /\ UNCHANGED <<vars, demoRuns, interrupted>>

\* Mutant: the flag is put back only by an action that ran.
RefusedKeepsFlag(r) ==
  /\ Under(r, "asked")
  /\ requests' = [requests EXCEPT ![r] = NotAsked]
  /\ UNCHANGED <<vars, running, demoRuns, interrupted>>

\* 422 for an owner without a wallet, or the database throws.
RefusedEarly(r) ==
  /\ Under(r, "asked") /\ Release(r)
  /\ UNCHANGED <<vars, demoRuns, interrupted>>

\* The owner's wallet is found, and the row is there before anything is done.
OpenRun(r) ==
  /\ Under(r, "asked")
  /\ demoRuns' = Append(demoRuns,
       [kind |-> requests[r].kind, status |-> "RUNNING", intent |-> NoIntent])
  /\ requests' = [requests EXCEPT ![r].step = "opened", ![r].run = Len(demoRuns')]
  /\ UNCHANGED <<vars, running, interrupted>>

\* What Close will write.
Outcome(r, status) ==
  requests' = [requests EXCEPT ![r].step = "closing", ![r].outcome = status]

\* No policy, a frozen one, nobody to pay; no block number, a transaction
\* that throws.
ActionThrows(r) ==
  /\ requests[r].step \in {"opened", "clearing"}
  /\ Outcome(r, "FAILED")
  /\ UNCHANGED <<vars, running, demoRuns, interrupted>>

Close(r) ==
  /\ Under(r, "closing")
  /\ demoRuns' = [demoRuns EXCEPT ![requests[r].run].status = requests[r].outcome]
  /\ Release(r)
  /\ UNCHANGED <<vars, interrupted>>

\* Writing SUCCEEDED is inside the try: a run that cannot be told to have
\* succeeded is told to have failed, if that can be written.
CloseThrows(r) ==
  /\ Under(r, "closing")
  /\ IF requests[r].outcome = "SUCCEEDED"
       THEN Outcome(r, "FAILED") /\ UNCHANGED <<running, interrupted>>
       ELSE Release(r) /\ interrupted' = interrupted \cup {requests[r].run}
  /\ UNCHANGED <<vars, demoRuns>>

-----------------------------------------------------------------------------
(* A reset: the block number first, then one transaction. *)

BlockNumber(r) ==
  /\ Under(r, "opened") /\ requests[r].kind = "reset" /\ Move(r, "clearing")
  /\ UNCHANGED <<vars, running, demoRuns, interrupted>>

ClearWalletFeed(r) ==
  /\ Under(r, "clearing") /\ ClearRows
  /\ Outcome(r, "SUCCEEDED")
  /\ UNCHANGED <<running, demoRuns, interrupted>>

-----------------------------------------------------------------------------
(* A beat: submitAgentPayment, with what becomes of its promise. *)

Dispatch(r) ==
  /\ Under(r, "opened") /\ requests[r].kind = "beat" /\ BeginBeat
  /\ Move(r, "paying")
  /\ UNCHANGED <<running, demoRuns, interrupted>>

PlanBeat(r) ==
  /\ Under(r, "paying") /\ Plan(Beat)
  /\ demoRuns' = [demoRuns EXCEPT ![requests[r].run].intent = planned']
  /\ UNCHANGED <<running, requests, interrupted>>

SendBeat(r) ==
  /\ Under(r, "paying")
  /\ Broadcast(Beat) \/ (StoreHash(Beat) /\ ~At(Beat, "idle")')
  /\ UNCHANGED directorVars

\* Mutant: the beat does not wait for the receipt.
BeatReturnsEarly(r) ==
  /\ Under(r, "paying")
  /\ \/ Receipt(Beat) \/ SubmitThrows(Beat)
     \/ /\ At(Beat, "waiting") /\ Throws(Beat)
        /\ UNCHANGED <<now, chainVars, mirrorStart, indexed, intents, planned, faults, resets>>
  /\ Outcome(r, "SUCCEEDED")
  /\ UNCHANGED <<running, demoRuns, interrupted>>

\* A submission that throws is caught, and the promise is kept.
BeatReturns(r) ==
  /\ Under(r, "paying")
  /\ Receipt(Beat) \/ SubmitThrows(Beat)
  /\ Outcome(r, "SUCCEEDED")
  /\ UNCHANGED <<running, demoRuns, interrupted>>

\* Mutant: what a beat throws is not caught.
BeatThrowsUncaught(r) ==
  /\ Under(r, "paying")
  /\ \/ ReceiptTimesOut(Beat) \/ StepThrows(Beat)
     \/ StoreHash(Beat) /\ At(Beat, "idle")'
  /\ Release(r)
  /\ UNCHANGED <<demoRuns, interrupted>>

BeatThrows(r) ==
  /\ Under(r, "paying")
  /\ \/ ReceiptTimesOut(Beat) \/ StepThrows(Beat)
     \/ StoreHash(Beat) /\ At(Beat, "idle")'
  /\ Outcome(r, "FAILED")
  /\ UNCHANGED <<running, demoRuns, interrupted>>

-----------------------------------------------------------------------------
(* The rest of the runtime. *)

\* A crash leaves the flag down and the row as it is.
DirectorCrash ==
  /\ Crash
  /\ running' = FALSE /\ requests' = [r \in Requests |-> NotAsked]
  /\ interrupted' = interrupted \cup ({requests[r].run : r \in Requests} \ {NoRun})
  /\ UNCHANGED demoRuns

Elsewhere ==
  /\ \/ \E r \in Runs : StartRun(r)
     \/ \E j \in Runs : JobStep(j) \/ SubmitThrows(j) \/ StepThrows(j)
     \/ Tock \/ Reconcile
     \/ \E k \in IntentId : Include(k) \/ IndexCall(k)
  /\ UNCHANGED directorVars

RequestStep(r) ==
  \/ OpenRun(r) \/ RefusedEarly(r)
  \/ ActionThrows(r) \/ Close(r)
  \/ BlockNumber(r) \/ ClearWalletFeed(r)
  \/ Dispatch(r) \/ PlanBeat(r) \/ SendBeat(r) \/ BeatReturns(r) \/ BeatThrows(r)

DirectorNext ==
  \/ \E r \in Requests, kind \in {"beat", "reset"} : Post(r, kind)
  \/ \E r \in Requests : RequestStep(r) \/ CloseThrows(r)
  \/ DirectorCrash
  \/ Elsewhere

\* Every await of a request comes to an end: the transport of the chain and
\* of the database give up in time, and so does the wait for a receipt.
DirectorSpec ==
  /\ DirectorInit /\ [][DirectorNext]_<<vars, directorVars>>
  /\ \A r \in Requests : WF_<<vars, directorVars>>(RequestStep(r))

-----------------------------------------------------------------------------

\* The director is the runtime's: no reset meets a beat and no beat another,
\* so that what is proved of the runtime holds for whoever presses the
\* director's buttons (withSingleFlight).
IsRuntime == Spec

\* A run that reads RUNNING is under way, or was interrupted by a crash or
\* by the database refusing its last word: no throw on the way leaves a run
\* behind (executeBeat and executeReset).
OnlyInterruptedRunsHang ==
  \A i \in DOMAIN demoRuns :
    demoRuns[i].status = "RUNNING" =>
      \/ i \in interrupted
      \/ \E r \in Requests : requests[r].run = i

\* "Ran" is said of a beat that the chain has decided on, or that was not
\* taken by the node and has a row that says so; rows that a reset deletes
\* say nothing (submitAgentPayment's two ways to return).
RanMeansDecided ==
  \A i \in DOMAIN demoRuns :
    LET run == demoRuns[i] IN
    run.kind = "beat" /\ run.status = "SUCCEEDED" =>
      \/ run.intent \in DOMAIN calls /\ calls[run.intent] # "pool"
      \/ run.intent \in DOMAIN intents => intents[run.intent].status = "FAILED"

\* The flag comes down again: the director does not answer 409 for ever.
\* The bound on payments is the model's.
FlagComesDown == running ~> (~running \/ planned = MaxIntents)
=============================================================================
