---------------------------- MODULE TrustService ----------------------------
(***************************************************************************)
(* The tiers the application shows: the service that refreshes every       *)
(* agent's row from the registries, and the operator's script that         *)
(* registers a showcase agent.                                             *)
(*                                                                         *)
(* The refresh is on a timer that does not wait for the last one to end,   *)
(* so there are several: each has its own snapshot of the rows and         *)
(* suspends at every read.  The configuration is one promise that all      *)
(* share.  The script may be killed at any step and run again.             *)
(***************************************************************************)
EXTENDS TrustReader, FiniteSets

CONSTANTS
  Seeded,         \* the accounts whose rows are there at first
  Ticks,          \* the refreshes that may be under way at once
  Showcase,       \* the account the script registers
  ShowcaseCount,  \* the number of ratings the script gives it
  ShowcaseRating, \* ... and their value
  MaxFaults       \* bound on reads and writes that fail

ASSUME ServiceAssumption ==
  /\ Seeded \subseteq Accounts /\ Showcase \in Accounts /\ ShowcaseCount \in Nat /\ MaxFaults \in Nat
  /\ ShowcaseRating \in [value : Int, decimals : Nat]

VARIABLES
  row,       \* the Agent rows: erc8004AgentId and trustTier
  config,    \* configPromise
  tick,      \* the refreshes under way
  cause,     \* (history) whether a refresh has seen a reason to flag its agent
  script,    \* the operator's script
  faults

serviceVars == <<config, tick, cause, faults>>
vars == <<registryVars, agentIdOf, row, serviceVars, script>>

Failed == "failed"          \* refreshTier's { ok: false }
Pending == "pending"        \* no result yet
Nobody == NoAccount         \* no agent under way
Rows == {a \in Accounts : row[a].exists}

\* Waiting for the timer: no agent under way and none to do.
IdleTick == [todo |-> {}, ids |-> [a \in Accounts |-> NoId], at |-> Nobody,
             phase |-> "next", result |-> Pending]
ScriptOff == [phase |-> "off", id |-> NoId, left |-> 0]

Init ==
  /\ RegistryInit
  /\ row = [a \in Accounts |-> [exists |-> a \in Seeded, id |-> NoId, tier |-> "FLAGGED"]]
  /\ config = "none" /\ script = ScriptOff /\ faults = 0
  /\ tick = [t \in Ticks |-> IdleTick] /\ cause = [t \in Ticks |-> FALSE]

-----------------------------------------------------------------------------
(***************************************************************************)
(* The refresh.                                                            *)
(***************************************************************************)
Fault == faults < MaxFaults /\ faults' = faults + 1

Refreshing(t) == tick[t].at # Nobody
Unmatched(a, id) == id = NoId \/ wallet[id] # a

Becomes(t, phase, result) ==
  tick' = [tick EXCEPT ![t] = [@ EXCEPT !.phase = phase, !.result = result]]

Begins(t, a, phase, result) ==
  tick' = [tick EXCEPT ![t] = [@ EXCEPT !.todo = tick[t].todo \ {a}, !.at = a,
                                        !.phase = phase, !.result = result]]

\* findMany: the agents and their ids as of now.
StartTick(t) ==
  /\ tick[t] = IdleTick /\ Rows # {}
  /\ tick' = [tick EXCEPT ![t] = [IdleTick EXCEPT !.todo = Rows,
                !.ids = [a \in Accounts |-> IF a \in Rows THEN row[a].id ELSE NoId]]]
  /\ UNCHANGED <<registryVars, agentIdOf, row, config, cause, faults, script>>

\* refreshTier up to its first await, getTrustConfig included.
NextAgent(t, a) ==
  /\ ~Refreshing(t) /\ a \in tick[t].todo
  /\ LET id == tick[t].ids[a] IN
       /\ cause' = [cause EXCEPT ![t] = Unmatched(a, id)]
       /\ \/ /\ id = NoId
             /\ Begins(t, a, "write", "FLAGGED") /\ config' = config
          \/ /\ id # NoId /\ config = "ready"
             /\ Begins(t, a, "wallet", Pending) /\ config' = config
          \/ /\ id # NoId /\ config # "ready"
             /\ Begins(t, a, "config", Pending) /\ config' = "pending"
  /\ UNCHANGED <<registryVars, agentIdOf, row, faults, script>>

\* All the refreshes that await the promise go on with its outcome.
Awaiting == {t \in Ticks : tick[t].phase = "config"}
\* Mutant: only one of them does.
ResumeOne(phase, result) ==
  tick' = [t \in Ticks |-> IF Awaiting # {} /\ t = CHOOSE u \in Awaiting : TRUE
                           THEN [tick[t] EXCEPT !.phase = phase, !.result = result]
                           ELSE tick[t]]
Resume(phase, result) ==
  tick' = [t \in Ticks |-> IF t \in Awaiting
                           THEN [tick[t] EXCEPT !.phase = phase, !.result = result]
                           ELSE tick[t]]

ConfigResolves ==
  /\ config = "pending" /\ config' = "ready"
  /\ Resume("wallet", Pending)
  /\ UNCHANGED <<registryVars, agentIdOf, row, cause, faults, script>>

\* A configuration that failed is forgotten.
ConfigFails ==
  /\ config = "pending" /\ Fault /\ config' = "none"
  /\ Resume("write", Failed)
  /\ UNCHANGED <<registryVars, agentIdOf, row, cause, script>>

ReadWallet(t) ==
  /\ tick[t].phase = "wallet"
  /\ IF Unmatched(tick[t].at, tick[t].ids[tick[t].at])
     THEN Becomes(t, "write", "FLAGGED")
     ELSE Becomes(t, "feedback", Pending)
  /\ UNCHANGED <<registryVars, agentIdOf, row, config, cause, faults, script>>

\* The tier of an id from its ratings, as the service works it out: it takes
\* those it can scale, by their place among the ratings, and their average.
TierFromRatings(id) ==
  LET ratings == feedback[id]
      usable == {i \in DOMAIN ratings : ratings[i].decimals <= MaxDecimals}
      scaled == [i \in usable |-> ratings[i].value * 10 ^ (MaxDecimals - ratings[i].decimals)]
      count == Cardinality(usable)
      average == IF count > 0 THEN Quotient(SumFunction(scaled), count) ELSE 0
  IN  IF count >= MinCount /\ average >= Wad(MinScore) THEN "VERIFIED" ELSE "NEW"

ReadFeedback(t) ==
  /\ tick[t].phase = "feedback"
  /\ Becomes(t, "write", IF up THEN TierFromRatings(tick[t].ids[tick[t].at]) ELSE Failed)
  /\ UNCHANGED <<registryVars, agentIdOf, row, config, cause, faults, script>>

\* Mutant: a read that fails flags the agent.
ReadFailsFlags(t) ==
  /\ tick[t].phase \in {"wallet", "feedback"} /\ Fault
  /\ Becomes(t, "write", "FLAGGED")
  /\ UNCHANGED <<registryVars, agentIdOf, row, config, cause, script>>
ReadFails(t) ==
  /\ tick[t].phase \in {"wallet", "feedback"} /\ Fault
  /\ Becomes(t, "write", Failed)
  /\ UNCHANGED <<registryVars, agentIdOf, row, config, cause, script>>

\* Done with an agent, and with the tick when it was the last.
Onwards(t) ==
  tick' = [tick EXCEPT ![t] = IF @.todo = {} THEN IdleTick
                              ELSE [@ EXCEPT !.at = Nobody, !.phase = "next", !.result = Pending]]

\* Mutant: a badge is never taken away.
WriteRowKeepsBadge(t) ==
  /\ tick[t].phase = "write"
  /\ row' = IF tick[t].result \in {Failed, "FLAGGED"} THEN row
            ELSE [row EXCEPT ![tick[t].at].tier = tick[t].result]
  /\ Onwards(t) /\ cause' = [cause EXCEPT ![t] = FALSE]
  /\ UNCHANGED <<registryVars, agentIdOf, config, faults, script>>

\* A refresh that failed updates the summary alone, which is not kept here.
WriteRow(t) ==
  /\ tick[t].phase = "write"
  /\ row' = IF tick[t].result = Failed THEN row
            ELSE [row EXCEPT ![tick[t].at].tier = tick[t].result]
  /\ Onwards(t) /\ cause' = [cause EXCEPT ![t] = FALSE]
  /\ UNCHANGED <<registryVars, agentIdOf, config, faults, script>>

\* The update throws; the loop catches it and goes on.
WriteFails(t) ==
  /\ tick[t].phase = "write" /\ Fault
  /\ Onwards(t) /\ cause' = [cause EXCEPT ![t] = FALSE]
  /\ UNCHANGED <<registryVars, agentIdOf, row, config, script>>

-----------------------------------------------------------------------------
(***************************************************************************)
(* registerShowcaseAgent.                                                  *)
(***************************************************************************)
\* An agent with an id in its row is only synced again; for another, the
\* registration is simulated, and the id the simulation returned is kept.
RunScript ==
  /\ script = ScriptOff
  /\ script' = IF row[Showcase].exists /\ row[Showcase].id # NoId
               THEN [phase |-> "resync", id |-> row[Showcase].id, left |-> 0]
               ELSE [phase |-> "register", id |-> NextId, left |-> 0]
  /\ UNCHANGED <<registryVars, agentIdOf, row, serviceVars>>

\* The transaction is mined.
Register ==
  /\ script.phase = "register" /\ RegistryAdds(Showcase)
  /\ script' = [script EXCEPT !.phase = "rate", !.left = ShowcaseCount]
  /\ UNCHANGED <<agentIdOf, row, serviceVars>>

GiveRating ==
  /\ script.phase = "rate" /\ script.left > 0
  /\ RegistryRates(script.id, ShowcaseRating)
  /\ script' = [script EXCEPT !.left = @ - 1]
  /\ UNCHANGED <<strange, agentIdOf, row, serviceVars>>

SyncTrustReader ==
  /\ \/ /\ script.phase = "rate" /\ script.left = 0
        /\ script' = [script EXCEPT !.phase = "upsert"]
     \/ /\ script.phase = "resync" /\ script' = ScriptOff
  /\ CacheAgent(script.id)
  /\ UNCHANGED <<registryVars, row, serviceVars>>

UpsertAgent ==
  /\ script.phase = "upsert" /\ script' = ScriptOff
  /\ row' = [row EXCEPT ![Showcase] = [@ EXCEPT !.exists = TRUE, !.id = script.id]]
  /\ UNCHANGED <<registryVars, agentIdOf, serviceVars>>

ScriptDies ==
  /\ script # ScriptOff /\ script' = ScriptOff
  /\ UNCHANGED <<registryVars, agentIdOf, row, serviceVars>>

-----------------------------------------------------------------------------
\* A stranger's call moves an id away from its agent while it is refreshed.
MoveWallet(id, account) ==
  /\ RegistryMoves(id, account)
  /\ cause' = [t \in Ticks |-> cause[t] \/ (Refreshing(t) /\ tick[t].ids[tick[t].at] = id
                                            /\ account # tick[t].at)]
  /\ UNCHANGED <<agentIdOf, row, config, tick, faults, script>>

Stranger ==
  \/ /\ \/ \E a \in Accounts : RegistryAdds(a)
        \/ \E id \in Ids, r \in Ratings : Bounded /\ RegistryRates(id, r)
        \/ Outage
        \/ OutageEnds
     /\ UNCHANGED <<agentIdOf, row, serviceVars, script>>
  \/ \E id \in Ids, a \in Accounts \cup {NoAccount} : MoveWallet(id, a)

SyncAgent(id) ==
  /\ CacheAgent(id)
  /\ UNCHANGED <<registryVars, row, serviceVars, script>>

TickStep(t) ==
  \/ StartTick(t)
  \/ \E a \in Accounts : NextAgent(t, a)
  \/ ReadWallet(t)
  \/ ReadFeedback(t)
  \/ WriteRow(t)

ScriptStep == RunScript \/ Register \/ GiveRating \/ SyncTrustReader \/ UpsertAgent

Next ==
  \/ \E t \in Ticks : TickStep(t) \/ ReadFails(t) \/ WriteFails(t)
  \/ ConfigResolves
  \/ ConfigFails
  \/ ScriptStep
  \/ ScriptDies
  \/ Stranger
  \/ \E id \in Ids : SyncAgent(id)

Spec == Init /\ [][Next]_vars

\* The timer fires for ever and every read and write is answered, with a
\* result or an error.
FairSpec == Spec /\ (\A t \in Ticks : WF_vars(TickStep(t))) /\ WF_vars(ConfigResolves)
=============================================================================
