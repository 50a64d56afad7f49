---------------------------- MODULE AgentProofs -----------------------------
(***************************************************************************)
(* Theorems about the agent runtime, for every number of overlapping       *)
(* firings, every epoch length and every value of the bounds; that the     *)
(* director implements the runtime, for every number of requests, so that  *)
(* they hold under it; and that no run is left behind.                     *)
(***************************************************************************)
EXTENDS DemoDirector, AgentProperties, TLAPS

\* Where a job is tells which row and which transaction it works with, and no
\* two jobs work with the same.
Places ==
  \A j \in Jobs :
    /\ job[j].phase \in {"idle", "read", "due"} => job[j].id = NoIntent
    /\ job[j].phase \in {"planned", "sent", "waiting"} => job[j].id \in 1..planned
    /\ \A i \in Jobs : i # j /\ job[i].id = job[j].id => job[j].id = NoIntent
    /\ At(j, "planned") => job[j].id \notin DOMAIN calls
    /\ job[j].phase \in {"sent", "waiting"} => job[j].id \in DOMAIN calls

\* What a job has not yet written to its row, nobody has.
RowsOfJobs ==
  \A j \in Jobs : job[j].id \in DOMAIN intents =>
    /\ job[j].phase \in {"planned", "sent"} =>
         intents[job[j].id].status = "PLANNED" /\ ~intents[job[j].id].hash
    /\ At(j, "waiting") => intents[job[j].id].hash

\* OutcomesAreTrue, with the hash and the indexer's part in each status.
Rows ==
  \A k \in DOMAIN intents :
    /\ intents[k].hash => k \in DOMAIN calls /\ intents[k].status # "PLANNED"
    /\ intents[k].status = "SUBMITTED" => intents[k].hash
    /\ intents[k].status = "CONFIRMED" => k \in indexed /\ calls[k] = "executed"
    /\ intents[k].status = "BLOCKED" => k \in indexed /\ calls[k] = "blocked"
    /\ intents[k].status = "FAILED" /\ intents[k].hash => calls[k] = "reverted"

\* The mirrored epoch is one of the past, and a row's is older than the row.
Clocks ==
  /\ mirrorStart <= epochStart /\ epochStart <= now
  /\ \A r \in Runs : ~At(r, "idle") => job[r].under \in 0..mirrorStart
  /\ \A k \in DOMAIN intents :
       intents[k].by \in Runs => intents[k].under \in 0..intents[k].created

OneRun == \A r, s \in Runs : ~At(r, "idle") /\ ~At(s, "idle") => r = s

\* A run that found nothing keeps finding nothing until it has its own row.
DueIsClear ==
  \A r \in Runs : At(r, "due") =>
    \/ now > job[r].under + Epoch
    \/ \A k \in DOMAIN intents :
         InEpoch(k) /\ intents[k].under = job[r].under => intents[k].status = "FAILED"

IInv ==
  /\ TypeOK /\ Places /\ RowsOfJobs /\ Rows /\ Clocks
  /\ OneRun /\ DueIsClear /\ OneAttemptAnEpoch /\ BeatKeepsItsIntent

-----------------------------------------------------------------------------
(***************************************************************************)
(* What the steps are made of.                                             *)
(***************************************************************************)
JobRecord == [phase : Phase, under : Nat \cup {NoEpoch}, id : 0..MaxIntents]

\* Put defines one value and keeps the others.
LEMMA PutFacts ==
  ASSUME NEW f, NEW k, NEW v
  PROVE  /\ DOMAIN Put(f, k, v) = DOMAIN f \cup {k}
         /\ Put(f, k, v)[k] = v
         /\ \A x \in DOMAIN f : x # k => Put(f, k, v)[x] = f[x]
  BY DEF Put

\* What Update keeps of the rows, and what it writes into one.
RowsAfterUpdate(k, status, hash) ==
  /\ DOMAIN intents' = DOMAIN intents
  /\ \A x \in DOMAIN intents :
       /\ intents'[x] \in Intent
       /\ intents'[x].created = intents[x].created
       /\ intents'[x].by = intents[x].by
       /\ intents'[x].under = intents[x].under
       /\ x # k => intents'[x] = intents[x]
       /\ x = k => intents'[x].status = status /\ intents'[x].hash = hash

LEMMA UpdateFacts ==
  ASSUME TypeOK, NEW k, NEW status \in IntentStatus, NEW hash \in BOOLEAN,
         Update(k, status, hash)
  PROVE  RowsAfterUpdate(k, status, hash)
<1>1. \A x \in DOMAIN intents : intents[x] \in Intent
  BY DEF TypeOK
<1>2. CASE k \notin DOMAIN intents
  BY <1>1, <1>2 DEF Update, RowsAfterUpdate
<1>3. CASE k \in DOMAIN intents
  <2>1. intents' = [intents EXCEPT ![k] = [intents[k] EXCEPT !.status = status, !.hash = hash]]
    BY <1>3 DEF Update
  <2> DEFINE row == [intents[k] EXCEPT !.status = status, !.hash = hash]
  <2>2. /\ row \in Intent /\ row.status = status /\ row.hash = hash
        /\ row.created = intents[k].created /\ row.by = intents[k].by
        /\ row.under = intents[k].under
    BY <1>1, <1>3 DEF Intent
  <2>3. intents' = [intents EXCEPT ![k] = row]
    BY <2>1
  <2> HIDE DEF row
  <2>4. DOMAIN intents' = DOMAIN intents /\ intents'[k] = row
        /\ \A x \in DOMAIN intents : x # k => intents'[x] = intents[x]
    BY <1>3, <2>3
  <2> QED
    BY <1>1, <2>2, <2>4 DEF RowsAfterUpdate
<1> QED
  BY <1>2, <1>3

\* One job moves and the others stay.
OneJobMoves(j, r) ==
  /\ job' \in [Jobs -> JobRecord]
  /\ job'[j] = r
  /\ \A i \in Jobs : i # j => job'[i] = job[i]

LEMMA JobFacts ==
  ASSUME TypeOK, NEW j \in Jobs, NEW r \in JobRecord, job' = [job EXCEPT ![j] = r]
  PROVE  OneJobMoves(j, r)
  BY DEF TypeOK, OneJobMoves, JobRecord

LEMMA PhaseFacts ==
  ASSUME TypeOK, NEW j \in Jobs, NEW p \in Phase, job' = [job EXCEPT ![j].phase = p]
  PROVE  OneJobMoves(j, [phase |-> p, under |-> job[j].under, id |-> job[j].id])
<1>1. job \in [Jobs -> JobRecord]
  BY DEF TypeOK, JobRecord
<1>2. [job[j] EXCEPT !.phase = p] = [phase |-> p, under |-> job[j].under, id |-> job[j].id]
  BY <1>1 DEF JobRecord
<1>3. [phase |-> p, under |-> job[j].under, id |-> job[j].id] \in JobRecord
  BY <1>1 DEF JobRecord
<1> QED
  BY <1>2, <1>3, JobFacts

-----------------------------------------------------------------------------
LEMMA Initially == Init => IInv
<1> SUFFICES ASSUME Init PROVE IInv
  OBVIOUS
<1> USE RuntimeAssumption DEF Init
<1>1. \A j \in Jobs : job[j] = Resting
  OBVIOUS
<1>2. TypeOK
  BY DEF TypeOK, Resting, NoIntent, NoEpoch, Phase, At
<1>3. Places
  BY <1>1 DEF Places, Resting, NoIntent, At
<1>4. RowsOfJobs /\ Rows /\ OneAttemptAnEpoch /\ OneRun
  BY <1>1 DEF RowsOfJobs, Rows, OneAttemptAnEpoch, OneRun, Resting, Jobs, At
<1>5. Clocks /\ DueIsClear /\ BeatKeepsItsIntent
  BY <1>1 DEF Clocks, DueIsClear, BeatKeepsItsIntent, Resting, Jobs, At
<1> QED
  BY <1>2, <1>3, <1>4, <1>5 DEF IInv

-----------------------------------------------------------------------------
(***************************************************************************)
(* Steps that write no row.                                                *)
(***************************************************************************)
\* A job that stops holds nothing: this covers every way to throw.
LEMMA Rests ==
  ASSUME IInv, job' \in [Jobs -> JobRecord],
         \A j \in Jobs : job'[j] = Resting \/ job'[j] = job[j],
         UNCHANGED <<now, chainVars, mirrorStart, indexed, intents, planned>>
  PROVE  IInv'
<1> USE DEF chainVars
<1>0. Resting.phase = "idle" /\ Resting.id = NoIntent
  BY DEF Resting
<1>1. TypeOK'
  BY <1>0 DEF IInv, TypeOK, JobRecord, At
<1>2. Places'
  BY <1>0 DEF IInv, Places, At
<1>3. RowsOfJobs'
  <2>1. NoIntent \notin DOMAIN intents
    BY DEF IInv, TypeOK, NoIntent
  <2> QED
    BY <1>0, <2>1 DEF IInv, RowsOfJobs, At
<1>4. Rows' /\ OneAttemptAnEpoch'
  BY DEF IInv, Rows, OneAttemptAnEpoch, InEpoch
<1>5. Clocks' /\ OneRun' /\ DueIsClear'
  BY <1>0 DEF IInv, Clocks, OneRun, DueIsClear, InEpoch, At, Jobs
<1>6. BeatKeepsItsIntent'
  BY <1>0 DEF IInv, BeatKeepsItsIntent, Jobs
<1> QED
  BY <1>1, <1>2, <1>3, <1>4, <1>5, <1>6 DEF IInv

LEMMA RestsOne ==
  ASSUME IInv, NEW j \in Jobs, job' = [job EXCEPT ![j] = Resting],
         UNCHANGED <<now, chainVars, mirrorStart, indexed, intents, planned>>
  PROVE  IInv'
<1>1. Resting \in JobRecord
  BY RuntimeAssumption DEF Resting, JobRecord, Phase, NoEpoch, NoIntent
<1>2. OneJobMoves(j, Resting)
  BY <1>1, JobFacts DEF IInv
<1> QED
  BY <1>2, Rests DEF OneJobMoves

LEMMA StartRunKeeps ==
  ASSUME IInv, NEW r \in Runs, StartRun(r)
  PROVE  IInv'
<1> DEFINE new == [phase |-> "read", under |-> mirrorStart, id |-> NoIntent]
<1>1. new \in JobRecord /\ new.phase = "read" /\ new.under = mirrorStart /\ new.id = NoIntent
  BY RuntimeAssumption DEF IInv, TypeOK, JobRecord, Phase, NoIntent
<1>2. r \in Jobs /\ r # Beat
  BY RuntimeAssumption DEF Jobs
<1>3. OneJobMoves(r, new)
  BY <1>1, <1>2, JobFacts DEF IInv, StartRun
<1> HIDE DEF new
<1> USE DEF StartRun, chainVars
<1>4. TypeOK'
  BY <1>1, <1>3 DEF IInv, TypeOK, OneJobMoves, JobRecord, At
<1>5. Places'
  BY <1>1, <1>2, <1>3 DEF IInv, Places, OneJobMoves, At
<1>6. RowsOfJobs'
  BY <1>1, <1>3 DEF IInv, RowsOfJobs, OneJobMoves, At
<1>7. Rows' /\ OneAttemptAnEpoch'
  BY DEF IInv, Rows, OneAttemptAnEpoch, InEpoch
<1>8. Clocks'
  BY <1>1, <1>3 DEF IInv, TypeOK, Clocks, OneJobMoves, At, Jobs
<1>9. OneRun'
  BY <1>1, <1>3 DEF NotRunning, OneRun, OneJobMoves, At, Jobs
<1>10. DueIsClear' /\ BeatKeepsItsIntent'
  BY <1>1, <1>2, <1>3 DEF IInv, DueIsClear, BeatKeepsItsIntent, InEpoch, OneJobMoves, At, Jobs
<1> QED
  BY <1>4, <1>5, <1>6, <1>7, <1>8, <1>9, <1>10 DEF IInv

\* The run has to pay only if the rows say so.
LEMMA AskRowsKeeps ==
  ASSUME IInv, NEW r \in Runs, AskRows(r)
  PROVE  IInv'
<1>1. r \in Jobs /\ r # Beat
  BY RuntimeAssumption DEF Jobs
<1>2. CASE HasActed(job[r].under)
  <2>1. job' = [job EXCEPT ![r] = Resting]
    BY <1>2 DEF AskRows
  <2> QED
    BY <1>1, <2>1, RestsOne DEF AskRows
<1>3. CASE ~HasActed(job[r].under)
  <2> DEFINE new == [phase |-> "due", under |-> job[r].under, id |-> job[r].id]
  <2>0. "due" \in Phase
    BY DEF Phase
  <2>1. OneJobMoves(r, new)
    BY <1>1, <1>3, <2>0, PhaseFacts DEF IInv, AskRows
  <2>2. new.phase = "due" /\ new.under = job[r].under /\ new.id = job[r].id
    OBVIOUS
  <2>3. job[r].phase = "read" /\ job[r].id = NoIntent
    BY <1>1 DEF IInv, Places, AskRows, At
  <2> HIDE DEF new
  <2> USE DEF AskRows, chainVars
  <2>4. TypeOK'
    BY <2>1, <2>2 DEF IInv, TypeOK, OneJobMoves, JobRecord, At
  <2>5. Places'
    BY <1>1, <2>1, <2>2, <2>3 DEF IInv, Places, OneJobMoves, At
  <2>6. RowsOfJobs'
    BY <1>1, <2>1, <2>2, <2>3 DEF IInv, RowsOfJobs, OneJobMoves, At
  <2>7. Rows' /\ OneAttemptAnEpoch'
    BY DEF IInv, Rows, OneAttemptAnEpoch, InEpoch
  <2>8. Clocks' /\ OneRun'
    BY <1>1, <2>1, <2>2, <2>3 DEF IInv, Clocks, OneRun, OneJobMoves, At, Jobs
  <2>9. DueIsClear'
    <3>1. job[r].under \in Nat /\ now \in Nat
      BY <1>1, <2>3 DEF IInv, TypeOK, Clocks, At
    <3>2. \/ now > job[r].under + Epoch
          \/ \A k \in DOMAIN intents :
               intents[k].created >= job[r].under => intents[k].status = "FAILED"
      BY <1>3, <3>1, RuntimeAssumption DEF HasActed
    <3>3. \A k \in DOMAIN intents :
            InEpoch(k) /\ intents[k].under = job[r].under => intents[k].created >= job[r].under
      BY <3>1 DEF IInv, TypeOK, Clocks, Intent, InEpoch
    <3>4. \A s \in Runs : s # r => job'[s] = job[s]
      BY <2>1 DEF OneJobMoves, Jobs
    <3>5. job'[r].under = job[r].under
      BY <2>1, <2>2 DEF OneJobMoves
    <3> QED
      BY <3>2, <3>3, <3>4, <3>5 DEF IInv, DueIsClear, InEpoch, At
  <2>10. BeatKeepsItsIntent'
    BY <1>1, <2>1 DEF IInv, BeatKeepsItsIntent, OneJobMoves, Jobs
  <2> QED
    BY <2>4, <2>5, <2>6, <2>7, <2>8, <2>9, <2>10 DEF IInv
<1> QED
  BY <1>2, <1>3

LEMMA StartBeatKeeps ==
  ASSUME IInv, StartBeat
  PROVE  IInv'
<1> DEFINE new == [phase |-> "due", under |-> NoEpoch, id |-> NoIntent]
<1>1. new \in JobRecord /\ new.phase = "due" /\ new.id = NoIntent
  BY RuntimeAssumption DEF JobRecord, Phase, NoEpoch, NoIntent
<1>2. Beat \in Jobs /\ Beat \notin Runs
  BY RuntimeAssumption DEF Jobs
<1>3. OneJobMoves(Beat, new)
  BY <1>1, <1>2, JobFacts DEF IInv, StartBeat, BeginBeat
<1> HIDE DEF new
<1> USE DEF StartBeat, BeginBeat, chainVars
<1>4. TypeOK'
  BY <1>1, <1>3 DEF IInv, TypeOK, OneJobMoves, JobRecord, At
<1>5. Places'
  BY <1>1, <1>2, <1>3 DEF IInv, Places, OneJobMoves, At
<1>6. RowsOfJobs'
  BY <1>1, <1>3 DEF IInv, RowsOfJobs, OneJobMoves, At
<1>7. Rows' /\ OneAttemptAnEpoch'
  BY DEF IInv, Rows, OneAttemptAnEpoch, InEpoch
<1>8. Clocks' /\ OneRun' /\ DueIsClear'
  BY <1>2, <1>3 DEF IInv, Clocks, OneRun, DueIsClear, InEpoch, OneJobMoves, At, Jobs
<1>9. BeatKeepsItsIntent'
  BY <1>1, <1>3 DEF BeatKeepsItsIntent, OneJobMoves
<1> QED
  BY <1>4, <1>5, <1>6, <1>7, <1>8, <1>9 DEF IInv

\* The rows of the other jobs are other rows.
LEMMA OwnRow ==
  ASSUME IInv, NEW i \in Jobs, NEW j \in Jobs, i # j,
         job[j].phase \in {"planned", "sent", "waiting"}
  PROVE  job[i].id # job[j].id
<1>1. job[j].id # NoIntent
  BY DEF IInv, Places, NoIntent
<1> QED
  BY <1>1 DEF IInv, Places

\* The transaction is out, its intent has no transaction yet.
LEMMA BroadcastKeeps ==
  ASSUME IInv, NEW j \in Jobs, Broadcast(j)
  PROVE  IInv'
<1> DEFINE new == [phase |-> "sent", under |-> job[j].under, id |-> job[j].id]
<1>0. "sent" \in Phase
  BY DEF Phase
<1>1. OneJobMoves(j, new)
  BY <1>0, PhaseFacts DEF IInv, Broadcast
<1>2. new.phase = "sent" /\ new.under = job[j].under /\ new.id = job[j].id
  OBVIOUS
<1>3. job[j].phase = "planned" /\ job[j].id \in 1..planned /\ job[j].id \notin DOMAIN calls
  BY DEF IInv, Places, Broadcast, At
<1> HIDE DEF new
<1> USE DEF Broadcast, chainVars
<1>4. /\ DOMAIN calls' = DOMAIN calls \cup {job[j].id} /\ calls'[job[j].id] = "pool"
      /\ \A x \in DOMAIN calls : calls'[x] = calls[x]
  <2>1. calls' = Put(calls, job[j].id, "pool")
    OBVIOUS
  <2> QED
    BY <1>3, <2>1 DEF Put
<1>5. TypeOK'
  BY <1>1, <1>2, <1>3, <1>4 DEF IInv, TypeOK, OneJobMoves, JobRecord, At, CallStatus
<1>6. Places'
  <2>1. \A i \in Jobs : i # j => job[i].id # job[j].id
    BY <1>3, OwnRow
  <2>2. job'[j] = new /\ \A i \in Jobs : i # j => job'[i] = job[i]
    BY <1>1 DEF OneJobMoves
  <2> QED
    BY <1>2, <1>3, <1>4, <2>1, <2>2 DEF IInv, Places, At
<1>7. RowsOfJobs'
  BY <1>1, <1>2, <1>3 DEF IInv, RowsOfJobs, OneJobMoves, At
<1>8. Rows' /\ OneAttemptAnEpoch'
  <2>1. \A k \in indexed : k \in DOMAIN calls
    BY DEF IInv, TypeOK
  <2>2. \A k \in DOMAIN intents : intents[k].hash => calls'[k] = calls[k] /\ k \in DOMAIN calls'
    BY <1>4 DEF IInv, Rows
  <2>3. \A k \in indexed : calls'[k] = calls[k]
    BY <1>4, <2>1
  <2> QED
    BY <2>2, <2>3 DEF IInv, Rows, OneAttemptAnEpoch, InEpoch
<1>9. Clocks' /\ OneRun' /\ DueIsClear'
  BY <1>1, <1>2, <1>3 DEF IInv, Clocks, OneRun, DueIsClear, InEpoch, OneJobMoves, At, Jobs
<1>10. BeatKeepsItsIntent'
  <2>1. Beat \in Jobs /\ job'[Beat].id = job[Beat].id
    BY <1>1, <1>2 DEF OneJobMoves, Jobs
  <2> QED
    BY <2>1 DEF IInv, BeatKeepsItsIntent
<1> QED
  BY <1>5, <1>6, <1>7, <1>8, <1>9, <1>10 DEF IInv

-----------------------------------------------------------------------------
(***************************************************************************)
(* Steps that write a row.                                                 *)
(***************************************************************************)
\* A new row; no other run is anywhere, and this one was due.
LEMMA PlanKeeps ==
  ASSUME IInv, NEW j \in Jobs, Plan(j)
  PROVE  IInv'
<1> DEFINE n == planned + 1
           new == [job[j] EXCEPT !.phase = "planned", !.id = n]
           row == [status |-> "PLANNED", hash |-> FALSE, created |-> now,
                   by |-> j, under |-> job[j].under]
<1>1. planned \in Nat /\ n \in 1..MaxIntents /\ n \in Nat /\ MaxIntents \in Nat
      /\ now \in Nat /\ job \in [Jobs -> JobRecord]
  BY RuntimeAssumption DEF IInv, TypeOK, JobRecord, Plan
<1>2. job[j] \in JobRecord /\ job[j].phase = "due" /\ job[j].id = NoIntent
  BY <1>1 DEF IInv, Places, Plan, At
<1>3. new \in JobRecord /\ new.phase = "planned" /\ new.id = n /\ new.under = job[j].under
  <2>1. n \in 0..MaxIntents /\ "planned" \in Phase
    BY <1>1 DEF Phase
  <2> HIDE DEF n
  <2>2. job[j] \in [phase : Phase, under : Nat \cup {NoEpoch}, id : 0..MaxIntents]
    BY <1>2 DEF JobRecord
  <2> QED
    BY <2>1, <2>2 DEF JobRecord
<1>4. job' = [job EXCEPT ![j] = new]
  BY DEF Plan
<1>5. row \in Intent /\ row.status = "PLANNED" /\ ~row.hash /\ row.created = now
      /\ row.by = j /\ row.under = job[j].under
  BY <1>1, <1>2 DEF Intent, IntentStatus, JobRecord, NoEpoch
<1>6. planned' = n /\ intents' = Put(intents, n, row)
      /\ UNCHANGED <<now, epochStart, calls, charged, mirrorStart, indexed>>
  BY DEF Plan, chainVars
<1> HIDE DEF new, row
<1>7. OneJobMoves(j, new)
  BY <1>3, <1>4, JobFacts DEF IInv
<1>8. n \notin DOMAIN intents /\ n \notin DOMAIN calls
      /\ \A k \in 1..planned : k # n /\ k \in 1..n
  BY <1>1 DEF IInv, TypeOK
<1> HIDE DEF n
<1>9. DOMAIN intents' = DOMAIN intents \cup {n} /\ intents'[n] = row
      /\ \A k \in DOMAIN intents : k # n /\ intents'[k] = intents[k]
  <2>1. intents' = [k \in DOMAIN intents \cup {n} |-> IF k = n THEN row ELSE intents[k]]
    BY <1>6 DEF Put
  <2>2. \A k \in DOMAIN intents : k # n
    BY <1>8
  <2> QED
    BY ONLY <2>1, <2>2
<1>9a. \A i \in Jobs : job[i].id # n
  <2>1. \A i \in Jobs : job[i].id = NoIntent \/ job[i].id \in 1..planned
    BY <1>1 DEF IInv, Places, JobRecord, Phase
  <2>2. n # NoIntent
    BY <1>1 DEF NoIntent
  <2> QED
    BY <1>8, <2>1, <2>2
<1>10. TypeOK'
  <2>1. planned' \in 0..MaxIntents /\ DOMAIN calls \subseteq 1..planned'
        /\ DOMAIN intents' \subseteq 1..planned'
    BY <1>1, <1>6, <1>8, <1>9 DEF IInv, TypeOK, n
  <2>2. \A k \in DOMAIN intents' : intents'[k] \in Intent
    BY <1>5, <1>9 DEF IInv, TypeOK
  <2>3. \A i \in Jobs : job'[i].phase = "waiting" => job'[i].id \in DOMAIN calls
    BY <1>3, <1>7 DEF IInv, TypeOK, OneJobMoves, At
  <2> QED
    BY <1>6, <1>7, <2>1, <2>2, <2>3 DEF IInv, TypeOK, OneJobMoves, JobRecord, At
<1>11. Places'
  <2>1. \A i \in Jobs : i # j => job'[i].id # n
    BY <1>7, <1>9a DEF OneJobMoves
  <2> QED
    BY <1>3, <1>6, <1>7, <1>8, <1>1, <2>1 DEF IInv, Places, OneJobMoves, At
<1>12. RowsOfJobs'
  <2>1. \A i \in Jobs : i # j => job'[i].id # n
    BY <1>7, <1>9a DEF OneJobMoves
  <2> QED
    BY <1>3, <1>5, <1>7, <1>9, <2>1 DEF IInv, RowsOfJobs, OneJobMoves, At
<1>13. Rows'
  BY <1>5, <1>6, <1>9 DEF IInv, Rows
<1>14. Clocks' /\ OneRun'
  <2>1. j \in Runs => job[j].under \in 0..now
    BY <1>1, <1>2 DEF IInv, TypeOK, Clocks, At
  <2> QED
    BY <1>2, <1>3, <1>5, <1>6, <1>7, <1>9, <2>1
    DEF IInv, Clocks, OneRun, OneJobMoves, At, Jobs
<1>15. DueIsClear'
  <2>1. \A r \in Runs : job'[r].phase = "due" =>
          j = Beat /\ job[r].phase = "due" /\ job'[r] = job[r]
    BY <1>2, <1>3, <1>7 DEF IInv, OneRun, OneJobMoves, At, Jobs
  <2> QED
    BY <1>5, <1>6, <1>9, <2>1, RuntimeAssumption DEF IInv, DueIsClear, InEpoch, At
<1>16. OneAttemptAnEpoch'
  <2>1. \A k \in DOMAIN intents :
          j \in Runs /\ now <= job[j].under + Epoch /\ InEpoch(k)
            /\ intents[k].under = job[j].under => intents[k].status = "FAILED"
    <3>1. CASE j \in Runs
      <4>1. now > job[j].under + Epoch => ~(now <= job[j].under + Epoch)
        BY <1>1, <1>2, <3>1, RuntimeAssumption DEF JobRecord, NoEpoch
      <4> QED
        BY <1>2, <3>1, <4>1 DEF IInv, DueIsClear, At
    <3> QED
      BY <3>1
  <2> QED
    BY <1>5, <1>9, <2>1 DEF IInv, OneAttemptAnEpoch, InEpoch
<1>17. BeatKeepsItsIntent'
  BY <1>3, <1>7, <1>9 DEF IInv, BeatKeepsItsIntent, OneJobMoves, Jobs
<1> QED
  BY <1>10, <1>11, <1>12, <1>13, <1>14, <1>15, <1>16, <1>17 DEF IInv

\* A row's job is the only one that ever writes FAILED into a row whose
\* transaction may be out.
LEMMA SubmitThrowsKeeps ==
  ASSUME IInv, NEW j \in Jobs, SubmitThrows(j)
  PROVE  IInv'
<1> DEFINE k == job[j].id
<1>1. k \in 1..planned /\ k \notin DOMAIN calls /\ job[j].phase = "planned" /\ k # NoIntent
  BY DEF IInv, Places, SubmitThrows, At, NoIntent
<1>2. RowsAfterUpdate(k, "FAILED", FALSE)
  BY UpdateFacts DEF IInv, SubmitThrows, IntentStatus
<1>3. OneJobMoves(j, Resting)
  <2>1. Resting \in JobRecord
    BY RuntimeAssumption DEF Resting, JobRecord, Phase, NoEpoch, NoIntent
  <2> QED
    BY <2>1, JobFacts DEF IInv, SubmitThrows, Throws
<1>4. Resting.phase = "idle" /\ Resting.id = NoIntent
  BY DEF Resting
<1>5. \A i \in Jobs : i # j => job'[i] = job[i] /\ job[i].id # k
  BY <1>1, <1>3, OwnRow DEF OneJobMoves
<1>6. job'[j] = Resting
  BY <1>3 DEF OneJobMoves
<1>7. UNCHANGED <<now, epochStart, charged, mirrorStart, indexed, planned>>
  BY DEF SubmitThrows
<1>8. /\ DOMAIN calls \subseteq DOMAIN calls' /\ DOMAIN calls' \subseteq DOMAIN calls \cup {k}
      /\ \A x \in DOMAIN calls : calls'[x] = calls[x]
      /\ \A x \in DOMAIN calls' : calls'[x] \in CallStatus
  <2>1. \A x \in DOMAIN calls : calls[x] \in CallStatus
    BY DEF IInv, TypeOK
  <2>2. CASE UNCHANGED calls
    BY <2>1, <2>2
  <2>3. CASE calls' = Put(calls, k, "pool")
    BY <1>1, <2>1, <2>3 DEF Put, CallStatus
  <2> QED
    BY <2>2, <2>3 DEF SubmitThrows
<1> HIDE DEF k
<1>9. TypeOK'
  BY <1>1, <1>2, <1>3, <1>4, <1>5, <1>6, <1>7, <1>8
  DEF IInv, TypeOK, OneJobMoves, JobRecord, At, RowsAfterUpdate
<1>10. Places'
  <2>1. \A i \in Jobs : i # j => (job[i].id \in DOMAIN calls <=> job[i].id \in DOMAIN calls')
    BY <1>5, <1>8
  <2> QED
    BY <1>4, <1>5, <1>6, <1>7, <2>1 DEF IInv, Places, At
<1>11. RowsOfJobs'
  <2>1. NoIntent \notin DOMAIN intents
    BY DEF IInv, TypeOK, NoIntent
  <2> QED
    BY <1>2, <1>4, <1>5, <1>6, <2>1 DEF IInv, RowsOfJobs, RowsAfterUpdate, At
<1>12. Rows'
  <2>1. \A x \in indexed : x \in DOMAIN calls
    BY DEF IInv, TypeOK
  <2> QED
    BY <1>2, <1>7, <1>8, <2>1 DEF IInv, Rows, RowsAfterUpdate
<1>13. Clocks' /\ OneRun'
  BY <1>2, <1>4, <1>5, <1>6, <1>7 DEF IInv, Clocks, OneRun, RowsAfterUpdate, At, Jobs
<1>14. DueIsClear' /\ OneAttemptAnEpoch'
  BY <1>2, <1>4, <1>5, <1>6, <1>7
  DEF IInv, DueIsClear, OneAttemptAnEpoch, InEpoch, RowsAfterUpdate, At, Jobs
<1>15. BeatKeepsItsIntent'
  BY <1>2, <1>4, <1>5, <1>6 DEF IInv, BeatKeepsItsIntent, RowsAfterUpdate, Jobs
<1> QED
  BY <1>9, <1>10, <1>11, <1>12, <1>13, <1>14, <1>15 DEF IInv

LEMMA StoreHashKeeps ==
  ASSUME IInv, NEW j \in Jobs, StoreHash(j)
  PROVE  IInv'
<1> DEFINE k == job[j].id
<1>1. UNCHANGED <<now, epochStart, calls, charged, mirrorStart, indexed, planned>>
  BY DEF StoreHash, chainVars
<1>2. CASE k \notin DOMAIN intents
  BY <1>1, <1>2, RestsOne DEF StoreHash, Update, Throws, chainVars
<1>3. CASE k \in DOMAIN intents
  <2> DEFINE new == [phase |-> "waiting", under |-> job[j].under, id |-> job[j].id]
  <2>1. RowsAfterUpdate(k, "SUBMITTED", TRUE)
    BY UpdateFacts DEF IInv, StoreHash, IntentStatus
  <2>2. OneJobMoves(j, new)
    <3>1. "waiting" \in Phase
      BY DEF Phase
    <3> QED
      BY <1>3, <3>1, PhaseFacts DEF IInv, StoreHash
  <2>3. new.phase = "waiting" /\ new.under = job[j].under /\ new.id = k
    OBVIOUS
  <2>4. /\ job[j].phase = "sent" /\ k \in 1..planned /\ k \in DOMAIN calls
        /\ intents[k].status = "PLANNED"
    BY <1>3 DEF IInv, Places, RowsOfJobs, StoreHash, At
  <2> HIDE DEF new
  <2>5. job'[j] = new /\ \A i \in Jobs : i # j => job'[i] = job[i] /\ job[i].id # k
    BY <2>2, <2>4, OwnRow DEF OneJobMoves
  <2> HIDE DEF k
  <2>6. TypeOK'
    BY <1>1, <2>1, <2>2, <2>3, <2>4, <2>5
    DEF IInv, TypeOK, OneJobMoves, JobRecord, At, RowsAfterUpdate
  <2>7. Places'
    BY <1>1, <2>3, <2>4, <2>5 DEF IInv, Places, At
  <2>8. RowsOfJobs'
    BY <2>1, <2>3, <2>5 DEF IInv, RowsOfJobs, RowsAfterUpdate, At
  <2>9. Rows'
    BY <1>1, <2>1, <2>4 DEF IInv, Rows, RowsAfterUpdate
  <2>10. Clocks' /\ OneRun'
    BY <1>1, <2>1, <2>3, <2>4, <2>5 DEF IInv, Clocks, OneRun, RowsAfterUpdate, At, Jobs
  <2>11. DueIsClear' /\ OneAttemptAnEpoch'
    BY <1>1, <2>1, <2>3, <2>4, <2>5
    DEF IInv, DueIsClear, OneAttemptAnEpoch, InEpoch, RowsAfterUpdate, At, Jobs
  <2>12. BeatKeepsItsIntent'
    BY <2>1, <2>3, <2>5 DEF IInv, BeatKeepsItsIntent, RowsAfterUpdate, Jobs, k
  <2> QED
    BY <2>6, <2>7, <2>8, <2>9, <2>10, <2>11, <2>12 DEF IInv
<1> QED
  BY <1>2, <1>3

LEMMA ReceiptKeeps ==
  ASSUME IInv, NEW j \in Jobs, Receipt(j)
  PROVE  IInv'
<1> DEFINE k == job[j].id
<1>1. UNCHANGED <<now, epochStart, calls, charged, mirrorStart, indexed, planned>>
  BY DEF Receipt, chainVars
<1>2. CASE calls[k] # "reverted"
  BY <1>1, <1>2, RestsOne DEF Receipt, chainVars
<1>3. CASE calls[k] = "reverted"
  <2>1. RowsAfterUpdate(k, "FAILED", TRUE)
    BY <1>3, UpdateFacts DEF IInv, Receipt, IntentStatus
  <2>2. OneJobMoves(j, Resting)
    <3>1. Resting \in JobRecord
      BY RuntimeAssumption DEF Resting, JobRecord, Phase, NoEpoch, NoIntent
    <3> QED
      BY <3>1, JobFacts DEF IInv, Receipt
  <2>3. Resting.phase = "idle" /\ Resting.id = NoIntent
    BY DEF Resting
  <2>4. job[j].phase = "waiting" /\ k \in DOMAIN calls
    BY DEF IInv, Places, Receipt, At
  <2>5. job'[j] = Resting /\ \A i \in Jobs : i # j => job'[i] = job[i] /\ job[i].id # k
    BY <2>2, <2>4, OwnRow DEF OneJobMoves
  <2> HIDE DEF k
  <2>6. TypeOK'
    BY <1>1, <2>1, <2>2, <2>3, <2>5
    DEF IInv, TypeOK, OneJobMoves, JobRecord, At, RowsAfterUpdate
  <2>7. Places'
    BY <1>1, <2>3, <2>5 DEF IInv, Places, At
  <2>8. RowsOfJobs'
    <3>1. NoIntent \notin DOMAIN intents
      BY DEF IInv, TypeOK, NoIntent
    <3> QED
      BY <2>1, <2>3, <2>5, <3>1 DEF IInv, RowsOfJobs, RowsAfterUpdate, At
  <2>9. Rows'
    BY <1>1, <1>3, <2>1, <2>4 DEF IInv, Rows, RowsAfterUpdate
  <2>10. Clocks' /\ OneRun'
    BY <1>1, <2>1, <2>3, <2>5 DEF IInv, Clocks, OneRun, RowsAfterUpdate, At, Jobs
  <2>11. DueIsClear' /\ OneAttemptAnEpoch'
    BY <1>1, <2>1, <2>3, <2>5
    DEF IInv, DueIsClear, OneAttemptAnEpoch, InEpoch, RowsAfterUpdate, At, Jobs
  <2>12. BeatKeepsItsIntent'
    BY <2>1, <2>3, <2>5 DEF IInv, BeatKeepsItsIntent, RowsAfterUpdate, Jobs
  <2> QED
    BY <2>6, <2>7, <2>8, <2>9, <2>10, <2>11, <2>12 DEF IInv
<1> QED
  BY <1>2, <1>3

\* The beat, which must not lose its row, is nowhere.
LEMMA ResetKeeps ==
  ASSUME IInv, Reset
  PROVE  IInv'
<1> USE DEF Reset, ClearRows, chainVars
<1>1. DOMAIN intents' = {}
  OBVIOUS
<1>2. TypeOK' /\ Places'
  BY <1>1 DEF IInv, TypeOK, Places, At
<1>3. RowsOfJobs' /\ Rows' /\ Clocks' /\ OneRun' /\ DueIsClear' /\ OneAttemptAnEpoch'
  BY <1>1 DEF IInv, RowsOfJobs, Rows, Clocks, OneRun, DueIsClear, OneAttemptAnEpoch, At
<1>4. BeatKeepsItsIntent'
  BY DEF IInv, Places, BeatKeepsItsIntent, NoActionRunning, At, Jobs
<1> QED
  BY <1>2, <1>3, <1>4 DEF IInv

-----------------------------------------------------------------------------
(***************************************************************************)
(* Steps of the chain, the clock and the indexer.                          *)
(***************************************************************************)
LEMMA TockKeeps ==
  ASSUME IInv, Tock
  PROVE  IInv'
<1> USE DEF Tock, chainVars
<1>1. TypeOK' /\ Places' /\ RowsOfJobs' /\ Rows'
  BY DEF IInv, TypeOK, Places, RowsOfJobs, Rows, At
<1>2. OneRun' /\ OneAttemptAnEpoch' /\ BeatKeepsItsIntent'
  BY DEF IInv, OneRun, OneAttemptAnEpoch, InEpoch, BeatKeepsItsIntent, At
<1>3. Clocks'
  BY DEF IInv, TypeOK, Clocks, At
<1>4. DueIsClear'
  <2>1. \A r \in Runs : At(r, "due") /\ now > job[r].under + Epoch
          => now' > job[r].under + Epoch
    BY RuntimeAssumption DEF IInv, TypeOK, Clocks, At
  <2> QED
    BY <2>1 DEF IInv, DueIsClear, InEpoch, At
<1> QED
  BY <1>1, <1>2, <1>3, <1>4 DEF IInv

LEMMA ReconcileKeeps ==
  ASSUME IInv, Reconcile
  PROVE  IInv'
<1> USE DEF Reconcile, chainVars
<1>1. TypeOK' /\ Places' /\ RowsOfJobs' /\ Rows'
  BY DEF IInv, TypeOK, Places, RowsOfJobs, Rows, At
<1>2. OneRun' /\ DueIsClear' /\ OneAttemptAnEpoch' /\ BeatKeepsItsIntent'
  BY DEF IInv, OneRun, DueIsClear, OneAttemptAnEpoch, InEpoch, BeatKeepsItsIntent, At
<1>3. Clocks'
  BY DEF IInv, TypeOK, Clocks, At
<1> QED
  BY <1>1, <1>2, <1>3 DEF IInv

\* A transaction still in the pool has settled no row.
LEMMA IncludeKeeps ==
  ASSUME IInv, NEW k, Include(k)
  PROVE  IInv'
<1>1. k \in DOMAIN calls /\ calls[k] = "pool"
      /\ UNCHANGED <<now, mirrorStart, indexed, intents, planned, job>>
  BY DEF Include
<1>2. /\ DOMAIN calls' = DOMAIN calls /\ calls'[k] \in CallStatus
      /\ \A x \in DOMAIN calls : x # k => calls'[x] = calls[x]
  <2>1. \A s : calls' = [calls EXCEPT ![k] = s]
          => DOMAIN calls' = DOMAIN calls /\ calls'[k] = s
             /\ \A x \in DOMAIN calls : x # k => calls'[x] = calls[x]
    BY <1>1
  <2> QED
    BY <2>1 DEF Include, CallStatus
<1>3. /\ epochStart' \in Nat /\ epochStart <= epochStart' /\ epochStart' <= now
  <2>1. epochStart \in Nat /\ now \in Nat /\ epochStart <= now
    BY DEF IInv, TypeOK, Clocks
  <2> QED
    BY <2>1 DEF Include
<1>4. DOMAIN charged' \subseteq DOMAIN calls'
      /\ \A x \in DOMAIN charged' : charged'[x] \in Nat
  <2>1. DOMAIN charged \subseteq DOMAIN calls /\ \A x \in DOMAIN charged : charged[x] \in Nat
    BY DEF IInv, TypeOK
  <2>2. CASE charged' = Put(charged, k, epochStart')
    BY <1>1, <1>2, <1>3, <2>1, <2>2 DEF Put
  <2>3. CASE UNCHANGED charged
    BY <1>2, <2>1, <2>3
  <2> QED
    BY <2>2, <2>3 DEF Include
<1>5. TypeOK'
  BY <1>1, <1>2, <1>3, <1>4 DEF IInv, TypeOK, At
<1>6. Places' /\ RowsOfJobs'
  BY <1>1, <1>2 DEF IInv, Places, RowsOfJobs, At
<1>7. Rows'
  <2>1. ASSUME NEW x \in DOMAIN intents
        PROVE  /\ intents[x].hash => x \in DOMAIN calls
               /\ x # k => (x \in DOMAIN calls => calls'[x] = calls[x])
               /\ x = k => /\ intents[x].status # "CONFIRMED" /\ intents[x].status # "BLOCKED"
                          /\ ~(intents[x].status = "FAILED" /\ intents[x].hash)
    BY <1>1, <1>2 DEF IInv, Rows
  <2>2. indexed \subseteq DOMAIN calls
    BY DEF IInv, TypeOK
  <2> QED
    BY <1>1, <1>2, <2>1, <2>2 DEF IInv, Rows
<1>8. Clocks'
  BY <1>1, <1>3 DEF IInv, TypeOK, Clocks, At
<1>9. OneRun' /\ DueIsClear' /\ OneAttemptAnEpoch' /\ BeatKeepsItsIntent'
  BY <1>1 DEF IInv, OneRun, DueIsClear, OneAttemptAnEpoch, InEpoch, BeatKeepsItsIntent, At
<1> QED
  BY <1>5, <1>6, <1>7, <1>8, <1>9 DEF IInv

\* The row that an event settles has not failed: with a hash it would have
\* failed by a revert, and a reverted transaction has no event.
LEMMA IndexCallKeeps ==
  ASSUME IInv, NEW k, IndexCall(k)
  PROVE  IInv'
<1> DEFINE settles == k \in DOMAIN intents /\ intents[k].hash /\ calls[k] # "queued"
           status == IF calls[k] = "executed" THEN "CONFIRMED" ELSE "BLOCKED"
<1>1. k \in DOMAIN calls /\ k \notin indexed /\ calls[k] \in {"executed", "blocked", "queued"}
      /\ indexed' = indexed \cup {k}
      /\ UNCHANGED <<now, epochStart, calls, charged, mirrorStart, planned, job>>
  BY DEF IndexCall, chainVars
<1>2. status \in {"CONFIRMED", "BLOCKED"} /\ status \in IntentStatus
      /\ (status = "CONFIRMED" => calls[k] = "executed")
      /\ (settles /\ status = "BLOCKED" => calls[k] = "blocked")
  BY <1>1 DEF IntentStatus
<1>3. CASE ~settles
  <2>1. UNCHANGED intents
    BY <1>3 DEF IndexCall
  <2>2. TypeOK' /\ Places' /\ RowsOfJobs'
    BY <1>1, <2>1 DEF IInv, TypeOK, Places, RowsOfJobs, At
  <2>3. Rows' /\ Clocks' /\ OneRun'
    BY <1>1, <2>1 DEF IInv, Rows, Clocks, OneRun, At
  <2>4. DueIsClear' /\ OneAttemptAnEpoch' /\ BeatKeepsItsIntent'
    BY <1>1, <2>1 DEF IInv, DueIsClear, OneAttemptAnEpoch, InEpoch, BeatKeepsItsIntent, At
  <2> QED
    BY <2>2, <2>3, <2>4 DEF IInv
<1>4. CASE settles
  <2>1. Update(k, status, TRUE)
    BY <1>4 DEF IndexCall
  <2> HIDE DEF status
  <2>2. RowsAfterUpdate(k, status, TRUE)
    BY <1>2, <2>1, UpdateFacts DEF IInv
  <2>3. /\ intents[k].hash
        /\ intents[k].status # "FAILED" /\ intents[k].status # "PLANNED"
    BY <1>1, <1>4 DEF IInv, Rows
  <2>4. TypeOK' /\ Places'
    BY <1>1, <2>2 DEF IInv, TypeOK, Places, RowsAfterUpdate, At
  <2>5. RowsOfJobs'
    BY <1>1, <2>2, <2>3 DEF IInv, RowsOfJobs, RowsAfterUpdate, At
  <2>6. Rows'
    <3>1. /\ intents'[k].status = status /\ intents'[k].hash /\ k \in indexed'
          /\ status # "PLANNED" /\ status # "SUBMITTED" /\ status # "FAILED"
          /\ status = "BLOCKED" => calls'[k] = "blocked"
          /\ status = "CONFIRMED" => calls'[k] = "executed"
      BY <1>1, <1>2, <1>4, <2>2 DEF RowsAfterUpdate
    <3> QED
      BY <1>1, <2>2, <3>1 DEF IInv, Rows, RowsAfterUpdate
  <2>7. Clocks' /\ OneRun' /\ BeatKeepsItsIntent'
    BY <1>1, <2>2 DEF IInv, Clocks, OneRun, BeatKeepsItsIntent, RowsAfterUpdate, At
  <2>8. DueIsClear' /\ OneAttemptAnEpoch'
    BY <1>1, <2>2, <2>3
    DEF IInv, DueIsClear, OneAttemptAnEpoch, InEpoch, RowsAfterUpdate, At
  <2> QED
    BY <2>4, <2>5, <2>6, <2>7, <2>8 DEF IInv
<1> QED
  BY <1>3, <1>4

-----------------------------------------------------------------------------
LEMMA StepKeeps == IInv /\ [Next]_vars => IInv'
<1> SUFFICES ASSUME IInv, [Next]_vars PROVE IInv'
  OBVIOUS
<1>1. CASE UNCHANGED vars
  <2>1. UNCHANGED <<now, chainVars, mirrorStart, indexed, intents, planned>> /\ job' = job
    BY <1>1 DEF vars
  <2>2. job' \in [Jobs -> JobRecord]
    BY <2>1 DEF IInv, TypeOK, JobRecord
  <2> QED
    BY <2>1, <2>2, Rests
<1>2. ASSUME NEW r \in Runs, StartRun(r) PROVE IInv'
  BY <1>2, StartRunKeeps
<1>3. CASE StartBeat
  BY <1>3, StartBeatKeeps
<1>4. CASE Reset
  BY <1>4, ResetKeeps
<1>5. ASSUME NEW j \in Jobs, JobStep(j) PROVE IInv'
  <2>1. CASE j \in Runs /\ AskRows(j)
    BY <2>1, AskRowsKeeps
  <2>2. CASE Plan(j)
    BY <2>2, PlanKeeps
  <2>3. CASE Broadcast(j)
    BY <2>3, BroadcastKeeps
  <2>4. CASE StoreHash(j)
    BY <2>4, StoreHashKeeps
  <2>5. CASE Receipt(j)
    BY <2>5, ReceiptKeeps
  <2>6. CASE ReceiptTimesOut(j)
    BY <2>6, RestsOne DEF ReceiptTimesOut, Throws
  <2> QED
    BY <1>5, <2>1, <2>2, <2>3, <2>4, <2>5, <2>6 DEF JobStep
<1>6. ASSUME NEW j \in Jobs, SubmitThrows(j) PROVE IInv'
  BY <1>6, SubmitThrowsKeeps
<1>7. ASSUME NEW j \in Jobs, StepThrows(j) PROVE IInv'
  BY <1>7, RestsOne DEF StepThrows, Throws
<1>8. CASE Crash
  <2>1. Resting \in JobRecord
    BY RuntimeAssumption DEF Resting, JobRecord, Phase, NoEpoch, NoIntent
  <2>2. job' \in [Jobs -> JobRecord] /\ \A j \in Jobs : job'[j] = Resting
    BY <1>8, <2>1 DEF Crash
  <2> QED
    BY <1>8, <2>2, Rests DEF Crash
<1>9. CASE Tock
  BY <1>9, TockKeeps
<1>10. CASE Reconcile
  BY <1>10, ReconcileKeeps
<1>11. ASSUME NEW k \in IntentId, Include(k) PROVE IInv'
  BY <1>11, IncludeKeeps
<1>12. ASSUME NEW k \in IntentId, IndexCall(k) PROVE IInv'
  BY <1>12, IndexCallKeeps
<1> QED
  BY <1>1, <1>2, <1>3, <1>4, <1>5, <1>6, <1>7, <1>8, <1>9, <1>10, <1>11, <1>12 DEF Next

LEMMA AlwaysIInv == Spec => []IInv
  BY Initially, StepKeeps, PTL DEF Spec

-----------------------------------------------------------------------------
\* The type invariant of submitAgentPayment and the jobs around it.
THEOREM TypeCorrect == Spec => []TypeOK
<1>1. IInv => TypeOK
  BY DEF IInv
<1> QED
  BY <1>1, AlwaysIInv, PTL

\* However long a run takes, whatever throws, and whatever the director pays
\* or deletes beside it, hasActedThisEpoch and the running flag leave the
\* timer one attempt under a mirrored epoch, for every epoch length.
THEOREM OneAttemptAnEpochAlways == Spec => []OneAttemptAnEpoch
<1>1. IInv => OneAttemptAnEpoch
  BY DEF IInv
<1> QED
  BY <1>1, AlwaysIInv, PTL

\* withSingleFlight keeps every reset away from a beat's row.
THEOREM BeatKeepsItsIntentAlways == Spec => []BeatKeepsItsIntent
<1>1. IInv => BeatKeepsItsIntent
  BY DEF IInv
<1> QED
  BY <1>1, AlwaysIInv, PTL

\* What submitAgentPayment and resolveIntentForTx write into an Intent row is
\* what became of its transaction.
THEOREM OutcomesAreTrueAlways == Spec => []OutcomesAreTrue
<1>1. IInv => OutcomesAreTrue
  BY DEF IInv, Rows, OutcomesAreTrue
<1> QED
  BY <1>1, AlwaysIInv, PTL

\* The row's settled status is written once.
Settled(k) == intents[k].status \in {"CONFIRMED", "BLOCKED", "FAILED"}

StaysSettled ==
  \A k \in DOMAIN intents : Settled(k) /\ k \in DOMAIN intents' => intents'[k] = intents[k]

LEMMA StepSettles == IInv /\ [Next]_vars => StaysSettled
<1> SUFFICES ASSUME IInv, [Next]_vars, NEW k \in DOMAIN intents, Settled(k),
                    k \in DOMAIN intents'
             PROVE  intents'[k] = intents[k]
  BY DEF StaysSettled
<1>1. intents[k].status # "PLANNED" /\ intents[k].status # "SUBMITTED"
  BY DEF Settled
<1>2. ASSUME NEW j \in Jobs, Plan(j) PROVE intents'[k] = intents[k]
  <2>1. k # planned + 1
    BY DEF IInv, TypeOK
  <2> QED
    BY <1>2, <2>1 DEF Plan, Put
<1>3. ASSUME NEW j \in Jobs, StoreHash(j) PROVE intents'[k] = intents[k]
  <2>1. k # job[j].id
    BY <1>1, <1>3 DEF IInv, RowsOfJobs, StoreHash, At
  <2> QED
    BY <1>3, <2>1 DEF StoreHash, Update
<1>4. ASSUME NEW j \in Jobs, SubmitThrows(j) PROVE intents'[k] = intents[k]
  <2>1. k # job[j].id
    BY <1>1, <1>4 DEF IInv, RowsOfJobs, SubmitThrows, At
  <2> QED
    BY <1>4, <2>1 DEF SubmitThrows, Update
\* The revert is what the row says already.
<1>5. ASSUME NEW j \in Jobs, Receipt(j) PROVE intents'[k] = intents[k]
  <2>1. CASE k # job[j].id \/ calls[job[j].id] # "reverted"
    BY <1>5, <2>1 DEF Receipt, Update
  <2>2. CASE k = job[j].id /\ calls[k] = "reverted"
    <3>1. intents[k].status = "FAILED" /\ intents[k].hash = TRUE
      BY <1>5, <2>2 DEF IInv, TypeOK, Rows, RowsOfJobs, Receipt, Settled, Intent, At
    <3>2. RowsAfterUpdate(k, "FAILED", TRUE)
      BY <1>5, <2>2, UpdateFacts DEF IInv, Receipt, IntentStatus
    <3>3. intents[k] \in Intent
      BY DEF IInv, TypeOK
    <3> QED
      BY <3>1, <3>2, <3>3 DEF RowsAfterUpdate, Intent
  <2> QED
    BY <2>1, <2>2
<1>6. ASSUME NEW l \in IntentId, IndexCall(l) PROVE intents'[k] = intents[k]
  <2>1. intents[k].hash /\ k = l => calls[l] = "reverted" \/ l \in indexed
    BY DEF IInv, Rows, Settled
  <2>2. ~(intents[k].hash /\ k = l)
    BY <1>6, <2>1 DEF IndexCall
  <2> QED
    BY <1>6, <2>2 DEF IndexCall, Update
<1>7. CASE Reset
  BY <1>7 DEF Reset, ClearRows
<1>8. CASE UNCHANGED intents
  BY <1>8
<1>9. \/ UNCHANGED intents \/ Reset
      \/ \E j \in Jobs : Plan(j) \/ StoreHash(j) \/ SubmitThrows(j) \/ Receipt(j)
      \/ \E l \in IntentId : IndexCall(l)
  BY DEF Next, JobStep, StartRun, StartBeat, BeginBeat, AskRows, Broadcast, ReceiptTimesOut,
         StepThrows, Crash, Tock, Reconcile, Include, vars
<1> QED
  BY <1>2, <1>3, <1>4, <1>5, <1>6, <1>7, <1>8, <1>9

\* The submitting job never writes over what the indexer has settled, in
\* whichever order the receipt, the event and the update come.
THEOREM SettledIsFinalAlways == Spec => SettledIsFinal
<1>1. IInv /\ [Next]_vars => [StaysSettled]_vars
  BY StepSettles
<1>2. Spec => [][StaysSettled]_vars
  BY <1>1, AlwaysIInv, PTL DEF Spec
<1>3. [][StaysSettled]_vars => SettledIsFinal
  BY PTL DEF SettledIsFinal, StaysSettled, Settled
<1> QED
  BY <1>2, <1>3

-----------------------------------------------------------------------------
(***************************************************************************)
(* The director.                                                           *)
(***************************************************************************)

dvars == <<vars, directorVars>>

Steps == {"none", "asked", "opened", "clearing", "paying", "closing"}
Asked == [step : Steps, kind : {"none", "beat", "reset"}, run : Nat,
          outcome : {"none", "SUCCEEDED", "FAILED"}]
Run == [kind : {"none", "beat", "reset"}, status : {"RUNNING", "SUCCEEDED", "FAILED"},
        intent : Nat]

DirectorTypeOK ==
  running \in BOOLEAN /\ requests \in [Requests -> Asked] /\ demoRuns \in Seq(Run)

\* One request is past the flag, and the beat's job is its payment.
OneAction ==
  /\ \A r \in Requests : ~Under(r, "none") => running
  /\ \A r, s \in Requests : ~Under(r, "none") /\ ~Under(s, "none") => r = s
  /\ ~At(Beat, "idle") => \E r \in Requests : Under(r, "paying")

\* A request that has its row has a row, and one that closes it an outcome.
RunsOfRequests ==
  \A r \in Requests :
    /\ requests[r].step \in {"opened", "clearing", "paying", "closing"} =>
         requests[r].run \in DOMAIN demoRuns
    /\ requests[r].step \in {"none", "asked"} => requests[r].run = NoRun
    /\ Under(r, "closing") => requests[r].outcome # "none"

DInv == IInv /\ DirectorTypeOK /\ OneAction /\ RunsOfRequests /\ OnlyInterruptedRunsHang

-----------------------------------------------------------------------------
(* Every step of the director is one of the runtime's, or none. *)

LEMMA BeatIsIdle ==
  ASSUME DInv, NEW r \in Requests, ~Under(r, "none"), ~Under(r, "paying")
  PROVE  At(Beat, "idle")
<1>1. \A s \in Requests : Under(s, "paying") => ~Under(s, "none")
  BY DEF Under
<1> QED
  BY <1>1 DEF DInv, OneAction

LEMMA BeatIsAJob == Beat \in Jobs /\ \A r \in Runs : r \in Jobs /\ r # Beat
  BY RuntimeAssumption DEF Jobs

LEMMA StepIsRuntimes ==
  ASSUME DInv, [DirectorNext]_dvars
  PROVE  [Next]_vars
<1> USE BeatIsAJob
<1>1. CASE UNCHANGED dvars
  BY <1>1 DEF dvars
<1>2. ASSUME NEW r \in Requests, RequestStep(r) PROVE [Next]_vars
  <2>1. CASE ActionThrows(r) \/ Close(r) \/ OpenRun(r) \/ RefusedEarly(r) \/ BlockNumber(r)
    BY <2>1 DEF ActionThrows, Close, OpenRun, RefusedEarly, BlockNumber
  <2>2. CASE ClearWalletFeed(r)
    <3>1. At(Beat, "idle")
      BY <2>2, BeatIsIdle DEF ClearWalletFeed, Under
    <3>2. Reset
      BY <2>2, <3>1 DEF ClearWalletFeed, Reset, NoActionRunning
    <3> QED
      BY <3>2 DEF Next
  <2>3. CASE Dispatch(r)
    <3>1. At(Beat, "idle")
      BY <2>3, BeatIsIdle DEF Dispatch, Under
    <3>2. StartBeat
      BY <2>3, <3>1 DEF Dispatch, StartBeat, NoActionRunning
    <3> QED
      BY <3>2 DEF Next
  <2>4. CASE PlanBeat(r) \/ SendBeat(r)
    <3>1. JobStep(Beat)
      BY <2>4 DEF PlanBeat, SendBeat, JobStep
    <3> QED
      BY <3>1 DEF Next
  <2>5. CASE BeatReturns(r) \/ BeatThrows(r)
    <3>1. JobStep(Beat) \/ SubmitThrows(Beat) \/ StepThrows(Beat)
      BY <2>5 DEF BeatReturns, BeatThrows, JobStep
    <3> QED
      BY <3>1 DEF Next
  <2> QED
    BY <1>2, <2>1, <2>2, <2>3, <2>4, <2>5 DEF RequestStep
<1>3. ASSUME NEW r \in Requests, CloseThrows(r) PROVE [Next]_vars
  BY <1>3 DEF CloseThrows
<1>4. ASSUME NEW r \in Requests, NEW kind \in {"beat", "reset"}, Post(r, kind)
      PROVE  [Next]_vars
  BY <1>4 DEF Post
<1>5. CASE DirectorCrash
  BY <1>5 DEF DirectorCrash, Next
<1>6. CASE Elsewhere
  BY <1>6 DEF Elsewhere, Next
<1> QED
  BY <1>1, <1>2, <1>3, <1>4, <1>5, <1>6 DEF DirectorNext

-----------------------------------------------------------------------------
(* What the steps do to the requests and to the beat's job. *)

\* One request moves and the others stay.
OneMoves(r, new) ==
  /\ requests' \in [Requests -> Asked]
  /\ requests'[r] = new
  /\ \A s \in Requests : s # r => requests'[s] = requests[s]

LEMMA MoveFacts ==
  ASSUME DirectorTypeOK, NEW r \in Requests, NEW new \in Asked,
         requests' = [requests EXCEPT ![r] = new]
  PROVE  OneMoves(r, new)
  BY DEF DirectorTypeOK, OneMoves

LEMMA StepFacts ==
  ASSUME DirectorTypeOK, NEW r \in Requests, NEW step \in Steps, Move(r, step)
  PROVE  OneMoves(r, [requests[r] EXCEPT !.step = step])
<1>1. requests[r] \in Asked
  BY DEF DirectorTypeOK
<1> DEFINE new == [requests[r] EXCEPT !.step = step]
<1>2. new \in Asked
  BY <1>1 DEF Asked
<1>3. requests' = [requests EXCEPT ![r] = new]
  BY DEF Move
<1> HIDE DEF new
<1>4. OneMoves(r, new)
  BY <1>2, <1>3, MoveFacts
<1> QED
  BY <1>4 DEF new

LEMMA OutcomeFacts ==
  ASSUME DirectorTypeOK, NEW r \in Requests, NEW status \in {"SUCCEEDED", "FAILED"},
         Outcome(r, status)
  PROVE  \E new \in Asked :
           /\ new.step = "closing" /\ new.outcome = status
           /\ new.run = requests[r].run /\ new.kind = requests[r].kind
           /\ OneMoves(r, new)
<1>1. requests[r] \in Asked
  BY DEF DirectorTypeOK
<1> DEFINE new == [requests[r] EXCEPT !.step = "closing", !.outcome = status]
<1>2. /\ new \in Asked
      /\ new.step = "closing" /\ new.outcome = status
      /\ new.run = requests[r].run /\ new.kind = requests[r].kind
  BY <1>1 DEF Asked, Steps
<1>3. requests' = [requests EXCEPT ![r] = new]
  BY DEF Outcome
<1> HIDE DEF new
<1> QED
  BY <1>2, <1>3, MoveFacts

LEMMA ReleaseFacts ==
  ASSUME DirectorTypeOK, NEW r \in Requests, Release(r)
  PROVE  OneMoves(r, NotAsked) /\ running' = FALSE /\ requests'[r].step = "none"
<1>1. OneMoves(r, NotAsked) /\ running' = FALSE
  BY MoveFacts DEF Release, NotAsked, Asked, Steps, NoRun
<1> QED
  BY <1>1 DEF OneMoves, NotAsked

\* A step of another job leaves the beat's where it is.
LEMMA BeatStays ==
  ASSUME IInv, Elsewhere
  PROVE  job'[Beat] = job[Beat]
<1> USE BeatIsAJob
<1>1. job \in [Jobs -> JobRecord]
  BY DEF IInv, TypeOK, JobRecord
<1>2. ASSUME NEW r \in Runs, StartRun(r) PROVE job'[Beat] = job[Beat]
  BY <1>1, <1>2 DEF StartRun
<1>3. ASSUME NEW j \in Runs, JobStep(j) \/ SubmitThrows(j) \/ StepThrows(j)
      PROVE  job'[Beat] = job[Beat]
  <2>1. CASE AskRows(j)
    BY <1>1, <2>1 DEF AskRows
  <2>2. CASE Plan(j) \/ Broadcast(j)
    BY <1>1, <2>2 DEF Plan, Broadcast
  <2>3. CASE StoreHash(j) \/ Receipt(j) \/ ReceiptTimesOut(j)
    BY <1>1, <2>3 DEF StoreHash, Receipt, ReceiptTimesOut, Throws
  <2>4. CASE SubmitThrows(j) \/ StepThrows(j)
    BY <1>1, <2>4 DEF SubmitThrows, StepThrows, Throws
  <2> QED
    BY <1>3, <2>1, <2>2, <2>3, <2>4 DEF JobStep
<1>4. CASE Tock \/ Reconcile
  BY <1>4 DEF Tock, Reconcile
<1>5. ASSUME NEW k \in IntentId, Include(k) \/ IndexCall(k) PROVE job'[Beat] = job[Beat]
  BY <1>5 DEF Include, IndexCall
<1> QED
  BY <1>2, <1>3, <1>4, <1>5 DEF Elsewhere

-----------------------------------------------------------------------------
(* The invariant. *)

\* The request whose action is under way goes on.
LEMMA Advances ==
  ASSUME DInv, IInv', NEW r \in Requests, NEW new \in Asked, OneMoves(r, new),
         requests[r].step \in {"opened", "clearing", "paying", "closing"},
         new.step \in {"opened", "clearing", "paying", "closing"},
         new.run = requests[r].run,
         new.step = "closing" => new.outcome # "none",
         ~At(Beat, "idle")' => new.step = "paying",
         UNCHANGED <<running, demoRuns, interrupted>>
  PROVE  DInv'
<1> USE DEF OneMoves
<1>1. DirectorTypeOK'
  BY DEF DInv, DirectorTypeOK
<1>2. OneAction'
  <2>1. running /\ \A s \in Requests : s # r => Under(s, "none")
    BY DEF DInv, OneAction, Under
  <2>2. running' /\ \A s \in Requests : s # r => Under(s, "none")'
    BY <2>1 DEF Under
  <2> QED
    BY <2>2 DEF OneAction, Under
<1>3. RunsOfRequests'
  BY DEF DInv, RunsOfRequests, Under
<1>4. OnlyInterruptedRunsHang'
  <2>1. \A s \in Requests : requests'[s].run = requests[s].run
    OBVIOUS
  <2> QED
    BY <2>1 DEF DInv, OnlyInterruptedRunsHang
<1> QED
  BY <1>1, <1>2, <1>3, <1>4 DEF DInv

\* The request whose action is over lets the next one in.
LEMMA Releases ==
  ASSUME DInv, IInv', NEW r \in Requests, OneMoves(r, NotAsked), running' = FALSE,
         ~Under(r, "none"), At(Beat, "idle")', demoRuns' \in Seq(Run),
         OnlyInterruptedRunsHang'
  PROVE  DInv'
<1> USE DEF OneMoves
<1>1. DirectorTypeOK'
  BY DEF DInv, DirectorTypeOK
<1>2. \A s \in Requests : Under(s, "none")' /\ requests'[s].run = NoRun
  BY DEF DInv, OneAction, RunsOfRequests, Under, NotAsked
<1>3. OneAction'
  BY <1>2 DEF OneAction
<1>4. RunsOfRequests'
  BY <1>2 DEF RunsOfRequests, Under
<1> QED
  BY <1>1, <1>3, <1>4 DEF DInv

\* A row that is written keeps the rows where they are.
LEMMA RowFacts ==
  ASSUME DirectorTypeOK, NEW i \in DOMAIN demoRuns, NEW new \in Run,
         demoRuns' = [demoRuns EXCEPT ![i] = new]
  PROVE  /\ demoRuns' \in Seq(Run) /\ DOMAIN demoRuns' = DOMAIN demoRuns
         /\ demoRuns'[i] = new
         /\ \A j \in DOMAIN demoRuns : j # i => demoRuns'[j] = demoRuns[j]
  BY DEF DirectorTypeOK

LEMMA PostKeeps ==
  ASSUME DInv, IInv', NEW r \in Requests, NEW kind \in {"beat", "reset"}, Post(r, kind)
  PROVE  DInv'
<1> DEFINE new == [NotAsked EXCEPT !.step = "asked", !.kind = kind]
<1>1. new \in Asked /\ new.step = "asked" /\ new.run = NoRun
  BY DEF NotAsked, Asked, Steps, NoRun
<1>2. requests' = [requests EXCEPT ![r] = new]
  BY DEF Post
<1> HIDE DEF new
<1>3. OneMoves(r, new)
  BY <1>1, <1>2, MoveFacts DEF DInv
<1>4. \A s \in Requests : Under(s, "none")
  BY DEF Post, Free, DInv, OneAction
<1>5. At(Beat, "idle") /\ job' = job
  BY <1>4 DEF Post, vars, DInv, OneAction, Under
<1>6. DirectorTypeOK'
  BY <1>3 DEF Post, DInv, DirectorTypeOK, OneMoves
<1>7. OneAction'
  BY <1>3, <1>4, <1>5 DEF Post, OneAction, OneMoves, Under, At
<1>8. RunsOfRequests'
  BY <1>1, <1>3, <1>4 DEF Post, RunsOfRequests, OneMoves, Under, DInv
<1>9. OnlyInterruptedRunsHang'
  <2>1. \A s \in Requests : requests'[s].run = requests[s].run
    BY <1>1, <1>3, <1>4 DEF OneMoves, DInv, RunsOfRequests, Under
  <2> QED
    BY <2>1 DEF Post, DInv, OnlyInterruptedRunsHang
<1> QED
  BY <1>6, <1>7, <1>8, <1>9 DEF DInv

LEMMA OpenRunKeeps ==
  ASSUME DInv, IInv', NEW r \in Requests, OpenRun(r)
  PROVE  DInv'
<1>1. requests[r] \in Asked /\ Len(demoRuns) \in Nat /\ demoRuns \in Seq(Run)
  BY DEF DInv, DirectorTypeOK
<1> DEFINE row == [kind |-> requests[r].kind, status |-> "RUNNING", intent |-> NoIntent]
<1>2. row \in Run
  BY <1>1 DEF Run, Asked, NoIntent
<1>3. demoRuns' = Append(demoRuns, row)
  BY DEF OpenRun
<1> HIDE DEF row
<1>4. /\ demoRuns' \in Seq(Run) /\ Len(demoRuns') = Len(demoRuns) + 1
      /\ \A i \in DOMAIN demoRuns : i \in DOMAIN demoRuns' /\ demoRuns'[i] = demoRuns[i]
      /\ DOMAIN demoRuns' = DOMAIN demoRuns \cup {Len(demoRuns')}
  BY <1>1, <1>2, <1>3
<1> DEFINE last == Len(demoRuns')
           new == [requests[r] EXCEPT !.step = "opened", !.run = last]
<1> HIDE DEF last
<1>5. new \in Asked /\ new.step = "opened" /\ new.run = last
  <2>1. last \in Nat
    BY <1>1, <1>4 DEF last
  <2> QED
    BY <1>1, <2>1 DEF Asked, Steps
<1>6. requests' = [requests EXCEPT ![r] = new]
  BY DEF OpenRun, last
<1> HIDE DEF new
<1> USE DEF last
<1>7. OneMoves(r, new)
  BY <1>5, <1>6, MoveFacts DEF DInv
<1>8. DirectorTypeOK'
  BY <1>4, <1>7 DEF OpenRun, DInv, DirectorTypeOK, OneMoves
<1>9. running /\ \A s \in Requests : s # r => Under(s, "none")
  BY DEF OpenRun, DInv, OneAction, Under
<1>10. At(Beat, "idle")'
  BY BeatIsIdle DEF OpenRun, Under, vars, At
<1>11. OneAction'
  BY <1>5, <1>7, <1>9, <1>10 DEF OpenRun, OneAction, OneMoves, Under
<1>12. RunsOfRequests'
  BY <1>4, <1>5, <1>7, <1>9 DEF DInv, RunsOfRequests, OneMoves, Under
<1>13. OnlyInterruptedRunsHang'
  <2> SUFFICES ASSUME NEW i \in DOMAIN demoRuns', demoRuns'[i].status = "RUNNING",
                      i \notin interrupted
               PROVE  \E s \in Requests : requests'[s].run = i
    BY DEF OpenRun, OnlyInterruptedRunsHang
  <2>1. CASE i = Len(demoRuns')
    BY <1>5, <1>7, <2>1 DEF OneMoves
  <2>2. CASE i \in DOMAIN demoRuns
    <3>1. PICK s \in Requests : requests[s].run = i
      BY <1>4, <2>2 DEF DInv, OnlyInterruptedRunsHang
    <3>2. i # NoRun
      BY <1>1, <2>2 DEF NoRun
    <3>3. s # r
      BY <3>1, <3>2 DEF OpenRun, DInv, RunsOfRequests, Under
    <3> QED
      BY <1>7, <3>1, <3>3 DEF OneMoves
  <2> QED
    BY <1>4, <2>1, <2>2
<1> QED
  BY <1>8, <1>11, <1>12, <1>13 DEF DInv

LEMMA CloseKeeps ==
  ASSUME DInv, IInv', NEW r \in Requests, Close(r)
  PROVE  DInv'
<1>1. requests[r].run \in DOMAIN demoRuns /\ requests[r].outcome \in {"SUCCEEDED", "FAILED"}
  BY DEF Close, Under, DInv, RunsOfRequests, DirectorTypeOK, Asked
<1> DEFINE i == requests[r].run
           row == [demoRuns[i] EXCEPT !.status = requests[r].outcome]
<1>2. demoRuns[i] \in Run
  BY <1>1 DEF DInv, DirectorTypeOK
<1>3. row \in Run /\ row.status # "RUNNING"
  BY <1>1, <1>2 DEF Run
<1>4. demoRuns' = [demoRuns EXCEPT ![i] = row]
  BY DEF Close
<1>5. i \in DOMAIN demoRuns
  BY <1>1
<1> HIDE DEF row
<1>6. /\ demoRuns' \in Seq(Run) /\ DOMAIN demoRuns' = DOMAIN demoRuns
      /\ demoRuns'[i] = row
      /\ \A j \in DOMAIN demoRuns : j # i => demoRuns'[j] = demoRuns[j]
  BY <1>3, <1>4, <1>5, RowFacts DEF DInv
<1>7. OneMoves(r, NotAsked) /\ running' = FALSE
  BY ReleaseFacts DEF Close, DInv
<1>8. OnlyInterruptedRunsHang'
  <2> SUFFICES ASSUME NEW j \in DOMAIN demoRuns', demoRuns'[j].status = "RUNNING",
                      j \notin interrupted
               PROVE  \E s \in Requests : requests'[s].run = j
    BY DEF Close, OnlyInterruptedRunsHang
  <2>1. j # i /\ j \in DOMAIN demoRuns /\ demoRuns[j].status = "RUNNING"
    BY <1>3, <1>6
  <2>2. PICK s \in Requests : requests[s].run = j
    BY <2>1 DEF DInv, OnlyInterruptedRunsHang
  <2> QED
    BY <1>7, <2>1, <2>2 DEF OneMoves
<1>9. At(Beat, "idle")' /\ ~Under(r, "none")
  BY BeatIsIdle DEF Close, Under, vars, At
<1> QED
  BY <1>6, <1>7, <1>8, <1>9, Releases

LEMMA CloseThrowsKeeps ==
  ASSUME DInv, IInv', NEW r \in Requests, CloseThrows(r)
  PROVE  DInv'
<1> USE DEF CloseThrows
<1>1. At(Beat, "idle")' /\ ~Under(r, "none") /\ requests[r].step = "closing"
  BY BeatIsIdle DEF Under, vars, At
<1>2. CASE Outcome(r, "FAILED") /\ UNCHANGED <<running, interrupted>>
  <2>1. PICK new \in Asked :
          /\ new.step = "closing" /\ new.outcome = "FAILED" /\ new.run = requests[r].run
          /\ OneMoves(r, new)
    BY <1>2, OutcomeFacts DEF DInv
  <2> QED
    BY <1>1, <1>2, <2>1, Advances
<1>3. CASE Release(r) /\ interrupted' = interrupted \cup {requests[r].run}
  <2>1. OneMoves(r, NotAsked) /\ running' = FALSE
    BY <1>3, ReleaseFacts DEF DInv
  <2>2. OnlyInterruptedRunsHang'
    BY <1>3, <2>1 DEF DInv, OnlyInterruptedRunsHang, OneMoves
  <2>3. demoRuns' \in Seq(Run)
    BY DEF DInv, DirectorTypeOK
  <2> QED
    BY <1>1, <2>1, <2>2, <2>3, Releases
<1> QED
  BY <1>2, <1>3

\* The steps of an action that is under way.
LEMMA GoesOn ==
  ASSUME DInv, IInv', NEW r \in Requests,
         \/ ActionThrows(r) \/ BlockNumber(r) \/ ClearWalletFeed(r)
         \/ Dispatch(r) \/ BeatReturns(r) \/ BeatThrows(r)
  PROVE  DInv'
<1> USE BeatIsAJob
<1>1. job \in [Jobs -> JobRecord] /\ requests[r] \in Asked
  BY DEF DInv, IInv, TypeOK, JobRecord, DirectorTypeOK
<1>2. ASSUME NEW status \in {"SUCCEEDED", "FAILED"}, Outcome(r, status),
             requests[r].step \in {"opened", "clearing", "paying", "closing"},
             At(Beat, "idle")', UNCHANGED <<running, demoRuns, interrupted>>
      PROVE  DInv'
  <2>1. PICK new \in Asked :
          /\ new.step = "closing" /\ new.outcome = status /\ new.run = requests[r].run
          /\ OneMoves(r, new)
    BY <1>2, OutcomeFacts DEF DInv
  <2> QED
    BY <1>2, <2>1, Advances
<1>3. ASSUME NEW step \in {"clearing", "paying"}, Move(r, step), Under(r, "opened"),
             ~At(Beat, "idle")' => step = "paying",
             UNCHANGED <<running, demoRuns, interrupted>>
      PROVE  DInv'
  <2> DEFINE new == [requests[r] EXCEPT !.step = step]
  <2>1. new \in Asked /\ new.step = step /\ new.run = requests[r].run
    BY <1>1 DEF Asked, Steps
  <2>2. OneMoves(r, new)
    <3>1. step \in Steps
      BY DEF Steps
    <3> QED
      BY <1>3, <3>1, StepFacts DEF DInv
  <2> HIDE DEF new
  <2> QED
    BY <1>3, <2>1, <2>2, Advances DEF Under
<1>4. CASE ActionThrows(r)
  <2>1. At(Beat, "idle")'
    BY <1>4, BeatIsIdle DEF ActionThrows, Under, vars, At
  <2> QED
    BY <1>2, <1>4, <2>1 DEF ActionThrows
<1>5. CASE BlockNumber(r)
  <2>1. At(Beat, "idle")'
    BY <1>5, BeatIsIdle DEF BlockNumber, Under, vars, At
  <2> QED
    BY <1>3, <1>5, <2>1 DEF BlockNumber
<1>6. CASE ClearWalletFeed(r)
  <2>1. At(Beat, "idle")'
    BY <1>6, BeatIsIdle DEF ClearWalletFeed, ClearRows, Under, At
  <2> QED
    BY <1>2, <1>6, <2>1 DEF ClearWalletFeed, Under
<1>7. CASE Dispatch(r)
  BY <1>3, <1>7 DEF Dispatch
<1>8. CASE BeatReturns(r)
  <2>1. At(Beat, "idle")'
    <3>1. job' = [job EXCEPT ![Beat] = Resting]
      BY <1>8 DEF BeatReturns, Receipt, SubmitThrows, Throws
    <3> QED
      BY <1>1, <3>1 DEF Resting, At
  <2> QED
    BY <1>2, <1>8, <2>1 DEF BeatReturns, Under
<1>9. CASE BeatThrows(r)
  <2>1. At(Beat, "idle")'
    BY <1>1, <1>9 DEF BeatThrows, ReceiptTimesOut, StepThrows, Throws, Resting, At
  <2> QED
    BY <1>2, <1>9, <2>1 DEF BeatThrows, Under
<1> QED
  BY <1>4, <1>5, <1>6, <1>7, <1>8, <1>9

\* The payment of a beat, short of its end.
LEMMA BeatGoesOn ==
  ASSUME DInv, IInv', NEW r \in Requests, PlanBeat(r) \/ SendBeat(r)
  PROVE  DInv'
<1>1. Under(r, "paying") /\ UNCHANGED <<requests, running, interrupted>>
  BY DEF PlanBeat, SendBeat, directorVars
<1>2. OneAction'
  BY <1>1 DEF DInv, OneAction, Under
<1>3. CASE SendBeat(r)
  <2>1. UNCHANGED directorVars
    BY <1>3 DEF SendBeat
  <2> QED
    BY <1>2, <2>1 DEF DInv, DirectorTypeOK, RunsOfRequests, OnlyInterruptedRunsHang,
                      Under, directorVars
<1>4. CASE PlanBeat(r)
  <2> DEFINE i == requests[r].run
             row == [demoRuns[i] EXCEPT !.intent = planned']
  <2>1. i \in DOMAIN demoRuns
    BY <1>1 DEF DInv, RunsOfRequests, Under
  <2>2. demoRuns[i] \in Run /\ planned' \in Nat
    BY <2>1, RuntimeAssumption DEF DInv, DirectorTypeOK, IInv, TypeOK
  <2>3. row \in Run /\ row.status = demoRuns[i].status
    BY <2>2 DEF Run
  <2>4. demoRuns' = [demoRuns EXCEPT ![i] = row]
    BY <1>4 DEF PlanBeat
  <2> HIDE DEF row
  <2>5. /\ demoRuns' \in Seq(Run) /\ DOMAIN demoRuns' = DOMAIN demoRuns
        /\ demoRuns'[i] = row
        /\ \A j \in DOMAIN demoRuns : j # i => demoRuns'[j] = demoRuns[j]
    BY <2>1, <2>3, <2>4, RowFacts DEF DInv
  <2>6. DirectorTypeOK' /\ RunsOfRequests'
    BY <1>1, <2>5 DEF DInv, DirectorTypeOK, RunsOfRequests, Under
  <2>7. OnlyInterruptedRunsHang'
    BY <1>1, <2>3, <2>5 DEF DInv, OnlyInterruptedRunsHang
  <2> QED
    BY <1>2, <2>6, <2>7 DEF DInv
<1> QED
  BY <1>3, <1>4

LEMMA DirectorCrashKeeps ==
  ASSUME DInv, IInv', DirectorCrash
  PROVE  DInv'
<1>1. requests' = [r \in Requests |-> NotAsked] /\ running' = FALSE /\ demoRuns' = demoRuns
  BY DEF DirectorCrash
<1>2. NotAsked \in Asked /\ NotAsked.step = "none" /\ NotAsked.run = NoRun
  BY DEF NotAsked, Asked, Steps, NoRun
<1>3. At(Beat, "idle")'
  BY BeatIsAJob DEF DirectorCrash, Crash, At, Resting
<1>4. DirectorTypeOK'
  BY <1>1, <1>2 DEF DInv, DirectorTypeOK
<1>5. OneAction' /\ RunsOfRequests'
  BY <1>1, <1>2, <1>3 DEF OneAction, RunsOfRequests, Under
<1>6. OnlyInterruptedRunsHang'
  <2>1. \A i \in DOMAIN demoRuns : i # NoRun
    BY DEF DInv, DirectorTypeOK, NoRun
  <2>2. interrupted' = interrupted \cup ({requests[r].run : r \in Requests} \ {NoRun})
    BY DEF DirectorCrash
  <2> QED
    BY <1>1, <2>1, <2>2 DEF DInv, OnlyInterruptedRunsHang
<1> QED
  BY <1>4, <1>5, <1>6 DEF DInv

LEMMA DirectorKeeps == DInv /\ [DirectorNext]_dvars => DInv'
<1> SUFFICES ASSUME DInv, [DirectorNext]_dvars PROVE DInv'
  OBVIOUS
<1>1. IInv'
  BY StepIsRuntimes, StepKeeps DEF DInv
<1>2. ASSUME NEW r \in Requests, RequestStep(r) PROVE DInv'
  <2>1. CASE RefusedEarly(r)
    <3>1. OneMoves(r, NotAsked) /\ running' = FALSE
      BY <2>1, ReleaseFacts DEF RefusedEarly, DInv
    <3>2. At(Beat, "idle")' /\ ~Under(r, "none")
      BY <2>1, BeatIsIdle DEF RefusedEarly, Under, vars, At
    <3>3. requests[r].run = NoRun /\ demoRuns' = demoRuns /\ interrupted' = interrupted
      BY <2>1 DEF RefusedEarly, DInv, RunsOfRequests, Under
    <3>4. OnlyInterruptedRunsHang'
      <4>1. \A i \in DOMAIN demoRuns : i # NoRun
        BY DEF DInv, DirectorTypeOK, NoRun
      <4> QED
        BY <3>1, <3>3, <4>1 DEF DInv, OnlyInterruptedRunsHang, OneMoves
    <3>5. demoRuns' \in Seq(Run)
      BY <3>3 DEF DInv, DirectorTypeOK
    <3> QED
      BY <1>1, <3>1, <3>2, <3>4, <3>5, Releases
  <2> QED
    BY <1>1, <1>2, <2>1, OpenRunKeeps, CloseKeeps, GoesOn, BeatGoesOn DEF RequestStep
<1>3. ASSUME NEW r \in Requests, CloseThrows(r) PROVE DInv'
  BY <1>1, <1>3, CloseThrowsKeeps
<1>4. ASSUME NEW r \in Requests, NEW kind \in {"beat", "reset"}, Post(r, kind) PROVE DInv'
  BY <1>1, <1>4, PostKeeps
<1>5. CASE DirectorCrash
  BY <1>1, <1>5, DirectorCrashKeeps
<1>6. CASE Elsewhere \/ UNCHANGED dvars
  <2>1. job'[Beat] = job[Beat] /\ UNCHANGED directorVars
    BY <1>6, BeatStays DEF DInv, Elsewhere, dvars, vars
  <2> QED
    BY <1>1, <2>1 DEF DInv, DirectorTypeOK, OneAction, RunsOfRequests,
                      OnlyInterruptedRunsHang, Under, At, directorVars
<1> QED
  BY <1>2, <1>3, <1>4, <1>5, <1>6 DEF DirectorNext

LEMMA DirectorStarts == DirectorInit => DInv
<1> SUFFICES ASSUME DirectorInit PROVE DInv
  OBVIOUS
<1>1. IInv
  BY Initially DEF DirectorInit
<1>2. \A r \in Requests : requests[r] = NotAsked
  BY DEF DirectorInit
<1>3. NotAsked \in Asked /\ NotAsked.step = "none" /\ NotAsked.run = NoRun
  BY DEF NotAsked, Asked, Steps, NoRun
<1>4. DirectorTypeOK
  <2>1. requests \in [Requests -> Asked]
    BY <1>3 DEF DirectorInit
  <2>2. demoRuns \in Seq(Run)
    BY DEF DirectorInit
  <2> QED
    BY <2>1, <2>2 DEF DirectorInit, DirectorTypeOK
<1>5. At(Beat, "idle")
  BY BeatIsAJob DEF DirectorInit, Init, Resting, At
<1>6. OneAction /\ RunsOfRequests
  BY <1>2, <1>3, <1>5 DEF OneAction, RunsOfRequests, Under
<1>7. OnlyInterruptedRunsHang
  BY DEF DirectorInit, OnlyInterruptedRunsHang
<1> QED
  BY <1>1, <1>4, <1>6, <1>7 DEF DInv

LEMMA AlwaysDInv == DirectorSpec => []DInv
<1>1. DInv /\ [DirectorNext]_dvars => DInv'
  BY DirectorKeeps
<1>2. DirectorSpec => DirectorInit /\ [][DirectorNext]_dvars
  BY PTL DEF DirectorSpec, dvars
<1> QED
  BY <1>1, <1>2, DirectorStarts, PTL

-----------------------------------------------------------------------------
(* What a run that "ran" says of its payment. *)

Decided(k) ==
  \/ k \in DOMAIN calls /\ calls[k] # "pool"
  \/ k \in DOMAIN intents => intents[k].status = "FAILED"

\* A request under way and its row: of one kind, the row is not finished and
\* names the beat's payment once there is one, and the payment of a beat that
\* is about to be told to have run is decided.
Told(r) ==
  LET q == requests[r] IN
  /\ q.step \in {"opened", "clearing", "paying", "closing"} =>
       demoRuns[q.run].kind = q.kind /\ demoRuns[q.run].status = "RUNNING"
  /\ q.step = "opened" => demoRuns[q.run].intent = NoIntent
  /\ q.step = "clearing" => q.kind = "reset"
  /\ q.step = "paying" /\ ~At(Beat, "idle") => demoRuns[q.run].intent = job[Beat].id
  /\ q.step = "closing" /\ q.outcome = "SUCCEEDED" /\ q.kind = "beat" =>
       Decided(demoRuns[q.run].intent)

RunsArePlanned == \A i \in DOMAIN demoRuns : demoRuns[i].intent \in 0..planned

RInv == RunsArePlanned /\ (\A r \in Requests : Told(r)) /\ RanMeansDecided

\* What the chain has decided stays decided, and a row that is settled or
\* gone does not come back.
LEMMA CallsStay ==
  ASSUME IInv, [Next]_vars, NEW k \in DOMAIN calls, calls[k] # "pool"
  PROVE  k \in DOMAIN calls' /\ calls'[k] # "pool"
<1>1. ASSUME NEW j \in Jobs, Broadcast(j) \/ SubmitThrows(j)
      PROVE  k \in DOMAIN calls' /\ calls'[k] # "pool"
  <2>1. k # job[j].id
    BY <1>1 DEF IInv, Places, Broadcast, SubmitThrows
  <2>2. calls' = calls \/ calls' = Put(calls, job[j].id, "pool")
    BY <1>1 DEF Broadcast, SubmitThrows
  <2> QED
    BY <2>1, <2>2 DEF Put
<1>2. ASSUME NEW l \in IntentId, Include(l)
      PROVE  k \in DOMAIN calls' /\ calls'[k] # "pool"
  BY <1>2 DEF Include
<1>3. \/ UNCHANGED calls
      \/ \E j \in Jobs : Broadcast(j) \/ SubmitThrows(j)
      \/ \E l \in IntentId : Include(l)
  BY DEF Next, JobStep, StartRun, StartBeat, BeginBeat, Reset, ClearRows, AskRows, Plan,
         StoreHash, Receipt, ReceiptTimesOut, StepThrows, Crash, Tock, Reconcile,
         IndexCall, vars, chainVars
<1> QED
  BY <1>1, <1>2, <1>3

LEMMA RowsStayGone ==
  ASSUME IInv, [Next]_vars
  PROVE  /\ planned \in Nat /\ planned' \in Nat /\ planned <= planned'
         /\ \A k \in 0..planned : k \notin DOMAIN intents => k \notin DOMAIN intents'
<1>1. planned \in Nat
  BY RuntimeAssumption DEF IInv, TypeOK
<1>2. CASE \E j \in Jobs : Plan(j)
  <2>1. planned' = planned + 1 /\ DOMAIN intents' = DOMAIN intents \cup {planned + 1}
    BY <1>2 DEF Plan, Put
  <2> QED
    BY <1>1, <2>1
<1>3. CASE planned' = planned /\ DOMAIN intents' \subseteq DOMAIN intents
  BY <1>1, <1>3
<1>4. CASE UNCHANGED <<planned, intents>>
  BY <1>1, <1>4
<1>5. \/ UNCHANGED <<planned, intents>>
      \/ planned' = planned /\ DOMAIN intents' \subseteq DOMAIN intents
      \/ \E j \in Jobs : Plan(j)
  <2>1. \A k, status, hash : Update(k, status, hash) => DOMAIN intents' = DOMAIN intents
    BY DEF Update
  <2>2. ASSUME NEW j \in Jobs, StoreHash(j) \/ SubmitThrows(j) \/ Receipt(j)
        PROVE  planned' = planned /\ DOMAIN intents' \subseteq DOMAIN intents
    BY <2>1, <2>2 DEF StoreHash, SubmitThrows, Receipt
  <2>3. ASSUME NEW l \in IntentId, IndexCall(l)
        PROVE  planned' = planned /\ DOMAIN intents' \subseteq DOMAIN intents
    BY <2>1, <2>3 DEF IndexCall
  <2>4. Reset => planned' = planned /\ DOMAIN intents' \subseteq DOMAIN intents
    BY DEF Reset, ClearRows
  <2>5. \/ UNCHANGED <<planned, intents>> \/ Reset
        \/ \E j \in Jobs : Plan(j) \/ StoreHash(j) \/ SubmitThrows(j) \/ Receipt(j)
        \/ \E l \in IntentId : IndexCall(l)
    BY DEF Next, JobStep, StartRun, StartBeat, BeginBeat, AskRows, Broadcast,
           ReceiptTimesOut, StepThrows, Crash, Tock, Reconcile, Include, vars
  <2> QED
    BY <2>2, <2>3, <2>4, <2>5
<1> QED
  BY <1>2, <1>3, <1>4, <1>5

LEMMA StaysDecided ==
  ASSUME IInv, [Next]_vars, NEW k \in 0..planned, Decided(k)
  PROVE  Decided(k)'
<1>1. CASE k \in DOMAIN calls /\ calls[k] # "pool"
  BY <1>1, CallsStay DEF Decided
<1>2. CASE k \in DOMAIN intents => intents[k].status = "FAILED"
  <2>1. CASE k \in DOMAIN intents'
    <3>1. k \in DOMAIN intents /\ Settled(k)
      BY <1>2, <2>1, RowsStayGone DEF Settled
    <3>2. intents'[k] = intents[k]
      BY <2>1, <3>1, StepSettles DEF StaysSettled
    <3> QED
      BY <1>2, <3>1, <3>2 DEF Decided
  <2>2. CASE k \notin DOMAIN intents'
    BY <2>2 DEF Decided
  <2> QED
    BY <2>1, <2>2
<1> QED
  BY <1>1, <1>2 DEF Decided

\* Requests that have not begun say nothing, and only one has begun: a step
\* has to tell of the request that takes it.
LEMMA OneTells ==
  ASSUME DInv, NEW r \in Requests, ~Under(r, "none"), NEW new, OneMoves(r, new),
         Told(r)'
  PROVE  \A s \in Requests : Told(s)'
<1>1. \A s \in Requests : s # r => requests'[s].step = "none"
  BY DEF DInv, OneAction, OneMoves, Under
<1>2. \A s \in Requests : s # r => Told(s)'
  BY <1>1 DEF Told
<1> QED
  BY <1>2

LEMMA RowsRest ==
  ASSUME DInv, RInv, [DirectorNext]_dvars, UNCHANGED demoRuns
  PROVE  RunsArePlanned' /\ RanMeansDecided'
<1>1. [Next]_vars /\ IInv
  BY StepIsRuntimes DEF DInv
<1>2. \A i \in DOMAIN demoRuns : demoRuns[i].intent \in 0..planned
  BY DEF RInv, RunsArePlanned
<1>3. RunsArePlanned'
  BY <1>1, <1>2, RowsStayGone DEF RunsArePlanned
<1>4. RanMeansDecided'
  <2> SUFFICES ASSUME NEW i \in DOMAIN demoRuns, demoRuns[i].kind = "beat",
                      demoRuns[i].status = "SUCCEEDED"
               PROVE  Decided(demoRuns[i].intent)'
    BY DEF RanMeansDecided, Decided
  <2>1. Decided(demoRuns[i].intent)
    BY DEF RInv, RanMeansDecided, Decided
  <2> DEFINE k == demoRuns[i].intent
  <2>2. Decided(k)'
    BY <1>1, <1>2, <2>1, StaysDecided
  <2> QED
    BY <2>2
<1> QED
  BY <1>3, <1>4

\* A step that leaves the rows and lets one request move.
LEMMA OneMovesTells ==
  ASSUME DInv, RInv, [DirectorNext]_dvars, UNCHANGED demoRuns,
         NEW r \in Requests, ~Under(r, "none"), NEW new, OneMoves(r, new), Told(r)'
  PROVE  RInv'
  BY RowsRest, OneTells DEF RInv

LEMMA OutcomeTells ==
  ASSUME DInv, RInv, [DirectorNext]_dvars, UNCHANGED demoRuns,
         NEW r \in Requests, NEW status \in {"SUCCEEDED", "FAILED"}, Outcome(r, status),
         requests[r].step \in {"opened", "clearing", "paying", "closing"},
         status = "SUCCEEDED" /\ requests[r].kind = "beat" =>
           \E k : k = demoRuns[requests[r].run].intent /\ Decided(k)'
  PROVE  RInv'
<1>1. PICK new \in Asked :
        /\ new.step = "closing" /\ new.outcome = status
        /\ new.run = requests[r].run /\ new.kind = requests[r].kind
        /\ OneMoves(r, new)
  BY OutcomeFacts DEF DInv
<1>2. requests'[r] = new
  BY <1>1 DEF OneMoves
<1>3. Told(r)'
  BY <1>1, <1>2 DEF RInv, Told, Decided
<1> QED
  BY <1>1, <1>3, OneMovesTells DEF Under

LEMMA DirectorTells == DInv /\ RInv /\ [DirectorNext]_dvars => RInv'
<1> SUFFICES ASSUME DInv, RInv, [DirectorNext]_dvars PROVE RInv'
  OBVIOUS
<1>0. IInv /\ DirectorTypeOK /\ job \in [Jobs -> JobRecord] /\ [Next]_vars
  BY StepIsRuntimes DEF DInv, IInv, TypeOK, JobRecord
<1>1. ASSUME NEW r \in Requests, NEW kind \in {"beat", "reset"}, Post(r, kind) PROVE RInv'
  <2> DEFINE new == [NotAsked EXCEPT !.step = "asked", !.kind = kind]
  <2>1. new.step = "asked" /\ requests' = [requests EXCEPT ![r] = new]
    BY <1>1 DEF Post, NotAsked
  <2>2. \A s \in Requests : requests[s].step = "none"
    BY <1>1 DEF Post, Free, DInv, OneAction, Under
  <2>3. \A s \in Requests : requests'[s].step \in {"none", "asked"}
    BY <1>0, <2>1, <2>2 DEF DirectorTypeOK
  <2>4. \A s \in Requests : Told(s)'
    BY <2>3 DEF Told
  <2> QED
    BY <1>1, <2>4, RowsRest DEF RInv, Post
<1>2. ASSUME NEW r \in Requests, RefusedEarly(r) PROVE RInv'
  <2>1. OneMoves(r, NotAsked) /\ requests'[r].step = "none" /\ ~Under(r, "none")
    BY <1>0, <1>2, ReleaseFacts DEF RefusedEarly, Under
  <2> QED
    BY <1>2, <2>1, OneMovesTells DEF RefusedEarly, Told
<1>3. ASSUME NEW r \in Requests, OpenRun(r) PROVE RInv'
  <2> DEFINE row == [kind |-> requests[r].kind, status |-> "RUNNING", intent |-> NoIntent]
             last == Len(demoRuns')
             new == [requests[r] EXCEPT !.step = "opened", !.run = last]
  <2>1. requests[r] \in Asked /\ Len(demoRuns) \in Nat /\ demoRuns \in Seq(Run) /\ row \in Run
    BY <1>0 DEF DirectorTypeOK, Run, Asked, NoIntent
  <2>2. demoRuns' = Append(demoRuns, row) /\ row.status = "RUNNING" /\ row.intent = 0
        /\ row.kind = requests[r].kind
    BY <1>3 DEF OpenRun, NoIntent
  <2> HIDE DEF row
  <2>3. /\ last = Len(demoRuns) + 1 /\ demoRuns'[last] = row
        /\ DOMAIN demoRuns' = DOMAIN demoRuns \cup {last}
        /\ \A i \in DOMAIN demoRuns : demoRuns'[i] = demoRuns[i]
    BY <2>1, <2>2
  <2> HIDE DEF last
  <2>4. /\ new \in Asked /\ new.step = "opened" /\ new.run = last
        /\ new.kind = requests[r].kind
    <3>1. last \in Nat
      BY <2>1, <2>3
    <3> QED
      BY <2>1, <3>1 DEF Asked, Steps
  <2>5. requests' = [requests EXCEPT ![r] = new]
    BY <1>3 DEF OpenRun, last
  <2> HIDE DEF new
  <2>6. OneMoves(r, new) /\ requests'[r] = new /\ ~Under(r, "none")
    BY <1>0, <1>3, <2>4, <2>5, MoveFacts DEF OneMoves, OpenRun, Under
  <2>7. Told(r)'
    BY <2>2, <2>3, <2>4, <2>6 DEF Told, NoIntent
  <2>8. UNCHANGED vars
    BY <1>3 DEF OpenRun
  <2>9. RunsArePlanned'
    <3>1. planned' = planned /\ planned \in Nat
      BY <1>0, <2>8, RowsStayGone DEF vars
    <3> QED
      BY <2>2, <2>3, <3>1 DEF RInv, RunsArePlanned
  <2>10. RanMeansDecided'
    BY <2>2, <2>3, <2>8 DEF RInv, RanMeansDecided, vars, chainVars
  <2> QED
    BY <2>6, <2>7, <2>9, <2>10, OneTells DEF RInv
<1>4. ASSUME NEW r \in Requests, ActionThrows(r) PROVE RInv'
  BY <1>4, OutcomeTells DEF ActionThrows
<1>5. ASSUME NEW r \in Requests, Close(r) PROVE RInv'
  <2> DEFINE i == requests[r].run
             row == [demoRuns[i] EXCEPT !.status = requests[r].outcome]
  <2>1. i \in DOMAIN demoRuns /\ requests[r] \in Asked
        /\ requests[r].outcome \in {"SUCCEEDED", "FAILED"}
    BY <1>0, <1>5 DEF Close, Under, DInv, RunsOfRequests, DirectorTypeOK, Asked
  <2>2. demoRuns[i] \in Run
    BY <1>0, <2>1 DEF DirectorTypeOK
  <2>3. /\ row \in Run /\ row.status = requests[r].outcome
        /\ row.intent = demoRuns[i].intent /\ row.kind = demoRuns[i].kind
    BY <2>1, <2>2 DEF Run
  <2>4. demoRuns' = [demoRuns EXCEPT ![i] = row]
    BY <1>5 DEF Close
  <2> HIDE DEF row
  <2>5. /\ DOMAIN demoRuns' = DOMAIN demoRuns /\ demoRuns'[i] = row
        /\ \A j \in DOMAIN demoRuns : j # i => demoRuns'[j] = demoRuns[j]
    BY <1>0, <2>1, <2>3, <2>4, RowFacts
  <2>6. OneMoves(r, NotAsked) /\ requests'[r].step = "none" /\ ~Under(r, "none")
    BY <1>0, <1>5, ReleaseFacts DEF Close, Under
  <2>7. UNCHANGED vars
    BY <1>5 DEF Close
  <2>8. RunsArePlanned'
    BY <2>1, <2>3, <2>5, <2>7 DEF RInv, RunsArePlanned, vars
  <2>9. RanMeansDecided'
    <3>1. row.kind = "beat" /\ row.status = "SUCCEEDED" => Decided(row.intent)
      <4>1. Told(r) /\ requests[r].step = "closing"
        BY <1>5 DEF RInv, Close, Under
      <4> QED
        BY <2>3, <4>1 DEF Told
    <3>2. calls' = calls /\ intents' = intents
      BY <2>7 DEF vars, chainVars
    <3> QED
      BY <2>1, <2>5, <3>1, <3>2 DEF RInv, RanMeansDecided, Decided
  <2>10. Told(r)'
    BY <2>6 DEF Told
  <2> QED
    BY <2>6, <2>8, <2>9, <2>10, OneTells DEF RInv
<1>6. ASSUME NEW r \in Requests, CloseThrows(r) PROVE RInv'
  <2>1. requests[r].step = "closing" /\ ~Under(r, "none") /\ UNCHANGED demoRuns
    BY <1>6 DEF CloseThrows, Under
  <2>2. CASE Outcome(r, "FAILED")
    BY <2>1, <2>2, OutcomeTells
  <2>3. CASE Release(r)
    <3>1. OneMoves(r, NotAsked) /\ requests'[r].step = "none"
      BY <1>0, <2>3, ReleaseFacts
    <3> QED
      BY <2>1, <3>1, OneMovesTells DEF Told
  <2> QED
    BY <1>6, <2>2, <2>3 DEF CloseThrows
<1>7. ASSUME NEW r \in Requests, NEW step \in {"clearing", "paying"}, Move(r, step),
             Under(r, "opened"), UNCHANGED demoRuns,
             step = "clearing" => requests[r].kind = "reset",
             step = "paying" => job'[Beat].id = NoIntent
      PROVE  RInv'
  <2> DEFINE new == [requests[r] EXCEPT !.step = step]
  <2>1. /\ new.step = step /\ new.run = requests[r].run /\ new.kind = requests[r].kind
        /\ requests[r].step = "opened"
    BY <1>0, <1>7 DEF DirectorTypeOK, Asked, Under
  <2>2. OneMoves(r, new)
    BY <1>0, <1>7, StepFacts DEF Steps
  <2> HIDE DEF new
  <2>3. requests'[r] = new /\ ~Under(r, "none")
    BY <2>2, <1>7 DEF OneMoves, Under
  <2>4. Told(r)'
    BY <1>7, <2>1, <2>3 DEF RInv, Told
  <2> QED
    BY <1>7, <2>2, <2>3, <2>4, OneMovesTells
<1>8. ASSUME NEW r \in Requests, BlockNumber(r) PROVE RInv'
  BY <1>7, <1>8 DEF BlockNumber
<1>9. ASSUME NEW r \in Requests, ClearWalletFeed(r) PROVE RInv'
  <2>1. Told(r) /\ requests[r].step = "clearing"
    BY <1>9 DEF RInv, ClearWalletFeed, Under
  <2>2. requests[r].kind = "reset"
    BY <2>1 DEF Told
  <2> QED
    BY <1>9, <2>1, <2>2, OutcomeTells DEF ClearWalletFeed
<1>10. ASSUME NEW r \in Requests, Dispatch(r) PROVE RInv'
  <2>1. job'[Beat].id = NoIntent
    BY <1>0, <1>10, BeatIsAJob DEF Dispatch, BeginBeat
  <2> QED
    BY <1>7, <1>10, <2>1 DEF Dispatch
<1>11. ASSUME NEW r \in Requests, PlanBeat(r) PROVE RInv'
  <2> DEFINE i == requests[r].run
             row == [demoRuns[i] EXCEPT !.intent = planned']
  <2>1. i \in DOMAIN demoRuns /\ requests[r].step = "paying" /\ UNCHANGED requests
    BY <1>11 DEF PlanBeat, Under, DInv, RunsOfRequests
  <2>2. demoRuns[i] \in Run /\ planned \in Nat /\ planned' = planned + 1
    BY <1>0, <1>11, <2>1, RowsStayGone DEF DirectorTypeOK, PlanBeat, Plan
  <2>3. /\ row \in Run /\ row.status = demoRuns[i].status
        /\ row.intent = planned' /\ row.kind = demoRuns[i].kind
    BY <2>2 DEF Run
  <2>4. demoRuns' = [demoRuns EXCEPT ![i] = row]
    BY <1>11 DEF PlanBeat
  <2> HIDE DEF row
  <2>5. /\ DOMAIN demoRuns' = DOMAIN demoRuns /\ demoRuns'[i] = row
        /\ \A j \in DOMAIN demoRuns : j # i => demoRuns'[j] = demoRuns[j]
    BY <1>0, <2>1, <2>3, <2>4, RowFacts
  <2>6. job'[Beat].id = planned'
    BY <1>0, <1>11, BeatIsAJob DEF PlanBeat, Plan, JobRecord
  <2>7. Told(r)
    BY DEF RInv
  <2>8. Told(r)'
    BY <2>1, <2>3, <2>5, <2>6, <2>7 DEF Told
  <2>9. \A s \in Requests : Told(s)'
    BY <2>1, <2>8 DEF DInv, OneAction, Under, Told
  <2>10. RunsArePlanned'
    BY <2>2, <2>3, <2>5 DEF RInv, RunsArePlanned
  <2>11. RanMeansDecided'
    <3> SUFFICES ASSUME NEW j \in DOMAIN demoRuns', demoRuns'[j].kind = "beat",
                        demoRuns'[j].status = "SUCCEEDED"
                 PROVE  \E k : k = demoRuns'[j].intent /\ Decided(k)'
      BY DEF RanMeansDecided, Decided
    <3>1. row.status = "RUNNING"
      BY <2>1, <2>3, <2>7 DEF Told
    <3>2. j # i /\ j \in DOMAIN demoRuns /\ demoRuns'[j] = demoRuns[j]
      BY <2>5, <3>1
    <3>3. Decided(demoRuns[j].intent) /\ demoRuns[j].intent \in 0..planned
      BY <3>2 DEF RInv, RanMeansDecided, RunsArePlanned, Decided
    <3>4. PICK k : k = demoRuns[j].intent
      OBVIOUS
    <3>5. Decided(k)'
      BY <1>0, <3>3, <3>4, StaysDecided
    <3> QED
      BY <3>2, <3>4, <3>5
  <2> QED
    BY <2>9, <2>10, <2>11 DEF RInv
<1>12. ASSUME NEW r \in Requests, SendBeat(r) PROVE RInv'
  <2>1. requests[r].step = "paying" /\ UNCHANGED directorVars
    BY <1>12 DEF SendBeat, Under
  <2>2. ~At(Beat, "idle") /\ job'[Beat].id = job[Beat].id
    <3>1. CASE Broadcast(Beat)
      BY <1>0, <3>1, BeatIsAJob DEF Broadcast, At, JobRecord
    <3>2. CASE StoreHash(Beat) /\ ~At(Beat, "idle")'
      <4>1. job' = [job EXCEPT ![Beat].phase = "waiting"] \/ job'[Beat] = Resting
        BY <1>0, <3>2, BeatIsAJob DEF StoreHash, Throws
      <4>2. job'[Beat] # Resting
        BY <3>2 DEF At, Resting
      <4> QED
        BY <1>0, <3>2, <4>1, <4>2, BeatIsAJob DEF StoreHash, At, JobRecord
    <3> QED
      BY <1>12, <3>1, <3>2 DEF SendBeat
  <2>3. Told(r)'
    BY <2>1, <2>2 DEF RInv, Told, directorVars
  <2>4. \A s \in Requests : Told(s)'
    BY <2>1, <2>3 DEF DInv, OneAction, Under, Told, directorVars
  <2> QED
    BY <2>1, <2>4, RowsRest DEF RInv, directorVars
<1>13. ASSUME NEW r \in Requests, BeatReturns(r) PROVE RInv'
  <2>1. /\ requests[r].step = "paying" /\ Told(r) /\ UNCHANGED demoRuns
        /\ Receipt(Beat) \/ SubmitThrows(Beat)
    BY <1>13 DEF RInv, BeatReturns, Under
  <2>2. PICK k : k = job[Beat].id
    OBVIOUS
  <2>3. demoRuns[requests[r].run].intent = k
    BY <2>1, <2>2 DEF Told, Receipt, SubmitThrows, At
  <2>4. Decided(k)'
    <3>1. CASE Receipt(Beat)
      <4>1. k \in DOMAIN calls /\ calls[k] # "pool" /\ calls' = calls
        BY <1>0, <2>2, <3>1, BeatIsAJob DEF IInv, Places, Receipt, At, chainVars
      <4> QED
        BY <4>1 DEF Decided
    <3>2. CASE SubmitThrows(Beat)
      <4>1. RowsAfterUpdate(k, "FAILED", FALSE)
        BY <1>0, <2>2, <3>2, UpdateFacts DEF IInv, SubmitThrows, IntentStatus
      <4> QED
        BY <4>1 DEF RowsAfterUpdate, Decided
    <3> QED
      BY <2>1, <3>1, <3>2
  <2> QED
    BY <1>13, <2>1, <2>3, <2>4, OutcomeTells DEF BeatReturns
<1>14. ASSUME NEW r \in Requests, BeatThrows(r) PROVE RInv'
  BY <1>14, OutcomeTells DEF BeatThrows, Under
<1>15. CASE DirectorCrash
  <2>1. \A r \in Requests : requests'[r].step = "none"
    BY <1>15 DEF DirectorCrash, NotAsked
  <2>2. \A r \in Requests : Told(r)'
    BY <2>1 DEF Told
  <2> QED
    BY <1>15, <2>2, RowsRest DEF RInv, DirectorCrash
<1>16. CASE Elsewhere \/ UNCHANGED dvars
  <2>1. job'[Beat] = job[Beat] /\ UNCHANGED directorVars
    BY <1>0, <1>16, BeatStays DEF Elsewhere, dvars, vars
  <2>2. ASSUME NEW r \in Requests PROVE Told(r)'
    <3>1. requests'[r] = requests[r] /\ demoRuns' = demoRuns /\ Told(r)
      BY <2>1 DEF RInv, directorVars
    <3>2. PICK k : k = demoRuns[requests[r].run].intent
      OBVIOUS
    <3>3. requests[r].step = "closing" => k \in 0..planned
      BY <1>0, <3>2 DEF DInv, RunsOfRequests, RInv, RunsArePlanned
    <3>4. requests[r].step = "closing" /\ Decided(k) => Decided(k)'
      BY <1>0, <3>3, StaysDecided
    <3> QED
      BY <2>1, <3>1, <3>2, <3>4 DEF Told, At, Decided
  <2> QED
    BY <2>1, <2>2, RowsRest DEF RInv, directorVars
<1> QED
  BY <1>1, <1>2, <1>3, <1>4, <1>5, <1>6, <1>8, <1>9, <1>10, <1>11, <1>12, <1>13, <1>14,
     <1>15, <1>16 DEF DirectorNext, RequestStep

-----------------------------------------------------------------------------
\* The director's flag keeps its beats and resets as far apart as the runtime
\* supposes: withSingleFlight implements NoActionRunning.
THEOREM DirectorIsRuntime == DirectorSpec => IsRuntime
<1>1. DInv /\ [DirectorNext]_dvars => [Next]_vars
  BY StepIsRuntimes
<1>2. DirectorSpec => DirectorInit /\ [][DirectorNext]_dvars
  BY PTL DEF DirectorSpec, dvars
<1>3. DirectorInit => Init
  BY DEF DirectorInit
<1> QED
  BY <1>1, <1>2, <1>3, AlwaysDInv, PTL DEF IsRuntime, Spec

\* A run that reads RUNNING is under way or was interrupted.
THEOREM OnlyInterruptedRunsHangAlways == DirectorSpec => []OnlyInterruptedRunsHang
<1>1. DInv => OnlyInterruptedRunsHang
  BY DEF DInv
<1> QED
  BY <1>1, AlwaysDInv, PTL

\* What is proved of the runtime holds under the director: its beats do not
\* make the timer pay twice, nor do its resets take a row from a beat.
THEOREM DirectorPaysOnce == DirectorSpec => [](OneAttemptAnEpoch /\ BeatKeepsItsIntent)
<1>1. DInv => OneAttemptAnEpoch /\ BeatKeepsItsIntent
  BY DEF DInv, IInv
<1> QED
  BY <1>1, AlwaysDInv, PTL

\* A beat is said to have run only if the chain has decided on its payment or
\* its row says that it failed, through timeouts, resets and crashes
\* (submitAgentPayment's ways to return, seen from executeBeat).
THEOREM RanMeansDecidedAlways == DirectorSpec => []RanMeansDecided
<1>1. DirectorInit => RInv
  BY DEF DirectorInit, RInv, RunsArePlanned, Told, NotAsked, RanMeansDecided
<1>2. RInv => RanMeansDecided
  BY DEF RInv
<1>3. DInv /\ RInv /\ [DirectorNext]_dvars => RInv'
  BY DirectorTells
<1>4. DirectorSpec => DirectorInit /\ [][DirectorNext]_dvars
  BY PTL DEF DirectorSpec, dvars
<1> QED
  BY <1>1, <1>2, <1>3, <1>4, AlwaysDInv, PTL
=============================================================================
