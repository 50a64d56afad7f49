-------------------------- MODULE AgentProperties --------------------------
(***************************************************************************)
(* What the runtime promises about its payments and its rows.              *)
(***************************************************************************)
EXTENDS AgentRuntime

TypeOK ==
  /\ now \in Nat /\ epochStart \in Nat /\ mirrorStart \in Nat
  /\ DOMAIN calls \subseteq 1..planned /\ \A k \in DOMAIN calls : calls[k] \in CallStatus
  /\ DOMAIN charged \subseteq DOMAIN calls /\ \A k \in DOMAIN charged : charged[k] \in Nat
  /\ indexed \subseteq DOMAIN calls
  /\ DOMAIN intents \subseteq 1..planned /\ \A k \in DOMAIN intents : intents[k] \in Intent
  /\ planned \in 0..MaxIntents
  /\ job \in [Jobs -> [phase : Phase, under : Nat \cup {NoEpoch}, id : 0..MaxIntents]]
  /\ \A j \in Jobs : At(j, "waiting") => job[j].id \in DOMAIN calls

\* A row of the timer's that was planned under a mirrored epoch still running.
InEpoch(k) ==
  /\ intents[k].by \in Runs
  /\ intents[k].created <= intents[k].under + Epoch

\* As far as the mirror goes, the timer pays once an epoch: of two rows
\* planned under the same mirrored epoch, one has failed.  Through slow runs
\* that the next firing meets, through crashes between a row and its
\* transaction, and while the director pays and deletes.
OneAttemptAnEpoch ==
  \A k, l \in DOMAIN intents :
    k # l /\ InEpoch(k) /\ InEpoch(l) /\ intents[k].under = intents[l].under
      => intents[k].status = "FAILED" \/ intents[l].status = "FAILED"

\* No reset deletes the row of a beat that is still working with it.
BeatKeepsItsIntent ==
  job[Beat].id # NoIntent => job[Beat].id \in DOMAIN intents

\* What a row says about its transaction is what has become of it, whichever
\* of the indexer and the submitting job wrote it.
OutcomesAreTrue ==
  \A k \in DOMAIN intents :
    /\ intents[k].hash => k \in DOMAIN calls
    /\ intents[k].status = "CONFIRMED" => calls[k] = "executed"
    /\ intents[k].status = "BLOCKED" => calls[k] = "blocked"
    /\ intents[k].status = "FAILED" /\ intents[k].hash => calls[k] = "reverted"

\* A settled row stays as it is: the submitting job, which is slower to store
\* the hash than the chain may be to include the transaction, never writes
\* SUBMITTED over what the indexer has settled.
SettledIsFinal ==
  [][\A k \in DOMAIN intents :
       intents[k].status \in {"CONFIRMED", "BLOCKED", "FAILED"} /\ k \in DOMAIN intents'
         => intents'[k] = intents[k]]_vars

\* The comment on run(): the Subcontractor is paid once per epoch.
OncePerEpoch ==
  \A k, l \in DOMAIN charged :
    k # l /\ k \in DOMAIN intents /\ l \in DOMAIN intents
          /\ intents[k].by \in Runs /\ intents[l].by \in Runs
      => charged[k] # charged[l]
=============================================================================
