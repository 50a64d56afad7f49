-------------------------- MODULE TrustProperties --------------------------
(***************************************************************************)
(* What the tiers must be.                                                 *)
(***************************************************************************)
EXTENDS TrustService

\* The tier an agent's id in its row gives it by the registries.
RegistryTier(a) ==
  IF Unmatched(a, row[a].id) THEN "FLAGGED" ELSE TierFromRatings(row[a].id)

(***************************************************************************)
(* The type of the state.  Not by type alone: the ids in the cache, the    *)
(* rows and the snapshots are registered ones, and refreshes wait for the  *)
(* configuration only while its promise is under way.                      *)
(***************************************************************************)
KnownId == {NoId} \cup Ids

TickType ==
  [todo : SUBSET Accounts, ids : [Accounts -> KnownId], at : Accounts \cup {Nobody},
   phase : {"next", "config", "wallet", "feedback", "write"},
   result : Tiers \cup {Failed, Pending}]

TypeOK ==
  /\ wallet \in Seq(Accounts \cup {NoAccount})
  /\ feedback \in Seq(Seq([value : Int, decimals : Nat])) /\ Len(feedback) = Len(wallet)
  /\ up \in BOOLEAN
  /\ agentIdOf \in [Accounts -> KnownId]
  /\ row \in [Accounts -> [exists : BOOLEAN, id : KnownId, tier : Tiers]]
  /\ config \in {"none", "pending", "ready"}
  /\ tick \in [Ticks -> TickType]
  /\ cause \in [Ticks -> BOOLEAN]
  /\ script \in [phase : {"off", "register", "rate", "resync", "upsert"}, id : Nat, left : Nat]
  /\ config # "pending" => Awaiting = {}

(***************************************************************************)
(* The service's port of tierOf gives the contract's answer: wherever the  *)
(* cache has an agent at the id in its row, the tier that is shown after a *)
(* refresh is the tier that is enforced, whatever the ratings and their    *)
(* decimals.                                                               *)
(***************************************************************************)
PortAgrees ==
  \A a \in Rows :
    (/\ ~Unmatched(a, row[a].id) /\ agentIdOf[a] = row[a].id /\ up)
      => TierOf(a) = RegistryTier(a)

(***************************************************************************)
(* An agent loses its badge for a reason only: the refresh that flags it   *)
(* has begun without an id, or the registry has named another wallet for   *)
(* its id while the refresh was under way.  A read that fails, a           *)
(* configuration that fails and an update that throws leave the tier.      *)
(***************************************************************************)
FlaggedForCause ==
  [][\A a \in Accounts :
       (row[a].tier # "FLAGGED" /\ row'[a].tier = "FLAGGED")
         => \E t \in Ticks : tick[t].at = a /\ cause[t]]_vars

(***************************************************************************)
(* Badges catch up: when the registries have settled and can be read, an   *)
(* agent's row comes to show the tier they give it and keeps it, whatever  *)
(* has failed before and whichever older refresh is still to write.        *)
(***************************************************************************)
BadgeCatchesUp ==
  \A a \in Accounts, tier \in Tiers :
    <>[](a \in Rows /\ up /\ RegistryTier(a) = tier) => <>[](row[a].tier = tier)
=============================================================================
