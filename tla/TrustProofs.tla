----------------------------- MODULE TrustProofs -----------------------------
(***************************************************************************)
(* Theorems about the tiers, for any accounts, any number of overlapping   *)
(* refreshes and any bounds.                                               *)
(***************************************************************************)
EXTENDS TrustProperties, FiniteSetTheorems, WellFoundedInduction, TLAPS

\* The script has a registered id once it has registered.
ScriptKnowsItsId ==
  /\ script.phase = "register" => script.id \in 1..NextId
  /\ script.phase \in {"rate", "upsert"} => script.id \in Ids
  /\ script.phase = "resync" => script.id \in KnownId

\* A refresh that is about to flag its agent, or would on reading its wallet
\* now, has seen a cause.
CauseOf(t) ==
  /\ tick[t].phase # "next" => tick[t].at \in Accounts
  /\ (tick[t].phase \in {"config", "wallet"} /\ Unmatched(tick[t].at, tick[t].ids[tick[t].at]))
       => cause[t]
  /\ tick[t].phase = "write" => tick[t].result # Pending
  /\ (tick[t].phase = "write" /\ tick[t].result = "FLAGGED") => cause[t]

FlagsHaveCauses == \A t \in Ticks : CauseOf(t)

IInv == TypeOK /\ ScriptKnowsItsId /\ FlagsHaveCauses

TheServiceKeeps == UNCHANGED <<tick, cause, config>>
TheRegistryKeeps == UNCHANGED <<registryVars, agentIdOf>>

-----------------------------------------------------------------------------
\* A wider registry has room for every id there was.
LEMMA MoreIds ==
  ASSUME TypeOK, Ids \subseteq Ids'
  PROVE  /\ KnownId \subseteq KnownId'
         /\ TickType \subseteq TickType'
  BY DEF TypeOK, KnownId, TickType

\* A step of one refresh that leaves registries and script alone.
LEMMA OneRefresh ==
  ASSUME IInv, NEW t \in Ticks, TheRegistryKeeps, script' = script,
         row' \in [Accounts -> [exists : BOOLEAN, id : KnownId, tier : Tiers]],
         config' \in {"none", "pending", "ready"},
         config' = config \/ config' = "pending",
         tick' \in [Ticks -> TickType], cause' \in [Ticks -> BOOLEAN],
         \A u \in Ticks \ {t} : tick'[u] = tick[u] /\ cause'[u] = cause[u],
         tick'[t].phase = "config" => config' = "pending",
         CauseOf(t)'
  PROVE  IInv'
<1>1. Ids' = Ids /\ KnownId' = KnownId /\ TickType' = TickType /\ NextId' = NextId
  BY DEF TheRegistryKeeps, registryVars, Ids, KnownId, TickType, NextId
<1>2. config' # "pending" => Awaiting' = {}
  <2> SUFFICES ASSUME config' # "pending", NEW u \in Ticks, tick'[u].phase = "config" PROVE FALSE
    BY DEF Awaiting
  <2>1. u # t
    OBVIOUS
  <2>2. tick[u].phase = "config" /\ config # "pending"
    BY <2>1
  <2> QED BY <2>2 DEF IInv, TypeOK, Awaiting
<1>3. TypeOK'
  BY <1>1, <1>2 DEF IInv, TypeOK, TheRegistryKeeps, registryVars
<1>4. ScriptKnowsItsId'
  BY <1>1 DEF IInv, ScriptKnowsItsId
<1>5. ASSUME NEW u \in Ticks PROVE CauseOf(u)'
  <2>1. CASE u = t
    BY <2>1
  <2>2. CASE u # t
    BY <2>2 DEF IInv, FlagsHaveCauses, CauseOf, Unmatched, TheRegistryKeeps, registryVars
  <2> QED BY <2>1, <2>2
<1> QED BY <1>3, <1>4, <1>5 DEF IInv, FlagsHaveCauses

\* The shape of a refresh after the assignments it is made of.
LEMMA BecomesTyped ==
  ASSUME TypeOK, NEW t \in Ticks,
         NEW phase \in {"next", "config", "wallet", "feedback", "write"},
         NEW result \in Tiers \cup {Failed, Pending}, Becomes(t, phase, result)
  PROVE  /\ tick' \in [Ticks -> TickType]
         /\ tick'[t].phase = phase /\ tick'[t].result = result
         /\ tick'[t].at = tick[t].at /\ tick'[t].ids = tick[t].ids
         /\ \A u \in Ticks \ {t} : tick'[u] = tick[u]
<1>1. tick \in [Ticks -> TickType]
  BY DEF TypeOK
<1> DEFINE new == [tick[t] EXCEPT !.phase = phase, !.result = result]
<1>2. /\ new \in TickType /\ new.phase = phase /\ new.result = result
      /\ new.at = tick[t].at /\ new.ids = tick[t].ids
  BY <1>1 DEF TickType
<1>3. tick' = [tick EXCEPT ![t] = new]
  BY DEF Becomes
<1> HIDE DEF new
<1> QED BY <1>1, <1>2, <1>3

LEMMA IdleTyped == IdleTick \in TickType /\ IdleTick.phase = "next"
  BY DEF IdleTick, TickType, KnownId, Nobody

LEMMA OnwardsTyped ==
  ASSUME TypeOK, NEW t \in Ticks, Onwards(t)
  PROVE  /\ tick' \in [Ticks -> TickType]
         /\ tick'[t].phase = "next"
         /\ \A u \in Ticks \ {t} : tick'[u] = tick[u]
<1>1. tick \in [Ticks -> TickType]
  BY DEF TypeOK
<1> DEFINE onward == [tick[t] EXCEPT !.at = Nobody, !.phase = "next", !.result = Pending]
           new == IF tick[t].todo = {} THEN IdleTick ELSE onward
<1>2. onward \in TickType /\ onward.phase = "next"
  BY <1>1 DEF TickType, Nobody
<1>3. new \in TickType /\ new.phase = "next"
  BY <1>2, IdleTyped
<1>4. tick' = [tick EXCEPT ![t] = new]
  BY DEF Onwards
<1> HIDE DEF new
<1> QED BY <1>1, <1>3, <1>4

-----------------------------------------------------------------------------
(***************************************************************************)
(* The refresh.                                                            *)
(***************************************************************************)
LEMMA StartTickKeeps ==
  ASSUME IInv, NEW t \in Ticks, StartTick(t)
  PROVE  IInv'
<1> DEFINE snapshot == [a \in Accounts |-> IF a \in Rows THEN row[a].id ELSE NoId]
           new == [IdleTick EXCEPT !.todo = Rows, !.ids = snapshot]
<1>1. tick \in [Ticks -> TickType] /\ cause \in [Ticks -> BOOLEAN]
  BY DEF IInv, TypeOK
<1>2. snapshot \in [Accounts -> KnownId]
  BY DEF IInv, TypeOK, KnownId
<1>3. new \in TickType /\ new.phase = "next"
  <2> HIDE DEF snapshot
  <2> QED BY <1>2, IdleTyped DEF TickType, Rows, IdleTick
<1>4. tick' = [tick EXCEPT ![t] = new]
  BY DEF StartTick
<1>5. /\ tick' \in [Ticks -> TickType] /\ tick'[t].phase = "next"
      /\ \A u \in Ticks \ {t} : tick'[u] = tick[u]
  <2> HIDE DEF new
  <2> QED BY <1>1, <1>3, <1>4
<1>6. CauseOf(t)'
  BY <1>5 DEF CauseOf
<1>7. TheRegistryKeeps /\ script' = script /\ row' = row /\ config' = config /\ cause' = cause
  BY DEF StartTick, TheRegistryKeeps
<1> QED BY <1>1, <1>5, <1>6, <1>7, OneRefresh DEF IInv, TypeOK

LEMMA BeginsTyped ==
  ASSUME TypeOK, NEW t \in Ticks, NEW a \in Accounts,
         NEW phase \in {"config", "wallet", "write"}, NEW result \in {"FLAGGED", Pending},
         Begins(t, a, phase, result)
  PROVE  /\ tick' \in [Ticks -> TickType]
         /\ tick'[t].phase = phase /\ tick'[t].result = result
         /\ tick'[t].at = a /\ tick'[t].ids = tick[t].ids
         /\ \A u \in Ticks \ {t} : tick'[u] = tick[u]
<1>1. tick \in [Ticks -> TickType]
  BY DEF TypeOK
<1> DEFINE new == [tick[t] EXCEPT !.todo = tick[t].todo \ {a}, !.at = a,
                              !.phase = phase, !.result = result]
<1>2. /\ new \in TickType /\ new.at = a /\ new.ids = tick[t].ids
      /\ new.phase = phase /\ new.result = result
  BY <1>1 DEF TickType, Tiers
<1>3. tick' = [tick EXCEPT ![t] = new]
  BY DEF Begins
<1> HIDE DEF new
<1> QED BY <1>1, <1>2, <1>3

LEMMA NextAgentKeeps ==
  ASSUME IInv, NEW t \in Ticks, NEW a \in Accounts, NextAgent(t, a)
  PROVE  IInv'
<1> DEFINE id == tick[t].ids[a]
<1>1. TheRegistryKeeps /\ script' = script /\ row' = row
  BY DEF NextAgent, TheRegistryKeeps
<1>2. cause' = [cause EXCEPT ![t] = Unmatched(a, id)] /\ Unmatched(a, id) \in BOOLEAN
  BY DEF NextAgent, Unmatched
<1>3. /\ cause' \in [Ticks -> BOOLEAN] /\ cause'[t] = Unmatched(a, id)
      /\ \A u \in Ticks \ {t} : cause'[u] = cause[u]
  BY <1>2 DEF IInv, TypeOK
<1>4. PICK phase \in {"config", "wallet", "write"}, result \in {"FLAGGED", Pending} :
        /\ Begins(t, a, phase, result)
        /\ phase = "config" => config' = "pending"
        /\ phase = "write" => result # Pending
        /\ result = "FLAGGED" => id = NoId
        /\ config' = config \/ config' = "pending"
  <2>1. CASE id = NoId
    <3>1. Begins(t, a, "write", "FLAGGED") /\ config' = config
      BY <2>1 DEF NextAgent
    <3> QED BY <2>1, <3>1 DEF Pending
  <2>2. CASE id # NoId /\ config = "ready"
    <3>1. Begins(t, a, "wallet", Pending) /\ config' = config
      BY <2>2 DEF NextAgent
    <3> QED BY <3>1 DEF Pending
  <2>3. CASE id # NoId /\ config # "ready"
    <3>1. Begins(t, a, "config", Pending) /\ config' = "pending"
      BY <2>3 DEF NextAgent
    <3> QED BY <3>1 DEF Pending
  <2> QED BY <2>1, <2>2, <2>3
<1>5. /\ tick' \in [Ticks -> TickType]
      /\ tick'[t].phase = phase /\ tick'[t].result = result
      /\ tick'[t].at = a /\ tick'[t].ids = tick[t].ids
      /\ \A u \in Ticks \ {t} : tick'[u] = tick[u]
  BY <1>4, BeginsTyped DEF IInv
<1>6. CauseOf(t)'
  <2>1. Unmatched(a, id)' = Unmatched(a, id)
    BY <1>1, <1>5 DEF Unmatched, TheRegistryKeeps, registryVars
  <2> QED BY <1>3, <1>4, <1>5, <2>1 DEF CauseOf, Unmatched
<1> QED BY <1>1, <1>3, <1>4, <1>5, <1>6, OneRefresh DEF IInv, TypeOK

LEMMA ReadKeeps ==
  ASSUME IInv, NEW t \in Ticks, ReadWallet(t) \/ ReadFeedback(t) \/ ReadFails(t)
  PROVE  IInv'
<1>1. TheRegistryKeeps /\ script' = script /\ row' = row /\ config' = config /\ cause' = cause
  BY DEF ReadWallet, ReadFeedback, ReadFails, TheRegistryKeeps
<1>2. PICK phase \in {"feedback", "write"}, result \in Tiers \cup {Failed, Pending} :
        /\ Becomes(t, phase, result)
        /\ tick[t].phase \in {"wallet", "feedback"}
        /\ phase = "write" => result # Pending
        /\ result = "FLAGGED" => tick[t].phase = "wallet" /\ Unmatched(tick[t].at, tick[t].ids[tick[t].at])
  <2>1. CASE ReadWallet(t)
    <3>1. CASE Unmatched(tick[t].at, tick[t].ids[tick[t].at])
      BY <2>1, <3>1 DEF ReadWallet, Tiers, Pending
    <3>2. CASE ~Unmatched(tick[t].at, tick[t].ids[tick[t].at])
      BY <2>1, <3>2 DEF ReadWallet, Tiers, Pending
    <3> QED BY <3>1, <3>2
  <2>2. CASE ReadFeedback(t)
    <3>1. TierFromRatings(tick[t].ids[tick[t].at]) \in {"VERIFIED", "NEW"}
      BY DEF TierFromRatings
    <3> QED BY <2>2, <3>1 DEF ReadFeedback, Tiers, Failed, Pending
  <2>3. CASE ReadFails(t)
    BY <2>3 DEF ReadFails, Tiers, Failed, Pending
  <2> QED BY <2>1, <2>2, <2>3
<1>3. /\ tick' \in [Ticks -> TickType]
      /\ tick'[t].phase = phase /\ tick'[t].result = result
      /\ tick'[t].at = tick[t].at /\ tick'[t].ids = tick[t].ids
      /\ \A u \in Ticks \ {t} : tick'[u] = tick[u]
  BY <1>2, BecomesTyped DEF IInv
<1>4. CauseOf(t)'
  BY <1>1, <1>2, <1>3 DEF IInv, FlagsHaveCauses, CauseOf
<1> QED BY <1>1, <1>3, <1>4, OneRefresh DEF IInv, TypeOK

LEMMA WriteKeeps ==
  ASSUME IInv, NEW t \in Ticks, WriteRow(t) \/ WriteFails(t)
  PROVE  IInv'
<1>1. TheRegistryKeeps /\ script' = script /\ config' = config
  BY DEF WriteRow, WriteFails, TheRegistryKeeps
<1>2. /\ tick' \in [Ticks -> TickType] /\ tick'[t].phase = "next"
      /\ \A u \in Ticks \ {t} : tick'[u] = tick[u]
  BY OnwardsTyped DEF IInv, WriteRow, WriteFails
<1>3. /\ cause' \in [Ticks -> BOOLEAN] /\ \A u \in Ticks \ {t} : cause'[u] = cause[u]
  BY DEF IInv, TypeOK, WriteRow, WriteFails
<1>4. row' \in [Accounts -> [exists : BOOLEAN, id : KnownId, tier : Tiers]]
  <2> DEFINE a == tick[t].at
             tier == tick[t].result
             new == [row[a] EXCEPT !.tier = tier]
  <2>0. row \in [Accounts -> [exists : BOOLEAN, id : KnownId, tier : Tiers]]
    BY DEF IInv, TypeOK
  <2>1. CASE WriteRow(t) /\ tier \in Tiers
    <3>1. a \in Accounts
      BY <2>1 DEF IInv, FlagsHaveCauses, CauseOf, WriteRow
    <3>2. new \in [exists : BOOLEAN, id : KnownId, tier : Tiers]
      BY <2>0, <2>1, <3>1
    <3>3. row' = [row EXCEPT ![a] = new]
      BY <2>1 DEF WriteRow, Tiers, Failed
    <3> HIDE DEF new
    <3> QED BY <2>0, <3>2, <3>3
  <2>2. CASE WriteRow(t) /\ tier \notin Tiers
    <3>1. tier = Failed
      BY <2>2 DEF IInv, TypeOK, TickType, FlagsHaveCauses, CauseOf, WriteRow
    <3> QED BY <2>0, <2>2, <3>1 DEF WriteRow
  <2>3. CASE WriteFails(t)
    BY <2>0, <2>3 DEF WriteFails
  <2> QED BY <2>1, <2>2, <2>3
<1>5. CauseOf(t)'
  BY <1>2 DEF CauseOf
<1> QED BY <1>1, <1>2, <1>3, <1>4, <1>5, OneRefresh DEF IInv, TypeOK

\* All that await the configuration go on, or to a result that flags nobody.
LEMMA ConfigKeeps ==
  ASSUME IInv, ConfigResolves \/ ConfigFails
  PROVE  IInv'
<1>1. /\ TheRegistryKeeps /\ script' = script /\ row' = row /\ cause' = cause
      /\ config' \in {"none", "ready"}
  BY DEF ConfigResolves, ConfigFails, TheRegistryKeeps
<1>2. PICK phase \in {"wallet", "write"}, result \in {Failed, Pending} :
        /\ Resume(phase, result)
        /\ phase = "write" => result = Failed
  BY DEF ConfigResolves, ConfigFails
<1>3. tick \in [Ticks -> TickType]
  BY DEF IInv, TypeOK
<1>4. ASSUME NEW u \in Ticks
      PROVE  /\ tick'[u] \in TickType /\ tick'[u].phase # "config"
             /\ CauseOf(u)'
  <2> DEFINE new == [tick[u] EXCEPT !.phase = phase, !.result = result]
  <2>0. Unmatched(tick[u].at, tick[u].ids[tick[u].at])' =
          (tick'[u].ids[tick'[u].at] = NoId \/ wallet[tick'[u].ids[tick'[u].at]] # tick'[u].at)
    BY <1>1 DEF Unmatched, TheRegistryKeeps, registryVars
  <2>1. CASE u \in Awaiting
    <3>1. tick'[u] = new
      BY <1>2, <2>1 DEF Resume
    <3>2. /\ new \in TickType /\ new.phase = phase /\ new.result = result
          /\ new.at = tick[u].at /\ new.ids = tick[u].ids
      BY <1>3 DEF TickType
    <3> HIDE DEF new
    <3>3. CauseOf(u)'
      BY <1>1, <1>2, <2>0, <2>1, <3>1, <3>2
         DEF IInv, FlagsHaveCauses, CauseOf, Awaiting, Unmatched, Failed, Pending
    <3> QED BY <3>1, <3>2, <3>3
  <2>2. CASE u \notin Awaiting
    <3>1. tick'[u] = tick[u]
      BY <1>2, <2>2 DEF Resume
    <3> QED BY <1>1, <1>3, <2>0, <2>2, <3>1
         DEF IInv, FlagsHaveCauses, CauseOf, Awaiting, Unmatched
  <2> QED BY <2>1, <2>2
<1>5. tick' \in [Ticks -> TickType] /\ Awaiting' = {}
  BY <1>2, <1>4 DEF Resume, Awaiting
<1>6. KnownId' = KnownId /\ TickType' = TickType /\ Ids' = Ids /\ NextId' = NextId
  BY <1>1 DEF TheRegistryKeeps, registryVars, Ids, KnownId, TickType, NextId
<1>7. TypeOK'
  BY <1>1, <1>5, <1>6 DEF IInv, TypeOK, TheRegistryKeeps, registryVars
<1>8. ScriptKnowsItsId'
  BY <1>1, <1>6 DEF IInv, ScriptKnowsItsId
<1> QED BY <1>4, <1>7, <1>8 DEF IInv, FlagsHaveCauses

-----------------------------------------------------------------------------
(***************************************************************************)
(* The script and the strangers.                                           *)
(***************************************************************************)
\* A step that leaves every refresh alone and every id its wallet.
LEMMA NoRefresh ==
  ASSUME IInv, TheServiceKeeps, Ids \subseteq Ids',
         \A id \in Ids : wallet'[id] = wallet[id],
         /\ wallet' \in Seq(Accounts \cup {NoAccount})
         /\ feedback' \in Seq(Seq([value : Int, decimals : Nat])) /\ Len(feedback') = Len(wallet'),
         up' \in BOOLEAN, agentIdOf' \in [Accounts -> KnownId'],
         row' \in [Accounts -> [exists : BOOLEAN, id : KnownId', tier : Tiers]],
         script' \in [phase : {"off", "register", "rate", "resync", "upsert"}, id : Nat, left : Nat],
         ScriptKnowsItsId'
  PROVE  IInv'
<1>1. tick' \in [Ticks -> TickType'] /\ Awaiting' = Awaiting
  BY MoreIds DEF IInv, TypeOK, TheServiceKeeps, Awaiting
<1>2. TypeOK'
  BY <1>1 DEF IInv, TypeOK, TheServiceKeeps
<1>3. ASSUME NEW t \in Ticks PROVE CauseOf(t)'
  <2> DEFINE a == tick[t].at
             id == tick[t].ids[a]
  <2>1. ASSUME a \in Accounts PROVE Unmatched(a, id)' = Unmatched(a, id)
    <3>1. id \in KnownId
      BY <2>1 DEF IInv, TypeOK, TickType
    <3> QED BY <3>1 DEF Unmatched, KnownId, TheServiceKeeps
  <2> QED BY <2>1 DEF IInv, FlagsHaveCauses, CauseOf, TheServiceKeeps
<1> QED BY <1>2, <1>3 DEF IInv, FlagsHaveCauses

LEMMA CacheAgentTyped ==
  ASSUME TypeOK, NEW id \in KnownId, CacheAgent(id)
  PROVE  agentIdOf' \in [Accounts -> KnownId]
<1>1. CASE id \in Ids /\ wallet[id] # NoAccount
  <2>1. wallet[id] \in Accounts
    BY <1>1 DEF TypeOK, Ids
  <2> QED BY <1>1, <2>1 DEF TypeOK, CacheAgent
<1>2. CASE ~(id \in Ids /\ wallet[id] # NoAccount)
  BY <1>2 DEF TypeOK, CacheAgent
<1> QED BY <1>1, <1>2

\* A new id is the next, and the registry keeps the others.
LEMMA RegistryAddsOne ==
  ASSUME TypeOK, NEW a \in Accounts, RegistryAdds(a)
  PROVE  /\ wallet' \in Seq(Accounts \cup {NoAccount}) /\ Len(wallet') = Len(wallet) + 1
         /\ feedback' \in Seq(Seq([value : Int, decimals : Nat])) /\ Len(feedback') = Len(wallet')
         /\ \A id \in Ids : wallet'[id] = wallet[id]
         /\ Ids \subseteq Ids' /\ NextId \in Ids' /\ NextId' = NextId + 1
         /\ KnownId \subseteq KnownId'
<1> DEFINE Rating == [value : Int, decimals : Nat]
           All == Accounts \cup {NoAccount}
<1>1. wallet \in Seq(All) /\ feedback \in Seq(Seq(Rating)) /\ Len(feedback) = Len(wallet)
  BY DEF TypeOK
<1>2. a \in All /\ <<>> \in Seq(Rating)
  OBVIOUS
<1>3. wallet' = Append(wallet, a) /\ feedback' = Append(feedback, <<>>)
  BY DEF RegistryAdds
<1> HIDE DEF Rating, All
<1>4. wallet' \in Seq(All) /\ Len(wallet') = Len(wallet) + 1 /\ Len(wallet) \in Nat
  BY <1>1, <1>2, <1>3
<1>5. \A id \in 1..Len(wallet) : wallet'[id] = wallet[id]
  BY <1>1, <1>2, <1>3
<1>6. feedback' \in Seq(Seq(Rating)) /\ Len(feedback') = Len(feedback) + 1
  BY <1>1, <1>2, <1>3
<1> USE DEF Rating, All
<1> QED BY <1>1, <1>4, <1>5, <1>6 DEF Ids, NextId, KnownId

LEMMA RegistryRatesOne ==
  ASSUME TypeOK, NEW id \in Ids, NEW r \in [value : Int, decimals : Nat], RegistryRates(id, r)
  PROVE  /\ wallet' = wallet
         /\ feedback' \in Seq(Seq([value : Int, decimals : Nat])) /\ Len(feedback') = Len(wallet)
<1> DEFINE Rating == [value : Int, decimals : Nat]
<1>1. feedback \in Seq(Seq(Rating)) /\ Len(feedback) = Len(wallet) /\ id \in 1..Len(feedback)
  BY DEF TypeOK, Ids
<1> DEFINE new == Append(feedback[id], r)
<1>2. new \in Seq(Rating)
  <2> HIDE DEF Rating
  <2>1. feedback[id] \in Seq(Rating) /\ r \in Rating
    BY <1>1 DEF Rating
  <2> QED BY <2>1
<1>3. feedback' = [feedback EXCEPT ![id] = new]
  BY DEF RegistryRates
<1> HIDE DEF new, Rating
<1>4. feedback' \in Seq(Seq(Rating)) /\ Len(feedback') = Len(feedback)
  BY <1>1, <1>2, <1>3
<1> QED BY <1>1, <1>4 DEF Rating, RegistryRates

LEMMA ScriptKeeps ==
  ASSUME IInv, ScriptStep \/ ScriptDies
  PROVE  IInv'
<1> DEFINE ScriptType ==
             [phase : {"off", "register", "rate", "resync", "upsert"}, id : Nat, left : Nat]
<1>1. TypeOK /\ ScriptKnowsItsId /\ script \in ScriptType
  BY DEF IInv, TypeOK
<1>2. Len(wallet) \in Nat /\ Ids \subseteq Nat /\ NextId \in 1..NextId /\ ScriptOff \in ScriptType
  BY <1>1 DEF TypeOK, Ids, NextId, ScriptOff, NoId
<1>3. CASE TheRegistryKeeps /\ RunScript
  <2> DEFINE again == [phase |-> "resync", id |-> row[Showcase].id, left |-> 0]
             first == [phase |-> "register", id |-> NextId, left |-> 0]
  <2>1. row[Showcase].id \in KnownId /\ KnownId \subseteq Nat /\ NextId \in Nat
    BY <1>1, <1>2, ServiceAssumption DEF TypeOK, KnownId, NoId, NextId
  <2>2. script' = again \/ script' = first
    BY <1>3 DEF RunScript
  <2>3. script' \in ScriptType /\ ScriptKnowsItsId'
    BY <1>2, <1>3, <2>1, <2>2
       DEF ScriptKnowsItsId, TheRegistryKeeps, registryVars, KnownId, Ids, NextId
  <2> QED BY <1>1, <1>3, <2>3, NoRefresh
      DEF TypeOK, RunScript, TheRegistryKeeps, TheServiceKeeps, registryVars, serviceVars, KnownId, Ids
<1>4. CASE Register
  <2>1. RegistryAdds(Showcase) /\ Showcase \in Accounts
    BY <1>4, ServiceAssumption DEF Register
  <2>2. script' = [script EXCEPT !.phase = "rate", !.left = ShowcaseCount]
    BY <1>4 DEF Register
  <2>3. script' \in ScriptType /\ script'.phase = "rate" /\ script'.id = script.id
    BY <1>1, <2>2, ServiceAssumption
  <2>4. script.id \in 1..NextId
    BY <1>1, <1>4 DEF ScriptKnowsItsId, Register
  <2>5. 1..NextId \subseteq Ids'
    BY <1>1, <2>1, RegistryAddsOne DEF Ids, NextId
  <2>6. ScriptKnowsItsId'
    BY <2>3, <2>4, <2>5 DEF ScriptKnowsItsId
  <2>7. up' = up /\ agentIdOf' = agentIdOf /\ row' = row /\ TheServiceKeeps
    BY <1>4 DEF Register, RegistryAdds, TheServiceKeeps, serviceVars
  <2>8. /\ agentIdOf' \in [Accounts -> KnownId'] /\ up' \in BOOLEAN
        /\ row' \in [Accounts -> [exists : BOOLEAN, id : KnownId', tier : Tiers]]
    BY <1>1, <2>1, <2>7, RegistryAddsOne DEF TypeOK
  <2> QED BY <1>1, <2>1, <2>3, <2>6, <2>7, <2>8, RegistryAddsOne, NoRefresh
<1>5. CASE GiveRating
  <2>1. script.id \in Ids /\ RegistryRates(script.id, ShowcaseRating)
    BY <1>1, <1>5 DEF GiveRating, ScriptKnowsItsId
  <2>2. script' \in ScriptType /\ script'.phase = "rate" /\ script'.id = script.id
    BY <1>1, <1>5 DEF GiveRating
  <2>3. /\ wallet' = wallet
        /\ feedback' \in Seq(Seq([value : Int, decimals : Nat])) /\ Len(feedback') = Len(wallet)
    BY <1>1, <2>1, RegistryRatesOne, ServiceAssumption
  <2>4. ScriptKnowsItsId'
    BY <2>1, <2>2, <2>3 DEF ScriptKnowsItsId, Ids
  <2>5. up' = up /\ agentIdOf' = agentIdOf /\ row' = row /\ TheServiceKeeps
    BY <1>5 DEF GiveRating, RegistryRates, TheServiceKeeps, serviceVars
  <2> QED BY <1>1, <2>2, <2>3, <2>4, <2>5, NoRefresh DEF TypeOK, KnownId, Ids
<1>6. CASE SyncTrustReader
  <2>1. script.id \in KnownId /\ CacheAgent(script.id)
    BY <1>1, <1>6 DEF SyncTrustReader, ScriptKnowsItsId, KnownId
  <2>2. agentIdOf' \in [Accounts -> KnownId]
    BY <1>1, <2>1, CacheAgentTyped
  <2>3. wallet' = wallet /\ feedback' = feedback /\ up' = up /\ row' = row /\ TheServiceKeeps
    BY <1>6 DEF SyncTrustReader, registryVars, TheServiceKeeps, serviceVars
  <2>4. script' \in ScriptType /\ ScriptKnowsItsId'
    <3>1. CASE script.phase = "rate" /\ script' = [script EXCEPT !.phase = "upsert"]
      <4>1. script' \in ScriptType /\ script'.phase = "upsert" /\ script'.id = script.id
        BY <1>1, <3>1
      <4> QED BY <1>1, <2>3, <3>1, <4>1 DEF ScriptKnowsItsId, Ids
    <3>2. CASE script' = ScriptOff
      BY <1>2, <3>2 DEF ScriptKnowsItsId, ScriptOff
    <3> QED BY <1>6, <3>1, <3>2 DEF SyncTrustReader
  <2> QED BY <1>1, <2>2, <2>3, <2>4, NoRefresh DEF TypeOK, KnownId, Ids
<1>7. CASE UpsertAgent
  <2> DEFINE new == [row[Showcase] EXCEPT !.exists = TRUE, !.id = script.id]
  <2>1. row \in [Accounts -> [exists : BOOLEAN, id : KnownId, tier : Tiers]] /\ Showcase \in Accounts
    BY <1>1, ServiceAssumption DEF TypeOK
  <2>2. script.id \in KnownId
    BY <1>1, <1>7 DEF UpsertAgent, ScriptKnowsItsId, KnownId
  <2>3. new \in [exists : BOOLEAN, id : KnownId, tier : Tiers]
    BY <2>1, <2>2
  <2>4. row' = [row EXCEPT ![Showcase] = new]
    BY <1>7 DEF UpsertAgent
  <2>5. row' \in [Accounts -> [exists : BOOLEAN, id : KnownId, tier : Tiers]]
    <3> HIDE DEF new
    <3> QED BY <2>1, <2>3, <2>4
  <2>6. /\ wallet' = wallet /\ feedback' = feedback /\ up' = up /\ agentIdOf' = agentIdOf
        /\ script' = ScriptOff /\ TheServiceKeeps
    BY <1>7 DEF UpsertAgent, registryVars, TheServiceKeeps, serviceVars
  <2>7. ScriptKnowsItsId'
    BY <2>6 DEF ScriptKnowsItsId, ScriptOff
  <2> QED BY <1>1, <1>2, <2>5, <2>6, <2>7, NoRefresh DEF TypeOK, KnownId, Ids
<1>8. CASE ScriptDies
  <2>1. /\ wallet' = wallet /\ feedback' = feedback /\ up' = up /\ agentIdOf' = agentIdOf
        /\ row' = row /\ script' = ScriptOff /\ TheServiceKeeps
    BY <1>8 DEF ScriptDies, registryVars, TheServiceKeeps, serviceVars
  <2>2. ScriptKnowsItsId'
    BY <2>1 DEF ScriptKnowsItsId, ScriptOff
  <2> QED BY <1>1, <1>2, <2>1, <2>2, NoRefresh DEF TypeOK, KnownId, Ids
<1>9. RunScript => TheRegistryKeeps
  BY DEF RunScript, TheRegistryKeeps
<1> QED BY <1>3, <1>4, <1>5, <1>6, <1>7, <1>8, <1>9 DEF ScriptStep

LEMMA StrangerKeeps ==
  ASSUME IInv, Stranger \/ \E id \in Ids : SyncAgent(id)
  PROVE  IInv'
<1>1. TypeOK /\ ScriptKnowsItsId
  BY DEF IInv
<1>2. ASSUME NEW a \in Accounts, RegistryAdds(a), UNCHANGED <<agentIdOf, row, serviceVars, script>>
      PROVE  IInv'
  <2>1. up' = up /\ agentIdOf' = agentIdOf /\ row' = row /\ script' = script /\ TheServiceKeeps
    BY <1>2 DEF RegistryAdds, TheServiceKeeps, serviceVars
  <2>2. ScriptKnowsItsId'
    <3>1. Ids \subseteq Ids' /\ KnownId \subseteq KnownId' /\ 1..NextId \subseteq 1..NextId'
      BY <1>1, <1>2, RegistryAddsOne DEF NextId, TypeOK
    <3> QED BY <1>1, <2>1, <3>1 DEF ScriptKnowsItsId
  <2>3. /\ agentIdOf' \in [Accounts -> KnownId'] /\ up' \in BOOLEAN
        /\ row' \in [Accounts -> [exists : BOOLEAN, id : KnownId', tier : Tiers]]
    BY <1>1, <1>2, <2>1, RegistryAddsOne DEF TypeOK
  <2>4. script' \in [phase : {"off", "register", "rate", "resync", "upsert"}, id : Nat, left : Nat]
    BY <1>1, <2>1 DEF TypeOK
  <2> QED BY <1>1, <1>2, <2>1, <2>2, <2>3, <2>4, RegistryAddsOne, NoRefresh
<1>3. ASSUME NEW id \in Ids, NEW r \in Ratings, RegistryRates(id, r),
             UNCHANGED <<agentIdOf, row, serviceVars, script>>
      PROVE  IInv'
  <2>1. up' = up /\ agentIdOf' = agentIdOf /\ row' = row /\ script' = script /\ TheServiceKeeps
    BY <1>3 DEF RegistryRates, TheServiceKeeps, serviceVars
  <2>2. r \in [value : Int, decimals : Nat]
    BY TrustAssumption
  <2>3. /\ wallet' = wallet
        /\ feedback' \in Seq(Seq([value : Int, decimals : Nat])) /\ Len(feedback') = Len(wallet)
    BY <1>1, <1>3, <2>2, RegistryRatesOne
  <2>4. ScriptKnowsItsId'
    BY <1>1, <2>1, <2>3 DEF ScriptKnowsItsId, Ids, KnownId, NextId
  <2> QED BY <1>1, <2>1, <2>3, <2>4, NoRefresh DEF TypeOK, KnownId, Ids
<1>4. ASSUME Outage \/ OutageEnds, UNCHANGED <<agentIdOf, row, serviceVars, script>>
      PROVE  IInv'
  <2>1. /\ wallet' = wallet /\ feedback' = feedback /\ up' \in BOOLEAN
        /\ agentIdOf' = agentIdOf /\ row' = row /\ script' = script /\ TheServiceKeeps
    BY <1>4 DEF Outage, OutageEnds, TheServiceKeeps, serviceVars
  <2>2. ScriptKnowsItsId'
    BY <1>1, <2>1 DEF ScriptKnowsItsId, Ids, KnownId, NextId
  <2> QED BY <1>1, <2>1, <2>2, NoRefresh DEF TypeOK, KnownId, Ids
<1>5. ASSUME NEW id \in Ids, SyncAgent(id)
      PROVE  IInv'
  <2>1. /\ wallet' = wallet /\ feedback' = feedback /\ up' = up
        /\ row' = row /\ script' = script /\ TheServiceKeeps
    BY <1>5 DEF SyncAgent, registryVars, TheServiceKeeps, serviceVars
  <2>2. agentIdOf' \in [Accounts -> KnownId]
    BY <1>1, <1>5, CacheAgentTyped DEF SyncAgent, KnownId
  <2>3. ScriptKnowsItsId'
    BY <1>1, <2>1 DEF ScriptKnowsItsId, Ids, KnownId, NextId
  <2> QED BY <1>1, <2>1, <2>2, <2>3, NoRefresh DEF TypeOK, KnownId, Ids
\* The one call that gives a refresh under way a cause.
<1>6. ASSUME NEW id \in Ids, NEW a \in Accounts \cup {NoAccount}, MoveWallet(id, a)
      PROVE  IInv'
  <2>1. /\ wallet' = [wallet EXCEPT ![id] = a] /\ feedback' = feedback /\ up' = up
        /\ agentIdOf' = agentIdOf /\ row' = row /\ config' = config /\ tick' = tick /\ script' = script
    BY <1>6 DEF MoveWallet, RegistryMoves
  <2>2. /\ wallet' \in Seq(Accounts \cup {NoAccount}) /\ Len(wallet') = Len(wallet)
        /\ \A i \in Ids \ {id} : wallet'[i] = wallet[i]
        /\ wallet'[id] = a
    <3> DEFINE All == Accounts \cup {NoAccount}
    <3>1. wallet \in Seq(All) /\ a \in All /\ id \in 1..Len(wallet)
      BY <1>1 DEF TypeOK, Ids
    <3> HIDE DEF All
    <3>2. /\ wallet' \in Seq(All) /\ Len(wallet') = Len(wallet) /\ wallet'[id] = a
          /\ \A i \in 1..Len(wallet) : i # id => wallet'[i] = wallet[i]
      BY <2>1, <3>1
    <3> QED BY <3>2 DEF All, Ids
  <2>3. Ids' = Ids /\ KnownId' = KnownId /\ TickType' = TickType /\ NextId' = NextId
    BY <2>2 DEF Ids, KnownId, TickType, NextId
  <2>4. cause' \in [Ticks -> BOOLEAN]
        /\ \A t \in Ticks : cause'[t] = (cause[t] \/ (/\ Refreshing(t) /\ tick[t].ids[tick[t].at] = id
                                                     /\ a # tick[t].at))
    BY <1>1, <1>6 DEF MoveWallet, TypeOK, Refreshing
  <2>5. TypeOK'
    BY <1>1, <2>1, <2>2, <2>3, <2>4 DEF TypeOK, Awaiting
  <2>6. ScriptKnowsItsId'
    BY <1>1, <2>1, <2>3 DEF ScriptKnowsItsId
  <2>7. ASSUME NEW t \in Ticks PROVE CauseOf(t)'
    <3> DEFINE b == tick[t].at
               i == tick[t].ids[b]
    <3>1. CauseOf(t)
      BY DEF IInv, FlagsHaveCauses
    <3>2. ASSUME b \in Accounts PROVE i \in KnownId /\ Refreshing(t)
      BY <1>1, <3>2, TrustAssumption DEF TypeOK, TickType, Refreshing, Nobody
    <3>3. ASSUME b \in Accounts, Unmatched(b, i)' PROVE Unmatched(b, i) \/ cause'[t]
      <4>1. CASE i = id
        BY <2>1, <2>2, <2>4, <3>2, <3>3, <4>1 DEF Unmatched
      <4>2. CASE i # id
        BY <2>1, <2>2, <3>2, <3>3, <4>2 DEF Unmatched, KnownId
      <4> QED BY <4>1, <4>2
    <3>4. cause[t] => cause'[t]
      BY <2>4
    <3> QED BY <2>1, <3>1, <3>3, <3>4 DEF CauseOf
  <2> QED BY <2>5, <2>6, <2>7 DEF IInv, FlagsHaveCauses
<1> QED BY <1>2, <1>3, <1>4, <1>5, <1>6 DEF Stranger

-----------------------------------------------------------------------------
(***************************************************************************)
(* The theorems.                                                           *)
(***************************************************************************)
LEMMA InitHolds == Init => IInv
<1> SUFFICES ASSUME Init PROVE IInv
  OBVIOUS
<1>1. Len(wallet) = 0 /\ wallet \in Seq(Accounts \cup {NoAccount}) /\ Ids \subseteq Nat
  BY DEF Init, RegistryInit, Ids
<1>2. /\ feedback \in Seq(Seq([value : Int, decimals : Nat])) /\ Len(feedback) = Len(wallet)
  BY DEF Init, RegistryInit
<1>3. tick \in [Ticks -> TickType] /\ \A t \in Ticks : tick[t].phase = "next"
  BY IdleTyped DEF Init
<1>4. row \in [Accounts -> [exists : BOOLEAN, id : KnownId, tier : Tiers]]
  BY DEF Init, KnownId, Tiers
<1>5. TypeOK
  BY <1>1, <1>2, <1>3, <1>4
     DEF TypeOK, Init, RegistryInit, Awaiting, KnownId, ScriptOff, NoId
<1>6. ScriptKnowsItsId
  BY DEF Init, ScriptKnowsItsId, ScriptOff
<1>7. FlagsHaveCauses
  BY <1>3 DEF FlagsHaveCauses, CauseOf
<1> QED BY <1>5, <1>6, <1>7 DEF IInv

LEMMA StutterKeeps ==
  ASSUME IInv, UNCHANGED vars
  PROVE  IInv'
<1>1. /\ wallet' = wallet /\ feedback' = feedback /\ up' = up /\ agentIdOf' = agentIdOf
      /\ row' = row /\ script' = script /\ TheServiceKeeps
  BY DEF vars, registryVars, TheServiceKeeps, serviceVars
<1>2. ScriptKnowsItsId'
  BY <1>1 DEF IInv, ScriptKnowsItsId, Ids, KnownId, NextId
<1> QED BY <1>1, <1>2, NoRefresh DEF IInv, TypeOK, KnownId, Ids

LEMMA StepHolds == IInv /\ [Next]_vars => IInv'
<1> SUFFICES ASSUME IInv, [Next]_vars PROVE IInv'
  OBVIOUS
<1>1. ASSUME NEW t \in Ticks, TickStep(t) \/ ReadFails(t) \/ WriteFails(t) PROVE IInv'
  BY <1>1, StartTickKeeps, NextAgentKeeps, ReadKeeps, WriteKeeps DEF TickStep
<1>2. CASE ConfigResolves \/ ConfigFails
  BY <1>2, ConfigKeeps
<1>3. CASE ScriptStep \/ ScriptDies
  BY <1>3, ScriptKeeps
<1>4. CASE Stranger \/ \E id \in Ids : SyncAgent(id)
  BY <1>4, StrangerKeeps
<1>5. CASE UNCHANGED vars
  BY <1>5, StutterKeeps
<1> QED BY <1>1, <1>2, <1>3, <1>4, <1>5 DEF Next

\* Whatever fails and whoever interferes, ids in the cache, the rows and the
\* snapshots are registered ones, and no refresh waits for a configuration
\* that nobody is fetching (TrustReader.sol, trust.service.ts).
THEOREM TypeCorrect == Spec => []TypeOK
<1>1. IInv => TypeOK
  BY DEF IInv
<1> QED BY InitHolds, StepHolds, <1>1, PTL DEF Spec

\* Only a row that is written loses its badge, and only for a cause.
LEMMA FlagIsCaused ==
  ASSUME IInv, [Next]_vars, NEW a \in Accounts, row[a].tier # "FLAGGED", row'[a].tier = "FLAGGED"
  PROVE  \E t \in Ticks : tick[t].at = a /\ cause[t]
<1>1. row \in [Accounts -> [exists : BOOLEAN, id : KnownId, tier : Tiers]]
  BY DEF IInv, TypeOK
<1>2. row' # row
  OBVIOUS
<1>3. CASE UpsertAgent
  <2>1. row'[a].tier = row[a].tier
    BY <1>1, <1>3, ServiceAssumption DEF UpsertAgent
  <2> QED BY <2>1
<1>4. CASE \E t \in Ticks : WriteRow(t)
  <2>1. PICK t \in Ticks : WriteRow(t)
    BY <1>4
  <2>2. tick[t].result # Failed /\ row' = [row EXCEPT ![tick[t].at].tier = tick[t].result]
    BY <1>2, <2>1 DEF WriteRow
  <2>3. tick[t].at = a /\ tick[t].result = "FLAGGED" /\ tick[t].phase = "write"
    <3>1. tick[t].phase = "write" /\ tick[t].at \in Accounts
      BY <2>1 DEF WriteRow, IInv, FlagsHaveCauses, CauseOf
    <3>2. tick[t].at = a
      BY <1>1, <2>2, <3>1
    <3> QED BY <1>1, <2>2, <3>1, <3>2
  <2> QED BY <2>3 DEF IInv, FlagsHaveCauses, CauseOf
<1>5. UpsertAgent \/ \E t \in Ticks : WriteRow(t)
  BY <1>2 DEF Next, TickStep, StartTick, NextAgent, ReadWallet, ReadFeedback, ReadFails, WriteFails,
              ConfigResolves, ConfigFails, ScriptStep, RunScript, Register, GiveRating,
              SyncTrustReader, ScriptDies, Stranger, MoveWallet, SyncAgent, vars
<1> QED BY <1>3, <1>4, <1>5

\* No failure takes a badge away (trust.service.ts, lines 33 to 35).
THEOREM FlaggedForCauseAlways == Spec => FlaggedForCause
<1>1. IInv /\ [Next]_vars =>
        [\A a \in Accounts :
           (row[a].tier # "FLAGGED" /\ row'[a].tier = "FLAGGED")
             => \E t \in Ticks : tick[t].at = a /\ cause[t]]_vars
  BY FlagIsCaused
<1> QED BY InitHolds, StepHolds, <1>1, PTL DEF Spec, FlaggedForCause

-----------------------------------------------------------------------------
(***************************************************************************)
(* Badges that have caught up.  That they do so is a matter of fairness;   *)
(* that they then stay so is not.                                          *)
(***************************************************************************)
\* Refresh t has nothing of a that the registries have overtaken: it goes by
\* the id in the row, has passed the wallet only where that is a's, and has
\* found the tier the registries give a, or failed.
IsNews(t, a) ==
  /\ a \in tick[t].todo \/ tick[t].at = a => tick[t].ids[a] = row[a].id
  /\ tick[t].at = a =>
       /\ tick[t].phase = "feedback" => ~Unmatched(a, row[a].id)
       /\ tick[t].phase = "write" => tick[t].result \in {RegistryTier(a), Failed}

OnlyNews(a) == \A t \in Ticks : IsNews(t, a)

\* A step that leaves the registries and the id in a's row as they are.
StandsStill(a) == UNCHANGED <<wallet, feedback>> /\ row'[a].id = row[a].id

LEMMA TierStandsStill ==
  ASSUME NEW a \in Accounts, StandsStill(a)
  PROVE  /\ RegistryTier(a)' = RegistryTier(a)
         /\ Unmatched(a, row[a].id)' = Unmatched(a, row[a].id)
<1>1. wallet' = wallet /\ feedback' = feedback /\ row'[a].id = row[a].id
  BY DEF StandsStill
<1>2. TierFromRatings(row[a].id)' = TierFromRatings(row[a].id)
  BY <1>1 DEF TierFromRatings
<1>3. Unmatched(a, row[a].id)' = Unmatched(a, row[a].id)
  BY <1>1 DEF Unmatched
<1>4. RegistryTier(a)' = IF Unmatched(a, row[a].id)' THEN "FLAGGED"
                         ELSE TierFromRatings(row[a].id)'
  BY DEF RegistryTier
<1> QED BY <1>2, <1>3, <1>4 DEF RegistryTier

\* A refresh that does not move keeps what it has.
LEMMA NewsStayNews ==
  ASSUME NEW a \in Accounts, NEW t \in Ticks, StandsStill(a), IsNews(t, a), tick'[t] = tick[t]
  PROVE  IsNews(t, a)'
<1>1. row'[a].id = row[a].id
  BY DEF StandsStill
<1> QED BY <1>1, TierStandsStill DEF IsNews

\* Nor does one that has nothing of a any more.
LEMMA NothingIsNews ==
  ASSUME NEW a \in Accounts, NEW t \in Ticks, StandsStill(a), IsNews(t, a),
         tick'[t].ids = tick[t].ids, tick'[t].todo \subseteq tick[t].todo, tick'[t].at # a
  PROVE  IsNews(t, a)'
<1>1. row'[a].id = row[a].id
  BY DEF StandsStill
<1> QED BY <1>1 DEF IsNews

\* A step of one refresh.
LEMMA NewsOfOne ==
  ASSUME IInv, NEW a \in Accounts, StandsStill(a), OnlyNews(a), NEW t \in Ticks,
         TickStep(t) \/ ReadFails(t) \/ WriteFails(t)
  PROVE  OnlyNews(a)'
<1>1. tick \in [Ticks -> TickType] /\ TypeOK
  BY DEF IInv, TypeOK
<1>2. /\ tick[t].ids \in [Accounts -> KnownId] /\ tick[t].todo \subseteq Accounts
      /\ tick[t].at \in Accounts \cup {Nobody} /\ IsNews(t, a) /\ row'[a].id = row[a].id
      /\ Nobody \notin Accounts
  BY <1>1, TrustAssumption DEF TickType, OnlyNews, StandsStill, Nobody
<1>3. ASSUME \A u \in Ticks \ {t} : tick'[u] = tick[u], IsNews(t, a)'
      PROVE  OnlyNews(a)'
  BY <1>3, NewsStayNews DEF OnlyNews
<1>4. CASE StartTick(t)
  <2> DEFINE snapshot == [b \in Accounts |-> IF b \in Rows THEN row[b].id ELSE NoId]
             new == [IdleTick EXCEPT !.todo = Rows, !.ids = snapshot]
  <2>1. tick' = [tick EXCEPT ![t] = new] /\ row' = row
    BY <1>4 DEF StartTick
  <2>2. new.todo = Rows /\ new.ids = snapshot /\ new.at = Nobody
    BY DEF IdleTick
  <2>3. snapshot[a] = IF a \in Rows THEN row[a].id ELSE NoId
    OBVIOUS
  <2> HIDE DEF new, snapshot
  <2>4. tick'[t] = new /\ \A u \in Ticks \ {t} : tick'[u] = tick[u]
    BY <1>1, <2>1
  <2>5. IsNews(t, a)'
    BY <1>2, <2>1, <2>2, <2>3, <2>4 DEF IsNews
  <2> QED BY <1>3, <2>4, <2>5
<1>5. CASE \E b \in Accounts : NextAgent(t, b)
  <2>1. PICK b \in Accounts : NextAgent(t, b)
    BY <1>5
  <2>2. PICK phase, result : /\ Begins(t, b, phase, result)
                             /\ phase \in {"write", "wallet", "config"}
                             /\ phase = "write" => result = "FLAGGED" /\ tick[t].ids[b] = NoId
    BY <2>1 DEF NextAgent
  <2> DEFINE new == [tick[t] EXCEPT !.todo = tick[t].todo \ {b}, !.at = b,
                                    !.phase = phase, !.result = result]
  <2>3. /\ new.todo = tick[t].todo \ {b} /\ new.at = b /\ new.phase = phase
        /\ new.result = result /\ new.ids = tick[t].ids
    BY <1>1 DEF TickType
  <2>4. tick' = [tick EXCEPT ![t] = new]
    BY <2>2 DEF Begins
  <2> HIDE DEF new
  <2>5. tick'[t] = new /\ \A u \in Ticks \ {t} : tick'[u] = tick[u]
    BY <1>1, <2>4
  <2>6. CASE a = b
    <3>1. a \in tick[t].todo /\ tick[t].ids[a] = row[a].id
      BY <1>2, <2>1, <2>6 DEF NextAgent, IsNews
    <3>2. phase = "write" => result = RegistryTier(a)
      BY <2>2, <2>6, <3>1 DEF RegistryTier, Unmatched
    <3>3. phase = "write" => result = RegistryTier(a)'
      BY <3>2, TierStandsStill
    <3>4. IsNews(t, a)'
      BY <1>2, <2>2, <2>3, <2>5, <3>1, <3>3 DEF IsNews
    <3> QED BY <1>3, <2>5, <3>4
  <2>7. CASE a # b
    BY <1>2, <1>3, <2>3, <2>5, <2>7, NothingIsNews
  <2> QED BY <2>6, <2>7
<1>6. ASSUME tick[t].phase \in {"wallet", "feedback"},
             NEW phase \in {"feedback", "write"}, NEW result \in Tiers \cup {Failed, Pending},
             Becomes(t, phase, result),
             tick[t].at = a /\ phase = "feedback" => ~Unmatched(a, row[a].id),
             tick[t].at = a /\ phase = "write" => result \in {RegistryTier(a), Failed}
      PROVE  OnlyNews(a)'
  <2> DEFINE new == [tick[t] EXCEPT !.phase = phase, !.result = result]
  <2>1. /\ new.todo = tick[t].todo /\ new.at = tick[t].at /\ new.phase = phase
        /\ new.result = result /\ new.ids = tick[t].ids
    BY <1>1 DEF TickType
  <2>2. tick' = [tick EXCEPT ![t] = new]
    BY <1>6 DEF Becomes
  <2> HIDE DEF new
  <2>3. tick'[t] = new /\ \A u \in Ticks \ {t} : tick'[u] = tick[u]
    BY <1>1, <2>2
  <2>4. CASE tick[t].at = a
    <3>1. phase = "write" => result \in {RegistryTier(a)', Failed}
      BY <1>6, <2>4, TierStandsStill
    <3>2. phase = "feedback" => ~Unmatched(a, row[a].id)'
      BY <1>6, <2>4, TierStandsStill
    <3>3. tick[t].ids[a] = row[a].id
      BY <1>2, <2>4 DEF IsNews
    <3>4. IsNews(t, a)'
      BY <1>2, <2>1, <2>3, <3>1, <3>2, <3>3 DEF IsNews
    <3> QED BY <1>3, <2>3, <3>4
  <2>5. CASE tick[t].at # a
    BY <1>2, <1>3, <2>1, <2>3, <2>5, NothingIsNews
  <2> QED BY <2>4, <2>5
<1>7. CASE ReadWallet(t)
  <2>1. tick[t].at = a => tick[t].ids[tick[t].at] = row[a].id
    BY <1>2 DEF IsNews
  <2>2. CASE Unmatched(tick[t].at, tick[t].ids[tick[t].at])
    <3>1. tick[t].phase = "wallet" /\ Becomes(t, "write", "FLAGGED")
      BY <1>7, <2>2 DEF ReadWallet
    <3>2. tick[t].at = a => RegistryTier(a) = "FLAGGED"
      BY <2>1, <2>2 DEF RegistryTier
    <3> QED BY <1>6, <3>1, <3>2 DEF Tiers
  <2>3. CASE ~Unmatched(tick[t].at, tick[t].ids[tick[t].at])
    <3>1. tick[t].phase = "wallet" /\ Becomes(t, "feedback", Pending)
      BY <1>7, <2>3 DEF ReadWallet
    <3> QED BY <1>6, <2>1, <2>3, <3>1
  <2> QED BY <2>2, <2>3
<1>8. CASE ReadFeedback(t)
  <2> DEFINE found == IF up THEN TierFromRatings(tick[t].ids[tick[t].at]) ELSE Failed
  <2>1. tick[t].phase = "feedback" /\ Becomes(t, "write", found)
    BY <1>8 DEF ReadFeedback
  <2>2. found \in Tiers \cup {Failed}
    BY DEF TierFromRatings, Tiers
  <2>3. tick[t].at = a => found \in {RegistryTier(a), Failed}
    BY <1>2, <2>1 DEF IsNews, RegistryTier
  <2> HIDE DEF found
  <2> QED BY <1>6, <2>1, <2>2, <2>3
<1>9. CASE ReadFails(t)
  BY <1>6, <1>9 DEF ReadFails
<1>10. CASE WriteRow(t) \/ WriteFails(t)
  <2> DEFINE onward == [tick[t] EXCEPT !.at = Nobody, !.phase = "next", !.result = Pending]
             new == IF tick[t].todo = {} THEN IdleTick ELSE onward
  <2>1. tick' = [tick EXCEPT ![t] = new]
    BY <1>10 DEF WriteRow, WriteFails, Onwards
  <2>2. onward.todo = tick[t].todo /\ onward.at = Nobody /\ onward.ids = tick[t].ids
    BY <1>1 DEF TickType
  <2>3. IdleTick.todo = {} /\ IdleTick.at = Nobody
    BY DEF IdleTick
  <2>4. /\ new.at = Nobody /\ new.todo \subseteq tick[t].todo
        /\ new.todo # {} => new.ids = tick[t].ids
    BY <2>2, <2>3
  <2> HIDE DEF new
  <2>5. tick'[t] = new /\ \A u \in Ticks \ {t} : tick'[u] = tick[u]
    BY <1>1, <2>1
  <2>6. IsNews(t, a)'
    BY <1>2, <2>4, <2>5 DEF IsNews
  <2> QED BY <1>3, <2>5, <2>6
<1> QED BY <1>4, <1>5, <1>7, <1>8, <1>9, <1>10 DEF TickStep

LEMMA OnlyNewsStay ==
  ASSUME IInv, [Next]_vars, NEW a \in Accounts, StandsStill(a), OnlyNews(a)
  PROVE  OnlyNews(a)'
<1>1. CASE \E t \in Ticks : TickStep(t) \/ ReadFails(t) \/ WriteFails(t)
  BY <1>1, NewsOfOne
<1>2. ASSUME NEW phase, NEW result, Resume(phase, result),
             phase \in {"wallet", "write"}, phase = "write" => result = Failed
      PROVE  OnlyNews(a)'
  <2> SUFFICES ASSUME NEW t \in Ticks PROVE IsNews(t, a)'
    BY DEF OnlyNews
  <2>1. tick \in [Ticks -> TickType] /\ IsNews(t, a) /\ row'[a].id = row[a].id
    BY DEF IInv, TypeOK, OnlyNews, StandsStill
  <2>2. CASE t \notin Awaiting
    BY <1>2, <2>1, <2>2, NewsStayNews DEF Resume
  <2>3. CASE t \in Awaiting
    <3> DEFINE new == [tick[t] EXCEPT !.phase = phase, !.result = result]
    <3>1. /\ new.todo = tick[t].todo /\ new.at = tick[t].at /\ new.phase = phase
          /\ new.result = result /\ new.ids = tick[t].ids
      BY <2>1 DEF TickType
    <3>2. tick'[t] = new
      BY <1>2, <2>3 DEF Resume
    <3> HIDE DEF new
    <3> QED BY <1>2, <2>1, <3>1, <3>2 DEF IsNews
  <2> QED BY <2>2, <2>3
<1>3. CASE ConfigResolves \/ ConfigFails
  BY <1>2, <1>3 DEF ConfigResolves, ConfigFails
<1>4. CASE ScriptStep \/ ScriptDies \/ Stranger \/ (\E id \in Ids : SyncAgent(id)) \/ UNCHANGED vars
  <2>1. tick' = tick
    BY <1>4 DEF ScriptStep, RunScript, Register, GiveRating, SyncTrustReader, UpsertAgent, ScriptDies,
                Stranger, MoveWallet, SyncAgent, serviceVars, vars
  <2> QED BY <2>1, NewsStayNews DEF OnlyNews
<1> QED BY <1>1, <1>3, <1>4 DEF Next

\* When no refresh has an older view of an agent, its badge only changes to
\* what the registries say.
BadgeIsKept ==
  \A a \in Accounts :
    OnlyNews(a) /\ StandsStill(a) =>
      OnlyNews(a)' /\ row'[a].tier \in {row[a].tier, RegistryTier(a)}

\* The safe half of catching up (refreshAll): once the refreshes that began on
\* an older view of an agent are over, and as long as the registries leave it
\* alone, its badge is what it was or what they say, never anything else
\* again, through failing reads, failing updates and outages, and for any
\* number of refreshes at once.
THEOREM BadgeIsKeptAlways == Spec => [][BadgeIsKept]_vars
<1>1. IInv /\ [Next]_vars => [BadgeIsKept]_vars
  <2> SUFFICES ASSUME IInv, [Next]_vars, NEW a \in Accounts, OnlyNews(a), StandsStill(a)
      PROVE  OnlyNews(a)' /\ row'[a].tier \in {row[a].tier, RegistryTier(a)}
    BY DEF BadgeIsKept
  <2>1. OnlyNews(a)'
    BY OnlyNewsStay
  <2>2. row \in [Accounts -> [exists : BOOLEAN, id : KnownId, tier : Tiers]]
    BY DEF IInv, TypeOK
  <2>3. CASE row' = row
    BY <2>1, <2>3
  <2>4. CASE UpsertAgent
    <3>1. row'[a].tier = row[a].tier
      BY <2>2, <2>4, ServiceAssumption DEF UpsertAgent
    <3> QED BY <2>1, <3>1
  <2>5. CASE row' # row /\ \E t \in Ticks : WriteRow(t)
    <3>1. PICK t \in Ticks : WriteRow(t)
      BY <2>5
    <3>2. /\ tick[t].phase = "write" /\ tick[t].result # Failed
          /\ row' = [row EXCEPT ![tick[t].at].tier = tick[t].result]
      BY <2>5, <3>1 DEF WriteRow
    <3>3. CASE tick[t].at = a
      <4>1. tick[t].result = RegistryTier(a)
        BY <3>2, <3>3 DEF OnlyNews, IsNews
      <4>2. row'[a].tier = RegistryTier(a)
        BY <2>2, <3>2, <3>3, <4>1
      <4> QED BY <2>1, <4>2
    <3>4. CASE tick[t].at # a
      <4>1. row'[a] = row[a]
        BY <2>2, <3>2, <3>4
      <4> QED BY <2>1, <4>1
    <3> QED BY <3>3, <3>4
  <2>6. row' = row \/ UpsertAgent \/ \E t \in Ticks : WriteRow(t)
    BY DEF Next, TickStep, StartTick, NextAgent, ReadWallet, ReadFeedback, ReadFails, WriteFails,
           ConfigResolves, ConfigFails, ScriptStep, RunScript, Register, GiveRating,
           SyncTrustReader, ScriptDies, Stranger, MoveWallet, SyncAgent, vars
  <2> QED BY <2>3, <2>4, <2>5, <2>6
<1> QED BY <1>1, InitHolds, StepHolds, PTL DEF Spec

-----------------------------------------------------------------------------
(***************************************************************************)
(* The two ways to an average: the contract's loop, which is a fold that   *)
(* takes the greatest place last, and the service's sum over a set, a fold *)
(* that takes any.                                                         *)
(***************************************************************************)
Rating == [value : Int, decimals : Nat]
Scaled(r) == r.value * 10 ^ (MaxDecimals - r.decimals)

\* A step of the loop.
Counted(acc, r) ==
  IF r.decimals > MaxDecimals THEN acc
  ELSE [sum |-> acc.sum + Scaled(r), count |-> acc.count + 1]

Base(how) == IF how = "loop" THEN [sum |-> 0, count |-> 0] ELSE 0
Taken(how, S) == IF how = "loop" THEN Max(S) ELSE CHOOSE x \in S : TRUE
StepOf(how, acc, x) == IF how = "loop" THEN Counted(acc, x) ELSE x + acc

\* The table a fold chooses: its value on each subset.
IsTable(g, how, f, S) ==
  g = [s \in SUBSET S |-> IF s = {} THEN Base(how)
                          ELSE StepOf(how, g[s \ {Taken(how, s)}], f[Taken(how, s)])]
Fold(how, f, S) == (CHOOSE g : IsTable(g, how, f, S))[S]

LEMMA SumIsFold ==
  ASSUME NEW f
  PROVE  SumFunction(f) = Fold("sum", f, DOMAIN f)
BY DEF SumFunction, SumFunctionOnSet, FoldFunctionOnSet, MapThenFoldSet, Fold, IsTable, Base, Taken, StepOf

LEMMA LoopIsFold ==
  ASSUME NEW id
  PROVE  LET all == Fold("loop", feedback[id], DOMAIN feedback[id]) IN
         AverageFeedback(id) =
           [count |-> all.count,
            average |-> IF all.count = 0 THEN 0 ELSE Quotient(all.sum, all.count)]
BY DEF AverageFeedback, FoldLeft, MapThenFoldSet, Fold, IsTable, Base, Taken, StepOf, Counted, Scaled

\* What fails for some subset of a finite set fails for a smallest one.
LEMMA SmallestSubset ==
  ASSUME NEW S, IsFiniteSet(S), NEW T \in SUBSET (SUBSET S), T # {}
  PROVE  \E m \in T : \A u \in T : u \subseteq m => u = m
<1>1. IsWellFoundedOn(StrictSubsetOrdering(S), SUBSET S)
  BY FS_StrictSubsetOrderingWellFounded, FS_FiniteSubsetsOfFinite
<1>2. PICK m \in T : \A u \in T : ~(<<u, m>> \in StrictSubsetOrdering(S))
  BY <1>1, WFMin
<1> QED
  BY <1>2 DEF StrictSubsetOrdering

\* The step takes an element of the set.
TakesOne(how, S) == \A s \in SUBSET S : s # {} => Taken(how, s) \in s

LEMMA SumTakesOne ==
  ASSUME NEW S
  PROVE  TakesOne("sum", S)
BY DEF TakesOne, Taken

\* A finite set of places has a greatest one.
HasMax(s) == \E x \in s : \A y \in s : x >= y

LEMMA LoopTakesOne ==
  ASSUME NEW S, S \subseteq Int, IsFiniteSet(S)
  PROVE  TakesOne("loop", S)
<1> DEFINE Bad == {s \in SUBSET S : s # {} /\ ~HasMax(s)}
<1> SUFFICES ASSUME Bad # {} PROVE FALSE
  BY DEF TakesOne, Taken, Max, HasMax
<1>1. PICK m \in Bad : \A u \in Bad : u \subseteq m => u = m
  <2>1. Bad \in SUBSET (SUBSET S)
    OBVIOUS
  <2> HIDE DEF Bad
  <2> QED
    BY ONLY IsFiniteSet(S), Bad # {}, <2>1, SmallestSubset
<1>2. PICK e \in m : TRUE
  OBVIOUS
<1>3. CASE m \ {e} = {}
  <2>1. \A y \in m : y = e
    BY <1>3
  <2> QED
    BY <1>2, <2>1 DEF HasMax
<1>4. CASE m \ {e} # {}
  <2>1. HasMax(m \ {e})
    <3>1. m \ {e} \in SUBSET S /\ m \ {e} # m /\ m \ {e} \subseteq m
      BY <1>2
    <3> QED
      BY <1>1, <1>4, <3>1
  <2>2. PICK x \in m \ {e} : \A y \in m \ {e} : x >= y
    BY <2>1 DEF HasMax
  <2>3. e \in Int /\ x \in Int /\ \A y \in m : y \in Int
    OBVIOUS
  <2>4. IF x >= e THEN \A y \in m : x >= y ELSE \A y \in m : e >= y
    BY <2>2, <2>3
  <2> QED
    BY <1>2, <2>2, <2>4 DEF HasMax
<1> QED
  BY <1>3, <1>4

\* Two tables agree where both are defined.
LEMMA TablesAgree ==
  ASSUME NEW how, NEW f, NEW S, IsFiniteSet(S), TakesOne(how, S), NEW R \in SUBSET S,
         NEW g, NEW h, IsTable(g, how, f, S), IsTable(h, how, f, R)
  PROVE  \A s \in SUBSET R : g[s] = h[s]
<1> DEFINE Bad == {s \in SUBSET R : g[s] # h[s]}
<1> SUFFICES ASSUME Bad # {} PROVE FALSE
  OBVIOUS
<1>1. PICK m \in Bad : \A u \in Bad : u \subseteq m => u = m
  <2>1. Bad \in SUBSET (SUBSET S)
    OBVIOUS
  <2> HIDE DEF Bad
  <2> QED
    BY <2>1, SmallestSubset
<1> DEFINE c == Taken(how, m)
           v == m \ {c}
<1>2. /\ g[m] = IF m = {} THEN Base(how) ELSE StepOf(how, g[v], f[c])
      /\ h[m] = IF m = {} THEN Base(how) ELSE StepOf(how, h[v], f[c])
  BY DEF IsTable
<1>3. m # {} /\ v \subseteq m /\ v # m
  BY <1>2 DEF TakesOne
<1>4. g[v] = h[v]
  BY <1>1, <1>3
<1> HIDE DEF c, v
<1> QED
  BY <1>2, <1>3, <1>4

LEMMA TableExists ==
  ASSUME NEW how, NEW f, NEW S, IsFiniteSet(S), TakesOne(how, S)
  PROVE  \E g : IsTable(g, how, f, S)
<1> DEFINE Bad == {s \in SUBSET S : ~\E g : IsTable(g, how, f, s)}
<1> SUFFICES ASSUME Bad # {} PROVE FALSE
  OBVIOUS
<1>1. PICK m \in Bad : \A u \in Bad : u \subseteq m => u = m
  <2>1. Bad \in SUBSET (SUBSET S)
    OBVIOUS
  <2> HIDE DEF Bad
  <2> QED
    BY <2>1, SmallestSubset
<1> DEFINE c(s) == Taken(how, s)
           G(s) == CHOOSE g : IsTable(g, how, f, s)
           \* The tables of the smaller sets, each at its own set, and one step more.
           Small(s) == IF s = m THEN 0 ELSE G(s)[s]
           H == [s \in SUBSET m |-> IF s = {} THEN Base(how)
                                    ELSE StepOf(how, Small(s \ {c(s)}), f[c(s)])]
<1>2. ASSUME NEW s \in SUBSET m, s # {}
      PROVE  c(s) \in s /\ s \ {c(s)} \in SUBSET m /\ s \ {c(s)} # m
  BY <1>2 DEF TakesOne
<1>3. ASSUME NEW s \in SUBSET m, s # m
      PROVE  IsTable(G(s), how, f, s) /\ IsFiniteSet(s) /\ TakesOne(how, s)
  <2>1. s \notin Bad
    BY <1>1, <1>3
  <2>2. \E g : IsTable(g, how, f, s)
    BY <2>1
  <2> QED
    BY <2>2, FS_Subset DEF TakesOne
<1>4. ASSUME NEW s \in SUBSET m, s # m PROVE H[s] = Small(s)
  <2> DEFINE v == s \ {c(s)}
  <2>1. G(s)[s] = IF s = {} THEN Base(how) ELSE StepOf(how, G(s)[v], f[c(s)])
    <3>1. IsTable(G(s), how, f, s)
      BY <1>3, <1>4
    <3> HIDE DEF G
    <3> QED
      BY <3>1 DEF IsTable
  <2>2. CASE s = {}
    BY <1>4, <2>1, <2>2
  <2>3. CASE s # {}
    <3>1. v \in SUBSET s /\ v \in SUBSET m /\ v # m
      BY <1>2, <2>3
    <3>2. G(s)[v] = G(v)[v]
      <4>1. IsTable(G(s), how, f, s) /\ IsTable(G(v), how, f, v) /\ IsFiniteSet(s) /\ TakesOne(how, s)
        BY <1>3, <1>4, <3>1
      <4> HIDE DEF G, v
      <4> QED
        BY <3>1, <4>1, TablesAgree
    <3>3. H[s] = StepOf(how, Small(v), f[c(s)])
      BY <2>3
    <3> QED
      BY <1>4, <2>1, <2>3, <3>1, <3>2, <3>3
  <2> QED
    BY <2>2, <2>3
<1>5. H = [s \in SUBSET m |-> IF s = {} THEN Base(how) ELSE StepOf(how, H[s \ {c(s)}], f[c(s)])]
  <2>1. ASSUME NEW s \in SUBSET m
        PROVE  H[s] = IF s = {} THEN Base(how) ELSE StepOf(how, H[s \ {c(s)}], f[c(s)])
    <3>1. CASE s = {}
      BY <3>1
    <3>2. CASE s # {}
      <4>1. H[s \ {c(s)}] = Small(s \ {c(s)})
        BY <1>2, <1>4, <3>2
      <4>2. H[s] = StepOf(how, Small(s \ {c(s)}), f[c(s)])
        BY <3>2
      <4> HIDE DEF H, Small, c
      <4> QED
        BY <3>2, <4>1, <4>2
    <3> QED
      BY <3>1, <3>2
  <2>2. H = [s \in SUBSET m |-> H[s]]
    OBVIOUS
  <2> HIDE DEF H
  <2> QED
    BY <2>1, <2>2
<1>6. IsTable(H, how, f, m)
  <2> HIDE DEF H
  <2> QED
    BY <1>5 DEF IsTable
<1> QED
  BY <1>6

\* A fold's recursive equation.
LEMMA FoldEquation ==
  ASSUME NEW how, NEW f, NEW S, IsFiniteSet(S), TakesOne(how, S)
  PROVE  Fold(how, f, S) =
           IF S = {} THEN Base(how)
           ELSE StepOf(how, Fold(how, f, S \ {Taken(how, S)}), f[Taken(how, S)])
<1> DEFINE G(s) == CHOOSE g : IsTable(g, how, f, s)
           v == S \ {Taken(how, S)}
<1>1. IsTable(G(S), how, f, S)
  BY TableExists
<1>2. IsFiniteSet(v) /\ v \in SUBSET S /\ TakesOne(how, v)
  BY FS_Subset DEF TakesOne
<1>3. IsTable(G(v), how, f, v)
  BY <1>2, TableExists
<1>4. Fold(how, f, S) = G(S)[S] /\ Fold(how, f, v) = G(v)[v]
  BY DEF Fold
<1> HIDE DEF G
<1>5. G(S)[v] = G(v)[v]
  <2> HIDE DEF v
  <2>1. v \in SUBSET v
    OBVIOUS
  <2> QED
    BY ONLY IsFiniteSet(S), TakesOne(how, S), <1>1, <1>2, <1>3, <2>1, TablesAgree
<1>6. G(S)[S] = IF S = {} THEN Base(how) ELSE StepOf(how, G(S)[v], f[Taken(how, S)])
  BY <1>1 DEF IsTable
<1> QED
  BY <1>4, <1>5, <1>6

-----------------------------------------------------------------------------
(***************************************************************************)
(* Sums of integers over a finite set.                                     *)
(***************************************************************************)
SumOver(f, S) == Fold("sum", f, S)
InInt(f, S) == \A x \in S : f[x] \in Int

LEMMA SumEquation ==
  ASSUME NEW f, NEW S, IsFiniteSet(S)
  PROVE  \/ S = {} /\ SumOver(f, S) = 0
         \/ \E x \in S : SumOver(f, S) = f[x] + SumOver(f, S \ {x})
<1>1. TakesOne("sum", S)
  BY SumTakesOne
<1> DEFINE x == Taken("sum", S)
<1>2. SumOver(f, S) = IF S = {} THEN Base("sum") ELSE StepOf("sum", SumOver(f, S \ {x}), f[x])
  BY <1>1, FoldEquation DEF SumOver
<1>3. S # {} => x \in S
  BY <1>1 DEF TakesOne
<1> HIDE DEF x
<1> QED
  BY <1>2, <1>3 DEF Base, StepOf

LEMMA SumIsInt ==
  ASSUME NEW f, NEW S, IsFiniteSet(S), InInt(f, S)
  PROVE  SumOver(f, S) \in Int
<1> DEFINE Bad == {s \in SUBSET S : SumOver(f, s) \notin Int}
<1> SUFFICES ASSUME Bad # {} PROVE FALSE
  OBVIOUS
<1>1. PICK m \in Bad : \A u \in Bad : u \subseteq m => u = m
  <2>1. Bad \in SUBSET (SUBSET S)
    OBVIOUS
  <2> HIDE DEF Bad
  <2> QED
    BY ONLY IsFiniteSet(S), Bad # {}, <2>1, SmallestSubset
<1>2. IsFiniteSet(m)
  BY FS_Subset
<1>3. PICK x \in m : SumOver(f, m) = f[x] + SumOver(f, m \ {x})
  BY <1>2, SumEquation
<1>4. SumOver(f, m \ {x}) \in Int
  BY <1>1
<1> QED
  BY <1>3, <1>4 DEF InInt

\* Any element may be taken.
LEMMA SumWithout ==
  ASSUME NEW f, NEW S, IsFiniteSet(S), InInt(f, S), NEW x \in S
  PROVE  SumOver(f, S) = f[x] + SumOver(f, S \ {x})
<1> DEFINE Bad == {s \in SUBSET S : \E y \in s : SumOver(f, s) # f[y] + SumOver(f, s \ {y})}
<1> SUFFICES ASSUME Bad # {} PROVE FALSE
  OBVIOUS
<1>1. PICK m \in Bad : \A u \in Bad : u \subseteq m => u = m
  <2>1. Bad \in SUBSET (SUBSET S)
    OBVIOUS
  <2> HIDE DEF Bad
  <2> QED
    BY ONLY IsFiniteSet(S), Bad # {}, <2>1, SmallestSubset
<1>2. \A s \in SUBSET S : IsFiniteSet(s) /\ SumOver(f, s) \in Int
  <2> SUFFICES ASSUME NEW s \in SUBSET S PROVE IsFiniteSet(s) /\ SumOver(f, s) \in Int
    OBVIOUS
  <2>1. IsFiniteSet(s) /\ InInt(f, s)
    BY FS_Subset DEF InInt
  <2> QED
    BY <2>1, SumIsInt
<1>3. PICK y \in m : SumOver(f, m) # f[y] + SumOver(f, m \ {y})
  OBVIOUS
<1>4. PICK c \in m : SumOver(f, m) = f[c] + SumOver(f, m \ {c})
  BY <1>2, <1>3, SumEquation
<1> DEFINE rest == m \ {c, y}
<1>5. SumOver(f, m \ {c}) = f[y] + SumOver(f, rest)
  <2>1. m \ {c} # m /\ y \in m \ {c} /\ (m \ {c}) \ {y} = rest
    BY <1>3, <1>4
  <2> QED
    BY <1>1, <2>1
<1>6. SumOver(f, m \ {y}) = f[c] + SumOver(f, rest)
  <2>1. m \ {y} # m /\ c \in m \ {y} /\ (m \ {y}) \ {c} = rest
    BY <1>3, <1>4
  <2> QED
    BY <1>1, <2>1
<1>7. f[c] \in Int /\ f[y] \in Int /\ SumOver(f, rest) \in Int
  BY <1>2 DEF InInt
<1> HIDE DEF rest
<1> QED
  BY <1>3, <1>4, <1>5, <1>6, <1>7

-----------------------------------------------------------------------------
(***************************************************************************)
(* The loop has the sum and the number of the ratings that can be scaled.  *)
(***************************************************************************)
Usable(ratings, S) == {i \in S : ratings[i].decimals <= MaxDecimals}
ScaledUp(ratings, S) == [i \in Usable(ratings, S) |-> Scaled(ratings[i])]

LEMMA LoopCountsAndSums ==
  ASSUME NEW ratings \in Seq(Rating)
  PROVE  LET all == DOMAIN ratings
             values == ScaledUp(ratings, all)
         IN  /\ IsFiniteSet(Usable(ratings, all))
             /\ Fold("loop", ratings, all) =
                  [sum |-> SumOver(values, Usable(ratings, all)),
                   count |-> Cardinality(Usable(ratings, all))]
<1> DEFINE all == DOMAIN ratings
           values == ScaledUp(ratings, all)
           Right(s) == [sum |-> SumOver(values, Usable(ratings, s)),
                        count |-> Cardinality(Usable(ratings, s))]
           Bad == {s \in SUBSET all : Fold("loop", ratings, s) # Right(s)}
<1>0. Len(ratings) \in Nat /\ all = 1..Len(ratings) /\ \A i \in all : ratings[i] \in Rating
  OBVIOUS
<1>1. IsFiniteSet(all) /\ all \subseteq Int
  BY <1>0, FS_Interval
<1>2. \A i \in all : ratings[i].value \in Int /\ ratings[i].decimals \in Nat
  BY <1>0 DEF Rating
<1>3. InInt(values, Usable(ratings, all))
  <2> SUFFICES ASSUME NEW i \in Usable(ratings, all) PROVE Scaled(ratings[i]) \in Int
    BY DEF InInt, ScaledUp
  <2>1. ratings[i].value \in Int /\ ratings[i].decimals \in 0..MaxDecimals
    BY <1>2, TrustAssumption DEF Usable
  <2>2. 10 ^ (MaxDecimals - ratings[i].decimals) \in Int
    BY <2>1, PowersAssumption
  <2> DEFINE power == 10 ^ (MaxDecimals - ratings[i].decimals)
  <2>3. Scaled(ratings[i]) = ratings[i].value * power
    BY DEF Scaled
  <2> HIDE DEF power
  <2> QED
    BY <2>1, <2>2, <2>3 DEF power
<1>4. ASSUME NEW s \in SUBSET all
      PROVE  /\ IsFiniteSet(s) /\ IsFiniteSet(Usable(ratings, s)) /\ TakesOne("loop", s)
             /\ InInt(values, Usable(ratings, s))
  <2>1. IsFiniteSet(s) /\ s \subseteq Int
    BY <1>1, FS_Subset
  <2>2. Usable(ratings, s) \subseteq s /\ Usable(ratings, s) \subseteq Usable(ratings, all)
    BY DEF Usable
  <2> QED
    BY <1>3, <2>1, <2>2, FS_Subset, LoopTakesOne DEF InInt
<1> SUFFICES ASSUME Bad # {} PROVE FALSE
  <2>1. IsFiniteSet(Usable(ratings, all))
    BY <1>4
  <2>2. Bad = {} => Fold("loop", ratings, all) = Right(all)
    OBVIOUS
  <2> HIDE DEF Bad
  <2> QED
    BY <2>1, <2>2
<1>5. PICK m \in Bad : \A u \in Bad : u \subseteq m => u = m
  <2>1. Bad \in SUBSET (SUBSET all)
    OBVIOUS
  <2>2. IsFiniteSet(all)
    BY <1>1
  <2> HIDE DEF Bad, all
  <2> QED
    BY ONLY <2>1, <2>2, Bad # {}, SmallestSubset
<1> HIDE DEF values
<1>6. CASE m = {}
  <2>1. Fold("loop", ratings, m) = [sum |-> 0, count |-> 0]
    BY <1>4, <1>6, FoldEquation DEF Base
  <2>2. Usable(ratings, m) = {}
    BY <1>6 DEF Usable
  <2>3. SumOver(values, {}) = 0 /\ Cardinality({}) = 0
    BY SumEquation, FS_EmptySet
  <2> QED
    BY <2>1, <2>2, <2>3
<1>7. CASE m # {}
  <2> DEFINE i == Taken("loop", m)
             v == m \ {i}
             U == Usable(ratings, m)
  <2>1. i \in m /\ v \in SUBSET all /\ v \subseteq m /\ v # m
    BY <1>4, <1>7 DEF TakesOne
  <2>2. Fold("loop", ratings, v) = Right(v)
    BY <1>5, <2>1
  <2>3. Fold("loop", ratings, m) = Counted(Right(v), ratings[i])
    <3>1. Fold("loop", ratings, m) = StepOf("loop", Fold("loop", ratings, v), ratings[i])
      BY <1>4, <1>7, FoldEquation
    <3> QED
      BY <2>2, <3>1 DEF StepOf
  <2> HIDE DEF i
  <2>4. CASE ratings[i].decimals > MaxDecimals
    <3>1. Usable(ratings, v) = U
      BY <1>2, <2>1, <2>4, TrustAssumption DEF Usable
    <3> QED
      BY <2>3, <2>4, <3>1 DEF Counted
  <2>5. CASE ~(ratings[i].decimals > MaxDecimals)
    <3>1. i \in U /\ Usable(ratings, v) = U \ {i} /\ i \in Usable(ratings, all)
      BY <1>2, <2>1, <2>5, TrustAssumption DEF Usable
    <3>2. values[i] = Scaled(ratings[i])
      BY <3>1 DEF values, ScaledUp
    <3>3. IsFiniteSet(U) /\ InInt(values, U) /\ IsFiniteSet(U \ {i}) /\ InInt(values, U \ {i})
      BY <1>4, <3>1, FS_Subset DEF InInt
    <3>4. /\ SumOver(values, U) = values[i] + SumOver(values, U \ {i})
          /\ values[i] \in Int /\ SumOver(values, U \ {i}) \in Int
      BY <3>1, <3>3, SumWithout, SumIsInt DEF InInt
    <3>5. Cardinality(U) = Cardinality(U \ {i}) + 1
      <4>1. Cardinality(U \ {i}) = Cardinality(U) - 1 /\ Cardinality(U) \in Nat
        BY <3>1, <3>3, FS_RemoveElement, FS_CardinalityType
      <4> QED
        BY <4>1
    <3>6. Counted(Right(v), ratings[i]) =
            [sum |-> SumOver(values, U \ {i}) + Scaled(ratings[i]),
             count |-> Cardinality(U \ {i}) + 1]
      BY <2>5, <3>1 DEF Counted
    <3>7. Counted(Right(v), ratings[i]) = Right(m)
      <4>1. SumOver(values, U \ {i}) + Scaled(ratings[i]) = SumOver(values, U)
        BY ONLY <3>2, <3>4
      <4> QED
        BY <3>5, <3>6, <4>1
    <3> QED
      BY <2>3, <3>7
  <2> QED
    BY <2>4, <2>5
<1> QED
  BY <1>6, <1>7

\* The service's average is the contract's.
LEMMA AveragesAgree ==
  ASSUME TypeOK, NEW id \in Ids
  PROVE  TierFromRatings(id) =
           IF /\ AverageFeedback(id).count >= MinCount
              /\ AverageFeedback(id).average >= Wad(MinScore)
           THEN "VERIFIED" ELSE "NEW"
<1> DEFINE ratings == feedback[id]
           all == DOMAIN ratings
           usable == Usable(ratings, all)
           values == ScaledUp(ratings, all)
           count == Cardinality(usable)
           average == IF count > 0 THEN Quotient(SumOver(values, usable), count) ELSE 0
<1>1. ratings \in Seq(Rating)
  BY DEF TypeOK, Ids, Rating
<1>2. /\ IsFiniteSet(usable)
      /\ Fold("loop", ratings, all) = [sum |-> SumOver(values, usable), count |-> count]
  BY <1>1, LoopCountsAndSums
<1>3. count \in Nat
  BY <1>2, FS_CardinalityType
<1>4. AverageFeedback(id) = [count |-> count, average |-> average]
  <2>1. AverageFeedback(id) =
          [count |-> Fold("loop", ratings, all).count,
           average |-> IF Fold("loop", ratings, all).count = 0 THEN 0
                       ELSE Quotient(Fold("loop", ratings, all).sum,
                                     Fold("loop", ratings, all).count)]
    BY LoopIsFold
  <2>2. /\ Fold("loop", ratings, all).count = count
        /\ Fold("loop", ratings, all).sum = SumOver(values, usable)
    BY <1>2
  <2>3. (count = 0) <=> ~(count > 0)
    BY <1>3
  <2> HIDE DEF count, values, usable, all, ratings
  <2> QED
    BY <2>1, <2>2, <2>3
<1>5. TierFromRatings(id) =
        IF count >= MinCount /\ average >= Wad(MinScore) THEN "VERIFIED" ELSE "NEW"
  <2>1. SumFunction(values) = SumOver(values, usable)
    BY SumIsFold DEF SumOver, ScaledUp
  <2>2. /\ usable = {i \in DOMAIN ratings : ratings[i].decimals <= MaxDecimals}
        /\ values = [i \in usable |-> ratings[i].value * 10 ^ (MaxDecimals - ratings[i].decimals)]
    BY DEF Usable, ScaledUp, Scaled
  <2> QED
    BY <2>1, <2>2 DEF TierFromRatings
<1> HIDE DEF count, average
<1> QED
  BY <1>4, <1>5

\* The tier shown is the tier enforced, for any ratings with any decimals, any
\* thresholds and however the ratings came: what the service filters, sums and
\* divides (trust.service.ts, lines 231 to 242) is what the contract's loop
\* adds up (TrustReader.sol, _averageFeedback).
THEOREM PortAgreesAlways == Spec => []PortAgrees
<1>1. TypeOK => PortAgrees
  <2> SUFFICES ASSUME TypeOK, NEW a \in Rows, ~Unmatched(a, row[a].id),
                      agentIdOf[a] = row[a].id, up
               PROVE  TierOf(a) = RegistryTier(a)
    BY DEF PortAgrees
  <2> DEFINE id == row[a].id
  <2>1. id # NoId /\ id \in Ids
    BY DEF Unmatched, TypeOK, KnownId, Rows
  <2>2. RegistryTier(a) = TierFromRatings(id)
    BY DEF RegistryTier
  <2>3. TierOf(a) = IF /\ AverageFeedback(id).count >= MinCount
                       /\ AverageFeedback(id).average >= Wad(MinScore)
                    THEN "VERIFIED" ELSE "NEW"
    BY <2>1 DEF TierOf
  <2> QED
    BY <2>1, <2>2, <2>3, AveragesAgree
<1> QED BY <1>1, TypeCorrect, PTL
=============================================================================
