---------------------------- MODULE IndexerProofs ----------------------------
(***************************************************************************)
(* The rows, the mirror and the cursor, for every set of wallets and terms *)
(* and every number of transactions, faults and resets.                    *)
(*                                                                         *)
(* What a lemma says of a chain it says of any list t of transactions, so  *)
(* that it can be used of txs and of txs'.                                 *)
(***************************************************************************)
EXTENDS IndexerProperties, SequenceTheorems, TLAPS

Tx == [wallet : Wallets, block : Nat \ {0}, events : Seq(Event) \ {<<>>}]

Agent == [hired : BOOLEAN, frozen : BOOLEAN, terms : Terms \cup {NotHired.terms}]

EventOf(t, n) == t[n].events[1]

\* Transaction n is the event `name` of wallet w.
Is(t, n, w, name) ==
  n \in DOMAIN t /\ t[n].wallet = w /\ EventOf(t, n).name = name

Settles(t, n) == EventOf(t, n).name \in {"Approved", "Denied"}

(***************************************************************************)
(* The chain.  A wallet's transactions come after its creation, its        *)
(* proposals after a hire and its decisions after their proposals, one     *)
(* for each.                                                               *)
(***************************************************************************)
ChainTyped ==
  /\ head \in Nat /\ observed \in BOOLEAN
  /\ txs \in Seq(Tx)
  /\ agents \in [Wallets -> Agent]
  /\ nonces \in [Wallets -> Nat] /\ DOMAIN proposals = Wallets

InBlockOrder(t, h) ==
  /\ \A n \in DOMAIN t : t[n].block <= h
  /\ \A m, n \in DOMAIN t : m <= n => t[m].block <= t[n].block

CreatedFirst(t) ==
  \A n \in DOMAIN t :
    IF EventOf(t, n).name = "WalletCreated"
    THEN /\ t[n].wallet # DevWallet
         /\ \A m \in DOMAIN t : m < n => t[m].wallet # t[n].wallet
    ELSE \/ t[n].wallet = DevWallet
         \/ \E m \in DOMAIN t : m < n /\ Is(t, m, t[n].wallet, "WalletCreated")

HiredFirst(t, a) ==
  /\ \A w \in Wallets : a[w].hired => \E n \in DOMAIN t : Is(t, n, w, "AgentHired")
  /\ \A n \in DOMAIN t : EventOf(t, n).name = "Proposed" =>
       \E m \in DOMAIN t : m < n /\ Is(t, m, t[n].wallet, "AgentHired")

FiledFirst(t, p) ==
  /\ \A n \in DOMAIN t : EventOf(t, n).name = "Proposed" =>
       /\ EventOf(t, n).id \in DOMAIN p[t[n].wallet]
       /\ \A m \in DOMAIN t :
            Is(t, m, t[n].wallet, "Proposed") /\ EventOf(t, m).id = EventOf(t, n).id
              => m = n
  /\ \A w \in Wallets : \A id \in DOMAIN p[w] :
       \E n \in DOMAIN t : Is(t, n, w, "Proposed") /\ EventOf(t, n).id = id
  /\ \A n \in DOMAIN t : Settles(t, n) =>
       \E m \in DOMAIN t :
         m < n /\ Is(t, m, t[n].wallet, "Proposed") /\ EventOf(t, m).id = EventOf(t, n).id

SettledOnce(t, p) ==
  \A n \in DOMAIN t : Settles(t, n) =>
    /\ p[t[n].wallet][EventOf(t, n).id] # "PENDING"
    /\ \A m \in DOMAIN t :
         Settles(t, m) /\ t[m].wallet = t[n].wallet /\ EventOf(t, m).id = EventOf(t, n).id
           => m = n

\* A nonce is not used again.
NoncesCount(p, c) == \A w \in Wallets : \A id \in DOMAIN p[w] : id[2] <= c[w]

ChainInv ==
  /\ ChainTyped /\ NoncesCount(proposals, nonces)
  /\ InBlockOrder(txs, head) /\ CreatedFirst(txs)
  /\ HiredFirst(txs, agents) /\ FiledFirst(txs, proposals) /\ SettledOnce(txs, proposals)

(***************************************************************************)
(* How the chain grows: by one transaction at the end, in a block that     *)
(* nobody has read.                                                        *)
(***************************************************************************)
Grew(t, u, N, e) ==
  /\ N \notin DOMAIN t /\ N \in Nat
  /\ DOMAIN u = DOMAIN t \cup {N}
  /\ \A n \in DOMAIN t : u[n] = t[n] /\ n \in Nat /\ n < N
  /\ u[N] = e

\* No transaction can be added to a block up to b any more.
Closed(b, h, o) == b \in Int /\ b <= h /\ (b = h => (o \/ h = 0))

LEMMA AppendGrows ==
  ASSUME NEW S, NEW t \in Seq(S), NEW e \in S
  PROVE  Grew(t, Append(t, e), Len(t) + 1, e)
BY DEF Grew

\* Mining adds a transaction of one wallet, with the events given, in a new
\* block or in one nobody has read.
LEMMA MineGrows ==
  ASSUME ChainTyped, NEW w \in Wallets, NEW ev \in Seq(Event) \ {<<>>}, Mine(w, ev)
  PROVE  /\ Grew(txs, txs', Len(txs) + 1, [wallet |-> w, block |-> head', events |-> ev])
         /\ txs' \in Seq(Tx)
         /\ head' \in Nat /\ head' >= 1 /\ head <= head'
         /\ \A b : Closed(b, head, observed) => b < head' /\ Closed(b, head', observed')
         /\ observed' = FALSE
<1>1. head' \in {head + 1, head} /\ (head' = head => head # 0 /\ ~observed)
  BY DEF Mine, ChainTyped
<1>2. head \in Nat /\ head' \in Nat /\ head' >= 1 /\ head <= head'
  BY <1>1 DEF ChainTyped
<1>3. \A b : Closed(b, head, observed) => b < head' /\ Closed(b, head', observed')
  BY <1>1, <1>2 DEF Closed
<1>4. txs' = Append(txs, [wallet |-> w, block |-> head', events |-> ev]) /\ observed' = FALSE
  BY DEF Mine
<1>5. [wallet |-> w, block |-> head', events |-> ev] \in Tx /\ txs \in Seq(Tx)
  BY <1>2 DEF Tx, ChainTyped
<1>6. Grew(txs, Append(txs, [wallet |-> w, block |-> head', events |-> ev]), Len(txs) + 1,
           [wallet |-> w, block |-> head', events |-> ev])
  BY <1>5, AppendGrows
<1> QED BY <1>2, <1>3, <1>4, <1>5, <1>6

\* What a transaction of a typed chain is.
LEMMA TxIsTyped ==
  ASSUME NEW t \in Seq(Tx), NEW n \in DOMAIN t
  PROVE  /\ n \in Nat
         /\ t[n].wallet \in Wallets
         /\ t[n].block \in Nat /\ t[n].block >= 1
         /\ EventOf(t, n).name \in EventName /\ EventOf(t, n).id \in ProposalId
<1>1. t[n] \in Tx /\ n \in Nat
  OBVIOUS
<1>2. t[n].wallet \in Wallets /\ t[n].block \in Nat /\ t[n].block # 0
      /\ t[n].events \in Seq(Event) /\ t[n].events # <<>>
  BY <1>1 DEF Tx
<1>3. EventOf(t, n) \in Event
  BY <1>2 DEF EventOf
<1> QED BY <1>1, <1>2, <1>3 DEF Event

-----------------------------------------------------------------------------
(***************************************************************************)
(* Each part of ChainInv, when the chain grows.                            *)
(***************************************************************************)
LEMMA OrderGrows ==
  ASSUME NEW t \in Seq(Tx), NEW u, NEW N, NEW e, Grew(t, u, N, e), 
         NEW h \in Nat, NEW k \in Nat, h <= k, e.block = k, InBlockOrder(t, h)
  PROVE  InBlockOrder(u, k)
<1>1. \A n \in DOMAIN t : t[n].block \in Nat /\ t[n].block <= h
  BY TxIsTyped DEF InBlockOrder
<1>2. \A n \in DOMAIN u : u[n].block <= k
  BY <1>1 DEF Grew
<1>3. ASSUME NEW m \in DOMAIN u, NEW n \in DOMAIN u, m <= n
      PROVE  u[m].block <= u[n].block
  <2>1. CASE n = N
    BY <1>2, <2>1 DEF Grew
  <2>2. CASE n # N
    BY <1>3, <2>2 DEF Grew, InBlockOrder
  <2> QED BY <2>1, <2>2
<1> QED BY <1>2, <1>3 DEF InBlockOrder

\* A wallet that exists was created by the factory, or without it.
LEMMA DeployedIsCreated ==
  ASSUME CreatedFirst(txs), NEW w \in Deployed
  PROVE  w = DevWallet \/ \E m \in DOMAIN txs : Is(txs, m, w, "WalletCreated")
BY DEF CreatedFirst, Deployed, Is

LEMMA CreatedGrows ==
  ASSUME NEW t, NEW u, NEW N, NEW e, Grew(t, u, N, e), CreatedFirst(t),
         IF e.events[1].name = "WalletCreated"
         THEN e.wallet # DevWallet /\ \A m \in DOMAIN t : t[m].wallet # e.wallet
         ELSE e.wallet = DevWallet \/ \E m \in DOMAIN t : Is(t, m, e.wallet, "WalletCreated")
  PROVE  CreatedFirst(u)
<1> SUFFICES ASSUME NEW n \in DOMAIN u
    PROVE IF EventOf(u, n).name = "WalletCreated"
          THEN /\ u[n].wallet # DevWallet
               /\ \A m \in DOMAIN u : m < n => u[m].wallet # u[n].wallet
          ELSE \/ u[n].wallet = DevWallet
               \/ \E m \in DOMAIN u : m < n /\ Is(u, m, u[n].wallet, "WalletCreated")
  BY DEF CreatedFirst
<1>1. CASE n = N
  BY <1>1 DEF Grew, EventOf, Is
<1>2. CASE n # N
  <2>1. n \in DOMAIN t /\ u[n] = t[n] /\ EventOf(u, n) = EventOf(t, n) /\ n < N /\ n \in Nat
        /\ N \in Nat
    BY <1>2 DEF Grew, EventOf
  <2>2. \A m \in DOMAIN u : m < n => m \in DOMAIN t /\ u[m] = t[m]
    BY <2>1 DEF Grew
  <2>3. CASE EventOf(t, n).name = "WalletCreated"
    BY <2>1, <2>2, <2>3 DEF CreatedFirst
  <2>4. CASE EventOf(t, n).name # "WalletCreated" /\ t[n].wallet # DevWallet
    <3>1. PICK m \in DOMAIN t : m < n /\ Is(t, m, t[n].wallet, "WalletCreated")
      BY <2>1, <2>4 DEF CreatedFirst
    <3>2. m \in DOMAIN u /\ Is(u, m, u[n].wallet, "WalletCreated")
      BY <3>1, <2>1 DEF Is, EventOf, Grew
    <3> QED BY <3>1, <3>2, <2>1, <2>4
  <2> QED BY <2>1, <2>3, <2>4
<1> QED BY <1>1, <1>2

\* An event of the chain is the same event of the longer chain.
LEMMA IsStays ==
  ASSUME NEW t, NEW u, NEW N, NEW e, Grew(t, u, N, e),
         NEW n \in DOMAIN t, NEW w, NEW name, Is(t, n, w, name)
  PROVE  n \in DOMAIN u /\ Is(u, n, w, name) /\ EventOf(u, n) = EventOf(t, n) /\ n < N
BY DEF Is, EventOf, Grew

LEMMA HiredGrows ==
  ASSUME NEW t, NEW u, NEW N, NEW e, Grew(t, u, N, e), NEW a, NEW b, HiredFirst(t, a),
         \A w \in Wallets : b[w].hired =>
           a[w].hired \/ (e.wallet = w /\ e.events[1].name = "AgentHired"),
         e.events[1].name = "Proposed" => e.wallet \in Wallets /\ a[e.wallet].hired
  PROVE  HiredFirst(u, b)
<1>1. ASSUME NEW w \in Wallets, b[w].hired
      PROVE  \E n \in DOMAIN u : Is(u, n, w, "AgentHired")
  <2>1. CASE a[w].hired
    BY <2>1, IsStays DEF HiredFirst
  <2>2. CASE e.wallet = w /\ e.events[1].name = "AgentHired"
    BY <2>2 DEF Grew, Is, EventOf
  <2> QED BY <1>1, <2>1, <2>2
<1>2. ASSUME NEW n \in DOMAIN u, EventOf(u, n).name = "Proposed"
      PROVE  \E m \in DOMAIN u : m < n /\ Is(u, m, u[n].wallet, "AgentHired")
  <2>1. CASE n = N
    <3>1. e.events[1].name = "Proposed" /\ u[n].wallet = e.wallet
      BY <1>2, <2>1 DEF Grew, EventOf
    <3> QED BY <2>1, <3>1, IsStays DEF HiredFirst
  <2>2. CASE n # N
    <3>1. n \in DOMAIN t /\ u[n] = t[n] /\ EventOf(t, n).name = "Proposed"
      BY <1>2, <2>2 DEF Grew, EventOf
    <3> QED BY <3>1, IsStays DEF HiredFirst
  <2> QED BY <2>1, <2>2
<1> QED BY <1>1, <1>2 DEF HiredFirst

\* What transaction e does to the queues p: it may file a proposal, or decide
\* one that is pending.
Files(e, p, q) ==
  /\ \A w \in Wallets : \A id : id \in DOMAIN q[w] <=>
       \/ id \in DOMAIN p[w]
       \/ e.wallet = w /\ e.events[1].name = "Proposed" /\ e.events[1].id = id
  /\ e.events[1].name = "Proposed" => e.events[1].id \notin DOMAIN p[e.wallet]
  /\ e.events[1].name \in {"Approved", "Denied"} => e.events[1].id \in DOMAIN p[e.wallet]

Decides(e, p, q) ==
  /\ \A w \in Wallets : \A id \in DOMAIN p[w] :
       q[w][id] = p[w][id] \/ q[w][id] # "PENDING"
  /\ e.events[1].name \in {"Approved", "Denied"} =>
       /\ p[e.wallet][e.events[1].id] = "PENDING"
       /\ q[e.wallet][e.events[1].id] # "PENDING"

LEMMA FiledGrows ==
  ASSUME NEW t \in Seq(Tx), NEW u, NEW N, NEW e, Grew(t, u, N, e), e.wallet \in Wallets,
         NEW p, NEW q, FiledFirst(t, p),
         Files(e, p, q)
  PROVE  FiledFirst(u, q)
<1>1. ASSUME NEW n \in DOMAIN u, EventOf(u, n).name = "Proposed"
      PROVE  /\ EventOf(u, n).id \in DOMAIN q[u[n].wallet]
             /\ \A m \in DOMAIN u :
                  Is(u, m, u[n].wallet, "Proposed") /\ EventOf(u, m).id = EventOf(u, n).id
                    => m = n
  <2>1. \A m \in DOMAIN t : EventOf(t, m).name = "Proposed" =>
          t[m].wallet \in Wallets /\ EventOf(t, m).id \in DOMAIN p[t[m].wallet]
    BY TxIsTyped DEF FiledFirst
  <2>2. \A m \in DOMAIN t : u[m] = t[m] /\ EventOf(u, m) = EventOf(t, m)
    BY DEF Grew, EventOf
  <2>3. u[N] = e /\ EventOf(u, N) = e.events[1] /\ DOMAIN u = DOMAIN t \cup {N}
    BY DEF Grew, EventOf
  <2>4. CASE n = N
    <3>1. EventOf(u, n).id \in DOMAIN q[u[n].wallet]
      BY <1>1, <2>3, <2>4 DEF Files
    <3>2. \A m \in DOMAIN t :
            ~(t[m].wallet = e.wallet /\ EventOf(t, m).name = "Proposed"
              /\ EventOf(t, m).id = e.events[1].id)
      BY <1>1, <2>1, <2>3, <2>4 DEF Files
    <3> QED BY <3>1, <3>2, <2>2, <2>3, <2>4 DEF Is
  <2>5. CASE n \in DOMAIN t
    <3>1. EventOf(t, n).name = "Proposed" /\ t[n].wallet \in Wallets
          /\ EventOf(t, n).id \in DOMAIN p[t[n].wallet]
      BY <1>1, <2>1, <2>2, <2>5
    <3>2. \A m \in DOMAIN t : Is(t, m, t[n].wallet, "Proposed")
            /\ EventOf(t, m).id = EventOf(t, n).id => m = n
      BY <2>5, <3>1 DEF FiledFirst
    <3>3. ~(e.wallet = t[n].wallet /\ e.events[1].name = "Proposed"
            /\ e.events[1].id = EventOf(t, n).id)
      BY <3>1 DEF Files
    <3> QED BY <3>1, <3>2, <3>3, <2>2, <2>3, <2>5 DEF Is, Files
  <2> QED BY <2>3, <2>4, <2>5
<1>2. ASSUME NEW w \in Wallets, NEW id \in DOMAIN q[w]
      PROVE  \E n \in DOMAIN u : Is(u, n, w, "Proposed") /\ EventOf(u, n).id = id
  <2>1. CASE id \in DOMAIN p[w]
    <3>1. PICK n \in DOMAIN t : Is(t, n, w, "Proposed") /\ EventOf(t, n).id = id
      BY <2>1 DEF FiledFirst
    <3> QED BY <3>1, IsStays
  <2>2. CASE e.wallet = w /\ e.events[1].name = "Proposed" /\ e.events[1].id = id
    BY <2>2 DEF Grew, Is, EventOf
  <2> QED BY <2>1, <2>2 DEF Files
<1>3. ASSUME NEW n \in DOMAIN u, Settles(u, n)
      PROVE  \E m \in DOMAIN u :
               m < n /\ Is(u, m, u[n].wallet, "Proposed") /\ EventOf(u, m).id = EventOf(u, n).id
  <2>1. CASE n = N
    <3>1. e.events[1].name \in {"Approved", "Denied"} /\ u[n].wallet = e.wallet
          /\ EventOf(u, n).id = e.events[1].id
      BY <1>3, <2>1 DEF Grew, EventOf, Settles
    <3>2. PICK m \in DOMAIN t : Is(t, m, e.wallet, "Proposed")
                                /\ EventOf(t, m).id = e.events[1].id
      BY <3>1 DEF FiledFirst, Files
    <3>3. m \in DOMAIN u /\ Is(u, m, e.wallet, "Proposed") /\ EventOf(u, m) = EventOf(t, m)
          /\ m < N
      BY <3>2, IsStays
    <3> QED BY <3>1, <3>2, <3>3, <2>1
  <2>2. CASE n \in DOMAIN t
    <3>1. u[n] = t[n] /\ EventOf(u, n) = EventOf(t, n) /\ Settles(t, n)
      BY <1>3, <2>2 DEF Grew, EventOf, Settles
    <3>2. PICK m \in DOMAIN t : m < n /\ Is(t, m, t[n].wallet, "Proposed")
                                /\ EventOf(t, m).id = EventOf(t, n).id
      BY <2>2, <3>1 DEF FiledFirst
    <3>3. m \in DOMAIN u /\ Is(u, m, t[n].wallet, "Proposed") /\ EventOf(u, m) = EventOf(t, m)
      BY <3>2, IsStays
    <3> QED BY <3>1, <3>2, <3>3
  <2> QED BY <1>3, <2>1, <2>2 DEF Grew
<1> QED BY <1>1, <1>2, <1>3 DEF FiledFirst

LEMMA SettledGrows ==
  ASSUME NEW t \in Seq(Tx), NEW u, NEW N, NEW e, Grew(t, u, N, e),
         NEW p, NEW q, FiledFirst(t, p), SettledOnce(t, p),
         Decides(e, p, q)
  PROVE  SettledOnce(u, q)
<1>1. \A n \in DOMAIN t : Settles(t, n) =>
        /\ p[t[n].wallet][EventOf(t, n).id] # "PENDING"
        /\ q[t[n].wallet][EventOf(t, n).id] # "PENDING"
  <2> SUFFICES ASSUME NEW n \in DOMAIN t, Settles(t, n)
      PROVE /\ p[t[n].wallet][EventOf(t, n).id] # "PENDING"
            /\ q[t[n].wallet][EventOf(t, n).id] # "PENDING"
    OBVIOUS
  <2>1. PICK m \in DOMAIN t : Is(t, m, t[n].wallet, "Proposed")
                              /\ EventOf(t, m).id = EventOf(t, n).id
    BY DEF FiledFirst
  <2>2. EventOf(t, n).id \in DOMAIN p[t[n].wallet]
    BY <2>1 DEF FiledFirst, Is
  <2>3. t[n].wallet \in Wallets
    BY TxIsTyped
  <2> QED BY <2>2, <2>3 DEF SettledOnce, Decides
<1>2. \A n \in DOMAIN t : u[n] = t[n] /\ EventOf(u, n) = EventOf(t, n)
                          /\ (Settles(u, n) <=> Settles(t, n))
  BY DEF Grew, EventOf, Settles
<1>3. /\ u[N] = e /\ EventOf(u, N) = e.events[1] /\ DOMAIN u = DOMAIN t \cup {N}
      /\ (Settles(u, N) <=> e.events[1].name \in {"Approved", "Denied"})
  BY DEF Grew, EventOf, Settles
<1>4. \A n \in DOMAIN u : Settles(u, n) => q[u[n].wallet][EventOf(u, n).id] # "PENDING"
  BY <1>1, <1>2, <1>3 DEF Decides
<1>5. ASSUME NEW n \in DOMAIN u, NEW m \in DOMAIN u, Settles(u, n), Settles(u, m),
             u[m].wallet = u[n].wallet, EventOf(u, m).id = EventOf(u, n).id
      PROVE  m = n
  <2>1. CASE n \in DOMAIN t /\ m \in DOMAIN t
    BY <1>2, <1>5, <2>1 DEF SettledOnce
  <2>2. CASE n = N /\ m \in DOMAIN t
    BY <1>1, <1>2, <1>3, <1>5, <2>2 DEF Decides
  <2>3. CASE m = N /\ n \in DOMAIN t
    BY <1>1, <1>2, <1>3, <1>5, <2>3 DEF Decides
  <2> QED BY <1>3, <2>1, <2>2, <2>3
<1> QED BY <1>4, <1>5 DEF SettledOnce

(***************************************************************************)
(* What the calls of the chain have in common.                             *)
(***************************************************************************)
\* The events that make the indexer read the policy at the head.
Refreshing == {"AgentHired", "PolicyUpdated", "AgentFrozen", "AgentUnfrozen"}

Legal(w, ev) ==
  /\ ev \in Seq(Event) \ {<<>>} /\ Mine(w, ev)
  /\ IF ev[1].name = "WalletCreated" THEN w \notin Deployed ELSE w \in Deployed
  /\ ev[1].name = "Proposed" => agents[w].hired
  /\ agents' \in [Wallets -> Agent]
  /\ \/ agents' = agents
     \/ /\ ev[1].name \in Refreshing
        /\ agents[w].hired \/ ev[1].name = "AgentHired"
        /\ \A v \in Wallets \ {w} : agents'[v] = agents[v]
  /\ \/ /\ ev[1].name \notin {"Proposed", "Approved", "Denied"}
        /\ UNCHANGED <<nonces, proposals>>
     \/ /\ ev[1].name = "Proposed" /\ ev[1].id[2] = nonces[w] + 1
        /\ nonces' = [nonces EXCEPT ![w] = @ + 1]
        /\ proposals' = [proposals EXCEPT ![w] = Over(@, [i \in {ev[1].id} |-> "PENDING"])]
     \/ /\ ev[1].name \in {"Approved", "Denied"} /\ nonces' = nonces
        /\ ev[1].id \in DOMAIN proposals[w] /\ proposals[w][ev[1].id] = "PENDING"
        /\ \E s \in {"APPROVED", "DENIED"} :
             proposals' = [proposals EXCEPT ![w] = [@ EXCEPT ![ev[1].id] = s]]

LEMMA EventIsTyped ==
  ASSUME NEW name \in EventName
  PROVE  <<Ev(name)>> \in Seq(Event) \ {<<>>} /\ <<Ev(name)>>[1].name = name
<1>1. NoProposal \in ProposalId
  BY LogAssumption DEF NoProposal, ProposalId
<1>2. Ev(name) \in Event /\ Ev(name).name = name
  BY <1>1 DEF Ev, Event
<1> HIDE DEF Ev
<1> QED BY <1>2

LEMMA EventsAreTyped ==
  ASSUME NEW name \in EventName, NEW id \in ProposalId
  PROVE  /\ <<EvOf(name, id)>> \in Seq(Event) \ {<<>>}
         /\ <<EvOf(name, id)>>[1].name = name /\ <<EvOf(name, id)>>[1].id = id
         /\ <<EvOf(name, id), Ev("Executed")>> \in Seq(Event) \ {<<>>}
         /\ <<EvOf(name, id), Ev("Executed")>>[1].name = name
         /\ <<EvOf(name, id), Ev("Executed")>>[1].id = id
<1>0. NoProposal \in ProposalId
  BY LogAssumption DEF NoProposal, ProposalId
<1>1. Ev(name) \in Event /\ EvOf(name, id) \in Event /\ Ev("Executed") \in Event
  BY <1>0 DEF Ev, EvOf, Event, EventName
<1>2. EvOf(name, id).name = name /\ EvOf(name, id).id = id
  BY DEF Ev, EvOf
<1> HIDE DEF Ev, EvOf
<1> QED BY <1>1, <1>2

\* A hired agent and a filed proposal belong to a wallet that exists.
LEMMA HiredIsDeployed ==
  ASSUME ChainInv, NEW w \in Wallets,
         agents[w].hired \/ DOMAIN proposals[w] # {}
  PROVE  w \in Deployed
BY DEF ChainInv, HiredFirst, FiledFirst, Is, Deployed

LEMMA ChainStepIsLegal ==
  ASSUME ChainInv, ChainStep
  PROVE  \E w \in Wallets, ev \in Seq(Event) : Legal(w, ev)
<1>1. PICK w \in Wallets :
        \/ CreateWallet(w)
        \/ \E t \in HireTerms : Hire(w, t)
        \/ \E t \in Terms : Update(w, t)
        \/ \E frozen \in BOOLEAN : SetFrozen(w, frozen)
        \/ Pay(w) \/ Block(w)
        \/ \E content \in Contents : Propose(w, content)
        \/ \E id \in DOMAIN proposals[w] : Approve(w, id) \/ Deny(w, id)
  BY DEF ChainStep
<1>a. agents \in [Wallets -> Agent] /\ agents[w] \in Agent
  BY DEF ChainInv, ChainTyped
<1>b. /\ {"WalletCreated", "AgentHired", "PolicyUpdated", "AgentFrozen", "AgentUnfrozen",
          "Executed", "ExecutionBlocked"} \subseteq EventName
      /\ "Proposed" \in EventName /\ "Approved" \in EventName /\ "Denied" \in EventName
  BY DEF EventName
<1>c. /\ nonces[w] + 1 \in Nat /\ nonces \in [Wallets -> Nat]
      /\ \A id \in DOMAIN proposals[w] : id \in ProposalId
  <2>1. \A id \in DOMAIN proposals[w] :
          \E n \in DOMAIN txs : EventOf(txs, n).id = id
    BY DEF ChainInv, FiledFirst
  <2> QED BY <2>1, TxIsTyped DEF ChainInv, ChainTyped
<1>2. CASE CreateWallet(w)
  <2>1. Legal(w, <<Ev("WalletCreated")>>)
    BY <1>2, <1>b, <1>a, EventIsTyped DEF CreateWallet, Legal
  <2> QED BY <2>1 DEF Legal
<1>3. CASE \E t \in HireTerms : Hire(w, t)
  <2>1. PICK t \in Terms : Hire(w, t)
    BY <1>3, LogAssumption
  <2>2. [hired |-> TRUE, frozen |-> FALSE, terms |-> t] \in Agent
    BY DEF Agent
  <2>3. agents' \in [Wallets -> Agent] /\ \A v \in Wallets \ {w} : agents'[v] = agents[v]
    BY <2>1, <2>2, <1>a DEF Hire
  <2>4. Mine(w, <<Ev("AgentHired")>>) /\ w \in Deployed /\ UNCHANGED <<nonces, proposals>>
    BY <2>1 DEF Hire
  <2>5. Legal(w, <<Ev("AgentHired")>>)
    BY <2>3, <2>4, <1>b, EventIsTyped DEF Legal, Refreshing
  <2> QED BY <2>5 DEF Legal
<1>4. CASE \E t \in Terms : Update(w, t)
  <2>1. PICK t \in Terms : Update(w, t)
    BY <1>4
  <2>2. [agents[w] EXCEPT !.terms = t] \in Agent
    BY <1>a DEF Agent
  <2>3. agents' \in [Wallets -> Agent] /\ \A v \in Wallets \ {w} : agents'[v] = agents[v]
    BY <2>1, <2>2, <1>a DEF Update
  <2>4. Mine(w, <<Ev("PolicyUpdated")>>) /\ agents[w].hired /\ UNCHANGED <<nonces, proposals>>
    BY <2>1 DEF Update
  <2>5. w \in Deployed
    BY <2>4, HiredIsDeployed
  <2>6. Legal(w, <<Ev("PolicyUpdated")>>)
    BY <2>3, <2>4, <2>5, <1>b, EventIsTyped DEF Legal, Refreshing
  <2> QED BY <2>6 DEF Legal
<1>5. CASE \E frozen \in BOOLEAN : SetFrozen(w, frozen)
  <2>1. PICK frozen \in BOOLEAN : SetFrozen(w, frozen)
    BY <1>5
  <2>2. [agents[w] EXCEPT !.frozen = frozen] \in Agent
    BY <1>a DEF Agent
  <2>3. agents' \in [Wallets -> Agent] /\ \A v \in Wallets \ {w} : agents'[v] = agents[v]
    BY <2>1, <2>2, <1>a DEF SetFrozen
  <2>4. PICK name \in {"AgentFrozen", "AgentUnfrozen"} : Mine(w, <<Ev(name)>>)
    BY <2>1 DEF SetFrozen
  <2>5. agents[w].hired /\ UNCHANGED <<nonces, proposals>>
    BY <2>1 DEF SetFrozen
  <2>6. w \in Deployed
    BY <2>5, HiredIsDeployed
  <2>7. name \in EventName /\ name \in Refreshing /\ name # "WalletCreated"
        /\ name \notin {"Proposed", "Approved", "Denied"}
    BY <2>4, <1>b DEF Refreshing
  <2>8. <<Ev(name)>> \in Seq(Event) \ {<<>>} /\ <<Ev(name)>>[1].name = name
    BY <2>7, EventIsTyped
  <2>9. Legal(w, <<Ev(name)>>)
    BY <2>3, <2>4, <2>5, <2>6, <2>7, <2>8 DEF Legal
  <2> QED BY <2>8, <2>9
<1>6. CASE Pay(w)
  <2>1. w \in Deployed
    BY <1>6, HiredIsDeployed DEF Pay
  <2>2. Legal(w, <<Ev("Executed")>>)
    BY <1>6, <2>1, <1>b, <1>a, EventIsTyped, ZenonT(30) DEF Pay, Legal
  <2> QED BY <2>2 DEF Legal
<1>7. CASE Block(w)
  <2>1. w \in Deployed
    BY <1>7, HiredIsDeployed DEF Block
  <2>2. Mine(w, <<Ev("ExecutionBlocked")>>) /\ UNCHANGED <<agents, nonces, proposals>>
    BY <1>7 DEF Block
  <2>3. Legal(w, <<Ev("ExecutionBlocked")>>)
    BY <2>1, <2>2, <1>b, <1>a, EventIsTyped DEF Legal
  <2> QED BY <2>3 DEF Legal
<1>8. CASE \E content \in Contents : Propose(w, content)
  <2>1. PICK content \in Contents : Propose(w, content)
    BY <1>8
  <2> DEFINE id == <<content, nonces[w] + 1>>
             ev == <<EvOf("Proposed", id)>>
  <2>2. w \in Deployed /\ agents[w].hired
    BY <2>1, HiredIsDeployed DEF Propose
  <2>3. nonces' = [nonces EXCEPT ![w] = @ + 1] /\ nonces'[w] = nonces[w] + 1 /\ agents' = agents
    BY <2>1, <1>c DEF Propose
  <2>4. /\ Mine(w, ev)
        /\ proposals' = [proposals EXCEPT ![w] = Over(@, [i \in {id} |-> "PENDING"])]
    BY <2>1, <2>3 DEF Propose
  <2>5. id \in ProposalId /\ id[2] = nonces[w] + 1
    BY <1>c DEF ProposalId
  <2> HIDE DEF id
  <2>6. ev \in Seq(Event) \ {<<>>} /\ ev[1].name = "Proposed" /\ ev[1].id = id
    BY <2>5, <1>b, EventsAreTyped
  <2> HIDE DEF ev
  <2>7. Legal(w, ev)
    BY <2>2, <2>3, <2>4, <2>5, <2>6, <1>a DEF Legal
  <2> QED BY <2>6, <2>7
<1>9. CASE \E id \in DOMAIN proposals[w] : Approve(w, id) \/ Deny(w, id)
  <2>1. PICK id \in DOMAIN proposals[w] : Approve(w, id) \/ Deny(w, id)
    BY <1>9
  <2>2. id \in ProposalId /\ id \in DOMAIN proposals[w]
    BY <1>c, <2>1
  <2>3. w \in Deployed
    BY <2>2, HiredIsDeployed
  <2>4. CASE Approve(w, id)
    <3>1. proposals' = [proposals EXCEPT ![w] = [@ EXCEPT ![id] = "APPROVED"]]
          /\ UNCHANGED <<agents, nonces>> /\ proposals[w][id] = "PENDING"
          /\ Mine(w, <<EvOf("Approved", id), Ev("Executed")>>)
      BY <2>4 DEF Approve
    <3> DEFINE ev == <<EvOf("Approved", id), Ev("Executed")>>
    <3>2. ev \in Seq(Event) \ {<<>>} /\ ev[1].name = "Approved" /\ ev[1].id = id
      BY <2>2, <1>b, EventsAreTyped
    <3> HIDE DEF ev
    <3>3. Mine(w, ev)
      BY <3>1 DEF ev
    <3>4. Legal(w, ev)
      BY <2>2, <2>3, <3>1, <3>2, <3>3, <1>a DEF Legal
    <3> QED BY <3>2, <3>4
  <2>5. CASE Deny(w, id)
    <3>1. proposals' = [proposals EXCEPT ![w] = [@ EXCEPT ![id] = "DENIED"]]
          /\ UNCHANGED <<agents, nonces>> /\ proposals[w][id] = "PENDING"
          /\ Mine(w, <<EvOf("Denied", id)>>)
      BY <2>5 DEF Deny
    <3> DEFINE ev == <<EvOf("Denied", id)>>
    <3>2. ev \in Seq(Event) \ {<<>>} /\ ev[1].name = "Denied" /\ ev[1].id = id
      BY <2>2, <1>b, EventsAreTyped
    <3> HIDE DEF ev
    <3>3. Mine(w, ev)
      BY <3>1 DEF ev
    <3>4. Legal(w, ev)
      BY <2>2, <2>3, <3>1, <3>2, <3>3, <1>a DEF Legal
    <3> QED BY <3>2, <3>4
  <2> QED BY <2>1, <2>4, <2>5
<1> QED BY <1>1, <1>2, <1>3, <1>4, <1>5, <1>6, <1>7, <1>8, <1>9

LEMMA LegalKeepsChain ==
  ASSUME ChainInv, NEW w \in Wallets, NEW ev \in Seq(Event), Legal(w, ev)
  PROVE  ChainInv'
<1> DEFINE e == [wallet |-> w, block |-> head', events |-> ev]
           N == Len(txs) + 1
<1>a. Mine(w, ev) /\ ev \in Seq(Event) \ {<<>>} /\ ChainTyped
  BY DEF Legal, ChainInv
<1>b. /\ Grew(txs, txs', N, e) /\ txs' \in Seq(Tx)
      /\ head \in Nat /\ head' \in Nat /\ head <= head' /\ observed' = FALSE
  BY <1>a, MineGrows DEF ChainTyped
<1>c. e.wallet = w /\ e.block = head' /\ e.events[1] = ev[1] /\ txs \in Seq(Tx)
  BY <1>a DEF ChainTyped
<1>d. ev[1] \in Event
  BY <1>a
<1> HIDE DEF e, N
<1>1. InBlockOrder(txs', head')
  BY <1>b, <1>c, OrderGrows DEF ChainInv
<1>2. CreatedFirst(txs')
  <2>1. IF e.events[1].name = "WalletCreated"
        THEN e.wallet # DevWallet /\ \A m \in DOMAIN txs : txs[m].wallet # e.wallet
        ELSE e.wallet = DevWallet \/ \E m \in DOMAIN txs : Is(txs, m, e.wallet, "WalletCreated")
    <3>1. CASE ev[1].name = "WalletCreated"
      BY <1>c, <3>1 DEF Legal, Deployed
    <3>2. CASE ev[1].name # "WalletCreated"
      BY <1>c, <3>2, DeployedIsCreated DEF Legal, ChainInv
    <3> QED BY <3>1, <3>2
  <2> QED BY <1>b, <2>1, CreatedGrows DEF ChainInv
<1>3. agents' \in [Wallets -> Agent]
  BY DEF Legal
<1>4. HiredFirst(txs', agents')
  <2>1. \A v \in Wallets : agents'[v].hired =>
          agents[v].hired \/ (e.wallet = v /\ e.events[1].name = "AgentHired")
    BY <1>a, <1>c DEF Legal, ChainTyped
  <2>2. e.events[1].name = "Proposed" => e.wallet \in Wallets /\ agents[e.wallet].hired
    BY <1>c DEF Legal
  <2> QED BY <1>b, <2>1, <2>2, HiredGrows DEF ChainInv
<1>5. /\ nonces' \in [Wallets -> Nat] /\ DOMAIN proposals' = Wallets
      /\ NoncesCount(proposals', nonces')
      /\ Files(e, proposals, proposals') /\ Decides(e, proposals, proposals')
  <2>0. /\ DOMAIN proposals = Wallets /\ nonces \in [Wallets -> Nat]
        /\ NoncesCount(proposals, nonces)
    BY <1>a DEF ChainTyped, ChainInv
  <2>n. \A v \in Wallets : \A id \in DOMAIN proposals[v] : id[2] \in Nat
    <3>1. \A v \in Wallets : \A id \in DOMAIN proposals[v] :
            \E n \in DOMAIN txs : EventOf(txs, n).id = id
      BY DEF ChainInv, FiledFirst
    <3> QED BY <3>1, <1>c, TxIsTyped DEF ProposalId
  <2>1. CASE ev[1].name \notin {"Proposed", "Approved", "Denied"} /\ UNCHANGED <<nonces, proposals>>
    BY <2>0, <2>1, <1>c DEF Files, Decides
  <2>2. CASE /\ ev[1].name = "Proposed" /\ ev[1].id[2] = nonces[w] + 1
             /\ nonces' = [nonces EXCEPT ![w] = @ + 1]
             /\ proposals' = [proposals EXCEPT ![w] = Over(@, [i \in {ev[1].id} |-> "PENDING"])]
    <3> DEFINE g == [i \in {ev[1].id} |-> "PENDING"]
               q == Over(proposals[w], g)
    <3>1. DOMAIN g = {ev[1].id}
      OBVIOUS
    <3>2. ev[1].id \notin DOMAIN proposals[w]
      BY <2>0, <2>2 DEF NoncesCount
    <3>3. proposals' = [proposals EXCEPT ![w] = q]
      BY <2>2
    <3> HIDE DEF g
    <3>4. /\ DOMAIN q = DOMAIN proposals[w] \cup {ev[1].id}
          /\ \A id \in DOMAIN proposals[w] : q[id] = proposals[w][id]
      BY <3>1, <3>2 DEF Over
    <3> HIDE DEF q
    <3>5. /\ DOMAIN proposals' = Wallets /\ proposals'[w] = q
          /\ \A v \in Wallets : v # w => proposals'[v] = proposals[v]
      BY <2>0, <3>3
    <3>6. /\ nonces' \in [Wallets -> Nat] /\ nonces'[w] = nonces[w] + 1
          /\ \A v \in Wallets : v # w => nonces'[v] = nonces[v]
      BY <2>0, <2>2
    <3>7. NoncesCount(proposals', nonces')
      <4> SUFFICES ASSUME NEW v \in Wallets, NEW id \in DOMAIN proposals'[v]
          PROVE id[2] <= nonces'[v]
        BY DEF NoncesCount
      <4>1. CASE v # w
        BY <2>0, <3>5, <3>6, <4>1 DEF NoncesCount
      <4>2. CASE v = w /\ id = ev[1].id
        BY <2>0, <2>2, <3>6, <4>2
      <4>3. CASE v = w /\ id \in DOMAIN proposals[w]
        <5>1. id[2] <= nonces[w] /\ nonces[w] \in Nat /\ nonces'[v] = nonces[w] + 1
          BY <2>0, <3>6, <4>3 DEF NoncesCount
        <5>2. id[2] \in Nat
          BY <2>n, <4>3
        <5> QED BY <5>1, <5>2
      <4> QED BY <3>4, <3>5, <4>1, <4>2, <4>3
    <3>8. Files(e, proposals, proposals')
      BY <2>2, <3>2, <3>4, <3>5, <1>c DEF Files
    <3>9. Decides(e, proposals, proposals')
      BY <2>2, <3>4, <3>5, <1>c DEF Decides
    <3> QED BY <3>5, <3>6, <3>7, <3>8, <3>9
  <2>3. CASE /\ ev[1].name \in {"Approved", "Denied"} /\ nonces' = nonces
             /\ ev[1].id \in DOMAIN proposals[w] /\ proposals[w][ev[1].id] = "PENDING"
             /\ \E s \in {"APPROVED", "DENIED"} :
                  proposals' = [proposals EXCEPT ![w] = [@ EXCEPT ![ev[1].id] = s]]
    <3>1. PICK s \in {"APPROVED", "DENIED"} :
            proposals' = [proposals EXCEPT ![w] = [proposals[w] EXCEPT ![ev[1].id] = s]]
      BY <2>3
    <3> DEFINE q == [proposals[w] EXCEPT ![ev[1].id] = s]
    <3>4. DOMAIN q = DOMAIN proposals[w] /\ q[ev[1].id] # "PENDING"
          /\ \A id \in DOMAIN proposals[w] : q[id] = proposals[w][id] \/ q[id] # "PENDING"
      BY <2>3
    <3>5. proposals' = [proposals EXCEPT ![w] = q]
      BY <3>1
    <3> HIDE DEF q
    <3>6. \A v \in Wallets : DOMAIN proposals'[v] = DOMAIN proposals[v]
      BY <2>0, <3>4, <3>5
    <3>7. NoncesCount(proposals', nonces') /\ nonces' \in [Wallets -> Nat]
      BY <2>0, <2>3, <3>6 DEF NoncesCount
    <3> QED BY <2>0, <2>3, <3>4, <3>5, <3>7, <1>c DEF Files, Decides
  <2> QED BY <2>1, <2>2, <2>3 DEF Legal
<1>6. FiledFirst(txs', proposals')
  BY <1>b, <1>c, <1>5, FiledGrows DEF ChainInv
<1>7. SettledOnce(txs', proposals')
  BY <1>b, <1>c, <1>5, SettledGrows DEF ChainInv
<1> QED BY <1>1, <1>2, <1>3, <1>4, <1>5, <1>6, <1>7, <1>b DEF ChainInv, ChainTyped

-----------------------------------------------------------------------------
(***************************************************************************)
(* The database and who works on it.                                       *)
(***************************************************************************)
\* The logs of wallet w in the blocks up to b.
Logs(t, w, b) ==
  {n \in DOMAIN t : /\ t[n].wallet = w
                    /\ t[n].block >= 1 /\ t[n].block <= b
                    /\ EventOf(t, n).name # "WalletCreated"}

IsFunction(f) == f = [x \in DOMAIN f |-> f[x]]

SyncTyped ==
  /\ sync = [wallet |-> sync.wallet, to |-> sync.to, todo |-> sync.todo,
             feed |-> sync.feed, mirror |-> sync.mirror, approvals |-> sync.approvals]
  /\ sync.wallet \in DOMAIN cursor /\ Closed(sync.to, head, observed)
  /\ sync.todo \subseteq Logs(txs, sync.wallet, sync.to)
  /\ sync.mirror.row \in BOOLEAN /\ IsFunction(sync.approvals)

DbTyped ==
  /\ DOMAIN cursor \subseteq Wallets
  /\ \A w \in DOMAIN cursor : Closed(cursor[w], head, observed)
  /\ DOMAIN mirror = Wallets /\ IsFunction(approvals) /\ DOMAIN feed = Wallets
  /\ tick = [phase |-> tick.phase, todo |-> tick.todo] /\ tick.todo \subseteq DOMAIN cursor
  /\ sync # NoSync => SyncTyped
  /\ reset # NoReset =>
       /\ reset.phase \in {"read", "feed", "approvals"}
       /\ reset.wallet \in DOMAIN cursor \cap Showcase /\ Closed(reset.block, head, observed)

(***************************************************************************)
(* What every handler does: it writes some rows, perhaps reads the mirror, *)
(* and files or settles a proposal.                                        *)
(***************************************************************************)
Handled(n, rows, mirrorRow, decided) ==
  /\ sync # NoSync /\ IsNext(n) /\ Write(n, rows, mirrorRow, decided)
  /\ \/ /\ NameOf(n) \in Refreshing
        /\ rows = {Row(n, 1, NameOf(n))} /\ mirrorRow = ReadMirror /\ decided = Empty
     \/ /\ NameOf(n) \in {"Executed", "ExecutionBlocked"}
        /\ rows = {Row(n, 1, NameOf(n))} /\ mirrorRow = NoRow /\ decided = Empty
     \/ /\ NameOf(n) = "Proposed" /\ SeenMirror.row
        /\ rows = {Row(n, 1, NameOf(n))} /\ mirrorRow = NoRow
        /\ decided = FiledRow(IdOf(n))
     \/ /\ NameOf(n) = "Proposed" /\ ~SeenMirror.row
        /\ rows = {} /\ mirrorRow = NoRow /\ decided = Empty
     \/ /\ NameOf(n) = "Approved" /\ IdOf(n) \in DOMAIN SeenApprovals
        /\ rows = {Row(n, 1, NameOf(n))} /\ mirrorRow = ReadMirror
        /\ decided = DecidedRow(IdOf(n), "APPROVED")
     \/ /\ NameOf(n) = "Approved" /\ IdOf(n) \notin DOMAIN SeenApprovals
        /\ rows = {Row(n, 2, "Executed")} /\ mirrorRow = NoRow /\ decided = Empty
     \/ /\ NameOf(n) = "Denied" /\ IdOf(n) \in DOMAIN SeenApprovals
        /\ rows = {Row(n, 1, NameOf(n))} /\ mirrorRow = NoRow
        /\ decided = DecidedRow(IdOf(n), "DENIED")
     \/ /\ NameOf(n) = "Denied" /\ IdOf(n) \notin DOMAIN SeenApprovals
        /\ rows = {} /\ mirrorRow = NoRow /\ decided = Empty

LEMMA HandleIsHandled ==
  ASSUME Handle
  PROVE  \E n, rows, mirrorRow, decided : Handled(n, rows, mirrorRow, decided)
<1>1. PICK n \in 1..MaxTxs :
        \/ HandleAgentHired(n) \/ HandlePolicyUpdated(n) \/ HandleAgentFrozen(n)
        \/ HandleExecuted(n) \/ HandleExecutionBlocked(n)
        \/ HandleProposed(n) \/ HandleApproved(n) \/ HandleDenied(n)
  BY DEF Handle
<1>2. CASE HandleAgentHired(n)
  <2>1. Handled(n, {Row(n, 1, "AgentHired")}, ReadMirror, Empty)
    BY <1>2 DEF HandleAgentHired, At, Handled, NameOf, Refreshing
  <2> QED BY <2>1
<1>3. CASE HandlePolicyUpdated(n)
  <2>1. Handled(n, {Row(n, 1, "PolicyUpdated")}, ReadMirror, Empty)
    BY <1>3 DEF HandlePolicyUpdated, At, Handled, NameOf, Refreshing
  <2> QED BY <2>1
<1>4. CASE HandleAgentFrozen(n)
  <2>1. \/ Handled(n, {Row(n, 1, "AgentFrozen")}, ReadMirror, Empty)
        \/ Handled(n, {Row(n, 1, "AgentUnfrozen")}, ReadMirror, Empty)
    BY <1>4 DEF HandleAgentFrozen, At, Handled, NameOf, Refreshing
  <2> QED BY <2>1
<1>5. CASE HandleExecuted(n)
  <2>1. Handled(n, {Row(n, 1, "Executed")}, NoRow, Empty)
    BY <1>5 DEF HandleExecuted, At, Handled, NameOf
  <2> QED BY <2>1
<1>6. CASE HandleExecutionBlocked(n)
  <2>1. Handled(n, {Row(n, 1, "ExecutionBlocked")}, NoRow, Empty)
    BY <1>6 DEF HandleExecutionBlocked, At, Handled, NameOf
  <2> QED BY <2>1
<1>7. CASE HandleProposed(n)
  BY <1>7 DEF HandleProposed, At, Handled, NameOf, IdOf
<1>8. CASE HandleApproved(n)
  BY <1>8 DEF HandleApproved, At, Handled, NameOf, IdOf
<1>9. CASE HandleDenied(n)
  BY <1>9 DEF HandleDenied, At, Handled, NameOf, IdOf
<1> QED BY <1>1, <1>2, <1>3, <1>4, <1>5, <1>6, <1>7, <1>8, <1>9

\* What a handler leaves of the sync.
LEMMA HandledFields ==
  ASSUME SyncTyped, NEW n, NEW rows, NEW mirrorRow, NEW decided,
         Handled(n, rows, mirrorRow, decided)
  PROVE  /\ mirrorRow.row \in BOOLEAN
         /\ sync' = [wallet |-> sync.wallet, to |-> sync.to, todo |-> sync.todo \ {n},
                     feed |-> sync.feed \cup rows,
                     mirror |-> IF mirrorRow.row THEN mirrorRow ELSE sync.mirror,
                     approvals |-> Over(sync.approvals, decided)]
         /\ sync' # NoSync
<1>1. mirrorRow \in {ReadMirror, NoRow}
  BY DEF Handled
<1>0. ReadMirror.row = TRUE /\ NoRow.row = FALSE
  BY DEF ReadMirror, NoRow
<1>2. mirrorRow.row \in BOOLEAN
  BY <1>0, <1>1
<1>3. sync' = [sync EXCEPT !.todo = @ \ {n}, !.feed = @ \cup rows,
                           !.mirror = IF mirrorRow.row THEN mirrorRow ELSE @,
                           !.approvals = Over(@, decided)]
  BY DEF Handled, Write
<1>4. sync' = [wallet |-> sync.wallet, to |-> sync.to, todo |-> sync.todo \ {n},
               feed |-> sync.feed \cup rows,
               mirror |-> IF mirrorRow.row THEN mirrorRow ELSE sync.mirror,
               approvals |-> Over(sync.approvals, decided)]
  BY <1>3 DEF SyncTyped
<1>5. sync'.to = sync.to /\ DOMAIN sync' # {"wallet"}
  BY <1>4
<1> QED BY <1>2, <1>4, <1>5 DEF NoSync

\* A block that can take no more transactions stays so, and the logs up to it.
LEMMA ClosedStays ==
  ASSUME ChainInv, [Next]_vars
  PROVE  \A b : Closed(b, head, observed) => Closed(b, head', observed')
<1>1. CASE Chain
  <2>1. PICK w \in Wallets, ev \in Seq(Event) : Legal(w, ev)
    BY <1>1, ChainStepIsLegal DEF Chain
  <2> QED BY <2>1, MineGrows DEF Legal, ChainInv
<1>2. CASE ~Chain /\ [Next]_vars
  <2>1. head' = head /\ (observed => observed')
    <3>1. CASE Handle
      <4>1. PICK n, rows, mirrorRow, decided : Handled(n, rows, mirrorRow, decided)
        BY <3>1, HandleIsHandled
      <4>2. head' = head /\ observed' = (observed \/ mirrorRow.row)
        BY <4>1 DEF Handled, Write
      <4> QED BY <4>2, Zenon
    <3>2. CASE StartTick \/ SyncFactory \/ EndTick \/ (\E w \in Wallets : SkipWallet(w))
      BY <3>2 DEF StartTick, SyncFactory, EndTick, SkipWallet, chainVars
    <3>3. CASE (\E w \in Wallets : BeginSync(w)) \/ CommitSync \/ SyncFails \/ TickFails \/ Crash
      BY <3>3 DEF BeginSync, CommitSync, SyncFails, TickFails, Crash, chainVars
    <3>4. CASE (\E w \in Showcase : ResetRead(w)) \/ ResetStep \/ ResetFails
      BY <3>4 DEF ResetRead, ResetStep, ResetDeleteFeed, ResetDeleteApprovals, ResetCommit,
                      ResetFails, chainVars
    <3>5. CASE UNCHANGED vars
      BY <3>5 DEF vars, chainVars
    <3> QED BY <1>2, <3>1, <3>2, <3>3, <3>4, <3>5 DEF Next, TickStep
  <2> QED BY <2>1 DEF Closed, ChainInv, ChainTyped
<1> QED BY <1>1, <1>2

LEMMA ChainGrows ==
  ASSUME ChainInv, Chain
  PROVE  \E N, e :
           /\ Grew(txs, txs', N, e)
           /\ \A b : Closed(b, head, observed) => b < e.block
           /\ \A w \in Wallets :
                agents'[w] = agents[w] \/ (e.wallet = w /\ e.events[1].name \in Refreshing)
           /\ e.block \in Nat
<1>1. PICK w \in Wallets, ev \in Seq(Event) : Legal(w, ev)
  BY ChainStepIsLegal DEF Chain
<1> DEFINE e == [wallet |-> w, block |-> head', events |-> ev]
<1>2. /\ Grew(txs, txs', Len(txs) + 1, e)
      /\ \A b : Closed(b, head, observed) => b < head'
      /\ head' \in Nat
  BY <1>1, MineGrows DEF Legal, ChainInv
<1>3. \A v \in Wallets :
        agents'[v] = agents[v] \/ (w = v /\ ev[1].name \in Refreshing)
  BY <1>1 DEF Legal
<1>4. e.wallet = w /\ e.block = head' /\ e.events = ev
  OBVIOUS
<1> HIDE DEF e
<1> QED BY <1>2, <1>3, <1>4

LEMMA LogsStay ==
  ASSUME NEW t \in Seq(Tx), NEW u, NEW N, NEW e, Grew(t, u, N, e),
         NEW b, b \in Int, e.block \in Nat, b < e.block
  PROVE  \A w : Logs(u, w, b) = Logs(t, w, b)
<1> SUFFICES ASSUME NEW w
    PROVE Logs(u, w, b) = Logs(t, w, b)
  OBVIOUS
<1>1. \A n \in DOMAIN t : u[n] = t[n] /\ EventOf(u, n) = EventOf(t, n)
  BY DEF Grew, EventOf
<1>2. u[N] = e /\ DOMAIN u = DOMAIN t \cup {N} /\ ~(e.block <= b)
  BY DEF Grew
<1> QED BY <1>1, <1>2 DEF Logs

-----------------------------------------------------------------------------
LEMMA CursorOver ==
  ASSUME NEW f, NEW g
  PROVE  /\ DOMAIN Over(f, g) = DOMAIN f \cup DOMAIN g
         /\ \A x \in DOMAIN g : Over(f, g)[x] = g[x]
         /\ \A x \in DOMAIN f \ DOMAIN g : Over(f, g)[x] = f[x]
BY DEF Over

\* The cursors of the wallets that a run over the factory's log adds: one
\* block before the creation.
LEMMA NewCursors ==
  ASSUME ChainInv, DbTyped, SyncFactory
  PROVE  /\ DOMAIN cursor \subseteq DOMAIN cursor' /\ DOMAIN cursor' \subseteq Wallets
         /\ \A w \in DOMAIN cursor : cursor'[w] = cursor[w]
         /\ \A w \in DOMAIN cursor' \ DOMAIN cursor :
              \E n \in DOMAIN txs : /\ Is(txs, n, w, "WalletCreated")
                                   /\ cursor'[w] = txs[n].block - 1
<1>1. CASE factoryCursor = NoCursor
  BY <1>1 DEF SyncFactory, DbTyped
<1>2. CASE factoryCursor # NoCursor
  <2> DEFINE found == CreationsIn(factoryCursor + 1, head)
             new == {txs[n].wallet : n \in found} \ DOMAIN cursor
             block(w) == txs[CHOOSE n \in found : txs[n].wallet = w].block
             fresh == [w \in new |-> CursorBefore(block(w))]
  <2>1. cursor' = Over(cursor, fresh)
    BY <1>2 DEF SyncFactory
  <2>2. \A n \in found : n \in DOMAIN txs /\ Is(txs, n, txs[n].wallet, "WalletCreated")
                        /\ txs[n].wallet \in Wallets
    BY TxIsTyped DEF CreationsIn, Is, EventOf, ChainInv, ChainTyped
  <2>3. ASSUME NEW w \in new
        PROVE  \E n \in DOMAIN txs : Is(txs, n, w, "WalletCreated") /\ fresh[w] = txs[n].block - 1
    <3>1. PICK m \in found : txs[m].wallet = w
      OBVIOUS
    <3> DEFINE n == CHOOSE n \in found : txs[n].wallet = w
    <3>2. n \in found /\ txs[n].wallet = w
      BY <3>1
    <3>3. fresh[w] = txs[n].block - 1
      BY DEF CursorBefore
    <3> QED BY <3>2, <3>3, <2>2
  <2>4. DOMAIN fresh = new /\ new \subseteq Wallets /\ new \cap DOMAIN cursor = {}
    BY <2>2
  <2> HIDE DEF fresh, new, found, block
  <2>5. /\ DOMAIN cursor' = DOMAIN cursor \cup new
        /\ \A w \in DOMAIN cursor : cursor'[w] = cursor[w]
        /\ \A w \in new : cursor'[w] = fresh[w]
    <3>1. /\ DOMAIN Over(cursor, fresh) = DOMAIN cursor \cup DOMAIN fresh
          /\ \A x \in DOMAIN fresh : Over(cursor, fresh)[x] = fresh[x]
          /\ \A x \in DOMAIN cursor \ DOMAIN fresh : Over(cursor, fresh)[x] = cursor[x]
      BY CursorOver
    <3>2. \A w \in DOMAIN cursor : w \notin DOMAIN fresh
      BY <2>4
    <3> QED BY <2>1, <2>4, <3>1, <3>2
  <2>6. DOMAIN cursor \subseteq Wallets
    BY DEF DbTyped
  <2>7. ASSUME NEW w \in DOMAIN cursor' \ DOMAIN cursor
        PROVE  \E n \in DOMAIN txs : Is(txs, n, w, "WalletCreated") /\ cursor'[w] = txs[n].block - 1
    <3>1. w \in new
      BY <2>5
    <3>2. PICK n \in DOMAIN txs : Is(txs, n, w, "WalletCreated") /\ fresh[w] = txs[n].block - 1
      BY <3>1, <2>3
    <3> QED BY <3>1, <3>2, <2>5
  <2> QED BY <2>4, <2>5, <2>6, <2>7
<1> QED BY <1>1, <1>2

LEMMA StartCursors ==
  ASSUME DbTyped, StartTick
  PROVE  /\ DOMAIN cursor' = DOMAIN cursor \cup {DevWallet}
         /\ \A w \in DOMAIN cursor : cursor'[w] = cursor[w]
         /\ DevWallet \notin DOMAIN cursor => cursor'[DevWallet] = 0
<1>1. CASE DevWallet \in DOMAIN cursor
  BY <1>1 DEF StartTick
<1>2. CASE DevWallet \notin DOMAIN cursor
  <2> DEFINE g == [w \in {DevWallet} |-> 0]
  <2>1. cursor' = Over(cursor, g)
    BY <1>2 DEF StartTick
  <2>2. DOMAIN g = {DevWallet} /\ g[DevWallet] = 0
    OBVIOUS
  <2> HIDE DEF g
  <2>3. /\ DOMAIN Over(cursor, g) = DOMAIN cursor \cup DOMAIN g
        /\ \A x \in DOMAIN g : Over(cursor, g)[x] = g[x]
        /\ \A x \in DOMAIN cursor \ DOMAIN g : Over(cursor, g)[x] = cursor[x]
    BY CursorOver
  <2>4. \A w \in DOMAIN cursor : w \notin DOMAIN g
    BY <1>2, <2>2
  <2> QED BY <1>2, <2>1, <2>2, <2>3, <2>4
<1> QED BY <1>1, <1>2

LEMMA DbIsTyped ==
  ASSUME ChainInv, DbTyped, [Next]_vars
  PROVE  DbTyped'
<1>a. \A b : Closed(b, head, observed) => Closed(b, head', observed')
  BY ClosedStays
<1>b. /\ DOMAIN cursor \subseteq Wallets /\ \A w \in DOMAIN cursor : Closed(cursor[w], head, observed)
      /\ DOMAIN mirror = Wallets /\ IsFunction(approvals) /\ DOMAIN feed = Wallets
      /\ tick = [phase |-> tick.phase, todo |-> tick.todo] /\ tick.todo \subseteq DOMAIN cursor
  BY DEF DbTyped
<1>c. ASSUME UNCHANGED <<txs, sync>>, DOMAIN cursor \subseteq DOMAIN cursor', sync' # NoSync
      PROVE  SyncTyped'
  BY <1>a, <1>c DEF DbTyped, SyncTyped
<1>d. ASSUME UNCHANGED reset, DOMAIN cursor \subseteq DOMAIN cursor', reset' # NoReset
      PROVE  /\ reset'.phase \in {"read", "feed", "approvals"}
             /\ reset'.wallet \in DOMAIN cursor' \cap Showcase
             /\ Closed(reset'.block, head', observed')
  BY <1>a, <1>d DEF DbTyped
<1>e. Idle = [phase |-> Idle.phase, todo |-> Idle.todo] /\ Idle.todo = {}
  BY DEF Idle
<1>1. CASE Chain
  <2>1. PICK N, e : /\ Grew(txs, txs', N, e)
                    /\ \A b : Closed(b, head, observed) => b < e.block
                    /\ e.block \in Nat
    BY <1>1, ChainGrows
  <2>2. UNCHANGED <<cursor, mirror, approvals, feed, tick, sync, reset>>
    BY <1>1 DEF Chain, dbVars, indexerVars, resetVars
  <2>3. ASSUME sync # NoSync
        PROVE  Logs(txs', sync.wallet, sync.to) = Logs(txs, sync.wallet, sync.to)
    BY <2>1, <2>3, LogsStay DEF DbTyped, SyncTyped, Closed, ChainInv, ChainTyped
  <2>4. sync' # NoSync => SyncTyped'
    BY <1>a, <2>2, <2>3 DEF DbTyped, SyncTyped
  <2> QED BY <1>a, <1>b, <1>d, <2>2, <2>4 DEF DbTyped
<1>2. CASE StartTick
  <2>1. UNCHANGED <<txs, head, observed, mirror, approvals, feed, sync, reset>>
        /\ tick' = [phase |-> "factory", todo |-> {}]
    BY <1>2 DEF StartTick, chainVars, resetVars
  <2>2. Closed(0, head, observed)
    BY DEF Closed, ChainInv, ChainTyped
  <2>3. /\ DOMAIN cursor' = DOMAIN cursor \cup {DevWallet}
        /\ \A w \in DOMAIN cursor : cursor'[w] = cursor[w]
        /\ DevWallet \notin DOMAIN cursor => cursor'[DevWallet] = 0
    BY <1>2, StartCursors
  <2>4. DOMAIN cursor' \subseteq Wallets /\ DOMAIN cursor \subseteq DOMAIN cursor'
    BY <1>b, <2>3, LogAssumption
  <2>5. \A w \in DOMAIN cursor' : Closed(cursor'[w], head', observed')
    BY <1>a, <1>b, <2>2, <2>3
  <2>6. tick' = [phase |-> tick'.phase, todo |-> tick'.todo] /\ tick'.todo = {}
    BY <2>1
  <2> QED BY <1>b, <1>c, <1>d, <2>1, <2>4, <2>5, <2>6 DEF DbTyped
<1>3. CASE SyncFactory
  <2>1. /\ UNCHANGED <<txs, head, mirror, approvals, feed, sync, reset>>
        /\ tick' = [phase |-> "wallets", todo |-> DOMAIN cursor']
    BY <1>3 DEF SyncFactory, resetVars
  <2>2. /\ DOMAIN cursor \subseteq DOMAIN cursor' /\ DOMAIN cursor' \subseteq Wallets
        /\ \A w \in DOMAIN cursor : cursor'[w] = cursor[w]
        /\ \A w \in DOMAIN cursor' \ DOMAIN cursor :
             \E n \in DOMAIN txs : /\ Is(txs, n, w, "WalletCreated")
                                  /\ cursor'[w] = txs[n].block - 1
    BY <1>3, NewCursors
  <2>3. \A n \in DOMAIN txs : Closed(txs[n].block - 1, head, observed)
    BY TxIsTyped DEF Closed, ChainInv, ChainTyped, InBlockOrder
  <2>4. \A w \in DOMAIN cursor' : Closed(cursor'[w], head', observed')
    <3> SUFFICES ASSUME NEW w \in DOMAIN cursor' PROVE Closed(cursor'[w], head', observed')
      OBVIOUS
    <3>1. CASE w \in DOMAIN cursor
      BY <3>1, <1>a, <1>b, <2>2
    <3>2. CASE w \notin DOMAIN cursor
      <4>1. PICK n \in DOMAIN txs : cursor'[w] = txs[n].block - 1
        BY <3>2, <2>2
      <4> QED BY <4>1, <2>3, <1>a
    <3> QED BY <3>1, <3>2
  <2>5. tick' = [phase |-> tick'.phase, todo |-> tick'.todo] /\ tick'.todo = DOMAIN cursor'
    BY <2>1
  <2> QED BY <1>b, <1>c, <1>d, <2>1, <2>2, <2>4, <2>5 DEF DbTyped
<1>4. CASE EndTick \/ TickFails
  <2>1. UNCHANGED <<txs, cursor, mirror, approvals, feed, sync, reset>> /\ tick' = Idle
    BY <1>4 DEF EndTick, TickFails, chainVars, dbVars, resetVars
  <2> QED BY <1>a, <1>b, <1>c, <1>d, <1>e, <2>1 DEF DbTyped
<1>5. CASE \E w \in Wallets : SkipWallet(w)
  <2>1. PICK w \in Wallets : /\ UNCHANGED <<txs, cursor, mirror, approvals, feed, sync, reset>>
                             /\ tick' = [tick EXCEPT !.todo = @ \ {w}]
    BY <1>5 DEF SkipWallet, dbVars, resetVars
  <2>2. tick' = [phase |-> tick.phase, todo |-> tick.todo \ {w}]
    BY <1>b, <2>1
  <2>3. tick' = [phase |-> tick'.phase, todo |-> tick'.todo] /\ tick'.todo \subseteq tick.todo
    BY <2>2
  <2> QED BY <1>a, <1>b, <1>c, <1>d, <2>1, <2>3 DEF DbTyped
<1>6. CASE \E w \in Wallets : BeginSync(w)
  <2>1. PICK w \in Wallets : BeginSync(w)
    BY <1>6
  <2>2. /\ UNCHANGED <<txs, head, cursor, mirror, approvals, feed, reset>> /\ observed' = TRUE
        /\ tick' = [tick EXCEPT !.todo = @ \ {w}] /\ w \in tick.todo /\ head > cursor[w]
        /\ sync' = [wallet |-> w, to |-> head, todo |-> LogsOf(w, cursor[w] + 1, head),
                    feed |-> {}, mirror |-> NoRow, approvals |-> Empty]
    BY <2>1 DEF BeginSync, dbVars, resetVars
  <2>3. tick' = [phase |-> tick.phase, todo |-> tick.todo \ {w}]
    BY <1>b, <2>2
  <2>4. tick' = [phase |-> tick'.phase, todo |-> tick'.todo] /\ tick'.todo \subseteq tick.todo
    BY <2>3
  <2>5. Closed(head, head', observed')
    BY <2>2 DEF Closed, ChainInv, ChainTyped
  <2>6. LogsOf(w, cursor[w] + 1, head) \subseteq Logs(txs', w, head)
    BY <2>2, TxIsTyped DEF LogsOf, Logs, EventOf, ChainInv, ChainTyped
  <2>7. NoRow.row = FALSE /\ IsFunction(Empty)
    BY DEF NoRow, IsFunction, Empty
  <2>8. w \in DOMAIN cursor'
    BY <1>b, <2>2
  <2>9. SyncTyped'
    BY <2>2, <2>5, <2>6, <2>7, <2>8 DEF SyncTyped
  <2> QED BY <1>a, <1>b, <1>d, <2>2, <2>4, <2>9 DEF DbTyped
<1>7. CASE Handle
  <2>1. PICK n, rows, mirrorRow, decided : Handled(n, rows, mirrorRow, decided)
    BY <1>7, HandleIsHandled
  <2>2. SyncTyped
    BY <2>1 DEF Handled, DbTyped
  <2>3. /\ UNCHANGED <<txs, cursor, mirror, approvals, feed, tick, reset>>
    BY <2>1 DEF Handled, Write, dbVars, resetVars
  <2>4. /\ mirrorRow.row \in BOOLEAN
        /\ sync' = [wallet |-> sync.wallet, to |-> sync.to, todo |-> sync.todo \ {n},
                    feed |-> sync.feed \cup rows,
                    mirror |-> IF mirrorRow.row THEN mirrorRow ELSE sync.mirror,
                    approvals |-> Over(sync.approvals, decided)]
    BY <2>1, <2>2, HandledFields
  <2>5. IsFunction(Over(sync.approvals, decided))
    BY DEF IsFunction, Over
  <2>6. SyncTyped'
    BY <1>a, <2>2, <2>3, <2>4, <2>5 DEF SyncTyped
  <2> QED BY <1>a, <1>b, <1>d, <2>3, <2>6 DEF DbTyped
<1>8. CASE CommitSync
  <2>1. /\ sync' = NoSync /\ SyncTyped
        /\ UNCHANGED <<head, observed, txs, tick, reset>>
        /\ DOMAIN feed' = DOMAIN feed /\ DOMAIN mirror' = DOMAIN mirror
        /\ approvals' = Over(approvals, sync.approvals)
        /\ cursor' = [cursor EXCEPT ![sync.wallet] = sync.to]
    BY <1>8 DEF CommitSync, SeenApprovals, DbTyped, chainVars, resetVars
  <2>2. DOMAIN cursor' = DOMAIN cursor
        /\ \A w \in DOMAIN cursor' : cursor'[w] = IF w = sync.wallet THEN sync.to ELSE cursor[w]
    BY <2>1
  <2>3. \A w \in DOMAIN cursor' : Closed(cursor'[w], head', observed')
    BY <1>a, <1>b, <2>1, <2>2 DEF SyncTyped
  <2>4. IsFunction(approvals')
    BY <2>1 DEF IsFunction, Over
  <2> QED BY <1>b, <1>d, <2>1, <2>2, <2>3, <2>4 DEF DbTyped
<1>9. CASE SyncFails
  <2>1. sync' = NoSync /\ UNCHANGED <<txs, cursor, mirror, approvals, feed, tick, reset>>
    BY <1>9 DEF SyncFails, chainVars, dbVars, resetVars
  <2> QED BY <1>a, <1>b, <1>d, <2>1 DEF DbTyped
<1>10. CASE Crash
  <2>1. /\ sync' = NoSync /\ tick' = Idle /\ reset' = NoReset
        /\ UNCHANGED <<txs, cursor, mirror, approvals, feed>>
    BY <1>10 DEF Crash, chainVars, dbVars
  <2> QED BY <1>a, <1>b, <1>e, <2>1 DEF DbTyped
<1>11. CASE \E w \in Showcase : ResetRead(w)
  <2>1. PICK w \in Showcase : ResetRead(w)
    BY <1>11
  <2>2. /\ UNCHANGED <<txs, head, cursor, mirror, approvals, feed, tick, sync>>
        /\ observed' = TRUE
        /\ reset' = [phase |-> "read", wallet |-> w, block |-> head] /\ w \in DOMAIN cursor
    BY <2>1 DEF ResetRead, dbVars, indexerVars
  <2>3. Closed(head, head', observed')
    BY <2>2 DEF Closed, ChainInv, ChainTyped
  <2>4. /\ reset'.phase \in {"read", "feed", "approvals"}
        /\ reset'.wallet \in DOMAIN cursor' \cap Showcase /\ Closed(reset'.block, head', observed')
    BY <2>2, <2>3
  <2>5. sync' # NoSync => SyncTyped'
    BY <1>c, <2>2
  <2> QED BY <1>a, <1>b, <2>2, <2>4, <2>5 DEF DbTyped
<1>12. CASE ResetDeleteFeed \/ ResetDeleteApprovals
  <2>1. /\ UNCHANGED <<txs, cursor, mirror, approvals, feed, tick, sync>>
        /\ reset.phase \in {"read", "feed"}
        /\ reset'.phase \in {"feed", "approvals"}
        /\ reset'.wallet = reset.wallet /\ reset'.block = reset.block
    BY <1>12 DEF ResetDeleteFeed, ResetDeleteApprovals, chainVars, dbVars, indexerVars
  <2>2. reset # NoReset
    BY <2>1 DEF NoReset
  <2> QED BY <1>a, <1>b, <1>c, <2>1, <2>2 DEF DbTyped
<1>13. CASE ResetCommit
  <2>1. /\ reset.phase = "approvals" /\ reset' = NoReset
        /\ UNCHANGED <<txs, mirror, tick, sync>>
        /\ DOMAIN feed' = DOMAIN feed
        /\ approvals' = [id \in DOMAIN approvals \ reset.approvals |-> approvals[id]]
        /\ cursor' = [cursor EXCEPT ![reset.wallet] = reset.block]
    BY <1>13 DEF ResetCommit, chainVars, indexerVars
  <2>2. reset # NoReset
    BY <2>1 DEF NoReset
  <2>3. DOMAIN cursor' = DOMAIN cursor
        /\ \A w \in DOMAIN cursor' :
             cursor'[w] = IF w = reset.wallet THEN reset.block ELSE cursor[w]
    BY <2>1
  <2>4. \A w \in DOMAIN cursor' : Closed(cursor'[w], head', observed')
    BY <1>a, <1>b, <2>2, <2>3 DEF DbTyped
  <2>5. IsFunction(approvals')
    BY <2>1 DEF IsFunction
  <2> QED BY <1>b, <1>c, <2>1, <2>3, <2>4, <2>5 DEF DbTyped
<1>14. CASE ResetFails
  <2>1. reset' = NoReset /\ UNCHANGED <<txs, cursor, mirror, approvals, feed, tick, sync>>
    BY <1>14 DEF ResetFails, chainVars, dbVars, indexerVars
  <2> QED BY <1>a, <1>b, <1>c, <2>1 DEF DbTyped
<1>15. CASE UNCHANGED vars
  <2>1. UNCHANGED <<txs, cursor, mirror, approvals, feed, tick, sync, reset>>
    BY <1>15 DEF vars, chainVars, dbVars, indexerVars, resetVars
  <2> QED BY <1>a, <1>b, <1>c, <1>d, <2>1 DEF DbTyped
<1> QED BY <1>1, <1>2, <1>3, <1>4, <1>5, <1>6, <1>7, <1>8, <1>9, <1>10, <1>11, <1>12, <1>13,
           <1>14, <1>15 DEF Next, TickStep, ResetStep

-----------------------------------------------------------------------------
(***************************************************************************)
(* The rows and the cursor.  Until a reset deletes rows, the rows of a     *)
(* known wallet show the logs up to its cursor, and what an open sync has  *)
(* in hand shows, with them, the logs it has behind it.                    *)
(***************************************************************************)
Shown(t, logs) == {Row(n, 1, EventOf(t, n).name) : n \in logs}

Filed(t, logs) == {EventOf(t, n).id : n \in {m \in logs : EventOf(t, m).name = "Proposed"}}

VerdictOf(t, n) == IF EventOf(t, n).name = "Approved" THEN "APPROVED" ELSE "DENIED"

Decisions(t, logs, id) == {n \in logs : Settles(t, n) /\ EventOf(t, n).id = id}

Standings(t, logs, id) ==
  IF Decisions(t, logs, id) = {} THEN {"PENDING"}
  ELSE {VerdictOf(t, n) : n \in Decisions(t, logs, id)}

\* The rows are those of `logs`, and the mirror is there when `logs` has a hire.
Right(t, logs, rows, mirrored) ==
  /\ rows = Shown(t, logs)
  /\ (\E n \in logs : EventOf(t, n).name = "AgentHired") => mirrored

\* One approval row for each proposal in `logs`, of a wallet that filed it and
\* as somebody decided it.
TableRight(t, logs, table) ==
  /\ DOMAIN table = Filed(t, logs)
  /\ \A id \in DOMAIN table :
       /\ table[id] = [wallet |-> table[id].wallet, status |-> table[id].status]
       /\ \E n \in logs : /\ t[n].wallet = table[id].wallet
                          /\ EventOf(t, n).name = "Proposed" /\ EventOf(t, n).id = id
       /\ table[id].status \in Standings(t, logs, id)

\* The logs that the cursors are past, and those the open sync has behind it.
DoneBy == UNION {Logs(txs, w, cursor[w]) : w \in DOMAIN cursor}
Behind == Logs(txs, sync.wallet, sync.to) \ sync.todo

SyncIsRight ==
  /\ \A d \in Behind, n \in sync.todo : d < n
  /\ Logs(txs, sync.wallet, cursor[sync.wallet]) \subseteq Behind
  /\ Right(txs, Behind, feed[sync.wallet] \cup sync.feed, SeenMirror.row)
  /\ TableRight(txs, DoneBy \cup Behind, SeenApprovals)

RowsInv ==
  /\ \A w \in DOMAIN cursor : Right(txs, Logs(txs, w, cursor[w]), feed[w], mirror[w].row)
  /\ \A w \in Wallets \ DOMAIN cursor : feed[w] = {}
  /\ TableRight(txs, DoneBy, approvals)
  /\ sync # NoSync => SyncIsRight

\* What is right stays right when the chain grows.
LEMMA RightStays ==
  ASSUME NEW t, NEW u, NEW N, NEW e, Grew(t, u, N, e), NEW logs, logs \subseteq DOMAIN t,
         NEW rows, NEW mirrored, Right(t, logs, rows, mirrored)
  PROVE  Right(u, logs, rows, mirrored)
<1>1. \A n \in logs : EventOf(u, n) = EventOf(t, n)
  BY DEF Grew, EventOf
<1>2. Shown(u, logs) = Shown(t, logs)
  BY <1>1 DEF Shown
<1> QED BY <1>1, <1>2 DEF Right

LEMMA TableStaysRight ==
  ASSUME NEW t, NEW u, NEW N, NEW e, Grew(t, u, N, e), NEW logs, logs \subseteq DOMAIN t,
         NEW table, TableRight(t, logs, table)
  PROVE  TableRight(u, logs, table)
<1>1. \A n \in logs : u[n] = t[n] /\ EventOf(u, n) = EventOf(t, n)
  BY DEF Grew, EventOf
<1>2. Filed(u, logs) = Filed(t, logs)
  BY <1>1 DEF Filed
<1>3. \A id : Decisions(u, logs, id) = Decisions(t, logs, id)
  BY <1>1 DEF Decisions, Settles
<1>4. \A id : \A n \in Decisions(t, logs, id) : VerdictOf(u, n) = VerdictOf(t, n)
  BY <1>1 DEF Decisions, VerdictOf
<1>5. \A id : Standings(u, logs, id) = Standings(t, logs, id)
  BY <1>3, <1>4 DEF Standings
<1> QED BY <1>1, <1>2, <1>5 DEF TableRight

\* A wallet without logs has nothing to show.
LEMMA NothingIsRight ==
  ASSUME NEW t, NEW mirrored
  PROVE  Right(t, {}, {}, mirrored)
BY DEF Right, Shown

LEMMA OverEmpty ==
  ASSUME NEW f, IsFunction(f)
  PROVE  Over(f, Empty) = f
<1>1. DOMAIN Empty = {}
  BY DEF Empty
<1> QED BY <1>1 DEF Over, IsFunction

LEMMA OverOver ==
  ASSUME NEW f, NEW g, NEW h
  PROVE  Over(f, Over(g, h)) = Over(Over(f, g), h)
BY DEF Over

\* A handler's new status, over what the sync has seen.
LEMMA SeenAfter ==
  ASSUME SyncTyped, NEW n, NEW rows, NEW mirrorRow, NEW decided,
         Handled(n, rows, mirrorRow, decided)
  PROVE  /\ SeenApprovals' = Over(SeenApprovals, decided)
         /\ SeenMirror' = IF mirrorRow.row THEN mirrorRow ELSE SeenMirror
<1>1. /\ UNCHANGED <<approvals, mirror>>
      /\ sync'.wallet = sync.wallet /\ sync'.approvals = Over(sync.approvals, decided)
      /\ sync'.mirror = IF mirrorRow.row THEN mirrorRow ELSE sync.mirror
      /\ mirrorRow.row \in BOOLEAN
  <2>1. UNCHANGED <<approvals, mirror>>
    BY DEF Handled, Write, dbVars
  <2> QED BY <2>1, HandledFields
<1>2. SeenApprovals' = Over(SeenApprovals, decided)
  BY <1>1, OverOver DEF SeenApprovals
<1> QED BY <1>1, <1>2 DEF SeenMirror

(***************************************************************************)
(* The rows after one more transaction.                                    *)
(***************************************************************************)
LEMMA ShownWith ==
  ASSUME NEW t, NEW logs, NEW n
  PROVE  Shown(t, logs \cup {n}) = Shown(t, logs) \cup {Row(n, 1, EventOf(t, n).name)}
BY DEF Shown

LEMMA StandingsWith ==
  ASSUME NEW t, NEW logs, NEW n, NEW id
  PROVE  /\ ~(Settles(t, n) /\ EventOf(t, n).id = id) =>
              Standings(t, logs \cup {n}, id) = Standings(t, logs, id)
         /\ Settles(t, n) /\ EventOf(t, n).id = id =>
              VerdictOf(t, n) \in Standings(t, logs \cup {n}, id)
<1>1. CASE ~(Settles(t, n) /\ EventOf(t, n).id = id)
  <2>1. Decisions(t, logs \cup {n}, id) = Decisions(t, logs, id)
    BY <1>1 DEF Decisions
  <2> QED BY <1>1, <2>1 DEF Standings
<1>2. CASE Settles(t, n) /\ EventOf(t, n).id = id
  <2>1. n \in Decisions(t, logs \cup {n}, id)
    BY <1>2 DEF Decisions
  <2> QED BY <1>2, <2>1 DEF Standings
<1> QED BY <1>1, <1>2

\* A transaction that files nothing new and decides nothing.
LEMMA TableOfOther ==
  ASSUME NEW t, NEW logs, NEW n, NEW table, TableRight(t, logs, table), ~Settles(t, n),
         EventOf(t, n).name = "Proposed" => EventOf(t, n).id \in DOMAIN table
  PROVE  TableRight(t, logs \cup {n}, table)
<1>1. Filed(t, logs \cup {n}) = Filed(t, logs)
  BY DEF Filed, TableRight
<1>2. \A id : Standings(t, logs \cup {n}, id) = Standings(t, logs, id)
  BY StandingsWith
<1> QED BY <1>1, <1>2 DEF TableRight

LEMMA TableOfFiled ==
  ASSUME NEW t, NEW logs, NEW n, NEW table, TableRight(t, logs, table), NEW id,
         EventOf(t, n).name = "Proposed", EventOf(t, n).id = id, id \notin DOMAIN table,
         \A m \in logs : Settles(t, m) => EventOf(t, m).id # id,
         NEW g, DOMAIN g = {id}, g[id] = [wallet |-> t[n].wallet, status |-> "PENDING"]
  PROVE  TableRight(t, logs \cup {n}, Over(table, g))
<1>1. Filed(t, logs \cup {n}) = Filed(t, logs) \cup {id}
  BY DEF Filed
<1>2. \A i : Standings(t, logs \cup {n}, i) = Standings(t, logs, i)
  BY StandingsWith DEF Settles
<1>3. Standings(t, logs, id) = {"PENDING"}
  BY DEF Standings, Decisions
<1> DEFINE new == Over(table, g)
<1>4. /\ DOMAIN new = DOMAIN table \cup {id} /\ new[id] = g[id]
      /\ \A i \in DOMAIN table : new[i] = table[i]
  BY DEF Over
<1> HIDE DEF new
<1>5. g[id].wallet = t[n].wallet /\ g[id].status = "PENDING"
      /\ g[id] = [wallet |-> g[id].wallet, status |-> g[id].status]
  OBVIOUS
<1>6. ASSUME NEW i \in DOMAIN new
      PROVE  /\ new[i] = [wallet |-> new[i].wallet, status |-> new[i].status]
             /\ \E m \in logs \cup {n} : /\ t[m].wallet = new[i].wallet
                          /\ EventOf(t, m).name = "Proposed" /\ EventOf(t, m).id = i
             /\ new[i].status \in Standings(t, logs \cup {n}, i)
  <2>1. CASE i = id
    BY <1>2, <1>3, <1>4, <1>5, <2>1
  <2>2. CASE i \in DOMAIN table
    BY <1>2, <1>4, <2>2 DEF TableRight
  <2> QED BY <1>4, <2>1, <2>2
<1>7. DOMAIN new = Filed(t, logs \cup {n})
  BY <1>1, <1>4 DEF TableRight
<1>8. TableRight(t, logs \cup {n}, new)
  BY <1>6, <1>7 DEF TableRight
<1> QED BY <1>8 DEF new

LEMMA TableOfSettled ==
  ASSUME NEW t, NEW logs, NEW n, NEW table, TableRight(t, logs, table), NEW id,
         Settles(t, n), EventOf(t, n).id = id, id \in DOMAIN table,
         NEW g, DOMAIN g = {id}, g[id] = [table[id] EXCEPT !.status = VerdictOf(t, n)]
  PROVE  TableRight(t, logs \cup {n}, Over(table, g))
<1>1. Filed(t, logs \cup {n}) = Filed(t, logs)
  BY DEF Filed, Settles
<1>2. \A i : i # id => Standings(t, logs \cup {n}, i) = Standings(t, logs, i)
  BY StandingsWith
<1>3. VerdictOf(t, n) \in Standings(t, logs \cup {n}, id)
  BY StandingsWith
<1> DEFINE new == Over(table, g)
<1>4. /\ DOMAIN new = DOMAIN table /\ new[id] = g[id]
      /\ \A i \in DOMAIN table : i # id => new[i] = table[i]
  BY DEF Over
<1> HIDE DEF new
<1>5. g[id] = [wallet |-> table[id].wallet, status |-> VerdictOf(t, n)]
  <2>1. table[id] = [wallet |-> table[id].wallet, status |-> table[id].status]
    BY DEF TableRight
  <2> QED BY <2>1
<1>6. g[id].wallet = table[id].wallet /\ g[id].status = VerdictOf(t, n)
      /\ g[id] = [wallet |-> g[id].wallet, status |-> g[id].status]
  BY <1>5
<1>7. ASSUME NEW i \in DOMAIN new
      PROVE  /\ new[i] = [wallet |-> new[i].wallet, status |-> new[i].status]
             /\ \E m \in logs \cup {n} : /\ t[m].wallet = new[i].wallet
                          /\ EventOf(t, m).name = "Proposed" /\ EventOf(t, m).id = i
             /\ new[i].status \in Standings(t, logs \cup {n}, i)
  <2>1. CASE i = id
    <3>1. PICK m \in logs : /\ t[m].wallet = table[id].wallet
                            /\ EventOf(t, m).name = "Proposed" /\ EventOf(t, m).id = id
      BY DEF TableRight
    <3>2. m \in logs \cup {n} /\ t[m].wallet = new[i].wallet /\ EventOf(t, m).id = i
      BY <1>4, <1>6, <2>1, <3>1
    <3> QED BY <1>3, <1>4, <1>6, <2>1, <3>1, <3>2
  <2>2. CASE i # id
    <3>1. i \in DOMAIN table /\ new[i] = table[i]
      BY <1>4, <2>2
    <3>2. PICK m \in logs : /\ t[m].wallet = table[i].wallet
                            /\ EventOf(t, m).name = "Proposed" /\ EventOf(t, m).id = i
      BY <3>1 DEF TableRight
    <3>3. m \in logs \cup {n} /\ t[m].wallet = new[i].wallet
      BY <3>1, <3>2
    <3>4. new[i].status \in Standings(t, logs \cup {n}, i)
      BY <1>2, <2>2, <3>1 DEF TableRight
    <3>5. new[i] = [wallet |-> new[i].wallet, status |-> new[i].status]
      BY <3>1 DEF TableRight
    <3> QED BY <3>2, <3>3, <3>4, <3>5
  <2> QED BY <2>1, <2>2
<1>8. DOMAIN new = Filed(t, logs \cup {n})
  BY <1>1, <1>4 DEF TableRight
<1>9. TableRight(t, logs \cup {n}, new)
  BY <1>7, <1>8 DEF TableRight
<1> QED BY <1>9 DEF new

\* What came before the transaction being handled is behind the sync.
LEMMA EarlierIsBehind ==
  ASSUME ChainInv, SyncTyped, NEW n, IsNext(n), NEW m \in DOMAIN txs, m < n,
         txs[m].wallet = sync.wallet, EventOf(txs, m).name # "WalletCreated"
  PROVE  m \in Behind
<1>1. n \in sync.todo /\ n \in DOMAIN txs /\ txs[n].block <= sync.to /\ sync.to \in Int
  BY DEF IsNext, SyncTyped, Logs, Closed
<1>2. /\ m \in Nat /\ n \in Nat
      /\ txs[m].block \in Nat /\ txs[m].block >= 1 /\ txs[n].block \in Nat
  BY <1>1, TxIsTyped DEF ChainInv, ChainTyped
<1>3. txs[m].block <= txs[n].block
  BY <1>1, <1>2 DEF ChainInv, InBlockOrder
<1>4. m \in Logs(txs, sync.wallet, sync.to)
  BY <1>1, <1>2, <1>3 DEF Logs
<1>5. m \notin sync.todo
  BY <1>2 DEF IsNext
<1> QED BY <1>4, <1>5 DEF Behind

\* Handling a transaction puts it behind the sync and nothing else.
LEMMA HandledIsBehind ==
  ASSUME ChainInv, SyncTyped, NEW n, NEW rows, NEW mirrorRow, NEW decided,
         Handled(n, rows, mirrorRow, decided)
  PROVE  Behind' = Behind \cup {n} /\ n \in sync.todo /\ n \in DOMAIN txs
         /\ txs[n].wallet = sync.wallet /\ n \notin Behind
<1>1. txs' = txs /\ sync'.wallet = sync.wallet /\ sync'.to = sync.to
      /\ sync'.todo = sync.todo \ {n}
  <2>1. txs' = txs
    BY DEF Handled, Write
  <2> QED BY <2>1, HandledFields
<1>2. n \in sync.todo /\ n \in Logs(txs, sync.wallet, sync.to)
  BY DEF Handled, IsNext, SyncTyped
<1> QED BY <1>1, <1>2 DEF Behind, Logs

\* A decision behind the cursors or the sync has its proposal there.
LEMMA DecidedIsFiled ==
  ASSUME ChainInv, DbTyped, SyncTyped, SyncIsRight, NEW m \in DoneBy \cup Behind, Settles(txs, m)
  PROVE  EventOf(txs, m).id \in Filed(txs, DoneBy \cup Behind)
<1> DEFINE w == txs[m].wallet
<1>1. m \in DOMAIN txs
  BY DEF DoneBy, Behind, Logs
<1>2. PICK j \in DOMAIN txs : /\ j < m /\ Is(txs, j, w, "Proposed")
                              /\ EventOf(txs, j).id = EventOf(txs, m).id
  BY <1>1 DEF ChainInv, FiledFirst
<1>3. /\ j \in Nat /\ m \in Nat /\ txs[j].block \in Nat /\ txs[j].block >= 1
      /\ txs[m].block \in Nat /\ txs[j].block <= txs[m].block
  BY <1>1, <1>2, TxIsTyped DEF ChainInv, ChainTyped, InBlockOrder
<1>4. \A b \in Int : m \in Logs(txs, w, b) => j \in Logs(txs, w, b)
  BY <1>2, <1>3 DEF Logs, Is
<1>5. j \in DoneBy \cup Behind
  <2>1. CASE m \in DoneBy
    <3>1. PICK v \in DOMAIN cursor : m \in Logs(txs, v, cursor[v])
      BY <2>1 DEF DoneBy
    <3>2. v = w /\ cursor[v] \in Int
      BY <3>1 DEF Logs, DbTyped, Closed
    <3>3. j \in Logs(txs, v, cursor[v])
      BY <1>4, <3>1, <3>2
    <3> QED BY <3>3 DEF DoneBy
  <2>2. CASE m \in Behind
    <3>1. m \in Logs(txs, sync.wallet, sync.to) /\ sync.to \in Int
      BY <2>2 DEF Behind, SyncTyped, Closed
    <3>2. sync.wallet = w
      BY <3>1 DEF Logs
    <3>3. j \in Logs(txs, sync.wallet, sync.to)
      BY <1>4, <3>1, <3>2
    <3>4. j \notin sync.todo
      BY <1>2, <1>3, <2>2 DEF SyncIsRight
    <3> QED BY <3>3, <3>4 DEF Behind
  <2> QED BY <2>1, <2>2
<1> QED BY <1>2, <1>5 DEF Filed, Is

\* A handler leaves what is behind the sync right.
LEMMA HandledIsRight ==
  ASSUME ChainInv, DbTyped, SyncTyped, NEW n, NEW rows, NEW mirrorRow, NEW decided,
         Handled(n, rows, mirrorRow, decided), SyncIsRight
  PROVE  /\ Right(txs, Behind \cup {n}, feed[sync.wallet] \cup sync.feed \cup rows,
                  (IF mirrorRow.row THEN mirrorRow ELSE SeenMirror).row)
         /\ TableRight(txs, DoneBy \cup Behind \cup {n}, Over(SeenApprovals, decided))
<1> DEFINE w == sync.wallet
           old == feed[w] \cup sync.feed
           id == EventOf(txs, n).id
           name == EventOf(txs, n).name
           logs == DoneBy \cup Behind
<1>1. n \in sync.todo /\ n \in DOMAIN txs /\ txs[n].wallet = w /\ n \notin Behind
  BY HandledIsBehind
<1>2. IsNext(n) /\ NameOf(n) = name /\ IdOf(n) = id
  BY DEF Handled, NameOf, IdOf, EventOf
<1>3. /\ old = Shown(txs, Behind)
      /\ (\E m \in Behind : EventOf(txs, m).name = "AgentHired") => SeenMirror.row
  BY DEF Right, SyncIsRight
<1>4. TableRight(txs, logs, SeenApprovals) /\ IsFunction(SeenApprovals)
  BY DEF SyncIsRight, IsFunction, SeenApprovals, Over
<1>6. ReadMirror.row = TRUE /\ NoRow.row = FALSE
  BY DEF ReadMirror, NoRow
<1>7. ASSUME Settles(txs, n)
      PROVE  id \in DOMAIN SeenApprovals
  <2>1. PICK m \in DOMAIN txs : m < n /\ Is(txs, m, w, "Proposed") /\ EventOf(txs, m).id = id
    BY <1>1, <1>7 DEF ChainInv, FiledFirst
  <2>2. m \in Behind
    BY <2>1, <1>2, EarlierIsBehind DEF Is
  <2> QED BY <1>4, <2>1, <2>2 DEF Filed, Is, TableRight
<1>8. ASSUME name = "Proposed"
      PROVE  SeenMirror.row
  <2>1. PICK m \in DOMAIN txs : m < n /\ Is(txs, m, w, "AgentHired")
    BY <1>1, <1>8 DEF ChainInv, HiredFirst
  <2>2. m \in Behind /\ EventOf(txs, m).name = "AgentHired"
    BY <2>1, <1>2, EarlierIsBehind DEF Is
  <2> QED BY <1>3, <2>2
<1>9. (\E m \in Behind \cup {n} : EventOf(txs, m).name = "AgentHired") =>
        (IF mirrorRow.row THEN mirrorRow ELSE SeenMirror).row
  <2>1. CASE name = "AgentHired"
    <3>1. mirrorRow = ReadMirror
      BY <1>2, <2>1 DEF Handled, Refreshing
    <3> QED BY <3>1, <1>6
  <2>2. CASE name # "AgentHired"
    <3>1. (\E m \in Behind \cup {n} : EventOf(txs, m).name = "AgentHired") => SeenMirror.row
      BY <1>3, <2>2
    <3> QED BY <3>1
  <2> QED BY <2>1, <2>2
<1>10. rows = {Row(n, 1, name)}
  BY <1>2, <1>7, <1>8 DEF Handled, Settles
<1>11. old \cup rows = Shown(txs, Behind \cup {n})
  BY <1>3, <1>10, ShownWith
<1>12. TableRight(txs, logs \cup {n}, Over(SeenApprovals, decided))
  <2>1. CASE name \notin {"Proposed", "Approved", "Denied"}
    <3>1. decided = Empty
      BY <1>2, <2>1 DEF Handled
    <3>2. Over(SeenApprovals, decided) = SeenApprovals
      BY <3>1, <1>4, OverEmpty
    <3>3. ~Settles(txs, n) /\ EventOf(txs, n).name # "Proposed"
      BY <2>1 DEF Settles
    <3> HIDE DEF logs
    <3> QED BY <3>2, <3>3, <1>4, TableOfOther
  <2>2. CASE name = "Proposed"
    <3>1. decided = FiledRow(id)
      BY <1>2, <1>8, <2>2 DEF Handled, Refreshing
    <3>2. CASE id \in DOMAIN SeenApprovals
      <4>1. DOMAIN decided = {id} /\ decided[id] = SeenApprovals[id]
        BY <3>1, <3>2 DEF FiledRow
      <4>2. Over(SeenApprovals, decided) = SeenApprovals
        BY <1>4, <3>2, <4>1 DEF Over, IsFunction
      <4>3. ~Settles(txs, n)
        BY <2>2 DEF Settles
      <4> HIDE DEF logs
      <4> QED BY <1>4, <3>2, <4>2, <4>3, TableOfOther
    <3>3. CASE id \notin DOMAIN SeenApprovals
      <4>1. DOMAIN decided = {id}
            /\ decided[id] = [wallet |-> txs[n].wallet, status |-> "PENDING"]
        BY <1>1, <3>1, <3>3 DEF FiledRow
      <4>2. \A m \in logs : Settles(txs, m) => EventOf(txs, m).id # id
        BY <1>4, <3>3, DecidedIsFiled DEF TableRight
      <4> HIDE DEF logs
      <4> QED BY <1>4, <2>2, <3>3, <4>1, <4>2, TableOfFiled
    <3> QED BY <3>2, <3>3
  <2>3. CASE Settles(txs, n)
    <3>1. id \in DOMAIN SeenApprovals
      BY <1>7, <2>3
    <3>2. decided = DecidedRow(id, VerdictOf(txs, n))
      BY <1>2, <2>3, <3>1 DEF Handled, Refreshing, Settles, VerdictOf
    <3>3. DOMAIN decided = {id}
          /\ decided[id] = [SeenApprovals[id] EXCEPT !.status = VerdictOf(txs, n)]
      BY <3>2 DEF DecidedRow
    <3> HIDE DEF logs
    <3> QED BY <1>4, <2>3, <3>1, <3>3, TableOfSettled
  <2> QED BY <2>1, <2>2, <2>3 DEF Settles
<1> QED BY <1>9, <1>11, <1>12 DEF Right

-----------------------------------------------------------------------------
\* A wallet has no logs before the block of its creation.
LEMMA NothingBeforeCreation ==
  ASSUME ChainInv, NEW w, NEW n \in DOMAIN txs, Is(txs, n, w, "WalletCreated")
  PROVE  Logs(txs, w, txs[n].block - 1) = {}
<1> SUFFICES ASSUME NEW k \in Logs(txs, w, txs[n].block - 1) PROVE FALSE
  OBVIOUS
<1>1. /\ k \in DOMAIN txs /\ txs[k].wallet = w /\ txs[k].block <= txs[n].block - 1
      /\ EventOf(txs, k).name # "WalletCreated"
  BY DEF Logs
<1>2. EventOf(txs, n).name = "WalletCreated" /\ txs[n].wallet = w
  BY DEF Is
<1>3. w # DevWallet /\ \A m \in DOMAIN txs : m < n => txs[m].wallet # w
  BY <1>2 DEF ChainInv, CreatedFirst
<1>4. ~(k < n) /\ k \in Nat /\ n \in Nat
  BY <1>1, <1>3, TxIsTyped DEF ChainInv, ChainTyped
<1>5. txs[n].block <= txs[k].block /\ txs[n].block \in Nat /\ txs[k].block \in Nat
  BY <1>1, <1>4, TxIsTyped DEF ChainInv, ChainTyped, InBlockOrder
<1> QED BY <1>1, <1>5

\* Only a reset's commit ends the time before deletions.
LEMMA NotDeletedBefore ==
  ASSUME [Next]_vars, ~deleted'
  PROVE  ~deleted /\ ~ResetCommit
<1>1. ~ResetCommit
  BY DEF ResetCommit
<1>2. CASE Handle
  <2>1. PICK n, rows, mirrorRow, decided : Handled(n, rows, mirrorRow, decided)
    BY <1>2, HandleIsHandled
  <2> QED BY <1>1, <2>1 DEF Handled, Write, resetVars
<1>3. CASE Chain \/ UNCHANGED vars
  BY <1>1, <1>3 DEF Chain, vars, resetVars
<1>4. CASE StartTick \/ SyncFactory \/ EndTick \/ TickFails \/ CommitSync \/ SyncFails \/ Crash
  BY <1>1, <1>4 DEF StartTick, SyncFactory, EndTick, TickFails, CommitSync, SyncFails, Crash, resetVars
<1>5. CASE \E w \in Wallets : SkipWallet(w) \/ BeginSync(w)
  BY <1>1, <1>5 DEF SkipWallet, BeginSync, resetVars
<1>6. CASE \/ \E w \in Showcase : ResetRead(w)
           \/ ResetDeleteFeed \/ ResetDeleteApprovals \/ ResetFails
  BY <1>1, <1>6 DEF ResetRead, ResetDeleteFeed, ResetDeleteApprovals, ResetFails
<1> QED BY <1>1, <1>2, <1>3, <1>4, <1>5, <1>6 DEF Next, TickStep, ResetStep

LEMMA RowsStayRight ==
  ASSUME ChainInv, DbTyped, RowsInv, [Next]_vars, ~ResetCommit
  PROVE  RowsInv'
<1>a. /\ DOMAIN cursor \subseteq Wallets /\ DOMAIN feed = Wallets /\ DOMAIN mirror = Wallets
      /\ sync # NoSync => SyncTyped
  BY DEF DbTyped
<1>b. ASSUME UNCHANGED <<txs, cursor, mirror, approvals, feed, sync>>
      PROVE  RowsInv'
  BY <1>b DEF RowsInv, SyncIsRight, DoneBy, Behind, SeenApprovals, SeenMirror
<1>c. ASSUME UNCHANGED <<txs, cursor, mirror, approvals, feed>>, sync' = NoSync
      PROVE  RowsInv'
  BY <1>c DEF RowsInv, DoneBy
<1>d. ASSUME UNCHANGED <<txs, mirror, approvals, feed, sync>>,
             DOMAIN cursor \subseteq DOMAIN cursor',
             \A w \in DOMAIN cursor : cursor'[w] = cursor[w],
             \A w \in DOMAIN cursor' \ DOMAIN cursor :
               w \in Wallets /\ Logs(txs, w, cursor'[w]) = {}
      PROVE  RowsInv'
  <2>1. ASSUME NEW w \in DOMAIN cursor'
        PROVE  Right(txs, Logs(txs, w, cursor'[w]), feed[w], mirror[w].row)
    <3>1. CASE w \in DOMAIN cursor
      BY <1>d, <3>1 DEF RowsInv
    <3>2. CASE w \notin DOMAIN cursor
      <4>1. feed[w] = {} /\ Logs(txs, w, cursor'[w]) = {}
        BY <1>d, <3>2 DEF RowsInv
      <4> QED BY <4>1, NothingIsRight
    <3> QED BY <3>1, <3>2
  <2>2. \A w \in Wallets \ DOMAIN cursor' : feed[w] = {}
    BY <1>d DEF RowsInv
  <2>3. DoneBy' = DoneBy
    BY <1>d DEF DoneBy
  <2>4. Behind' = Behind /\ SeenApprovals' = SeenApprovals /\ SeenMirror' = SeenMirror
    BY <1>d DEF Behind, SeenApprovals, SeenMirror
  <2>5. ASSUME sync # NoSync PROVE SyncIsRight'
    <3>1. SyncIsRight /\ sync.wallet \in DOMAIN cursor
      BY <1>a, <2>5 DEF RowsInv, SyncTyped
    <3> QED BY <1>d, <2>3, <2>4, <3>1 DEF SyncIsRight
  <2> QED BY <1>d, <2>1, <2>2, <2>3, <2>5 DEF RowsInv
<1>1. CASE Chain
  <2>1. PICK N, e : /\ Grew(txs, txs', N, e)
                    /\ \A b : Closed(b, head, observed) => b < e.block
                    /\ e.block \in Nat
    BY <1>1, ChainGrows
  <2>2. UNCHANGED <<cursor, mirror, approvals, feed, sync>>
    BY <1>1 DEF Chain, dbVars, indexerVars
  <2>3. \A b : Closed(b, head, observed) => \A w : Logs(txs', w, b) = Logs(txs, w, b)
    <3> SUFFICES ASSUME NEW b, Closed(b, head, observed)
        PROVE \A w : Logs(txs', w, b) = Logs(txs, w, b)
      OBVIOUS
    <3>1. b \in Int /\ b < e.block /\ txs \in Seq(Tx)
      BY <2>1 DEF Closed, ChainInv, ChainTyped
    <3> QED BY <2>1, <3>1, LogsStay
  <2>4. \A w, b : Logs(txs, w, b) \subseteq DOMAIN txs
    BY DEF Logs
  <2>5. \A w \in DOMAIN cursor : Logs(txs', w, cursor[w]) = Logs(txs, w, cursor[w])
    BY <2>3 DEF DbTyped
  <2>6. \A w \in DOMAIN cursor : Right(txs', Logs(txs', w, cursor[w]), feed[w], mirror[w].row)
    BY <2>1, <2>4, <2>5, RightStays DEF RowsInv
  <2>7. DoneBy' = DoneBy /\ DoneBy \subseteq DOMAIN txs
    BY <2>2, <2>4, <2>5 DEF DoneBy
  <2>8. TableRight(txs', DoneBy, approvals)
    BY <2>1, <2>7, TableStaysRight DEF RowsInv
  <2>9. ASSUME sync # NoSync PROVE SyncIsRight'
    <3>1. Logs(txs', sync.wallet, sync.to) = Logs(txs, sync.wallet, sync.to)
      BY <1>a, <2>3, <2>9 DEF SyncTyped
    <3>2. Behind' = Behind /\ Behind \subseteq DOMAIN txs
      BY <2>2, <2>4, <3>1 DEF Behind
    <3>3. SyncIsRight /\ sync.wallet \in DOMAIN cursor
      BY <1>a, <2>9 DEF RowsInv, SyncTyped
    <3>4. Right(txs', Behind, feed[sync.wallet] \cup sync.feed, SeenMirror.row)
      BY <2>1, <3>2, <3>3, RightStays DEF SyncIsRight
    <3>5. TableRight(txs', DoneBy \cup Behind, SeenApprovals)
      <4>1. DoneBy \cup Behind \subseteq DOMAIN txs
        BY <2>7, <3>2
      <4>2. TableRight(txs, DoneBy \cup Behind, SeenApprovals)
        BY <3>3 DEF SyncIsRight
      <4> QED BY <2>1, <4>1, <4>2, TableStaysRight
    <3>6. SeenApprovals' = SeenApprovals /\ SeenMirror' = SeenMirror
      BY <2>2 DEF SeenApprovals, SeenMirror
    <3> QED BY <2>2, <2>5, <2>7, <3>2, <3>3, <3>4, <3>5, <3>6 DEF SyncIsRight
  <2> QED BY <2>2, <2>6, <2>7, <2>8, <2>9 DEF RowsInv
<1>2. CASE StartTick
  <2>1. /\ DOMAIN cursor' = DOMAIN cursor \cup {DevWallet}
        /\ \A w \in DOMAIN cursor : cursor'[w] = cursor[w]
        /\ DevWallet \notin DOMAIN cursor => cursor'[DevWallet] = 0
    BY <1>2, StartCursors
  <2>2. Logs(txs, DevWallet, 0) = {}
    BY TxIsTyped DEF Logs, ChainInv, ChainTyped
  <2>3. UNCHANGED <<txs, mirror, approvals, feed, sync>>
    BY <1>2 DEF StartTick, chainVars
  <2> QED BY <1>d, <2>1, <2>2, <2>3, LogAssumption
<1>3. CASE SyncFactory
  <2>1. /\ DOMAIN cursor \subseteq DOMAIN cursor' /\ DOMAIN cursor' \subseteq Wallets
        /\ \A w \in DOMAIN cursor : cursor'[w] = cursor[w]
        /\ \A w \in DOMAIN cursor' \ DOMAIN cursor :
             \E n \in DOMAIN txs : /\ Is(txs, n, w, "WalletCreated")
                                  /\ cursor'[w] = txs[n].block - 1
    BY <1>3, NewCursors
  <2>2. \A w \in DOMAIN cursor' \ DOMAIN cursor :
          w \in Wallets /\ Logs(txs, w, cursor'[w]) = {}
    BY <2>1, NothingBeforeCreation
  <2>3. UNCHANGED <<txs, mirror, approvals, feed, sync>>
    BY <1>3 DEF SyncFactory
  <2> QED BY <1>d, <2>1, <2>2, <2>3
<1>4. CASE \E w \in Wallets : BeginSync(w)
  <2>1. PICK w \in Wallets : BeginSync(w)
    BY <1>4
  <2>2. /\ UNCHANGED <<txs, cursor, mirror, approvals, feed>>
        /\ w \in DOMAIN cursor /\ head > cursor[w]
        /\ sync' = [wallet |-> w, to |-> head, todo |-> LogsOf(w, cursor[w] + 1, head),
                    feed |-> {}, mirror |-> NoRow, approvals |-> Empty]
    BY <2>1 DEF BeginSync, dbVars, DbTyped
  <2>3. /\ sync'.wallet = w /\ sync'.to = head /\ sync'.feed = {} /\ sync'.mirror = NoRow
        /\ sync'.approvals = Empty /\ sync'.todo = LogsOf(w, cursor[w] + 1, head)
    BY <2>2
  <2>4. cursor[w] \in Int /\ head \in Nat
    BY <2>2 DEF DbTyped, Closed, ChainInv, ChainTyped
  <2>5. \A n \in DOMAIN txs : n \in Nat /\ txs[n].block \in Nat /\ txs[n].block >= 1
                            /\ txs[n].block <= head
    BY TxIsTyped DEF ChainInv, ChainTyped, InBlockOrder
  <2>6. sync'.todo = {n \in Logs(txs, w, head) : txs[n].block > cursor[w]}
    BY <2>3, <2>4, <2>5 DEF LogsOf, Logs, EventOf
  <2>7. Behind' = Logs(txs, w, head) \ sync'.todo
    BY <2>2, <2>3 DEF Behind
  <2>8. Behind' = Logs(txs, w, cursor[w])
    BY <2>2, <2>4, <2>5, <2>6, <2>7 DEF Logs
  <2>9. ASSUME NEW d \in Behind', NEW n \in sync'.todo
        PROVE  d < n
    <3>1. d \in DOMAIN txs /\ n \in DOMAIN txs /\ txs[d].block < txs[n].block
      BY <2>4, <2>5, <2>6, <2>8 DEF Logs
    <3>2. ~(n <= d)
      BY <2>5, <3>1 DEF ChainInv, InBlockOrder
    <3> QED BY <2>5, <3>1, <3>2
  <2>10. Right(txs, Logs(txs, w, cursor[w]), feed[w], mirror[w].row)
    BY <2>2 DEF RowsInv
  <2>11. SeenMirror' = mirror[w]
    BY <2>2, <2>3 DEF SeenMirror, NoRow
  <2>12. SeenApprovals' = approvals
    <3>1. IsFunction(approvals)
      BY DEF DbTyped
    <3>2. SeenApprovals' = Over(approvals, Empty)
      BY <2>2, <2>3 DEF SeenApprovals
    <3> QED BY <3>1, <3>2, OverEmpty
  <2>13. Right(txs, Behind', feed[w] \cup {}, SeenMirror'.row)
    BY <2>8, <2>10, <2>11
  <2>14. DoneBy' = DoneBy /\ DoneBy \cup Behind' = DoneBy
    BY <2>2, <2>8 DEF DoneBy
  <2>15. TableRight(txs, DoneBy, approvals)
    BY DEF RowsInv
  <2>16. SyncIsRight'
    BY <2>2, <2>3, <2>8, <2>9, <2>12, <2>13, <2>14, <2>15 DEF SyncIsRight
  <2> QED BY <2>2, <2>14, <2>16 DEF RowsInv
<1>5. CASE Handle
  <2>1. PICK n, rows, mirrorRow, decided : Handled(n, rows, mirrorRow, decided)
    BY <1>5, HandleIsHandled
  <2>2. SyncTyped /\ sync # NoSync /\ SyncIsRight
    BY <1>a, <2>1 DEF Handled, RowsInv
  <2>3. UNCHANGED <<txs, cursor, mirror, approvals, feed>>
    BY <2>1 DEF Handled, Write, dbVars
  <2>4. /\ sync'.wallet = sync.wallet /\ sync'.feed = sync.feed \cup rows
        /\ sync'.todo = sync.todo \ {n}
    BY <2>1, <2>2, HandledFields
  <2>5. Behind' = Behind \cup {n} /\ n \in sync.todo
    BY <2>1, <2>2, HandledIsBehind
  <2>6. /\ SeenApprovals' = Over(SeenApprovals, decided)
        /\ SeenMirror' = IF mirrorRow.row THEN mirrorRow ELSE SeenMirror
    BY <2>1, <2>2, SeenAfter
  <2>7. /\ Right(txs, Behind \cup {n}, feed[sync.wallet] \cup sync.feed \cup rows,
                 (IF mirrorRow.row THEN mirrorRow ELSE SeenMirror).row)
        /\ TableRight(txs, DoneBy \cup Behind \cup {n}, Over(SeenApprovals, decided))
    BY <2>1, <2>2, HandledIsRight
  <2>8. Right(txs, Behind', feed[sync.wallet] \cup (sync.feed \cup rows), SeenMirror'.row)
    <3>1. feed[sync.wallet] \cup (sync.feed \cup rows) = feed[sync.wallet] \cup sync.feed \cup rows
      OBVIOUS
    <3> QED BY <3>1, <2>5, <2>6, <2>7
  <2>9. DoneBy' = DoneBy
    BY <2>3 DEF DoneBy
  <2>10. TableRight(txs, DoneBy' \cup Behind', SeenApprovals')
    <3>1. DoneBy \cup (Behind \cup {n}) = DoneBy \cup Behind \cup {n}
      OBVIOUS
    <3> QED BY <3>1, <2>5, <2>6, <2>7, <2>9
  <2>11. \A d \in Behind', k \in sync'.todo : d < k
    <3>1. \A k \in sync.todo \ {n} : n < k
      <4>1. sync.todo \subseteq Nat
        BY <2>2, TxIsTyped DEF SyncTyped, Logs, ChainInv, ChainTyped
      <4>2. \A k \in sync.todo : n <= k
        BY <2>1 DEF Handled, IsNext
      <4> QED BY <4>1, <4>2, <2>5
    <3> QED BY <2>2, <2>4, <2>5, <3>1 DEF SyncIsRight
  <2>12. SyncIsRight'
    BY <2>2, <2>3, <2>4, <2>5, <2>8, <2>10, <2>11 DEF SyncIsRight
  <2> QED BY <2>3, <2>9, <2>12 DEF RowsInv
<1>6. CASE CommitSync
  <2> DEFINE v == sync.wallet
  <2>1. /\ sync # NoSync /\ sync.todo = {} /\ sync' = NoSync /\ txs' = txs
        /\ feed' = [feed EXCEPT ![v] = @ \cup sync.feed]
        /\ approvals' = SeenApprovals
        /\ mirror' = [mirror EXCEPT ![v] = SeenMirror]
        /\ cursor' = [cursor EXCEPT ![v] = sync.to]
    BY <1>6 DEF CommitSync, chainVars
  <2>2. v \in DOMAIN cursor /\ v \in Wallets
    BY <1>a, <2>1 DEF SyncTyped
  <2>3. Behind = Logs(txs, v, sync.to)
    BY <2>1 DEF Behind
  <2>4. /\ Right(txs, Behind, feed[v] \cup sync.feed, SeenMirror.row)
        /\ Logs(txs, v, cursor[v]) \subseteq Behind
        /\ TableRight(txs, DoneBy \cup Behind, SeenApprovals)
    BY <2>1 DEF RowsInv, SyncIsRight
  <2>5. /\ feed'[v] = feed[v] \cup sync.feed
        /\ mirror'[v] = SeenMirror /\ cursor'[v] = sync.to
        /\ DOMAIN cursor' = DOMAIN cursor
    BY <1>a, <2>1, <2>2
  <2>6. \A w \in Wallets : w # v => feed'[w] = feed[w] /\ mirror'[w] = mirror[w]
    BY <1>a, <2>1
  <2>7. \A w \in DOMAIN cursor : w # v => cursor'[w] = cursor[w] /\ w \in Wallets
    BY <1>a, <2>1
  <2> HIDE DEF v
  <2>8. ASSUME NEW w \in DOMAIN cursor'
        PROVE  Right(txs, Logs(txs, w, cursor'[w]), feed'[w], mirror'[w].row)
    <3>1. CASE w = v
      BY <3>1, <2>3, <2>4, <2>5
    <3>2. CASE w # v
      BY <3>2, <2>5, <2>6, <2>7 DEF RowsInv
    <3> QED BY <3>1, <3>2
  <2>9. \A w \in Wallets \ DOMAIN cursor' : feed'[w] = {}
    BY <2>2, <2>5, <2>6 DEF RowsInv
  <2>10. DoneBy' = DoneBy \cup Behind
    <3>1. ASSUME NEW n \in DoneBy' PROVE n \in DoneBy \cup Behind
      <4>1. PICK w \in DOMAIN cursor : n \in Logs(txs, w, cursor'[w])
        BY <2>1, <2>5, <3>1 DEF DoneBy
      <4> QED BY <4>1, <2>3, <2>5, <2>7 DEF DoneBy
    <3>2. ASSUME NEW n \in DoneBy PROVE n \in DoneBy'
      <4>1. PICK w \in DOMAIN cursor : n \in Logs(txs, w, cursor[w])
        BY <3>2 DEF DoneBy
      <4>2. n \in Logs(txs, w, cursor'[w])
        BY <4>1, <2>3, <2>4, <2>5, <2>7
      <4> QED BY <4>2, <2>1, <2>5 DEF DoneBy
    <3>3. ASSUME NEW n \in Behind PROVE n \in DoneBy'
      <4>1. n \in Logs(txs, v, cursor'[v])
        BY <2>3, <2>5, <3>3
      <4> QED BY <4>1, <2>1, <2>2, <2>5 DEF DoneBy
    <3> QED BY <3>1, <3>2, <3>3
  <2> QED BY <2>1, <2>4, <2>8, <2>9, <2>10 DEF RowsInv
<1>7. CASE SyncFails \/ Crash
  BY <1>7, <1>c DEF SyncFails, Crash, chainVars, dbVars
<1>8. CASE EndTick \/ TickFails \/ \E w \in Wallets : SkipWallet(w)
  BY <1>8, <1>b DEF EndTick, TickFails, SkipWallet, chainVars, dbVars
<1>9. CASE \/ ResetDeleteFeed \/ ResetDeleteApprovals \/ ResetFails
           \/ \E w \in Showcase : ResetRead(w)
  BY <1>9, <1>b DEF ResetDeleteFeed, ResetDeleteApprovals, ResetFails, ResetRead, chainVars,
                    dbVars, indexerVars
<1>10. CASE UNCHANGED vars
  BY <1>10, <1>b DEF vars, chainVars, dbVars, indexerVars
<1> QED BY <1>1, <1>2, <1>3, <1>4, <1>5, <1>6, <1>7, <1>8, <1>9, <1>10
        DEF Next, TickStep, ResetStep

-----------------------------------------------------------------------------
(***************************************************************************)
(* The mirror.  Until a reset deletes rows, the mirror of a hired agent    *)
(* has the contract's terms, or an event that makes the indexer read them  *)
(* again is ahead of the cursor; and so it is with what an open sync has   *)
(* read.                                                                   *)
(***************************************************************************)
Refresher(t, n, w) ==
  n \in DOMAIN t /\ t[n].wallet = w /\ EventOf(t, n).name \in Refreshing

IsCurrent(row, agent) ==
  row.row /\ row.terms = agent.terms /\ row.frozen = agent.frozen

MirrorInv ==
  /\ \A w \in DOMAIN cursor : agents[w].hired =>
       \/ IsCurrent(mirror[w], agents[w])
       \/ \E n \in DOMAIN txs : Refresher(txs, n, w) /\ txs[n].block > cursor[w]
  /\ sync # NoSync => (agents[sync.wallet].hired =>
       \/ IsCurrent(SeenMirror, agents[sync.wallet])
       \/ \E n \in DOMAIN txs : /\ Refresher(txs, n, sync.wallet)
                                /\ (n \in sync.todo \/ txs[n].block > sync.to))

LEMMA MirrorStaysCurrent ==
  ASSUME ChainInv, DbTyped, MirrorInv, [Next]_vars, ~ResetCommit
  PROVE  MirrorInv'
<1>a. /\ DOMAIN cursor \subseteq Wallets /\ DOMAIN mirror = Wallets
      /\ sync # NoSync => SyncTyped
  BY DEF DbTyped
<1>b. ASSUME UNCHANGED <<txs, agents, cursor, mirror, sync>>
      PROVE  MirrorInv'
  BY <1>b DEF MirrorInv, SeenMirror
<1>c. ASSUME UNCHANGED <<txs, agents, cursor, mirror>>, sync' = NoSync
      PROVE  MirrorInv'
  BY <1>c DEF MirrorInv
<1>d. ASSUME UNCHANGED <<txs, agents, mirror, sync>>,
             \A w \in DOMAIN cursor : cursor'[w] = cursor[w],
             \A w \in DOMAIN cursor' \ DOMAIN cursor : agents[w].hired =>
               \E n \in DOMAIN txs : Refresher(txs, n, w) /\ txs[n].block > cursor'[w]
      PROVE  MirrorInv'
  BY <1>d DEF MirrorInv, SeenMirror
<1>e. ASSUME NEW w \in Wallets, agents[w].hired
      PROVE  \E n \in DOMAIN txs : Refresher(txs, n, w) /\ Is(txs, n, w, "AgentHired")
  BY <1>e DEF ChainInv, HiredFirst, Is, Refresher, Refreshing
<1>1. CASE Chain
  <2>1. PICK N, e :
          /\ Grew(txs, txs', N, e)
          /\ \A b : Closed(b, head, observed) => b < e.block
          /\ \A w \in Wallets :
               agents'[w] = agents[w] \/ (e.wallet = w /\ e.events[1].name \in Refreshing)
          /\ e.block \in Nat
    BY <1>1, ChainGrows
  <2>2. UNCHANGED <<cursor, mirror, approvals, feed, sync>>
    BY <1>1 DEF Chain, dbVars, indexerVars
  <2>3. SeenMirror' = SeenMirror
    BY <2>2 DEF SeenMirror
  <2>4. \A w, n : Refresher(txs, n, w) => Refresher(txs', n, w) /\ txs'[n] = txs[n]
                                        /\ n \in DOMAIN txs'
    BY <2>1 DEF Grew, Refresher, EventOf
  <2>5. ASSUME NEW w \in Wallets, agents'[w] # agents[w]
        PROVE  N \in DOMAIN txs' /\ Refresher(txs', N, w) /\ txs'[N].block = e.block
    BY <2>1, <2>5 DEF Grew, Refresher, EventOf
  <2>6. ASSUME NEW w \in DOMAIN cursor, agents'[w].hired
        PROVE  \/ IsCurrent(mirror[w], agents'[w])
               \/ \E n \in DOMAIN txs' : Refresher(txs', n, w) /\ txs'[n].block > cursor[w]
    <3>1. CASE agents'[w] = agents[w]
      BY <2>4, <2>6, <3>1 DEF MirrorInv
    <3>2. CASE agents'[w] # agents[w]
      <4>1. Closed(cursor[w], head, observed) /\ w \in Wallets
        BY <1>a DEF DbTyped
      <4>2. cursor[w] \in Int
        BY <4>1 DEF Closed
      <4> QED BY <2>1, <2>5, <3>2, <4>1, <4>2
    <3> QED BY <3>1, <3>2
  <2>7. ASSUME sync # NoSync, agents'[sync.wallet].hired
        PROVE  \/ IsCurrent(SeenMirror, agents'[sync.wallet])
               \/ \E n \in DOMAIN txs' : /\ Refresher(txs', n, sync.wallet)
                                         /\ (n \in sync.todo \/ txs'[n].block > sync.to)
    <3>1. CASE agents'[sync.wallet] = agents[sync.wallet]
      BY <2>4, <2>7, <3>1 DEF MirrorInv
    <3>2. CASE agents'[sync.wallet] # agents[sync.wallet]
      <4>1. Closed(sync.to, head, observed) /\ sync.wallet \in Wallets
        BY <1>a, <2>7 DEF SyncTyped
      <4>2. sync.to \in Int
        BY <4>1 DEF Closed
      <4> QED BY <2>1, <2>5, <3>2, <4>1, <4>2
    <3> QED BY <3>1, <3>2
  <2> QED BY <2>2, <2>3, <2>6, <2>7 DEF MirrorInv
<1>2. CASE StartTick
  <2>1. /\ DOMAIN cursor' = DOMAIN cursor \cup {DevWallet}
        /\ \A w \in DOMAIN cursor : cursor'[w] = cursor[w]
        /\ DevWallet \notin DOMAIN cursor => cursor'[DevWallet] = 0
    BY <1>2, StartCursors
  <2>2. \A n \in DOMAIN txs : txs[n].block > 0
    BY TxIsTyped DEF ChainInv, ChainTyped
  <2>3. UNCHANGED <<txs, agents, mirror, sync>>
    BY <1>2 DEF StartTick, chainVars
  <2> QED BY <1>d, <1>e, <2>1, <2>2, <2>3, LogAssumption
<1>3. CASE SyncFactory
  <2>1. /\ DOMAIN cursor \subseteq DOMAIN cursor' /\ DOMAIN cursor' \subseteq Wallets
        /\ \A w \in DOMAIN cursor : cursor'[w] = cursor[w]
        /\ \A w \in DOMAIN cursor' \ DOMAIN cursor :
             \E n \in DOMAIN txs : /\ Is(txs, n, w, "WalletCreated")
                                  /\ cursor'[w] = txs[n].block - 1
    BY <1>3, NewCursors
  <2>2. ASSUME NEW w \in DOMAIN cursor' \ DOMAIN cursor, agents[w].hired
        PROVE  \E n \in DOMAIN txs : Refresher(txs, n, w) /\ txs[n].block > cursor'[w]
    <3>1. PICK c \in DOMAIN txs : Is(txs, c, w, "WalletCreated") /\ cursor'[w] = txs[c].block - 1
      BY <2>1
    <3>2. PICK n \in DOMAIN txs : Refresher(txs, n, w) /\ Is(txs, n, w, "AgentHired")
      BY <1>e, <2>1, <2>2
    <3>3. n \notin Logs(txs, w, txs[c].block - 1)
      BY <3>1, NothingBeforeCreation
    <3>4. txs[n].block \in Nat /\ txs[n].block >= 1 /\ txs[c].block \in Nat
      BY TxIsTyped DEF ChainInv, ChainTyped
    <3>5. txs[n].block > txs[c].block - 1
      BY <3>2, <3>3, <3>4 DEF Logs, Is
    <3> QED BY <3>1, <3>2, <3>5
  <2>3. UNCHANGED <<txs, agents, mirror, sync>>
    BY <1>3 DEF SyncFactory
  <2> QED BY <1>d, <2>1, <2>2, <2>3
<1>4. CASE \E w \in Wallets : BeginSync(w)
  <2>1. PICK w \in Wallets : BeginSync(w)
    BY <1>4
  <2>2. /\ UNCHANGED <<txs, agents, cursor, mirror>>
        /\ w \in DOMAIN cursor /\ head > cursor[w]
        /\ sync' = [wallet |-> w, to |-> head, todo |-> LogsOf(w, cursor[w] + 1, head),
                    feed |-> {}, mirror |-> NoRow, approvals |-> Empty]
    BY <2>1 DEF BeginSync, dbVars, DbTyped
  <2>3. /\ sync'.wallet = w /\ sync'.to = head /\ sync'.mirror = NoRow
        /\ sync'.todo = LogsOf(w, cursor[w] + 1, head)
    BY <2>2
  <2>4. SeenMirror' = mirror[w]
    BY <2>2, <2>3 DEF SeenMirror, NoRow
  <2>5. cursor[w] \in Int /\ head \in Nat
    BY <2>2 DEF DbTyped, Closed, ChainInv, ChainTyped
  <2>6. ASSUME NEW n \in DOMAIN txs, Refresher(txs, n, w), txs[n].block > cursor[w]
        PROVE  n \in sync'.todo
    <3>1. txs[n].block \in Nat /\ txs[n].block <= head
      BY TxIsTyped DEF ChainInv, ChainTyped, InBlockOrder
    <3> QED BY <2>3, <2>5, <2>6, <3>1 DEF LogsOf, Refresher, Refreshing, EventOf
  <2>7. agents[w].hired => \/ IsCurrent(mirror[w], agents[w])
                          \/ \E n \in DOMAIN txs : Refresher(txs, n, w) /\ n \in sync'.todo
    BY <2>2, <2>6 DEF MirrorInv
  <2>8. \A v \in DOMAIN cursor : agents[v].hired =>
          \/ IsCurrent(mirror[v], agents[v])
          \/ \E n \in DOMAIN txs : Refresher(txs, n, v) /\ txs[n].block > cursor[v]
    BY DEF MirrorInv
  <2> QED BY <2>2, <2>3, <2>4, <2>7, <2>8 DEF MirrorInv
<1>5. CASE Handle
  <2>1. PICK n, rows, mirrorRow, decided : Handled(n, rows, mirrorRow, decided)
    BY <1>5, HandleIsHandled
  <2>2. SyncTyped /\ sync # NoSync
    BY <1>a, <2>1 DEF Handled
  <2>3. UNCHANGED <<txs, agents, cursor, mirror>>
    BY <2>1 DEF Handled, Write, dbVars
  <2>4. /\ sync'.wallet = sync.wallet /\ sync'.todo = sync.todo \ {n} /\ sync'.to = sync.to
    BY <2>1, <2>2, HandledFields
  <2>5. SeenMirror' = IF mirrorRow.row THEN mirrorRow ELSE SeenMirror
    BY <2>1, <2>2, SeenAfter
  <2>6. ASSUME agents[sync.wallet].hired
        PROVE  \/ IsCurrent(SeenMirror', agents[sync.wallet])
               \/ \E k \in DOMAIN txs : /\ Refresher(txs, k, sync.wallet)
                                        /\ (k \in sync'.todo \/ txs[k].block > sync.to)
    <3>1. CASE mirrorRow = ReadMirror
      <4>1. SeenMirror' = ReadMirror
        BY <2>5, <3>1 DEF ReadMirror
      <4> QED BY <4>1 DEF IsCurrent, ReadMirror
    <3>2. CASE mirrorRow # ReadMirror
      <4>1. mirrorRow = NoRow /\ NameOf(n) \notin Refreshing
        BY <2>1, <3>2 DEF Handled, Refreshing
      <4>2. SeenMirror' = SeenMirror
        BY <2>5, <4>1 DEF NoRow
      <4>3. \A k : Refresher(txs, k, sync.wallet) => k # n
        BY <4>1 DEF Refresher, EventOf, NameOf
      <4>4. \/ IsCurrent(SeenMirror, agents[sync.wallet])
            \/ \E k \in DOMAIN txs : /\ Refresher(txs, k, sync.wallet)
                                     /\ (k \in sync.todo \/ txs[k].block > sync.to)
        BY <2>2, <2>6 DEF MirrorInv
      <4> QED BY <2>4, <4>2, <4>3, <4>4
    <3> QED BY <3>1, <3>2
  <2>7. \A v \in DOMAIN cursor : agents[v].hired =>
          \/ IsCurrent(mirror[v], agents[v])
          \/ \E k \in DOMAIN txs : Refresher(txs, k, v) /\ txs[k].block > cursor[v]
    BY DEF MirrorInv
  <2> QED BY <2>3, <2>4, <2>6, <2>7 DEF MirrorInv
<1>6. CASE CommitSync
  <2> DEFINE v == sync.wallet
  <2>1. /\ sync # NoSync /\ sync.todo = {} /\ sync' = NoSync /\ txs' = txs /\ agents' = agents
        /\ mirror' = [mirror EXCEPT ![v] = SeenMirror]
        /\ cursor' = [cursor EXCEPT ![v] = sync.to]
    BY <1>6 DEF CommitSync, chainVars
  <2>2. v \in DOMAIN cursor /\ v \in Wallets
    BY <1>a, <2>1 DEF SyncTyped
  <2>3. mirror'[v] = SeenMirror /\ cursor'[v] = sync.to /\ DOMAIN cursor' = DOMAIN cursor
    BY <1>a, <2>1, <2>2
  <2>4. \A w \in DOMAIN cursor : w # v => mirror'[w] = mirror[w] /\ cursor'[w] = cursor[w]
    BY <1>a, <2>1
  <2>5. agents[v].hired => \/ IsCurrent(SeenMirror, agents[v])
                          \/ \E n \in DOMAIN txs : Refresher(txs, n, v) /\ txs[n].block > sync.to
    BY <2>1 DEF MirrorInv
  <2> HIDE DEF v
  <2>6. ASSUME NEW w \in DOMAIN cursor', agents[w].hired
        PROVE  \/ IsCurrent(mirror'[w], agents[w])
               \/ \E n \in DOMAIN txs : Refresher(txs, n, w) /\ txs[n].block > cursor'[w]
    <3>1. CASE w = v
      BY <2>3, <2>5, <2>6, <3>1
    <3>2. CASE w # v
      BY <2>3, <2>4, <2>6, <3>2 DEF MirrorInv
    <3> QED BY <3>1, <3>2
  <2> QED BY <2>1, <2>6 DEF MirrorInv
<1>7. CASE SyncFails \/ Crash
  BY <1>7, <1>c DEF SyncFails, Crash, chainVars, dbVars
<1>8. CASE EndTick \/ TickFails \/ \E w \in Wallets : SkipWallet(w)
  BY <1>8, <1>b DEF EndTick, TickFails, SkipWallet, chainVars, dbVars
<1>9. CASE \/ ResetDeleteFeed \/ ResetDeleteApprovals \/ ResetFails
           \/ \E w \in Showcase : ResetRead(w)
  BY <1>9, <1>b DEF ResetDeleteFeed, ResetDeleteApprovals, ResetFails, ResetRead, chainVars,
                    dbVars, indexerVars
<1>10. CASE UNCHANGED vars
  BY <1>10, <1>b DEF vars, chainVars, dbVars, indexerVars
<1> QED BY <1>1, <1>2, <1>3, <1>4, <1>5, <1>6, <1>7, <1>8, <1>9, <1>10
        DEF Next, TickStep, ResetStep

-----------------------------------------------------------------------------
IndexerInv ==
  /\ ChainInv /\ DbTyped
  /\ ~deleted => RowsInv /\ MirrorInv

LEMMA ChainStays ==
  ASSUME ChainInv, [Next]_vars
  PROVE  ChainInv'
<1>1. CASE Chain
  BY <1>1, ChainStepIsLegal, LegalKeepsChain DEF Chain
<1>2. CASE ~Chain
  <2>1. UNCHANGED <<head, txs, agents, nonces, proposals>> /\ observed' \in BOOLEAN
    <3>1. CASE Handle
      <4>1. PICK n, rows, mirrorRow, decided : Handled(n, rows, mirrorRow, decided)
        BY <3>1, HandleIsHandled
      <4>2. UNCHANGED <<head, txs, agents, nonces, proposals>> /\ observed' = (observed \/ mirrorRow.row)
        BY <4>1 DEF Handled, Write
      <4> QED BY <4>2
    <3>2. CASE StartTick \/ SyncFactory \/ EndTick \/ (\E w \in Wallets : SkipWallet(w))
      BY <3>2 DEF StartTick, SyncFactory, EndTick, SkipWallet, chainVars, ChainInv, ChainTyped
    <3>3. CASE (\E w \in Wallets : BeginSync(w)) \/ CommitSync \/ SyncFails \/ TickFails \/ Crash
      BY <3>3 DEF BeginSync, CommitSync, SyncFails, TickFails, Crash, chainVars, ChainInv, ChainTyped
    <3>4. CASE (\E w \in Showcase : ResetRead(w)) \/ ResetStep \/ ResetFails
      BY <3>4 DEF ResetRead, ResetStep, ResetDeleteFeed, ResetDeleteApprovals, ResetCommit,
                      ResetFails, chainVars, ChainInv, ChainTyped
    <3>5. CASE UNCHANGED vars
      BY <3>5 DEF vars, chainVars, ChainInv, ChainTyped
    <3> QED BY <1>2, <3>1, <3>2, <3>3, <3>4, <3>5 DEF Next, TickStep
  <2> QED BY <2>1 DEF ChainInv, ChainTyped
<1> QED BY <1>1, <1>2

LEMMA IndexerStarts == Init => IndexerInv
<1> SUFFICES ASSUME Init PROVE IndexerInv
  OBVIOUS
<1>1. /\ head = 0 /\ observed = FALSE /\ txs = <<>> /\ DOMAIN txs = {}
      /\ agents = [w \in Wallets |-> NotHired] /\ nonces = [w \in Wallets |-> 0]
      /\ proposals = [w \in Wallets |-> Empty] /\ DOMAIN Empty = {}
      /\ cursor = [w \in {} |-> NoCursor] /\ DOMAIN cursor = {}
      /\ mirror = [w \in Wallets |-> NoRow] /\ approvals = Empty
      /\ feed = [w \in Wallets |-> {}]
      /\ tick = Idle /\ sync = NoSync /\ reset = NoReset
  BY DEF Init, ChainInit, Empty
<1>2. ChainTyped
  <2>1. NotHired \in Agent
    BY DEF NotHired, Agent
  <2>2. agents \in [Wallets -> Agent]
    BY <1>1, <2>1
  <2>3. <<>> \in Seq(Tx)
    OBVIOUS
  <2> QED BY <1>1, <2>2, <2>3 DEF ChainTyped
<1>3. ChainInv
  <2>1. \A w \in Wallets : ~agents[w].hired /\ DOMAIN proposals[w] = {}
    BY <1>1 DEF NotHired
  <2> QED BY <1>1, <1>2, <2>1
          DEF ChainInv, NoncesCount, InBlockOrder, CreatedFirst, HiredFirst, FiledFirst, SettledOnce
<1>4. DbTyped
  BY <1>1 DEF DbTyped, Idle, IsFunction, Empty
<1>5. RowsInv
  <2>1. DoneBy = {}
    BY <1>1 DEF DoneBy
  <2>2. TableRight(txs, {}, Empty)
    BY <1>1 DEF TableRight, Filed
  <2> QED BY <1>1, <2>1, <2>2 DEF RowsInv
<1>6. MirrorInv
  BY <1>1 DEF MirrorInv
<1> QED BY <1>3, <1>4, <1>5, <1>6 DEF IndexerInv

LEMMA IndexerStays == IndexerInv /\ [Next]_vars => IndexerInv'
<1> SUFFICES ASSUME IndexerInv, [Next]_vars PROVE IndexerInv'
  OBVIOUS
<1>1. ChainInv /\ DbTyped
  BY DEF IndexerInv
<1>2. ChainInv' /\ DbTyped'
  BY <1>1, ChainStays, DbIsTyped
<1>3. ~deleted' => RowsInv' /\ MirrorInv'
  BY <1>1, NotDeletedBefore, RowsStayRight, MirrorStaysCurrent DEF IndexerInv
<1> QED BY <1>2, <1>3 DEF IndexerInv

LEMMA IndexerInvHolds == Spec => []IndexerInv
BY IndexerStarts, IndexerStays, PTL DEF Spec

\* For every set of wallets, broken ones among them, and any number of
\* transactions, faults and crashes: until a reset deletes rows, the feed of a
\* known wallet is that of its logs up to the cursor, and the approval rows are
\* those of the proposals in all these logs, also where two wallets have filed
\* the same id.
THEOREM RowsMatchCursorAlways == Spec => []RowsMatchCursor
<1>1. IndexerInv => RowsMatchCursor
  <2> SUFFICES ASSUME IndexerInv, ~deleted
      PROVE /\ \A w \in DOMAIN cursor : feed[w] = ShownOf(LogsOf(w, 1, cursor[w]))
            /\ DOMAIN approvals = FiledIn(Done)
            /\ \A id \in DOMAIN approvals :
                 /\ \E n \in Done : /\ NameOf(n) = "Proposed" /\ IdOf(n) = id
                                    /\ txs[n].wallet = approvals[id].wallet
                 /\ approvals[id].status \in StandingsIn(Done, id)
    BY DEF RowsMatchCursor
  <2>1. \A w, b : LogsOf(w, 1, b) = Logs(txs, w, b)
    BY DEF LogsOf, Logs, EventOf
  <2>2. \A n : NameOf(n) = EventOf(txs, n).name /\ IdOf(n) = EventOf(txs, n).id
    BY DEF NameOf, IdOf, EventOf
  <2>3. \A logs : ShownOf(logs) = Shown(txs, logs) /\ FiledIn(logs) = Filed(txs, logs)
    BY <2>2 DEF ShownOf, Shown, FiledIn, Filed
  <2>4. Done = DoneBy
    BY <2>1 DEF Done, DoneBy
  <2>5. \A logs, id : StandingsIn(logs, id) = Standings(txs, logs, id)
    <3>1. \A logs, id : DecisionsIn(logs, id) = Decisions(txs, logs, id)
      BY <2>2 DEF DecisionsIn, Decisions, Settles
    <3>2. \A n : Verdict(n) = VerdictOf(txs, n)
      BY <2>2 DEF Verdict, VerdictOf
    <3> QED BY <3>1, <3>2 DEF StandingsIn, Standings
  <2>6. RowsInv
    BY DEF IndexerInv
  <2>7. \A w \in DOMAIN cursor : feed[w] = ShownOf(LogsOf(w, 1, cursor[w]))
    BY <2>1, <2>3, <2>6 DEF RowsInv, Right
  <2>8. TableRight(txs, DoneBy, approvals)
    BY <2>6 DEF RowsInv
  <2>9. DOMAIN approvals = FiledIn(Done)
    BY <2>3, <2>4, <2>8 DEF TableRight
  <2>10. ASSUME NEW id \in DOMAIN approvals
         PROVE  /\ \E n \in Done : /\ NameOf(n) = "Proposed" /\ IdOf(n) = id
                                   /\ txs[n].wallet = approvals[id].wallet
                /\ approvals[id].status \in StandingsIn(Done, id)
    BY <2>2, <2>4, <2>5, <2>8 DEF TableRight
  <2> QED BY <2>7, <2>9, <2>10
<1> QED BY <1>1, IndexerInvHolds, PTL

\* A mirror that has caught up has the terms and the freeze of the contract,
\* whichever events refreshed it.
THEOREM MirrorHasTheTermsAlways == Spec => []MirrorHasTheTerms
<1>1. IndexerInv => MirrorHasTheTerms
  <2> SUFFICES ASSUME IndexerInv, ~deleted,
                      NEW w \in Wallets, CaughtUp(w), agents[w].hired
      PROVE IsCurrent(mirror[w], agents[w])
    BY DEF MirrorHasTheTerms, IsCurrent
  <2>1. MirrorInv
    BY DEF IndexerInv
  <2>2. w \in DOMAIN cursor /\ cursor[w] = head
    BY DEF CaughtUp
  <2>3. \A n \in DOMAIN txs : ~(txs[n].block > head)
    BY TxIsTyped DEF IndexerInv, ChainInv, ChainTyped, InBlockOrder
  <2> QED BY <2>1, <2>2, <2>3 DEF MirrorInv
<1> QED BY <1>1, IndexerInvHolds, PTL

-----------------------------------------------------------------------------
(***************************************************************************)
(* What the database shows, it keeps.  This is of steps, not of states,    *)
(* and also of steps after a reset: what an open sync has in hand agrees   *)
(* with the table, and what an open reset deletes is its wallet's.         *)
(***************************************************************************)
\* A sync reaches further than its wallet's cursor: nobody else has moved that
\* since it began, but a reset.
SyncIsAhead ==
  sync # NoSync /\ (sync.wallet \notin Showcase \/ ~deleted) =>
    cursor[sync.wallet] <= sync.to

LEMMA CursorsStay ==
  ASSUME ChainInv, DbTyped, [Next]_vars, ~ResetCommit, ~CommitSync
  PROVE  /\ DOMAIN cursor \subseteq DOMAIN cursor'
         /\ \A w \in DOMAIN cursor : cursor'[w] = cursor[w]
         /\ feed' = feed /\ approvals' = approvals
<1>1. CASE StartTick
  <2>1. cursor' = cursor \/ cursor' = Over(cursor, [w \in {DevWallet} |-> 0])
    BY <1>1 DEF StartTick
  <2>2. cursor' # cursor => DevWallet \notin DOMAIN cursor
    BY <1>1 DEF StartTick
  <2>3. feed' = feed /\ approvals' = approvals
    BY <1>1 DEF StartTick
  <2> DEFINE fresh == [w \in {DevWallet} |-> 0]
  <2>4. DOMAIN fresh = {DevWallet}
    OBVIOUS
  <2> HIDE DEF fresh
  <2>5. /\ DOMAIN Over(cursor, fresh) = DOMAIN cursor \cup DOMAIN fresh
        /\ \A w \in DOMAIN cursor \ DOMAIN fresh : Over(cursor, fresh)[w] = cursor[w]
    BY CursorOver
  <2> QED BY <2>1, <2>2, <2>3, <2>4, <2>5 DEF fresh
<1>2. CASE SyncFactory
  BY <1>2, NewCursors DEF SyncFactory
<1>3. CASE Handle
  <2>1. PICK n, rows, mirrorRow, decided : Handled(n, rows, mirrorRow, decided)
    BY <1>3, HandleIsHandled
  <2> QED BY <2>1 DEF Handled, Write, dbVars
<1>4. CASE Chain \/ UNCHANGED vars
  BY <1>4 DEF Chain, vars, dbVars
<1>5. CASE EndTick \/ TickFails \/ SyncFails \/ Crash
  BY <1>5 DEF EndTick, TickFails, SyncFails, Crash, dbVars
<1>6. CASE \E w \in Wallets : SkipWallet(w) \/ BeginSync(w)
  BY <1>6 DEF SkipWallet, BeginSync, dbVars
<1>7. CASE \/ \E w \in Showcase : ResetRead(w)
           \/ ResetDeleteFeed \/ ResetDeleteApprovals \/ ResetFails
  BY <1>7 DEF ResetRead, ResetDeleteFeed, ResetDeleteApprovals, ResetFails, dbVars
<1> QED BY <1>1, <1>2, <1>3, <1>4, <1>5, <1>6, <1>7 DEF Next, TickStep, ResetStep

\* The sync that is under way goes on, or is over, or has just begun.
LEMMA SyncGoesOn ==
  ASSUME DbTyped, [Next]_vars, sync' # NoSync
  PROVE  \/ /\ sync # NoSync /\ ~CommitSync
            /\ sync'.wallet = sync.wallet /\ sync'.to = sync.to
         \/ \E w \in Wallets : BeginSync(w)
<1>1. CASE Handle
  <2>1. PICK n, rows, mirrorRow, decided : Handled(n, rows, mirrorRow, decided)
    BY <1>1, HandleIsHandled
  <2>2. sync # NoSync /\ SyncTyped /\ n \in sync.todo
    BY <2>1 DEF Handled, IsNext, DbTyped
  <2>3. sync'.wallet = sync.wallet /\ sync'.to = sync.to
    BY <2>1, <2>2, HandledFields
  <2>4. ~CommitSync
    BY <2>2 DEF CommitSync
  <2> QED BY <2>2, <2>3, <2>4
<1>2. CASE CommitSync \/ SyncFails \/ Crash
  BY <1>2 DEF CommitSync, SyncFails, Crash
<1>3. ASSUME UNCHANGED sync PROVE sync # NoSync /\ ~CommitSync
  BY <1>3 DEF CommitSync
<1>4. CASE Chain \/ UNCHANGED vars
  BY <1>3, <1>4 DEF Chain, vars, indexerVars
<1>5. CASE StartTick \/ SyncFactory \/ EndTick \/ TickFails
  BY <1>3, <1>5 DEF StartTick, SyncFactory, EndTick, TickFails
<1>6. CASE \E w \in Wallets : SkipWallet(w)
  BY <1>3, <1>6 DEF SkipWallet
<1>7. CASE (\E w \in Showcase : ResetRead(w)) \/ ResetStep \/ ResetFails
  BY <1>3, <1>7 DEF ResetRead, ResetStep, ResetDeleteFeed, ResetDeleteApprovals, ResetCommit,
                      ResetFails, indexerVars
<1> QED BY <1>1, <1>2, <1>4, <1>5, <1>6, <1>7 DEF Next, TickStep

LEMMA SyncStaysAhead == IndexerInv /\ SyncIsAhead /\ [Next]_vars => SyncIsAhead'
<1> SUFFICES ASSUME IndexerInv, SyncIsAhead, [Next]_vars, sync' # NoSync,
                    sync'.wallet \notin Showcase \/ ~deleted'
    PROVE  cursor'[sync'.wallet] <= sync'.to
  BY DEF SyncIsAhead
<1>1. ChainInv /\ DbTyped
  BY DEF IndexerInv
<1>2. ~deleted' => ~deleted /\ ~ResetCommit
  BY NotDeletedBefore
<1>3. CASE sync # NoSync /\ ~CommitSync /\ sync'.wallet = sync.wallet /\ sync'.to = sync.to
  <2>1. sync.wallet \in DOMAIN cursor
    BY <1>1, <1>3 DEF DbTyped, SyncTyped
  <2>2. cursor'[sync.wallet] = cursor[sync.wallet]
    <3>1. CASE ~ResetCommit
      BY <1>1, <1>3, <2>1, <3>1, CursorsStay
    <3>2. CASE ResetCommit
      <4>1. sync.wallet \notin Showcase
        BY <1>2, <1>3, <3>2
      <4>2. reset # NoReset /\ cursor' = [cursor EXCEPT ![reset.wallet] = reset.block]
        BY <3>2 DEF ResetCommit, NoReset
      <4>3. reset.wallet \in Showcase
        BY <1>1, <4>2 DEF DbTyped
      <4> QED BY <2>1, <4>1, <4>2, <4>3
    <3> QED BY <3>1, <3>2
  <2> QED BY <1>2, <1>3, <2>2 DEF SyncIsAhead
<1>4. CASE \E w \in Wallets : BeginSync(w)
  <2>1. PICK w \in Wallets : BeginSync(w)
    BY <1>4
  <2>2. w \in tick.todo /\ head > cursor[w] /\ cursor' = cursor
        /\ sync'.wallet = w /\ sync'.to = head
    BY <2>1 DEF BeginSync, dbVars
  <2>3. w \in DOMAIN cursor /\ cursor[w] \in Int /\ head \in Nat
    BY <1>1, <2>2 DEF DbTyped, Closed, ChainInv, ChainTyped
  <2> QED BY <2>2, <2>3
<1> QED BY <1>1, <1>3, <1>4, SyncGoesOn

\* A settled row stands as somebody has decided its id.
Backed(t, table) ==
  \A id \in DOMAIN table :
    /\ table[id] = [wallet |-> table[id].wallet, status |-> table[id].status]
    /\ table[id].status # "PENDING" =>
         \E n \in Decisions(t, DOMAIN t, id) : table[id].status = VerdictOf(t, n)

\* What the open sync writes over a row is of the same wallet, and settled if
\* the row is.
SyncAgrees ==
  \A id \in DOMAIN sync.approvals \cap DOMAIN approvals :
    /\ sync.approvals[id].wallet = approvals[id].wallet
    /\ approvals[id].status # "PENDING" => sync.approvals[id].status # "PENDING"

\* What the open reset deletes is there and of its wallet.
ResetAgrees ==
  \A id \in reset.approvals : id \in DOMAIN approvals /\ approvals[id].wallet = reset.wallet

KeepInv ==
  /\ Backed(txs, approvals)
  /\ sync # NoSync => Backed(txs, SeenApprovals) /\ SyncAgrees
  /\ reset.phase = "approvals" => ResetAgrees

LEMMA BackedStays ==
  ASSUME NEW t, NEW u, NEW N, NEW e, Grew(t, u, N, e), NEW table, Backed(t, table)
  PROVE  Backed(u, table)
<1>1. \A n \in DOMAIN t : n \in DOMAIN u /\ EventOf(u, n) = EventOf(t, n)
  BY DEF Grew, EventOf
<1>2. \A id : \A n \in Decisions(t, DOMAIN t, id) :
        n \in Decisions(u, DOMAIN u, id) /\ VerdictOf(u, n) = VerdictOf(t, n)
  BY <1>1 DEF Decisions, VerdictOf, Settles
<1> QED BY <1>2 DEF Backed

\* A handler's row is backed by the transaction it handles, and of the wallet
\* the row had before.
LEMMA HandledKeeps ==
  ASSUME ChainInv, SyncTyped, NEW n, NEW rows, NEW mirrorRow, NEW decided,
         Handled(n, rows, mirrorRow, decided), Backed(txs, SeenApprovals), SyncAgrees
  PROVE  Backed(txs, Over(SeenApprovals, decided)) /\ SyncAgrees'
<1> DEFINE id == EventOf(txs, n).id
<1>1. n \in DOMAIN txs /\ NameOf(n) = EventOf(txs, n).name /\ IdOf(n) = id
  BY HandledIsBehind DEF NameOf, IdOf, EventOf
<1>2. sync'.approvals = Over(sync.approvals, decided) /\ approvals' = approvals
  <2>1. approvals' = approvals
    BY DEF Handled, Write, dbVars
  <2> QED BY <2>1, HandledFields
<1>3. \A i \in DOMAIN approvals : i \in DOMAIN SeenApprovals
        /\ SeenApprovals[i].wallet = approvals[i].wallet
        /\ (approvals[i].status # "PENDING" => SeenApprovals[i].status # "PENDING")
  BY DEF SyncAgrees, SeenApprovals, Over
<1>4. CASE decided = Empty
  <2>1. DOMAIN decided = {}
    BY <1>4 DEF Empty
  <2>2. Over(SeenApprovals, decided) = SeenApprovals
    <3>1. IsFunction(SeenApprovals)
      BY DEF IsFunction, SeenApprovals, Over
    <3> QED BY <1>4, <3>1, OverEmpty
  <2>3. Over(sync.approvals, decided) = sync.approvals
    BY <1>4, OverEmpty DEF SyncTyped
  <2> QED BY <1>2, <2>2, <2>3 DEF SyncAgrees
<1>5. CASE decided # Empty
  <2> DEFINE row == decided[id]
  <2>1. /\ DOMAIN decided = {id}
        /\ row = [wallet |-> row.wallet, status |-> row.status]
        /\ row.status # "PENDING" =>
             \E m \in Decisions(txs, DOMAIN txs, id) : row.status = VerdictOf(txs, m)
        /\ id \in DOMAIN SeenApprovals =>
             /\ row.wallet = SeenApprovals[id].wallet
             /\ SeenApprovals[id].status # "PENDING" => row.status # "PENDING"
    <3>1. CASE decided = FiledRow(id)
      <4>1. DOMAIN decided = {id}
            /\ row = IF id \in DOMAIN SeenApprovals THEN SeenApprovals[id]
                     ELSE [wallet |-> sync.wallet, status |-> "PENDING"]
        BY <3>1 DEF FiledRow
      <4>2. CASE id \in DOMAIN SeenApprovals
        BY <4>1, <4>2 DEF Backed
      <4>3. CASE id \notin DOMAIN SeenApprovals
        BY <4>1, <4>3
      <4> QED BY <4>2, <4>3
    <3>2. CASE /\ id \in DOMAIN SeenApprovals /\ Settles(txs, n)
               /\ decided = DecidedRow(id, VerdictOf(txs, n))
      <4>1. DOMAIN decided = {id}
            /\ row = [SeenApprovals[id] EXCEPT !.status = VerdictOf(txs, n)]
        BY <3>2 DEF DecidedRow
      <4>2. SeenApprovals[id] = [wallet |-> SeenApprovals[id].wallet,
                                 status |-> SeenApprovals[id].status]
        BY <3>2 DEF Backed
      <4>3. row = [wallet |-> SeenApprovals[id].wallet, status |-> VerdictOf(txs, n)]
        BY <4>1, <4>2
      <4>4. n \in Decisions(txs, DOMAIN txs, id) /\ VerdictOf(txs, n) # "PENDING"
        BY <1>1, <3>2 DEF Decisions, VerdictOf
      <4> HIDE DEF row
      <4> QED BY <4>1, <4>3, <4>4
    <3> QED BY <1>1, <1>5, <3>1, <3>2 DEF Handled, VerdictOf, Settles
  <2> HIDE DEF row, id
  <2>2. decided[id] = row
    BY DEF row
  <2>3. Backed(txs, Over(SeenApprovals, decided))
    <3> DEFINE new == Over(SeenApprovals, decided)
    <3>1. /\ DOMAIN new = DOMAIN SeenApprovals \cup {id} /\ new[id] = row
          /\ \A i \in DOMAIN SeenApprovals : i # id => new[i] = SeenApprovals[i]
      BY <2>1, <2>2 DEF Over
    <3> HIDE DEF new
    <3>2. ASSUME NEW i \in DOMAIN new
          PROVE  /\ new[i] = [wallet |-> new[i].wallet, status |-> new[i].status]
                 /\ new[i].status # "PENDING" =>
                      \E m \in Decisions(txs, DOMAIN txs, i) : new[i].status = VerdictOf(txs, m)
      <4>1. CASE i = id
        BY <2>1, <3>1, <4>1
      <4>2. CASE i # id
        BY <3>1, <4>2 DEF Backed
      <4> QED BY <4>1, <4>2
    <3>3. Backed(txs, new)
      BY <3>2 DEF Backed
    <3> QED BY <3>3 DEF new
  <2>4. SyncAgrees'
    <3> SUFFICES ASSUME NEW i \in DOMAIN Over(sync.approvals, decided), i \in DOMAIN approvals
        PROVE /\ Over(sync.approvals, decided)[i].wallet = approvals[i].wallet
              /\ approvals[i].status # "PENDING" =>
                   Over(sync.approvals, decided)[i].status # "PENDING"
      BY <1>2 DEF SyncAgrees
    <3>1. CASE i = id
      <4>1. Over(sync.approvals, decided)[i] = row
        BY <2>1, <2>2, <3>1 DEF Over
      <4> QED BY <1>3, <2>1, <3>1, <4>1
    <3>2. CASE i # id
      <4>1. i \in DOMAIN sync.approvals /\ Over(sync.approvals, decided)[i] = sync.approvals[i]
        BY <2>1, <3>2 DEF Over
      <4> QED BY <4>1 DEF SyncAgrees
    <3> QED BY <3>1, <3>2
  <2> QED BY <2>3, <2>4
<1> QED BY <1>4, <1>5

LEMMA KeepStays == IndexerInv /\ KeepInv /\ [Next]_vars => KeepInv'
<1> SUFFICES ASSUME IndexerInv, KeepInv, [Next]_vars PROVE KeepInv'
  OBVIOUS
<1>a. ChainInv /\ DbTyped
  BY DEF IndexerInv
<1>b. NoReset.phase # "approvals"
  BY DEF NoReset
<1>1. CASE Chain
  <2>1. PICK N, e : Grew(txs, txs', N, e)
    BY <1>1, <1>a, ChainGrows
  <2>2. UNCHANGED <<approvals, sync, reset>>
    BY <1>1 DEF Chain, dbVars, indexerVars, resetVars
  <2>3. SeenApprovals' = SeenApprovals /\ (SyncAgrees => SyncAgrees') /\ (ResetAgrees => ResetAgrees')
    BY <2>2 DEF SeenApprovals, SyncAgrees, ResetAgrees
  <2>4. Backed(txs', approvals) /\ (sync # NoSync => Backed(txs', SeenApprovals))
    BY <2>1, BackedStays DEF KeepInv
  <2> QED BY <2>2, <2>3, <2>4 DEF KeepInv
<1>2. ASSUME UNCHANGED <<txs, approvals, sync, reset>>
      PROVE  KeepInv'
  BY <1>2 DEF KeepInv, SeenApprovals, SyncAgrees, ResetAgrees
<1>3. ASSUME UNCHANGED <<txs, approvals, sync>>, reset'.phase # "approvals"
      PROVE  KeepInv'
  BY <1>3 DEF KeepInv, SeenApprovals, SyncAgrees
<1>4. ASSUME UNCHANGED <<txs, approvals>>, sync' = NoSync, reset' \in {reset, NoReset}
      PROVE  KeepInv'
  BY <1>4, <1>b DEF KeepInv, ResetAgrees
<1>5. CASE \E w \in Wallets : BeginSync(w)
  <2>1. UNCHANGED <<txs, approvals, reset>> /\ sync'.approvals = Empty
    BY <1>5 DEF BeginSync, dbVars, resetVars
  <2>2. SeenApprovals' = approvals
    BY <1>a, <2>1, OverEmpty DEF SeenApprovals, DbTyped
  <2>3. SyncAgrees'
    BY <2>1 DEF SyncAgrees, Empty
  <2> QED BY <2>1, <2>2, <2>3 DEF KeepInv, ResetAgrees
<1>6. CASE Handle
  <2>1. PICK n, rows, mirrorRow, decided : Handled(n, rows, mirrorRow, decided)
    BY <1>6, HandleIsHandled
  <2>2. SyncTyped /\ Backed(txs, SeenApprovals) /\ SyncAgrees
    BY <1>a, <2>1 DEF Handled, DbTyped, KeepInv
  <2>3. UNCHANGED <<txs, approvals, reset>>
    BY <2>1 DEF Handled, Write, dbVars, resetVars
  <2>4. SeenApprovals' = Over(SeenApprovals, decided)
    BY <2>1, <2>2, SeenAfter
  <2>5. Backed(txs, Over(SeenApprovals, decided)) /\ SyncAgrees'
    BY <1>a, <2>1, <2>2, HandledKeeps
  <2> QED BY <2>3, <2>4, <2>5 DEF KeepInv, ResetAgrees
<1>7. CASE CommitSync
  <2>1. sync # NoSync /\ sync' = NoSync /\ UNCHANGED <<txs, reset>> /\ approvals' = SeenApprovals
    BY <1>7 DEF CommitSync, chainVars, resetVars
  <2>2. Backed(txs, SeenApprovals) /\ SyncAgrees
    BY <2>1 DEF KeepInv
  <2>3. ASSUME ResetAgrees PROVE ResetAgrees'
    BY <2>1, <2>2, <2>3 DEF ResetAgrees, SyncAgrees, SeenApprovals, Over
  <2> QED BY <2>1, <2>2, <2>3 DEF KeepInv
<1>8. CASE SyncFails \/ Crash
  BY <1>8, <1>4 DEF SyncFails, Crash, chainVars, dbVars, resetVars
<1>9. CASE StartTick \/ SyncFactory \/ EndTick \/ TickFails \/ UNCHANGED vars
  BY <1>9, <1>2 DEF StartTick, SyncFactory, EndTick, TickFails, vars, chainVars, dbVars,
                    indexerVars, resetVars
<1>10. CASE \E w \in Wallets : SkipWallet(w)
  BY <1>10, <1>2 DEF SkipWallet, dbVars, resetVars
<1>11. CASE (\E w \in Showcase : ResetRead(w)) \/ ResetDeleteFeed \/ ResetFails
  BY <1>11, <1>3, <1>b DEF ResetRead, ResetDeleteFeed, ResetFails, chainVars, dbVars, indexerVars
<1>12. CASE ResetDeleteApprovals
  <2>1. /\ UNCHANGED <<txs, approvals, sync>> /\ reset'.wallet = reset.wallet
        /\ reset'.approvals = {id \in DOMAIN approvals : approvals[id].wallet = reset.wallet}
    BY <1>12 DEF ResetDeleteApprovals, chainVars, dbVars, indexerVars
  <2>2. ResetAgrees'
    BY <2>1 DEF ResetAgrees
  <2>3. SeenApprovals' = SeenApprovals /\ (SyncAgrees => SyncAgrees')
    BY <2>1 DEF SeenApprovals, SyncAgrees
  <2> QED BY <2>1, <2>2, <2>3 DEF KeepInv
<1>13. CASE ResetCommit
  <2>1. /\ UNCHANGED <<txs, sync>> /\ reset' = NoReset
        /\ approvals' = [id \in DOMAIN approvals \ reset.approvals |-> approvals[id]]
    BY <1>13 DEF ResetCommit, chainVars, indexerVars
  <2>2. /\ DOMAIN approvals' \subseteq DOMAIN approvals
        /\ \A id \in DOMAIN approvals' : approvals'[id] = approvals[id]
    BY <2>1
  <2>3. Backed(txs, approvals')
    BY <2>2 DEF KeepInv, Backed
  <2>4. ASSUME sync # NoSync PROVE Backed(txs, SeenApprovals') /\ SyncAgrees'
    <3>1. /\ DOMAIN SeenApprovals' \subseteq DOMAIN SeenApprovals
          /\ \A id \in DOMAIN SeenApprovals' : SeenApprovals'[id] = SeenApprovals[id]
      BY <2>1, <2>2 DEF SeenApprovals, Over
    <3>2. Backed(txs, SeenApprovals) /\ SyncAgrees
      BY <2>4 DEF KeepInv
    <3>3. Backed(txs, SeenApprovals')
      BY <3>1, <3>2 DEF Backed
    <3>4. SyncAgrees'
      BY <2>1, <2>2, <3>2 DEF SyncAgrees
    <3> QED BY <3>3, <3>4
  <2> QED BY <1>b, <2>1, <2>3, <2>4 DEF KeepInv
<1> QED BY <1>1, <1>5, <1>6, <1>7, <1>8, <1>9, <1>10, <1>11, <1>12, <1>13
        DEF Next, TickStep, ResetStep

LEMMA KeepInvHolds == Spec => [](KeepInv /\ SyncIsAhead)
<1>1. Init => KeepInv /\ SyncIsAhead
  BY DEF Init, KeepInv, SyncIsAhead, Backed, Empty, NoReset
<1> QED BY <1>1, KeepStays, SyncStaysAhead, IndexerInvHolds, PTL DEF Spec

\* The mirror of the chain only grows (syncOneWallet), and a reset takes from one
\* wallet only (clearWalletFeed): through crashes, failing syncs, ranges that
\* are read again and any number of resets, no other owner sees an action
\* disappear, and nobody a decided approval asked for once more, but for ids
\* that two wallets decide.
THEOREM RowsStayAlways == Spec => RowsStay
<1>1. IndexerInv /\ KeepInv /\ SyncIsAhead /\ [Next]_vars => [RowsAreKept]_vars
  <2> SUFFICES ASSUME IndexerInv, KeepInv, SyncIsAhead, [Next]_vars PROVE RowsAreKept
    OBVIOUS
  <2>1. ChainInv /\ DbTyped /\ \A w \in DOMAIN cursor : cursor[w] \in Int
    BY DEF IndexerInv, DbTyped, Closed
  <2>2. CASE ~CommitSync /\ ~ResetCommit
    <3>1. /\ DOMAIN cursor \subseteq DOMAIN cursor'
          /\ \A w \in DOMAIN cursor : cursor'[w] = cursor[w]
          /\ feed' = feed /\ approvals' = approvals
      BY <2>1, <2>2, CursorsStay
    <3> QED BY <2>1, <3>1 DEF RowsAreKept
  <2>3. CASE CommitSync
    <3> DEFINE v == sync.wallet
    <3>1. /\ sync # NoSync /\ UNCHANGED <<txs, deleted>>
          /\ feed' = [feed EXCEPT ![v] = @ \cup sync.feed]
          /\ approvals' = SeenApprovals
          /\ cursor' = [cursor EXCEPT ![v] = sync.to]
      BY <2>3 DEF CommitSync, chainVars, resetVars
    <3>2. v \in DOMAIN cursor /\ v \in Wallets /\ DOMAIN feed = Wallets /\ sync.to \in Int
          /\ (v \notin Showcase \/ ~deleted => cursor[v] <= sync.to)
      BY <2>1, <3>1 DEF DbTyped, SyncTyped, Closed, SyncIsAhead
    <3>3. SyncAgrees /\ Backed(txs, approvals) /\ Backed(txs, SeenApprovals)
      BY <3>1 DEF KeepInv
    <3> HIDE DEF v
    <3>4. ASSUME NEW w \in DOMAIN cursor, w \notin Showcase \/ ~deleted'
          PROVE  w \in DOMAIN cursor' /\ cursor[w] <= cursor'[w]
      BY <2>1, <3>1, <3>2, <3>4
    <3>5. \A w \in DOMAIN cursor : feed[w] \subseteq feed'[w]
      BY <3>1, <3>2
    <3>6. \A id \in DOMAIN approvals :
            id \in DOMAIN approvals' /\ approvals'[id].wallet = approvals[id].wallet
      BY <3>1, <3>3 DEF SyncAgrees, SeenApprovals, Over
    <3>7. ASSUME NEW id \in DOMAIN approvals, approvals[id].status # "PENDING", ~DecidedTwice(id)'
          PROVE  approvals'[id].status = approvals[id].status
      <4>1. id \in DOMAIN SeenApprovals /\ SeenApprovals[id].status # "PENDING"
        BY <3>3, <3>7 DEF SyncAgrees, SeenApprovals, Over
      <4>2. PICK m \in Decisions(txs, DOMAIN txs, id) : approvals[id].status = VerdictOf(txs, m)
        BY <3>3, <3>7 DEF Backed
      <4>3. PICK n \in Decisions(txs, DOMAIN txs, id) : SeenApprovals[id].status = VerdictOf(txs, n)
        BY <3>3, <4>1 DEF Backed
      <4>4. txs[m].wallet = txs[n].wallet
        <5>1. m \in DecisionsIn(DOMAIN txs, id) /\ n \in DecisionsIn(DOMAIN txs, id)
          BY DEF DecisionsIn, Decisions, Settles, NameOf, IdOf, EventOf
        <5>2. ~DecidedTwice(id)
          BY <3>1, <3>7 DEF DecidedTwice, DecisionsIn, NameOf, IdOf
        <5> QED BY <5>1, <5>2 DEF DecidedTwice
      <4>5. m = n
        BY <2>1, <4>4 DEF ChainInv, SettledOnce, Decisions
      <4> QED BY <3>1, <4>2, <4>3, <4>5
    <3> QED BY <3>4, <3>5, <3>6, <3>7 DEF RowsAreKept
  <2>4. CASE ResetCommit
    <3> DEFINE v == reset.wallet
    <3>1. /\ reset.phase = "approvals" /\ deleted' = TRUE
          /\ feed' = [feed EXCEPT ![v] = @ \ reset.feed]
          /\ approvals' = [id \in DOMAIN approvals \ reset.approvals |-> approvals[id]]
          /\ cursor' = [cursor EXCEPT ![v] = reset.block]
      BY <2>4 DEF ResetCommit
    <3>2. ResetAgrees /\ v \in Showcase /\ v \in DOMAIN cursor /\ DOMAIN feed = Wallets
          /\ DOMAIN cursor \subseteq Wallets
      BY <2>1, <3>1 DEF KeepInv, DbTyped, NoReset
    <3>3. \A id \in DOMAIN approvals : approvals[id].wallet # v => id \notin reset.approvals
      BY <3>2 DEF ResetAgrees
    <3> HIDE DEF v
    <3>4. ASSUME NEW w \in DOMAIN cursor, w \notin Showcase
          PROVE  /\ w \in DOMAIN cursor' /\ cursor[w] <= cursor'[w]
                 /\ feed[w] \subseteq feed'[w]
                 /\ \A id \in DOMAIN approvals : approvals[id].wallet = w =>
                      id \in DOMAIN approvals' /\ approvals'[id].wallet = w
      <4>1. w # v
        BY <3>2, <3>4
      <4>2. w \in DOMAIN cursor' /\ cursor'[w] = cursor[w] /\ feed'[w] = feed[w]
        BY <3>1, <3>2, <4>1
      <4> QED BY <2>1, <3>1, <3>3, <4>1, <4>2
    <3>5. \A id \in DOMAIN approvals' : approvals'[id] = approvals[id]
      BY <3>1
    <3> QED BY <3>1, <3>4, <3>5 DEF RowsAreKept
  <2> QED BY <2>2, <2>3, <2>4
<1> QED BY <1>1, IndexerInvHolds, KeepInvHolds, PTL DEF Spec, RowsStay
=============================================================================
