-------------------------- MODULE WalletProperties --------------------------
(***************************************************************************)
(* What makes a HandlerWallet correct.                                     *)
(***************************************************************************)
EXTENDS HandlerWallet, FiniteSetsExt

\* The dollars of a ledger's entries at the places I, and their ether.
DollarsOf(book, I) == SumFunctionOnSet([i \in DOMAIN book |-> book[i].usd], I)
EtherOf(book, I) == SumFunctionOnSet([i \in DOMAIN book |-> book[i].call.value], I)

\* The same over a storage's proposals, denials and ledger: see
\* ProposalsSettleOnce.
SettlesOnce(approvals, refusals, book) ==
  /\ \A i, j \in DOMAIN book :
       book[i].id # NoId /\ book[i].id = book[j].id => i = j
  /\ \A i \in DOMAIN book : book[i].id # NoId =>
       /\ book[i].id \in DOMAIN approvals \ refusals
       /\ approvals[book[i].id].resolved
       /\ approvals[book[i].id].sessionKey = book[i].key
       /\ approvals[book[i].id].call = book[i].call
       /\ approvals[book[i].id].usdValue = book[i].usd
  /\ \A id \in DOMAIN approvals : approvals[id].resolved =>
       id \in refusals \/ \E i \in DOMAIN book : book[i].id = id
  /\ \A id \in refusals : id \in DOMAIN approvals /\ approvals[id].resolved

\* A proposal is settled at most once: it is paid at most once, never after
\* or before a denial, it is marked resolved exactly when it was paid or
\* denied, and what was paid is what was queued.
ProposalsSettleOnce == SettlesOnce(pendingApprovals, denied, ledger)

\* While a call is in flight nothing else is paid: however the callee calls
\* back into execute, tryExecute or approve, the transaction pays once.
NoPaymentWithinAPayment ==
  /\ Len(frames) <= 1
  /\ frames # <<>> => Len(ledger) = Len(frames[1].ledger) + 1

\* The payments for one hire of key k in the epoch that started at t.
PaidInEpoch(book, k, h, t) ==
  {i \in DOMAIN book : book[i].key = k /\ book[i].hire = h /\ book[i].epoch = t}

\* The books agree with the history: what spentThisEpoch says of a key is
\* the sum of the payments made for it since it was last hired, in the
\* epoch the policy is in; also in mid-call and after a roll-back.
BooksMatchLedger ==
  \A k \in SessionKeys :
    policies[k].spentThisEpoch =
      DollarsOf(ledger, PaidInEpoch(ledger, k, hires[k], policies[k].epochStart))

\* Ether leaves the wallet only by a payment that has an entry in the ledger
\* (an Executed event): received = kept + paid, mid-call included.
EtherIsAccountedFor == balance + EtherOf(ledger, DOMAIN ledger) = funded

\* The payments for one hire of key k in the window of one day from t.
PaidInWindow(k, h, t) ==
  {i \in DOMAIN ledger :
     /\ ledger[i].key = k /\ ledger[i].hire = h
     /\ t <= ledger[i].at /\ ledger[i].at <= t + Day}

\* The epoch is anchored at its first payment and not at midnight, so a day
\* can straddle two of them: whatever the interleaving of direct and approved
\* payments, a key hired once is paid at most twice the highest daily cap in
\* force within any window of a day.
AtMostTwoCapsADay ==
  \A k \in SessionKeys, t \in 0..now : \A h \in 1..hires[k] :
    LET I == PaidInWindow(k, h, t) IN
      I # {} => DollarsOf(ledger, I) <= 2 * Max({ledger[i].cap : i \in I})

-----------------------------------------------------------------------------
(***************************************************************************)
(* Refinement.  The world outside sees a transaction when it is over, so a *)
(* wallet with a call in flight stands for the storage before the call.    *)
(***************************************************************************)
Settled == IF frames = <<>> THEN CurrentStorage ELSE frames[1]

RequestOf(a) == [key |-> a.sessionKey, call |-> a.call, usd |-> a.usdValue]

ReceiptOf(i, e) ==
  [no |-> i, id |-> e.id, what |-> [key |-> e.key, call |-> e.call, usd |-> e.usd]]

RequestsOf(approvals) == [id \in DOMAIN approvals |-> RequestOf(approvals[id])]

ReceiptsOf(book) ==
  {ReceiptOf(i, book[i]) : i \in {j \in DOMAIN book : book[j].id # NoId}}

Asked == [key : SessionKeys, call : Call, usd : Nat]

Queue == INSTANCE CosignQueue WITH
  Request <- Asked,
  requests <- RequestsOf(Settled.pendingApprovals),
  refused <- Settled.denied,
  receipts <- ReceiptsOf(Settled.ledger)

\* What a callee can do to the queue while its own call is in flight: file
\* proposals behind the ones that were there and deny open ones, but neither
\* take back or reword a proposal nor touch the one that is being paid; the
\* storage the wallet would fall back to is in order as well.
CallbacksOnlyAdd ==
  \A n \in DOMAIN frames :
    LET s == frames[n] IN
      /\ SettlesOnce(s.pendingApprovals, s.denied, s.ledger)
      /\ Len(s.pendingApprovals) <= Len(pendingApprovals)
      /\ \A i \in DOMAIN s.pendingApprovals :
           RequestOf(pendingApprovals[i]) = RequestOf(s.pendingApprovals[i])
      /\ s.denied \subseteq denied
      /\ Len(ledger) = Len(s.ledger) + 1
      /\ \A i \in DOMAIN s.ledger : ledger[i] = s.ledger[i]
      /\ ledger[Len(ledger)].id # NoId =>
           LET id == ledger[Len(ledger)].id IN
             id \in DOMAIN s.pendingApprovals /\ ~s.pendingApprovals[id].resolved

\* The wallet implements the abstract queue: seen from outside, requests are
\* only added, and each is paid once as it was filed, or refused, or open.
ImplementsCosignQueue == Queue!Spec
=============================================================================
