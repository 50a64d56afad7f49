----------------------------- MODULE OwnerPages -----------------------------
(***************************************************************************)
(* The pages on which the owner signs, in one tab, and what they promise.  *)
(***************************************************************************)
EXTENDS HireFlow, ApprovalSheet, AgentFile

pagesVars == <<tab, hireVars, sheetVars, fileVars>>

PagesInit == TabInit /\ HireInit /\ SheetInit /\ FileInit

PagesNext ==
  \/ TabNext /\ UNCHANGED <<hireVars, sheetVars, fileVars>>
  \/ HireNext /\ UNCHANGED <<sheetVars, fileVars>>
  \/ SheetNext /\ UNCHANGED <<hireVars, fileVars>>
  \/ FileNext /\ UNCHANGED <<hireVars, sheetVars>>

PagesSpec ==
  /\ PagesInit /\ [][PagesNext]_pagesVars
  /\ TabFairness /\ HireFairness /\ SheetFairness /\ FileFairness

\* Each hireAgent transaction is one Confirm's, with the agent and the terms
\* of that click and not of a later one, and no Confirm sends two: across
\* the creation of a wallet, during which the switches still move, through
\* refusals, reverts, lost answers and lost receipts (handleConfirm and the
\* effect of hire/page.tsx).
HiresAreConfirmed ==
  /\ \A i \in DOMAIN hires :
       LET d == hires[i].draft IN d.click \in DOMAIN confirmed /\ d = confirmed[d.click]
  /\ \A i, j \in DOMAIN hires : hires[i].draft.click = hires[j].draft.click => i = j

\* "Your wallet was created, but hiring didn't go through" is said of an
\* owner who has a wallet.  Of a click whose sending a page has heard of, now
\* or later, it does not say that it didn't go through: the word of one try
\* does not outlive the next, and what is told as failed is not sent after
\* that (the catches of the three pages).  A transaction whose answer was
\* lost is the exception: the catches take any throw for nothing sent.
MessagesAreTrue ==
  /\ message.text = "created" => chain.wallet
  /\ \A i \in DOMAIN hires : hires[i].heard => hires[i].draft.click # message.click
  /\ denied => \A i \in DOMAIN decisions : decisions[i].kind = "deny" => ~decisions[i].heard
  /\ notToggled => writes["freeze"].step = "declined"

\* Once a sheet has heard of the sending of a decision it sends no other, nor
\* the same again, although two hooks send them and the sheet keeps the
\* request as pending long after: an approval goes on from its success to
\* hide the buttons, a denial leaves the page.  After one whose answer was
\* lost the buttons are back, and a second may follow; the wallet carries out
\* one (ProposalsSettleOnce).
DecisionsDontCross ==
  \A i \in DOMAIN decisions : decisions[i].heard => i = Len(decisions)

\* Every click on a page that signs comes to an end of which the page tells,
\* by a word on this click and not on an earlier one, or the page is left: no
\* step of the chain from click to wallet to transaction to effect to
\* transaction hangs without a word.
Told(n) ==
  \/ IsSuccess("hire") /\ writes["hire"].call.click = n
  \/ HireBanner /\ message.click = n
  \/ /\ HireBanner
     /\ \E h \in {"create", "hire"} :
          (IsReverted(h) \/ HasError(h)) /\ writes[h].call.click = n
\* Another Confirm, in the moment between a creation and its effect, or the
\* effect after that: the hook follows the later call.
Overtaken(n) ==
  \/ Len(confirmed) > n
  \/ writes["hire"] # Idle /\ writes["hire"].by = "effect" /\ writes["hire"].call.click < n
ClicksAreAnswered ==
  /\ \A n \in 1..Budget["clicks"] :
       Len(confirmed) = n ~> (Told(n) \/ Overtaken(n) \/ page = "left")
  /\ ApproveInFlight ~> (ledger \in {"success", "error"} \/ page = "left")
  /\ writes["deny"].step = "asking" ~> (denied \/ page = "left")
  /\ IsPending("freeze") ~> ~IsPending("freeze")

\* A page whose transaction has succeeded comes to show what it did, unless
\* the page is left, clicked again first, or the chain was changed from
\* elsewhere: the refetches outlast the indexer's delay (the comments at
\* hire/page.tsx:102-106 and agent/[id]/page.tsx:41-44).
HireShown ==
  IsSuccess("hire") /\ page = "hire" => writes["hire"].call.agent \in lists.hired
FreezeShown ==
  IsSuccess("freeze") /\ page = "file" =>
    \/ file.frozen = writes["freeze"].call
    \/ chain.frozen # writes["freeze"].call
SuccessIsShown ==
  (IsSuccess("hire") ~> HireShown) /\ (IsSuccess("freeze") ~> FreezeShown)
=============================================================================
