------------------------------ MODULE HireFlow ------------------------------
(***************************************************************************)
(* The hire page: pick an agent, set its allowance and permissions,        *)
(* confirm.  An owner without a wallet gets one first, and an effect then  *)
(* hires with the terms that were confirmed.                               *)
(***************************************************************************)
EXTENDS OwnerTab

VARIABLES
  form,       \* the step of the form, the agent picked and the terms set
  lists,      \* the answers to GET /agents/catalog and GET /agents
  awaiting,   \* awaitingWalletForHire
  pending,    \* pendingDraft
  message,    \* rejectionMessage, and the click it is about
  polls,      \* the refetches made since the hire succeeded
  confirmed,  \* history: the drafts of the Confirm clicks
  hires       \* history: the hireAgent transactions that are out, with the
              \* draft and whether the page heard of the sending

hireVars == <<form, lists, awaiting, pending, message, polls, confirmed, hires>>
sheetless == <<page, chain, db, walletRead>>

Nobody == "nobody"
NoDraft == [click |-> 0]
NoMessage == [text |-> "none", click |-> 0]

HireInit ==
  /\ \E t \in Terms : form = [step |-> 0, agent |-> Nobody, terms |-> t]
  /\ lists = [catalog |-> "loading", agents |-> "loading", hired |-> {}]
  /\ awaiting = FALSE /\ pending = NoDraft /\ message = NoMessage
  /\ polls = 0 /\ confirmed = <<>> /\ hires = <<>>

OnHire == page = "hire" /\ ~(IsSuccess("hire") /\ form.agent # Nobody)
Busy == IsPending("create") \/ IsPending("hire")

-----------------------------------------------------------------------------
(* The form. *)

\* GET /agents/catalog: the agents for hire, to whoever is signed in.
LoadCatalog ==
  /\ page = "hire" /\ lists.catalog = "loading"
  /\ lists' = [lists EXCEPT !.catalog = "data"]
  /\ UNCHANGED <<tab, form, awaiting, pending, message, polls, confirmed, hires>>

\* GET /agents: who works for the owner's wallet, nobody without one.
PayrollOf == IF db.wallet THEN db.hired ELSE {}

LoadAgents ==
  /\ page = "hire" /\ lists.agents = "loading"
  /\ lists' = [lists EXCEPT !.agents = "data", !.hired = PayrollOf]
  /\ UNCHANGED <<tab, form, awaiting, pending, message, polls, confirmed, hires>>

ListFails ==
  /\ page = "hire" /\ Spend("faults")
  /\ \E list \in {"catalog", "agents"} :
       lists[list] = "loading" /\ lists' = [lists EXCEPT ![list] = "failed"]
  /\ UNCHANGED <<sheetless, pool, writes,
                 form, awaiting, pending, message, polls, confirmed, hires>>

\* Of the catalog, those not on the payroll as far as it is known.
Hireable == IF lists.catalog = "data" THEN Agents \ lists.hired ELSE {}

PickAgent(a) ==
  /\ OnHire /\ form.step = 0
  /\ lists.catalog # "loading" /\ lists.agents # "loading"
  /\ a \in Hireable /\ form' = [form EXCEPT !.agent = a]
  /\ UNCHANGED <<tab, lists, awaiting, pending, message, polls, confirmed, hires>>

NextStep ==
  /\ OnHire /\ form.step < 2 /\ form.agent # Nobody
  /\ form' = [form EXCEPT !.step = @ + 1]
  /\ UNCHANGED <<tab, lists, awaiting, pending, message, polls, confirmed, hires>>

\* From the permissions one goes back only when nothing is under way.
BackStep ==
  /\ OnHire /\ form.step > 0
  /\ form.step = 2 => ~Busy
  /\ form' = [form EXCEPT !.step = @ - 1]
  /\ UNCHANGED <<tab, lists, awaiting, pending, message, polls, confirmed, hires>>

\* The sliders, and the switches: those move also while a hire is under way.
ChangeTerms(t) ==
  /\ OnHire /\ form.step \in {1, 2} /\ form.agent # Nobody /\ t # form.terms
  /\ form' = [form EXCEPT !.terms = t]
  /\ UNCHANGED <<tab, lists, awaiting, pending, message, polls, confirmed, hires>>

-----------------------------------------------------------------------------
(* Confirm, and what follows from it. *)

DraftOfForm(click) == [click |-> click, agent |-> form.agent, terms |-> form.terms]

ConfirmEnabled == OnHire /\ form.step = 2 /\ ~Busy /\ ~WalletLoading

HandleConfirm ==
  LET draft == DraftOfForm(Len(confirmed) + 1) IN
  /\ ConfirmEnabled /\ Spend("clicks")
  /\ message' = NoMessage
  /\ confirmed' = Append(confirmed, draft)
  /\ IF WalletAddressKnown
       THEN Ask("hire", draft, "click") /\ UNCHANGED <<awaiting, pending>>
       ELSE pending' = draft /\ awaiting' = TRUE /\ Ask("create", draft, "click")
  /\ polls' = 0
  /\ UNCHANGED <<sheetless, pool, form, lists, hires>>

\* Mutant: the terms are read when the wallet is there, not at the click.
ChainIntoHireWithForm ==
  /\ page = "hire" /\ awaiting /\ IsSuccess("create") /\ pending # NoDraft
  /\ awaiting' = FALSE /\ pending' = NoDraft
  /\ Ask("hire", DraftOfForm(pending.click), "effect")
  /\ UNCHANGED <<sheetless, pool, budget, form, lists, message, polls, confirmed, hires>>

\* The effect that hires once the wallet is created.
ChainIntoHire ==
  /\ page = "hire" /\ awaiting /\ IsSuccess("create") /\ pending # NoDraft
  /\ awaiting' = FALSE /\ pending' = NoDraft
  /\ Ask("hire", pending, "effect")
  /\ UNCHANGED <<sheetless, pool, budget, form, lists, message, polls, confirmed, hires>>

SignCreate ==
  /\ Signs("create")
  /\ UNCHANGED <<sheetless, budget, hireVars>>

SentHire(heard) ==
  hires' = Append(hires, [draft |-> writes["hire"].call, heard |-> heard])

SignHire ==
  /\ Signs("hire") /\ SentHire(TRUE)
  /\ UNCHANGED <<sheetless, budget,
                 form, lists, awaiting, pending, message, polls, confirmed>>

\* The catch of handleConfirm.
Rejected(click) ==
  /\ pending' = NoDraft /\ awaiting' = FALSE
  /\ message' = [text |-> "rejected", click |-> click]

DeclineCreate ==
  /\ Declines("create") \/ AnswerLost("create")
  /\ Rejected(writes["create"].call.click)
  /\ UNCHANGED <<sheetless, form, lists, polls, confirmed, hires>>

\* A hire the effect has asked for has a catch of its own.
HireRejected ==
  IF writes["hire"].by = "effect"
    THEN /\ message' = [text |-> "created", click |-> writes["hire"].call.click]
         /\ UNCHANGED <<awaiting, pending>>
    ELSE Rejected(writes["hire"].call.click)

DeclineHire ==
  /\ \/ Declines("hire") /\ UNCHANGED hires
     \/ AnswerLost("hire") /\ SentHire(FALSE)
  /\ HireRejected
  /\ UNCHANGED <<sheetless, form, lists, polls, confirmed>>

-----------------------------------------------------------------------------
(* After a success. *)

\* The fifth refetch comes six seconds after the first and the indexer looks
\* every three: it is done by then, when its reads succeed.
LastPollIsLate == KeepsUp /\ polls = Polls - 1 => db = chain

PollAgents ==
  /\ page = "hire" /\ IsSuccess("hire") /\ polls < Polls
  /\ LastPollIsLate
  /\ polls' = polls + 1
  /\ lists' = [lists EXCEPT !.agents = "data", !.hired = PayrollOf]
  /\ UNCHANGED <<tab, form, awaiting, pending, message, confirmed, hires>>

\* Done, and Cancel, which waits for what is under way.
LeaveHire ==
  /\ page = "hire" /\ ~Busy
  /\ Leave
  /\ UNCHANGED <<chain, db, pool, writes, walletRead, budget, hireVars>>

\* Mutant: of the creation, only what was thrown is told.
HireBannerOfThrown ==
  IsReverted("hire") \/ HasError("hire") \/ HasError("create") \/ message # NoMessage

\* What the page tells of the last Confirm.
HireBanner ==
  \/ IsReverted("hire") \/ IsReverted("create")
  \/ HasError("hire") \/ HasError("create")
  \/ message # NoMessage

HireNext ==
  \/ LoadCatalog \/ LoadAgents \/ ListFails
  \/ \E a \in Agents : PickAgent(a)
  \/ NextStep \/ BackStep
  \/ \E t \in Terms : ChangeTerms(t)
  \/ HandleConfirm \/ ChainIntoHire
  \/ SignCreate \/ SignHire \/ DeclineCreate \/ DeclineHire
  \/ PollAgents \/ LeaveHire

\* The wallet's prompt is answered one way or the other; effects run.
HireFairness ==
  /\ WF_<<tab, hireVars>>(SignCreate \/ DeclineCreate)
  /\ WF_<<tab, hireVars>>(SignHire \/ DeclineHire)
  /\ WF_<<tab, hireVars>>(ChainIntoHire)
  /\ WF_<<tab, hireVars>>(PollAgents)
=============================================================================
