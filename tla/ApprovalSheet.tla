--------------------------- MODULE ApprovalSheet ---------------------------
(***************************************************************************)
(* The approval sheet: one request of the cosign queue, which the owner    *)
(* denies with the connected wallet or approves with a Ledger.  Approving  *)
(* goes around the write hook: find the device and the account on it, ask  *)
(* the node for fees and gas, have the device sign, broadcast.             *)
(***************************************************************************)
EXTENDS OwnerTab

VARIABLES
  sheet,    \* the answer to GET /approvals/:id as the page has it
  asking,   \* a request for it is under way
  ledger,   \* the status of useLedgerApprove
  denied,   \* denyRejection: a denial that did not go through
  decisions \* history: the decisions this page has sent, in order, with
            \* whether it heard of the sending

sheetVars == <<sheet, asking, ledger, denied, decisions>>

SheetInit ==
  /\ sheet = "loading" /\ asking = TRUE
  /\ ledger = "idle" /\ denied = FALSE /\ decisions = <<>>

OnSheet == page = "approve"

-----------------------------------------------------------------------------
(* The request as the database has it. *)

\* findForWallet: a request that is not there and one of another wallet are
\* answered alike; so is an owner whose wallet is not indexed yet.
FindForWallet == IF db.wallet /\ db.proposal # "NONE" THEN db.proposal ELSE "missing"

LoadApproval ==
  /\ OnSheet /\ asking
  /\ sheet' = FindForWallet /\ asking' = FALSE
  /\ UNCHANGED <<tab, ledger, denied, decisions>>

\* It is not retried.
ApprovalFails ==
  /\ OnSheet /\ asking /\ Spend("faults")
  /\ sheet' = "failed" /\ asking' = FALSE
  /\ UNCHANGED <<page, chain, db, pool, writes, walletRead, ledger, denied, decisions>>

-----------------------------------------------------------------------------
(* The buttons. *)

Flying == {"connecting", "matching", "awaiting-device-confirmation", "broadcasting"}
ApproveInFlight == ledger \in Flying

\* Mutant: only the other hook's own progress disables a button.
ButtonsWhilePending ==
  /\ OnSheet /\ sheet = "PENDING" /\ ledger # "success"
  /\ ~IsPending("deny") /\ WalletAddressKnown

ButtonsEnabled ==
  /\ OnSheet /\ sheet = "PENDING" /\ ledger # "success"
  /\ ~IsPending("deny") /\ ~ApproveInFlight
  /\ WalletAddressKnown

\* Mutant: the word of an earlier denial stays.
HandleDenyKeepsWord ==
  /\ ButtonsEnabled /\ Spend("clicks")
  /\ Ask("deny", "id", "click")
  /\ UNCHANGED <<page, chain, db, pool, walletRead,
                 sheet, asking, ledger, denied, decisions>>

HandleDeny ==
  /\ ButtonsEnabled /\ Spend("clicks")
  /\ denied' = FALSE
  /\ Ask("deny", "id", "click")
  /\ UNCHANGED <<page, chain, db, pool, walletRead, sheet, asking, ledger, decisions>>

Decided(kind, heard) == decisions' = Append(decisions, [kind |-> kind, heard |-> heard])

\* The hash is there: the caches are dropped and the page is left.
SignDeny ==
  /\ Signs("deny") /\ Decided("deny", TRUE)
  /\ asking' = TRUE /\ Leave
  /\ UNCHANGED <<chain, db, walletRead, budget, sheet, ledger, denied>>

DeclineDeny ==
  /\ \/ Declines("deny") /\ UNCHANGED decisions
     \/ AnswerLost("deny") /\ Decided("deny", FALSE)
  /\ denied' = TRUE
  /\ UNCHANGED <<page, chain, db, walletRead, sheet, asking, ledger>>

HandleApprove ==
  /\ ButtonsEnabled /\ Spend("clicks")
  /\ ledger' = "connecting"
  /\ UNCHANGED <<page, chain, db, pool, writes, walletRead,
                 sheet, asking, denied, decisions>>

-----------------------------------------------------------------------------
(* useLedgerApprove, from await to await. *)

LedgerStep(from, to) ==
  /\ ledger = from /\ ledger' = to
  /\ UNCHANGED <<tab, sheet, asking, denied, decisions>>

ConnectLedger == LedgerStep("connecting", "matching")

\* One of the first accounts is the owner's, and the call would pass: the
\* node estimates its gas.
MatchAndPrepare ==
  /\ Passes("approve")
  /\ LedgerStep("matching", "awaiting-device-confirmation")

SignOnDevice == LedgerStep("awaiting-device-confirmation", "broadcasting")

SendApproval(heard) ==
  /\ ledger = "broadcasting"
  /\ pool' = pool \cup {[kind |-> "approve", call |-> "id"]}
  /\ Decided("approve", heard)

Broadcast ==
  /\ SendApproval(TRUE) /\ ledger' = "success"
  /\ asking' = TRUE
  /\ UNCHANGED <<page, chain, db, writes, walletRead, budget, sheet, denied>>

\* No device, no matching account, a call that would revert, a refusal on
\* the device, a node that does not take the transaction.
LedgerFails ==
  /\ ApproveInFlight /\ ledger' = "error"
  /\ UNCHANGED <<tab, sheet, asking, denied, decisions>>

\* The node takes the transaction and its answer is lost: to the page this
\* is one more failure, and the buttons are back.
BroadcastLost ==
  /\ SendApproval(FALSE) /\ ledger' = "error" /\ Spend("faults")
  /\ UNCHANGED <<page, chain, db, writes, walletRead, sheet, asking, denied>>

LeaveSheet ==
  /\ OnSheet /\ ~ApproveInFlight /\ ~IsPending("deny")
  /\ Leave
  /\ UNCHANGED <<chain, db, pool, writes, walletRead, budget, sheetVars>>

SheetNext ==
  \/ LoadApproval \/ ApprovalFails
  \/ HandleDeny \/ SignDeny \/ DeclineDeny
  \/ HandleApprove \/ ConnectLedger \/ MatchAndPrepare \/ SignOnDevice
  \/ Broadcast \/ LedgerFails \/ BroadcastLost
  \/ LeaveSheet

\* The wallet's prompt and the device are answered one way or the other.
SheetFairness ==
  /\ WF_<<tab, sheetVars>>(LoadApproval)
  /\ WF_<<tab, sheetVars>>(SignDeny \/ DeclineDeny)
  /\ WF_<<tab, sheetVars>>(ConnectLedger \/ MatchAndPrepare \/ SignOnDevice
                           \/ Broadcast \/ LedgerFails)
=============================================================================
