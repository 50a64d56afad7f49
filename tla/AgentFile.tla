----------------------------- MODULE AgentFile -----------------------------
(***************************************************************************)
(* The agent's file: its policy as indexed, and the button that freezes    *)
(* the agent or lets it spend again.                                       *)
(***************************************************************************)
EXTENDS OwnerTab

VARIABLES
  file,         \* the answer to GET /agents/:id as the page has it
  filePolls,    \* the refetches made since the freeze succeeded
  notToggled    \* freezeRejection: a toggle that did not go through

fileVars == <<file, filePolls, notToggled>>

FileInit ==
  /\ file = [state |-> "loading", frozen |-> FALSE]
  /\ filePolls = 0 /\ notToggled = FALSE

OnFile == page = "file"

\* agentFile: the policy of the owner's wallet for this agent, null if it
\* has none.
AgentFileOf ==
  [state |-> IF db.wallet /\ db.hired # {} THEN "policy" ELSE "unhired",
   frozen |-> db.frozen]

LoadFile ==
  /\ OnFile /\ file.state = "loading"
  /\ file' = AgentFileOf
  /\ UNCHANGED <<tab, filePolls, notToggled>>

\* An agent that is not there, or a request that fails: not retried.
FileFails ==
  /\ OnFile /\ file.state = "loading" /\ Spend("faults")
  /\ file' = [file EXCEPT !.state = "failed"]
  /\ UNCHANGED <<page, chain, db, pool, writes, walletRead,
                 filePolls, notToggled>>

ToggleEnabled ==
  OnFile /\ file.state = "policy" /\ ~IsPending("freeze") /\ WalletAddressKnown

\* The opposite of what the page shows.
HandleToggleFreeze ==
  /\ ToggleEnabled /\ Spend("clicks")
  /\ notToggled' = FALSE
  /\ Ask("freeze", ~file.frozen, "click")
  /\ filePolls' = 0
  /\ UNCHANGED <<page, chain, db, pool, walletRead, file>>

SignFreeze ==
  /\ Signs("freeze")
  /\ UNCHANGED <<page, chain, db, walletRead, budget, fileVars>>

DeclineFreeze ==
  /\ Declines("freeze") \/ AnswerLost("freeze")
  /\ notToggled' = TRUE
  /\ UNCHANGED <<page, chain, db, walletRead, file, filePolls>>

\* As on the hire page.
LastFilePollIsLate == KeepsUp /\ filePolls = Polls - 1 => db = chain

\* Mutant: one refetch, right after the confirmation.
PollFileOnce ==
  /\ OnFile /\ IsSuccess("freeze") /\ filePolls = 0
  /\ filePolls' = Polls
  /\ file' = AgentFileOf
  /\ UNCHANGED <<tab, notToggled>>

PollFile ==
  /\ OnFile /\ IsSuccess("freeze") /\ filePolls < Polls
  /\ LastFilePollIsLate
  /\ filePolls' = filePolls + 1
  /\ file' = AgentFileOf
  /\ UNCHANGED <<tab, notToggled>>

LeaveFile ==
  /\ OnFile /\ Leave
  /\ UNCHANGED <<chain, db, pool, writes, walletRead, budget, fileVars>>

FileNext ==
  \/ LoadFile \/ FileFails
  \/ HandleToggleFreeze \/ SignFreeze \/ DeclineFreeze
  \/ PollFile \/ LeaveFile

FileFairness ==
  /\ WF_<<tab, fileVars>>(SignFreeze \/ DeclineFreeze)
  /\ WF_<<tab, fileVars>>(PollFile)
=============================================================================
