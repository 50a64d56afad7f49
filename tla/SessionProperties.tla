------------------------- MODULE SessionProperties -------------------------
(***************************************************************************)
(* What signing in promises.                                               *)
(***************************************************************************)
EXTENDS Sessions

\* A session is earned once and by its account: it stands for one nonce
\* that was issued to the account and is spent, and for a message of the
\* right chain that the account itself has signed; no nonce starts two
\* sessions, however often and in whatever interleaving its message is
\* verified (the claim of verify, auth.service.ts).
SessionsAreEarned ==
  /\ \A i \in DOMAIN sessions :
       LET s == sessions[i] IN
         /\ nonces[s.nonce].spent /\ nonces[s.nonce].account = s.account
         /\ \E c \in DOMAIN calls :
              /\ calls[c].session = i /\ calls[c].nonce = s.nonce
              /\ calls[c].signer = s.account /\ calls[c].rightChain
  /\ \A i, j \in DOMAIN sessions : sessions[i].nonce = sessions[j].nonce => i = j

\* The account the pages show as signed in is the account their requests
\* go as, whenever the browser has a live session and the last question
\* about it was answered: sign-ins, logouts and answers under way may
\* overtake one another.  Two ways round it are the code's own, and are left
\* out with the history: another tab changed the cookie, or a sign-in ended
\* while the first question about the session was still open, which the
\* query then does not ask again.
ShownIsSent ==
  GateOpen /\ Live(cookie) /\ asking.step = "no" /\ ~unasked
    => sessions[cookie].account = shown

\* A page whose read is refused goes back to the sign-in screen, unless it
\* is loaded anew, a sign-in under way succeeds first or the question about
\* the session fails (the query cache's onError in providers.tsx and the
\* null of fetchSession).
RefusedReadClosesGate == refused ~> ~refused
=============================================================================
