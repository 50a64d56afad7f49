------------------------------ MODULE Sessions ------------------------------
(***************************************************************************)
(* Signing in: the API's nonces and sessions (auth.service.ts), the guard  *)
(* of its routes, and one browser: the cookie its tabs share, its wallet,  *)
(* and of one tab the cached answer to GET /auth/session, the requests for *)
(* it and the sign-ins; of another, what it does to the cookie.            *)
(* A step ends where the code awaits.                                      *)
(***************************************************************************)
EXTENDS Naturals, Sequences

CONSTANTS
  Accounts,     \* the wallet's accounts
  NonceTtl,     \* SIWE_NONCE_TTL_SECONDS
  SessionTtl,   \* SESSION_TTL_SECONDS
  MaxNow,       \* bound on the clock
  MaxNonces,    \* bound on the sign-ins begun
  MaxCalls,     \* bound on the calls of POST /auth/verify
  MaxMoves,     \* bound on the user's doings with the wallet, the page and
                \* another tab
  MaxFaults     \* bound on the requests that fail on the way

ASSUME SessionsAssumption ==
  /\ NonceTtl \in Nat /\ SessionTtl \in Nat /\ MaxNow \in Nat
  /\ MaxNonces \in Nat /\ MaxCalls \in Nat
  /\ MaxMoves \in Nat /\ MaxFaults \in Nat

\* No account, and the answer the browser does not have yet.
Nobody == "nobody"
Loading == "loading"

\* An account is an address, none of the words that stand in its place.
ASSUME AccountsAssumption == Accounts \cap {Nobody, Loading} = {}

VARIABLES
  now,        \* the clock
  nonces,     \* the rows of SiweNonce, in the order of their creation
  calls,      \* the calls of POST /auth/verify and how far each has come
  sessions,   \* the rows of Session; a revoked one is not alive
  wallet,     \* the account the browser's wallet is connected with
  cookie,     \* the session the browser's cookie names, 0 without one
  shown,      \* the session query's data in this tab, Loading without any
  asking,     \* its last request and how far that has come
  signIns,    \* the sign-ins begun, in this tab and in another
  screen,     \* the one this tab's sign-in screen has begun, 0 without one
  ending,     \* the logouts under way: the session each names, and how far
  refused,    \* history: a read was answered 401, and since then neither has
              \* the gate closed nor a sign-in succeeded
  unasked,    \* history: the cookie has changed since the session was asked
              \* for, where the query does not ask again
  moves, faults

server == <<nonces, calls, sessions>>
page == <<cookie, shown, asking, signIns, screen, ending, refused, unasked>>
vars == <<now, server, wallet, page, moves, faults>>

\* A sign-in that is over; a request the query sends with a cookie, and one
\* that has come to its end.
Over == [here |-> TRUE, step |-> "done", account |-> Nobody, nonce |-> 0, call |-> 0]
Ask(session) == [step |-> "sent", session |-> session, answer |-> Nobody]
Rest(step) == [step |-> step, session |-> 0, answer |-> Nobody]

Init ==
  /\ now = 0
  /\ nonces = <<>> /\ calls = <<>> /\ sessions = <<>>
  /\ wallet \in Accounts \cup {Nobody}
  /\ cookie = 0 /\ shown = Loading /\ asking = Ask(0)
  /\ signIns = <<>> /\ screen = 0
  /\ ending = {} /\ refused = FALSE /\ unasked = FALSE
  /\ moves = 0 /\ faults = 0

Tick ==
  /\ now < MaxNow
  /\ now' = now + 1
  /\ UNCHANGED <<server, wallet, page, moves, faults>>

-----------------------------------------------------------------------------
(* The API. *)

\* getSession: the row is there and not past its end.
Live(s) == s # 0 /\ sessions[s].alive /\ sessions[s].until >= now

\* SessionAuthGuard: the account a request goes as, nobody for a 401.
\* The browser drops the cookie when the session's time is over.
GuardPasses(session) == IF Live(session) THEN sessions[session].account ELSE Nobody

\* Mutant: the claim does not ask whether the nonce is spent.
ClaimableAgain(n, a) ==
  /\ nonces[n].account = a
  /\ nonces[n].until > now

\* The claim of verify: one UPDATE that counts the row only if it is the
\* account's, unspent and not expired.
Claimable(n, a) ==
  /\ nonces[n].account = a
  /\ ~nonces[n].spent
  /\ nonces[n].until > now

Spend(n) == [nonces EXCEPT ![n].spent = TRUE]

At(c, step) == [calls EXCEPT ![c].step = step]

\* A message of another chain is refused before its nonce is touched.
RefuseChain(c) ==
  /\ calls[c].step = "sent" /\ ~calls[c].rightChain
  /\ calls' = At(c, "refused")
  /\ UNCHANGED <<now, nonces, sessions, wallet, page, moves, faults>>

ClaimNonce(c) ==
  LET call == calls[c] IN
  /\ call.step = "sent" /\ call.rightChain
  /\ IF Claimable(call.nonce, call.account)
       THEN nonces' = Spend(call.nonce) /\ calls' = At(c, "claimed")
       ELSE UNCHANGED nonces /\ calls' = At(c, "refused")
  /\ UNCHANGED <<now, sessions, wallet, page, moves, faults>>

\* siwe.verify: whether the account the message names has signed it.
CheckSignature(c) ==
  /\ calls[c].step = "claimed"
  /\ calls' = At(c, IF calls[c].signer = calls[c].account THEN "checked" ELSE "refused")
  /\ UNCHANGED <<now, nonces, sessions, wallet, page, moves, faults>>

CreateSession(c) ==
  /\ calls[c].step = "checked"
  /\ sessions' = Append(sessions,
       [account |-> calls[c].account, until |-> now + SessionTtl,
        alive |-> TRUE, nonce |-> calls[c].nonce])
  /\ calls' = [calls EXCEPT ![c].step = "created", ![c].session = Len(sessions) + 1]
  /\ UNCHANGED <<now, nonces, wallet, page, moves, faults>>

\* The API or its database fails while it works on a call.
VerifyFails(c) ==
  /\ faults < MaxFaults
  /\ calls[c].step \in {"sent", "claimed", "checked"}
  /\ calls' = At(c, "refused")
  /\ faults' = faults + 1
  /\ UNCHANGED <<now, nonces, sessions, wallet, page, moves>>

\* The message reaches the API a second time.
PostAgain(c) ==
  /\ Len(calls) < MaxCalls
  /\ calls' = Append(calls, [calls[c] EXCEPT !.step = "sent", !.session = 0])
  /\ UNCHANGED <<now, nonces, sessions, wallet, page, moves, faults>>

-----------------------------------------------------------------------------
(* The browser: the session query and the gate. *)

\* The layout shows the pages to whoever has a session in the cache; to
\* anyone else the sign-in screen, once there is no first answer to wait for.
GateOpen == shown \in Accounts
AtSignIn == shown = Nobody \/ (shown = Loading /\ asking.step = "failed")

\* A screen that goes takes what it knew of its sign-in with it; the sign-in
\* itself goes on.
KeepScreen == screen' = IF AtSignIn' THEN screen ELSE 0

UnderWay == asking.step \in {"sent", "answered"}

\* Without data in the cache the query stays with the request under way.
Joins == shown = Loading /\ UnderWay

\* Mutant: a request under way is left to answer.
InvalidateIdle(session) == asking' = IF UnderWay THEN asking ELSE Ask(session)

\* invalidateQueries: any other request is dropped and a new one sent, with
\* the cookie of the moment.
Invalidate(session) == asking' = IF Joins THEN asking ELSE Ask(session)

\* The answer is made at the API for the cookie the request came with, and
\* stands when it arrives.
AnswerSession ==
  /\ asking.step = "sent"
  /\ asking' = [Rest("answered") EXCEPT !.answer = GuardPasses(asking.session)]
  /\ UNCHANGED <<now, server, wallet, cookie, shown, signIns, screen, ending, refused, unasked, moves, faults>>

ReceiveSession ==
  /\ asking.step = "answered"
  /\ shown' = asking.answer /\ asking' = Rest("no") /\ KeepScreen
  /\ refused' = (refused /\ asking.answer # Nobody)
  /\ UNCHANGED <<now, server, wallet, cookie, signIns, ending, unasked, moves, faults>>

\* The query does not retry by itself; it keeps the data it had, if any.
SessionFails ==
  /\ UnderWay /\ faults < MaxFaults
  /\ asking' = Rest("failed") /\ refused' = FALSE
  /\ faults' = faults + 1
  /\ UNCHANGED <<now, server, wallet, cookie, shown, signIns, screen, ending, unasked, moves>>

\* After a failure the query asks again when the window gets the focus, the
\* network comes back or another component reads it.
RefetchSession ==
  /\ asking.step = "failed"
  /\ asking' = Ask(cookie) /\ unasked' = FALSE
  /\ UNCHANGED shown /\ KeepScreen
  /\ UNCHANGED <<now, server, wallet, cookie, signIns, ending, refused, moves, faults>>

\* Mutant: the query cache has no onError.
ReadRefusedQuietly ==
  /\ GateOpen /\ GuardPasses(cookie) = Nobody
  /\ refused' = TRUE
  /\ UNCHANGED <<now, server, wallet, cookie, shown, asking, signIns, screen, ending, unasked, moves, faults>>

\* Any read of a page: refused for want of a session, it makes the query
\* cache ask for the session again; answered, it changes nothing here.
ReadRefused ==
  /\ GateOpen /\ GuardPasses(cookie) = Nobody
  /\ Invalidate(cookie) /\ refused' = TRUE /\ unasked' = FALSE
  /\ UNCHANGED <<now, server, wallet, cookie, shown, signIns, screen, ending, moves, faults>>

-----------------------------------------------------------------------------
(* The browser: signing in, in this tab and in another. *)

Moves == moves < MaxMoves /\ moves' = moves + 1

Begin(here) ==
  /\ wallet # Nobody /\ Len(signIns) < MaxNonces
  /\ signIns' = Append(signIns, [Over EXCEPT !.here = here, !.step = "nonce", !.account = wallet])

\* The button is there for a connected wallet, and not while the screen's own
\* sign-in is pending.  The mutation keeps the account it began with.
ClickSignIn ==
  /\ AtSignIn /\ (screen # 0 => signIns[screen].step = "done")
  /\ Begin(TRUE) /\ screen' = Len(signIns) + 1
  /\ UNCHANGED <<now, server, wallet, cookie, shown, asking, ending, refused, unasked, moves, faults>>

SignInElsewhere ==
  /\ Moves /\ Begin(FALSE)
  /\ UNCHANGED <<now, server, wallet, cookie, shown, asking, screen, ending, refused, unasked, faults>>

\* issueNonce.
IssueNonce(i) ==
  /\ signIns[i].step = "nonce"
  /\ nonces' = Append(nonces,
       [account |-> signIns[i].account, until |-> now + NonceTtl, spent |-> FALSE])
  /\ signIns' = [signIns EXCEPT ![i].step = "sign", ![i].nonce = Len(nonces) + 1]
  /\ UNCHANGED <<now, calls, sessions, wallet, cookie, shown, asking, screen, ending, refused, unasked, moves, faults>>

\* The wallet signs with the account it is connected with by now; the
\* message goes out with the account of the beginning.
Sign(i) ==
  /\ signIns[i].step = "sign" /\ wallet # Nobody /\ Len(calls) < MaxCalls
  /\ \E right \in BOOLEAN :
       calls' = Append(calls,
         [nonce |-> signIns[i].nonce, account |-> signIns[i].account, signer |-> wallet,
          rightChain |-> right, step |-> "sent", session |-> 0])
  /\ signIns' = [signIns EXCEPT ![i].step = "posted", ![i].call = Len(calls) + 1]
  /\ UNCHANGED <<now, nonces, sessions, wallet, cookie, shown, asking, screen, ending, refused, unasked, moves, faults>>

End(i) == signIns' = [signIns EXCEPT ![i] = Over]

\* The user declines to sign, or the wallet is gone.
DeclineToSign(i) ==
  /\ signIns[i].step = "sign"
  /\ End(i)
  /\ UNCHANGED <<now, server, wallet, cookie, shown, asking, screen, ending, refused, unasked, moves, faults>>

\* The answer sets the cookie, whichever tab it comes to; in this one the
\* mutation's success makes the session query ask again.
SignedIn(i) ==
  LET call == signIns[i].call IN
  /\ signIns[i].step = "posted" /\ calls[call].step = "created"
  /\ cookie' = calls[call].session
  /\ End(i)
  /\ IF signIns[i].here
       THEN Invalidate(calls[call].session) /\ unasked' = Joins
       ELSE UNCHANGED asking /\ unasked' = TRUE
  /\ UNCHANGED shown /\ KeepScreen /\ refused' = FALSE
  /\ UNCHANGED <<now, server, wallet, ending, moves, faults>>

NotSignedIn(i) ==
  /\ signIns[i].step = "posted" /\ calls[signIns[i].call].step = "refused"
  /\ End(i)
  /\ UNCHANGED <<now, server, wallet, cookie, shown, asking, screen, ending, refused, unasked, moves, faults>>

\* The answer to the nonce or to the call is lost, whatever the API does.
SignInFails(i) ==
  /\ signIns[i].step \in {"nonce", "posted"} /\ faults < MaxFaults
  /\ End(i)
  /\ faults' = faults + 1
  /\ UNCHANGED <<now, server, wallet, cookie, shown, asking, screen, ending, refused, unasked, moves>>

-----------------------------------------------------------------------------
(* The browser: the wallet's comings and goings end the session. *)

\* A logout goes out with the cookie of this moment.
Logout(here) == ending' = ending \cup {[session |-> cookie, step |-> "sent", here |-> here]}

\* endSessionIfActive, called with the account connected with, if any.
EndSessionIfActive(account) ==
  IF shown \in Accounts /\ shown # account THEN Logout(TRUE) ELSE UNCHANGED ending

ConnectWallet(a) ==
  /\ Moves /\ wallet = Nobody
  /\ wallet' = a
  /\ EndSessionIfActive(a)
  /\ UNCHANGED <<now, server, cookie, shown, asking, signIns, screen, refused, unasked, faults>>

\* The account changes within a connection, which is no connect to the hook.
SwitchAccount(a) ==
  /\ Moves /\ wallet \notin {Nobody, a}
  /\ wallet' = a
  /\ UNCHANGED <<now, server, page, faults>>

DisconnectWallet ==
  /\ Moves /\ wallet # Nobody
  /\ wallet' = Nobody
  /\ EndSessionIfActive(Nobody)
  /\ UNCHANGED <<now, server, cookie, shown, asking, signIns, screen, refused, unasked, faults>>

LogoutElsewhere ==
  /\ Moves /\ cookie # 0 /\ Logout(FALSE)
  /\ UNCHANGED <<now, server, wallet, cookie, shown, asking, signIns, screen, refused, unasked, faults>>

\* The guarded logout: revoke the session the request came with, and then
\* clear whatever cookie the browser holds when the answer arrives.
Revoke(call) ==
  /\ call.step = "sent" /\ Live(call.session)
  /\ sessions' = [sessions EXCEPT ![call.session].alive = FALSE]
  /\ ending' = (ending \ {call}) \cup {[call EXCEPT !.step = "revoked"]}
  /\ UNCHANGED <<now, nonces, calls, wallet, cookie, shown, asking, signIns, screen, refused, unasked, moves, faults>>

\* However it went, the tab that sent it asks for the session again.
Settle(call, session) ==
  /\ ending' = ending \ {call}
  /\ IF call.here THEN Invalidate(session) /\ unasked' = (unasked /\ Joins)
                  ELSE UNCHANGED <<asking, unasked>>
  /\ UNCHANGED shown /\ KeepScreen
  /\ UNCHANGED <<now, server, wallet, signIns, refused, moves>>

LoggedOut(call) ==
  /\ call.step = "revoked"
  /\ cookie' = 0 /\ Settle(call, 0)
  /\ UNCHANGED faults

\* Refused by the guard: nothing is revoked and the cookie stays.
LogoutRefused(call) ==
  /\ call.step = "sent" /\ ~Live(call.session)
  /\ Settle(call, cookie)
  /\ UNCHANGED <<cookie, faults>>

LogoutFails(call) ==
  /\ faults < MaxFaults /\ faults' = faults + 1
  /\ Settle(call, cookie)
  /\ UNCHANGED cookie

\* The page is loaded anew: its requests are dropped, the wallet connects
\* again on its own.
Reload ==
  /\ Moves
  /\ wallet' = Nobody /\ shown' = Loading /\ asking' = Ask(cookie)
  /\ signIns' = [i \in DOMAIN signIns |-> IF signIns[i].here THEN Over ELSE signIns[i]]
  /\ screen' = 0 /\ ending' = {call \in ending : ~call.here}
  /\ refused' = FALSE /\ unasked' = FALSE
  /\ UNCHANGED <<now, server, cookie, faults>>

-----------------------------------------------------------------------------
Verify(c) ==
  \/ RefuseChain(c) \/ ClaimNonce(c) \/ CheckSignature(c) \/ CreateSession(c)
  \/ VerifyFails(c) \/ PostAgain(c)

Query == AnswerSession \/ ReceiveSession \/ SessionFails \/ RefetchSession \/ ReadRefused

SignInStep(i) ==
  \/ IssueNonce(i) \/ Sign(i) \/ DeclineToSign(i)
  \/ SignedIn(i) \/ NotSignedIn(i) \/ SignInFails(i)

User == ClickSignIn \/ SignInElsewhere \/ DisconnectWallet \/ LogoutElsewhere \/ Reload

EndSession(call) ==
  Revoke(call) \/ LoggedOut(call) \/ LogoutRefused(call) \/ LogoutFails(call)

Next ==
  \/ Tick \/ Query \/ User
  \/ \E c \in DOMAIN calls : Verify(c)
  \/ \E i \in DOMAIN signIns : SignInStep(i)
  \/ \E a \in Accounts : ConnectWallet(a) \/ SwitchAccount(a)
  \/ \E call \in ending : EndSession(call)

\* A request that was sent is answered and its answer taken, or fails.  Each
\* refused read drops the request under way, but a page has only so many
\* reads: one of the requests outlives them.
Fairness == WF_vars(AnswerSession) /\ SF_vars(ReceiveSession)

Spec == Init /\ [][Next]_vars /\ Fairness
=============================================================================
