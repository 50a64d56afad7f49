--------------------------- MODULE SessionProofs ---------------------------
(***************************************************************************)
(* A session is earned, and the account a page shows is the one it acts    *)
(* for, for every number of accounts, calls and nonces and in whatever     *)
(* interleaving sign-ins, logouts and answers run.                         *)
(***************************************************************************)
EXTENDS SessionProperties, TLAPS

Person == Accounts \cup {Nobody}
Steps == {"sent", "refused", "claimed", "checked", "created"}
Nonce == [account : Person, until : Nat, spent : BOOLEAN]
Call == [nonce : Nat, account : Person, signer : Person, rightChain : BOOLEAN,
         step : Steps, session : Nat]
Session == [account : Person, until : Nat, alive : BOOLEAN, nonce : Nat]
SignIn == [here : BOOLEAN, step : {"nonce", "sign", "posted", "done"},
           account : Person, nonce : Nat, call : Nat]

ServerTypes ==
  /\ now \in Nat /\ wallet \in Person /\ signIns \in Seq(SignIn)
  /\ nonces \in Seq(Nonce) /\ calls \in Seq(Call) /\ sessions \in Seq(Session)

\* Whoever names a nonce names one that was issued.
NoncesExist ==
  /\ \A c \in DOMAIN calls : calls[c].nonce \in DOMAIN nonces
  /\ \A i \in DOMAIN sessions : sessions[i].nonce \in DOMAIN nonces
  /\ \A i \in DOMAIN signIns :
       signIns[i].step = "sign" => signIns[i].nonce \in DOMAIN nonces

\* A call past its claim has spent the nonce, alone, and has no session yet.
HasClaim(c) == calls[c].step \in {"claimed", "checked"}
ClaimsAreAlone ==
  /\ \A c \in DOMAIN calls : HasClaim(c) =>
       /\ calls[c].rightChain
       /\ nonces[calls[c].nonce].spent
       /\ nonces[calls[c].nonce].account = calls[c].account
       /\ \A i \in DOMAIN sessions : sessions[i].nonce # calls[c].nonce
  /\ \A c, d \in DOMAIN calls :
       HasClaim(c) /\ HasClaim(d) /\ calls[c].nonce = calls[d].nonce => c = d

CallsGoOn ==
  \A c \in DOMAIN calls :
    /\ calls[c].step = "checked" => calls[c].signer = calls[c].account
    /\ calls[c].session # 0 => calls[c].step = "created"

SInv == ServerTypes /\ NoncesExist /\ ClaimsAreAlone /\ CallsGoOn /\ SessionsAreEarned

-----------------------------------------------------------------------------
(* What the steps are made of. *)

\* One call moves and the others stay.
OneMoves(c, new) ==
  /\ calls' \in Seq(Call) /\ DOMAIN calls' = DOMAIN calls
  /\ calls'[c] = new
  /\ \A d \in DOMAIN calls : d # c => calls'[d] = calls[d]

LEMMA MoveFacts ==
  ASSUME ServerTypes, NEW c \in DOMAIN calls, NEW new \in Call,
         calls' = [calls EXCEPT ![c] = new]
  PROVE  OneMoves(c, new)
  BY DEF ServerTypes, OneMoves

\* A call that takes a step keeps what it is about.
Stepped(c, step) ==
  \E new \in Call :
    /\ OneMoves(c, new)
    /\ new.step = step
    /\ new.nonce = calls[c].nonce /\ new.account = calls[c].account
    /\ new.signer = calls[c].signer /\ new.rightChain = calls[c].rightChain
    /\ new.session = calls[c].session

LEMMA StepFacts ==
  ASSUME ServerTypes, NEW c \in DOMAIN calls, NEW step \in Steps, calls' = At(c, step)
  PROVE  Stepped(c, step)
<1>1. calls[c] \in Call
  BY DEF ServerTypes
<1> DEFINE new == [calls[c] EXCEPT !.step = step]
<1>2. /\ new \in Call /\ new.step = step
      /\ new.nonce = calls[c].nonce /\ new.account = calls[c].account
      /\ new.signer = calls[c].signer /\ new.rightChain = calls[c].rightChain
      /\ new.session = calls[c].session
  BY <1>1 DEF Call
<1>3. calls' = [calls EXCEPT ![c] = new]
  BY DEF At
<1> HIDE DEF new
<1> QED
  BY <1>2, <1>3, MoveFacts DEF Stepped

\* Whichever sign-ins move, none comes to the wallet.
NoNewSign ==
  /\ signIns' \in Seq(SignIn)
  /\ \A i \in DOMAIN signIns' : signIns'[i].step = "sign" =>
       i \in DOMAIN signIns /\ signIns'[i] = signIns[i]

\* One sign-in moves and the others stay.
LEMMA SignInMoves ==
  ASSUME ServerTypes, NEW i \in DOMAIN signIns, NEW new \in SignIn,
         signIns' = [signIns EXCEPT ![i] = new]
  PROVE  /\ signIns' \in Seq(SignIn) /\ DOMAIN signIns' = DOMAIN signIns
         /\ signIns'[i] = new
         /\ \A j \in DOMAIN signIns : j # i => signIns'[j] = signIns[j]
         /\ new.step # "sign" => NoNewSign
<1>1. signIns \in Seq(SignIn)
  BY DEF ServerTypes
<1>2. signIns' \in Seq(SignIn) /\ DOMAIN signIns' = DOMAIN signIns
  BY <1>1
<1>3. signIns'[i] = new /\ \A j \in DOMAIN signIns : j # i => signIns'[j] = signIns[j]
  BY <1>1
<1> QED
  BY <1>2, <1>3 DEF NoNewSign

\* A sign-in whose message is posted.
LEMMA Posted ==
  ASSUME NEW s \in SignIn, calls \in Seq(Call)
  PROVE  LET moved == [s EXCEPT !.step = "posted", !.call = Len(calls) + 1] IN
         moved \in SignIn /\ moved.step = "posted" /\ moved.call = Len(calls) + 1
<1> DEFINE n == Len(calls) + 1
<1>1. n \in Nat
  OBVIOUS
<1> HIDE DEF n
<1>2. LET moved == [s EXCEPT !.step = "posted", !.call = n] IN
      moved \in SignIn /\ moved.step = "posted" /\ moved.call = n
  BY <1>1 DEF SignIn
<1> QED
  BY <1>2 DEF n

LEMMA OverFacts ==
  Over \in SignIn /\ Over.step = "done"
  BY DEF Over, SignIn, Person

LEMMA SignInsRest ==
  ASSUME ServerTypes, UNCHANGED signIns
  PROVE  NoNewSign
  BY DEF ServerTypes, NoNewSign

-----------------------------------------------------------------------------
(* Steps that leave the API's tables alone. *)

LEMMA ServerRests ==
  ASSUME SInv, UNCHANGED server, now' \in Nat, wallet' \in Person, NoNewSign
  PROVE  SInv'
<1> USE DEF server
<1>1. ServerTypes'
  BY DEF SInv, ServerTypes, NoNewSign
<1>2. NoncesExist'
  BY DEF SInv, NoncesExist, NoNewSign
<1>3. ClaimsAreAlone' /\ CallsGoOn'
  BY DEF SInv, ClaimsAreAlone, CallsGoOn, HasClaim
<1>4. SessionsAreEarned'
  BY DEF SInv, SessionsAreEarned
<1> QED
  BY <1>1, <1>2, <1>3, <1>4 DEF SInv

-----------------------------------------------------------------------------
(* Steps of a call. *)

\* A call is refused, or its signature is found good.
LEMMA CallSteps ==
  ASSUME SInv, NEW c \in DOMAIN calls, NEW step \in {"refused", "checked"},
         Stepped(c, step), calls[c].step # "created",
         step = "checked" => HasClaim(c) /\ calls[c].signer = calls[c].account,
         UNCHANGED <<now, nonces, sessions, wallet, signIns>>
  PROVE  SInv'
<1>1. PICK new \in Call :
        /\ OneMoves(c, new)
        /\ new.step = step
        /\ new.nonce = calls[c].nonce /\ new.account = calls[c].account
        /\ new.signer = calls[c].signer /\ new.rightChain = calls[c].rightChain
        /\ new.session = calls[c].session
  BY DEF Stepped
<1> USE DEF OneMoves
<1>2. ServerTypes' /\ NoncesExist'
  BY <1>1 DEF SInv, ServerTypes, NoncesExist
<1>3. \A d \in DOMAIN calls : HasClaim(d)' => HasClaim(d)
  BY <1>1 DEF HasClaim
<1>4. ClaimsAreAlone'
  BY <1>1, <1>3 DEF SInv, ClaimsAreAlone
<1>5. CallsGoOn'
  BY <1>1 DEF SInv, CallsGoOn
<1>6. SessionsAreEarned'
  <2>1. \A d \in DOMAIN calls :
          /\ calls'[d].session = calls[d].session /\ calls'[d].nonce = calls[d].nonce
          /\ calls'[d].signer = calls[d].signer /\ calls'[d].rightChain = calls[d].rightChain
    BY <1>1
  <2> QED
    BY <1>1, <2>1 DEF SInv, SessionsAreEarned
<1> QED
  BY <1>2, <1>4, <1>5, <1>6 DEF SInv

\* The claim finds the nonce unspent: no session has it and no other claim.
LEMMA Claims ==
  ASSUME SInv, NEW c \in DOMAIN calls, Stepped(c, "claimed"), calls[c].step = "sent",
         calls[c].rightChain, Claimable(calls[c].nonce, calls[c].account),
         nonces' = Spend(calls[c].nonce),
         UNCHANGED <<now, sessions, wallet, signIns>>
  PROVE  SInv'
<1> DEFINE n == calls[c].nonce
           row == [nonces[n] EXCEPT !.spent = TRUE]
<1>1. PICK new \in Call :
        /\ OneMoves(c, new)
        /\ new.step = "claimed"
        /\ new.nonce = calls[c].nonce /\ new.account = calls[c].account
        /\ new.signer = calls[c].signer /\ new.rightChain = calls[c].rightChain
        /\ new.session = calls[c].session
  BY DEF Stepped
<1>2. n \in DOMAIN nonces /\ nonces[n] \in Nonce
  BY DEF SInv, NoncesExist, ServerTypes
<1>3. row \in Nonce /\ row.spent /\ row.account = nonces[n].account
  BY <1>2 DEF Nonce
<1>4. nonces' = [nonces EXCEPT ![n] = row]
  BY DEF Spend
<1> HIDE DEF row
<1>5. /\ nonces' \in Seq(Nonce) /\ DOMAIN nonces' = DOMAIN nonces
      /\ nonces'[n] = row
      /\ \A m \in DOMAIN nonces : m # n => nonces'[m] = nonces[m]
  BY <1>2, <1>3, <1>4 DEF SInv, ServerTypes
<1>6. \A m \in DOMAIN nonces :
        nonces'[m].account = nonces[m].account /\ (nonces[m].spent => nonces'[m].spent)
  BY <1>3, <1>5
<1>7. /\ ~nonces[n].spent /\ nonces[n].account = calls[c].account
  BY DEF Claimable
<1>8. /\ \A i \in DOMAIN sessions : sessions[i].nonce # n
      /\ \A d \in DOMAIN calls : HasClaim(d) => calls[d].nonce # n
  BY <1>7 DEF SInv, SessionsAreEarned, ClaimsAreAlone
<1> USE DEF OneMoves
<1>9. ServerTypes' /\ NoncesExist'
  BY <1>1, <1>5 DEF SInv, ServerTypes, NoncesExist
<1>10. \A d \in DOMAIN calls : d # c => (HasClaim(d)' <=> HasClaim(d))
  BY <1>1 DEF HasClaim
<1>11. ClaimsAreAlone'
  <2>1. ASSUME NEW d \in DOMAIN calls', HasClaim(d)'
        PROVE  /\ calls'[d].rightChain
               /\ nonces'[calls'[d].nonce].spent
               /\ nonces'[calls'[d].nonce].account = calls'[d].account
               /\ \A i \in DOMAIN sessions : sessions[i].nonce # calls'[d].nonce
    <3>1. CASE d = c
      BY <1>1, <1>3, <1>5, <1>7, <1>8, <3>1
    <3>2. CASE d # c
      BY <1>1, <1>6, <1>10, <2>1, <3>2 DEF SInv, ClaimsAreAlone, NoncesExist
    <3> QED
      BY <3>1, <3>2
  <2>2. ASSUME NEW d \in DOMAIN calls', NEW e \in DOMAIN calls', HasClaim(d)', HasClaim(e)',
               calls'[d].nonce = calls'[e].nonce
        PROVE  d = e
    BY <1>1, <1>8, <1>10, <2>2 DEF SInv, ClaimsAreAlone
  <2> QED
    BY <2>1, <2>2 DEF ClaimsAreAlone
<1>12. CallsGoOn'
  BY <1>1 DEF SInv, CallsGoOn
<1>13. SessionsAreEarned'
  <2>1. \A d \in DOMAIN calls :
          /\ calls'[d].session = calls[d].session /\ calls'[d].nonce = calls[d].nonce
          /\ calls'[d].signer = calls[d].signer /\ calls'[d].rightChain = calls[d].rightChain
    BY <1>1
  <2> QED
    BY <1>1, <1>6, <2>1, SMTT(30) DEF SInv, SessionsAreEarned, NoncesExist
<1> QED
  BY <1>9, <1>11, <1>12, <1>13 DEF SInv

\* What appending to a table keeps of it.
LEMMA AppendFacts ==
  ASSUME NEW S, NEW seq \in Seq(S), NEW e \in S
  PROVE  /\ Append(seq, e) \in Seq(S)
         /\ Len(seq) \in Nat /\ Len(Append(seq, e)) = Len(seq) + 1
         /\ DOMAIN Append(seq, e) = DOMAIN seq \cup {Len(seq) + 1}
         /\ Len(seq) + 1 \notin DOMAIN seq
         /\ Append(seq, e)[Len(seq) + 1] = e
         /\ \A i \in DOMAIN seq : Append(seq, e)[i] = seq[i]
  OBVIOUS

LEMMA CreateKeeps ==
  ASSUME SInv, NEW c \in DOMAIN calls, CreateSession(c)
  PROVE  SInv'
<1> USE DEF OneMoves
<1>1. calls[c] \in Call /\ sessions \in Seq(Session) /\ now + SessionTtl \in Nat
      /\ calls[c].step = "checked"
  BY SessionsAssumption DEF SInv, ServerTypes, CreateSession
<1> DEFINE i == Len(sessions) + 1
           row == [account |-> calls[c].account, until |-> now + SessionTtl,
                   alive |-> TRUE, nonce |-> calls[c].nonce]
           new == [calls[c] EXCEPT !.step = "created", !.session = i]
<1>2. row \in Session /\ row.nonce = calls[c].nonce /\ row.account = calls[c].account
  BY <1>1 DEF Session, Call
<1>3. sessions' = Append(sessions, row)
  BY DEF CreateSession
<1> HIDE DEF row
<1>4. /\ sessions' \in Seq(Session)
      /\ i \in Nat \ {0}
      /\ DOMAIN sessions' = DOMAIN sessions \cup {i} /\ i \notin DOMAIN sessions
      /\ sessions'[i] = row
      /\ \A j \in DOMAIN sessions : sessions'[j] = sessions[j]
  BY <1>1, <1>2, <1>3, AppendFacts
<1>5. calls' = [calls EXCEPT ![c] = new]
  BY DEF CreateSession
<1> HIDE DEF i
<1>6. /\ new \in Call /\ new.step = "created" /\ new.session = i
      /\ new.nonce = calls[c].nonce /\ new.account = calls[c].account
      /\ new.signer = calls[c].signer /\ new.rightChain = calls[c].rightChain
  BY <1>1, <1>4 DEF Call, Steps
<1> HIDE DEF new
<1>7. OneMoves(c, new)
  BY <1>5, <1>6, MoveFacts DEF SInv
<1>8. UNCHANGED <<now, nonces, wallet, signIns>>
  BY DEF CreateSession, page
<1>9. calls[c].nonce \in DOMAIN nonces
  BY DEF SInv, NoncesExist
<1>10. ServerTypes'
  BY <1>4, <1>7, <1>8 DEF SInv, ServerTypes
<1>11. NoncesExist'
  <2>1. \A d \in DOMAIN calls' : calls'[d].nonce \in DOMAIN nonces
    BY <1>6, <1>7, <1>9 DEF SInv, NoncesExist
  <2>2. \A j \in DOMAIN sessions' : sessions'[j].nonce \in DOMAIN nonces
    BY <1>2, <1>4, <1>9 DEF SInv, NoncesExist
  <2> QED
    BY <1>8, <2>1, <2>2 DEF SInv, NoncesExist
<1>12. HasClaim(c) /\ \A d \in DOMAIN calls : HasClaim(d)' => d # c /\ HasClaim(d)
  BY <1>1, <1>6, <1>7 DEF HasClaim
<1>13. ClaimsAreAlone'
  <2>1. ASSUME NEW d \in DOMAIN calls', HasClaim(d)'
        PROVE  \A j \in DOMAIN sessions' : sessions'[j].nonce # calls'[d].nonce
    <3>1. calls[d].nonce # calls[c].nonce /\ calls'[d] = calls[d]
      BY <1>7, <1>12, <2>1 DEF SInv, ClaimsAreAlone
    <3>2. \A j \in DOMAIN sessions : sessions[j].nonce # calls[d].nonce
      BY <1>7, <1>12, <2>1 DEF SInv, ClaimsAreAlone
    <3> QED
      BY <1>2, <1>4, <3>1, <3>2
  <2>2. \A d \in DOMAIN calls' : HasClaim(d)' =>
          calls'[d] = calls[d] /\ HasClaim(d) /\ d \in DOMAIN calls
    BY <1>7, <1>12
  <2> QED
    BY <1>8, <2>1, <2>2 DEF SInv, ClaimsAreAlone
<1>14. CallsGoOn'
  BY <1>6, <1>7 DEF SInv, CallsGoOn
<1>15. SessionsAreEarned'
  <2>1. ASSUME NEW j \in DOMAIN sessions
        PROVE  /\ nonces[sessions[j].nonce].spent
               /\ nonces[sessions[j].nonce].account = sessions[j].account
               /\ \E d \in DOMAIN calls' :
                    /\ calls'[d].session = j /\ calls'[d].nonce = sessions[j].nonce
                    /\ calls'[d].signer = sessions[j].account /\ calls'[d].rightChain
    <3>1. PICK d \in DOMAIN calls :
            /\ calls[d].session = j /\ calls[d].nonce = sessions[j].nonce
            /\ calls[d].signer = sessions[j].account /\ calls[d].rightChain
      BY DEF SInv, SessionsAreEarned
    <3>2. j # 0
      BY <1>1
    <3>3. calls[d].step = "created"
      BY <3>1, <3>2 DEF SInv, CallsGoOn
    <3>4. calls'[d] = calls[d]
      BY <1>1, <1>7, <3>3
    <3> QED
      BY <1>7, <3>1, <3>4 DEF SInv, SessionsAreEarned
  <2>2. /\ nonces[row.nonce].spent /\ nonces[row.nonce].account = row.account
        /\ calls'[c].session = i /\ calls'[c].nonce = row.nonce
        /\ calls'[c].signer = row.account /\ calls'[c].rightChain
    BY <1>1, <1>2, <1>6, <1>7, <1>12 DEF SInv, ClaimsAreAlone, CallsGoOn
  <2>3. \A j, k \in DOMAIN sessions' : sessions'[j].nonce = sessions'[k].nonce => j = k
    <3>1. \A j \in DOMAIN sessions : sessions[j].nonce # row.nonce
      BY <1>2, <1>12 DEF SInv, ClaimsAreAlone
    <3> QED
      BY <1>4, <3>1 DEF SInv, SessionsAreEarned
  <2>4. nonces' = nonces
    BY <1>8
  <2>5. ASSUME NEW j \in DOMAIN sessions'
        PROVE  /\ nonces[sessions'[j].nonce].spent
               /\ nonces[sessions'[j].nonce].account = sessions'[j].account
               /\ \E d \in DOMAIN calls' :
                    /\ calls'[d].session = j /\ calls'[d].nonce = sessions'[j].nonce
                    /\ calls'[d].signer = sessions'[j].account /\ calls'[d].rightChain
    <3>1. CASE j = i
      BY <1>4, <1>7, <2>2, <3>1
    <3>2. CASE j \in DOMAIN sessions
      BY <1>4, <2>1, <3>2
    <3> QED
      BY <1>4, <3>1, <3>2
  <2> QED
    BY <2>3, <2>4, <2>5 DEF SessionsAreEarned
<1> QED
  BY <1>10, <1>11, <1>13, <1>14, <1>15 DEF SInv

\* A message that comes in, for the first time or again, claims nothing yet.
LEMMA Arrives ==
  ASSUME SInv, NEW new \in Call, new.step = "sent", new.session = 0,
         new.nonce \in DOMAIN nonces, calls' = Append(calls, new),
         NoNewSign, UNCHANGED <<now, nonces, sessions, wallet>>
  PROVE  SInv'
<1> DEFINE i == Len(calls) + 1
<1>1. /\ calls' \in Seq(Call) /\ DOMAIN calls' = DOMAIN calls \cup {i}
      /\ i \notin DOMAIN calls /\ calls'[i] = new
      /\ \A c \in DOMAIN calls : calls'[c] = calls[c]
  BY AppendFacts DEF SInv, ServerTypes
<1> HIDE DEF i
<1>2. ServerTypes' /\ NoncesExist'
  BY <1>1 DEF SInv, ServerTypes, NoncesExist, NoNewSign
<1>3. \A c \in DOMAIN calls' : HasClaim(c)' => c \in DOMAIN calls /\ HasClaim(c)
  BY <1>1 DEF HasClaim
<1>4. ClaimsAreAlone'
  BY <1>1, <1>3 DEF SInv, ClaimsAreAlone
<1>5. CallsGoOn'
  BY <1>1 DEF SInv, CallsGoOn
<1>6. SessionsAreEarned'
  BY <1>1 DEF SInv, SessionsAreEarned
<1> QED
  BY <1>2, <1>4, <1>5, <1>6 DEF SInv

LEMMA IssueKeeps ==
  ASSUME SInv, NEW k \in DOMAIN signIns, IssueNonce(k)
  PROVE  SInv'
<1> DEFINE i == Len(nonces) + 1
           row == [account |-> signIns[k].account, until |-> now + NonceTtl, spent |-> FALSE]
           new == [signIns[k] EXCEPT !.step = "sign", !.nonce = i]
<1>0. signIns[k] \in SignIn /\ now \in Nat /\ nonces \in Seq(Nonce)
  BY DEF SInv, ServerTypes
<1>1. row \in Nonce
  BY <1>0, SessionsAssumption DEF SignIn, Nonce
<1>2. nonces' = Append(nonces, row)
  BY DEF IssueNonce
<1> HIDE DEF row
<1>3. /\ nonces' \in Seq(Nonce) /\ DOMAIN nonces' = DOMAIN nonces \cup {i} /\ i \in Nat
      /\ \A n \in DOMAIN nonces : nonces'[n] = nonces[n]
  BY <1>0, <1>1, <1>2, AppendFacts
<1>4. signIns' = [signIns EXCEPT ![k] = new]
  BY DEF IssueNonce
<1> HIDE DEF i
<1>5. new \in SignIn /\ new.nonce = i
  BY <1>0, <1>3 DEF SignIn
<1> HIDE DEF new
<1>a. /\ signIns' \in Seq(SignIn) /\ DOMAIN signIns' = DOMAIN signIns
      /\ signIns'[k] = new
      /\ \A j \in DOMAIN signIns : j # k => signIns'[j] = signIns[j]
  BY <1>4, <1>5, SignInMoves DEF SInv
<1>6. UNCHANGED <<now, calls, sessions, wallet>>
  BY DEF IssueNonce
<1>7. ServerTypes' /\ NoncesExist'
  BY <1>3, <1>5, <1>6, <1>a DEF SInv, ServerTypes, NoncesExist
<1>8. ClaimsAreAlone' /\ CallsGoOn'
  BY <1>3, <1>6 DEF SInv, NoncesExist, ClaimsAreAlone, CallsGoOn, HasClaim
<1>9. SessionsAreEarned'
  BY <1>3, <1>6 DEF SInv, NoncesExist, SessionsAreEarned
<1> QED
  BY <1>7, <1>8, <1>9 DEF SInv

\* Revoking a session changes neither whose it is nor how it was earned.
LEMMA RevokeKeeps ==
  ASSUME SInv, NEW call, Revoke(call)
  PROVE  SInv'
<1> DEFINE i == call.session
           row == [sessions[i] EXCEPT !.alive = FALSE]
<1>1. sessions' = [sessions EXCEPT ![i] = row] /\ UNCHANGED <<now, nonces, calls, wallet, signIns>>
  BY DEF Revoke
<1>2. i \in DOMAIN sessions => sessions[i] \in Session
  BY DEF SInv, ServerTypes
<1>3. i \in DOMAIN sessions =>
        row \in Session /\ row.nonce = sessions[i].nonce /\ row.account = sessions[i].account
  BY <1>2 DEF Session
<1> HIDE DEF row, i
<1>4. sessions' \in Seq(Session) /\ DOMAIN sessions' = DOMAIN sessions
  <2>1. sessions \in Seq(Session)
    BY DEF SInv, ServerTypes
  <2>2. sessions \in [1..Len(sessions) -> Session] /\ Len(sessions) \in Nat
    BY <2>1
  <2>3. sessions' \in [1..Len(sessions) -> Session]
    <3>1. CASE i \in DOMAIN sessions
      BY <1>1, <1>3, <2>2, <3>1
    <3>2. CASE i \notin DOMAIN sessions
      BY <1>1, <2>2, <3>2
    <3> QED
      BY <3>1, <3>2
  <2> QED
    BY <2>2, <2>3
<1>5. \A j \in DOMAIN sessions :
        sessions'[j].nonce = sessions[j].nonce /\ sessions'[j].account = sessions[j].account
  BY <1>1, <1>3 DEF SInv, ServerTypes
<1>6. ServerTypes' /\ NoncesExist'
  BY <1>1, <1>4, <1>5 DEF SInv, ServerTypes, NoncesExist
<1>7. ClaimsAreAlone' /\ CallsGoOn'
  BY <1>1, <1>4, <1>5 DEF SInv, ClaimsAreAlone, CallsGoOn, HasClaim
<1>8. SessionsAreEarned'
  BY <1>1, <1>4, <1>5 DEF SInv, SessionsAreEarned
<1> QED
  BY <1>6, <1>7, <1>8 DEF SInv

-----------------------------------------------------------------------------
LEMMA VerifyKeeps ==
  ASSUME SInv, NEW c \in DOMAIN calls, Verify(c)
  PROVE  SInv'
<1>1. calls[c] \in Call
  BY DEF SInv, ServerTypes
<1>2. CASE RefuseChain(c)
  <2>1. Stepped(c, "refused")
    BY <1>2, StepFacts DEF RefuseChain, SInv, Steps
  <2> QED
    BY <1>2, <2>1, CallSteps DEF RefuseChain, page
<1>3. CASE ClaimNonce(c)
  <2>1. CASE Claimable(calls[c].nonce, calls[c].account)
    <3>1. Stepped(c, "claimed")
      BY <1>3, <2>1, StepFacts DEF ClaimNonce, SInv, Steps
    <3> QED
      BY <1>3, <2>1, <3>1, Claims DEF ClaimNonce, page
  <2>2. CASE ~Claimable(calls[c].nonce, calls[c].account)
    <3>1. Stepped(c, "refused")
      BY <1>3, <2>2, StepFacts DEF ClaimNonce, SInv, Steps
    <3> QED
      BY <1>3, <2>2, <3>1, CallSteps DEF ClaimNonce, page
  <2> QED
    BY <2>1, <2>2
<1>4. CASE CheckSignature(c)
  <2>1. HasClaim(c) /\ calls[c].step = "claimed"
    BY <1>4 DEF CheckSignature, HasClaim
  <2>2. CASE calls[c].signer = calls[c].account
    <3>1. Stepped(c, "checked")
      BY <1>4, <2>2, StepFacts DEF CheckSignature, SInv, Steps
    <3> QED
      BY <1>4, <2>1, <2>2, <3>1, CallSteps DEF CheckSignature, page
  <2>3. CASE calls[c].signer # calls[c].account
    <3>1. Stepped(c, "refused")
      BY <1>4, <2>3, StepFacts DEF CheckSignature, SInv, Steps
    <3> QED
      BY <1>4, <2>1, <3>1, CallSteps DEF CheckSignature, page
  <2> QED
    BY <2>2, <2>3
<1>5. CASE CreateSession(c)
  BY <1>5, CreateKeeps
<1>6. CASE VerifyFails(c)
  <2>1. Stepped(c, "refused")
    BY <1>6, StepFacts DEF VerifyFails, SInv, Steps
  <2> QED
    BY <1>6, <2>1, CallSteps DEF VerifyFails, page
<1>7. CASE PostAgain(c)
  <2> DEFINE new == [calls[c] EXCEPT !.step = "sent", !.session = 0]
  <2>1. /\ new \in Call /\ new.step = "sent" /\ new.session = 0
        /\ new.nonce = calls[c].nonce
    BY <1>1 DEF Call, Steps
  <2>2. calls' = Append(calls, new)
    BY <1>7 DEF PostAgain
  <2> HIDE DEF new
  <2>3. new.nonce \in DOMAIN nonces
    BY <2>1 DEF SInv, NoncesExist
  <2> QED
    BY <1>1, <1>7, <2>1, <2>2, <2>3, SignInsRest, Arrives DEF PostAgain, page, SInv
<1> QED
  BY <1>2, <1>3, <1>4, <1>5, <1>6, <1>7 DEF Verify

LEMMA SignKeeps ==
  ASSUME SInv, NEW i \in DOMAIN signIns, Sign(i)
  PROVE  SInv'
<1>1. signIns[i] \in SignIn /\ wallet \in Person /\ calls \in Seq(Call)
  BY DEF SInv, ServerTypes
<1>2. PICK right \in BOOLEAN : calls' = Append(calls,
         [nonce |-> signIns[i].nonce, account |-> signIns[i].account, signer |-> wallet,
          rightChain |-> right, step |-> "sent", session |-> 0])
  BY DEF Sign
<1> DEFINE new == [nonce |-> signIns[i].nonce, account |-> signIns[i].account, signer |-> wallet,
                   rightChain |-> right, step |-> "sent", session |-> 0]
           moved == [signIns[i] EXCEPT !.step = "posted", !.call = Len(calls) + 1]
<1>3. new \in Call /\ new.step = "sent" /\ new.session = 0 /\ new.nonce = signIns[i].nonce
  BY <1>1 DEF Call, SignIn, Steps
<1>4. new.nonce \in DOMAIN nonces
  BY <1>3 DEF Sign, SInv, NoncesExist
<1>5. calls' = Append(calls, new)
  BY <1>2
<1> HIDE DEF new
<1>6. signIns' = [signIns EXCEPT ![i] = moved]
  BY DEF Sign
<1>a. moved \in SignIn /\ moved.step = "posted"
  BY <1>1, Posted
<1> HIDE DEF moved
<1>7. NoNewSign
  BY <1>6, <1>a, SignInMoves DEF SInv
<1> QED
  BY <1>3, <1>4, <1>5, <1>7, Arrives DEF Sign

LEMMA BeginFacts ==
  ASSUME ServerTypes, NEW here \in BOOLEAN, Begin(here)
  PROVE  /\ NoNewSign
         /\ \A i \in DOMAIN signIns' : signIns'[i].step = "posted" =>
              i \in DOMAIN signIns /\ signIns'[i] = signIns[i]
<1> DEFINE new == [Over EXCEPT !.here = here, !.step = "nonce", !.account = wallet]
<1>1. new \in SignIn /\ new.step = "nonce"
  BY DEF Over, SignIn, ServerTypes
<1>2. signIns' = Append(signIns, new) /\ signIns \in Seq(SignIn)
  BY DEF Begin, ServerTypes
<1> HIDE DEF new
<1> QED
  BY <1>1, <1>2, AppendFacts DEF NoNewSign

LEMMA EndFacts ==
  ASSUME ServerTypes, NEW i \in DOMAIN signIns, End(i)
  PROVE  /\ NoNewSign
         /\ \A j \in DOMAIN signIns' : signIns'[j].step = "posted" =>
              j \in DOMAIN signIns /\ signIns'[j] = signIns[j]
  BY SignInMoves, OverFacts DEF End

LEMMA ReloadFacts ==
  ASSUME ServerTypes, Reload
  PROVE  /\ NoNewSign
         /\ \A j \in DOMAIN signIns' : signIns'[j].step = "posted" =>
              j \in DOMAIN signIns /\ signIns'[j] = signIns[j]
<1>1. signIns \in [1..Len(signIns) -> SignIn] /\ Len(signIns) \in Nat
  BY DEF ServerTypes
<1>2. signIns' = [j \in DOMAIN signIns |-> IF signIns[j].here THEN Over ELSE signIns[j]]
  BY DEF Reload
<1>3. DOMAIN signIns' = 1..Len(signIns)
      /\ \A j \in DOMAIN signIns' : signIns'[j] = Over \/ signIns'[j] = signIns[j]
  BY <1>1, <1>2
<1>4. signIns' \in [1..Len(signIns) -> SignIn]
  BY <1>1, <1>2, OverFacts
<1>5. signIns' \in Seq(SignIn)
  BY <1>1, <1>4
<1> QED
  BY <1>1, <1>3, <1>5, OverFacts DEF NoNewSign

LEMMA SignInStepKeeps ==
  ASSUME SInv, NEW i \in DOMAIN signIns, SignInStep(i)
  PROVE  SInv'
<1>1. now \in Nat /\ wallet \in Person
  BY DEF SInv, ServerTypes
<1>2. CASE IssueNonce(i)
  BY <1>2, IssueKeeps
<1>3. CASE Sign(i)
  BY <1>3, SignKeeps
<1>4. CASE DeclineToSign(i) \/ SignedIn(i) \/ NotSignedIn(i) \/ SignInFails(i)
  <2>1. End(i) /\ UNCHANGED <<now, wallet, server>>
    BY <1>4 DEF DeclineToSign, SignedIn, NotSignedIn, SignInFails
  <2>2. NoNewSign
    BY <2>1, EndFacts DEF SInv
  <2> QED
    BY <1>1, <2>1, <2>2, ServerRests
<1> QED
  BY <1>2, <1>3, <1>4 DEF SignInStep

LEMMA UserKeeps ==
  ASSUME SInv, User
  PROVE  SInv'
<1>1. now \in Nat /\ wallet \in Person /\ ServerTypes
  BY DEF SInv, ServerTypes
<1>2. CASE ClickSignIn \/ SignInElsewhere
  <2>1. \E here \in BOOLEAN : Begin(here)
    BY <1>2 DEF ClickSignIn, SignInElsewhere
  <2>2. UNCHANGED <<now, wallet, server>>
    BY <1>2 DEF ClickSignIn, SignInElsewhere
  <2>3. NoNewSign
    BY <1>1, <2>1, BeginFacts
  <2> QED
    BY <1>1, <2>2, <2>3, ServerRests
<1>3. CASE DisconnectWallet \/ LogoutElsewhere
  <2>1. UNCHANGED <<now, server, signIns>> /\ wallet' \in Person
    BY <1>1, <1>3 DEF DisconnectWallet, LogoutElsewhere, Person
  <2> QED
    BY <1>1, <2>1, SignInsRest, ServerRests
<1>4. CASE Reload
  <2>1. UNCHANGED <<now, server>> /\ wallet' \in Person
    BY <1>4 DEF Reload, Person
  <2> QED
    BY <1>1, <1>4, <2>1, ReloadFacts, ServerRests
<1> QED
  BY <1>2, <1>3, <1>4 DEF User

LEMMA StepKeeps == SInv /\ [Next]_vars => SInv'
<1> SUFFICES ASSUME SInv, [Next]_vars PROVE SInv'
  OBVIOUS
<1>1. now \in Nat /\ wallet \in Person /\ ServerTypes
  BY DEF SInv, ServerTypes
<1>a. ASSUME UNCHANGED <<server, signIns>>, now' \in Nat, wallet' \in Person PROVE SInv'
  BY <1>1, <1>a, SignInsRest, ServerRests
<1>2. CASE Tick
  BY <1>1, <1>2, <1>a DEF Tick, page
<1>3. CASE Query
  BY <1>1, <1>3, <1>a
     DEF Query, AnswerSession, ReceiveSession, SessionFails, RefetchSession, ReadRefused
<1>4. CASE User
  BY <1>4, UserKeeps
<1>5. ASSUME NEW c \in DOMAIN calls, Verify(c) PROVE SInv'
  BY <1>5, VerifyKeeps
<1>6. ASSUME NEW i \in DOMAIN signIns, SignInStep(i) PROVE SInv'
  BY <1>6, SignInStepKeeps
<1>7. ASSUME NEW a \in Accounts, ConnectWallet(a) \/ SwitchAccount(a) PROVE SInv'
  BY <1>1, <1>7, <1>a DEF ConnectWallet, SwitchAccount, Person, page
<1>8. ASSUME NEW call \in ending, EndSession(call) PROVE SInv'
  <2>1. CASE Revoke(call)
    BY <2>1, RevokeKeeps
  <2>2. CASE LoggedOut(call) \/ LogoutRefused(call) \/ LogoutFails(call)
    BY <1>1, <1>a, <2>2 DEF LoggedOut, LogoutRefused, LogoutFails, Settle
  <2> QED
    BY <1>8, <2>1, <2>2 DEF EndSession
<1>9. CASE UNCHANGED vars
  BY <1>1, <1>9, <1>a DEF vars, page
<1> QED
  BY <1>2, <1>3, <1>4, <1>5, <1>6, <1>7, <1>8, <1>9 DEF Next

LEMMA Initially == Init => SInv
<1> SUFFICES ASSUME Init PROVE SInv
  OBVIOUS
<1> USE DEF Init
<1>1. signIns = <<>> /\ nonces = <<>> /\ calls = <<>> /\ sessions = <<>>
  OBVIOUS
<1>2. DOMAIN nonces = {} /\ DOMAIN calls = {} /\ DOMAIN sessions = {}
      /\ DOMAIN signIns = {}
  BY <1>1
<1>3. nonces \in Seq(Nonce) /\ signIns \in Seq(SignIn) /\ calls \in Seq(Call) /\ sessions \in Seq(Session)
  BY <1>1
<1>4. ServerTypes
  BY <1>1, <1>3 DEF ServerTypes, Person
<1>5. NoncesExist /\ ClaimsAreAlone /\ CallsGoOn /\ SessionsAreEarned
  BY <1>1, <1>2 DEF NoncesExist, ClaimsAreAlone, CallsGoOn, SessionsAreEarned
<1> QED
  BY <1>4, <1>5 DEF SInv

\* However many calls verify the same message, and however they interleave
\* with one another and with logouts, a session stands for a nonce spent on
\* it alone and signed by its account (AuthService.verify).
THEOREM SessionsAreEarnedAlways == Spec => []SessionsAreEarned
<1>1. SInv => SessionsAreEarned
  BY DEF SInv
<1> QED
  BY <1>1, Initially, StepKeeps, PTL DEF Spec

-----------------------------------------------------------------------------
(***************************************************************************)
(* The page and its cookie.                                                *)
(***************************************************************************)
\* A call that has created a session names it, and the page waits for a call
\* there is.
Known ==
  /\ \A c \in DOMAIN calls :
       calls[c].step = "created" => calls[c].session \in DOMAIN sessions
  /\ \A i \in DOMAIN signIns :
       signIns[i].step = "posted" => signIns[i].call \in DOMAIN calls

PageTypes ==
  /\ cookie \in Nat /\ (cookie # 0 => cookie \in DOMAIN sessions)
  /\ shown \in Person \cup {Loading}
  /\ asking \in [step : {"sent", "answered", "no", "failed"}, session : Nat, answer : Person]
  /\ asking.session # 0 => asking.session \in DOMAIN sessions

\* Unless the cookie has changed since, a request under way names the cookie's
\* session and an answer its account.
AnswersAreFresh ==
  ~unasked /\ Live(cookie) =>
    /\ asking.step = "sent" => asking.session = cookie
    /\ asking.step = "answered" => asking.answer = sessions[cookie].account

PInv == SInv /\ Known /\ PageTypes /\ AnswersAreFresh /\ ShownIsSent

\* A session keeps its account and its end, and once over stays over.
SessionsOnlyEnd ==
  /\ DOMAIN sessions \subseteq DOMAIN sessions'
  /\ \A i \in DOMAIN sessions :
       /\ sessions'[i].account = sessions[i].account
       /\ Live(i)' => Live(i)

LEMMA SessionsEnd ==
  ASSUME SInv, [Next]_vars
  PROVE  SessionsOnlyEnd
<1>1. now \in Nat /\ sessions \in Seq(Session)
  BY DEF SInv, ServerTypes
<1>2. ASSUME UNCHANGED sessions, now' = now \/ now' = now + 1
      PROVE  SessionsOnlyEnd
  <2>1. \A i \in DOMAIN sessions : sessions[i].until \in Nat
    <3>1. \A i \in DOMAIN sessions : sessions[i] \in Session
      BY <1>1
    <3> QED
      BY <3>1 DEF Session
  <2> QED
    BY <1>1, <1>2, <2>1 DEF SessionsOnlyEnd, Live
<1>3. ASSUME NEW c \in DOMAIN calls, CreateSession(c) PROVE SessionsOnlyEnd
  <2> DEFINE row == [account |-> calls[c].account, until |-> now + SessionTtl,
                     alive |-> TRUE, nonce |-> calls[c].nonce]
  <2>1. calls[c] \in Call /\ now + SessionTtl \in Nat
    BY <1>1, SessionsAssumption DEF SInv, ServerTypes
  <2>2. row \in Session
    BY <2>1 DEF Session, Call
  <2>3. sessions' = Append(sessions, row) /\ now' = now
    BY <1>3 DEF CreateSession
  <2> HIDE DEF row
  <2>4. DOMAIN sessions \subseteq DOMAIN sessions'
        /\ \A i \in DOMAIN sessions : sessions'[i] = sessions[i]
    BY <1>1, <2>2, <2>3, AppendFacts
  <2> QED
    BY <2>3, <2>4 DEF SessionsOnlyEnd, Live
<1>4. ASSUME NEW call \in ending, Revoke(call) PROVE SessionsOnlyEnd
  <2> DEFINE k == call.session
             row == [sessions[k] EXCEPT !.alive = FALSE]
  <2>1. sessions' = [sessions EXCEPT ![k] = row] /\ now' = now
    BY <1>4 DEF Revoke
  <2>2. \A i \in DOMAIN sessions : sessions[i] \in Session
    BY <1>1
  <2>3. k \in DOMAIN sessions =>
          row.account = sessions[k].account /\ row.alive = FALSE
    BY <2>2 DEF Session
  <2> HIDE DEF row, k
  <2> QED
    BY <2>1, <2>3 DEF SessionsOnlyEnd, Live
<1>5. \/ UNCHANGED sessions /\ (now' = now \/ now' = now + 1)
      \/ \E c \in DOMAIN calls : CreateSession(c)
      \/ \E call \in ending : Revoke(call)
  <2>1. ASSUME NEW c \in DOMAIN calls, Verify(c)
        PROVE  UNCHANGED <<sessions, now>> \/ CreateSession(c)
    BY <2>1 DEF Verify, RefuseChain, ClaimNonce, CheckSignature, VerifyFails, PostAgain
  <2>2. Query \/ User \/ (\E i \in DOMAIN signIns : SignInStep(i)) => UNCHANGED <<sessions, now>>
    BY DEF Query, AnswerSession, ReceiveSession, SessionFails, RefetchSession, ReadRefused,
           User, ClickSignIn, SignInElsewhere, DisconnectWallet, LogoutElsewhere, Reload,
           SignInStep, IssueNonce, Sign, DeclineToSign, SignedIn, NotSignedIn, SignInFails, server
  <2>3. ASSUME NEW call \in ending, EndSession(call)
        PROVE  UNCHANGED <<sessions, now>> \/ Revoke(call)
    BY <2>3 DEF EndSession, LoggedOut, LogoutRefused, LogoutFails, Settle, server
  <2> QED
    BY <2>1, <2>2, <2>3 DEF Next, Tick, ConnectWallet, SwitchAccount, vars, server
<1> QED
  BY <1>2, <1>3, <1>4, <1>5

LEMMA KnownStays ==
  ASSUME SInv, Known, [Next]_vars
  PROVE  Known'
<1>0. calls \in Seq(Call) /\ sessions \in Seq(Session) /\ signIns \in Seq(SignIn) /\ ServerTypes
      /\ Len(calls) \in Nat /\ DOMAIN sessions \subseteq DOMAIN sessions'
  BY SessionsEnd DEF SInv, ServerTypes, SessionsOnlyEnd
<1>1. ASSUME UNCHANGED <<calls, sessions>>,
             UNCHANGED signIns \/ \A i \in DOMAIN signIns' : signIns'[i].step = "posted" =>
                                    i \in DOMAIN signIns /\ signIns'[i] = signIns[i]
      PROVE  Known'
  BY <1>1 DEF Known
<1>2. ASSUME NEW c \in DOMAIN calls, NEW step \in Steps, step # "created",
             calls' = At(c, step), UNCHANGED signIns
      PROVE  Known'
  <2>1. PICK new \in Call : OneMoves(c, new) /\ new.step = step
    BY <1>2, StepFacts DEF SInv, Stepped
  <2> QED
    BY <1>0, <1>2, <2>1 DEF Known, OneMoves
<1>3. ASSUME NEW new \in Call, calls' = Append(calls, new), new.step = "sent",
             \A i \in DOMAIN signIns' : i \in DOMAIN signIns /\
               (signIns'[i] = signIns[i] \/ signIns'[i].call = Len(calls) + 1)
      PROVE  Known'
  <2>1. /\ DOMAIN calls' = DOMAIN calls \cup {Len(calls) + 1}
        /\ calls'[Len(calls) + 1] = new
        /\ \A c \in DOMAIN calls : calls'[c] = calls[c]
    BY <1>0, <1>3, AppendFacts
  <2> QED
    BY <1>0, <1>3, <2>1 DEF Known
<1>4. ASSUME NEW c \in DOMAIN calls, CreateSession(c) PROVE Known'
  <2> DEFINE i == Len(sessions) + 1
             row == [account |-> calls[c].account, until |-> now + SessionTtl,
                     alive |-> TRUE, nonce |-> calls[c].nonce]
             new == [calls[c] EXCEPT !.step = "created", !.session = i]
  <2>1. calls[c] \in Call /\ now + SessionTtl \in Nat
    BY SessionsAssumption DEF SInv, ServerTypes
  <2>2. row \in Session
    BY <2>1 DEF Session, Call
  <2>3. sessions' = Append(sessions, row) /\ calls' = [calls EXCEPT ![c] = new]
        /\ UNCHANGED signIns
    BY <1>4 DEF CreateSession, page
  <2> HIDE DEF row
  <2>4. i \in DOMAIN sessions'
    BY <1>0, <2>2, <2>3, AppendFacts
  <2>5. new.session = i
    BY <2>1 DEF Call
  <2> HIDE DEF new, i
  <2> QED
    BY <1>0, <2>3, <2>4, <2>5 DEF Known
<1>5. ASSUME NEW c \in DOMAIN calls, Verify(c) PROVE Known'
  <2>1. CASE RefuseChain(c)
    BY <1>2, <2>1 DEF RefuseChain, Steps, page
  <2>2. CASE ClaimNonce(c)
    BY <1>2, <2>2 DEF ClaimNonce, Steps, page
  <2>3. CASE CheckSignature(c)
    <3>1. \E step \in {"checked", "refused"} : calls' = At(c, step)
      BY <2>3 DEF CheckSignature
    <3> QED
      BY <1>2, <2>3, <3>1 DEF CheckSignature, Steps, page
  <2>4. CASE VerifyFails(c)
    BY <1>2, <2>4 DEF VerifyFails, Steps, page
  <2>5. CASE PostAgain(c)
    <3> DEFINE new == [calls[c] EXCEPT !.step = "sent", !.session = 0]
    <3>1. calls[c] \in Call
      BY <1>0
    <3>2. new \in Call /\ new.step = "sent"
      BY <3>1 DEF Call, Steps
    <3> QED
      BY <1>3, <2>5, <3>2 DEF PostAgain, page
  <2> QED
    BY <1>4, <1>5, <2>1, <2>2, <2>3, <2>4, <2>5 DEF Verify
<1>6. ASSUME NEW i \in DOMAIN signIns, Sign(i) PROVE Known'
  <2>1. PICK right \in BOOLEAN : calls' = Append(calls,
           [nonce |-> signIns[i].nonce, account |-> signIns[i].account, signer |-> wallet,
            rightChain |-> right, step |-> "sent", session |-> 0])
    BY <1>6 DEF Sign
  <2> DEFINE new == [nonce |-> signIns[i].nonce, account |-> signIns[i].account,
                     signer |-> wallet, rightChain |-> right, step |-> "sent", session |-> 0]
             moved == [signIns[i] EXCEPT !.step = "posted", !.call = Len(calls) + 1]
  <2>a. signIns[i] \in SignIn /\ wallet \in Person
    BY <1>0 DEF ServerTypes
  <2>2. new \in Call /\ new.step = "sent"
    BY <2>a DEF Call, SignIn, Steps
  <2>b. signIns' = [signIns EXCEPT ![i] = moved]
    BY <1>6 DEF Sign
  <2>3. moved \in SignIn /\ moved.call = Len(calls) + 1
    BY <1>0, <2>a, Posted
  <2> HIDE DEF new, moved
  <2>4. calls' = Append(calls, new)
    BY <2>1 DEF new
  <2>5. /\ DOMAIN signIns' = DOMAIN signIns /\ signIns'[i] = moved
        /\ \A j \in DOMAIN signIns : j # i => signIns'[j] = signIns[j]
    BY <1>0, <2>b, <2>3, SignInMoves
  <2> QED
    BY <1>3, <2>2, <2>3, <2>4, <2>5
<1>7. ASSUME NEW i \in DOMAIN signIns, SignInStep(i), ~Sign(i) PROVE Known'
  <2>1. UNCHANGED <<calls, sessions>>
    BY <1>7 DEF SignInStep, IssueNonce, DeclineToSign, SignedIn, NotSignedIn, SignInFails, server
  <2>2. CASE IssueNonce(i)
    <3> DEFINE new == [signIns[i] EXCEPT !.step = "sign", !.nonce = Len(nonces) + 1]
    <3>1. signIns[i] \in SignIn /\ Len(nonces) + 1 \in Nat
      BY <1>0 DEF ServerTypes
    <3>2. new \in SignIn /\ new.step = "sign" /\ signIns' = [signIns EXCEPT ![i] = new]
      BY <2>2, <3>1 DEF SignIn, IssueNonce
    <3> HIDE DEF new
    <3> QED
      BY <1>0, <1>1, <2>1, <3>2, SignInMoves
  <2>3. CASE ~IssueNonce(i)
    <3>1. End(i)
      BY <1>7, <2>3 DEF SignInStep, DeclineToSign, SignedIn, NotSignedIn, SignInFails
    <3> QED
      BY <1>0, <1>1, <2>1, <3>1, EndFacts
  <2> QED
    BY <2>2, <2>3
<1>8. CASE Query \/ User
  <2>1. UNCHANGED <<calls, sessions>>
    BY <1>8 DEF Query, AnswerSession, ReceiveSession, SessionFails, RefetchSession, ReadRefused,
           User, ClickSignIn, SignInElsewhere, DisconnectWallet, LogoutElsewhere, Reload, server
  <2>2. \/ UNCHANGED signIns \/ Reload
        \/ \E here \in BOOLEAN : Begin(here)
    BY <1>8 DEF Query, AnswerSession, ReceiveSession, SessionFails, RefetchSession, ReadRefused,
           User, ClickSignIn, SignInElsewhere, DisconnectWallet, LogoutElsewhere
  <2> QED
    BY <1>0, <1>1, <2>1, <2>2, BeginFacts, ReloadFacts
<1>9. ASSUME NEW call \in ending, EndSession(call) PROVE Known'
  <2>1. UNCHANGED <<calls, signIns>>
    BY <1>9 DEF EndSession, Revoke, LoggedOut, LogoutRefused, LogoutFails, Settle, server
  <2> QED
    BY <1>0, <2>1 DEF Known
<1>10. CASE Tick \/ UNCHANGED vars \/ \E a \in Accounts : ConnectWallet(a) \/ SwitchAccount(a)
  BY <1>1, <1>10 DEF Tick, ConnectWallet, SwitchAccount, vars, server, page
<1> QED
  BY <1>5, <1>6, <1>7, <1>8, <1>9, <1>10 DEF Next

LEMMA AskFacts ==
  ASSUME NEW session \in Nat
  PROVE  /\ Ask(session) \in [step : {"sent", "answered", "no", "failed"}, session : Nat, answer : Person]
         /\ Ask(session).step = "sent" /\ Ask(session).session = session
  BY DEF Ask, Person

LEMMA RestFacts ==
  ASSUME NEW step \in {"answered", "no", "failed"}, NEW p \in Person
  PROVE  /\ Rest(step) \in [step : {"sent", "answered", "no", "failed"}, session : Nat, answer : Person]
         /\ Rest(step).step = step /\ Rest(step).session = 0
         /\ LET r == [Rest(step) EXCEPT !.answer = p] IN
              /\ r \in [step : {"sent", "answered", "no", "failed"}, session : Nat, answer : Person]
              /\ r.step = step /\ r.session = 0 /\ r.answer = p
  BY DEF Rest, Person

\* The page's answer stands for the cookie for as long as neither is
\* replaced, and whatever replaces the cookie asks again or says it does not.
LEMMA PageKeeps == PInv /\ [Next]_vars => PInv'
<1> SUFFICES ASSUME PInv, [Next]_vars PROVE PInv'
  OBVIOUS
<1>1. SInv' /\ Known' /\ SessionsOnlyEnd
  BY StepKeeps, KnownStays, SessionsEnd DEF PInv
<1>2. 0 \in Nat /\ cookie \in Nat /\ ~Live(0)
      /\ \A i \in DOMAIN sessions : i \in Nat
      /\ DOMAIN sessions \subseteq DOMAIN sessions'
  BY <1>1 DEF Live, PInv, PageTypes, SInv, ServerTypes, SessionsOnlyEnd
\* The cookie stays: its session is the same, or has ended.
<1>3. ASSUME UNCHANGED cookie
      PROVE  /\ cookie' \in Nat /\ (cookie' # 0 => cookie' \in DOMAIN sessions')
             /\ Live(cookie)' => /\ Live(cookie)
                                 /\ sessions'[cookie'].account = sessions[cookie].account
  BY <1>1, <1>3 DEF PInv, PageTypes, SessionsOnlyEnd, Live
<1>4. ASSUME UNCHANGED <<cookie, shown, asking, unasked>> PROVE PInv'
  BY <1>1, <1>2, <1>3, <1>4 DEF PInv, PageTypes, AnswersAreFresh, ShownIsSent, GateOpen
\* The session is asked for again, with the cookie of the moment.
<1>5. ASSUME asking' = Ask(cookie'), shown' \in Person \cup {Loading},
             cookie' \in Nat, cookie' # 0 => cookie' \in DOMAIN sessions'
      PROVE  PInv'
  BY <1>1, <1>5, AskFacts DEF PInv, PageTypes, AnswersAreFresh, ShownIsSent
\* The query does not ask again: then the cookie is gone, or it is said.
<1>6. ASSUME UNCHANGED <<shown, asking>>, unasked' \/ cookie' = 0,
             cookie' \in Nat, cookie' # 0 => cookie' \in DOMAIN sessions'
      PROVE  PInv'
  <2>1. ~unasked' => ~Live(cookie)'
    BY <1>6 DEF Live
  <2> QED
    BY <1>1, <1>2, <1>6, <2>1 DEF PInv, PageTypes, AnswersAreFresh, ShownIsSent
<1>7. CASE AnswerSession
  <2> DEFINE answer == GuardPasses(asking.session)
  <2>1. /\ UNCHANGED <<cookie, shown, sessions, now, unasked>> /\ asking.step = "sent"
        /\ asking' = [Rest("answered") EXCEPT !.answer = answer]
    BY <1>7 DEF AnswerSession, server
  <2>2. asking.session # 0 => sessions[asking.session] \in Session
    BY DEF PInv, PageTypes, SInv, ServerTypes
  <2>3. answer \in Person
    BY <2>2 DEF GuardPasses, Live, Session, Person
  <2>4. ~unasked /\ Live(cookie) => answer = sessions[cookie].account
    BY <2>1 DEF GuardPasses, PInv, AnswersAreFresh
  <2> HIDE DEF answer
  <2>5. /\ asking' \in [step : {"sent", "answered", "no", "failed"}, session : Nat, answer : Person]
        /\ asking'.step = "answered" /\ asking'.session = 0 /\ asking'.answer = answer
    BY <2>1, <2>3, RestFacts
  <2> QED
    BY <1>1, <1>3, <2>1, <2>4, <2>5 DEF PInv, PageTypes, AnswersAreFresh, ShownIsSent
<1>8. CASE ReceiveSession
  <2>1. /\ UNCHANGED <<cookie, sessions, now, unasked>> /\ asking.step = "answered"
        /\ asking' = Rest("no") /\ shown' = asking.answer
    BY <1>8 DEF ReceiveSession, server
  <2>2. /\ asking' \in [step : {"sent", "answered", "no", "failed"}, session : Nat, answer : Person]
        /\ asking'.step = "no" /\ asking'.session = 0 /\ shown' \in Person
    BY <2>1, RestFacts DEF PInv, PageTypes, Person
  <2> QED
    BY <1>1, <1>3, <2>1, <2>2 DEF PInv, PageTypes, AnswersAreFresh, ShownIsSent
<1>9. CASE SessionFails
  <2>1. UNCHANGED <<cookie, shown>> /\ asking' = Rest("failed")
    BY <1>9 DEF SessionFails
  <2>2. /\ asking' \in [step : {"sent", "answered", "no", "failed"}, session : Nat, answer : Person]
        /\ asking'.step = "failed" /\ asking'.session = 0
    BY <2>1, RestFacts DEF Person
  <2> QED
    BY <1>1, <1>3, <2>1, <2>2 DEF PInv, PageTypes, AnswersAreFresh, ShownIsSent
<1>10. CASE RefetchSession
  BY <1>3, <1>5, <1>10 DEF RefetchSession, PInv, PageTypes
\* With data in the cache nothing is joined.
<1>11. CASE ReadRefused
  <2>1. ~Joins
    BY <1>11, AccountsAssumption DEF ReadRefused, GateOpen, Joins
  <2> QED
    BY <1>3, <1>5, <1>11, <2>1 DEF ReadRefused, Invalidate, PInv, PageTypes
<1>12. ASSUME NEW i \in DOMAIN signIns, SignedIn(i) PROVE PInv'
  <2> DEFINE k == calls[signIns[i].call].session
  <2>1. k \in DOMAIN sessions /\ sessions' = sessions /\ cookie' = k /\ UNCHANGED shown
    BY <1>12 DEF SignedIn, PInv, Known, server
  <2>2. k \in Nat
    BY <1>2, <2>1
  <2>3. CASE signIns[i].here /\ ~Joins
    <3>1. asking' = Ask(cookie')
      BY <1>12, <2>1, <2>3 DEF SignedIn, Invalidate
    <3> HIDE DEF k
    <3> QED
      BY <1>5, <2>1, <2>2, <3>1 DEF PInv, PageTypes
  <2>4. CASE ~signIns[i].here \/ Joins
    <3>1. UNCHANGED asking /\ unasked'
      BY <1>12, <2>4 DEF SignedIn, Invalidate
    <3> HIDE DEF k
    <3> QED
      BY <1>6, <2>1, <2>2, <3>1
  <2> QED
    BY <2>3, <2>4
<1>13. CASE Reload
  BY <1>3, <1>5, <1>13 DEF Reload
<1>14. ASSUME NEW call \in ending, EndSession(call) PROVE PInv'
  <2>1. CASE Revoke(call)
    BY <1>4, <2>1 DEF Revoke
  <2>2. CASE LoggedOut(call)
    <3>1. cookie' = 0 /\ UNCHANGED shown /\ (UNCHANGED asking \/ asking' = Ask(0))
      BY <2>2 DEF LoggedOut, Settle, Invalidate
    <3> QED
      BY <1>2, <1>5, <1>6, <3>1 DEF PInv, PageTypes
  <2>3. CASE LogoutRefused(call) \/ LogoutFails(call)
    <3>1. UNCHANGED <<cookie, shown>> /\ Settle(call, cookie)
      BY <2>3 DEF LogoutRefused, LogoutFails, Settle
    <3>2. CASE call.here /\ ~Joins
      BY <1>3, <1>5, <3>1, <3>2 DEF Settle, Invalidate, PInv, PageTypes
    <3>3. CASE ~(call.here /\ ~Joins)
      <4>1. UNCHANGED asking /\ (unasked' <=> unasked)
        BY <3>1, <3>3, Zenon DEF Settle, Invalidate
      <4> QED
        BY <1>1, <1>2, <1>3, <3>1, <4>1 DEF PInv, PageTypes, AnswersAreFresh, ShownIsSent, GateOpen
    <3> QED
      BY <3>2, <3>3
  <2> QED
    BY <1>14, <2>1, <2>2, <2>3 DEF EndSession
<1>15. ASSUME NEW c \in DOMAIN calls, Verify(c) PROVE PInv'
  <2>1. UNCHANGED page
    BY <1>15 DEF Verify, RefuseChain, ClaimNonce, CheckSignature, CreateSession,
                 VerifyFails, PostAgain
  <2> QED
    BY <1>4, <2>1 DEF page
<1>16. ASSUME NEW i \in DOMAIN signIns, SignInStep(i), ~SignedIn(i) PROVE PInv'
  BY <1>4, <1>16 DEF SignInStep, IssueNonce, Sign, DeclineToSign, NotSignedIn, SignInFails
<1>17. CASE \/ ClickSignIn \/ SignInElsewhere \/ DisconnectWallet \/ LogoutElsewhere
            \/ Tick \/ UNCHANGED vars
            \/ \E a \in Accounts : ConnectWallet(a) \/ SwitchAccount(a)
  BY <1>4, <1>17 DEF ClickSignIn, SignInElsewhere, DisconnectWallet, LogoutElsewhere, Tick,
     ConnectWallet, SwitchAccount, vars, page
<1> QED
  BY <1>7, <1>8, <1>9, <1>10, <1>11, <1>12, <1>13, <1>14, <1>15, <1>16, <1>17
  DEF Next, Query, User

LEMMA PageStarts == Init => PInv
<1> SUFFICES ASSUME Init PROVE PInv
  OBVIOUS
<1>1. SInv
  BY Initially
<1>2. calls = <<>> /\ sessions = <<>> /\ signIns = <<>> /\ cookie = 0
      /\ shown = Loading /\ asking = Ask(0)
  BY DEF Init
<1>3. DOMAIN calls = {} /\ DOMAIN signIns = {} /\ 0 \in Nat /\ ~Live(0)
  BY <1>2 DEF Live
<1>4. PageTypes
  BY <1>2, <1>3, AskFacts DEF PageTypes
<1> QED
  BY <1>1, <1>2, <1>3, <1>4 DEF PInv, Known, AnswersAreFresh, ShownIsSent

\* The account the gate shows is the account the page's requests go as, as
\* long as there is a live session and no question about it is open.  What
\* changes the cookie drops the answers that were on their way (providers.tsx
\* and the mutations that invalidate the session query), but for another tab
\* and a sign-in that ends before the query has its first answer.
THEOREM ShownIsSentAlways == Spec => []ShownIsSent
<1>1. PInv => ShownIsSent
  BY DEF PInv
<1> QED
  BY <1>1, PageStarts, PageKeeps, PTL DEF Spec
=============================================================================
