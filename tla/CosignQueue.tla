---------------------------- MODULE CosignQueue ----------------------------
(***************************************************************************)
(* What the wallet's cosign queue promises, without saying how: a request  *)
(* is settled at most once, either paid or refused, and the money that     *)
(* leaves through the queue pays exactly what was requested.  There is no  *)
(* call in flight and no roll-back here: a step is a whole transaction,    *)
(* whose callee may have filed and refused further requests meanwhile.     *)
(***************************************************************************)
EXTENDS Naturals, Sequences

CONSTANT Request   \* what can be asked for

VARIABLES
  requests,   \* the requests filed, in order
  refused,    \* the places in `requests` the owner refused
  receipts    \* the payments made, numbered: [no : Nat, id : place in `requests`,
              \* what : Request]

vars == <<requests, refused, receipts>>

Paid == {r.id : r \in receipts}
Open == DOMAIN requests \ (Paid \cup refused)

Init == requests = <<>> /\ refused = {} /\ receipts = {}

\* Requests are only ever added behind the ones already filed.
FileMore ==
  /\ requests' \in Seq(Request)
  /\ Len(requests') >= Len(requests)
  /\ \A i \in DOMAIN requests : requests'[i] = requests[i]

\* The owner refuses open requests, new ones included.
RefuseSome ==
  /\ refused \subseteq refused'
  /\ refused' \ refused \subseteq DOMAIN requests' \ Paid

\* At most one open request is paid, in full and to the letter.
PaySome ==
  \/ receipts' = receipts
  \/ \E r \in receipts' :
       /\ r.id \in Open \ refused'
       /\ r.what = requests[r.id]
       /\ receipts' = receipts \cup {r}

Transaction == FileMore /\ RefuseSome /\ PaySome

Spec == Init /\ [][Transaction]_vars
=============================================================================
