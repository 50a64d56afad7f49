--------------------------- MODULE ActivityStream ---------------------------
(***************************************************************************)
(* The activity feed of one wallet and its two readers: the event stream   *)
(* behind the toasts, and the pages of the activity screen.                *)
(*                                                                         *)
(* A row is its seq.  The indexer commits rows in the order of their seq,  *)
(* some at a time; the demo director deletes all of them.  The server      *)
(* keeps a cursor for each connection and polls; the browser's EventSource *)
(* connects again by itself, with the id of the last event it has got.     *)
(***************************************************************************)
EXTENDS Integers, Sequences, FiniteSets

CONSTANTS
  PollLimit,    \* rows a poll may return
  PageLimit,    \* rows a page may have
  MaxRows,      \* bound on the rows ever written
  MaxResets,    \* bound on resets
  MaxLosses,    \* bound on connections broken by the network or a thrown query
  MaxMounts     \* bound on the sources a browser opens

ASSUME StreamAssumption ==
  /\ PollLimit \in Nat \ {0} /\ PageLimit \in Nat \ {0}
  /\ MaxRows \in Nat /\ MaxResets \in Nat /\ MaxLosses \in Nat /\ MaxMounts \in Nat

VARIABLES
  hasWallet,   \* whether the owner's wallet is in the database
  rows,        \* the wallet's rows
  written,     \* the last seq handed out
  source,      \* the browser's EventSource
  got,         \* the events it has dispatched since it was opened, or since
               \* the last error message
  conn,        \* the server's side of its connection
  wire,        \* events sent and not dispatched
  pages,       \* the rows of the pages fetched, in order
  before,      \* the cursor of the next page
  resets, losses, mounts

feedVars == <<hasWallet, rows, written>>
streamVars == <<source, got, conn, wire>>
pageVars == <<pages, before>>
vars == <<feedVars, streamVars, pageVars, resets, losses, mounts>>

Seq0 == 0                \* the cursor of an empty feed, and no Last-Event-ID
ErrorId == 1             \* the id of an error message
FirstPage == MaxRows + 1
LastPage == -1

NoConn == [phase |-> "none", cursor |-> Seq0, batch |-> <<>>]

Init ==
  /\ hasWallet = FALSE /\ rows = {} /\ written = 0
  /\ source = [state |-> "closed", lastId |-> Seq0]
  /\ got = <<>> /\ conn = NoConn /\ wire = <<>>
  /\ pages = <<>> /\ before = LastPage
  /\ resets = 0 /\ losses = 0 /\ mounts = 0

\* A set of rows in ascending and in descending order.
Ascending(S) ==
  [i \in 1..Cardinality(S) |-> CHOOSE r \in S : Cardinality({q \in S : q < r}) = i - 1]
Descending(S) ==
  [i \in 1..Cardinality(S) |-> CHOOSE r \in S : Cardinality({q \in S : q > r}) = i - 1]

Newest(S) == IF S = {} THEN Seq0 ELSE Descending(S)[1]
Prefix(s, n) == SubSeq(s, 1, IF Len(s) < n THEN Len(s) ELSE n)
LastOf(s) == s[Len(s)]

-----------------------------------------------------------------------------
(***************************************************************************)
(* The writers.                                                            *)
(***************************************************************************)
CreateWallet ==
  /\ ~hasWallet /\ hasWallet' = TRUE
  /\ UNCHANGED <<rows, written, streamVars, pageVars, resets, losses, mounts>>

\* The rows of a range of blocks are committed together.
WriteRows(n) ==
  /\ hasWallet
  /\ written + n <= MaxRows
  /\ written' = written + n
  /\ rows' = rows \cup (written + 1)..(written + n)
  /\ UNCHANGED <<hasWallet, streamVars, pageVars, resets, losses, mounts>>

ResetRows ==
  /\ rows # {} /\ rows' = {}
  /\ resets < MaxResets /\ resets' = resets + 1
  /\ UNCHANGED <<hasWallet, written, streamVars, pageVars, losses, mounts>>

-----------------------------------------------------------------------------
(***************************************************************************)
(* The stream.                                                             *)
(***************************************************************************)
\* The effect opens a source when the layer is mounted and closes it after.
Mount ==
  /\ source.state = "closed"
  /\ mounts < MaxMounts /\ mounts' = mounts + 1
  /\ source' = [state |-> "connecting", lastId |-> Seq0]
  /\ got' = <<>>
  /\ UNCHANGED <<feedVars, conn, wire, pageVars, resets, losses>>

Unmount ==
  /\ source.state # "closed"
  /\ source' = [source EXCEPT !.state = "closed"]
  /\ conn' = NoConn /\ wire' = <<>>
  /\ UNCHANGED <<feedVars, got, pageVars, resets, losses, mounts>>

Connect ==
  /\ source.state = "connecting" /\ conn.phase = "none"
  /\ conn' = [NoConn EXCEPT !.phase = "wallet", !.cursor = source.lastId]
  /\ UNCHANGED <<feedVars, source, got, wire, pageVars, resets, losses, mounts>>

Disconnect ==
  /\ conn' = NoConn /\ wire' = <<>>
  /\ source' = [source EXCEPT !.state = "connecting"]

\* Without a wallet the stream is EMPTY, and completes.
FindWallet ==
  /\ conn.phase = "wallet"
  /\ IF hasWallet
     THEN conn' = [conn EXCEPT !.phase = "cursor"] /\ UNCHANGED <<source, wire>>
     ELSE Disconnect
  /\ UNCHANGED <<feedVars, got, pageVars, resets, losses, mounts>>

\* Mutant: every connection starts from now.
StartFromNow(lastId) == Newest(rows)

\* Where a connection starts: after the browser's last event, or from now.
StartingCursor(lastId) == IF lastId # Seq0 THEN lastId ELSE Newest(rows)

ResolveStartingCursor ==
  /\ conn.phase = "cursor"
  /\ conn' = [conn EXCEPT !.phase = "idle", !.cursor = StartingCursor(conn.cursor)]
  /\ source' = [source EXCEPT !.state = "open"]
  /\ UNCHANGED <<feedVars, got, wire, pageVars, resets, losses, mounts>>

RowsSince(cursor) == Prefix(Ascending({r \in rows : r > cursor}), PollLimit)

PollNewEvents ==
  /\ conn.phase = "idle"
  /\ conn' = [conn EXCEPT !.phase = "polled", !.batch = RowsSince(conn.cursor)]
  /\ UNCHANGED <<feedVars, source, got, wire, pageVars, resets, losses, mounts>>

\* Mutant: the next poll starts after the newest row there is.
NextSeqOfFeed(c) == Newest(rows \cup {c.cursor})

\* Mutant: the cursor is not carried to the next poll.
NextSeqForgotten(c) == c.cursor

NextSeq(c) == IF c.batch = <<>> THEN c.cursor ELSE LastOf(c.batch)

\* The cursor moves, and the rows of the poll become events.
EmitBatch ==
  /\ conn.phase = "polled"
  /\ wire' = wire \o conn.batch
  /\ conn' = [phase |-> "idle", cursor |-> NextSeq(conn), batch |-> <<>>]
  /\ UNCHANGED <<feedVars, source, got, pageVars, resets, losses, mounts>>

Dispatch ==
  /\ wire # <<>>
  /\ got' = Append(got, Head(wire))
  /\ source' = [source EXCEPT !.lastId = Head(wire)]
  /\ wire' = Tail(wire)
  /\ UNCHANGED <<feedVars, conn, pageVars, resets, losses, mounts>>

\* The network, or the server's restart: what is on the wire is lost.
LoseConnection ==
  /\ conn.phase # "none"
  /\ losses < MaxLosses /\ losses' = losses + 1
  /\ Disconnect
  /\ UNCHANGED <<feedVars, got, pageVars, resets, mounts>>

\* Nothing catches a query that throws: the framework sends an error message
\* after what is on the wire, and ends the stream.
StreamThrows ==
  /\ conn.phase \in {"wallet", "cursor", "idle"}
  /\ losses < MaxLosses /\ losses' = losses + 1
  /\ conn' = [NoConn EXCEPT !.phase = "failed"]
  /\ UNCHANGED <<feedVars, source, got, wire, pageVars, resets, mounts>>

\* The framework numbers its own message, and the browser takes the number for
\* its last event: the source starts over from there.
DispatchError ==
  /\ conn.phase = "failed" /\ wire = <<>>
  /\ source' = [state |-> "connecting", lastId |-> ErrorId]
  /\ conn' = NoConn /\ got' = <<>>
  /\ UNCHANGED <<feedVars, wire, pageVars, resets, losses, mounts>>

-----------------------------------------------------------------------------
(***************************************************************************)
(* The pages.                                                              *)
(***************************************************************************)
\* Mutant: the page starts with the row that ended the last one.
FromCursor(cursor) == Descending({r \in rows : r <= cursor})

BeforeCursor(cursor) == Descending({r \in rows : r < cursor})

ListForWallet(cursor) == Prefix(BeforeCursor(cursor), PageLimit)

\* A page that came back short is the last.
NextCursor(page) == IF Len(page) = PageLimit THEN LastOf(page) ELSE LastPage

\* A refetch starts from the first page.
FetchFirstPage ==
  LET page == ListForWallet(FirstPage) IN
  /\ pages' = page
  /\ before' = NextCursor(page)
  /\ UNCHANGED <<feedVars, streamVars, resets, losses, mounts>>

FetchNextPage ==
  LET page == ListForWallet(before) IN
  /\ before # LastPage
  /\ pages' = pages \o page
  /\ before' = NextCursor(page)
  /\ UNCHANGED <<feedVars, streamVars, resets, losses, mounts>>

-----------------------------------------------------------------------------
\* At most one of these is enabled: the server's side takes turns.
ServerStep == FindWallet \/ ResolveStartingCursor \/ PollNewEvents \/ EmitBatch
BrowserStep == Connect \/ Dispatch \/ DispatchError

Next ==
  \/ CreateWallet \/ ResetRows
  \/ \E n \in 1..MaxRows : WriteRows(n)
  \/ Mount \/ Unmount \/ LoseConnection \/ StreamThrows
  \/ ServerStep \/ BrowserStep
  \/ FetchFirstPage \/ FetchNextPage

\* The interval fires, queries answer and the browser connects again; nobody
\* has to write, and the owner need not look at a page.
Fairness == WF_vars(ServerStep) /\ WF_vars(BrowserStep)

Spec == Init /\ [][Next]_vars /\ Fairness
=============================================================================
