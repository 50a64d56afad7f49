-------------------------- MODULE StreamProperties --------------------------
(***************************************************************************)
(* What the toasts and the activity screen may rely on.                    *)
(***************************************************************************)
EXTENDS ActivityStream

Elements(s) == {s[i] : i \in DOMAIN s}

\* No toast appears twice, and none before an older one, over broken
\* connections, with events lost on the wire and rows deleted meanwhile: until
\* a query of the stream throws.  Its error message has the id of an old row,
\* and the toasts after that row are shown once more, in order again.
ToastsInOrder ==
  LET sent == got \o wire IN
  \A i, j \in 1..Len(sent) : i < j => sent[i] < sent[j]

\* Once a source has had its first event it misses none: each later row, up
\* to the server's cursor, is in what it got, on the wire or being sent.  The
\* same holds from the first event after an error message.
NothingIsSkipped ==
  LET sent == got \o wire \o conn.batch IN
  got # <<>> => \A r \in rows :
    /\ got[1] <= r /\ r <= LastOf(sent) => r \in Elements(sent)
    /\ conn.phase \in {"idle", "polled"} /\ got[1] <= r /\ r <= conn.cursor
         => r \in Elements(sent)

\* And a row written after that is shown in the end, unless the source is
\* closed or the row deleted first.
EveryRowIsShown ==
  \A r \in 1..MaxRows :
    (got # <<>> /\ r \in rows /\ r > got[1])
      ~> (source.state = "closed" \/ r \notin rows \/ r \in Elements(got))

\* The pages of one walk have each row once, newest first, and leave none
\* out between the newest and the last row seen; the last page ends the feed.
\* Rows written during the walk do not shift it.
PagesMissNothing ==
  /\ \A i, j \in 1..Len(pages) : i < j => pages[i] > pages[j]
  /\ pages # <<>> => \A r \in rows :
       r <= pages[1] /\ (before = LastPage \/ r >= before) => r \in Elements(pages)
=============================================================================
