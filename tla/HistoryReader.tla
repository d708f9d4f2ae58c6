---- MODULE HistoryReader ----
(***************************************************************************)
(* A client that pages through one player's history with                    *)
(* get_history_page_with_cursor while the contract keeps changing.  The     *)
(* cursor is two numbers the client passes back; the contract keeps no      *)
(* session.                                                                 *)
(***************************************************************************)
EXTENDS Progress

VARIABLE
  reader  \* the cursor the client holds, the count when it started, what it got

Idle == [player |-> NONE, started |-> 0, snapshot |-> 0, next |-> 0, seen |-> <<>>]

\* Mutant: the snapshot the client passes back is not honoured.
SnapshotIgnored(p, snapshotArg) == historyCounter[p]

\* The snapshot a call works with: the caller's, clamped to the current count.
Snapshot(p, snapshotArg) == Least(snapshotArg, historyCounter[p])

\* get_history_page_with_cursor(p, snapshot, next, limit); next 0 signals exhaustion.
PageWithCursor(p, snapshotArg, next, limit) ==
  LET snapshot == Snapshot(p, snapshotArg)
      end      == Least(next + Clamp(limit) - 1, snapshot)
  IN  IF next = 0 \/ next > snapshot
      THEN [entries |-> <<>>, next |-> 0, snapshot |-> snapshot]
      ELSE [entries  |-> StoredEntries(historyEntry[p], next, end),
            next     |-> IF end >= snapshot THEN 0 ELSE end + 1,
            snapshot |-> snapshot]

\* The first call passes no cursor: the snapshot is the current count.
FirstPage(p, limit) ==
  /\ reader = Idle
  /\ LET page == PageWithCursor(p, historyCounter[p], 1, limit)
     IN  reader' = [player |-> p, started |-> historyCounter[p],
                    snapshot |-> page.snapshot,
                    next |-> page.next, seen |-> page.entries]
  /\ UNCHANGED vars

NextPage(limit) ==
  /\ reader.next # 0
  /\ LET page == PageWithCursor(reader.player, reader.snapshot, reader.next, limit)
     IN  reader' = [reader EXCEPT !.snapshot = page.snapshot, !.next = page.next,
                                  !.seen = @ \o page.entries]
  /\ UNCHANGED vars

ReaderInit == Init /\ reader = Idle

ReaderNext ==
  \/ Next /\ UNCHANGED reader
  \/ \E p \in Players, limit \in 0..(MAX_PAGE + 1) : FirstPage(p, limit)
  \/ \E limit \in 0..(MAX_PAGE + 1) : NextPage(limit)

ReaderSpec == ReaderInit /\ [][ReaderNext]_<<vars, reader>>

\* The reader receives the entries in order, each exactly once, whatever is
\* appended between two pages, and when the cursor is exhausted it has received
\* exactly the entries that existed when it started.
EveryEntryExactlyOnce ==
  LET p == reader.player
  IN  p # NONE /\ p \notin erased =>
        /\ reader.seen = SubSeq(Entries(p), 1, Len(reader.seen))
        /\ IF reader.next = 0 THEN Len(reader.seen) = reader.started
           ELSE Len(reader.seen) = reader.next - 1 /\ Len(reader.seen) < reader.started
====
