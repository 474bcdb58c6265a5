---------------------------- MODULE BookProgress ----------------------------
(***************************************************************************)
(* Where Todd is in one book: the phone's Room row                         *)
(* (PlaybackPositionRepository.kt, PlaybackManager.syncProgress), the      *)
(* server's playback_positions row (routers/progress.py) and the pushes of *)
(* a PC that plays the book (windows_client bus.py, push_progress).        *)
(*                                                                         *)
(* A spot is named by the moment it was sampled, so the larger of two is   *)
(* the one a listener would want back; 0 is "no spot".  `now` is the one   *)
(* clock of all three (the code accepts their skew) and moves with every   *)
(* stamp taken.  A PUT is sent, checked, committed and answered in steps   *)
(* of their own: the route is a `def` handler on a worker thread whose     *)
(* SELECT takes no lock.                                                   *)
(***************************************************************************)
EXTENDS Integers, FiniteSets

CONSTANTS
  MaxTime,  \* bound: stamps ever taken
  MaxCalls  \* bound: PUTs under way at once

ASSUME ProgressAssumption == MaxTime \in Nat /\ MaxCalls \in Nat

VARIABLES
  now,      \* the clock
  row,      \* the phone's row; spot 0 when there is none
  server,   \* the server's row; spot 0 when there is none
  toRead,   \* the book is on the to-read list
  calls,    \* PUTs under way
  pc,       \* what the PC does with the book; "off" is _book_sync = False
  resolve,  \* resolveStartPosition, and what it has read so far
  stored,   \* history: spots the server ever committed
  overtaken \* history: a PUT was committed after a later spot was saved

vars == <<now, row, server, toRead, calls, pc, resolve, stored, overtaken>>

Time == 0 .. MaxTime
Stored == [spot: Time, fin: BOOLEAN, at: Time]
Row == [spot: Time, fin: BOOLEAN, at: Time, synced: BOOLEAN]
NoCopy == [spot |-> 0, fin |-> FALSE, at |-> 0]
NoRow == [spot |-> 0, fin |-> FALSE, at |-> 0, synced |-> TRUE]

\* ProgressUpdate on its way.  `stamp` is client_updated_at, 0 when the client
\* sends none; `mark` is the updatedAt of the row the phone will mark synced;
\* `had` is the row the handler saw.
Call ==
  [from: {"phone", "pc"}, spot: Time, fin: BOOLEAN, stamp: Time, mark: Time,
   state: {"sent", "checked", "ok", "refused"}, had: Stored]

Resolve == [step: {"idle", "read", "got"}, local: Row, srv: Stored]
Resolved == [step |-> "idle", local |-> NoRow, srv |-> NoCopy]

TypeOK ==
  /\ now \in Time
  /\ row \in Row
  /\ server \in Stored
  /\ toRead \in BOOLEAN
  /\ calls \subseteq Call
  /\ pc \in {"off", "playing", "paused"}
  /\ resolve \in Resolve
  /\ stored \subseteq Time
  /\ overtaken \in BOOLEAN

-----------------------------------------------------------------------------
(* Sending *)

Send(c) ==
  /\ Cardinality(calls) < MaxCalls
  /\ calls' = calls \cup {c}

\* What the phone PUTs for a row: no sample time.
PhonePut(r) ==
  [from |-> "phone", spot |-> r.spot, fin |-> r.fin, stamp |-> 0,
   mark |-> r.at, state |-> "sent", had |-> NoCopy]

PcPut(spot, fin, stamp) ==
  [from |-> "pc", spot |-> spot, fin |-> fin, stamp |-> stamp, mark |-> 0,
   state |-> "sent", had |-> NoCopy]

\* syncProgress every 30 s, and STATE_ENDED: the row first, then the server
\* if one is configured and reachable.
PhoneSave(fin) ==
  LET r == [spot |-> now + 1, fin |-> fin, at |-> now + 1, synced |-> FALSE]
  IN  /\ now < MaxTime
      /\ now' = now + 1
      /\ row' = r
      /\ Send(PhonePut(r)) \/ UNCHANGED calls
      /\ UNCHANGED <<server, toRead, pc, resolve, stored, overtaken>>

\* flushUnsynced, when the library screen loads.
PhoneFlush ==
  /\ row.spot # 0 /\ ~row.synced
  /\ Send(PhonePut(row))
  /\ UNCHANGED <<now, row, server, toRead, pc, resolve, stored, overtaken>>

\* play_book, or an activate with a book.
PcTakesBook ==
  /\ pc = "off"
  /\ pc' = "playing"
  /\ UNCHANGED <<now, row, server, toRead, calls, resolve, stored, overtaken>>

AheadOfTime(fin) == PcPut(now + 1, fin, now + 2)

\* A push samples the position and the clock together.
Sampled(fin) == PcPut(now + 1, fin, now + 1)

\* push_progress every 15 s, at a pause, before other audio or a handoff, and
\* once at the end of the book.  The spot is noted as pushed before the PUT, so
\* whatever becomes of it a paused PC does not push again.
PcPush(fin, next) ==
  /\ pc = "playing"
  /\ fin => next = "off"
  /\ now < MaxTime
  /\ now' = now + 1
  /\ Send(Sampled(fin))
  /\ pc' = next
  /\ UNCHANGED <<row, server, toRead, resolve, stored, overtaken>>

PcIdle ==
  /\ pc = "paused"
  /\ pc' \in {"playing", "off"}
  /\ UNCHANGED <<now, row, server, toRead, calls, resolve, stored, overtaken>>

-----------------------------------------------------------------------------
(* PUT /api/progress/{book_id} *)

NeverStale(c) == FALSE

\* #2680: a position sampled before the stored one was written is stale.
Stale(c) == server.spot # 0 /\ c.stamp # 0 /\ c.stamp < server.at

Check(c) ==
  /\ c \in calls /\ c.state = "sent"
  /\ calls' = (calls \ {c}) \cup
       {[c EXCEPT !.had = server,
                  !.state = IF Stale(c) THEN "refused" ELSE "checked"]}
  /\ UNCHANGED <<now, row, server, toRead, pc, resolve, stored, overtaken>>

\* The commit.  A second first row violates the unique constraint: a 500.
Commit(c) ==
  /\ c \in calls /\ c.state = "checked"
  /\ now < MaxTime
  /\ now' = now + 1
  /\ \/ /\ c.had.spot # 0 \/ server.spot = 0
        /\ server' = [spot |-> c.spot, fin |-> c.fin, at |-> now + 1]
        /\ toRead' = (toRead /\ ~c.fin)
        /\ stored' = stored \cup {c.spot}
        /\ overtaken' = (overtaken \/ c.spot < row.spot
                                    \/ c.spot < server.spot)
        /\ calls' = (calls \ {c}) \cup {[c EXCEPT !.state = "ok"]}
     \/ /\ c.had.spot = 0 /\ server.spot # 0
        /\ calls' = (calls \ {c}) \cup {[c EXCEPT !.state = "refused"]}
        /\ UNCHANGED <<server, toRead, stored, overtaken>>
  /\ UNCHANGED <<row, pc, resolve>>

MarkWhatIsThere(mark) == [row EXCEPT !.synced = TRUE]

\* markSynced: only the row that was sent.
MarkSynced(mark) ==
  IF row.at = mark THEN [row EXCEPT !.synced = TRUE] ELSE row

\* The answer reaches the client; a refusal, or an answer that is lost, changes
\* nothing there.
Answered(c) ==
  /\ c \in calls /\ c.state \in {"ok", "refused"}
  /\ calls' = calls \ {c}
  /\ row' = IF c.from = "phone" /\ c.state = "ok" THEN MarkSynced(c.mark) ELSE row
  /\ UNCHANGED <<now, server, toRead, pc, resolve, stored, overtaken>>

Lost(c) ==
  /\ c \in calls /\ c.state \in {"sent", "ok"}
  /\ calls' = calls \ {c}
  /\ UNCHANGED <<now, row, server, toRead, pc, resolve, stored, overtaken>>

-----------------------------------------------------------------------------
(* resolveStartPosition *)

ResolveRead ==
  /\ resolve.step = "idle"
  /\ resolve' = [resolve EXCEPT !.step = "read", !.local = row]
  /\ UNCHANGED <<now, row, server, toRead, calls, pc, stored, overtaken>>

\* Offline and 404 are the same to it.
ResolveGet ==
  /\ resolve.step = "read"
  /\ \E s \in {server, NoCopy} :
       resolve' = [resolve EXCEPT !.step = "got", !.srv = s]
  /\ UNCHANGED <<now, row, server, toRead, calls, pc, stored, overtaken>>

OnlyServerWins == resolve.srv.spot # 0 /\ resolve.local.spot = 0

ServerWins ==
  /\ resolve.srv.spot # 0
  /\ \/ resolve.local.spot = 0
     \/ resolve.srv.at > resolve.local.at

\* The newer by updated_at, which the loser then gets.
Resume == IF ServerWins THEN resolve.srv.spot ELSE resolve.local.spot

ResolveApply ==
  /\ resolve.step = "got"
  /\ \/ /\ ServerWins
        /\ row' = [spot |-> resolve.srv.spot, fin |-> resolve.srv.fin,
                   at |-> resolve.srv.at, synced |-> TRUE]
        /\ UNCHANGED calls
     \/ /\ ~ServerWins
        /\ \/ resolve.local.spot # 0 /\ ~resolve.local.synced
                /\ Send(PhonePut(resolve.local))
           \/ resolve.local.synced /\ UNCHANGED calls
        /\ UNCHANGED row
  /\ resolve' = Resolved
  /\ UNCHANGED <<now, server, toRead, pc, stored, overtaken>>

-----------------------------------------------------------------------------
Init ==
  /\ now = 0
  /\ row = NoRow
  /\ server = NoCopy
  /\ toRead = TRUE
  /\ calls = {}
  /\ pc = "off"
  /\ resolve = Resolved
  /\ stored = {}
  /\ overtaken = FALSE

ClientNext ==
  \/ \E fin \in BOOLEAN : PhoneSave(fin)
  \/ PhoneFlush
  \/ PcTakesBook
  \/ \E fin \in BOOLEAN, next \in {"off", "playing", "paused"} : PcPush(fin, next)
  \/ PcIdle
  \/ ResolveRead
  \/ ResolveGet
  \/ ResolveApply

CallNext == \E c \in calls : Check(c) \/ Commit(c) \/ Answered(c) \/ Lost(c)

Next == ClientNext \/ CallNext

Spec == Init /\ [][Next]_vars

-----------------------------------------------------------------------------
(* Properties *)

\* A PC's push never replaces a spot sampled after its own, though the server
\* knows only when that spot was written: the #2680 rule of update_progress.
\* (Another write between this one's check and its commit is beyond the rule.)
PcKeepsNewer ==
  [][\A c \in calls :
       c.from = "pc" /\ c.had = server /\ Commit(c)
       => server'.spot >= server.spot]_vars

\* A row of the phone that says "synced" holds a spot the server did store,
\* however saves, flushes and answers overlapped: it is not flushed again.
SyncedWasStored == row.spot # 0 /\ row.synced => row.spot \in stored

\* The resume target is the later sampled of the two copies it was chosen from,
\* unless a PUT was committed after either had saved a later spot: from then on
\* the server's write time can say "newer" of an older one.
ResumeTakesNewer ==
  resolve.step = "got" /\ ~overtaken
  => Resume >= resolve.local.spot /\ Resume >= resolve.srv.spot
=============================================================================
