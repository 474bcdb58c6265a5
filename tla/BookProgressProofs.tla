------------------------- MODULE BookProgressProofs -------------------------
(***************************************************************************)
(* The positions of a book keep their order, for any number of saves,      *)
(* pushes, flushes and resolves.                                           *)
(***************************************************************************)
EXTENDS BookProgress, TLAPS

-----------------------------------------------------------------------------
(* Types *)

\* A PUT of the phone, or of the PC, is a call, and stays one as it proceeds.
LEMMA PhonePutType == ASSUME NEW r \in Row PROVE PhonePut(r) \in Call
  BY ProgressAssumption DEF PhonePut, Call, Row, Stored, NoCopy, Time

LEMMA PcPutType ==
  ASSUME NEW spot \in Time, NEW fin \in BOOLEAN, NEW stamp \in Time
  PROVE  PcPut(spot, fin, stamp) \in Call
  BY ProgressAssumption DEF PcPut, Call, Stored, NoCopy, Time

LEMMA CallProceeds ==
  ASSUME NEW c \in Call, NEW s \in Stored,
         NEW state \in {"sent", "checked", "ok", "refused"}
  PROVE  /\ [c EXCEPT !.state = state] \in Call
         /\ [c EXCEPT !.had = s, !.state = state] \in Call
  BY DEF Call

\* Every action keeps the types.
LEMMA TypeStep ==
  ASSUME TypeOK, [Next]_vars
  PROVE  TypeOK'
<1> USE ProgressAssumption DEF TypeOK
<1>1. ASSUME NEW fin \in BOOLEAN, PhoneSave(fin) PROVE TypeOK'
  <2> DEFINE r == [spot |-> now + 1, fin |-> fin, at |-> now + 1, synced |-> FALSE]
  <2>1. r \in Row /\ row' = r /\ now' \in Time
    BY <1>1 DEF PhoneSave, Row, Time
  <2>2. calls' \subseteq Call
    BY <1>1, <2>1, PhonePutType DEF PhoneSave, Send
  <2> QED BY <1>1, <2>1, <2>2 DEF PhoneSave
<1>2. CASE PhoneFlush
  BY <1>2, PhonePutType DEF PhoneFlush, Send
<1>3. CASE PcTakesBook \/ PcIdle
  BY <1>3 DEF PcTakesBook, PcIdle
<1>4. ASSUME NEW fin \in BOOLEAN, NEW next \in {"off", "playing", "paused"}, PcPush(fin, next)
      PROVE  TypeOK'
  <2>1. now + 1 \in Time /\ now' \in Time
    BY <1>4 DEF PcPush, Time
  <2>2. calls' \subseteq Call
    BY <1>4, <2>1, PcPutType DEF PcPush, Send, Sampled
  <2> QED BY <1>4, <2>1, <2>2 DEF PcPush
<1>5. CASE ResolveRead
  BY <1>5 DEF ResolveRead, Resolve
<1>6. CASE ResolveGet
  <2>1. NoCopy \in Stored BY DEF NoCopy, Stored, Time
  <2>2. PICK s \in {server, NoCopy} : resolve' = [resolve EXCEPT !.step = "got", !.srv = s]
    BY <1>6 DEF ResolveGet
  <2>3. resolve' \in Resolve
    BY <2>1, <2>2 DEF Resolve
  <2> QED BY <1>6, <2>3 DEF ResolveGet
<1>7. CASE ResolveApply
  <2>1. Resolved \in Resolve
    BY DEF Resolved, Resolve, NoRow, NoCopy, Row, Stored, Time
  <2>2. resolve.local \in Row /\ resolve.srv \in Stored
    BY DEF Resolve
  <2>3. row' \in Row
    <3>1. resolve.srv.spot \in Time /\ resolve.srv.fin \in BOOLEAN /\ resolve.srv.at \in Time
      BY <2>2 DEF Stored
    <3>2. [spot |-> resolve.srv.spot, fin |-> resolve.srv.fin,
           at |-> resolve.srv.at, synced |-> TRUE] \in Row
      BY <3>1 DEF Row
    <3> QED BY <1>7, <3>2 DEF ResolveApply
  <2>4. calls' \subseteq Call
    BY <1>7, <2>2, PhonePutType DEF ResolveApply, Send
  <2> QED BY <1>7, <2>1, <2>3, <2>4 DEF ResolveApply
<1>8. ASSUME NEW c \in calls, Check(c) PROVE TypeOK'
  <2> DEFINE state == IF Stale(c) THEN "refused" ELSE "checked"
  <2>1. c \in Call /\ state \in {"sent", "checked", "ok", "refused"}
    OBVIOUS
  <2>2. [c EXCEPT !.had = server, !.state = state] \in Call
    BY <2>1, CallProceeds
  <2>3. calls' \subseteq Call
    BY <1>8, <2>2 DEF Check
  <2> QED BY <1>8, <2>3 DEF Check
<1>9. ASSUME NEW c \in calls, Commit(c) PROVE TypeOK'
  <2>1. calls' \subseteq Call
    BY <1>9, CallProceeds DEF Commit
  <2>2. c.spot \in Time /\ c.fin \in BOOLEAN
    BY DEF Call
  <2>3. now + 1 \in Time
    BY <1>9 DEF Commit, Time
  <2>4. server' \in Stored
    BY <1>9, <2>2, <2>3 DEF Commit, Stored
  <2>5. overtaken' \in BOOLEAN
    BY <1>9 DEF Commit
  <2> QED BY <1>9, <2>1, <2>2, <2>3, <2>4, <2>5 DEF Commit
<1>10. ASSUME NEW c \in calls, Answered(c) PROVE TypeOK'
  BY <1>10 DEF Answered, MarkSynced, Row
<1>11. ASSUME NEW c \in calls, Lost(c) PROVE TypeOK'
  BY <1>11 DEF Lost
<1>12. CASE UNCHANGED vars
  BY <1>12 DEF vars
<1> QED
  BY <1>1, <1>2, <1>3, <1>4, <1>5, <1>6, <1>7, <1>8, <1>9, <1>10, <1>11, <1>12
     DEF Next, ClientNext, CallNext

\* The initial state is well typed.
LEMMA TypeInit == Init => TypeOK
<1>1. 0 \in Time
  BY ProgressAssumption DEF Time
<1>2. NoRow \in Row /\ NoCopy \in Stored
  BY <1>1 DEF NoRow, NoCopy, Row, Stored
<1>3. Resolved \in Resolve
  BY <1>2 DEF Resolved, Resolve
<1> QED BY <1>1, <1>2, <1>3 DEF Init, TypeOK

\* Every variable keeps its type: routers/progress.py, the phone and the PC
\* exchange well-formed positions whatever they do.
THEOREM TypeCorrect == Spec => []TypeOK
<1>1. TypeOK /\ [Next]_vars => TypeOK'
  BY TypeStep
<1> QED BY TypeInit, <1>1, PTL DEF Spec

-----------------------------------------------------------------------------
(* The inductive invariant *)

\* No copy carries a time that has not come.
ByNow ==
  /\ row.spot <= now /\ row.at <= now
  /\ server.spot <= server.at /\ server.at <= now
  /\ resolve.local.spot <= now /\ resolve.local.at <= now
  /\ resolve.srv.spot <= resolve.srv.at /\ resolve.srv.at <= now

\* A PUT carries a spot that was sampled, and what was known of it when it was
\* sent and checked still holds.
GoodCall(c) ==
  /\ 0 < c.spot /\ c.spot <= now
  /\ c.had.spot <= c.had.at
  /\ c.from = "pc" => c.stamp = c.spot
  /\ c.from = "pc" /\ c.state = "checked" => c.had.spot = 0 \/ c.had.at <= c.stamp
  /\ c.from = "phone" => c.mark = c.spot
  /\ c.state = "ok" => c.spot \in stored

\* A row of the phone is one it saved itself, or one the server stored.
GoodRow(r) ==
  /\ ~r.synced => r.at = r.spot
  /\ r.spot # 0 /\ r.synced => r.spot \in stored

Backed ==
  /\ \A c \in calls : GoodCall(c)
  /\ GoodRow(row) /\ GoodRow(resolve.local)
  /\ server.spot # 0 => server.spot \in stored
  /\ resolve.srv.spot # 0 => resolve.srv.spot \in stored

\* The times of a row and of a server's copy order their spots.
Agree(r, s) ==
  s.spot # 0 => IF r.at < s.at THEN r.spot <= s.spot ELSE s.spot <= r.spot

\* As long as no PUT was overtaken, the copies agree, and those that resolve
\* holds are not ahead of those they were read from.
InOrder ==
  ~overtaken =>
    /\ Agree(row, server)
    /\ resolve.step # "idle" =>
         Agree(resolve.local, server) /\ resolve.local.spot <= row.spot
    /\ resolve.step = "got" =>
         /\ Agree(resolve.local, resolve.srv)
         /\ resolve.srv.spot # 0 =>
              /\ resolve.srv.spot <= server.spot /\ resolve.srv.at <= server.at
              /\ resolve.srv.at = server.at => resolve.srv.spot = server.spot

IInv == TypeOK /\ ByNow /\ Backed /\ InOrder

-----------------------------------------------------------------------------
(* What the types say of the times *)

RowTimes(r) == r.spot \in Nat /\ r.at \in Nat /\ r.synced \in BOOLEAN
CopyTimes(s) == s.spot \in Nat /\ s.at \in Nat
CallTimes(c) ==
  /\ c.spot \in Nat /\ c.stamp \in Nat /\ c.mark \in Nat
  /\ CopyTimes(c.had) /\ c \in Call

\* All times are numbers.
LEMMA Times ==
  ASSUME TypeOK
  PROVE  /\ now \in Nat
         /\ RowTimes(row) /\ RowTimes(resolve.local)
         /\ CopyTimes(server) /\ CopyTimes(resolve.srv)
         /\ \A c \in calls : CallTimes(c)
<1>1. Time \subseteq Nat
  BY ProgressAssumption DEF Time
<1>2. \A r \in Row : RowTimes(r)
  BY <1>1 DEF Row, RowTimes
<1>3. \A s \in Stored : CopyTimes(s)
  BY <1>1 DEF Stored, CopyTimes
<1>4. \A c \in Call : CallTimes(c)
  BY <1>1, <1>3 DEF Call, CallTimes
<1>5. resolve.local \in Row /\ resolve.srv \in Stored
  BY DEF TypeOK, Resolve
<1> QED BY <1>1, <1>2, <1>3, <1>4, <1>5 DEF TypeOK

-----------------------------------------------------------------------------
(* Each action keeps the invariant *)

\* A call that was good stays good as time passes and more is stored.
LEMMA GoodStays ==
  ASSUME TypeOK, NEW c \in calls, GoodCall(c),
         now' \in Nat, now <= now', stored \subseteq stored'
  PROVE  GoodCall(c)'
  BY Times DEF GoodCall, CallTimes

\* The same of a row.
LEMMA GoodRowStays ==
  ASSUME NEW r, GoodRow(r), stored \subseteq stored'
  PROVE  /\ r.spot # 0 /\ r.synced => r.spot \in stored'
         /\ ~r.synced => r.at = r.spot
  BY DEF GoodRow

\* What the phone sends of a good row that is not synced is a good call.
LEMMA GoodPut ==
  ASSUME NEW r, RowTimes(r), GoodRow(r), ~r.synced, r.spot # 0, r.spot <= now,
         now \in Nat
  PROVE  GoodCall(PhonePut(r))
  BY DEF GoodCall, PhonePut, GoodRow, RowTimes, NoCopy

\* syncProgress.
LEMMA SaveKeeps ==
  ASSUME IInv, NEW fin \in BOOLEAN, PhoneSave(fin)
  PROVE  ByNow' /\ Backed' /\ InOrder'
<1> DEFINE r == [spot |-> now + 1, fin |-> fin, at |-> now + 1, synced |-> FALSE]
<1> USE Times DEF IInv, RowTimes, CopyTimes
<1>1. /\ row' = r /\ now' = now + 1 /\ calls' \subseteq calls \cup {PhonePut(r)}
      /\ UNCHANGED <<server, resolve, stored, overtaken>>
  BY DEF PhoneSave, Send
<1>2. ByNow'
  BY <1>1 DEF ByNow
<1>3. Backed'
  <2>1. \A c \in calls : GoodCall(c)'
    BY <1>1, GoodStays DEF Backed
  <2>2. ASSUME NEW c, c = PhonePut(r) PROVE GoodCall(c)'
    BY <1>1, <2>2 DEF GoodCall, PhonePut, NoCopy
  <2> QED BY <1>1, <2>1, <2>2 DEF Backed, GoodRow
<1>4. InOrder'
  BY <1>1 DEF InOrder, Agree, ByNow
<1> QED BY <1>2, <1>3, <1>4

\* Sending a good PUT changes nothing else.
LEMMA SendKeeps ==
  ASSUME IInv, NEW c, GoodCall(c), Send(c),
         UNCHANGED <<now, row, server, resolve, stored, overtaken>>
  PROVE  ByNow' /\ Backed' /\ InOrder'
<1>1. \A e \in calls' : GoodCall(e)'
  BY DEF IInv, Backed, Send, GoodCall
<1> QED BY <1>1 DEF IInv, ByNow, Backed, InOrder, GoodRow, Agree

\* push_progress.
LEMMA PushKeeps ==
  ASSUME IInv, NEW fin \in BOOLEAN, NEW next, PcPush(fin, next)
  PROVE  ByNow' /\ Backed' /\ InOrder'
<1> USE Times DEF IInv, RowTimes, CopyTimes
<1>1. /\ now' = now + 1 /\ calls' = calls \cup {Sampled(fin)}
      /\ UNCHANGED <<row, server, resolve, stored, overtaken>>
  BY DEF PcPush, Send
<1>2. ASSUME NEW c, c = Sampled(fin) PROVE GoodCall(c)'
  BY <1>1, <1>2 DEF GoodCall, Sampled, PcPut, NoCopy
<1>3. \A c \in calls : GoodCall(c)'
  BY <1>1, GoodStays DEF Backed
<1>4. Backed'
  BY <1>1, <1>2, <1>3 DEF Backed, GoodRow
<1> QED BY <1>1, <1>4 DEF ByNow, InOrder, Agree

\* The check of update_progress.
LEMMA CheckKeeps ==
  ASSUME IInv, NEW c \in calls, Check(c)
  PROVE  ByNow' /\ Backed' /\ InOrder'
<1> DEFINE d == [c EXCEPT !.had = server,
                          !.state = IF Stale(c) THEN "refused" ELSE "checked"]
<1>1. /\ calls' = (calls \ {c}) \cup {d}
      /\ UNCHANGED <<now, row, server, resolve, stored, overtaken>>
  BY DEF Check
<1>2. GoodCall(c) /\ CallTimes(c)
  BY Times DEF IInv, Backed
<1>3. /\ d.spot = c.spot /\ d.stamp = c.stamp /\ d.mark = c.mark /\ d.from = c.from
      /\ d.had = server /\ d.state \in {"refused", "checked"}
      /\ d.state = "checked" => ~Stale(c)
  BY <1>2 DEF CallTimes, Call
<1>4. ASSUME NEW e, e = d PROVE GoodCall(e)'
  <2>1. c.from = "pc" /\ ~Stale(c) => server.spot = 0 \/ server.at <= c.stamp
    BY <1>2, Times DEF IInv, Stale, GoodCall, CallTimes, CopyTimes
  <2>2. server.spot <= server.at
    BY DEF IInv, ByNow
  <2> QED BY <1>1, <1>2, <1>3, <1>4, <2>1, <2>2 DEF GoodCall
<1>5. \A e \in calls : GoodCall(e)'
  BY <1>1 DEF IInv, Backed, GoodCall
<1>6. Backed'
  BY <1>1, <1>4, <1>5 DEF IInv, Backed, GoodRow
<1> QED BY <1>1, <1>6 DEF IInv, ByNow, InOrder, Agree

\* Its commit: what is stored is later written and, unless it overtook a spot,
\* later sampled than all there was.
LEMMA CommitKeeps ==
  ASSUME IInv, NEW c \in calls, Commit(c)
  PROVE  ByNow' /\ Backed' /\ InOrder'
<1>1. GoodCall(c) /\ CallTimes(c) /\ now' = now + 1
  BY Times DEF IInv, Backed, Commit
<1>2. UNCHANGED <<row, resolve>> /\ stored \subseteq stored'
  BY DEF Commit
<1>3. \A e \in calls : GoodCall(e)'
  BY <1>1, <1>2, GoodStays, Times DEF IInv, Backed
<1>4. CASE c.had.spot # 0 \/ server.spot = 0
  <2> DEFINE d == [c EXCEPT !.state = "ok"]
  <2>1. /\ server' = [spot |-> c.spot, fin |-> c.fin, at |-> now + 1]
        /\ stored' = stored \cup {c.spot}
        /\ overtaken' = (overtaken \/ c.spot < row.spot \/ c.spot < server.spot)
        /\ calls' = (calls \ {c}) \cup {d}
    BY <1>4 DEF Commit
  <2>2. ASSUME NEW e, e = d PROVE GoodCall(e)'
    <3>1. /\ d.spot = c.spot /\ d.stamp = c.stamp /\ d.mark = c.mark
          /\ d.from = c.from /\ d.had = c.had /\ d.state = "ok"
      BY <1>1 DEF CallTimes, Call
    <3> QED BY <1>1, <2>1, <2>2, <3>1, Times DEF IInv, GoodCall, CallTimes
  <2>3. Backed'
    BY <1>2, <1>3, <2>1, <2>2 DEF IInv, Backed, GoodRow
  <2>4. ByNow'
    BY <1>1, <1>2, <2>1, Times DEF IInv, ByNow, GoodCall, CallTimes, RowTimes, CopyTimes
  <2>5. InOrder'
    <3> SUFFICES ASSUME ~overtaken'
                 PROVE  InOrder'
      BY DEF InOrder
    <3>1. ~overtaken /\ ~(c.spot < row.spot) /\ ~(c.spot < server.spot)
      BY <2>1, Zenon
    <3>2. row.spot <= c.spot /\ server.spot <= c.spot
      BY <1>1, <3>1, Times DEF IInv, CallTimes, RowTimes, CopyTimes
    <3>3. server'.spot = c.spot /\ server'.at = now + 1
      BY <2>1
    <3> QED
      BY <1>2, <3>1, <3>2, <3>3, Times
         DEF IInv, ByNow, InOrder, Agree, CallTimes, RowTimes, CopyTimes
  <2> QED BY <2>3, <2>4, <2>5
<1>5. CASE ~(c.had.spot # 0 \/ server.spot = 0)
  <2> DEFINE d == [c EXCEPT !.state = "refused"]
  <2>1. calls' = (calls \ {c}) \cup {d} /\ UNCHANGED <<server, stored, overtaken>>
    BY <1>5 DEF Commit
  <2>2. ASSUME NEW e, e = d PROVE GoodCall(e)'
    <3>1. /\ d.spot = c.spot /\ d.stamp = c.stamp /\ d.mark = c.mark
          /\ d.from = c.from /\ d.had = c.had /\ d.state = "refused"
      BY <1>1 DEF CallTimes, Call
    <3> QED BY <1>1, <2>1, <2>2, <3>1, Times DEF IInv, GoodCall, CallTimes
  <2>3. Backed'
    BY <1>2, <1>3, <2>1, <2>2 DEF IInv, Backed, GoodRow
  <2> QED
    BY <1>1, <1>2, <2>1, <2>3, Times DEF IInv, ByNow, InOrder, Agree, RowTimes, CopyTimes
<1> QED BY <1>4, <1>5

\* The answer marks the row that was sent and no other.
LEMMA AnswerKeeps ==
  ASSUME IInv, NEW c \in calls, Answered(c)
  PROVE  ByNow' /\ Backed' /\ InOrder'
<1>1. GoodCall(c) /\ CallTimes(c)
  BY Times DEF IInv, Backed
<1>2. /\ calls' \subseteq calls
      /\ UNCHANGED <<now, server, resolve, stored, overtaken>>
  BY DEF Answered
<1>3. row' = row \/ (c.from = "phone" /\ c.state = "ok" /\ row.at = c.mark
                     /\ row' = [row EXCEPT !.synced = TRUE])
  BY DEF Answered, MarkSynced
<1>4. row'.spot = row.spot /\ row'.at = row.at
  BY <1>3 DEF IInv, TypeOK, Row
<1>5. GoodRow(row)'
  <2>1. CASE row' = row
    BY <1>2, <2>1 DEF IInv, Backed, GoodRow
  <2>2. CASE row' # row
    <3>1. row'.synced
      BY <1>3, <2>2 DEF IInv, TypeOK, Row
    <3>2. row.spot = 0 \/ row.spot \in stored
      BY <1>1, <1>3, <2>2 DEF IInv, Backed, GoodRow, GoodCall
    <3> QED BY <1>2, <1>4, <3>1, <3>2 DEF GoodRow
  <2> QED BY <2>1, <2>2
<1>6. \A e \in calls' : GoodCall(e)'
  BY <1>2 DEF IInv, Backed, GoodCall
<1>7. Backed'
  BY <1>2, <1>5, <1>6 DEF IInv, Backed, GoodRow
<1> QED BY <1>2, <1>4, <1>7 DEF IInv, ByNow, InOrder, Agree

\* resolveStartPosition.
LEMMA ResolveKeeps ==
  ASSUME IInv, ResolveRead \/ ResolveGet
  PROVE  ByNow' /\ Backed' /\ InOrder'
<1> USE Times DEF IInv
<1>1. CASE ResolveRead
  <2>1. /\ resolve'.step = "read" /\ resolve'.local = row /\ resolve'.srv = resolve.srv
        /\ UNCHANGED <<now, row, server, calls, stored, overtaken>>
    BY <1>1 DEF ResolveRead, TypeOK, Resolve
  <2>2. Backed'
    BY <2>1 DEF Backed, GoodRow, GoodCall
  <2> QED BY <2>1, <2>2 DEF ByNow, InOrder, Agree, RowTimes
<1>2. CASE ResolveGet
  <2>1. PICK s \in {server, NoCopy} :
          /\ resolve'.step = "got" /\ resolve'.local = resolve.local /\ resolve'.srv = s
          /\ UNCHANGED <<now, row, server, calls, stored, overtaken>>
    BY <1>2 DEF ResolveGet, TypeOK, Resolve
  <2>2. Backed'
    BY <2>1 DEF Backed, GoodRow, GoodCall, NoCopy
  <2>3. resolve.step = "read"
    BY <1>2 DEF ResolveGet
  <2> QED BY <2>1, <2>2, <2>3 DEF ByNow, InOrder, Agree, NoCopy, RowTimes, CopyTimes
<1> QED BY <1>1, <1>2

\* Its end: the server's copy replaces the row, or the row is sent.
LEMMA ApplyKeeps ==
  ASSUME IInv, ResolveApply
  PROVE  ByNow' /\ Backed' /\ InOrder'
<1> USE Times DEF IInv
<1>1. /\ resolve' = Resolved /\ resolve.step = "got"
      /\ UNCHANGED <<now, server, stored, overtaken>>
  BY DEF ResolveApply
<1>2. CASE ServerWins
  <2>1. /\ calls' = calls
        /\ row' = [spot |-> resolve.srv.spot, fin |-> resolve.srv.fin,
                   at |-> resolve.srv.at, synced |-> TRUE]
        /\ resolve.srv.spot # 0
    BY <1>2 DEF ResolveApply, ServerWins
  <2>2. Backed'
    BY <1>1, <2>1 DEF Backed, GoodRow, GoodCall, Resolved, NoRow, NoCopy
  <2> QED BY <1>1, <2>1, <2>2
          DEF ByNow, InOrder, Agree, Resolved, NoRow, NoCopy, CopyTimes
<1>3. CASE ~ServerWins
  <2>1. /\ row' = row
        /\ \/ calls' = calls
           \/ /\ calls' = calls \cup {PhonePut(resolve.local)}
              /\ resolve.local.spot # 0 /\ ~resolve.local.synced
    BY <1>3 DEF ResolveApply, Send
  <2>2. \A c \in calls' : GoodCall(c)
    BY <2>1, GoodPut DEF Backed, ByNow
  <2>3. Backed'
    BY <1>1, <2>1, <2>2 DEF Backed, GoodRow, GoodCall, Resolved, NoRow, NoCopy
  <2> QED BY <1>1, <2>1, <2>3 DEF ByNow, InOrder, Agree, Resolved, NoRow, NoCopy
<1> QED BY <1>2, <1>3

\* Every action keeps all of it.
LEMMA Inductive == IInv /\ [Next]_vars => IInv'
<1> SUFFICES ASSUME IInv, [Next]_vars PROVE IInv'
  OBVIOUS
<1>1. TypeOK'
  BY TypeStep DEF IInv
<1>2. ASSUME PhoneFlush PROVE ByNow' /\ Backed' /\ InOrder'
  <2>1. GoodCall(PhonePut(row))
    BY <1>2, GoodPut, Times DEF IInv, PhoneFlush, Backed, ByNow
  <2> QED BY <1>2, <2>1, SendKeeps DEF PhoneFlush
<1>3. ASSUME NEW c \in calls, Lost(c) PROVE ByNow' /\ Backed' /\ InOrder'
  BY <1>3 DEF IInv, Lost, ByNow, Backed, InOrder, GoodCall, GoodRow, Agree
<1>4. ASSUME PcTakesBook \/ PcIdle \/ UNCHANGED vars PROVE ByNow' /\ Backed' /\ InOrder'
  BY <1>4 DEF IInv, PcTakesBook, PcIdle, vars, ByNow, Backed, InOrder, GoodCall, GoodRow, Agree
<1>5. ByNow' /\ Backed' /\ InOrder'
  BY <1>2, <1>3, <1>4, SaveKeeps, PushKeeps, CheckKeeps, CommitKeeps, AnswerKeeps,
     ResolveKeeps, ApplyKeeps
     DEF Next, ClientNext, CallNext
<1> QED BY <1>1, <1>5 DEF IInv

\* The invariant holds initially.
LEMMA Initially == Init => IInv
<1> SUFFICES ASSUME Init PROVE IInv
  OBVIOUS
<1>1. TypeOK
  BY TypeInit
<1>2. ByNow /\ Backed
  BY DEF Init, ByNow, Backed, GoodRow, NoRow, NoCopy, Resolved
<1>3. InOrder
  BY DEF Init, InOrder, Agree, NoRow, NoCopy, Resolved
<1> QED BY <1>1, <1>2, <1>3 DEF IInv

\* The invariant of all runs.
LEMMA Invariant == Spec => []IInv
  BY Initially, Inductive, PTL DEF Spec

-----------------------------------------------------------------------------
(* The theorems *)

\* Nothing is stored before it was sampled, and a PC's stamp is its spot's.
StampedInOrder ==
  /\ server.spot <= server.at
  /\ \A c \in calls : c.had.spot <= c.had.at
                      /\ (c.from = "pc" => c.stamp = c.spot)

\* Nothing is stored before it was sampled, and a PC's stamp is its spot's: what
\* the #2680 rule of update_progress compares means what it says.
THEOREM StampsOrdered == Spec => []StampedInOrder
<1>1. IInv => StampedInOrder
  BY DEF IInv, ByNow, Backed, GoodCall, StampedInOrder
<1> QED BY <1>1, Invariant, PTL

\* A row of the phone that says "synced" holds a spot the server stored:
\* markSynced never marks a row that a save replaced while its PUT was under way.
THEOREM SyncedMeansStored == Spec => []SyncedWasStored
<1>1. IInv => SyncedWasStored
  BY DEF IInv, Backed, GoodRow, SyncedWasStored
<1> QED BY <1>1, Invariant, PTL

\* resolveStartPosition resumes from the later sampled of its two copies, as long
\* as no write has overtaken a saved spot.
THEOREM ResumesAtNewer == Spec => []ResumeTakesNewer
<1>1. IInv => ResumeTakesNewer
  BY Times
     DEF IInv, InOrder, Agree, ResumeTakesNewer, Resume, ServerWins, RowTimes, CopyTimes
<1> QED BY <1>1, Invariant, PTL

\* A push of the PC that was checked against the row it replaces never takes the
\* place of a later spot.
THEOREM PcNeverOverwrites == Spec => PcKeepsNewer
<1>1. ASSUME IInv, NEW c \in calls, c.from = "pc", c.had = server, Commit(c)
      PROVE  server'.spot >= server.spot
  <2>1. GoodCall(c) /\ CallTimes(c) /\ CopyTimes(server)
    BY <1>1, Times DEF IInv, Backed
  <2>2. server.spot <= server.at
    BY <1>1 DEF IInv, ByNow
  <2>3. c.state = "checked"
    BY <1>1 DEF Commit
  <2>4. server.spot <= c.spot
    BY <1>1, <2>1, <2>2, <2>3 DEF GoodCall, CallTimes, CopyTimes
  <2>5. server' = server \/ server'.spot = c.spot
    BY <1>1 DEF Commit
  <2> QED BY <2>1, <2>4, <2>5 DEF CallTimes, CopyTimes
<1>2. IInv /\ [Next]_vars =>
        [\A c \in calls : c.from = "pc" /\ c.had = server /\ Commit(c)
                          => server'.spot >= server.spot]_vars
  BY <1>1
<1> QED BY <1>2, Invariant, PTL DEF Spec, PcKeepsNewer
=============================================================================
