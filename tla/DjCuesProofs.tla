----------------------------- MODULE DjCuesProofs -----------------------------
(***************************************************************************)
(* For any number of songs, outros, missed boundaries and restarts: the    *)
(* engine's pause never cuts the song its outro was armed on; an outro     *)
(* pauses the ride at most once from the timer and once from a report; an  *)
(* outro that is settled pauses nothing; and an outro sends two clips at   *)
(* most, one more for every restart, and is held at most once too often.   *)
(***************************************************************************)
EXTENDS DjCues, FiniteSetTheorems, TLAPS

Causes == Sources \cup {"outro_dropped"}
Messages == {Announce} \cup {Pause(g, s) : g \in Arms, s \in Causes}

Pauses == {"no", "armed", "pausing"} \cup Paused

(* A cue; how often it was held makes no difference.                       *)
Shape == [song : 1..Songs, status : {"pending", "held", "fired", "dropped"},
          done : BOOLEAN, held : Int, pause : Pauses]

PhoneOK ==
  /\ phone \in [now : 1..Songs \cup {-1}, song : 1..Songs, clips : Int,
                playing : BOOLEAN]
  /\ report \in 1..Songs \cup {-1, 0}
  /\ wire \in Seq(Messages)

(* A report is handled for a cue, and after SetState for the last report.  *)
HandlerPcs == {"idle", "posted", "boundary", "watch", "late", "late_sent", "look",
               "check", "dropped", "dropped_sent", "save"}
HandlerOK ==
  /\ handler \in [pc : HandlerPcs, item : 1..Songs \cup {-1, 0}, cue : {0} \cup Armed]
  /\ handler.pc \in {"late", "late_sent", "check", "dropped", "dropped_sent"}
       => handler.cue # 0
  /\ handler.pc # "posted" => handler.item \in {0, report}

LoopPcs == {"idle", "armed", "guard", "pause", "sent", "save"}
LoopOK ==
  /\ loop \in [pc : LoopPcs, cue : {0} \cup Armed]
  /\ loop.pc \in {"armed", "guard", "pause", "sent"} => loop.cue # 0

ServerOK ==
  /\ cue \in Seq(Shape) /\ Len(cue) <= MaxArms
  /\ outro \in {0} \cup Armed /\ timers \subseteq Armed

(* What a restart reads back is a state of the same outro, on its song.    *)
DiskOK ==
  /\ disk.outro \in {0} \cup Armed
  /\ disk.outro # 0 => /\ disk.cue[1] \in Shape
                       /\ disk.cue[1].song = cue[disk.outro].song

(* While an outro's song is not over, it plays and no report has shown     *)
(* anything else since the outro was armed.                                *)
StillOn == \A g \in Armed \ over :
             /\ phone.now = cue[g].song
             /\ report \in {0, cue[g].song} /\ handler.item \in {0, cue[g].song}

(* A pause is timed, or about to be sent, for a report that showed the     *)
(* clip or another song: the song is over.                                 *)
TimedAfter ==
  /\ timers \subseteq over
  /\ handler.pc \in {"late", "late_sent"} => handler.cue \in over
  /\ loop.pc \in {"pause", "sent"} => loop.cue \in over

IInv == PhoneOK /\ HandlerOK /\ LoopOK /\ ServerOK /\ DiskOK /\ StillOn /\ TimedAfter
-------------------------------------------------------------------------------
(* ------------------- what a step makes of the outros ------------------- *)

(* The outros keep their songs.                                            *)
SameSongs ==
  /\ cue' \in Seq(Shape) /\ Len(cue') = Len(cue) /\ Armed' = Armed
  /\ \A g \in Armed : cue'[g].song = cue[g].song

(* No other outro changes; the outro is neither done nor held by the step. *)
Others(g) == \A h \in Armed \ {g} : cue'[h] = cue[h]
Alike(g) == cue'[g].done = cue[g].done /\ cue'[g].held = cue[g].held

LEMMA ArmedType ==
  ASSUME ServerOK
  PROVE  /\ Armed = 1..Len(cue) /\ Len(cue) \in Nat /\ Armed \subseteq Arms
         /\ \A g \in Armed : cue[g] \in Shape /\ g \in Nat \ {0}
<1>1. cue \in Seq(Shape) /\ Len(cue) <= MaxArms
  BY DEF ServerOK
<1>2. Len(cue) \in Nat /\ Armed = 1..Len(cue) /\ \A g \in 1..Len(cue) : cue[g] \in Shape
  BY <1>1 DEF Armed
<1> QED
  BY <1>1, <1>2, CuesAssumption DEF Arms

LEMMA Unchanged ==
  ASSUME ServerOK, cue' = cue
  PROVE  SameSongs /\ \A g \in Armed : Alike(g) /\ Others(g)
BY DEF SameSongs, ServerOK, Armed, Alike, Others

LEMMA Replaced ==
  ASSUME ServerOK, NEW g \in Armed, NEW c \in Shape, c.song = cue[g].song,
         cue' = [cue EXCEPT ![g] = c]
  PROVE  SameSongs /\ Others(g) /\ cue'[g] = c
<1>1. cue \in Seq(Shape)
  BY DEF ServerOK
<1>2. cue' \in Seq(Shape) /\ Len(cue') = Len(cue) /\ DOMAIN cue' = DOMAIN cue
      /\ cue'[g] = c
  BY <1>1 DEF Armed
<1> QED
  BY <1>2 DEF SameSongs, Armed, Others

LEMMA FireMakes ==
  ASSUME ServerOK, NEW g \in Armed, Fire(g)
  PROVE  /\ SameSongs /\ Others(g) /\ cue'[g].pause = "armed"
         /\ cue'[g].done /\ cue'[g].held = cue[g].held
<1>1. PICK e \in Shape : e = cue[g]
  BY ArmedType
<1> DEFINE c == [e EXCEPT !.status = "fired", !.done = TRUE, !.pause = "armed"]
<1>2. c \in Shape /\ c.song = e.song /\ c.pause = "armed" /\ c.done /\ c.held = e.held
  BY DEF Shape, Pauses
<1>3. cue' = [cue EXCEPT ![g] = c]
  BY <1>1 DEF Fire, Shape
<1> HIDE DEF c
<1> QED
  BY <1>1, <1>2, <1>3, Replaced

LEMMA HoldMakes ==
  ASSUME ServerOK, NEW g \in Armed, Hold(g)
  PROVE  /\ SameSongs /\ Others(g) /\ cue'[g].pause = cue[g].pause
         /\ cue'[g].done = cue[g].done
         /\ cue'[g].held = cue[g].held + 1 /\ cue'[g].held < MaxHeld
<1>1. PICK e \in Shape, n \in Int : e = cue[g] /\ n = e.held + 1
  BY ArmedType DEF Shape
<1> DEFINE c == [e EXCEPT !.status = "held", !.held = n]
<1>2. c \in Shape /\ c.song = e.song /\ c.pause = e.pause /\ c.done = e.done /\ c.held = n
  BY DEF Shape
<1>3. cue' = [cue EXCEPT ![g] = c]
  BY <1>1 DEF Hold, Shape
<1>4. n < MaxHeld
  BY <1>1, CuesAssumption DEF Hold, HeldTooLong
<1> HIDE DEF c
<1> QED
  BY <1>1, <1>2, <1>3, <1>4, Replaced

LEMMA DropMakes ==
  ASSUME ServerOK, NEW g \in Armed, Drop(g)
  PROVE  /\ SameSongs /\ Others(g) /\ cue'[g].pause = cue[g].pause
         /\ cue'[g].done /\ cue'[g].held \in {cue[g].held, cue[g].held + 1}
<1>1. PICK missed \in {0, 1} :
        cue' = [cue EXCEPT ![g].status = "dropped", ![g].done = TRUE,
                           ![g].held = @ + missed]
  BY DEF Drop
<1>2. PICK e \in Shape, n \in Int : e = cue[g] /\ n = e.held + missed
  BY ArmedType DEF Shape
<1> DEFINE c == [e EXCEPT !.status = "dropped", !.done = TRUE, !.held = n]
<1>3. c \in Shape /\ c.song = e.song /\ c.pause = e.pause /\ c.done /\ c.held = n
  BY DEF Shape
<1>4. cue' = [cue EXCEPT ![g] = c]
  BY <1>1, <1>2
<1>5. n \in {e.held, e.held + 1}
  BY <1>2 DEF Shape
<1> HIDE DEF c
<1> QED
  BY <1>2, <1>3, <1>4, <1>5, Replaced

(* A cue that has only its pause changed.                                  *)
LEMMA PauseMakes ==
  ASSUME ServerOK, NEW g \in Armed, NEW p \in Pauses, SetPause(g, p)
  PROVE  SameSongs /\ Others(g) /\ Alike(g) /\ cue'[g].pause = p
<1>1. PICK e \in Shape : e = cue[g]
  BY ArmedType
<1> DEFINE c == [e EXCEPT !.pause = p]
<1>2. c \in Shape /\ c.song = e.song /\ c.pause = p /\ c.done = e.done /\ c.held = e.held
  BY DEF Shape
<1>3. cue' = [cue EXCEPT ![g] = c]
  BY <1>1 DEF SetPause, Shape
<1> HIDE DEF c
<1> QED
  BY <1>1, <1>2, <1>3, Replaced DEF Alike

(* An outro is armed: one more cue, on the song of the last report.        *)
LEMMA ArmMakes ==
  ASSUME PhoneOK, ServerOK, Arm
  PROVE  \E n \in Arms \ Armed :
           /\ n = Len(cue) + 1 /\ Len(cue') = n /\ n \in Nat \ {0}
           /\ Armed' = Armed \cup {n} /\ outro' = n
           /\ loop' = [pc |-> "armed", cue |-> n]
           /\ cue' \in Seq(Shape) /\ Len(cue') <= MaxArms
           /\ \A g \in Armed : cue'[g] = cue[g] /\ g # n
           /\ cue'[n].song = report /\ cue'[n].held = 0 /\ cue'[n].done = FALSE
           /\ cue'[n].pause = "no"
           /\ over' = IF ToldRight THEN over ELSE over \cup {n}
<1> DEFINE c == [song |-> report, status |-> "pending", done |-> FALSE, held |-> 0,
                 pause |-> "no"]
           n == Len(cue) + 1
<1>1. report \in 1..Songs
  BY CuesAssumption DEF PhoneOK, Arm
<1>2. c \in Shape /\ c.song = report /\ c.held = 0 /\ c.done = FALSE /\ c.pause = "no"
  BY <1>1 DEF Shape, Pauses
<1>3. cue \in Seq(Shape) /\ Len(cue) \in Nat /\ Armed = 1..Len(cue) /\ cue' = Append(cue, c)
  BY ArmedType DEF ServerOK, Arm
<1> HIDE DEF c
<1>4. /\ cue' \in Seq(Shape) /\ Len(cue') = n /\ Armed' = Armed \cup {n}
      /\ cue'[n] = c /\ n \notin Armed /\ \A g \in Armed : cue'[g] = cue[g] /\ g # n
  BY <1>2, <1>3 DEF Armed
<1>5. n \in Arms /\ n <= MaxArms /\ n \in Nat \ {0}
  BY <1>3, CuesAssumption DEF Arm, Arms
<1>6. outro' = n /\ loop' = [pc |-> "armed", cue |-> n]
      /\ over' = IF ToldRight THEN over ELSE over \cup {n}
  BY <1>4 DEF Arm
<1>7. n \in Arms \ Armed /\ n = Len(cue) + 1
  BY <1>4, <1>5
<1> HIDE DEF n
<1> QED
  BY <1>2, <1>4, <1>5, <1>6, <1>7

(* A restart reads the outro back as it was saved: on the same song.       *)
LEMMA RestartMakes ==
  ASSUME ServerOK, DiskOK, Restart
  PROVE  /\ SameSongs
         /\ disk.outro # 0 => cue'[disk.outro] = disk.cue[1]
         /\ Others(disk.outro)
<1>1. \A g \in Armed : cue[g] \in Shape
  BY ArmedType
<1>2. cue' \in [Armed -> Shape]
  BY <1>1 DEF Restart, DiskOK
<1>3. Armed = 1..Len(cue) /\ Len(cue) \in Nat
  BY ArmedType
<1>4. cue' \in Seq(Shape) /\ Len(cue') = Len(cue) /\ DOMAIN cue' = Armed
  BY <1>2, <1>3
<1>5. \A g \in Armed : cue'[g].song = cue[g].song
  BY DEF Restart, DiskOK
<1> QED
  BY <1>4, <1>5 DEF SameSongs, Armed, Restart, DiskOK, Others

-------------------------------------------------------------------------------
(* ---------------------- the invariant, step by step -------------------- *)

LEMMA NextSongType ==
  ASSUME NEW i \in 1..Songs
  PROVE  NextSong(i) \in 1..Songs
<1>1. Songs \in Nat \ {0} /\ i \in Nat
  BY CuesAssumption
<1>2. i % Songs \in 0..(Songs - 1)
  BY <1>1
<1> QED
  BY <1>1, <1>2 DEF NextSong

LEMMA DiskStays ==
  ASSUME DiskOK, SameSongs, disk' = disk
  PROVE  DiskOK'
BY DEF SameSongs, DiskOK

LEMMA DiskSaved ==
  ASSUME ServerOK', disk' = Saved(outro', last', cue')
  PROVE  DiskOK'
<1>1. disk'.outro = outro' /\ outro' \in {0} \cup Armed'
  BY DEF Saved, ServerOK
<1>2. ASSUME outro' # 0
      PROVE  disk'.cue[1] = cue'[outro'] /\ cue'[outro'] \in Shape
  <2>1. disk'.cue = <<cue'[outro']>>
    BY <1>2 DEF Saved
  <2>2. cue' \in Seq(Shape) /\ outro' \in DOMAIN cue'
    BY <1>1, <1>2 DEF ServerOK, Armed
  <2> QED
    BY <2>1, <2>2
<1> QED
  BY <1>1, <1>2 DEF DiskOK

LEMMA Initially == Init => IInv
<1> SUFFICES ASSUME Init PROVE IInv
  OBVIOUS
<1>1. PhoneOK
  BY CuesAssumption DEF Init, PhoneOK
<1>2. Armed = {} /\ cue \in Seq(Shape) /\ Len(cue) = 0
  BY DEF Init, Armed
<1>3. ServerOK /\ HandlerOK /\ LoopOK
  BY <1>2, CuesAssumption DEF Init, ServerOK, HandlerOK, HandlerPcs, LoopOK, LoopPcs,
     Idle, Free
<1>4. DiskOK /\ StillOn /\ TimedAfter
  BY <1>2 DEF Init, DiskOK, Saved, StillOn, TimedAfter, Idle, Free
<1> QED
  BY <1>1, <1>3, <1>4 DEF IInv

LEMMA SentIsMessage ==
  ASSUME PhoneOK, NEW msg \in Messages, wire' = Append(wire, msg)
  PROVE  wire' \in Seq(Messages)
BY DEF PhoneOK

LEMMA PauseIsMessage ==
  ASSUME ServerOK, NEW g \in Armed, NEW s \in Causes
  PROVE  Pause(g, s) \in Messages
BY ArmedType DEF Messages

(* A step of the server that hears nothing new from the phone.             *)
LEMMA ServerMoves ==
  ASSUME IInv, SameSongs, UNCHANGED <<phone, report, over>>,
         wire' \in Seq(Messages), outro' \in {0} \cup Armed, timers' \subseteq Armed,
         HandlerOK', LoopOK', TimedAfter', handler'.item \in {0, handler.item},
         disk' = disk \/ disk' = Saved(outro', last', cue')
  PROVE  IInv'
<1> USE DEF IInv
<1>1. PhoneOK'
  BY DEF PhoneOK
<1>2. ServerOK'
  BY DEF ServerOK, SameSongs
<1>3. DiskOK'
  BY <1>2, DiskStays, DiskSaved
<1>4. StillOn'
  BY DEF StillOn, SameSongs
<1> QED
  BY <1>1, <1>2, <1>3, <1>4

(* The phone moves, and the server does not.                               *)
LEMMA PhoneMoves ==
  ASSUME IInv, UNCHANGED <<report, server>>, PhoneOK', over \subseteq over',
         \/ over' = over /\ phone'.now = phone.now
         \/ over' = over \cup {g \in Armed : cue[g].song = phone.now}
  PROVE  IInv'
<1> USE DEF IInv
<1>1. SameSongs /\ Armed' = Armed
  BY Unchanged DEF SameSongs, server
<1>2. HandlerOK' /\ LoopOK' /\ ServerOK' /\ DiskOK'
  BY <1>1, DiskStays DEF HandlerOK, LoopOK, ServerOK, server
<1>3. TimedAfter'
  BY DEF TimedAfter, server
<1>4. StillOn'
  BY <1>1 DEF StillOn, server
<1> QED
  BY <1>2, <1>3, <1>4

LEMMA AdvanceKeeps ==
  ASSUME IInv, Advance
  PROVE  IInv'
<1>1. PICK i \in 1..Songs, n \in Int : i = NextSong(phone.song) /\ n = phone.clips - 1
  BY NextSongType DEF IInv, PhoneOK
<1>2. \/ phone' = [phone EXCEPT !.now = -1, !.clips = n]
      \/ phone' = [phone EXCEPT !.now = i, !.song = i]
  BY <1>1 DEF Advance
<1>3. PhoneOK'
  BY <1>1, <1>2 DEF IInv, PhoneOK, Advance
<1> QED
  BY <1>3, PhoneMoves DEF Advance

LEMMA RiderKeeps ==
  ASSUME IInv, Rider
  PROVE  IInv'
<1>1. PhoneOK' /\ phone'.now = phone.now
  BY DEF IInv, PhoneOK, Rider
<1> QED
  BY <1>1, PhoneMoves DEF Rider, history

LEMMA DeliverKeeps ==
  ASSUME IInv, Deliver
  PROVE  IInv'
<1>1. wire' \in Seq(Messages)
  BY DEF IInv, PhoneOK, Deliver
<1>2. PICK n \in Int : n = phone.clips + 1
  BY DEF IInv, PhoneOK
<1>3. phone' \in {[phone EXCEPT !.playing = FALSE], [phone EXCEPT !.clips = n]}
  BY <1>2 DEF Deliver
<1>4. PhoneOK' /\ phone'.now = phone.now
  BY <1>1, <1>3 DEF IInv, PhoneOK, Deliver
<1> QED
  BY <1>4, PhoneMoves DEF Deliver, history

(* ---------------------------- the handler ------------------------------ *)

LEMMA PostKeeps ==
  ASSUME IInv, Post
  PROVE  IInv'
<1> USE DEF IInv
<1>1. SameSongs /\ Armed' = Armed
  BY Unchanged DEF Post, SameSongs
<1>2. /\ handler'.pc = "posted" /\ handler'.cue = 0 /\ handler'.item \in {0, phone.now}
      /\ handler' \in [pc : HandlerPcs, item : 1..Songs \cup {-1, 0}, cue : {0} \cup Armed]
  BY DEF Post, PhoneOK, HandlerPcs
<1>3. PhoneOK' /\ LoopOK' /\ ServerOK' /\ DiskOK'
  BY <1>1, DiskStays DEF PhoneOK, LoopOK, ServerOK, Post, history
<1>4. HandlerOK' /\ TimedAfter'
  BY <1>1, <1>2 DEF HandlerOK, TimedAfter, Post, history
<1>5. StillOn'
  BY <1>1, <1>2 DEF StillOn, Post, history
<1> QED
  BY <1>3, <1>4, <1>5

LEMMA SetStateKeeps ==
  ASSUME IInv, SetState
  PROVE  IInv'
<1> USE DEF IInv
<1>1. SameSongs /\ Armed' = Armed
  BY Unchanged DEF SetState, SameSongs
<1>2. /\ handler'.pc \in {"idle", "boundary"} /\ handler'.item \in {0, report'}
      /\ handler'.item \in {0, handler.item} /\ report' = handler.item
      /\ handler' \in [pc : HandlerPcs, item : 1..Songs \cup {-1, 0}, cue : {0} \cup Armed]
  BY DEF SetState, HandlerOK, HandlerPcs, Idle, HandlerTo
<1>3. PhoneOK' /\ LoopOK' /\ ServerOK' /\ DiskOK'
  BY <1>1, DiskStays DEF PhoneOK, LoopOK, ServerOK, HandlerOK, SetState, history
<1>4. HandlerOK' /\ TimedAfter'
  BY <1>1, <1>2 DEF HandlerOK, TimedAfter, SetState, history
<1>5. StillOn'
  BY <1>1, <1>2 DEF StillOn, SetState, history
<1> QED
  BY <1>3, <1>4, <1>5

(* The thread goes on, with its cue or none, to a step that sends nothing. *)
Onward(pcs) ==
  /\ handler' \in [pc : pcs, item : {0, handler.item}, cue : {0, handler.cue}]
  /\ handler.pc \notin {"idle", "posted"}

LEMMA OnwardKeeps ==
  ASSUME IInv, SameSongs, UNCHANGED report, NEW pcs, Onward(pcs),
         pcs \subseteq {"idle", "boundary", "watch", "look", "save"}
  PROVE  HandlerOK' /\ handler'.item \in {0, handler.item}
BY DEF IInv, HandlerOK, HandlerPcs, Onward, SameSongs

LEMMA LoopSame ==
  ASSUME LoopOK, SameSongs, loop' = loop
  PROVE  LoopOK'
BY DEF LoopOK, SameSongs

LEMMA HandlerSame ==
  ASSUME HandlerOK, SameSongs, UNCHANGED <<handler, report>>
  PROVE  HandlerOK'
BY DEF HandlerOK, SameSongs

(* Nothing but the thread's place changes, and what is saved.              *)
LEMMA BoundaryKeeps ==
  ASSUME IInv, Boundary
  PROVE  IInv'
<1> USE DEF IInv
<1>1. SameSongs
  BY Unchanged DEF Boundary
<1>2. Onward({"idle", "watch"})
  BY DEF Onward, Boundary, HandlerAt, HandlerTo, Idle, HandlerOK
<1>3. HandlerOK' /\ handler'.item \in {0, handler.item} /\ LoopOK'
  BY <1>1, <1>2, OnwardKeeps, LoopSame DEF Boundary
<1>4. TimedAfter'
  BY <1>2 DEF TimedAfter, Boundary, history, Onward
<1> QED
  BY <1>1, <1>3, <1>4, ServerMoves DEF Boundary, history, PhoneOK, ServerOK

LEMMA SaveReportKeeps ==
  ASSUME IInv, SaveReport
  PROVE  IInv'
<1> USE DEF IInv
<1>1. SameSongs
  BY Unchanged DEF SaveReport
<1>2. Onward({"idle"})
  BY DEF Onward, SaveReport, HandlerAt, Idle
<1>3. HandlerOK' /\ handler'.item \in {0, handler.item} /\ LoopOK'
  BY <1>1, <1>2, OnwardKeeps, LoopSame DEF SaveReport
<1>4. TimedAfter'
  BY <1>2 DEF TimedAfter, SaveReport, history, Onward
<1> QED
  BY <1>1, <1>3, <1>4, ServerMoves DEF SaveReport, history, PhoneOK, ServerOK, Persist

LEMMA LookKeeps ==
  ASSUME IInv, Look
  PROVE  IInv'
<1> USE DEF IInv
<1>1. SameSongs
  BY Unchanged DEF Look
<1>2. /\ handler'.pc \in {"check", "save"} /\ handler'.item \in {0, handler.item}
      /\ handler'.cue \in {0, outro} /\ (handler'.pc = "check" => handler'.cue # 0)
      /\ handler' \in [pc : HandlerPcs, item : 1..Songs \cup {-1, 0}, cue : {0} \cup Armed]
  BY DEF Look, Due, HandlerSaves, Idle, HandlerOK, ServerOK, HandlerPcs
<1>3. HandlerOK' /\ LoopOK'
  BY <1>1, <1>2, LoopSame DEF Look, HandlerOK, SameSongs, HandlerAt
<1>4. TimedAfter'
  BY <1>2 DEF TimedAfter, Look, history
<1> QED
  BY <1>1, <1>2, <1>3, <1>4, ServerMoves DEF Look, history, PhoneOK, ServerOK

(* A late pause waits for a song that is not the outro's: by then that is  *)
(* over.                                                                   *)
LEMMA ShownAnother ==
  ASSUME IInv, outro # 0, handler.item # 0, handler.item # cue[outro].song
  PROVE  outro \in over /\ outro \in Armed
BY DEF IInv, StillOn, ServerOK

LEMMA WatchKeeps ==
  ASSUME IInv, Watch
  PROVE  IInv'
<1> USE DEF IInv
<1>1. CASE Watched /\ OtherSong(outro)
  <2>1. outro \in over /\ outro \in Armed /\ outro # 0
    BY <1>1, ShownAnother DEF OtherSong, Watched, HandlerOK
  <2>2. SameSongs /\ UNCHANGED <<cue, timers>>
    BY <1>1, Unchanged DEF Watch
  <2>3. /\ handler'.pc = "late" /\ handler'.item = handler.item /\ handler'.cue = outro
        /\ handler' \in [pc : HandlerPcs, item : 1..Songs \cup {-1, 0}, cue : {0} \cup Armed]
    BY <1>1, <2>1 DEF Watch, HandlerOK, HandlerPcs
  <2>4. HandlerOK' /\ LoopOK' /\ TimedAfter'
    BY <2>1, <2>2, <2>3, LoopSame DEF Watch, HandlerOK, SameSongs, HandlerAt, TimedAfter, history
  <2> QED
    BY <2>2, <2>3, <2>4, ServerMoves DEF Watch, history, PhoneOK, ServerOK
<1>2. CASE ~(Watched /\ OtherSong(outro))
  <2>1. Onward({"look"})
    BY <1>2 DEF Watch, Onward, HandlerAt, HandlerTo, HandlerOK
  <2>2. SameSongs /\ timers' \subseteq Armed /\ timers' \subseteq over
    <3>1. CASE Watched /\ handler.item < 0 /\ SeeClip(outro)
      <4>1. outro # 0 /\ outro \in Armed
        BY <3>1 DEF Watched, ServerOK
      <4>2. cue[outro].song \in 1..Songs
        BY <4>1, ArmedType DEF Shape
      <4>3. handler.item # 0 /\ handler.item # cue[outro].song
        BY <3>1, <4>2 DEF HandlerOK
      <4>4. outro \in over
        BY <4>1, <4>3, ShownAnother
      <4>5. SameSongs
        BY <3>1, <4>1, PauseMakes DEF SeeClip, Pauses
      <4> QED
        BY <3>1, <4>1, <4>4, <4>5 DEF SeeClip, ServerOK, TimedAfter
    <3>2. CASE UNCHANGED <<cue, timers>>
      BY <3>2, Unchanged DEF ServerOK, TimedAfter
    <3> QED
      BY <1>2, <3>1, <3>2 DEF Watch
  <2>3. HandlerOK' /\ handler'.item \in {0, handler.item} /\ LoopOK'
    BY <2>1, <2>2, OnwardKeeps, LoopSame DEF Watch
  <2>4. TimedAfter'
    BY <2>1, <2>2 DEF TimedAfter, Watch, history, Onward
  <2> QED
    BY <2>2, <2>3, <2>4, ServerMoves DEF Watch, history, PhoneOK, ServerOK
<1> QED
  BY <1>1, <1>2

(* It holds its cue from one step to the next.                             *)
Holding(pcs) ==
  /\ handler' = [handler EXCEPT !.pc = handler'.pc] /\ handler'.pc \in pcs
  /\ handler.pc \notin {"idle", "posted"} /\ handler.cue # 0

LEMMA HoldingKeeps ==
  ASSUME IInv, SameSongs, UNCHANGED report, NEW pcs, Holding(pcs), pcs \subseteq HandlerPcs
  PROVE  HandlerOK' /\ handler'.item \in {0, handler.item} /\ handler'.cue = handler.cue
BY DEF IInv, HandlerOK, Holding, SameSongs

LEMMA PauseLateKeeps ==
  ASSUME IInv, PauseLate
  PROVE  IInv'
<1> USE DEF IInv
<1>1. SameSongs
  BY Unchanged DEF PauseLate
<1>2. handler.cue \in Armed /\ handler.cue # 0 /\ handler.cue \in over
  BY DEF PauseLate, HandlerAt, HandlerOK, TimedAfter
<1>3. Holding({"late_sent"})
  BY <1>2 DEF Holding, PauseLate, HandlerAt, HandlerTo, HandlerOK
<1>4. HandlerOK' /\ handler'.item \in {0, handler.item} /\ LoopOK' /\ handler'.cue \in over
  BY <1>1, <1>2, <1>3, HoldingKeeps, LoopSame DEF PauseLate, HandlerPcs
<1>5. TimedAfter'
  BY <1>4 DEF TimedAfter, PauseLate
<1>6. wire' \in Seq(Messages)
  BY <1>2, PauseIsMessage, SentIsMessage DEF PauseLate, Causes, Sources
<1> QED
  BY <1>1, <1>4, <1>5, <1>6, ServerMoves DEF PauseLate, ServerOK

LEMMA NoteLateKeeps ==
  ASSUME IInv, NoteLate
  PROVE  IInv'
<1> USE DEF IInv
<1>1. handler.cue \in Armed /\ "late" \in Pauses
  BY DEF NoteLate, HandlerAt, HandlerOK, Pauses, Paused, WentOut
<1>2. SameSongs
  BY <1>1, PauseMakes DEF NoteLate
<1>3. Onward({"look"})
  BY DEF Onward, NoteLate, HandlerAt, HandlerOK
<1>4. HandlerOK' /\ handler'.item \in {0, handler.item} /\ LoopOK'
  BY <1>2, <1>3, OnwardKeeps, LoopSame DEF NoteLate
<1>5. TimedAfter'
  BY <1>3 DEF TimedAfter, NoteLate, history, Onward
<1> QED
  BY <1>2, <1>4, <1>5, ServerMoves DEF NoteLate, history, PhoneOK, ServerOK

(* The decision about a cue, at a boundary or while it is being armed.     *)
LEMMA Decided ==
  ASSUME IInv, NEW g \in Armed, Fire(g) \/ Hold(g) \/ Drop(g)
  PROVE  SameSongs /\ wire' \in Seq(Messages)
<1>1. SameSongs
  BY FireMakes, HoldMakes, DropMakes DEF IInv
<1>2. Announce \in Messages /\ wire \in Seq(Messages)
  BY DEF Messages, IInv, PhoneOK
<1>3. wire' = wire \/ wire' = Append(wire, Announce)
  BY DEF Fire, Hold, Drop
<1> QED
  BY <1>1, <1>2, <1>3, SentIsMessage DEF IInv

LEMMA CheckKeeps ==
  ASSUME IInv, Check
  PROVE  IInv'
<1> USE DEF IInv
<1>1. handler.cue \in Armed /\ handler.cue # 0
  BY DEF Check, HandlerAt, HandlerOK
<1>2. SameSongs /\ wire' \in Seq(Messages)
  BY <1>1, Decided DEF Check
<1>3. Onward({"save"}) \/ Holding({"dropped"})
  BY <1>1 DEF Check, Onward, Holding, HandlerAt, HandlerTo, HandlerSaves, Idle, HandlerOK
<1>4. HandlerOK' /\ handler'.item \in {0, handler.item} /\ LoopOK'
  BY <1>2, <1>3, OnwardKeeps, HoldingKeeps, LoopSame DEF Check, HandlerPcs
<1>5. TimedAfter'
  BY <1>3 DEF TimedAfter, Check, history, Onward, Holding
<1> QED
  BY <1>2, <1>4, <1>5, ServerMoves DEF Check, history, ServerOK

LEMMA PauseInsteadKeeps ==
  ASSUME IInv, PauseInstead
  PROVE  IInv'
<1> USE DEF IInv
<1>1. SameSongs
  BY Unchanged DEF PauseInstead
<1>2. handler.cue \in Armed /\ handler.cue # 0
  BY DEF PauseInstead, HandlerAt, HandlerOK
<1>3. Holding({"dropped_sent"})
  BY <1>2 DEF Holding, PauseInstead, HandlerAt, HandlerTo, HandlerOK
<1>4. HandlerOK' /\ handler'.item \in {0, handler.item} /\ LoopOK'
  BY <1>1, <1>3, HoldingKeeps, LoopSame DEF PauseInstead, HandlerPcs
<1>5. TimedAfter'
  BY <1>3 DEF TimedAfter, PauseInstead, history, Holding
<1>6. wire' \in Seq(Messages)
  BY <1>2, PauseIsMessage, SentIsMessage DEF PauseInstead, Causes
<1> QED
  BY <1>1, <1>4, <1>5, <1>6, ServerMoves DEF PauseInstead, history, ServerOK

LEMMA NoteInsteadKeeps ==
  ASSUME IInv, NoteInstead
  PROVE  IInv'
<1> USE DEF IInv
<1>1. handler.cue \in Armed /\ "no_outro" \in Pauses
  BY DEF NoteInstead, HandlerAt, HandlerOK, Pauses, Paused
<1>2. SameSongs
  BY <1>1, PauseMakes DEF NoteInstead
<1>3. Onward({"save"})
  BY DEF Onward, NoteInstead, HandlerAt, HandlerSaves, Idle
<1>4. HandlerOK' /\ handler'.item \in {0, handler.item} /\ LoopOK'
  BY <1>2, <1>3, OnwardKeeps, LoopSame DEF NoteInstead
<1>5. TimedAfter'
  BY <1>3 DEF TimedAfter, NoteInstead, history, Onward
<1> QED
  BY <1>2, <1>4, <1>5, ServerMoves DEF NoteInstead, history, PhoneOK, ServerOK

(* --------------------------- the event loop ---------------------------- *)

(* An outro is armed on the song of the last report, or too late for it.   *)
LEMMA ArmKeeps ==
  ASSUME IInv, Arm
  PROVE  IInv'
<1> USE DEF IInv
<1>1. PICK n \in Arms \ Armed :
           /\ n = Len(cue) + 1 /\ Len(cue') = n /\ n \in Nat \ {0}
           /\ Armed' = Armed \cup {n} /\ outro' = n
           /\ loop' = [pc |-> "armed", cue |-> n]
           /\ cue' \in Seq(Shape) /\ Len(cue') <= MaxArms
           /\ \A g \in Armed : cue'[g] = cue[g] /\ g # n
           /\ cue'[n].song = report /\ cue'[n].held = 0 /\ cue'[n].done = FALSE
           /\ cue'[n].pause = "no"
           /\ over' = IF ToldRight THEN over ELSE over \cup {n}
  BY ArmMakes, Zenon
<1>2. UNCHANGED <<handler, timers, disk, phone, report, wire>>
  BY DEF Arm
<1>3. PhoneOK' /\ HandlerOK'
  BY <1>1, <1>2 DEF PhoneOK, HandlerOK
<1>4. ServerOK'
  BY <1>1, <1>2 DEF ServerOK
<1>5. LoopOK'
  BY <1>1 DEF LoopOK, LoopPcs
<1>6. DiskOK'
  BY <1>1, <1>2 DEF DiskOK
<1>7. TimedAfter'
  BY <1>1, <1>2 DEF TimedAfter
<1>8. StillOn'
  <2> SUFFICES ASSUME NEW g \in Armed', g \notin over'
               PROVE  /\ phone'.now = cue'[g].song
                      /\ report' \in {0, cue'[g].song} /\ handler'.item \in {0, cue'[g].song}
    BY DEF StillOn
  <2>1. over \subseteq over' /\ (~ToldRight => n \in over')
    BY <1>1
  <2>2. CASE g = n
    <3>1. ToldRight
      BY <2>1, <2>2
    <3>2. handler.item \in {0, report}
      BY <3>1 DEF ToldRight, HandlerOK, HandlerAt, StillOn
    <3> QED
      BY <1>1, <1>2, <2>2, <3>1, <3>2 DEF ToldRight
  <2>3. CASE g \in Armed
    BY <1>1, <1>2, <2>1, <2>3 DEF StillOn
  <2> QED
    BY <1>1, <2>2, <2>3
<1> QED
  BY <1>3, <1>4, <1>5, <1>6, <1>7, <1>8

(* The loop goes on to a step that sends nothing.                          *)
LEMMA LoopOnward ==
  ASSUME IInv, SameSongs, UNCHANGED <<phone, report, handler, over>>,
         wire' \in Seq(Messages), timers' \subseteq timers, outro' = outro,
         \/ loop' = Free \/ loop' = [pc |-> "save", cue |-> 0]
         \/ loop' = [loop EXCEPT !.pc = "guard"] /\ loop.cue # 0,
         disk' = disk \/ disk' = Saved(outro', last', cue')
  PROVE  IInv'
<1> USE DEF IInv
<1>1. HandlerOK' /\ handler'.item \in {0, handler.item}
  BY HandlerSame
<1>2. LoopOK' /\ loop'.pc \notin {"pause", "sent"}
  BY DEF LoopOK, LoopPcs, SameSongs, Free
<1>3. TimedAfter' /\ timers' \subseteq Armed
  BY <1>2 DEF TimedAfter, ServerOK
<1> QED
  BY <1>1, <1>2, <1>3, ServerMoves DEF ServerOK

LEMMA MarkTrackKeeps ==
  ASSUME IInv, MarkTrack
  PROVE  IInv'
<1>1. SameSongs
  BY Unchanged DEF MarkTrack, IInv
<1>2. loop.cue # 0
  BY DEF IInv, MarkTrack, LoopAt, LoopOK
<1> QED
  BY <1>1, <1>2, LoopOnward DEF MarkTrack, LoopTo, history, IInv, PhoneOK

LEMMA CheckArmedKeeps ==
  ASSUME IInv, CheckArmed
  PROVE  IInv'
<1>1. loop.cue \in Armed
  BY DEF IInv, CheckArmed, LoopAt, LoopOK
<1>2. SameSongs /\ wire' \in Seq(Messages)
  BY <1>1, Decided DEF CheckArmed
<1>3. loop' = [pc |-> "save", cue |-> 0]
  BY DEF CheckArmed, LoopSaves, Free
<1> QED
  BY <1>2, <1>3, LoopOnward DEF CheckArmed, history

LEMMA SaveLoopKeeps ==
  ASSUME IInv, SaveLoop
  PROVE  IInv'
<1>1. SameSongs
  BY Unchanged DEF SaveLoop, IInv
<1> QED
  BY <1>1, LoopOnward DEF SaveLoop, Persist, history, IInv, PhoneOK

LEMMA TimerKeeps ==
  ASSUME IInv, NEW g \in Arms, TimerFires(g)
  PROVE  IInv'
<1> USE DEF IInv
<1>1. SameSongs
  BY Unchanged DEF TimerFires
<1>2. g \in Armed /\ g \in over /\ g # 0
  BY ArmedType DEF TimerFires, ServerOK, TimedAfter
<1>3. loop' \in {[pc |-> "pause", cue |-> g], Free}
  BY DEF TimerFires
<1>4. LoopOK' /\ HandlerOK' /\ handler'.item \in {0, handler.item}
  BY <1>1, <1>2, <1>3, HandlerSame DEF LoopOK, LoopPcs, SameSongs, TimerFires, Free, history
<1>5. TimedAfter' /\ timers' \subseteq Armed
  BY <1>2, <1>3 DEF TimedAfter, TimerFires, history, Free, ServerOK
<1> QED
  BY <1>1, <1>4, <1>5, ServerMoves DEF TimerFires, history, PhoneOK, ServerOK

LEMMA SendPauseKeeps ==
  ASSUME IInv, SendPause
  PROVE  IInv'
<1> USE DEF IInv
<1>1. SameSongs
  BY Unchanged DEF SendPause
<1>2. loop.cue \in Armed /\ loop.cue # 0 /\ loop.cue \in over
  BY DEF SendPause, LoopAt, LoopOK, TimedAfter
<1>3. /\ loop'.pc = "sent" /\ loop'.cue = loop.cue
      /\ loop' \in [pc : LoopPcs, cue : {0} \cup Armed]
  BY DEF SendPause, LoopTo, LoopOK, LoopPcs
<1>4. LoopOK' /\ HandlerOK' /\ handler'.item \in {0, handler.item}
  BY <1>1, <1>2, <1>3, HandlerSame DEF LoopOK, SameSongs, SendPause
<1>5. TimedAfter'
  BY <1>2, <1>3 DEF TimedAfter, SendPause
<1>6. wire' \in Seq(Messages)
  BY <1>2, PauseIsMessage, SentIsMessage DEF SendPause, Causes, Sources
<1> QED
  BY <1>1, <1>4, <1>5, <1>6, ServerMoves DEF SendPause, ServerOK

LEMMA NotePausedKeeps ==
  ASSUME IInv, NotePaused
  PROVE  IInv'
<1>1. loop.cue \in Armed /\ "paused" \in Pauses
  BY DEF IInv, NotePaused, LoopAt, LoopOK, Pauses, Paused, WentOut
<1>2. SameSongs
  BY <1>1, PauseMakes DEF NotePaused, IInv
<1>3. loop' = [pc |-> "save", cue |-> 0]
  BY DEF NotePaused, LoopSaves, Free
<1> QED
  BY <1>2, <1>3, LoopOnward DEF NotePaused, history, IInv, PhoneOK

(* ------------------------------ the rest ------------------------------- *)

LEMMA EndsKeep ==
  ASSUME IInv, Disarm \/ StopPool \/ PoolSaves
  PROVE  IInv'
<1> USE DEF IInv
<1>1. SameSongs /\ UNCHANGED <<phone, wire, report, handler, loop, timers, history>>
  BY Unchanged DEF Disarm, StopPool, PoolSaves
<1>2. outro' \in {0, outro} /\ disk' = Saved(outro', last', cue')
  BY DEF Disarm, StopPool, PoolSaves, Persist
<1>3. LoopOK' /\ HandlerOK' /\ handler'.item \in {0, handler.item}
  BY <1>1, HandlerSame, LoopSame
<1>4. TimedAfter'
  BY <1>1 DEF TimedAfter, history
<1> QED
  BY <1>1, <1>2, <1>3, <1>4, ServerMoves DEF history, PhoneOK, ServerOK

LEMMA RestartKeeps ==
  ASSUME IInv, Restart
  PROVE  IInv'
<1> USE DEF IInv
<1>1. SameSongs
  BY RestartMakes
<1>2. /\ handler' = Idle /\ loop' = Free /\ timers' = {} /\ report' = 0 /\ wire' = <<>>
      /\ outro' = disk.outro /\ UNCHANGED <<phone, disk, over>>
  BY DEF Restart
<1>3. PhoneOK'
  BY <1>2 DEF PhoneOK
<1>4. HandlerOK' /\ LoopOK' /\ ServerOK'
  BY <1>1, <1>2 DEF HandlerOK, HandlerPcs, LoopOK, LoopPcs, ServerOK, DiskOK, SameSongs,
     Idle, Free
<1>5. DiskOK'
  BY <1>1, <1>2, DiskStays
<1>6. StillOn' /\ TimedAfter'
  BY <1>1, <1>2 DEF StillOn, TimedAfter, SameSongs, Idle, Free
<1> QED
  BY <1>3, <1>4, <1>5, <1>6

LEMMA Inductive == IInv /\ [Next]_vars => IInv'
<1> SUFFICES ASSUME IInv, [Next]_vars PROVE IInv'
  OBVIOUS
<1>1. CASE Advance \/ Rider \/ Deliver \/ Restart
  BY <1>1, AdvanceKeeps, RiderKeeps, DeliverKeeps, RestartKeeps
<1>2. CASE Post \/ OfAReport
  BY <1>2, PostKeeps, SetStateKeeps, BoundaryKeeps, WatchKeeps, PauseLateKeeps,
     NoteLateKeeps, LookKeeps, CheckKeeps, PauseInsteadKeeps, NoteInsteadKeeps,
     SaveReportKeeps DEF OfAReport
<1>3. CASE Arm \/ OfTheLoop \/ \E g \in Arms : TimerFires(g)
  BY <1>3, ArmKeeps, MarkTrackKeeps, CheckArmedKeeps, SaveLoopKeeps, TimerKeeps,
     SendPauseKeeps, NotePausedKeeps DEF OfTheLoop
<1>4. CASE Disarm \/ StopPool \/ PoolSaves
  BY <1>4, EndsKeep
<1>5. CASE UNCHANGED vars
  <2>1. PhoneOK' /\ phone'.now = phone.now
    BY <1>5 DEF IInv, PhoneOK, vars
  <2> QED
    BY <1>5, <2>1, PhoneMoves DEF vars, server
<1> QED
  BY <1>1, <1>2, <1>3, <1>4, <1>5 DEF Next

-------------------------------------------------------------------------------
(* ------------------------------ who pauses ----------------------------- *)

LEMMA LastOnWire ==
  ASSUME wire \in Seq(Messages), NEW a \in Messages, NEW b \in Messages,
         Append(wire, a) = Append(wire, b)
  PROVE  a = b
<1>1. Append(wire, a)[Len(wire) + 1] = a /\ Append(wire, b)[Len(wire) + 1] = b
  OBVIOUS
<1> QED
  BY <1>1

LEMMA OneMore ==
  ASSUME wire \in Seq(Messages), NEW a \in Messages, wire' = Append(wire, a)
  PROVE  wire' # wire /\ wire' # <<>> /\ (wire # <<>> => wire' # Tail(wire))
<1>1. Len(wire') = Len(wire) + 1 /\ Len(wire) \in Nat
  OBVIOUS
<1>2. wire # <<>> => Len(Tail(wire)) = Len(wire) - 1
  OBVIOUS
<1> QED
  BY <1>1, <1>2

LEMMA Messengers ==
  ASSUME NEW g \in Arms, NEW h \in Arms, NEW s \in Causes, NEW t \in Causes
  PROVE  /\ Pause(g, s) \in Messages /\ Announce \in Messages /\ Pause(g, s) # Announce
         /\ Pause(g, s) = Pause(h, t) => g = h /\ s = t
<1>1. Pause(g, s) \in Messages /\ Announce \in Messages
  BY DEF Messages
<1>2. Pause(g, s).kind = "pause" /\ Announce.kind = "announce"
  BY DEF Pause, Announce
<1>3. Pause(g, s).cue = g /\ Pause(h, t).cue = h /\ Pause(g, s).source = s
      /\ Pause(h, t).source = t
  BY DEF Pause
<1> QED
  BY <1>1, <1>2, <1>3

(* A pause of an outro's clip is sent by a thread that had looked.         *)
Late(g, s) == PauseLate /\ handler.cue = g /\ s = "outro_late"
Timed(g, s) == SendPause /\ loop.cue = g /\ s = "outro"

LEMMA WhoPauses ==
  ASSUME IInv, [Next]_vars, NEW g \in Arms, NEW s \in Sources, Sends(g, s)
  PROVE  Late(g, s) \/ Timed(g, s)
<1> USE DEF IInv
<1>1. wire \in Seq(Messages) /\ wire' = Append(wire, Pause(g, s)) /\ s \in Causes
      /\ Pause(g, s) \in Messages
  BY Messengers DEF PhoneOK, Sends, Causes
<1>2. wire' # wire /\ wire' # <<>> /\ (wire # <<>> => wire' # Tail(wire))
  BY <1>1, OneMore
<1>3. ASSUME NEW h \in Armed, NEW t \in Causes, wire' = Append(wire, Pause(h, t))
      PROVE  h = g /\ t = s
  <2>1. h \in Arms
    BY ArmedType
  <2>2. Pause(h, t) \in Messages /\ Pause(h, t) = Pause(g, s)
    BY <1>1, <1>3, <2>1, LastOnWire, Messengers
  <2> QED
    BY <1>1, <2>1, <2>2, Messengers
<1>4. wire' # Append(wire, Announce)
  BY <1>1, LastOnWire, Messengers
<1>5. ~Check /\ ~CheckArmed
  BY <1>2, <1>4 DEF Check, CheckArmed, Fire, Hold, Drop
<1>6. ~PauseInstead
  <2>1. handler.pc = "dropped" => handler.cue \in Armed
    BY DEF HandlerOK
  <2>2. "outro_dropped" \in Causes /\ "outro_dropped" # s
    BY DEF Causes, Sources
  <2> QED
    BY <1>3, <2>1, <2>2 DEF PauseInstead, HandlerAt
<1>7. CASE PauseLate
  <2>1. handler.cue \in Armed /\ "outro_late" \in Causes
    BY <1>7 DEF PauseLate, HandlerAt, HandlerOK, Causes, Sources
  <2> QED
    BY <1>3, <1>7, <2>1 DEF PauseLate, Late
<1>8. CASE SendPause
  <2>1. loop.cue \in Armed /\ "outro" \in Causes
    BY <1>8 DEF SendPause, LoopAt, LoopOK, Causes, Sources
  <2> QED
    BY <1>3, <1>8, <2>1 DEF SendPause, Timed
<1>9. ~(Advance \/ Rider \/ Deliver \/ Restart \/ Post \/ Arm \/ Disarm \/ StopPool
        \/ PoolSaves \/ UNCHANGED vars)
  BY <1>2 DEF Advance, Rider, Deliver, Restart, Post, Arm, Disarm, StopPool, PoolSaves, vars
<1>10. ~(SetState \/ Boundary \/ Watch \/ NoteLate \/ Look \/ NoteInstead \/ SaveReport
         \/ MarkTrack \/ SaveLoop \/ NotePaused \/ \E h \in Arms : TimerFires(h))
  BY <1>2 DEF SetState, Boundary, Watch, NoteLate, Look, NoteInstead, SaveReport,
     MarkTrack, SaveLoop, NotePaused, TimerFires
<1> QED
  BY <1>5, <1>6, <1>7, <1>8, <1>9, <1>10 DEF Next, OfAReport, OfTheLoop

(* The pause that ends a ride never cuts the song its outro was armed on:  *)
(* dj_triggers.py sends it late only for a report of another song, and     *)
(* times it only from a report of the clip.                                *)
THEOREM PausesAfterTheSong == Spec => NeverCutsTheSong
<1>1. ASSUME IInv, [Next]_vars, NEW g \in Arms, NEW s \in Sources, Sends(g, s)
      PROVE  g \in over
  <2>1. CASE Late(g, s)
    BY <1>1, <2>1 DEF IInv, TimedAfter, Late, PauseLate, HandlerAt
  <2>2. CASE Timed(g, s)
    BY <1>1, <2>2 DEF IInv, TimedAfter, Timed, SendPause, LoopAt
  <2> QED
    BY <1>1, <2>1, <2>2, WhoPauses
<1>2. IInv /\ [Next]_vars =>
        [\A g \in Arms, s \in Sources : Sends(g, s) => g \in over]_vars
  BY <1>1
<1> QED
  BY <1>2, Initially, Inductive, PTL DEF Spec, NeverCutsTheSong

-------------------------------------------------------------------------------
(* --------------------------- once, and no more ------------------------- *)

(* Nothing has come of the outro's pause yet.                              *)
Fresh(g) == /\ cue[g].pause \notin WentOut /\ g \notin timers /\ ~AboutToPause(g)
            /\ \A s \in Sources : <<g, s>> \notin sent

(* A thread may still fire it, or drop it.                                 *)
Arming(g) == loop.pc \in {"armed", "guard"} /\ loop.cue = g
Pending(g) == \/ ~cue[g].done \/ Arming(g)
              \/ handler.pc \in {"check", "dropped", "dropped_sent"} /\ handler.cue = g

PendingIsFresh == \A g \in Armed : Pending(g) => Fresh(g)
Unfired == \A g \in Armed : ~cue[g].done => cue[g].pause = "no"
UnfiredOnDisk == disk.outro # 0 => (~disk.cue[1].done => disk.cue[1].pause = "no")

DroppedIsDone == handler.pc \in {"dropped", "dropped_sent"} => cue[handler.cue].done

(* While an outro is being armed no report is handed to a thread: whatever *)
(* fired it is past the pauses.                                            *)
ArmingAlone == \A g \in Armed :
                 Arming(g) => cue[g].pause = "no" \/ handler.pc \in {"idle", "save"}

FirstTime == /\ handler.pc = "late" => <<handler.cue, "outro_late">> \notin sent
             /\ loop.pc = "pause" => <<loop.cue, "outro">> \notin sent

(* A pause of the live outro is noted, or the thread that sent it is about *)
(* to note it.                                                             *)
NotedLate(g) == <<g, "outro_late">> \in sent =>
                  \/ cue[g].pause \in WentOut
                  \/ handler.pc = "late_sent" /\ handler.cue = g
NotedPaused(g) == <<g, "outro">> \in sent =>
                    \/ cue[g].pause \in WentOut
                    \/ loop.pc = "sent" /\ loop.cue = g
Noted == outro # 0 => NotedLate(outro) /\ NotedPaused(outro)

Once == /\ sent \subseteq Armed \X Sources
        /\ PendingIsFresh /\ Unfired /\ UnfiredOnDisk /\ ArmingAlone /\ FirstTime /\ Noted
        /\ DroppedIsDone

LEMMA OnceInitially == Init => Once
<1> SUFFICES ASSUME Init PROVE Once
  OBVIOUS
<1>1. Armed = {}
  BY DEF Init, Armed
<1> QED
  BY <1>1 DEF Init, Once, PendingIsFresh, Unfired, UnfiredOnDisk, ArmingAlone, FirstTime,
     Noted, DroppedIsDone, Saved, Idle, Free

(* What a step may do to the outro g: it is not opened again, no thread    *)
(* starts to pause for it while it is open, and what was noted stays.      *)
Gently(g) ==
  /\ Pending(g)' => /\ Pending(g) /\ cue'[g].pause \notin WentOut
                    /\ g \notin timers' /\ ~AboutToPause(g)'
  /\ cue[g].done => cue'[g].done
  /\ ~cue'[g].done => cue'[g].pause = "no"
  /\ Arming(g)' => /\ Arming(g)
                   /\ cue'[g].pause = "no" \/ handler'.pc \in {"idle", "save"}
  /\ cue[g].pause \in WentOut => cue'[g].pause \in WentOut

(* What it may do to the history: only a thread that notes it next sends.  *)
Honest(g) ==
  /\ <<g, "outro_late">> \in sent' => \/ <<g, "outro_late">> \in sent
                                      \/ handler'.pc = "late_sent" /\ handler'.cue = g
  /\ <<g, "outro">> \in sent' => \/ <<g, "outro">> \in sent
                                 \/ loop'.pc = "sent" /\ loop'.cue = g

HandlerMay ==
  /\ handler'.pc = "late" => <<handler'.cue, "outro_late">> \notin sent'
  /\ handler.pc = "late_sent" => \/ handler' = handler
                                 \/ cue'[handler.cue].pause \in WentOut
  /\ handler'.pc \in {"dropped", "dropped_sent"} => cue'[handler'.cue].done
LoopMay ==
  /\ loop'.pc = "pause" => <<loop'.cue, "outro">> \notin sent'
  /\ loop.pc = "sent" => loop' = loop \/ cue'[loop.cue].pause \in WentOut

DiskFollows == disk' = disk \/ disk' = Saved(outro', last', cue')

LEMMA StaysFresh ==
  ASSUME NEW g \in Armed, Fresh(g), Pending(g)', Gently(g), Honest(g)
  PROVE  Fresh(g)'
<1>1. ~AboutToPause(g)' /\ cue'[g].pause \notin WentOut /\ g \notin timers'
  BY DEF Gently
<1>2. ~(handler'.pc = "late_sent" /\ handler'.cue = g) /\ ~(loop'.pc = "sent" /\ loop'.cue = g)
  BY <1>1 DEF AboutToPause
<1>3. <<g, "outro_late">> \notin sent /\ <<g, "outro">> \notin sent
  BY DEF Fresh, Sources
<1>4. <<g, "outro_late">> \notin sent' /\ <<g, "outro">> \notin sent'
  BY <1>2, <1>3 DEF Honest
<1> QED
  BY <1>1, <1>4 DEF Fresh, Sources

LEMMA OnceStep ==
  ASSUME IInv, IInv', Once, SameSongs, outro' \in {0, outro}, DiskFollows,
         sent' \subseteq Armed \X Sources,
         \A g \in Armed : Gently(g) /\ Honest(g), HandlerMay, LoopMay
  PROVE  Once'
<1> USE DEF Once
<1>1. Armed' = Armed
  BY DEF SameSongs
<1>2. PendingIsFresh'
  <2>1. ASSUME NEW g \in Armed, Pending(g)'
        PROVE  Fresh(g)'
    <3>1. Gently(g) /\ Honest(g)
      OBVIOUS
    <3>2. Pending(g)
      BY <2>1, <3>1 DEF Gently
    <3>3. Fresh(g)
      BY <3>2 DEF PendingIsFresh
    <3> QED
      BY <2>1, <3>1, <3>3, StaysFresh
  <2> QED
    BY <1>1, <2>1 DEF PendingIsFresh
<1>3. Unfired' /\ ArmingAlone'
  BY <1>1 DEF Unfired, ArmingAlone, Gently
<1>4. UnfiredOnDisk'
  <2>1. CASE disk' = disk
    BY <2>1 DEF UnfiredOnDisk
  <2>2. CASE disk' = Saved(outro', last', cue') /\ outro' # 0
    <3>1. disk'.cue[1] = cue'[outro'] /\ outro' \in Armed
      BY <1>1, <2>2 DEF Saved, IInv, ServerOK
    <3> QED
      BY <3>1 DEF UnfiredOnDisk, Gently
  <2>3. CASE disk' = Saved(outro', last', cue') /\ outro' = 0
    BY <2>3 DEF UnfiredOnDisk, Saved
  <2> QED
    BY <2>1, <2>2, <2>3 DEF DiskFollows
<1>5. FirstTime' /\ DroppedIsDone'
  BY DEF FirstTime, DroppedIsDone, HandlerMay, LoopMay
<1>6. Noted'
  <2>1. ASSUME NEW g \in Armed, NotedLate(g), NotedPaused(g)
        PROVE  NotedLate(g)' /\ NotedPaused(g)'
    <3>1. Gently(g) /\ Honest(g)
      OBVIOUS
    <3> QED
      BY <2>1, <3>1 DEF NotedLate, NotedPaused, Gently, Honest, HandlerMay, LoopMay
  <2>2. outro' # 0 => outro' = outro /\ outro \in Armed /\ NotedLate(outro) /\ NotedPaused(outro)
    BY DEF IInv, ServerOK, Noted
  <2> QED
    BY <2>1, <2>2 DEF Noted, NotedLate, NotedPaused
<1>7. sent' \subseteq Armed' \X Sources
  BY <1>1
<1> QED
  BY <1>2, <1>3, <1>4, <1>5, <1>6, <1>7

(* A step that changes no cue, sends no such pause and looks at none.      *)
HandlerRests ==
  \/ handler' = handler
  \/ /\ handler.pc # "late_sent"
     /\ handler'.pc \in {"idle", "posted", "boundary", "watch", "look", "save"}
     /\ handler.pc = "idle" => loop.pc = "idle"
     /\ handler.pc = "save" => handler'.pc = "idle"
LoopRests == \/ loop' = loop
             \/ loop.pc # "sent" /\ loop'.pc \in {"idle", "save"}

LEMMA StillOnce ==
  ASSUME IInv, IInv', Once, UNCHANGED <<cue, sent>>, timers' \subseteq timers,
         outro' \in {0, outro}, DiskFollows, HandlerRests, LoopRests
  PROVE  Once'
<1> USE DEF Once
<1>1. SameSongs /\ Armed' = Armed
  BY Unchanged DEF IInv, SameSongs
<1>2. ASSUME NEW g \in Armed
      PROVE  Gently(g) /\ Honest(g)
  <2>1. AboutToPause(g)' => AboutToPause(g)
    BY DEF AboutToPause, HandlerRests, LoopRests
  <2>2. (Pending(g)' => Pending(g)) /\ (Arming(g)' => Arming(g))
    BY DEF Pending, Arming, HandlerRests, LoopRests
  <2>3. Pending(g) => Fresh(g)
    BY DEF PendingIsFresh
  <2>4. Arming(g)' => cue'[g].pause = "no" \/ handler'.pc \in {"idle", "save"}
    BY <2>2 DEF ArmingAlone, HandlerRests, Arming
  <2>5. ~cue[g].done => cue[g].pause = "no"
    BY DEF Unfired
  <2> QED
    BY <2>1, <2>2, <2>3, <2>4, <2>5 DEF Gently, Honest, Fresh
<1>3. HandlerMay /\ LoopMay
  BY DEF HandlerMay, LoopMay, FirstTime, DroppedIsDone, HandlerRests, LoopRests
<1> QED
  BY <1>1, <1>2, <1>3, OnceStep

(* Steps of the phone and of the report's thread that only move it on.     *)
LEMMA QuietStepsOnce ==
  ASSUME IInv, IInv', Once,
         \/ Advance \/ Rider \/ Deliver \/ Post \/ SetState \/ Boundary \/ SaveReport
         \/ SaveLoop \/ Disarm \/ StopPool \/ PoolSaves
  PROVE  Once'
<1>1. HandlerRests
  <2>1. handler.pc = "posted" \/ handler.pc = "boundary" =>
          handler'.pc \in {"idle", "boundary", "watch"} \/ handler' = handler
    BY DEF SetState, Boundary, HandlerAt, HandlerTo, Idle, IInv, HandlerOK, Advance, Rider,
       Deliver, Post, SaveReport, SaveLoop, Disarm, StopPool, PoolSaves, server
  <2>2. CASE SetState \/ Boundary
    BY <2>1, <2>2 DEF HandlerRests, SetState, Boundary, HandlerAt
  <2>3. CASE Post \/ SaveReport
    BY <2>3 DEF HandlerRests, Post, SaveReport, HandlerAt, Idle, Free
  <2> QED
    BY <2>2, <2>3 DEF HandlerRests, Advance, Rider, Deliver, SaveLoop, Disarm, StopPool,
       PoolSaves, server
<1>2. LoopRests
  BY DEF LoopRests, Advance, Rider, Deliver, Post, SetState, Boundary, SaveReport, SaveLoop,
     Disarm, StopPool, PoolSaves, server, LoopAt, Free
<1>3. DiskFollows
  BY DEF DiskFollows, Advance, Rider, Deliver, Post, SetState, Boundary, SaveReport, SaveLoop,
     Disarm, StopPool, PoolSaves, server, Persist
<1>4. UNCHANGED <<cue, sent, timers>> /\ outro' \in {0, outro}
  BY DEF Advance, Rider, Deliver, Post, SetState, Boundary, SaveReport, SaveLoop,
     Disarm, StopPool, PoolSaves, server, history
<1> QED
  BY <1>1, <1>2, <1>3, <1>4, StillOnce

LEMMA WatchOnce ==
  ASSUME IInv, IInv', Once, Watch
  PROVE  Once'
<1> USE DEF Once
<1>0. /\ handler.pc = "watch" /\ UNCHANGED <<outro, disk, loop, sent>>
      /\ \A g \in Armed : Arming(g) => cue[g].pause = "no" /\ Arming(g)'
  BY DEF Watch, HandlerAt, history, ArmingAlone, Arming
<1>1. CASE Watched /\ OtherSong(outro)
  <2>1. /\ outro \in Armed /\ outro # 0 /\ cue[outro].pause \in {"armed", "pausing"}
        /\ UNCHANGED <<cue, timers>>
        /\ handler'.pc = "late" /\ handler'.cue = outro
    BY <1>1 DEF Watch, Watched, IInv, ServerOK, HandlerOK
  <2>2. <<outro, "outro_late">> \notin sent
    BY <1>0, <2>1 DEF Noted, NotedLate, WentOut
  <2>3. SameSongs
    BY <2>1, Unchanged DEF IInv
  <2>4. ASSUME NEW g \in Armed
        PROVE  Gently(g) /\ Honest(g)
    <3>1. (~cue[g].done => cue[g].pause = "no") /\ (Pending(g) => Fresh(g))
      BY DEF Unfired, PendingIsFresh
    <3>2. (Pending(g)' => Pending(g)) /\ (Arming(g)' => Arming(g))
      BY <1>0, <2>1 DEF Pending, Arming
    <3>3. Pending(g)' => g # outro
      BY <1>0, <2>1, <3>1, <3>2 DEF Pending
    <3>4. g # outro => (AboutToPause(g)' => AboutToPause(g))
      BY <1>0, <2>1 DEF AboutToPause
    <3> QED
      BY <1>0, <2>1, <3>1, <3>2, <3>3, <3>4 DEF Gently, Honest, Fresh
  <2>5. HandlerMay /\ LoopMay
    BY <1>0, <2>1, <2>2 DEF HandlerMay, LoopMay, FirstTime
  <2> QED
    BY <1>0, <2>3, <2>4, <2>5, OnceStep DEF DiskFollows
<1>2. CASE ~(Watched /\ OtherSong(outro)) /\ UNCHANGED <<cue, timers>>
  <2>1. handler'.pc = "look"
    BY <1>2 DEF Watch, HandlerTo, IInv, HandlerOK
  <2> QED
    BY <1>0, <1>2, <2>1, StillOnce DEF HandlerRests, LoopRests, DiskFollows
<1>3. CASE Watched /\ ~OtherSong(outro) /\ SeeClip(outro)
  <2>1. /\ outro \in Armed /\ outro # 0 /\ cue[outro].pause = "armed"
        /\ timers' = timers \cup {outro}
    BY <1>3 DEF Watched, SeeClip, IInv, ServerOK
  <2>2. SameSongs /\ Others(outro) /\ Alike(outro) /\ cue'[outro].pause = "pausing"
    BY <1>3, <2>1, PauseMakes DEF SeeClip, IInv, Pauses
  <2>3. handler'.pc = "look"
    BY <1>3 DEF Watch, HandlerTo, IInv, HandlerOK
  <2>4. ASSUME NEW g \in Armed
        PROVE  Gently(g) /\ Honest(g)
    <3>1. (~cue[g].done => cue[g].pause = "no") /\ (Pending(g) => Fresh(g))
      BY DEF Unfired, PendingIsFresh
    <3>2. (Pending(g)' => Pending(g)) /\ (Arming(g)' => Arming(g))
      BY <1>0, <2>2, <2>3 DEF Pending, Arming, Alike, Others
    <3>3. Pending(g)' => g # outro
      BY <1>0, <2>1, <2>2, <2>3, <3>1, <3>2 DEF Pending, Alike
    <3>4. AboutToPause(g)' => AboutToPause(g)
      BY <1>0, <2>3 DEF AboutToPause
    <3>5. CASE g # outro
      BY <1>0, <2>1, <2>2, <3>1, <3>2, <3>3, <3>4, <3>5 DEF Gently, Honest, Fresh, Others
    <3>6. CASE g = outro
      BY <1>0, <2>1, <2>2, <3>1, <3>2, <3>3, <3>6 DEF Gently, Honest, Alike, WentOut
    <3> QED
      BY <3>5, <3>6
  <2>5. HandlerMay /\ LoopMay
    BY <1>0, <2>3 DEF HandlerMay, LoopMay, FirstTime
  <2> QED
    BY <1>0, <2>2, <2>4, <2>5, OnceStep DEF DiskFollows
<1> QED
  BY <1>1, <1>2, <1>3 DEF Watch

(* A step that opens no outro, and after which no other thread pauses.     *)
Calm(g) == /\ Pending(g)' => Pending(g)
           /\ AboutToPause(g)' => AboutToPause(g)
           /\ Arming(g)' => /\ Arming(g)
                            /\ handler.pc \in {"idle", "save"} => handler'.pc \in {"idle", "save"}

(* A late pause goes out, and is noted next.                               *)
LEMMA PauseLateOnce ==
  ASSUME IInv, IInv', Once, PauseLate
  PROVE  Once'
<1> USE DEF Once
<1>1. SameSongs
  BY Unchanged DEF PauseLate, IInv
<1>2. /\ handler.pc = "late" /\ handler.cue \in Armed
      /\ handler'.pc = "late_sent" /\ handler'.cue = handler.cue
      /\ sent' = sent \cup {<<handler.cue, "outro_late">>}
      /\ UNCHANGED <<cue, outro, disk, loop, timers>>
  BY DEF PauseLate, HandlerAt, HandlerTo, IInv, HandlerOK
<1>3. ASSUME NEW g \in Armed
      PROVE  Gently(g) /\ Honest(g)
  <2>1. (~cue[g].done => cue[g].pause = "no") /\ (Pending(g) => Fresh(g))
    BY DEF Unfired, PendingIsFresh
  <2>2. Calm(g)
    BY <1>2 DEF Pending, Arming, AboutToPause, Calm
  <2>3. Arming(g)' => cue[g].pause = "no"
    BY <1>2, <2>2 DEF ArmingAlone, Calm
  <2>4. Gently(g)
    BY <1>2, <2>1, <2>2, <2>3 DEF Gently, Fresh, Calm
  <2> QED
    BY <1>2, <2>4 DEF Honest
<1>4. HandlerMay /\ LoopMay
  BY <1>2 DEF HandlerMay, LoopMay, FirstTime
<1>5. sent' \subseteq Armed \X Sources
  BY <1>2 DEF Sources
<1> QED
  BY <1>1, <1>2, <1>3, <1>4, <1>5, OnceStep DEF DiskFollows

(* Nothing is pending for an outro that a thread is about to pause for.    *)
LEMMA NotPending ==
  ASSUME Once, NEW g \in Armed, AboutToPause(g)
  PROVE  ~Pending(g) /\ cue[g].done
BY DEF Once, PendingIsFresh, Fresh, Pending

(* What came of a pause is noted.                                          *)
LEMMA NoteOnce ==
  ASSUME IInv, IInv', Once, NEW c \in Armed, NEW p \in Pauses, SetPause(c, p),
         UNCHANGED <<outro, disk, timers, sent>>, cue[c].done,
         p \in WentOut \/ Pending(c), p \in WentOut => ~Pending(c),
         \A g \in Armed : Calm(g), Arming(c)' => handler'.pc \in {"idle", "save"},
         HandlerMay, LoopMay
  PROVE  Once'
<1> USE DEF Once
<1>1. SameSongs /\ Others(c) /\ Alike(c) /\ cue'[c].pause = p
  BY PauseMakes DEF IInv
<1>2. ASSUME NEW g \in Armed
      PROVE  Gently(g) /\ Honest(g)
  <2>1. (~cue[g].done => cue[g].pause = "no") /\ (Pending(g) => Fresh(g)) /\ Calm(g)
    BY DEF Unfired, PendingIsFresh
  <2>2. Arming(g)' => \/ cue'[g].pause = "no" /\ g # c
                      \/ handler'.pc \in {"idle", "save"}
    BY <1>1, <2>1 DEF ArmingAlone, Calm, Others
  <2>3. Pending(g)' => /\ Pending(g) /\ cue'[g].pause \notin WentOut
                       /\ g \notin timers' /\ ~AboutToPause(g)'
    BY <1>1, <2>1 DEF Calm, Fresh, Others
  <2>4. ~cue'[g].done => cue'[g].pause = "no" /\ ~cue[g].done
    BY <1>1, <2>1 DEF Others, Alike
  <2>5. cue[g].pause \in WentOut => cue'[g].pause \in WentOut
    BY <1>1, <2>1 DEF Others, Fresh
  <2> QED
    BY <2>1, <2>2, <2>3, <2>4, <2>5 DEF Gently, Honest, Calm
<1> QED
  BY <1>1, <1>2, OnceStep DEF DiskFollows

LEMMA NoteLateOnce ==
  ASSUME IInv, IInv', Once, NoteLate
  PROVE  Once'
<1>0. PICK c \in Armed : c = handler.cue
  BY DEF NoteLate, HandlerAt, IInv, HandlerOK
<1>1. /\ handler.pc = "late_sent" /\ c \in Armed /\ "late" \in Pauses \cap WentOut
      /\ handler'.pc = "look" /\ UNCHANGED <<outro, disk, loop, timers, sent>>
      /\ SetPause(c, "late")
  BY <1>0 DEF NoteLate, HandlerAt, IInv, HandlerOK, history, Pauses, Paused, WentOut
<1>2. ~Pending(c) /\ cue[c].done
  BY <1>1, <1>0, NotPending DEF AboutToPause
<1>3. SameSongs /\ Others(c) /\ Alike(c) /\ cue'[c].pause = "late"
  BY <1>1, PauseMakes DEF IInv
<1>4. ASSUME NEW g \in Armed
      PROVE  Calm(g)
  BY <1>0, <1>1, <1>2, <1>3 DEF Calm, Pending, Arming, AboutToPause, Alike, Others
<1>5. Arming(c)' => FALSE
  BY <1>1, <1>2 DEF Pending, Arming
<1>6. HandlerMay /\ LoopMay
  BY <1>0, <1>1, <1>3 DEF HandlerMay, LoopMay, Once, FirstTime
<1> QED
  BY <1>1, <1>2, <1>4, <1>5, <1>6, NoteOnce

LEMMA NotePausedOnce ==
  ASSUME IInv, IInv', Once, NotePaused
  PROVE  Once'
<1>0. PICK c \in Armed : c = loop.cue
  BY DEF NotePaused, LoopAt, IInv, LoopOK
<1>1. /\ loop.pc = "sent" /\ c \in Armed /\ "paused" \in Pauses \cap WentOut
      /\ loop'.pc = "save" /\ UNCHANGED <<outro, disk, handler, timers, sent>>
      /\ SetPause(c, "paused")
  BY <1>0 DEF NotePaused, LoopAt, LoopSaves, Free, IInv, LoopOK, history, Pauses, Paused, WentOut
<1>2. ~Pending(c) /\ cue[c].done
  BY <1>1, <1>0, NotPending DEF AboutToPause
<1>3. SameSongs /\ Others(c) /\ Alike(c) /\ cue'[c].pause = "paused"
  BY <1>1, PauseMakes DEF IInv
<1>4. ASSUME NEW g \in Armed
      PROVE  Calm(g)
  BY <1>0, <1>1, <1>2, <1>3 DEF Calm, Pending, Arming, AboutToPause, Alike, Others
<1>5. Arming(c)' => FALSE
  BY <1>1 DEF Arming
<1>6. HandlerMay
  <2>1. handler.pc \in {"dropped", "dropped_sent"} => cue'[handler.cue].done
    BY <1>3 DEF Once, DroppedIsDone, Others, Alike, IInv, HandlerOK
  <2> QED
    BY <1>0, <1>1, <2>1 DEF HandlerMay, Once, FirstTime
<1>7. LoopMay
  BY <1>0, <1>1, <1>3 DEF LoopMay, Once, FirstTime
<1> QED
  BY <1>1, <1>2, <1>4, <1>5, <1>6, <1>7, NoteOnce

LEMMA NoteInsteadOnce ==
  ASSUME IInv, IInv', Once, NoteInstead
  PROVE  Once'
<1>0. PICK c \in Armed : c = handler.cue
  BY DEF NoteInstead, HandlerAt, IInv, HandlerOK
<1>1. /\ handler.pc = "dropped_sent" /\ c \in Armed /\ "no_outro" \in Pauses \ WentOut
      /\ handler'.pc = "save" /\ UNCHANGED <<outro, disk, loop, timers, sent>>
      /\ SetPause(c, "no_outro")
  BY <1>0 DEF NoteInstead, HandlerAt, HandlerSaves, Idle, IInv, HandlerOK, history, Pauses,
     Paused, WentOut
<1>2. Pending(c) /\ cue[c].done
  BY <1>0, <1>1 DEF Pending, Once, DroppedIsDone
<1>3. SameSongs /\ Others(c) /\ Alike(c) /\ cue'[c].pause = "no_outro"
  BY <1>1, PauseMakes DEF IInv
<1>4. ASSUME NEW g \in Armed
      PROVE  Calm(g)
  BY <1>0, <1>1, <1>2, <1>3 DEF Calm, Pending, Arming, AboutToPause, Alike, Others
<1>5. HandlerMay /\ LoopMay
  <2>1. loop.pc = "sent" => loop' = loop
    BY <1>1
  <2> QED
    BY <1>0, <1>1, <2>1 DEF HandlerMay, LoopMay, Once, FirstTime
<1> QED
  BY <1>1, <1>2, <1>4, <1>5, NoteOnce

(* The steps that move a thread on with a pending outro.                   *)
LEMMA MoveOnce ==
  ASSUME IInv, IInv', Once, UNCHANGED <<cue, sent, timers, disk>>, outro' = outro,
         \A g \in Armed : Calm(g),
         HandlerMay, LoopMay
  PROVE  Once'
<1> USE DEF Once
<1>1. SameSongs
  BY Unchanged DEF IInv
<1>2. ASSUME NEW g \in Armed
      PROVE  Gently(g) /\ Honest(g)
  <2>1. (~cue[g].done => cue[g].pause = "no") /\ (Pending(g) => Fresh(g)) /\ Calm(g)
    BY DEF Unfired, PendingIsFresh
  <2>2. Arming(g)' => cue[g].pause = "no" \/ handler'.pc \in {"idle", "save"}
    BY <2>1 DEF ArmingAlone, Calm
  <2> QED
    BY <2>1, <2>2 DEF Gently, Honest, Calm, Fresh
<1> QED
  BY <1>1, <1>2, OnceStep DEF DiskFollows

LEMMA LookOnce ==
  ASSUME IInv, IInv', Once, Look
  PROVE  Once'
<1>1. /\ handler.pc = "look" /\ UNCHANGED <<cue, outro, disk, loop, timers, sent>>
      /\ \/ handler'.pc = "save"
         \/ handler'.pc = "check" /\ handler'.cue = outro /\ ~cue[outro].done
  BY DEF Look, Due, HandlerAt, HandlerSaves, Idle, IInv, HandlerOK, history
<1>2. \A g \in Armed : Calm(g)
  BY <1>1 DEF Calm, Pending, Arming, AboutToPause
<1>3. HandlerMay /\ LoopMay
  BY <1>1 DEF HandlerMay, LoopMay, Once, FirstTime
<1> QED
  BY <1>1, <1>2, <1>3, MoveOnce

LEMMA PauseInsteadOnce ==
  ASSUME IInv, IInv', Once, PauseInstead
  PROVE  Once'
<1>1. /\ handler.pc = "dropped" /\ UNCHANGED <<cue, outro, disk, loop, timers, sent>>
      /\ handler'.pc = "dropped_sent" /\ handler'.cue = handler.cue
  BY DEF PauseInstead, HandlerAt, HandlerTo, IInv, HandlerOK, history
<1>2. \A g \in Armed : Calm(g)
  BY <1>1 DEF Calm, Pending, Arming, AboutToPause
<1>3. HandlerMay /\ LoopMay
  BY <1>1 DEF HandlerMay, LoopMay, Once, FirstTime, DroppedIsDone
<1> QED
  BY <1>1, <1>2, <1>3, MoveOnce

LEMMA MarkTrackOnce ==
  ASSUME IInv, IInv', Once, MarkTrack
  PROVE  Once'
<1>1. /\ loop.pc = "armed" /\ UNCHANGED <<cue, outro, disk, handler, timers, sent>>
      /\ loop'.pc = "guard" /\ loop'.cue = loop.cue
  BY DEF MarkTrack, LoopAt, LoopTo, IInv, LoopOK, history
<1>2. \A g \in Armed : Calm(g)
  BY <1>1 DEF Calm, Pending, Arming, AboutToPause
<1>3. HandlerMay /\ LoopMay
  BY <1>1 DEF HandlerMay, LoopMay, Once, FirstTime, DroppedIsDone
<1> QED
  BY <1>1, <1>2, <1>3, MoveOnce

(* A decision about a pending outro: it is done, or stays as it was.       *)
LEMMA DecidesOnce ==
  ASSUME IInv, IInv', Once, NEW c \in Armed, Pending(c),
         Fire(c) \/ Hold(c) \/ Drop(c),
         UNCHANGED <<outro, disk, timers, sent>>,
         \A g \in Armed : /\ g # c => Calm(g)
                          /\ AboutToPause(g)' => AboutToPause(g)
                          /\ Arming(g)' => Arming(g),
         \/ handler'.pc = "save"
         \/ handler'.pc = "dropped" /\ cue'[c].pause = cue[c].pause /\ handler.pc = "check"
         \/ loop'.pc \notin {"armed", "guard"},
         HandlerMay, LoopMay
  PROVE  Once'
<1> USE DEF Once
<1>1. /\ SameSongs /\ Others(c) /\ cue'[c].pause \in {cue[c].pause, "armed"}
      /\ cue[c].done => cue'[c].done
      /\ ~cue'[c].done => ~cue[c].done /\ cue'[c].pause = cue[c].pause
  BY FireMakes, HoldMakes, DropMakes DEF IInv
<1>2. ASSUME NEW g \in Armed
      PROVE  Gently(g) /\ Honest(g)
  <2>1. (~cue[g].done => cue[g].pause = "no") /\ (Pending(g) => Fresh(g))
    BY DEF Unfired, PendingIsFresh
  <2>2. Arming(g)' => Arming(g) /\ (cue'[g].pause = "no" \/ handler'.pc \in {"idle", "save"})
    <3>1. CASE g = c
      BY <1>1, <3>1 DEF ArmingAlone, Arming
    <3>2. CASE g # c
      BY <1>1, <3>2 DEF ArmingAlone, Calm, Others
    <3> QED
      BY <3>1, <3>2
  <2>3. CASE g = c
    BY <1>1, <2>1, <2>2, <2>3 DEF Gently, Honest, Fresh, WentOut
  <2>4. CASE g # c
    BY <1>1, <2>1, <2>2, <2>4 DEF Gently, Honest, Fresh, Others, Calm
  <2> QED
    BY <2>3, <2>4
<1> QED
  BY <1>1, <1>2, OnceStep DEF DiskFollows

LEMMA CheckOnce ==
  ASSUME IInv, IInv', Once, Check
  PROVE  Once'
<1>0. PICK c \in Armed : c = handler.cue
  BY DEF Check, HandlerAt, IInv, HandlerOK
<1>1. /\ handler.pc = "check" /\ (Fire(c) \/ Hold(c) \/ Drop(c))
      /\ UNCHANGED <<outro, disk, loop, timers, sent>>
  BY <1>0 DEF Check, HandlerAt, history
<1>2. \/ handler'.pc = "save"
      \/ handler'.pc = "dropped" /\ handler'.cue = c /\ Drop(c)
  BY <1>0 DEF Check, HandlerSaves, HandlerTo, Idle, IInv, HandlerOK
<1>3. /\ Others(c) /\ Pending(c)
      /\ Drop(c) => (cue'[c].done /\ cue'[c].pause = cue[c].pause)
  BY <1>0, <1>1, FireMakes, HoldMakes, DropMakes DEF Pending, IInv
<1>4. \A g \in Armed : /\ g # c => Calm(g)
                       /\ AboutToPause(g)' => AboutToPause(g)
                       /\ Arming(g)' => Arming(g)
  BY <1>0, <1>1, <1>2, <1>3 DEF Calm, Pending, Arming, AboutToPause, Others
<1>5. HandlerMay /\ LoopMay
  BY <1>1, <1>2, <1>3 DEF HandlerMay, LoopMay, Once, FirstTime
<1> QED
  BY <1>1, <1>2, <1>3, <1>4, <1>5, DecidesOnce

LEMMA CheckArmedOnce ==
  ASSUME IInv, IInv', Once, CheckArmed
  PROVE  Once'
<1>0. PICK c \in Armed : c = loop.cue
  BY DEF CheckArmed, LoopAt, IInv, LoopOK
<1>1. /\ loop.pc = "guard" /\ (Fire(c) \/ Hold(c) \/ Drop(c))
      /\ UNCHANGED <<outro, disk, handler, timers, sent>> /\ loop'.pc = "save"
  BY <1>0 DEF CheckArmed, LoopAt, LoopSaves, Free, history
<1>2. Others(c) /\ Pending(c) /\ (cue[c].done => cue'[c].done)
  BY <1>0, <1>1, FireMakes, HoldMakes, DropMakes DEF Pending, Arming, IInv
<1>3. \A g \in Armed : /\ g # c => Calm(g)
                       /\ AboutToPause(g)' => AboutToPause(g)
                       /\ Arming(g)' => Arming(g)
  BY <1>0, <1>1, <1>2 DEF Calm, Pending, Arming, AboutToPause, Others
<1>4. handler.pc \in {"dropped", "dropped_sent"} => cue'[handler.cue].done
  BY <1>2 DEF Once, DroppedIsDone, Others, IInv, HandlerOK
<1>5. HandlerMay /\ LoopMay
  BY <1>1, <1>4 DEF HandlerMay, LoopMay, Once, FirstTime
<1> QED
  BY <1>1, <1>2, <1>3, <1>5, DecidesOnce

(* The timer looks, and pauses for the live outro if that was not noted.   *)
LEMMA TimerOnce ==
  ASSUME IInv, IInv', Once, NEW c \in Arms, TimerFires(c)
  PROVE  Once'
<1> USE DEF Once
<1>1. /\ c \in Armed /\ c \in timers /\ loop.pc = "idle" /\ timers' \subseteq timers
      /\ UNCHANGED <<cue, outro, disk, handler, sent>>
  BY DEF TimerFires, Free, IInv, ServerOK, history
<1>2. CASE StillPausing(c)
  <2>1. /\ outro = c /\ cue[c].pause = "pausing" /\ c # 0
        /\ loop'.pc = "pause" /\ loop'.cue = c
    BY <1>1, <1>2, ArmedType DEF TimerFires, StillPausing, IInv
  <2>2. ~Pending(c)
    BY <1>1 DEF PendingIsFresh, Fresh
  <2>3. <<c, "outro">> \notin sent
    BY <1>1, <2>1 DEF Noted, NotedPaused, WentOut
  <2>4. ASSUME NEW g \in Armed
        PROVE  Gently(g) /\ Honest(g)
    <3>1. (~cue[g].done => cue[g].pause = "no") /\ (Pending(g) => Fresh(g))
      BY DEF Unfired, PendingIsFresh
    <3>2. (Pending(g)' => Pending(g)) /\ ~Arming(g)'
      BY <1>1, <2>1 DEF Pending, Arming
    <3>3. g # c => (AboutToPause(g)' => AboutToPause(g))
      BY <1>1, <2>1 DEF AboutToPause
    <3> QED
      BY <1>1, <2>1, <2>2, <3>1, <3>2, <3>3 DEF Gently, Honest, Fresh
  <2>5. HandlerMay /\ LoopMay
    BY <1>1, <2>1, <2>3 DEF HandlerMay, LoopMay, FirstTime, DroppedIsDone
  <2>6. SameSongs
    BY <1>1, Unchanged DEF IInv
  <2> QED
    BY <1>1, <2>4, <2>5, <2>6, OnceStep DEF DiskFollows
<1>3. CASE ~StillPausing(c)
  <2>1. HandlerRests /\ LoopRests /\ DiskFollows
    BY <1>1, <1>3 DEF HandlerRests, LoopRests, DiskFollows, TimerFires, Free
  <2> QED
    BY <1>1, <2>1, StillOnce
<1> QED
  BY <1>2, <1>3

LEMMA SendPauseOnce ==
  ASSUME IInv, IInv', Once, SendPause
  PROVE  Once'
<1> USE DEF Once
<1>1. SameSongs
  BY Unchanged DEF SendPause, IInv
<1>2. /\ loop.pc = "pause" /\ loop.cue \in Armed
      /\ loop'.pc = "sent" /\ loop'.cue = loop.cue
      /\ sent' = sent \cup {<<loop.cue, "outro">>}
      /\ UNCHANGED <<cue, outro, disk, handler, timers>>
  BY DEF SendPause, LoopAt, LoopTo, IInv, LoopOK
<1>3. ASSUME NEW g \in Armed
      PROVE  Gently(g) /\ Honest(g)
  <2>1. (~cue[g].done => cue[g].pause = "no") /\ (Pending(g) => Fresh(g))
    BY DEF Unfired, PendingIsFresh
  <2>2. Calm(g) /\ ~Arming(g)'
    BY <1>2 DEF Pending, Arming, AboutToPause, Calm
  <2>3. Gently(g)
    BY <1>2, <2>1, <2>2 DEF Gently, Fresh, Calm
  <2> QED
    BY <1>2, <2>3 DEF Honest
<1>4. HandlerMay /\ LoopMay
  BY <1>2 DEF HandlerMay, LoopMay, FirstTime, DroppedIsDone
<1>5. sent' \subseteq Armed \X Sources
  BY <1>2 DEF Sources
<1> QED
  BY <1>1, <1>2, <1>3, <1>4, <1>5, OnceStep DEF DiskFollows

LEMMA ArmOnce ==
  ASSUME IInv, IInv', Once, Arm
  PROVE  Once'
<1> USE DEF Once
<1>1. PICK n \in Arms \ Armed :
           /\ n = Len(cue) + 1 /\ Len(cue') = n /\ n \in Nat \ {0}
           /\ Armed' = Armed \cup {n} /\ outro' = n
           /\ loop' = [pc |-> "armed", cue |-> n]
           /\ cue' \in Seq(Shape) /\ Len(cue') <= MaxArms
           /\ \A g \in Armed : cue'[g] = cue[g] /\ g # n
           /\ cue'[n].song = report /\ cue'[n].held = 0 /\ cue'[n].done = FALSE
           /\ cue'[n].pause = "no"
           /\ over' = IF ToldRight THEN over ELSE over \cup {n}
  BY ArmMakes, Zenon DEF IInv
<1>2. /\ UNCHANGED <<handler, timers, disk, sent>> /\ loop.pc = "idle"
      /\ loop'.pc = "armed" /\ loop'.cue = n
      /\ handler.cue # n /\ n \notin timers /\ n # 0
  BY <1>1 DEF Arm, Free, IInv, HandlerOK, ServerOK
<1>3. \A s \in Sources : <<n, s>> \notin sent
  OBVIOUS
<1>4. Fresh(n)' /\ cue'[n].pause = "no"
  BY <1>1, <1>2, <1>3 DEF Fresh, AboutToPause, WentOut
<1>5. ASSUME NEW g \in Armed
      PROVE  (Pending(g)' => Pending(g)) /\ (Fresh(g) => Fresh(g)') /\ ~Arming(g)'
  BY <1>1, <1>2 DEF Pending, Arming, Fresh, AboutToPause
<1>6. PendingIsFresh'
  BY <1>1, <1>4, <1>5 DEF PendingIsFresh
<1>7. Unfired' /\ UnfiredOnDisk'
  BY <1>1, <1>2, <1>4 DEF Unfired, UnfiredOnDisk
<1>8. ArmingAlone'
  BY <1>1, <1>4, <1>5 DEF ArmingAlone
<1>9. FirstTime' /\ DroppedIsDone'
  BY <1>1, <1>2 DEF FirstTime, DroppedIsDone, IInv, HandlerOK
<1>10. Noted'
  BY <1>1, <1>2, <1>3 DEF Noted, NotedLate, NotedPaused, Sources
<1>11. sent' \subseteq Armed' \X Sources
  BY <1>1, <1>2
<1> QED
  BY <1>6, <1>7, <1>8, <1>9, <1>10, <1>11

(* What a crash makes the server forget it may send again.                 *)
LEMMA RestartOnce ==
  ASSUME IInv, IInv', Once, Restart
  PROVE  Once'
<1> USE DEF Once
<1>1. /\ SameSongs /\ Armed' = Armed /\ Others(disk.outro)
      /\ disk.outro # 0 => cue'[disk.outro] = disk.cue[1]
  BY RestartMakes DEF IInv, SameSongs
<1>2. /\ outro' = disk.outro /\ disk' = disk /\ timers' = {}
      /\ handler'.pc = "idle" /\ loop'.pc = "idle" /\ disk.outro \in {0} \cup Armed
      /\ \A m \in sent' : m \in sent /\ (m[1] = disk.outro => disk.cue[1].pause \in WentOut)
  BY DEF Restart, Idle, Free, IInv, DiskOK
<1>3. /\ \A g \in Armed : Pending(g)' => ~cue'[g].done
      /\ \A g \in Armed : ~AboutToPause(g)' /\ ~Arming(g)'
  BY <1>2 DEF Pending, Arming, AboutToPause
<1>4. Unfired' /\ UnfiredOnDisk'
  <2>1. ASSUME NEW g \in Armed, ~cue'[g].done
        PROVE  cue'[g].pause = "no"
    <3>1. g # 0
      BY ArmedType DEF IInv
    <3> QED
      BY <1>1, <1>2, <2>1, <3>1 DEF Unfired, UnfiredOnDisk, Others
  <2> QED
    BY <1>1, <1>2, <2>1 DEF Unfired, UnfiredOnDisk
<1>5. PendingIsFresh'
  <2> SUFFICES ASSUME NEW g \in Armed, ~cue'[g].done
               PROVE  Fresh(g)'
    BY <1>1, <1>3 DEF PendingIsFresh
  <2>1. cue'[g].pause \notin WentOut
    BY <1>1, <1>4 DEF Unfired, WentOut
  <2>2. \A s \in Sources : <<g, s>> \notin sent'
    <3>1. CASE g = disk.outro
      <4>1. g # 0
        BY ArmedType DEF IInv
      <4> QED
        BY <1>1, <1>2, <2>1, <3>1, <4>1
    <3>2. CASE g # disk.outro
      <4>1. Fresh(g)
        BY <1>1, <3>2 DEF Others, PendingIsFresh, Pending
      <4> QED
        BY <1>2, <4>1 DEF Fresh
    <3> QED
      BY <3>1, <3>2
  <2> QED
    BY <1>2, <1>3, <2>1, <2>2 DEF Fresh
<1>6. ArmingAlone'
  BY <1>1, <1>3 DEF ArmingAlone
<1>7. FirstTime' /\ DroppedIsDone'
  BY <1>2 DEF FirstTime, DroppedIsDone
<1>8. Noted'
  BY <1>1, <1>2 DEF Noted, NotedLate, NotedPaused
<1>9. sent' \subseteq Armed' \X Sources
  BY <1>1, <1>2
<1> QED
  BY <1>4, <1>5, <1>6, <1>7, <1>8, <1>9

LEMMA OnceInductive == IInv /\ Once /\ [Next]_vars => Once'
<1> SUFFICES ASSUME IInv, IInv', Once, [Next]_vars PROVE Once'
  BY Inductive
<1>1. CASE Advance \/ Rider \/ Deliver \/ Post
  BY <1>1, QuietStepsOnce
<1>2. CASE OfAReport
  BY <1>2, QuietStepsOnce, WatchOnce, PauseLateOnce, NoteLateOnce, LookOnce, CheckOnce,
     PauseInsteadOnce, NoteInsteadOnce DEF OfAReport
<1>3. CASE Arm \/ OfTheLoop \/ \E g \in Arms : TimerFires(g)
  BY <1>3, QuietStepsOnce, ArmOnce, MarkTrackOnce, CheckArmedOnce, TimerOnce, SendPauseOnce,
     NotePausedOnce DEF OfTheLoop
<1>4. CASE Disarm \/ StopPool \/ PoolSaves
  BY <1>4, QuietStepsOnce
<1>5. CASE Restart
  BY <1>5, RestartOnce
<1>6. CASE UNCHANGED vars
  BY <1>6, StillOnce DEF vars, HandlerRests, LoopRests, DiskFollows
<1> QED
  BY <1>1, <1>2, <1>3, <1>4, <1>5, <1>6 DEF Next

(* One outro pauses the ride at most once from the timer and once from a   *)
(* report: the timer and the report that comes late each look at           *)
(* pause_state first, and between the look and the note each of them is    *)
(* alone with its kind of pause, although the other may send one too.      *)
THEOREM PausesOnce == Spec => PausesOnceEach
<1>1. ASSUME IInv, Once, [Next]_vars, NEW g \in Arms, NEW s \in Sources, Sends(g, s)
      PROVE  <<g, s>> \notin sent
  BY <1>1, WhoPauses DEF Once, FirstTime, Late, Timed, PauseLate, SendPause, HandlerAt, LoopAt
<1>2. IInv /\ Once /\ [Next]_vars =>
        [\A g \in Arms, s \in Sources : Sends(g, s) => <<g, s>> \notin sent]_vars
  BY <1>1
<1> QED
  BY <1>2, Initially, OnceInitially, Inductive, OnceInductive, PTL DEF Spec, PausesOnceEach

(* What was noted stays noted, but for a crash.                            *)
LEMMA NotedStays ==
  ASSUME IInv, Once, [Next]_vars, ~Restart, NEW g \in Armed, cue[g].pause \in WentOut
  PROVE  cue'[g].pause \in WentOut
<1> USE DEF Once
<1>1. ~Pending(g)
  BY DEF PendingIsFresh, Fresh
<1>2. ASSUME NEW c \in Armed, Pending(c), Fire(c) \/ Hold(c) \/ Drop(c)
      PROVE  cue'[g] = cue[g]
  BY <1>1, <1>2, FireMakes, HoldMakes, DropMakes DEF IInv, Others
<1>3. ASSUME NEW c \in Armed, NEW p \in Pauses, SetPause(c, p), p \in WentOut \/ g # c
      PROVE  cue'[g].pause \in WentOut
  BY <1>3, PauseMakes DEF IInv, Others
<1>4. (~Check /\ ~CheckArmed) \/ cue'[g] = cue[g]
  <2>1. CASE Check
    <3>1. handler.cue \in Armed /\ Pending(handler.cue)
      BY <2>1 DEF Check, HandlerAt, IInv, HandlerOK, Pending
    <3> QED
      BY <1>2, <2>1, <3>1 DEF Check
  <2>2. CASE CheckArmed
    <3>1. loop.cue \in Armed /\ Pending(loop.cue)
      BY <2>2 DEF CheckArmed, LoopAt, IInv, LoopOK, Pending, Arming
    <3> QED
      BY <1>2, <2>2, <3>1 DEF CheckArmed
  <2> QED
    BY <2>1, <2>2
<1>5. CASE NoteLate
  BY <1>3, <1>5 DEF NoteLate, HandlerAt, IInv, HandlerOK, Pauses, Paused, WentOut
<1>6. CASE NotePaused
  BY <1>3, <1>6 DEF NotePaused, LoopAt, IInv, LoopOK, Pauses, Paused, WentOut
<1>7. CASE NoteInstead
  <2>1. /\ handler.cue \in Armed /\ Pending(handler.cue) /\ "no_outro" \in Pauses
        /\ SetPause(handler.cue, "no_outro")
    BY <1>7 DEF NoteInstead, HandlerAt, IInv, HandlerOK, Pending, Pauses, Paused
  <2> QED
    BY <1>1, <1>3, <2>1
<1>8. CASE Watch
  <2>1. CASE Watched /\ SeeClip(outro)
    <3>1. outro \in Armed /\ cue[outro].pause = "armed" /\ "pausing" \in Pauses
          /\ SetPause(outro, "pausing")
      BY <2>1 DEF Watched, SeeClip, IInv, ServerOK, Pauses
    <3> QED
      BY <1>3, <3>1 DEF WentOut
  <2> QED
    BY <1>8, <2>1 DEF Watch
<1>9. CASE Arm
  BY <1>9, ArmMakes DEF IInv
<1>10. CASE \/ SetState \/ Boundary \/ PauseLate \/ Look \/ PauseInstead \/ SaveReport
            \/ MarkTrack \/ SaveLoop \/ SendPause \/ \E h \in Arms : TimerFires(h)
  BY <1>10 DEF SetState, Boundary, PauseLate, Look, PauseInstead, SaveReport, MarkTrack,
     SaveLoop, SendPause, TimerFires
<1>11. CASE \/ Advance \/ Rider \/ Deliver \/ Post \/ Disarm \/ StopPool \/ PoolSaves
            \/ UNCHANGED vars
  BY <1>11 DEF Advance, Rider, Deliver, Post, Disarm, StopPool, PoolSaves, server, vars
<1> QED
  BY <1>4, <1>5, <1>6, <1>7, <1>8, <1>9, <1>10, <1>11 DEF Next, OfAReport, OfTheLoop

(* A thread begins to pause for the live outro only, before that is noted. *)
LEMMA WhoIsAboutTo ==
  ASSUME IInv, [Next]_vars, NEW g \in Armed, ~AboutToPause(g), AboutToPause(g)'
  PROVE  g = outro /\ cue[g].pause \notin WentOut
<1>1. CASE Watch
  BY <1>1 DEF Watch, Watched, HandlerAt, HandlerTo, AboutToPause, IInv, HandlerOK, WentOut
<1>2. ASSUME NEW h \in Arms, TimerFires(h)
      PROVE  g = outro /\ cue[g].pause \notin WentOut
  <2>1. loop'.pc = "pause" /\ loop'.cue = g
    BY <1>2 DEF TimerFires, AboutToPause, Free, history
  <2>2. StillPausing(h) /\ h = g
    BY <1>2, <2>1 DEF TimerFires, Free
  <2> QED
    BY <2>2 DEF StillPausing, WentOut
<1>3. ~(\/ SetState \/ Boundary \/ NoteLate \/ Look \/ Check \/ PauseInstead
        \/ NoteInstead \/ SaveReport \/ Post)
  <2>1. CASE \/ SetState \/ Boundary \/ NoteLate \/ Look \/ Check \/ PauseInstead
             \/ NoteInstead \/ SaveReport \/ Post
    <3>1. loop' = loop
      BY <2>1 DEF SetState, Boundary, NoteLate, Look, Check, PauseInstead, NoteInstead,
         SaveReport, Post
    <3>2. handler'.pc \notin {"late", "late_sent"}
      <4>1. CASE SetState \/ Boundary \/ PauseInstead \/ SaveReport \/ Post
        BY <4>1 DEF SetState, Boundary, PauseInstead, SaveReport, Post, HandlerTo, Idle, IInv,
           HandlerOK
      <4>2. CASE NoteLate \/ Look \/ NoteInstead
        BY <4>2 DEF NoteLate, Look, NoteInstead, HandlerSaves, Idle, IInv, HandlerOK
      <4>3. CASE Check
        BY <4>3 DEF Check, HandlerTo, HandlerSaves, Idle, IInv, HandlerOK
      <4> QED
        BY <2>1, <4>1, <4>2, <4>3
    <3> QED
      BY <3>1, <3>2 DEF AboutToPause
  <2> QED
    BY <2>1
<1>6. ~PauseLate
  BY DEF PauseLate, HandlerAt, HandlerTo, AboutToPause, IInv, HandlerOK
<1>4. ~(MarkTrack \/ CheckArmed \/ SaveLoop \/ SendPause \/ NotePaused \/ Arm)
  BY DEF MarkTrack, CheckArmed, SaveLoop, SendPause, NotePaused, Arm, LoopAt, LoopTo,
     LoopSaves, Free, AboutToPause, IInv, LoopOK, history
<1>5. ~(Advance \/ Rider \/ Deliver \/ Disarm \/ StopPool \/ PoolSaves \/ Restart
        \/ UNCHANGED vars)
  BY DEF Advance, Rider, Deliver, Disarm, StopPool, PoolSaves, Restart, Idle, Free, server,
     vars, AboutToPause
<1> QED
  BY <1>1, <1>2, <1>3, <1>4, <1>5, <1>6 DEF Next, OfAReport, OfTheLoop

(* No outro is ever forgotten, live or not.                                *)
LEMMA ArmedGrows ==
  ASSUME IInv, [Next]_vars
  PROVE  Armed \subseteq Armed'
<1>1. CASE Arm
  BY <1>1, ArmMakes DEF IInv
<1>2. CASE Check \/ CheckArmed
  BY <1>2 DEF Check, CheckArmed, Fire, Hold, Drop, Armed
<1>3. CASE NoteLate \/ NoteInstead \/ NotePaused
  BY <1>3 DEF NoteLate, NoteInstead, NotePaused, SetPause, Armed
<1>4. CASE Watch
  BY <1>4 DEF Watch, SeeClip, SetPause, Armed
<1>5. CASE Restart
  BY <1>5 DEF Restart, Armed
<1>6. CASE \/ SetState \/ Boundary \/ PauseLate \/ Look \/ PauseInstead \/ SaveReport
           \/ MarkTrack \/ SaveLoop \/ SendPause \/ \E h \in Arms : TimerFires(h)
  BY <1>6 DEF SetState, Boundary, PauseLate, Look, PauseInstead, SaveReport, MarkTrack,
     SaveLoop, SendPause, TimerFires, Armed
<1>7. CASE \/ Advance \/ Rider \/ Deliver \/ Post \/ Disarm \/ StopPool \/ PoolSaves
           \/ UNCHANGED vars
  BY <1>7 DEF Advance, Rider, Deliver, Post, Disarm, StopPool, PoolSaves, server, vars, Armed
<1> QED
  BY <1>1, <1>2, <1>3, <1>4, <1>5, <1>6, <1>7 DEF Next, OfAReport, OfTheLoop

LEMMA WhoIsLive ==
  ASSUME IInv, [Next]_vars, ~Restart, NEW g \in Armed, g # outro
  PROVE  g # outro'
<1>1. g # 0
  BY ArmedType DEF IInv
<1>2. CASE Arm
  BY <1>2, ArmMakes DEF IInv
<1>3. ~Arm => outro' \in {0, outro}
  BY DEF Next, OfAReport, OfTheLoop, Advance, Rider, Deliver, Post, SetState, Boundary, Watch,
     PauseLate, NoteLate, Look, Check, PauseInstead, NoteInstead, SaveReport, MarkTrack,
     CheckArmed, SaveLoop, SendPause, NotePaused, TimerFires, Disarm, StopPool, PoolSaves,
     server, vars
<1> QED
  BY <1>1, <1>2, <1>3

LEMMA RestartsCounted ==
  restarts \in Nat /\ [Next]_vars => (restarts \in Nat)'
BY DEF Next, OfAReport, OfTheLoop, Advance, Rider, Deliver, Post, SetState, Boundary, Watch,
   PauseLate, NoteLate, Look, Check, PauseInstead, NoteInstead, SaveReport, MarkTrack,
   CheckArmed, SaveLoop, SendPause, NotePaused, TimerFires, Disarm, StopPool, PoolSaves,
   Arm, Restart, history, vars

(* An outro that is settled (not live any more or its pause noted, and no  *)
(* thread on its way to pause for it) stays settled and pauses nothing,    *)
(* whatever timers are left over, unless a crash makes the server forget.  *)
THEOREM NoneStrays == Spec => NoStrayPause
<1>1. ASSUME IInv, Once, restarts \in Nat, [Next]_vars, NEW g \in Arms, Settled(g)
      PROVE  /\ \A s \in Sources : ~Sends(g, s)
             /\ Settled(g)' \/ restarts' # restarts
  <2>1. g \in Armed /\ ~AboutToPause(g) /\ (g # outro \/ cue[g].pause \in WentOut)
    BY <1>1 DEF Settled
  <2>2. ASSUME NEW s \in Sources, Sends(g, s)
        PROVE  FALSE
    BY <1>1, <2>1, <2>2, WhoPauses DEF Late, Timed, PauseLate, SendPause, HandlerAt, LoopAt,
       AboutToPause
  <2>3. CASE Restart
    <3>1. restarts' = restarts + 1 /\ restarts + 1 # restarts
      BY <1>1, <2>3 DEF Restart
    <3> QED
      BY <2>2, <3>1
  <2>4. CASE ~Restart
    <3>1. ~AboutToPause(g)'
      BY <1>1, <2>1, WhoIsAboutTo
    <3>2. g \in Armed'
      BY <1>1, <2>1, ArmedGrows
    <3>3. g # outro => g # outro'
      BY <1>1, <2>1, <2>4, WhoIsLive
    <3>4. cue[g].pause \in WentOut => cue'[g].pause \in WentOut
      BY <1>1, <2>1, <2>4, NotedStays
    <3>5. g # outro' \/ cue'[g].pause \in WentOut
      BY <2>1, <3>3, <3>4
    <3> QED
      BY <3>1, <3>2, <3>5, <2>2 DEF Settled
  <2> QED
    BY <2>2, <2>3, <2>4
<1>2. IInv /\ Once /\ restarts \in Nat /\ [Next]_vars =>
        [\A g \in Arms : Settled(g) => /\ \A s \in Sources : ~Sends(g, s)
                                       /\ Settled(g)' \/ restarts' # restarts]_vars
  BY <1>1
<1>3. Init => restarts \in Nat
  BY DEF Init
<1> QED
  BY <1>2, <1>3, Initially, OnceInitially, Inductive, OnceInductive, RestartsCounted, PTL
     DEF Spec, NoStrayPause

-------------------------------------------------------------------------------
(* ------------------ how many clips, how many boundaries ---------------- *)

(* A boundary at which the outro g is being decided about.                 *)
Deciding(g) == handler.pc = "check" /\ handler.cue = g
Left(g) == (IF Arming(g) THEN 1 ELSE 0) + (IF Deciding(g) THEN 1 ELSE 0)

(* An open outro has boundaries left to be held for; the decisions that    *)
(* are under way overrun the limit by no more than one.                    *)
Patient == \A g \in Armed : /\ cue[g].held \in Nat
                            /\ cue[g].held + Left(g) <= MaxHeld + 1
                            /\ ~cue[g].done => cue[g].held < MaxHeld
PatientOnDisk == disk.outro # 0 =>
                   /\ disk.cue[1].held \in 0..MaxHeld + 1
                   /\ ~disk.cue[1].done => disk.cue[1].held < MaxHeld

Clips(w) == {i \in DOMAIN w : w[i] = Announce}
Open == {g \in Armed : ~cue[g].done \/ Deciding(g)}
Arriving == IF loop.pc \in {"armed", "guard"} THEN 1 ELSE 0

(* Every clip that waits or is on its way took one of its outro's two      *)
(* decisions, or one that a restart gave back; those to come are an open   *)
(* outro's and the arriving one's.                                         *)
Spent ==
  /\ phone.clips \in Nat
  /\ phone.clips + Cardinality(Clips(wire)) + Cardinality(Open) + Arriving
       <= 2 * Len(cue) + restarts

Track == 1..Songs \cup {-1, 0}
Named ==
  /\ \A i \in DOMAIN wire : wire[i] = Announce \/ \E g \in Armed, s \in Causes :
                                                    wire[i] = Pause(g, s)
  /\ last \in Track /\ disk.last \in Track
  /\ over \subseteq Armed /\ restarts \in 0..MaxRestarts

Counted == Patient /\ PatientOnDisk /\ Spent /\ Named

LEMMA OpenIsFinite ==
  ASSUME ServerOK
  PROVE  IsFiniteSet(Open) /\ Cardinality(Open) \in Nat
<1>1. IsFiniteSet(Armed) /\ Open \subseteq Armed
  BY ArmedType, FS_Interval DEF Open
<1> QED
  BY <1>1, FS_Subset, FS_CardinalityType

LEMMA ClipsAreFinite ==
  ASSUME NEW w \in Seq(Messages)
  PROVE  IsFiniteSet(Clips(w)) /\ Cardinality(Clips(w)) \in Nat
<1>1. IsFiniteSet(1..Len(w)) /\ Clips(w) \subseteq 1..Len(w)
  BY FS_Interval DEF Clips
<1> QED
  BY <1>1, FS_Subset, FS_CardinalityType

(* A set that grows by one element at most, and one that loses one.        *)
LEMMA Grows ==
  ASSUME NEW S, IsFiniteSet(S), NEW x, NEW T, T \subseteq S \cup {x}
  PROVE  /\ Cardinality(T) \in Nat /\ Cardinality(S) \in Nat
         /\ Cardinality(T) <= Cardinality(S) + 1
<1>1. IsFiniteSet(S \cup {x}) /\ Cardinality(S) \in Nat
  BY FS_AddElement, FS_CardinalityType
<1>2. Cardinality(S \cup {x}) \in {Cardinality(S), Cardinality(S) + 1}
  BY FS_AddElement, Zenon
<1>3. Cardinality(T) \in Nat /\ Cardinality(T) <= Cardinality(S \cup {x})
  BY <1>1, FS_Subset, FS_CardinalityType
<1> QED
  BY <1>1, <1>2, <1>3

LEMMA Shrinks ==
  ASSUME NEW S, IsFiniteSet(S), NEW T, T \subseteq S
  PROVE  /\ Cardinality(T) \in Nat /\ Cardinality(S) \in Nat
         /\ Cardinality(T) <= Cardinality(S)
         /\ \A x \in S : T \subseteq S \ {x} => Cardinality(T) <= Cardinality(S) - 1
<1>1. Cardinality(T) \in Nat /\ Cardinality(S) \in Nat /\ Cardinality(T) <= Cardinality(S)
  BY FS_Subset, FS_CardinalityType
<1>2. ASSUME NEW x \in S, T \subseteq S \ {x}
      PROVE  Cardinality(T) <= Cardinality(S) - 1
  <2>1. IsFiniteSet(S \ {x})
    BY FS_RemoveElement
  <2>2. Cardinality(S \ {x}) = Cardinality(S) - 1
    BY FS_RemoveElement, Zenon
  <2> QED
    BY <1>2, <2>1, <2>2, FS_Subset
<1> QED
  BY <1>1, <1>2

(* A command sent and a command delivered.                                 *)
LEMMA ClipSent ==
  ASSUME NEW w \in Seq(Messages)
  PROVE  Cardinality(Clips(Append(w, Announce))) <= Cardinality(Clips(w)) + 1
<1>0. Announce \in Messages
  BY DEF Messages
<1>1. PICK m \in Messages : m = Announce
  BY <1>0
<1> DEFINE v == Append(w, m)
<1>2. v \in Seq(Messages) /\ Len(v) = Len(w) + 1 /\ \A i \in 1..Len(w) : v[i] = w[i]
  OBVIOUS
<1> HIDE DEF v
<1>3. Clips(v) \subseteq Clips(w) \cup {Len(w) + 1}
  BY <1>2 DEF Clips
<1> QED
  BY <1>1, <1>3, ClipsAreFinite, Grows DEF v

LEMMA PauseOnWire ==
  ASSUME NEW w \in Seq(Messages), NEW g \in Arms, NEW s \in Causes
  PROVE  Clips(Append(w, Pause(g, s))) = Clips(w)
<1> DEFINE v == Append(w, Pause(g, s))
<1>1. /\ Len(v) = Len(w) + 1 /\ v[Len(w) + 1] = Pause(g, s) /\ DOMAIN v = 1..Len(w) + 1
      /\ DOMAIN w = 1..Len(w) /\ Len(w) \in Nat /\ \A i \in 1..Len(w) : v[i] = w[i]
  BY DEF Messages
<1>2. Pause(g, s) # Announce
  BY Messengers
<1> HIDE DEF v
<1>3. Clips(v) = Clips(w)
  BY <1>1, <1>2 DEF Clips
<1> QED
  BY <1>3 DEF v

LEMMA ClipDelivered ==
  ASSUME NEW w \in Seq(Messages), w # <<>>
  PROVE  Cardinality(Clips(Tail(w))) <=
           IF Head(w) = Announce THEN Cardinality(Clips(w)) - 1 ELSE Cardinality(Clips(w))
<1> DEFINE v == Tail(w)
           kept == Clips(w) \ {1}
           f == [i \in Clips(v) |-> i + 1]
<1>1. /\ v \in Seq(Messages) /\ Len(v) = Len(w) - 1 /\ Len(w) \in Nat \ {0}
      /\ DOMAIN v = 1..Len(v) /\ DOMAIN w = 1..Len(w)
      /\ (\A i \in 1..Len(v) : v[i] = w[i + 1]) /\ Head(w) = w[1]
  OBVIOUS
<1> HIDE DEF v
<1>2. \A i \in Clips(v) : i \in Nat \ {0} /\ i + 1 \in kept
  BY <1>1 DEF Clips
<1>3. f \in Injection(Clips(v), kept)
  BY <1>2 DEF Injection, IsInjective
<1>4. /\ IsFiniteSet(kept)
      /\ Cardinality(kept) = IF 1 \in Clips(w) THEN Cardinality(Clips(w)) - 1
                                               ELSE Cardinality(Clips(w))
  BY ClipsAreFinite, FS_RemoveElement
<1> HIDE DEF f, kept
<1>5. Cardinality(Clips(v)) <= Cardinality(kept)
  BY <1>3, <1>4, FS_Injection
<1>6. 1 \in Clips(w) <=> Head(w) = Announce
  BY <1>1 DEF Clips
<1> QED
  BY <1>4, <1>5, <1>6 DEF v

LEMMA CountedInitially == Init => Counted
<1> SUFFICES ASSUME Init PROVE Counted
  OBVIOUS
<1>1. Armed = {} /\ Len(cue) = 0 /\ wire = <<>>
  BY DEF Init, Armed
<1>2. Patient /\ Open = {} /\ Clips(wire) = {}
  BY <1>1 DEF Patient, Open, Clips
<1>3. Cardinality(Open) = 0 /\ Cardinality(Clips(wire)) = 0 /\ Arriving = 0
      /\ phone.clips = 0 /\ restarts = 0
  BY <1>2, FS_EmptySet DEF Init, Arriving, Free
<1>4. Spent
  BY <1>1, <1>3 DEF Spent
<1>5. PatientOnDisk /\ Named
  BY <1>1, CuesAssumption DEF Init, PatientOnDisk, Saved, Named, Track
<1> QED
  BY <1>2, <1>4, <1>5 DEF Counted

(* -------------------------- what a step may do ------------------------- *)

(* The outro g is decided about anew only while it is open.                *)
Decisive(g) == /\ Arming(g)' => Arming(g)
               /\ Deciding(g)' => Deciding(g) \/ ~cue[g].done

LEMMA StillPatient ==
  ASSUME ServerOK, Patient, SameSongs, \A g \in Armed : Alike(g) /\ Decisive(g)
  PROVE  Patient' /\ Open' \subseteq Open
<1>1. Armed' = Armed
  BY DEF SameSongs
<1>2. ASSUME NEW g \in Armed
      PROVE  /\ cue'[g].held \in Nat /\ cue'[g].held + Left(g)' <= MaxHeld + 1
             /\ ~cue'[g].done => cue'[g].held < MaxHeld
  <2>1. Alike(g) /\ Decisive(g)
    OBVIOUS
  <2>2. /\ cue[g].held \in Nat /\ cue[g].held + Left(g) <= MaxHeld + 1
        /\ ~cue[g].done => cue[g].held < MaxHeld
    BY DEF Patient
  <2>3. cue[g].held + Left(g)' <= MaxHeld + 1
    <3>1. CASE ~cue[g].done
      BY <2>2, <3>1, CuesAssumption DEF Left
    <3>2. CASE cue[g].done
      BY <2>1, <2>2, <3>2, CuesAssumption DEF Left, Decisive
    <3> QED
      BY <3>1, <3>2
  <2> QED
    BY <2>1, <2>2, <2>3 DEF Alike
<1>3. Patient'
  BY <1>1, <1>2 DEF Patient
<1>4. Open' \subseteq Open
  BY <1>1 DEF Open, Decisive, Alike
<1> QED
  BY <1>3, <1>4

LEMMA DiskPatient ==
  ASSUME ServerOK', Patient', PatientOnDisk, DiskFollows
  PROVE  PatientOnDisk'
<1>1. CASE disk' = disk
  BY <1>1 DEF PatientOnDisk
<1>2. CASE disk' = Saved(outro', last', cue') /\ outro' # 0
  <2>1. disk'.cue[1] = cue'[outro'] /\ outro' \in Armed'
    BY <1>2 DEF Saved, ServerOK
  <2>2. /\ cue'[outro'].held \in Nat /\ cue'[outro'].held + Left(outro)' <= MaxHeld + 1
        /\ ~cue'[outro'].done => cue'[outro'].held < MaxHeld
    BY <2>1 DEF Patient
  <2>3. Left(outro)' \in {0, 1, 2}
    BY DEF Left
  <2> QED
    BY <2>1, <2>2, <2>3, CuesAssumption DEF PatientOnDisk
<1>3. CASE disk' = Saved(outro', last', cue') /\ outro' = 0
  BY <1>3 DEF Saved, PatientOnDisk
<1> QED
  BY <1>1, <1>2, <1>3 DEF DiskFollows

(* A step that spends no more than it saves.                               *)
LEMMA SpentStays ==
  ASSUME IInv, IInv', Spent, SameSongs, restarts' = restarts, restarts \in Nat,
         phone'.clips \in Nat,
         phone'.clips + Cardinality(Clips(wire')) + Cardinality(Open') + Arriving'
           <= phone.clips + Cardinality(Clips(wire)) + Cardinality(Open) + Arriving
  PROVE  Spent'
<1>1. Cardinality(Open) \in Nat /\ Cardinality(Open') \in Nat
  <2>1. ServerOK /\ IsFiniteSet(Armed) /\ Armed' = Armed
    BY ArmedType, FS_Interval DEF IInv, SameSongs
  <2>2. Open' \subseteq Armed
    BY <2>1 DEF Open
  <2> QED
    BY <2>1, <2>2, OpenIsFinite, Shrinks
<1>2. Cardinality(Clips(wire)) \in Nat /\ Cardinality(Clips(wire')) \in Nat
  <2>1. wire \in Seq(Messages) /\ wire' \in Seq(Messages)
    BY DEF IInv, PhoneOK
  <2> QED
    BY <2>1, ClipsAreFinite
<1>3. Arriving \in {0, 1} /\ Arriving' \in {0, 1} /\ Len(cue') = Len(cue) /\ Len(cue) \in Nat
  BY ArmedType DEF Arriving, SameSongs, IInv
<1> DEFINE before == phone.clips + Cardinality(Clips(wire)) + Cardinality(Open) + Arriving
           after == phone'.clips + Cardinality(Clips(wire')) + Cardinality(Open') + Arriving'
<1>4. before \in Int /\ after \in Int /\ 2 * Len(cue) + restarts \in Int
  <2>1. phone.clips \in Int /\ phone'.clips \in Int
    BY DEF Spent
  <2>2. before \in Int
    BY <1>1, <1>2, <1>3, <2>1
  <2>3. after \in Int
    BY <1>1, <1>2, <1>3, <2>1
  <2> QED
    BY <1>3, <2>2, <2>3
<1>5. after <= before /\ before <= 2 * Len(cue) + restarts
  BY DEF Spent
<1>6. after <= 2 * Len(cue') + restarts'
  <2> HIDE DEF after, before
  <2> QED
    BY <1>3, <1>4, <1>5
<1> QED
  BY <1>6 DEF Spent

(* What a step can make of the commands on their way.                      *)
WireMay ==
  \/ wire' = wire \/ wire' = <<>>
  \/ wire' = Tail(wire) /\ wire # <<>>
  \/ wire' = Append(wire, Announce)
  \/ \E g \in Armed, s \in Causes : wire' = Append(wire, Pause(g, s))

LEMMA NamedStays ==
  ASSUME PhoneOK, ServerOK, Named, Armed \subseteq Armed', WireMay, last' \in Track,
         DiskFollows, over' \subseteq Armed', restarts' \in 0..MaxRestarts
  PROVE  Named'
<1> DEFINE Right(m) == m = Announce \/ \E g \in Armed, s \in Causes : m = Pause(g, s)
<1>1. wire \in Seq(Messages) /\ \A i \in DOMAIN wire : Right(wire[i])
  BY DEF Named, PhoneOK
<1>2. \A g \in Armed, s \in Causes : Right(Pause(g, s)) /\ Pause(g, s) \in Messages
  BY PauseIsMessage
<1>3. Right(Announce) /\ Announce \in Messages
  BY DEF Messages
<1>4. ASSUME NEW m, Right(m)
      PROVE  m = Announce \/ \E g \in Armed', s \in Causes : m = Pause(g, s)
  BY <1>4
<1> HIDE DEF Right
<1>5. \A i \in DOMAIN wire' : Right(wire'[i])
  <2>1. ASSUME NEW m \in Messages, Right(m), wire' = Append(wire, m)
        PROVE  \A i \in DOMAIN wire' : Right(wire'[i])
    BY <1>1, <2>1
  <2>2. CASE wire' = Tail(wire) /\ wire # <<>>
    <3>1. \A i \in DOMAIN Tail(wire) : i + 1 \in DOMAIN wire /\ Tail(wire)[i] = wire[i + 1]
      BY <1>1, <2>2
    <3> QED
      BY <1>1, <2>2, <3>1
  <2>3. CASE wire' = <<>> \/ wire' = wire
    BY <1>1, <2>3
  <2> QED
    BY <1>2, <1>3, <2>1, <2>2, <2>3 DEF WireMay
<1>6. \A i \in DOMAIN wire' : wire'[i] = Announce \/ \E g \in Armed', s \in Causes :
                                                        wire'[i] = Pause(g, s)
  BY <1>4, <1>5
<1>7. disk'.last \in Track
  BY DEF DiskFollows, Saved, Named
<1> QED
  BY <1>6, <1>7 DEF Named

LEMMA QuietCounted ==
  ASSUME IInv, IInv', Counted, SameSongs, \A g \in Armed : Alike(g) /\ Decisive(g),
         Arriving' <= Arriving, phone'.clips \in Nat,
         phone'.clips + Cardinality(Clips(wire')) <= phone.clips + Cardinality(Clips(wire)),
         WireMay, DiskFollows, last' \in Track, over' \subseteq Armed, restarts' = restarts
  PROVE  Counted'
<1> USE DEF Counted, IInv
<1>1. Patient' /\ Open' \subseteq Open
  BY StillPatient
<1>2. PatientOnDisk'
  BY <1>1, DiskPatient
<1>3. Spent'
  <2>1. IsFiniteSet(Open)
    BY OpenIsFinite
  <2>2. Cardinality(Open') \in Nat /\ Cardinality(Open) \in Nat
        /\ Cardinality(Open') <= Cardinality(Open)
    BY <1>1, <2>1, Shrinks
  <2>3. wire \in Seq(Messages) /\ wire' \in Seq(Messages)
    BY DEF PhoneOK
  <2>4. Cardinality(Clips(wire)) \in Nat /\ Cardinality(Clips(wire')) \in Nat
    BY <2>3, ClipsAreFinite
  <2>5. Arriving \in Int /\ Arriving' \in Int /\ phone.clips \in Nat /\ restarts \in Nat
    BY CuesAssumption DEF Arriving, Spent, Named
  <2>6. phone'.clips + Cardinality(Clips(wire')) + Cardinality(Open') + Arriving'
          <= phone.clips + Cardinality(Clips(wire)) + Cardinality(Open) + Arriving
    BY <2>2, <2>4, <2>5
  <2> QED
    BY <2>5, <2>6, SpentStays
<1>4. Named'
  <2>1. Armed \subseteq Armed'
    BY DEF SameSongs
  <2>2. over' \subseteq Armed' /\ restarts' \in 0..MaxRestarts
    BY <2>1 DEF Named
  <2> QED
    BY <2>1, <2>2, NamedStays
<1> QED
  BY <1>1, <1>2, <1>3, <1>4

HandlerGoesOn == handler' = handler \/ handler'.pc # "check" \/ ~cue[handler'.cue].done
LoopGoesOn == \/ loop' = loop \/ loop'.pc \notin {"armed", "guard"}
              \/ loop.pc = "armed" /\ loop'.cue = loop.cue

(* A step that decides nothing and sends no clip.                          *)
LEMMA NoClipCounted ==
  ASSUME IInv, IInv', Counted, SameSongs, \A g \in Armed : Alike(g),
         HandlerGoesOn, LoopGoesOn, phone'.clips = phone.clips,
         \/ wire' = wire
         \/ \E g \in Armed, s \in Causes : wire' = Append(wire, Pause(g, s)),
         DiskFollows, last' \in Track, over' = over, restarts' = restarts
  PROVE  Counted'
<1>1. ASSUME NEW g \in Armed
      PROVE  Decisive(g)
  BY DEF Decisive, HandlerGoesOn, LoopGoesOn, Arming, Deciding
<1>2. Arriving' <= Arriving
  BY DEF Arriving, LoopGoesOn
<1>3. WireMay
  BY DEF WireMay
<1>4. wire \in Seq(Messages) /\ Armed \subseteq Arms
  BY ArmedType DEF IInv, PhoneOK
<1>5. Clips(wire') = Clips(wire)
  <2>1. CASE wire' = wire
    BY <2>1
  <2>2. ASSUME NEW g \in Armed, NEW s \in Causes, wire' = Append(wire, Pause(g, s))
        PROVE  Clips(wire') = Clips(wire)
    BY <1>4, <2>2, PauseOnWire
  <2> QED
    BY <2>1, <2>2
<1>6. phone.clips \in Nat /\ Cardinality(Clips(wire)) \in Nat
  BY <1>4, ClipsAreFinite DEF Counted, Spent
<1>7. phone'.clips \in Nat
      /\ phone'.clips + Cardinality(Clips(wire')) <= phone.clips + Cardinality(Clips(wire))
  BY <1>5, <1>6
<1>8. over' \subseteq Armed
  BY DEF Counted, Named
<1> QED
  BY <1>1, <1>2, <1>3, <1>7, <1>8, QuietCounted

LEMMA LastIsTrack ==
  ASSUME IInv, Counted, [Next]_vars
  PROVE  last' \in Track
<1> USE DEF IInv
<1>1. last \in Track /\ disk.last \in Track /\ 0 \in Track
  BY DEF Counted, Named, Track
<1>2. CASE Boundary
  BY <1>2 DEF Boundary, HandlerOK, Track
<1>3. CASE MarkTrack
  BY <1>3, ArmedType DEF MarkTrack, LoopAt, LoopOK, Shape, Track
<1>4. CASE StopPool \/ Restart
  BY <1>1, <1>4 DEF StopPool, Restart
<1>5. CASE ~(Boundary \/ MarkTrack \/ StopPool \/ Restart)
  <2>1. last' = last
    BY <1>5 DEF Next, OfAReport, OfTheLoop, Advance, Rider, Deliver, Post, SetState, Watch,
       PauseLate, NoteLate, Look, Check, PauseInstead, NoteInstead, SaveReport, CheckArmed,
       SaveLoop, SendPause, NotePaused, TimerFires, Disarm, PoolSaves, Arm, server, vars
  <2> QED
    BY <1>1, <2>1
<1> QED
  BY <1>2, <1>3, <1>4, <1>5

LEMMA AdvanceCounted ==
  ASSUME IInv, IInv', Counted, Advance
  PROVE  Counted'
<1>1. UNCHANGED <<cue, outro, last, disk, handler, loop, wire, restarts>>
  BY DEF Advance, server
<1>2. SameSongs /\ \A g \in Armed : Alike(g) /\ Decisive(g)
  BY <1>1, Unchanged DEF IInv, Decisive, Arming, Deciding
<1>3. phone'.clips \in Nat /\ phone'.clips <= phone.clips /\ phone.clips \in Nat
  <2>1. phone.clips \in Nat
    BY DEF Counted, Spent
  <2>2. phone'.clips = IF phone.clips > 0 THEN phone.clips - 1 ELSE phone.clips
    BY DEF Advance, IInv, PhoneOK
  <2> QED
    BY <2>1, <2>2
<1>4. wire \in Seq(Messages) /\ Cardinality(Clips(wire)) \in Nat
  BY ClipsAreFinite DEF IInv, PhoneOK
<1>5. phone'.clips + Cardinality(Clips(wire')) <= phone.clips + Cardinality(Clips(wire))
  BY <1>1, <1>3, <1>4
<1>6. Arriving' <= Arriving /\ WireMay /\ DiskFollows
  BY <1>1 DEF Arriving, WireMay, DiskFollows
<1>7. last' \in Track /\ over' \subseteq Armed
  BY <1>1 DEF Counted, Named, Advance
<1> QED
  BY <1>1, <1>2, <1>3, <1>5, <1>6, <1>7, QuietCounted

LEMMA DeliverCounted ==
  ASSUME IInv, IInv', Counted, Deliver
  PROVE  Counted'
<1>1. UNCHANGED <<cue, outro, last, disk, handler, loop, over, restarts>>
  BY DEF Deliver, server, history
<1>2. SameSongs /\ \A g \in Armed : Alike(g) /\ Decisive(g)
  BY <1>1, Unchanged DEF IInv, Decisive, Arming, Deciding
<1>3. wire' = Tail(wire) /\ wire \in Seq(Messages) /\ wire # <<>> /\ phone.clips \in Nat
  BY DEF Deliver, IInv, PhoneOK, Counted, Spent
<1>4. phone'.clips = IF Head(wire) = Announce THEN phone.clips + 1 ELSE phone.clips
  <2>1. Head(wire) \in Messages /\ (Head(wire).kind = "pause" <=> Head(wire) # Announce)
    <3>1. Head(wire) \in Messages
      BY <1>3
    <3>2. Announce.kind = "announce" /\ \A g \in Arms, s \in Causes : Pause(g, s).kind = "pause"
      BY DEF Announce, Pause
    <3> QED
      BY <3>1, <3>2 DEF Messages
  <2>2. phone'.clips = IF Head(wire).kind = "pause" THEN phone.clips ELSE phone.clips + 1
    BY DEF Deliver, IInv, PhoneOK
  <2> QED
    BY <2>1, <2>2
<1>5. phone'.clips \in Nat
      /\ phone'.clips + Cardinality(Clips(wire')) <= phone.clips + Cardinality(Clips(wire))
  <2>1. Cardinality(Clips(wire)) \in Nat /\ Cardinality(Clips(wire')) \in Nat
    <3>1. wire' \in Seq(Messages)
      BY <1>3
    <3> QED
      BY <1>3, <3>1, ClipsAreFinite
  <2>2. Cardinality(Clips(wire')) <=
           IF Head(wire) = Announce THEN Cardinality(Clips(wire)) - 1 ELSE Cardinality(Clips(wire))
    BY <1>3, ClipDelivered
  <2> QED
    BY <1>3, <1>4, <2>1, <2>2
<1>6. Arriving' <= Arriving /\ WireMay /\ DiskFollows
  BY <1>1, <1>3 DEF Arriving, WireMay, DiskFollows
<1>7. last' \in Track /\ over' \subseteq Armed
  BY <1>1 DEF Counted, Named
<1> QED
  BY <1>1, <1>2, <1>5, <1>6, <1>7, QuietCounted

(* The steps that only move a thread on, save or disarm.                   *)
LEMMA MovesCounted ==
  ASSUME IInv, IInv', Counted, last' \in Track,
         \/ Rider \/ Post \/ SetState \/ Boundary \/ Look \/ SaveReport
         \/ MarkTrack \/ SaveLoop \/ (\E g \in Arms : TimerFires(g))
         \/ Disarm \/ StopPool \/ PoolSaves \/ UNCHANGED vars
  PROVE  Counted'
<1>1. UNCHANGED <<cue, wire, over, restarts>>
  BY DEF Rider, Post, SetState, Boundary, Look, SaveReport, MarkTrack, SaveLoop, TimerFires,
     Disarm, StopPool, PoolSaves, server, history, vars
<1>2. SameSongs /\ \A g \in Armed : Alike(g)
  BY <1>1, Unchanged DEF IInv
<1>3. phone'.clips = phone.clips
  BY DEF Rider, Post, SetState, Boundary, Look, SaveReport, MarkTrack, SaveLoop, TimerFires,
     Disarm, StopPool, PoolSaves, vars, IInv, PhoneOK
<1>4. HandlerGoesOn
  <2>1. CASE Look
    BY <2>1 DEF Look, Due, HandlerSaves, Idle, HandlerGoesOn, IInv, HandlerOK
  <2>2. CASE Post \/ SetState \/ Boundary \/ SaveReport
    BY <2>2 DEF Post, SetState, Boundary, SaveReport, HandlerTo, Idle, HandlerGoesOn, IInv,
       HandlerOK
  <2>3. CASE \/ Rider \/ MarkTrack \/ SaveLoop \/ (\E g \in Arms : TimerFires(g))
             \/ Disarm \/ StopPool \/ PoolSaves \/ UNCHANGED vars
    BY <2>3 DEF Rider, MarkTrack, SaveLoop, TimerFires, Disarm, StopPool, PoolSaves, server,
       vars, HandlerGoesOn
  <2> QED
    BY <2>1, <2>2, <2>3
<1>5. LoopGoesOn
  BY DEF Rider, Post, SetState, Boundary, Look, SaveReport, MarkTrack, SaveLoop, TimerFires,
     Disarm, StopPool, PoolSaves, server, vars, LoopGoesOn, LoopAt, LoopTo, Free, IInv, LoopOK
<1>6. DiskFollows
  BY DEF Rider, Post, SetState, Boundary, Look, SaveReport, MarkTrack, SaveLoop, TimerFires,
     Disarm, StopPool, PoolSaves, server, vars, DiskFollows, Persist
<1> QED
  BY <1>1, <1>2, <1>3, <1>4, <1>5, <1>6, NoClipCounted

(* The steps that note a pause, or send one.                               *)
LEMMA PausesCounted ==
  ASSUME IInv, IInv', Counted, last' \in Track,
         \/ Watch \/ NoteLate \/ NoteInstead \/ NotePaused
         \/ PauseLate \/ PauseInstead \/ SendPause
  PROVE  Counted'
<1>1. UNCHANGED <<phone, disk, over, restarts>>
  BY DEF Watch, NoteLate, NoteInstead, NotePaused, PauseLate, PauseInstead, SendPause, history
<1>2. SameSongs /\ \A g \in Armed : Alike(g)
  <2>1. ASSUME NEW g \in Armed, NEW p \in Pauses, SetPause(g, p)
        PROVE  SameSongs /\ \A h \in Armed : Alike(h)
    <3>1. SameSongs /\ Others(g) /\ Alike(g)
      BY <2>1, PauseMakes DEF IInv
    <3> QED
      BY <3>1 DEF Others, Alike
  <2>2. CASE UNCHANGED cue
    BY <2>2, Unchanged DEF IInv
  <2>3. CASE NoteLate
    BY <2>1, <2>3 DEF NoteLate, HandlerAt, IInv, HandlerOK, Pauses, Paused, WentOut
  <2>4. CASE NoteInstead
    BY <2>1, <2>4 DEF NoteInstead, HandlerAt, IInv, HandlerOK, Pauses, Paused
  <2>5. CASE NotePaused
    BY <2>1, <2>5 DEF NotePaused, LoopAt, IInv, LoopOK, Pauses, Paused, WentOut
  <2>6. CASE Watch
    <3>1. CASE Watched /\ SeeClip(outro)
      BY <2>1, <3>1 DEF Watched, SeeClip, IInv, ServerOK, Pauses
    <3> QED
      BY <2>2, <2>6, <3>1 DEF Watch
  <2>7. CASE PauseLate \/ PauseInstead \/ SendPause
    BY <2>2, <2>7 DEF PauseLate, PauseInstead, SendPause
  <2> QED
    BY <2>3, <2>4, <2>5, <2>6, <2>7
<1>3. HandlerGoesOn
  <2>1. CASE Watch
    <3>1. \/ handler' = [handler EXCEPT !.pc = "late", !.cue = outro]
          \/ handler' = [handler EXCEPT !.pc = "look"]
      BY <2>1 DEF Watch, HandlerTo
    <3>2. handler \in [pc : HandlerPcs, item : 1..Songs \cup {-1, 0}, cue : {0} \cup Armed]
      BY DEF IInv, HandlerOK
    <3>3. handler'.pc \in {"late", "look"}
      BY <3>1, <3>2
    <3> QED
      BY <3>3 DEF HandlerGoesOn
  <2>2. CASE PauseLate \/ PauseInstead
    BY <2>2 DEF PauseLate, PauseInstead, HandlerTo, HandlerGoesOn, IInv, HandlerOK
  <2>3. CASE NoteLate \/ NoteInstead
    BY <2>3 DEF NoteLate, NoteInstead, HandlerSaves, Idle, HandlerGoesOn, IInv, HandlerOK
  <2>4. CASE NotePaused \/ SendPause
    BY <2>4 DEF NotePaused, SendPause, HandlerGoesOn
  <2> QED
    BY <2>1, <2>2, <2>3, <2>4
<1>4. LoopGoesOn
  BY DEF Watch, NoteLate, NoteInstead, NotePaused, PauseLate, PauseInstead, SendPause,
     LoopTo, LoopSaves, Free, LoopGoesOn, IInv, LoopOK
<1>5. wire' = wire \/ \E g \in Armed, s \in Causes : wire' = Append(wire, Pause(g, s))
  <2>1. "outro" \in Causes /\ "outro_late" \in Causes /\ "outro_dropped" \in Causes
    BY DEF Causes, Sources
  <2>2. CASE PauseLate \/ PauseInstead
    <3>1. handler.cue \in Armed
      BY <2>2 DEF PauseLate, PauseInstead, HandlerAt, IInv, HandlerOK
    <3> QED
      BY <2>1, <2>2, <3>1 DEF PauseLate, PauseInstead
  <2>3. CASE SendPause
    <3>1. loop.cue \in Armed
      BY <2>3 DEF SendPause, LoopAt, IInv, LoopOK
    <3> QED
      BY <2>1, <2>3, <3>1 DEF SendPause
  <2> QED
    BY <2>2, <2>3 DEF Watch, NoteLate, NoteInstead, NotePaused
<1> QED
  BY <1>1, <1>2, <1>3, <1>4, <1>5, NoClipCounted DEF DiskFollows

(* A decision about an open or arriving outro: it takes one of those left, *)
(* and is the only one that sends a clip.                                  *)
DecidedBy(c) ==
  \/ /\ Arming(c) /\ loop'.pc \notin {"armed", "guard"}
     /\ handler' = handler
  \/ Deciding(c) /\ handler'.pc # "check" /\ loop' = loop

LEMMA DecisionCounted ==
  ASSUME IInv, IInv', Counted, NEW c \in Armed, Fire(c) \/ Hold(c) \/ Drop(c), DecidedBy(c),
         UNCHANGED <<phone, outro, last, disk, over, restarts>>
  PROVE  Counted'
<1> USE DEF Counted, IInv
<1>1. /\ SameSongs /\ Others(c) /\ Armed' = Armed
      /\ cue[c].done => cue'[c].done
      /\ ~cue'[c].done => cue'[c].held < MaxHeld
      /\ cue'[c].held \in {cue[c].held, cue[c].held + 1}
      /\ Fire(c) => cue'[c].done
  BY FireMakes, HoldMakes, DropMakes DEF Patient, SameSongs
<1>2. ASSUME NEW g \in Armed
      PROVE  (Arming(g)' => Arming(g)) /\ (Deciding(g)' => Deciding(g))
  BY DEF DecidedBy, Arming, Deciding
<1>3. Patient'
  <2>1. ASSUME NEW g \in Armed
        PROVE  /\ cue'[g].held \in Nat /\ cue'[g].held + Left(g)' <= MaxHeld + 1
               /\ ~cue'[g].done => cue'[g].held < MaxHeld
    <3>1. /\ cue[g].held \in Nat /\ cue[g].held + Left(g) <= MaxHeld + 1
          /\ ~cue[g].done => cue[g].held < MaxHeld
      BY DEF Patient
    <3>2. CASE g # c
      <4>1. cue'[g] = cue[g]
        BY <1>1, <3>2 DEF Others
      <4> QED
        BY <1>2, <3>1, <4>1, CuesAssumption DEF Left
    <3>3. CASE g = c
      <4>1. Left(c)' + 1 <= Left(c) /\ Left(c) \in {0, 1, 2} /\ Left(c)' \in {0, 1, 2}
        BY DEF DecidedBy, Left, Arming, Deciding
      <4>2. cue'[c].held \in {cue[c].held, cue[c].held + 1} /\ cue[c].held \in Nat
            /\ cue[c].held + Left(c) <= MaxHeld + 1 /\ MaxHeld \in Nat
        BY <1>1, <3>1, <3>3, CuesAssumption
      <4>3. cue'[c].held \in Nat /\ cue'[c].held + Left(c)' <= MaxHeld + 1
        BY <4>1, <4>2
      <4> QED
        BY <1>1, <3>3, <4>3
    <3> QED
      BY <3>2, <3>3
  <2> QED
    BY <1>1, <2>1 DEF Patient
<1>4. PatientOnDisk'
  BY <1>3, DiskPatient DEF DiskFollows
<1>5. Open' \subseteq Open
  BY <1>1, <1>2 DEF Open, Others
<1>6. Spent'
  <2>1. IsFiniteSet(Open)
    BY OpenIsFinite
  <2>2. Cardinality(Open') \in Nat /\ Cardinality(Open) \in Nat
        /\ Cardinality(Open') <= Cardinality(Open)
    BY <1>5, <2>1, Shrinks
  <2>3. wire \in Seq(Messages) /\ wire' \in Seq(Messages)
    BY DEF PhoneOK
  <2>4. Cardinality(Clips(wire)) \in Nat /\ Cardinality(Clips(wire')) \in Nat
    BY <2>3, ClipsAreFinite
  <2>5. Cardinality(Clips(wire')) <= Cardinality(Clips(wire)) + 1
        /\ (~Fire(c) => Cardinality(Clips(wire')) = Cardinality(Clips(wire)))
    <3>1. wire' = wire \/ (Fire(c) /\ wire' = Append(wire, Announce))
      BY DEF Fire, Hold, Drop
    <3>2. CASE wire' = wire
      BY <2>4, <3>2
    <3>3. CASE Fire(c) /\ wire' = Append(wire, Announce)
      BY <2>3, <3>3, ClipSent
    <3> QED
      BY <3>1, <3>2, <3>3
  <2>6. /\ phone.clips \in Nat /\ phone' = phone /\ restarts \in Nat /\ restarts' = restarts
        /\ Arriving \in {0, 1} /\ Arriving' \in {0, 1}
    BY CuesAssumption DEF Spent, Named, Arriving
  <2>7. Cardinality(Clips(wire')) + Cardinality(Open') + Arriving'
          <= Cardinality(Clips(wire)) + Cardinality(Open) + Arriving
    <3>1. CASE Arming(c) /\ loop'.pc \notin {"armed", "guard"}
      <4>1. Arriving = 1 /\ Arriving' = 0
        BY <3>1 DEF Arriving, Arming
      <4> QED
        BY <2>2, <2>4, <2>5, <4>1
    <3>2. CASE Deciding(c) /\ handler'.pc # "check" /\ loop' = loop
      <4>1. Arriving' = Arriving
        BY <3>2 DEF Arriving
      <4>2. c \in Open
        BY <3>2 DEF Open
      <4>3. Fire(c) => Open' \subseteq Open \ {c}
        BY <1>1, <1>5, <3>2 DEF Open, Deciding
      <4>4. Fire(c) => Cardinality(Open') <= Cardinality(Open) - 1
        BY <1>5, <2>1, <4>2, <4>3, Shrinks
      <4> QED
        BY <2>2, <2>4, <2>5, <2>6, <4>1, <4>4
    <3> QED
      BY <3>1, <3>2 DEF DecidedBy
  <2>8. phone'.clips + Cardinality(Clips(wire')) + Cardinality(Open') + Arriving'
          <= phone.clips + Cardinality(Clips(wire)) + Cardinality(Open) + Arriving
    BY <2>2, <2>4, <2>6, <2>7
  <2> QED
    BY <1>1, <2>6, <2>8, SpentStays
<1>7. Named'
  <2>1. WireMay
    BY DEF WireMay, Fire, Hold, Drop
  <2>2. last' \in Track /\ over' \subseteq Armed' /\ restarts' \in 0..MaxRestarts
    BY <1>1 DEF Named
  <2> QED
    BY <1>1, <2>1, <2>2, NamedStays DEF DiskFollows
<1> QED
  BY <1>3, <1>4, <1>6, <1>7

LEMMA CheckCounted ==
  ASSUME IInv, IInv', Counted, Check
  PROVE  Counted'
<1>1. PICK c \in Armed : c = handler.cue
  BY DEF Check, HandlerAt, IInv, HandlerOK
<1>2. Fire(c) \/ Hold(c) \/ Drop(c)
  BY <1>1 DEF Check
<1>3. handler'.pc # "check" /\ loop' = loop
  BY DEF Check, HandlerTo, HandlerSaves, Idle, IInv, HandlerOK
<1>4. DecidedBy(c)
  BY <1>1, <1>3 DEF DecidedBy, Deciding, Check, HandlerAt
<1> QED
  BY <1>2, <1>4, DecisionCounted DEF Check, history

LEMMA CheckArmedCounted ==
  ASSUME IInv, IInv', Counted, CheckArmed
  PROVE  Counted'
<1>1. PICK c \in Armed : c = loop.cue
  BY DEF CheckArmed, LoopAt, IInv, LoopOK
<1>2. Fire(c) \/ Hold(c) \/ Drop(c)
  BY <1>1 DEF CheckArmed
<1>3. DecidedBy(c)
  BY <1>1 DEF DecidedBy, Arming, CheckArmed, LoopAt, LoopSaves, Free
<1> QED
  BY <1>2, <1>3, DecisionCounted DEF CheckArmed, history

LEMMA ArmCounted ==
  ASSUME IInv, IInv', Counted, Arm
  PROVE  Counted'
<1> USE DEF Counted, IInv
<1>1. PICK n \in Arms \ Armed :
        /\ Len(cue') = Len(cue) + 1 /\ Armed' = Armed \cup {n}
        /\ loop' = [pc |-> "armed", cue |-> n]
        /\ \A g \in Armed : cue'[g] = cue[g] /\ g # n
        /\ cue'[n].held = 0 /\ over' \subseteq over \cup {n} /\ n \in Nat \ {0}
  BY ArmMakes, Zenon
<1>2. UNCHANGED <<phone, wire, last, disk, handler, restarts>> /\ loop.pc = "idle"
  BY DEF Arm, Free
<1>3. ~Deciding(n)'
  BY <1>1, <1>2 DEF Deciding, HandlerOK
<1>4. \A g \in Armed : ~Arming(g)' /\ (Deciding(g)' => Deciding(g))
  BY <1>1, <1>2 DEF Arming, Deciding
<1>5. Patient'
  <2>1. ASSUME NEW g \in Armed
        PROVE  /\ cue'[g].held \in Nat /\ cue'[g].held + Left(g)' <= MaxHeld + 1
               /\ ~cue'[g].done => cue'[g].held < MaxHeld
    <3>1. /\ cue[g].held \in Nat /\ cue[g].held + Left(g) <= MaxHeld + 1
          /\ ~cue[g].done => cue[g].held < MaxHeld
      BY DEF Patient
    <3>2. cue'[g] = cue[g]
      BY <1>1
    <3>3. Left(g) \in {0, 1, 2} /\ Left(g)' \in {0, 1, 2} /\ Left(g)' <= Left(g)
      BY <1>4 DEF Left
    <3> QED
      BY <3>1, <3>2, <3>3, CuesAssumption
  <2>2. /\ cue'[n].held \in Nat /\ cue'[n].held + Left(n)' <= MaxHeld + 1
        /\ ~cue'[n].done => cue'[n].held < MaxHeld
    BY <1>1, <1>3, CuesAssumption DEF Left
  <2> QED
    BY <1>1, <2>1, <2>2 DEF Patient
<1>6. PatientOnDisk'
  BY <1>2 DEF PatientOnDisk
<1>7. Spent'
  <2>1. Open' \subseteq Open \cup {n}
    BY <1>1, <1>4 DEF Open
  <2>2. /\ Cardinality(Open') \in Nat /\ Cardinality(Open) \in Nat
        /\ Cardinality(Open') <= Cardinality(Open) + 1
    BY <2>1, OpenIsFinite, Grows
  <2>3. Arriving = 0 /\ Arriving' = 1
    BY <1>1, <1>2 DEF Arriving
  <2>4. Cardinality(Clips(wire)) \in Nat /\ Len(cue) \in Nat /\ restarts \in Nat
        /\ phone.clips \in Nat
    BY ClipsAreFinite, ArmedType, CuesAssumption DEF PhoneOK, Spent, Named
  <2>5. phone.clips + Cardinality(Clips(wire)) + Cardinality(Open) <= 2 * Len(cue) + restarts
    BY <2>2, <2>3, <2>4 DEF Spent
  <2>6. phone.clips + Cardinality(Clips(wire)) + Cardinality(Open') + 1
          <= 2 * (Len(cue) + 1) + restarts
    BY <2>2, <2>4, <2>5
  <2> QED
    BY <1>1, <1>2, <2>3, <2>4, <2>6 DEF Spent
<1>8. Named'
  <2>1. over' \subseteq Armed' /\ last' \in Track /\ restarts' \in 0..MaxRestarts
    BY <1>1, <1>2 DEF Named
  <2> QED
    BY <1>1, <1>2, <2>1, NamedStays DEF WireMay, DiskFollows
<1> QED
  BY <1>5, <1>6, <1>7, <1>8

LEMMA RestartCounted ==
  ASSUME IInv, IInv', Counted, Restart
  PROVE  Counted'
<1> USE DEF Counted, IInv
<1>1. /\ SameSongs /\ Armed' = Armed /\ Len(cue') = Len(cue) /\ Others(disk.outro)
      /\ disk.outro # 0 => cue'[disk.outro] = disk.cue[1]
  BY RestartMakes DEF SameSongs
<1>2. /\ UNCHANGED <<phone, disk, over>> /\ wire' = <<>> /\ last' = disk.last
      /\ handler' = Idle /\ loop' = Free
      /\ restarts < MaxRestarts /\ restarts' = restarts + 1
  BY DEF Restart
<1>3. \A g : ~Arming(g)' /\ ~Deciding(g)'
  BY <1>2 DEF Arming, Deciding, Idle, Free
<1>4. Patient'
  <2>1. ASSUME NEW g \in Armed
        PROVE  /\ cue'[g].held \in Nat /\ cue'[g].held <= MaxHeld + 1
               /\ ~cue'[g].done => cue'[g].held < MaxHeld
    <3>1. CASE g = disk.outro
      <4>1. disk.outro # 0 /\ cue'[g] = disk.cue[1]
        BY <1>1, <3>1, ArmedType
      <4> QED
        BY <4>1, CuesAssumption DEF PatientOnDisk
    <3>2. CASE g # disk.outro
      <4>1. cue'[g] = cue[g] /\ Left(g) \in {0, 1, 2}
        BY <1>1, <3>2 DEF Others, Left
      <4> QED
        BY <4>1, CuesAssumption DEF Patient
    <3> QED
      BY <3>1, <3>2
  <2>2. ASSUME NEW g \in Armed
        PROVE  cue'[g].held + Left(g)' <= MaxHeld + 1
    <3>1. Left(g)' = 0
      BY <1>3 DEF Left
    <3> QED
      BY <2>1, <3>1
  <2> QED
    BY <1>1, <2>1, <2>2 DEF Patient
<1>5. PatientOnDisk'
  BY <1>2 DEF PatientOnDisk
<1>6. Spent'
  <2>1. Open' \subseteq Open \cup {disk.outro}
    BY <1>1, <1>3 DEF Open, Others
  <2>2. /\ Cardinality(Open') \in Nat /\ Cardinality(Open) \in Nat
        /\ Cardinality(Open') <= Cardinality(Open) + 1
    BY <2>1, OpenIsFinite, Grows
  <2>3. Arriving \in {0, 1} /\ Arriving' = 0
    BY <1>2 DEF Arriving, Free
  <2>4. Cardinality(Clips(wire)) \in Nat /\ Len(cue) \in Nat /\ restarts \in Nat
        /\ phone.clips \in Nat
    BY ClipsAreFinite, ArmedType, CuesAssumption DEF PhoneOK, Spent, Named
  <2>5. Cardinality(Clips(wire')) = 0
    <3>1. Clips(wire') = {}
      BY <1>2 DEF Clips
    <3> QED
      BY <3>1, FS_EmptySet
  <2>6. phone.clips + Cardinality(Open) <= 2 * Len(cue) + restarts
    BY <2>2, <2>3, <2>4 DEF Spent
  <2>7. phone.clips + 0 + Cardinality(Open') + 0 <= 2 * Len(cue) + (restarts + 1)
    BY <2>2, <2>4, <2>6
  <2> QED
    BY <1>1, <1>2, <2>3, <2>4, <2>5, <2>7 DEF Spent
<1>7. Named'
  <2>1. over' \subseteq Armed' /\ last' \in Track /\ restarts' \in 0..MaxRestarts
    BY <1>1, <1>2, CuesAssumption DEF Named
  <2> QED
    BY <1>1, <1>2, <2>1, NamedStays DEF WireMay, DiskFollows
<1> QED
  BY <1>4, <1>5, <1>6, <1>7

LEMMA CountedInductive == IInv /\ Counted /\ [Next]_vars => Counted'
<1> SUFFICES ASSUME IInv, IInv', Counted, [Next]_vars, last' \in Track PROVE Counted'
  BY Inductive, LastIsTrack
<1>1. CASE Advance \/ Deliver \/ Arm \/ Restart
  BY <1>1, AdvanceCounted, DeliverCounted, ArmCounted, RestartCounted
<1>2. CASE \/ Rider \/ Post \/ (\E g \in Arms : TimerFires(g))
           \/ Disarm \/ StopPool \/ PoolSaves \/ UNCHANGED vars
  BY <1>2, MovesCounted
<1>3. CASE OfAReport
  BY <1>3, MovesCounted, PausesCounted, CheckCounted DEF OfAReport
<1>4. CASE OfTheLoop
  BY <1>4, MovesCounted, PausesCounted, CheckArmedCounted DEF OfTheLoop
<1> QED
  BY <1>1, <1>2, <1>3, <1>4 DEF Next

(* Every variable of the cues keeps its type: an outro sends two clips at  *)
(* most, one of each thread that may fire it, and one more for each        *)
(* restart that forgot it; and none is held more than one boundary beyond  *)
(* the limit.                                                              *)
THEOREM TypeCorrect == Spec => []TypeOK
<1>1. ASSUME IInv, Once, Counted
      PROVE  TypeOK
  <2> USE <1>1 DEF IInv, Counted
  <2>1. /\ Armed = 1..Len(cue) /\ Armed \subseteq Arms /\ Len(cue) \in Nat
        /\ Len(cue) <= MaxArms /\ \A g \in Armed : cue[g] \in Shape
    BY ArmedType DEF ServerOK
  <2>2. phone.clips \in 0..MaxClips
    <3>1. /\ phone.clips \in Nat /\ Cardinality(Clips(wire)) \in Nat /\ Cardinality(Open) \in Nat
          /\ Arriving \in {0, 1} /\ restarts \in Nat /\ restarts <= MaxRestarts
          /\ phone.clips + Cardinality(Clips(wire)) + Cardinality(Open) + Arriving
               <= 2 * Len(cue) + restarts
      BY ClipsAreFinite, OpenIsFinite, CuesAssumption DEF Spent, Arriving, PhoneOK, Named
    <3> QED
      BY <2>1, <3>1, CuesAssumption DEF MaxClips
  <2>3. phone \in [now : 1..Songs \cup {-1}, song : 1..Songs, clips : 0..MaxClips,
                   playing : BOOLEAN]
    BY <2>2 DEF PhoneOK
  <2>4. ASSUME NEW g \in Armed
        PROVE  cue[g] \in Cue
    <3>1. cue[g].held \in 0..MaxHeld + 1
      <4>1. cue[g].held \in Nat /\ cue[g].held + Left(g) <= MaxHeld + 1
        BY DEF Patient
      <4>2. Left(g) \in {0, 1, 2}
        BY DEF Left
      <4> QED
        BY <4>1, <4>2, CuesAssumption
    <3> QED
      BY <2>1, <2>4, <3>1 DEF Cue, Shape, Pauses
  <2>5. report <= Songs /\ last <= Songs
    BY CuesAssumption DEF PhoneOK, Named, Track
  <2>6. /\ outro \in {0} \cup Armed /\ disk.outro \in {0} \cup Armed
        /\ handler \in [pc : {"idle", "posted", "boundary", "watch", "late", "late_sent",
                              "look", "check", "dropped", "dropped_sent", "save"},
                        item : 1..Songs \cup {-1, 0}, cue : {0} \cup Armed]
        /\ loop \in [pc : {"idle", "armed", "guard", "pause", "sent", "save"},
                     cue : {0} \cup Armed]
        /\ timers \subseteq Armed /\ sent \subseteq Armed \X Sources
    BY <1>1 DEF ServerOK, DiskOK, HandlerOK, HandlerPcs, LoopOK, LoopPcs, Once
  <2> QED
    BY <2>1, <2>3, <2>4, <2>5, <2>6 DEF TypeOK, Named, Causes
<1> QED
  BY <1>1, Initially, Inductive, OnceInitially, OnceInductive, CountedInitially,
     CountedInductive, PTL DEF Spec
===============================================================================
