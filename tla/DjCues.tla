-------------------------------- MODULE DjCues --------------------------------
(***************************************************************************)
(* The ride-end outro of dj_triggers.py: a one-shot cue on the song that   *)
(* plays.  Its clip is inserted after the song and the music pauses once   *)
(* the clip has been heard.  Nothing in dj_triggers is locked.  A report   *)
(* is handled in a worker thread, one step for each access to the cue, the *)
(* bus or the file.  Arming and the timer of the pause run on the server's *)
(* event loop, one at a time, also in steps; while the loop is in one of   *)
(* them it takes in no new report.  Disarming and stopping the pool run in *)
(* worker threads and are one step, their saving included.                 *)
(*                                                                         *)
(* The phone plays the songs 1..Songs round and round, clips in between.   *)
(* All outro clips carry the same title, the route's default, and are the  *)
(* item -1: a clip behind a clip is no boundary that on_state acts on.  An *)
(* outro is named by the order in which it was armed; 0 stands for none.   *)
(***************************************************************************)
EXTENDS Integers, Sequences

CONSTANTS Songs,         \* how many songs the queue goes round
          MaxArms,       \* bound: outros armed
          MaxHeld,       \* MAX_HELD_BOUNDARIES
          MaxRestarts    \* bound: restarts of the server

ASSUME CuesAssumption == /\ Songs \in Nat \ {0, 1} /\ MaxArms \in Nat \ {0}
                         /\ MaxHeld \in Nat \ {0}  /\ MaxRestarts \in Nat

VARIABLES
  phone,     \* [now, song, clips, playing]: the item playing, the last song,
             \* how many clips wait right behind the item
  wire,      \* commands on their way to the phone, in order
  report,    \* the item of the phone's last report, 0 when it is not playing
  cue,       \* the outros armed so far, as the server's memory has them
  outro,     \* pool.state["outro"]: the live outro
  last,      \* pool.state["trigger_last_track"]
  disk,      \* [outro, last, cue]: what the last _persist wrote
  handler,   \* the thread of a report: [pc, item, cue]
  loop,      \* the event loop, in arm_outro or _send_pause: [pc, cue]
  timers,    \* outros whose pause is scheduled
  restarts,
  over,      \* history: outros whose song the phone has finished, or which
             \* were armed while the server was told of another song
  sent       \* history: <<outro, source>> of the pauses that went out, but
             \* for those a crash made the server forget

vars == <<phone, wire, report, cue, outro, last, disk, handler, loop, timers,
          restarts, over, sent>>
server == <<cue, outro, last, disk, handler, loop, timers>>
history == <<restarts, over, sent>>

Arms == 1..MaxArms
Armed == DOMAIN cue
MaxClips == 2 * MaxArms + MaxRestarts   \* fired by both threads, or again
                                        \* after a restart that forgot it
Sources == {"outro", "outro_late"}
WentOut == {"paused", "late"}           \* "late": paused_late, paused_fallback
Paused == WentOut \cup {"no_outro"}
Idle == [pc |-> "idle", item |-> 0, cue |-> 0]
Free == [pc |-> "idle", cue |-> 0]
Announce == [kind |-> "announce"]
Pause(g, s) == [kind |-> "pause", cue |-> g, source |-> s]

Cue == [song : 1..Songs,
        status : {"pending", "held", "fired", "dropped"}, done : BOOLEAN,
        held : 0..MaxHeld + 1, pause : {"no", "armed", "pausing"} \cup Paused]

(* _persist: the live outro and the last boundary go to the pool's file.   *)
Saved(g, t, c) == [outro |-> g, last |-> t,
                   cue |-> IF g = 0 THEN <<>> ELSE <<c[g]>>]
Persist == disk' = Saved(outro', last', cue')
-------------------------------------------------------------------------------
(* ------------------------------ the phone ------------------------------ *)

NextSong(s) == (s % Songs) + 1

(* The item ends or is skipped: the clips inserted after it come first.    *)
Advance ==
  /\ phone.playing
  /\ phone' = IF phone.clips > 0
              THEN [phone EXCEPT !.now = -1, !.clips = @ - 1]
              ELSE [phone EXCEPT !.now = NextSong(phone.song),
                                 !.song = NextSong(@)]
  /\ over' = over \cup {g \in Armed : cue[g].song = phone.now}
  /\ UNCHANGED <<wire, report, server, restarts, sent>>

Rider ==
  /\ phone' = [phone EXCEPT !.playing = ~@]
  /\ UNCHANGED <<wire, report, server, history>>

(* announce with mode next inserts right behind the current item.          *)
Deliver ==
  /\ wire # <<>>
  /\ wire' = Tail(wire)
  /\ phone' = IF Head(wire).kind = "pause"
              THEN [phone EXCEPT !.playing = FALSE]
              ELSE [phone EXCEPT !.clips = @ + 1]
  /\ UNCHANGED <<report, server, history>>

(* ------------------------ the hold guard and _fire --------------------- *)

(* The guard reads the speech file.  Whether somebody talks, and whether   *)
(* words were spoken after a reactive clip was rendered, is up to the      *)
(* surroundings: each of its decisions is possible at any time.            *)

(* The boundary is the last one a cue may miss while somebody talks.       *)
HeldTooLong(c) == c.held + 1 >= MaxHeld

(* execute_actions: the clip, unless the scheduled stop's latch holds it   *)
(* back, then the pause is armed.                                          *)
Fire(g) ==
  /\ wire' \in {wire, Append(wire, Announce)}
  /\ cue' = [cue EXCEPT ![g].status = "fired", ![g].done = TRUE,
                        ![g].pause = "armed"]

Hold(g) ==
  /\ ~HeldTooLong(cue[g])
  /\ cue' = [cue EXCEPT ![g].status = "held", ![g].held = @ + 1]
  /\ wire' = wire

(* Out of date, with the count as it was, or held too often.               *)
Drop(g) ==
  /\ \E missed \in IF HeldTooLong(cue[g]) THEN {0, 1} ELSE {0} :
       cue' = [cue EXCEPT ![g].status = "dropped", ![g].done = TRUE,
                          ![g].held = @ + missed]
  /\ wire' = wire

SetPause(g, p) == cue' = [cue EXCEPT ![g].pause = p]
-------------------------------------------------------------------------------
(* ------------------- on_state, in a thread of its own ------------------ *)

HandlerAt(pc) == handler.pc = pc
HandlerTo(pc) == handler' = [handler EXCEPT !.pc = pc]
HandlerSaves == handler' = [Idle EXCEPT !.pc = "save"]

(* The phone posts one report at a time; the loop gives it to a thread.    *)
Post ==
  /\ handler = Idle /\ loop = Free
  /\ handler' = [pc |-> "posted", item |-> IF phone.playing THEN phone.now ELSE 0,
                 cue |-> 0]
  /\ UNCHANGED <<phone, wire, report, cue, outro, last, disk, loop, timers,
                 history>>

SetState ==
  /\ HandlerAt("posted")
  /\ report' = handler.item
  /\ IF handler.item = 0 THEN handler' = Idle ELSE HandlerTo("boundary")
  /\ UNCHANGED <<phone, wire, cue, outro, last, disk, loop, timers, history>>

Boundary ==
  /\ HandlerAt("boundary")
  /\ IF last = handler.item THEN handler' = Idle ELSE HandlerTo("watch")
  /\ last' = handler.item
  /\ UNCHANGED <<phone, wire, report, cue, outro, disk, loop, timers, history>>

(* Mutants: the late pause whatever song plays; the late pause left to the *)
(* timer once the clip was seen; a cue watched though its pause went out.  *)
WatchAnySong(g) == handler.item > 0
LeftToTheTimer(g) == handler.item > 0 /\ handler.item # cue[g].song
                     /\ cue[g].pause = "armed"
WatchesOn == outro # 0 /\ cue[outro].pause # "no"

Watched == outro # 0 /\ cue[outro].pause \in {"armed", "pausing"}
OtherSong(g) == handler.item > 0 /\ handler.item # cue[g].song

(* The clip shows up in a report: its pause is timed from the position.    *)
SeeClip(g) ==
  /\ cue[g].pause = "armed"
  /\ SetPause(g, "pausing")
  /\ timers' = timers \cup {g}

(* _check_pause_watch looks at pause_state: a song shows up and the pause  *)
(* is not noted as sent, or the clip shows up.                             *)
Watch ==
  /\ HandlerAt("watch")
  /\ IF Watched /\ OtherSong(outro)
     THEN /\ handler' = [handler EXCEPT !.pc = "late", !.cue = outro]
          /\ UNCHANGED <<cue, timers>>
     ELSE /\ HandlerTo("look")
          /\ \/ Watched /\ handler.item < 0 /\ SeeClip(outro)
             \/ /\ ~(Watched /\ handler.item < 0 /\ cue[outro].pause = "armed")
                /\ UNCHANGED <<cue, timers>>
  /\ UNCHANGED <<phone, wire, report, outro, last, disk, loop, history>>

(* It sends the pause, whatever has become of the cue since it looked.     *)
PauseLate ==
  /\ HandlerAt("late") /\ HandlerTo("late_sent")
  /\ wire' = Append(wire, Pause(handler.cue, "outro_late"))
  /\ sent' = sent \cup {<<handler.cue, "outro_late">>}
  /\ UNCHANGED <<phone, report, cue, outro, last, disk, loop, timers, restarts,
                 over>>

NoteLate ==
  /\ HandlerAt("late_sent")
  /\ handler' = [handler EXCEPT !.pc = "look", !.cue = 0]
  /\ SetPause(handler.cue, "late")
  /\ UNCHANGED <<phone, wire, report, outro, last, disk, loop, timers, history>>

(* Mutant: an outro is due whenever its song starts, fired or not.         *)
DueAgain == outro # 0 /\ handler.item = cue[outro].song

(* The outro this boundary concerns: pending on this song, or held.        *)
Due == /\ outro # 0 /\ handler.item > 0 /\ ~cue[outro].done
       /\ \/ cue[outro].status = "pending" /\ cue[outro].song = handler.item
          \/ cue[outro].status = "held"

(* The cues to consider are collected.                                     *)
Look ==
  /\ HandlerAt("look")
  /\ IF Due THEN handler' = [handler EXCEPT !.pc = "check", !.cue = outro]
     ELSE HandlerSaves
  /\ UNCHANGED <<phone, wire, report, cue, outro, last, disk, loop, timers,
                 history>>

(* The guard reads the speech file and decides.                            *)
Check ==
  /\ HandlerAt("check")
  /\ \/ (Fire(handler.cue) \/ Hold(handler.cue)) /\ HandlerSaves
     \/ Drop(handler.cue) /\ HandlerTo("dropped")
  /\ UNCHANGED <<phone, report, outro, last, disk, loop, timers, history>>

(* A cue dropped at a boundary still stops the ride, without its words.    *)
PauseInstead ==
  /\ HandlerAt("dropped") /\ HandlerTo("dropped_sent")
  /\ wire' = Append(wire, Pause(handler.cue, "outro_dropped"))
  /\ UNCHANGED <<phone, report, cue, outro, last, disk, loop, timers, history>>

NoteInstead ==
  /\ HandlerAt("dropped_sent") /\ HandlerSaves
  /\ SetPause(handler.cue, "no_outro")
  /\ UNCHANGED <<phone, wire, report, outro, last, disk, loop, timers, history>>

SaveReport ==
  /\ HandlerAt("save") /\ handler' = Idle
  /\ UNCHANGED <<phone, wire, report, cue, outro, last, loop, timers, history>>
  /\ Persist

(* ---------------------- arm_outro, on the event loop ------------------- *)

LoopAt(pc) == loop.pc = pc
LoopTo(pc) == loop' = [loop EXCEPT !.pc = pc]
LoopSaves == loop' = [Free EXCEPT !.pc = "save"]

(* What the server was told is what plays.                                 *)
ToldRight == /\ phone.now = report
             /\ HandlerAt("posted") => handler.item \in {0, report}

(* The cue is installed on the song of the last report.                    *)
Arm ==
  /\ loop = Free /\ Len(cue) < MaxArms
  /\ report > 0
  /\ cue' = Append(cue, [song |-> report, status |-> "pending", done |-> FALSE,
                         held |-> 0, pause |-> "no"])
  /\ outro' = Len(cue') /\ loop' = [pc |-> "armed", cue |-> Len(cue')]
  /\ over' = IF ToldRight THEN over ELSE over \cup {Len(cue')}
  /\ UNCHANGED <<phone, wire, report, last, disk, handler, timers, restarts, sent>>

MarkTrack ==
  /\ LoopAt("armed") /\ LoopTo("guard")
  /\ last' = cue[loop.cue].song
  /\ UNCHANGED <<phone, wire, report, cue, outro, disk, handler, timers, history>>

(* A cue dropped while it is being armed does not stop the ride.           *)
CheckArmed ==
  /\ LoopAt("guard") /\ LoopSaves
  /\ Fire(loop.cue) \/ Hold(loop.cue) \/ Drop(loop.cue)
  /\ UNCHANGED <<phone, report, outro, last, disk, handler, timers, history>>

SaveLoop ==
  /\ LoopAt("save") /\ loop' = Free
  /\ UNCHANGED <<phone, wire, report, cue, outro, last, handler, timers, history>>
  /\ Persist

(* ------------------------------ the timer ------------------------------ *)

(* Mutant: the timer does not look whether the pause was sent meanwhile.   *)
PausesAgain(g) == g = outro

StillPausing(g) == g = outro /\ cue[g].pause = "pausing"

TimerFires(g) ==
  /\ loop = Free /\ g \in timers
  /\ timers' = timers \ {g}
  /\ loop' = IF StillPausing(g) THEN [pc |-> "pause", cue |-> g] ELSE Free
  /\ UNCHANGED <<phone, wire, report, cue, outro, last, disk, handler, history>>

SendPause ==
  /\ LoopAt("pause") /\ LoopTo("sent")
  /\ wire' = Append(wire, Pause(loop.cue, "outro"))
  /\ sent' = sent \cup {<<loop.cue, "outro">>}
  /\ UNCHANGED <<phone, report, cue, outro, last, disk, handler, timers, restarts,
                 over>>

NotePaused ==
  /\ LoopAt("sent") /\ LoopSaves
  /\ SetPause(loop.cue, "paused")
  /\ UNCHANGED <<phone, wire, report, outro, last, disk, handler, timers, history>>

(* --------------------- routes in worker threads ------------------------ *)

Disarm ==
  /\ outro # 0 /\ cue[outro].pause \notin Paused
  /\ outro' = 0
  /\ UNCHANGED <<phone, wire, report, cue, last, handler, loop, timers, history>>
  /\ Persist

(* Stopping the pool replaces its whole state.                             *)
StopPool ==
  /\ outro # 0
  /\ outro' = 0 /\ last' = 0
  /\ UNCHANGED <<phone, wire, report, cue, handler, loop, timers, history>>
  /\ Persist

(* A top-up, a lane or a cue of the pool saves the outro too.              *)
PoolSaves ==
  /\ UNCHANGED <<phone, wire, report, cue, outro, last, handler, loop, timers,
                 history>>
  /\ Persist

(* ---------------------------- surroundings ----------------------------- *)

(* The pool's file is read back; commands, timers and reports are gone.    *)
Restart ==
  /\ restarts < MaxRestarts /\ restarts' = restarts + 1
  /\ outro' = disk.outro /\ last' = disk.last
  /\ cue' = [g \in Armed |-> IF g = disk.outro THEN disk.cue[1] ELSE cue[g]]
  /\ wire' = <<>> /\ timers' = {} /\ report' = 0
  /\ handler' = Idle /\ loop' = Free
  /\ sent' = {m \in sent : m[1] = disk.outro => disk.cue[1].pause \in WentOut}
  /\ UNCHANGED <<phone, disk, over>>
-------------------------------------------------------------------------------
Init ==
  /\ phone = [now |-> 1, song |-> 1, clips |-> 0, playing |-> TRUE]
  /\ wire = <<>> /\ report = 0 /\ cue = <<>> /\ outro = 0 /\ last = 0
  /\ disk = Saved(0, 0, <<>>)
  /\ handler = Idle /\ loop = Free /\ timers = {}
  /\ restarts = 0 /\ over = {} /\ sent = {}

OfAReport == \/ SetState \/ Boundary \/ Watch \/ PauseLate \/ NoteLate \/ Look
             \/ Check \/ PauseInstead \/ NoteInstead \/ SaveReport
OfTheLoop == \/ MarkTrack \/ CheckArmed \/ SaveLoop \/ SendPause \/ NotePaused

Next ==
  \/ Advance \/ Rider \/ Deliver
  \/ Post \/ OfAReport
  \/ Arm \/ OfTheLoop \/ \E g \in Arms : TimerFires(g)
  \/ Disarm \/ StopPool \/ PoolSaves
  \/ Restart

Spec == Init /\ [][Next]_vars

(* The loop goes on.  A report is handled in milliseconds and a song lasts *)
(* minutes: at a song that is played again and again the phone again and   *)
(* again arrives while no report is being handled, and reports.  Nothing   *)
(* is assumed of the timer or of what is on the wire.                      *)
ArriveAt(i) == Advance /\ handler = Idle /\ phone'.song = i
PostItem(i) == Post /\ phone.playing /\ phone.now = i
Fairness == /\ WF_vars(OfTheLoop)
            /\ \A i \in 1..Songs : SF_vars(ArriveAt(i)) /\ SF_vars(PostItem(i))
LiveSpec == Spec /\ Fairness
-------------------------------------------------------------------------------
(* Types.  However often threads race to fire an outro, it sends no more   *)
(* than two clips and one for each restart.  With a limit of one boundary, *)
(* a cue that both threads drop at once has missed one more than that.     *)
TypeOK ==
  /\ phone \in [now : 1..Songs \cup {-1}, song : 1..Songs,
                clips : 0..MaxClips, playing : BOOLEAN]
  /\ \A i \in DOMAIN wire :
       wire[i] = Announce \/ \E g \in Armed, s \in Sources \cup {"outro_dropped"} :
                               wire[i] = Pause(g, s)
  /\ report <= Songs /\ last <= Songs
  /\ Armed \subseteq Arms /\ \A g \in Armed : cue[g] \in Cue
  /\ outro \in {0} \cup Armed /\ disk.outro \in {0} \cup Armed
  /\ handler \in [pc : {"idle", "posted", "boundary", "watch", "late", "late_sent",
                        "look", "check", "dropped", "dropped_sent", "save"},
                  item : 1..Songs \cup {-1, 0}, cue : {0} \cup Armed]
  /\ loop \in [pc : {"idle", "armed", "guard", "pause", "sent", "save"},
               cue : {0} \cup Armed]
  /\ timers \subseteq Armed /\ over \subseteq Armed
  /\ sent \subseteq Armed \X Sources
  /\ restarts \in 0..MaxRestarts

(* The pause of an outro's clip goes out in this step, from the timer or   *)
(* from a report; a cue dropped at a boundary stops the ride by another    *)
(* rule.                                                                   *)
Sends(g, s) == wire' = Append(wire, Pause(g, s))

(* The engine's pause never cuts the song its outro was armed on, whatever *)
(* the order of reports, arming and the timer, unless the outro was armed  *)
(* on a report that was out of date.                                       *)
NeverCutsTheSong == [][\A g \in Arms, s \in Sources : Sends(g, s) => g \in over]_vars

(* One outro pauses the ride at most once from the timer and at most once  *)
(* from a report, however often it was fired.  Both happen when each has   *)
(* looked before the other has noted its pause; and a crash may repeat a   *)
(* pause that was not saved.                                               *)
PausesOnceEach == [][\A g \in Arms, s \in Sources :
                       Sends(g, s) => <<g, s>> \notin sent]_vars

(* A thread that has looked is about to pause for the outro.               *)
AboutToPause(g) == \/ handler.pc \in {"late", "late_sent"} /\ handler.cue = g
                   \/ loop.pc \in {"pause", "sent"} /\ loop.cue = g
Settled(g) == /\ g \in Armed /\ ~AboutToPause(g)
              /\ g # outro \/ cue[g].pause \in WentOut

(* Once an outro was disarmed, replaced or stopped with its pool, or its   *)
(* pause went out, and the threads that had looked before are through, it  *)
(* pauses nothing any more: the rider who pressed play is not stopped by   *)
(* a timer left over or a second firing.  Only a crash forgets.            *)
NoStrayPause == [][\A g \in Arms : Settled(g) =>
                     /\ \A s \in Sources : ~Sends(g, s)
                     /\ Settled(g)' \/ restarts' # restarts]_vars

(* An outro that was fired is followed by its pause, unless it is disarmed, *)
(* replaced or stopped, the rider leaves the music paused, or a crash      *)
(* makes the server forget that it fired; also when the clip was lost, was *)
(* skipped, or the server restarted and its timer is gone.                 *)
OutroPauses == []<>(phone.playing /\ handler = Idle) => \A g \in Arms :
  []<>~(g = outro /\ cue[g].pause \in {"armed", "pausing"})
===============================================================================
