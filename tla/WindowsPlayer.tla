----------------------------- MODULE WindowsPlayer -----------------------------
(***************************************************************************)
(* The player of the Windows client: a queue played by VLC, a crossfade    *)
(* that overlaps two songs, and a sleep timer that fades and pauses.       *)
(*                                                                         *)
(* Commands, media keys and the window call it from threads of their own;  *)
(* every call runs under one lock and is one step here.  VLC tells of an   *)
(* end, an error or a beginning from its own thread, where a callback      *)
(* reads the generation without the lock and starts a thread that will     *)
(* wait for it.  A crossfade and a sleep timer have threads too, which let *)
(* go of the lock between their steps.                                     *)
(*                                                                         *)
(* Volumes are left out but for the override of a sleep fade; so are books *)
(* (BookProgress has their positions), the bed under the main player and   *)
(* the fades at a clip's edges.                                            *)
(***************************************************************************)
EXTENDS Naturals, Sequences, SequencesExt

CONSTANTS
  MaxQueue,    \* bound: items in the queue
  MaxStarts,   \* bound: media put into VLC, or taken out of it
  MaxTimers,   \* bound: sleep timers set
  MaxCommands  \* bound: commands, of any kind

ASSUME PlayerAssumption ==
  MaxQueue \in Nat /\ MaxStarts \in Nat /\ MaxTimers \in Nat /\ MaxCommands \in Nat

VARIABLES
  queue,     \* the kinds of the items in it
  index,     \* the current one, 0 if there is none
  gen,       \* _gen: bumped whenever the media changes
  st,        \* _playing, _paused, _ended, and _pause_on_start as hold
  vlc,       \* the main VLC player: its media, its state, an event it raised
  handlers,  \* threads started by VLC's events, waiting for the lock
  crossfade, \* whether it is switched on
  watcher,   \* the thread that looks for the end of a song
  old,       \* the media still fading out on a player of its own, or 0
  xgen,      \* _xfade_gen
  runners,   \* the generations of the threads that run a crossfade
  fade,      \* _fade_volume: none, going down, or silent
  timer,     \* the timer that _sleep_cancel belongs to, or 0
  cancelled, \* the timers whose event is set
  pc,        \* where each timer's thread is
  commands   \* how many there have been

vars == <<queue, index, gen, st, vlc, handlers, crossfade, watcher, old, xgen, runners,
          fade, timer, cancelled, pc, commands>>
overlap == <<old, xgen, runners>>
sleep == <<fade, timer, cancelled, pc>>

Kinds == {"track", "clip"}
Timers == 1..MaxTimers
Flags(playing, paused, ended, hold) ==
  [playing |-> playing, paused |-> paused, ended |-> ended, hold |-> hold]

(* A thread started by an event: the generation its callback read, the     *)
(* media that the event is of, and whether the callback ran while another  *)
(* thread was changing the media.                                          *)
Handler == [kind : {"end", "error", "playing"}, gen : Nat, of : Nat, late : BOOLEAN]
-------------------------------------------------------------------------------
(* -------------------- what the other steps are made of ----------------- *)

(* An event raised and not yet called back: changing the media waits for   *)
(* the callback, which reads the generation before its bump or after.      *)
Callback(g) ==
  IF vlc.raised
  THEN {[kind |-> IF vlc.state = "ended" THEN "end" ELSE "error", gen |-> g,
         of |-> vlc.media, late |-> g # gen]}
  ELSE {}

(* The callback of a beginning reads nothing.                              *)
Began == [kind |-> "playing", gen |-> gen, of |-> vlc.media, late |-> FALSE]

Kill == old' = 0 /\ xgen' = IF old # 0 THEN xgen + 1 ELSE xgen

Bump == gen < MaxStarts /\ gen' = gen + 1

Load(i, hold) ==
  /\ Bump /\ index' = i
  /\ st' = Flags(TRUE, FALSE, FALSE, hold)
  /\ vlc' = [media |-> gen', state |-> "opening", raised |-> FALSE]

(* _start, in a thread that has taken the lock; hs are the others waiting. *)
Start(i, hold, hs) ==
  /\ Load(i, hold) /\ Kill /\ UNCHANGED runners
  /\ \E g \in {gen, gen + 1} : handlers' = hs \cup Callback(g)

StopPlayer(hs) ==
  /\ Bump /\ Kill /\ UNCHANGED runners
  /\ st' = Flags(FALSE, FALSE, TRUE, st.hold)
  /\ vlc' = [media |-> vlc.media, state |-> "stopped", raised |-> FALSE]
  /\ \E g \in {gen, gen + 1} : handlers' = hs \cup Callback(g)

(* set_pause: VLC does not promise to heed it before it has begun to play. *)
VlcPauses == vlc' \in {[vlc EXCEPT !.state = IF @ = "playing" THEN "paused" ELSE @],
                       [vlc EXCEPT !.state = IF @ = "opening" THEN "paused" ELSE @]}

(* Mutant: the last item has a next one.                                   *)
HasNextOrIsLast == index <= Len(queue)
HasNext == index < Len(queue)
EndedAtTail == st.ended /\ index = Len(queue)
Stay == UNCHANGED <<index, gen, st, vlc, handlers, overlap>>
Others == UNCHANGED <<crossfade, watcher>>
-------------------------------------------------------------------------------
(* ------------------------------ commands ------------------------------- *)

PlayNow(items, paused) ==
  /\ queue' = items /\ fade' = "none"
  /\ IF items = <<>> THEN index' = 0 /\ StopPlayer(handlers) ELSE Start(1, paused, handlers)
  /\ Others /\ UNCHANGED <<timer, cancelled, pc>>

Enqueue(kind) ==
  /\ Len(queue) < MaxQueue /\ queue' = Append(queue, kind)
  /\ IF queue = <<>> \/ EndedAtTail THEN Start(Len(queue'), FALSE, handlers) ELSE Stay
  /\ Others /\ UNCHANGED sleep

ReplaceUpcoming(items) ==
  /\ index + Len(items) <= MaxQueue
  /\ queue' = SubSeq(queue, 1, index) \o items
  /\ IF items # <<>> /\ (queue = <<>> \/ EndedAtTail)
     THEN Start(index + 1, FALSE, handlers) ELSE Stay
  /\ Others /\ UNCHANGED sleep

(* play_next, and insert_clip, which may play its clip now.                *)
InsertNext(kind, now) ==
  /\ Len(queue) < MaxQueue /\ queue' = InsertAt(queue, index + 1, kind)
  /\ IF queue = <<>> \/ (kind = "clip" /\ (now \/ EndedAtTail))
     THEN Start(index + 1, FALSE, handlers) ELSE Stay
  /\ Others /\ UNCHANGED sleep

Move(from, to) ==
  /\ from # to
  /\ queue' = InsertAt(RemoveAt(queue, from), to, queue[from])
  /\ index' = IF from = index THEN to
              ELSE IF from < index /\ index <= to THEN index - 1
              ELSE IF to <= index /\ index < from THEN index + 1 ELSE index
  /\ Others /\ UNCHANGED <<gen, st, vlc, handlers, overlap, sleep>>

Skip ==
  /\ IF HasNext THEN Start(index + 1, FALSE, handlers)
     ELSE StopPlayer(handlers) /\ UNCHANGED index
  /\ Others /\ UNCHANGED <<queue, sleep>>

Previous ==
  /\ index # 0
  /\ Start(IF index = 1 THEN 1 ELSE index - 1, FALSE, handlers)
  /\ Others /\ UNCHANGED <<queue, sleep>>

(* Mutant: a pause that leaves the song fading out alone.                  *)
PausesMainOnly ==
  IF index = 0 \/ st.ended THEN Stay
  ELSE /\ VlcPauses
       /\ st' = [st EXCEPT !.playing = FALSE, !.paused = TRUE]
       /\ UNCHANGED <<index, gen, handlers, overlap>>

Pauses ==
  IF index = 0 \/ st.ended THEN Stay
  ELSE /\ Kill /\ VlcPauses
       /\ st' = [st EXCEPT !.playing = FALSE, !.paused = TRUE]
       /\ UNCHANGED <<index, gen, handlers, runners>>

Pause == Pauses /\ Others /\ UNCHANGED <<queue, sleep>>

Resume ==
  /\ index # 0 /\ fade' = "none"
  /\ IF st.ended THEN Start(index, FALSE, handlers)
     ELSE /\ st' = [st EXCEPT !.playing = TRUE, !.paused = FALSE]
          /\ vlc' = [vlc EXCEPT !.state = IF @ = "paused" THEN "playing" ELSE @]
          /\ handlers' = handlers \cup IF vlc.state = "paused" THEN {Began} ELSE {}
          /\ UNCHANGED <<index, gen, overlap>>
  /\ Others /\ UNCHANGED <<queue, timer, cancelled, pc>>

Stop == StopPlayer(handlers) /\ Others /\ UNCHANGED <<queue, index, sleep>>

SetCrossfade ==
  /\ crossfade' = ~crossfade
  /\ watcher' = IF crossfade' /\ watcher = "gone" THEN "watching" ELSE watcher
  /\ UNCHANGED <<queue, sleep>> /\ Stay
-------------------------------------------------------------------------------
(* -------------------------------- VLC ---------------------------------- *)

VlcPlays ==
  /\ vlc.state = "opening" /\ vlc' = [vlc EXCEPT !.state = "playing"]
  /\ handlers' = handlers \cup {Began}
  /\ Others /\ UNCHANGED <<queue, index, gen, st, overlap, sleep>>

VlcEnds ==
  /\ \/ vlc.state = "playing" /\ vlc' = [vlc EXCEPT !.state = "ended", !.raised = TRUE]
     \/ vlc.state \in {"opening", "playing"} /\ vlc' = [vlc EXCEPT !.state = "failed", !.raised = TRUE]
  /\ Others /\ UNCHANGED <<queue, index, gen, st, handlers, overlap, sleep>>

(* The callback of an end or an error, without the lock.                   *)
Dispatch ==
  /\ vlc.raised /\ vlc' = [vlc EXCEPT !.raised = FALSE]
  /\ handlers' = handlers \cup Callback(gen)
  /\ Others /\ UNCHANGED <<queue, index, gen, st, overlap, sleep>>

OnEnd(h) ==
  /\ h.kind = "end"
  /\ IF h.gen # gen THEN handlers' = handlers \ {h} /\ UNCHANGED <<index, gen, st, vlc, overlap>>
     ELSE IF HasNext THEN Start(index + 1, FALSE, handlers \ {h})
     ELSE /\ st' = Flags(FALSE, FALSE, TRUE, st.hold) /\ handlers' = handlers \ {h}
          /\ UNCHANGED <<index, gen, vlc, overlap>>
  /\ Others /\ UNCHANGED <<queue, sleep>>

OnError(h) ==
  /\ h.kind = "error"
  /\ IF h.gen # gen THEN handlers' = handlers \ {h} /\ UNCHANGED <<index, gen, st, vlc, overlap>>
     ELSE IF HasNext THEN Start(index + 1, FALSE, handlers \ {h})
     ELSE StopPlayer(handlers \ {h}) /\ UNCHANGED index
  /\ Others /\ UNCHANGED <<queue, sleep>>

OnPlaying(h) ==
  /\ h.kind = "playing" /\ handlers' = handlers \ {h}
  /\ IF st.hold
     THEN /\ VlcPauses
          /\ st' = [st EXCEPT !.hold = FALSE, !.playing = FALSE, !.paused = TRUE]
     ELSE /\ st' = [st EXCEPT !.playing = @ \/ (~st.paused /\ ~st.ended)]
          /\ UNCHANGED vlc
  /\ Others /\ UNCHANGED <<queue, index, gen, overlap, sleep>>
-------------------------------------------------------------------------------
(* ------------------------------ crossfade ------------------------------ *)

ShouldCrossfade ==
  /\ st.playing /\ ~st.paused /\ ~st.ended
  /\ old = 0 /\ fade = "none"
  /\ HasNext /\ queue[index] = "track" /\ queue[index + 1] = "track"
  /\ vlc.state \in {"playing", "ended"}

(* Mutant: the outgoing player keeps its events, and it will end.          *)
EndOfTheOld == {[kind |-> "end", gen |-> gen', of |-> vlc.media, late |-> FALSE]}

(* _detach_events: what the outgoing player can still bring about.         *)
FromTheOld == {}

(* Mutant: the thread is handed the generation before its bump.            *)
RunnerTooEarly == xgen
Runner == xgen'

Watch ==
  /\ watcher = "watching"
  /\ IF ~crossfade THEN watcher' = "leaving" /\ UNCHANGED queue /\ Stay
     ELSE /\ ShouldCrossfade
          /\ Load(index + 1, FALSE)
          /\ handlers' = handlers \cup FromTheOld
          /\ old' = vlc.media /\ xgen' = xgen + 1
          /\ runners' = runners \cup {Runner}
          /\ UNCHANGED <<queue, watcher>>
  /\ UNCHANGED <<crossfade, sleep>>

(* The watcher's thread is alive for a moment after its last look.         *)
WatcherGone ==
  /\ watcher = "leaving" /\ watcher' = "gone"
  /\ UNCHANGED <<queue, crossfade, sleep>> /\ Stay

(* A crossfade's last step, or the one that finds itself superseded.       *)
LastStep(g) ==
  /\ runners' = runners \ {g}
  /\ IF g = xgen /\ old # 0 THEN Kill ELSE UNCHANGED <<old, xgen>>
  /\ Others /\ UNCHANGED <<queue, index, gen, st, vlc, handlers, sleep>>
-------------------------------------------------------------------------------
(* ----------------------------- sleep timer ----------------------------- *)

SetTimer(t) ==
  /\ pc[t] = "unset" /\ \A u \in 1..(t - 1) : pc[u] # "unset"
  /\ cancelled' = cancelled \cup ({timer} \ {0})
  /\ timer' = t /\ fade' = "none" /\ pc' = [pc EXCEPT ![t] = "waiting"]
  /\ Others /\ UNCHANGED queue /\ Stay

CancelTimer ==
  /\ cancelled' = cancelled \cup ({timer} \ {0})
  /\ timer' = 0 /\ fade' = "none"
  /\ Others /\ UNCHANGED <<queue, pc>> /\ Stay

Goes(t, to) == pc' = [pc EXCEPT ![t] = to]

(* Mutant: the answer of the event's wait is read the wrong way round.     *)
NotCancelled(t) == t \notin cancelled
WokenEarly(t) == t \in cancelled

TimerFires(t) ==
  /\ pc[t] = "waiting" /\ Goes(t, IF WokenEarly(t) THEN "done" ELSE "ramp")
  /\ Others /\ UNCHANGED <<queue, fade, timer, cancelled>> /\ Stay

(* Mutant: the event is looked at between the steps only.                  *)
LooksAgain(t) == FALSE

(* Under the lock, before it touches anything.                             *)
Superseded(t) == t \in cancelled

Ramp(t, to) ==
  /\ pc[t] = "ramp"
  /\ IF Superseded(t) THEN Goes(t, "done") /\ UNCHANGED fade
     ELSE fade' = to /\ Goes(t, IF to = "silent" THEN "hook" ELSE "ramp")
  /\ Others /\ UNCHANGED <<queue, timer, cancelled>> /\ Stay

(* The book's spot is saved without the lock; then it is taken once more.  *)
SleepPause(t) ==
  /\ pc[t] = "hook" /\ Goes(t, "done")
  /\ IF Superseded(t) THEN Stay /\ UNCHANGED timer
     ELSE Pauses /\ timer' = IF timer = t THEN 0 ELSE timer
  /\ Others /\ UNCHANGED <<queue, fade, cancelled>>
-------------------------------------------------------------------------------
Init ==
  /\ queue = <<>> /\ index = 0 /\ gen = 0
  /\ st = Flags(FALSE, FALSE, TRUE, FALSE)
  /\ vlc = [media |-> 0, state |-> "stopped", raised |-> FALSE]
  /\ handlers = {}
  /\ crossfade \in BOOLEAN /\ watcher = IF crossfade THEN "watching" ELSE "gone"
  /\ old = 0 /\ xgen = 0 /\ runners = {}
  /\ fade = "none" /\ timer = 0 /\ cancelled = {} /\ pc = [t \in Timers |-> "unset"]
  /\ commands = 0

Items == UNION {[1..n -> Kinds] : n \in 0..MaxQueue}

Commands ==
  \/ \E items \in Items, paused \in BOOLEAN : PlayNow(items, paused)
  \/ \E items \in Items : ReplaceUpcoming(items)
  \/ \E kind \in Kinds : Enqueue(kind) \/ \E now \in BOOLEAN : InsertNext(kind, now)
  \/ \E from, to \in DOMAIN queue : Move(from, to)
  \/ Skip \/ Previous \/ Pause \/ Resume \/ Stop \/ SetCrossfade \/ CancelTimer
  \/ \E t \in Timers : SetTimer(t)

TimerRuns(t) == TimerFires(t) \/ (\E to \in {"down", "silent"} : Ramp(t, to)) \/ SleepPause(t)

OnItsOwn ==
  \/ VlcPlays \/ VlcEnds \/ Dispatch
  \/ \E h \in handlers : OnEnd(h) \/ OnError(h) \/ OnPlaying(h)
  \/ Watch \/ WatcherGone \/ \E g \in runners : LastStep(g)
  \/ \E t \in Timers : TimerRuns(t)

Next ==
  \/ commands < MaxCommands /\ commands' = commands + 1 /\ Commands
  \/ OnItsOwn /\ UNCHANGED commands

Spec == Init /\ [][Next]_vars

(* Threads run on; a ramp has so many steps and no more.                   *)
Fairness ==
  /\ \A g \in 1..(2 * MaxStarts) : WF_vars(g \in runners /\ LastStep(g) /\ UNCHANGED commands)
  /\ \A t \in Timers : /\ WF_vars(TimerFires(t) /\ UNCHANGED commands)
                       /\ WF_vars(Ramp(t, "silent") /\ UNCHANGED commands)
                       /\ WF_vars(SleepPause(t) /\ UNCHANGED commands)

LiveSpec == Spec /\ Fairness
-------------------------------------------------------------------------------
QueueOK ==
  /\ queue \in Seq(Kinds) /\ Len(queue) <= MaxQueue
  /\ index \in 0..Len(queue) /\ (index = 0 <=> queue = <<>>)

PlayerOK ==
  /\ gen \in 0..MaxStarts
  /\ st \in [playing : BOOLEAN, paused : BOOLEAN, ended : BOOLEAN, hold : BOOLEAN]
  /\ ~(st.playing /\ (st.paused \/ st.ended))
  /\ vlc \in [media : 0..gen, raised : BOOLEAN,
             state : {"stopped", "opening", "playing", "paused", "ended", "failed"}]
  /\ vlc.raised => vlc.state \in {"ended", "failed"}
  /\ handlers \subseteq Handler /\ \A h \in handlers : h.gen <= gen
  /\ old \in 0..gen /\ xgen \in Nat

TimersOK ==
  /\ fade \in {"none", "down", "silent"} /\ timer \in 0..MaxTimers /\ cancelled \subseteq Timers
  /\ pc \in [Timers -> {"unset", "waiting", "ramp", "hook", "done"}]

TypeOK == QueueOK /\ PlayerOK /\ TimersOK /\ watcher \in {"gone", "watching", "leaving"}

(* A song's end, or an error, moves the queue on from that song and from   *)
(* no other: not from the one a skip or a crossfade has put in its place.  *)
(* But for a callback that runs while the media is being changed: it reads *)
(* the generation of the media to come.                                    *)
OneEndOneAdvance ==
  \A h \in handlers :
    h.kind # "playing" /\ h.gen = gen /\ ~h.late
    => h.of = vlc.media /\ vlc.state \in {"ended", "failed"}

(* Pausing pauses: a song that was fading out does not play on under it.   *)
PauseSilences == st.paused => old = 0

(* The volume is overridden by the last timer set, if nobody cancelled it, *)
(* and by no other: not by one that was cancelled between two steps of its *)
(* ramp, and not by one that another replaced.                             *)
FadeIsTheLastTimers ==
  fade # "none" =>
    \E t \in Timers \ cancelled :
      /\ pc[t] \in {"ramp", "hook", "done"}
      /\ \A u \in Timers : pc[u] # "unset" => u <= t

(* Two songs never overlap for good.                                       *)
OverlapEnds == old # 0 ~> old = 0

(* A timer that nobody cancels or replaces ends with the music off.        *)
SleepComes ==
  \A t \in Timers : pc[t] = "waiting" ~> t \in cancelled \/ (pc[t] = "done" /\ ~st.playing)
===============================================================================
