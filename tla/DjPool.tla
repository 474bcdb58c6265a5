------------------------------- MODULE DjPool -------------------------------
(***************************************************************************)
(* The DJ pool (dj_pool.py): lanes of tracks from which the server keeps   *)
(* the phone's queue filled, on the phone's state reports                  *)
(* (PlaybackBus._maybe_top_up_pool) and, when a lane is paused, anew        *)
(* (replan_pool).  What it sends, and what agents send, passes the queue   *)
(* guard (queue_guard.py) and reaches the phone as commands.               *)
(*                                                                         *)
(* Top-ups and replans are `def` handlers on worker threads that share the *)
(* pool without a lock and decide from the last report.  A track stands    *)
(* for its song: its other copies and versions are not told apart.         *)
(***************************************************************************)
EXTENDS Integers, Sequences, FiniteSets, SequencesExt

CONSTANTS
  Tracks,
  Lanes,     \* numbered in the order the pool lists them
  TracksOf,  \* a lane's track_ids
  NoTrack,   \* None
  Song,      \* what plays when the pool starts
  Others,    \* bound: what agents and Todd ask for
  Cues,      \* play_track cues
  Ahead, RefillAt,
  Window,    \* no_repeat_picks
  Chunk,     \* QUEUE_CHUNK
  MaxQueue,  \* bound: items the phone's queue ever holds
  MaxEvents  \* bound: agents' commands, lane pauses, deliveries and plays lost

ASSUME PoolAssumption ==
  /\ Lanes \subseteq Nat
  /\ TracksOf \in [Lanes -> SUBSET Tracks]
  /\ Song \in Tracks /\ Others \subseteq Tracks /\ NoTrack \notin Tracks
  /\ IsFiniteSet(Cues)
  /\ Cues \subseteq [when: {"track_start", "track_end"}, of: Tracks, play: Tracks]
  /\ Ahead \in Nat \ {0} /\ RefillAt \in 1 .. Ahead
  /\ Window \in Nat /\ Chunk \in Nat \ {0}
  /\ {MaxQueue, MaxEvents} \subseteq Nat

VARIABLES
  paused,   \* the lanes that are paused
  last,     \* last_pick_index of each lane
  turn,     \* round_robin_index
  played,   \* played_this_session
  lastTop,  \* last_topup_current_track_id, NoTrack for None
  pending,  \* pending_cues
  queue,    \* the phone's queue and where in it the phone is
  at,
  report,   \* the state the server last stored
  commands, \* outstanding, oldest first; `late` once a delivery was lost
  job,      \* the handler of a report, and a replan
  heard,    \* songs with a counted play in the last 24 h
  seen,     \* history: see below
  events

pool == <<paused, last, turn, played, lastTop, pending>>
phone == <<queue, at>>
vars == <<pool, phone, report, commands, job, heard, seen, events>>

Ops == {"queue", "play_next", "replace_upcoming"}
Batch == [op: Ops, ids: Seq(Tracks)]
Report == [queue: Seq(Tracks), at: Nat]

\* A handler: "sampled" holds a report on its way, "picking" runs top_up's loop
\* with what it read at its start (`skip`: skip_ids; `bar`: blocked_works;
\* `past`: history), "sending" has batches left to enqueue.
Job ==
  [step: {"idle", "sampled", "picking", "sending"},
   cur: Tracks \cup {NoTrack}, need: Nat, skip: SUBSET Tracks,
   bar: SUBSET Tracks, past: Seq(Tracks), cues: Seq(Tracks), picks: Seq(Tracks),
   batches: Seq(Batch), sample: Report]

NoReport == [queue |-> <<>>, at |-> 0]
Idle ==
  [step |-> "idle", cur |-> NoTrack, need |-> 0, skip |-> {}, bar |-> {},
   past |-> <<>>, cues |-> <<>>, picks |-> <<>>, batches |-> <<>>, sample |-> NoReport]

TypeOK ==
  /\ paused \subseteq Lanes
  /\ last \in [Lanes -> Int]
  /\ turn \in Nat
  /\ played \in Seq(Tracks)
  /\ lastTop \in Tracks \cup {NoTrack}
  /\ pending \subseteq Cues
  /\ queue \in Seq(Tracks) /\ at \in 1 .. Len(queue)
  /\ report \in Report
  /\ commands \in Seq([op: Ops, ids: Seq(Tracks), late: BOOLEAN])
  /\ job \in [{"top_up", "replan"} -> Job]
  /\ heard \subseteq Tracks
  /\ seen \in [blind: BOOLEAN, crossed: BOOLEAN, left: BOOLEAN, asked: SUBSET Tracks,
               asks: Nat]
  /\ events \in 0 .. MaxEvents

\* What the bound MaxEvents counts.
Event == events < MaxEvents /\ events' = events + 1

After(r) == SubSeq(r.queue, r.at + 1, Len(r.queue))
Before(r) == SubSeq(r.queue, 1, r.at - 1)
Playing(r) == r.queue[r.at]

\* Sequence s but for the members of S.
Without(s, S) ==
  LET kept[n \in 0 .. Len(s)] ==
        IF n = 0 THEN <<>>
        ELSE IF s[n] \in S THEN kept[n - 1] ELSE Append(kept[n - 1], s[n])
  IN  kept[Len(s)]

-----------------------------------------------------------------------------
(* History, for the properties.                                            *)
(*   blind: a command went out while some song that was still to come was   *)
(*     known to the server neither from its last report, nor from a command *)
(*     that adds, nor from the pool's memory                                *)
(*   crossed: a top-up or replan began while the other, or a command, was   *)
(*     under way, or after the reported queue had changed                   *)
(*   left: a replan left the queue as it was                                *)
(*   asked: what agents, or Todd on the phone, asked for; asks: how often    *)
(*     agents did                                                           *)

Now == [queue |-> queue, at |-> at]

\* Songs of commands that are queued or delivered and not acked.
Reserved ==
  UNION {ToSet(commands[i].ids) :
           i \in {i \in DOMAIN commands : commands[i].op # "replace_upcoming"}}

ToCome == ToSet(SubSeq(queue, at, Len(queue)))
          \cup UNION {ToSet(commands[i].ids) : i \in DOMAIN commands}
Picture == Reserved \cup (IF report = NoReport THEN {}
                          ELSE {Playing(report)} \cup ToSet(After(report)))

\* What the pool recalls of its picks, but for those handler h has yet to send.
Recalled(h) == ToSet(played) \ UNION {ToSet(job[h].batches[i].ids) :
                                       i \in DOMAIN job[h].batches}

Blindly(op, known) ==
  seen.blind \/ IF op = "replace_upcoming" THEN report # Now \/ commands # <<>>
                ELSE ~(ToCome \subseteq Picture \cup known)

Busy(h) == job[h].step \in {"picking", "sending"}

Settled == commands = <<>> /\ \A h \in DOMAIN job : ~Busy(h)

Crossing(h, r) == seen.crossed \/ Busy(h) \/ commands # <<>> \/ r # Now

-----------------------------------------------------------------------------
(* top_up *)

Unpaused == Lanes \ paused

Fresh(j, l) == TracksOf[l] \ (j.skip \cup j.bar \cup ToSet(j.picks))

\* The order the picks will play in, and its last Window.
Recent(j) ==
  LET all == j.past \o j.picks
  IN  {all[i] : i \in {i \in DOMAIN all : i > Len(all) - Window}}

OthersFresh(j, l) == \E m \in Unpaused \ {l} : Fresh(j, m) # {}

\* A lane that has played everything starts over, outside the window and while
\* another has fresh tracks.  That no lane stays exhausted after a pick or a
\* top-up makes "exhausted" the lanes without a candidate now.
Candidates(j, l) ==
  IF Fresh(j, l) # {} THEN Fresh(j, l)
  ELSE IF OthersFresh(j, l)
       THEN TracksOf[l] \ (j.bar \cup Recent(j) \cup ToSet(j.picks)) ELSE {}

Ready(j) == {l \in Unpaused : Candidates(j, l) # {}}

\* _select_next_lane: picked least recently, then listed first.
NextLane(j, l) ==
  /\ l \in Ready(j)
  /\ \A m \in Ready(j) : last[l] < last[m] \/ (last[l] = last[m] /\ l <= m)

\* The start of top_up for current song c: `rest` is what is queued after it,
\* `inq` current_played_track_ids, `hist` the session so far, `cp` the cue picks.
Starting(c, rest, inq, hist, cp) ==
  LET queued == inq \o <<c>> \o rest
      blocked == ToSet(queued) \cup heard
      fill == IF Len(rest) >= RefillAt THEN 0 ELSE Ahead - Len(rest)
  IN  [Idle EXCEPT
        !.step = "picking", !.cur = c,
        !.need = IF Len(cp) > fill THEN Len(cp) ELSE fill,
        !.skip = ToSet(hist) \cup blocked,
        !.bar = blocked,
        !.past = hist \o Without(queued, ToSet(hist)),
        !.cues = cp, !.picks = cp]

Pick(h, l, t) ==
  LET j == job[h] IN
  /\ j.step = "picking" /\ Len(j.picks) < j.need
  /\ NextLane(j, l)
  /\ t \in Candidates(j, l)
  /\ job' = [job EXCEPT ![h].picks = Append(@, t)]
  /\ last' = [last EXCEPT ![l] = turn]
  /\ turn' = turn + 1
  /\ UNCHANGED <<paused, played, lastTop, pending, phone, report, commands,
                 heard, seen, events>>

Chunks(op, ids) ==
  [i \in 1 .. (Len(ids) + Chunk - 1) \div Chunk |->
     [op |-> IF i = 1 THEN op ELSE "queue",
      ids |-> SubSeq(ids, (i - 1) * Chunk + 1,
                     IF i * Chunk < Len(ids) THEN i * Chunk ELSE Len(ids))]]

PlanAdds(h, j) == Chunks("queue", j.picks)

\* A cue's song goes in next, the rest at the end; a replan replaces.
Batches(h, j) ==
  IF h = "replan" THEN Chunks("replace_upcoming", j.picks)
  ELSE (IF j.cues = <<>> THEN <<>> ELSE <<[op |-> "play_next", ids |-> j.cues]>>)
       \o Chunks("queue", Without(j.picks, ToSet(j.cues)))

\* The end of top_up: the picks count as played.
Picked(h) ==
  LET j == job[h] IN
  /\ j.step = "picking"
  /\ Len(j.picks) >= j.need \/ Ready(j) = {}
  /\ played' = played \o j.picks
  /\ lastTop' = j.cur
  /\ job' = [job EXCEPT ![h] =
       IF j.picks = <<>> THEN Idle
       ELSE [Idle EXCEPT !.step = "sending", !.batches = Batches(h, j)]]
  /\ seen' = [seen EXCEPT !.left = @ \/ (h = "replan" /\ j.picks = <<>>)]
  /\ UNCHANGED <<paused, last, turn, pending, phone, report, commands, heard, events>>

-----------------------------------------------------------------------------
(* Reports and replans *)

\* The phone's reporter sends one report at a time and waits for its answer.
Sample ==
  /\ job["top_up"] = Idle
  /\ job' = [job EXCEPT !["top_up"] =
       [Idle EXCEPT !.step = "sampled", !.sample = [queue |-> queue, at |-> at]]]
  /\ UNCHANGED <<pool, phone, report, commands, heard, seen, events>>

\* Cues of the song that starts and of the one before it.
Due(c) ==
  {q \in pending : \/ q.when = "track_start" /\ q.of = c
                   \/ q.when = "track_end" /\ q.of = lastTop}

\* set_state, and _maybe_top_up_pool: once per change of the current song.
SetState ==
  LET r == job["top_up"].sample
      c == Playing(r)
      cp == SetToSeq({q.play : q \in Due(c)})
  IN  /\ job["top_up"].step = "sampled"
      /\ report' = r
      /\ \/ /\ c = lastTop
            /\ job' = [job EXCEPT !["top_up"] = Idle]
            /\ UNCHANGED <<lastTop, pending, seen>>
         \/ /\ c # lastTop
            /\ Len(After(r)) >= RefillAt /\ cp = <<>>
            /\ lastTop' = c
            /\ job' = [job EXCEPT !["top_up"] = Idle]
            /\ UNCHANGED <<pending, seen>>
         \/ /\ c # lastTop
            /\ Len(After(r)) < RefillAt \/ cp # <<>>
            /\ pending' = pending \ Due(c)
            /\ job' = [job EXCEPT !["top_up"] =
                 Starting(c, After(r), r.queue, played, cp)]
            /\ seen' = [seen EXCEPT !.crossed = Crossing("replan", r)]
            /\ UNCHANGED lastTop
      /\ UNCHANGED <<paused, last, turn, played, phone, commands, heard, events>>

\* PATCH /pool/lanes, action pause: then replan_pool with the stored report.
\* The picks that wait are forgotten and all of the queue is picked again.
PauseLane(l) ==
  LET kept == Without(played, ToSet(After(report))) IN
  /\ l \in Unpaused
  /\ job["replan"] = Idle
  /\ Event
  /\ paused' = paused \cup {l}
  /\ \/ /\ report = NoReport
        /\ seen' = [seen EXCEPT !.left = TRUE]
        /\ UNCHANGED <<played, job>>
     \/ /\ report # NoReport
        /\ played' = kept
        /\ job' = [job EXCEPT !["replan"] =
             Starting(Playing(report), <<>>, Before(report), kept, <<>>)]
        /\ seen' = [seen EXCEPT !.crossed = Crossing("top_up", report)]
  /\ UNCHANGED <<last, turn, lastTop, pending, phone, report, commands, heard>>

ResumeLane(l) ==
  /\ l \in paused
  /\ Event
  /\ paused' = paused \ {l}
  /\ UNCHANGED <<last, turn, played, lastTop, pending, phone, report, commands,
                 job, heard, seen>>

-----------------------------------------------------------------------------
(* Commands *)

ForgetsReserved(op) ==
  heard \cup (IF report = NoReport THEN {} ELSE {Playing(report)})
        \cup (IF op = "replace_upcoming" THEN {} ELSE ToSet(After(report)))

\* queue_guard: what a batch may not hold.
Guarded(op) ==
  heard \cup (IF report = NoReport THEN {} ELSE {Playing(report)})
        \cup (IF op = "replace_upcoming" THEN {}
              ELSE ToSet(After(report)) \cup Reserved)

\* _enqueue: nothing is queued if the guard leaves nothing.
Enqueue(op, ids) ==
  LET kept == Without(ids, Guarded(op)) IN
  commands' = IF kept = <<>> THEN commands
              ELSE Append(commands, [op |-> op, ids |-> kept, late |-> FALSE])

\* send_tracks: each batch is a command of its own.
Send(h) ==
  LET todo == job[h].batches IN
  /\ job[h].step = "sending"
  /\ Enqueue(Head(todo).op, Head(todo).ids)
  /\ seen' = [seen EXCEPT
       !.blind = Blindly(Head(todo).op, Recalled(h)),
       !.left = @ \/ (Head(todo).op = "replace_upcoming" /\ commands' = commands)]
  /\ job' = [job EXCEPT ![h] = IF Len(todo) = 1 THEN Idle
                               ELSE [job[h] EXCEPT !.batches = Tail(todo)]]
  /\ UNCHANGED <<pool, phone, report, heard, events>>

\* POST /command by a persona.
AgentSends(op, t) ==
  /\ Event
  /\ Enqueue(op, <<t>>)
  /\ seen' = [seen EXCEPT !.blind = Blindly(op, {}), !.asked = @ \cup {t},
                         !.asks = @ + 1]
  /\ UNCHANGED <<pool, phone, report, job, heard>>

-----------------------------------------------------------------------------
(* The phone *)

\* A delivery that gets lost comes again after those behind it.
Lose(i) ==
  /\ Event
  /\ i \in DOMAIN commands /\ ~commands[i].late
  /\ commands' = [commands EXCEPT ![i].late = TRUE]
  /\ seen' = [seen EXCEPT !.crossed = TRUE]
  /\ UNCHANGED <<pool, phone, report, job, heard>>

Applied(op, ids) ==
  LET now == SubSeq(queue, 1, at)
      rest == SubSeq(queue, at + 1, Len(queue))
  IN  CASE op = "queue" -> queue \o ids
        [] op = "play_next" -> now \o ids \o rest
        [] op = "replace_upcoming" -> now \o ids

\* dispatch and the ack.
Execute(i) ==
  /\ i \in DOMAIN commands
  /\ commands[i].late \/ \A k \in 1 .. i - 1 : commands[k].late
  /\ queue' = Applied(commands[i].op, commands[i].ids)
  /\ Len(queue') <= MaxQueue
  /\ commands' = RemoveAt(commands, i)
  /\ UNCHANGED <<pool, at, report, job, heard, seen, events>>

RunsOffTheEnd ==
  /\ at' = at + 1
  /\ heard' = heard \cup {queue[at]}
  /\ UNCHANGED <<pool, queue, report, commands, job, seen, events>>

\* On to the next song; the play counts unless its report is lost.
NextSong ==
  /\ at < Len(queue)
  /\ at' = at + 1
  /\ \/ heard' = heard \cup {queue[at]} /\ UNCHANGED events
     \/ heard' = heard /\ Event
  /\ seen' = [seen EXCEPT !.blind =
       @ \/ \E i \in DOMAIN commands : commands[i].op = "replace_upcoming"]
  /\ UNCHANGED <<pool, queue, report, commands, job>>

\* Todd starts something else on the phone.
PlayOther(t) ==
  /\ Event
  /\ queue' = <<t>> /\ at' = 1
  /\ seen' = [seen EXCEPT !.blind = @ \/ ~Settled, !.asked = @ \cup {t}]
  /\ UNCHANGED <<pool, report, commands, job, heard>>

-----------------------------------------------------------------------------
Init ==
  /\ paused = {}
  /\ last = [l \in Lanes |-> -1]
  /\ turn = 0
  /\ played = <<>>
  /\ lastTop = NoTrack
  /\ pending = Cues
  /\ queue = <<Song>> /\ at = 1
  /\ report = NoReport
  /\ commands = <<>>
  /\ job = [h \in {"top_up", "replan"} |-> Idle]
  /\ heard = {}
  /\ seen = [blind |-> FALSE, crossed |-> FALSE, left |-> FALSE, asked |-> {},
             asks |-> 0]
  /\ events = 0

PoolNext ==
  \/ SetState
  \/ \E l \in Lanes : PauseLane(l) \/ ResumeLane(l)
  \/ \E h \in DOMAIN job :
       \/ \E l \in Lanes : \E t \in TracksOf[l] : Pick(h, l, t)
       \/ Picked(h)
       \/ Send(h)
  \/ \E op \in Ops, t \in Others : AgentSends(op, t)

PhoneNext ==
  \/ Sample
  \/ \E i \in DOMAIN commands : Lose(i) \/ Execute(i)
  \/ NextSong
  \/ \E t \in Others : PlayOther(t)

Next == PoolNext \/ PhoneNext

Spec == Init /\ [][Next]_vars

-----------------------------------------------------------------------------
(* Properties *)

\* No song is to come twice on the phone, whatever reports, top-ups, replans
\* and commands of agents overlapped and whichever delivery came late, as long as
\* the server knew each song to come from somewhere when it sent more: the
\* pool's memory makes up for an old report, reservations for one not yet made.
NoTwice == ~seen.blind => IsInjective(SubSeq(queue, at, Len(queue)))

\* Once a lane is paused and its replan has been carried out, none of its songs
\* is to come, but for what was asked for or is in a lane that goes on; not so when
\* a top-up or an earlier command crossed the replan, or when it found nothing
\* else to play.
PauseTakesHold ==
  Settled /\ ~seen.crossed /\ ~seen.left
  => \A l \in paused :
       ToSet(After(Now)) \cap TracksOf[l]
       \subseteq seen.asked \cup {q.play : q \in Cues}
                 \cup UNION {TracksOf[m] : m \in Unpaused}

\* The phone's queue never gets deeper than `ahead`, but for what cues and agents
\* add, whatever songs are played meanwhile; unless a top-up or a replan counted
\* on a report that was older than the queue or than a command on its way, or a
\* replan's own replacement was dropped by the guard and the rest of it was not.
NeverTooDeep ==
  ~seen.crossed /\ ~seen.left
  => Len(queue) - at <= Ahead + seen.asks + Cardinality(Cues \ pending)
=============================================================================
