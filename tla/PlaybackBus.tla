----------------------------- MODULE PlaybackBus -----------------------------
(***************************************************************************)
(* The server's playback command bus (server/audiplex/playback_bus.py) and *)
(* Todd's persisted stop latch (todd_stop.py): the command registry, its   *)
(* at-least-once delivery to long-polling renderers, the device registry,  *)
(* Spotify-Connect style targeting and the transfer handshake.             *)
(*                                                                         *)
(* Two kinds of code touch the bus.  `async def` routes (POST /command and *)
(* the long-poll) run on the event loop, one at a time; `def` routes (ack, *)
(* state, activate, stop-latch) run on worker threads beside it.  Both     *)
(* _enqueue and _claim read the latch FILE between deciding and acting, so *)
(* each is two steps here; `loop` is the step the event loop is in the     *)
(* middle of and `threads` the records worker threads have yet to insert.  *)
(***************************************************************************)
EXTENDS Integers, Sequences, FiniteSets

CONSTANTS
  Devices,        \* renderers that may poll the bus
  Phone,          \* LEGACY_DEVICE_ID: always a valid target, the fallback route
  Items,          \* what a renderer can be playing: a queue at a position
  Nothing,        \* nothing replayable
  None,           \* Python's None for a device id
  Postable,       \* bound: the [kind, owner] pairs POST /command is called with;
                  \* a "start" plays, a "queue" adds to what is there
  Reports,        \* bound: the states renderers report
  RedeliverAfter, \* REDELIVER_AFTER_SECONDS, in ticks
  StaleAfter,     \* DEVICE_STALE_AFTER_SECONDS, in ticks
  PollTimeout,    \* LONGPOLL_TIMEOUT_SECONDS, in ticks
  Capacity,       \* COMMAND_HISTORY_CAPACITY
  MaxSeq,         \* bound: commands ever created
  MaxThreads,     \* bound: worker threads inside _enqueue at once
  Restarts        \* bound: whether server restarts are explored

\* A delivered command's client may answer anything; these are the classes of
\* answer the server tells apart.
Answers == {"ok", "failed"}
Kinds == {"start", "queue", "control", "deactivate", "activate"}

ASSUME BusAssumption ==
  /\ Phone \in Devices
  /\ None \notin Devices
  /\ Nothing \notin Items
  /\ Postable \subseteq [kind: {"start", "queue", "control"}, owner: BOOLEAN]
  /\ Reports \subseteq [playing: BOOLEAN, item: Items \cup {Nothing}]
  /\ RedeliverAfter \in Nat \ {0}
  /\ StaleAfter \in Nat \ {0}
  /\ PollTimeout \in Nat
  /\ Capacity \in Nat \ {0}
  /\ MaxSeq \in Nat
  /\ MaxThreads \in Nat
  /\ Restarts \in BOOLEAN

VARIABLES
  seq,       \* _seq: the last command id handed out
  commands,  \* _commands: the bounded registry, in insertion order
  silent,    \* _devices: ticks since last_seen, Unseen if never registered
  active,    \* _active_device_id
  report,    \* _states: what each device last reported, NoReport if never
  polling,   \* ticks the device's open long-poll may last, Idle if none is open
  loop,      \* what the event loop is in the middle of
  threads,   \* records built by worker threads and not yet inserted
  latch,     \* todd_stop.json says latched
  stopper,   \* how far a POST /stop-latch handler has come
  slipped,   \* history: gated commands handed out since the latch was set
  paused     \* history: a pause was queued since the latch was set

devVars == <<silent, active, report>>
stopVars == <<latch, stopper, paused>>
vars == <<seq, commands, devVars, polling, loop, threads, stopVars, slipped>>

Unseen == -1
Idle == -1
Free == [op |-> "free"]
NoReport == [playing |-> FALSE, item |-> Nothing]
Report == [playing: BOOLEAN, item: Items \cup {Nothing}]

Outstanding == {"queued", "delivered"}
Terminal == {"acked", "failed"}

\* PlaybackCommandRecord.  `to`, `playing` and `item` are the payload of the
\* handshake commands; `cause` records which deactivate an activate answers and
\* `handedTo` who was ever given the command.  `age` is the time since
\* delivered_at, kept while a delivery is un-acked and no longer than it matters.
Command ==
  [id: Nat, kind: Kinds, owner: BOOLEAN, target: Devices \cup {None},
   to: Devices \cup {None}, playing: BOOLEAN, item: Items \cup {Nothing},
   cause: Nat, status: Outstanding \cup Terminal,
   ack: {"none", "ok", "failed", "refused"}, handedTo: SUBSET Devices,
   age: 0 .. RedeliverAfter]

LoopStep ==
  {Free} \cup [op: {"insert"}, rec: Command]
         \cup [op: {"claim"}, dev: Devices, rec: Command]

TypeOK ==
  /\ seq \in Nat
  /\ commands \in Seq(Command)
  /\ Len(commands) <= Capacity
  /\ silent \in [Devices -> {Unseen} \cup 0 .. StaleAfter + 1]
  /\ active \in Devices \cup {None}
  /\ report \in [Devices -> Report]
  /\ polling \in [Devices -> {Idle} \cup 0 .. PollTimeout]
  /\ loop \in LoopStep
  /\ threads \subseteq Command
  /\ latch \in BOOLEAN
  /\ stopper \in {"idle", "cancel", "pause"}
  /\ slipped \in Nat
  /\ paused \in BOOLEAN

-----------------------------------------------------------------------------
(* Helpers *)

\* START_CMDS, and those Todd's stop refuses: every source but the owner's own.
Start(c) == c.kind \in {"start", "queue", "activate"}
Gated(c) == Start(c) /\ ~c.owner

RefusesNewOnly(c) == latch /\ Gated(c) /\ c.status = "queued"

\* _todd_stop_refusal: asked at enqueue and again at delivery.
Refuses(c) == latch /\ Gated(c)

Refused(c) == [c EXCEPT !.status = "failed", !.ack = "refused", !.age = 0]

Blank(id, kind, owner) ==
  [id |-> id, kind |-> kind, owner |-> owner, target |-> None, to |-> None,
   playing |-> FALSE, item |-> Nothing, cause |-> 0, status |-> "queued",
   ack |-> "none", handedTo |-> {}, age |-> 0]

\* The first half of _enqueue: the id is taken and the latch file is read.
Gate(c) == IF Refuses(c) THEN Refused(c) ELSE c

InsertThenCheck(cmds, c) ==
  IF Len(cmds) > Capacity THEN Tail(Append(cmds, c)) ELSE Append(cmds, c)

\* The registry keeps the newest Capacity records, whatever their status.
Insert(cmds, c) ==
  LET longer == Append(cmds, c)
  IN  IF Len(longer) > Capacity THEN Tail(longer) ELSE longer

NeverLive(d) == FALSE

\* `connected`: seen recently enough to be asked to hand over.
Live(d) == silent[d] \in 0 .. StaleAfter - 1

\* _target_device_id, with the phone as the fallback route of _claim.
Route ==
  IF /\ active # None
     /\ silent[active] \in 0 .. StaleAfter
  THEN active
  ELSE Phone

OwedOnce(c, d) ==
  (IF c.target # None THEN c.target ELSE Route) = d /\ c.status = "queued"

OwedUnlessAcked(c, d) ==
  (IF c.target # None THEN c.target ELSE Route) = d /\ c.status # "acked"

\* What _claim may hand to d: new, or delivered long enough ago.
Owed(c, d) ==
  /\ (IF c.target # None THEN c.target ELSE Route) = d
  /\ \/ c.status = "queued"
     \/ c.status = "delivered" /\ c.age >= RedeliverAfter

RefusedTakeNoId(c) ==
  /\ seq < MaxSeq
  /\ Cardinality(threads) < MaxThreads
  /\ seq' = IF Refuses(c) THEN seq ELSE seq + 1
  /\ threads' = threads \cup {Gate(c)}

\* A worker thread enters _enqueue with record c.
BeginEnqueue(c) ==
  /\ seq < MaxSeq
  /\ Cardinality(threads) < MaxThreads
  /\ seq' = seq + 1
  /\ threads' = threads \cup {Gate(c)}

\* _send_handoff: the activate that resumes what `from` last reported on `to`.
Handoff(from, to, wasPlaying, cause) ==
  [Blank(seq + 1, "activate", FALSE) EXCEPT
     !.target = to, !.cause = cause, !.item = report[from].item,
     !.playing = wasPlaying /\ report[from].item # Nothing]

-----------------------------------------------------------------------------
(* The event loop *)

\* POST /command: refused with 409 while latched, else enqueued.
PostCommand(p) ==
  /\ loop = Free
  /\ seq < MaxSeq
  /\ ~Refuses(Blank(seq + 1, p.kind, p.owner))
  /\ seq' = seq + 1
  /\ loop' = [op |-> "insert", rec |-> Blank(seq + 1, p.kind, p.owner)]
  /\ UNCHANGED <<commands, devVars, polling, threads, stopVars, slipped>>

\* The second half of that _enqueue.
LoopInsert ==
  /\ loop.op = "insert"
  /\ commands' = Insert(commands, loop.rec)
  /\ loop' = Free
  /\ UNCHANGED <<seq, devVars, polling, threads, stopVars, slipped>>

\* GET /command/next registers the device, then waits.
PollBegin(d) ==
  /\ loop = Free
  /\ polling[d] = Idle
  /\ silent' = [silent EXCEPT ![d] = 0]
  /\ polling' = [polling EXCEPT ![d] = PollTimeout]
  /\ UNCHANGED <<seq, commands, active, report, loop, threads, stopVars, slipped>>

PollTimesOut(d) ==
  /\ loop = Free
  /\ polling[d] = 0
  /\ \A k \in DOMAIN commands : ~Owed(commands[k], d)
  /\ polling' = [polling EXCEPT ![d] = Idle]
  /\ UNCHANGED <<seq, commands, devVars, loop, threads, stopVars, slipped>>

\* _claim, up to the latch read: owed commands the latch refuses are refused
\* and skipped, and the first one it lets through is about to be delivered.
ClaimCheck(d) ==
  LET owed == {k \in DOMAIN commands : Owed(commands[k], d)}
      clear == {k \in owed : ~Refuses(commands[k])}
      First(k) == k \in clear /\ \A j \in clear : k <= j
      skipped == {k \in owed \ clear : \A j \in clear : k < j}
  IN  /\ loop = Free
      /\ polling[d] # Idle
      /\ owed # {}
      /\ commands' = [k \in DOMAIN commands |->
                        IF k \in skipped THEN Refused(commands[k])
                                         ELSE commands[k]]
      /\ \/ /\ clear = {}
            /\ loop' = Free
         \/ \E k \in owed :
              /\ First(k)
              /\ loop' = [op |-> "claim", dev |-> d, rec |-> commands[k]]
      /\ UNCHANGED <<seq, devVars, polling, threads, stopVars, slipped>>

\* The scan walks the live registry too: when a worker thread inserts after it
\* has passed k records and before the next, the poll fails with a 500.
ClaimDies(d) ==
  LET owed == {k \in DOMAIN commands : Owed(commands[k], d)}
  IN  /\ loop = Free
      /\ polling[d] # Idle
      /\ \E k \in 0 .. Len(commands) - 1, c \in threads :
           /\ \A j \in owed : j <= k => Refuses(commands[j])
           /\ LET upTo == [j \in DOMAIN commands |->
                             IF j \in owed /\ j <= k THEN Refused(commands[j])
                                                     ELSE commands[j]]
              IN  commands' = Insert(upTo, c)
           /\ threads' = threads \ {c}
      /\ polling' = [polling EXCEPT ![d] = Idle]
      /\ UNCHANGED <<seq, devVars, loop, stopVars, slipped>>

\* _claim, after the latch read: the record is marked and handed out, whatever
\* a worker thread did to it in between.
ClaimCommit ==
  /\ loop.op = "claim"
  /\ LET d == loop.dev
         c == loop.rec
     IN  /\ commands' = [k \in DOMAIN commands |->
                           IF commands[k].id = c.id
                           THEN [commands[k] EXCEPT !.status = "delivered",
                                                    !.handedTo = @ \cup {d},
                                                    !.age = 0]
                           ELSE commands[k]]
         /\ polling' = [polling EXCEPT ![d] = Idle]
         /\ slipped' = IF latch /\ Gated(c) THEN slipped + 1 ELSE slipped
  /\ loop' = Free
  /\ UNCHANGED <<seq, devVars, threads, stopVars>>

-----------------------------------------------------------------------------
(* Worker threads *)

ThreadInsert ==
  \E c \in threads :
    /\ commands' = Insert(commands, c)
    /\ threads' = threads \ {c}
    /\ UNCHANGED <<seq, devVars, polling, loop, stopVars, slipped>>

\* POST /command/{id}/ack.  An id the registry no longer has is a 404; the ack
\* of a handshake's deactivate sends the baton on, however often it is acked.
Ack(d, k, answer) ==
  LET c == [commands[k] EXCEPT
              !.status = IF answer = "ok" THEN "acked" ELSE "failed",
              !.ack = answer, !.age = 0]
  IN  /\ d \in commands[k].handedTo
      /\ commands' = [commands EXCEPT ![k] = c]
      /\ IF c.kind = "deactivate" /\ None \notin {c.target, c.to}
         THEN BeginEnqueue(Handoff(c.target, c.to, c.playing, c.id))
         ELSE UNCHANGED <<seq, threads>>
      /\ UNCHANGED <<devVars, polling, loop, stopVars, slipped>>

\* POST /state: a report replaces the last one and is a liveness beat of any
\* device that names itself (the phone does not).  A report of the renderer
\* that shows music playing may make the DJ pool or a cue queue a track.
PostState(d, r) ==
  /\ report' = [report EXCEPT ![d] = r]
  /\ silent' = IF d # Phone /\ silent[d] # Unseen
               THEN [silent EXCEPT ![d] = 0] ELSE silent
  /\ UNCHANGED <<commands, active, polling, loop, stopVars, slipped>>
  /\ \/ UNCHANGED <<seq, threads>>
     \/ /\ d = Route'
        /\ r.playing /\ r.item # Nothing
        /\ BeginEnqueue(Blank(seq + 1, "queue", FALSE))

\* POST /devices/{id}/activate: transfer().  An unknown device is a 404.
Transfer(d) ==
  LET prev == IF active = None THEN Phone ELSE active
      was == report[prev].playing
      ask == [Blank(seq + 1, "deactivate", FALSE) EXCEPT
                !.target = prev, !.to = d, !.playing = was]
  IN  /\ d = Phone \/ silent[d] # Unseen
      /\ active' = d
      /\ silent' = IF silent[d] = Unseen
                   THEN [silent EXCEPT ![d] = 0] ELSE silent
      /\ IF prev = d THEN UNCHANGED <<seq, threads>>
         ELSE BeginEnqueue(
                IF Live(prev) THEN ask ELSE Handoff(prev, d, was, 0))
      /\ UNCHANGED <<commands, report, polling, loop, stopVars, slipped>>

\* POST /stop-latch, first step: the latch file is written.
StopLatch ==
  /\ stopper = "idle"
  /\ latch' = TRUE
  /\ slipped' = 0
  /\ paused' = FALSE
  /\ stopper' = "cancel"
  /\ UNCHANGED <<seq, commands, devVars, polling, loop, threads>>

\* Second step: cancel_outstanding_starts refuses what is queued or un-acked.
ToCancel == {k \in DOMAIN commands :
               Start(commands[k]) /\ commands[k].status \in Outstanding}

CancelStarts ==
  /\ stopper = "cancel"
  /\ commands' = [k \in DOMAIN commands |->
                    IF k \in ToCancel THEN Refused(commands[k])
                                      ELSE commands[k]]
  /\ stopper' = "pause"
  /\ UNCHANGED <<seq, devVars, polling, loop, threads, latch, paused, slipped>>

\* ... but it iterates the live registry: when another enqueue inserts after
\* the k-th record was visited and before the last one was, the iteration
\* raises and takes the handler with it.
CancelDies ==
  /\ stopper = "cancel"
  /\ \E k \in 1 .. Len(commands) - 1,
        c \in threads \cup (IF loop.op = "insert" THEN {loop.rec} ELSE {}) :
       LET upTo == [j \in DOMAIN commands |->
                      IF j \in ToCancel /\ j <= k THEN Refused(commands[j])
                                                  ELSE commands[j]]
       IN  /\ commands' = Insert(upTo, c)
           /\ threads' = threads \ {c}
           /\ loop' = IF c \in threads THEN loop ELSE Free
  /\ stopper' = "idle"
  /\ UNCHANGED <<seq, devVars, polling, latch, paused, slipped>>

\* Last step: the pause is queued.
StopPause ==
  /\ stopper = "pause"
  /\ BeginEnqueue(Blank(seq + 1, "control", FALSE))
  /\ stopper' = "idle"
  /\ paused' = TRUE
  /\ UNCHANGED <<commands, devVars, polling, loop, latch, slipped>>

\* DELETE /stop-latch.
LiftLatch ==
  /\ latch
  /\ latch' = FALSE
  /\ UNCHANGED <<seq, commands, devVars, polling, loop, threads, stopper,
                 paused, slipped>>

-----------------------------------------------------------------------------
(* Time and restarts *)

\* A poll answers by its deadline and code between two steps is instantaneous
\* next to a tick.
Tick ==
  /\ loop = Free
  /\ threads = {}
  /\ stopper = "idle"
  /\ \A d \in Devices : polling[d] # 0
  /\ polling' = [d \in Devices |-> IF polling[d] = Idle THEN Idle
                                   ELSE polling[d] - 1]
  /\ silent' = [d \in Devices |-> IF silent[d] \in 0 .. StaleAfter
                                  THEN silent[d] + 1 ELSE silent[d]]
  /\ commands' = [k \in DOMAIN commands |->
                    IF commands[k].status = "delivered"
                       /\ commands[k].age < RedeliverAfter
                    THEN [commands[k] EXCEPT !.age = @ + 1]
                    ELSE commands[k]]
  /\ UNCHANGED <<seq, active, report, loop, threads, stopVars, slipped>>

\* The process dies: only the latch file survives.  Ids are seeded from the
\* clock, so they keep growing.
Restart ==
  /\ Restarts
  /\ commands' = <<>>
  /\ silent' = [d \in Devices |-> Unseen]
  /\ active' = None
  /\ report' = [d \in Devices |-> NoReport]
  /\ polling' = [d \in Devices |-> Idle]
  /\ loop' = Free
  /\ threads' = {}
  /\ stopper' = "idle"
  /\ UNCHANGED <<seq, latch, paused, slipped>>

Init ==
  /\ seq = 0
  /\ commands = <<>>
  /\ silent = [d \in Devices |-> Unseen]
  /\ active = None
  /\ report = [d \in Devices |-> NoReport]
  /\ polling = [d \in Devices |-> Idle]
  /\ loop = Free
  /\ threads = {}
  /\ latch = FALSE
  /\ stopper = "idle"
  /\ slipped = 0
  /\ paused = FALSE

LoopNext ==
  \/ \E p \in Postable : PostCommand(p)
  \/ LoopInsert
  \/ ClaimCommit
  \/ \E d \in Devices : PollBegin(d) \/ PollTimesOut(d)
                           \/ ClaimCheck(d) \/ ClaimDies(d)

ThreadNext ==
  \/ ThreadInsert
  \/ \E d \in Devices, k \in DOMAIN commands, a \in Answers : Ack(d, k, a)
  \/ \E d \in Devices, r \in Reports : PostState(d, r)
  \/ \E d \in Devices : Transfer(d)
  \/ StopLatch
  \/ CancelStarts
  \/ CancelDies
  \/ StopPause
  \/ LiftLatch

Next == LoopNext \/ ThreadNext \/ Tick \/ Restart

Spec == Init /\ [][Next]_vars

-----------------------------------------------------------------------------
(* Properties *)

\* Every record the bus is working on: kept, or built and not yet inserted.
Unborn == threads \cup (IF loop.op = "insert" THEN {loop.rec} ELSE {})
Records == {commands[k] : k \in DOMAIN commands} \cup Unborn

\* A command id names one command, kept or still to be inserted: the client's
\* dedupe, the ack route and the mark of a claim all go by the id alone.
IdsAreUnique ==
  /\ \A c \in Records : c.id \in 1 .. seq
  /\ \A j, k \in DOMAIN commands : commands[j].id = commands[k].id => j = k
  /\ \A k \in DOMAIN commands, c \in Unborn : commands[k].id # c.id
  /\ \A c, e \in threads : c.id = e.id => c = e
  /\ loop.op = "insert" => \A c \in threads : c.id # loop.rec.id

\* The latch is read at enqueue and again at delivery, so whatever was queued,
\* inserted late or due for a retry when Todd stopped the DJ, at most the one
\* start whose claim had already read the latch file still reaches a device.
AtMostOneStartSlips == slipped <= 1

\* An ack, or a refusal, settles a command: nothing offers it again but a claim
\* that had picked it before it was settled and marks it without a second look.
OnlyAPendingClaimRevives ==
  [][\A j \in DOMAIN commands, k \in DOMAIN commands' :
       /\ commands[j].id = commands'[k].id
       /\ commands[j].status \in Terminal
       /\ commands'[k].status \in Outstanding
       => /\ loop.op = "claim" /\ loop.rec.id = commands[j].id
          /\ loop.rec.status \in Outstanding]_vars

\* The bus is a Mailbox: a record on its way into the registry counts as
\* waiting, one the registry dropped is gone, and the claim under way is in
\* hand.  Whatever threads, retries and evictions do, a settled command is
\* offered again only from the hand, a forgotten one never, and no start is
\* picked while the latch is set.
Stage(c) == CASE c.status = "queued" -> "waiting"
              [] c.status = "delivered" -> "offered"
              [] c.status \in Terminal -> "settled"

View(c) == [id |-> c.id, stage |-> Stage(c), start |-> Gated(c)]

Claimed == loop.op = "claim"

Box ==
  INSTANCE Mailbox WITH
    last    <- seq,
    box     <- {View(c) : c \in Records},
    hand    <- IF Claimed THEN loop.rec.id ELSE 0,
    handed  <- Claimed /\ Gated(loop.rec),
    stopped <- latch

IsAMailbox == Box!Spec
=============================================================================
