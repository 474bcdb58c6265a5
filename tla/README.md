# Audiplex in TLA+

Audiplex is a self-hosted audiobook and music server (`server/audiplex`, FastAPI and SQLite)
with an Android app, a Windows client and an MCP server through which AI personas act as the DJ.
What makes it a distributed system is remote control: agents, people and server-side automation
post playback commands to the server's *bus*, devices long-poll for them, and the music is where
the last transfer left it. Around that stand the parts that share state between processes,
threads and machines: positions in a book, render jobs, the DJ's pool and cues, the music
catalogue, the PC's player.

This directory models those parts, the ones with concurrency, loss, crashes and timeouts, and
lists the rest. A reader needs the repository beside it; line numbers are in `PROJECT.json`.

## The system

| component | state | operations | hard because |
|---|---|---|---|
| playback bus, `playback_bus.py` | command registry (ordered, 200 records), id counter, devices and when they were seen, active device, last state per device | enqueue, claim (long-poll), ack, transfer, set_state, cancel_outstanding_starts | event loop and worker threads share it without a lock; at-least-once delivery; ages and timeouts; a handshake of three messages |
| Todd's stop latch, `todd_stop.py` | a JSON file | set, lift, gate | read at enqueue and at delivery, never together with the registry |
| playback routes, `routers/playback.py` | none | `async def` for posting and polling, `def` for everything else | the `def` routes run on a thread pool beside the loop |
| scheduled stop, `scheduled_stop.py` | one job, one latch, in memory | arm, tick (twice a second), gate, clear | verifies a device through delayed reports; its commands are redelivered out of order |
| queue guard, `queue_guard.py` | none (reads history, bans, queue) | apply_guard | repeats among queue, reserved commands and history |
| DJ pool, `dj_pool.py` | lanes, cursors, cues, persisted | start, top_up, replan, stop | runs inside state reports of two devices |
| DJ triggers, `dj_triggers.py` | armed cues, ride outro, chime bed, persisted | on_state, arm, fire | one-shot cues on repeated reports |
| ride fallback, `ride_fallback.py` | the outage, the episode | watch, announce, start a pool | decides from silence, waits ten seconds and decides again |
| live loudness, `loudness_live.py` | `_in_flight` ids | schedule, measure | daemon threads beside the sweeps |
| book progress, `routers/progress.py`, Android `PlaybackPositionRepository`, Windows `push_progress` | a position with a time on every side | save, push, resolve, flush | last-writer-wins over offline copies, only one client sends its sample time |
| library scanners, `scanner.py`, `scanners/` | tracks, albums, books | scan, prune, relink | files move and vanish under a scan |
| identity, taste, tag repair | recording keys, ratings, repairs | build, apply, revert | a rescan must not undo a repair |
| music-video worker, `music_video/worker.py` | jobs, clips on disk, a pid file | spawn, process, cancel, resume | two processes, a job queued while the worker exits |
| accounts, `auth.py`, `routers/auth_router.py` | users, tokens | login, register | none that a model checker reaches |
| music, library, streaming routes | the database | CRUD, range requests | mostly one transaction each |
| Android command client, `DjCommandClient.kt` | inbox, executed ids, report key | poll, handle, ack, report | polls while it executes; dedupe; two reporters |
| Android player, `PlaybackManager.kt`, `PlaybackService.kt`, `AudioFocusManager.kt`, `SleepFade.kt` | queue, clips, focus, fades | dozens | callbacks of Media3, audio focus and timers |
| Android downloads, `DownloadWorker.kt`, `DownloadRepository.kt` | rows with a status, partial files | start, pause, resume, delete | WorkManager replaces a worker that is still writing |
| Windows client, `bus.py` | executed ids, outcome of the last command | poll, dispatch, ack, report | a report thread beside the command thread |
| Windows player, proxy, keys | queue, VLC/mpv state | play, skip, clips | callbacks |
| MCP server and DJ toolkit, `audiplex_mcp/` | personas, clip bank, buckets | tools | calls the bus; the bridge watcher restarts it |
| web client, `web/app.js` | view | browse, play | none |

How they interact. A persona's tool, the web page or the phone posts to `/api/playback/command`;
the route asks the scheduled stop and Todd's latch, then `PlaybackBus.enqueue` appends a record.
Each renderer holds one `GET /command/next` open (25 s); `next()` offers it the oldest record
*owed* to it: new, or delivered 60 s ago and not acked. The client runs it, remembers the id,
and acks the outcome. Independently it posts its state every 5 s, which feeds the DJ pool, the
triggers and the scheduled stop; those enqueue commands of their own from inside the report.
`POST /devices/{id}/activate` makes another device the renderer: the old one is sent a
`deactivate`, pauses, reports, acks, and the ack makes the server send an `activate` with the
reported queue to the new one.

What must be right, per component: a command is not lost, not run twice and not run after Todd
stopped the DJ (bus, latch, clients); a transfer moves the music and never doubles it (bus,
clients); a stop that says YES has stopped the music and leaves nothing behind on the phone
(scheduled stop); no song repeats and a paused lane is silent (guard, pool); an outro's pause
comes after its song, from each side once, never when the outro is gone, and comes (triggers);
the newest position in a book wins (progress); a queued video job is rendered and a cancelled
one stops (worker); a rating stays with its file and a verdict on a tag reaches the catalogue
(scanners, identity); the end of a song moves the PC's queue on once and a pause is silence
(Windows player).

## Modules

**`PlaybackBus`** is the server half. Its state is `PlaybackBus`'s fields: `seq`, `commands`,
`silent` (age of `last_seen` per device), `active`, `report`. Concurrency is explicit. Code on
the event loop and code on worker threads interleave wherever the Python does something between
two accesses of shared state that matter:

* `_enqueue` takes an id and reads the latch file, then inserts. On the loop this is
  `PostCommand` then `LoopInsert`, with `loop` holding the record in between; on a worker thread
  `BeginEnqueue` (inside `Ack`, `PostState`, `Transfer`, `StopPause`) then `ThreadInsert`, with
  the record in `threads`.
* `_claim` reads the latch file, then marks and returns: `ClaimCheck` then `ClaimCommit`.
* `POST /stop-latch` writes the file, sweeps the registry, queues a pause: `StopLatch`,
  `CancelStarts`, `StopPause`, with `stopper` in between.
* `_claim` and `cancel_outstanding_starts` iterate a live `OrderedDict`. An insert by the other
  side during the iteration is a `RuntimeError`: `ClaimDies`, `CancelDies`.

Taking an id (`self._seq += 1; id=self._seq`) is one step: the interpreter does not switch
threads between the increment and the read. The route's own test of the latch and the one in
`_enqueue` are one step too; between them only a stop could come, and it would leave a refused
record in place of a 409. Ages are counted in ticks and only as far as they matter. A tick does
not pass while a step is half done: file reads and dictionary operations are instantaneous
beside 25 s.

Abstractions: a command is its kind (`start`, `queue`, `control`, `deactivate`, `activate`) and
whether it is Todd's own; a queue at a position is an *item*; the queue guard, the logs and the
saved queue are left out. `PostState` of the renderer may add one `queue` command, which stands
for whatever the DJ pool or a cue decides to send.

**`Renderers`** EXTENDS it with the clients, so every action of a client is composed with the
server step it calls. The phone's `CommandPump` polls while commands run and queues what arrives
in `inbox`; a PC polls only when it has acked. `done` is the dedupe memory with its outcomes,
`ackOut` an ack on its way, `snap` a sampled state on its way. `Execute` is `handle()` on a new
id, `Replay` on an executed one, where phone and PC differ (the phone repeats the original
outcome, the PC says ok). `Sample`/`Post` are the report loop; the phone's mutex keeps its two
reporters apart, the PC has none. Losses (`ResponseLost`, `AckLost`, a lost report), `Kill` of
an app and `ServerDies` are the environment. What a command leaves playing is `Played`; a
command that is answered as failed may have played all the same (the phone calls a start failed
when 8 s were not enough). `crossed` is history: it says that commands have crossed in one of
four ways (`HandedOverBlindly`, `StartedTooSoon`, `StopDropped`, `StartStrayed`) after which two
devices can play; `NoDuet` is that nothing else makes them.

**`ScheduledStop`** is the stop controller over an abstract bus and one phone. `job` and `latch`
are the controller's, `mail` is the registry as `PlaybackBus` delivers it (in order of ids,
again when un-acked), `phone` the player, `ran` its dedupe. The ticker and the gate of `POST
/command` run on the event loop; arming and DELETE are `def` routes on worker threads. So a tick
reads the job (`TickBegin`), acts on what it read (`TickAfterCurrent`, `TickFade`, which drive
the job they hold even if it has been cancelled meanwhile) and verifies (`TickVerify`, which
ends whatever job there is); arming sends the trim and the one-shot pause, and sets the latch in
a step of its own (`ArmLatch`). Reports are sampled and posted in two steps, and `report.age` is
what the server extrapolates the position by. The phone's round trip (hand out, run, ack) is one
step unless it is lost: the response, or the ack of a command that was run. `Tap` and `Kill`
stand for people and the operating system. Later songs than the second share a name.

**`Mailbox`** is what the bus promises, with no devices, threads or time in it: a box of
numbered commands that wait, are offered, perhaps more than once, and are settled, one at a time
in hand. `PlaybackBus!IsAMailbox` states the refinement. Under its mapping `Box`, `last` is
`seq`; the box is the `View` of every record, those built and not yet inserted counting as
waiting; the hand is the claim between its two steps, `handed` whether that claim is of a gated
start; `stopped` is the latch. So an eviction is a command dropped, a restart is a crash that
the latch outlives, and the claim's second step is the only one that offers.

**`BookProgress`** is one book: the phone's Room row and its PUTs, flushes and resolve, the
server's row, a PC that pushes. A spot is named by the moment it was sampled, so "newer" is a
comparison of numbers, and 0 is no spot. A PUT is sent, checked, committed and answered in steps
of their own (`PhonePut`/`PcPut`, `Check`, `Commit`, `Answered`, `Lost`), for the route is a
`def` handler whose SELECT locks nothing. `ResolveRead`, `ResolveGet` and `ResolveApply` are the
three parts of `resolveStartPosition`. `stored` and `overtaken` are history.

**`VideoWorker`** is the render queue: rows shared by the API's handlers and by worker
processes, each of which reads a row and commits it in two steps. `SecondLook`, `WritePid`,
`TakeJob`, `Exit` are `main`; `Proceed`, `Refresh`, `Write`, `Work`, `Fail` are `process_job`;
`CreateJob`, `ReadRow`, `CommitCancel`, `CommitRetry`, `AskForWorker` the handlers. `WorkerDies`
and `ServerRestarts` leave a pid file of a dead process.

**`DjPool`** is how the server keeps the phone's queue filled: a report's top-up, due cues and
replan on threads of their own over one unlocked pool, what they and the agents send through the
queue guard, and the phone that applies it. A top-up and a replan look (`Sample`, `SetState`),
pick one track a step (`Pick`), and send their batches (`Send`). A track stands for its song;
the windows of 12 and 24 hours are one (`heard`). Bans, learned weights, the context tilt and
the five-star spacing only narrow what `Candidates` offers and are left out. The PATCH that
pauses a lane and the start of its replan are one step, as are a command's execution and its
ack. `seen` records where an instruction was blind to the song it repeats (a copy that was on
its way, a handler that crossed another one), and what an agent or Todd asked for by name.

**`DjCues`** is the ride's outro: a one-shot cue on the song that plays, whose clip follows the
song and whose pause follows the clip. Nothing in `dj_triggers.py` is locked, and two threads
work on one cue. A report is handled in a worker thread: `Post`, `SetState`, `Boundary`, then
`Watch` looks at `pause_state`, `PauseLate` queues the pause and `NoteLate` writes
`pause_state`; `Look`, `Check`, `PauseInstead`, `NoteInstead` are the due cue and its hold
guard, `SaveReport` the `_persist` at the end. The event loop arms (`Arm`, `MarkTrack`,
`CheckArmed`) and pauses (`TimerFires` looks, `SendPause` queues, `NotePaused` writes), then
saves (`SaveLoop`). So either side may look before the other has noted its pause, a disarm may
fall between a look and a pause, a clip may be fired from both sides, and a crash may fall
between a pause and its saving. While the loop is in one of its steps it takes in no new report,
since none of them awaits. `Disarm`, `StopPool` and `PoolSaves` (any `_persist` of the pool's)
are routes and handlers on other threads. Cues of the pool take the same path through
`on_state`; chimes, geofences and the clock do not hold music up and are left out. Whether the
clip's file exists, or the scheduled stop's latch keeps it back, is nondeterministic. What
`_persist` wrote is `disk`, and `Restart` comes back with it.

**`MusicCatalog`** is the music scan over drives that come and go: `StartScan`, `NextRoot`, one
`VisitFolder` per folder of `os.walk`, `RootDone` or `CommitKinds`, and `SweepAndCommit`, or
`Abort` when a flush fails. A scan is not one transaction: after a root some of whose tracks
turn out not to be music, `apply_content_kinds` commits what the session holds (`CommitKinds`),
others may write after it, and no later abort or crash takes it back. `db` is committed, `work`
is the session's; `Blocked` says what SQLite's single writer keeps others from meanwhile.
`UpToDate` is the fast path with `_overlay_settled`, `Weigh` is the folder's consensus, `Sync`
reconciles rows in place and gives new rows the next row id, which SQLite reuses. One scan runs
at a time. Titles, the collection of artists, covers, books, and of content kinds all but that
commit, are left out.

**`WindowsPlayer`** is the PC's player: a queue, VLC with its events, a crossfade on a second
player, sleep timers. Every call under the lock is one step; VLC's callback reads the generation
without it and starts a thread (`Callback`, then `OnEnd`, `OnError`, `OnPlaying`). `Watch`,
`Runner` and `EndOfTheOld` are the crossfade, `TimerFires`, `Ramp` and `SleepPause` the sleep
timer, which lets go of the lock between its steps. Volumes are left out but for the sleep
fade's override: a ramp goes down and is then silent, and a crossfade's steps before its last
change nothing. A toggle is a pause or a resume.

Steps that are coarser, or inputs that are fewer, than the code's, beside those named above:
`Transfer` and `Ack` change the registry and the active device in one step, though `transfer()`
and `ack()` read and write several fields on a worker thread without a lock; an enqueue they
make is two steps as everywhere. In `ScheduledStop` people and agents ask for a start, a queue
or a DELETE: a pause is only pressed on the phone (`Tap`), and a seek or a previous, which move
the song's position under the server's estimate until the next report, are not asked for at all.
In `DjPool` each handler works out for itself which lanes are exhausted, where the code keeps
the flags in the lanes that a top-up and a replan share, and an agent's `play_now` is left out.
In `DjCues` a disarm and a stopped pool write and save in one step, concurrent saves do not tear
the file, and a handler that began before the pool was stopped does not keep the old pool's
state in hand.

**`MCPlaybackBus`, `MCRenderers`, `MCScheduledStop`, `MCDjPool`, `MCMusicCatalog`** give TLC
values for the constants. **`RenderersProofs`** (which has those of `PlaybackBus` too),
**`ScheduledStopProofs`**, **`BookProgressProofs`**, **`VideoWorkerProofs`**,
**`DjPoolProofs`**, **`DjCuesProofs`**, **`MusicCatalogProofs`** and **`WindowsPlayerProofs`**
hold the proofs.

## Runs

A tick is about 25–30 s. With `RedeliverAfter = 1` and `StaleAfter = 1` or `2` a delivery is
retried and a device goes stale after one or two of them.

| run | shows | within |
|---|---|---|
| `latch` | `TypeOK`, `AtMostOneStartSlips`, `OnlyAPendingClaimRevives`, and that the bus `IsAMailbox` | one phone, three commands, a registry of two (so eviction happens), one worker thread beside the loop, stops and lifts, restarts |
| `lossy_transfer` | `NoDuet`: whatever is lost, forgotten or restarted, two devices play only after commands have crossed in one of four ways | two devices, four commands (a whole handshake and half of the next), a registry of two, a memory of one, top-ups from reports, for clients that finish what they hold within a tick |
| `retries` | `RunsOnce`, `AckIsTruthful` with losses, kills, restarts and commands slower than the retry | the phone, two commands, a memory of two |
| `drains` | `Drains`: every command is settled in the end and stays so | the phone, two commands, losses, restarts |
| `in_time` | `NeverEarly`: a stop after the current song never cuts it short, with late reports, a cancellation, a start or a refill in between, and somebody using the phone | one stop, a song of two ticks, one request |
| `verdict` | `Verdict`: every armed stop reaches a verdict even with a dead phone; `MusicStops`: with a live one it silences the music whatever the build makes of the trim | both modes, one loss anywhere, or one start, refill or cancellation anywhere, that between a stop's job and its latch too |
| `positions` | `SyncedWasStored`, `ResumeTakesNewer`, `PcKeepsNewer` | five stamps, two PUTs under way |
| `videos` | `NobodyAbandoned`, `CancelStopsAfterClip`, `JobsEnd` | one job of two clips, two workers, a retry, a death |
| `dj_pool` | `NoTwice`, `PauseTakesHold`, `NeverTooDeep` | lanes of two songs and of one, two ahead, batches of one, a queue of five, a cue, two events |
| `dj_cues` | `NeverCutsTheSong`, `PausesOnceEach`, `NoStrayPause`, `OutroPauses` | two songs, one outro, two held boundaries, a restart |
| `catalog` | `RatingsStay`, `HistoryKept`, `VerdictsShown`, `CatalogIsDisk` | two roots; an album, a disc of it, a loose folder; four paths, two songs, two events |
| `pc_player` | `OneEndOneAdvance`, `PauseSilences`, `FadeIsTheLastTimers`, `OverlapEnds`, `SleepComes` | a queue of two, three media, two timers, three commands |

Every module's run checks its `TypeOK` too, but for `Renderers`, whose types are proved.

Several of these properties name an exception: a slip, a crossing, a song a handler was blind
to, a verdict that is pending. The model contains what happens in it: it is what the code does
where a docstring or a comment promises more. Those places are listed under "Known
disagreements"; no run is spent on refuting them.

The bounds. Two devices suffice for a transfer, which concerns an old and a new one. Four
commands are the smallest number at which two handshakes overlap. One worker thread beside the
event loop gives every pair of interleaved enqueues; the proofs are for any number. A memory of
two ids is the smallest that a command and the one before it fit in; the client's 64 and the
PC's hundred are larger than what 60 s of commands produce. `lossy_transfer` gives a client a
memory of one, so that it forgets, and the registry two records, so that an unanswered
`deactivate` is dropped. Its cfg has a `CONSTRAINT`: a state in which commands have crossed is
checked and not continued, for `crossed` never goes back and `NoDuet` is true wherever it holds.
For `ScheduledStop` a tick is about 20 s, so the trim and the verification are waited for one
tick and a redelivery takes two; one stop is interleaved with one disturbance at any moment, a
request or a loss (`MaxDisturbed`). `in_time` needs a song of two ticks so that a report can be
late by a part of it.

Five stamps are two spots on the phone, two on the PC and one more, so that each side can be
newer, and overtaken, twice; two PUTs are what can cross. Two workers are what the race for the
pid file needs, two clips what a cancel between clips needs. In `dj_pool` a lane of two is the
smallest that strict rotation can turn in, `Ahead = RefillAt = 2` with batches of one makes
every top-up a chain whose first link can be lost, and two events are two interruptions of any
kind: an agent's command, a lane paused, a lost delivery, a song played out of turn. `MaxQueue`
stays above the depths that can be reached (`Ahead`, two songs of agents and a cue's), so it is
never what keeps the queue shallow. In `dj_cues` the music goes round two songs, so the outro's
song comes again; one outro alone has a report's thread, the loop and the routes on it. An outro
that replaces another is more than TLC finishes in the time of a run: that case is covered by
the proofs alone, which are for any number of outros. In `catalog` the catalogue starts empty
over any disk contents, so the two events (a file put, moved or deleted, a drive pulled, a
rating, a measurement, a verdict, a crash) come on top of a first scan and can fall inside any
later one; scans are not bounded. In `pc_player` three media are a song, the one that fades in
over it and the one after, and two timers are the one replaced and its replacement.

`Brisk` is an assumption, not a bound of size: `lossy_transfer` and `drains` check clients that
act within a tick. The proof of `NoDuet` needs neither this nor any of the bounds. Two devices
do play in these cases, each of which the model contains and marks as a crossing: a transfer
while another is under way, or away from a phone that has been silent for 60 s and still plays,
which is not asked to stop, as `transfer()` says; a restart, which forgets the renderer; a start
or top-up built while the old renderer has yet to stop; a `deactivate` that 200 newer commands
push out of the registry; a start for a renderer so silent that the phone is given it. The runs
leave out people pressing play on a device, which no server can know before the next report.

Fairness, and why the code justifies it:

* `Renderers`: the server's loop and threads keep running and time passes (weak fairness of
  inserts and of answers, strong fairness of claims, which other polls disable for a moment, and
  of `Clock`); clients keep polling and executing; and a network that loses messages does not
  lose every copy of one command or every ack of one id (strong fairness of `Receive` and
  `AckArrives` per id). Nothing is assumed of kills or of restarts.
* `ScheduledStop`: fair only to the server, the clock and the end of a song; `MusicStops` itself
  assumes of the phone that what is offered is heard in the end.
* `VideoWorker`: the API's handlers finish, and each worker process that is not killed goes on
  (weak fairness), in the end also past the wait for a free GPU (strong fairness of `Proceed`).
* `DjCues`: what the event loop has begun goes on (weak fairness of `OfTheLoop`), and a song
  that the music comes to again and again is come to while no report is being handled, and is
  reported then (strong fairness of `ArriveAt` and `PostItem` per song), which the five-second
  report loop gives for songs of minutes. Nothing is assumed of the timer, of what is on the
  wire or of routes. `OutroPauses` itself assumes that again and again the music plays while no
  report is being handled.
* `WindowsPlayer`: the last step of a crossfade's thread, and each of a timer's (firing, its
  ramp, the pause), are threads of the process that nothing else stops (weak fairness). Nothing
  is assumed of VLC's events or of people.

## Proofs

All for every value of the constants that satisfies the module's assumption.

**The bus** (`RenderersProofs`, first part). `TypeCorrect` is inductive as it stands; lemmas
give the type of every record constructor and of `Insert`. `StopHolds` (`AtMostOneStartSlips`)
is not: a claim that has passed the gate is about to raise `slipped`. `SlipBudget` counts what
has slipped together with what is *exposed*, a claim of a gated start that read the latch before
it was set: while latched the sum is at most one, because `ClaimCheck` passes no gated record
and the loop holds one claim at a time. `IdsNameCommands` is over the registry, the loop's
record and the threads' at once, since an id is taken before the insert. No run
checks it by itself: `Mailbox` numbers every command once (`Numbered`), so `IsAMailbox` fails
with it.

**The refinement** (second part). Every step but `ClaimCommit` is `Quiet`: it adds at most one
record, with the next id and refused if the latch says so, and otherwise only settles or
forgets. A quiet step maps to `Work` (or a stutter), except that `ClaimCheck` is `Pick`,
`StopLatch` is `Stop`, `LiftLatch` is `Lift` and `Restart` is `Crash`; `ClaimCommit` is `Offer`.
Besides `TypeOK` and `IdsAreUnique` it needs `Holds`: the claim under way is of a record that
was open and whose id nobody is about to insert. `BusIsAMailbox` is the refinement and
`SettledStays` the action property `OnlyAPendingClaimRevives`.

**The clients** (third part). Every server step is `Answering(A)`: it brings in no answers but
those of `A`, and `A` is empty unless an ack arrives. `AcksAreTruthful` needs `Truthful`, that
the answer of every record, of every ack under way and of every remembered entry is one that was
had; it is proved with the phone as the only renderer, because a PC answers a redelivery with
`ok` whatever happened (below). `RunsAtMostOnce` needs `OnceRun`: what ran is remembered, and
the ids remembered are distinct, so that a memory with room for every id is never full when a
new one comes, by the pigeonhole principle. It assumes `Memory[d] >= MaxSeq`, clients that
forget no id; the run has `Memory = MaxSeq` too.

**The transfer** (last part). `PlaysOnOne` is `NoDuet` for any devices, commands, memories and
losses, with no further hypothesis. Its invariant `Whole` says that unless commands have
crossed, a command is the same wherever it has got to (`Alike`), everything anybody holds or
remembers was built before (`Older`), every command that may still start or stop a device is for
the renderer or makes room for it (`Aimed`), is with whom it is for (`Delivered`), and either
only the renderer may play or exactly one device is on its way out: `Handing`, which says that
its `deactivate` is unsettled and not yet run, and that until it has, nothing open can start
anybody. Every step is of one shape (`Does`): it brings in commands, runs or repeats some it was
given, and settles some; the two that are not are the transfer that changes the renderer and the
restart.

**Scheduled stop**. `TypeCorrect` needs that the tick under way names commands that are on the
bus (`TickKnows`). `NeverCutsShort` (`NeverEarly`) needs `ServerIsBehind`: while the song the
stop was armed on plays and nobody uses the phone, the last report and the one on its way are of
that song, and what they leave of it, moved on by the server's clock, is no less than what there
is.

**Book progress**. The invariant is `TypeOK /\ ByNow /\ Backed /\ InOrder`: nothing is stamped
after now, a synced row or an answered PUT is backed by something stored, and no stamp is older
than its sample. From it `TypeCorrect`, `StampsOrdered`, `SyncedMeansStored`, `ResumesAtNewer`,
`PcNeverOverwrites`.

**Video worker**. `TypeOK /\ Punctual /\ PidRuns /\ HandlerReads /\ NobodyAbandoned`: the worker
of a cancelled job has finished at most the clip at hand and then goes to no other, a pid file
that names a living worker names one that has got past writing it, and a handler under way is
about a job within the bound on retries. From it `TypeCorrect`, `NoneAbandoned`, `CancelStops`.

**DJ pool**. `TypeCorrect` needs what the handlers hold between their steps (`Types`,
`AllTidy`). `ComesOnce` (`NoTwice`) needs that different commands bring different songs, and
none that will still be in the queue when it is carried out (`Apart`). `PauseHolds`
(`PauseTakesHold`) needs `InTime`, that nothing on the bus is late while nothing crossed, and
`Held`: a replan is to replace the queue, its replacement is on its way with only welcome songs
behind it, or the queue and all on its way are welcome. `StaysShallowEnough` (`NeverTooDeep`)
needs `Shallow`: there is an estimate of the depth after each command on its way, none above the
bound, from which what each handler is to send stays below it too. What is about sequences of
any length (a queue without some songs, the estimates) is proved by the least position at which
it would fail.

**DJ cues**. `IInv` is the types of the phone and the threads and what the steps of a thread
rely on: `StillOn` says that while an outro's song is not over it plays, and no report has shown
anything else since it was armed; `TimedAfter` that timers run, and a thread is about to pause,
only for outros whose song is over; `DiskOK` that what is saved is the same outro on its song.
From it `PausesAfterTheSong` (`NeverCutsTheSong`), by way of `WhoPauses`: a pause of a clip's is
sent by a thread that had looked. `Once` adds what came of an outro's pause: while a thread may
still fire it or drop it nothing did (`PendingIsFresh`), a thread about to pause for it has not
sent its pause before (`FirstTime`), and a pause of the live outro is noted, or is about to be
by the thread that sent it (`Noted`). The case that makes it hold is arming: the loop may fire
an outro that a report has fired already, which makes its pause armed again, but the loop takes
in no report meanwhile, so nobody has paused in between (`ArmingAlone`). From it `PausesOnce`
(`PausesOnceEach`), and `NoneStrays` (`NoStrayPause`): what is settled stays settled but for a
crash. That each side pauses once, and not that only one of them does, is all the code gives.
`TypeCorrect` needs `Counted`: an outro has two decisions to come, one while it is armed and one
at a boundary; each clip waiting or on its way took one, or one that a restart gave back
(`Spent`), and the decisions under way overrun the limit on missed boundaries by no more than
one (`Patient`).

**Music catalogue**. Of the library it is assumed (`LibraryAssumption`) that roots are apart and
that a walk names a folder once and a disc after its album: `os.walk` goes top down, and a root
inside another is excluded from the other's walk. `Types` and `Order` (where the scan is in its
walk and what it has passed; a folder passed is found, claimed by an album, or absent) carry
`Progress`: what of `db` the session still has, which verdicts came meanwhile, that what was
found shows its verdicts and lists its files. From these `TypesAreKept`, `HistoryIsKept`,
`VerdictsAreShown`, `CatalogBecomesDisk`. `Good` holds of the committed catalogue and of the
session's: a rating is of a row there is, and of the file it was given for. `NewIdsAreHigher` is
the lemma behind `RatingsStayPut`: an id may come back, but only above every row there is, and
the rating of a row goes when the row does.

**Windows player**. `MInv` says that an end of the current generation is of the media in the
player unless its callback ran while another was being put in, and that nothing fades out beside
a pause; `Held` that every uncancelled running timer is the one the player holds, which is the
newest. From these, with the types of the queue and of the watcher, `TypeCorrect`,
`EndsAreOfTheSong`, `PausedIsSilent`, `OnlyTheLastTimerFades`.

Every invariant and action property that a run checks is proved (`AckIsTruthful` and `RunsOnce`
under the hypotheses named above). Only model-checked: liveness (`Drains`, `Verdict`,
`MusicStops`, `JobsEnd`, `OutroPauses`, `OverlapEnds`, `SleepComes`), which the prover does not
do.

Three properties were corrected by their proofs. `NoDuet` had held only because four commands
were too few for two transfers to overlap; `NeverTooDeep` because `MaxQueue` hid a queue deeper
than the bound it stated; `PauseTakesHold` ignored that lanes may share songs. What each now
excuses is history in the model (`crossed`, `seen`), so that the exception is as exact as the
rule.

## Known disagreements between code and documentation

Met while modelling; none is checked by a run, each is what the code does at the lines named.
The bus and the clients:

* `_todd_stop_refusal` says that a command queued before the latch never reaches the phone after
  it. One can: the claim that read the file just before. `StopHolds` says it is never more than
  one.
* The ack route says an ack stops redelivery. A claim that picked the record before the ack
  marks it delivered after it; `OnlyAPendingClaimRevives` says nothing else does.
* `cancel_outstanding_starts` walks the live registry (`playback_bus.py:363`): a concurrent
  insert kills the handler, with the latch set and no pause sent (`CancelDies`).
* A queued command is dropped by eviction when 200 newer ones are enqueued, though the module
  says it waits until the client drains it.
* The phone's memory of executed ids calls a redelivery a no-op (`DjCommandClient.kt:242`); a
  killed app has forgotten them and runs an un-acked command again.
* A start is routed to the new renderer at once (`playback_bus.py:616`), so one that is posted
  during a transfer plays beside the old renderer.
* Each ack of a `deactivate` hands over, so a redelivered one hands over twice; two crossing
  transfers can leave the music on the device that is not the renderer (`playback_bus.py:605`,
  `:614`).
* A PC that goes to sleep keeps the music waiting with it (`playback_bus.py:618`), and a PC acks
  `ok` for a redelivered command that failed (`windows_client/audiplex_pc/bus.py:132`).
* `_next_redelivery_in` counts deliveries owed to other devices (`playback_bus.py:403`), so a
  device's `next()` spins with a zero timeout while another's delivery is overdue.

The scheduled stop:

* An `activate` clears a scheduled stop when it is posted but not when `transfer` sends it.
* A now-playing report is taken as proof by when it arrived: one that was sampled while the
  phone was paused, and arrives after the music was started again, says YES while it plays
  (`scheduled_stop.py:250`).
* A volume 0 redelivered after the volume was restored mutes the phone (`scheduled_stop.py:230`,
  `:260`).
* DELETE during a tick ends a fade and restores the volume, and the tick may then send its
  volume step or its pause after it. In the same way a start posted while a stop is being armed
  is followed by a latch that nobody asked for (`scheduled_stop.py:135`).
* A fade armed right after another one starts from the reported, already faded, volume and
  restores that. A fade of a device that was paused before it ran out ends in NO unless a new
  report happens to arrive.

Book progress and video jobs:

* `PlaybackPositionRepository.kt:33` promises "latest-wins", but the phone's PUTs carry no
  `client_updated_at`: a row that was saved offline overwrites a newer position of the PC, and
  the server's stale-position check cannot refuse it. After it (`overtaken`) the resume target
  may be the older spot.
* The server's check of a PUT and its commit are apart, with nothing locked
  (`routers/progress.py:60`).
* `resolveStartPosition` overwrites a save that was made since it read the row
  (`PlaybackPositionRepository.kt:75`).
* A PC's `_last_pushed` is set before its PUT (`bus.py:527`), so a last push that failed is not
  tried again.
* "A pid lock keeps it to a single instance": two workers that look before either has written
  both go on (`worker.py:386`).
* A job queued while the last worker is on its way out is left without one until another is
  queued or the server starts (`worker.py:397`).
* "Cancelled" is answered, and `save()` writes the row it had refreshed before
  (`worker.py:282`).
* Cancel overwrites a video that was finished between its read and its commit
  (`routers/music_video.py:405`); a failure overwrites a job cancelled or retried meanwhile with
  `failed` (`worker.py:407`).

The pool and the cues:

* The plan that a replan sends in chunks is discarded from behind when the first chunk is
  redelivered (`playback_bus.py:316`, `:852`); the ride fallback's `play_now` has the same
  shape.
* A top-up looks at the reported queue, not at what is on its way, and doubles it after one more
  track change (`playback_bus.py:841`).
* A replan "replaces" the queue, and a top-up that picked before the pause of the lane sends
  behind it (`playback_bus.py:870`).
* A pick that the guard drops stays in `played_this_session`.
* `resync_lanes` drops `last_pick_index` (`dj_pool.py:325`), so strict rotation within a lane
  starts again.
* An outro that is armed while a report is handled can be fired by both threads, or have one
  boundary counted twice (`dj_triggers.py:557`, `:583`).
* The timer and the report of the next song can both pause (`dj_triggers.py:516`–`545`): the
  rider who pressed play after the first is stopped by the second. A thread that has looked also
  pauses after a disarm; a crash between the pause and its saving (`:545`, `:507`) repeats it,
  once the song or the clip is reported again.
* `on_state` says of a stale outro "skip the words, keep the stop", but one that is found stale
  when it is armed never pauses. The timer of the pause is not moved when the rider pauses
  during the clip.

The catalogue:

* `_overlay_settled` looks at applied verdicts only: a file that came, or came back, with a
  verdict that is still pending is taken for the one that left, and the album is skipped
  (`CatalogIsDisk` names the case).
* "Delete only the tracks whose files are genuinely gone" (`_sync_tracks`): a loose file dropped
  beside disc folders regroups them, and the discs' rows go with their ratings. The reverse
  makes the scan fail on the unique path.
* `track_audio_profile` and `track_dips` refer to tracks without ON DELETE while foreign keys
  are on: once a profiled track's file is removed every scan fails.
* Bans, learned weights, tags, pair notes and favorites have no foreign key, so they pass to
  another song when SQLite gives its id again (`database.py:19`).
* A file that cannot be read during a scan loses its row and ratings; a drive pulled between
  `_root_is_readable` and the walk makes the sweep delete its albums.

The Windows player:

* The comment at `player.py:102` says that stale ends are dropped by generation; the callback
  reads `_gen` without the lock (`:794`), and one that runs between the bump (`:770`) and the
  new media skips the new song (`late` in `OneEndOneAdvance`).
* A handoff that was to begin paused (`:836`) plays when the crossfade's watcher fires first, or
  when a stale `Playing` event takes `_pause_on_start`.
* A pause just as the song ends, the sleep timer's too, is followed by the next song.
* After a sleep fade a skip, a previous or an enqueue starts a song that nobody hears, for
  `_fade_volume` stays 0.
* Crossfade switched off and on in the watcher's last moment leaves no watcher (`:499`, `:552`).

Downloads, not modelled: REPLACE and resume start a second worker while the stopped one, blocked
in a read, may still append its chunk, so a COMPLETED file can be longer than the book; a whole
file of unknown size is asked for again past its end and answered 416 for ever; a deleted book
is written again by its worker's last chunk.

## Plan

1. Done: bus, clients, scheduled stop, the mailbox and its refinement; book progress; video
   worker; DJ pool with the queue guard; the outro; the music catalogue; the Windows player;
   every safety property of theirs proved.
2. Next: `Downloads` (worker, repository and partial file) and the Android player's queue (the
   local path that is looked up before the media is set, focus against the sleep fade, the
   restored tail of a queue).
3. Then proofs that relate the components: what of `ScheduledStop`'s abstract bus and of
   `DjPool`'s reservations follows from `Renderers`.

## Not modelled

* Android downloads and the Android player: stateful, and next in the plan.
* Ride fallback: one coroutine that announces, waits and posts a pool's first picks; what it
  starts is `DjPool`, and what it posts is a command like an agent's.
* Live loudness: a set of ids in flight under a lock, around an external program.
* Mix, harmonic, energy and context picks; the music-video planner and analysis; tempo,
  loudness, chimes and noise: floating-point scoring and signal processing, which the model
  checker has no numbers for. They decide which song or which cut, not when or whether.
* Accounts and tokens: one lookup per request. The remaining routes: reads, or single rows in
  one transaction.
* MCP server and DJ toolkit, the web client, the Android screens: they call the bus and format
  what it answers, and keep no state that others write.
* The book and meditation scanners, metadata, cover art, cue sheets, migrations: sequential,
  over files and one transaction.

The list with reasons is in `PROJECT.json`.
