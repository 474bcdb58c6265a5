---------------------------- MODULE ScheduledStop ----------------------------
(***************************************************************************)
(* The stops the DJ can trust (server/audiplex/scheduled_stop.py): one job *)
(* that ends the music after the current song or by a fade, ticks twice a  *)
(* second, and says YES only when the device reports silence; and the      *)
(* latch that keeps agents from refilling the queue meanwhile.             *)
(*                                                                         *)
(* The bus is a mailbox here: commands are handed out in order, again when *)
(* they were not acked in time, and the phone runs each id once.           *)
(* run_ticker and the gate run on the event loop, arming and DELETE on     *)
(* worker threads, so a tick is a step that reads the job and steps that   *)
(* act on what was read, and arming sets the latch in a step of its own.   *)
(***************************************************************************)
EXTENDS Integers, Sequences, FiniteSetsExt

CONSTANTS
  Modes,          \* bound: the modes stops are armed in
  Requests,       \* bound: what else people and agents ask the server for
  SongLength,     \* ticks a song lasts
  TrimAckWait,    \* TRIM_ACK_WAIT_S, in ticks
  PauseLead,      \* PAUSE_LEAD_S, in ticks
  EndGrace,       \* END_GRACE_S, in ticks
  VerifyWindow,   \* VERIFY_WINDOW_S, in ticks
  FadeWait,       \* ticks from arming a fade to its first step
  FadeTicks,      \* ticks a fade takes, one volume step each
  Loud,           \* the volume the music starts with, and 1.0
  RedeliverAfter, \* REDELIVER_AFTER_SECONDS of the bus, in ticks
  MaxArms,        \* bound: stops armed
  MaxRequests,    \* bound: other requests made
  MaxLosses,      \* bound: responses and acks the network loses
  MaxDisturbed,   \* bound: requests and losses together
  Taps            \* bound: whether somebody uses the phone itself, once

ASSUME StopAssumption ==
  /\ Modes \subseteq {"after_current", "fade"}
  /\ Requests \subseteq {"clear", "queue", "play"}
  /\ {SongLength, TrimAckWait, EndGrace, VerifyWindow, FadeTicks, Loud,
      RedeliverAfter} \subseteq Nat \ {0}
  /\ {PauseLead, FadeWait, MaxArms, MaxRequests, MaxLosses,
      MaxDisturbed} \subseteq Nat
  /\ Taps \in BOOLEAN

VARIABLES
  job,      \* controller.job, NoJob if none is armed
  verdict,  \* what controller.last says, "none" before the first
  latch,    \* controller.latch is set
  arming,   \* a worker thread has armed a stop and not yet set the latch
  ticking,  \* how far a tick has come and the job it holds
  report,   \* the phone's last report, and its age
  mail,     \* the commands on the bus, in the order of their ids
  phone,    \* the phone's player
  ran,      \* the commands the app remembers having run, with their outcome
  snap,     \* a report the phone sampled and is still posting, or NoSnap
  arms, requests, losses, \* counters of the bounds
  touched   \* history: somebody has used the phone itself

serverVars == <<job, verdict, latch, arming, ticking>>
phoneVars == <<phone, ran, snap>>
bounds == <<arms, requests, losses>>
vars == <<serverVars, report, mail, phoneVars, bounds, touched>>

NoJob == [mode |-> "none"]
Idle == [op |-> "idle"]
NoSnap == [song |-> -1]

Songs == 0 .. 2   \* nothing loaded, the song that plays first, any later one
Kinds == {"trim", "exact", "unexact", "pause", "volume", "queue", "play"}
Answers == {"ok", "failed"}
Volumes == 0 .. Loud
MaxAge == Max({TrimAckWait, VerifyWindow, FadeWait, FadeTicks})

\* self.job; `age` counts from armed_at, fade_start or action_at, whichever the
\* phase looks at, and `heard` says that a report has come in since.
Job == [mode: {"after_current", "fade"}, id: Nat,
        phase: {"trimming", "await_end", "waiting", "fading", "verifying"},
        song: Songs, trimCmd: Nat, trimmed: BOOLEAN, pauseCmd: Nat,
        volume: Volumes, step: -1 .. FadeTicks, age: 0 .. MaxAge, heard: BOOLEAN]

Player == [playing: BOOLEAN, song: Songs, left: 0 .. SongLength,
           upcoming: BOOLEAN, volume: Volumes, oneshot: BOOLEAN]
Sampled == [playing: BOOLEAN, song: Songs, left: 0 .. SongLength, volume: Volumes]
Command == [kind: Kinds, volume: Volumes, ack: Answers \cup {"none"},
            status: {"queued", "delivered", "settled"}, age: 0 .. RedeliverAfter]

TypeOK ==
  /\ job \in Job \cup {NoJob}
  /\ verdict \in {"none", "YES", "NO", "refused", "cancelled"}
  /\ latch \in BOOLEAN /\ arming \in BOOLEAN
  /\ ticking \in {Idle} \cup [op: {"act", "verify"}, job: Job]
  /\ report \in [state: Sampled, age: 0 .. SongLength + EndGrace]
  /\ mail \in Seq(Command)
  /\ phone \in Player
  /\ ran \subseteq (DOMAIN mail) \X Answers
  /\ snap \in Sampled \cup {NoSnap}
  /\ job # NoJob => {job.trimCmd, job.pauseCmd} \subseteq 0 .. Len(mail)

-----------------------------------------------------------------------------
(* Helpers *)

Cmd(kind) == [kind |-> kind, volume |-> 0, ack |-> "none",
              status |-> "queued", age |-> 0]
Volume(v) == [Cmd("volume") EXCEPT !.volume = v]

\* What _finish sends: the volume as it was, and the end of the one-shot pause.
Leftovers(j) ==
  CASE j.mode = "fade" /\ j.phase # "waiting" -> <<Volume(j.volume)>>
    [] j.mode = "after_current" -> <<Cmd("unexact")>>
    [] OTHER -> <<>>

\* _finish: it ends the job the controller has now.
Finish(why) ==
  /\ job' = NoJob
  /\ IF job = NoJob
     THEN UNCHANGED <<mail, verdict>>
     ELSE /\ mail' = mail \o Leftovers(job)
          /\ verdict' = why

RemainingSinceArmed(r) ==
  IF r.state.playing THEN r.state.left - ticking.job.age ELSE r.state.left

RemainingAsReported(r) == r.state.left

\* remaining_s: the reported position, moved on while it said playing.
Remaining(r) == IF r.state.playing THEN r.state.left - r.age ELSE r.state.left

OwedOnce(k) == mail[k].status = "queued"

\* _claim: new, or delivered long enough ago and not acked.
Owed(k) ==
  \/ mail[k].status = "queued"
  \/ mail[k].status = "delivered" /\ mail[k].age >= RedeliverAfter

FirstOwed(k) == Owed(k) /\ \A j \in 1 .. k - 1 : ~Owed(j)

-----------------------------------------------------------------------------
(* Requests *)

NewJob(mode, phase) ==
  [mode |-> mode, id |-> arms + 1, phase |-> phase, song |-> report.state.song,
   trimCmd |-> 0, trimmed |-> FALSE, pauseCmd |-> 0, volume |-> 0, step |-> -1,
   age |-> 0, heard |-> FALSE]

\* The mail and the verdict once a new stop, or a start, has ended the old one.
Before == IF job = NoJob THEN mail ELSE mail \o Leftovers(job)
Ended == IF job = NoJob THEN verdict ELSE "cancelled"

\* arm_after_current.  The last song stands for any later one, so none is armed
\* on it.
ArmAfterCurrent ==
  /\ "after_current" \in Modes
  /\ arms < MaxArms
  /\ ~arming
  /\ report.state.playing
  /\ report.state.song = 1
  /\ mail' = Before \o <<Cmd("trim"), Cmd("exact")>>
  /\ job' = [NewJob("after_current", "trimming") EXCEPT !.trimCmd = Len(Before) + 1]
  /\ verdict' = Ended
  /\ arming' = TRUE
  /\ arms' = arms + 1
  /\ UNCHANGED <<latch, ticking, report, phoneVars, requests, losses, touched>>

\* ... set_latch, once the pool has been stopped.
ArmLatch ==
  /\ arming
  /\ latch' = TRUE
  /\ arming' = FALSE
  /\ UNCHANGED <<job, verdict, ticking, report, mail, phoneVars, bounds, touched>>

ArmFade ==
  /\ "fade" \in Modes
  /\ arms < MaxArms
  /\ mail' = Before
  /\ job' = NewJob("fade", "waiting")
  /\ verdict' = Ended
  /\ arms' = arms + 1
  /\ UNCHANGED <<latch, arming, ticking, report, phoneVars, requests,
                 losses, touched>>

Request(kind) ==
  /\ kind \in Requests
  /\ requests < MaxRequests /\ requests + losses < MaxDisturbed
  /\ requests' = requests + 1
  /\ UNCHANGED <<arming, ticking, report, phoneVars, arms, losses, touched>>

\* DELETE /scheduled-stop: clear().
Clear == Request("clear") /\ latch' = FALSE /\ Finish("cancelled")

\* POST /command of an explicit start: gate() clears the stop, then the start
\* is enqueued.  The event loop is not in the middle of a tick.
PostStart ==
  /\ Request("play")
  /\ ticking = Idle
  /\ latch' = FALSE
  /\ job' = NoJob
  /\ mail' = Append(Before, Cmd("play"))
  /\ verdict' = Ended

\* POST /command of a refill: a 409 while latched.
PostRefill ==
  /\ Request("queue")
  /\ ticking = Idle
  /\ ~latch
  /\ mail' = Append(mail, Cmd("queue"))
  /\ UNCHANGED <<job, verdict, latch>>

-----------------------------------------------------------------------------
(* The ticker *)

TickBegin ==
  /\ ticking = Idle
  /\ job # NoJob
  /\ ticking' = [op |-> IF job.phase = "verifying" THEN "verify" ELSE "act",
                 job |-> job]
  /\ UNCHANGED <<job, verdict, latch, arming, report, mail, phoneVars, bounds, touched>>

\* The job this tick holds becomes j and cmds are sent for it, whether or not
\* the controller still has it; then the controller's job is verified.
Drive(j, cmds) ==
  /\ mail' = mail \o cmds
  /\ job' = IF job # NoJob /\ job.id = j.id THEN j ELSE job
  /\ ticking' = IF job' # NoJob /\ job'.phase = "verifying"
                THEN [op |-> "verify", job |-> job'] ELSE Idle
  /\ UNCHANGED <<verdict, arming, report, phoneVars, bounds, touched>>

VerifyingNext(j, before) ==
  [j EXCEPT !.phase = "verifying", !.pauseCmd = Len(mail) + before + 2,
            !.age = 0, !.heard = FALSE]

\* _start_verify with a pause, sent after `before` other commands.
Verifying(j, before) ==
  [j EXCEPT !.phase = "verifying", !.pauseCmd = Len(mail) + before + 1,
            !.age = 0, !.heard = FALSE]

\* The answer to replace_upcoming, or none in time.
Trimmed(j) ==
  CASE j.phase = "trimming" /\ mail[j.trimCmd].ack # "none" ->
         [j EXCEPT !.phase = "await_end", !.trimmed = mail[j.trimCmd].ack = "ok"]
    [] j.phase = "trimming" /\ mail[j.trimCmd].ack = "none"
         /\ j.age >= TrimAckWait -> [j EXCEPT !.phase = "await_end"]
    [] OTHER -> j

\* _tick_after_current.
TickAfterCurrent ==
  LET j == Trimmed(ticking.job)
      itself == ~report.state.playing /\ j.heard
      due == \/ report.state.song # j.song
             \/ Remaining(report) <= IF j.trimmed THEN -EndGrace ELSE PauseLead
  IN  /\ ticking.op = "act"
      /\ j.mode = "after_current"
      /\ \/ itself /\ Drive([j EXCEPT !.phase = "verifying"], <<>>)
         \/ ~itself /\ due /\ Drive(Verifying(j, 0), <<Cmd("pause")>>)
         \/ ~itself /\ ~due /\ Drive(j, <<>>)
      /\ UNCHANGED latch

\* The first step of a fade takes the reported volume for the one to restore.
Fading(j) ==
  IF j.phase = "waiting"
  THEN [j EXCEPT !.phase = "fading", !.age = 0, !.volume =
          IF report.state.volume > 0 THEN report.state.volume ELSE Loud]
  ELSE j

\* _tick_fade: one volume step a tick, then silence, a pause and the latch.
TickFade ==
  LET j == Fading(ticking.job)
      level == (j.volume * (FadeTicks - j.age)) \div FadeTicks
      early == ticking.job.phase = "waiting" /\ ticking.job.age < FadeWait
  IN  /\ ticking.op = "act"
      /\ ticking.job.mode = "fade"
      /\ \/ early /\ Drive(ticking.job, <<>>) /\ UNCHANGED latch
         \/ /\ ~early /\ j.age >= FadeTicks
            /\ Drive(Verifying(j, 1), <<Volume(0), Cmd("pause")>>)
            /\ latch' = TRUE
         \/ /\ ~early /\ j.age < FadeTicks /\ j.step < j.age
            /\ Drive([j EXCEPT !.step = j.age], <<Volume(level)>>)
            /\ UNCHANGED latch
         \/ /\ ~early /\ j.age < FadeTicks /\ j.step >= j.age
            /\ Drive(j, <<>>) /\ UNCHANGED latch

\* _tick_verify: what it concludes of the job it holds ends the one there is.  A
\* report that came half a second before the action counts as one after it.
TickVerify ==
  LET j == ticking.job
      refused == j.pauseCmd # 0 /\ mail[j.pauseCmd].ack = "failed"
  IN  /\ ticking.op = "verify"
      /\ \E lately \in {FALSE, report.age = j.age} :
           LET silent == ~report.state.playing /\ (j.heard \/ lately)
           IN  \/ refused /\ Finish("refused")
               \/ ~refused /\ silent /\ Finish("YES")
               \/ ~refused /\ ~silent /\ j.age >= VerifyWindow /\ Finish("NO")
               \/ /\ ~refused /\ ~silent /\ j.age < VerifyWindow
                  /\ UNCHANGED <<job, verdict, mail>>
      /\ ticking' = Idle
      /\ UNCHANGED <<latch, arming, report, phoneVars, bounds, touched>>

\* LATCH_TTL_S is over, whether or not the song is.
LatchExpires ==
  /\ latch
  /\ latch' = FALSE
  /\ UNCHANGED <<job, verdict, arming, ticking, report, mail, phoneVars, bounds, touched>>

-----------------------------------------------------------------------------
(* The bus and the phone *)

\* A player may have no music queue, not know a command, or refuse to pause.
MayFail == {"trim", "exact", "pause"}

Effect(c) ==
  CASE c.kind = "trim" -> [phone EXCEPT !.upcoming = FALSE]
    [] c.kind = "exact" -> [phone EXCEPT !.oneshot = phone.song # 0]
    [] c.kind = "unexact" -> [phone EXCEPT !.oneshot = FALSE]
    [] c.kind = "pause" -> [phone EXCEPT !.playing = FALSE]
    [] c.kind = "volume" -> [phone EXCEPT !.volume = c.volume]
    [] c.kind = "queue" /\ phone.song # 0 -> [phone EXCEPT !.upcoming = TRUE]
    [] OTHER -> [phone EXCEPT !.playing = TRUE, !.song = 2, !.left = SongLength,
                              !.upcoming = c.kind = "play", !.oneshot = FALSE]

\* The phone runs command k, unless it has, and comes to the answer a.
Run(k, a) ==
  \/ /\ <<k, a>> \in ran
     /\ UNCHANGED <<phone, ran>>
  \/ /\ \A b \in Answers : <<k, b>> \notin ran
     /\ a = "failed" => mail[k].kind \in MayFail
     /\ phone' = IF a = "ok" THEN Effect(mail[k]) ELSE phone
     /\ ran' = ran \cup {<<k, a>>}

\* A command is handed out, run and acked; a slow ack is one that is lost first.
Receive(k) ==
  /\ FirstOwed(k)
  /\ \E a \in Answers :
       /\ Run(k, a)
       /\ mail' = [mail EXCEPT ![k].status = "settled", ![k].ack = a, ![k].age = 0]
  /\ UNCHANGED <<serverVars, report, snap, bounds, touched>>

\* The response is lost, or the ack of what the phone did run.
Lose(k) ==
  /\ FirstOwed(k)
  /\ losses < MaxLosses /\ requests + losses < MaxDisturbed
  /\ losses' = losses + 1
  /\ \/ UNCHANGED <<phone, ran>>
     \/ \E a \in Answers : Run(k, a)
  /\ mail' = [mail EXCEPT ![k].status = "delivered", ![k].age = 0]
  /\ UNCHANGED <<serverVars, report, snap, arms, requests, touched>>

Now == [playing |-> phone.playing, song |-> phone.song, left |-> phone.left,
        volume |-> phone.volume]

\* The report loop samples the player, then posts what it sampled.
Sample ==
  /\ snap = NoSnap
  /\ Now # report.state
  /\ snap' = Now
  /\ UNCHANGED <<serverVars, report, mail, phone, ran, bounds, touched>>

\* A report that comes during a tick may as well come after it: the tick has
\* read the state before it acts.
Post ==
  /\ snap # NoSnap
  /\ ticking = Idle
  /\ report' = [state |-> snap, age |-> 0]
  /\ job' = IF job = NoJob THEN job ELSE [job EXCEPT !.heard = TRUE]
  /\ snap' = NoSnap
  /\ UNCHANGED <<verdict, latch, arming, ticking, mail, phone, ran, bounds, touched>>

SongEnds ==
  /\ phone.playing
  /\ phone.left = 0
  /\ phone' = CASE phone.upcoming ->
                     [phone EXCEPT !.song = 2, !.left = SongLength,
                                   !.playing = ~phone.oneshot, !.oneshot = FALSE]
                [] OTHER -> [phone EXCEPT !.playing = FALSE, !.oneshot = FALSE]
  /\ UNCHANGED <<serverVars, report, mail, ran, snap, bounds, touched>>

\* Somebody pauses or resumes on the phone itself.
Tap ==
  /\ Taps
  /\ ~touched
  /\ phone.song # 0
  /\ phone' = [phone EXCEPT !.playing = ~@]
  /\ touched' = TRUE
  /\ UNCHANGED <<serverVars, report, mail, ran, snap, bounds>>

\* The app is killed and forgets what it has run; the volume is a saved setting.
Kill ==
  /\ Taps
  /\ ~touched
  /\ phone' = [playing |-> FALSE, song |-> 0, left |-> 0, upcoming |-> FALSE,
               volume |-> phone.volume, oneshot |-> FALSE]
  /\ ran' = {}
  /\ snap' = NoSnap
  /\ touched' = TRUE
  /\ UNCHANGED <<serverVars, report, mail, bounds>>

Older(age, most) == IF age < most THEN age + 1 ELSE age

Clock ==
  /\ ticking = Idle
  /\ ~arming
  /\ phone.playing => phone.left > 0
  /\ phone' = IF phone.playing THEN [phone EXCEPT !.left = @ - 1] ELSE phone
  /\ report' = [report EXCEPT !.age = Older(@, SongLength + EndGrace)]
  /\ job' = IF job = NoJob THEN job ELSE [job EXCEPT !.age = Older(@, MaxAge)]
  /\ mail' = [k \in DOMAIN mail |->
                IF mail[k].status = "delivered"
                THEN [mail[k] EXCEPT !.age = Older(@, RedeliverAfter)]
                ELSE mail[k]]
  /\ UNCHANGED <<verdict, latch, arming, ticking, ran, snap, bounds, touched>>

-----------------------------------------------------------------------------
\* The first song of a queue plays at full volume, as the phone has reported.
Init ==
  /\ job = NoJob
  /\ verdict = "none"
  /\ latch = FALSE
  /\ arming = FALSE
  /\ ticking = Idle
  /\ mail = <<>>
  /\ phone = [playing |-> TRUE, song |-> 1, left |-> SongLength,
              upcoming |-> TRUE, volume |-> Loud, oneshot |-> FALSE]
  /\ report = [state |-> Now, age |-> 0]
  /\ ran = {}
  /\ snap = NoSnap
  /\ arms = 0
  /\ requests = 0
  /\ losses = 0
  /\ touched = FALSE

Ticker == TickBegin \/ TickAfterCurrent \/ TickFade \/ TickVerify

Hears == \E k \in DOMAIN mail : Receive(k)

Next ==
  \/ ArmAfterCurrent \/ ArmLatch \/ ArmFade
  \/ Clear \/ PostStart \/ PostRefill
  \/ Ticker \/ LatchExpires
  \/ Hears \/ (\E k \in DOMAIN mail : Lose(k))
  \/ Sample \/ Post
  \/ SongEnds \/ Tap \/ Kill
  \/ Clock

Spec == Init /\ [][Next]_vars

\* The server's ticker and threads run on, time passes and songs end.  Nothing
\* is assumed of the phone or the network.
LiveSpec ==
  /\ Spec
  /\ WF_vars(ArmLatch)
  /\ WF_vars(Ticker)
  /\ WF_vars(SongEnds)
  /\ SF_vars(Clock)

-----------------------------------------------------------------------------
(* Properties *)

\* What run_ticker and tick() are for: every armed stop reaches a verdict, even
\* when the phone neither answers nor reports any more.
Verdict == (job # NoJob) ~> (job = NoJob)

\* The device refused a pause.
PauseRefused == \E k \in DOMAIN mail : mail[k].kind = "pause" /\ <<k, "failed">> \in ran

\* The module docstring: a stop job "does the stopping itself".  With a phone
\* that hears commands in the end, an armed stop silences it, whatever it makes
\* of the trim and the one-shot pause; unless the stop was cancelled, the device
\* refused to pause, or somebody used the phone.
MusicStops ==
  WF_vars(Hears)
  => (job # NoJob /\ ~touched
        ~> ~phone.playing \/ verdict = "cancelled" \/ PauseRefused \/ touched)

\* The current song is never cut short: the server's idea of where it is, from
\* late reports and its own clock, is never ahead of the phone.
NeverEarly ==
  [][/\ ticking # Idle
     /\ ticking.job.mode = "after_current"
     /\ Len(mail') > Len(mail)
     /\ mail'[Len(mail')].kind = "pause"
     /\ ~touched
     => \/ ~phone.playing
        \/ phone.song # ticking.job.song
        \/ phone.left <= PauseLead]_vars
=============================================================================
