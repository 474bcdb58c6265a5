------------------------- MODULE ScheduledStopProofs -------------------------
(* A stop after the current song never cuts it short, for every length of the *)
(* songs, every lead, grace and timeout, and any number of stops, requests and *)
(* losses.                                                                     *)
EXTENDS ScheduledStop, TLAPS

-----------------------------------------------------------------------------
(* What the constructors return *)

LEMMA MaxAgeCovers ==
  /\ MaxAge \in Nat
  /\ TrimAckWait <= MaxAge /\ VerifyWindow <= MaxAge
  /\ FadeWait <= MaxAge /\ FadeTicks <= MaxAge
<1> DEFINE S == {TrimAckWait, VerifyWindow, FadeWait, FadeTicks}
<1>1. S \subseteq Nat
  BY StopAssumption
<1>2. \E x \in S : \A y \in S : x >= y
  <2>1. \A a, b \in Nat : \E x \in {a, b} : x >= a /\ x >= b
    OBVIOUS
  <2>2. PICK x \in {TrimAckWait, VerifyWindow} : x >= TrimAckWait /\ x >= VerifyWindow
    BY <2>1, StopAssumption
  <2>3. PICK y \in {FadeWait, FadeTicks} : y >= FadeWait /\ y >= FadeTicks
    BY <2>1, StopAssumption
  <2>4. PICK z \in {x, y} : z >= x /\ z >= y
    BY <2>1, <2>2, <2>3, StopAssumption
  <2>5. z \in S /\ \A w \in S : z >= w
    BY <2>2, <2>3, <2>4, StopAssumption
  <2> QED
    BY <2>5
<1>3. MaxAge \in S /\ \A y \in S : MaxAge >= y
  BY <1>2 DEF MaxAge, Max
<1> QED
  BY <1>1, <1>3

LEMMA CmdType ==
  ASSUME NEW kind \in Kinds
  PROVE  /\ Cmd(kind) \in Command /\ Cmd(kind).kind = kind
         /\ Cmd(kind).ack = "none"
<1>1. 0 \in Volumes /\ 0 \in 0 .. RedeliverAfter
  BY StopAssumption DEF Volumes
<1> QED
  BY <1>1 DEF Cmd, Command

LEMMA VolumeType ==
  ASSUME NEW v \in Volumes
  PROVE  Volume(v) \in Command /\ Volume(v).kind = "volume"
<1>1. Cmd("volume") \in Command /\ Cmd("volume").kind = "volume"
  BY CmdType DEF Kinds
<1> QED
  BY <1>1 DEF Volume, Command

\* What ends a job never ends in a pause.
LEMMA LeftoversType ==
  ASSUME NEW j \in Job
  PROVE  /\ Leftovers(j) \in Seq(Command)
         /\ Leftovers(j) = <<>> \/ (Len(Leftovers(j)) = 1 /\ Leftovers(j)[1].kind # "pause")
<1>1. Volume(j.volume) \in Command /\ Volume(j.volume).kind = "volume"
  BY VolumeType DEF Job
<1>2. Cmd("unexact") \in Command /\ Cmd("unexact").kind = "unexact"
  BY CmdType DEF Kinds
<1>3. j.mode \in {"after_current", "fade"}
  BY DEF Job
<1>4. Leftovers(j) \in {<<Volume(j.volume)>>, <<Cmd("unexact")>>, <<>>}
  BY <1>3 DEF Leftovers
<1>5. \A c \in Command : /\ <<c>> \in Seq(Command) /\ Len(<<c>>) = 1
                          /\ <<c>>[1] = c
  OBVIOUS
<1>6. \A c \in {Volume(j.volume), Cmd("unexact")} :
        <<c>> \in Seq(Command) /\ Len(<<c>>) = 1 /\ <<c>>[1].kind # "pause"
  BY <1>1, <1>2, <1>5
<1>7. <<>> \in Seq(Command)
  OBVIOUS
<1> HIDE DEF Leftovers
<1> QED
  BY <1>4, <1>6, <1>7

LEMMA NoCommands == \E none \in Seq(Command) : none = <<>> /\ Len(none) = 0
<1>1. <<>> \in Seq(Command)
  OBVIOUS
<1>2. Len(<<>>) = 0
  OBVIOUS
<1> QED
  BY <1>1, <1>2, Zenon

LEMMA BeforeType ==
  ASSUME TypeOK
  PROVE  /\ Before \in Seq(Command) /\ Len(Before) \in Nat /\ Len(Before) >= Len(mail)
         /\ Ended \in {"none", "YES", "NO", "refused", "cancelled"}
<1>1. mail \in Seq(Command) /\ (job # NoJob => Leftovers(job) \in Seq(Command))
  BY LeftoversType DEF TypeOK
<1>2. job # NoJob => /\ mail \o Leftovers(job) \in Seq(Command)
                     /\ Len(mail \o Leftovers(job)) >= Len(mail)
  BY <1>1
<1> QED
  BY <1>1, <1>2 DEF Before, Ended, TypeOK

LEMMA NewJobType ==
  ASSUME TypeOK, NEW mode \in {"after_current", "fade"},
         NEW phase \in {"trimming", "waiting"}, arms \in Nat
  PROVE  /\ NewJob(mode, phase) \in Job
         /\ NewJob(mode, phase).song = report.state.song
         /\ NewJob(mode, phase).mode = mode
         /\ NewJob(mode, phase).trimCmd = 0 /\ NewJob(mode, phase).pauseCmd = 0
<1>1. report.state.song \in Songs
  BY DEF TypeOK, Sampled
<1>2. 0 \in Volumes /\ -1 \in -1 .. FadeTicks /\ 0 \in 0 .. MaxAge /\ arms + 1 \in Nat
  BY MaxAgeCovers, StopAssumption DEF Volumes
<1> QED
  BY <1>1, <1>2 DEF NewJob, Job

\* The job a tick drives on is the one it holds: same stop, same song.
Same(j, k) == j.id = k.id /\ j.mode = k.mode /\ j.song = k.song

LEMMA VerifyingType ==
  ASSUME NEW j \in Job, NEW before \in Nat, mail \in Seq(Command)
  PROVE  /\ Verifying(j, before) \in Job /\ Same(Verifying(j, before), j)
         /\ Verifying(j, before).trimCmd = j.trimCmd
         /\ Verifying(j, before).pauseCmd = Len(mail) + before + 1
<1>1. Len(mail) + before + 1 \in Nat /\ 0 \in 0 .. MaxAge
  BY MaxAgeCovers
<1> QED
  BY <1>1 DEF Verifying, Job, Same

LEMMA TrimmedType ==
  ASSUME NEW j \in Job
  PROVE  /\ Trimmed(j) \in Job /\ Same(Trimmed(j), j)
         /\ Trimmed(j).trimCmd = j.trimCmd /\ Trimmed(j).pauseCmd = j.pauseCmd
         /\ Trimmed(j).heard = j.heard
<1>1. (mail[j.trimCmd].ack = "ok") \in BOOLEAN
  OBVIOUS
<1>2. PICK b \in BOOLEAN :
        Trimmed(j) \in {j, [j EXCEPT !.phase = "await_end", !.trimmed = b],
                        [j EXCEPT !.phase = "await_end"]}
  BY <1>1 DEF Trimmed
<1> HIDE DEF Trimmed
<1> QED
  BY <1>2 DEF Job, Same

LEMMA FadingType ==
  ASSUME TypeOK, NEW j \in Job
  PROVE  /\ Fading(j) \in Job /\ Same(Fading(j), j)
         /\ Fading(j).trimCmd = j.trimCmd /\ Fading(j).pauseCmd = j.pauseCmd
<1>1. report.state.volume \in Volumes /\ Loud \in Volumes /\ 0 \in 0 .. MaxAge
  BY MaxAgeCovers, StopAssumption DEF TypeOK, Sampled, Volumes
<1>2. PICK v \in Volumes :
        Fading(j) \in {j, [j EXCEPT !.phase = "fading", !.age = 0, !.volume = v]}
  BY <1>1 DEF Fading
<1> HIDE DEF Fading
<1> QED
  BY <1>1, <1>2 DEF Job, Same

\* A step of a fade is a volume between silence and the one it started from.
LEMMA LevelType ==
  ASSUME NEW v \in Nat, NEW ticks \in Nat, NEW age \in Nat, age < ticks
  PROVE  (v * (ticks - age)) \div ticks \in 0 .. v
<1> DEFINE p == v * (ticks - age)
           q == p \div ticks
<1>1. ticks - age \in Nat /\ ticks - age <= ticks /\ ticks > 0
  OBVIOUS
<1>2. p \in Nat /\ p <= v * ticks
  <2>1. \A m, n \in Nat : m <= n => v * m <= v * n
    OBVIOUS
  <2>2. \A m \in Nat : v * m \in Nat
    OBVIOUS
  <2> QED
    BY <1>1, <2>1, <2>2
<1>3. \A n \in Nat : /\ n \div ticks \in Nat
                     /\ n <= v * ticks => n \div ticks <= v
  BY <1>1
<1> HIDE DEF p
<1> QED
  BY <1>2, <1>3

-----------------------------------------------------------------------------
(* Type correctness *)

\* The job a tick holds, the controller's or no more, points to commands that
\* are on the bus.
TickKnows ==
  ticking # Idle => {ticking.job.trimCmd, ticking.job.pauseCmd} \subseteq 0 .. Len(mail)

Types == /\ TypeOK /\ TickKnows
         /\ arms \in Nat

LEMMA MailGrows ==
  ASSUME TypeOK, NEW cmds \in Seq(Command), mail' = mail \o cmds
  PROVE  /\ mail' \in Seq(Command)
         /\ Len(mail) \in Nat /\ Len(cmds) \in Nat /\ Len(mail') = Len(mail) + Len(cmds)
         /\ ran \subseteq (DOMAIN mail') \X Answers
         /\ 0 .. Len(mail) \subseteq 0 .. Len(mail')
         /\ \A k \in 1 .. Len(cmds) : mail'[Len(mail) + k] = cmds[k]
<1>1. mail \in Seq(Command) /\ ran \subseteq (DOMAIN mail) \X Answers
  BY DEF TypeOK
<1>2. DOMAIN mail \subseteq DOMAIN mail'
  BY <1>1
<1>3. ran \subseteq (DOMAIN mail') \X Answers
  BY <1>1, <1>2
<1> QED
  BY <1>1, <1>3

\* The controller's job is over and the bus has nothing less.
LEMMA FinishTypes ==
  ASSUME Types, NEW why \in {"YES", "NO", "refused", "cancelled"}, Finish(why),
         ticking' \in {ticking, Idle},
         UNCHANGED <<arming, report, phone, ran, snap, arms>>, latch' \in BOOLEAN
  PROVE  Types'
<1>1. TypeOK /\ (job # NoJob => job \in Job)
  BY DEF Types, TypeOK
<1>2. /\ mail' \in Seq(Command) /\ ran \subseteq (DOMAIN mail') \X Answers
      /\ 0 .. Len(mail) \subseteq 0 .. Len(mail')
  <2>1. CASE job = NoJob
    BY <1>1, <2>1 DEF Finish, TypeOK
  <2>2. CASE job # NoJob
    <3>1. mail' = mail \o Leftovers(job) /\ Leftovers(job) \in Seq(Command)
      BY <1>1, <2>2, LeftoversType DEF Finish
    <3> QED
      BY <1>1, <3>1, MailGrows
  <2> QED
    BY <2>1, <2>2
<1>3. job' = NoJob /\ verdict' \in {"none", "YES", "NO", "refused", "cancelled"}
  BY <1>1 DEF Finish, TypeOK
<1>4. ticking' \in {Idle} \cup [op: {"act", "verify"}, job: Job] /\ TickKnows'
  BY <1>2 DEF Types, TypeOK, TickKnows
<1> QED
  BY <1>2, <1>3, <1>4 DEF Types, TypeOK

\* A step of the tick, with the job it holds become j and cmds sent.
LEMMA DriveTypes ==
  ASSUME Types, NEW j \in Job, NEW cmds \in Seq(Command), Drive(j, cmds),
         {j.trimCmd, j.pauseCmd} \subseteq 0 .. Len(mail) + Len(cmds),
         latch' \in BOOLEAN
  PROVE  Types'
<1>1. /\ mail' \in Seq(Command) /\ ran \subseteq (DOMAIN mail') \X Answers
      /\ 0 .. Len(mail) \subseteq 0 .. Len(mail')
      /\ Len(mail') = Len(mail) + Len(cmds)
  BY MailGrows DEF Types, Drive
<1>2. /\ job' \in Job \cup {NoJob}
      /\ job' # NoJob => {job'.trimCmd, job'.pauseCmd} \subseteq 0 .. Len(mail')
  BY <1>1 DEF Drive, Types, TypeOK
<1>3. ticking' \in {Idle} \cup [op: {"act", "verify"}, job: Job] /\ TickKnows'
  <2>1. CASE job' # NoJob /\ job'.phase = "verifying"
    <3>1. ticking' = [op |-> "verify", job |-> job'] /\ job' \in Job
      BY <1>2, <2>1 DEF Drive
    <3> QED
      BY <1>2, <2>1, <3>1 DEF TickKnows
  <2>2. CASE ~(job' # NoJob /\ job'.phase = "verifying")
    BY <2>2 DEF Drive, TickKnows
  <2> QED
    BY <2>1, <2>2
<1> QED
  BY <1>1, <1>2, <1>3 DEF Types, TypeOK, Drive, phoneVars, bounds

LEMMA ArmTypes ==
  ASSUME Types, ArmAfterCurrent \/ ArmFade
  PROVE  Types'
<1>1. TypeOK /\ arms \in Nat /\ TickKnows
  BY DEF Types
<1>2. /\ Before \in Seq(Command) /\ Len(Before) \in Nat /\ Len(Before) >= Len(mail)
      /\ Ended \in {"none", "YES", "NO", "refused", "cancelled"}
  BY <1>1, BeforeType
<1>3. CASE ArmAfterCurrent
  <2>1. Cmd("trim") \in Command /\ Cmd("exact") \in Command
    BY CmdType DEF Kinds
  <2>2. /\ mail' \in Seq(Command) /\ Len(mail') = Len(Before) + 2
    BY <1>2, <1>3, <2>1 DEF ArmAfterCurrent
  <2>3. NewJob("after_current", "trimming") \in Job
        /\ NewJob("after_current", "trimming").pauseCmd = 0
    BY <1>1, NewJobType
  <2>4. /\ job' \in Job /\ job'.trimCmd = Len(Before) + 1 /\ job'.pauseCmd = 0
    <3>1. job' = [NewJob("after_current", "trimming") EXCEPT !.trimCmd = Len(Before) + 1]
      BY <1>3 DEF ArmAfterCurrent
    <3> QED
      BY <1>2, <2>3, <3>1 DEF Job
  <2>5. DOMAIN mail \subseteq DOMAIN mail' /\ 0 .. Len(mail) \subseteq 0 .. Len(mail')
    BY <1>1, <1>2, <2>2 DEF TypeOK
  <2>6. ran' \subseteq (DOMAIN mail') \X Answers
    BY <1>1, <1>3, <2>5 DEF ArmAfterCurrent, TypeOK, phoneVars
  <2>7. TickKnows' /\ {job'.trimCmd, job'.pauseCmd} \subseteq 0 .. Len(mail')
    BY <1>1, <1>2, <1>3, <2>2, <2>4, <2>5 DEF ArmAfterCurrent, TickKnows
  <2> QED
    BY <1>1, <1>2, <1>3, <2>2, <2>4, <2>6, <2>7
    DEF ArmAfterCurrent, Types, TypeOK, phoneVars
<1>4. CASE ArmFade
  <2>1. job' \in Job /\ job'.trimCmd = 0 /\ job'.pauseCmd = 0
    BY <1>1, <1>4, NewJobType DEF ArmFade
  <2>2. mail' \in Seq(Command) /\ Len(mail') >= Len(mail) /\ Len(mail') \in Nat
    BY <1>2, <1>4 DEF ArmFade
  <2>3. DOMAIN mail \subseteq DOMAIN mail' /\ 0 .. Len(mail) \subseteq 0 .. Len(mail')
    BY <1>1, <2>2 DEF TypeOK
  <2>4. ran' \subseteq (DOMAIN mail') \X Answers
    BY <1>1, <1>4, <2>3 DEF ArmFade, TypeOK, phoneVars
  <2>5. TickKnows' /\ {job'.trimCmd, job'.pauseCmd} \subseteq 0 .. Len(mail')
    BY <1>1, <1>4, <2>1, <2>2, <2>3 DEF ArmFade, TickKnows
  <2> QED
    BY <1>1, <1>2, <1>4, <2>1, <2>2, <2>4, <2>5 DEF ArmFade, Types, TypeOK, phoneVars
<1> QED
  BY <1>3, <1>4

LEMMA RequestTypes ==
  ASSUME Types, Clear \/ PostStart \/ PostRefill
  PROVE  Types'
<1>1. TypeOK /\ arms \in Nat /\ TickKnows
  BY DEF Types
<1>2. CASE Clear
  BY <1>2, FinishTypes DEF Clear, Request, phoneVars
<1>3. CASE PostStart
  <2>1. Before \in Seq(Command) /\ Ended \in {"none", "YES", "NO", "refused", "cancelled"}
        /\ Len(Before) \in Nat /\ Len(Before) >= Len(mail) /\ Cmd("play") \in Command
    BY <1>1, BeforeType, CmdType DEF Kinds
  <2>2. mail' \in Seq(Command) /\ Len(mail') = Len(Before) + 1
    BY <1>3, <2>1 DEF PostStart
  <2>3. DOMAIN mail \subseteq DOMAIN mail'
    BY <1>1, <2>1, <2>2 DEF TypeOK
  <2>4. ran' \subseteq (DOMAIN mail') \X Answers
    BY <1>1, <1>3, <2>3 DEF PostStart, Request, TypeOK, phoneVars
  <2> QED
    BY <1>1, <1>3, <2>1, <2>2, <2>4
    DEF PostStart, Request, Types, TypeOK, TickKnows, phoneVars
<1>4. CASE PostRefill
  <2>1. Cmd("queue") \in Command
    BY CmdType DEF Kinds
  <2>2. mail' \in Seq(Command) /\ Len(mail') = Len(mail) + 1 /\ Len(mail) \in Nat
    BY <1>1, <1>4, <2>1 DEF PostRefill, TypeOK
  <2>3. DOMAIN mail \subseteq DOMAIN mail' /\ 0 .. Len(mail) \subseteq 0 .. Len(mail')
    BY <1>1, <2>2 DEF TypeOK
  <2>4. ran' \subseteq (DOMAIN mail') \X Answers
    BY <1>1, <1>4, <2>3 DEF PostRefill, Request, TypeOK, phoneVars
  <2>5. TickKnows' /\ (job' # NoJob => {job'.trimCmd, job'.pauseCmd} \subseteq 0 .. Len(mail'))
    BY <1>1, <1>4, <2>3 DEF PostRefill, Request, TypeOK, TickKnows
  <2> QED
    BY <1>1, <1>4, <2>2, <2>4, <2>5 DEF PostRefill, Request, Types, TypeOK, phoneVars
<1> QED
  BY <1>2, <1>3, <1>4

\* What the ticker hands to Drive.
LEMMA TickAfterCurrentDrives ==
  ASSUME Types, TickAfterCurrent
  PROVE  \E j \in Job, cmds \in Seq(Command) :
           /\ Drive(j, cmds)
           /\ {j.trimCmd, j.pauseCmd} \subseteq 0 .. Len(mail) + Len(cmds)
           /\ Same(j, ticking.job) /\ j.mode = "after_current"
<1> DEFINE j == Trimmed(ticking.job)
<1>1. /\ ticking.job \in Job /\ mail \in Seq(Command) /\ Len(mail) \in Nat
      /\ {ticking.job.trimCmd, ticking.job.pauseCmd} \subseteq 0 .. Len(mail)
  BY DEF Types, TypeOK, TickKnows, TickAfterCurrent, Idle
<1>2. /\ j \in Job /\ Same(j, ticking.job)
      /\ j.trimCmd = ticking.job.trimCmd /\ j.pauseCmd = ticking.job.pauseCmd
  BY <1>1, TrimmedType
<1>3. j.mode = "after_current"
  BY DEF TickAfterCurrent
<1>4. \/ Drive([j EXCEPT !.phase = "verifying"], <<>>)
      \/ Drive(Verifying(j, 0), <<Cmd("pause")>>)
      \/ Drive(j, <<>>)
  BY DEF TickAfterCurrent
<1>0. PICK none \in Seq(Command) : none = <<>> /\ Len(none) = 0
  BY NoCommands
<1> HIDE DEF j
<1>5. CASE Drive([j EXCEPT !.phase = "verifying"], <<>>)
  <2> DEFINE k == [j EXCEPT !.phase = "verifying"]
  <2>1. k \in Job /\ Same(k, ticking.job) /\ k.mode = "after_current"
        /\ k.trimCmd = j.trimCmd /\ k.pauseCmd = j.pauseCmd
    BY <1>2, <1>3 DEF Job, Same
  <2> HIDE DEF k
  <2>2. Drive(k, none)
    BY <1>0, <1>5 DEF k
  <2>3. {k.trimCmd, k.pauseCmd} \subseteq 0 .. Len(mail) + Len(none)
    BY <1>0, <1>1, <1>2, <2>1
  <2> QED
    BY <2>1, <2>2, <2>3
<1>6. CASE Drive(Verifying(j, 0), <<Cmd("pause")>>)
  <2>1. Cmd("pause") \in Command
    BY CmdType DEF Kinds
  <2>2. <<Cmd("pause")>> \in Seq(Command) /\ Len(<<Cmd("pause")>>) = 1
    BY <2>1
  <2>3. /\ Verifying(j, 0) \in Job /\ Same(Verifying(j, 0), j)
        /\ Verifying(j, 0).trimCmd = j.trimCmd
        /\ Verifying(j, 0).pauseCmd = Len(mail) + 0 + 1
    BY <1>1, <1>2, VerifyingType
  <2>4. Same(Verifying(j, 0), ticking.job) /\ Verifying(j, 0).mode = "after_current"
    BY <1>2, <1>3, <2>3 DEF Same
  <2>5. {Verifying(j, 0).trimCmd, Verifying(j, 0).pauseCmd} \subseteq 0 .. Len(mail) + 1
    BY <1>1, <1>2, <2>3
  <2> QED
    BY <1>6, <2>2, <2>3, <2>4, <2>5
<1>7. CASE Drive(j, <<>>)
  <2>1. Drive(j, none)
    BY <1>0, <1>7
  <2>2. {j.trimCmd, j.pauseCmd} \subseteq 0 .. Len(mail) + Len(none)
    BY <1>0, <1>1, <1>2
  <2> QED
    BY <1>2, <1>3, <2>1, <2>2
<1> QED
  BY <1>4, <1>5, <1>6, <1>7

LEMMA TickFadeDrives ==
  ASSUME Types, TickFade
  PROVE  \E j \in Job, cmds \in Seq(Command) :
           /\ Drive(j, cmds)
           /\ {j.trimCmd, j.pauseCmd} \subseteq 0 .. Len(mail) + Len(cmds)
           /\ Same(j, ticking.job) /\ j.mode = "fade"
<1> DEFINE j == Fading(ticking.job)
           level == (j.volume * (FadeTicks - j.age)) \div FadeTicks
<1>1. /\ ticking.job \in Job /\ mail \in Seq(Command) /\ Len(mail) \in Nat
      /\ {ticking.job.trimCmd, ticking.job.pauseCmd} \subseteq 0 .. Len(mail)
      /\ ticking.job.mode = "fade"
  BY DEF Types, TypeOK, TickKnows, TickFade, Idle
<1>2. /\ j \in Job /\ Same(j, ticking.job) /\ j.mode = "fade"
      /\ j.trimCmd = ticking.job.trimCmd /\ j.pauseCmd = ticking.job.pauseCmd
  BY <1>1, FadingType DEF Types, Same
<1>3. \/ Drive(ticking.job, <<>>)
      \/ Drive(Verifying(j, 1), <<Volume(0), Cmd("pause")>>)
      \/ j.age < FadeTicks /\ Drive([j EXCEPT !.step = j.age], <<Volume(level)>>)
      \/ Drive(j, <<>>)
  BY DEF TickFade
<1>4. PICK none \in Seq(Command) : none = <<>> /\ Len(none) = 0
  BY NoCommands
<1>5. CASE Drive(ticking.job, <<>>)
  <2>1. Drive(ticking.job, none)
    BY <1>4, <1>5
  <2>2. {ticking.job.trimCmd, ticking.job.pauseCmd} \subseteq 0 .. Len(mail) + Len(none)
    BY <1>1, <1>4
  <2>3. Same(ticking.job, ticking.job)
    BY DEF Same
  <2> QED
    BY <1>1, <2>1, <2>2, <2>3
<1>6. CASE Drive(Verifying(j, 1), <<Volume(0), Cmd("pause")>>)
  <2>1. Cmd("pause") \in Command /\ Volume(0) \in Command
    BY CmdType, VolumeType, StopAssumption DEF Kinds, Volumes
  <2>2. /\ <<Volume(0), Cmd("pause")>> \in Seq(Command)
        /\ Len(<<Volume(0), Cmd("pause")>>) = 2
    BY <2>1
  <2> HIDE DEF j
  <2>3. /\ Verifying(j, 1) \in Job /\ Same(Verifying(j, 1), j)
        /\ Verifying(j, 1).trimCmd = j.trimCmd
        /\ Verifying(j, 1).pauseCmd = Len(mail) + 1 + 1
    BY <1>1, <1>2, VerifyingType
  <2>4. Same(Verifying(j, 1), ticking.job) /\ Verifying(j, 1).mode = "fade"
    BY <1>2, <2>3 DEF Same
  <2>5. {Verifying(j, 1).trimCmd, Verifying(j, 1).pauseCmd} \subseteq 0 .. Len(mail) + 2
    BY <1>1, <1>2, <2>3
  <2> QED
    BY <1>6, <2>2, <2>3, <2>4, <2>5
<1>7. CASE j.age < FadeTicks /\ Drive([j EXCEPT !.step = j.age], <<Volume(level)>>)
  <2> DEFINE k == [j EXCEPT !.step = j.age]
  <2> HIDE DEF j
  <2>1. j.volume \in Nat /\ j.volume <= Loud /\ j.age \in Nat /\ FadeTicks \in Nat
        /\ Loud \in Nat
    BY <1>2, StopAssumption DEF Job, Volumes
  <2>2. level \in 0 .. j.volume
    BY <1>7, <2>1, LevelType
  <2> HIDE DEF level
  <2>3. Volume(level) \in Command
    <3>1. level \in Volumes
      BY <2>1, <2>2 DEF Volumes
    <3> QED
      BY <3>1, VolumeType
  <2>4. k \in Job /\ Same(k, j) /\ k.trimCmd = j.trimCmd /\ k.pauseCmd = j.pauseCmd
    <3>1. j.age \in -1 .. FadeTicks
      BY <1>7, <2>1
    <3> QED
      BY <1>2, <3>1 DEF Job, Same
  <2>5. Drive(k, <<Volume(level)>>)
    BY <1>7
  <2> HIDE DEF k
  <2>6. <<Volume(level)>> \in Seq(Command) /\ Len(<<Volume(level)>>) = 1
    BY <2>3
  <2>7. Same(k, ticking.job) /\ k.mode = "fade"
    BY <1>2, <2>4 DEF Same
  <2>8. {k.trimCmd, k.pauseCmd} \subseteq 0 .. Len(mail) + 1
    BY <1>1, <1>2, <2>4
  <2> QED
    BY <2>4, <2>5, <2>6, <2>7, <2>8
<1>8. CASE Drive(j, <<>>)
  <2> HIDE DEF j
  <2>1. Drive(j, none)
    BY <1>4, <1>8
  <2>2. {j.trimCmd, j.pauseCmd} \subseteq 0 .. Len(mail) + Len(none)
    BY <1>1, <1>2, <1>4
  <2> QED
    BY <1>2, <2>1, <2>2
<1> QED
  BY <1>3, <1>5, <1>6, <1>7, <1>8

LEMMA TickTypes ==
  ASSUME Types, TickBegin \/ TickAfterCurrent \/ TickFade \/ TickVerify
  PROVE  Types'
<1>1. CASE TickBegin
  <2>1. ticking' = [op |-> IF job.phase = "verifying" THEN "verify" ELSE "act",
                    job |-> job]
        /\ job \in Job /\ {job.trimCmd, job.pauseCmd} \subseteq 0 .. Len(mail)
    BY <1>1 DEF TickBegin, Types, TypeOK
  <2>2. ticking' \in [op: {"act", "verify"}, job: Job] /\ ticking'.job = job
    BY <2>1
  <2> QED
    BY <1>1, <2>1, <2>2 DEF TickBegin, Types, TypeOK, TickKnows, phoneVars, bounds
<1>2. CASE TickAfterCurrent
  <2>1. latch' \in BOOLEAN
    BY <1>2 DEF TickAfterCurrent, Types, TypeOK
  <2> QED
    BY <1>2, <2>1, TickAfterCurrentDrives, DriveTypes
<1>3. CASE TickFade
  <2>1. latch' \in BOOLEAN
    BY <1>3 DEF TickFade, Types, TypeOK
  <2> QED
    BY <1>3, <2>1, TickFadeDrives, DriveTypes
<1>4. CASE TickVerify
  <2>1. UNCHANGED <<latch, arming, report, phone, ran, arms>> /\ ticking' = Idle
        /\ snap' = snap
    BY <1>4 DEF TickVerify, phoneVars, bounds
  <2>2. \/ \E why \in {"YES", "NO", "refused", "cancelled"} : Finish(why)
        \/ UNCHANGED <<job, verdict, mail>>
    BY <1>4 DEF TickVerify
  <2>3. latch' \in BOOLEAN
    BY <2>1 DEF Types, TypeOK
  <2>4. ASSUME UNCHANGED <<job, verdict, mail>>
        PROVE  Types'
    BY <2>1, <2>4 DEF Types, TypeOK, TickKnows, Idle
  <2> QED
    BY <2>1, <2>2, <2>3, <2>4, FinishTypes
<1> QED
  BY <1>1, <1>2, <1>3, <1>4

\* The rest of what the phone does leaves what it has run and what the server holds.
LEMMA EffectType ==
  ASSUME TypeOK, NEW k \in DOMAIN mail
  PROVE  Effect(mail[k]) \in Player
<1>1. mail[k] \in Command /\ phone \in Player
  BY DEF TypeOK
<1>2. mail[k].volume \in Volumes /\ SongLength \in 0 .. SongLength
  BY <1>1, StopAssumption DEF Command
<1>3. {0, 1, 2} \subseteq Songs
  BY DEF Songs
<1> DEFINE c == mail[k]
<1>4. \/ \E b \in BOOLEAN : Effect(c) = [phone EXCEPT !.upcoming = b]
      \/ \E b \in BOOLEAN : Effect(c) = [phone EXCEPT !.oneshot = b]
      \/ Effect(c) = [phone EXCEPT !.playing = FALSE]
      \/ Effect(c) = [phone EXCEPT !.volume = c.volume]
      \/ \E b \in BOOLEAN :
           Effect(c) = [phone EXCEPT !.playing = TRUE, !.song = 2, !.left = SongLength,
                                     !.upcoming = b, !.oneshot = FALSE]
  <2>1. (phone.song # 0) \in BOOLEAN /\ (c.kind = "play") \in BOOLEAN
    OBVIOUS
  <2> HIDE DEF c
  <2>2. CASE c.kind = "trim"
    BY <2>2 DEF Effect
  <2>3. CASE c.kind = "exact"
    BY <2>1, <2>3 DEF Effect
  <2>4. CASE c.kind = "unexact"
    BY <2>4 DEF Effect
  <2>5. CASE c.kind = "pause"
    BY <2>5 DEF Effect
  <2>6. CASE c.kind = "volume"
    BY <2>6 DEF Effect
  <2>7. CASE c.kind = "queue" /\ phone.song # 0
    BY <2>7 DEF Effect
  <2>8. CASE ~(c.kind = "queue" /\ phone.song # 0)
             /\ c.kind \notin {"trim", "exact", "unexact", "pause", "volume"}
    BY <2>1, <2>8 DEF Effect
  <2> QED
    BY <2>2, <2>3, <2>4, <2>5, <2>6, <2>7, <2>8
<1>6. c.volume \in Volumes
  BY <1>2
<1> HIDE DEF c
<1>5. Effect(c) \in Player
  BY <1>1, <1>2, <1>3, <1>4, <1>6 DEF Player
<1> QED
  BY <1>5 DEF c

LEMMA RunType ==
  ASSUME TypeOK, NEW k \in DOMAIN mail, NEW a \in Answers, Run(k, a)
  PROVE  phone' \in Player /\ ran' \subseteq (DOMAIN mail) \X Answers
<1>1. Effect(mail[k]) \in Player
  BY EffectType
<1> QED
  BY <1>1 DEF Run, TypeOK

\* Commands change, but none comes or goes.
LEMMA MailChanges ==
  ASSUME Types, mail' \in Seq(Command), Len(mail') = Len(mail),
         UNCHANGED <<serverVars, arms>>,
         report' = report, snap' = snap,
         phone' \in Player, ran' \subseteq (DOMAIN mail) \X Answers
  PROVE  Types'
<1>1. DOMAIN mail' = DOMAIN mail
  BY DEF Types, TypeOK
<1> QED
  BY <1>1 DEF Types, TypeOK, TickKnows, serverVars

LEMMA DeliveryTypes ==
  ASSUME Types, NEW k \in DOMAIN mail, Receive(k) \/ Lose(k)
  PROVE  Types'
<1>1. TypeOK /\ mail \in Seq(Command) /\ mail[k] \in Command
  BY DEF Types, TypeOK
<1>2. \A c \in Command, a \in Answers :
        /\ [c EXCEPT !.status = "settled", !.ack = a, !.age = 0] \in Command
        /\ [c EXCEPT !.status = "delivered", !.age = 0] \in Command
  <2>1. 0 \in 0 .. RedeliverAfter
    BY StopAssumption
  <2>2. \A c \in Command, a \in Answers :
          [c EXCEPT !.status = "settled", !.ack = a, !.age = 0] \in Command
    BY <2>1 DEF Command
  <2>3. \A c \in Command : [c EXCEPT !.status = "delivered", !.age = 0] \in Command
    BY <2>1 DEF Command
  <2> QED
    BY <2>2, <2>3
<1>3. \A c \in Command : /\ [mail EXCEPT ![k] = c] \in Seq(Command)
                         /\ Len([mail EXCEPT ![k] = c]) = Len(mail)
  BY <1>1
<1>4. CASE Receive(k)
  <2>1. PICK a \in Answers :
          /\ Run(k, a)
          /\ mail' = [mail EXCEPT ![k] =
               [mail[k] EXCEPT !.status = "settled", !.ack = a, !.age = 0]]
    <3>1. PICK a \in Answers :
            /\ Run(k, a)
            /\ mail' = [mail EXCEPT ![k].status = "settled", ![k].ack = a, ![k].age = 0]
      BY <1>4 DEF Receive
    <3>2. [mail EXCEPT ![k].status = "settled", ![k].ack = a, ![k].age = 0]
          = [mail EXCEPT ![k] = [mail[k] EXCEPT !.status = "settled", !.ack = a, !.age = 0]]
      BY <1>1
    <3> QED
      BY <3>1, <3>2
  <2>2. [mail[k] EXCEPT !.status = "settled", !.ack = a, !.age = 0] \in Command
    BY <1>1, <1>2, <2>1
  <2>3. mail' \in Seq(Command) /\ Len(mail') = Len(mail)
    BY <1>3, <2>1, <2>2
  <2>4. phone' \in Player /\ ran' \subseteq (DOMAIN mail) \X Answers
    BY <1>1, <2>1, RunType
  <2> QED
    BY <1>4, <2>3, <2>4, MailChanges DEF Receive, bounds
<1>5. CASE Lose(k)
  <2>1. mail' = [mail EXCEPT ![k] = [mail[k] EXCEPT !.status = "delivered", !.age = 0]]
    <3>1. [mail EXCEPT ![k].status = "delivered", ![k].age = 0]
          = [mail EXCEPT ![k] = [mail[k] EXCEPT !.status = "delivered", !.age = 0]]
      BY <1>1
    <3> QED
      BY <1>5, <3>1 DEF Lose
  <2>2. mail' \in Seq(Command) /\ Len(mail') = Len(mail)
    <3>1. [mail[k] EXCEPT !.status = "delivered", !.age = 0] \in Command
      BY <1>1, <1>2 DEF Answers
    <3> QED
      BY <1>3, <2>1, <3>1
  <2>3. phone' \in Player /\ ran' \subseteq (DOMAIN mail) \X Answers
    <3>1. CASE UNCHANGED <<phone, ran>>
      BY <1>1, <3>1 DEF TypeOK
    <3>2. CASE \E a \in Answers : Run(k, a)
      BY <1>1, <3>2, RunType
    <3> QED
      BY <1>5, <3>1, <3>2 DEF Lose
  <2> QED
    BY <1>5, <2>2, <2>3, MailChanges DEF Lose
<1> QED
  BY <1>4, <1>5

LEMMA PhoneTypes ==
  ASSUME Types, Sample \/ Post \/ SongEnds \/ Tap \/ Kill
  PROVE  Types'
<1>1. TypeOK /\ TickKnows /\ arms \in Nat /\ phone \in Player
  BY DEF Types, TypeOK
<1>2. 0 \in Songs /\ 2 \in Songs /\ 0 \in 0 .. SongLength
      /\ SongLength \in 0 .. SongLength /\ 0 \in 0 .. SongLength + EndGrace
  BY StopAssumption DEF Songs
<1>3. CASE Sample
  <2>1. Now \in Sampled
    BY <1>1 DEF Now, Player, Sampled
  <2> QED
    BY <1>1, <1>3, <2>1 DEF Sample, Types, TypeOK, TickKnows, serverVars, bounds
<1>4. CASE Post
  <2>1. snap \in Sampled
    BY <1>1, <1>4 DEF Post, TypeOK
  <2>2. report' \in [state: Sampled, age: 0 .. SongLength + EndGrace]
    BY <1>2, <1>4, <2>1 DEF Post
  <2>3. /\ job' \in Job \cup {NoJob}
        /\ job' # NoJob => job # NoJob /\ job'.trimCmd = job.trimCmd
                           /\ job'.pauseCmd = job.pauseCmd
    BY <1>1, <1>4 DEF Post, TypeOK, Job
  <2> QED
    BY <1>1, <1>4, <2>2, <2>3 DEF Post, Types, TypeOK, TickKnows, Idle, bounds
<1>5. CASE SongEnds
  <2>1. phone' \in Player
    <3>1. \/ phone' = [phone EXCEPT !.song = 2, !.left = SongLength,
                                    !.playing = ~phone.oneshot, !.oneshot = FALSE]
          \/ phone' = [phone EXCEPT !.playing = FALSE, !.oneshot = FALSE]
      BY <1>5 DEF SongEnds
    <3> QED
      BY <1>1, <1>2, <3>1 DEF Player
  <2> QED
    BY <1>1, <1>5, <2>1 DEF SongEnds, Types, TypeOK, TickKnows, serverVars, bounds
<1>6. CASE Tap
  <2>1. phone' \in Player
    BY <1>1, <1>6 DEF Tap, Player
  <2> QED
    BY <1>1, <1>6, <2>1 DEF Tap, Types, TypeOK, TickKnows, serverVars, bounds
<1>7. CASE Kill
  <2>1. phone' \in Player
    BY <1>1, <1>2, <1>7 DEF Kill, Player
  <2> QED
    BY <1>1, <1>7, <2>1 DEF Kill, Types, TypeOK, TickKnows, serverVars, bounds
<1> QED
  BY <1>3, <1>4, <1>5, <1>6, <1>7

LEMMA ClockTypes ==
  ASSUME Types, Clock
  PROVE  Types'
<1>1. TypeOK /\ TickKnows /\ arms \in Nat /\ phone \in Player
  BY DEF Types, TypeOK
<1>2. \A most \in Nat, age \in Nat : age <= most => Older(age, most) \in 0 .. most
  BY DEF Older
<1>3. phone' \in Player
  <2>1. phone.playing => phone.left - 1 \in 0 .. SongLength
    BY <1>1, StopAssumption DEF Clock, Player
  <2> QED
    BY <1>1, <2>1 DEF Clock, Player
<1>4. report' \in [state: Sampled, age: 0 .. SongLength + EndGrace]
  <2>1. report \in [state: Sampled, age: 0 .. SongLength + EndGrace]
        /\ SongLength + EndGrace \in Nat
    BY <1>1, StopAssumption DEF TypeOK
  <2>2. Older(report.age, SongLength + EndGrace) \in 0 .. SongLength + EndGrace
    BY <1>2, <2>1
  <2> QED
    BY <2>1, <2>2 DEF Clock
<1>5. /\ job' \in Job \cup {NoJob}
      /\ job' # NoJob => job # NoJob /\ job'.trimCmd = job.trimCmd
                         /\ job'.pauseCmd = job.pauseCmd
  <2>1. CASE job = NoJob
    BY <2>1 DEF Clock
  <2>2. CASE job # NoJob
    <3>1. job \in Job /\ job.age \in 0 .. MaxAge
      BY <1>1, <2>2 DEF TypeOK, Job
    <3>2. Older(job.age, MaxAge) \in 0 .. MaxAge
      BY <1>2, <3>1, MaxAgeCovers
    <3>3. job' = [job EXCEPT !.age = Older(job.age, MaxAge)]
      BY <2>2 DEF Clock
    <3> QED
      BY <2>2, <3>1, <3>2, <3>3 DEF Job
  <2> QED
    BY <2>1, <2>2
<1>6. mail' \in Seq(Command) /\ Len(mail') = Len(mail)
  <2>1. \A c \in Command : [c EXCEPT !.age = Older(c.age, RedeliverAfter)] \in Command
    <3>1. \A c \in Command : Older(c.age, RedeliverAfter) \in 0 .. RedeliverAfter
      BY <1>2, StopAssumption DEF Command
    <3> QED
      BY <3>1 DEF Command
  <2>2. mail \in Seq(Command) /\ Len(mail) \in Nat /\ DOMAIN mail = 1 .. Len(mail)
        /\ \A k \in DOMAIN mail : mail[k] \in Command
    BY <1>1 DEF TypeOK
  <2>3. \A k \in DOMAIN mail :
          [mail[k] EXCEPT !.age = Older(mail[k].age, RedeliverAfter)] \in Command
    BY <2>1, <2>2
  <2>4. mail' \in [1 .. Len(mail) -> Command]
    BY <2>2, <2>3 DEF Clock
  <2> QED
    BY <2>2, <2>4
<1>7. DOMAIN mail' = DOMAIN mail
  BY <1>1, <1>6 DEF TypeOK
<1> QED
  BY <1>1, <1>3, <1>4, <1>5, <1>6, <1>7 DEF Clock, Types, TypeOK, TickKnows, Idle, bounds

LEMMA TypesInit == Init => Types
<1> SUFFICES ASSUME Init
             PROVE  Types
  OBVIOUS
<1>1. 1 \in Songs /\ SongLength \in 0 .. SongLength /\ Loud \in Volumes
      /\ 0 \in 0 .. SongLength + EndGrace
  BY StopAssumption DEF Songs, Volumes
<1>2. phone \in Player /\ Now \in Sampled
  BY <1>1 DEF Init, Player, Now, Sampled
<1>3. mail \in Seq(Command) /\ ran \subseteq (DOMAIN mail) \X Answers
  BY DEF Init
<1> QED
  BY <1>1, <1>2, <1>3 DEF Init, Types, TypeOK, TickKnows

LEMMA TypesStep == Types /\ [Next]_vars => Types'
<1> SUFFICES ASSUME Types, [Next]_vars
             PROVE  Types'
  OBVIOUS
<1>1. CASE ArmLatch \/ LatchExpires
  BY <1>1 DEF ArmLatch, LatchExpires, Types, TypeOK, TickKnows, phoneVars, bounds
<1>2. CASE UNCHANGED vars
  BY <1>2 DEF vars, serverVars, phoneVars, bounds, Types, TypeOK, TickKnows
<1> QED
  BY <1>1, <1>2, ArmTypes, RequestTypes, TickTypes, DeliveryTypes, PhoneTypes, ClockTypes
  DEF Next, Ticker, Hears

LEMMA TypesAlways == Spec => []Types
  BY TypesInit, TypesStep, PTL DEF Spec

\* However many stops are armed, requests come in between and deliveries are lost,
\* the job, the tick and the bus keep to their types; a job points to commands
\* that it sent.
THEOREM TypeCorrect == Spec => []TypeOK
<1>1. Types => TypeOK
  BY DEF Types
<1> QED
  BY <1>1, TypesAlways, PTL

-----------------------------------------------------------------------------
(* The server is never ahead of the phone *)

\* A stop after the current song is armed on the first one, and no other is ever
\* the song of its job.
FirstSong ==
  /\ job # NoJob /\ job.mode = "after_current" => job.song = 1
  /\ ticking # Idle /\ ticking.job.mode = "after_current" => ticking.job.song = 1

\* State s, so many ticks ago, was of the song that plays, no further than now.
Shows(s, age) == s.song = 1 /\ s.playing /\ phone.left <= s.left - age

\* While the first song plays and nobody uses the phone, it has never been
\* silent: the report and the one on its way are of it, and what they leave of it,
\* moved on by the server's clock, is no less than what there is.
ServerIsBehind ==
  ~touched /\ phone.song = 1 /\ phone.playing
  => Shows(report.state, report.age) /\ (snap # NoSnap => Shows(snap, 0))

IInv == Types /\ FirstSong /\ ServerIsBehind

LEMMA FirstSongStep ==
  ASSUME Types, FirstSong, [Next]_vars
  PROVE  FirstSong'
<1>1. TypeOK /\ arms \in Nat
  BY DEF Types
<1>2. CASE ArmAfterCurrent
  <2>1. job'.song = 1
    <3>1. NewJob("after_current", "trimming") \in Job
          /\ NewJob("after_current", "trimming").song = 1
      BY <1>1, <1>2, NewJobType DEF ArmAfterCurrent
    <3>2. job' = [NewJob("after_current", "trimming") EXCEPT !.trimCmd = Len(Before) + 1]
      BY <1>2 DEF ArmAfterCurrent
    <3> QED
      BY <3>1, <3>2 DEF Job
  <2> QED
    BY <1>2, <2>1 DEF ArmAfterCurrent, FirstSong
<1>3. CASE ArmFade
  <2>1. job'.mode = "fade"
    BY <1>1, <1>3, NewJobType DEF ArmFade
  <2> QED
    BY <1>3, <2>1 DEF ArmFade, FirstSong
<1>4. CASE Clear \/ PostStart \/ PostRefill
  BY <1>4 DEF Clear, PostStart, PostRefill, Request, Finish, FirstSong
<1>5. CASE TickBegin
  <2>1. ticking'.job = job
    BY <1>5 DEF TickBegin
  <2> QED
    BY <1>5, <2>1 DEF TickBegin, FirstSong
<1>6. CASE TickAfterCurrent \/ TickFade
  <2>1. PICK j \in Job, cmds \in Seq(Command) : Drive(j, cmds) /\ Same(j, ticking.job)
    BY <1>6, TickAfterCurrentDrives, TickFadeDrives
  <2>2. ticking # Idle
    BY <1>6 DEF TickAfterCurrent, TickFade, Idle
  <2>3. job' = j \/ job' = job
    BY <2>1 DEF Drive
  <2>4. job' # NoJob /\ job'.mode = "after_current" => job'.song = 1
    BY <2>1, <2>2, <2>3 DEF FirstSong, Same
  <2>5. ticking' # Idle => job' # NoJob /\ ticking'.job = job'
    BY <2>1 DEF Drive
  <2> QED
    BY <2>4, <2>5 DEF FirstSong
<1>7. CASE TickVerify
  BY <1>7 DEF TickVerify, Finish, FirstSong, Idle
<1>8. CASE \E k \in DOMAIN mail : Receive(k) \/ Lose(k)
  BY <1>8 DEF Receive, Lose, FirstSong, serverVars
<1>9. CASE Post \/ Clock
  <2>1. job' # NoJob => job # NoJob /\ job'.mode = job.mode /\ job'.song = job.song
    BY <1>1, <1>9 DEF Post, Clock, TypeOK, Job
  <2> QED
    BY <1>9, <2>1 DEF Post, Clock, FirstSong
<1>10. CASE Sample \/ SongEnds \/ Tap \/ Kill
  BY <1>10 DEF Sample, SongEnds, Tap, Kill, FirstSong, serverVars
<1>11. CASE ArmLatch \/ LatchExpires \/ UNCHANGED vars
  BY <1>11 DEF ArmLatch, LatchExpires, FirstSong, vars, serverVars
<1> QED
  BY <1>2, <1>3, <1>4, <1>5, <1>6, <1>7, <1>8, <1>9, <1>10, <1>11 DEF Next, Ticker, Hears

\* A command leaves the first song where it is, or ends it.
LEMMA EffectOnSong ==
  ASSUME TypeOK, NEW k \in DOMAIN mail,
         Effect(mail[k]).song = 1, Effect(mail[k]).playing
  PROVE  phone.song = 1 /\ phone.playing /\ Effect(mail[k]).left = phone.left
<1> DEFINE c == mail[k]
<1>1. phone \in Player
  BY DEF TypeOK
<1> HIDE DEF c
<1>2. CASE c.kind \in {"trim", "exact", "unexact", "pause", "volume"}
  <2>1. \/ \E b : Effect(c) = [phone EXCEPT !.upcoming = b]
        \/ \E b : Effect(c) = [phone EXCEPT !.oneshot = b]
        \/ Effect(c) = [phone EXCEPT !.playing = FALSE]
        \/ \E v : Effect(c) = [phone EXCEPT !.volume = v]
    BY <1>2 DEF Effect
  <2> QED
    BY <1>1, <2>1 DEF Player, c
<1>3. CASE c.kind = "queue" /\ phone.song # 0
  <2>1. Effect(c) = [phone EXCEPT !.upcoming = TRUE]
    BY <1>3 DEF Effect
  <2> QED
    BY <1>1, <2>1 DEF Player, c
<1>4. CASE ~(c.kind = "queue" /\ phone.song # 0)
           /\ c.kind \notin {"trim", "exact", "unexact", "pause", "volume"}
  <2>1. \E b : Effect(c) = [phone EXCEPT !.playing = TRUE, !.song = 2, !.left = SongLength,
                                         !.upcoming = b, !.oneshot = FALSE]
    BY <1>4 DEF Effect
  <2>2. Effect(c).song = 2
    BY <1>1, <2>1 DEF Player
  <2> QED
    BY <2>2 DEF c
<1> QED
  BY <1>2, <1>3, <1>4

LEMMA ServerIsBehindStep ==
  ASSUME Types, ServerIsBehind, [Next]_vars
  PROVE  ServerIsBehind'
<1>1. TypeOK /\ phone \in Player
  BY DEF Types, TypeOK
<1>2. CASE UNCHANGED <<phone, report, snap, touched>>
  BY <1>2 DEF ServerIsBehind, Shows
<1>3. CASE \E k \in DOMAIN mail : Receive(k) \/ Lose(k)
  <2>1. UNCHANGED <<report, snap, touched>>
    BY <1>3 DEF Receive, Lose
  <2>2. PICK k \in DOMAIN mail : phone' = phone \/ phone' = Effect(mail[k])
    BY <1>3 DEF Receive, Lose, Run
  <2>3. phone'.song = 1 /\ phone'.playing
        => phone.song = 1 /\ phone.playing /\ phone'.left = phone.left
    BY <1>1, <2>2, EffectOnSong
  <2> QED
    BY <2>1, <2>3 DEF ServerIsBehind, Shows
<1>4. CASE Sample
  <2>1. Now.song = phone.song /\ Now.playing = phone.playing /\ Now.left = phone.left
        /\ phone.left \in Int
    BY <1>1 DEF Now, Player
  <2> QED
    BY <1>4, <2>1 DEF Sample, ServerIsBehind, Shows
<1>5. CASE Post
  <2>1. report'.state = snap /\ report'.age = 0 /\ snap' = NoSnap /\ snap # NoSnap
        /\ UNCHANGED <<phone, touched>>
    BY <1>5 DEF Post
  <2> QED
    BY <2>1 DEF ServerIsBehind, Shows
<1>6. CASE SongEnds
  <2>1. phone'.song = 2 \/ ~phone'.playing
    <3>1. \/ phone' = [phone EXCEPT !.song = 2, !.left = SongLength,
                                    !.playing = ~phone.oneshot, !.oneshot = FALSE]
          \/ phone' = [phone EXCEPT !.playing = FALSE, !.oneshot = FALSE]
      BY <1>6 DEF SongEnds
    <3> QED
      BY <1>1, <3>1 DEF Player
  <2> QED
    BY <2>1 DEF ServerIsBehind
<1>7. CASE Tap \/ Kill
  BY <1>7 DEF Tap, Kill, ServerIsBehind
<1>8. CASE Clock
  <2> SUFFICES ASSUME ~touched', phone'.song = 1, phone'.playing
               PROVE  /\ Shows(report.state, report.age)'
                      /\ snap' # NoSnap => Shows(snap, 0)'
    BY DEF ServerIsBehind
  <2>1. UNCHANGED <<snap, touched>>
    BY <1>8 DEF Clock
  <2>2. phone.playing /\ phone.song = 1 /\ phone'.left = phone.left - 1 /\ phone.left \in Nat
    BY <1>1, <1>8 DEF Clock, Player
  <2>3. Shows(report.state, report.age) /\ (snap # NoSnap => Shows(snap, 0))
    BY <2>1, <2>2 DEF ServerIsBehind
  <2>4. /\ report'.state = report.state /\ report'.age <= report.age + 1
        /\ report.age \in Nat /\ report'.age \in Nat /\ report.state.left \in Nat
    <3>1. report \in [state: Sampled, age: 0 .. SongLength + EndGrace]
          /\ report.age \in Nat /\ SongLength + EndGrace \in Nat
      BY <1>1, StopAssumption DEF TypeOK
    <3>2. report' = [report EXCEPT !.age = Older(report.age, SongLength + EndGrace)]
      BY <1>8 DEF Clock
    <3>3. Older(report.age, SongLength + EndGrace) \in {report.age, report.age + 1}
      BY DEF Older
    <3> QED
      BY <3>1, <3>2, <3>3 DEF Sampled
  <2>5. snap # NoSnap => snap.left \in Nat
    BY <1>1 DEF TypeOK, Sampled
  <2> QED
    BY <2>1, <2>2, <2>3, <2>4, <2>5 DEF Shows
<1>9. \/ UNCHANGED <<phone, report, snap, touched>>
      \/ \E k \in DOMAIN mail : Receive(k) \/ Lose(k)
      \/ Sample \/ Post \/ SongEnds \/ Tap \/ Kill \/ Clock
  <2>1. CASE ArmAfterCurrent \/ ArmLatch \/ ArmFade \/ LatchExpires
    BY <2>1 DEF ArmAfterCurrent, ArmLatch, ArmFade, LatchExpires, phoneVars
  <2>2. CASE Clear \/ PostStart \/ PostRefill
    BY <2>2 DEF Clear, PostStart, PostRefill, Request, phoneVars
  <2>3. CASE Ticker
    BY <2>3 DEF Ticker, TickBegin, TickAfterCurrent, TickFade, TickVerify, Drive, phoneVars
  <2>4. CASE UNCHANGED vars
    BY <2>4 DEF vars, phoneVars
  <2> QED
    BY <2>1, <2>2, <2>3, <2>4 DEF Next, Hears
<1> QED
  BY <1>2, <1>3, <1>4, <1>5, <1>6, <1>7, <1>8, <1>9

LEMMA IInvInit == Init => IInv
<1> SUFFICES ASSUME Init
             PROVE  IInv
  OBVIOUS
<1>1. Types
  BY TypesInit
<1>2. FirstSong
  BY DEF Init, FirstSong
<1>3. ServerIsBehind
  BY StopAssumption DEF Init, ServerIsBehind, Shows, Now
<1> QED
  BY <1>1, <1>2, <1>3 DEF IInv

LEMMA Always == Spec => []IInv
<1>1. IInv /\ [Next]_vars => IInv'
  BY TypesStep, FirstSongStep, ServerIsBehindStep DEF IInv
<1> QED
  BY <1>1, IInvInit, PTL DEF Spec

\* While a tick is under way nobody but the tick sends a pause.
LEMMA OnlyTicksPause ==
  ASSUME Types, [Next]_vars, Len(mail') > Len(mail), mail'[Len(mail')].kind = "pause",
         ticking # Idle, ticking.job.mode = "after_current"
  PROVE  TickAfterCurrent
<1>1. TypeOK /\ mail \in Seq(Command) /\ Len(mail) \in Nat
  BY DEF Types, TypeOK
<1>2. \A m \in Seq(Command), c \in Command :
        /\ m \o <<c>> \in Seq(Command)
        /\ (m \o <<c>>)[Len(m \o <<c>>)] = c
        /\ Append(m, c)[Len(Append(m, c))] = c
  OBVIOUS
<1>3. ASSUME NEW j \in Job, mail' = mail \o Leftovers(j)
      PROVE  FALSE
  <2>1. /\ Leftovers(j) \in Seq(Command)
        /\ Leftovers(j) = <<>> \/ (Len(Leftovers(j)) = 1 /\ Leftovers(j)[1].kind # "pause")
    BY LeftoversType
  <2>2. \A s \in Seq(Command) : /\ Len(mail \o s) = Len(mail) + Len(s)
                                /\ Len(s) = 1 => (mail \o s)[Len(mail) + 1] = s[1]
                                /\ s = <<>> => Len(s) = 0
    BY <1>1
  <2> QED
    BY <1>1, <1>3, <2>1, <2>2
<1>4. ASSUME Finish("cancelled") \/ \E why : Finish(why)
      PROVE  FALSE
  <2>1. job # NoJob => job \in Job
    BY <1>1 DEF TypeOK
  <2>2. (mail' = mail \o Leftovers(job) /\ job # NoJob) \/ mail' = mail
    BY <1>4 DEF Finish
  <2> QED
    BY <1>1, <1>3, <2>1, <2>2
<1>5. CASE ArmAfterCurrent
  <2>1. Cmd("trim") \in Command /\ Cmd("exact") \in Command /\ Cmd("exact").kind = "exact"
        /\ Before \in Seq(Command)
    BY <1>1, BeforeType, CmdType DEF Kinds
  <2>2. \A m \in Seq(Command), b \in Command, c \in Command :
          (m \o <<b, c>>)[Len(m \o <<b, c>>)] = c
    OBVIOUS
  <2>3. mail' = Before \o <<Cmd("trim"), Cmd("exact")>>
    BY <1>5 DEF ArmAfterCurrent
  <2>4. mail'[Len(mail')] = Cmd("exact")
    BY <2>1, <2>2, <2>3
  <2> QED
    BY <2>1, <2>4
<1>6. CASE ArmFade
  <2>1. (mail' = mail \o Leftovers(job) /\ job # NoJob) \/ mail' = mail
    BY <1>6 DEF ArmFade, Before
  <2> QED
    BY <1>1, <1>3, <2>1 DEF TypeOK
<1>7. CASE Clear \/ TickVerify
  <2>1. (\E why : Finish(why)) \/ mail' = mail
    BY <1>7 DEF Clear, TickVerify
  <2> QED
    BY <1>1, <1>4, <2>1
<1>8. CASE PostStart \/ PostRefill
  BY <1>8 DEF PostStart, PostRefill
<1>9. CASE TickBegin \/ TickFade
  BY <1>1, <1>9 DEF TickBegin, TickFade
<1>10. CASE \E k \in DOMAIN mail : Receive(k) \/ Lose(k)
  <2>1. DOMAIN mail' = DOMAIN mail
    BY <1>10 DEF Receive, Lose
  <2>2. mail' \in Seq(Command)
    BY <1>10, DeliveryTypes DEF Types, TypeOK
  <2>3. Len(mail') = Len(mail)
    BY <1>1, <2>1, <2>2
  <2> QED
    BY <1>1, <2>3
<1>11. CASE Clock
  BY <1>11 DEF Clock
<1>12. CASE ArmLatch \/ LatchExpires \/ Sample \/ Post \/ SongEnds \/ Tap \/ Kill
            \/ UNCHANGED vars
  <2>1. mail' = mail
    BY <1>12 DEF ArmLatch, LatchExpires, Sample, Post, SongEnds, Tap, Kill, vars
  <2> QED
    BY <1>1, <2>1
<1> QED
  BY <1>5, <1>6, <1>7, <1>8, <1>9, <1>10, <1>11, <1>12 DEF Next, Ticker, Hears

\* A pause for a stop after the current song goes out only when that song is
\* over, has been silenced, or is within the lead of its end, however late the
\* reports are, whatever the build made of the trim, and whoever arms, cancels
\* or asks for something meanwhile; unless somebody uses the phone.
THEOREM NeverCutsShort == Spec => NeverEarly
<1> DEFINE Early ==
      /\ ticking # Idle
      /\ ticking.job.mode = "after_current"
      /\ Len(mail') > Len(mail)
      /\ mail'[Len(mail')].kind = "pause"
      /\ ~touched
      => \/ ~phone.playing
         \/ phone.song # ticking.job.song
         \/ phone.left <= PauseLead
<1>1. ASSUME IInv, [Next]_vars
      PROVE  Early
  <2> SUFFICES ASSUME ticking # Idle, ticking.job.mode = "after_current",
                      Len(mail') > Len(mail), mail'[Len(mail')].kind = "pause",
                      ~touched, phone.playing, phone.song = ticking.job.song
               PROVE  phone.left <= PauseLead
    OBVIOUS
  <2>1. TickAfterCurrent
    BY <1>1, OnlyTicksPause DEF IInv
  <2>2. TypeOK /\ phone.song = 1 /\ ticking.job.song = 1 /\ ticking.job \in Job
    BY <1>1 DEF IInv, FirstSong, Types, TypeOK
  <2>3. Shows(report.state, report.age)
    BY <1>1, <2>2 DEF IInv, ServerIsBehind
  <2>4. /\ Trimmed(ticking.job).song = 1
        /\ mail \in Seq(Command) /\ Len(mail) \in Nat
    BY <2>2, TrimmedType DEF Same, TypeOK
  <2>5. Remaining(report) = report.state.left - report.age
    BY <2>3 DEF Remaining, Shows
  <2>6. \/ mail' = mail \o <<>>
        \/ Remaining(report) <= IF Trimmed(ticking.job).trimmed THEN -EndGrace ELSE PauseLead
    BY <2>1, <2>3, <2>4 DEF TickAfterCurrent, Drive, Shows
  <2>7. ~(mail' = mail \o <<>>)
    BY <2>4
  <2>8. /\ phone.left \in Int /\ report.state.left \in Int /\ report.age \in Int
        /\ EndGrace \in Nat /\ PauseLead \in Nat
    BY <2>2, StopAssumption DEF TypeOK, Player, Sampled
  <2> QED
    BY <2>3, <2>5, <2>6, <2>7, <2>8 DEF Shows
<1> QED
  BY <1>1, Always, PTL DEF Spec, NeverEarly
=============================================================================
