--------------------------- MODULE VideoWorkerProofs ---------------------------
(* No job waits unnoticed and no cancelled job renders on, for every set of    *)
(* jobs and workers, every plan, and any number of retries and deaths.         *)
EXTENDS VideoWorker, TLAPS

-----------------------------------------------------------------------------
(* What a worker can become *)

Place == {"none", "born", "checked", "loop", "empty", "next", "save", "write",
          "analyze", "render", "stitch", "failing"}
Goal == {"analyzing", "planned", "waiting", "rendering", "stitching", "done"}
Rows == [Jobs -> [status: Status, planned: BOOLEAN, clips: 0 .. Clips]]

LEMMA Constants ==
  /\ 0 \in 0 .. Clips /\ 0 \in 0 .. 2
  /\ "none" \in Place /\ "loop" \in Place /\ "next" \in Place
  /\ "done" \in Goal
  /\ NoJob \in Jobs \cup {NoJob} /\ NoJob \notin Jobs
  /\ Status = {"absent", "done", "failed", "cancelled", "queued", "analyzing",
               "rendering", "stitching"}
BY VideoAssumption DEF Place, Goal, NoJob, Status, Active

\* A worker between jobs, idle or gone.
LEMMA NoWorkerType ==
  /\ NoWorker \in Worker /\ DoneWithJob \in Worker
  /\ NoWorker.on = NoJob /\ DoneWithJob.on = NoJob
  /\ NoWorker.at = "none" /\ DoneWithJob.at = "loop"
BY Constants DEF NoWorker, DoneWithJob, Worker

LEMMA OnwardType ==
  ASSUME NEW me \in Worker
  PROVE  /\ Onward(me) \in Worker /\ Onward(me).at = "next"
         /\ Onward(me).on = me.on /\ Onward(me).late = me.late
<1>1. me.on \in Jobs \cup {NoJob} /\ me.late \in 0 .. 2
  BY Zenon DEF Worker
<1> QED
  BY <1>1, Constants DEF Onward, NoWorker, Worker

-----------------------------------------------------------------------------
(* A cancelled job's worker *)

OnAJob == {"next", "save", "write", "analyze", "render", "stitch", "failing"}

\* After the one clip that was in progress a cancelled job's worker can only
\* look at the row, or fail.
InTime(me, rows) ==
  /\ me.at \in OnAJob => me.on # NoJob
  /\ me.on # NoJob /\ rows[me.on].status = "cancelled"
     => me.late = 0 \/ (me.late = 1 /\ me.at \in {"next", "save", "failing"})

\* A worker renders clips the plan has.
Aimed(me) ==
  me.at = "render" \/ (me.at \in {"save", "write"} /\ me.goal = "rendering")
  => me.clip < Clips

Punctual == \A w \in Workers : InTime(worker[w], job) /\ Aimed(worker[w])

Busy == OnAJob \cup {"loop"}

\* What a step of process_job does: rows are not cancelled by it.
Processed(w) ==
  /\ job' \in Rows
  /\ \A j \in Jobs : job'[j].status = "cancelled" => job[j].status = "cancelled"
  /\ \E new \in Worker : /\ worker' = [worker EXCEPT ![w] = new]
                         /\ new.at \in Busy
                         /\ InTime(new, job') /\ Aimed(new)

LEMMA MeType ==
  ASSUME TypeOK, NEW w \in Workers
  PROVE  /\ worker[w] \in Worker /\ worker[w].at \in Place
         /\ worker[w].on \in Jobs \cup {NoJob} /\ worker[w].goal \in Goal
         /\ worker[w].seen \in Status /\ worker[w].clip \in 0 .. Clips
         /\ worker[w].late \in 0 .. 2
<1>1. worker[w] \in Worker
  BY DEF TypeOK
<1> QED
  BY <1>1, Zenon DEF Worker, Place, Goal

\* The steps that leave the rows alone and the worker on its job.
LEMMA StaysPunctual ==
  ASSUME TypeOK, Punctual, NEW w \in Workers, job' = job,
         worker[w].at \in OnAJob,
         NEW new \in Worker, worker' = [worker EXCEPT ![w] = new], new.at \in OnAJob,
         new.on = worker[w].on, new.late = worker[w].late, Aimed(new),
         \/ new.at \in {"next", "save", "failing"}
         \/ worker[w].at \in {"analyze", "render", "stitch"}
         \/ job[worker[w].on].status # "cancelled"
  PROVE  Processed(w)
<1>1. InTime(worker[w], job)
  BY DEF Punctual
<1>2. InTime(new, job')
  BY <1>1 DEF InTime, OnAJob
<1> QED
  BY <1>2 DEF Processed, Busy, TypeOK, Rows

LEMMA ProceedProcesses ==
  ASSUME TypeOK, Punctual, NEW w \in Workers, WaitForGpu(w) \/ Proceed(w)
  PROVE  Processed(w)
<1> DEFINE me == worker[w]
<1>1. me.at = "next" /\ job' = job
  BY DEF WaitForGpu, Proceed
<1>2. PICK goal \in Goal, clip \in 0 .. Clips :
        /\ worker' = [worker EXCEPT ![w] = [me EXCEPT !.at = "save", !.goal = goal,
                                                      !.clip = clip, !.seen = me.seen]]
        /\ goal = "rendering" => clip < Clips
  <2>1. CASE WaitForGpu(w)
    <3>1. worker' = [worker EXCEPT ![w] = [me EXCEPT !.at = "save", !.goal = "waiting"]]
      BY <2>1 DEF WaitForGpu, Going, TypeOK
    <3>2. [me EXCEPT !.at = "save", !.goal = "waiting"]
            = [me EXCEPT !.at = "save", !.goal = "waiting", !.clip = me.clip,
                         !.seen = me.seen]
      BY MeType DEF Worker
    <3> QED
      BY <3>1, <3>2, MeType DEF Goal
  <2>2. CASE Proceed(w)
    <3> DEFINE row == job[me.on]
               clip == IF row.clips < Clips THEN row.clips ELSE 0
               goal == IF ~row.planned THEN "analyzing"
                       ELSE IF row.clips < Clips THEN "rendering" ELSE "stitching"
    <3>1. worker' = [worker EXCEPT ![w] = [me EXCEPT !.at = "save", !.clip = clip,
                                                     !.goal = goal]]
      BY <2>2 DEF Proceed, TypeOK
    <3>2. me.on \in Jobs
      BY <1>1, MeType DEF Punctual, InTime, OnAJob
    <3>3. row.clips \in 0 .. Clips
      BY <3>2 DEF TypeOK
    <3>4. clip \in 0 .. Clips /\ goal \in Goal /\ (goal = "rendering" => clip < Clips)
      BY <3>3, Constants DEF Goal
    <3> HIDE DEF clip, goal
    <3>5. [me EXCEPT !.at = "save", !.clip = clip, !.goal = goal]
            = [me EXCEPT !.at = "save", !.goal = goal, !.clip = clip, !.seen = me.seen]
      BY MeType DEF Worker
    <3> QED
      BY <3>1, <3>4, <3>5
  <2> QED
    BY <2>1, <2>2
<1> DEFINE new == [me EXCEPT !.at = "save", !.goal = goal, !.clip = clip, !.seen = me.seen]
<1>3. /\ new \in Worker /\ new.at = "save" /\ new.on = me.on /\ new.late = me.late
      /\ new.goal = goal /\ new.clip = clip
  <2>1. me \in Worker /\ "save" \in Place /\ me.seen \in Status
    BY MeType DEF Place
  <2> HIDE DEF me
  <2> QED
    BY <2>1, Zenon DEF Worker, Place, Goal
<1>4. worker' = [worker EXCEPT ![w] = new]
  BY <1>2
<1> HIDE DEF new
<1> QED
  BY <1>1, <1>2, <1>3, <1>4, StaysPunctual DEF OnAJob, Aimed

LEMMA RefreshProcesses ==
  ASSUME TypeOK, Punctual, NEW w \in Workers, Refresh(w)
  PROVE  Processed(w)
<1> DEFINE me == worker[w]
           read == job[me.on].status
<1>1. me.at = "save" /\ job' = job
  BY DEF Refresh
<1>2. me.on \in Jobs
  BY <1>1, MeType DEF Punctual, InTime, OnAJob
<1>3. CASE read = "cancelled"
  <2>1. worker' = [worker EXCEPT ![w] = DoneWithJob]
    BY <1>3 DEF Refresh
  <2>2. InTime(DoneWithJob, job') /\ Aimed(DoneWithJob)
    BY NoWorkerType DEF InTime, Aimed, OnAJob
  <2> QED
    BY <1>1, <2>1, <2>2, NoWorkerType DEF Processed, Busy, TypeOK, Rows
<1>4. CASE read # "cancelled"
  <2> DEFINE new == [me EXCEPT !.at = "write", !.goal = me.goal, !.clip = me.clip,
                               !.seen = read]
  <2>1. [me EXCEPT !.at = "write", !.seen = read] = new
    BY MeType DEF Worker
  <2>2. worker' = [worker EXCEPT ![w] = new]
    <3>1. worker' = [worker EXCEPT ![w] = [me EXCEPT !.at = "write", !.seen = read]]
      BY <1>4 DEF Refresh
    <3> QED
      BY <2>1, <3>1
  <2>3. read \in Status
    BY <1>2 DEF TypeOK
  <2>4. /\ new \in Worker /\ new.at = "write" /\ new.on = me.on /\ new.late = me.late
        /\ new.goal = me.goal /\ new.clip = me.clip
    <3>1. /\ me \in Worker /\ "write" \in Place /\ me.goal \in Goal
          /\ me.clip \in 0 .. Clips
      BY MeType DEF Place
    <3> HIDE DEF me, read
    <3> QED
      BY <2>3, <3>1, Zenon DEF Worker, Place, Goal
  <2> HIDE DEF new
  <2>5. Aimed(new)
    BY <1>1, <2>4 DEF Aimed, Punctual
  <2> QED
    BY <1>1, <1>4, <2>2, <2>4, <2>5, StaysPunctual DEF OnAJob
<1> QED
  BY <1>3, <1>4

\* The second half of save() never writes "cancelled", and the worker that
\* writes beside a cancelled job has not finished a clip since.
LEMMA WriteProcesses ==
  ASSUME TypeOK, Punctual, NEW w \in Workers, Write(w)
  PROVE  Processed(w)
<1> DEFINE me == worker[w]
           status == IF me.goal = "planned" THEN me.seen
                     ELSE IF me.goal = "waiting" THEN "rendering" ELSE me.goal
<1>1. me.at = "write" /\ me \in Worker /\ me.on \in Jobs
  BY MeType DEF Write, Punctual, InTime, OnAJob
<1>2. job' = [job EXCEPT ![me.on].status = IF status = me.seen THEN @ ELSE status,
                         ![me.on].planned = @ \/ me.goal = "planned"]
  BY DEF Write
<1>3. status = me.seen \/ status \in Status \ {"cancelled"}
  <2>1. me.goal \in Goal
    BY MeType
  <2> QED
    BY <2>1, Constants DEF Goal
<1> HIDE DEF status
<1>4. /\ job' \in Rows
      /\ \A j \in Jobs : job'[j].status = "cancelled" => job[j].status = "cancelled"
  <2>1. \A j \in Jobs : j # me.on => job'[j] = job[j]
    BY <1>2 DEF TypeOK
  <2> DEFINE row == job[me.on]
             stat == IF status = me.seen THEN row.status ELSE status
             plan == row.planned \/ me.goal = "planned"
             new == [row EXCEPT !.status = stat, !.planned = plan]
  <2>2. job' = [job EXCEPT ![me.on] = new]
    BY <1>1, <1>2 DEF TypeOK
  <2>3. /\ row \in [status: Status, planned: BOOLEAN, clips: 0 .. Clips]
        /\ row.status \in Status
    BY <1>1 DEF TypeOK
  <2>4. stat \in Status /\ plan \in BOOLEAN /\ (stat = "cancelled" => row.status = "cancelled")
    BY <1>3, <2>3
  <2> HIDE DEF stat, plan
  <2>5. /\ new \in [status: Status, planned: BOOLEAN, clips: 0 .. Clips]
        /\ new.status = stat
    BY <2>3, <2>4, Zenon
  <2> HIDE DEF new
  <2> QED
    BY <1>1, <2>2, <2>4, <2>5 DEF TypeOK, Rows
<1>5. InTime(me, job)
  BY DEF Punctual
<1>6. job'[me.on].status = "cancelled" => me.late = 0
  BY <1>1, <1>4, <1>5, Constants DEF InTime
<1>7. ASSUME NEW new \in Worker, worker' = [worker EXCEPT ![w] = new],
             new.at \in OnAJob, new.on = me.on, new.late = me.late, Aimed(new)
      PROVE  Processed(w)
  <2>1. InTime(new, job')
    BY <1>1, <1>6, <1>7, Constants DEF InTime
  <2> QED
    BY <1>4, <1>7, <2>1 DEF Processed, Busy
<1>8. /\ Onward(me) \in Worker /\ Onward(me).at = "next"
      /\ Onward(me).on = me.on /\ Onward(me).late = me.late
  BY <1>1, OnwardType
<1>9. CASE me.goal \in DOMAIN Effort
  <2> DEFINE at == Effort[me.goal]
             onward == Onward(me)
             new == [onward EXCEPT !.at = at, !.clip = me.clip]
  <2>1. worker' = [worker EXCEPT ![w] = new]
    BY <1>9 DEF Write, Effort
  <2>2. at \in OnAJob /\ at \in Place
    BY <1>9 DEF Effort, OnAJob, Place
  <2>3. me.clip \in 0 .. Clips
    BY MeType
  <2> HIDE DEF at, onward
  <2>4. onward \in Worker /\ onward.on = me.on /\ onward.late = me.late
    BY <1>8 DEF onward
  <2>5. /\ new \in Worker /\ new.at = at /\ new.on = me.on /\ new.late = me.late
        /\ new.clip = me.clip
    BY <2>2, <2>3, <2>4, Zenon DEF Worker, Place
  <2> HIDE DEF new
  <2>6. Aimed(new)
    <3>1. Aimed(me)
      BY DEF Punctual
    <3>2. at \notin {"save", "write"} /\ (at = "render" => me.goal = "rendering")
      BY <1>9 DEF at, Effort
    <3> QED
      BY <1>1, <2>5, <3>1, <3>2 DEF Aimed
  <2> QED
    BY <1>7, <2>1, <2>2, <2>5, <2>6
<1>10. CASE me.goal \in {"planned", "waiting"}
  <2>1. worker' = [worker EXCEPT ![w] = Onward(me)]
    BY <1>10 DEF Write, Effort
  <2> QED
    BY <1>7, <1>8, <2>1 DEF OnAJob, Aimed
<1>11. CASE me.goal \notin DOMAIN Effort /\ me.goal \notin {"planned", "waiting"}
  <2>1. worker' = [worker EXCEPT ![w] = DoneWithJob]
    BY <1>11 DEF Write
  <2>2. InTime(DoneWithJob, job') /\ Aimed(DoneWithJob)
    BY NoWorkerType DEF InTime, Aimed, OnAJob
  <2> QED
    BY <1>4, <2>1, <2>2, NoWorkerType DEF Processed, Busy
<1> QED
  BY <1>9, <1>10, <1>11

LEMMA WorkProcesses ==
  ASSUME TypeOK, Punctual, NEW w \in Workers, Work(w)
  PROVE  Processed(w)
<1> DEFINE me == worker[w]
<1>1. /\ me.at \in {"analyze", "render", "stitch"} /\ me \in Worker /\ me.on \in Jobs
      /\ me.clip \in 0 .. Clips /\ me.late \in 0 .. 2 /\ me.goal \in Goal
  BY MeType DEF Work, Punctual, InTime, OnAJob
<1>2. InTime(me, job) /\ Aimed(me)
  BY DEF Punctual
<1>3. ASSUME NEW goal \in Goal, goal # "rendering", Going(w, "save", goal), job' = job
      PROVE  Processed(w)
  <2> DEFINE new == [me EXCEPT !.at = "save", !.goal = goal]
  <2>1. worker' = [worker EXCEPT ![w] = new]
    BY <1>3 DEF Going, TypeOK
  <2>2. "save" \in Place
    BY DEF Place
  <2> HIDE DEF me
  <2>3. /\ new \in Worker /\ new.at = "save" /\ new.on = me.on /\ new.late = me.late
        /\ new.goal = goal
    BY <1>1, <2>2, Zenon DEF Worker, Place, Goal
  <2> HIDE DEF new
  <2>4. Aimed(new)
    BY <1>3, <2>3 DEF Aimed
  <2> QED
    BY <1>1, <1>3, <2>1, <2>3, <2>4, StaysPunctual DEF OnAJob, me
<1> DEFINE onward == Onward(me)
<1>4. onward \in Worker /\ onward.at = "next" /\ onward.on = me.on /\ onward.late = me.late
  BY <1>1, OnwardType
<1>5. ASSUME worker' = [worker EXCEPT ![w] = [onward EXCEPT !.at = "failing"]], job' = job
      PROVE  Processed(w)
  <2> DEFINE new == [onward EXCEPT !.at = "failing"]
  <2>1. "failing" \in Place
    BY DEF Place
  <2> HIDE DEF onward, me
  <2>2. new \in Worker /\ new.at = "failing" /\ new.on = me.on /\ new.late = me.late
    BY <1>4, <2>1, Zenon DEF Worker, Place
  <2>3. worker' = [worker EXCEPT ![w] = new]
    BY <1>5
  <2> HIDE DEF new
  <2> QED
    BY <1>1, <1>5, <2>2, <2>3, StaysPunctual DEF OnAJob, Aimed, me
<1>6. ASSUME me.at = "render", job' = [job EXCEPT ![me.on] = Rendered(@, me.clip)],
             worker' = [worker EXCEPT ![w] =
               [onward EXCEPT !.late = IF job[me.on].status = "cancelled" /\ @ < 2
                                       THEN @ + 1 ELSE @]]
      PROVE  Processed(w)
  <2> DEFINE late == IF job[me.on].status = "cancelled" /\ onward.late < 2
                     THEN onward.late + 1 ELSE onward.late
             new == [onward EXCEPT !.late = late]
  <2>1. worker' = [worker EXCEPT ![w] = new]
    BY <1>6
  <2>2. late \in 0 .. 2
    <3> HIDE DEF onward
    <3> QED
      BY <1>1, <1>4
  <2>3. job[me.on].status = "cancelled" => late = 1
    <3>1. job[me.on].status = "cancelled" => me.late = 0
      BY <1>1, <1>2, <1>6, Constants DEF InTime
    <3> HIDE DEF onward
    <3> QED
      BY <1>4, <3>1
  <2> HIDE DEF onward, late, me
  <2>4. new \in Worker /\ new.at = "next" /\ new.on = me.on /\ new.late = late
    BY <1>4, <2>2, Zenon DEF Worker
  <2> DEFINE row == job[me.on]
  <2>5. /\ row \in [status: Status, planned: BOOLEAN, clips: 0 .. Clips]
        /\ row.clips \in 0 .. Clips
    BY <1>1 DEF TypeOK
  <2> DEFINE clips == IF row.clips > me.clip THEN row.clips ELSE me.clip + 1
             rendered == [row EXCEPT !.clips = clips]
  <2>6. clips \in 0 .. Clips
    <3>1. me.clip < Clips
      BY <1>2, <1>6 DEF Aimed
    <3> QED
      BY <1>1, <2>5, <3>1, VideoAssumption
  <2>7. job' = [job EXCEPT ![me.on] = rendered]
    BY <1>6 DEF Rendered, TypeOK
  <2> HIDE DEF clips, row
  <2>8. /\ rendered \in [status: Status, planned: BOOLEAN, clips: 0 .. Clips]
        /\ rendered.status = row.status
    BY <2>5, <2>6, Zenon
  <2> HIDE DEF rendered
  <2>9. /\ job' \in Rows
        /\ \A j \in Jobs : job'[j].status = job[j].status
    BY <1>1, <2>7, <2>8 DEF TypeOK, Rows, row
  <2>10. InTime(new, job') /\ Aimed(new)
    <3> HIDE DEF new
    <3> QED
      BY <1>1, <2>3, <2>4, <2>9, Constants DEF InTime, Aimed
  <2> QED
    BY <1>1, <2>1, <2>4, <2>9, <2>10 DEF Processed, Busy, OnAJob, me
<1> QED
  BY <1>3, <1>5, <1>6 DEF Work, Goal

LEMMA FailProcesses ==
  ASSUME TypeOK, Punctual, NEW w \in Workers, Fail(w)
  PROVE  Processed(w)
<1>1. worker' = [worker EXCEPT ![w] = DoneWithJob]
  BY DEF Fail
<1>2. worker[w].on \in Jobs
  BY MeType DEF Fail, Punctual, InTime, OnAJob
<1>3. /\ job' \in Rows
      /\ \A j \in Jobs : job'[j].status = "cancelled" => job[j].status = "cancelled"
  BY <1>2, Constants DEF Fail, TypeOK, Rows
<1>4. InTime(DoneWithJob, job') /\ Aimed(DoneWithJob)
  BY NoWorkerType DEF InTime, Aimed, OnAJob
<1> QED
  BY <1>1, <1>3, <1>4, NoWorkerType DEF Processed, Busy

LEMMA ProcessStep ==
  ASSUME TypeOK, Punctual, NEW w \in Workers,
         \/ WaitForGpu(w) \/ Proceed(w) \/ Refresh(w)
         \/ Write(w) \/ Work(w) \/ Fail(w)
  PROVE  /\ Processed(w)
         /\ UNCHANGED <<pidfile, handler, pending, lapse, retries, deaths>>
BY ProceedProcesses, RefreshProcesses, WriteProcesses, WorkProcesses, FailProcesses
   DEF WaitForGpu, Proceed, Refresh, Write, Work, Fail

-----------------------------------------------------------------------------
(* The inductive invariant *)

\* The pid file never names a worker that has not written it or is gone.
PidRuns == Alive => worker[pidfile].at \notin {"none", "born", "checked"}

\* A handler that has read a row is on a job, and may count its retry.
HandlerReads ==
  handler.op # "free" => /\ handler.on \in Jobs
                         /\ handler.op = "retry" => retries < MaxRetries

IInv == TypeOK /\ Punctual /\ PidRuns /\ HandlerReads /\ NobodyAbandoned

\* A worker that is no longer on a job, or on one that is not cancelled.
LEMMA NotOnAJob ==
  ASSUME NEW me \in Worker, me.on = NoJob, me.at \notin OnAJob, NEW rows
  PROVE  InTime(me, rows) /\ Aimed(me)
BY DEF InTime, Aimed, OnAJob

\* One worker moves.
LEMMA WorkerMoves ==
  ASSUME worker \in [Workers -> Worker], NEW w \in Workers, NEW new \in Worker,
         worker' = [worker EXCEPT ![w] = new]
  PROVE  /\ worker' \in [Workers -> Worker] /\ worker'[w] = new
         /\ \A v \in Workers \ {w} : worker'[v] = worker[v]
OBVIOUS

\* spawn_worker: afterwards somebody serves the queue, or somebody was taken
\* for alive who no longer does.
LEMMA SpawnServes ==
  ASSUME TypeOK, Punctual, PidRuns, Spawn, UNCHANGED <<job, pidfile>>
  PROVE  /\ worker' \in [Workers -> Worker] /\ lapse' \in BOOLEAN
         /\ Punctual' /\ PidRuns'
         /\ lapse' \/ \E w \in Workers : Serving(w)'
<1>1. CASE Alive /\ lapse' = (lapse \/ OnItsWayOut) /\ UNCHANGED worker
  <2>1. OnItsWayOut \/ Serving(pidfile)
    BY <1>1 DEF PidRuns, Serving, OnItsWayOut
  <2>2. lapse' \/ Serving(pidfile)'
    BY <1>1, <2>1 DEF Serving
  <2> QED
    BY <1>1, <2>2 DEF TypeOK, Punctual, PidRuns, Alive, OnItsWayOut
<1>2. ASSUME ~Alive, NEW w \in Workers, worker[w].at = "none", lapse' = FALSE,
             worker' = [worker EXCEPT ![w].at = "born"]
      PROVE  /\ worker' \in [Workers -> Worker] /\ lapse' \in BOOLEAN
             /\ Punctual' /\ PidRuns'
             /\ lapse' \/ \E v \in Workers : Serving(v)'
  <2> DEFINE me == worker[w]
             new == [me EXCEPT !.at = "born"]
  <2>1. worker' = [worker EXCEPT ![w] = new]
    BY <1>2 DEF TypeOK
  <2>2. me \in Worker /\ "born" \in Place /\ InTime(me, job)
    BY MeType DEF Place, Punctual
  <2> HIDE DEF me
  <2>3. new \in Worker /\ new.at = "born" /\ new.on = me.on /\ new.late = me.late
    BY <2>2, Zenon DEF Worker, Place
  <2>4. InTime(new, job) /\ Aimed(new)
    <3> HIDE DEF new
    <3> QED
      BY <1>2, <2>2, <2>3 DEF InTime, Aimed, OnAJob, me
  <2> HIDE DEF new
  <2>5. /\ worker' \in [Workers -> Worker] /\ worker'[w] = new
        /\ \A v \in Workers \ {w} : worker'[v] = worker[v]
    BY <2>1, <2>3, WorkerMoves DEF TypeOK
  <2>6. Punctual'
    BY <2>4, <2>5 DEF Punctual
  <2>7. PidRuns'
    BY <1>2 DEF PidRuns, Alive
  <2>8. Serving(w)'
    BY <2>3, <2>5 DEF Serving
  <2> QED
    BY <1>2, <2>5, <2>6, <2>7, <2>8
<1> QED
  BY <1>1, <1>2 DEF Spawn

\* One worker moves and the rows stay as they are.
LEMMA MovePunctual ==
  ASSUME TypeOK, Punctual, NEW w \in Workers, NEW new \in Worker, job' = job,
         worker' = [worker EXCEPT ![w] = new], InTime(new, job), Aimed(new)
  PROVE  Punctual'
BY WorkerMoves DEF TypeOK, Punctual

LEMMA QueueStep ==
  ASSUME IInv, NEW w \in Workers, SecondLook(w) \/ WritePid(w) \/ TakeJob(w) \/ Exit(w)
  PROVE  IInv'
<1>1. job' = job /\ UNCHANGED <<handler, pending, retries, deaths>>
  BY DEF SecondLook, WritePid, TakeJob, Exit
<1> DEFINE me == worker[w]
<1>2. TypeOK /\ Punctual /\ PidRuns /\ NobodyAbandoned /\ HandlerReads'
  BY <1>1 DEF IInv, HandlerReads
<1>3. me \in Worker /\ InTime(me, job) /\ Aimed(me)
  BY <1>2, MeType DEF Punctual
<1>4. ASSUME NEW at \in Place \ OnAJob, me.at \notin OnAJob,
             NEW new, new = [me EXCEPT !.at = at]
      PROVE  /\ new \in Worker /\ new.at = at
             /\ InTime(new, job) /\ Aimed(new)
  <2> HIDE DEF me
  <2>1. new \in Worker /\ new.at = at /\ new.on = me.on /\ new.late = me.late
    BY <1>3, <1>4, Zenon DEF Worker, Place
  <2> QED
    BY <1>3, <1>4, <2>1 DEF InTime, Aimed, OnAJob
<1>5. InTime(NoWorker, job) /\ Aimed(NoWorker)
  BY NoWorkerType, NotOnAJob DEF OnAJob
<1>6. CASE SecondLook(w) /\ Alive
  <2>1. /\ worker' = [worker EXCEPT ![w] = NoWorker] /\ pidfile' = pidfile
        /\ lapse' = (lapse \/ OnItsWayOut) /\ me.at = "born"
    BY <1>6 DEF SecondLook
  <2>2. pidfile # w /\ pidfile \in Workers
    BY <1>2, <1>6, <2>1 DEF PidRuns, Alive
  <2>3. worker' \in [Workers -> Worker] /\ worker'[pidfile] = worker[pidfile]
    BY <1>2, <2>1, <2>2, NoWorkerType, WorkerMoves DEF TypeOK
  <2>4. TypeOK' /\ Punctual' /\ PidRuns'
    BY <1>1, <1>2, <1>5, <2>1, <2>2, <2>3, NoWorkerType, MovePunctual
    DEF TypeOK, PidRuns, Alive, OnItsWayOut
  <2>5. lapse' \/ Serving(pidfile)'
    BY <1>2, <1>6, <2>1, <2>3 DEF PidRuns, Serving, OnItsWayOut
  <2> QED
    BY <1>2, <2>1, <2>2, <2>4, <2>5 DEF IInv, NobodyAbandoned
<1>7. CASE SecondLook(w) /\ ~Alive
  <2> DEFINE new == [me EXCEPT !.at = "checked"]
  <2>1. /\ worker' = [worker EXCEPT ![w] = new] /\ UNCHANGED <<pidfile, lapse>>
        /\ me.at = "born"
    BY <1>7 DEF SecondLook, IInv, TypeOK
  <2>2. new \in Worker /\ new.at = "checked" /\ InTime(new, job) /\ Aimed(new)
    BY <1>4, <2>1 DEF Place, OnAJob
  <2> HIDE DEF new
  <2>3. TypeOK' /\ Punctual' /\ PidRuns'
    BY <1>1, <1>2, <1>7, <2>1, <2>2, MovePunctual, WorkerMoves
    DEF TypeOK, PidRuns, Alive
  <2>4. Serving(w)'
    BY <1>2, <2>1, <2>2 DEF Serving, TypeOK
  <2> QED
    BY <1>2, <2>3, <2>4 DEF IInv, NobodyAbandoned
<1>8. CASE WritePid(w)
  <2> DEFINE new == [me EXCEPT !.at = "loop"]
  <2>1. /\ worker' = [worker EXCEPT ![w] = new] /\ pidfile' = w /\ lapse' = lapse
        /\ me.at = "checked"
    BY <1>8 DEF WritePid, IInv, TypeOK
  <2>2. new \in Worker /\ new.at = "loop" /\ InTime(new, job) /\ Aimed(new)
    BY <1>4, <2>1 DEF Place, OnAJob
  <2> HIDE DEF new
  <2>3. TypeOK' /\ Punctual' /\ PidRuns'
    BY <1>1, <1>2, <2>1, <2>2, MovePunctual, WorkerMoves DEF TypeOK, PidRuns
  <2>4. Serving(w)'
    BY <1>2, <2>1, <2>2 DEF Serving, TypeOK
  <2> QED
    BY <1>2, <2>3, <2>4 DEF IInv, NobodyAbandoned
<1>9. CASE TakeJob(w)
  <2>0. me.at = "loop" /\ UNCHANGED <<pidfile, lapse>>
    BY <1>9 DEF TakeJob
  <2>1. CASE /\ \A j \in Jobs : ~IsActive(j)
             /\ worker' = [worker EXCEPT ![w].at = "empty"]
    <3> DEFINE new == [me EXCEPT !.at = "empty"]
    <3>1. worker' = [worker EXCEPT ![w] = new]
      BY <2>1 DEF IInv, TypeOK
    <3>2. new \in Worker /\ new.at = "empty" /\ InTime(new, job) /\ Aimed(new)
      BY <1>4, <2>0 DEF Place, OnAJob
    <3> HIDE DEF new
    <3>3. TypeOK' /\ Punctual' /\ PidRuns'
      BY <1>1, <1>2, <2>0, <3>1, <3>2, MovePunctual, WorkerMoves
      DEF TypeOK, PidRuns, Alive
    <3> QED
      BY <1>1, <1>2, <2>1, <3>3 DEF IInv, NobodyAbandoned, IsActive
  <2>2. ASSUME NEW j \in Jobs, job[j].status \in Active,
               worker' = [worker EXCEPT ![w] = [NoWorker EXCEPT !.at = "next", !.on = j]]
        PROVE  IInv'
    <3> DEFINE new == [NoWorker EXCEPT !.at = "next", !.on = j]
    <3>1. /\ new \in Worker /\ new.at = "next" /\ new.on = j /\ new.late = 0
      BY Constants DEF NoWorker, Worker
    <3>2. worker' = [worker EXCEPT ![w] = new]
      BY <2>2
    <3> HIDE DEF new
    <3>3. InTime(new, job) /\ Aimed(new)
      BY <2>2, <3>1, Constants DEF InTime, Aimed
    <3>4. TypeOK' /\ Punctual' /\ PidRuns'
      BY <1>1, <1>2, <2>0, <3>1, <3>2, <3>3, MovePunctual, WorkerMoves
      DEF TypeOK, PidRuns, Alive
    <3>5. Serving(w)'
      BY <1>2, <3>1, <3>2 DEF Serving, TypeOK
    <3> QED
      BY <1>2, <3>4, <3>5 DEF IInv, NobodyAbandoned
  <2> QED
    BY <1>9, <2>1, <2>2 DEF TakeJob, ActiveStatus, IsActive
<1>10. CASE Exit(w)
  <2>1. /\ worker' = [worker EXCEPT ![w] = NoWorker] /\ lapse' = lapse
        /\ pidfile' = IF pidfile = w THEN NoPid ELSE pidfile
        /\ me.at = "empty"
    BY <1>10 DEF Exit
  <2>2. TypeOK' /\ Punctual' /\ PidRuns'
    BY <1>1, <1>2, <1>5, <2>1, NoWorkerType, MovePunctual, WorkerMoves, VideoAssumption
    DEF TypeOK, PidRuns, Alive
  <2>3. \A v \in Workers : Serving(v) => Serving(v)'
    BY <1>2, <2>1 DEF Serving, TypeOK
  <2> QED
    BY <1>1, <1>2, <2>1, <2>2, <2>3 DEF IInv, NobodyAbandoned, IsActive
<1> QED
  BY <1>6, <1>7, <1>8, <1>9, <1>10

LEMMA ProcessKeeps ==
  ASSUME IInv, NEW w \in Workers,
         \/ WaitForGpu(w) \/ Proceed(w) \/ Refresh(w)
         \/ Write(w) \/ Work(w) \/ Fail(w)
  PROVE  IInv'
<1>1. /\ Processed(w)
      /\ UNCHANGED <<pidfile, handler, pending, lapse, retries, deaths>>
  BY ProcessStep DEF IInv
<1>2. PICK new \in Worker : /\ worker' = [worker EXCEPT ![w] = new]
                            /\ new.at \in Busy
                            /\ InTime(new, job') /\ Aimed(new)
  BY <1>1 DEF Processed
<1>3. /\ worker' \in [Workers -> Worker] /\ worker'[w] = new
      /\ \A v \in Workers \ {w} : worker'[v] = worker[v]
  BY <1>2, WorkerMoves DEF IInv, TypeOK
<1>4. TypeOK'
  BY <1>1, <1>3 DEF IInv, TypeOK, Processed, Rows
<1>5. \A v \in Workers \ {w} : InTime(worker[v], job') /\ Aimed(worker[v])
  BY <1>1, MeType DEF IInv, Punctual, InTime, Processed
<1>6. Punctual'
  BY <1>2, <1>3, <1>5 DEF Punctual
<1>7. PidRuns'
  BY <1>1, <1>2, <1>3 DEF IInv, PidRuns, Alive, Busy, OnAJob
<1>8. Serving(w)'
  BY <1>2, <1>3 DEF Serving, Busy, OnAJob
<1> QED
  BY <1>1, <1>4, <1>6, <1>7, <1>8 DEF IInv, HandlerReads, NobodyAbandoned

\* Setting one row's status.
LEMMA SetStatus ==
  ASSUME TypeOK, NEW j \in Jobs, NEW status \in Status, NEW planned \in BOOLEAN,
         job' = [job EXCEPT ![j].status = status, ![j].planned = planned]
  PROVE  /\ job' \in Rows /\ job'[j].status = status
         /\ \A k \in Jobs \ {j} : job'[k] = job[k]
<1> DEFINE row == job[j]
           new == [row EXCEPT !.status = status, !.planned = planned]
<1>1. row \in [status: Status, planned: BOOLEAN, clips: 0 .. Clips]
  BY DEF TypeOK
<1>2. job' = [job EXCEPT ![j] = new]
  BY DEF TypeOK
<1> HIDE DEF row
<1>3. /\ new \in [status: Status, planned: BOOLEAN, clips: 0 .. Clips]
      /\ new.status = status
  BY <1>1, Zenon
<1>4. job \in Rows /\ DOMAIN job = Jobs
  BY DEF TypeOK, Rows
<1> HIDE DEF new
<1> QED
  BY <1>2, <1>3, <1>4 DEF Rows

\* The clips finished for j are no longer counted.
LEMMA OnTimeType ==
  ASSUME TypeOK, Punctual, NEW j \in Jobs
  PROVE  /\ OnTime(j) \in [Workers -> Worker]
         /\ \A w \in Workers : /\ OnTime(j)[w].at = worker[w].at
                               /\ OnTime(j)[w].on = worker[w].on
                               /\ Aimed(OnTime(j)[w])
                               /\ worker[w].on # j => OnTime(j)[w] = worker[w]
                               /\ worker[w].on = j => OnTime(j)[w].late = 0
<1>1. ASSUME NEW w \in Workers
      PROVE  /\ OnTime(j)[w] \in Worker
             /\ OnTime(j)[w].at = worker[w].at /\ OnTime(j)[w].on = worker[w].on
             /\ Aimed(OnTime(j)[w])
             /\ worker[w].on # j => OnTime(j)[w] = worker[w]
             /\ worker[w].on = j => OnTime(j)[w].late = 0
  <2> DEFINE me == worker[w]
             new == [me EXCEPT !.late = 0]
  <2>1. me \in Worker /\ Aimed(me)
    BY MeType DEF Punctual
  <2>2. OnTime(j)[w] = IF me.on = j THEN new ELSE me
    BY DEF OnTime
  <2> HIDE DEF me
  <2>3. /\ new \in Worker /\ new.at = me.at /\ new.on = me.on /\ new.late = 0
        /\ new.goal = me.goal /\ new.clip = me.clip
    BY <2>1, Constants, Zenon DEF Worker
  <2> HIDE DEF new
  <2>4. Aimed(new)
    BY <2>1, <2>3 DEF Aimed
  <2> QED
    BY <2>1, <2>2, <2>3, <2>4 DEF me
<1>2. OnTime(j) \in [Workers -> Worker]
  <2>1. \A w \in Workers : OnTime(j)[w] \in Worker
    BY <1>1
  <2> DEFINE F(w) == IF worker[w].on = j THEN [worker[w] EXCEPT !.late = 0] ELSE worker[w]
  <2>2. OnTime(j) = [w \in Workers |-> F(w)]
    BY DEF OnTime
  <2> HIDE DEF F
  <2> QED
    BY <2>1, <2>2
<1> QED
  BY <1>1, <1>2

\* A job changes hands: it is cancelled, or queued again.
LEMMA HandOver ==
  ASSUME IInv, NEW j \in Jobs, NEW status \in Status,
         job' = [job EXCEPT ![j].status = status],
         worker' = OnTime(j), UNCHANGED pidfile
  PROVE  /\ job' \in Rows /\ worker' \in [Workers -> Worker]
         /\ Punctual' /\ PidRuns'
         /\ job'[j].status = status /\ \A k \in Jobs \ {j} : job'[k] = job[k]
         /\ \A w \in Workers : Serving(w)' <=> Serving(w)
<1>1. /\ job' \in Rows /\ job'[j].status = status
      /\ \A k \in Jobs \ {j} : job'[k] = job[k]
  <2>1. job[j].planned \in BOOLEAN /\ job \in Rows
    BY DEF IInv, TypeOK, Rows
  <2>2. job' = [job EXCEPT ![j].status = status, ![j].planned = job[j].planned]
    BY <2>1 DEF Rows
  <2> QED
    BY <2>1, <2>2, SetStatus DEF IInv
<1>2. /\ worker' \in [Workers -> Worker]
      /\ \A w \in Workers : /\ worker'[w].at = worker[w].at
                            /\ worker'[w].on = worker[w].on
                            /\ Aimed(worker'[w])
                            /\ worker[w].on # j => worker'[w] = worker[w]
                            /\ worker[w].on = j => worker'[w].late = 0
  BY OnTimeType DEF IInv
<1>3. ASSUME NEW w \in Workers PROVE InTime(worker'[w], job')
  <2>1. InTime(worker[w], job) /\ worker[w].on \in Jobs \cup {NoJob}
    BY MeType DEF IInv, Punctual
  <2> QED
    BY <1>1, <1>2, <2>1 DEF InTime
<1>4. Punctual'
  BY <1>2, <1>3 DEF Punctual
<1>5. PidRuns'
  BY <1>2 DEF IInv, PidRuns, Alive
<1> QED
  BY <1>1, <1>2, <1>4, <1>5 DEF Serving

LEMMA ApiStep ==
  ASSUME IInv, ApiNext
  PROVE  IInv'
<1>1. ASSUME NEW j \in Jobs, CreateJob(j) PROVE IInv'
  <2>1. /\ job' \in Rows /\ job'[j].status = "queued"
        /\ \A k \in Jobs \ {j} : job'[k] = job[k]
    BY <1>1, SetStatus, Constants DEF CreateJob, IInv
  <2>2. Punctual'
    <3>1. ASSUME NEW w \in Workers PROVE InTime(worker[w], job')
      BY <2>1, MeType DEF IInv, Punctual, InTime
    <3> QED
      BY <1>1, <3>1 DEF CreateJob, IInv, Punctual
  <2>3. TypeOK' /\ PidRuns' /\ HandlerReads' /\ NobodyAbandoned'
    BY <1>1, <2>1 DEF CreateJob, IInv, TypeOK, Rows, PidRuns, Alive, HandlerReads,
                      NobodyAbandoned
  <2> QED
    BY <2>2, <2>3 DEF IInv
<1>2. ASSUME NEW op \in {"cancel", "retry"}, NEW j \in Jobs, ReadRow(op, j) PROVE IInv'
  <2>1. /\ handler' = [op |-> op, on |-> j]
        /\ op = "retry" => retries < MaxRetries
        /\ UNCHANGED <<job, pidfile, worker, pending, lapse, retries, deaths>>
    BY <1>2 DEF ReadRow
  <2>2. TypeOK' /\ HandlerReads'
    BY <2>1 DEF IInv, TypeOK, HandlerReads
  <2>3. Punctual' /\ PidRuns' /\ NobodyAbandoned'
    BY <2>1 DEF IInv, Punctual, PidRuns, Alive, NobodyAbandoned, IsActive, Serving
  <2> QED
    BY <2>2, <2>3 DEF IInv
<1>3. CASE CommitCancel
  <2>1. handler.on \in Jobs /\ "cancelled" \in Status
    BY <1>3, Constants DEF CommitCancel, IInv, HandlerReads
  <2>2. /\ job' = [job EXCEPT ![handler.on].status = "cancelled"]
        /\ worker' = OnTime(handler.on) /\ handler' = Free
        /\ UNCHANGED <<pidfile, pending, lapse, retries, deaths>>
    BY <1>3 DEF CommitCancel
  <2>3. /\ job' \in Rows /\ worker' \in [Workers -> Worker] /\ Punctual' /\ PidRuns'
        /\ job'[handler.on].status = "cancelled"
        /\ \A k \in Jobs \ {handler.on} : job'[k] = job[k]
        /\ \A w \in Workers : Serving(w)' <=> Serving(w)
    BY <2>1, <2>2, HandOver
  <2>4. TypeOK' /\ HandlerReads'
    BY <2>2, <2>3, Constants DEF IInv, TypeOK, Rows, HandlerReads, Free
  <2>5. \A k \in Jobs : job'[k].status \in Active => job[k].status \in Active
    BY <2>3 DEF Active
  <2>6. NobodyAbandoned'
    BY <2>2, <2>3, <2>5 DEF IInv, NobodyAbandoned, IsActive
  <2> QED
    BY <2>3, <2>4, <2>6 DEF IInv
<1>4. CASE CommitRetry
  <2>1. handler.on \in Jobs /\ "queued" \in Status /\ retries < MaxRetries
    BY <1>4, Constants DEF CommitRetry, IInv, HandlerReads
  <2>2. /\ job' = [job EXCEPT ![handler.on].status = "queued"]
        /\ worker' = OnTime(handler.on) /\ handler' = Free
        /\ pending' = pending + 1 /\ retries' = retries + 1
        /\ UNCHANGED <<pidfile, lapse, deaths>>
    BY <1>4 DEF CommitRetry
  <2>3. /\ job' \in Rows /\ worker' \in [Workers -> Worker] /\ Punctual' /\ PidRuns'
    BY <2>1, <2>2, HandOver
  <2>4. TypeOK' /\ HandlerReads'
    BY <2>1, <2>2, <2>3, Constants, VideoAssumption
    DEF IInv, TypeOK, Rows, HandlerReads, Free
  <2>5. NobodyAbandoned'
    BY <2>2 DEF IInv, TypeOK, NobodyAbandoned
  <2> QED
    BY <2>3, <2>4, <2>5 DEF IInv
<1>5. CASE AskForWorker
  <2>1. /\ pending > 0 /\ pending' = pending - 1 /\ Spawn
        /\ UNCHANGED <<job, pidfile, handler, retries, deaths>>
    BY <1>5 DEF AskForWorker
  <2>2. /\ worker' \in [Workers -> Worker] /\ lapse' \in BOOLEAN
        /\ Punctual' /\ PidRuns'
        /\ lapse' \/ \E w \in Workers : Serving(w)'
    BY <2>1, SpawnServes DEF IInv
  <2>3. TypeOK' /\ HandlerReads'
    BY <2>1, <2>2 DEF IInv, TypeOK, HandlerReads
  <2> QED
    BY <2>2, <2>3 DEF IInv, NobodyAbandoned
<1> QED
  BY <1>1, <1>2, <1>3, <1>4, <1>5 DEF ApiNext

LEMMA DeathStep ==
  ASSUME IInv, ServerRestarts \/ \E w \in Workers : WorkerDies(w)
  PROVE  IInv'
<1>1. ASSUME NEW w \in Workers, WorkerDies(w) PROVE IInv'
  <2>1. /\ worker' = [worker EXCEPT ![w] = NoWorker] /\ lapse' = TRUE
        /\ pidfile' = IF pidfile = w THEN Dead ELSE pidfile
        /\ deaths < MaxDeaths /\ deaths' = deaths + 1
        /\ UNCHANGED <<job, handler, pending, retries>>
    BY <1>1 DEF WorkerDies
  <2>2. InTime(NoWorker, job) /\ Aimed(NoWorker)
    BY NoWorkerType, NotOnAJob DEF OnAJob
  <2>3. Punctual'
    BY <2>1, <2>2, NoWorkerType, MovePunctual DEF IInv
  <2>4. /\ worker' \in [Workers -> Worker]
        /\ \A v \in Workers \ {w} : worker'[v] = worker[v]
    BY <2>1, NoWorkerType, WorkerMoves DEF IInv, TypeOK
  <2>5. TypeOK'
    BY <2>1, <2>4, VideoAssumption DEF IInv, TypeOK
  <2>6. PidRuns' /\ HandlerReads' /\ NobodyAbandoned'
    BY <2>1, <2>4, VideoAssumption
    DEF IInv, PidRuns, Alive, HandlerReads, NobodyAbandoned
  <2> QED
    BY <2>3, <2>5, <2>6 DEF IInv
<1>2. CASE ServerRestarts
  <2>1. /\ deaths < MaxDeaths /\ deaths' = deaths + 1 /\ pending' = 0 /\ handler' = Free
        /\ UNCHANGED <<job, pidfile, retries>>
    BY <1>2 DEF ServerRestarts
  <2>2. HandlerReads'
    BY <2>1 DEF HandlerReads, Free
  <2>3. CASE Spawn
    <3>1. /\ worker' \in [Workers -> Worker] /\ lapse' \in BOOLEAN
          /\ Punctual' /\ PidRuns'
          /\ lapse' \/ \E w \in Workers : Serving(w)'
      BY <2>1, <2>3, SpawnServes DEF IInv
    <3>2. TypeOK'
      BY <2>1, <3>1, Constants, VideoAssumption DEF IInv, TypeOK, Free
    <3> QED
      BY <2>2, <3>1, <3>2 DEF IInv, NobodyAbandoned
  <2>4. CASE (\A j \in Jobs : ~IsActive(j)) /\ UNCHANGED <<worker, lapse>>
    <3>1. TypeOK'
      BY <2>1, <2>4, Constants, VideoAssumption DEF IInv, TypeOK, Free
    <3>2. Punctual' /\ PidRuns' /\ NobodyAbandoned'
      BY <2>1, <2>4 DEF IInv, Punctual, PidRuns, Alive, NobodyAbandoned, IsActive
    <3> QED
      BY <2>2, <3>1, <3>2 DEF IInv
  <2> QED
    BY <1>2, <2>3, <2>4 DEF ServerRestarts
<1> QED
  BY <1>1, <1>2

LEMMA InitHolds == Init => IInv
<1> SUFFICES ASSUME Init PROVE IInv
  OBVIOUS
<1>1. worker \in [Workers -> Worker] /\ \A w \in Workers : worker[w] = NoWorker
  BY NoWorkerType DEF Init
<1>2. job \in Rows
  <2>1. PICK old \in SUBSET Jobs :
          job = [j \in Jobs |-> [status |-> IF j \in old THEN "queued" ELSE "absent",
                                planned |-> FALSE, clips |-> 0]]
    BY DEF Init
  <2>2. \A j \in Jobs : (IF j \in old THEN "queued" ELSE "absent") \in Status
    BY Constants
  <2> QED
    BY <2>1, <2>2, Constants DEF Rows
<1>3. TypeOK
  <2>1. Free \in [op: {"free", "cancel", "retry"}, on: Jobs \cup {NoJob}]
    BY DEF Free
  <2>2. 0 \in 0 .. MaxRetries /\ 0 \in 0 .. MaxDeaths /\ pending \in Nat
    BY VideoAssumption DEF Init
  <2> QED
    BY <1>1, <1>2, <2>1, <2>2 DEF Init, TypeOK, Rows
<1>4. InTime(NoWorker, job) /\ Aimed(NoWorker)
  BY NoWorkerType, NotOnAJob DEF OnAJob
<1>5. Punctual
  BY <1>1, <1>4 DEF Punctual
<1>6. PidRuns /\ HandlerReads /\ NobodyAbandoned
  BY VideoAssumption DEF Init, PidRuns, Alive, HandlerReads, Free, NobodyAbandoned
<1> QED
  BY <1>3, <1>5, <1>6 DEF IInv

\* The inductive invariant: the rows are well formed, a cancelled job's worker is
\* on its way to the row, the pid file names a worker that runs, and no active
\* job is without one unless somebody's look at that file was too early.
THEOREM Inductive == Spec => []IInv
<1>1. IInv /\ [Next]_vars => IInv'
  <2> SUFFICES ASSUME IInv, [Next]_vars PROVE IInv'
    OBVIOUS
  <2>1. ASSUME NEW w \in Workers, WorkerNext(w) \/ WaitForGpu(w) PROVE IInv'
    BY <2>1, QueueStep, ProcessKeeps DEF WorkerNext
  <2>2. CASE UNCHANGED vars
    <3>1. TypeOK' /\ HandlerReads'
      BY <2>2 DEF IInv, vars, TypeOK, HandlerReads
    <3>2. Punctual' /\ PidRuns' /\ NobodyAbandoned'
      BY <2>2 DEF IInv, vars, Punctual, PidRuns, Alive, NobodyAbandoned, IsActive, Serving
    <3> QED
      BY <3>1, <3>2 DEF IInv
  <2> QED
    BY <2>1, <2>2, ApiStep, DeathStep DEF Next
<1> QED
  BY <1>1, InitHolds, PTL DEF Spec

\* Rows, pid file, workers and handlers keep their types; in particular no clip
\* beyond the plan's is ever rendered, by however many workers.
THEOREM TypeCorrect == Spec => []TypeOK
BY Inductive, PTL DEF IInv

\* A job that waits has a worker or a handler about to ask for one, unless a
\* worker died or was relied on after it had found the queue empty.
THEOREM NoneAbandoned == Spec => []NobodyAbandoned
BY Inductive, PTL DEF IInv

\* A cancel stops the worker after the clip in progress, through retries, other
\* cancels and a second worker on the same row.
THEOREM CancelStops == Spec => []CancelStopsAfterClip
<1>1. IInv => CancelStopsAfterClip
  BY DEF IInv, Punctual, InTime, CancelStopsAfterClip
<1> QED
  BY <1>1, Inductive, PTL
=============================================================================
