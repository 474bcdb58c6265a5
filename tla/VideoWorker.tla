----------------------------- MODULE VideoWorker -----------------------------
(***************************************************************************)
(* Music-video jobs: the API's handlers (routers/music_video.py) and the   *)
(* render worker (music_video/worker.py), a process of its own that is     *)
(* spawned when a job is queued, keeps a pid file and exits when it finds  *)
(* the queue empty.  Handlers and workers share the job rows; each reads a *)
(* row and commits it in two steps, with no lock in between.               *)
(***************************************************************************)
EXTENDS Integers

CONSTANTS
  Jobs,       \* bound: job ids, handed out in order
  Workers,    \* bound: worker processes at one time
  Clips,      \* segments of the plan
  MaxRetries, \* bound: retries asked for
  MaxDeaths   \* bound: workers or servers killed

NoPid == "no pid file"
Dead == "pid of a process that is gone"

ASSUME VideoAssumption ==
  /\ Jobs \subseteq Nat \ {0}
  /\ NoPid \notin Workers /\ Dead \notin Workers
  /\ Clips \in Nat
  /\ MaxRetries \in Nat /\ MaxDeaths \in Nat

VARIABLES
  job,      \* the rows: status, whether there is a plan, clips on disk
  pidfile,  \* the worker named in worker.pid, NoPid, or Dead
  worker,   \* what each worker process is doing
  handler,  \* a cancel or retry that has read its row and not committed yet
  pending,  \* handlers that have committed a job and not asked for a worker
  lapse,    \* history: somebody relied on a worker that was on its way out,
            \* or died, and no worker was started since
  retries, deaths

vars == <<job, pidfile, worker, handler, pending, lapse, retries, deaths>>

NoJob == 0

Active == {"queued", "analyzing", "rendering", "stitching"}
OnlyQueued == {"queued"}
ActiveStatus == Active
Status == {"absent", "done", "failed", "cancelled"} \cup Active

\* `at` is how far a worker is: in main, or in process_job for `on`.  `goal`
\* is what the save under way announces, `seen` the status it has read, `clip`
\* the clip at hand, `late` (history) the clips it has finished since its job
\* was cancelled.
Worker ==
  [at: {"none", "born", "checked", "loop", "empty", "next", "save", "write",
        "analyze", "render", "stitch", "failing"},
   on: Jobs \cup {NoJob},
   goal: {"analyzing", "planned", "waiting", "rendering", "stitching", "done"},
   seen: Status, clip: 0 .. Clips, late: 0 .. 2]

NoWorker == [at |-> "none", on |-> NoJob, goal |-> "done", seen |-> "absent",
             clip |-> 0, late |-> 0]
Free == [op |-> "free", on |-> NoJob]

TypeOK ==
  /\ job \in [Jobs -> [status: Status, planned: BOOLEAN, clips: 0 .. Clips]]
  /\ pidfile \in Workers \cup {NoPid, Dead}
  /\ worker \in [Workers -> Worker]
  /\ handler \in [op: {"free", "cancel", "retry"}, on: Jobs \cup {NoJob}]
  /\ pending \in Nat
  /\ lapse \in BOOLEAN
  /\ retries \in 0 .. MaxRetries
  /\ deaths \in 0 .. MaxDeaths

IsActive(j) == job[j].status \in Active

-----------------------------------------------------------------------------
(* Starting a worker *)

\* worker_alive: the file names a process that runs.
Alive == pidfile \in Workers
OnItsWayOut == Alive /\ worker[pidfile].at = "empty"

\* spawn_worker: nothing if one is alive, else a new process.
Spawn ==
  \/ /\ Alive
     /\ lapse' = (lapse \/ OnItsWayOut)
     /\ UNCHANGED worker
  \/ /\ ~Alive
     /\ \E w \in Workers :
          /\ worker[w].at = "none"
          /\ worker' = [worker EXCEPT ![w].at = "born"]
     /\ lapse' = FALSE

\* The last thing create, retry and rerender do.
AskForWorker ==
  /\ pending > 0
  /\ pending' = pending - 1
  /\ Spawn
  /\ UNCHANGED <<job, pidfile, handler, retries, deaths>>

\* main() asks again, before it writes the pid file.
SecondLook(w) ==
  /\ worker[w].at = "born"
  /\ \/ /\ Alive
        /\ worker' = [worker EXCEPT ![w] = NoWorker]
        /\ lapse' = (lapse \/ OnItsWayOut)
     \/ /\ ~Alive
        /\ worker' = [worker EXCEPT ![w].at = "checked"]
        /\ UNCHANGED lapse
  /\ UNCHANGED <<job, pidfile, handler, pending, retries, deaths>>

WritePid(w) ==
  /\ worker[w].at = "checked"
  /\ pidfile' = w
  /\ worker' = [worker EXCEPT ![w].at = "loop"]
  /\ UNCHANGED <<job, handler, pending, lapse, retries, deaths>>

\* The oldest active job, or the end of the loop.
TakeJob(w) ==
  LET queue == {j \in Jobs : job[j].status \in ActiveStatus}
  IN  /\ worker[w].at = "loop"
      /\ \/ /\ queue = {}
            /\ worker' = [worker EXCEPT ![w].at = "empty"]
         \/ \E j \in queue :
              /\ \A k \in queue : j <= k
              /\ worker' = [worker EXCEPT ![w] =
                              [NoWorker EXCEPT !.at = "next", !.on = j]]
      /\ UNCHANGED <<job, pidfile, handler, pending, lapse, retries, deaths>>

\* finally: the pid file goes if it is still this worker's; the process ends.
Exit(w) ==
  /\ worker[w].at = "empty"
  /\ pidfile' = IF pidfile = w THEN NoPid ELSE pidfile
  /\ worker' = [worker EXCEPT ![w] = NoWorker]
  /\ UNCHANGED <<job, handler, pending, lapse, retries, deaths>>

-----------------------------------------------------------------------------
(* process_job *)

Going(w, at, goal) ==
  worker' = [worker EXCEPT ![w].at = at, ![w].goal = goal]

\* The worker with its locals as they are between two steps of process_job, and
\* done with the job.
Onward(me) == [NoWorker EXCEPT !.at = "next", !.on = me.on, !.late = me.late]
DoneWithJob == [NoWorker EXCEPT !.at = "loop"]

\* What comes next: a plan if the row has none, the first clip that is not on
\* disk once the GPU is free, and after the last one the stitching.
WaitForGpu(w) ==
  /\ worker[w].at = "next"
  /\ job[worker[w].on].planned
  /\ job[worker[w].on].clips < Clips
  /\ Going(w, "save", "waiting")
  /\ UNCHANGED <<job, pidfile, handler, pending, lapse, retries, deaths>>

Proceed(w) ==
  LET row == job[worker[w].on] IN
  /\ worker[w].at = "next"
  /\ worker' = [worker EXCEPT
       ![w].at = "save",
       ![w].clip = IF row.clips < Clips THEN row.clips ELSE 0,
       ![w].goal = IF ~row.planned THEN "analyzing"
                   ELSE IF row.clips < Clips THEN "rendering" ELSE "stitching"]
  /\ UNCHANGED <<job, pidfile, handler, pending, lapse, retries, deaths>>

RefreshCached(w) ==
  LET me == worker[w]
      read == IF me.goal = "rendering" /\ me.clip > 0 THEN "rendering"
              ELSE job[me.on].status
  IN  /\ me.at = "save"
      /\ worker' = [worker EXCEPT
           ![w] = IF read = "cancelled" THEN DoneWithJob
                  ELSE [@ EXCEPT !.at = "write", !.seen = read]]
      /\ UNCHANGED <<job, pidfile, handler, pending, lapse, retries, deaths>>

\* save(), first half: the row is read, and a cancelled job is given up.
Refresh(w) ==
  LET read == job[worker[w].on].status IN
  /\ worker[w].at = "save"
  /\ worker' = [worker EXCEPT
       ![w] = IF read = "cancelled" THEN DoneWithJob
              ELSE [@ EXCEPT !.at = "write", !.seen = read]]
  /\ UNCHANGED <<job, pidfile, handler, pending, lapse, retries, deaths>>

\* What an announcement is followed by.
Effort == [analyzing |-> "analyze", rendering |-> "render", stitching |-> "stitch"]

\* Second half: a status that differs from the one read is written, whatever
\* the row says by then; one that does not is left out of the UPDATE.
Write(w) ==
  LET me == worker[w]
      status == IF me.goal = "planned" THEN me.seen
                ELSE IF me.goal = "waiting" THEN "rendering" ELSE me.goal
  IN  /\ me.at = "write"
      /\ job' = [job EXCEPT
           ![me.on].status = IF status = me.seen THEN @ ELSE status,
           ![me.on].planned = @ \/ me.goal = "planned"]
      /\ worker' = [worker EXCEPT ![w] =
           CASE me.goal \in DOMAIN Effort ->
                  [Onward(me) EXCEPT !.at = Effort[me.goal], !.clip = me.clip]
             [] me.goal \in {"planned", "waiting"} -> Onward(me)
             [] OTHER -> DoneWithJob]
      /\ UNCHANGED <<pidfile, handler, pending, lapse, retries, deaths>>

CountsUp(row, clip) == [row EXCEPT !.clips = @ + 1]

\* A rendered clip replaces whatever file of its name there is.
Rendered(row, clip) == [row EXCEPT !.clips = IF @ > clip THEN @ ELSE clip + 1]

\* The long steps: each can raise.
Work(w) ==
  LET me == worker[w] IN
  /\ \/ /\ me.at = "analyze"
        /\ Going(w, "save", "planned")
        /\ UNCHANGED job
     \/ /\ me.at = "render"
        /\ job' = [job EXCEPT ![me.on] = Rendered(@, me.clip)]
        /\ worker' = [worker EXCEPT ![w] =
             [Onward(me) EXCEPT !.late = IF job[me.on].status = "cancelled" /\ @ < 2
                                         THEN @ + 1 ELSE @]]
     \/ /\ me.at = "stitch"
        /\ Going(w, "save", "done")
        /\ UNCHANGED job
     \/ /\ me.at \in {"analyze", "render", "stitch"}
        /\ worker' = [worker EXCEPT ![w] = [Onward(me) EXCEPT !.at = "failing"]]
        /\ UNCHANGED job
  /\ UNCHANGED <<pidfile, handler, pending, lapse, retries, deaths>>

LeaveAsItIs(w) ==
  /\ worker[w].at = "failing"
  /\ worker' = [worker EXCEPT ![w] = DoneWithJob]
  /\ UNCHANGED <<job, pidfile, handler, pending, lapse, retries, deaths>>

\* except Exception: after the rollback the row says "failed", cancelled,
\* retried or not.
Fail(w) ==
  /\ worker[w].at = "failing"
  /\ job' = [job EXCEPT ![worker[w].on].status = "failed"]
  /\ worker' = [worker EXCEPT ![w] = DoneWithJob]
  /\ UNCHANGED <<pidfile, handler, pending, lapse, retries, deaths>>

-----------------------------------------------------------------------------
(* The API *)

\* POST /jobs, and rerender: a new row with a plan.
CreateJob(j) ==
  /\ job[j].status = "absent"
  /\ \A k \in Jobs : k < j => job[k].status # "absent"
  /\ job' = [job EXCEPT ![j].status = "queued", ![j].planned = TRUE]
  /\ pending' = pending + 1
  /\ UNCHANGED <<pidfile, worker, handler, lapse, retries, deaths>>

ReadRow(op, j) ==
  /\ handler = Free
  /\ \/ op = "cancel" /\ IsActive(j)
     \/ op = "retry" /\ job[j].status \in {"failed", "cancelled"}
                     /\ retries < MaxRetries
  /\ handler' = [op |-> op, on |-> j]
  /\ UNCHANGED <<job, pidfile, worker, pending, lapse, retries, deaths>>

\* Nobody has finished a clip of j since it changed hands.
OnTime(j) == [w \in Workers |-> IF worker[w].on = j
                                THEN [worker[w] EXCEPT !.late = 0] ELSE worker[w]]

CommitCancel ==
  /\ handler.op = "cancel"
  /\ job' = [job EXCEPT ![handler.on].status = "cancelled"]
  /\ worker' = OnTime(handler.on)
  /\ handler' = Free
  /\ UNCHANGED <<pidfile, pending, lapse, retries, deaths>>

RequeueOnly ==
  /\ handler.op = "retry"
  /\ job' = [job EXCEPT ![handler.on].status = "queued"]
  /\ worker' = OnTime(handler.on)
  /\ handler' = Free
  /\ retries' = retries + 1
  /\ UNCHANGED <<pidfile, pending, lapse, deaths>>

CommitRetry ==
  /\ handler.op = "retry"
  /\ job' = [job EXCEPT ![handler.on].status = "queued"]
  /\ worker' = OnTime(handler.on)
  /\ pending' = pending + 1
  /\ handler' = Free
  /\ retries' = retries + 1
  /\ UNCHANGED <<pidfile, lapse, deaths>>

-----------------------------------------------------------------------------
(* Deaths *)

WorkerDies(w) ==
  /\ worker[w].at # "none"
  /\ deaths < MaxDeaths
  /\ deaths' = deaths + 1
  /\ worker' = [worker EXCEPT ![w] = NoWorker]
  /\ pidfile' = IF pidfile = w THEN Dead ELSE pidfile
  /\ lapse' = TRUE
  /\ UNCHANGED <<job, handler, pending, retries>>

\* The server is restarted; on the way up it starts a worker if a job is
\* active (_resume_music_video_worker).  Workers live on.
ServerRestarts ==
  /\ deaths < MaxDeaths
  /\ deaths' = deaths + 1
  /\ pending' = 0
  /\ handler' = Free
  /\ \/ (\E j \in Jobs : IsActive(j)) /\ Spawn
     \/ (\A j \in Jobs : ~IsActive(j)) /\ UNCHANGED <<worker, lapse>>
  /\ UNCHANGED <<job, pidfile, retries>>

-----------------------------------------------------------------------------
\* At first there may be one row of an older version: queued, with no plan.
Init ==
  /\ job \in {[j \in Jobs |->
                 [status |-> IF j \in old THEN "queued" ELSE "absent",
                  planned |-> FALSE, clips |-> 0]] :
               old \in {S \in SUBSET Jobs : \A j \in S, k \in Jobs : j <= k}}
  /\ pidfile = NoPid
  /\ worker = [w \in Workers |-> NoWorker]
  /\ handler = Free
  /\ pending = IF \E j \in Jobs : IsActive(j) THEN 1 ELSE 0
  /\ lapse = FALSE
  /\ retries = 0
  /\ deaths = 0

WorkerNext(w) ==
  \/ SecondLook(w) \/ WritePid(w) \/ TakeJob(w) \/ Exit(w)
  \/ Proceed(w) \/ Refresh(w) \/ Write(w) \/ Work(w) \/ Fail(w)

ApiNext ==
  \/ \E j \in Jobs : CreateJob(j) \/ ReadRow("cancel", j) \/ ReadRow("retry", j)
  \/ CommitCancel \/ CommitRetry \/ AskForWorker

Next ==
  \/ ApiNext
  \/ \E w \in Workers : WorkerNext(w) \/ WaitForGpu(w) \/ WorkerDies(w)
  \/ ServerRestarts

Spec == Init /\ [][Next]_vars

\* Handlers and workers run on; the GPU is free again and again.
Fairness ==
  /\ WF_vars(AskForWorker)
  /\ WF_vars(CommitCancel \/ CommitRetry)
  /\ \A w \in Workers : WF_vars(WorkerNext(w)) /\ SF_vars(Proceed(w))

LiveSpec == Spec /\ Fairness

-----------------------------------------------------------------------------
(* Properties *)

Serving(w) == worker[w].at \notin {"none", "empty"}

\* A job waits without a worker, or a handler about to ask for one, only if a
\* worker died or somebody took a worker for alive that had already found the
\* queue empty: a worker's exit is not atomic with its last look at the queue.
NobodyAbandoned ==
  (\E j \in Jobs : IsActive(j)) /\ pending = 0 /\ (\A w \in Workers : ~Serving(w))
  => lapse

\* What cancel promises: "the clip in progress finishes first", and no more.
CancelStopsAfterClip ==
  \A w \in Workers :
    worker[w].on # NoJob /\ job[worker[w].on].status = "cancelled"
    => worker[w].late <= 1

\* Every active job is rendered, fails or is cancelled, through two workers on
\* the same rows, cancels and retries; but for an abandoned one.
JobsEnd == \A j \in Jobs : IsActive(j) ~> ~IsActive(j) \/ lapse
=============================================================================
