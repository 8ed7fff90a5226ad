------------------------------- MODULE Control -------------------------------
(***************************************************************************)
(* The control plane (control/service.py): the job and device records of    *)
(* the store, the per-worker queues of actions, and one action per request, *)
(* worker report and timer.  A handler is one atomic step here; what the    *)
(* API's thread pool adds to that is in Threads.                            *)
(*                                                                         *)
(* Workers, trainers and operators are the environment: their requests      *)
(* arrive in any order, late, twice or not at all.                          *)
(*                                                                         *)
(* Handlers share long tails (a heartbeat reconciles, reclaims, preempts    *)
(* and places before it answers), so the steps are operators from snapshot  *)
(* to snapshot, and an action installs the snapshot its handler ends with.  *)
(***************************************************************************)
EXTENDS Scheduler

CONSTANTS
  Limited,       \* jobs with a wall-clock limit (spec.max_runtime or policy)
  Cools,         \* policy.cooldown_s > 0: a cooldown takes time
  AutoRollback,  \* policy.auto_rollback
  MaxRollbacks,  \* policy.max_rollbacks
  Seen,          \* what a worker may report of a device
  RunDirs,       \* what the control plane may find in a run directory
  MaxQueue       \* bound: actions waiting for one job at one worker

ASSUME LimitedAssumption  == Limited \subseteq Job
ASSUME CoolsAssumption    == Cools \in BOOLEAN
ASSUME RollbackAssumption == AutoRollback \in BOOLEAN /\ MaxRollbacks \in Nat
ASSUME SeenAssumption     == Seen \subseteq {"AVAILABLE", "TROIANI", "RESEARCHER"}
ASSUME QueueAssumption    == MaxQueue \in Nat

VARIABLES
  job,       \* the job records
  gpu,       \* the device records
  pending,   \* _pending_actions: by worker, and by job as jobs do not interact
  heard,     \* the age of each worker's last heartbeat: never, fresh or late
  draining,  \* kv draining_gpus
  stopAll    \* policy.stop_all, saved in kv policy_override

vars == <<job, gpu, pending, heard, draining, stopAll>>

\* The latest checkpoint the platform can find for a job: nothing, a step count
\* only, one whose kind counts as finished work, or another kind.
Checkpoint == {"none", "progress", "usable", "other"}

JobRecord ==
  [state : JobState \cup {"NONE"}, gpus : SUBSET Gpu, node : Node \cup {NoNode},
   preempt : BOOLEAN, cooldown : {"none", "running", "over"}, ckpt : Checkpoint,
   overdue : BOOLEAN, rollbacks : 0..MaxRollbacks]

GpuRecord ==
  [occ : {"UNSEEN", "AVAILABLE", "TROIANI", "RESEARCHER", "DRAINING"}, job : Job \cup {NoJob}]

Action == [kind : {"START", "STOP", "PREEMPT", "KILL"}, gpus : SUBSET Gpu]

Order(kind) == [kind |-> kind, gpus |-> {}]

\* DONE marker and latest valid checkpoint of a run directory.
RunDir == [marker : {"none", "preempted", "finished"}, latest : {"none", "usable", "other"}]
ASSUME RunDirsAssumption == RunDirs \subseteq RunDir

NewJob ==
  [state |-> "NONE", gpus |-> {}, node |-> NoNode, preempt |-> FALSE, cooldown |-> "none",
   ckpt |-> "none", overdue |-> FALSE, rollbacks |-> 0]

Store ==
  [job |-> job, gpu |-> gpu, pending |-> pending,
   heard |-> heard, draining |-> draining, stopAll |-> stopAll]

\* A repeated order is as good as one: queues do not grow by repetition.
Push(queue, action) ==
  IF queue # <<>> /\ queue[Len(queue)] = action THEN queue ELSE Append(queue, action)

Install(s) ==
  /\ \A n \in Node, j \in Job : Len(s.pending[n][j]) <= MaxQueue
  /\ job' = s.job
  /\ gpu' = s.gpu
  /\ pending' = s.pending
  /\ heard' = s.heard
  /\ draining' = s.draining
  /\ stopAll' = s.stopAll

------------------------------------------------------------------------------
(* The pieces handlers are made of.                                         *)

\* _queue_action for every job of J, at the worker that owns it.
Tell(s, J, action) ==
  [s EXCEPT !.pending =
     [n \in Node |-> [j \in Job |->
        IF j \in J /\ s.job[j].node = n THEN Push(s.pending[n][j], action)
        ELSE s.pending[n][j]]]]

\* _release_gpus for every job of J: by the device records, not by the jobs'
\* own lists.
Release(s, J) ==
  [s EXCEPT !.gpu =
     [g \in Gpu |->
        IF s.gpu[g].job \in J THEN [occ |-> "AVAILABLE", job |-> NoJob] ELSE s.gpu[g]]]

SetJob(s, j, r) == [s EXCEPT !.job = [s.job EXCEPT ![j] = r]]

SetState(s, j, st) == SetJob(s, j, [s.job[j] EXCEPT !.state = st])

Asked(r) ==
  [r EXCEPT !.preempt = TRUE, !.state = IF r.state = "RUNNING" THEN "CHECKPOINTING" ELSE r.state]

Requeued(r) ==
  [r EXCEPT !.state = "QUEUED", !.gpus = {}, !.node = NoNode, !.preempt = FALSE]

\* preempt for every job of J that is active.
PreemptJobs(s, J) ==
  LET asked == J \cap Active(s)
  IN  IF asked = {} THEN s ELSE
      [Tell(s, asked, Order("PREEMPT")) EXCEPT !.job =
         [j \in Job |-> IF j \in asked THEN Asked(s.job[j]) ELSE s.job[j]]]

(***************************************************************************)
(* _reclaim_stale_workers.  A job is taken from a silent worker when it is   *)
(* assigned there, and also when a device record of that node names it,      *)
(* wherever it runs now.  Devices of the node held for other jobs are freed, *)
(* and the node's queue is dropped.                                          *)
(***************************************************************************)
NamedOn(s, N) == {s.gpu[g].job : g \in {h \in Gpu : NodeOf[h] \in N}} \ {NoJob}

Orphans(s) ==
  {j \in Active(s) : s.job[j].node \in StaleNodes(s) \/ j \in NamedOn(s, StaleNodes(s))}

\* Seeded fault: the silent node keeps its queue.
ReclaimKeepingQueues(s) ==
  LET orphans == Orphans(s)
      freed   == Release(s, orphans \cup NamedOn(s, StaleNodes(s)))
  IN  [freed EXCEPT !.job =
         [j \in Job |-> IF j \in orphans THEN Requeued(s.job[j]) ELSE s.job[j]]]

Reclaim(s) ==
  LET orphans == Orphans(s)
      freed   == Release(s, orphans \cup NamedOn(s, StaleNodes(s)))
  IN  IF StaleNodes(s) = {} THEN s ELSE
      [freed EXCEPT
         !.job = [j \in Job |-> IF j \in orphans THEN Requeued(s.job[j]) ELSE s.job[j]],
         !.pending = [n \in Node |->
            IF n \in StaleNodes(s) THEN [j \in Job |-> <<>>] ELSE s.pending[n]]]

Placed(r, G) ==
  [r EXCEPT !.state = IF r.ckpt = "none" THEN "SCHEDULED" ELSE "RESUMING",
            !.gpus = G, !.node = HomeOf(G), !.preempt = FALSE]

\* _allocate for every job the pass P places.
Allocate(s, P) ==
  [s EXCEPT
     !.job = [j \in Job |-> IF P[j] = {} THEN s.job[j] ELSE Placed(s.job[j], P[j])],
     !.gpu = [g \in Gpu |->
        IF \E j \in Job : g \in P[j]
        THEN [occ |-> "TROIANI", job |-> CHOOSE j \in Job : g \in P[j]]
        ELSE s.gpu[g]],
     !.pending = [n \in Node |-> [j \in Job |->
        IF P[j] # {} /\ HomeOf(P[j]) = n
        THEN Push(s.pending[n][j], [kind |-> "START", gpus |-> P[j]])
        ELSE s.pending[n][j]]]]

\* tick: reclaim, decide on the result, ask the victims to leave, place.  Outside
\* the policy windows, which the pass may find open or not, nobody is placed.
TickResults(s) ==
  LET r       == Reclaim(s)
      evicted == PreemptJobs(r, Victims(r) \cup Exceeded(r))
  IN  {evicted} \cup {Allocate(evicted, P) : P \in Passes(r)}

(***************************************************************************)
(* job_exit.  What the exit means is pieced together from the exit code,     *)
(* the log tail, the run directory and the job's own record; work that       *)
(* reached a checkpoint counts as finished unless the process was killed.    *)
(***************************************************************************)
ExitReport == [code : {"ok", "preempted", "error", "killed"},
               tail : {"none", "completed", "preempted"}]

Verdict(r, x, dir) ==
  LET code   == CASE dir.marker = "preempted" -> "preempted"
                  [] dir.marker = "finished"  -> "ok"
                  [] OTHER                    -> x.code
      latest == IF dir.latest # "none" THEN dir.latest ELSE r.ckpt
  IN  CASE code = "ok" \/ x.tail = "completed" -> "completed"
        [] r.preempt \/ code = "preempted" \/ x.tail = "preempted" -> "preempted"
        [] latest = "usable" /\ code # "killed" -> "completed"
        [] OTHER -> "failed"

\* _sync_job_checkpoint: a checkpoint never reported is picked up from disk.
Synced(r, dir) ==
  IF r.ckpt \in {"none", "progress"} /\ dir.latest # "none"
  THEN [r EXCEPT !.ckpt = dir.latest] ELSE r

\* A cooldown of no seconds has passed before the next pass looks at it.
NewCooldown == IF Cools THEN "running" ELSE "over"

Settled(r, verdict) ==
  CASE verdict = "completed" -> [r EXCEPT !.state = "COMPLETED", !.gpus = {}]
    [] verdict = "failed"    -> [r EXCEPT !.state = "FAILED", !.gpus = {}]
    \* _finish_preempt requeues only a job that still looks active.
    [] verdict = "preempted" /\ r.state \in ActiveStates \cup {"PREEMPTED"} ->
         [Requeued(r) EXCEPT !.cooldown = NewCooldown]
    [] OTHER -> r

\* Seeded fault: a cancelled job is not closed to late exits.
ClosedIfDone(r) == r.state = "COMPLETED"

Closed(r) == r.state \in {"COMPLETED", "CANCELLED"}

\* One exit for each job in the domain of exits, which gives its report and the
\* run directory it is read with.
JobExits(s, exits) ==
  LET ended == {j \in DOMAIN exits : ~Closed(s.job[j])}
  IN  [Release(s, ended) EXCEPT !.job =
         [j \in Job |->
            IF j \notin DOMAIN exits THEN s.job[j]
            ELSE LET e == exits[j]
                     r == Synced(s.job[j], e.dir)
                 IN  IF j \in ended THEN Settled(r, Verdict(s.job[j], e.exit, e.dir)) ELSE r]]

------------------------------------------------------------------------------
(* Operators.                                                               *)

Exists(j) == job[j].state # "NONE"

\* Ids are handed out in creation order.
Submit(j) ==
  /\ job[j].state = "NONE"
  /\ \A k \in 1..(j - 1) : Exists(k)
  /\ \E s \in TickResults(SetState(Store, j, "PENDING")) : Install(s)

\* Seeded fault: cancelling leaves the device records as they are.
CancelUnreleased(j) ==
  /\ Exists(j)
  /\ CanMove(job[j].state, "CANCELLED")
  /\ LET told == IF j \in Active(Store) THEN Tell(Store, {j}, Order("STOP")) ELSE Store
     IN  Install(SetState(told, j, "CANCELLED"))

Cancel(j) ==
  /\ Exists(j)
  /\ CanMove(job[j].state, "CANCELLED")
  /\ LET told == IF j \in Active(Store) THEN Tell(Store, {j}, Order("STOP")) ELSE Store
     IN  Install(SetState(Release(told, {j}), j, "CANCELLED"))

PauseQueued(j) ==
  /\ job[j].state \in {"PENDING", "QUEUED", "PREEMPTED"}
  /\ Install(SetState(Store, j, "PAUSED"))

\* Before the run: the stop order is queued first, and stays queued when the
\* table then refuses the move (a job that is resuming cannot be queued).
PauseBeforeRun(j) ==
  /\ job[j].state \in {"SCHEDULED", "STARTING", "RESUMING"}
  /\ LET told == Tell(Store, {j}, Order("STOP"))
     IN  IF CanWalk(job[j].state, <<"QUEUED", "PAUSED">>)
         THEN Install(SetJob(Release(told, {j}), j,
                [job[j] EXCEPT !.state = "PAUSED", !.gpus = {}, !.node = NoNode]))
         ELSE Install(told)

PauseRunning(j) ==
  /\ job[j].state = "RUNNING"
  /\ Install(SetJob(Tell(Store, {j}, Order("PREEMPT")), j,
       [job[j] EXCEPT !.state = "PAUSED", !.preempt = TRUE]))

PauseCheckpointing(j) ==
  /\ job[j].state = "CHECKPOINTING"
  /\ Install(SetState(Store, j, "PAUSED"))

Pause(j) == PauseQueued(j) \/ PauseBeforeRun(j) \/ PauseRunning(j) \/ PauseCheckpointing(j)

\* An active job is returned as it is; a waiting one only gets the pass.
Resume(j) ==
  /\ Exists(j)
  /\ job[j].state \notin ActiveStates \cup {"COMPLETED", "CANCELLED"}
  /\ LET woken == IF job[j].state \in {"PAUSED", "PREEMPTED", "FAILED"}
                  THEN SetJob(Store, j, [job[j] EXCEPT !.state = "QUEUED", !.preempt = FALSE])
                  ELSE Store
     IN  \E s \in TickResults(woken) : Install(s)

Preempt(j) == j \in Active(Store) /\ Install(PreemptJobs(Store, {j}))

ReleaseAll == Install(PreemptJobs(Store, Preemptible))

StopAll == Install([PreemptJobs(Store, Preemptible) EXCEPT !.stopAll = TRUE])

ResumeAll == \E s \in TickResults([Store EXCEPT !.stopAll = FALSE]) : Install(s)

\* update_policy, which changes the latch without a release or a pass.
SetStopAll(latch) == Install([Store EXCEPT !.stopAll = latch])

Kill(j) == j \in Active(Store) /\ Install(Tell(Store, {j}, Order("KILL")))

\* The device record written last is the one read first, but preempting does
\* not change device records.
DrainGpu(g) ==
  /\ gpu[g].occ \notin {"UNSEEN", "RESEARCHER"}
  /\ Install([PreemptJobs(Store, {gpu[g].job}) EXCEPT
       !.draining = @ \cup {g}, !.gpu[g].occ = "DRAINING"])

UndrainGpu(g) ==
  Install([Store EXCEPT
    !.draining = @ \ {g},
    !.gpu[g].occ = IF @ = "DRAINING" THEN "AVAILABLE" ELSE @])

\* status, polled by the dashboard.
Status == Install(Reclaim(Store))

------------------------------------------------------------------------------
(* Workers and trainers.                                                    *)

\* What nvidia-smi says of a device, or nothing for a node whose query failed.
Reports(n) == [GpusOf(n) -> Seen] \cup {<<>>}

\* The claim of a job survives any report but RESEARCHER; the drain mark wins
\* over both but not over a researcher.
Refreshed(g, seen) ==
  LET claimed == gpu[g].job # NoJob /\ seen # "RESEARCHER"
      occ     == IF claimed THEN "TROIANI" ELSE seen
  IN  [occ |-> IF g \in draining /\ occ # "RESEARCHER" THEN "DRAINING" ELSE occ,
       job |-> IF claimed THEN gpu[g].job ELSE NoJob]

Refresh(n, report) ==
  [Store EXCEPT
     !.heard[n] = "fresh",
     !.gpu = [g \in Gpu |-> IF g \in DOMAIN report THEN Refreshed(g, report[g]) ELSE gpu[g]]]

\* _reconcile_worker_jobs: any of the worker's jobs may be listed as dead; the
\* exit code is made up from the job's record.
ReportedGone(r) ==
  [code |-> IF r.preempt \/ r.state = "CHECKPOINTING" THEN "preempted" ELSE "error",
   tail |-> "none"]

OwnedBy(n) == {j \in Active(Store) : job[j].node = n}

Reconciled(s, gone, dirs) ==
  IF gone = {} THEN s ELSE
  JobExits(s, [j \in gone |-> [exit |-> ReportedGone(s.job[j]), dir |-> dirs[j]]])

\* The answer carries the whole queue, and the queue is emptied before it is
\* known to arrive.
Delivered(s, n) == [s EXCEPT !.pending[n] = [j \in Job |-> <<>>]]

HeartbeatResults(n, report, gone, dirs) ==
  TickResults(Reconciled(Refresh(n, report), gone, dirs))

HeartbeatWith(n, report, gone, dirs) ==
  \E s \in HeartbeatResults(n, report, gone, dirs) : Install(Delivered(s, n))

Heartbeat(n) ==
  \E report \in Reports(n), gone \in SUBSET OwnedBy(n) :
    \E dirs \in [gone -> RunDirs] : HeartbeatWith(n, report, gone, dirs)

JobExit(j, exit, dir) ==
  /\ Exists(j)
  /\ Install(JobExits(Store, [k \in {j} |-> [exit |-> exit, dir |-> dir]]))

\* record_checkpoint.
CheckpointReport(j, kind) ==
  /\ Exists(j)
  /\ Install(SetJob(Store, j, [job[j] EXCEPT !.ckpt = kind]))

\* Seeded fault: a metric makes any job that is not over run, also one that waits.
SteppedAlways(r) ==
  [r EXCEPT !.state = IF r.state \notin TerminalStates THEN "RUNNING" ELSE r.state,
            !.ckpt = IF r.ckpt = "none" THEN "progress" ELSE r.ckpt]

\* record_metrics with a loss: the first one is what makes a job run.
Stepped(r) ==
  [r EXCEPT !.state = IF r.state \in {"SCHEDULED", "STARTING", "RESUMING"} THEN "RUNNING" ELSE r.state,
            !.ckpt = IF r.ckpt = "none" THEN "progress" ELSE r.ckpt]

WithMetric(s, j) == SetJob(s, j, Stepped(s.job[j]))

\* Seeded fault: a job that failed is queued again too.
RolledBackFailed(r) ==
  [r EXCEPT !.rollbacks = r.rollbacks + 1,
            !.state = IF r.state \in {"PAUSED", "FAILED"} THEN "QUEUED" ELSE r.state]

\* rollback: whatever is paused, by whomever, is queued again.
RolledBack(r) ==
  [r EXCEPT !.rollbacks = r.rollbacks + 1,
            !.state = IF r.state = "PAUSED" THEN "QUEUED" ELSE r.state]

\* Seeded fault: rollbacks are not limited.
WithAnomalyUnlimited(s, j) ==
  LET paused == IF s.job[j].state = "RUNNING"
                THEN SetState(Tell(s, {j}, Order("PREEMPT")), j, "PAUSED") ELSE s
  IN  IF AutoRollback THEN SetJob(paused, j, RolledBack(paused.job[j])) ELSE paused

WithAnomaly(s, j) ==
  LET paused == IF s.job[j].state = "RUNNING"
                THEN SetState(Tell(s, {j}, Order("PREEMPT")), j, "PAUSED") ELSE s
  IN  IF AutoRollback /\ s.job[j].rollbacks < MaxRollbacks
      THEN SetJob(paused, j, RolledBack(paused.job[j])) ELSE paused

\* A NaN loss is posted as no loss at all.
Metrics(j, loss, anomaly) ==
  /\ Exists(j)
  /\ LET seen == IF loss THEN WithMetric(Store, j) ELSE Store
     IN  Install(IF anomaly THEN WithAnomaly(seen, j) ELSE seen)

Anomaly(j) == Exists(j) /\ Install(WithAnomaly(Store, j))

------------------------------------------------------------------------------
(* Time, and restarts of the control plane.                                 *)

GoLate(n) ==
  /\ heard[n] = "fresh"
  /\ heard' = [heard EXCEPT ![n] = "late"]
  /\ UNCHANGED <<job, gpu, pending, draining, stopAll>>

CooldownOver(j) ==
  /\ job[j].cooldown = "running"
  /\ job' = [job EXCEPT ![j].cooldown = "over"]
  /\ UNCHANGED <<gpu, pending, heard, draining, stopAll>>

\* Trained time only accumulates: past the limit, past it for good.
RunOut(j) ==
  /\ j \in Limited \cap Active(Store)
  /\ job' = [job EXCEPT ![j].overdue = TRUE]
  /\ UNCHANGED <<gpu, pending, heard, draining, stopAll>>

\* Everything but the queues is in the store.
Restart ==
  /\ pending' = [n \in Node |-> [j \in Job |-> <<>>]]
  /\ UNCHANGED <<job, gpu, heard, draining, stopAll>>

------------------------------------------------------------------------------

Init ==
  /\ job = [j \in Job |-> NewJob]
  /\ gpu = [g \in Gpu |-> [occ |-> "UNSEEN", job |-> NoJob]]
  /\ pending = [n \in Node |-> [j \in Job |-> <<>>]]
  /\ heard = [n \in Node |-> "never"]
  /\ draining = {}
  /\ stopAll = FALSE

Operate ==
  \/ \E j \in Job : Submit(j) \/ Cancel(j) \/ Pause(j) \/ Resume(j) \/ Preempt(j) \/ Kill(j)
  \/ ReleaseAll \/ StopAll \/ ResumeAll \/ Status
  \/ \E latch \in BOOLEAN : SetStopAll(latch)
  \/ \E g \in Gpu : DrainGpu(g) \/ UndrainGpu(g)

Report ==
  \/ \E n \in Node : Heartbeat(n)
  \/ \E j \in Job :
       \/ \E exit \in ExitReport, dir \in RunDirs : JobExit(j, exit, dir)
       \/ \E kind \in {"usable", "other"} : CheckpointReport(j, kind)
       \/ \E loss, anomaly \in BOOLEAN : Metrics(j, loss, anomaly)
       \/ Anomaly(j)

Clock ==
  \/ \E n \in Node : GoLate(n)
  \/ \E j \in Job : CooldownOver(j) \/ RunOut(j)
  \/ Restart

Next == Operate \/ Report \/ Clock

Spec == Init /\ [][Next]_vars

------------------------------------------------------------------------------
(* Properties.                                                              *)

\* Every record has the shape the code gives it.
TypeOK ==
  /\ job \in [Job -> JobRecord]
  /\ gpu \in [Gpu -> GpuRecord]
  /\ pending \in [Node -> [Job -> Seq(Action)]]
  /\ heard \in [Node -> {"never", "fresh", "late"}]
  /\ draining \in SUBSET Gpu
  /\ stopAll \in BOOLEAN

\* A device belongs to one active job at a time.  The scheduler sees to it by
\* reserving the devices of active jobs, except those it is evicting; a job past
\* its wall-clock limit loses that protection (see Limited).
NoDoubleAllocation ==
  \A j, k \in Active(Store) : j # k => job[j].gpus \cap job[k].gpus = {}

\* The two records of an assignment agree: a device an active job is assigned is
\* never claimed by another job.  Researcher reports may wipe the claim.
ClaimsAgree ==
  \A j \in Active(Store) : \A g \in job[j].gpus : gpu[g].job \in {j, NoJob}

\* An active job has all the devices it asked for, on the one node it runs on.
PlacedWhole ==
  \A j \in Active(Store) :
    /\ Cardinality(job[j].gpus) = Want[j]
    /\ job[j].gpus \subseteq Fits[j]
    /\ \A g \in job[j].gpus : NodeOf[g] = job[j].node

\* A device is not kept for a job that is over, or that never ran: whichever of
\* exit, cancel, reclaim and reconciliation closed it gave the device back.
NoClaimOfTheDead ==
  \A g \in Gpu :
    gpu[g].job # NoJob => job[gpu[g].job].state \in ActiveStates \cup {"QUEUED", "PAUSED"}

\* Researchers first, as far as the records go: from the report that shows a
\* researcher on a device of a preemptible job, that job stays asked to leave for
\* as long as it is active, whatever the trainer reports in between.
EvictionRequested ==
  \A j \in Active(Store) \cap Preemptible :
    (\E g \in job[j].gpus : gpu[g].occ = "RESEARCHER") => job[j].preempt

\* The handlers that no user waits for (passes, metrics, anomalies, exits, reclaims,
\* reconciliation) only ever ask the table for moves it allows, so that none of them
\* stops halfway through its job.  The code walks through the table where the actions
\* here take one step; the walks are those of _allocate, record_metrics,
\* _finish_preempt, _reclaim_orphaned_job, record_anomaly, preempt and job_exit.
HandlersNeverRaise ==
  \A j \in Job :
    LET st == job[j].state
    IN  /\ st \in {"PENDING", "QUEUED"} => CanWalk(st, <<"QUEUED", "SCHEDULED", "RESUMING">>)
        /\ st = "SCHEDULED" => CanWalk(st, <<"STARTING", "RUNNING">>)
        /\ st \in {"STARTING", "RESUMING"} => CanMove(st, "RUNNING")
        /\ st \in {"STARTING", "RESUMING", "RUNNING"} =>
             CanWalk(st, <<"CHECKPOINTING", "PREEMPTED", "QUEUED">>)
        /\ st \in ActiveStates \ {"RESUMING"} => CanWalk(st, <<"PREEMPTED", "QUEUED">>)
        /\ st = "RUNNING" => CanWalk(st, <<"ANOMALY", "PAUSED", "QUEUED">>)
        /\ st = "RUNNING" => CanWalk(st, <<"CHECKPOINTING", "PAUSED">>)
        /\ st = "FAILED" => CanWalk(st, <<"QUEUED", "COMPLETED">>)
        /\ st \notin {"NONE", "FAILED", "COMPLETED", "CANCELLED"} =>
             CanMove(st, "COMPLETED") /\ CanMove(st, "FAILED")

\* Late or repeated reports (exits, metrics, anomalies with their rollback, the
\* listing of a dead process) never bring back a job that is over.
NoResurrection ==
  [][\A j \in Job :
       job[j].state \in {"COMPLETED", "CANCELLED"} => job'[j].state = job[j].state]_vars

\* A job leaves FAILED only by an operator's resume or by an exit that shows it
\* finished after all, never by a pass or a rollback on its own.
FailuresStay ==
  [][\A j \in Job : job[j].state = "FAILED" /\ ~Resume(j) => job'[j].state \in {"FAILED", "COMPLETED"}]_vars

\* docs/policy.md: max_jobs and max_troiani_gpus cap what runs at the same time.
\* The scheduler tests each job of a pass against the jobs that ran before it.
CapsHold ==
  /\ Cardinality(Active(Store)) <= MaxJobs
  /\ Cardinality(Held(Store, Active(Store))) <= MaxGpus

\* After a sweep nothing of a silent node is in use: no active job is assigned
\* there, no device record of it is claimed, nothing waits in its queue.
SweepIsComplete ==
  [][Status =>
       \A n \in StaleNodes(Store) :
         /\ \A j \in Job : job'[j].state \in ActiveStates => job'[j].node # n
         /\ \A g \in GpusOf(n) : gpu'[g].job = NoJob
         /\ \A j \in Job : pending'[n][j] = <<>>]_vars

==============================================================================
