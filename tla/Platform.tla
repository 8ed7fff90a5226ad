------------------------------ MODULE Platform ------------------------------
(***************************************************************************)
(* The control plane with its workers (worker/worker.py), the trainers they *)
(* run (training/dummy_train.py is the reference trainer) and the people    *)
(* the devices belong to.  Every step that reaches the control plane is one *)
(* of Control's handlers with the inputs the other side really has.         *)
(*                                                                         *)
(* A worker is a loop: post a heartbeat, apply the answer, reap.  Signals    *)
(* only ask: a trainer leaves some time after it is told to.                *)
(***************************************************************************)
EXTENDS Control

VARIABLES
  phase,   \* where each worker is in its loop
  inbox,   \* the actions of the last answer, not applied yet
  cut,     \* workers whose last heartbeat was not answered
  proc,    \* the worker's table of processes, self.procs
  strays,  \* trainers that are alive and in no worker's table
  users    \* devices with a researcher on them

sideVars == <<phase, inbox, cut, proc, strays, users>>
allVars  == <<vars, sideVars>>

\* A trainer is up, has been asked for a checkpoint (SIGUSR1), told to stop
\* (SIGTERM), or is leaving after an anomaly, in two posts ("failing",
\* "parting"); or it has ended in one of four ways.
Living == {"up", "asked", "told", "failing", "parting"}
Ended  == {"ok", "preempted", "error", "killed"}

NoProc  == [st |-> "none", gpus |-> {}]
Nothing == [j \in Job |-> <<>>]
NoFiles == [marker |-> "none", latest |-> "none"]  \* checkpoints stay on their node

Alive(n, j) == proc[n][j].st \in Living

\* The jobs with a living trainer on device g.
TrainersOn(g) ==
  {j \in Job : \E n \in Node : Alive(n, j) /\ g \in proc[n][j].gpus}
    \cup {x.job : x \in {y \in strays : g \in y.gpus}}

------------------------------------------------------------------------------
(* The worker.                                                              *)

\* What discovery makes of the processes on a device.
SeenOn(g) ==
  CASE g \in users            -> "RESEARCHER"
    [] g \notin users /\ TrainersOn(g) # {} -> "TROIANI"
    [] OTHER                  -> "AVAILABLE"

\* Seeded fault: any job that is not listed counts as gone, also before its run.
GoneIfUnlisted(n) == {j \in OwnedBy(n) : proc[n][j].st \in Ended \cup {"none"}}

\* Seeded fault: reconciliation does not ask whether the job is this worker's.
GoneOfOthers(n) ==
  {j \in Job :
     \/ proc[n][j].st \in Ended
     \/ proc[n][j].st = "none" /\ job[j].state \in {"RUNNING", "CHECKPOINTING"}}

\* The jobs reconciliation finds gone: listed with a dead process, or running
\* by the record and not listed at all.
Gone(n) ==
  {j \in OwnedBy(n) :
     \/ proc[n][j].st \in Ended
     \/ proc[n][j].st = "none" /\ job[j].state \in {"RUNNING", "CHECKPOINTING"}}

\* A heartbeat.  The control plane handles it and empties the queue; when the
\* answer does not make it back, what it carried is nowhere.
WorkerBeat(n, answered) ==
  /\ phase[n] = "beat"
  /\ \E s \in HeartbeatResults(n, [g \in GpusOf(n) |-> SeenOn(g)], Gone(n),
                               [j \in Gone(n) |-> NoFiles]) :
       /\ Install(Delivered(s, n))
       /\ inbox' = [inbox EXCEPT ![n] = IF answered THEN s.pending[n] ELSE Nothing]
  /\ cut' = IF answered THEN cut \ {n} ELSE cut \cup {n}
  /\ phase' = [phase EXCEPT ![n] = "apply"]
  /\ UNCHANGED <<proc, strays, users>>

\* The request itself is lost: the worker goes round with nothing to apply.
BeatLost(n) ==
  /\ phase[n] = "beat"
  /\ phase' = [phase EXCEPT ![n] = "apply"]
  /\ cut' = cut \cup {n}
  /\ UNCHANGED <<vars, inbox, proc, strays, users>>

\* Seeded fault: a killed process is entered under a status of its own.
ObeyGone(p, action) ==
  CASE action.kind = "START" /\ p.st \notin Living -> [st |-> "up", gpus |-> action.gpus]
    [] action.kind = "PREEMPT" /\ p.st \in {"up", "told"} -> [p EXCEPT !.st = "asked"]
    [] action.kind = "STOP" /\ p.st = "up" -> [p EXCEPT !.st = "told"]
    [] action.kind = "KILL" /\ p.st \in Living -> [p EXCEPT !.st = "gone"]
    [] OTHER -> p

\* One action on one process.  A start is dropped while the old process lives
\* and replaces a dead one that was not reaped; orders to the dead are dropped.
Obey(p, action) ==
  CASE action.kind = "START" /\ p.st \notin Living -> [st |-> "up", gpus |-> action.gpus]
    [] action.kind = "PREEMPT" /\ p.st \in {"up", "told"} -> [p EXCEPT !.st = "asked"]
    [] action.kind = "STOP" /\ p.st = "up" -> [p EXCEPT !.st = "told"]
    [] action.kind = "KILL" /\ p.st \in Living -> [p EXCEPT !.st = "killed"]
    [] OTHER -> p

\* What becomes of a process under a queue of orders, taken one after the other.
Obeying(p, queue) ==
  LET after[i \in 0..Len(queue)] == IF i = 0 THEN p ELSE Obey(after[i - 1], queue[i])
  IN  after[Len(queue)]

\* apply_actions.
WorkerApply(n) ==
  /\ phase[n] = "apply"
  /\ proc' = [proc EXCEPT ![n] = [j \in Job |-> Obeying(proc[n][j], inbox[n][j])]]
  /\ inbox' = [inbox EXCEPT ![n] = Nothing]
  /\ phase' = [phase EXCEPT ![n] = "reap"]
  /\ UNCHANGED <<vars, cut, strays, users>>

ExitOf(st) ==
  CASE st = "ok"        -> [code |-> "ok", tail |-> "completed"]
    [] st = "preempted" -> [code |-> "preempted", tail |-> "preempted"]
    [] st = "killed"    -> [code |-> "killed", tail |-> "none"]
    [] OTHER            -> [code |-> "error", tail |-> "none"]

\* Seeded fault: a worker whose report fails frees the devices by itself.
WorkerReapFreeing(n, j, posted) ==
  /\ phase[n] = "reap"
  /\ proc[n][j].st \in Ended
  /\ IF posted THEN JobExit(j, ExitOf(proc[n][j].st), NoFiles) ELSE Install(Release(Store, {j}))
  /\ proc' = [proc EXCEPT ![n][j] = NoProc]
  /\ UNCHANGED <<phase, inbox, cut, strays, users>>

\* reap, one process at a time.  A dead process is dropped from the table whether
\* or not the control plane hears of it.
WorkerReap(n, j, posted) ==
  /\ phase[n] = "reap"
  /\ proc[n][j].st \in Ended
  /\ IF posted THEN JobExit(j, ExitOf(proc[n][j].st), NoFiles) ELSE UNCHANGED vars
  /\ proc' = [proc EXCEPT ![n][j] = NoProc]
  /\ UNCHANGED <<phase, inbox, cut, strays, users>>

WorkerSleep(n) ==
  /\ phase[n] = "reap"
  /\ \A j \in Job : proc[n][j].st \notin Ended
  /\ phase' = [phase EXCEPT ![n] = "beat"]
  /\ UNCHANGED <<vars, inbox, cut, proc, strays, users>>

\* The processes a worker forgets live on in sessions of their own.
Forgotten(n, signalled) ==
  {[job |-> j, gpus |-> proc[n][j].gpus, asked |-> signalled \/ proc[n][j].st # "up"] :
     j \in {k \in Job : Alive(n, k)}}

WorkerRestart(n) ==
  /\ phase' = [phase EXCEPT ![n] = "beat"]
  /\ inbox' = [inbox EXCEPT ![n] = Nothing]
  /\ cut' = cut \ {n}
  /\ strays' = strays \cup Forgotten(n, FALSE)
  /\ proc' = [proc EXCEPT ![n] = [j \in Job |-> NoProc]]
  /\ UNCHANGED <<vars, users>>

\* safe_release_if_partitioned, when answers have been missing for the grace:
\* everything is signalled and dropped from the table, and no exit is reported.
PartitionRelease(n) ==
  /\ phase[n] = "beat"
  /\ n \in cut
  /\ strays' = strays \cup Forgotten(n, TRUE)
  /\ proc' = [proc EXCEPT ![n] = [j \in Job |-> NoProc]]
  /\ UNCHANGED <<vars, phase, inbox, cut, users>>

------------------------------------------------------------------------------
(* The trainer.                                                             *)

Becomes(n, j, st) == proc' = [proc EXCEPT ![n][j].st = st]

\* The trainer's own posts are made once; one that fails is forgotten.
Sent(posted, Post) == IF posted THEN Post ELSE UNCHANGED vars

TrainerStep(n, j) ==
  /\ proc[n][j].st \in Living \ {"parting"}
  /\ Metrics(j, TRUE, FALSE)
  /\ UNCHANGED sideVars

\* A checkpoint is posted by the trainer that saved it, and by the worker as long
\* as it lists the process, dead or alive (_report_latest_checkpoint).
TrainerSave(n, j) ==
  /\ proc[n][j].st \in {"up", "asked", "told", "preempted", "error", "killed"}
  /\ CheckpointReport(j, "usable")
  /\ UNCHANGED sideVars

\* The last step is done: a checkpoint and the exit code of success.
TrainerFinish(n, j, posted) ==
  /\ proc[n][j].st = "up"
  /\ Sent(posted, CheckpointReport(j, "usable"))
  /\ Becomes(n, j, "ok")
  /\ UNCHANGED <<phase, inbox, cut, strays, users>>

\* Asked for a checkpoint or told to stop, it saves, reports and leaves: with
\* the preemption code in the first case, with the code of success in the other.
TrainerLeave(n, j, posted) ==
  /\ proc[n][j].st \in {"asked", "told"}
  /\ Sent(posted, CheckpointReport(j, "usable"))
  /\ Becomes(n, j, IF proc[n][j].st = "asked" THEN "preempted" ELSE "ok")
  /\ UNCHANGED <<phase, inbox, cut, strays, users>>

TrainerCrash(n, j) ==
  /\ Alive(n, j)
  /\ Becomes(n, j, "error")
  /\ UNCHANGED <<vars, phase, inbox, cut, strays, users>>

\* A metric that carries an anomaly, a failure checkpoint, the anomaly again,
\* then exit 0.  A signal that came during the step is not looked at any more.
TrainerAnomaly(n, j, loss, posted) ==
  /\ proc[n][j].st \in {"up", "asked", "told"}
  /\ Sent(posted, Metrics(j, loss, TRUE))
  /\ Becomes(n, j, "failing")
  /\ UNCHANGED <<phase, inbox, cut, strays, users>>

TrainerSaveFailure(n, j, posted) ==
  /\ proc[n][j].st = "failing"
  /\ Sent(posted, CheckpointReport(j, "other"))
  /\ Becomes(n, j, "parting")
  /\ UNCHANGED <<phase, inbox, cut, strays, users>>

TrainerGiveUp(n, j, posted) ==
  /\ proc[n][j].st = "parting"
  /\ Sent(posted, Anomaly(j))
  /\ Becomes(n, j, "ok")
  /\ UNCHANGED <<phase, inbox, cut, strays, users>>

\* A forgotten trainer goes on posting, ends at its own pace, and nobody reports
\* its exit.
StrayPosts(x) ==
  /\ x \in strays
  /\ Metrics(x.job, TRUE, FALSE) \/ CheckpointReport(x.job, "usable")
  /\ UNCHANGED sideVars

StrayEnds(x) ==
  /\ x \in strays
  /\ strays' = strays \ {x}
  /\ UNCHANGED <<vars, phase, inbox, cut, proc, users>>

------------------------------------------------------------------------------
(* People.                                                                  *)

Arrive(g) == g \notin users /\ users' = users \cup {g} /\ UNCHANGED <<vars, phase, inbox, cut, proc, strays>>
Depart(g) == g \in users /\ users' = users \ {g} /\ UNCHANGED <<vars, phase, inbox, cut, proc, strays>>

------------------------------------------------------------------------------

PlatformInit ==
  /\ Init
  /\ phase = [n \in Node |-> "beat"]
  /\ inbox = [n \in Node |-> Nothing]
  /\ cut = {}
  /\ proc = [n \in Node |-> [j \in Job |-> NoProc]]
  /\ strays = {}
  /\ users \in SUBSET Gpu

\* A cooldown is wall-clock time, counted from the moment the control plane takes a
\* job for gone: it may end before the worker reaps the process.
Cooled(j) == CooldownOver(j) /\ UNCHANGED sideVars

\* The worker's round when nothing fails.
Round(n) ==
  \/ WorkerBeat(n, TRUE) \/ WorkerApply(n) \/ WorkerSleep(n)
  \/ \E j \in Job : WorkerReap(n, j, TRUE)

\* A trainer on its way out, whatever the reason.
Leaves(n, j, posted) ==
  \/ TrainerLeave(n, j, posted)
  \/ TrainerSaveFailure(n, j, posted) \/ TrainerGiveUp(n, j, posted)

Trainer(n, j) ==
  \/ TrainerStep(n, j) \/ TrainerSave(n, j)
  \/ TrainerFinish(n, j, TRUE) \/ Leaves(n, j, TRUE)

People == \E g \in Gpu : Arrive(g) \/ Depart(g)

\* A training run that goes wrong, whether or not anybody is told.
BadRun(n, j) == TrainerCrash(n, j) \/ \E loss, posted \in BOOLEAN : TrainerAnomaly(n, j, loss, posted)

\* Calls of workers and trainers to the control plane that fail.
CallFails(n) ==
  \/ WorkerBeat(n, FALSE) \/ BeatLost(n)
  \/ \E j \in Job : WorkerReap(n, j, FALSE)

PostFails(n, j) == TrainerFinish(n, j, FALSE) \/ Leaves(n, j, FALSE)

\* A worker that is silent for too long, gives up, or is started anew.
WorkerFails(n) ==
  \/ GoLate(n) /\ UNCHANGED sideVars
  \/ WorkerRestart(n) \/ PartitionRelease(n)

Strays == \E x \in strays : StrayPosts(x) \/ StrayEnds(x)

PlatformNext ==
  \/ \E n \in Node : Round(n) \/ CallFails(n) \/ WorkerFails(n)
  \/ \E n \in Node, j \in Job : Trainer(n, j) \/ BadRun(n, j) \/ PostFails(n, j)
  \/ \E j \in Job : Cooled(j) \/ (RunOut(j) /\ UNCHANGED sideVars)
  \/ Strays
  \/ People
  \/ (Operate \/ Restart) /\ UNCHANGED sideVars

PlatformSpec == PlatformInit /\ [][PlatformNext]_allVars

------------------------------------------------------------------------------
(* Properties.                                                              *)

\* The worker's side has the shape its code gives it.
PlatformTypeOK ==
  /\ phase \in [Node -> {"beat", "apply", "reap"}]
  /\ inbox \in [Node -> [Job -> Seq(Action)]]
  /\ cut \in SUBSET Node
  /\ proc \in [Node -> [Job -> [st : Living \cup Ended \cup {"none"}, gpus : SUBSET Gpu]]]
  /\ strays \in SUBSET [job : Job, gpus : SUBSET Gpu, asked : BOOLEAN]
  /\ users \in SUBSET Gpu

\* A job has its next placement before the exit of its last trainer is reaped, and
\* the start is for another worker or still to be fetched by this one.  The report
\* of that exit carries no number of an attempt: it will end the wrong one.
Overtaken ==
  \E n \in Node : \E j \in Active(Store) :
    /\ proc[n][j].st \in Ended
    /\ job[j].node # n \/ \E i \in DOMAIN pending[n][j] : pending[n][j][i].kind = "START"

\* No device ever carries the trainers of two jobs.  The records only promise
\* one claim per device; that a trainer is gone before its device is handed on
\* rests on who frees a device and when, through every lost call, crash,
\* preemption and restart of the control plane.  It does not survive a worker
\* that loses its table, a cancel or pause that frees a device first, nor a
\* placement that overtakes the exit before it.
OneTrainerPerDevice == \A g \in Gpu : Cardinality(TrainersOn(g)) <= 1

\* A living trainer has the devices the records give its job, as long as the job
\* is active: an order to start is never carried out for an earlier placement.
TrainersMatchRecords ==
  \A n \in Node, j \in Job :
    Alive(n, j) /\ j \in Active(Store) => job[j].node = n /\ job[j].gpus = proc[n][j].gpus

\* docs/usage.md: an anomaly pauses the job, after an emergency checkpoint.  So
\* paused with a failure checkpoint it waits for somebody to look at it, and the
\* exit of the trainer that gave up does not turn it into finished work.
AnomaliesPause ==
  [][\A j \in Job :
       job[j].state = "PAUSED" /\ job[j].ckpt = "other" => job'[j].state # "COMPLETED"]_allVars

\* Researchers first, as far as the devices go: a preemptible trainer that shares
\* a device with a researcher leaves, or the researcher does.  The request to
\* leave may be lost; it is repeated for as long as the job is active.
Yields ==
  \A j \in Preemptible, g \in Gpu :
    (j \in TrainersOn(g) /\ g \in users) ~> (j \notin TrainersOn(g) \/ g \notin users)

\* So they do, through lost calls, crashes, anomalies, partitions and restarts of the
\* control plane, in behaviours in which no placement overtakes the exit before it.
YieldsInTime == []~Overtaken => Yields

==============================================================================
