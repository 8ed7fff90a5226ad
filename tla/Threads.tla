------------------------------- MODULE Threads -------------------------------
(***************************************************************************)
(* The control plane as its web server runs it: handlers share a pool of    *)
(* threads (control/api.py), and the store locks one statement at a time     *)
(* (state/store.py).  Where Control takes a request in one step, here its    *)
(* handler reads, decides on what it read, and writes row by row while       *)
(* others do the same.                                                      *)
(*                                                                         *)
(* A thread serves the requests of one client, who waits for the answer:     *)
(* the worker of a node, the trainer of a job, an operator.  What is left    *)
(* of a request is a list of steps; a step is one access to the store and    *)
(* the work in memory up to the next.  A write carries the record its        *)
(* handler computed, however old by then.  One worker's calls are made in    *)
(* turn, and none fails: lost calls are in Platform.                        *)
(***************************************************************************)
EXTENDS Platform, SequencesExt

VARIABLES
  recorded,  \* the jobs with a row in the table of checkpoints
  todo       \* what is left of the request that each thread serves

threadVars == <<allVars, recorded, todo>>

Operator == <<"operator", 0>>
Thread   == ({"worker"} \X Node) \cup ({"trainer"} \X Job) \cup {Operator}

Idles(t) == todo[t] = <<>>

\* A client sends a request.
Ask(t, steps) == Idles(t) /\ todo' = [todo EXCEPT ![t] = steps]

\* The step thread t takes next, and what it leaves in that step's place.
At(t, what) == ~Idles(t) /\ Head(todo[t]).do = what
This(t)     == Head(todo[t])
Then(t, steps) == todo' = [todo EXCEPT ![t] = steps \o Tail(@)]

------------------------------------------------------------------------------
(* Steps of the store and of the queues.                                    *)

Put(j, r)       == [do |-> "put_job", job |-> j, as |-> r]
PutGpu(g, r)    == [do |-> "put_gpu", gpu |-> g, as |-> r]
Of(what, j)     == [do |-> what, job |-> j]
Queue(n, j, a)  == [do |-> "queue", node |-> n, job |-> j, action |-> a]

\* One write of the record for every state a handler walks through.
Walk(j, r, path) == [i \in 1..Len(path) |-> Put(j, [r EXCEPT !.state = path[i]])]

\* One write for every device of G, in any order.
PutGpus(G, r) == LET list == SetToSeq(G) IN [i \in 1..Len(list) |-> PutGpu(list[i], r)]

PutsJob(t) ==
  /\ At(t, "put_job")
  /\ job' = [job EXCEPT ![This(t).job] = This(t).as]
  /\ Then(t, <<>>)
  /\ UNCHANGED <<gpu, pending, heard, draining, stopAll, sideVars>>

PutsGpu(t) ==
  /\ At(t, "put_gpu")
  /\ gpu' = [gpu EXCEPT ![This(t).gpu] = This(t).as]
  /\ Then(t, <<>>)
  /\ UNCHANGED <<job, pending, heard, draining, stopAll, sideVars>>

Queues(t) ==
  /\ At(t, "queue")
  /\ pending' = IF This(t).node = NoNode THEN pending
                ELSE [pending EXCEPT ![This(t).node][This(t).job] = Push(@, This(t).action)]
  /\ Then(t, <<>>)
  /\ UNCHANGED <<job, gpu, heard, draining, stopAll, sideVars>>

\* A step that reads what its handler goes on with.
Reads(t, steps) == Then(t, steps) /\ UNCHANGED allVars

\* _release_gpus and the claim of _allocate list the devices, then write them.
Releases(t) ==
  /\ At(t, "release")
  /\ Reads(t, PutGpus({g \in Gpu : gpu[g].job = This(t).job},
                      [occ |-> "AVAILABLE", job |-> NoJob]))

Claims(t) ==
  /\ At(t, "claim")
  /\ Reads(t, PutGpus(This(t).gpus, [occ |-> "TROIANI", job |-> This(t).job]))

------------------------------------------------------------------------------
(* Requests of trainers and operators.                                      *)

MetricArrives(t) ==
  /\ At(t, "metric")
  /\ LET j    == This(t).job
         r    == job[j]
         path == CASE r.state = "SCHEDULED" -> <<"STARTING", "RUNNING">>
                   [] r.state \in {"STARTING", "RESUMING"} -> <<"RUNNING">>
                   [] OTHER -> <<>>
     IN  Reads(t, Walk(j, r, path) \o <<Put(j, Stepped(r))>>)

\* The checkpoint is recorded first, and the job's record then points at it.
CheckpointArrives(t) ==
  /\ At(t, "checkpoint")
  /\ recorded' = recorded \cup {This(t).job}
  /\ Reads(t, <<Of("point", This(t).job)>>)

Pointed(j) == [job[j] EXCEPT !.ckpt = "usable"]

Points(t) ==
  /\ At(t, "point")
  /\ Reads(t, <<Put(This(t).job, Pointed(This(t).job))>>)

\* preempt: the request is written before the order is queued, the state after.
PreemptArrives(t) ==
  /\ At(t, "preempt")
  /\ LET j == This(t).job
         r == job[j]
     IN  Reads(t, IF j \notin Active(Store) THEN <<>> ELSE
           <<Put(j, [r EXCEPT !.preempt = TRUE]), Queue(r.node, j, Order("PREEMPT"))>>
             \o IF r.state = "RUNNING" THEN <<Put(j, Asked(r)), Put(j, Asked(r))>> ELSE <<>>)

KillArrives(t) ==
  /\ At(t, "kill")
  /\ LET j == This(t).job
     IN  Reads(t, IF j \in Active(Store) THEN <<Queue(job[j].node, j, Order("KILL"))>> ELSE <<>>)

CancelArrives(t) ==
  /\ At(t, "cancel")
  /\ LET j == This(t).job
         r == job[j]
     IN  Reads(t, IF ~CanMove(r.state, "CANCELLED") THEN <<>> ELSE
           (IF j \in Active(Store) THEN <<Queue(r.node, j, Order("STOP"))>> ELSE <<>>)
             \o Walk(j, r, <<"CANCELLED">>) \o <<Of("release", j)>>)

ResumeArrives(t) ==
  /\ At(t, "resume")
  /\ LET j == This(t).job
         r == job[j]
     IN  Reads(t,
           CASE r.state \in {"PAUSED", "PREEMPTED", "FAILED"} ->
                  <<Put(j, [r EXCEPT !.state = "QUEUED", !.preempt = FALSE]), [do |-> "pass"]>>
             [] r.state \in {"PENDING", "QUEUED"} -> <<[do |-> "pass"]>>
             [] OTHER -> <<>>)

------------------------------------------------------------------------------
(* A scheduling pass.                                                       *)

\* The jobs are listed first, and decided on with the devices listed later.
PassListsJobs(t) ==
  /\ At(t, "pass")
  /\ Reads(t, <<[do |-> "decide", jobs |-> job]>>)

\* _allocate works on the listed record; preempt reads the job again.
PlacementSteps(j, r, G) ==
  IF G = {} THEN <<>> ELSE
  Walk(j, r, (IF r.state \in {"PENDING", "PREEMPTED"} THEN <<"QUEUED">> ELSE <<>>)
               \o (IF r.ckpt = "none" THEN <<"SCHEDULED">> ELSE <<"SCHEDULED", "RESUMING">>))
    \o <<Put(j, Placed(r, G)), [do |-> "claim", job |-> j, gpus |-> G],
         Queue(HomeOf(G), j, [kind |-> "START", gpus |-> G])>>

PassDecides(t) ==
  /\ At(t, "decide")
  /\ LET s       == [Store EXCEPT !.job = This(t).jobs]
         leaving == SetToSeq(Victims(s) \cup Exceeded(s))
     IN  \E P \in Passes(s) :
           Reads(t, [i \in 1..Len(leaving) |-> Of("preempt", leaving[i])]
                      \o FlattenSeq([j \in Job |-> PlacementSteps(j, s.job[j], P[j])]))

------------------------------------------------------------------------------
(* Requests of workers.                                                     *)

\* The exit of a job whose record is r.
ExitSteps(j, r, verdict) ==
  CASE verdict = "preempted" -> <<Of("requeue", j)>>
    [] verdict = "failed"    -> Walk(j, r, <<"FAILED">>)
         \o <<Of("release", j), Put(j, Settled(r, verdict)), Of("sync", j)>>
    [] OTHER -> Walk(j, r, IF r.state = "FAILED" THEN <<"QUEUED", "COMPLETED">> ELSE <<"COMPLETED">>)
         \o <<Of("release", j), Put(j, Settled(r, verdict)), Of("sync", j)>>

ExitArrives(t) ==
  /\ At(t, "exit")
  /\ LET j == This(t).job
         r == job[j]
         x == [r EXCEPT !.ckpt = IF j \in recorded THEN "usable" ELSE "none"]
     IN  Reads(t, IF Closed(r) THEN <<Of("sync", j)>>
                  ELSE ExitSteps(j, r, Verdict(x, This(t).exit, NoFiles)))

\* _sync_job_checkpoint reads the job again, and writes it if a checkpoint is there.
SyncSteps(j) == IF j \in recorded THEN <<Put(j, Pointed(j))>> ELSE <<>>

Syncs(t) ==
  /\ At(t, "sync")
  /\ Reads(t, SyncSteps(This(t).job))

\* _finish_preempt syncs first, and goes on with the record that gives.
Requeues(t) ==
  /\ At(t, "requeue")
  /\ LET j    == This(t).job
         r    == IF j \in recorded THEN Pointed(j) ELSE job[j]
         path == CASE r.state \in {"RUNNING", "STARTING", "RESUMING"} ->
                        <<"CHECKPOINTING", "PREEMPTED", "QUEUED">>
                   [] r.state \in {"SCHEDULED", "CHECKPOINTING"} -> <<"PREEMPTED", "QUEUED">>
                   [] r.state = "PREEMPTED" -> <<"QUEUED">>
                   [] OTHER -> <<>>
         last == IF path = <<>> THEN <<>> ELSE <<Put(j, Settled(r, "preempted"))>>
     IN  Reads(t, SyncSteps(j) \o Walk(j, r, path) \o last \o <<Of("release", j)>>)

RefreshReads(t) ==
  /\ At(t, "refresh")
  /\ Reads(t, <<PutGpu(This(t).gpu, Refreshed(This(t).gpu, This(t).seen))>>)

\* Seeded fault: a job whose process is not listed is left alone.
GoneByListed(n, procs) == {j \in OwnedBy(n) : procs[j] = "dead"}

\* The jobs found gone, by the worker's list and the records of now.
GoneBy(n, procs) ==
  {j \in OwnedBy(n) :
     \/ procs[j] = "dead"
     \/ procs[j] = "none" /\ job[j].state \in {"RUNNING", "CHECKPOINTING"}}

Reconciles(t) ==
  /\ At(t, "reconcile")
  /\ LET gone == SetToSeq(GoneBy(This(t).node, This(t).procs))
     IN  Reads(t, [i \in 1..Len(gone) |->
           [do |-> "exit", job |-> gone[i], exit |-> ReportedGone(job[gone[i]])]])

\* The answer takes the queue along, and the worker goes on.
Answers(t) ==
  /\ At(t, "answer")
  /\ LET n == This(t).node
     IN  /\ inbox' = [inbox EXCEPT ![n] = pending[n]]
         /\ pending' = [pending EXCEPT ![n] = Nothing]
         /\ phase' = [phase EXCEPT ![n] = "apply"]
  /\ Then(t, <<>>)
  /\ UNCHANGED <<job, gpu, heard, draining, stopAll, cut, proc, strays, users>>

Listed(st) == IF st \in Living THEN "alive" ELSE IF st \in Ended THEN "dead" ELSE "none"

\* The worker looks at its devices and processes, and posts what it saw.
BeatAsks(n) ==
  /\ phase[n] = "beat"
  /\ heard' = [heard EXCEPT ![n] = "fresh"]
  /\ LET own == SetToSeq(GpusOf(n))
     IN  Ask(<<"worker", n>>,
           [i \in 1..Len(own) |-> [do |-> "refresh", gpu |-> own[i], seen |-> SeenOn(own[i])]]
             \o <<[do |-> "reconcile", node |-> n,
                   procs |-> [j \in Job |-> Listed(proc[n][j].st)]],
                  [do |-> "pass"], [do |-> "answer", node |-> n]>>)
  /\ UNCHANGED <<job, gpu, pending, draining, stopAll, sideVars>>

ReapAsks(n, j) ==
  /\ phase[n] = "reap"
  /\ proc[n][j].st \in Ended
  /\ Ask(<<"worker", n>>, <<[do |-> "exit", job |-> j, exit |-> ExitOf(proc[n][j].st)]>>)
  /\ proc' = [proc EXCEPT ![n][j] = NoProc]
  /\ UNCHANGED <<vars, phase, inbox, cut, strays, users>>

------------------------------------------------------------------------------

\* The jobs of J have been submitted, and no worker has been heard of.
ThreadsInit(J) ==
  /\ job = [j \in Job |-> IF j \in J THEN [NewJob EXCEPT !.state = "PENDING"] ELSE NewJob]
  /\ gpu = [g \in Gpu |-> [occ |-> "UNSEEN", job |-> NoJob]]
  /\ pending = [n \in Node |-> Nothing]
  /\ heard = [n \in Node |-> "never"]
  /\ draining = {} /\ stopAll = FALSE
  /\ phase = [n \in Node |-> "beat"]
  /\ inbox = [n \in Node |-> Nothing]
  /\ proc = [n \in Node |-> [j \in Job |-> NoProc]]
  /\ cut = {} /\ strays = {}
  /\ users = {}
  /\ recorded = {}
  /\ todo = [t \in Thread |-> <<>>]

Serve(t) ==
  \/ CheckpointArrives(t)
  \/ /\ \/ PutsJob(t) \/ PutsGpu(t) \/ Queues(t) \/ Releases(t) \/ Claims(t)
        \/ MetricArrives(t) \/ Points(t)
        \/ PreemptArrives(t) \/ KillArrives(t) \/ CancelArrives(t) \/ ResumeArrives(t)
        \/ PassListsJobs(t) \/ PassDecides(t)
        \/ ExitArrives(t) \/ Syncs(t) \/ Requeues(t)
        \/ RefreshReads(t) \/ Reconciles(t) \/ Answers(t)
     /\ UNCHANGED recorded

\* The worker's side of its loop: it sleeps when its posts are answered.
WorkerWorks(n) ==
  \/ BeatAsks(n)
  \/ \E j \in Job : ReapAsks(n, j)
  \/ (WorkerApply(n) \/ (Idles(<<"worker", n>>) /\ WorkerSleep(n))) /\ UNCHANGED todo

\* A trainer waits for its posts; it can be killed while it waits.
TrainerPosts(n, j, what) ==
  /\ Alive(n, j)
  /\ Ask(<<"trainer", j>>, <<Of(what, j)>>)
  /\ UNCHANGED allVars

TrainerGoes(n, j) ==
  /\ Idles(<<"trainer", j>>)
  /\ TrainerLeave(n, j, FALSE)
  /\ UNCHANGED todo

\* Seeded fault: the last post is not waited for.
TrainerEndsEarly(n, j) == TrainerFinish(n, j, FALSE) /\ UNCHANGED todo

TrainerEnds(n, j) ==
  /\ Idles(<<"trainer", j>>)
  /\ TrainerFinish(n, j, FALSE)
  /\ UNCHANGED todo

TrainerDies(n, j) == TrainerCrash(n, j) /\ UNCHANGED todo

\* A stamp that a late write puts back has passed already; the model lets it run
\* again for a while.
CoolsDown(j) == Cooled(j) /\ UNCHANGED todo

OperatorAsks(what, j) ==
  /\ Ask(Operator, <<Of(what, j)>>)
  /\ UNCHANGED allVars

ThreadsNext ==
  \/ \E t \in Thread : Serve(t)
  \/ /\ \/ \E n \in Node : WorkerWorks(n)
        \/ \E n \in Node, j \in Job :
             \/ TrainerGoes(n, j) \/ TrainerEnds(n, j) \/ TrainerDies(n, j)
             \/ \E what \in {"metric", "checkpoint"} : TrainerPosts(n, j, what)
        \/ \E j \in Job : CoolsDown(j)
        \/ \E j \in Job, what \in {"preempt", "kill", "cancel", "resume"} : OperatorAsks(what, j)
        \/ People /\ UNCHANGED todo
     /\ UNCHANGED recorded

ThreadsSpec == (\E J \in SUBSET Job : ThreadsInit(J)) /\ [][ThreadsNext]_threadVars

------------------------------------------------------------------------------
(* Properties.                                                              *)

Running(j) == \E n \in Node : Alive(n, j)

\* _reconcile_worker_jobs: a job on record at a worker does not sit in RUNNING or
\* CHECKPOINTING when its trainer is gone.  Whatever a late write brings back,
\* from a metric, a checkpoint, a preemption or a second pass, the worker's next
\* list of processes ends it.
Heals ==
  \A j \in Job :
    LET Hangs == job[j].state \in {"RUNNING", "CHECKPOINTING"} /\ job[j].node # NoNode /\ ~Running(j)
    IN  Hangs ~> ~Hangs

==============================================================================
