---------------------------- MODULE ControlProofs ----------------------------
(***************************************************************************)
(* What holds of the control plane for any number of jobs, devices and      *)
(* nodes, any limits and any reports.                                       *)
(***************************************************************************)
EXTENDS ControlLeases, TLAPS, FiniteSetTheorems

------------------------------------------------------------------------------
(* Type correctness.  The handlers are compositions of operators on          *)
(* snapshots, so each operator gets a lemma of its own.                      *)

Jobs     == [Job -> JobRecord]
Gpus     == [Gpu -> GpuRecord]
Backlogs == [Node -> [Job -> Seq(Action)]]
Hearing  == [Node -> {"never", "fresh", "late"}]

Snapshot ==
  [job : Jobs, gpu : Gpus, pending : Backlogs, heard : Hearing,
   draining : SUBSET Gpu, stopAll : BOOLEAN]

\* The store is a snapshot of the right shape exactly when the variables are.
LEMMA StoreShape == TypeOK <=> Store \in Snapshot
BY DEF TypeOK, Store, Snapshot, Jobs, Gpus, Backlogs, Hearing

\* Installing a snapshot of the right shape keeps the variables in shape.
LEMMA InstallShape ==
  ASSUME NEW s \in Snapshot, Install(s)
  PROVE  TypeOK'
BY DEF Install, TypeOK, Snapshot, Jobs, Gpus, Backlogs, Hearing

\* Appending an order to a queue gives a queue.
LEMMA PushShape ==
  ASSUME NEW q \in Seq(Action), NEW a \in Action
  PROVE  Push(q, a) \in Seq(Action)
BY DEF Push

\* The orders without devices are actions.
LEMMA OrderShape == \A kind \in {"STOP", "PREEMPT", "KILL"} : Order(kind) \in Action
BY DEF Order, Action

\* Queueing an order at the workers of some jobs changes the queues only.
LEMMA TellShape ==
  ASSUME NEW s \in Snapshot, NEW J, NEW a \in Action
  PROVE  /\ Tell(s, J, a) \in Snapshot
         /\ Tell(s, J, a).job = s.job
         /\ Tell(s, J, a).gpu = s.gpu
         /\ Tell(s, J, a).heard = s.heard
<1>1. \A n \in Node, j \in Job : Push(s.pending[n][j], a) \in Seq(Action)
  BY PushShape DEF Snapshot, Backlogs
<1> QED
  BY <1>1 DEF Tell, Snapshot, Backlogs

\* Freeing the devices of some jobs changes the device records only.
LEMMA ReleaseShape ==
  ASSUME NEW s \in Snapshot, NEW J
  PROVE  /\ Release(s, J) \in Snapshot
         /\ Release(s, J).job = s.job
         /\ Release(s, J).heard = s.heard
         /\ \A g \in Gpu : Release(s, J).gpu[g] =
              IF s.gpu[g].job \in J THEN [occ |-> "AVAILABLE", job |-> NoJob] ELSE s.gpu[g]
BY DEF Release, Snapshot, Gpus, GpuRecord

(* What the handlers do to one job record.                                  *)

\* A record whose state is changed is a record, and keeps its other fields.
LEMMA StateShape ==
  ASSUME NEW r \in JobRecord, NEW st \in JobState
  PROVE  /\ [r EXCEPT !.state = st] \in JobRecord
         /\ [r EXCEPT !.state = st].state = st
         /\ [r EXCEPT !.state = st].gpus = r.gpus
         /\ [r EXCEPT !.state = st].node = r.node
         /\ [r EXCEPT !.state = st].overdue = r.overdue
BY DEF JobRecord

\* A job asked to leave keeps its devices and stays active if it was.
LEMMA AskedShape ==
  ASSUME NEW r \in JobRecord
  PROVE  /\ Asked(r) \in JobRecord
         /\ Asked(r).gpus = r.gpus
         /\ Asked(r).node = r.node
         /\ Asked(r).overdue = r.overdue
         /\ Asked(r).state = IF r.state = "RUNNING" THEN "CHECKPOINTING" ELSE r.state
BY DEF Asked, JobRecord, JobState

\* A requeued job has no devices.
LEMMA RequeuedShape ==
  ASSUME NEW r \in JobRecord
  PROVE  /\ Requeued(r) \in JobRecord
         /\ Requeued(r).state = "QUEUED"
         /\ Requeued(r).overdue = r.overdue
BY DEF Requeued, JobRecord, JobState

\* A placed job is active, with the devices it was given.
LEMMA PlacedShape ==
  ASSUME NEW r \in JobRecord, NEW G \in SUBSET Gpu, HomeOf(G) \in Node
  PROVE  /\ Placed(r, G) \in JobRecord
         /\ Placed(r, G).state \in {"SCHEDULED", "RESUMING"}
         /\ Placed(r, G).gpus = G
         /\ Placed(r, G).node = HomeOf(G)
         /\ Placed(r, G).overdue = r.overdue
BY DEF Placed, JobRecord, JobState

------------------------------------------------------------------------------
(* The invariant, on snapshots.  It is what the records must satisfy for the *)
(* next pass to be safe: the claims of active jobs are disjoint, on the      *)
(* devices and in the jobs' own lists, whole, and kept by the living only;   *)
(* and nobody is past a limit, which would lift a reservation.               *)

Exclusive(s) ==
  \A j, k \in Active(s) : j # k => s.job[j].gpus \cap s.job[k].gpus = {}

Agreed(s) ==
  \A j \in Active(s) : \A g \in s.job[j].gpus : s.gpu[g].job \in {j, NoJob}

Whole(s) ==
  \A j \in Active(s) :
    /\ Cardinality(s.job[j].gpus) = Want[j]
    /\ s.job[j].gpus \subseteq Fits[j]
    /\ \A g \in s.job[j].gpus : NodeOf[g] = s.job[j].node

Punctual(s) == \A j \in Job : ~s.job[j].overdue

Lively(s) ==
  \A g \in Gpu :
    s.gpu[g].job # NoJob => s.job[s.gpu[g].job].state \in ActiveStates \cup {"QUEUED", "PAUSED"}

\* What holds whatever the limits, and what limits put at risk.
Tidy(s)  == Whole(s) /\ Lively(s)
Sound(s) == Tidy(s) /\ Exclusive(s) /\ Agreed(s) /\ Punctual(s)

(***************************************************************************)
(* Every step of a handler but placement only recedes: jobs leave the active *)
(* states or stay there as they are, claims are dropped or kept.             *)
(***************************************************************************)
Recedes(s, t) ==
  /\ \A j \in Active(t) : /\ j \in Active(s)
                          /\ t.job[j].gpus = s.job[j].gpus
                          /\ t.job[j].node = s.job[j].node
  /\ \A j \in Job : t.job[j].overdue = s.job[j].overdue
  /\ \A g \in Gpu : t.gpu[g].job \in {s.gpu[g].job, NoJob}

\* Receding keeps all of the invariant but the last part.
LEMMA RecedingIsSound ==
  ASSUME NEW s \in Snapshot, NEW t \in Snapshot, Recedes(s, t), Sound(s), Lively(t)
  PROVE  Sound(t)
<1> USE DEF Sound, Tidy, Recedes
<1>1. Exclusive(t)
  BY DEF Exclusive
<1>2. Agreed(t)
  <2> SUFFICES ASSUME NEW j \in Active(t), NEW g \in t.job[j].gpus
               PROVE  t.gpu[g].job \in {j, NoJob}
    BY DEF Agreed
  <2>1. j \in Active(s) /\ g \in s.job[j].gpus /\ g \in Gpu
    BY DEF Active, Snapshot, Jobs, JobRecord
  <2>2. s.gpu[g].job \in {j, NoJob}
    BY <2>1 DEF Agreed
  <2> QED
    BY <2>1, <2>2
<1>3. Whole(t)
  BY DEF Whole
<1>4. Punctual(t)
  BY DEF Punctual
<1> QED
  BY <1>1, <1>2, <1>3, <1>4

\* What recedes in two steps recedes.
LEMMA RecedingComposes ==
  ASSUME NEW s, NEW t, NEW u, Recedes(s, t), Recedes(t, u)
  PROVE  Recedes(s, u)
BY DEF Recedes

------------------------------------------------------------------------------
(* The steps of a handler.  Each keeps the shape, recedes, keeps devices from *)
(* being held for the dead, and leaves the dead alone.                       *)

Lasts(old, new) == new = old \/ (old \notin {"COMPLETED", "CANCELLED"} /\ new # "NONE")

Lasting(s, t) == \A j \in Job : Lasts(s.job[j].state, t.job[j].state)

Safe(s, t) ==
  t \in Snapshot /\ Recedes(s, t) /\ Lasting(s, t) /\ (Lively(s) => Lively(t))

\* What every step of a handler carries over, placement included.
Carries(s, t) == Lasting(s, t) /\ (Tidy(s) => Tidy(t)) /\ (Sound(s) => Sound(t))

\* Carrying over composes.
LEMMA CarryingComposes ==
  ASSUME NEW s, NEW t, NEW u, Carries(s, t), Carries(t, u)
  PROVE  Carries(s, u)
BY DEF Carries, Lasting, Lasts

\* Safe steps compose.
LEMMA SafeComposes ==
  ASSUME NEW s, NEW t, NEW u, Safe(s, t), Safe(t, u)
  PROVE  Safe(s, u)
BY RecedingComposes DEF Safe, Lasting, Lasts

\* A safe step keeps the invariant.
LEMMA SafeIsSound ==
  ASSUME NEW s \in Snapshot, NEW t, Safe(s, t)
  PROVE  t \in Snapshot /\ Carries(s, t)
<1>1. Sound(s) => Sound(t)
  BY RecedingIsSound DEF Safe, Sound, Tidy
<1>2. Tidy(s) => Tidy(t)
  BY DEF Safe, Tidy, Recedes, Whole
<1> QED
  BY <1>1, <1>2 DEF Safe, Carries

\* Queueing an order.
LEMMA TellSafe ==
  ASSUME NEW s \in Snapshot, NEW J, NEW a \in Action
  PROVE  Safe(s, Tell(s, J, a))
BY TellShape DEF Safe, Recedes, Lasting, Lasts, Lively, Active

\* Freeing devices.
LEMMA ReleaseSafe ==
  ASSUME NEW s \in Snapshot, NEW J
  PROVE  Safe(s, Release(s, J))
BY ReleaseShape DEF Safe, Recedes, Lasting, Lasts, Lively, Active

\* Replacing job records, as every handler does: safe when no job becomes active,
\* none that is active changes its devices, and none that has a claim dies.
LEMMA JobsSafe ==
  ASSUME NEW s \in Snapshot, NEW f \in Jobs,
         \A j \in Job :
           /\ f[j].overdue = s.job[j].overdue
           /\ Lasts(s.job[j].state, f[j].state)
           /\ f[j].state \in ActiveStates =>
                /\ s.job[j].state \in ActiveStates
                /\ f[j].gpus = s.job[j].gpus
                /\ f[j].node = s.job[j].node
           /\ \/ f[j].state \in ActiveStates \cup {"QUEUED", "PAUSED"}
              \/ s.job[j].state \notin ActiveStates \cup {"QUEUED", "PAUSED"}
              \/ \A g \in Gpu : s.gpu[g].job # j
  PROVE  Safe(s, [s EXCEPT !.job = f])
<1> DEFINE t == [s EXCEPT !.job = f]
<1>1. t \in Snapshot /\ t.job = f /\ t.gpu = s.gpu
  BY DEF Snapshot
<1> HIDE DEF t
<1>2. Recedes(s, t)
  BY <1>1 DEF Recedes, Active
<1>3. ASSUME Lively(s), NEW g \in Gpu, t.gpu[g].job # NoJob
      PROVE  t.job[t.gpu[g].job].state \in ActiveStates \cup {"QUEUED", "PAUSED"}
  <2>1. s.gpu[g].job \in Job
    BY <1>1, <1>3 DEF Snapshot, Gpus, GpuRecord
  <2> QED
    BY <1>1, <1>3, <2>1 DEF Lively
<1> QED
  BY <1>1, <1>2, <1>3 DEF Safe, Lasting, Lively, t

\* Replacing one job record.
LEMMA SetJobSafe ==
  ASSUME NEW s \in Snapshot, NEW j \in Job, NEW r \in JobRecord,
         r.overdue = s.job[j].overdue,
         Lasts(s.job[j].state, r.state),
         r.state \in ActiveStates =>
           /\ s.job[j].state \in ActiveStates
           /\ r.gpus = s.job[j].gpus
           /\ r.node = s.job[j].node,
         \/ r.state \in ActiveStates \cup {"QUEUED", "PAUSED"}
         \/ s.job[j].state \notin ActiveStates \cup {"QUEUED", "PAUSED"}
         \/ \A g \in Gpu : s.gpu[g].job # j
  PROVE  Safe(s, SetJob(s, j, r))
<1> DEFINE f == [s.job EXCEPT ![j] = r]
<1>1. f \in Jobs /\ \A k \in Job : f[k] = IF k = j THEN r ELSE s.job[k]
  BY DEF Snapshot, Jobs
<1> HIDE DEF f
<1>2. Safe(s, [s EXCEPT !.job = f])
  BY <1>1, JobsSafe DEF Lasts
<1> QED
  BY <1>2 DEF SetJob, f

\* Changing the state of one job, among the active ones or out of them.
LEMMA SetStateSafe ==
  ASSUME NEW s \in Snapshot, NEW j \in Job, NEW st \in JobState,
         s.job[j].state \notin {"COMPLETED", "CANCELLED"} \/ s.job[j].state = st,
         st \in ActiveStates => s.job[j].state \in ActiveStates,
         \/ st \in ActiveStates \cup {"QUEUED", "PAUSED"}
         \/ s.job[j].state \notin ActiveStates \cup {"QUEUED", "PAUSED"}
         \/ \A g \in Gpu : s.gpu[g].job # j
  PROVE  Safe(s, SetState(s, j, st))
<1> DEFINE r == [s.job[j] EXCEPT !.state = st]
<1>1. /\ r \in JobRecord
      /\ r.state = st
      /\ r.gpus = s.job[j].gpus
      /\ r.node = s.job[j].node
      /\ r.overdue = s.job[j].overdue
  BY StateShape DEF Snapshot, Jobs
<1> HIDE DEF r
<1>2. Safe(s, SetJob(s, j, r))
  BY <1>1, SetJobSafe DEF Lasts, JobState
<1> QED
  BY <1>2 DEF SetState, r

\* Asking jobs to leave.
LEMMA PreemptSafe ==
  ASSUME NEW s \in Snapshot, NEW J
  PROVE  /\ Safe(s, PreemptJobs(s, J))
         /\ PreemptJobs(s, J).gpu = s.gpu
         /\ Active(PreemptJobs(s, J)) = Active(s)
         /\ \A j \in Job \ Active(s) : PreemptJobs(s, J).job[j] = s.job[j]
<1> DEFINE asked == J \cap Active(s)
           told == Tell(s, asked, Order("PREEMPT"))
           f == [j \in Job |-> IF j \in asked THEN Asked(s.job[j]) ELSE s.job[j]]
<1>1. CASE asked = {}
  BY <1>1 DEF PreemptJobs, Safe, Recedes, Lasting, Lasts
<1>2. CASE asked # {}
  <2>1. told \in Snapshot /\ told.job = s.job /\ told.gpu = s.gpu /\ Safe(s, told)
    BY OrderShape, TellShape, TellSafe
  <2>2. \A j \in Job :
          /\ Asked(s.job[j]) \in JobRecord
          /\ Asked(s.job[j]).gpus = s.job[j].gpus
          /\ Asked(s.job[j]).node = s.job[j].node
          /\ Asked(s.job[j]).overdue = s.job[j].overdue
          /\ Asked(s.job[j]).state =
               IF s.job[j].state = "RUNNING" THEN "CHECKPOINTING" ELSE s.job[j].state
    BY AskedShape DEF Snapshot, Jobs
  <2>3. PreemptJobs(s, J) = [told EXCEPT !.job = f]
    BY <1>2 DEF PreemptJobs
  <2> HIDE DEF told
  <2>4. f \in Jobs
    BY <2>2 DEF Snapshot, Jobs
  <2>5. \A j \in Job : f[j] = IF j \in asked THEN Asked(s.job[j]) ELSE s.job[j]
    OBVIOUS
  <2> HIDE DEF f, asked
  <2>6. Safe(told, [told EXCEPT !.job = f])
    <3>1. \A j \in Job : /\ f[j].overdue = told.job[j].overdue
                         /\ f[j].gpus = told.job[j].gpus
                         /\ f[j].node = told.job[j].node
                         /\ \/ f[j].state = told.job[j].state
                            \/ told.job[j].state = "RUNNING" /\ f[j].state = "CHECKPOINTING"
      BY <2>1, <2>2, <2>5
    <3> QED
      BY <2>1, <2>4, <3>1, JobsSafe DEF ActiveStates, Lasts
  <2>7. [told EXCEPT !.job = f].job = f /\ [told EXCEPT !.job = f].gpu = told.gpu
    BY <2>1 DEF Snapshot
  <2>8. Active([told EXCEPT !.job = f]) = Active(s)
    BY <2>2, <2>5, <2>7 DEF Active, ActiveStates
  <2>9. \A j \in Job \ Active(s) : f[j] = s.job[j]
    BY <2>5 DEF asked
  <2> QED
    BY <2>1, <2>3, <2>6, <2>7, <2>8, <2>9, SafeComposes
<1> QED
  BY <1>1, <1>2

\* Reclaiming the jobs and devices of silent nodes.
LEMMA ReclaimSafe ==
  ASSUME NEW s \in Snapshot
  PROVE  Safe(s, Reclaim(s))
<1> DEFINE orphans == Orphans(s)
           freed == Release(s, orphans \cup NamedOn(s, StaleNodes(s)))
           f == [j \in Job |-> IF j \in orphans THEN Requeued(s.job[j]) ELSE s.job[j]]
           queues == [n \in Node |->
             IF n \in StaleNodes(s) THEN [j \in Job |-> <<>>] ELSE s.pending[n]]
           t == [freed EXCEPT !.job = f]
<1>1. CASE StaleNodes(s) = {}
  BY <1>1 DEF Reclaim, Safe, Recedes, Lasting, Lasts
<1>2. CASE StaleNodes(s) # {}
  <2>1. Reclaim(s) = [freed EXCEPT !.job = f, !.pending = queues]
    BY <1>2 DEF Reclaim
  <2>2. freed \in Snapshot /\ freed.job = s.job /\ Safe(s, freed)
    BY ReleaseShape, ReleaseSafe
  <2>3. queues \in Backlogs
    BY DEF Snapshot, Backlogs
  <2>4. \A j \in Job : /\ Requeued(s.job[j]) \in JobRecord
                       /\ Requeued(s.job[j]).state = "QUEUED"
                       /\ Requeued(s.job[j]).overdue = s.job[j].overdue
    BY RequeuedShape DEF Snapshot, Jobs
  <2>5. f \in Jobs
    BY <2>4 DEF Snapshot, Jobs
  <2>6. \A j \in Job : \/ f[j] = s.job[j]
                       \/ /\ s.job[j].state \in ActiveStates
                          /\ f[j].state = "QUEUED"
                          /\ f[j].overdue = s.job[j].overdue
    BY <2>4 DEF Orphans, Active
  <2> HIDE DEF freed, f, queues
  <2>7. Safe(freed, t)
    BY <2>2, <2>5, <2>6, JobsSafe DEF ActiveStates, Lasts
  <2>8. [freed EXCEPT !.job = f, !.pending = queues] = [t EXCEPT !.pending = queues]
    BY <2>2, <2>3, <2>5 DEF Snapshot
  <2>9. t \in Snapshot
    BY <2>7 DEF Safe
  <2> HIDE DEF t
  <2>10. Safe(t, [t EXCEPT !.pending = queues])
    BY <2>3, <2>9 DEF Safe, Recedes, Lasting, Lasts, Lively, Active, Snapshot
  <2> QED
    BY <2>1, <2>2, <2>7, <2>8, <2>10, SafeComposes
<1> QED
  BY <1>1, <1>2

(* Exits.                                                                   *)

\* Picking up a checkpoint from disk changes nothing else.
LEMMA SyncedShape ==
  ASSUME NEW r \in JobRecord, NEW dir \in RunDir
  PROVE  /\ Synced(r, dir) \in JobRecord
         /\ Synced(r, dir).state = r.state
         /\ Synced(r, dir).gpus = r.gpus
         /\ Synced(r, dir).node = r.node
         /\ Synced(r, dir).overdue = r.overdue
<1> dir.latest \in {"none", "usable", "other"}
  BY DEF RunDir
<1> QED
  BY DEF Synced, JobRecord, Checkpoint

\* A settled job is over, requeued, or left as it was.
LEMMA SettledShape ==
  ASSUME NEW r \in JobRecord, NEW verdict
  PROVE  /\ Settled(r, verdict) \in JobRecord
         /\ Settled(r, verdict).overdue = r.overdue
         /\ \/ Settled(r, verdict).state \in {"COMPLETED", "FAILED", "QUEUED"}
            \/ Settled(r, verdict) = r
<1>1. CASE verdict = "completed"
  BY <1>1 DEF Settled, JobRecord, JobState
<1>2. CASE verdict = "failed"
  BY <1>2 DEF Settled, JobRecord, JobState
<1>3. CASE verdict = "preempted" /\ r.state \in ActiveStates \cup {"PREEMPTED"}
  <2> DEFINE q == Requeued(r)
  <2>1. Settled(r, verdict) = [q EXCEPT !.cooldown = NewCooldown]
    BY <1>3 DEF Settled
  <2>2. q \in JobRecord /\ q.state = "QUEUED" /\ q.overdue = r.overdue
    BY RequeuedShape
  <2> HIDE DEF q
  <2> QED
    BY <2>1, <2>2 DEF JobRecord, NewCooldown
<1>4. CASE /\ verdict \notin {"completed", "failed"}
           /\ ~(verdict = "preempted" /\ r.state \in ActiveStates \cup {"PREEMPTED"})
  BY <1>4 DEF Settled
<1> QED
  BY <1>1, <1>2, <1>3, <1>4

\* Any number of exits, whatever they say and however late they are.
LEMMA JobExitsSafe ==
  ASSUME NEW s \in Snapshot, NEW exits, DOMAIN exits \subseteq Job,
         \A j \in DOMAIN exits : exits[j].dir \in RunDir
  PROVE  Safe(s, JobExits(s, exits))
<1> DEFINE ended == {j \in DOMAIN exits : ~Closed(s.job[j])}
           freed == Release(s, ended)
           synced(j) == Synced(s.job[j], exits[j].dir)
           settled(j) == Settled(synced(j), Verdict(s.job[j], exits[j].exit, exits[j].dir))
           f == [j \in Job |-> IF j \notin DOMAIN exits THEN s.job[j]
                               ELSE IF j \in ended THEN settled(j) ELSE synced(j)]
<1>1. JobExits(s, exits) = [freed EXCEPT !.job = f]
  BY DEF JobExits
<1>2. /\ freed \in Snapshot /\ freed.job = s.job /\ Safe(s, freed)
      /\ \A j \in ended : \A g \in Gpu : freed.gpu[g].job # j
      /\ \A j \in ended : s.job[j].state \notin {"COMPLETED", "CANCELLED"}
  <2>1. NoJob \notin Job
    BY JobsAssumption DEF Job, NoJob
  <2> QED
    BY <2>1, ReleaseShape, ReleaseSafe DEF Snapshot, Closed
<1>3. \A j \in DOMAIN exits :
        /\ synced(j) \in JobRecord
        /\ synced(j).state = s.job[j].state
        /\ synced(j).gpus = s.job[j].gpus
        /\ synced(j).node = s.job[j].node
        /\ synced(j).overdue = s.job[j].overdue
  BY SyncedShape DEF Snapshot, Jobs
<1> HIDE DEF freed, synced
<1>4. \A j \in DOMAIN exits :
        /\ settled(j) \in JobRecord
        /\ settled(j).overdue = s.job[j].overdue
        /\ \/ settled(j).state \in {"COMPLETED", "FAILED", "QUEUED"}
           \/ settled(j) = synced(j)
  BY <1>3, SettledShape
<1>5. \A j \in Job : f[j] = IF j \notin DOMAIN exits THEN s.job[j]
                             ELSE IF j \in ended THEN settled(j) ELSE synced(j)
  OBVIOUS
<1> HIDE DEF settled, ended
<1>6. f \in Jobs
  BY <1>3, <1>4 DEF Snapshot, Jobs
<1> HIDE DEF f
<1>7. \A j \in Job :
        /\ f[j].overdue = freed.job[j].overdue
        /\ Lasts(freed.job[j].state, f[j].state)
        /\ f[j].state \in ActiveStates =>
             /\ freed.job[j].state \in ActiveStates
             /\ f[j].gpus = freed.job[j].gpus
             /\ f[j].node = freed.job[j].node
        /\ \/ f[j].state \in ActiveStates \cup {"QUEUED", "PAUSED"}
           \/ freed.job[j].state \notin ActiveStates \cup {"QUEUED", "PAUSED"}
           \/ \A g \in Gpu : freed.gpu[g].job # j
  <2> TAKE j \in Job
  <2>1. CASE j \notin DOMAIN exits
    BY <1>2, <1>5, <2>1 DEF Lasts
  <2>2. CASE j \in DOMAIN exits /\ j \notin ended
    BY <1>2, <1>3, <1>5, <2>2 DEF Lasts
  <2>3. CASE j \in DOMAIN exits /\ j \in ended
    BY <1>2, <1>3, <1>4, <1>5, <2>3 DEF ActiveStates, Lasts
  <2> QED
    BY <2>1, <2>2, <2>3
<1>8. Safe(freed, [freed EXCEPT !.job = f])
  BY <1>2, <1>6, <1>7, JobsSafe
<1> QED
  BY <1>1, <1>2, <1>8, SafeComposes

------------------------------------------------------------------------------
(* Placement.                                                               *)

\* What a pass gives a job is idle, fits, is as much as the job wants, is on one
\* node and is given to nobody else.
LEMMA PassShape ==
  ASSUME NEW s, NEW P \in Passes(s)
  PROVE  /\ \A j \in Job : P[j] # {} =>
              /\ P[j] \subseteq Idle(s) \cap Fits[j]
              /\ P[j] \in SUBSET Gpu
              /\ Cardinality(P[j]) = Want[j]
              /\ HomeOf(P[j]) \in Node
              /\ \A g \in P[j] : NodeOf[g] = HomeOf(P[j])
              /\ j \in Ready(s)
         /\ \A j, k \in Job : j # k => P[j] \cap P[k] = {}
<1> DEFINE choices == [j \in Job |-> IF j \in Admitted(s) THEN PlacementsOf(j, Idle(s)) ELSE {}]
           left(j) == {G \in choices[j] : G \subseteq LeftBy(P, j, Idle(s))}
<1>1. \A j \in Job : IF left(j) = {} THEN P[j] = {} ELSE P[j] \in left(j)
  BY DEF Passes
<1>2. \A j \in Job : P[j] # {} =>
        /\ j \in Admitted(s)
        /\ P[j] \in PlacementsOf(j, Idle(s))
        /\ P[j] \subseteq LeftBy(P, j, Idle(s))
  BY <1>1
<1> HIDE DEF choices, left
<1>3. ASSUME NEW j \in Job, P[j] # {}
      PROVE  /\ P[j] \subseteq Idle(s) \cap Fits[j]
             /\ P[j] \in SUBSET Gpu
             /\ Cardinality(P[j]) = Want[j]
             /\ HomeOf(P[j]) \in Node
             /\ \A g \in P[j] : NodeOf[g] = HomeOf(P[j])
             /\ j \in Ready(s)
  <2>1. P[j] \in SUBSET (Idle(s) \cap Fits[j]) /\ Cardinality(P[j]) = Want[j]
    BY <1>2, <1>3 DEF PlacementsOf
  <2>2. \E n \in Node : P[j] \subseteq GpusOf(n)
    BY <1>2, <1>3 DEF PlacementsOf
  <2>3. HomeOf(P[j]) \in Node /\ P[j] \subseteq GpusOf(HomeOf(P[j]))
    BY <2>2 DEF HomeOf
  <2>4. j \in Ready(s)
    BY <1>2, <1>3 DEF Admitted
  <2> QED
    BY <2>1, <2>3, <2>4 DEF GpusOf
<1>4. ASSUME NEW j \in Job, NEW k \in Job, j < k
      PROVE  P[j] \cap P[k] = {}
  <2>1. j \in 1..(k - 1)
    BY <1>4, JobsAssumption DEF Job
  <2>2. CASE P[k] = {}
    BY <2>2
  <2>3. CASE P[k] # {}
    BY <1>2, <2>1, <2>3 DEF LeftBy
  <2> QED
    BY <2>2, <2>3
<1>5. ASSUME NEW j \in Job, NEW k \in Job, j # k
      PROVE  P[j] \cap P[k] = {}
  <2>1. j < k \/ k < j
    BY <1>5, JobsAssumption DEF Job
  <2> QED
    BY <1>4, <2>1
<1> QED
  BY <1>3, <1>5

\* While nobody is past a limit, an idle device is in no active job's list: the
\* devices of victims are kept back as cooling down, all others as reserved.
LEMMA IdleIsFree ==
  ASSUME NEW s \in Snapshot, Punctual(s)
  PROVE  \A j \in Active(s) : Idle(s) \cap s.job[j].gpus = {}
<1>1. Exceeded(s) = {}
  BY DEF Exceeded, Active, Punctual
<1> SUFFICES ASSUME NEW j \in Active(s), NEW g \in s.job[j].gpus, g \in Idle(s)
             PROVE  FALSE
  OBVIOUS
<1>2. g \in Held(s, Active(s) \cup {k \in Job : s.job[k].cooldown = "running"})
  BY DEF Held
<1>3. CASE g \in Held(s, Victims(s))
  <2>1. g \in CooldownGpus(s)
    BY <1>3 DEF CooldownGpus, Held
  <2> QED
    BY <2>1 DEF Idle
<1>4. CASE g \notin Held(s, Victims(s))
  <2>1. g \in Reserved(s)
    BY <1>1, <1>2, <1>4 DEF Reserved, Held
  <2> QED
    BY <2>1 DEF Idle
<1> QED
  BY <1>3, <1>4

\* Placing what a pass decided keeps the shape.  Victims were asked to leave after
\* the decision was made, which is why there are two snapshots.
LEMMA AllocateShape ==
  ASSUME NEW r, NEW s \in Snapshot, NEW P \in Passes(r)
  PROVE  /\ Allocate(s, P) \in Snapshot
         /\ \A j \in Job : Allocate(s, P).job[j] =
              IF P[j] = {} THEN s.job[j] ELSE Placed(s.job[j], P[j])
         /\ \A j \in Job : \A g \in P[j] : Allocate(s, P).gpu[g].job = j
         /\ \A g \in Gpu : (\A j \in Job : g \notin P[j]) => Allocate(s, P).gpu[g] = s.gpu[g]
<1> DEFINE jobs == [j \in Job |-> IF P[j] = {} THEN s.job[j] ELSE Placed(s.job[j], P[j])]
           gpus == [g \in Gpu |->
             IF \E j \in Job : g \in P[j]
             THEN [occ |-> "TROIANI", job |-> CHOOSE j \in Job : g \in P[j]]
             ELSE s.gpu[g]]
           start(j) == [kind |-> "START", gpus |-> P[j]]
           queues == [n \in Node |-> [j \in Job |->
             IF P[j] # {} /\ HomeOf(P[j]) = n THEN Push(s.pending[n][j], start(j))
             ELSE s.pending[n][j]]]
<1>1. Allocate(s, P) = [s EXCEPT !.job = jobs, !.gpu = gpus, !.pending = queues]
  BY DEF Allocate
<1>2. jobs \in Jobs
  <2>1. \A j \in Job : P[j] # {} => Placed(s.job[j], P[j]) \in JobRecord
    BY PassShape, PlacedShape DEF Snapshot, Jobs
  <2> QED
    BY <2>1 DEF Snapshot, Jobs
<1>3. gpus \in Gpus
  <2>1. \A g \in Gpu : (\E j \in Job : g \in P[j]) => (CHOOSE j \in Job : g \in P[j]) \in Job
    OBVIOUS
  <2> QED
    BY <2>1 DEF Snapshot, Gpus, GpuRecord
<1>4. queues \in Backlogs
  <2>1. \A j \in Job : P[j] # {} => start(j) \in Action
    BY PassShape DEF Action
  <2> HIDE DEF start
  <2>2. \A n \in Node, j \in Job : P[j] # {} => Push(s.pending[n][j], start(j)) \in Seq(Action)
    BY <2>1, PushShape DEF Snapshot, Backlogs
  <2> QED
    BY <2>2 DEF Snapshot, Backlogs
<1>5. ASSUME NEW j \in Job, NEW g \in P[j]
      PROVE  g \in Gpu /\ gpus[g].job = j
  <2>1. g \in Gpu
    BY <1>5, PassShape
  <2>2. \A k \in Job : g \in P[k] => k = j
    BY <1>5, PassShape
  <2>3. (CHOOSE k \in Job : g \in P[k]) = j
    BY <1>5, <2>2
  <2> QED
    BY <1>5, <2>1, <2>3
<1>6. \A g \in Gpu : (\A j \in Job : g \notin P[j]) => gpus[g] = s.gpu[g]
  OBVIOUS
<1>7. \A j \in Job : jobs[j] = IF P[j] = {} THEN s.job[j] ELSE Placed(s.job[j], P[j])
  OBVIOUS
<1> HIDE DEF jobs, gpus, queues
<1>8. /\ Allocate(s, P) \in Snapshot
      /\ Allocate(s, P).job = jobs
      /\ Allocate(s, P).gpu = gpus
  BY <1>1, <1>2, <1>3, <1>4 DEF Snapshot
<1> QED
  BY <1>5, <1>6, <1>7, <1>8

\* Placing what a pass decided keeps the invariant.
LEMMA AllocateCarries ==
  ASSUME NEW r \in Snapshot, NEW s \in Snapshot, NEW P \in Passes(r),
         Active(s) = Active(r), Recedes(r, s),
         \A j \in Job \ Active(r) : s.job[j] = r.job[j]
  PROVE  Carries(s, Allocate(s, P))
<1> DEFINE t == Allocate(s, P)
<1>1. \A j \in Job : P[j] # {} =>
        /\ t.job[j].state \in {"SCHEDULED", "RESUMING"}
        /\ t.job[j].gpus = P[j]
        /\ t.job[j].node = HomeOf(P[j])
        /\ t.job[j].overdue = s.job[j].overdue
  <2> SUFFICES ASSUME NEW j \in Job, P[j] # {}
               PROVE  /\ t.job[j].state \in {"SCHEDULED", "RESUMING"}
                      /\ t.job[j].gpus = P[j]
                      /\ t.job[j].node = HomeOf(P[j])
                      /\ t.job[j].overdue = s.job[j].overdue
    OBVIOUS
  <2>1. t.job[j] = Placed(s.job[j], P[j])
    BY AllocateShape
  <2>2. P[j] \in SUBSET Gpu /\ HomeOf(P[j]) \in Node
    BY PassShape
  <2>3. s.job[j] \in JobRecord
    BY DEF Snapshot, Jobs
  <2> QED
    BY <2>1, <2>2, <2>3, PlacedShape
<1>2. \A j \in Job : P[j] = {} => t.job[j] = s.job[j]
  BY AllocateShape
<1>3. /\ \A j \in Job : \A g \in P[j] : t.gpu[g].job = j
      /\ \A g \in Gpu : (\A j \in Job : g \notin P[j]) => t.gpu[g] = s.gpu[g]
  BY AllocateShape
<1> HIDE DEF t
\* An active job was placed just now, or is what it was and has none of the
\* devices that were placed.
<1>4. ASSUME NEW j \in Active(t), P[j] = {}
      PROVE  j \in Active(s) /\ t.job[j] = s.job[j]
  BY <1>2, <1>4 DEF Active
<1>5. ASSUME Sound(s), NEW j \in Active(t), P[j] = {}
      PROVE  \A k \in Job : P[k] \cap t.job[j].gpus = {}
  <2>1. s.job[j].gpus = r.job[j].gpus /\ j \in Active(r)
    BY <1>4, <1>5 DEF Recedes
  <2>2. Punctual(r)
    BY <1>5 DEF Recedes, Sound, Punctual
  <2>3. Idle(r) \cap r.job[j].gpus = {}
    BY <2>1, <2>2, IdleIsFree
  <2> QED
    BY <1>4, <1>5, <2>1, <2>3, PassShape
<1>6. ASSUME Sound(s) PROVE Exclusive(t)
  <2> SUFFICES ASSUME NEW j \in Active(t), NEW k \in Active(t), j # k
               PROVE  t.job[j].gpus \cap t.job[k].gpus = {}
    BY DEF Exclusive
  <2> j \in Job /\ k \in Job
    BY DEF Active
  <2>1. CASE P[j] = {} /\ P[k] = {}
    BY <1>4, <1>6, <2>1 DEF Sound, Exclusive
  <2>2. CASE P[j] = {} /\ P[k] # {}
    BY <1>1, <1>5, <1>6, <2>2
  <2>3. CASE P[j] # {} /\ P[k] = {}
    BY <1>1, <1>5, <1>6, <2>3
  <2>4. CASE P[j] # {} /\ P[k] # {}
    BY <1>1, <2>4, PassShape
  <2> QED
    BY <2>1, <2>2, <2>3, <2>4
<1>7. ASSUME Sound(s) PROVE Agreed(t)
  <2> SUFFICES ASSUME NEW j \in Active(t), NEW g \in t.job[j].gpus
               PROVE  t.gpu[g].job \in {j, NoJob}
    BY DEF Agreed
  <2> j \in Job
    BY DEF Active
  <2>1. CASE P[j] # {}
    BY <1>1, <1>3, <2>1
  <2>2. CASE P[j] = {}
    <3>1. /\ j \in Active(s)
          /\ g \in s.job[j].gpus
          /\ \A k \in Job : g \notin P[k]
      BY <1>4, <1>5, <1>7, <2>2
    <3>2. g \in Gpu
      BY <3>1 DEF Snapshot, Jobs, JobRecord
    <3>3. t.gpu[g] = s.gpu[g]
      BY <1>3, <3>1, <3>2
    <3> QED
      BY <1>7, <3>1, <3>3 DEF Sound, Agreed
  <2> QED
    BY <2>1, <2>2
<1>8. ASSUME Tidy(s) PROVE Whole(t)
  <2> SUFFICES ASSUME NEW j \in Active(t)
               PROVE  /\ Cardinality(t.job[j].gpus) = Want[j]
                      /\ t.job[j].gpus \subseteq Fits[j]
                      /\ \A g \in t.job[j].gpus : NodeOf[g] = t.job[j].node
    BY DEF Whole
  <2> j \in Job
    BY DEF Active
  <2>1. CASE P[j] # {}
    BY <1>1, <2>1, PassShape
  <2>2. CASE P[j] = {}
    BY <1>4, <1>8, <2>2 DEF Tidy, Whole
  <2> QED
    BY <2>1, <2>2
<1>9. ASSUME Sound(s) PROVE Punctual(t)
  BY <1>1, <1>2, <1>9 DEF Sound, Punctual
<1>10. ASSUME Tidy(s) PROVE Lively(t)
  <2> SUFFICES ASSUME NEW g \in Gpu, t.gpu[g].job # NoJob
               PROVE  t.job[t.gpu[g].job].state \in ActiveStates \cup {"QUEUED", "PAUSED"}
    BY DEF Lively
  <2>1. CASE \E j \in Job : g \in P[j]
    BY <1>1, <1>3, <2>1 DEF ActiveStates
  <2>2. CASE \A j \in Job : g \notin P[j]
    <3> DEFINE j == s.gpu[g].job
    <3>1. t.gpu[g].job = j /\ j # NoJob
      BY <1>3, <2>2
    <3>2. j \in Job
      BY <3>1 DEF Snapshot, Gpus, GpuRecord
    <3>3. s.job[j].state \in ActiveStates \cup {"QUEUED", "PAUSED"}
      BY <1>10, <3>1 DEF Tidy, Lively
    <3>4. t.job[j].state \in ActiveStates \cup {"QUEUED", "PAUSED"}
      <4> HIDE DEF j
      <4> QED
        BY <1>1, <1>2, <3>2, <3>3 DEF ActiveStates
    <3> QED
      BY <3>1, <3>4
  <2> QED
    BY <2>1, <2>2
<1>11. Lasting(s, t)
  <2> SUFFICES ASSUME NEW j \in Job PROVE Lasts(s.job[j].state, t.job[j].state)
    BY DEF Lasting
  <2>1. CASE P[j] # {}
    <3>1. r.job[j].state \in QueuedStates
      BY <2>1, PassShape DEF Ready
    <3>2. j \notin Active(r)
      BY <3>1 DEF Active, ActiveStates, QueuedStates
    <3>3. s.job[j].state \in QueuedStates
      BY <3>1, <3>2
    <3> QED
      BY <1>1, <2>1, <3>3 DEF Lasts, QueuedStates
  <2>2. CASE P[j] = {}
    BY <1>2, <2>2 DEF Lasts
  <2> QED
    BY <2>1, <2>2
<1>12. Tidy(s) => Tidy(t)
  BY <1>8, <1>10 DEF Tidy
<1>13. Sound(s) => Sound(t)
  BY <1>6, <1>7, <1>9, <1>12 DEF Sound
<1> QED
  BY <1>11, <1>12, <1>13 DEF Carries, t

\* A pass, with the reclaim before it and the requests to leave, keeps the shape
\* and the invariant.
LEMMA TickCarries ==
  ASSUME NEW s \in Snapshot, NEW t \in TickResults(s)
  PROVE  t \in Snapshot /\ Carries(s, t)
<1> DEFINE r == Reclaim(s)
           evicted == PreemptJobs(r, Victims(r) \cup Exceeded(r))
<1>1. r \in Snapshot /\ Carries(s, r)
  BY ReclaimSafe, SafeIsSound
<1> HIDE DEF r
<1>2. /\ evicted \in Snapshot
      /\ Carries(r, evicted)
      /\ Active(evicted) = Active(r)
      /\ Recedes(r, evicted)
      /\ \A j \in Job \ Active(r) : evicted.job[j] = r.job[j]
  BY <1>1, PreemptSafe, SafeIsSound DEF Safe
<1>3. t = evicted \/ \E P \in Passes(r) : t = Allocate(evicted, P)
  BY DEF TickResults, r
<1> HIDE DEF evicted
<1>4. Carries(s, evicted)
  BY <1>1, <1>2, CarryingComposes
<1>5. CASE t = evicted
  BY <1>2, <1>4, <1>5
<1>6. ASSUME NEW P \in Passes(r), t = Allocate(evicted, P)
      PROVE  t \in Snapshot /\ Carries(s, t)
  <2>1. t \in Snapshot /\ Carries(evicted, t)
    BY <1>1, <1>2, <1>6, AllocateShape, AllocateCarries
  <2> QED
    BY <1>4, <2>1, CarryingComposes
<1> QED
  BY <1>3, <1>5, <1>6

------------------------------------------------------------------------------
(* The actions.                                                             *)

Inv == TypeOK /\ Sound(Store)

\* Jobs that are over stay as they are, and jobs that exist go on existing.
JobsLast == \A j \in Job : Lasts(job[j].state, job'[j].state)

\* What a handler must be shown to do: install a snapshot to which the store
\* carries its invariant over.
Keeps ==
  /\ TypeOK'
  /\ JobsLast
  /\ Tidy(Store) => Tidy(Store)'
  /\ Sound(Store) => Sound(Store)'

\* Installing such a snapshot keeps the invariant.
LEMMA InstallCarries ==
  ASSUME NEW t \in Snapshot, Carries(Store, t), Install(t)
  PROVE  Keeps
<1>1. TypeOK'
  BY InstallShape
<1>2. Store'.job = t.job /\ Store'.gpu = t.gpu
  BY DEF Store, Install
<1>3. JobsLast
  BY DEF Carries, Lasting, JobsLast, Install, Store
<1>4. (Tidy(t) => Tidy(Store)') /\ (Sound(t) => Sound(Store)')
  BY <1>2 DEF Sound, Tidy, Exclusive, Agreed, Whole, Punctual, Lively, Active
<1> QED
  BY <1>1, <1>3, <1>4 DEF Keeps, Carries

\* A handler that only takes safe steps.
LEMMA SafeKeeps ==
  ASSUME TypeOK, NEW t, Safe(Store, t), Install(t)
  PROVE  Keeps
BY StoreShape, SafeIsSound, InstallCarries

\* A handler that ends with a pass.
LEMMA TickKeeps ==
  ASSUME TypeOK, NEW s, Safe(Store, s), NEW t \in TickResults(s), Install(t)
  PROVE  Keeps
<1>1. s \in Snapshot /\ Carries(Store, s)
  BY StoreShape, SafeIsSound
<1>2. t \in Snapshot /\ Carries(s, t)
  BY <1>1, TickCarries
<1> QED
  BY <1>1, <1>2, CarryingComposes, InstallCarries

\* Doing nothing is safe.
LEMMA StoreSafe == TypeOK => Safe(Store, Store)
BY StoreShape DEF Safe, Recedes, Lasting, Lasts

\* submit.
LEMMA SubmitKeeps ==
  ASSUME TypeOK, NEW j \in Job, Submit(j)
  PROVE  Keeps
<1>1. Store.job[j].state = "NONE"
  BY DEF Submit, Store
<1>2. Safe(Store, SetState(Store, j, "PENDING"))
  BY <1>1, StoreShape, SetStateSafe DEF JobState, ActiveStates
<1> QED
  BY <1>2, TickKeeps DEF Submit

\* The table lets nothing that is completed be cancelled.
LEMMA CancelTable ==
  ASSUME NEW st \in JobState, CanMove(st, "CANCELLED")
  PROVE  st = "CANCELLED" \/ st \notin {"COMPLETED", "CANCELLED"}
<1>1. Valid["COMPLETED"] = Table["COMPLETED"]
  BY DEF Valid, JobState
<1>2. Table["COMPLETED"] = {}
  BY DEF Table, JobState
<1> QED
  BY <1>1, <1>2 DEF CanMove

\* cancel.
LEMMA CancelKeeps ==
  ASSUME TypeOK, NEW j \in Job, Cancel(j)
  PROVE  Keeps
<1> DEFINE told == IF j \in Active(Store) THEN Tell(Store, {j}, Order("STOP")) ELSE Store
           freed == Release(told, {j})
<1>1. told \in Snapshot /\ Safe(Store, told)
  BY StoreShape, StoreSafe, OrderShape, TellShape, TellSafe
<1> HIDE DEF told
<1>2. /\ freed \in Snapshot /\ Safe(told, freed)
      /\ \A g \in Gpu : freed.gpu[g].job # j
  <2>1. j # NoJob
    BY JobsAssumption DEF Job, NoJob
  <2> QED
    BY <1>1, <2>1, ReleaseShape, ReleaseSafe
<1>3. freed.job[j].state = "CANCELLED" \/ freed.job[j].state \notin {"COMPLETED", "CANCELLED"}
  <2>1. told.job = job
    BY StoreShape, OrderShape, TellShape DEF told, Store
  <2>2. freed.job = job
    BY <1>1, <2>1, ReleaseShape
  <2>3. job[j].state \in JobState
    BY DEF TypeOK, JobRecord, Cancel, Exists
  <2>4. CanMove(job[j].state, "CANCELLED")
    BY DEF Cancel
  <2> QED
    BY <2>2, <2>3, <2>4, CancelTable
<1> HIDE DEF freed
<1>4. Safe(freed, SetState(freed, j, "CANCELLED"))
  BY <1>2, <1>3, SetStateSafe DEF JobState, ActiveStates
<1>5. Install(SetState(freed, j, "CANCELLED"))
  BY DEF Cancel, told, freed
<1> QED
  BY <1>1, <1>2, <1>4, <1>5, SafeComposes, SafeKeeps

\* pause, in its four branches.
LEMMA PauseKeeps ==
  ASSUME TypeOK, NEW j \in Job, Pause(j)
  PROVE  Keeps
<1> DEFINE stopped == Tell(Store, {j}, Order("STOP"))
           asked == Tell(Store, {j}, Order("PREEMPT"))
           freed == Release(stopped, {j})
           parked == [job[j] EXCEPT !.state = "PAUSED", !.gpus = {}, !.node = NoNode]
           leaving == [job[j] EXCEPT !.state = "PAUSED", !.preempt = TRUE]
<1>1. Store \in Snapshot /\ Store.job = job /\ job[j] \in JobRecord
  BY StoreShape DEF Store, Snapshot, Jobs
<1> USE DEF Lasts
<1>0. job[j].state \notin {"COMPLETED", "CANCELLED"}
  BY DEF Pause, PauseQueued, PauseBeforeRun, PauseRunning, PauseCheckpointing
<1>2. ASSUME Install(SetState(Store, j, "PAUSED")) PROVE Keeps
  <2>1. Safe(Store, SetState(Store, j, "PAUSED"))
    BY <1>0, <1>1, SetStateSafe DEF JobState, ActiveStates
  <2> QED
    BY <1>2, <2>1, SafeKeeps
<1>3. /\ stopped \in Snapshot /\ Safe(Store, stopped) /\ stopped.job = job
      /\ asked \in Snapshot /\ Safe(Store, asked) /\ asked.job = job
  BY <1>1, OrderShape, TellShape, TellSafe
<1>4. freed \in Snapshot /\ Safe(Store, freed) /\ freed.job = job
  BY <1>3, ReleaseShape, ReleaseSafe, SafeComposes
<1>5. /\ parked \in JobRecord /\ parked.state = "PAUSED" /\ parked.overdue = job[j].overdue
      /\ leaving \in JobRecord /\ leaving.state = "PAUSED" /\ leaving.overdue = job[j].overdue
  BY <1>1 DEF JobRecord, JobState
<1> HIDE DEF stopped, asked, freed, parked, leaving
<1>6. Safe(freed, SetJob(freed, j, parked)) /\ Safe(asked, SetJob(asked, j, leaving))
  BY <1>0, <1>3, <1>4, <1>5, SetJobSafe DEF ActiveStates
<1>7. Safe(Store, SetJob(freed, j, parked)) /\ Safe(Store, SetJob(asked, j, leaving))
  BY <1>3, <1>4, <1>6, SafeComposes
<1>8. CASE PauseQueued(j)
  BY <1>2, <1>8 DEF PauseQueued
<1>9. CASE PauseBeforeRun(j)
  <2>1. Install(SetJob(freed, j, parked)) \/ Install(stopped)
    BY <1>9 DEF PauseBeforeRun, freed, parked, stopped
  <2> QED
    BY <1>3, <1>7, <2>1, SafeKeeps
<1>10. CASE PauseRunning(j)
  <2>1. Install(SetJob(asked, j, leaving))
    BY <1>10 DEF PauseRunning, asked, leaving
  <2> QED
    BY <1>7, <2>1, SafeKeeps
<1>11. CASE PauseCheckpointing(j)
  BY <1>2, <1>11 DEF PauseCheckpointing
<1> QED
  BY <1>8, <1>9, <1>10, <1>11 DEF Pause

\* resume.
LEMMA ResumeKeeps ==
  ASSUME TypeOK, NEW j \in Job, Resume(j)
  PROVE  Keeps
<1> DEFINE r == [job[j] EXCEPT !.state = "QUEUED", !.preempt = FALSE]
           woken == IF job[j].state \in {"PAUSED", "PREEMPTED", "FAILED"}
                    THEN SetJob(Store, j, r) ELSE Store
<1>1. Store \in Snapshot /\ Store.job = job /\ job[j] \in JobRecord
  BY StoreShape DEF Store, Snapshot, Jobs
<1>2. r \in JobRecord /\ r.state = "QUEUED" /\ r.overdue = job[j].overdue
  BY <1>1 DEF JobRecord, JobState
<1> HIDE DEF r
<1>3. job[j].state \notin {"COMPLETED", "CANCELLED"} => Safe(Store, SetJob(Store, j, r))
  BY <1>1, <1>2, SetJobSafe DEF ActiveStates, Lasts
<1>4. Safe(Store, woken)
  BY <1>3, StoreSafe
<1>5. \E t \in TickResults(woken) : Install(t)
  BY DEF Resume, r
<1> QED
  BY <1>4, <1>5, TickKeeps

\* Setting the stop latch.
LEMMA LatchSafe ==
  ASSUME NEW s \in Snapshot, NEW latch \in BOOLEAN
  PROVE  Safe(s, [s EXCEPT !.stopAll = latch])
BY DEF Safe, Recedes, Lasting, Lasts, Lively, Active, Snapshot

\* preempt, release_all, stop_all.
LEMMA PreemptingKeeps ==
  ASSUME TypeOK, (\E j \in Job : Preempt(j)) \/ ReleaseAll \/ StopAll
  PROVE  Keeps
<1>1. \A J : Safe(Store, PreemptJobs(Store, J)) /\ PreemptJobs(Store, J) \in Snapshot
  BY StoreShape, PreemptSafe DEF Safe
<1>2. Safe(Store, [PreemptJobs(Store, Preemptible) EXCEPT !.stopAll = TRUE])
  BY <1>1, LatchSafe, SafeComposes
<1> QED
  BY <1>1, <1>2, SafeKeeps DEF Preempt, ReleaseAll, StopAll

\* resume_all, update_policy.
LEMMA LatchKeeps ==
  ASSUME TypeOK, ResumeAll \/ \E latch \in BOOLEAN : SetStopAll(latch)
  PROVE  Keeps
<1>1. \A latch \in BOOLEAN : Safe(Store, [Store EXCEPT !.stopAll = latch])
  BY StoreShape, LatchSafe
<1> QED
  BY <1>1, SafeKeeps, TickKeeps DEF ResumeAll, SetStopAll

\* kill_job.
LEMMA KillKeeps ==
  ASSUME TypeOK, NEW j \in Job, Kill(j)
  PROVE  Keeps
BY StoreShape, OrderShape, TellSafe, SafeKeeps DEF Kill

\* Marking a device record, which leaves its claim alone.
LEMMA MarkSafe ==
  ASSUME NEW s \in Snapshot, NEW g \in Gpu, NEW d \in SUBSET Gpu,
         NEW occ \in {"UNSEEN", "AVAILABLE", "TROIANI", "RESEARCHER", "DRAINING"}
  PROVE  Safe(s, [s EXCEPT !.draining = d, !.gpu[g].occ = occ])
<1> DEFINE f == [s.gpu EXCEPT ![g].occ = occ]
           t == [s EXCEPT !.draining = d, !.gpu[g].occ = occ]
<1>1. f \in Gpus /\ \A h \in Gpu : f[h].job = s.gpu[h].job
  BY DEF Snapshot, Gpus, GpuRecord
<1>2. t = [s EXCEPT !.draining = d, !.gpu = f]
  BY DEF Snapshot
<1> HIDE DEF f, t
<1>3. t \in Snapshot /\ t.job = s.job /\ t.gpu = f
  BY <1>1, <1>2 DEF Snapshot
<1> QED
  BY <1>1, <1>3 DEF Safe, Recedes, Lasting, Lasts, Lively, Active, t

\* drain_gpu, undrain_gpu.
LEMMA DrainKeeps ==
  ASSUME TypeOK, NEW g \in Gpu, DrainGpu(g) \/ UndrainGpu(g)
  PROVE  Keeps
<1>1. CASE DrainGpu(g)
  <2> DEFINE s == PreemptJobs(Store, {gpu[g].job})
  <2>1. s \in Snapshot /\ Safe(Store, s)
    BY StoreShape, PreemptSafe DEF Safe
  <2> HIDE DEF s
  <2>2. s.draining \cup {g} \in SUBSET Gpu
    BY <2>1 DEF Snapshot
  <2>3. Safe(s, [s EXCEPT !.draining = s.draining \cup {g}, !.gpu[g].occ = "DRAINING"])
    BY <2>1, <2>2, MarkSafe
  <2>4. Install([s EXCEPT !.draining = s.draining \cup {g}, !.gpu[g].occ = "DRAINING"])
    BY <1>1 DEF DrainGpu, s
  <2> QED
    BY <2>1, <2>3, <2>4, SafeComposes, SafeKeeps
<1>2. CASE UndrainGpu(g)
  <2> DEFINE occ == IF Store.gpu[g].occ = "DRAINING" THEN "AVAILABLE" ELSE Store.gpu[g].occ
  <2>1. Store \in Snapshot
    BY StoreShape
  <2>2. /\ Store.draining \ {g} \in SUBSET Gpu
        /\ occ \in {"UNSEEN", "AVAILABLE", "TROIANI", "RESEARCHER", "DRAINING"}
    BY <2>1 DEF Snapshot, Gpus, GpuRecord
  <2>3. Install([Store EXCEPT !.draining = Store.draining \ {g}, !.gpu[g].occ = occ])
    BY <1>2 DEF UndrainGpu
  <2> HIDE DEF occ
  <2>4. Safe(Store, [Store EXCEPT !.draining = Store.draining \ {g}, !.gpu[g].occ = occ])
    BY <2>1, <2>2, MarkSafe
  <2> QED
    BY <2>3, <2>4, SafeKeeps
<1> QED
  BY <1>1, <1>2

\* status.
LEMMA StatusKeeps ==
  ASSUME TypeOK, Status
  PROVE  Keeps
BY StoreShape, ReclaimSafe, SafeKeeps DEF Status

\* A heartbeat's report: a device keeps its claim or loses it.
LEMMA RefreshSafe ==
  ASSUME TypeOK, NEW n \in Node, NEW report \in Reports(n)
  PROVE  Safe(Store, Refresh(n, report))
<1> DEFINE f == [g \in Gpu |-> IF g \in DOMAIN report THEN Refreshed(g, report[g]) ELSE gpu[g]]
           h == [heard EXCEPT ![n] = "fresh"]
<1>1. gpu \in Gpus /\ heard \in Hearing
  BY DEF TypeOK, Gpus, Hearing
<1>2. \A g \in DOMAIN report : g \in Gpu /\ report[g] \in {"AVAILABLE", "TROIANI", "RESEARCHER"}
  <2>1. CASE report \in [GpusOf(n) -> Seen]
    BY <2>1, SeenAssumption DEF GpusOf
  <2>2. CASE report = <<>>
    BY <2>2
  <2> QED
    BY <2>1, <2>2 DEF Reports
<1>3. \A g \in DOMAIN report :
        Refreshed(g, report[g]) \in GpuRecord /\ Refreshed(g, report[g]).job \in {gpu[g].job, NoJob}
  BY <1>1, <1>2 DEF Refreshed, Gpus, GpuRecord
<1>4. f \in Gpus /\ \A g \in Gpu : f[g].job \in {gpu[g].job, NoJob}
  BY <1>1, <1>3 DEF Gpus
<1>5. h \in Hearing
  BY <1>1 DEF Hearing
<1>6. Refresh(n, report) = [Store EXCEPT !.heard = h, !.gpu = f]
  BY DEF Refresh, Store
<1> HIDE DEF f, h
<1>7. /\ Refresh(n, report) \in Snapshot
      /\ Refresh(n, report).job = Store.job
      /\ Refresh(n, report).gpu = f
  BY <1>4, <1>5, <1>6, StoreShape DEF Snapshot
<1>8. Store.gpu = gpu
  BY DEF Store
<1> QED
  BY <1>4, <1>7, <1>8 DEF Safe, Recedes, Lasting, Lasts, Lively, Active

\* Emptying a queue.
LEMMA DeliveredSafe ==
  ASSUME NEW s \in Snapshot, NEW n \in Node
  PROVE  Safe(s, Delivered(s, n))
<1> DEFINE queues == [s.pending EXCEPT ![n] = [j \in Job |-> <<>>]]
<1>1. queues \in Backlogs
  BY DEF Snapshot, Backlogs
<1>2. Delivered(s, n) = [s EXCEPT !.pending = queues]
  BY DEF Delivered
<1> HIDE DEF queues
<1> QED
  BY <1>1, <1>2 DEF Safe, Recedes, Lasting, Lasts, Lively, Active, Snapshot

\* The exits that reconciliation makes up for the jobs found gone.
LEMMA ReconciledSafe ==
  ASSUME NEW s \in Snapshot, NEW gone \in SUBSET Job, NEW dirs \in [gone -> RunDirs]
  PROVE  Safe(s, Reconciled(s, gone, dirs))
<1> DEFINE exits == [j \in gone |-> [exit |-> ReportedGone(s.job[j]), dir |-> dirs[j]]]
<1>1. CASE gone = {}
  BY <1>1 DEF Reconciled, Safe, Recedes, Lasting, Lasts
<1>2. CASE gone # {}
  <2>1. DOMAIN exits \subseteq Job /\ \A j \in DOMAIN exits : exits[j].dir \in RunDir
    BY RunDirsAssumption
  <2>2. Reconciled(s, gone, dirs) = JobExits(s, exits)
    BY <1>2 DEF Reconciled
  <2> HIDE DEF exits
  <2> QED
    BY <2>1, <2>2, JobExitsSafe
<1> QED
  BY <1>1, <1>2

\* heartbeat up to the answer: report, dead processes, pass.
LEMMA HeartbeatCarries ==
  ASSUME TypeOK, NEW n \in Node, NEW report \in Reports(n), NEW gone \in SUBSET OwnedBy(n),
         NEW dirs \in [gone -> RunDirs], NEW t \in HeartbeatResults(n, report, gone, dirs)
  PROVE  t \in Snapshot /\ Carries(Store, t)
<1> DEFINE refreshed == Refresh(n, report)
           reconciled == Reconciled(refreshed, gone, dirs)
<1>1. refreshed \in Snapshot /\ Safe(Store, refreshed)
  BY RefreshSafe DEF Safe
<1>2. gone \in SUBSET Job
  BY DEF OwnedBy, Active
<1>3. t \in TickResults(reconciled)
  BY DEF HeartbeatResults
<1> HIDE DEF refreshed
<1>4. Safe(Store, reconciled)
  BY <1>1, <1>2, ReconciledSafe, SafeComposes
<1> HIDE DEF reconciled
<1>5. reconciled \in Snapshot /\ Carries(Store, reconciled)
  BY <1>4, StoreShape, SafeIsSound
<1> QED
  BY <1>3, <1>5, TickCarries, CarryingComposes

\* heartbeat, and the delivery of the answer.
LEMMA HeartbeatKeeps ==
  ASSUME TypeOK, NEW n \in Node, Heartbeat(n)
  PROVE  Keeps
<1>1. PICK report \in Reports(n), gone \in SUBSET OwnedBy(n) :
        \E dirs \in [gone -> RunDirs] : HeartbeatWith(n, report, gone, dirs)
  BY DEF Heartbeat
<1>2. PICK dirs \in [gone -> RunDirs] : HeartbeatWith(n, report, gone, dirs)
  BY <1>1
<1>3. PICK t \in HeartbeatResults(n, report, gone, dirs) : Install(Delivered(t, n))
  BY <1>2 DEF HeartbeatWith
<1>4. t \in Snapshot /\ Carries(Store, t)
  BY <1>3, HeartbeatCarries
<1>5. Delivered(t, n) \in Snapshot /\ Carries(t, Delivered(t, n))
  BY <1>4, DeliveredSafe, SafeIsSound
<1> QED
  BY <1>3, <1>4, <1>5, CarryingComposes, InstallCarries

\* job_exit.
LEMMA JobExitKeeps ==
  ASSUME TypeOK, NEW j \in Job, NEW exit \in ExitReport, NEW dir \in RunDirs,
         JobExit(j, exit, dir)
  PROVE  Keeps
<1> DEFINE exits == [k \in {j} |-> [exit |-> exit, dir |-> dir]]
<1>1. DOMAIN exits \subseteq Job /\ \A k \in DOMAIN exits : exits[k].dir \in RunDir
  BY RunDirsAssumption
<1>2. Install(JobExits(Store, exits))
  BY DEF JobExit
<1> HIDE DEF exits
<1>3. Safe(Store, JobExits(Store, exits))
  BY <1>1, StoreShape, JobExitsSafe
<1> QED
  BY <1>2, <1>3, SafeKeeps

\* record_checkpoint.
LEMMA CheckpointKeeps ==
  ASSUME TypeOK, NEW j \in Job, NEW kind \in {"usable", "other"}, CheckpointReport(j, kind)
  PROVE  Keeps
<1> DEFINE r == [job[j] EXCEPT !.ckpt = kind]
<1>1. Store \in Snapshot /\ Store.job = job /\ job[j] \in JobRecord
  BY StoreShape DEF Store, Snapshot, Jobs
<1>2. /\ r \in JobRecord
      /\ r.state = job[j].state
      /\ r.gpus = job[j].gpus
      /\ r.node = job[j].node
      /\ r.overdue = job[j].overdue
  BY <1>1 DEF JobRecord, Checkpoint
<1> HIDE DEF r
<1>3. Safe(Store, SetJob(Store, j, r))
  BY <1>1, <1>2, SetJobSafe DEF Lasts
<1> QED
  BY <1>3, SafeKeeps DEF CheckpointReport, r

\* A first metric: only an active job moves, to another active state.
LEMMA WithMetricSafe ==
  ASSUME NEW s \in Snapshot, NEW j \in Job
  PROVE  Safe(s, WithMetric(s, j))
<1> DEFINE r == Stepped(s.job[j])
<1>1. s.job[j] \in JobRecord
  BY DEF Snapshot, Jobs
<1>2. /\ r \in JobRecord
      /\ r.gpus = s.job[j].gpus
      /\ r.node = s.job[j].node
      /\ r.overdue = s.job[j].overdue
      /\ \/ r.state = s.job[j].state
         \/ /\ r.state = "RUNNING"
            /\ s.job[j].state \in {"SCHEDULED", "STARTING", "RESUMING"}
  BY <1>1 DEF Stepped, JobRecord, JobState, Checkpoint
<1> HIDE DEF r
<1>3. Safe(s, SetJob(s, j, r))
  BY <1>2, SetJobSafe DEF ActiveStates, Lasts
<1> QED
  BY <1>3 DEF WithMetric, r

\* A rollback counts itself, within the limit, and queues a paused job.
LEMMA RolledBackShape ==
  ASSUME NEW r \in JobRecord, r.rollbacks < MaxRollbacks
  PROVE  /\ RolledBack(r) \in JobRecord
         /\ RolledBack(r).gpus = r.gpus
         /\ RolledBack(r).node = r.node
         /\ RolledBack(r).overdue = r.overdue
         /\ \/ RolledBack(r).state = r.state
            \/ r.state = "PAUSED" /\ RolledBack(r).state = "QUEUED"
<1>1. r.rollbacks + 1 \in 0..MaxRollbacks
  BY RollbackAssumption DEF JobRecord
<1>2. (IF r.state = "PAUSED" THEN "QUEUED" ELSE r.state) \in JobState \cup {"NONE"}
  BY DEF JobRecord, JobState
<1> QED
  BY <1>1, <1>2 DEF RolledBack, JobRecord

\* An anomaly: a running job is paused, and with rollback queued again.
LEMMA WithAnomalySafe ==
  ASSUME NEW s \in Snapshot, NEW j \in Job
  PROVE  Safe(s, WithAnomaly(s, j))
<1> DEFINE asked == Tell(s, {j}, Order("PREEMPT"))
           paused == IF s.job[j].state = "RUNNING" THEN SetState(asked, j, "PAUSED") ELSE s
           r == RolledBack(paused.job[j])
<1>1. asked \in Snapshot /\ Safe(s, asked)
  BY OrderShape, TellShape, TellSafe
<1>2. s.job[j].state = "RUNNING" => Safe(asked, SetState(asked, j, "PAUSED"))
  <2>1. asked.job = s.job
    BY OrderShape, TellShape
  <2> HIDE DEF asked
  <2> QED
    BY <1>1, <2>1, SetStateSafe DEF JobState, ActiveStates
<1> HIDE DEF asked
<1>3. /\ paused \in Snapshot /\ Safe(s, paused)
      /\ paused.job[j].rollbacks = s.job[j].rollbacks
  <2>1. CASE s.job[j].state = "RUNNING"
    <3>1. SetState(asked, j, "PAUSED").job[j] = [s.job[j] EXCEPT !.state = "PAUSED"]
      <4>1. asked.job = s.job
        BY OrderShape, TellShape DEF asked
      <4> QED
        BY <1>1, <4>1 DEF SetState, SetJob, Snapshot, Jobs
    <3>2. [s.job[j] EXCEPT !.state = "PAUSED"].rollbacks = s.job[j].rollbacks
      BY DEF Snapshot, Jobs, JobRecord
    <3> QED
      BY <1>1, <1>2, <2>1, <3>1, <3>2, SafeComposes DEF Safe
  <2>2. CASE s.job[j].state # "RUNNING"
    BY <2>2 DEF Safe, Recedes, Lasting, Lasts
  <2> QED
    BY <2>1, <2>2
<1> HIDE DEF paused
<1>4. ASSUME s.job[j].rollbacks < MaxRollbacks
      PROVE  Safe(paused, SetJob(paused, j, r))
  <2>1. paused.job[j] \in JobRecord
    BY <1>3 DEF Snapshot, Jobs
  <2>2. /\ r \in JobRecord
        /\ r.gpus = paused.job[j].gpus
        /\ r.node = paused.job[j].node
        /\ r.overdue = paused.job[j].overdue
        /\ \/ r.state = paused.job[j].state
           \/ paused.job[j].state = "PAUSED" /\ r.state = "QUEUED"
    BY <1>3, <1>4, <2>1, RolledBackShape
  <2> HIDE DEF r
  <2> QED
    BY <1>3, <2>2, SetJobSafe DEF ActiveStates, Lasts
<1> QED
  BY <1>3, <1>4, SafeComposes DEF WithAnomaly, asked, paused, r

\* record_metrics, record_anomaly.
LEMMA MetricsKeeps ==
  ASSUME TypeOK, NEW j \in Job,
         (\E loss, anomaly \in BOOLEAN : Metrics(j, loss, anomaly)) \/ Anomaly(j)
  PROVE  Keeps
<1>1. CASE Anomaly(j)
  BY <1>1, StoreShape, WithAnomalySafe, SafeKeeps DEF Anomaly
<1>2. ASSUME NEW loss \in BOOLEAN, NEW anomaly \in BOOLEAN, Metrics(j, loss, anomaly)
      PROVE  Keeps
  <2> DEFINE seen == IF loss THEN WithMetric(Store, j) ELSE Store
  <2>1. seen \in Snapshot /\ Safe(Store, seen)
    BY StoreShape, StoreSafe, WithMetricSafe DEF Safe
  <2>2. Install(IF anomaly THEN WithAnomaly(seen, j) ELSE seen)
    BY <1>2 DEF Metrics
  <2> HIDE DEF seen
  <2>3. Safe(Store, IF anomaly THEN WithAnomaly(seen, j) ELSE seen)
    BY <2>1, WithAnomalySafe, SafeComposes
  <2> QED
    BY <2>2, <2>3, SafeKeeps
<1> QED
  BY <1>1, <1>2

\* A change of a job's record that no part of the invariant looks at, limits aside.
LEMMA BesideKeeps ==
  ASSUME TypeOK, NEW j \in Job, NEW r \in JobRecord,
         r.state = job[j].state, r.gpus = job[j].gpus, r.node = job[j].node,
         job' = [job EXCEPT ![j] = r], UNCHANGED <<gpu, pending, heard, draining, stopAll>>
  PROVE  /\ TypeOK'
         /\ JobsLast
         /\ Tidy(Store) => Tidy(Store)'
         /\ r.overdue = job[j].overdue /\ Sound(Store) => Sound(Store)'
<1>1. job \in Jobs
  BY DEF TypeOK, Jobs
<1>2. TypeOK'
  BY DEF TypeOK
<1>3. \A k \in Job : /\ job'[k].state = job[k].state
                     /\ job'[k].gpus = job[k].gpus
                     /\ job'[k].node = job[k].node
                     /\ r.overdue = job[j].overdue => job'[k].overdue = job[k].overdue
  BY <1>1 DEF Jobs
<1>4. JobsLast
  BY <1>3 DEF JobsLast, Lasts
<1>5. Active(Store)' = Active(Store) /\ Active(Store) \subseteq Job
  BY <1>3 DEF Active, Store
<1>6. Tidy(Store) => Tidy(Store)'
  <2>1. \A g \in Gpu : gpu[g].job \in Job \cup {NoJob}
    BY DEF TypeOK, GpuRecord
  <2>2. Whole(Store) => Whole(Store)'
    BY <1>3, <1>5 DEF Store, Whole
  <2>3. Lively(Store) => Lively(Store)'
    BY <1>3, <2>1 DEF Store, Lively
  <2> QED
    BY <2>2, <2>3 DEF Tidy
<1>7. r.overdue = job[j].overdue /\ Sound(Store) => Sound(Store)'
  <2>1. Exclusive(Store) => Exclusive(Store)'
    BY <1>3, <1>5 DEF Store, Exclusive
  <2>2. Agreed(Store) => Agreed(Store)'
    BY <1>3, <1>5 DEF Store, Agreed
  <2>3. r.overdue = job[j].overdue /\ Punctual(Store) => Punctual(Store)'
    BY <1>3 DEF Store, Punctual
  <2> QED
    BY <1>6, <2>1, <2>2, <2>3 DEF Sound
<1> QED
  BY <1>2, <1>4, <1>6, <1>7

\* A step that leaves the records of jobs and devices alone.
LEMMA ElsewhereKeeps ==
  ASSUME TypeOK', UNCHANGED <<job, gpu>>
  PROVE  Keeps
BY DEF Keeps, JobsLast, Lasts, Store, Sound, Tidy, Exclusive, Agreed, Whole, Punctual, Lively, Active

\* All that happens but that a job passes its wall-clock limit.
Steady ==
  \/ Operate \/ Report \/ Restart
  \/ \E n \in Node : GoLate(n)
  \/ \E j \in Job : CooldownOver(j)

\* Nothing of it breaks the invariant.
LEMMA SteadyKeeps ==
  ASSUME TypeOK, [Steady]_vars
  PROVE  Keeps
<1>1. CASE Operate
  BY <1>1, SubmitKeeps, CancelKeeps, PauseKeeps, ResumeKeeps, PreemptingKeeps, LatchKeeps,
     KillKeeps, DrainKeeps, StatusKeeps
  DEF Operate
<1>2. CASE Report
  BY <1>2, HeartbeatKeeps, JobExitKeeps, CheckpointKeeps, MetricsKeeps DEF Report
<1>3. ASSUME NEW n \in Node, GoLate(n)
      PROVE  Keeps
  <2>1. TypeOK'
    BY <1>3 DEF TypeOK, GoLate
  <2> QED
    BY <1>3, <2>1, ElsewhereKeeps DEF GoLate
<1>4. ASSUME NEW j \in Job, CooldownOver(j)
      PROVE  Keeps
  <2> DEFINE r == [job[j] EXCEPT !.cooldown = "over"]
  <2>1. /\ r \in JobRecord
        /\ r.state = job[j].state
        /\ r.gpus = job[j].gpus
        /\ r.node = job[j].node
        /\ r.overdue = job[j].overdue
    BY DEF TypeOK, JobRecord
  <2>2. job' = [job EXCEPT ![j] = r] /\ UNCHANGED <<gpu, pending, heard, draining, stopAll>>
    BY <1>4 DEF CooldownOver
  <2> HIDE DEF r
  <2> QED
    BY <2>1, <2>2, BesideKeeps DEF Keeps
<1>5. CASE Restart
  <2>1. TypeOK'
    BY <1>5 DEF TypeOK, Restart
  <2> QED
    BY <1>5, <2>1, ElsewhereKeeps DEF Restart
<1>6. CASE UNCHANGED vars
  <2>1. TypeOK'
    BY <1>6 DEF vars, TypeOK
  <2> QED
    BY <1>6, <2>1, ElsewhereKeeps DEF vars
<1> QED
  BY <1>1, <1>2, <1>3, <1>4, <1>5, <1>6 DEF Steady

\* What every step does; what limits put at risk is kept while there are none.
Holds ==
  /\ TypeOK'
  /\ JobsLast
  /\ Tidy(Store) => Tidy(Store)'
  /\ Limited = {} /\ Sound(Store) => Sound(Store)'

\* No step breaks the invariant, but that a run that passes its limit lifts a
\* reservation, which only jobs with a limit can.
LEMMA NextHolds ==
  ASSUME TypeOK, [Next]_vars
  PROVE  Holds
<1>1. CASE [Steady]_vars
  BY <1>1, SteadyKeeps DEF Keeps, Holds
<1>2. ASSUME NEW j \in Job, RunOut(j)
      PROVE  Holds
  <2> DEFINE r == [job[j] EXCEPT !.overdue = TRUE]
  <2>1. /\ r \in JobRecord
        /\ r.state = job[j].state
        /\ r.gpus = job[j].gpus
        /\ r.node = job[j].node
    BY DEF TypeOK, JobRecord
  <2>2. job' = [job EXCEPT ![j] = r] /\ UNCHANGED <<gpu, pending, heard, draining, stopAll>>
    BY <1>2 DEF RunOut
  <2>3. Limited # {}
    BY <1>2 DEF RunOut
  <2> HIDE DEF r
  <2> QED
    BY <2>1, <2>2, <2>3, BesideKeeps DEF Holds
<1> QED
  BY <1>1, <1>2 DEF Next, Clock, Steady

\* An empty store is in shape and sound.
LEMMA InitSound == Init => TypeOK /\ Sound(Store)
<1> SUFFICES ASSUME Init PROVE TypeOK /\ Sound(Store)
  OBVIOUS
<1>1. NewJob \in JobRecord /\ NewJob.state = "NONE" /\ ~NewJob.overdue
  BY RollbackAssumption DEF NewJob, JobRecord, Checkpoint
<1>2. job \in Jobs /\ \A j \in Job : job[j].state = "NONE" /\ ~job[j].overdue
  BY <1>1 DEF Init, Jobs
<1>3. TypeOK
  <2>1. pending \in Backlogs
    BY DEF Init, Backlogs
  <2>2. gpu \in Gpus
    BY DEF Init, Gpus, GpuRecord
  <2>3. heard \in Hearing /\ draining \in SUBSET Gpu /\ stopAll \in BOOLEAN
    BY DEF Init, Hearing
  <2> QED
    BY <1>2, <2>1, <2>2, <2>3 DEF TypeOK, Jobs, Gpus, Backlogs, Hearing
<1>4. Active(Store) = {}
  BY <1>2 DEF Active, Store, ActiveStates
<1>5. \A g \in Gpu : gpu[g].job = NoJob
  BY DEF Init
<1> QED
  BY <1>2, <1>3, <1>4, <1>5
  DEF Sound, Tidy, Exclusive, Agreed, Whole, Punctual, Lively, Store

------------------------------------------------------------------------------
(* The table.                                                               *)

\* The rows of the table the background handlers walk through.
LEMMA TableRows ==
  /\ {"SCHEDULED", "COMPLETED", "FAILED", "QUEUED"} \subseteq Valid["PENDING"]
  /\ {"SCHEDULED", "COMPLETED", "FAILED"} \subseteq Valid["QUEUED"]
  /\ {"STARTING", "QUEUED", "PREEMPTED", "RESUMING", "COMPLETED", "FAILED"} \subseteq Valid["SCHEDULED"]
  /\ {"RUNNING", "CHECKPOINTING", "PREEMPTED", "COMPLETED", "FAILED"} \subseteq Valid["STARTING"]
  /\ {"CHECKPOINTING", "ANOMALY", "PREEMPTED", "COMPLETED", "FAILED"} \subseteq Valid["RUNNING"]
  /\ {"PREEMPTED", "PAUSED", "COMPLETED", "FAILED"} \subseteq Valid["CHECKPOINTING"]
  /\ {"QUEUED", "COMPLETED", "FAILED"} \subseteq Valid["PREEMPTED"]
  /\ {"RUNNING", "CHECKPOINTING", "COMPLETED", "FAILED"} \subseteq Valid["RESUMING"]
  /\ {"QUEUED", "COMPLETED", "FAILED"} \subseteq Valid["PAUSED"]
  /\ {"PAUSED", "QUEUED", "COMPLETED", "FAILED"} \subseteq Valid["ANOMALY"]
  /\ "QUEUED" \in Valid["FAILED"]
<1>1. \A st \in JobState : Table[st] \subseteq Valid[st]
  BY DEF Valid
<1>2. "RESUMING" \in Valid["SCHEDULED"]
  BY DEF Valid, JobState
<1>3. /\ {"SCHEDULED", "COMPLETED", "FAILED", "QUEUED"} \subseteq Table["PENDING"]
      /\ {"SCHEDULED", "COMPLETED", "FAILED"} \subseteq Table["QUEUED"]
      /\ {"STARTING", "QUEUED", "PREEMPTED", "COMPLETED", "FAILED"} \subseteq Table["SCHEDULED"]
      /\ {"RUNNING", "CHECKPOINTING", "PREEMPTED", "COMPLETED", "FAILED"} \subseteq Table["STARTING"]
  BY DEF Table, JobState
<1>4. /\ {"CHECKPOINTING", "ANOMALY", "PREEMPTED", "COMPLETED", "FAILED"} \subseteq Table["RUNNING"]
      /\ {"PREEMPTED", "PAUSED", "COMPLETED", "FAILED"} \subseteq Table["CHECKPOINTING"]
      /\ {"QUEUED", "COMPLETED", "FAILED"} \subseteq Table["PREEMPTED"]
  BY DEF Table, JobState
<1>5. /\ {"RUNNING", "CHECKPOINTING", "COMPLETED", "FAILED"} \subseteq Table["RESUMING"]
      /\ {"QUEUED", "COMPLETED", "FAILED"} \subseteq Table["PAUSED"]
      /\ {"PAUSED", "QUEUED", "COMPLETED", "FAILED"} \subseteq Table["ANOMALY"]
      /\ "QUEUED" \in Table["FAILED"]
  BY DEF Table, JobState
<1> QED
  BY <1>1, <1>2, <1>3, <1>4, <1>5 DEF JobState

\* Walks of two and of three moves.
LEMMA Walks ==
  ASSUME NEW st, NEW a, NEW b, CanMove(st, a), CanMove(a, b)
  PROVE  /\ CanWalk(st, <<a, b>>)
         /\ \A c : CanMove(b, c) => CanWalk(st, <<a, b, c>>)
BY DEF CanWalk

\* No background handler is refused by the table, from any state a job can be in.
LEMMA TableServes ==
  ASSUME TypeOK
  PROVE  HandlersNeverRaise
<1> SUFFICES ASSUME NEW j \in Job, NEW st, st = job[j].state
             PROVE
    /\ st \in {"PENDING", "QUEUED"} => CanWalk(st, <<"QUEUED", "SCHEDULED", "RESUMING">>)
    /\ st = "SCHEDULED" => CanWalk(st, <<"STARTING", "RUNNING">>)
    /\ st \in {"STARTING", "RESUMING"} => CanMove(st, "RUNNING")
    /\ st \in {"STARTING", "RESUMING", "RUNNING"} =>
         CanWalk(st, <<"CHECKPOINTING", "PREEMPTED", "QUEUED">>)
    /\ st \in ActiveStates \ {"RESUMING"} => CanWalk(st, <<"PREEMPTED", "QUEUED">>)
    /\ st = "RUNNING" => CanWalk(st, <<"ANOMALY", "PAUSED", "QUEUED">>)
    /\ st = "RUNNING" => CanWalk(st, <<"CHECKPOINTING", "PAUSED">>)
    /\ st = "FAILED" => CanWalk(st, <<"QUEUED", "COMPLETED">>)
    /\ st \notin {"NONE", "FAILED", "COMPLETED", "CANCELLED"} =>
         CanMove(st, "COMPLETED") /\ CanMove(st, "FAILED")
  BY DEF HandlersNeverRaise
<1>1. st \in JobState \cup {"NONE"}
  BY DEF TypeOK, JobRecord
<1>2. /\ CanMove("PENDING", "QUEUED") /\ CanMove("QUEUED", "QUEUED")
      /\ CanMove("QUEUED", "SCHEDULED") /\ CanMove("SCHEDULED", "RESUMING")
      /\ CanMove("SCHEDULED", "STARTING")
      /\ \A run \in {"STARTING", "RESUMING"} : CanMove(run, "RUNNING")
      /\ \A run \in {"STARTING", "RESUMING", "RUNNING"} : CanMove(run, "CHECKPOINTING")
      /\ CanMove("CHECKPOINTING", "PREEMPTED")
      /\ \A active \in ActiveStates \ {"RESUMING"} : CanMove(active, "PREEMPTED")
      /\ CanMove("PREEMPTED", "QUEUED")
      /\ CanMove("RUNNING", "ANOMALY") /\ CanMove("ANOMALY", "PAUSED")
      /\ CanMove("PAUSED", "QUEUED")
      /\ CanMove("RUNNING", "CHECKPOINTING") /\ CanMove("CHECKPOINTING", "PAUSED")
      /\ CanMove("FAILED", "QUEUED") /\ CanMove("QUEUED", "COMPLETED")
  BY TableRows DEF CanMove, ActiveStates
<1>3. st \notin {"NONE", "FAILED", "COMPLETED", "CANCELLED"} =>
        CanMove(st, "COMPLETED") /\ CanMove(st, "FAILED")
  BY <1>1, TableRows DEF CanMove, JobState
<1> QED
  BY <1>2, <1>3, Walks

------------------------------------------------------------------------------
(* Theorems.                                                                *)

\* Every record the control plane ever stores has the shape the code gives it.
THEOREM TypeCorrect == Spec => []TypeOK
<1>1. Init => TypeOK
  BY InitSound
<1>2. TypeOK /\ [Next]_vars => TypeOK'
  BY NextHolds DEF Holds
<1> QED
  BY <1>1, <1>2, PTL DEF Spec

\* The part of the invariant that no limit puts at risk.
THEOREM Tidiness == Spec => [](TypeOK /\ Tidy(Store))
<1>1. Init => TypeOK /\ Tidy(Store)
  BY InitSound DEF Sound
<1>2. TypeOK /\ Tidy(Store) /\ [Next]_vars => TypeOK' /\ Tidy(Store)'
  BY NextHolds DEF Holds
<1> QED
  BY <1>1, <1>2, PTL DEF Spec

\* All of the invariant, on a platform whose jobs have no wall-clock limit.
THEOREM Invariance ==
  ASSUME Limited = {}
  PROVE  Spec => []Inv
<1>1. Init => Inv
  BY InitSound DEF Inv
<1>2. Inv /\ [Next]_vars => Inv'
  BY NextHolds DEF Holds, Inv
<1> QED
  BY <1>1, <1>2, PTL DEF Spec

\* A device never belongs to two active jobs, whatever is reported, lost, late or
\* repeated, and however often the control plane restarts.
THEOREM Exclusivity ==
  ASSUME Limited = {}
  PROVE  Spec => []NoDoubleAllocation
<1>1. Inv => NoDoubleAllocation
  BY DEF Inv, Sound, Exclusive, NoDoubleAllocation, Store
<1> QED
  BY <1>1, Invariance, PTL

\* The device records never name another job than the one that is assigned there.
THEOREM Agreement ==
  ASSUME Limited = {}
  PROVE  Spec => []ClaimsAgree
<1>1. Inv => ClaimsAgree
  BY DEF Inv, Sound, Agreed, ClaimsAgree, Store
<1> QED
  BY <1>1, Invariance, PTL

\* Active jobs have all they asked for, on their node, with limits or without.
THEOREM Wholeness == Spec => []PlacedWhole
<1>1. Tidy(Store) => PlacedWhole
  BY DEF Tidy, Whole, PlacedWhole, Store
<1> QED
  BY <1>1, Tidiness, PTL

\* No device is kept for a job that is over, with limits or without.
THEOREM NothingLeaks == Spec => []NoClaimOfTheDead
<1>1. Tidy(Store) => NoClaimOfTheDead
  BY DEF Tidy, Lively, NoClaimOfTheDead, Store
<1> QED
  BY <1>1, Tidiness, PTL

\* What is over stays over: no report, however late or repeated, no pass and no
\* request moves a job that is completed or cancelled.
THEOREM Finality == Spec => NoResurrection
<1>1. TypeOK /\ [Next]_vars =>
        [\A j \in Job :
           job[j].state \in {"COMPLETED", "CANCELLED"} => job'[j].state = job[j].state]_vars
  BY NextHolds DEF Holds, JobsLast, Lasts
<1> QED
  BY <1>1, TypeCorrect, PTL DEF Spec, NoResurrection

\* Passes, exits, reclaims and reconciliation are never stopped halfway by the
\* transition table, whatever state they find a job in.
THEOREM HandlersFinish == Spec => []HandlersNeverRaise
BY TypeCorrect, TableServes, PTL

------------------------------------------------------------------------------
(* The control plane keeps the promise of Leases.                           *)

StageFn == [j \in Job |-> StageOf(job[j].state)]
HoldsFn == [j \in Job |-> IF j \in Active(Store) THEN job[j].gpus ELSE {}]

\* The stage of a job, by the classes of states the handlers test.
LEMMA StageCases ==
  ASSUME NEW st
  PROVE  /\ StageOf(st) = "holding" <=> st \in ActiveStates
         /\ StageOf(st) = "closed" => st \in {"COMPLETED", "CANCELLED"}
         /\ StageOf(st) = "absent" <=> st = "NONE"
BY DEF StageOf, ActiveStates

\* Nothing is lent to begin with.
LEMMA InitLends == Init => Lending!LeasesInit
<1> SUFFICES ASSUME Init PROVE Lending!LeasesInit
  OBVIOUS
<1>1. \A j \in Job : job[j].state = "NONE"
  BY DEF Init, NewJob
<1>2. StageFn = [j \in Job |-> "absent"] /\ HoldsFn = [j \in Job |-> {}]
  BY <1>1, StageCases DEF StageFn, HoldsFn, Active, Store, ActiveStates
<1> QED
  BY <1>2 DEF Lending!LeasesInit, StageFn, HoldsFn

\* Every step of the control plane lends, takes back, or does nothing.
LEMMA StepLends ==
  ASSUME Inv, [Next]_vars, Limited = {}
  PROVE  Lending!LeasesNext
<1>1. Inv' /\ JobsLast
  BY NextHolds DEF Holds, Inv
<1>2. ASSUME NEW j \in Job
      PROVE  Lending!Moves(j)
  <2>1. StageFn'[j] = StageFn[j] \/ (StageFn[j] # "closed" /\ StageFn'[j] # "absent")
    BY <1>1, StageCases DEF JobsLast, Lasts, StageFn
  <2> QED
    BY <2>1 DEF Lending!Moves, StageFn
<1>3. Active(Store)' = {j \in Job : job'[j].state \in ActiveStates}
  BY DEF Active, Store
<1>4. ASSUME NEW j \in Job, job'[j].state \notin ActiveStates
      PROVE  Lending!HasNone(j)
  <2>1. StageFn'[j] # "holding" /\ HoldsFn'[j] = {}
    BY <1>3, <1>4, StageCases DEF StageFn, HoldsFn
  <2> QED
    BY <2>1 DEF Lending!HasNone, StageFn, HoldsFn
<1>5. ASSUME NEW j \in Job, job'[j].state \in ActiveStates
      PROVE  Lending!IsLent(j)
  <2>1. j \in Active(Store)' /\ HoldsFn'[j] = job'[j].gpus /\ StageFn'[j] = "holding"
    BY <1>3, <1>5, StageCases DEF StageFn, HoldsFn
  <2>2. /\ Cardinality(job'[j].gpus) = Want[j]
        /\ job'[j].gpus \subseteq Fits[j]
        /\ \A g \in job'[j].gpus : NodeOf[g] = job'[j].node
    BY <1>1, <2>1 DEF Inv, Sound, Tidy, Whole, Store
  <2>3. HoldsFn'[j] \in LotsOf[j]
    <3>1. job'[j].gpus \subseteq Gpu
      BY <1>1 DEF Inv, TypeOK, JobRecord
    <3>2. job'[j].gpus # {}
      <4>1. Want[j] # 0
        BY SpecsAssumption
      <4> QED
        BY <2>2, <4>1, FS_EmptySet
    <3>3. \E n \in Node : job'[j].gpus \subseteq GpusOf(n)
      BY <2>2, <3>1, <3>2, GpusAssumption DEF GpusOf
    <3> QED
      BY <2>1, <2>2, <3>3 DEF LotsOf
  <2>4. ASSUME NEW k \in Job \ {j}
        PROVE  HoldsFn'[j] \cap HoldsFn'[k] = {}
    <3>1. CASE k \in Active(Store)'
      BY <1>1, <2>1, <2>4, <3>1 DEF Inv, Sound, Exclusive, Store, HoldsFn
    <3>2. CASE k \notin Active(Store)'
      BY <3>2 DEF HoldsFn
    <3> QED
      BY <3>1, <3>2
  <2>5. \A k \in Job \ {j} : HoldsFn'[j] \cap HoldsFn'[k] = {}
    BY <2>4
  <2>6. Lending!IsLent(j) <=>
          /\ StageFn'[j] = "holding"
          /\ HoldsFn'[j] \in LotsOf[j]
          /\ \A k \in Job \ {j} : HoldsFn'[j] \cap HoldsFn'[k] = {}
    BY DEF Lending!IsLent, StageFn, HoldsFn
  <2> QED
    BY <2>1, <2>3, <2>5, <2>6
<1> QED
  BY <1>2, <1>4, <1>5 DEF Lending!LeasesNext

\* The control plane implements the abstract lender, for any number of jobs,
\* devices and nodes, as long as no job has a wall-clock limit.
THEOREM ControlKeepsLeases ==
  ASSUME Limited = {}
  PROVE  Spec => KeepsLeases
<1>1. Init => Lending!LeasesInit
  BY InitLends
<1>2. Inv /\ [Next]_vars => Lending!LeasesNext
  BY StepLends
<1> QED
  BY <1>1, <1>2, Invariance, PTL DEF Spec, KeepsLeases, Lending!LeasesSpec

==============================================================================
