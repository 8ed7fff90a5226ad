--------------------------- MODULE EvictionProofs ---------------------------
(***************************************************************************)
(* Researchers first, for any number of jobs, devices and nodes: a job that  *)
(* can leave and has a device a researcher is seen on stays asked to leave.  *)
(* Two arguments meet.  A pass asks whoever is in the way, whatever came     *)
(* before it, because jobs on silent nodes are taken off first and the rest  *)
(* is looked at; and no other step takes a request back, gives a job         *)
(* devices, or reports a researcher.  And, at the end, two things that need  *)
(* no more than the shape of the records: a sweep of silent nodes leaves     *)
(* nothing on them, and a failed job is queued again on request only.        *)
(***************************************************************************)
EXTENDS ControlProofs

Urged(s) ==
  \A j \in Active(s) \cap Preemptible :
    (\E g \in s.job[j].gpus : s.gpu[g].occ = "RESEARCHER") => s.job[j].preempt

\* A step that only lets go: what is active was so before with its devices and
\* its request to leave, and researchers appear nowhere.
Stays(s, t) ==
  /\ t \in Snapshot
  /\ \A j \in Active(t) :
       /\ j \in Active(s)
       /\ t.job[j].gpus = s.job[j].gpus
       /\ s.job[j].preempt => t.job[j].preempt
  /\ \A g \in Gpu : t.gpu[g].occ = "RESEARCHER" => s.gpu[g].occ = "RESEARCHER"

\* Such steps compose.
LEMMA StayingComposes ==
  ASSUME NEW s, NEW t, NEW u, Stays(s, t), Stays(t, u)
  PROVE  Stays(s, u)
BY DEF Stays

\* Whoever was urged and is still there stays urged.
LEMMA StayingUrges ==
  ASSUME NEW s, NEW t, Stays(s, t), Urged(s)
  PROVE  Urged(t)
<1> SUFFICES ASSUME NEW j \in Active(t) \cap Preemptible, NEW g \in t.job[j].gpus,
                    t.gpu[g].occ = "RESEARCHER"
             PROVE  t.job[j].preempt
  BY DEF Urged
<1>1. g \in Gpu
  BY DEF Stays, Snapshot, Jobs, JobRecord, Active
<1> QED
  BY <1>1 DEF Stays, Urged

\* A step that leaves the records of jobs and devices alone.
LEMMA SameStays ==
  ASSUME NEW s, NEW t \in Snapshot, t.job = s.job, t.gpu = s.gpu
  PROVE  Stays(s, t)
BY DEF Stays, Active

------------------------------------------------------------------------------
(* The pieces of the handlers.                                              *)

\* Queueing an order.
LEMMA TellStays ==
  ASSUME NEW s \in Snapshot, NEW J, NEW a \in Action
  PROVE  Stays(s, Tell(s, J, a))
BY TellShape, SameStays

\* Freeing devices.
LEMMA ReleaseStays ==
  ASSUME NEW s \in Snapshot, NEW J
  PROVE  Stays(s, Release(s, J))
BY ReleaseShape DEF Stays, Active

\* Replacing job records.
LEMMA JobsStay ==
  ASSUME NEW s \in Snapshot, NEW f \in Jobs,
         \A j \in Job : f[j].state \in ActiveStates =>
           /\ s.job[j].state \in ActiveStates
           /\ f[j].gpus = s.job[j].gpus
           /\ s.job[j].preempt => f[j].preempt
  PROVE  Stays(s, [s EXCEPT !.job = f])
<1> DEFINE t == [s EXCEPT !.job = f]
<1>1. t \in Snapshot /\ t.job = f /\ t.gpu = s.gpu
  BY DEF Snapshot
<1> HIDE DEF t
<1>2. Stays(s, t)
  BY <1>1 DEF Stays, Active
<1> QED
  BY <1>2 DEF t

\* Replacing one job record.
LEMMA SetJobStays ==
  ASSUME NEW s \in Snapshot, NEW j \in Job, NEW r \in JobRecord,
         r.state \in ActiveStates =>
           /\ s.job[j].state \in ActiveStates
           /\ r.gpus = s.job[j].gpus
           /\ s.job[j].preempt => r.preempt
  PROVE  Stays(s, SetJob(s, j, r))
<1> DEFINE f == [s.job EXCEPT ![j] = r]
<1>1. f \in Jobs /\ \A k \in Job : f[k] = IF k = j THEN r ELSE s.job[k]
  BY DEF Snapshot, Jobs
<1> HIDE DEF f
<1>2. Stays(s, [s EXCEPT !.job = f])
  BY <1>1, JobsStay
<1> QED
  BY <1>2 DEF SetJob, f

\* Taking one job out of the active states.
LEMMA SetStateStays ==
  ASSUME NEW s \in Snapshot, NEW j \in Job, NEW st \in JobState \ ActiveStates
  PROVE  Stays(s, SetState(s, j, st))
<1> DEFINE r == [s.job[j] EXCEPT !.state = st]
<1>1. r \in JobRecord /\ r.state = st
  BY StateShape DEF Snapshot, Jobs
<1> HIDE DEF r
<1>2. Stays(s, SetJob(s, j, r))
  BY <1>1, SetJobStays
<1> QED
  BY <1>2 DEF SetState, r

\* What asking does to the records of jobs.
LEMMA PreemptJob ==
  ASSUME NEW s \in Snapshot, NEW J, NEW j \in Job
  PROVE  PreemptJobs(s, J).job[j] =
           IF j \in J \cap Active(s) THEN Asked(s.job[j]) ELSE s.job[j]
<1> DEFINE asked == J \cap Active(s)
           told == Tell(s, asked, Order("PREEMPT"))
           f == [k \in Job |-> IF k \in asked THEN Asked(s.job[k]) ELSE s.job[k]]
<1>1. CASE asked = {}
  BY <1>1 DEF PreemptJobs
<1>2. CASE asked # {}
  <2>1. told \in Snapshot
    BY OrderShape, TellShape
  <2>2. PreemptJobs(s, J) = [told EXCEPT !.job = f]
    BY <1>2 DEF PreemptJobs
  <2> HIDE DEF told
  <2> QED
    BY <2>1, <2>2 DEF Snapshot
<1> QED
  BY <1>1, <1>2

\* Being asked is a request to leave.
LEMMA AskedLeaves ==
  ASSUME NEW r \in JobRecord
  PROVE  Asked(r).preempt
BY DEF Asked, JobRecord

\* Asking jobs to leave.
LEMMA PreemptStays ==
  ASSUME NEW s \in Snapshot, NEW J
  PROVE  Stays(s, PreemptJobs(s, J))
<1> DEFINE t == PreemptJobs(s, J)
<1>1. t \in Snapshot /\ t.gpu = s.gpu /\ Active(t) = Active(s)
  BY PreemptSafe DEF Safe
<1>2. ASSUME NEW j \in Active(s)
      PROVE  t.job[j].gpus = s.job[j].gpus /\ (s.job[j].preempt => t.job[j].preempt)
  <2>1. j \in Job /\ s.job[j] \in JobRecord
    BY DEF Active, Snapshot, Jobs
  <2> QED
    BY <2>1, PreemptJob, AskedShape, AskedLeaves
<1> HIDE DEF t
<1>3. Stays(s, t)
  BY <1>1, <1>2 DEF Stays
<1> QED
  BY <1>3 DEF t

\* What a sweep leaves is not on a silent node, keeps its record, and the devices
\* of living nodes keep what was seen on them.
LEMMA ReclaimShape ==
  ASSUME NEW s \in Snapshot
  PROVE  /\ Reclaim(s).heard = s.heard
         /\ \A j \in Active(Reclaim(s)) :
              /\ j \in Active(s)
              /\ Reclaim(s).job[j] = s.job[j]
              /\ s.job[j].node \notin StaleNodes(s)
         /\ \A g \in Gpu : Reclaim(s).gpu[g] \in {s.gpu[g], [occ |-> "AVAILABLE", job |-> NoJob]}
<1> DEFINE orphans == Orphans(s)
           freed == Release(s, orphans \cup NamedOn(s, StaleNodes(s)))
           f == [j \in Job |-> IF j \in orphans THEN Requeued(s.job[j]) ELSE s.job[j]]
           queues == [n \in Node |->
             IF n \in StaleNodes(s) THEN [j \in Job |-> <<>>] ELSE s.pending[n]]
           t == [freed EXCEPT !.job = f, !.pending = queues]
<1>1. CASE StaleNodes(s) = {}
  BY <1>1 DEF Reclaim
<1>2. CASE StaleNodes(s) # {}
  <2>1. Reclaim(s) = t
    BY <1>2 DEF Reclaim
  <2>2. /\ freed \in Snapshot /\ freed.heard = s.heard
        /\ \A g \in Gpu : freed.gpu[g] \in {s.gpu[g], [occ |-> "AVAILABLE", job |-> NoJob]}
    BY ReleaseShape
  <2> HIDE DEF freed
  <2>3. t.heard = s.heard /\ t.job = f /\ t.gpu = freed.gpu
    BY <2>2 DEF Snapshot
  <2>4. \A j \in Job : Requeued(s.job[j]).state = "QUEUED"
    BY RequeuedShape DEF Snapshot, Jobs
  <2>5. \A j \in Job : f[j].state \in ActiveStates => j \notin orphans /\ f[j] = s.job[j]
    BY <2>4 DEF ActiveStates
  <2> HIDE DEF t, f
  <2>6. ASSUME NEW j \in Active(t)
        PROVE  j \in Active(s) /\ t.job[j] = s.job[j] /\ s.job[j].node \notin StaleNodes(s)
    BY <2>3, <2>5 DEF Active, Orphans
  <2> QED
    BY <2>1, <2>2, <2>3, <2>6
<1> QED
  BY <1>1, <1>2

\* Sweeping silent nodes.
LEMMA ReclaimStays ==
  ASSUME NEW s \in Snapshot
  PROVE  Stays(s, Reclaim(s))
BY ReclaimShape, ReclaimSafe DEF Stays, Safe

\* Picking up a checkpoint from disk takes no request back.
LEMMA SyncedLeaves ==
  ASSUME NEW r \in JobRecord, NEW dir
  PROVE  Synced(r, dir).preempt = r.preempt
BY DEF Synced, JobRecord

\* Any number of exits.
LEMMA JobExitsStay ==
  ASSUME NEW s \in Snapshot, NEW exits, DOMAIN exits \subseteq Job,
         \A j \in DOMAIN exits : exits[j].dir \in RunDir
  PROVE  Stays(s, JobExits(s, exits))
<1> DEFINE ended == {j \in DOMAIN exits : ~Closed(s.job[j])}
           freed == Release(s, ended)
           synced(j) == Synced(s.job[j], exits[j].dir)
           settled(j) == Settled(synced(j), Verdict(s.job[j], exits[j].exit, exits[j].dir))
           f == [j \in Job |-> IF j \notin DOMAIN exits THEN s.job[j]
                               ELSE IF j \in ended THEN settled(j) ELSE synced(j)]
<1>1. JobExits(s, exits) = [freed EXCEPT !.job = f]
  BY DEF JobExits
<1>2. freed \in Snapshot /\ freed.job = s.job /\ Stays(s, freed)
  BY ReleaseShape, ReleaseStays
<1>3. \A j \in DOMAIN exits :
        /\ synced(j) \in JobRecord
        /\ synced(j).state = s.job[j].state
        /\ synced(j).gpus = s.job[j].gpus
        /\ synced(j).preempt = s.job[j].preempt
  BY SyncedShape, SyncedLeaves DEF Snapshot, Jobs
<1> HIDE DEF freed, synced
<1>4. \A j \in DOMAIN exits :
        /\ settled(j) \in JobRecord
        /\ \/ settled(j).state \in {"COMPLETED", "FAILED", "QUEUED"}
           \/ settled(j) = synced(j)
  BY <1>3, SettledShape
<1>5. \A j \in Job : f[j] = IF j \notin DOMAIN exits THEN s.job[j]
                             ELSE IF j \in ended THEN settled(j) ELSE synced(j)
  OBVIOUS
<1> HIDE DEF settled, ended
<1>6. f \in Jobs
  BY <1>3, <1>4 DEF Snapshot, Jobs
<1> HIDE DEF f
<1>7. \A j \in Job : f[j].state \in ActiveStates =>
        /\ freed.job[j].state \in ActiveStates
        /\ f[j].gpus = freed.job[j].gpus
        /\ freed.job[j].preempt => f[j].preempt
  BY <1>2, <1>3, <1>4, <1>5 DEF ActiveStates
<1>8. Stays(freed, [freed EXCEPT !.job = f])
  BY <1>2, <1>6, <1>7, JobsStay
<1> QED
  BY <1>1, <1>2, <1>8, StayingComposes

------------------------------------------------------------------------------
(* A pass.                                                                  *)

\* Whoever is in the way when a pass begins has been asked when it ends.
LEMMA EvictionUrges ==
  ASSUME NEW s \in Snapshot, Tidy(s)
  PROVE  Urged(PreemptJobs(Reclaim(s), Victims(Reclaim(s)) \cup Exceeded(Reclaim(s))))
<1> DEFINE r == Reclaim(s)
           J == Victims(r) \cup Exceeded(r)
           t == PreemptJobs(r, J)
<1>1. r \in Snapshot /\ Tidy(r)
  BY ReclaimSafe, SafeIsSound DEF Safe, Carries
<1>2. \A j \in Active(r) : r.job[j].node \notin StaleNodes(r)
  BY ReclaimShape DEF StaleNodes
<1> HIDE DEF r
<1>3. t.gpu = r.gpu /\ Active(t) = Active(r)
  BY <1>1, PreemptSafe
<1> SUFFICES ASSUME NEW j \in Active(r) \cap Preemptible, NEW g \in t.job[j].gpus,
                    r.gpu[g].occ = "RESEARCHER"
             PROVE  t.job[j].preempt
  BY <1>3 DEF Urged, r
<1>4. j \in Job /\ r.job[j] \in JobRecord
  BY <1>1 DEF Active, Snapshot, Jobs
<1>5. t.job[j] = IF j \in J THEN Asked(r.job[j]) ELSE r.job[j]
  BY <1>1, <1>4, PreemptJob
<1>6. g \in r.job[j].gpus /\ g \in Gpu
  BY <1>4, <1>5, AskedShape DEF JobRecord
<1>7. NodeOf[g] \notin StaleNodes(r)
  BY <1>1, <1>2, <1>6 DEF Tidy, Whole
<1>8. g \in Conflicts(r)
  BY <1>6, <1>7 DEF Conflicts, Schedulable, Held
<1>9. j \in Victims(r)
  BY <1>6, <1>8 DEF Victims
<1> QED
  BY <1>4, <1>5, <1>9, AskedLeaves

\* And whoever is placed is placed where no researcher is seen.
LEMMA TickUrges ==
  ASSUME NEW s \in Snapshot, Tidy(s), NEW t \in TickResults(s)
  PROVE  Urged(t)
<1> DEFINE r == Reclaim(s)
           evicted == PreemptJobs(r, Victims(r) \cup Exceeded(r))
<1>1. Urged(evicted)
  BY EvictionUrges
<1>2. r \in Snapshot
  BY ReclaimSafe DEF Safe
<1>3. t = evicted \/ \E P \in Passes(r) : t = Allocate(evicted, P)
  BY DEF TickResults
<1> HIDE DEF r
<1>4. evicted \in Snapshot
  BY <1>2, PreemptSafe DEF Safe
<1> HIDE DEF evicted
<1>5. ASSUME NEW P \in Passes(r), t = Allocate(evicted, P)
      PROVE  Urged(t)
  <2>1. \A j \in Job : t.job[j] = IF P[j] = {} THEN evicted.job[j] ELSE Placed(evicted.job[j], P[j])
    BY <1>4, <1>5, AllocateShape
  <2>2. \A g \in Gpu : t.gpu[g].occ = "RESEARCHER" =>
          evicted.gpu[g].occ = "RESEARCHER" /\ \A j \in Job : g \notin P[j]
    <3> DEFINE gpus == [g \in Gpu |->
                 IF \E j \in Job : g \in P[j]
                 THEN [occ |-> "TROIANI", job |-> CHOOSE j \in Job : g \in P[j]]
                 ELSE evicted.gpu[g]]
    <3>1. t.gpu = gpus
      BY <1>4, <1>5 DEF Allocate, Snapshot
    <3> QED
      BY <3>1
  <2> SUFFICES ASSUME NEW j \in Active(t) \cap Preemptible, NEW g \in t.job[j].gpus,
                      t.gpu[g].occ = "RESEARCHER"
               PROVE  t.job[j].preempt
    BY DEF Urged
  <2>3. j \in Job /\ evicted.job[j] \in JobRecord
    BY <1>4 DEF Active, Snapshot, Jobs
  <2>4. CASE P[j] = {}
    <3>1. t.job[j] = evicted.job[j]
      BY <2>1, <2>3, <2>4
    <3>2. j \in Active(evicted) /\ g \in Gpu
      BY <2>3, <3>1 DEF Active, JobRecord
    <3> QED
      BY <1>1, <2>2, <3>1, <3>2 DEF Urged
  <2>5. CASE P[j] # {}
    <3>1. P[j] \in SUBSET Gpu /\ HomeOf(P[j]) \in Node
      BY <2>3, <2>5, PassShape
    <3>2. t.job[j].gpus = P[j]
      BY <2>1, <2>3, <2>5, <3>1, PlacedShape
    <3> QED
      BY <2>2, <2>3, <3>1, <3>2
  <2> QED
    BY <2>4, <2>5
<1> QED
  BY <1>1, <1>3, <1>5

------------------------------------------------------------------------------
(* The actions.                                                             *)

\* The property of the control plane is that of its store.
LEMMA RequestedIsUrged == EvictionRequested <=> Urged(Store)
BY DEF EvictionRequested, Urged, Store

\* Installing a snapshot in which all are urged.
LEMMA InstallUrges ==
  ASSUME NEW t, Urged(t), Install(t)
  PROVE  EvictionRequested'
<1>1. job' = t.job /\ gpu' = t.gpu
  BY DEF Install
<1> QED
  BY <1>1 DEF EvictionRequested, Urged, Active, Store

\* A handler that only lets go.
LEMMA StayingKeepsUrged ==
  ASSUME EvictionRequested, NEW t, Stays(Store, t), Install(t)
  PROVE  EvictionRequested'
BY RequestedIsUrged, StayingUrges, InstallUrges

\* A handler that ends with a pass, which need not have let go before it.
LEMMA TickKeepsUrged ==
  ASSUME TypeOK, Tidy(Store), NEW s, Safe(Store, s), NEW t \in TickResults(s), Install(t)
  PROVE  EvictionRequested'
<1>1. s \in Snapshot /\ Tidy(s)
  BY StoreShape, SafeIsSound DEF Carries
<1> QED
  BY <1>1, TickUrges, InstallUrges

\* Doing nothing.
LEMMA StoreStays == TypeOK => Stays(Store, Store)
BY StoreShape, SameStays

\* submit, which ends with a pass.
LEMMA SubmitUrges ==
  ASSUME TypeOK, Tidy(Store), NEW j \in Job, Submit(j)
  PROVE  EvictionRequested'
<1>1. Store.job[j].state = "NONE"
  BY DEF Submit, Store
<1>2. Safe(Store, SetState(Store, j, "PENDING"))
  BY <1>1, StoreShape, SetStateSafe DEF JobState, ActiveStates
<1> QED
  BY <1>2, TickKeepsUrged DEF Submit

\* resume, which ends with a pass.
LEMMA ResumeUrges ==
  ASSUME TypeOK, Tidy(Store), NEW j \in Job, Resume(j)
  PROVE  EvictionRequested'
<1> DEFINE r == [job[j] EXCEPT !.state = "QUEUED", !.preempt = FALSE]
           woken == IF job[j].state \in {"PAUSED", "PREEMPTED", "FAILED"}
                    THEN SetJob(Store, j, r) ELSE Store
<1>1. Store \in Snapshot /\ Store.job = job /\ job[j] \in JobRecord
  BY StoreShape DEF Store, Snapshot, Jobs
<1>2. r \in JobRecord /\ r.state = "QUEUED" /\ r.overdue = job[j].overdue
  BY <1>1 DEF JobRecord, JobState
<1> HIDE DEF r
<1>3. job[j].state \notin {"COMPLETED", "CANCELLED"} => Safe(Store, SetJob(Store, j, r))
  BY <1>1, <1>2, SetJobSafe DEF ActiveStates, Lasts
<1>4. Safe(Store, woken)
  BY <1>3, StoreSafe
<1>5. \E t \in TickResults(woken) : Install(t)
  BY DEF Resume, r
<1> QED
  BY <1>4, <1>5, TickKeepsUrged

\* resume_all, which ends with a pass.
LEMMA ResumeAllUrges ==
  ASSUME TypeOK, Tidy(Store), ResumeAll
  PROVE  EvictionRequested'
<1>1. Safe(Store, [Store EXCEPT !.stopAll = FALSE])
  BY StoreShape, LatchSafe
<1> QED
  BY <1>1, TickKeepsUrged DEF ResumeAll

\* A heartbeat is what reports researchers, and its pass asks whoever is in the way.
LEMMA HeartbeatUrges ==
  ASSUME TypeOK, Tidy(Store), NEW n \in Node, Heartbeat(n)
  PROVE  EvictionRequested'
<1>0. PICK report \in Reports(n), gone \in SUBSET OwnedBy(n) :
        \E dirs \in [gone -> RunDirs] : HeartbeatWith(n, report, gone, dirs)
  BY DEF Heartbeat
<1>1. PICK dirs \in [gone -> RunDirs] : HeartbeatWith(n, report, gone, dirs)
  BY <1>0
<1> DEFINE refreshed == Refresh(n, report)
           exits == [j \in gone |-> [exit |-> ReportedGone(refreshed.job[j]), dir |-> dirs[j]]]
           reconciled == Reconciled(refreshed, gone, dirs)
<1>2. refreshed \in Snapshot /\ Safe(Store, refreshed)
  BY RefreshSafe DEF Safe
<1> HIDE DEF refreshed
<1>3. Safe(Store, reconciled)
  <2>1. CASE gone = {}
    BY <1>2, <2>1 DEF Reconciled
  <2>2. CASE gone # {}
    <3>1. DOMAIN exits \subseteq Job /\ \A j \in DOMAIN exits : exits[j].dir \in RunDir
      BY RunDirsAssumption DEF OwnedBy, Active
    <3>2. reconciled = JobExits(refreshed, exits)
      BY <2>2 DEF Reconciled
    <3> HIDE DEF exits
    <3>3. Safe(refreshed, JobExits(refreshed, exits))
      BY <1>2, <3>1, JobExitsSafe
    <3> QED
      BY <1>2, <3>2, <3>3, SafeComposes
  <2> QED
    BY <2>1, <2>2
<1>4. PICK t \in TickResults(reconciled) : Install(Delivered(t, n))
  BY <1>1 DEF HeartbeatWith, HeartbeatResults, refreshed
<1> HIDE DEF reconciled
<1>5. reconciled \in Snapshot /\ Tidy(reconciled)
  BY <1>3, StoreShape, SafeIsSound DEF Carries
<1>6. t \in Snapshot /\ Urged(t)
  BY <1>4, <1>5, TickCarries, TickUrges
<1>7. Stays(t, Delivered(t, n))
  <2>1. Delivered(t, n) \in Snapshot
    BY <1>6, DeliveredSafe DEF Safe
  <2>2. Delivered(t, n).job = t.job /\ Delivered(t, n).gpu = t.gpu
    BY <1>6 DEF Delivered, Snapshot
  <2> QED
    BY <2>1, <2>2, SameStays
<1> QED
  BY <1>4, <1>6, <1>7, StayingUrges, InstallUrges

\* cancel.
LEMMA CancelUrges ==
  ASSUME TypeOK, EvictionRequested, NEW j \in Job, Cancel(j)
  PROVE  EvictionRequested'
<1> DEFINE told == IF j \in Active(Store) THEN Tell(Store, {j}, Order("STOP")) ELSE Store
           freed == Release(told, {j})
<1>1. told \in Snapshot /\ Stays(Store, told)
  BY StoreShape, StoreStays, OrderShape, TellStays DEF Stays
<1>2. Install(SetState(freed, j, "CANCELLED"))
  BY DEF Cancel
<1> HIDE DEF told
<1>3. freed \in Snapshot /\ Stays(told, freed)
  BY <1>1, ReleaseStays DEF Stays
<1> HIDE DEF freed
<1>4. Stays(freed, SetState(freed, j, "CANCELLED"))
  BY <1>3, SetStateStays DEF JobState, ActiveStates
<1> QED
  BY <1>1, <1>2, <1>3, <1>4, StayingComposes, StayingKeepsUrged

\* pause, in its four branches.
LEMMA PauseUrges ==
  ASSUME TypeOK, EvictionRequested, NEW j \in Job, Pause(j)
  PROVE  EvictionRequested'
<1> DEFINE stopped == Tell(Store, {j}, Order("STOP"))
           asked == Tell(Store, {j}, Order("PREEMPT"))
           freed == Release(stopped, {j})
           parked == [job[j] EXCEPT !.state = "PAUSED", !.gpus = {}, !.node = NoNode]
           leaving == [job[j] EXCEPT !.state = "PAUSED", !.preempt = TRUE]
<1>1. Store \in Snapshot /\ job[j] \in JobRecord
  BY StoreShape DEF TypeOK
<1>2. /\ parked \in JobRecord /\ parked.state \notin ActiveStates
      /\ leaving \in JobRecord /\ leaving.state \notin ActiveStates
  BY <1>1 DEF JobRecord, JobState, ActiveStates
<1>3. CASE PauseQueued(j) \/ PauseCheckpointing(j)
  <2>1. Stays(Store, SetState(Store, j, "PAUSED"))
    BY <1>1, SetStateStays DEF JobState, ActiveStates
  <2> QED
    BY <1>3, <2>1, StayingKeepsUrged DEF PauseQueued, PauseCheckpointing
<1>4. CASE PauseBeforeRun(j)
  <2>1. Install(SetJob(freed, j, parked)) \/ Install(stopped)
    BY <1>4 DEF PauseBeforeRun
  <2>2. stopped \in Snapshot /\ Stays(Store, stopped)
    BY <1>1, OrderShape, TellStays DEF Stays
  <2> HIDE DEF stopped, parked
  <2>3. freed \in Snapshot /\ Stays(Store, freed)
    BY <2>2, ReleaseStays, StayingComposes DEF Stays
  <2> HIDE DEF freed
  <2>4. Stays(Store, SetJob(freed, j, parked))
    BY <1>2, <2>3, SetJobStays, StayingComposes
  <2> QED
    BY <2>1, <2>2, <2>4, StayingKeepsUrged
<1>5. CASE PauseRunning(j)
  <2>1. Install(SetJob(asked, j, leaving))
    BY <1>5 DEF PauseRunning
  <2>2. asked \in Snapshot /\ Stays(Store, asked)
    BY <1>1, OrderShape, TellStays DEF Stays
  <2> HIDE DEF asked, leaving
  <2>3. Stays(Store, SetJob(asked, j, leaving))
    BY <1>2, <2>2, SetJobStays, StayingComposes
  <2> QED
    BY <2>1, <2>3, StayingKeepsUrged
<1> QED
  BY <1>3, <1>4, <1>5 DEF Pause

\* preempt, release_all, stop_all, update_policy, kill_job.
LEMMA AskingUrges ==
  ASSUME TypeOK, EvictionRequested,
         \/ \E j \in Job : Preempt(j) \/ Kill(j)
         \/ ReleaseAll \/ StopAll
         \/ \E latch \in BOOLEAN : SetStopAll(latch)
  PROVE  EvictionRequested'
<1>1. ASSUME NEW s \in Snapshot, NEW latch \in BOOLEAN
      PROVE  Stays(s, [s EXCEPT !.stopAll = latch])
  <2>1. /\ [s EXCEPT !.stopAll = latch] \in Snapshot
        /\ [s EXCEPT !.stopAll = latch].job = s.job
        /\ [s EXCEPT !.stopAll = latch].gpu = s.gpu
    BY DEF Snapshot
  <2> QED
    BY <2>1, SameStays
<1>2. Store \in Snapshot
  BY StoreShape
<1>3. \A J : Stays(Store, PreemptJobs(Store, J)) /\ PreemptJobs(Store, J) \in Snapshot
  BY <1>2, PreemptStays DEF Stays
<1>4. Stays(Store, [PreemptJobs(Store, Preemptible) EXCEPT !.stopAll = TRUE])
  BY <1>1, <1>3, StayingComposes
<1>5. CASE \E j \in Job : Kill(j)
  BY <1>2, <1>5, OrderShape, TellStays, StayingKeepsUrged DEF Kill
<1>6. CASE \E latch \in BOOLEAN : SetStopAll(latch)
  BY <1>1, <1>2, <1>6, StayingKeepsUrged DEF SetStopAll
<1>7. CASE (\E j \in Job : Preempt(j)) \/ ReleaseAll \/ StopAll
  BY <1>3, <1>4, <1>7, StayingKeepsUrged DEF Preempt, ReleaseAll, StopAll
<1> QED
  BY <1>5, <1>6, <1>7

\* drain_gpu and undrain_gpu mark a device as anything but a researcher's.
LEMMA DrainUrges ==
  ASSUME TypeOK, EvictionRequested, NEW g \in Gpu, DrainGpu(g) \/ UndrainGpu(g)
  PROVE  EvictionRequested'
<1>1. ASSUME NEW s \in Snapshot, NEW d \in SUBSET Gpu,
             NEW occ \in {"UNSEEN", "AVAILABLE", "TROIANI", "RESEARCHER", "DRAINING"},
             occ = "RESEARCHER" => s.gpu[g].occ = "RESEARCHER"
      PROVE  Stays(s, [s EXCEPT !.draining = d, !.gpu[g].occ = occ])
  <2> DEFINE t == [s EXCEPT !.draining = d, !.gpu[g].occ = occ]
  <2>1. t \in Snapshot
    BY <1>1, MarkSafe DEF Safe
  <2>2. t.job = s.job
    BY <1>1 DEF Snapshot
  <2>3. \A h \in Gpu : t.gpu[h].occ = IF h = g THEN occ ELSE s.gpu[h].occ
    <3>1. s.gpu \in Gpus
      BY <1>1 DEF Snapshot
    <3>2. t.gpu = [s.gpu EXCEPT ![g].occ = occ]
      BY <1>1 DEF Snapshot
    <3> QED
      BY <3>1, <3>2 DEF Gpus, GpuRecord
  <2> HIDE DEF t
  <2>4. Stays(s, t)
    BY <1>1, <2>1, <2>2, <2>3 DEF Stays, Active
  <2> QED
    BY <2>4 DEF t
<1>2. CASE DrainGpu(g)
  <2> DEFINE s == PreemptJobs(Store, {gpu[g].job})
  <2>1. s \in Snapshot /\ Stays(Store, s)
    BY StoreShape, PreemptStays DEF Stays
  <2>2. Install([s EXCEPT !.draining = s.draining \cup {g}, !.gpu[g].occ = "DRAINING"])
    BY <1>2 DEF DrainGpu
  <2> HIDE DEF s
  <2>3. s.draining \cup {g} \in SUBSET Gpu
    BY <2>1 DEF Snapshot
  <2>4. Stays(s, [s EXCEPT !.draining = s.draining \cup {g}, !.gpu[g].occ = "DRAINING"])
    BY <1>1, <2>1, <2>3
  <2> QED
    BY <2>1, <2>2, <2>4, StayingComposes, StayingKeepsUrged
<1>3. CASE UndrainGpu(g)
  <2> DEFINE occ == IF Store.gpu[g].occ = "DRAINING" THEN "AVAILABLE" ELSE Store.gpu[g].occ
  <2>1. Store \in Snapshot
    BY StoreShape
  <2>2. /\ Store.draining \ {g} \in SUBSET Gpu
        /\ occ \in {"UNSEEN", "AVAILABLE", "TROIANI", "RESEARCHER", "DRAINING"}
        /\ occ = "RESEARCHER" => Store.gpu[g].occ = "RESEARCHER"
    BY <2>1 DEF Snapshot, Gpus, GpuRecord
  <2>3. Install([Store EXCEPT !.draining = Store.draining \ {g}, !.gpu[g].occ = occ])
    BY <1>3 DEF UndrainGpu
  <2> HIDE DEF occ
  <2>4. Stays(Store, [Store EXCEPT !.draining = Store.draining \ {g}, !.gpu[g].occ = occ])
    BY <1>1, <2>1, <2>2
  <2> QED
    BY <2>3, <2>4, StayingKeepsUrged
<1> QED
  BY <1>2, <1>3

\* status.
LEMMA StatusUrges ==
  ASSUME TypeOK, EvictionRequested, Status
  PROVE  EvictionRequested'
BY StoreShape, ReclaimStays, StayingKeepsUrged DEF Status

\* job_exit.
LEMMA JobExitUrges ==
  ASSUME TypeOK, EvictionRequested, NEW j \in Job, NEW exit \in ExitReport, NEW dir \in RunDirs,
         JobExit(j, exit, dir)
  PROVE  EvictionRequested'
<1> DEFINE exits == [k \in {j} |-> [exit |-> exit, dir |-> dir]]
<1>1. DOMAIN exits \subseteq Job /\ \A k \in DOMAIN exits : exits[k].dir \in RunDir
  BY RunDirsAssumption
<1>2. Install(JobExits(Store, exits))
  BY DEF JobExit
<1> HIDE DEF exits
<1>3. Stays(Store, JobExits(Store, exits))
  BY <1>1, StoreShape, JobExitsStay
<1> QED
  BY <1>2, <1>3, StayingKeepsUrged

\* record_checkpoint.
LEMMA CheckpointUrges ==
  ASSUME TypeOK, EvictionRequested, NEW j \in Job, NEW kind \in {"usable", "other"},
         CheckpointReport(j, kind)
  PROVE  EvictionRequested'
<1> DEFINE r == [job[j] EXCEPT !.ckpt = kind]
<1>1. Store \in Snapshot /\ Store.job = job /\ job[j] \in JobRecord
  BY StoreShape DEF Store, Snapshot, Jobs
<1>2. /\ r \in JobRecord
      /\ r.state = job[j].state
      /\ r.gpus = job[j].gpus
      /\ r.preempt = job[j].preempt
  BY <1>1 DEF JobRecord, Checkpoint
<1>3. Install(SetJob(Store, j, r))
  BY DEF CheckpointReport
<1> HIDE DEF r
<1>4. Stays(Store, SetJob(Store, j, r))
  BY <1>1, <1>2, SetJobStays
<1> QED
  BY <1>3, <1>4, StayingKeepsUrged

\* A metric starts a job that is on its devices already.
LEMMA WithMetricStays ==
  ASSUME NEW s \in Snapshot, NEW j \in Job
  PROVE  Stays(s, WithMetric(s, j))
<1> DEFINE r == Stepped(s.job[j])
<1>1. s.job[j] \in JobRecord
  BY DEF Snapshot, Jobs
<1>2. /\ r \in JobRecord
      /\ r.gpus = s.job[j].gpus
      /\ r.preempt = s.job[j].preempt
      /\ \/ r.state = s.job[j].state
         \/ s.job[j].state \in {"SCHEDULED", "STARTING", "RESUMING"}
  BY <1>1 DEF Stepped, JobRecord, JobState, Checkpoint
<1> HIDE DEF r
<1>3. Stays(s, SetJob(s, j, r))
  BY <1>2, SetJobStays DEF ActiveStates
<1> QED
  BY <1>3 DEF WithMetric, r

\* An anomaly takes the job off its devices, a rollback leaves it off.
LEMMA WithAnomalyStays ==
  ASSUME NEW s \in Snapshot, NEW j \in Job
  PROVE  Stays(s, WithAnomaly(s, j))
<1> DEFINE asked == Tell(s, {j}, Order("PREEMPT"))
           paused == IF s.job[j].state = "RUNNING" THEN SetState(asked, j, "PAUSED") ELSE s
           r == RolledBack(paused.job[j])
<1>1. asked \in Snapshot /\ asked.job = s.job /\ Stays(s, asked)
  BY OrderShape, TellShape, TellStays
<1>2. WithAnomaly(s, j) \in {paused, SetJob(paused, j, r)} /\
      (WithAnomaly(s, j) # paused => paused.job[j].rollbacks < MaxRollbacks)
  <2>1. paused.job[j].rollbacks = s.job[j].rollbacks
    <3>1. [s.job[j] EXCEPT !.state = "PAUSED"].rollbacks = s.job[j].rollbacks
      BY DEF Snapshot, Jobs, JobRecord
    <3>2. SetState(asked, j, "PAUSED").job[j] = [s.job[j] EXCEPT !.state = "PAUSED"]
      <4> HIDE DEF asked
      <4> QED
        BY <1>1 DEF SetState, SetJob, Snapshot, Jobs
    <3> HIDE DEF asked
    <3> QED
      BY <3>1, <3>2
  <2> QED
    BY <2>1 DEF WithAnomaly
<1> HIDE DEF asked
<1>3. paused \in Snapshot /\ Stays(s, paused)
  <2>1. Stays(asked, SetState(asked, j, "PAUSED"))
    BY <1>1, SetStateStays DEF JobState, ActiveStates
  <2>2. Stays(s, s)
    BY SameStays
  <2> QED
    BY <1>1, <2>1, <2>2, StayingComposes DEF Stays
<1> HIDE DEF paused
<1>4. ASSUME paused.job[j].rollbacks < MaxRollbacks
      PROVE  Stays(paused, SetJob(paused, j, r))
  <2>1. paused.job[j] \in JobRecord
    BY <1>3 DEF Snapshot, Jobs
  <2>2. /\ r \in JobRecord
        /\ r.gpus = paused.job[j].gpus
        /\ \/ r.state = paused.job[j].state
           \/ r.state = "QUEUED"
    BY <1>4, <2>1, RolledBackShape
  <2>3. r.preempt = paused.job[j].preempt
    BY <2>1 DEF RolledBack, JobRecord
  <2> HIDE DEF r
  <2> QED
    BY <1>3, <2>2, <2>3, SetJobStays DEF ActiveStates
<1> QED
  BY <1>2, <1>3, <1>4, StayingComposes

\* record_metrics, record_anomaly.
LEMMA MetricsUrges ==
  ASSUME TypeOK, EvictionRequested, NEW j \in Job,
         (\E loss, anomaly \in BOOLEAN : Metrics(j, loss, anomaly)) \/ Anomaly(j)
  PROVE  EvictionRequested'
<1>1. CASE Anomaly(j)
  BY <1>1, StoreShape, WithAnomalyStays, StayingKeepsUrged DEF Anomaly
<1>2. ASSUME NEW loss \in BOOLEAN, NEW anomaly \in BOOLEAN, Metrics(j, loss, anomaly)
      PROVE  EvictionRequested'
  <2> DEFINE seen == IF loss THEN WithMetric(Store, j) ELSE Store
  <2>1. seen \in Snapshot /\ Stays(Store, seen)
    BY StoreShape, StoreStays, WithMetricStays DEF Stays
  <2>2. Install(IF anomaly THEN WithAnomaly(seen, j) ELSE seen)
    BY <1>2 DEF Metrics
  <2> HIDE DEF seen
  <2>3. Stays(Store, IF anomaly THEN WithAnomaly(seen, j) ELSE seen)
    BY <2>1, WithAnomalyStays, StayingComposes
  <2> QED
    BY <2>2, <2>3, StayingKeepsUrged
<1> QED
  BY <1>1, <1>2

\* Time and restarts change no request, no assignment and no device.
LEMMA ClockUrges ==
  ASSUME TypeOK, EvictionRequested, Clock
  PROVE  EvictionRequested'
<1>1. /\ gpu' = gpu
      /\ \A j \in Job : /\ job'[j].state = job[j].state
                        /\ job'[j].gpus = job[j].gpus
                        /\ job'[j].preempt = job[j].preempt
  <2>1. job \in Jobs
    BY DEF TypeOK, Jobs
  <2>2. CASE UNCHANGED <<job, gpu>>
    BY <2>2
  <2>3. ASSUME NEW j \in Job, NEW cooldown, job' = [job EXCEPT ![j].cooldown = cooldown]
        PROVE  \A k \in Job : /\ job'[k].state = job[k].state
                              /\ job'[k].gpus = job[k].gpus
                              /\ job'[k].preempt = job[k].preempt
    BY <2>1, <2>3 DEF Jobs, JobRecord
  <2>4. ASSUME NEW j \in Job, job' = [job EXCEPT ![j].overdue = TRUE]
        PROVE  \A k \in Job : /\ job'[k].state = job[k].state
                              /\ job'[k].gpus = job[k].gpus
                              /\ job'[k].preempt = job[k].preempt
    BY <2>1, <2>4 DEF Jobs, JobRecord
  <2>5. CASE \E j \in Job : CooldownOver(j) \/ RunOut(j)
    BY <2>3, <2>4, <2>5 DEF CooldownOver, RunOut
  <2> QED
    BY <2>2, <2>5 DEF Clock, GoLate, Restart
<1> QED
  BY <1>1 DEF EvictionRequested, Active, Store

------------------------------------------------------------------------------
(* The theorem.                                                             *)

\* At first no device has been seen.
LEMMA InitUrges == Init => EvictionRequested
<1> SUFFICES ASSUME Init PROVE EvictionRequested
  OBVIOUS
<1>1. \A g \in Gpu : gpu[g].occ = "UNSEEN"
  BY DEF Init
<1>2. TypeOK
  BY InitSound
<1> QED
  BY <1>1, <1>2 DEF EvictionRequested, Active, Store, TypeOK, JobRecord

\* Whatever is requested, reported or repeated, a preemptible job that has a device
\* where a researcher was seen is asked to leave from that report on, and stays
\* asked until it has left.
THEOREM ResearchersFirst == Spec => []EvictionRequested
<1>1. Init => EvictionRequested
  BY InitUrges
<1>2. TypeOK /\ Tidy(Store) /\ EvictionRequested /\ [Next]_vars => EvictionRequested'
  <2> SUFFICES ASSUME TypeOK, Tidy(Store), EvictionRequested, [Next]_vars
               PROVE  EvictionRequested'
    OBVIOUS
  <2>1. CASE Operate
    BY <2>1, SubmitUrges, CancelUrges, PauseUrges, ResumeUrges, ResumeAllUrges, AskingUrges,
       DrainUrges, StatusUrges
    DEF Operate
  <2>2. CASE Report
    BY <2>2, HeartbeatUrges, JobExitUrges, CheckpointUrges, MetricsUrges DEF Report
  <2>3. CASE Clock
    BY <2>3, ClockUrges
  <2>4. CASE UNCHANGED vars
    BY <2>4 DEF vars, EvictionRequested, Active, Store
  <2> QED
    BY <2>1, <2>2, <2>3, <2>4 DEF Next
<1> QED
  BY <1>1, <1>2, Tidiness, PTL DEF Spec

\* A sweep takes the jobs, the claims and the queue of every silent node.
LEMMA SweepShape ==
  ASSUME NEW s \in Snapshot, NEW n \in StaleNodes(s)
  PROVE  /\ \A g \in GpusOf(n) : Reclaim(s).gpu[g].job = NoJob
         /\ \A j \in Job : Reclaim(s).pending[n][j] = <<>>
         /\ \A j \in Active(Reclaim(s)) : Reclaim(s).job[j].node # n
<1> DEFINE named == NamedOn(s, StaleNodes(s))
           orphans == Orphans(s)
           freed == Release(s, orphans \cup named)
           f == [j \in Job |-> IF j \in orphans THEN Requeued(s.job[j]) ELSE s.job[j]]
           queues == [m \in Node |->
             IF m \in StaleNodes(s) THEN [j \in Job |-> <<>>] ELSE s.pending[m]]
<1>1. Reclaim(s) = [freed EXCEPT !.job = f, !.pending = queues]
  BY DEF Reclaim
<1>2. /\ freed \in Snapshot
      /\ \A g \in Gpu : freed.gpu[g] = IF s.gpu[g].job \in orphans \cup named
                                       THEN [occ |-> "AVAILABLE", job |-> NoJob] ELSE s.gpu[g]
  BY ReleaseShape
<1>3. ASSUME NEW g \in GpusOf(n)
      PROVE  freed.gpu[g].job = NoJob
  <2>1. g \in Gpu /\ NodeOf[g] \in StaleNodes(s)
    BY DEF GpusOf
  <2>2. s.gpu[g].job \in named \cup {NoJob}
    BY <2>1 DEF NamedOn
  <2> HIDE DEF freed, named, orphans
  <2> QED
    BY <1>2, <2>1, <2>2
<1> HIDE DEF freed
<1>4. Reclaim(s).gpu = freed.gpu /\ Reclaim(s).pending = queues
  BY <1>1, <1>2 DEF Snapshot
<1>5. \A j \in Job : queues[n][j] = <<>>
  BY DEF StaleNodes
<1>6. \A j \in Active(Reclaim(s)) : Reclaim(s).job[j].node # n
  BY ReclaimShape
<1> QED
  BY <1>3, <1>4, <1>5, <1>6

\* After any sweep nothing of a silent node is in use, however stale or at odds the
\* records were that it found.
THEOREM SweepsAreComplete == Spec => SweepIsComplete
<1> DEFINE swept ==
      \A n \in StaleNodes(Store) :
        /\ \A j \in Job : job'[j].state \in ActiveStates => job'[j].node # n
        /\ \A g \in GpusOf(n) : gpu'[g].job = NoJob
        /\ \A j \in Job : pending'[n][j] = <<>>
<1>1. TypeOK /\ Status => swept
  <2> SUFFICES ASSUME TypeOK, Status, NEW n \in StaleNodes(Store)
               PROVE  /\ \A j \in Job : job'[j].state \in ActiveStates => job'[j].node # n
                      /\ \A g \in GpusOf(n) : gpu'[g].job = NoJob
                      /\ \A j \in Job : pending'[n][j] = <<>>
    OBVIOUS
  <2> DEFINE s == Reclaim(Store)
  <2>1. job' = s.job /\ gpu' = s.gpu /\ pending' = s.pending
    BY DEF Status, Install
  <2>2. /\ \A g \in GpusOf(n) : s.gpu[g].job = NoJob
        /\ \A j \in Job : s.pending[n][j] = <<>>
        /\ \A j \in Active(s) : s.job[j].node # n
    BY StoreShape, SweepShape
  <2> HIDE DEF s
  <2> QED
    BY <2>1, <2>2 DEF Active
<1>2. TypeOK => [Status => swept]_vars
  BY <1>1
<1> QED
  BY <1>2, TypeCorrect, PTL DEF SweepIsComplete

------------------------------------------------------------------------------
(* Failures stay.  No invariant is needed for that beyond the shape of the   *)
(* records: each piece of a handler leaves a failed job failed, or finds out *)
(* that it had finished.                                                     *)

EndStates == {"FAILED", "COMPLETED"}

Abides(s, t, j) == s.job[j].state \in EndStates => t.job[j].state \in EndStates

\* What the table allows of a job that is over: it is not cancelled any more.
LEMMA EndedIsNotCancelled ==
  ASSUME NEW st \in EndStates
  PROVE  ~CanMove(st, "CANCELLED")
<1>1. Valid["COMPLETED"] = Table["COMPLETED"] /\ Valid["FAILED"] = Table["FAILED"]
  BY DEF Valid, JobState
<1>2. Table["COMPLETED"] = {} /\ Table["FAILED"] = {"QUEUED", "PENDING"}
  BY DEF Table, JobState
<1> QED
  BY <1>1, <1>2 DEF CanMove, EndStates

\* Changing one job keeps to it for that job, and leaves the others alone.
LEMMA SetJobAbides ==
  ASSUME NEW s \in Snapshot, NEW k \in Job, NEW r, NEW j \in Job,
         j = k => (s.job[k].state \in EndStates => r.state \in EndStates)
  PROVE  Abides(s, SetJob(s, k, r), j)
<1>1. SetJob(s, k, r).job[j] = IF j = k THEN r ELSE s.job[j]
  BY DEF SetJob, Snapshot, Jobs
<1> QED
  BY <1>1 DEF Abides

\* Changing the state of one job.
LEMMA SetStateAbides ==
  ASSUME NEW s \in Snapshot, NEW k \in Job, NEW st \in JobState, NEW j \in Job,
         s.job[k].state \notin EndStates
  PROVE  Abides(s, SetState(s, k, st), j)
BY SetJobAbides DEF SetState

\* Only active jobs are asked to leave.
LEMMA PreemptAbides ==
  ASSUME NEW s \in Snapshot, NEW J, NEW j \in Job
  PROVE  Abides(s, PreemptJobs(s, J), j)
BY PreemptJob DEF Abides, Active, ActiveStates, EndStates

\* Only active jobs are taken from silent nodes.
LEMMA ReclaimAbides ==
  ASSUME NEW s \in Snapshot, NEW j \in Job
  PROVE  Abides(s, Reclaim(s), j)
<1> DEFINE orphans == Orphans(s)
           freed == Release(s, orphans \cup NamedOn(s, StaleNodes(s)))
           f == [k \in Job |-> IF k \in orphans THEN Requeued(s.job[k]) ELSE s.job[k]]
           queues == [n \in Node |->
             IF n \in StaleNodes(s) THEN [k \in Job |-> <<>>] ELSE s.pending[n]]
<1>1. CASE StaleNodes(s) = {}
  BY <1>1 DEF Reclaim, Abides
<1>2. CASE StaleNodes(s) # {}
  <2>1. Reclaim(s) = [freed EXCEPT !.job = f, !.pending = queues]
    BY <1>2 DEF Reclaim
  <2>2. freed \in Snapshot
    BY ReleaseShape
  <2>3. s.job[j].state \in EndStates => f[j] = s.job[j]
    BY DEF Orphans, Active, ActiveStates, EndStates
  <2> HIDE DEF freed, f
  <2>4. Reclaim(s).job = f
    BY <2>1, <2>2 DEF Snapshot
  <2> QED
    BY <2>3, <2>4 DEF Abides
<1> QED
  BY <1>1, <1>2

\* The verdict on an exit requeues only what looked as if it were running.
LEMMA SettledAbides ==
  ASSUME NEW r \in JobRecord, NEW verdict, r.state \in EndStates
  PROVE  Settled(r, verdict).state \in EndStates
<1>1. CASE verdict = "completed"
  BY <1>1 DEF Settled, JobRecord, JobState, EndStates
<1>2. CASE verdict = "failed"
  BY <1>2 DEF Settled, JobRecord, JobState, EndStates
<1>3. CASE verdict \notin {"completed", "failed"}
  <2>1. r.state \notin ActiveStates \cup {"PREEMPTED"}
    BY DEF EndStates, ActiveStates
  <2>2. Settled(r, verdict) = r
    BY <1>3, <2>1 DEF Settled
  <2> QED
    BY <2>2
<1> QED
  BY <1>1, <1>2, <1>3

\* Any number of exits.
LEMMA JobExitsAbide ==
  ASSUME NEW s \in Snapshot, NEW exits, DOMAIN exits \subseteq Job,
         \A j \in DOMAIN exits : exits[j].dir \in RunDir,
         NEW j \in Job
  PROVE  Abides(s, JobExits(s, exits), j)
<1> DEFINE ended == {k \in DOMAIN exits : ~Closed(s.job[k])}
           freed == Release(s, ended)
           synced(k) == Synced(s.job[k], exits[k].dir)
           settled(k) == Settled(synced(k), Verdict(s.job[k], exits[k].exit, exits[k].dir))
           f == [k \in Job |-> IF k \notin DOMAIN exits THEN s.job[k]
                               ELSE IF k \in ended THEN settled(k) ELSE synced(k)]
<1>1. JobExits(s, exits) = [freed EXCEPT !.job = f]
  BY DEF JobExits
<1>2. freed \in Snapshot
  BY ReleaseShape
<1> HIDE DEF freed
<1>3. JobExits(s, exits).job = f
  BY <1>1, <1>2 DEF Snapshot
<1>4. ASSUME s.job[j].state \in EndStates, j \in DOMAIN exits
      PROVE  synced(j).state \in EndStates /\ settled(j).state \in EndStates
  <2>1. synced(j) \in JobRecord /\ synced(j).state \in EndStates
    BY <1>4, SyncedShape DEF Snapshot, Jobs
  <2> HIDE DEF synced
  <2> QED
    BY <2>1, SettledAbides
<1>5. f[j] = IF j \notin DOMAIN exits THEN s.job[j]
             ELSE IF j \in ended THEN settled(j) ELSE synced(j)
  OBVIOUS
<1> HIDE DEF f, settled, synced, ended
<1> QED
  BY <1>3, <1>4, <1>5 DEF Abides

\* A pass places only jobs that wait.
LEMMA TickAbides ==
  ASSUME NEW s \in Snapshot, NEW t \in TickResults(s), NEW j \in Job
  PROVE  Abides(s, t, j)
<1> DEFINE r == Reclaim(s)
           evicted == PreemptJobs(r, Victims(r) \cup Exceeded(r))
<1>1. r \in Snapshot /\ Abides(s, r, j)
  BY ReclaimSafe, ReclaimAbides DEF Safe
<1>2. t = evicted \/ \E P \in Passes(r) : t = Allocate(evicted, P)
  BY DEF TickResults
<1> HIDE DEF r
<1>3. evicted \in Snapshot /\ Abides(r, evicted, j)
  BY <1>1, PreemptSafe, PreemptAbides DEF Safe
<1> HIDE DEF evicted
<1>4. ASSUME NEW P \in Passes(r), t = Allocate(evicted, P), r.job[j].state \in EndStates
      PROVE  t.job[j] = evicted.job[j]
  <2>1. j \notin Ready(r)
    BY <1>4 DEF Ready, QueuedStates, EndStates
  <2>2. P[j] = {}
    BY <2>1, PassShape
  <2> QED
    BY <1>3, <1>4, <2>2, AllocateShape
<1> QED
  BY <1>1, <1>2, <1>3, <1>4 DEF Abides

(* The actions.                                                             *)

JobAbides(j) == job[j].state \in EndStates => job'[j].state \in EndStates

\* Installing a snapshot that keeps to it.
LEMMA InstallAbides ==
  ASSUME NEW j \in Job, NEW t, Abides(Store, t, j), Install(t)
  PROVE  JobAbides(j)
BY DEF Abides, Install, JobAbides, Store

\* Steps that keep to it compose.
LEMMA AbidingComposes ==
  ASSUME NEW s, NEW t, NEW u, NEW j, Abides(s, t, j), Abides(t, u, j)
  PROVE  Abides(s, u, j)
BY DEF Abides

\* So does a step that leaves the jobs alone.
LEMMA SameAbides ==
  ASSUME NEW s, NEW t, t.job = s.job, NEW j
  PROVE  Abides(s, t, j)
BY DEF Abides

\* submit.
LEMMA SubmitAbides ==
  ASSUME TypeOK, NEW k \in Job, NEW j \in Job, Submit(k)
  PROVE  JobAbides(j)
<1> DEFINE s == SetState(Store, k, "PENDING")
<1>1. Store.job[k].state = "NONE"
  BY DEF Submit, Store
<1>2. s \in Snapshot
  BY <1>1, StoreShape, SetStateSafe DEF JobState, ActiveStates, Safe
<1>3. Abides(Store, s, j)
  BY <1>1, StoreShape, SetStateAbides DEF EndStates, JobState
<1>4. \E t \in TickResults(s) : Install(t)
  BY DEF Submit
<1> HIDE DEF s
<1> QED
  BY <1>2, <1>3, <1>4, TickAbides, AbidingComposes, InstallAbides

\* resume of another job.
LEMMA ResumeAbides ==
  ASSUME TypeOK, NEW k \in Job, NEW j \in Job, Resume(k), k # j
  PROVE  JobAbides(j)
<1> DEFINE r == [job[k] EXCEPT !.state = "QUEUED", !.preempt = FALSE]
           woken == IF job[k].state \in {"PAUSED", "PREEMPTED", "FAILED"}
                    THEN SetJob(Store, k, r) ELSE Store
<1>1. Store \in Snapshot /\ Store.job = job /\ job[k] \in JobRecord
  BY StoreShape DEF Store, Snapshot, Jobs
<1>2. r \in JobRecord /\ r.state = "QUEUED" /\ r.overdue = job[k].overdue
  BY <1>1 DEF JobRecord, JobState
<1> HIDE DEF r
<1>3. Store.job[k].state \notin {"COMPLETED", "CANCELLED"} => SetJob(Store, k, r) \in Snapshot
  BY <1>1, <1>2, SetJobSafe DEF ActiveStates, Lasts, Safe
<1>4. Abides(Store, SetJob(Store, k, r), j) /\ Abides(Store, Store, j)
  BY <1>1, SetJobAbides, SameAbides
<1>5. \E t \in TickResults(woken) : Install(t)
  BY DEF Resume, r
<1>6. woken \in Snapshot /\ Abides(Store, woken, j)
  BY <1>1, <1>3, <1>4
<1> HIDE DEF woken
<1> QED
  BY <1>5, <1>6, TickAbides, AbidingComposes, InstallAbides

\* resume_all.
LEMMA ResumeAllAbides ==
  ASSUME TypeOK, ResumeAll, NEW j \in Job
  PROVE  JobAbides(j)
<1> DEFINE s == [Store EXCEPT !.stopAll = FALSE]
<1>1. s \in Snapshot
  BY StoreShape, LatchSafe DEF Safe
<1>2. Abides(Store, s, j)
  BY SameAbides DEF Store
<1>3. \E t \in TickResults(s) : Install(t)
  BY DEF ResumeAll
<1> HIDE DEF s
<1> QED
  BY <1>1, <1>2, <1>3, TickAbides, AbidingComposes, InstallAbides

\* cancel.
LEMMA CancelAbides ==
  ASSUME TypeOK, NEW k \in Job, NEW j \in Job, Cancel(k)
  PROVE  JobAbides(j)
<1> DEFINE told == IF k \in Active(Store) THEN Tell(Store, {k}, Order("STOP")) ELSE Store
           freed == Release(told, {k})
<1>1. told \in Snapshot /\ told.job = job
  BY StoreShape, OrderShape, TellShape DEF Store
<1>2. Install(SetState(freed, k, "CANCELLED"))
  BY DEF Cancel
<1> HIDE DEF told
<1>3. freed \in Snapshot /\ freed.job = job
  BY <1>1, ReleaseShape
<1>4. job[k].state \notin EndStates
  BY EndedIsNotCancelled DEF Cancel
<1> HIDE DEF freed
<1>5. Abides(freed, SetState(freed, k, "CANCELLED"), j)
  BY <1>3, <1>4, SetStateAbides DEF JobState
<1>6. Abides(Store, freed, j)
  BY <1>3, SameAbides DEF Store
<1> QED
  BY <1>2, <1>5, <1>6, AbidingComposes, InstallAbides

\* pause, in its four branches.
LEMMA PauseAbides ==
  ASSUME TypeOK, NEW k \in Job, NEW j \in Job, Pause(k)
  PROVE  JobAbides(j)
<1> DEFINE stopped == Tell(Store, {k}, Order("STOP"))
           asked == Tell(Store, {k}, Order("PREEMPT"))
           freed == Release(stopped, {k})
<1>1. job[k].state \notin EndStates
  BY DEF Pause, PauseQueued, PauseBeforeRun, PauseRunning, PauseCheckpointing, EndStates
<1>2. /\ Store \in Snapshot /\ Store.job = job
      /\ stopped \in Snapshot /\ stopped.job = job
      /\ asked \in Snapshot /\ asked.job = job
  BY StoreShape, OrderShape, TellShape DEF Store
<1> HIDE DEF stopped, asked
<1>3. freed \in Snapshot /\ freed.job = job
  BY <1>2, ReleaseShape
<1> HIDE DEF freed
<1>4. ASSUME NEW s \in {Store, stopped, asked, freed}, NEW r
      PROVE  Abides(Store, SetJob(s, k, r), j) /\ Abides(Store, s, j)
  <2>1. s \in Snapshot /\ s.job = job
    BY <1>2, <1>3
  <2>2. Abides(s, SetJob(s, k, r), j)
    BY <1>1, <2>1, SetJobAbides
  <2>3. Abides(Store, s, j)
    BY <1>2, <2>1, SameAbides
  <2> QED
    BY <2>2, <2>3, AbidingComposes
<1>5. \E s \in {Store, stopped, asked, freed} : Install(s) \/ \E r : Install(SetJob(s, k, r))
  BY DEF Pause, PauseQueued, PauseBeforeRun, PauseRunning, PauseCheckpointing, SetState,
     stopped, asked, freed
<1> QED
  BY <1>4, <1>5, InstallAbides

\* preempt, release_all, stop_all, update_policy, kill_job.
LEMMA AskingAbides ==
  ASSUME TypeOK, NEW j \in Job,
         \/ \E k \in Job : Preempt(k) \/ Kill(k)
         \/ ReleaseAll \/ StopAll
         \/ \E latch \in BOOLEAN : SetStopAll(latch)
  PROVE  JobAbides(j)
<1>1. Store \in Snapshot
  BY StoreShape
<1>2. \A J : Abides(Store, PreemptJobs(Store, J), j) /\ PreemptJobs(Store, J) \in Snapshot
  BY <1>1, PreemptAbides, PreemptSafe DEF Safe
<1>3. ASSUME NEW s \in Snapshot, NEW latch \in BOOLEAN
      PROVE  Abides(s, [s EXCEPT !.stopAll = latch], j)
  BY SameAbides DEF Snapshot
<1>4. Abides(Store, [PreemptJobs(Store, Preemptible) EXCEPT !.stopAll = TRUE], j)
  BY <1>2, <1>3, AbidingComposes
<1>5. CASE \E k \in Job : Kill(k)
  BY <1>1, <1>5, OrderShape, TellShape, SameAbides, InstallAbides DEF Kill
<1>6. CASE \E latch \in BOOLEAN : SetStopAll(latch)
  BY <1>1, <1>3, <1>6, InstallAbides DEF SetStopAll
<1>7. CASE (\E k \in Job : Preempt(k)) \/ ReleaseAll \/ StopAll
  BY <1>2, <1>4, <1>7, InstallAbides DEF Preempt, ReleaseAll, StopAll
<1> QED
  BY <1>5, <1>6, <1>7

\* drain_gpu and undrain_gpu.
LEMMA DrainAbides ==
  ASSUME TypeOK, NEW g \in Gpu, NEW j \in Job, DrainGpu(g) \/ UndrainGpu(g)
  PROVE  JobAbides(j)
<1>1. ASSUME NEW s \in Snapshot, NEW d, NEW occ
      PROVE  Abides(s, [s EXCEPT !.draining = d, !.gpu[g].occ = occ], j)
  BY SameAbides DEF Snapshot
<1>2. CASE DrainGpu(g)
  <2> DEFINE s == PreemptJobs(Store, {gpu[g].job})
  <2>1. s \in Snapshot /\ Abides(Store, s, j)
    BY StoreShape, PreemptSafe, PreemptAbides DEF Safe
  <2>2. Install([s EXCEPT !.draining = s.draining \cup {g}, !.gpu[g].occ = "DRAINING"])
    BY <1>2 DEF DrainGpu
  <2> HIDE DEF s
  <2>3. Abides(s, [s EXCEPT !.draining = s.draining \cup {g}, !.gpu[g].occ = "DRAINING"], j)
    BY <1>1, <2>1
  <2> QED
    BY <2>1, <2>2, <2>3, AbidingComposes, InstallAbides
<1>3. CASE UndrainGpu(g)
  <2> DEFINE occ == IF Store.gpu[g].occ = "DRAINING" THEN "AVAILABLE" ELSE Store.gpu[g].occ
  <2>1. Install([Store EXCEPT !.draining = Store.draining \ {g}, !.gpu[g].occ = occ])
    BY <1>3 DEF UndrainGpu
  <2>2. Store \in Snapshot
    BY StoreShape
  <2> HIDE DEF occ
  <2> QED
    BY <1>1, <2>1, <2>2, InstallAbides
<1> QED
  BY <1>2, <1>3

\* A heartbeat: what it finds dead, and its pass.
LEMMA HeartbeatAbides ==
  ASSUME TypeOK, NEW n \in Node, NEW j \in Job, Heartbeat(n)
  PROVE  JobAbides(j)
<1>0. PICK report \in Reports(n), gone \in SUBSET OwnedBy(n) :
        \E dirs \in [gone -> RunDirs] : HeartbeatWith(n, report, gone, dirs)
  BY DEF Heartbeat
<1>1. PICK dirs \in [gone -> RunDirs] : HeartbeatWith(n, report, gone, dirs)
  BY <1>0
<1> DEFINE refreshed == Refresh(n, report)
           exits == [k \in gone |-> [exit |-> ReportedGone(refreshed.job[k]), dir |-> dirs[k]]]
           reconciled == Reconciled(refreshed, gone, dirs)
<1>2. refreshed \in Snapshot /\ Abides(Store, refreshed, j)
  <2>1. refreshed.job = Store.job
    BY DEF Refresh, Store
  <2> QED
    BY <2>1, RefreshSafe, SameAbides DEF Safe
<1> HIDE DEF refreshed
<1>3. reconciled \in Snapshot /\ Abides(Store, reconciled, j)
  <2>1. CASE gone = {}
    BY <1>2, <2>1 DEF Reconciled
  <2>2. CASE gone # {}
    <3>1. DOMAIN exits \subseteq Job /\ \A k \in DOMAIN exits : exits[k].dir \in RunDir
      BY RunDirsAssumption DEF OwnedBy, Active
    <3>2. reconciled = JobExits(refreshed, exits)
      BY <2>2 DEF Reconciled
    <3> HIDE DEF exits
    <3>3. /\ JobExits(refreshed, exits) \in Snapshot
          /\ Abides(refreshed, JobExits(refreshed, exits), j)
      BY <1>2, <3>1, JobExitsSafe, JobExitsAbide DEF Safe
    <3> QED
      BY <1>2, <3>2, <3>3, AbidingComposes
  <2> QED
    BY <2>1, <2>2
<1>4. PICK t \in TickResults(reconciled) : Install(Delivered(t, n))
  BY <1>1 DEF HeartbeatWith, HeartbeatResults, refreshed
<1> HIDE DEF reconciled
<1>5. Abides(reconciled, t, j)
  BY <1>3, <1>4, TickAbides
<1>6. job' = t.job
  <2>1. Delivered(t, n).job = t.job
    BY DEF Delivered
  <2> QED
    BY <1>4, <2>1 DEF Install
<1> QED
  BY <1>3, <1>5, <1>6 DEF Abides, JobAbides, Store

\* job_exit.
LEMMA JobExitAbides ==
  ASSUME TypeOK, NEW k \in Job, NEW exit \in ExitReport, NEW dir \in RunDirs,
         JobExit(k, exit, dir), NEW j \in Job
  PROVE  JobAbides(j)
<1> DEFINE exits == [i \in {k} |-> [exit |-> exit, dir |-> dir]]
<1>1. DOMAIN exits \subseteq Job /\ \A i \in DOMAIN exits : exits[i].dir \in RunDir
  BY RunDirsAssumption
<1>2. Install(JobExits(Store, exits))
  BY DEF JobExit
<1> HIDE DEF exits
<1>3. Abides(Store, JobExits(Store, exits), j)
  BY <1>1, StoreShape, JobExitsAbide
<1> QED
  BY <1>2, <1>3, InstallAbides

\* record_checkpoint.
LEMMA CheckpointAbides ==
  ASSUME TypeOK, NEW k \in Job, NEW kind, CheckpointReport(k, kind), NEW j \in Job
  PROVE  JobAbides(j)
<1> DEFINE r == [job[k] EXCEPT !.ckpt = kind]
<1>1. Store \in Snapshot /\ r.state = Store.job[k].state
  BY StoreShape DEF Store, Snapshot, Jobs, JobRecord
<1>2. Install(SetJob(Store, k, r))
  BY DEF CheckpointReport
<1> HIDE DEF r
<1> QED
  BY <1>1, <1>2, SetJobAbides, InstallAbides

\* A metric runs only a job that was placed.
LEMMA WithMetricAbides ==
  ASSUME NEW s \in Snapshot, NEW k \in Job, NEW j \in Job
  PROVE  Abides(s, WithMetric(s, k), j)
<1>1. s.job[k] \in JobRecord
  BY DEF Snapshot, Jobs
<1>2. s.job[k].state \in EndStates => Stepped(s.job[k]).state \in EndStates
  BY <1>1 DEF Stepped, JobRecord, JobState, EndStates
<1> QED
  BY <1>2, SetJobAbides DEF WithMetric

\* An anomaly pauses only a job that runs; a rollback queues only one that is paused.
LEMMA WithAnomalyAbides ==
  ASSUME NEW s \in Snapshot, NEW k \in Job, NEW j \in Job
  PROVE  Abides(s, WithAnomaly(s, k), j)
<1> DEFINE asked == Tell(s, {k}, Order("PREEMPT"))
           paused == IF s.job[k].state = "RUNNING" THEN SetState(asked, k, "PAUSED") ELSE s
           r == RolledBack(paused.job[k])
<1>1. asked \in Snapshot /\ asked.job = s.job
  BY OrderShape, TellShape
<1>2. WithAnomaly(s, k) \in {paused, SetJob(paused, k, r)}
  BY DEF WithAnomaly
<1> HIDE DEF asked
<1>3. paused \in Snapshot /\ Abides(s, paused, j)
  <2>1. CASE s.job[k].state = "RUNNING"
    <3>1. SetState(asked, k, "PAUSED") \in Snapshot
      BY <1>1, SetStateStays DEF Stays, JobState, ActiveStates
    <3>2. Abides(asked, SetState(asked, k, "PAUSED"), j)
      BY <1>1, <2>1, SetStateAbides DEF JobState, EndStates
    <3> QED
      BY <1>1, <2>1, <3>1, <3>2, SameAbides, AbidingComposes
  <2>2. CASE s.job[k].state # "RUNNING"
    BY <2>2, SameAbides
  <2> QED
    BY <2>1, <2>2
<1> HIDE DEF paused
<1>4. paused.job[k].state \in EndStates => r.state \in EndStates
  <2>1. paused.job[k] \in JobRecord
    BY <1>3 DEF Snapshot, Jobs
  <2> QED
    BY <2>1 DEF RolledBack, JobRecord, EndStates
<1> HIDE DEF r
<1>5. Abides(paused, SetJob(paused, k, r), j)
  BY <1>3, <1>4, SetJobAbides
<1> QED
  BY <1>2, <1>3, <1>5, AbidingComposes

\* record_metrics, record_anomaly.
LEMMA MetricsAbide ==
  ASSUME TypeOK, NEW k \in Job, NEW j \in Job,
         (\E loss, anomaly \in BOOLEAN : Metrics(k, loss, anomaly)) \/ Anomaly(k)
  PROVE  JobAbides(j)
<1>1. CASE Anomaly(k)
  BY <1>1, StoreShape, WithAnomalyAbides, InstallAbides DEF Anomaly
<1>2. ASSUME NEW loss \in BOOLEAN, NEW anomaly \in BOOLEAN, Metrics(k, loss, anomaly)
      PROVE  JobAbides(j)
  <2> DEFINE seen == IF loss THEN WithMetric(Store, k) ELSE Store
  <2>1. seen \in Snapshot /\ Abides(Store, seen, j)
    BY StoreShape, WithMetricStays, WithMetricAbides, SameAbides DEF Stays
  <2>2. Install(IF anomaly THEN WithAnomaly(seen, k) ELSE seen)
    BY <1>2 DEF Metrics
  <2> HIDE DEF seen
  <2>3. Abides(Store, IF anomaly THEN WithAnomaly(seen, k) ELSE seen, j)
    BY <2>1, WithAnomalyAbides, AbidingComposes
  <2> QED
    BY <2>2, <2>3, InstallAbides
<1> QED
  BY <1>1, <1>2

\* Time and restarts.
LEMMA ClockAbides ==
  ASSUME TypeOK, Clock, NEW j \in Job
  PROVE  JobAbides(j)
<1>1. job \in Jobs
  BY DEF TypeOK, Jobs
<1>2. CASE UNCHANGED job
  BY <1>2 DEF JobAbides
<1>3. ASSUME NEW k \in Job, NEW x,
             \/ job' = [job EXCEPT ![k].cooldown = x]
             \/ job' = [job EXCEPT ![k].overdue = x]
      PROVE  job'[j].state = job[j].state
  BY <1>1, <1>3 DEF Jobs, JobRecord
<1>4. CASE \E k \in Job : CooldownOver(k) \/ RunOut(k)
  BY <1>3, <1>4 DEF CooldownOver, RunOut, JobAbides
<1> QED
  BY <1>2, <1>4 DEF Clock, GoLate, Restart

\* A failed job stays failed, or turns out to have finished, until somebody resumes
\* it: no pass, rollback, late report or request about another job queues it again.
THEOREM FailuresAreKept == Spec => FailuresStay
<1>1. ASSUME TypeOK, Next, NEW j \in Job, ~Resume(j)
      PROVE  JobAbides(j)
  <2>1. CASE Operate
    BY <1>1, <2>1, SubmitAbides, CancelAbides, PauseAbides, ResumeAbides, ResumeAllAbides,
       AskingAbides, DrainAbides, ReclaimAbides, StoreShape, InstallAbides
    DEF Operate, Status
  <2>2. CASE Report
    BY <1>1, <2>2, HeartbeatAbides, JobExitAbides, CheckpointAbides, MetricsAbide DEF Report
  <2>3. CASE Clock
    BY <1>1, <2>3, ClockAbides
  <2> QED
    BY <1>1, <2>1, <2>2, <2>3 DEF Next
<1>2. TypeOK /\ [Next]_vars =>
        [\A j \in Job : job[j].state = "FAILED" /\ ~Resume(j)
                          => job'[j].state \in {"FAILED", "COMPLETED"}]_vars
  BY <1>1 DEF JobAbides, EndStates
<1> QED
  BY <1>2, TypeCorrect, PTL DEF Spec, FailuresStay

=============================================================================
