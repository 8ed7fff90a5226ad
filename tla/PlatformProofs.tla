---------------------------- MODULE PlatformProofs ---------------------------
(***************************************************************************)
(* Workers, trainers and people only ever do to the control plane what its   *)
(* own specification allows them: the platform implements Control.          *)
(***************************************************************************)
EXTENDS Platform, ControlProofs, WellFoundedInduction

\* What the worker side hands to the control plane is among its inputs.
Interfaces == Seen = {"AVAILABLE", "TROIANI", "RESEARCHER"} /\ NoFiles \in RunDirs

\* What discovery says of a device is one of the three things a report may say.
LEMMA SeenOnSeen ==
  ASSUME Interfaces, NEW g
  PROVE  SeenOn(g) \in Seen
BY DEF Interfaces, SeenOn

\* Every way for a process to end is an exit report.
LEMMA ExitOfReports == \A st : ExitOf(st) \in ExitReport
BY DEF ExitOf, ExitReport

\* A worker's heartbeat is a heartbeat, whether or not its answer arrives.
LEMMA BeatIsHeartbeat ==
  ASSUME Interfaces, NEW n \in Node, NEW answered, WorkerBeat(n, answered)
  PROVE  Steady
<1> DEFINE report == [g \in GpusOf(n) |-> SeenOn(g)]
           dirs == [j \in Gone(n) |-> NoFiles]
<1>1. HeartbeatWith(n, report, Gone(n), dirs)
  BY DEF WorkerBeat, HeartbeatWith
<1>2. report \in Reports(n)
  BY SeenOnSeen DEF Reports
<1>3. Gone(n) \in SUBSET OwnedBy(n)
  BY DEF Gone
<1>4. dirs \in [Gone(n) -> RunDirs]
  BY DEF Interfaces
<1> HIDE DEF report, dirs
<1>5. Heartbeat(n)
  BY <1>1, <1>2, <1>3, <1>4 DEF Heartbeat
<1> QED
  BY <1>5 DEF Steady, Report

\* What is left of a worker's round is an exit report or none of the control
\* plane's business.
LEMMA RoundRefines ==
  ASSUME Interfaces, NEW n \in Node, Round(n) \/ CallFails(n) \/ WorkerFails(n)
  PROVE  [Steady]_vars
<1>1. ASSUME NEW answered, WorkerBeat(n, answered) PROVE Steady
  BY <1>1, BeatIsHeartbeat
<1>2. ASSUME NEW j \in Job, NEW posted \in BOOLEAN, WorkerReap(n, j, posted) PROVE [Steady]_vars
  <2>1. CASE posted
    <3>1. JobExit(j, ExitOf(proc[n][j].st), NoFiles)
      BY <1>2, <2>1 DEF WorkerReap
    <3> QED
      BY <3>1, ExitOfReports DEF Interfaces, Steady, Report
  <2>2. CASE ~posted
    BY <1>2, <2>2 DEF WorkerReap
  <2> QED
    BY <2>1, <2>2
<1>3. CASE GoLate(n)
  BY <1>3 DEF Steady
<1>4. CASE WorkerApply(n) \/ WorkerSleep(n) \/ BeatLost(n) \/ WorkerRestart(n) \/ PartitionRelease(n)
  BY <1>4 DEF WorkerApply, WorkerSleep, BeatLost, WorkerRestart, PartitionRelease
<1> QED
  BY <1>1, <1>2, <1>3, <1>4 DEF Round, CallFails, WorkerFails

\* A trainer posts metrics, checkpoints and anomalies, or keeps to itself.
LEMMA TrainerRefines ==
  ASSUME NEW n \in Node, NEW j \in Job, Trainer(n, j) \/ BadRun(n, j) \/ PostFails(n, j)
  PROVE  [Steady]_vars
<1>1. ASSUME NEW loss \in BOOLEAN, NEW anomaly \in BOOLEAN, Metrics(j, loss, anomaly) PROVE Steady
  BY <1>1 DEF Steady, Report
<1>2. ASSUME NEW kind \in {"usable", "other"}, CheckpointReport(j, kind) PROVE Steady
  BY <1>2 DEF Steady, Report
<1>3. CASE Anomaly(j)
  BY <1>3 DEF Steady, Report
<1>4. CASE TrainerCrash(n, j)
  BY <1>4 DEF TrainerCrash
<1>5. CASE TrainerStep(n, j) \/ TrainerSave(n, j)
  BY <1>1, <1>2, <1>5 DEF TrainerStep, TrainerSave
<1>6. ASSUME NEW posted \in BOOLEAN, TrainerFinish(n, j, posted) \/ Leaves(n, j, posted)
      PROVE  [Steady]_vars
  BY <1>2, <1>3, <1>6
  DEF TrainerFinish, Leaves, TrainerLeave, TrainerSaveFailure, TrainerGiveUp, Sent
<1>7. ASSUME NEW loss \in BOOLEAN, NEW posted \in BOOLEAN, TrainerAnomaly(n, j, loss, posted)
      PROVE  [Steady]_vars
  BY <1>1, <1>7 DEF TrainerAnomaly, Sent
<1> QED
  BY <1>4, <1>5, <1>6, <1>7 DEF Trainer, BadRun, PostFails

\* A forgotten trainer is the trainer of some job.
StraysHaveJobs == \A x \in strays : x.job \in Job

\* Forgotten trainers post like the others.
LEMMA StraysRefine ==
  ASSUME StraysHaveJobs, Strays
  PROVE  [Steady]_vars
<1>1. ASSUME NEW x \in strays, StrayPosts(x) PROVE Steady
  <2>1. x.job \in Job
    BY DEF StraysHaveJobs
  <2> QED
    BY <1>1, <2>1 DEF StrayPosts, Steady, Report
<1>2. ASSUME NEW x \in strays, StrayEnds(x) PROVE UNCHANGED vars
  BY <1>2 DEF StrayEnds
<1> QED
  BY <1>1, <1>2 DEF Strays

\* Only jobs' trainers are ever forgotten.
LEMMA StraysStay ==
  ASSUME StraysHaveJobs, [PlatformNext]_allVars
  PROVE  StraysHaveJobs'
<1>1. \A n : \A signalled : \A x \in Forgotten(n, signalled) : x.job \in Job
  BY DEF Forgotten
<1>2. ASSUME NEW n \in Node, Round(n) \/ CallFails(n)
      PROVE  strays' = strays
  BY <1>2 DEF Round, CallFails, WorkerBeat, WorkerApply, WorkerSleep, WorkerReap, BeatLost
<1>3. ASSUME NEW n \in Node, WorkerFails(n)
      PROVE  StraysHaveJobs'
  <2>1. CASE WorkerRestart(n) \/ PartitionRelease(n)
    BY <1>1, <2>1 DEF WorkerRestart, PartitionRelease, StraysHaveJobs
  <2>2. CASE UNCHANGED sideVars
    BY <2>2 DEF sideVars, StraysHaveJobs
  <2> QED
    BY <1>3, <2>1, <2>2 DEF WorkerFails
<1>4. ASSUME NEW n \in Node, NEW j \in Job, Trainer(n, j) \/ BadRun(n, j) \/ PostFails(n, j)
      PROVE  strays' = strays
  BY <1>4
  DEF Trainer, BadRun, PostFails, Leaves, TrainerStep, TrainerSave, TrainerFinish, TrainerLeave,
      TrainerSaveFailure, TrainerGiveUp, TrainerCrash, TrainerAnomaly, sideVars
<1>5. ASSUME Strays
      PROVE  StraysHaveJobs'
  BY <1>5 DEF Strays, StrayPosts, StrayEnds, sideVars, StraysHaveJobs
<1>6. CASE UNCHANGED sideVars
  BY <1>6 DEF sideVars, StraysHaveJobs
<1>7. ASSUME People
      PROVE  strays' = strays
  BY <1>7 DEF People, Arrive, Depart
<1>8. CASE PlatformNext
  BY <1>2, <1>3, <1>4, <1>5, <1>6, <1>7, <1>8 DEF PlatformNext, Cooled, StraysHaveJobs
<1>9. CASE UNCHANGED allVars
  BY <1>6, <1>9 DEF allVars
<1> QED
  BY <1>8, <1>9

\* The platform's steps but for a job that passes its wall-clock limit.
SteadyPlatform ==
  \/ \E n \in Node : Round(n) \/ CallFails(n) \/ WorkerFails(n)
  \/ \E n \in Node, j \in Job : Trainer(n, j) \/ BadRun(n, j) \/ PostFails(n, j)
  \/ \E j \in Job : Cooled(j)
  \/ Strays \/ People
  \/ (Operate \/ Restart) /\ UNCHANGED sideVars

\* Each of them is such a step of the control plane or none.
LEMMA SteadyRefines ==
  ASSUME Interfaces, StraysHaveJobs, [SteadyPlatform]_allVars
  PROVE  [Steady]_vars
<1>1. CASE \E n \in Node : Round(n) \/ CallFails(n) \/ WorkerFails(n)
  BY <1>1, RoundRefines
<1>2. CASE \E n \in Node, j \in Job : Trainer(n, j) \/ BadRun(n, j) \/ PostFails(n, j)
  BY <1>2, TrainerRefines
<1>3. ASSUME NEW j \in Job, Cooled(j)
      PROVE  Steady
  BY <1>3 DEF Steady, Cooled
<1>4. CASE Strays
  BY <1>4, StraysRefine
<1>5. CASE People
  BY <1>5 DEF People, Arrive, Depart
<1>6. CASE Operate \/ Restart
  BY <1>6 DEF Steady
<1>7. CASE UNCHANGED allVars
  BY <1>7 DEF allVars
<1> QED
  BY <1>1, <1>2, <1>3, <1>4, <1>5, <1>6, <1>7 DEF SteadyPlatform

\* Every step of the platform is a step of the control plane or none.
LEMMA StepRefines ==
  ASSUME Interfaces, StraysHaveJobs, [PlatformNext]_allVars
  PROVE  [Next]_vars
<1>1. CASE [SteadyPlatform]_allVars
  BY <1>1, SteadyRefines DEF Steady, Next, Clock
<1>2. ASSUME NEW j \in Job, RunOut(j)
      PROVE  Next
  BY <1>2 DEF Next, Clock
<1> QED
  BY <1>1, <1>2 DEF PlatformNext, SteadyPlatform

------------------------------------------------------------------------------
(* Queues of orders.  What a worker makes of a queue is a recursion on it, so  *)
(* what holds of it takes an induction, which is stated for sets here.        *)

\* A set with 0 in it, and with the successor of each of its members, holds every natural.
LEMMA NatSets ==
  ASSUME NEW T, 0 \in T, \A n \in Nat : n \in T => n + 1 \in T
  PROVE  Nat \subseteq T
<1> DEFINE R == OpToRel(<, Nat)
<1> SUFFICES ASSUME Nat \ T # {} PROVE FALSE
  OBVIOUS
<1>1. \E x \in Nat \ T : \A y \in Nat \ T : ~(<<y, x>> \in R)
  <2> HIDE DEF R
  <2>1. IsWellFoundedOn(R, Nat)
    BY NatLessThanWellFounded DEF R
  <2> QED
    BY <2>1, WFMin
<1>2. PICK x \in Nat \ T : \A y \in Nat \ T : ~(<<y, x>> \in R)
  BY <1>1
<1>3. x \in Nat /\ x # 0 /\ x - 1 \in Nat /\ (x - 1) + 1 = x
  OBVIOUS
<1>4. <<x - 1, x>> \in R
  BY <1>2, <1>3 DEF OpToRel
<1>5. x - 1 \in T
  BY <1>2, <1>3, <1>4
<1> QED
  BY <1>2, <1>3, <1>5

\* The recursion by which orders are taken is well defined.
LEMMA ObeyingDefined ==
  ASSUME NEW p, NEW queue \in Seq(Action)
  PROVE  \E f : f = [i \in 0..Len(queue) |-> IF i = 0 THEN p ELSE Obey(f[i - 1], queue[i])]
<1> DEFINE Upto(k, f) == f = [i \in 0..k |-> IF i = 0 THEN p ELSE Obey(f[i - 1], queue[i])]
           T == {k \in Nat : \E f : Upto(k, f)}
<1>1. 0 \in T
  <2>1. Upto(0, [i \in 0..0 |-> p])
    OBVIOUS
  <2> QED
    BY <2>1
<1>2. ASSUME NEW k \in Nat, k \in T
      PROVE  k + 1 \in T
  <2>1. PICK f : Upto(k, f)
    BY <1>2
  <2> DEFINE h == [i \in 0..(k + 1) |-> IF i = k + 1 THEN Obey(f[k], queue[k + 1]) ELSE f[i]]
  <2>2. \A i \in 0..k : h[i] = f[i] /\ f[i] = IF i = 0 THEN p ELSE Obey(f[i - 1], queue[i])
    BY <2>1
  <2>3. \A i \in 0..(k + 1) : h[i] = IF i = 0 THEN p ELSE Obey(h[i - 1], queue[i])
    <3> SUFFICES ASSUME NEW i \in 0..(k + 1) PROVE h[i] = IF i = 0 THEN p ELSE Obey(h[i - 1], queue[i])
      OBVIOUS
    <3>1. CASE i = k + 1
      <4>1. h[i] = Obey(f[k], queue[i]) /\ h[i - 1] = f[k] /\ i # 0
        BY <3>1, <2>2
      <4> HIDE DEF h
      <4> QED BY <4>1
    <3>2. CASE i \in 1..k
      <4>1. i - 1 \in 0..k /\ i \in 0..k /\ i # 0
        BY <3>2
      <4>2. h[i] = f[i] /\ h[i - 1] = f[i - 1] /\ f[i] = Obey(f[i - 1], queue[i])
        BY <2>2, <4>1
      <4> HIDE DEF h
      <4> QED
        BY <4>1, <4>2
    <3>3. CASE i = 0
      <4> HIDE DEF h
      <4>1. i \in 0..k
        BY <3>3
      <4>2. h[i] = f[i] /\ f[i] = p
        BY <2>2, <3>3, <4>1
      <4> QED
        BY <3>3, <4>2
    <3> QED
      BY <3>1, <3>2, <3>3
  <2>4. h = [i \in 0..(k + 1) |-> h[i]]
    OBVIOUS
  <2> HIDE DEF h
  <2>5. Upto(k + 1, h)
    BY <2>3, <2>4
  <2> QED
    BY <2>5
<1> HIDE DEF T
<1>3. Len(queue) \in T
  BY <1>1, <1>2, NatSets
<1> QED
  BY <1>3 DEF T

\* What no order leads out of, no queue leads out of.
LEMMA ObeyingStays ==
  ASSUME NEW S, NEW p \in S, NEW queue \in Seq(Action),
         \A x \in S : \A i \in 1..Len(queue) : Obey(x, queue[i]) \in S
  PROVE  Obeying(p, queue) \in S
<1> DEFINE after[i \in 0..Len(queue)] == IF i = 0 THEN p ELSE Obey(after[i - 1], queue[i])
           T == {k \in Nat : k \in 0..Len(queue) => after[k] \in S}
<1>1. after = [i \in 0..Len(queue) |-> IF i = 0 THEN p ELSE Obey(after[i - 1], queue[i])]
  BY ObeyingDefined
<1>2. Obeying(p, queue) = after[Len(queue)]
  BY DEF Obeying
<1> HIDE DEF after
<1>3. 0 \in T
  BY <1>1
<1>4. ASSUME NEW k \in Nat, k \in T
      PROVE  k + 1 \in T
  BY <1>1, <1>4
<1> HIDE DEF T
<1>5. Len(queue) \in T
  BY <1>3, <1>4, NatSets
<1> QED
  BY <1>2, <1>5 DEF T

------------------------------------------------------------------------------
(* The shape of the worker's side.                                           *)

Process   == [st : Living \cup Ended \cup {"none"}, gpus : SUBSET Gpu]
Processes == [Node -> [Job -> Process]]

\* An order makes a process of a process.
LEMMA ObeyShape ==
  ASSUME NEW p \in Process, NEW action \in Action
  PROVE  Obey(p, action) \in Process
<1>1. \A st \in Living \cup Ended : [p EXCEPT !.st = st] \in Process
  BY DEF Process
<1>2. {"up", "asked", "told", "killed"} \subseteq Living \cup Ended
  BY DEF Living, Ended
<1>3. [st |-> "up", gpus |-> action.gpus] \in Process
  BY <1>2 DEF Process, Action
<1> QED
  BY <1>1, <1>2, <1>3 DEF Obey

\* So does a queue of them.
LEMMA ObeyingShape ==
  ASSUME NEW p \in Process, NEW queue \in Seq(Action)
  PROVE  Obeying(p, queue) \in Process
<1>1. \A x \in Process : \A i \in 1..Len(queue) : Obey(x, queue[i]) \in Process
  BY ObeyShape
<1> QED
  BY <1>1, ObeyingStays

\* An empty set of queues.
LEMMA NothingShape == Nothing \in [Job -> Seq(Action)]
BY DEF Nothing

\* A process in another status, and none, are processes.
LEMMA BecomesShape ==
  ASSUME proc \in Processes, NEW n \in Node, NEW j \in Job, NEW st \in Living \cup Ended
  PROVE  /\ [proc EXCEPT ![n][j].st = st] \in Processes
         /\ [proc EXCEPT ![n][j] = NoProc] \in Processes
         /\ [proc EXCEPT ![n] = [k \in Job |-> NoProc]] \in Processes
<1>1. NoProc \in Process
  BY DEF NoProc, Process
<1>2. [proc[n][j] EXCEPT !.st = st] \in Process
  <2>1. proc[n][j] \in Process
    BY DEF Processes
  <2> QED
    BY <2>1 DEF Process
<1>3. [proc EXCEPT ![n][j].st = st] = [proc EXCEPT ![n][j] = [proc[n][j] EXCEPT !.st = st]]
  BY DEF Processes
<1> QED
  BY <1>1, <1>2, <1>3 DEF Processes

\* What a worker's heartbeat hands to the control plane, and the snapshot that it
\* is answered from.
LEMMA BeatResult ==
  ASSUME Interfaces, TypeOK, NEW n \in Node, NEW answered, WorkerBeat(n, answered)
  PROVE  \E report \in Reports(n), dirs \in [Gone(n) -> RunDirs] :
           \E s \in HeartbeatResults(n, report, Gone(n), dirs) :
             /\ s \in Snapshot
             /\ Install(Delivered(s, n))
             /\ inbox' = [inbox EXCEPT ![n] = IF answered THEN s.pending[n] ELSE Nothing]
<1> DEFINE report == [g \in GpusOf(n) |-> SeenOn(g)]
           dirs == [j \in Gone(n) |-> NoFiles]
<1>1. report \in Reports(n)
  BY SeenOnSeen DEF Reports
<1>2. dirs \in [Gone(n) -> RunDirs]
  BY DEF Interfaces
<1>3. PICK s \in HeartbeatResults(n, report, Gone(n), dirs) :
        /\ Install(Delivered(s, n))
        /\ inbox' = [inbox EXCEPT ![n] = IF answered THEN s.pending[n] ELSE Nothing]
  BY DEF WorkerBeat
<1>4. Gone(n) \in SUBSET OwnedBy(n)
  BY DEF Gone
<1> HIDE DEF report, dirs
<1>5. s \in Snapshot
  BY <1>1, <1>2, <1>3, <1>4, HeartbeatCarries
<1> QED
  BY <1>1, <1>2, <1>3, <1>5

\* What a worker forgets are strays.
LEMMA ForgottenShape ==
  ASSUME proc \in Processes, NEW n \in Node, NEW signalled \in BOOLEAN
  PROVE  Forgotten(n, signalled) \in SUBSET [job : Job, gpus : SUBSET Gpu, asked : BOOLEAN]
<1>1. \A k \in Job : proc[n][k].gpus \in SUBSET Gpu
  BY DEF Processes, Process
<1> DEFINE asked(k) == signalled \/ proc[n][k].st # "up"
           stray(k) == [job |-> k, gpus |-> proc[n][k].gpus, asked |-> asked(k)]
<1>2. \A k \in Job : asked(k) \in BOOLEAN
  OBVIOUS
<1>3. Forgotten(n, signalled) = {stray(k) : k \in {j \in Job : Alive(n, j)}}
  BY DEF Forgotten
<1> HIDE DEF asked
<1>4. \A k \in Job : stray(k) \in [job : Job, gpus : SUBSET Gpu, asked : BOOLEAN]
  BY <1>1, <1>2
<1> HIDE DEF stray
<1> QED
  BY <1>3, <1>4

\* No step spoils the shape of the worker's side.
LEMMA PlatformTypeStays ==
  ASSUME Interfaces, TypeOK, PlatformTypeOK, [PlatformNext]_allVars
  PROVE  PlatformTypeOK'
<1> USE DEF PlatformTypeOK
<1>0. proc \in Processes
  BY DEF Processes, Process
<1>00. \A p \in Processes : p \in [Node -> [Job -> [st : Living \cup Ended \cup {"none"}, gpus : SUBSET Gpu]]]
  BY DEF Processes, Process
<1>1. CASE UNCHANGED sideVars
  BY <1>1 DEF sideVars
<1>2. ASSUME NEW n \in Node, NEW answered, WorkerBeat(n, answered)
      PROVE  PlatformTypeOK'
  <2>1. \E queues \in [Job -> Seq(Action)] : inbox' = [inbox EXCEPT ![n] = queues]
    <3>1. PICK s \in Snapshot : inbox' = [inbox EXCEPT ![n] = IF answered THEN s.pending[n] ELSE Nothing]
      BY <1>2, BeatResult
    <3>2. s.pending[n] \in [Job -> Seq(Action)]
      BY DEF Snapshot, Backlogs
    <3> QED
      BY <3>1, <3>2, NothingShape
  <2>2. inbox' \in [Node -> [Job -> Seq(Action)]]
    BY <2>1
  <2> QED
    BY <1>2, <2>2 DEF WorkerBeat
<1>3. ASSUME NEW n \in Node, WorkerApply(n)
      PROVE  PlatformTypeOK'
  <2>1. inbox' \in [Node -> [Job -> Seq(Action)]]
    BY <1>3, NothingShape DEF WorkerApply
  <2>2. \A j \in Job : Obeying(proc[n][j], inbox[n][j]) \in Process
    BY <1>0, ObeyingShape DEF Processes
  <2>3. proc' \in Processes
    BY <1>0, <1>3, <2>2 DEF WorkerApply, Processes
  <2> QED
    BY <1>00, <1>3, <2>1, <2>3 DEF WorkerApply
<1>4. ASSUME NEW n \in Node, BeatLost(n) \/ WorkerSleep(n)
      PROVE  PlatformTypeOK'
  BY <1>4 DEF BeatLost, WorkerSleep
<1>5. ASSUME NEW n \in Node, NEW j \in Job, NEW posted, WorkerReap(n, j, posted)
      PROVE  PlatformTypeOK'
  <2>1. proc' \in Processes
    BY <1>0, <1>5, BecomesShape DEF WorkerReap, Ended
  <2> QED
    BY <1>00, <1>5, <2>1 DEF WorkerReap
<1>6. ASSUME NEW n \in Node, WorkerRestart(n) \/ PartitionRelease(n)
      PROVE  PlatformTypeOK'
  <2>1. proc' \in Processes
    <3>1. NoProc \in Process
      BY DEF NoProc, Process
    <3> QED
      BY <1>0, <1>6, <3>1 DEF WorkerRestart, PartitionRelease, Processes
  <2>2. strays' \in SUBSET [job : Job, gpus : SUBSET Gpu, asked : BOOLEAN]
    BY <1>0, <1>6, ForgottenShape DEF WorkerRestart, PartitionRelease
  <2> QED
    BY <1>00, <1>6, <2>1, <2>2, NothingShape DEF WorkerRestart, PartitionRelease
<1>7. ASSUME NEW n \in Node, WorkerFails(n)
      PROVE  PlatformTypeOK'
  BY <1>1, <1>6, <1>7 DEF WorkerFails
<1>8. ASSUME NEW n \in Node, NEW j \in Job, Trainer(n, j) \/ BadRun(n, j) \/ PostFails(n, j)
      PROVE  PlatformTypeOK'
  <2>1. \/ UNCHANGED sideVars
        \/ /\ \E st \in Living \cup Ended : proc' = [proc EXCEPT ![n][j].st = st]
           /\ UNCHANGED <<phase, inbox, cut, strays, users>>
    BY <1>8
    DEF Trainer, BadRun, PostFails, Leaves, TrainerStep, TrainerSave, TrainerFinish, TrainerLeave,
        TrainerSaveFailure, TrainerGiveUp, TrainerCrash, TrainerAnomaly, Becomes, Living, Ended
  <2>2. ASSUME NEW st \in Living \cup Ended, proc' = [proc EXCEPT ![n][j].st = st],
               UNCHANGED <<phase, inbox, cut, strays, users>>
        PROVE  PlatformTypeOK'
    <3>1. proc' \in Processes
      BY <1>0, <2>2, BecomesShape
    <3> QED
      BY <1>00, <2>2, <3>1
  <2> QED
    BY <1>1, <2>1, <2>2
<1>9. ASSUME Strays
      PROVE  PlatformTypeOK'
  BY <1>1, <1>9 DEF Strays, StrayPosts, StrayEnds
<1>10. ASSUME People
       PROVE  PlatformTypeOK'
  BY <1>10 DEF People, Arrive, Depart
<1>11. CASE UNCHANGED allVars
  BY <1>1, <1>11 DEF allVars
<1> HIDE DEF PlatformTypeOK
<1> QED
  BY <1>1, <1>2, <1>3, <1>4, <1>5, <1>7, <1>8, <1>9, <1>10, <1>11
  DEF PlatformNext, Round, CallFails, Cooled

------------------------------------------------------------------------------

\* The platform implements the control plane's specification: workers, trainers
\* and people do nothing to the control plane that Control does not foresee.
THEOREM PlatformImplementsControl ==
  ASSUME Interfaces
  PROVE  PlatformSpec => Spec
<1>1. PlatformInit => Init /\ StraysHaveJobs
  BY DEF PlatformInit, StraysHaveJobs
<1>2. StraysHaveJobs /\ [PlatformNext]_allVars => StraysHaveJobs' /\ [Next]_vars
  BY StraysStay, StepRefines
<1> QED
  BY <1>1, <1>2, PTL DEF PlatformSpec, Spec

\* So what holds of the control plane's records holds on the whole platform.
THEOREM PlatformExclusivity ==
  ASSUME Interfaces, Limited = {}
  PROVE  PlatformSpec => []NoDoubleAllocation
BY PlatformImplementsControl, Exclusivity, PTL

\* Workers' tables, inboxes and strays always have the shape the code gives them.
THEOREM PlatformTypes ==
  ASSUME Interfaces
  PROVE  PlatformSpec => []PlatformTypeOK
<1>1. PlatformInit => PlatformTypeOK
  <2>1. NoProc \in [st : Living \cup Ended \cup {"none"}, gpus : SUBSET Gpu]
    BY DEF NoProc
  <2> QED
    BY <2>1, NothingShape DEF PlatformInit, PlatformTypeOK
<1>2. TypeOK /\ PlatformTypeOK /\ [PlatformNext]_allVars => PlatformTypeOK'
  BY PlatformTypeStays
<1>3. PlatformSpec => []TypeOK
  BY PlatformImplementsControl, TypeCorrect, PTL
<1> QED
  BY <1>1, <1>2, <1>3, PTL DEF PlatformSpec

==============================================================================
