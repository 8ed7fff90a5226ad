---------------------------- MODULE ThreadsProofs ----------------------------
(***************************************************************************)
(* What holds of the control plane's threads as long as one worker and its  *)
(* trainers are the only clients, for any number of jobs and devices and    *)
(* any interleaving of their requests.                                      *)
(***************************************************************************)
EXTENDS MCThreads, PlatformProofs

\* The threads that serve the worker and the trainer of a job.
Desk     == <<"worker", n1>>
Bench(j) == <<"trainer", j>>

\* The records of jobs that no wall-clock limit has caught up with.
Records == {r \in JobRecord : ~r.overdue}

------------------------------------------------------------------------------
(* The invariant, on lists of steps and records.  Only the trainer of a job   *)
(* writes its record while the worker does, so what counts is the record that *)
(* the worker's thread leaves in the end.                                     *)

\* The record of a job that has a trainer on G, that waits for one there, that has
\* none, and of a job whose exit has been taken: it may not start anew at once.
Runs(r, G)  == r.state \in ActiveStates /\ r.gpus = G /\ r.node = n1
Waits(r, G) == r.state \in {"SCHEDULED", "RESUMING"} /\ r.gpus = G /\ r.node = n1
Off(r)      == r.state \in {"NONE", "PENDING", "QUEUED", "COMPLETED", "FAILED"} /\ r.gpus = {}
Rests(r)    == /\ r.state \in {"QUEUED", "COMPLETED", "FAILED"} /\ r.gpus = {}
               /\ r.state = "QUEUED" => r.cooldown = "running"

\* Where a list writes the record of j.
Writes(L, j) == {i \in DOMAIN L : L[i].do = "put_job" /\ L[i].job = j}

\* The list L leaves r in the place of j's record, which is r0 before it.
Outcome(L, r0, j, r) ==
  \/ Writes(L, j) = {} /\ r = r0
  \/ \E i \in Writes(L, j) : L[i].as = r /\ \A k \in Writes(L, j) : k <= i

\* An exit of j is on its way.
Ending(L, j) == \E i \in DOMAIN L : L[i].do \in {"exit", "requeue"} /\ L[i].job = j

\* What a list keeps to about one job: its record will be that of its living
\* trainer, or of its dead one until the exit is taken, or of no trainer.
Life(L, T, r0, p, j) ==
  /\ p.st \in Living =>
       /\ Runs(r0, p.gpus)
       /\ \A i \in Writes(L, j) : Runs(L[i].as, p.gpus)
       /\ \A i \in Writes(T, j) : Runs(T[i].as, p.gpus)
       /\ ~Ending(L, j)
  /\ p.st \notin Living => T = <<>>
  /\ p.st \in Ended => \A r \in Records : Outcome(L, r0, j, r) => Runs(r, p.gpus) \/ Rests(r)
  /\ p.st = "none" => \A r \in Records : Outcome(L, r0, j, r) =>
       Off(r) \/ Waits(r, r.gpus) \/ (Ending(L, j) /\ Runs(r, r.gpus))

\* No two jobs will be active on one device.
Apart(L, J) ==
  \A j, k \in Job : \A r, q \in Records :
    /\ j # k /\ Outcome(L, J[j], j, r) /\ Outcome(L, J[k], k, q)
    /\ r.state \in ActiveStates /\ q.state \in ActiveStates
    => r.gpus \cap q.gpus = {}

\* Job k will be active on device g.
WillHold(L, r0, k, g) ==
  \A r \in Records : Outcome(L, r0, k, r) => r.state \in ActiveStates /\ g \in r.gpus

\* The claim of k to device g is about to be dropped.
Freeing(L, k, g) ==
  \E i \in DOMAIN L :
    \/ L[i].do = "release" /\ L[i].job = k
    \/ L[i].do = "put_gpu" /\ L[i].gpu = g /\ L[i].as.job = NoJob

\* A device's claim is its job's, or is about to be dropped; a claim on its way
\* is its job's.
Claimed(L, J, G) ==
  /\ \A g \in Gpu : G[g].job # NoJob =>
       WillHold(L, J[G[g].job], G[g].job, g) \/ Freeing(L, G[g].job, g)
  /\ \A i \in DOMAIN L :
       /\ L[i].do = "put_gpu" /\ L[i].as.job # NoJob =>
            WillHold(L, J[L[i].as.job], L[i].as.job, L[i].gpu)
       /\ L[i].do = "claim" => \A g \in L[i].gpus : WillHold(L, J[L[i].job], L[i].job, g)

\* The kinds of steps in the list of the worker's thread.
Plain == {"put_job", "put_gpu", "queue", "release", "claim", "preempt"}
Kinds == Plain \cup {"pass", "decide", "exit", "sync", "requeue", "refresh", "reconcile", "answer"}

\* What may come after a step: a round refreshes the devices, then ends the jobs
\* found gone, then makes a pass, and then answers.
May(do) ==
  IF do \in Plain THEN Kinds \ {"decide"}
  ELSE IF do = "refresh" THEN {"refresh", "reconcile", "pass", "answer"}
  ELSE IF do = "reconcile" THEN {"pass", "answer"}
  ELSE IF do \in {"exit", "requeue", "sync"} THEN {"exit", "pass", "answer"}
  ELSE IF do = "answer" THEN {} ELSE {"answer"}

InOrder(L) == \A i, k \in DOMAIN L : i < k => L[k].do \in May(L[i].do)

\* What a pass listed is what is on record, but for what trainers wrote since.
Alike(r, q) == r = q \/ \E G \in SUBSET Gpu : Runs(r, G) /\ Runs(q, G)

\* What the worker listed still holds of its processes, and what a pass listed of
\* the records: nothing else of the list comes in between.
Current(L, J, X) ==
  \A i \in DOMAIN L :
    /\ L[i].do = "reconcile" => \A j \in Job :
         /\ L[i].procs[j] = "dead" => X[j].st \in Ended
         /\ L[i].procs[j] = "none" => X[j].st = "none"
    /\ L[i].do = "decide" => \A j \in Job : Alike(L[i].jobs[j], J[j])

\* An order to start goes to no process, for the placement on record.
Fair(a, L, r0, p, j) ==
  /\ a.kind \in {"START", "PREEMPT"}
  /\ a.kind = "START" =>
       /\ p.st = "none" /\ ~Ending(L, j)
       /\ \A r \in Records : Outcome(L, r0, j, r) => Waits(r, a.gpus)

\* So are the orders in a queue, and those that are about to be queued.
Orderly(L, J, X, Q) == \A j \in Job : \A i \in DOMAIN Q[j] : Fair(Q[j][i], L, J[j], X[j], j)
Sending(L, J, X) ==
  \A i \in DOMAIN L :
    L[i].do = "queue" => Fair(L[i].action, L, J[L[i].job], X[L[i].job], L[i].job)

------------------------------------------------------------------------------
(* The steps of the worker's thread, and those of a trainer's.               *)

\* Those of the worker's thread.
WorkStep ==
  [do : {"put_job"}, job : Job, as : Records]
    \cup [do : {"put_gpu"}, gpu : Gpu, as : GpuRecord]
    \cup [do : {"queue"}, node : Node \cup {NoNode}, job : Job, action : Action]
    \cup [do : {"claim"}, job : Job, gpus : SUBSET Gpu]
    \cup [do : {"release", "preempt", "sync", "requeue"}, job : Job]
    \cup [do : {"exit"}, job : Job, exit : ExitReport]
    \cup [do : {"pass"}] \cup [do : {"decide"}, jobs : [Job -> Records]]
    \cup [do : {"refresh"}, gpu : Gpu, seen : {"AVAILABLE", "TROIANI", "RESEARCHER"}]
    \cup [do : {"reconcile"}, node : Node, procs : [Job -> {"alive", "dead", "none"}]]
    \cup [do : {"answer"}, node : Node]

\* Those of the thread of j's trainer.
TrainStep(j) ==
  [do : {"put_job"}, job : {j}, as : Records]
    \cup [do : {"metric", "checkpoint", "point"}, job : {j}]

\* What the steps of the worker's thread carry.
LEMMA StepShape ==
  ASSUME NEW x \in WorkStep
  PROVE  /\ x.do \in Kinds
         /\ x.do = "put_job" => x.job \in Job /\ x.as \in Records
         /\ x.do = "put_gpu" => x.gpu \in Gpu /\ x.as \in GpuRecord
         /\ x.do = "queue" => x.node \in Node \cup {NoNode} /\ x.job \in Job /\ x.action \in Action
         /\ x.do = "claim" => x.job \in Job /\ x.gpus \in SUBSET Gpu
         /\ x.do \in {"release", "preempt", "sync", "requeue", "exit"} => x.job \in Job
         /\ x.do = "exit" => x.exit \in ExitReport
         /\ x.do = "decide" => x.jobs \in [Job -> Records]
         /\ x.do = "refresh" => x.gpu \in Gpu /\ x.seen \in {"AVAILABLE", "TROIANI", "RESEARCHER"}
         /\ x.do = "reconcile" => x.node \in Node /\ x.procs \in [Job -> {"alive", "dead", "none"}]
         /\ x.do = "answer" => x.node \in Node
BY DEF WorkStep, Kinds, Plain

\* The steps a handler leaves are steps.
LEMMA StepsMade ==
  /\ \A j \in Job, r \in Records : Put(j, r) \in WorkStep /\ Put(j, r) \in TrainStep(j)
  /\ \A g \in Gpu, r \in GpuRecord : PutGpu(g, r) \in WorkStep
  /\ \A j \in Job : \A what \in {"release", "preempt", "sync", "requeue"} : Of(what, j) \in WorkStep
  /\ \A j \in Job : \A what \in {"metric", "checkpoint", "point"} : Of(what, j) \in TrainStep(j)
  /\ \A n \in Node \cup {NoNode}, j \in Job, a \in Action : Queue(n, j, a) \in WorkStep
<1>1. \A j \in Job, r \in Records : Put(j, r) \in WorkStep /\ Put(j, r) \in TrainStep(j)
  BY DEF Put, WorkStep, TrainStep
<1>2. \A g \in Gpu, r \in GpuRecord : PutGpu(g, r) \in WorkStep
  BY DEF PutGpu, WorkStep
<1>3. \A j \in Job : \A what \in {"release", "preempt", "sync", "requeue"} :
        Of(what, j) \in WorkStep
  BY DEF Of, WorkStep
<1>4. \A j \in Job : \A what \in {"metric", "checkpoint", "point"} : Of(what, j) \in TrainStep(j)
  BY DEF Of, TrainStep
<1>5. \A n \in Node \cup {NoNode}, j \in Job, a \in Action : Queue(n, j, a) \in WorkStep
  BY DEF Queue, WorkStep
<1> QED
  BY <1>1, <1>2, <1>3, <1>4, <1>5

\* What a step made so carries.
LEMMA StepFields ==
  /\ \A j, r : Put(j, r).do = "put_job" /\ Put(j, r).job = j /\ Put(j, r).as = r
  /\ \A g, r : PutGpu(g, r).do = "put_gpu" /\ PutGpu(g, r).gpu = g /\ PutGpu(g, r).as = r
  /\ \A what, j : Of(what, j).do = what /\ Of(what, j).job = j
  /\ \A n, j, a : /\ Queue(n, j, a).do = "queue" /\ Queue(n, j, a).node = n
                  /\ Queue(n, j, a).job = j /\ Queue(n, j, a).action = a
BY DEF Put, PutGpu, Of, Queue

\* What is left of a list when steps take the place of its first.
LEMMA Spliced ==
  ASSUME NEW S, NEW L \in Seq(S), L # <<>>, NEW M \in Seq(S), NEW N, N = M \o Tail(L)
  PROVE  /\ N \in Seq(S) /\ DOMAIN N \subseteq Nat \ {0}
         /\ \A i \in DOMAIN M : i \in DOMAIN N /\ N[i] = M[i]
         /\ \A b \in DOMAIN L : b # 1 =>
              Len(M) + b - 1 \in DOMAIN N /\ N[Len(M) + b - 1] = L[b]
         /\ \A i \in DOMAIN N :
              \/ i \in DOMAIN M
              \/ i > Len(M) /\ i - Len(M) + 1 \in DOMAIN L /\ i - Len(M) + 1 # 1
         /\ 1 \in DOMAIN L /\ Head(L) = L[1] /\ Head(L) \in S
         /\ Len(M) \in Nat /\ DOMAIN L \subseteq Nat \ {0} /\ DOMAIN M = 1..Len(M)
OBVIOUS

\* What a list has at a place is a step.
LEMMA Element ==
  ASSUME NEW S, NEW L \in Seq(S), NEW i \in DOMAIN L
  PROVE  L[i] \in S
OBVIOUS

\* Writes are places in the list.
LEMMA WritesRange ==
  ASSUME NEW S, NEW L \in Seq(S), NEW j
  PROVE  /\ Writes(L, j) \subseteq DOMAIN L
         /\ Writes(L, j) \subseteq 1..Len(L)
         /\ Writes(L, j) \subseteq Nat
<1>1. Writes(L, j) \subseteq DOMAIN L
  BY DEF Writes
<1>2. DOMAIN L = 1..Len(L)
  OBVIOUS
<1> QED
  BY <1>1, <1>2

------------------------------------------------------------------------------
(* Lists of steps, and the record they leave.                               *)

\* A list without writes of j leaves j's record as it is.
LEMMA UnwrittenOutcome ==
  ASSUME NEW L, NEW j, Writes(L, j) = {}, NEW r0, NEW r
  PROVE  Outcome(L, r0, j, r) <=> r = r0
BY DEF Outcome

\* A list leaves some record.
LEMMA SomeOutcome ==
  ASSUME NEW L \in Seq(WorkStep), NEW j, NEW r0 \in Records
  PROVE  \E r \in Records : Outcome(L, r0, j, r)
<1>1. CASE Writes(L, j) = {}
  BY <1>1 DEF Outcome
<1>2. CASE Writes(L, j) # {}
  <2> DEFINE T == {n \in Nat : \A k \in Writes(L, j) : n <= Len(L) => k <= Len(L) - n}
  <2>0. Writes(L, j) \subseteq 1..Len(L)
    BY WritesRange
  <2>1. 0 \in T
    BY <2>0
  <2>2. \E n \in Nat : n \in T /\ n + 1 \notin T
    <3> SUFFICES ASSUME \A n \in Nat : n \in T => n + 1 \in T
                 PROVE  FALSE
      OBVIOUS
    <3> HIDE DEF T
    <3>1. Len(L) \in T
      BY <2>1, NatSets
    <3> QED
      BY <1>2, <2>0, <3>1 DEF T
  <2>3. PICK n \in Nat : n \in T /\ n + 1 \notin T
    BY <2>2
  <2>4. PICK k \in Writes(L, j) : n + 1 <= Len(L) /\ ~(k <= Len(L) - (n + 1))
    BY <2>3
  <2>5. \A i \in Writes(L, j) : i <= k
    BY <2>0, <2>3, <2>4
  <2>6. L[k] \in WorkStep /\ L[k].do = "put_job"
    <3> HIDE DEF T
    <3>1. k \in DOMAIN L /\ L[k].do = "put_job"
      BY <2>4 DEF Writes
    <3> QED
      BY <3>1, Element
  <2> QED
    BY <2>4, <2>5, <2>6, StepShape DEF Outcome
<1> QED
  BY <1>1, <1>2

\* Steps that have nothing to do with j's record or its end.
Silent(x, j) == x.do \in {"put_job", "exit", "requeue"} => x.job # j

\* The writes of j in N are those of M and those of L from its second step on.
WritesShift(L, M, N, j) ==
  /\ \A i \in DOMAIN M : i \in Writes(N, j) <=> i \in Writes(M, j)
  /\ \A b \in DOMAIN L : b # 1 => (Len(M) + b - 1 \in Writes(N, j) <=> b \in Writes(L, j))
  /\ \A i \in Writes(N, j) :
       \/ i \in Writes(M, j) /\ N[i] = M[i]
       \/ /\ i > Len(M) /\ i - Len(M) + 1 # 1
          /\ i - Len(M) + 1 \in Writes(L, j) /\ N[i] = L[i - Len(M) + 1]

\* The writes of j after a splice.
LEMMA SplicedWrites ==
  ASSUME NEW S, NEW L \in Seq(S), L # <<>>, NEW M \in Seq(S), NEW N, N = M \o Tail(L), NEW j
  PROVE  WritesShift(L, M, N, j)
<1>1. /\ \A i \in DOMAIN M : i \in DOMAIN N /\ N[i] = M[i]
      /\ \A b \in DOMAIN L : b # 1 => Len(M) + b - 1 \in DOMAIN N /\ N[Len(M) + b - 1] = L[b]
      /\ \A i \in DOMAIN N :
           \/ i \in DOMAIN M
           \/ i > Len(M) /\ i - Len(M) + 1 \in DOMAIN L /\ i - Len(M) + 1 # 1
      /\ DOMAIN N \subseteq Nat \ {0} /\ Len(M) \in Nat
  BY Spliced
<1>4. \A i \in DOMAIN M : i \in Writes(N, j) <=> i \in Writes(M, j)
  BY <1>1 DEF Writes
<1>5. \A b \in DOMAIN L : b # 1 => (Len(M) + b - 1 \in Writes(N, j) <=> b \in Writes(L, j))
  BY <1>1 DEF Writes
<1>6. ASSUME NEW i \in Writes(N, j)
      PROVE  \/ i \in Writes(M, j) /\ N[i] = M[i]
             \/ /\ i > Len(M) /\ i - Len(M) + 1 # 1
                /\ i - Len(M) + 1 \in Writes(L, j) /\ N[i] = L[i - Len(M) + 1]
  <2>1. i \in DOMAIN N
    BY DEF Writes
  <2>2. CASE i \in DOMAIN M
    BY <1>1, <1>4, <2>2
  <2>3. CASE i > Len(M) /\ i - Len(M) + 1 \in DOMAIN L /\ i - Len(M) + 1 # 1
    <3>1. Len(M) + (i - Len(M) + 1) - 1 = i
      BY <1>1, <2>1
    <3>2. N[i] = L[i - Len(M) + 1]
      BY <1>1, <2>3, <3>1
    <3>3. i - Len(M) + 1 \in Writes(L, j)
      BY <1>5, <2>3, <3>1
    <3> QED
      BY <2>3, <3>2, <3>3
  <2> QED
    BY <1>1, <2>1, <2>2, <2>3
<1> QED
  BY <1>4, <1>5, <1>6 DEF WritesShift

\* When steps take the place of a first step that does not write j, what is left of
\* j's record is what it was, or what the new steps make of it.
LEMMA SplicedOutcome ==
  ASSUME NEW S, NEW L \in Seq(S), L # <<>>, NEW M \in Seq(S), NEW N, N = M \o Tail(L), NEW j,
         1 \notin Writes(L, j), NEW r0, NEW r
  PROVE  /\ Writes(L, j) # {} => (Outcome(N, r0, j, r) <=> Outcome(L, r0, j, r))
         /\ Writes(L, j) = {} => (Outcome(N, r0, j, r) <=> Outcome(M, r0, j, r))
<1> DEFINE w == Writes(N, j)
           l == Writes(L, j)
           m == Writes(M, j)
           at(b) == Len(M) + b - 1
<1>1. /\ \A i \in DOMAIN M : i \in w <=> i \in m
      /\ \A b \in DOMAIN L : b # 1 => (at(b) \in w <=> b \in l)
      /\ \A i \in w :
           \/ i \in m /\ N[i] = M[i]
           \/ /\ i > Len(M) /\ i - Len(M) + 1 # 1
              /\ i - Len(M) + 1 \in l /\ N[i] = L[i - Len(M) + 1]
  <2>1. WritesShift(L, M, N, j)
    BY SplicedWrites
  <2> QED
    BY <2>1 DEF WritesShift
<1>2. /\ \A i \in DOMAIN M : N[i] = M[i]
      /\ \A b \in DOMAIN L : b # 1 => N[at(b)] = L[b]
      /\ Len(M) \in Nat /\ DOMAIN L \subseteq Nat \ {0} /\ DOMAIN M = 1..Len(M) /\ N \in Seq(S)
  BY Spliced
<1>3. l \subseteq DOMAIN L \ {1} /\ m \subseteq DOMAIN M /\ w \subseteq Nat
  BY <1>2, WritesRange
<1>o1. Outcome(N, r0, j, r) <=>
         (w = {} /\ r = r0) \/ \E i \in w : N[i].as = r /\ \A k \in w : k <= i
  BY DEF Outcome
<1>o2. Outcome(L, r0, j, r) <=>
         (l = {} /\ r = r0) \/ \E i \in l : L[i].as = r /\ \A k \in l : k <= i
  BY DEF Outcome
<1>o3. Outcome(M, r0, j, r) <=>
         (m = {} /\ r = r0) \/ \E i \in m : M[i].as = r /\ \A k \in m : k <= i
  BY DEF Outcome
<1>4. w = Writes(N, j) /\ l = Writes(L, j)
  OBVIOUS
<1> HIDE DEF w, l, m
<1>5. \A b \in l : /\ b \in Nat /\ b > 1 /\ at(b) - Len(M) + 1 = b /\ at(b) > Len(M)
                   /\ at(b) \in w /\ N[at(b)] = L[b]
  <2> SUFFICES ASSUME NEW b \in l
               PROVE  /\ b \in Nat /\ b > 1 /\ at(b) - Len(M) + 1 = b /\ at(b) > Len(M)
                      /\ at(b) \in w /\ N[at(b)] = L[b]
    OBVIOUS
  <2>1. b \in DOMAIN L /\ b # 1
    BY <1>3
  <2>2. b \in Nat /\ b > 1 /\ at(b) - Len(M) + 1 = b /\ at(b) > Len(M)
    BY <1>2, <2>1
  <2>3. at(b) \in w /\ N[at(b)] = L[b]
    BY <1>1, <1>2, <2>1
  <2> QED
    BY <2>2, <2>3
<1>6. CASE l # {}
  <2>1. ASSUME NEW i \in w, \A k \in w : k <= i
        PROVE  i - Len(M) + 1 \in l /\ N[i] = L[i - Len(M) + 1] /\ \A k \in l : k <= i - Len(M) + 1
    <3>1. PICK b \in l : TRUE
      BY <1>6
    <3>2. at(b) <= i
      BY <1>5, <2>1
    <3>3. i \notin m
      BY <1>2, <1>3, <1>5, <3>2
    <3>4. i - Len(M) + 1 \in l /\ N[i] = L[i - Len(M) + 1]
      BY <1>1, <3>3
    <3>5. \A k \in l : at(k) <= i
      BY <1>5, <2>1
    <3>6. \A k \in l : k <= i - Len(M) + 1
      BY <1>2, <1>3, <1>5, <3>5
    <3> QED
      BY <3>4, <3>6
  <2>2. ASSUME NEW b \in l, \A k \in l : k <= b
        PROVE  at(b) \in w /\ N[at(b)] = L[b] /\ \A k \in w : k <= at(b)
    <3>1. ASSUME NEW k \in w
          PROVE  k <= at(b)
      <4>1. CASE k \in m
        BY <1>2, <1>3, <1>5, <4>1
      <4>2. CASE k - Len(M) + 1 \in l
        <5>1. k - Len(M) + 1 <= b
          BY <2>2, <4>2
        <5> QED
          BY <1>2, <1>3, <1>5, <5>1
      <4> QED
        BY <1>1, <4>1, <4>2
    <3> QED
      BY <1>5, <3>1
  <2>3. w # {}
    BY <1>5, <1>6
  <2>4. Outcome(N, r0, j, r) => Outcome(L, r0, j, r)
    BY <1>o1, <1>o2, <2>1, <2>3
  <2>5. Outcome(L, r0, j, r) => Outcome(N, r0, j, r)
    BY <1>6, <1>o1, <1>o2, <2>2
  <2> QED
    BY <1>4, <1>6, <2>4, <2>5
<1>7. CASE l = {}
  <2>1. w = m /\ \A i \in m : N[i] = M[i]
    BY <1>1, <1>2, <1>3, <1>7
  <2> QED
    BY <1>4, <1>7, <2>1, <1>o1, <1>o3
<1> QED
  BY <1>6, <1>7

\* An empty list writes nothing.
LEMMA EmptyWrites == \A j : Writes(<<>>, j) = {}
BY DEF Writes

\* A write that is made leaves what it was going to leave.
LEMMA WrittenOutcome ==
  ASSUME NEW S, NEW L \in Seq(S), L # <<>>, NEW j, 1 \in Writes(L, j), NEW r0, NEW r,
         Outcome(Tail(L), L[1].as, j, r)
  PROVE  Outcome(L, r0, j, r)
<1>0. Tail(L) = <<>> \o Tail(L) /\ <<>> \in Seq(S) /\ Len(<<>>) = 0
  OBVIOUS
<1>1. PICK N : N = Tail(L)
  OBVIOUS
<1>2. /\ \A b \in DOMAIN L : b # 1 => (Len(<<>>) + b - 1 \in Writes(N, j) <=> b \in Writes(L, j))
      /\ \A i \in Writes(N, j) :
           \/ i \in Writes(<<>>, j) /\ N[i] = <<>>[i]
           \/ /\ i > Len(<<>>) /\ i - Len(<<>>) + 1 # 1
              /\ i - Len(<<>>) + 1 \in Writes(L, j) /\ N[i] = L[i - Len(<<>>) + 1]
  <2>1. N = <<>> \o Tail(L)
    BY <1>0, <1>1
  <2>2. WritesShift(L, <<>>, N, j)
    BY <1>0, <2>1, SplicedWrites
  <2> QED
    BY <2>2 DEF WritesShift
<1>3. Writes(<<>>, j) = {}
  BY EmptyWrites
<1>4. Writes(N, j) \subseteq Nat /\ Writes(L, j) \subseteq DOMAIN L /\ DOMAIN L \subseteq Nat \ {0}
  <2>1. N \in Seq(S) /\ DOMAIN L \subseteq Nat \ {0}
    BY <1>1
  <2> QED
    BY <2>1, WritesRange
<1>5. /\ \A b \in DOMAIN L : b # 1 => (b - 1 \in Writes(N, j) <=> b \in Writes(L, j))
      /\ \A i \in Writes(N, j) : i + 1 \in Writes(L, j) /\ N[i] = L[i + 1]
  BY <1>0, <1>2, <1>3, <1>4
<1>6. Outcome(N, L[1].as, j, r)
  BY <1>1
<1>7. CASE Writes(N, j) = {}
  <2>1. r = L[1].as /\ \A k \in Writes(L, j) : k = 1
    BY <1>4, <1>5, <1>6, <1>7 DEF Outcome
  <2> QED
    BY <2>1 DEF Outcome
<1>8. CASE Writes(N, j) # {}
  <2>1. PICK i \in Writes(N, j) : N[i].as = r /\ \A k \in Writes(N, j) : k <= i
    BY <1>6, <1>8 DEF Outcome
  <2>2. i + 1 \in Writes(L, j) /\ L[i + 1].as = r /\ i \in Nat
    BY <1>4, <1>5, <2>1
  <2>3. \A k \in Writes(L, j) : k <= i + 1
    BY <1>4, <1>5, <2>1, <2>2
  <2> QED
    BY <2>2, <2>3 DEF Outcome
<1> QED
  BY <1>7, <1>8

------------------------------------------------------------------------------
(* What a step leaves as it is.                                             *)

\* The steps of N are those of M, then those of L from its second on.
SpliceOf(L, M, N) ==
  /\ \A i \in DOMAIN M : i \in DOMAIN N /\ N[i] = M[i]
  /\ \A b \in DOMAIN L : b # 1 => Len(M) + b - 1 \in DOMAIN N /\ N[Len(M) + b - 1] = L[b]
  /\ \A i \in DOMAIN N :
       \/ i \in DOMAIN M
       \/ /\ i > Len(M) /\ i - Len(M) + 1 \in DOMAIN L /\ i - Len(M) + 1 # 1
          /\ N[i] = L[i - Len(M) + 1]

\* A splice is one.
LEMMA SpliceIs ==
  ASSUME NEW S, NEW L \in Seq(S), L # <<>>, NEW M \in Seq(S), NEW N, N = M \o Tail(L)
  PROVE  SpliceOf(L, M, N) /\ N \in Seq(S)
<1>1. /\ \A i \in DOMAIN M : i \in DOMAIN N /\ N[i] = M[i]
      /\ \A b \in DOMAIN L : b # 1 => Len(M) + b - 1 \in DOMAIN N /\ N[Len(M) + b - 1] = L[b]
      /\ \A i \in DOMAIN N :
           \/ i \in DOMAIN M
           \/ i > Len(M) /\ i - Len(M) + 1 \in DOMAIN L /\ i - Len(M) + 1 # 1
      /\ DOMAIN N \subseteq Nat \ {0} /\ Len(M) \in Nat /\ N \in Seq(S)
  BY Spliced
<1>2. ASSUME NEW i \in DOMAIN N, i - Len(M) + 1 \in DOMAIN L, i - Len(M) + 1 # 1
      PROVE  N[i] = L[i - Len(M) + 1]
  <2>1. Len(M) + (i - Len(M) + 1) - 1 = i
    BY <1>1
  <2> QED
    BY <1>1, <1>2, <2>1
<1> QED
  BY <1>1, <1>2 DEF SpliceOf

\* Every step of a splice is one of the new steps, or one of the rest.
LEMMA SpliceElements ==
  ASSUME NEW L, NEW M, NEW N, SpliceOf(L, M, N), NEW i \in DOMAIN N
  PROVE  \/ i \in DOMAIN M /\ N[i] = M[i]
         \/ \E b \in DOMAIN L : b # 1 /\ N[i] = L[b]
BY DEF SpliceOf

\* The ends on their way after a splice.
LEMMA SplicedEnding ==
  ASSUME NEW L, NEW M, NEW N, SpliceOf(L, M, N), NEW j
  PROVE  /\ Ending(N, j) => Ending(M, j) \/ Ending(L, j)
         /\ Ending(M, j) => Ending(N, j)
         /\ Silent(L[1], j) => (Ending(L, j) => Ending(N, j))
<1>1. Ending(N, j) => Ending(M, j) \/ Ending(L, j)
  BY SpliceElements DEF Ending
<1>2. Ending(M, j) => Ending(N, j)
  BY DEF Ending, SpliceOf
<1>3. Silent(L[1], j) => (Ending(L, j) => Ending(N, j))
  <2> SUFFICES ASSUME Silent(L[1], j), NEW b \in DOMAIN L,
                      L[b].do \in {"exit", "requeue"}, L[b].job = j
               PROVE  Ending(N, j)
    BY DEF Ending
  <2>1. b # 1
    BY DEF Silent
  <2>2. Len(M) + b - 1 \in DOMAIN N /\ N[Len(M) + b - 1] = L[b]
    BY <2>1 DEF SpliceOf
  <2> QED
    BY <2>2 DEF Ending
<1> QED
  BY <1>1, <1>2, <1>3

\* The record r does for the job of process p what q does.
Like(q, r, p) ==
  /\ r.gpus = q.gpus /\ r.node = q.node /\ r.cooldown = q.cooldown
  /\ \/ r.state = q.state
     \/ /\ r.state \in ActiveStates /\ q.state \in ActiveStates
        /\ p.st = "none" => q.state \notin {"SCHEDULED", "RESUMING"}

\* L before a step and N after it do the same for k, whose record goes from r0 to r1.
Keep(L, r0, N, r1, p, k) ==
  /\ \A r \in Records : Outcome(N, r1, k, r) =>
       \E q \in Records : Outcome(L, r0, k, q) /\ Like(q, r, p)
  /\ p.st \notin Ended => (Ending(N, k) <=> Ending(L, k))
  /\ p.st \in Living /\ Runs(r0, p.gpus) /\ (\A i \in Writes(L, k) : Runs(L[i].as, p.gpus))
       => Runs(r1, p.gpus) /\ \A i \in Writes(N, k) : Runs(N[i].as, p.gpus)

\* The classes of records are closed under likeness.
LEMMA LikeClasses ==
  ASSUME NEW q, NEW r, NEW p, Like(q, r, p)
  PROVE  /\ \A G : Runs(q, G) => Runs(r, G)
         /\ Rests(q) => Rests(r)
         /\ Off(q) => Off(r)
         /\ p.st = "none" => \A G : Waits(q, G) => Waits(r, G)
         /\ r.state \in ActiveStates <=> q.state \in ActiveStates
         /\ r.gpus = q.gpus
BY DEF Like, Runs, Rests, Off, Waits, ActiveStates

\* What a list keeps to about a job, another that does the same for it keeps to.
LEMMA KeepLife ==
  ASSUME NEW L, NEW T, NEW r0, NEW p, NEW j, Life(L, T, r0, p, j),
         NEW N, NEW r1, Keep(L, r0, N, r1, p, j)
  PROVE  Life(N, T, r1, p, j)
<1>0. Living \cap Ended = {} /\ "none" \notin Living \cup Ended
  BY DEF Living, Ended
<1>1. p.st \in Living =>
        /\ Runs(r1, p.gpus)
        /\ \A i \in Writes(N, j) : Runs(N[i].as, p.gpus)
        /\ \A i \in Writes(T, j) : Runs(T[i].as, p.gpus)
        /\ ~Ending(N, j)
  BY <1>0 DEF Life, Keep
<1>2. p.st \notin Living => T = <<>>
  BY DEF Life
<1>3. ASSUME NEW r \in Records, Outcome(N, r1, j, r), p.st \in Ended
      PROVE  Runs(r, p.gpus) \/ Rests(r)
  <2>1. PICK q \in Records : Outcome(L, r0, j, q) /\ Like(q, r, p)
    BY <1>3 DEF Keep
  <2>2. Runs(q, p.gpus) \/ Rests(q)
    BY <1>3, <2>1 DEF Life
  <2> QED
    BY <2>1, <2>2, LikeClasses
<1>4. ASSUME NEW r \in Records, Outcome(N, r1, j, r), p.st = "none"
      PROVE  Off(r) \/ Waits(r, r.gpus) \/ (Ending(N, j) /\ Runs(r, r.gpus))
  <2>1. PICK q \in Records : Outcome(L, r0, j, q) /\ Like(q, r, p)
    BY <1>4 DEF Keep
  <2>2. Off(q) \/ Waits(q, q.gpus) \/ (Ending(L, j) /\ Runs(q, q.gpus))
    BY <1>4, <2>1 DEF Life
  <2>3. Ending(N, j) <=> Ending(L, j)
    BY <1>0, <1>4 DEF Keep
  <2>4. r.gpus = q.gpus
    BY <2>1 DEF Like
  <2> QED
    BY <1>4, <2>1, <2>2, <2>3, <2>4, LikeClasses
<1> QED
  BY <1>1, <1>2, <1>3, <1>4 DEF Life

\* An order that was fair still is.
LEMMA KeepFair ==
  ASSUME NEW a, NEW L, NEW r0, NEW p, NEW j, Fair(a, L, r0, p, j),
         NEW N, NEW r1, Keep(L, r0, N, r1, p, j)
  PROVE  Fair(a, N, r1, p, j)
<1>0. "none" \notin Ended
  BY DEF Ended
<1>1. ASSUME a.kind = "START"
      PROVE  /\ p.st = "none" /\ ~Ending(N, j)
             /\ \A r \in Records : Outcome(N, r1, j, r) => Waits(r, a.gpus)
  <2>1. p.st = "none" /\ ~Ending(N, j)
    BY <1>0, <1>1 DEF Fair, Keep
  <2>2. ASSUME NEW r \in Records, Outcome(N, r1, j, r)
        PROVE  Waits(r, a.gpus)
    <3>1. PICK q \in Records : Outcome(L, r0, j, q) /\ Like(q, r, p)
      BY <2>2 DEF Keep
    <3>2. Waits(q, a.gpus)
      BY <1>1, <3>1 DEF Fair
    <3> QED
      BY <2>1, <3>1, <3>2, LikeClasses
  <2> QED
    BY <2>1, <2>2
<1> QED
  BY <1>1 DEF Fair

\* A device that will be held still will.
LEMMA KeepHold ==
  ASSUME NEW L, NEW r0, NEW p, NEW j, NEW g, WillHold(L, r0, j, g),
         NEW N, NEW r1, Keep(L, r0, N, r1, p, j)
  PROVE  WillHold(N, r1, j, g)
<1> SUFFICES ASSUME NEW r \in Records, Outcome(N, r1, j, r)
             PROVE  r.state \in ActiveStates /\ g \in r.gpus
  BY DEF WillHold
<1>1. PICK q \in Records : Outcome(L, r0, j, q) /\ Like(q, r, p)
  BY DEF Keep
<1>2. q.state \in ActiveStates /\ g \in q.gpus
  BY <1>1 DEF WillHold
<1> QED
  BY <1>1, <1>2, LikeClasses

\* Jobs whose devices only shrink stay apart.
Shrinks(L, r0, N, r1, k) ==
  \A r \in Records : Outcome(N, r1, k, r) /\ r.state \in ActiveStates =>
    \E q \in Records : Outcome(L, r0, k, q) /\ q.state \in ActiveStates /\ r.gpus \subseteq q.gpus

\* Doing the same for a job gives it no more devices.
LEMMA KeepShrinks ==
  ASSUME NEW L, NEW r0, NEW N, NEW r1, NEW p, NEW k, Keep(L, r0, N, r1, p, k)
  PROVE  Shrinks(L, r0, N, r1, k)
<1> SUFFICES ASSUME NEW r \in Records, Outcome(N, r1, k, r), r.state \in ActiveStates
             PROVE  \E q \in Records :
                      Outcome(L, r0, k, q) /\ q.state \in ActiveStates /\ r.gpus \subseteq q.gpus
  BY DEF Shrinks
<1>1. PICK q \in Records : Outcome(L, r0, k, q) /\ Like(q, r, p)
  BY DEF Keep
<1> QED
  BY <1>1, LikeClasses

\* Where no job gets more devices, jobs stay apart.
LEMMA ShrinksApart ==
  ASSUME NEW L, NEW J, Apart(L, J), NEW N, NEW K, \A k \in Job : Shrinks(L, J[k], N, K[k], k)
  PROVE  Apart(N, K)
<1> SUFFICES ASSUME NEW j \in Job, NEW k \in Job, NEW r \in Records, NEW q \in Records,
                    j # k, Outcome(N, K[j], j, r), Outcome(N, K[k], k, q),
                    r.state \in ActiveStates, q.state \in ActiveStates
             PROVE  r.gpus \cap q.gpus = {}
  BY DEF Apart
<1>1. PICK x \in Records :
        Outcome(L, J[j], j, x) /\ x.state \in ActiveStates /\ r.gpus \subseteq x.gpus
  BY DEF Shrinks
<1>2. PICK y \in Records :
        Outcome(L, J[k], k, y) /\ y.state \in ActiveStates /\ q.gpus \subseteq y.gpus
  BY DEF Shrinks
<1>3. x.gpus \cap y.gpus = {}
  BY <1>1, <1>2 DEF Apart
<1> QED
  BY <1>1, <1>2, <1>3

\* Records are like themselves.
LEMMA LikeItself == \A r, p : Like(r, r, p)
BY DEF Like

\* Steps that do not end a job, and write nothing about it but what is like its
\* record, keep what the list was going to do for it.
LEMMA LikeKeep ==
  ASSUME NEW L \in Seq(WorkStep), L # <<>>, NEW M \in Seq(WorkStep), NEW N, N = M \o Tail(L),
         NEW k, NEW p, NEW r0 \in Records,
         Silent(L[1], k),
         \A i \in Writes(M, k) : Like(r0, M[i].as, p),
         p.st \notin Ended => ~Ending(M, k)
  PROVE  Keep(L, r0, N, r0, p, k)
<1>0. SpliceOf(L, M, N) /\ WritesShift(L, M, N, k)
  BY SpliceIs, SplicedWrites
<1>1. 1 \notin Writes(L, k)
  BY DEF Silent, Writes
<1>2. ASSUME NEW r \in Records, Outcome(N, r0, k, r)
      PROVE  \E q \in Records : Outcome(L, r0, k, q) /\ Like(q, r, p)
  <2>1. CASE Writes(L, k) # {}
    <3>1. Outcome(L, r0, k, r)
      BY <1>1, <1>2, <2>1, SplicedOutcome
    <3> QED
      BY <3>1, LikeItself
  <2>2. CASE Writes(L, k) = {}
    <3>1. Outcome(M, r0, k, r)
      BY <1>1, <1>2, <2>2, SplicedOutcome
    <3>2. Like(r0, r, p)
      BY <3>1, LikeItself DEF Outcome
    <3>3. Outcome(L, r0, k, r0)
      BY <2>2, UnwrittenOutcome
    <3> QED
      BY <3>2, <3>3
  <2> QED
    BY <2>1, <2>2
<1>3. p.st \notin Ended => (Ending(N, k) <=> Ending(L, k))
  BY <1>0, SplicedEnding
<1>4. ASSUME Runs(r0, p.gpus), \A i \in Writes(L, k) : Runs(L[i].as, p.gpus),
             NEW i \in Writes(N, k)
      PROVE  Runs(N[i].as, p.gpus)
  <2>1. CASE i \in Writes(M, k) /\ N[i] = M[i]
    BY <1>4, <2>1, LikeClasses
  <2>2. CASE i - Len(M) + 1 \in Writes(L, k) /\ N[i] = L[i - Len(M) + 1]
    BY <1>4, <2>2
  <2> QED
    BY <1>0, <1>4, <2>1, <2>2 DEF WritesShift
<1> QED
  BY <1>2, <1>3, <1>4 DEF Keep

\* A write that is made keeps what the list was going to do.
LEMMA WriteKeep ==
  ASSUME NEW L \in Seq(WorkStep), L # <<>>, NEW k, 1 \in Writes(L, k),
         NEW N, N = <<>> \o Tail(L), NEW p, NEW r0
  PROVE  Keep(L, r0, N, L[1].as, p, k)
<1>0. SpliceOf(L, <<>>, N) /\ WritesShift(L, <<>>, N, k)
  <2>1. <<>> \in Seq(WorkStep)
    OBVIOUS
  <2> QED
    BY <2>1, SpliceIs, SplicedWrites
<1>1. N = Tail(L) /\ L[1] \in WorkStep
  OBVIOUS
<1>2. ASSUME NEW r \in Records, Outcome(N, L[1].as, k, r)
      PROVE  \E q \in Records : Outcome(L, r0, k, q) /\ Like(q, r, p)
  <2>1. Outcome(L, r0, k, r)
    BY <1>1, <1>2, WrittenOutcome
  <2> QED
    BY <2>1, LikeItself
<1>3. Silent(L[1], k) \/ L[1].do = "put_job"
  BY DEF Writes
<1>4. Ending(N, k) <=> Ending(L, k)
  <2>1. ~Ending(<<>>, k)
    BY DEF Ending
  <2>2. Ending(N, k) => Ending(L, k)
    BY <1>0, <2>1, SplicedEnding
  <2>3. ASSUME NEW b \in DOMAIN L, L[b].do \in {"exit", "requeue"}, L[b].job = k
        PROVE  Ending(N, k)
    <3>1. b # 1
      BY <2>3 DEF Writes
    <3>2. \E i \in DOMAIN N : N[i] = L[b]
      BY <1>0, <3>1 DEF SpliceOf
    <3> QED
      BY <2>3, <3>2 DEF Ending
  <2> QED
    BY <2>2, <2>3 DEF Ending
<1>5. ASSUME \A i \in Writes(L, k) : Runs(L[i].as, p.gpus), NEW i \in Writes(N, k)
      PROVE  Runs(N[i].as, p.gpus)
  <2>1. Writes(<<>>, k) = {}
    BY EmptyWrites
  <2>2. i - Len(<<>>) + 1 \in Writes(L, k) /\ N[i] = L[i - Len(<<>>) + 1]
    BY <1>0, <2>1 DEF WritesShift
  <2> QED
    BY <1>5, <2>2
<1> QED
  BY <1>2, <1>4, <1>5 DEF Keep

\* Every step is of a kind, and May names kinds that are not decisions.
LEMMA MayKinds == \A do \in Kinds : May(do) \subseteq Kinds \ {"decide"}
BY DEF May, Kinds, Plain

\* A splice is in order if the new steps are, and may stand where the first one was.
LEMMA SplicedOrder ==
  ASSUME NEW L \in Seq(WorkStep), L # <<>>, NEW M \in Seq(WorkStep), NEW N, N = M \o Tail(L),
         InOrder(L), InOrder(M), \A i \in DOMAIN M : May(L[1].do) \subseteq May(M[i].do)
  PROVE  InOrder(N)
<1>0. SpliceOf(L, M, N)
  BY SpliceIs
<1>00. /\ DOMAIN L = 1..Len(L) /\ DOMAIN M = 1..Len(M) /\ Len(M) \in Nat /\ Len(L) \in Nat
       /\ 1 \in DOMAIN L /\ DOMAIN N \subseteq Nat
  OBVIOUS
<1> SUFFICES ASSUME NEW i \in DOMAIN N, NEW k \in DOMAIN N, i < k
             PROVE  N[k].do \in May(N[i].do)
  BY DEF InOrder
<1>1. i \in Nat /\ k \in Nat
  BY <1>00
<1> DEFINE a == i - Len(M) + 1
           b == k - Len(M) + 1
<1>2. (i \in DOMAIN M /\ N[i] = M[i]) \/ (i > Len(M) /\ a \in DOMAIN L /\ a # 1 /\ N[i] = L[a])
  BY <1>0 DEF SpliceOf
<1>3. (k \in DOMAIN M /\ N[k] = M[k]) \/ (k > Len(M) /\ b \in DOMAIN L /\ b # 1 /\ N[k] = L[b])
  BY <1>0 DEF SpliceOf
<1>4. a < b /\ a \in Int /\ b \in Int
  BY <1>00, <1>1
<1> HIDE DEF a, b
<1>5. CASE k \in DOMAIN M /\ N[k] = M[k]
  <2>1. i \in DOMAIN M /\ N[i] = M[i]
    BY <1>00, <1>1, <1>2, <1>5
  <2> QED
    BY <1>5, <2>1 DEF InOrder
<1>6. CASE k > Len(M) /\ b \in DOMAIN L /\ b # 1 /\ N[k] = L[b]
  <2>1. CASE i \in DOMAIN M /\ N[i] = M[i]
    <3>0. 1 < b
      BY <1>00, <1>4, <1>6
    <3>1. L[b].do \in May(L[1].do)
      BY <1>00, <1>6, <3>0 DEF InOrder
    <3> QED
      BY <1>6, <2>1, <3>1
  <2>2. CASE a \in DOMAIN L /\ N[i] = L[a]
    BY <1>4, <1>6, <2>2 DEF InOrder
  <2> QED
    BY <1>2, <2>1, <2>2
<1> QED
  BY <1>3, <1>5, <1>6

\* Steps that only write, ask or queue may stand anywhere.
LEMMA PlainOrder ==
  ASSUME NEW L \in Seq(WorkStep), L # <<>>, NEW M \in Seq(WorkStep),
         \A i \in DOMAIN M : M[i].do \in Plain
  PROVE  InOrder(M) /\ \A i \in DOMAIN M : May(L[1].do) \subseteq May(M[i].do)
<1>1. L[1] \in WorkStep
  OBVIOUS
<1>2. May(L[1].do) \subseteq Kinds \ {"decide"}
  BY <1>1, MayKinds, StepShape
<1>3. \A i \in DOMAIN M : May(M[i].do) = Kinds \ {"decide"} /\ M[i].do \in Kinds \ {"decide"}
  BY DEF May, Plain, Kinds
<1> QED
  BY <1>2, <1>3 DEF InOrder

\* What is about to free a device is still there, unless it was the first step.
LEMMA SplicedFreeing ==
  ASSUME NEW L, NEW M, NEW N, SpliceOf(L, M, N), NEW k, NEW g, Freeing(L, k, g)
  PROVE  \/ Freeing(N, k, g)
         \/ L[1].do = "release" /\ L[1].job = k
         \/ L[1].do = "put_gpu" /\ L[1].gpu = g /\ L[1].as.job = NoJob
<1>1. PICK b \in DOMAIN L :
        \/ L[b].do = "release" /\ L[b].job = k
        \/ L[b].do = "put_gpu" /\ L[b].gpu = g /\ L[b].as.job = NoJob
  BY DEF Freeing
<1>2. CASE b = 1
  BY <1>1, <1>2
<1>3. CASE b # 1
  <2>1. Len(M) + b - 1 \in DOMAIN N /\ N[Len(M) + b - 1] = L[b]
    BY <1>3 DEF SpliceOf
  <2> QED
    BY <1>1, <2>1 DEF Freeing
<1> QED
  BY <1>2, <1>3

\* The claims a step makes are those of jobs that will hold the device.
Claiming(x, L, J) ==
  /\ x.do = "put_gpu" /\ x.as.job # NoJob => WillHold(L, J[x.as.job], x.as.job, x.gpu)
  /\ x.do = "claim" => \A g \in x.gpus : WillHold(L, J[x.job], x.job, g)

\* Claims and what frees them stay right through a step that keeps what is done for
\* each job, if what it frees or claims is right.
LEMMA ClaimedStays ==
  ASSUME NEW L \in Seq(WorkStep), NEW J, NEW G, Claimed(L, J, G),
         NEW M, NEW N, SpliceOf(L, M, N), NEW K, NEW X, NEW H \in [Gpu -> GpuRecord],
         \A k \in Job : Keep(L, J[k], N, K[k], X[k], k),
         \A i \in DOMAIN M : M[i] \in WorkStep /\ Claiming(M[i], L, J),
         \A g \in Gpu : H[g].job # NoJob =>
           WillHold(L, J[H[g].job], H[g].job, g) \/ Freeing(N, H[g].job, g)
  PROVE  Claimed(N, K, H)
<1>0. \A r \in GpuRecord : r.job # NoJob => r.job \in Job
  BY DEF GpuRecord
<1>1. ASSUME NEW g \in Gpu, H[g].job # NoJob
      PROVE  WillHold(N, K[H[g].job], H[g].job, g) \/ Freeing(N, H[g].job, g)
  <2>1. H[g].job \in Job
    BY <1>0, <1>1
  <2> QED
    BY <1>1, <2>1, KeepHold
<1>2. ASSUME NEW x \in WorkStep, Claiming(x, L, J)
      PROVE  Claiming(x, N, K)
  <2>1. ASSUME x.do = "put_gpu", x.as.job # NoJob
        PROVE  WillHold(N, K[x.as.job], x.as.job, x.gpu)
    <3>1. x.as.job \in Job /\ WillHold(L, J[x.as.job], x.as.job, x.gpu)
      BY <1>0, <1>2, <2>1, StepShape DEF Claiming
    <3> QED
      BY <3>1, KeepHold
  <2>2. ASSUME x.do = "claim", NEW g \in x.gpus
        PROVE  WillHold(N, K[x.job], x.job, g)
    <3>1. x.job \in Job /\ WillHold(L, J[x.job], x.job, g)
      BY <1>2, <2>2, StepShape DEF Claiming
    <3> QED
      BY <3>1, KeepHold
  <2> QED
    BY <2>1, <2>2 DEF Claiming
<1>3. \A b \in DOMAIN L : L[b] \in WorkStep /\ Claiming(L[b], L, J)
  BY Element DEF Claimed, Claiming
<1>4. ASSUME NEW i \in DOMAIN N
      PROVE  Claiming(N[i], N, K)
  BY <1>2, <1>3, SpliceElements
<1> QED
  BY <1>1, <1>4 DEF Claimed, Claiming

\* What lists and passes saw stays current: a decision is never waited for.
LEMMA CurrentStays ==
  ASSUME NEW L \in Seq(WorkStep), L # <<>>, NEW J, NEW X, Current(L, J, X), InOrder(L),
         NEW M, NEW N, SpliceOf(L, M, N), NEW K,
         \A i \in DOMAIN M : M[i].do \notin {"reconcile", "decide"}
  PROVE  Current(N, K, X)
<1>0. DOMAIN L \subseteq Nat \ {0} /\ 1 \in DOMAIN L /\ L[1] \in WorkStep
  OBVIOUS
<1>1. ASSUME NEW b \in DOMAIN L, b # 1
      PROVE  L[b].do # "decide"
  <2>1. 1 < b
    BY <1>0, <1>1
  <2>2. L[b].do \in May(L[1].do)
    BY <1>0, <2>1 DEF InOrder
  <2> QED
    BY <1>0, <2>2, MayKinds, StepShape
<1> SUFFICES ASSUME NEW i \in DOMAIN N
             PROVE  /\ N[i].do = "reconcile" => \A j \in Job :
                         /\ N[i].procs[j] = "dead" => X[j].st \in Ended
                         /\ N[i].procs[j] = "none" => X[j].st = "none"
                    /\ N[i].do # "decide"
  BY DEF Current
<1>2. CASE i \in DOMAIN M /\ N[i] = M[i]
  BY <1>2
<1>3. ASSUME NEW b \in DOMAIN L, b # 1, N[i] = L[b]
      PROVE  /\ N[i].do = "reconcile" => \A j \in Job :
                  /\ N[i].procs[j] = "dead" => X[j].st \in Ended
                  /\ N[i].procs[j] = "none" => X[j].st = "none"
             /\ N[i].do # "decide"
  BY <1>1, <1>3 DEF Current
<1> QED
  BY <1>2, <1>3, SpliceElements

\* Orders that are yet to be queued stay fair.
LEMMA SendingStays ==
  ASSUME NEW L \in Seq(WorkStep), NEW J, NEW X, Sending(L, J, X),
         NEW M, NEW N, SpliceOf(L, M, N), NEW K,
         \A k \in Job : Keep(L, J[k], N, K[k], X[k], k),
         \A i \in DOMAIN M : /\ M[i] \in WorkStep
                             /\ M[i].do = "queue" =>
                                  Fair(M[i].action, L, J[M[i].job], X[M[i].job], M[i].job)
  PROVE  Sending(N, K, X)
<1>1. ASSUME NEW x \in WorkStep, x.do = "queue", Fair(x.action, L, J[x.job], X[x.job], x.job)
      PROVE  Fair(x.action, N, K[x.job], X[x.job], x.job)
  <2>1. x.job \in Job
    BY <1>1, StepShape
  <2> QED
    BY <1>1, <2>1, KeepFair
<1>2. \A b \in DOMAIN L : L[b] \in WorkStep
  BY Element
<1>3. \A b \in DOMAIN L : L[b].do = "queue" =>
        Fair(L[b].action, L, J[L[b].job], X[L[b].job], L[b].job)
  BY DEF Sending
<1> SUFFICES ASSUME NEW i \in DOMAIN N, N[i].do = "queue"
             PROVE  Fair(N[i].action, N, K[N[i].job], X[N[i].job], N[i].job)
  BY DEF Sending
<1>4. CASE i \in DOMAIN M /\ N[i] = M[i]
  BY <1>1, <1>4
<1>5. ASSUME NEW b \in DOMAIN L, N[i] = L[b]
      PROVE  Fair(N[i].action, N, K[N[i].job], X[N[i].job], N[i].job)
  BY <1>1, <1>2, <1>3, <1>5
<1> QED
  BY <1>4, <1>5, SpliceElements

\* The lists L and T of the worker's and the trainers' threads, the records J and G
\* of jobs and devices, the worker's processes X, and the queue Q and inbox B of
\* its orders fit together.
Good(L, T, J, G, X, Q, B) ==
  /\ L \in Seq(WorkStep) /\ \A j \in Job : T[j] \in Seq(TrainStep(j))
  /\ J \in [Job -> Records] /\ G \in [Gpu -> GpuRecord] /\ X \in [Job -> Process]
  /\ Q \in [Job -> Seq(Action)] /\ B \in [Job -> Seq(Action)]
  /\ \A j \in Job : Life(L, T[j], J[j], X[j], j)
  /\ Apart(L, J)
  /\ Claimed(L, J, G)
  /\ InOrder(L)
  /\ Current(L, J, X)
  /\ Orderly(L, J, X, Q) /\ Orderly(L, J, X, B) /\ Sending(L, J, X)

\* So they do after a step of the worker's thread that keeps what is done for each
\* job, once what it leaves of the claims and lists is right.
LEMMA GoodStays ==
  ASSUME NEW L, NEW T, NEW J, NEW G, NEW X, NEW Q, NEW B, Good(L, T, J, G, X, Q, B),
         L # <<>>, NEW M \in Seq(WorkStep), NEW N, N = M \o Tail(L), NEW K \in [Job -> Records],
         NEW H \in [Gpu -> GpuRecord],
         \A k \in Job : Keep(L, J[k], N, K[k], X[k], k),
         InOrder(M), \A i \in DOMAIN M : May(L[1].do) \subseteq May(M[i].do),
         \A i \in DOMAIN M : M[i].do = "queue" =>
           Fair(M[i].action, L, J[M[i].job], X[M[i].job], M[i].job),
         \A i \in DOMAIN M : Claiming(M[i], L, J),
         \A g \in Gpu : H[g].job # NoJob =>
           WillHold(L, J[H[g].job], H[g].job, g) \/ Freeing(N, H[g].job, g),
         Current(N, K, X)
  PROVE  Good(N, T, K, H, X, Q, B)
<1>0. SpliceOf(L, M, N) /\ L \in Seq(WorkStep) /\ N \in Seq(WorkStep)
  <2>1. L \in Seq(WorkStep)
    BY DEF Good
  <2> QED
    BY <2>1, SpliceIs
<1>00. \A i \in DOMAIN M : M[i] \in WorkStep
  BY Element
<1>1. \A j \in Job : Life(N, T[j], K[j], X[j], j)
  BY KeepLife DEF Good
<1>2. Apart(N, K)
  <2>1. Apart(L, J)
    BY DEF Good
  <2>2. \A k \in Job : Shrinks(L, J[k], N, K[k], k)
    BY KeepShrinks
  <2> QED
    BY <2>1, <2>2, ShrinksApart
<1>3. Claimed(N, K, H)
  <2>1. Claimed(L, J, G)
    BY DEF Good
  <2> QED
    BY <1>0, <1>00, <2>1, ClaimedStays
<1>4. InOrder(N)
  <2>1. InOrder(L)
    BY DEF Good
  <2> QED
    BY <1>0, <2>1, SplicedOrder
<1>5. Orderly(N, K, X, Q) /\ Orderly(N, K, X, B)
  BY KeepFair DEF Good, Orderly
<1>6. Sending(N, K, X)
  <2>1. Sending(L, J, X)
    BY DEF Good
  <2> QED
    BY <1>0, <1>00, <2>1, SendingStays
<1> QED
  BY <1>0, <1>1, <1>2, <1>3, <1>4, <1>5, <1>6 DEF Good

------------------------------------------------------------------------------
(* The steps of the worker's thread, one kind after the other.               *)

\* The list of a finite set has all of its members and no other.
LEMMA ListOfSet ==
  ASSUME NEW S, IsFiniteSet(S)
  PROVE  /\ Cardinality(S) \in Nat
         /\ SetToSeq(S) \in [1..Cardinality(S) -> S]
         /\ SetToSeq(S) \in Seq(S) /\ Len(SetToSeq(S)) = Cardinality(S)
         /\ \A s \in S : \E i \in 1..Cardinality(S) : SetToSeq(S)[i] = s
<1> DEFINE n == Cardinality(S)
           f == SetToSeq(S)
<1>1. n \in Nat /\ ExistsBijection(1..n, S)
  BY FS_CardinalityType
<1>2. \E h \in [1..n -> S] : IsInjective(h)
  BY <1>1 DEF ExistsBijection, Bijection, Injection
<1>3. f \in [1..n -> S] /\ IsInjective(f)
  BY <1>2 DEF SetToSeq
<1>4. f \in Injection(1..n, S)
  BY <1>3 DEF Injection
<1>5. Cardinality(1..n) = n
  BY <1>1, FS_Interval
<1> HIDE DEF f
<1>6. f \in Surjection(1..n, S)
  BY <1>4, <1>5, FS_Injection
<1>7. f \in Seq(S) /\ Len(f) = n
  BY <1>1, <1>3
<1> QED
  BY <1>1, <1>3, <1>6, <1>7 DEF Surjection, f

\* Jobs and devices are finite.
LEMMA FiniteThings ==
  /\ \A D \in SUBSET Gpu : IsFiniteSet(D)
  /\ \A D \in SUBSET Job : IsFiniteSet(D)
<1>1. IsFiniteSet(Job)
  BY JobsAssumption, FS_Interval DEF Job
<1> QED
  BY <1>1, GpusAssumption, FS_Subset

\* One write for each device of a set.
LEMMA DeviceWrites ==
  ASSUME NEW D \in SUBSET Gpu, NEW r \in GpuRecord
  PROVE  /\ PutGpus(D, r) \in Seq(WorkStep)
         /\ \A i \in DOMAIN PutGpus(D, r) : \E g \in D : PutGpus(D, r)[i] = PutGpu(g, r)
         /\ \A g \in D : \E i \in DOMAIN PutGpus(D, r) : PutGpus(D, r)[i] = PutGpu(g, r)
<1> DEFINE list == SetToSeq(D)
           n == Cardinality(D)
<1>1. /\ n \in Nat /\ list \in [1..n -> D] /\ Len(list) = n
      /\ \A g \in D : \E i \in 1..n : list[i] = g
  BY FiniteThings, ListOfSet
<1>2. PutGpus(D, r) = [i \in 1..Len(list) |-> PutGpu(list[i], r)]
  BY DEF PutGpus
<1> HIDE DEF list, n
<1>3. \A i \in 1..n : list[i] \in D /\ PutGpu(list[i], r) \in WorkStep
  BY <1>1, StepsMade
<1>4. PutGpus(D, r) = [i \in 1..n |-> PutGpu(list[i], r)]
  BY <1>1, <1>2
<1>5. PutGpus(D, r) \in Seq(WorkStep) /\ DOMAIN PutGpus(D, r) = 1..n
  BY <1>1, <1>3, <1>4
<1> QED
  BY <1>1, <1>3, <1>4, <1>5

\* Where no device is freed or written first, claims stay right.
LEMMA HeldOrFreed ==
  ASSUME NEW L, NEW J, NEW G, Claimed(L, J, G), NEW M, NEW N, SpliceOf(L, M, N),
         L[1].do \notin {"release", "put_gpu"}
  PROVE  \A g \in Gpu : G[g].job # NoJob =>
           WillHold(L, J[G[g].job], G[g].job, g) \/ Freeing(N, G[g].job, g)
<1> SUFFICES ASSUME NEW g \in Gpu, G[g].job # NoJob, Freeing(L, G[g].job, g)
             PROVE  Freeing(N, G[g].job, g)
  BY DEF Claimed
<1> QED
  BY SplicedFreeing

\* The first step of a list, and nothing in its place.
LEMMA FirstStep ==
  ASSUME NEW L \in Seq(WorkStep), L # <<>>
  PROVE  /\ Head(L) = L[1] /\ L[1] \in WorkStep /\ 1 \in DOMAIN L
         /\ <<>> \in Seq(WorkStep) /\ DOMAIN <<>> = {}
         /\ \A k : Writes(<<>>, k) = {} /\ ~Ending(<<>>, k)
         /\ InOrder(<<>>)
<1>1. \A k : ~Ending(<<>>, k)
  BY DEF Ending
<1>2. InOrder(<<>>)
  BY DEF InOrder
<1> QED
  BY <1>1, <1>2, EmptyWrites

\* A job's record is written.
LEMMA PutJobStays ==
  ASSUME NEW L, NEW T, NEW J, NEW G, NEW X, NEW Q, NEW B, Good(L, T, J, G, X, Q, B),
         L # <<>>, L[1].do = "put_job", NEW N, N = <<>> \o Tail(L)
  PROVE  Good(N, T, [J EXCEPT ![L[1].job] = L[1].as], G, X, Q, B)
<1> DEFINE K == [J EXCEPT ![L[1].job] = L[1].as]
<1>0. L \in Seq(WorkStep) /\ J \in [Job -> Records] /\ G \in [Gpu -> GpuRecord]
      /\ Claimed(L, J, G) /\ InOrder(L) /\ Current(L, J, X)
  BY DEF Good
<1>1. /\ L[1] \in WorkStep /\ 1 \in DOMAIN L /\ <<>> \in Seq(WorkStep) /\ DOMAIN <<>> = {}
      /\ \A k : Writes(<<>>, k) = {} /\ ~Ending(<<>>, k)
      /\ InOrder(<<>>)
  BY <1>0, FirstStep
<1>2. L[1].job \in Job /\ L[1].as \in Records
  BY <1>1, StepShape
<1>3. K \in [Job -> Records]
  BY <1>0, <1>2
<1>4. K[L[1].job] = L[1].as /\ \A k \in Job : k # L[1].job => K[k] = J[k]
  BY <1>0, <1>2
<1> HIDE DEF K
<1>5. SpliceOf(L, <<>>, N)
  BY <1>0, <1>1, SpliceIs
<1>6. ASSUME NEW k \in Job
      PROVE  Keep(L, J[k], N, K[k], X[k], k)
  <2>1. CASE k = L[1].job
    <3>1. 1 \in Writes(L, k)
      BY <1>1, <2>1 DEF Writes
    <3>2. Keep(L, J[k], N, L[1].as, X[k], k)
      BY <1>0, <3>1, WriteKeep
    <3> QED
      BY <1>4, <2>1, <3>2
  <2>2. CASE k # L[1].job
    <3>1. Silent(L[1], k) /\ J[k] \in Records
      BY <1>0, <2>2 DEF Silent
    <3>2. Keep(L, J[k], N, J[k], X[k], k)
      BY <1>0, <1>1, <3>1, LikeKeep
    <3> QED
      BY <1>4, <2>2, <3>2
  <2> QED
    BY <2>1, <2>2
<1>7. \A g \in Gpu : G[g].job # NoJob =>
        WillHold(L, J[G[g].job], G[g].job, g) \/ Freeing(N, G[g].job, g)
  BY <1>0, <1>5, HeldOrFreed
<1>8. Current(N, K, X)
  BY <1>0, <1>1, <1>5, CurrentStays
<1>9. Good(N, T, K, G, X, Q, B)
  BY <1>0, <1>1, <1>3, <1>6, <1>7, <1>8, GoodStays
<1> QED
  BY <1>9 DEF K

\* Steps that are not about the records and ends of jobs keep what is done for them.
LEMMA QuietKeep ==
  ASSUME NEW L \in Seq(WorkStep), L # <<>>, NEW M \in Seq(WorkStep), NEW N, N = M \o Tail(L),
         NEW J \in [Job -> Records], NEW X,
         L[1].do \notin {"put_job", "exit", "requeue"},
         \A i \in DOMAIN M : M[i].do \notin {"put_job", "exit", "requeue"}
  PROVE  \A k \in Job : Keep(L, J[k], N, J[k], X[k], k)
<1> SUFFICES ASSUME NEW k \in Job PROVE Keep(L, J[k], N, J[k], X[k], k)
  OBVIOUS
<1>1. Silent(L[1], k) /\ J[k] \in Records
  BY DEF Silent
<1>2. Writes(M, k) = {} /\ ~Ending(M, k)
  BY DEF Writes, Ending
<1> QED
  BY <1>1, <1>2, LikeKeep

\* What GoodStays asks of a step that writes, asks or queues only, and leaves the
\* records of jobs.
LEMMA PlainStays ==
  ASSUME NEW L, NEW T, NEW J, NEW G, NEW X, NEW Q, NEW B, Good(L, T, J, G, X, Q, B),
         L # <<>>, NEW M \in Seq(WorkStep), NEW N, N = M \o Tail(L),
         NEW H \in [Gpu -> GpuRecord],
         \A k \in Job : Keep(L, J[k], N, J[k], X[k], k),
         \A i \in DOMAIN M : M[i].do \in Plain,
         \A i \in DOMAIN M : M[i].do = "queue" =>
           Fair(M[i].action, L, J[M[i].job], X[M[i].job], M[i].job),
         \A i \in DOMAIN M : Claiming(M[i], L, J),
         \A g \in Gpu : H[g].job # NoJob =>
           WillHold(L, J[H[g].job], H[g].job, g) \/ Freeing(N, H[g].job, g)
  PROVE  Good(N, T, J, H, X, Q, B)
<1>0. L \in Seq(WorkStep) /\ J \in [Job -> Records] /\ InOrder(L) /\ Current(L, J, X)
  BY DEF Good
<1>1. InOrder(M) /\ \A i \in DOMAIN M : May(L[1].do) \subseteq May(M[i].do)
  BY <1>0, PlainOrder
<1>2. SpliceOf(L, M, N)
  BY <1>0, SpliceIs
<1>3. \A i \in DOMAIN M : M[i].do \notin {"reconcile", "decide"}
  BY DEF Plain
<1>4. Current(N, J, X)
  BY <1>0, <1>2, <1>3, CurrentStays
<1> QED
  BY <1>0, <1>1, <1>4, GoodStays

\* A device's record is written.
LEMMA PutGpuStays ==
  ASSUME NEW L, NEW T, NEW J, NEW G, NEW X, NEW Q, NEW B, Good(L, T, J, G, X, Q, B),
         L # <<>>, L[1].do = "put_gpu", NEW N, N = <<>> \o Tail(L)
  PROVE  Good(N, T, J, [G EXCEPT ![L[1].gpu] = L[1].as], X, Q, B)
<1> DEFINE H == [G EXCEPT ![L[1].gpu] = L[1].as]
<1>0. /\ L \in Seq(WorkStep) /\ J \in [Job -> Records] /\ G \in [Gpu -> GpuRecord]
      /\ Claimed(L, J, G)
  BY DEF Good
<1>1. /\ L[1] \in WorkStep /\ 1 \in DOMAIN L /\ <<>> \in Seq(WorkStep) /\ DOMAIN <<>> = {}
  BY <1>0, FirstStep
<1>2. L[1].gpu \in Gpu /\ L[1].as \in GpuRecord
  BY <1>1, StepShape
<1>3. H \in [Gpu -> GpuRecord]
  BY <1>0, <1>2
<1>4. H[L[1].gpu] = L[1].as /\ \A g \in Gpu : g # L[1].gpu => H[g] = G[g]
  BY <1>0, <1>2
<1> HIDE DEF H
<1>5. SpliceOf(L, <<>>, N)
  BY <1>0, <1>1, SpliceIs
<1>6. \A k \in Job : Keep(L, J[k], N, J[k], X[k], k)
  BY <1>0, <1>1, QuietKeep
<1>7. ASSUME NEW g \in Gpu, H[g].job # NoJob
      PROVE  WillHold(L, J[H[g].job], H[g].job, g) \/ Freeing(N, H[g].job, g)
  <2>1. CASE g = L[1].gpu
    <3>1. WillHold(L, J[L[1].as.job], L[1].as.job, L[1].gpu)
      BY <1>0, <1>1, <1>4, <1>7, <2>1 DEF Claimed
    <3> QED
      BY <1>4, <2>1, <3>1
  <2>2. CASE g # L[1].gpu
    <3>1. H[g] = G[g]
      BY <1>4, <2>2
    <3>2. WillHold(L, J[G[g].job], G[g].job, g) \/ Freeing(L, G[g].job, g)
      BY <1>0, <1>7, <3>1 DEF Claimed
    <3>3. Freeing(L, G[g].job, g) => Freeing(N, G[g].job, g)
      BY <1>5, <2>2, SplicedFreeing
    <3> QED
      BY <3>1, <3>2, <3>3
  <2> QED
    BY <2>1, <2>2
<1>8. Good(N, T, J, H, X, Q, B)
  BY <1>1, <1>3, <1>6, <1>7, PlainStays
<1> QED
  BY <1>8 DEF H

\* The devices of a job are listed to be freed.
LEMMA ReleaseStays ==
  ASSUME NEW L, NEW T, NEW J, NEW G, NEW X, NEW Q, NEW B, Good(L, T, J, G, X, Q, B),
         L # <<>>, L[1].do = "release", NEW N,
         N = PutGpus({g \in Gpu : G[g].job = L[1].job}, [occ |-> "AVAILABLE", job |-> NoJob])
               \o Tail(L)
  PROVE  Good(N, T, J, G, X, Q, B)
<1> DEFINE D == {g \in Gpu : G[g].job = L[1].job}
           r == [occ |-> "AVAILABLE", job |-> NoJob]
           M == PutGpus(D, r)
<1>0. /\ L \in Seq(WorkStep) /\ J \in [Job -> Records] /\ G \in [Gpu -> GpuRecord]
      /\ Claimed(L, J, G)
  BY DEF Good
<1>1. r \in GpuRecord /\ r.job = NoJob
  BY DEF GpuRecord
<1>2. D \in SUBSET Gpu /\ \A g \in Gpu : G[g].job = L[1].job => g \in D
  OBVIOUS
<1> HIDE DEF D, r
<1>3. /\ M \in Seq(WorkStep)
      /\ \A i \in DOMAIN M : \E g \in D : M[i] = PutGpu(g, r)
      /\ \A g \in D : \E i \in DOMAIN M : M[i] = PutGpu(g, r)
  BY <1>1, <1>2, DeviceWrites
<1>4. N = M \o Tail(L)
  BY DEF D, r
<1> HIDE DEF M
<1>5. \A i \in DOMAIN M : M[i].do = "put_gpu" /\ M[i].as.job = NoJob
  BY <1>1, <1>3, StepFields
<1>6. SpliceOf(L, M, N)
  BY <1>0, <1>3, <1>4, SpliceIs
<1>7. \A k \in Job : Keep(L, J[k], N, J[k], X[k], k)
  BY <1>0, <1>3, <1>4, <1>5, QuietKeep
<1>8. ASSUME NEW g \in Gpu, G[g].job # NoJob
      PROVE  WillHold(L, J[G[g].job], G[g].job, g) \/ Freeing(N, G[g].job, g)
  <2>1. CASE G[g].job = L[1].job
    <3>1. PICK i \in DOMAIN M : M[i] = PutGpu(g, r)
      BY <1>2, <1>3, <2>1
    <3>2. i \in DOMAIN N /\ N[i] = PutGpu(g, r)
      BY <1>6, <3>1 DEF SpliceOf
    <3>3. N[i].do = "put_gpu" /\ N[i].gpu = g /\ N[i].as.job = NoJob
      BY <1>1, <3>2, StepFields
    <3> QED
      BY <3>2, <3>3 DEF Freeing
  <2>2. CASE G[g].job # L[1].job
    <3>1. WillHold(L, J[G[g].job], G[g].job, g) \/ Freeing(L, G[g].job, g)
      BY <1>0, <1>8 DEF Claimed
    <3>2. L[1].do # "put_gpu"
      OBVIOUS
    <3>3. Freeing(L, G[g].job, g) => Freeing(N, G[g].job, g)
      BY <1>6, <2>2, <3>2, SplicedFreeing
    <3> QED
      BY <3>1, <3>3
  <2> QED
    BY <2>1, <2>2
<1>9. \A i \in DOMAIN M : M[i].do \in Plain /\ M[i].do # "queue" /\ Claiming(M[i], L, J)
  BY <1>5 DEF Plain, Claiming
<1> QED
  BY <1>0, <1>3, <1>4, <1>7, <1>8, <1>9, PlainStays

\* The devices of a placement are listed to be claimed.
LEMMA ClaimStays ==
  ASSUME NEW L, NEW T, NEW J, NEW G, NEW X, NEW Q, NEW B, Good(L, T, J, G, X, Q, B),
         L # <<>>, L[1].do = "claim", NEW N,
         N = PutGpus(L[1].gpus, [occ |-> "TROIANI", job |-> L[1].job]) \o Tail(L)
  PROVE  Good(N, T, J, G, X, Q, B)
<1> DEFINE r == [occ |-> "TROIANI", job |-> L[1].job]
           M == PutGpus(L[1].gpus, r)
<1>0. /\ L \in Seq(WorkStep) /\ J \in [Job -> Records] /\ G \in [Gpu -> GpuRecord]
      /\ Claimed(L, J, G)
  BY DEF Good
<1>1. L[1] \in WorkStep /\ 1 \in DOMAIN L
  BY <1>0, FirstStep
<1>2. L[1].job \in Job /\ L[1].gpus \in SUBSET Gpu
  BY <1>1, StepShape
<1>3. r \in GpuRecord /\ r.job = L[1].job
  BY <1>2 DEF GpuRecord
<1> HIDE DEF r
<1>4. /\ M \in Seq(WorkStep)
      /\ \A i \in DOMAIN M : \E g \in L[1].gpus : M[i] = PutGpu(g, r)
  BY <1>2, <1>3, DeviceWrites
<1>5. N = M \o Tail(L)
  BY DEF r
<1> HIDE DEF M
<1>6. SpliceOf(L, M, N)
  BY <1>0, <1>4, <1>5, SpliceIs
<1>7. ASSUME NEW i \in DOMAIN M
      PROVE  M[i].do = "put_gpu" /\ Claiming(M[i], L, J)
  <2>1. PICK g \in L[1].gpus : M[i] = PutGpu(g, r)
    BY <1>4
  <2>2. M[i].do = "put_gpu" /\ M[i].gpu = g /\ M[i].as.job = L[1].job
    BY <1>3, <2>1, StepFields
  <2>3. WillHold(L, J[L[1].job], L[1].job, g)
    BY <1>0, <1>1 DEF Claimed
  <2> QED
    BY <2>2, <2>3 DEF Claiming
<1>8. \A k \in Job : Keep(L, J[k], N, J[k], X[k], k)
  BY <1>0, <1>4, <1>5, <1>7, QuietKeep
<1>9. \A g \in Gpu : G[g].job # NoJob =>
        WillHold(L, J[G[g].job], G[g].job, g) \/ Freeing(N, G[g].job, g)
  BY <1>0, <1>6, HeldOrFreed
<1>10. \A i \in DOMAIN M : M[i].do \in Plain /\ M[i].do # "queue"
  BY <1>7 DEF Plain
<1> QED
  BY <1>0, <1>4, <1>5, <1>7, <1>8, <1>9, <1>10, PlainStays

\* An order is queued.
LEMMA QueueStays ==
  ASSUME NEW L, NEW T, NEW J, NEW G, NEW X, NEW Q, NEW B, Good(L, T, J, G, X, Q, B),
         L # <<>>, L[1].do = "queue", NEW N, N = <<>> \o Tail(L),
         NEW R, R = Q \/ R = [Q EXCEPT ![L[1].job] = Push(Q[L[1].job], L[1].action)]
  PROVE  Good(N, T, J, G, X, R, B)
<1>0. /\ L \in Seq(WorkStep) /\ J \in [Job -> Records] /\ G \in [Gpu -> GpuRecord]
      /\ Claimed(L, J, G) /\ Q \in [Job -> Seq(Action)] /\ Sending(L, J, X)
  BY DEF Good
<1>1. /\ L[1] \in WorkStep /\ 1 \in DOMAIN L /\ <<>> \in Seq(WorkStep) /\ DOMAIN <<>> = {}
  BY <1>0, FirstStep
<1>2. L[1].job \in Job /\ L[1].action \in Action
  BY <1>1, StepShape
<1>3. SpliceOf(L, <<>>, N)
  BY <1>0, <1>1, SpliceIs
<1>4. \A k \in Job : Keep(L, J[k], N, J[k], X[k], k)
  BY <1>0, <1>1, QuietKeep
<1>5. \A g \in Gpu : G[g].job # NoJob =>
        WillHold(L, J[G[g].job], G[g].job, g) \/ Freeing(N, G[g].job, g)
  BY <1>0, <1>3, HeldOrFreed
<1>6. Good(N, T, J, G, X, Q, B)
  BY <1>0, <1>1, <1>4, <1>5, PlainStays
<1>7. CASE R = Q
  BY <1>6, <1>7
<1>8. CASE R = [Q EXCEPT ![L[1].job] = Push(Q[L[1].job], L[1].action)]
  <2>1. Q[L[1].job] \in Seq(Action)
    BY <1>0, <1>2
  <2>2. Push(Q[L[1].job], L[1].action) \in Seq(Action)
    BY <1>2, <2>1, PushShape
  <2>3. R \in [Job -> Seq(Action)]
    BY <1>0, <1>2, <1>8, <2>2
  <2>4. Fair(L[1].action, N, J[L[1].job], X[L[1].job], L[1].job)
    <3>1. Fair(L[1].action, L, J[L[1].job], X[L[1].job], L[1].job)
      BY <1>0, <1>1 DEF Sending
    <3> QED
      BY <1>2, <1>4, <3>1, KeepFair
  <2>5. Orderly(N, J, X, Q)
    BY <1>6 DEF Good
  <2>6. ASSUME NEW i \in DOMAIN Push(Q[L[1].job], L[1].action)
        PROVE  Fair(Push(Q[L[1].job], L[1].action)[i], N, J[L[1].job], X[L[1].job], L[1].job)
    <3>1. \/ i \in DOMAIN Q[L[1].job] /\ Push(Q[L[1].job], L[1].action)[i] = Q[L[1].job][i]
          \/ Push(Q[L[1].job], L[1].action)[i] = L[1].action
      BY <1>2, <2>1, <2>6 DEF Push
    <3> QED
      BY <1>2, <2>4, <2>5, <3>1 DEF Orderly
  <2>7. R[L[1].job] = Push(Q[L[1].job], L[1].action) /\ \A k \in Job : k # L[1].job => R[k] = Q[k]
    BY <1>0, <1>2, <1>8
  <2>8. Orderly(N, J, X, R)
    BY <2>5, <2>6, <2>7 DEF Orderly
  <2> QED
    BY <1>6, <2>3, <2>8 DEF Good
<1> QED
  BY <1>7, <1>8

\* A list of some steps is a list of steps.
LEMMA ListOfSome ==
  ASSUME NEW S, NEW R, S \subseteq R, NEW L \in Seq(S)
  PROVE  L \in Seq(R) /\ \A i \in DOMAIN L : L[i] \in S
<1>1. \A i \in DOMAIN L : L[i] \in S
  BY Element
<1>2. Len(L) \in Nat /\ DOMAIN L = 1..Len(L) /\ L = [i \in 1..Len(L) |-> L[i]]
  OBVIOUS
<1> QED
  BY <1>1, <1>2

\* Steps that write what is like the record they find, or ask a job to leave.
Harmless(J, X) ==
  {x \in WorkStep :
     \/ x.do = "put_job" /\ Like(J[x.job], x.as, X[x.job])
     \/ x.do = "queue" /\ x.action.kind = "PREEMPT"}

\* They may take the place of a step that frees, ends and writes nothing.
LEMMA HarmlessStay ==
  ASSUME NEW L, NEW T, NEW J, NEW G, NEW X, NEW Q, NEW B, Good(L, T, J, G, X, Q, B),
         L # <<>>, L[1].do \notin {"put_job", "put_gpu", "release", "exit", "requeue"},
         NEW M \in Seq(Harmless(J, X)), NEW N, N = M \o Tail(L)
  PROVE  Good(N, T, J, G, X, Q, B)
<1>0. L \in Seq(WorkStep) /\ J \in [Job -> Records] /\ G \in [Gpu -> GpuRecord] /\ Claimed(L, J, G)
  BY DEF Good
<1>1. M \in Seq(WorkStep) /\ \A i \in DOMAIN M : M[i] \in Harmless(J, X)
  <2>1. Harmless(J, X) \subseteq WorkStep
    BY DEF Harmless
  <2> QED
    BY <2>1, ListOfSome
<1>2. \A i \in DOMAIN M :
        /\ M[i].do \in {"put_job", "queue"}
        /\ M[i].do = "put_job" => Like(J[M[i].job], M[i].as, X[M[i].job])
        /\ M[i].do = "queue" => M[i].action.kind = "PREEMPT"
  BY <1>1 DEF Harmless
<1>3. SpliceOf(L, M, N)
  BY <1>0, <1>1, SpliceIs
<1>4. ASSUME NEW k \in Job
      PROVE  Keep(L, J[k], N, J[k], X[k], k)
  <2>1. Silent(L[1], k) /\ J[k] \in Records
    BY <1>0 DEF Silent
  <2>2. \A i \in Writes(M, k) : Like(J[k], M[i].as, X[k])
    BY <1>2 DEF Writes
  <2>3. ~Ending(M, k)
    BY <1>2 DEF Ending
  <2> QED
    BY <1>0, <1>1, <2>1, <2>2, <2>3, LikeKeep
<1>5. ASSUME NEW i \in DOMAIN M, M[i].do = "queue"
      PROVE  Fair(M[i].action, L, J[M[i].job], X[M[i].job], M[i].job)
  BY <1>2, <1>5 DEF Fair
<1>6. \A i \in DOMAIN M : M[i].do \in Plain /\ Claiming(M[i], L, J)
  BY <1>2 DEF Plain, Claiming
<1>7. \A g \in Gpu : G[g].job # NoJob =>
        WillHold(L, J[G[g].job], G[g].job, g) \/ Freeing(N, G[g].job, g)
  BY <1>0, <1>3, HeldOrFreed
<1> QED
  BY <1>0, <1>1, <1>4, <1>5, <1>6, <1>7, PlainStays

\* Asking a job to leave does to its record what is like it.
LEMMA AskedLike ==
  ASSUME NEW r \in Records, NEW p
  PROVE  /\ [r EXCEPT !.preempt = TRUE] \in Records /\ Like(r, [r EXCEPT !.preempt = TRUE], p)
         /\ r.state = "RUNNING" => Asked(r) \in Records /\ Like(r, Asked(r), p)
<1>1. r \in JobRecord /\ ~r.overdue
  BY DEF Records
<1>2. [r EXCEPT !.preempt = TRUE] \in Records /\ Like(r, [r EXCEPT !.preempt = TRUE], p)
  BY <1>1 DEF Records, JobRecord, Like
<1>3. ASSUME r.state = "RUNNING"
      PROVE  Asked(r) \in Records /\ Like(r, Asked(r), p)
  <2>1. Asked(r) = [r EXCEPT !.preempt = TRUE, !.state = "CHECKPOINTING"]
    BY <1>3 DEF Asked
  <2>2. "CHECKPOINTING" \in JobState
    BY DEF JobState
  <2>3. Asked(r) \in Records
    BY <1>1, <2>1, <2>2 DEF Records, JobRecord
  <2> QED
    BY <1>1, <1>3, <2>1, <2>3 DEF Like, JobRecord, ActiveStates
<1> QED
  BY <1>2, <1>3

\* A job is asked to leave.
LEMMA PreemptStays ==
  ASSUME NEW L, NEW T, NEW J, NEW G, NEW X, NEW Q, NEW B, Good(L, T, J, G, X, Q, B),
         L # <<>>, L[1].do = "preempt", NEW j, j = L[1].job, NEW N,
         \/ N = <<>> \o Tail(L)
         \/ N = (<<Put(j, [J[j] EXCEPT !.preempt = TRUE]), Queue(J[j].node, j, Order("PREEMPT"))>>
                   \o IF J[j].state = "RUNNING"
                      THEN <<Put(j, Asked(J[j])), Put(j, Asked(J[j]))>> ELSE <<>>)
                  \o Tail(L)
  PROVE  Good(N, T, J, G, X, Q, B)
<1>0. L \in Seq(WorkStep) /\ J \in [Job -> Records]
  BY DEF Good
<1>1. j \in Job
  <2>1. L[1] \in WorkStep
    BY <1>0, FirstStep
  <2> QED
    BY <2>1, StepShape
<1>2. J[j] \in Records /\ J[j].node \in Node \cup {NoNode}
  <2>1. J[j] \in Records
    BY <1>0, <1>1
  <2> QED
    BY <2>1 DEF Records, JobRecord
<1>3. Order("PREEMPT") \in Action /\ Order("PREEMPT").kind = "PREEMPT"
  BY DEF Order, Action
<1>4. Queue(J[j].node, j, Order("PREEMPT")) \in Harmless(J, X)
  <2>1. PICK x : x = Queue(J[j].node, j, Order("PREEMPT"))
    OBVIOUS
  <2>2. x \in WorkStep
    BY <1>1, <1>2, <1>3, <2>1, StepsMade
  <2>3. x.do = "queue" /\ x.action.kind = "PREEMPT"
    BY <1>3, <2>1, StepFields
  <2> QED
    BY <2>1, <2>2, <2>3 DEF Harmless
<1>5. ASSUME NEW r \in Records, Like(J[j], r, X[j])
      PROVE  Put(j, r) \in Harmless(J, X)
  BY <1>1, <1>5, StepsMade, StepFields DEF Harmless
<1>6. Put(j, [J[j] EXCEPT !.preempt = TRUE]) \in Harmless(J, X)
  BY <1>2, <1>5, AskedLike
<1>7. J[j].state = "RUNNING" => Put(j, Asked(J[j])) \in Harmless(J, X)
  BY <1>2, <1>5, AskedLike
<1>8. PICK M \in Seq(Harmless(J, X)) : N = M \o Tail(L)
  <2>1. CASE N = <<>> \o Tail(L)
    <3>1. <<>> \in Seq(Harmless(J, X))
      OBVIOUS
    <3> QED
      BY <2>1, <3>1
  <2>2. CASE N # <<>> \o Tail(L)
    <3> DEFINE a == Put(j, [J[j] EXCEPT !.preempt = TRUE])
               b == Queue(J[j].node, j, Order("PREEMPT"))
               c == Put(j, Asked(J[j]))
    <3>0. N = (<<a, b>> \o IF J[j].state = "RUNNING" THEN <<c, c>> ELSE <<>>) \o Tail(L)
      BY <2>2
    <3>1. a \in Harmless(J, X) /\ b \in Harmless(J, X)
      BY <1>4, <1>6
    <3>2. J[j].state = "RUNNING" => c \in Harmless(J, X)
      BY <1>7
    <3> HIDE DEF a, b, c
    <3>3. <<a, b>> \in Seq(Harmless(J, X))
      BY <3>1
    <3>4. CASE J[j].state = "RUNNING"
      <4>1. <<a, b>> \o <<c, c>> \in Seq(Harmless(J, X))
        BY <3>1, <3>2, <3>3, <3>4
      <4> QED
        BY <3>0, <3>4, <4>1
    <3>5. CASE J[j].state # "RUNNING"
      <4>1. <<a, b>> \o <<>> \in Seq(Harmless(J, X))
        BY <3>3
      <4> QED
        BY <3>0, <3>5, <4>1
    <3> QED
      BY <3>4, <3>5
  <2> QED
    BY <2>1, <2>2
<1> QED
  BY <1>8, HarmlessStay

\* What comes after the first step is of a kind that may.
LEMMA RestMay ==
  ASSUME NEW L \in Seq(WorkStep), L # <<>>, InOrder(L), NEW b \in DOMAIN L, b # 1
  PROVE  L[b].do \in May(L[1].do) /\ L[b] \in WorkStep
<1>1. 1 \in DOMAIN L /\ 1 < b
  OBVIOUS
<1>2. L[b].do \in May(L[1].do)
  BY <1>1 DEF InOrder
<1> QED
  BY <1>2, Element

\* What each step of a heartbeat or an exit may be followed by.
LEMMA MayAfter ==
  /\ May("refresh") = {"refresh", "reconcile", "pass", "answer"}
  /\ May("reconcile") = {"pass", "answer"} /\ May("pass") = {"answer"}
  /\ May("decide") = {"answer"} /\ May("answer") = {}
  /\ May("exit") = {"exit", "pass", "answer"} /\ May("requeue") = May("exit")
  /\ May("sync") = May("exit")
  /\ May("put_job") = Kinds \ {"decide"} /\ May("release") = Kinds \ {"decide"}
  /\ May("put_gpu") = Kinds \ {"decide"} /\ May("preempt") = Kinds \ {"decide"}
  /\ May("claim") = Kinds \ {"decide"} /\ May("queue") = Kinds \ {"decide"}
BY DEF May, Plain, Kinds

\* A pass lists the jobs.
LEMMA PassStays ==
  ASSUME NEW L, NEW T, NEW J, NEW G, NEW X, NEW Q, NEW B, Good(L, T, J, G, X, Q, B),
         L # <<>>, L[1].do = "pass", NEW N, N = <<[do |-> "decide", jobs |-> J]>> \o Tail(L)
  PROVE  Good(N, T, J, G, X, Q, B)
<1>0. /\ L \in Seq(WorkStep) /\ J \in [Job -> Records] /\ G \in [Gpu -> GpuRecord]
      /\ Claimed(L, J, G) /\ InOrder(L)
  BY DEF Good
<1>1. PICK d : d = [do |-> "decide", jobs |-> J]
  OBVIOUS
<1>2. d \in WorkStep /\ d.do = "decide" /\ d.jobs = J
  BY <1>0, <1>1 DEF WorkStep
<1>3. PICK M : M = <<d>>
  OBVIOUS
<1>4. M \in Seq(WorkStep) /\ N = M \o Tail(L) /\ \A i \in DOMAIN M : i = 1 /\ M[i] = d
  BY <1>1, <1>2, <1>3
<1>5. SpliceOf(L, M, N)
  BY <1>0, <1>4, SpliceIs
<1>6. \A k \in Job : Keep(L, J[k], N, J[k], X[k], k)
  BY <1>0, <1>2, <1>4, QuietKeep
<1>7. InOrder(M) /\ \A i \in DOMAIN M : May(L[1].do) \subseteq May(M[i].do)
  BY <1>2, <1>4, MayAfter DEF InOrder
<1>8. \A i \in DOMAIN M : M[i].do # "queue" /\ Claiming(M[i], L, J)
  BY <1>2, <1>4 DEF Claiming
<1>9. \A g \in Gpu : G[g].job # NoJob =>
        WillHold(L, J[G[g].job], G[g].job, g) \/ Freeing(N, G[g].job, g)
  BY <1>0, <1>5, HeldOrFreed
<1>10. Current(N, J, X)
  <2>1. \A b \in DOMAIN L : b # 1 => L[b].do = "answer"
    BY <1>0, RestMay, MayAfter
  <2>2. \A i \in DOMAIN N : N[i].do = "answer" \/ N[i] = d
    BY <1>4, <1>5, <2>1, SpliceElements
  <2>3. \A j \in Job : Alike(d.jobs[j], J[j])
    BY <1>2 DEF Alike
  <2> QED
    BY <1>2, <2>2, <2>3 DEF Current
<1> QED
  BY <1>0, <1>4, <1>6, <1>7, <1>8, <1>9, <1>10, GoodStays

\* Pointing a record at a checkpoint leaves it like it was.
LEMMA PointedLike ==
  ASSUME NEW r \in Records, NEW p
  PROVE  [r EXCEPT !.ckpt = "usable"] \in Records /\ Like(r, [r EXCEPT !.ckpt = "usable"], p)
BY DEF Records, JobRecord, Checkpoint, Like

\* The checkpoint of a job is looked up.
LEMMA SyncStays ==
  ASSUME NEW L, NEW T, NEW J, NEW G, NEW X, NEW Q, NEW B, Good(L, T, J, G, X, Q, B),
         L # <<>>, L[1].do = "sync", NEW j, j = L[1].job, NEW N,
         \/ N = <<>> \o Tail(L)
         \/ N = <<Put(j, [J[j] EXCEPT !.ckpt = "usable"])>> \o Tail(L)
  PROVE  Good(N, T, J, G, X, Q, B)
<1>0. L \in Seq(WorkStep) /\ J \in [Job -> Records]
  BY DEF Good
<1>1. j \in Job
  <2>1. L[1] \in WorkStep
    BY <1>0, FirstStep
  <2> QED
    BY <2>1, StepShape
<1>2. J[j] \in Records
  BY <1>0, <1>1
<1>3. PICK x : x = Put(j, [J[j] EXCEPT !.ckpt = "usable"])
  OBVIOUS
<1>4. x \in Harmless(J, X)
  <2>1. PICK r \in Records : r = [J[j] EXCEPT !.ckpt = "usable"] /\ Like(J[j], r, X[j])
    BY <1>2, PointedLike
  <2> QED
    BY <1>1, <1>3, <2>1, StepsMade, StepFields DEF Harmless
<1>5. <<x>> \in Seq(Harmless(J, X)) /\ <<>> \in Seq(Harmless(J, X))
  BY <1>4
<1> QED
  BY <1>3, <1>5, HarmlessStay

\* The worker is answered.
LEMMA AnswerStays ==
  ASSUME NEW L, NEW T, NEW J, NEW G, NEW X, NEW Q, NEW B, Good(L, T, J, G, X, Q, B),
         L # <<>>, L[1].do = "answer", NEW N, N = <<>> \o Tail(L)
  PROVE  Good(N, T, J, G, X, Nothing, Q) /\ N = <<>>
<1>0. L \in Seq(WorkStep) /\ InOrder(L) /\ Q \in [Job -> Seq(Action)]
  BY DEF Good
<1>1. \A b \in DOMAIN L : b = 1
  BY <1>0, RestMay, MayAfter
<1>2. N = <<>>
  BY <1>0, <1>1
<1>3. <<>> \in Seq(Harmless(J, X))
  OBVIOUS
<1>4. Good(N, T, J, G, X, Q, B)
  BY <1>3, HarmlessStay
<1>5. Orderly(N, J, X, Nothing)
  BY DEF Orderly, Nothing
<1> QED
  BY <1>2, <1>4, <1>5, NothingShape DEF Good

\* A device's record is read for its refresh.
LEMMA RefreshStays ==
  ASSUME NEW L, NEW T, NEW J, NEW G, NEW X, NEW Q, NEW B, Good(L, T, J, G, X, Q, B),
         L # <<>>, L[1].do = "refresh", NEW g, g = L[1].gpu,
         NEW R \in GpuRecord, R.job \in {NoJob, G[g].job},
         NEW N, N = <<PutGpu(g, R)>> \o Tail(L)
  PROVE  Good(N, T, J, G, X, Q, B)
<1>0. /\ L \in Seq(WorkStep) /\ J \in [Job -> Records] /\ G \in [Gpu -> GpuRecord]
      /\ Claimed(L, J, G) /\ InOrder(L)
  BY DEF Good
<1>1. L[1] \in WorkStep /\ g \in Gpu
  <2>1. L[1] \in WorkStep
    BY <1>0, FirstStep
  <2> QED
    BY <2>1, StepShape
<1>2. PICK x : x = PutGpu(g, R)
  OBVIOUS
<1>3. x \in WorkStep /\ x.do = "put_gpu" /\ x.gpu = g /\ x.as = R
  BY <1>1, <1>2, StepsMade, StepFields
<1>4. PICK M : M = <<x>>
  OBVIOUS
<1>5. M \in Seq(WorkStep) /\ N = M \o Tail(L) /\ \A i \in DOMAIN M : i = 1 /\ M[i] = x
  BY <1>2, <1>3, <1>4
<1>6. SpliceOf(L, M, N)
  BY <1>0, <1>5, SpliceIs
<1>7. \A k \in Job : Keep(L, J[k], N, J[k], X[k], k)
  BY <1>0, <1>3, <1>5, QuietKeep
<1>8. Claiming(x, L, J)
  <2>1. ASSUME R.job # NoJob
        PROVE  WillHold(L, J[R.job], R.job, g)
    <3>1. R.job = G[g].job
      BY <2>1
    <3>2. \A b \in DOMAIN L : L[b].do \notin {"release", "put_gpu"}
      BY <1>0, RestMay, MayAfter
    <3>3. ~Freeing(L, G[g].job, g)
      BY <3>2 DEF Freeing
    <3> QED
      BY <1>0, <1>1, <2>1, <3>1, <3>3 DEF Claimed
  <2> QED
    BY <1>3, <2>1 DEF Claiming
<1>9. \A i \in DOMAIN M : M[i].do \in Plain /\ M[i].do # "queue" /\ Claiming(M[i], L, J)
  BY <1>3, <1>5, <1>8 DEF Plain
<1>10. \A d \in Gpu : G[d].job # NoJob =>
        WillHold(L, J[G[d].job], G[d].job, d) \/ Freeing(N, G[d].job, d)
  BY <1>0, <1>6, HeldOrFreed
<1> QED
  BY <1>0, <1>5, <1>7, <1>9, <1>10, PlainStays

\* What a list without writes leaves is what is there.
LEMMA UntouchedOutcome ==
  ASSUME NEW L, \A i \in DOMAIN L : L[i].do # "put_job", NEW j, NEW r0, NEW r
  PROVE  Outcome(L, r0, j, r) <=> r = r0
BY DEF Outcome, Writes

\* Exits of jobs that the worker listed as dead, or not at all though they run.
ExitsOf(M, procs, J) ==
  \A i \in DOMAIN M :
    /\ M[i].do = "exit"
    /\ \/ procs[M[i].job] = "dead"
       \/ procs[M[i].job] = "none" /\ J[M[i].job].state \in {"RUNNING", "CHECKPOINTING"}

\* The worker's jobs are reconciled with its processes.
LEMMA ReconcileStays ==
  ASSUME NEW L, NEW T, NEW J, NEW G, NEW X, NEW Q, NEW B, Good(L, T, J, G, X, Q, B),
         L # <<>>, L[1].do = "reconcile",
         NEW M \in Seq(WorkStep), NEW N, N = M \o Tail(L),
         ExitsOf(M, L[1].procs, J)
  PROVE  Good(N, T, J, G, X, Q, B)
<1> USE DEF ExitsOf
<1>0. /\ L \in Seq(WorkStep) /\ J \in [Job -> Records] /\ G \in [Gpu -> GpuRecord]
      /\ Claimed(L, J, G) /\ InOrder(L) /\ Current(L, J, X)
      /\ \A k \in Job : Life(L, T[k], J[k], X[k], k)
  BY DEF Good
<1>1. L[1] \in WorkStep /\ 1 \in DOMAIN L
  BY <1>0, FirstStep
<1>2. \A b \in DOMAIN L : L[b].do \notin {"put_job", "exit", "requeue"}
  BY <1>0, RestMay, MayAfter
<1>3. SpliceOf(L, M, N)
  BY <1>0, SpliceIs
<1>4. ASSUME NEW i \in DOMAIN M
      PROVE  M[i].job \in Job /\ X[M[i].job].st \in Ended
  <2>1. M[i].job \in Job
    BY Element, StepShape
  <2>2. CASE L[1].procs[M[i].job] = "dead"
    BY <1>0, <1>1, <2>1, <2>2 DEF Current
  <2>3. CASE L[1].procs[M[i].job] = "none" /\ J[M[i].job].state \in {"RUNNING", "CHECKPOINTING"}
    <3> DEFINE k == M[i].job
               r == J[M[i].job]
    <3>1. X[k].st = "none"
      BY <1>0, <1>1, <2>1, <2>3 DEF Current
    <3>2. r \in Records /\ Outcome(L, r, k, r) /\ ~Ending(L, k)
      BY <1>0, <1>2, <2>1, UntouchedOutcome DEF Ending
    <3>3. Off(r) \/ Waits(r, r.gpus)
      <4>1. Life(L, T[k], r, X[k], k)
        BY <1>0, <2>1
      <4> HIDE DEF k, r
      <4> QED
        BY <3>1, <3>2, <4>1 DEF Life
    <3> QED
      BY <2>3, <3>3 DEF Off, Waits
  <2> QED
    BY <2>1, <2>2, <2>3
<1>5. ASSUME NEW k \in Job
      PROVE  Keep(L, J[k], N, J[k], X[k], k)
  <2>1. Silent(L[1], k) /\ J[k] \in Records
    BY <1>0 DEF Silent
  <2>2. Writes(M, k) = {}
    BY DEF Writes
  <2>3. X[k].st \notin Ended => ~Ending(M, k)
    BY <1>4 DEF Ending
  <2> QED
    BY <1>0, <2>1, <2>2, <2>3, LikeKeep
<1>6. InOrder(M) /\ \A i \in DOMAIN M : May(L[1].do) \subseteq May(M[i].do)
  BY MayAfter DEF InOrder
<1>7. \A i \in DOMAIN M : M[i].do # "queue" /\ Claiming(M[i], L, J)
  BY DEF Claiming
<1>8. \A g \in Gpu : G[g].job # NoJob =>
        WillHold(L, J[G[g].job], G[g].job, g) \/ Freeing(N, G[g].job, g)
  BY <1>0, <1>3, HeldOrFreed
<1>9. Current(N, J, X)
  BY <1>0, <1>3, CurrentStays
<1> QED
  BY <1>0, <1>5, <1>6, <1>7, <1>8, <1>9, GoodStays

\* The last write of a list is what it leaves.
LEMMA LastWrite ==
  ASSUME NEW L \in Seq(WorkStep), NEW j, NEW i \in Writes(L, j),
         \A k \in Writes(L, j) : k <= i, NEW r0, NEW r, Outcome(L, r0, j, r)
  PROVE  r = L[i].as
<1>1. Writes(L, j) \subseteq Nat
  BY WritesRange
<1>2. ASSUME NEW k \in Writes(L, j), \A b \in Writes(L, j) : b <= k
      PROVE  k = i
  BY <1>1, <1>2
<1> QED
  BY <1>2 DEF Outcome

\* The steps in which an exit ends.
Closing(j) ==
  {x \in WorkStep : x.do \in {"put_job", "release", "sync"} /\ x.job = j}

\* Where nothing was to be written, a list leaves what its new steps make.
LEMMA NewOutcome ==
  ASSUME NEW L \in Seq(WorkStep), L # <<>>, NEW M \in Seq(WorkStep), NEW N, N = M \o Tail(L),
         NEW j, Writes(L, j) = {}, NEW r0, NEW r, Outcome(N, r0, j, r)
  PROVE  Outcome(M, r0, j, r)
<1>1. 1 \notin Writes(L, j)
  OBVIOUS
<1> QED
  BY <1>1, SplicedOutcome

\* The exit of a job is taken: its record comes to rest, and its devices are freed.
LEMMA EndStays ==
  ASSUME NEW L, NEW T, NEW J, NEW G, NEW X, NEW Q, NEW B, Good(L, T, J, G, X, Q, B),
         L # <<>>, L[1].do \in {"exit", "requeue"}, NEW j, j = L[1].job,
         NEW M \in Seq(Closing(j)), NEW N, N = M \o Tail(L), InOrder(M),
         \A r \in Records : Outcome(M, J[j], j, r) =>
           /\ r.state \notin ActiveStates
           /\ Off(J[j]) \/ J[j].state \in ActiveStates => Off(r)
           /\ Rests(J[j]) \/ J[j].state \in ActiveStates => Rests(r),
         J[j].state \notin ActiveStates \/ \E i \in DOMAIN M : M[i].do = "release"
  PROVE  Good(N, T, J, G, X, Q, B)
<1>0. /\ L \in Seq(WorkStep) /\ J \in [Job -> Records] /\ G \in [Gpu -> GpuRecord]
      /\ Apart(L, J) /\ Claimed(L, J, G) /\ InOrder(L) /\ Current(L, J, X)
      /\ Orderly(L, J, X, Q) /\ Orderly(L, J, X, B)
      /\ \A k \in Job : Life(L, T[k], J[k], X[k], k)
  BY DEF Good
<1>1. L[1] \in WorkStep /\ 1 \in DOMAIN L /\ j \in Job
  <2>1. L[1] \in WorkStep /\ 1 \in DOMAIN L
    BY <1>0, FirstStep
  <2> QED
    BY <2>1, StepShape
<1>2. M \in Seq(WorkStep) /\ \A i \in DOMAIN M : M[i] \in Closing(j)
  <2>1. Closing(j) \subseteq WorkStep
    BY DEF Closing
  <2> QED
    BY <2>1, ListOfSome
<1>3. \A i \in DOMAIN M : M[i].do \in {"put_job", "release", "sync"} /\ M[i].job = j
  BY <1>2 DEF Closing
<1>4. SpliceOf(L, M, N) /\ N \in Seq(WorkStep)
  BY <1>0, <1>2, SpliceIs
<1>5. \A b \in DOMAIN L : b # 1 => L[b].do \in {"exit", "pass", "answer"}
  BY <1>0, RestMay, MayAfter
<1>6. \A b \in DOMAIN L : L[b].do # "put_job"
  BY <1>5
<1>7. Ending(L, j)
  BY <1>1 DEF Ending
<1>8. \A k \in Job : Writes(L, k) = {}
  BY <1>6 DEF Writes
<1>9. ASSUME NEW r \in Records, Outcome(N, J[j], j, r)
      PROVE  Outcome(M, J[j], j, r)
  <2>1. Writes(L, j) = {}
    BY <1>1, <1>8
  <2> QED
    BY <1>0, <1>2, <1>9, <2>1, NewOutcome
<1>10. ASSUME NEW k \in Job, k # j
       PROVE  Keep(L, J[k], N, J[k], X[k], k)
  <2>1. Silent(L[1], k) /\ J[k] \in Records
    BY <1>0, <1>10 DEF Silent
  <2>2. Writes(M, k) = {} /\ ~Ending(M, k)
    BY <1>3, <1>10 DEF Writes, Ending
  <2> QED
    BY <1>0, <1>2, <2>1, <2>2, LikeKeep
<1>11. J[j] \in Records /\ Outcome(L, J[j], j, J[j])
  BY <1>0, <1>1, <1>6, UntouchedOutcome
<1>12. X[j].st \notin Living /\ T[j] = <<>>
  <2>1. Life(L, T[j], J[j], X[j], j)
    BY <1>0, <1>1
  <2> QED
    BY <1>7, <2>1 DEF Life
<1>13. Life(N, T[j], J[j], X[j], j)
  <2>1. Life(L, T[j], J[j], X[j], j)
    BY <1>0, <1>1
  <2>2. ASSUME X[j].st \in Ended, NEW r \in Records, Outcome(N, J[j], j, r)
        PROVE  Rests(r)
    <3>1. Runs(J[j], X[j].gpus) \/ Rests(J[j])
      BY <1>11, <2>1, <2>2 DEF Life
    <3>2. J[j].state \in ActiveStates \/ Rests(J[j])
      BY <3>1 DEF Runs
    <3> QED
      BY <1>9, <2>2, <3>2
  <2>3. ASSUME X[j].st = "none", NEW r \in Records, Outcome(N, J[j], j, r)
        PROVE  Off(r)
    <3>1. Off(J[j]) \/ Waits(J[j], J[j].gpus) \/ Runs(J[j], J[j].gpus)
      BY <1>11, <2>1, <2>3 DEF Life
    <3>2. Off(J[j]) \/ J[j].state \in ActiveStates
      BY <3>1 DEF Runs, Waits, ActiveStates
    <3> QED
      BY <1>9, <2>3, <3>2
  <2> QED
    BY <1>12, <2>2, <2>3 DEF Life
<1>14. \A k \in Job : Life(N, T[k], J[k], X[k], k)
  BY <1>0, <1>10, <1>13, KeepLife
<1>15. Apart(N, J)
  <2>1. Shrinks(L, J[j], N, J[j], j)
    BY <1>9 DEF Shrinks
  <2>2. \A k \in Job : Shrinks(L, J[k], N, J[k], k)
    BY <1>10, <2>1, KeepShrinks
  <2> QED
    BY <1>0, <2>2, ShrinksApart
<1>16. ASSUME NEW i \in DOMAIN N
      PROVE  N[i].do \notin {"put_gpu", "claim", "queue"}
  <2>1. CASE i \in DOMAIN M /\ N[i] = M[i]
    BY <1>3, <2>1
  <2>2. ASSUME NEW b \in DOMAIN L, b # 1, N[i] = L[b]
        PROVE  N[i].do \notin {"put_gpu", "claim", "queue"}
    BY <1>5, <2>2
  <2> QED
    BY <1>4, <2>1, <2>2, SpliceElements
<1>17. Claimed(N, J, G)
  <2>1. \A i \in DOMAIN N : N[i].do \notin {"put_gpu", "claim"}
    BY <1>16
  <2>2. ASSUME NEW g \in Gpu, G[g].job # NoJob
        PROVE  WillHold(N, J[G[g].job], G[g].job, g) \/ Freeing(N, G[g].job, g)
    <3>1. G[g].job \in Job
      BY <1>0, <2>2 DEF GpuRecord
    <3>2. \A b \in DOMAIN L : L[b].do \notin {"release", "put_gpu"}
      BY <1>5
    <3>3. ~Freeing(L, G[g].job, g)
      BY <3>2 DEF Freeing
    <3>4. WillHold(L, J[G[g].job], G[g].job, g)
      BY <1>0, <2>2, <3>3 DEF Claimed
    <3>5. CASE G[g].job # j
      BY <1>10, <3>1, <3>4, <3>5, KeepHold
    <3>6. CASE G[g].job = j
      <4>1. J[j].state \in ActiveStates
        BY <1>11, <3>4, <3>6 DEF WillHold
      <4>2. PICK i \in DOMAIN M : M[i].do = "release"
        BY <4>1
      <4>3. i \in DOMAIN N /\ N[i] = M[i] /\ M[i].job = j
        BY <1>3, <1>4, <4>2 DEF SpliceOf
      <4> QED
        BY <3>6, <4>2, <4>3 DEF Freeing
    <3> QED
      BY <3>5, <3>6
  <2> QED
    BY <2>1, <2>2 DEF Claimed
<1>18. InOrder(N)
  <2>1. \A i \in DOMAIN M : May(L[1].do) \subseteq May(M[i].do)
    BY <1>3, MayAfter DEF Kinds, Plain
  <2> QED
    BY <1>0, <1>2, <2>1, SplicedOrder
<1>19. Current(N, J, X)
  BY <1>0, <1>3, <1>4, CurrentStays
<1>20. ASSUME NEW k \in Job, NEW a, Fair(a, L, J[k], X[k], k)
       PROVE  Fair(a, N, J[k], X[k], k)
  <2>1. CASE k = j
    BY <1>7, <1>20, <2>1 DEF Fair
  <2>2. CASE k # j
    BY <1>10, <1>20, <2>2, KeepFair
  <2> QED
    BY <2>1, <2>2
<1>21. Orderly(N, J, X, Q) /\ Orderly(N, J, X, B)
  BY <1>0, <1>20 DEF Orderly
<1>22. Sending(N, J, X)
  <2>1. \A i \in DOMAIN N : N[i].do # "queue"
    BY <1>16
  <2> QED
    BY <2>1 DEF Sending
<1> QED
  BY <1>4, <1>14, <1>15, <1>17, <1>18, <1>19, <1>21, <1>22 DEF Good

\* The exit of a job is found to be one of a preemption.
LEMMA PreemptedStays ==
  ASSUME NEW L, NEW T, NEW J, NEW G, NEW X, NEW Q, NEW B, Good(L, T, J, G, X, Q, B),
         L # <<>>, L[1].do = "exit", NEW N, N = <<Of("requeue", L[1].job)>> \o Tail(L)
  PROVE  Good(N, T, J, G, X, Q, B)
<1>0. /\ L \in Seq(WorkStep) /\ J \in [Job -> Records] /\ G \in [Gpu -> GpuRecord]
      /\ Claimed(L, J, G) /\ InOrder(L) /\ Current(L, J, X)
  BY DEF Good
<1>1. L[1] \in WorkStep /\ 1 \in DOMAIN L /\ L[1].job \in Job
  <2>1. L[1] \in WorkStep /\ 1 \in DOMAIN L
    BY <1>0, FirstStep
  <2> QED
    BY <2>1, StepShape
<1>2. PICK x : x = Of("requeue", L[1].job)
  OBVIOUS
<1>3. x \in WorkStep /\ x.do = "requeue" /\ x.job = L[1].job
  BY <1>1, <1>2, StepsMade, StepFields
<1>4. PICK M : M = <<x>>
  OBVIOUS
<1>5. /\ M \in Seq(WorkStep) /\ N = M \o Tail(L) /\ \A i \in DOMAIN M : i = 1 /\ M[i] = x
      /\ 1 \in DOMAIN M
  BY <1>2, <1>3, <1>4
<1>6. SpliceOf(L, M, N)
  BY <1>0, <1>5, SpliceIs
<1>7. ASSUME NEW k \in Job
      PROVE  Keep(L, J[k], N, J[k], X[k], k)
  <2>1. \A b \in DOMAIN L : L[b].do # "put_job"
    BY <1>0, RestMay, MayAfter
  <2>2. \A i \in DOMAIN N : N[i].do # "put_job"
    BY <1>3, <1>5, <1>6, <2>1, SpliceElements
  <2>3. ASSUME NEW r \in Records, Outcome(N, J[k], k, r)
        PROVE  r = J[k] /\ Outcome(L, J[k], k, J[k])
    <3>1. r = J[k]
      BY <2>2, <2>3 DEF Outcome, Writes
    <3>2. Outcome(L, J[k], k, J[k])
      BY <2>1, UntouchedOutcome
    <3> QED
      BY <3>1, <3>2
  <2>4. Writes(N, k) = {}
    BY <2>2 DEF Writes
  <2>5. Ending(N, k) <=> Ending(L, k)
    <3>1. CASE k = L[1].job
      <4>1. Ending(L, k) /\ Ending(M, k)
        BY <1>1, <1>3, <1>5, <3>1 DEF Ending
      <4> QED
        BY <1>6, <4>1, SplicedEnding
    <3>2. CASE k # L[1].job
      <4>1. Silent(L[1], k) /\ ~Ending(M, k)
        BY <1>3, <1>5, <3>2 DEF Silent, Ending
      <4> QED
        BY <1>6, <4>1, SplicedEnding
    <3> QED
      BY <3>1, <3>2
  <2>6. J[k] \in Records
    BY <1>0
  <2> QED
    BY <2>3, <2>4, <2>5, <2>6, LikeItself DEF Keep
<1>8. InOrder(M) /\ \A i \in DOMAIN M : May(L[1].do) \subseteq May(M[i].do)
  BY <1>3, <1>5, MayAfter DEF InOrder
<1>9. \A i \in DOMAIN M : M[i].do \notin {"queue", "reconcile", "decide"} /\ Claiming(M[i], L, J)
  BY <1>3, <1>5 DEF Claiming
<1>10. \A g \in Gpu : G[g].job # NoJob =>
        WillHold(L, J[G[g].job], G[g].job, g) \/ Freeing(N, G[g].job, g)
  BY <1>0, <1>6, HeldOrFreed
<1>11. Current(N, J, X)
  BY <1>0, <1>6, <1>9, CurrentStays
<1> QED
  BY <1>0, <1>5, <1>7, <1>8, <1>9, <1>10, <1>11, GoodStays

\* The steps in which an exit ends are steps.
LEMMA ClosingSteps ==
  ASSUME NEW j \in Job
  PROVE  /\ \A r \in Records : Put(j, r) \in Closing(j)
         /\ Of("release", j) \in Closing(j) /\ Of("sync", j) \in Closing(j)
         /\ \A r \in Records, path \in Seq(JobState) : Walk(j, r, path) \in Seq(Closing(j))
<1>1. \A r \in Records : Put(j, r) \in Closing(j)
  BY StepsMade, StepFields DEF Closing
<1>2. ASSUME NEW what \in {"release", "sync"}
      PROVE  Of(what, j) \in Closing(j)
  <2>1. PICK x : x = Of(what, j)
    OBVIOUS
  <2>2. x \in WorkStep /\ x.do = what /\ x.job = j
    BY <2>1, StepsMade, StepFields
  <2> QED
    BY <2>1, <2>2 DEF Closing
<1>3. ASSUME NEW r \in Records, NEW path \in Seq(JobState)
      PROVE  Walk(j, r, path) \in Seq(Closing(j))
  <2>1. ASSUME NEW i \in 1..Len(path)
        PROVE  Put(j, [r EXCEPT !.state = path[i]]) \in Closing(j)
    <3>1. path[i] \in JobState
      OBVIOUS
    <3>2. [r EXCEPT !.state = path[i]] \in Records
      BY <3>1 DEF Records, JobRecord
    <3> QED
      BY <1>1, <3>2
  <2>2. Len(path) \in Nat
    OBVIOUS
  <2> DEFINE f == [i \in 1..Len(path) |-> Put(j, [r EXCEPT !.state = path[i]])]
  <2>3. f \in [1..Len(path) -> Closing(j)]
    BY <2>1
  <2>4. f = Walk(j, r, path)
    BY DEF Walk
  <2> HIDE DEF f
  <2>5. f \in Seq(Closing(j))
    BY <2>2, <2>3
  <2> QED
    BY <2>4, <2>5
<1> QED
  BY <1>1, <1>2, <1>3

\* Steps of an exit that end in a release or a look at the checkpoints are in order.
LEMMA ClosingOrder ==
  ASSUME NEW j, NEW W \in Seq(Closing(j)),
         \A i \in DOMAIN W : W[i].do = "sync" => i = Len(W)
  PROVE  InOrder(W)
<1> SUFFICES ASSUME NEW i \in DOMAIN W, NEW k \in DOMAIN W, i < k
             PROVE  W[k].do \in May(W[i].do)
  BY DEF InOrder
<1>1. i # Len(W)
  OBVIOUS
<1>2. W[i] \in Closing(j) /\ W[k] \in Closing(j)
  BY Element
<1>3. W[i].do \in {"put_job", "release"} /\ W[k].do \in {"put_job", "release", "sync"}
  BY <1>1, <1>2 DEF Closing
<1>4. May(W[i].do) = Kinds \ {"decide"}
  BY <1>3, MayAfter
<1> QED
  BY <1>3, <1>4 DEF Kinds, Plain

\* What the verdicts make of a record.
LEMMA SettledAs ==
  ASSUME Cools, NEW r \in Records
  PROVE  /\ \A v \in {"completed", "failed"} :
              /\ Settled(r, v) \in Records /\ Rests(Settled(r, v)) /\ Off(Settled(r, v))
              /\ Settled(r, v).state \notin ActiveStates
         /\ r.state \in ActiveStates \cup {"PREEMPTED"} =>
              /\ Settled(r, "preempted") \in Records
              /\ Rests(Settled(r, "preempted")) /\ Off(Settled(r, "preempted"))
              /\ Settled(r, "preempted").state \notin ActiveStates
<1>1. r \in JobRecord /\ ~r.overdue
  BY DEF Records
<1>2. Settled(r, "completed") = [r EXCEPT !.state = "COMPLETED", !.gpus = {}]
  BY DEF Settled
<1>3. Settled(r, "failed") = [r EXCEPT !.state = "FAILED", !.gpus = {}]
  BY DEF Settled
<1>4. PICK c : c = [r EXCEPT !.state = "COMPLETED", !.gpus = {}]
  OBVIOUS
<1>5. c \in Records /\ c.state = "COMPLETED" /\ c.gpus = {}
  BY <1>1, <1>4 DEF Records, JobRecord, JobState
<1>6. PICK f : f = [r EXCEPT !.state = "FAILED", !.gpus = {}]
  OBVIOUS
<1>7. f \in Records /\ f.state = "FAILED" /\ f.gpus = {}
  BY <1>1, <1>6 DEF Records, JobRecord, JobState
<1>8. ASSUME r.state \in ActiveStates \cup {"PREEMPTED"}
      PROVE  /\ Settled(r, "preempted") \in Records
             /\ Rests(Settled(r, "preempted")) /\ Off(Settled(r, "preempted"))
             /\ Settled(r, "preempted").state \notin ActiveStates
  <2>1. Settled(r, "preempted") = [Requeued(r) EXCEPT !.cooldown = "running"]
    BY <1>8 DEF Settled, NewCooldown
  <2>2. PICK q : q = [Requeued(r) EXCEPT !.cooldown = "running"]
    OBVIOUS
  <2>3. q \in Records /\ q.state = "QUEUED" /\ q.gpus = {} /\ q.cooldown = "running"
    BY <1>1, <2>2 DEF Requeued, Records, JobRecord, JobState
  <2> QED
    BY <2>1, <2>2, <2>3 DEF Rests, Off, ActiveStates
<1> QED
  BY <1>2, <1>3, <1>4, <1>5, <1>6, <1>7, <1>8 DEF Rests, Off, ActiveStates

\* Where the steps of an exit write a settled record last, that is what they leave.
LEMMA SettledLast ==
  ASSUME NEW j \in Job, NEW W \in Seq(Closing(j)), NEW s \in Records, NEW Z \in Seq(Closing(j)),
         \A i \in DOMAIN Z : Z[i].do # "put_job", NEW r0, NEW r \in Records,
         Outcome((W \o <<Put(j, s)>>) \o Z, r0, j, r)
  PROVE  r = s
<1>0. PICK M : M = (W \o <<Put(j, s)>>) \o Z
  OBVIOUS
<1>1. PICK x : x = Put(j, s)
  OBVIOUS
<1>2. x \in Closing(j) /\ x.do = "put_job" /\ x.job = j /\ x.as = s
  BY <1>1, ClosingSteps, StepFields
<1>3. M = (W \o <<x>>) \o Z
  BY <1>0, <1>1
<1>4. PICK e : e = Len(W) + 1
  OBVIOUS
<1>5. M \in Seq(Closing(j)) /\ e \in DOMAIN M /\ M[e] = x /\ e \in Nat
  BY <1>2, <1>3, <1>4
<1>6. \A k \in DOMAIN M : k \in Nat /\ (k <= e \/ (k - e \in DOMAIN Z /\ M[k] = Z[k - e]))
  BY <1>2, <1>3, <1>4
<1>7. M \in Seq(WorkStep)
  <2>1. Closing(j) \subseteq WorkStep
    BY DEF Closing
  <2> QED
    BY <1>5, <2>1, ListOfSome
<1>8. e \in Writes(M, j)
  BY <1>2, <1>5 DEF Writes
<1>9. \A k \in Writes(M, j) : k <= e
  BY <1>6 DEF Writes
<1>10. r = M[e].as
  BY <1>0, <1>7, <1>8, <1>9, LastWrite
<1> QED
  BY <1>2, <1>5, <1>10

\* Three steps are added one by one.
LEMMA OneByOne ==
  ASSUME NEW S, NEW W \in Seq(S), NEW a \in S, NEW b \in S, NEW c \in S
  PROVE  W \o <<a, b, c>> = ((W \o <<a>>) \o <<b>>) \o <<c>>
<1> DEFINE V == ((W \o <<a>>) \o <<b>>) \o <<c>>
           U == W \o <<a, b, c>>
<1>1. Len(W) \in Nat /\ DOMAIN W = 1..Len(W)
  OBVIOUS
<1>2. /\ U \in Seq(S) /\ Len(U) = Len(W) + 3 /\ \A i \in DOMAIN W : U[i] = W[i]
      /\ U[Len(W) + 1] = a /\ U[Len(W) + 2] = b /\ U[Len(W) + 3] = c
  OBVIOUS
<1>3. /\ V \in Seq(S) /\ Len(V) = Len(W) + 3 /\ \A i \in DOMAIN W : V[i] = W[i]
      /\ V[Len(W) + 1] = a /\ V[Len(W) + 2] = b /\ V[Len(W) + 3] = c
  OBVIOUS
<1> HIDE DEF U, V
<1>4. \A i \in 1..(Len(W) + 3) : U[i] = V[i]
  <2> SUFFICES ASSUME NEW i \in 1..(Len(W) + 3) PROVE U[i] = V[i]
    OBVIOUS
  <2>1. i \in DOMAIN W \/ i = Len(W) + 1 \/ i = Len(W) + 2 \/ i = Len(W) + 3
    BY <1>1
  <2> QED
    BY <1>2, <1>3, <2>1
<1>5. U = V
  BY <1>2, <1>3, <1>4
<1> QED
  BY <1>5 DEF U, V

\* The steps M close job j, after those of W, with the record s.
Closes(M, W, s, j) == M = W \o <<Of("release", j), Put(j, s), Of("sync", j)>>

\* The steps of an exit leave the record they settle last.
LEMMA ExitLast ==
  ASSUME NEW j \in Job, NEW W \in Seq(Closing(j)), NEW s \in Records,
         NEW M, Closes(M, W, s, j), NEW r0, NEW r \in Records, Outcome(M, r0, j, r)
  PROVE  r = s
<1>1. PICK a, b, c : a = Of("release", j) /\ b = Put(j, s) /\ c = Of("sync", j)
  OBVIOUS
<1>2. /\ a \in Closing(j) /\ b \in Closing(j) /\ c \in Closing(j)
  BY <1>1, ClosingSteps
<1>3. c.do = "sync"
  BY <1>1, StepFields
<1>4. W \o <<a, b, c>> = ((W \o <<a>>) \o <<b>>) \o <<c>>
  BY <1>2, OneByOne
<1>5. PICK V, Z : V = W \o <<a>> /\ Z = <<c>>
  OBVIOUS
<1>6. V \in Seq(Closing(j)) /\ Z \in Seq(Closing(j)) /\ \A i \in DOMAIN Z : Z[i] = c
  BY <1>2, <1>5
<1>7. M = (V \o <<Put(j, s)>>) \o Z
  BY <1>1, <1>4, <1>5 DEF Closes
<1>8. \A i \in DOMAIN Z : Z[i].do # "put_job"
  BY <1>3, <1>6
<1>9. Outcome((V \o <<Put(j, s)>>) \o Z, r0, j, r)
  BY <1>7
<1> QED
  BY <1>6, <1>8, <1>9, SettledLast

\* The steps of an exit that completes or fails.
LEMMA ExitStepsAs ==
  ASSUME NEW j, NEW r
  PROVE  /\ ExitSteps(j, r, "preempted") = <<Of("requeue", j)>>
         /\ \E path \in Seq(JobState) : ExitSteps(j, r, "failed") =
              Walk(j, r, path) \o <<Of("release", j), Put(j, Settled(r, "failed")), Of("sync", j)>>
         /\ \E path \in Seq(JobState) : ExitSteps(j, r, "completed") =
              Walk(j, r, path)
                \o <<Of("release", j), Put(j, Settled(r, "completed")), Of("sync", j)>>
<1>1. ExitSteps(j, r, "preempted") = <<Of("requeue", j)>>
  BY DEF ExitSteps
<1>2. ExitSteps(j, r, "failed") =
        Walk(j, r, <<"FAILED">>)
          \o <<Of("release", j), Put(j, Settled(r, "failed")), Of("sync", j)>>
  BY DEF ExitSteps
<1>3. ExitSteps(j, r, "completed") =
        Walk(j, r, IF r.state = "FAILED" THEN <<"QUEUED", "COMPLETED">> ELSE <<"COMPLETED">>)
          \o <<Of("release", j), Put(j, Settled(r, "completed")), Of("sync", j)>>
  BY DEF ExitSteps
<1>4. /\ <<"FAILED">> \in Seq(JobState) /\ <<"COMPLETED">> \in Seq(JobState)
      /\ <<"QUEUED", "COMPLETED">> \in Seq(JobState)
  BY DEF JobState
<1> QED
  BY <1>1, <1>2, <1>3, <1>4

\* The exit of a job is taken.
LEMMA ExitStays ==
  ASSUME Cools, NEW L, NEW T, NEW J, NEW G, NEW X, NEW Q, NEW B, Good(L, T, J, G, X, Q, B),
         L # <<>>, L[1].do = "exit", NEW j, j = L[1].job,
         NEW v \in {"completed", "preempted", "failed"}, NEW N,
         \/ Closed(J[j]) /\ N = <<Of("sync", j)>> \o Tail(L)
         \/ N = ExitSteps(j, J[j], v) \o Tail(L)
  PROVE  Good(N, T, J, G, X, Q, B)
<1>1. j \in Job /\ J[j] \in Records
  <2>1. L \in Seq(WorkStep) /\ J \in [Job -> Records]
    BY DEF Good
  <2>2. L[1] \in WorkStep
    BY <2>1, FirstStep
  <2> QED
    BY <2>1, <2>2, StepShape
<1>2. CASE Closed(J[j]) /\ N = <<Of("sync", j)>> \o Tail(L)
  <2>1. PICK x : x = Of("sync", j)
    OBVIOUS
  <2>2. x \in Closing(j) /\ x.do = "sync"
    BY <1>1, <2>1, ClosingSteps, StepFields
  <2>3. PICK M : M = <<x>>
    OBVIOUS
  <2>4. M \in Seq(Closing(j)) /\ N = M \o Tail(L) /\ \A i \in DOMAIN M : i = Len(M) /\ M[i] = x
    BY <1>2, <2>1, <2>2, <2>3
  <2>5. InOrder(M)
    BY <2>4, ClosingOrder
  <2>6. Writes(M, j) = {}
    BY <2>2, <2>4 DEF Writes
  <2>7. J[j].state \notin ActiveStates
    BY <1>2 DEF Closed, ActiveStates
  <2>8. \A r \in Records : Outcome(M, J[j], j, r) => r = J[j]
    BY <2>6 DEF Outcome
  <2> QED
    BY <2>4, <2>5, <2>7, <2>8, EndStays
<1>3. ASSUME v \in {"completed", "failed"}, N = ExitSteps(j, J[j], v) \o Tail(L)
      PROVE  Good(N, T, J, G, X, Q, B)
  <2> DEFINE s == Settled(J[j], v)
  <2>1. s \in Records /\ Rests(s) /\ Off(s) /\ s.state \notin ActiveStates
    BY <1>1, <1>3, SettledAs
  <2>2. PICK path \in Seq(JobState) :
          ExitSteps(j, J[j], v) =
            Walk(j, J[j], path) \o <<Of("release", j), Put(j, s), Of("sync", j)>>
    BY <1>3, ExitStepsAs
  <2>3. PICK W : W = Walk(j, J[j], path)
    OBVIOUS
  <2>4. PICK a, b, c : a = Of("release", j) /\ b = Put(j, s) /\ c = Of("sync", j)
    OBVIOUS
  <2> HIDE DEF s
  <2>5. /\ W \in Seq(Closing(j)) /\ a \in Closing(j) /\ b \in Closing(j) /\ c \in Closing(j)
        /\ a.do = "release" /\ b.do = "put_job" /\ c.do = "sync"
    BY <1>1, <2>1, <2>3, <2>4, ClosingSteps, StepFields
  <2>6. PICK M : M = W \o <<a, b, c>>
    OBVIOUS
  <2>7. M \in Seq(Closing(j)) /\ N = M \o Tail(L)
    <3>1. PICK Z : Z = <<a, b, c>>
      OBVIOUS
    <3>2. M \in Seq(Closing(j))
      <4>1. Z \in Seq(Closing(j))
        BY <2>5, <3>1
      <4>2. W \o Z \in Seq(Closing(j))
        BY <2>5, <4>1
      <4> QED
        BY <2>6, <3>1, <4>2
    <3>3. M = ExitSteps(j, J[j], v)
      BY <2>2, <2>3, <2>4, <2>6
    <3> QED
      BY <1>3, <3>2, <3>3
  <2>8. InOrder(M)
    <3>1. \A i \in DOMAIN W : W[i].do # "sync"
      <4>1. \A i \in DOMAIN W : \E r : W[i] = Put(j, r)
        BY <2>3 DEF Walk
      <4>2. ASSUME NEW i \in DOMAIN W
            PROVE  W[i].do # "sync"
        <5>1. PICK r : W[i] = Put(j, r)
          BY <4>1
        <5> QED
          BY <5>1, StepFields
      <4> QED
        BY <4>2
    <3>2. \A i \in DOMAIN M : (i \in DOMAIN W /\ M[i] = W[i]) \/ M[i] = a \/ M[i] = b \/ i = Len(M)
      BY <2>5, <2>6
    <3>3. \A i \in DOMAIN M : M[i].do = "sync" => i = Len(M)
      BY <2>5, <3>1, <3>2
    <3> QED
      BY <2>7, <3>3, ClosingOrder
  <2>9. ASSUME NEW r \in Records, Outcome(M, J[j], j, r)
        PROVE  r = s
    <3>1. Closes(M, W, s, j)
      BY <2>4, <2>6 DEF Closes
    <3>2. j \in Job /\ s \in Records /\ W \in Seq(Closing(j))
      BY <1>1, <2>1, <2>5
    <3> QED
      BY <2>9, <3>1, <3>2, ExitLast
  <2>10. \E i \in DOMAIN M : M[i].do = "release"
    <3>1. Len(W) + 1 \in DOMAIN M /\ M[Len(W) + 1] = a
      BY <2>5, <2>6
    <3> QED
      BY <2>5, <3>1
  <2> QED
    BY <2>1, <2>7, <2>8, <2>9, <2>10, EndStays
<1>4. ASSUME v = "preempted", N = ExitSteps(j, J[j], v) \o Tail(L)
      PROVE  Good(N, T, J, G, X, Q, B)
  <2>1. N = <<Of("requeue", L[1].job)>> \o Tail(L)
    BY <1>4, ExitStepsAs
  <2> QED
    BY <2>1, PreemptedStays
<1> QED
  BY <1>2, <1>3, <1>4

\* M is W and a release after it.
ReleaseEnds(W, M, j) ==
  /\ M \in Seq(Closing(j)) /\ InOrder(M)
  /\ \E i \in DOMAIN M : M[i].do = "release"
  /\ \A i \in DOMAIN M : (i \in DOMAIN W /\ M[i] = W[i]) \/ M[i].do = "release"

\* A release at the end of an exit's steps.
LEMMA ReleasedLast ==
  ASSUME NEW j \in Job, NEW W \in Seq(Closing(j)), \A i \in DOMAIN W : W[i].do # "sync"
  PROVE  ReleaseEnds(W, W \o <<Of("release", j)>>, j)
<1>0. PICK M : M = W \o <<Of("release", j)>>
  OBVIOUS
<1>1. PICK a : a = Of("release", j)
  OBVIOUS
<1>2. a \in Closing(j) /\ a.do = "release"
  BY <1>1, ClosingSteps, StepFields
<1>3. M = W \o <<a>>
  BY <1>0, <1>1
<1>4. M \in Seq(Closing(j)) /\ Len(W) + 1 \in DOMAIN M /\ M[Len(W) + 1] = a
  BY <1>2, <1>3
<1>5. \A i \in DOMAIN M : (i \in DOMAIN W /\ M[i] = W[i]) \/ M[i] = a
  BY <1>2, <1>3
<1>6. \A i \in DOMAIN M : M[i].do # "sync"
  BY <1>2, <1>5
<1>7. InOrder(M)
  BY <1>4, <1>6, ClosingOrder
<1> QED
  BY <1>0, <1>2, <1>4, <1>5, <1>7 DEF ReleaseEnds

\* The writes of a job among the steps of an exit.
WritesOf(j) == {x \in Closing(j) : x.do = "put_job"}

\* A walk through states is made of writes.
LEMMA WalkWrites ==
  ASSUME NEW j \in Job, NEW r \in Records, NEW path \in Seq(JobState)
  PROVE  Walk(j, r, path) \in Seq(WritesOf(j)) /\ (path = <<>> => Walk(j, r, path) = <<>>)
<1>1. PICK W : W = Walk(j, r, path)
  OBVIOUS
<1>2. W \in Seq(Closing(j))
  BY <1>1, ClosingSteps
<1>3. W = [i \in 1..Len(path) |-> Put(j, [r EXCEPT !.state = path[i]])] /\ Len(path) \in Nat
  BY <1>1 DEF Walk
<1>4. ASSUME NEW i \in DOMAIN W
      PROVE  W[i] \in WritesOf(j)
  <2>1. \E q : W[i] = Put(j, q)
    BY <1>3
  <2>2. W[i].do = "put_job"
    BY <2>1, StepFields
  <2>3. W[i] \in Closing(j)
    BY <1>2, Element
  <2> QED
    BY <2>2, <2>3 DEF WritesOf
<1>5. W \in Seq(WritesOf(j))
  <2>1. Len(W) \in Nat /\ DOMAIN W = 1..Len(W) /\ W = [i \in 1..Len(W) |-> W[i]]
    BY <1>2
  <2> QED
    BY <1>4, <2>1
<1>6. path = <<>> => W = <<>>
  BY <1>3
<1> QED
  BY <1>1, <1>5, <1>6

\* The steps M of an exit bring a record r0 of j to rest.
Settles(M, r0, j) ==
  /\ M \in Seq(Closing(j)) /\ InOrder(M)
  /\ \E i \in DOMAIN M : M[i].do = "release"
  /\ \A q \in Records : Outcome(M, r0, j, q) =>
       /\ q.state \notin ActiveStates
       /\ Off(r0) \/ r0.state \in ActiveStates => Off(q)
       /\ Rests(r0) \/ r0.state \in ActiveStates => Rests(q)

\* The steps of a requeue that writes S for the checkpoint, and walks r along path.
RequeueOf(j, r, S, path) ==
  ((S \o Walk(j, r, path)) \o IF path = <<>> THEN <<>> ELSE <<Put(j, Settled(r, "preempted"))>>)
    \o <<Of("release", j)>>

\* What the steps of a requeue leave of a record.
LEMMA RequeueLeaves ==
  ASSUME Cools, NEW j \in Job, NEW r0 \in Records, NEW r \in Records,
         r = r0 \/ r = [r0 EXCEPT !.ckpt = "usable"],
         NEW S, S = <<>> \/ S = <<Put(j, [r0 EXCEPT !.ckpt = "usable"])>>,
         NEW path \in Seq(JobState),
         r0.state \in ActiveStates => path # <<>>,
         path # <<>> => r0.state \in ActiveStates \cup {"PREEMPTED"}
  PROVE  Settles(RequeueOf(j, r, S, path), r0, j)
<1>0. PICK M : M = RequeueOf(j, r, S, path)
  OBVIOUS
<1>1. PICK u \in Records : u = [r0 EXCEPT !.ckpt = "usable"] /\ \A p : Like(r0, u, p)
  BY PointedLike
<1>2. Put(j, u) \in WritesOf(j) /\ Put(j, u).as = u
  BY ClosingSteps, StepFields DEF WritesOf
<1>3. S = <<>> \/ S = <<Put(j, u)>>
  BY <1>1
<1>4. S \in Seq(WritesOf(j)) /\ \A i \in DOMAIN S : S[i] = Put(j, u)
  <2>1. PICK w : w = Put(j, u)
    OBVIOUS
  <2>2. <<w>> \in Seq(WritesOf(j)) /\ \A i \in DOMAIN <<w>> : <<w>>[i] = w
    BY <1>2, <2>1
  <2>3. CASE S = <<>>
    BY <2>3
  <2>4. CASE S = <<w>>
    BY <2>1, <2>2, <2>4
  <2> QED
    BY <1>3, <2>1, <2>3, <2>4
<1>5. PICK W : W = Walk(j, r, path)
  OBVIOUS
<1>6. W \in Seq(WritesOf(j)) /\ (path = <<>> => W = <<>>)
  BY <1>5, WalkWrites
<1>7. S \o W \in Seq(WritesOf(j))
  BY <1>4, <1>6
<1>8. WritesOf(j) \subseteq Closing(j)
  BY DEF WritesOf
<1>9. CASE path = <<>>
  <2>1. PICK V : V = (S \o W) \o <<>>
    OBVIOUS
  <2>2. V \in Seq(WritesOf(j)) /\ \A i \in DOMAIN V : V[i] = Put(j, u)
    BY <1>4, <1>6, <1>9, <2>1
  <2>3. V \in Seq(Closing(j)) /\ \A i \in DOMAIN V : V[i].do # "sync"
    <3>1. V \in Seq(Closing(j)) /\ \A i \in DOMAIN V : V[i] \in WritesOf(j)
      BY <1>8, <2>2, ListOfSome
    <3> QED
      BY <3>1 DEF WritesOf
  <2>4. M = V \o <<Of("release", j)>>
    BY <1>0, <1>5, <1>9, <2>1 DEF RequeueOf
  <2>5. /\ M \in Seq(Closing(j)) /\ InOrder(M)
        /\ \E i \in DOMAIN M : M[i].do = "release"
        /\ \A i \in DOMAIN M : (i \in DOMAIN V /\ M[i] = V[i]) \/ M[i].do = "release"
    <3>1. ReleaseEnds(V, V \o <<Of("release", j)>>, j)
      BY <2>3, ReleasedLast
    <3> QED
      BY <2>4, <3>1 DEF ReleaseEnds
  <2>6. ASSUME NEW q \in Records, Outcome(M, r0, j, q)
        PROVE  Like(r0, q, NoProc)
    <3>1. \A i \in Writes(M, j) : M[i].as = u
      BY <1>2, <2>2, <2>5 DEF Writes
    <3>2. q = r0 \/ q = u
      BY <2>6, <3>1 DEF Outcome
    <3> QED
      BY <1>1, <3>2, LikeItself
  <2>7. r0.state \notin ActiveStates
    BY <1>9
  <2> QED
    BY <1>0, <2>5, <2>6, <2>7, LikeClasses DEF Settles
<1>10. CASE path # <<>>
  <2>1. r.state = r0.state
    BY DEF Records, JobRecord
  <2>2. PICK s : s = Settled(r, "preempted")
    OBVIOUS
  <2>3. s \in Records /\ Rests(s) /\ Off(s) /\ s.state \notin ActiveStates
    BY <1>10, <2>1, <2>2, SettledAs
  <2>4. PICK x, V : x = Put(j, s) /\ V = (S \o W) \o <<x>>
    OBVIOUS
  <2>5. x \in WritesOf(j)
    BY <2>3, <2>4, ClosingSteps, StepFields DEF WritesOf
  <2>6. V \in Seq(WritesOf(j))
    BY <1>7, <2>4, <2>5
  <2>7. V \in Seq(Closing(j)) /\ \A i \in DOMAIN V : V[i].do # "sync"
    <3>1. V \in Seq(Closing(j)) /\ \A i \in DOMAIN V : V[i] \in WritesOf(j)
      BY <1>8, <2>6, ListOfSome
    <3> QED
      BY <3>1 DEF WritesOf
  <2>8. M = V \o <<Of("release", j)>>
    BY <1>0, <1>5, <1>10, <2>2, <2>4 DEF RequeueOf
  <2>9. /\ M \in Seq(Closing(j)) /\ InOrder(M)
        /\ \E i \in DOMAIN M : M[i].do = "release"
        /\ \A i \in DOMAIN M : (i \in DOMAIN V /\ M[i] = V[i]) \/ M[i].do = "release"
    <3>1. ReleaseEnds(V, V \o <<Of("release", j)>>, j)
      BY <2>7, ReleasedLast
    <3> QED
      BY <2>8, <3>1 DEF ReleaseEnds
  <2>10. ASSUME NEW q \in Records, Outcome(M, r0, j, q)
         PROVE  q = s
    <3>1. S \o W \in Seq(Closing(j))
      BY <1>7, <1>8, ListOfSome
    <3>2. PICK Z : Z = <<Of("release", j)>>
      OBVIOUS
    <3>3. Z \in Seq(Closing(j)) /\ \A i \in DOMAIN Z : Z[i].do # "put_job"
      <4>1. PICK a : a = Of("release", j)
        OBVIOUS
      <4>2. a \in Closing(j) /\ a.do = "release"
        BY <4>1, ClosingSteps, StepFields
      <4>3. Z \in Seq(Closing(j)) /\ \A i \in DOMAIN Z : Z[i] = a
        BY <3>2, <4>1, <4>2
      <4> QED
        BY <4>2, <4>3
    <3>4. M = ((S \o W) \o <<Put(j, s)>>) \o Z
      BY <2>4, <2>8, <3>2
    <3>5. Outcome(((S \o W) \o <<Put(j, s)>>) \o Z, r0, j, q)
      BY <2>10, <3>4
    <3> QED
      BY <2>3, <3>1, <3>3, <3>5, SettledLast
  <2> QED
    BY <1>0, <2>3, <2>9, <2>10 DEF Settles
<1> QED
  BY <1>9, <1>10

\* The preempted job is queued again.
LEMMA RequeueStays ==
  ASSUME Cools, NEW L, NEW T, NEW J, NEW G, NEW X, NEW Q, NEW B, Good(L, T, J, G, X, Q, B),
         L # <<>>, L[1].do = "requeue", NEW j, j = L[1].job, NEW r,
         r = J[j] \/ r = [J[j] EXCEPT !.ckpt = "usable"],
         NEW S, S = <<>> \/ S = <<Put(j, [J[j] EXCEPT !.ckpt = "usable"])>>,
         NEW path \in Seq(JobState),
         J[j].state \in ActiveStates => path # <<>>,
         path # <<>> => J[j].state \in ActiveStates \cup {"PREEMPTED"},
         NEW N, N = RequeueOf(j, r, S, path) \o Tail(L)
  PROVE  Good(N, T, J, G, X, Q, B)
<1>1. j \in Job /\ J[j] \in Records
  <2>1. L \in Seq(WorkStep) /\ J \in [Job -> Records]
    BY DEF Good
  <2>2. L[1] \in WorkStep
    BY <2>1, FirstStep
  <2> QED
    BY <2>1, <2>2, StepShape
<1>2. r \in Records
  BY <1>1, PointedLike
<1>3. PICK M : M = RequeueOf(j, r, S, path)
  OBVIOUS
<1>4. Settles(M, J[j], j)
  BY <1>1, <1>2, <1>3, RequeueLeaves
<1>5. N = M \o Tail(L)
  BY <1>3
<1> QED
  BY <1>4, <1>5, EndStays DEF Settles

\* A step of the placement of a job to which the pass P gives devices.
Placing(x, P) ==
  /\ x.job \in Job /\ P[x.job] # {}
  /\ \/ x.do = "put_job"
     \/ x.do = "claim" /\ x.gpus = P[x.job]
     \/ x.do = "queue" /\ x.action = [kind |-> "START", gpus |-> P[x.job]]

\* The pass P places jobs that wait by the records of J, on devices that no other
\* job of the pass gets, and none that is active by those records has.
Sensible(P, J) ==
  /\ P \in [Job -> SUBSET Gpu]
  /\ \A j \in Job : P[j] # {} =>
       J[j].state \in {"PENDING", "QUEUED", "PREEMPTED"} /\ J[j].cooldown # "running"
  /\ \A j, k \in Job : j # k => P[j] \cap P[k] = {}
  /\ \A j, k \in Job : J[k].state \in ActiveStates => P[j] \cap J[k].gpus = {}

\* The steps M that a pass P over the records of J leaves.
Places(M, P, J) ==
  /\ \A i \in DOMAIN M : M[i].do = "preempt" \/ Placing(M[i], P)
  /\ \A j \in Job : P[j] # {} => \A r0, r \in Records :
       Outcome(M, r0, j, r) => Waits(r, P[j])

\* A pass decides on jobs whose records are still what it listed, but for what living
\* trainers wrote since.
LEMMA DecideStays ==
  ASSUME NEW L, NEW T, NEW J, NEW G, NEW X, NEW Q, NEW B, Good(L, T, J, G, X, Q, B),
         L # <<>>, L[1].do = "decide", NEW P, Sensible(P, L[1].jobs),
         NEW M \in Seq(WorkStep), Places(M, P, L[1].jobs), NEW N, N = M \o Tail(L)
  PROVE  Good(N, T, J, G, X, Q, B)
<1>0. /\ L \in Seq(WorkStep) /\ J \in [Job -> Records] /\ G \in [Gpu -> GpuRecord]
      /\ X \in [Job -> Process]
      /\ Apart(L, J) /\ Claimed(L, J, G) /\ InOrder(L) /\ Current(L, J, X)
      /\ Orderly(L, J, X, Q) /\ Orderly(L, J, X, B)
      /\ \A k \in Job : Life(L, T[k], J[k], X[k], k)
  BY DEF Good
<1>1. L[1] \in WorkStep /\ 1 \in DOMAIN L
  BY <1>0, FirstStep
<1>2. SpliceOf(L, M, N) /\ N \in Seq(WorkStep)
  BY <1>0, SpliceIs
<1>3. \A b \in DOMAIN L : b # 1 => L[b].do = "answer"
  BY <1>0, RestMay, MayAfter
<1>4. \A b \in DOMAIN L : L[b].do \in {"decide", "answer"}
  BY <1>3
<1>5. \A k : Writes(L, k) = {} /\ ~Ending(L, k)
  BY <1>4 DEF Writes, Ending
<1>6. \A k \in Job : J[k] \in Records /\ Outcome(L, J[k], k, J[k])
  BY <1>0, <1>5 DEF Outcome
<1>7. \A i \in DOMAIN M : M[i].do = "preempt" \/ Placing(M[i], P)
  BY DEF Places
<1>8. \A i \in DOMAIN M : M[i].do \in {"preempt", "put_job", "claim", "queue"}
  BY <1>7 DEF Placing
<1>9. \A k : ~Ending(N, k)
  <2>1. \A i \in DOMAIN N : N[i].do \notin {"exit", "requeue"}
    <3> SUFFICES ASSUME NEW i \in DOMAIN N
                 PROVE  N[i].do \notin {"exit", "requeue"}
      OBVIOUS
    <3>1. \/ i \in DOMAIN M /\ N[i] = M[i]
          \/ \E b \in DOMAIN L : b # 1 /\ N[i] = L[b]
      BY <1>2, SpliceElements
    <3>2. CASE i \in DOMAIN M /\ N[i] = M[i]
      BY <1>8, <3>2
    <3>3. ASSUME NEW b \in DOMAIN L, N[i] = L[b]
          PROVE  N[i].do \notin {"exit", "requeue"}
      BY <1>4, <3>3
    <3> QED
      BY <3>1, <3>2, <3>3
  <2> QED
    BY <2>1 DEF Ending
<1>10. \A k \in Job : P[k] = {} => Writes(M, k) = {}
  BY <1>7 DEF Writes, Placing
<1>11. ASSUME NEW k \in Job, P[k] = {}
       PROVE  Keep(L, J[k], N, J[k], X[k], k)
  <2>1. Silent(L[1], k)
    BY DEF Silent
  <2>2. ~Ending(M, k)
    BY <1>8 DEF Ending
  <2> QED
    BY <1>0, <1>6, <1>10, <1>11, <2>1, <2>2, LikeKeep
<1>12. ASSUME NEW k \in Job
       PROVE  Alike(L[1].jobs[k], J[k])
  BY <1>0, <1>1 DEF Current
<1>13. ASSUME NEW k \in Job, P[k] # {}
       PROVE  /\ J[k].state \in {"PENDING", "QUEUED", "PREEMPTED"}
              /\ X[k].st = "none" /\ T[k] = <<>>
  <2>1. /\ L[1].jobs[k].state \in {"PENDING", "QUEUED", "PREEMPTED"}
        /\ L[1].jobs[k].cooldown # "running"
    BY <1>13 DEF Sensible
  <2>2. J[k] = L[1].jobs[k]
    BY <1>12, <2>1 DEF Alike, Runs, ActiveStates
  <2>3. Life(L, T[k], J[k], X[k], k)
    BY <1>0
  <2>4. J[k].state \notin ActiveStates /\ ~Rests(J[k])
    BY <2>1, <2>2 DEF ActiveStates, Rests
  <2>5. X[k].st \notin Living
    BY <2>3, <2>4 DEF Life, Runs
  <2>6. X[k].st \notin Ended
    BY <1>6, <2>3, <2>4 DEF Life, Runs
  <2>7. X[k].st \in Living \cup Ended \cup {"none"}
    BY <1>0 DEF Process
  <2> QED
    BY <2>1, <2>2, <2>3, <2>5, <2>6, <2>7 DEF Life
<1>14. ASSUME NEW k \in Job, P[k] # {}, NEW r \in Records, Outcome(N, J[k], k, r)
       PROVE  Waits(r, P[k])
  <2>1. Writes(L, k) = {}
    BY <1>5
  <2>2. Outcome(M, J[k], k, r)
    BY <1>0, <1>14, <2>1, NewOutcome
  <2> QED
    BY <1>6, <1>14, <2>2 DEF Places
<1>15. ASSUME NEW k \in Job
       PROVE  Life(N, T[k], J[k], X[k], k)
  <2>1. CASE P[k] = {}
    BY <1>0, <1>11, <2>1, KeepLife
  <2>2. CASE P[k] # {}
    <3>1. X[k].st = "none" /\ T[k] = <<>>
      BY <1>13, <2>2
    <3>2. \A r \in Records : Outcome(N, J[k], k, r) => Waits(r, r.gpus)
      BY <1>14, <2>2 DEF Waits
    <3> QED
      BY <3>1, <3>2 DEF Life, Living, Ended
  <2> QED
    BY <2>1, <2>2
<1>16. ASSUME NEW k \in Job, P[k] = {}, NEW q \in Records, Outcome(N, J[k], k, q),
              q.state \in ActiveStates
       PROVE  /\ L[1].jobs[k].state \in ActiveStates /\ q.gpus = L[1].jobs[k].gpus
              /\ q = J[k]
  <2>1. Writes(L, k) = {}
    BY <1>5
  <2>2. Outcome(M, J[k], k, q)
    BY <1>0, <1>16, <2>1, NewOutcome
  <2>3. q = J[k]
    BY <1>10, <1>16, <2>2 DEF Outcome
  <2> QED
    BY <1>12, <1>16, <2>3 DEF Alike, Runs
<1>17. Apart(N, J)
  <2> SUFFICES ASSUME NEW j \in Job, NEW k \in Job, NEW r \in Records, NEW q \in Records,
                      j # k, Outcome(N, J[j], j, r), Outcome(N, J[k], k, q),
                      r.state \in ActiveStates, q.state \in ActiveStates
               PROVE  r.gpus \cap q.gpus = {}
    BY DEF Apart
  <2>1. CASE P[j] # {} /\ P[k] # {}
    BY <1>14, <2>1 DEF Waits, Sensible
  <2>2. CASE P[j] # {} /\ P[k] = {}
    <3>1. r.gpus = P[j]
      BY <1>14, <2>2 DEF Waits
    <3>2. L[1].jobs[k].state \in ActiveStates /\ q.gpus = L[1].jobs[k].gpus
      BY <1>16, <2>2
    <3>3. P[j] \cap L[1].jobs[k].gpus = {}
      BY <3>2 DEF Sensible
    <3> QED
      BY <3>1, <3>2, <3>3
  <2>3. CASE P[j] = {} /\ P[k] # {}
    <3>1. q.gpus = P[k]
      BY <1>14, <2>3 DEF Waits
    <3>2. L[1].jobs[j].state \in ActiveStates /\ r.gpus = L[1].jobs[j].gpus
      BY <1>16, <2>3
    <3>3. P[k] \cap L[1].jobs[j].gpus = {}
      BY <3>2 DEF Sensible
    <3> QED
      BY <3>1, <3>2, <3>3
  <2>4. CASE P[j] = {} /\ P[k] = {}
    <3>1. r = J[j] /\ q = J[k]
      BY <1>16, <2>4
    <3> QED
      BY <1>0, <1>6, <3>1 DEF Apart
  <2> QED
    BY <2>1, <2>2, <2>3, <2>4
<1>18. ASSUME NEW i \in DOMAIN N
       PROVE  N[i].do = "preempt" \/ N[i].do = "answer" \/ Placing(N[i], P)
  BY <1>2, <1>3, <1>7, SpliceElements
<1>19. Claimed(N, J, G)
  <2>1. ASSUME NEW g \in Gpu, G[g].job # NoJob
        PROVE  WillHold(N, J[G[g].job], G[g].job, g)
    <3>1. G[g].job \in Job
      BY <1>0, <2>1 DEF GpuRecord
    <3>2. ~Freeing(L, G[g].job, g)
      BY <1>4 DEF Freeing
    <3>3. WillHold(L, J[G[g].job], G[g].job, g)
      BY <1>0, <2>1, <3>2 DEF Claimed
    <3>4. J[G[g].job].state \in ActiveStates
      BY <1>6, <3>1, <3>3 DEF WillHold
    <3>5. P[G[g].job] = {}
      BY <1>13, <3>1, <3>4 DEF ActiveStates
    <3> QED
      BY <1>11, <3>1, <3>3, <3>5, KeepHold
  <2>2. \A i \in DOMAIN N : N[i].do # "put_gpu"
    BY <1>18 DEF Placing
  <2>3. ASSUME NEW i \in DOMAIN N, N[i].do = "claim", NEW g \in N[i].gpus
        PROVE  WillHold(N, J[N[i].job], N[i].job, g)
    <3>1. N[i].job \in Job /\ P[N[i].job] # {} /\ g \in P[N[i].job]
      BY <1>18, <2>3 DEF Placing
    <3> QED
      BY <1>14, <3>1 DEF WillHold, Waits, ActiveStates
  <2> QED
    BY <2>1, <2>2, <2>3 DEF Claimed
<1>20. InOrder(N)
  <2>1. \A i \in DOMAIN M : M[i].do \in Plain
    BY <1>8 DEF Plain
  <2>2. InOrder(M) /\ \A i \in DOMAIN M : May(L[1].do) \subseteq May(M[i].do)
    BY <1>0, <2>1, PlainOrder
  <2> QED
    BY <1>0, <2>2, SplicedOrder
<1>21. Current(N, J, X)
  BY <1>0, <1>2, <1>8, CurrentStays
<1>22. ASSUME NEW k \in Job, NEW a, Fair(a, L, J[k], X[k], k)
       PROVE  Fair(a, N, J[k], X[k], k)
  <2>1. CASE P[k] = {}
    BY <1>11, <1>22, <2>1, KeepFair
  <2>2. CASE P[k] # {}
    <3>1. ~Waits(J[k], a.gpus)
      BY <1>13, <2>2 DEF Waits
    <3>2. a.kind # "START"
      BY <1>6, <1>22, <3>1 DEF Fair
    <3> QED
      BY <1>22, <3>2 DEF Fair
  <2> QED
    BY <2>1, <2>2
<1>23. Orderly(N, J, X, Q) /\ Orderly(N, J, X, B)
  BY <1>0, <1>22 DEF Orderly
<1>24. Sending(N, J, X)
  <2>1. ASSUME NEW i \in DOMAIN N, N[i].do = "queue"
        PROVE  Fair(N[i].action, N, J[N[i].job], X[N[i].job], N[i].job)
    <3>1. /\ N[i].job \in Job /\ P[N[i].job] # {}
          /\ N[i].action = [kind |-> "START", gpus |-> P[N[i].job]]
      BY <1>18, <2>1 DEF Placing
    <3>2. N[i].action.kind = "START" /\ N[i].action.gpus = P[N[i].job]
      BY <3>1
    <3>3. X[N[i].job].st = "none"
      BY <1>13, <3>1
    <3> QED
      BY <1>9, <1>14, <3>1, <3>2, <3>3 DEF Fair
  <2> QED
    BY <2>1 DEF Sending
<1> QED
  BY <1>0, <1>2, <1>15, <1>17, <1>19, <1>20, <1>21, <1>23, <1>24 DEF Good

------------------------------------------------------------------------------
(* The steps a pass leaves.                                                  *)

\* What is left of a record by one list after another.
LEMMA ConcatOutcome ==
  ASSUME NEW F \in Seq(WorkStep), NEW Y \in Seq(WorkStep), NEW j, NEW r0, NEW r,
         Outcome(F \o Y, r0, j, r)
  PROVE  /\ Writes(Y, j) = {} => Outcome(F, r0, j, r)
         /\ Writes(Y, j) # {} => Outcome(Y, r0, j, r)
<1>1. PICK d \in WorkStep : d.do = "pass"
  <2>1. [do |-> "pass"] \in WorkStep
    BY DEF WorkStep
  <2> QED
    BY <2>1
<1>2. PICK L : L = <<d>> \o Y
  OBVIOUS
<1>3. /\ L \in Seq(WorkStep) /\ L # <<>> /\ Tail(L) = Y /\ L[1] = d
      /\ \A b \in DOMAIN L : b # 1 => b - 1 \in DOMAIN Y /\ L[b] = Y[b - 1]
      /\ \A i \in DOMAIN Y : i + 1 \in DOMAIN L /\ L[i + 1] = Y[i]
  BY <1>1, <1>2
<1>4. 1 \notin Writes(L, j)
  BY <1>1, <1>3 DEF Writes
<1>5. Writes(Y, j) = {} => Writes(L, j) = {}
  <2> SUFFICES ASSUME NEW b \in Writes(L, j)
               PROVE  Writes(Y, j) # {}
    OBVIOUS
  <2>1. b \in DOMAIN L /\ b # 1 /\ L[b].do = "put_job" /\ L[b].job = j
    BY <1>4 DEF Writes
  <2>2. b - 1 \in DOMAIN Y /\ L[b] = Y[b - 1]
    BY <1>3, <2>1
  <2>3. b - 1 \in Writes(Y, j)
    BY <2>1, <2>2 DEF Writes
  <2> QED
    BY <2>3
<1>6. Writes(Y, j) # {} => Writes(L, j) # {}
  BY <1>3 DEF Writes
<1>7. PICK N : N = F \o Tail(L)
  OBVIOUS
<1>8. Outcome(N, r0, j, r)
  BY <1>3, <1>7
<1>9. /\ Writes(L, j) # {} => Outcome(L, r0, j, r)
      /\ Writes(L, j) = {} => Outcome(F, r0, j, r)
  BY <1>3, <1>4, <1>7, <1>8, SplicedOutcome
<1>10. PICK Z : Z = <<>> \o Tail(L)
  OBVIOUS
<1>11. Z = Y /\ <<>> \in Seq(WorkStep)
  BY <1>3, <1>10
<1>12. Writes(L, j) # {} => (Outcome(Z, r0, j, r) <=> Outcome(L, r0, j, r))
  BY <1>3, <1>4, <1>10, <1>11, SplicedOutcome
<1> QED
  BY <1>5, <1>6, <1>9, <1>11, <1>12

\* What the elements of a list joined of two are.
LEMMA ConcatElements ==
  ASSUME NEW S, NEW F \in Seq(S), NEW Y \in Seq(S)
  PROVE  /\ F \o Y \in Seq(S)
         /\ \A i \in DOMAIN (F \o Y) :
              \/ i \in DOMAIN F /\ (F \o Y)[i] = F[i]
              \/ \E k \in DOMAIN Y : (F \o Y)[i] = Y[k]
<1>1. F \o Y \in Seq(S) /\ Len(F \o Y) = Len(F) + Len(Y) /\ Len(F) \in Nat /\ Len(Y) \in Nat
  OBVIOUS
<1>2. ASSUME NEW i \in DOMAIN (F \o Y)
      PROVE  \/ i \in DOMAIN F /\ (F \o Y)[i] = F[i]
             \/ \E k \in DOMAIN Y : (F \o Y)[i] = Y[k]
  <2>1. i \in 1..(Len(F) + Len(Y))
    BY <1>1, <1>2
  <2>2. CASE i <= Len(F)
    BY <1>1, <2>1, <2>2
  <2>3. CASE i > Len(F)
    <3>1. i - Len(F) \in DOMAIN Y /\ (F \o Y)[i] = Y[i - Len(F)]
      BY <1>1, <2>1, <2>3
    <3> QED
      BY <3>1
  <2> QED
    BY <1>1, <2>1, <2>2, <2>3
<1> QED
  BY <1>1, <1>2

\* The recursion by which lists are joined is well defined.
LEMMA FlattenDefined ==
  ASSUME NEW F, NEW n \in Nat
  PROVE  \E f : f = [i \in 1..n |-> IF i = 1 THEN F[i] ELSE f[i - 1] \o F[i]]
<1> DEFINE Joined(f, i) == f[i - 1] \o F[i]
           Upto(k, f) == f = [i \in 1..k |-> IF i = 1 THEN F[i] ELSE Joined(f, i)]
           T == {k \in Nat : \E f : Upto(k, f)}
<1>1. 0 \in T
  <2>1. Upto(0, [i \in 1..0 |-> F[i]])
    OBVIOUS
  <2> QED
    BY <2>1
<1>2. ASSUME NEW k \in Nat, k \in T
      PROVE  k + 1 \in T
  <2>1. PICK f : Upto(k, f)
    BY <1>2
  <2> DEFINE h == [i \in 1..(k + 1) |->
                     IF i <= k THEN f[i] ELSE IF i = 1 THEN F[i] ELSE Joined(f, i)]
  <2>2. \A i \in 1..k : f[i] = IF i = 1 THEN F[i] ELSE Joined(f, i)
    <3> HIDE DEF Joined
    <3> QED
      BY <2>1
  <2>3. \A i \in 1..k : h[i] = f[i]
    <3> HIDE DEF Joined
    <3> QED
      OBVIOUS
  <2>4. h[k + 1] = IF k + 1 = 1 THEN F[k + 1] ELSE Joined(f, k + 1)
    <3> HIDE DEF Joined
    <3> QED
      OBVIOUS
  <2>5. h = [i \in 1..(k + 1) |-> h[i]]
    OBVIOUS
  <2> HIDE DEF h
  <2>6. ASSUME NEW i \in 1..(k + 1), i # 1
        PROVE  Joined(h, i) = Joined(f, i)
    <3>1. i - 1 \in 1..k
      BY <2>6
    <3> QED
      BY <2>3, <3>1
  <2> HIDE DEF Joined
  <2>7. ASSUME NEW i \in 1..(k + 1)
        PROVE  h[i] = IF i = 1 THEN F[i] ELSE Joined(h, i)
    <3>1. i \in 1..k \/ i = k + 1
      OBVIOUS
    <3> QED
      BY <2>2, <2>3, <2>4, <2>6, <3>1
  <2>8. Upto(k + 1, h)
    BY <2>5, <2>7
  <2> HIDE DEF Upto
  <2> QED
    BY <2>8
<1> HIDE DEF T
<1>3. n \in T
  BY <1>1, <1>2, NatSets
<1> QED
  BY <1>3 DEF T

\* What is kept as lists are joined holds of all of them joined.
LEMMA Flattened ==
  ASSUME NEW S, NEW F \in [Job -> Seq(S)], NEW T, <<1, F[1]>> \in T,
         \A i \in Job : \A W : i > 1 /\ <<i - 1, W>> \in T => <<i, W \o F[i]>> \in T
  PROVE  <<NumJobs, FlattenSeq(F)>> \in T
<1>1. NumJobs \in Nat \ {0} /\ Len(F) = NumJobs /\ Job = 1..NumJobs
  BY JobsAssumption DEF Job
<1> DEFINE flatten[i \in 1..Len(F)] == IF i = 1 THEN F[i] ELSE flatten[i - 1] \o F[i]
           U == {k \in Nat : k + 1 \in Job => <<k + 1, flatten[k + 1]>> \in T}
<1>2. flatten = [i \in 1..Len(F) |-> IF i = 1 THEN F[i] ELSE flatten[i - 1] \o F[i]]
  BY <1>1, FlattenDefined
<1>3. FlattenSeq(F) = flatten[Len(F)]
  BY <1>1 DEF FlattenSeq
<1> HIDE DEF flatten
<1>4. 0 \in U
  BY <1>1, <1>2
<1>5. ASSUME NEW k \in Nat, k \in U
      PROVE  k + 1 \in U
  <2> SUFFICES ASSUME k + 2 \in Job
               PROVE  <<k + 2, flatten[k + 2]>> \in T
    OBVIOUS
  <2>1. k + 1 \in Job /\ k + 2 > 1 /\ (k + 2) - 1 = k + 1
    BY <1>1
  <2>2. <<k + 1, flatten[k + 1]>> \in T
    BY <1>5, <2>1
  <2>3. flatten[k + 2] = flatten[k + 1] \o F[k + 2]
    <3>1. k + 2 \in 1..Len(F) /\ k + 2 # 1
      BY <1>1, <2>1
    <3>2. \A i \in 1..Len(F) : i # 1 => flatten[i] = flatten[i - 1] \o F[i]
      BY <1>2
    <3> QED
      BY <2>1, <3>1, <3>2
  <2> QED
    BY <2>1, <2>2, <2>3
<1> HIDE DEF U
<1>6. NumJobs - 1 \in U
  <2>1. Nat \subseteq U
    BY <1>4, <1>5, NatSets
  <2> QED
    BY <1>1, <2>1
<1> QED
  BY <1>1, <1>3, <1>6 DEF U

\* The steps by which j is placed on G.
Placers(j, G) ==
  {x \in WorkStep :
     /\ x.job = j
     /\ \/ x.do = "put_job"
        \/ x.do = "claim" /\ x.gpus = G
        \/ x.do = "queue" /\ x.action = [kind |-> "START", gpus |-> G]}

\* The steps Y place j where P has it.
PlacesOne(Y, j, P) ==
  /\ Y \in Seq(WorkStep)
  /\ \A i \in DOMAIN Y : Placing(Y[i], P) /\ Y[i].job = j
  /\ P[j] # {} => /\ Writes(Y, j) # {}
                  /\ \A r0, r \in Records : Outcome(Y, r0, j, r) => Waits(r, P[j])

\* The record a placement ends with.
LEMMA PlacedWaits ==
  ASSUME Node = {n1}, NEW r \in Records, NEW G \in SUBSET Gpu, HomeOf(G) \in Node
  PROVE  Placed(r, G) \in Records /\ Waits(Placed(r, G), G)
<1>1. r \in JobRecord /\ ~r.overdue
  BY DEF Records
<1>2. PICK q : q = Placed(r, G)
  OBVIOUS
<1>3. /\ q \in JobRecord /\ q.state \in {"SCHEDULED", "RESUMING"} /\ q.gpus = G
      /\ q.node = HomeOf(G) /\ q.overdue = r.overdue
  BY <1>1, <1>2, PlacedShape
<1> QED
  BY <1>1, <1>2, <1>3 DEF Records, Waits

\* A placement of r, taken with the steps W before it.
LEMMA PlacerSteps ==
  ASSUME Node = {n1}, NEW j \in Job, NEW P \in [Job -> SUBSET Gpu], P[j] # {},
         HomeOf(P[j]) \in Node, NEW r \in Records, NEW path \in Seq(JobState),
         NEW a, a = Put(j, Placed(r, P[j])),
         NEW b, b = [do |-> "claim", job |-> j, gpus |-> P[j]],
         NEW c, c = Queue(HomeOf(P[j]), j, [kind |-> "START", gpus |-> P[j]])
  PROVE  PlacesOne(Walk(j, r, path) \o <<a, b, c>>, j, P)
<1> DEFINE G == P[j]
<1>1. a \in Placers(j, G) /\ a.do = "put_job" /\ a.job = j /\ Waits(a.as, G) /\ a \in WorkStep
  BY PlacedWaits, StepsMade, StepFields DEF Placers
<1>2. b \in Placers(j, G) /\ b.do = "claim"
  BY DEF Placers, WorkStep
<1>3. c \in Placers(j, G) /\ c.do = "queue"
  <2>1. PICK d : d = [kind |-> "START", gpus |-> G]
    OBVIOUS
  <2>2. d \in Action
    BY <2>1 DEF Action
  <2>3. c = Queue(HomeOf(P[j]), j, d)
    BY <2>1
  <2>4. c \in WorkStep /\ c.do = "queue" /\ c.job = j /\ c.action = d
    BY <2>2, <2>3, StepsMade, StepFields
  <2> QED
    BY <2>1, <2>4 DEF Placers
<1> HIDE DEF G
<1>4. PICK W : W = Walk(j, r, path)
  OBVIOUS
<1>5. W \in Seq(Placers(j, G))
  <2>1. WritesOf(j) \subseteq Placers(j, G)
    BY DEF WritesOf, Closing, Placers
  <2>2. W \in Seq(WritesOf(j))
    BY <1>4, WalkWrites
  <2> QED
    BY <2>1, <2>2, ListOfSome
<1>6. PICK Y : Y = W \o <<a, b, c>>
  OBVIOUS
<1>7. Placers(j, G) \subseteq WorkStep
  BY DEF Placers
<1>8. Y \in Seq(Placers(j, G))
  <2>1. <<a, b, c>> \in Seq(Placers(j, G))
    BY <1>1, <1>2, <1>3
  <2> QED
    BY <1>5, <1>6, <2>1
<1>9. Y \in Seq(WorkStep) /\ \A i \in DOMAIN Y : Y[i] \in Placers(j, G)
  BY <1>7, <1>8, ListOfSome
<1>10. \A i \in DOMAIN Y : Placing(Y[i], P) /\ Y[i].job = j
  BY <1>9 DEF Placers, Placing, G
<1>11. W \in Seq(WorkStep)
  BY <1>5, <1>7, ListOfSome
<1>12. PICK A, Z : A = <<a>> /\ Z = <<b, c>>
  OBVIOUS
<1>13. /\ A \in Seq(WorkStep) /\ Z \in Seq(WorkStep)
       /\ DOMAIN A = {1} /\ A[1] = a /\ DOMAIN Z = {1, 2} /\ Z[1] = b /\ Z[2] = c
  BY <1>1, <1>2, <1>3, <1>7, <1>12
<1>14. Writes(Z, j) = {}
  BY <1>2, <1>3, <1>13 DEF Writes
<1>15. Writes(A, j) = {1}
  BY <1>1, <1>13 DEF Writes
<1>16. W \o A \in Seq(WorkStep) /\ Y = (W \o A) \o Z
  BY <1>6, <1>11, <1>12, <1>13
<1>17. Writes(Y, j) # {}
  <2>1. Len(W) + 1 \in DOMAIN Y /\ Y[Len(W) + 1] = a
    BY <1>6, <1>11
  <2> QED
    BY <1>1, <2>1 DEF Writes
<1>18. ASSUME NEW r0 \in Records, NEW q \in Records, Outcome(Y, r0, j, q)
       PROVE  Waits(q, G)
  <2>1. Outcome(W \o A, r0, j, q)
    BY <1>13, <1>14, <1>16, <1>18, ConcatOutcome
  <2>2. Outcome(A, r0, j, q)
    BY <1>11, <1>13, <1>15, <2>1, ConcatOutcome
  <2>3. q = a.as
    BY <1>13, <1>15, <2>2 DEF Outcome
  <2> QED
    BY <1>1, <2>3
<1> QED
  BY <1>4, <1>6, <1>9, <1>10, <1>17, <1>18 DEF PlacesOne, G

\* What a pass leaves for one job places it.
LEMMA PlacementLeaves ==
  ASSUME Node = {n1}, NEW j \in Job, NEW P \in [Job -> SUBSET Gpu],
         P[j] # {} => HomeOf(P[j]) \in Node, NEW r \in Records
  PROVE  PlacesOne(PlacementSteps(j, r, P[j]), j, P)
<1>1. CASE P[j] = {}
  <2>1. PlacementSteps(j, r, P[j]) = <<>>
    BY <1>1 DEF PlacementSteps
  <2>2. PlacesOne(<<>>, j, P)
    BY <1>1 DEF PlacesOne
  <2> QED
    BY <2>1, <2>2
<1>2. CASE P[j] # {}
  <2>1. PICK path : path = (IF r.state \in {"PENDING", "PREEMPTED"} THEN <<"QUEUED">> ELSE <<>>)
                   \o (IF r.ckpt = "none" THEN <<"SCHEDULED">> ELSE <<"SCHEDULED", "RESUMING">>)
    OBVIOUS
  <2>2. path \in Seq(JobState)
    <3>1. {"QUEUED", "SCHEDULED", "RESUMING"} \subseteq JobState
      BY DEF JobState, ActiveStates, QueuedStates, TerminalStates
    <3> QED
      BY <2>1, <3>1
  <2>3. PICK a : a = Put(j, Placed(r, P[j]))
    OBVIOUS
  <2>4. PICK b : b = [do |-> "claim", job |-> j, gpus |-> P[j]]
    OBVIOUS
  <2>5. PICK c : c = Queue(HomeOf(P[j]), j, [kind |-> "START", gpus |-> P[j]])
    OBVIOUS
  <2>6. PlacementSteps(j, r, P[j]) = Walk(j, r, path) \o <<a, b, c>>
    BY <1>2, <2>1, <2>3, <2>4, <2>5 DEF PlacementSteps
  <2>7. PlacesOne(Walk(j, r, path) \o <<a, b, c>>, j, P)
    BY <1>2, <2>2, <2>3, <2>4, <2>5, PlacerSteps
  <2> QED
    BY <2>6, <2>7
<1> QED
  BY <1>1, <1>2

\* A list joined of two writes what one of them writes.
LEMMA ConcatWrites ==
  ASSUME NEW F \in Seq(WorkStep), NEW Y \in Seq(WorkStep), NEW j,
         Writes(F, j) # {} \/ Writes(Y, j) # {}
  PROVE  Writes(F \o Y, j) # {}
<1>1. /\ \A i \in DOMAIN F : i \in DOMAIN (F \o Y) /\ (F \o Y)[i] = F[i]
      /\ \A k \in DOMAIN Y : Len(F) + k \in DOMAIN (F \o Y) /\ (F \o Y)[Len(F) + k] = Y[k]
  OBVIOUS
<1>2. CASE Writes(F, j) # {}
  BY <1>1, <1>2 DEF Writes
<1>3. CASE Writes(Y, j) # {}
  BY <1>1, <1>3 DEF Writes
<1> QED
  BY <1>2, <1>3

\* The steps W place the jobs up to m that P places, and no others.
PlacesUpTo(W, m, P) ==
  /\ \A i \in DOMAIN W : Placing(W[i], P) /\ W[i].job <= m
  /\ \A j \in Job : j <= m /\ P[j] # {} =>
       /\ Writes(W, j) # {}
       /\ \A r0, r \in Records : Outcome(W, r0, j, r) => Waits(r, P[j])

\* One more job.
LEMMA PlacesNext ==
  ASSUME NEW P, NEW m \in Job, m > 1, NEW W \in Seq(WorkStep), PlacesUpTo(W, m - 1, P),
         NEW Y, PlacesOne(Y, m, P)
  PROVE  W \o Y \in Seq(WorkStep) /\ PlacesUpTo(W \o Y, m, P)
<1>1. Y \in Seq(WorkStep) /\ Job \subseteq Nat
  BY JobsAssumption DEF PlacesOne, Job
<1>2. \A k \in DOMAIN Y : Placing(Y[k], P) /\ Y[k].job = m
  BY DEF PlacesOne
<1>3. PICK Z : Z = W \o Y
  OBVIOUS
<1>4. /\ Z \in Seq(WorkStep)
      /\ \A i \in DOMAIN Z :
           \/ i \in DOMAIN W /\ Z[i] = W[i]
           \/ \E k \in DOMAIN Y : Z[i] = Y[k]
  BY <1>1, <1>3, ConcatElements
<1>5. ASSUME NEW i \in DOMAIN Z
      PROVE  Placing(Z[i], P) /\ Z[i].job <= m
  <2>1. CASE i \in DOMAIN W /\ Z[i] = W[i]
    <3>1. Placing(W[i], P) /\ W[i].job <= m - 1 /\ W[i].job \in Job
      BY <2>1 DEF PlacesUpTo, Placing
    <3>2. PICK w : w = W[i].job
      OBVIOUS
    <3>3. w \in Nat /\ m \in Nat /\ w <= m - 1
      BY <1>1, <3>1, <3>2
    <3>4. w <= m
      BY <3>3
    <3> QED
      BY <2>1, <3>1, <3>2, <3>4
  <2>2. ASSUME NEW k \in DOMAIN Y, Z[i] = Y[k]
        PROVE  Placing(Z[i], P) /\ Z[i].job <= m
    <3>1. Placing(Y[k], P) /\ Y[k].job = m
      BY <1>2
    <3>2. m <= m
      BY <1>1
    <3> QED
      BY <2>2, <3>1, <3>2
  <2> QED
    BY <1>4, <2>1, <2>2
<1>6. ASSUME NEW j \in Job, j <= m, P[j] # {}
      PROVE  /\ Writes(Z, j) # {}
             /\ \A r0, r \in Records : Outcome(Z, r0, j, r) => Waits(r, P[j])
  <2>1. CASE j = m
    <3>1. /\ Writes(Y, j) # {}
          /\ \A r0, r \in Records : Outcome(Y, r0, j, r) => Waits(r, P[j])
      BY <1>6, <2>1 DEF PlacesOne
    <3>2. Writes(Z, j) # {}
      BY <1>1, <1>3, <3>1, ConcatWrites
    <3>3. \A r0, r \in Records : Outcome(Z, r0, j, r) => Outcome(Y, r0, j, r)
      BY <1>1, <1>3, <3>1, ConcatOutcome
    <3> QED
      BY <3>1, <3>2, <3>3
  <2>2. CASE j # m
    <3>1. j <= m - 1
      BY <1>1, <1>6, <2>2
    <3>2. /\ Writes(W, j) # {}
          /\ \A r0, r \in Records : Outcome(W, r0, j, r) => Waits(r, P[j])
      BY <1>6, <3>1 DEF PlacesUpTo
    <3>3. Writes(Y, j) = {}
      BY <1>2, <2>2 DEF Writes
    <3>4. Writes(Z, j) # {}
      BY <1>1, <1>3, <3>2, ConcatWrites
    <3>5. \A r0, r \in Records : Outcome(Z, r0, j, r) => Outcome(W, r0, j, r)
      BY <1>1, <1>3, <3>3, ConcatOutcome
    <3> QED
      BY <3>2, <3>4, <3>5
  <2> QED
    BY <2>1, <2>2
<1> QED
  BY <1>3, <1>4, <1>5, <1>6 DEF PlacesUpTo

\* The placements of a pass, joined.
LEMMA PlacementsJoined ==
  ASSUME NEW P, NEW F \in [Job -> Seq(WorkStep)], \A j \in Job : PlacesOne(F[j], j, P)
  PROVE  FlattenSeq(F) \in Seq(WorkStep) /\ PlacesUpTo(FlattenSeq(F), NumJobs, P)
<1> DEFINE T == {x \in Nat \X Seq(WorkStep) : PlacesUpTo(x[2], x[1], P)}
<1>1. 1 \in Job /\ Job \subseteq Nat /\ NumJobs \in Nat
  BY JobsAssumption DEF Job
<1>2. <<1, F[1]>> \in T
  <2>1. PlacesOne(F[1], 1, P)
    BY <1>1
  <2>2. F[1] \in Seq(WorkStep)
    BY <1>1
  <2>3. \A j \in Job : j <= 1 => j = 1
    BY <1>1 DEF Job
  <2>4. PlacesUpTo(F[1], 1, P)
    BY <2>1, <2>3 DEF PlacesOne, PlacesUpTo
  <2> QED
    BY <2>2, <2>4
<1>3. ASSUME NEW i \in Job, NEW W, i > 1, <<i - 1, W>> \in T
      PROVE  <<i, W \o F[i]>> \in T
  <2>1. W \in Seq(WorkStep) /\ PlacesUpTo(W, i - 1, P)
    BY <1>3
  <2>2. W \o F[i] \in Seq(WorkStep) /\ PlacesUpTo(W \o F[i], i, P)
    BY <1>3, <2>1, PlacesNext
  <2> QED
    BY <1>1, <2>2
<1>4. <<NumJobs, FlattenSeq(F)>> \in T
  <2> HIDE DEF T
  <2> QED
    BY <1>2, <1>3, Flattened
<1> QED
  BY <1>4

\* What a pass over the records K leaves.
LEMMA PassLeaves ==
  ASSUME NEW P, NEW leaving \in Seq(Job), NEW F \in [Job -> Seq(WorkStep)],
         \A j \in Job : PlacesOne(F[j], j, P), NEW K, NEW M,
         M = [i \in 1..Len(leaving) |-> Of("preempt", leaving[i])] \o FlattenSeq(F)
  PROVE  M \in Seq(WorkStep) /\ Places(M, P, K)
<1>1. PICK A : A = [i \in 1..Len(leaving) |-> Of("preempt", leaving[i])]
  OBVIOUS
<1>2. A \in Seq(WorkStep) /\ \A i \in DOMAIN A : A[i].do = "preempt"
  <2>1. \A i \in 1..Len(leaving) : leaving[i] \in Job
    OBVIOUS
  <2>2. \A i \in 1..Len(leaving) : Of("preempt", leaving[i]) \in WorkStep
    BY <2>1, StepsMade
  <2> QED
    BY <1>1, <2>2, StepFields
<1>3. PICK Y : Y = FlattenSeq(F)
  OBVIOUS
<1>4. Y \in Seq(WorkStep) /\ PlacesUpTo(Y, NumJobs, P)
  BY <1>3, PlacementsJoined
<1>5. M = A \o Y
  BY <1>1, <1>3
<1>6. /\ M \in Seq(WorkStep)
      /\ \A i \in DOMAIN M :
           \/ i \in DOMAIN A /\ M[i] = A[i]
           \/ \E k \in DOMAIN Y : M[i] = Y[k]
  <2>1. PICK S : S = WorkStep
    OBVIOUS
  <2>2. A \in Seq(S) /\ Y \in Seq(S)
    BY <1>2, <1>4, <2>1
  <2>3. PICK Z : Z = A \o Y
    OBVIOUS
  <2>4. /\ Z \in Seq(S)
        /\ \A i \in DOMAIN Z :
             \/ i \in DOMAIN A /\ Z[i] = A[i]
             \/ \E k \in DOMAIN Y : Z[i] = Y[k]
    BY <2>2, <2>3, ConcatElements
  <2>5. M = Z
    BY <1>5, <2>3
  <2> QED
    BY <2>1, <2>4, <2>5
<1>7. \A k \in DOMAIN Y : Placing(Y[k], P)
  BY <1>4 DEF PlacesUpTo
<1>8. \A i \in DOMAIN M : M[i].do = "preempt" \/ Placing(M[i], P)
  BY <1>2, <1>6, <1>7
<1>9. ASSUME NEW j \in Job, P[j] # {}, NEW r0 \in Records, NEW r \in Records,
             Outcome(M, r0, j, r)
      PROVE  Waits(r, P[j])
  <2>1. j <= NumJobs
    BY JobsAssumption DEF Job
  <2>2. Writes(Y, j) # {} /\ (Outcome(Y, r0, j, r) => Waits(r, P[j]))
    BY <1>4, <1>9, <2>1 DEF PlacesUpTo
  <2> QED
    BY <1>2, <1>4, <1>5, <1>9, <2>2, ConcatOutcome
<1> QED
  BY <1>6, <1>8, <1>9 DEF Places

\* A pass places jobs that wait, on devices that are free.
LEMMA PassSensible ==
  ASSUME NEW s \in Snapshot, Punctual(s), NEW P \in Passes(s)
  PROVE  Sensible(P, s.job) /\ \A j \in Job : P[j] # {} => HomeOf(P[j]) \in Node
<1>1. /\ \A j \in Job : P[j] # {} =>
           /\ P[j] \subseteq Idle(s) \cap Fits[j] /\ P[j] \in SUBSET Gpu
           /\ HomeOf(P[j]) \in Node /\ j \in Ready(s)
      /\ \A j, k \in Job : j # k => P[j] \cap P[k] = {}
  BY PassShape
<1>2. P \in [Job -> SUBSET Gpu]
  <2>1. PICK C : P \in [Job -> C]
    BY DEF Passes
  <2>2. \A j \in Job : P[j] \in SUBSET Gpu
    BY <1>1
  <2> QED
    BY <2>1, <2>2
<1>3. \A j \in Job : P[j] # {} =>
        s.job[j].state \in {"PENDING", "QUEUED", "PREEMPTED"} /\ s.job[j].cooldown # "running"
  BY <1>1 DEF Ready, QueuedStates
<1>4. ASSUME NEW j \in Job, NEW k \in Job, s.job[k].state \in ActiveStates
      PROVE  P[j] \cap s.job[k].gpus = {}
  <2>1. k \in Active(s)
    BY <1>4 DEF Active
  <2>2. Idle(s) \cap s.job[k].gpus = {}
    BY <2>1, IdleIsFree
  <2>3. P[j] = {} \/ P[j] \subseteq Idle(s)
    BY <1>1
  <2> QED
    BY <2>2, <2>3
<1> QED
  BY <1>1, <1>2, <1>3, <1>4 DEF Sensible

------------------------------------------------------------------------------
(* Trainers, and the worker between its requests.                            *)

\* The empty list leaves things as they are.
LEMMA IdleList ==
  /\ <<>> \in Seq(WorkStep) /\ DOMAIN <<>> = {} /\ InOrder(<<>>)
  /\ \A j : Writes(<<>>, j) = {} /\ ~Ending(<<>>, j)
  /\ \A j, r0, r : Outcome(<<>>, r0, j, r) <=> r = r0
  /\ \A j, g : ~Freeing(<<>>, j, g)
  /\ \A J, X : Current(<<>>, J, X) /\ Sending(<<>>, J, X)
<1>1. <<>> \in Seq(WorkStep) /\ DOMAIN <<>> = {}
  OBVIOUS
<1>2. \A j : Writes(<<>>, j) = {} /\ ~Ending(<<>>, j)
  BY <1>1 DEF Writes, Ending
<1>3. \A j, r0, r : Outcome(<<>>, r0, j, r) <=> r = r0
  BY <1>2 DEF Outcome
<1>4. InOrder(<<>>) /\ \A j, g : ~Freeing(<<>>, j, g)
  BY <1>1 DEF InOrder, Freeing
<1>5. \A J, X : Current(<<>>, J, X) /\ Sending(<<>>, J, X)
  BY <1>1 DEF Current, Sending
<1> QED
  BY <1>1, <1>2, <1>3, <1>4, <1>5

\* What the trainer's thread has left to do is the trainer's.
LEMMA BenchStays ==
  ASSUME NEW L, NEW T, NEW J, NEW G, NEW X, NEW Q, NEW B, Good(L, T, J, G, X, Q, B),
         NEW j \in Job, X[j].st \in Living, NEW U, U[j] \in Seq(TrainStep(j)),
         \A k \in Job : k # j => U[k] = T[k],
         \A i \in Writes(U[j], j) : Runs(U[j][i].as, X[j].gpus)
  PROVE  Good(L, U, J, G, X, Q, B)
<1>1. \A k \in Job : U[k] \in Seq(TrainStep(k))
  BY DEF Good
<1>2. ASSUME NEW k \in Job
      PROVE  Life(L, U[k], J[k], X[k], k)
  <2>1. Life(L, T[k], J[k], X[k], k)
    BY DEF Good
  <2>2. CASE k = j
    <3>1. X[j].st \notin Ended /\ X[j].st # "none"
      BY DEF Living, Ended
    <3> QED
      BY <2>1, <2>2, <3>1 DEF Life
  <2>3. CASE k # j
    BY <2>1, <2>3
  <2> QED
    BY <2>2, <2>3
<1> QED
  BY <1>1, <1>2 DEF Good

\* The record of a job whose trainer lives, as the trainer's thread writes it.
LEMMA TrainerWrites ==
  ASSUME NEW L, NEW T, NEW J, NEW G, NEW X, NEW Q, NEW B, Good(L, T, J, G, X, Q, B),
         NEW j \in Job, X[j].st \in Living, NEW s \in Records, Runs(s, X[j].gpus),
         NEW K, K = [J EXCEPT ![j] = s]
  PROVE  Good(L, T, K, G, X, Q, B)
<1>0. /\ L \in Seq(WorkStep) /\ J \in [Job -> Records] /\ G \in [Gpu -> GpuRecord]
      /\ X \in [Job -> Process]
      /\ Apart(L, J) /\ Claimed(L, J, G) /\ InOrder(L) /\ Current(L, J, X)
      /\ Orderly(L, J, X, Q) /\ Orderly(L, J, X, B) /\ Sending(L, J, X)
      /\ \A k \in Job : Life(L, T[k], J[k], X[k], k)
  BY DEF Good
<1>1. K \in [Job -> Records] /\ K[j] = s /\ \A k \in Job : k # j => K[k] = J[k]
  BY <1>0
<1>2. X[j].st \notin Ended /\ X[j].st # "none"
  BY DEF Living, Ended
<1>3. Runs(J[j], X[j].gpus)
  BY <1>0 DEF Life
<1>4. s.state \in ActiveStates /\ s.gpus = J[j].gpus /\ J[j].state \in ActiveStates
  BY <1>3 DEF Runs
<1>5. \A r : Outcome(L, s, j, r) => Outcome(L, J[j], j, r) \/ (r = s /\ Outcome(L, J[j], j, J[j]))
  BY DEF Outcome
<1>6. ASSUME NEW k \in Job
      PROVE  Life(L, T[k], K[k], X[k], k)
  <2>1. CASE k = j
    BY <1>0, <1>1, <1>2, <2>1 DEF Life
  <2>2. CASE k # j
    BY <1>0, <1>1, <2>2
  <2> QED
    BY <2>1, <2>2
<1>7. ASSUME NEW k \in Job
      PROVE  Shrinks(L, J[k], L, K[k], k)
  <2>1. CASE k = j
    <3> SUFFICES ASSUME NEW r \in Records, Outcome(L, s, j, r), r.state \in ActiveStates
                 PROVE  \E q \in Records : /\ Outcome(L, J[j], j, q) /\ q.state \in ActiveStates
                                           /\ r.gpus \subseteq q.gpus
      BY <1>1, <2>1 DEF Shrinks
    <3> QED
      BY <1>0, <1>4, <1>5
  <2>2. CASE k # j
    BY <1>1, <2>2 DEF Shrinks
  <2> QED
    BY <2>1, <2>2
<1>8. Apart(L, K)
  BY <1>0, <1>7, ShrinksApart
<1>9. ASSUME NEW k \in Job, NEW g, WillHold(L, J[k], k, g)
      PROVE  WillHold(L, K[k], k, g)
  <2>1. CASE k = j
    <3> SUFFICES ASSUME NEW r \in Records, Outcome(L, s, j, r)
                 PROVE  r.state \in ActiveStates /\ g \in r.gpus
      BY <1>1, <2>1 DEF WillHold
    <3> QED
      BY <1>0, <1>4, <1>5, <1>9, <2>1 DEF WillHold
  <2>2. CASE k # j
    BY <1>1, <1>9, <2>2
  <2> QED
    BY <2>1, <2>2
<1>10. Claimed(L, K, G)
  <2>1. ASSUME NEW g \in Gpu, G[g].job # NoJob
        PROVE  WillHold(L, K[G[g].job], G[g].job, g) \/ Freeing(L, G[g].job, g)
    <3>1. G[g].job \in Job
      BY <1>0, <2>1 DEF GpuRecord
    <3> QED
      BY <1>0, <1>9, <2>1, <3>1 DEF Claimed
  <2>2. ASSUME NEW i \in DOMAIN L, L[i].do = "put_gpu", L[i].as.job # NoJob
        PROVE  WillHold(L, K[L[i].as.job], L[i].as.job, L[i].gpu)
    <3>1. L[i] \in WorkStep
      BY <1>0, Element
    <3>2. L[i].as.job \in Job
      BY <2>2, <3>1, StepShape DEF GpuRecord
    <3>3. WillHold(L, J[L[i].as.job], L[i].as.job, L[i].gpu)
      BY <1>0, <2>2 DEF Claimed
    <3> QED
      BY <1>9, <3>2, <3>3
  <2>3. ASSUME NEW i \in DOMAIN L, L[i].do = "claim", NEW g \in L[i].gpus
        PROVE  WillHold(L, K[L[i].job], L[i].job, g)
    <3>1. L[i] \in WorkStep
      BY <1>0, Element
    <3>2. L[i].job \in Job
      BY <2>3, <3>1, StepShape
    <3>3. WillHold(L, J[L[i].job], L[i].job, g)
      BY <1>0, <2>3 DEF Claimed
    <3> QED
      BY <1>9, <3>2, <3>3
  <2> QED
    BY <2>1, <2>2, <2>3 DEF Claimed
<1>11. Current(L, K, X)
  <2>1. ASSUME NEW i \in DOMAIN L, L[i].do = "decide", NEW k \in Job
        PROVE  Alike(L[i].jobs[k], K[k])
    <3>1. Alike(L[i].jobs[k], J[k])
      BY <1>0, <2>1 DEF Current
    <3>2. CASE k = j
      <4>1. X[j].gpus \in SUBSET Gpu
        BY <1>0 DEF Process
      <4>2. Runs(L[i].jobs[j], X[j].gpus)
        BY <1>3, <3>1, <3>2 DEF Alike, Runs
      <4> QED
        BY <1>1, <3>2, <4>1, <4>2 DEF Alike
    <3>3. CASE k # j
      BY <1>1, <3>1, <3>3
    <3> QED
      BY <3>2, <3>3
  <2> QED
    BY <1>0, <2>1 DEF Current
<1>12. ASSUME NEW k \in Job, NEW a, Fair(a, L, J[k], X[k], k)
       PROVE  Fair(a, L, K[k], X[k], k)
  <2>1. CASE k = j
    BY <1>2, <1>12, <2>1 DEF Fair
  <2>2. CASE k # j
    BY <1>1, <1>12, <2>2
  <2> QED
    BY <2>1, <2>2
<1>13. Orderly(L, K, X, Q) /\ Orderly(L, K, X, B)
  BY <1>0, <1>12 DEF Orderly
<1>14. Sending(L, K, X)
  <2>1. ASSUME NEW i \in DOMAIN L, L[i].do = "queue"
        PROVE  Fair(L[i].action, L, K[L[i].job], X[L[i].job], L[i].job)
    <3>1. L[i] \in WorkStep
      BY <1>0, Element
    <3>2. L[i].job \in Job
      BY <2>1, <3>1, StepShape
    <3>3. Fair(L[i].action, L, J[L[i].job], X[L[i].job], L[i].job)
      BY <1>0, <2>1 DEF Sending
    <3> QED
      BY <1>12, <3>2, <3>3
  <2> QED
    BY <2>1 DEF Sending
<1> QED
  BY <1>0, <1>1, <1>6, <1>8, <1>10, <1>11, <1>13, <1>14 DEF Good

\* A trainer that has nothing to post ends.
LEMMA TrainerStops ==
  ASSUME NEW L, NEW T, NEW J, NEW G, NEW X, NEW Q, NEW B, Good(L, T, J, G, X, Q, B),
         NEW j \in Job, X[j].st \in Living, T[j] = <<>>, NEW st \in Ended,
         NEW Y, Y = [X EXCEPT ![j].st = st]
  PROVE  Good(L, T, J, G, Y, Q, B)
<1>0. /\ L \in Seq(WorkStep) /\ J \in [Job -> Records] /\ X \in [Job -> Process]
      /\ Current(L, J, X) /\ Orderly(L, J, X, Q) /\ Orderly(L, J, X, B) /\ Sending(L, J, X)
      /\ \A k \in Job : Life(L, T[k], J[k], X[k], k)
  BY DEF Good
<1>1. st \notin Living /\ st # "none" /\ X[j].st \notin Ended /\ X[j].st # "none"
  BY DEF Living, Ended
<1>2. /\ Y \in [Job -> Process] /\ Y[j].st = st /\ Y[j].gpus = X[j].gpus
      /\ \A k \in Job : k # j => Y[k] = X[k]
  BY <1>0 DEF Process
<1>3. ASSUME NEW k \in Job
      PROVE  Life(L, T[k], J[k], Y[k], k)
  <2>1. CASE k = j
    <3>1. \A r \in Records : Outcome(L, J[j], j, r) => Runs(r, X[j].gpus)
      BY <1>0 DEF Life, Outcome
    <3> QED
      BY <1>1, <1>2, <2>1, <3>1 DEF Life
  <2>2. CASE k # j
    BY <1>0, <1>2, <2>2
  <2> QED
    BY <2>1, <2>2
<1>4. ASSUME NEW k \in Job, NEW a, Fair(a, L, J[k], X[k], k)
      PROVE  Fair(a, L, J[k], Y[k], k)
  <2>1. CASE k = j
    BY <1>1, <1>4, <2>1 DEF Fair
  <2>2. CASE k # j
    BY <1>2, <1>4, <2>2
  <2> QED
    BY <2>1, <2>2
<1>5. Orderly(L, J, Y, Q) /\ Orderly(L, J, Y, B)
  BY <1>0, <1>4 DEF Orderly
<1>6. Sending(L, J, Y)
  <2>1. ASSUME NEW i \in DOMAIN L, L[i].do = "queue"
        PROVE  Fair(L[i].action, L, J[L[i].job], Y[L[i].job], L[i].job)
    <3>1. L[i] \in WorkStep
      BY <1>0, Element
    <3>2. L[i].job \in Job
      BY <2>1, <3>1, StepShape
    <3>3. Fair(L[i].action, L, J[L[i].job], X[L[i].job], L[i].job)
      BY <1>0, <2>1 DEF Sending
    <3> QED
      BY <1>4, <3>2, <3>3
  <2> QED
    BY <2>1 DEF Sending
<1>7. Current(L, J, Y)
  <2>1. ASSUME NEW i \in DOMAIN L, L[i].do = "reconcile", NEW k \in Job
        PROVE  /\ L[i].procs[k] = "dead" => Y[k].st \in Ended
               /\ L[i].procs[k] = "none" => Y[k].st = "none"
    <3>1. /\ L[i].procs[k] = "dead" => X[k].st \in Ended
          /\ L[i].procs[k] = "none" => X[k].st = "none"
      BY <1>0, <2>1 DEF Current
    <3>2. CASE k = j
      BY <1>1, <3>1, <3>2
    <3>3. CASE k # j
      BY <1>2, <3>1, <3>3
    <3> QED
      BY <3>2, <3>3
  <2> QED
    BY <1>0, <2>1 DEF Current
<1> QED
  BY <1>2, <1>3, <1>5, <1>6, <1>7 DEF Good

\* The worker posts what it sees.
LEMMA BeatStays ==
  ASSUME NEW T, NEW J, NEW G, NEW X, NEW Q, NEW B, Good(<<>>, T, J, G, X, Q, B),
         NEW N \in Seq(WorkStep), InOrder(N),
         \A i \in DOMAIN N :
           \/ N[i].do \in {"refresh", "pass", "answer"}
           \/ N[i].do = "reconcile" /\ \A k \in Job : N[i].procs[k] = Listed(X[k].st)
  PROVE  Good(N, T, J, G, X, Q, B)
<1>0. /\ J \in [Job -> Records] /\ X \in [Job -> Process]
      /\ Apart(<<>>, J) /\ Claimed(<<>>, J, G)
      /\ Orderly(<<>>, J, X, Q) /\ Orderly(<<>>, J, X, B)
      /\ \A k \in Job : Life(<<>>, T[k], J[k], X[k], k)
  BY DEF Good
<1>1. \A i \in DOMAIN N : N[i].do \in {"refresh", "pass", "answer", "reconcile"}
  OBVIOUS
<1>2. \A k : Writes(N, k) = {} /\ ~Ending(N, k)
  BY <1>1 DEF Writes, Ending
<1>3. \A k, r0, r : Outcome(N, r0, k, r) <=> Outcome(<<>>, r0, k, r)
  BY <1>2, IdleList DEF Outcome
<1>4. ASSUME NEW k \in Job
      PROVE  Life(N, T[k], J[k], X[k], k)
  <2>1. Life(<<>>, T[k], J[k], X[k], k)
    BY <1>0
  <2> QED
    BY <1>2, <1>3, <2>1, IdleList DEF Life
<1>5. Apart(N, J)
  BY <1>0, <1>3 DEF Apart
<1>6. Claimed(N, J, G)
  <2>1. ASSUME NEW g \in Gpu, G[g].job # NoJob
        PROVE  WillHold(N, J[G[g].job], G[g].job, g)
    <3>1. WillHold(<<>>, J[G[g].job], G[g].job, g)
      BY <1>0, <2>1, IdleList DEF Claimed
    <3> QED
      BY <1>3, <3>1 DEF WillHold
  <2> QED
    BY <1>1, <2>1 DEF Claimed
<1>7. ASSUME NEW k \in Job, NEW a, Fair(a, <<>>, J[k], X[k], k)
      PROVE  Fair(a, N, J[k], X[k], k)
  BY <1>2, <1>3, <1>7 DEF Fair
<1>8. Orderly(N, J, X, Q) /\ Orderly(N, J, X, B)
  BY <1>0, <1>7 DEF Orderly
<1>9. Sending(N, J, X)
  BY <1>1 DEF Sending
<1>10. Current(N, J, X)
  <2>1. ASSUME NEW i \in DOMAIN N, N[i].do = "reconcile", NEW k \in Job
        PROVE  /\ N[i].procs[k] = "dead" => X[k].st \in Ended
               /\ N[i].procs[k] = "none" => X[k].st = "none"
    <3>1. N[i].procs[k] = Listed(X[k].st)
      BY <2>1
    <3>2. X[k].st \in Living \cup Ended \cup {"none"}
      BY <1>0 DEF Process
    <3> QED
      BY <3>1, <3>2 DEF Listed
  <2> QED
    BY <1>1, <2>1 DEF Current
<1> QED
  BY <1>4, <1>5, <1>6, <1>8, <1>9, <1>10 DEF Good

\* The worker drops a dead process from its table and reports the exit.
LEMMA ReapStays ==
  ASSUME NEW T, NEW J, NEW G, NEW X, NEW Q, NEW B, Good(<<>>, T, J, G, X, Q, B),
         NEW j \in Job, X[j].st \in Ended, NEW x \in WorkStep, x.do = "exit", x.job = j,
         NEW Y, Y = [X EXCEPT ![j] = NoProc]
  PROVE  Good(<<x>>, T, J, G, Y, Q, B)
<1>0. /\ J \in [Job -> Records] /\ X \in [Job -> Process]
      /\ Apart(<<>>, J) /\ Claimed(<<>>, J, G)
      /\ Orderly(<<>>, J, X, Q) /\ Orderly(<<>>, J, X, B)
      /\ \A k \in Job : Life(<<>>, T[k], J[k], X[k], k)
  BY DEF Good
<1>1. PICK N : N = <<x>>
  OBVIOUS
<1>2. N \in Seq(WorkStep) /\ DOMAIN N = {1} /\ N[1] = x
  BY <1>1
<1>3. /\ \A k : Writes(N, k) = {} /\ (k # j => ~Ending(N, k))
      /\ Ending(N, j)
  BY <1>2 DEF Writes, Ending
<1>4. \A k, r0, r : Outcome(N, r0, k, r) <=> r = r0
  BY <1>3 DEF Outcome
<1>5. /\ Y \in [Job -> Process] /\ Y[j].st = "none" /\ \A k \in Job : k # j => Y[k] = X[k]
  BY <1>0 DEF Process, NoProc
<1>6. X[j].st \notin Living /\ X[j].st # "none" /\ "none" \notin Living /\ "none" \notin Ended
  BY DEF Living, Ended
<1>7. ASSUME NEW k \in Job
      PROVE  Life(N, T[k], J[k], Y[k], k)
  <2>0. Life(<<>>, T[k], J[k], X[k], k)
    BY <1>0
  <2>1. CASE k = j
    <3>1. T[j] = <<>>
      BY <1>6, <2>0, <2>1 DEF Life
    <3>2. Runs(J[j], X[j].gpus) \/ Rests(J[j])
      BY <1>0, <2>0, <2>1, IdleList DEF Life
    <3>3. Runs(J[j], J[j].gpus) \/ Off(J[j])
      BY <3>2 DEF Runs, Rests, Off
    <3> QED
      BY <1>3, <1>4, <1>5, <1>6, <2>1, <3>1, <3>3 DEF Life
  <2>2. CASE k # j
    BY <1>3, <1>4, <1>5, <2>0, <2>2, IdleList DEF Life
  <2> QED
    BY <2>1, <2>2
<1>8. Apart(N, J)
  BY <1>0, <1>4, IdleList DEF Apart
<1>9. Claimed(N, J, G)
  <2>1. ASSUME NEW g \in Gpu, G[g].job # NoJob
        PROVE  WillHold(N, J[G[g].job], G[g].job, g)
    <3>1. WillHold(<<>>, J[G[g].job], G[g].job, g)
      BY <1>0, <2>1, IdleList DEF Claimed
    <3> QED
      BY <1>4, <3>1, IdleList DEF WillHold
  <2> QED
    BY <1>2, <2>1 DEF Claimed
<1>10. ASSUME NEW k \in Job, NEW a, Fair(a, <<>>, J[k], X[k], k)
       PROVE  Fair(a, N, J[k], Y[k], k)
  <2>1. CASE k = j
    BY <1>6, <1>10, <2>1 DEF Fair
  <2>2. CASE k # j
    BY <1>3, <1>4, <1>5, <1>10, <2>2, IdleList DEF Fair
  <2> QED
    BY <2>1, <2>2
<1>11. Orderly(N, J, Y, Q) /\ Orderly(N, J, Y, B)
  BY <1>0, <1>10 DEF Orderly
<1>12. Sending(N, J, Y) /\ Current(N, J, Y) /\ InOrder(N)
  BY <1>2 DEF Sending, Current, InOrder
<1>13. Good(N, T, J, G, Y, Q, B)
  BY <1>2, <1>5, <1>7, <1>8, <1>9, <1>11, <1>12 DEF Good
<1> QED
  BY <1>1, <1>13

\* What the orders of a round make of a process.
LEMMA OrdersObeyed ==
  ASSUME NEW p \in Process, NEW r \in Records, NEW queue \in Seq(Action), NEW j,
         \A i \in DOMAIN queue : Fair(queue[i], <<>>, r, p, j)
  PROVE  /\ Obeying(p, queue) \in Process
         /\ \/ Obeying(p, queue) = p
            \/ p.st \in Living /\ Obeying(p, queue).st \in Living /\ Obeying(p, queue).gpus = p.gpus
            \/ /\ p.st = "none" /\ Obeying(p, queue).st \in Living
               /\ Runs(r, Obeying(p, queue).gpus)
<1> DEFINE S == {x \in Process :
                   \/ x = p
                   \/ p.st \in Living /\ x.st \in Living /\ x.gpus = p.gpus
                   \/ p.st = "none" /\ x.st \in Living /\ Runs(r, x.gpus)}
<1>1. p \in S
  OBVIOUS
<1>2. {"up", "asked"} \subseteq Living
  BY DEF Living
<1>3. ASSUME NEW x \in S, NEW i \in 1..Len(queue)
      PROVE  Obey(x, queue[i]) \in S
  <2>1. PICK a : a = queue[i]
    OBVIOUS
  <2> SUFFICES Obey(x, a) \in S
    BY <2>1
  <2>2. a \in Action /\ Fair(a, <<>>, r, p, j)
    BY <2>1
  <2>3. Obey(x, a) \in Process
    BY <2>2, ObeyShape
  <2>4. CASE a.kind = "START"
    <3>1. p.st = "none" /\ Waits(r, a.gpus)
      BY <2>2, <2>4, IdleList DEF Fair
    <3>2. Runs(r, a.gpus)
      BY <3>1 DEF Waits, Runs, ActiveStates
    <3>3. CASE x.st \in Living
      <4>1. Obey(x, a) = x
        BY <2>4, <3>3 DEF Obey
      <4> HIDE DEF S
      <4> QED
        BY <4>1
    <3>4. CASE x.st \notin Living
      <4>1. Obey(x, a) = [st |-> "up", gpus |-> a.gpus]
        BY <2>4, <3>4 DEF Obey
      <4>2. Obey(x, a).st \in Living /\ Runs(r, Obey(x, a).gpus)
        BY <1>2, <3>2, <4>1
      <4> QED
        BY <2>3, <3>1, <4>2
    <3> QED
      BY <3>3, <3>4
  <2>5. CASE a.kind = "PREEMPT"
    <3>1. CASE x.st \in {"up", "told"}
      <4>1. Obey(x, a) = [x EXCEPT !.st = "asked"]
        BY <2>5, <3>1 DEF Obey
      <4>2. Obey(x, a).st = "asked" /\ Obey(x, a).gpus = x.gpus
        BY <4>1 DEF Process
      <4>3. x.st \in Living
        BY <3>1 DEF Living
      <4>4. Obey(x, a).st \in Living
        BY <1>2, <4>2
      <4> QED
        BY <2>3, <4>2, <4>3, <4>4
    <3>2. CASE x.st \notin {"up", "told"}
      <4>1. Obey(x, a) = x
        BY <2>5, <3>2 DEF Obey
      <4> HIDE DEF S
      <4> QED
        BY <4>1
    <3> QED
      BY <3>1, <3>2
  <2>6. a.kind \in {"START", "PREEMPT"}
    BY <2>2 DEF Fair
  <2> QED
    BY <2>4, <2>5, <2>6
<1> HIDE DEF S
<1>4. Obeying(p, queue) \in S
  BY <1>1, <1>3, ObeyingStays
<1> QED
  BY <1>4 DEF S

\* The worker takes its orders.
LEMMA ApplyStays ==
  ASSUME NEW T, NEW J, NEW G, NEW X, NEW Q, NEW B, Good(<<>>, T, J, G, X, Q, B),
         NEW Y, Y = [k \in Job |-> Obeying(X[k], B[k])]
  PROVE  Good(<<>>, T, J, G, Y, Nothing, Nothing)
<1>0. /\ J \in [Job -> Records] /\ X \in [Job -> Process] /\ B \in [Job -> Seq(Action)]
      /\ Orderly(<<>>, J, X, B)
      /\ \A k \in Job : Life(<<>>, T[k], J[k], X[k], k)
  BY DEF Good
<1>1. ASSUME NEW k \in Job
      PROVE  /\ Y[k] \in Process
             /\ \/ Y[k] = X[k]
                \/ X[k].st \in Living /\ Y[k].st \in Living /\ Y[k].gpus = X[k].gpus
                \/ X[k].st = "none" /\ Y[k].st \in Living /\ Runs(J[k], Y[k].gpus)
  <2>1. \A i \in DOMAIN B[k] : Fair(B[k][i], <<>>, J[k], X[k], k)
    BY <1>0 DEF Orderly
  <2>2. X[k] \in Process /\ J[k] \in Records /\ B[k] \in Seq(Action) /\ Y[k] = Obeying(X[k], B[k])
    BY <1>0
  <2> QED
    BY <2>1, <2>2, OrdersObeyed
<1>2. Y \in [Job -> Process]
  BY <1>1
<1>3. ASSUME NEW k \in Job
      PROVE  Life(<<>>, T[k], J[k], Y[k], k)
  <2>0. Life(<<>>, T[k], J[k], X[k], k)
    BY <1>0
  <2>1. CASE Y[k] = X[k]
    BY <2>0, <2>1
  <2>2. CASE X[k].st \in Living /\ Y[k].st \in Living /\ Y[k].gpus = X[k].gpus
    <3>1. Y[k].st \notin Ended /\ Y[k].st # "none"
      BY <2>2 DEF Living, Ended
    <3> QED
      BY <2>0, <2>2, <3>1 DEF Life
  <2>3. CASE X[k].st = "none" /\ Y[k].st \in Living /\ Runs(J[k], Y[k].gpus)
    <3>1. Y[k].st \notin Ended /\ Y[k].st # "none"
      BY <2>3 DEF Living, Ended
    <3>2. T[k] = <<>>
      BY <2>0, <2>3 DEF Life, Living
    <3> QED
      BY <2>3, <3>1, <3>2, IdleList DEF Life
  <2> QED
    BY <1>1, <2>1, <2>2, <2>3
<1>4. Nothing \in [Job -> Seq(Action)] /\ \A k \in Job : DOMAIN Nothing[k] = {}
  BY NothingShape DEF Nothing
<1>5. Orderly(<<>>, J, Y, Nothing)
  BY <1>4 DEF Orderly
<1>6. Current(<<>>, J, Y) /\ Sending(<<>>, J, Y)
  BY IdleList
<1> QED
  BY <1>2, <1>3, <1>4, <1>5, <1>6 DEF Good

\* A cooldown runs out while nothing is under way.
LEMMA CoolingStays ==
  ASSUME NEW T, NEW J, NEW G, NEW X, NEW Q, NEW B, Good(<<>>, T, J, G, X, Q, B),
         NEW j \in Job, X[j].st \notin Ended,
         NEW s \in Records, s = [J[j] EXCEPT !.cooldown = "over"],
         NEW K, K = [J EXCEPT ![j] = s]
  PROVE  Good(<<>>, T, K, G, X, Q, B)
<1>0. /\ J \in [Job -> Records] /\ G \in [Gpu -> GpuRecord] /\ X \in [Job -> Process]
      /\ Apart(<<>>, J) /\ Claimed(<<>>, J, G)
      /\ Orderly(<<>>, J, X, Q) /\ Orderly(<<>>, J, X, B)
      /\ \A k \in Job : Life(<<>>, T[k], J[k], X[k], k)
  BY DEF Good
<1>1. K \in [Job -> Records] /\ K[j] = s /\ \A k \in Job : k # j => K[k] = J[k]
  BY <1>0
<1>2. s.state = J[j].state /\ s.gpus = J[j].gpus /\ s.node = J[j].node
  <2>1. J[j] \in JobRecord
    BY <1>0 DEF Records
  <2> QED
    BY <2>1 DEF JobRecord
<1>3. /\ \A D : (Runs(s, D) <=> Runs(J[j], D)) /\ (Waits(s, D) <=> Waits(J[j], D))
      /\ Off(s) <=> Off(J[j])
  BY <1>2 DEF Runs, Waits, Off
<1>4. ASSUME NEW k \in Job
      PROVE  Life(<<>>, T[k], K[k], X[k], k)
  <2>0. Life(<<>>, T[k], J[k], X[k], k)
    BY <1>0
  <2>1. CASE k = j
    <3>1. Life(<<>>, T[j], J[j], X[j], j) /\ X[j].st \notin Ended
      BY <2>0, <2>1
    <3>2. X[j].st \in Living => Runs(s, X[j].gpus)
      BY <1>3, <3>1 DEF Life
    <3>3. X[j].st = "none" => Off(J[j]) \/ Waits(J[j], J[j].gpus)
      BY <1>0, <3>1, IdleList DEF Life
    <3>4. X[j].st = "none" => Off(s) \/ Waits(s, s.gpus)
      BY <1>2, <1>3, <3>3
    <3>5. Life(<<>>, T[j], s, X[j], j)
      <4>1. \A r \in Records : Outcome(<<>>, s, j, r) => r = s
        BY IdleList
      <4>2. Writes(<<>>, j) = {} /\ ~Ending(<<>>, j)
        BY IdleList
      <4>3. X[j].st \notin Living => T[j] = <<>>
        BY <3>1 DEF Life
      <4>4. X[j].st \in Living => \A i \in Writes(T[j], j) : Runs(T[j][i].as, X[j].gpus)
        BY <3>1 DEF Life
      <4> QED
        BY <3>1, <3>2, <3>4, <4>1, <4>2, <4>3, <4>4 DEF Life
    <3> QED
      BY <1>1, <2>1, <3>5
  <2>2. CASE k # j
    BY <1>1, <2>0, <2>2
  <2> QED
    BY <2>1, <2>2
<1>5. \A k \in Job : K[k].state = J[k].state /\ K[k].gpus = J[k].gpus
  BY <1>1, <1>2
<1>6. Apart(<<>>, K)
  <2> SUFFICES ASSUME NEW i \in Job, NEW k \in Job, i # k,
                      K[i].state \in ActiveStates, K[k].state \in ActiveStates
               PROVE  K[i].gpus \cap K[k].gpus = {}
    <3>1. \A k \in Job, r \in Records : Outcome(<<>>, K[k], k, r) => r = K[k]
      BY IdleList
    <3> QED
      BY <3>1 DEF Apart
  <2>1. J[i] \in Records /\ J[k] \in Records
    BY <1>0
  <2>2. J[i].gpus \cap J[k].gpus = {}
    BY <1>0, <1>5, <2>1, IdleList DEF Apart
  <2> QED
    BY <1>5, <2>2
<1>7. Claimed(<<>>, K, G)
  <2>1. ASSUME NEW g \in Gpu, G[g].job # NoJob
        PROVE  WillHold(<<>>, K[G[g].job], G[g].job, g)
    <3>1. G[g].job \in Job
      BY <1>0, <2>1 DEF GpuRecord
    <3>2. WillHold(<<>>, J[G[g].job], G[g].job, g)
      BY <1>0, <2>1, IdleList DEF Claimed
    <3>3. J[G[g].job] \in Records
      BY <1>0, <3>1
    <3>4. J[G[g].job].state \in ActiveStates /\ g \in J[G[g].job].gpus
      BY <3>2, <3>3, IdleList DEF WillHold
    <3>5. K[G[g].job].state \in ActiveStates /\ g \in K[G[g].job].gpus
      BY <1>5, <3>1, <3>4
    <3>6. ASSUME NEW r, Outcome(<<>>, K[G[g].job], G[g].job, r)
          PROVE  r = K[G[g].job]
      BY <3>6, IdleList
    <3> QED
      BY <3>5, <3>6 DEF WillHold
  <2> QED
    BY <2>1, IdleList DEF Claimed
<1>8. ASSUME NEW k \in Job, NEW a, Fair(a, <<>>, J[k], X[k], k)
      PROVE  Fair(a, <<>>, K[k], X[k], k)
  <2>1. CASE k = j
    BY <1>0, <1>1, <1>3, <1>8, <2>1, IdleList DEF Fair
  <2>2. CASE k # j
    BY <1>1, <1>8, <2>2
  <2> QED
    BY <2>1, <2>2
<1>9. Orderly(<<>>, K, X, Q) /\ Orderly(<<>>, K, X, B)
  BY <1>0, <1>8 DEF Orderly
<1> QED
  BY <1>1, <1>4, <1>6, <1>7, <1>9, IdleList DEF Good

------------------------------------------------------------------------------
(* The invariant of the platform with one worker.                            *)

\* The threads have their lists, and the operator's has nothing to do.
Lists ==
  /\ todo = [t \in Thread |-> todo[t]]
  /\ todo[Operator] = <<>>

\* No worker or trainer was lost, and the worker takes its orders while it has no
\* request under way.
Whereabouts ==
  /\ pending \in Backlogs /\ inbox \in Backlogs /\ proc \in Processes
  /\ phase \in [Node -> {"beat", "apply", "reap"}]
  /\ heard \in Hearing /\ draining \in SUBSET Gpu /\ stopAll \in BOOLEAN
  /\ strays = {}
  /\ phase[n1] = "apply" => todo[Desk] = <<>> /\ pending[n1] = Nothing

\* The invariant.  The list that counts is the one of the worker's thread; that of
\* a trainer's only writes records like those that are there.
Calm ==
  /\ Lists /\ Whereabouts
  /\ Good(todo[Desk], [j \in Job |-> todo[Bench(j)]], job, gpu, proc[n1], pending[n1], inbox[n1])

\* The threads, when there is one worker.
LEMMA ThreadNames ==
  ASSUME Node = {n1}
  PROVE  /\ Desk \in Thread /\ Operator \in Thread /\ Desk # Operator
         /\ \A j \in Job : Bench(j) \in Thread /\ Bench(j) # Desk /\ Bench(j) # Operator
         /\ \A j, k \in Job : j # k => Bench(j) # Bench(k)
         /\ \A t \in Thread : t = Desk \/ t = Operator \/ \E j \in Job : t = Bench(j)
<1>1. Desk \in Thread /\ Operator \in Thread /\ \A j \in Job : Bench(j) \in Thread
  BY DEF Desk, Bench, Thread, Operator
<1>2. Desk # Operator /\ \A j : Bench(j) # Desk /\ Bench(j) # Operator
  BY DEF Desk, Bench, Operator
<1>3. \A j, k : j # k => Bench(j) # Bench(k)
  BY DEF Bench
<1>4. \A t \in Thread : t = Desk \/ t = Operator \/ \E j \in Job : t = Bench(j)
  BY DEF Desk, Bench, Thread, Operator
<1> QED
  BY <1>1, <1>2, <1>3, <1>4

\* The lists after a step of the worker's thread.
LEMMA DeskLists ==
  ASSUME Node = {n1}, Lists, NEW N, todo' = [todo EXCEPT ![Desk] = N]
  PROVE  /\ Lists' /\ todo'[Desk] = N
         /\ [j \in Job |-> todo'[Bench(j)]] = [j \in Job |-> todo[Bench(j)]]
<1>1. DOMAIN todo = Thread
  BY DEF Lists
<1>2. todo'[Desk] = N /\ todo'[Operator] = <<>> /\ \A j \in Job : todo'[Bench(j)] = todo[Bench(j)]
  BY <1>1, ThreadNames DEF Lists
<1>3. todo' = [t \in Thread |-> todo'[t]]
  BY <1>1
<1>4. Lists'
  BY <1>2, <1>3, ThreadNames DEF Lists
<1> QED
  BY <1>2, <1>4

\* The lists after a step of a trainer's thread.
LEMMA BenchLists ==
  ASSUME Node = {n1}, Lists, NEW j \in Job, NEW N, todo' = [todo EXCEPT ![Bench(j)] = N]
  PROVE  /\ Lists' /\ todo'[Desk] = todo[Desk] /\ todo'[Bench(j)] = N
         /\ \A k \in Job : k # j => todo'[Bench(k)] = todo[Bench(k)]
<1>1. DOMAIN todo = Thread
  BY DEF Lists
<1>2. /\ todo'[Desk] = todo[Desk] /\ todo'[Operator] = <<>> /\ todo'[Bench(j)] = N
      /\ \A k \in Job : k # j => todo'[Bench(k)] = todo[Bench(k)]
  BY <1>1, ThreadNames DEF Lists
<1>3. todo' = [t \in Thread |-> todo'[t]]
  BY <1>1
<1>4. Lists'
  BY <1>2, <1>3, ThreadNames DEF Lists
<1> QED
  BY <1>2, <1>4

\* A step of the worker's thread at the control plane.
LEMMA DeskGoes ==
  ASSUME Node = {n1}, Calm, todo[Desk] # <<>>, NEW N, todo' = [todo EXCEPT ![Desk] = N],
         Good(N, [j \in Job |-> todo[Bench(j)]], job', gpu', proc[n1], pending'[n1], inbox[n1]),
         pending' \in Backlogs, UNCHANGED <<heard, draining, stopAll, sideVars>>
  PROVE  Calm'
<1>1. Lists /\ Whereabouts
  BY DEF Calm
<1>2. /\ Lists' /\ todo'[Desk] = N
      /\ [j \in Job |-> todo'[Bench(j)]] = [j \in Job |-> todo[Bench(j)]]
  BY <1>1, DeskLists
<1>3. Whereabouts'
  BY <1>1 DEF Whereabouts, sideVars
<1>4. proc' = proc /\ inbox' = inbox
  BY DEF sideVars
<1> QED
  BY <1>2, <1>3, <1>4 DEF Calm

\* A step of the worker's thread that only reads.
LEMMA DeskReads ==
  ASSUME Node = {n1}, Calm, todo[Desk] # <<>>, NEW M, Reads(Desk, M),
         Good(M \o Tail(todo[Desk]), [j \in Job |-> todo[Bench(j)]], job, gpu, proc[n1],
              pending[n1], inbox[n1])
  PROVE  Calm'
<1>1. PICK N : N = M \o Tail(todo[Desk])
  OBVIOUS
<1>2. todo' = [todo EXCEPT ![Desk] = N]
  BY <1>1 DEF Reads, Then
<1>3. UNCHANGED <<job, gpu, pending, heard, draining, stopAll, sideVars>>
  BY DEF Reads, allVars, vars
<1>4. pending \in Backlogs
  BY DEF Calm, Whereabouts
<1>5. Good(N, [j \in Job |-> todo[Bench(j)]], job', gpu', proc[n1], pending'[n1], inbox[n1])
  BY <1>1, <1>3
<1> QED
  BY <1>2, <1>3, <1>4, <1>5, DeskGoes

\* The worker's thread writes a record.
LEMMA DeskPuts ==
  ASSUME Node = {n1}, Calm, PutsJob(Desk) \/ PutsGpu(Desk) \/ Queues(Desk)
  PROVE  Calm'
<1>1. PICK L, T : L = todo[Desk] /\ T = [j \in Job |-> todo[Bench(j)]]
  OBVIOUS
<1>2. Good(L, T, job, gpu, proc[n1], pending[n1], inbox[n1])
  BY <1>1 DEF Calm
<1>3. L # <<>>
  BY <1>1 DEF PutsJob, PutsGpu, Queues, At, Idles
<1>4. L \in Seq(WorkStep) /\ Head(L) = L[1] /\ L[1] \in WorkStep
  <2>1. L \in Seq(WorkStep)
    BY <1>2 DEF Good
  <2> QED
    BY <1>3, <2>1, FirstStep
<1>5. PICK N : N = <<>> \o Tail(L)
  OBVIOUS
<1>6. /\ todo' = [todo EXCEPT ![Desk] = N] /\ UNCHANGED <<heard, draining, stopAll, sideVars>>
      /\ This(Desk) = L[1] /\ pending \in Backlogs
  BY <1>1, <1>4, <1>5 DEF PutsJob, PutsGpu, Queues, Then, This, Calm, Whereabouts
<1>7. CASE PutsJob(Desk)
  <2>1. /\ L[1].do = "put_job" /\ job' = [job EXCEPT ![L[1].job] = L[1].as]
        /\ UNCHANGED <<gpu, pending>>
    BY <1>1, <1>4, <1>6, <1>7 DEF PutsJob, At
  <2>2. Good(N, T, job', gpu', proc[n1], pending'[n1], inbox[n1])
    BY <1>2, <1>3, <1>5, <2>1, PutJobStays
  <2> QED
    BY <1>1, <1>3, <1>6, <2>1, <2>2, DeskGoes
<1>8. CASE PutsGpu(Desk)
  <2>1. /\ L[1].do = "put_gpu" /\ gpu' = [gpu EXCEPT ![L[1].gpu] = L[1].as]
        /\ UNCHANGED <<job, pending>>
    BY <1>1, <1>4, <1>6, <1>8 DEF PutsGpu, At
  <2>2. Good(N, T, job', gpu', proc[n1], pending'[n1], inbox[n1])
    BY <1>2, <1>3, <1>5, <2>1, PutGpuStays
  <2> QED
    BY <1>1, <1>3, <1>6, <2>1, <2>2, DeskGoes
<1>9. CASE Queues(Desk)
  <2>1. /\ L[1].do = "queue" /\ UNCHANGED <<job, gpu>>
        /\ pending' = IF L[1].node = NoNode THEN pending
                      ELSE [pending EXCEPT ![L[1].node][L[1].job] = Push(@, L[1].action)]
    BY <1>1, <1>4, <1>6, <1>9 DEF Queues, At
  <2>2. /\ L[1].node \in Node \cup {NoNode} /\ L[1].job \in Job /\ L[1].action \in Action
        /\ n1 \in Node /\ pending[n1] \in [Job -> Seq(Action)]
    BY <1>4, <1>6, <2>1, StepShape DEF Backlogs
  <2>3. CASE L[1].node = NoNode
    <3>1. Good(N, T, job', gpu', proc[n1], pending'[n1], inbox[n1])
      BY <1>2, <1>3, <1>5, <2>1, <2>3, QueueStays
    <3> QED
      BY <1>1, <1>3, <1>6, <2>1, <2>3, <3>1, DeskGoes
  <2>4. CASE L[1].node # NoNode
    <3>1. L[1].node = n1
      BY <2>2, <2>4
    <3>2. PICK R : R = [pending[n1] EXCEPT ![L[1].job] = Push(pending[n1][L[1].job], L[1].action)]
      OBVIOUS
    <3>3. pending' = [pending EXCEPT ![n1] = R]
      BY <1>6, <2>1, <2>4, <3>1, <3>2
    <3>4. Push(pending[n1][L[1].job], L[1].action) \in Seq(Action)
      BY <2>2, PushShape
    <3>5. R \in [Job -> Seq(Action)]
      BY <2>2, <3>2, <3>4
    <3>6. pending' \in Backlogs /\ pending'[n1] = R
      BY <1>6, <2>2, <3>3, <3>5 DEF Backlogs
    <3>7. Good(N, T, job, gpu, proc[n1], R, inbox[n1])
      BY <1>2, <1>3, <1>5, <2>1, <3>2, QueueStays
    <3>8. Good(N, T, job', gpu', proc[n1], pending'[n1], inbox[n1])
      BY <2>1, <3>6, <3>7
    <3> QED
      BY <1>1, <1>3, <1>6, <3>6, <3>8, DeskGoes
  <2> QED
    BY <2>3, <2>4
<1> QED
  BY <1>7, <1>8, <1>9

\* The step that the worker's thread takes.
LEMMA DeskFirst ==
  ASSUME Calm, NEW what, At(Desk, what)
  PROVE  /\ todo[Desk] # <<>> /\ todo[Desk] \in Seq(WorkStep)
         /\ This(Desk) = todo[Desk][1] /\ todo[Desk][1] \in WorkStep /\ todo[Desk][1].do = what
         /\ Good(todo[Desk], [j \in Job |-> todo[Bench(j)]], job, gpu, proc[n1], pending[n1],
                 inbox[n1])
<1>1. PICK L : L = todo[Desk]
  OBVIOUS
<1>2. Good(L, [j \in Job |-> todo[Bench(j)]], job, gpu, proc[n1], pending[n1], inbox[n1])
  BY <1>1 DEF Calm
<1>3. L \in Seq(WorkStep) /\ L # <<>> /\ Head(L).do = what
  BY <1>1, <1>2 DEF Good, At, Idles
<1>4. Head(L) = L[1] /\ L[1] \in WorkStep
  BY <1>3, FirstStep
<1> QED
  BY <1>1, <1>2, <1>3, <1>4 DEF This

\* The worker's thread lists the devices of a release or a claim.
LEMMA DeskLends ==
  ASSUME Node = {n1}, Calm, Releases(Desk) \/ Claims(Desk)
  PROVE  Calm'
<1>1. PICK L, T : L = todo[Desk] /\ T = [j \in Job |-> todo[Bench(j)]]
  OBVIOUS
<1>2. CASE Releases(Desk)
  <2>1. At(Desk, "release")
    BY <1>2 DEF Releases
  <2>2. L # <<>> /\ L[1].do = "release" /\ This(Desk) = L[1]
        /\ Good(L, T, job, gpu, proc[n1], pending[n1], inbox[n1])
    BY <1>1, <2>1, DeskFirst
  <2>3. PICK M : M = PutGpus({g \in Gpu : gpu[g].job = L[1].job},
                             [occ |-> "AVAILABLE", job |-> NoJob])
    OBVIOUS
  <2>4. Reads(Desk, M)
    BY <1>2, <2>2, <2>3 DEF Releases
  <2>5. PICK N : N = M \o Tail(L)
    OBVIOUS
  <2>6. Good(N, T, job, gpu, proc[n1], pending[n1], inbox[n1])
    BY <2>2, <2>3, <2>5, ReleaseStays
  <2> QED
    BY <1>1, <2>2, <2>4, <2>5, <2>6, DeskReads
<1>3. CASE Claims(Desk)
  <2>1. At(Desk, "claim")
    BY <1>3 DEF Claims
  <2>2. L # <<>> /\ L[1].do = "claim" /\ This(Desk) = L[1]
        /\ Good(L, T, job, gpu, proc[n1], pending[n1], inbox[n1])
    BY <1>1, <2>1, DeskFirst
  <2>3. PICK M : M = PutGpus(L[1].gpus, [occ |-> "TROIANI", job |-> L[1].job])
    OBVIOUS
  <2>4. Reads(Desk, M)
    BY <1>3, <2>2, <2>3 DEF Claims
  <2>5. PICK N : N = M \o Tail(L)
    OBVIOUS
  <2>6. Good(N, T, job, gpu, proc[n1], pending[n1], inbox[n1])
    BY <2>2, <2>3, <2>5, ClaimStays
  <2> QED
    BY <1>1, <2>2, <2>4, <2>5, <2>6, DeskReads
<1> QED
  BY <1>2, <1>3

\* The worker's thread asks a job to leave.
LEMMA DeskPreempts ==
  ASSUME Node = {n1}, Calm, PreemptArrives(Desk)
  PROVE  Calm'
<1>1. PICK L, T : L = todo[Desk] /\ T = [j \in Job |-> todo[Bench(j)]]
  OBVIOUS
<1>2. At(Desk, "preempt")
  BY DEF PreemptArrives
<1>3. L # <<>> /\ L[1].do = "preempt" /\ This(Desk) = L[1]
      /\ Good(L, T, job, gpu, proc[n1], pending[n1], inbox[n1])
  BY <1>1, <1>2, DeskFirst
<1>4. PICK j : j = L[1].job
  OBVIOUS
<1>5. PICK F : F = <<Put(j, [job[j] EXCEPT !.preempt = TRUE]),
                     Queue(job[j].node, j, Order("PREEMPT"))>>
                     \o IF job[j].state = "RUNNING"
                        THEN <<Put(j, Asked(job[j])), Put(j, Asked(job[j]))>> ELSE <<>>
  OBVIOUS
<1>6. PICK M : (M = <<>> \/ M = F) /\ Reads(Desk, M)
  <2>1. Reads(Desk, IF j \notin Active(Store) THEN <<>> ELSE F)
    BY <1>3, <1>4, <1>5 DEF PreemptArrives
  <2> QED
    BY <2>1
<1>7. PICK N : N = M \o Tail(L)
  OBVIOUS
<1>8. \/ N = <<>> \o Tail(L)
      \/ N = (<<Put(j, [job[j] EXCEPT !.preempt = TRUE]), Queue(job[j].node, j, Order("PREEMPT"))>>
                \o IF job[j].state = "RUNNING"
                   THEN <<Put(j, Asked(job[j])), Put(j, Asked(job[j]))>> ELSE <<>>) \o Tail(L)
  BY <1>5, <1>6, <1>7
<1>9. Good(N, T, job, gpu, proc[n1], pending[n1], inbox[n1])
  BY <1>3, <1>4, <1>8, PreemptStays
<1> QED
  BY <1>1, <1>3, <1>6, <1>7, <1>9, DeskReads

\* The worker's thread lists the jobs for a pass.
LEMMA DeskLooks ==
  ASSUME Node = {n1}, Calm, PassListsJobs(Desk)
  PROVE  Calm'
<1>1. PICK L, T : L = todo[Desk] /\ T = [j \in Job |-> todo[Bench(j)]]
  OBVIOUS
<1>2. At(Desk, "pass")
  BY DEF PassListsJobs
<1>3. L # <<>> /\ L[1].do = "pass" /\ Good(L, T, job, gpu, proc[n1], pending[n1], inbox[n1])
  BY <1>1, <1>2, DeskFirst
<1>4. PICK M : M = <<[do |-> "decide", jobs |-> job]>>
  OBVIOUS
<1>5. Reads(Desk, M)
  BY <1>4 DEF PassListsJobs
<1>6. PICK N : N = M \o Tail(L)
  OBVIOUS
<1>7. Good(N, T, job, gpu, proc[n1], pending[n1], inbox[n1])
  BY <1>3, <1>4, <1>6, PassStays
<1> QED
  BY <1>1, <1>3, <1>5, <1>6, <1>7, DeskReads

\* The worker's thread syncs a job with its checkpoints.
LEMMA DeskSyncs ==
  ASSUME Node = {n1}, Calm, Syncs(Desk)
  PROVE  Calm'
<1>1. PICK L, T : L = todo[Desk] /\ T = [j \in Job |-> todo[Bench(j)]]
  OBVIOUS
<1>2. At(Desk, "sync")
  BY DEF Syncs
<1>3. L # <<>> /\ L[1].do = "sync" /\ This(Desk) = L[1]
      /\ Good(L, T, job, gpu, proc[n1], pending[n1], inbox[n1])
  BY <1>1, <1>2, DeskFirst
<1>4. PICK j : j = L[1].job
  OBVIOUS
<1>5. PICK M : M = SyncSteps(j)
  OBVIOUS
<1>6. M = <<>> \/ M = <<Put(j, [job[j] EXCEPT !.ckpt = "usable"])>>
  BY <1>5 DEF SyncSteps, Pointed
<1>7. Reads(Desk, M)
  BY <1>3, <1>4, <1>5 DEF Syncs
<1>8. PICK N : N = M \o Tail(L)
  OBVIOUS
<1>9. \/ N = <<>> \o Tail(L)
      \/ N = <<Put(j, [job[j] EXCEPT !.ckpt = "usable"])>> \o Tail(L)
  BY <1>6, <1>8
<1>10. Good(N, T, job, gpu, proc[n1], pending[n1], inbox[n1])
  BY <1>3, <1>4, <1>9, SyncStays
<1> QED
  BY <1>1, <1>3, <1>7, <1>8, <1>10, DeskReads

\* The worker's thread is told of an exit.
LEMMA DeskExits ==
  ASSUME Cools, Node = {n1}, Calm, ExitArrives(Desk)
  PROVE  Calm'
<1>1. PICK L, T : L = todo[Desk] /\ T = [j \in Job |-> todo[Bench(j)]]
  OBVIOUS
<1>2. At(Desk, "exit")
  BY DEF ExitArrives
<1>3. L # <<>> /\ L[1].do = "exit" /\ This(Desk) = L[1]
      /\ Good(L, T, job, gpu, proc[n1], pending[n1], inbox[n1])
  BY <1>1, <1>2, DeskFirst
<1>4. PICK j : j = L[1].job
  OBVIOUS
<1>5. PICK v : v = Verdict([job[j] EXCEPT !.ckpt = IF j \in recorded THEN "usable" ELSE "none"],
                           L[1].exit, NoFiles)
  OBVIOUS
<1>6. v \in {"completed", "preempted", "failed"}
  BY <1>5 DEF Verdict
<1>7. PICK M : /\ (Closed(job[j]) /\ M = <<Of("sync", j)>>) \/ M = ExitSteps(j, job[j], v)
               /\ Reads(Desk, M)
  <2>1. Reads(Desk, IF Closed(job[j]) THEN <<Of("sync", j)>> ELSE ExitSteps(j, job[j], v))
    BY <1>3, <1>4, <1>5 DEF ExitArrives
  <2> QED
    BY <2>1
<1>8. PICK N : N = M \o Tail(L)
  OBVIOUS
<1>9. \/ Closed(job[j]) /\ N = <<Of("sync", j)>> \o Tail(L)
      \/ N = ExitSteps(j, job[j], v) \o Tail(L)
  BY <1>7, <1>8
<1>10. Good(N, T, job, gpu, proc[n1], pending[n1], inbox[n1])
  BY <1>3, <1>4, <1>6, <1>9, ExitStays
<1> QED
  BY <1>1, <1>3, <1>7, <1>8, <1>10, DeskReads

\* The states of a requeue, by the state of the record.
RequeuePath(st) ==
  CASE st \in {"RUNNING", "STARTING", "RESUMING"} -> <<"CHECKPOINTING", "PREEMPTED", "QUEUED">>
    [] st \in {"SCHEDULED", "CHECKPOINTING"} -> <<"PREEMPTED", "QUEUED">>
    [] st = "PREEMPTED" -> <<"QUEUED">>
    [] OTHER -> <<>>

\* An active job walks through some, and no other does but a preempted one.
LEMMA RequeuePaths ==
  ASSUME NEW st
  PROVE  /\ RequeuePath(st) \in Seq(JobState)
         /\ st \in ActiveStates => RequeuePath(st) # <<>>
         /\ RequeuePath(st) # <<>> => st \in ActiveStates \cup {"PREEMPTED"}
<1>1. {"CHECKPOINTING", "PREEMPTED", "QUEUED"} \subseteq JobState
  BY DEF JobState
<1>2. CASE st \in {"RUNNING", "STARTING", "RESUMING"}
  <2>1. RequeuePath(st) = <<"CHECKPOINTING", "PREEMPTED", "QUEUED">>
    BY <1>2 DEF RequeuePath
  <2> QED
    BY <1>1, <1>2, <2>1 DEF ActiveStates
<1>3. CASE st \in {"SCHEDULED", "CHECKPOINTING"}
  <2>1. RequeuePath(st) = <<"PREEMPTED", "QUEUED">>
    BY <1>3 DEF RequeuePath
  <2>2. <<"PREEMPTED", "QUEUED">> \in Seq(JobState) /\ <<"PREEMPTED", "QUEUED">> # <<>>
    BY <1>1
  <2>3. st \in ActiveStates
    BY <1>3 DEF ActiveStates
  <2> QED
    BY <2>1, <2>2, <2>3
<1>4. CASE st = "PREEMPTED"
  <2>1. RequeuePath(st) = <<"QUEUED">>
    BY <1>4 DEF RequeuePath
  <2>2. <<"QUEUED">> \in Seq(JobState) /\ <<"QUEUED">> # <<>>
    BY <1>1
  <2>3. st \in ActiveStates \cup {"PREEMPTED"}
    BY <1>4
  <2> QED
    BY <2>1, <2>2, <2>3
<1>5. CASE st \notin ActiveStates \cup {"PREEMPTED"}
  <2>1. RequeuePath(st) = <<>>
    BY <1>5 DEF RequeuePath, ActiveStates
  <2> QED
    BY <1>5, <2>1
<1> QED
  BY <1>2, <1>3, <1>4, <1>5 DEF ActiveStates

\* The worker's thread queues a preempted job again.
LEMMA DeskRequeues ==
  ASSUME Cools, Node = {n1}, Calm, Requeues(Desk)
  PROVE  Calm'
<1>1. PICK L, T : L = todo[Desk] /\ T = [j \in Job |-> todo[Bench(j)]]
  OBVIOUS
<1>2. At(Desk, "requeue")
  BY DEF Requeues
<1>3. L # <<>> /\ L[1].do = "requeue" /\ This(Desk) = L[1] /\ L[1] \in WorkStep
      /\ Good(L, T, job, gpu, proc[n1], pending[n1], inbox[n1])
  BY <1>1, <1>2, DeskFirst
<1>4. PICK j : j = L[1].job
  OBVIOUS
<1>5. j \in Job /\ job[j] \in Records
  BY <1>3, <1>4, StepShape DEF Good
<1>6. PICK r : r = IF j \in recorded THEN Pointed(j) ELSE job[j]
  OBVIOUS
<1>7. r = job[j] \/ r = [job[j] EXCEPT !.ckpt = "usable"]
  BY <1>6 DEF Pointed
<1>8. r.state = job[j].state
  BY <1>5, <1>7 DEF Records, JobRecord
<1>9. PICK path : path = RequeuePath(r.state)
  OBVIOUS
<1>10. /\ path \in Seq(JobState)
       /\ job[j].state \in ActiveStates => path # <<>>
       /\ path # <<>> => job[j].state \in ActiveStates \cup {"PREEMPTED"}
  BY <1>8, <1>9, RequeuePaths
<1>11. PICK S : S = SyncSteps(j)
  OBVIOUS
<1>12. S = <<>> \/ S = <<Put(j, [job[j] EXCEPT !.ckpt = "usable"])>>
  BY <1>11 DEF SyncSteps, Pointed
<1>13. PICK M : M = RequeueOf(j, r, S, path)
  OBVIOUS
<1>14. Reads(Desk, M)
  BY <1>3, <1>4, <1>6, <1>9, <1>11, <1>13 DEF Requeues, RequeuePath, RequeueOf
<1>15. PICK N : N = RequeueOf(j, r, S, path) \o Tail(L)
  OBVIOUS
<1>16. Good(N, T, job, gpu, proc[n1], pending[n1], inbox[n1])
  BY <1>3, <1>4, <1>7, <1>10, <1>12, <1>15, RequeueStays
<1> QED
  BY <1>1, <1>3, <1>13, <1>14, <1>15, <1>16, DeskReads

\* The worker's thread takes in what the worker saw on a device.
LEMMA DeskRefreshes ==
  ASSUME Node = {n1}, Calm, RefreshReads(Desk)
  PROVE  Calm'
<1>1. PICK L, T : L = todo[Desk] /\ T = [j \in Job |-> todo[Bench(j)]]
  OBVIOUS
<1>2. At(Desk, "refresh")
  BY DEF RefreshReads
<1>3. L # <<>> /\ L[1].do = "refresh" /\ This(Desk) = L[1] /\ L[1] \in WorkStep
      /\ Good(L, T, job, gpu, proc[n1], pending[n1], inbox[n1])
  BY <1>1, <1>2, DeskFirst
<1>4. PICK g, seen : g = L[1].gpu /\ seen = L[1].seen
  OBVIOUS
<1>5. /\ g \in Gpu /\ seen \in {"AVAILABLE", "TROIANI", "RESEARCHER"}
      /\ gpu[g] \in GpuRecord
  BY <1>3, <1>4, StepShape DEF Good
<1>6. PICK R : R = Refreshed(g, seen)
  OBVIOUS
<1>7. R \in GpuRecord /\ R.job \in {NoJob, gpu[g].job}
  <2>1. gpu[g].job \in Job \cup {NoJob}
    BY <1>5 DEF GpuRecord
  <2> QED
    BY <1>5, <1>6, <2>1 DEF Refreshed, GpuRecord
<1>8. PICK M : M = <<PutGpu(g, R)>>
  OBVIOUS
<1>9. Reads(Desk, M)
  BY <1>3, <1>4, <1>6, <1>8 DEF RefreshReads
<1>10. PICK N : N = M \o Tail(L)
  OBVIOUS
<1>11. Good(N, T, job, gpu, proc[n1], pending[n1], inbox[n1])
  BY <1>3, <1>4, <1>7, <1>8, <1>10, RefreshStays
<1> QED
  BY <1>1, <1>3, <1>9, <1>10, <1>11, DeskReads

\* The worker's thread looks for jobs whose processes are gone.
LEMMA DeskReconciles ==
  ASSUME Node = {n1}, Calm, Reconciles(Desk)
  PROVE  Calm'
<1>1. PICK L, T : L = todo[Desk] /\ T = [j \in Job |-> todo[Bench(j)]]
  OBVIOUS
<1>2. At(Desk, "reconcile")
  BY DEF Reconciles
<1>3. L # <<>> /\ L[1].do = "reconcile" /\ This(Desk) = L[1] /\ L[1] \in WorkStep
      /\ Good(L, T, job, gpu, proc[n1], pending[n1], inbox[n1])
  BY <1>1, <1>2, DeskFirst
<1>4. PICK D : D = GoneBy(L[1].node, L[1].procs)
  OBVIOUS
<1>5. D \subseteq Job
  BY <1>4 DEF GoneBy, OwnedBy, Active
<1>6. PICK gone : gone = SetToSeq(D)
  OBVIOUS
<1>7. gone \in Seq(D)
  BY <1>5, <1>6, ListOfSet, FiniteThings
<1>8. PICK M : M = [i \in 1..Len(gone) |->
                      [do |-> "exit", job |-> gone[i], exit |-> ReportedGone(job[gone[i]])]]
  OBVIOUS
<1>9. Reads(Desk, M)
  BY <1>3, <1>4, <1>6, <1>8 DEF Reconciles
<1>10. Len(gone) \in Nat /\ DOMAIN M = 1..Len(gone) /\ \A i \in DOMAIN M : gone[i] \in D
  BY <1>7, <1>8
<1>11. ASSUME NEW i \in DOMAIN M
       PROVE  /\ M[i] \in WorkStep /\ M[i].do = "exit" /\ M[i].job \in D
  <2>1. M[i] = [do |-> "exit", job |-> gone[i], exit |-> ReportedGone(job[gone[i]])]
    BY <1>8, <1>10
  <2>2. PICK x : x = ReportedGone(job[gone[i]])
    OBVIOUS
  <2>3. x \in ExitReport
    BY <2>2 DEF ReportedGone, ExitReport
  <2>4. gone[i] \in D /\ gone[i] \in Job
    BY <1>5, <1>10
  <2> QED
    BY <2>1, <2>2, <2>3, <2>4 DEF WorkStep
<1>12. M \in Seq(WorkStep)
  BY <1>8, <1>10, <1>11
<1>13. \A i \in DOMAIN M :
         /\ M[i].do = "exit"
         /\ \/ L[1].procs[M[i].job] = "dead"
            \/ L[1].procs[M[i].job] = "none" /\ job[M[i].job].state \in {"RUNNING", "CHECKPOINTING"}
  BY <1>4, <1>11 DEF GoneBy
<1>14. PICK N : N = M \o Tail(L)
  OBVIOUS
<1>15. Good(N, T, job, gpu, proc[n1], pending[n1], inbox[n1])
  <2>1. PICK J, X, Q, B : J = job /\ X = proc[n1] /\ Q = pending[n1] /\ B = inbox[n1]
    OBVIOUS
  <2>2. Good(L, T, J, gpu, X, Q, B)
    BY <1>3, <2>1
  <2>3. ExitsOf(M, L[1].procs, J)
    BY <1>13, <2>1 DEF ExitsOf
  <2>4. L # <<>> /\ L[1].do = "reconcile"
    BY <1>3
  <2>5. Good(N, T, J, gpu, X, Q, B)
    BY <1>12, <1>14, <2>2, <2>3, <2>4, ReconcileStays
  <2> QED
    BY <2>1, <2>5
<1> QED
  BY <1>1, <1>3, <1>9, <1>14, <1>15, DeskReads

\* What thread t goes on with, by a pass over the store as s has it.
GoesOnWith(t, s, leaving) ==
  \E P \in Passes(s) :
    Reads(t, [i \in 1..Len(leaving) |-> Of("preempt", leaving[i])]
               \o FlattenSeq([j \in Job |-> PlacementSteps(j, s.job[j], P[j])]))

\* A pass is one over the jobs listed before.
LEMMA DecidesAs ==
  ASSUME NEW t, PassDecides(t)
  PROVE  GoesOnWith(t, [Store EXCEPT !.job = This(t).jobs],
                    SetToSeq(Victims([Store EXCEPT !.job = This(t).jobs])
                               \cup Exceeded([Store EXCEPT !.job = This(t).jobs])))
BY DEF PassDecides, GoesOnWith

\* The worker's thread decides on a pass.
LEMMA DeskDecides ==
  ASSUME Node = {n1}, Calm, PassDecides(Desk)
  PROVE  Calm'
<1>1. PICK L, T : L = todo[Desk] /\ T = [j \in Job |-> todo[Bench(j)]]
  OBVIOUS
<1>2. At(Desk, "decide")
  BY DEF PassDecides
<1>3. L # <<>> /\ L[1].do = "decide" /\ This(Desk) = L[1] /\ L[1] \in WorkStep
      /\ Good(L, T, job, gpu, proc[n1], pending[n1], inbox[n1])
  BY <1>1, <1>2, DeskFirst
<1>4. PICK K : K = L[1].jobs
  OBVIOUS
<1>5. K \in [Job -> Records]
  BY <1>3, <1>4, StepShape
<1>6. PICK s : s = [Store EXCEPT !.job = K]
  OBVIOUS
<1>7. s \in Snapshot /\ s.job = K
  <2>1. gpu \in Gpus /\ Whereabouts
    BY <1>3 DEF Good, Calm, Gpus
  <2>2. K \in Jobs
    BY <1>5 DEF Records, Jobs
  <2>3. s = [job |-> K, gpu |-> gpu, pending |-> pending, heard |-> heard,
             draining |-> draining, stopAll |-> stopAll]
    BY <1>6 DEF Store
  <2> QED
    BY <2>1, <2>2, <2>3 DEF Whereabouts, Snapshot
<1>8. Punctual(s)
  BY <1>5, <1>7 DEF Punctual, Records
<1>9. PICK D : D = Victims(s) \cup Exceeded(s)
  OBVIOUS
<1>10. D \subseteq Job
  BY <1>9 DEF Victims, Exceeded, Active
<1>11. PICK leaving : leaving = SetToSeq(D)
  OBVIOUS
<1>12. leaving \in Seq(Job)
  <2>1. leaving \in Seq(D)
    BY <1>10, <1>11, ListOfSet, FiniteThings
  <2> QED
    BY <1>10, <2>1, ListOfSome
<1>13. PICK P \in Passes(s) :
         Reads(Desk, [i \in 1..Len(leaving) |-> Of("preempt", leaving[i])]
                       \o FlattenSeq([j \in Job |-> PlacementSteps(j, s.job[j], P[j])]))
  <2>1. s = [Store EXCEPT !.job = This(Desk).jobs]
    BY <1>3, <1>4, <1>6
  <2>2. leaving = SetToSeq(Victims(s) \cup Exceeded(s))
    BY <1>9, <1>11
  <2>3. GoesOnWith(Desk, s, leaving)
    BY <2>1, <2>2, DecidesAs
  <2> QED
    BY <2>3 DEF GoesOnWith
<1>14. Sensible(P, K) /\ \A j \in Job : P[j] # {} => HomeOf(P[j]) \in Node
  BY <1>7, <1>8, PassSensible
<1>15. PICK F : F = [j \in Job |-> PlacementSteps(j, s.job[j], P[j])]
  OBVIOUS
<1>16. P \in [Job -> SUBSET Gpu]
  BY <1>14 DEF Sensible
<1>17. ASSUME NEW j \in Job
       PROVE  PlacesOne(F[j], j, P)
  <2>1. K[j] \in Records /\ F[j] = PlacementSteps(j, K[j], P[j])
    BY <1>5, <1>7, <1>15
  <2> QED
    BY <1>14, <1>16, <2>1, PlacementLeaves
<1>18. F \in [Job -> Seq(WorkStep)]
  BY <1>15, <1>17 DEF PlacesOne
<1>19. PICK M : M = [i \in 1..Len(leaving) |-> Of("preempt", leaving[i])] \o FlattenSeq(F)
  OBVIOUS
<1>20. Reads(Desk, M)
  BY <1>13, <1>15, <1>19
<1>21. M \in Seq(WorkStep) /\ Places(M, P, K)
  BY <1>12, <1>17, <1>18, <1>19, PassLeaves
<1>22. PICK N : N = M \o Tail(L)
  OBVIOUS
<1>23. Good(N, T, job, gpu, proc[n1], pending[n1], inbox[n1])
  BY <1>3, <1>4, <1>14, <1>21, <1>22, DecideStays
<1> QED
  BY <1>1, <1>3, <1>20, <1>22, <1>23, DeskReads

\* The worker's thread answers.
LEMMA DeskAnswers ==
  ASSUME Node = {n1}, Calm, Answers(Desk)
  PROVE  Calm'
<1>1. PICK L, T : L = todo[Desk] /\ T = [j \in Job |-> todo[Bench(j)]]
  OBVIOUS
<1>2. At(Desk, "answer")
  BY DEF Answers
<1>3. L # <<>> /\ L[1].do = "answer" /\ This(Desk) = L[1] /\ L[1] \in WorkStep
      /\ Good(L, T, job, gpu, proc[n1], pending[n1], inbox[n1])
  BY <1>1, <1>2, DeskFirst
<1>4. L[1].node = n1
  BY <1>3, StepShape
<1>5. PICK N : N = <<>> \o Tail(L)
  OBVIOUS
<1>6. Good(N, T, job, gpu, proc[n1], Nothing, pending[n1]) /\ N = <<>>
  BY <1>3, <1>5, AnswerStays
<1>7. todo' = [todo EXCEPT ![Desk] = N]
  BY <1>1, <1>5 DEF Answers, Then
<1>8. Lists /\ Whereabouts
  BY DEF Calm
<1>9. Lists' /\ todo'[Desk] = N /\ [j \in Job |-> todo'[Bench(j)]] = T
  BY <1>1, <1>7, <1>8, DeskLists
<1>10. /\ inbox' = [inbox EXCEPT ![n1] = pending[n1]]
       /\ pending' = [pending EXCEPT ![n1] = Nothing]
       /\ phase' = [phase EXCEPT ![n1] = "apply"]
       /\ UNCHANGED <<job, gpu, heard, draining, stopAll, cut, proc, strays, users>>
  BY <1>3, <1>4 DEF Answers
<1>11. /\ n1 \in Node /\ pending \in Backlogs /\ inbox \in Backlogs
       /\ pending[n1] \in [Job -> Seq(Action)] /\ Nothing \in [Job -> Seq(Action)]
  BY <1>8, NothingShape DEF Whereabouts, Backlogs
<1>12. /\ inbox' \in Backlogs /\ pending' \in Backlogs
       /\ inbox'[n1] = pending[n1] /\ pending'[n1] = Nothing
  BY <1>10, <1>11 DEF Backlogs
<1>13. Whereabouts'
  <2>1. phase' \in [Node -> {"beat", "apply", "reap"}]
    BY <1>8, <1>10 DEF Whereabouts
  <2> QED
    BY <1>6, <1>8, <1>9, <1>10, <1>12, <2>1 DEF Whereabouts
<1>14. Good(todo'[Desk], T, job', gpu', proc'[n1], pending'[n1], inbox'[n1])
  BY <1>6, <1>9, <1>10, <1>12
<1> QED
  BY <1>9, <1>13, <1>14 DEF Calm

\* Whatever the worker's thread serves.
LEMMA DeskServes ==
  ASSUME Cools, Node = {n1}, Calm, Serve(Desk)
  PROVE  Calm'
<1>1. ASSUME NEW what, At(Desk, what)
      PROVE  what \in Kinds
  <2>1. todo[Desk][1] \in WorkStep /\ todo[Desk][1].do = what
    BY <1>1, DeskFirst
  <2> QED
    BY <2>1, StepShape
<1>2. {"metric", "checkpoint", "point", "kill", "cancel", "resume"} \cap Kinds = {}
  BY DEF Kinds, Plain
<1>3. \A what \in {"metric", "checkpoint", "point", "kill", "cancel", "resume"} : ~At(Desk, what)
  BY <1>1, <1>2
<1>4. /\ ~CheckpointArrives(Desk) /\ ~MetricArrives(Desk) /\ ~Points(Desk)
      /\ ~KillArrives(Desk) /\ ~CancelArrives(Desk) /\ ~ResumeArrives(Desk)
  BY <1>3 DEF CheckpointArrives, MetricArrives, Points, KillArrives, CancelArrives, ResumeArrives
<1>5. \/ PutsJob(Desk) \/ PutsGpu(Desk) \/ Queues(Desk) \/ Releases(Desk) \/ Claims(Desk)
      \/ PreemptArrives(Desk) \/ PassListsJobs(Desk) \/ PassDecides(Desk)
      \/ ExitArrives(Desk) \/ Syncs(Desk) \/ Requeues(Desk)
      \/ RefreshReads(Desk) \/ Reconciles(Desk) \/ Answers(Desk)
  BY <1>4 DEF Serve
<1> QED
  BY <1>5, DeskPuts, DeskLends, DeskPreempts, DeskLooks, DeskDecides, DeskExits, DeskSyncs,
     DeskRequeues, DeskRefreshes, DeskReconciles, DeskAnswers

\* What a trainer's thread has left to do.
Mine(N, j, p) ==
  N \in Seq(TrainStep(j)) /\ \A i \in Writes(N, j) : Runs(N[i].as, p.gpus)

\* The step a trainer's thread takes next, while its trainer lives.
LEMMA BenchFirst ==
  ASSUME Calm, NEW j \in Job, NEW what, At(Bench(j), what)
  PROVE  /\ todo[Bench(j)] # <<>> /\ Mine(todo[Bench(j)], j, proc[n1][j])
         /\ This(Bench(j)) = todo[Bench(j)][1] /\ This(Bench(j)).job = j
         /\ This(Bench(j)).do = what
         /\ what \in {"put_job", "metric", "checkpoint", "point"}
         /\ what = "put_job" => /\ This(Bench(j)).as \in Records
                                /\ Runs(This(Bench(j)).as, proc[n1][j].gpus)
         /\ proc[n1][j].st \in Living
         /\ job \in [Job -> Records] /\ Runs(job[j], proc[n1][j].gpus)
<1>1. PICK L, T : L = todo[Bench(j)] /\ T = [k \in Job |-> todo[Bench(k)]]
  OBVIOUS
<1>2. T[j] = L /\ L # <<>> /\ Head(L).do = what /\ This(Bench(j)) = Head(L)
  BY <1>1 DEF At, Idles, This
<1>3. Good(todo[Desk], T, job, gpu, proc[n1], pending[n1], inbox[n1])
  BY <1>1 DEF Calm
<1>4. /\ L \in Seq(TrainStep(j)) /\ job \in [Job -> Records]
      /\ Life(todo[Desk], L, job[j], proc[n1][j], j)
  BY <1>2, <1>3 DEF Good
<1>5. Head(L) = L[1] /\ 1 \in DOMAIN L /\ L[1] \in TrainStep(j)
  BY <1>2, <1>4
<1>6. proc[n1][j].st \in Living
  BY <1>2, <1>4 DEF Life
<1>7. Runs(job[j], proc[n1][j].gpus) /\ \A i \in Writes(L, j) : Runs(L[i].as, proc[n1][j].gpus)
  BY <1>4, <1>6 DEF Life
<1>8. /\ L[1].job = j /\ L[1].do \in {"put_job", "metric", "checkpoint", "point"}
      /\ L[1].do = "put_job" => L[1].as \in Records
  BY <1>5 DEF TrainStep
<1>9. L[1].do = "put_job" => Runs(L[1].as, proc[n1][j].gpus)
  BY <1>5, <1>7, <1>8 DEF Writes
<1> QED
  BY <1>1, <1>2, <1>4, <1>5, <1>6, <1>7, <1>8, <1>9 DEF Mine

\* A trainer's thread puts steps of its own in the place of one.
LEMMA MineSpliced ==
  ASSUME NEW j, NEW p, NEW L, Mine(L, j, p), L # <<>>, NEW M, Mine(M, j, p)
  PROVE  Mine(M \o Tail(L), j, p)
<1>1. PICK N : N = M \o Tail(L)
  OBVIOUS
<1>2. L \in Seq(TrainStep(j)) /\ M \in Seq(TrainStep(j))
  BY DEF Mine
<1>3. WritesShift(L, M, N, j) /\ N \in Seq(TrainStep(j))
  BY <1>1, <1>2, SplicedWrites, SpliceIs
<1>4. \A i \in Writes(N, j) : Runs(N[i].as, p.gpus)
  BY <1>3 DEF WritesShift, Mine
<1> QED
  BY <1>1, <1>3, <1>4 DEF Mine

\* A step of a trainer's thread, which may write the record of its job.
LEMMA BenchGoes ==
  ASSUME Node = {n1}, Calm, NEW j \in Job, proc[n1][j].st \in Living,
         NEW N, Mine(N, j, proc[n1][j]), todo' = [todo EXCEPT ![Bench(j)] = N],
         NEW s \in Records, Runs(s, proc[n1][j].gpus),
         job' = job \/ job' = [job EXCEPT ![j] = s],
         UNCHANGED <<gpu, pending, heard, draining, stopAll, sideVars>>
  PROVE  Calm'
<1>1. PICK T, U : T = [k \in Job |-> todo[Bench(k)]] /\ U = [k \in Job |-> todo'[Bench(k)]]
  OBVIOUS
<1>2. Lists /\ Whereabouts /\ Good(todo[Desk], T, job, gpu, proc[n1], pending[n1], inbox[n1])
  BY <1>1 DEF Calm
<1>3. /\ Lists' /\ todo'[Desk] = todo[Desk] /\ todo'[Bench(j)] = N
      /\ \A k \in Job : k # j => todo'[Bench(k)] = todo[Bench(k)]
  BY <1>2, BenchLists
<1>4. U[j] = N /\ \A k \in Job : k # j => U[k] = T[k]
  BY <1>1, <1>3
<1>5. N \in Seq(TrainStep(j)) /\ \A i \in Writes(N, j) : Runs(N[i].as, proc[n1][j].gpus)
  BY DEF Mine
<1>6. Good(todo[Desk], U, job, gpu, proc[n1], pending[n1], inbox[n1])
  BY <1>2, <1>4, <1>5, BenchStays
<1>7. Good(todo[Desk], U, job', gpu, proc[n1], pending[n1], inbox[n1])
  BY <1>6, TrainerWrites
<1>8. UNCHANGED <<phase, inbox, proc, strays>>
  BY DEF sideVars
<1>9. Whereabouts'
  BY <1>2, <1>3, <1>8 DEF Whereabouts
<1>10. Good(todo'[Desk], U, job', gpu', proc'[n1], pending'[n1], inbox'[n1])
  BY <1>3, <1>7, <1>8
<1> QED
  BY <1>1, <1>3, <1>9, <1>10 DEF Calm

\* A step of a trainer's thread that only reads.
LEMMA BenchReads ==
  ASSUME Node = {n1}, Calm, NEW j \in Job, NEW what, At(Bench(j), what),
         NEW M, Mine(M, j, proc[n1][j]), Reads(Bench(j), M)
  PROVE  Calm'
<1>1. PICK N : N = M \o Tail(todo[Bench(j)])
  OBVIOUS
<1>2. /\ todo[Bench(j)] # <<>> /\ Mine(todo[Bench(j)], j, proc[n1][j])
      /\ proc[n1][j].st \in Living /\ job[j] \in Records /\ Runs(job[j], proc[n1][j].gpus)
  BY BenchFirst
<1>3. Mine(N, j, proc[n1][j])
  BY <1>1, <1>2, MineSpliced
<1>4. todo' = [todo EXCEPT ![Bench(j)] = N]
  BY <1>1 DEF Reads, Then
<1>5. UNCHANGED <<job, gpu, pending, heard, draining, stopAll, sideVars>>
  BY DEF Reads, allVars, vars
<1> QED
  BY <1>2, <1>3, <1>4, <1>5, BenchGoes

\* A record that a metric or a checkpoint makes of one whose job runs.
LEMMA StillRuns ==
  ASSUME NEW r \in Records, NEW G, Runs(r, G)
  PROVE  /\ \A st \in ActiveStates : /\ [r EXCEPT !.state = st] \in Records
                                     /\ Runs([r EXCEPT !.state = st], G)
         /\ Stepped(r) \in Records /\ Runs(Stepped(r), G)
         /\ [r EXCEPT !.ckpt = "usable"] \in Records /\ Runs([r EXCEPT !.ckpt = "usable"], G)
<1>1. r \in JobRecord /\ r.state \in ActiveStates
  BY DEF Records, Runs
<1>2. ASSUME NEW st \in ActiveStates
      PROVE  [r EXCEPT !.state = st] \in Records /\ Runs([r EXCEPT !.state = st], G)
  BY <1>1 DEF Records, Runs, JobRecord, JobState, ActiveStates
<1>3. ASSUME NEW q \in Records, Runs(q, G), NEW c \in Checkpoint
      PROVE  [q EXCEPT !.ckpt = c] \in Records /\ Runs([q EXCEPT !.ckpt = c], G)
  <2>1. PICK x : x = [q EXCEPT !.ckpt = c]
    OBVIOUS
  <2>2. x.state = q.state /\ x.gpus = q.gpus /\ x.node = q.node
    BY <2>1 DEF Records, JobRecord
  <2>3. x \in Records
    BY <2>1 DEF Records, JobRecord, Checkpoint
  <2> QED
    BY <1>3, <2>1, <2>2, <2>3 DEF Runs
<1>4. Stepped(r) \in Records /\ Runs(Stepped(r), G)
  <2>1. PICK st : st = IF r.state \in {"SCHEDULED", "STARTING", "RESUMING"}
                       THEN "RUNNING" ELSE r.state
    OBVIOUS
  <2>2. PICK c : c = IF r.ckpt = "none" THEN "progress" ELSE r.ckpt
    OBVIOUS
  <2>3. st \in ActiveStates /\ c \in Checkpoint
    BY <1>1, <2>1, <2>2 DEF ActiveStates, JobRecord, Checkpoint
  <2>4. PICK q : q = [r EXCEPT !.state = st]
    OBVIOUS
  <2>5. q \in Records /\ Runs(q, G)
    BY <1>2, <2>3, <2>4
  <2>6. Stepped(r) = [q EXCEPT !.ckpt = c]
    BY <1>1, <2>1, <2>2, <2>4 DEF Stepped, JobRecord
  <2> QED
    BY <1>3, <2>3, <2>5, <2>6
<1> QED
  BY <1>2, <1>3, <1>4 DEF Checkpoint

\* The records written for a metric.
LEMMA MetricWrites ==
  ASSUME NEW j \in Job, NEW r \in Records, NEW p, Runs(r, p.gpus), NEW path \in Seq(ActiveStates)
  PROVE  Mine(Walk(j, r, path) \o <<Put(j, Stepped(r))>>, j, p)
<1> DEFINE S == {x \in TrainStep(j) : x.do = "put_job" /\ Runs(x.as, p.gpus)}
<1>1. ASSUME NEW q \in Records, Runs(q, p.gpus)
      PROVE  Put(j, q) \in S
  BY <1>1, StepsMade, StepFields
<1>2. PICK W : W = Walk(j, r, path)
  OBVIOUS
<1>3. W \in Seq(S)
  <2>1. ASSUME NEW i \in 1..Len(path)
        PROVE  Put(j, [r EXCEPT !.state = path[i]]) \in S
    <3>1. path[i] \in ActiveStates
      OBVIOUS
    <3>2. PICK q : q = [r EXCEPT !.state = path[i]]
      OBVIOUS
    <3>3. q \in Records /\ Runs(q, p.gpus)
      BY <3>1, <3>2, StillRuns
    <3> HIDE DEF S
    <3> QED
      BY <1>1, <3>2, <3>3
  <2> HIDE DEF S
  <2>2. W = [i \in 1..Len(path) |-> Put(j, [r EXCEPT !.state = path[i]])]
    BY <1>2 DEF Walk
  <2> QED
    BY <2>1, <2>2
<1>4. PICK x : x = Put(j, Stepped(r))
  OBVIOUS
<1>5. x \in S
  BY <1>1, <1>4, StillRuns
<1>6. S \subseteq TrainStep(j) /\ \A y \in S : Runs(y.as, p.gpus)
  OBVIOUS
<1> HIDE DEF S
<1>7. W \o <<x>> \in Seq(S)
  BY <1>3, <1>5
<1>8. W \o <<x>> \in Seq(TrainStep(j)) /\ \A i \in DOMAIN (W \o <<x>>) : (W \o <<x>>)[i] \in S
  BY <1>6, <1>7, ListOfSome
<1>9. \A i \in Writes(W \o <<x>>, j) : Runs((W \o <<x>>)[i].as, p.gpus)
  BY <1>6, <1>8 DEF Writes
<1> QED
  BY <1>2, <1>4, <1>8, <1>9 DEF Mine

\* One step of a trainer's thread, by itself.
LEMMA MineOne ==
  ASSUME NEW j, NEW p, NEW x \in TrainStep(j), x.do = "put_job" => Runs(x.as, p.gpus)
  PROVE  Mine(<<x>>, j, p)
<1>1. PICK N : N = <<x>>
  OBVIOUS
<1>2. N \in Seq(TrainStep(j)) /\ DOMAIN N = {1} /\ N[1] = x
  BY <1>1
<1>3. \A i \in Writes(N, j) : Runs(N[i].as, p.gpus)
  BY <1>2 DEF Writes
<1> QED
  BY <1>1, <1>2, <1>3 DEF Mine

\* A metric moves the job on through the states on the way to running.
MetricPath(st) ==
  CASE st = "SCHEDULED" -> <<"STARTING", "RUNNING">>
    [] st \in {"STARTING", "RESUMING"} -> <<"RUNNING">>
    [] OTHER -> <<>>

\* It is a path through active states.
LEMMA MetricPaths == \A st : MetricPath(st) \in Seq(ActiveStates)
<1>1. "STARTING" \in ActiveStates /\ "RUNNING" \in ActiveStates
  BY DEF ActiveStates
<1>2. /\ <<"STARTING", "RUNNING">> \in Seq(ActiveStates) /\ <<"RUNNING">> \in Seq(ActiveStates)
      /\ <<>> \in Seq(ActiveStates)
  BY <1>1
<1> QED
  BY <1>2 DEF MetricPath

\* Whatever a trainer's thread serves.
LEMMA BenchServes ==
  ASSUME Node = {n1}, Calm, NEW j \in Job, Serve(Bench(j))
  PROVE  Calm'
<1>1. PICK t : t = Bench(j)
  OBVIOUS
<1>2. PutsJob(t) \/ MetricArrives(t) \/ CheckpointArrives(t) \/ Points(t)
  <2>1. \A what : At(t, what) => what \in {"put_job", "metric", "checkpoint", "point"}
    BY <1>1, BenchFirst
  <2>2. \A what \in {"put_gpu", "queue", "release", "claim", "preempt", "kill", "cancel", "resume",
                     "pass", "decide", "exit", "sync", "requeue", "refresh", "reconcile",
                     "answer"} : ~At(t, what)
    BY <2>1
  <2>3. /\ ~PutsGpu(t) /\ ~Queues(t) /\ ~Releases(t) /\ ~Claims(t)
        /\ ~PreemptArrives(t) /\ ~KillArrives(t) /\ ~CancelArrives(t) /\ ~ResumeArrives(t)
    BY <2>2 DEF PutsGpu, Queues, Releases, Claims, PreemptArrives, KillArrives, CancelArrives,
                ResumeArrives
  <2>4. /\ ~PassListsJobs(t) /\ ~PassDecides(t) /\ ~ExitArrives(t) /\ ~Syncs(t) /\ ~Requeues(t)
        /\ ~RefreshReads(t) /\ ~Reconciles(t) /\ ~Answers(t)
    BY <2>2 DEF PassListsJobs, PassDecides, ExitArrives, Syncs, Requeues, RefreshReads, Reconciles,
                Answers
  <2> QED
    BY <1>1, <2>3, <2>4 DEF Serve
<1>3. CASE PutsJob(t)
  <2>1. At(t, "put_job")
    BY <1>3 DEF PutsJob
  <2>2. PICK s : s = This(t).as
    OBVIOUS
  <2>3. /\ todo[t] # <<>> /\ Mine(todo[t], j, proc[n1][j]) /\ proc[n1][j].st \in Living
        /\ s \in Records /\ Runs(s, proc[n1][j].gpus) /\ This(t).job = j
    BY <1>1, <2>1, <2>2, BenchFirst
  <2>4. PICK N : N = <<>> \o Tail(todo[t])
    OBVIOUS
  <2>5. Mine(<<>>, j, proc[n1][j])
    BY IdleList DEF Mine
  <2>6. Mine(N, j, proc[n1][j])
    BY <2>3, <2>4, <2>5, MineSpliced
  <2>7. /\ todo' = [todo EXCEPT ![t] = N] /\ job' = [job EXCEPT ![j] = s]
        /\ UNCHANGED <<gpu, pending, heard, draining, stopAll, sideVars>>
    BY <1>3, <2>2, <2>3, <2>4 DEF PutsJob, Then
  <2> QED
    BY <1>1, <2>3, <2>6, <2>7, BenchGoes
<1>4. CASE MetricArrives(t)
  <2>1. At(t, "metric")
    BY <1>4 DEF MetricArrives
  <2>2. This(t).job = j /\ job[j] \in Records /\ Runs(job[j], proc[n1][j].gpus)
    BY <1>1, <2>1, BenchFirst
  <2>3. Reads(t, Walk(j, job[j], MetricPath(job[j].state)) \o <<Put(j, Stepped(job[j]))>>)
    BY <1>4, <2>2 DEF MetricArrives, MetricPath
  <2>4. Mine(Walk(j, job[j], MetricPath(job[j].state)) \o <<Put(j, Stepped(job[j]))>>, j,
             proc[n1][j])
    BY <2>2, MetricPaths, MetricWrites
  <2> QED
    BY <1>1, <2>1, <2>3, <2>4, BenchReads
<1>5. CASE CheckpointArrives(t)
  <2>1. At(t, "checkpoint")
    BY <1>5 DEF CheckpointArrives
  <2>2. This(t).job = j
    BY <1>1, <2>1, BenchFirst
  <2>3. Reads(t, <<Of("point", j)>>)
    BY <1>5, <2>2 DEF CheckpointArrives
  <2>4. Of("point", j) \in TrainStep(j) /\ Of("point", j).do # "put_job"
    BY StepsMade, StepFields
  <2>5. Mine(<<Of("point", j)>>, j, proc[n1][j])
    BY <2>4, MineOne
  <2> QED
    BY <1>1, <2>1, <2>3, <2>5, BenchReads
<1>6. CASE Points(t)
  <2>1. At(t, "point")
    BY <1>6 DEF Points
  <2>2. This(t).job = j /\ job[j] \in Records /\ Runs(job[j], proc[n1][j].gpus)
    BY <1>1, <2>1, BenchFirst
  <2>3. Reads(t, <<Put(j, Pointed(j))>>)
    BY <1>6, <2>2 DEF Points
  <2>4. Pointed(j) \in Records /\ Runs(Pointed(j), proc[n1][j].gpus)
    BY <2>2, StillRuns DEF Pointed
  <2>5. Put(j, Pointed(j)) \in TrainStep(j) /\ Runs(Put(j, Pointed(j)).as, proc[n1][j].gpus)
    BY <2>4, StepsMade, StepFields
  <2>6. Mine(<<Put(j, Pointed(j))>>, j, proc[n1][j])
    BY <2>5, MineOne
  <2> QED
    BY <1>1, <2>1, <2>3, <2>6, BenchReads
<1> QED
  BY <1>2, <1>3, <1>4, <1>5, <1>6

\* Whatever any thread serves: the operator's has no request.
LEMMA ThreadServes ==
  ASSUME Cools, Node = {n1}, Calm, NEW t \in Thread, Serve(t)
  PROVE  Calm'
<1>1. t # Operator
  <2>1. \A what : ~At(Operator, what)
    BY DEF At, Idles, Calm, Lists
  <2>2. /\ ~PutsJob(Operator) /\ ~PutsGpu(Operator) /\ ~Queues(Operator) /\ ~Releases(Operator)
        /\ ~Claims(Operator) /\ ~MetricArrives(Operator) /\ ~CheckpointArrives(Operator)
        /\ ~Points(Operator)
    BY <2>1 DEF PutsJob, PutsGpu, Queues, Releases, Claims, MetricArrives, CheckpointArrives, Points
  <2>3. /\ ~PreemptArrives(Operator) /\ ~KillArrives(Operator) /\ ~CancelArrives(Operator)
        /\ ~ResumeArrives(Operator) /\ ~PassListsJobs(Operator) /\ ~PassDecides(Operator)
    BY <2>1 DEF PreemptArrives, KillArrives, CancelArrives, ResumeArrives, PassListsJobs,
                PassDecides
  <2>4. /\ ~ExitArrives(Operator) /\ ~Syncs(Operator) /\ ~Requeues(Operator)
        /\ ~RefreshReads(Operator) /\ ~Reconciles(Operator) /\ ~Answers(Operator)
    BY <2>1 DEF ExitArrives, Syncs, Requeues, RefreshReads, Reconciles, Answers
  <2>5. ~Serve(Operator)
    BY <2>2, <2>3, <2>4 DEF Serve
  <2> QED
    BY <2>5
<1>2. CASE t = Desk
  BY <1>2, DeskServes
<1>3. CASE \E j \in Job : t = Bench(j)
  BY <1>3, BenchServes
<1> QED
  BY <1>1, <1>2, <1>3, ThreadNames

\* The worker sends a request.
LEMMA DeskAsks ==
  ASSUME Node = {n1}, Calm, phase[n1] # "apply", NEW N, todo' = [todo EXCEPT ![Desk] = N],
         Good(N, [j \in Job |-> todo[Bench(j)]], job, gpu, proc'[n1], pending[n1], inbox[n1]),
         heard' \in Hearing, proc' \in Processes,
         UNCHANGED <<job, gpu, pending, draining, stopAll, phase, inbox, strays>>
  PROVE  Calm'
<1>1. Lists /\ Whereabouts
  BY DEF Calm
<1>2. /\ Lists' /\ todo'[Desk] = N
      /\ [j \in Job |-> todo'[Bench(j)]] = [j \in Job |-> todo[Bench(j)]]
  BY <1>1, DeskLists
<1>3. Whereabouts'
  BY <1>1 DEF Whereabouts
<1> QED
  BY <1>2, <1>3 DEF Calm

\* A worker's round: the devices, the list of processes, a pass and the answer.
LEMMA RoundInOrder ==
  ASSUME NEW R \in Seq(WorkStep), \A i \in DOMAIN R : R[i].do = "refresh",
         NEW a \in WorkStep, a.do = "reconcile", NEW b \in WorkStep, b.do = "pass",
         NEW c \in WorkStep, c.do = "answer"
  PROVE  /\ R \o <<a, b, c>> \in Seq(WorkStep) /\ InOrder(R \o <<a, b, c>>)
         /\ \A i \in DOMAIN (R \o <<a, b, c>>) :
              \/ (R \o <<a, b, c>>)[i].do \in {"refresh", "pass", "answer"}
              \/ (R \o <<a, b, c>>)[i] = a
<1>1. PICK V : V = <<a, b, c>>
  OBVIOUS
<1>2. V \in Seq(WorkStep) /\ DOMAIN V = 1..3 /\ Len(V) = 3 /\ V[1] = a /\ V[2] = b /\ V[3] = c
  BY <1>1
<1>3. PICK N : N = R \o V
  OBVIOUS
<1>4. N \in Seq(WorkStep) /\ Len(R) \in Nat /\ DOMAIN N = 1..(Len(R) + 3)
  <2>1. N \in Seq(WorkStep)
    BY <1>2, <1>3, ConcatElements
  <2>2. R \in Seq(WorkStep) /\ V \in Seq(WorkStep)
    BY <1>2
  <2>3. Len(N) = Len(R) + Len(V)
    BY <1>3, <2>2
  <2> QED
    BY <1>2, <2>1, <2>3
<1>5. \A i \in DOMAIN N : i <= Len(R) => N[i].do = "refresh"
  BY <1>2, <1>3, <1>4
<1>6. N[Len(R) + 1] = a /\ N[Len(R) + 2] = b /\ N[Len(R) + 3] = c
  BY <1>2, <1>3, <1>4
<1>7. \A i \in DOMAIN N : i <= Len(R) \/ i = Len(R) + 1 \/ i = Len(R) + 2 \/ i = Len(R) + 3
  BY <1>4
<1>8. ASSUME NEW i \in DOMAIN N, NEW k \in DOMAIN N, i < k
      PROVE  N[k].do \in May(N[i].do)
  <2>1. CASE i <= Len(R)
    BY <1>5, <1>6, <1>7, <2>1, MayAfter
  <2>2. CASE i = Len(R) + 1
    <3>1. k = Len(R) + 2 \/ k = Len(R) + 3
      BY <1>4, <1>8, <2>2
    <3> QED
      BY <1>6, <2>2, <3>1, MayAfter
  <2>3. CASE i = Len(R) + 2
    <3>1. k = Len(R) + 3
      BY <1>4, <1>8, <2>3
    <3> QED
      BY <1>6, <2>3, <3>1, MayAfter
  <2>4. i # Len(R) + 3
    BY <1>4, <1>8
  <2> QED
    BY <1>7, <2>1, <2>2, <2>3, <2>4
<1>9. InOrder(N)
  BY <1>8 DEF InOrder
<1>10. \A i \in DOMAIN N : N[i].do \in {"refresh", "pass", "answer"} \/ N[i] = a
  BY <1>5, <1>6, <1>7
<1> QED
  BY <1>1, <1>3, <1>4, <1>9, <1>10

\* The worker posts its heartbeat.
LEMMA WorkerBeats ==
  ASSUME Node = {n1}, Calm, BeatAsks(n1)
  PROVE  Calm'
<1>1. PICK T : T = [j \in Job |-> todo[Bench(j)]]
  OBVIOUS
<1>2. /\ todo[Desk] = <<>> /\ Whereabouts
      /\ Good(<<>>, T, job, gpu, proc[n1], pending[n1], inbox[n1])
  <2>1. todo[Desk] = <<>>
    BY DEF BeatAsks, Ask, Idles, Desk
  <2>2. Whereabouts /\ Good(todo[Desk], T, job, gpu, proc[n1], pending[n1], inbox[n1])
    BY <1>1 DEF Calm
  <2> QED
    BY <2>1, <2>2
<1>3. PICK own : own = SetToSeq(GpusOf(n1))
  OBVIOUS
<1>4. own \in Seq(Gpu)
  <2>1. GpusOf(n1) \in SUBSET Gpu
    BY DEF GpusOf
  <2>2. own \in Seq(GpusOf(n1))
    BY <1>3, <2>1, ListOfSet, FiniteThings
  <2> QED
    BY <2>1, <2>2, ListOfSome
<1>5. PICK R : R = [i \in 1..Len(own) |->
                      [do |-> "refresh", gpu |-> own[i], seen |-> SeenOn(own[i])]]
  OBVIOUS
<1>6. R \in Seq(WorkStep) /\ \A i \in DOMAIN R : R[i].do = "refresh"
  <2>1. ASSUME NEW g \in Gpu
        PROVE  [do |-> "refresh", gpu |-> g, seen |-> SeenOn(g)] \in WorkStep
    <3>1. PICK x : x = SeenOn(g)
      OBVIOUS
    <3>2. x \in {"AVAILABLE", "TROIANI", "RESEARCHER"}
      BY <3>1 DEF SeenOn
    <3> QED
      BY <3>1, <3>2 DEF WorkStep
  <2>2. Len(own) \in Nat /\ \A i \in 1..Len(own) : own[i] \in Gpu
    BY <1>4
  <2> QED
    BY <1>5, <2>1, <2>2
<1>7. PICK procs : procs = [j \in Job |-> Listed(proc[n1][j].st)]
  OBVIOUS
<1>8. procs \in [Job -> {"alive", "dead", "none"}] /\ n1 \in Node
  BY <1>7 DEF Listed
<1>9. PICK a : a = [do |-> "reconcile", node |-> n1, procs |-> procs]
  OBVIOUS
<1>10. PICK b, c : b = [do |-> "pass"] /\ c = [do |-> "answer", node |-> n1]
  OBVIOUS
<1>11. /\ a \in WorkStep /\ a.do = "reconcile" /\ a.procs = procs
       /\ b \in WorkStep /\ b.do = "pass" /\ c \in WorkStep /\ c.do = "answer"
  BY <1>8, <1>9, <1>10 DEF WorkStep
<1>12. PICK N : N = R \o <<a, b, c>>
  OBVIOUS
<1>13. /\ N \in Seq(WorkStep) /\ InOrder(N)
       /\ \A i \in DOMAIN N : N[i].do \in {"refresh", "pass", "answer"} \/ N[i] = a
  BY <1>6, <1>11, <1>12, RoundInOrder
<1>14. \A k \in Job : a.procs[k] = Listed(proc[n1][k].st)
  BY <1>7, <1>11
<1>15. Good(N, T, job, gpu, proc[n1], pending[n1], inbox[n1])
  BY <1>2, <1>11, <1>13, <1>14, BeatStays
<1>16. todo' = [todo EXCEPT ![Desk] = N]
  BY <1>3, <1>5, <1>7, <1>9, <1>10, <1>12 DEF BeatAsks, Ask, Desk
<1>17. /\ phase[n1] = "beat" /\ heard' = [heard EXCEPT ![n1] = "fresh"]
       /\ UNCHANGED <<job, gpu, pending, draining, stopAll, phase, inbox, proc, strays>>
  BY DEF BeatAsks, sideVars
<1>18. heard' \in Hearing /\ proc' \in Processes
  BY <1>2, <1>17 DEF Whereabouts, Hearing
<1>19. Good(N, [j \in Job |-> todo[Bench(j)]], job, gpu, proc'[n1], pending[n1], inbox[n1])
  BY <1>1, <1>15, <1>17
<1> QED
  BY <1>16, <1>17, <1>18, <1>19, DeskAsks

\* The worker reports an exit.
LEMMA WorkerReaps ==
  ASSUME Node = {n1}, Calm, NEW j \in Job, ReapAsks(n1, j)
  PROVE  Calm'
<1>1. PICK T : T = [k \in Job |-> todo[Bench(k)]]
  OBVIOUS
<1>2. /\ todo[Desk] = <<>> /\ Whereabouts
      /\ Good(<<>>, T, job, gpu, proc[n1], pending[n1], inbox[n1])
  <2>1. todo[Desk] = <<>>
    BY DEF ReapAsks, Ask, Idles, Desk
  <2>2. Whereabouts /\ Good(todo[Desk], T, job, gpu, proc[n1], pending[n1], inbox[n1])
    BY <1>1 DEF Calm
  <2> QED
    BY <2>1, <2>2
<1>3. PICK x : x = [do |-> "exit", job |-> j, exit |-> ExitOf(proc[n1][j].st)]
  OBVIOUS
<1>4. x \in WorkStep /\ x.do = "exit" /\ x.job = j
  <2>1. PICK e : e = ExitOf(proc[n1][j].st)
    OBVIOUS
  <2>2. e \in ExitReport
    BY <2>1 DEF ExitOf, ExitReport
  <2> QED
    BY <1>3, <2>1, <2>2 DEF WorkStep
<1>5. /\ proc[n1][j].st \in Ended /\ proc' = [proc EXCEPT ![n1][j] = NoProc]
      /\ phase[n1] = "reap"
      /\ UNCHANGED <<job, gpu, pending, heard, draining, stopAll, phase, inbox, strays>>
  BY DEF ReapAsks, vars
<1>6. PICK Y : Y = [proc[n1] EXCEPT ![j] = NoProc]
  OBVIOUS
<1>7. Good(<<x>>, T, job, gpu, Y, pending[n1], inbox[n1])
  BY <1>2, <1>4, <1>5, <1>6, ReapStays
<1>8. proc'[n1] = Y /\ proc' \in Processes
  <2>1. proc \in Processes /\ n1 \in Node
    BY <1>2 DEF Whereabouts
  <2>2. Y \in [Job -> Process]
    BY <1>7 DEF Good
  <2>3. proc' = [proc EXCEPT ![n1] = Y]
    BY <1>5, <1>6
  <2> QED
    BY <2>1, <2>2, <2>3 DEF Processes
<1>9. todo' = [todo EXCEPT ![Desk] = <<x>>]
  BY <1>3 DEF ReapAsks, Ask, Desk
<1>10. heard' \in Hearing
  BY <1>2, <1>5 DEF Whereabouts
<1>11. Good(<<x>>, [k \in Job |-> todo[Bench(k)]], job, gpu, proc'[n1], pending[n1], inbox[n1])
  BY <1>1, <1>7, <1>8
<1>12. PICK N : N = <<x>>
  OBVIOUS
<1> QED
  BY <1>5, <1>8, <1>9, <1>10, <1>11, <1>12, DeskAsks

\* A step that leaves the lists alone.
LEMMA SideGoes ==
  ASSUME Node = {n1}, Calm, UNCHANGED <<todo, gpu, pending, heard, draining, stopAll, strays>>,
         Good(todo[Desk], [j \in Job |-> todo[Bench(j)]], job', gpu, proc'[n1], pending[n1],
              inbox'[n1]),
         inbox' \in Backlogs, proc' \in Processes, phase' \in [Node -> {"beat", "apply", "reap"}],
         phase'[n1] = "apply" => phase[n1] = "apply"
  PROVE  Calm'
<1>1. Lists /\ Whereabouts
  BY DEF Calm
<1>2. Lists'
  BY <1>1 DEF Lists
<1>3. Whereabouts'
  BY <1>1 DEF Whereabouts
<1>4. [j \in Job |-> todo'[Bench(j)]] = [j \in Job |-> todo[Bench(j)]]
  OBVIOUS
<1>5. Good(todo'[Desk], [j \in Job |-> todo'[Bench(j)]], job', gpu', proc'[n1], pending'[n1],
           inbox'[n1])
  BY <1>4
<1> QED
  BY <1>2, <1>3, <1>5 DEF Calm

\* The worker carries its orders out.
LEMMA WorkerApplies ==
  ASSUME Node = {n1}, Calm, WorkerApply(n1), UNCHANGED todo
  PROVE  Calm'
<1>1. PICK T : T = [j \in Job |-> todo[Bench(j)]]
  OBVIOUS
<1>2. Whereabouts /\ Good(todo[Desk], T, job, gpu, proc[n1], pending[n1], inbox[n1])
  BY <1>1 DEF Calm
<1>3. /\ phase[n1] = "apply"
      /\ proc' = [proc EXCEPT ![n1] = [j \in Job |-> Obeying(proc[n1][j], inbox[n1][j])]]
      /\ inbox' = [inbox EXCEPT ![n1] = Nothing] /\ phase' = [phase EXCEPT ![n1] = "reap"]
      /\ UNCHANGED <<job, gpu, pending, heard, draining, stopAll, strays>>
  BY DEF WorkerApply, vars
<1>4. todo[Desk] = <<>> /\ pending[n1] = Nothing
  BY <1>2, <1>3 DEF Whereabouts
<1>5. PICK Y : Y = [j \in Job |-> Obeying(proc[n1][j], inbox[n1][j])]
  OBVIOUS
<1>6. Good(<<>>, T, job, gpu, Y, Nothing, Nothing)
  BY <1>2, <1>4, <1>5, ApplyStays
<1>7. /\ proc \in Processes /\ inbox \in Backlogs /\ n1 \in Node
      /\ phase \in [Node -> {"beat", "apply", "reap"}]
  BY <1>2 DEF Whereabouts
<1>8. proc'[n1] = Y /\ proc' \in Processes
  <2>1. Y \in [Job -> Process]
    BY <1>6 DEF Good
  <2> QED
    BY <1>3, <1>5, <1>7, <2>1 DEF Processes
<1>9. inbox'[n1] = Nothing /\ inbox' \in Backlogs
  BY <1>3, <1>7, NothingShape DEF Backlogs
<1>10. phase' \in [Node -> {"beat", "apply", "reap"}] /\ phase'[n1] = "reap"
  BY <1>3, <1>7
<1>11. Good(todo[Desk], T, job', gpu, proc'[n1], pending[n1], inbox'[n1])
  BY <1>3, <1>4, <1>6, <1>8, <1>9
<1> QED
  BY <1>1, <1>3, <1>8, <1>9, <1>10, <1>11, SideGoes

\* A trainer ends by itself, or is asked to and does.
LEMMA TrainerStopsCalm ==
  ASSUME Node = {n1}, Calm, NEW j \in Job, Idles(Bench(j)), proc[n1][j].st \in Living,
         NEW st \in Ended, Becomes(n1, j, st),
         UNCHANGED <<vars, phase, inbox, strays, todo>>
  PROVE  Calm'
<1>1. PICK T : T = [k \in Job |-> todo[Bench(k)]]
  OBVIOUS
<1>2. Whereabouts /\ Good(todo[Desk], T, job, gpu, proc[n1], pending[n1], inbox[n1])
  BY <1>1 DEF Calm
<1>3. T[j] = <<>>
  BY <1>1 DEF Idles
<1>4. PICK Y : Y = [proc[n1] EXCEPT ![j].st = st]
  OBVIOUS
<1>5. Good(todo[Desk], T, job, gpu, Y, pending[n1], inbox[n1])
  BY <1>2, <1>3, <1>4, TrainerStops
<1>6. proc \in Processes /\ inbox \in Backlogs /\ phase \in [Node -> {"beat", "apply", "reap"}]
  BY <1>2 DEF Whereabouts
<1>7. proc'[n1] = Y /\ proc' \in Processes
  <2>1. proc' = [proc EXCEPT ![n1] = Y]
    BY <1>4 DEF Becomes
  <2>2. Y \in [Job -> Process] /\ n1 \in Node
    BY <1>5 DEF Good
  <2> QED
    BY <1>6, <2>1, <2>2 DEF Processes
<1>8. UNCHANGED <<job, gpu, pending, heard, draining, stopAll>>
  BY DEF vars
<1>9. Good(todo[Desk], T, job', gpu, proc'[n1], pending[n1], inbox'[n1])
  BY <1>5, <1>7, <1>8
<1> QED
  BY <1>1, <1>6, <1>7, <1>8, <1>9, SideGoes

\* The trainer of a job moves.
LEMMA TrainerMoves ==
  ASSUME Node = {n1}, Calm, NEW j \in Job,
         TrainerGoes(n1, j) \/ TrainerEnds(n1, j) \/ Posts(n1, j)
  PROVE  Calm'
<1>1. CASE TrainerGoes(n1, j)
  <2>1. /\ Idles(Bench(j)) /\ proc[n1][j].st \in {"asked", "told"}
        /\ Becomes(n1, j, IF proc[n1][j].st = "asked" THEN "preempted" ELSE "ok")
        /\ UNCHANGED <<vars, phase, inbox, strays, todo>>
    BY <1>1 DEF TrainerGoes, TrainerLeave, Sent, Bench
  <2>2. proc[n1][j].st \in Living
    BY <2>1 DEF Living
  <2>3. (IF proc[n1][j].st = "asked" THEN "preempted" ELSE "ok") \in Ended
    BY DEF Ended
  <2> QED
    BY <2>1, <2>2, <2>3, TrainerStopsCalm
<1>2. CASE TrainerEnds(n1, j)
  <2>1. /\ Idles(Bench(j)) /\ proc[n1][j].st = "up" /\ Becomes(n1, j, "ok")
        /\ UNCHANGED <<vars, phase, inbox, strays, todo>>
    BY <1>2 DEF TrainerEnds, TrainerFinish, Sent, Bench
  <2>2. proc[n1][j].st \in Living /\ "ok" \in Ended
    BY <2>1 DEF Living, Ended
  <2> QED
    BY <2>1, <2>2, TrainerStopsCalm
<1>3. CASE Posts(n1, j)
  <2>1. PICK what \in {"metric", "checkpoint"} : TrainerPosts(n1, j, what)
    BY <1>3 DEF Posts
  <2>2. /\ proc[n1][j].st \in Living /\ todo' = [todo EXCEPT ![Bench(j)] = <<Of(what, j)>>]
        /\ UNCHANGED allVars
    BY <2>1 DEF TrainerPosts, Alive, Ask, Bench
  <2>3. Of(what, j) \in TrainStep(j) /\ Of(what, j).do # "put_job"
    BY StepsMade, StepFields
  <2>4. Mine(<<Of(what, j)>>, j, proc[n1][j])
    BY <2>3, MineOne
  <2>5. job[j] \in Records /\ Runs(job[j], proc[n1][j].gpus)
    BY <2>2 DEF Calm, Good, Life
  <2>6. UNCHANGED <<job, gpu, pending, heard, draining, stopAll, sideVars>>
    BY <2>2 DEF allVars, vars
  <2>7. PICK N : N = <<Of(what, j)>>
    OBVIOUS
  <2> QED
    BY <2>2, <2>4, <2>5, <2>6, <2>7, BenchGoes
<1> QED
  BY <1>1, <1>2, <1>3

\* The worker's side of its loop.
LEMMA WorkerMoves ==
  ASSUME Node = {n1}, Calm, WorkerWorks(n1)
  PROVE  Calm'
<1>1. CASE WorkerSleep(n1) /\ UNCHANGED todo
  <2>1. /\ phase' = [phase EXCEPT ![n1] = "beat"]
        /\ UNCHANGED <<job, gpu, pending, heard, draining, stopAll, inbox, proc, strays, todo>>
    BY <1>1 DEF WorkerSleep, vars
  <2>2. Whereabouts /\ n1 \in Node
    BY DEF Calm
  <2>3. /\ phase' \in [Node -> {"beat", "apply", "reap"}] /\ phase'[n1] = "beat"
        /\ inbox' \in Backlogs /\ proc' \in Processes
    BY <2>1, <2>2 DEF Whereabouts
  <2>4. Good(todo[Desk], [j \in Job |-> todo[Bench(j)]], job', gpu, proc'[n1], pending[n1],
             inbox'[n1])
    BY <2>1 DEF Calm
  <2> QED
    BY <2>1, <2>3, <2>4, SideGoes
<1> QED
  BY <1>1, WorkerBeats, WorkerReaps, WorkerApplies DEF WorkerWorks

\* A cooldown runs out, and not early.
LEMMA JobCools ==
  ASSUME Node = {n1}, Calm, NEW j \in Job, ~EndsEarly(j), CoolsDown(j)
  PROVE  Calm'
<1>1. PICK T : T = [k \in Job |-> todo[Bench(k)]]
  OBVIOUS
<1>2. Whereabouts /\ Good(todo[Desk], T, job, gpu, proc[n1], pending[n1], inbox[n1])
  BY <1>1 DEF Calm
<1>3. /\ todo[Desk] = <<>> /\ job' = [job EXCEPT ![j].cooldown = "over"]
      /\ proc[n1][j].st \notin Ended
      /\ UNCHANGED <<gpu, pending, heard, draining, stopAll, phase, inbox, proc, strays, todo>>
  <2>1. (\A t \in Thread : Idles(t)) /\ Cooled(j) /\ UNCHANGED todo
    BY DEF CoolsDown, EndsEarly
  <2>2. CooldownOver(j) /\ UNCHANGED sideVars
    BY <2>1 DEF Cooled
  <2>3. \A n \in Node : proc[n][j].st \notin Ended
    BY DEF EndsEarly
  <2> QED
    BY <2>1, <2>2, <2>3, ThreadNames DEF CooldownOver, sideVars, Idles
<1>4. PICK s : s = [job[j] EXCEPT !.cooldown = "over"]
  OBVIOUS
<1>5. job \in [Job -> Records] /\ job[j] \in Records
  BY <1>2 DEF Good
<1>6. s \in Records
  BY <1>4, <1>5 DEF Records, JobRecord
<1>7. job' = [job EXCEPT ![j] = s]
  BY <1>3, <1>4
<1>8. Good(<<>>, T, job', gpu, proc[n1], pending[n1], inbox[n1])
  <2>1. PICK K : K = [job EXCEPT ![j] = s]
    OBVIOUS
  <2>2. Good(<<>>, T, job, gpu, proc[n1], pending[n1], inbox[n1])
    BY <1>2, <1>3
  <2>3. Good(<<>>, T, K, gpu, proc[n1], pending[n1], inbox[n1])
    BY <1>3, <1>4, <1>6, <2>1, <2>2, CoolingStays
  <2> QED
    BY <1>7, <2>1, <2>3
<1>9. Good(todo[Desk], T, job', gpu, proc'[n1], pending[n1], inbox'[n1])
  BY <1>3, <1>8
<1> QED
  BY <1>1, <1>2, <1>3, <1>9, SideGoes DEF Whereabouts

\* Jobs are submitted, and nothing has happened yet.
LEMMA CalmAtFirst ==
  ASSUME Node = {n1}, NEW S, ThreadsInit(S)
  PROVE  Calm
<1>1. PICK T : T = [j \in Job |-> todo[Bench(j)]]
  OBVIOUS
<1>2. /\ job = [j \in Job |-> IF j \in S THEN [NewJob EXCEPT !.state = "PENDING"] ELSE NewJob]
      /\ gpu = [g \in Gpu |-> [occ |-> "UNSEEN", job |-> NoJob]]
      /\ pending = [n \in Node |-> Nothing] /\ inbox = [n \in Node |-> Nothing]
      /\ heard = [n \in Node |-> "never"] /\ draining = {} /\ stopAll = FALSE /\ strays = {}
      /\ phase = [n \in Node |-> "beat"] /\ proc = [n \in Node |-> [j \in Job |-> NoProc]]
      /\ todo = [t \in Thread |-> <<>>]
  BY DEF ThreadsInit
<1>3. todo[Desk] = <<>> /\ Lists /\ \A j \in Job : T[j] = <<>>
  BY <1>1, <1>2, ThreadNames DEF Lists
<1>4. /\ n1 \in Node /\ proc[n1] = [j \in Job |-> NoProc]
      /\ pending[n1] = Nothing /\ inbox[n1] = Nothing
  BY <1>2
<1>5. NoProc \in Process /\ NoProc.st = "none" /\ "none" \notin Living /\ "none" \notin Ended
  BY DEF NoProc, Process, Living, Ended
<1>6. proc \in Processes /\ proc[n1] \in [Job -> Process]
  BY <1>2, <1>4, <1>5 DEF Processes
<1>7. Whereabouts
  <2>1. pending \in Backlogs /\ inbox \in Backlogs
    BY <1>2, NothingShape DEF Backlogs
  <2>2. heard \in Hearing /\ phase \in [Node -> {"beat", "apply", "reap"}] /\ phase[n1] # "apply"
    BY <1>2, <1>4 DEF Hearing
  <2> QED
    BY <1>2, <1>6, <2>1, <2>2 DEF Whereabouts
<1>8. ASSUME NEW j \in Job
      PROVE  job[j] \in Records /\ Off(job[j])
  <2>1. NewJob \in Records /\ Off(NewJob)
    BY RollbackAssumption DEF NewJob, Records, JobRecord, JobState, Checkpoint, Off
  <2>2. [NewJob EXCEPT !.state = "PENDING"] \in Records /\ Off([NewJob EXCEPT !.state = "PENDING"])
    <3>1. PICK r : r = [NewJob EXCEPT !.state = "PENDING"]
      OBVIOUS
    <3>2. NewJob \in JobRecord /\ ~NewJob.overdue /\ NewJob.gpus = {}
      BY <2>1 DEF Records, NewJob
    <3>3. r \in JobRecord /\ r.overdue = NewJob.overdue /\ r.gpus = {} /\ r.state = "PENDING"
      BY <3>1, <3>2 DEF JobRecord, JobState
    <3> QED
      BY <3>1, <3>2, <3>3 DEF Records, Off
  <2> QED
    BY <1>2, <2>1, <2>2
<1>9. job \in [Job -> Records] /\ gpu \in [Gpu -> GpuRecord]
  <2>1. [occ |-> "UNSEEN", job |-> NoJob] \in GpuRecord
    BY DEF GpuRecord
  <2> QED
    BY <1>2, <1>8, <2>1
<1>10. ASSUME NEW j \in Job
       PROVE  Life(<<>>, T[j], job[j], proc[n1][j], j)
  <2>1. proc[n1][j].st = "none" /\ T[j] = <<>>
    BY <1>3, <1>4, <1>5
  <2> QED
    BY <1>5, <1>8, <2>1, IdleList DEF Life
<1>11. Apart(<<>>, job)
  <2>1. \A j \in Job : job[j].state \notin ActiveStates
    BY <1>8 DEF Off, ActiveStates
  <2> QED
    BY <2>1, IdleList DEF Apart
<1>12. Claimed(<<>>, job, gpu)
  <2>1. \A g \in Gpu : gpu[g].job = NoJob
    BY <1>2
  <2> QED
    BY <2>1, IdleList DEF Claimed
<1>13. Orderly(<<>>, job, proc[n1], Nothing)
  <2>1. \A j \in Job : DOMAIN Nothing[j] = {}
    BY DEF Nothing
  <2> QED
    BY <2>1 DEF Orderly
<1>14. \A j \in Job : T[j] \in Seq(TrainStep(j))
  <2>1. \A R : <<>> \in Seq(R)
    OBVIOUS
  <2> QED
    BY <1>3, <2>1
<1>15. Good(<<>>, T, job, gpu, proc[n1], Nothing, Nothing)
  BY <1>6, <1>9, <1>10, <1>11, <1>12, <1>13, <1>14, IdleList, NothingShape DEF Good
<1> QED
  BY <1>1, <1>3, <1>4, <1>7, <1>15 DEF Calm

\* As long as the worker and its trainers are the only clients, every step keeps
\* the invariant.
LEMMA FreeKeepsCalm ==
  ASSUME Cools, Node = {n1}, Calm, Free
  PROVE  Calm'
<1>1. ASSUME NEW t \in Thread, Serve(t)
      PROVE  Calm'
  BY <1>1, ThreadServes
<1>2. ASSUME NEW n \in Node, WorkerWorks(n)
      PROVE  Calm'
  BY <1>2, WorkerMoves
<1>3. ASSUME NEW n \in Node, NEW j \in Job, Posts(n, j) \/ TrainerGoes(n, j) \/ TrainerEnds(n, j)
      PROVE  Calm'
  BY <1>3, TrainerMoves
<1>4. ASSUME NEW j \in Job, ~EndsEarly(j), CoolsDown(j)
      PROVE  Calm'
  BY <1>4, JobCools
<1> QED
  BY <1>1, <1>2, <1>3, <1>4 DEF Free

\* Researchers come and go, or nothing happens, and nobody's request is touched.
LEMMA StandsStill ==
  ASSUME Calm, UNCHANGED <<vars, phase, inbox, proc, strays, todo>>
  PROVE  Calm'
<1>1. UNCHANGED <<job, gpu, pending, heard, draining, stopAll>>
  BY DEF vars
<1>2. Lists' /\ Whereabouts'
  BY <1>1 DEF Calm, Lists, Whereabouts
<1>3. [j \in Job |-> todo'[Bench(j)]] = [j \in Job |-> todo[Bench(j)]]
  OBVIOUS
<1>4. Good(todo'[Desk], [j \in Job |-> todo'[Bench(j)]], job', gpu', proc'[n1], pending'[n1],
           inbox'[n1])
  BY <1>1, <1>3 DEF Calm
<1> QED
  BY <1>2, <1>4 DEF Calm

\* The invariant of a settled behaviour with one worker.
SettledCalm == settled => Calm

\* It holds in every state.
LEMMA CalmInvariance ==
  ASSUME Cools, Node = {n1}
  PROVE  MCSpec => []SettledCalm
<1>1. ASSUME MCInit
      PROVE  SettledCalm
  BY <1>1, CalmAtFirst DEF MCInit, SettledCalm
<1>2. ASSUME SettledCalm, [MCNext]_mcVars
      PROVE  SettledCalm'
  <2> SUFFICES ASSUME settled'
               PROVE  Calm'
    BY DEF SettledCalm
  <2>1. CASE Free /\ UNCHANGED <<spent, settled>>
    <3>1. Calm
      BY <1>2, <2>1 DEF SettledCalm
    <3> QED
      BY <2>1, <3>1, FreeKeepsCalm
  <2>2. CASE People /\ UNCHANGED <<recorded, todo, settled>>
    <3>1. Calm
      BY <1>2, <2>2 DEF SettledCalm
    <3>2. UNCHANGED <<vars, phase, inbox, proc, strays, todo>>
      BY <2>2 DEF People, Arrive, Depart
    <3> QED
      BY <3>1, <3>2, StandsStill
  <2>3. CASE UNCHANGED mcVars
    <3>1. UNCHANGED <<vars, phase, inbox, proc, strays, todo, settled>>
      BY <2>3 DEF mcVars, threadVars, allVars, sideVars
    <3>2. Calm
      BY <1>2, <3>1 DEF SettledCalm
    <3> QED
      BY <3>1, <3>2, StandsStill
  <2>4. settled' # FALSE
    OBVIOUS
  <2> QED
    BY <1>2, <2>1, <2>2, <2>3, <2>4 DEF MCNext
<1> QED
  BY <1>1, <1>2, PTL DEF MCSpec

------------------------------------------------------------------------------
(* What the invariant says of devices.                                       *)

\* The records of two jobs whose trainers live are apart in the end, and each is
\* the trainer's own already.
LEMMA TrainersApart ==
  ASSUME Calm, NEW j \in Job, NEW k \in Job, j # k,
         proc[n1][j].st \in Living, proc[n1][k].st \in Living
  PROVE  proc[n1][j].gpus \cap proc[n1][k].gpus = {}
<1>1. PICK L, T : L = todo[Desk] /\ T = [i \in Job |-> todo[Bench(i)]]
  OBVIOUS
<1>2. Good(L, T, job, gpu, proc[n1], pending[n1], inbox[n1])
  BY <1>1 DEF Calm
<1>3. ASSUME NEW i \in Job, proc[n1][i].st \in Living
      PROVE  \E r \in Records : Outcome(L, job[i], i, r) /\ Runs(r, proc[n1][i].gpus)
  <2>1. /\ L \in Seq(WorkStep) /\ job[i] \in Records
        /\ Life(L, T[i], job[i], proc[n1][i], i)
    BY <1>2 DEF Good
  <2>2. PICK r \in Records : Outcome(L, job[i], i, r)
    BY <2>1, SomeOutcome
  <2>3. Runs(r, proc[n1][i].gpus)
    BY <1>3, <2>1, <2>2 DEF Life, Outcome
  <2> QED
    BY <2>2, <2>3
<1>4. PICK r \in Records : Outcome(L, job[j], j, r) /\ Runs(r, proc[n1][j].gpus)
  BY <1>3
<1>5. PICK q \in Records : Outcome(L, job[k], k, q) /\ Runs(q, proc[n1][k].gpus)
  BY <1>3
<1>6. r.gpus \cap q.gpus = {}
  BY <1>2, <1>4, <1>5 DEF Good, Apart, Runs
<1> QED
  BY <1>4, <1>5, <1>6 DEF Runs

\* Then no device carries the trainers of two jobs.
LEMMA CalmTrainers ==
  ASSUME Node = {n1}, Calm
  PROVE  OneTrainerPerDevice
<1> SUFFICES ASSUME NEW g \in Gpu
             PROVE  Cardinality(TrainersOn(g)) <= 1
  BY DEF OneTrainerPerDevice
<1>1. TrainersOn(g) = {j \in Job : proc[n1][j].st \in Living /\ g \in proc[n1][j].gpus}
  BY DEF TrainersOn, Alive, Calm, Whereabouts
<1>2. \A j, k \in TrainersOn(g) : j = k
  BY <1>1, TrainersApart
<1>3. CASE TrainersOn(g) = {}
  <2>1. Cardinality(TrainersOn(g)) = 0
    BY <1>3, FS_EmptySet
  <2> QED
    BY <2>1
<1>4. CASE TrainersOn(g) # {}
  <2>1. PICK j : TrainersOn(g) = {j}
    BY <1>2, <1>4
  <2>2. Cardinality(TrainersOn(g)) = 1
    BY <2>1, FS_Singleton
  <2> QED
    BY <2>2
<1> QED
  BY <1>3, <1>4

\* With no request under way, the records agree as the properties say.
LEMMA CalmRecords ==
  ASSUME Node = {n1}, Calm, \A t \in Thread : Idles(t)
  PROVE  NoClaimOfTheDead /\ ClaimsAgree /\ NoDoubleAllocation
<1>1. PICK T : T = [j \in Job |-> todo[Bench(j)]]
  OBVIOUS
<1>2. Good(<<>>, T, job, gpu, proc[n1], pending[n1], inbox[n1])
  BY <1>1, ThreadNames DEF Calm, Idles
<1>3. /\ job \in [Job -> Records] /\ gpu \in [Gpu -> GpuRecord]
      /\ Apart(<<>>, job) /\ Claimed(<<>>, job, gpu)
  BY <1>2 DEF Good
<1>4. ASSUME NEW g \in Gpu, gpu[g].job # NoJob
      PROVE  /\ gpu[g].job \in Job /\ job[gpu[g].job].state \in ActiveStates
             /\ g \in job[gpu[g].job].gpus
  <2>1. PICK k : k = gpu[g].job
    OBVIOUS
  <2>2. k \in Job
    BY <1>3, <1>4, <2>1 DEF GpuRecord
  <2>3. WillHold(<<>>, job[k], k, g)
    BY <1>3, <1>4, <2>1, IdleList DEF Claimed
  <2>4. job[k] \in Records
    BY <1>3, <2>2
  <2>5. job[k].state \in ActiveStates /\ g \in job[k].gpus
    BY <2>3, <2>4, IdleList DEF WillHold
  <2> QED
    BY <2>1, <2>2, <2>5
<1>5. ASSUME NEW j \in Job, NEW k \in Job, j # k,
             job[j].state \in ActiveStates, job[k].state \in ActiveStates
      PROVE  job[j].gpus \cap job[k].gpus = {}
  <2>1. job[j] \in Records /\ job[k] \in Records
    BY <1>3
  <2> QED
    BY <1>3, <1>5, <2>1, IdleList DEF Apart
<1>6. \A j : j \in Active(Store) <=> j \in Job /\ job[j].state \in ActiveStates
  BY DEF Active, Store
<1>7. NoClaimOfTheDead
  BY <1>4 DEF NoClaimOfTheDead
<1>8. NoDoubleAllocation
  BY <1>5, <1>6 DEF NoDoubleAllocation
<1>9. ClaimsAgree
  <2> SUFFICES ASSUME NEW j \in Job, job[j].state \in ActiveStates, NEW g \in job[j].gpus,
                      gpu[g].job # NoJob
               PROVE  gpu[g].job = j
    BY <1>6 DEF ClaimsAgree
  <2>1. g \in Gpu
    BY <1>3 DEF Records, JobRecord
  <2> QED
    BY <1>4, <1>5, <2>1
<1> QED
  BY <1>7, <1>8, <1>9

------------------------------------------------------------------------------
(* The theorems.                                                             *)

\* With one worker, for any number of jobs and devices, however the threads of the
\* control plane interleave the requests of the worker and of the trainers, no
\* device ever carries the trainers of two jobs, as long as cooldowns take time and
\* none ends before the exit that it began with is reaped.
THEOREM TrainersUndisturbed ==
  ASSUME Cools, Node = {n1}
  PROVE  MCSpec => []OneTrainerUndisturbed
<1>1. SettledCalm => OneTrainerUndisturbed
  BY CalmTrainers DEF SettledCalm, OneTrainerUndisturbed
<1> QED
  BY <1>1, CalmInvariance, PTL

\* And whenever no request is under way, the records of jobs and devices agree.
THEOREM RecordsAgreeAtRest ==
  ASSUME Cools, Node = {n1}
  PROVE  MCSpec => []QuietAgrees
<1>1. SettledCalm => QuietAgrees
  BY CalmRecords DEF SettledCalm, QuietAgrees
<1> QED
  BY <1>1, CalmInvariance, PTL

==============================================================================
