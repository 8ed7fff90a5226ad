------------------------------ MODULE Scheduler ------------------------------
(***************************************************************************)
(* The decisions of one scheduling pass, as a function of a snapshot of the *)
(* store: CooperativeScheduler.schedule with the policy (policy.py), the    *)
(* queue (queue.py, priorities.py), placement (placement.py) and the        *)
(* safe_to_allocate test of a device record.                                *)
(*                                                                         *)
(* A snapshot s is a record with s.job, s.gpu, s.heard and s.stopAll (see   *)
(* Control).  Clocks are abstracted to what the code tests: a cooldown is   *)
(* "none", "running" or "over", and a run is overdue or not.  The pass here *)
(* is the one inside the policy windows: outside them nobody is admitted.   *)
(***************************************************************************)
EXTENDS JobStates, FiniteSets, FiniteSetsExt

CONSTANTS
  NumJobs,      \* jobs are numbered in the order rank_jobs tries them
  Gpu,          \* device uuids
  Node,         \* nodes; one worker per node, so a worker is named by its node
  NoNode,       \* assigned_node / worker_id of a job that has none
  NodeOf,       \* the node of a device
  Want,         \* spec.gpus
  Fits,         \* devices matching a job's memory, type and preferred node
  Preemptible,  \* jobs with spec.preemptible
  MaxJobs,      \* policy.max_jobs
  MaxGpus,      \* policy.max_troiani_gpus
  MaxPerJob     \* policy.max_gpus_per_job

Job == 1..NumJobs
NoJob == 0

ASSUME JobsAssumption   == NumJobs \in Nat \ {0}
ASSUME NodesAssumption  == NoNode \notin Node
ASSUME GpusAssumption   == IsFiniteSet(Gpu) /\ NodeOf \in [Gpu -> Node]
ASSUME SpecsAssumption  == /\ Want \in [Job -> Nat \ {0}]
                           /\ Fits \in [Job -> SUBSET Gpu]
                           /\ Preemptible \subseteq Job
ASSUME LimitsAssumption == MaxJobs \in Nat /\ MaxGpus \in Nat /\ MaxPerJob \in Nat

------------------------------------------------------------------------------
(* What the pass reads off the snapshot.                                    *)

Active(s)  == {j \in Job : s.job[j].state \in ActiveStates}
Held(s, J) == UNION {s.job[j].gpus : j \in J}

\* A worker whose last heartbeat is older than worker_stale_s takes its node
\* out of the pass.
StaleNodes(s)  == {n \in Node : s.heard[n] = "late"}
Schedulable(s) == {g \in Gpu : s.gpu[g].occ # "UNSEEN" /\ NodeOf[g] \notin StaleNodes(s)}

\* Discovery reports foreign processes and unexplained memory as RESEARCHER,
\* so the record's occupancy carries both.
SafeToAllocate(r) ==
  /\ r.occ \notin {"RESEARCHER", "DRAINING"}
  /\ ~(r.occ = "TROIANI" /\ r.job # NoJob)

(* Who is asked to leave.                                                   *)

Conflicts(s) == {g \in Schedulable(s) \cap Held(s, Active(s)) : s.gpu[g].occ = "RESEARCHER"}

\* Seeded fault: only a running job is asked.
VictimsRunning(s) ==
  {j \in Active(s) \cap Preemptible :
     s.job[j].state = "RUNNING" /\ s.job[j].gpus \cap Conflicts(s) # {}}

\* Seeded fault: a job is asked once.
VictimsOnce(s) ==
  {j \in Active(s) \cap Preemptible :
     ~s.job[j].preempt /\ s.job[j].gpus \cap Conflicts(s) # {}}

Victims(s) == {j \in Active(s) \cap Preemptible : s.job[j].gpus \cap Conflicts(s) # {}}

Exceeded(s) == {j \in Active(s) : s.job[j].overdue}

(* Which devices may be handed out.                                         *)

Reserved(s) ==
  Held(s, Active(s) \cup {j \in Job : s.job[j].cooldown = "running"})
    \ Held(s, Victims(s) \cup Exceeded(s))

\* The set tick builds (any job with a cooldown stamp, expired or not) and the
\* devices of this pass's victims.
CooldownGpus(s) == Held(s, Victims(s) \cup {j \in Job : s.job[j].cooldown # "none"})

\* Seeded fault: the devices of active jobs are not reserved.
IdleUnreserved(s) == {g \in Schedulable(s) : SafeToAllocate(s.gpu[g])} \ CooldownGpus(s)

Idle(s) ==
  {g \in Schedulable(s) : SafeToAllocate(s.gpu[g])} \ (Reserved(s) \cup CooldownGpus(s))

(* Which jobs may be placed.  The list of running jobs is filtered on the   *)
(* snapshot's states, where a job placed earlier in the same pass is still  *)
(* queued, so admission does not depend on the order of the pass.           *)

\* A PAUSED job is skipped: no handler leaves one with a "resume:" message.
Ready(s) ==
  {j \in Job : /\ s.job[j].state \in QueuedStates \ {"PAUSED"}
               /\ s.job[j].cooldown # "running"}

GpusInUse(s) ==
  MapThenSumSet(LAMBDA j : IF s.job[j].gpus = {} THEN Want[j] ELSE Cardinality(s.job[j].gpus),
                Active(s))

AllowsAdmission(s, j) ==
  /\ Want[j] <= MaxPerJob
  /\ ~s.stopAll
  /\ Cardinality(Active(s)) < MaxJobs
  /\ GpusInUse(s) + Want[j] <= MaxGpus

Admitted(s) == {j \in Ready(s) : AllowsAdmission(s, j)}

(* Placement.  place_job tries the nodes by score and takes the first       *)
(* spec.gpus devices of a node by size; scores and sizes are abstracted to  *)
(* a free choice among the same-node sets that are large enough.            *)

GpusOf(n) == {g \in Gpu : NodeOf[g] = n}

\* Seeded fault: a job gets what there is, up to what it wants.
PlacementsPartial(j, free) ==
  {G \in SUBSET (free \cap Fits[j]) :
     Cardinality(G) \in 1..Want[j] /\ \E n \in Node : G \subseteq GpusOf(n)}

PlacementsOf(j, free) ==
  {G \in SUBSET (free \cap Fits[j]) :
     Cardinality(G) = Want[j] /\ \E n \in Node : G \subseteq GpusOf(n)}

\* Seeded fault: earlier placements of the pass are forgotten.
LeftByForgetful(P, j, idle) == idle

\* A pass P gives every job the devices it allocates to it, {} for none.  Jobs
\* are tried in their order; each sees what the earlier ones left.
LeftBy(P, j, idle) == idle \ UNION {P[k] : k \in 1..(j - 1)}

Passes(s) ==
  LET admitted == Admitted(s)
      idle     == Idle(s)
      choices  == [j \in Job |-> IF j \in admitted THEN PlacementsOf(j, idle) ELSE {}]
  IN  {P \in [Job -> {{}} \cup UNION {choices[j] : j \in Job}] :
         \A j \in Job :
           LET left == {G \in choices[j] : G \subseteq LeftBy(P, j, idle)}
           IN  IF left = {} THEN P[j] = {} ELSE P[j] \in left}

HomeOf(G) == CHOOSE n \in Node : G \subseteq GpusOf(n)

==============================================================================
