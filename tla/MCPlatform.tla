----------------------------- MODULE MCPlatform -----------------------------
(***************************************************************************)
(* Small platforms for TLC.  Rounds of workers, trainers doing well,         *)
(* submissions and cooldowns are free; a behaviour has MaxDisturbances of    *)
(* the steps that a run lets in by its Kinds.                                *)
(***************************************************************************)
EXTENDS Platform

CONSTANTS n1, n2, g1, g2

OneNode  == [g \in Gpu |-> n1]
TwoNodes == [g \in Gpu |-> IF g = g1 THEN n1 ELSE n2]
AllWant1 == [j \in Job |-> 1]
AllFit   == [j \in Job |-> Gpu]
Remote   == {NoFiles}

CONSTANTS MaxDisturbances, Kinds

VARIABLES spent, settled

mcVars == <<allVars, spent, settled>>

Free ==
  \/ \E n \in Node : Round(n)
  \/ \E n \in Node, j \in Job : Trainer(n, j)
  \/ \E j \in Job : Cooled(j) \/ (Submit(j) /\ UNCHANGED sideVars)
  \/ Strays

OnRecord(A) == A /\ UNCHANGED sideVars

\* After these the records still say where the trainers are.
Everyday(kind) ==
  \/ kind = "people" /\ People
  \/ kind = "release" /\ OnRecord(ReleaseAll \/ \E j \in Job : Preempt(j) \/ Kill(j))
  \/ kind = "drain" /\ OnRecord(\E g \in Gpu : DrainGpu(g) \/ UndrainGpu(g))
  \/ kind = "latch" /\ OnRecord(StopAll \/ ResumeAll \/ \E latch \in BOOLEAN : SetStopAll(latch))
  \/ kind = "calls" /\ \E n \in Node : CallFails(n) \/ \E j \in Job : PostFails(n, j)
  \/ kind = "restart" /\ OnRecord(Restart)
  \/ kind = "crashes" /\ \E n \in Node, j \in Job : TrainerCrash(n, j)

\* After these a trainer may go on that no record knows of.
Unsettling(kind) ==
  \/ kind = "resume" /\ OnRecord(\E j \in Job : Resume(j))
  \/ kind = "cancel" /\ OnRecord(\E j \in Job : Cancel(j))
  \/ kind = "pause" /\ OnRecord(\E j \in Job : Pause(j))
  \/ kind = "anomalies" /\
       \E n \in Node, j \in Job : \E loss, posted \in BOOLEAN : TrainerAnomaly(n, j, loss, posted)
  \/ kind = "late" /\ OnRecord(Status \/ \E n \in Node : GoLate(n))
  \/ kind = "partitions" /\ \E n \in Node : PartitionRelease(n)
  \/ kind = "workers" /\ \E n \in Node : WorkerRestart(n)
  \/ kind = "limit" /\ OnRecord(\E j \in Job : RunOut(j))

\* settled is a history: no step of the second kind so far, and no placement that
\* overtook the exit before it.  Only properties read it.
Settles == settled' = (settled /\ ~Overtaken')

MCInit == PlatformInit /\ spent = 0 /\ settled = TRUE
MCNext ==
  \/ Free /\ Settles /\ UNCHANGED spent
  \/ /\ spent < MaxDisturbances
     /\ spent' = spent + 1
     /\ \E kind \in Kinds :
          \/ Everyday(kind) /\ Settles
          \/ Unsettling(kind) /\ settled' = FALSE

MCSpec == MCInit /\ [][MCNext]_mcVars

(***************************************************************************)
(* A worker's loop never stops, and a trainer that was asked to leave, or saw *)
(* an anomaly, leaves at the end of its step, forgotten by its worker or not. *)
(***************************************************************************)
MCFairSpec ==
  /\ MCSpec
  /\ \A n \in Node : WF_mcVars(Round(n) /\ Settles /\ UNCHANGED spent)
  /\ \A n \in Node, j \in Job : WF_mcVars(Leaves(n, j, TRUE) /\ Settles /\ UNCHANGED spent)
  /\ WF_mcVars((\E x \in strays : x.asked /\ StrayEnds(x)) /\ Settles /\ UNCHANGED spent)

\* Trainers of two jobs never share a device, unless something happened after which
\* a trainer may go on that no record knows of: whatever calls are lost and processes
\* crash, a device is lent again only after the trainer on it is gone.  What may have
\* happened is a step of the second kind above, or a cooldown that ended so early
\* that a placement overtook the exit it began with.
OneTrainerIfSettled == settled => OneTrainerPerDevice

\* Nor does, until then, a trainer run on a node or on devices other than those its
\* job's record names: orders kept or sent twice start no second trainer.
RecordsIfSettled == settled => TrainersMatchRecords

=============================================================================
