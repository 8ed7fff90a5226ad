------------------------------ MODULE MCThreads ------------------------------
(***************************************************************************)
(* Handlers of one worker, its trainers and an operator, interleaved.        *)
(* Requests of the operator, researchers and crashes count as disturbances.  *)
(***************************************************************************)
EXTENDS Threads

CONSTANTS n1, g1, MaxDisturbances

OneNode  == [g \in Gpu |-> n1]
AllWant1 == [j \in Job |-> 1]
AllFit   == [j \in Job |-> Gpu]
Remote   == {NoFiles}

VARIABLES spent, settled

mcVars == <<threadVars, spent, settled>>

\* Some jobs are on record, the first ones.
MCInit ==
  /\ \E k \in Job : ThreadsInit(1..k)
  /\ spent = 0
  /\ settled = TRUE

\* One checkpoint of each job is enough: what a later one makes the handler write is
\* what it writes for a metric.
Posts(n, j) == \E what \in {"metric", "checkpoint"} :
  /\ what = "checkpoint" => j \notin recorded
  /\ TrainerPosts(n, j, what)

\* The cooldown of j would end while a request is under way, or before the exit that
\* it began with is reaped.
EndsEarly(j) == (\E t \in Thread : ~Idles(t)) \/ (\E n \in Node : proc[n][j].st \in Ended)

Free ==
  \/ \E t \in Thread : Serve(t)
  \/ /\ \/ \E n \in Node : WorkerWorks(n)
        \/ \E n \in Node, j \in Job : Posts(n, j) \/ TrainerGoes(n, j) \/ TrainerEnds(n, j)
        \/ \E j \in Job : ~EndsEarly(j) /\ CoolsDown(j)
     /\ UNCHANGED recorded

Disturbance ==
  \/ OperatorAsks("preempt", 1)
  \/ \E n \in Node : TrainerDies(n, 1)
  \/ EndsEarly(1) /\ CoolsDown(1)

\* Requests that a run sees once, and nothing besides.
LoneRequest == \E what \in {"kill", "cancel", "resume"} : OperatorAsks(what, 1)

\* Researchers come and go without any request; a behaviour is settled as long as
\* the worker and its trainers are the only clients, no trainer dies midway, and no
\* cooldown ends early.  Where one of these happens, there is one job.
MCNext ==
  \/ Free /\ UNCHANGED <<spent, settled>>
  \/ /\ spent < MaxDisturbances
     /\ spent' = spent + 1
     /\ People
     /\ UNCHANGED <<recorded, todo, settled>>
  \/ /\ spent < MaxDisturbances
     /\ spent' = spent + 1
     /\ \A j \in Job \ {1} : ~Exists(j)
     /\ Disturbance
     /\ settled' = FALSE
     /\ UNCHANGED recorded
  \/ /\ spent = 0
     /\ spent' = MaxDisturbances
     /\ \A j \in Job \ {1} : ~Exists(j)
     /\ LoneRequest
     /\ settled' = FALSE
     /\ UNCHANGED recorded

MCSpec == MCInit /\ [][MCNext]_mcVars

Still(A) == A /\ UNCHANGED <<spent, settled>>
Quiet(A) == Still(A) /\ UNCHANGED recorded

\* Every thread gets its turn, a worker's loop never stops, and a trainer that
\* was asked to leave does, in time.
MCFairSpec ==
  /\ MCSpec
  /\ \A t \in Thread : WF_mcVars(Still(Serve(t)))
  /\ \A n \in Node : WF_mcVars(Quiet(WorkerWorks(n)))
  /\ \A n \in Node, j \in Job : SF_mcVars(Quiet(TrainerGoes(n, j)))

\* With the worker and its trainers as the only clients, their interleaved
\* requests never put the trainers of two jobs on one device: a late write of a
\* metric or checkpoint does not undo what an exit, a pass or a refresh decided.
OneTrainerUndisturbed == settled => OneTrainerPerDevice

\* Nor do they leave the records at odds: whenever no request is under way, no
\* device is claimed by a job that does not run on it, or lent twice.
QuietAgrees ==
  settled /\ (\A t \in Thread : Idles(t)) =>
    NoClaimOfTheDead /\ ClaimsAgree /\ NoDoubleAllocation

==============================================================================
