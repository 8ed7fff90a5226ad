------------------------------- MODULE Leases -------------------------------
(***************************************************************************)
(* What the control plane promises of its jobs and devices, with nothing of  *)
(* requests, reports, queues or passes: devices are lent to jobs, whole and  *)
(* to one job at a time, and given back.  One step of the control plane may  *)
(* move many jobs, and may lend what another job gives back in that step.    *)
(***************************************************************************)
CONSTANTS
  Job,
  Lots   \* the sets of devices a job can be lent

VARIABLES
  stage,  \* where each job is
  holds   \* the devices lent to it

LeasesInit ==
  /\ stage = [j \in Job |-> "absent"]
  /\ holds = [j \in Job |-> {}]

\* A job may be queued, run and fail any number of times, but it does not come
\* back from where it is over, nor go back to before it was submitted.
Moves(j) == stage'[j] = stage[j] \/ (stage[j] # "closed" /\ stage'[j] # "absent")

HasNone(j) == stage'[j] # "holding" /\ holds'[j] = {}

\* A job is lent a lot or nothing, and nobody else has any of it.
IsLent(j) ==
  /\ stage'[j] = "holding"
  /\ holds'[j] \in Lots[j]
  /\ \A k \in Job \ {j} : holds'[j] \cap holds'[k] = {}

LeasesNext == \A j \in Job : Moves(j) /\ (HasNone(j) \/ IsLent(j))

LeasesSpec == LeasesInit /\ [][LeasesNext]_<<stage, holds>>

==============================================================================
