------------------------------ MODULE JobStates ------------------------------
(***************************************************************************)
(* The life of a job as the platform's one transition table sees it        *)
(* (state/transitions.py) and the classes of states the handlers test      *)
(* (models.py).  Every handler of the code goes through apply_transition.   *)
(* In Control only cancelling and pausing can meet a refusal, and look the   *)
(* move up; that no other handler asks for a move the table refuses is a     *)
(* property there (HandlersNeverRaise), not an assumption.                  *)
(***************************************************************************)
EXTENDS Naturals, Sequences

JobState ==
  {"PENDING", "SCHEDULED", "STARTING", "RUNNING", "CHECKPOINTING", "PREEMPTED",
   "QUEUED", "RESUMING", "PAUSED", "ANOMALY", "COMPLETED", "FAILED", "CANCELLED"}

\* A job in one of these owns its devices as far as the scheduler is concerned.
ActiveStates == {"SCHEDULED", "STARTING", "RUNNING", "CHECKPOINTING", "RESUMING"}

\* A job in one of these is looked at by the scheduling queue.
QueuedStates == {"PENDING", "QUEUED", "PREEMPTED", "PAUSED"}

TerminalStates == {"COMPLETED", "FAILED", "CANCELLED"}

\* VALID as its table is written.
Table ==
  [st \in JobState |->
    CASE st = "PENDING" ->
           {"SCHEDULED", "QUEUED", "CANCELLED", "PAUSED", "COMPLETED", "FAILED"}
      [] st = "SCHEDULED" ->
           {"STARTING", "QUEUED", "CANCELLED", "PREEMPTED", "COMPLETED", "FAILED"}
      [] st = "STARTING" ->
           {"RUNNING", "CHECKPOINTING", "FAILED", "CANCELLED", "PREEMPTED", "COMPLETED"}
      [] st = "RUNNING" ->
           {"CHECKPOINTING", "COMPLETED", "FAILED", "CANCELLED", "ANOMALY", "PAUSED", "PREEMPTED"}
      [] st = "CHECKPOINTING" ->
           {"RUNNING", "PREEMPTED", "PAUSED", "FAILED", "COMPLETED", "CANCELLED", "ANOMALY"}
      [] st = "PREEMPTED" ->
           {"QUEUED", "PENDING", "CANCELLED", "COMPLETED", "FAILED"}
      [] st = "QUEUED" ->
           {"SCHEDULED", "PENDING", "CANCELLED", "PAUSED", "COMPLETED", "FAILED"}
      [] st = "RESUMING" ->
           {"RUNNING", "FAILED", "CANCELLED", "CHECKPOINTING", "COMPLETED"}
      [] st = "PAUSED" ->
           {"QUEUED", "PENDING", "CANCELLED", "RESUMING", "COMPLETED", "FAILED"}
      [] st = "ANOMALY" ->
           {"PAUSED", "CHECKPOINTING", "FAILED", "CANCELLED", "QUEUED", "COMPLETED"}
      [] st = "FAILED" -> {"QUEUED", "PENDING"}
      [] OTHER -> {}]

\* Seeded fault: the edges added below the table are forgotten.
ValidWithoutResume == Table

\* VALID with the resume edges that are added below the table.
Valid ==
  [st \in JobState |->
    IF st \in {"SCHEDULED", "PREEMPTED", "QUEUED"} THEN Table[st] \cup {"RESUMING"} ELSE Table[st]]

\* validate_transition: moving to the state one is in is always accepted.
CanMove(from, to) == from = to \/ to \in Valid[from]

(***************************************************************************)
(* A handler takes a job through several transitions in a row and raises    *)
(* TransitionError at the first one the table refuses.                      *)
(***************************************************************************)
CanWalk(from, path) ==
  \A i \in 1..Len(path) : CanMove(IF i = 1 THEN from ELSE path[i - 1], path[i])

==============================================================================
