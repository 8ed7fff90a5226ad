---------------------------- MODULE MCLogShipping ----------------------------
(***************************************************************************)
(* LogShipping for TLC.  A behaviour has at most MaxMishaps of the events     *)
(* after which the code promises less, and `had` says of which kinds they    *)
(* were: an answer that was lost, a worker that was restarted, an exit that  *)
(* was made up, a report that was read for its text, another attempt on the  *)
(* same node or on another, a trainer that was given up in a partition.      *)
(***************************************************************************)
EXTENDS LogShipping, FiniteSets

CONSTANT MaxMishaps

VARIABLES had, mishaps

mcVars == <<vars, had, mishaps>>

Mishap(kind) == mishaps < MaxMishaps /\ mishaps' = mishaps + 1 /\ had' = had \cup {kind}
Routine == UNCHANGED <<had, mishaps>>

Smooth(n) == Beat(n, "there") /\ Routine

Reaped(n) ==
  \/ Reap(n, FALSE) /\ Routine
  \/ Reap(n, TRUE) /\ Mishap("report read")

Elsewhere(n) == \E m \in Node \ {n} : file[m] > 0

MCInit == Init /\ had = {} /\ mishaps = 0

MCNext ==
  \E n \in Node :
    \/ Smooth(n)
    \/ Beat(n, "gone") /\ Mishap("exit made up")
    \/ \E p \in {"there", "gone"} : BeatUnanswered(n, p) /\ Mishap("answer lost")
    \/ Reaped(n)
    \/ PartitionRelease(n) /\ IF trainer[n] = "alive" THEN Mishap("given up") ELSE Routine
    \/ WorkerRestart(n) /\ Mishap("worker restarted")
    \/ Start(n) /\ CASE Elsewhere(n) -> Mishap("moved")
                      [] ~Elsewhere(n) /\ file[n] > 0 -> Mishap("started again")
                      [] OTHER -> Routine
    \/ Write(n) /\ Routine
    \/ End(n) /\ Routine

MCSpec == MCInit /\ [][MCNext]_mcVars

\* A worker's loop goes on, and not all of its heartbeats are lost.
MCFairSpec == MCSpec /\ \A n \in Node : WF_mcVars(Smooth(n)) /\ WF_mcVars(Reaped(n))

\* Each file fits into the text of an exit report.
Covered == \A n \in Node : file[n] <= TailBytes

\* Lost answers, restarts and moves never make the log repeat itself or go back;
\* neither does the text of an exit report, as long as it covers the whole log.
EachByteOnce == (had \subseteq {"report read"} /\ Covered) \/ "report read" \notin had => InOrder

Heard ==
  \/ had \subseteq {"report read"} /\ Covered
  \/ had \subseteq {"started again", "given up"}

\* As long as no answer is lost, no worker restarts and no exit is made up, what a
\* worker counts as shipped is shown: over the whole of one attempt, exit included,
\* and over several on one node if the reports of their exits are not read.
GaplessIfHeard == Heard => NoSilentGaps

\* Then every byte of the file is shown in the end, whether its trainer goes on, is
\* reaped or is forgotten in a partition before it was sent; but not what a trainer
\* writes after it was given up.
ShownInTheEnd ==
  \A n \in Node : \A k \in 1..MaxBytes :
    file[n] >= k ~> (\E i \in DOMAIN Shown : Shown[i] = <<n, k>>) \/ ~Heard \/ "given up" \in had

==============================================================================
