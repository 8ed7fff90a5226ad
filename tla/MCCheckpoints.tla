---------------------------- MODULE MCCheckpoints ----------------------------
(***************************************************************************)
(* A short run for TLC, with MaxFaults of the faults that are let in.        *)
(***************************************************************************)
EXTENDS Checkpoints

\* The metric first falls and then rises again: the best is not the latest.
Dip == [s \in 0..MaxStep |-> IF s <= 2 THEN 10 - s ELSE 10 + s]

CONSTANT MaxFaults

VARIABLE faults

mcVars == <<vars, faults>>

MCInit == Init /\ faults = 0
MCNext ==
  \/ (\/ \E p \in Saver : Saving(p)
      \/ Training \/ TrainerStart
      \/ Signal("stop") \/ Signal("preempt")) /\ UNCHANGED faults
  \/ Faults /\ faults < MaxFaults /\ faults' = faults + 1

MCSpec == MCInit /\ [][MCNext]_mcVars

MCFairSpec ==
  /\ MCSpec
  /\ \A p \in Saver : WF_mcVars(Saving(p) /\ UNCHANGED faults)
  /\ WF_mcVars(Training /\ UNCHANGED faults)

==============================================================================
