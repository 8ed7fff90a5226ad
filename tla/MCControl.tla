------------------------------ MODULE MCControl ------------------------------
EXTENDS ControlLeases, TLC

CONSTANTS n1, n2, g1, g2, g3

OneNode   == [g \in Gpu |-> n1]
AllWant1  == [j \in Job |-> 1]
AllFit    == [j \in Job |-> Gpu]
TwoNodes  == [g \in Gpu |-> IF g = g3 THEN n2 ELSE n1]
FirstWants2 == [j \in Job |-> IF j = 1 THEN 2 ELSE 1]
Shared    == RunDir
Remote    == {[marker |-> "none", latest |-> "none"]}

(***************************************************************************)
(* A quiet run is submissions, heartbeats, first metrics and cooldowns; any  *)
(* other step spends one of the MaxDisturbances of the behaviour, if it is   *)
(* of a kind the run lets in.                                                *)
(***************************************************************************)
CONSTANTS MaxDisturbances, Kinds

VARIABLE spent

Quiet ==
  \/ \E j \in Job : Submit(j) \/ CooldownOver(j) \/ Metrics(j, TRUE, FALSE)
  \/ \E n \in Node : \E report \in Reports(n) : HeartbeatWith(n, report, {}, <<>>)

Disturbance ==
  \/ "operators" \in Kinds /\ Operate
  \/ "reports" \in Kinds /\ Report
  \/ "clock" \in Kinds /\ (Clock \/ Status)

MCInit == Init /\ spent = 0
MCNext ==
  \/ Quiet /\ UNCHANGED spent
  \/ spent < MaxDisturbances /\ Disturbance /\ spent' = spent + 1
MCSpec == MCInit /\ [][MCNext]_<<vars, spent>>

==============================================================================
