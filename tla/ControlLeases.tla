---------------------------- MODULE ControlLeases ---------------------------
(***************************************************************************)
(* The control plane as a lender of devices: where a job is in its life, and *)
(* the devices that are its own as long as it is active.                     *)
(***************************************************************************)
EXTENDS Control

StageOf(st) ==
  CASE st = "NONE"                       -> "absent"
    [] st \in ActiveStates               -> "holding"
    [] st = "FAILED"                     -> "failed"
    [] st \in {"COMPLETED", "CANCELLED"} -> "closed"
    [] OTHER                             -> "waiting"

\* A lot is as many devices of a node as the job wants, all of them fit for it.
LotsOf == [j \in Job |->
  {G \in SUBSET Fits[j] : Cardinality(G) = Want[j] /\ \E n \in Node : G \subseteq GpusOf(n)}]

Lending == INSTANCE Leases WITH
  Lots  <- LotsOf,
  stage <- [j \in Job |-> StageOf(job[j].state)],
  holds <- [j \in Job |-> IF j \in Active(Store) THEN job[j].gpus ELSE {}]

\* The control plane keeps the promise of Leases: whatever is asked, reported late
\* or reported twice, devices change hands only by being given back first, jobs get
\* all or nothing, and what is over stays over.
KeepsLeases == Lending!LeasesSpec

==============================================================================
