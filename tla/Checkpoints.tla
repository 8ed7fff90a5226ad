----------------------------- MODULE Checkpoints -----------------------------
(***************************************************************************)
(* The checkpoints of one run in its directory on one node: the steps of    *)
(* CheckpointManager.save and gc (training/checkpoint.py), the writer        *)
(* process that regular saves are handed to (training/async_writer.py), and  *)
(* the trainer that saves and starts again from what it finds                *)
(* (training/dummy_train.py).  The control plane may collect in the same     *)
(* directory at any time (service.gc_checkpoints, on the node they share).   *)
(*                                                                         *)
(* Contents are abstracted to whether a directory is whole, and every save   *)
(* belongs to an experiment, as those of platform jobs do, so that kind and  *)
(* step make its name.                                                       *)
(***************************************************************************)
EXTENDS Naturals, FiniteSets, FiniteSetsExt

CONSTANTS
  MaxStep,      \* --steps of the trainer
  Every,        \* checkpoint_every_steps
  LastRegular,  \* retention.last_regular
  BestN,        \* retention.best_n
  Metric        \* the metric saved with the regular checkpoint of a step

ASSUME StepsAssumption     == MaxStep \in Nat /\ Every \in Nat \ {0}
ASSUME RetentionAssumption == LastRegular \in Nat /\ BestN \in Nat
ASSUME MetricAssumption    == Metric \in [0..MaxStep -> Nat]

VARIABLES
  disk,   \* the final directories: none, there without its VALID file, or valid
  temp,   \* the .tmp directories: none, partial or whole
  save,   \* where each of the two saving processes is in which save
  keep,   \* what each of them found worth keeping, between listing and deleting
  life,   \* the trainer: off, running, with a save due, or saving its last
  step,   \* the trainer's step
  asked,  \* the signal it has seen: none, to stop, or (stronger) to preempt
  done    \* the DONE file

vars == <<disk, temp, save, keep, life, step, asked, done>>

Kind == {"regular", "preemption", "shutdown", "failure"}
Id   == [kind : Kind, step : 0..MaxStep]

\* Regular saves run in a process of their own, the last save of a trainer in it.
Saver == {"trainer", "writer"}

Idle   == [at |-> "idle", id |-> [kind |-> "regular", step |-> 0]]
NoDone == [step |-> 0, preempt |-> FALSE]

Valid == {i \in Id : disk[i] = "valid"}

\* latest_valid, for what a trainer takes from it: the step it starts from.
Newest == IF Valid = {} THEN 0 ELSE Max({i.step : i \in Valid})

------------------------------------------------------------------------------
(* Retention.                                                               *)

Healthy(i) == i.kind \in {"regular", "shutdown"} \/ (i.kind = "preemption" /\ i.step > 0)

\* list sorts by step, then by name, in which kinds are ckpt, fail, preempt and stop.
Rank == [regular |-> 1, failure |-> 2, preemption |-> 3, shutdown |-> 4]
Before(i, k) == i.step < k.step \/ (i.step = k.step /\ Rank[i.kind] < Rank[k.kind])

\* Of the lower metric, or of the same and earlier in the list.
Better(i, k) ==
  Metric[i.step] < Metric[k.step] \/ (Metric[i.step] = Metric[k.step] /\ Before(i, k))

\* The last n of a group, which is all of it for n = 0 as group[-0:] is.
LastOf(n, group) == {i \in group : n = 0 \/ Cardinality({k \in group : Before(i, k)}) < n}
BestOf(n, group) == {i \in group : Cardinality({k \in group : Better(k, i)}) < n}

OfKind(kind) == {i \in Valid : i.kind = kind}

\* Seeded fault: the latest checkpoint is not kept for being the latest.
KeptByKind ==
  LastOf(LastRegular, OfKind("regular")) \cup BestOf(BestN, OfKind("regular"))
    \cup LastOf(1, OfKind("preemption")) \cup LastOf(1, {i \in Valid : Healthy(i)})

Kept ==
  LastOf(LastRegular, OfKind("regular")) \cup BestOf(BestN, OfKind("regular"))
    \cup LastOf(1, OfKind("preemption")) \cup LastOf(1, {i \in Valid : Healthy(i)})
    \cup LastOf(1, Valid)

\* Deleting takes every .tmp directory, and every other that was not found valid.
SweepTo(kept) ==
  /\ disk' = [i \in Id |-> IF i \in kept THEN disk[i] ELSE "none"]
  /\ temp' = [i \in Id |-> "none"]

------------------------------------------------------------------------------
(* Saving, by process p.                                                    *)

At(p, stage) == save[p].at = stage
Go(p, stage) == save' = [save EXCEPT ![p].at = stage]

\* Seeded fault: a writer that fails is never joined.
FailUnjoined(p) ==
  /\ save' = [save EXCEPT ![p] = IF p = "trainer" THEN Idle ELSE [@ EXCEPT !.at = "dead"]]
  /\ life' = IF p = "trainer" THEN "off" ELSE life

\* An exception ends the process: a trainer crashes, a writer goes unnoticed.
Fail(p) ==
  /\ save' = [save EXCEPT ![p] = Idle]
  /\ life' = IF p = "trainer" THEN "off" ELSE life

SaveBegin(p) ==
  /\ At(p, "begin")
  /\ temp' = [temp EXCEPT ![save[p].id] = "partial"]
  /\ Go(p, "write")
  /\ UNCHANGED <<disk, keep, life, step, asked, done>>

\* Each file is written to a directory that is made again if it has gone.
SaveWrite(p) ==
  /\ At(p, "write")
  /\ temp' = [temp EXCEPT ![save[p].id] = "whole"]
  /\ Go(p, "check")
  /\ UNCHANGED <<disk, keep, life, step, asked, done>>

\* Validated, the directory of an earlier save of that name makes way.
SaveReplace(p) ==
  /\ At(p, "check")
  /\ IF temp[save[p].id] = "whole"
     THEN disk' = [disk EXCEPT ![save[p].id] = "none"] /\ Go(p, "rename") /\ UNCHANGED life
     ELSE Fail(p) /\ UNCHANGED disk
  /\ UNCHANGED <<temp, keep, step, asked, done>>

SaveRename(p) ==
  /\ At(p, "rename")
  /\ IF temp[save[p].id] = "whole"
     THEN /\ disk' = [disk EXCEPT ![save[p].id] = "bare"]
          /\ temp' = [temp EXCEPT ![save[p].id] = "none"]
          /\ Go(p, "mark")
          /\ UNCHANGED life
     ELSE Fail(p) /\ UNCHANGED <<disk, temp>>
  /\ UNCHANGED <<keep, step, asked, done>>

SaveMark(p) ==
  /\ At(p, "mark")
  /\ IF disk[save[p].id] = "bare"
     THEN disk' = [disk EXCEPT ![save[p].id] = "valid"] /\ Go(p, "list") /\ UNCHANGED life
     ELSE Fail(p) /\ UNCHANGED disk
  /\ UNCHANGED <<temp, keep, step, asked, done>>

GcList(p) ==
  /\ At(p, "list")
  /\ keep' = [keep EXCEPT ![p] = Kept]
  /\ Go(p, "sweep")
  /\ UNCHANGED <<disk, temp, life, step, asked, done>>

GcSweep(p) ==
  /\ At(p, "sweep")
  /\ SweepTo(keep[p])
  /\ keep' = [keep EXCEPT ![p] = {}]
  /\ Go(p, "idle")
  /\ UNCHANGED <<life, step, asked, done>>

\* The control plane's collection, whose own listing is taken to be current.
ControlGc ==
  /\ SweepTo(Kept)
  /\ UNCHANGED <<save, keep, life, step, asked, done>>

------------------------------------------------------------------------------
(* The trainer.                                                             *)

\* A writer that outlived its trainer has ended by the time of the next start.
TrainerStart ==
  /\ life = "off"
  /\ At("writer", "idle")
  /\ life' = "run"
  /\ step' = Newest
  /\ asked' = "no"
  /\ UNCHANGED <<disk, temp, save, keep, done>>

Signal(kind) ==
  /\ life # "off"
  /\ asked # "preempt" /\ asked # kind
  /\ asked' = kind
  /\ UNCHANGED <<disk, temp, save, keep, life, step, done>>

InLoop == life = "run" /\ asked = "no" /\ step < MaxStep

TrainerStep ==
  /\ InLoop
  /\ step' = step + 1
  /\ life' = IF step' % Every = 0 THEN "due" ELSE "run"
  /\ UNCHANGED <<disk, temp, save, keep, asked, done>>

\* submit, which joins the writer of the save before.
Submit ==
  /\ life = "due"
  /\ At("writer", "idle")
  /\ save' = [save EXCEPT !["writer"] = [at |-> "begin", id |-> [kind |-> "regular", step |-> step]]]
  /\ life' = "run"
  /\ UNCHANGED <<disk, temp, keep, step, asked, done>>

LastSave(kind, at) ==
  /\ save' = [save EXCEPT !["trainer"] = [at |-> "join", id |-> [kind |-> kind, step |-> at]]]
  /\ life' = "last"

TrainerAnomaly ==
  /\ InLoop
  /\ step' = step + 1
  /\ LastSave("failure", step')
  /\ UNCHANGED <<disk, temp, keep, asked, done>>

TrainerLeave ==
  /\ life = "run"
  /\ asked # "no" \/ step = MaxStep
  /\ LastSave(IF asked = "preempt" THEN "preemption" ELSE "shutdown", step)
  /\ UNCHANGED <<disk, temp, keep, step, asked, done>>

JoinWriter ==
  /\ At("trainer", "join")
  /\ At("writer", "idle")
  /\ Go("trainer", "begin")
  /\ UNCHANGED <<disk, temp, keep, life, step, asked, done>>

\* After a failure checkpoint there is no DONE file.  The file says preempted of a
\* trainer that was asked during its last save as well.
TrainerExit ==
  /\ life = "last"
  /\ At("trainer", "idle")
  /\ done' = IF save["trainer"].id.kind = "failure" THEN done
             ELSE [step |-> step, preempt |-> asked = "preempt"]
  /\ save' = [save EXCEPT !["trainer"] = Idle]
  /\ life' = "off"
  /\ UNCHANGED <<disk, temp, keep, step, asked>>

\* SIGKILL, or an exception: the writer goes on.
TrainerCrash ==
  /\ life # "off"
  /\ life' = "off"
  /\ save' = [save EXCEPT !["trainer"] = Idle]
  /\ keep' = [keep EXCEPT !["trainer"] = {}]
  /\ UNCHANGED <<disk, temp, step, asked, done>>

WriterCrash ==
  /\ ~At("writer", "idle")
  /\ save' = [save EXCEPT !["writer"] = Idle]
  /\ keep' = [keep EXCEPT !["writer"] = {}]
  /\ UNCHANGED <<disk, temp, life, step, asked, done>>

------------------------------------------------------------------------------

Init ==
  /\ disk = [i \in Id |-> "none"]
  /\ temp = [i \in Id |-> "none"]
  /\ save = [p \in Saver |-> Idle]
  /\ keep = [p \in Saver |-> {}]
  /\ life = "off"
  /\ step = 0
  /\ asked = "no"
  /\ done = NoDone

Saving(p) ==
  \/ SaveBegin(p) \/ SaveWrite(p) \/ SaveReplace(p) \/ SaveRename(p) \/ SaveMark(p)
  \/ GcList(p) \/ GcSweep(p)

Training == TrainerStep \/ Submit \/ TrainerLeave \/ JoinWriter \/ TrainerExit

Faults == TrainerAnomaly \/ TrainerCrash \/ WriterCrash \/ ControlGc

Next ==
  \/ \E p \in Saver : Saving(p)
  \/ Training \/ TrainerStart
  \/ Signal("stop") \/ Signal("preempt")
  \/ Faults

Spec == Init /\ [][Next]_vars

\* Processes that are up go on with what they do.
FairSpec ==
  /\ Spec
  /\ \A p \in Saver : WF_vars(Saving(p))
  /\ WF_vars(Training)

------------------------------------------------------------------------------
(* Properties.                                                              *)

\* The newest step a trainer could start from never goes back: not by retention,
\* not by a save that fails or dies halfway, not by a collection of the control
\* plane in the middle of one.  The exception is the moment in which a save
\* replaces the very checkpoint that is the newest (see MarkerBacked).
NewestKept ==
  [][Newest' >= Newest \/ \E p \in Saver : At(p, "check") /\ save[p].id.step = Newest]_vars

\* A trainer that is asked to leave does, whatever becomes of the save that its
\* writer has under way and of its own.
LeavesWhenAsked == asked # "no" ~> life = "off"

\* .agents/SPEC.md: saves are atomic.  So the step that a DONE file names, and that
\* the control plane takes for the one to resume from, can be resumed from.
MarkerBacked == done.step <= Newest

==============================================================================
