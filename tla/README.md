# Verification of the Troiani platform

The Troiani platform lends idle GPUs of shared machines to preemptible training
jobs. A control plane keeps jobs and devices in a store and decides who runs
where; one worker per node starts and signals the trainers; trainers save
checkpoints so that they can leave when a researcher comes. The code is in
`src/troiani_platform/`; paths below are relative to it.

This directory holds TLA+ modules of that system, configurations with which TLC
checks them on small instances, and proofs that TLAPS checks for any number of
jobs, devices and nodes. `PROJECT.json` lists runs, seeded faults, theorems,
hazards and, for every definition, the source lines it models.

    tlc -config control_two_jobs.cfg MCControl     # any run: its cfg, its module
    tlapm ControlProofs.tla                        # any module of proofs

## 1. The system

### Components, their state and their operations

| Component | State | Operations | Module |
|---|---|---|---|
| Job life cycle (`models.py`, `state/transitions.py`) | - | the table of allowed transitions, walks through it | `JobStates` |
| Scheduler (`scheduler/`, `policy/policy.py`) | none: a function of the store | victims, runtime limits, reservation, cooldown, admission, placement | `Scheduler` |
| Control plane (`control/service.py`, `control/api.py`) | queues of actions per worker, `stop_all`, the age of heartbeats | submit, cancel, pause, resume, preempt, kill, drain, policy; heartbeat, exit, metrics, anomaly and checkpoint reports; the tick; a restart | `Control` |
| Store (`state/store.py`) | jobs, devices, draining set, policy override | reads and whole-record writes | variables of `Control` |
| Worker (`worker/`) | table of processes, the answer it is working through | heartbeat, apply, reap, partition release, restart | `Platform` |
| Trainer (`training/dummy_train.py`) | signals seen, step | step, save, anomaly, exit | `Platform`, `Checkpoints` |
| Discovery (`discovery/`) | - | what a device is reported as | `Platform` (`SeenOn`) |
| Checkpoint store (`training/checkpoint.py`, `training/async_writer.py`) | directories of a run, the writer process | save, validate, list, collect | `Checkpoints` |
| Threads of the API (`control/api.py`, `state/store.py`) | what is left of each request | the handlers above, one access to the store at a time | `Threads` |
| Policy (`policy/windows.py`, `config.py`, `control/service.py`) | the policy in force, the saved override | patch, stop all, resume, reload; open or closed at a time | `Policy` |
| Log shipping (`worker/worker.py`, `control/service.py`) | offsets, leftovers, the kept text | send, commit, append, show | `LogShipping` |
| Health monitor (`training/health.py`) | histories of loss and throughput | detect | not modelled: an anomaly may come at any step |
| Rest of the configuration, command line, dashboard, monitoring, tracking, infra reports, simulation, SkyPilot import, training utilities | - | - | not modelled: parsing, presentation, write-only sinks, test support |

### How they interact

A worker's heartbeat carries the state of its devices and its list of
processes. Handling it, the control plane settles jobs whose processes are gone
(reconciliation), takes jobs from workers that have been silent
(`_reclaim_stale_workers`), runs a scheduling pass and answers with the actions
queued for that worker, which it forgets at once. The worker applies them and
reports ended processes with `job_exit`. Trainers post metrics, anomalies and
checkpoints on their own; their posts are tried once. Users come in through the
API. Everything the control plane decides rests on records, and the records
follow the trainers with a delay: that is where the difficulty is.

### What is hard

* *Lost and late calls*: actions are popped before the answer is known to
  arrive; exits come late, twice, or for an earlier attempt, without a number of
  the attempt; posts of trainers may be lost.
* *Timeouts that race*: a silent worker loses its jobs after 45 s and releases
  its trainers after 90 s. A cooldown counts from the moment an exit is taken for
  the first time, may be zero, and may end before the worker reaps that exit.
* *Restarts*: the queues of actions and the worker's table of processes are in
  memory only.
* *Records that disagree*: a job lists its devices, a device names its job, and
  each is written by other handlers; a researcher's report wipes the claim.
* *Long tails*: a heartbeat runs most of the control plane, and a refused
  transition in the middle would stop it halfway.
* *Checkpoints*: written by another process while the trainer goes on, collected
  by whoever saved last and by the control plane.
* *Threads*: handlers run in a pool, the store locks single statements, and a
  handler writes back the record it read at its start.
* *Logs*: sent by offset, committed on the answer, and appended from two sources
  that overlap: chunks of heartbeats and tails of exit reports.
* *Policy*: changed key by key in memory and saved at the end; reloaded as a patch.

### What makes each part correct

| Part | Properties |
|---|---|
| Transition table | no background handler is ever refused (`HandlersNeverRaise`) |
| Scheduler | a device goes to one job (`NoDoubleAllocation`), placements are whole and on one node (`PlacedWhole`), a device with a researcher has a standing request to leave (`EvictionRequested`), caps hold (`CapsHold`: they do not) |
| Control plane | job and device records agree (`ClaimsAgree`), nothing keeps a claim after its end (`NoClaimOfTheDead`), what is over stays over (`NoResurrection`, `FailuresStay`), a sweep is complete (`SweepIsComplete`), devices are lent and given back (`KeepsLeases`) |
| Platform | trainers never share a device (`OneTrainerIfSettled`), run where the records say (`RecordsIfSettled`), leave researchers alone in the end (`YieldsInTime`; without its condition, `Yields`, they do not), an anomaly waits for a person (`AnomaliesPause`: it does not); every step is one of the control plane's (`Spec`) |
| Threads | workers and trainers alone never set the records at odds (`OneTrainerUndisturbed`, `QuietAgrees`); a job whose trainer is gone does not sit there running (`Heals`) |
| Logs | shown once and in order (`EachByteOnce`), without gaps (`GaplessIfHeard`), in the end (`ShownInTheEnd`) |
| Policy | the gate is the calendar's (`GateMatchesCalendar`, `GateMovesAtEdges`), what was answered outlives restarts (`AnswersOutliveRestarts`, `AnsweredStopHolds`) |
| Checkpoints | the step to start from never goes back (`NewestKept`), a trainer that is asked to leave does (`LeavesWhenAsked`), a DONE file names a step that is there (`MarkerBacked`: not always) |

## 2. The modules

    JobStates <- Scheduler <- Control <- ControlLeases <- MCControl
                                 ^            |  refines
                                 |            v
                                 |          Leases
                                 +--- Platform <- MCPlatform
                                          ^   Platform refines Control
                                          +--- Threads <- MCThreads
    Checkpoints <- MCCheckpoints    LogShipping <- MCLogShipping    Policy <- MCPolicy
    ControlProofs: ControlLeases.  EvictionProofs: Control.  PlatformProofs: Platform.
    SettledProofs: MCPlatform.  ThreadsProofs: MCThreads.  PolicyProofs: Policy.
    CheckpointsProofs: Checkpoints.  LogShippingProofs: MCLogShipping.

**`JobStates`** - the states of a job, the classes handlers test, the table with
the edges that are added below it, and `CanWalk`, a sequence of transitions. Only
cancelling and pausing can be refused in `Control`, and look their move up. The
other handlers take their walk in one step; that the table has every walk they ask
for, in every state they ask for it, is `HandlersNeverRaise`, a statement about the
table and the walks it lists rather than about what a behaviour does.

**`Scheduler`** - one pass as a function of a snapshot of the store. `Passes(s)`
is the set of outcomes; several, since node scores and the order of devices are
abstracted to a free choice. Cooldowns are `none`, `running` or `over`; `Cools`
says whether `cooldown_s` is more than zero, without which a cooldown is over as it
begins (`NewCooldown`). A run is overdue or not. Jobs are numbered in the order in which `rank_jobs` tries them.

**`Control`** - the store, the queues and `stopAll` as variables, one action per
handler. Handlers share long tails, so they are operators from snapshot to
snapshot (`Reclaim`, `PreemptJobs`, `JobExits`, `TickResults`, ...) and an action
installs the snapshot its handler ends with: `HeartbeatWith` is refresh,
reconciliation, sweep, tick and delivery in the code's order. A refused
transition is a guard that leaves behind what the code did before it
(`PauseBeforeRun`). Reports come in any order, late or repeated, from anyone: in
this module the workers are a free environment. `MaxQueue` bounds how many
actions wait for one job at one worker, and `Push` does not repeat the last one.
A repeated order changes nothing at the worker, so this keeps every behaviour
that differs in its effect.

**`Leases`** - what users are promised, with nothing of the machinery: devices
are lent whole and to one job at a time, and what is over stays over.
**`ControlLeases`** is the mapping: a job holds what it lists while it is active.

**`Platform`** - `Control` with its real environment. A worker is a loop of
three phases (`beat`, `apply`, `reap`) with a table of processes; a trainer is
up, asked (SIGUSR1), told (SIGTERM) or leaving after an anomaly; `strays` are
trainers that no worker's table lists, after a restart or a partition release;
`users` are the devices with a researcher. A cooldown may end at any time, also
between the heartbeat that finds a trainer gone and the worker's reap (`Cooled`); if
the job is then placed before the reap, the placement has *overtaken* the exit
(`Overtaken`), and the late report ends the wrong attempt (section 5). `Gone` and `SeenOn` compute what a
worker really reports. Every call can fail before or after it was handled
(`BeatLost`, `WorkerBeat(n, FALSE)`, `WorkerReap(n, j, FALSE)`, posts with
`posted = FALSE`). Shared run directories are left out here (`NoFiles`).

**`Threads`** - the same handlers without the atomicity. A thread serves one
client at a time (the worker of a node, the trainer of a job, an operator), and
`todo[thread]` is the list of steps left of its request. A step is one access to
the store together with the work in memory up to the next: `PreemptArrives` reads
the job and leaves the writes of `preempt`, each with the record computed from
that reading, however old it is when its turn comes. `PassListsJobs` and
`PassDecides` read jobs and devices at different times; `_release_gpus` and the
claim of `_allocate` list devices, then write each; job_exit and `_finish_preempt`
read the job again where the code does; `recorded` is the table of checkpoints,
which is written before the job's pointer. Workers and trainers are those of
`Platform`, whose actions are used for what happens on the nodes.

**`LogShipping`** - the log of one job. A byte is known by its node and position;
the worker's `offset`, `path` and `leftover` are `_log_offsets`, `_log_paths` and
`_pending_logs`; the control plane keeps a text and its `end`. `Ingest` and
`IngestText` are the two branches of `ingest_job_log`, chunk by offset and text by
containment; `Shown` is `get_job_log` with its preference for a longer local file.
The job's record is reduced to where it is active.

**`Policy`** - windows in ticks of a week, presets, profiles, the latch; patches
with good and bad values (`Refused`, `Reached`: what takes effect of a patch that
raises halfway), `stop_all` in its two steps with a possible restart in between,
and a restart that applies the saved override to the file's policy and adds the
presets. `gpus` stands for the keys that keep a patch from bringing in the whole
profile of its aggressiveness (`max_troiani_gpus`, `memory_busy_gb`), `jobs` for
those that do not (`max_jobs`, `cooldown_s`). In `Control` the same gate is open or
closed at will.

**`Checkpoints`** - the directory of one run: which final directories are absent,
unmarked or valid, which `.tmp` directories are partial or whole, and the two
processes that save, step by step (`SaveBegin` ... `GcSweep`). Listing and
deleting of a collection are separate steps, in the trainer and the writer; the
control plane's own collection is one step. An exception in the writer is not
noticed, one in the trainer ends it.

The `MC` modules give constants their values and limit how many *disturbances*
a behaviour has; what is quiet in a run stays free. `Kinds` names the sorts of
disturbance the run lets in.

## 3. The runs

| Run | Question | Bounds |
|---|---|---|
| `control_two_jobs` | do two jobs ever get the same device, keep what they should have given back, or leave records at odds when nodes fall silent; does the control plane keep `Leases`? | 2 jobs, 2 nodes with a device each; any 2 requests, reports, restarts or clock steps |
| `control_one_job` | is a background handler ever refused, are placements whole, does anything come back from its end? | 1 job that wants 2 devices, with a limit, no cooldown, rollback and every content of a run directory; any 4 disturbances |
| `platform_devices` | do two trainers ever share a device; does a trainer beside a researcher leave? | 2 jobs, one with a limit, 1 device; cooldowns end at any time; any 3 of people, drains, limits that run out, failed calls, restarts of the control plane, crashes, anomalies, partition releases |
| `platform_records` | does a trainer run where the records say; is every step of the platform a step of `Control`? | 1 job, 2 nodes; cooldowns end at any time; any 2 disturbances of all kinds but the limit |
| `races_heal` | what can handlers that overlap do to the records, and does the platform find its way back? | 1 node, 1 device; 2 jobs and any 2 arrivals or departures of researchers, or 1 job and any 2 of these, preemptions, crashes and cooldowns that end early, or 1 job and a kill, cancel or resume at any moment |
| `logs_shipped` | is the log shown once, in order, without gaps and in the end? | 2 nodes (one shares its files with the control plane), 5 bytes a file, chunks of 2, tails of 4, a kept log of 6; any 2 mishaps |
| `policy_kept` | is the gate the calendar's, and what is in force after restarts and refused patches? | weeks of 7 days of 5 ticks, 11 patches, any 4 requests, restarts at will |
| `checkpoints_kept` | does the newest step ever go back, does a trainer that is asked to leave? | 3 steps, one save per step, 1 regular and 1 best kept; any 2 crashes, anomalies or collections, signals free |

Why these are enough to be of use: the conflicts are between two jobs, or two
nodes, or two processes; each needs one or two failures at the wrong moment,
and all moments are tried. Two devices and a job that wants one leave room for a
double allocation through a wrong choice; one device forces jobs to take turns.
The metric of `checkpoints_kept` falls and rises, so that the best, the latest
and the last regular checkpoint are different ones. In `logs_shipped` a file is
longer than two chunks, so that a chunk can straddle what is there, two files are
longer than the kept log, and a tail covers a whole file or all but its first byte. In `policy_kept` a day
has room for windows that touch, overlap, run overnight and leave a tick out. In
`races_heal` trainers may post a metric at any time and one checkpoint each: the
handler of a later one writes what it writes for a metric. Deadlock is checked in
every run. For each property a seeded fault, a small plausible mistake beside the
definition it replaces (`...Forgetful`, `...Unreleased`, ...), makes the run fail.

**What the runs with failures do not cover.** `OneTrainerIfSettled` and
`RecordsIfSettled` say that `OneTrainerPerDevice` and `TrainersMatchRecords` hold
until the first step after which a trainer may go on that no record knows of:
cancel and pause, resume, anomalies, silence, partition releases, restarts of
workers, a run-out limit, or a placement that overtakes the exit before it
(`Overtaken`). Cancelling a job, and pausing one that has not started,
frees the device records while a trainer may still be on the device, and a
restarted or reclaimed worker keeps trainers that no record names: with these
steps the two are false (see section 5). After a placement that overtook an exit they
are false as well: without this condition TLC finds two trainers on a device in
`platform_devices` and a trainer off the record in `platform_records`. `YieldsInTime`
is `Yields` of the behaviours in which this never happens. The code does not keep it
from happening: `update_policy` takes any `cooldown_s` from 0 up
(`service.py:817-824`), the profile `extreme` sets 5 s, and between a heartbeat and
its reaps the worker validates checkpoints and makes posts that may each wait out
10 s (`worker.py:211-260`). A deployment is within the condition if its cooldown is
longer than that takes. `OneTrainerUndisturbed` and `QuietAgrees`
are, in the same way, about histories in which nobody but workers and trainers
calls, no trainer dies midway, and no cooldown ends during a request or before the
reap of the exit it began with (`EndsEarly`); with an operator as a third party the races of
section 5 break them. `EachByteOnce` allows every mishap as long as no exit report
is read for its text, or such reports and nothing else while each file fits into the
tail that is read (`Covered`); `GaplessIfHeard` and `ShownInTheEnd` end with the
first lost answer, restart of a worker or made-up exit.

### Fairness

Safety runs have none. For `YieldsInTime`, `platform_devices` assumes that a worker's loop goes on
(`run_forever` catches what a round raises and sleeps), and that a trainer that
has been asked, or has seen an anomaly, leaves at the end of its step, also when
its worker has forgotten it. Nothing makes a trainer finish, a call succeed or a
person leave. Calls may fail, but only MaxDisturbances times: what is shown is
that finitely many failures do not lose the request to leave for good.
`races_heal` assumes that every thread that serves a request gets its turns, that
a worker's loop goes on, and that a trainer that was asked to leave does so once
its posts are answered; the last is strong fairness, since the trainer may be
between posts only now and then (it looks at its flag after each of them).
`logs_shipped` assumes that a worker goes on with heartbeats, of which at most
two go unanswered, and reaps what has ended; writing, ending and starting are not
assumed. `checkpoints_kept` assumes that processes that are alive go on; a save
may fail or be killed at every step. `policy_kept` has no fairness.

## 4. What is proved

TLAPS proves, for any number of jobs, devices and nodes (one node for
overlapping handlers), any limits, caps and
reports, for any length of a day, windows, presets and patches, for runs of any
length and retention, and for files, chunks, tails and logs of any size:

| Theorem | Statement |
|---|---|
| `TypeCorrect` | every reachable store has the shape the code gives it |
| `Exclusivity` | no two active jobs list the same device (`NoDoubleAllocation`) |
| `Agreement` | a device an active job lists is claimed by that job or nobody (`ClaimsAgree`) |
| `Wholeness` | an active job has all it wants, fit for it, on its node (`PlacedWhole`) |
| `NothingLeaks` | no claim of a job that is over or failed (`NoClaimOfTheDead`) |
| `Finality` | completed and cancelled jobs stay so (`NoResurrection`) |
| `ResearchersFirst` | a job with a researcher on a device stays asked to leave (`EvictionRequested`) |
| `SweepsAreComplete` | a sweep leaves nothing on a silent node (`SweepIsComplete`) |
| `ControlKeepsLeases` | `Control` implements `Leases` |
| `PlatformImplementsControl` | `Platform` implements `Control` |
| `HandlersFinish` | the walks of background handlers are all in the table (`HandlersNeverRaise`) |
| `FailuresAreKept` | a failed job is queued again on request only (`FailuresStay`) |
| `PlatformExclusivity` | hence no double allocation in the platform's records |
| `PlatformTypes` | workers, trainers, inboxes and strays have the shape the code gives them |
| `OneTrainer` | settled and not overtaken, no device has trainers of two jobs (`OneTrainerIfSettled`) |
| `TrainersOnRecord` | settled and not overtaken, trainers run where the records say (`RecordsIfSettled`) |
| `TrainersUndisturbed` | one worker, undisturbed, cooldowns that outlast the reap: overlapping handlers never put two jobs' trainers on a device (`OneTrainerUndisturbed`) |
| `RecordsAgreeAtRest` | and, on the same conditions, the records agree whenever no request is under way (`QuietAgrees`) |
| `NothingNewestIsLost` | the step to start from never goes back (`NewestKept`) |
| `LogTypes` | offsets, leftovers and the kept log stay within their bounds |
| `EveryByteOnce` | a log never repeats itself or runs backwards (`EachByteOnce`) |
| `NothingMissing` | nor has it gaps, while every answer is heard (`GaplessIfHeard`) |
| `WindowCalendar` | `window_contains` says what the calendar of a window says |
| `PolicyTypes` | policies in force, saved and answered are well formed |
| `GateIsCalendar`, `GateEdges` | the gate follows the calendar (`GateMatchesCalendar`, `GateMovesAtEdges`) |
| `AnswersSurvive`, `StopHolds` | what was answered outlives restarts, stops hold (`AnswersOutliveRestarts`, `AnsweredStopHolds`) |

**Assumptions.** Those the modules name (`JobsAssumption`, `GpusAssumption`, ...):
a finite set of devices, each on a node, at least one job, jobs that want at
least one device. `Exclusivity`, `Agreement`, `ControlKeepsLeases` and
`PlatformExclusivity` also assume `Limited = {}`, that no job has a wall-clock
limit. This is not for the proof's convenience. A job past its limit loses the
reservation of its devices in the pass that asks it to leave (`Reserved`,
`scheduler.py:30-62`); the claim in the device record still protects them, but
a researcher's report wipes that claim. So a researcher who comes and goes while
an overdue job is leaving makes its devices look free, and the pass gives them
away.

`TrainersUndisturbed` and `RecordsAgreeAtRest` assume `Node = {n1}`, one worker, and
`Cools`, that a cooldown takes time; nothing on limits. `OneTrainer` and
`TrainersOnRecord` assume nothing on cooldowns: a cooldown of zero that leads to a
placement before the reap ends the settled history.

**The argument.** `NoDoubleAllocation` is not inductive. Placement picks among
devices that look free, and what makes a device of an active job look taken is
its reservation through the job's own list or the claim in its record. The
invariant is

    Sound(s) == Tidy(s) /\ Exclusive(s) /\ Agreed(s) /\ Punctual(s)
    Tidy(s)  == Whole(s) /\ Lively(s)

`Agreed`: nobody else claims a device of an active job, so no release for
another job can free it. `Punctual`: no job is overdue, so the reservation is
never lifted but for victims, whose devices carry a researcher. `Whole` and
`Lively` need no assumption on limits and are proved separately (`Tidiness`).
Most pieces of handlers only *recede*: jobs leave the active states or stay as
they are, claims are dropped or kept. `Recedes` composes, so one lemma per piece
(`TellSafe`, `ReleaseSafe`, `PreemptSafe`, `ReclaimSafe`, `JobExitsSafe`, ...)
and `RecedingIsSound` settle every handler but placement. `AllocateCarries` is
the other half: what a pass hands out is `Idle`, hence disjoint from what active
jobs hold (`IdleIsFree`), and disjoint among the jobs of the pass. `NextHolds`
puts one step per action together.

`EvictionRequested` needs `Tidy` only, hence no assumption on limits. A report may
break it, so a heartbeat is not argued step by step: `TickUrges` says that a pass
establishes it from any tidy store. Victims are looked for on living nodes alone;
that is enough because the sweep before it has taken every job off the silent ones
(`ReclaimShape`), and because a job's devices are all on the node it is assigned to
(`Whole`). What is placed is placed where no researcher is seen. All other pieces of
handlers only *let go* (`Stays`): they take no request back and report no researcher.

`FailuresStay` and `SweepIsComplete` need no more than `TypeOK`: each piece of a
handler leaves a failed job failed, or finds out that it had finished, because
passes place only what waits, victims and orphans are active, and `_finish_preempt`
requeues only what still looks as if it ran.

`ControlKeepsLeases` uses the invariant in both states of a step.
`PlatformImplementsControl` needs none: each step of a worker or trainer is a
handler with particular inputs or leaves `vars` alone. Its assumption
`Interfaces`, also that of the theorems about trainers, says that the inputs Control
allows include what discovery and run directories can report.

*Trainers.* `SettledProofs` shows both `...IfSettled` properties from one invariant,
`Followed`: no strays, no silent nodes, no placement that overtook an exit, `Sound`,
and for every job and node `Matched`. A living trainer is where the record says
(`Trained`). An order to start, in a queue or in an inbox, is for a job that still
waits for it on exactly those devices, is the only one of its job, and comes when no
trainer of the job lives anywhere (`Awaited` and the last conjuncts); without that a
START delivered late would put a second trainer beside the first. Inboxes hold
orders to start only while they are applied (`Applied`). An exit may be reported
long after it was made up, and closes whatever attempt it finds; `~Overtaken` is what
makes this harmless, since then the job it finds is at rest, or is still the one that
ended (`EndedRests`, `EndedInTime`). Most pieces of handlers are *calm*: they neither
place a job nor end or start its run, and keep `Matched` whatever the processes are
(`CalmMatched`). The rest is three lemmas: a pass queues a START for exactly the jobs
it places (`AllocateMatched`, from `Sound` and `PassShape`), exits close the job
before its process is struck off the list (`ExitsMatched`), a worker applies an
answer of any length order by order (`ApplyMatched`). `Limited = {}` is not assumed
here: a limit that runs out is one of the steps that end a settled history.

*Checkpoints.* The invariant of `NewestKept` is about where the saving process is:
only one of trainer and writer saves at a time (`OneSaver`); between the `rmtree` and
the rename there is nothing under the name (`Vacated`); and what a retention has
decided to keep still contains the last of the list when it deletes the rest
(`Current`), though the control plane may have collected since. `KeepsTop` is what
all three ways of deleting have in common. The list is ordered by step and kind,
hence totally (`ListIsTotal`), so its last entry has the newest step.

*Logs.* Two statements about the kept text hold side by side. Until a report is read
for its text, the bytes of a node ascend in it and none lies beyond the end that the
record counts (`Ordered`): a chunk is appended only if it begins at that end or after
it. And in a history in which all was heard, one node alone has written and the text is
a run of its consecutive bytes (`IsRun`) up to the worker's own offset, or up to the
end of its file once a report was read (`Shipped`). A cut at `LogCap` disturbs neither,
because it takes bytes away at the front. `Kept` says that an offset never passes the
end of its file and that leftovers begin at the offset. No bound on mishaps is used.

*Recursion.* A worker goes through an answer order by order (`Obeying`, a recursive
function on the positions of the queue). That the function exists, and that a set no
order leads out of is not left by any queue (`ObeyingDefined`, `ObeyingStays`), is shown
by induction on sets of naturals (`NatSets`), which the library's theorem on least
elements of well-founded orders (`WFMin`) yields without an operator as a parameter.

*Overlapping handlers.* `ThreadsProofs` takes what is left of a request as part of
the state. What the job records say at a given moment is worth little, since a list of
writes may be half done; what counts is the record that the worker's thread *will*
leave, its last write or, without one, what is on record (`Outcome`). The invariant
`Good` is `Control`'s own exclusivity, agreement of claims and `Awaited` said of
outcomes: those of two jobs are apart (`Apart`), a claim is for a job that will hold
the device or is about to be dropped (`Claimed`), an order to start goes to a job that
will wait on exactly those devices and has no process (`Fair`), and the outcome for a
job with a trainer is the trainer's (`Life`). Three facts make it inductive. While a
trainer lives, every write of either thread to its job's record names the trainer's
devices and an active state, so the order in which the two threads write does not
matter. A trainer waits for its posts and the worker drops a process before it reports
the exit, so nothing of the trainer's is left when exit, release and requeue
begin. And the steps of a round come in an order (`InOrder`): what reconciliation and
a pass read at their start (`Current`) still holds, up to records of one and the same
trainer, when they decide on it. `Keep` composes for one job as `Recedes` does for
handlers: one lemma per kind of step shows that its splice into the list keeps the
outcomes, and the state level (`DeskServes`, `BenchServes`, `WorkerMoves`,
`TrainerMoves`) only fits those lemmas to the actions. The fold of `FlattenSeq`, with
which a pass joins the steps of all jobs it places, is unrolled with `NatSets` as well.
The theorems are about `MCSpec`, since `settled` is a history variable of `MCThreads`;
its bounds on disturbances are not used, any number of jobs and devices is covered,
and the hypothesis `Node = {n1}` is what the properties need: two workers mean two
passes that overlap, which section 5 shows to give one device to two jobs.

**Only model-checked**: Liveness (`YieldsInTime`, `Heals`, `ShownInTheEnd`, `LeavesWhenAsked`)
is out of the prover's reach, ENABLED with it. The four properties that the code
violates are refuted on the instances of their runs, which is all a refutation needs.
No module here declares a RECURSIVE operator.

## 5. What was found

Four runs end in a counterexample, each against a sentence of the documentation:

* `caps_exceeded` - one pass admits every job against those that ran before it,
  so `max_jobs` and `max_troiani_gpus` do not cap what a pass starts
  (`docs/policy.md:10-11`).
* `anomaly_completed` - the trainer exits with code 0 after an anomaly, and the
  exit turns the paused job into completed work (`docs/usage.md:43`).
* `yield_after_silence` - a worker that falls silent for longer than 45 s but
  less than 90 s comes back with a trainer that no record names; nobody asks it
  to leave (`docs/setup.md:48`).
* `checkpoint_replaced` - a save over a checkpoint of the same name is not
  atomic: a crash in the middle loses the checkpoint that the DONE file names
  (`.agents/SPEC.md:19`).

Met while modelling, and not given runs of their own:

* A job that is placed again before the exit of its last trainer is reaped loses
  its record, against `README.md:41` of the repository ("Researcher-first ..."). A
  heartbeat that does not list a trainer any more makes its exit up and starts the
  cooldown (`service.py:678`); if that ends first, another node's heartbeat or a
  submit's pass places the job, and the late report of the same exit, which carries
  no number of an attempt, requeues it and frees its device with the new START still
  queued. The trainer starts all the same, off the record: nobody asks it to leave
  for a researcher, and another job may get its device. TLC finds this in
  `platform_devices` with `Yields` in place of `YieldsInTime`.
* A cooldown never protects a just-released device, against `docs/policy.md:15`:
  the stamp is written together with the empty device list, and both users of
  the stamp look for devices in that list.
* Cancelling frees the device records before the trainer has left, and so does
  pausing a job whose first metric has not arrived: the next pass may start
  another trainer beside it (`service.py:142`, `:157`).
* The STOP of a cancelled job is sent once. Lost with its answer, it is never
  repeated, and the trainer stays beside whoever comes (`service.py:517`).
* A START that is lost leaves its job SCHEDULED until somebody intervenes.

*Handlers that overlap* (`Threads`, with requests of people beside workers):

* A preemption that reads a job between the writes of `_allocate` (it is SCHEDULED
  and names no node yet) writes that record back. If the trainer then dies before
  its next post and a checkpoint post comes late, the job sits in CHECKPOINTING
  without a worker for ever, which the docstring at `service.py:446` says does not
  happen. `Heals` is therefore about jobs whose record names a node.
* A cancel that races with a pass: the START goes out all the same, the trainer of
  a CANCELLED job trains on, and nobody asks it to leave for a researcher.
* The late write of a preemption brings back a job that has failed or completed
  meanwhile, as SCHEDULED and with its devices, which may have been lent again.
* A device report that was read before a cancel writes the claim of the cancelled
  job back: the device is lost to other jobs.
* Two passes that overlap (a submit or resume and a heartbeat) place one job twice
  or give one device to two jobs.

*Logs* (`LogShipping`), against `.agents/IMPROVEMENT_LOG.md:84`, "Failed heartbeats
do not advance the offset (no silent gaps). Reap flushes leftover bytes.":

* After a lost answer the next chunk begins where the first did and may be longer.
  `ingest_job_log` drops it, since it begins before the end, and answers; the worker
  counts all of it as shipped, so the part beyond is never shown. The same happens
  to the first chunks of a worker that was restarted.
* An exit made up by a heartbeat appends a notice, and an exit report more than
  4000 bytes long appends a tail; both move the end, and the next attempt's first
  chunk begins before it and is dropped. A job that moves to another node has its
  log there dropped until it is longer than the old one.
* What a trainer writes after its worker gave it up in a partition is not shipped.

*Policy* (`Policy`):

* Windows end at hh:mm:00 inclusive, so that the presets from 00:00 to 23:59 are
  closed for the last 59 seconds of a day.
* A malformed time or timezone is accepted and saved, then raises in every pass:
  heartbeats fail and no worker gets its actions.
* A stop-all that is cut off between releasing the jobs and saving is forgotten by
  a restart; a refused patch leaves the keys before the bad one in force, unsaved.
* `{"aggressiveness": "low", "max_jobs": 8}` sets `max_jobs` to the profile's value.

## 6. What is left out

* *Overlapping handlers* of pauses, drains, anomalies, policy changes and sweeps of
  silent workers, lost calls and several nodes at once, in `Threads`; a trainer has
  one post under way at a time, and whether a researcher was seen on a device is
  not carried from one record of it into the next claim.
* *The length of a cooldown*: in `Control` and `Platform` it ends at any time. In
  `Threads` it ends early in histories of one job only.
* *Delays between gathering and delivering a heartbeat*, and a partition that
  outlasts several calls of one round: a heartbeat is gathered and handled in
  one step.
* *Starts that fail* (`OSError`) and signals that reach a trainer before its
  handlers are installed: to the records they look like a lost START and a crash.
* *Log text* as it is decoded: bytes are told apart, so that containment of a text
  in another is by position; files that shrink or vanish.
* *The tail of an appended log* of an earlier attempt, and run directories that
  control plane and worker share, in `Platform`; `Control` lets the reports say
  anything these could make them say.
* In `Checkpoints`: a writer that outlives its trainer into the next attempt, a
  collection of the control plane with an old listing, directories on different
  nodes, half-deleted directories, contents.
* In `Policy`: changes of summer time, malformed times, the other caps, which are
  set and saved like `jobs` and `gpus`.
* The health monitor (floating point series; an anomaly may come at any step of a
  trainer), intents, hyperparameter and template bookkeeping, events, statistics,
  lineage, tracking, the command line, the dashboard, the simulated cluster and the
  benchmarks: parsing, presentation, write-only sinks and test support.

## 7. Plan

Written, in this order: `JobStates`, `Scheduler`, `Control` with its runs;
`ControlProofs`; `Leases` with its mapping; `Platform`, `PlatformProofs`;
`Checkpoints`; `LogShipping`; `Policy` and `PolicyProofs`; `Threads`;
`EvictionProofs`; `SettledProofs`, `CheckpointsProofs` and `LogShippingProofs`;
`ThreadsProofs`.

To come:

1. `Checkpoints`: writers that overlap the next attempt, a stale listing in the
   control plane, one directory per node, and the composition with `Control`'s
   `RunDir`, so that a verdict on an exit rests on the files a trainer leaves.
   Abstract specification: a run has a resumable step that only grows.
2. `Threads`: an abstract specification that says which of `Control`'s promises
   survive races, and pauses and sweeps among the requests.
3. Delayed heartbeats in `Platform`.
4. Theorems: what `YieldsInTime` rests on as a safety property, that a trainer beside a
   researcher is on record or asked already.
