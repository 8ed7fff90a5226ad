------------------------------- MODULE Policy -------------------------------
(***************************************************************************)
(* The policy operators change while the platform runs: time windows         *)
(* (policy/windows.py), caps, aggressiveness and the STOP ALL latch, how a    *)
(* patch is applied and saved, and what is in force after a restart of the    *)
(* control plane (control/service.py, config.py).                            *)
(*                                                                         *)
(* Time is local time, in ticks of a week; a tick stands for the second at    *)
(* which a window starts or ends or for the time between two of them.  `gpus` *)
(* stands for max_troiani_gpus and memory_busy_gb, which keep a patch from    *)
(* bringing in the whole profile of its aggressiveness; `jobs` for max_jobs   *)
(* and cooldown_s, which do not.                                             *)
(***************************************************************************)
EXTENDS Integers

CONSTANTS
  DayTicks,  \* ticks of a day
  Malformed, \* a row that TimeWindow.from_mapping refuses
  Filed,     \* the policy of config/platform.yaml
  Presets,   \* default_presets
  Patches    \* what PUT /v1/policy is called with

Day  == 0..6   \* _WEEKDAYS, from monday
Tod  == 0..(DayTicks - 1)

\* An aggressiveness may be any string; "other" is one without a profile.
Level == {"low", "mid", "extreme", "other"}

Window ==
  [name : STRING, start : Tod, stop : Tod, days : SUBSET Day, enabled : BOOLEAN]

PolicyRecord ==
  [gpus : Nat, jobs : Nat, windows : SUBSET Window, level : Level, stopAll : BOOLEAN]

\* A patch has some of the keys of a policy, with values that may be bad.
Value ==
  [gpus |-> Int, jobs |-> Int, windows |-> SUBSET (Window \cup {Malformed}),
   level |-> Level, stopAll |-> BOOLEAN]
IsPatch(f) ==
  /\ f = [k \in DOMAIN f |-> f[k]]
  /\ DOMAIN f \subseteq DOMAIN Value
  /\ \A k \in DOMAIN f : f[k] \in Value[k]

ASSUME DayAssumption     == DayTicks \in Nat \ {0}
ASSUME RowsAssumption    == Malformed \notin Window
ASSUME FiledAssumption   == Filed \in PolicyRecord
ASSUME PresetsAssumption == Presets \subseteq Window /\ \A w \in Presets : ~w.enabled
ASSUME PatchesAssumption == \A patch \in Patches : IsPatch(patch)

VARIABLES
  policy,   \* config.policy, in memory
  saved,    \* kv policy_override; without keys when nothing was ever saved
  answered, \* the policy as the last request that succeeded was answered
  stopping, \* a stop_all has set the latch and is not through
  day, tod  \* the local time

vars == <<policy, saved, answered, stopping, day, tod>>

------------------------------------------------------------------------------
(* The gate.                                                                *)

Previous(d) == (d - 1) % 7
Next7(d)    == (d + 1) % 7

Starts(w, d) == w.days = {} \/ d \in w.days

\* Seeded fault: the morning of an overnight window belongs to its own day.
ContainsToday(w, d, t) ==
  /\ w.enabled
  /\ IF w.start <= w.stop
     THEN Starts(w, d) /\ w.start <= t /\ t <= w.stop
     ELSE Starts(w, d) /\ (t >= w.start \/ t <= w.stop)

\* Seeded fault: the end is exclusive, as for a range.
ContainsExclusive(w, d, t) ==
  /\ w.enabled
  /\ IF w.start <= w.stop
     THEN Starts(w, d) /\ w.start <= t /\ t < w.stop
     ELSE \/ t >= w.start /\ Starts(w, d)
          \/ t < w.start /\ t < w.stop /\ Starts(w, Previous(d))

\* window_contains
Contains(w, d, t) ==
  /\ w.enabled
  /\ IF w.start <= w.stop
     THEN Starts(w, d) /\ w.start <= t /\ t <= w.stop
     ELSE \/ t >= w.start /\ Starts(w, d)
          \/ t < w.start /\ t <= w.stop /\ Starts(w, Previous(d))

\* in_window
InWindow(p, d, t) ==
  /\ ~p.stopAll
  /\ \/ \A w \in p.windows : ~w.enabled
     \/ \E w \in p.windows : Contains(w, d, t)

Open == InWindow(policy, day, tod)

------------------------------------------------------------------------------
(* Patches.                                                                 *)

\* update_policy takes the keys in this order and raises at the first bad value.
Place == [gpus |-> 1, jobs |-> 2, windows |-> 3, level |-> 4, stopAll |-> 5]

\* Seeded fault: a cap may be negative.
RefusedRows(patch) == {k \in DOMAIN patch \cap {"windows"} : Malformed \in patch[k]}

Refused(patch) ==
  {k \in DOMAIN patch \cap {"gpus", "jobs"} : patch[k] < 0}
    \cup {k \in DOMAIN patch \cap {"windows"} : Malformed \in patch[k]}

Reached(patch) == {k \in DOMAIN patch : \A bad \in Refused(patch) : Place[k] < Place[bad]}

\* AGGRESSIVENESS; an unknown level counts as "mid".
Profile == [low |-> 2, mid |-> 4, extreme |-> 6]
Known(level) == IF level \in DOMAIN Profile THEN level ELSE "mid"

\* Seeded fault: a level always brings its profile.
BroughtAlways(patch) == "level" \in Reached(patch)

Brought(patch) == "level" \in Reached(patch) /\ "gpus" \notin DOMAIN patch

Given(p, patch, k) == IF k \in Reached(patch) THEN patch[k] ELSE p[k]

\* What update_policy makes of p, also when it raises in the end.
Applied(p, patch) ==
  LET profile == IF "level" \in DOMAIN patch THEN Profile[Known(patch.level)] ELSE 0
  IN  [gpus    |-> IF Brought(patch) THEN profile ELSE Given(p, patch, "gpus"),
       jobs    |-> IF Brought(patch) THEN profile ELSE Given(p, patch, "jobs"),
       windows |-> Given(p, patch, "windows"),
       level   |-> IF Brought(patch) THEN Known(patch.level) ELSE Given(p, patch, "level"),
       stopAll |-> Given(p, patch, "stopAll")]

\* merge_presets
WithPresets(p) ==
  [p EXCEPT !.windows =
     @ \cup {preset \in Presets : preset.name \notin {w.name : w \in p.windows}}]

\* Seeded fault: the override is written and never read.
ReloadedFile(override) == WithPresets(Filed)

\* A new process: the file, the saved override as a patch, the presets.
Reloaded(override) == WithPresets(Applied(Filed, override))

------------------------------------------------------------------------------
(* Requests.                                                                *)

UpdatePolicy(patch) ==
  /\ policy' = Applied(policy, patch)
  /\ IF Refused(patch) = {}
     THEN saved' = policy' /\ answered' = policy'
     ELSE UNCHANGED <<saved, answered>>
  /\ UNCHANGED <<stopping, day, tod>>

\* stop_all latches and asks every job to leave before it saves and answers.
StopAllLatch ==
  /\ policy' = [policy EXCEPT !.stopAll = TRUE]
  /\ stopping' = TRUE
  /\ UNCHANGED <<saved, answered, day, tod>>

StopAllSave ==
  /\ stopping
  /\ stopping' = FALSE
  /\ saved' = policy
  /\ answered' = policy
  /\ UNCHANGED <<policy, day, tod>>

ResumeAll ==
  /\ policy' = [policy EXCEPT !.stopAll = FALSE]
  /\ saved' = policy'
  /\ answered' = policy'
  /\ UNCHANGED <<stopping, day, tod>>

\* Loading the override saves it again, before the presets are added.
Restart ==
  /\ policy' = Reloaded(saved)
  /\ saved' = IF DOMAIN saved = {} THEN saved ELSE Applied(Filed, saved)
  /\ stopping' = FALSE
  /\ UNCHANGED <<answered, day, tod>>

Tick ==
  /\ tod' = (tod + 1) % DayTicks
  /\ day' = IF tod' = 0 THEN Next7(day) ELSE day
  /\ UNCHANGED <<policy, saved, answered, stopping>>

NoKeys == [k \in {} |-> 0]

Init ==
  /\ policy = WithPresets(Filed)
  /\ saved = NoKeys
  /\ answered = NoKeys
  /\ stopping = FALSE
  /\ day \in Day
  /\ tod \in Tod

Request ==
  \/ \E patch \in Patches : UpdatePolicy(patch)
  \/ StopAllLatch \/ StopAllSave \/ ResumeAll

Next == Request \/ Restart \/ Tick

Spec == Init /\ [][Next]_vars

------------------------------------------------------------------------------
(* Properties.                                                              *)

\* What is in force, saved and answered is a policy with caps that are not negative,
\* also after a patch that was refused halfway (update_policy).
PolicyTypeOK ==
  /\ policy \in PolicyRecord
  /\ saved \in PolicyRecord \/ DOMAIN saved = {}
  /\ answered \in PolicyRecord \/ DOMAIN answered = {}
  /\ stopping \in BOOLEAN /\ day \in Day /\ tod \in Tod

\* The days a window runs over, told by the day it starts on: (d, t) is in the
\* window that starts on s, the same day or the next.
Covers(w, d, t) ==
  \E s \in Day, later \in {0, 1} :
    /\ Starts(w, s)
    /\ d = IF later = 1 THEN Next7(s) ELSE s
    /\ w.start <= t + later * DayTicks
    /\ t + later * DayTicks <= IF w.stop < w.start THEN w.stop + DayTicks ELSE w.stop

\* docs/policy.md: no rows, or none enabled, means any hour, and overnight windows
\* belong to their start day.  The comparisons of window_contains open the gate at
\* exactly the times of the calendar, ends included, and never against the latch.
GateMatchesCalendar ==
  Open <=> /\ ~policy.stopAll
           /\ LET enabled == {w \in policy.windows : w.enabled}
              IN  enabled = {} \/ \E w \in enabled : Covers(w, day, tod)

\* Time alone opens the gate only at the start of an enabled window on one of its
\* days, and shuts it only when one is over: no window opens at midnight because its
\* evening belongs to another day.
GateMovesAtEdges ==
  [][Tick =>
       /\ ~Open /\ Open' =>
            \E w \in policy.windows : w.enabled /\ w.start = tod' /\ Starts(w, day')
       /\ Open /\ ~Open' => \E w \in policy.windows : w.enabled /\ w.stop = tod]_vars

SamePolicy(p, q) ==
  /\ p.gpus = q.gpus /\ p.jobs = q.jobs /\ p.level = q.level
  /\ \A d \in Day, t \in Tod : InWindow(p, d, t) <=> InWindow(q, d, t)

\* Any number of restarts later, the caps and hours in force are those the last
\* accepted change was answered with: reloading the override as a patch brings in
\* no profile, and the presets it adds open and shut nothing.
AnswersOutliveRestarts ==
  DOMAIN answered # {} => SamePolicy(Reloaded(saved), answered)

\* A STOP ALL that was answered shuts the gate at every hour, through restarts and
\* through patches accepted or refused, until a request that clears it is answered.
AnsweredStopHolds ==
  DOMAIN answered # {} => (answered.stopAll => ~Open)

==============================================================================
