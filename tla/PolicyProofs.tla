---------------------------- MODULE PolicyProofs ----------------------------
(***************************************************************************)
(* The properties of Policy, for every length of the day, every file, every   *)
(* set of presets that are off and every set of patches.                     *)
(***************************************************************************)
EXTENDS Policy, TLAPS

LEMMA DayArithmetic ==
  ASSUME NEW d \in Day
  PROVE  /\ Next7(d) \in Day
         /\ Previous(d) \in Day
         /\ \A s \in Day : Next7(s) = d <=> s = Previous(d)
  BY DEF Day, Next7, Previous

\* window_contains opens a window at the times of its calendar: the days it starts
\* on, and for an overnight window the mornings after them.
THEOREM WindowCalendar ==
  ASSUME NEW w \in Window, NEW d \in Day, NEW t \in Tod
  PROVE  Contains(w, d, t) <=> w.enabled /\ Covers(w, d, t)
<1>1. /\ w.start \in Int /\ w.stop \in Int /\ t \in Int /\ DayTicks \in Int
      /\ 0 <= w.start /\ w.start < DayTicks
      /\ 0 <= w.stop /\ w.stop < DayTicks
      /\ 0 <= t /\ t < DayTicks
  BY DayAssumption DEF Window, Tod
<1>2. CASE w.start <= w.stop
  <2>1. Covers(w, d, t) <=> Starts(w, d) /\ w.start <= t /\ t <= w.stop
    BY <1>1, <1>2, DayArithmetic DEF Covers
  <2>2. QED
    BY <2>1, <1>2 DEF Contains
<1>3. CASE ~(w.start <= w.stop)
  <2>1. Covers(w, d, t) <=>
          \/ Starts(w, d) /\ w.start <= t
          \/ Starts(w, Previous(d)) /\ t <= w.stop
    BY <1>1, <1>3, DayArithmetic DEF Covers
  <2>2. QED
    BY <2>1, <1>1, <1>3 DEF Contains
<1>4. QED
  BY <1>2, <1>3

------------------------------------------------------------------------------

Keys == {"gpus", "jobs", "windows", "level", "stopAll"}

LEMMA PolicyKeys ==
  ASSUME NEW p \in PolicyRecord
  PROVE  /\ DOMAIN p = Keys
         /\ p.gpus \in Nat /\ p.jobs \in Nat /\ p.windows \subseteq Window
         /\ p.level \in Level /\ p.stopAll \in BOOLEAN
         /\ p = [gpus |-> p.gpus, jobs |-> p.jobs, windows |-> p.windows,
                 level |-> p.level, stopAll |-> p.stopAll]
  BY DEF PolicyRecord, Keys

\* A whole policy, applied as a patch, replaces whatever was there.
LEMMA WholePatch ==
  ASSUME NEW p \in PolicyRecord, NEW q
  PROVE  Refused(p) = {} /\ Applied(q, p) = p
<1>1. Refused(p) = {}
  BY PolicyKeys, RowsAssumption DEF Refused, Keys
<1>2. Reached(p) = Keys
  BY <1>1, PolicyKeys DEF Reached
<1>3. ~Brought(p)
  BY PolicyKeys DEF Brought, Keys
<1>4. \A k \in Keys : Given(q, p, k) = p[k]
  BY <1>2 DEF Given
<1>5. Applied(q, p) = [gpus |-> p.gpus, jobs |-> p.jobs, windows |-> p.windows,
                       level |-> p.level, stopAll |-> p.stopAll]
  BY <1>3, <1>4 DEF Applied, Keys
<1>6. QED
  BY <1>1, <1>5, PolicyKeys

LEMMA ProfileType == \A level : Profile[Known(level)] \in Nat
  BY DEF Profile, Known

LEMMA AppliedType ==
  ASSUME NEW p \in PolicyRecord, NEW patch, IsPatch(patch)
  PROVE  Applied(p, patch) \in PolicyRecord
<1>1. \A k \in DOMAIN patch : patch[k] \in Value[k]
  BY DEF IsPatch
<1>2. \A k \in Reached(patch) : k \in DOMAIN patch /\ k \notin Refused(patch)
  <2>1. \A k \in DOMAIN patch : k \in Keys
    BY DEF IsPatch, Value, Keys
  <2>2. \A k \in Keys : ~(Place[k] < Place[k])
    BY DEF Keys, Place
  <2>3. QED
    BY <2>1, <2>2 DEF Reached
<1>3. Given(p, patch, "gpus") \in Nat
  BY <1>1, <1>2, PolicyKeys DEF Given, Refused, Value
<1>4. Given(p, patch, "jobs") \in Nat
  BY <1>1, <1>2, PolicyKeys DEF Given, Refused, Value
<1>5. Given(p, patch, "windows") \in SUBSET Window
  BY <1>1, <1>2, PolicyKeys DEF Given, Refused, Value
<1>6. Given(p, patch, "level") \in Level /\ Given(p, patch, "stopAll") \in BOOLEAN
  BY <1>1, <1>2, PolicyKeys DEF Given, Value
<1>7. Brought(patch) => "level" \in DOMAIN patch /\ patch.level \in Level
  BY <1>1, <1>2 DEF Brought, Value
<1>8. Brought(patch) => Known(patch.level) \in Level
  BY <1>7 DEF Known, Level
<1>9. QED
  BY <1>3, <1>4, <1>5, <1>6, <1>7, <1>8, ProfileType DEF Applied, PolicyRecord

LEMMA WithPresetsType ==
  ASSUME NEW p \in PolicyRecord
  PROVE  WithPresets(p) \in PolicyRecord
  BY PresetsAssumption DEF WithPresets, PolicyRecord

\* The presets are off: they open nothing, and a policy without an enabled row has
\* none with them either.
LEMMA PresetsChangeNothing ==
  ASSUME NEW p \in PolicyRecord
  PROVE  SamePolicy(WithPresets(p), p)
<1> DEFINE q == WithPresets(p)
<1>1. /\ q.gpus = p.gpus /\ q.jobs = p.jobs /\ q.level = p.level /\ q.stopAll = p.stopAll
      /\ p.windows \subseteq q.windows
      /\ \A w \in q.windows : w \in p.windows \/ ~w.enabled
  BY PresetsAssumption DEF WithPresets, PolicyRecord
<1>2. ASSUME NEW d \in Day, NEW t \in Tod
      PROVE  InWindow(q, d, t) <=> InWindow(p, d, t)
  BY <1>1 DEF InWindow, Contains
<1>3. QED
  BY <1>1, <1>2 DEF SamePolicy

------------------------------------------------------------------------------
(* What is saved is what was answered, and a latch that was answered is set.  *)

Inv ==
  /\ PolicyTypeOK
  /\ saved = answered
  /\ saved \in PolicyRecord => (saved.stopAll => policy.stopAll)

LEMMA NoKeysIsNoPolicy == DOMAIN NoKeys = {} /\ NoKeys \notin PolicyRecord
<1>1. DOMAIN NoKeys = {}
  BY DEF NoKeys
<1>2. \A p \in PolicyRecord : DOMAIN p # {}
  BY PolicyKeys DEF Keys
<1>3. QED
  BY <1>1, <1>2

LEMMA InitInv == Init => Inv
<1> SUFFICES ASSUME Init PROVE Inv
  OBVIOUS
<1>1. policy \in PolicyRecord
  BY FiledAssumption, WithPresetsType DEF Init
<1>2. QED
  BY <1>1, NoKeysIsNoPolicy DEF Init, Inv, PolicyTypeOK

LEMMA ReloadedType ==
  ASSUME NEW s, s \in PolicyRecord \/ DOMAIN s = {}
  PROVE  Reloaded(s) \in PolicyRecord
<1>1. Applied(Filed, s) \in PolicyRecord
  <2>1. CASE s \in PolicyRecord
    BY <2>1, WholePatch
  <2>2. CASE DOMAIN s = {}
    <3>1. Refused(s) = {} /\ Reached(s) = {}
      BY <2>2 DEF Refused, Reached
    <3>2. Applied(Filed, s) =
            [gpus |-> Filed["gpus"], jobs |-> Filed["jobs"], windows |-> Filed["windows"],
             level |-> Filed["level"], stopAll |-> Filed["stopAll"]]
      BY <3>1 DEF Applied, Given, Brought
    <3>3. QED
      BY <3>2, FiledAssumption, PolicyKeys
  <2>3. QED
    BY <2>1, <2>2
<1>2. QED
  BY <1>1, WithPresetsType DEF Reloaded

LEMMA StepInv == Inv /\ [Next]_vars => Inv'
<1> SUFFICES ASSUME Inv, [Next]_vars PROVE Inv'
  OBVIOUS
<1>0. policy \in PolicyRecord /\ (saved \in PolicyRecord \/ DOMAIN saved = {}) /\ saved = answered
  BY DEF Inv, PolicyTypeOK
<1>1. ASSUME NEW patch \in Patches, UpdatePolicy(patch)
      PROVE  Inv'
  <2>1. policy' \in PolicyRecord
    BY <1>0, <1>1, AppliedType, PatchesAssumption DEF UpdatePolicy
  <2>2. CASE Refused(patch) = {}
    BY <1>0, <1>1, <2>1, <2>2 DEF UpdatePolicy, Inv, PolicyTypeOK
  <2>3. CASE Refused(patch) # {}
    <3>1. "stopAll" \notin Reached(patch)
      <4>1. PICK bad \in Refused(patch) : TRUE
        BY <2>3
      <4>2. bad \in {"gpus", "jobs", "windows"}
        BY <4>1 DEF Refused
      <4>3. ~(Place["stopAll"] < Place[bad])
        BY <4>2 DEF Place
      <4>4. QED
        BY <4>1, <4>3 DEF Reached
    <3>2. policy'.stopAll = policy.stopAll
      BY <1>1, <3>1 DEF UpdatePolicy, Applied, Given
    <3>3. QED
      BY <1>0, <1>1, <2>1, <2>3, <3>2 DEF UpdatePolicy, Inv, PolicyTypeOK
  <2>4. QED
    BY <2>2, <2>3
<1>2. CASE StopAllLatch
  <2>1. policy' \in PolicyRecord /\ policy'.stopAll
    BY <1>0, <1>2 DEF StopAllLatch, PolicyRecord
  <2>2. QED
    BY <1>0, <1>2, <2>1 DEF StopAllLatch, Inv, PolicyTypeOK
<1>3. CASE StopAllSave
  BY <1>0, <1>3 DEF StopAllSave, Inv, PolicyTypeOK
<1>4. CASE ResumeAll
  <2>1. policy' \in PolicyRecord
    BY <1>0, <1>4 DEF ResumeAll, PolicyRecord
  <2>2. QED
    BY <1>0, <1>4, <2>1 DEF ResumeAll, Inv, PolicyTypeOK
<1>5. CASE Restart
  <2>1. policy' \in PolicyRecord
    BY <1>0, <1>5, ReloadedType DEF Restart
  <2>2. saved' = saved
    BY <1>0, <1>5, WholePatch DEF Restart
  <2>3. ASSUME saved \in PolicyRecord, saved.stopAll
        PROVE  policy'.stopAll
    <3>1. SamePolicy(policy', saved) /\ policy' = WithPresets(saved)
      BY <1>5, <2>3, WholePatch, PresetsChangeNothing DEF Restart, Reloaded
    <3>2. QED
      BY <2>3, <3>1 DEF WithPresets, PolicyRecord
  <2>4. QED
    BY <1>0, <1>5, <2>1, <2>2, <2>3 DEF Restart, Inv, PolicyTypeOK
<1>6. CASE Tick
  <2>1. tod' \in Tod /\ day' \in Day
    BY <1>6, DayAssumption, DayArithmetic DEF Tick, Inv, PolicyTypeOK, Tod
  <2>2. QED
    BY <1>0, <1>6, <2>1 DEF Tick, Inv, PolicyTypeOK
<1>7. CASE UNCHANGED vars
  BY <1>0, <1>7 DEF vars, Inv, PolicyTypeOK
<1>8. QED
  BY <1>1, <1>2, <1>3, <1>4, <1>5, <1>6, <1>7 DEF Next, Request

LEMMA Invariance == Spec => []Inv
  BY InitInv, StepInv, PTL DEF Spec

\* Policies stay policies: caps are never negative, rows are readable, also after
\* patches that were refused halfway.
THEOREM PolicyTypes == Spec => []PolicyTypeOK
<1>1. Inv => PolicyTypeOK
  BY DEF Inv
<1>2. QED
  BY <1>1, Invariance, PTL

\* At every time of every behaviour the gate is open exactly when the calendar of
\* the enabled rows, or their absence, says so, and the latch is not set.
THEOREM GateIsCalendar == Spec => []GateMatchesCalendar
<1>1. Inv => GateMatchesCalendar
  <2> SUFFICES ASSUME Inv PROVE GateMatchesCalendar
    OBVIOUS
  <2>1. policy.windows \subseteq Window /\ day \in Day /\ tod \in Tod
    BY PolicyKeys DEF Inv, PolicyTypeOK
  <2>2. \A w \in policy.windows : Contains(w, day, tod) <=> w.enabled /\ Covers(w, day, tod)
    BY <2>1, WindowCalendar
  <2>3. QED
    BY <2>2 DEF GateMatchesCalendar, Open, InWindow
<1>2. QED
  BY <1>1, Invariance, PTL

\* What was answered is in force after any number of restarts.
THEOREM AnswersSurvive == Spec => []AnswersOutliveRestarts
<1>1. Inv => AnswersOutliveRestarts
  <2> SUFFICES ASSUME Inv, DOMAIN answered # {} PROVE SamePolicy(Reloaded(saved), answered)
    BY DEF AnswersOutliveRestarts
  <2>1. saved \in PolicyRecord /\ answered = saved
    BY DEF Inv, PolicyTypeOK
  <2>2. Reloaded(saved) = WithPresets(saved)
    BY <2>1, WholePatch DEF Reloaded
  <2>3. QED
    BY <2>1, <2>2, PresetsChangeNothing
<1>2. QED
  BY <1>1, Invariance, PTL

\* A STOP ALL that was answered holds until it is cleared.
THEOREM StopHolds == Spec => []AnsweredStopHolds
<1>1. Inv => AnsweredStopHolds
  BY DEF Inv, PolicyTypeOK, AnsweredStopHolds, Open, InWindow
<1>2. QED
  BY <1>1, Invariance, PTL

------------------------------------------------------------------------------
(* One tick of the clock.                                                   *)

LEMMA Clockwork ==
  ASSUME NEW t \in Tod
  PROVE  (t + 1) % DayTicks = IF t = DayTicks - 1 THEN 0 ELSE t + 1
  BY DayAssumption DEF Tod

\* In one tick a window is entered only at its start and left only after its end.
LEMMA WindowEdges ==
  ASSUME NEW w \in Window, w.enabled,
         NEW d \in Day, NEW t \in Tod, NEW e \in Day, NEW u \in Tod,
         IF t = DayTicks - 1 THEN u = 0 /\ e = Next7(d) ELSE u = t + 1 /\ e = d
  PROVE  /\ ~Contains(w, d, t) /\ Contains(w, e, u) => w.start = u /\ Starts(w, e)
         /\ Contains(w, d, t) /\ ~Contains(w, e, u) => w.stop = t
<1>1. /\ w.start \in Int /\ w.stop \in Int /\ t \in Int /\ u \in Int /\ DayTicks \in Int
      /\ 0 <= w.start /\ w.start < DayTicks /\ 0 <= w.stop /\ w.stop < DayTicks
      /\ 0 <= t /\ t < DayTicks /\ 0 <= u /\ u < DayTicks
  BY DayAssumption DEF Window, Tod
<1>2. CASE t = DayTicks - 1
  <2>1. Previous(e) = d
    BY <1>2, DayArithmetic
  <2>2. QED
    BY <1>1, <1>2, <2>1 DEF Contains
<1>3. CASE t # DayTicks - 1
  BY <1>1, <1>3 DEF Contains
<1>4. QED
  BY <1>2, <1>3

\* The clock opens and shuts the gate at the edges of the enabled rows only.
THEOREM GateEdges == Spec => GateMovesAtEdges
<1>1. Inv /\ Tick => /\ ~Open /\ Open' =>
                          \E w \in policy.windows :
                            w.enabled /\ w.start = tod' /\ Starts(w, day')
                     /\ Open /\ ~Open' => \E w \in policy.windows : w.enabled /\ w.stop = tod
  <2> SUFFICES ASSUME Inv, Tick
               PROVE  /\ ~Open /\ Open' =>
                           \E w \in policy.windows :
                             w.enabled /\ w.start = tod' /\ Starts(w, day')
                      /\ Open /\ ~Open' => \E w \in policy.windows : w.enabled /\ w.stop = tod
    OBVIOUS
  <2>1. policy.windows \subseteq Window /\ day \in Day /\ tod \in Tod /\ policy' = policy
    BY PolicyKeys DEF Inv, PolicyTypeOK, Tick
  <2>2. IF tod = DayTicks - 1 THEN tod' = 0 /\ day' = Next7(day) ELSE tod' = tod + 1 /\ day' = day
    BY <2>1, Clockwork DEF Tick, Tod
  <2>3. tod' \in Tod /\ day' \in Day
    BY <2>1, <2>2, DayAssumption, DayArithmetic DEF Tod
  <2>4. \A w \in policy.windows : w.enabled =>
          /\ ~Contains(w, day, tod) /\ Contains(w, day', tod') => w.start = tod' /\ Starts(w, day')
          /\ Contains(w, day, tod) /\ ~Contains(w, day', tod') => w.stop = tod
    BY <2>1, <2>2, <2>3, WindowEdges
  <2>5. \A w \in policy.windows : \A d, t : Contains(w, d, t) => w.enabled
    BY DEF Contains
  <2>6. Open' <=> InWindow(policy, day', tod')
    BY <2>1 DEF Open, InWindow
  <2>7. QED
    BY <2>4, <2>5, <2>6 DEF Open, InWindow
<1>2. QED
  BY <1>1, Invariance, PTL DEF GateMovesAtEdges

==============================================================================
