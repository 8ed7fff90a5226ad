--------------------------- MODULE CheckpointsProofs ---------------------------
(***************************************************************************)
(* The newest checkpoint of a run is never lost to retention, to a save that *)
(* fails or dies halfway, nor to a collection in the middle of one: for runs *)
(* and retentions of any size and any number of crashes.                     *)
(***************************************************************************)
EXTENDS Checkpoints, TLAPS, FiniteSetTheorems, WellFoundedInduction

------------------------------------------------------------------------------
(* What a directory d of checkpoints holds.                                  *)

Disks == [Id -> {"none", "bare", "valid"}]

ValidIn(d)  == {i \in Id : d[i] = "valid"}
NewestIn(d) == IF ValidIn(d) = {} THEN 0 ELSE Max({i.step : i \in ValidIn(d)})

\* The last of the list.
Topmost(d, i) == i \in ValidIn(d) /\ \A k \in ValidIn(d) : ~Before(i, k)

\* A set that a sweep may keep without losing the newest.
KeepsTop(d, kept) == \A i \in Id : Topmost(d, i) => i \in kept

Swept(d, kept) == [i \in Id |-> IF i \in kept THEN d[i] ELSE "none"]

\* A set of steps has a greatest one.
LEMMA GreatestStep ==
  ASSUME NEW N \in Nat, NEW S \in SUBSET (0..N), S # {}
  PROVE  Max(S) \in S /\ \A y \in S : y <= Max(S)
<1> DEFINE R == OpToRel(<, Nat)
           T == {N - x : x \in S}
<1>1. IsWellFoundedOn(R, Nat)
  BY NatLessThanWellFounded
<1>2. T \subseteq Nat /\ T # {}
  <2>1. \A x \in S : N - x \in Nat
    OBVIOUS
  <2> QED
    BY <2>1
<1>3. \E x \in T : \A y \in T : ~(<<y, x>> \in R)
  <2> HIDE DEF R, T
  <2> QED
    BY <1>1, <1>2, WFMin
<1>4. PICK x \in S : \A y \in S : ~(<<N - y, N - x>> \in R)
  BY <1>3
<1>5. \A y \in S : x >= y
  <2> TAKE y \in S
  <2>1. ~(N - y < N - x)
    BY <1>2, <1>4 DEF OpToRel
  <2> QED
    BY <2>1
<1>6. x \in S /\ \A y \in S : x >= y
  BY <1>5
<1>7. Max(S) \in S /\ \A y \in S : Max(S) >= y
  BY <1>6 DEF Max
<1> QED
  BY <1>7

\* The newest step is that of a checkpoint, and none has a later one.
LEMMA NewestShape ==
  ASSUME NEW d
  PROVE  /\ NewestIn(d) \in 0..MaxStep
         /\ ValidIn(d) # {} => \E i \in ValidIn(d) : i.step = NewestIn(d)
         /\ \A i \in ValidIn(d) : i.step <= NewestIn(d)
<1> DEFINE S == {i.step : i \in ValidIn(d)}
<1>1. S \in SUBSET (0..MaxStep)
  BY DEF ValidIn, Id
<1>2. CASE ValidIn(d) = {}
  BY <1>2, StepsAssumption DEF NewestIn
<1>3. CASE ValidIn(d) # {}
  <2>1. S # {} /\ NewestIn(d) = Max(S)
    BY <1>3 DEF NewestIn
  <2>2. Max(S) \in S /\ \A y \in S : y <= Max(S)
    <3> HIDE DEF S
    <3> QED
      BY <1>1, <2>1, GreatestStep, StepsAssumption
  <2> QED
    BY <1>1, <2>1, <2>2
<1> QED
  BY <1>2, <1>3

\* No two checkpoints have the same place in the list.
LEMMA ListIsTotal ==
  ASSUME NEW i \in Id, NEW k \in Id, ~Before(i, k), ~Before(k, i)
  PROVE  i = k
<1>1. /\ i.step \in Nat /\ k.step \in Nat /\ i.kind \in Kind /\ k.kind \in Kind
      /\ i = [kind |-> i.kind, step |-> i.step]
      /\ k = [kind |-> k.kind, step |-> k.step]
  BY StepsAssumption DEF Id
<1>2. i.step = k.step
  BY <1>1 DEF Before
<1>3. i.kind = k.kind
  <2>1. /\ Rank["regular"] = 1 /\ Rank["failure"] = 2
        /\ Rank["preemption"] = 3 /\ Rank["shutdown"] = 4
    BY DEF Rank
  <2>2. ~(Rank[i.kind] < Rank[k.kind]) /\ ~(Rank[k.kind] < Rank[i.kind])
    BY <1>2 DEF Before
  <2> QED
    BY <1>1, <2>1, <2>2 DEF Kind
<1> QED
  BY <1>1, <1>2, <1>3

\* The last of the list is one of the newest.
LEMMA TopmostExists ==
  ASSUME NEW d, ValidIn(d) # {}
  PROVE  \E i \in Id : Topmost(d, i) /\ i.step = NewestIn(d)
<1> DEFINE M == {i \in ValidIn(d) : i.step = NewestIn(d)}
           S == {Rank[i.kind] : i \in M}
<1>1. /\ Rank["regular"] = 1 /\ Rank["failure"] = 2
      /\ Rank["preemption"] = 3 /\ Rank["shutdown"] = 4
  BY DEF Rank
<1>2. \A i \in ValidIn(d) : i \in Id /\ i.step \in Nat /\ i.kind \in Kind /\ Rank[i.kind] \in 0..4
  BY <1>1, StepsAssumption DEF ValidIn, Id, Kind
<1>3. M # {}
  BY NewestShape
<1>4. S \in SUBSET (0..4) /\ S # {}
  BY <1>2, <1>3
<1>5. \E m \in S : \A y \in S : y <= m
  <2> HIDE DEF S
  <2> QED
    BY <1>4, GreatestStep
<1>6. PICK i \in M : \A k \in M : Rank[k.kind] <= Rank[i.kind]
  BY <1>5
<1>7. ASSUME NEW k \in ValidIn(d)
      PROVE  ~Before(i, k)
  <2>1. k.step <= i.step /\ k.step \in Nat /\ i.step \in Nat
    BY <1>2, NewestShape
  <2>2. k.step = i.step => Rank[k.kind] <= Rank[i.kind]
    BY <1>6
  <2>3. Rank[k.kind] \in 0..4 /\ Rank[i.kind] \in 0..4
    BY <1>2
  <2> QED
    BY <2>1, <2>2, <2>3 DEF Before
<1> QED
  BY <1>2, <1>7 DEF Topmost

\* As long as one of the newest stays, the newest step does not go back.
LEMMA NewestStays ==
  ASSUME NEW d, NEW e,
         ValidIn(d) # {} => \E i \in ValidIn(d) : i.step = NewestIn(d) /\ i \in ValidIn(e)
  PROVE  NewestIn(e) >= NewestIn(d)
<1>1. /\ NewestIn(d) \in Nat /\ NewestIn(e) \in Nat
      /\ \A i \in ValidIn(e) : i.step <= NewestIn(e)
  BY NewestShape, StepsAssumption
<1>2. CASE ValidIn(d) = {}
  BY <1>1, <1>2 DEF NewestIn
<1>3. CASE ValidIn(d) # {}
  BY <1>1, <1>3
<1> QED
  BY <1>2, <1>3

\* A sweep that keeps the last of the list keeps the newest, and what kept the last
\* of the list before still does.
LEMMA SweepKeeps ==
  ASSUME NEW d, NEW kept, KeepsTop(d, kept)
  PROVE  /\ NewestIn(Swept(d, kept)) >= NewestIn(d)
         /\ \A others : KeepsTop(d, others) => KeepsTop(Swept(d, kept), others)
<1> DEFINE e == Swept(d, kept)
<1>1. ValidIn(e) = ValidIn(d) \cap kept
  BY DEF Swept, ValidIn
<1> HIDE DEF e
<1>2. CASE ValidIn(d) = {}
  <2>1. ValidIn(e) = {}
    BY <1>1, <1>2
  <2> QED
    BY <1>2, <2>1, NewestStays DEF KeepsTop, Topmost, e
<1>3. CASE ValidIn(d) # {}
  <2>1. PICK t \in Id : Topmost(d, t) /\ t.step = NewestIn(d)
    BY <1>3, TopmostExists
  <2>2. t \in ValidIn(d) /\ t \in ValidIn(e)
    BY <1>1, <2>1 DEF Topmost, KeepsTop
  <2>3. NewestIn(e) >= NewestIn(d)
    BY <2>1, <2>2, NewestStays
  <2>4. ASSUME NEW i \in Id, Topmost(e, i)
        PROVE  i = t
    <3>1. ~Before(i, t)
      BY <2>2, <2>4 DEF Topmost
    <3>2. ~Before(t, i)
      BY <1>1, <2>1, <2>4 DEF Topmost
    <3> QED
      BY <3>1, <3>2, ListIsTotal
  <2> QED
    BY <2>1, <2>3, <2>4 DEF KeepsTop, e
<1> QED
  BY <1>2, <1>3

\* Retention keeps the last of the list, and nothing that is not valid.
LEMMA KeptShape == Kept \subseteq Valid /\ KeepsTop(disk, Kept)
<1>1. Valid = ValidIn(disk)
  BY DEF Valid, ValidIn
<1>2. Kept \subseteq Valid
  BY DEF Kept, LastOf, BestOf, OfKind
<1>3. ASSUME NEW i \in Id, Topmost(disk, i)
      PROVE  i \in LastOf(1, Valid)
  <2>1. {k \in Valid : Before(i, k)} = {}
    BY <1>1, <1>3 DEF Topmost
  <2>2. Cardinality({k \in Valid : Before(i, k)}) = 0
    BY <2>1, FS_EmptySet
  <2> QED
    BY <1>1, <1>3, <2>2 DEF LastOf, Topmost
<1> QED
  BY <1>2, <1>3 DEF Kept, KeepsTop

------------------------------------------------------------------------------
(* The invariant.                                                            *)

Stage == {"idle", "join", "begin", "write", "check", "rename", "mark", "list", "sweep"}

Saves == [Saver -> [at : Stage, id : Id]]
Keeps == [Saver -> SUBSET Id]

Shaped ==
  /\ disk \in Disks
  /\ temp \in [Id -> {"none", "partial", "whole"}]
  /\ save \in Saves
  /\ keep \in Keeps
  /\ life \in {"off", "run", "due", "last"}
  /\ step \in 0..MaxStep
  /\ asked \in {"no", "stop", "preempt"}
  /\ done \in [step : 0..MaxStep, preempt : BOOLEAN]

Working(s, p) == s[p].at \notin {"idle", "join"}

\* Only one process saves at a time: the trainer joins its writer before it saves
\* itself, and only saves as the last thing it does.
OneSaver(s, l) ==
  /\ Working(s, "trainer") => s["writer"].at = "idle"
  /\ s["writer"].at # "join"
  /\ s["trainer"].at # "idle" => l = "last"

\* Between making way and the rename there is nothing under the name.
Vacated(d, s) == \A p \in Saver : s[p].at = "rename" => d[s[p].id] = "none"

\* What a collection has found worth keeping still holds the last of the list when
\* it deletes the rest.
Current(d, s, k) == \A p \in Saver : s[p].at = "sweep" => KeepsTop(d, k[p])

Orderly(d, s, k, l) == OneSaver(s, l) /\ Vacated(d, s) /\ Current(d, s, k)

CInv == Shaped /\ Orderly(disk, save, keep, life)

\* What a step must be shown to do.
Advances ==
  /\ CInv'
  /\ Newest' >= Newest \/ \E p \in Saver : At(p, "check") /\ save[p].id.step = Newest

\* The newest step is that of the directory.
LEMMA NewestOfDisk == Newest = NewestIn(disk) /\ Newest' = NewestIn(disk')
BY DEF Newest, NewestIn, Valid, ValidIn

\* It does not go back when the directory is left alone.
LEMMA SameDisk ==
  ASSUME disk' = disk
  PROVE  Newest' >= Newest
<1>1. Newest' = Newest /\ Newest \in 0..MaxStep
  BY NewestOfDisk, NewestShape
<1> QED
  BY <1>1, StepsAssumption

\* While one process saves the other does not.
LEMMA OthersRest ==
  ASSUME NEW s \in Saves, NEW l, OneSaver(s, l), NEW p \in Saver, Working(s, p)
  PROVE  \A q \in Saver \ {p} : ~Working(s, q)
BY DEF OneSaver, Working, Saver

\* A saving process that goes on to another stage, or gives up.
Moved(p, stage) ==
  /\ save' \in Saves
  /\ save'[p].at = stage
  /\ stage # "idle" => save'[p].id = save[p].id
  /\ \A q \in Saver \ {p} : save'[q] = save[q] /\ ~Working(save, q)

\* Going on is that.
LEMMA GoMoves ==
  ASSUME CInv, NEW p \in Saver, Working(save, p), NEW stage \in Stage, Go(p, stage)
  PROVE  Moved(p, stage)
<1>1. save \in Saves /\ save[p] \in [at : Stage, id : Id]
  BY DEF CInv, Shaped, Saves
<1>2. [save[p] EXCEPT !.at = stage] \in [at : Stage, id : Id]
  BY <1>1
<1>3. save' = [save EXCEPT ![p] = [save[p] EXCEPT !.at = stage]]
  BY DEF Go
<1>4. \A q \in Saver \ {p} : ~Working(save, q)
  BY <1>1, OthersRest DEF CInv, Orderly
<1> QED
  BY <1>1, <1>2, <1>3, <1>4 DEF Moved, Saves

\* So is failing.
LEMMA FailMoves ==
  ASSUME CInv, NEW p \in Saver, Working(save, p), Fail(p)
  PROVE  Moved(p, "idle")
<1>1. save \in Saves
  BY DEF CInv, Shaped
<1>2. Idle \in [at : Stage, id : Id] /\ Idle.at = "idle"
  BY StepsAssumption DEF Idle, Stage, Id, Kind
<1>3. \A q \in Saver \ {p} : ~Working(save, q)
  BY <1>1, OthersRest DEF CInv, Orderly
<1> QED
  BY <1>1, <1>2, <1>3 DEF Fail, Moved, Saves

\* A process that moves on keeps the order, if it finds its name vacated before the
\* rename and its list current before the sweep.
LEMMA MovedOrderly ==
  ASSUME CInv, NEW p \in Saver, Working(save, p), NEW stage \in Stage \ {"join"}, Moved(p, stage),
         life' = life \/ (stage = "idle" /\ life' = IF p = "trainer" THEN "off" ELSE life),
         stage = "rename" => disk'[save[p].id] = "none",
         stage = "sweep" => KeepsTop(disk', keep'[p])
  PROVE  Orderly(disk', save', keep', life') /\ life' \in {"off", "run", "due", "last"}
<1>1. \A q \in Saver \ {p} : save'[q] = save[q] /\ save[q].at \in {"idle", "join"}
  BY DEF Moved, Working
<1>2. OneSaver(save, life)
  BY DEF CInv, Orderly
<1>3. OneSaver(save', life')
  <2>1. CASE p = "trainer"
    BY <1>1, <1>2, <2>1 DEF OneSaver, Working, Moved, Saver
  <2>2. CASE p = "writer"
    BY <1>1, <1>2, <2>2 DEF OneSaver, Working, Moved, Saver
  <2> QED
    BY <2>1, <2>2 DEF Saver
<1>4. Vacated(disk', save')
  BY <1>1 DEF Vacated, Moved
<1>5. Current(disk', save', keep')
  BY <1>1 DEF Current, Moved
<1>6. life' \in {"off", "run", "due", "last"}
  BY DEF CInv, Shaped
<1> QED
  BY <1>3, <1>4, <1>5, <1>6 DEF Orderly

------------------------------------------------------------------------------
(* The steps.                                                                *)

\* Writing the temporary directory.
LEMMA WritingAdvances ==
  ASSUME CInv, NEW p \in Saver, SaveBegin(p) \/ SaveWrite(p)
  PROVE  Advances
<1>1. /\ Working(save, p)
      /\ \E stage \in {"write", "check"} : Go(p, stage)
  BY DEF SaveBegin, SaveWrite, At, Working
<1>2. PICK stage \in {"write", "check"} : Moved(p, stage)
  BY <1>1, GoMoves DEF Stage
<1>3. temp' \in [Id -> {"none", "partial", "whole"}]
  BY DEF CInv, Shaped, SaveBegin, SaveWrite
<1>4. UNCHANGED <<disk, keep, life, step, asked, done>>
  BY DEF SaveBegin, SaveWrite
<1>5. Orderly(disk', save', keep', life')
  BY <1>1, <1>2, <1>4, MovedOrderly DEF Stage
<1>6. Shaped'
  BY <1>2, <1>3, <1>4 DEF CInv, Shaped, Moved
<1> QED
  BY <1>4, <1>5, <1>6, SameDisk DEF Advances, CInv

\* Making way for the new directory, the exception.
LEMMA ReplacingAdvances ==
  ASSUME CInv, NEW p \in Saver, SaveReplace(p)
  PROVE  Advances
<1>1. Working(save, p) /\ At(p, "check") /\ UNCHANGED <<temp, keep, step, asked, done>>
  BY DEF SaveReplace, At, Working
<1>2. /\ save[p].id \in Id /\ disk \in Disks
  BY DEF CInv, Shaped, Saves
<1>3. CASE /\ disk' = [disk EXCEPT ![save[p].id] = "none"]
           /\ Go(p, "rename")
           /\ UNCHANGED life
  <2>1. Moved(p, "rename")
    BY <1>1, <1>3, GoMoves DEF Stage
  <2>2. disk' \in Disks /\ disk'[save[p].id] = "none"
    BY <1>2, <1>3 DEF Disks
  <2>3. Orderly(disk', save', keep', life')
    BY <1>1, <1>3, <2>1, <2>2, MovedOrderly DEF Stage
  <2>4. Shaped'
    BY <1>1, <1>3, <2>1, <2>2 DEF CInv, Shaped, Moved
  <2>5. ASSUME save[p].id.step # Newest
        PROVE  Newest' >= Newest
    <3>1. \A i \in ValidIn(disk) : i # save[p].id => i \in ValidIn(disk')
      BY <1>2, <1>3 DEF ValidIn, Disks
    <3> QED
      BY <2>5, <3>1, NewestOfDisk, NewestShape, NewestStays
  <2> QED
    BY <1>1, <2>3, <2>4, <2>5 DEF Advances, CInv
<1>4. CASE Fail(p) /\ UNCHANGED disk
  <2>1. Moved(p, "idle")
    BY <1>1, <1>4, FailMoves
  <2>2. Orderly(disk', save', keep', life') /\ life' \in {"off", "run", "due", "last"}
    BY <1>1, <1>4, <2>1, MovedOrderly DEF Stage, Fail
  <2>3. Shaped'
    BY <1>1, <1>4, <2>1, <2>2 DEF CInv, Shaped, Moved
  <2> QED
    BY <1>4, <2>2, <2>3, SameDisk DEF Advances, CInv
<1> QED
  BY <1>3, <1>4 DEF SaveReplace

\* The rename, to a name under which there is nothing.
LEMMA RenamingAdvances ==
  ASSUME CInv, NEW p \in Saver, SaveRename(p)
  PROVE  Advances
<1>1. Working(save, p) /\ At(p, "rename") /\ UNCHANGED <<keep, step, asked, done>>
  BY DEF SaveRename, At, Working
<1>2. save[p].id \in Id /\ disk \in Disks /\ temp \in [Id -> {"none", "partial", "whole"}]
  BY DEF CInv, Shaped, Saves
<1>3. CASE /\ disk' = [disk EXCEPT ![save[p].id] = "bare"]
           /\ temp' = [temp EXCEPT ![save[p].id] = "none"]
           /\ Go(p, "mark")
           /\ UNCHANGED life
  <2>1. Moved(p, "mark")
    BY <1>1, <1>3, GoMoves DEF Stage
  <2>2. disk' \in Disks /\ temp' \in [Id -> {"none", "partial", "whole"}]
    BY <1>2, <1>3 DEF Disks
  <2>3. Orderly(disk', save', keep', life')
    BY <1>1, <1>3, <2>1, MovedOrderly DEF Stage
  <2>4. Shaped'
    BY <1>1, <1>3, <2>1, <2>2 DEF CInv, Shaped, Moved
  <2>5. disk[save[p].id] = "none"
    BY <1>1 DEF CInv, Orderly, Vacated, At
  <2>6. \A i \in ValidIn(disk) : i \in ValidIn(disk')
    BY <1>2, <1>3, <2>5 DEF ValidIn, Disks
  <2>7. Newest' >= Newest
    BY <2>6, NewestOfDisk, NewestShape, NewestStays
  <2> QED
    BY <2>3, <2>4, <2>7 DEF Advances, CInv
<1>4. CASE Fail(p) /\ UNCHANGED <<disk, temp>>
  <2>1. Moved(p, "idle")
    BY <1>1, <1>4, FailMoves
  <2>2. Orderly(disk', save', keep', life') /\ life' \in {"off", "run", "due", "last"}
    BY <1>1, <1>4, <2>1, MovedOrderly DEF Stage, Fail
  <2>3. Shaped'
    BY <1>1, <1>4, <2>1, <2>2 DEF CInv, Shaped, Moved
  <2> QED
    BY <1>4, <2>2, <2>3, SameDisk DEF Advances, CInv
<1> QED
  BY <1>3, <1>4 DEF SaveRename

\* The mark that makes a checkpoint of it.
LEMMA MarkingAdvances ==
  ASSUME CInv, NEW p \in Saver, SaveMark(p)
  PROVE  Advances
<1>1. Working(save, p) /\ UNCHANGED <<temp, keep, step, asked, done>>
  BY DEF SaveMark, At, Working
<1>2. save[p].id \in Id /\ disk \in Disks
  BY DEF CInv, Shaped, Saves
<1>3. CASE /\ disk' = [disk EXCEPT ![save[p].id] = "valid"]
           /\ Go(p, "list")
           /\ UNCHANGED life
  <2>1. Moved(p, "list")
    BY <1>1, <1>3, GoMoves DEF Stage
  <2>2. disk' \in Disks
    BY <1>2, <1>3 DEF Disks
  <2>3. Orderly(disk', save', keep', life')
    BY <1>1, <1>3, <2>1, MovedOrderly DEF Stage
  <2>4. Shaped'
    BY <1>1, <1>3, <2>1, <2>2 DEF CInv, Shaped, Moved
  <2>5. \A i \in ValidIn(disk) : i \in ValidIn(disk')
    BY <1>2, <1>3 DEF ValidIn, Disks
  <2>6. Newest' >= Newest
    BY <2>5, NewestOfDisk, NewestShape, NewestStays
  <2> QED
    BY <2>3, <2>4, <2>6 DEF Advances, CInv
<1>4. CASE Fail(p) /\ UNCHANGED disk
  <2>1. Moved(p, "idle")
    BY <1>1, <1>4, FailMoves
  <2>2. Orderly(disk', save', keep', life') /\ life' \in {"off", "run", "due", "last"}
    BY <1>1, <1>4, <2>1, MovedOrderly DEF Stage, Fail
  <2>3. Shaped'
    BY <1>1, <1>4, <2>1, <2>2 DEF CInv, Shaped, Moved
  <2> QED
    BY <1>4, <2>2, <2>3, SameDisk DEF Advances, CInv
<1> QED
  BY <1>3, <1>4 DEF SaveMark

\* The listing of what to keep.
LEMMA ListingAdvances ==
  ASSUME CInv, NEW p \in Saver, GcList(p)
  PROVE  Advances
<1>1. /\ Working(save, p) /\ Go(p, "sweep") /\ UNCHANGED <<disk, temp, life, step, asked, done>>
      /\ keep' = [keep EXCEPT ![p] = Kept]
  BY DEF GcList, At, Working
<1>2. Moved(p, "sweep")
  BY <1>1, GoMoves DEF Stage
<1>3. Kept \in SUBSET Id /\ KeepsTop(disk, Kept)
  BY KeptShape DEF Valid
<1>4. keep' \in Keeps /\ keep'[p] = Kept
  BY <1>1, <1>3 DEF CInv, Shaped, Keeps
<1>5. Orderly(disk', save', keep', life')
  BY <1>1, <1>2, <1>3, <1>4, MovedOrderly DEF Stage
<1>6. Shaped'
  BY <1>1, <1>2, <1>4 DEF CInv, Shaped, Moved
<1> QED
  BY <1>1, <1>5, <1>6, SameDisk DEF Advances, CInv

\* The sweep, whatever was collected since the listing.
LEMMA SweepingAdvances ==
  ASSUME CInv, NEW p \in Saver, GcSweep(p)
  PROVE  Advances
<1>1. /\ Working(save, p) /\ At(p, "sweep") /\ Go(p, "idle") /\ UNCHANGED <<life, step, asked, done>>
      /\ keep' = [keep EXCEPT ![p] = {}]
      /\ disk' = Swept(disk, keep[p])
      /\ temp' = [i \in Id |-> "none"]
  BY DEF GcSweep, At, Working, SweepTo, Swept
<1>2. Moved(p, "idle")
  BY <1>1, GoMoves DEF Stage
<1>3. keep' \in Keeps /\ disk' \in Disks
  BY <1>1 DEF CInv, Shaped, Keeps, Disks, Swept
<1>4. temp' \in [Id -> {"none", "partial", "whole"}]
  BY <1>1
<1>5. Orderly(disk', save', keep', life')
  BY <1>1, <1>2, MovedOrderly DEF Stage
<1>6. Shaped'
  BY <1>1, <1>2, <1>3, <1>4 DEF CInv, Shaped, Moved
<1>7. KeepsTop(disk, keep[p])
  BY <1>1 DEF CInv, Orderly, Current, At
<1>8. Newest' >= Newest
  BY <1>1, <1>7, SweepKeeps, NewestOfDisk
<1> QED
  BY <1>5, <1>6, <1>8 DEF Advances, CInv

\* A collection of the control plane, in the middle of a save or not.
LEMMA ControlGcAdvances ==
  ASSUME CInv, ControlGc
  PROVE  Advances
<1>1. /\ disk' = Swept(disk, Kept)
      /\ temp' = [i \in Id |-> "none"]
      /\ UNCHANGED <<save, keep, life, step, asked, done>>
  BY DEF ControlGc, SweepTo, Swept
<1>2. KeepsTop(disk, Kept)
  BY KeptShape
<1>3. Newest' >= Newest
  BY <1>1, <1>2, SweepKeeps, NewestOfDisk
<1>4. disk' \in Disks /\ temp' \in [Id -> {"none", "partial", "whole"}]
  BY <1>1 DEF CInv, Shaped, Disks, Swept
<1>5. Shaped'
  BY <1>1, <1>4 DEF CInv, Shaped
<1>6. \A i \in Id : disk[i] = "none" => disk'[i] = "none"
  BY <1>1 DEF Swept
<1>7. \A p \in Saver : save[p].id \in Id
  BY DEF CInv, Shaped, Saves
<1>8. Vacated(disk', save)
  BY <1>6, <1>7 DEF CInv, Orderly, Vacated
<1>9. Current(disk', save, keep)
  BY <1>1, <1>2, SweepKeeps DEF CInv, Orderly, Current
<1>10. Orderly(disk', save', keep', life')
  BY <1>1, <1>8, <1>9 DEF CInv, Orderly
<1> QED
  BY <1>3, <1>5, <1>10 DEF Advances, CInv

\* A step beside the directory, which starts or ends saves but takes none on.
LEMMA BesideAdvances ==
  ASSUME CInv, Shaped', disk' = disk, OneSaver(save', life'),
         \A p \in Saver : \/ save'[p] = save[p] /\ keep'[p] = keep[p]
                          \/ save'[p].at \in {"idle", "join", "begin"}
  PROVE  Advances
<1>1. Vacated(disk', save') /\ Current(disk', save', keep')
  BY DEF CInv, Orderly, Vacated, Current
<1> QED
  BY <1>1, SameDisk DEF Advances, CInv, Orderly

\* The trainer's own steps.
LEMMA TrainingAdvances ==
  ASSUME CInv, Training \/ TrainerStart \/ TrainerAnomaly \/ (\E kind \in {"stop", "preempt"} : Signal(kind))
  PROVE  Advances
<1>1. /\ save \in Saves /\ keep \in Keeps
      /\ step \in 0..MaxStep
      /\ OneSaver(save, life)
      /\ MaxStep \in Nat
  BY StepsAssumption DEF CInv, Shaped, Orderly
<1> USE DEF CInv, Shaped
<1>2. ASSUME UNCHANGED <<disk, temp, save, keep, done>>,
             step' \in 0..MaxStep, asked' \in {"no", "stop", "preempt"},
             life' = life \/ (life # "last" /\ life' \in {"run", "due"})
      PROVE  Advances
  <2>1. Shaped'
    BY <1>2
  <2>2. OneSaver(save', life')
    BY <1>1, <1>2 DEF OneSaver
  <2> QED
    BY <1>2, <2>1, <2>2, BesideAdvances
<1>3. ASSUME NEW r \in [at : {"idle", "join", "begin"}, id : Id], NEW p \in Saver,
             save' = [save EXCEPT ![p] = r], UNCHANGED <<disk, temp, keep, asked>>,
             step' \in 0..MaxStep, life' \in {"off", "run", "due", "last"},
             done' \in [step : 0..MaxStep, preempt : BOOLEAN], OneSaver(save', life')
      PROVE  Advances
  <2>1. save' \in Saves /\ \A q \in Saver : save'[q] = save[q] \/ save'[q].at \in {"idle", "join", "begin"}
    BY <1>1, <1>3 DEF Saves, Stage
  <2>2. Shaped'
    BY <1>3, <2>1
  <2> QED
    BY <1>3, <2>1, <2>2, BesideAdvances
<1>4. \A k \in Kind, n \in 0..MaxStep : [kind |-> k, step |-> n] \in Id
  BY DEF Id
<1>5. CASE TrainerStep
  BY <1>1, <1>2, <1>5 DEF TrainerStep, InLoop
<1>6. CASE \E kind \in {"stop", "preempt"} : Signal(kind)
  BY <1>1, <1>2, <1>6 DEF Signal
<1>7. CASE TrainerStart
  <2>1. step' \in 0..MaxStep
    BY <1>7, NewestOfDisk, NewestShape DEF TrainerStart
  <2> QED
    BY <1>2, <1>7, <2>1 DEF TrainerStart
<1>8. CASE Submit
  <2> DEFINE r == [at |-> "begin", id |-> [kind |-> "regular", step |-> step]]
  <2>1. r \in [at : {"idle", "join", "begin"}, id : Id] /\ r.at = "begin"
    BY <1>1, <1>4 DEF Kind
  <2>2. save' = [save EXCEPT !["writer"] = r]
    BY <1>8 DEF Submit
  <2> HIDE DEF r
  <2>3. OneSaver(save', life')
    BY <1>1, <1>8, <2>1, <2>2 DEF Submit, OneSaver, Working, Saves, Saver
  <2> QED
    BY <1>1, <1>3, <1>8, <2>1, <2>2, <2>3 DEF Submit, Saver
<1>9. ASSUME NEW kind \in Kind, NEW at \in 0..MaxStep, LastSave(kind, at), life = "run",
             UNCHANGED <<disk, temp, keep, asked, done>>, step' \in 0..MaxStep
      PROVE  Advances
  <2> DEFINE r == [at |-> "join", id |-> [kind |-> kind, step |-> at]]
  <2>1. r \in [at : {"idle", "join", "begin"}, id : Id] /\ r.at = "join"
    BY <1>4
  <2>2. save' = [save EXCEPT !["trainer"] = r] /\ life' = "last"
    BY <1>9 DEF LastSave
  <2> HIDE DEF r
  <2>3. OneSaver(save', life')
    BY <1>1, <2>1, <2>2 DEF OneSaver, Working, Saves, Saver
  <2> QED
    BY <1>3, <1>9, <2>1, <2>2, <2>3 DEF Saver
<1>10. CASE TrainerAnomaly
  BY <1>1, <1>9, <1>10 DEF TrainerAnomaly, InLoop, Kind
<1>11. CASE TrainerLeave
  BY <1>1, <1>9, <1>11 DEF TrainerLeave, Kind
<1>12. CASE JoinWriter
  <2> DEFINE r == [save["trainer"] EXCEPT !.at = "begin"]
  <2>1. save["trainer"] \in [at : Stage, id : Id] /\ "trainer" \in Saver
    BY <1>1 DEF Saves, Saver
  <2>2. r \in [at : {"idle", "join", "begin"}, id : Id] /\ r.at = "begin"
    BY <2>1
  <2>3. save' = [save EXCEPT !["trainer"] = r]
    BY <1>12 DEF JoinWriter, Go
  <2> HIDE DEF r
  <2>4. OneSaver(save', life')
    BY <1>1, <1>12, <2>2, <2>3 DEF JoinWriter, At, OneSaver, Working, Saves, Saver
  <2> QED
    BY <1>1, <1>3, <1>12, <2>1, <2>2, <2>3, <2>4 DEF JoinWriter
<1>13. CASE TrainerExit
  <2>1. Idle \in [at : {"idle", "join", "begin"}, id : Id] /\ Idle.at = "idle"
    BY <1>1, <1>4 DEF Idle, Kind
  <2>2. OneSaver(save', life')
    BY <1>1, <1>13, <2>1 DEF TrainerExit, OneSaver, Working, Saves, Saver
  <2>3. done' \in [step : 0..MaxStep, preempt : BOOLEAN]
    BY <1>1, <1>13 DEF TrainerExit
  <2> QED
    BY <1>1, <1>3, <1>13, <2>1, <2>2, <2>3 DEF TrainerExit, Saver
<1> QED
  BY <1>5, <1>6, <1>7, <1>8, <1>10, <1>11, <1>12, <1>13 DEF Training

\* A crash, of the trainer or of its writer, in the middle of whatever it does.
LEMMA CrashAdvances ==
  ASSUME CInv, TrainerCrash \/ WriterCrash
  PROVE  Advances
<1>1. /\ save \in Saves /\ keep \in Keeps
      /\ OneSaver(save, life)
  BY DEF CInv, Shaped, Orderly
<1>2. Idle \in [at : Stage, id : Id] /\ Idle.at = "idle"
  BY StepsAssumption DEF Idle, Stage, Id, Kind
<1>3. PICK q \in Saver : /\ save' = [save EXCEPT ![q] = Idle]
                         /\ keep' = [keep EXCEPT ![q] = {}]
                         /\ UNCHANGED <<disk, temp, step, asked, done>>
                         /\ life' = IF q = "trainer" THEN "off" ELSE life
  BY DEF TrainerCrash, WriterCrash, Saver
<1>4. save' \in Saves /\ keep' \in Keeps
  BY <1>1, <1>2, <1>3 DEF Saves, Keeps
<1>5. Shaped'
  BY <1>3, <1>4 DEF CInv, Shaped
<1>6. OneSaver(save', life')
  BY <1>1, <1>2, <1>3 DEF OneSaver, Working, Saves, Saver
<1>7. \A r \in Saver : (save'[r] = save[r] /\ keep'[r] = keep[r]) \/ save'[r].at = "idle"
  BY <1>1, <1>2, <1>3 DEF Saves, Keeps
<1> QED
  BY <1>3, <1>5, <1>6, <1>7, BesideAdvances

\* No step of the system takes a checkpoint back.
LEMMA StepAdvances ==
  ASSUME CInv, [Next]_vars
  PROVE  Advances
<1>1. ASSUME NEW p \in Saver, Saving(p)
      PROVE  Advances
  BY <1>1, WritingAdvances, ReplacingAdvances, RenamingAdvances, MarkingAdvances,
     ListingAdvances, SweepingAdvances
  DEF Saving
<1>2. CASE Faults
  BY <1>2, TrainingAdvances, CrashAdvances, ControlGcAdvances DEF Faults
<1>3. CASE UNCHANGED vars
  BY <1>3, SameDisk DEF vars, Advances, CInv, Shaped
<1> QED
  BY <1>1, <1>2, <1>3, TrainingAdvances DEF Next

------------------------------------------------------------------------------

\* An empty directory is in order.
LEMMA InitOrderly == Init => CInv
<1> SUFFICES ASSUME Init PROVE CInv
  OBVIOUS
<1>1. Idle \in [at : Stage, id : Id] /\ Idle.at = "idle"
  BY StepsAssumption DEF Idle, Stage, Id, Kind
<1>2. NoDone \in [step : 0..MaxStep, preempt : BOOLEAN]
  BY StepsAssumption DEF NoDone
<1>3. \A p \in Saver : save[p] = Idle
  BY DEF Init
<1>4. Shaped
  BY <1>1, <1>2, StepsAssumption DEF Init, Shaped, Disks, Saves, Keeps
<1>5. Orderly(disk, save, keep, life)
  BY <1>1, <1>3 DEF Orderly, OneSaver, Vacated, Current, Working, Saver
<1> QED
  BY <1>4, <1>5 DEF CInv

\* The newest step a trainer could start from never goes back, whatever crashes and
\* whoever collects, but while a save replaces that very checkpoint.
THEOREM NothingNewestIsLost == Spec => NewestKept
<1>1. CInv /\ [Next]_vars => CInv'
  BY StepAdvances DEF Advances
<1>2. CInv /\ [Next]_vars =>
        [Newest' >= Newest \/ \E p \in Saver : At(p, "check") /\ save[p].id.step = Newest]_vars
  BY StepAdvances DEF Advances
<1> QED
  BY <1>1, <1>2, InitOrderly, PTL DEF Spec, NewestKept

================================================================================
