--------------------------- MODULE LogShippingProofs ---------------------------
(***************************************************************************)
(* The log that is kept of a job never repeats itself or runs backwards, and *)
(* has no gaps where the code can make it so: for files, chunks, tails and   *)
(* logs of any length, on any number of nodes.                               *)
(***************************************************************************)
EXTENDS MCLogShipping, TLAPS, SequenceTheorems

------------------------------------------------------------------------------
(* Texts.                                                                    *)

Text == Seq(Byte)

\* The end of a text, of at most k bytes.
LEMMA TrailingShape ==
  ASSUME NEW s \in Text, NEW k \in Nat
  PROVE  /\ Trailing(s, k) \in Text
         /\ Len(Trailing(s, k)) = IF Len(s) <= k THEN Len(s) ELSE k
         /\ \A i \in 1..Len(Trailing(s, k)) :
              Trailing(s, k)[i] = s[Len(s) - Len(Trailing(s, k)) + i]
<1>1. Len(s) \in Nat
  BY LenProperties DEF Text
<1>2. CASE Len(s) <= k
  BY <1>1, <1>2 DEF Trailing
<1>3. CASE ~(Len(s) <= k)
  <2> DEFINE m == Len(s) - k + 1
             t == SubSeq(s, m, Len(s))
  <2>1. Trailing(s, k) = t
    BY <1>3 DEF Trailing
  <2>2. m \in Int /\ m \in 1..Len(s) + 1 /\ Len(s) - m + 1 = k /\ (k > 0 => m <= Len(s))
    BY <1>1, <1>3
  <2>3. \A i \in m..Len(s) : s[i] \in Byte
    BY <1>1, <2>2, ElementOfSeq DEF Text
  <2> HIDE DEF m
  <2>4. /\ t \in Text
        /\ Len(t) = IF m <= Len(s) THEN Len(s) - m + 1 ELSE 0
        /\ \A i \in 1..Len(s) - m + 1 : t[i] = s[m + i - 1]
    BY <1>1, <2>2, <2>3, SubSeqProperties DEF Text
  <2> HIDE DEF t
  <2>5. Len(t) = k
    BY <1>1, <1>3, <2>2, <2>4 DEF m
  <2>6. \A i \in 1..k : t[i] = s[Len(s) - k + i]
    BY <1>1, <2>2, <2>4 DEF m
  <2> QED
    BY <1>3, <2>1, <2>4, <2>5, <2>6
<1> QED
  BY <1>2, <1>3

\* The bytes of an item are those of the file that follow its offset.
LEMMA BytesShape ==
  ASSUME NEW n \in Node, NEW item \in Item
  PROVE  /\ Bytes(n, item) \in Text
         /\ Len(Bytes(n, item)) = item.size
         /\ \A i \in 1..item.size : Bytes(n, item)[i] = <<n, item.offset + i>>
<1>1. item.offset \in Nat /\ item.size \in Nat
  BY DEF Item
<1>2. \A i \in 1..item.size : <<n, item.offset + i>> \in Byte
  BY <1>1 DEF Byte
<1> QED
  BY <1>1, <1>2 DEF Bytes, Text

\* u is what is kept of s and t together.
AddedTo(s, t, u) ==
  /\ u \in Text
  /\ Len(u) = IF Len(s) + Len(t) <= LogCap THEN Len(s) + Len(t) ELSE LogCap
  /\ \A i \in 1..Len(u) :
       LET k == Len(s) + Len(t) - Len(u) + i
       IN  u[i] = IF k <= Len(s) THEN s[k] ELSE t[k - Len(s)]

\* A text that is cut after another was added to it.
LEMMA AddedShape ==
  ASSUME NEW s \in Text, NEW t \in Text
  PROVE  AddedTo(s, t, Trailing(s \o t, LogCap))
<1> DEFINE w == s \o t
           u == Trailing(w, LogCap)
           all == Len(s) + Len(t)
<1>1. /\ w \in Text /\ Len(w) = all
      /\ \A i \in 1..all : w[i] = IF i <= Len(s) THEN s[i] ELSE t[i - Len(s)]
  BY ConcatProperties DEF Text
<1>2. Len(s) \in Nat /\ Len(t) \in Nat /\ LogCap \in Nat
  BY LenProperties, SizesAssumption DEF Text
<1> HIDE DEF w
<1>3. /\ u \in Text
      /\ Len(u) = IF all <= LogCap THEN all ELSE LogCap
      /\ \A i \in 1..Len(u) : u[i] = w[all - Len(u) + i]
  <2>1. w \in Text /\ LogCap \in Nat /\ Len(w) = all
    BY <1>1, <1>2
  <2> HIDE DEF all
  <2>2. /\ u \in Text
        /\ Len(u) = IF Len(w) <= LogCap THEN Len(w) ELSE LogCap
        /\ \A i \in 1..Len(u) : u[i] = w[Len(w) - Len(u) + i]
    BY <2>1, TrailingShape
  <2> HIDE DEF u
  <2> QED
    BY <2>1, <2>2
<1> HIDE DEF u
<1>4. \A i \in 1..Len(u) : all - Len(u) + i \in 1..all
  BY <1>2, <1>3
<1>5. \A i \in 1..Len(u) :
        u[i] = IF all - Len(u) + i <= Len(s) THEN s[all - Len(u) + i]
               ELSE t[all - Len(u) + i - Len(s)]
  BY <1>1, <1>3, <1>4
<1>6. AddedTo(s, t, u)
  BY <1>3, <1>5 DEF AddedTo
<1> QED
  BY <1>6 DEF u, w

------------------------------------------------------------------------------
(* Runs: the last bytes of what a node has shipped from the front of its file. *)

\* A text that is the end, as far as it is kept, of the first e bytes at n.
IsRun(s, n, e) ==
  /\ Len(s) = IF e <= LogCap THEN e ELSE LogCap
  /\ \A i \in 1..Len(s) : s[i] = <<n, e - Len(s) + i>>

\* The first f bytes of a file.
Front(f) == [offset |-> 0, size |-> f]

\* The front of a file is an item.
LEMMA FrontShape ==
  ASSUME NEW f \in Nat
  PROVE  Front(f) \in Item /\ Front(f).offset = 0 /\ Front(f).size = f
BY DEF Front, Item

\* The bytes of the front of a file.
LEMMA FrontBytes ==
  ASSUME NEW n \in Node, NEW f \in Nat
  PROVE  /\ Bytes(n, Front(f)) \in Text
         /\ Len(Bytes(n, Front(f))) = f
         /\ \A i \in 1..f : Bytes(n, Front(f))[i] = <<n, i>>
BY FrontShape, BytesShape

\* What follows on a run makes it longer.
LEMMA RunGrows ==
  ASSUME NEW n \in Node, NEW s \in Text, NEW e \in Nat, IsRun(s, n, e),
         NEW item \in Item, item.offset = e
  PROVE  IsRun(Trailing(s \o Bytes(n, item), LogCap), n, e + item.size)
<1> DEFINE t == Bytes(n, item)
           u == Trailing(s \o t, LogCap)
           z == item.size
<1>1. z \in Nat /\ LogCap \in Nat
  BY SizesAssumption DEF Item
<1>2. t \in Text /\ Len(t) = z /\ \A i \in 1..z : t[i] = <<n, e + i>>
  BY BytesShape
<1> HIDE DEF t, z
<1>3. AddedTo(s, t, u)
  BY <1>2, AddedShape
<1> HIDE DEF u
<1>4. Len(u) = IF e + z <= LogCap THEN e + z ELSE LogCap
  BY <1>1, <1>2, <1>3 DEF IsRun, AddedTo
<1> DEFINE y == e + z
<1>5. \A i \in 1..Len(u) : u[i] = <<n, y - Len(u) + i>>
  <2> SUFFICES ASSUME NEW i \in 1..Len(u)
               PROVE  u[i] = <<n, y - Len(u) + i>>
    OBVIOUS
  <2> DEFINE k == Len(s) + z - Len(u) + i
  <2>1. Len(s) \in Nat /\ Len(u) \in Nat
    BY <1>1, <1>4 DEF IsRun
  <2>2. k \in 1..Len(s) + z
    BY <1>1, <1>2, <1>3, <2>1 DEF AddedTo
  <2>3. u[i] = IF k <= Len(s) THEN s[k] ELSE t[k - Len(s)]
    BY <1>2, <1>3 DEF AddedTo
  <2>4. e - Len(s) + k = y - Len(u) + i
    BY <1>1, <2>1
  <2> HIDE DEF k, y
  <2>5. CASE k <= Len(s)
    <3>1. s[k] = <<n, e - Len(s) + k>>
      BY <2>1, <2>2, <2>5 DEF IsRun
    <3> QED
      BY <2>3, <2>4, <2>5, <3>1
  <2>6. CASE ~(k <= Len(s))
    <3>1. k - Len(s) \in 1..z
      BY <1>1, <2>1, <2>2, <2>6
    <3>2. t[k - Len(s)] = <<n, e + (k - Len(s))>>
      BY <1>2, <3>1
    <3>3. e + (k - Len(s)) = y - Len(u) + i
      BY <1>1, <2>1, <2>2, <2>4
    <3> QED
      BY <2>3, <2>6, <3>2, <3>3
  <2> QED
    BY <2>5, <2>6
<1> HIDE DEF y
<1>6. IsRun(u, n, y)
  BY <1>4, <1>5 DEF IsRun, y
<1> QED
  BY <1>6 DEF u, t, y, z

\* The end of the front of a file is a run.
LEMMA FrontRuns ==
  ASSUME NEW n \in Node, NEW f \in Nat
  PROVE  IsRun(Trailing(Bytes(n, Front(f)), LogCap), n, f)
<1> DEFINE t == Bytes(n, Front(f))
           u == Trailing(t, LogCap)
<1>1. t \in Text /\ Len(t) = f /\ \A i \in 1..f : t[i] = <<n, i>>
  BY FrontBytes
<1>2. LogCap \in Nat
  BY SizesAssumption
<1> HIDE DEF t
<1>3. /\ Len(u) = IF Len(t) <= LogCap THEN Len(t) ELSE LogCap
      /\ \A i \in 1..Len(u) : u[i] = t[Len(t) - Len(u) + i]
  BY <1>1, <1>2, TrailingShape
<1> HIDE DEF u
<1>4. \A i \in 1..Len(u) : f - Len(u) + i \in 1..f
  BY <1>1, <1>2, <1>3
<1>5. IsRun(u, n, f)
  BY <1>1, <1>3, <1>4 DEF IsRun
<1> QED
  BY <1>5 DEF u, t

\* A run is part of the file.
LEMMA RunWithin ==
  ASSUME NEW n \in Node, NEW f \in Nat, NEW e \in 0..f, NEW s \in Text, IsRun(s, n, e)
  PROVE  Within(s, Bytes(n, Front(f)))
<1> DEFINE t == Bytes(n, Front(f))
           i == e - Len(s)
           w == SubSeq(t, i + 1, i + Len(s))
<1>1. t \in Text /\ Len(t) = f /\ \A k \in 1..f : t[k] = <<n, k>>
  BY FrontBytes
<1>2. /\ e \in Nat /\ LogCap \in Nat /\ Len(s) \in Nat
      /\ Len(s) = IF e <= LogCap THEN e ELSE LogCap
  BY SizesAssumption, LenProperties DEF IsRun, Text
<1> HIDE DEF t
<1>3. i \in 0..(Len(t) - Len(s)) /\ i + Len(s) = e /\ i \in Int
  BY <1>1, <1>2
<1>4. \A k \in 1..Len(s) : s[k] = <<n, i + k>>
  BY DEF IsRun
<1>5. \A k \in 1..Len(s) : i + k \in 1..f
  BY <1>1, <1>2, <1>3
<1> HIDE DEF i
<1>6. \A k \in (i + 1)..(i + Len(s)) : t[k] \in Byte
  BY <1>1, <1>2, <1>3, ElementOfSeq DEF Text
<1>7. /\ w \in Seq(Byte)
      /\ Len(w) = IF i + 1 <= i + Len(s) THEN i + Len(s) - (i + 1) + 1 ELSE 0
      /\ \A k \in 1..i + Len(s) - (i + 1) + 1 : w[k] = t[i + 1 + k - 1]
  <2>1. i + 1 \in 1..Len(t) + 1 /\ i + Len(s) \in i..Len(t)
    BY <1>1, <1>2, <1>3
  <2> QED
    BY <1>1, <1>2, <1>3, <1>6, <2>1, SubSeqProperties
<1> HIDE DEF w
<1>8. Len(w) = Len(s)
  BY <1>2, <1>3, <1>7
<1>9. ASSUME NEW k \in 1..Len(s)
      PROVE  w[k] = s[k]
  <2>1. w[k] = t[i + 1 + k - 1]
    BY <1>2, <1>3, <1>7
  <2>2. i + 1 + k - 1 = i + k
    BY <1>2, <1>3
  <2>3. t[i + k] = <<n, i + k>>
    BY <1>1, <1>5
  <2> QED
    BY <1>4, <2>1, <2>2, <2>3
<1>10. w = s
  BY <1>7, <1>8, <1>9, SeqEqual DEF Text
<1> QED
  BY <1>3, <1>10 DEF Within, w, t

\* A file that is part of a run is not longer than it.
LEMMA WithinRun ==
  ASSUME NEW n \in Node, NEW f \in Nat, NEW e \in Nat, NEW s \in Text, IsRun(s, n, e),
         Within(Bytes(n, Front(f)), s)
  PROVE  f <= e
<1>1. Len(Bytes(n, Front(f))) = f
  BY FrontBytes
<1>2. Len(s) \in Nat /\ LogCap \in Nat
  BY SizesAssumption, LenProperties DEF Text
<1>3. f <= Len(s)
  BY <1>1, <1>2 DEF Within
<1> QED
  BY <1>2, <1>3 DEF IsRun

\* A run shows a byte of its file, or is full and shows nothing up to there.
LEMMA RunShows ==
  ASSUME NEW n \in Node, NEW e \in Nat, NEW s \in Text, IsRun(s, n, e), NEW k \in 1..e
  PROVE  \/ <<n, k>> \in {s[i] : i \in DOMAIN s}
         \/ Len(s) = LogCap /\ \A m \in 1..k : <<n, m>> \notin {s[i] : i \in DOMAIN s}
<1>1. Len(s) \in Nat /\ DOMAIN s = 1..Len(s) /\ LogCap \in Nat
  BY SizesAssumption, LenProperties DEF Text
<1>2. CASE k <= e - Len(s)
  <2>1. Len(s) = LogCap
    BY <1>1, <1>2 DEF IsRun
  <2>2. ASSUME NEW m \in 1..k, NEW i \in DOMAIN s
        PROVE  <<n, m>> # s[i]
    <3>1. s[i] = <<n, e - Len(s) + i>> /\ e - Len(s) + i # m
      BY <1>1, <1>2, <2>2 DEF IsRun
    <3> QED
      BY <3>1
  <2> QED
    BY <2>1, <2>2
<1>3. CASE ~(k <= e - Len(s))
  <2> DEFINE i == k - (e - Len(s))
  <2>1. i \in 1..Len(s) /\ e - Len(s) + i = k
    BY <1>1, <1>3
  <2> HIDE DEF i
  <2>2. s[i] = <<n, k>>
    BY <2>1 DEF IsRun
  <2> QED
    BY <1>1, <2>1, <2>2
<1> QED
  BY <1>2, <1>3

------------------------------------------------------------------------------
(* Types, and what a worker has read but not shipped.                        *)

\* What a worker keeps for the next heartbeat follows on what it has shipped, and
\* both are in the file.
Kept ==
  \A n \in Node :
    /\ offset[n] <= file[n]
    /\ leftover[n].size > 0 =>
         leftover[n].offset = offset[n] /\ offset[n] + leftover[n].size <= file[n]

\* What a worker reads of a file follows on what it has shipped.
LEMMA DeltaFollows ==
  ASSUME LogTypeOK, Kept, NEW n \in Node
  PROVE  /\ Delta(n) \in Item
         /\ Delta(n).offset = offset[n]
         /\ offset[n] + Delta(n).size <= file[n]
<1>1. offset[n] \in Nat /\ file[n] \in Nat /\ offset[n] <= file[n] /\ ChunkBytes \in Nat
  BY SizesAssumption DEF LogTypeOK, Kept
<1> DEFINE rest == file[n] - offset[n]
           z == IF rest < ChunkBytes THEN rest ELSE ChunkBytes
<1>2. Delta(n) = [offset |-> offset[n], size |-> z]
  BY <1>1 DEF Delta
<1>3. z \in Nat /\ offset[n] + z <= file[n]
  BY <1>1
<1> HIDE DEF z
<1> QED
  BY <1>1, <1>2, <1>3 DEF Item

\* So does what a heartbeat carries.
LEMMA CollectedFollows ==
  ASSUME LogTypeOK, Kept, NEW n \in Node
  PROVE  /\ Collected(n) \in Item
         /\ Collected(n).size > 0 =>
              Collected(n).offset = offset[n] /\ offset[n] + Collected(n).size <= file[n]
<1>1. leftover[n] \in Item
  BY DEF LogTypeOK
<1> QED
  BY <1>1, DeltaFollows DEF Collected, Kept

\* What the control plane does with a chunk and with a text keeps the blob's type.
BlobOK(blob) == blob.text \in Seq(Byte) /\ Len(blob.text) <= LogCap /\ blob.end \in Nat

\* A text that is cut is not longer than the log may be.
LEMMA CutFits ==
  ASSUME NEW s \in Text, NEW e \in Nat
  PROVE  BlobOK([text |-> Trailing(s, LogCap), end |-> e])
<1>1. LogCap \in Nat /\ Len(s) \in Nat
  BY SizesAssumption, LenProperties DEF Text
<1> DEFINE u == Trailing(s, LogCap)
<1>2. u \in Text /\ Len(u) = IF Len(s) <= LogCap THEN Len(s) ELSE LogCap
  BY <1>1, TrailingShape
<1> HIDE DEF u
<1>3. BlobOK([text |-> u, end |-> e])
  BY <1>1, <1>2 DEF BlobOK, Text
<1> QED
  BY <1>3 DEF u

\* Ingest keeps the blob's type.
LEMMA IngestFits ==
  ASSUME NEW blob, BlobOK(blob), NEW n \in Node, NEW item \in Item
  PROVE  BlobOK(Ingest(blob, n, item))
<1>1. blob.text \o Bytes(n, item) \in Text
  BY BytesShape, ConcatProperties DEF Text, BlobOK
<1>2. item.offset + item.size \in Nat
  BY DEF Item
<1> QED
  BY <1>1, <1>2, CutFits DEF Ingest

\* IngestText keeps the blob's type.
LEMMA IngestTextFits ==
  ASSUME NEW blob, BlobOK(blob), NEW s \in Text
  PROVE  BlobOK(IngestText(blob, s))
<1>1. blob.text \o s \in Text
  BY ConcatProperties DEF Text, BlobOK
<1>2. Len(s) \in Nat /\ blob.end \in Nat
  BY LenProperties DEF Text, BlobOK
<1>3. blob.end + Len(s) \in Nat
  BY <1>2
<1>4. (IF Len(s) > blob.end THEN Len(s) ELSE blob.end) \in Nat
  BY <1>2
<1> QED
  BY <1>1, <1>3, <1>4, CutFits DEF IngestText

\* What a heartbeat and an exit report bring is a text.
LEMMA TextsSent ==
  ASSUME LogTypeOK
  PROVE  /\ <<<<"notice", 0>>>> \in Text
         /\ \A n \in Node : Trailing(Bytes(n, [offset |-> 0, size |-> file[n]]), TailBytes) \in Text
<1>1. <<"notice", 0>> \in Byte
  BY DEF Byte
<1>2. ASSUME NEW n \in Node
      PROVE  Trailing(Bytes(n, [offset |-> 0, size |-> file[n]]), TailBytes) \in Text
  <2>1. file[n] \in Nat /\ TailBytes \in Nat
    BY SizesAssumption DEF LogTypeOK
  <2>2. Bytes(n, Front(file[n])) \in Text
    BY <2>1, FrontBytes
  <2> QED
    BY <2>1, <2>2, TrailingShape DEF Front
<1> QED
  BY <1>1, <1>2 DEF Text

\* A heartbeat keeps the types of what it touches at the control plane.
LEMMA HandledFits ==
  ASSUME LogTypeOK, Kept, NEW n \in Node, NEW p, Handled(n, Collected(n), p)
  PROVE  BlobOK(log)' /\ record' \in Node \cup {"idle", "closed"}
<1> DEFINE shipped == Ingest(log, n, Collected(n))
<1>1. BlobOK(log)
  BY DEF LogTypeOK, BlobOK
<1>2. BlobOK(shipped)
  BY <1>1, CollectedFollows, IngestFits
<1> HIDE DEF shipped
<1>3. BlobOK(IngestText(shipped, <<<<"notice", 0>>>>))
  BY <1>2, TextsSent, IngestTextFits
<1>4. BlobOK(log')
  BY <1>2, <1>3 DEF Handled, shipped
<1>5. record' \in Node \cup {"idle", "closed"}
  BY DEF Handled, LogTypeOK
<1> QED
  BY <1>4, <1>5 DEF BlobOK

\* What is committed is in the file, and types are kept.
LEMMA CommittedFits ==
  ASSUME LogTypeOK, Kept, NEW n \in Node, UNCHANGED file, Committed(n, Collected(n))
  PROVE  /\ offset' \in [Node -> 0..MaxBytes] /\ path' \in [Node -> BOOLEAN]
         /\ leftover' \in [Node -> Item] /\ Kept'
<1> DEFINE item == Collected(n)
<1>1. item \in Item /\ (item.size > 0 => item.offset = offset[n] /\ offset[n] + item.size <= file[n])
  BY CollectedFollows
<1> HIDE DEF item
<1>2. CASE item.size = 0
  BY <1>2 DEF Committed, LogTypeOK, Kept, item
<1>3. CASE item.size # 0
  <2>1. item.offset \in Nat /\ item.size \in Nat /\ item.size > 0 /\ file[n] \in 0..MaxBytes
        /\ MaxBytes \in Nat /\ offset[n] \in Nat
    BY <1>1, <1>3, SizesAssumption DEF LogTypeOK, Item
  <2>2. /\ offset' = [offset EXCEPT ![n] = item.offset + item.size]
        /\ leftover' = [leftover EXCEPT ![n] = NoLog]
        /\ path' = [path EXCEPT ![n] = Listed(n) \/ (@ /\ offset'[n] < file[n])]
    BY <1>3 DEF Committed, item
  <2>3. item.offset + item.size \in 0..MaxBytes /\ item.offset + item.size <= file[n]
    BY <1>1, <2>1
  <2>4. NoLog \in Item /\ NoLog.size = 0
    BY DEF NoLog, Item
  <2>5. offset' \in [Node -> 0..MaxBytes] /\ leftover' \in [Node -> Item]
    BY <2>2, <2>3, <2>4 DEF LogTypeOK
  <2>6. path' \in [Node -> BOOLEAN]
    <3> DEFINE b == Listed(n) \/ (path[n] /\ offset'[n] < file[n])
    <3>1. path' = [path EXCEPT ![n] = b] /\ b \in BOOLEAN
      BY <2>2 DEF LogTypeOK
    <3> HIDE DEF b
    <3> QED
      BY <3>1 DEF LogTypeOK
  <2>7. ASSUME NEW m \in Node
        PROVE  /\ offset'[m] <= file[m]
               /\ leftover'[m].size > 0 =>
                    leftover'[m].offset = offset'[m] /\ offset'[m] + leftover'[m].size <= file[m]
    BY <2>1, <2>2, <2>3, <2>4 DEF LogTypeOK, Kept
  <2> QED
    BY <2>5, <2>6, <2>7 DEF Kept
<1> QED
  BY <1>2, <1>3

\* Types, and what is kept, are invariant.
LEMMA KeptStep ==
  ASSUME LogTypeOK, Kept, [Next]_vars
  PROVE  LogTypeOK' /\ Kept'
<1> MaxBytes \in Nat
  BY SizesAssumption
<1>1. ASSUME NEW n \in Node, NEW p \in {"there", "gone"}, Beat(n, p)
      PROVE  LogTypeOK' /\ Kept'
  <2>1. /\ Handled(n, Collected(n), p) /\ Committed(n, Collected(n))
        /\ file' = file /\ trainer' = trainer
    BY <1>1 DEF Beat
  <2>2. BlobOK(log)' /\ record' \in Node \cup {"idle", "closed"}
    BY <2>1, HandledFits
  <2>3. /\ offset' \in [Node -> 0..MaxBytes] /\ path' \in [Node -> BOOLEAN]
        /\ leftover' \in [Node -> Item] /\ Kept'
    BY <2>1, CommittedFits
  <2> QED
    BY <2>1, <2>2, <2>3 DEF LogTypeOK, BlobOK
<1>2. ASSUME NEW n \in Node, NEW p \in {"there", "gone"}, BeatUnanswered(n, p)
      PROVE  LogTypeOK' /\ Kept'
  <2>1. BlobOK(log)' /\ record' \in Node \cup {"idle", "closed"}
    BY <1>2, HandledFits DEF BeatUnanswered
  <2> QED
    BY <1>2, <2>1 DEF BeatUnanswered, LogTypeOK, BlobOK, Kept
<1>3. ASSUME NEW n \in Node, NEW read \in BOOLEAN, Reap(n, read)
      PROVE  LogTypeOK' /\ Kept'
  <2> DEFINE s == Trailing(Bytes(n, [offset |-> 0, size |-> file[n]]), TailBytes)
             kept == IF Delta(n).size > 0 THEN Delta(n) ELSE leftover[n]
  <2>1. s \in Text /\ BlobOK(log)
    BY TextsSent DEF LogTypeOK, BlobOK
  <2>2. kept \in Item /\ (kept.size > 0 => kept.offset = offset[n] /\ offset[n] + kept.size <= file[n])
    BY DeltaFollows DEF LogTypeOK, Kept
  <2>3. leftover' = [leftover EXCEPT ![n] = kept]
    BY <1>3 DEF Reap
  <2>4. /\ trainer' = [trainer EXCEPT ![n] = "none"] /\ path' = [path EXCEPT ![n] = TRUE]
        /\ file' = file /\ offset' = offset
        /\ \/ log' = IngestText(log, s) /\ record' \in {"idle", "closed"}
           \/ log' = log /\ record' = record
    BY <1>3 DEF Reap
  <2> HIDE DEF s, kept
  <2>5. BlobOK(log')
    BY <2>1, <2>4, IngestTextFits
  <2>6. Kept'
    BY <2>2, <2>3, <2>4 DEF Kept, LogTypeOK
  <2>7. leftover' \in [Node -> Item]
    BY <2>2, <2>3 DEF LogTypeOK
  <2> QED
    BY <2>4, <2>5, <2>6, <2>7 DEF LogTypeOK, BlobOK
<1>4. ASSUME NEW n \in Node, PartitionRelease(n)
      PROVE  LogTypeOK' /\ Kept'
  BY <1>4 DEF PartitionRelease, LogTypeOK, Kept
<1>5. ASSUME NEW n \in Node, WorkerRestart(n)
      PROVE  LogTypeOK' /\ Kept'
  <2>1. NoLog \in Item /\ NoLog.size = 0
    BY DEF NoLog, Item
  <2>2. Kept'
    BY <1>5, <2>1 DEF WorkerRestart, LogTypeOK, Kept
  <2> QED
    BY <1>5, <2>1, <2>2 DEF WorkerRestart, LogTypeOK
<1>6. ASSUME NEW n \in Node, Start(n) \/ Write(n)
      PROVE  LogTypeOK' /\ Kept'
  <2>1. file' = [file EXCEPT ![n] = @ + 1] /\ file[n] < MaxBytes /\ offset' = offset
        /\ leftover' = leftover /\ log' = log
    BY <1>6 DEF Start, Write
  <2>2. file' \in [Node -> 0..MaxBytes] /\ \A m \in Node : file'[m] >= file[m]
    BY <2>1 DEF LogTypeOK
  <2>3. /\ trainer' \in [Node -> {"none", "alive", "ended", "stray"}]
        /\ path' \in [Node -> BOOLEAN] /\ record' \in Node \cup {"idle", "closed"}
    BY <1>6 DEF Start, Write, LogTypeOK
  <2>4. ASSUME NEW m \in Node
        PROVE  /\ offset[m] <= file'[m]
               /\ leftover[m].size > 0 =>
                    leftover[m].offset = offset[m] /\ offset[m] + leftover[m].size <= file'[m]
    <3>1. offset[m] \in Nat /\ leftover[m].size \in Nat /\ file[m] \in Nat /\ file'[m] \in Nat
      BY <2>2 DEF LogTypeOK, Item
    <3> QED
      BY <2>2, <3>1 DEF Kept
  <2> QED
    BY <2>1, <2>2, <2>3, <2>4 DEF LogTypeOK, Kept
<1>7. ASSUME NEW n \in Node, End(n)
      PROVE  LogTypeOK' /\ Kept'
  BY <1>7 DEF End, LogTypeOK, Kept
<1>8. CASE UNCHANGED vars
  BY <1>8 DEF vars, LogTypeOK, Kept
<1> QED
  BY <1>1, <1>2, <1>3, <1>4, <1>5, <1>6, <1>7, <1>8 DEF Next

\* At the start nothing was written, shipped or shown.
LEMMA KeptInit ==
  ASSUME Init
  PROVE  LogTypeOK /\ Kept
<1>1. NoLog \in Item /\ NoLog.size = 0 /\ MaxBytes \in Nat /\ LogCap \in Nat
  BY SizesAssumption DEF NoLog, Item
<1>2. <<>> \in Seq(Byte) /\ Len(<<>>) = 0
  OBVIOUS
<1> QED
  BY <1>1, <1>2 DEF Init, LogTypeOK, Kept

\* A step with mishaps is a step.
LEMMA MCSteps ==
  ASSUME [MCNext]_mcVars
  PROVE  [Next]_vars
<1>1. CASE UNCHANGED mcVars
  BY <1>1 DEF mcVars
<1>2. CASE MCNext
  BY <1>2 DEF MCNext, Next, Smooth, Reaped
<1> QED
  BY <1>1, <1>2

\* Offsets, what is kept for the next heartbeat, and the blob have their types, and
\* the blob is never longer than the control plane allows: with any number of nodes,
\* mishaps and restarts.
THEOREM LogTypes == Spec => []LogTypeOK
<1>1. Init => LogTypeOK /\ Kept
  BY KeptInit
<1>2. LogTypeOK /\ Kept /\ [Next]_vars => (LogTypeOK /\ Kept)'
  BY KeptStep
<1> QED
  BY <1>1, <1>2, PTL DEF Spec

------------------------------------------------------------------------------
(* The order of the log, whatever is lost, restarted or moved.               *)

\* The bytes of a file stand in their order, and none is beyond the end.
Ordered(text, end) ==
  /\ \A i \in DOMAIN text : text[i][1] # "notice" => text[i][2] <= end
  /\ \A i, k \in DOMAIN text :
       i < k /\ text[i][1] = text[k][1] /\ text[i][1] # "notice" => text[i][2] < text[k][2]

\* A text of bytes that are all beyond the end may be added.
LEMMA OrderGrows ==
  ASSUME NEW s \in Text, NEW t \in Text, NEW e \in Nat, NEW f \in Nat, e <= f,
         Ordered(s, e), Ordered(t, f),
         \A i \in DOMAIN t : t[i][1] # "notice" => e < t[i][2]
  PROVE  Ordered(Trailing(s \o t, LogCap), f)
<1> DEFINE u == Trailing(s \o t, LogCap)
           d == Len(s) + Len(t) - Len(u)
<1>1. AddedTo(s, t, u)
  BY AddedShape
<1>2. /\ Len(s) \in Nat /\ DOMAIN s = 1..Len(s)
      /\ Len(t) \in Nat /\ DOMAIN t = 1..Len(t) /\ LogCap \in Nat
  BY SizesAssumption, LenProperties DEF Text
<1> HIDE DEF u
<1>3. Len(u) \in Nat /\ d \in Nat /\ DOMAIN u = 1..Len(u) /\ d + Len(u) = Len(s) + Len(t)
  BY <1>1, <1>2, LenProperties DEF AddedTo, Text
<1>4. \A i \in 1..Len(u) : u[i] = IF d + i <= Len(s) THEN s[d + i] ELSE t[d + i - Len(s)]
  BY <1>1 DEF AddedTo
<1> HIDE DEF d
<1>5. ASSUME NEW i \in 1..Len(u)
      PROVE  \/ d + i \in 1..Len(s) /\ u[i] = s[d + i]
             \/ d + i - Len(s) \in 1..Len(t) /\ u[i] = t[d + i - Len(s)]
  BY <1>2, <1>3, <1>4
<1>6. /\ \A i \in 1..Len(s) : s[i][2] \in Nat
      /\ \A i \in 1..Len(t) : t[i][2] \in Nat
  <2>1. \A b \in Byte : b[2] \in Nat
    BY DEF Byte
  <2> QED
    BY <1>2, <2>1, ElementOfSeq DEF Text
<1>7. ASSUME NEW i \in 1..Len(u), u[i][1] # "notice"
      PROVE  u[i][2] <= f
  BY <1>2, <1>5, <1>6, <1>7 DEF Ordered
<1>8. ASSUME NEW i \in 1..Len(u), NEW k \in 1..Len(u),
             i < k, u[i][1] = u[k][1], u[i][1] # "notice"
      PROVE  u[i][2] < u[k][2]
  <2>1. CASE d + k <= Len(s)
    <3> DEFINE a == d + i
               b == d + k
    <3>1. a \in 1..Len(s) /\ b \in 1..Len(s) /\ a < b
      BY <1>2, <1>3, <1>8, <2>1
    <3>2. u[i] = s[a] /\ u[k] = s[b]
      BY <1>4, <3>1
    <3> HIDE DEF a, b
    <3> QED
      BY <1>2, <1>8, <3>1, <3>2 DEF Ordered
  <2>2. CASE ~(d + i <= Len(s))
    <3> DEFINE a == d + i - Len(s)
               b == d + k - Len(s)
    <3>1. a \in 1..Len(t) /\ b \in 1..Len(t) /\ a < b /\ ~(d + k <= Len(s))
      BY <1>2, <1>3, <1>8, <2>2
    <3>2. u[i] = t[a] /\ u[k] = t[b]
      BY <1>4, <2>2, <3>1
    <3> HIDE DEF a, b
    <3> QED
      BY <1>2, <1>8, <3>1, <3>2 DEF Ordered
  <2>3. CASE d + i <= Len(s) /\ ~(d + k <= Len(s))
    <3> DEFINE a == d + i
               b == d + k - Len(s)
    <3>1. a \in 1..Len(s) /\ b \in 1..Len(t)
      BY <1>2, <1>3, <2>3
    <3>2. u[i] = s[a] /\ u[k] = t[b]
      BY <1>4, <2>3
    <3> HIDE DEF a, b
    <3>3. s[a][2] <= e /\ e < t[b][2] /\ s[a][2] \in Nat /\ t[b][2] \in Nat
      BY <1>2, <1>6, <1>8, <3>1, <3>2 DEF Ordered
    <3> QED
      BY <3>2, <3>3
  <2> QED
    BY <1>2, <1>3, <2>1, <2>2, <2>3
<1>9. Ordered(u, f)
  BY <1>3, <1>7, <1>8 DEF Ordered
<1> QED
  BY <1>9 DEF u

\* A chunk that is taken keeps the order.
LEMMA IngestOrdered ==
  ASSUME NEW blob, BlobOK(blob), Ordered(blob.text, blob.end), NEW n \in Node, NEW item \in Item
  PROVE  LET b == Ingest(blob, n, item) IN Ordered(b.text, b.end)
<1> DEFINE e == blob.end
           f == item.offset + item.size
           t == Bytes(n, item)
<1>1. CASE item.size = 0 \/ item.offset < blob.end
  BY <1>1 DEF Ingest
<1>2. CASE ~(item.size = 0 \/ item.offset < blob.end)
  <2>1. item.offset \in Nat /\ item.size \in Nat /\ e \in Nat /\ f \in Nat /\ e <= item.offset /\ e <= f
    BY <1>2 DEF Item, BlobOK
  <2>2. t \in Text /\ Len(t) = item.size /\ \A i \in 1..item.size : t[i] = <<n, item.offset + i>>
    BY BytesShape
  <2>3. blob.text \in Text
    BY DEF BlobOK, Text
  <2>4. Ingest(blob, n, item) = [text |-> Trailing(blob.text \o t, LogCap), end |-> f]
    BY <1>2 DEF Ingest
  <2> HIDE DEF t
  <2>5. DOMAIN t = 1..item.size
    BY <2>2, LenProperties DEF Text
  <2>6. \A i \in DOMAIN t : e < t[i][2] /\ t[i][2] <= f /\ t[i][2] = item.offset + i
    BY <2>1, <2>2, <2>5
  <2>7. Ordered(t, f)
    BY <2>1, <2>5, <2>6 DEF Ordered
  <2> HIDE DEF e, f
  <2>8. Ordered(Trailing(blob.text \o t, LogCap), f)
    BY <2>1, <2>2, <2>3, <2>6, <2>7, OrderGrows DEF e
  <2> QED
    BY <2>4, <2>8
<1> QED
  BY <1>1, <1>2

\* So does the text of an exit that is made up.
LEMMA NoticeOrdered ==
  ASSUME NEW blob, BlobOK(blob), Ordered(blob.text, blob.end)
  PROVE  LET b == IngestText(blob, <<<<"notice", 0>>>>) IN Ordered(b.text, b.end)
<1> DEFINE e == blob.end
           t == <<<<"notice", 0>>>>
           s == blob.text
<1>1. t \in Text /\ Len(t) = 1 /\ DOMAIN t = 1..1 /\ \A i \in DOMAIN t : t[i] = <<"notice", 0>>
  BY DEF Text, Byte
<1>2. e \in Nat /\ s \in Text
  BY DEF BlobOK, Text
<1>3. IngestText(blob, t) \in
        {blob} \cup {[text |-> Trailing(t, LogCap), end |-> IF Len(t) > e THEN Len(t) ELSE e],
                     [text |-> Trailing(s \o t, LogCap), end |-> e + Len(t)]}
  BY Zenon DEF IngestText
<1> HIDE DEF t
<1>4. \A f : Ordered(t, f)
  BY <1>1 DEF Ordered
<1>5. \A f : Ordered(Trailing(t, LogCap), f)
  <2> DEFINE u == Trailing(t, LogCap)
  <2>1. LogCap \in Nat \ {0}
    BY SizesAssumption
  <2>2. u = t
    BY <1>1, <2>1 DEF Trailing
  <2> QED
    BY <1>4, <2>2
<1>6. Ordered(Trailing(s \o t, LogCap), e + 1)
  BY <1>1, <1>2, <1>4, OrderGrows
<1>7. \E b \in {IngestText(blob, t)} : Ordered(b.text, b.end)
  BY <1>1, <1>3, <1>5, <1>6
<1> QED
  BY <1>7 DEF t

\* Until a report is read for its text, the log is ordered up to its end.
InSequence == "report read" \notin had => Ordered(log.text, log.end)

\* Events are not forgotten.
LEMMA HadGrows ==
  ASSUME [MCNext]_mcVars
  PROVE  had \subseteq had'
BY DEF MCNext, mcVars, Mishap, Routine, Smooth, Reaped

\* A heartbeat keeps the order.
LEMMA HandledOrdered ==
  ASSUME LogTypeOK, Kept, Ordered(log.text, log.end), NEW n \in Node, NEW p,
         Handled(n, Collected(n), p)
  PROVE  Ordered(log'.text, log'.end)
<1> DEFINE shipped == Ingest(log, n, Collected(n))
<1>1. BlobOK(log)
  BY DEF LogTypeOK, BlobOK
<1>2. Collected(n) \in Item
  BY CollectedFollows
<1>3. BlobOK(shipped) /\ Ordered(shipped.text, shipped.end)
  BY <1>1, <1>2, IngestFits, IngestOrdered
<1> HIDE DEF shipped
<1>4. LET b == IngestText(shipped, <<<<"notice", 0>>>>) IN Ordered(b.text, b.end)
  BY <1>3, NoticeOrdered
<1>5. log' = shipped \/ log' = IngestText(shipped, <<<<"notice", 0>>>>)
  BY DEF Handled, shipped
<1> QED
  BY <1>3, <1>4, <1>5

\* The order is kept until a report is read for its text.
LEMMA SequenceStep ==
  ASSUME LogTypeOK, Kept, InSequence, [MCNext]_mcVars
  PROVE  InSequence'
<1> SUFFICES ASSUME "report read" \notin had'
             PROVE  Ordered(log'.text, log'.end)
  BY DEF InSequence
<1>1. Ordered(log.text, log.end)
  BY HadGrows DEF InSequence
<1>2. \/ log' = log
      \/ \E n \in Node, p \in {"there", "gone"} : Handled(n, Collected(n), p)
  BY DEF MCNext, mcVars, vars, Smooth, Beat, BeatUnanswered, Reaped, Reap, Mishap,
         PartitionRelease, WorkerRestart, Start, Write, End
<1> QED
  BY <1>1, <1>2, HandledOrdered

------------------------------------------------------------------------------
(* The log of one attempt, or of several that are heard of.                  *)

\* A trainer that was started has written.
Started == \A n \in Node : trainer[n] # "none" => file[n] > 0

\* The job was at one node only.
Alone == \A n, m \in Node : file[n] > 0 /\ file[m] > 0 => n = m

\* Nothing was read and nothing is kept of a job that never started.
Blank ==
  (\A n \in Node : file[n] = 0) => log.text = <<>> /\ log.end = 0 /\ "report read" \notin had

\* The log is the run of what was shipped, or of the whole file once its trainer has
\* exited and the report was read for its text.
Shipped ==
  \A n \in Node : file[n] > 0 =>
    IF "report read" \in had
    THEN trainer[n] = "none" /\ log.end = file[n] /\ IsRun(log.text, n, file[n])
    ELSE log.end = offset[n] /\ IsRun(log.text, n, offset[n])

AsShipped == Started /\ (Heard => Alone /\ Blank /\ Shipped)

\* Files only grow, and what is heard of now was heard of before.
LEMMA HeardBefore ==
  ASSUME LogTypeOK, [MCNext]_mcVars
  PROVE  /\ \A n \in Node : file[n] \in Nat /\ file'[n] \in Nat /\ file[n] <= file'[n]
         /\ had' \subseteq {"report read"} /\ Covered' => had \subseteq {"report read"} /\ Covered
         /\ Heard' => Heard
<1>1. ASSUME NEW n \in Node
      PROVE  file[n] \in Nat /\ file'[n] \in Nat /\ file[n] <= file'[n]
  <2>1. file[n] \in Nat
    BY DEF LogTypeOK
  <2>2. \/ file' = file
        \/ \E m \in Node : file' = [file EXCEPT ![m] = @ + 1]
    BY DEF MCNext, mcVars, vars, Smooth, Beat, BeatUnanswered, Reaped, Reap,
           PartitionRelease, WorkerRestart, Start, Write, End
  <2>3. file'[n] = file[n] \/ file'[n] = file[n] + 1
    BY <2>2 DEF LogTypeOK
  <2> QED
    BY <2>1, <2>3
<1>2. ASSUME Covered'
      PROVE  Covered
  <2>1. TailBytes \in Nat
    BY SizesAssumption
  <2> QED
    BY <1>1, <1>2, <2>1 DEF Covered
<1> QED
  BY <1>1, <1>2, HadGrows DEF Heard

\* A heartbeat that is answered ships what follows on the log, or what it has.
LEMMA SmoothShips ==
  ASSUME LogTypeOK, Kept, Alone, Shipped, NEW n \in Node, Smooth(n)
  PROVE  Shipped'
<1> DEFINE item == Collected(n)
<1>1. /\ item \in Item
      /\ item.size > 0 => item.offset = offset[n] /\ offset[n] + item.size <= file[n]
  BY CollectedFollows
<1>2. /\ log' = Ingest(log, n, item) /\ Committed(n, item)
      /\ file' = file /\ trainer' = trainer /\ had' = had
  BY DEF Smooth, Routine, Beat, Handled
<1> HIDE DEF item
<1>3. item.offset \in Nat /\ item.size \in Nat /\ offset[n] \in Nat /\ file[n] \in Nat
  BY <1>1 DEF LogTypeOK, Item
<1>4. CASE item.size = 0
  BY <1>2, <1>4 DEF Ingest, Committed, Shipped
<1>5. CASE item.size # 0
  <2>1. file[n] > 0 /\ offset[n] < file[n]
        /\ item.offset = offset[n] /\ offset[n] + item.size <= file[n]
    BY <1>1, <1>3, <1>5
  <2>2. offset' = [offset EXCEPT ![n] = item.offset + item.size]
    BY <1>2, <1>5 DEF Committed
  <2>3. offset'[n] = offset[n] + item.size
    BY <2>1, <2>2 DEF LogTypeOK
  <2> SUFFICES IF "report read" \in had
               THEN trainer[n] = "none" /\ log'.end = file[n] /\ IsRun(log'.text, n, file[n])
               ELSE log'.end = offset'[n] /\ IsRun(log'.text, n, offset'[n])
    BY <1>2, <2>1 DEF Shipped, Alone
  <2>4. CASE "report read" \in had
    <3>1. trainer[n] = "none" /\ log.end = file[n] /\ IsRun(log.text, n, file[n])
      BY <2>1, <2>4 DEF Shipped
    <3>2. log' = log
      BY <1>2, <2>1, <3>1 DEF Ingest
    <3> QED
      BY <2>4, <3>1, <3>2
  <2>5. CASE "report read" \notin had
    <3>1. log.end = offset[n] /\ IsRun(log.text, n, offset[n])
      BY <2>1, <2>5 DEF Shipped
    <3>2. ~(item.size = 0 \/ item.offset < log.end)
      BY <1>3, <1>5, <2>1, <3>1
    <3>3. log' = [text |-> Trailing(log.text \o Bytes(n, item), LogCap),
                  end |-> item.offset + item.size]
      BY <1>2, <3>2 DEF Ingest
    <3>4. log.text \in Text
      BY DEF LogTypeOK, Text
    <3>5. IsRun(Trailing(log.text \o Bytes(n, item), LogCap), n, offset[n] + item.size)
      BY <1>1, <1>3, <2>1, <3>1, <3>4, RunGrows
    <3> QED
      BY <2>1, <2>3, <2>5, <3>3, <3>5
  <2> QED
    BY <2>4, <2>5
<1> QED
  BY <1>4, <1>5

\* A text that covers the file takes the place of what was shipped of it.
LEMMA ReportCompletes ==
  ASSUME NEW blob, BlobOK(blob), NEW n \in Node, NEW f \in Nat, f > 0, NEW e \in 0..f,
         blob.end = e, IsRun(blob.text, n, e)
  PROVE  LET b == IngestText(blob, Bytes(n, Front(f)))
         IN  b.end = f /\ IsRun(b.text, n, f)
<1> DEFINE t == Bytes(n, Front(f))
           s == blob.text
<1>1. t \in Text /\ Len(t) = f /\ \A i \in 1..f : t[i] = <<n, i>>
  BY FrontBytes
<1>2. s \in Text /\ Len(s) \in Nat /\ e \in Nat /\ LogCap \in Nat \ {0}
  BY SizesAssumption, LenProperties DEF BlobOK, Text
<1>3. IsRun(Trailing(t, LogCap), n, f)
  BY FrontRuns
<1>4. Within(s, t)
  BY <1>2, RunWithin
<1>5. Within(t, s) => f <= e
  BY <1>2, WithinRun
<1> HIDE DEF t
<1>6. t # <<>>
  BY <1>1
<1>7. CASE Within(t, s)
  <2>1. IngestText(blob, t) = blob /\ e = f
    BY <1>2, <1>5, <1>7 DEF IngestText
  <2> QED
    BY <2>1 DEF t
<1>8. CASE ~Within(t, s) /\ s # <<>>
  <2>1. IngestText(blob, t) =
          [text |-> Trailing(t, LogCap), end |-> IF Len(t) > e THEN Len(t) ELSE e]
    BY <1>4, <1>6, <1>8 DEF IngestText
  <2>2. (IF Len(t) > e THEN Len(t) ELSE e) = f
    BY <1>1, <1>2
  <2> QED
    BY <1>3, <2>1, <2>2 DEF t
<1>9. CASE ~Within(t, s) /\ s = <<>>
  <2>1. Len(s) = 0
    BY <1>9
  <2>2. e = 0
    BY <1>2, <2>1 DEF IsRun
  <2>3. IngestText(blob, t) = [text |-> Trailing(s \o t, LogCap), end |-> e + Len(t)]
    BY <1>6, <1>9 DEF IngestText
  <2>4. s \o t = t
    BY <1>1, <1>9, ConcatEmptySeq DEF Text
  <2> QED
    BY <1>1, <1>3, <2>2, <2>3, <2>4 DEF t
<1> QED
  BY <1>7, <1>8, <1>9

\* What was shipped is a part of the file.
LEMMA Lengths ==
  ASSUME LogTypeOK, Kept, NEW n \in Node
  PROVE  file[n] \in Nat /\ offset[n] \in 0..file[n]
BY SizesAssumption DEF LogTypeOK, Kept

\* The report of an exit that covers the file completes the log.
LEMMA ReportShips ==
  ASSUME LogTypeOK, Kept, Covered, Started, Alone, Shipped, NEW n \in Node,
         trainer[n] = "ended", trainer' = [trainer EXCEPT ![n] = "none"], file' = file,
         log' = IngestText(log, Trailing(Bytes(n, Front(file[n])), TailBytes)),
         "report read" \in had'
  PROVE  Shipped'
<1> DEFINE f == file[n]
<1>1. f \in Nat /\ offset[n] \in 0..f
  BY Lengths
<1>2. f > 0
  BY DEF Started
<1>3. log.end = offset[n] /\ IsRun(log.text, n, offset[n])
  BY <1>2 DEF Shipped
<1>4. Trailing(Bytes(n, Front(f)), TailBytes) = Bytes(n, Front(f))
  <2>1. Len(Bytes(n, Front(f))) = f
    BY <1>1, FrontBytes
  <2>2. f <= TailBytes
    BY DEF Covered
  <2> HIDE DEF f
  <2> QED
    BY <2>1, <2>2, Zenon DEF Trailing
<1>5. BlobOK(log)
  BY DEF LogTypeOK, BlobOK
<1>6. LET b == IngestText(log, Bytes(n, Front(f))) IN b.end = f /\ IsRun(b.text, n, f)
  BY <1>1, <1>2, <1>3, <1>5, ReportCompletes
<1>7. log'.end = f /\ IsRun(log'.text, n, f)
  BY <1>4, <1>6
<1>8. trainer'[n] = "none"
  BY DEF LogTypeOK
<1>9. ASSUME NEW m \in Node, file[m] > 0
      PROVE  m = n
  BY <1>2, <1>9 DEF Alone
<1> QED
  BY <1>7, <1>8, <1>9 DEF Shipped

\* A trainer has always written its first line.
LEMMA StartedStep ==
  ASSUME LogTypeOK, Started, [MCNext]_mcVars
  PROVE  Started'
<1>1. ASSUME NEW n \in Node, trainer'[n] # "none"
      PROVE  file'[n] > 0
  <2>1. file[n] \in Nat /\ file'[n] \in Nat /\ file[n] <= file'[n]
    BY HeardBefore
  <2>2. CASE trainer[n] # "none"
    BY <2>1, <2>2 DEF Started
  <2>3. CASE trainer[n] = "none"
    <3>1. Start(n)
      BY <1>1, <2>3 DEF LogTypeOK, MCNext, mcVars, vars, Smooth, Beat, BeatUnanswered, Reaped, Reap,
             PartitionRelease, WorkerRestart, Start, Write, End, Listed
    <3>2. file'[n] = file[n] + 1
      BY <3>1 DEF Start, LogTypeOK
    <3> QED
      BY <2>1, <3>2
  <2> QED
    BY <2>2, <2>3
<1> QED
  BY <1>1 DEF Started

\* A file that is written to.
LEMMA FileGrows ==
  ASSUME LogTypeOK, NEW n \in Node, file' = [file EXCEPT ![n] = @ + 1]
  PROVE  /\ file[n] \in Nat /\ file'[n] = file[n] + 1 /\ file'[n] > 0
         /\ \A m \in Node : m # n => file'[m] = file[m]
BY SizesAssumption DEF LogTypeOK

\* What was shipped is what is logged, as long as it is heard of.
LEMMA ShippedStep ==
  ASSUME LogTypeOK, Kept, AsShipped, [MCNext]_mcVars
  PROVE  AsShipped'
<1> USE DEF AsShipped
<1> SUFFICES ASSUME Heard'
             PROVE  Alone' /\ Blank' /\ Shipped'
  BY StartedStep
<1>1. Heard /\ Alone /\ Blank /\ Shipped /\ Started
  BY HeardBefore
<1>2. ASSUME NEW n \in Node, Smooth(n)
      PROVE  Alone' /\ Blank' /\ Shipped'
  <2>1. Shipped'
    BY <1>1, <1>2, SmoothShips
  <2>2. file' = file /\ had' = had
    BY <1>2 DEF Smooth, Beat, Routine
  <2>3. ASSUME \A m \in Node : file[m] = 0
        PROVE  log' = log
    <3>1. Collected(n) \in Item /\ file[n] = 0 /\ offset[n] \in Nat
          /\ (Collected(n).size > 0 => offset[n] + Collected(n).size <= file[n])
      BY <2>3, CollectedFollows DEF LogTypeOK
    <3>2. Collected(n).size = 0
      BY <3>1 DEF Item
    <3> QED
      BY <1>2, <3>2 DEF Smooth, Beat, Handled, Ingest
  <2> QED
    BY <1>1, <2>1, <2>2, <2>3 DEF Alone, Blank
<1>3. ASSUME NEW n \in Node, Reaped(n)
      PROVE  Alone' /\ Blank' /\ Shipped'
  <2>1. file' = file /\ trainer[n] = "ended" /\ trainer' = [trainer EXCEPT ![n] = "none"]
        /\ offset' = offset
    BY <1>3 DEF Reaped, Reap
  <2>2. file[n] > 0
    BY <1>1, <2>1 DEF Started
  <2>3. Alone' /\ Blank'
    <3>1. ~(\A m \in Node : file'[m] = 0)
      BY <2>1, <2>2
    <3> QED
      BY <1>1, <2>1, <3>1 DEF Alone, Blank
  <2>4. CASE Reap(n, FALSE) /\ Routine
    <3>1. log' = log /\ had' = had
      BY <2>4 DEF Reap, Routine
    <3> QED
      BY <1>1, <2>1, <2>3, <3>1 DEF Shipped, LogTypeOK
  <2>5. CASE Reap(n, TRUE) /\ Mishap("report read")
    <3>1. "report read" \in had'
      BY <2>5 DEF Mishap
    <3>2. Covered'
      BY <3>1 DEF Heard
    <3>3. Covered
      BY <2>1, <3>2 DEF Covered
    <3>4. log' = IngestText(log, Trailing(Bytes(n, Front(file[n])), TailBytes))
      BY <2>5 DEF Reap, Front
    <3> QED
      BY <1>1, <2>1, <2>3, <3>1, <3>3, <3>4, ReportShips
  <2> QED
    BY <1>3, <2>4, <2>5 DEF Reaped
<1>4. ASSUME NEW n \in Node, PartitionRelease(n) \/ End(n), had' \subseteq had \cup {"given up"}
      PROVE  Alone' /\ Blank' /\ Shipped'
  <2>1. /\ file' = file /\ offset' = offset /\ log' = log
        /\ trainer[n] # "none"
    BY <1>4 DEF PartitionRelease, End, Listed
  <2>2. file[n] > 0
    BY <1>1, <2>1 DEF Started
  <2>3. "report read" \notin had
    BY <1>1, <2>1, <2>2 DEF Shipped
  <2>4. "report read" \notin had'
    BY <1>4, <2>3
  <2>5. ~(\A m \in Node : file'[m] = 0)
    BY <2>1, <2>2
  <2> QED
    BY <1>1, <2>1, <2>3, <2>4, <2>5 DEF Alone, Blank, Shipped
<1>5. ASSUME NEW n \in Node, Write(n), Routine
      PROVE  Alone' /\ Blank' /\ Shipped'
  <2>1. /\ file' = [file EXCEPT ![n] = @ + 1] /\ offset' = offset /\ log' = log
        /\ trainer[n] # "none" /\ trainer' = trainer /\ had' = had
    BY <1>5 DEF Write, Routine
  <2>2. file[n] > 0 /\ file[n] \in Nat /\ file'[n] = file[n] + 1 /\ file'[n] > 0
    BY <1>1, <2>1 DEF Started, LogTypeOK
  <2>3. "report read" \notin had
    BY <1>1, <2>1, <2>2 DEF Shipped
  <2>4. \A m \in Node : file'[m] > 0 <=> file[m] > 0
    BY <2>1, <2>2 DEF LogTypeOK
  <2>5. ~(\A m \in Node : file'[m] = 0)
    BY <2>2
  <2> QED
    BY <1>1, <2>1, <2>3, <2>4, <2>5 DEF Alone, Blank, Shipped
<1>6. ASSUME NEW n \in Node, Start(n), ~Elsewhere(n), file[n] > 0, Mishap("started again")
      PROVE  Alone' /\ Blank' /\ Shipped'
  <2>1. /\ file' = [file EXCEPT ![n] = @ + 1] /\ offset' = offset /\ log' = log
        /\ "started again" \in had'
    BY <1>6 DEF Start, Mishap
  <2>2. file'[n] > 0 /\ \A m \in Node : m # n => file'[m] = file[m]
    BY <2>1, FileGrows
  <2>3. "report read" \notin had' /\ "report read" \notin had
    BY <2>1, HadGrows DEF Heard
  <2>4. \A m \in Node : file'[m] > 0 <=> file[m] > 0
    BY <1>6, <2>2
  <2>5. ~(\A m \in Node : file'[m] = 0)
    BY <2>2
  <2> QED
    BY <1>1, <2>1, <2>3, <2>4, <2>5 DEF Alone, Blank, Shipped
<1>7. ASSUME NEW n \in Node, Start(n), ~Elsewhere(n), ~(file[n] > 0), Routine
      PROVE  Alone' /\ Blank' /\ Shipped'
  <2>1. /\ file' = [file EXCEPT ![n] = @ + 1] /\ offset' = offset /\ log' = log /\ had' = had
    BY <1>7 DEF Start, Routine
  <2>2. \A m \in Node : file[m] \in Nat /\ offset[m] \in Nat /\ offset[m] <= file[m]
    BY DEF LogTypeOK, Kept
  <2>3. \A m \in Node : file[m] = 0 /\ offset[m] = 0
    <3>1. \A m \in Node : ~(file[m] > 0)
      BY <1>7 DEF Elsewhere
    <3> QED
      BY <2>2, <3>1
  <2>4. log.text = <<>> /\ log.end = 0 /\ "report read" \notin had
    BY <1>1, <2>3 DEF Blank
  <2>5. file'[n] = 1 /\ \A m \in Node : m # n => file'[m] = 0
    BY <2>1, <2>3 DEF LogTypeOK
  <2>6. IsRun(<<>>, n, 0)
    BY SizesAssumption DEF IsRun
  <2>7. \A m \in Node : file'[m] > 0 => m = n
    BY <2>5
  <2>8. ~(\A m \in Node : file'[m] = 0)
    BY <2>5
  <2>9. log'.end = offset'[n] /\ IsRun(log'.text, n, offset'[n])
    BY <2>1, <2>3, <2>4, <2>6
  <2> QED
    BY <2>1, <2>4, <2>7, <2>8, <2>9 DEF Alone, Blank, Shipped
<1>8. CASE UNCHANGED mcVars
  BY <1>1, <1>8 DEF mcVars, vars, Alone, Blank, Shipped
<1>9. \/ UNCHANGED mcVars
       \/ \E n \in Node :
            \/ Smooth(n)
            \/ Reaped(n)
            \/ (PartitionRelease(n) \/ End(n)) /\ had' \subseteq had \cup {"given up"}
            \/ Write(n) /\ Routine
            \/ Start(n) /\ ~Elsewhere(n) /\ file[n] > 0 /\ Mishap("started again")
            \/ Start(n) /\ ~Elsewhere(n) /\ ~(file[n] > 0) /\ Routine
  <2>1. ~Mishap("exit made up") /\ ~Mishap("answer lost") /\ ~Mishap("worker restarted")
        /\ ~Mishap("moved")
    <3>1. had' \subseteq {"report read", "started again", "given up"}
      BY DEF Heard
    <3>2. \A kind : Mishap(kind) => kind \in had'
      BY Zenon DEF Mishap
    <3>3. {"exit made up", "answer lost", "worker restarted", "moved"} \cap had' = {}
      BY <3>1
    <3> QED
      BY <3>2, <3>3, Zenon
  <2> SUFFICES ASSUME NEW n \in Node,
                      \/ Smooth(n)
                      \/ Beat(n, "gone") /\ Mishap("exit made up")
                      \/ \E p \in {"there", "gone"} : BeatUnanswered(n, p) /\ Mishap("answer lost")
                      \/ Reaped(n)
                      \/ PartitionRelease(n) /\ IF trainer[n] = "alive" THEN Mishap("given up") ELSE Routine
                      \/ WorkerRestart(n) /\ Mishap("worker restarted")
                      \/ Start(n) /\ CASE Elsewhere(n) -> Mishap("moved")
                                        [] ~Elsewhere(n) /\ file[n] > 0 -> Mishap("started again")
                                        [] OTHER -> Routine
                      \/ Write(n) /\ Routine
                      \/ End(n) /\ Routine
               PROVE  \/ Smooth(n)
                      \/ Reaped(n)
                      \/ (PartitionRelease(n) \/ End(n)) /\ had' \subseteq had \cup {"given up"}
                      \/ Write(n) /\ Routine
                      \/ Start(n) /\ ~Elsewhere(n) /\ file[n] > 0 /\ Mishap("started again")
                      \/ Start(n) /\ ~Elsewhere(n) /\ ~(file[n] > 0) /\ Routine
    BY DEF MCNext
  <2>2. Mishap("given up") \/ Routine => had' \subseteq had \cup {"given up"}
    BY DEF Mishap, Routine
  <2>3. ASSUME Start(n), CASE Elsewhere(n) -> Mishap("moved")
                           [] ~Elsewhere(n) /\ file[n] > 0 -> Mishap("started again")
                           [] OTHER -> Routine
        PROVE  \/ Start(n) /\ ~Elsewhere(n) /\ file[n] > 0 /\ Mishap("started again")
               \/ Start(n) /\ ~Elsewhere(n) /\ ~(file[n] > 0) /\ Routine
    BY <2>1, <2>3
  <2> QED
    BY <2>1, <2>2, <2>3
<1> QED
  BY <1>2, <1>3, <1>4, <1>5, <1>6, <1>7, <1>8, <1>9

------------------------------------------------------------------------------
(* The theorems.                                                             *)

\* All of the above holds at the start, and is kept.
LogInvariant == LogTypeOK /\ Kept /\ InSequence /\ AsShipped

LEMMA LogInvariantHolds == MCSpec => []LogInvariant
<1>1. MCInit => LogInvariant
  <2> SUFFICES ASSUME MCInit
               PROVE  LogInvariant
    OBVIOUS
  <2>1. LogTypeOK /\ Kept
    BY KeptInit DEF MCInit
  <2>2. /\ \A n \in Node : file[n] = 0 /\ trainer[n] = "none"
        /\ log.text = <<>> /\ log.end = 0 /\ had = {}
    BY DEF MCInit, Init
  <2>3. Ordered(<<>>, 0)
    BY DEF Ordered
  <2>4. \A n \in Node : ~(file[n] > 0)
    <3>1. ~(0 > 0)
      OBVIOUS
    <3> QED
      BY <2>2, <3>1, Zenon
  <2> QED
    BY <2>1, <2>2, <2>3, <2>4
      DEF LogInvariant, InSequence, AsShipped, Started, Alone, Blank, Shipped
<1>2. LogInvariant /\ [MCNext]_mcVars => LogInvariant'
  BY MCSteps, KeptStep, SequenceStep, ShippedStep DEF LogInvariant
<1> QED
  BY <1>1, <1>2, PTL DEF MCSpec

\* A run has each of its bytes once.
LEMMA RunOrdered ==
  ASSUME NEW n \in Node, NEW e \in Nat, log.text \in Text, IsRun(log.text, n, e)
  PROVE  InOrder
<1>1. DOMAIN log.text = 1..Len(log.text) /\ Len(log.text) \in Nat
  BY LenProperties DEF Text
<1> QED
  BY <1>1 DEF IsRun, InOrder

\* Lost answers, restarts and moves never make the log repeat itself or go back;
\* neither does the text of an exit report, as long as it covers the whole log.
THEOREM EveryByteOnce == MCSpec => []EachByteOnce
<1>1. LogInvariant => EachByteOnce
  <2> SUFFICES ASSUME LogInvariant
               PROVE  EachByteOnce
    OBVIOUS
  <2>1. CASE "report read" \notin had
    BY <2>1 DEF LogInvariant, InSequence, Ordered, InOrder, EachByteOnce
  <2>2. ASSUME had \subseteq {"report read"}, Covered
        PROVE  InOrder
    <3>1. Heard
      BY <2>2 DEF Heard
    <3>2. LogTypeOK /\ Kept /\ Blank /\ Shipped
      BY <3>1 DEF LogInvariant, AsShipped
    <3>3. CASE \E n \in Node : file[n] > 0
      <4>1. PICK n \in Node : file[n] > 0
        BY <3>3
      <4>2. file[n] \in Nat /\ offset[n] \in Nat
        BY <3>2, Lengths
      <4>3. \E e \in Nat : IsRun(log.text, n, e)
        BY <3>2, <4>1, <4>2 DEF Shipped
      <4>4. log.text \in Text
        BY <3>2 DEF LogTypeOK, Text
      <4> QED
        BY <4>3, <4>4, RunOrdered
    <3>4. CASE ~\E n \in Node : file[n] > 0
      <4>1. \A n \in Node : file[n] = 0
        <5> SUFFICES ASSUME NEW n \in Node
                     PROVE  file[n] = 0
          OBVIOUS
        <5>1. file[n] \in Nat /\ ~(file[n] > 0)
          BY <3>2, <3>4, Lengths
        <5> QED
          BY <5>1
      <4>2. log.text = <<>>
        BY <3>2, <4>1 DEF Blank
      <4> QED
        BY <4>2 DEF InOrder
    <3> QED
      BY <3>3, <3>4
  <2> QED
    BY <2>1, <2>2 DEF EachByteOnce
<1> QED
  BY <1>1, LogInvariantHolds, PTL

\* As long as no answer is lost, no worker restarts and no exit is made up, what a
\* worker counts as shipped is shown: over the whole of one attempt, exit included,
\* and over several on one node if the reports of their exits are not read.
THEOREM NothingMissing == MCSpec => []GaplessIfHeard
<1>1. LogInvariant => GaplessIfHeard
  <2> SUFFICES ASSUME LogInvariant, Heard, NEW n \in Node, NEW k \in 1..offset[n]
               PROVE  \/ <<n, k>> \in {Shown[i] : i \in DOMAIN Shown}
                      \/ /\ Len(Shown) = LogCap
                         /\ \A m \in 1..k : <<n, m>> \notin {Shown[i] : i \in DOMAIN Shown}
    BY Zenon DEF GaplessIfHeard, NoSilentGaps
  <2>1. LogTypeOK /\ Kept /\ Alone /\ Shipped
    BY DEF LogInvariant, AsShipped
  <2>2. file[n] \in Nat /\ offset[n] \in Nat /\ offset[n] <= file[n] /\ file[n] > 0 /\ k \in 1..file[n]
    BY <2>1, Lengths
  <2>3. log.text \in Text
    BY <2>1 DEF LogTypeOK, Text
  <2>4. PICK e \in offset[n]..file[n] : IsRun(log.text, n, e)
    <3>1. offset[n] \in offset[n]..file[n] /\ file[n] \in offset[n]..file[n]
      BY <2>2
    <3>2. IsRun(log.text, n, offset[n]) \/ IsRun(log.text, n, file[n])
      BY <2>1, <2>2 DEF Shipped
    <3> QED
      BY <3>1, <3>2, Zenon
  <2>5. e \in Nat /\ k \in 1..e
    BY <2>2, <2>4
  <2> DEFINE longer == {m \in Local : Len(log.text) < file[m] /\ Len(log.text) < LogCap}
             front == Trailing(Bytes(n, Front(file[n])), LogCap)
  <2>6. CASE longer = {}
    <3>1. Shown = log.text
      BY <2>6 DEF Shown
    <3> QED
      BY <2>3, <2>4, <2>5, <3>1, RunShows
  <2>7. CASE longer # {}
    <3>1. \A m \in longer : m = n
      <4>1. ASSUME NEW m \in longer
            PROVE  m \in Node /\ file[m] > 0
        <5>1. m \in Node
          BY LocalAssumption
        <5>2. file[m] \in Nat /\ Len(log.text) \in Nat /\ Len(log.text) < file[m]
          BY <2>1, <2>3, <5>1, Lengths, LenProperties DEF Text
        <5> QED
          BY <5>1, <5>2
      <4> QED
        BY <2>1, <2>2, <4>1 DEF Alone
    <3> HIDE DEF longer
    <3>2. (CHOOSE m \in longer : TRUE) = n
      BY <2>7, <3>1
    <3>3. Shown = front
      BY <2>7, <3>2 DEF Shown, Front, longer
    <3>4. front \in Text
      BY <2>2, FrontBytes, TrailingShape, SizesAssumption
    <3>5. IsRun(front, n, file[n])
      BY <2>2, FrontRuns
    <3> HIDE DEF front
    <3> QED
      BY <2>2, <3>3, <3>4, <3>5, RunShows
  <2> QED
    BY <2>6, <2>7
<1> QED
  BY <1>1, LogInvariantHolds, PTL

==============================================================================
