----------------------------- MODULE LogShipping -----------------------------
(***************************************************************************)
(* The log of one job on its way from the file its trainers append to, over *)
(* the worker's heartbeats and exit reports (worker/worker.py), to the blob  *)
(* the control plane keeps and shows (ingest_job_log and get_job_log in      *)
(* control/service.py).                                                      *)
(*                                                                         *)
(* A byte is known by its node and its place in the file there.  The job's   *)
(* record is reduced to whether, and where, it is active.  A request that is  *)
(* lost changes nothing and is a stuttering step.                            *)
(***************************************************************************)
EXTENDS Integers, Sequences

CONSTANTS
  Node,
  Local,       \* the nodes that share paths.logs with the control plane
  ChunkBytes,  \* 32768: what a heartbeat carries at most
  TailBytes,   \* 4000: what an exit report carries at most
  LogCap,      \* 262144: what the control plane keeps
  MaxBytes     \* bound: the length of a file

ASSUME LocalAssumption == Local \subseteq Node
ASSUME SizesAssumption == {ChunkBytes, TailBytes, LogCap} \subseteq Nat \ {0} /\ MaxBytes \in Nat

VARIABLES
  file,     \* the length of <job>.log on each node
  trainer,  \* per node: none, alive, ended but not reaped, or alive and in no table
  offset,   \* _log_offsets
  path,     \* is the file in _log_paths
  leftover, \* _pending_logs
  record,   \* the job's record: active at a node, idle or closed
  log       \* kv log_tail: the text and its "end"

vars == <<file, trainer, offset, path, leftover, record, log>>

Byte  == Node \X Nat \cup {<<"notice", 0>>}
Item  == [offset : Nat, size : Nat]
NoLog == [offset |-> 0, size |-> 0]

Bytes(n, item) == [i \in 1..item.size |-> <<n, item.offset + i>>]

Trailing(s, k) == IF Len(s) <= k THEN s ELSE SubSeq(s, Len(s) - k + 1, Len(s))

Within(s, t) == \E i \in 0..(Len(t) - Len(s)) : SubSeq(t, i + 1, i + Len(s)) = s

------------------------------------------------------------------------------
(* What the control plane does with what it gets.                           *)

\* Seeded fault: a chunk that was there before is appended again.
IngestAgain(blob, n, item) ==
  IF item.size = 0 THEN blob ELSE
  [text |-> Trailing(blob.text \o Bytes(n, item), LogCap), end |-> item.offset + item.size]

\* A chunk that begins before the end is dropped, all of it.
Ingest(blob, n, item) ==
  IF item.size = 0 \/ item.offset < blob.end THEN blob ELSE
  [text |-> Trailing(blob.text \o Bytes(n, item), LogCap), end |-> item.offset + item.size]

\* Seeded fault: the log grows without bound.
IngestUncut(blob, text) ==
  IF text = <<>> \/ Within(text, blob.text) THEN blob ELSE
  [text |-> blob.text \o text, end |-> blob.end + Len(text)]

\* Text without an offset, of an exit report.
IngestText(blob, text) ==
  IF text = <<>> \/ Within(text, blob.text) THEN blob
  ELSE IF blob.text # <<>> /\ Within(blob.text, text)
  THEN [text |-> Trailing(text, LogCap), end |-> IF Len(text) > blob.end THEN Len(text) ELSE blob.end]
  ELSE [text |-> Trailing(blob.text \o text, LogCap), end |-> blob.end + Len(text)]

\* get_job_log: the file itself, where the control plane has it and it is longer.
Shown ==
  LET longer == {n \in Local : Len(log.text) < file[n] /\ Len(log.text) < LogCap}
  IN  IF longer = {} THEN log.text
      ELSE Trailing(Bytes(CHOOSE n \in longer : TRUE,
                      [offset |-> 0, size |-> file[CHOOSE n \in longer : TRUE]]), LogCap)

------------------------------------------------------------------------------
(* What a worker sends.                                                     *)

\* _read_log_delta
Delta(n) ==
  LET from == IF offset[n] > file[n] THEN 0 ELSE offset[n]
      rest == file[n] - from
  IN  [offset |-> from, size |-> IF rest < ChunkBytes THEN rest ELSE ChunkBytes]

Listed(n) == trainer[n] \in {"alive", "ended"}

\* _collect_logs: of every file it knows, or what it kept of the last reap.
Collected(n) ==
  IF (path[n] \/ Listed(n)) /\ Delta(n).size > 0 THEN Delta(n) ELSE leftover[n]

\* Seeded fault: the rest of the file counts as sent.
CommittedAll(n, item) ==
  IF item.size = 0 THEN UNCHANGED <<offset, path, leftover>> ELSE
  /\ offset' = [offset EXCEPT ![n] = file[n]]
  /\ leftover' = [leftover EXCEPT ![n] = NoLog]
  /\ path' = [path EXCEPT ![n] = Listed(n)]

\* Seeded fault: a job that is not listed any more is forgotten at once.
CommittedLast(n, item) ==
  IF item.size = 0 THEN UNCHANGED <<offset, path, leftover>> ELSE
  /\ offset' = [offset EXCEPT ![n] = item.offset + item.size]
  /\ leftover' = [leftover EXCEPT ![n] = NoLog]
  /\ path' = [path EXCEPT ![n] = Listed(n)]

\* _commit_logs
Committed(n, item) ==
  IF item.size = 0 THEN UNCHANGED <<offset, path, leftover>> ELSE
  /\ offset' = [offset EXCEPT ![n] = item.offset + item.size]
  /\ leftover' = [leftover EXCEPT ![n] = NoLog]
  /\ path' = [path EXCEPT ![n] = Listed(n) \/ (@ /\ offset'[n] < file[n])]

\* What reconciliation reads into the heartbeat of n: a trainer that is listed and
\* dead has gone, one that is not listed may have, or may not have started yet.
Presumed(n) ==
  CASE record # n \/ trainer[n] = "alive" -> {"there"}
    [] record = n /\ trainer[n] = "ended" -> {"gone"}
    [] OTHER -> {"there", "gone"}

\* The exit it makes up has a text of its own, and the job goes on or is over.
Handled(n, item, presumed) ==
  LET shipped == Ingest(log, n, item)
  IN  IF presumed = "there" THEN log' = shipped /\ UNCHANGED record
      ELSE /\ log' = IngestText(shipped, <<<<"notice", 0>>>>)
           /\ record' \in {"idle", "closed"}

Beat(n, presumed) ==
  LET item == Collected(n)
  IN  /\ presumed \in Presumed(n)
      /\ Handled(n, item, presumed)
      /\ Committed(n, item)
      /\ UNCHANGED <<file, trainer>>

\* Handled, but the answer does not arrive: nothing is committed.
BeatUnanswered(n, presumed) ==
  /\ presumed \in Presumed(n)
  /\ Handled(n, Collected(n), presumed)
  /\ UNCHANGED <<file, trainer, offset, path, leftover>>

\* The exit report is lost, or finds the job closed, or is read for its text.
Reap(n, read) ==
  LET tail == Trailing(Bytes(n, [offset |-> 0, size |-> file[n]]), TailBytes)
  IN  /\ trainer[n] = "ended"
      /\ trainer' = [trainer EXCEPT ![n] = "none"]
      /\ path' = [path EXCEPT ![n] = TRUE]
      /\ leftover' = [leftover EXCEPT ![n] = IF Delta(n).size > 0 THEN Delta(n) ELSE @]
      /\ IF read
         THEN /\ record # "closed"
              /\ log' = IngestText(log, tail)
              /\ record' \in {"idle", "closed"}
         ELSE UNCHANGED <<log, record>>
      /\ UNCHANGED <<file, offset>>

\* safe_release_if_partitioned forgets the process and keeps the file.
PartitionRelease(n) ==
  /\ Listed(n)
  /\ trainer' = [trainer EXCEPT ![n] = IF @ = "alive" THEN "stray" ELSE "none"]
  /\ UNCHANGED <<file, offset, path, leftover, record, log>>

\* A new worker knows nothing of files and offsets.
WorkerRestart(n) ==
  /\ trainer' = [trainer EXCEPT ![n] = IF @ = "alive" THEN "stray" ELSE IF @ = "ended" THEN "none" ELSE @]
  /\ offset' = [offset EXCEPT ![n] = 0]
  /\ path' = [path EXCEPT ![n] = FALSE]
  /\ leftover' = [leftover EXCEPT ![n] = NoLog]
  /\ UNCHANGED <<file, record, log>>

------------------------------------------------------------------------------
(* The trainers.                                                            *)

\* Placed, told and started in one step; the first line goes to the file.
Start(n) ==
  /\ record = "idle"
  /\ ~Listed(n)
  /\ file[n] < MaxBytes
  /\ record' = n
  /\ trainer' = [trainer EXCEPT ![n] = "alive"]
  /\ file' = [file EXCEPT ![n] = @ + 1]
  /\ path' = [path EXCEPT ![n] = TRUE]
  /\ UNCHANGED <<offset, leftover, log>>

Write(n) ==
  /\ trainer[n] \in {"alive", "stray"}
  /\ file[n] < MaxBytes
  /\ file' = [file EXCEPT ![n] = @ + 1]
  /\ UNCHANGED <<trainer, offset, path, leftover, record, log>>

End(n) ==
  /\ trainer[n] \in {"alive", "stray"}
  /\ trainer' = [trainer EXCEPT ![n] = IF @ = "alive" THEN "ended" ELSE "none"]
  /\ UNCHANGED <<file, offset, path, leftover, record, log>>

------------------------------------------------------------------------------

Init ==
  /\ file = [n \in Node |-> 0]
  /\ trainer = [n \in Node |-> "none"]
  /\ offset = [n \in Node |-> 0]
  /\ path = [n \in Node |-> FALSE]
  /\ leftover = [n \in Node |-> NoLog]
  /\ record = "idle"
  /\ log = [text |-> <<>>, end |-> 0]

Next ==
  \E n \in Node :
    \/ \E p \in {"there", "gone"} : Beat(n, p) \/ BeatUnanswered(n, p)
    \/ \E read \in BOOLEAN : Reap(n, read)
    \/ PartitionRelease(n) \/ WorkerRestart(n)
    \/ Start(n) \/ Write(n) \/ End(n)

Spec == Init /\ [][Next]_vars

------------------------------------------------------------------------------
(* Properties.                                                              *)

\* Offsets, what is kept for the next heartbeat, and the blob have their types, and
\* the blob is never longer than the control plane allows (control/service.py).
LogTypeOK ==
  /\ file \in [Node -> 0..MaxBytes]
  /\ trainer \in [Node -> {"none", "alive", "ended", "stray"}]
  /\ offset \in [Node -> 0..MaxBytes]
  /\ path \in [Node -> BOOLEAN]
  /\ leftover \in [Node -> Item]
  /\ record \in Node \cup {"idle", "closed"}
  /\ log.text \in Seq(Byte) /\ Len(log.text) <= LogCap /\ log.end \in Nat

\* The bytes of a file stand in the log in their order, each at most once.
InOrder ==
  \A i, k \in DOMAIN log.text :
    i < k /\ log.text[i][1] = log.text[k][1] /\ log.text[i][1] # "notice"
      => log.text[i][2] < log.text[k][2]

\* .agents/IMPROVEMENT_LOG.md: no silent gaps.  What a worker counts as shipped is
\* shown, unless it made way at the front of a full log.
NoSilentGaps ==
  \A n \in Node : \A k \in 1..offset[n] :
    \/ <<n, k>> \in {Shown[i] : i \in DOMAIN Shown}
    \/ Len(Shown) = LogCap /\ \A m \in 1..k : <<n, m>> \notin {Shown[i] : i \in DOMAIN Shown}

==============================================================================
