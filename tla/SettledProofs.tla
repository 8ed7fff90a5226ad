---------------------------- MODULE SettledProofs ----------------------------
(***************************************************************************)
(* While nothing has happened after which a trainer may go on that no record *)
(* knows of, and no placement has overtaken the exit before it, the records  *)
(* say where the trainers are: for any platform and any number of lost calls, *)
(* crashes, researchers, preemptions and restarts of the control plane.       *)
(***************************************************************************)
EXTENDS MCPlatform, PlatformProofs, FiniteSetTheorems

------------------------------------------------------------------------------
(* The invariant, for one job: its record r, and on each node n its process   *)
(* p, the queue that waits for the node's worker and the one in its inbox.    *)

\* The devices of the orders to start in a queue.
Starts(queue) == {queue[i].gpus : i \in {k \in DOMAIN queue : queue[k].kind = "START"}}

ActiveOn(r, n) == r.state \in ActiveStates /\ r.node = n

\* A living trainer is where the record says, and did not see an anomaly.
Trained(r, p, n) ==
  p.st \in Living => p.st \in {"up", "asked", "told"} /\ ActiveOn(r, n) /\ r.gpus = p.gpus

\* A job that an order to start is on its way for still waits for it.
Awaited(r, queue, n) ==
  \A G \in Starts(queue) : r.state \in {"SCHEDULED", "RESUMING"} /\ r.node = n /\ r.gpus = G

Matched(s, p, b, j) ==
  \A n \in Node :
    /\ Trained(s.job[j], p[n][j], n)
    /\ Awaited(s.job[j], s.pending[n][j], n)
    /\ Awaited(s.job[j], b[n][j], n)
    /\ Starts(s.pending[n][j]) # {} \/ Starts(b[n][j]) # {} =>
         \A m \in Node : p[m][j].st \notin Living
    /\ Starts(s.pending[n][j]) = {} \/ Starts(b[n][j]) = {}

AllMatched(s, p, b) == \A j \in Job : Matched(s, p, b, j)

\* Outside of apply_actions a worker has no order to start in its inbox.
Applied(ph, b) == \A n \in Node, j \in Job : ph[n] # "apply" => Starts(b[n][j]) = {}

\* The steps that neither place a job nor end or start its run.
CalmFor(s, t, j) ==
  /\ t.job[j].state \in ActiveStates <=> s.job[j].state \in ActiveStates
  /\ s.job[j].state \in {"SCHEDULED", "RESUMING"} => t.job[j].state = s.job[j].state
  /\ t.job[j].gpus = s.job[j].gpus
  /\ t.job[j].node = s.job[j].node
  /\ \A n \in Node : Starts(t.pending[n][j]) \subseteq Starts(s.pending[n][j])

Calm(s, t) ==
  /\ \A j \in Job : CalmFor(s, t, j)
  /\ StaleNodes(s) = {} => StaleNodes(t) = {}

\* A calm step leaves the trainers where the records say.
LEMMA CalmMatched ==
  ASSUME NEW s, NEW t, NEW p, NEW b, NEW j \in Job, Matched(s, p, b, j), CalmFor(s, t, j)
  PROVE  Matched(t, p, b, j)
<1> SUFFICES ASSUME NEW n \in Node
             PROVE  /\ Trained(t.job[j], p[n][j], n)
                    /\ Awaited(t.job[j], t.pending[n][j], n)
                    /\ Awaited(t.job[j], b[n][j], n)
                    /\ Starts(t.pending[n][j]) # {} \/ Starts(b[n][j]) # {} =>
                         \A m \in Node : p[m][j].st \notin Living
                    /\ Starts(t.pending[n][j]) = {} \/ Starts(b[n][j]) = {}
  BY DEF Matched
<1>1. /\ Trained(s.job[j], p[n][j], n)
      /\ Awaited(s.job[j], s.pending[n][j], n)
      /\ Awaited(s.job[j], b[n][j], n)
      /\ Starts(s.pending[n][j]) # {} \/ Starts(b[n][j]) # {} =>
           \A m \in Node : p[m][j].st \notin Living
      /\ Starts(s.pending[n][j]) = {} \/ Starts(b[n][j]) = {}
  BY DEF Matched
<1>2. Starts(t.pending[n][j]) \subseteq Starts(s.pending[n][j])
  BY DEF CalmFor
<1>3. ActiveOn(s.job[j], n) => ActiveOn(t.job[j], n)
  BY DEF ActiveOn, CalmFor
<1>4. Trained(t.job[j], p[n][j], n)
  BY <1>1, <1>3 DEF Trained, CalmFor
<1>5. Awaited(t.job[j], t.pending[n][j], n) /\ Awaited(t.job[j], b[n][j], n)
  BY <1>1, <1>2 DEF Awaited, CalmFor
<1> QED
  BY <1>1, <1>2, <1>4, <1>5

\* Calm steps compose.
LEMMA CalmComposes ==
  ASSUME NEW s, NEW t, NEW u, Calm(s, t), Calm(t, u)
  PROVE  Calm(s, u)
BY DEF Calm, CalmFor

\* The orders to start in a queue that an order is added to.
LEMMA PushStarts ==
  ASSUME NEW q \in Seq(Action), NEW a \in Action
  PROVE  /\ a.kind # "START" => Starts(Push(q, a)) = Starts(q)
         /\ a.kind = "START" => Starts(Push(q, a)) = Starts(q) \cup {a.gpus}
<1>1. CASE q # <<>> /\ q[Len(q)] = a
  <2>1. Push(q, a) = q
    BY <1>1 DEF Push
  <2>2. a.kind = "START" => a.gpus \in Starts(q)
    BY <1>1 DEF Starts
  <2> QED
    BY <2>1, <2>2
<1>2. CASE ~(q # <<>> /\ q[Len(q)] = a)
  <2>1. Push(q, a) = Append(q, a)
    BY <1>2 DEF Push
  <2>2. /\ DOMAIN Append(q, a) = DOMAIN q \cup {Len(q) + 1}
        /\ Append(q, a)[Len(q) + 1] = a
        /\ \A i \in DOMAIN q : i # Len(q) + 1 /\ Append(q, a)[i] = q[i]
    OBVIOUS
  <2> QED
    BY <2>1, <2>2 DEF Starts
<1> QED
  BY <1>1, <1>2

\* There are none in an empty queue.
LEMMA NoStarts == Starts(<<>>) = {}
BY DEF Starts

------------------------------------------------------------------------------
(* The calm steps.                                                           *)

\* Doing nothing.
LEMMA StillCalm ==
  ASSUME NEW s, NEW t, t.job = s.job, t.pending = s.pending, t.heard = s.heard
  PROVE  Calm(s, t)
BY DEF Calm, CalmFor, StaleNodes

\* Queueing an order that is not one to start.
LEMMA TellCalm ==
  ASSUME NEW s \in Snapshot, NEW J, NEW a \in Action, a.kind # "START"
  PROVE  Calm(s, Tell(s, J, a))
<1>1. Tell(s, J, a).job = s.job /\ Tell(s, J, a).heard = s.heard
  BY TellShape
<1>2. ASSUME NEW n \in Node, NEW j \in Job
      PROVE  Starts(Tell(s, J, a).pending[n][j]) = Starts(s.pending[n][j])
  <2>1. s.pending[n][j] \in Seq(Action)
    BY DEF Snapshot, Backlogs
  <2>2. Tell(s, J, a).pending[n][j] \in {s.pending[n][j], Push(s.pending[n][j], a)}
    BY DEF Tell, Snapshot, Backlogs
  <2> QED
    BY <2>1, <2>2, PushStarts
<1> QED
  BY <1>1, <1>2 DEF Calm, CalmFor, StaleNodes

\* Replacing job records, when no job's record moves.
LEMMA JobsCalm ==
  ASSUME NEW s \in Snapshot, NEW f \in Jobs,
         \A j \in Job :
           /\ f[j].gpus = s.job[j].gpus
           /\ f[j].node = s.job[j].node
           /\ \/ f[j].state = s.job[j].state
              \/ s.job[j].state = "RUNNING" /\ f[j].state = "CHECKPOINTING"
              \/ s.job[j].state = "NONE" /\ f[j].state = "PENDING"
  PROVE  Calm(s, [s EXCEPT !.job = f])
<1> DEFINE t == [s EXCEPT !.job = f]
<1>1. t.job = f /\ t.pending = s.pending /\ t.heard = s.heard
  BY DEF Snapshot
<1> HIDE DEF t
<1>2. \A j \in Job : CalmFor(s, t, j)
  BY <1>1 DEF CalmFor, ActiveStates
<1> QED
  BY <1>1, <1>2 DEF Calm, StaleNodes, t

\* Replacing one of them.
LEMMA SetJobCalm ==
  ASSUME NEW s \in Snapshot, NEW j \in Job, NEW r \in JobRecord,
         r.gpus = s.job[j].gpus, r.node = s.job[j].node,
         \/ r.state = s.job[j].state
         \/ s.job[j].state = "NONE" /\ r.state = "PENDING"
  PROVE  Calm(s, SetJob(s, j, r))
<1> DEFINE f == [s.job EXCEPT ![j] = r]
<1>1. f \in Jobs /\ \A k \in Job : f[k] = IF k = j THEN r ELSE s.job[k]
  BY DEF Snapshot, Jobs
<1> HIDE DEF f
<1>2. Calm(s, [s EXCEPT !.job = f])
  BY <1>1, JobsCalm
<1> QED
  BY <1>2 DEF SetJob, f

\* Asking jobs to leave.
LEMMA PreemptCalm ==
  ASSUME NEW s \in Snapshot, NEW J
  PROVE  Calm(s, PreemptJobs(s, J))
<1> DEFINE asked == J \cap Active(s)
           told == Tell(s, asked, Order("PREEMPT"))
           f == [j \in Job |-> IF j \in asked THEN Asked(s.job[j]) ELSE s.job[j]]
<1>1. CASE asked = {}
  BY <1>1, StillCalm DEF PreemptJobs
<1>2. CASE asked # {}
  <2>1. Order("PREEMPT") \in Action /\ Order("PREEMPT").kind # "START"
    BY OrderShape DEF Order
  <2>2. told \in Snapshot /\ told.job = s.job /\ Calm(s, told)
    BY <2>1, TellShape, TellCalm
  <2>3. \A j \in Job :
          /\ Asked(s.job[j]) \in JobRecord
          /\ Asked(s.job[j]).gpus = s.job[j].gpus
          /\ Asked(s.job[j]).node = s.job[j].node
          /\ Asked(s.job[j]).state =
               IF s.job[j].state = "RUNNING" THEN "CHECKPOINTING" ELSE s.job[j].state
    BY AskedShape DEF Snapshot, Jobs
  <2>5. PreemptJobs(s, J) = [told EXCEPT !.job = f]
    BY <1>2 DEF PreemptJobs
  <2> HIDE DEF told
  <2>6. f \in Jobs
    BY <2>3 DEF Snapshot, Jobs
  <2>7. \A j \in Job : f[j] = s.job[j] \/ f[j] = Asked(s.job[j])
    OBVIOUS
  <2> HIDE DEF f, asked
  <2>8. Calm(told, [told EXCEPT !.job = f])
    BY <2>2, <2>3, <2>6, <2>7, JobsCalm
  <2> QED
    BY <2>2, <2>5, <2>8, CalmComposes
<1> QED
  BY <1>1, <1>2
------------------------------------------------------------------------------
(* Placing jobs.                                                             *)

\* Placing queues an order to start for each job that is placed, at its new node.
LEMMA AllocateQueues ==
  ASSUME NEW s \in Snapshot, NEW P
  PROVE  /\ Allocate(s, P).heard = s.heard
         /\ \A n \in Node, j \in Job :
              Allocate(s, P).pending[n][j] =
                IF P[j] # {} /\ HomeOf(P[j]) = n
                THEN Push(s.pending[n][j], [kind |-> "START", gpus |-> P[j]])
                ELSE s.pending[n][j]
BY DEF Allocate, Snapshot

\* A job that a pass may place has no living trainer anywhere, nor one on its way.
LEMMA ReadyIsIdle ==
  ASSUME NEW s, NEW p, NEW b, NEW j \in Job, Matched(s, p, b, j), j \in Ready(s)
  PROVE  \A n \in Node : /\ p[n][j].st \notin Living
                         /\ Starts(s.pending[n][j]) = {}
                         /\ Starts(b[n][j]) = {}
<1> TAKE n \in Node
<1>1. s.job[j].state \in {"PENDING", "QUEUED", "PREEMPTED"}
  BY DEF Ready, QueuedStates
<1>2. s.job[j].state \notin ActiveStates
  BY <1>1 DEF ActiveStates
<1>3. p[n][j].st \notin Living
  BY <1>2 DEF Matched, Trained, ActiveOn
<1>4. Starts(s.pending[n][j]) = {} /\ Starts(b[n][j]) = {}
  BY <1>1 DEF Matched, Awaited
<1> QED
  BY <1>3, <1>4

\* Placing leaves the trainers where the records say.
LEMMA AllocateMatched ==
  ASSUME NEW r, NEW s \in Snapshot, NEW P \in Passes(r),
         \A j \in Job \ Active(r) : s.job[j] = r.job[j],
         NEW p, NEW b, AllMatched(s, p, b)
  PROVE  AllMatched(Allocate(s, P), p, b)
<1> DEFINE t == Allocate(s, P)
<1>1. t.heard = s.heard /\ \A n \in Node, j \in Job :
        t.pending[n][j] = IF P[j] # {} /\ HomeOf(P[j]) = n
                          THEN Push(s.pending[n][j], [kind |-> "START", gpus |-> P[j]])
                          ELSE s.pending[n][j]
  BY AllocateQueues
<1>2. \A j \in Job : t.job[j] = IF P[j] = {} THEN s.job[j] ELSE Placed(s.job[j], P[j])
  BY AllocateShape
<1> HIDE DEF t
<1> SUFFICES ASSUME NEW j \in Job PROVE Matched(t, p, b, j)
  BY DEF AllMatched, t
<1>3. Matched(s, p, b, j)
  BY DEF AllMatched
<1>4. CASE P[j] = {}
  <2>1. CalmFor(s, t, j)
    BY <1>1, <1>2, <1>4 DEF CalmFor
  <2> QED
    BY <1>3, <2>1, CalmMatched
<1>5. CASE P[j] # {}
  <2>1. P[j] \in SUBSET Gpu /\ HomeOf(P[j]) \in Node /\ j \in Ready(r)
    BY <1>5, PassShape
  <2>2. s.job[j] = r.job[j]
    BY <2>1 DEF Ready, Active, QueuedStates, ActiveStates
  <2>3. j \in Ready(s)
    BY <2>1, <2>2 DEF Ready
  <2>4. \A n \in Node : /\ p[n][j].st \notin Living
                        /\ Starts(s.pending[n][j]) = {}
                        /\ Starts(b[n][j]) = {}
    BY <1>3, <2>3, ReadyIsIdle
  <2>5. /\ t.job[j].state \in {"SCHEDULED", "RESUMING"}
        /\ t.job[j].gpus = P[j]
        /\ t.job[j].node = HomeOf(P[j])
    <3>1. s.job[j] \in JobRecord
      BY DEF Snapshot, Jobs
    <3> QED
      BY <1>2, <1>5, <2>1, <3>1, PlacedShape
  <2>6. ASSUME NEW n \in Node
        PROVE  Starts(t.pending[n][j]) = IF HomeOf(P[j]) = n THEN {P[j]} ELSE {}
    <3> DEFINE start == [kind |-> "START", gpus |-> P[j]]
    <3>1. start \in Action /\ start.kind = "START" /\ start.gpus = P[j]
      BY <2>1 DEF Action
    <3>2. s.pending[n][j] \in Seq(Action)
      BY DEF Snapshot, Backlogs
    <3>3. t.pending[n][j] = IF HomeOf(P[j]) = n THEN Push(s.pending[n][j], start) ELSE s.pending[n][j]
      BY <1>1, <1>5
    <3> HIDE DEF start
    <3> QED
      BY <2>4, <3>1, <3>2, <3>3, PushStarts
  <2> QED
    BY <2>4, <2>5, <2>6 DEF Matched, Trained, Awaited
<1> QED
  BY <1>4, <1>5

\* So does a pass, when no node is silent.
LEMMA TickMatched ==
  ASSUME NEW s \in Snapshot, StaleNodes(s) = {}, NEW t \in TickResults(s),
         NEW p, NEW b, AllMatched(s, p, b)
  PROVE  AllMatched(t, p, b) /\ StaleNodes(t) = {}
<1> DEFINE evicted == PreemptJobs(s, Victims(s) \cup Exceeded(s))
<1>1. Reclaim(s) = s
  BY DEF Reclaim
<1>2. t = evicted \/ \E P \in Passes(s) : t = Allocate(evicted, P)
  BY <1>1 DEF TickResults
<1>3. /\ evicted \in Snapshot
      /\ Calm(s, evicted)
      /\ \A j \in Job \ Active(s) : evicted.job[j] = s.job[j]
  BY PreemptSafe, PreemptCalm DEF Safe
<1> HIDE DEF evicted
<1>4. AllMatched(evicted, p, b) /\ StaleNodes(evicted) = {}
  BY <1>3, CalmMatched DEF Calm, AllMatched
<1>5. ASSUME NEW P \in Passes(s)
      PROVE  AllMatched(Allocate(evicted, P), p, b) /\ StaleNodes(Allocate(evicted, P)) = {}
  <2>1. AllMatched(Allocate(evicted, P), p, b)
    BY <1>3, <1>4, AllocateMatched
  <2>2. Allocate(evicted, P).heard = evicted.heard
    BY <1>3, AllocateQueues
  <2> QED
    BY <1>4, <2>1, <2>2 DEF StaleNodes
<1> QED
  BY <1>2, <1>4, <1>5

------------------------------------------------------------------------------
(* Ending runs.                                                              *)

\* A job no trainer of which lives or is on its way.
Resting(s, p, b, j) ==
  \A n \in Node : /\ p[n][j].st \notin Living
                  /\ Starts(s.pending[n][j]) = {}
                  /\ Starts(b[n][j]) = {}

\* An exit makes of a record one that holds nothing, or nothing new.
LEMMA SettledEnds ==
  ASSUME NEW r \in JobRecord, NEW verdict
  PROVE  \/ Settled(r, verdict).state \notin ActiveStates
         \/ Settled(r, verdict) = r
BY SettledShape DEF ActiveStates

\* Exits of jobs whose trainers are gone leave the trainers where the records say.
LEMMA ExitsMatched ==
  ASSUME NEW s \in Snapshot, NEW exits, DOMAIN exits \subseteq Job,
         \A j \in DOMAIN exits : exits[j].dir \in RunDir,
         NEW p, NEW b, AllMatched(s, p, b),
         \A j \in DOMAIN exits : Resting(s, p, b, j)
  PROVE  AllMatched(JobExits(s, exits), p, b) /\ JobExits(s, exits).heard = s.heard
<1> DEFINE ended == {j \in DOMAIN exits : ~Closed(s.job[j])}
           freed == Release(s, ended)
           synced(j) == Synced(s.job[j], exits[j].dir)
           settled_(j) == Settled(synced(j), Verdict(s.job[j], exits[j].exit, exits[j].dir))
           f == [j \in Job |-> IF j \notin DOMAIN exits THEN s.job[j]
                               ELSE IF j \in ended THEN settled_(j) ELSE synced(j)]
           t == JobExits(s, exits)
<1>1. t = [freed EXCEPT !.job = f]
  BY DEF JobExits
<1>2. freed \in Snapshot /\ freed.pending = s.pending /\ freed.heard = s.heard
  BY ReleaseShape DEF Release, Snapshot
<1>3. \A j \in DOMAIN exits :
        /\ synced(j) \in JobRecord
        /\ synced(j).state = s.job[j].state
        /\ synced(j).gpus = s.job[j].gpus
        /\ synced(j).node = s.job[j].node
  BY SyncedShape DEF Snapshot, Jobs
<1> HIDE DEF freed, synced
<1>4. \A j \in DOMAIN exits : settled_(j).state \notin ActiveStates \/ settled_(j) = synced(j)
  BY <1>3, SettledEnds
<1>5. \A j \in Job : f[j] = IF j \notin DOMAIN exits THEN s.job[j]
                             ELSE IF j \in ended THEN settled_(j) ELSE synced(j)
  OBVIOUS
<1> HIDE DEF settled_, ended, f
<1>6. t.job = f /\ t.pending = s.pending /\ t.heard = s.heard
  BY <1>1, <1>2 DEF Snapshot
<1> HIDE DEF t
<1>7. ASSUME NEW j \in Job
      PROVE  Matched(t, p, b, j)
  <2>1. Matched(s, p, b, j)
    BY DEF AllMatched
  <2>2. CASE /\ t.job[j].state = s.job[j].state
             /\ t.job[j].gpus = s.job[j].gpus
             /\ t.job[j].node = s.job[j].node
    <3>1. CalmFor(s, t, j)
      BY <1>6, <2>2 DEF CalmFor
    <3> QED
      BY <2>1, <3>1, CalmMatched
  <2>3. CASE t.job[j].state \notin ActiveStates /\ j \in DOMAIN exits
    <3>1. Resting(s, p, b, j)
      BY <2>3
    <3> QED
      BY <1>6, <2>3, <3>1 DEF Matched, Resting, Trained, Awaited
  <2> QED
    BY <1>3, <1>4, <1>5, <1>6, <2>2, <2>3
<1> QED
  BY <1>6, <1>7 DEF AllMatched, t

\* A job whose trainer has ended on a node rests, when no placement has overtaken the
\* exit and the node's worker has no start to carry out.
LEMMA EndedRests ==
  ASSUME NEW s, NEW p, NEW b, NEW j \in Job, Matched(s, p, b, j),
         NEW n \in Node, p[n][j].st \in Ended, Starts(b[n][j]) = {},
         s.job[j].state \in ActiveStates => s.job[j].node = n /\ Starts(s.pending[n][j]) = {}
  PROVE  Resting(s, p, b, j)
<1> SUFFICES ASSUME NEW m \in Node
             PROVE  /\ p[m][j].st \notin Living
                    /\ Starts(s.pending[m][j]) = {}
                    /\ Starts(b[m][j]) = {}
  BY DEF Resting
<1>1. p[n][j].st \notin Living
  BY DEF Ended, Living
<1>2. p[m][j].st \in Living => ActiveOn(s.job[j], m)
  BY DEF Matched, Trained
<1>3. p[m][j].st \notin Living
  BY <1>1, <1>2 DEF ActiveOn
<1>4. Awaited(s.job[j], s.pending[m][j], m) /\ Awaited(s.job[j], b[m][j], m)
  BY DEF Matched
<1>5. Starts(s.pending[m][j]) # {} \/ Starts(b[m][j]) # {} =>
        s.job[j].state \in ActiveStates /\ s.job[j].node = m
  BY <1>4 DEF Awaited, ActiveStates
<1> QED
  BY <1>3, <1>5

\* So does a job that runs by its record on a node whose worker does not list it.
LEMMA LostRests ==
  ASSUME NEW s, NEW p, NEW b, NEW j \in Job, Matched(s, p, b, j),
         NEW n \in Node, p[n][j].st = "none", s.job[j].node = n,
         s.job[j].state \in {"RUNNING", "CHECKPOINTING"}
  PROVE  Resting(s, p, b, j)
<1> SUFFICES ASSUME NEW m \in Node
             PROVE  /\ p[m][j].st \notin Living
                    /\ Starts(s.pending[m][j]) = {}
                    /\ Starts(b[m][j]) = {}
  BY DEF Resting
<1>1. p[m][j].st \notin Living
  BY DEF Matched, Trained, ActiveOn, Living
<1>2. Starts(s.pending[m][j]) = {} /\ Starts(b[m][j]) = {}
  BY DEF Matched, Awaited
<1> QED
  BY <1>1, <1>2

\* Trainers may end, and processes that ended may be dropped from the table.
LEMMA EndingMatched ==
  ASSUME NEW s, NEW p, NEW q, NEW b, AllMatched(s, p, b),
         \A n \in Node, j \in Job :
           \/ q[n][j] = p[n][j]
           \/ q[n][j].st = "none"
           \/ p[n][j].st \in Living /\ q[n][j].st \in Ended
  PROVE  AllMatched(s, q, b)
<1> SUFFICES ASSUME NEW j \in Job PROVE Matched(s, q, b, j)
  BY DEF AllMatched
<1>1. Matched(s, p, b, j)
  BY DEF AllMatched
<1>2. "none" \notin Living \cup Ended /\ Living \cap Ended = {}
  BY DEF Living, Ended
<1>3. ASSUME NEW n \in Node
      PROVE  Trained(s.job[j], q[n][j], n)
  BY <1>1, <1>2 DEF Matched, Trained
<1>4. ASSUME \A m \in Node : p[m][j].st \notin Living
      PROVE  \A m \in Node : q[m][j].st \notin Living
  BY <1>2, <1>4
<1> QED
  BY <1>1, <1>3, <1>4 DEF Matched

------------------------------------------------------------------------------
(* The worker's orders.                                                      *)

\* Without an order to start, a process goes on, is told to leave, or is killed.
LEMMA OrdersEnd ==
  ASSUME NEW p \in Process, p.st \notin {"failing", "parting"},
         NEW queue \in Seq(Action), Starts(queue) = {}
  PROVE  LET q == Obeying(p, queue)
         IN  /\ q.gpus = p.gpus
             /\ p.st \notin Living => q = p
             /\ p.st \in Living => q.st \in {"up", "asked", "told", "killed"}
<1> DEFINE S == {x \in Process : /\ x.gpus = p.gpus
                                 /\ p.st \notin Living => x = p
                                 /\ p.st \in Living => x.st \in {"up", "asked", "told", "killed"}}
<1>1. p \in S
  BY DEF Living
<1>2. ASSUME NEW x \in S, NEW i \in 1..Len(queue)
      PROVE  Obey(x, queue[i]) \in S
  <2>0. i \in DOMAIN queue /\ queue[i] \in Action
    OBVIOUS
  <2>1. queue[i] \in Action /\ queue[i].kind # "START"
    <3>1. queue[i].kind = "START" => queue[i].gpus \in Starts(queue)
      BY <2>0 DEF Starts
    <3> QED
      BY <2>0, <3>1
  <2>2. Obey(x, queue[i]) \in Process
    BY <2>1, ObeyShape
  <2>3. Obey(x, queue[i]).gpus = x.gpus
    BY <2>1 DEF Obey, Process
  <2>4. x.st \notin Living => Obey(x, queue[i]) = x
    BY <2>1 DEF Obey, Living
  <2>5. x.st \in {"up", "asked", "told", "killed"} =>
          Obey(x, queue[i]).st \in {"up", "asked", "told", "killed"}
    BY <2>1 DEF Obey, Process
  <2> QED
    BY <2>2, <2>3, <2>4, <2>5
<1> HIDE DEF S
<1>3. Obeying(p, queue) \in S
  BY <1>1, <1>2, ObeyingStays
<1> QED
  BY <1>3 DEF S

\* Orders to start, all for the same devices, start a trainer there or nothing.
LEMMA OrdersStart ==
  ASSUME NEW p \in Process, p.st \notin Living, NEW G \in SUBSET Gpu,
         NEW queue \in Seq(Action), Starts(queue) \subseteq {G}
  PROVE  LET q == Obeying(p, queue)
         IN  q.st \in Living => q.st \in {"up", "asked", "told"} /\ q.gpus = G
<1> DEFINE S == {x \in Process : x.st \in Living => x.st \in {"up", "asked", "told"} /\ x.gpus = G}
<1>1. p \in S
  OBVIOUS
<1>2. ASSUME NEW x \in S, NEW i \in 1..Len(queue)
      PROVE  Obey(x, queue[i]) \in S
  <2>1. queue[i] \in Action /\ (queue[i].kind = "START" => queue[i].gpus = G)
    BY DEF Starts
  <2>2. Obey(x, queue[i]) \in Process
    BY <2>1, ObeyShape
  <2>3. \/ Obey(x, queue[i]) = x
        \/ Obey(x, queue[i]) = [st |-> "up", gpus |-> G]
        \/ /\ x.st \in Living
           /\ \E st \in {"asked", "told", "killed"} : Obey(x, queue[i]) = [x EXCEPT !.st = st]
    BY <2>1 DEF Obey, Living
  <2> QED
    BY <2>2, <2>3 DEF Process, Living
<1> HIDE DEF S
<1>3. Obeying(p, queue) \in S
  BY <1>1, <1>2, ObeyingStays
<1> QED
  BY <1>3 DEF S

\* Applying an inbox leaves the trainers where the records say.
LEMMA ApplyMatched ==
  ASSUME NEW s \in Snapshot, NEW p \in Processes, NEW b \in Backlogs, AllMatched(s, p, b),
         NEW n \in Node
  PROVE  AllMatched(s, [p EXCEPT ![n] = [j \in Job |-> Obeying(p[n][j], b[n][j])]],
                       [b EXCEPT ![n] = Nothing])
<1> DEFINE q == [p EXCEPT ![n] = [j \in Job |-> Obeying(p[n][j], b[n][j])]]
           c == [b EXCEPT ![n] = Nothing]
<1> SUFFICES ASSUME NEW j \in Job PROVE Matched(s, q, c, j)
  BY DEF AllMatched
<1> DEFINE new == Obeying(p[n][j], b[n][j])
<1>1. q[n][j] = new /\ \A m \in Node \ {n} : q[m][j] = p[m][j]
  BY DEF Processes
<1>2. Starts(c[n][j]) = {} /\ \A m \in Node \ {n} : c[m][j] = b[m][j]
  BY NoStarts DEF Backlogs, Nothing
<1>3. p[n][j] \in Process /\ b[n][j] \in Seq(Action)
  BY DEF Processes, Backlogs
<1>4. Matched(s, p, b, j)
  BY DEF AllMatched
<1> HIDE DEF q, c, new
<1>6. CASE Starts(b[n][j]) = {}
  <2>1. p[n][j].st \notin {"failing", "parting"}
    BY <1>4 DEF Matched, Trained, Living
  <2>2. /\ new.gpus = p[n][j].gpus
        /\ p[n][j].st \notin Living => new = p[n][j]
        /\ p[n][j].st \in Living => new.st \in {"up", "asked", "told", "killed"}
    BY <1>3, <1>6, <2>1, OrdersEnd DEF new
  <2>3. ASSUME NEW m \in Node
        PROVE  Trained(s.job[j], q[m][j], m)
    <3>1. CASE m = n
      <4>1. Trained(s.job[j], p[n][j], n)
        BY <1>4 DEF Matched
      <4> QED
        BY <1>1, <2>2, <3>1, <4>1 DEF Trained, Living
    <3>2. CASE m # n
      BY <1>1, <1>4, <3>2 DEF Matched
    <3> QED
      BY <3>1, <3>2
  <2>4. ASSUME \A m \in Node : p[m][j].st \notin Living
        PROVE  \A m \in Node : q[m][j].st \notin Living
    BY <1>1, <2>2, <2>4
  <2>5. \A m \in Node : Starts(c[m][j]) = Starts(b[m][j])
    BY <1>2, <1>6
  <2> QED
    BY <1>4, <2>3, <2>4, <2>5 DEF Matched, Awaited
<1>7. CASE Starts(b[n][j]) # {}
  <2>1. /\ s.job[j].state \in {"SCHEDULED", "RESUMING"}
        /\ s.job[j].node = n
        /\ Starts(b[n][j]) \subseteq {s.job[j].gpus}
        /\ \A m \in Node : p[m][j].st \notin Living
        /\ Starts(s.pending[n][j]) = {}
    BY <1>4, <1>7 DEF Matched, Awaited
  <2>2. s.job[j].gpus \in SUBSET Gpu
    BY DEF Snapshot, Jobs, JobRecord
  <2>3. new.st \in Living => new.st \in {"up", "asked", "told"} /\ new.gpus = s.job[j].gpus
    BY <1>3, <2>1, <2>2, OrdersStart DEF new
  <2>4. \A m \in Node : Starts(s.pending[m][j]) = {} /\ Starts(c[m][j]) = {}
    BY <1>2, <1>4, <2>1 DEF Matched, Awaited
  <2>5. ActiveOn(s.job[j], n)
    BY <2>1 DEF ActiveOn, ActiveStates
  <2>6. ASSUME NEW m \in Node
        PROVE  Trained(s.job[j], q[m][j], m)
    BY <1>1, <2>1, <2>3, <2>5 DEF Trained
  <2> QED
    BY <2>4, <2>6 DEF Matched, Awaited
<1> QED
  BY <1>6, <1>7

\* The answer to a heartbeat, arriving or not, leaves the trainers where the records say.
LEMMA DeliveredMatched ==
  ASSUME NEW s \in Snapshot, NEW p, NEW b \in Backlogs, AllMatched(s, p, b), NEW n \in Node,
         NEW answered
  PROVE  LET c == [b EXCEPT ![n] = IF answered THEN s.pending[n] ELSE Nothing]
         IN  AllMatched(Delivered(s, n), p, c)
<1> DEFINE c == [b EXCEPT ![n] = IF answered THEN s.pending[n] ELSE Nothing]
           t == Delivered(s, n)
<1> SUFFICES ASSUME NEW j \in Job PROVE Matched(t, p, c, j)
  BY DEF AllMatched
<1>1. /\ t.job = s.job
      /\ Starts(t.pending[n][j]) = {}
      /\ \A m \in Node \ {n} : t.pending[m][j] = s.pending[m][j]
  BY NoStarts DEF Delivered, Snapshot, Backlogs
<1>2. Starts(Nothing[j]) = {}
  BY NoStarts DEF Nothing
<1>3. /\ Starts(c[n][j]) = {} \/ Starts(c[n][j]) = Starts(s.pending[n][j])
      /\ \A m \in Node \ {n} : c[m][j] = b[m][j]
  BY <1>2 DEF Backlogs
<1>4. Matched(s, p, b, j)
  BY DEF AllMatched
<1> HIDE DEF c, t
<1>5. ASSUME NEW m \in Node
      PROVE  /\ Awaited(s.job[j], t.pending[m][j], m)
             /\ Awaited(s.job[j], c[m][j], m)
             /\ Starts(t.pending[m][j]) # {} \/ Starts(c[m][j]) # {} =>
                  \A k \in Node : p[k][j].st \notin Living
             /\ Starts(t.pending[m][j]) = {} \/ Starts(c[m][j]) = {}
  <2>1. CASE m = n
    BY <1>1, <1>3, <1>4, <2>1 DEF Matched, Awaited
  <2>2. CASE m # n
    BY <1>1, <1>3, <1>4, <2>2 DEF Matched
  <2> QED
    BY <2>1, <2>2
<1> QED
  BY <1>1, <1>4, <1>5 DEF Matched

------------------------------------------------------------------------------
(* The steps of a platform that is settled.                                  *)

Followed ==
  /\ strays = {}
  /\ StaleNodes(Store) = {}
  /\ Sound(Store)
  /\ AllMatched(Store, proc, inbox)
  /\ Applied(phase, inbox)
  /\ ~Overtaken

Shaped == TypeOK /\ PlatformTypeOK

\* What a step must be shown to do, soundness and cooldowns aside.
Follows ==
  /\ strays' = {}
  /\ StaleNodes(Store') = {}
  /\ AllMatched(Store', proc', inbox')
  /\ Applied(phase', inbox')

\* What the shape says of the tables.
LEMMA ShapedTables == Shaped => Store \in Snapshot /\ proc \in Processes /\ inbox \in Backlogs
BY StoreShape DEF Shaped, PlatformTypeOK, Processes, Process, Backlogs

\* The store after a handler is the snapshot that it installs.
LEMMA Installed ==
  ASSUME NEW t \in Snapshot, Install(t)
  PROVE  Store' = t
BY DEF Install, Store, Snapshot

\* What it says of an exit that waits to be reaped that no placement has overtaken it.
LEMMA EndedInTime ==
  ASSUME ~Overtaken, NEW n \in Node, NEW j \in Job, proc[n][j].st \in Ended,
         job[j].state \in ActiveStates
  PROVE  job[j].node = n /\ Starts(pending[n][j]) = {}
<1>1. j \in Active(Store)
  BY DEF Active, Store
<1>2. job[j].node = n /\ \A i \in DOMAIN pending[n][j] : pending[n][j][i].kind # "START"
  BY <1>1 DEF Overtaken
<1> QED
  BY <1>2 DEF Starts

\* Processes that end, or are dropped from the table once they ended.
Ending ==
  \A n \in Node, j \in Job :
    \/ proc'[n][j] = proc[n][j]
    \/ proc'[n][j].st = "none"
    \/ proc[n][j].st \in Living /\ proc'[n][j].st \in Ended

\* A calm step, with trainers that end.
LEMMA CalmFollows ==
  ASSUME Followed, Calm(Store, Store'), Ending, UNCHANGED <<phase, inbox, strays>>
  PROVE  Follows
<1>1. AllMatched(Store', proc, inbox) /\ StaleNodes(Store') = {}
  BY CalmMatched DEF Calm, AllMatched, Followed
<1>2. AllMatched(Store', proc', inbox)
  BY <1>1, EndingMatched DEF Ending
<1> QED
  BY <1>1, <1>2 DEF Follows, Followed

\* A handler that only takes calm steps.
LEMMA CalmHandlerFollows ==
  ASSUME Followed, NEW t \in Snapshot, Calm(Store, t), Install(t), UNCHANGED sideVars
  PROVE  Follows
<1>1. Store' = t
  BY Installed
<1> QED
  BY <1>1, CalmFollows DEF sideVars, Ending

\* A handler that ends with a pass.
LEMMA TickHandlerFollows ==
  ASSUME Shaped, Followed, NEW s \in Snapshot, Calm(Store, s),
         NEW t \in TickResults(s), Install(t), UNCHANGED sideVars
  PROVE  Follows
<1>1. AllMatched(s, proc, inbox) /\ StaleNodes(s) = {}
  BY CalmMatched DEF Calm, AllMatched, Followed
<1>2. AllMatched(t, proc, inbox) /\ StaleNodes(t) = {} /\ t \in Snapshot
  BY <1>1, ShapedTables, TickMatched, TickCarries
<1>3. Store' = t
  BY <1>2, Installed
<1> QED
  BY <1>2, <1>3 DEF Follows, Followed, sideVars

\* A heartbeat's report.
LEMMA RefreshCalm ==
  ASSUME TypeOK, NEW n \in Node, NEW report \in Reports(n)
  PROVE  /\ Calm(Store, Refresh(n, report))
         /\ Refresh(n, report).job = job
         /\ Refresh(n, report).pending = pending
<1>1. /\ Refresh(n, report).job = Store.job
      /\ Refresh(n, report).pending = Store.pending
      /\ Refresh(n, report).heard = [heard EXCEPT ![n] = "fresh"]
      /\ Store.heard = heard /\ Store.job = job /\ Store.pending = pending
  BY DEF Refresh, Store
<1>2. heard \in [Node -> {"never", "fresh", "late"}]
  BY DEF TypeOK
<1>3. StaleNodes(Store) = {} => StaleNodes(Refresh(n, report)) = {}
  BY <1>1, <1>2 DEF StaleNodes
<1> QED
  BY <1>1, <1>3 DEF Calm, CalmFor

\* A worker's heartbeat.
LEMMA BeatFollows ==
  ASSUME Interfaces, Shaped, Followed, NEW n \in Node, NEW answered, WorkerBeat(n, answered)
  PROVE  Follows
<1>1. Store \in Snapshot /\ proc \in Processes /\ inbox \in Backlogs /\ TypeOK
  BY ShapedTables DEF Shaped
<1>2. PICK report \in Reports(n), dirs \in [Gone(n) -> RunDirs] :
        \E s \in HeartbeatResults(n, report, Gone(n), dirs) :
          /\ s \in Snapshot
          /\ Install(Delivered(s, n))
          /\ inbox' = [inbox EXCEPT ![n] = IF answered THEN s.pending[n] ELSE Nothing]
  BY <1>1, BeatResult
<1>3. PICK s \in HeartbeatResults(n, report, Gone(n), dirs) :
        /\ s \in Snapshot
        /\ Install(Delivered(s, n))
        /\ inbox' = [inbox EXCEPT ![n] = IF answered THEN s.pending[n] ELSE Nothing]
  BY <1>2
<1> DEFINE refreshed == Refresh(n, report)
           reconciled == Reconciled(refreshed, Gone(n), dirs)
<1>4. /\ refreshed \in Snapshot /\ Calm(Store, refreshed)
      /\ refreshed.job = job /\ refreshed.pending = pending
  BY <1>1, RefreshSafe, RefreshCalm DEF Safe
<1>5. s \in TickResults(reconciled)
  BY DEF HeartbeatResults
<1> HIDE DEF refreshed
<1>6. AllMatched(refreshed, proc, inbox) /\ StaleNodes(refreshed) = {}
  BY <1>4, CalmMatched DEF Calm, AllMatched, Followed
<1>7. Gone(n) \subseteq Job
  BY DEF Gone, OwnedBy, Active
<1>8. /\ reconciled \in Snapshot
      /\ AllMatched(reconciled, proc, inbox)
      /\ StaleNodes(reconciled) = {}
  <2>1. reconciled \in Snapshot
    BY <1>4, <1>7, ReconciledSafe DEF Safe
  <2>2. CASE Gone(n) = {}
    BY <1>6, <2>1, <2>2 DEF Reconciled
  <2>3. CASE Gone(n) # {}
    <3> DEFINE exits == [j \in Gone(n) |-> [exit |-> ReportedGone(refreshed.job[j]), dir |-> dirs[j]]]
    <3>1. DOMAIN exits = Gone(n) /\ \A j \in DOMAIN exits : exits[j].dir \in RunDir
      BY RunDirsAssumption
    <3>2. reconciled = JobExits(refreshed, exits)
      BY <2>3 DEF Reconciled
    <3> HIDE DEF exits
    <3>3. ASSUME NEW j \in Gone(n)
          PROVE  Resting(refreshed, proc, inbox, j)
      <4>1. Matched(refreshed, proc, inbox, j)
        BY <1>6, <1>7 DEF AllMatched
      <4>2. j \in Job /\ job[j].node = n
        BY <1>7 DEF Gone, OwnedBy
      <4>3. \/ proc[n][j].st \in Ended
            \/ proc[n][j].st = "none" /\ job[j].state \in {"RUNNING", "CHECKPOINTING"}
        BY DEF Gone
      <4>4. CASE proc[n][j].st \in Ended
        <5>1. Starts(inbox[n][j]) = {}
          BY <4>2 DEF WorkerBeat, Followed, Applied
        <5>2. job[j].state \in ActiveStates => job[j].node = n /\ Starts(pending[n][j]) = {}
          BY <4>2, <4>4, EndedInTime DEF Followed
        <5> QED
          BY <1>4, <4>1, <4>2, <4>4, <5>1, <5>2, EndedRests
      <4> QED
        BY <1>4, <4>1, <4>2, <4>3, <4>4, LostRests
    <3>4. AllMatched(reconciled, proc, inbox) /\ reconciled.heard = refreshed.heard
      BY <1>4, <1>6, <1>7, <3>1, <3>2, <3>3, ExitsMatched
    <3> QED
      BY <1>6, <2>1, <3>4 DEF StaleNodes
  <2> QED
    BY <2>2, <2>3
<1> HIDE DEF reconciled
<1>9. AllMatched(s, proc, inbox) /\ StaleNodes(s) = {}
  BY <1>1, <1>5, <1>8, TickMatched
<1>10. AllMatched(Delivered(s, n), proc, inbox')
  BY <1>1, <1>3, <1>9, DeliveredMatched
<1>11. Delivered(s, n) \in Snapshot /\ Delivered(s, n).heard = s.heard
  BY <1>3, DeliveredSafe DEF Safe, Delivered, Snapshot
<1>12. Store' = Delivered(s, n)
  BY <1>3, <1>11, Installed
<1>13. proc' = proc /\ strays' = strays
  BY DEF WorkerBeat
<1>14. Applied(phase', inbox')
  <2>1. /\ phase' = [phase EXCEPT ![n] = "apply"]
        /\ \A m \in Node \ {n} : inbox'[m] = inbox[m]
    BY <1>1, <1>3 DEF WorkerBeat, Backlogs
  <2> QED
    BY <2>1 DEF Applied, Followed, Shaped, PlatformTypeOK
<1> QED
  BY <1>9, <1>10, <1>11, <1>12, <1>13, <1>14 DEF Follows, Followed, StaleNodes

\* The rest of a worker's round.
LEMMA RoundFollows ==
  ASSUME Shaped, Followed, NEW n \in Node, WorkerApply(n) \/ WorkerSleep(n) \/ BeatLost(n)
  PROVE  Follows
<1>1. Store' = Store /\ strays' = strays
  BY DEF WorkerApply, WorkerSleep, BeatLost, vars, Store
<1>2. CASE WorkerApply(n)
  <2>1. AllMatched(Store, proc', inbox')
    BY <1>2, ShapedTables, ApplyMatched DEF WorkerApply, Followed
  <2>2. Applied(phase', inbox')
    <3>1. /\ \A j \in Job : Starts(inbox'[n][j]) = {}
          /\ \A m \in Node \ {n} : inbox'[m] = inbox[m] /\ phase'[m] = phase[m]
      BY <1>2, NoStarts DEF WorkerApply, Nothing, Shaped, PlatformTypeOK
    <3> QED
      BY <3>1 DEF Applied, Followed
  <2> QED
    BY <1>1, <2>1, <2>2 DEF Follows, Followed
<1>3. CASE WorkerSleep(n) \/ BeatLost(n)
  <2>1. AllMatched(Store, proc', inbox') /\ inbox' = inbox
    BY <1>3 DEF WorkerSleep, BeatLost, Followed
  <2>2. Applied(phase', inbox')
    BY <1>3, <2>1 DEF WorkerSleep, BeatLost, Applied, Followed, Shaped, PlatformTypeOK
  <2> QED
    BY <1>1, <2>1, <2>2 DEF Follows, Followed
<1> QED
  BY <1>2, <1>3

\* A process dropped from the table, its exit reported or not.
LEMMA ReapFollows ==
  ASSUME Interfaces, Shaped, Followed, NEW n \in Node, NEW j \in Job,
         NEW posted \in BOOLEAN, WorkerReap(n, j, posted)
  PROVE  Follows
<1>1. Store \in Snapshot /\ proc \in Processes /\ AllMatched(Store, proc, inbox)
  BY ShapedTables DEF Followed
<1>2. Ending /\ UNCHANGED <<phase, inbox, strays>>
  BY <1>1 DEF WorkerReap, Ending, Processes, NoProc
<1>3. CASE posted
  <2> DEFINE exits == [k \in {j} |-> [exit |-> ExitOf(proc[n][j].st), dir |-> NoFiles]]
             t == JobExits(Store, exits)
  <2>1. DOMAIN exits = {j} /\ exits[j].dir = NoFiles
    OBVIOUS
  <2>2. Install(t)
    BY <1>3 DEF WorkerReap, JobExit
  <2> HIDE DEF exits
  <2>3. DOMAIN exits \subseteq Job /\ \A k \in DOMAIN exits : exits[k].dir \in RunDir
    BY <2>1, RunDirsAssumption DEF Interfaces
  <2>4. Matched(Store, proc, inbox, j) /\ proc[n][j].st \in Ended
    BY <1>1 DEF AllMatched, WorkerReap
  <2>5. \A k \in DOMAIN exits : Resting(Store, proc, inbox, k)
    <3>1. Starts(inbox[n][j]) = {}
      BY DEF WorkerReap, Followed, Applied
    <3>2. Store.job = job /\ Store.pending = pending
      BY DEF Store
    <3>3. job[j].state \in ActiveStates => job[j].node = n /\ Starts(pending[n][j]) = {}
      BY <2>4, EndedInTime DEF Followed
    <3> QED
      BY <2>1, <2>4, <3>1, <3>2, <3>3, EndedRests
  <2>6. AllMatched(t, proc, inbox) /\ t.heard = Store.heard
    BY <1>1, <2>3, <2>5, ExitsMatched
  <2>7. t \in Snapshot
    BY <1>1, <2>3, JobExitsSafe DEF Safe
  <2> HIDE DEF t
  <2>8. Store' = t
    BY <2>2, <2>7, Installed
  <2>9. AllMatched(t, proc', inbox)
    BY <1>2, <2>6, EndingMatched DEF Ending
  <2>10. StaleNodes(t) = {}
    BY <2>6 DEF StaleNodes, Followed
  <2> QED
    BY <1>2, <2>8, <2>9, <2>10 DEF Follows, Followed
<1>4. CASE ~posted
  <2>1. Store' = Store
    BY <1>4 DEF WorkerReap, vars, Store
  <2>2. Calm(Store, Store')
    BY <2>1, StillCalm
  <2> QED
    BY <1>2, <2>2, CalmFollows
<1> QED
  BY <1>3, <1>4

\* A report of a checkpoint.
LEMMA ReportCalm ==
  ASSUME TypeOK, NEW j \in Job, NEW kind \in {"usable", "other"}, CheckpointReport(j, kind)
  PROVE  Calm(Store, Store')
<1> DEFINE r == [job[j] EXCEPT !.ckpt = kind]
           t == SetJob(Store, j, r)
<1>1. Store \in Snapshot /\ Store.job = job /\ job[j] \in JobRecord
  BY StoreShape DEF Store, Snapshot, Jobs
<1>2. /\ r \in JobRecord
      /\ r.state = job[j].state
      /\ r.gpus = job[j].gpus
      /\ r.node = job[j].node
  BY <1>1 DEF JobRecord, Checkpoint
<1>3. Install(t)
  BY DEF CheckpointReport
<1> HIDE DEF r
<1>4. Calm(Store, t)
  BY <1>1, <1>2, SetJobCalm
<1>5. t \in Snapshot
  BY <1>1, <1>2 DEF Snapshot, Jobs, SetJob
<1> QED
  BY <1>3, <1>4, <1>5, Installed

\* A trainer that saves, finishes, leaves or crashes.
LEMMA TrainerEndFollows ==
  ASSUME Shaped, Followed, NEW n \in Node, NEW j \in Job, NEW posted \in BOOLEAN,
         \/ TrainerSave(n, j) \/ TrainerFinish(n, j, posted)
         \/ TrainerLeave(n, j, posted) \/ TrainerCrash(n, j)
  PROVE  Follows
<1>1. TypeOK /\ proc \in Processes
  BY ShapedTables DEF Shaped
<1>2. CheckpointReport(j, "usable") \/ UNCHANGED vars
  BY DEF TrainerSave, TrainerFinish, TrainerLeave, TrainerCrash, Sent
<1>3. Calm(Store, Store')
  <2>1. CASE UNCHANGED vars
    BY <2>1, StillCalm DEF vars, Store
  <2> QED
    BY <1>1, <1>2, <2>1, ReportCalm
<1>4. \/ proc' = proc
      \/ \E st \in Ended : proc' = [proc EXCEPT ![n][j].st = st] /\ proc[n][j].st \in Living
  BY DEF TrainerSave, TrainerFinish, TrainerLeave, TrainerCrash, Becomes, Alive, Ended, Living, sideVars
<1>5. Ending
  <2>1. CASE proc' = proc
    BY <2>1 DEF Ending
  <2>2. ASSUME NEW st \in Ended, proc' = [proc EXCEPT ![n][j].st = st], proc[n][j].st \in Living
        PROVE  Ending
    <3>1. proc[n][j] \in Process
      BY <1>1 DEF Processes
    <3>2. proc'[n][j].st = st
      BY <1>1, <2>2, <3>1 DEF Processes, Process
    <3>3. \A m \in Node, k \in Job : m # n \/ k # j => proc'[m][k] = proc[m][k]
      BY <1>1, <2>2 DEF Processes
    <3> QED
      BY <2>2, <3>2, <3>3 DEF Ending
  <2> QED
    BY <1>4, <2>1, <2>2
<1>6. UNCHANGED <<phase, inbox, strays>>
  BY DEF TrainerSave, TrainerFinish, TrainerLeave, TrainerCrash, sideVars
<1> QED
  BY <1>3, <1>5, <1>6, CalmFollows

\* A trainer that posts a metric makes its job run, whose start has arrived.
LEMMA StepFollows ==
  ASSUME Shaped, Followed, NEW n \in Node, NEW j \in Job, TrainerStep(n, j)
  PROVE  Follows
<1> DEFINE t == WithMetric(Store, j)
           r == Stepped(job[j])
<1>1. Store \in Snapshot /\ Store.job = job /\ job[j] \in JobRecord
  BY ShapedTables DEF Store, Snapshot, Jobs
<1>2. Install(t) /\ UNCHANGED sideVars
  BY DEF TrainerStep, Metrics
<1>3. t \in Snapshot
  BY <1>1, WithMetricSafe DEF Safe
<1>4. /\ t.pending = Store.pending
      /\ t.heard = Store.heard
      /\ t.job[j] = r
      /\ \A k \in Job \ {j} : t.job[k] = Store.job[k]
  BY <1>1 DEF WithMetric, SetJob, Snapshot, Jobs
<1>5. /\ r.gpus = job[j].gpus
      /\ r.node = job[j].node
      /\ job[j].state \in ActiveStates => r.state \in ActiveStates
  BY <1>1 DEF Stepped, JobRecord, ActiveStates
<1> HIDE DEF t, r
<1>6. proc[n][j].st \in Living
  BY DEF TrainerStep
<1>7. AllMatched(t, proc, inbox)
  <2> SUFFICES ASSUME NEW k \in Job PROVE Matched(t, proc, inbox, k)
    BY DEF AllMatched
  <2>1. Matched(Store, proc, inbox, k)
    BY DEF AllMatched, Followed
  <2>2. CASE k # j
    <3>1. CalmFor(Store, t, k)
      BY <1>4, <2>2 DEF CalmFor
    <3> QED
      BY <2>1, <3>1, CalmMatched
  <2>3. CASE k = j
    <3>1. ActiveOn(job[j], n)
      BY <1>1, <1>6, <2>1, <2>3 DEF Matched, Trained
    <3>2. \A m \in Node : Starts(t.pending[m][j]) = {} /\ Starts(inbox[m][j]) = {}
      BY <1>4, <1>6, <2>1, <2>3 DEF Matched
    <3>3. ActiveOn(r, n) /\ \A m \in Node : ActiveOn(job[j], m) => ActiveOn(r, m)
      BY <1>5, <3>1 DEF ActiveOn
    <3> QED
      BY <1>1, <1>4, <1>5, <2>1, <2>3, <3>2, <3>3 DEF Matched, Trained, Awaited
  <2> QED
    BY <2>2, <2>3
<1>8. Store' = t
  BY <1>2, <1>3, Installed
<1> QED
  BY <1>2, <1>4, <1>7, <1>8 DEF Follows, Followed, sideVars, StaleNodes

\* A cooldown that runs out.
LEMMA CooledFollows ==
  ASSUME Shaped, Followed, NEW j \in Job, Cooled(j)
  PROVE  Follows
<1>1. job \in Jobs /\ job[j] \in JobRecord
  BY DEF Shaped, TypeOK, Jobs
<1>2. /\ job'[j].state = job[j].state
      /\ job'[j].gpus = job[j].gpus
      /\ job'[j].node = job[j].node
      /\ \A k \in Job \ {j} : job'[k] = job[k]
  BY <1>1 DEF Cooled, CooldownOver, Jobs, JobRecord
<1>3. pending' = pending /\ heard' = heard /\ UNCHANGED sideVars
  BY DEF Cooled, CooldownOver
<1>4. Calm(Store, Store')
  BY <1>2, <1>3 DEF Calm, CalmFor, StaleNodes, Store
<1> QED
  BY <1>3, <1>4, CalmFollows DEF sideVars, Ending

\* Marking devices or the latch touches no job.
LEMMA MarkCalm ==
  ASSUME NEW s \in Snapshot, NEW g, NEW d, NEW occ, NEW latch
  PROVE  /\ Calm(s, [s EXCEPT !.draining = d, !.gpu[g].occ = occ])
         /\ Calm(s, [s EXCEPT !.stopAll = latch])
<1>1. \A t \in {[s EXCEPT !.draining = d, !.gpu[g].occ = occ], [s EXCEPT !.stopAll = latch]} :
        t.job = s.job /\ t.pending = s.pending /\ t.heard = s.heard
  BY DEF Snapshot
<1> QED
  BY <1>1, StillCalm

\* preempt, release_all, stop_all, kill_job.
LEMMA ReleaseFollows ==
  ASSUME Shaped, Followed, UNCHANGED sideVars,
         (\E j \in Job : Preempt(j) \/ Kill(j)) \/ ReleaseAll \/ StopAll
  PROVE  Follows
<1>1. Store \in Snapshot
  BY ShapedTables
<1>2. \A J : /\ PreemptJobs(Store, J) \in Snapshot
             /\ Calm(Store, PreemptJobs(Store, J))
             /\ [PreemptJobs(Store, J) EXCEPT !.stopAll = TRUE] \in Snapshot
  BY <1>1, PreemptSafe, PreemptCalm, LatchSafe DEF Safe
<1>3. \A J : Calm(Store, [PreemptJobs(Store, J) EXCEPT !.stopAll = TRUE])
  BY <1>2, MarkCalm, CalmComposes
<1>4. \A J : /\ Tell(Store, J, Order("KILL")) \in Snapshot
             /\ Calm(Store, Tell(Store, J, Order("KILL")))
  <2>1. Order("KILL") \in Action /\ Order("KILL").kind # "START"
    BY OrderShape DEF Order
  <2> QED
    BY <1>1, <2>1, TellShape, TellCalm
<1>5. \E t \in Snapshot : Calm(Store, t) /\ Install(t)
  BY <1>2, <1>3, <1>4 DEF Preempt, ReleaseAll, StopAll, Kill
<1> QED
  BY <1>5, CalmHandlerFollows

\* drain_gpu, undrain_gpu.
LEMMA DrainFollows ==
  ASSUME Shaped, Followed, UNCHANGED sideVars, NEW g \in Gpu, DrainGpu(g) \/ UndrainGpu(g)
  PROVE  Follows
<1>1. Store \in Snapshot
  BY ShapedTables
<1>2. \A s \in Snapshot, d \in SUBSET Gpu :
        \A occ \in {"UNSEEN", "AVAILABLE", "TROIANI", "RESEARCHER", "DRAINING"} :
          [s EXCEPT !.draining = d, !.gpu[g].occ = occ] \in Snapshot
  BY MarkSafe DEF Safe
<1>3. CASE DrainGpu(g)
  <2> DEFINE s == PreemptJobs(Store, {gpu[g].job})
             t == [s EXCEPT !.draining = s.draining \cup {g}, !.gpu[g].occ = "DRAINING"]
  <2>1. s \in Snapshot /\ Calm(Store, s)
    BY <1>1, PreemptSafe, PreemptCalm DEF Safe
  <2>2. Install(t)
    BY <1>3 DEF DrainGpu
  <2> HIDE DEF s
  <2>3. s.draining \cup {g} \in SUBSET Gpu
    BY <2>1 DEF Snapshot
  <2>4. t \in Snapshot
    BY <1>2, <2>1, <2>3
  <2>5. Calm(s, t)
    BY <2>1, MarkCalm
  <2> HIDE DEF t
  <2> QED
    BY <2>1, <2>2, <2>4, <2>5, CalmComposes, CalmHandlerFollows
<1>4. CASE UndrainGpu(g)
  <2> DEFINE occ == IF Store.gpu[g].occ = "DRAINING" THEN "AVAILABLE" ELSE Store.gpu[g].occ
             t == [Store EXCEPT !.draining = Store.draining \ {g}, !.gpu[g].occ = occ]
  <2>1. /\ Store.draining \ {g} \in SUBSET Gpu
        /\ occ \in {"UNSEEN", "AVAILABLE", "TROIANI", "RESEARCHER", "DRAINING"}
    BY <1>1 DEF Snapshot, Gpus, GpuRecord
  <2>2. Install(t)
    BY <1>4 DEF UndrainGpu
  <2> HIDE DEF occ
  <2>3. t \in Snapshot /\ Calm(Store, t)
    BY <1>1, <1>2, <2>1, MarkCalm
  <2> HIDE DEF t
  <2> QED
    BY <2>2, <2>3, CalmHandlerFollows
<1> QED
  BY <1>3, <1>4

\* resume_all, update_policy.
LEMMA LatchFollows ==
  ASSUME Shaped, Followed, UNCHANGED sideVars,
         ResumeAll \/ \E latch \in BOOLEAN : SetStopAll(latch)
  PROVE  Follows
<1>1. \A latch \in BOOLEAN : /\ [Store EXCEPT !.stopAll = latch] \in Snapshot
                             /\ Calm(Store, [Store EXCEPT !.stopAll = latch])
  BY ShapedTables, LatchSafe, MarkCalm DEF Safe
<1>2. CASE ResumeAll
  BY <1>1, <1>2, TickHandlerFollows DEF ResumeAll
<1>3. CASE \E latch \in BOOLEAN : SetStopAll(latch)
  BY <1>1, <1>3, CalmHandlerFollows DEF SetStopAll
<1> QED
  BY <1>2, <1>3

\* submit_job, with the pass it ends with.
LEMMA SubmitFollows ==
  ASSUME Shaped, Followed, UNCHANGED sideVars, NEW j \in Job, Submit(j)
  PROVE  Follows
<1> DEFINE r == [Store.job[j] EXCEPT !.state = "PENDING"]
           s == SetState(Store, j, "PENDING")
<1>1. Store \in Snapshot /\ Store.job = job /\ job[j] \in JobRecord
  BY ShapedTables DEF Store, Snapshot, Jobs
<1>2. /\ r \in JobRecord
      /\ r.state = "PENDING"
      /\ r.gpus = Store.job[j].gpus
      /\ r.node = Store.job[j].node
  BY <1>1 DEF JobRecord, JobState
<1>3. s = SetJob(Store, j, r)
  BY DEF SetState
<1> HIDE DEF r, s
<1>4. s \in Snapshot
  BY <1>1, <1>2, <1>3 DEF Snapshot, Jobs, SetJob
<1>5. Store.job[j].state = "NONE"
  BY <1>1 DEF Submit
<1>6. Calm(Store, s)
  BY <1>1, <1>2, <1>3, <1>5, SetJobCalm
<1>7. \E t \in TickResults(s) : Install(t)
  BY DEF Submit, s
<1> QED
  BY <1>4, <1>6, <1>7, TickHandlerFollows

\* A restart of the control plane, which drops all orders on their way.
LEMMA RestartFollows ==
  ASSUME Shaped, Followed, UNCHANGED sideVars, Restart
  PROVE  Follows
<1>1. Store'.job = Store.job /\ Store'.heard = Store.heard
  BY DEF Restart, Store
<1>2. \A n \in Node, j \in Job : Starts(Store'.pending[n][j]) = {}
  BY NoStarts DEF Restart, Store
<1>3. Calm(Store, Store')
  BY <1>1, <1>2 DEF Calm, CalmFor, StaleNodes
<1> QED
  BY <1>3, CalmFollows DEF sideVars, Ending

\* A step of a platform that is settled, and remains so.
SettledStep == Free \/ \E kind \in Kinds : Everyday(kind)

\* No such step takes a trainer from where the records say it is.
LEMMA SettledStepFollows ==
  ASSUME Interfaces, Shaped, Followed, SettledStep
  PROVE  Follows
<1>1. ASSUME NEW n \in Node, Round(n) \/ CallFails(n)
      PROVE  Follows
  BY <1>1, BeatFollows, RoundFollows, ReapFollows DEF Round, CallFails
<1>2. ASSUME NEW n \in Node, NEW j \in Job, proc[n][j].st \in {"failing", "parting"}
      PROVE  FALSE
  <2>1. Trained(Store.job[j], proc[n][j], n)
    BY DEF Followed, AllMatched, Matched
  <2> QED
    BY <1>2, <2>1 DEF Trained, Living
<1>3. ASSUME NEW n \in Node, NEW j \in Job, NEW posted \in BOOLEAN,
             TrainerFinish(n, j, posted) \/ Leaves(n, j, posted)
      PROVE  Follows
  <2>1. ~TrainerSaveFailure(n, j, posted) /\ ~TrainerGiveUp(n, j, posted)
    BY <1>2 DEF TrainerSaveFailure, TrainerGiveUp
  <2> QED
    BY <1>3, <2>1, TrainerEndFollows DEF Leaves
<1>4. ASSUME NEW n \in Node, NEW j \in Job, Trainer(n, j) \/ PostFails(n, j) \/ TrainerCrash(n, j)
      PROVE  Follows
  <2>1. TrainerSave(n, j) \/ TrainerCrash(n, j) => Follows
    BY TrainerEndFollows
  <2>2. TrainerStep(n, j) => Follows
    BY StepFollows
  <2> QED
    BY <1>3, <1>4, <2>1, <2>2 DEF Trainer, PostFails
<1>5. ~Strays
  BY DEF Strays, Followed
<1>6. ASSUME People
      PROVE  Follows
  BY <1>6, CalmFollows, StillCalm DEF People, Arrive, Depart, vars, Store, Ending
<1>7. CASE Free
  BY <1>1, <1>4, <1>5, <1>7, CooledFollows, SubmitFollows DEF Free
<1>8. ASSUME NEW kind, Everyday(kind)
      PROVE  Follows
  BY <1>1, <1>4, <1>6, <1>8, ReleaseFollows, DrainFollows, LatchFollows, RestartFollows
  DEF Everyday, OnRecord
<1> QED
  BY <1>7, <1>8 DEF SettledStep

------------------------------------------------------------------------------
(* The bounded specification, and the theorems.                              *)

\* A settled step is one of the platform's, and no run passes its limit in it.
LEMMA SettledStepIsSteady ==
  ASSUME SettledStep
  PROVE  SteadyPlatform
BY DEF SettledStep, Free, Everyday, OnRecord, SteadyPlatform, BadRun, Operate

\* So is one that unsettles it a step of the platform.
LEMMA UnsettlingIsPlatform ==
  ASSUME NEW kind, Unsettling(kind)
  PROVE  PlatformNext
BY DEF Unsettling, OnRecord, PlatformNext, WorkerFails, BadRun, Operate

\* The bounds only leave out steps.
LEMMA BoundsRefine ==
  ASSUME [MCNext]_mcVars
  PROVE  \/ PlatformNext /\ settled' = FALSE
         \/ SettledStep /\ Settles
         \/ UNCHANGED <<allVars, settled>>
<1>1. CASE UNCHANGED mcVars
  BY <1>1 DEF mcVars
<1>2. CASE MCNext
  BY <1>2, UnsettlingIsPlatform DEF MCNext, SettledStep
<1> QED
  BY <1>1, <1>2

\* What the invariant says while the platform is settled.
FollowedIfSettled == settled => Followed

\* On an empty platform no trainer runs.
LEMMA FollowedAtFirst ==
  ASSUME MCInit
  PROVE  Followed
<1>1. Init /\ Sound(Store)
  BY InitSound DEF MCInit, PlatformInit
<1>2. StaleNodes(Store) = {}
  BY <1>1 DEF StaleNodes, Store, Init
<1>3. strays = {}
  BY DEF MCInit, PlatformInit
<1>4. \A n \in Node, j \in Job : /\ proc[n][j].st = "none"
                                 /\ Starts(inbox[n][j]) = {}
                                 /\ Starts(Store.pending[n][j]) = {}
  BY <1>1, NoStarts DEF MCInit, PlatformInit, NoProc, Nothing, Store, Init
<1>5. AllMatched(Store, proc, inbox) /\ Applied(phase, inbox)
  BY <1>4 DEF AllMatched, Matched, Applied, Trained, Awaited, Living
<1>6. ~Overtaken
  <2>1. \A n \in Node, j \in Job : proc[n][j].st \notin Ended
    BY <1>4 DEF Ended
  <2> QED
    BY <2>1 DEF Overtaken, Active
<1> QED
  BY <1>1, <1>2, <1>3, <1>5, <1>6 DEF Followed

\* And no step of a settled platform breaks the invariant.
LEMMA FollowedStays ==
  ASSUME Interfaces, Shaped, FollowedIfSettled, [MCNext]_mcVars
  PROVE  FollowedIfSettled'
<1> SUFFICES ASSUME settled' PROVE Followed'
  BY DEF FollowedIfSettled
<1>1. StraysHaveJobs
  BY DEF Shaped, PlatformTypeOK, StraysHaveJobs
<1>2. CASE SettledStep /\ Settles
  <2>1. Followed /\ ~Overtaken'
    BY <1>2 DEF FollowedIfSettled, Settles
  <2>2. Follows
    BY <1>2, <2>1, SettledStepFollows
  <2>3. [Steady]_vars
    BY <1>1, <1>2, SettledStepIsSteady, SteadyRefines
  <2>4. Keeps
    BY <2>3, SteadyKeeps DEF Shaped
  <2>5. Sound(Store)'
    BY <2>1, <2>4 DEF Keeps, Followed
  <2> QED
    BY <2>1, <2>2, <2>5 DEF Follows, Followed
<1>3. CASE UNCHANGED <<allVars, settled>>
  <2>1. Followed
    BY <1>3 DEF FollowedIfSettled
  <2>2. Store' = Store /\ UNCHANGED vars /\ UNCHANGED sideVars
    BY <1>3 DEF allVars, vars, Store
  <2> QED
    BY <2>1, <2>2 DEF Followed, Applied, Overtaken, sideVars, vars
<1> QED
  BY <1>2, <1>3, BoundsRefine

\* The bounds of the model checker leave out behaviours, and add none.
LEMMA BoundsImplementPlatform == MCSpec => PlatformSpec
<1>1. MCInit => PlatformInit
  BY DEF MCInit
<1>2. [MCNext]_mcVars => [PlatformNext]_allVars
  BY BoundsRefine, SettledStepIsSteady DEF SteadyPlatform, PlatformNext
<1> QED
  BY <1>1, <1>2, PTL DEF MCSpec, PlatformSpec

\* The records say where the trainers are for as long as the platform is settled.
LEMMA FollowedAlways ==
  ASSUME Interfaces
  PROVE  MCSpec => [](Shaped /\ FollowedIfSettled)
<1>1. MCSpec => []Shaped
  <2>1. TypeOK /\ PlatformTypeOK => Shaped
    BY DEF Shaped
  <2> QED
    BY <2>1, BoundsImplementPlatform, PlatformImplementsControl, TypeCorrect, PlatformTypes, PTL
<1>2. MCInit => FollowedIfSettled
  BY FollowedAtFirst DEF FollowedIfSettled
<1>3. Shaped /\ FollowedIfSettled /\ [MCNext]_mcVars => FollowedIfSettled'
  BY FollowedStays
<1> QED
  BY <1>1, <1>2, <1>3, PTL DEF MCSpec

\* Whose device it is, its trainer is: where the records say where trainers are, and
\* lend a device to one job at a time, no two jobs' trainers share one.
LEMMA TrainersExclude ==
  ASSUME Shaped, Followed, NEW g \in Gpu
  PROVE  Cardinality(TrainersOn(g)) <= 1
<1>1. ASSUME NEW j \in TrainersOn(g)
      PROVE  j \in Active(Store) /\ g \in Store.job[j].gpus
  <2>1. j \in Job /\ \E n \in Node : Alive(n, j) /\ g \in proc[n][j].gpus
    BY DEF TrainersOn, Followed
  <2>2. \A n \in Node : Trained(Store.job[j], proc[n][j], n)
    BY <2>1 DEF Followed, AllMatched, Matched
  <2> QED
    BY <2>1, <2>2 DEF Trained, ActiveOn, Alive, Active
<1>2. \A j, k \in TrainersOn(g) : j = k
  <2>1. Exclusive(Store)
    BY DEF Followed, Sound
  <2> QED
    BY <1>1, <2>1 DEF Exclusive
<1>3. CASE TrainersOn(g) = {}
  BY <1>3, FS_EmptySet
<1>4. CASE TrainersOn(g) # {}
  <2>1. PICK j : j \in TrainersOn(g)
    BY <1>4
  <2>2. TrainersOn(g) = {j}
    BY <1>2, <2>1
  <2> QED
    BY <2>2, FS_Singleton
<1> QED
  BY <1>3, <1>4

\* No device ever carries the trainers of two jobs, on any platform and with any
\* number of disturbances, until something happens after which a trainer may go on
\* that no record knows of, or a cooldown ends so early that a placement overtakes
\* the exit it began with (Overtaken): the code defends against neither.
THEOREM OneTrainer ==
  ASSUME Interfaces
  PROVE  MCSpec => []OneTrainerIfSettled
<1>1. Shaped /\ FollowedIfSettled => OneTrainerIfSettled
  BY TrainersExclude DEF FollowedIfSettled, OneTrainerIfSettled, OneTrainerPerDevice
<1> QED
  BY <1>1, FollowedAlways, PTL

\* Nor does, until then, a trainer run on a node or on devices other than those its
\* job's record names: orders kept, repeated or dropped start no second trainer.
THEOREM TrainersOnRecord ==
  ASSUME Interfaces
  PROVE  MCSpec => []RecordsIfSettled
<1>1. Followed => TrainersMatchRecords
  BY DEF Followed, AllMatched, Matched, Trained, ActiveOn, Alive, TrainersMatchRecords, Store
<1>2. FollowedIfSettled => RecordsIfSettled
  BY <1>1 DEF FollowedIfSettled, RecordsIfSettled
<1> QED
  BY <1>2, FollowedAlways, PTL

==============================================================================
