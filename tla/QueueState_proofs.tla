------------------------- MODULE QueueState_proofs --------------------------
(***************************************************************************)
(* What the operations of the queue keep and add, for every queue: the     *)
(* facts the proofs about the agent and about its clients share.           *)
(***************************************************************************)
EXTENDS QueueState, SequenceTheorems, TLAPS

-----------------------------------------------------------------------------
(* Types.                                                                   *)

\* accept_queued_job yields a queue.
LEMMA AcceptJobType ==
    ASSUME NEW q \in QueueType, NEW job \in PrintJobInput, NEW remote \in BOOLEAN
    PROVE  accept_queued_job(q, job, remote) \in QueueType
<1> DEFINE entry == [job |-> job, batch_id |-> None, remote |-> remote]
<1>1. entry \in QueuedJob
  BY DEF QueuedJob
<1>2. Append(q.pending, entry) \in Seq(QueuedJob)
  BY <1>1 DEF QueueType
<1>3. job.job_id \in JobIds
  BY DEF PrintJobInput
<1> QED
  BY <1>2, <1>3 DEF QueueType, accept_queued_job

\* The entries accept_batch appends are queued jobs.
LEMMA BatchEntries ==
    ASSUME NEW b \in BatchIds, NEW jobs \in Seq(PrintJobInput), NEW remote \in BOOLEAN
    PROVE  LET entries == [i \in 1..Len(jobs) |->
                             [job |-> jobs[i], batch_id |-> b, remote |-> remote]]
           IN  entries \in Seq(QueuedJob) /\ Len(entries) = Len(jobs)
<1> DEFINE entries == [i \in 1..Len(jobs) |->
                         [job |-> jobs[i], batch_id |-> b, remote |-> remote]]
<1>1. \A i \in 1..Len(jobs) : [job |-> jobs[i], batch_id |-> b, remote |-> remote] \in QueuedJob
  BY DEF QueuedJob
<1>2. entries \in [1..Len(jobs) -> QueuedJob] /\ Len(jobs) \in Nat
  BY <1>1
<1> QED
  BY <1>2

\* accept_batch yields a queue.
LEMMA AcceptBatchType ==
    ASSUME NEW q \in QueueType, NEW b \in BatchIds, NEW jobs \in Seq(PrintJobInput),
           NEW remote \in BOOLEAN
    PROVE  accept_batch(q, b, jobs, remote) \in QueueType
<1> DEFINE entries == [i \in 1..Len(jobs) |->
                         [job |-> jobs[i], batch_id |-> b, remote |-> remote]]
<1>1. entries \in Seq(QueuedJob)
  BY BatchEntries
<1>2. q.pending \o entries \in Seq(QueuedJob)
  BY <1>1 DEF QueueType
<1>3. IdsOf(jobs) \subseteq JobIds
  <2>1. \A i \in DOMAIN jobs : jobs[i] \in PrintJobInput
    OBVIOUS
  <2>2. \A job \in PrintJobInput : job.job_id \in JobIds
    BY DEF PrintJobInput
  <2> QED
    BY <2>1, <2>2 DEF IdsOf
<1> QED
  BY <1>2, <1>3 DEF QueueType, accept_batch

\* pop_next hands out a job and leaves a queue.
LEMMA PopType ==
    ASSUME NEW q \in QueueType, q.pending # <<>>
    PROVE  Head(q.pending) \in QueuedJob /\ pop_next(q) \in QueueType
<1>1. q.pending \in Seq(QueuedJob)
  BY DEF QueueType
<1>2. Head(q.pending) \in QueuedJob /\ Tail(q.pending) \in Seq(QueuedJob)
  BY <1>1
<1> QED
  BY <1>2 DEF QueueType, pop_next

-----------------------------------------------------------------------------
(* The ids in the queue.                                                    *)

\* The jobs in the queue have distinct ids, all of them marked as seen.
QueueOK(q) ==
    /\ \A i, k \in DOMAIN q.pending :
        q.pending[i].job.job_id = q.pending[k].job.job_id => i = k
    /\ PendingIds(q) \subseteq q.seen_job_ids

\* accept_queued_job adds one new id to a sound queue.
LEMMA AcceptJobOK ==
    ASSUME NEW q \in QueueType, QueueOK(q), NEW job \in PrintJobInput, NEW remote,
           CanAcceptJob(q, job)
    PROVE  LET r == accept_queued_job(q, job, remote) IN
           /\ QueueOK(r)
           /\ PendingIds(r) = PendingIds(q) \cup {job.job_id}
           /\ r.seen_job_ids = q.seen_job_ids \cup {job.job_id}
<1> DEFINE entry == [job |-> job, batch_id |-> None, remote |-> remote]
           r == accept_queued_job(q, job, remote)
           n == Len(q.pending)
<1>1. q.pending \in Seq(QueuedJob) /\ n \in Nat /\ DOMAIN q.pending = 1..n
  BY DEF QueueType
<1>2. r.pending = Append(q.pending, entry) /\ r.seen_job_ids = q.seen_job_ids \cup {job.job_id}
  BY DEF accept_queued_job, QueueType
<1>3. /\ DOMAIN r.pending = 1..(n + 1)
      /\ \A i \in 1..n : r.pending[i] = q.pending[i]
      /\ r.pending[n + 1] = entry
  BY <1>1, <1>2
<1>4. \A i \in 1..n : q.pending[i].job.job_id \in q.seen_job_ids
  BY <1>1 DEF QueueOK, PendingIds
<1>5. PendingIds(r) = PendingIds(q) \cup {job.job_id}
  BY <1>1, <1>3 DEF PendingIds
<1>6. \A i, k \in DOMAIN r.pending :
        r.pending[i].job.job_id = r.pending[k].job.job_id => i = k
  <2> SUFFICES ASSUME NEW i \in 1..(n + 1), NEW k \in 1..(n + 1), i =< k,
                      r.pending[i].job.job_id = r.pending[k].job.job_id
               PROVE  i = k
    BY <1>1, <1>3
  <2>1. CASE k \in 1..n
    <3>1. i \in 1..n
      BY <1>1, <2>1
    <3> QED
      BY <1>1, <1>3, <2>1, <3>1 DEF QueueOK
  <2>2. CASE i \in 1..n /\ k = n + 1
    BY <1>3, <1>4, <2>2 DEF CanAcceptJob
  <2>3. CASE i = n + 1
    BY <1>1, <2>3
  <2> QED
    BY <1>1, <2>1, <2>2, <2>3
<1>7. QueueOK(r)
  BY <1>2, <1>5, <1>6 DEF QueueOK
<1> HIDE DEF r
<1> QED
  BY <1>2, <1>5, <1>7 DEF r

\* accept_batch puts the batch behind the jobs already pending, in its order.
LEMMA BatchPending ==
    ASSUME NEW q \in QueueType, NEW b \in BatchIds, NEW jobs \in Seq(PrintJobInput),
           NEW remote \in BOOLEAN
    PROVE  LET r == accept_batch(q, b, jobs, remote)
               n == Len(q.pending)
               m == Len(jobs)
           IN  /\ DOMAIN r.pending = 1..(n + m)
               /\ \A i \in 1..n : r.pending[i] = q.pending[i]
               /\ \A i \in 1..(n + m) : i > n =>
                    r.pending[i].job = jobs[i - n] /\ r.pending[i].remote = remote
<1> DEFINE entries == [i \in 1..Len(jobs) |->
                         [job |-> jobs[i], batch_id |-> b, remote |-> remote]]
           r == accept_batch(q, b, jobs, remote)
           p == q.pending
           n == Len(p)
           m == Len(jobs)
<1>1. p \in Seq(QueuedJob) /\ n \in Nat /\ m \in Nat
  BY DEF QueueType
<1>2. r.pending = p \o entries
  BY DEF accept_batch
<1>3. \A i \in 1..m : entries[i].job = jobs[i] /\ entries[i].remote = remote
  OBVIOUS
<1>4. entries \in Seq(QueuedJob) /\ Len(entries) = m
  BY BatchEntries
<1> HIDE DEF entries, r, p, n, m
<1>5. /\ p \o entries \in Seq(QueuedJob)
      /\ Len(p \o entries) = n + m
      /\ \A i \in 1..(n + m) :
           (p \o entries)[i] = IF i =< n THEN p[i] ELSE entries[i - n]
  BY <1>1, <1>4, ConcatProperties DEF n
<1>6. DOMAIN (p \o entries) = 1..(n + m)
  BY <1>5
<1>7. \A i \in 1..(n + m) : i > n => ~(i =< n) /\ i - n \in 1..m
  BY <1>1
<1>8. \A i \in 1..n : i \in 1..(n + m) /\ i =< n
  BY <1>1
<1>9. \A i \in 1..(n + m) : i > n => r.pending[i] = entries[i - n]
  BY <1>2, <1>5, <1>7
<1>10. \A i \in 1..n : r.pending[i] = p[i]
  BY <1>2, <1>5, <1>8
<1>11. \A i \in 1..(n + m) : i > n =>
         r.pending[i].job = jobs[i - n] /\ r.pending[i].remote = remote
  BY <1>3, <1>7, <1>9
<1>12. DOMAIN r.pending = 1..(n + m)
  BY <1>2, <1>6
<1> QED
  BY <1>10, <1>11, <1>12 DEF r, p, n, m

\* accept_batch adds the batch's ids, which are new and distinct.
LEMMA AcceptBatchOK ==
    ASSUME NEW q \in QueueType, QueueOK(q), NEW b \in BatchIds,
           NEW jobs \in Seq(PrintJobInput), NEW remote \in BOOLEAN,
           CanAcceptBatch(q, b, jobs)
    PROVE  LET r == accept_batch(q, b, jobs, remote) IN
           /\ QueueOK(r)
           /\ PendingIds(r) = PendingIds(q) \cup IdsOf(jobs)
           /\ r.seen_job_ids = q.seen_job_ids \cup IdsOf(jobs)
<1> DEFINE r == accept_batch(q, b, jobs, remote)
           n == Len(q.pending)
           m == Len(jobs)
<1>1. /\ q.pending \in Seq(QueuedJob) /\ n \in Nat /\ DOMAIN q.pending = 1..n
      /\ m \in Nat /\ DOMAIN jobs = 1..m
  BY DEF QueueType
<1>2. r.seen_job_ids = q.seen_job_ids \cup IdsOf(jobs)
  BY DEF accept_batch
<1> HIDE DEF r
<1>3. /\ DOMAIN r.pending = 1..(n + m)
      /\ \A i \in 1..n : r.pending[i] = q.pending[i]
      /\ \A i \in 1..(n + m) : i > n => r.pending[i].job = jobs[i - n]
  BY BatchPending DEF r
<1>4. \A i \in 1..n : q.pending[i].job.job_id \in q.seen_job_ids
  BY <1>1 DEF QueueOK, PendingIds
<1>5. PendingIds(r) = PendingIds(q) \cup IdsOf(jobs)
  <2>1. ASSUME NEW i \in 1..(n + m)
        PROVE  r.pending[i].job.job_id \in PendingIds(q) \cup IdsOf(jobs)
    <3>1. CASE i =< n
      BY <1>1, <1>3, <3>1 DEF PendingIds
    <3>2. CASE i > n
      <4>1. i - n \in DOMAIN jobs /\ r.pending[i].job = jobs[i - n]
        BY <1>1, <1>3, <3>2
      <4> QED
        BY <4>1 DEF IdsOf
    <3> QED
      BY <1>1, <3>1, <3>2
  <2>2. PendingIds(q) \subseteq PendingIds(r)
    BY <1>1, <1>3 DEF PendingIds
  <2>3. ASSUME NEW k \in 1..m PROVE jobs[k].job_id \in PendingIds(r)
    <3>1. n + k \in 1..(n + m) /\ n + k > n /\ (n + k) - n = k
      BY <1>1
    <3>2. r.pending[n + k].job = jobs[k]
      BY <1>3, <3>1
    <3> QED
      BY <1>3, <3>1, <3>2 DEF PendingIds
  <2>4. PendingIds(r) \subseteq PendingIds(q) \cup IdsOf(jobs)
    BY <1>3, <2>1 DEF PendingIds
  <2>5. IdsOf(jobs) \subseteq PendingIds(r)
    BY <1>1, <2>3 DEF IdsOf
  <2> QED
    BY <2>2, <2>4, <2>5
<1>6. \A i, k \in DOMAIN r.pending :
        r.pending[i].job.job_id = r.pending[k].job.job_id => i = k
  <2> SUFFICES ASSUME NEW i \in 1..(n + m), NEW k \in 1..(n + m), i =< k,
                      r.pending[i].job.job_id = r.pending[k].job.job_id
               PROVE  i = k
    BY <1>1, <1>3
  <2>1. CASE k =< n
    <3>1. i \in 1..n /\ k \in 1..n
      BY <1>1, <2>1
    <3> QED
      BY <1>1, <1>3, <3>1 DEF QueueOK
  <2>2. CASE i =< n /\ k > n
    <3>1. k - n \in DOMAIN jobs /\ r.pending[k].job = jobs[k - n]
      BY <1>1, <1>3, <2>2
    <3>2. i \in 1..n /\ r.pending[i] = q.pending[i]
      BY <1>1, <1>3, <2>2
    <3> QED
      BY <1>4, <3>1, <3>2 DEF CanAcceptBatch
  <2>3. CASE i > n
    <3>1. i - n \in DOMAIN jobs /\ k - n \in DOMAIN jobs
      BY <1>1, <2>3
    <3>2. r.pending[i].job = jobs[i - n] /\ r.pending[k].job = jobs[k - n]
      BY <1>1, <1>3, <2>3
    <3>3. i - n = k - n
      BY <3>1, <3>2 DEF CanAcceptBatch
    <3> QED
      BY <1>1, <3>3
  <2> QED
    BY <1>1, <2>1, <2>2, <2>3
<1>7. QueueOK(r)
  BY <1>2, <1>5, <1>6 DEF QueueOK
<1> QED
  BY <1>2, <1>5, <1>7 DEF r

\* pop_next takes the id of the job it hands out from a sound queue.
LEMMA PopOK ==
    ASSUME NEW q \in QueueType, QueueOK(q), q.pending # <<>>
    PROVE  /\ QueueOK(pop_next(q))
           /\ pop_next(q).seen_job_ids = q.seen_job_ids
           /\ PendingIds(pop_next(q)) \subseteq PendingIds(q)
           /\ Head(q.pending).job.job_id \in PendingIds(q)
           /\ Head(q.pending).job.job_id \notin PendingIds(pop_next(q))
<1> DEFINE n == Len(q.pending)
           r == pop_next(q)
<1>1. q.pending \in Seq(QueuedJob) /\ n \in Nat \ {0} /\ DOMAIN q.pending = 1..n
  BY DEF QueueType
<1>2. r.pending = Tail(q.pending) /\ r.seen_job_ids = q.seen_job_ids
  BY DEF pop_next, QueueType
<1>3. /\ DOMAIN r.pending = 1..(n - 1)
      /\ \A i \in 1..(n - 1) : r.pending[i] = q.pending[i + 1]
      /\ Head(q.pending) = q.pending[1]
  BY <1>1, <1>2
<1> HIDE DEF r
<1>4. \A i \in 1..(n - 1) : i + 1 \in 1..n /\ i + 1 # 1
  BY <1>1
<1>5. PendingIds(r) \subseteq PendingIds(q)
  BY <1>1, <1>3, <1>4 DEF PendingIds
<1>6. Head(q.pending).job.job_id \in PendingIds(q)
  <2>1. 1 \in DOMAIN q.pending
    BY <1>1
  <2> QED
    BY <1>3, <2>1 DEF PendingIds
<1>7. Head(q.pending).job.job_id \notin PendingIds(r)
  <2> SUFFICES ASSUME NEW i \in 1..(n - 1),
                      r.pending[i].job.job_id = q.pending[1].job.job_id
               PROVE  FALSE
    BY <1>3 DEF PendingIds
  <2>1. 1 \in DOMAIN q.pending /\ i + 1 \in DOMAIN q.pending
    BY <1>1
  <2> QED
    BY <1>3, <1>4, <2>1 DEF QueueOK
<1>8. \A i, k \in DOMAIN r.pending :
        r.pending[i].job.job_id = r.pending[k].job.job_id => i = k
  <2> SUFFICES ASSUME NEW i \in 1..(n - 1), NEW k \in 1..(n - 1),
                      r.pending[i].job.job_id = r.pending[k].job.job_id
               PROVE  i = k
    BY <1>3
  <2>1. q.pending[i + 1].job.job_id = q.pending[k + 1].job.job_id
    BY <1>3
  <2>2. i + 1 \in DOMAIN q.pending /\ k + 1 \in DOMAIN q.pending
    BY <1>1
  <2>3. i + 1 = k + 1
    BY <2>1, <2>2 DEF QueueOK
  <2> QED
    BY <1>1, <2>3
<1>9. QueueOK(r)
  BY <1>2, <1>5, <1>8 DEF QueueOK
<1> QED
  BY <1>2, <1>5, <1>6, <1>7, <1>9 DEF r

\* The only id pop_next takes is that of the job it hands out.
LEMMA PopIds ==
    ASSUME NEW q \in QueueType, QueueOK(q), q.pending # <<>>
    PROVE  PendingIds(pop_next(q)) = PendingIds(q) \ {Head(q.pending).job.job_id}
<1> DEFINE n == Len(q.pending)
           r == pop_next(q)
           id == Head(q.pending).job.job_id
<1>1. q.pending \in Seq(QueuedJob) /\ n \in Nat \ {0} /\ DOMAIN q.pending = 1..n
  BY DEF QueueType
<1>2. r.pending = Tail(q.pending)
  BY DEF pop_next, QueueType
<1>3. /\ DOMAIN r.pending = 1..(n - 1)
      /\ \A i \in 1..(n - 1) : r.pending[i] = q.pending[i + 1]
      /\ Head(q.pending) = q.pending[1]
  BY <1>1, <1>2
<1>4. PendingIds(r) \subseteq PendingIds(q) \ {id}
  BY PopOK
<1> HIDE DEF r
<1>5. ASSUME NEW k \in 1..n, q.pending[k].job.job_id # id
      PROVE  q.pending[k].job.job_id \in PendingIds(r)
  <2>1. k - 1 \in 1..(n - 1) /\ (k - 1) + 1 = k
    BY <1>1, <1>3, <1>5
  <2>2. r.pending[k - 1] = q.pending[k]
    BY <1>3, <2>1
  <2> QED
    BY <1>3, <2>1, <2>2 DEF PendingIds
<1>6. PendingIds(q) \ {id} \subseteq PendingIds(r)
  BY <1>1, <1>5 DEF PendingIds
<1> QED
  BY <1>4, <1>6 DEF r
=============================================================================
