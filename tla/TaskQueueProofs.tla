-------------------------- MODULE TaskQueueProofs --------------------------
(***************************************************************************)
(* What each operation of the queue preserves, whichever worker calls it:  *)
(* lemmas for TaskWorkerProofs and AsyncRunProofs.                         *)
(***************************************************************************)
EXTENDS TaskQueue, FiniteSetTheorems, SequenceTheorems, TLAPS

\* remove_queued() leaves a deque of task ids.
LEMMA WithoutType ==
  ASSUME NEW t \in Tasks, NEW q \in Seq(Tasks)
  PROVE  Without(q, t) \in Seq(Tasks)
<1>1. CASE ~ \E i \in DOMAIN q : q[i] = t
  BY <1>1 DEF Without
<1>2. CASE \E i \in DOMAIN q : q[i] = t
  <2> DEFINE i == CHOOSE i \in DOMAIN q : q[i] = t
  <2>1. i \in 1 .. Len(q)
    BY <1>2
  <2>2. SubSeq(q, 1, i - 1) \in Seq(Tasks)
    <3>1. \A m \in 1 .. (i - 1) : m \in 1 .. Len(q)
      BY <2>1
    <3> QED  BY <2>1, <3>1
  <2>3. SubSeq(q, i + 1, Len(q)) \in Seq(Tasks)
    <3>1. \A m \in (i + 1) .. Len(q) : m \in 1 .. Len(q)
      BY <2>1
    <3> QED  BY <2>1, <3>1
  <2>4. SubSeq(q, 1, i - 1) \o SubSeq(q, i + 1, Len(q)) \in Seq(Tasks)
    BY <2>2, <2>3
  <2> QED  BY <1>2, <2>4 DEF Without
<1> QED  BY <1>1, <1>2

\* What refresh_queued_task_ids() leaves is a deque of task ids.
LEMMA RefreshedType ==
  ASSUME QueueTypeOK
  PROVE  Refreshed \subseteq Seq(Tasks)
<1>1. QueuedInStore \subseteq Tasks
  BY DEF QueuedInStore
<1>2. Cardinality(QueuedInStore) \in Nat
  BY <1>1, TasksAssumption, FS_Subset, FS_CardinalityType
<1>3. Orders(QueuedInStore) \subseteq Seq(Tasks)
  BY <1>1, <1>2 DEF Orders
<1> QED  BY <1>3 DEF Refreshed, QueueTypeOK

\* cancel() leaves a list of run statuses.
LEMMA CancelRunsType ==
  ASSUME NEW rs \in Seq(RunStatus)
  PROVE  /\ CancelRuns(rs) \in Seq(RunStatus)
         /\ DOMAIN CancelRuns(rs) = DOMAIN rs
BY DEF CancelRuns, RunStatus

\* update_run() of one attempt leaves a list of run statuses of the same length.
LEMMA UpdateRunType ==
  ASSUME NEW rs \in Seq(RunStatus), NEW n \in Nat, NEW s \in RunStatus
  PROVE  /\ [rs EXCEPT ![n] = s] \in Seq(RunStatus)
         /\ DOMAIN [rs EXCEPT ![n] = s] = DOMAIN rs
<1> DEFINE new == [rs EXCEPT ![n] = s]
<1>1. rs \in [1 .. Len(rs) -> RunStatus] /\ Len(rs) \in Nat
  OBVIOUS
<1>2. new \in [1 .. Len(rs) -> RunStatus]
  BY <1>1
<1>3. new \in Seq(RunStatus)
  BY <1>1, <1>2
<1> QED  BY <1>3

LEMMA StoreCreateType ==
  ASSUME QueueTypeOK, NEW t \in Tasks, StoreCreate(t)
  PROVE  QueueTypeOK'
BY DEF QueueTypeOK, StoreCreate, TaskStatus

LEMMA StoreUpdateType ==
  ASSUME QueueTypeOK, NEW t \in Tasks, NEW to \in TaskStatus, StoreUpdate(t, to)
  PROVE  QueueTypeOK'
BY DEF QueueTypeOK, StoreUpdate

LEMMA QueueEnqueueType ==
  ASSUME QueueTypeOK, NEW t \in Tasks, QueueEnqueue(t)
  PROVE  QueueTypeOK'
<1>1. status' \in [Tasks -> TaskStatus] /\ runs' \in [Tasks -> Seq(RunStatus)]
  BY DEF QueueTypeOK, QueueEnqueue, TaskStatus
<1>2. queue \in Seq(Tasks) /\ Append(queue, t) \in Seq(Tasks)
  BY DEF QueueTypeOK
<1>3. queue' \in {queue, Append(queue, t)}
  BY DEF QueueEnqueue, InQueue
<1> QED  BY <1>1, <1>2, <1>3 DEF QueueTypeOK

\* claim() pops from the front: what is left is a deque again, and the new
\* attempt is the last of the task's runs.
LEMMA QueueClaimType ==
  ASSUME QueueTypeOK, NEW t \in Tasks, QueueClaim(t)
  PROVE  QueueTypeOK'
<1>1. PICK ids \in Refreshed : \E k \in DOMAIN ids :
        ids[k] = t /\ FirstQueued(ids, k) /\ queue' = SubSeq(ids, k + 1, Len(ids))
  BY DEF QueueClaim
<1>2. PICK k \in DOMAIN ids : queue' = SubSeq(ids, k + 1, Len(ids))
  BY <1>1
<1>3. ids \in Seq(Tasks)
  BY <1>1, RefreshedType
<1>4. queue' \in Seq(Tasks)
  <2>1. k \in 1 .. Len(ids)
    BY <1>2, <1>3
  <2>2. \A m \in (k + 1) .. Len(ids) : m \in 1 .. Len(ids)
    BY <2>1
  <2> QED  BY <1>2, <1>3, <2>1, <2>2
<1>5. runs' \in [Tasks -> Seq(RunStatus)]
  BY DEF QueueClaim, QueueTypeOK, RunStatus
<1>6. status' \in [Tasks -> TaskStatus]
  BY DEF QueueClaim, QueueTypeOK, TaskStatus
<1> QED  BY <1>4, <1>5, <1>6 DEF QueueTypeOK

LEMMA QueueClaimNothingType ==
  ASSUME QueueTypeOK, QueueClaimNothing
  PROVE  QueueTypeOK'
BY DEF QueueTypeOK, QueueClaimNothing

LEMMA QueueHeartbeatType ==
  ASSUME QueueTypeOK, NEW t \in Tasks, NEW n \in Nat, QueueHeartbeat(t, n)
  PROVE  QueueTypeOK'
<1>1. [runs[t] EXCEPT ![n] = "running"] \in Seq(RunStatus)
  BY UpdateRunType DEF QueueTypeOK, RunStatus
<1>2. runs' = [runs EXCEPT ![t] = [runs[t] EXCEPT ![n] = "running"]]
  BY DEF QueueHeartbeat
<1> QED  BY <1>1, <1>2 DEF QueueTypeOK, QueueHeartbeat

LEMMA QueueSettleType ==
  ASSUME QueueTypeOK, NEW t \in Tasks, NEW n \in Nat,
         NEW outcome \in {"completed", "failed"}, QueueSettle(t, n, outcome)
  PROVE  QueueTypeOK'
<1>1. runs' \in [Tasks -> Seq(RunStatus)]
  <2>1. [runs[t] EXCEPT ![n] = outcome] \in Seq(RunStatus)
    BY UpdateRunType DEF QueueTypeOK, RunStatus
  <2>2. runs' = [runs EXCEPT ![t] = [runs[t] EXCEPT ![n] = outcome]]
    BY DEF QueueSettle
  <2> QED  BY <2>1, <2>2 DEF QueueTypeOK
<1>2. status' \in [Tasks -> TaskStatus]
  BY DEF QueueTypeOK, QueueSettle, TaskStatus
<1>3. queue' \in Seq(Tasks)
  BY WithoutType DEF QueueTypeOK, QueueSettle
<1> QED  BY <1>1, <1>2, <1>3 DEF QueueTypeOK

LEMMA QueueCancelType ==
  ASSUME QueueTypeOK, NEW t \in Tasks, QueueCancel(t)
  PROVE  QueueTypeOK'
<1>1. runs' \in [Tasks -> Seq(RunStatus)]
  BY CancelRunsType DEF QueueTypeOK, QueueCancel
<1>2. status' \in [Tasks -> TaskStatus]
  BY DEF QueueTypeOK, QueueCancel, TaskStatus
<1>3. queue' \in Seq(Tasks)
  BY WithoutType DEF QueueTypeOK, QueueCancel
<1> QED  BY <1>1, <1>2, <1>3 DEF QueueTypeOK
-----------------------------------------------------------------------------
(* The deque.  DequeSound is inductive with the types: what is removed was *)
(* there once, and what claim() skips or pops is gone from the front.      *)

Distinct(q) == \A i, j \in DOMAIN q : q[i] = q[j] => i = j

\* remove_queued() of a deque without duplicates leaves the other ids, once each.
LEMMA WithoutSound ==
  ASSUME NEW t \in Tasks, NEW q \in Seq(Tasks), Distinct(q)
  PROVE  /\ Distinct(Without(q, t))
         /\ \A j \in DOMAIN Without(q, t) :
              Without(q, t)[j] # t /\ \E i \in DOMAIN q : q[i] = Without(q, t)[j]
<1>1. CASE ~ \E i \in DOMAIN q : q[i] = t
  BY <1>1 DEF Without
<1>2. CASE \E i \in DOMAIN q : q[i] = t
  <2> DEFINE k == CHOOSE i \in DOMAIN q : q[i] = t
             front == SubSeq(q, 1, k - 1)
             back == SubSeq(q, k + 1, Len(q))
             source(j) == IF j < k THEN j ELSE j + 1
  <2>1. k \in 1 .. Len(q) /\ q[k] = t /\ Len(q) \in Nat /\ DOMAIN q = 1 .. Len(q)
    BY <1>2
  <2>2. Without(q, t) = front \o back
    BY <1>2 DEF Without
  <2> HIDE DEF k
  <2>3. /\ front \in Seq(Tasks) /\ Len(front) = k - 1
        /\ \A j \in 1 .. (k - 1) : front[j] = q[j]
    <3>1. \A m \in 1 .. (k - 1) : q[m] \in Tasks
      BY <2>1
    <3> QED  BY <2>1, <3>1
  <2>4. /\ back \in Seq(Tasks) /\ Len(back) = Len(q) - k
        /\ \A j \in 1 .. (Len(q) - k) : back[j] = q[k + j]
    <3>1. \A m \in (k + 1) .. Len(q) : q[m] \in Tasks
      BY <2>1
    <3>2. /\ back \in Seq(Tasks)
          /\ Len(back) = IF k + 1 <= Len(q) THEN Len(q) - (k + 1) + 1 ELSE 0
          /\ \A j \in 1 .. Len(q) - (k + 1) + 1 : back[j] = q[k + 1 + j - 1]
      BY <2>1, <3>1, SubSeqProperties
    <3> HIDE DEF back
    <3>3. Len(back) = Len(q) - k
      <4>1. Len(back) = IF k + 1 <= Len(q) THEN Len(q) - (k + 1) + 1 ELSE 0
        BY <3>2
      <4>2. k \in Int /\ Len(q) \in Int /\ k <= Len(q)
        BY <2>1
      <4> QED  BY <4>1, <4>2
    <3>4. ASSUME NEW j \in 1 .. (Len(q) - k)
          PROVE  back[j] = q[k + j]
      <4>1. j \in 1 .. Len(q) - (k + 1) + 1 /\ k + 1 + j - 1 = k + j
        BY <2>1
      <4> QED  BY <3>2, <4>1
    <3> QED  BY <3>2, <3>3, <3>4
  <2> HIDE DEF front, back
  <2>5. /\ DOMAIN (front \o back) = 1 .. (Len(q) - 1)
        /\ \A j \in 1 .. (Len(q) - 1) : (front \o back)[j] = q[source(j)]
    <3>1. /\ front \o back \in Seq(Tasks)
          /\ Len(front \o back) = Len(front) + Len(back)
          /\ \A j \in 1 .. Len(front) + Len(back) : (front \o back)[j] =
               IF j <= Len(front) THEN front[j] ELSE back[j - Len(front)]
      BY <2>3, <2>4, ConcatProperties
    <3>2. Len(front) + Len(back) = Len(q) - 1
      BY <2>1, <2>3, <2>4
    <3>3. ASSUME NEW j \in 1 .. (Len(q) - 1)
          PROVE  (front \o back)[j] = q[source(j)]
      <4>1. CASE j < k
        BY <2>1, <2>3, <3>1, <3>2, <4>1
      <4>2. CASE ~(j < k)
        <5>1. j - (k - 1) \in 1 .. (Len(q) - k) /\ k + (j - (k - 1)) = j + 1
          BY <2>1, <4>2
        <5>2. (front \o back)[j] = back[j - (k - 1)]
          BY <2>1, <2>3, <3>1, <3>2, <4>2
        <5> QED  BY <2>4, <4>2, <5>1, <5>2
      <4> QED  BY <4>1, <4>2
    <3> QED  BY <3>1, <3>2, <3>3, LenProperties
  <2>6. \A j \in 1 .. (Len(q) - 1) : source(j) \in DOMAIN q /\ source(j) # k
    BY <2>1
  <2>7. \A i, j \in 1 .. (Len(q) - 1) : source(i) = source(j) => i = j
    BY <2>1
  <2> HIDE DEF source
  <2> DEFINE rest == front \o back
  <2>8. ASSUME NEW j \in DOMAIN rest
        PROVE  /\ rest[j] # t /\ \E i \in DOMAIN q : q[i] = rest[j]
    BY <2>1, <2>5, <2>6 DEF Distinct
  <2>9. ASSUME NEW i \in DOMAIN rest, NEW j \in DOMAIN rest, rest[i] = rest[j]
        PROVE  i = j
    <3>1. source(i) = source(j)
      BY <2>5, <2>6, <2>9 DEF Distinct
    <3> QED  BY <2>5, <2>7, <3>1
  <2> QED  BY <2>2, <2>8, <2>9 DEF Distinct
<1> QED  BY <1>1, <1>2

\* What refresh_queued_task_ids() leaves is distinct ids of Queued tasks.
LEMMA RefreshedSound ==
  ASSUME QueueTypeOK, DequeSound, NEW ids \in Refreshed
  PROVE  /\ ids \in Seq(Tasks) /\ Distinct(ids)
         /\ \A i \in DOMAIN ids : status[ids[i]] = "queued"
<1>1. ids \in Seq(Tasks)
  BY RefreshedType
<1>2. CASE queue # <<>>
  BY <1>1, <1>2 DEF Refreshed, DequeSound, Distinct
<1>3. CASE queue = <<>>
  <2>1. ids \in Orders(QueuedInStore)
    BY <1>3 DEF Refreshed
  <2>2. /\ DOMAIN ids = 1 .. Cardinality(QueuedInStore)
        /\ \A i \in DOMAIN ids : ids[i] \in QueuedInStore
        /\ Distinct(ids)
    BY <2>1 DEF Orders, Distinct
  <2> QED  BY <1>1, <2>2 DEF QueuedInStore
<1> QED  BY <1>2, <1>3

\* claim() marks the one id that it pops, and no other copy of it is left.
LEMMA QueueClaimSound ==
  ASSUME QueueTypeOK, DequeSound, NEW t \in Tasks, QueueClaim(t)
  PROVE  DequeSound'
<1>1. PICK ids \in Refreshed : \E k \in DOMAIN ids :
        ids[k] = t /\ queue' = SubSeq(ids, k + 1, Len(ids))
  BY DEF QueueClaim
<1>2. PICK k \in DOMAIN ids : ids[k] = t /\ queue' = SubSeq(ids, k + 1, Len(ids))
  BY <1>1
<1>3. /\ ids \in Seq(Tasks) /\ Distinct(ids)
      /\ \A i \in DOMAIN ids : status[ids[i]] = "queued"
  BY RefreshedSound
<1>4. k \in 1 .. Len(ids) /\ Len(ids) \in Nat /\ DOMAIN ids = 1 .. Len(ids)
  BY <1>3
<1>5. /\ DOMAIN queue' = 1 .. (Len(ids) - k)
      /\ \A j \in DOMAIN queue' :
           k + j \in DOMAIN ids /\ k + j # k /\ queue'[j] = ids[k + j]
  <2>1. \A m \in (k + 1) .. Len(ids) : ids[m] \in Tasks
    BY <1>3, <1>4
  <2> QED  BY <1>2, <1>3, <1>4, <2>1
<1>6. \A j \in DOMAIN queue' : queue'[j] \in Tasks /\ queue'[j] # t
  BY <1>2, <1>3, <1>5 DEF Distinct
<1>7. \A j \in DOMAIN queue' : status'[queue'[j]] = "queued"
  BY <1>3, <1>5, <1>6 DEF QueueClaim, QueueTypeOK
<1>8. Distinct(queue)'
  <2> SUFFICES ASSUME NEW i \in DOMAIN queue', NEW j \in DOMAIN queue',
                      queue'[i] = queue'[j]
               PROVE  i = j
    BY DEF Distinct
  <2>1. k + i = k + j
    BY <1>3, <1>5 DEF Distinct
  <2> QED  BY <1>4, <1>5, <2>1
<1> QED  BY <1>7, <1>8 DEF DequeSound, Distinct

\* The task that complete(), fail() and cancel() write is out of the deque.
LEMMA QueueRemoveSound ==
  ASSUME QueueTypeOK, DequeSound, NEW t \in Tasks, NEW to,
         queue' = Without(queue, t), status' = [status EXCEPT ![t] = to]
  PROVE  DequeSound'
<1>1. Distinct(queue) /\ queue \in Seq(Tasks)
  BY DEF DequeSound, Distinct, QueueTypeOK
<1>2. /\ Distinct(queue')
      /\ \A j \in DOMAIN queue' :
           queue'[j] # t /\ \E i \in DOMAIN queue : queue[i] = queue'[j]
  BY <1>1, WithoutSound
<1>3. \A j \in DOMAIN queue' : status'[queue'[j]] = "queued"
  <2> TAKE j \in DOMAIN queue'
  <2>1. PICK i \in DOMAIN queue : queue[i] = queue'[j]
    BY <1>2
  <2>2. status[queue[i]] = "queued" /\ queue[i] \in Tasks
    BY <1>1 DEF DequeSound
  <2> QED  BY <1>2, <2>1, <2>2 DEF QueueTypeOK
<1> QED  BY <1>2, <1>3 DEF DequeSound, Distinct

\* A write of Queued fits the deque, whether or not the id is in it.
LEMMA QueueWriteSound ==
  ASSUME QueueTypeOK, DequeSound, NEW t \in Tasks,
         status' = [status EXCEPT ![t] = "queued"], UNCHANGED queue
  PROVE  DequeSound'
BY DEF QueueTypeOK, DequeSound

\* enqueue() pushes only what is not there.
LEMMA QueueEnqueueSound ==
  ASSUME QueueTypeOK, DequeSound, NEW t \in Tasks, QueueEnqueue(t)
  PROVE  DequeSound'
<1>1. CASE UNCHANGED <<status, queue>>
  BY <1>1 DEF DequeSound
<1>2. CASE /\ status' = [status EXCEPT ![t] = "queued"]
           /\ InQueue(t) /\ queue' = queue
  BY <1>2, QueueWriteSound
<1>3. CASE /\ status' = [status EXCEPT ![t] = "queued"]
           /\ ~InQueue(t) /\ queue' = Append(queue, t)
  <2>1. queue \in Seq(Tasks) /\ Len(queue) \in Nat /\ DOMAIN queue = 1 .. Len(queue)
    BY DEF QueueTypeOK
  <2>2. /\ DOMAIN queue' = 1 .. (Len(queue) + 1)
        /\ queue'[Len(queue) + 1] = t
        /\ \A i \in 1 .. Len(queue) : queue'[i] = queue[i] /\ queue[i] # t
    BY <1>3, <2>1 DEF InQueue
  <2>3. \A i \in 1 .. (Len(queue) + 1) : i \in 1 .. Len(queue) \/ i = Len(queue) + 1
    BY <2>1
  <2>4. \A i \in DOMAIN queue' : status'[queue'[i]] = "queued"
    BY <1>3, <2>1, <2>2, <2>3 DEF QueueTypeOK, DequeSound
  <2>5. \A i, j \in DOMAIN queue' : queue'[i] = queue'[j] => i = j
    BY <2>1, <2>2, <2>3 DEF DequeSound
  <2> QED  BY <2>4, <2>5 DEF DequeSound
<1> QED  BY <1>1, <1>2, <1>3 DEF QueueEnqueue
=============================================================================
