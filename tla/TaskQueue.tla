----------------------------- MODULE TaskQueue -----------------------------
(***************************************************************************)
(* The task store and the queue over it: InMemoryTaskStore and             *)
(* InMemoryTaskQueue of src/src/agent/tasks.cpp.  TaskWorker and AsyncRun  *)
(* are the two workers that claim from it.                                 *)
(*                                                                         *)
(* Every operation of the queue holds the queue's mutex from its first     *)
(* line to its last and every operation of the store holds the store's, so *)
(* a queue operation is one step.  Some callers overwrite a status past    *)
(* the queue's mutex, in one store call.  A write of Queued that falls     *)
(* inside a queue operation has the effect of one before or after it; a    *)
(* write of Cancelled can be lost inside claim and enqueue, which AsyncRun *)
(* adds where its controller does that.                                    *)
(*                                                                         *)
(* Left out: outputs, errors, timestamps, the audit events and the steps   *)
(* (nothing here reads them back) and the leases, which InMemoryTaskQueue  *)
(* records and never looks at.                                             *)
(***************************************************************************)
EXTENDS Naturals, Sequences, FiniteSets

CONSTANT Tasks  \* task ids

ASSUME TasksAssumption == IsFiniteSet(Tasks)

VARIABLES
  status,  \* status[t] in the store, "none" before create_task
  runs,    \* runs[t]: the statuses of the attempts, oldest first
  queue    \* queued_task_ids_

TaskStatus == {"none", "queued", "running", "completed", "failed", "cancelled"}
RunStatus  == {"running", "completed", "failed", "cancelled"}

QueueTypeOK ==
  /\ status \in [Tasks -> TaskStatus]
  /\ runs \in [Tasks -> Seq(RunStatus)]
  /\ queue \in Seq(Tasks)

\* ids have been created and enqueued, in that order, and nothing else.
QueueInit(ids) ==
  /\ status = [t \in Tasks |->
       IF \E i \in DOMAIN ids : ids[i] = t THEN "queued" ELSE "none"]
  /\ runs = [t \in Tasks |-> <<>>]
  /\ queue = ids
-----------------------------------------------------------------------------
InQueue(t) == \E i \in DOMAIN queue : queue[i] = t

\* remove_queued(t).  enqueue() never pushes an id twice, so one removal is
\* all that std::remove does.
Without(q, t) ==
  IF \E i \in DOMAIN q : q[i] = t
  THEN LET i == CHOOSE i \in DOMAIN q : q[i] = t
       IN  SubSeq(q, 1, i - 1) \o SubSeq(q, i + 1, Len(q))
  ELSE q

\* The orders in which refresh_queued_task_ids() can load the tasks of S.
\* list_tasks sorts by created_at, whose ties (the clock's tick, and whole
\* milliseconds after a reload) std::sort leaves in any order.
Orders(S) ==
  {s \in [1 .. Cardinality(S) -> S] :
     \A i, j \in 1 .. Cardinality(S) : s[i] = s[j] => i = j}

QueuedInStore == {t \in Tasks : status[t] = "queued"}

\* Mutant: only what was pushed is ever claimed.
NeverRefreshed == {queue}

\* The deque after refresh_queued_task_ids(): reloaded only when it is empty.
Refreshed == IF queue = <<>> THEN Orders(QueuedInStore) ELSE {queue}

\* claim() pops ids until it meets a task that is still Queued, at position k.
FirstQueued(ids, k) ==
  /\ status[ids[k]] = "queued"
  /\ \A i \in 1 .. (k - 1) : status[ids[i]] # "queued"

\* Mutant: every run is rewritten, whatever its status.
CancelAllRuns(rs) == [n \in DOMAIN rs |-> "cancelled"]

\* The runs that cancel(t) rewrites: only those still running.
CancelRuns(rs) ==
  [n \in DOMAIN rs |-> IF rs[n] = "running" THEN "cancelled" ELSE rs[n]]
-----------------------------------------------------------------------------
(* The operations of the store and the queue that change state, by task t  *)
(* and, where they take a run id, by the attempt n.                        *)

\* InMemoryTaskStore::create_task; an id that exists is refused.
StoreCreate(t) ==
  /\ status[t] = "none"
  /\ status' = [status EXCEPT ![t] = "queued"]
  /\ UNCHANGED <<runs, queue>>

\* InMemoryTaskStore::update_task_status, straight from outside the queue.
StoreUpdate(t, to) ==
  /\ status' = [status EXCEPT ![t] = to]
  /\ UNCHANGED <<runs, queue>>

\* enqueue: nothing for a Cancelled task; any other status becomes Queued, and
\* the id is pushed unless it is already there.
QueueEnqueue(t) ==
  \/ /\ status[t] = "cancelled"
     /\ UNCHANGED <<status, runs, queue>>
  \/ /\ status[t] # "cancelled"
     /\ status' = [status EXCEPT ![t] = "queued"]
     /\ queue' = IF InQueue(t) THEN queue ELSE Append(queue, t)
     /\ UNCHANGED runs

\* Mutant: the claimed task is left Queued in the store.
QueueClaimUnmarked(t) ==
  /\ \E ids \in Refreshed : \E k \in DOMAIN ids :
       /\ ids[k] = t
       /\ FirstQueued(ids, k)
       /\ queue' = SubSeq(ids, k + 1, Len(ids))
  /\ runs' = [runs EXCEPT ![t] = Append(@, "running")]
  /\ UNCHANGED status

\* claim, where it returns t: refreshed, the ids before t skipped, t popped,
\* marked Running and given a new attempt.
QueueClaim(t) ==
  /\ \E ids \in Refreshed : \E k \in DOMAIN ids :
       /\ ids[k] = t
       /\ FirstQueued(ids, k)
       /\ queue' = SubSeq(ids, k + 1, Len(ids))
  /\ status' = [status EXCEPT ![t] = "running"]
  /\ runs' = [runs EXCEPT ![t] = Append(@, "running")]

\* claim, where it returns nothing: whatever was in the deque has been skipped.
QueueClaimNothing ==
  /\ queue # <<>>
  /\ \A k \in DOMAIN queue : status[queue[k]] # "queued"
  /\ queue' = <<>>
  /\ UNCHANGED <<status, runs>>

\* Mutant: the wrong status is passed to update_run.
QueueHeartbeatQueued(t, n) ==
  /\ runs' = [runs EXCEPT ![t][n] = "queued"]
  /\ UNCHANGED <<status, queue>>

\* heartbeat: update_run sets the attempt to Running, whatever its status.
QueueHeartbeat(t, n) ==
  /\ runs' = [runs EXCEPT ![t][n] = "running"]
  /\ UNCHANGED <<status, queue>>

\* Mutant: only the run is updated.
QueueSettleRunOnly(t, n, outcome) ==
  /\ runs' = [runs EXCEPT ![t][n] = outcome]
  /\ queue' = Without(queue, t)
  /\ UNCHANGED status

\* complete and fail: the run, then the task, then the deque.  Neither looks
\* at the status it overwrites.
QueueSettle(t, n, outcome) ==
  /\ runs' = [runs EXCEPT ![t][n] = outcome]
  /\ status' = [status EXCEPT ![t] = outcome]
  /\ queue' = Without(queue, t)

\* Mutant: the id stays in the deque.
QueueCancelInPlace(t) ==
  /\ status' = [status EXCEPT ![t] = "cancelled"]
  /\ runs' = [runs EXCEPT ![t] = CancelRuns(@)]
  /\ UNCHANGED queue

\* Mutant: the runs of the task are left as they are.
QueueCancelTaskOnly(t) ==
  /\ status' = [status EXCEPT ![t] = "cancelled"]
  /\ queue' = Without(queue, t)
  /\ UNCHANGED runs

\* cancel, whatever the task's status.
QueueCancel(t) ==
  /\ status' = [status EXCEPT ![t] = "cancelled"]
  /\ runs' = [runs EXCEPT ![t] = CancelRuns(@)]
  /\ queue' = Without(queue, t)
-----------------------------------------------------------------------------
\* The deque holds no task twice and no task that claim() would skip, so what
\* a worker pops it also runs.
DequeSound ==
  /\ \A i, j \in DOMAIN queue : queue[i] = queue[j] => i = j
  /\ \A i \in DOMAIN queue : status[queue[i]] = "queued"
=============================================================================
