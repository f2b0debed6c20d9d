----------------------------- MODULE TaskWorker -----------------------------
(***************************************************************************)
(* AgentTaskWorker of src/src/agent/tasks.cpp, whose run_once() is driven  *)
(* by several threads over one store and queue, the server's task routes   *)
(* that create, resume and cancel tasks while the workers run, and crashes *)
(* of the process.                                                         *)
(*                                                                         *)
(* What separates two steps is a point where the thread holds no mutex.    *)
(* A crash is the exception: the file store persists each store call by    *)
(* itself, so a crash can also fall between the two store calls of one     *)
(* queue operation (the Torn actions).                                     *)
(***************************************************************************)
EXTENDS TaskQueue

CONSTANTS
  Workers,            \* threads that call AgentTaskWorker::run_once()
  Clients,            \* threads that serve task routes
  Submitters,         \* clients that call the create route
  Resumers,           \* clients that call the resume route
  Cancellers,         \* clients that call the cancel route
  Detached,           \* clients whose server is configured without a worker
  Heartbeating,       \* workers whose handler calls queue.heartbeat()
  ThrowsForeign,      \* workers whose handler may throw a non-std::exception
  Preloaded,          \* tasks created and enqueued before any worker starts
  MaxResumes,         \* bound: resume requests accepted for one task
  MaxCrashes,         \* bound: crashes of the process (file store only)
  None                \* no task, no worker

ASSUME RolesAssumption ==
  /\ Submitters \cup Resumers \cup Cancellers \cup Detached \subseteq Clients
  /\ Heartbeating \cup ThrowsForeign \subseteq Workers

ASSUME PreloadedAssumption ==
  /\ Preloaded \in Seq(Tasks)
  /\ \A i, j \in DOMAIN Preloaded : Preloaded[i] = Preloaded[j] => i = j

ASSUME BoundsAssumption == MaxResumes \in Nat /\ MaxCrashes \in Nat

ASSUME NoneAssumption == None \notin Tasks /\ None \notin Workers

VARIABLES
  outputs,    \* outputs[t]: the attempts that saved an "output" checkpoint
  \* The worker object.
  cancelled,  \* cancelled_task_ids_
  active,     \* active_cancellations_: whose token is registered for t
  \* The frames of run_once() and of the routes.
  pc,         \* pc[w]: where worker thread w stands
  held,       \* held[w]: the task of w's claim
  attempt,    \* attempt[w]: the index in runs of w's claim
  token,      \* token[w]: w's CancellationToken has been cancelled
  call,       \* call[c]: the route client c is in the middle of
  \* Bookkeeping of the bounds.
  resumes,
  crashes

tasks  == <<status, runs, queue>>
worker == <<cancelled, active>>
frames == <<pc, held, attempt, token>>
bounds == <<resumes, crashes>>
vars   == <<status, runs, queue, outputs, cancelled, active,
            pc, held, attempt, token, call, resumes, crashes>>

Location == {"idle", "claimed", "handler", "returned", "threw", "output",
             "completing", "failing", "cancelling", "clearing", "unregister"}
Route    == [op : {"idle", "enqueue", "resume", "cancel"},
             task : Tasks \cup {None}]
Idle     == [op |-> "idle", task |-> None]

TypeOK ==
  /\ QueueTypeOK
  /\ outputs \in [Tasks -> SUBSET Nat]
  /\ cancelled \in SUBSET Tasks
  /\ active \in [Tasks -> Workers \cup {None}]
  /\ pc \in [Workers -> Location]
  /\ held \in [Workers -> Tasks \cup {None}]
  /\ attempt \in [Workers -> Nat]
  /\ token \in [Workers -> BOOLEAN]
  /\ call \in [Clients -> Route]
  /\ resumes \in [Tasks -> 0 .. MaxResumes]
  /\ crashes \in 0 .. MaxCrashes

Init ==
  /\ QueueInit(Preloaded)
  /\ outputs = [t \in Tasks |-> {}]
  /\ cancelled = {}
  /\ active = [t \in Tasks |-> None]
  /\ pc = [w \in Workers |-> "idle"]
  /\ held = [w \in Workers |-> None]
  /\ attempt = [w \in Workers |-> 0]
  /\ token = [w \in Workers |-> FALSE]
  /\ call = [c \in Clients |-> Idle]
  /\ resumes = [t \in Tasks |-> 0]
  /\ crashes = 0
-----------------------------------------------------------------------------
(* AgentTaskWorker::run_once().                                            *)

Goto(w, from, to) ==
  /\ pc[w] = from
  /\ pc' = [pc EXCEPT ![w] = to]

\* queue_.claim(); the local token is constructed next.  DequeSound holds here,
\* so a claim that returns nothing has found an empty deque and left it so.
Claim(w) ==
  /\ Goto(w, "idle", "claimed")
  /\ \E t \in Tasks :
       /\ QueueClaim(t)
       /\ held' = [held EXCEPT ![w] = t]
       /\ attempt' = [attempt EXCEPT ![w] = Len(runs[t]) + 1]
  /\ UNCHANGED <<outputs, worker, token, call, bounds>>

\* Mutant: a mark that came before the registration is missed.
RegisterUnchecked(w) ==
  /\ Goto(w, "claimed", "handler")
  /\ active' = [active EXCEPT ![held[w]] = w]
  /\ UNCHANGED <<tasks, outputs, cancelled, held, attempt, token, call, bounds>>

\* register_active_token: overwrites the entry of the task, and cancels the
\* token at once if the task is already in cancelled_task_ids_.
Register(w) ==
  /\ Goto(w, "claimed", "handler")
  /\ active' = [active EXCEPT ![held[w]] = w]
  /\ token' = [token EXCEPT ![w] = held[w] \in cancelled]
  /\ UNCHANGED <<tasks, outputs, cancelled, held, attempt, call, bounds>>

\* A handler that keeps its lease alive through the queue.
Heartbeat(w) ==
  /\ w \in Heartbeating
  /\ pc[w] = "handler"
  /\ QueueHeartbeat(held[w], attempt[w])
  /\ UNCHANGED <<outputs, worker, frames, call, bounds>>

HandlerReturns(w) ==
  /\ Goto(w, "handler", "returned")
  /\ UNCHANGED <<tasks, outputs, worker, held, attempt, token, call, bounds>>

HandlerThrows(w) ==
  /\ Goto(w, "handler", "threw")
  /\ UNCHANGED <<tasks, outputs, worker, held, attempt, token, call, bounds>>

\* catch (...): the token is unregistered and the exception leaves run_once()
\* with the task and its run still Running.
HandlerThrowsForeign(w) ==
  /\ w \in ThrowsForeign
  /\ Goto(w, "handler", "unregister")
  /\ UNCHANGED <<tasks, outputs, worker, held, attempt, token, call, bounds>>

\* is_cancelled() after the handler returned: the token is not consulted.
CheckReturned(w) ==
  /\ Goto(w, "returned", IF held[w] \in cancelled THEN "cancelling" ELSE "output")
  /\ UNCHANGED <<tasks, outputs, worker, held, attempt, token, call, bounds>>

\* is_cancelled() || cancellation.cancelled() in the catch clause.
CheckThrown(w) ==
  /\ Goto(w, "threw",
          IF held[w] \in cancelled \/ token[w] THEN "cancelling" ELSE "failing")
  /\ UNCHANGED <<tasks, outputs, worker, held, attempt, token, call, bounds>>

SaveOutput(w) ==
  /\ Goto(w, "output", "completing")
  /\ outputs' = [outputs EXCEPT ![held[w]] = @ \cup {attempt[w]}]
  /\ UNCHANGED <<tasks, worker, held, attempt, token, call, bounds>>

Settle(w, from, outcome) ==
  /\ Goto(w, from, "unregister")
  /\ QueueSettle(held[w], attempt[w], outcome)
  /\ UNCHANGED <<outputs, worker, held, attempt, token, call, bounds>>

Complete(w) == Settle(w, "completing", "completed")
Fail(w) == Settle(w, "failing", "failed")

CancelClaimed(w) ==
  /\ Goto(w, "cancelling", "clearing")
  /\ QueueCancel(held[w])
  /\ UNCHANGED <<outputs, worker, held, attempt, token, call, bounds>>

ClearCancelled(w) ==
  /\ Goto(w, "clearing", "unregister")
  /\ cancelled' = cancelled \ {held[w]}
  /\ UNCHANGED <<tasks, outputs, active, held, attempt, token, call, bounds>>

\* unregister_active_token erases the entry only if it is this frame's token;
\* then run_once() returns and the frame is gone.
Unregister(w) ==
  /\ Goto(w, "unregister", "idle")
  /\ active' = [active EXCEPT ![held[w]] = IF @ = w THEN None ELSE @]
  /\ held' = [held EXCEPT ![w] = None]
  /\ attempt' = [attempt EXCEPT ![w] = 0]
  /\ token' = [token EXCEPT ![w] = FALSE]
  /\ UNCHANGED <<tasks, outputs, cancelled, call, bounds>>
-----------------------------------------------------------------------------
(* The task routes of the server.                                          *)

Enter(c, op, t) ==
  /\ call[c] = Idle
  /\ call' = [call EXCEPT ![c] = [op |-> op, task |-> t]]

Leave(c, op) ==
  /\ call[c].op = op
  /\ call' = [call EXCEPT ![c] = Idle]

\* handle_task_create up to store->create_task; the enqueue is a later step.
Create(c, t) ==
  /\ c \in Submitters
  /\ Enter(c, "enqueue", t)
  /\ StoreCreate(t)
  /\ UNCHANGED <<outputs, worker, frames, bounds>>

Enqueue(c) ==
  /\ Leave(c, "enqueue")
  /\ QueueEnqueue(call[c].task)
  /\ UNCHANGED <<outputs, worker, frames, bounds>>

\* handle_task_resume: the snapshot decides, 409 for a Completed, Cancelled or
\* Running task ...
ResumeCheck(c, t) ==
  /\ c \in Resumers
  /\ status[t] \notin {"none", "completed", "cancelled", "running"}
  /\ resumes[t] < MaxResumes
  /\ Enter(c, "resume", t)
  /\ resumes' = [resumes EXCEPT ![t] = @ + 1]
  /\ UNCHANGED <<tasks, outputs, worker, frames, crashes>>

\* ... then the status is overwritten, whatever it has become, and the task is
\* enqueued.
ResumeUpdate(c) ==
  /\ call[c].op = "resume"
  /\ call' = [call EXCEPT ![c].op = "enqueue"]
  /\ StoreUpdate(call[c].task, "queued")
  /\ UNCHANGED <<outputs, worker, frames, bounds>>

\* Mutant: the token is fired but the id is not remembered.
CancelMarkTokenOnly(c, t) ==
  /\ c \in Cancellers \ Detached
  /\ status[t] # "none"
  /\ Enter(c, "cancel", t)
  /\ token' = [w \in Workers |-> token[w] \/ active[t] = w]
  /\ UNCHANGED <<tasks, outputs, worker, pc, held, attempt, bounds>>

\* handle_task_cancel calls worker->cancel(t): mark_cancelled first, which
\* fires the token registered for t ...
CancelMark(c, t) ==
  /\ c \in Cancellers \ Detached
  /\ status[t] # "none"
  /\ Enter(c, "cancel", t)
  /\ cancelled' = cancelled \cup {t}
  /\ token' = [w \in Workers |-> token[w] \/ active[t] = w]
  /\ UNCHANGED <<tasks, outputs, active, pc, held, attempt, bounds>>

\* ... then queue_.cancel(t).
CancelQueue(c) ==
  /\ Leave(c, "cancel")
  /\ QueueCancel(call[c].task)
  /\ UNCHANGED <<outputs, worker, frames, bounds>>

\* handle_task_cancel without a worker: queue->cancel(t) is all it does.
CancelDetached(c, t) ==
  /\ c \in Cancellers \cap Detached
  /\ status[t] # "none"
  /\ call[c] = Idle
  /\ QueueCancel(t)
  /\ UNCHANGED <<outputs, worker, frames, call, bounds>>
-----------------------------------------------------------------------------
(* Crash and restart over a FileTaskStore: the store is reloaded from its  *)
(* file, everything else starts empty.                                     *)

Restart ==
  /\ crashes < MaxCrashes
  /\ crashes' = crashes + 1
  /\ queue' = <<>>
  /\ cancelled' = {}
  /\ active' = [t \in Tasks |-> None]
  /\ pc' = [w \in Workers |-> "idle"]
  /\ held' = [w \in Workers |-> None]
  /\ attempt' = [w \in Workers |-> 0]
  /\ token' = [w \in Workers |-> FALSE]
  /\ call' = [c \in Clients |-> Idle]
  /\ UNCHANGED <<outputs, resumes>>

Crash == Restart /\ UNCHANGED <<status, runs>>

\* Inside claim(): the task is Running on disk and has no run for it.
TornClaim(t) ==
  /\ \E w \in Workers : pc[w] = "idle"
  /\ \E ids \in Refreshed : \E k \in DOMAIN ids : ids[k] = t /\ FirstQueued(ids, k)
  /\ status' = [status EXCEPT ![t] = "running"]
  /\ UNCHANGED runs
  /\ Restart

\* Mutant: the task is written before its run.
TornSettleTaskFirst(w, from, outcome) ==
  /\ pc[w] = from
  /\ status' = [status EXCEPT ![held[w]] = outcome]
  /\ UNCHANGED runs
  /\ Restart

\* Inside complete() or fail(): the run is settled on disk, the task is not.
TornSettle(w, from, outcome) ==
  /\ pc[w] = from
  /\ runs' = [runs EXCEPT ![held[w]][attempt[w]] = outcome]
  /\ UNCHANGED status
  /\ Restart

\* Inside cancel(t): the task is Cancelled on disk, and of its running runs
\* only those before k.
TornCancel(t, k) ==
  /\ \/ \E w \in Workers : pc[w] = "cancelling" /\ held[w] = t
     \/ \E c \in Clients : call[c] = [op |-> "cancel", task |-> t]
     \/ \E c \in Cancellers \cap Detached : call[c] = Idle /\ status[t] # "none"
  /\ status' = [status EXCEPT ![t] = "cancelled"]
  /\ runs' = [runs EXCEPT ![t] =
                [n \in DOMAIN @ |-> IF n < k THEN CancelRuns(@)[n] ELSE @[n]]]
  /\ Restart
-----------------------------------------------------------------------------
RunOnce(w) ==
  \/ Claim(w)
  \/ Register(w)
  \/ HandlerReturns(w)
  \/ HandlerThrows(w)
  \/ CheckReturned(w)
  \/ CheckThrown(w)
  \/ SaveOutput(w)
  \/ Complete(w)
  \/ Fail(w)
  \/ CancelClaimed(w)
  \/ ClearCancelled(w)
  \/ Unregister(w)

RouteStep(c) ==
  \/ Enqueue(c)
  \/ ResumeUpdate(c)
  \/ CancelQueue(c)

Request(c, t) ==
  \/ Create(c, t)
  \/ ResumeCheck(c, t)
  \/ CancelMark(c, t)
  \/ CancelDetached(c, t)

Failure ==
  \/ Crash
  \/ \E t \in Tasks : TornClaim(t)
  \/ \E w \in Workers : TornSettle(w, "completing", "completed")
  \/ \E w \in Workers : TornSettle(w, "failing", "failed")
  \/ \E t \in Tasks : \E k \in DOMAIN runs[t] : TornCancel(t, k)

Next ==
  \/ \E w \in Workers : RunOnce(w) \/ Heartbeat(w) \/ HandlerThrowsForeign(w)
  \/ \E c \in Clients : RouteStep(c)
  \/ \E c \in Clients, t \in Tasks : Request(c, t)
  \/ Failure

Spec == Init /\ [][Next]_vars

(* A worker thread is driven in a loop by its host and a handler is expected *)
(* to end (its token tells it to); a route that has started runs to its end. *)
(* Nobody is obliged to send a request, to heartbeat or to crash.            *)
Fairness ==
  /\ \A w \in Workers : WF_vars(RunOnce(w))
  /\ \A c \in Clients : WF_vars(RouteStep(c))

FairSpec == Spec /\ Fairness
-----------------------------------------------------------------------------
(* Properties.                                                             *)

Executing == {"claimed", "handler", "returned", "threw",
              "output", "completing", "failing", "cancelling"}

\* active_cancellations_ points at tokens on the stacks of run_once(): a
\* registered token belongs to a frame that is still there and runs that task,
\* through double claims, foreign exceptions and crashes.
NoDanglingToken ==
  \A t \in Tasks, w \in Workers :
    active[t] = w => held[w] = t /\ pc[w] \notin {"idle", "claimed"}

\* A cancel request cannot fall between mark_cancelled and
\* register_active_token: while a task is marked, the token registered for it
\* has been fired, whichever of the two came first.
CancelReachesActive ==
  \A t \in Tasks, w \in Workers :
    t \in cancelled /\ active[t] = w => token[w]

\* What the worker object says about cancellation holds of the frames: every
\* registered token is alive, and none of a marked task is left unfired.
TokensSound == NoDanglingToken /\ CancelReachesActive

\* A task that reads Completed can be accounted for: one of its attempts is
\* Completed and has saved its output, even when the process died between the
\* two writes of complete() and whatever was retried since.
CompletedIsBacked ==
  \A t \in Tasks :
    status[t] = "completed" =>
      \E n \in outputs[t] \cap DOMAIN runs[t] : runs[t][n] = "completed"

\* No later cancel, retry, heartbeat or crash rewrites the outcome of an
\* attempt that completed or failed.
SettledRunFinal ==
  [][\A t \in Tasks : \A n \in DOMAIN runs[t] :
       runs[t][n] \in {"completed", "failed"} => runs'[t][n] = runs[t][n]]_vars

\* A claim is exclusive: no task is executed by two threads at once.
SingleExecution ==
  \A v, w \in Workers :
    v # w /\ held[v] = held[w] => held[v] = None

\* The status of a task can be accounted for: one that reads Running is held by
\* a thread, on an attempt that is itself Running, and the record of one that
\* reads Cancelled shows no attempt as still Running.
StatusIsBacked ==
  \A t \in Tasks :
    /\ status[t] = "running" =>
         \E w \in Workers : /\ held[w] = t
                            /\ pc[w] \in Executing
                            /\ runs[t][attempt[w]] = "running"
    /\ status[t] = "cancelled" =>
         \A n \in DOMAIN runs[t] : runs[t][n] # "running"

\* A worker whose task reads Cancelled before it looks at the outcome of its
\* handler does not go on to complete or fail it: the mark in the worker is at
\* least as early as the status in the store and survives until that look.
CancelHonoured ==
  [][\A w \in Workers :
       /\ pc[w] \in {"claimed", "handler", "returned", "threw"}
       /\ status[held[w]] = "cancelled"
       => pc'[w] \notin {"output", "failing"}]_vars

\* Once submitted, a task is served to an end.
EveryTaskSettles ==
  \A t \in Tasks :
    status[t] \in {"queued", "running"}
      ~> status[t] \in {"completed", "failed", "cancelled"}

\* A task that reads Queued does not wait forever, even if the process crashed
\* before it was pushed: an empty deque is reloaded from the store.
QueuedIsServed ==
  \A t \in Tasks : status[t] = "queued" ~> status[t] # "queued"

\* The abstract lifecycle: the owner of a task is the thread that holds it and
\* has not settled it yet.
owner == [t \in Tasks |->
  IF \E w \in Workers : held[w] = t /\ pc[w] \in Executing
  THEN CHOOSE w \in Workers : held[w] = t /\ pc[w] \in Executing
  ELSE None]

Lifecycle == INSTANCE TaskLifecycle
  WITH Tasks <- Tasks, Workers <- Workers, None <- None,
       status <- status, owner <- owner

\* Tasks that are enqueued before the workers start are each started by one
\* thread, settled by that thread alone, and otherwise only ever cancelled.
ImplementsLifecycle == Lifecycle!Spec
=============================================================================
