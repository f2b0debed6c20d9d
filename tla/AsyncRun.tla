------------------------------ MODULE AsyncRun ------------------------------
(***************************************************************************)
(* Async agent runs, src/src/agent/async.cpp: AsyncAgentRunWorker, whose   *)
(* run_once() is driven by several threads, and AsyncAgentRunController,   *)
(* through which hosts start, resume and cancel runs.  A run is a task of  *)
(* the store of TaskQueue, a child run one that names a parent.            *)
(*                                                                         *)
(* A step is what a thread does between two points where it holds no       *)
(* mutex.  The controller itself has none: each of its operations is a     *)
(* series of store and queue calls.                                        *)
(*                                                                         *)
(* Left out: events, activity, checkpoints, transcript and ledger, which   *)
(* the control below never reads; topology other than the parent; what the *)
(* runner does inside stream() beyond the outcomes it can have.            *)
(***************************************************************************)
EXTENDS TaskQueue

CONSTANTS
  Parent,             \* Parent[t]: the parent run of a child run, or None
  Foreign,            \* tasks of another type on the same queue
  Workers,            \* threads that call run_once()
  Controllers,        \* threads that call the controller
  Starters,           \* controllers that start runs
  Resumers,           \* controllers that resume runs
  Cancellers,         \* controllers that cancel runs
  Detached,           \* controllers configured without a worker
  ForeignExceptions,  \* TRUE iff a stream may throw a non-std::exception
  Preloaded,          \* tasks enqueued before any thread starts
  MaxGlobal,          \* policy: maxGlobalChildRuns
  MaxActive,          \* policy: maxChildrenPerRun
  MaxTotal,           \* policy: maxChildRunsPerParent
  MaxResumes,         \* bound: resume calls accepted for one run
  MaxForeignClaims,   \* bound: claims of one foreign task
  None

ASSUME TopologyAssumption ==
  /\ Parent \in [Tasks -> Tasks \cup {None}]
  /\ \A t \in Tasks : Parent[t] # t
  /\ Foreign \subseteq Tasks

ASSUME RolesAssumption ==
  /\ Starters \cup Resumers \cup Cancellers \cup Detached \subseteq Controllers
  /\ ForeignExceptions \in BOOLEAN

ASSUME PreloadedAssumption ==
  /\ Preloaded \in Seq(Tasks)
  /\ \A i, j \in DOMAIN Preloaded : Preloaded[i] = Preloaded[j] => i = j

ASSUME BoundsAssumption ==
  {MaxGlobal, MaxActive, MaxTotal, MaxResumes, MaxForeignClaims} \subseteq Nat

ASSUME NoneAssumption == None \notin Tasks /\ None \notin Workers

VARIABLES
  cancelled,  \* the keys of cancelled_run_reasons_
  active,     \* active_cancellations_: whose token is registered for t
  pc,         \* pc[w]: where worker thread w stands in run_once()
  held,       \* held[w]: the task of w's claim
  attempt,    \* attempt[w]: the index in runs of w's claim
  token,      \* token[w]: w's CancellationToken has been cancelled
  call,       \* call[c]: the operation controller thread c is in
  resumes     \* bookkeeping of the bound

tasks  == <<status, runs, queue>>
worker == <<cancelled, active>>
frames == <<pc, held, attempt, token>>
vars   == <<status, runs, queue, cancelled, active,
            pc, held, attempt, token, call, resumes>>

Location == {"idle", "claimed", "foreign", "stream", "completing", "threw",
             "failing", "cancelling", "unregister", "clearing", "unwinding"}
Operation == {"idle", "admit", "create", "enqueue", "resume",
              "mark", "cancel", "close"}
Idle == [op |-> "idle", run |-> None]

TypeOK ==
  /\ QueueTypeOK
  /\ cancelled \in SUBSET Tasks
  /\ active \in [Tasks -> Workers \cup {None}]
  /\ pc \in [Workers -> Location]
  /\ held \in [Workers -> Tasks \cup {None}]
  /\ attempt \in [Workers -> Nat]
  /\ token \in [Workers -> BOOLEAN]
  /\ call \in [Controllers -> [op : Operation, run : Tasks \cup {None}]]
  /\ resumes \in [Tasks -> 0 .. MaxResumes]

Init ==
  /\ QueueInit(Preloaded)
  /\ cancelled = {}
  /\ active = [t \in Tasks |-> None]
  /\ pc = [w \in Workers |-> "idle"]
  /\ held = [w \in Workers |-> None]
  /\ attempt = [w \in Workers |-> 0]
  /\ token = [w \in Workers |-> FALSE]
  /\ call = [c \in Controllers |-> Idle]
  /\ resumes = [t \in Tasks |-> 0]
-----------------------------------------------------------------------------
(* AsyncAgentRunWorker::run_once() and cancel().                           *)

Goto(w, from, to) ==
  /\ pc[w] = from
  /\ pc' = [pc EXCEPT ![w] = to]

\* The frame is gone and with it its claim and its token.
Return(w) ==
  /\ held' = [held EXCEPT ![w] = None]
  /\ attempt' = [attempt EXCEPT ![w] = 0]
  /\ token' = [token EXCEPT ![w] = FALSE]

\* CancelStore writes past the queue's mutex: a queue operation of t that has
\* already read the status overwrites it.
Overwritten(c, t) == call[c] = [op |-> "close", run |-> t]

\* queue_.claim(), then the look at the task's type.
Claim(w) ==
  /\ \E t \in Tasks :
       /\ t \in Foreign => Len(runs[t]) < MaxForeignClaims
       /\ QueueClaim(t)
       /\ Goto(w, "idle", IF t \in Foreign THEN "foreign" ELSE "claimed")
       /\ held' = [held EXCEPT ![w] = t]
       /\ attempt' = [attempt EXCEPT ![w] = Len(runs[t]) + 1]
       /\ \/ UNCHANGED call
          \/ \E c \in Controllers :
               Overwritten(c, t) /\ call' = [call EXCEPT ![c] = Idle]
  /\ UNCHANGED <<worker, token, resumes>>

\* A poll that finds only runs a CancelStore has closed in their place.
ClaimNothing(w) ==
  /\ pc[w] = "idle"
  /\ QueueClaimNothing
  /\ UNCHANGED <<worker, frames, call, resumes>>

\* A task of another type is set back to Queued in the store; its attempt is
\* left Running, and its id is not pushed.
HandBack(w) ==
  /\ Goto(w, "foreign", "idle")
  /\ StoreUpdate(held[w], "queued")
  /\ Return(w)
  /\ UNCHANGED <<worker, call, resumes>>

\* Mutant: a mark that came before the registration is missed.
RegisterUnchecked(w) ==
  /\ Goto(w, "claimed", "stream")
  /\ active' = [active EXCEPT ![held[w]] = w]
  /\ UNCHANGED <<tasks, cancelled, held, attempt, token, call, resumes>>

\* register_active_token.
Register(w) ==
  /\ Goto(w, "claimed", "stream")
  /\ active' = [active EXCEPT ![held[w]] = w]
  /\ token' = [token EXCEPT ![w] = held[w] \in cancelled]
  /\ UNCHANGED <<tasks, cancelled, held, attempt, call, resumes>>

\* A stream event that moves the activity renews the lease.
StreamEvent(w) ==
  /\ pc[w] = "stream"
  /\ QueueHeartbeat(held[w], attempt[w])
  /\ UNCHANGED <<worker, frames, call, resumes>>

\* stream() returns: nothing is asked about cancellation any more.
StreamReturns(w) ==
  /\ Goto(w, "stream", "completing")
  /\ UNCHANGED <<tasks, worker, held, attempt, token, call, resumes>>

\* stream() throws a CancellationError, its own token fired or another.
StreamCancelled(w) ==
  /\ Goto(w, "stream", "cancelling")
  /\ UNCHANGED <<tasks, worker, held, attempt, token, call, resumes>>

\* Any other std::exception, from stream(), the resolver or the observer.
StreamThrows(w) ==
  /\ Goto(w, "stream", "threw")
  /\ UNCHANGED <<tasks, worker, held, attempt, token, call, resumes>>

\* catch (...): whatever else the stream throws goes through run_once() and
\* leaves the run and its attempt as they are ...
StreamThrowsForeign(w) ==
  /\ ForeignExceptions
  /\ Goto(w, "stream", "unwinding")
  /\ UNCHANGED <<tasks, worker, held, attempt, token, call, resumes>>

\* ... but for the token, which is unregistered; the mark is not cleared.
Unwind(w) ==
  /\ Goto(w, "unwinding", "idle")
  /\ active' = [active EXCEPT ![held[w]] = IF @ = w THEN None ELSE @]
  /\ Return(w)
  /\ UNCHANGED <<tasks, cancelled, call, resumes>>

CheckThrown(w) ==
  /\ Goto(w, "threw",
          IF held[w] \in cancelled \/ token[w] THEN "cancelling" ELSE "failing")
  /\ UNCHANGED <<tasks, worker, held, attempt, token, call, resumes>>

Complete(w) ==
  /\ Goto(w, "completing", "unregister")
  /\ QueueSettle(held[w], attempt[w], "completed")
  /\ UNCHANGED <<worker, held, attempt, token, call, resumes>>

Fail(w) ==
  /\ Goto(w, "failing", "unregister")
  /\ QueueSettle(held[w], attempt[w], "failed")
  /\ UNCHANGED <<worker, held, attempt, token, call, resumes>>

CancelClaimed(w) ==
  /\ Goto(w, "cancelling", "unregister")
  /\ QueueCancel(held[w])
  /\ UNCHANGED <<worker, held, attempt, token, call, resumes>>

\* unregister_active_token: only an entry that holds this frame's token.
Unregister(w) ==
  /\ Goto(w, "unregister", "clearing")
  /\ active' = [active EXCEPT ![held[w]] = IF @ = w THEN None ELSE @]
  /\ UNCHANGED <<tasks, cancelled, held, attempt, token, call, resumes>>

ClearCancelled(w) ==
  /\ Goto(w, "clearing", "idle")
  /\ cancelled' = cancelled \ {held[w]}
  /\ Return(w)
  /\ UNCHANGED <<tasks, active, call, resumes>>
-----------------------------------------------------------------------------
(* AsyncAgentRunController.                                                *)

Enter(c, op, t) ==
  /\ call[c] = Idle
  /\ call' = [call EXCEPT ![c] = [op |-> op, run |-> t]]

Continue(c, from, to) ==
  /\ call[c].op = from
  /\ call' = [call EXCEPT ![c] = IF to = "idle" THEN Idle ELSE [@ EXCEPT !.op = to]]

\* is_active_child_status over the child runs.  It also counts Waiting, which
\* this worker never writes.
ActiveChildren == {t \in Tasks : Parent[t] # None /\ status[t] \in {"queued", "running"}}
ChildrenOf(p) == {t \in Tasks : Parent[t] = p /\ status[t] # "none"}

\* The policy's limits, with k more children of p than there are.
WithinLimits(p, k) ==
  /\ Cardinality(ActiveChildren) + k <= MaxGlobal
  /\ Cardinality({t \in ActiveChildren : Parent[t] = p}) + k <= MaxActive
  /\ Cardinality(ChildrenOf(p)) + k <= MaxTotal

\* start: normalize_topology reads the parent, which must exist and be open.
Start(c, t) ==
  /\ c \in Starters
  /\ t \notin Foreign
  /\ status[t] = "none"
  /\ \/ Parent[t] = None /\ Enter(c, "create", t)
     \/ /\ Parent[t] # None
        /\ status[Parent[t]] \notin {"none", "completed", "cancelled"}
        /\ Enter(c, "admit", t)
  /\ UNCHANGED <<tasks, worker, frames, resumes>>

\* Mutant: the new child is not counted.
AdmitUncounted(c) ==
  /\ \/ Continue(c, "admit", "create") /\ WithinLimits(Parent[call[c].run], 0)
     \/ Continue(c, "admit", "idle") /\ ~WithinLimits(Parent[call[c].run], 0)
  /\ UNCHANGED <<tasks, worker, frames, resumes>>

\* enforce_child_agent_policy lists the runs and counts them with the new one.
Admit(c) ==
  /\ \/ Continue(c, "admit", "create") /\ WithinLimits(Parent[call[c].run], 1)
     \/ Continue(c, "admit", "idle") /\ ~WithinLimits(Parent[call[c].run], 1)
  /\ UNCHANGED <<tasks, worker, frames, resumes>>

\* store.create, which refuses an id that exists by now ...
Create(c) ==
  /\ \/ /\ Continue(c, "create", "enqueue")
        /\ StoreCreate(call[c].run)
     \/ /\ Continue(c, "create", "idle")
        /\ status[call[c].run] # "none"
        /\ UNCHANGED tasks
  /\ UNCHANGED <<worker, frames, resumes>>

\* ... and queue->enqueue, by which start and resume end.
Enqueue(c) ==
  /\ Continue(c, "enqueue", "idle")
  /\ QueueEnqueue(call[c].run)
  /\ UNCHANGED <<worker, frames, resumes>>

\* ... which may fall around a CancelStore of the same run.
EnqueueOver(c) ==
  /\ call[c].op = "enqueue"
  /\ status[call[c].run] \notin {"queued", "cancelled"}
  /\ \E d \in Controllers :
       /\ Overwritten(d, call[c].run)
       /\ call' = [call EXCEPT ![c] = Idle, ![d] = Idle]
  /\ QueueEnqueue(call[c].run)
  /\ UNCHANGED <<worker, frames, resumes>>

\* resume: the snapshot must be Waiting (never, see above) or Failed ...
ResumeCheck(c, t) ==
  /\ c \in Resumers
  /\ status[t] = "failed"
  /\ resumes[t] < MaxResumes
  /\ Enter(c, "resume", t)
  /\ resumes' = [resumes EXCEPT ![t] = @ + 1]
  /\ UNCHANGED <<tasks, worker, frames>>

\* ... then the status is overwritten.
ResumeUpdate(c) ==
  /\ Continue(c, "resume", "enqueue")
  /\ StoreUpdate(call[c].run, "queued")
  /\ UNCHANGED <<worker, frames, resumes>>

\* cancel: a snapshot that reads Completed or Cancelled is refused.  Clients
\* cancel runs here, never a task of another type that shares the queue ...
CancelCheck(c, t) ==
  /\ c \in Cancellers
  /\ t \notin Foreign
  /\ status[t] \notin {"none", "completed", "cancelled"}
  /\ Enter(c, IF c \in Detached THEN "close" ELSE "mark", t)
  /\ UNCHANGED <<tasks, worker, frames, resumes>>

\* ... then worker_->cancel: mark_cancelled, which fires the token that is
\* registered, and queue_.cancel ...
CancelMark(c) ==
  /\ Continue(c, "mark", "cancel")
  /\ cancelled' = cancelled \cup {call[c].run}
  /\ token' = [w \in Workers |-> token[w] \/ active[call[c].run] = w]
  /\ UNCHANGED <<tasks, active, pc, held, attempt, resumes>>

CancelQueue(c) ==
  /\ Continue(c, "cancel", "idle")
  /\ QueueCancel(call[c].run)
  /\ UNCHANGED <<worker, frames, resumes>>

\* ... or, without a worker, the store alone.
CancelStore(c) ==
  /\ Continue(c, "close", "idle")
  /\ StoreUpdate(call[c].run, "cancelled")
  /\ UNCHANGED <<worker, frames, resumes>>
-----------------------------------------------------------------------------
RunOnce(w) ==
  \/ Claim(w)
  \/ ClaimNothing(w)
  \/ HandBack(w)
  \/ Register(w)
  \/ StreamReturns(w)
  \/ StreamCancelled(w)
  \/ StreamThrows(w)
  \/ CheckThrown(w)
  \/ Complete(w)
  \/ Fail(w)
  \/ CancelClaimed(w)
  \/ Unwind(w)
  \/ Unregister(w)
  \/ ClearCancelled(w)

ControllerStep(c) ==
  \/ Admit(c)
  \/ Create(c)
  \/ Enqueue(c)
  \/ EnqueueOver(c)
  \/ ResumeUpdate(c)
  \/ CancelMark(c)
  \/ CancelQueue(c)
  \/ CancelStore(c)

ControllerCall(c, t) ==
  \/ Start(c, t)
  \/ ResumeCheck(c, t)
  \/ CancelCheck(c, t)

Next ==
  \/ \E w \in Workers : RunOnce(w) \/ StreamEvent(w) \/ StreamThrowsForeign(w)
  \/ \E c \in Controllers : ControllerStep(c)
  \/ \E c \in Controllers, t \in Tasks : ControllerCall(c, t)

Spec == Init /\ [][Next]_vars
-----------------------------------------------------------------------------
(* Hosts call run_once() in a loop and a runner's stream ends; a controller  *)
(* call that has begun runs to its end.  Nobody has to call the controller.  *)
Fairness ==
  /\ \A w \in Workers : WF_vars(RunOnce(w))
  /\ \A c \in Controllers : WF_vars(ControllerStep(c))

FairSpec == Spec /\ Fairness
-----------------------------------------------------------------------------
(* Properties.                                                             *)

\* active_cancellations_ points at tokens on the stacks of run_once(): a
\* registered token belongs to a frame that is still there and runs that task,
\* even when two threads have claimed the same run.
NoDanglingToken ==
  \A t \in Tasks, w \in Workers :
    active[t] = w => held[w] = t /\ pc[w] \notin {"idle", "claimed"}

\* While a run is marked cancelled, the token registered for it has been
\* fired, whichever of the mark and the registration came first.
CancelReachesActive ==
  \A t \in Tasks, w \in Workers :
    t \in cancelled /\ active[t] = w => token[w]

\* What the worker object says about cancellation holds of the frames: every
\* registered token is alive, and none of a marked run is left unfired.
TokensSound == NoDanglingToken /\ CancelReachesActive

\* A run that no thread holds is at rest.  Whatever calls have raced, it does
\* not read Running ("A worker owns the lease and is executing"), and if it is
\* closed it shows no attempt as Running, though a late stream event may have
\* set a cancelled attempt back to Running while it was held.
RestIsConsistent ==
  \A t \in Tasks :
    (\A w \in Workers : held[w] # t) =>
      /\ status[t] # "running"
      /\ t \notin Foreign /\ status[t] \in {"completed", "failed", "cancelled"}
           => \A n \in DOMAIN runs[t] : runs[t][n] # "running"

\* A child that start() creates is within the policy's limits when it appears,
\* not only when the runs were counted.
AdmissionWithinLimits ==
  [][\A t \in Tasks :
       Parent[t] # None /\ status[t] = "none" /\ status'[t] # "none"
         => WithinLimits(Parent[t], 1)]_vars

\* A run that was queued is served to an end, unless it is resumed for ever.
EveryRunSettles ==
  \A t \in Tasks \ Foreign :
    status[t] \in {"queued", "running"}
      ~> status[t] \in {"completed", "failed", "cancelled"}

\* Cancelled is a closed state: no step leaves it.
CancelledIsFinal ==
  [][\A t \in Tasks \ Foreign :
       status[t] = "cancelled" => status'[t] = "cancelled"]_vars
=============================================================================
