----------------------------- MODULE Autonomous -----------------------------
(***************************************************************************)
(* One autonomous run: AutonomousRunManager over FileAutonomousStore       *)
(* (src/agent/autonomous.cpp) as the routes of autonomous_routes.inc use   *)
(* it.  The manager has no lock of its own: a call is a sequence of store  *)
(* calls, each atomic under the store's mutex and written to the file      *)
(* before it returns, and works in between on the snapshot it read last.   *)
(* Drivers are the server threads that create and resume the run,          *)
(* Operators those that cancel it and complete its waiting steps.          *)
(***************************************************************************)
EXTENDS Naturals, Sequences

CONSTANTS
  Drivers, Operators,  \* the server threads
  Steps,               \* the ids of the steps
  DependsOn,           \* DependsOn[s]: the ids step s depends on
  Plan,                \* the ids of the steps the planner returns, in order
  NextSteps,           \* NextSteps[s]: the ids step s appends when it completes
  None,
  MaxStepsPerRun,      \* max_steps_per_run_
  MaxFailures,         \* bound on planners and executors that throw
  MaxWaits,            \* bound on executors that return Waiting
  MaxCancels,          \* bound on calls of cancel()
  MaxCrashes           \* bound on crashes of the process

ASSUME ThreadsAssumption == Drivers \cap Operators = {}

ASSUME PlanAssumption ==
  /\ DependsOn \in [Steps -> SUBSET Steps]
  /\ Plan \in Seq(Steps)
  /\ NextSteps \in [Steps -> Seq(Steps)]
  /\ None \notin Steps

ASSUME BoundsAssumption ==
  /\ MaxStepsPerRun \in Nat \ {0}
  /\ MaxFailures \in Nat
  /\ MaxWaits \in Nat
  /\ MaxCancels \in Nat
  /\ MaxCrashes \in Nat

VARIABLES
  run,       \* AutonomousRun::status, "none" before create_run()
  steps,     \* the run's steps in order: records [id, status]
  pc,        \* pc[t]: the next store call of thread t
  todo,      \* todo[t]: the steps its loop has still to update
  cur,       \* cur[t]: the step it executes or completes
  executed,  \* executed[t]: the steps this call of run() has executed
  done,      \* history: the ids of the steps that have been Completed
  due,       \* history: those of the steps an executor completed, in a call
             \* that has not died before it appended what follows them
  failures, waits, cancels, crashes  \* what the bounds count

store == <<run, steps, done>>
local == <<todo, cur, executed>>
counters == <<failures, waits, cancels, crashes>>
aside == <<due, counters>>
vars == <<store, pc, local, aside>>

Threads == Drivers \cup Operators

RunStatus ==
  {"none", "queued", "running", "waiting", "completed", "failed", "cancelled"}
StepStatus ==
  {"pending", "running", "waiting", "completed", "failed", "cancelled"}

DriverPc ==
  {"idle", "retry", "reread", "prepare", "plan", "planner", "planned",
   "requeue", "loop", "start", "execute", "completed", "append", "waiting",
   "runWaiting", "failed", "runFailed", "check", "pause", "complete"}
OperatorPc ==
  {"idle", "cancel", "cancelSteps", "answer", "answered"}

TypeOK ==
  /\ run \in RunStatus
  /\ steps \in Seq([id : Steps, status : StepStatus])
  /\ pc \in [Threads -> DriverPc \cup OperatorPc]
  /\ \A d \in Drivers : pc[d] \in DriverPc
  /\ \A o \in Operators : pc[o] \in OperatorPc
  /\ todo \in [Threads -> Seq(Steps)]
  /\ cur \in [Threads -> Steps \cup {None}]
  /\ executed \in [Threads -> 0..MaxStepsPerRun]
  /\ done \subseteq Steps
  /\ due \subseteq Steps
  /\ failures \in 0..MaxFailures
  /\ waits \in 0..MaxWaits
  /\ cancels \in 0..MaxCancels
  /\ crashes \in 0..MaxCrashes

Init ==
  /\ run = "none"
  /\ steps = <<>>
  /\ pc = [t \in Threads |-> "idle"]
  /\ todo = [t \in Threads |-> <<>>]
  /\ cur = [t \in Threads |-> None]
  /\ executed = [t \in Threads |-> 0]
  /\ done = {}
  /\ due = {}
  /\ failures = 0 /\ waits = 0 /\ cancels = 0 /\ crashes = 0

(***************************************************************************)
(* The store.                                                              *)
(***************************************************************************)
\* The lists of the ids of the steps with one of these statuses, in order:
\* there is one.
IdsIn(statuses) ==
  LET at == {i \in DOMAIN steps : steps[i].status \in statuses}
      lists == {p \in UNION {[1 .. n -> at] : n \in 0 .. Len(steps)} :
                  /\ \A k, l \in DOMAIN p : k < l => p[k] < p[l]
                  /\ \A i \in at : \E k \in DOMAIN p : p[k] = i}
  IN  {[k \in DOMAIN p |-> steps[p[k]].id] : p \in lists}

\* update_step() changes the first step that has the id.
IsFirst(i, s) ==
  /\ steps[i].id = s
  /\ \A j \in 1..(i - 1) : steps[j].id # s

UpdateStep(s, to) ==
  /\ steps' = [i \in DOMAIN steps |->
                 IF IsFirst(i, s) THEN [steps[i] EXCEPT !.status = to]
                                  ELSE steps[i]]
  /\ done' = IF to = "completed" THEN done \cup {s} ELSE done

UpdateRun(to) == run' = to

NewSteps(ids) == [i \in DOMAIN ids |-> [id |-> ids[i], status |-> "pending"]]

ReplaceSteps == steps' = NewSteps(Plan)

AppendSteps(s) == steps' = steps \o NewSteps(NextSteps[s])

\* Mutant: any dependency that has been started will do.
DependenciesStarted(step) ==
  \A s \in DependsOn[step.id] :
    \E i \in DOMAIN steps : IsFirst(i, s) /\ steps[i].status # "pending"

\* dependencies_completed(): some step has the id, and the first is Completed.
DependenciesCompleted(step) ==
  \A s \in DependsOn[step.id] :
    \E i \in DOMAIN steps : IsFirst(i, s) /\ steps[i].status = "completed"

Ready(i) == steps[i].status = "pending" /\ DependenciesCompleted(steps[i])

AnyWaiting == \E i \in DOMAIN steps : steps[i].status = "waiting"

(***************************************************************************)
(* The calls.                                                              *)
(***************************************************************************)
Goto(t, label) ==
  /\ pc' = [pc EXCEPT ![t] = label]
  /\ UNCHANGED local

\* Has the steps ids to update, one by one.
Sweep(t, label, ids) ==
  /\ pc' = [pc EXCEPT ![t] = label]
  /\ todo' = [todo EXCEPT ![t] = ids]
  /\ UNCHANGED <<cur, executed>>

\* Goes on with step s.
Pick(t, label, s) ==
  /\ pc' = [pc EXCEPT ![t] = label]
  /\ cur' = [cur EXCEPT ![t] = s]
  /\ UNCHANGED todo

\* The call returns or throws.
Return(t) ==
  /\ pc' = [pc EXCEPT ![t] = "idle"]
  /\ todo' = [todo EXCEPT ![t] = <<>>]
  /\ cur' = [cur EXCEPT ![t] = None]
  /\ executed' = [executed EXCEPT ![t] = 0]

\* create_run(), then run() if the route was asked to start it.
Create(d) ==
  /\ pc[d] = "idle"
  /\ run = "none"
  /\ UpdateRun("queued")
  /\ \E label \in {"idle", "prepare"} : Goto(d, label)
  /\ UNCHANGED <<steps, done, aside>>

\* Mutant: every run that reads Waiting is returned at once.
ResumeNotWaiting(d) ==
  /\ pc[d] = "idle"
  /\ run \notin {"none", "completed", "cancelled", "waiting"}
  /\ Goto(d, "prepare")
  /\ UNCHANGED <<store, aside>>

\* resume() of a run that is neither Completed nor Cancelled, with and without
\* retry_failed_step; it returns at once while the run waits for a step.
Resume(d) ==
  /\ pc[d] = "idle"
  /\ run \notin {"none", "completed", "cancelled"}
  /\ \/ /\ \E i \in DOMAIN steps :
             /\ steps[i].status = "failed"
             /\ \A j \in 1 .. (i - 1) : steps[j].status # "failed"
             /\ Pick(d, "retry", steps[i].id)
        /\ UNCHANGED executed
     \/ /\ ~(run = "waiting" /\ AnyWaiting)
        /\ Goto(d, "prepare")
  /\ UNCHANGED <<store, aside>>

Retry(d) ==
  /\ pc[d] = "retry"
  /\ UpdateStep(cur[d], "pending")
  /\ Goto(d, "reread")
  /\ UNCHANGED <<run, aside>>

Reread(d) ==
  /\ pc[d] = "reread"
  /\ IF run = "waiting" /\ AnyWaiting THEN Return(d) ELSE Goto(d, "prepare")
  /\ UNCHANGED <<store, aside>>

\* Mutant: waiting steps are re-queued with the running ones.
PrepareAll(d) ==
  /\ pc[d] = "prepare"
  /\ IF steps = <<>>
     THEN Goto(d, "plan")
     ELSE \E ids \in IdsIn({"running", "waiting"}) : Sweep(d, "requeue", ids)
  /\ UNCHANGED <<store, aside>>

\* prepare_run(): a closed run is returned as it is, and run() goes on with it.
Prepare(d) ==
  /\ pc[d] = "prepare"
  /\ \/ run \in {"completed", "cancelled"} /\ Goto(d, "loop")
     \/ /\ run \notin {"completed", "cancelled"}
        /\ IF steps = <<>>
           THEN Goto(d, "plan")
           ELSE \E ids \in IdsIn({"running"}) : Sweep(d, "requeue", ids)
  /\ UNCHANGED <<store, aside>>

\* plan() reads the run again, asks the planner if it has no steps yet, and
\* otherwise returns what it read.
ReadPlan(d) ==
  /\ pc[d] = "plan"
  /\ IF steps = <<>>
     THEN Goto(d, "planner")
     ELSE \E ids \in IdsIn({"running"}) : Sweep(d, "requeue", ids)
  /\ UNCHANGED <<store, aside>>

PlannerReturns(d) ==
  /\ pc[d] = "planner"
  /\ Plan # <<>>
  /\ Goto(d, "planned")
  /\ UNCHANGED <<store, aside>>

PlannerThrows(d) ==
  /\ pc[d] = "planner"
  /\ failures < MaxFailures
  /\ failures' = failures + 1
  /\ Return(d)
  /\ UNCHANGED <<store, due, waits, cancels, crashes>>

SavePlan(d) ==
  /\ pc[d] = "planned"
  /\ ReplaceSteps
  /\ Goto(d, "plan")
  /\ UNCHANGED <<run, done, aside>>

\* Mutant: interrupted steps stay Running.
RequeueNothing(d) ==
  /\ pc[d] = "requeue"
  /\ todo[d] # <<>>
  /\ Sweep(d, "requeue", Tail(todo[d]))
  /\ UNCHANGED <<store, aside>>

\* requeue_running_steps(), over the steps that were Running when it read them.
Requeue(d) ==
  /\ pc[d] = "requeue"
  /\ todo[d] # <<>>
  /\ UpdateStep(Head(todo[d]), "pending")
  /\ Sweep(d, "requeue", Tail(todo[d]))
  /\ UNCHANGED <<run, aside>>

BeginRun(d) ==
  /\ pc[d] = "requeue"
  /\ todo[d] = <<>>
  /\ UpdateRun("running")
  /\ Goto(d, "loop")
  /\ UNCHANGED <<steps, done, aside>>

\* Mutant: max_steps_per_run_ is never looked at.
PickStepUnbounded(d) ==
  /\ pc[d] = "loop"
  /\ \E i \in DOMAIN steps :
       /\ Ready(i)
       /\ \A j \in 1..(i - 1) : ~Ready(j)
       /\ Pick(d, "start", steps[i].id)
  /\ executed' = [executed EXCEPT ![d] = @ + 1]
  /\ UNCHANGED <<store, aside>>

\* run() picks the first ready step.
PickStep(d) ==
  /\ pc[d] = "loop"
  /\ executed[d] < MaxStepsPerRun
  /\ \E i \in DOMAIN steps :
       /\ Ready(i)
       /\ \A j \in 1..(i - 1) : ~Ready(j)
       /\ Pick(d, "start", steps[i].id)
  /\ executed' = [executed EXCEPT ![d] = @ + 1]
  /\ UNCHANGED <<store, aside>>

NothingReady(d) ==
  /\ pc[d] = "loop"
  /\ executed[d] < MaxStepsPerRun
  /\ \A i \in DOMAIN steps : ~Ready(i)
  /\ Goto(d, IF AnyWaiting THEN "pause" ELSE "complete")
  /\ UNCHANGED <<store, aside>>

\* More than max_steps_per_run_ steps: run() throws and leaves the run Running.
LimitReached(d) ==
  /\ pc[d] = "loop"
  /\ executed[d] = MaxStepsPerRun
  /\ Return(d)
  /\ UNCHANGED <<store, aside>>

Pause(d) ==
  /\ pc[d] = "pause"
  /\ UpdateRun("waiting")
  /\ Return(d)
  /\ UNCHANGED <<steps, done, aside>>

\* complete_run(): no step is ready, whatever became of the others.
CompleteRun(d) ==
  /\ pc[d] = "complete"
  /\ UpdateRun("completed")
  /\ Return(d)
  /\ UNCHANGED <<steps, done, aside>>

StartStep(d) ==
  /\ pc[d] = "start"
  /\ UpdateStep(cur[d], "running")
  /\ Goto(d, "execute")
  /\ UNCHANGED <<run, aside>>

ExecutorReturns(d) ==
  /\ pc[d] = "execute"
  /\ Goto(d, "completed")
  /\ UNCHANGED <<store, aside>>

ExecutorWaits(d) ==
  /\ pc[d] = "execute"
  /\ waits < MaxWaits
  /\ waits' = waits + 1
  /\ Goto(d, "waiting")
  /\ UNCHANGED <<store, due, failures, cancels, crashes>>

ExecutorThrows(d) ==
  /\ pc[d] = "execute"
  /\ failures < MaxFailures
  /\ failures' = failures + 1
  /\ Goto(d, "failed")
  /\ UNCHANGED <<store, due, waits, cancels, crashes>>

\* Mutant: the follow-up steps of the executor's result are forgotten.
StepCompletedAlone(d) ==
  /\ pc[d] = "completed"
  /\ UpdateStep(cur[d], "completed")
  /\ due' = due \cup {cur[d]}
  /\ Goto(d, "check")
  /\ UNCHANGED <<run, counters>>

StepCompleted(d) ==
  /\ pc[d] = "completed"
  /\ UpdateStep(cur[d], "completed")
  /\ due' = due \cup {cur[d]}
  /\ Goto(d, IF NextSteps[cur[d]] = <<>> THEN "check" ELSE "append")
  /\ UNCHANGED <<run, counters>>

AppendNext(d) ==
  /\ pc[d] = "append"
  /\ AppendSteps(cur[d])
  /\ Goto(d, "check")
  /\ UNCHANGED <<run, done, aside>>

StepWaiting(d) ==
  /\ pc[d] = "waiting"
  /\ UpdateStep(cur[d], "waiting")
  /\ Goto(d, "runWaiting")
  /\ UNCHANGED <<run, aside>>

StepFailed(d) ==
  /\ pc[d] = "failed"
  /\ UpdateStep(cur[d], "failed")
  /\ Goto(d, "runFailed")
  /\ UNCHANGED <<run, aside>>

RunFollows(d) ==
  /\ \/ pc[d] = "runWaiting" /\ UpdateRun("waiting")
     \/ pc[d] = "runFailed" /\ UpdateRun("failed")
  /\ Goto(d, "check")
  /\ UNCHANGED <<steps, done, aside>>

\* run() looks at the status execute_step() read last.
Check(d) ==
  /\ pc[d] = "check"
  /\ IF run \in {"waiting", "failed", "cancelled"} THEN Return(d)
                                                   ELSE Goto(d, "loop")
  /\ UNCHANGED <<store, aside>>

\* cancel(), of a run in any state: the run, then the steps of the snapshot.
Cancel(o) ==
  /\ pc[o] = "idle"
  /\ run # "none"
  /\ cancels < MaxCancels
  /\ cancels' = cancels + 1
  /\ \E ids \in IdsIn({"pending", "running", "waiting"}) : Sweep(o, "cancel", ids)
  /\ UNCHANGED <<store, due, failures, waits, crashes>>

CancelRun(o) ==
  /\ pc[o] = "cancel"
  /\ UpdateRun("cancelled")
  /\ Goto(o, "cancelSteps")
  /\ UNCHANGED <<steps, done, aside>>

CancelStep(o) ==
  /\ pc[o] = "cancelSteps"
  /\ IF todo[o] = <<>>
     THEN Return(o) /\ UNCHANGED <<steps, done>>
     ELSE /\ UpdateStep(Head(todo[o]), "cancelled")
          /\ Sweep(o, "cancelSteps", Tail(todo[o]))
  /\ UNCHANGED <<run, aside>>

\* complete_waiting_step() of a step that reads Waiting.
Answer(o) ==
  /\ pc[o] = "idle"
  /\ \E i \in DOMAIN steps :
       /\ IsFirst(i, steps[i].id)
       /\ steps[i].status = "waiting"
       /\ Pick(o, "answer", steps[i].id)
  /\ UNCHANGED <<executed, store, aside>>

AnswerStep(o) ==
  /\ pc[o] = "answer"
  /\ UpdateStep(cur[o], "completed")
  /\ Goto(o, "answered")
  /\ UNCHANGED <<run, aside>>

AnswerRun(o) ==
  /\ pc[o] = "answered"
  /\ UpdateRun("queued")
  /\ Return(o)
  /\ UNCHANGED <<steps, done, aside>>

Appending(s) == \E d \in Drivers : pc[d] = "append" /\ cur[d] = s

\* The process dies between two store calls and is started again: the file
\* holds what the last store call wrote.  Steps that were about to be appended
\* are lost: the step they follow reads Completed, and nobody looks at it again.
Crash ==
  /\ crashes < MaxCrashes
  /\ crashes' = crashes + 1
  /\ due' = {s \in due : ~Appending(s)}
  /\ pc' = [t \in Threads |-> "idle"]
  /\ todo' = [t \in Threads |-> <<>>]
  /\ cur' = [t \in Threads |-> None]
  /\ executed' = [t \in Threads |-> 0]
  /\ UNCHANGED <<store, failures, waits, cancels>>

Execute(d) ==
  \/ StartStep(d) \/ ExecutorReturns(d) \/ ExecutorWaits(d)
  \/ ExecutorThrows(d) \/ StepCompleted(d) \/ AppendNext(d)
  \/ StepWaiting(d) \/ StepFailed(d) \/ RunFollows(d) \/ Check(d)

Drive(d) ==
  \/ Retry(d) \/ Reread(d) \/ Prepare(d) \/ ReadPlan(d)
  \/ PlannerReturns(d) \/ PlannerThrows(d) \/ SavePlan(d)
  \/ Requeue(d) \/ BeginRun(d) \/ PickStep(d) \/ NothingReady(d)
  \/ LimitReached(d) \/ Pause(d) \/ CompleteRun(d) \/ Execute(d)

Operate(o) ==
  CancelRun(o) \/ CancelStep(o) \/ AnswerStep(o) \/ AnswerRun(o)

Next ==
  \/ \E d \in Drivers : Create(d) \/ Resume(d) \/ Drive(d)
  \/ \E o \in Operators : Cancel(o) \/ Answer(o) \/ Operate(o)
  \/ Crash

Spec == Init /\ [][Next]_vars

\* Calls go on until they return; a client resumes the run while it is open and
\* completes the steps that wait.  Nobody has to cancel, fail or crash.
FairSpec ==
  /\ Spec
  /\ \A d \in Drivers : WF_vars(Drive(d)) /\ WF_vars(Resume(d))
  /\ \A o \in Operators : WF_vars(Operate(o)) /\ WF_vars(Answer(o))

(***************************************************************************)
(* Properties.                                                             *)
(***************************************************************************)
Listed(s) == \E i \in DOMAIN steps : steps[i].id = s

DoneIsClosed ==
  \A i \in DOMAIN steps :
    steps[i].status \in {"pending", "running", "waiting", "failed"} =>
      steps[i].id \notin done

ListedOnce == \A i, j \in DOMAIN steps : steps[i].id = steps[j].id => i = j

FollowUpsListed ==
  \A s \in due :
    Appending(s) \/ \A k \in DOMAIN NextSteps[s] : Listed(NextSteps[s][k])

\* Each step is done once.  One that has been completed is never executed again:
\* neither a restart, which re-queues what was Running, nor a retry, a late
\* answer or a cancel that works on an older snapshot takes it back to where
\* run() would pick it.  The follow-up steps of one that an executor completed
\* are in the plan once, not twice and, as soon as the call has gone on, not
\* never, whatever happens afterwards.  The one exception is a process that dies
\* between the two store calls: then they are lost, for run() never asks a
\* Completed step for what follows it.
EachStepOnce == DoneIsClosed /\ ListedOnce /\ FollowUpsListed

\* A step is not started before each of its dependencies has been completed,
\* however its run was interrupted, retried, answered or cancelled.
DependenciesFirst ==
  \A i \in DOMAIN steps :
    steps[i].status \in {"running", "waiting", "completed", "failed"} =>
      DependsOn[steps[i].id] \subseteq done

\* docs/autonomous.md: run "completes the run when no executable work remains":
\* in a run that reads Completed no step can be executed, is being executed or
\* waits for an answer, whatever was re-queued and retried on the way.  (A run
\* whose cancel overlaps a resume may be completed over its open steps.  Steps
\* that a crash kept from being appended are in no run: see EachStepOnce.)
CompletedIsExhausted ==
  run = "completed" /\ cancels = 0 =>
    \A i \in DOMAIN steps :
      steps[i].status \notin {"running", "waiting"} /\ ~Ready(i)

\* Once created, a run is closed for good if clients resume it and answer it.
EveryRunCloses ==
  (run # "none") ~> [](run \in {"completed", "cancelled"})
=============================================================================
