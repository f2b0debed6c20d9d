-------------------------- MODULE AutonomousProofs --------------------------
(***************************************************************************)
(* Theorems about Autonomous, for every plan, every number of operators    *)
(* and every bound.  The types, and the order in which steps are done, do  *)
(* not depend on there being one driver; that each step is done once, and  *)
(* that a completed run is exhausted, does.                                *)
(***************************************************************************)
EXTENDS Autonomous, SequenceTheorems, TLAPS

-----------------------------------------------------------------------------
(* The store calls.                                                        *)

StepRecords == [id : Steps, status : StepStatus]

StepsInv ==
  /\ steps \in Seq(StepRecords)
  /\ \A i \in DOMAIN steps : steps[i].status = "completed" => steps[i].id \in done
  /\ DependenciesFirst

Started == {"running", "waiting", "completed", "failed"}

LEMMA StepIds ==
  ASSUME StepsInv
  PROVE  \A i \in DOMAIN steps : steps[i].id \in Steps
<1>1. \A i \in DOMAIN steps : steps[i] \in StepRecords
  BY LenProperties, ElementOfSeq DEF StepsInv
<1> QED  BY <1>1 DEF StepRecords

LEMMA NewStepsType ==
  ASSUME NEW ids \in Seq(Steps)
  PROVE  /\ NewSteps(ids) \in Seq(StepRecords)
         /\ \A i \in DOMAIN NewSteps(ids) : NewSteps(ids)[i].status = "pending"
<1>1. Len(ids) \in Nat /\ DOMAIN ids = 1 .. Len(ids) /\ \A i \in DOMAIN ids : ids[i] \in Steps
  BY LenProperties, ElementOfSeq
<1>2. \A i \in DOMAIN ids : [id |-> ids[i], status |-> "pending"] \in StepRecords
  BY <1>1 DEF StepRecords, StepStatus
<1>3. NewSteps(ids) \in [1 .. Len(ids) -> StepRecords]
  BY <1>1, <1>2 DEF NewSteps
<1>4. NewSteps(ids) \in Seq(StepRecords)
  BY <1>1, <1>3
<1> QED  BY <1>1, <1>4 DEF NewSteps

LEMMA UpdateKeeps ==
  ASSUME StepsInv, NEW s, NEW to \in StepStatus, UpdateStep(s, to),
         to \in Started => DependsOn[s] \subseteq done
  PROVE  StepsInv' /\ done \subseteq done'
<1>1. /\ Len(steps) \in Nat /\ DOMAIN steps = 1 .. Len(steps)
      /\ \A i \in DOMAIN steps : steps[i] \in StepRecords
  BY LenProperties, ElementOfSeq DEF StepsInv
<1> DEFINE changed(i) == IF IsFirst(i, s) THEN [steps[i] EXCEPT !.status = to]
                                          ELSE steps[i]
<1>2. \A i \in DOMAIN steps :
        /\ changed(i) \in StepRecords
        /\ changed(i).id = steps[i].id
        /\ changed(i).status = IF IsFirst(i, s) THEN to ELSE steps[i].status
  BY <1>1 DEF StepRecords
<1>3. /\ DOMAIN steps' = DOMAIN steps
      /\ \A i \in DOMAIN steps : steps'[i] = changed(i)
      /\ steps' = [i \in 1 .. Len(steps) |-> changed(i)]
  BY <1>1 DEF UpdateStep
<1> HIDE DEF changed
<1>4. steps' \in Seq(StepRecords)
  BY <1>1, <1>2, <1>3
<1>5. /\ done \subseteq done'
      /\ to = "completed" => s \in done'
  BY DEF UpdateStep
<1>6. \A i \in DOMAIN steps' :
        /\ steps'[i].id = steps[i].id
        /\ \/ steps'[i].status = steps[i].status
           \/ steps'[i].status = to /\ steps[i].id = s
  BY <1>2, <1>3 DEF IsFirst
<1>7. \A i \in DOMAIN steps' : steps'[i].status = "completed" => steps'[i].id \in done'
  <2> SUFFICES ASSUME NEW i \in DOMAIN steps', steps'[i].status = "completed"
               PROVE  steps[i].id \in done'
    BY <1>6
  <2>1. i \in DOMAIN steps
    BY <1>3
  <2>2. CASE steps[i].status = "completed"
    BY <1>5, <2>1, <2>2 DEF StepsInv
  <2>3. CASE to = "completed" /\ steps[i].id = s
    BY <1>5, <2>3
  <2> QED  BY <1>6, <2>2, <2>3
<1>8. DependenciesFirst'
  BY <1>3, <1>5, <1>6 DEF StepsInv, DependenciesFirst, Started
<1> QED  BY <1>4, <1>5, <1>7, <1>8 DEF StepsInv

LEMMA ReplaceKeeps ==
  ASSUME StepsInv, ReplaceSteps, UNCHANGED done
  PROVE  StepsInv'
<1>1. /\ steps' \in Seq(StepRecords)
      /\ \A i \in DOMAIN steps' : steps'[i].status = "pending"
  BY PlanAssumption, NewStepsType DEF ReplaceSteps
<1> QED  BY <1>1 DEF StepsInv, DependenciesFirst

\* Appended steps are Pending, and leave the others what they were.
LEMMA AppendAdds ==
  ASSUME StepsInv, NEW s \in Steps, AppendSteps(s)
  PROVE  /\ steps' \in Seq(StepRecords)
         /\ \A i \in DOMAIN steps' :
              \/ i \in DOMAIN steps /\ steps'[i] = steps[i]
              \/ steps'[i].status = "pending"
<1> DEFINE new == NewSteps(NextSteps[s])
<1>1. new \in Seq(StepRecords) /\ \A i \in DOMAIN new : new[i].status = "pending"
  BY PlanAssumption, NewStepsType
<1>2. steps' = steps \o new /\ steps \in Seq(StepRecords)
  BY DEF AppendSteps, StepsInv
<1> HIDE DEF new
<1>3. /\ Len(steps) \in Nat /\ DOMAIN steps = 1 .. Len(steps)
      /\ Len(new) \in Nat /\ DOMAIN new = 1 .. Len(new)
  BY <1>1, <1>2, LenProperties
<1>4. /\ steps' \in Seq(StepRecords)
      /\ Len(steps') = Len(steps) + Len(new)
      /\ \A i \in 1 .. Len(steps) + Len(new) :
           steps'[i] = IF i <= Len(steps) THEN steps[i] ELSE new[i - Len(steps)]
  BY <1>1, <1>2, ConcatProperties
<1>5. DOMAIN steps' = 1 .. Len(steps) + Len(new)
  BY <1>4, LenProperties
<1>6. \A i \in DOMAIN steps' :
        \/ i \in DOMAIN steps /\ steps'[i] = steps[i]
        \/ steps'[i].status = "pending"
  <2> TAKE i \in DOMAIN steps'
  <2>1. CASE i <= Len(steps)
    BY <1>3, <1>4, <1>5, <2>1
  <2>2. CASE ~(i <= Len(steps))
    <3>1. i - Len(steps) \in DOMAIN new
      BY <1>3, <1>5, <2>2
    <3> QED  BY <1>1, <1>4, <1>5, <2>2, <3>1
  <2> QED  BY <2>1, <2>2
<1> QED  BY <1>4, <1>6

LEMMA AppendKeeps ==
  ASSUME StepsInv, NEW s \in Steps, AppendSteps(s), UNCHANGED done
  PROVE  StepsInv'
<1>1. /\ steps' \in Seq(StepRecords)
      /\ \A i \in DOMAIN steps' :
           \/ i \in DOMAIN steps /\ steps'[i] = steps[i]
           \/ steps'[i].status = "pending"
  BY AppendAdds
<1> QED  BY <1>1 DEF StepsInv, DependenciesFirst

-----------------------------------------------------------------------------
(* The calls.  A thread that is about to start, execute or settle a step   *)
(* has seen the dependencies of that step Completed.                       *)

Holding == {"start", "execute", "completed", "append", "waiting", "failed", "answer"}

Ordered(t) ==
  pc[t] \in Holding => cur[t] \in Steps /\ DependsOn[cur[t]] \subseteq done

FramesInv ==
  /\ DOMAIN pc = Threads /\ DOMAIN cur = Threads
  /\ \A t \in Threads : Ordered(t)

IInv == StepsInv /\ FramesInv

\* What one thread does leaves what the others have seen true.
LEMMA FrameKeeps ==
  ASSUME IInv, NEW t \in Threads, done \subseteq done', NEW label,
         pc' = [pc EXCEPT ![t] = label],
         cur' = cur \/ \E s : cur' = [cur EXCEPT ![t] = s],
         label \in Holding => cur'[t] \in Steps /\ DependsOn[cur'[t]] \subseteq done'
  PROVE  FramesInv'
<1>1. DOMAIN pc' = Threads /\ DOMAIN cur' = Threads
  BY DEF IInv, FramesInv
<1>2. pc'[t] = label
  BY DEF IInv, FramesInv
<1>3. ASSUME NEW u \in Threads, u # t PROVE Ordered(u)'
  <2>1. pc'[u] = pc[u] /\ cur'[u] = cur[u]
    BY <1>3 DEF IInv, FramesInv
  <2> QED  BY <2>1 DEF IInv, FramesInv, Ordered
<1>4. Ordered(t)'
  BY <1>2 DEF Ordered
<1> QED  BY <1>1, <1>3, <1>4 DEF FramesInv

LEMMA InvInit == Init => IInv
<1> SUFFICES ASSUME Init PROVE IInv
  OBVIOUS
<1>1. steps = <<>> /\ <<>> \in Seq(StepRecords) /\ DOMAIN <<>> = {}
  BY EmptySeq DEF Init
<1>2. StepsInv
  BY <1>1 DEF StepsInv, DependenciesFirst
<1>3. FramesInv
  BY DEF Init, FramesInv, Ordered, Holding
<1> QED  BY <1>2, <1>3 DEF IInv

\* Steps after which the thread holds no step and the list is what it was.
Plain(t) ==
  /\ UNCHANGED <<steps, done>>
  /\ \E label : label \notin Holding /\ pc' = [pc EXCEPT ![t] = label]
  /\ cur' = cur \/ \E s : cur' = [cur EXCEPT ![t] = s]

LEMMA PlainKeeps ==
  ASSUME IInv, NEW t \in Threads, Plain(t)
  PROVE  IInv'
<1>1. StepsInv'
  BY DEF Plain, IInv, StepsInv, DependenciesFirst
<1>2. FramesInv'
  BY FrameKeeps DEF Plain
<1> QED  BY <1>1, <1>2 DEF IInv

\* Steps that update the one step s and hold it afterwards, or no step.
LEMMA UpdateFrame ==
  ASSUME IInv, NEW t \in Threads, NEW s, NEW to \in StepStatus, UpdateStep(s, to),
         to \in Started => DependsOn[s] \subseteq done,
         NEW label, pc' = [pc EXCEPT ![t] = label],
         cur' = cur \/ \E c : cur' = [cur EXCEPT ![t] = c],
         label \in Holding => cur'[t] \in Steps /\ DependsOn[cur'[t]] \subseteq done
  PROVE  IInv'
<1>1. StepsInv' /\ done \subseteq done'
  BY UpdateKeeps DEF IInv
<1>2. FramesInv'
  BY <1>1, FrameKeeps
<1> QED  BY <1>1, <1>2 DEF IInv

LEMMA InvPlain ==
  ASSUME NEW d \in Threads,
         \/ Create(d) \/ Reread(d) \/ Prepare(d) \/ ReadPlan(d)
         \/ PlannerReturns(d) \/ PlannerThrows(d) \/ BeginRun(d)
         \/ NothingReady(d) \/ LimitReached(d) \/ Pause(d) \/ CompleteRun(d)
         \/ RunFollows(d) \/ Check(d) \/ Resume(d)
         \/ Cancel(d) \/ CancelRun(d) \/ AnswerRun(d)
  PROVE  Plain(d)
<1> USE DEF Plain, Goto, Sweep, Pick, Return, Holding, store, local
<1>1. CASE Create(d) \/ Reread(d) \/ Prepare(d) \/ ReadPlan(d)
  BY <1>1 DEF Create, Reread, Prepare, ReadPlan
<1>2. CASE PlannerReturns(d) \/ PlannerThrows(d) \/ BeginRun(d)
  BY <1>2 DEF PlannerReturns, PlannerThrows, BeginRun
<1>3. CASE NothingReady(d) \/ LimitReached(d) \/ Pause(d) \/ CompleteRun(d)
  BY <1>3 DEF NothingReady, LimitReached, Pause, CompleteRun
<1>4. CASE RunFollows(d) \/ Check(d) \/ Resume(d)
  BY <1>4 DEF RunFollows, Check, Resume
<1>5. CASE Cancel(d) \/ CancelRun(d) \/ AnswerRun(d)
  BY <1>5 DEF Cancel, CancelRun, AnswerRun
<1> QED  BY <1>1, <1>2, <1>3, <1>4, <1>5

LEMMA InvPickStep ==
  ASSUME IInv, NEW d \in Threads, PickStep(d)
  PROVE  IInv'
<1>1. PICK i \in DOMAIN steps : Ready(i) /\ Pick(d, "start", steps[i].id)
  BY DEF PickStep
<1>2. steps[i].id \in Steps
  BY StepIds DEF IInv
<1>3. DependsOn[steps[i].id] \subseteq done
  BY <1>1 DEF Ready, DependenciesCompleted, IsFirst, IInv, StepsInv
<1>4. /\ pc' = [pc EXCEPT ![d] = "start"]
      /\ cur' = [cur EXCEPT ![d] = steps[i].id]
      /\ UNCHANGED <<steps, done>>
  BY <1>1 DEF Pick, PickStep, store
<1>5. StepsInv'
  BY <1>4 DEF IInv, StepsInv, DependenciesFirst
<1>6. cur'[d] = steps[i].id
  BY <1>4 DEF IInv, FramesInv
<1>7. FramesInv'
  BY <1>2, <1>3, <1>4, <1>6, FrameKeeps
<1> QED  BY <1>5, <1>7 DEF IInv

LEMMA InvAnswer ==
  ASSUME IInv, NEW o \in Threads, Answer(o)
  PROVE  IInv'
<1>1. PICK i \in DOMAIN steps :
        steps[i].status = "waiting" /\ Pick(o, "answer", steps[i].id)
  BY DEF Answer
<1>2. steps[i].id \in Steps
  BY StepIds DEF IInv
<1>3. DependsOn[steps[i].id] \subseteq done
  BY <1>1 DEF IInv, StepsInv, DependenciesFirst
<1>4. /\ pc' = [pc EXCEPT ![o] = "answer"]
      /\ cur' = [cur EXCEPT ![o] = steps[i].id]
      /\ UNCHANGED <<steps, done>>
  BY <1>1 DEF Pick, Answer, store
<1>5. StepsInv'
  BY <1>4 DEF IInv, StepsInv, DependenciesFirst
<1>6. cur'[o] = steps[i].id
  BY <1>4 DEF IInv, FramesInv
<1>7. FramesInv'
  BY <1>2, <1>3, <1>4, <1>6, FrameKeeps
<1> QED  BY <1>5, <1>7 DEF IInv

\* Steps set back to Pending or Cancelled rely on nothing.
LEMMA InvSetBack ==
  ASSUME IInv, NEW t \in Threads, Retry(t) \/ Requeue(t) \/ CancelStep(t)
  PROVE  IInv'
<1> USE DEF Started, Holding, StepStatus, local
<1>1. CASE Retry(t)
  <2>1. /\ UpdateStep(cur[t], "pending")
        /\ pc' = [pc EXCEPT ![t] = "reread"] /\ cur' = cur
    BY <1>1 DEF Retry, Goto
  <2> QED  BY <2>1, UpdateFrame
<1>2. CASE Requeue(t)
  <2>1. /\ UpdateStep(Head(todo[t]), "pending")
        /\ pc' = [pc EXCEPT ![t] = "requeue"] /\ cur' = cur
    BY <1>2 DEF Requeue, Sweep
  <2> QED  BY <2>1, UpdateFrame
<1>3. CASE CancelStep(t) /\ todo[t] = <<>>
  BY <1>3, PlainKeeps DEF CancelStep, Return, Plain
<1>4. CASE CancelStep(t) /\ todo[t] # <<>>
  <2>1. /\ UpdateStep(Head(todo[t]), "cancelled")
        /\ pc' = [pc EXCEPT ![t] = "cancelSteps"] /\ cur' = cur
    BY <1>4 DEF CancelStep, Sweep
  <2> QED  BY <2>1, UpdateFrame
<1> QED  BY <1>1, <1>2, <1>3, <1>4

\* Steps that are started and settled have their dependencies behind them.
LEMMA InvSettle ==
  ASSUME IInv, NEW t \in Threads,
         \/ StartStep(t) \/ StepCompleted(t) \/ StepWaiting(t)
         \/ StepFailed(t) \/ AnswerStep(t)
  PROVE  IInv'
<1>1. /\ cur[t] \in Steps /\ DependsOn[cur[t]] \subseteq done
      /\ cur' = cur
  BY DEF StartStep, StepCompleted, StepWaiting, StepFailed, AnswerStep,
         Goto, local, IInv, FramesInv, Ordered, Holding
<1>2. PICK to \in Started, label \in {"execute", "check", "append", "runWaiting",
                                      "runFailed", "answered"} :
        UpdateStep(cur[t], to) /\ pc' = [pc EXCEPT ![t] = label]
  BY DEF StartStep, StepCompleted, StepWaiting, StepFailed, AnswerStep,
         Goto, Started
<1>3. to \in StepStatus
  BY DEF Started, StepStatus
<1> QED  BY <1>1, <1>2, <1>3, UpdateFrame

\* The executor comes back.
LEMMA InvExecutor ==
  ASSUME IInv, NEW d \in Threads,
         ExecutorReturns(d) \/ ExecutorWaits(d) \/ ExecutorThrows(d)
  PROVE  IInv'
<1>1. cur[d] \in Steps /\ DependsOn[cur[d]] \subseteq done
  BY DEF ExecutorReturns, ExecutorWaits, ExecutorThrows, IInv, FramesInv,
         Ordered, Holding
<1>2. /\ UNCHANGED <<steps, done, cur>>
      /\ \E label : pc' = [pc EXCEPT ![d] = label]
  BY DEF ExecutorReturns, ExecutorWaits, ExecutorThrows, Goto, store, local
<1>3. StepsInv'
  BY <1>2 DEF IInv, StepsInv, DependenciesFirst
<1>4. FramesInv'
  BY <1>1, <1>2, FrameKeeps
<1> QED  BY <1>3, <1>4 DEF IInv

LEMMA InvList ==
  ASSUME IInv, NEW d \in Threads, SavePlan(d) \/ AppendNext(d)
  PROVE  IInv'
<1>1. CASE SavePlan(d)
  <2>1. StepsInv'
    BY <1>1, ReplaceKeeps DEF SavePlan, IInv
  <2>2. pc' = [pc EXCEPT ![d] = "plan"] /\ cur' = cur /\ done' = done
    BY <1>1 DEF SavePlan, Goto, local
  <2>3. FramesInv'
    BY <2>2, FrameKeeps DEF Holding
  <2> QED  BY <2>1, <2>3 DEF IInv
<1>2. CASE AppendNext(d)
  <2>1. cur[d] \in Steps
    BY <1>2 DEF AppendNext, IInv, FramesInv, Ordered, Holding
  <2>2. StepsInv'
    BY <1>2, <2>1, AppendKeeps DEF AppendNext, IInv
  <2>3. pc' = [pc EXCEPT ![d] = "check"] /\ cur' = cur /\ done' = done
    BY <1>2 DEF AppendNext, Goto, local
  <2>4. FramesInv'
    BY <2>3, FrameKeeps DEF Holding
  <2> QED  BY <2>2, <2>4 DEF IInv
<1> QED  BY <1>1, <1>2

LEMMA InvCrash == IInv /\ Crash => IInv'
<1> SUFFICES ASSUME IInv, Crash PROVE IInv'
  OBVIOUS
<1>1. StepsInv'
  BY DEF Crash, store, IInv, StepsInv, DependenciesFirst
<1>2. FramesInv'
  BY DEF Crash, FramesInv, Ordered, Holding
<1> QED  BY <1>1, <1>2 DEF IInv

LEMMA InvStep == IInv /\ [Next]_vars => IInv'
<1> SUFFICES ASSUME IInv, [Next]_vars PROVE IInv'
  OBVIOUS
<1>1. CASE UNCHANGED vars
  BY <1>1 DEF IInv, StepsInv, DependenciesFirst, FramesInv, Ordered, vars, store, local
<1>2. ASSUME NEW t \in Threads, Execute(t) PROVE IInv'
  BY <1>2, InvSettle, InvExecutor, InvList, InvPlain, PlainKeeps DEF Execute
<1>3. ASSUME NEW d \in Threads, Create(d) \/ Resume(d) \/ Drive(d) PROVE IInv'
  <2>1. CASE Create(d) \/ Resume(d)
    BY <2>1, InvPlain, PlainKeeps
  <2>2. CASE Retry(d) \/ Requeue(d) \/ SavePlan(d) \/ PickStep(d) \/ Execute(d)
    BY <1>2, <2>2, InvSetBack, InvList, InvPickStep
  <2>3. CASE \/ Reread(d) \/ Prepare(d) \/ ReadPlan(d) \/ PlannerReturns(d)
             \/ PlannerThrows(d) \/ BeginRun(d) \/ NothingReady(d)
             \/ LimitReached(d) \/ Pause(d) \/ CompleteRun(d)
    BY <2>3, InvPlain, PlainKeeps
  <2> QED  BY <1>3, <2>1, <2>2, <2>3 DEF Drive
<1>4. ASSUME NEW o \in Threads, Cancel(o) \/ Answer(o) \/ Operate(o) PROVE IInv'
  <2>1. CASE Cancel(o) \/ CancelRun(o) \/ AnswerRun(o)
    BY <2>1, InvPlain, PlainKeeps
  <2>2. CASE Answer(o) \/ CancelStep(o) \/ AnswerStep(o)
    BY <2>2, InvAnswer, InvSetBack, InvSettle
  <2> QED  BY <1>4, <2>1, <2>2 DEF Operate
<1>5. CASE Crash
  BY <1>5, InvCrash
<1> QED  BY <1>1, <1>3, <1>4, <1>5 DEF Next, Threads

\* For every plan and any number of threads, failures and crashes: no step is
\* started before all the steps it depends on have been completed.
THEOREM DependenciesAlwaysFirst == Spec => []DependenciesFirst
<1>1. IInv => DependenciesFirst
  BY DEF IInv, StepsInv
<1> QED  BY <1>1, InvInit, InvStep, PTL DEF Spec
-----------------------------------------------------------------------------
(* Types.                                                                  *)

\* The lists that the loops of a call work off.
LEMMA IdsInFacts ==
  ASSUME steps \in Seq(StepRecords), NEW statuses, NEW ids \in IdsIn(statuses)
  PROVE  /\ ids \in Seq(Steps)
         /\ \A k \in DOMAIN ids : \E i \in DOMAIN steps :
              steps[i].id = ids[k] /\ steps[i].status \in statuses
         /\ \A i \in DOMAIN steps : steps[i].status \in statuses =>
              \E k \in DOMAIN ids : ids[k] = steps[i].id
<1> DEFINE at == {i \in DOMAIN steps : steps[i].status \in statuses}
<1>1. /\ Len(steps) \in Nat
      /\ \A i \in DOMAIN steps : steps[i].id \in Steps
  <2>1. \A i \in DOMAIN steps : steps[i] \in StepRecords
    BY LenProperties, ElementOfSeq
  <2> QED  BY <2>1, LenProperties DEF StepRecords
<1>2. PICK n \in 0 .. Len(steps) : \E p \in [1 .. n -> at] :
        /\ \A i \in at : \E k \in DOMAIN p : p[k] = i
        /\ ids = [k \in DOMAIN p |-> steps[p[k]].id]
  BY DEF IdsIn
<1>3. PICK p \in [1 .. n -> at] :
        /\ \A i \in at : \E k \in DOMAIN p : p[k] = i
        /\ ids = [k \in DOMAIN p |-> steps[p[k]].id]
  BY <1>2
<1>4. n \in Nat /\ DOMAIN p = 1 .. n /\ DOMAIN ids = 1 .. n
  BY <1>1, <1>3
<1>5. \A k \in 1 .. n : p[k] \in at /\ ids[k] = steps[p[k]].id
  BY <1>3, <1>4
<1>6. ids \in [1 .. n -> Steps]
  BY <1>1, <1>3, <1>4, <1>5
<1>7. ids \in Seq(Steps)
  BY <1>4, <1>6
<1>8. \A i \in at : \E k \in DOMAIN ids : ids[k] = steps[i].id
  BY <1>3, <1>4, <1>5
<1>9. \A k \in DOMAIN ids : \E i \in DOMAIN steps :
        steps[i].id = ids[k] /\ steps[i].status \in statuses
  <2> TAKE k \in DOMAIN ids
  <2>1. p[k] \in DOMAIN steps /\ steps[p[k]].status \in statuses /\ ids[k] = steps[p[k]].id
    BY <1>4, <1>5
  <2> QED  BY <2>1
<1> QED  BY <1>7, <1>8, <1>9

FrameTypes ==
  /\ pc \in [Threads -> DriverPc \cup OperatorPc]
  /\ \A d \in Drivers : pc[d] \in DriverPc
  /\ \A o \in Operators : pc[o] \in OperatorPc
  /\ todo \in [Threads -> Seq(Steps)]
  /\ cur \in [Threads -> Steps \cup {None}]
  /\ executed \in [Threads -> 0 .. MaxStepsPerRun]

RestTypes ==
  /\ run \in RunStatus
  /\ done \subseteq Steps
  /\ due \subseteq Steps
  /\ failures \in 0 .. MaxFailures
  /\ waits \in 0 .. MaxWaits
  /\ cancels \in 0 .. MaxCancels
  /\ crashes \in 0 .. MaxCrashes

\* A thread that goes on to another place.
LEMMA FrameMoves ==
  ASSUME FrameTypes, NEW t \in Threads, NEW label,
         t \in Drivers => label \in DriverPc,
         t \in Operators => label \in OperatorPc,
         pc' = [pc EXCEPT ![t] = label],
         todo' = todo \/ \E ids \in Seq(Steps) : todo' = [todo EXCEPT ![t] = ids],
         cur' = cur \/ \E s \in Steps \cup {None} : cur' = [cur EXCEPT ![t] = s],
         executed' = executed
           \/ \E n \in 0 .. MaxStepsPerRun : executed' = [executed EXCEPT ![t] = n]
  PROVE  FrameTypes'
<1> USE ThreadsAssumption DEF FrameTypes, Threads
<1>1. /\ pc' \in [Threads -> DriverPc \cup OperatorPc]
      /\ \A d \in Drivers : pc'[d] \in DriverPc
      /\ \A o \in Operators : pc'[o] \in OperatorPc
  OBVIOUS
<1>2. todo' \in [Threads -> Seq(Steps)]
  OBVIOUS
<1>3. cur' \in [Threads -> Steps \cup {None}]
  OBVIOUS
<1>4. executed' \in [Threads -> 0 .. MaxStepsPerRun]
  OBVIOUS
<1> QED  BY <1>1, <1>2, <1>3, <1>4

LEMMA FrameReturns ==
  ASSUME FrameTypes, NEW t \in Threads, Return(t)
  PROVE  FrameTypes'
<1>1. 0 \in 0 .. MaxStepsPerRun /\ <<>> \in Seq(Steps)
  BY BoundsAssumption, EmptySeq
<1> QED  BY <1>1, FrameMoves DEF Return, DriverPc, OperatorPc

\* A thread that begins or goes on with a list.
LEMMA FrameSweeps ==
  ASSUME FrameTypes, NEW t \in Threads, NEW label, NEW ids \in Seq(Steps),
         Sweep(t, label, ids),
         t \in Drivers => label \in DriverPc,
         t \in Operators => label \in OperatorPc
  PROVE  FrameTypes'
BY FrameMoves DEF Sweep

LEMMA TailOfSteps ==
  ASSUME NEW ids \in Seq(Steps), ids # <<>>
  PROVE  Tail(ids) \in Seq(Steps)
BY HeadTailProperties

LEMMA FrameDriver ==
  ASSUME IInv, FrameTypes, NEW d \in Drivers, Create(d) \/ Resume(d) \/ Drive(d)
  PROVE  FrameTypes'
<1> USE DEF Goto, local, DriverPc
<1>1. d \in Threads /\ d \notin Operators
  BY ThreadsAssumption DEF Threads
<1>2. /\ steps \in Seq(StepRecords)
      /\ \A i \in DOMAIN steps : steps[i].id \in Steps
  BY StepIds DEF IInv, StepsInv
<1>3. ASSUME NEW label \in DriverPc, Goto(d, label)
      PROVE  FrameTypes'
  BY <1>1, <1>3, FrameMoves
<1>4. ASSUME NEW label \in DriverPc, NEW s \in Steps, Pick(d, label, s),
             executed' = executed
               \/ \E n \in 0 .. MaxStepsPerRun : executed' = [executed EXCEPT ![d] = n]
      PROVE  FrameTypes'
  BY <1>1, <1>4, FrameMoves DEF Pick
<1>5. ASSUME NEW ids \in IdsIn({"running"}), Sweep(d, "requeue", ids)
      PROVE  FrameTypes'
  <2>1. ids \in Seq(Steps)
    BY <1>2, <1>5, IdsInFacts
  <2> QED  BY <1>1, <1>5, <2>1, FrameSweeps
<1>6. ASSUME Return(d)
      PROVE  FrameTypes'
  BY <1>1, <1>6, FrameReturns
<1>7. CASE Prepare(d) \/ ReadPlan(d)
  BY <1>3, <1>5, <1>7 DEF Prepare, ReadPlan
<1>8. CASE Requeue(d)
  <2>1. todo[d] \in Seq(Steps) /\ todo[d] # <<>> /\ Sweep(d, "requeue", Tail(todo[d]))
    BY <1>1, <1>8 DEF Requeue, FrameTypes
  <2> QED  BY <1>1, <2>1, TailOfSteps, FrameSweeps
<1>9. CASE Resume(d)
  BY <1>2, <1>3, <1>4, <1>9 DEF Resume
<1>10. CASE PickStep(d)
  <2>1. PICK i \in DOMAIN steps : Pick(d, "start", steps[i].id)
    BY <1>10 DEF PickStep
  <2>2. executed[d] + 1 \in 0 .. MaxStepsPerRun
    BY <1>1, <1>10, BoundsAssumption DEF PickStep, FrameTypes
  <2>3. executed' = [executed EXCEPT ![d] = executed[d] + 1]
    BY <1>10 DEF PickStep
  <2> QED  BY <1>2, <1>4, <2>1, <2>2, <2>3
<1>11. CASE \/ Create(d) \/ Retry(d) \/ PlannerReturns(d) \/ SavePlan(d)
            \/ BeginRun(d) \/ NothingReady(d)
  BY <1>3, <1>11 DEF Create, Retry, PlannerReturns, SavePlan, BeginRun, NothingReady
<1>12. CASE Reread(d) \/ PlannerThrows(d) \/ LimitReached(d) \/ Pause(d) \/ CompleteRun(d)
  BY <1>3, <1>6, <1>12 DEF Reread, PlannerThrows, LimitReached, Pause, CompleteRun
<1>13. CASE Execute(d)
  <2>1. CASE Check(d)
    BY <1>3, <1>6, <2>1 DEF Check
  <2>2. CASE StepCompleted(d)
    BY <1>3, <2>2 DEF StepCompleted
  <2>3. CASE ExecutorReturns(d) \/ ExecutorWaits(d) \/ ExecutorThrows(d)
    BY <1>3, <2>3 DEF ExecutorReturns, ExecutorWaits, ExecutorThrows
  <2>4. CASE StartStep(d) \/ AppendNext(d) \/ StepWaiting(d) \/ StepFailed(d) \/ RunFollows(d)
    BY <1>3, <2>4 DEF StartStep, AppendNext, StepWaiting, StepFailed, RunFollows
  <2> QED  BY <1>13, <2>1, <2>2, <2>3, <2>4 DEF Execute
<1> QED  BY <1>7, <1>8, <1>9, <1>10, <1>11, <1>12, <1>13 DEF Drive

LEMMA FrameOperator ==
  ASSUME IInv, FrameTypes, NEW o \in Operators, Cancel(o) \/ Answer(o) \/ Operate(o)
  PROVE  FrameTypes'
<1> USE DEF OperatorPc
<1>1. o \in Threads /\ o \notin Drivers
  BY ThreadsAssumption DEF Threads
<1>2. /\ steps \in Seq(StepRecords)
      /\ \A i \in DOMAIN steps : steps[i].id \in Steps
  BY StepIds DEF IInv, StepsInv
<1>3. CASE Cancel(o)
  <2>1. PICK ids \in IdsIn({"pending", "running", "waiting"}) : Sweep(o, "cancel", ids)
    BY <1>3 DEF Cancel
  <2>2. ids \in Seq(Steps)
    BY <1>2, <2>1, IdsInFacts
  <2> QED  BY <1>1, <2>1, <2>2, FrameSweeps
<1>4. CASE Answer(o)
  BY <1>1, <1>2, <1>4, FrameMoves DEF Answer, Pick
<1>5. CASE CancelRun(o) \/ AnswerStep(o)
  BY <1>1, <1>5, FrameMoves DEF CancelRun, AnswerStep, Goto, local
<1>6. CASE AnswerRun(o) \/ (CancelStep(o) /\ todo[o] = <<>>)
  BY <1>1, <1>6, FrameReturns DEF AnswerRun, CancelStep
<1>7. CASE CancelStep(o) /\ todo[o] # <<>>
  <2>1. todo[o] \in Seq(Steps) /\ Sweep(o, "cancelSteps", Tail(todo[o]))
    BY <1>1, <1>7 DEF CancelStep, FrameTypes
  <2> QED  BY <1>1, <1>7, <2>1, TailOfSteps, FrameSweeps
<1> QED  BY <1>3, <1>4, <1>5, <1>6, <1>7 DEF Operate

\* The statuses of the run, and what the bounds count.
LEMMA RestStep ==
  ASSUME IInv, RestTypes, Next
  PROVE  RestTypes'
<1> USE BoundsAssumption DEF RestTypes, RunStatus, UpdateRun, store, aside, counters
<1>1. \A t \in Threads : pc[t] \in Holding => cur[t] \in Steps
  BY DEF IInv, FramesInv, Ordered
<1>2. ASSUME NEW s, NEW to, UpdateStep(s, to), to = "completed" => s \in Steps
      PROVE  done' \subseteq Steps
  BY <1>2 DEF UpdateStep
<1>3. ASSUME NEW d \in Drivers, Create(d) \/ Resume(d) \/ Drive(d)
      PROVE  RestTypes'
  <2>1. CASE Create(d) \/ Resume(d) \/ Reread(d) \/ Prepare(d) \/ ReadPlan(d)
    BY <2>1 DEF Create, Resume, Reread, Prepare, ReadPlan
  <2>2. CASE PlannerReturns(d) \/ PlannerThrows(d) \/ SavePlan(d) \/ BeginRun(d)
    BY <2>2 DEF PlannerReturns, PlannerThrows, SavePlan, BeginRun
  <2>3. CASE \/ PickStep(d) \/ NothingReady(d) \/ LimitReached(d) \/ Pause(d)
             \/ CompleteRun(d)
    BY <2>3 DEF PickStep, NothingReady, LimitReached, Pause, CompleteRun
  <2>4. CASE \/ ExecutorReturns(d) \/ ExecutorWaits(d) \/ ExecutorThrows(d)
             \/ AppendNext(d) \/ RunFollows(d) \/ Check(d)
    BY <2>4 DEF ExecutorReturns, ExecutorWaits, ExecutorThrows, AppendNext,
                RunFollows, Check
  <2>5. CASE Retry(d) \/ Requeue(d) \/ StartStep(d) \/ StepWaiting(d) \/ StepFailed(d)
    BY <1>2, <2>5 DEF Retry, Requeue, StartStep, StepWaiting, StepFailed
  <2>6. CASE StepCompleted(d)
    <3>1. cur[d] \in Steps
      BY <1>1, <2>6 DEF StepCompleted, Holding, Threads
    <3> QED  BY <1>2, <2>6, <3>1 DEF StepCompleted
  <2> QED  BY <1>3, <2>1, <2>2, <2>3, <2>4, <2>5, <2>6 DEF Drive, Execute
<1>4. ASSUME NEW o \in Operators, Cancel(o) \/ Answer(o) \/ Operate(o)
      PROVE  RestTypes'
  <2>1. CASE Cancel(o) \/ Answer(o) \/ CancelRun(o) \/ AnswerRun(o)
    BY <2>1 DEF Cancel, Answer, CancelRun, AnswerRun
  <2>2. CASE CancelStep(o)
    BY <1>2, <2>2 DEF CancelStep
  <2>3. CASE AnswerStep(o)
    <3>1. cur[o] \in Steps
      BY <1>1, <2>3 DEF AnswerStep, Holding, Threads
    <3> QED  BY <1>2, <2>3, <3>1 DEF AnswerStep
  <2> QED  BY <1>4, <2>1, <2>2, <2>3 DEF Operate
<1>5. CASE Crash
  BY <1>5 DEF Crash
<1> QED  BY <1>3, <1>4, <1>5 DEF Next

GoodInv == IInv /\ FrameTypes /\ RestTypes

LEMMA GoodInit == Init => GoodInv
<1> SUFFICES ASSUME Init PROVE FrameTypes /\ RestTypes
  BY InvInit DEF GoodInv
<1>1. 0 \in 0 .. MaxStepsPerRun /\ <<>> \in Seq(Steps)
  BY BoundsAssumption, EmptySeq
<1> QED  BY <1>1, BoundsAssumption
         DEF Init, FrameTypes, RestTypes, Threads, DriverPc, OperatorPc, RunStatus

LEMMA GoodStep == GoodInv /\ [Next]_vars => GoodInv'
<1> SUFFICES ASSUME GoodInv, [Next]_vars PROVE FrameTypes' /\ RestTypes'
  BY InvStep DEF GoodInv
<1>1. CASE UNCHANGED vars
  BY <1>1 DEF GoodInv, FrameTypes, RestTypes, vars, store, local, aside, counters
<1>2. CASE Crash
  <2>1. 0 \in 0 .. MaxStepsPerRun /\ <<>> \in Seq(Steps)
    BY BoundsAssumption, EmptySeq
  <2>2. FrameTypes'
    BY <1>2, <2>1 DEF Crash, FrameTypes, Threads, DriverPc, OperatorPc
  <2> QED  BY <1>2, <2>2, RestStep DEF Next, GoodInv
<1>3. CASE Next /\ ~Crash
  BY <1>3, FrameDriver, FrameOperator, RestStep DEF Next, GoodInv
<1> QED  BY <1>1, <1>2, <1>3

\* Every state of an autonomous run is well typed, for any plan, any number of
\* threads, failures and crashes: no call works on an id that is not a step's,
\* and none executes more than max_steps_per_run_ steps.
THEOREM TypeCorrect == Spec => []TypeOK
<1>1. GoodInv => TypeOK
  BY DEF GoodInv, IInv, StepsInv, StepRecords, FrameTypes, RestTypes, TypeOK
<1> QED  BY <1>1, GoodInit, GoodStep, PTL DEF Spec

-----------------------------------------------------------------------------
(* Each step once.  The manager has no lock, so this is a theorem about    *)
(* one driver at a time; operators may be many.  That ids are distinct is  *)
(* the planner's and the executor's part: normalize_steps() only gives an  *)
(* id to a step that comes without one.                                    *)

DistinctIds ==
  /\ \A i, j \in DOMAIN Plan : Plan[i] = Plan[j] => i = j
  /\ \A s \in Steps : \A i, j \in DOMAIN NextSteps[s] :
       NextSteps[s][i] = NextSteps[s][j] => i = j
  /\ \A s \in Steps : \A i \in DOMAIN NextSteps[s], j \in DOMAIN Plan :
       NextSteps[s][i] # Plan[j]
  /\ \A s, t \in Steps : \A i \in DOMAIN NextSteps[s], j \in DOMAIN NextSteps[t] :
       NextSteps[s][i] = NextSteps[t][j] => s = t

OneDriver == \A d, e \in Drivers : d = e

\* Wherever it is listed, step s has one of these statuses.
Reads(s, statuses) ==
  \A i \in DOMAIN steps : steps[i].id = s => steps[i].status \in statuses

\* What has been completed stays listed, and is never open again.
Settled == \A s \in done : Listed(s) /\ Reads(s, {"completed", "cancelled"})

\* An operator settles a step that was waiting when it looked.
Answered ==
  \A o \in Operators : pc[o] = "answer" =>
    Listed(cur[o]) /\ Reads(cur[o], {"waiting", "completed", "cancelled"})

InHand == {"start", "execute", "completed", "waiting", "failed", "retry"}

\* The driver will update step s.
Hers(d, s) ==
  \/ pc[d] \in InHand /\ cur[d] = s
  \/ pc[d] = "requeue" /\ \E k \in DOMAIN todo[d] : todo[d][k] = s

\* Step s has not been completed and is nobody else's to complete.
Unsettled == {"pending", "running", "failed", "cancelled"}
Free(s) ==
  /\ s \notin done
  /\ Reads(s, Unsettled)
  /\ \A o \in Operators : pc[o] = "answer" => cur[o] # s

Held ==
  \A d \in Drivers :
    /\ pc[d] \in InHand => Listed(cur[d])
    /\ \A s \in Steps : Hers(d, s) => Free(s)

\* The list grows by what a completed step appends, once.
Appended(s) == \E k \in DOMAIN NextSteps[s] : Listed(NextSteps[s][k])
Growing ==
  /\ \A s \in Steps : Appended(s) => s \in done
  /\ \A d \in Drivers :
       /\ pc[d] \in {"planner", "planned"} => DOMAIN steps = {}
       /\ pc[d] = "append" => cur[d] \in done /\ ~Appended(cur[d])

OnceInv == ListedOnce /\ Settled /\ Answered /\ Held /\ Growing

LEMMA OnceInit == Init => OnceInv
<1> SUFFICES ASSUME Init PROVE OnceInv
  OBVIOUS
<1>1. DOMAIN steps = {} /\ done = {} /\ steps = <<>>
  BY EmptySeq DEF Init
<1>2. /\ \A d \in Drivers : pc[d] = "idle"
      /\ \A o \in Operators : pc[o] = "idle"
  BY DEF Init, Threads
<1> QED  BY <1>1, <1>2 DEF OnceInv, ListedOnce, Settled, Answered, Held, Hers, InHand,
                           Growing, Appended, Listed

\* With distinct ids an update changes the status of its step, wherever listed.
LEMMA UpdateReads ==
  ASSUME GoodInv, ListedOnce, NEW s, NEW to, UpdateStep(s, to)
  PROVE  /\ DOMAIN steps' = DOMAIN steps
         /\ \A i \in DOMAIN steps :
              /\ steps'[i].id = steps[i].id
              /\ steps'[i].status = IF steps[i].id = s THEN to ELSE steps[i].status
<1>1. /\ DOMAIN steps = 1 .. Len(steps) /\ Len(steps) \in Nat
      /\ \A i \in DOMAIN steps : steps[i] \in StepRecords
  BY LenProperties, ElementOfSeq DEF GoodInv, IInv, StepsInv
<1>2. /\ DOMAIN steps' = DOMAIN steps
      /\ \A i \in DOMAIN steps :
           steps'[i] = IF IsFirst(i, s) THEN [steps[i] EXCEPT !.status = to]
                                        ELSE steps[i]
  BY DEF UpdateStep
<1>3. \A i \in DOMAIN steps : IsFirst(i, s) <=> steps[i].id = s
  <2> TAKE i \in DOMAIN steps
  <2>1. \A j \in 1 .. (i - 1) : j \in DOMAIN steps /\ j # i
    BY <1>1
  <2> QED  BY <2>1 DEF IsFirst, ListedOnce
<1>4. \A i \in DOMAIN steps :
        /\ [steps[i] EXCEPT !.status = to].id = steps[i].id
        /\ [steps[i] EXCEPT !.status = to].status = to
  BY <1>1 DEF StepRecords
<1> QED  BY <1>2, <1>3, <1>4

LEMMA UpdateViews ==
  ASSUME GoodInv, ListedOnce, NEW s, NEW to, UpdateStep(s, to)
  PROVE  /\ ListedOnce'
         /\ \A q : Listed(q)' = Listed(q)
         /\ \A q, set : q # s /\ Reads(q, set) => Reads(q, set)'
         /\ \A set : to \in set => Reads(s, set)'
<1>1. /\ DOMAIN steps' = DOMAIN steps
      /\ \A i \in DOMAIN steps :
           /\ steps'[i].id = steps[i].id
           /\ steps'[i].status = IF steps[i].id = s THEN to ELSE steps[i].status
  BY UpdateReads
<1> QED  BY <1>1 DEF ListedOnce, Listed, Reads

\* The driver goes on, with the status of step s changed or with none changed.
LEMMA DriverFrame ==
  ASSUME GoodInv, OnceInv, OneDriver, NEW d \in Drivers, NEW s, NEW label,
         ListedOnce', Settled', done \subseteq done', DOMAIN steps' = DOMAIN steps,
         \A q : Listed(q)' = Listed(q),
         \A q, set : q # s /\ Reads(q, set) => Reads(q, set)',
         \A o \in Operators : pc[o] = "answer" => cur[o] # s,
         pc' = [pc EXCEPT ![d] = label],
         cur' = cur \/ \E c : cur' = [cur EXCEPT ![d] = c],
         label \in InHand => Listed(cur'[d]),
         \A q \in Steps : Hers(d, q)' => Free(q)',
         label \in {"planner", "planned"} => DOMAIN steps = {},
         label = "append" => cur'[d] \in done' /\ ~Appended(cur'[d])
  PROVE  OnceInv'
<1>1. d \in Threads /\ d \notin Operators /\ pc'[d] = label
  BY ThreadsAssumption DEF Threads, GoodInv, FrameTypes
<1>2. \A o \in Operators : pc'[o] = pc[o] /\ cur'[o] = cur[o]
  BY <1>1 DEF Threads, GoodInv, FrameTypes
<1>3. \A e \in Drivers : e = d
  BY DEF OneDriver
<1>4. Answered'
  BY <1>2 DEF Answered, OnceInv
<1>5. Held'
  BY <1>1, <1>3 DEF Held
<1>6. \A q : Appended(q)' = Appended(q)
  BY DEF Appended
<1>7. Growing'
  BY <1>1, <1>3, <1>6 DEF Growing, OnceInv
<1> QED  BY <1>4, <1>5, <1>7 DEF OnceInv

\* A driver whose call stores no step.
LEMMA QuietDriver ==
  ASSUME GoodInv, OnceInv, OneDriver, NEW d \in Drivers, NEW label,
         UNCHANGED <<steps, done>>,
         pc' = [pc EXCEPT ![d] = label],
         cur' = cur \/ \E c : cur' = [cur EXCEPT ![d] = c],
         label \in InHand => Listed(cur'[d]),
         \A q \in Steps : Hers(d, q)' => Free(q),
         label \in {"planner", "planned"} => DOMAIN steps = {},
         label # "append"
  PROVE  OnceInv'
<1>1. ListedOnce' /\ Settled'
  BY DEF OnceInv, ListedOnce, Settled, Listed, Reads
<1>2. /\ \A q : Listed(q)' = Listed(q)
      /\ \A q, set : Reads(q, set)' = Reads(q, set)
  BY DEF Listed, Reads
<1>3. \A o \in Operators : pc'[o] = pc[o] /\ cur'[o] = cur[o]
  BY ThreadsAssumption DEF Threads, GoodInv, FrameTypes
<1>4. \A q : Free(q) => Free(q)'
  BY <1>2, <1>3 DEF Free
<1>5. None \notin Steps
  BY PlanAssumption
<1>6. \A o \in Operators : pc[o] = "answer" => cur[o] # None
  BY <1>5 DEF GoodInv, IInv, FramesInv, Ordered, Holding, Threads
<1> QED  BY <1>1, <1>2, <1>4, <1>6, DriverFrame

\* A driver that stores the status of the step it holds.
LEMMA UpdateDriver ==
  ASSUME GoodInv, OnceInv, OneDriver, NEW d \in Drivers, NEW label,
         NEW s \in Steps, NEW to \in Unsettled \cup {"waiting", "completed"},
         UpdateStep(s, to), Hers(d, s),
         to = "completed" => Listed(s),
         pc' = [pc EXCEPT ![d] = label], cur' = cur,
         label \in InHand => cur[d] = s /\ Listed(s),
         \A q \in Steps : Hers(d, q)' => Hers(d, q) /\ to \in Unsettled,
         label \notin {"planner", "planned"},
         label = "append" => cur[d] = s /\ to = "completed"
  PROVE  OnceInv'
<1>1. /\ ListedOnce' /\ DOMAIN steps' = DOMAIN steps
      /\ \A q : Listed(q)' = Listed(q)
      /\ \A q, set : q # s /\ Reads(q, set) => Reads(q, set)'
      /\ \A set : to \in set => Reads(s, set)'
  BY UpdateViews, UpdateReads DEF OnceInv
<1>2. Free(s)
  BY DEF OnceInv, Held
<1>3. done' = IF to = "completed" THEN done \cup {s} ELSE done
  BY DEF UpdateStep
<1>4. Settled'
  <2> SUFFICES ASSUME NEW q \in done' PROVE Listed(q)' /\ Reads(q, {"completed", "cancelled"})'
    BY DEF Settled
  <2>1. CASE q = s
    BY <1>1, <1>2, <1>3, <2>1 DEF Free
  <2>2. CASE q # s
    BY <1>1, <1>3, <2>2 DEF OnceInv, Settled
  <2> QED  BY <2>1, <2>2
<1>5. \A q \in Steps : Hers(d, q)' => Free(q)'
  <2> SUFFICES ASSUME NEW q \in Steps, Hers(d, q)' PROVE Free(q)'
    OBVIOUS
  <2>1. Free(q) /\ to \in Unsettled
    BY DEF OnceInv, Held
  <2>2. \A o \in Operators : pc'[o] = pc[o] /\ cur'[o] = cur[o]
    BY ThreadsAssumption DEF Threads, GoodInv, FrameTypes
  <2>3. Reads(q, Unsettled)'
    BY <1>1, <2>1 DEF Free
  <2>4. done' = done
    BY <1>3, <2>1 DEF Unsettled
  <2> QED  BY <2>1, <2>2, <2>3, <2>4 DEF Free
<1>6. label = "append" => cur'[d] \in done' /\ ~Appended(cur'[d])
  BY <1>2, <1>3 DEF Free, OnceInv, Growing
<1>7. \A o \in Operators : pc[o] = "answer" => cur[o] # s
  BY <1>2 DEF Free
<1> QED  BY <1>1, <1>3, <1>4, <1>5, <1>6, <1>7, DriverFrame

\* A step that reads open can be taken up.
LEMMA OpenIsFree ==
  ASSUME OnceInv, NEW i \in DOMAIN steps,
         steps[i].status \in {"pending", "running", "failed"}
  PROVE  Free(steps[i].id)
<1>1. steps[i].id \notin done
  BY DEF OnceInv, Settled, Reads
<1>2. Reads(steps[i].id, Unsettled)
  BY DEF OnceInv, ListedOnce, Reads, Unsettled
<1>3. \A o \in Operators : pc[o] = "answer" => cur[o] # steps[i].id
  BY DEF OnceInv, Answered, Reads
<1> QED  BY <1>1, <1>2, <1>3 DEF Free

\* Steps after which the driver holds no step of the list.
Away(d) ==
  /\ UNCHANGED <<steps, done>>
  /\ \E label : /\ label \notin InHand \cup {"requeue", "planner", "planned", "append"}
                /\ pc' = [pc EXCEPT ![d] = label]
  /\ cur' = cur \/ \E c : cur' = [cur EXCEPT ![d] = c]

LEMMA AwayKeeps ==
  ASSUME GoodInv, OnceInv, OneDriver, NEW d \in Drivers, Away(d)
  PROVE  OnceInv'
<1>1. PICK label : /\ label \notin InHand \cup {"requeue", "planner", "planned", "append"}
                   /\ pc' = [pc EXCEPT ![d] = label]
  BY DEF Away
<1>2. pc'[d] = label
  BY <1>1 DEF Threads, GoodInv, FrameTypes
<1>3. \A q \in Steps : ~Hers(d, q)'
  BY <1>1, <1>2 DEF Hers
<1> QED  BY <1>1, <1>3, QuietDriver DEF Away

LEMMA OnceAway ==
  ASSUME NEW d \in Drivers,
         \/ Create(d) \/ Reread(d) \/ PlannerThrows(d) \/ BeginRun(d)
         \/ NothingReady(d) \/ LimitReached(d) \/ Pause(d) \/ CompleteRun(d)
         \/ RunFollows(d) \/ Check(d)
  PROVE  Away(d)
<1> USE DEF Away, Goto, Return, InHand, store, local
<1>1. CASE Create(d) \/ Reread(d) \/ PlannerThrows(d) \/ BeginRun(d)
  BY <1>1 DEF Create, Reread, PlannerThrows, BeginRun
<1>2. CASE NothingReady(d) \/ LimitReached(d) \/ Pause(d) \/ CompleteRun(d)
  BY <1>2 DEF NothingReady, LimitReached, Pause, CompleteRun
<1>3. CASE RunFollows(d) \/ Check(d)
  BY <1>3 DEF RunFollows, Check
<1> QED  BY <1>1, <1>2, <1>3

\* The driver takes up step s.
LEMMA OncePick ==
  ASSUME GoodInv, OnceInv, OneDriver, NEW d \in Drivers, NEW label \in InHand,
         NEW i \in DOMAIN steps, steps[i].status \in {"pending", "failed"},
         Pick(d, label, steps[i].id), UNCHANGED store
  PROVE  OnceInv'
<1>1. /\ pc' = [pc EXCEPT ![d] = label]
      /\ cur' = [cur EXCEPT ![d] = steps[i].id]
      /\ UNCHANGED <<steps, done>>
  BY DEF Pick, store
<1>2. pc'[d] = label /\ cur'[d] = steps[i].id
  BY <1>1 DEF Threads, GoodInv, FrameTypes
<1>3. Free(steps[i].id)
  BY OpenIsFree
<1>4. \A q \in Steps : Hers(d, q)' => Free(q)
  BY <1>2, <1>3 DEF Hers, InHand
<1>5. Listed(cur'[d])
  BY <1>2 DEF Listed
<1>6. label \notin {"append", "planner", "planned"}
  BY DEF InHand
<1> QED  BY <1>1, <1>4, <1>5, <1>6, QuietDriver

\* The driver reads which steps were left Running.
LEMMA OnceSweep ==
  ASSUME GoodInv, OnceInv, OneDriver, NEW d \in Drivers,
         NEW ids \in IdsIn({"running"}), Sweep(d, "requeue", ids), UNCHANGED store
  PROVE  OnceInv'
<1>1. /\ pc' = [pc EXCEPT ![d] = "requeue"]
      /\ todo' = [todo EXCEPT ![d] = ids]
      /\ cur' = cur /\ UNCHANGED <<steps, done>>
  BY DEF Sweep, store
<1>2. pc'[d] = "requeue" /\ todo'[d] = ids
  BY <1>1 DEF Threads, GoodInv, FrameTypes
<1>3. \A k \in DOMAIN ids : Free(ids[k])
  <2> TAKE k \in DOMAIN ids
  <2>1. PICK i \in DOMAIN steps : steps[i].id = ids[k] /\ steps[i].status = "running"
    BY IdsInFacts DEF GoodInv, IInv, StepsInv
  <2> QED  BY <2>1, OpenIsFree
<1>4. \A q \in Steps : Hers(d, q)' => Free(q)
  BY <1>2, <1>3 DEF Hers, InHand
<1> QED  BY <1>1, <1>4, QuietDriver DEF InHand

LEMMA OnceQuiet ==
  ASSUME GoodInv, OnceInv, OneDriver, NEW d \in Drivers,
         \/ Resume(d) \/ Prepare(d) \/ ReadPlan(d) \/ PlannerReturns(d)
         \/ PickStep(d)
         \/ ExecutorReturns(d) \/ ExecutorWaits(d) \/ ExecutorThrows(d)
  PROVE  OnceInv'
<1>1. ASSUME NEW label, Goto(d, label), UNCHANGED store,
             label \notin InHand \cup {"requeue", "planner", "planned", "append"}
      PROVE  OnceInv'
  BY <1>1, AwayKeeps DEF Away, Goto, store, local
<1>2. CASE Resume(d)
  <2>1. CASE Goto(d, "prepare")
    BY <1>1, <1>2, <2>1 DEF Resume, InHand
  <2>2. ASSUME NEW i \in DOMAIN steps, steps[i].status = "failed",
               Pick(d, "retry", steps[i].id)
        PROVE  OnceInv'
    BY <1>2, <2>2, OncePick DEF Resume, InHand
  <2> QED  BY <1>2, <2>1, <2>2 DEF Resume
<1>3. CASE PickStep(d)
  BY <1>3, OncePick DEF PickStep, Ready, InHand
<1>4. CASE Prepare(d)
  <2>1. CASE Goto(d, "loop") \/ Goto(d, "plan")
    BY <1>1, <1>4, <2>1 DEF Prepare, InHand
  <2>2. CASE \E ids \in IdsIn({"running"}) : Sweep(d, "requeue", ids)
    BY <1>4, <2>2, OnceSweep DEF Prepare
  <2> QED  BY <1>4, <2>1, <2>2 DEF Prepare
<1>5. ASSUME NEW label \in {"planner", "planned"}, Goto(d, label), UNCHANGED store,
             DOMAIN steps = {}
      PROVE  OnceInv'
  <2>1. /\ pc' = [pc EXCEPT ![d] = label]
        /\ cur' = cur /\ UNCHANGED <<steps, done>>
    BY <1>5 DEF Goto, store, local
  <2>2. pc'[d] = label
    BY <2>1 DEF Threads, GoodInv, FrameTypes
  <2>3. label \notin InHand /\ \A q \in Steps : ~Hers(d, q)'
    BY <2>2 DEF Hers, InHand
  <2> QED  BY <1>5, <2>1, <2>3, QuietDriver
<1>6. CASE ReadPlan(d)
  <2>1. CASE steps = <<>>
    <3>1. DOMAIN steps = {}
      BY <2>1, EmptySeq
    <3> QED  BY <1>5, <1>6, <2>1, <3>1 DEF ReadPlan
  <2>2. CASE steps # <<>>
    BY <1>6, <2>2, OnceSweep DEF ReadPlan
  <2> QED  BY <2>1, <2>2
<1>7. CASE PlannerReturns(d)
  BY <1>5, <1>7 DEF PlannerReturns, OnceInv, Growing
<1>8. CASE ExecutorReturns(d) \/ ExecutorWaits(d) \/ ExecutorThrows(d)
  <2>1. PICK label \in {"completed", "waiting", "failed"} :
          /\ pc' = [pc EXCEPT ![d] = label]
          /\ cur' = cur /\ UNCHANGED <<steps, done>>
    BY <1>8 DEF ExecutorReturns, ExecutorWaits, ExecutorThrows, Goto, store, local
  <2>2. pc[d] = "execute" /\ pc'[d] = label
    BY <1>8, <2>1 DEF ExecutorReturns, ExecutorWaits, ExecutorThrows, Threads,
                      GoodInv, FrameTypes
  <2>3. \A q \in Steps : Hers(d, q)' => Hers(d, q)
    BY <2>1, <2>2 DEF Hers, InHand
  <2>4. Listed(cur'[d])
    BY <2>1, <2>2 DEF OnceInv, Held, InHand
  <2> QED  BY <2>1, <2>3, <2>4, QuietDriver DEF OnceInv, Held
<1> QED  BY <1>2, <1>3, <1>4, <1>6, <1>7, <1>8

LEMMA OnceUpdate ==
  ASSUME GoodInv, OnceInv, OneDriver, NEW d \in Drivers,
         \/ Retry(d) \/ Requeue(d) \/ StartStep(d) \/ StepCompleted(d)
         \/ StepWaiting(d) \/ StepFailed(d)
  PROVE  OnceInv'
<1>1. d \in Threads
  BY DEF Threads
<1>2. \A label : pc' = [pc EXCEPT ![d] = label] => pc'[d] = label
  BY <1>1 DEF GoodInv, FrameTypes
<1>3. CASE Requeue(d)
  <2>1. /\ todo[d] \in Seq(Steps) /\ todo[d] # <<>>
        /\ pc[d] = "requeue"
        /\ UpdateStep(Head(todo[d]), "pending")
        /\ pc' = [pc EXCEPT ![d] = "requeue"]
        /\ todo' = [todo EXCEPT ![d] = Tail(todo[d])]
        /\ cur' = cur
    BY <1>1, <1>3 DEF Requeue, Sweep, GoodInv, FrameTypes
  <2>2. /\ Head(todo[d]) \in Steps
        /\ 1 \in DOMAIN todo[d] /\ Head(todo[d]) = todo[d][1]
    <3>1. Len(todo[d]) \in Nat /\ Len(todo[d]) # 0
      BY <2>1, EmptySeq, LenProperties
    <3> QED  BY <2>1, <3>1, LenProperties, HeadTailProperties
  <2>3. Hers(d, Head(todo[d]))
    BY <2>1, <2>2 DEF Hers
  <2>4. ASSUME NEW q \in Steps, Hers(d, q)' PROVE Hers(d, q)
    <3>1. pc'[d] = "requeue" /\ todo'[d] = Tail(todo[d])
      BY <1>1, <1>2, <2>1 DEF GoodInv, FrameTypes
    <3>2. PICK k \in DOMAIN Tail(todo[d]) : Tail(todo[d])[k] = q
      BY <2>4, <3>1 DEF Hers, InHand
    <3>3. k + 1 \in DOMAIN todo[d] /\ todo[d][k + 1] = q
      BY <2>1, <3>2, HeadTailProperties, LenProperties
    <3> QED  BY <2>1, <3>3 DEF Hers
  <2> QED  BY <2>1, <2>2, <2>3, <2>4, UpdateDriver DEF Unsettled, InHand
<1>4. ASSUME pc[d] \in InHand PROVE cur[d] \in Steps /\ Listed(cur[d]) /\ Hers(d, cur[d])
  <2>1. Listed(cur[d])
    BY <1>4 DEF OnceInv, Held
  <2>2. cur[d] \in Steps
    BY <2>1, StepIds DEF Listed, GoodInv, IInv
  <2> QED  BY <1>4, <2>1, <2>2 DEF Hers
<1>5. CASE StartStep(d)
  <2>1. /\ pc[d] \in InHand /\ UpdateStep(cur[d], "running")
        /\ pc' = [pc EXCEPT ![d] = "execute"] /\ cur' = cur
    BY <1>5 DEF StartStep, Goto, local, InHand
  <2>2. \A q \in Steps : Hers(d, q)' => Hers(d, q)
    BY <1>2, <2>1 DEF Hers
  <2>3. /\ "running" \in Unsettled /\ "running" # "completed"
        /\ "execute" \notin {"planner", "planned", "append"}
    BY DEF Unsettled
  <2>4. cur[d] \in Steps /\ Listed(cur[d]) /\ Hers(d, cur[d])
    BY <1>4, <2>1
  <2> QED  BY <2>1, <2>2, <2>3, <2>4, UpdateDriver
<1>6. CASE ~Requeue(d) /\ ~StartStep(d)
  <2>1. pc[d] \in InHand /\ cur' = cur
    BY <1>3, <1>5, <1>6 DEF Retry, StepCompleted, StepWaiting, StepFailed,
                            Goto, local, InHand
  <2>2. PICK to \in {"pending", "completed", "waiting", "failed"},
             label \in {"reread", "check", "append", "runWaiting", "runFailed"} :
          /\ UpdateStep(cur[d], to) /\ pc' = [pc EXCEPT ![d] = label]
          /\ label = "append" => to = "completed"
    BY <1>6 DEF Retry, StepCompleted, StepWaiting, StepFailed, Goto
  <2>3. /\ label \notin InHand \cup {"requeue", "planner", "planned"}
        /\ to \in Unsettled \cup {"waiting", "completed"}
    BY DEF InHand, Unsettled
  <2>4. \A q \in Steps : ~Hers(d, q)'
    BY <1>2, <2>2, <2>3 DEF Hers
  <2> QED  BY <1>4, <2>1, <2>2, <2>3, <2>4, UpdateDriver
<1> QED  BY <1>3, <1>5, <1>6

\* The ids of a list of new steps.
LEMMA NewStepIds ==
  ASSUME NEW ids
  PROVE  /\ DOMAIN NewSteps(ids) = DOMAIN ids
         /\ \A i \in DOMAIN ids : NewSteps(ids)[i].id = ids[i]
BY DEF NewSteps

\* The only driver stores a list of steps and goes on to look at it.
LEMMA ListFrame ==
  ASSUME GoodInv, OnceInv, OneDriver, NEW d \in Drivers, NEW label \in {"plan", "check"},
         ListedOnce', Growing', Settled', Answered',
         pc' = [pc EXCEPT ![d] = label]
  PROVE  OnceInv'
<1>1. pc'[d] = label /\ \A e \in Drivers : e = d
  BY DEF Threads, GoodInv, FrameTypes, OneDriver
<1>2. Held'
  BY <1>1 DEF Held, Hers, InHand
<1> QED  BY <1>2 DEF OnceInv

LEMMA OnceSavePlan ==
  ASSUME GoodInv, OnceInv, OneDriver, DistinctIds, NEW d \in Drivers, SavePlan(d)
  PROVE  OnceInv'
<1>1. /\ pc[d] = "planned" /\ steps' = NewSteps(Plan)
      /\ pc' = [pc EXCEPT ![d] = "plan"] /\ cur' = cur /\ done' = done
  BY DEF SavePlan, ReplaceSteps, Goto, local
<1>2. DOMAIN steps = {}
  BY <1>1 DEF OnceInv, Growing
<1>3. done = {} /\ \A o \in Operators : pc[o] # "answer"
  BY <1>2 DEF OnceInv, Settled, Answered, Listed
<1>4. /\ DOMAIN steps' = DOMAIN Plan
      /\ \A i \in DOMAIN Plan : steps'[i].id = Plan[i]
  BY <1>1, NewStepIds
<1>5. ListedOnce'
  BY <1>4 DEF ListedOnce, DistinctIds
<1>6. \A o \in Operators : pc'[o] = pc[o]
  BY <1>1, ThreadsAssumption DEF Threads, GoodInv, FrameTypes
<1>7. Settled' /\ Answered'
  BY <1>1, <1>3, <1>6 DEF Settled, Answered
<1>8. \A s \in Steps : ~Appended(s)'
  BY <1>4 DEF Appended, Listed, DistinctIds
<1>9. pc'[d] = "plan" /\ \A e \in Drivers : e = d
  BY <1>1 DEF Threads, GoodInv, FrameTypes, OneDriver
<1>10. Growing'
  BY <1>8, <1>9 DEF Growing
<1> QED  BY <1>1, <1>5, <1>7, <1>10, ListFrame

LEMMA OnceAppendNext ==
  ASSUME GoodInv, OnceInv, OneDriver, DistinctIds, NEW d \in Drivers, AppendNext(d)
  PROVE  OnceInv'
<1> DEFINE p == cur[d]
           new == NewSteps(NextSteps[p])
<1>1. /\ pc[d] = "append" /\ steps' = steps \o new
      /\ pc' = [pc EXCEPT ![d] = "check"] /\ cur' = cur /\ done' = done
  BY DEF AppendNext, AppendSteps, Goto, local
<1>2. p \in done /\ p \in Steps /\ ~Appended(p)
  BY <1>1 DEF OnceInv, Growing, GoodInv, RestTypes
<1>3. /\ DOMAIN new = DOMAIN NextSteps[p]
      /\ \A i \in DOMAIN new : new[i].id = NextSteps[p][i]
      /\ new \in Seq(StepRecords)
  BY <1>2, PlanAssumption, NewStepIds, NewStepsType
<1> HIDE DEF new
<1>4. /\ Len(steps) \in Nat /\ DOMAIN steps = 1 .. Len(steps)
      /\ Len(new) \in Nat /\ DOMAIN new = 1 .. Len(new)
      /\ steps \in Seq(StepRecords)
  BY <1>3, LenProperties DEF GoodInv, IInv, StepsInv
<1>5. /\ DOMAIN steps' = 1 .. Len(steps) + Len(new)
      /\ \A i \in 1 .. Len(steps) + Len(new) :
           steps'[i] = IF i <= Len(steps) THEN steps[i] ELSE new[i - Len(steps)]
  BY <1>1, <1>3, <1>4, ConcatProperties, LenProperties
\* Each position is an old one, or that of a follow-up step.
<1>6. \A i \in DOMAIN steps' :
        \/ i \in DOMAIN steps /\ steps'[i] = steps[i]
        \/ /\ i \notin DOMAIN steps /\ i - Len(steps) \in DOMAIN NextSteps[p]
           /\ steps'[i].id = NextSteps[p][i - Len(steps)]
  <2> TAKE i \in DOMAIN steps'
  <2>1. CASE i <= Len(steps)
    BY <1>4, <1>5, <2>1
  <2>2. CASE ~(i <= Len(steps))
    <3>1. i - Len(steps) \in DOMAIN new /\ i \notin DOMAIN steps
      BY <1>4, <1>5, <2>2
    <3>2. steps'[i] = new[i - Len(steps)]
      BY <1>5, <2>2
    <3> QED  BY <1>3, <3>1, <3>2
  <2> QED  BY <2>1, <2>2
<1>7. \A i \in DOMAIN steps : i \in DOMAIN steps' /\ steps'[i] = steps[i]
  BY <1>4, <1>5
<1>8. \A k \in DOMAIN NextSteps[p] : \A i \in DOMAIN steps : steps[i].id # NextSteps[p][k]
  BY <1>2 DEF Appended, Listed
<1>9. \A i, j \in DOMAIN NextSteps[p] : NextSteps[p][i] = NextSteps[p][j] => i = j
  BY <1>2 DEF DistinctIds
<1>10. ListedOnce'
  <2> SUFFICES ASSUME NEW i \in DOMAIN steps', NEW j \in DOMAIN steps',
                      steps'[i].id = steps'[j].id
               PROVE  i = j
    BY DEF ListedOnce
  <2>1. CASE i \in DOMAIN steps /\ j \in DOMAIN steps
    BY <1>6, <2>1 DEF OnceInv, ListedOnce
  <2>2. CASE i \in DOMAIN steps /\ j \notin DOMAIN steps
    BY <1>6, <1>8, <2>2
  <2>3. CASE i \notin DOMAIN steps /\ j \in DOMAIN steps
    BY <1>6, <1>8, <2>3
  <2>4. CASE i \notin DOMAIN steps /\ j \notin DOMAIN steps
    <3>1. i - Len(steps) = j - Len(steps)
      BY <1>6, <1>9, <2>4
    <3>2. i \in Nat /\ j \in Nat
      BY <1>4, <1>5
    <3> QED  BY <1>4, <3>1, <3>2
  <2> QED  BY <2>1, <2>2, <2>3, <2>4
<1>11. \A s : Listed(s) => Listed(s)'
  BY <1>7 DEF Listed
<1>12. \A s : Listed(s)' => Listed(s) \/ \E k \in DOMAIN NextSteps[p] : NextSteps[p][k] = s
  BY <1>6 DEF Listed
<1>13. \A s, set : Listed(s) /\ Reads(s, set) => Reads(s, set)'
  BY <1>6, <1>8 DEF Listed, Reads
<1>14. \A o \in Operators : pc'[o] = pc[o]
  BY <1>1, ThreadsAssumption DEF Threads, GoodInv, FrameTypes
<1>15. Settled'
  BY <1>1, <1>11, <1>13 DEF OnceInv, Settled
<1>16. Answered'
  BY <1>1, <1>11, <1>13, <1>14 DEF OnceInv, Answered
<1>17. \A s \in Steps : Appended(s)' => s \in done
  <2> SUFFICES ASSUME NEW s \in Steps, NEW k \in DOMAIN NextSteps[s],
                      Listed(NextSteps[s][k])'
               PROVE  s \in done
    BY DEF Appended
  <2>1. CASE Listed(NextSteps[s][k])
    BY <2>1 DEF OnceInv, Growing, Appended
  <2>2. CASE \E l \in DOMAIN NextSteps[p] : NextSteps[p][l] = NextSteps[s][k]
    BY <1>2, <2>2 DEF DistinctIds
  <2> QED  BY <1>12, <2>1, <2>2
<1>18. pc'[d] = "check" /\ \A e \in Drivers : e = d
  BY <1>1 DEF Threads, GoodInv, FrameTypes, OneDriver
<1>19. Growing'
  BY <1>1, <1>17, <1>18 DEF Growing
<1> QED  BY <1>1, <1>10, <1>15, <1>16, <1>19, ListFrame

\* An operator goes on, with the status of step s changed or with none changed.
LEMMA OperatorFrame ==
  ASSUME GoodInv, OnceInv, NEW o \in Operators, NEW s, NEW label,
         ListedOnce', Settled', DOMAIN steps' = DOMAIN steps, done \subseteq done',
         \A q : q # s /\ q \in done' => q \in done,
         \A q : Listed(q)' = Listed(q),
         \A q, set : q # s /\ Reads(q, set) => Reads(q, set)',
         \A p \in Operators : pc[p] = "answer" /\ cur[p] = s =>
           Reads(s, {"waiting", "completed", "cancelled"})',
         \A d \in Drivers : Hers(d, s) => s \notin done' /\ Reads(s, Unsettled)',
         pc' = [pc EXCEPT ![o] = label],
         cur' = cur \/ \E c : cur' = [cur EXCEPT ![o] = c],
         todo' = todo \/ \E ids : todo' = [todo EXCEPT ![o] = ids],
         label = "answer" =>
           /\ Listed(cur'[o])
           /\ Reads(cur[o], {"waiting", "completed", "cancelled"})'
           /\ \A d \in Drivers : ~Hers(d, cur'[o])
  PROVE  OnceInv'
<1>1. /\ o \in Threads /\ o \notin Drivers /\ pc'[o] = label
      /\ \A p \in Operators : p # o => pc'[p] = pc[p] /\ cur'[p] = cur[p]
  BY ThreadsAssumption DEF Threads, GoodInv, FrameTypes
<1>2. \A d \in Drivers : pc'[d] = pc[d] /\ cur'[d] = cur[d] /\ todo'[d] = todo[d]
  BY <1>1 DEF Threads, GoodInv, FrameTypes
<1>3. Answered'
  <2> SUFFICES ASSUME NEW p \in Operators, pc'[p] = "answer"
               PROVE  Listed(cur[p])' /\ Reads(cur[p], {"waiting", "completed", "cancelled"})'
    BY DEF Answered
  <2>1. CASE p = o
    BY <1>1, <2>1
  <2>2. CASE p # o
    BY <1>1, <2>2 DEF OnceInv, Answered
  <2> QED  BY <2>1, <2>2
<1>4. Held'
  <2> SUFFICES ASSUME NEW d \in Drivers
               PROVE  /\ pc'[d] \in InHand => Listed(cur[d])'
                      /\ \A q \in Steps : Hers(d, q)' => Free(q)'
    BY DEF Held
  <2>1. pc'[d] \in InHand => Listed(cur[d])'
    BY <1>2 DEF OnceInv, Held
  <2>2. ASSUME NEW q \in Steps, Hers(d, q)' PROVE Free(q)'
    <3>1. Hers(d, q)
      BY <1>2, <2>2 DEF Hers
    <3>2. Free(q)
      BY <3>1 DEF OnceInv, Held
    <3>3. q \notin done' /\ Reads(q, Unsettled)'
      BY <3>1, <3>2 DEF Free
    <3>4. \A p \in Operators : pc'[p] = "answer" => cur'[p] # q
      BY <1>1, <3>1, <3>2 DEF Free
    <3> QED  BY <3>3, <3>4 DEF Free
  <2> QED  BY <2>1, <2>2
<1>5. \A q : Appended(q)' = Appended(q)
  BY DEF Appended
<1>6. Growing'
  <2>1. \A q \in Steps : Appended(q)' => q \in done'
    BY <1>5 DEF OnceInv, Growing
  <2>2. \A d \in Drivers :
          /\ pc'[d] \in {"planner", "planned"} => DOMAIN steps' = {}
          /\ pc'[d] = "append" => cur'[d] \in done' /\ ~Appended(cur[d])'
    BY <1>2, <1>5 DEF OnceInv, Growing
  <2> QED  BY <2>1, <2>2 DEF Growing
<1> QED  BY <1>3, <1>4, <1>6 DEF OnceInv

LEMMA QuietOperator ==
  ASSUME GoodInv, OnceInv, NEW o \in Operators, NEW label,
         UNCHANGED <<steps, done>>,
         pc' = [pc EXCEPT ![o] = label],
         cur' = cur \/ \E c : cur' = [cur EXCEPT ![o] = c],
         todo' = todo \/ \E ids : todo' = [todo EXCEPT ![o] = ids],
         label = "answer" =>
           Listed(cur'[o]) /\ Reads(cur'[o], {"waiting"}) /\ cur'[o] \in Steps
  PROVE  OnceInv'
<1>1. ListedOnce' /\ Settled'
  BY DEF OnceInv, ListedOnce, Settled, Listed, Reads
<1>2. /\ \A q : Listed(q)' = Listed(q)
      /\ \A q, set : Reads(q, set)' = Reads(q, set)
  BY DEF Listed, Reads
<1>3. /\ \A p \in Operators : pc[p] = "answer" => cur[p] \in Steps
      /\ \A d \in Drivers : ~Hers(d, None)
  <2>1. None \notin Steps
    BY PlanAssumption
  <2>2. \A p \in Operators : pc[p] = "answer" => cur[p] \in Steps
    BY DEF GoodInv, IInv, FramesInv, Ordered, Holding, Threads
  <2>3. ASSUME NEW d \in Drivers, Hers(d, None) PROVE FALSE
    <3>1. CASE pc[d] \in InHand
      BY <2>1, <2>3, <3>1, StepIds DEF OnceInv, Held, Hers, Listed, InHand, GoodInv, IInv
    <3>2. CASE pc[d] \notin InHand
      <4>1. todo[d] \in Seq(Steps)
        BY DEF GoodInv, FrameTypes, Threads
      <4>2. \A k \in DOMAIN todo[d] : todo[d][k] \in Steps
        BY <4>1, LenProperties, ElementOfSeq
      <4> QED  BY <2>1, <2>3, <3>2, <4>2 DEF Hers
    <3> QED  BY <3>1, <3>2
  <2> QED  BY <2>2, <2>3
<1>4. None \notin Steps
  BY PlanAssumption
<1>5. label = "answer" =>
        /\ Listed(cur'[o])
        /\ Reads(cur[o], {"waiting", "completed", "cancelled"})'
        /\ \A d \in Drivers : ~Hers(d, cur'[o])
  <2> SUFFICES ASSUME label = "answer"
               PROVE  /\ Reads(cur'[o], {"waiting", "completed", "cancelled"})
                      /\ \A d \in Drivers : ~Hers(d, cur'[o])
    BY <1>2
  <2>1. PICK i \in DOMAIN steps : steps[i].id = cur'[o] /\ steps[i].status = "waiting"
    BY DEF Listed, Reads
  <2>2. ~Free(cur'[o])
    BY <2>1 DEF Free, Reads, Unsettled
  <2> QED  BY <2>2 DEF Reads, OnceInv, Held
<1>6. /\ \A p \in Operators : pc[p] = "answer" /\ cur[p] = None =>
           Reads(None, {"waiting", "completed", "cancelled"})'
      /\ \A d \in Drivers : Hers(d, None) => None \notin done' /\ Reads(None, Unsettled)'
  BY <1>3, <1>4
<1>7. /\ DOMAIN steps' = DOMAIN steps /\ done \subseteq done'
      /\ \A q : q # None /\ q \in done' => q \in done
      /\ \A q, set : q # None /\ Reads(q, set) => Reads(q, set)'
  BY <1>2
<1> QED  BY <1>1, <1>2, <1>5, <1>6, <1>7, OperatorFrame

LEMMA UpdateOperator ==
  ASSUME GoodInv, OnceInv, NEW o \in Operators, NEW label, NEW s,
         NEW to \in {"completed", "cancelled"}, UpdateStep(s, to),
         to = "completed" => pc[o] = "answer" /\ cur[o] = s,
         pc' = [pc EXCEPT ![o] = label], cur' = cur,
         todo' = todo \/ \E ids : todo' = [todo EXCEPT ![o] = ids],
         label # "answer"
  PROVE  OnceInv'
<1>1. /\ ListedOnce' /\ DOMAIN steps' = DOMAIN steps
      /\ \A q : Listed(q)' = Listed(q)
      /\ \A q, set : q # s /\ Reads(q, set) => Reads(q, set)'
      /\ \A set : to \in set => Reads(s, set)'
  BY UpdateViews, UpdateReads DEF OnceInv
<1>2. done' = IF to = "completed" THEN done \cup {s} ELSE done
  BY DEF UpdateStep
<1>3. to = "completed" => Listed(s)
  BY DEF OnceInv, Answered
<1>4. Settled'
  <2> SUFFICES ASSUME NEW q \in done' PROVE Listed(q)' /\ Reads(q, {"completed", "cancelled"})'
    BY DEF Settled
  <2>1. CASE q = s
    BY <1>1, <1>2, <1>3, <2>1 DEF OnceInv, Settled
  <2>2. CASE q # s
    BY <1>1, <1>2, <2>2 DEF OnceInv, Settled
  <2> QED  BY <2>1, <2>2
<1>5. ASSUME NEW d \in Drivers, Hers(d, s) PROVE s \notin done' /\ Reads(s, Unsettled)'
  <2>1. s \in Steps
    <3>1. CASE pc[d] \in InHand
      BY <1>5, <3>1, StepIds DEF OnceInv, Held, Hers, Listed, InHand, GoodInv, IInv
    <3>2. CASE pc[d] \notin InHand
      <4>1. todo[d] \in Seq(Steps)
        BY DEF GoodInv, FrameTypes, Threads
      <4>2. \A k \in DOMAIN todo[d] : todo[d][k] \in Steps
        BY <4>1, LenProperties, ElementOfSeq
      <4> QED  BY <1>5, <3>2, <4>2 DEF Hers
    <3> QED  BY <3>1, <3>2
  <2>2. Free(s)
    BY <1>5, <2>1 DEF OnceInv, Held
  <2>3. to = "cancelled"
    BY <2>2 DEF Free
  <2> QED  BY <1>1, <1>2, <2>2, <2>3 DEF Free, Unsettled
<1>6. /\ done \subseteq done'
      /\ \A q : q # s /\ q \in done' => q \in done
      /\ \A p \in Operators : pc[p] = "answer" /\ cur[p] = s =>
           Reads(s, {"waiting", "completed", "cancelled"})'
  BY <1>1, <1>2
<1> QED  BY <1>1, <1>4, <1>5, <1>6, OperatorFrame

LEMMA OnceOperator ==
  ASSUME GoodInv, OnceInv, NEW o \in Operators, Cancel(o) \/ Answer(o) \/ Operate(o)
  PROVE  OnceInv'
<1>1. CASE Cancel(o) \/ CancelRun(o) \/ AnswerRun(o) \/ (CancelStep(o) /\ todo[o] = <<>>)
  <2>1. /\ UNCHANGED <<steps, done>>
        /\ cur' = cur \/ \E c : cur' = [cur EXCEPT ![o] = c]
        /\ todo' = todo \/ \E ids : todo' = [todo EXCEPT ![o] = ids]
    BY <1>1 DEF Cancel, CancelRun, AnswerRun, CancelStep, Goto, Sweep, Return,
                store, local
  <2>2. PICK label \in {"cancel", "cancelSteps", "idle"} : pc' = [pc EXCEPT ![o] = label]
    BY <1>1 DEF Cancel, CancelRun, AnswerRun, CancelStep, Goto, Sweep, Return
  <2>3. label # "answer"
    OBVIOUS
  <2> QED  BY <2>1, <2>2, <2>3, QuietOperator
<1>2. CASE Answer(o)
  <2>1. PICK i \in DOMAIN steps :
          /\ steps[i].status = "waiting"
          /\ pc' = [pc EXCEPT ![o] = "answer"]
          /\ cur' = [cur EXCEPT ![o] = steps[i].id]
          /\ todo' = todo /\ UNCHANGED <<steps, done>>
    BY <1>2 DEF Answer, Pick, store
  <2>2. cur'[o] = steps[i].id /\ steps[i].id \in Steps
    BY <2>1, StepIds DEF Threads, GoodInv, FrameTypes, IInv
  <2>3. Listed(cur'[o]) /\ Reads(cur'[o], {"waiting"})
    BY <2>1, <2>2 DEF Listed, Reads, OnceInv, ListedOnce
  <2> QED  BY <2>1, <2>2, <2>3, QuietOperator
<1>3. CASE AnswerStep(o)
  <2>1. /\ pc[o] = "answer" /\ UpdateStep(cur[o], "completed")
        /\ pc' = [pc EXCEPT ![o] = "answered"]
        /\ cur' = cur /\ todo' = todo
    BY <1>3 DEF AnswerStep, Goto, local
  <2> QED  BY <2>1, UpdateOperator
<1>4. CASE CancelStep(o) /\ todo[o] # <<>>
  <2>1. /\ UpdateStep(Head(todo[o]), "cancelled")
        /\ pc' = [pc EXCEPT ![o] = "cancelSteps"]
        /\ cur' = cur /\ todo' = [todo EXCEPT ![o] = Tail(todo[o])]
    BY <1>4 DEF CancelStep, Sweep
  <2> QED  BY <2>1, UpdateOperator
<1> QED  BY <1>1, <1>2, <1>3, <1>4 DEF Operate

LEMMA OnceStep ==
  ASSUME GoodInv, OnceInv, OneDriver, DistinctIds, [Next]_vars
  PROVE  OnceInv'
<1>1. CASE UNCHANGED vars
  BY <1>1 DEF vars, store, local, OnceInv, ListedOnce, Settled, Answered, Held, Hers, Free,
              Growing, Appended, Listed, Reads
<1>2. CASE Crash
  <2>1. /\ \A t \in Threads : pc'[t] = "idle"
        /\ UNCHANGED <<steps, done>>
    BY <1>2 DEF Crash, store
  <2>2. \A d \in Drivers, q \in Steps : ~Hers(d, q)'
    BY <2>1 DEF Hers, InHand, Threads
  <2> QED  BY <2>1, <2>2 DEF OnceInv, ListedOnce, Settled, Answered, Held, InHand,
                             Growing, Appended, Listed, Reads, Threads
<1>3. ASSUME NEW d \in Drivers, Create(d) \/ Resume(d) \/ Drive(d) PROVE OnceInv'
  BY <1>3, OnceAway, AwayKeeps, OnceQuiet, OnceUpdate, OnceSavePlan, OnceAppendNext
     DEF Drive, Execute
<1>4. ASSUME NEW o \in Operators, Cancel(o) \/ Answer(o) \/ Operate(o) PROVE OnceInv'
  BY <1>4, OnceOperator
<1> QED  BY <1>1, <1>2, <1>3, <1>4 DEF Next

\* An operator leaves the drivers where they are.
LEMMA OperatorRun ==
  ASSUME GoodInv, NEW o \in Operators, Cancel(o) \/ Answer(o) \/ Operate(o)
  PROVE  /\ run' = "completed" => run = "completed"
         /\ cancels' = 0 => cancels = 0 /\ ~Cancel(o)
         /\ \A d \in Drivers : pc'[d] = pc[d] /\ cur'[d] = cur[d] /\ todo'[d] = todo[d]
         /\ ~Cancel(o) => \E label : label \notin {"cancel"} /\ pc' = [pc EXCEPT ![o] = label]
<1> USE DEF UpdateRun, Goto, Sweep, Pick, Return, store, local, aside, counters
<1>1. /\ run' = "completed" => run = "completed"
      /\ cancels' = IF Cancel(o) THEN cancels + 1 ELSE cancels
  BY DEF Cancel, Answer, Operate, CancelRun, CancelStep, AnswerStep, AnswerRun
<1>2. cancels' = 0 => cancels = 0 /\ ~Cancel(o)
  BY <1>1 DEF GoodInv, RestTypes
<1>3. /\ \E label : /\ label = "cancel" => Cancel(o)
                    /\ pc' = [pc EXCEPT ![o] = label]
      /\ cur' = cur \/ \E s : cur' = [cur EXCEPT ![o] = s]
      /\ todo' = todo \/ \E ids : todo' = [todo EXCEPT ![o] = ids]
  BY DEF Cancel, Answer, Operate, CancelRun, CancelStep, AnswerStep, AnswerRun
<1>4. \A d \in Drivers : pc'[d] = pc[d] /\ cur'[d] = cur[d] /\ todo'[d] = todo[d]
  BY <1>3, ThreadsAssumption DEF Threads, GoodInv, FrameTypes
<1> QED  BY <1>1, <1>2, <1>3, <1>4

\* Only a driver's start makes a step Running: an operator completes or cancels.
LEMMA OperatorList ==
  ASSUME NEW o \in Operators, Cancel(o) \/ Answer(o) \/ Operate(o)
  PROVE  \/ UNCHANGED steps
         \/ AnswerStep(o) /\ UpdateStep(cur[o], "completed")
         \/ CancelStep(o) /\ UpdateStep(Head(todo[o]), "cancelled")
BY DEF Cancel, Answer, Operate, CancelRun, CancelStep, AnswerStep, AnswerRun, store

\* Appending lists what is appended, and nothing less than before.
LEMMA AppendLists ==
  ASSUME GoodInv, NEW p \in Steps, steps' = steps \o NewSteps(NextSteps[p])
  PROVE  /\ \A s : Listed(s) => Listed(s)'
         /\ \A k \in DOMAIN NextSteps[p] : Listed(NextSteps[p][k])'
<1> DEFINE new == NewSteps(NextSteps[p])
<1>1. /\ DOMAIN new = DOMAIN NextSteps[p]
      /\ \A k \in DOMAIN new : new[k].id = NextSteps[p][k]
      /\ new \in Seq(StepRecords)
  BY PlanAssumption, NewStepIds, NewStepsType
<1>2. steps' = steps \o new
  OBVIOUS
<1> HIDE DEF new
<1>3. /\ Len(steps) \in Nat /\ DOMAIN steps = 1 .. Len(steps)
      /\ Len(new) \in Nat /\ DOMAIN new = 1 .. Len(new)
      /\ steps \in Seq(StepRecords)
  BY <1>1, LenProperties DEF GoodInv, IInv, StepsInv
<1>4. /\ DOMAIN steps' = 1 .. Len(steps) + Len(new)
      /\ \A i \in 1 .. Len(steps) + Len(new) :
           steps'[i] = IF i <= Len(steps) THEN steps[i] ELSE new[i - Len(steps)]
  BY <1>1, <1>2, <1>3, ConcatProperties, LenProperties
<1>5. \A i \in DOMAIN steps : i \in DOMAIN steps' /\ steps'[i] = steps[i]
  BY <1>3, <1>4
<1>6. ASSUME NEW k \in DOMAIN new
      PROVE  Len(steps) + k \in DOMAIN steps' /\ steps'[Len(steps) + k] = new[k]
  <2>1. /\ k \in Nat /\ 1 <= k /\ k <= Len(new)
        /\ (Len(steps) + k) - Len(steps) = k /\ ~(Len(steps) + k <= Len(steps))
    BY <1>3
  <2> QED  BY <1>3, <1>4, <2>1
<1> QED  BY <1>1, <1>5, <1>6 DEF Listed

\* What a driver's step may do to the steps that are due.
LEMMA DriverDue ==
  ASSUME NEW d \in Drivers, Create(d) \/ Resume(d) \/ Drive(d)
  PROVE  \/ StepCompleted(d)
         \/ AppendNext(d)
         \/ SavePlan(d)
         \/ /\ UNCHANGED due /\ pc[d] # "append"
            /\ UNCHANGED steps \/ \E s, to : UpdateStep(s, to)
<1> USE DEF store, aside
<1>1. CASE \/ Create(d) \/ Resume(d) \/ Reread(d) \/ Prepare(d) \/ ReadPlan(d)
           \/ PlannerReturns(d) \/ PlannerThrows(d) \/ BeginRun(d)
  BY <1>1 DEF Create, Resume, Reread, Prepare, ReadPlan, PlannerReturns,
              PlannerThrows, BeginRun
<1>2. CASE \/ PickStep(d) \/ NothingReady(d) \/ LimitReached(d) \/ Pause(d)
           \/ CompleteRun(d) \/ ExecutorReturns(d) \/ ExecutorWaits(d)
           \/ ExecutorThrows(d) \/ RunFollows(d) \/ Check(d)
  BY <1>2 DEF PickStep, NothingReady, LimitReached, Pause, CompleteRun,
              ExecutorReturns, ExecutorWaits, ExecutorThrows, RunFollows, Check
<1>3. CASE Retry(d) \/ Requeue(d) \/ StartStep(d) \/ StepWaiting(d) \/ StepFailed(d)
  BY <1>3 DEF Retry, Requeue, StartStep, StepWaiting, StepFailed
<1> QED  BY <1>1, <1>2, <1>3 DEF Drive, Execute

\* What is listed stays listed, and what is being appended stays so.
LEMMA FollowUpsStay ==
  ASSUME FollowUpsListed, UNCHANGED due,
         \A s : Listed(s) => Listed(s)',
         \A s : Appending(s) => Appending(s)'
  PROVE  FollowUpsListed'
BY DEF FollowUpsListed

LEMMA FollowUpsStep ==
  ASSUME GoodInv, OnceInv, OneDriver, FollowUpsListed, [Next]_vars
  PROVE  FollowUpsListed'
<1>1. CASE UNCHANGED vars
  <2>1. UNCHANGED <<steps, due, pc, cur>>
    BY <1>1 DEF vars, store, local, aside
  <2>2. (\A s : Listed(s) => Listed(s)') /\ \A s : Appending(s) => Appending(s)'
    BY <2>1 DEF Listed, Appending
  <2> QED  BY <2>1, <2>2, FollowUpsStay
<1>2. CASE Crash
  <2>1. due' = {s \in due : ~Appending(s)} /\ steps' = steps
    BY <1>2 DEF Crash, store
  <2> QED  BY <2>1 DEF FollowUpsListed, Listed
<1>3. ASSUME NEW d \in Drivers, Create(d) \/ Resume(d) \/ Drive(d)
      PROVE  FollowUpsListed'
  <2>1. \A s : Appending(s) <=> pc[d] = "append" /\ cur[d] = s
    BY DEF Appending, OneDriver
  <2>2. CASE StepCompleted(d)
    <3>1. /\ pc[d] = "completed" /\ UpdateStep(cur[d], "completed")
          /\ due' = due \cup {cur[d]} /\ cur' = cur
          /\ pc' = [pc EXCEPT ![d] = IF NextSteps[cur[d]] = <<>> THEN "check" ELSE "append"]
      BY <2>2 DEF StepCompleted, Goto, local
    <3>2. \A s : Listed(s)' = Listed(s)
      BY <3>1, UpdateViews DEF OnceInv
    <3>3. ASSUME NEW s \in due', s # cur[d]
          PROVE  \A k \in DOMAIN NextSteps[s] : Listed(NextSteps[s][k])'
      BY <2>1, <3>1, <3>2, <3>3 DEF FollowUpsListed
    <3>4. CASE NextSteps[cur[d]] = <<>>
      <4>1. DOMAIN NextSteps[cur[d]] = {}
        BY <3>4, EmptySeq
      <4> QED  BY <3>3, <4>1 DEF FollowUpsListed
    <3>5. CASE NextSteps[cur[d]] # <<>>
      <4>1. pc'[d] = "append"
        BY <3>1, <3>5 DEF Threads, GoodInv, FrameTypes
      <4>2. \A s : s = cur[d] => Appending(s)'
        BY <3>1, <4>1 DEF Appending
      <4> QED  BY <3>3, <4>2 DEF FollowUpsListed
    <3> QED  BY <3>4, <3>5
  <2>3. CASE AppendNext(d)
    <3> PICK p : p = cur[d]
      OBVIOUS
    <3>1. /\ pc[d] = "append" /\ steps' = steps \o NewSteps(NextSteps[p])
          /\ due' = due
      BY <2>3 DEF AppendNext, AppendSteps, aside
    <3>2. p \in Steps
      BY <3>1 DEF OnceInv, Growing, GoodInv, RestTypes
    <3>3. /\ \A s : Listed(s) => Listed(s)'
          /\ \A k \in DOMAIN NextSteps[p] : Listed(NextSteps[p][k])'
      BY <3>1, <3>2, AppendLists
    <3>4. ASSUME NEW s \in due
          PROVE  \A k \in DOMAIN NextSteps[s] : Listed(NextSteps[s][k])'
      <4>1. CASE s = p
        BY <3>3, <4>1
      <4>2. CASE s # p
        BY <2>1, <3>3, <4>2 DEF FollowUpsListed
      <4> QED  BY <4>1, <4>2
    <3> QED  BY <3>1, <3>4 DEF FollowUpsListed
  <2>4. CASE SavePlan(d)
    <3>1. pc[d] = "planned" /\ due' = due
      BY <2>4 DEF SavePlan, aside
    <3>2. \A s : ~Listed(s) /\ ~Appending(s)
      BY <2>1, <3>1 DEF OnceInv, Growing, Listed
    <3> QED  BY <3>1, <3>2 DEF FollowUpsListed
  <2>5. CASE /\ UNCHANGED due /\ pc[d] # "append"
             /\ UNCHANGED steps \/ \E s, to : UpdateStep(s, to)
    <3>1. \A s : Listed(s)' = Listed(s)
      BY <2>5, UpdateViews DEF OnceInv, Listed
    <3> QED  BY <2>1, <2>5, <3>1, FollowUpsStay
  <2> QED  BY <1>3, <2>2, <2>3, <2>4, <2>5, DriverDue
<1>4. ASSUME NEW o \in Operators, Cancel(o) \/ Answer(o) \/ Operate(o)
      PROVE  FollowUpsListed'
  <2>1. due' = due
    BY <1>4 DEF Cancel, Answer, Operate, CancelRun, CancelStep, AnswerStep,
                AnswerRun, aside
  <2>2. \A s : Listed(s)' = Listed(s)
    BY <1>4, OperatorList, UpdateViews DEF OnceInv, Listed
  <2>3. \A s : Appending(s) => Appending(s)'
    BY <1>4, OperatorRun DEF Appending
  <2> QED  BY <2>1, <2>2, <2>3, FollowUpsStay
<1> QED  BY <1>1, <1>2, <1>3, <1>4 DEF Next

\* With one driver at a time and plans that do not use an id twice, but for any
\* such plan, any number of operators, failures, waits, cancels and crashes: a
\* step that has been completed is never executed again, no step is listed
\* twice, and the follow-up steps of each step that an executor completed are
\* listed as soon as its call has gone on, unless the process died in between.
THEOREM EachStepDoneOnce ==
  ASSUME OneDriver, DistinctIds
  PROVE  Spec => []EachStepOnce
<1> DEFINE Inv == GoodInv /\ OnceInv /\ FollowUpsListed
<1>1. Init => Inv
  BY GoodInit, OnceInit DEF Init, FollowUpsListed
<1>2. Inv /\ [Next]_vars => Inv'
  BY GoodStep, OnceStep, FollowUpsStep
<1>3. Inv => EachStepOnce
  BY DEF OnceInv, EachStepOnce, DoneIsClosed, Settled, Reads
<1> QED  BY <1>1, <1>2, <1>3, PTL DEF Spec

-----------------------------------------------------------------------------
(* A completed run has nothing left to do, with one driver and distinct    *)
(* ids as above, as long as nobody has cancelled.                          *)

\* Nobody works on a run that reads Completed.
Closed == run = "completed" => \A d \in Drivers : pc[d] = "idle"

Uncancelled ==
  cancels = 0 =>
    /\ run # "cancelled"
    /\ \A o \in Operators : pc[o] \notin {"cancel", "cancelSteps"}
    /\ \A i \in DOMAIN steps : steps[i].status # "cancelled"

\* Where a driver can be while step s reads Running: it executes s, it has s to
\* re-queue, or it is still to read which steps were interrupted.
Between ==
  {"loop", "start", "append", "check", "runWaiting", "runFailed", "pause", "complete"}
Executing == {"execute", "completed", "waiting", "failed"}
Where(d, s) ==
  /\ pc[d] \notin Between
  /\ pc[d] \in Executing => cur[d] = s
  /\ pc[d] = "requeue" => \E k \in DOMAIN todo[d] : todo[d][k] = s

Interrupted ==
  cancels = 0 =>
    \A d \in Drivers : \A i \in DOMAIN steps :
      steps[i].status = "running" => Where(d, steps[i].id)

\* A step is left to do.
Left == \E i \in DOMAIN steps : steps[i].status \in {"running", "waiting"} \/ Ready(i)

Exhausted ==
  cancels = 0 /\ (run = "completed" \/ \E d \in Drivers : pc[d] = "complete") => ~Left

ExhaustInv == Closed /\ Uncancelled /\ Interrupted /\ Exhausted

LEMMA ExhaustInit == Init => ExhaustInv
<1> SUFFICES ASSUME Init PROVE ExhaustInv
  OBVIOUS
<1>1. /\ DOMAIN steps = {} /\ run = "none"
      /\ \A t \in Threads : pc[t] = "idle"
  BY EmptySeq DEF Init
<1> QED  BY <1>1 DEF ExhaustInv, Closed, Uncancelled, Interrupted, Exhausted, Threads

LEMMA DriverRun ==
  ASSUME NEW d \in Drivers, Create(d) \/ Resume(d) \/ Drive(d)
  PROVE  /\ run = "completed" => pc[d] # "idle"
         /\ run' = "completed" /\ run # "completed" => CompleteRun(d)
         /\ run' = "cancelled" => run = "cancelled"
         /\ cancels' = cancels
<1> USE DEF UpdateRun, store, aside, counters
<1>1. CASE Create(d) \/ Resume(d) \/ Retry(d) \/ Reread(d) \/ Prepare(d) \/ ReadPlan(d)
  BY <1>1 DEF Create, Resume, Retry, Reread, Prepare, ReadPlan
<1>2. CASE \/ PlannerReturns(d) \/ PlannerThrows(d) \/ SavePlan(d)
           \/ Requeue(d) \/ BeginRun(d) \/ PickStep(d)
  BY <1>2 DEF PlannerReturns, PlannerThrows, SavePlan, Requeue, BeginRun, PickStep
<1>3. CASE NothingReady(d) \/ LimitReached(d) \/ Pause(d) \/ CompleteRun(d)
  BY <1>3 DEF NothingReady, LimitReached, Pause, CompleteRun
<1>4. CASE \/ StartStep(d) \/ ExecutorReturns(d) \/ ExecutorWaits(d)
           \/ ExecutorThrows(d) \/ StepCompleted(d)
  BY <1>4 DEF StartStep, ExecutorReturns, ExecutorWaits, ExecutorThrows, StepCompleted
<1>5. CASE \/ AppendNext(d) \/ StepWaiting(d) \/ StepFailed(d) \/ RunFollows(d)
           \/ Check(d)
  BY <1>5 DEF AppendNext, StepWaiting, StepFailed, RunFollows, Check
<1> QED  BY <1>1, <1>2, <1>3, <1>4, <1>5 DEF Drive, Execute

LEMMA ClosedStep ==
  ASSUME GoodInv, OneDriver, Closed, [Next]_vars
  PROVE  Closed'
<1>1. CASE UNCHANGED vars
  BY <1>1 DEF Closed, vars, store
<1>2. CASE Crash
  BY <1>2 DEF Crash, Closed, Threads
<1>3. ASSUME NEW d \in Drivers, Create(d) \/ Resume(d) \/ Drive(d) PROVE Closed'
  <2> SUFFICES ASSUME run' = "completed" PROVE \A e \in Drivers : pc'[e] = "idle"
    BY DEF Closed
  <2>1. CompleteRun(d)
    BY <1>3, DriverRun DEF Closed
  <2>2. pc'[d] = "idle"
    BY <2>1 DEF CompleteRun, Return, Threads, GoodInv, FrameTypes
  <2> QED  BY <2>2 DEF OneDriver
<1>4. ASSUME NEW o \in Operators, Cancel(o) \/ Answer(o) \/ Operate(o) PROVE Closed'
  BY <1>4, OperatorRun DEF Closed
<1> QED  BY <1>1, <1>2, <1>3, <1>4 DEF Next

\* A driver moves only itself.
LEMMA DriverGoes ==
  ASSUME NEW d \in Drivers, Create(d) \/ Resume(d) \/ Drive(d)
  PROVE  \E label : pc' = [pc EXCEPT ![d] = label]
<1> USE DEF Goto, Sweep, Pick, Return
<1>1. CASE Create(d) \/ Resume(d) \/ Retry(d) \/ Reread(d) \/ Prepare(d) \/ ReadPlan(d)
  BY <1>1 DEF Create, Resume, Retry, Reread, Prepare, ReadPlan
<1>2. CASE \/ PlannerReturns(d) \/ PlannerThrows(d) \/ SavePlan(d)
           \/ Requeue(d) \/ BeginRun(d) \/ PickStep(d)
  BY <1>2 DEF PlannerReturns, PlannerThrows, SavePlan, Requeue, BeginRun, PickStep
<1>3. CASE NothingReady(d) \/ LimitReached(d) \/ Pause(d) \/ CompleteRun(d)
  BY <1>3 DEF NothingReady, LimitReached, Pause, CompleteRun
<1>4. CASE \/ StartStep(d) \/ ExecutorReturns(d) \/ ExecutorWaits(d)
           \/ ExecutorThrows(d) \/ StepCompleted(d)
  BY <1>4 DEF StartStep, ExecutorReturns, ExecutorWaits, ExecutorThrows, StepCompleted
<1>5. CASE \/ AppendNext(d) \/ StepWaiting(d) \/ StepFailed(d) \/ RunFollows(d)
           \/ Check(d)
  BY <1>5 DEF AppendNext, StepWaiting, StepFailed, RunFollows, Check
<1> QED  BY <1>1, <1>2, <1>3, <1>4, <1>5 DEF Drive, Execute

\* What the driver can do to the list.
LEMMA DriverList ==
  ASSUME GoodInv, NEW d \in Drivers, Create(d) \/ Resume(d) \/ Drive(d)
  PROVE  \/ UNCHANGED steps
         \/ \E s, to : to # "cancelled" /\ UpdateStep(s, to)
         \/ \A i \in DOMAIN steps' :
              \/ i \in DOMAIN steps /\ steps'[i] = steps[i]
              \/ steps'[i].status = "pending"
<1> USE DEF store
<1>1. CASE SavePlan(d)
  BY <1>1, PlanAssumption, NewStepsType DEF SavePlan, ReplaceSteps
<1>2. CASE AppendNext(d)
  <2>1. cur[d] \in Steps
    BY <1>2 DEF AppendNext, Threads, GoodInv, IInv, FramesInv, Ordered, Holding
  <2> QED  BY <1>2, <2>1, AppendAdds DEF AppendNext, GoodInv, IInv
<1>3. CASE \/ Retry(d) \/ Requeue(d) \/ StartStep(d) \/ StepCompleted(d)
           \/ StepWaiting(d) \/ StepFailed(d)
  BY <1>3 DEF Retry, Requeue, StartStep, StepCompleted, StepWaiting, StepFailed
<1>4. CASE \/ Create(d) \/ Resume(d) \/ Reread(d) \/ Prepare(d) \/ ReadPlan(d)
           \/ PlannerReturns(d) \/ PlannerThrows(d) \/ BeginRun(d)
  BY <1>4 DEF Create, Resume, Reread, Prepare, ReadPlan, PlannerReturns,
              PlannerThrows, BeginRun
<1>5. CASE \/ PickStep(d) \/ NothingReady(d) \/ LimitReached(d) \/ Pause(d)
           \/ CompleteRun(d) \/ ExecutorReturns(d) \/ ExecutorWaits(d)
           \/ ExecutorThrows(d) \/ RunFollows(d) \/ Check(d)
  BY <1>5 DEF PickStep, NothingReady, LimitReached, Pause, CompleteRun,
              ExecutorReturns, ExecutorWaits, ExecutorThrows, RunFollows, Check
<1> QED  BY <1>1, <1>2, <1>3, <1>4, <1>5 DEF Drive, Execute

LEMMA UncancelledStep ==
  ASSUME GoodInv, OnceInv, Uncancelled, [Next]_vars
  PROVE  Uncancelled'
<1>1. CASE UNCHANGED vars
  BY <1>1 DEF Uncancelled, vars, store, aside, counters
<1>2. CASE Crash
  BY <1>2 DEF Crash, Uncancelled, Threads, store
<1>3. ASSUME NEW d \in Drivers, Create(d) \/ Resume(d) \/ Drive(d) PROVE Uncancelled'
  <2> SUFFICES ASSUME cancels = 0
               PROVE  /\ \A o \in Operators : pc'[o] = pc[o]
                      /\ \A i \in DOMAIN steps' : steps'[i].status # "cancelled"
    BY <1>3, DriverRun DEF Uncancelled
  <2>1. \A o \in Operators : pc'[o] = pc[o]
    <3>1. \E label : pc' = [pc EXCEPT ![d] = label]
      BY <1>3, DriverGoes
    <3> QED  BY <3>1, ThreadsAssumption DEF Threads, GoodInv, FrameTypes
  <2>2. \A i \in DOMAIN steps : steps[i].status # "cancelled"
    BY DEF Uncancelled
  <2>3. CASE UNCHANGED steps
    BY <2>1, <2>2, <2>3
  <2>4. ASSUME NEW s, NEW to, to # "cancelled", UpdateStep(s, to)
        PROVE  \A i \in DOMAIN steps' : steps'[i].status # "cancelled"
    <3>1. /\ DOMAIN steps' = DOMAIN steps
          /\ \A i \in DOMAIN steps :
               steps'[i].status = IF steps[i].id = s THEN to ELSE steps[i].status
      BY <2>4, UpdateReads DEF OnceInv
    <3> QED  BY <2>2, <2>4, <3>1
  <2> QED  BY <1>3, <2>1, <2>2, <2>3, <2>4, DriverList
<1>4. ASSUME NEW o \in Operators, Cancel(o) \/ Answer(o) \/ Operate(o) PROVE Uncancelled'
  <2> SUFFICES ASSUME cancels' = 0 PROVE Uncancelled'
    BY DEF Uncancelled
  <2>1. /\ cancels = 0 /\ ~Cancel(o) /\ ~CancelRun(o) /\ ~CancelStep(o)
        /\ \A i \in DOMAIN steps : steps[i].status # "cancelled"
        /\ run # "cancelled"
        /\ \A p \in Operators : pc[p] \notin {"cancel", "cancelSteps"}
    BY <1>4, OperatorRun DEF Uncancelled, CancelRun, CancelStep
  <2>2. CASE Answer(o)
    BY <2>1, <2>2, ThreadsAssumption
       DEF Answer, Pick, store, Uncancelled, Threads, GoodInv, FrameTypes
  <2>3. CASE AnswerRun(o)
    BY <2>1, <2>3, ThreadsAssumption
       DEF AnswerRun, Return, UpdateRun, Uncancelled, Threads, GoodInv, FrameTypes
  <2>4. CASE AnswerStep(o)
    <3>1. /\ UpdateStep(cur[o], "completed") /\ run' = run
          /\ pc' = [pc EXCEPT ![o] = "answered"]
      BY <2>4 DEF AnswerStep, Goto
    <3>2. /\ DOMAIN steps' = DOMAIN steps
          /\ \A i \in DOMAIN steps : steps'[i].status =
               IF steps[i].id = cur[o] THEN "completed" ELSE steps[i].status
      BY <3>1, UpdateReads DEF OnceInv
    <3>3. \A p \in Operators : pc'[p] \notin {"cancel", "cancelSteps"}
      BY <2>1, <3>1 DEF Threads, GoodInv, FrameTypes
    <3> QED  BY <2>1, <3>1, <3>2, <3>3 DEF Uncancelled
  <2> QED  BY <1>4, <2>1, <2>2, <2>3, <2>4 DEF Operate
<1> QED  BY <1>1, <1>2, <1>3, <1>4 DEF Next

\* A step that leaves the driver Between two store calls about its step: then
\* nothing may read Running.
NoneRunning == \A i \in DOMAIN steps : steps[i].status # "running"

LEMMA WhereFrame ==
  ASSUME GoodInv, OneDriver, NEW d \in Drivers, NEW label,
         pc' = [pc EXCEPT ![d] = label],
         label \in Between => NoneRunning',
         label \in Executing =>
           \A i \in DOMAIN steps' : steps'[i].status = "running" => cur'[d] = steps'[i].id,
         label = "requeue" =>
           \A i \in DOMAIN steps' : steps'[i].status = "running" =>
             \E k \in DOMAIN todo'[d] : todo'[d][k] = steps'[i].id
  PROVE  Interrupted'
<1>1. pc'[d] = label /\ \A e \in Drivers : e = d
  BY DEF Threads, GoodInv, FrameTypes, OneDriver
<1> QED  BY <1>1 DEF Interrupted, Where, NoneRunning

\* Calls that have not looked at the list yet, or have returned.
LEMMA WhereOutside ==
  ASSUME GoodInv, OneDriver, NEW d \in Drivers, NEW label,
         pc' = [pc EXCEPT ![d] = label],
         label \notin Between \cup Executing \cup {"requeue"}
  PROVE  Interrupted'
BY WhereFrame

\* Which of the steps read Running after the driver's own store calls.
LEMMA WhereUpdate ==
  ASSUME GoodInv, OnceInv, OneDriver, Interrupted, cancels = 0, NEW d \in Drivers,
         \/ Requeue(d) \/ StartStep(d) \/ StepCompleted(d) \/ StepWaiting(d)
         \/ StepFailed(d)
  PROVE  Interrupted'
<1>1. /\ d \in Threads
      /\ pc \in [Threads -> DriverPc \cup OperatorPc]
      /\ todo \in [Threads -> Seq(Steps)]
  BY DEF Threads, GoodInv, FrameTypes
<1>2. \A i \in DOMAIN steps : steps[i].status = "running" => Where(d, steps[i].id)
  BY DEF Interrupted
<1>3. ASSUME NEW s, NEW to, UpdateStep(s, to)
      PROVE  /\ DOMAIN steps' = DOMAIN steps
             /\ \A i \in DOMAIN steps :
                  /\ steps'[i].id = steps[i].id
                  /\ steps'[i].status = IF steps[i].id = s THEN to ELSE steps[i].status
  BY <1>3, UpdateReads DEF OnceInv
<1>4. CASE Requeue(d)
  <2>1. /\ pc[d] = "requeue" /\ todo[d] # <<>> /\ todo[d] \in Seq(Steps)
        /\ UpdateStep(Head(todo[d]), "pending")
        /\ pc' = [pc EXCEPT ![d] = "requeue"] /\ todo'[d] = Tail(todo[d])
    BY <1>1, <1>4 DEF Requeue, Sweep
  <2>2. /\ DOMAIN steps' = DOMAIN steps
        /\ \A i \in DOMAIN steps :
             /\ steps'[i].id = steps[i].id
             /\ steps'[i].status =
                  IF steps[i].id = Head(todo[d]) THEN "pending" ELSE steps[i].status
    BY <1>3, <2>1
  <2>3. ASSUME NEW i \in DOMAIN steps', steps'[i].status = "running"
        PROVE  \E k \in DOMAIN todo'[d] : todo'[d][k] = steps'[i].id
    <3>1. /\ steps[i].status = "running" /\ steps'[i].id = steps[i].id
          /\ steps[i].id # Head(todo[d])
      BY <2>2, <2>3
    <3>2. PICK k \in DOMAIN todo[d] : todo[d][k] = steps[i].id
      BY <1>2, <2>1, <2>2, <3>1 DEF Where
    <3>3. /\ Len(todo[d]) \in Nat /\ DOMAIN todo[d] = 1 .. Len(todo[d])
          /\ Head(todo[d]) = todo[d][1] /\ Tail(todo[d]) \in Seq(Steps)
          /\ Len(Tail(todo[d])) = Len(todo[d]) - 1
          /\ \A l \in 1 .. Len(Tail(todo[d])) : Tail(todo[d])[l] = todo[d][l + 1]
      BY <2>1, HeadTailProperties, LenProperties
    <3>4. k # 1
      BY <3>1, <3>2, <3>3
    <3>5. k - 1 \in 1 .. Len(Tail(todo[d])) /\ Tail(todo[d])[k - 1] = todo[d][k]
      BY <3>2, <3>3, <3>4
    <3>6. DOMAIN Tail(todo[d]) = 1 .. Len(Tail(todo[d]))
      BY <3>3, LenProperties
    <3> QED  BY <2>1, <3>1, <3>2, <3>5, <3>6
  <2>4. "requeue" \notin Between \cup Executing
    BY DEF Between, Executing
  <2> QED  BY <2>1, <2>3, <2>4, WhereFrame
<1>5. CASE StartStep(d)
  <2>1. /\ pc[d] = "start" /\ UpdateStep(cur[d], "running")
        /\ pc' = [pc EXCEPT ![d] = "execute"] /\ cur' = cur
    BY <1>5 DEF StartStep, Goto, local
  <2>2. \A i \in DOMAIN steps : steps[i].status # "running"
    BY <1>2, <2>1 DEF Where, Between
  <2>3. \A i \in DOMAIN steps' : steps'[i].status = "running" => cur'[d] = steps'[i].id
    BY <1>3, <2>1, <2>2
  <2>4. "execute" \notin Between \cup {"requeue"}
    BY DEF Between
  <2> QED  BY <2>1, <2>3, <2>4, WhereFrame
<1>6. CASE StepCompleted(d) \/ StepWaiting(d) \/ StepFailed(d)
  <2>1. PICK to \in {"completed", "waiting", "failed"},
             label \in {"check", "append", "runWaiting", "runFailed"} :
          UpdateStep(cur[d], to) /\ pc' = [pc EXCEPT ![d] = label]
    BY <1>6 DEF StepCompleted, StepWaiting, StepFailed, Goto
  <2>2. pc[d] \in Executing
    BY <1>6 DEF StepCompleted, StepWaiting, StepFailed, Executing
  <2>3. \A i \in DOMAIN steps : steps[i].status = "running" => steps[i].id = cur[d]
    BY <1>2, <2>2 DEF Where
  <2>4. /\ DOMAIN steps' = DOMAIN steps
        /\ \A i \in DOMAIN steps :
             steps'[i].status = IF steps[i].id = cur[d] THEN to ELSE steps[i].status
    BY <1>3, <2>1
  <2>5. NoneRunning'
    BY <2>3, <2>4 DEF NoneRunning
  <2> QED  BY <2>1, <2>5, WhereFrame DEF Executing, NoneRunning
<1> QED  BY <1>4, <1>5, <1>6

LEMMA WhereQuiet ==
  ASSUME GoodInv, OnceInv, OneDriver, Closed, Uncancelled, Interrupted, cancels = 0,
         NEW d \in Drivers,
         \/ Prepare(d) \/ ReadPlan(d) \/ BeginRun(d) \/ PickStep(d) \/ NothingReady(d)
         \/ ExecutorReturns(d) \/ ExecutorWaits(d) \/ ExecutorThrows(d)
         \/ AppendNext(d) \/ RunFollows(d) \/ Check(d)
  PROVE  Interrupted'
<1>1. /\ d \in Threads
      /\ pc \in [Threads -> DriverPc \cup OperatorPc]
      /\ todo \in [Threads -> Seq(Steps)]
  BY DEF Threads, GoodInv, FrameTypes
<1>2. \A i \in DOMAIN steps : steps[i].status = "running" => Where(d, steps[i].id)
  BY DEF Interrupted
<1>3. ASSUME NEW label, label \notin Between \cup Executing \cup {"requeue"}, Goto(d, label)
      PROVE  Interrupted'
  BY <1>3, WhereOutside DEF Goto
<1>4. ASSUME NEW ids \in IdsIn({"running"}), Sweep(d, "requeue", ids), UNCHANGED steps
      PROVE  Interrupted'
  <2>1. pc' = [pc EXCEPT ![d] = "requeue"] /\ todo'[d] = ids
    BY <1>1, <1>4 DEF Sweep
  <2>2. \A i \in DOMAIN steps' : steps'[i].status = "running" =>
          \E k \in DOMAIN todo'[d] : todo'[d][k] = steps'[i].id
    <3>1. \A i \in DOMAIN steps : steps[i].status \in {"running"} =>
            \E k \in DOMAIN ids : ids[k] = steps[i].id
      BY <1>4, IdsInFacts DEF GoodInv, IInv, StepsInv
    <3> QED  BY <1>4, <2>1, <3>1
  <2>3. "requeue" \notin Between \cup Executing
    BY DEF Between, Executing
  <2> QED  BY <2>1, <2>2, <2>3, WhereFrame
<1>5. CASE Prepare(d)
  <2>1. run \notin {"completed", "cancelled"}
    BY <1>5 DEF Prepare, Closed, Uncancelled
  <2> QED  BY <1>3, <1>4, <1>5, <2>1 DEF Prepare, Between, Executing, store
<1>6. CASE ReadPlan(d)
  BY <1>3, <1>4, <1>6 DEF ReadPlan, Between, Executing, store
<1>7. CASE ExecutorReturns(d) \/ ExecutorWaits(d) \/ ExecutorThrows(d)
  <2>1. PICK label \in {"completed", "waiting", "failed"} : pc' = [pc EXCEPT ![d] = label]
    BY <1>7 DEF ExecutorReturns, ExecutorWaits, ExecutorThrows, Goto
  <2>2. pc[d] = "execute" /\ cur' = cur /\ steps' = steps
    BY <1>7 DEF ExecutorReturns, ExecutorWaits, ExecutorThrows, Goto, store, local
  <2>3. \A i \in DOMAIN steps : steps[i].status = "running" => cur[d] = steps[i].id
    BY <1>2, <2>2 DEF Where, Executing
  <2>4. label \notin Between \cup {"requeue"}
    BY DEF Between
  <2> QED  BY <2>1, <2>2, <2>3, <2>4, WhereFrame
\* What follows goes on from a place where nothing reads Running.
<1>8. CASE \/ BeginRun(d) \/ PickStep(d) \/ NothingReady(d)
           \/ AppendNext(d) \/ RunFollows(d) \/ Check(d)
  <2>1. PICK label \in Between \cup {"idle"} : pc' = [pc EXCEPT ![d] = label]
    BY <1>8 DEF BeginRun, PickStep, NothingReady, AppendNext, RunFollows, Check,
                Goto, Pick, Return, Between
  <2>2. NoneRunning
    <3>1. CASE BeginRun(d)
      <4>1. pc[d] = "requeue" /\ DOMAIN todo[d] = {}
        BY <3>1, EmptySeq DEF BeginRun
      <4> QED  BY <1>2, <4>1 DEF NoneRunning, Where
    <3>2. CASE \/ PickStep(d) \/ NothingReady(d) \/ AppendNext(d)
               \/ RunFollows(d) \/ Check(d)
      <4>1. pc[d] \in Between
        BY <3>2 DEF PickStep, NothingReady, AppendNext, RunFollows, Check, Between
      <4> QED  BY <1>2, <4>1 DEF NoneRunning, Where
    <3> QED  BY <1>8, <3>1, <3>2
  <2>3. NoneRunning'
    <3>1. CASE AppendNext(d)
      <4>1. cur[d] \in Steps
        BY <1>1, <3>1 DEF AppendNext, GoodInv, IInv, FramesInv, Ordered, Holding
      <4>2. \A i \in DOMAIN steps' :
              \/ i \in DOMAIN steps /\ steps'[i] = steps[i]
              \/ steps'[i].status = "pending"
        BY <3>1, <4>1, AppendAdds DEF AppendNext, GoodInv, IInv
      <4> QED  BY <2>2, <4>2 DEF NoneRunning
    <3>2. CASE ~AppendNext(d)
      <4>1. steps' = steps
        BY <1>8, <3>2 DEF BeginRun, PickStep, NothingReady, RunFollows, Check, store
      <4> QED  BY <2>2, <4>1 DEF NoneRunning
    <3> QED  BY <3>1, <3>2
  <2>4. label \notin Executing \cup {"requeue"}
    BY DEF Between, Executing
  <2> QED  BY <2>1, <2>3, <2>4, WhereFrame
<1> QED  BY <1>5, <1>6, <1>7, <1>8

LEMMA InterruptedStep ==
  ASSUME GoodInv, OnceInv, OneDriver, Closed, Uncancelled, Interrupted, [Next]_vars
  PROVE  Interrupted'
<1>1. CASE UNCHANGED vars
  BY <1>1 DEF Interrupted, Where, vars, store, local, aside, counters
<1>2. CASE Crash
  BY <1>2 DEF Crash, Interrupted, Where, Between, Executing, Threads, store
<1>3. ASSUME NEW d \in Drivers, Create(d) \/ Resume(d) \/ Drive(d) PROVE Interrupted'
  <2> SUFFICES ASSUME cancels = 0 PROVE Interrupted'
    BY <1>3, DriverRun DEF Interrupted
  <2>1. CASE \/ Requeue(d) \/ StartStep(d) \/ StepCompleted(d) \/ StepWaiting(d)
             \/ StepFailed(d)
    BY <2>1, WhereUpdate
  <2>2. CASE \/ Prepare(d) \/ ReadPlan(d) \/ BeginRun(d) \/ PickStep(d)
             \/ NothingReady(d) \/ ExecutorReturns(d) \/ ExecutorWaits(d)
             \/ ExecutorThrows(d) \/ AppendNext(d) \/ RunFollows(d) \/ Check(d)
    BY <2>2, WhereQuiet
  <2>3. CASE \/ Create(d) \/ Resume(d) \/ Retry(d) \/ Reread(d) \/ PlannerReturns(d)
             \/ PlannerThrows(d) \/ SavePlan(d) \/ LimitReached(d) \/ Pause(d)
             \/ CompleteRun(d)
    <3>1. PICK label \in {"idle", "prepare", "retry", "reread", "planned", "plan"} :
            pc' = [pc EXCEPT ![d] = label]
      BY <2>3 DEF Create, Resume, Retry, Reread, PlannerReturns, PlannerThrows,
                  SavePlan, LimitReached, Pause, CompleteRun, Goto, Pick, Return
    <3>2. label \notin Between \cup Executing \cup {"requeue"}
      BY DEF Between, Executing
    <3> QED  BY <3>1, <3>2, WhereOutside
  <2> QED  BY <1>3, <2>1, <2>2, <2>3 DEF Drive, Execute
<1>4. ASSUME NEW o \in Operators, Cancel(o) \/ Answer(o) \/ Operate(o) PROVE Interrupted'
  <2>1. /\ cancels' = 0 => cancels = 0
        /\ \A d \in Drivers : pc'[d] = pc[d] /\ cur'[d] = cur[d] /\ todo'[d] = todo[d]
    BY <1>4, OperatorRun
  <2>2. \A i \in DOMAIN steps' : steps'[i].status = "running" =>
          i \in DOMAIN steps /\ steps[i].status = "running" /\ steps'[i].id = steps[i].id
    BY <1>4, OperatorList, UpdateReads DEF OnceInv
  <2>3. \A d \in Drivers, s \in Steps : Where(d, s) => Where(d, s)'
    BY <2>1 DEF Where
  <2> QED  BY <2>1, <2>2, StepIds DEF Interrupted, Where, GoodInv, IInv
<1> QED  BY <1>1, <1>2, <1>3, <1>4 DEF Next

\* A late answer completes a step once more: nothing changes.
LEMMA AnsweredAgain ==
  ASSUME GoodInv, NEW s, UpdateStep(s, "completed"), Reads(s, {"completed"})
  PROVE  steps' = steps
<1>1. /\ Len(steps) \in Nat /\ steps = [i \in 1 .. Len(steps) |-> steps[i]]
      /\ DOMAIN steps = 1 .. Len(steps)
      /\ \A i \in DOMAIN steps : steps[i] \in StepRecords
  BY LenProperties, ElementOfSeq DEF GoodInv, IInv, StepsInv
<1>2. ASSUME NEW i \in DOMAIN steps, IsFirst(i, s)
      PROVE  [steps[i] EXCEPT !.status = "completed"] = steps[i]
  <2>1. steps[i].status = "completed"
    BY <1>2 DEF IsFirst, Reads
  <2> QED  BY <1>1, <2>1 DEF StepRecords
<1>3. steps' = [i \in 1 .. Len(steps) |->
                  IF IsFirst(i, s) THEN [steps[i] EXCEPT !.status = "completed"]
                                   ELSE steps[i]]
  BY <1>1 DEF UpdateStep
<1>4. steps' = [i \in 1 .. Len(steps) |-> steps[i]]
  BY <1>1, <1>2, <1>3
<1> QED  BY <1>1, <1>4

LEMMA LeftSame ==
  ASSUME steps' = steps
  PROVE  Left' = Left
BY DEF Left, Ready, DependenciesCompleted, IsFirst

LEMMA ExhaustedStep ==
  ASSUME GoodInv, OnceInv, OneDriver, Closed, Uncancelled, Interrupted, Exhausted,
         [Next]_vars
  PROVE  Exhausted'
<1>1. CASE UNCHANGED vars
  <2>1. steps' = steps /\ cancels' = cancels /\ run' = run /\ pc' = pc
    BY <1>1 DEF vars, store, aside, counters
  <2> QED  BY <2>1, LeftSame DEF Exhausted
<1>2. CASE Crash
  <2>1. /\ steps' = steps /\ cancels' = cancels /\ run' = run
        /\ \A d \in Drivers : pc'[d] = "idle"
    BY <1>2 DEF Crash, store, Threads
  <2> QED  BY <2>1, LeftSame DEF Exhausted
<1>3. ASSUME NEW d \in Drivers, Create(d) \/ Resume(d) \/ Drive(d) PROVE Exhausted'
  <2> SUFFICES ASSUME cancels' = 0,
                      run' = "completed" \/ \E e \in Drivers : pc'[e] = "complete"
               PROVE  ~Left'
    BY DEF Exhausted
  <2>1. cancels = 0 /\ \A e \in Drivers : e = d
    BY <1>3, DriverRun DEF OneDriver
  <2>2. CASE run' = "completed"
    <3>1. CompleteRun(d)
      BY <1>3, <2>2, DriverRun DEF Closed
    <3>2. pc[d] = "complete" /\ steps' = steps
      BY <3>1 DEF CompleteRun
    <3> QED  BY <2>1, <3>2, LeftSame DEF Exhausted
  <2>3. CASE pc'[d] = "complete"
    <3>1. NothingReady(d) /\ ~AnyWaiting
      <4>1. \A label : pc' = [pc EXCEPT ![d] = label] => label = "complete"
        BY <2>3 DEF Threads, GoodInv, FrameTypes
      <4>2. ~(Create(d) \/ Resume(d) \/ Retry(d) \/ Reread(d) \/ Prepare(d) \/ ReadPlan(d))
        BY <4>1 DEF Create, Resume, Retry, Reread, Prepare, ReadPlan, Goto, Sweep, Pick, Return
      <4>3. ~(\/ PlannerReturns(d) \/ PlannerThrows(d) \/ SavePlan(d)
              \/ Requeue(d) \/ BeginRun(d) \/ PickStep(d))
        BY <4>1 DEF PlannerReturns, PlannerThrows, SavePlan, Requeue, BeginRun,
                    PickStep, Goto, Sweep, Pick, Return
      <4>4. ~(LimitReached(d) \/ Pause(d) \/ CompleteRun(d))
        BY <4>1 DEF LimitReached, Pause, CompleteRun, Return
      <4>5. ~Execute(d)
        BY <4>1 DEF Execute, StartStep, ExecutorReturns, ExecutorWaits, ExecutorThrows,
                    StepCompleted, AppendNext, StepWaiting, StepFailed, RunFollows,
                    Check, Goto, Return
      <4>6. NothingReady(d)
        BY <1>3, <4>2, <4>3, <4>4, <4>5 DEF Drive
      <4> QED  BY <4>1, <4>6 DEF NothingReady, Goto
    <3>2. steps' = steps /\ pc[d] = "loop" /\ \A i \in DOMAIN steps : ~Ready(i)
      BY <3>1 DEF NothingReady, store
    <3>3. \A i \in DOMAIN steps : steps[i].status # "running"
      BY <2>1, <3>2 DEF Interrupted, Where, Between
    <3>4. ~Left
      BY <3>1, <3>2, <3>3 DEF Left, AnyWaiting
    <3> QED  BY <3>2, <3>4, LeftSame
  <2> QED  BY <2>1, <2>2, <2>3
<1>4. ASSUME NEW o \in Operators, Cancel(o) \/ Answer(o) \/ Operate(o) PROVE Exhausted'
  <2> SUFFICES ASSUME cancels' = 0,
                      run' = "completed" \/ \E e \in Drivers : pc'[e] = "complete"
               PROVE  ~Left'
    BY DEF Exhausted
  <2>1. /\ cancels = 0
        /\ run = "completed" \/ \E e \in Drivers : pc[e] = "complete"
    BY <1>4, OperatorRun
  <2>2. ~Left
    BY <2>1 DEF Exhausted
  <2>3. CASE UNCHANGED steps
    BY <2>2, <2>3, LeftSame
  <2>4. CASE AnswerStep(o) /\ UpdateStep(cur[o], "completed")
    <3>1. Reads(cur[o], {"waiting", "completed", "cancelled"})
      BY <2>4 DEF AnswerStep, OnceInv, Answered
    <3>2. Reads(cur[o], {"completed"})
      BY <2>1, <2>2, <3>1 DEF Reads, Left, Uncancelled
    <3> QED  BY <2>2, <2>4, <3>2, AnsweredAgain, LeftSame
  <2>5. ~CancelStep(o)
    BY <2>1 DEF CancelStep, Uncancelled
  <2> QED  BY <1>4, <2>3, <2>4, <2>5, OperatorList
<1> QED  BY <1>1, <1>2, <1>3, <1>4 DEF Next

\* With one driver at a time and plans that do not use an id twice: as long as
\* nobody has cancelled, a run that reads Completed has no step that is executed,
\* waits or could be executed, whatever was interrupted, re-queued, retried,
\* answered or appended on the way.
THEOREM CompletedRunIsExhausted ==
  ASSUME OneDriver, DistinctIds
  PROVE  Spec => []CompletedIsExhausted
<1> DEFINE Inv == GoodInv /\ OnceInv /\ ExhaustInv
<1>1. Init => Inv
  BY GoodInit, OnceInit, ExhaustInit
<1>2. Inv /\ [Next]_vars => Inv'
  <2> SUFFICES ASSUME Inv, [Next]_vars PROVE Inv'
    OBVIOUS
  <2>1. GoodInv' /\ OnceInv'
    BY GoodStep, OnceStep
  <2>2. Closed' /\ Uncancelled'
    BY ClosedStep, UncancelledStep DEF ExhaustInv
  <2>3. Interrupted' /\ Exhausted'
    BY InterruptedStep, ExhaustedStep DEF ExhaustInv
  <2> QED  BY <2>1, <2>2, <2>3 DEF ExhaustInv
<1>3. Inv => CompletedIsExhausted
  BY DEF ExhaustInv, Exhausted, Left, CompletedIsExhausted
<1> QED  BY <1>1, <1>2, <1>3, PTL DEF Spec
=============================================================================
