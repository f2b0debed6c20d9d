-------------------------- MODULE TaskWorkerProofs --------------------------
(***************************************************************************)
(* Theorems about TaskWorker, for every set of tasks, workers and clients  *)
(* and every bound.                                                        *)
(***************************************************************************)
EXTENDS TaskWorker, TaskQueueProofs

-----------------------------------------------------------------------------
(* Types.  A thread inside run_once() holds a task, and a client inside a  *)
(* route serves one: without this the updates at held[w] and call[c].task  *)
(* could not be shown to stay within the store.                            *)

FrameOK ==
  /\ \A w \in Workers : pc[w] # "idle" => held[w] \in Tasks
  /\ \A c \in Clients : call[c].op # "idle" => call[c].task \in Tasks

TypeInv == TypeOK /\ FrameOK

USE DEF Location

LEMMA TypeInit == Init => TypeInv
<1> SUFFICES ASSUME Init PROVE TypeInv
  OBVIOUS
<1>1. QueueTypeOK
  BY PreloadedAssumption DEF Init, QueueInit, QueueTypeOK, TaskStatus
<1>2. TypeOK
  BY <1>1, BoundsAssumption DEF Init, TypeOK, Idle, Route
<1>3. FrameOK
  BY DEF Init, FrameOK, Idle
<1> QED  BY <1>2, <1>3 DEF TypeInv

\* The frame of a worker moves on and the store and the queue do not.
LEMMA TypeClaim ==
  ASSUME TypeInv, NEW w \in Workers, Claim(w)
  PROVE  TypeInv'
<1>1. PICK t \in Tasks :
        /\ QueueClaim(t)
        /\ held' = [held EXCEPT ![w] = t]
        /\ attempt' = [attempt EXCEPT ![w] = Len(runs[t]) + 1]
  BY DEF Claim
<1>2. QueueTypeOK'
  BY <1>1, QueueClaimType DEF TypeInv, TypeOK
<1>3. Len(runs[t]) \in Nat
  BY DEF TypeInv, TypeOK, QueueTypeOK
<1>4. TypeOK'
  BY <1>1, <1>2, <1>3 DEF TypeInv, TypeOK, Claim, Goto, worker, bounds
<1>5. FrameOK'
  BY <1>1 DEF TypeInv, TypeOK, FrameOK, Claim, Goto
<1> QED  BY <1>4, <1>5 DEF TypeInv

LEMMA TypeRunOnce ==
  ASSUME TypeInv, NEW w \in Workers, RunOnce(w)
  PROVE  TypeInv'
<1> USE DEF TypeInv, TypeOK, FrameOK, Goto, tasks, worker, frames, bounds
<1>1. CASE Claim(w)
  BY <1>1, TypeClaim
<1>2. CASE Register(w)
  BY <1>2 DEF Register, QueueTypeOK
<1>3. CASE HandlerReturns(w) \/ HandlerThrows(w)
  BY <1>3 DEF HandlerReturns, HandlerThrows, QueueTypeOK
<1>4. CASE CheckReturned(w) \/ CheckThrown(w)
  BY <1>4 DEF CheckReturned, CheckThrown, QueueTypeOK
<1>5. CASE SaveOutput(w)
  BY <1>5 DEF SaveOutput, QueueTypeOK
<1>6. CASE Complete(w) \/ Fail(w)
  <2>1. QueueTypeOK'
    BY <1>6, QueueSettleType DEF Complete, Fail, Settle
  <2> QED  BY <1>6, <2>1 DEF Complete, Fail, Settle
<1>7. CASE CancelClaimed(w)
  <2>1. QueueTypeOK'
    BY <1>7, QueueCancelType DEF CancelClaimed
  <2> QED  BY <1>7, <2>1 DEF CancelClaimed
<1>8. CASE ClearCancelled(w)
  BY <1>8 DEF ClearCancelled, QueueTypeOK
<1>9. CASE Unregister(w)
  BY <1>9 DEF Unregister, QueueTypeOK
<1> QED  BY <1>1, <1>2, <1>3, <1>4, <1>5, <1>6, <1>7, <1>8, <1>9 DEF RunOnce

LEMMA TypeHandler ==
  ASSUME TypeInv, NEW w \in Workers, Heartbeat(w) \/ HandlerThrowsForeign(w)
  PROVE  TypeInv'
<1> USE DEF TypeInv, TypeOK, FrameOK, tasks, worker, frames, bounds
<1>1. CASE Heartbeat(w)
  <2>1. QueueTypeOK'
    BY <1>1, QueueHeartbeatType DEF Heartbeat
  <2> QED  BY <1>1, <2>1 DEF Heartbeat
<1>2. CASE HandlerThrowsForeign(w)
  BY <1>2 DEF HandlerThrowsForeign, Goto, QueueTypeOK
<1> QED  BY <1>1, <1>2

LEMMA TypeRoutes ==
  ASSUME TypeInv, NEW c \in Clients,
         RouteStep(c) \/ \E t \in Tasks : Request(c, t)
  PROVE  TypeInv'
<1> USE DEF TypeInv, TypeOK, FrameOK, tasks, worker, frames, bounds, Route, Idle
<1>1. CASE Enqueue(c)
  <2>1. QueueTypeOK'
    BY <1>1, QueueEnqueueType DEF Enqueue, Leave
  <2> QED  BY <1>1, <2>1 DEF Enqueue, Leave
<1>2. CASE ResumeUpdate(c)
  <2>1. QueueTypeOK'
    BY <1>2, StoreUpdateType DEF ResumeUpdate, TaskStatus
  <2> QED  BY <1>2, <2>1 DEF ResumeUpdate
<1>3. CASE CancelQueue(c)
  <2>1. QueueTypeOK'
    BY <1>3, QueueCancelType DEF CancelQueue, Leave
  <2> QED  BY <1>3, <2>1 DEF CancelQueue, Leave
<1>4. ASSUME NEW t \in Tasks, Create(c, t)
      PROVE  TypeInv'
  <2>1. QueueTypeOK'
    BY <1>4, StoreCreateType DEF Create
  <2> QED  BY <1>4, <2>1 DEF Create, Enter
<1>5. ASSUME NEW t \in Tasks, ResumeCheck(c, t)
      PROVE  TypeInv'
  BY <1>5, BoundsAssumption DEF ResumeCheck, Enter, QueueTypeOK
<1>6. ASSUME NEW t \in Tasks, CancelMark(c, t)
      PROVE  TypeInv'
  BY <1>6 DEF CancelMark, Enter, QueueTypeOK
<1>7. ASSUME NEW t \in Tasks, CancelDetached(c, t)
      PROVE  TypeInv'
  <2>1. QueueTypeOK'
    BY <1>7, QueueCancelType DEF CancelDetached
  <2> QED  BY <1>7, <2>1 DEF CancelDetached
<1> QED  BY <1>1, <1>2, <1>3, <1>4, <1>5, <1>6, <1>7 DEF RouteStep, Request

LEMMA TypeFailure ==
  ASSUME TypeInv, Failure
  PROVE  TypeInv'
<1>1. Restart
  BY DEF Failure, Crash, TornClaim, TornSettle, TornCancel
<1>2. FrameOK'
  BY <1>1 DEF Restart, FrameOK, Idle
<1>3. QueueTypeOK'
  <2>1. queue' \in Seq(Tasks)
    BY <1>1 DEF Restart
  <2>2. CASE Crash
    BY <2>1, <2>2 DEF Crash, QueueTypeOK, TypeInv, TypeOK
  <2>3. ASSUME NEW t \in Tasks, TornClaim(t)
        PROVE  QueueTypeOK'
    BY <2>1, <2>3 DEF TornClaim, QueueTypeOK, TypeInv, TypeOK, TaskStatus
  <2>4. ASSUME NEW w \in Workers, NEW outcome \in {"completed", "failed"},
               NEW from \in {"completing", "failing"}, TornSettle(w, from, outcome)
        PROVE  QueueTypeOK'
    <3>1. held[w] \in Tasks /\ attempt[w] \in Nat
      BY <2>4 DEF TornSettle, TypeInv, TypeOK, FrameOK
    <3>2. [runs[held[w]] EXCEPT ![attempt[w]] = outcome] \in Seq(RunStatus)
      BY <3>1, UpdateRunType DEF TypeInv, TypeOK, QueueTypeOK, RunStatus
    <3>3. runs' = [runs EXCEPT ![held[w]] =
                     [runs[held[w]] EXCEPT ![attempt[w]] = outcome]]
      BY <2>4 DEF TornSettle
    <3> QED  BY <2>1, <2>4, <3>2, <3>3 DEF TornSettle, TypeInv, TypeOK, QueueTypeOK
  <2>5. ASSUME NEW t \in Tasks, NEW k \in DOMAIN runs[t], TornCancel(t, k)
        PROVE  QueueTypeOK'
    <3> DEFINE torn == [n \in DOMAIN runs[t] |->
                          IF n < k THEN CancelRuns(runs[t])[n] ELSE runs[t][n]]
    <3>1. runs[t] \in Seq(RunStatus)
      BY DEF TypeInv, TypeOK, QueueTypeOK
    <3>2. torn \in [1 .. Len(runs[t]) -> RunStatus] /\ Len(runs[t]) \in Nat
      BY <3>1 DEF CancelRuns, RunStatus
    <3>3. torn \in Seq(RunStatus)
      BY <3>2
    <3>4. runs' = [runs EXCEPT ![t] = torn]
      BY <2>5 DEF TornCancel
    <3> QED  BY <2>1, <2>5, <3>3, <3>4 DEF TornCancel, TypeInv, TypeOK, QueueTypeOK, TaskStatus
  <2> QED  BY <2>2, <2>3, <2>4, <2>5 DEF Failure
<1>4. TypeOK'
  BY <1>1, <1>3, BoundsAssumption DEF Restart, TypeInv, TypeOK, Idle, Route
<1> QED  BY <1>2, <1>4 DEF TypeInv

LEMMA TypeStep == TypeInv /\ [Next]_vars => TypeInv'
<1> SUFFICES ASSUME TypeInv, [Next]_vars PROVE TypeInv'
  OBVIOUS
<1>1. CASE UNCHANGED vars
  BY <1>1 DEF TypeInv, TypeOK, QueueTypeOK, FrameOK, vars
<1>2. CASE Next
  BY <1>2, TypeRunOnce, TypeHandler, TypeRoutes, TypeFailure DEF Next
<1> QED  BY <1>1, <1>2

\* Every state of the task runtime is well typed: no operation of the queue, the
\* worker or the routes, and no crash, writes a status, a run or a deque entry
\* that the store could not hold.
THEOREM TypeCorrect == Spec => []TypeOK
<1>1. Init => TypeInv
  BY TypeInit
<1>2. TypeInv /\ [Next]_vars => TypeInv'
  BY TypeStep
<1>3. TypeInv => TypeOK
  BY DEF TypeInv
<1> QED  BY <1>1, <1>2, <1>3, PTL DEF Spec
-----------------------------------------------------------------------------
(* Tokens.  Both statements about active_cancellations_ are inductive once *)
(* they are taken together with the types: an entry that names an idle or  *)
(* just claimed frame would survive its registration, and only the frame's *)
(* own entry is erased when it leaves.                                     *)

TokenInv == TypeInv /\ NoDanglingToken /\ CancelReachesActive

LEMMA TokenInit == Init => TokenInv
<1> SUFFICES ASSUME Init PROVE NoDanglingToken /\ CancelReachesActive
  BY TypeInit DEF TokenInv
<1>1. \A t \in Tasks, w \in Workers : active[t] # w
  BY NoneAssumption DEF Init
<1> QED  BY <1>1 DEF NoDanglingToken, CancelReachesActive

LEMMA TokenRunOnce ==
  ASSUME TokenInv, NEW w \in Workers, RunOnce(w)
  PROVE  NoDanglingToken' /\ CancelReachesActive'
<1> USE NoneAssumption
        DEF TokenInv, TypeInv, TypeOK, FrameOK, NoDanglingToken,
            CancelReachesActive, Goto, tasks, worker
<1>1. CASE Claim(w)
  <2>1. PICK t \in Tasks : held' = [held EXCEPT ![w] = t]
    BY <1>1 DEF Claim
  <2> QED  BY <1>1, <2>1 DEF Claim
<1>2. CASE Register(w)
  BY <1>2 DEF Register
<1>3. CASE HandlerReturns(w) \/ HandlerThrows(w)
  BY <1>3 DEF HandlerReturns, HandlerThrows
<1>4. CASE CheckReturned(w) \/ CheckThrown(w)
  BY <1>4 DEF CheckReturned, CheckThrown
<1>5. CASE SaveOutput(w)
  BY <1>5 DEF SaveOutput
<1>6. CASE Complete(w) \/ Fail(w)
  BY <1>6 DEF Complete, Fail, Settle
<1>7. CASE CancelClaimed(w)
  BY <1>7 DEF CancelClaimed
<1>8. CASE ClearCancelled(w)
  BY <1>8 DEF ClearCancelled
<1>9. CASE Unregister(w)
  BY <1>9 DEF Unregister
<1> QED  BY <1>1, <1>2, <1>3, <1>4, <1>5, <1>6, <1>7, <1>8, <1>9 DEF RunOnce

LEMMA TokenRoutes ==
  ASSUME TokenInv, NEW c \in Clients,
         RouteStep(c) \/ \E t \in Tasks : Request(c, t)
  PROVE  NoDanglingToken' /\ CancelReachesActive'
<1> USE DEF TokenInv, TypeInv, TypeOK, FrameOK, NoDanglingToken,
            CancelReachesActive, tasks, worker, frames
<1>1. CASE RouteStep(c)
  BY <1>1 DEF RouteStep, Enqueue, ResumeUpdate, CancelQueue
<1>2. ASSUME NEW t \in Tasks,
             Create(c, t) \/ ResumeCheck(c, t) \/ CancelDetached(c, t)
      PROVE  NoDanglingToken' /\ CancelReachesActive'
  BY <1>2 DEF Create, ResumeCheck, CancelDetached
<1>3. ASSUME NEW t \in Tasks, CancelMark(c, t)
      PROVE  NoDanglingToken' /\ CancelReachesActive'
  BY <1>3 DEF CancelMark
<1> QED  BY <1>1, <1>2, <1>3 DEF Request

LEMMA TokenStep == TokenInv /\ [Next]_vars => TokenInv'
<1> SUFFICES ASSUME TokenInv, [Next]_vars
             PROVE  NoDanglingToken' /\ CancelReachesActive'
  BY TypeStep DEF TokenInv
<1>1. CASE UNCHANGED vars
  BY <1>1 DEF TokenInv, NoDanglingToken, CancelReachesActive, vars
<1>2. ASSUME NEW w \in Workers, RunOnce(w)
      PROVE  NoDanglingToken' /\ CancelReachesActive'
  BY <1>2, TokenRunOnce
<1>3. ASSUME NEW w \in Workers, Heartbeat(w) \/ HandlerThrowsForeign(w)
      PROVE  NoDanglingToken' /\ CancelReachesActive'
  BY <1>3 DEF Heartbeat, HandlerThrowsForeign, Goto, worker, frames, TokenInv,
              TypeInv, TypeOK, NoDanglingToken, CancelReachesActive
<1>4. ASSUME NEW c \in Clients, RouteStep(c) \/ \E t \in Tasks : Request(c, t)
      PROVE  NoDanglingToken' /\ CancelReachesActive'
  BY <1>4, TokenRoutes
<1>5. CASE Failure
  <2>1. Restart
    BY <1>5 DEF Failure, Crash, TornClaim, TornSettle, TornCancel
  <2>2. \A t \in Tasks, w \in Workers : active'[t] # w
    BY <2>1, NoneAssumption DEF Restart
  <2> QED  BY <2>2 DEF NoDanglingToken, CancelReachesActive
<1> QED  BY <1>1, <1>2, <1>3, <1>4, <1>5 DEF Next

\* What the worker object says about cancellation is true, for any number of
\* threads, double claims, foreign exceptions and crashes: a token registered
\* in active_cancellations_ is that of a live frame, and the one registered for
\* a marked task has been fired, whichever of mark_cancelled and
\* register_active_token came first.
THEOREM CancelsReach == Spec => []TokensSound
<1>1. TokenInv => TokensSound
  BY DEF TokenInv, TokensSound
<1> QED  BY <1>1, TokenInit, TokenStep, PTL DEF Spec
-----------------------------------------------------------------------------
(* Attempts.  complete() and fail() write the run they were claimed with   *)
(* whatever its status, and heartbeat() sets it back to Running: an        *)
(* outcome is final only because two frames never share an attempt, even   *)
(* when they share a task, and because a frame settles its attempt last.   *)

Unsettled == {"claimed", "handler", "returned", "threw",
              "output", "completing", "failing", "cancelling"}

AttemptInv ==
  /\ \A w \in Workers :
       pc[w] # "idle" => attempt[w] \in DOMAIN runs[held[w]]
  /\ \A v, w \in Workers :
       v # w /\ pc[v] # "idle" /\ pc[w] # "idle" /\ held[v] = held[w]
         => attempt[v] # attempt[w]
  /\ \A w \in Workers :
       pc[w] \in Unsettled =>
         runs[held[w]][attempt[w]] \in {"running", "cancelled"}

\* What the store holds of a completed attempt and of a Completed task.
RecordInv ==
  /\ \A w \in Workers :
       pc[w] = "completing" => attempt[w] \in outputs[held[w]]
  /\ \A t \in Tasks : \A n \in DOMAIN runs[t] :
       runs[t][n] = "completed" => n \in outputs[t]
  /\ \A t \in Tasks :
       status[t] = "completed" =>
         \E n \in DOMAIN runs[t] : runs[t][n] = "completed"

\* What one step may do to the attempts of the store.
RunsKept ==
  \A t \in Tasks : \A n \in DOMAIN runs[t] :
    /\ n \in DOMAIN runs'[t]
    /\ runs[t][n] \in {"completed", "failed"} => runs'[t][n] = runs[t][n]

\* cancel(t): the same attempts, and only running ones change.
LEMMA CancelKeeps ==
  ASSUME TypeInv, NEW t \in Tasks, QueueCancel(t)
  PROVE  /\ \A u \in Tasks : DOMAIN runs'[u] = DOMAIN runs[u]
         /\ \A u \in Tasks : \A n \in DOMAIN runs[u] :
              \/ runs'[u][n] = runs[u][n]
              \/ runs[u][n] = "running" /\ runs'[u][n] = "cancelled"
BY DEF TypeInv, TypeOK, QueueTypeOK, QueueCancel, CancelRuns

\* The write of one frame's attempt touches no other attempt.
LEMMA UpdateKeeps ==
  ASSUME TypeInv, AttemptInv, NEW w \in Workers, pc[w] # "idle", NEW s,
         runs' = [runs EXCEPT ![held[w]][attempt[w]] = s]
  PROVE  /\ \A u \in Tasks : DOMAIN runs'[u] = DOMAIN runs[u]
         /\ \A u \in Tasks : \A n \in DOMAIN runs[u] :
              \/ runs'[u][n] = runs[u][n]
              \/ u = held[w] /\ n = attempt[w]
         /\ runs'[held[w]][attempt[w]] = s
<1>1. held[w] \in Tasks /\ attempt[w] \in DOMAIN runs[held[w]]
  BY DEF TypeInv, FrameOK, AttemptInv
<1>2. runs \in [Tasks -> Seq(RunStatus)]
  BY DEF TypeInv, TypeOK, QueueTypeOK
<1>3. runs' = [runs EXCEPT ![held[w]] = [runs[held[w]] EXCEPT ![attempt[w]] = s]]
  OBVIOUS
<1> QED  BY <1>1, <1>2, <1>3

\* claim() of t: one more attempt, the others untouched.
LEMMA ClaimKeeps ==
  ASSUME TypeInv, NEW t \in Tasks, QueueClaim(t)
  PROVE  /\ \A u \in Tasks \ {t} : runs'[u] = runs[u]
         /\ DOMAIN runs[t] = 1 .. Len(runs[t])
         /\ Len(runs[t]) \in Nat
         /\ DOMAIN runs'[t] = 1 .. (Len(runs[t]) + 1)
         /\ \A n \in DOMAIN runs[t] : runs'[t][n] = runs[t][n]
         /\ runs'[t][Len(runs[t]) + 1] = "running"
<1>1. runs \in [Tasks -> Seq(RunStatus)] /\ runs' = [runs EXCEPT ![t] = Append(runs[t], "running")]
  BY DEF TypeInv, TypeOK, QueueTypeOK, QueueClaim
<1>2. runs[t] \in Seq(RunStatus) /\ runs'[t] = Append(runs[t], "running")
  BY <1>1
<1> QED  BY <1>1, <1>2

LEMMA AttemptInit == Init => AttemptInv /\ RecordInv
BY PreloadedAssumption DEF Init, QueueInit, AttemptInv, RecordInv, Unsettled

LEMMA AttemptRunOnce ==
  ASSUME TypeInv, AttemptInv, NEW w \in Workers, RunOnce(w)
  PROVE  AttemptInv' /\ RunsKept
<1> USE DEF TypeInv, TypeOK, FrameOK, AttemptInv, RunsKept, Unsettled, Goto, tasks
<1>1. CASE Claim(w)
  <2>1. PICK t \in Tasks :
          /\ QueueClaim(t)
          /\ held' = [held EXCEPT ![w] = t]
          /\ attempt' = [attempt EXCEPT ![w] = Len(runs[t]) + 1]
    BY <1>1 DEF Claim
  <2>2. \A u \in Tasks : \A n \in DOMAIN runs[u] :
          n \in DOMAIN runs'[u] /\ runs'[u][n] = runs[u][n]
    <3>1. \A n \in 1 .. Len(runs[t]) : n \in 1 .. (Len(runs[t]) + 1)
      BY <2>1, ClaimKeeps
    <3>2. \A n \in DOMAIN runs[t] : n \in DOMAIN runs'[t] /\ runs'[t][n] = runs[t][n]
      BY <2>1, <3>1, ClaimKeeps
    <3>3. \A u \in Tasks \ {t} : runs'[u] = runs[u]
      BY <2>1, ClaimKeeps
    <3> QED  BY <3>2, <3>3
  <2>3. pc[w] = "idle" /\ pc' = [pc EXCEPT ![w] = "claimed"]
    BY <1>1 DEF Claim
  <2>4. Len(runs[t]) + 1 \notin DOMAIN runs[t]
    BY <2>1, ClaimKeeps
  <2>5. \A v \in Workers :
          pc'[v] # "idle" => attempt'[v] \in DOMAIN runs'[held'[v]]
    BY <2>1, <2>2, <2>3, ClaimKeeps
  <2>6. \A u, v \in Workers :
          u # v /\ pc'[u] # "idle" /\ pc'[v] # "idle" /\ held'[u] = held'[v]
            => attempt'[u] # attempt'[v]
    BY <2>1, <2>3, <2>4
  <2>7. \A v \in Workers :
          pc'[v] \in Unsettled =>
            runs'[held'[v]][attempt'[v]] \in {"running", "cancelled"}
    <3>1. runs'[held'[w]][attempt'[w]] = "running"
      BY <2>1, ClaimKeeps
    <3>2. ASSUME NEW v \in Workers \ {w}, pc'[v] \in Unsettled
          PROVE  runs'[held'[v]][attempt'[v]] \in {"running", "cancelled"}
      <4>1. held'[v] = held[v] /\ attempt'[v] = attempt[v] /\ pc[v] \in Unsettled
        BY <2>1, <2>3, <3>2
      <4>2. held[v] \in Tasks /\ attempt[v] \in DOMAIN runs[held[v]]
        BY <4>1
      <4>3. runs'[held[v]][attempt[v]] = runs[held[v]][attempt[v]]
        BY <2>2, <4>2
      <4> QED  BY <4>1, <4>3
    <3> QED  BY <3>1, <3>2
  <2>8. RunsKept
    BY <2>2
  <2> QED  BY <2>5, <2>6, <2>7, <2>8
<1>2. CASE Register(w) \/ HandlerReturns(w) \/ HandlerThrows(w)
  BY <1>2 DEF Register, HandlerReturns, HandlerThrows
<1>3. CASE CheckReturned(w) \/ CheckThrown(w)
  BY <1>3 DEF CheckReturned, CheckThrown
<1>4. CASE SaveOutput(w)
  BY <1>4 DEF SaveOutput
<1>5. CASE Complete(w) \/ Fail(w)
  <2>1. PICK s \in {"completed", "failed"} :
          /\ runs' = [runs EXCEPT ![held[w]][attempt[w]] = s]
          /\ pc[w] \in {"completing", "failing"}
          /\ pc' = [pc EXCEPT ![w] = "unregister"]
          /\ UNCHANGED <<held, attempt>>
    BY <1>5 DEF Complete, Fail, Settle, QueueSettle
  <2> QED  BY <2>1, UpdateKeeps
<1>6. CASE CancelClaimed(w)
  <2>1. QueueCancel(held[w]) /\ held[w] \in Tasks
    BY <1>6 DEF CancelClaimed
  <2> QED  BY <1>6, <2>1, CancelKeeps DEF CancelClaimed
<1>7. CASE ClearCancelled(w)
  BY <1>7 DEF ClearCancelled
<1>8. CASE Unregister(w)
  BY <1>8 DEF Unregister
<1> QED  BY <1>1, <1>2, <1>3, <1>4, <1>5, <1>6, <1>7, <1>8 DEF RunOnce

LEMMA AttemptRoutes ==
  ASSUME TypeInv, AttemptInv, NEW c \in Clients,
         RouteStep(c) \/ \E t \in Tasks : Request(c, t)
  PROVE  AttemptInv' /\ RunsKept
<1> USE DEF TypeInv, TypeOK, FrameOK, AttemptInv, RunsKept, Unsettled, tasks, frames
<1>1. CASE Enqueue(c) \/ ResumeUpdate(c)
  BY <1>1 DEF Enqueue, ResumeUpdate, QueueEnqueue, StoreUpdate
<1>2. CASE CancelQueue(c)
  <2>1. QueueCancel(call[c].task) /\ call[c].task \in Tasks
    BY <1>2 DEF CancelQueue, Leave
  <2> QED  BY <1>2, <2>1, CancelKeeps DEF CancelQueue
<1>3. ASSUME NEW t \in Tasks, CancelDetached(c, t)
      PROVE  AttemptInv' /\ RunsKept
  BY <1>3, CancelKeeps DEF CancelDetached
<1>4. ASSUME NEW t \in Tasks, Create(c, t) \/ ResumeCheck(c, t) \/ CancelMark(c, t)
      PROVE  AttemptInv' /\ RunsKept
  BY <1>4 DEF Create, ResumeCheck, CancelMark, StoreCreate
<1> QED  BY <1>1, <1>2, <1>3, <1>4 DEF RouteStep, Request

LEMMA AttemptHandler ==
  ASSUME TypeInv, AttemptInv, NEW w \in Workers,
         Heartbeat(w) \/ HandlerThrowsForeign(w)
  PROVE  AttemptInv' /\ RunsKept
<1> USE DEF TypeInv, TypeOK, FrameOK, AttemptInv, RunsKept, Unsettled, tasks, frames
<1>1. CASE Heartbeat(w)
  <2>1. runs' = [runs EXCEPT ![held[w]][attempt[w]] = "running"] /\ pc[w] = "handler"
    BY <1>1 DEF Heartbeat, QueueHeartbeat
  <2> QED  BY <1>1, <2>1, UpdateKeeps DEF Heartbeat
<1>2. CASE HandlerThrowsForeign(w)
  BY <1>2 DEF HandlerThrowsForeign, Goto
<1> QED  BY <1>1, <1>2

LEMMA AttemptFailure ==
  ASSUME TypeInv, AttemptInv, Failure
  PROVE  AttemptInv' /\ RunsKept
<1>1. \A w \in Workers : pc'[w] = "idle"
  BY DEF Failure, Crash, TornClaim, TornSettle, TornCancel, Restart
<1>2. AttemptInv'
  BY <1>1 DEF AttemptInv, Unsettled
<1>3. CASE Crash \/ \E t \in Tasks : TornClaim(t)
  <2>1. UNCHANGED runs
    BY <1>3 DEF Crash, TornClaim
  <2> QED  BY <1>2, <2>1 DEF RunsKept
<1>4. ASSUME NEW w \in Workers, NEW from \in {"completing", "failing"}, NEW s,
             TornSettle(w, from, s)
      PROVE  RunsKept
  <2>1. pc[w] = from /\ runs' = [runs EXCEPT ![held[w]][attempt[w]] = s]
    BY <1>4 DEF TornSettle
  <2> QED  BY <2>1, UpdateKeeps DEF AttemptInv, RunsKept, Unsettled
<1>5. ASSUME NEW t \in Tasks, NEW k \in DOMAIN runs[t], TornCancel(t, k)
      PROVE  RunsKept
  BY <1>5 DEF TornCancel, CancelRuns, RunsKept, TypeInv, TypeOK, QueueTypeOK
<1> QED  BY <1>2, <1>3, <1>4, <1>5 DEF Failure

LEMMA AttemptStep == TypeInv /\ AttemptInv /\ [Next]_vars => AttemptInv' /\ RunsKept
<1> SUFFICES ASSUME TypeInv, AttemptInv, [Next]_vars PROVE AttemptInv' /\ RunsKept
  OBVIOUS
<1>1. CASE UNCHANGED vars
  BY <1>1 DEF AttemptInv, RunsKept, vars
<1>2. CASE Next
  BY <1>2, AttemptRunOnce, AttemptHandler, AttemptRoutes, AttemptFailure DEF Next
<1> QED  BY <1>1, <1>2

\* No later cancel, retry, heartbeat or crash rewrites an attempt that completed
\* or failed, for any number of attempts and frames.
THEOREM OutcomesFinal == Spec => SettledRunFinal
<1>1. Init => TypeInv /\ AttemptInv
  BY TypeInit, AttemptInit
<1>2. TypeInv /\ AttemptInv /\ [Next]_vars => (TypeInv /\ AttemptInv)'
  BY TypeStep, AttemptStep
<1>3. TypeInv /\ AttemptInv /\ [Next]_vars =>
        [\A t \in Tasks : \A n \in DOMAIN runs[t] :
           runs[t][n] \in {"completed", "failed"} => runs'[t][n] = runs[t][n]]_vars
  BY AttemptStep DEF RunsKept
<1> QED  BY <1>1, <1>2, <1>3, PTL DEF Spec, SettledRunFinal

\* A step that completes nothing keeps what is recorded of the completed.
LEMMA RecordCarried ==
  ASSUME RecordInv, RunsKept,
         \A t \in Tasks : outputs[t] \subseteq outputs'[t],
         \A t \in Tasks : status'[t] = "completed" => status[t] = "completed",
         \A t \in Tasks : \A n \in DOMAIN runs'[t] :
           runs'[t][n] = "completed" => n \in DOMAIN runs[t] /\ runs[t][n] = "completed",
         \A w \in Workers :
           pc'[w] = "completing" => attempt'[w] \in outputs'[held'[w]]
  PROVE  RecordInv'
BY DEF RecordInv, RunsKept

LEMMA RecordRunOnce ==
  ASSUME TypeInv, AttemptInv, RecordInv, RunsKept, NEW w \in Workers, RunOnce(w)
  PROVE  RecordInv'
<1> USE DEF TypeInv, TypeOK, QueueTypeOK, FrameOK, Goto, tasks
<1>1. CASE Claim(w)
  <2>1. PICK t \in Tasks :
          /\ QueueClaim(t)
          /\ held' = [held EXCEPT ![w] = t]
          /\ attempt' = [attempt EXCEPT ![w] = Len(runs[t]) + 1]
    BY <1>1 DEF Claim
  <2>2. \A u \in Tasks : status'[u] = "completed" => status[u] = "completed"
    BY <2>1 DEF QueueClaim
  <2>3. \A u \in Tasks : \A n \in DOMAIN runs'[u] :
          runs'[u][n] = "completed" => n \in DOMAIN runs[u] /\ runs[u][n] = "completed"
    <3>1. ASSUME NEW n \in DOMAIN runs'[t], runs'[t][n] = "completed"
          PROVE  n \in DOMAIN runs[t] /\ runs[t][n] = "completed"
      <4>1. n \in 1 .. (Len(runs[t]) + 1) /\ n # Len(runs[t]) + 1
        BY <2>1, <3>1, ClaimKeeps
      <4>2. n \in 1 .. Len(runs[t])
        BY <2>1, <4>1, ClaimKeeps
      <4> QED  BY <2>1, <3>1, <4>2, ClaimKeeps
    <3>2. \A u \in Tasks \ {t} : runs'[u] = runs[u]
      BY <2>1, ClaimKeeps
    <3> QED  BY <3>1, <3>2
  <2>4. \A v \in Workers :
          pc'[v] = "completing" => attempt'[v] \in outputs'[held'[v]]
    BY <1>1, <2>1 DEF Claim, RecordInv
  <2> QED  BY <1>1, <2>2, <2>3, <2>4, RecordCarried DEF Claim
<1>2. CASE Register(w) \/ HandlerReturns(w) \/ HandlerThrows(w)
  BY <1>2 DEF Register, HandlerReturns, HandlerThrows, RecordInv
<1>3. CASE CheckReturned(w) \/ CheckThrown(w)
  BY <1>3 DEF CheckReturned, CheckThrown, RecordInv
<1>4. CASE SaveOutput(w)
  BY <1>4 DEF SaveOutput, RecordInv
<1>5. CASE Complete(w) \/ Fail(w)
  <2>1. PICK s \in {"completed", "failed"} :
          /\ runs' = [runs EXCEPT ![held[w]][attempt[w]] = s]
          /\ status' = [status EXCEPT ![held[w]] = s]
          /\ s = "completed" => pc[w] = "completing"
          /\ pc[w] # "idle"
          /\ pc' = [pc EXCEPT ![w] = "unregister"]
          /\ UNCHANGED <<held, attempt, outputs>>
    BY <1>5 DEF Complete, Fail, Settle, QueueSettle
  <2>2. held[w] \in Tasks /\ attempt[w] \in DOMAIN runs'[held[w]]
    BY <2>1, UpdateKeeps DEF AttemptInv
  <2>3. \A v \in Workers :
          pc'[v] = "completing" => attempt'[v] \in outputs'[held'[v]]
    BY <2>1 DEF RecordInv
  <2>4. \A t \in Tasks : \A n \in DOMAIN runs'[t] :
          runs'[t][n] = "completed" => n \in outputs'[t]
    BY <2>1, UpdateKeeps DEF RecordInv
  <2>5. \A t \in Tasks : status'[t] = "completed" =>
          \E n \in DOMAIN runs'[t] : runs'[t][n] = "completed"
    <3>1. CASE status'[held[w]] = "completed"
      BY <2>1, <2>2, <3>1, UpdateKeeps DEF RecordInv, RunsKept
    <3>2. CASE status'[held[w]] # "completed"
      BY <2>1, <2>2, <3>2 DEF RecordInv, RunsKept
    <3> QED  BY <3>1, <3>2
  <2> QED  BY <2>3, <2>4, <2>5 DEF RecordInv
<1>6. CASE CancelClaimed(w)
  <2>1. QueueCancel(held[w]) /\ held[w] \in Tasks
    BY <1>6 DEF CancelClaimed
  <2>2. \A t \in Tasks : \A n \in DOMAIN runs'[t] :
          runs'[t][n] = "completed" => n \in DOMAIN runs[t] /\ runs[t][n] = "completed"
    BY <2>1, CancelKeeps
  <2>3. \A t \in Tasks : status'[t] = "completed" => status[t] = "completed"
    BY <2>1 DEF QueueCancel
  <2> QED  BY <1>6, <2>2, <2>3, RecordCarried DEF CancelClaimed, RecordInv
<1>7. CASE ClearCancelled(w)
  BY <1>7 DEF ClearCancelled, RecordInv
<1>8. CASE Unregister(w)
  BY <1>8 DEF Unregister, RecordInv
<1> QED  BY <1>1, <1>2, <1>3, <1>4, <1>5, <1>6, <1>7, <1>8 DEF RunOnce

LEMMA RecordRoutes ==
  ASSUME TypeInv, AttemptInv, RecordInv, RunsKept, NEW c \in Clients,
         RouteStep(c) \/ \E t \in Tasks : Request(c, t)
  PROVE  RecordInv'
<1> USE DEF TypeInv, TypeOK, QueueTypeOK, FrameOK, tasks, frames
<1>1. CASE Enqueue(c) \/ ResumeUpdate(c)
  BY <1>1 DEF Enqueue, ResumeUpdate, QueueEnqueue, StoreUpdate, RecordInv
<1>2. CASE CancelQueue(c)
  <2>1. QueueCancel(call[c].task) /\ call[c].task \in Tasks
    BY <1>2 DEF CancelQueue, Leave
  <2>2. \A t \in Tasks : \A n \in DOMAIN runs'[t] :
          runs'[t][n] = "completed" => n \in DOMAIN runs[t] /\ runs[t][n] = "completed"
    BY <2>1, CancelKeeps
  <2>3. \A t \in Tasks : status'[t] = "completed" => status[t] = "completed"
    BY <2>1 DEF QueueCancel
  <2> QED  BY <1>2, <2>2, <2>3, RecordCarried DEF CancelQueue, RecordInv
<1>3. ASSUME NEW t \in Tasks, CancelDetached(c, t)
      PROVE  RecordInv'
  <2>1. QueueCancel(t)
    BY <1>3 DEF CancelDetached
  <2>2. \A u \in Tasks : \A n \in DOMAIN runs'[u] :
          runs'[u][n] = "completed" => n \in DOMAIN runs[u] /\ runs[u][n] = "completed"
    BY <2>1, CancelKeeps
  <2>3. \A u \in Tasks : status'[u] = "completed" => status[u] = "completed"
    BY <2>1 DEF QueueCancel
  <2> QED  BY <1>3, <2>2, <2>3, RecordCarried DEF CancelDetached, RecordInv
<1>4. ASSUME NEW t \in Tasks, Create(c, t) \/ ResumeCheck(c, t) \/ CancelMark(c, t)
      PROVE  RecordInv'
  BY <1>4 DEF Create, ResumeCheck, CancelMark, StoreCreate, RecordInv
<1> QED  BY <1>1, <1>2, <1>3, <1>4 DEF RouteStep, Request

LEMMA RecordHandler ==
  ASSUME TypeInv, AttemptInv, RecordInv, RunsKept, NEW w \in Workers,
         Heartbeat(w) \/ HandlerThrowsForeign(w)
  PROVE  RecordInv'
<1>1. CASE Heartbeat(w)
  <2>1. runs' = [runs EXCEPT ![held[w]][attempt[w]] = "running"] /\ pc[w] = "handler"
    BY <1>1 DEF Heartbeat, QueueHeartbeat
  <2>2. \A t \in Tasks : \A n \in DOMAIN runs'[t] :
          runs'[t][n] = "completed" => n \in DOMAIN runs[t] /\ runs[t][n] = "completed"
    BY <2>1, UpdateKeeps
  <2> QED  BY <1>1, <2>2, RecordCarried DEF Heartbeat, QueueHeartbeat, RecordInv, frames
<1>2. CASE HandlerThrowsForeign(w)
  BY <1>2 DEF HandlerThrowsForeign, Goto, RecordInv, TypeInv, TypeOK, tasks
<1> QED  BY <1>1, <1>2

\* A crash inside complete() leaves the run completed with its output saved and
\* the task as it was, never the other way round.
LEMMA RecordFailure ==
  ASSUME TypeInv, AttemptInv, RecordInv, RunsKept, Failure
  PROVE  RecordInv'
<1>1. /\ \A w \in Workers : pc'[w] = "idle"
      /\ UNCHANGED outputs
  BY DEF Failure, Crash, TornClaim, TornSettle, TornCancel, Restart
<1>2. CASE Crash \/ \E t \in Tasks : TornClaim(t)
  <2>1. UNCHANGED runs
    BY <1>2 DEF Crash, TornClaim
  <2>2. \A t \in Tasks : status'[t] = "completed" => status[t] = "completed"
    BY <1>2 DEF Crash, TornClaim, TypeInv, TypeOK, QueueTypeOK
  <2> QED  BY <1>1, <2>1, <2>2, RecordCarried
<1>3. ASSUME NEW w \in Workers, NEW from, NEW s,
             <<from, s>> \in {<<"completing", "completed">>, <<"failing", "failed">>},
             TornSettle(w, from, s)
      PROVE  RecordInv'
  <2>1. /\ pc[w] = from /\ pc[w] # "idle"
        /\ runs' = [runs EXCEPT ![held[w]][attempt[w]] = s]
        /\ UNCHANGED status
        /\ s = "completed" => pc[w] = "completing"
    BY <1>3 DEF TornSettle
  <2>2. \A t \in Tasks : \A n \in DOMAIN runs'[t] :
          runs'[t][n] = "completed" => n \in outputs'[t]
    BY <1>1, <2>1, UpdateKeeps DEF RecordInv
  <2> QED  BY <1>1, <2>1, <2>2 DEF RecordInv, RunsKept
<1>4. ASSUME NEW t \in Tasks, NEW k \in DOMAIN runs[t], TornCancel(t, k)
      PROVE  RecordInv'
  <2>1. \A u \in Tasks : \A n \in DOMAIN runs'[u] :
          runs'[u][n] = "completed" => n \in DOMAIN runs[u] /\ runs[u][n] = "completed"
    BY <1>4 DEF TornCancel, CancelRuns, TypeInv, TypeOK, QueueTypeOK
  <2>2. \A u \in Tasks : status'[u] = "completed" => status[u] = "completed"
    BY <1>4 DEF TornCancel, TypeInv, TypeOK, QueueTypeOK
  <2> QED  BY <1>1, <2>1, <2>2, RecordCarried
<1>5. ASSUME NEW w \in Workers,
             TornSettle(w, "completing", "completed") \/ TornSettle(w, "failing", "failed")
      PROVE  RecordInv'
  BY <1>3, <1>5
<1> QED  BY <1>2, <1>4, <1>5 DEF Failure

LEMMA RecordStep == TypeInv /\ AttemptInv /\ RecordInv /\ [Next]_vars => RecordInv'
<1> SUFFICES ASSUME TypeInv, AttemptInv, RecordInv, [Next]_vars PROVE RecordInv'
  OBVIOUS
<1>1. RunsKept
  BY AttemptStep
<1>2. CASE UNCHANGED vars
  BY <1>2 DEF RecordInv, vars
<1>3. CASE Next
  BY <1>1, <1>3, RecordRunOnce, RecordHandler, RecordRoutes, RecordFailure DEF Next
<1> QED  BY <1>2, <1>3

\* A task that reads Completed has an attempt that completed and saved its
\* output, through every crash and retry.
THEOREM CompletionsBacked == Spec => []CompletedIsBacked
<1>1. Init => TypeInv /\ AttemptInv /\ RecordInv
  BY TypeInit, AttemptInit
<1>2. TypeInv /\ AttemptInv /\ RecordInv /\ [Next]_vars
        => (TypeInv /\ AttemptInv /\ RecordInv)'
  BY TypeStep, AttemptStep, RecordStep
<1>3. RecordInv => CompletedIsBacked
  BY DEF RecordInv, CompletedIsBacked
<1> QED  BY <1>1, <1>2, <1>3, PTL DEF Spec
-----------------------------------------------------------------------------
(* Exclusive claims.  Where nobody creates or resumes while the workers    *)
(* run, nothing sets a status back to Queued, so a task that a thread      *)
(* holds cannot be claimed again.                                          *)

ClaimInv ==
  /\ TypeInv
  /\ SingleExecution
  /\ \A w \in Workers : held[w] # None => status[held[w]] # "queued"
  /\ \A c \in Clients : call[c].op \in {"idle", "cancel"}

LEMMA ClaimInit == Init => ClaimInv
<1> SUFFICES ASSUME Init PROVE ClaimInv
  OBVIOUS
<1>1. \A w \in Workers : held[w] = None
  BY DEF Init
<1>2. \A c \in Clients : call[c].op = "idle"
  BY DEF Init, Idle
<1> QED  BY <1>1, <1>2, TypeInit DEF ClaimInv, SingleExecution

LEMMA ClaimRunOnce ==
  ASSUME ClaimInv, NEW w \in Workers, RunOnce(w)
  PROVE  /\ SingleExecution'
         /\ \A v \in Workers : held'[v] # None => status'[held'[v]] # "queued"
         /\ UNCHANGED call
<1> USE NoneAssumption
        DEF ClaimInv, TypeInv, TypeOK, QueueTypeOK, FrameOK, SingleExecution, Goto, tasks
<1>1. CASE Claim(w)
  <2>1. PICK t \in Tasks : QueueClaim(t) /\ held' = [held EXCEPT ![w] = t]
    BY <1>1 DEF Claim
  <2>2. status[t] = "queued" /\ status' = [status EXCEPT ![t] = "running"]
    BY <2>1 DEF QueueClaim, FirstQueued
  <2>3. \A v \in Workers : held[v] # t
    BY <2>2
  <2> QED  BY <1>1, <2>1, <2>2, <2>3 DEF Claim
<1>2. CASE Register(w) \/ HandlerReturns(w) \/ HandlerThrows(w)
  BY <1>2 DEF Register, HandlerReturns, HandlerThrows
<1>3. CASE CheckReturned(w) \/ CheckThrown(w) \/ SaveOutput(w)
  BY <1>3 DEF CheckReturned, CheckThrown, SaveOutput
<1>4. CASE Complete(w) \/ Fail(w)
  BY <1>4 DEF Complete, Fail, Settle, QueueSettle
<1>5. CASE CancelClaimed(w)
  BY <1>5 DEF CancelClaimed, QueueCancel
<1>6. CASE ClearCancelled(w)
  BY <1>6 DEF ClearCancelled
<1>7. CASE Unregister(w)
  BY <1>7 DEF Unregister
<1> QED  BY <1>1, <1>2, <1>3, <1>4, <1>5, <1>6, <1>7 DEF RunOnce

LEMMA ClaimStep ==
  ASSUME Submitters = {}, Resumers = {}
  PROVE  ClaimInv /\ [Next]_vars => ClaimInv'
<1> SUFFICES ASSUME ClaimInv, [Next]_vars PROVE ClaimInv'
  OBVIOUS
<1> DEFINE NotQueued == \A w \in Workers : held[w] # None => status[held[w]] # "queued"
           Calls == \A c \in Clients : call[c].op \in {"idle", "cancel"}
<1>1. TypeInv'
  BY TypeStep DEF ClaimInv
<1>2. CASE UNCHANGED vars
  BY <1>1, <1>2 DEF ClaimInv, SingleExecution, vars
<1>3. ASSUME NEW w \in Workers, RunOnce(w)
      PROVE  ClaimInv'
  BY <1>1, <1>3, ClaimRunOnce DEF ClaimInv
<1>4. ASSUME NEW w \in Workers, Heartbeat(w) \/ HandlerThrowsForeign(w)
      PROVE  ClaimInv'
  <2>1. UNCHANGED <<status, held, call>>
    BY <1>4 DEF Heartbeat, QueueHeartbeat, HandlerThrowsForeign, frames, tasks
  <2> QED  BY <1>1, <2>1 DEF ClaimInv, SingleExecution
<1>5. ASSUME NEW c \in Clients, RouteStep(c)
      PROVE  ClaimInv'
  <2>1. CancelQueue(c)
    BY <1>5 DEF ClaimInv, RouteStep, Enqueue, ResumeUpdate, Leave
  <2>2. call[c].task \in Tasks
    BY <2>1 DEF ClaimInv, TypeInv, FrameOK, CancelQueue, Leave
  <2>3. /\ UNCHANGED held
        /\ status' = [status EXCEPT ![call[c].task] = "cancelled"]
        /\ call' = [call EXCEPT ![c] = Idle]
    BY <2>1 DEF CancelQueue, QueueCancel, Leave, frames
  <2> QED  BY <1>1, <2>2, <2>3 DEF ClaimInv, TypeInv, TypeOK, QueueTypeOK,
                                   SingleExecution, Idle
<1>6. ASSUME NEW c \in Clients, NEW t \in Tasks, Request(c, t)
      PROVE  ClaimInv'
  <2>1. CancelMark(c, t) \/ CancelDetached(c, t)
    BY <1>6 DEF Request, Create, ResumeCheck
  <2>2. CASE CancelMark(c, t)
    <3>1. UNCHANGED <<status, held>>
      BY <2>2 DEF CancelMark, tasks
    <3>2. Calls'
      BY <2>2 DEF CancelMark, Enter, ClaimInv, TypeInv, TypeOK
    <3> QED  BY <1>1, <3>1, <3>2 DEF ClaimInv, SingleExecution
  <2>3. CASE CancelDetached(c, t)
    <3>1. /\ UNCHANGED <<held, call>>
          /\ status' = [status EXCEPT ![t] = "cancelled"]
      BY <2>3 DEF CancelDetached, QueueCancel, frames
    <3> QED  BY <1>1, <3>1 DEF ClaimInv, TypeInv, TypeOK, QueueTypeOK, SingleExecution
  <2> QED  BY <2>1, <2>2, <2>3
<1>7. CASE Failure
  <2>1. Restart
    BY <1>7 DEF Failure, Crash, TornClaim, TornSettle, TornCancel
  <2>2. /\ \A w \in Workers : held'[w] = None
        /\ \A c \in Clients : call'[c].op = "idle"
    BY <2>1 DEF Restart, Idle
  <2> QED  BY <1>1, <2>2 DEF ClaimInv, SingleExecution
<1> QED  BY <1>2, <1>3, <1>4, <1>5, <1>6, <1>7 DEF Next

\* A claim is exclusive, for any number of workers, cancels and crashes, as long
\* as no create or resume route runs beside the workers.
THEOREM ClaimsExclusive ==
  ASSUME Submitters = {}, Resumers = {}
  PROVE  Spec => []SingleExecution
<1>1. ClaimInv /\ [Next]_vars => ClaimInv'
  BY ClaimStep
<1>2. ClaimInv => SingleExecution
  BY DEF ClaimInv
<1> QED  BY <1>1, <1>2, ClaimInit, PTL DEF Spec
-----------------------------------------------------------------------------
(* The deque.  Whatever the routes write past it, an id in it is that of a *)
(* Queued task and is there once.                                          *)

DequeInv == TypeInv /\ DequeSound

LEMMA DequeInit == Init => DequeInv
BY TypeInit, PreloadedAssumption DEF Init, QueueInit, DequeInv, DequeSound

LEMMA DequeRunOnce ==
  ASSUME DequeInv, NEW w \in Workers, RunOnce(w)
  PROVE  DequeSound'
<1>1. QueueTypeOK /\ DequeSound
  BY DEF DequeInv, TypeInv, TypeOK
<1>2. CASE Claim(w)
  BY <1>1, <1>2, QueueClaimSound DEF Claim
<1>3. CASE Complete(w) \/ Fail(w)
  <2>1. PICK outcome : QueueSettle(held[w], attempt[w], outcome)
    BY <1>3 DEF Complete, Fail, Settle
  <2>2. held[w] \in Tasks
    BY <1>3 DEF Complete, Fail, Settle, Goto, DequeInv, TypeInv, FrameOK
  <2> QED  BY <1>1, <2>1, <2>2, QueueRemoveSound DEF QueueSettle
<1>4. CASE CancelClaimed(w)
  <2>1. held[w] \in Tasks
    BY <1>4 DEF CancelClaimed, Goto, DequeInv, TypeInv, FrameOK
  <2> QED  BY <1>1, <1>4, <2>1, QueueRemoveSound DEF CancelClaimed, QueueCancel
<1>5. CASE UNCHANGED <<status, queue>>
  BY <1>1, <1>5 DEF DequeSound
<1>6. Claim(w) \/ Complete(w) \/ Fail(w) \/ CancelClaimed(w) \/ UNCHANGED <<status, queue>>
  BY DEF RunOnce, Register, HandlerReturns, HandlerThrows, CheckReturned,
         CheckThrown, SaveOutput, ClearCancelled, Unregister, tasks
<1> QED  BY <1>2, <1>3, <1>4, <1>5, <1>6

LEMMA DequeRoutes ==
  ASSUME DequeInv, NEW c \in Clients,
         RouteStep(c) \/ \E t \in Tasks : Request(c, t)
  PROVE  DequeSound'
<1>1. QueueTypeOK /\ DequeSound
  BY DEF DequeInv, TypeInv, TypeOK
<1>2. call[c].op # "idle" => call[c].task \in Tasks
  BY DEF DequeInv, TypeInv, FrameOK
<1>3. CASE Enqueue(c)
  BY <1>1, <1>2, <1>3, QueueEnqueueSound DEF Enqueue, Leave
<1>4. CASE ResumeUpdate(c)
  BY <1>1, <1>2, <1>4, QueueWriteSound DEF ResumeUpdate, StoreUpdate
<1>5. CASE CancelQueue(c)
  BY <1>1, <1>2, <1>5, QueueRemoveSound DEF CancelQueue, Leave, QueueCancel
<1>6. ASSUME NEW t \in Tasks, Create(c, t)
      PROVE  DequeSound'
  BY <1>1, <1>6, QueueWriteSound DEF Create, StoreCreate
<1>7. ASSUME NEW t \in Tasks, CancelDetached(c, t)
      PROVE  DequeSound'
  BY <1>1, <1>7, QueueRemoveSound DEF CancelDetached, QueueCancel
<1>8. ASSUME NEW t \in Tasks, ResumeCheck(c, t) \/ CancelMark(c, t)
      PROVE  DequeSound'
  BY <1>1, <1>8 DEF ResumeCheck, CancelMark, tasks, DequeSound
<1> QED  BY <1>3, <1>4, <1>5, <1>6, <1>7, <1>8 DEF RouteStep, Request

\* The deque never holds an id twice nor an id that claim() would throw away,
\* whatever creates, resumes, cancels, double claims and crashes overlap: what is
\* in it will be claimed, and run_once() need not skip.
THEOREM DequeAlwaysSound == Spec => []DequeSound
<1>1. DequeInv /\ [Next]_vars => DequeInv'
  <2> SUFFICES ASSUME DequeInv, [Next]_vars PROVE DequeSound'
    BY TypeStep DEF DequeInv
  <2>1. CASE UNCHANGED vars
    BY <2>1 DEF DequeInv, DequeSound, vars
  <2>2. ASSUME NEW w \in Workers, Heartbeat(w) \/ HandlerThrowsForeign(w)
        PROVE  DequeSound'
    BY <2>2 DEF Heartbeat, QueueHeartbeat, HandlerThrowsForeign, tasks, DequeInv, DequeSound
  <2>3. CASE Failure
    <3>1. queue' = <<>>
      BY <2>3 DEF Failure, Crash, TornClaim, TornSettle, TornCancel, Restart
    <3> QED  BY <3>1 DEF DequeSound
  <2> QED  BY <2>1, <2>2, <2>3, DequeRunOnce, DequeRoutes DEF Next
<1>2. DequeInv => DequeSound
  BY DEF DequeInv
<1> QED  BY <1>1, <1>2, DequeInit, PTL DEF Spec
-----------------------------------------------------------------------------
(* Statuses.  Neither create nor resume routes, nor double claims, leave a *)
(* task Running that nobody executes: a status that has become Running is  *)
(* that of its last claim, and whoever settles the task ends it.           *)

StatusInv == TypeInv /\ AttemptInv /\ StatusIsBacked

\* A step that settles no frame of t and rewrites no attempt of t keeps the
\* witness of its status.
LEMMA StatusKept ==
  ASSUME StatusIsBacked, NEW t \in Tasks,
         status'[t] \in {"running", "cancelled"} => status'[t] = status[t],
         runs'[t] = runs[t],
         \A w \in Workers : held[w] = t /\ pc[w] \in Executing =>
           held'[w] = t /\ attempt'[w] = attempt[w] /\ pc'[w] \in Executing
  PROVE  /\ status'[t] = "running" =>
              \E w \in Workers : /\ held'[w] = t
                                 /\ pc'[w] \in Executing
                                 /\ runs'[t][attempt'[w]] = "running"
         /\ status'[t] = "cancelled" =>
              \A n \in DOMAIN runs'[t] : runs'[t][n] # "running"
BY DEF StatusIsBacked

\* cancel(t) is right about t and about nothing else.
LEMMA StatusCancel ==
  ASSUME StatusInv, NEW t \in Tasks, QueueCancel(t), UNCHANGED <<held, attempt>>,
         \A w \in Workers : held[w] # t => pc'[w] = pc[w]
  PROVE  StatusIsBacked'
<1>1. /\ status'[t] = "cancelled" /\ runs'[t] = CancelRuns(runs[t])
      /\ \A u \in Tasks : u # t => status'[u] = status[u] /\ runs'[u] = runs[u]
  BY DEF QueueCancel, StatusInv, TypeInv, TypeOK, QueueTypeOK
<1>2. \A n \in DOMAIN runs'[t] : runs'[t][n] # "running"
  BY <1>1 DEF CancelRuns
<1>3. ASSUME NEW u \in Tasks, u # t
      PROVE  /\ status'[u] = "running" =>
                  \E w \in Workers : /\ held'[w] = u
                                     /\ pc'[w] \in Executing
                                     /\ runs'[u][attempt'[w]] = "running"
             /\ status'[u] = "cancelled" =>
                  \A n \in DOMAIN runs'[u] : runs'[u][n] # "running"
  <2>1. \A w \in Workers : held[w] = u /\ pc[w] \in Executing =>
          held'[w] = u /\ attempt'[w] = attempt[w] /\ pc'[w] \in Executing
    BY <1>3
  <2> QED  BY <1>1, <1>3, <2>1, StatusKept DEF StatusInv
<1> QED  BY <1>1, <1>2, <1>3 DEF StatusIsBacked

LEMMA StatusRunOnce ==
  ASSUME StatusInv, NEW w \in Workers, RunOnce(w)
  PROVE  StatusIsBacked'
<1>1. CASE Claim(w)
  <2>1. PICK t \in Tasks :
          /\ QueueClaim(t)
          /\ held' = [held EXCEPT ![w] = t]
          /\ attempt' = [attempt EXCEPT ![w] = Len(runs[t]) + 1]
    BY <1>1 DEF Claim
  <2>2. /\ pc[w] = "idle" /\ pc'[w] = "claimed" /\ held'[w] = t
        /\ attempt'[w] = Len(runs[t]) + 1
        /\ \A v \in Workers : v # w =>
             pc'[v] = pc[v] /\ held'[v] = held[v] /\ attempt'[v] = attempt[v]
    BY <1>1, <2>1 DEF Claim, Goto, StatusInv, TypeInv, TypeOK
  <2>3. /\ status'[t] = "running"
        /\ \A u \in Tasks \ {t} : status'[u] = status[u] /\ runs'[u] = runs[u]
        /\ runs'[t][attempt'[w]] = "running"
    BY <2>1, <2>2, ClaimKeeps DEF QueueClaim, StatusInv, TypeInv, TypeOK, QueueTypeOK
  <2>4. \A v \in Workers : pc[v] \in Executing => v # w
    BY <2>2 DEF Executing
  <2>5. ASSUME NEW u \in Tasks \ {t}
        PROVE  /\ status'[u] = "running" =>
                    \E v \in Workers : /\ held'[v] = u
                                       /\ pc'[v] \in Executing
                                       /\ runs'[u][attempt'[v]] = "running"
               /\ status'[u] = "cancelled" =>
                    \A n \in DOMAIN runs'[u] : runs'[u][n] # "running"
    BY <2>2, <2>3, <2>4, StatusKept DEF StatusInv
  <2>6. pc'[w] \in Executing
    BY <2>2 DEF Executing
  <2> QED  BY <2>2, <2>3, <2>5, <2>6 DEF StatusIsBacked
<1>2. CASE Complete(w) \/ Fail(w)
  <2>1. PICK s \in {"completed", "failed"} :
          /\ runs' = [runs EXCEPT ![held[w]][attempt[w]] = s]
          /\ status' = [status EXCEPT ![held[w]] = s]
          /\ pc[w] # "idle"
          /\ pc' = [pc EXCEPT ![w] = "unregister"]
          /\ UNCHANGED <<held, attempt>>
    BY <1>2 DEF Complete, Fail, Settle, QueueSettle, Goto
  <2>2. \A t \in Tasks : t # held[w] => status'[t] = status[t] /\ runs'[t] = runs[t]
    BY <2>1 DEF StatusInv, TypeInv, TypeOK, QueueTypeOK
  <2>3. \A t \in Tasks : t = held[w] => status'[t] \in {"completed", "failed"}
    BY <2>1 DEF StatusInv, TypeInv, TypeOK, QueueTypeOK
  <2>4. \A v \in Workers : v # w => pc'[v] = pc[v]
    BY <2>1 DEF StatusInv, TypeInv, TypeOK
  <2>5. ASSUME NEW t \in Tasks, t # held[w]
        PROVE  /\ status'[t] = "running" =>
                    \E v \in Workers : /\ held'[v] = t
                                       /\ pc'[v] \in Executing
                                       /\ runs'[t][attempt'[v]] = "running"
               /\ status'[t] = "cancelled" =>
                    \A n \in DOMAIN runs'[t] : runs'[t][n] # "running"
    <3>1. \A v \in Workers : held[v] = t /\ pc[v] \in Executing =>
            held'[v] = t /\ attempt'[v] = attempt[v] /\ pc'[v] \in Executing
      BY <2>1, <2>4, <2>5
    <3> QED  BY <2>2, <2>5, <3>1, StatusKept DEF StatusInv
  <2> QED  BY <2>3, <2>5 DEF StatusIsBacked
<1>3. CASE CancelClaimed(w)
  <2>1. /\ held[w] \in Tasks /\ QueueCancel(held[w]) /\ UNCHANGED <<held, attempt>>
        /\ pc' = [pc EXCEPT ![w] = "clearing"]
    BY <1>3 DEF CancelClaimed, StatusInv, TypeInv, FrameOK, Goto
  <2>2. \A v \in Workers : held[v] # held[w] => pc'[v] = pc[v]
    BY <2>1 DEF StatusInv, TypeInv, TypeOK
  <2> QED  BY <2>1, <2>2, StatusCancel
<1>4. ASSUME \/ Register(w) \/ HandlerReturns(w) \/ HandlerThrows(w)
             \/ CheckReturned(w) \/ CheckThrown(w) \/ SaveOutput(w)
      PROVE  StatusIsBacked'
  <2>1. /\ UNCHANGED <<status, runs, held, attempt>>
        /\ \E to \in Executing : pc' = [pc EXCEPT ![w] = to]
    BY <1>4 DEF Register, HandlerReturns, HandlerThrows, CheckReturned,
                CheckThrown, SaveOutput, Goto, Executing, tasks
  <2>2. \A v \in Workers : pc[v] \in Executing => pc'[v] \in Executing
    BY <2>1 DEF StatusInv, TypeInv, TypeOK
  <2> QED  BY <2>1, <2>2 DEF StatusInv, StatusIsBacked
<1>5. CASE ClearCancelled(w) \/ Unregister(w)
  <2>1. UNCHANGED <<status, runs>> /\ pc[w] \notin Executing
    BY <1>5 DEF ClearCancelled, Unregister, Goto, Executing, tasks
  <2>2. \A v \in Workers : v # w =>
          pc'[v] = pc[v] /\ held'[v] = held[v] /\ attempt'[v] = attempt[v]
    <3>1. CASE ClearCancelled(w)
      BY <3>1 DEF ClearCancelled, Goto, StatusInv, TypeInv, TypeOK
    <3>2. CASE Unregister(w)
      BY <3>2 DEF Unregister, Goto, StatusInv, TypeInv, TypeOK
    <3> QED  BY <1>5, <3>1, <3>2
  <2>3. \A v \in Workers : pc[v] \in Executing =>
          pc'[v] = pc[v] /\ held'[v] = held[v] /\ attempt'[v] = attempt[v]
    BY <2>1, <2>2
  <2> QED  BY <2>1, <2>3 DEF StatusInv, StatusIsBacked
<1> QED  BY <1>1, <1>2, <1>3, <1>4, <1>5 DEF RunOnce

LEMMA StatusRoutes ==
  ASSUME StatusInv, NEW c \in Clients,
         RouteStep(c) \/ \E t \in Tasks : Request(c, t)
  PROVE  StatusIsBacked'
<1>1. UNCHANGED <<pc, held, attempt>>
  BY DEF RouteStep, Request, Enqueue, ResumeUpdate, CancelQueue, Create,
         ResumeCheck, CancelMark, CancelDetached, frames
<1>2. call[c].op # "idle" => call[c].task \in Tasks
  BY DEF StatusInv, TypeInv, FrameOK
<1>3. CASE CancelQueue(c)
  BY <1>1, <1>2, <1>3, StatusCancel DEF CancelQueue, Leave
<1>4. ASSUME NEW t \in Tasks, CancelDetached(c, t)
      PROVE  StatusIsBacked'
  BY <1>1, <1>4, StatusCancel DEF CancelDetached
<1>5. ASSUME RouteStep(c), ~CancelQueue(c)
      PROVE  /\ runs' = runs
             /\ \A t \in Tasks : status'[t] = status[t] \/ status'[t] = "queued"
  BY <1>5 DEF RouteStep, Enqueue, ResumeUpdate, QueueEnqueue, StoreUpdate,
              StatusInv, TypeInv, TypeOK, QueueTypeOK
<1>6. ASSUME NEW t \in Tasks, Create(c, t) \/ ResumeCheck(c, t) \/ CancelMark(c, t)
      PROVE  /\ runs' = runs
             /\ \A u \in Tasks : status'[u] = status[u] \/ status'[u] = "queued"
  BY <1>6 DEF Create, ResumeCheck, CancelMark, StoreCreate, tasks,
              StatusInv, TypeInv, TypeOK, QueueTypeOK
<1>7. CASE /\ runs' = runs
           /\ \A t \in Tasks : status'[t] = status[t] \/ status'[t] = "queued"
  BY <1>1, <1>7 DEF StatusInv, StatusIsBacked
<1> QED  BY <1>3, <1>4, <1>5, <1>6, <1>7 DEF RouteStep, Request

\* Without heartbeats that revive a cancelled attempt, exceptions that leave
\* run_once() and crashes, what a status says is so, however many threads have
\* claimed a task and however many routes create, resume and cancel it at once:
\* a Running task is executed by a thread on a Running attempt, and a Cancelled
\* one has no attempt that shows Running.
THEOREM StatusAlwaysBacked ==
  ASSUME Heartbeating = {}, ThrowsForeign = {}, MaxCrashes = 0
  PROVE  Spec => []StatusIsBacked
<1>1. Init => StatusInv
  <2> SUFFICES ASSUME Init PROVE StatusIsBacked
    BY TypeInit, AttemptInit DEF StatusInv
  <2> QED  BY DEF Init, QueueInit, StatusIsBacked
<1>2. StatusInv /\ [Next]_vars => StatusInv'
  <2> SUFFICES ASSUME StatusInv, [Next]_vars PROVE StatusIsBacked'
    BY TypeStep, AttemptStep DEF StatusInv
  <2>1. CASE UNCHANGED vars
    BY <2>1 DEF StatusInv, StatusIsBacked, vars
  <2>2. ~Failure
    BY BoundsAssumption
       DEF StatusInv, TypeInv, TypeOK, Failure, Crash, TornClaim, TornSettle,
           TornCancel, Restart
  <2>3. ~ \E w \in Workers : Heartbeat(w) \/ HandlerThrowsForeign(w)
    BY DEF Heartbeat, HandlerThrowsForeign
  <2> QED  BY <2>1, <2>2, <2>3, StatusRunOnce, StatusRoutes DEF Next
<1>3. StatusInv => StatusIsBacked
  BY DEF StatusInv
<1> QED  BY <1>1, <1>2, <1>3, PTL DEF Spec
-----------------------------------------------------------------------------
(* Cancel requests.  mark_cancelled and queue_.cancel are two steps, and   *)
(* the mark of one task is shared by all requests for it: the worker that  *)
(* clears it might clear the mark of a request that has not reached the    *)
(* queue yet.  It does no harm, because by then nobody is still to look.   *)

\* Workers that have yet to look at the outcome of their handler.
ToLook(w) == pc[w] \in {"claimed", "handler", "returned", "threw"}

HonourInv ==
  /\ ClaimInv
  /\ \A w \in Workers :
       ToLook(w) /\ status[held[w]] = "cancelled" => held[w] \in cancelled
  /\ \A c \in Clients :
       call[c].op = "cancel" =>
         \/ call[c].task \in cancelled
         \/ /\ status[call[c].task] # "queued"
            /\ \A w \in Workers : ToLook(w) => held[w] # call[c].task

LEMMA HonourRunOnce ==
  ASSUME HonourInv, ClaimInv', NEW w \in Workers, RunOnce(w)
  PROVE  HonourInv'
<1> USE DEF HonourInv, ToLook
<1>1. /\ pc \in [Workers -> Location]
      /\ status \in [Tasks -> TaskStatus]
      /\ \A v \in Workers : pc[v] # "idle" => held[v] \in Tasks
      /\ \A c \in Clients : call[c].op # "idle" => call[c].task \in Tasks
      /\ None \notin Tasks
  BY NoneAssumption DEF ClaimInv, TypeInv, TypeOK, QueueTypeOK, FrameOK
<1>2. /\ \A v \in Workers : pc[v] # "idle" => status[held[v]] # "queued"
      /\ \A v \in Workers : v # w /\ pc[v] # "idle" => held[v] # held[w]
  BY <1>1 DEF ClaimInv, SingleExecution
<1>3. call' = call
  BY DEF RunOnce, Claim, Register, HandlerReturns, HandlerThrows, CheckReturned,
         CheckThrown, SaveOutput, Complete, Fail, Settle, CancelClaimed,
         ClearCancelled, Unregister
<1>4. CASE Claim(w)
  <2>1. PICK t \in Tasks : QueueClaim(t) /\ held' = [held EXCEPT ![w] = t]
    BY <1>4 DEF Claim
  <2>2. /\ status[t] = "queued" /\ status' = [status EXCEPT ![t] = "running"]
        /\ pc[w] = "idle" /\ pc' = [pc EXCEPT ![w] = "claimed"]
        /\ cancelled' = cancelled
    BY <1>4, <2>1 DEF QueueClaim, FirstQueued, Claim, Goto, worker
  <2>3. /\ held'[w] = t
        /\ \A v \in Workers : v # w => held'[v] = held[v] /\ pc'[v] = pc[v]
    BY <1>1, <2>1, <2>2 DEF ClaimInv, TypeInv, TypeOK
  <2>4. \A v \in Workers : ToLook(v)' /\ status'[held'[v]] = "cancelled" => held'[v] \in cancelled'
    BY <1>1, <1>2, <2>2, <2>3
  <2>5. ASSUME NEW c \in Clients, call[c].op = "cancel"
        PROVE  \/ call[c].task \in cancelled
               \/ /\ status'[call[c].task] # "queued"
                  /\ \A v \in Workers : ToLook(v)' => held'[v] # call[c].task
    BY <1>1, <2>2, <2>3, <2>5
  <2> QED  BY <1>3, <2>2, <2>4, <2>5
<1>5. CASE ClearCancelled(w)
  <2>1. /\ pc[w] = "clearing" /\ pc' = [pc EXCEPT ![w] = "unregister"]
        /\ cancelled' = cancelled \ {held[w]}
        /\ UNCHANGED <<status, held>>
    BY <1>5 DEF ClearCancelled, Goto, tasks
  <2> QED  BY <1>1, <1>2, <1>3, <2>1
<1>6. CASE Complete(w) \/ Fail(w) \/ CancelClaimed(w)
  <2>1. PICK s \in {"completed", "failed", "cancelled"} :
          status' = [status EXCEPT ![held[w]] = s]
    BY <1>6 DEF Complete, Fail, CancelClaimed, Settle, QueueSettle, QueueCancel
  <2>2. /\ pc[w] # "idle" /\ ~ToLook(w)
        /\ \E to \in {"clearing", "unregister"} : pc' = [pc EXCEPT ![w] = to]
        /\ UNCHANGED <<held, cancelled>>
    BY <1>6 DEF Complete, Fail, CancelClaimed, Settle, Goto, worker
  <2>3. \A v \in Workers : ToLook(v)' => ToLook(v) /\ v # w
    BY <1>1, <2>2
  <2>4. \A t \in Tasks : t # held[w] => status'[t] = status[t]
    BY <1>1, <2>1
  <2>5. status'[held[w]] # "queued"
    BY <1>1, <2>1, <2>2
  <2> QED  BY <1>1, <1>2, <1>3, <2>2, <2>3, <2>4, <2>5
<1>7. ASSUME \/ Register(w) \/ HandlerReturns(w) \/ HandlerThrows(w)
             \/ CheckReturned(w) \/ CheckThrown(w) \/ SaveOutput(w) \/ Unregister(w)
      PROVE  HonourInv'
  <2>1. UNCHANGED <<status, cancelled>>
    BY <1>7 DEF Register, HandlerReturns, HandlerThrows, CheckReturned,
                CheckThrown, SaveOutput, Unregister, tasks, worker
  <2>2. \A v \in Workers : ToLook(v)' => ToLook(v) /\ held'[v] = held[v]
    <3>1. CASE Unregister(w)
      BY <1>1, <3>1 DEF Unregister, Goto, ClaimInv, TypeInv, TypeOK
    <3>2. CASE ~Unregister(w)
      BY <1>1, <1>7, <3>2
         DEF Register, HandlerReturns, HandlerThrows, CheckReturned,
             CheckThrown, SaveOutput, Goto
    <3> QED  BY <3>1, <3>2
  <2> QED  BY <1>3, <2>1, <2>2
<1> QED  BY <1>4, <1>5, <1>6, <1>7 DEF RunOnce

LEMMA HonourRoutes ==
  ASSUME Cancellers \cap Detached = {}, Submitters = {}, Resumers = {},
         HonourInv, ClaimInv', NEW c \in Clients,
         RouteStep(c) \/ \E t \in Tasks : Request(c, t)
  PROVE  HonourInv'
<1> USE DEF HonourInv, ToLook
<1>1. /\ call \in [Clients -> Route]
      /\ status \in [Tasks -> TaskStatus]
      /\ \A v \in Workers : pc[v] # "idle" => held[v] \in Tasks
      /\ \A d \in Clients : call[d].op # "idle" => call[d].task \in Tasks
  BY DEF ClaimInv, TypeInv, TypeOK, QueueTypeOK, FrameOK
<1>2. CASE RouteStep(c)
  <2>1. CancelQueue(c)
    BY <1>2 DEF ClaimInv, RouteStep, Enqueue, ResumeUpdate, Leave
  <2>2. /\ call[c].op = "cancel"
        /\ call' = [call EXCEPT ![c] = Idle]
        /\ status' = [status EXCEPT ![call[c].task] = "cancelled"]
        /\ UNCHANGED <<pc, held, cancelled>>
    BY <2>1 DEF CancelQueue, Leave, QueueCancel, worker, frames
  <2>3. call[c].task \in Tasks
    BY <1>1, <2>2
  <2>4. \A w \in Workers : ToLook(w) /\ status'[held[w]] = "cancelled" => held[w] \in cancelled
    BY <1>1, <2>2, <2>3
  <2>5. ASSUME NEW d \in Clients, call'[d].op = "cancel"
        PROVE  \/ call'[d].task \in cancelled
               \/ /\ status'[call'[d].task] # "queued"
                  /\ \A w \in Workers : ToLook(w) => held[w] # call'[d].task
    <3>1. call'[d] = call[d]
      BY <1>1, <2>2, <2>5 DEF Idle
    <3> QED  BY <1>1, <2>2, <2>3, <2>5, <3>1
  <2> QED  BY <2>2, <2>4, <2>5
<1>3. ASSUME NEW t \in Tasks, Request(c, t)
      PROVE  HonourInv'
  <2>1. CancelMark(c, t)
    BY <1>3 DEF Request, Create, ResumeCheck, CancelDetached
  <2>2. /\ cancelled' = cancelled \cup {t}
        /\ call' = [call EXCEPT ![c] = [op |-> "cancel", task |-> t]]
        /\ UNCHANGED <<status, pc, held>>
    BY <2>1 DEF CancelMark, Enter, tasks
  <2> QED  BY <1>1, <2>2
<1> QED  BY <1>2, <1>3

LEMMA HonourStep ==
  ASSUME Submitters = {}, Resumers = {}, Cancellers \cap Detached = {}
  PROVE  HonourInv /\ [Next]_vars => HonourInv'
<1> SUFFICES ASSUME HonourInv, [Next]_vars PROVE HonourInv'
  OBVIOUS
<1>1. ClaimInv'
  BY ClaimStep DEF HonourInv
<1>2. CASE UNCHANGED vars
  BY <1>1, <1>2 DEF HonourInv, ToLook, vars
<1>3. ASSUME NEW w \in Workers, Heartbeat(w) \/ HandlerThrowsForeign(w)
      PROVE  HonourInv'
  <2>1. UNCHANGED <<status, cancelled, held, call>>
    BY <1>3 DEF Heartbeat, HandlerThrowsForeign, QueueHeartbeat, frames, worker, tasks
  <2>2. \A v \in Workers : ToLook(v)' => ToLook(v)
    BY <1>3 DEF Heartbeat, HandlerThrowsForeign, Goto, frames, ToLook,
                HonourInv, ClaimInv, TypeInv, TypeOK
  <2> QED  BY <1>1, <2>1, <2>2 DEF HonourInv
<1>4. CASE Failure
  <2>1. Restart
    BY <1>4 DEF Failure, Crash, TornClaim, TornSettle, TornCancel
  <2>2. /\ \A w \in Workers : pc'[w] = "idle"
        /\ \A c \in Clients : call'[c].op = "idle"
    BY <2>1 DEF Restart, Idle
  <2> QED  BY <1>1, <2>2 DEF HonourInv, ToLook
<1> QED  BY <1>1, <1>2, <1>3, <1>4, HonourRunOnce, HonourRoutes DEF Next

\* A worker whose task was cancelled through the worker goes on to neither
\* complete nor fail it, for any number of workers, of requests that overlap on
\* one task, of heartbeats, foreign exceptions and crashes.  Not so where a
\* server without a worker cancels (it leaves no mark), nor beside create and
\* resume routes (two threads then share the mark of one task).
THEOREM CancelsHonoured ==
  ASSUME Submitters = {}, Resumers = {}, Cancellers \cap Detached = {}
  PROVE  Spec => CancelHonoured
<1> DEFINE Honoured == \A w \in Workers :
             /\ pc[w] \in {"claimed", "handler", "returned", "threw"}
             /\ status[held[w]] = "cancelled"
             => pc'[w] \notin {"output", "failing"}
<1>1. Init => HonourInv
  BY ClaimInit DEF HonourInv, ToLook, Init, Idle
<1>2. HonourInv /\ [Next]_vars => HonourInv'
  BY HonourStep
<1>3. HonourInv /\ [Next]_vars => [Honoured]_vars
  <2> SUFFICES ASSUME HonourInv, Next, NEW w \in Workers,
                      ToLook(w), status[held[w]] = "cancelled"
               PROVE  pc'[w] \notin {"output", "failing"}
    BY DEF ToLook
  <2>1. held[w] \in cancelled /\ pc \in [Workers -> Location]
    BY DEF HonourInv, ClaimInv, TypeInv, TypeOK
  <2>2. ASSUME NEW v \in Workers, RunOnce(v)
        PROVE  pc'[w] \notin {"output", "failing"}
    <3>1. CASE CheckReturned(v) \/ CheckThrown(v)
      BY <2>1, <3>1 DEF CheckReturned, CheckThrown, Goto, ToLook
    <3>2. CASE SaveOutput(v) \/ Complete(v) \/ Fail(v) \/ CancelClaimed(v)
               \/ ClearCancelled(v) \/ Unregister(v)
      BY <2>1, <3>2 DEF SaveOutput, Complete, Fail, Settle, CancelClaimed,
                        ClearCancelled, Unregister, Goto, ToLook
    <3>3. CASE Claim(v) \/ Register(v) \/ HandlerReturns(v) \/ HandlerThrows(v)
      BY <2>1, <3>3 DEF Claim, Register, HandlerReturns, HandlerThrows, Goto, ToLook
    <3> QED  BY <2>2, <3>1, <3>2, <3>3 DEF RunOnce
  <2>3. ASSUME NEW v \in Workers, Heartbeat(v) \/ HandlerThrowsForeign(v)
        PROVE  pc'[w] \notin {"output", "failing"}
    BY <2>1, <2>3 DEF Heartbeat, HandlerThrowsForeign, Goto, frames, ToLook
  <2>4. CASE (\E c \in Clients : RouteStep(c))
             \/ (\E c \in Clients, t \in Tasks : Request(c, t))
    BY <2>4 DEF RouteStep, Request, Enqueue, ResumeUpdate, CancelQueue, Create,
                ResumeCheck, CancelMark, CancelDetached, frames, ToLook
  <2>5. CASE Failure
    BY <2>5 DEF Failure, Crash, TornClaim, TornSettle, TornCancel, Restart
  <2> QED  BY <2>2, <2>3, <2>4, <2>5 DEF Next
<1> QED  BY <1>1, <1>2, <1>3, PTL DEF Spec, CancelHonoured
-----------------------------------------------------------------------------
(* The lifecycle.  A claim starts a task, a settlement or the cancellation *)
(* by its own worker ends it, a cancel route cancels it, and every other   *)
(* step of the worker, the routes and the handlers is a stutter.           *)

LifeInv ==
  /\ ClaimInv
  /\ \A c \in Clients : call[c].op = "cancel" => status[call[c].task] # "none"

ExecutedBy(t, w) == held[w] = t /\ pc[w] \in Executing

OwnerRight ==
  \A t \in Tasks :
    /\ \A w \in Workers : ExecutedBy(t, w) => owner[t] = w
    /\ (\A w \in Workers : ~ExecutedBy(t, w)) => owner[t] = None

\* The owner is determined where a claim is exclusive, whatever the frames.
LEMMA OwnerDetermined ==
  ASSUME NEW h, NEW p, NEW t \in Tasks, None \notin Tasks,
         \A v, w \in Workers : v # w /\ h[v] = h[w] => h[v] = None
  PROVE  LET o == IF \E w \in Workers : h[w] = t /\ p[w] \in Executing
                  THEN CHOOSE w \in Workers : h[w] = t /\ p[w] \in Executing
                  ELSE None
         IN  /\ \A w \in Workers : h[w] = t /\ p[w] \in Executing => o = w
             /\ (\A w \in Workers : ~(h[w] = t /\ p[w] \in Executing)) => o = None
OBVIOUS

LEMMA OwnerNow == ClaimInv => OwnerRight
BY OwnerDetermined, NoneAssumption
   DEF ClaimInv, SingleExecution, OwnerRight, ExecutedBy, owner

LEMMA OwnerNext == ClaimInv' => OwnerRight'
BY OwnerDetermined, NoneAssumption
   DEF ClaimInv, SingleExecution, OwnerRight, ExecutedBy, owner

\* A step that leaves the frames of t as they are leaves its owner.
LEMMA OwnerKept ==
  ASSUME OwnerRight, OwnerRight', NEW t \in Tasks,
         \A w \in Workers :
           held[w] = t /\ pc[w] \in Executing <=> held'[w] = t /\ pc'[w] \in Executing
  PROVE  owner'[t] = owner[t]
BY DEF OwnerRight, ExecutedBy

\* A step after which no frame but the new one of w, or none at all, is another.
LEMMA OwnerMoved ==
  ASSUME OwnerRight, OwnerRight', NEW t \in Tasks, NEW o,
         \A u \in Tasks : u # t => \A w \in Workers :
           held[w] = u /\ pc[w] \in Executing <=> held'[w] = u /\ pc'[w] \in Executing,
         owner'[t] = o
  PROVE  owner' = [owner EXCEPT ![t] = o]
<1>1. \A u \in Tasks : u # t => owner'[u] = owner[u]
  BY OwnerKept
<1>2. /\ owner = [u \in Tasks |-> owner[u]]
      /\ owner' = [u \in Tasks |-> owner'[u]]
  BY DEF owner
<1> QED  BY <1>1, <1>2

LEMMA OwnerSame ==
  ASSUME OwnerRight, OwnerRight',
         \A t \in Tasks : \A w \in Workers :
           held[w] = t /\ pc[w] \in Executing <=> held'[w] = t /\ pc'[w] \in Executing
  PROVE  owner' = owner
<1>1. \A u \in Tasks : owner'[u] = owner[u]
  BY OwnerKept
<1>2. /\ owner = [u \in Tasks |-> owner[u]]
      /\ owner' = [u \in Tasks |-> owner'[u]]
  BY DEF owner
<1> QED  BY <1>1, <1>2

LEMMA LifeRunOnce ==
  ASSUME LifeInv, LifeInv', NEW w \in Workers, RunOnce(w)
  PROVE  [Lifecycle!Next]_(Lifecycle!vars)
<1>1. /\ pc \in [Workers -> Location]
      /\ held \in [Workers -> Tasks \cup {None}]
      /\ status \in [Tasks -> TaskStatus]
      /\ \A v \in Workers : pc[v] # "idle" => held[v] \in Tasks
      /\ None \notin Tasks /\ None \notin Workers
  BY NoneAssumption DEF LifeInv, ClaimInv, TypeInv, TypeOK, QueueTypeOK, FrameOK
<1>2. OwnerRight /\ OwnerRight'
  BY OwnerNow, OwnerNext DEF LifeInv
<1>3. /\ \A v \in Workers : held[v] # None => status[held[v]] # "queued"
      /\ SingleExecution
  BY DEF LifeInv, ClaimInv
<1>4. CASE Claim(w)
  <2>1. PICK t \in Tasks : QueueClaim(t) /\ held' = [held EXCEPT ![w] = t]
    BY <1>4 DEF Claim
  <2>2. /\ status[t] = "queued" /\ status' = [status EXCEPT ![t] = "running"]
        /\ pc[w] = "idle" /\ pc' = [pc EXCEPT ![w] = "claimed"]
    BY <1>4, <2>1 DEF QueueClaim, FirstQueued, Claim, Goto
  <2>3. \A v \in Workers : held[v] # t
    BY <1>1, <1>3, <2>2
  <2>4. owner[t] = None
    BY <1>2, <2>3 DEF OwnerRight, ExecutedBy
  <2>5. \A u \in Tasks : owner[u] # w
    <3> SUFFICES ASSUME NEW u \in Tasks, owner[u] = w PROVE FALSE
      OBVIOUS
    <3>1. PICK v \in Workers : ExecutedBy(u, v)
      BY <1>1, <1>2 DEF OwnerRight
    <3>2. v = w
      BY <1>2, <3>1 DEF OwnerRight
    <3> QED  BY <2>2, <3>1, <3>2 DEF ExecutedBy, Executing
  <2>6. held'[w] = t /\ pc'[w] \in Executing
    BY <1>1, <2>1, <2>2 DEF Executing
  <2>7. owner'[t] = w
    BY <1>2, <2>6 DEF OwnerRight, ExecutedBy
  <2>8. \A u \in Tasks : u # t => \A v \in Workers :
          held[v] = u /\ pc[v] \in Executing <=> held'[v] = u /\ pc'[v] \in Executing
    BY <1>1, <2>1, <2>2, <2>6 DEF Executing
  <2>9. owner' = [owner EXCEPT ![t] = w]
    BY <1>2, <2>7, <2>8, OwnerMoved
  <2>10. Lifecycle!Start(w, t)
    BY <2>2, <2>4, <2>5, <2>9 DEF Lifecycle!Start
  <2> QED  BY <2>10 DEF Lifecycle!Next
<1>5. CASE Complete(w) \/ Fail(w) \/ CancelClaimed(w)
  <2>1. PICK s \in {"completed", "failed", "cancelled"} :
          status' = [status EXCEPT ![held[w]] = s]
    BY <1>5 DEF Complete, Fail, CancelClaimed, Settle, QueueSettle, QueueCancel
  <2>2. /\ pc[w] \in Executing /\ pc[w] # "idle"
        /\ \E to \in {"clearing", "unregister"} : pc' = [pc EXCEPT ![w] = to]
        /\ held' = held
    BY <1>5 DEF Complete, Fail, CancelClaimed, Settle, Goto, Executing
  <2>3. /\ held[w] \in Tasks /\ pc'[w] \notin Executing
        /\ \A v \in Workers : v # w => pc'[v] = pc[v] /\ held[v] # held[w]
    BY <1>1, <1>3, <2>2 DEF Executing, SingleExecution
  <2>4. owner[held[w]] = w
    BY <1>2, <2>2, <2>3 DEF OwnerRight, ExecutedBy
  <2> DEFINE t == held[w]
  <2>5. \A v \in Workers : ~(held'[v] = t /\ pc'[v] \in Executing)
    BY <2>2, <2>3
  <2>6. t \in Tasks /\ owner'[t] = None
    <3>1. ASSUME NEW u \in Tasks, u = t PROVE owner'[u] = None
      BY <1>2, <2>5, <3>1 DEF OwnerRight, ExecutedBy
    <3> QED  BY <2>3, <3>1
  <2>7. \A u \in Tasks : u # t => \A v \in Workers :
          held[v] = u /\ pc[v] \in Executing <=> held'[v] = u /\ pc'[v] \in Executing
    BY <2>2, <2>3
  <2>8. owner' = [owner EXCEPT ![t] = None]
    BY <1>2, <2>6, <2>7, OwnerMoved
  <2>9. Lifecycle!Settle(t, s)
    BY <1>1, <2>1, <2>4, <2>8 DEF Lifecycle!Settle
  <2> QED  BY <2>6, <2>9 DEF Lifecycle!Next
<1>6. ASSUME \/ Register(w) \/ HandlerReturns(w) \/ HandlerThrows(w)
             \/ CheckReturned(w) \/ CheckThrown(w) \/ SaveOutput(w)
             \/ ClearCancelled(w) \/ Unregister(w)
      PROVE  UNCHANGED Lifecycle!vars
  <2>1. status' = status
    BY <1>6 DEF Register, HandlerReturns, HandlerThrows, CheckReturned,
                CheckThrown, SaveOutput, ClearCancelled, Unregister, tasks
  <2>2. CASE Unregister(w)
    <3>1. /\ pc[w] = "unregister" /\ pc' = [pc EXCEPT ![w] = "idle"]
          /\ held' = [held EXCEPT ![w] = None]
      BY <2>2 DEF Unregister, Goto
    <3>2. \A t \in Tasks : \A v \in Workers :
            held[v] = t /\ pc[v] \in Executing <=> held'[v] = t /\ pc'[v] \in Executing
      BY <1>1, <3>1 DEF Executing
    <3> QED  BY <1>2, <2>1, <3>2, OwnerSame DEF Lifecycle!vars
  <2>3. CASE ~Unregister(w)
    <3>1. /\ held' = held
          /\ \E to : /\ pc' = [pc EXCEPT ![w] = to]
                     /\ pc[w] \in Executing <=> to \in Executing
      BY <1>6, <2>3 DEF Register, HandlerReturns, HandlerThrows, CheckReturned,
                        CheckThrown, SaveOutput, ClearCancelled, Goto, Executing
    <3>2. \A v \in Workers : pc[v] \in Executing <=> pc'[v] \in Executing
      BY <1>1, <3>1
    <3> QED  BY <1>2, <2>1, <3>1, <3>2, OwnerSame DEF Lifecycle!vars
  <2> QED  BY <2>2, <2>3
<1> QED  BY <1>4, <1>5, <1>6 DEF RunOnce

LEMMA LifeRoutes ==
  ASSUME Submitters = {}, Resumers = {}, LifeInv, LifeInv', NEW c \in Clients,
         RouteStep(c) \/ \E t \in Tasks : Request(c, t)
  PROVE  [Lifecycle!Next]_(Lifecycle!vars)
<1>1. UNCHANGED <<pc, held>>
  BY DEF RouteStep, Request, Enqueue, ResumeUpdate, CancelQueue, Create,
         ResumeCheck, CancelMark, CancelDetached, frames
<1>2. owner' = owner
  BY <1>1, OwnerNow, OwnerNext, OwnerSame DEF LifeInv
<1>3. CASE RouteStep(c)
  <2>1. CancelQueue(c)
    BY <1>3 DEF LifeInv, ClaimInv, RouteStep, Enqueue, ResumeUpdate, Leave
  <2>2. call[c].task \in Tasks /\ status[call[c].task] # "none"
    BY <2>1 DEF CancelQueue, Leave, LifeInv, ClaimInv, TypeInv, FrameOK
  <2>3. Lifecycle!Cancel(call[c].task)
    BY <1>2, <2>1, <2>2 DEF CancelQueue, QueueCancel, Lifecycle!Cancel
  <2> QED  BY <2>2, <2>3 DEF Lifecycle!Next
<1>4. ASSUME NEW t \in Tasks, Request(c, t)
      PROVE  [Lifecycle!Next]_(Lifecycle!vars)
  <2>1. CancelMark(c, t) \/ CancelDetached(c, t)
    BY <1>4 DEF Request, Create, ResumeCheck
  <2>2. CASE CancelMark(c, t)
    BY <1>2, <2>2 DEF CancelMark, tasks, Lifecycle!vars
  <2>3. CASE CancelDetached(c, t)
    <3>1. Lifecycle!Cancel(t)
      BY <1>2, <2>3 DEF CancelDetached, QueueCancel, Lifecycle!Cancel
    <3> QED  BY <3>1 DEF Lifecycle!Next
  <2> QED  BY <2>1, <2>2, <2>3
<1> QED  BY <1>3, <1>4

LEMMA LifeInit == Init => LifeInv /\ Lifecycle!Init
<1> SUFFICES ASSUME Init PROVE LifeInv /\ Lifecycle!Init
  OBVIOUS
<1>1. LifeInv
  BY ClaimInit DEF LifeInv, Init, Idle
<1>2. \A t \in Tasks, w \in Workers : ~(held[w] = t /\ pc[w] \in Executing)
  BY DEF Init, Executing
<1>3. owner = [t \in Tasks |-> None]
  BY <1>2 DEF owner
<1>4. status \in [Tasks -> {"none", "queued"}]
  BY DEF Init, QueueInit
<1> QED  BY <1>1, <1>3, <1>4 DEF Lifecycle!Init

\* No operation writes "none" over a status that is something else.
LEMMA LifeExists ==
  ASSUME TypeInv, Next, NEW t \in Tasks, status[t] # "none", ~Failure
  PROVE  status'[t] # "none"
<1> USE DEF TypeInv, TypeOK, QueueTypeOK
<1>1. ASSUME NEW w \in Workers, RunOnce(w)
      PROVE  status'[t] # "none"
  <2>1. CASE Claim(w)
    BY <2>1 DEF Claim, QueueClaim
  <2>2. CASE Complete(w) \/ Fail(w) \/ CancelClaimed(w)
    BY <2>2 DEF Complete, Fail, CancelClaimed, Settle, QueueSettle, QueueCancel
  <2>3. CASE status' = status
    BY <2>3
  <2>4. Claim(w) \/ Complete(w) \/ Fail(w) \/ CancelClaimed(w) \/ status' = status
    BY <1>1 DEF RunOnce, Register, HandlerReturns, HandlerThrows, CheckReturned,
                CheckThrown, SaveOutput, ClearCancelled, Unregister, tasks
  <2> QED  BY <2>1, <2>2, <2>3, <2>4
<1>2. ASSUME NEW w \in Workers, Heartbeat(w) \/ HandlerThrowsForeign(w)
      PROVE  status'[t] # "none"
  BY <1>2 DEF Heartbeat, QueueHeartbeat, HandlerThrowsForeign, tasks
<1>3. ASSUME NEW c \in Clients, RouteStep(c)
      PROVE  status'[t] # "none"
  BY <1>3 DEF RouteStep, Enqueue, ResumeUpdate, CancelQueue, QueueEnqueue,
              StoreUpdate, QueueCancel
<1>4. ASSUME NEW c \in Clients, NEW u \in Tasks, Request(c, u)
      PROVE  status'[t] # "none"
  BY <1>4 DEF Request, Create, ResumeCheck, CancelMark, CancelDetached,
              StoreCreate, QueueCancel, tasks
<1> QED  BY <1>1, <1>2, <1>3, <1>4 DEF Next

\* Tasks that are enqueued before the workers start go through the abstract
\* lifecycle: each is started by one thread, settled by that thread alone and
\* otherwise only ever cancelled, for any number of tasks, threads, cancels (with
\* or without a worker) and heartbeats.  An exception that leaves run_once() and
\* a crash end the ownership of a task without settling it, and a create or
\* resume route queues a task again: those are left out.
THEOREM LifecycleImplemented ==
  ASSUME Submitters = {}, Resumers = {}, ThrowsForeign = {}, MaxCrashes = 0
  PROVE  Spec => ImplementsLifecycle
<1>1. TypeInv => ~Failure
  BY BoundsAssumption
     DEF TypeInv, TypeOK, Failure, Crash, TornClaim, TornSettle, TornCancel, Restart
<1>2. LifeInv /\ [Next]_vars => LifeInv'
  <2> SUFFICES ASSUME LifeInv, [Next]_vars PROVE LifeInv'
    OBVIOUS
  <2>1. ClaimInv'
    BY ClaimStep DEF LifeInv
  <2>2. CASE UNCHANGED vars
    BY <2>1, <2>2 DEF LifeInv, vars
  <2>3. CASE Next
    <3> SUFFICES ASSUME NEW c \in Clients, call'[c].op = "cancel"
                 PROVE  status'[call'[c].task] # "none"
      BY <2>1 DEF LifeInv
    <3>1. call'[c].task \in Tasks
      BY <2>1 DEF ClaimInv, TypeInv, FrameOK
    <3>2. status[call'[c].task] # "none"
      <4>1. CASE call'[c] = call[c]
        BY <4>1 DEF LifeInv
      <4>2. CASE call'[c] # call[c]
        <5>1. PICK d \in Clients : CancelQueue(d) \/ \E t \in Tasks : CancelMark(d, t)
          BY <1>1, <2>3, <4>2, NoneAssumption
             DEF LifeInv, ClaimInv, Next, RunOnce, RouteStep, Request, Claim,
                 Register, HandlerReturns, HandlerThrows, CheckReturned,
                 CheckThrown, SaveOutput, Complete, Fail, Settle, CancelClaimed,
                 ClearCancelled, Unregister, Heartbeat, HandlerThrowsForeign,
                 Enqueue, ResumeUpdate, Leave, Create, ResumeCheck, CancelDetached
        <5> QED  BY <4>2, <5>1
                 DEF CancelMark, CancelQueue, Enter, Leave, Idle,
                     LifeInv, ClaimInv, TypeInv, TypeOK
      <4> QED  BY <4>1, <4>2
    <3> QED  BY <1>1, <2>3, <3>1, <3>2, LifeExists DEF LifeInv, ClaimInv
  <2> QED  BY <2>2, <2>3
<1>3. LifeInv /\ LifeInv' /\ [Next]_vars => [Lifecycle!Next]_(Lifecycle!vars)
  <2> SUFFICES ASSUME LifeInv, LifeInv', [Next]_vars
               PROVE  [Lifecycle!Next]_(Lifecycle!vars)
    OBVIOUS
  <2>1. CASE UNCHANGED vars
    BY <2>1, OwnerNow, OwnerNext, OwnerSame DEF LifeInv, vars, Lifecycle!vars
  <2>2. ASSUME NEW w \in Workers, Heartbeat(w)
        PROVE  UNCHANGED Lifecycle!vars
    <3>1. UNCHANGED <<status, pc, held>>
      BY <2>2 DEF Heartbeat, QueueHeartbeat, frames
    <3> QED  BY <3>1, OwnerNow, OwnerNext, OwnerSame DEF LifeInv, Lifecycle!vars
  <2>3. ~Failure /\ ~ \E w \in Workers : HandlerThrowsForeign(w)
    BY <1>1 DEF LifeInv, ClaimInv, HandlerThrowsForeign
  <2> QED  BY <2>1, <2>2, <2>3, LifeRunOnce, LifeRoutes DEF Next
<1> QED  BY <1>2, <1>3, LifeInit, PTL DEF Spec, ImplementsLifecycle, Lifecycle!Spec
=============================================================================
