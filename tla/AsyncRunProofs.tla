--------------------------- MODULE AsyncRunProofs ---------------------------
(***************************************************************************)
(* Theorems about AsyncRun, for every set of runs, worker threads and      *)
(* controllers, every parent relation and every policy limit and bound.    *)
(***************************************************************************)
EXTENDS AsyncRun, TaskQueueProofs

-----------------------------------------------------------------------------
(* Types.  A thread inside run_once() holds a run and a controller inside  *)
(* an operation works on one: the updates at held[w] and call[c].run stay  *)
(* within the store.                                                       *)

FrameOK ==
  /\ \A w \in Workers : pc[w] # "idle" => held[w] \in Tasks
  /\ \A c \in Controllers : call[c].op # "idle" => call[c].run \in Tasks

TypeInv == TypeOK /\ FrameOK

USE DEF Location

LEMMA TypeInit == Init => TypeInv
<1> SUFFICES ASSUME Init PROVE TypeInv
  OBVIOUS
<1>1. QueueTypeOK
  BY PreloadedAssumption DEF Init, QueueInit, QueueTypeOK, TaskStatus
<1>2. TypeOK
  BY <1>1, BoundsAssumption DEF Init, TypeOK, Idle, Operation
<1>3. FrameOK
  BY DEF Init, FrameOK, Idle
<1> QED  BY <1>2, <1>3 DEF TypeInv

\* The frame takes the run that was popped, whether or not a CancelStore of it
\* is overwritten.
LEMMA TypeClaim ==
  ASSUME TypeInv, NEW w \in Workers, Claim(w)
  PROVE  TypeInv'
<1>1. PICK t \in Tasks :
        /\ QueueClaim(t)
        /\ Goto(w, "idle", IF t \in Foreign THEN "foreign" ELSE "claimed")
        /\ held' = [held EXCEPT ![w] = t]
        /\ attempt' = [attempt EXCEPT ![w] = Len(runs[t]) + 1]
        /\ \/ UNCHANGED call
           \/ \E c \in Controllers :
                Overwritten(c, t) /\ call' = [call EXCEPT ![c] = Idle]
  BY DEF Claim
<1>2. QueueTypeOK'
  BY <1>1, QueueClaimType DEF TypeInv, TypeOK
<1>3. Len(runs[t]) \in Nat
  BY DEF TypeInv, TypeOK, QueueTypeOK
<1>4. /\ call' \in [Controllers -> [op : Operation, run : Tasks \cup {None}]]
      /\ \A c \in Controllers : call'[c].op # "idle" => call'[c].run \in Tasks
  <2>1. CASE UNCHANGED call
    BY <2>1 DEF TypeInv, TypeOK, FrameOK
  <2>2. ASSUME NEW c \in Controllers, call' = [call EXCEPT ![c] = Idle]
        PROVE  /\ call' \in [Controllers -> [op : Operation, run : Tasks \cup {None}]]
               /\ \A d \in Controllers : call'[d].op # "idle" => call'[d].run \in Tasks
    BY <2>2 DEF TypeInv, TypeOK, FrameOK, Idle, Operation
  <2> QED  BY <1>1, <2>1, <2>2
<1>5. TypeOK'
  BY <1>1, <1>2, <1>3, <1>4 DEF TypeInv, TypeOK, Claim, Goto, worker
<1>6. FrameOK'
  BY <1>1, <1>4 DEF TypeInv, TypeOK, FrameOK, Goto
<1> QED  BY <1>5, <1>6 DEF TypeInv

LEMMA TypeRunOnce ==
  ASSUME TypeInv, NEW w \in Workers, RunOnce(w)
  PROVE  TypeInv'
<1> USE DEF TypeInv, TypeOK, FrameOK, Goto, Return, tasks, worker, frames
<1>1. CASE Claim(w)
  BY <1>1, TypeClaim
<1>2. CASE ClaimNothing(w)
  <2>1. QueueTypeOK'
    BY <1>2, QueueClaimNothingType DEF ClaimNothing
  <2> QED  BY <1>2, <2>1 DEF ClaimNothing
<1>3. CASE HandBack(w)
  <2>1. QueueTypeOK'
    BY <1>3, StoreUpdateType DEF HandBack, TaskStatus
  <2> QED  BY <1>3, <2>1 DEF HandBack
<1>4. CASE Register(w)
  BY <1>4 DEF Register, QueueTypeOK
<1>5. CASE StreamReturns(w) \/ StreamCancelled(w) \/ StreamThrows(w)
  BY <1>5 DEF StreamReturns, StreamCancelled, StreamThrows, QueueTypeOK
<1>6. CASE CheckThrown(w)
  BY <1>6 DEF CheckThrown, QueueTypeOK
<1>7. CASE Complete(w) \/ Fail(w)
  <2>1. QueueTypeOK'
    BY <1>7, QueueSettleType DEF Complete, Fail
  <2> QED  BY <1>7, <2>1 DEF Complete, Fail
<1>8. CASE CancelClaimed(w)
  <2>1. QueueTypeOK'
    BY <1>8, QueueCancelType DEF CancelClaimed
  <2> QED  BY <1>8, <2>1 DEF CancelClaimed
<1>9. CASE Unwind(w)
  BY <1>9 DEF Unwind, QueueTypeOK
<1>10. CASE Unregister(w)
  BY <1>10 DEF Unregister, QueueTypeOK
<1>11. CASE ClearCancelled(w)
  BY <1>11 DEF ClearCancelled, QueueTypeOK
<1> QED  BY <1>1, <1>2, <1>3, <1>4, <1>5, <1>6, <1>7, <1>8, <1>9, <1>10, <1>11
         DEF RunOnce

LEMMA TypeStream ==
  ASSUME TypeInv, NEW w \in Workers, StreamEvent(w) \/ StreamThrowsForeign(w)
  PROVE  TypeInv'
<1> USE DEF TypeInv, TypeOK, FrameOK, tasks, worker, frames
<1>1. CASE StreamEvent(w)
  <2>1. QueueTypeOK'
    BY <1>1, QueueHeartbeatType DEF StreamEvent
  <2> QED  BY <1>1, <2>1 DEF StreamEvent
<1>2. CASE StreamThrowsForeign(w)
  BY <1>2 DEF StreamThrowsForeign, Goto, QueueTypeOK
<1> QED  BY <1>1, <1>2

CallOK ==
  /\ call \in [Controllers -> [op : Operation, run : Tasks \cup {None}]]
  /\ \A c \in Controllers : call[c].op # "idle" => call[c].run \in Tasks

\* A call that goes on keeps its run, and one that returns forgets it.
LEMMA ContinueType ==
  ASSUME CallOK, NEW c \in Controllers,
         NEW from \in Operation \ {"idle"}, NEW to \in Operation, Continue(c, from, to)
  PROVE  CallOK' /\ call[c].run \in Tasks
<1>1. call[c].run \in Tasks
  BY DEF CallOK, Continue
<1>2. CASE to = "idle"
  BY <1>1, <1>2 DEF CallOK, Continue, Idle, Operation
<1>3. CASE to # "idle"
  <2>1. call[c] \in [op : Operation, run : Tasks \cup {None}]
    BY DEF CallOK
  <2>2. [call[c] EXCEPT !.op = to] = [op |-> to, run |-> call[c].run]
    BY <2>1
  <2>3. call' = [call EXCEPT ![c] = [op |-> to, run |-> call[c].run]]
    <3>1. call' = [call EXCEPT ![c] = [call[c] EXCEPT !.op = to]]
      BY <1>3 DEF CallOK, Continue
    <3> QED  BY <2>2, <3>1
  <2> QED  BY <1>1, <2>3 DEF CallOK
<1> QED  BY <1>1, <1>2, <1>3

\* The rest of the state, over which calls only go through the store.
LEMMA TypeRest ==
  ASSUME TypeInv, QueueTypeOK', CallOK', cancelled' \in SUBSET Tasks,
         token' \in [Workers -> BOOLEAN],
         UNCHANGED <<active, pc, held, attempt, resumes>>
  PROVE  TypeInv'
BY DEF TypeInv, TypeOK, FrameOK, CallOK

LEMMA TypeControllerStep ==
  ASSUME TypeInv, NEW c \in Controllers, ControllerStep(c)
  PROVE  TypeInv'
<1>1. QueueTypeOK /\ CallOK
      /\ cancelled \in SUBSET Tasks /\ token \in [Workers -> BOOLEAN]
  BY DEF TypeInv, TypeOK, FrameOK, CallOK
<1> USE DEF tasks, worker, frames, Operation
<1>2. CASE Admit(c)
  <2>1. CallOK'
    BY <1>1, <1>2, ContinueType DEF Admit
  <2>2. QueueTypeOK'
    BY <1>1, <1>2 DEF Admit, QueueTypeOK
  <2> QED  BY <1>1, <1>2, <2>1, <2>2, TypeRest DEF Admit
<1>3. CASE Create(c)
  <2>1. CallOK' /\ call[c].run \in Tasks
    BY <1>1, <1>3, ContinueType DEF Create
  <2>2. QueueTypeOK'
    <3>1. CASE UNCHANGED tasks
      BY <1>1, <3>1 DEF QueueTypeOK
    <3> QED  BY <1>1, <1>3, <2>1, <3>1, StoreCreateType DEF Create
  <2> QED  BY <1>1, <1>3, <2>1, <2>2, TypeRest DEF Create
<1>4. CASE Enqueue(c)
  <2>1. CallOK' /\ call[c].run \in Tasks
    BY <1>1, <1>4, ContinueType DEF Enqueue
  <2>2. QueueTypeOK'
    BY <1>1, <1>4, <2>1, QueueEnqueueType DEF Enqueue
  <2> QED  BY <1>1, <1>4, <2>1, <2>2, TypeRest DEF Enqueue
<1>5. CASE EnqueueOver(c)
  <2>1. PICK d \in Controllers : call' = [call EXCEPT ![c] = Idle, ![d] = Idle]
    BY <1>5 DEF EnqueueOver
  <2>2. CallOK' /\ call[c].run \in Tasks
    BY <1>1, <1>5, <2>1 DEF EnqueueOver, CallOK, Idle
  <2>3. QueueTypeOK'
    BY <1>1, <1>5, <2>2, QueueEnqueueType DEF EnqueueOver
  <2> QED  BY <1>1, <1>5, <2>2, <2>3, TypeRest DEF EnqueueOver
<1>6. CASE ResumeUpdate(c)
  <2>1. CallOK' /\ call[c].run \in Tasks
    BY <1>1, <1>6, ContinueType DEF ResumeUpdate
  <2>2. QueueTypeOK'
    BY <1>1, <1>6, <2>1, StoreUpdateType DEF ResumeUpdate, TaskStatus
  <2> QED  BY <1>1, <1>6, <2>1, <2>2, TypeRest DEF ResumeUpdate
<1>7. CASE CancelMark(c)
  <2>1. CallOK' /\ call[c].run \in Tasks
    BY <1>1, <1>7, ContinueType DEF CancelMark
  <2>2. QueueTypeOK' /\ cancelled' \in SUBSET Tasks
    BY <1>1, <1>7, <2>1 DEF CancelMark, QueueTypeOK
  <2>3. token' \in [Workers -> BOOLEAN]
    BY <1>1, <1>7 DEF CancelMark
  <2> QED  BY <1>7, <2>1, <2>2, <2>3, TypeRest DEF CancelMark
<1>8. CASE CancelQueue(c)
  <2>1. CallOK' /\ call[c].run \in Tasks
    BY <1>1, <1>8, ContinueType DEF CancelQueue
  <2>2. QueueTypeOK'
    BY <1>1, <1>8, <2>1, QueueCancelType DEF CancelQueue
  <2> QED  BY <1>1, <1>8, <2>1, <2>2, TypeRest DEF CancelQueue
<1>9. CASE CancelStore(c)
  <2>1. CallOK' /\ call[c].run \in Tasks
    BY <1>1, <1>9, ContinueType DEF CancelStore
  <2>2. QueueTypeOK'
    BY <1>1, <1>9, <2>1, StoreUpdateType DEF CancelStore, TaskStatus
  <2> QED  BY <1>1, <1>9, <2>1, <2>2, TypeRest DEF CancelStore
<1> QED  BY <1>2, <1>3, <1>4, <1>5, <1>6, <1>7, <1>8, <1>9 DEF ControllerStep

LEMMA TypeControllerCall ==
  ASSUME TypeInv, NEW c \in Controllers, NEW t \in Tasks, ControllerCall(c, t)
  PROVE  TypeInv'
<1> USE DEF TypeInv, TypeOK, FrameOK, QueueTypeOK, tasks, worker, frames,
            Enter, Operation
<1>1. CASE Start(c, t)
  <2>1. PICK op \in {"create", "admit"} : Enter(c, op, t)
    BY <1>1 DEF Start
  <2> QED  BY <1>1, <2>1 DEF Start
<1>2. CASE ResumeCheck(c, t)
  BY <1>2, BoundsAssumption DEF ResumeCheck
<1>3. CASE CancelCheck(c, t)
  BY <1>3 DEF CancelCheck
<1> QED  BY <1>1, <1>2, <1>3 DEF ControllerCall

LEMMA TypeStep == TypeInv /\ [Next]_vars => TypeInv'
<1> SUFFICES ASSUME TypeInv, [Next]_vars PROVE TypeInv'
  OBVIOUS
<1>1. CASE UNCHANGED vars
  BY <1>1 DEF TypeInv, TypeOK, QueueTypeOK, FrameOK, vars
<1>2. CASE Next
  BY <1>2, TypeRunOnce, TypeStream, TypeControllerStep, TypeControllerCall DEF Next
<1> QED  BY <1>1, <1>2

\* Every state of the async runs is well typed: no thread of the worker and no
\* call of the controller, however they interleave, writes a status, an attempt
\* or a deque entry that the store could not hold.
THEOREM TypeCorrect == Spec => []TypeOK
<1>1. TypeInv => TypeOK
  BY DEF TypeInv
<1> QED  BY <1>1, TypeInit, TypeStep, PTL DEF Spec
-----------------------------------------------------------------------------
(* Tokens.  NoDanglingToken is not inductive alone: a frame that leaves    *)
(* with a foreign task or after unregister_active_token must be known to   *)
(* own no entry any more.                                                  *)

Unregistered ==
  \A w \in Workers :
    pc[w] \in {"foreign", "clearing"} => \A t \in Tasks : active[t] # w

TokenInv == TypeInv /\ NoDanglingToken /\ CancelReachesActive /\ Unregistered

LEMMA TokenInit == Init => TokenInv
<1> SUFFICES ASSUME Init
             PROVE  NoDanglingToken /\ CancelReachesActive /\ Unregistered
  BY TypeInit DEF TokenInv
<1>1. \A t \in Tasks, w \in Workers : active[t] # w
  BY NoneAssumption DEF Init
<1> QED  BY <1>1 DEF NoDanglingToken, CancelReachesActive, Unregistered

LEMMA TokenRunOnce ==
  ASSUME TokenInv, NEW w \in Workers, RunOnce(w)
  PROVE  NoDanglingToken' /\ CancelReachesActive' /\ Unregistered'
<1> USE NoneAssumption
        DEF TokenInv, TypeInv, TypeOK, FrameOK, NoDanglingToken,
            CancelReachesActive, Unregistered, Goto, Return, tasks, worker, frames
<1>1. CASE Claim(w)
  <2>1. PICK t \in Tasks :
          /\ Goto(w, "idle", IF t \in Foreign THEN "foreign" ELSE "claimed")
          /\ held' = [held EXCEPT ![w] = t]
    BY <1>1 DEF Claim
  <2> QED  BY <1>1, <2>1 DEF Claim
<1>2. CASE ClaimNothing(w)
  BY <1>2 DEF ClaimNothing
<1>3. CASE HandBack(w)
  BY <1>3 DEF HandBack
<1>4. CASE Register(w)
  BY <1>4 DEF Register
<1>5. CASE StreamReturns(w) \/ StreamCancelled(w) \/ StreamThrows(w)
  BY <1>5 DEF StreamReturns, StreamCancelled, StreamThrows
<1>6. CASE CheckThrown(w)
  BY <1>6 DEF CheckThrown
<1>7. CASE Complete(w) \/ Fail(w)
  BY <1>7 DEF Complete, Fail
<1>8. CASE CancelClaimed(w)
  BY <1>8 DEF CancelClaimed
<1>9. CASE Unwind(w)
  BY <1>9 DEF Unwind
<1>10. CASE Unregister(w)
  BY <1>10 DEF Unregister
<1>11. CASE ClearCancelled(w)
  BY <1>11 DEF ClearCancelled
<1> QED  BY <1>1, <1>2, <1>3, <1>4, <1>5, <1>6, <1>7, <1>8, <1>9, <1>10, <1>11
         DEF RunOnce

LEMMA TokenController ==
  ASSUME TokenInv, NEW c \in Controllers,
         ControllerStep(c) \/ \E t \in Tasks : ControllerCall(c, t)
  PROVE  NoDanglingToken' /\ CancelReachesActive' /\ Unregistered'
<1>1. CASE CancelMark(c)
  BY <1>1 DEF CancelMark, TokenInv, TypeInv, TypeOK, NoDanglingToken,
              CancelReachesActive, Unregistered
<1>2. CASE UNCHANGED <<cancelled, active, pc, held, token>>
  BY <1>2 DEF TokenInv, NoDanglingToken, CancelReachesActive, Unregistered
<1>3. CancelMark(c) \/ UNCHANGED <<cancelled, active, pc, held, token>>
  BY DEF ControllerStep, ControllerCall, Admit, Create, Enqueue, EnqueueOver,
         ResumeUpdate, CancelQueue, CancelStore, Start, ResumeCheck, CancelCheck,
         worker, frames
<1> QED  BY <1>1, <1>2, <1>3

LEMMA TokenStep == TokenInv /\ [Next]_vars => TokenInv'
<1> SUFFICES ASSUME TokenInv, [Next]_vars
             PROVE  NoDanglingToken' /\ CancelReachesActive' /\ Unregistered'
  BY TypeStep DEF TokenInv
<1>1. CASE UNCHANGED vars
  BY <1>1 DEF TokenInv, NoDanglingToken, CancelReachesActive, Unregistered, vars
<1>2. ASSUME NEW w \in Workers, RunOnce(w)
      PROVE  NoDanglingToken' /\ CancelReachesActive' /\ Unregistered'
  BY <1>2, TokenRunOnce
<1>3. ASSUME NEW w \in Workers, StreamEvent(w) \/ StreamThrowsForeign(w)
      PROVE  NoDanglingToken' /\ CancelReachesActive' /\ Unregistered'
  BY <1>3 DEF StreamEvent, StreamThrowsForeign, Goto, worker, frames, TokenInv,
              TypeInv, TypeOK, NoDanglingToken, CancelReachesActive, Unregistered
<1>4. ASSUME NEW c \in Controllers,
             ControllerStep(c) \/ \E t \in Tasks : ControllerCall(c, t)
      PROVE  NoDanglingToken' /\ CancelReachesActive' /\ Unregistered'
  BY <1>4, TokenController
<1> QED  BY <1>1, <1>2, <1>3, <1>4 DEF Next

\* What the worker object says about cancellation is true, for any number of
\* threads and controllers, double claims, tasks of another type and foreign
\* exceptions: a registered token is that of a live frame of the same run, and
\* the one registered for a marked run has been fired, whichever of
\* mark_cancelled and register_active_token came first.
THEOREM CancelsReach == Spec => []TokensSound
<1>1. TokenInv => TokensSound
  BY DEF TokenInv, TokensSound
<1> QED  BY <1>1, TokenInit, TokenStep, PTL DEF Spec
-----------------------------------------------------------------------------
(* Rest.  Two threads can hold one run, and heartbeats revive an attempt   *)
(* that cancel() has closed; still a Running status and a Running attempt  *)
(* each have a frame that has yet to settle them.  The attempt of a task   *)
(* of another type has none: run_once() hands the task back and leaves it. *)

Open == Location \ {"idle", "unregister", "clearing"}

\* Without foreign exceptions no frame unwinds; a task is handed back only if
\* it is of another type.
FramesApart ==
  /\ \A w \in Workers : pc[w] # "unwinding"
  /\ \A w \in Workers : pc[w] = "foreign" => held[w] \in Foreign

Attended(t) ==
  /\ status[t] = "running" => \E w \in Workers : held[w] = t /\ pc[w] \in Open
  /\ t \notin Foreign => \A n \in DOMAIN runs[t] :
       runs[t][n] = "running" =>
         \E w \in Workers : held[w] = t /\ attempt[w] = n /\ pc[w] \in Open

RestInv == FramesApart /\ \A t \in Tasks : Attended(t)

\* Frames that stay where they are keep attending to what they attended to.
LEMMA AttendedKept ==
  ASSUME NEW t \in Tasks, Attended(t),
         status'[t] = "running" => status[t] = "running",
         \A n \in DOMAIN runs'[t] :
           runs'[t][n] = "running" => n \in DOMAIN runs[t] /\ runs[t][n] = "running",
         \A w \in Workers : held[w] = t /\ pc[w] \in Open =>
           held'[w] = t /\ attempt'[w] = attempt[w] /\ pc'[w] \in Open
  PROVE  Attended(t)'
BY DEF Attended

LEMMA RestInit == Init => RestInv
BY DEF Init, QueueInit, RestInv, FramesApart, Attended

\* claim(): the new attempt is attended by the frame that takes it.
LEMMA RestClaim ==
  ASSUME TypeInv, RestInv, NEW w \in Workers, Claim(w)
  PROVE  RestInv'
<1>1. PICK t \in Tasks :
        /\ QueueClaim(t)
        /\ Goto(w, "idle", IF t \in Foreign THEN "foreign" ELSE "claimed")
        /\ held' = [held EXCEPT ![w] = t]
        /\ attempt' = [attempt EXCEPT ![w] = Len(runs[t]) + 1]
  BY DEF Claim
<1>2. /\ held'[w] = t /\ attempt'[w] = Len(runs[t]) + 1 /\ pc'[w] \in Open
      /\ \A v \in Workers : v # w =>
           held'[v] = held[v] /\ attempt'[v] = attempt[v] /\ pc'[v] = pc[v]
  BY <1>1 DEF TypeInv, TypeOK, Goto, Open
<1>3. \A v \in Workers : pc[v] \in Open => v # w
  BY <1>1 DEF Goto, Open
<1>4. FramesApart'
  BY <1>1 DEF RestInv, FramesApart, TypeInv, TypeOK, Goto
<1>5. /\ runs[t] \in Seq(RunStatus)
      /\ runs'[t] = Append(runs[t], "running")
      /\ \A u \in Tasks : u # t => runs'[u] = runs[u] /\ status'[u] = status[u]
  BY <1>1 DEF QueueClaim, TypeInv, TypeOK, QueueTypeOK
<1>6. ASSUME NEW u \in Tasks, u # t
      PROVE  Attended(u)'
  BY <1>2, <1>3, <1>5, <1>6, AttendedKept DEF RestInv
<1>7. Attended(t)'
  <2>1. ASSUME t \notin Foreign, NEW n \in DOMAIN runs'[t],
               runs'[t][n] = "running", n # Len(runs[t]) + 1
        PROVE  \E v \in Workers : held'[v] = t /\ attempt'[v] = n /\ pc'[v] \in Open
    <3>1. Len(runs[t]) \in Nat /\ n \in 1 .. (Len(runs[t]) + 1)
      BY <1>5, <2>1
    <3>2. n \in 1 .. Len(runs[t])
      BY <2>1, <3>1
    <3>3. n \in DOMAIN runs[t] /\ runs[t][n] = "running"
      <4>1. Append(runs[t], "running")[n] = runs[t][n]
        BY <1>5, <3>2
      <4> QED  BY <1>5, <2>1, <3>2, <4>1
    <3>4. PICK v \in Workers : held[v] = t /\ attempt[v] = n /\ pc[v] \in Open
      BY <2>1, <3>3 DEF RestInv, Attended
    <3>5. held'[v] = t /\ attempt'[v] = n /\ pc'[v] \in Open
      BY <1>2, <1>3, <3>4
    <3> QED  BY <3>5
  <2> QED  BY <1>2, <2>1 DEF Attended
<1> QED  BY <1>4, <1>6, <1>7 DEF RestInv

\* complete() and fail() settle the frame's own attempt; the others of the run
\* keep the frames that attend to them.
LEMMA RestSettle ==
  ASSUME TypeInv, RestInv, NEW w \in Workers, Complete(w) \/ Fail(w)
  PROVE  RestInv'
<1>1. PICK outcome \in {"completed", "failed"} :
        /\ QueueSettle(held[w], attempt[w], outcome)
        /\ pc' = [pc EXCEPT ![w] = "unregister"]
        /\ UNCHANGED <<held, attempt>>
  BY DEF Complete, Fail, Goto
<1>2. held[w] \in Tasks /\ attempt[w] \in Nat /\ pc[w] # "foreign"
  BY DEF TypeInv, TypeOK, FrameOK, Complete, Fail, Goto
<1>3. /\ runs' = [runs EXCEPT ![held[w]] = [runs[held[w]] EXCEPT ![attempt[w]] = outcome]]
      /\ status' = [status EXCEPT ![held[w]] = outcome]
  BY <1>1 DEF QueueSettle
<1>4. FramesApart'
  BY <1>1 DEF RestInv, FramesApart, TypeInv, TypeOK
<1>5. \A v \in Workers : v # w => pc'[v] = pc[v]
  BY <1>1 DEF TypeInv, TypeOK
<1>6. ASSUME NEW t \in Tasks
      PROVE  Attended(t)'
  <2>1. CASE t # held[w]
    <3>1. runs'[t] = runs[t] /\ status'[t] = status[t]
      BY <1>3, <2>1 DEF TypeInv, TypeOK, QueueTypeOK
    <3>2. \A v \in Workers : held[v] = t => v # w
      BY <2>1
    <3> QED  BY <1>1, <1>5, <3>1, <3>2, AttendedKept DEF RestInv
  <2>2. CASE t = held[w]
    <3>1. status'[t] # "running"
      BY <1>3, <2>2 DEF TypeInv, TypeOK, QueueTypeOK
    <3>2. runs'[t] = [runs[t] EXCEPT ![attempt[w]] = outcome]
      BY <1>3, <2>2 DEF TypeInv, TypeOK, QueueTypeOK
    <3>3. ASSUME t \notin Foreign, NEW n \in DOMAIN runs'[t], runs'[t][n] = "running"
          PROVE  \E v \in Workers : held'[v] = t /\ attempt'[v] = n /\ pc'[v] \in Open
      <4>1. n \in DOMAIN runs[t] /\ n # attempt[w] /\ runs[t][n] = "running"
        BY <3>2, <3>3
      <4>2. PICK v \in Workers : held[v] = t /\ attempt[v] = n /\ pc[v] \in Open
        BY <3>3, <4>1 DEF RestInv, Attended
      <4> QED  BY <1>1, <1>5, <4>1, <4>2
    <3> QED  BY <3>1, <3>3 DEF Attended
  <2> QED  BY <2>1, <2>2
<1> QED  BY <1>4, <1>6 DEF RestInv

\* A stream event revives only the attempt of the frame it comes from.
LEMMA RestEvent ==
  ASSUME TypeInv, RestInv, NEW w \in Workers, StreamEvent(w)
  PROVE  RestInv'
<1>1. /\ pc[w] = "stream" /\ held[w] \in Tasks /\ attempt[w] \in Nat
      /\ UNCHANGED <<pc, held, attempt, status>>
      /\ runs' = [runs EXCEPT ![held[w]] = [runs[held[w]] EXCEPT ![attempt[w]] = "running"]]
  BY DEF TypeInv, TypeOK, FrameOK, StreamEvent, QueueHeartbeat, frames
<1>2. FramesApart'
  BY <1>1 DEF RestInv, FramesApart
<1>3. ASSUME NEW t \in Tasks
      PROVE  Attended(t)'
  <2>1. CASE t # held[w]
    <3>1. runs'[t] = runs[t]
      BY <1>1, <2>1 DEF TypeInv, TypeOK, QueueTypeOK
    <3> QED  BY <1>1, <3>1, AttendedKept DEF RestInv
  <2>2. CASE t = held[w]
    <3>1. runs'[t] = [runs[t] EXCEPT ![attempt[w]] = "running"]
      BY <1>1, <2>2 DEF TypeInv, TypeOK, QueueTypeOK
    <3>2. Attended(t)
      BY DEF RestInv
    <3>3. pc[w] \in Open
      BY <1>1 DEF Open
    <3>4. ASSUME t \notin Foreign, NEW n \in DOMAIN runs'[t], runs'[t][n] = "running"
          PROVE  \E v \in Workers : held'[v] = t /\ attempt'[v] = n /\ pc'[v] \in Open
      <4>1. CASE n = attempt[w]
        BY <1>1, <2>2, <3>3, <4>1
      <4>2. CASE n # attempt[w]
        BY <1>1, <3>1, <3>2, <3>4, <4>2 DEF Attended
      <4> QED  BY <4>1, <4>2
    <3>5. status'[t] = "running" =>
            \E v \in Workers : held'[v] = t /\ pc'[v] \in Open
      BY <1>1, <3>2 DEF Attended
    <3> QED  BY <3>4, <3>5 DEF Attended
  <2> QED  BY <2>1, <2>2
<1> QED  BY <1>2, <1>3 DEF RestInv

\* cancel() leaves nothing of its run to attend to, and nothing else changes.
LEMMA RestCancel ==
  ASSUME TypeInv, RestInv, NEW t \in Tasks, QueueCancel(t),
         UNCHANGED <<held, attempt>>,
         \A w \in Workers : held[w] # t => pc'[w] = pc[w]
  PROVE  \A u \in Tasks : Attended(u)'
<1>1. /\ status'[t] = "cancelled" /\ runs'[t] = CancelRuns(runs[t])
      /\ \A u \in Tasks : u # t => status'[u] = status[u] /\ runs'[u] = runs[u]
  BY DEF QueueCancel, TypeInv, TypeOK, QueueTypeOK
<1>2. Attended(t)'
  BY <1>1 DEF Attended, CancelRuns
<1>3. ASSUME NEW u \in Tasks, u # t
      PROVE  Attended(u)'
  BY <1>1, <1>3, AttendedKept DEF RestInv
<1> QED  BY <1>2, <1>3

\* Every other step of run_once() and the stream.
LEMMA RestWorker ==
  ASSUME ~ForeignExceptions, TypeInv, RestInv, NEW w \in Workers,
         RunOnce(w) \/ StreamEvent(w) \/ StreamThrowsForeign(w)
  PROVE  RestInv'
<1>1. CASE Claim(w)
  BY <1>1, RestClaim
<1>2. CASE Complete(w) \/ Fail(w)
  BY <1>2, RestSettle
<1>3. CASE StreamEvent(w)
  BY <1>3, RestEvent
<1>4. CASE CancelClaimed(w)
  <2>1. /\ held[w] \in Tasks /\ QueueCancel(held[w]) /\ UNCHANGED <<held, attempt>>
        /\ pc' = [pc EXCEPT ![w] = "unregister"]
    BY <1>4 DEF CancelClaimed, TypeInv, TypeOK, FrameOK, Goto
  <2>2. \A v \in Workers : held[v] # held[w] => pc'[v] = pc[v]
    BY <2>1 DEF TypeInv, TypeOK
  <2>3. FramesApart'
    BY <2>1 DEF RestInv, FramesApart, TypeInv, TypeOK
  <2> QED  BY <2>1, <2>2, <2>3, RestCancel DEF RestInv
<1>5. CASE HandBack(w)
  <2>1. /\ held[w] \in Tasks /\ pc[w] = "foreign"
        /\ status' = [status EXCEPT ![held[w]] = "queued"] /\ runs' = runs
        /\ pc' = [pc EXCEPT ![w] = "idle"]
        /\ held' = [held EXCEPT ![w] = None]
        /\ attempt' = [attempt EXCEPT ![w] = 0]
    BY <1>5 DEF HandBack, StoreUpdate, Return, TypeInv, TypeOK, FrameOK, Goto
  <2>2. held[w] \in Foreign
    BY <2>1 DEF RestInv, FramesApart
  <2>3. \A v \in Workers : v # w =>
          pc'[v] = pc[v] /\ held'[v] = held[v] /\ attempt'[v] = attempt[v]
    BY <2>1 DEF TypeInv, TypeOK
  <2>4. FramesApart'
    BY <2>1 DEF RestInv, FramesApart, TypeInv, TypeOK
  <2>5. ASSUME NEW t \in Tasks
        PROVE  Attended(t)'
    <3>1. CASE t = held[w]
      <4>1. status'[t] = "queued" /\ t \in Foreign
        BY <2>1, <2>2, <3>1 DEF TypeInv, TypeOK, QueueTypeOK
      <4> QED  BY <4>1 DEF Attended
    <3>2. CASE t # held[w]
      <4>1. status'[t] = status[t]
        BY <2>1, <3>2 DEF TypeInv, TypeOK, QueueTypeOK
      <4>2. \A v \in Workers : held[v] = t => v # w
        BY <3>2
      <4> QED  BY <2>1, <2>3, <4>1, <4>2, AttendedKept DEF RestInv
    <3> QED  BY <3>1, <3>2
  <2> QED  BY <2>4, <2>5 DEF RestInv
<1>6. ASSUME Register(w) \/ StreamReturns(w) \/ StreamCancelled(w)
             \/ StreamThrows(w) \/ CheckThrown(w)
      PROVE  RestInv'
  <2>1. /\ UNCHANGED <<status, runs, held, attempt>>
        /\ pc[w] # "foreign"
        /\ \E to \in Open \ {"foreign", "unwinding"} : pc' = [pc EXCEPT ![w] = to]
    BY <1>6 DEF Register, StreamReturns, StreamCancelled, StreamThrows,
                CheckThrown, Goto, tasks, Open
  <2>2. PICK to \in Open \ {"foreign", "unwinding"} : pc' = [pc EXCEPT ![w] = to]
    BY <2>1
  <2>3. FramesApart'
    BY <2>1, <2>2 DEF RestInv, FramesApart, TypeInv, TypeOK
  <2>4. \A v \in Workers : pc[v] \in Open => pc'[v] \in Open
    BY <2>2 DEF TypeInv, TypeOK
  <2>5. ASSUME NEW t \in Tasks
        PROVE  Attended(t)'
    BY <2>1, <2>4, AttendedKept DEF RestInv
  <2> QED  BY <2>3, <2>5 DEF RestInv
<1>7. CASE Unregister(w) \/ ClearCancelled(w)
  <2>1. UNCHANGED <<status, runs>> /\ pc[w] \notin Open
    BY <1>7 DEF Unregister, ClearCancelled, Goto, tasks, Open
  <2>2. /\ pc'[w] \in {"clearing", "idle"}
        /\ \A v \in Workers : v # w =>
             pc'[v] = pc[v] /\ held'[v] = held[v] /\ attempt'[v] = attempt[v]
    <3>1. CASE Unregister(w)
      BY <3>1 DEF Unregister, Goto, TypeInv, TypeOK
    <3>2. CASE ClearCancelled(w)
      BY <3>2 DEF ClearCancelled, Goto, Return, TypeInv, TypeOK
    <3> QED  BY <1>7, <3>1, <3>2
  <2>3. FramesApart'
    BY <2>2 DEF RestInv, FramesApart
  <2>4. \A v \in Workers : pc[v] \in Open => v # w
    BY <2>1
  <2>5. ASSUME NEW t \in Tasks
        PROVE  Attended(t)'
    BY <2>1, <2>2, <2>4, AttendedKept DEF RestInv
  <2> QED  BY <2>3, <2>5 DEF RestInv
<1>8. CASE ClaimNothing(w)
  <2>1. UNCHANGED <<status, runs, pc, held, attempt>>
    BY <1>8 DEF ClaimNothing, QueueClaimNothing, frames
  <2> QED  BY <2>1 DEF RestInv, FramesApart, Attended
<1>9. CASE Unwind(w) \/ StreamThrowsForeign(w)
  BY <1>9 DEF Unwind, StreamThrowsForeign, Goto, RestInv, FramesApart
<1> QED  BY <1>1, <1>2, <1>3, <1>4, <1>5, <1>6, <1>7, <1>8, <1>9 DEF RunOnce

\* The controller opens nothing that a frame would have to attend to.
LEMMA RestController ==
  ASSUME TypeInv, RestInv, NEW c \in Controllers,
         ControllerStep(c) \/ \E t \in Tasks : ControllerCall(c, t)
  PROVE  RestInv'
<1>1. UNCHANGED <<pc, held, attempt>>
  BY DEF ControllerStep, ControllerCall, Admit, Create, Enqueue, EnqueueOver,
         ResumeUpdate, CancelMark, CancelQueue, CancelStore, Start, ResumeCheck,
         CancelCheck, frames
<1>2. FramesApart'
  BY <1>1 DEF RestInv, FramesApart
<1>3. CASE CancelQueue(c)
  <2>1. call[c].run \in Tasks /\ QueueCancel(call[c].run)
    BY <1>3 DEF CancelQueue, Continue, TypeInv, TypeOK, FrameOK
  <2> QED  BY <1>1, <1>2, <2>1, RestCancel DEF RestInv
<1>4. CASE runs' = runs /\ \A t \in Tasks : status'[t] = "running" => status[t] = "running"
  <2>1. ASSUME NEW t \in Tasks
        PROVE  Attended(t)'
    BY <1>1, <1>4, AttendedKept DEF RestInv
  <2> QED  BY <1>2, <2>1 DEF RestInv
<1>5. ASSUME ControllerStep(c), ~CancelQueue(c)
      PROVE  runs' = runs /\ \A t \in Tasks : status'[t] = "running" => status[t] = "running"
  BY <1>5 DEF ControllerStep, Admit, Create, Enqueue, EnqueueOver, ResumeUpdate,
              CancelMark, CancelStore, StoreCreate, StoreUpdate, QueueEnqueue,
              tasks, TypeInv, TypeOK, QueueTypeOK
<1>6. ASSUME NEW t \in Tasks, ControllerCall(c, t)
      PROVE  UNCHANGED <<status, runs>>
  BY <1>6 DEF ControllerCall, Start, ResumeCheck, CancelCheck, tasks
<1> QED  BY <1>3, <1>4, <1>5, <1>6

\* A run that no thread holds is at rest, for any number of threads and
\* controllers and however their calls race, as long as what the stream throws
\* is a std::exception: no task reads Running without a run_once() that has yet
\* to settle it, and no run, closed or not, keeps an attempt that shows Running.
THEOREM RestConsistent ==
  ASSUME ~ForeignExceptions
  PROVE  Spec => []RestIsConsistent
<1>1. TypeInv /\ RestInv /\ [Next]_vars => RestInv'
  <2> SUFFICES ASSUME TypeInv, RestInv, [Next]_vars PROVE RestInv'
    OBVIOUS
  <2>1. CASE UNCHANGED vars
    BY <2>1 DEF RestInv, FramesApart, Attended, vars
  <2>2. CASE Next
    BY <2>2, RestWorker, RestController DEF Next
  <2> QED  BY <2>1, <2>2
<1>2. RestInv => RestIsConsistent
  <2> SUFFICES ASSUME RestInv, NEW t \in Tasks, \A w \in Workers : held[w] # t
               PROVE  /\ status[t] # "running"
                      /\ t \notin Foreign =>
                           \A n \in DOMAIN runs[t] : runs[t][n] # "running"
    BY DEF RestIsConsistent
  <2> QED  BY DEF RestInv, Attended
<1> QED  BY <1>1, <1>2, TypeInit, TypeStep, RestInit, PTL DEF Spec
-----------------------------------------------------------------------------
(* Admission.  enforce_child_agent_policy counts in one step and create    *)
(* appears in a later one: what was counted still holds then if, in        *)
(* between, no run can become active or appear that was not counted.       *)

Submitting == {"admit", "create", "enqueue", "resume"}

CallsExist ==
  \A c \in Controllers :
    /\ call[c].op \in Submitting => c \in Starters \cup Resumers
    /\ call[c].op \in {"mark", "cancel", "close"} => call[c].run \notin Foreign
    /\ call[c].op \notin {"idle", "admit", "create"} => status[call[c].run] # "none"

FramesExist ==
  \A w \in Workers :
    /\ pc[w] = "foreign" => held[w] \in Foreign
    /\ pc[w] \notin {"idle", "foreign"} => held[w] \notin Foreign
    /\ pc[w] # "idle" => status[held[w]] # "none"

ForeignOpen == \A t \in Foreign : status[t] \in {"none", "queued", "running"}

Admitted ==
  \A c \in Controllers :
    call[c].op = "create" /\ Parent[call[c].run] # None
      => WithinLimits(Parent[call[c].run], 1)

AdmitInv == TypeInv /\ CallsExist /\ FramesExist /\ ForeignOpen /\ Admitted

\* A step that creates no run, opens none again and forgets none.
Shrinks ==
  \A t \in Tasks :
    /\ status[t] = "none" <=> status'[t] = "none"
    /\ status'[t] \in {"queued", "running"} => status[t] \in {"queued", "running"}

\* What such a step leaves room for, it leaves room for.
LEMMA LimitsKept ==
  ASSUME TypeInv, Shrinks, NEW p, WithinLimits(p, 1)
  PROVE  WithinLimits(p, 1)'
<1> DEFINE Of(S) == {t \in S : Parent[t] = p}
<1>1. /\ ActiveChildren \subseteq Tasks /\ ActiveChildren' \subseteq ActiveChildren
      /\ ChildrenOf(p) \subseteq Tasks /\ ChildrenOf(p)' \subseteq ChildrenOf(p)
      /\ Of(ActiveChildren) \subseteq Tasks
      /\ Of(ActiveChildren') \subseteq Of(ActiveChildren)
  BY DEF ActiveChildren, ChildrenOf, Shrinks
<1>2. \A S \in SUBSET Tasks, T \in SUBSET Tasks : S \subseteq T =>
        /\ Cardinality(S) \in Nat /\ Cardinality(T) \in Nat
        /\ Cardinality(S) <= Cardinality(T)
  BY TasksAssumption, FS_Subset, FS_CardinalityType
<1>3. /\ MaxGlobal \in Nat /\ MaxActive \in Nat /\ MaxTotal \in Nat
  BY BoundsAssumption
<1>4. Cardinality(ActiveChildren') + 1 <= MaxGlobal
  <2>1. /\ Cardinality(ActiveChildren') \in Nat /\ Cardinality(ActiveChildren) \in Nat
        /\ Cardinality(ActiveChildren') <= Cardinality(ActiveChildren)
    BY <1>1, <1>2
  <2>2. Cardinality(ActiveChildren) + 1 <= MaxGlobal
    BY DEF WithinLimits
  <2> QED  BY <1>3, <2>1, <2>2
<1>5. Cardinality(Of(ActiveChildren')) + 1 <= MaxActive
  <2>1. /\ Cardinality(Of(ActiveChildren')) \in Nat /\ Cardinality(Of(ActiveChildren)) \in Nat
        /\ Cardinality(Of(ActiveChildren')) <= Cardinality(Of(ActiveChildren))
    BY <1>1, <1>2
  <2>2. Cardinality(Of(ActiveChildren)) + 1 <= MaxActive
    BY DEF WithinLimits
  <2> QED  BY <1>3, <2>1, <2>2
<1>6. Cardinality(ChildrenOf(p)') + 1 <= MaxTotal
  <2>1. /\ Cardinality(ChildrenOf(p)') \in Nat /\ Cardinality(ChildrenOf(p)) \in Nat
        /\ Cardinality(ChildrenOf(p)') <= Cardinality(ChildrenOf(p))
    BY <1>1, <1>2
  <2>2. Cardinality(ChildrenOf(p)) + 1 <= MaxTotal
    BY DEF WithinLimits
  <2> QED  BY <1>3, <2>1, <2>2
<1> QED  BY <1>4, <1>5, <1>6 DEF WithinLimits

\* A step of a call: the others stand where they stood.
LEMMA ContinueCall ==
  ASSUME CallOK, NEW c \in Controllers,
         NEW from \in Operation \ {"idle"}, NEW to \in Operation, Continue(c, from, to)
  PROVE  /\ call[c].op = from /\ call'[c].op = to
         /\ to # "idle" => call'[c].run = call[c].run
         /\ \A d \in Controllers : d # c => call'[d] = call[d]
<1>1. CASE to = "idle"
  BY <1>1 DEF CallOK, Continue, Idle
<1>2. CASE to # "idle"
  <2>1. call[c] \in [op : Operation, run : Tasks \cup {None}]
    BY DEF CallOK
  <2>2. [call[c] EXCEPT !.op = to] = [op |-> to, run |-> call[c].run]
    BY <2>1
  <2>3. call' = [call EXCEPT ![c] = [call[c] EXCEPT !.op = to]]
    BY <1>2 DEF CallOK, Continue
  <2>4. call' = [call EXCEPT ![c] = [op |-> to, run |-> call[c].run]]
    BY <2>2, <2>3
  <2> QED  BY <2>4 DEF CallOK, Continue
<1> QED  BY <1>1, <1>2

\* The threads of the worker.
LEMMA AdmitWorker ==
  ASSUME AdmitInv, NEW w \in Workers,
         RunOnce(w) \/ StreamEvent(w) \/ StreamThrowsForeign(w)
  PROVE  /\ Shrinks /\ FramesExist' /\ ForeignOpen'
         /\ \A c \in Controllers : call'[c] = call[c] \/ call'[c] = Idle
<1>1. /\ pc \in [Workers -> Location] /\ held \in [Workers -> Tasks \cup {None}]
      /\ status \in [Tasks -> TaskStatus] /\ Foreign \subseteq Tasks
      /\ call \in [Controllers -> [op : Operation, run : Tasks \cup {None}]]
      /\ \A v \in Workers : pc[v] # "idle" => held[v] \in Tasks
      /\ \A v \in Workers : pc[v] # "idle" => status[held[v]] # "none"
  BY TopologyAssumption DEF AdmitInv, TypeInv, TypeOK, QueueTypeOK, FrameOK, FramesExist
<1>2. FramesExist /\ ForeignOpen
  BY DEF AdmitInv
<1>3. CASE Claim(w)
  <2>1. PICK t \in Tasks :
          /\ QueueClaim(t)
          /\ Goto(w, "idle", IF t \in Foreign THEN "foreign" ELSE "claimed")
          /\ held' = [held EXCEPT ![w] = t]
          /\ \/ UNCHANGED call
             \/ \E c \in Controllers : call' = [call EXCEPT ![c] = Idle]
    BY <1>3 DEF Claim
  <2>2. status[t] = "queued" /\ status' = [status EXCEPT ![t] = "running"]
    BY <2>1 DEF QueueClaim, FirstQueued
  <2>3. Shrinks /\ ForeignOpen'
    BY <1>1, <1>2, <2>2 DEF Shrinks, ForeignOpen
  <2>4. FramesExist'
    BY <1>1, <1>2, <2>1, <2>2 DEF FramesExist, Goto
  <2> QED  BY <1>1, <2>1, <2>3, <2>4
<1>4. CASE HandBack(w)
  <2>1. /\ pc[w] = "foreign" /\ pc' = [pc EXCEPT ![w] = "idle"]
        /\ status' = [status EXCEPT ![held[w]] = "queued"]
        /\ held' = [held EXCEPT ![w] = None] /\ call' = call
    BY <1>4 DEF HandBack, StoreUpdate, Return, Goto
  <2>2. held[w] \in Tasks /\ status[held[w]] \in {"queued", "running"}
    BY <1>1, <1>2, <2>1 DEF FramesExist, ForeignOpen
  <2>3. Shrinks /\ ForeignOpen'
    BY <1>1, <1>2, <2>1, <2>2 DEF Shrinks, ForeignOpen
  <2>4. FramesExist'
    BY <1>1, <1>2, <2>1 DEF FramesExist
  <2> QED  BY <2>1, <2>3, <2>4
<1>5. CASE Complete(w) \/ Fail(w) \/ CancelClaimed(w)
  <2>1. PICK s \in {"completed", "failed", "cancelled"} :
          status' = [status EXCEPT ![held[w]] = s]
    BY <1>5 DEF Complete, Fail, CancelClaimed, QueueSettle, QueueCancel
  <2>2. /\ pc[w] \notin {"idle", "foreign"} /\ pc' = [pc EXCEPT ![w] = "unregister"]
        /\ held' = held /\ call' = call
    BY <1>5 DEF Complete, Fail, CancelClaimed, Goto
  <2>3. held[w] \in Tasks \ Foreign /\ status[held[w]] # "none"
    BY <1>1, <1>2, <2>2 DEF FramesExist
  <2>4. Shrinks /\ ForeignOpen'
    BY <1>1, <1>2, <2>1, <2>3 DEF Shrinks, ForeignOpen
  <2>5. FramesExist'
    BY <1>1, <1>2, <2>1, <2>2, <2>3 DEF FramesExist
  <2> QED  BY <2>2, <2>4, <2>5
<1>6. CASE Unwind(w) \/ ClearCancelled(w)
  <2>1. /\ pc' = [pc EXCEPT ![w] = "idle"] /\ held' = [held EXCEPT ![w] = None]
        /\ UNCHANGED <<status, call>>
    BY <1>6 DEF Unwind, ClearCancelled, Goto, Return, tasks
  <2>2. Shrinks /\ ForeignOpen'
    BY <1>2, <2>1 DEF Shrinks, ForeignOpen
  <2>3. FramesExist'
    BY <1>1, <1>2, <2>1 DEF FramesExist
  <2> QED  BY <2>1, <2>2, <2>3
<1>7. CASE Register(w) \/ StreamReturns(w) \/ StreamCancelled(w) \/ StreamThrows(w)
           \/ StreamThrowsForeign(w) \/ CheckThrown(w) \/ Unregister(w)
  <2>1. /\ pc[w] \notin {"idle", "foreign"}
        /\ \E to \in Location \ {"idle", "foreign"} : pc' = [pc EXCEPT ![w] = to]
        /\ UNCHANGED <<status, held, call>>
    BY <1>7 DEF Register, StreamReturns, StreamCancelled, StreamThrows,
                StreamThrowsForeign, CheckThrown, Unregister, Goto, tasks
  <2>2. Shrinks /\ ForeignOpen'
    BY <1>2, <2>1 DEF Shrinks, ForeignOpen
  <2>3. FramesExist'
    BY <1>1, <1>2, <2>1 DEF FramesExist
  <2> QED  BY <2>1, <2>2, <2>3
<1>8. CASE ClaimNothing(w) \/ StreamEvent(w)
  BY <1>2, <1>8 DEF ClaimNothing, StreamEvent, QueueClaimNothing, QueueHeartbeat,
                    frames, Shrinks, FramesExist, ForeignOpen
<1> QED  BY <1>3, <1>4, <1>5, <1>6, <1>7, <1>8 DEF RunOnce

\* What a status may become by a call: only the submitting ones open a run.
LEMMA AdmitWrites ==
  ASSUME AdmitInv, NEW c \in Controllers, NEW r, r = call[c].run,
         ControllerStep(c) \/ \E t \in Tasks : ControllerCall(c, t)
  PROVE  \/ status' = status
         \/ /\ call[c].op \in {"create", "enqueue", "resume"}
            /\ r \in Tasks
            /\ status' = [status EXCEPT ![r] = "queued"]
            /\ call[c].op = "create" => status[r] = "none"
         \/ /\ call[c].op \in {"cancel", "close"}
            /\ r \in Tasks
            /\ status' = [status EXCEPT ![r] = "cancelled"]
<1>1. call[c].op # "idle" => r \in Tasks
  BY DEF AdmitInv, TypeInv, FrameOK
<1> HIDE DEF Continue
<1>2. \A from, to : Continue(c, from, to) => call[c].op = from
  BY DEF Continue
<1>3. ASSUME NEW t \in Tasks, ControllerCall(c, t)
      PROVE  status' = status
  BY <1>3 DEF ControllerCall, Start, ResumeCheck, CancelCheck, tasks
<1>4. CASE Admit(c) \/ CancelMark(c)
  BY <1>4 DEF Admit, CancelMark, tasks
<1>5. CASE Create(c)
  BY <1>1, <1>2, <1>5 DEF Create, StoreCreate, tasks
<1>6. CASE Enqueue(c)
  BY <1>1, <1>2, <1>6 DEF Enqueue, QueueEnqueue
<1>7. CASE EnqueueOver(c)
  BY <1>1, <1>7 DEF EnqueueOver, QueueEnqueue
<1>8. CASE ResumeUpdate(c)
  BY <1>1, <1>2, <1>8 DEF ResumeUpdate, StoreUpdate
<1>9. CASE CancelQueue(c) \/ CancelStore(c)
  BY <1>1, <1>2, <1>9 DEF CancelQueue, CancelStore, QueueCancel, StoreUpdate
<1> QED  BY <1>3, <1>4, <1>5, <1>6, <1>7, <1>8, <1>9 DEF ControllerStep

\* How a call moves on, and what that rests on.
LEMMA AdmitMoves ==
  ASSUME AdmitInv, NEW c \in Controllers,
         ControllerStep(c) \/ \E t \in Tasks : ControllerCall(c, t)
  PROVE  \A d \in Controllers :
           \/ call'[d] = call[d] /\ d # c
           \/ call'[d] = Idle \/ call'[d].op = "idle"
           \/ /\ d = c /\ call'[c].run = call[c].run
              /\ \/ /\ call[c].op = "admit" /\ call'[c].op = "create" /\ status' = status
                    /\ WithinLimits(Parent[call[c].run], 1)
                 \/ /\ call[c].op \in {"create", "resume"} /\ call'[c].op = "enqueue"
                    /\ status' = [status EXCEPT ![call[c].run] = "queued"]
                 \/ call[c].op = "mark" /\ call'[c].op = "cancel" /\ status' = status
           \/ /\ d = c /\ status' = status
              /\ \/ /\ c \in Starters /\ call'[c].op = "admit"
                 \/ /\ c \in Starters /\ call'[c].op = "create"
                    /\ Parent[call'[c].run] = None
                 \/ /\ c \in Resumers /\ call'[c].op = "resume"
                    /\ status[call'[c].run] = "failed"
                 \/ /\ call'[c].op \in {"mark", "close"}
                    /\ call'[c].run \in Tasks \ Foreign
                    /\ status[call'[c].run] # "none"
<1>1. CallOK
  BY DEF AdmitInv, TypeInv, TypeOK, FrameOK, CallOK
<1> USE DEF Operation, tasks
<1> HIDE DEF Continue
<1>2. CASE Admit(c)
  <2>1. CASE Continue(c, "admit", "create")
    BY <1>1, <1>2, <2>1, ContinueCall DEF Admit
  <2>2. CASE Continue(c, "admit", "idle")
    BY <1>1, <2>2, ContinueCall
  <2> QED  BY <1>2, <2>1, <2>2 DEF Admit
<1>3. CASE Create(c)
  <2>1. CASE Continue(c, "create", "enqueue") /\ StoreCreate(call[c].run)
    BY <1>1, <2>1, ContinueCall DEF StoreCreate
  <2>2. CASE Continue(c, "create", "idle")
    BY <1>1, <2>2, ContinueCall
  <2> QED  BY <1>3, <2>1, <2>2 DEF Create
<1>4. CASE Enqueue(c)
  <2>1. Continue(c, "enqueue", "idle")
    BY <1>4 DEF Enqueue
  <2> QED  BY <1>1, <2>1, ContinueCall
<1>5. CASE EnqueueOver(c)
  <2>1. PICK d \in Controllers : call' = [call EXCEPT ![c] = Idle, ![d] = Idle]
    BY <1>5 DEF EnqueueOver
  <2> QED  BY <1>1, <2>1 DEF CallOK
<1>6. CASE ResumeUpdate(c)
  <2>1. /\ Continue(c, "resume", "enqueue")
        /\ status' = [status EXCEPT ![call[c].run] = "queued"]
    BY <1>6 DEF ResumeUpdate, StoreUpdate
  <2> QED  BY <1>1, <2>1, ContinueCall
<1>7. CASE CancelMark(c)
  <2>1. Continue(c, "mark", "cancel") /\ status' = status
    BY <1>7 DEF CancelMark
  <2> QED  BY <1>1, <2>1, ContinueCall
<1>8. CASE CancelQueue(c)
  <2>1. Continue(c, "cancel", "idle")
    BY <1>8 DEF CancelQueue
  <2> QED  BY <1>1, <2>1, ContinueCall
<1>9. CASE CancelStore(c)
  <2>1. Continue(c, "close", "idle")
    BY <1>9 DEF CancelStore
  <2> QED  BY <1>1, <2>1, ContinueCall
<1>10. ASSUME NEW t \in Tasks, ControllerCall(c, t)
       PROVE  \A d \in Controllers :
                \/ call'[d] = call[d] /\ d # c
                \/ /\ d = c /\ status' = status
                   /\ \/ /\ c \in Starters /\ call'[c].op = "admit"
                      \/ /\ c \in Starters /\ call'[c].op = "create"
                         /\ Parent[call'[c].run] = None
                      \/ /\ c \in Resumers /\ call'[c].op = "resume"
                         /\ status[call'[c].run] = "failed"
                      \/ /\ call'[c].op \in {"mark", "close"}
                         /\ call'[c].run \in Tasks \ Foreign
                         /\ status[call'[c].run] # "none"
  <2>1. CASE Start(c, t)
    BY <1>1, <2>1 DEF Start, Enter, CallOK
  <2>2. CASE ResumeCheck(c, t)
    BY <1>1, <2>2 DEF ResumeCheck, Enter, CallOK
  <2>3. CASE CancelCheck(c, t)
    BY <1>1, <2>3 DEF CancelCheck, Enter, CallOK
  <2> QED  BY <1>10, <2>1, <2>2, <2>3 DEF ControllerCall
<1> QED  BY <1>2, <1>3, <1>4, <1>5, <1>6, <1>7, <1>8, <1>9, <1>10 DEF ControllerStep

LEMMA AdmitController ==
  ASSUME \A c, d \in Starters \cup Resumers : c = d,
         AdmitInv, NEW c \in Controllers,
         ControllerStep(c) \/ \E t \in Tasks : ControllerCall(c, t)
  PROVE  CallsExist' /\ FramesExist' /\ ForeignOpen' /\ Admitted'
<1> DEFINE r == call[c].run
<1>1. /\ status \in [Tasks -> TaskStatus] /\ Foreign \subseteq Tasks
      /\ call \in [Controllers -> [op : Operation, run : Tasks \cup {None}]]
      /\ \A w \in Workers : pc[w] # "idle" => held[w] \in Tasks
      /\ \A d \in Controllers : call[d].op # "idle" => call[d].run \in Tasks
  BY TopologyAssumption DEF AdmitInv, TypeInv, TypeOK, QueueTypeOK, FrameOK
<1>2. CallsExist /\ FramesExist /\ ForeignOpen /\ Admitted /\ TypeInv
  BY DEF AdmitInv
<1>3. \/ status' = status
      \/ /\ call[c].op \in {"create", "enqueue", "resume"}
         /\ r \in Tasks
         /\ status' = [status EXCEPT ![r] = "queued"]
      \/ /\ call[c].op \in {"cancel", "close"}
         /\ r \in Tasks
         /\ status' = [status EXCEPT ![r] = "cancelled"]
  BY AdmitWrites
<1>4. \A t \in Tasks : status[t] # "none" => status'[t] # "none"
  BY <1>1, <1>3
<1>5. FramesExist'
  <2>1. UNCHANGED <<pc, held>>
    BY DEF ControllerStep, ControllerCall, Admit, Create, Enqueue, EnqueueOver,
           ResumeUpdate, CancelMark, CancelQueue, CancelStore, Start, ResumeCheck,
           CancelCheck, frames
  <2> QED  BY <1>1, <1>2, <1>4, <2>1 DEF FramesExist
<1>6. ForeignOpen'
  <2>1. call[c].op \in {"cancel", "close"} => r \notin Foreign
    BY <1>2 DEF CallsExist
  <2> QED  BY <1>1, <1>2, <1>3, <2>1 DEF ForeignOpen
<1>7. \/ Shrinks
      \/ call[c].op \in {"create", "enqueue", "resume"}
  <2>1. call[c].op \in {"cancel", "close"} => status[r] # "none"
    BY <1>2 DEF CallsExist
  <2> QED  BY <1>1, <1>3, <2>1 DEF Shrinks
<1>8. CallsExist'
  <2> SUFFICES ASSUME NEW d \in Controllers
               PROVE  /\ call'[d].op \in Submitting => d \in Starters \cup Resumers
                      /\ call'[d].op \in {"mark", "cancel", "close"} => call'[d].run \notin Foreign
                      /\ call'[d].op \notin {"idle", "admit", "create"} => status'[call'[d].run] # "none"
    BY DEF CallsExist
  <2>1. CASE call'[d] = call[d] /\ d # c
    BY <1>1, <1>2, <1>4, <2>1 DEF CallsExist
  <2>2. CASE call'[d] = Idle \/ call'[d].op = "idle"
    BY <2>2 DEF Idle, Submitting
  <2>3. CASE d = c /\ call'[c].run = call[c].run /\ call[c].op = "admit" /\ call'[c].op = "create"
    BY <1>2, <2>3 DEF CallsExist, Submitting
  <2>4. CASE /\ d = c /\ call'[c].run = call[c].run
             /\ call[c].op \in {"create", "resume"} /\ call'[c].op = "enqueue"
             /\ status' = [status EXCEPT ![call[c].run] = "queued"]
    <3>1. call[c].run \in Tasks
      BY <1>1, <2>4
    <3> QED  BY <1>1, <1>2, <2>4, <3>1 DEF CallsExist, Submitting
  <2>5. CASE /\ d = c /\ call'[c].run = call[c].run
             /\ call[c].op = "mark" /\ call'[c].op = "cancel" /\ status' = status
    BY <1>2, <2>5 DEF CallsExist, Submitting
  <2>6. CASE /\ d = c /\ status' = status
             /\ \/ c \in Starters /\ call'[c].op \in {"admit", "create"}
                \/ /\ c \in Resumers /\ call'[c].op = "resume"
                   /\ status[call'[c].run] = "failed"
                \/ /\ call'[c].op \in {"mark", "close"}
                   /\ call'[c].run \in Tasks \ Foreign
                   /\ status[call'[c].run] # "none"
    BY <2>6 DEF Submitting
  <2> QED  BY <2>1, <2>2, <2>3, <2>4, <2>5, <2>6, AdmitMoves
<1>9. Admitted'
  <2> SUFFICES ASSUME NEW d \in Controllers, call'[d].op = "create",
                      NEW p, p = Parent[call'[d].run], p # None
               PROVE  WithinLimits(p, 1)'
    BY DEF Admitted
  <2>1. CASE call'[d] = call[d] /\ d # c
    <3>1. WithinLimits(p, 1)
      BY <1>2, <2>1 DEF Admitted
    <3>2. d \in Starters \cup Resumers
      BY <1>2, <2>1 DEF CallsExist, Submitting
    <3>3. call[c].op \notin {"create", "enqueue", "resume"}
      BY <1>2, <2>1, <3>2 DEF CallsExist, Submitting
    <3> QED  BY <1>2, <1>7, <3>1, <3>3, LimitsKept
  <2>2. CASE /\ d = c /\ call'[c].run = call[c].run
             /\ status' = status /\ WithinLimits(Parent[call[c].run], 1)
    <3>1. Shrinks /\ WithinLimits(p, 1)
      BY <2>2 DEF Shrinks
    <3> QED  BY <1>2, <3>1, LimitsKept
  <2>3. call'[d] # Idle
    BY DEF Idle
  <2> QED  BY <2>1, <2>2, <2>3, AdmitMoves
<1> QED  BY <1>5, <1>6, <1>8, <1>9

LEMMA AdmitStep ==
  ASSUME \A c, d \in Starters \cup Resumers : c = d
  PROVE  AdmitInv /\ [Next]_vars => AdmitInv'
<1> SUFFICES ASSUME AdmitInv, [Next]_vars PROVE AdmitInv'
  OBVIOUS
<1>1. TypeInv'
  BY TypeStep DEF AdmitInv
<1>2. CASE UNCHANGED vars
  <2>1. CallsExist' /\ FramesExist' /\ ForeignOpen'
    BY <1>2 DEF AdmitInv, CallsExist, FramesExist, ForeignOpen, vars
  <2>2. Admitted'
    BY <1>2 DEF AdmitInv, Admitted, WithinLimits, ActiveChildren, ChildrenOf, vars
  <2> QED  BY <1>1, <2>1, <2>2 DEF AdmitInv
<1>3. ASSUME NEW w \in Workers, RunOnce(w) \/ StreamEvent(w) \/ StreamThrowsForeign(w)
      PROVE  AdmitInv'
  <2>1. /\ Shrinks /\ FramesExist' /\ ForeignOpen'
        /\ \A c \in Controllers : call'[c] = call[c] \/ call'[c] = Idle
    BY <1>3, AdmitWorker
  <2>2. CallsExist'
    <3>1. \A c \in Controllers : call[c].op # "idle" => call[c].run \in Tasks
      BY DEF AdmitInv, TypeInv, FrameOK
    <3> QED  BY <2>1, <3>1 DEF AdmitInv, CallsExist, Shrinks, Idle, Submitting
  <2>3. Admitted'
    <3> SUFFICES ASSUME NEW c \in Controllers, call'[c].op = "create",
                        NEW p, p = Parent[call'[c].run], p # None
                 PROVE  WithinLimits(p, 1)'
      BY DEF Admitted
    <3>1. call'[c] = call[c]
      BY <2>1 DEF Idle
    <3>2. WithinLimits(p, 1)
      BY <3>1 DEF AdmitInv, Admitted
    <3> QED  BY <2>1, <3>2, LimitsKept DEF AdmitInv
  <2> QED  BY <1>1, <2>1, <2>2, <2>3 DEF AdmitInv
<1>4. ASSUME NEW c \in Controllers,
             ControllerStep(c) \/ \E t \in Tasks : ControllerCall(c, t)
      PROVE  AdmitInv'
  BY <1>1, <1>4, AdmitController DEF AdmitInv
<1> QED  BY <1>2, <1>3, <1>4 DEF Next

LEMMA AdmitInit == Init => AdmitInv
<1> SUFFICES ASSUME Init PROVE CallsExist /\ FramesExist /\ ForeignOpen /\ Admitted
  BY TypeInit DEF AdmitInv
<1>1. /\ \A c \in Controllers : call[c].op = "idle"
      /\ \A w \in Workers : pc[w] = "idle"
  BY DEF Init, Idle
<1>2. ForeignOpen
  BY TopologyAssumption DEF Init, QueueInit, ForeignOpen
<1> QED  BY <1>1, <1>2 DEF CallsExist, FramesExist, Admitted, Submitting

\* A child that start() creates is within every limit of the policy at the
\* moment it appears, for any family of runs, any limits, any number of threads
\* and of cancelling controllers, tasks of another type and foreign exceptions,
\* as long as one controller thread submits: starts and resumes.  With two the
\* count of enforce_child_agent_policy can be stale when its child is created.
THEOREM AdmissionHolds ==
  ASSUME \A c, d \in Starters \cup Resumers : c = d
  PROVE  Spec => AdmissionWithinLimits
<1> DEFINE Within == \A t \in Tasks :
             Parent[t] # None /\ status[t] = "none" /\ status'[t] # "none"
               => WithinLimits(Parent[t], 1)
<1>1. AdmitInv /\ [Next]_vars => AdmitInv'
  BY AdmitStep
<1>2. AdmitInv /\ [Next]_vars => [Within]_vars
  <2> SUFFICES ASSUME AdmitInv, Next, NEW t \in Tasks, Parent[t] # None,
                      status[t] = "none", status'[t] # "none"
               PROVE  WithinLimits(Parent[t], 1)
    OBVIOUS
  <2>1. ASSUME NEW w \in Workers, RunOnce(w) \/ StreamEvent(w) \/ StreamThrowsForeign(w)
        PROVE  FALSE
    BY <2>1, AdmitWorker DEF Shrinks
  <2>2. ASSUME NEW c \in Controllers,
               ControllerStep(c) \/ \E u \in Tasks : ControllerCall(c, u)
        PROVE  WithinLimits(Parent[t], 1)
    <3> DEFINE r == call[c].run
    <3>1. /\ r = t
          /\ call[c].op \in {"create", "enqueue", "resume", "cancel", "close"}
      <4>1. \/ status' = status
            \/ /\ call[c].op \in {"create", "enqueue", "resume"}
               /\ status' = [status EXCEPT ![r] = "queued"]
            \/ /\ call[c].op \in {"cancel", "close"}
               /\ status' = [status EXCEPT ![r] = "cancelled"]
        BY <2>2, AdmitWrites
      <4>2. status \in [Tasks -> TaskStatus]
        BY DEF AdmitInv, TypeInv, TypeOK, QueueTypeOK
      <4> QED  BY <4>1, <4>2
    <3>2. call[c].op = "create"
      BY <3>1 DEF AdmitInv, CallsExist
    <3> QED  BY <3>1, <3>2 DEF AdmitInv, Admitted
  <2> QED  BY <2>1, <2>2 DEF Next
<1> QED  BY <1>1, <1>2, AdmitInit, PTL DEF Spec, AdmissionWithinLimits
=============================================================================
