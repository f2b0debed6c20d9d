# A TLA+ model of cpp-agent

cpp-agent is a C++ framework for agents: a model loop with tools, and around it
a task runtime, asynchronous agent runs, event streams, autonomous runs,
workflows, remote tools, memory and an HTTP server over all of them. This
directory models the parts of it in which several threads, requests or process
lifetimes meet. TLC checks the modules on small instances, TLAPS proves the
theorems for every value of the constants. Source paths below are relative to
the root of the repository.

## 1. Inventory

### Components, their state and how they interact

| Component | Source | State | Operations | Hard part |
|---|---|---|---|---|
| Task store and queue | `src/agent/tasks.cpp` 1-400 | tasks with status and attempts; the deque of queued ids | create, update status, append and update attempts; enqueue, claim, heartbeat, complete, fail, cancel | two mutexes, callers that write past the queue, deque and store that can disagree |
| Task worker | `tasks.cpp` 660-745 | `cancelled_task_ids_`, `active_cancellations_`, a stack frame per thread | run_once, cancel | windows between claim, registration, handler, check and settlement |
| Task routes | `src/agent/server/task_routes.inc` | none of their own | create, resume, cancel | check, then act, in separate store calls |
| File task store | `tasks.cpp` 1500-1639 | one JSON file, rewritten by every store call | load, persist | crash between the store calls of one queue operation |
| Async agent runs | `src/agent/async.cpp` | as the task worker's; runs are tasks, child runs name a parent | worker run_once and cancel; controller start, resume, cancel | the same windows, and a limit on child runs that is counted before it is used |
| Runner event stream | `include/agent/streaming.hpp`, `src/agent/runtime.cpp`, `src/agent/runtime/runner_streaming.cpp` | bounded queue, two condition variables, a token, a producer thread | push, next, close, fail, cancel, destructor | lost wakeups, close against push, joining a blocked thread |
| Tool client | `src/agent/tool_client.cpp` | pending calls by id and by idempotency key, stored results; active calls on the other side | call_tool, handle_message, stop | timeout against late result, retries, stop against call |
| Autonomous runs | `src/agent/autonomous.cpp` | run status, steps with status and attempts | create, plan, run, resume and retry, complete a waiting step, cancel | a call is a sequence of store calls without a lock; crashes between them, a running step that overwrites what happened meanwhile |
| Workflow engine | `src/agent/workflow.cpp` | node and edge states, signals, the saved state, a copy per call | run, resume, human response, webhook | joins, waits in the middle of a graph, load and save without a lock |
| Tool runs | `src/agent/tool_runs.cpp` | records with status and lease | create, update, list | terminal states, leases |
| Cancellation, buses | `src/agent/execution.cpp` | tokens with callbacks, subscribers, replay buffer | cancel, add and remove callback; publish, subscribe | callbacks and deliveries outside the lock |
| Agent loop, ReAct loop, tools | `src/agent/runtime/`, `react/`, `tools.cpp` | messages, steps, usage | run, batch of tool calls | sequential; limits, partial failure of a batch |
| Approvals | `src/agent/server/approval_*.inc` | approval requests | request, decide, expire | decision against expiry |
| Session memory | `src/agent/memory/session_memory.inc` | messages, pending overflow, polished baseline, two refinement flags | add, compact, await, clear | three mutexes, refinement by a detached thread from a snapshot |
| C API | `src/agent_capi.cpp` | handles, a run worker | start, poll, destroy | destruction while running |

The remaining components (providers, knowledge base, web, media, skills,
configuration, CLI, observability, the text of prompts and messages) transform
data or wrap I/O. `PROJECT.json` lists every component with its sources.

How they interact: the task routes and the async routes call the store and the
queue from server threads; hosts drive `AgentTaskWorker::run_once()` and
`AsyncAgentRunWorker::run_once()` in loops over the same kind of queue; an async
worker hands a run to a runner and follows its stream; a stream is a producer
thread that runs the agent loop; cancellation reaches all of them through
`CancellationToken`.

### What makes each part correct

- Store and queue: an id is in the deque at most once and only while its task is
  Queued; a settled attempt is never rewritten; a Completed task is backed by a
  Completed attempt with an output, also on disk.
- Workers: a claim is exclusive; a cancel request is never lost between the
  marks it leaves; no registered token outlives its frame; every task settles;
  a task that reads Running is being run.
- Async runs: a closed state is not left (the code breaks this, see Findings); a
  run that nobody holds is at rest; the limits on child runs hold.
- Stream: a bounded FIFO, no lost wakeup, an end that is final and quiet, calls
  and the destructor return.
- Tool client: one effect and one answer per idempotency key, tables of pending
  calls that agree, every call returns.
- Autonomous runs: a step is done once and after its dependencies, the steps it
  appends are in the plan once (but for one crash, see section 3), a run that reads
  Completed has nothing left to do, an open run is closed in the end.
- Workflows: a node runs only when its inbound edges allow it, Completed means
  that nothing waits or can run, a run ends once its waits are answered.
- Session memory: one refinement at a time, no message lost or repeated on its
  way from the window to the baseline, every call returns.

The hazards behind these are listed, each at its line, in `PROJECT.json`.

## 2. Modules

| Module | Models | State and actions |
|---|---|---|
| `TaskQueue` | `InMemoryTaskStore`, `InMemoryTaskQueue` | `status`, `runs`, `queue`; one operator per operation (`QueueClaim`, `QueueSettle`, `QueueCancel`, ...), used by the two workers. No specification of its own |
| `TaskWorker` | `AgentTaskWorker`, the task routes, crashes over `FileTaskStore` | a `pc` and a claim per thread, the worker's two tables, a call per route; one action per point between two mutexes |
| `TaskLifecycle` | what the task runtime promises | `status`, `owner`; start, settle, cancel. `TaskWorker` implements it through `owner` |
| `AsyncRun` | `AsyncAgentRunWorker`, `AsyncAgentRunController`, the child policy | as `TaskWorker`, with the controllers' calls |
| `EventStream` | `BoundedStreamQueue`, `RunnerStreaming::events`, `AgentRunnerEventStream` | the queue, the token, a location per thread, two history counters |
| `ToolClient` | `ToolClientBroker`, one `ToolClientRuntime`, the transport between them | a `pc` and a record per call, the broker's four tables, the set of messages under way, a frame per request in the runtime, its cache; one action per message handler or per step between two locks |
| `Autonomous` | `AutonomousRunManager` over `FileAutonomousStore`, as the routes use it | the run's status and its steps; a `pc` per server thread (drivers create and resume, operators cancel and answer); one action per store call or per call of the planner or the executor |
| `Workflow` | `WorkflowEngine` over a `WorkflowStore`, as the routes use it | the stored run and a copy per server thread; one action from one access of the store to the next; the graph is a constant |
| `SessionMemory` | one `SessionMemory` with its background refinement | messages as numbers in the window, the overflow, the tail and the baseline; the flags and the pipeline mutex; a `pc` per host and per refiner thread; one action per critical section |
| `MCTaskWorker`, `MCAsyncRun`, `MCToolClient`, `MCAutonomous`, `MCWorkflow`, `MCSessionMemory` | values for TLC | `EventStream` needs none |
| `TaskQueueProofs`, `TaskWorkerProofs`, `AsyncRunProofs`, `EventStreamProofs`, `ToolClientProofs`, `AutonomousProofs`, `WorkflowProofs`, `SessionMemoryProofs` | theorems | |

Conventions. A step is what a thread does between two points where it holds no
mutex; every operation of the queue is one step, because the queue's mutex is
held from its first line to its last. The store has a mutex of its own, so a
caller that writes a status directly can do so inside a queue operation. For a
write of Queued (`resume`) that has the effect of a write before or after the
operation. A write of Cancelled by a controller without a worker can be lost
inside `claim` and `enqueue`: `AsyncRun` has these outcomes (`Overwritten` in
`Claim`, `EnqueueOver`). `refresh_queued_task_ids` sorts by creation time; ties
leave any order, and `Orders` allows all.

What a data field carries is kept only if control depends on it: attempts are
statuses, an event is its number, a saved output is the attempt that saved it.
Timestamps, audit records, events and access checks are left out. Leases are
left out because nothing reads them: a task that was Running when the process
died is never served again (a hazard in `PROJECT.json`).

A crash of `TaskWorker` forgets everything but the store. The file store writes
after every store call, so besides `Crash` there are `TornClaim`, `TornSettle`
and `TornCancel`, which crash between the store calls of one queue operation.

The transport of `ToolClient` is a set of messages. A message that is lost is one
that stays in it; messages overtake each other; none is delivered twice. The
in-memory transport is the case in which each is handled at once, the socket
transports are the others. The left-out parts are a second client, which shares
no table entry with the first, heartbeats, disconnects that a server sends to a
client, audit events, and the security checks, which may refuse any call
(`Receive` has the refusal).

`Autonomous` and `Workflow` model calls that have no lock of their own. In
`Autonomous` every store call is one step, and a crash may fall between any two;
a call goes on with the snapshot it read last, so what another thread writes
meanwhile is overwritten exactly where the code overwrites it. In `Workflow` a
call works on a copy of the whole run (`state[t]`) and each save replaces what is
stored; the value a condition has is left open (`Activated`), and so is whether a
handler throws (`MayFail`) or a node fails before its handler is reached
(`MayNotStart`, which leaves the node Running). A `before_workflow` hook is one
that returns. Events, checkpoints and outputs
are left out of both. The lists of ids that a call of `Autonomous` works off
(`IdsIn`) are given by what they are, the ids at the ascending positions of the
steps with a status, and not by a recursive filter, so that proofs can use them.

`SessionMemory` numbers the messages in the order in which they are added, so
that "lost", "repeated" and "reordered" are one equation. A summarizer is what it
makes its baseline of: the old baseline and the overflow it was given. The
budget is `max_messages`; budgets in tokens, the truncation of a single message
that exceeds them, the cap on the summary (`summary_max_chars`) and the stores above
a session are left out. So are the listeners of changes and of compactions: an
exception that one of them throws inside `run_refinement_body()` (lines 967, 1000,
1036, 1045, for example when a file store fails) leaves `refinement_in_flight_` set, and
`await_refinements()` then never returns. `EveryCallReturns` is about listeners
that return.

Two properties of `Autonomous` need to know what the store does not say. `done` is
the set of steps that were completed, and `due` the set of those that an executor
completed, less those whose call died before it appended their follow-up steps. Both
are history: no guard reads them.

Definitions called `Mutant` in a comment stand before the definition they
damage: each run's properties are shown to fail when the one replaces the other,
so that a property that no defect could break would be noticed. They are part
of no specification. `EachStepOnce` has two, one that executes a step again
(`PrepareAll`) and one that forgets follow-up steps (`StepCompletedAlone`).

## 3. Runs

| Run | Instance | Shows |
|---|---|---|
| `WorkerServe` | two tasks enqueued beforehand, two threads, two cancellers | exclusive claims (`SingleExecution`), `StatusIsBacked`, `CancelHonoured`, refinement of `TaskLifecycle` (`ImplementsLifecycle`), `EveryTaskSettles` |
| `WorkerChurn` | one task, two threads, create, resume and cancel (one of the routes without a worker), heartbeats, foreign exceptions, a crash | `TokensSound`, `CompletedIsBacked`, `DequeSound`, `SettledRunFinal` when everything happens at once, and `QueuedIsServed`: what reads Queued is served though the deque is lost |
| `AsyncServe` | one run, two threads, a controller that starts and resumes, one that cancels | `TokensSound`, `RestIsConsistent`, `EveryRunSettles` |
| `AsyncPolicy` | a root, two children, limit of one active child, a task of another type, foreign exceptions, a controller without a worker | `AdmissionWithinLimits` |
| `AsyncClosed` | one run enqueued beforehand, one thread, a controller that only cancels | finding: `CancelledIsFinal` fails |
| `StreamThreads` | producer, two readers, a canceller, the owner, capacity two | `BufferIsGap`, `NoLostWakeup`, `CloseIsQuiet`, `EndIsFinal`, `CallsReturn` |
| `ToolRetry` | a call and a second one with its key that joins or repeats it, a runtime that starts twice and remembers one answer | `PendingAgree`, `EffectOnce`, `RetrySame`, `EveryCallReturns` |
| `ToolDuplicate` | two calls with one key that begin independently | finding: `PendingDeduplicated` fails |
| `AutonomousDrive` | two planned steps, the second depends on the first, the first appends a third that depends on the second; a driver, an operator, a limit of two steps per call; two exceptions, waits, cancels and crashes | `EachStepOnce`, `DependenciesFirst`, `CompletedIsExhausted`, `EveryRunCloses` |
| `WorkflowReview` | a start node, a human wait and a webhook wait side by side, a join for "all" and one for "any" behind them, one conditional edge; two server threads, a handler that fails, a node that cannot start, a needless resume or early answer, a crash | `JoinsInTime`, `CompletedIsDone`, `EveryRunEnds` |
| `SessionRefine` | two hosts, two refiner threads, all four combinations of the options, a window of one, three messages, four calls | `OneRefinement`, `NothingLost`, `EveryCallReturns` |
| `SessionLeftBehind` | two hosts, one refiner, nothing fails | finding: `NothingLeftBehind` fails |

Every module's type invariant is checked in one of its runs. The liveness
properties are checked together with the safety properties of their run.

### Why these instances

Two threads are enough for every race of two claims or a claim with a
settlement; the theorems show that the safety properties do not depend on the
number. One resume lets a task have two attempts with both threads in it, one
crash is followed by a full life of the restarted process. A queue of two and
three events before the last one make the buffer fill, drain and fill again with
the producer asleep. The bounds are `MaxResumes`, `MaxCrashes`,
`MaxForeignClaims`, `MaxEvents`, `MaxStarts`, `MaxFailures`, `MaxWaits`,
`MaxCancels`, `MaxUnneeded`, `MaxAdds` and `MaxCalls`; each is a guard of the
actions it counts. The limits `MaxGlobal`, `MaxActive`, `MaxTotal`, `MaxCache`,
`MaxStepsPerRun` and `Window` are the program's own. In `ToolRetry` two calls with one key are the smallest case in which one
finds what another left, and the second start of the runtime lets a disconnect,
a registration and the messages of both lives overtake each other; the theorems
about `ToolClient` hold for any number of calls.

In `AutonomousDrive` a limit of two steps makes a call throw with the run half
done, so that the next one continues it; two crashes let the second fall into
the recovery from the first. In `WorkflowReview` the two waits can be answered in
either order, by overlapping calls, and each join sees one edge settled before
the other; the run ends in failure or completion on either branch. In
`SessionRefine` a window of one makes every second message an overflow, so that
compactions, a refinement in flight and its trailing one all have something to
move; two refiner threads could run two refinements if the flag let them.

`CHECK_DEADLOCK FALSE` is set in all: with no request under way and nothing
queued the system rests.

### What a run leaves out on purpose

- `WorkerServe` has no create and resume routes. `create_task` publishes a task
  before `enqueue` pushes it; a poll in between claims it, and `enqueue` sets it
  back to Queued. Then two threads execute one task, with one attempt each. The
  code allows it, `WorkerChurn` contains it, and what the other properties say
  holds through it. `SingleExecution`, `StatusIsBacked`, `CancelHonoured` and the
  refinement are claims about tasks that were enqueued
  before the workers ran.
- `AutonomousDrive` has one driver. A second thread that resumes the same run
  re-queues the step that the first is executing, and both execute it: the code
  keeps no two calls apart. `DependenciesFirst` and the types are proved for any
  number of drivers. `CompletedIsExhausted` speaks of runs that nobody cancelled: a cancel
  that overlaps `run()` may see its run completed over open steps.
- A step of an autonomous run is recorded as Completed by one store call
  (`autonomous.cpp` 1590) and its `next_steps` are appended by a later one (1608).
  A process that dies in between loses them for good: `run()` never asks a Completed
  step for what follows it. `docs/autonomous.md` says that `next_steps` are appended and
  names no exception. `AutonomousDrive` contains this crash; `EachStepOnce` demands the
  follow-up steps of every other completed step, at every moment after its call has
  gone on and after every other crash, and excepts exactly this one (`Crash` takes the
  step out of `due`). `CompletedIsExhausted` does not see the loss: the steps are in
  no run.
- In `WorkflowReview` calls overlap, and two that do can lose each other's
  answers for good, because each saves its own copy. `JoinsInTime` and
  `CompletedIsDone` hold in every copy all the same; `EveryRunEnds` asks that
  calls stop overlapping (`Apart`) and that a client resumes a run whose process
  died between the save of an answer and the `resume()` that follows it.
- `Workflow` sends no answer to a node that runs, completed or failed (`Wanted`): the
  engine does not check that a node waits and would execute it again. An early
  answer, to a node that still is pending, is sent.
- `SessionRefine` clears the session, also between the two halves of a
  compaction. The compaction then drops messages it never planned to drop, or
  brings cleared ones back; `NothingLost` says nothing after such a `clear()`
  (`torn`).
- `WorkerServe` and `AsyncServe` have no foreign exceptions and no controllers
  without a worker: a foreign exception leaves a task Running for ever by
  design of its `catch (...)`, and such a cancel leaves an attempt Running.
- `AsyncPolicy` has one thread that starts runs. Two concurrent `start` calls
  can both count before either creates; the controller has no lock. The property
  is about what else may happen between the count and the creation.
- `EffectOnce` and `RetrySame` speak of the time before the broker is stopped
  (`stop()` forgets the pending keys without storing an error) and of keys whose
  calls are ordered: the constant `After` says which call must have been
  registered when another begins. Without it the finding about the tool
  client applies.

### Fairness

`FairSpec` gives weak fairness to a thread inside a call: a worker thread takes
its next step (hosts drive `run_once()` in a loop, and a handler, told by its
token or not, ends), a route or a controller call that has begun runs to its
end, a stream's producer runs until the runner ends, and a reader or a closer
that is inside `next()` or `cancel()` goes on when it can. A thread inside
`call_tool()` goes on, and its timeout, 30 s unless the host sets another, passes
(one of 0 makes a call wait for ever and is left out);
nothing is assumed of the transport or of the client. In `Autonomous` a call goes
on until it returns; a client resumes a run as long as it is open, and somebody
completes a step that waits (without either an interrupted or waiting run stays
as it is, by design). In `Workflow` a call goes on, a node that waits is answered,
and a run that a crash left open is resumed. In `SessionMemory` threads run on
and the executor starts what it accepted. Nobody is bound to
make a request, to cancel, to heartbeat or to crash. A handler that never
returns is outside these properties. `std::condition_variable` promises no order
among sleepers; `WakeReader` picks any.

### Findings

- `AsyncClosed`: a run is claimed and its stream returns; a controller cancels it,
  which sets it to Cancelled; `run_once()` then calls `complete`, which looks at
  nothing and sets it to Completed (`async.cpp` 1392).
  `docs/async-agent-run.md` calls Cancelled a closed state. Nothing else happens in
  the trace: nobody starts or resumes runs in this instance.
- `ToolDuplicate`: `call_tool()` looks a key up and registers the call in two
  separate critical sections, so two calls with one key can both be pending and
  sent. `docs/tool-client.md` says that pending calls with one key are
  deduplicated.
- `SessionLeftBehind`: `run_refinement_body()` looks at the overflow under one
  mutex and decides about a trailing refinement under another. A compaction in
  between sets `refinement_pending_`, is believed to be served, and is forgotten:
  its overflow stays until somebody compacts again. The comment above the code
  says that the body in flight picks it up.

## 4. Proofs

All theorems are of the whole specification with its constants free: any number
of tasks, threads, routes, readers and cancellers, any capacity, any bound.
Assumptions are the named ones of the modules: the roles are subsets of the
threads, preloaded ids are distinct, bounds are naturals, `None` is none of
the values it stands beside, `Tasks` and `Readers` are finite, the
capacity is positive.

`TaskQueueProofs` shows that every queue operation preserves the types of the
store and the soundness of the deque. `TaskWorkerProofs` builds on it, first for
the specification as it stands:

- `TypeInv` is `TypeOK` with `FrameOK`: a thread holds a task and an attempt
  exactly while it is inside `run_once()`, and a route inside a call names one.
  Types alone are not inductive, because `held[w]` indexes everything.
  Theorem `TypeCorrect`.
- `TokenInv` adds `NoDanglingToken` and `CancelReachesActive`, which are
  inductive together with the types. Theorem `CancelsReach`.
- `AttemptInv`: a thread's attempt exists, no two threads share one, and an
  attempt that its thread has not settled is Running or Cancelled. From it every
  step keeps the attempts that settled (`RunsKept`). Theorem `OutcomesFinal`.
- `RecordInv`: a completed attempt has its output, a Completed task a completed
  attempt, a thread about to complete has saved. It needs `RunsKept` for the
  steps of others. Theorem `CompletionsBacked`.
- `DequeInv` is `TypeInv` with `DequeSound`, which is inductive as it stands:
  an id enters the deque with, or because of, the status Queued, each operation
  that takes a task out of Queued takes its id out under the same mutex, and what
  the routes write past the queue is Queued.
  Theorem `DequeAlwaysSound`.

then where the code keeps its word only without some of its actors:

- `ClaimsExclusive` has no create and resume routes. `ClaimInv` says that the task
  of a held claim does not read Queued and that no call other than a cancel is
  open.
- `CancelsHonoured` has neither these routes (two threads would share the one mark
  of a task) nor a canceller without a worker (it leaves no mark), but crashes and
  foreign exceptions. `HonourInv` adds to `ClaimInv` that a thread that has yet to
  look finds the mark if its task reads Cancelled, and that a cancel that is
  under way has marked its task or comes too late for every thread.
- `StatusAlwaysBacked` has all routes, but no heartbeat (it sets a cancelled
  attempt back to Running), no foreign exception and no crash (both leave a task
  Running with nobody in it). `StatusInv` needs `AttemptInv`: a settlement takes
  the Running attempt with it because it is the attempt of that thread alone.
- `LifecycleImplemented` is the refinement of `TaskLifecycle`: no create and resume
  routes, no foreign exceptions, no crashes. The abstract owner is the thread
  whose claim is unsettled (`OwnerRight`). `LifeInv` says in addition that a task
  that is being cancelled exists. The proof has one step per action: a claim is a
  `Start`, a settlement a `Settle`, a cancel (also one of another server) a
  `Cancel`, everything else a stutter.

`WorkerServe` meets these hypotheses, so it is an instance of the theorems about
its properties.

`AsyncRunProofs` proves the same `TypeInv` of the async runs (`TypeCorrect`) and
their tokens (`CancelsReach`). There a frame unregisters its token before it
clears the mark, and hands a task of another type back without one, so
`TokenInv` also says that these frames own no entry (`Unregistered`).
`RestConsistent` assumes that streams throw no foreign exception, which would
leave the run Running with nobody to settle it. `RestInv` gives each Running
status and each Running attempt a frame that has yet to settle it: a late event
can revive an attempt only while its own frame is still in the stream. It proves
more than `RestIsConsistent` asks, since it does not ask whether the run is
closed. `AdmissionHolds` proves `AdmissionWithinLimits` for one thread that
starts and resumes, which is what the property is about: `AdmitInv` says that
between the count and the creation the limits still hold for the child that is
about to appear (`Admitted`). What workers and cancels do in between can only
lower the number of active children (`LimitsKept`, by cardinality), and neither
adds a child.

`EventStreamProofs` proves the five safety properties of the stream from one
invariant, `IInv`. Besides the properties it says that a failure is recorded
only when the producer has pushed its last event (`FailedIsLast`), that a token
the stream owns is fired only behind a closed queue (`Quiet`), that a reader has
been told the end only of a queue that is empty and takes no more (`Ended`), and
who is on the way to wake a sleeper: `ReadersWoken` and `ProducerWoken`
strengthen `NoLostWakeup` so that it survives the step in which the waker
arrives. Theorems `StreamTypes`, `BufferCorrect`, `WakeupsReach`,
`ClosesQuietly`, `EndsOnce`.

`ToolClientProofs` proves that the broker's tables agree (`TablesAgree`), which
is inductive with the types because every completion goes through one pattern
(`Completing`): a set of calls leaves `pending_`, their keys leave the index,
their records stop waiting. `ExecutesOnce` proves `EffectOnce` from `EffectInv`.
A call is `Claimed` while the client can still be sent it or has been. The key
of a claimed call is in the index under that call or in one of the two stores
(`ClaimKnown`), so no other call with the key gets past the look-up
(`ClaimAlone`), and an execution counts for a call that is claimed
(`ExecutedOnce`). The order of calls (`OrderKept`) is what closes the window
between look-up and registration. `RetriesSame` proves `RetrySame` from
`RetryInv`: a record is made once, completed once and never rewritten
(`RecordSteps`); a store gains a key only with the record of a pending call
(`Stores`); and while a retry has no record of its own, the tables say of the
call it repeats what its record says (`RetryKnown`).

`SessionMemoryProofs` proves `OneRefinement` (`RefinementsExclusive`) from
`ExclusionInv`: who holds the pipeline mutex follows from where the hosts stand
(`PipelineInv`), a host refines only in synchronous and a refiner only in
background mode (`ModeInv`), and the flag counts the body that is running,
submitted or about to be (`FlagInv`). `MessagesKept` proves `NothingLost` from
`FlowInv`, which says of a thread in the middle of a compaction that what it
plans to drop is still the prefix of the window, and of one in the middle of a
refinement that what it has read is still the baseline and a prefix of the
overflow. It needs the exclusion: only because one refinement runs at a time is
the prefix that is erased the prefix that was read.

`WorkflowProofs` proves `JoinsInTime` and `CompletedIsDone` for every graph and
any number of overlapping calls. A call works on a copy that may be stale, so the
invariant, `IInv`, speaks of states one by one (`StoreInv`, `CopyInv`): an edge
that is settled has a completed source, a node that left Pending had its inbound
edges in order, and a node in a call's batch is still ready in its copy. It is
inductive because every state that is stored is some thread's copy and every copy
was stored.

`AutonomousProofs` proves `TypeCorrect` and `DependenciesAlwaysFirst` for any
number of drivers and operators, and every plan. `StepsInv` says that a step past
Pending has its dependencies in `done`, `FramesInv` that the step a call is about
to start, execute or answer has them too: `run()` may act on an old snapshot, but
`done` only grows.

`EachStepDoneOnce` and `CompletedRunIsExhausted` have two hypotheses. `OneDriver`:
the code keeps two overlapping `run()` calls apart by nothing, and with two a step
is executed twice. `DistinctIds`: `normalize_steps()` gives an id only to a step
that comes without one, so that a planner or an executor that uses an id twice
gets two steps of which `update_step()` knows the first. The first theorem rests
on `OnceInv`: what has been completed stays listed and closed (`Settled`); an
operator about to answer finds its step waiting, completed or cancelled
(`Answered`); the step a driver holds, or has on its list to re-queue, is neither
completed nor about to be answered by anybody (`Held`, `Free`); and the steps that
a step appends are not listed before it is completed (`Growing`). That no
follow-up step is missing (`FollowUpsListed`) is inductive beside it: no store call
takes a step off the list, `AppendNext` lists what it appends, and a crash takes a
step whose append is under way out of `due`. Nothing is assumed of the operators, and the driver may fail, stop and crash anywhere.

The second theorem adds `ExhaustInv`: nobody works on a run that reads Completed
(`Closed`); without a cancel nothing reads Cancelled (`Uncancelled`); a step reads
Running only while the driver executes it, has it on its list, or has yet to read
the list (`Interrupted`). So when `run()` finds no step ready and none waiting,
none is left at all, and until it stores Completed only a late answer can come,
which completes a completed step again (`AnsweredAgain`). TLC checked the parts of
both invariants, with one and with two operators, before they were proved.

Every safety property that a passing run checks is the subject of a theorem. Only
model-checked are the liveness properties (`EveryTaskSettles`, `QueuedIsServed`,
`EveryRunSettles`, `CallsReturn`, `EveryCallReturns` of the tool client and of the
session, `EveryRunCloses`, `EveryRunEnds`): they rest on fairness and on
`ENABLED`, which the provers cannot handle.

The hypotheses of the theorems are not there for the proofs alone: with any one
of those of `ClaimsExclusive`, `CancelsHonoured`, `StatusAlwaysBacked`,
`LifecycleImplemented` and `AdmissionHolds` dropped, or with two drivers, TLC finds
the property violated on a small instance, because the code does not keep its
word there. Only `DistinctIds` may be more than `CompletedRunIsExhausted` needs.

## 5. Not modelled

- Of the modelled components: store writes that fail, and a file that is torn
  while it is written (the models crash before or after a write); the idempotency
  keys of the create route; leases, events, audit records, checkpoints and
  outputs; of the workflow engine, artifacts, retries by policy, hooks after a
  node, a `before_workflow` hook that throws, answers to nodes that do not wait
  (but early ones), and start nodes with inbound edges; of the session, `restore()`, token
  budgets, the cap on the summary, listeners of changes (whose calls may
  overtake each other) and of compactions, also when they throw, and the
  session stores.
- `max_visits` of a workflow node is parsed and never enforced, and an edge that
  is skipped settles no edge behind it: a join for "all" behind two levels of an
  untaken branch never runs, and its run reads Completed. The ready rule in
  `Workflow` has this; no property speaks about it because no document does.
- Adapters of external services (BullMQ, Postgres, model providers, MCP peers,
  browsers, llama.cpp): what they promise is not in this code.
- Tool runs, approvals, the cancellation callbacks, the realtime bus, the agent
  loop, the C API: state of their own that a model could hold, listed in the
  plan.
- The rest transforms data (knowledge base, configuration, prompts, messages,
  ranking of vectors, built-in tools, CLI) and has no step that another thread,
  a crash or a timeout could fall between. It makes up most of the code.

## 6. Plan

Done: `TaskQueue`, `TaskWorker`, `TaskLifecycle`, `AsyncRun`, `EventStream`,
`ToolClient`, `Autonomous`, `Workflow`, `SessionMemory` and the proofs above. Next:

1. `Cancellation` (callbacks, linked tokens) and `RealtimeBus` (order, replay).
2. `ToolRuns` and `Approvals`: stores with terminal states and expiry.
3. The agent loop with its limits and tool batches; the BullMQ worker over an
   external queue; failing writes of the file stores.

## 7. Running

    tlc -config WorkerServe.cfg MCTaskWorker
    tlc -config AsyncPolicy.cfg MCAsyncRun
    tlc -config EventStream.cfg EventStream
    tlc -config ToolRetry.cfg MCToolClient
    tlc -config AutonomousDrive.cfg MCAutonomous
    tlc -config WorkflowReview.cfg MCWorkflow
    tlc -config SessionRefine.cfg MCSessionMemory
    tlapm TaskWorkerProofs.tla

`PROJECT.json` names the module and the configuration of every run, the lines of
the source that each definition models, the mutants, hazards and theorems.
