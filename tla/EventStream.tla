---------------------------- MODULE EventStream ----------------------------
(***************************************************************************)
(* AgentRunnerEventStream: a runner thread that pushes its events into a   *)
(* BoundedStreamQueue (src/include/agent/streaming.hpp), host threads that *)
(* pull them, cancel the stream and finally destroy it.                    *)
(*                                                                         *)
(* A step is what a thread does under the queue's mutex or, outside it, one*)
(* notification or one change of the token.  A thread in wait() is asleep  *)
(* until it is notified; spurious wakeups change nothing a step could see. *)
(*                                                                         *)
(* Left out: the events' payloads (an event is its sequence number), the   *)
(* move operations of the stream, and what the runner does between events. *)
(***************************************************************************)
EXTENDS Integers, Sequences, FiniteSets

CONSTANTS
  Readers,     \* host threads that call next()
  Cancellers,  \* host threads that call cancel() or close(), once each
  Owner,       \* the host thread that destroys the stream
  Capacity,    \* capacity of the queue
  MaxEvents    \* bound: events before the runner's last one

ASSUME ThreadsAssumption == Owner \notin Cancellers /\ IsFiniteSet(Readers)

ASSUME CapacityAssumption == Capacity \in Nat \ {0} /\ MaxEvents \in Nat

Closers == Cancellers \cup {Owner}

VARIABLES
  \* The state the queue's two handles share.
  events,   \* events
  closed,   \* closed
  failed,   \* failed: "none", or what the runner threw
  \* The token, and whether the stream owns it or the caller passed it.
  token,
  owned,
  \* Threads.
  producer, \* where the producer thread stands
  emits,    \* what it is pushing, or what followed its last event
  reader,   \* reader[r]: where r stands in next()
  got,      \* got[r]: how r's last next() ended
  closer,   \* closer[c]: where c stands in cancel() or in the destructor
  \* History.
  pushed,   \* events pushed so far, the sequence number of the last one
  taken     \* events popped so far

queueVars == <<events, closed, failed>>
tokenVars == <<token, owned>>
history   == <<pushed, taken>>
vars == <<events, closed, failed, token, owned, producer, emits,
          reader, got, closer, pushed, taken>>

Throws == {"error", "cancelled"}
Emits  == {"event", "done"} \cup Throws

TypeOK ==
  /\ events \in Seq(Nat)
  /\ closed \in BOOLEAN
  /\ failed \in Throws \cup {"none"}
  /\ token \in BOOLEAN
  /\ owned \in BOOLEAN
  /\ producer \in {"running", "pushing", "asleep", "signal", "throwing",
                   "failing", "closing", "notify", "done"}
  /\ emits \in Emits
  /\ reader \in [Readers -> {"idle", "entering", "asleep", "popped"}]
  /\ got \in [Readers -> {"none", "event", "end", "error"}]
  /\ closer \in [Closers -> {"idle", "closing", "notify", "token", "joining", "done"}]
  /\ pushed \in Nat
  /\ taken \in Nat

Init ==
  /\ events = <<>>
  /\ closed = FALSE
  /\ failed = "none"
  /\ token = FALSE
  /\ owned \in BOOLEAN
  /\ producer = "running"
  /\ emits = "event"
  /\ reader = [r \in Readers |-> "idle"]
  /\ got = [r \in Readers |-> "none"]
  /\ closer = [c \in Closers |-> "idle"]
  /\ pushed = 0
  /\ taken = 0
-----------------------------------------------------------------------------
(* Condition variables: not_full, on which only the producer waits, and    *)
(* not_empty, on which the readers do.                                     *)

Sleepers == {r \in Readers : reader[r] = "asleep"}

WakeReader ==
  IF Sleepers = {} THEN UNCHANGED reader
  ELSE \E r \in Sleepers : reader' = [reader EXCEPT ![r] = "entering"]

WakeReaders ==
  reader' = [r \in Readers |-> IF r \in Sleepers THEN "entering" ELSE reader[r]]

\* Where the producer stands once not_full has been notified.
WokenProducer == IF producer = "asleep" THEN "pushing" ELSE producer
-----------------------------------------------------------------------------
(* The producer thread of RunnerStreaming::events().                       *)

\* stream_input hands an event to the callback: one of the run, or its last,
\* which is Done, or Error or Cancelled before the exception goes on.
Emit(what) ==
  /\ producer = "running"
  /\ what = "event" => pushed < MaxEvents
  /\ what = "cancelled" => token
  /\ producer' = "pushing"
  /\ emits' = what
  /\ UNCHANGED <<queueVars, tokenVars, reader, got, closer, history>>

\* An exception before stream_input's try block: no event tells of it.
StartThrows ==
  /\ producer = "running"
  /\ pushed = 0
  /\ producer' = "throwing"
  /\ emits' = "error"
  /\ UNCHANGED <<queueVars, tokenVars, reader, got, closer, history>>

\* Mutant: the bound is one too high.
FullOffByOne == Len(events) > Capacity

Full == Len(events) >= Capacity

PushWaits ==
  /\ producer = "pushing"
  /\ Full /\ ~closed /\ failed = "none"
  /\ producer' = "asleep"
  /\ UNCHANGED <<queueVars, tokenVars, emits, reader, got, closer, history>>

\* Mutant: a producer that was woken does not look at closed again.
PushAppendsClosed ==
  /\ producer = "pushing"
  /\ ~Full
  /\ events' = Append(events, pushed + 1)
  /\ pushed' = pushed + 1
  /\ producer' = "signal"
  /\ UNCHANGED <<closed, failed, tokenVars, emits, reader, got, closer, taken>>

PushAppends ==
  /\ producer = "pushing"
  /\ ~Full /\ ~closed /\ failed = "none"
  /\ events' = Append(events, pushed + 1)
  /\ pushed' = pushed + 1
  /\ producer' = "signal"
  /\ UNCHANGED <<closed, failed, tokenVars, emits, reader, got, closer, taken>>

\* StreamQueueClosed.  stream_input meets it as an error of the run, pushes an
\* Error event, which throws the same, and the producer's catch clause closes.
PushThrows ==
  /\ producer = "pushing"
  /\ closed
  /\ producer' = "closing"
  /\ UNCHANGED <<queueVars, tokenVars, emits, reader, got, closer, history>>

\* Mutant: a run that returned takes the way of one that threw.
PushSignalsThrows ==
  /\ producer = "signal"
  /\ WakeReader
  /\ producer' = IF emits = "event" THEN "running" ELSE "throwing"
  /\ UNCHANGED <<queueVars, tokenVars, emits, got, closer, history>>

\* not_empty.notify_one(), then the run goes on, returns or throws.
PushSignals ==
  /\ producer = "signal"
  /\ WakeReader
  /\ producer' = CASE emits = "event" -> "running"
                   [] emits = "done"  -> "closing"
                   [] OTHER           -> "throwing"
  /\ UNCHANGED <<queueVars, tokenVars, emits, got, closer, history>>

\* catch (...): an exception that reaches a closed queue is dropped.
CheckClosed ==
  /\ producer = "throwing"
  /\ producer' = IF closed THEN "closing" ELSE "failing"
  /\ UNCHANGED <<queueVars, tokenVars, emits, reader, got, closer, history>>

ProducerFails ==
  /\ producer = "failing"
  /\ failed' = emits
  /\ producer' = "notify"
  /\ UNCHANGED <<events, closed, tokenVars, emits, reader, got, closer, history>>

ProducerCloses ==
  /\ producer = "closing"
  /\ closed' = TRUE
  /\ producer' = "notify"
  /\ UNCHANGED <<events, failed, tokenVars, emits, reader, got, closer, history>>

\* Mutant: close() and fail() notify one reader.
ProducerNotifiesOne ==
  /\ producer = "notify"
  /\ WakeReader
  /\ producer' = "done"
  /\ UNCHANGED <<queueVars, tokenVars, emits, got, closer, history>>

\* The notify_all() calls of fail() and close(); the thread ends.
ProducerNotifies ==
  /\ producer = "notify"
  /\ WakeReaders
  /\ producer' = "done"
  /\ UNCHANGED <<queueVars, tokenVars, emits, got, closer, history>>
-----------------------------------------------------------------------------
(* next(), by a reader.                                                    *)

Pull(r) ==
  /\ reader[r] = "idle"
  /\ closer[Owner] = "idle"
  /\ reader' = [reader EXCEPT ![r] = "entering"]
  /\ UNCHANGED <<queueVars, tokenVars, producer, emits, got, closer, history>>

NextWaits(r) ==
  /\ reader[r] = "entering"
  /\ events = <<>> /\ ~closed /\ failed = "none"
  /\ reader' = [reader EXCEPT ![r] = "asleep"]
  /\ UNCHANGED <<queueVars, tokenVars, producer, emits, got, closer, history>>

NextTakes(r) ==
  /\ reader[r] = "entering"
  /\ events # <<>>
  /\ events' = Tail(events)
  /\ taken' = taken + 1
  /\ reader' = [reader EXCEPT ![r] = "popped"]
  /\ UNCHANGED <<closed, failed, tokenVars, producer, emits, got, closer, pushed>>

\* Mutant: the producer is not told of the room.
NextSignalsNobody(r) ==
  /\ reader[r] = "popped"
  /\ reader' = [reader EXCEPT ![r] = "idle"]
  /\ got' = [got EXCEPT ![r] = "event"]
  /\ UNCHANGED <<queueVars, tokenVars, producer, emits, closer, history>>

\* not_full.notify_one(), and next() returns true.
NextSignals(r) ==
  /\ reader[r] = "popped"
  /\ producer' = WokenProducer
  /\ reader' = [reader EXCEPT ![r] = "idle"]
  /\ got' = [got EXCEPT ![r] = "event"]
  /\ UNCHANGED <<queueVars, tokenVars, emits, closer, history>>

\* An empty queue that failed rethrows, one that is only closed returns false.
NextEnds(r) ==
  /\ reader[r] = "entering"
  /\ events = <<>>
  /\ \/ failed # "none" /\ got' = [got EXCEPT ![r] = "error"]
     \/ failed = "none" /\ closed /\ got' = [got EXCEPT ![r] = "end"]
  /\ reader' = [reader EXCEPT ![r] = "idle"]
  /\ UNCHANGED <<queueVars, tokenVars, producer, emits, closer, history>>
-----------------------------------------------------------------------------
(* cancel(), which close() calls, and the destructor.                      *)

\* The destructor runs when no other thread is inside the stream.
Cancel(c) ==
  /\ closer[c] = "idle"
  /\ c = Owner =>
       /\ \A r \in Readers : reader[r] = "idle"
       /\ \A d \in Cancellers : closer[d] \in {"idle", "done"}
  /\ c # Owner => closer[Owner] = "idle"
  /\ closer' = [closer EXCEPT ![c] = "closing"]
  /\ UNCHANGED <<queueVars, tokenVars, producer, emits, reader, got, history>>

\* Mutant: the token is fired first.
CancelTokenFirst(c) ==
  /\ closer[c] = "closing"
  /\ \/ /\ owned /\ ~token
        /\ token' = TRUE
        /\ UNCHANGED <<closed, closer>>
     \/ /\ owned => token
        /\ closed' = TRUE
        /\ closer' = [closer EXCEPT ![c] = "notify"]
        /\ UNCHANGED token
  /\ UNCHANGED <<events, failed, owned, producer, emits, reader, got, history>>

\* queue_.close() ...
CancelCloses(c) ==
  /\ closer[c] = "closing"
  /\ closed' = TRUE
  /\ closer' = [closer EXCEPT ![c] = "notify"]
  /\ UNCHANGED <<events, failed, tokenVars, producer, emits, reader, got, history>>

\* ... notifies all who wait ...
CancelNotifies(c) ==
  /\ closer[c] = "notify"
  /\ WakeReaders
  /\ producer' = WokenProducer
  /\ closer' = [closer EXCEPT ![c] = "token"]
  /\ UNCHANGED <<queueVars, tokenVars, emits, got, history>>

\* ... and then the token, if it is the stream's own, is cancelled.
CancelFires(c) ==
  /\ closer[c] = "token"
  /\ token' = (token \/ owned)
  /\ closer' = [closer EXCEPT ![c] = IF c = Owner THEN "joining" ELSE "done"]
  /\ UNCHANGED <<queueVars, owned, producer, emits, reader, got, history>>

\* join() in the destructor.
Join ==
  /\ closer[Owner] = "joining"
  /\ producer = "done"
  /\ closer' = [closer EXCEPT ![Owner] = "done"]
  /\ UNCHANGED <<queueVars, tokenVars, producer, emits, reader, got, history>>

\* The caller cancels the token it passed in.
CallerCancels ==
  /\ ~owned /\ ~token
  /\ token' = TRUE
  /\ UNCHANGED <<queueVars, owned, producer, emits, reader, got, closer, history>>
-----------------------------------------------------------------------------
ProducerStep ==
  \/ \E what \in Emits : Emit(what)
  \/ StartThrows
  \/ PushWaits \/ PushAppends \/ PushThrows \/ PushSignals
  \/ CheckClosed \/ ProducerFails \/ ProducerCloses \/ ProducerNotifies

\* What a call of next() goes on to do.
ReaderStep(r) == NextWaits(r) \/ NextTakes(r) \/ NextSignals(r) \/ NextEnds(r)

\* What cancel() and the destructor go on to do.
CloserStep(c) ==
  \/ CancelCloses(c) \/ CancelNotifies(c) \/ CancelFires(c)
  \/ c = Owner /\ Join

Next ==
  \/ ProducerStep
  \/ \E r \in Readers : Pull(r) \/ ReaderStep(r)
  \/ \E c \in Closers : Cancel(c) \/ CloserStep(c)
  \/ CallerCancels

Spec == Init /\ [][Next]_vars

\* A thread that is inside a call takes its next step: the operating system
\* schedules it, and the runner's own calls (the model, the tools) return.
\* No host is bound to call anything.
Fairness ==
  /\ WF_vars(ProducerStep)
  /\ \A r \in Readers : WF_vars(ReaderStep(r))
  /\ \A c \in Closers : WF_vars(CloserStep(c))

FairSpec == Spec /\ Fairness
-----------------------------------------------------------------------------
(* Properties.                                                             *)

Gap(t, p) == [i \in 1..(p - t) |-> t + i]

\* The buffer holds, in order, exactly the events pushed and not yet popped,
\* and never more than the queue's capacity: push() waits, next() pops from
\* the front, and a close or a failure drops nothing that was pushed.
BufferIsGap ==
  /\ Len(events) <= Capacity
  /\ events = Gap(taken, pushed)

\* Nobody sleeps through what it waits for.  If the producer sleeps although
\* push() could go on, or a reader although next() could, then a thread that
\* will notify it is on its way, or an awake reader is, which notifies in turn.
NoLostWakeup ==
  /\ (producer = "asleep" /\ (~Full \/ closed \/ failed # "none")) =>
       \/ \E r \in Readers : reader[r] = "popped"
       \/ \E c \in Closers : closer[c] = "notify"
  /\ (Sleepers # {} /\ (events # <<>> \/ closed \/ failed # "none")) =>
       \/ producer \in {"signal", "notify"}
       \/ \E r \in Readers : reader[r] = "entering"
       \/ \E c \in Closers : closer[c] = "notify"

\* cancel() closes the queue before it fires the stream's own token, so the
\* CancellationError that follows finds a closed queue and no later next()
\* rethrows it: closing a stream looks like its end, not like a failure.
CloseIsQuiet == owned => failed # "cancelled"

\* Once any next() has reported the end of the stream, or what ended it, no
\* next() returns an event any more, whoever calls it.
EndIsFinal ==
  [][(\E r \in Readers : got[r] \in {"end", "error"}) => taken' = taken]_vars

\* Every call returns.  next(): an event, the end or the failure reaches each
\* reader, even one that others keep outrunning.  The destructor, which closes,
\* cancels and joins: a producer asleep in push() on a full queue is woken and
\* its thread ends.
CallsReturn ==
  /\ \A r \in Readers : reader[r] # "idle" ~> reader[r] = "idle"
  /\ closer[Owner] = "closing" ~> closer[Owner] = "done"
=============================================================================
