---------------------------- MODULE SessionMemory ----------------------------
(***************************************************************************)
(* One SessionMemory (src/agent/memory/session_memory.inc): messages are   *)
(* added, compact() moves the oldest of them out of the live window (phase *)
(* 1) and a summarizer merges those into the polished baseline (phase 2),  *)
(* on the thread of the caller or in the background.  A step is one        *)
(* critical section of mutex_, refinement_mutex_ or the pipeline mutex, or *)
(* the call of the summarizer or of the executor.                          *)
(*                                                                         *)
(* Left out: restore(), token budgets, the cap on the length of the        *)
(* summary, stores, and the listeners of changes and of compactions.  One  *)
(* that throws inside run_refinement_body() leaves refinement_in_flight_   *)
(* set: nothing that is said here of a session covers that.                *)
(***************************************************************************)
EXTENDS Naturals, Sequences, FiniteSets

CONSTANTS
  Hosts,        \* the threads that call the session
  Refiners,     \* the threads of the background executor
  Options,      \* the settings to choose from, see OptionsAssumption
  Window,       \* compaction_budget.max_messages
  MaxAdds,      \* bound on the messages added
  MaxCalls,     \* bound on calls of compact(), await_refinements(), clear()
  MayFail,      \* summarizers may throw and executors refuse
  None

\* SummarizerMode::Background, and compact_on_append.
OptionRecords == [background : BOOLEAN, compact_on_append : BOOLEAN]

ASSUME OptionsAssumption == Options \subseteq OptionRecords

ASSUME BoundsAssumption ==
  Window \in Nat /\ MaxAdds \in Nat /\ MaxCalls \in Nat /\ MayFail \in BOOLEAN

ASSUME ThreadsAssumption == Hosts \cap Refiners = {} /\ None \notin Hosts

Threads == Hosts \cup Refiners

VARIABLES
  options,      \* what the session was constructed with
  messages,     \* messages_, numbered as they were added
  overflow,     \* pending_refinement_overflow_
  tail,         \* pending_concat_tail_: the messages it has a line of
  baseline,     \* polished_baseline_: the messages it was made of
  inFlight, pending,   \* refinement_in_flight_, refinement_pending_
  pipeline,     \* the holder of compaction_pipeline_mutex_
  submitted,    \* refinements the executor has not started yet
  pc,           \* pc[t]: what thread t does next
  plan,         \* plan[t]: the messages its compaction drops
  input,        \* input[t]: what its refinement has read of the session
  added, calls, \* counters
  since,        \* how many messages had been added at the last clear()
  torn          \* a clear() has come between two halves of a compaction

session == <<messages, overflow, tail, baseline>>
flags == <<inFlight, pending>>
counters == <<added, calls, since, torn>>
vars == <<options, session, flags, pipeline, submitted, pc, plan, input,
          counters>>

Numbers == Seq(Nat)

Refining == {"snapshot", "summarize", "commit", "look", "more", "drained", "leave"}

Labels == Refining \cup
  {"idle", "lock", "plan", "apply", "check", "begin", "dispatch", "submit", "await"}

NoInput == [baseline |-> <<>>, overflow |-> <<>>, tail |-> <<>>]

TypeOK ==
  /\ options \in Options
  /\ messages \in Numbers /\ overflow \in Numbers
  /\ tail \in Numbers /\ baseline \in Numbers
  /\ inFlight \in BOOLEAN /\ pending \in BOOLEAN
  /\ pipeline \in Hosts \cup {None}
  /\ submitted \in Nat
  /\ pc \in [Threads -> Labels]
  /\ plan \in [Hosts -> Numbers]
  /\ input \in [Threads ->
                 [baseline : Numbers, overflow : Numbers, tail : Numbers]]
  /\ added \in 0..MaxAdds /\ calls \in 0..MaxCalls
  /\ since \in 0..added /\ torn \in BOOLEAN

Init ==
  /\ options \in Options
  /\ messages = <<>> /\ overflow = <<>> /\ tail = <<>> /\ baseline = <<>>
  /\ inFlight = FALSE /\ pending = FALSE
  /\ pipeline = None
  /\ submitted = 0
  /\ pc = [t \in Threads |-> "idle"]
  /\ plan = [h \in Hosts |-> <<>>]
  /\ input = [t \in Threads |-> NoInput]
  /\ added = 0 /\ calls = 0 /\ since = 0 /\ torn = FALSE

Goto(t, label) == pc' = [pc EXCEPT ![t] = label]

\* erase() of the first n elements.
Drop(s, n) == SubSeq(s, n + 1, Len(s))

(***************************************************************************)
(* add() and compact(), phase 1.                                           *)
(***************************************************************************)
Add(h) ==
  /\ pc[h] = "idle"
  /\ added < MaxAdds
  /\ added' = added + 1
  /\ messages' = Append(messages, added + 1)
  /\ Goto(h, IF options.compact_on_append THEN "lock" ELSE "idle")
  /\ UNCHANGED <<options, overflow, tail, baseline, flags, pipeline, submitted,
                 plan, input, calls, since, torn>>

Call(h, label) ==
  /\ pc[h] = "idle"
  /\ calls < MaxCalls
  /\ calls' = calls + 1
  /\ Goto(h, label)
  /\ UNCHANGED <<options, session, flags, pipeline, submitted, plan, input,
                 added, since, torn>>

\* It may come while a compaction has planned and not applied, or a refinement
\* has read and not committed.
Clear(h) ==
  /\ pc[h] = "idle"
  /\ calls < MaxCalls
  /\ calls' = calls + 1
  /\ messages' = <<>> /\ overflow' = <<>> /\ tail' = <<>> /\ baseline' = <<>>
  /\ since' = added
  /\ torn' = (torn \/ \E t \in Threads : pc[t] \in {"apply", "summarize", "commit"})
  /\ UNCHANGED <<options, flags, pipeline, submitted, pc, plan, input, added>>

Lock(h) ==
  /\ pc[h] = "lock"
  /\ pipeline = None
  /\ pipeline' = h
  /\ Goto(h, "plan")
  /\ UNCHANGED <<options, session, flags, submitted, plan, input, counters>>

\* plan_compaction(): the oldest messages, as many as exceed the budget.
Excess == IF Len(messages) > Window THEN Len(messages) - Window ELSE 0

Plan(h) ==
  /\ pc[h] = "plan"
  /\ plan' = [plan EXCEPT ![h] = SubSeq(messages, 1, Excess)]
  /\ Goto(h, IF Excess = 0 THEN "check" ELSE "apply")
  /\ UNCHANGED <<options, session, flags, pipeline, submitted, input, counters>>

\* mutex_ was released in between: messages may have been added, or cleared.
Apply(h) ==
  /\ pc[h] = "apply"
  /\ \/ /\ Len(plan[h]) <= Len(messages)
        /\ messages' = Drop(messages, Len(plan[h]))
        /\ overflow' = overflow \o plan[h]
        /\ tail' = tail \o plan[h]
        /\ UNCHANGED <<baseline, plan>>
     \/ /\ Len(plan[h]) > Len(messages)
        /\ plan' = [plan EXCEPT ![h] = <<>>]
        /\ UNCHANGED session
  /\ Goto(h, "check")
  /\ UNCHANGED <<options, flags, pipeline, submitted, input, counters>>

\* There may be overflow of an earlier refinement that failed.
Check(h) ==
  /\ pc[h] = "check"
  /\ LET work == plan[h] # <<>> \/ overflow # <<>>
     IN  /\ Goto(h, IF ~work THEN "idle"
                    ELSE IF options.background THEN "dispatch" ELSE "begin")
         /\ pipeline' = IF work /\ ~options.background THEN pipeline ELSE None
  /\ plan' = [plan EXCEPT ![h] = <<>>]
  /\ UNCHANGED <<options, session, flags, submitted, input, counters>>

\* Synchronous: phase 2 runs here, with the pipeline mutex held.
Begin(h) ==
  /\ pc[h] = "begin"
  /\ inFlight' = TRUE
  /\ Goto(h, "snapshot")
  /\ UNCHANGED <<options, session, pending, pipeline, submitted, plan, input, counters>>

(***************************************************************************)
(* dispatch_refinement()                                                   *)
(***************************************************************************)
\* Mutant: a refinement in flight is not noticed.
DispatchUnchecked(h) ==
  /\ pc[h] = "dispatch"
  /\ inFlight' = TRUE
  /\ Goto(h, "submit")
  /\ UNCHANGED <<options, session, pending, pipeline, submitted, plan, input, counters>>

Dispatch(h) ==
  /\ pc[h] = "dispatch"
  /\ \/ inFlight /\ pending' = TRUE /\ Goto(h, "idle") /\ UNCHANGED inFlight
     \/ ~inFlight /\ inFlight' = TRUE /\ Goto(h, "submit") /\ UNCHANGED pending
  /\ UNCHANGED <<options, session, pipeline, submitted, plan, input, counters>>

Submit(h) ==
  /\ pc[h] = "submit"
  /\ submitted' = submitted + 1
  /\ Goto(h, "idle")
  /\ UNCHANGED <<options, session, flags, pipeline, plan, input, counters>>

\* The flags are reset and the caller gets the exception.
ExecutorRefuses(h) ==
  /\ MayFail
  /\ pc[h] = "submit"
  /\ inFlight' = FALSE /\ pending' = FALSE
  /\ Goto(h, "idle")
  /\ UNCHANGED <<options, session, pipeline, submitted, plan, input, counters>>

\* Mutant: the executor runs what it was not given.
ExecutorStartsAnyway(r) ==
  /\ pc[r] = "idle"
  /\ submitted' = submitted - 1
  /\ Goto(r, "snapshot")
  /\ UNCHANGED <<options, session, flags, pipeline, plan, input, counters>>

ExecutorStarts(r) ==
  /\ pc[r] = "idle"
  /\ submitted > 0
  /\ submitted' = submitted - 1
  /\ Goto(r, "snapshot")
  /\ UNCHANGED <<options, session, flags, pipeline, plan, input, counters>>

(***************************************************************************)
(* run_refinement_body(), phase 2, on a host or a refiner.                 *)
(***************************************************************************)
Snapshot(t) ==
  /\ pc[t] = "snapshot"
  /\ input' = [input EXCEPT ![t] =
       [baseline |-> baseline, overflow |-> overflow, tail |-> tail]]
  /\ Goto(t, IF overflow = <<>> THEN "leave" ELSE "summarize")
  /\ UNCHANGED <<options, session, flags, pipeline, submitted, plan, counters>>

\* Outside every lock.  An exception keeps what is pending for a retry.
Summarize(t) ==
  /\ pc[t] = "summarize"
  /\ Goto(t, "commit") \/ (MayFail /\ Goto(t, "leave"))
  /\ UNCHANGED <<options, session, flags, pipeline, submitted, plan, input, counters>>

\* Mutant: everything pending is cleared, not only what was read.
ConsumedAll(pendingOnes, read) == <<>>

Consumed(pendingOnes, read) ==
  IF Len(read) <= Len(pendingOnes) THEN Drop(pendingOnes, Len(read)) ELSE <<>>

Commit(t) ==
  /\ pc[t] = "commit"
  /\ baseline' = input[t].baseline \o input[t].overflow
  /\ overflow' = Consumed(overflow, input[t].overflow)
  /\ tail' = Consumed(tail, input[t].tail)
  /\ Goto(t, "look")
  /\ UNCHANGED <<options, messages, flags, pipeline, submitted, plan, input, counters>>

Look(t) ==
  /\ pc[t] = "look"
  /\ Goto(t, IF overflow = <<>> THEN "drained" ELSE "more")
  /\ UNCHANGED <<options, session, flags, pipeline, submitted, plan, input, counters>>

\* Mutant: refinement_pending_ is kept for somebody else.
LeaveKeepsPending(t) ==
  /\ inFlight' = FALSE
  /\ pipeline' = IF pipeline = t THEN None ELSE pipeline
  /\ input' = [input EXCEPT ![t] = NoInput]
  /\ Goto(t, "idle")
  /\ UNCHANGED <<options, session, pending, submitted, plan, counters>>

\* The refinement ends; a host lets go of the pipeline mutex.
Leave(t) ==
  /\ inFlight' = FALSE /\ pending' = FALSE
  /\ pipeline' = IF pipeline = t THEN None ELSE pipeline
  /\ input' = [input EXCEPT ![t] = NoInput]
  /\ Goto(t, "idle")
  /\ UNCHANGED <<options, session, submitted, plan, counters>>

\* There is nothing to refine, or the summarizer has thrown.
LeaveEarly(t) == pc[t] = "leave" /\ Leave(t)

\* A trailing refinement follows if one was asked for and Look saw overflow.
Decide(t) ==
  \/ /\ pc[t] = "more" /\ pending
     /\ pending' = FALSE
     /\ Goto(t, "snapshot")
     /\ UNCHANGED <<options, session, inFlight, pipeline, submitted, plan, input, counters>>
  \/ /\ pc[t] = "drained" \/ (pc[t] = "more" /\ ~pending)
     /\ Leave(t)

\* await_refinements(), and the destructor; every change of the flags that can
\* end the wait is followed by a notify_all().
AwaitReturns(h) ==
  /\ pc[h] = "await"
  /\ ~inFlight /\ ~pending
  /\ Goto(h, "idle")
  /\ UNCHANGED <<options, session, flags, pipeline, submitted, plan, input, counters>>

Refine(t) ==
  \/ Snapshot(t) \/ Summarize(t) \/ Commit(t) \/ Look(t)
  \/ Decide(t) \/ LeaveEarly(t)

Proceed(h) ==
  \/ Lock(h) \/ Plan(h) \/ Apply(h) \/ Check(h) \/ Begin(h)
  \/ Dispatch(h) \/ Submit(h) \/ ExecutorRefuses(h)
  \/ AwaitReturns(h) \/ Refine(h)

Next ==
  \/ \E h \in Hosts :
       Add(h) \/ Clear(h) \/ Call(h, "lock") \/ Call(h, "await") \/ Proceed(h)
  \/ \E r \in Refiners : ExecutorStarts(r) \/ Refine(r)

Spec == Init /\ [][Next]_vars

\* Threads run on, and the executor runs what it has accepted.
FairSpec ==
  /\ Spec
  /\ \A h \in Hosts : WF_vars(Proceed(h))
  /\ \A r \in Refiners : WF_vars(Refine(r))
  /\ WF_vars(\E r \in Refiners : ExecutorStarts(r))

(***************************************************************************)
(* Properties.                                                             *)
(***************************************************************************)
\* The threads that have set refinement_in_flight_ and not cleared it.
InBody == {t \in Threads : pc[t] \in Refining \cup {"submit"}}

\* One refinement at a time, however compactions, refusals and failures fall
\* together: the flag stands for exactly one, running, submitted or about to be.
OneRefinement ==
  Cardinality(InBody) + submitted = IF inFlight THEN 1 ELSE 0

\* No message is lost, repeated or reordered between the window, the overflow
\* and the baseline, whatever is added, dropped and refined at the same time;
\* and the summary a reader sees meanwhile has a line of every one pending.
\* (Nothing is said after a clear() in the middle of a compaction: the rest of
\* the compaction then drops new messages and brings cleared ones back.)
NothingLost ==
  ~torn =>
    /\ baseline \o overflow \o messages = [i \in 1..(added - since) |-> since + i]
    /\ tail = overflow

\* compact(), await_refinements() and the destructor return: no caller is left
\* with a mutex that nobody releases or a flag that nobody clears, whatever the
\* summarizer and the executor do.  (Listeners are those that return.)
EveryCallReturns == \A h \in Hosts : pc[h] # "idle" ~> pc[h] = "idle"

\* What the comment above run_phase1_locked() promises (dispatch_refinement:
\* "the in-flight body will pick up the accumulated tail/overflow"): when
\* nothing is under way and nothing has failed, no overflow is left behind.
NothingLeftBehind ==
  (\A t \in Threads : pc[t] = "idle") /\ submitted = 0 => overflow = <<>>
=============================================================================
