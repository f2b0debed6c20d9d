------------------------- MODULE SessionMemoryProofs -------------------------
(***************************************************************************)
(* Theorems about SessionMemory, for every set of threads, every set of    *)
(* options and every bound.                                                *)
(***************************************************************************)
EXTENDS SessionMemory, SequenceTheorems, FiniteSetTheorems, TLAPS

-----------------------------------------------------------------------------
(* Sequences of message numbers.                                           *)

LEMMA DropType ==
  ASSUME NEW s \in Numbers, NEW n \in Nat
  PROVE  Drop(s, n) \in Numbers
<1>1. \A i \in n + 1 .. Len(s) : s[i] \in Nat
  BY DEF Numbers
<1> QED  BY <1>1, SubSeqProperties, LenProperties DEF Drop, Numbers

\* Erasing what a sequence begins with leaves the rest of it.
LEMMA DropConcat ==
  ASSUME NEW p \in Numbers, NEW q \in Numbers
  PROVE  Len(p) <= Len(p \o q) /\ Drop(p \o q, Len(p)) = q
<1>1. /\ p \o q \in Numbers
      /\ Len(p) \in Nat /\ Len(q) \in Nat
      /\ Len(p \o q) = Len(p) + Len(q)
      /\ \A i \in 1 .. Len(p) + Len(q) :
           (p \o q)[i] = IF i <= Len(p) THEN p[i] ELSE q[i - Len(p)]
  BY ConcatProperties, LenProperties DEF Numbers
<1>2. Drop(p \o q, Len(p)) \in Numbers
  BY <1>1, DropType
<1>3. \A i \in Len(p) + 1 .. Len(p \o q) : (p \o q)[i] \in Nat
  BY <1>1, ElementOfSeq DEF Numbers
<1>4. /\ Len(Drop(p \o q, Len(p))) = Len(q)
      /\ \A i \in 1 .. Len(q) : Drop(p \o q, Len(p))[i] = (p \o q)[Len(p) + 1 + i - 1]
  BY <1>1, <1>3, SubSeqProperties DEF Drop
<1>5. \A i \in 1 .. Len(q) : Drop(p \o q, Len(p))[i] = q[i]
  BY <1>1, <1>4
<1>6. Drop(p \o q, Len(p)) = q
  BY <1>2, <1>4, <1>5, SeqEqual DEF Numbers
<1> QED  BY <1>1, <1>6

\* The messages a compaction drops and the messages it keeps.
LEMMA SplitAt ==
  ASSUME NEW s \in Numbers, NEW n \in 0 .. Len(s)
  PROVE  /\ SubSeq(s, 1, n) \in Numbers
         /\ s = SubSeq(s, 1, n) \o Drop(s, n)
<1>1. Len(s) \in Nat
  BY LenProperties DEF Numbers
<1>2. SubSeq(s, 1, n) \o SubSeq(s, n + 1, Len(s)) = SubSeq(s, 1, Len(s))
  <2>1. /\ s \in Seq(Nat)
        /\ 1 \in 1 .. Len(s) + 1 /\ n \in 1 - 1 .. Len(s) /\ Len(s) \in n .. Len(s)
    BY <1>1 DEF Numbers
  <2> QED  BY <2>1, ConcatAdjacentSubSeq
<1>3. SubSeq(s, 1, Len(s)) = s
  BY SubSeqFull DEF Numbers
<1>4. \A i \in 1 .. n : s[i] \in Nat
  BY <1>1, ElementOfSeq DEF Numbers
<1>5. SubSeq(s, 1, n) \in Seq(Nat)
  BY <1>1, <1>4, SubSeqProperties
<1> QED  BY <1>2, <1>3, <1>5 DEF Drop, Numbers

-----------------------------------------------------------------------------
(* Types.                                                                  *)

LEMMA TypeInit == Init => TypeOK
<1>1. <<>> \in Numbers
  BY EmptySeq DEF Numbers
<1>2. NoInput \in [baseline : Numbers, overflow : Numbers, tail : Numbers]
  BY <1>1 DEF NoInput
<1> HIDE DEF NoInput
<1>3. Init => [t \in Threads |-> "idle"] \in [Threads -> Labels]
  BY DEF Labels
<1>4. Init => /\ plan \in [Hosts -> Numbers]
              /\ input \in [Threads -> [baseline : Numbers, overflow : Numbers, tail : Numbers]]
  BY <1>1, <1>2 DEF Init
<1>5. Init => added \in 0..MaxAdds /\ calls \in 0..MaxCalls /\ since \in 0..added
  BY BoundsAssumption DEF Init
<1>6. Init => /\ messages \in Numbers /\ overflow \in Numbers
              /\ tail \in Numbers /\ baseline \in Numbers
  BY <1>1 DEF Init
<1>7. Init => options \in Options /\ pc \in [Threads -> Labels]
  BY <1>3 DEF Init
<1>8. Init => inFlight \in BOOLEAN /\ pending \in BOOLEAN /\ torn \in BOOLEAN
  BY DEF Init
<1>9. Init => pipeline \in Hosts \cup {None} /\ submitted \in Nat
  BY DEF Init
<1> QED  BY <1>8, <1>9, <1>4, <1>5, <1>6, <1>7 DEF TypeOK

USE DEF Goto

LEMMA TypeHost ==
  ASSUME TypeOK, NEW h \in Hosts,
         Add(h) \/ Clear(h) \/ Call(h, "lock") \/ Call(h, "await")
  PROVE  TypeOK'
<1> USE ThreadsAssumption, BoundsAssumption
    DEF TypeOK, Threads, Labels, Refining, session, flags, counters
<1>1. CASE Add(h)
  <2>1. Append(messages, added + 1) \in Numbers
    BY AppendProperties DEF Numbers
  <2> QED  BY <1>1, <2>1 DEF Add
<1>2. CASE Clear(h)
  <2>1. <<>> \in Numbers
    BY EmptySeq DEF Numbers
  <2> QED  BY <1>2, <2>1 DEF Clear
<1>3. CASE Call(h, "lock") \/ Call(h, "await")
  BY <1>3 DEF Call
<1> QED  BY <1>1, <1>2, <1>3

LEMMA TypeCompaction ==
  ASSUME TypeOK, NEW h \in Hosts,
         \/ Lock(h) \/ Plan(h) \/ Apply(h) \/ Check(h) \/ Begin(h)
         \/ Dispatch(h) \/ Submit(h) \/ ExecutorRefuses(h) \/ AwaitReturns(h)
  PROVE  TypeOK'
<1> USE ThreadsAssumption
    DEF TypeOK, Threads, Labels, Refining, session, flags, counters
<1>1. CASE Plan(h)
  <2>1. Excess \in 0 .. Len(messages)
    BY BoundsAssumption, LenProperties DEF Excess, Numbers
  <2>2. SubSeq(messages, 1, Excess) \in Numbers
    BY <2>1, SplitAt
  <2> QED  BY <1>1, <2>2 DEF Plan
<1>2. CASE Apply(h)
  <2>1. plan[h] \in Numbers /\ Len(plan[h]) \in Nat
    BY LenProperties DEF Numbers
  <2>2. /\ Drop(messages, Len(plan[h])) \in Numbers
        /\ overflow \o plan[h] \in Numbers
        /\ tail \o plan[h] \in Numbers
        /\ <<>> \in Numbers
    BY <2>1, DropType, ConcatProperties, EmptySeq DEF Numbers
  <2> QED  BY <1>2, <2>2 DEF Apply
<1>3. CASE Check(h)
  <2>1. <<>> \in Numbers
    BY EmptySeq DEF Numbers
  <2> QED  BY <1>3, <2>1 DEF Check
<1>4. CASE Lock(h) \/ Begin(h) \/ Dispatch(h) \/ Submit(h)
             \/ ExecutorRefuses(h) \/ AwaitReturns(h)
  <2>1. CASE Lock(h) \/ Begin(h) \/ Dispatch(h)
    BY <2>1 DEF Lock, Begin, Dispatch
  <2>2. CASE Submit(h) \/ AwaitReturns(h)
    BY <2>2 DEF Submit, AwaitReturns
  <2>3. CASE ExecutorRefuses(h)
    BY <2>3 DEF ExecutorRefuses
  <2> QED  BY <1>4, <2>1, <2>2, <2>3
<1> QED  BY <1>1, <1>2, <1>3, <1>4

LEMMA TypeRefine ==
  ASSUME TypeOK, NEW t \in Threads, Refine(t)
  PROVE  TypeOK'
<1> USE ThreadsAssumption
    DEF TypeOK, Labels, Refining, session, flags, counters
<1>0. NoInput \in [baseline : Numbers, overflow : Numbers, tail : Numbers]
  BY EmptySeq DEF NoInput, Numbers
<1>1. CASE Snapshot(t)
  BY <1>1 DEF Snapshot
<1>2. CASE Summarize(t) \/ Look(t)
  BY <1>2 DEF Summarize, Look
<1>3. CASE Commit(t)
  <2>1. /\ input[t].baseline \in Numbers
        /\ input[t].overflow \in Numbers /\ Len(input[t].overflow) \in Nat
        /\ input[t].tail \in Numbers /\ Len(input[t].tail) \in Nat
    BY LenProperties DEF Numbers
  <2>2. /\ input[t].baseline \o input[t].overflow \in Numbers
        /\ Consumed(overflow, input[t].overflow) \in Numbers
        /\ Consumed(tail, input[t].tail) \in Numbers
    BY <2>1, DropType, ConcatProperties, EmptySeq DEF Numbers, Consumed
  <2> QED  BY <1>3, <2>2 DEF Commit
<1>4. CASE Decide(t) \/ LeaveEarly(t)
  <2>1. CASE Leave(t)
    BY <1>0, <2>1 DEF Leave
  <2>2. CASE pending /\ pc' = [pc EXCEPT ![t] = "snapshot"] /\ Decide(t)
    BY <2>2 DEF Decide, Leave
  <2> QED  BY <1>4, <2>1, <2>2 DEF Decide, LeaveEarly
<1> QED  BY <1>1, <1>2, <1>3, <1>4 DEF Refine

LEMMA TypeExecutor ==
  ASSUME TypeOK, NEW r \in Refiners, ExecutorStarts(r)
  PROVE  TypeOK'
BY DEF ExecutorStarts, TypeOK, Threads, Labels, Refining, session, flags, counters

LEMMA TypeStep == TypeOK /\ [Next]_vars => TypeOK'
<1> SUFFICES ASSUME TypeOK, [Next]_vars PROVE TypeOK'
  OBVIOUS
<1>1. CASE UNCHANGED vars
  BY <1>1 DEF TypeOK, vars, session, flags, counters
<1>2. ASSUME NEW h \in Hosts,
             Add(h) \/ Clear(h) \/ Call(h, "lock") \/ Call(h, "await")
      PROVE  TypeOK'
  BY <1>2, TypeHost
<1>3. ASSUME NEW h \in Hosts, Proceed(h) PROVE TypeOK'
  BY <1>3, TypeCompaction, TypeRefine DEF Proceed, Threads
<1>4. ASSUME NEW r \in Refiners, ExecutorStarts(r) \/ Refine(r) PROVE TypeOK'
  BY <1>4, TypeExecutor, TypeRefine DEF Threads
<1> QED  BY <1>1, <1>2, <1>3, <1>4 DEF Next

\* Every variable keeps its type, for any threads, options and bounds.
THEOREM TypeCorrect == Spec => []TypeOK
BY TypeInit, TypeStep, PTL DEF Spec
-----------------------------------------------------------------------------
(* Exclusion.  What keeps two refinements apart is refinement_in_flight_   *)
(* in the background and the pipeline mutex otherwise: Begin sets the flag *)
(* without a look at it.                                                   *)

Body == Refining \cup {"submit"}

\* A host that compacts, or refines by itself, holds the pipeline mutex.
PipelineInv ==
  \A h \in Hosts :
    pc[h] \in Refining \cup {"plan", "apply", "check", "begin"} => pipeline = h

\* Where threads can be in either mode.
ModeInv ==
  /\ options.background =>
       \A h \in Hosts : pc[h] \notin Refining \cup {"begin"}
  /\ ~options.background =>
       /\ submitted = 0
       /\ \A r \in Refiners : pc[r] = "idle"
       /\ \A h \in Hosts : pc[h] \notin {"dispatch", "submit"}

\* The flag stands for one refinement.
FlagInv ==
  /\ submitted \in {0, 1}
  /\ submitted = 1 => \A t \in Threads : pc[t] \notin Body
  /\ \A t, u \in Threads : pc[t] \in Body /\ pc[u] \in Body => t = u
  /\ inFlight <=> submitted = 1 \/ \E t \in Threads : pc[t] \in Body

ExclusionInv == PipelineInv /\ ModeInv /\ FlagInv

LEMMA ExclusionInit == Init => ExclusionInv
<1> USE ThreadsAssumption DEF Threads, Refining
<1>1. Init => PipelineInv
  BY DEF Init, PipelineInv
<1>2. Init => ModeInv
  BY DEF Init, ModeInv
<1>3. Init => FlagInv
  BY DEF Init, FlagInv, Body
<1> QED  BY <1>1, <1>2, <1>3 DEF ExclusionInv

LEMMA ExclusionHost ==
  ASSUME TypeOK, ExclusionInv, NEW h \in Hosts,
         Add(h) \/ Clear(h) \/ Call(h, "lock") \/ Call(h, "await")
  PROVE  ExclusionInv'
<1> USE ThreadsAssumption DEF TypeOK, Threads, Refining, session, flags
<1>1. /\ UNCHANGED <<options, inFlight, submitted, pipeline>>
      /\ \A t \in Threads : t # h => pc'[t] = pc[t]
      /\ pc[h] = "idle" /\ pc'[h] \in {"idle", "lock", "await"}
  BY DEF Add, Clear, Call
<1>2. PipelineInv'
  BY <1>1 DEF ExclusionInv, PipelineInv
<1>3. ModeInv'
  BY <1>1 DEF ExclusionInv, ModeInv
<1>4. FlagInv'
  BY <1>1 DEF ExclusionInv, FlagInv, Body
<1> QED  BY <1>2, <1>3, <1>4 DEF ExclusionInv

\* Steps of a compaction that leave the flag and the executor alone.
LEMMA ExclusionCompaction ==
  ASSUME TypeOK, ExclusionInv, NEW h \in Hosts,
         Lock(h) \/ Plan(h) \/ Apply(h) \/ Check(h) \/ AwaitReturns(h)
  PROVE  ExclusionInv'
<1> USE ThreadsAssumption DEF TypeOK, Threads, Refining, session, flags
<1>1. /\ UNCHANGED <<options, inFlight, submitted>>
      /\ \A t \in Threads : t # h => pc'[t] = pc[t]
      /\ pc[h] \notin Body /\ pc'[h] \notin Body
  BY DEF Lock, Plan, Apply, Check, AwaitReturns, Body
<1>2. PipelineInv'
  BY <1>1 DEF ExclusionInv, PipelineInv, Lock, Plan, Apply, Check, AwaitReturns
<1>3. ModeInv'
  BY <1>1 DEF ExclusionInv, ModeInv, Lock, Plan, Apply, Check, AwaitReturns
<1>4. FlagInv'
  BY <1>1 DEF ExclusionInv, FlagInv
<1> QED  BY <1>2, <1>3, <1>4 DEF ExclusionInv

\* The pipeline mutex keeps every other refinement out of a synchronous one.
LEMMA ExclusionBegin ==
  ASSUME TypeOK, ExclusionInv, NEW h \in Hosts, Begin(h)
  PROVE  ExclusionInv'
<1> USE ThreadsAssumption DEF TypeOK, Threads, Refining, session
<1>1. /\ pc[h] = "begin" /\ pc' = [pc EXCEPT ![h] = "snapshot"]
      /\ inFlight' = TRUE /\ UNCHANGED <<options, submitted, pipeline>>
  BY DEF Begin
<1>2. ~options.background /\ pipeline = h /\ submitted = 0
  BY <1>1 DEF ExclusionInv, ModeInv, PipelineInv
<1>3. \A t \in Threads : pc[t] \notin Body
  BY <1>1, <1>2 DEF ExclusionInv, ModeInv, PipelineInv, Body
<1>4. PipelineInv'
  BY <1>1, <1>2 DEF ExclusionInv, PipelineInv
<1>5. ModeInv'
  BY <1>1, <1>2 DEF ExclusionInv, ModeInv
<1>6. FlagInv'
  BY <1>1, <1>2, <1>3 DEF FlagInv, Body
<1> QED  BY <1>4, <1>5, <1>6 DEF ExclusionInv

LEMMA ExclusionDispatch ==
  ASSUME TypeOK, ExclusionInv, NEW h \in Hosts,
         Dispatch(h) \/ Submit(h) \/ ExecutorRefuses(h)
  PROVE  ExclusionInv'
<1> USE ThreadsAssumption DEF TypeOK, Threads, Refining, session, flags
<1>1. /\ UNCHANGED <<options, pipeline>>
      /\ \A t \in Threads : t # h => pc'[t] = pc[t]
      /\ pc[h] \in {"dispatch", "submit"} /\ pc'[h] \in {"idle", "submit"}
  BY DEF Dispatch, Submit, ExecutorRefuses
<1>2. PipelineInv'
  BY <1>1 DEF ExclusionInv, PipelineInv
<1>3. options.background
  BY <1>1 DEF ExclusionInv, ModeInv
<1>4. ModeInv'
  BY <1>1, <1>3 DEF ExclusionInv, ModeInv
<1>5. CASE Dispatch(h)
  <2>1. FlagInv'
    BY <1>5 DEF ExclusionInv, FlagInv, Body, Dispatch
  <2> QED  BY <1>2, <1>4, <2>1 DEF ExclusionInv
<1>6. CASE Submit(h)
  <2>1. submitted = 0 /\ inFlight
    BY <1>6 DEF Submit, ExclusionInv, FlagInv, Body
  <2>2. submitted' = 1 /\ inFlight' /\ \A t \in Threads : pc'[t] \notin Body
    BY <1>6, <2>1 DEF Submit, ExclusionInv, FlagInv, Body
  <2>3. FlagInv'
    BY <2>2 DEF FlagInv
  <2> QED  BY <1>2, <1>4, <2>3 DEF ExclusionInv
<1>7. CASE ExecutorRefuses(h)
  <2>1. submitted' = 0 /\ ~inFlight' /\ \A t \in Threads : pc'[t] \notin Body
    BY <1>7 DEF ExecutorRefuses, ExclusionInv, FlagInv, Body
  <2>2. FlagInv'
    BY <2>1 DEF FlagInv
  <2> QED  BY <1>2, <1>4, <2>2 DEF ExclusionInv
<1> QED  BY <1>5, <1>6, <1>7

LEMMA ExclusionExecutor ==
  ASSUME TypeOK, ExclusionInv, NEW r \in Refiners, ExecutorStarts(r)
  PROVE  ExclusionInv'
<1> USE ThreadsAssumption DEF TypeOK, Threads, Refining, session, flags
<1>1. /\ UNCHANGED <<options, pipeline, inFlight>>
      /\ pc' = [pc EXCEPT ![r] = "snapshot"]
      /\ submitted = 1 /\ submitted' = 0
  BY DEF ExecutorStarts, ExclusionInv, FlagInv
<1>2. PipelineInv'
  BY <1>1 DEF ExclusionInv, PipelineInv
<1>3. ModeInv'
  BY <1>1 DEF ExclusionInv, ModeInv
<1>4. \A t \in Threads : pc[t] \notin Body /\ inFlight
  BY <1>1 DEF ExclusionInv, FlagInv
<1>5. FlagInv'
  BY <1>1, <1>4 DEF FlagInv, Body
<1> QED  BY <1>2, <1>3, <1>5 DEF ExclusionInv

LEMMA ExclusionRefine ==
  ASSUME TypeOK, ExclusionInv, NEW t \in Threads, Refine(t)
  PROVE  ExclusionInv'
<1> USE ThreadsAssumption DEF TypeOK, Threads, Refining, session, flags
<1>1. /\ UNCHANGED <<options, submitted>>
      /\ \A u \in Threads : u # t => pc'[u] = pc[u]
      /\ pc[t] \in Refining
  BY DEF Refine, Snapshot, Summarize, Commit, Look, Decide, LeaveEarly, Leave
<1>2. /\ inFlight /\ submitted = 0
      /\ \A u \in Threads : u # t => pc[u] \notin Body
  BY <1>1 DEF ExclusionInv, FlagInv, Body
<1>3. \/ pc'[t] \in Refining /\ inFlight' /\ pipeline' = pipeline
      \/ /\ pc'[t] = "idle" /\ ~inFlight'
         /\ pipeline' = IF pipeline = t THEN None ELSE pipeline
  BY <1>2 DEF Refine, Snapshot, Summarize, Commit, Look, Decide, LeaveEarly, Leave
<1>4. PipelineInv'
  BY <1>1, <1>3 DEF ExclusionInv, PipelineInv
<1>5. ModeInv'
  BY <1>1, <1>3 DEF ExclusionInv, ModeInv
<1>6. FlagInv'
  BY <1>1, <1>2, <1>3 DEF FlagInv, Body
<1> QED  BY <1>4, <1>5, <1>6 DEF ExclusionInv

LEMMA ExclusionStep == TypeOK /\ ExclusionInv /\ [Next]_vars => ExclusionInv'
<1> SUFFICES ASSUME TypeOK, ExclusionInv, [Next]_vars PROVE ExclusionInv'
  OBVIOUS
<1>1. CASE UNCHANGED vars
  BY <1>1 DEF ExclusionInv, PipelineInv, ModeInv, FlagInv, vars, flags
<1>2. ASSUME NEW h \in Hosts,
             Add(h) \/ Clear(h) \/ Call(h, "lock") \/ Call(h, "await")
      PROVE  ExclusionInv'
  BY <1>2, ExclusionHost
<1>3. ASSUME NEW h \in Hosts, Proceed(h) PROVE ExclusionInv'
  BY <1>3, ExclusionCompaction, ExclusionBegin, ExclusionDispatch, ExclusionRefine
     DEF Proceed, Threads
<1>4. ASSUME NEW r \in Refiners, ExecutorStarts(r) \/ Refine(r) PROVE ExclusionInv'
  BY <1>4, ExclusionExecutor, ExclusionRefine DEF Threads
<1> QED  BY <1>1, <1>2, <1>3, <1>4 DEF Next

LEMMA FlagCounts == TypeOK /\ FlagInv => OneRefinement
<1> SUFFICES ASSUME TypeOK, FlagInv PROVE OneRefinement
  OBVIOUS
<1>1. InBody = {t \in Threads : pc[t] \in Body}
  BY DEF InBody, Body
<1>2. CASE submitted = 1
  <2>1. InBody = {} /\ inFlight
    BY <1>1, <1>2 DEF FlagInv
  <2> QED  BY <1>2, <2>1, FS_EmptySet DEF OneRefinement
<1>3. CASE submitted = 0 /\ inFlight
  <2>1. PICK t \in Threads : pc[t] \in Body
    BY <1>3 DEF FlagInv
  <2>2. InBody = {t}
    BY <1>1, <2>1 DEF FlagInv
  <2>3. Cardinality(InBody) = 1
    BY <2>2, FS_Singleton
  <2> QED  BY <1>3, <2>3 DEF OneRefinement
<1>4. CASE submitted = 0 /\ ~inFlight
  <2>1. InBody = {}
    BY <1>1, <1>4 DEF FlagInv
  <2> QED  BY <1>4, <2>1, FS_EmptySet DEF OneRefinement
<1> QED  BY <1>2, <1>3, <1>4 DEF FlagInv

\* However many threads compact and whatever fails, at most one refinement is
\* under way, and refinement_in_flight_ says whether one is.
THEOREM RefinementsExclusive == Spec => []OneRefinement
<1>1. Init => TypeOK /\ ExclusionInv
  BY TypeInit, ExclusionInit
<1>2. TypeOK /\ ExclusionInv /\ [Next]_vars => (TypeOK /\ ExclusionInv)'
  BY TypeStep, ExclusionStep
<1>3. TypeOK /\ ExclusionInv => OneRefinement
  BY FlagCounts DEF ExclusionInv
<1> QED  BY <1>1, <1>2, <1>3, PTL DEF Spec
-----------------------------------------------------------------------------
(* Flow.  A compaction works on a plan and a refinement on what it has     *)
(* read, while messages are added and other compactions are applied: both  *)
(* stay true because what they have seen is still what the session begins  *)
(* with, and only they erase it.                                           *)

Begins(p, s) == \E q \in Numbers : s = p \o q

PlanInv ==
  \A h \in Hosts : pc[h] = "apply" => Begins(plan[h], messages)

InputInv ==
  \A t \in Threads :
    pc[t] \in {"summarize", "commit"} =>
      /\ input[t].baseline = baseline
      /\ input[t].tail = input[t].overflow
      /\ Begins(input[t].overflow, overflow)

Given == [i \in 1 .. (added - since) |-> since + i]

FlowInv ==
  ~torn => /\ baseline \o overflow \o messages = Given
           /\ tail = overflow
           /\ PlanInv
           /\ InputInv

LEMMA Regroup ==
  ASSUME NEW s \in Numbers, NEW t \in Numbers, NEW u \in Numbers
  PROVE  (s \o t) \o u = s \o (t \o u)
BY ConcatAssociative DEF Numbers

LEMMA BeginsItself ==
  ASSUME NEW s \in Numbers
  PROVE  Begins(s, s)
<1>1. <<>> \in Numbers /\ s \o <<>> = s
  BY EmptySeq, ConcatEmptySeq DEF Numbers
<1> QED  BY <1>1 DEF Begins

LEMMA BeginsLonger ==
  ASSUME NEW p \in Numbers, NEW s \in Numbers, NEW r \in Numbers, Begins(p, s)
  PROVE  Begins(p, s \o r)
<1>1. PICK q \in Numbers : s = p \o q
  BY DEF Begins
<1>2. s \o r = p \o (q \o r) /\ q \o r \in Numbers
  BY <1>1, ConcatAssociative, ConcatProperties DEF Numbers
<1> QED  BY <1>2 DEF Begins

LEMMA FlowInit == Init => FlowInv
<1> SUFFICES ASSUME Init PROVE FlowInv
  OBVIOUS
<1>1. <<>> \in Seq(Nat) /\ <<>> \o <<>> = <<>>
  BY EmptySeq, ConcatEmptySeq
<1>2. baseline \o overflow \o messages = <<>>
  BY <1>1 DEF Init
<1>3. Given = <<>>
  BY DEF Init, Given
<1>4. tail = overflow
  BY DEF Init
<1>5. \A t \in Threads : pc[t] = "idle"
  BY DEF Init
<1>6. PlanInv /\ InputInv
  BY <1>5 DEF PlanInv, InputInv, Threads
<1> QED  BY <1>2, <1>3, <1>4, <1>6 DEF FlowInv

\* Steps that touch none of the messages, and start no apply and no summarize.
LEMMA FlowQuiet ==
  ASSUME TypeOK, FlowInv, NEW t \in Threads,
         UNCHANGED <<session, added, since, torn>>,
         \A u \in Threads : u # t => pc'[u] = pc[u] /\ input'[u] = input[u],
         \A h \in Hosts : h # t => plan'[h] = plan[h],
         pc'[t] # "apply", pc'[t] # "summarize",
         pc'[t] = "commit" => pc[t] = "summarize" /\ input'[t] = input[t]
  PROVE  FlowInv'
<1> SUFFICES ASSUME ~torn PROVE FlowInv'
  BY DEF FlowInv
<1>1. Given' = Given /\ (baseline \o overflow \o messages)' = baseline \o overflow \o messages
  BY DEF Given, session
<1>2. PlanInv'
  BY DEF FlowInv, PlanInv, Begins, session, Threads
<1>3. InputInv'
  BY DEF FlowInv, InputInv, Begins, session
<1> QED  BY <1>1, <1>2, <1>3 DEF FlowInv, session

LEMMA FlowAdd ==
  ASSUME TypeOK, FlowInv, NEW h \in Hosts, Add(h)
  PROVE  FlowInv'
<1> SUFFICES ASSUME ~torn PROVE FlowInv'
  BY DEF FlowInv, Add
<1> DEFINE one == <<added + 1>>
           all == baseline \o overflow
<1>1. /\ added + 1 \in Nat /\ added' = added + 1 /\ since' = since
      /\ added \in Nat /\ since \in 0 .. added
  BY DEF TypeOK, Add
<1>2. one \in Numbers /\ messages' = messages \o one
  BY <1>1, AppendIsConcat DEF Add, TypeOK, Numbers
<1>3. all \in Numbers
  BY ConcatProperties DEF TypeOK, Numbers
<1>4. (all \o messages) \o one = all \o (messages \o one)
  <2>1. messages \in Numbers
    BY DEF TypeOK
  <2> QED  BY <1>2, <1>3, <2>1, Regroup
<1>5. UNCHANGED <<baseline, overflow, tail, input, plan>>
  BY DEF Add
<1>6. baseline' \o overflow' \o messages' = Given \o one
  BY <1>2, <1>4, <1>5 DEF FlowInv
<1>7. Given \o one = Given'
  <2>1. Given \in Seq(Nat) /\ Len(Given) = added - since
    BY <1>1 DEF Given
  <2>2. Given' \in Seq(Nat) /\ Len(Given') = added - since + 1
    BY <1>1 DEF Given
  <2>3. Given \o one \in Seq(Nat) /\ Len(Given \o one) = added - since + 1
    BY <1>1, <2>1, ConcatProperties
  <2>4. \A i \in 1 .. added - since + 1 : (Given \o one)[i] = Given'[i]
    <3> TAKE i \in 1 .. added - since + 1
    <3>1. (Given \o one)[i] = IF i <= added - since THEN Given[i] ELSE one[i - (added - since)]
      BY <1>1, <2>1
    <3>2. Given'[i] = since + i
      BY <1>1 DEF Given
    <3>3. CASE i <= added - since
      BY <1>1, <3>1, <3>2, <3>3 DEF Given
    <3>4. CASE i = added - since + 1
      <4>1. i - (added - since) = 1 /\ ~(i <= added - since) /\ since + i = added + 1
        BY <1>1, <3>4
      <4>2. one[1] = added + 1
        OBVIOUS
      <4>3. (Given \o one)[i] = one[1]
        BY <3>1, <4>1
      <4> QED  BY <3>2, <4>1, <4>2, <4>3
    <3>5. i <= added - since \/ i = added - since + 1
      BY <1>1
    <3> QED  BY <3>3, <3>4, <3>5
  <2> QED  BY <2>1, <2>2, <2>3, <2>4, SeqEqual
<1>8. PlanInv'
  <2> SUFFICES ASSUME NEW g \in Hosts, pc'[g] = "apply"
               PROVE  Begins(plan[g], messages \o one)
    BY <1>2, <1>5 DEF PlanInv
  <2>1. pc[g] = "apply"
    BY DEF Add, TypeOK, Threads
  <2> QED  BY <1>2, <2>1, BeginsLonger DEF FlowInv, PlanInv, TypeOK
<1>9. InputInv'
  <2>1. \A t \in Threads : pc'[t] \in {"summarize", "commit"} => pc'[t] = pc[t]
    BY DEF Add, TypeOK, Threads
  <2> QED  BY <1>5, <2>1 DEF FlowInv, InputInv, Begins
<1> QED  BY <1>5, <1>6, <1>7, <1>8, <1>9 DEF FlowInv

LEMMA FlowClear ==
  ASSUME TypeOK, FlowInv, NEW h \in Hosts, Clear(h)
  PROVE  FlowInv'
<1> SUFFICES ASSUME ~torn' PROVE FlowInv'
  BY DEF FlowInv
<1>1. \A t \in Threads : pc'[t] \notin {"apply", "summarize", "commit"}
  BY DEF Clear
<1>2. PlanInv' /\ InputInv'
  BY <1>1 DEF PlanInv, InputInv, Threads
<1>3. <<>> \in Seq(Nat) /\ <<>> \o <<>> = <<>>
  BY EmptySeq, ConcatEmptySeq
<1>4. baseline' \o overflow' \o messages' = <<>> /\ tail' = overflow'
  BY <1>3 DEF Clear
<1>5. Given' = <<>>
  BY DEF Clear, Given, TypeOK
<1> QED  BY <1>2, <1>4, <1>5 DEF FlowInv

LEMMA FlowPlan ==
  ASSUME TypeOK, FlowInv, NEW h \in Hosts, Plan(h)
  PROVE  FlowInv'
<1> SUFFICES ASSUME ~torn PROVE FlowInv'
  BY DEF FlowInv, Plan, counters
<1> USE DEF Plan, session, counters
<1>1. Excess \in 0 .. Len(messages)
  BY BoundsAssumption, LenProperties DEF Excess, TypeOK, Numbers
<1>2. /\ messages = SubSeq(messages, 1, Excess) \o Drop(messages, Excess)
      /\ Drop(messages, Excess) \in Numbers
  <2>1. messages \in Numbers
    BY DEF TypeOK
  <2>2. Excess \in Nat
    BY <1>1
  <2> QED  BY <1>1, <2>1, <2>2, SplitAt, DropType
<1>3. plan'[h] = SubSeq(messages, 1, Excess)
  BY DEF TypeOK
<1>4. Begins(plan'[h], messages)
  BY <1>2, <1>3 DEF Begins
<1>5. \A g \in Hosts : g # h => plan'[g] = plan[g] /\ pc'[g] = pc[g]
  BY DEF TypeOK, Threads
<1>6. PlanInv'
  BY <1>4, <1>5 DEF FlowInv, PlanInv, Begins
<1>7. InputInv'
  <2>1. \A t \in Threads : pc'[t] \in {"summarize", "commit"} => pc'[t] = pc[t]
    BY DEF TypeOK, Threads
  <2> QED  BY <2>1 DEF FlowInv, InputInv, Begins
<1>8. Given' = Given
  BY DEF Given
<1> QED  BY <1>6, <1>7, <1>8 DEF FlowInv

\* Only the holder of the pipeline mutex erases messages of the window.
LEMMA FlowApply ==
  ASSUME TypeOK, PipelineInv, FlowInv, NEW h \in Hosts, Apply(h)
  PROVE  FlowInv'
<1> SUFFICES ASSUME ~torn PROVE FlowInv'
  BY DEF FlowInv, Apply, counters
<1>1. PICK rest \in Numbers : messages = plan[h] \o rest
  BY DEF FlowInv, PlanInv, Begins, Apply
<1>2. plan[h] \in Numbers /\ Len(plan[h]) \in Nat
  BY LenProperties DEF TypeOK, Numbers
<1>3. Len(plan[h]) <= Len(messages) /\ Drop(messages, Len(plan[h])) = rest
  BY <1>1, <1>2, DropConcat
<1>4. Len(messages) \in Nat
  BY LenProperties DEF TypeOK, Numbers
<1>5. /\ messages' = rest
      /\ overflow' = overflow \o plan[h]
      /\ tail' = tail \o plan[h]
      /\ UNCHANGED <<baseline, input, added, since, torn>>
      /\ pc[h] = "apply" /\ pc' = [pc EXCEPT ![h] = "check"]
  BY <1>2, <1>3, <1>4 DEF Apply, counters
<1> DEFINE all == baseline \o overflow
<1>6. baseline \in Numbers /\ overflow \in Numbers /\ all \in Numbers
  BY <1>2, ConcatProperties DEF TypeOK, Numbers
<1>7. /\ baseline \o (overflow \o plan[h]) = all \o plan[h]
      /\ (all \o plan[h]) \o rest = all \o (plan[h] \o rest)
  <2>1. baseline \o (overflow \o plan[h]) = all \o plan[h]
    BY <1>2, <1>6, Regroup
  <2>2. (all \o plan[h]) \o rest = all \o (plan[h] \o rest)
    <3> HIDE DEF all
    <3> QED  BY <1>2, <1>6, Regroup
  <2> QED  BY <2>1, <2>2
<1>8. baseline' \o overflow' \o messages' = Given'
  BY <1>1, <1>5, <1>7 DEF FlowInv, Given
<1>9. PlanInv'
  <2>1. \A g \in Hosts : pc'[g] # "apply"
    BY <1>5 DEF PipelineInv, TypeOK, Threads
  <2> QED  BY <2>1 DEF PlanInv
<1>10. InputInv'
  <2> SUFFICES ASSUME NEW t \in Threads, pc'[t] \in {"summarize", "commit"}
               PROVE  /\ input[t].baseline = baseline
                      /\ input[t].tail = input[t].overflow
                      /\ Begins(input[t].overflow, overflow \o plan[h])
    BY <1>5 DEF InputInv
  <2>1. pc[t] \in {"summarize", "commit"}
    BY <1>5 DEF TypeOK, Threads
  <2>2. input[t].overflow \in Numbers /\ overflow \in Numbers
    BY DEF TypeOK
  <2> QED  BY <1>2, <2>1, <2>2, BeginsLonger DEF FlowInv, InputInv
<1> QED  BY <1>5, <1>8, <1>9, <1>10 DEF FlowInv

LEMMA FlowSnapshot ==
  ASSUME TypeOK, FlowInv, NEW t \in Threads, Snapshot(t)
  PROVE  FlowInv'
<1> SUFFICES ASSUME ~torn PROVE FlowInv'
  BY DEF FlowInv, Snapshot, counters
<1> USE DEF Snapshot, session, counters
<1>1. Begins(overflow, overflow)
  BY BeginsItself DEF TypeOK
<1>2. /\ input'[t].baseline = baseline
      /\ input'[t].overflow = overflow
      /\ input'[t].tail = tail
  BY DEF TypeOK
<1>3. \A u \in Threads : u # t => input'[u] = input[u] /\ pc'[u] = pc[u]
  BY DEF TypeOK
<1>4. InputInv'
  BY <1>1, <1>2, <1>3 DEF FlowInv, InputInv, Begins
<1>5. PlanInv'
  <2>1. \A h \in Hosts : pc'[h] = "apply" => pc[h] = "apply"
    BY DEF TypeOK, Threads
  <2> QED  BY <2>1 DEF FlowInv, PlanInv, Begins
<1>6. Given' = Given
  BY DEF Given
<1> QED  BY <1>4, <1>5, <1>6 DEF FlowInv

\* Only the one refinement in flight erases overflow and writes the baseline.
LEMMA FlowCommit ==
  ASSUME TypeOK, FlagInv, FlowInv, NEW t \in Threads, Commit(t)
  PROVE  FlowInv'
<1> SUFFICES ASSUME ~torn PROVE FlowInv'
  BY DEF FlowInv, Commit, counters
<1> DEFINE read == input[t].overflow
<1>1. /\ input[t].baseline = baseline /\ input[t].tail = read
      /\ Begins(read, overflow) /\ tail = overflow
  BY DEF FlowInv, InputInv, Commit
<1>2. PICK rest \in Numbers : overflow = read \o rest
  BY <1>1 DEF Begins
<1>3. read \in Numbers
  BY DEF TypeOK
<1>4. Consumed(overflow, read) = rest
  BY <1>2, <1>3, DropConcat DEF Consumed
<1>5. /\ baseline' = baseline \o read
      /\ overflow' = rest /\ tail' = rest
      /\ UNCHANGED <<messages, plan, added, since, torn>>
      /\ pc' = [pc EXCEPT ![t] = "look"]
  BY <1>1, <1>4 DEF Commit, counters
<1>6. baseline \o (read \o rest) = (baseline \o read) \o rest
  <2>1. baseline \in Numbers
    BY DEF TypeOK
  <2> QED  BY <1>3, <2>1, Regroup
<1>7. baseline' \o overflow' \o messages' = Given'
  BY <1>2, <1>5, <1>6 DEF FlowInv, Given
<1>8. PlanInv'
  <2>1. \A h \in Hosts : pc'[h] = "apply" => pc[h] = "apply"
    BY <1>5 DEF TypeOK, Threads
  <2> QED  BY <1>5, <2>1 DEF FlowInv, PlanInv, Begins
<1>9. InputInv'
  <2>1. \A u \in Threads : pc'[u] \notin {"summarize", "commit"}
    BY <1>5 DEF Commit, FlagInv, Body, Refining, TypeOK
  <2> QED  BY <2>1 DEF InputInv
<1> QED  BY <1>5, <1>7, <1>8, <1>9 DEF FlowInv

LEMMA FlowStep ==
  TypeOK /\ ExclusionInv /\ FlowInv /\ [Next]_vars => FlowInv'
<1> SUFFICES ASSUME TypeOK, ExclusionInv, FlowInv, [Next]_vars PROVE FlowInv'
  OBVIOUS
<1>1. CASE UNCHANGED vars
  BY <1>1 DEF FlowInv, PlanInv, InputInv, Begins, Given, vars, session, counters
<1>2. ASSUME NEW h \in Hosts, Add(h) \/ Clear(h) PROVE FlowInv'
  BY <1>2, FlowAdd, FlowClear
<1>3. ASSUME NEW h \in Hosts,
             \/ Call(h, "lock") \/ Call(h, "await")
             \/ Lock(h) \/ Check(h) \/ Begin(h)
             \/ Dispatch(h) \/ Submit(h) \/ ExecutorRefuses(h) \/ AwaitReturns(h)
      PROVE  FlowInv'
  <2>1. /\ UNCHANGED <<session, added, since, torn, input>>
        /\ \A u \in Threads : u # h => pc'[u] = pc[u]
        /\ \A g \in Hosts : g # h => plan'[g] = plan[g]
        /\ pc'[h] \notin {"apply", "summarize", "commit"}
    <3>1. CASE Call(h, "lock") \/ Call(h, "await") \/ Lock(h) \/ Check(h)
      BY <3>1 DEF Call, Lock, Check, TypeOK, Threads, counters
    <3>2. CASE \/ Begin(h) \/ Dispatch(h) \/ Submit(h)
               \/ ExecutorRefuses(h) \/ AwaitReturns(h)
      BY <3>2 DEF Begin, Dispatch, Submit, ExecutorRefuses, AwaitReturns,
                  TypeOK, Threads, counters
    <3> QED  BY <1>3, <3>1, <3>2
  <2> QED  BY <2>1, FlowQuiet DEF Threads
<1>4. ASSUME NEW t \in Threads,
             \/ Summarize(t) \/ Look(t) \/ Decide(t) \/ LeaveEarly(t)
             \/ t \in Refiners /\ ExecutorStarts(t)
      PROVE  FlowInv'
  <2>1. /\ UNCHANGED <<session, added, since, torn, plan>>
        /\ \A u \in Threads : u # t => pc'[u] = pc[u] /\ input'[u] = input[u]
        /\ pc'[t] \notin {"apply", "summarize"}
        /\ pc'[t] = "commit" => pc[t] = "summarize" /\ input'[t] = input[t]
    BY <1>4 DEF Summarize, Look, Decide, LeaveEarly, Leave, ExecutorStarts,
                TypeOK, counters
  <2> QED  BY <2>1, FlowQuiet
<1>5. ASSUME NEW t \in Threads, Refine(t) PROVE FlowInv'
  BY <1>4, <1>5, FlowSnapshot, FlowCommit DEF Refine, ExclusionInv
<1>6. ASSUME NEW h \in Hosts, Proceed(h) PROVE FlowInv'
  BY <1>3, <1>5, <1>6, FlowPlan, FlowApply DEF Proceed, ExclusionInv, Threads
<1> QED  BY <1>1, <1>2, <1>3, <1>4, <1>5, <1>6 DEF Next, Threads

\* Whatever is added, compacted, refined, refused and failed, in whatever order:
\* baseline, overflow and window hold every message since the last clear(), in
\* order and once, unless that clear() came in the middle of a compaction.
THEOREM MessagesKept == Spec => []NothingLost
<1>1. Init => TypeOK /\ ExclusionInv /\ FlowInv
  BY TypeInit, ExclusionInit, FlowInit
<1>2. TypeOK /\ ExclusionInv /\ FlowInv /\ [Next]_vars
        => (TypeOK /\ ExclusionInv /\ FlowInv)'
  BY TypeStep, ExclusionStep, FlowStep
<1>3. FlowInv => NothingLost
  BY DEF FlowInv, NothingLost, Given
<1> QED  BY <1>1, <1>2, <1>3, PTL DEF Spec
=============================================================================
