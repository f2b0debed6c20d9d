------------------------- MODULE EventStreamProofs -------------------------
(***************************************************************************)
(* Theorems about EventStream, for any finite number of readers, any       *)
(* number of cancellers, every capacity and every number of events.        *)
(***************************************************************************)
EXTENDS EventStream, FiniteSetTheorems, TLAPS

-----------------------------------------------------------------------------
(* The inductive invariant, one conjunct per property it carries.          *)

Errs == producer \in {"throwing", "failing"} => emits \in Throws

\* Only the producer fails the queue, and that is the last thing it does.
FailedIsLast == failed # "none" => producer \in {"notify", "done"}

\* A thread that has left the first step of cancel() has closed the queue.
CancelledIsClosed ==
  \A c \in Closers : closer[c] \notin {"idle", "closing"} => closed

\* The stream's own token is fired on a closed queue only, so a producer that
\* was cancelled does not find the queue open.
Quiet ==
  /\ CancelledIsClosed
  /\ owned /\ token => closed
  /\ owned /\ emits = "cancelled" => closed /\ producer # "failing"
  /\ CloseIsQuiet

Buffer == taken <= pushed /\ BufferIsGap

Ended ==
  (\E r \in Readers : got[r] \in {"end", "error"}) =>
     events = <<>> /\ (closed \/ failed # "none")

Entering == {r \in Readers : reader[r] = "entering"}

\* The signals the buffered events have sent or will send.
Signals == Cardinality(Entering) + (IF producer = "signal" THEN 1 ELSE 0)

\* While a reader sleeps, every buffered event has a reader of its own coming.
ReadersWoken ==
  Sleepers # {} =>
    /\ Len(events) <= Signals
    /\ closed \/ failed # "none" =>
         producer = "notify" \/ \E c \in Closers : closer[c] = "notify"

ProducerWoken ==
  producer = "asleep" =>
    /\ Full \/ \E r \in Readers : reader[r] = "popped"
    /\ closed => \E c \in Closers : closer[c] = "notify"

IInv ==
  /\ TypeOK /\ Errs /\ FailedIsLast /\ Quiet /\ Buffer /\ Ended
  /\ ReadersWoken /\ ProducerWoken

USE ThreadsAssumption, CapacityAssumption

\* What a step can be.  Each invariance proof below names the steps its
\* conjunct is disturbed by.
StartStep == StartThrows \/ \E what \in Emits : Emit(what)

LEMMA NextCases ==
  ASSUME [Next]_vars
  PROVE  \/ UNCHANGED vars
         \/ StartStep
         \/ PushWaits \/ PushAppends \/ PushThrows \/ PushSignals
         \/ CheckClosed \/ ProducerFails \/ ProducerCloses \/ ProducerNotifies
         \/ \E r \in Readers : \/ Pull(r) \/ NextWaits(r) \/ NextTakes(r)
                               \/ NextSignals(r) \/ NextEnds(r)
         \/ \E c \in Closers : \/ Cancel(c) \/ CancelCloses(c)
                               \/ CancelNotifies(c) \/ CancelFires(c)
         \/ Join
         \/ CallerCancels
  BY DEF Next, ProducerStep, ReaderStep, CloserStep, StartStep

-----------------------------------------------------------------------------
(* Types.                                                                  *)

LEMMA TypeStep ==
  ASSUME TypeOK, Errs, [Next]_vars
  PROVE  TypeOK' /\ Errs'
<1> USE DEF TypeOK, Errs, Emits, Throws, queueVars, tokenVars, history
<1>1. CASE UNCHANGED vars
  BY <1>1 DEF vars
<1>2. CASE StartStep
  BY <1>2 DEF StartStep, StartThrows, Emit
<1>3. CASE PushWaits \/ PushThrows
  BY <1>3 DEF PushWaits, PushThrows
<1>4. CASE PushAppends
  BY <1>4 DEF PushAppends
<1>5. CASE PushSignals
  BY <1>5 DEF PushSignals, WakeReader, Sleepers
<1>6. CASE CheckClosed \/ ProducerFails \/ ProducerCloses
  BY <1>6 DEF CheckClosed, ProducerFails, ProducerCloses
<1>7. CASE ProducerNotifies
  BY <1>7 DEF ProducerNotifies, WakeReaders, Sleepers
<1>8. ASSUME NEW r \in Readers, Pull(r) \/ NextWaits(r) \/ NextEnds(r)
      PROVE  TypeOK' /\ Errs'
  BY <1>8 DEF Pull, NextWaits, NextEnds
<1>9. ASSUME NEW r \in Readers, NextTakes(r)
      PROVE  TypeOK' /\ Errs'
  BY <1>9 DEF NextTakes
<1>10. ASSUME NEW r \in Readers, NextSignals(r)
       PROVE  TypeOK' /\ Errs'
  BY <1>10 DEF NextSignals, WokenProducer
<1>11. ASSUME NEW c \in Closers, Cancel(c) \/ CancelCloses(c) \/ CancelFires(c)
       PROVE  TypeOK' /\ Errs'
  <2>1. closer' \in [Closers -> {"idle", "closing", "notify", "token", "joining", "done"}]
    BY <1>11 DEF Cancel, CancelCloses, CancelFires
  <2>2. token' \in BOOLEAN /\ closed' \in BOOLEAN
    BY <1>11 DEF Cancel, CancelCloses, CancelFires
  <2>3. UNCHANGED <<events, failed, owned, producer, emits, reader, got, history>>
    BY <1>11 DEF Cancel, CancelCloses, CancelFires
  <2> QED  BY <2>1, <2>2, <2>3
<1>12. ASSUME NEW c \in Closers, CancelNotifies(c)
       PROVE  TypeOK' /\ Errs'
  BY <1>12 DEF CancelNotifies, WakeReaders, WokenProducer, Sleepers
<1>13. CASE Join \/ CallerCancels
  BY <1>13 DEF Join, CallerCancels, Closers
<1> QED
  BY NextCases, <1>1, <1>2, <1>3, <1>4, <1>5, <1>6, <1>7, <1>8, <1>9, <1>10,
     <1>11, <1>12, <1>13

-----------------------------------------------------------------------------
(* The buffer.                                                             *)

\* push() extends the gap by the event it appends.
LEMMA GapAppend ==
  ASSUME NEW t \in Nat, NEW p \in Nat, t <= p
  PROVE  Append(Gap(t, p), p + 1) = Gap(t, p + 1)
<1>1. p - t \in Nat
  OBVIOUS
<1>2. Len(Gap(t, p)) = p - t /\ DOMAIN Gap(t, p) = 1 .. (p - t)
  BY <1>1 DEF Gap
<1>3. Gap(t, p) \in Seq(Nat)
  BY <1>1 DEF Gap
<1>4. DOMAIN Append(Gap(t, p), p + 1) = 1 .. (p + 1 - t)
  BY <1>1, <1>2, <1>3
<1>5. ASSUME NEW i \in 1 .. (p + 1 - t)
      PROVE  Append(Gap(t, p), p + 1)[i] = t + i
  <2>1. CASE i = p + 1 - t
    BY <1>1, <1>2, <1>3, <2>1
  <2>2. CASE i # p + 1 - t
    BY <1>1, <1>2, <1>3, <2>2 DEF Gap
  <2> QED  BY <2>1, <2>2
<1>6. Append(Gap(t, p), p + 1) \in Seq(Nat)
  BY <1>3
<1> QED  BY <1>4, <1>5, <1>6 DEF Gap

\* next() shortens it by the first.
LEMMA GapTail ==
  ASSUME NEW t \in Nat, NEW p \in Nat, t < p
  PROVE  Tail(Gap(t, p)) = Gap(t + 1, p)
<1>1. p - t \in Nat /\ p - (t + 1) \in Nat
  OBVIOUS
<1>2. Gap(t, p) \in Seq(Nat) /\ Len(Gap(t, p)) = p - t
  BY <1>1 DEF Gap
<1>3. Tail(Gap(t, p)) = [i \in 1 .. (p - t - 1) |-> Gap(t, p)[i + 1]]
  BY <1>1, <1>2 DEF Gap
<1>4. \A i \in 1 .. (p - t - 1) : Gap(t, p)[i + 1] = t + 1 + i
  BY <1>1 DEF Gap
<1>5. p - t - 1 = p - (t + 1)
  OBVIOUS
<1>6. Gap(t + 1, p) = [i \in 1 .. (p - t - 1) |-> t + 1 + i]
  BY <1>5 DEF Gap
<1> QED  BY <1>3, <1>4, <1>6

LEMMA GapLen ==
  ASSUME NEW t \in Nat, NEW p \in Nat, t <= p
  PROVE  Len(Gap(t, p)) = p - t /\ (Gap(t, p) = <<>> <=> t = p)
<1>1. p - t \in Nat
  OBVIOUS
<1>2. Gap(t, p) \in Seq(Nat) /\ Len(Gap(t, p)) = p - t
  BY <1>1 DEF Gap
<1> QED  BY <1>2

LEMMA BufferStep ==
  ASSUME TypeOK, Buffer, [Next]_vars
  PROVE  Buffer'
<1> USE DEF Buffer, BufferIsGap
<1>0. pushed \in Nat /\ taken \in Nat
  BY DEF TypeOK
<1>1. CASE PushAppends
  <2>1. pushed' = pushed + 1 /\ taken' = taken
    BY <1>1 DEF PushAppends
  <2>2. events' = Gap(taken', pushed')
    BY <1>0, <1>1, <2>1, GapAppend DEF PushAppends
  <2>3. Len(events) = pushed - taken
    BY <1>0, GapLen
  <2>4. Len(events) < Capacity
    BY <1>0, <1>1, <2>3 DEF PushAppends, Full
  <2>5. Len(events') = Len(events) + 1
    BY <1>1 DEF PushAppends, TypeOK
  <2> QED  BY <1>0, <2>1, <2>2, <2>3, <2>4, <2>5
<1>2. ASSUME NEW r \in Readers, NextTakes(r)
      PROVE  Buffer'
  <2>1. pushed' = pushed /\ taken' = taken + 1 /\ taken < pushed
    BY <1>0, <1>2, GapLen DEF NextTakes
  <2>2. events' = Gap(taken', pushed')
    BY <1>0, <1>2, <2>1, GapTail DEF NextTakes
  <2>3. Len(events) = pushed - taken
    BY <1>0, GapLen
  <2>4. Len(events') = Len(events) - 1
    BY <1>2 DEF NextTakes, TypeOK
  <2> QED  BY <1>0, <2>1, <2>2, <2>3, <2>4
<1>3. CASE UNCHANGED <<events, pushed, taken>>
  BY <1>3
<1>4. \/ PushAppends
      \/ \E r \in Readers : NextTakes(r)
      \/ UNCHANGED <<events, pushed, taken>>
  <2> USE DEF queueVars, tokenVars, history
  <2>1. CASE UNCHANGED vars \/ StartStep \/ Join \/ CallerCancels
    BY <2>1 DEF vars, StartStep, StartThrows, Emit, Join, CallerCancels
  <2>2. CASE \/ PushWaits \/ PushThrows \/ PushSignals \/ CheckClosed
             \/ ProducerFails \/ ProducerCloses \/ ProducerNotifies
    BY <2>2 DEF PushWaits, PushThrows, PushSignals, CheckClosed,
                ProducerFails, ProducerCloses, ProducerNotifies
  <2>3. CASE \E r \in Readers :
               Pull(r) \/ NextWaits(r) \/ NextSignals(r) \/ NextEnds(r)
    BY <2>3 DEF Pull, NextWaits, NextSignals, NextEnds
  <2>4. CASE \E c \in Closers :
               Cancel(c) \/ CancelCloses(c) \/ CancelNotifies(c) \/ CancelFires(c)
    BY <2>4 DEF Cancel, CancelCloses, CancelNotifies, CancelFires
  <2> QED  BY NextCases, <2>1, <2>2, <2>3, <2>4
<1> QED  BY <1>1, <1>2, <1>3, <1>4

-----------------------------------------------------------------------------
(* Closing, failing and the end.                                           *)

LEMMA QuietStep ==
  ASSUME TypeOK, Errs, Quiet, [Next]_vars
  PROVE  Quiet'
<1> USE DEF TypeOK, Quiet, CancelledIsClosed, CloseIsQuiet,
            queueVars, tokenVars, history
<1>1. CASE UNCHANGED vars
  BY <1>1 DEF vars
<1>2. CASE StartStep
  BY <1>2 DEF StartStep, StartThrows, Emit
<1>3. CASE PushWaits \/ PushThrows \/ PushAppends
  BY <1>3 DEF PushWaits, PushThrows, PushAppends
<1>4. CASE PushSignals \/ ProducerNotifies
  BY <1>4 DEF PushSignals, ProducerNotifies
<1>5. CASE CheckClosed \/ ProducerFails \/ ProducerCloses
  BY <1>5 DEF CheckClosed, ProducerFails, ProducerCloses, Errs, Throws
<1>6. CASE \E r \in Readers :
             Pull(r) \/ NextWaits(r) \/ NextTakes(r) \/ NextSignals(r) \/ NextEnds(r)
  BY <1>6 DEF Pull, NextWaits, NextTakes, NextSignals, NextEnds, WokenProducer
<1>7. ASSUME NEW c \in Closers, Cancel(c) \/ CancelCloses(c) \/ CancelNotifies(c)
      PROVE  Quiet'
  BY <1>7 DEF Cancel, CancelCloses, CancelNotifies, WokenProducer
<1>8. ASSUME NEW c \in Closers, CancelFires(c)
      PROVE  Quiet'
  <2>1. closed /\ closed' = closed
    BY <1>8 DEF CancelFires
  <2> QED  BY <1>8, <2>1 DEF CancelFires
<1>9. CASE Join \/ CallerCancels
  BY <1>9 DEF Join, CallerCancels, Closers
<1> QED
  BY NextCases, <1>1, <1>2, <1>3, <1>4, <1>5, <1>6, <1>7, <1>8, <1>9

LEMMA FailedStep ==
  ASSUME TypeOK, FailedIsLast, [Next]_vars
  PROVE  FailedIsLast'
<1> USE DEF TypeOK, FailedIsLast, queueVars, tokenVars, history
<1>1. CASE UNCHANGED vars \/ StartStep
  BY <1>1 DEF vars, StartStep, StartThrows, Emit
<1>2. CASE \/ PushWaits \/ PushThrows \/ PushAppends \/ PushSignals
           \/ CheckClosed \/ ProducerFails \/ ProducerCloses \/ ProducerNotifies
  BY <1>2 DEF PushWaits, PushThrows, PushAppends, PushSignals, CheckClosed,
              ProducerFails, ProducerCloses, ProducerNotifies
<1>3. CASE \E r \in Readers :
             Pull(r) \/ NextWaits(r) \/ NextTakes(r) \/ NextSignals(r) \/ NextEnds(r)
  BY <1>3 DEF Pull, NextWaits, NextTakes, NextSignals, NextEnds, WokenProducer
<1>4. CASE \E c \in Closers :
             Cancel(c) \/ CancelCloses(c) \/ CancelNotifies(c) \/ CancelFires(c)
  BY <1>4 DEF Cancel, CancelCloses, CancelNotifies, CancelFires, WokenProducer
<1>5. CASE Join \/ CallerCancels
  BY <1>5 DEF Join, CallerCancels
<1> QED  BY NextCases, <1>1, <1>2, <1>3, <1>4, <1>5

LEMMA EndedStep ==
  ASSUME TypeOK, Ended, FailedIsLast, [Next]_vars
  PROVE  Ended'
<1> USE DEF TypeOK, Ended, queueVars, tokenVars, history
<1>1. CASE UNCHANGED vars \/ StartStep
  BY <1>1 DEF vars, StartStep, StartThrows, Emit
<1>2. CASE PushAppends
  BY <1>2 DEF PushAppends
<1>3. CASE \/ PushWaits \/ PushThrows \/ PushSignals \/ CheckClosed
           \/ ProducerCloses \/ ProducerNotifies
  BY <1>3 DEF PushWaits, PushThrows, PushSignals, CheckClosed,
              ProducerCloses, ProducerNotifies
<1>4. CASE ProducerFails
  BY <1>4 DEF ProducerFails, FailedIsLast
<1>5. ASSUME NEW r \in Readers,
             Pull(r) \/ NextWaits(r) \/ NextTakes(r) \/ NextSignals(r) \/ NextEnds(r)
      PROVE  Ended'
  BY <1>5 DEF Pull, NextWaits, NextTakes, NextSignals, NextEnds
<1>6. CASE \E c \in Closers :
             Cancel(c) \/ CancelCloses(c) \/ CancelNotifies(c) \/ CancelFires(c)
  BY <1>6 DEF Cancel, CancelCloses, CancelNotifies, CancelFires
<1>7. CASE Join \/ CallerCancels
  BY <1>7 DEF Join, CallerCancels
<1> QED  BY NextCases, <1>1, <1>2, <1>3, <1>4, <1>5, <1>6, <1>7

-----------------------------------------------------------------------------
(* Wakeups.                                                                *)

LEMMA ProducerWokenStep ==
  ASSUME TypeOK, ProducerWoken, FailedIsLast, [Next]_vars
  PROVE  ProducerWoken'
<1> USE DEF TypeOK, ProducerWoken, Full, queueVars, tokenVars, history
<1>1. CASE UNCHANGED vars \/ StartStep
  BY <1>1 DEF vars, StartStep, StartThrows, Emit
<1>2. CASE \/ PushWaits \/ PushThrows \/ PushAppends \/ PushSignals
           \/ CheckClosed \/ ProducerFails \/ ProducerCloses \/ ProducerNotifies
  BY <1>2 DEF PushWaits, PushThrows, PushAppends, PushSignals, CheckClosed,
              ProducerFails, ProducerCloses, ProducerNotifies
<1>3. ASSUME NEW r \in Readers,
             Pull(r) \/ NextWaits(r) \/ NextEnds(r)
      PROVE  ProducerWoken'
  BY <1>3 DEF Pull, NextWaits, NextEnds
<1>4. ASSUME NEW r \in Readers, NextTakes(r)
      PROVE  ProducerWoken'
  BY <1>4 DEF NextTakes
<1>5. ASSUME NEW r \in Readers, NextSignals(r)
      PROVE  ProducerWoken'
  BY <1>5 DEF NextSignals, WokenProducer
<1>6. ASSUME NEW c \in Closers, Cancel(c) \/ CancelCloses(c)
      PROVE  ProducerWoken'
  BY <1>6 DEF Cancel, CancelCloses
<1>7. ASSUME NEW c \in Closers, CancelNotifies(c)
      PROVE  ProducerWoken'
  BY <1>7 DEF CancelNotifies, WokenProducer
<1>8. ASSUME NEW c \in Closers, CancelFires(c)
      PROVE  ProducerWoken'
  BY <1>8 DEF CancelFires
<1>9. CASE Join \/ CallerCancels
  BY <1>9 DEF Join, CallerCancels
<1> QED
  BY NextCases, <1>1, <1>2, <1>3, <1>4, <1>5, <1>6, <1>7, <1>8, <1>9

\* How the number of awake readers follows their moves.
LEMMA EnteringCount ==
  /\ IsFiniteSet(Entering) /\ Cardinality(Entering) \in Nat
  /\ \A r \in Readers :
       /\ Cardinality(Entering \cup {r}) =
            IF r \in Entering THEN Cardinality(Entering)
                              ELSE Cardinality(Entering) + 1
       /\ Cardinality(Entering \ {r}) =
            IF r \in Entering THEN Cardinality(Entering) - 1
                              ELSE Cardinality(Entering)
<1>1. IsFiniteSet(Entering) /\ Cardinality(Entering) \in Nat
  BY FS_Subset, FS_CardinalityType DEF Entering
<1> QED  BY <1>1, FS_AddElement, FS_RemoveElement

LEMMA ReadersWokenStep ==
  ASSUME TypeOK, ReadersWoken, [Next]_vars
  PROVE  ReadersWoken'
<1> USE DEF TypeOK, queueVars, tokenVars, history
<1>0. Cardinality(Entering) \in Nat /\ Len(events) \in Nat
  BY EnteringCount
\* A step that moves no reader and leaves the buffer, the closing threads and
\* what they wait for alone.
<1>1. ASSUME UNCHANGED <<events, closed, failed, reader, closer>>,
             producer \notin {"signal", "notify"}
      PROVE  ReadersWoken'
  <2>1. Entering' = Entering /\ Sleepers' = Sleepers
    BY <1>1 DEF Entering, Sleepers
  <2>2. Signals = Cardinality(Entering) /\ Signals' \in {Signals, Signals + 1}
    BY <1>0, <1>1, <2>1 DEF Signals
  <2> QED  BY <1>0, <1>1, <2>1, <2>2 DEF ReadersWoken
<1>2. CASE UNCHANGED vars
  BY <1>2 DEF vars, ReadersWoken, Sleepers, Signals, Entering
<1>3. CASE StartStep \/ PushWaits \/ PushThrows \/ CheckClosed
  BY <1>1, <1>3 DEF StartStep, StartThrows, Emit, PushWaits, PushThrows, CheckClosed
<1>4. CASE PushAppends
  <2>1. Entering' = Entering /\ Sleepers' = Sleepers
    BY <1>4 DEF PushAppends, Entering, Sleepers
  <2>2. Signals = Cardinality(Entering) /\ Signals' = Signals + 1
    BY <1>0, <1>4, <2>1 DEF PushAppends, Signals
  <2>3. Len(events') = Len(events) + 1
    BY <1>4 DEF PushAppends
  <2>4. ~closed' /\ failed' = "none"
    BY <1>4 DEF PushAppends
  <2> QED  BY <1>0, <2>1, <2>2, <2>3, <2>4 DEF ReadersWoken
<1>5. CASE PushSignals
  <2>1. CASE Sleepers = {}
    BY <1>5, <2>1 DEF PushSignals, WakeReader, ReadersWoken, Sleepers
  <2>2. CASE Sleepers # {}
    <3>1. PICK r \in Sleepers : reader' = [reader EXCEPT ![r] = "entering"]
      BY <1>5, <2>2 DEF PushSignals, WakeReader
    <3>2. r \in Readers \ Entering /\ Entering' = Entering \cup {r}
      BY <3>1 DEF Sleepers, Entering
    <3>3. Cardinality(Entering') = Cardinality(Entering) + 1
      BY <3>2, EnteringCount
    <3>4. producer = "signal" /\ producer' \notin {"signal", "notify"}
      BY <1>5 DEF PushSignals
    <3>5. Signals' = Signals
      BY <1>0, <3>3, <3>4 DEF Signals
    <3> QED  BY <1>5, <2>2, <3>4, <3>5 DEF PushSignals, ReadersWoken
  <2> QED  BY <2>1, <2>2
<1>6. CASE ProducerFails \/ ProducerCloses
  <2>1. Entering' = Entering /\ Sleepers' = Sleepers /\ events' = events
    BY <1>6 DEF ProducerFails, ProducerCloses, Entering, Sleepers
  <2>2. Signals' = Signals /\ producer' = "notify"
    BY <1>0, <1>6, <2>1 DEF ProducerFails, ProducerCloses, Signals
  <2> QED  BY <2>1, <2>2 DEF ReadersWoken
<1>7. ASSUME WakeReaders
      PROVE  ReadersWoken'
  BY <1>7 DEF WakeReaders, ReadersWoken, Sleepers
<1>8. CASE ProducerNotifies
  BY <1>7, <1>8 DEF ProducerNotifies
<1>9. ASSUME NEW r \in Readers, Pull(r)
      PROVE  ReadersWoken'
  <2>1. Sleepers' = Sleepers /\ Entering' = Entering \cup {r} /\ r \notin Entering
    BY <1>9 DEF Pull, Sleepers, Entering
  <2>2. Cardinality(Entering') = Cardinality(Entering) + 1
    BY <2>1, EnteringCount
  <2>3. Signals' = Signals + 1 /\ Signals \in Nat
    BY <1>0, <1>9, <2>2 DEF Pull, Signals
  <2> QED  BY <1>0, <1>9, <2>1, <2>3 DEF Pull, ReadersWoken
<1>10. ASSUME NEW r \in Readers, NextWaits(r)
       PROVE  ReadersWoken'
  <2>1. events' = <<>> /\ ~closed' /\ failed' = "none"
    BY <1>10 DEF NextWaits
  <2>2. Entering' = Entering \ {r} /\ r \in Entering
    BY <1>10 DEF NextWaits, Entering
  <2>3. Cardinality(Entering') \in Nat
    BY <2>2, FS_RemoveElement, FS_CardinalityType, EnteringCount
  <2> QED  BY <2>1, <2>3 DEF ReadersWoken, Signals
<1>11. ASSUME NEW r \in Readers, NextTakes(r)
       PROVE  ReadersWoken'
  <2>1. Sleepers' = Sleepers /\ Entering' = Entering \ {r} /\ r \in Entering
    BY <1>11 DEF NextTakes, Sleepers, Entering
  <2>2. Cardinality(Entering') = Cardinality(Entering) - 1
    BY <2>1, EnteringCount
  <2>3. Signals' = Signals - 1
    BY <1>0, <1>11, <2>2 DEF NextTakes, Signals
  <2>4. Len(events') = Len(events) - 1
    BY <1>0, <1>11 DEF NextTakes
  <2>5. Signals \in Int
    BY <1>0 DEF Signals
  <2> QED  BY <1>0, <1>11, <2>1, <2>3, <2>4, <2>5 DEF NextTakes, ReadersWoken
<1>12. ASSUME NEW r \in Readers, NextSignals(r)
       PROVE  ReadersWoken'
  <2>1. Sleepers' = Sleepers /\ Entering' = Entering
    BY <1>12 DEF NextSignals, Sleepers, Entering
  <2>2. producer' \in {"signal", "notify"} \/ producer \in {"signal", "notify"} =>
          producer' = producer
    BY <1>12 DEF NextSignals, WokenProducer
  <2>3. Signals' = Signals
    BY <2>1, <2>2 DEF Signals
  <2> QED  BY <1>12, <2>1, <2>2, <2>3 DEF NextSignals, ReadersWoken
<1>13. ASSUME NEW r \in Readers, NextEnds(r)
       PROVE  ReadersWoken'
  <2>1. events' = <<>> /\ Sleepers' = Sleepers
    BY <1>13 DEF NextEnds, Sleepers
  <2>2. Entering' = Entering \ {r} /\ r \in Entering
    BY <1>13 DEF NextEnds, Entering
  <2>3. Cardinality(Entering') \in Nat
    BY <2>2, FS_RemoveElement, FS_CardinalityType, EnteringCount
  <2>4. Len(events') <= Signals'
    BY <2>1, <2>3 DEF Signals
  <2> QED  BY <1>13, <2>1, <2>4 DEF NextEnds, ReadersWoken
<1>14. ASSUME NEW c \in Closers, Cancel(c) \/ CancelCloses(c) \/ CancelFires(c)
       PROVE  ReadersWoken'
  <2>1. Sleepers' = Sleepers /\ Entering' = Entering
    BY <1>14 DEF Cancel, CancelCloses, CancelFires, Sleepers, Entering
  <2>2. Signals' = Signals
    BY <1>14, <2>1 DEF Cancel, CancelCloses, CancelFires, Signals
  <2>3. CASE Cancel(c)
    BY <2>1, <2>2, <2>3 DEF Cancel, ReadersWoken
  <2>4. CASE CancelCloses(c)
    BY <2>1, <2>2, <2>4 DEF CancelCloses, ReadersWoken
  <2>5. CASE CancelFires(c)
    BY <2>1, <2>2, <2>5 DEF CancelFires, ReadersWoken
  <2> QED  BY <1>14, <2>3, <2>4, <2>5
<1>15. ASSUME NEW c \in Closers, CancelNotifies(c)
       PROVE  ReadersWoken'
  BY <1>7, <1>15 DEF CancelNotifies
<1>16. CASE Join \/ CallerCancels
  <2>1. Sleepers' = Sleepers /\ Entering' = Entering
    BY <1>16 DEF Join, CallerCancels, Sleepers, Entering
  <2>2. Signals' = Signals
    BY <1>16, <2>1 DEF Join, CallerCancels, Signals
  <2> QED  BY <1>16, <2>1, <2>2 DEF Join, CallerCancels, ReadersWoken
<1> QED
  BY NextCases, <1>2, <1>3, <1>4, <1>5, <1>6, <1>8, <1>9, <1>10, <1>11, <1>12,
     <1>13, <1>14, <1>15, <1>16

-----------------------------------------------------------------------------
(* The theorems.                                                           *)

LEMMA IInvInit == Init => IInv
<1> SUFFICES ASSUME Init PROVE IInv
  OBVIOUS
<1>1. TypeOK
  <2>1. events \in Seq(Nat) /\ emits \in Emits
    BY DEF Init, Emits
  <2>2. closed \in BOOLEAN /\ token \in BOOLEAN /\ owned \in BOOLEAN
    BY DEF Init
  <2> QED  BY <2>1, <2>2 DEF Init, TypeOK
<1>2. Errs /\ FailedIsLast /\ Quiet /\ Ended /\ ReadersWoken /\ ProducerWoken
  BY DEF Init, Errs, FailedIsLast, Quiet, CancelledIsClosed, CloseIsQuiet,
         Ended, ReadersWoken, ProducerWoken, Sleepers
<1>3. Buffer
  BY GapLen DEF Init, Buffer, BufferIsGap
<1> QED  BY <1>1, <1>2, <1>3 DEF IInv

LEMMA IInvStep == IInv /\ [Next]_vars => IInv'
  BY TypeStep, BufferStep, QuietStep, FailedStep, EndedStep,
     ReadersWokenStep, ProducerWokenStep DEF IInv

LEMMA Inductive == Spec => []IInv
  BY IInvInit, IInvStep, PTL DEF Spec

\* Type correctness of the queue, the token and the threads.
THEOREM StreamTypes == Spec => []TypeOK
<1>1. IInv => TypeOK
  BY DEF IInv
<1> QED  BY Inductive, <1>1, PTL

\* The queue is a bounded FIFO that loses and invents nothing, whatever the
\* order in which a close or a failure meets push() and next().
THEOREM BufferCorrect == Spec => []BufferIsGap
<1>1. IInv => BufferIsGap
  BY DEF IInv, Buffer
<1> QED  BY Inductive, <1>1, PTL

\* No thread sleeps in push() or next() through what it waits for.
THEOREM WakeupsReach == Spec => []NoLostWakeup
<1>1. IInv => NoLostWakeup
  <2> SUFFICES ASSUME IInv PROVE NoLostWakeup
    OBVIOUS
  <2> USE DEF IInv
  <2>1. ASSUME producer = "asleep", ~Full \/ closed \/ failed # "none"
        PROVE  \/ \E r \in Readers : reader[r] = "popped"
               \/ \E c \in Closers : closer[c] = "notify"
    BY <2>1 DEF ProducerWoken, FailedIsLast
  <2>2. ASSUME Sleepers # {}, closed \/ failed # "none"
        PROVE  producer = "notify" \/ \E c \in Closers : closer[c] = "notify"
    BY <2>2 DEF ReadersWoken
  <2>3. ASSUME Sleepers # {}, events # <<>>
        PROVE  producer = "signal" \/ \E r \in Readers : reader[r] = "entering"
    <3>1. Len(events) \in Nat \ {0}
      BY <2>3 DEF TypeOK
    <3>2. Len(events) <= Signals
      BY <2>3 DEF ReadersWoken
    <3>3. CASE producer # "signal"
      <4>1. Cardinality(Entering) # 0
        BY <3>1, <3>2, <3>3, EnteringCount DEF Signals
      <4>2. Entering # {}
        BY <4>1, FS_EmptySet
      <4> QED  BY <4>2 DEF Entering
    <3> QED  BY <3>3
  <2> QED  BY <2>1, <2>2, <2>3 DEF NoLostWakeup
<1> QED  BY Inductive, <1>1, PTL

\* Closing a stream that owns its token never surfaces as a failure.
THEOREM ClosesQuietly == Spec => []CloseIsQuiet
<1>1. IInv => CloseIsQuiet
  BY DEF IInv, Quiet
<1> QED  BY Inductive, <1>1, PTL

\* No event follows the end of the stream, whichever reader saw it.
THEOREM EndsOnce == Spec => EndIsFinal
<1> DEFINE Over == \E r \in Readers : got[r] \in {"end", "error"}
<1>1. ASSUME IInv, [Next]_vars, Over
      PROVE  taken' = taken
  <2>1. events = <<>>
    BY <1>1 DEF IInv, Ended
  <2>2. ~ \E r \in Readers : NextTakes(r)
    BY <2>1 DEF NextTakes
  <2> USE DEF history
  <2>3. CASE UNCHANGED vars \/ StartStep \/ Join \/ CallerCancels
    BY <2>3 DEF vars, StartStep, StartThrows, Emit, Join, CallerCancels
  <2>4. CASE \/ PushWaits \/ PushThrows \/ PushAppends \/ PushSignals
             \/ CheckClosed \/ ProducerFails \/ ProducerCloses \/ ProducerNotifies
    BY <2>4 DEF PushWaits, PushThrows, PushAppends, PushSignals, CheckClosed,
                ProducerFails, ProducerCloses, ProducerNotifies
  <2>5. CASE \E r \in Readers :
               Pull(r) \/ NextWaits(r) \/ NextSignals(r) \/ NextEnds(r)
    BY <2>5 DEF Pull, NextWaits, NextSignals, NextEnds
  <2>6. CASE \E c \in Closers :
               Cancel(c) \/ CancelCloses(c) \/ CancelNotifies(c) \/ CancelFires(c)
    BY <2>6 DEF Cancel, CancelCloses, CancelNotifies, CancelFires
  <2> QED  BY NextCases, <1>1, <2>2, <2>3, <2>4, <2>5, <2>6
<1>2. IInv /\ [Next]_vars => [Over => taken' = taken]_vars
  BY <1>1
<1> QED  BY Inductive, <1>2, PTL DEF Spec, EndIsFinal
=============================================================================
