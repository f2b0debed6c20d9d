-------------------------- MODULE ToolClientProofs --------------------------
(* Theorems about ToolClient for every number of calls and keys, every cache *)
(* size and any number of starts of the runtime.                             *)
EXTENDS ToolClient, TLAPS

USE CallsAssumption, RequestsAssumption, BoundsAssumption

\* A call names a key, its own or the one it falls back to.
LEMMA CacheKeyType == \A c \in Calls : CacheKey(c) \in CacheKeys
  BY DEF CacheKey, CacheKeys

\* What erase leaves of the index is an index.
LEMMA ErasedType ==
  ASSUME TypeOK
  PROVE  \A S \in SUBSET Calls : Erased(S) \in [Keys -> Calls \cup {None}]
  BY DEF TypeOK, Erased

LEMMA KeyOfType == \A S \in SUBSET Calls : KeyOf(S) \in SUBSET Keys
  BY DEF KeyOf

LEMMA RejectedType ==
  ASSUME TypeOK
  PROVE  \A S \in SUBSET Calls :
           Rejected(S) \in [Calls -> Outcome \cup {"none", "waiting"}]
  BY DEF TypeOK, Rejected, Outcome

LEMMA InitTypeOK == Init => TypeOK
<1> SUFFICES ASSUME Init PROVE TypeOK
  OBVIOUS
<1>1. /\ pc \in [Calls -> {"idle", "selecting", "registering", "sending", "waiting",
                         "joining", "cancelling", "returned"}]
      /\ joined \in [Calls -> Calls \cup {None}]
      /\ answer \in [Calls -> Outcome \cup {"none"}]
      /\ record \in [Calls -> Outcome \cup {"none", "waiting"}]
      /\ byKey \in [Keys -> Calls \cup {None}]
  BY DEF Init
<1>2. /\ frame \in [Calls -> {"none", "accepted", "executing", "ended",
                            "remembering", "replying", "done"}]
      /\ reply \in [Calls -> Outcome \cup {"none"}]
      /\ token \in [Calls -> BOOLEAN]
      /\ cache \in [CacheKeys -> Outcome \cup {"none"}]
      /\ executed \in [CacheKeys -> Nat]
  BY DEF Init
<1>3. starts \in 0 .. MaxStarts
  BY DEF Init
<1> QED  BY <1>1, <1>2, <1>3 DEF Init, TypeOK

\* The steps of call_tool() keep the types.
LEMMA CallTypes ==
  ASSUME TypeOK, NEW c \in Calls, LookUp(c) \/ CallStep(c)
  PROVE  TypeOK'
<1>1. CASE LookUp(c)
  BY <1>1 DEF LookUp, TypeOK, Answer, Goto, broker, runtime, Outcome
<1>2. CASE JoinReturns(c)
  BY <1>2 DEF JoinReturns, TypeOK, Answer, Goto, broker, runtime, Outcome
<1>3. CASE SelectClient(c)
  BY <1>3 DEF SelectClient, TypeOK, Answer, Goto, broker, runtime, Outcome
<1>4. CASE Register(c)
  BY <1>4 DEF Register, TypeOK, Goto, runtime, Outcome
<1>5. CASE Send(c)
  <2>1. [type |-> "call", id |-> c] \in Message
    BY DEF Message
  <2> QED  BY <1>5, <2>1 DEF Send, TypeOK, Goto, broker, runtime
<1>6. CASE SendFails(c)
  BY <1>6, ErasedType DEF SendFails, TypeOK, Answer, Goto, runtime, Outcome
<1>7. CASE Returns(c)
  BY <1>7 DEF Returns, TypeOK, Answer, Goto, broker, runtime, Outcome
<1>8. CASE Timeout(c)
  BY <1>8, ErasedType, KeyOfType DEF Timeout, TypeOK, Goto, runtime, Outcome
<1>9. CASE SendCancel(c)
  <2>1. [type |-> "cancel", id |-> c] \in Message
    BY DEF Message
  <2> QED  BY <1>9, <2>1 DEF SendCancel, TypeOK, Answer, Goto, broker, runtime, Outcome
<1> QED
  BY <1>1, <1>2, <1>3, <1>4, <1>5, <1>6, <1>7, <1>8, <1>9 DEF CallStep

\* So do those of the broker.
LEMMA BrokerTypes ==
  ASSUME TypeOK, BrokerStep
  PROVE  TypeOK'
<1>1. ASSUME NEW c \in Calls, Resolve(c)  PROVE TypeOK'
  BY <1>1, ErasedType, KeyOfType
     DEF Resolve, BrokerReceives, TypeOK, callers, tables, runtime, Outcome
<1>2. ASSUME NEW c \in Calls, Reject(c)  PROVE TypeOK'
  BY <1>2, ErasedType, KeyOfType
     DEF Reject, BrokerReceives, TypeOK, callers, tables, runtime, Outcome
<1>3. CASE RegisterClient
  BY <1>3 DEF RegisterClient, BrokerReceives, TypeOK, callers, tables, runtime
<1>4. CASE UnregisterClient
  BY <1>4 DEF UnregisterClient, BrokerReceives, TypeOK, callers, tables, runtime
<1>5. CASE RejectClient
  <2>1. pending \in SUBSET Calls  BY DEF TypeOK
  <2>2. /\ Rejected(pending) \in [Calls -> Outcome \cup {"none", "waiting"}]
        /\ Erased(pending) \in [Keys -> Calls \cup {None}]
        /\ KeyOf(pending) \in SUBSET Keys
    BY <2>1, RejectedType, ErasedType, KeyOfType
  <2> QED  BY <1>5, <2>2 DEF RejectClient, TypeOK, callers, runtime
<1>6. CASE StopUnsubscribes
  BY <1>6 DEF StopUnsubscribes, TypeOK, callers, tables, runtime
<1>7. CASE StopRejects
  <2>1. pending \in SUBSET Calls  BY DEF TypeOK
  <2>2. Rejected(pending) \in [Calls -> Outcome \cup {"none", "waiting"}]
    BY <2>1, RejectedType
  <2>3. {[type |-> "cancel", id |-> c] : c \in pending} \in SUBSET Message
    BY <2>1 DEF Message
  <2> QED  BY <1>7, <2>2, <2>3 DEF StopRejects, TypeOK, callers, runtime
<1> QED
  BY <1>1, <1>2, <1>3, <1>4, <1>5, <1>6, <1>7 DEF BrokerStep

\* And those of the runtime.
LEMMA RuntimeTypes ==
  ASSUME TypeOK, RuntimeStep
  PROVE  TypeOK'
<1>1. CASE Start
  BY <1>1 DEF Start, Moves, TypeOK, callers, broker, frames
<1>2. CASE SendRegister
  <2>1. [type |-> "register"] \in Message
    BY DEF Message
  <2> QED  BY <1>2, <2>1 DEF SendRegister, Moves, TypeOK, callers, broker, frames
<1>3. CASE Stop
  BY <1>3 DEF Stop, Moves, TypeOK, callers, broker, frames
<1>4. CASE CancelActive
  BY <1>4 DEF CancelActive, Moves, TypeOK, callers, broker
<1>5. CASE Unsubscribe
  BY <1>5 DEF Unsubscribe, Moves, TypeOK, callers, broker, frames
<1>6. CASE SendDisconnect
  <2>1. [type |-> "disconnect"] \in Message
    BY DEF Message
  <2> QED  BY <1>6, <2>1 DEF SendDisconnect, Moves, TypeOK, callers, broker, frames
<1>7. ASSUME NEW c \in Calls, Receive(c)  PROVE TypeOK'
  BY <1>7, CacheKeyType
     DEF Receive, RuntimeReceives, TypeOK, callers, broker, lifetime, Outcome
<1>8. ASSUME NEW c \in Calls, Execute(c)  PROVE TypeOK'
  BY <1>8, CacheKeyType DEF Execute, TypeOK, callers, broker, lifetime
<1>9. ASSUME NEW c \in Calls, NEW outcome \in Outcome, Executed(c, outcome)  PROVE TypeOK'
  BY <1>9 DEF Executed, TypeOK, callers, broker, lifetime
<1>10. ASSUME NEW c \in Calls, Unregister(c)  PROVE TypeOK'
  BY <1>10 DEF Unregister, TypeOK, callers, broker, lifetime, Outcome
<1>11. ASSUME NEW c \in Calls, Remember(c)  PROVE TypeOK'
  <2> DEFINE full == [cache EXCEPT ![CacheKey(c)] = reply[c]]
             stored == {k \in CacheKeys : full[k] # "none"}
  <2>1. full \in [CacheKeys -> Outcome \cup {"none"}]
    BY CacheKeyType DEF TypeOK
  <2>2. cache' = full \/ \E k \in stored : cache' = [full EXCEPT ![k] = "none"]
    BY <1>11 DEF Remember
  <2>3. cache' \in [CacheKeys -> Outcome \cup {"none"}]
    <3> HIDE DEF full
    <3> QED  BY <2>1, <2>2
  <2> QED
    BY <1>11, <2>3 DEF Remember, TypeOK, callers, broker, lifetime
<1>12. ASSUME NEW c \in Calls, SendReply(c)  PROVE TypeOK'
  <2>1. [type |-> IF reply[c] = "ok" THEN "result" ELSE "error", id |-> c] \in Message
    BY DEF Message
  <2> QED  BY <1>12, <2>1 DEF SendReply, TypeOK, callers, broker, lifetime
<1>13. ASSUME NEW c \in Calls, ReceiveCancel(c)  PROVE TypeOK'
  BY <1>13 DEF ReceiveCancel, RuntimeReceives, TypeOK, callers, broker, lifetime
<1> QED
  BY <1>1, <1>2, <1>3, <1>4, <1>5, <1>6, <1>7, <1>8, <1>9, <1>10, <1>11, <1>12, <1>13
     DEF RuntimeStep

LEMMA TypeStep ==
  ASSUME TypeOK, [Next]_vars
  PROVE  TypeOK'
<1>1. CASE Next
  BY <1>1, CallTypes, BrokerTypes, RuntimeTypes DEF Next
<1>2. CASE UNCHANGED vars
  BY <1>2 DEF vars, TypeOK
<1> QED  BY <1>1, <1>2

\* Type correctness of the broker, the runtime and the transport.
THEOREM TypeCorrect == Spec => []TypeOK
<1>1. Init => TypeOK  BY InitTypeOK
<1>2. TypeOK /\ [Next]_vars => TypeOK'  BY TypeStep
<1> QED  BY <1>1, <1>2, PTL DEF Spec
-----------------------------------------------------------------------------
(* The tables agree.                                                       *)

\* The step that completes the pending calls of S, one of them or all, and
\* erases their keys, whatever it puts into their records.
LEMMA Completing ==
  ASSUME TypeOK, PendingAgree, NEW S \in SUBSET Calls,
         pending' = pending \ S, byKey' = Erased(S),
         \A c \in S : record'[c] # "waiting",
         \A c \in Calls \ S : record'[c] = record[c]
  PROVE  PendingAgree'
<1>1. pending' = {c \in Calls : record'[c] = "waiting"}
  BY DEF PendingAgree
<1>2. ASSUME NEW k \in Keys, byKey'[k] # None
      PROVE  byKey'[k] \in pending' /\ Key[byKey'[k]] = k
  <2>1. k \notin KeyOf(S) /\ byKey'[k] = byKey[k]
    BY <1>2 DEF Erased
  <2>2. byKey[k] \in pending /\ Key[byKey[k]] = k
    BY <1>2, <2>1 DEF PendingAgree
  <2>3. byKey[k] \notin S
    BY <2>1, <2>2 DEF KeyOf
  <2> QED  BY <2>1, <2>2, <2>3
<1> QED  BY <1>1, <1>2 DEF PendingAgree

\* A step that leaves the tables alone.
LEMMA Untouched ==
  ASSUME PendingAgree, UNCHANGED <<record, pending, byKey>>
  PROVE  PendingAgree'
  BY DEF PendingAgree

LEMMA AgreeStep ==
  ASSUME TypeOK, PendingAgree, [Next]_vars
  PROVE  PendingAgree'
<1>1. ASSUME NEW c \in Calls, Register(c)  PROVE PendingAgree'
  <2>1. /\ record' = [record EXCEPT ![c] = "waiting"]
        /\ pending' = pending \cup {c}
        /\ byKey' = IF Key[c] = None THEN byKey ELSE [byKey EXCEPT ![Key[c]] = c]
    BY <1>1 DEF Register
  <2>2. pending' = {d \in Calls : record'[d] = "waiting"}
    BY <2>1 DEF TypeOK, PendingAgree
  <2>3. ASSUME NEW k \in Keys, byKey'[k] # None
        PROVE  byKey'[k] \in pending' /\ Key[byKey'[k]] = k
    <3>1. CASE Key[c] = k
      <4>1. byKey'[k] = c  BY <2>1, <3>1 DEF TypeOK
      <4> QED  BY <2>1, <3>1, <4>1
    <3>2. CASE Key[c] # k
      <4>1. byKey'[k] = byKey[k]  BY <2>1, <3>2 DEF TypeOK
      <4> QED  BY <2>1, <2>3, <4>1 DEF PendingAgree
    <3> QED  BY <3>1, <3>2
  <2> QED  BY <2>2, <2>3 DEF PendingAgree
<1>2. ASSUME NEW c \in Calls, SendFails(c) \/ Timeout(c)  PROVE PendingAgree'
  <2>1. /\ pending' = pending \ {c}
        /\ byKey' = Erased({c})
        /\ record' = [record EXCEPT ![c] = "error"]
    BY <1>2 DEF SendFails, Timeout
  <2>2. \A d \in Calls : record'[d] = IF d = c THEN "error" ELSE record[d]
    BY <2>1 DEF TypeOK
  <2> QED  BY <2>1, <2>2, Completing
<1>3. ASSUME NEW c \in Calls, Resolve(c) \/ Reject(c)  PROVE PendingAgree'
  <2>1. CASE UNCHANGED <<record, tables>>
    BY <2>1, Untouched DEF tables
  <2>2. CASE /\ pending' = pending \ {c}
             /\ byKey' = Erased({c})
             /\ \E a \in Outcome : record' = [record EXCEPT ![c] = a]
    <3>1. \E a \in Outcome : \A d \in Calls : record'[d] = IF d = c THEN a ELSE record[d]
      BY <2>2 DEF TypeOK
    <3> QED  BY <2>2, <3>1, Completing DEF Outcome
  <2> QED  BY <1>3, <2>1, <2>2 DEF Resolve, Reject, Outcome
<1>4. CASE RejectClient
  <2>1. pending \in SUBSET Calls  BY DEF TypeOK
  <2>2. /\ pending' = pending \ pending
        /\ byKey' = Erased(pending)
        /\ record' = Rejected(pending)
    BY <1>4 DEF RejectClient
  <2>3. \A c \in Calls : record'[c] = IF c \in pending THEN "error" ELSE record[c]
    BY <2>2 DEF Rejected
  <2> QED  BY <2>1, <2>2, <2>3, Completing
<1>5. CASE StopRejects
  <2>1. /\ pending' = {}
        /\ byKey' = [k \in Keys |-> None]
        /\ record' = Rejected(pending)
    BY <1>5 DEF StopRejects
  <2>2. \A c \in Calls : record'[c] # "waiting"
    BY <2>1 DEF Rejected, PendingAgree
  <2> QED  BY <2>1, <2>2 DEF PendingAgree
<1>6. ASSUME NEW c \in Calls, \/ LookUp(c) \/ JoinReturns(c) \/ SelectClient(c)
                              \/ Send(c) \/ Returns(c) \/ SendCancel(c)
      PROVE  PendingAgree'
  BY <1>6, Untouched DEF LookUp, JoinReturns, SelectClient, Send, Returns, SendCancel, broker
<1>7. CASE RegisterClient \/ UnregisterClient \/ StopUnsubscribes
  BY <1>7, Untouched DEF RegisterClient, UnregisterClient, StopUnsubscribes, tables
<1>8. CASE RuntimeStep
  BY <1>8, Untouched
     DEF RuntimeStep, Start, SendRegister, Stop, CancelActive, Unsubscribe, SendDisconnect,
         Receive, Execute, Executed, Unregister, Remember, SendReply, ReceiveCancel, broker
<1>9. CASE UNCHANGED vars
  BY <1>9, Untouched DEF vars
<1> QED
  BY <1>1, <1>2, <1>3, <1>4, <1>5, <1>6, <1>7, <1>8, <1>9 DEF Next, CallStep, BrokerStep

\* The pending calls are those somebody waits for and the index leads only to
\* them, for any number of calls and keys: every completion erases the index by
\* key, and never an entry that it should keep.
THEOREM TablesAgree == Spec => []PendingAgree
<1>1. Init => TypeOK /\ PendingAgree
  BY InitTypeOK DEF Init, PendingAgree
<1>2. TypeOK /\ PendingAgree /\ [Next]_vars => (TypeOK /\ PendingAgree)'
  BY TypeStep, AgreeStep
<1> QED  BY <1>1, <1>2, PTL DEF Spec
-----------------------------------------------------------------------------
(* A tool is executed once for a key.                                      *)

CallMessage(c) == [type |-> "call", id |-> c]

Beginning == {"selecting", "registering"}
Began     == {"executing", "ended", "remembering", "replying", "done"}

\* The client can still be sent c, or has been.
Claimed(c) ==
  \/ pc[c] \in {"sending", "waiting", "cancelling"}
  \/ CallMessage(c) \in net
  \/ frame[c] # "none"

\* A call that waits for another's registration has not begun before it.
OrderKept ==
  \A c \in Calls : After[c] # None /\ pc[c] # "idle" => Registered(After[c])

\* A call is sent once, by the caller's step from "sending".
SentOnce ==
  \A c \in Calls :
    CallMessage(c) \in net \/ frame[c] # "none" =>
      /\ pc[c] \in {"waiting", "cancelling", "returned"}
      /\ CallMessage(c) \in net => frame[c] = "none"

\* The key of a call that may be executed can be found in one of the tables ...
ClaimKnown ==
  \A c \in Calls :
    Key[c] \in Ordered /\ Claimed(c) => byKey[Key[c]] = c \/ Key[c] \in results \cup errors

\* ... so that no other call with the key gets past them.
ClaimAlone ==
  \A c, d \in Calls :
    Key[c] \in Ordered /\ Key[d] = Key[c] /\ c # d /\ Claimed(c)
      => ~Claimed(d) /\ pc[d] \notin Beginning

\* What has been executed has been executed for a call that is claimed.
ExecutedOnce ==
  \A k \in Ordered :
    \/ executed[k] = 0
    \/ executed[k] = 1 /\ \E c \in Calls : Key[c] = k /\ frame[c] \in Began

EffectInv ==
  /\ OrderKept /\ SentOnce
  /\ stopper = "idle" => ClaimKnown /\ ClaimAlone /\ ExecutedOnce

\* What a step may do to where a call stands, in call_tool(), on its way and in
\* the runtime.
LEMMA Steps ==
  ASSUME TypeOK, SentOnce, [Next]_vars, NEW c \in Calls
  PROVE  /\ pc'[c] # pc[c] => LookUp(c) \/ CallStep(c)
         /\ CallMessage(c) \in net' => CallMessage(c) \in net \/ Send(c)
         /\ frame'[c] # frame[c] /\ frame[c] = "none" => Receive(c)
         /\ frame[c] # "none" => frame'[c] # "none"
         /\ frame[c] \in Began => frame'[c] \in Began
<1>1. ASSUME NEW d \in Calls, LookUp(d) \/ CallStep(d)
      PROVE  /\ c # d => pc'[c] = pc[c]
             /\ CallMessage(c) \in net' => CallMessage(c) \in net \/ Send(c)
             /\ UNCHANGED frame
  BY <1>1
     DEF LookUp, CallStep, JoinReturns, SelectClient, Register, Send, SendFails, Returns,
         Timeout, SendCancel, Answer, Goto, TypeOK, runtime, broker, CallMessage
<1>2. CASE BrokerStep
  <2>1. UNCHANGED <<pc, frame>>
    BY <1>2
       DEF BrokerStep, Resolve, Reject, RegisterClient, UnregisterClient, RejectClient,
           StopUnsubscribes, StopRejects, callers, runtime
  <2>2. CallMessage(c) \in net' => CallMessage(c) \in net
    <3>1. CASE StopRejects
      <4>1. net' = net \cup {[type |-> "cancel", id |-> d] : d \in pending}
        BY <3>1 DEF StopRejects
      <4>2. \A d \in pending : [type |-> "cancel", id |-> d] # CallMessage(c)
        BY DEF CallMessage
      <4> HIDE DEF CallMessage
      <4> QED  BY <4>1, <4>2
    <3>2. CASE ~StopRejects
      BY <1>2, <3>2
         DEF BrokerStep, Resolve, Reject, RegisterClient, UnregisterClient, RejectClient,
             StopUnsubscribes, BrokerReceives
    <3> QED  BY <3>1, <3>2
  <2> QED  BY <2>1, <2>2
<1>3. ASSUME RuntimeStep
      PROVE  UNCHANGED pc /\ (CallMessage(c) \in net' => CallMessage(c) \in net)
  BY <1>3
     DEF RuntimeStep, Start, SendRegister, Stop, CancelActive, Unsubscribe, SendDisconnect,
         Receive, Execute, Executed, Unregister, Remember, SendReply, ReceiveCancel,
         RuntimeReceives, callers, CallMessage
<1>4. ASSUME RuntimeStep
      PROVE  /\ frame'[c] # frame[c] /\ frame[c] = "none" => Receive(c)
             /\ frame[c] # "none" => frame'[c] # "none"
             /\ frame[c] \in Began => frame'[c] \in Began
  <2>1. CASE UNCHANGED frame
    BY <2>1
  <2>2. ASSUME NEW d \in Calls, Receive(d)
        PROVE  frame'[c] = frame[c] \/ (frame[c] = "none" /\ frame'[c] # "none" /\ Receive(c))
    <3>1. frame[d] = "none"
      BY <2>2 DEF Receive, RuntimeReceives, SentOnce, CallMessage
    <3>2. \E f \in {"replying", "accepted"} : frame' = [frame EXCEPT ![d] = f]
      BY <2>2 DEF Receive
    <3> QED  BY <2>2, <3>1, <3>2 DEF TypeOK
  <2>3. ASSUME NEW d \in Calls,
               \/ Execute(d) \/ (\E outcome \in Outcome : Executed(d, outcome))
               \/ Unregister(d) \/ Remember(d) \/ SendReply(d)
        PROVE  frame'[c] = frame[c] \/ (frame[c] # "none" /\ frame'[c] \in Began)
    <3>1. /\ frame[d] # "none"
          /\ \E f \in Began : frame' = [frame EXCEPT ![d] = f]
      BY <2>3 DEF Execute, Executed, Unregister, Remember, SendReply, Began
    <3> QED  BY <3>1 DEF TypeOK
  <2>4. \/ UNCHANGED frame
        \/ \E d \in Calls :
             \/ Receive(d) \/ Execute(d) \/ (\E outcome \in Outcome : Executed(d, outcome))
             \/ Unregister(d) \/ Remember(d) \/ SendReply(d)
    BY <1>4
       DEF RuntimeStep, Start, SendRegister, Stop, CancelActive, Unsubscribe,
           SendDisconnect, ReceiveCancel, frames
  <2> QED  BY <2>1, <2>2, <2>3, <2>4 DEF Began
<1> QED
  BY <1>1, <1>2, <1>3, <1>4 DEF Next, vars

LEMMA OrderStep ==
  ASSUME TypeOK, SentOnce, OrderKept, [Next]_vars
  PROVE  OrderKept'
<1> SUFFICES ASSUME NEW c \in Calls, After[c] # None, pc'[c] # "idle"
             PROVE  Registered(After[c])'
  BY DEF OrderKept
<1> DEFINE a == After[c]
<1>1. a \in Calls
  OBVIOUS
<1>2. Registered(a)
  <2>1. CASE pc'[c] = pc[c]
    BY <2>1 DEF OrderKept
  <2>2. CASE LookUp(c)
    BY <2>2 DEF LookUp
  <2>3. CASE CallStep(c)
    BY <2>3
       DEF OrderKept, CallStep, JoinReturns, SelectClient, Register, Send, SendFails,
           Returns, Timeout, SendCancel, Answer, Goto
  <2> QED  BY <2>1, <2>2, <2>3, Steps
<1>3. CASE LookUp(a) \/ CallStep(a)
  BY <1>1, <1>2, <1>3
     DEF LookUp, CallStep, JoinReturns, SelectClient, Register, Send, SendFails, Returns,
         Timeout, SendCancel, Answer, Goto, Registered, TypeOK
<1> QED  BY <1>1, <1>2, <1>3, Steps DEF Registered

LEMMA SentStep ==
  ASSUME TypeOK, SentOnce, [Next]_vars
  PROVE  SentOnce'
<1> SUFFICES ASSUME NEW c \in Calls, CallMessage(c) \in net' \/ frame'[c] # "none"
             PROVE  /\ pc'[c] \in {"waiting", "cancelling", "returned"}
                    /\ CallMessage(c) \in net' => frame'[c] = "none"
  BY DEF SentOnce, CallMessage
<1>1. CASE Send(c)
  BY <1>1 DEF Send, Goto, TypeOK, SentOnce, runtime
<1>2. CASE ~Send(c)
  <2>1. CallMessage(c) \in net \/ frame[c] # "none"
    BY <1>2, Steps DEF Receive, RuntimeReceives, CallMessage
  <2>2. pc'[c] \in {"waiting", "cancelling", "returned"}
    <3>1. pc[c] \in {"waiting", "cancelling", "returned"}
      BY <2>1 DEF SentOnce
    <3>2. CASE LookUp(c) \/ CallStep(c)
      BY <3>1, <3>2
         DEF LookUp, CallStep, JoinReturns, SelectClient, Register, Send, SendFails,
             Returns, Timeout, SendCancel, Answer, Goto, TypeOK
    <3> QED  BY <3>1, <3>2, Steps
  <2>3. ASSUME CallMessage(c) \in net'  PROVE frame'[c] = "none"
    <3>1. CallMessage(c) \in net /\ frame[c] = "none"
      BY <1>2, <2>3, Steps DEF SentOnce
    <3>2. ~Receive(c)
      BY <2>3 DEF Receive, RuntimeReceives, CallMessage
    <3> QED  BY <3>1, <3>2, Steps
  <2> QED  BY <2>2, <2>3
<1> QED  BY <1>1, <1>2

\* A claim begins with the registration, and a look at the tables precedes it.
LEMMA Claims ==
  ASSUME TypeOK, SentOnce, [Next]_vars, NEW c \in Calls
  PROVE  /\ Claimed(c)' /\ ~Claimed(c) => Register(c)
         /\ pc'[c] \in Beginning /\ pc[c] \notin Beginning =>
              /\ pc[c] = "idle"
              /\ Key[c] \notin results \cup errors
              /\ Key[c] \in Keys => byKey[Key[c]] = None
<1>1. ASSUME Claimed(c)', ~Claimed(c)  PROVE Register(c)
  <2>1. CallMessage(c) \notin net'
    BY <1>1, Steps DEF Claimed, Send, Goto
  <2>2. frame'[c] = "none"
    BY <1>1, Steps DEF Claimed, Receive, RuntimeReceives, CallMessage
  <2>3. pc'[c] \in {"sending", "waiting", "cancelling"} /\ pc'[c] # pc[c]
    BY <1>1, <2>1, <2>2 DEF Claimed, CallMessage
  <2>4. LookUp(c) \/ CallStep(c)
    BY <2>3, Steps
  <2> QED
    BY <1>1, <2>3, <2>4
       DEF LookUp, CallStep, JoinReturns, SelectClient, Send, SendFails, Returns, Timeout,
           SendCancel, Answer, Goto, TypeOK, Claimed
<1>2. ASSUME pc'[c] \in Beginning, pc[c] \notin Beginning
      PROVE  /\ pc[c] = "idle"
             /\ Key[c] \notin results \cup errors
             /\ Key[c] \in Keys => byKey[Key[c]] = None
  <2>1. LookUp(c) \/ CallStep(c)
    BY <1>2, Steps
  <2> QED
    BY <1>2, <2>1
       DEF LookUp, CallStep, JoinReturns, SelectClient, Register, Send, SendFails, Returns,
           Timeout, SendCancel, Answer, Goto, TypeOK, Beginning
<1> QED  BY <1>1, <1>2

LEMMA OrderedType == Ordered \in SUBSET Keys
  BY DEF Ordered

LEMMA AloneStep ==
  ASSUME TypeOK, SentOnce, OrderKept, ClaimKnown, ClaimAlone, [Next]_vars
  PROVE  ClaimAlone'
<1> SUFFICES ASSUME NEW c \in Calls, NEW d \in Calls, Key[c] \in Ordered,
                    Key[d] = Key[c], c # d, Claimed(c)'
             PROVE  ~Claimed(d)' /\ pc'[d] \notin Beginning
  BY DEF ClaimAlone, Ordered
<1>1. CASE Claimed(c)
  <2>1. ~Claimed(d) /\ pc[d] \notin Beginning
    BY <1>1 DEF ClaimAlone
  <2>2. byKey[Key[c]] = c \/ Key[c] \in results \cup errors
    BY <1>1 DEF ClaimKnown
  <2>3. ~Claimed(d)'
    BY <2>1, Claims DEF Register, Goto, Beginning
  <2>4. pc'[d] \notin Beginning
    BY <2>1, <2>2, Claims, OrderedType
  <2> QED  BY <2>3, <2>4
<1>2. CASE ~Claimed(c)
  <2>1. Register(c) /\ pc[c] \in Beginning
    BY <1>2, Claims DEF Register, Goto, Beginning
  <2>2. ~Claimed(d)
    BY <2>1 DEF ClaimAlone
  <2>3. pc[d] \notin Beginning
    BY <2>1 DEF OrderKept, Ordered, Registered, Beginning
  <2>4. pc'[d] = pc[d]
    BY <2>1 DEF Register, Goto, TypeOK
  <2> QED  BY <2>2, <2>3, <2>4, Claims DEF Register, Goto, Beginning
<1> QED  BY <1>1, <1>2

\* An index entry that goes leaves the key in a store, unless a registration
\* or a failed send took it.
LEMMA Entries ==
  ASSUME TypeOK, [Next]_vars, stopper' = "idle", NEW k \in Keys
  PROVE  /\ results \subseteq results' /\ errors \subseteq errors'
         /\ \/ byKey'[k] = byKey[k]
            \/ k \in results' \cup errors'
            \/ \E d \in Calls : Key[d] = k /\ (Register(d) \/ SendFails(d))
<1> DEFINE Goal == /\ results \subseteq results' /\ errors \subseteq errors'
                   /\ \/ byKey'[k] = byKey[k]
                      \/ k \in results' \cup errors'
                      \/ \E d \in Calls : Key[d] = k /\ (Register(d) \/ SendFails(d))
<1>1. ASSUME NEW d \in Calls, Register(d)  PROVE Goal
  BY <1>1 DEF Register, TypeOK
<1>2. ASSUME NEW d \in Calls, SendFails(d)  PROVE Goal
  BY <1>2 DEF SendFails, Erased, KeyOf
<1>3. ASSUME NEW d \in Calls, Timeout(d)  PROVE Goal
  BY <1>3 DEF Timeout, Erased
<1>4. ASSUME NEW d \in Calls, Resolve(d) \/ Reject(d)  PROVE Goal
  BY <1>4 DEF Resolve, Reject, Erased, tables
<1>5. CASE RejectClient
  BY <1>5 DEF RejectClient, Erased
<1>6. CASE StopUnsubscribes \/ StopRejects
  BY <1>6 DEF StopUnsubscribes, StopRejects
<1>7. ASSUME NEW d \in Calls, \/ LookUp(d) \/ JoinReturns(d) \/ SelectClient(d)
                              \/ Send(d) \/ Returns(d) \/ SendCancel(d)
      PROVE  Goal
  BY <1>7 DEF LookUp, JoinReturns, SelectClient, Send, Returns, SendCancel, broker
<1>8. CASE RegisterClient \/ UnregisterClient
  BY <1>8 DEF RegisterClient, UnregisterClient, tables
<1>9. CASE RuntimeStep
  BY <1>9
     DEF RuntimeStep, Start, SendRegister, Stop, CancelActive, Unsubscribe, SendDisconnect,
         Receive, Execute, Executed, Unregister, Remember, SendReply, ReceiveCancel, broker
<1>10. CASE UNCHANGED vars
  BY <1>10 DEF vars
<1> QED
  BY <1>1, <1>2, <1>3, <1>4, <1>5, <1>6, <1>7, <1>8, <1>9, <1>10
     DEF Next, CallStep, BrokerStep

LEMMA KnownStep ==
  ASSUME TypeOK, SentOnce, ClaimKnown, ClaimAlone, [Next]_vars, stopper' = "idle"
  PROVE  ClaimKnown'
<1> SUFFICES ASSUME NEW c \in Calls, Key[c] \in Ordered, Claimed(c)'
             PROVE  byKey'[Key[c]] = c \/ Key[c] \in results' \cup errors'
  BY DEF ClaimKnown, Ordered
<1>1. CASE Register(c)
  BY <1>1, OrderedType DEF Register, TypeOK
<1>2. CASE ~Register(c)
  <2>1. Claimed(c)
    BY <1>2, Claims
  <2>2. byKey[Key[c]] = c \/ Key[c] \in results \cup errors
    BY <2>1 DEF ClaimKnown
  <2>3. ~SendFails(c)
    <3>1. ASSUME SendFails(c)  PROVE ~Claimed(c)'
      BY <3>1 DEF SendFails, Answer, Goto, TypeOK, SentOnce, Claimed, CallMessage, runtime
    <3> QED  BY <3>1
  <2>4. ASSUME NEW d \in Calls, Key[d] = Key[c], d # c  PROVE ~Register(d) /\ ~SendFails(d)
    BY <2>1, <2>4
       DEF ClaimAlone, Register, SendFails, Answer, Goto, Claimed, Beginning
  <2> QED  BY <1>2, <2>2, <2>3, <2>4, Entries, OrderedType
<1> QED  BY <1>1, <1>2

LEMMA ExecutedStep ==
  ASSUME TypeOK, SentOnce, ClaimAlone, ExecutedOnce, [Next]_vars
  PROVE  ExecutedOnce'
<1> SUFFICES ASSUME NEW k \in Ordered
             PROVE  \/ executed'[k] = 0
                    \/ executed'[k] = 1 /\ \E c \in Calls : Key[c] = k /\ frame'[c] \in Began
  BY DEF ExecutedOnce, Ordered
<1>1. k \in Keys /\ k \in CacheKeys
  BY OrderedType DEF CacheKeys
<1>2. ASSUME NEW c \in Calls, Execute(c), Key[c] = k
      PROVE  executed'[k] = 1 /\ frame'[c] \in Began
  <2>1. CacheKey(c) = k
    BY <1>1, <1>2 DEF CacheKey
  <2>2. executed[k] = 0
    <3>1. ASSUME NEW d \in Calls, Key[d] = k, frame[d] \in Began  PROVE FALSE
      <4>1. d # c /\ Claimed(d) /\ Claimed(c)
        BY <1>2, <3>1 DEF Execute, Began, Claimed
      <4> QED  BY <1>2, <3>1, <4>1 DEF ClaimAlone
    <3> QED  BY <3>1 DEF ExecutedOnce
  <2> QED  BY <1>1, <1>2, <2>1, <2>2 DEF Execute, TypeOK, Began
<1>3. CASE executed'[k] = executed[k]
  BY <1>3, Steps DEF ExecutedOnce
<1>4. \/ executed'[k] = executed[k]
      \/ \E c \in Calls : Execute(c) /\ Key[c] = k
  <2>1. ASSUME NEW c \in Calls, Execute(c), Key[c] # k  PROVE executed'[k] = executed[k]
    <3>1. CacheKey(c) # k
      BY <1>1, <2>1 DEF CacheKey
    <3> QED  BY <1>1, <2>1, <3>1 DEF Execute, TypeOK
  <2>2. (\E c \in Calls : Execute(c)) \/ UNCHANGED executed
    <3>1. CASE BrokerStep
      BY <3>1
         DEF BrokerStep, Resolve, Reject, RegisterClient, UnregisterClient, RejectClient,
             StopUnsubscribes, StopRejects, runtime
    <3>2. ASSUME NEW c \in Calls, LookUp(c) \/ CallStep(c)  PROVE UNCHANGED executed
      BY <3>2
         DEF LookUp, CallStep, JoinReturns, SelectClient, Register, Send, SendFails,
             Returns, Timeout, SendCancel, runtime
    <3>3. CASE RuntimeStep
      BY <3>3
         DEF RuntimeStep, Start, SendRegister, Stop, CancelActive, Unsubscribe,
             SendDisconnect, Receive, Executed, Unregister, Remember, SendReply, ReceiveCancel
    <3> QED  BY <3>1, <3>2, <3>3 DEF Next, vars
  <2> QED  BY <2>1, <2>2
<1> QED  BY <1>2, <1>3, <1>4

\* A broker that is running was running before.
LEMMA StillRunning ==
  ASSUME [Next]_vars, stopper' = "idle"
  PROVE  stopper = "idle"
<1>1. CASE BrokerStep
  BY <1>1
     DEF BrokerStep, Resolve, Reject, RegisterClient, UnregisterClient, RejectClient,
         StopUnsubscribes, StopRejects
<1>2. ASSUME NEW c \in Calls, LookUp(c) \/ CallStep(c)  PROVE UNCHANGED stopper
  BY <1>2
     DEF LookUp, CallStep, JoinReturns, SelectClient, Register, Send, SendFails, Returns,
         Timeout, SendCancel, broker
<1>3. CASE RuntimeStep
  BY <1>3
     DEF RuntimeStep, Start, SendRegister, Stop, CancelActive, Unsubscribe, SendDisconnect,
         Receive, Execute, Executed, Unregister, Remember, SendReply, ReceiveCancel, broker
<1> QED  BY <1>1, <1>2, <1>3 DEF Next, vars

\* Until the broker is stopped a tool is executed at most once for a key whose
\* calls are ordered: for any number of calls, keys and restarts of the runtime,
\* any size of its cache, and whatever the transport loses, delays or reorders.
THEOREM ExecutesOnce == Spec => []EffectOnce
<1>1. Init => TypeOK /\ EffectInv
  <2> SUFFICES ASSUME Init PROVE TypeOK /\ EffectInv
    OBVIOUS
  <2>1. TypeOK
    BY InitTypeOK
  <2>2. \A c \in Calls : ~Claimed(c) /\ pc[c] = "idle" /\ frame[c] = "none" /\ net = {}
    BY DEF Init, Claimed
  <2>3. \A k \in Ordered : executed[k] = 0
    BY OrderedType DEF Init, CacheKeys
  <2> QED
    BY <2>1, <2>2, <2>3
       DEF EffectInv, OrderKept, SentOnce, ClaimKnown, ClaimAlone, ExecutedOnce
<1>2. TypeOK /\ EffectInv /\ [Next]_vars => (TypeOK /\ EffectInv)'
  BY TypeStep, OrderStep, SentStep, KnownStep, AloneStep, ExecutedStep, StillRunning
     DEF EffectInv
<1>3. EffectInv => EffectOnce
  BY DEF EffectInv, ExecutedOnce, EffectOnce
<1> QED  BY <1>1, <1>2, <1>3, PTL DEF Spec
-----------------------------------------------------------------------------
(* A retry is answered as the call it repeats.                             *)

ResultMessage(c) == [type |-> "result", id |-> c]

\* Calls that each wait for the next one's registration never begin.
Circular ==
  \A c, d, e \in Calls : After[d] = c /\ After[e] = d /\ After[c] = e => pc[c] = "idle"

\* A call has a record from its registration on, and returns what it says.
Recorded ==
  \A c \in Calls :
    /\ pc[c] \in {"idle", "joining"} \cup Beginning => record[c] = "none"
    /\ record[c] = "none" => pc[c] \in {"idle", "joining", "returned"} \cup Beginning
    /\ pc[c] = "sending" => record[c] # "ok"
    /\ pc[c] = "cancelling" => record[c] = "error"
    /\ pc[c] = "returned" /\ record[c] # "none" => answer[c] = record[c]
    /\ ResultMessage(c) \in net => frame[c] # "none"

\* d repeats c and has not been registered itself.
Repeats(c, d) ==
  /\ Key[c] \in Ordered /\ Key[d] = Key[c] /\ c # d
  /\ After[d] = c
  /\ record[d] = "none"

\* Where a repeated call stands, the tables say, and the repeating one follows
\* them.
RetryKnown ==
  \A c, d \in Calls : Repeats(c, d) =>
    /\ record[c] \in {"none", "waiting"} => Key[c] \notin results \cup errors
    /\ record[c] = "waiting" => byKey[Key[c]] = c
    /\ record[c] = "ok" => Key[c] \in results
    /\ record[c] = "error" => Key[c] \notin results
    /\ pc[d] \in Beginning /\ record[c] # "none" => record[c] = "error"
    /\ pc[d] = "joining" => joined[d] = c
    /\ pc[d] = "returned" /\ record[c] # "none" => answer[d] = record[c]

RetryInv ==
  /\ PendingAgree /\ OrderKept /\ SentOnce /\ Circular /\ Recorded
  /\ stopper = "idle" => RetryKnown

LEMMA CircularStep ==
  ASSUME TypeOK, SentOnce, OrderKept, Circular, [Next]_vars
  PROVE  Circular'
<1> SUFFICES ASSUME NEW c \in Calls, NEW d \in Calls, NEW e \in Calls,
                    After[d] = c, After[e] = d, After[c] = e, pc'[c] # "idle"
             PROVE  FALSE
  BY DEF Circular
<1>1. pc[c] = "idle" /\ pc[e] = "idle"
  BY DEF Circular
<1>2. LookUp(c)
  BY <1>1, Steps
     DEF CallStep, JoinReturns, SelectClient, Register, Send, SendFails, Returns, Timeout,
         SendCancel, Answer, Goto
<1> QED  BY <1>1, <1>2 DEF LookUp, Registered

\* How a record changes: it is made, it is completed once, well only by a result,
\* and then it stays.
LEMMA RecordSteps ==
  ASSUME TypeOK, PendingAgree, SentOnce, Recorded, [Next]_vars, NEW c \in Calls
  PROVE  \/ record'[c] = record[c]
         \/ Register(c) /\ record[c] = "none" /\ record'[c] = "waiting"
         \/ /\ c \in pending /\ record[c] = "waiting" /\ record'[c] \in Outcome
            /\ record'[c] = "ok" => ResultMessage(c) \in net
<1> DEFINE Goal == \/ record'[c] = record[c]
                   \/ Register(c) /\ record[c] = "none" /\ record'[c] = "waiting"
                   \/ /\ c \in pending /\ record[c] = "waiting" /\ record'[c] \in Outcome
                      /\ record'[c] = "ok" => ResultMessage(c) \in net
<1>1. ASSUME NEW d \in Calls, Register(d)  PROVE Goal
  BY <1>1 DEF Register, Goto, TypeOK, Recorded, Beginning
<1>2. ASSUME NEW d \in Calls, SendFails(d)  PROVE Goal
  <2>1. record[d] \in {"waiting", "error"}
    BY <1>2 DEF SendFails, Answer, Goto, TypeOK, Recorded, Beginning, Outcome
  <2> QED  BY <1>2, <2>1 DEF SendFails, TypeOK, Outcome, PendingAgree
<1>3. ASSUME NEW d \in Calls, Timeout(d)  PROVE Goal
  BY <1>3 DEF Timeout, TypeOK, Outcome, PendingAgree
<1>4. ASSUME NEW d \in Calls, Resolve(d) \/ Reject(d)  PROVE Goal
  BY <1>4 DEF Resolve, Reject, BrokerReceives, ResultMessage, TypeOK, Outcome, PendingAgree
<1>5. CASE RejectClient \/ StopRejects
  BY <1>5 DEF RejectClient, StopRejects, Rejected, Outcome, PendingAgree
<1>6. ASSUME NEW d \in Calls, \/ LookUp(d) \/ JoinReturns(d) \/ SelectClient(d)
                              \/ Send(d) \/ Returns(d) \/ SendCancel(d)
      PROVE  Goal
  BY <1>6 DEF LookUp, JoinReturns, SelectClient, Send, Returns, SendCancel, broker
<1>7. CASE RegisterClient \/ UnregisterClient \/ StopUnsubscribes
  BY <1>7 DEF RegisterClient, UnregisterClient, StopUnsubscribes
<1>8. CASE RuntimeStep
  BY <1>8
     DEF RuntimeStep, Start, SendRegister, Stop, CancelActive, Unsubscribe, SendDisconnect,
         Receive, Execute, Executed, Unregister, Remember, SendReply, ReceiveCancel, broker
<1>9. CASE UNCHANGED vars
  BY <1>9 DEF vars
<1> QED
  BY <1>1, <1>2, <1>3, <1>4, <1>5, <1>6, <1>7, <1>8, <1>9 DEF Next, CallStep, BrokerStep

\* A result is stored with the record of a call that was pending, and so is an
\* error, except that of a call that could not be sent.
LEMMA Stores ==
  ASSUME TypeOK, PendingAgree, [Next]_vars, stopper' = "idle"
  PROVE  /\ \A k \in results' \ results :
              \E x \in pending : Key[x] = k /\ record'[x] = "ok"
         /\ \A k \in errors' \ errors :
              \E x \in pending : Key[x] = k /\ record'[x] = "error"
         /\ \A x \in pending : record'[x] = "ok" /\ Key[x] \in Keys => Key[x] \in results'
<1> DEFINE Goal ==
      /\ \A k \in results' \ results :
           \E x \in pending : Key[x] = k /\ record'[x] = "ok"
      /\ \A k \in errors' \ errors :
           \E x \in pending : Key[x] = k /\ record'[x] = "error"
      /\ \A x \in pending : record'[x] = "ok" /\ Key[x] \in Keys => Key[x] \in results'
<1>0. /\ \A x \in pending : x \in Calls /\ record[x] = "waiting"
      /\ \A x \in Calls : record[x] = "waiting" => x \in pending
  BY DEF PendingAgree
<1>1. ASSUME NEW d \in Calls, Register(d)  PROVE Goal
  BY <1>0, <1>1 DEF Register, TypeOK
<1>2. ASSUME NEW d \in Calls, SendFails(d)  PROVE Goal
  BY <1>0, <1>2 DEF SendFails, TypeOK
<1>3. ASSUME NEW d \in Calls, Timeout(d)  PROVE Goal
  BY <1>0, <1>3 DEF Timeout, KeyOf, TypeOK
<1>4. ASSUME NEW d \in Calls, Resolve(d)  PROVE Goal
  <2>1. CASE UNCHANGED <<record, tables>>
    BY <1>0, <2>1 DEF tables
  <2>2. CASE /\ d \in pending
             /\ record' = [record EXCEPT ![d] = "ok"]
             /\ results' = results \cup KeyOf({d})
             /\ UNCHANGED errors
    BY <1>0, <2>2 DEF KeyOf, TypeOK
  <2> QED  BY <1>4, <2>1, <2>2 DEF Resolve
<1>5. ASSUME NEW d \in Calls, Reject(d)  PROVE Goal
  <2>1. CASE UNCHANGED <<record, tables>>
    BY <1>0, <2>1 DEF tables
  <2>2. CASE /\ d \in pending
             /\ record' = [record EXCEPT ![d] = "error"]
             /\ errors' = errors \cup KeyOf({d})
             /\ UNCHANGED results
    BY <1>0, <2>2 DEF KeyOf, TypeOK
  <2> QED  BY <1>5, <2>1, <2>2 DEF Reject
<1>6. CASE RejectClient
  BY <1>0, <1>6 DEF RejectClient, Rejected, KeyOf
<1>7. CASE StopUnsubscribes \/ StopRejects
  BY <1>7 DEF StopUnsubscribes, StopRejects
<1>8. ASSUME NEW d \in Calls, \/ LookUp(d) \/ JoinReturns(d) \/ SelectClient(d)
                              \/ Send(d) \/ Returns(d) \/ SendCancel(d)
      PROVE  Goal
  BY <1>0, <1>8 DEF LookUp, JoinReturns, SelectClient, Send, Returns, SendCancel, broker
<1>9. CASE RegisterClient \/ UnregisterClient
  BY <1>0, <1>9 DEF RegisterClient, UnregisterClient, tables
<1>10. CASE RuntimeStep
  BY <1>0, <1>10
     DEF RuntimeStep, Start, SendRegister, Stop, CancelActive, Unsubscribe, SendDisconnect,
         Receive, Execute, Executed, Unregister, Remember, SendReply, ReceiveCancel, broker
<1>11. CASE UNCHANGED vars
  BY <1>0, <1>11 DEF vars
<1> QED
  BY <1>1, <1>2, <1>3, <1>4, <1>5, <1>6, <1>7, <1>8, <1>9, <1>10, <1>11
     DEF Next, CallStep, BrokerStep

\* What belongs to the thread of c, nobody else changes.
LEMMA OwnSteps ==
  ASSUME TypeOK, [Next]_vars, NEW c \in Calls, ~LookUp(c), ~CallStep(c)
  PROVE  pc'[c] = pc[c] /\ joined'[c] = joined[c] /\ answer'[c] = answer[c]
<1>1. ASSUME NEW d \in Calls, d # c, LookUp(d) \/ CallStep(d)
      PROVE  pc'[c] = pc[c] /\ joined'[c] = joined[c] /\ answer'[c] = answer[c]
  BY <1>1
     DEF LookUp, CallStep, JoinReturns, SelectClient, Register, Send, SendFails, Returns,
         Timeout, SendCancel, Answer, Goto, TypeOK
<1>2. CASE BrokerStep
  BY <1>2
     DEF BrokerStep, Resolve, Reject, RegisterClient, UnregisterClient, RejectClient,
         StopUnsubscribes, StopRejects, callers
<1>3. CASE RuntimeStep
  BY <1>3
     DEF RuntimeStep, Start, SendRegister, Stop, CancelActive, Unsubscribe, SendDisconnect,
         Receive, Execute, Executed, Unregister, Remember, SendReply, ReceiveCancel, callers
<1> QED  BY <1>1, <1>2, <1>3 DEF Next, vars

\* A result comes from the runtime.
LEMMA Results ==
  ASSUME TypeOK, [Next]_vars, NEW c \in Calls, ResultMessage(c) \in net'
  PROVE  ResultMessage(c) \in net \/ SendReply(c)
<1>1. ASSUME NEW d \in Calls, LookUp(d) \/ CallStep(d)  PROVE ResultMessage(c) \in net
  BY <1>1
     DEF LookUp, CallStep, JoinReturns, SelectClient, Register, Send, SendFails, Returns,
         Timeout, SendCancel, broker, ResultMessage
<1>2. CASE StopRejects
  <2>1. net' = net \cup {[type |-> "cancel", id |-> d] : d \in pending}
    BY <1>2 DEF StopRejects
  <2>2. \A d \in pending : [type |-> "cancel", id |-> d] # ResultMessage(c)
    BY DEF ResultMessage
  <2> HIDE DEF ResultMessage
  <2> QED  BY <2>1, <2>2
<1>3. CASE BrokerStep /\ ~StopRejects
  BY <1>3
     DEF BrokerStep, Resolve, Reject, RegisterClient, UnregisterClient, RejectClient,
         StopUnsubscribes, BrokerReceives
<1>4. ASSUME NEW d \in Calls, SendReply(d)  PROVE ResultMessage(c) \in net \/ SendReply(c)
  <2>1. d # c => [type |-> IF reply[d] = "ok" THEN "result" ELSE "error", id |-> d] # ResultMessage(c)
    BY DEF ResultMessage
  <2> HIDE DEF ResultMessage
  <2> QED  BY <1>4, <2>1 DEF SendReply
<1>5. CASE RuntimeStep /\ ~(\E d \in Calls : SendReply(d))
  <2>1. /\ ResultMessage(c) # [type |-> "register"]
        /\ ResultMessage(c) # [type |-> "disconnect"]
    BY DEF ResultMessage
  <2> HIDE DEF ResultMessage
  <2> QED
    BY <1>5, <2>1
       DEF RuntimeStep, Start, SendRegister, Stop, CancelActive, Unsubscribe, SendDisconnect,
           Receive, Execute, Executed, Unregister, Remember, ReceiveCancel, RuntimeReceives
<1>6. CASE UNCHANGED vars
  BY <1>6 DEF vars
<1> QED  BY <1>1, <1>2, <1>3, <1>4, <1>5, <1>6 DEF Next

LEMMA RecordedStep ==
  ASSUME TypeOK, PendingAgree, SentOnce, Recorded, [Next]_vars
  PROVE  Recorded'
<1> SUFFICES ASSUME NEW c \in Calls
             PROVE  /\ pc'[c] \in {"idle", "joining"} \cup Beginning => record'[c] = "none"
                    /\ record'[c] = "none" => pc'[c] \in {"idle", "joining", "returned"} \cup Beginning
                    /\ pc'[c] = "sending" => record'[c] # "ok"
                    /\ pc'[c] = "cancelling" => record'[c] = "error"
                    /\ pc'[c] = "returned" /\ record'[c] # "none" => answer'[c] = record'[c]
                    /\ ResultMessage(c) \in net' => frame'[c] # "none"
  BY DEF Recorded, ResultMessage, Beginning
<1>1. ASSUME ResultMessage(c) \in net'  PROVE frame'[c] # "none"
  BY <1>1, Results, Steps DEF Recorded, SendReply, TypeOK
<1>2. CASE LookUp(c) \/ JoinReturns(c) \/ SelectClient(c)
  BY <1>1, <1>2
     DEF LookUp, JoinReturns, SelectClient, Answer, Goto, broker, Recorded, Beginning, TypeOK
<1>3. CASE Register(c) \/ Send(c) \/ SendFails(c)
  BY <1>1, <1>3
     DEF Register, Send, SendFails, Answer, Goto, broker, Recorded, Beginning, TypeOK
<1>4. CASE Returns(c) \/ Timeout(c) \/ SendCancel(c)
  BY <1>1, <1>4
     DEF Returns, Timeout, SendCancel, Answer, Goto, broker, Recorded, Beginning, TypeOK, Outcome
<1>5. CASE ~LookUp(c) /\ ~CallStep(c)
  <2>1. pc'[c] = pc[c] /\ answer'[c] = answer[c]
    BY <1>5, OwnSteps
  <2>2. CASE record'[c] = record[c]
    BY <1>1, <2>1, <2>2 DEF Recorded
  <2>3. CASE /\ record[c] = "waiting" /\ record'[c] \in Outcome
             /\ record'[c] = "ok" => ResultMessage(c) \in net
    <3>1. pc[c] \notin {"idle", "joining", "cancelling", "returned"} \cup Beginning
      BY <2>3 DEF Recorded, TypeOK, Outcome
    <3>2. record'[c] = "ok" => pc[c] # "sending"
      BY <2>3 DEF Recorded, SentOnce
    <3> QED  BY <1>1, <2>1, <2>3, <3>1, <3>2 DEF Outcome
  <2> QED  BY <1>5, <2>2, <2>3, RecordSteps DEF CallStep
<1> QED  BY <1>2, <1>3, <1>4, <1>5 DEF CallStep

\* Of a key whose calls are ordered two calls begin at most.
LEMMA OnlyTwo ==
  ASSUME Circular, NEW c \in Calls, NEW d \in Calls, NEW e \in Calls,
         Key[c] \in Ordered, Key[d] = Key[c], Key[e] = Key[c],
         After[d] = c, c # d, e # c, e # d
  PROVE  pc[e] = "idle"
<1>1. After[e] = d
  BY DEF Ordered
<1>2. After[c] = e
  BY <1>1 DEF Ordered
<1> QED  BY <1>1, <1>2 DEF Circular

LEMMA RetryStep ==
  ASSUME TypeOK, RetryInv, RetryKnown, [Next]_vars, stopper' = "idle"
  PROVE  RetryKnown'
<1> USE DEF RetryInv
<1> SUFFICES ASSUME NEW c \in Calls, NEW d \in Calls, Repeats(c, d)'
             PROVE  /\ record'[c] \in {"none", "waiting"} => Key[c] \notin results' \cup errors'
                    /\ record'[c] = "waiting" => byKey'[Key[c]] = c
                    /\ record'[c] = "ok" => Key[c] \in results'
                    /\ record'[c] = "error" => Key[c] \notin results'
                    /\ pc'[d] \in Beginning /\ record'[c] # "none" => record'[c] = "error"
                    /\ pc'[d] = "joining" => joined'[d] = c
                    /\ pc'[d] = "returned" /\ record'[c] # "none" => answer'[d] = record'[c]
  BY DEF RetryKnown, Repeats, Ordered, Beginning
<1> DEFINE k == Key[c]
<1>1. /\ k \in Keys /\ k \in Ordered /\ Key[d] = k /\ c # d /\ After[d] = c
      /\ record'[d] = "none" /\ record[d] = "none"
  <2>1. k \in Ordered /\ Key[d] = k /\ c # d /\ After[d] = c /\ record'[d] = "none"
    BY DEF Repeats, Ordered
  <2>2. record[d] = "none"
    BY <2>1, RecordSteps DEF Outcome
  <2> QED  BY <2>1, <2>2, OrderedType
<1>2. Repeats(c, d)
  BY <1>1 DEF Repeats
<1>3. /\ record[c] \in {"none", "waiting"} => k \notin results \cup errors
      /\ record[c] = "waiting" => byKey[k] = c
      /\ record[c] = "ok" => k \in results
      /\ record[c] = "error" => k \notin results
      /\ pc[d] \in Beginning /\ record[c] # "none" => record[c] = "error"
      /\ pc[d] = "joining" => joined[d] = c
      /\ pc[d] = "returned" /\ record[c] # "none" => answer[d] = record[c]
  BY <1>2 DEF RetryKnown
<1>4. ASSUME NEW x \in pending, Key[x] = k  PROVE x = c /\ record[c] = "waiting"
  <2>1. x \in Calls /\ record[x] = "waiting"
    BY DEF PendingAgree
  <2>2. x # d /\ pc[x] # "idle"
    BY <1>1, <2>1 DEF Recorded
  <2>3. x = c
    BY <1>1, <1>4, <2>1, <2>2, OnlyTwo
  <2> QED  BY <2>1, <2>3
<1>5. /\ results \subseteq results' /\ errors \subseteq errors'
      /\ k \in results' \ results => record[c] = "waiting" /\ record'[c] = "ok"
      /\ k \in errors' \ errors => record[c] = "waiting" /\ record'[c] = "error"
  BY <1>1, <1>4, Stores, Entries
\* A step of c that makes its record finds d idle.
<1>6. Register(c) => pc[d] = "idle" /\ pc'[d] = "idle"
  <2>1. Register(c) => pc[c] = "registering"
    BY DEF Register, Goto
  <2>2. Register(c) => pc[d] = "idle"
    BY <1>1, <2>1 DEF OrderKept, Registered
  <2>3. Register(c) => pc'[d] = pc[d]
    BY <1>1 DEF Register, Goto, TypeOK
  <2> QED  BY <2>2, <2>3
<1>7. \/ record'[c] = record[c]
      \/ Register(c) /\ record[c] = "none" /\ record'[c] = "waiting"
      \/ c \in pending /\ record[c] = "waiting" /\ record'[c] \in Outcome
  BY RecordSteps
<1>8. record'[c] \in {"none", "waiting"} => k \notin results' \cup errors'
  BY <1>3, <1>5, <1>7 DEF Outcome
<1>9. record'[c] = "error" => k \notin results'
  BY <1>3, <1>5, <1>7 DEF Outcome
<1>10. record'[c] = "ok" => k \in results'
  BY <1>1, <1>3, <1>5, <1>7, Stores
<1>11. record'[c] = "waiting" => byKey'[k] = c
  <2> SUFFICES ASSUME record'[c] = "waiting"  PROVE byKey'[k] = c
    OBVIOUS
  <2>1. CASE Register(c)
    BY <1>1, <2>1 DEF Register, TypeOK
  <2>2. CASE ~Register(c)
    <3>1. record[c] = "waiting" /\ byKey[k] = c
      BY <1>3, <1>7, <2>2 DEF Outcome
    <3>2. k \notin results' \cup errors'
      BY <1>8
    <3>3. ~SendFails(c)
      BY DEF SendFails, TypeOK
    <3>4. ~Register(d) /\ ~SendFails(d)
      BY <1>1 DEF Register, SendFails, TypeOK
    <3>5. ASSUME NEW x \in Calls, Key[x] = k, x # c, x # d
          PROVE  ~Register(x) /\ ~SendFails(x)
      <4>1. pc[x] = "idle"
        BY <1>1, <3>5, OnlyTwo
      <4> QED  BY <4>1 DEF Register, SendFails, Answer, Goto
    <3> QED  BY <1>1, <2>2, <3>1, <3>2, <3>3, <3>4, <3>5, Entries
  <2> QED  BY <2>1, <2>2
<1>12. CASE ~LookUp(d) /\ ~CallStep(d)
  <2>1. pc'[d] = pc[d] /\ joined'[d] = joined[d] /\ answer'[d] = answer[d]
    BY <1>12, OwnSteps
  <2>2. pc[d] = "returned" /\ record[c] # "none" => record[c] \in Outcome
    BY <1>3 DEF TypeOK, Outcome
  <2>3. pc[d] \in Beginning /\ record'[c] # "none" => record'[c] = "error"
    BY <1>3, <1>6, <1>7 DEF Beginning
  <2>4. pc[d] = "returned" /\ record'[c] # "none" => answer[d] = record'[c]
    BY <1>3, <1>6, <1>7, <2>2 DEF Outcome
  <2> QED  BY <1>3, <1>8, <1>9, <1>10, <1>11, <2>1, <2>3, <2>4
<1>13. CASE LookUp(d)
  <2>1. record'[c] = record[c] /\ pc[d] = "idle"
    BY <1>13 DEF LookUp, Answer, Goto, broker
  <2>2. ASSUME pc'[d] \in Beginning, record[c] # "none"  PROVE record[c] = "error"
    <3>1. k \notin results \cup errors /\ byKey[k] = None
      BY <1>1, <2>1, <2>2, Claims DEF Beginning
    <3> QED  BY <1>3, <2>2, <3>1 DEF TypeOK, Outcome
  <2>3. ASSUME pc'[d] = "joining"  PROVE joined'[d] = c
    <3>1. joined'[d] = byKey[k] /\ byKey[k] # None
      BY <1>1, <1>13, <2>3 DEF LookUp, Answer, Goto, TypeOK
    <3>2. byKey[k] \in pending /\ Key[byKey[k]] = k
      BY <1>1, <3>1 DEF PendingAgree
    <3> QED  BY <1>4, <3>1, <3>2
  <2>4. ASSUME pc'[d] = "returned", record[c] # "none"  PROVE answer'[d] = record[c]
    <3>1. \/ k \in results /\ answer'[d] = "ok"
          \/ k \in errors \ results /\ answer'[d] = "error"
      BY <1>1, <1>13, <2>4 DEF LookUp, Answer, Goto, TypeOK
    <3> QED  BY <1>3, <2>4, <3>1 DEF TypeOK, Outcome
  <2> QED  BY <1>8, <1>9, <1>10, <1>11, <2>1, <2>2, <2>3, <2>4
<1>14. CASE JoinReturns(d)
  <2>1. record'[c] = record[c] /\ pc'[d] = "returned" /\ joined[d] = c /\ answer'[d] = record[c]
    BY <1>3, <1>14 DEF JoinReturns, Answer, Goto, TypeOK, broker
  <2> QED  BY <1>8, <1>9, <1>10, <1>11, <2>1 DEF Beginning
<1>15. CASE SelectClient(d)
  <2>1. record'[c] = record[c] /\ pc[d] \in Beginning
    BY <1>15 DEF SelectClient, Answer, Goto, broker, Beginning
  <2>2. \/ pc'[d] = "registering"
        \/ pc'[d] = "returned" /\ answer'[d] = "error"
    BY <1>15 DEF SelectClient, Answer, Goto, TypeOK
  <2> QED  BY <1>3, <1>8, <1>9, <1>10, <1>11, <2>1, <2>2
<1>16. ~Register(d)
  BY <1>1 DEF Register, TypeOK
<1>17. ~(Send(d) \/ SendFails(d) \/ Returns(d) \/ Timeout(d) \/ SendCancel(d))
  BY <1>1 DEF Send, SendFails, Returns, Timeout, SendCancel, Answer, Goto, Recorded, Beginning
<1> QED
  BY <1>12, <1>13, <1>14, <1>15, <1>16, <1>17 DEF CallStep

\* Until the broker is stopped a retry of a call that was sent is answered as
\* that call was, for any number of calls and keys and however late an answer of
\* the client, a disconnect or a timeout comes.
THEOREM RetriesSame == Spec => []RetrySame
<1>1. Init => TypeOK /\ RetryInv
  <2> SUFFICES ASSUME Init PROVE TypeOK /\ RetryInv
    OBVIOUS
  <2>1. TypeOK
    BY InitTypeOK
  <2>2. \A c \in Calls : /\ pc[c] = "idle" /\ record[c] = "none" /\ frame[c] = "none"
                         /\ net = {} /\ results = {} /\ errors = {}
    BY DEF Init
  <2>3. PendingAgree
    BY DEF Init, PendingAgree
  <2> QED
    BY <2>1, <2>2, <2>3
       DEF RetryInv, OrderKept, SentOnce, Circular, Recorded, RetryKnown, Repeats, Beginning
<1>2. TypeOK /\ RetryInv /\ [Next]_vars => (TypeOK /\ RetryInv)'
  BY TypeStep, AgreeStep, OrderStep, SentStep, CircularStep, RecordedStep, RetryStep, StillRunning
     DEF RetryInv
<1>3. TypeOK /\ RetryInv => RetrySame
  <2> SUFFICES ASSUME TypeOK, RetryInv, stopper = "idle", NEW c \in Calls, NEW d \in Calls,
                      Key[c] \in Ordered, Key[d] = Key[c], After[d] = c,
                      record[c] # "none", record[d] = "none",
                      pc[c] = "returned", pc[d] = "returned"
               PROVE  answer[d] = answer[c]
    BY DEF RetrySame
  <2>1. Repeats(c, d)
    BY DEF Repeats
  <2> QED  BY <2>1 DEF RetryInv, RetryKnown, Recorded
<1> QED  BY <1>1, <1>2, <1>3, PTL DEF Spec
=============================================================================
