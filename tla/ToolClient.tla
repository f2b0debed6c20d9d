----------------------------- MODULE ToolClient -----------------------------
(***************************************************************************)
(* Remote tools, src/src/agent/tool_client.cpp: ToolClientBroker, whose    *)
(* call_tool() is called by several threads, one ToolClientRuntime, which  *)
(* executes the calls it is sent, and the transport between them.          *)
(*                                                                         *)
(* A step is what a thread does between two points where it holds no mutex.*)
(* Whoever waits on pending_changed_ is notified after every completion, so*)
(* a wait is a step whose guard is what it waits for.                      *)
(*                                                                         *)
(* The transport loses, delays and reorders messages and repeats none.  A  *)
(* handler that is unsubscribed has handled what was being delivered to it.*)
(*                                                                         *)
(* Left out: payloads and size limits, audit events, heartbeats (only the  *)
(* time of the last one is kept), the socket bookkeeping of the transports,*)
(* and a second client, which shares no entry of any table with this one.  *)
(***************************************************************************)
EXTENDS Naturals, FiniteSets

CONSTANTS
  Calls,      \* calls of call_tool(), and the ids of their requests
  Keys,       \* idempotency keys
  Key,        \* Key[c]: the key of call c, or None
  After,      \* After[c]: a call that must have been registered when c begins
  MaxCache,   \* max_idempotency_cache_size of the runtime
  MaxStarts,  \* bound: how often the runtime is started
  None

ASSUME CallsAssumption ==
  /\ IsFiniteSet(Calls) /\ IsFiniteSet(Keys)
  /\ Calls \cap Keys = {}
  /\ None \notin Calls \cup Keys

ASSUME RequestsAssumption ==
  /\ Key \in [Calls -> Keys \cup {None}]
  /\ After \in [Calls -> Calls \cup {None}]

ASSUME BoundsAssumption == MaxCache \in Nat /\ MaxStarts \in Nat

VARIABLES
  \* The threads in call_tool().
  pc,        \* pc[c]: where call c stands
  joined,    \* joined[c]: the pending call of the same key that c waits for
  answer,    \* answer[c]: what c returned
  \* The broker.
  record,    \* record[c]: PendingCall of c, by completed and ok
  pending,   \* pending_
  byKey,     \* pending_by_idempotency_key_
  results,   \* the keys of completed_idempotent_results_
  errors,    \* the keys of completed_idempotent_errors_
  online,    \* the registry knows the client
  leaving,   \* a disconnect has been received and not yet rejected its calls
  stopper,   \* where the thread that stops the broker stands
  \* The transport: messages sent and not yet received, if ever.
  net,
  \* The runtime.
  host,      \* where the thread that starts and stops the runtime stands
  starts,    \* bookkeeping of the bound
  frame,     \* frame[c]: where handle_message() stands with request c
  reply,     \* reply[c]: what it will answer
  token,     \* token[c]: its CancellationToken has been cancelled
  active,    \* active_cancellations_
  cache,     \* completed_
  \* History.
  executed   \* executed[k]: executions of the tool under key k

callers  == <<pc, joined, answer>>
tables   == <<pending, byKey, results, errors>>
broker   == <<record, pending, byKey, results, errors, online, leaving, stopper>>
lifetime == <<host, starts>>
frames   == <<frame, reply, token, active>>
runtime  == <<host, starts, frame, reply, token, active, cache, executed>>
vars == <<pc, joined, answer, record, pending, byKey, results, errors, online,
          leaving, stopper, net, host, starts, frame, reply, token, active,
          cache, executed>>

Outcome == {"ok", "error"}
Message ==
  [type : {"call", "cancel", "result", "error"}, id : Calls]
    \cup [type : {"register", "disconnect"}]

\* The runtime falls back to the id of the tool call.
CacheKeys   == Keys \cup Calls
CacheKey(c) == IF Key[c] = None THEN c ELSE Key[c]

TypeOK ==
  /\ pc \in [Calls -> {"idle", "selecting", "registering", "sending", "waiting",
                       "joining", "cancelling", "returned"}]
  /\ joined \in [Calls -> Calls \cup {None}]
  /\ answer \in [Calls -> Outcome \cup {"none"}]
  /\ record \in [Calls -> Outcome \cup {"none", "waiting"}]
  /\ pending \in SUBSET Calls
  /\ byKey \in [Keys -> Calls \cup {None}]
  /\ results \in SUBSET Keys
  /\ errors \in SUBSET Keys
  /\ online \in BOOLEAN
  /\ leaving \in BOOLEAN
  /\ stopper \in {"idle", "rejecting", "done"}
  /\ net \in SUBSET Message
  /\ host \in {"stopped", "subscribed", "started",
               "cancelling", "unsubscribing", "disconnecting"}
  /\ starts \in 0 .. MaxStarts
  /\ frame \in [Calls -> {"none", "accepted", "executing", "ended",
                          "remembering", "replying", "done"}]
  /\ reply \in [Calls -> Outcome \cup {"none"}]
  /\ token \in [Calls -> BOOLEAN]
  /\ active \in SUBSET Calls
  /\ cache \in [CacheKeys -> Outcome \cup {"none"}]
  /\ executed \in [CacheKeys -> Nat]

Init ==
  /\ pc = [c \in Calls |-> "idle"]
  /\ joined = [c \in Calls |-> None]
  /\ answer = [c \in Calls |-> "none"]
  /\ record = [c \in Calls |-> "none"]
  /\ pending = {}
  /\ byKey = [k \in Keys |-> None]
  /\ results = {}
  /\ errors = {}
  /\ online = FALSE
  /\ leaving = FALSE
  /\ stopper = "idle"
  /\ net = {}
  /\ host = "stopped"
  /\ starts = 0
  /\ frame = [c \in Calls |-> "none"]
  /\ reply = [c \in Calls |-> "none"]
  /\ token = [c \in Calls |-> FALSE]
  /\ active = {}
  /\ cache = [k \in CacheKeys |-> "none"]
  /\ executed = [k \in CacheKeys |-> 0]
-----------------------------------------------------------------------------
(* ToolClientBroker::call_tool().                                          *)

Goto(c, from, to) ==
  /\ pc[c] = from
  /\ pc' = [pc EXCEPT ![c] = to]

Answer(c, from, a) ==
  /\ Goto(c, from, "returned")
  /\ answer' = [answer EXCEPT ![c] = a]

KeyOf(S)  == {Key[c] : c \in S} \ {None}

\* The index of pending calls without the keys of S: whose entries they are is
\* not looked at.
Erased(S) == [k \in Keys |-> IF k \in KeyOf(S) THEN None ELSE byKey[k]]

Registered(c) == pc[c] \notin {"idle", "selecting", "registering"}

\* A key that is known: the answer of a finished call is returned again, that
\* of a pending one is waited for.
LookUp(c) ==
  /\ After[c] # None => Registered(After[c])
  /\ \/ Key[c] \in results /\ Answer(c, "idle", "ok") /\ UNCHANGED joined
     \/ Key[c] \in errors \ results /\ Answer(c, "idle", "error") /\ UNCHANGED joined
     \/ /\ Key[c] \in Keys \ (results \cup errors) /\ byKey[Key[c]] # None
        /\ Goto(c, "idle", "joining")
        /\ joined' = [joined EXCEPT ![c] = byKey[Key[c]]]
        /\ UNCHANGED answer
     \/ /\ Key[c] \notin results \cup errors
        /\ Key[c] \in Keys => byKey[Key[c]] = None
        /\ Goto(c, "idle", "selecting")
        /\ UNCHANGED <<joined, answer>>
  /\ UNCHANGED <<broker, net, runtime>>

\* Mutant: any notification ends the wait.
JoinReturnsEarly(c) ==
  /\ pc[c] = "joining"
  /\ Answer(c, "joining", record[joined[c]])
  /\ UNCHANGED <<joined, broker, net, runtime>>

\* pending_changed_.wait on the other call's record.
JoinReturns(c) ==
  /\ pc[c] = "joining"
  /\ record[joined[c]] \in Outcome
  /\ Answer(c, "joining", record[joined[c]])
  /\ UNCHANGED <<joined, broker, net, runtime>>

\* registry_.find_client_for_tool.
SelectClient(c) ==
  /\ \/ online /\ Goto(c, "selecting", "registering") /\ UNCHANGED answer
     \/ ~online /\ Answer(c, "selecting", "error")
  /\ UNCHANGED <<joined, broker, net, runtime>>

Register(c) ==
  /\ Goto(c, "registering", "sending")
  /\ record' = [record EXCEPT ![c] = "waiting"]
  /\ pending' = pending \cup {c}
  /\ byKey' = IF Key[c] = None THEN byKey ELSE [byKey EXCEPT ![Key[c]] = c]
  /\ UNCHANGED <<joined, answer, results, errors, online, leaving, stopper, net, runtime>>

Send(c) ==
  /\ Goto(c, "sending", "waiting")
  /\ net' = net \cup {[type |-> "call", id |-> c]}
  /\ UNCHANGED <<joined, answer, broker, runtime>>

\* The transport throws: the client is not connected.
SendFails(c) ==
  /\ Answer(c, "sending", "error")
  /\ record' = [record EXCEPT ![c] = "error"]
  /\ pending' = pending \ {c}
  /\ byKey' = Erased({c})
  /\ UNCHANGED <<joined, results, errors, online, leaving, stopper, net, runtime>>

Returns(c) ==
  /\ record[c] \in Outcome
  /\ Answer(c, "waiting", record[c])
  /\ UNCHANGED <<joined, broker, net, runtime>>

\* Mutant: the error is not stored under the key.
TimeoutForgotten(c) ==
  /\ Goto(c, "waiting", "cancelling")
  /\ record[c] = "waiting"
  /\ record' = [record EXCEPT ![c] = "error"]
  /\ pending' = pending \ {c}
  /\ byKey' = Erased({c})
  /\ UNCHANGED <<joined, answer, results, errors, online, leaving, stopper, net, runtime>>

\* Mutant: the record is not completed.
TimeoutUnmarked(c) ==
  /\ Goto(c, "waiting", "cancelling")
  /\ record[c] = "waiting"
  /\ pending' = pending \ {c}
  /\ byKey' = Erased({c})
  /\ errors' = errors \cup KeyOf({c})
  /\ UNCHANGED <<joined, answer, record, results, online, leaving, stopper, net, runtime>>

\* wait_for ends without an answer (a timeout of 0, which waits for ever, is not
\* among the calls here): the error is stored under the key ...
Timeout(c) ==
  /\ Goto(c, "waiting", "cancelling")
  /\ record[c] = "waiting"
  /\ record' = [record EXCEPT ![c] = "error"]
  /\ pending' = pending \ {c}
  /\ byKey' = Erased({c})
  /\ errors' = errors \cup KeyOf({c})
  /\ UNCHANGED <<joined, answer, results, online, leaving, stopper, net, runtime>>

\* ... and the client is told.
SendCancel(c) ==
  /\ Answer(c, "cancelling", "error")
  /\ net' = net \cup {[type |-> "cancel", id |-> c]}
  /\ UNCHANGED <<joined, broker, runtime>>
-----------------------------------------------------------------------------
(* ToolClientBroker::handle_message() and stop().                          *)

\* The broker is subscribed, and m arrives.
BrokerReceives(m) ==
  /\ stopper = "idle"
  /\ m \in net
  /\ net' = net \ {m}

\* Mutant: a result is stored although nobody waits for it any more.
ResolveLate(c) ==
  /\ BrokerReceives([type |-> "result", id |-> c])
  /\ results' = results \cup KeyOf({c})
  /\ pending' = pending \ {c}
  /\ byKey' = Erased({c} \cap pending)
  /\ record' = [record EXCEPT ![c] = IF c \in pending THEN "ok" ELSE @]
  /\ UNCHANGED <<callers, errors, online, leaving, stopper, runtime>>

\* resolve_pending: a request that is no longer pending is dropped.
Resolve(c) ==
  /\ BrokerReceives([type |-> "result", id |-> c])
  /\ \/ c \notin pending /\ UNCHANGED <<record, tables>>
     \/ /\ c \in pending
        /\ record' = [record EXCEPT ![c] = "ok"]
        /\ pending' = pending \ {c}
        /\ byKey' = Erased({c})
        /\ results' = results \cup KeyOf({c})
        /\ UNCHANGED errors
  /\ UNCHANGED <<callers, online, leaving, stopper, runtime>>

\* reject_pending.
Reject(c) ==
  /\ BrokerReceives([type |-> "error", id |-> c])
  /\ \/ c \notin pending /\ UNCHANGED <<record, tables>>
     \/ /\ c \in pending
        /\ record' = [record EXCEPT ![c] = "error"]
        /\ pending' = pending \ {c}
        /\ byKey' = Erased({c})
        /\ errors' = errors \cup KeyOf({c})
        /\ UNCHANGED results
  /\ UNCHANGED <<callers, online, leaving, stopper, runtime>>

RegisterClient ==
  /\ BrokerReceives([type |-> "register"])
  /\ online' = TRUE
  /\ UNCHANGED <<callers, record, tables, leaving, stopper, runtime>>

UnregisterClient ==
  /\ ~leaving
  /\ BrokerReceives([type |-> "disconnect"])
  /\ online' = FALSE
  /\ leaving' = TRUE
  /\ UNCHANGED <<callers, record, tables, stopper, runtime>>

Rejected(S) == [c \in Calls |-> IF c \in S THEN "error" ELSE record[c]]

\* Mutant: the index is left as it is.
RejectClientIndexed ==
  /\ leaving
  /\ leaving' = FALSE
  /\ record' = Rejected(pending)
  /\ pending' = {}
  /\ errors' = errors \cup KeyOf(pending)
  /\ UNCHANGED <<callers, byKey, results, online, stopper, net, runtime>>

\* reject_pending_for_client.
RejectClient ==
  /\ leaving
  /\ leaving' = FALSE
  /\ record' = Rejected(pending)
  /\ pending' = {}
  /\ byKey' = Erased(pending)
  /\ errors' = errors \cup KeyOf(pending)
  /\ UNCHANGED <<callers, results, online, stopper, net, runtime>>

\* stop(): unsubscribed first ...
StopUnsubscribes ==
  /\ stopper = "idle"
  /\ stopper' = "rejecting"
  /\ UNCHANGED <<callers, record, tables, online, leaving, net, runtime>>

\* ... then everything that is pending fails, is forgotten, not stored, and
\* the client is told.
StopRejects ==
  /\ stopper = "rejecting"
  /\ stopper' = "done"
  /\ record' = Rejected(pending)
  /\ pending' = {}
  /\ byKey' = [k \in Keys |-> None]
  /\ net' = net \cup {[type |-> "cancel", id |-> c] : c \in pending}
  /\ UNCHANGED <<callers, results, errors, online, leaving, runtime>>
-----------------------------------------------------------------------------
(* ToolClientRuntime: start() and stop().                                  *)

Moves(from, to) ==
  /\ host = from
  /\ host' = to

Start ==
  /\ Moves("stopped", "subscribed")
  /\ starts < MaxStarts
  /\ starts' = starts + 1
  /\ UNCHANGED <<callers, broker, net, frames, cache, executed>>

SendRegister ==
  /\ Moves("subscribed", "started")
  /\ net' = net \cup {[type |-> "register"]}
  /\ UNCHANGED <<callers, broker, starts, frames, cache, executed>>

Stop ==
  /\ Moves("started", "cancelling")
  /\ UNCHANGED <<callers, broker, net, starts, frames, cache, executed>>

\* cancel_active_calls.
CancelActive ==
  /\ Moves("cancelling", "unsubscribing")
  /\ token' = [c \in Calls |-> token[c] \/ c \in active]
  /\ UNCHANGED <<callers, broker, net, starts, frame, reply, active, cache, executed>>

Unsubscribe ==
  /\ Moves("unsubscribing", "disconnecting")
  /\ UNCHANGED <<callers, broker, net, starts, frames, cache, executed>>

SendDisconnect ==
  /\ Moves("disconnecting", "stopped")
  /\ net' = net \cup {[type |-> "disconnect"]}
  /\ UNCHANGED <<callers, broker, starts, frames, cache, executed>>
-----------------------------------------------------------------------------
(* ToolClientRuntime::handle_message().  started_ is not looked at.        *)

RuntimeReceives(m) ==
  /\ host \in {"subscribed", "started", "cancelling", "unsubscribing"}
  /\ m \in net
  /\ net' = net \ {m}

\* A call is refused, answered from the cache, or accepted.
Receive(c) ==
  /\ RuntimeReceives([type |-> "call", id |-> c])
  /\ \/ /\ frame' = [frame EXCEPT ![c] = "replying"]
        /\ reply' = [reply EXCEPT ![c] = "error"]
     \/ /\ cache[CacheKey(c)] # "none"
        /\ frame' = [frame EXCEPT ![c] = "replying"]
        /\ reply' = [reply EXCEPT ![c] = cache[CacheKey(c)]]
     \/ /\ cache[CacheKey(c)] = "none"
        /\ frame' = [frame EXCEPT ![c] = "accepted"]
        /\ UNCHANGED reply
  /\ UNCHANGED <<callers, broker, lifetime, token, active, cache, executed>>

\* register_active_call, and the tool begins.
Execute(c) ==
  /\ frame[c] = "accepted"
  /\ frame' = [frame EXCEPT ![c] = "executing"]
  /\ active' = active \cup {c}
  /\ executed' = [executed EXCEPT ![CacheKey(c)] = @ + 1]
  /\ UNCHANGED <<callers, broker, net, lifetime, reply, token, cache>>

\* The tool returns, or throws anything.
Executed(c, outcome) ==
  /\ frame[c] = "executing"
  /\ frame' = [frame EXCEPT ![c] = "ended"]
  /\ reply' = [reply EXCEPT ![c] = outcome]
  /\ UNCHANGED <<callers, broker, net, lifetime, token, active, cache, executed>>

\* unregister_active_call; a cancelled call failed, whatever the tool returned.
Unregister(c) ==
  /\ frame[c] = "ended"
  /\ active' = active \ {c}
  /\ \/ /\ token[c]
        /\ frame' = [frame EXCEPT ![c] = "replying"]
        /\ reply' = [reply EXCEPT ![c] = "error"]
     \/ /\ ~token[c]
        /\ frame' = [frame EXCEPT ![c] = "remembering"]
        /\ UNCHANGED reply
  /\ UNCHANGED <<callers, broker, net, lifetime, token, cache, executed>>

\* remember: beyond its size the cache drops its smallest key, which can be
\* any, also the one it has just been given.
Remember(c) ==
  /\ frame[c] = "remembering"
  /\ frame' = [frame EXCEPT ![c] = "replying"]
  /\ LET full   == [cache EXCEPT ![CacheKey(c)] = reply[c]]
         stored == {k \in CacheKeys : full[k] # "none"}
     IN  IF Cardinality(stored) <= MaxCache THEN cache' = full
         ELSE \E k \in stored : cache' = [full EXCEPT ![k] = "none"]
  /\ UNCHANGED <<callers, broker, net, lifetime, reply, token, active, executed>>

SendReply(c) ==
  /\ frame[c] = "replying"
  /\ frame' = [frame EXCEPT ![c] = "done"]
  /\ net' = net \cup {[type |-> IF reply[c] = "ok" THEN "result" ELSE "error", id |-> c]}
  /\ UNCHANGED <<callers, broker, lifetime, reply, token, active, cache, executed>>

\* cancel_active_call: nothing for a call that is not registered, or not yet.
ReceiveCancel(c) ==
  /\ RuntimeReceives([type |-> "cancel", id |-> c])
  /\ token' = [token EXCEPT ![c] = @ \/ c \in active]
  /\ UNCHANGED <<callers, broker, lifetime, frame, reply, active, cache, executed>>
-----------------------------------------------------------------------------
\* What call_tool() goes on to do.
CallStep(c) ==
  \/ JoinReturns(c)
  \/ SelectClient(c)
  \/ Register(c)
  \/ Send(c) \/ SendFails(c)
  \/ Returns(c) \/ Timeout(c)
  \/ SendCancel(c)

BrokerStep ==
  \/ \E c \in Calls : Resolve(c) \/ Reject(c)
  \/ RegisterClient \/ UnregisterClient \/ RejectClient
  \/ StopUnsubscribes \/ StopRejects

RuntimeStep ==
  \/ Start \/ SendRegister
  \/ Stop \/ CancelActive \/ Unsubscribe \/ SendDisconnect
  \/ \E c \in Calls :
       \/ Receive(c) \/ Execute(c)
       \/ \E outcome \in Outcome : Executed(c, outcome)
       \/ Unregister(c) \/ Remember(c) \/ SendReply(c)
       \/ ReceiveCancel(c)

Next ==
  \/ \E c \in Calls : LookUp(c) \/ CallStep(c)
  \/ BrokerStep
  \/ RuntimeStep

Spec == Init /\ [][Next]_vars

(* A thread inside call_tool() goes on, and its timeout, which is set by     *)
(* default, passes.  Nothing is assumed of the transport or of the runtime:  *)
(* a message that is lost is one that nobody ever receives.                  *)
FairSpec == Spec /\ \A c \in Calls : WF_vars(CallStep(c))
-----------------------------------------------------------------------------
(* Properties.                                                             *)

\* The broker's tables agree: what is pending is what somebody waits for, and
\* the index leads only to calls that are pending, although every completion
\* erases by key and not by the entry it finds.  A caller that finds its key
\* in the index therefore never waits for a call that nobody will complete.
PendingAgree ==
  /\ pending = {c \in Calls : record[c] = "waiting"}
  /\ \A k \in Keys : byKey[k] # None => byKey[k] \in pending /\ Key[byKey[k]] = k

\* Keys whose calls do not overlap before they are registered.
Ordered ==
  {k \in Keys : \A c, d \in Calls :
     Key[c] = k /\ Key[d] = k => c = d \/ After[c] = d \/ After[d] = c}

\* Until the broker is stopped a tool is executed at most once for a key,
\* whatever is lost, delayed, timed out, retried, cancelled, disconnected,
\* restarted or dropped from the runtime's cache.
EffectOnce == stopper = "idle" => \A k \in Ordered : executed[k] <= 1

\* Until the broker is stopped a retry of a call that was sent is answered as
\* that call was, however late the client's answer arrives.
RetrySame ==
  \A c, d \in Calls :
    /\ stopper = "idle"
    /\ Key[c] \in Ordered /\ Key[d] = Key[c] /\ After[d] = c
    /\ record[c] # "none" /\ record[d] = "none"
    /\ pc[c] = "returned" /\ pc[d] = "returned"
    => answer[d] = answer[c]

\* Every call returns, also one that waits for another, across a stop of the
\* broker and without any help of the client, given a timeout above 0.
EveryCallReturns == \A c \in Calls : pc[c] # "idle" ~> pc[c] = "returned"

\* "Broker-side idempotency deduplicates pending calls with the same key."
PendingDeduplicated ==
  \A c, d \in pending : c # d => Key[c] = None \/ Key[c] # Key[d]
=============================================================================
