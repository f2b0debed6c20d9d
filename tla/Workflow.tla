------------------------------ MODULE Workflow ------------------------------
(***************************************************************************)
(* One workflow run: WorkflowEngine over a WorkflowStore                   *)
(* (src/agent/workflow.cpp) as the routes of workflow_routes.inc use it.   *)
(* A call reads the whole state of the run, works on its own copy, and     *)
(* writes the copy back after every node: a step goes from one access of   *)
(* the store to the next.  Neither the engine nor the store keeps two      *)
(* calls on one run apart: the last writer wins.                           *)
(***************************************************************************)
EXTENDS Naturals, Sequences, SequencesExt

CONSTANTS
  Threads,      \* the server threads
  Definition,   \* the ids of the nodes in the order of the definition
  Edges,        \* the edges in order: records [from, to, conditional]
  WaitAny,      \* the nodes with wait_for = "any"; the others wait for "all"
  Waits,        \* the human-wait and webhook-wait nodes
  MayFail,      \* the nodes whose handler may throw
  MayNotStart,  \* the nodes that may throw before: no handler, or a hook
  MaxUnneeded,  \* bound on calls of resume() and answers that nobody needs
  MaxCrashes,   \* bound on crashes of the process
  None

Nodes == ToSet(Definition)

ASSUME DefinitionAssumption ==
  /\ Definition # <<>>
  /\ \A i, j \in DOMAIN Definition : Definition[i] = Definition[j] => i = j
  /\ Edges \in Seq([from : Nodes, to : Nodes, conditional : BOOLEAN])
  /\ WaitAny \subseteq Nodes /\ Waits \subseteq Nodes
  /\ MayFail \subseteq Nodes /\ MayNotStart \subseteq Nodes

ASSUME BoundsAssumption ==
  MaxUnneeded \in Nat /\ MaxCrashes \in Nat

RunStatus == {"pending", "running", "waiting", "completed", "failed"}
NodeStatus == {"pending", "running", "waiting", "completed", "failed"}
EdgeStatus == {"pending", "activated", "skipped"}

\* WorkflowRunState, as far as the engine decides by it.
State ==
  [status : RunStatus, node : [Nodes -> NodeStatus],
   edge : [DOMAIN Edges -> EdgeStatus], signals : SUBSET Nodes]

ASSUME NoneAssumption == None \notin State

VARIABLES
  stored,    \* the run in the store, None before create_run()
  state,     \* state[t]: the copy thread t works on
  pc,        \* pc[t]: what thread t does next
  batch,     \* batch[t]: the ready nodes it has still to execute, in order
  unneeded, crashes

work == <<state, pc, batch>>
counters == <<unneeded, crashes>>
vars == <<stored, work, counters>>

TypeOK ==
  /\ stored \in State \cup {None}
  /\ state \in [Threads -> State \cup {None}]
  /\ pc \in [Threads -> {"idle", "answer", "reread", "begin", "execute", "end"}]
  /\ batch \in [Threads -> SUBSET Nodes]
  /\ unneeded \in 0..MaxUnneeded
  /\ crashes \in 0..MaxCrashes

\* initialize_workflow_run_state()
InitialState ==
  [status |-> "pending", node |-> [n \in Nodes |-> "pending"],
   edge |-> [e \in DOMAIN Edges |-> "pending"], signals |-> {}]

Init ==
  /\ stored = None
  /\ state = [t \in Threads |-> None]
  /\ pc = [t \in Threads |-> "idle"]
  /\ batch = [t \in Threads |-> {}]
  /\ unneeded = 0 /\ crashes = 0

(***************************************************************************)
(* The graph.                                                              *)
(***************************************************************************)
Inbound(n) == {e \in DOMAIN Edges : Edges[e].to = n}

Outbound(n) == {e \in DOMAIN Edges : Edges[e].from = n}

\* Mutant: a join for "all" that does not wait for the edges still pending.
InboundReadyEarly(s, n) ==
  Inbound(n) = {} \/ \E e \in Inbound(n) : s.edge[e] = "activated"

\* What ready_nodes() asks of the inbound edges.  A node without any is ready
\* at once; a skipped edge counts as settled, not as activated.  (A "start" node is
\* ready whatever leads to it: in the graphs of this model nothing does.)
InboundReady(s, n) ==
  \/ Inbound(n) = {}
  \/ /\ \E e \in Inbound(n) : s.edge[e] = "activated"
     /\ n \in WaitAny \/ \A e \in Inbound(n) : s.edge[e] # "pending"

Ready(s, n) == s.node[n] = "pending" /\ InboundReady(s, n)

ReadyNodes(s) == {n \in Nodes : Ready(s, n)}

\* n is the first of the nodes in the order of the definition.
IsFirst(n, nodes) ==
  /\ n \in nodes
  /\ \E i \in DOMAIN Definition :
       /\ Definition[i] = n
       /\ \A j \in 1..(i - 1) : Definition[j] \notin nodes

\* activate_outbound_edges(): a condition may come out either way.
Activated(s, n, taken) ==
  [s EXCEPT !.edge = [e \in DOMAIN Edges |->
     IF e \notin Outbound(n) THEN @[e]
     ELSE IF ~Edges[e].conditional \/ e \in taken THEN "activated"
     ELSE "skipped"]]

WithNode(s, n, to) == [s EXCEPT !.node[n] = to]

(***************************************************************************)
(* The calls.                                                              *)
(***************************************************************************)
Become(t, s, label) ==
  /\ state' = [state EXCEPT ![t] = s]
  /\ pc' = [pc EXCEPT ![t] = label]

\* run(): create_run() writes the initial state and hands it out.
Run(t) ==
  /\ pc[t] = "idle"
  /\ stored = None
  /\ stored' = InitialState
  /\ Become(t, InitialState, "begin")
  /\ UNCHANGED <<batch, counters>>

Ended == stored.status \in {"completed", "failed"}

\* Mutant: calls that nobody needs are not counted.
ResumeUnbounded(t) ==
  /\ pc[t] = "idle"
  /\ stored # None
  /\ unneeded' = unneeded + 1
  /\ Become(t, stored, "begin")
  /\ UNCHANGED <<stored, batch, crashes>>

\* resume() of a run in any state: of one that has neither ended nor waits,
\* which a crash has left so, and a few times for no reason.
Resume(t) ==
  /\ pc[t] = "idle"
  /\ stored # None
  /\ \/ /\ ~Ended
        /\ \A n \in Nodes : stored.node[n] # "waiting"
        /\ \A u \in Threads : pc[u] = "idle"
        /\ UNCHANGED unneeded
     \/ /\ unneeded < MaxUnneeded
        /\ unneeded' = unneeded + 1
  /\ Become(t, stored, "begin")
  /\ UNCHANGED <<stored, batch, crashes>>

\* Whether somebody waits for an answer for n; an early one is counted.  The
\* routes take any node: answers to one that runs, completed or failed are left
\* out.
Wanted(n) ==
  \/ stored.node[n] = "waiting" /\ UNCHANGED unneeded
  \/ stored.node[n] = "pending" /\ unneeded < MaxUnneeded /\ unneeded' = unneeded + 1

\* Mutant: the node becomes Pending again and the answer is dropped.
RespondDropped(t, n) ==
  /\ pc[t] = "idle"
  /\ stored # None
  /\ Wanted(n)
  /\ Become(t, WithNode(stored, n, "pending"), "answer")
  /\ UNCHANGED <<stored, batch, crashes>>

\* submit_human_response() and submit_webhook_payload(): the node becomes
\* Pending again in the state that was read.  They do not check that it waits:
\* an answer may come early.  (The clients modelled here answer no node that has
\* been completed, which the code would execute again.)
Respond(t, n) ==
  /\ pc[t] = "idle"
  /\ stored # None
  /\ Wanted(n)
  /\ Become(t, [WithNode(stored, n, "pending") EXCEPT !.signals = @ \cup {n}],
            "answer")
  /\ UNCHANGED <<stored, batch, crashes>>

SaveResponse(t) ==
  /\ pc[t] = "answer"
  /\ stored' = state[t]
  /\ Become(t, None, "reread")
  /\ UNCHANGED <<batch, counters>>

\* It ends in resume(), which reads the run again.
Reread(t) ==
  /\ pc[t] = "reread"
  /\ Become(t, stored, "begin")
  /\ UNCHANGED <<stored, batch, counters>>

\* A call that has saved s goes on to its next node, or to its end.
GoOn(t, s, rest) ==
  LET next == IF rest = {} THEN ReadyNodes(s) ELSE rest
  IN  /\ stored' = s
      /\ batch' = [batch EXCEPT ![t] = next]
      /\ Become(t, s, IF next = {} THEN "end" ELSE "execute")
      /\ UNCHANGED counters

\* execute_state(): the run is saved as Running, whatever it was.  (The hook
\* before_workflow, which follows, is one that returns: outside the try block, an
\* exception of its own would leave the run Running.)
Begin(t) ==
  /\ pc[t] = "begin"
  /\ GoOn(t, [state[t] EXCEPT !.status = "running"], {})

\* What the handler of a node leaves: it has output, or asks to wait for a
\* signal it has not got.
Waiting(s, n) ==
  IF n \in Waits /\ n \notin s.signals THEN {WithNode(s, n, "waiting")} ELSE {}

Completed(s, n) ==
  IF n \in Waits /\ n \notin s.signals THEN {}
  ELSE {Activated([WithNode(s, n, "completed") EXCEPT !.signals = @ \ {n}],
                  n, taken) : taken \in SUBSET Outbound(n)}

\* One node is executed, in the copy, and the copy is saved.
ExecuteNode(t) ==
  /\ pc[t] = "execute"
  /\ \E n \in batch[t] :
       /\ IsFirst(n, batch[t])
       /\ \E s \in Waiting(state[t], n) \cup Completed(state[t], n) :
            GoOn(t, s, batch[t] \ {n})

\* The outcome is saved and the call returns.
Return(t, s) ==
  /\ stored' = s
  /\ Become(t, None, "idle")
  /\ batch' = [batch EXCEPT ![t] = {}]
  /\ UNCHANGED counters

\* Mutant: the nodes that wait are forgotten.
OutcomeIgnoresWaits(s) ==
  IF \E n \in Nodes : s.node[n] = "failed" THEN "failed" ELSE "completed"

Outcome(s) ==
  CASE \E n \in Nodes : s.node[n] = "failed" -> "failed"
    [] ~(\E n \in Nodes : s.node[n] \in {"failed", "waiting"}) -> "completed"
    [] OTHER -> "waiting"

\* Nothing is ready any more.
End(t) ==
  /\ pc[t] = "end"
  /\ Return(t, [state[t] EXCEPT !.status = Outcome(state[t])])

\* A node throws, which ends the call: the run is Failed, and so is the node if
\* it was its handler that threw.  Without a handler, or after an exception of
\* the hook before it, the node stays Running.
FailNode(t) ==
  /\ pc[t] = "execute"
  /\ \E n \in batch[t], to \in {"failed", "running"} :
       /\ IsFirst(n, batch[t])
       /\ n \in IF to = "failed" THEN MayFail ELSE MayNotStart
       /\ Return(t, [WithNode(state[t], n, to) EXCEPT !.status = "failed"])

\* The process dies and is started again over the files of FileWorkflowStore.
Crash ==
  /\ crashes < MaxCrashes
  /\ crashes' = crashes + 1
  /\ state' = [t \in Threads |-> None]
  /\ pc' = [t \in Threads |-> "idle"]
  /\ batch' = [t \in Threads |-> {}]
  /\ UNCHANGED <<stored, unneeded>>

Proceed(t) ==
  \/ SaveResponse(t) \/ Reread(t) \/ Begin(t)
  \/ ExecuteNode(t) \/ FailNode(t) \/ End(t)

Next ==
  \/ \E t \in Threads :
       \/ Run(t) \/ Resume(t) \/ Proceed(t)
       \/ \E n \in Waits : Respond(t, n)
  \/ Crash

Spec == Init /\ [][Next]_vars

\* Calls go on until they return: handlers are expected to come back.  Clients
\* answer every node that waits and resume a run that a crash interrupted.
FairSpec ==
  /\ Spec
  /\ \A t \in Threads : WF_vars(Proceed(t))
  /\ WF_vars(\E t \in Threads : Resume(t))
  /\ WF_vars(\E t \in Threads, n \in Waits :
               /\ stored # None /\ stored.node[n] = "waiting"
               /\ Respond(t, n))

(***************************************************************************)
(* Properties.                                                             *)
(***************************************************************************)
States == ({stored} \cup {state[t] : t \in Threads}) \ {None}

\* No node is executed too early, in the store or in any copy, whichever
\* branches were taken, answers came and saves overtook each other: a join for
\* "all" runs after the last of its sources, one for "any" after one of them,
\* and neither without an edge that was taken.
JoinsInTime ==
  \A s \in States, n \in Nodes :
    s.node[n] # "pending" /\ Inbound(n) # {} =>
      /\ \E e \in Inbound(n) :
           s.edge[e] = "activated" /\ s.node[Edges[e].from] = "completed"
      /\ n \notin WaitAny =>
           \A e \in Inbound(n) : s.node[Edges[e].from] = "completed"

\* A run that reads Completed is done: no node of it can run, waits or failed.
\* (A node that FailNode left Running may be among them: resume() passes
\* over it and reports the run Completed.)
CompletedIsDone ==
  stored # None /\ stored.status = "completed" =>
    \A n \in Nodes :
      ~Ready(stored, n) /\ stored.node[n] \notin {"waiting", "failed"}

Apart == \A t, u \in Threads : t # u => "idle" \in {pc[t], pc[u]}

\* A run ends if its waits are answered, it is resumed when a crash has left
\* nothing to answer, and calls on it stop overlapping: two that overlap can
\* lose each other's answers.
EveryRunEnds ==
  <>[]Apart =>
    (stored # None ~> stored # None /\ Ended)
=============================================================================
