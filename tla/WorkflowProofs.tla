--------------------------- MODULE WorkflowProofs ---------------------------
(***************************************************************************)
(* Theorems about Workflow, for every graph of nodes and edges, every      *)
(* number of threads and every bound.                                      *)
(***************************************************************************)
EXTENDS Workflow, SequenceTheorems, TLAPS

-----------------------------------------------------------------------------
(* The operators that change the state of a run, field by field.           *)

EdgeIds == DOMAIN Edges

LEMMA EdgeEnds ==
  ASSUME NEW e \in EdgeIds
  PROVE  Edges[e].from \in Nodes /\ Edges[e].to \in Nodes
<1>1. Edges \in Seq([from : Nodes, to : Nodes, conditional : BOOLEAN])
  BY DefinitionAssumption
<1>2. Edges[e] \in [from : Nodes, to : Nodes, conditional : BOOLEAN]
  BY <1>1, LenProperties, ElementOfSeq DEF EdgeIds
<1> QED  BY <1>2

LEMMA InitialStateFields ==
  /\ InitialState \in State
  /\ InitialState.status = "pending"
  /\ \A n \in Nodes : InitialState.node[n] = "pending"
  /\ \A e \in EdgeIds : InitialState.edge[e] = "pending"
BY DEF InitialState, State, RunStatus, NodeStatus, EdgeStatus, EdgeIds

LEMMA WithNodeFields ==
  ASSUME NEW s \in State, NEW n \in Nodes, NEW to \in NodeStatus
  PROVE  /\ WithNode(s, n, to) \in State
         /\ WithNode(s, n, to).status = s.status
         /\ WithNode(s, n, to).edge = s.edge
         /\ WithNode(s, n, to).signals = s.signals
         /\ \A m \in Nodes :
              WithNode(s, n, to).node[m] = IF m = n THEN to ELSE s.node[m]
BY DEF WithNode, State

LEMMA WithStatusFields ==
  ASSUME NEW s \in State, NEW status \in RunStatus
  PROVE  /\ [s EXCEPT !.status = status] \in State
         /\ [s EXCEPT !.status = status].status = status
         /\ [s EXCEPT !.status = status].node = s.node
         /\ [s EXCEPT !.status = status].edge = s.edge
BY DEF State

LEMMA WithSignalsFields ==
  ASSUME NEW s \in State, NEW signals \in SUBSET Nodes
  PROVE  /\ [s EXCEPT !.signals = signals] \in State
         /\ [s EXCEPT !.signals = signals].status = s.status
         /\ [s EXCEPT !.signals = signals].node = s.node
         /\ [s EXCEPT !.signals = signals].edge = s.edge
BY DEF State

LEMMA ActivatedFields ==
  ASSUME NEW s \in State, NEW n \in Nodes, NEW taken \in SUBSET Outbound(n)
  PROVE  /\ Activated(s, n, taken) \in State
         /\ Activated(s, n, taken).status = s.status
         /\ Activated(s, n, taken).node = s.node
         /\ \A e \in EdgeIds :
              IF Edges[e].from = n THEN Activated(s, n, taken).edge[e] # "pending"
              ELSE Activated(s, n, taken).edge[e] = s.edge[e]
<1> DEFINE edge == [e \in DOMAIN Edges |->
                      IF e \notin Outbound(n) THEN s.edge[e]
                      ELSE IF ~Edges[e].conditional \/ e \in taken THEN "activated"
                      ELSE "skipped"]
<1>1. Activated(s, n, taken) = [s EXCEPT !.edge = edge]
  BY DEF Activated
<1>2. edge \in [DOMAIN Edges -> EdgeStatus]
  BY DEF State, EdgeStatus
<1>3. \A e \in EdgeIds :
        IF Edges[e].from = n THEN edge[e] # "pending" ELSE edge[e] = s.edge[e]
  BY DEF EdgeIds, Outbound
<1> HIDE DEF edge
<1>4. /\ [s EXCEPT !.edge = edge] \in State
      /\ [s EXCEPT !.edge = edge].status = s.status
      /\ [s EXCEPT !.edge = edge].node = s.node
      /\ [s EXCEPT !.edge = edge].edge = edge
  BY <1>2 DEF State
<1> QED  BY <1>1, <1>3, <1>4

-----------------------------------------------------------------------------
(* What executing a node leaves of a state in which it is ready.           *)

\* An edge that is settled comes from a node that has been completed, and a
\* node that has been started was ready.
Sound(s) ==
  /\ \A e \in EdgeIds : s.edge[e] # "pending" => s.node[Edges[e].from] = "completed"
  /\ \A n \in Nodes :
       s.node[n] # "pending" /\ Inbound(n) # {} =>
         /\ \E e \in Inbound(n) :
              s.edge[e] = "activated" /\ s.node[Edges[e].from] = "completed"
         /\ n \notin WaitAny =>
              \A e \in Inbound(n) : s.node[Edges[e].from] = "completed"

\* r is what is left of s when node n, which was ready, is executed.
Executed(s, n, r) ==
  /\ r \in State
  /\ r.node[n] # "pending"
  /\ \A m \in Nodes : m # n => r.node[m] = s.node[m]
  /\ \A e \in EdgeIds :
       \/ r.edge[e] = s.edge[e]
       \/ Edges[e].from = n /\ r.node[n] = "completed" /\ r.edge[e] # "pending"

LEMMA ExecutedSound ==
  ASSUME NEW s \in State, NEW n \in Nodes, NEW r,
         Sound(s), Ready(s, n), Executed(s, n, r)
  PROVE  Sound(r)
<1>1. \A e \in EdgeIds : Edges[e].from = n => s.edge[e] = "pending"
  BY DEF Sound, Ready
<1>2. \A m \in Nodes : s.node[m] = "completed" => r.node[m] = "completed"
  BY DEF Executed, Ready
<1>3. \A e \in EdgeIds : s.edge[e] # "pending" => r.edge[e] = s.edge[e]
  BY <1>1 DEF Executed
<1>4. ASSUME NEW e \in EdgeIds, r.edge[e] # "pending"
      PROVE  r.node[Edges[e].from] = "completed"
  BY <1>2, <1>4, EdgeEnds DEF Executed, Sound
<1>5. ASSUME NEW m \in Nodes, r.node[m] # "pending", Inbound(m) # {}
      PROVE  /\ \E e \in Inbound(m) :
                  r.edge[e] = "activated" /\ r.node[Edges[e].from] = "completed"
             /\ m \notin WaitAny =>
                  \A e \in Inbound(m) : r.node[Edges[e].from] = "completed"
  <2>1. Inbound(m) \subseteq EdgeIds
    BY DEF Inbound, EdgeIds
  <2>2. /\ \E e \in Inbound(m) :
             s.edge[e] = "activated" /\ s.node[Edges[e].from] = "completed"
        /\ m \notin WaitAny =>
             \A e \in Inbound(m) : s.node[Edges[e].from] = "completed"
    <3>1. CASE m = n
      BY <1>5, <2>1, <3>1 DEF Ready, InboundReady, Sound
    <3>2. CASE m # n
      BY <1>5, <3>2 DEF Executed, Sound
    <3> QED  BY <3>1, <3>2
  <2> QED  BY <1>2, <1>3, <2>1, <2>2, EdgeEnds
<1> QED  BY <1>4, <1>5 DEF Sound

\* The other nodes that were ready still are.
LEMMA ExecutedReady ==
  ASSUME NEW s \in State, NEW n \in Nodes, NEW r, NEW m \in Nodes, m # n,
         Sound(s), Ready(s, n), Ready(s, m), Executed(s, n, r)
  PROVE  Ready(r, m)
<1>1. \A e \in EdgeIds : s.edge[e] # "pending" => r.edge[e] = s.edge[e]
  BY DEF Sound, Ready, Executed
<1>2. r.node[m] = "pending"
  BY DEF Executed, Ready
<1>3. Inbound(m) \subseteq EdgeIds
  BY DEF Inbound, EdgeIds
<1>4. InboundReady(r, m)
  BY <1>1, <1>3 DEF Ready, InboundReady
<1> QED  BY <1>2, <1>4 DEF Ready

LEMMA WaitingExecutes ==
  ASSUME NEW s \in State, NEW n \in Nodes, NEW r \in Waiting(s, n)
  PROVE  Executed(s, n, r) /\ r.status = s.status
<1>1. r = WithNode(s, n, "waiting")
  BY DEF Waiting
<1>2. "waiting" \in NodeStatus
  BY DEF NodeStatus
<1>3. /\ r \in State /\ r.status = s.status /\ r.edge = s.edge
      /\ \A m \in Nodes : r.node[m] = IF m = n THEN "waiting" ELSE s.node[m]
  BY <1>1, <1>2, WithNodeFields
<1> QED  BY <1>3 DEF Executed

LEMMA CompletedExecutes ==
  ASSUME NEW s \in State, NEW n \in Nodes, NEW r \in Completed(s, n)
  PROVE  Executed(s, n, r) /\ r.status = s.status
<1> DEFINE u == WithNode(s, n, "completed")
           v == [u EXCEPT !.signals = @ \ {n}]
<1>1. PICK taken \in SUBSET Outbound(n) : r = Activated(v, n, taken)
  BY DEF Completed
<1>2. /\ u \in State /\ u.status = s.status /\ u.edge = s.edge
      /\ \A m \in Nodes : u.node[m] = IF m = n THEN "completed" ELSE s.node[m]
  BY WithNodeFields DEF NodeStatus
<1> HIDE DEF u
<1>3. u.signals \ {n} \in SUBSET Nodes
  BY <1>2 DEF State
<1>4. v \in State /\ v.status = u.status /\ v.node = u.node /\ v.edge = u.edge
  BY <1>2, <1>3, WithSignalsFields
<1> HIDE DEF v
<1>5. /\ r \in State /\ r.status = v.status /\ r.node = v.node
      /\ \A e \in EdgeIds :
           IF Edges[e].from = n THEN r.edge[e] # "pending" ELSE r.edge[e] = v.edge[e]
  BY <1>1, <1>4, ActivatedFields
<1> QED  BY <1>2, <1>4, <1>5 DEF Executed

LEMMA FailureExecutes ==
  ASSUME NEW s \in State, NEW n \in Nodes, NEW to \in {"failed", "running"}
  PROVE  LET r == [WithNode(s, n, to) EXCEPT !.status = "failed"]
         IN  Executed(s, n, r) /\ r.status = "failed"
<1> DEFINE u == WithNode(s, n, to)
<1>0. to \in NodeStatus
  BY DEF NodeStatus
<1>1. /\ u \in State /\ u.edge = s.edge
      /\ \A m \in Nodes : u.node[m] = IF m = n THEN to ELSE s.node[m]
  BY <1>0, WithNodeFields
<1> HIDE DEF u
<1>2. LET r == [u EXCEPT !.status = "failed"]
      IN  r \in State /\ r.status = "failed" /\ r.node = u.node /\ r.edge = u.edge
  BY <1>1, WithStatusFields DEF RunStatus
<1>3. LET r == [u EXCEPT !.status = "failed"]
      IN  Executed(s, n, r) /\ r.status = "failed"
  BY <1>1, <1>2 DEF Executed
<1> QED  BY <1>3 DEF u

-----------------------------------------------------------------------------
(* The inductive invariant.  Every state of the run that is about, in the  *)
(* store or in the copy of a call, is Sound, whichever save overtook       *)
(* which; the nodes a call has still to execute are ready in its own copy. *)

Working == {"answer", "begin", "execute", "end"}

Done(s) ==
  s.status = "completed" =>
    \A n \in Nodes : ~Ready(s, n) /\ s.node[n] \notin {"waiting", "failed"}

CopyInv(t) ==
  /\ pc[t] \in Working => state[t] \in State /\ Sound(state[t])
  /\ pc[t] \notin Working => state[t] = None
  /\ pc[t] # "idle" => stored # None
  /\ pc[t] = "answer" => Done(state[t])
  /\ pc[t] \in {"execute", "end"} => state[t].status = "running"
  /\ pc[t] = "execute" => \A n \in batch[t] : Ready(state[t], n)
  /\ pc[t] = "end" => ReadyNodes(state[t]) = {}

StoreInv == stored # None => stored \in State /\ Sound(stored) /\ Done(stored)

IInv == TypeOK /\ StoreInv /\ \A t \in Threads : CopyInv(t)

\* What one call does to its copy leaves those of the others as they are.
LEMMA Others ==
  ASSUME IInv, NEW t \in Threads, stored' # None,
         \A u \in Threads : u # t =>
           pc'[u] = pc[u] /\ state'[u] = state[u] /\ batch'[u] = batch[u],
         TypeOK', StoreInv', CopyInv(t)'
  PROVE  IInv'
<1>1. ASSUME NEW u \in Threads, u # t PROVE CopyInv(u)'
  BY <1>1 DEF IInv, CopyInv
<1> QED  BY <1>1 DEF IInv

LEMMA GoOnKeeps ==
  ASSUME IInv, NEW t \in Threads, NEW s \in State, NEW rest \in SUBSET Nodes,
         Sound(s), s.status = "running", \A n \in rest : Ready(s, n),
         s # None, GoOn(t, s, rest)
  PROVE  IInv'
<1> DEFINE next == IF rest = {} THEN ReadyNodes(s) ELSE rest
<1>1. /\ next \in SUBSET Nodes /\ \A n \in next : Ready(s, n)
      /\ next = {} => ReadyNodes(s) = {}
  BY DEF ReadyNodes
<1>2. /\ stored' = s
      /\ batch' = [batch EXCEPT ![t] = next]
      /\ state' = [state EXCEPT ![t] = s]
      /\ pc' = [pc EXCEPT ![t] = IF next = {} THEN "end" ELSE "execute"]
      /\ UNCHANGED counters
  BY DEF GoOn, Become
<1> HIDE DEF next
<1>3. TypeOK'
  BY <1>1, <1>2 DEF IInv, TypeOK, counters
<1>4. Done(s)
  BY DEF Done
<1>5. StoreInv'
  BY <1>2, <1>4 DEF StoreInv
<1>6. /\ pc'[t] = IF next = {} THEN "end" ELSE "execute"
      /\ state'[t] = s /\ batch'[t] = next
  BY <1>2 DEF IInv, TypeOK
<1>7. CopyInv(t)'
  BY <1>1, <1>2, <1>6 DEF CopyInv, Working
<1>8. \A u \in Threads : u # t =>
        pc'[u] = pc[u] /\ state'[u] = state[u] /\ batch'[u] = batch[u]
  BY <1>2 DEF IInv, TypeOK
<1> QED  BY <1>2, <1>3, <1>5, <1>7, <1>8, Others

LEMMA ReturnKeeps ==
  ASSUME IInv, NEW t \in Threads, NEW s \in State,
         Sound(s), Done(s), s # None, Return(t, s)
  PROVE  IInv'
<1>1. /\ stored' = s
      /\ batch' = [batch EXCEPT ![t] = {}]
      /\ state' = [state EXCEPT ![t] = None]
      /\ pc' = [pc EXCEPT ![t] = "idle"]
      /\ UNCHANGED counters
  BY DEF Return, Become
<1>2. TypeOK'
  BY <1>1 DEF IInv, TypeOK, counters
<1>3. StoreInv'
  BY <1>1 DEF StoreInv
<1>4. pc'[t] = "idle" /\ state'[t] = None
  BY <1>1 DEF IInv, TypeOK
<1>5. CopyInv(t)'
  BY <1>4 DEF CopyInv, Working
<1>6. \A u \in Threads : u # t =>
        pc'[u] = pc[u] /\ state'[u] = state[u] /\ batch'[u] = batch[u]
  BY <1>1 DEF IInv, TypeOK
<1> QED  BY <1>1, <1>2, <1>3, <1>5, <1>6, Others

\* A call that reads or makes a state and has not written the store.
LEMMA BecomeKeeps ==
  ASSUME IInv, NEW t \in Threads, NEW s, NEW label \in {"answer", "begin"},
         s \in State, Sound(s), label = "answer" => Done(s), stored # None,
         Become(t, s, label), UNCHANGED <<stored, batch, crashes>>,
         unneeded' \in 0..MaxUnneeded
  PROVE  IInv'
<1>1. /\ state' = [state EXCEPT ![t] = s] /\ pc' = [pc EXCEPT ![t] = label]
  BY DEF Become
<1>2. TypeOK'
  BY <1>1 DEF IInv, TypeOK
<1>3. StoreInv'
  BY DEF IInv, StoreInv
<1>4. pc'[t] = label /\ state'[t] = s
  BY <1>1 DEF IInv, TypeOK
<1>5. CopyInv(t)'
  BY <1>4 DEF CopyInv, Working
<1>6. \A u \in Threads : u # t =>
        pc'[u] = pc[u] /\ state'[u] = state[u] /\ batch'[u] = batch[u]
  BY <1>1 DEF IInv, TypeOK
<1> QED  BY <1>2, <1>3, <1>5, <1>6, Others

-----------------------------------------------------------------------------
(* The steps.                                                              *)

LEMMA InvInit == Init => IInv
<1> SUFFICES ASSUME Init PROVE IInv
  OBVIOUS
<1>1. TypeOK
  BY BoundsAssumption DEF Init, TypeOK
<1>2. StoreInv
  BY DEF Init, StoreInv
<1>3. ASSUME NEW t \in Threads PROVE CopyInv(t)
  BY DEF Init, CopyInv, Working
<1> QED  BY <1>1, <1>2, <1>3 DEF IInv

LEMMA InvRun ==
  ASSUME IInv, NEW t \in Threads, Run(t)
  PROVE  IInv'
<1>1. InitialState \in State /\ Sound(InitialState) /\ Done(InitialState)
  BY InitialStateFields DEF Sound, Done
<1>2. /\ stored' = InitialState /\ batch' = batch
      /\ state' = [state EXCEPT ![t] = InitialState]
      /\ pc' = [pc EXCEPT ![t] = "begin"]
      /\ UNCHANGED counters
  BY DEF Run, Become
<1>3. TypeOK'
  BY <1>1, <1>2 DEF IInv, TypeOK, counters
<1>4. StoreInv' /\ stored' # None
  BY <1>1, <1>2, NoneAssumption DEF StoreInv
<1>5. pc'[t] = "begin" /\ state'[t] = InitialState
  BY <1>2 DEF IInv, TypeOK
<1>6. CopyInv(t)'
  BY <1>1, <1>4, <1>5 DEF CopyInv, Working
<1>7. \A u \in Threads : u # t =>
        pc'[u] = pc[u] /\ state'[u] = state[u] /\ batch'[u] = batch[u]
  BY <1>2 DEF IInv, TypeOK
<1> QED  BY <1>3, <1>4, <1>6, <1>7, Others

LEMMA InvResume ==
  ASSUME IInv, NEW t \in Threads, Resume(t) \/ Reread(t)
  PROVE  IInv'
<1>1. stored # None /\ stored \in State /\ Sound(stored)
  BY DEF IInv, StoreInv, CopyInv, Resume, Reread
<1>2. unneeded' \in 0..MaxUnneeded
  BY BoundsAssumption DEF IInv, TypeOK, Resume, Reread, counters
<1>3. Become(t, stored, "begin") /\ UNCHANGED <<stored, batch, crashes>>
  BY DEF Resume, Reread, counters
<1> QED  BY <1>1, <1>2, <1>3, BecomeKeeps

\* An answer opens a node that waits, which no other node can have relied on.
LEMMA InvRespond ==
  ASSUME IInv, NEW t \in Threads, NEW n \in Waits, Respond(t, n)
  PROVE  IInv'
<1> DEFINE u == WithNode(stored, n, "pending")
           r == [u EXCEPT !.signals = @ \cup {n}]
<1>1. /\ stored # None /\ stored \in State /\ Sound(stored) /\ Done(stored)
      /\ n \in Nodes /\ "pending" \in NodeStatus
  BY DefinitionAssumption DEF IInv, StoreInv, Respond, NodeStatus
<1>2. /\ stored.node[n] \in {"waiting", "pending"}
      /\ unneeded' \in 0..MaxUnneeded
  BY BoundsAssumption DEF IInv, TypeOK, Respond, Wanted
<1>3. /\ u \in State /\ u.status = stored.status /\ u.edge = stored.edge
      /\ \A m \in Nodes : u.node[m] = IF m = n THEN "pending" ELSE stored.node[m]
  BY <1>1, WithNodeFields
<1> HIDE DEF u
<1>4. u.signals \cup {n} \in SUBSET Nodes
  BY <1>1, <1>3 DEF State
<1>5. r \in State /\ r.status = u.status /\ r.node = u.node /\ r.edge = u.edge
  BY <1>3, <1>4, WithSignalsFields
<1> HIDE DEF r
<1>6. \A m \in Nodes : stored.node[m] = "completed" => r.node[m] = "completed"
  BY <1>2, <1>3, <1>5
<1>7. \A m \in Nodes : r.node[m] # "pending" => r.node[m] = stored.node[m]
  BY <1>3, <1>5
<1>8. Sound(r)
  <2>1. r.edge = stored.edge
    BY <1>3, <1>5
  <2>2. \A e \in EdgeIds : r.edge[e] # "pending" => r.node[Edges[e].from] = "completed"
    BY <1>1, <1>6, <2>1, EdgeEnds DEF Sound
  <2>3. ASSUME NEW m \in Nodes, r.node[m] # "pending", Inbound(m) # {}
        PROVE  /\ \E e \in Inbound(m) :
                    r.edge[e] = "activated" /\ r.node[Edges[e].from] = "completed"
               /\ m \notin WaitAny =>
                    \A e \in Inbound(m) : r.node[Edges[e].from] = "completed"
    <3>1. Inbound(m) \subseteq EdgeIds
      BY DEF Inbound, EdgeIds
    <3>2. stored.node[m] # "pending"
      BY <1>7, <2>3
    <3> QED  BY <1>1, <1>6, <2>1, <2>3, <3>1, <3>2, EdgeEnds DEF Sound
  <2> QED  BY <2>2, <2>3 DEF Sound
<1>9. Done(r)
  <2> SUFFICES ASSUME r.status = "completed", NEW m \in Nodes
               PROVE  ~Ready(r, m) /\ r.node[m] \notin {"waiting", "failed"}
    BY DEF Done
  <2>1. \A k \in Nodes : ~Ready(stored, k) /\ stored.node[k] \notin {"waiting", "failed"}
    BY <1>1, <1>3, <1>5 DEF Done
  <2>2. r.node[m] = stored.node[m] /\ r.edge = stored.edge
    BY <1>1, <1>2, <1>3, <1>5, <2>1
  <2>3. Ready(r, m) => Ready(stored, m)
    BY <2>2 DEF Ready, InboundReady
  <2> QED  BY <2>1, <2>2, <2>3
<1>10. Become(t, r, "answer") /\ UNCHANGED <<stored, batch, crashes>>
  BY DEF Respond, r, u
<1> QED  BY <1>1, <1>2, <1>5, <1>8, <1>9, <1>10, BecomeKeeps

LEMMA InvSaveResponse ==
  ASSUME IInv, NEW t \in Threads, SaveResponse(t)
  PROVE  IInv'
<1>1. state[t] \in State /\ Sound(state[t]) /\ Done(state[t])
  BY DEF IInv, CopyInv, SaveResponse, Working
<1>2. /\ stored' = state[t] /\ UNCHANGED <<batch, counters>>
      /\ state' = [state EXCEPT ![t] = None]
      /\ pc' = [pc EXCEPT ![t] = "reread"]
  BY DEF SaveResponse, Become
<1>3. TypeOK'
  BY <1>1, <1>2 DEF IInv, TypeOK, counters
<1>4. StoreInv' /\ stored' # None
  BY <1>1, <1>2, NoneAssumption DEF StoreInv
<1>5. pc'[t] = "reread" /\ state'[t] = None
  BY <1>2 DEF IInv, TypeOK
<1>6. CopyInv(t)'
  BY <1>4, <1>5 DEF CopyInv, Working
<1>7. \A u \in Threads : u # t =>
        pc'[u] = pc[u] /\ state'[u] = state[u] /\ batch'[u] = batch[u]
  BY <1>2 DEF IInv, TypeOK
<1> QED  BY <1>3, <1>4, <1>6, <1>7, Others

LEMMA InvBegin ==
  ASSUME IInv, NEW t \in Threads, Begin(t)
  PROVE  IInv'
<1> DEFINE r == [state[t] EXCEPT !.status = "running"]
<1>1. state[t] \in State /\ Sound(state[t])
  BY DEF IInv, CopyInv, Begin, Working
<1>2. /\ r \in State /\ r.status = "running"
      /\ r.node = state[t].node /\ r.edge = state[t].edge
  BY <1>1, WithStatusFields DEF RunStatus
<1>3. GoOn(t, r, {})
  BY DEF Begin
<1> HIDE DEF r
<1>4. Sound(r)
  BY <1>1, <1>2 DEF Sound
<1> QED  BY <1>2, <1>3, <1>4, NoneAssumption, GoOnKeeps

LEMMA InvExecuteNode ==
  ASSUME IInv, NEW t \in Threads, ExecuteNode(t)
  PROVE  IInv'
<1>1. PICK n \in batch[t] :
        \E s \in Waiting(state[t], n) \cup Completed(state[t], n) :
          GoOn(t, s, batch[t] \ {n})
  BY DEF ExecuteNode
<1>2. PICK r \in Waiting(state[t], n) \cup Completed(state[t], n) :
        GoOn(t, r, batch[t] \ {n})
  BY <1>1
<1>3. /\ state[t] \in State /\ Sound(state[t]) /\ state[t].status = "running"
      /\ \A m \in batch[t] : Ready(state[t], m)
  BY DEF IInv, CopyInv, ExecuteNode, Working
<1>4. n \in Nodes /\ batch[t] \in SUBSET Nodes
  BY DEF IInv, TypeOK
<1>5. Executed(state[t], n, r) /\ r.status = "running"
  BY <1>2, <1>3, <1>4, WaitingExecutes, CompletedExecutes
<1>6. r \in State /\ Sound(r)
  BY <1>1, <1>3, <1>4, <1>5, ExecutedSound DEF Executed
<1>7. \A m \in batch[t] \ {n} : Ready(r, m)
  BY <1>1, <1>3, <1>4, <1>5, ExecutedReady
<1> QED  BY <1>2, <1>4, <1>5, <1>6, <1>7, NoneAssumption, GoOnKeeps

LEMMA InvFailNode ==
  ASSUME IInv, NEW t \in Threads, FailNode(t)
  PROVE  IInv'
<1>1. PICK n \in batch[t], to \in {"failed", "running"} :
        Return(t, [WithNode(state[t], n, to) EXCEPT !.status = "failed"])
  BY DEF FailNode
<1> DEFINE r == [WithNode(state[t], n, to) EXCEPT !.status = "failed"]
<1>2. /\ state[t] \in State /\ Sound(state[t]) /\ Ready(state[t], n)
      /\ n \in Nodes
  BY DEF IInv, TypeOK, CopyInv, FailNode, Working
<1>3. Executed(state[t], n, r) /\ r.status = "failed"
  BY <1>2, FailureExecutes
<1> HIDE DEF r
<1>4. r \in State /\ Sound(r) /\ Done(r)
  BY <1>2, <1>3, ExecutedSound DEF Executed, Done
<1>5. Return(t, r)
  BY <1>1 DEF r
<1> QED  BY <1>4, <1>5, NoneAssumption, ReturnKeeps

LEMMA InvEnd ==
  ASSUME IInv, NEW t \in Threads, End(t)
  PROVE  IInv'
<1> DEFINE s == state[t]
           r == [s EXCEPT !.status = Outcome(s)]
<1>1. s \in State /\ Sound(s) /\ ReadyNodes(s) = {}
  BY DEF IInv, CopyInv, End, Working
<1>2. Return(t, r)
  BY DEF End
<1> HIDE DEF s
<1>3. /\ Outcome(s) \in RunStatus
      /\ Outcome(s) = "completed" =>
           \A n \in Nodes : s.node[n] \notin {"failed", "waiting"}
  BY DEF Outcome, RunStatus
<1>4. /\ r \in State /\ r.status = Outcome(s)
      /\ r.node = s.node /\ r.edge = s.edge
  BY <1>1, <1>3, WithStatusFields
<1> HIDE DEF r
<1>5. Sound(r)
  BY <1>1, <1>4 DEF Sound
<1>6. \A n \in Nodes : ~Ready(r, n)
  BY <1>1, <1>4 DEF ReadyNodes, Ready, InboundReady
<1>7. Done(r)
  BY <1>3, <1>4, <1>6 DEF Done
<1> QED  BY <1>2, <1>4, <1>5, <1>7, NoneAssumption, ReturnKeeps

LEMMA InvCrash ==
  ASSUME IInv, Crash
  PROVE  IInv'
<1>1. TypeOK'
  BY BoundsAssumption DEF IInv, TypeOK, Crash
<1>2. StoreInv'
  BY DEF IInv, StoreInv, Crash
<1>3. ASSUME NEW t \in Threads PROVE CopyInv(t)'
  BY DEF Crash, CopyInv, Working
<1> QED  BY <1>1, <1>2, <1>3 DEF IInv

LEMMA InvStep == IInv /\ [Next]_vars => IInv'
<1> SUFFICES ASSUME IInv, [Next]_vars PROVE IInv'
  OBVIOUS
<1>1. CASE UNCHANGED vars
  BY <1>1 DEF IInv, TypeOK, StoreInv, CopyInv, vars, work, counters
<1>2. ASSUME NEW t \in Threads, Run(t) \/ Resume(t) PROVE IInv'
  BY <1>2, InvRun, InvResume
<1>3. ASSUME NEW t \in Threads, NEW n \in Waits, Respond(t, n) PROVE IInv'
  BY <1>3, InvRespond
<1>4. ASSUME NEW t \in Threads, Proceed(t) PROVE IInv'
  BY <1>4, InvSaveResponse, InvResume, InvBegin, InvExecuteNode, InvFailNode, InvEnd
     DEF Proceed
<1>5. CASE Crash
  BY <1>5, InvCrash
<1> QED  BY <1>1, <1>2, <1>3, <1>4, <1>5 DEF Next

LEMMA InvAlways == Spec => []IInv
BY InvInit, InvStep, PTL DEF Spec

\* Every variable keeps its type, for every graph and any number of threads.
THEOREM TypeCorrect == Spec => []TypeOK
<1>1. IInv => TypeOK
  BY DEF IInv
<1> QED  BY <1>1, InvAlways, PTL

\* No node runs before its joins let it, in any graph, whatever calls overlap
\* and whichever of their saves are lost.
THEOREM JoinsAlwaysInTime == Spec => []JoinsInTime
<1>1. IInv => JoinsInTime
  <2> SUFFICES ASSUME IInv, NEW s \in States PROVE Sound(s)
    BY DEF JoinsInTime, Sound
  <2>1. CASE s = stored
    BY <2>1 DEF IInv, StoreInv, States
  <2>2. ASSUME NEW t \in Threads, s = state[t] PROVE Sound(s)
    BY <2>2 DEF IInv, CopyInv, States
  <2> QED  BY <2>1, <2>2 DEF States
<1> QED  BY <1>1, InvAlways, PTL

\* A run that reads Completed has no node left that could run, waits or failed,
\* in any graph and whatever calls overlap.
THEOREM CompletedAlwaysDone == Spec => []CompletedIsDone
<1>1. IInv => CompletedIsDone
  BY DEF IInv, StoreInv, Done, CompletedIsDone
<1> QED  BY <1>1, InvAlways, PTL
=============================================================================
