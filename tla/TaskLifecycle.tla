--------------------------- MODULE TaskLifecycle ---------------------------
(***************************************************************************)
(* What the task runtime promises for tasks that are enqueued once and     *)
(* then worked off: a queued task is started by one worker, which owns it  *)
(* until it settles it; a cancellation may come at any time; nothing else  *)
(* changes a status.  TaskWorker implements it.                            *)
(***************************************************************************)
CONSTANTS Tasks, Workers, None

VARIABLES
  status,  \* status[t]
  owner    \* owner[t]: the worker that executes t, or None

vars == <<status, owner>>

Init ==
  /\ status \in [Tasks -> {"none", "queued"}]
  /\ owner = [t \in Tasks |-> None]

Start(w, t) ==
  /\ status[t] = "queued"
  /\ owner[t] = None
  /\ \A u \in Tasks : owner[u] # w
  /\ status' = [status EXCEPT ![t] = "running"]
  /\ owner' = [owner EXCEPT ![t] = w]

Settle(t, outcome) ==
  /\ owner[t] # None
  /\ status' = [status EXCEPT ![t] = outcome]
  /\ owner' = [owner EXCEPT ![t] = None]

Cancel(t) ==
  /\ status[t] # "none"
  /\ status' = [status EXCEPT ![t] = "cancelled"]
  /\ UNCHANGED owner

Next ==
  \E t \in Tasks :
    \/ \E w \in Workers : Start(w, t)
    \/ \E outcome \in {"completed", "failed", "cancelled"} : Settle(t, outcome)
    \/ Cancel(t)

Spec == Init /\ [][Next]_vars
=============================================================================
