----------------------------- MODULE MCAsyncRun -----------------------------
(* Instances of AsyncRun for TLC.                                          *)
EXTENDS AsyncRun

CONSTANTS root, child1, child2, other

\* One root run with child1 and child2.
Family == [t \in Tasks |-> IF t \in {child1, child2} THEN root ELSE None]

NonePreloaded == <<>>

\* The run was enqueued before any thread starts.
RootPreloaded == <<root>>

\* A task of another type was enqueued first.
OtherAndRoot == <<other, root>>
=============================================================================
