---------------------------- MODULE MCTaskWorker ----------------------------
(* Instances of TaskWorker for TLC.                                         *)
EXTENDS TaskWorker

CONSTANTS t1, t2

\* Both tasks are created and enqueued before the workers start.
AllPreloaded == <<t1, t2>>

NonePreloaded == <<>>
=============================================================================
