---------------------------- MODULE MCToolClient ----------------------------
(* Instances of ToolClient for TLC.                                        *)
EXTENDS ToolClient

CONSTANTS c1, c2, k1

\* c1 and c2 are calls with one key.
OneKey == [c \in Calls |-> k1]

\* c2 begins when c1 has been registered: it joins it or repeats it.
Repeated == [c \in Calls |-> IF c = c2 THEN c1 ELSE None]

Unordered == [c \in Calls |-> None]
=============================================================================
