---------------------------- MODULE MCAutonomous ----------------------------
(* Instances of Autonomous for TLC.                                        *)
EXTENDS Autonomous

CONSTANTS inspect, edit, verify

\* Edit depends on inspect; inspect appends verify, which depends on edit.
Chain == [s \in Steps |->
  CASE s = edit -> {inspect} [] s = verify -> {edit} [] OTHER -> {}]

InspectAndEdit == <<inspect, edit>>

InspectAppends == [s \in Steps |-> IF s = inspect THEN <<verify>> ELSE <<>>]
=============================================================================
