--------------------------- MODULE MCSessionMemory ---------------------------
(* Instances of SessionMemory for TLC.                                     *)
EXTENDS SessionMemory

Background == [background |-> TRUE, compact_on_append |-> FALSE]

AnyOptions == OptionRecords

BackgroundOnly == {Background}
=============================================================================
