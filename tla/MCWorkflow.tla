----------------------------- MODULE MCWorkflow -----------------------------
(* Instances of Workflow for TLC.                                          *)
EXTENDS Workflow

CONSTANTS start, approve, hook, both, first

\* Two waits side by side, joined once by "all" and once by "any".
Review == <<start, approve, hook, both, first>>

Edge(from, to, conditional) ==
  [from |-> from, to |-> to, conditional |-> conditional]

ReviewEdges ==
  << Edge(start, approve, FALSE), Edge(start, hook, FALSE),
     Edge(approve, both, FALSE), Edge(hook, both, FALSE),
     Edge(approve, first, TRUE), Edge(hook, first, FALSE) >>
=============================================================================
