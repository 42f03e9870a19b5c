----------------------------- MODULE MCPipeline -----------------------------
(* Small instances of Pipeline for TLC: a pipeline, its reverse, and a       *)
(* shorter one that leaves a worker behind with its old hops.                *)
EXTENDS Pipeline

CONSTANTS a, b, c

Chains == {<<a, b, c>>, <<c, b, a>>, <<c, a>>}
AllFaults == FaultKind
=============================================================================
