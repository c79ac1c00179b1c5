----------------------------- MODULE MCPipeline -----------------------------
(* A small instance of the two services joined. *)
EXTENDS PipelineRefinement

CONSTANT k1

OneKey == [r \in Requests |-> k1]

\* A caller composes an event about any of the payments, decided or not.
OneEach == [id: {9}, kind: {"succeeded"}, pay: Requests, amount: {1}]
=============================================================================
