------------------------------ MODULE MCPipeline ------------------------------
(* Instances of Pipeline for TLC. *)
EXTENDS Pipeline

\* Bound: the proposals made, where the races may make one per view and node.  What
\* follows a third one is not examined.
MaxPrepares  == 2
FewProposals == Cardinality(prepares) <= MaxPrepares
===============================================================================
