----------------------------- MODULE MCPlatform -----------------------------
(***************************************************************************)
(* Platform for TLC.                                                       *)
(***************************************************************************)
EXTENDS Platform, TLC

CONSTANT BrokenWorkflows  \* executions whose last step is not well formed

MCInvalidSteps == BrokenWorkflows \X {NumSteps - 1}

(* The processes of a kind are interchangeable.                            *)
Symmetry == Permutations(Workers) \cup Permutations(Schedulers)
                \cup Permutations(Operators)
=============================================================================
