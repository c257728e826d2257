------------------------ MODULE MCExecutionRuntime ------------------------
(* Instances of ExecutionRuntime for TLC.                                  *)
EXTENDS ExecutionRuntime, TLC

CONSTANTS bot, Attempts, Cap

MCEmployeeOf == [e \in Execution |-> bot]
MCCapacity == [b \in Employee |-> Cap]
MCMaxAttempts == [e \in Execution |-> Attempts]
Symmetry == Permutations(Dispatcher) \cup Permutations(Handler)
=============================================================================
