------------------------- MODULE MCExecutionBoard -------------------------
(* Instance of ExecutionBoard for TLC: two executions of one employee.     *)
EXTENDS ExecutionBoard, TLC

CONSTANTS e1, e2, d1, d2, bot,
          MaxLeases   \* bound: leases granted, over both executions

MCExecution == {e1, e2}
MCEmployee == {bot}
MCEmployeeOf == [e \in MCExecution |-> bot]
MCCapacity == [b \in MCEmployee |-> 1]
MCMaxAttempts == [e \in MCExecution |-> IF e = e1 THEN 2 ELSE 1]
Symmetry == Permutations({d1, d2})

\* Open clients may reclaim for ever; the leases are capped.
MCNext == BoardNext /\ execs'[e1].gen + execs'[e2].gen <= MaxLeases
MCSpec == BoardInit /\ [][MCNext]_boardVars
=============================================================================
