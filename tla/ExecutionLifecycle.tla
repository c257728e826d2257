------------------------- MODULE ExecutionLifecycle -------------------------
(***************************************************************************)
(* What the execution API promises of one execution, and nothing about how *)
(* it is kept: the status and the attempt count a caller of                *)
(* GET /executions/{id} may see, in which order, and that an admitted      *)
(* execution ends (internal/execution/execution.go, Status and Terminal).  *)
(***************************************************************************)
EXTENDS Integers

CONSTANTS Execution, MaxAttempts

VARIABLES status, attempt

Init ==
    /\ status = [e \in Execution |-> "absent"]
    /\ attempt = [e \in Execution |-> 0]

Admit(e) ==
    /\ status[e] = "absent"
    /\ status' = [status EXCEPT ![e] = "pending"]
    /\ UNCHANGED attempt

Start(e) ==
    /\ status[e] = "pending" /\ attempt[e] < MaxAttempts[e]
    /\ status' = [status EXCEPT ![e] = "running"]
    /\ attempt' = [attempt EXCEPT ![e] = @ + 1]

Retry(e) ==
    /\ status[e] = "running" /\ attempt[e] < MaxAttempts[e]
    /\ status' = [status EXCEPT ![e] = "pending"]
    /\ UNCHANGED attempt

Finish(e) ==
    /\ status[e] = "running"
    /\ \E s \in {"completed", "failed"} : status' = [status EXCEPT ![e] = s]
    /\ UNCHANGED attempt

Cancel(e) ==
    /\ status[e] \in {"pending", "running"}
    /\ status' = [status EXCEPT ![e] = "cancelled"]
    /\ UNCHANGED attempt

Next == \E e \in Execution :
    Admit(e) \/ Start(e) \/ Retry(e) \/ Finish(e) \/ Cancel(e)

Spec == Init /\ [][Next]_<<status, attempt>>

\* Every admitted execution is eventually completed, failed or cancelled.
Ends == \A e \in Execution :
    status[e] \in {"pending", "running"} ~>
        status[e] \in {"completed", "failed", "cancelled"}
=============================================================================
