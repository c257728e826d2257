--------------------------- MODULE ExecutionBoard ---------------------------
(***************************************************************************)
(* The AI execution board: the PostgreSQL tables ai_executions,            *)
(* ai_execution_retries and ai_execution_dlq, and the methods of           *)
(* postgres.ExecutionStore that change them                                *)
(* (infrastructure/postgres/executions.go).  Every method is one           *)
(* transaction, so it is one action.                                       *)
(*                                                                         *)
(* The clients are left open: any holder of a fence that Claim or          *)
(* ReclaimStale ever handed out may call a fenced method at any time, in   *)
(* any order, any number of times.  What is true of the board is therefore *)
(* true whatever the dispatchers, the workers and the broker do, as long   *)
(* as they respect the two rules of Next (when a failure may be rescheduled*)
(* and when it may be dead-lettered), and ExecutionRuntime shows that the  *)
(* real clients do.                                                        *)
(*                                                                         *)
(* One workspace is modelled: every statement is confined to the caller's  *)
(* workspace.  Time is abstracted to two facts about a row: whether        *)
(* lease_expires_at lies in the past (expired) and whether next_retry_at   *)
(* does (due).                                                             *)
(***************************************************************************)
EXTENDS Integers, Sequences, FiniteSets

CONSTANTS
    Execution,        \* the execution ids that admissions may create
    Employee,         \* the AI employees
    EmployeeOf,       \* the employee each admission names
    Capacity,         \* ai_employees.max_concurrent_executions
    MaxAttempts,      \* max_attempts of each admission
    Dispatcher,       \* the lease owners: the dispatchers' worker ids
    NoOwner,          \* lease_owner IS NULL, worker_id IS NULL
    Causes,           \* the classifications that failures get
    Contextual,       \* the admissions that carry a context snapshot
    ContextWritable   \* whether execution_contexts accepts admission's INSERT

ASSUME ConstantsAssumption ==
    /\ IsFiniteSet(Execution)
    /\ EmployeeOf \in [Execution -> Employee]
    /\ Capacity \in [Employee -> Nat \ {0}]
    /\ MaxAttempts \in [Execution -> Nat \ {0}]
    /\ NoOwner \notin Dispatcher
    /\ Contextual \subseteq Execution
    /\ ContextWritable \in BOOLEAN

VARIABLES
    execs,        \* ai_executions
    retries,      \* ai_execution_retries, in insertion order, per execution
    dlq,          \* ai_execution_dlq, in insertion order, per execution
    granted       \* history: every fence Claim or ReclaimStale returned

boardVars == <<execs, retries, dlq, granted>>

-----------------------------------------------------------------------------
(* The persisted error classification (internal/execution/execution.go).   *)

RetryableCodes == {"deadline_exceeded", "provider_timeout", "rate_limit",
                   "unavailable", "worker_lease_expired"}
FinalCodes == {"canceled", "not_found", "unknown"}
Codes == RetryableCodes \cup FinalCodes
NoCode == "null"

ASSUME CausesAssumption == Causes \subseteq Codes

Retryable(c) == c \in RetryableCodes

Active == {"pending", "running"}
TerminalStatus == {"completed", "failed", "cancelled"}
Status == Active \cup TerminalStatus

Terminal(s) == s \in TerminalStatus

InFlight == {"claimed", "dispatched"}
Outstanding == {"pending"} \cup InFlight
RetryState == Outstanding \cup {"processed"}
RetryOutcome == {"success", "failed", "cancelled"}

Row == [status: Status \cup {"absent"}, attempt: Nat,
        owner: Dispatcher \cup {NoOwner}, gen: Nat, expired: BOOLEAN,
        due: BOOLEAN, code: Causes \cup {NoCode}]
RetryRow == [seq: Nat, state: RetryState, outcome: RetryOutcome \cup {NoCode},
             worker: Dispatcher \cup {NoOwner}, gen: Nat]
DLQRow == [attempt: Nat, code: Causes]

\* FencedExecution: what a claim returns and a dispatch message carries.
\* retry = 0 is the nil retry id of a reclaim.
Fence == [exec: Execution, owner: Dispatcher, gen: Nat, attempt: Nat,
          retry: Nat]

AbsentRow == [status |-> "absent", attempt |-> 0, owner |-> NoOwner, gen |-> 0,
              expired |-> FALSE, due |-> TRUE, code |-> NoCode]

BoardInit ==
    /\ execs = [e \in Execution |-> AbsentRow]
    /\ retries = [e \in Execution |-> << >>]
    /\ dlq = [e \in Execution |-> << >>]
    /\ granted = {}

-----------------------------------------------------------------------------
(* Admission and cancellation.                                             *)

ActiveOf(emp) == {e \in Execution : /\ EmployeeOf[e] = emp
                                    /\ execs[e].status \in Active}

PendingRetry(seq, gen) == [seq |-> seq, state |-> "pending",
                           outcome |-> NoCode, worker |-> NoOwner, gen |-> gen]

\* Mutant: the capacity comparison is off by one.
AdmitOneMore(e) ==
    /\ execs[e].status = "absent"
    /\ Cardinality(ActiveOf(EmployeeOf[e])) <= Capacity[EmployeeOf[e]]
    /\ e \in Contextual => ContextWritable
    /\ execs' = [execs EXCEPT ![e].status = "pending"]
    /\ retries' = [retries EXCEPT ![e] = << PendingRetry(1, 0) >>]
    /\ UNCHANGED <<dlq, granted>>

\* Capacity check, execution row, first retry row and context snapshot of one
\* SERIALIZABLE transaction.  Its isolation, the idempotency keys and the
\* snapshot's INSERT are the subject of the Admission module.
AdmissionAdmit(e) ==
    /\ execs[e].status = "absent"
    /\ Cardinality(ActiveOf(EmployeeOf[e])) < Capacity[EmployeeOf[e]]
    /\ e \in Contextual => ContextWritable
    /\ execs' = [execs EXCEPT ![e].status = "pending"]
    /\ retries' = [retries EXCEPT ![e] = << PendingRetry(1, 0) >>]
    /\ UNCHANGED <<dlq, granted>>

Processed(row, out) == [row EXCEPT !.state = "processed", !.outcome = out,
                                   !.worker = NoOwner]

\* UPDATE ai_execution_retries SET state = 'processed', outcome = out,
\* worker_id = NULL WHERE state IN from.
Resolve(rs, from, out) ==
    [i \in 1..Len(rs) |->
        IF rs[i].state \in from
        THEN Processed(rs[i], out) ELSE rs[i]]

\* lease_owner = NULL, lease_expires_at = NULL: the lease leaves the row.
Released(row, status) == [row EXCEPT !.status = status, !.owner = NoOwner,
                                     !.expired = FALSE]

\* Mutants: terminal rows are cancelled too; the status is spelt like the code.
CancelTerminalToo(e) ==
    /\ execs[e].status # "absent"
    /\ execs' = [execs EXCEPT ![e] =
                    [Released(execs[e], "cancelled") EXCEPT !.code = NoCode]]
    /\ retries' = [retries EXCEPT ![e] = Resolve(retries[e], Outstanding, "cancelled")]
    /\ UNCHANGED <<dlq, granted>>

CancelMisspelt(e) ==
    /\ execs[e].status \in Active
    /\ execs' = [execs EXCEPT ![e] =
                    [Released(execs[e], "canceled") EXCEPT !.code = NoCode]]
    /\ retries' = [retries EXCEPT ![e] = Resolve(retries[e], Outstanding, "cancelled")]
    /\ UNCHANGED <<dlq, granted>>

\* A cancel of a terminal row commits without touching it and is not a step.
Cancel(e) ==
    /\ execs[e].status \in Active
    /\ execs' = [execs EXCEPT ![e] =
                    [Released(execs[e], "cancelled") EXCEPT !.code = NoCode]]
    /\ retries' = [retries EXCEPT ![e] = Resolve(retries[e], Outstanding, "cancelled")]
    /\ UNCHANGED <<dlq, granted>>

-----------------------------------------------------------------------------
(* Leases.                                                                 *)

Due(e) == execs[e].status = "pending" /\ execs[e].due
Stale(e) == execs[e].status = "running" /\ execs[e].expired

\* Mutant: the generation is not advanced.
LeasedSameGeneration(row, o, gen, attempt) ==
    [row EXCEPT !.status = "running", !.attempt = attempt, !.owner = o,
                !.expired = FALSE]

Leased(row, o, gen, attempt) ==
    [row EXCEPT !.status = "running", !.attempt = attempt, !.owner = o,
                !.gen = gen, !.expired = FALSE]
Taken(row, o, gen) == [row EXCEPT !.state = "claimed", !.worker = o, !.gen = gen]

ClaimFence(e, o, i) == [exec |-> e, owner |-> o, gen |-> execs[e].gen + 1,
                        attempt |-> execs[e].attempt + 1, retry |-> i]
ReclaimFence(e, o) == [exec |-> e, owner |-> o, gen |-> execs[e].gen + 1,
                       attempt |-> execs[e].attempt, retry |-> 0]

\* The only statement that counts an attempt.  The execution update joins the
\* update of its pending retry row i; without such a row nothing is returned
\* and the transaction rolls back.
Claim(e, o, i) ==
    /\ Due(e)
    /\ execs[e].attempt < MaxAttempts[e]
    /\ i \in 1..Len(retries[e])
    /\ retries[e][i].state = "pending"
    /\ execs' = [execs EXCEPT ![e] =
                    Leased(execs[e], o, execs[e].gen + 1, execs[e].attempt + 1)]
    /\ retries' = [retries EXCEPT ![e][i] =
                    Taken(retries[e][i], o, execs[e].gen + 1)]
    /\ granted' = granted \cup {ClaimFence(e, o, i)}
    /\ UNCHANGED <<dlq>>

\* Takes over an expired lease.  The subquery looks for a 'pending' retry row,
\* which a running execution does not have: the retry id of the fence is nil.
ReclaimStale(e, o) ==
    /\ Stale(e)
    /\ execs' = [execs EXCEPT ![e] =
                    Leased(execs[e], o, execs[e].gen + 1, execs[e].attempt)]
    /\ granted' = granted \cup {ReclaimFence(e, o)}
    /\ UNCHANGED <<retries, dlq>>

\* Mutant: the owner alone fences.
HeldByOwner(f) ==
    /\ execs[f.exec].status = "running"
    /\ execs[f.exec].owner = f.owner

\* The WHERE clause of every fenced statement; when it selects no row the
\* method answers ErrStaleLease and writes nothing.
Held(f) ==
    /\ execs[f.exec].status = "running"
    /\ execs[f.exec].owner = f.owner
    /\ execs[f.exec].gen = f.gen

Heartbeat(f) ==
    /\ Held(f)
    /\ execs' = [execs EXCEPT ![f.exec].expired = FALSE]
    /\ UNCHANGED <<retries, dlq, granted>>

PersistError(f, c) ==
    /\ Held(f)
    /\ execs' = [execs EXCEPT ![f.exec].code = c]
    /\ UNCHANGED <<retries, dlq, granted>>

Complete(f) ==
    /\ Held(f)
    /\ execs' = [execs EXCEPT ![f.exec] = Released(execs[f.exec], "completed")]
    /\ retries' = [retries EXCEPT ![f.exec] = Resolve(retries[f.exec], InFlight, "success")]
    /\ UNCHANGED <<dlq, granted>>

FailAndDLQ(f, c) ==
    /\ Held(f)
    /\ execs' = [execs EXCEPT ![f.exec] =
                    [Released(execs[f.exec], "failed") EXCEPT !.code = c]]
    /\ retries' = [retries EXCEPT ![f.exec] = Resolve(retries[f.exec], InFlight, "failed")]
    /\ dlq' = [dlq EXCEPT ![f.exec] =
                    Append(dlq[f.exec], [attempt |-> f.attempt, code |-> c])]
    /\ UNCHANGED granted

\* Mutant: the next retry row is inserted without resolving the old one.
RescheduleUnresolved(f, seq) ==
    /\ Held(f)
    /\ execs' = [execs EXCEPT ![f.exec] =
                    [Released(execs[f.exec], "pending") EXCEPT !.due = FALSE]]
    /\ retries' = [retries EXCEPT ![f.exec] =
                    Append(retries[f.exec], PendingRetry(seq, f.gen))]
    /\ UNCHANGED <<dlq, granted>>

\* The old retry row is resolved before the next one is inserted.
Reschedule(f, seq) ==
    /\ Held(f)
    /\ execs' = [execs EXCEPT ![f.exec] =
                    [Released(execs[f.exec], "pending") EXCEPT !.due = FALSE]]
    /\ retries' = [retries EXCEPT ![f.exec] =
                    Append(Resolve(retries[f.exec], InFlight, "failed"),
                           PendingRetry(seq, f.gen))]
    /\ UNCHANGED <<dlq, granted>>

Sent(row) == [row EXCEPT !.state = "dispatched"]

\* Marks the retry row dispatched while it is still the one this claim took.
\* The row of retry_dispatch_log, which nothing reads back, is left out.
RecordDispatch(f, ok) ==
    LET r == retries[f.exec][f.retry] IN
    /\ f.retry \in 1..Len(retries[f.exec])
    /\ retries' = IF /\ ok /\ r.state = "claimed"
                     /\ r.worker = f.owner /\ r.gen = f.gen
                  THEN [retries EXCEPT ![f.exec][f.retry] = Sent(r)]
                  ELSE retries
    /\ UNCHANGED <<execs, dlq, granted>>

-----------------------------------------------------------------------------
(* Time.                                                                   *)

LeaseExpires(e) ==
    /\ execs[e].status = "running" /\ ~execs[e].expired
    /\ execs' = [execs EXCEPT ![e].expired = TRUE]
    /\ UNCHANGED <<retries, dlq, granted>>

BackoffElapses(e) ==
    /\ execs[e].status = "pending" /\ ~execs[e].due
    /\ execs' = [execs EXCEPT ![e].due = TRUE]
    /\ UNCHANGED <<retries, dlq, granted>>

-----------------------------------------------------------------------------
(* The two rules the clients keep: Worker.finalizeFailure and              *)
(* Dispatcher.resolveRecovered reschedule only while attempts remain, and  *)
(* dead-letter only a final code or an exhausted execution.                *)

\* Mutant: one attempt too many.
MayRescheduleOnceMore(f) == f.attempt <= MaxAttempts[f.exec]
MayReschedule(f) == f.attempt < MaxAttempts[f.exec]
MayFail(f, c) == ~Retryable(c) \/ f.attempt >= MaxAttempts[f.exec]

Fenced(f) ==
    \/ Heartbeat(f)
    \/ Complete(f)
    \/ \E c \in Causes : PersistError(f, c)
    \/ \E c \in Causes : MayFail(f, c) /\ FailAndDLQ(f, c)
    \/ MayReschedule(f) /\ Reschedule(f, f.attempt + 1)
    \/ \E ok \in BOOLEAN : RecordDispatch(f, ok)

BoardNext ==
    \/ \E e \in Execution :
        \/ AdmissionAdmit(e)
        \/ Cancel(e)
        \/ LeaseExpires(e)
        \/ BackoffElapses(e)
        \/ \E o \in Dispatcher : \/ \E i \in 1..Len(retries[e]) : Claim(e, o, i)
                                 \/ ReclaimStale(e, o)
    \/ \E f \in granted : Fenced(f)

BoardSpec == BoardInit /\ [][BoardNext]_boardVars

\* The status and attempt columns, as a caller of the API sees them.
Lifecycle == INSTANCE ExecutionLifecycle WITH
    status <- [e \in Execution |-> execs[e].status],
    attempt <- [e \in Execution |-> execs[e].attempt]

-----------------------------------------------------------------------------
(* Properties.                                                             *)

\* Every table holds well-typed rows (the CHECK constraints of
\* database.migrateExecutions and the column types).
BoardTypeOK ==
    /\ execs \in [Execution -> Row]
    /\ retries \in [Execution -> Seq(RetryRow)]
    /\ dlq \in [Execution -> Seq(DLQRow)]
    /\ granted \in SUBSET Fence

\* The retry ledger mirrors the execution.  Its rows are numbered 1, 2, ...
\* without a gap; all but the last are processed failures; the last one is
\* pending, in flight or resolved exactly as the status of the execution
\* demands, and their number is the number of attempts started plus the one
\* that waits.  So a claim always finds its retry row, Reschedule's INSERT
\* never meets the partial unique index on outstanding rows, and a terminal
\* execution leaves nothing outstanding.
LastRetry(e, n, state, outcome) ==
    /\ Len(retries[e]) = n
    /\ n > 0 /\ retries[e][n].state \in state
    /\ retries[e][n].outcome = outcome

LedgerTail(e) ==
    LET s == execs[e].status
        a == execs[e].attempt
    IN  /\ s = "absent" => Len(retries[e]) = 0 /\ a = 0
        /\ s = "pending" => LastRetry(e, a + 1, {"pending"}, NoCode)
        /\ s = "running" => LastRetry(e, a, InFlight, NoCode)
        /\ s = "completed" => LastRetry(e, a, {"processed"}, "success")
        /\ s = "failed" => LastRetry(e, a, {"processed"}, "failed")
        /\ s = "cancelled" => \/ LastRetry(e, a, {"processed"}, "cancelled")
                              \/ LastRetry(e, a + 1, {"processed"}, "cancelled")

LedgerPrefix(e) ==
    \A i \in 1..Len(retries[e]) :
        /\ retries[e][i].seq = i
        /\ i < Len(retries[e]) => /\ retries[e][i].state = "processed"
                                  /\ retries[e][i].outcome = "failed"

RetryLedger == \A e \in Execution : LedgerTail(e) /\ LedgerPrefix(e)

\* An attempt is started at most MaxAttempts times, a waiting execution always
\* has one left (so GetDue never lists a row that no claim can take), and a
\* lease is held exactly while running (CHECK ai_executions_lease_locked).
BudgetOf(e) ==
    /\ execs[e].attempt <= MaxAttempts[e]
    /\ execs[e].status = "pending" => execs[e].attempt < MaxAttempts[e]
    /\ execs[e].status = "running" <=> execs[e].owner # NoOwner

AttemptBudget == \A e \in Execution : BudgetOf(e)

\* Fencing: a generation is handed out once, never from the future, a claim
\* takes the retry row numbered like its attempt, and a fence that still
\* matches the row describes the attempt that is running.  Nothing a stale
\* worker carries can be mistaken for the current claim.
FenceSound(f) ==
    /\ f.gen <= execs[f.exec].gen
    /\ f.attempt <= execs[f.exec].attempt
    /\ f.retry \in {0, f.attempt}
    /\ Held(f) => f.attempt = execs[f.exec].attempt

FencingSound ==
    /\ \A f \in granted : FenceSound(f)
    /\ \A f, g \in granted : f.exec = g.exec /\ f.gen = g.gen => f = g

\* Dead letters: a failed execution has exactly one entry, for its last
\* attempt and its recorded code; every other execution has none; and the
\* entry is justified: the code is final or the attempts are used up.
DeadLetterOf(e) ==
    IF execs[e].status = "failed"
    THEN /\ Len(dlq[e]) = 1
         /\ dlq[e][1] = [attempt |-> execs[e].attempt, code |-> execs[e].code]
         /\ \/ ~Retryable(execs[e].code)
            \/ execs[e].attempt = MaxAttempts[e]
    ELSE Len(dlq[e]) = 0

DeadLetterExact == \A e \in Execution : DeadLetterOf(e)

\* The admission capacity holds at all times, although only admission looks
\* at it: retries and recoveries never push an employee over its limit.
CapacityRespected ==
    \A emp \in Employee : Cardinality(ActiveOf(emp)) <= Capacity[emp]

\* The fingerprint of a retry row in flight is that of the claim that took it
\* (Claim assigns the retry's generation from the execution's), however often
\* the execution's own lease was reclaimed since.
FingerprintOf(e) ==
    \A i \in 1..Len(retries[e]) :
        IF retries[e][i].state \in InFlight
        THEN \E f \in granted : /\ f.exec = e /\ f.retry = i
                                /\ f.owner = retries[e][i].worker
                                /\ f.gen = retries[e][i].gen
        ELSE retries[e][i].worker = NoOwner

RetryFingerprint == \A e \in Execution : FingerprintOf(e)

\* A terminal execution never changes again, whoever still holds a fence of it
\* (execution.Terminal: "nothing may transition it and no lease may ever be
\* taken out on it again").
EndedUntouched == \A e \in Execution : Terminal(execs[e].status) =>
    execs'[e] = execs[e] /\ retries'[e] = retries[e] /\ dlq'[e] = dlq[e]

TerminalIsFinal == [][EndedUntouched]_boardVars

\* Generations only grow, one at a time, and ownership never moves to another
\* dispatcher without a new generation; an attempt is only ever counted
\* together with one.
HandedOver(e) ==
    /\ execs'[e].gen \in {execs[e].gen, execs[e].gen + 1}
    /\ execs'[e].owner \notin {execs[e].owner, NoOwner} =>
          execs'[e].gen = execs[e].gen + 1
    /\ execs'[e].attempt # execs[e].attempt =>
          /\ execs'[e].attempt = execs[e].attempt + 1
          /\ execs'[e].gen = execs[e].gen + 1

LeaseHandover == [][\A e \in Execution : HandedOver(e)]_boardVars

\* The board implements the lifecycle: seen through status and attempt, every
\* method is one transition of ExecutionLifecycle or none.
ImplementsLifecycle == Lifecycle!Spec
=============================================================================
