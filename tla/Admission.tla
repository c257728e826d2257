----------------------------- MODULE Admission -----------------------------
(***************************************************************************)
(* Admission under concurrency: Service.Admit over the SERIALIZABLE        *)
(* transaction of ExecutionStore.AdmissionAdmit, one statement at a time.  *)
(* ExecutionBoard takes this transaction as one step; here is what its     *)
(* advisory lock, its isolation level and its unique index are needed for. *)
(*                                                                         *)
(* The transaction's snapshot is taken by its first statement, set_config, *)
(* BEFORE it waits for the advisory lock.  So a caller that waited reads a *)
(* past in which the row of the lock's previous holder does not exist, and *)
(* only the unique index and the serialization check stand between it and  *)
(* a duplicate.  PostgreSQL itself is external: its snapshots, locks and   *)
(* serialization failures are modelled as this code meets them.            *)
(***************************************************************************)
EXTENDS Integers, Sequences, FiniteSets

CONSTANTS
    Request,          \* the callers of POST /tasks/{id}/execute
    Employee,
    EmployeeOf,       \* the employee each request names
    KeyOf,            \* its idempotency key, or NoKey
    PayloadOf,        \* RequestHash of the rest: task and attempt budget
    Contextual,       \* the requests that carry a context snapshot
    ContextWritable,  \* whether execution_contexts accepts the INSERT
    Capacity,         \* ai_employees.max_concurrent_executions
    NoKey, NoRequest,
    MaxTries          \* bound: how often a caller sends its request

ASSUME AdmissionAssumption ==
    /\ EmployeeOf \in [Request -> Employee]
    /\ Capacity \in [Employee -> Nat \ {0}]
    /\ Contextual \subseteq Request
    /\ ContextWritable \in BOOLEAN
    /\ NoRequest \notin Request
    /\ MaxTries \in Nat

VARIABLES
    rows,     \* ai_executions in commit order; a row's index is its id
    active,   \* the ids whose status is pending or running
    lock,     \* per employee: who holds the advisory lock
    call,     \* per request: its transaction
    answer,   \* per request: the last answer
    tries     \* per request: how often it was sent

vars == <<rows, active, lock, call, answer, tries>>

-----------------------------------------------------------------------------
\* seen and live are the transaction's snapshot: how many rows were committed
\* when it was taken, and which of them were active.
Call == [pc: {"idle", "begun", "locked"}, seen: Nat, live: SUBSET Nat]
Quiet == [pc |-> "idle", seen |-> 0, live |-> {}]

Refusals == {"conflict", "capacity", "aborted", "rejected"}
Answer == [kind: {"none", "created", "replayed"} \cup Refusals, id: Nat]
NoAnswer == [kind |-> "none", id |-> 0]

RowOf(r) == [emp |-> EmployeeOf[r], key |-> KeyOf[r], payload |-> PayloadOf[r]]

Init ==
    /\ rows = << >>
    /\ active = {}
    /\ lock = [b \in Employee |-> NoRequest]
    /\ call = [r \in Request |-> Quiet]
    /\ answer = [r \in Request |-> NoAnswer]
    /\ tries = [r \in Request |-> 0]

-----------------------------------------------------------------------------
(* What a transaction sees, and what it does not.                          *)

Ids == 1..Len(rows)
Seen(r) == 1..call[r].seen
Unseen(r) == Ids \ Seen(r)

SameKey(r, i) == KeyOf[r] # NoKey /\ rows[i].key = KeyOf[r]

\* Mutant: the key is taken for the whole request.
SameRequestByKey(r, i) == TRUE

\* sameRequest and the hash comparison of Service.Admit.
SameRequest(r, i) == rows[i].emp = EmployeeOf[r] /\ rows[i].payload = PayloadOf[r]

KeySeen(r) == \E i \in Seen(r) : SameKey(r, i)
LiveSeen(r) == {i \in call[r].live : rows[i].emp = EmployeeOf[r]}
WithinCapacity(r) == Cardinality(LiveSeen(r)) < Capacity[EmployeeOf[r]]

\* Mutant: no unique index on (workspace_id, idempotency_key).
NoUniqueIndex(r) == FALSE

\* The unique index is checked against what is committed, not the snapshot.
KeyTaken(r) == \E i \in Unseen(r) : SameKey(r, i)

\* Mutant: REPEATABLE READ instead of SERIALIZABLE.
NoSerialization(r) == FALSE

\* Both transactions counted the employee's rows and then added one: neither
\* saw the other's, and SERIALIZABLE lets only the first of them commit.
CountedStale(r) == \E i \in Unseen(r) : rows[i].emp = EmployeeOf[r]

-----------------------------------------------------------------------------
\* BEGIN and set_config: the snapshot.
Begin(r) ==
    /\ call[r].pc = "idle" /\ tries[r] < MaxTries
    /\ call' = [call EXCEPT ![r] = [pc |-> "begun", seen |-> Len(rows),
                                    live |-> active]]
    /\ tries' = [tries EXCEPT ![r] = @ + 1]
    /\ answer' = [answer EXCEPT ![r] = NoAnswer]
    /\ UNCHANGED <<rows, active, lock>>

\* pg_advisory_xact_lock waits; the snapshot stays.
Lock(r) ==
    /\ call[r].pc = "begun" /\ lock[EmployeeOf[r]] = NoRequest
    /\ lock' = [lock EXCEPT ![EmployeeOf[r]] = r]
    /\ call' = [call EXCEPT ![r].pc = "locked"]
    /\ UNCHANGED <<rows, active, answer, tries>>

\* COMMIT or ROLLBACK releases the lock; then the handler answers.
EndTx(r, kind, id) ==
    /\ lock' = [lock EXCEPT ![EmployeeOf[r]] = NoRequest]
    /\ call' = [call EXCEPT ![r] = Quiet]
    /\ answer' = [answer EXCEPT ![r] = [kind |-> kind, id |-> id]]
    /\ UNCHANGED tries

\* The key is in the snapshot: a replay, or a conflict with another payload.
Resolve(r) ==
    /\ call[r].pc = "locked"
    /\ \E i \in Seen(r) :
        /\ SameKey(r, i)
        /\ IF SameRequest(r, i) THEN EndTx(r, "replayed", i)
                                ELSE EndTx(r, "conflict", 0)
    /\ UNCHANGED <<rows, active>>

RefuseCapacity(r) ==
    /\ call[r].pc = "locked" /\ ~KeySeen(r) /\ ~WithinCapacity(r)
    /\ EndTx(r, "capacity", 0)
    /\ UNCHANGED <<rows, active>>

Inserting(r) == call[r].pc = "locked" /\ ~KeySeen(r) /\ WithinCapacity(r)

\* The INSERT meets a row that the snapshot hides.  Whether PostgreSQL reports
\* the duplicate key (23505, ErrIdempotencyKey) or the serialization failure
\* behind it (40001, an internal error) depends on the plan of the SELECT.
RefuseDuplicate(r) ==
    /\ Inserting(r) /\ KeyTaken(r)
    /\ EndTx(r, "conflict", 0) \/ EndTx(r, "aborted", 0)
    /\ UNCHANGED <<rows, active>>

\* 40001 at the INSERT or at COMMIT.  Any concurrent insert may cause it, for
\* predicate locks cover whole pages; a stale count always does.
SerializationFails(r) ==
    /\ Inserting(r) /\ Unseen(r) # {}
    /\ EndTx(r, "aborted", 0)
    /\ UNCHANGED <<rows, active>>

\* The INSERT into execution_contexts names no workspace_id, a NOT NULL column.
RejectContext(r) ==
    /\ Inserting(r) /\ ~KeyTaken(r)
    /\ r \in Contextual /\ ~ContextWritable
    /\ EndTx(r, "rejected", 0)
    /\ UNCHANGED <<rows, active>>

\* The execution row, its first retry row and the snapshot commit together.
Create(r) ==
    /\ Inserting(r) /\ ~KeyTaken(r) /\ ~CountedStale(r)
    /\ r \in Contextual => ContextWritable
    /\ rows' = Append(rows, RowOf(r))
    /\ active' = active \cup {Len(rows) + 1}
    /\ EndTx(r, "created", Len(rows) + 1)

\* The caller goes away or the connection breaks: rolled back, no answer.
Drop(r) ==
    /\ call[r].pc # "idle"
    /\ lock' = [b \in Employee |-> IF lock[b] = r THEN NoRequest ELSE lock[b]]
    /\ call' = [call EXCEPT ![r] = Quiet]
    /\ UNCHANGED <<rows, active, answer, tries>>

\* The execution ends; a READ COMMITTED update, so no admission waits for it.
Finish(i) ==
    /\ i \in active
    /\ active' = active \ {i}
    /\ UNCHANGED <<rows, lock, call, answer, tries>>

Next ==
    \/ \E r \in Request :
        \/ Begin(r) \/ Lock(r) \/ Resolve(r) \/ RefuseCapacity(r)
        \/ RefuseDuplicate(r) \/ SerializationFails(r) \/ RejectContext(r)
        \/ Create(r) \/ Drop(r)
    \/ \E i \in active : Finish(i)

Spec == Init /\ [][Next]_vars

-----------------------------------------------------------------------------
(* Properties.                                                             *)

\* Every row, transaction and answer is well formed, and a snapshot lies in
\* the past of the table.
TypeOK ==
    /\ rows \in Seq({RowOf(r) : r \in Request})
    /\ active \subseteq Ids
    /\ lock \in [Employee -> Request \cup {NoRequest}]
    /\ call \in [Request -> Call]
    /\ \A r \in Request : call[r].seen <= Len(rows) /\ call[r].live \subseteq Seen(r)
    /\ answer \in [Request -> Answer]
    /\ tries \in [Request -> 0..MaxTries]

\* However often a keyed request is sent, whoever waits for whose lock, at
\* most one execution carries the key, for requests to different employees
\* (different locks) too.
KeyUnique == \A i, j \in Ids :
    rows[i].key # NoKey /\ rows[i].key = rows[j].key => i = j

\* No interleaving of admissions takes an employee over its capacity, although
\* each of them counts in a snapshot that may be older than its lock.
CapacityHeld == \A b \in Employee :
    Cardinality({i \in active : rows[i].emp = b}) <= Capacity[b]

\* A caller that is told of an execution is told of its own: the employee, the
\* payload and the key are those of its request (Service.Admit, cases 1 to 3).
AnswersOwn == \A r \in Request :
    answer[r].kind \in {"created", "replayed"} => rows[answer[r].id] = RowOf(r)

\* An admission with a context snapshot is not refused for the snapshot
\* (store.go: the store "inserts the execution_contexts row in the same
\* admission transaction").
SnapshotAdmitted == \A r \in Request : answer[r].kind # "rejected"
=============================================================================
