--------------------------- MODULE RecordRequests ---------------------------
(***************************************************************************)
(* What the handlers of the workspace's records have in common: a request  *)
(* is confined to the workspace of its claims, reads a row in one          *)
(* transaction, writes the changed copy in another, leaves an audit record *)
(* and answers.                                                            *)
(*                                                                         *)
(* Organization, TaskRecords and Documents say what is read and written;   *)
(* WorkspaceRecords puts them together.                                    *)
(***************************************************************************)
EXTENDS Integers, FiniteSets, FiniteSetsExt

CONSTANTS
    Workspace,
    Caller,        \* concurrent requests of users
    WorkspaceOf,   \* the workspace of their claims
    Id,            \* the ids of each table, in the order of UUIDs
    Name,          \* names, titles and contents, as lower(name) tells them apart
    Instants,      \* created_at, which the process takes before it inserts
    Null,          \* no row yet, no value
    Gone,          \* the row was deleted; ids are never used again
    MaxRequests,   \* bound: requests altogether
    MaxFaults      \* bound: failing appends, statements and embeddings, crashes

ASSUME RequestsAssumption ==
    /\ WorkspaceOf \in [Caller -> Workspace]
    /\ Id \subseteq Nat /\ IsFiniteSet(Id) /\ Instants \subseteq Nat
    /\ Null # Gone /\ {Null, Gone} \cap (Id \cup Name \cup Workspace) = {}
    /\ MaxRequests \in Nat /\ MaxFaults \in Nat

VARIABLES
    call,       \* per caller: its request and its last answer
    requests,   \* how many requests were made
    faults

requestVars == <<call, requests, faults>>

-----------------------------------------------------------------------------
Answers == {"none", "ok", "invalid", "notfound", "taken", "error", "lost"}

\* recorded: the outcome in the request's record in the audit chain.
NoCall == [pc |-> "idle", table |-> Null, id |-> Null, copy |-> Null,
           answer |-> "none", recorded |-> "none"]

RequestsInit ==
    /\ call = [c \in Caller |-> NoCall]
    /\ requests = 0
    /\ faults = 0

Ws(c) == WorkspaceOf[c]
Exists(row) == row \notin {Null, Gone}
Table(rows) == [Id -> rows \cup {Null, Gone}]
Fault == faults < MaxFaults /\ faults' = faults + 1

\* The request passes scope and the checks of its body, which take it no
\* further than an answer.
Arrives(c, step) ==
    /\ call[c].pc = "idle" /\ requests < MaxRequests
    /\ requests' = requests + 1
    /\ call' = [call EXCEPT ![c] = step]
    /\ UNCHANGED faults

Goes(c, step) ==
    /\ call' = [call EXCEPT ![c] = step]
    /\ UNCHANGED <<requests, faults>>

\* A PATCH leaves alone what it does not give.
Overlay(row, patch) ==
    [f \in DOMAIN row |-> IF f \in DOMAIN patch THEN patch[f] ELSE row[f]]

\* The copy a request carries from its read to its write.
Holding(table, id, copy, pc) ==
    [NoCall EXCEPT !.pc = pc, !.table = table, !.id = id, !.copy = copy]

\* What the service returned; the record is next.
Outcome(table, id, answer) ==
    [NoCall EXCEPT !.pc = "record", !.table = table, !.id = id, !.answer = answer]

\* fail leaves no record of an internal error, but for the documents.
IsRecorded(k) == k.answer # "error" \/ k.table = "document"
RecordOf(k) == IF k.answer = "ok" THEN "success" ELSE "failed"

\* The request is over; its answer and its record are remembered.
Answered(k, answer, record) ==
    [NoCall EXCEPT !.table = k.table, !.answer = answer, !.recorded = record]

Unrecorded(c) ==
    /\ call[c].pc = "record" /\ ~IsRecorded(call[c])
    /\ Goes(c, Answered(call[c], call[c].answer, "none"))

Recorded(c) ==
    /\ call[c].pc = "record" /\ IsRecorded(call[c])
    /\ Goes(c, Answered(call[c], call[c].answer, RecordOf(call[c])))

\* What the chain may hold when the append did not answer: its COMMIT was done
\* or it was not.
MayRecord(k) == {"none"} \cup
    (IF k.pc = "record" /\ IsRecorded(k) THEN {RecordOf(k)} ELSE {})

\* A statement fails, or the context of the request ends: rolled back.
StatementFails(c) ==
    /\ call[c].pc \notin {"idle", "record"} /\ Fault
    /\ call' = [call EXCEPT ![c] = Outcome(call[c].table, call[c].id, "error")]
    /\ UNCHANGED requests

\* The change is committed and the answer to COMMIT is lost: it stands, and
\* the handler takes it for an internal error.
CommitLost(c) ==
    /\ call[c].pc = "record" /\ call[c].answer = "ok" /\ Fault
    /\ call' = [call EXCEPT ![c] = Outcome(call[c].table, call[c].id, "error")]
    /\ UNCHANGED requests

\* The process dies with the request; the client sees a broken connection.
RequestLost(c) ==
    /\ call[c].pc # "idle" /\ Fault
    /\ \E r \in MayRecord(call[c]) :
        call' = [call EXCEPT ![c] = Answered(call[c], "lost", r)]
    /\ UNCHANGED requests
=============================================================================
