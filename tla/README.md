# Austro OS: TLA+ models of the runtime

This directory models the parts of Austro OS in which several processes or
requests work on the same state: the AI execution board with its dispatchers,
workers and queue, admission, the publishing service, the creator pipeline with
its events, the audit chain, the records of a workspace (organization, tasks,
documents), and authentication with the authorization in front of all of them.
TLC checks the models on small instances; TLAPS proves every invariant and action
property that the runs check, and the refinements between the modules, for every
size. What eventually happens is model-checked only. `PROJECT.json` holds the
machine-readable side: components, runs, the map from definitions to source lines,
hazards, findings and theorems.

## 1. The system

Austro OS is one Go code base with two processes, the API server (`main.go`) and
the worker (`cmd/worker`), over PostgreSQL, RabbitMQ and Redis. Several
instances of both may run.

| Part | State | Operations | Talks to |
|---|---|---|---|
| Execution board (`internal/execution`, `infrastructure/postgres/executions.go`) | `ai_executions`, `ai_execution_retries`, `ai_execution_dlq` | admit, claim, record dispatch, heartbeat, complete, persist error, reschedule, fail and dead-letter, reclaim, cancel | everybody, through fences (owner, generation) |
| Dispatcher (`dispatcher.go`) | the position of its sweep | recover lapsed leases, claim due rows, publish, record | board, queue |
| Execution worker (`worker.go`, `cmd/worker/handler.go`) | the run of one delivery, its heartbeat goroutine | materialize, call the provider, decide, settle the message | board, queue, AI provider |
| Admission (`service.go`, `AdmissionAdmit`) | a SERIALIZABLE transaction | lock, replay, count, insert | board |
| Publishing (`internal/publish`) | `publications` | create, submit, approve, reject, cancel, publish, retry | the platform |
| Creator pipeline (`internal/orchestration`) | `pipelines` (versioned), its events | create, advance from event, approve, retry | publishing, queue |
| Message consumer (`internal/worker`), sinks (`infrastructure/rabbitmq`) | connections, unacknowledged messages | deliver, ack, requeue, reconnect | RabbitMQ |
| Authentication (`internal/auth`, handlers in `internal/api/handler.go`) | refresh records in the memory of the API process, rows of `users` | bootstrap, login, refresh, logout | PostgreSQL, audit chain |
| Authorization (`internal/authz`, `internal/rbac`, middleware, routes of `main.go`) | none: rules, permissions and routes are tables | decide on claims and path | every request |
| Audit chain (`internal/audit`, `infrastructure/auditstore`) | `audit_events`, the head each process remembers | start, append, verify, page | PostgreSQL, every audited operation |
| Organization (`internal/department`, `team`, `employee`) | three tables with keys between them | create, update, move, delete, list | audit chain |
| Tasks (`internal/task`) | `tasks` | create, update, transition, delete, list | audit chain |
| Documents (`internal/knowledge`) | `knowledge_documents` with vectors | create, update, delete, list | AI provider, audit chain |
| Throttle, usage guard (`internal/security`) | windows, counters | allow, reserve | callers in one process |
| AI gateway, memory, health | cells, heartbeats | commands and queries | provider, Redis, PostgreSQL |

What is hard here, and what must be true all the same:

* **Ownership moves while work goes on.** A lease lapses, is taken over, and its
  first holder finishes. A write must count for the attempt that runs and no
  other; what is terminal must stay as it is; attempts stay within the budget.
* **Processes die between two calls**: between claim and publish, between
  reclaim and decision, between the update of a pipeline and the event that
  drives it on. Everything that was admitted must still end.
* **Messages are repeated, late or lost**, and a message may come from an
  attempt that is long over.
* **Read, decide, write**: commands decide on a copy of a row, or of a refresh
  record. The pipeline compares versions; publishing, tasks, documents and the
  refresh store do not.
* **A snapshot is older than the lock**: admission waits for an advisory lock
  inside a transaction whose snapshot is already taken.
* **One chain, several writers**: each link hashes the row before it, and every
  process remembers a head that another process has already extended.
* **The change and its record are two commits**: the row is written, and then the
  append to the audit chain fails.
* **Tables change while they are read**: pages follow cursors whose rows may be
  deleted or share their time with others.
* **Human oversight** spans two services with tables of their own: nothing is
  published that no human approved.

`PROJECT.json` lists these hazards at their lines with the properties that would
catch them going wrong.

## 2. Modules

| Module | Models |
|---|---|
| `ExecutionLifecycle` | What the API promises of one execution: status and attempt count. The abstract specification. |
| `ExecutionBoard` | The three tables and every method of `ExecutionStore` that changes them. |
| `ExecutionBoardProofs` | The theorems about the board. |
| `ExecutionRuntime` | Dispatchers, queue, handlers, heartbeats and clocks over the board. |
| `RuntimeProofs` | That the runtime implements the board, and what follows. |
| `Admission`, `AdmissionProofs` | The admission transaction, statement by statement; its theorems. |
| `Publication`, `PublicationProofs` | The publishing service over its table; its theorems. |
| `CreatorPipeline`, `PipelineProofs` | The pipeline over `Publication`, which it extends; its theorems. |
| `AuditChain`, `AuditChainProofs` | The audit table, the stores of several processes, and a reader; its theorems. |
| `RecordRequests` | What the record handlers share: read, write, record, answer. |
| `Organization`, `TaskRecords`, `Documents` | The tables and commands of the three kinds of records. |
| `WorkspaceRecords` | The three together, their audit records and their listings. |
| `RecordsProofs` | The theorems about the records. |
| `Authorization` | Roles, rules, permissions, routes, and the decision. |
| `Sessions` | Authentication, over `Authorization`, which it extends. |
| `SessionsProofs` | The theorems about the refresh store and about who is served what. |
| `MC...` | Instances for TLC. |

### ExecutionBoard

`execs[e]` is the row of an execution (status, attempt, lease owner and
generation, error code, whether the lease is past and whether the retry is due),
`retries[e]` the sequence of its retry rows, `dlq[e]` its dead letters. Every
method of the store is one transaction and therefore one action. `granted` is a
history variable: every fence that `Claim` or `ReclaimStale` returned.

The clients are open. Any fence that was ever granted may be used in any fenced
method, at any time, in any order. Two rules bind the clients: an execution is
rescheduled only while an attempt is left (`MayReschedule`, whatever the code), and
dead-lettered only with a final code or after its last attempt (`MayFail`).
`ExecutionRuntime` shows that the real clients keep them (`ImplementsBoard`, checked
and proved).

Abstractions: one workspace (every statement is confined to the caller's); time
is two facts per row, `expired` and `due`; `retry_dispatch_log`, request hashes
and timestamps are left out. `ContextWritable` says whether the INSERT into
`execution_contexts` can succeed: with the schema of this commit it cannot
(see `FindingContext.cfg` below), and the board is checked as if it could, so that
executions with a context are covered as well.

### ExecutionRuntime

A dispatcher's sweep, a handler's run and the heartbeat beside it have program
counters; each database call, publish and provider answer is a step. Crashes,
failing calls and lost connections cost one of `MaxFaults`. A connection that is
lost puts the message back while its handler goes on, so two handlers may run
the same attempt. `overdue` records that the original deadline in a message has
passed, which the message keeps although heartbeats renew the lease.

A dispatch message is a record of its own: `PublishMessage` writes the fields of
the claim into it, and `fencedFrom` rebuilds a fence from them in the worker, which
puts its own id (`WorkerId`) where a message names no owner. `FencesGranted` says
that the fence so rebuilt is one a claim granted, in every field, and that it holds
the row as long as the row is under its generation.

Abstractions: the limit of rows per sweep is left out (a sweep may stop after
any row). A dispatcher that restarts keeps its worker id, whereas the code makes
a new one; a stale fence is then distinguished by its generation alone, which is
the harder case.

### Admission

`call[r]` holds how far the transaction is and which rows its snapshot shows. The
advisory lock, the unique index on the key and the serialization check are
separate, so that each can be seen to matter. PostgreSQL is external and is
modelled as this code meets it.

### Publication

A command reads the row (`Begin`), may hand its copy to the platform
(`Deliver`), and writes the whole copy back (`Update`), which compares nothing.
`approvals`, `rejections` and `platform` are history: what was committed and what
the platform has accepted. A delivery may be accepted although the adapter
reports a failure. A publication stands for its creation key: `create` looks the
key up before and after an insert that the unique index refuses. `cancel` is a
method of the service without a route; it is included in `Publication` and
excluded where `CreatorPipeline` models the API.

### CreatorPipeline

`line` is the row of one pipeline, `queue` counts the events that command a stage
(`review_ready` and `complete` are acknowledged unseen), `act[a]` is the task of a
handler or an operator: its copy of the row and how far `doAdvance`, `Approve` or
`Retry` is. Calls of the publication port run as commands of `Publication` under
the actor's own name, so that they interleave with those of the publishing API
(`Direct`). Every update compares the version. Disturbances
(a handler that dies or loses broker or database, a request that does, an event
the broker refuses, an exhausted advance budget, a command of the publishing API)
are drawn from `Faults` and bounded by `MaxFaults`. One more may be in the queue
throughout: the event of another pipeline that has failed (`TakeForeign`), which the
handler requeues each time it is given it (`RequeueForeign`).

### AuditChain

A process starts by reading the head or inserting a genesis (`Start`,
`InsertGenesis`), then its operations append: mutex of the store (`Begin`),
advisory lock and head (`Acquire`), insert, commit, answer. A hash is its own
pre-image, so that equality of hashes is equality of what they bind; SHA-256 over
length-prefixed fields is taken to be injective, the keyed tag to be unforgeable.
`timestamp` has two values, the column's and the canonical text's, because the
column truncates. `nextSeq` is not taken back by a rollback, so chains have gaps.
A commit's answer may be lost (`CommitLost`), in which case the row may or may not
be there. `Closed` are the operations whose sink fails with the append; the others
log. `walk` is one client that follows the cursors to the end.

`First` are the processes that may start on an empty table. With one of them the
chain verifies; with two it forks (`FindingGenesis.cfg`).

### RecordRequests, Organization, TaskRecords, Documents, WorkspaceRecords

A request reads a row in one transaction (`Holding` its copy), writes the changed
copy in another, appends its audit record and answers. What each table checks
between is in its own module: parents and names of the organization with foreign
keys, unique indexes and cascades; the task lifecycle; the provider call that
embeds a document between read and write. Documents record an internal error as a
failure, tasks and the organization only log it. Row and record are two commits, and
either may be done although its answer is lost: then a change stands that the handler
takes for an error (`CommitLost`), or an entry of success stands behind a 500
(`RecordFails`, for tasks and documents, which fail closed) or a broken connection
(`RequestLost`). Two workspaces are in the tables, all
requests come from one; a row of the other must neither be reached nor move.

Abstractions: the columns a PATCH may change are one or two; names are compared as
`lower(name)` compares them; ids are numbers in the order of the UUIDs and never
used twice; store checks and the constraints behind them are one step, since
whichever refuses, nothing is written. `Scenarios` bounds the product of tables:
the requests of a behaviour use one pair of neighbouring tables, or one table
while a client lists it. Tables that share no key do not meet in the code either.

### Authorization

Patterns and paths are sequences of segments. `Served` is the chain in front
of the handlers, up to `authzMiddleware`: the claims have their shape, a rule grants
the request to role and scope, and a minted permission covers it. The requests are
those of the registered routes (`Requests`). The workspace that a handler itself takes
from the claims is `WorkspaceFromClaims`, which `TenantConfined` asks for separately.
The rule, permission and
route tables are complete. `rbac.Rules`, a wider table that only tests use, HEAD
requests and web assets are left out.

### Sessions

A refresh token is a number in the order of issue, which is also the order of
creation and of expiry, so one `horizon` stands for the clock. `store` is the map
in the process's memory: `main.go` configures no other, a restart empties it.
`Refresh` is a lookup of the identity, `Get` under the read lock, checks on the
copy, `Save` of the copy, `Save` of the successor, the audit record, the answer;
requests interleave at each. A token that expires on the way is refused when it is
parsed again, before its record is looked at, or by the check on the copy. `held` are the tokens that reached a client, `ended`
is history: the tokens a family had when reuse was detected. Passwords,
signatures, rate limits and malformed bodies only refuse a request before it
starts. Bootstrap, logout and workspace creation answer with a status.

## 3. Runs

Passing runs:

| Run | Instance | Shows |
|---|---|---|
| `board` | 2 executions of one employee (2 attempts and 1), 2 owners, 4 leases | ledger, budget, fencing, dead letters, capacity, finality, hand-over, refinement of the lifecycle |
| `runtime` | 1 execution, 1 attempt, 2 dispatchers, 2 handlers, 1 fault | recoveries against each other and against the worker, duplicated and late deliveries: all within the board's rules |
| `runtime_liveness` | 1 execution, 2 attempts, 1 fault | every admitted execution ends |
| `admission` | 5 concurrent requests, 3 with one key, 2 employees | one execution per key, capacity, true answers |
| `publication` | 3 callers on 1 publication | approval gate and truthful rows under lost updates; only a lost update leaves the lifecycle |
| `pipeline` | 2 handlers, 1 operator with 3 requests, 1 disturbance of any kind | the gate across both services, the order of the stages, the fit of status and stage |
| `pipeline_liveness` | 1 handler, 1 operator, 2 crashes | an active pipeline comes to rest |
| `audit` | API with 2 operations, worker with 1, a paging client, 1 fault | the chain verifies, edits show, success is recorded, pages are complete, appends are answered |
| `records` | 2 callers, 3 requests, ids 1 to 3 in each table, 2 workspaces, 1 fault | references, names, workspaces, vectors and statuses stay sound, success is audited, walks miss nothing |
| `access` | 2 requests at a time, founder and one of an administrator and a member, 3 tokens, sweep at 2 | dead tokens stay dead, reuse ends the family, late refreshes fail, the store is bounded, nobody is served another workspace |

Why these bounds: two leases of one row are enough for a stale fence, and with
two attempts a fence may be stale within an attempt (reclaim) or across attempts
(reschedule); four leases give both rows one of each. Two handlers are the least
for a duplicate to run beside its original, two dispatchers for two recoveries of
one row; the second attempt and its reschedule are in `board` and in
`runtime_liveness`. Three callers on one publication allow a write between another's read
and write with a third that sees the result. Three operator requests are one
create, one approval and one retry, in every order the code accepts. In `audit`
two appends contend inside a process for the mutex and two processes for the
advisory lock, and a third append extends the chain under the reader; page sizes 1
and 2 make a walk of several pages. In `records` two requests overlap and a third
precedes or follows; ids 1 to 3 leave room for a row of each workspace and a new
one, and instants 1 and 2 for rows that share their time. In `access` three tokens
are a login, its successor and the successor of either (or a second login), and
with a threshold of two the third is swept for. Deadlock is not checked where the
system may stop: all executions may be terminal, all pipelines done, all requests
of a bounded number answered.

The stateful modules have a type invariant, as description and for the proofs
(that of `Sessions` is in `SessionsProofs`); the runs list two of them, those of
the board and of the records, which relate several tables. `RetryFingerprint` is
proved (below) and in no run.

Symmetry is used for dispatchers, handlers, callers, clients and publications, in
runs without liveness properties only.

Fairness. `runtime_liveness`: the dispatcher's ticker runs for ever
(`startDispatchSweep`), goroutines are scheduled and their calls end by their
deadlines, time passes; all weak. Nothing is assumed of admission, cancellation
or heartbeats. `pipeline_liveness`: weak fairness of each
handler, which goes on with its delivery or, when it is free and anything is queued,
takes one, and of requests under way. Which event it is given is the broker's choice:
no order and no strong fairness is assumed, because the consumer has one delivery at
a time and requeues what fails. The run has no foreign event; with one the property
is false (`FindingBlocked.cfg`). No operator need ever send a request. `audit`: weak fairness of a
process's start and of each operation under way. The lock comes and goes, so weak
fairness would not do for a process that takes it again and again; every operation
takes it once.

### Disagreements between code and documentation

Each of these runs ends with a violation of one property, which states what a
comment of the repository says:

* `finding_poison`: messages of a finished execution are requeued for ever,
  because `ErrStaleLease` is returned as an error.
* `finding_lost_event`: a pipeline whose next event the broker refused stays
  active for ever. `newHandler` acknowledges the event because the row has moved
  on. The same line undoes the repair when the redelivered event meets an
  exhausted advance budget.

Further configurations end with a violation in the same way and are kept beside
the runs (`tlc -config FindingReject.cfg MCPublication`, and so on):

* `FindingAbandon.cfg` (`MCExecutionRuntime`, `AbandonedWhenLost`): a provider's
  answer that comes during a heartbeat is thrown away by the lease's owner
  (`internal/execution/worker.go:121`). The comment at line 123: "Ownership moved
  while we were talking to the provider: leave the row to recovery".
* `FindingContext.cfg` (`MCAdmission`, `SnapshotAdmitted`): admissions with a
  context snapshot always fail, because the INSERT (`executions.go:180`) does not
  fit the table (`database.go:514`). `internal/execution/store.go:109`: "a
  persisted execution always has its context materialized".
* `FindingReject.cfg` (`MCPublication`, `RejectedUnpublished`): an approval that
  overlaps a rejection overwrites it, and the publication goes out
  (`publications.go:163`). `internal/publish/service.go:143`: "Terminal; no
  publish."
* `FindingGenesis.cfg` (`MCAuditChain`, `ChainVerifies`): two processes that start
  on an empty table both insert a genesis (`auditstore/store.go:60`), and the chain
  never verifies again. Lines 52 to 54: "a database holding an existing chain is
  never re-genesis'd".
* `FindingPatch.cfg` (`MCWorkspaceRecords`, `PatchKeepsStatus`): a PATCH that read
  a task before a transition writes the old status back
  (`infrastructure/postgres/tasks.go:216`). `internal/api/task_handlers.go:215`:
  "it moves only through Transition, so a PATCH cannot smuggle a lifecycle change
  past the validation there".

* `FindingBlocked.cfg` (`MCCreatorPipeline`, `EventuallyRests`): the event of a
  failed pipeline is requeued for ever (`cmd/worker/handler.go:115` to 124,
  `internal/worker/worker.go:349`), and a consumer that is given it each time takes no
  other. `internal/worker/worker.go:26` describes this for messages that can never be
  processed and keeps only `ErrPermanent` from it.
* `FindingFamily.cfg` (`MCSessions`, `ReuseEndsSession`): reuse is detected between
  the `Save` of a rotated token and the insert of its successor (`auth.go:372`), and
  the successor outlives its family. The comment in `Refresh`: "Revoke every token
  descended from the same login (the family)".

Met while modelling and not stated as properties: the second of two concurrent
identical keyed admissions is refused rather than replayed, because its snapshot
predates the lock it waited for (`executions.go:76`); `last_error_code` of an
earlier attempt outlives it, so a later crash is recovered under it
(`executions.go:625`); of two overlapping publish commands the second, failing,
overwrites `published` by `failed` (`publications.go:163`). Two refreshes of one
token that overlap both succeed, because the store has no compare-and-set
(`auth.go:351`). `ReplayEndsFamily` speaks of the tokens a family had when reuse was
detected, because of `FindingFamily.cfg`. If the audit append fails after a rotation the client keeps only the
consumed token, and repeating the request counts as reuse (`handler.go:242`). If
it fails after bootstrap, a repeated bootstrap is answered 409 and the success is
never recorded. The memory bank undoes a write whose audit append failed by
deleting the cell, which also removes an earlier or a concurrent value.

## 4. Proofs

`ExecutionBoardProofs` proves about `BoardSpec`, for every finite set of
executions, all attempt budgets and capacities, any dispatchers and causes:
typing, `RetryLedger`, `AttemptBudget`, `FencingSound`, `DeadLetterExact`,
`RetryFingerprint`, `CapacityRespected` (invariants), `TerminalIsFinal` and
`LeaseHandover` (action properties), and that the board implements
`ExecutionLifecycle` under the mapping of status and attempt.

Assumptions: `ConstantsAssumption` (budgets and capacities are at least one, the
null owner is not an owner, the executions are finitely many) and
`CausesAssumption`. TLC evaluates both in every run of the board.

The inductive invariant is

    BoardInv == BoardTypeOK /\ (\A e : RowSound(e)) /\ FencingSound

The safety properties are not inductive alone. That a dead letter is exact needs
the ledger (its attempt is the last row's), the ledger needs fencing (a resolution
by a stale fence would process the wrong row), and fencing needs to know which
generations were granted. `RowSound` says of one execution what relates row,
ledger and dead letters; an action changes one execution, so `RowFrame` settles
all others at once. There is one lemma per method (`AdmitSound`, `ClaimSound`, ...,
`RescheduleSound`), and `InvStep` puts them together. `CapacityKept` needs finite
cardinalities and is proved from `BoardInv` by the fact that only admission adds
an active execution. The refinement follows `MethodStep`, which lists what each
method may do to status and attempt.

`RuntimeProofs` proves about `Spec` of `ExecutionRuntime`, for any executions,
dispatchers, handlers and faults: `FencesGranted`, `SingleDelivery`, and that the
runtime implements the open board (`RuntimeImplementsBoard`). Therefore all that is
proved of the board holds of the running system, which `RuntimeKeepsBoard` says in
one statement. The inductive invariant is

    RuntimeInv == BoardInv /\ TypeOK /\ OwnersGranted /\ (messages are genuine)
                  /\ (\A d : DispSound(d)) /\ (\A h : RunSound(h))

A message is genuine if it names a retry row and the fence rebuilt from it was granted.
`RoundTrip` shows that publishing a claim makes such a message: the fence comes back as
it was, since a dispatcher names itself and publishes its own claim. `OwnersGranted` says that a running row's
owner is the one its generation was granted to, from which the second half of
`FencesGranted` follows.

That a delivery is single needs `DispSound`: a dispatcher about to publish holds a
fence that is neither queued nor with a handler, which holds because its claim has
just made a generation that nobody had. The refinement needs `BoardInv`, since the
board binds its clients by the budget and the classification, and `RunSound`, that
what a handler decides on is a classification.

`AdmissionProofs` proves about `Spec` of `Admission`, for any requests, keys and
capacities: `KeyUnique`, `CapacityHeld`, `AnswersOwn`. The missing part of the
invariant is `SnapshotCovers`: of the rows a transaction sees, those active now
were active in its snapshot, since executions end and none comes back. Together
with the serialization check it gives `SnapshotSuffices`: a transaction that may
commit has counted every active execution of its employee, however old its
snapshot.

`PublicationProofs` proves about `PubSpec`, for any publications and callers:
typing, `ApprovalGate`, `RowsJustified` (invariants), `LifecycleKept` (action
property). `PubInv` adds what the copies in flight satisfy (`CallSound`): a command
that will deliver holds an approved copy of a publication whose approval is on
record, and one that will write holds a justified copy one edge away from the
status it read. Since commands overwrite each other, nothing may be said of the row
that is replaced.

`PipelineProofs` proves about `Spec` of `CreatorPipeline`, for any handlers,
operators and callers of the API and any disturbances: `GatedPublish`, `StatusFits`
(invariants), `StageOrder` (action property), and that the composition uses the
publishing service only by its commands (`PipelineImplementsPublishing`:
`Spec => PubSpec`), so that the service's own properties hold inside it
(`PipelineOversight`). `PipeInv` says of every actor what it has established at its
point of the code, as a fact about its copy: a copy whose version is the row's
agrees with the row (`Dated`), so the compared version carries the fact over to the
row when the copy is written. Approval and delivery of the draft are facts that no
step takes back.

`AuditChainProofs` proves about `Spec` of `AuditChain`, for any processes,
operations, faults and page sizes: `ChainVerifies`, `EditsDetected`,
`SuccessIsRecorded`, `PagesComplete`. `ChainHolds` has a hypothesis, `First
\subseteq {f}`: one process at most may start on an empty table. Without it the
chain forks (`FindingGenesis.cfg`); `main.go` and the worker do not coordinate, so
the hypothesis is the deployment's to keep. The common invariant `AuditInv` says that
the operation with the lock, and no other, is between its statements, that the head
it read is still the head, and that its row is linked to it. Each theorem adds its
own part: `RootInv` (a process without a root has found the table empty, and the
chain verifies so far), `CountInv` (rows per operation), `PageInv` (the pages shown
are the matching events above the cursor). `Ordered`, that the i-th row exists for
every i, is carried as an invariant because each insert extends the order at its
end; from finiteness alone it would take an induction.

`RecordsProofs` proves about `Spec` of `WorkspaceRecords`, for any workspaces,
callers, finite set of ids, page size and scenarios: `RecordsTypeOK`,
`OrganizationSound`, `EmbeddingFits`, `StatusEarned`, `SuccessAudited`,
`WalkComplete` (invariants) and `RowsStayPut` (action property). `RecordsInv` says
of a request what its copy guarantees: a document about to be written has its
vector, a task's status was its own or follows one it had, an employee's copy is as
old as the row. `AuditSound` says of its record that there is none before the answer
is decided, and that one of success belongs to a change that the service reported
(`MayRecordFacts`). `WalkInv` says that the cursor is a row shown, that nothing shown
comes after it, and that every row of the beginning that is still there was shown or
comes after the cursor. It needs `RowsStable`: rows keep key and table, new rows have
new ids.

`SessionsProofs` proves about `Spec` of `Sessions`, for any requests, accounts and
tokens and any threshold and batch of the sweep: `ReplayEndsFamily`, `LateRefused`,
`StoreBounded`, `TenantConfined` (invariants) and `DeadStayDead` (action property).
The inductive invariant is

    SessionsInv == SessionsTypeOK /\ ReplayEndsFamily /\ LateDead /\ LateRefused
                   /\ StoreBounded

`SessionsTypeOK` says that everything the store, the clients, the requests and the
history mention was issued, so that a new token is none of them. `LateDead` is what
`LateRefused` lacks: the token of a late request is dead, and since no step revives
a token (`Dead`, proved along with the invariant in `InvStep`) it is dead when it is
looked up. Steps that leave the store alone share the lemma `QuietStep`, the others
`StoreStep`. The bound rests on `SweepMakesRoom`: a full store of fresh records has
an oldest one (`LeastElement`), which the sweep drops.

`TenantConfined` is an argument over the two tables. `RulesConfine` shows of every
seeded rule, and `RoutesConfine` of every registered route, what confines
(`RuleConfines`, `RouteConfines`); `GrantConfines` shows that a request granted by
such a rule on such a route stays within workspace and role, because the first
segment of a pattern is never a placeholder and a rule below `/workspaces` captures
exactly the second. A rule or a route added to the code is added to the tables, and
these lemmas are what it has to pass. The workspaces, accounts and their homes are
arbitrary.

Assumptions. All are named ASSUMEs of the component's module, evaluated by TLC in
its runs: bounds are natural numbers, null values are no values, page sizes are
positive (`PageAssumption`; `DefaultPageSize` at most `MaxPageSize` in
`AuditAssumption`), the sweep's batch is between one and its threshold
(`SweepAssumption`), an account has a tenant's role and a workspace
(`AccountsAssumption`). The records start from arbitrary tables `FirstDepartments`,
`FirstTeams`, ..., of which `OrganizationAssumption`, `TasksAssumption` and
`DocumentsAssumption` say what the schema enforces (types, foreign keys, unique
names) and that stored vectors fit: every row of the table was written by the code
that is modelled. Bounds such as `MaxFaults` and `MaxRequests` are arbitrary, so they
restrict nothing.

Only model-checked: what must eventually happen (`EventuallyTerminal`,
`EventuallyRests`, `AppendsAnswered`), which is out of the prover's reach, and the
violations of section 3, which are counterexamples.

## 5. Not modelled

* The throttle and the usage guard: other modules let a request be refused at any
  time; the windows themselves are planned.
* The AI gateway: prompts, providers and answers are data, their outcomes are in
  `ExecutionRuntime`.
* Memory: cells in Redis behind a throttle; its compensating delete is described
  above. Health: one upsert per process and a comparison of times.
* The reconnection loops of consumer and sinks: what they do to messages
  (redelivery, loss, repetition) is in `ExecutionRuntime` and `CreatorPipeline`.
* Migrations as a restartable sequence; the schema they leave is in the modules.
* Roles, grants and policies of row level security as such: the records' models
  see what the policies let through.
* Configuration, logging, build information, web assets, password foundation,
  request identifiers and process wiring have no state that steps of several
  actors could disturb.

## 6. Plan

Done: the execution board, the runtime, admission, publishing, the pipeline, the
audit chain, the records, authentication and authorization, each with its proofs.
Left, in this order:

1. `Throttle` and the usage guard: windows at their edges, reservations that are
   never released (`internal/security`, `internal/ai`).
2. `Consumer`: reconnection, settlement on a channel that is gone, shutdown
   (`internal/worker`, `infrastructure/rabbitmq/reconnect.go`).
3. Memory and health.
4. Which attempt a persisted classification belongs to (`executions.go:625`).

Theorems to come: that admission implements the board's `Admit`, so that capacity
is one argument and not two; that the records of a deleted parent are gone with it
in one step.
