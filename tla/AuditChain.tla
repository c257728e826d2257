----------------------------- MODULE AuditChain -----------------------------
(***************************************************************************)
(* The persistent audit chain: Store.New and Store.Append of auditstore,   *)
(* the pre-images, the keyed tag and VerifyHashChain of internal/audit,    *)
(* the sinks that answer for an operation, and the paged readers.          *)
(*                                                                         *)
(* The API and the worker append to one table.  A link is computed over    *)
(* the row before it, so the head must be read under the advisory lock     *)
(* that the insert holds until it commits; and a reader pages through the  *)
(* table while it grows.                                                   *)
(*                                                                         *)
(* A hash is its own pre-image: SHA-256 of a length-prefixed encoding is   *)
(* taken to be injective.  The event type, the actor, the target and the   *)
(* principle of a record are one value, the operation that produced it.    *)
(***************************************************************************)
EXTENDS Integers, FiniteSets, FiniteSetsExt

CONSTANTS
    Process,          \* the API and the workers: each has a Store
    First,            \* the processes that may start while the table is empty
    Operation,        \* the audited operations
    ProcessOf,        \* the process that runs each operation
    WorkspaceOf,      \* its workspace, or NoWorkspace
    OutcomeOf,        \* the outcome it reports
    Closed,           \* the operations that fail when their record fails
    NoWorkspace, NoOne,
    Clock,            \* bound: instants, in halves of what TIMESTAMP resolves
    Limits,           \* bound: the page sizes a client asks for
    DefaultPageSize, MaxPageSize,
    MaxFaults         \* bound: failing statements, lost answers and crashes

ASSUME AuditAssumption ==
    /\ First \subseteq Process
    /\ ProcessOf \in [Operation -> Process]
    /\ OutcomeOf \in [Operation -> {"success", "denied"}]
    /\ Closed \subseteq Operation
    /\ NoOne \notin Operation
    /\ Clock \subseteq Nat /\ Limits \subseteq Nat
    /\ MaxPageSize \in Nat /\ DefaultPageSize \in 1..MaxPageSize
    /\ MaxFaults \in Nat

VARIABLES
    events,   \* audit_events: the committed rows
    nextSeq,  \* the identity column's sequence, which no rollback takes back
    lock,     \* who holds the advisory lock of the chain
    proc,     \* per process: the state of its Store
    call,     \* per operation: its Append
    answer,   \* per operation: what its caller was told
    walk,     \* one client that pages through the events
    faults

vars == <<events, nextSeq, lock, proc, call, answer, walk, faults>>

-----------------------------------------------------------------------------
(* Events, hashes and signatures.                                          *)

Outcomes == {"success", "denied"}
NoHash == << >>

\* timestamp is a TIMESTAMP column, timestamp_canonical the text that keeps
\* the nanoseconds.
Truncate(t) == t - (t % 2)

signHash(hash) == [keyed |-> hash]

\* Mutant: the outcome is not bound into the link.
PreimageWithoutOutcome(prev, ev) ==
    <<prev.id, prev.hash, prev.timestamp, prev.genesis, ev.id, ev.timestamp,
      ev.of>>

GenesisPreimage(ev) == <<"GENESIS_HASH", ev.timestamp, ev.outcome>>
ChainPreimage(prev, ev) ==
    <<prev.id, prev.hash, prev.timestamp, prev.genesis, ev.id, ev.timestamp,
      ev.of, ev.outcome>>

\* An event in memory.  id stands for the two fresh UUIDs of an event.
Signed(ev, hash) == [ev EXCEPT !.hash = hash, !.sig = signHash(hash)]

GenesisEvent(id, now) ==
    LET ev == [id |-> id, timestamp |-> now, genesis |-> TRUE, of |-> NoOne,
               outcome |-> "genesis", parent |-> 0, hash |-> NoHash,
               sig |-> NoHash]
    IN  Signed(ev, GenesisPreimage(ev))

AppendEvent(prev, id, now, o) ==
    LET ev == [id |-> id, timestamp |-> now, genesis |-> FALSE, of |-> o,
               outcome |-> OutcomeOf[o], parent |-> prev.id, hash |-> NoHash,
               sig |-> NoHash]
    IN  Signed(ev, ChainPreimage(prev, ev))

\* insertTx and scanRow: what a row keeps of an event, and the way back.
RowOf(ev, seq, workspace) ==
    [seq |-> seq, workspace |-> workspace, column |-> Truncate(ev.timestamp),
     ev |-> ev]
ScanRow(row) == row.ev

VerifyHashChain(chain) ==
    /\ chain # << >>
    /\ chain[1].genesis /\ chain[1].hash = GenesisPreimage(chain[1])
    /\ \A i \in DOMAIN chain \ {1} :
        chain[i].hash = ChainPreimage(chain[i - 1], chain[i])
    /\ \A i \in DOMAIN chain : chain[i].sig = signHash(chain[i].hash)

-----------------------------------------------------------------------------
(* The table.                                                              *)

\* ORDER BY seq ASC.
Nth(i) == CHOOSE row \in events :
            Cardinality({r \in events : r.seq <= row.seq}) = i
Chain == [i \in 1..Cardinality(events) |-> ScanRow(Nth(i))]
Verify == VerifyHashChain(Chain)

\* ORDER BY seq DESC LIMIT 1, under READ COMMITTED.
NoHead == [id |-> 0]
LoadHead == IF events = {} THEN NoHead
            ELSE ScanRow(CHOOSE row \in events :
                            \A r \in events : r.seq <= row.seq)

-----------------------------------------------------------------------------
Down == [pc |-> "down", head |-> NoHead]
Quiet == [pc |-> "idle", prev |-> NoHead, row |-> NoHead]
NoWalk == [pc |-> "idle", scope |-> NoWorkspace, outcome |-> "", limit |-> 0,
           before |-> 0, top |-> 0, seen |-> {}, shown |-> 0]

Init ==
    /\ events = {}
    /\ nextSeq = 1
    /\ lock = NoOne
    /\ proc = [p \in Process |-> Down]
    /\ call = [o \in Operation |-> Quiet]
    /\ answer = [o \in Operation |-> "none"]
    /\ walk = NoWalk
    /\ faults = 0

Fault == faults < MaxFaults /\ faults' = faults + 1

-----------------------------------------------------------------------------
(* Store.New.                                                              *)

\* loadHead, a transaction of its own.
Start(p) ==
    /\ proc[p].pc = "down" /\ lock = NoOne
    /\ events = {} => p \in First
    /\ proc' = [proc EXCEPT ![p] =
                    [pc |-> IF events = {} THEN "rootless" ELSE "up",
                     head |-> LoadHead]]
    /\ UNCHANGED <<events, nextSeq, lock, call, answer, walk, faults>>

\* insert, another transaction: nothing looks at the table again.
InsertGenesis(p) == \E now \in Clock :
    LET ev == GenesisEvent(nextSeq, now) IN
    /\ proc[p].pc = "rootless" /\ lock = NoOne
    /\ events' = events \cup {RowOf(ev, nextSeq, NoWorkspace)}
    /\ nextSeq' = nextSeq + 1
    /\ proc' = [proc EXCEPT ![p] = [pc |-> "up", head |-> ev]]
    /\ UNCHANGED <<lock, call, answer, walk, faults>>

\* New fails and the process exits; the genesis may be committed all the same.
GenesisFails(p) ==
    /\ proc[p].pc = "rootless" /\ lock = NoOne /\ Fault
    /\ proc' = [proc EXCEPT ![p] = Down]
    /\ \/ UNCHANGED events
       \/ \E now \in Clock : events' =
            events \cup {RowOf(GenesisEvent(nextSeq, now), nextSeq, NoWorkspace)}
    /\ nextSeq' = nextSeq + 1
    /\ UNCHANGED <<lock, call, answer, walk>>

-----------------------------------------------------------------------------
(* Store.Append.                                                           *)

OthersOf(o) == {q \in Operation \ {o} : ProcessOf[q] = ProcessOf[o]}

\* The mutex of the process, and BEGIN.
Begin(o) ==
    /\ proc[ProcessOf[o]].pc = "up"
    /\ call[o].pc = "idle" /\ answer[o] = "none"
    /\ \A q \in OthersOf(o) : call[q].pc \in {"idle", "reply", "failed"}
    /\ call' = [call EXCEPT ![o].pc = "begun"]
    /\ UNCHANGED <<events, nextSeq, lock, proc, answer, walk, faults>>

\* A record without event type, outcome or principle is refused at once.
RefuseRecord(o) ==
    /\ proc[ProcessOf[o]].pc = "up"
    /\ call[o].pc = "idle" /\ answer[o] = "none" /\ Fault
    /\ call' = [call EXCEPT ![o].pc = "failed"]
    /\ UNCHANGED <<events, nextSeq, lock, proc, answer, walk>>

\* Mutant: the head this process remembers is used.
AcquireCached(o) ==
    /\ call[o].pc = "begun" /\ lock = NoOne
    /\ lock' = o
    /\ call' = [call EXCEPT ![o].pc = "locked", ![o].prev = proc[ProcessOf[o]].head]
    /\ UNCHANGED <<events, nextSeq, proc, answer, walk, faults>>

\* pg_advisory_xact_lock waits; then the head is read again.
Acquire(o) ==
    /\ call[o].pc = "begun" /\ lock = NoOne
    /\ lock' = o
    /\ call' = [call EXCEPT ![o].pc = "locked", ![o].prev = LoadHead]
    /\ proc' = [proc EXCEPT ![ProcessOf[o]].head = LoadHead]
    /\ UNCHANGED <<events, nextSeq, answer, walk, faults>>

\* AppendEvent and insertTx; the row is not visible yet.
Insert(o) == \E now \in Clock :
    /\ call[o].pc = "locked" /\ call[o].prev # NoHead
    /\ call' = [call EXCEPT
            ![o].pc = "inserted",
            ![o].row = RowOf(AppendEvent(call[o].prev, nextSeq, now, o),
                             nextSeq, WorkspaceOf[o])]
    /\ nextSeq' = nextSeq + 1
    /\ UNCHANGED <<events, lock, proc, answer, walk, faults>>

Released(o) == lock' = IF lock = o THEN NoOne ELSE lock

\* Mutant: the lock belongs to the session and is not released.
CommitKeepsLock(o) ==
    /\ call[o].pc = "inserted"
    /\ events' = events \cup {call[o].row}
    /\ proc' = [proc EXCEPT ![ProcessOf[o]].head = ScanRow(call[o].row)]
    /\ call' = [call EXCEPT ![o] = [Quiet EXCEPT !.pc = "reply"]]
    /\ UNCHANGED <<nextSeq, lock, answer, walk, faults>>

Commit(o) ==
    /\ call[o].pc = "inserted"
    /\ events' = events \cup {call[o].row}
    /\ Released(o)
    /\ proc' = [proc EXCEPT ![ProcessOf[o]].head = ScanRow(call[o].row)]
    /\ call' = [call EXCEPT ![o] = [Quiet EXCEPT !.pc = "reply"]]
    /\ UNCHANGED <<nextSeq, answer, walk, faults>>

\* A statement fails, or the request's context ends: rolled back.
AppendFails(o) ==
    /\ call[o].pc \in {"begun", "locked", "inserted"} /\ Fault
    /\ Released(o)
    /\ call' = [call EXCEPT ![o] = [Quiet EXCEPT !.pc = "failed"]]
    /\ UNCHANGED <<events, nextSeq, proc, answer, walk>>

\* The row is committed, the answer to COMMIT is lost.
CommitLost(o) ==
    /\ call[o].pc = "inserted" /\ Fault
    /\ events' = events \cup {call[o].row}
    /\ Released(o)
    /\ call' = [call EXCEPT ![o] = [Quiet EXCEPT !.pc = "failed"]]
    /\ UNCHANGED <<nextSeq, proc, answer, walk>>

\* Mutant: every sink is fire-and-forget.
AnswerRegardless(o) == "success"

\* MemorySink.RecordError and the handlers' recordAudit fail closed, PublishSink
\* and PipelineSink log the failure and go on.
AnswerOf(o) == IF call[o].pc = "failed" /\ o \in Closed THEN "error" ELSE "success"

Reply(o) ==
    /\ call[o].pc \in {"reply", "failed"}
    /\ answer' = [answer EXCEPT ![o] = AnswerOf(o)]
    /\ call' = [call EXCEPT ![o] = Quiet]
    /\ UNCHANGED <<events, nextSeq, lock, proc, walk, faults>>

\* The process dies; PostgreSQL rolls its transactions back.  Whoever waited
\* for an answer is told of the broken connection.
Crash(p) ==
    LET mine == {o \in Operation : ProcessOf[o] = p /\ call[o].pc # "idle"} IN
    /\ proc[p].pc # "down" /\ Fault
    /\ proc' = [proc EXCEPT ![p] = Down]
    /\ lock' = IF lock \in mine THEN NoOne ELSE lock
    /\ call' = [o \in Operation |-> IF o \in mine THEN Quiet ELSE call[o]]
    /\ answer' = [o \in Operation |-> IF o \in mine THEN "error" ELSE answer[o]]
    /\ UNCHANGED <<events, nextSeq, walk>>

-----------------------------------------------------------------------------
(* The readers: GET /audit/events and GET /workspaces/{id}/audit/events.   *)

\* Query.Normalize.
Normalize(limit) ==
    IF limit = 0 THEN DefaultPageSize
    ELSE IF limit > MaxPageSize THEN MaxPageSize ELSE limit

\* Mutant: the cursor includes the row it names.
MatchesInclusive(row, w) ==
    /\ w.scope = NoWorkspace \/ row.workspace = w.scope
    /\ w.outcome = "" \/ row.ev.outcome = w.outcome
    /\ w.before = 0 \/ row.seq <= w.before

\* buildQuery: the filters and the cursor.
Matches(row, w) ==
    /\ w.scope = NoWorkspace \/ row.workspace = w.scope
    /\ w.outcome = "" \/ row.ev.outcome = w.outcome
    /\ w.before = 0 \/ row.seq < w.before

\* ORDER BY seq DESC LIMIT limit.
Page(w) == LET all == {row \in events : Matches(row, w)} IN
    {row \in all : Cardinality({r \in all : r.seq >= row.seq}) <= w.limit}

\* newAuditPage: a cursor is offered only when the page came back full.
Read(w) == LET page == Page(w) IN
    walk' = [w EXCEPT
        !.pc = IF Cardinality(page) = w.limit THEN "more" ELSE "done",
        !.before = IF Cardinality(page) = w.limit
                   THEN Min({row.seq : row \in page}) ELSE w.before,
        !.seen = w.seen \cup {row.seq : row \in page},
        !.shown = w.shown + Cardinality(page)]

\* ListOrg and ListForWorkspace, without a cursor.  top is what the client
\* could have seen when it began.
FirstPage == \E scope \in {NoWorkspace} \cup {WorkspaceOf[o] : o \in Operation},
                outcome \in {"", "success"}, limit \in Limits :
    /\ walk.pc = "idle" /\ events # {}
    /\ Read([NoWalk EXCEPT !.scope = scope, !.outcome = outcome,
                           !.limit = Normalize(limit),
                           !.top = Max({row.seq : row \in events})])
    /\ UNCHANGED <<events, nextSeq, lock, proc, call, answer, faults>>

NextPage ==
    /\ walk.pc = "more"
    /\ Read(walk)
    /\ UNCHANGED <<events, nextSeq, lock, proc, call, answer, faults>>

-----------------------------------------------------------------------------
ProcessStep(p) == Start(p) \/ InsertGenesis(p) \/ GenesisFails(p) \/ Crash(p)
OperationStep(o) ==
    \/ Begin(o) \/ RefuseRecord(o) \/ Acquire(o) \/ Insert(o) \/ Commit(o)
    \/ AppendFails(o) \/ CommitLost(o) \/ Reply(o)

Next ==
    \/ \E p \in Process : ProcessStep(p)
    \/ \E o \in Operation : OperationStep(o)
    \/ FirstPage \/ NextPage

Spec == Init /\ [][Next]_vars

\* A process is started and restarted, and its transactions run on.  Weak
\* fairness is enough although the lock comes and goes: every operation takes
\* it once.
Runs(o) == Begin(o) \/ Acquire(o) \/ Insert(o) \/ Commit(o) \/ Reply(o)
FairSpec ==
    /\ Spec
    /\ \A p \in Process : WF_vars(Start(p) \/ InsertGenesis(p))
    /\ \A o \in Operation : WF_vars(Runs(o))

-----------------------------------------------------------------------------
(* Properties.                                                             *)

Seqs == {row.seq : row \in events}

\* The table, the calls and the client's walk are well formed: a row carries
\* the precision its column has, and only a call in its transaction may hold
\* the lock.
TypeOK ==
    /\ \A row \in events :
        /\ row.seq \in 1..(nextSeq - 1)
        /\ row.ev.outcome \in Outcomes \cup {"genesis"}
        /\ row.ev.of \in Operation \cup {NoOne}
        /\ row.column = Truncate(row.ev.timestamp)
    /\ lock # NoOne => call[lock].pc \in {"locked", "inserted"}
    /\ \A p \in Process : proc[p].pc \in {"down", "rootless", "up"}
    /\ \A o \in Operation :
        /\ call[o].pc \in {"idle", "begun", "locked", "inserted", "reply", "failed"}
        /\ answer[o] \in {"none", "success", "error"}
    /\ walk.pc \in {"idle", "more", "done"} /\ walk.seen \subseteq Seqs
    /\ walk.limit \in 0..MaxPageSize
    /\ faults \in 0..MaxFaults

\* Whoever appends and whatever fails, the persisted chain verifies: one root,
\* every row linked to the row before it in seq order, every tag good
\* (Store.Append reads the head again under the lock it holds until COMMIT).
ChainVerifies == events # {} => Verify

Without(chain, i) ==
    [j \in 1..(Cardinality(DOMAIN chain) - 1) |->
        IF j < i THEN chain[j] ELSE chain[j + 1]]
Edits(ev) ==
    {[ev EXCEPT !.outcome = x] : x \in Outcomes \ {ev.outcome}}
    \cup {[ev EXCEPT !.timestamp = t] : t \in {Truncate(ev.timestamp)} \ {ev.timestamp}}
    \cup {[ev EXCEPT !.of = o] : o \in IF ev.genesis THEN {} ELSE Operation \ {ev.of}}

\* A row whose outcome, instant or content was changed afterwards, or that was
\* taken out from under its successors, fails the verification; recomputing
\* the unkeyed hash of the changed row does not help (ChainPreimage: "Every
\* field whose alteration must be detectable is bound here"; signHash).
EditsDetected == Verify => \A i \in DOMAIN Chain :
    /\ \A ev \in Edits(Chain[i]) :
        LET rehashed == IF i = 1 THEN GenesisPreimage(ev)
                                 ELSE ChainPreimage(Chain[i - 1], ev)
        IN  /\ ~VerifyHashChain([Chain EXCEPT ![i] = ev])
            /\ ~VerifyHashChain([Chain EXCEPT ![i] = [ev EXCEPT !.hash = rehashed]])
    /\ i < Cardinality(events) => ~VerifyHashChain(Without(Chain, i))

\* An operation of a fail-closed sink that reports success has left its record
\* in the chain, once, whatever happened to other appends (Append: "an action
\* that cannot leave a durable audit record must not report success").
SuccessIsRecorded == \A o \in Closed :
    answer[o] = "success" => Cardinality({row \in events : row.ev.of = o}) = 1

\* A client that follows the cursors to the end was shown every matching event
\* that existed when it began, each once and nothing else, although the table
\* grew under it (audit.Reader: "a cursor can neither skip nor repeat a row").
PagesComplete == walk.pc = "done" =>
    /\ walk.seen = {row.seq : row \in {r \in events :
                        r.seq <= walk.top /\ Matches(r, [walk EXCEPT !.before = 0])}}
    /\ walk.shown = Cardinality(walk.seen)

\* Every operation is answered: nobody waits for the chain's lock for ever,
\* whoever crashed while holding it.
AppendsAnswered == \A o \in Operation :
    call[o].pc # "idle" ~> answer[o] # "none"
=============================================================================
