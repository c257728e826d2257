------------------------ MODULE ExecutionBoardProofs ------------------------
(***************************************************************************)
(* Proofs about ExecutionBoard, for any number of executions, employees    *)
(* and dispatchers and any attempt budgets and capacities.                 *)
(***************************************************************************)
EXTENDS ExecutionBoard, TLAPS, FiniteSetTheorems, SequenceTheorems

-----------------------------------------------------------------------------
(* What the row operators write and what they leave alone.                 *)

\* A granted lease: running under the new owner, generation and attempt.
LEMMA LeasedRow ==
    ASSUME NEW r \in Row, NEW o \in Dispatcher, NEW g \in Nat, NEW a \in Nat
    PROVE  LET s == Leased(r, o, g, a) IN
           /\ s \in Row
           /\ s.status = "running" /\ s.attempt = a /\ s.owner = o /\ s.gen = g
           /\ s.code = r.code
  BY DEF Leased, Row, Status, Active

\* A released lease: only status, owner and expiry change.
LEMMA ReleasedRow ==
    ASSUME NEW r \in Row, NEW st \in Status
    PROVE  LET s == Released(r, st) IN
           /\ s \in Row
           /\ s.status = st /\ s.owner = NoOwner
           /\ s.attempt = r.attempt /\ s.gen = r.gen /\ s.code = r.code
  BY DEF Released, Row

\* A processed retry row: resolved with its outcome, fingerprint cleared.
LEMMA ProcessedRow ==
    ASSUME NEW r \in RetryRow, NEW out \in RetryOutcome
    PROVE  LET s == Processed(r, out) IN
           /\ s \in RetryRow
           /\ s.state = "processed" /\ s.outcome = out /\ s.worker = NoOwner
           /\ s.seq = r.seq
  BY DEF Processed, RetryRow, RetryState

\* A claimed retry row carries the claim's fingerprint.
LEMMA TakenRow ==
    ASSUME NEW r \in RetryRow, NEW o \in Dispatcher, NEW g \in Nat
    PROVE  LET s == Taken(r, o, g) IN
           /\ s \in RetryRow
           /\ s.state = "claimed" /\ s.worker = o /\ s.gen = g
           /\ s.seq = r.seq /\ s.outcome = r.outcome
  BY DEF Taken, RetryRow, RetryState, Outstanding, InFlight

\* A dispatched retry row keeps its fingerprint.
LEMMA SentRow ==
    ASSUME NEW r \in RetryRow
    PROVE  LET s == Sent(r) IN
           /\ s \in RetryRow
           /\ s.state = "dispatched" /\ s.worker = r.worker /\ s.gen = r.gen
           /\ s.seq = r.seq /\ s.outcome = r.outcome
  BY DEF Sent, RetryRow, RetryState, Outstanding, InFlight

\* A new pending retry row.
LEMMA PendingRow ==
    ASSUME NEW q \in Nat, NEW g \in Nat
    PROVE  LET s == PendingRetry(q, g) IN
           /\ s \in RetryRow
           /\ s.state = "pending" /\ s.outcome = NoCode /\ s.worker = NoOwner
           /\ s.seq = q
  BY DEF PendingRetry, RetryRow, RetryState, Outstanding

\* What the UPDATE of Resolve does to a table of retry rows: it keeps their
\* number and rewrites exactly the selected rows.
LEMMA ResolveRows ==
    ASSUME NEW rs \in Seq(RetryRow), NEW from, NEW out \in RetryOutcome
    PROVE  LET t == Resolve(rs, from, out) IN
           /\ t \in Seq(RetryRow)
           /\ Len(t) = Len(rs)
           /\ \A i \in 1..Len(rs) :
                /\ rs[i].state \notin from => t[i] = rs[i]
                /\ rs[i].state \in from => t[i] = Processed(rs[i], out)
  <1> DEFINE row(i) == IF rs[i].state \in from THEN Processed(rs[i], out) ELSE rs[i]
  <1>1. Len(rs) \in Nat
    OBVIOUS
  <1>2. ASSUME NEW i \in 1..Len(rs) PROVE row(i) \in RetryRow
    <2>1. rs[i] \in RetryRow
      OBVIOUS
    <2> QED
      BY <2>1, ProcessedRow
  <1>3. Resolve(rs, from, out) = [i \in 1..Len(rs) |-> row(i)]
    BY DEF Resolve
  <1> HIDE DEF row
  <1>4. [i \in 1..Len(rs) |-> row(i)] \in Seq(RetryRow)
    BY <1>1, <1>2
  <1>5. Len(Resolve(rs, from, out)) = Len(rs)
    BY <1>1, <1>3, <1>4
  <1>6. \A i \in 1..Len(rs) : Resolve(rs, from, out)[i] = row(i)
    BY <1>3
  <1> QED
    BY <1>3, <1>4, <1>5, <1>6 DEF row

-----------------------------------------------------------------------------
(* Typing.                                                                 *)

\* One method keeps the tables well typed.
LEMMA TypingStep == BoardTypeOK /\ [BoardNext]_boardVars => BoardTypeOK'
  <1> SUFFICES ASSUME BoardTypeOK, [BoardNext]_boardVars
               PROVE  BoardTypeOK'
    OBVIOUS
  <1> USE ConstantsAssumption, CausesAssumption
  <1>1. CASE UNCHANGED boardVars
    BY <1>1 DEF boardVars, BoardTypeOK
  <1>2. ASSUME NEW e \in Execution, AdmissionAdmit(e) PROVE BoardTypeOK'
    <2>1. << PendingRetry(1, 0) >> \in Seq(RetryRow)
      BY PendingRow
    <2>2. [execs[e] EXCEPT !.status = "pending"] \in Row
      BY DEF BoardTypeOK, Row, Status, Active
    <2> QED
      BY <1>2, <2>1, <2>2 DEF AdmissionAdmit, BoardTypeOK
  <1>3. ASSUME NEW e \in Execution, Cancel(e) PROVE BoardTypeOK'
    <2>1. Resolve(retries[e], Outstanding, "cancelled") \in Seq(RetryRow)
      BY ResolveRows DEF BoardTypeOK, RetryOutcome
    <2>2. Released(execs[e], "cancelled") \in Row
      BY ReleasedRow DEF BoardTypeOK, Status, TerminalStatus
    <2>3. [Released(execs[e], "cancelled") EXCEPT !.code = NoCode] \in Row
      BY <2>2 DEF Row
    <2> QED
      BY <1>3, <2>1, <2>3 DEF Cancel, BoardTypeOK
  <1>4. ASSUME NEW e \in Execution, LeaseExpires(e) PROVE BoardTypeOK'
    BY <1>4, ZenonT(60) DEF LeaseExpires, BoardTypeOK, Row
  <1>5. ASSUME NEW e \in Execution, BackoffElapses(e) PROVE BoardTypeOK'
    BY <1>5, ZenonT(60) DEF BackoffElapses, BoardTypeOK, Row
  <1>6. ASSUME NEW e \in Execution, NEW o \in Dispatcher,
               NEW i \in 1..Len(retries[e]), Claim(e, o, i)
        PROVE  BoardTypeOK'
    <2>1. execs[e].gen + 1 \in Nat /\ execs[e].attempt + 1 \in Nat
      BY DEF BoardTypeOK, Row
    <2>2. Leased(execs[e], o, execs[e].gen + 1, execs[e].attempt + 1) \in Row
      BY <2>1, LeasedRow DEF BoardTypeOK
    <2>3. Taken(retries[e][i], o, execs[e].gen + 1) \in RetryRow
      BY <2>1, TakenRow DEF BoardTypeOK
    <2>4. [retries[e] EXCEPT ![i] = Taken(retries[e][i], o, execs[e].gen + 1)]
             \in Seq(RetryRow)
      BY <2>3 DEF BoardTypeOK
    <2>5. ClaimFence(e, o, i) \in Fence
      BY <2>1 DEF BoardTypeOK, Fence, ClaimFence
    <2> QED
      BY <1>6, <2>2, <2>4, <2>5 DEF Claim, BoardTypeOK
  <1>7. ASSUME NEW e \in Execution, NEW o \in Dispatcher, ReclaimStale(e, o)
        PROVE  BoardTypeOK'
    <2>1. execs[e].gen + 1 \in Nat /\ execs[e].attempt \in Nat
      BY DEF BoardTypeOK, Row
    <2>2. Leased(execs[e], o, execs[e].gen + 1, execs[e].attempt) \in Row
      BY <2>1, LeasedRow DEF BoardTypeOK
    <2>3. ReclaimFence(e, o) \in Fence
      BY <2>1 DEF Fence, ReclaimFence
    <2> QED
      BY <1>7, <2>2, <2>3 DEF ReclaimStale, BoardTypeOK
  <1>8. ASSUME NEW f \in granted, Fenced(f) PROVE BoardTypeOK'
    <2>0. f \in Fence /\ f.exec \in Execution /\ f.attempt \in Nat /\ f.gen \in Nat
      BY DEF BoardTypeOK, Fence
    <2>1. CASE Heartbeat(f)
      BY <2>0, <2>1, ZenonT(60) DEF Heartbeat, BoardTypeOK, Row
    <2>2. CASE Complete(f)
      <3>1. Resolve(retries[f.exec], InFlight, "success") \in Seq(RetryRow)
        BY <2>0, ResolveRows DEF BoardTypeOK, RetryOutcome
      <3>2. Released(execs[f.exec], "completed") \in Row
        BY <2>0, ReleasedRow DEF BoardTypeOK, Status, TerminalStatus
      <3> QED
        BY <2>0, <2>2, <3>1, <3>2 DEF Complete, BoardTypeOK
    <2>3. ASSUME NEW c \in Causes, PersistError(f, c) PROVE BoardTypeOK'
      BY <2>0, <2>3, ZenonT(60) DEF PersistError, BoardTypeOK, Row
    <2>4. ASSUME NEW c \in Causes, FailAndDLQ(f, c) PROVE BoardTypeOK'
      <3>1. Resolve(retries[f.exec], InFlight, "failed") \in Seq(RetryRow)
        BY <2>0, ResolveRows DEF BoardTypeOK, RetryOutcome
      <3>2. [attempt |-> f.attempt, code |-> c] \in DLQRow
        BY <2>0 DEF DLQRow
      <3>3. Append(dlq[f.exec], [attempt |-> f.attempt, code |-> c]) \in Seq(DLQRow)
        BY <2>0, <3>2 DEF BoardTypeOK
      <3>4. Released(execs[f.exec], "failed") \in Row
        BY <2>0, ReleasedRow DEF BoardTypeOK, Status, TerminalStatus
      <3>5. [Released(execs[f.exec], "failed") EXCEPT !.code = c] \in Row
        BY <3>4 DEF Row
      <3> QED
        BY <2>0, <2>4, <3>1, <3>3, <3>5 DEF FailAndDLQ, BoardTypeOK
    <2>5. CASE Reschedule(f, f.attempt + 1)
      <3>1. Resolve(retries[f.exec], InFlight, "failed") \in Seq(RetryRow)
        BY <2>0, ResolveRows DEF BoardTypeOK, RetryOutcome
      <3>2. PendingRetry(f.attempt + 1, f.gen) \in RetryRow
        BY <2>0, PendingRow
      <3>3. Append(Resolve(retries[f.exec], InFlight, "failed"),
                   PendingRetry(f.attempt + 1, f.gen)) \in Seq(RetryRow)
        BY <3>1, <3>2
      <3>4. Released(execs[f.exec], "pending") \in Row
        BY <2>0, ReleasedRow DEF BoardTypeOK, Status, Active
      <3>5. [Released(execs[f.exec], "pending") EXCEPT !.due = FALSE] \in Row
        BY <3>4 DEF Row
      <3> QED
        BY <2>0, <2>5, <3>3, <3>5 DEF Reschedule, BoardTypeOK
    <2>6. ASSUME NEW ok \in BOOLEAN, RecordDispatch(f, ok) PROVE BoardTypeOK'
      <3>1. ASSUME NEW i \in 1..Len(retries[f.exec])
            PROVE  [retries[f.exec] EXCEPT ![i] = Sent(retries[f.exec][i])]
                     \in Seq(RetryRow)
        BY <2>0, SentRow DEF BoardTypeOK
      <3>2. CASE UNCHANGED retries
        BY <2>6, <3>2 DEF RecordDispatch, BoardTypeOK
      <3>3. CASE retries' = [retries EXCEPT ![f.exec][f.retry] =
                                Sent(retries[f.exec][f.retry])]
        BY <2>0, <2>6, <3>1, <3>3 DEF RecordDispatch, BoardTypeOK
      <3> QED
        BY <2>6, <3>2, <3>3 DEF RecordDispatch
    <2> QED
      BY <1>8, <2>1, <2>2, <2>3, <2>4, <2>5, <2>6 DEF Fenced
  <1> QED
    BY <1>1, <1>2, <1>3, <1>4, <1>5, <1>6, <1>7, <1>8 DEF BoardNext

\* The tables stay well typed whatever method runs.
THEOREM BoardTyping == BoardSpec => []BoardTypeOK
  <1>1. BoardInit => BoardTypeOK
    BY ConstantsAssumption DEF BoardInit, BoardTypeOK, AbsentRow, Row, Status
  <1> QED
    BY <1>1, TypingStep, PTL DEF BoardSpec

-----------------------------------------------------------------------------
(* The inductive invariant.  The ledger, the budgets, the fingerprints and  *)
(* the dead letters need one another, and all of them need that a fence     *)
(* which still matches its row carries that row's attempt.                  *)

RowSound(e) == /\ LedgerTail(e) /\ LedgerPrefix(e) /\ BudgetOf(e)
               /\ FingerprintOf(e) /\ DeadLetterOf(e)

BoardInv == /\ BoardTypeOK
            /\ \A e \in Execution : RowSound(e)
            /\ FencingSound

\* A row whose tables a step leaves alone stays sound.
LEMMA RowFrame ==
    ASSUME NEW x \in Execution, BoardTypeOK, RowSound(x),
           execs'[x] = execs[x], retries'[x] = retries[x], dlq'[x] = dlq[x],
           granted \subseteq granted'
    PROVE  RowSound(x)'
  <1>1. LedgerTail(x)' /\ LedgerPrefix(x)'
    BY DEF RowSound, LedgerTail, LedgerPrefix, LastRetry
  <1>2. BudgetOf(x)' /\ DeadLetterOf(x)'
    BY DEF RowSound, BudgetOf, DeadLetterOf
  <1>3. FingerprintOf(x)'
    BY DEF RowSound, FingerprintOf
  <1> QED
    BY <1>1, <1>2, <1>3 DEF RowSound

\* The statements that only touch expiry, due time or code keep everything.
LEMMA SoftStep ==
    ASSUME BoardInv, BoardTypeOK',
           UNCHANGED <<retries, dlq, granted>>,
           \A x \in Execution :
              /\ execs'[x].status = execs[x].status
              /\ execs'[x].attempt = execs[x].attempt
              /\ execs'[x].owner = execs[x].owner
              /\ execs'[x].gen = execs[x].gen
              /\ execs[x].status = "failed" => execs'[x].code = execs[x].code
    PROVE  BoardInv'
  <1>1. ASSUME NEW x \in Execution PROVE RowSound(x)'
    <2>1. LedgerTail(x)' /\ LedgerPrefix(x)'
      BY SMTT(30) DEF BoardInv, RowSound, LedgerTail, LedgerPrefix, LastRetry
    <2>2. BudgetOf(x)' /\ DeadLetterOf(x)'
      BY DEF BoardInv, RowSound, BudgetOf, DeadLetterOf
    <2>3. FingerprintOf(x)'
      BY DEF BoardInv, RowSound, FingerprintOf
    <2> QED
      BY <2>1, <2>2, <2>3 DEF RowSound
  <1>2. ASSUME NEW f \in granted PROVE FenceSound(f)'
    <2>1. f.exec \in Execution /\ FenceSound(f)
      BY DEF BoardInv, BoardTypeOK, Fence, FencingSound
    <2> QED
      BY <2>1 DEF FenceSound, Held
  <1>3. FencingSound'
    BY <1>2 DEF BoardInv, FencingSound
  <1> QED
    BY <1>1, <1>3 DEF BoardInv

\* A step that grants nothing, keeps generations and attempts and leaves no
\* row running that was not, keeps fencing sound.
LEMMA FencingFrame ==
    ASSUME BoardInv, granted' = granted,
           \A x \in Execution :
              /\ execs'[x].attempt = execs[x].attempt
              /\ execs'[x].gen = execs[x].gen
              /\ execs'[x].status = "running" => execs'[x] = execs[x]
    PROVE  FencingSound'
  BY DEF BoardInv, BoardTypeOK, Fence, FencingSound, FenceSound, Held

\* A running execution has exactly one retry row in flight, the last.
LEMMA RunningLedger ==
    ASSUME BoardInv, NEW e \in Execution, execs[e].status = "running"
    PROVE  /\ Len(retries[e]) = execs[e].attempt /\ execs[e].attempt \in Nat \ {0}
           /\ \A i \in 1..Len(retries[e]) :
                /\ retries[e][i] \in RetryRow
                /\ retries[e][i].state \in InFlight <=> i = Len(retries[e])
                /\ i = Len(retries[e]) => retries[e][i].outcome = NoCode
  <1>1. LedgerTail(e) /\ LedgerPrefix(e) /\ retries[e] \in Seq(RetryRow)
        /\ execs[e].attempt \in Nat
    BY DEF BoardInv, RowSound, BoardTypeOK, Row
  <1>2. LastRetry(e, execs[e].attempt, InFlight, NoCode)
    BY <1>1 DEF LedgerTail
  <1> QED
    BY <1>1, <1>2 DEF LastRetry, LedgerPrefix, InFlight

\* The rows other than e are left alone.
OthersKept(e) == \A x \in Execution \ {e} :
    execs'[x] = execs[x] /\ retries'[x] = retries[x] /\ dlq'[x] = dlq[x]

\* A step that touches one execution only has to keep that one sound.
LEMMA OneRow ==
    ASSUME BoardInv, BoardTypeOK', NEW e \in Execution, OthersKept(e),
           granted \subseteq granted', RowSound(e)', FencingSound'
    PROVE  BoardInv'
  <1>1. ASSUME NEW x \in Execution, x # e PROVE RowSound(x)'
    <2>1. execs'[x] = execs[x] /\ retries'[x] = retries[x] /\ dlq'[x] = dlq[x]
      BY <1>1 DEF OthersKept
    <2>2. BoardTypeOK /\ RowSound(x)
      BY DEF BoardInv
    <2> QED
      BY <2>1, <2>2, RowFrame
  <1> QED
    BY <1>1 DEF BoardInv

\* A new lease: its generation is fresh, so it cannot be confused with any
\* fence granted before, and it makes all of those stale.
LEMMA FencingGrant ==
    ASSUME BoardInv, BoardTypeOK', NEW e \in Execution, OthersKept(e),
           NEW n \in Fence, granted' = granted \cup {n},
           n.exec = e, n.gen = execs[e].gen + 1, n.retry \in {0, n.attempt},
           execs'[e].gen = n.gen, execs'[e].attempt = n.attempt,
           execs[e].attempt <= n.attempt
    PROVE  FencingSound'
  <1>1. /\ execs[e].gen \in Nat /\ execs[e].attempt \in Nat
        /\ n.gen \in Nat /\ n.attempt \in Nat
    BY DEF BoardInv, BoardTypeOK, Row, Fence
  <1>2. ASSUME NEW f \in granted
        PROVE  FenceSound(f)' /\ (f.exec = e => f.gen # n.gen)
    <2>1. f.exec \in Execution /\ f.gen \in Nat /\ f.attempt \in Nat /\ FenceSound(f)
      BY DEF BoardInv, BoardTypeOK, Fence, FencingSound
    <2>2. CASE f.exec = e
      <3>1. f.gen <= execs[e].gen /\ f.attempt <= execs[e].attempt
            /\ f.retry \in {0, f.attempt}
        BY <2>1, <2>2 DEF FenceSound
      <3>2. f.gen < n.gen /\ f.attempt <= n.attempt
        BY <1>1, <2>1, <3>1
      <3>3. f.gen # n.gen
        BY <1>1, <2>1, <3>2
      <3> QED
        BY <1>1, <2>1, <2>2, <3>1, <3>2, <3>3 DEF FenceSound, Held
    <2>3. CASE f.exec # e
      <3>1. execs'[f.exec] = execs[f.exec]
        BY <2>1, <2>3 DEF OthersKept
      <3> QED
        BY <2>1, <2>3, <3>1 DEF FenceSound, Held
    <2> QED
      BY <2>2, <2>3
  <1>3. FenceSound(n)'
    BY <1>1 DEF FenceSound, Held
  <1>4. \A f, h \in granted : f.exec = h.exec /\ f.gen = h.gen => f = h
    BY DEF BoardInv, FencingSound
  <1>5. \A f \in granted' : FenceSound(f)'
    BY <1>2, <1>3
  <1>6. \A f, h \in granted' : f.exec = h.exec /\ f.gen = h.gen => f = h
    BY <1>2, <1>4
  <1> QED
    BY <1>5, <1>6 DEF FencingSound

-----------------------------------------------------------------------------
(* Each method keeps the invariant.                                        *)

\* Admission starts a sound row: one pending retry row, no attempt, no lease.
LEMMA AdmitSound ==
    ASSUME BoardInv, BoardTypeOK', NEW e \in Execution, AdmissionAdmit(e)
    PROVE  BoardInv'
  <1>0. MaxAttempts[e] \in Nat \ {0}
    BY ConstantsAssumption
  <1>1. /\ execs[e] \in Row /\ execs[e].status = "absent"
        /\ LedgerTail(e) /\ BudgetOf(e) /\ DeadLetterOf(e)
    BY DEF BoardInv, BoardTypeOK, RowSound, AdmissionAdmit
  <1>2. execs[e].attempt = 0 /\ execs[e].owner = NoOwner /\ Len(dlq[e]) = 0
    <2>1. execs[e].attempt = 0
      BY <1>1 DEF LedgerTail
    <2>2. execs[e].owner = NoOwner
      BY <1>1 DEF BudgetOf
    <2>3. Len(dlq[e]) = 0
      BY <1>1 DEF DeadLetterOf
    <2> QED
      BY <2>1, <2>2, <2>3
  <1>3. /\ execs'[e] = [execs[e] EXCEPT !.status = "pending"]
        /\ retries'[e] = << PendingRetry(1, 0) >>
        /\ dlq' = dlq /\ granted' = granted
    BY DEF BoardInv, BoardTypeOK, AdmissionAdmit
  <1>4. /\ execs'[e].status = "pending" /\ execs'[e].attempt = 0
        /\ execs'[e].owner = NoOwner /\ execs'[e].gen = execs[e].gen
    BY <1>1, <1>2, <1>3 DEF Row
  <1>5. /\ Len(retries'[e]) = 1 /\ retries'[e][1].state = "pending"
        /\ retries'[e][1].outcome = NoCode /\ retries'[e][1].worker = NoOwner
        /\ retries'[e][1].seq = 1
    BY <1>3, PendingRow
  <1>6. LedgerTail(e)' /\ LedgerPrefix(e)'
    BY <1>4, <1>5 DEF LedgerTail, LedgerPrefix, LastRetry
  <1>7. BudgetOf(e)' /\ DeadLetterOf(e)'
    BY <1>0, <1>2, <1>3, <1>4 DEF BudgetOf, DeadLetterOf
  <1>8. FingerprintOf(e)'
    BY <1>5 DEF FingerprintOf, InFlight
  <1>9. OthersKept(e)
    BY DEF OthersKept, BoardInv, BoardTypeOK, AdmissionAdmit
  <1>10. FencingSound'
    BY <1>2, <1>3, <1>4, <1>9, FencingFrame DEF OthersKept
  <1>11. RowSound(e)'
    BY <1>6, <1>7, <1>8 DEF RowSound
  <1> QED
    BY <1>3, <1>9, <1>10, <1>11, OneRow

\* A claim takes the one pending retry row and counts the attempt with it.
LEMMA ClaimSound ==
    ASSUME BoardInv, BoardTypeOK', NEW e \in Execution, NEW o \in Dispatcher,
           NEW i \in 1..Len(retries[e]), Claim(e, o, i)
    PROVE  BoardInv'
  <1> DEFINE a == execs[e].attempt
             g == execs[e].gen
  <1>0. MaxAttempts[e] \in Nat \ {0} /\ NoOwner \notin Dispatcher
    BY ConstantsAssumption
  <1>1. /\ execs[e] \in Row /\ a \in Nat /\ g \in Nat
        /\ retries[e] \in Seq(RetryRow) /\ retries[e][i] \in RetryRow
        /\ execs[e].status = "pending" /\ a < MaxAttempts[e]
        /\ retries[e][i].state = "pending"
    BY DEF BoardInv, BoardTypeOK, Row, Claim, Due
  <1>n. a + 1 \in Nat /\ g + 1 \in Nat
    BY <1>1
  <1>2. LedgerTail(e) /\ LedgerPrefix(e) /\ FingerprintOf(e) /\ DeadLetterOf(e)
    BY DEF BoardInv, RowSound
  <1>3. LastRetry(e, a + 1, {"pending"}, NoCode)
    BY <1>1, <1>2 DEF LedgerTail
  <1>4. Len(retries[e]) = a + 1 /\ i = a + 1 /\ retries[e][i].outcome = NoCode
    BY <1>1, <1>2, <1>3 DEF LedgerPrefix, LastRetry
  <1>5. /\ execs'[e] = Leased(execs[e], o, g + 1, a + 1)
        /\ retries'[e] = [retries[e] EXCEPT ![i] = Taken(retries[e][i], o, g + 1)]
        /\ dlq' = dlq /\ granted' = granted \cup {ClaimFence(e, o, i)}
    BY DEF BoardInv, BoardTypeOK, Claim
  <1>6. /\ execs'[e].status = "running" /\ execs'[e].attempt = a + 1
        /\ execs'[e].owner = o /\ execs'[e].gen = g + 1
    BY <1>1, <1>5, <1>n DEF Leased, Row
  <1>7. /\ Len(retries'[e]) = a + 1
        /\ retries'[e][i] = Taken(retries[e][i], o, g + 1)
        /\ \A j \in 1..(a + 1) : j # i => retries'[e][j] = retries[e][j]
    BY <1>1, <1>4, <1>5
  <1>8. /\ retries'[e][i].state = "claimed" /\ retries'[e][i].worker = o
        /\ retries'[e][i].gen = g + 1 /\ retries'[e][i].seq = retries[e][i].seq
        /\ retries'[e][i].outcome = NoCode
    BY <1>1, <1>4, <1>7, <1>n DEF Taken, RetryRow
  <1> HIDE DEF a, g
  <1>9. LedgerTail(e)'
    BY <1>1, <1>4, <1>6, <1>7, <1>8 DEF LedgerTail, LastRetry, InFlight
  <1>10. LedgerPrefix(e)'
    BY <1>1, <1>2, <1>4, <1>7, <1>8 DEF LedgerPrefix
  <1>11. BudgetOf(e)'
    BY <1>0, <1>1, <1>6 DEF BudgetOf
  <1>12. DeadLetterOf(e)'
    BY <1>1, <1>2, <1>5, <1>6 DEF DeadLetterOf
  <1>13. /\ ClaimFence(e, o, i) \in granted'
         /\ ClaimFence(e, o, i) = [exec |-> e, owner |-> o, gen |-> g + 1,
                                   attempt |-> a + 1, retry |-> i]
    BY <1>5 DEF ClaimFence, a, g
  <1>14. FingerprintOf(e)'
    <2>1. ASSUME NEW j \in 1..(a + 1), j # i
          PROVE  retries'[e][j].state \notin InFlight
                 /\ retries'[e][j].worker = NoOwner
      <3>1. retries'[e][j] = retries[e][j] /\ j < a + 1
        BY <1>1, <1>4, <1>7, <2>1
      <3>2. retries[e][j].state = "processed"
        BY <1>1, <1>2, <1>4, <3>1 DEF LedgerPrefix
      <3> QED
        BY <1>2, <1>4, <3>1, <3>2 DEF FingerprintOf, InFlight
    <2>2. \E f \in granted' : /\ f.exec = e /\ f.retry = i
                              /\ f.owner = retries'[e][i].worker
                              /\ f.gen = retries'[e][i].gen
      BY <1>8, <1>13
    <2>3. retries'[e][i].state \in InFlight
      BY <1>8 DEF InFlight
    <2> QED
      BY <1>7, <2>1, <2>2, <2>3 DEF FingerprintOf
  <1>15. OthersKept(e)
    BY DEF OthersKept, BoardInv, BoardTypeOK, Claim
  <1>16. FencingSound'
    <2> DEFINE n == ClaimFence(e, o, i)
    <2>1. n \in Fence
      BY <1>1, <1>13 DEF Fence
    <2>2. /\ n.exec = e /\ n.gen = g + 1 /\ n.attempt = a + 1 /\ n.retry = i
      BY <1>13
    <2>3. a <= n.attempt
      BY <1>1, <2>2
    <2>4. granted' = granted \cup {n}
      BY <1>5
    <2> HIDE DEF n
    <2> QED
      BY <1>4, <1>6, <1>15, <2>1, <2>2, <2>3, <2>4, FencingGrant DEF a, g
  <1>17. RowSound(e)'
    BY <1>9, <1>10, <1>11, <1>12, <1>14 DEF RowSound
  <1>18. granted \subseteq granted'
    BY <1>5
  <1> QED
    BY <1>15, <1>16, <1>17, <1>18, OneRow

\* Taking over an expired lease leaves the ledger to the claim that wrote it.
LEMMA ReclaimSound ==
    ASSUME BoardInv, BoardTypeOK', NEW e \in Execution, NEW o \in Dispatcher,
           ReclaimStale(e, o)
    PROVE  BoardInv'
  <1> DEFINE a == execs[e].attempt
             g == execs[e].gen
  <1>0. MaxAttempts[e] \in Nat \ {0} /\ NoOwner \notin Dispatcher
    BY ConstantsAssumption
  <1>1. /\ execs[e] \in Row /\ a \in Nat /\ g \in Nat
        /\ execs[e].status = "running"
    BY DEF BoardInv, BoardTypeOK, Row, ReclaimStale, Stale
  <1>n. g + 1 \in Nat
    BY <1>1
  <1>2. /\ LedgerTail(e) /\ LedgerPrefix(e) /\ FingerprintOf(e)
        /\ DeadLetterOf(e) /\ BudgetOf(e)
    BY DEF BoardInv, RowSound
  <1>3. /\ execs'[e] = Leased(execs[e], o, g + 1, a)
        /\ retries' = retries /\ dlq' = dlq
        /\ granted' = granted \cup {ReclaimFence(e, o)}
    BY DEF BoardInv, BoardTypeOK, ReclaimStale
  <1>4. /\ execs'[e].status = "running" /\ execs'[e].attempt = a
        /\ execs'[e].owner = o /\ execs'[e].gen = g + 1
    BY <1>1, <1>3, <1>n DEF Leased, Row
  <1>5. LedgerTail(e)' /\ LedgerPrefix(e)'
    BY <1>1, <1>2, <1>3, <1>4 DEF LedgerTail, LedgerPrefix, LastRetry
  <1>6. BudgetOf(e)'
    BY <1>0, <1>1, <1>2, <1>4 DEF BudgetOf
  <1>7. DeadLetterOf(e)'
    BY <1>1, <1>2, <1>3, <1>4 DEF DeadLetterOf
  <1>8. FingerprintOf(e)'
    BY <1>2, <1>3 DEF FingerprintOf
  <1>9. OthersKept(e)
    BY DEF OthersKept, BoardInv, BoardTypeOK, ReclaimStale
  <1>10. FencingSound'
    <2> DEFINE n == ReclaimFence(e, o)
    <2>1. n \in Fence
      BY <1>1 DEF Fence, ReclaimFence
    <2>2. /\ n.exec = e /\ n.gen = g + 1 /\ n.attempt = a /\ n.retry = 0
      BY DEF ReclaimFence
    <2>3. a <= n.attempt
      BY <1>1, <2>2
    <2>4. granted' = granted \cup {n}
      BY <1>3
    <2> HIDE DEF n
    <2> QED
      BY <1>4, <1>9, <2>1, <2>2, <2>3, <2>4, FencingGrant
  <1>11. RowSound(e)'
    BY <1>5, <1>6, <1>7, <1>8 DEF RowSound
  <1>12. granted \subseteq granted'
    BY <1>3
  <1> QED
    BY <1>9, <1>10, <1>11, <1>12, OneRow

\* Resolving the outstanding row of an active execution leaves every one of
\* its retry rows processed, numbered as before and without a fingerprint,
\* and only the last one gets the new outcome.
LEMMA ResolvedLedger ==
    ASSUME BoardInv, NEW e \in Execution, NEW from, NEW out \in RetryOutcome,
           \/ execs[e].status = "running" /\ from = InFlight
           \/ execs[e].status \in Active /\ from = Outstanding
    PROVE  LET t == Resolve(retries[e], from, out)
               n == Len(retries[e])
           IN  /\ t \in Seq(RetryRow) /\ Len(t) = n /\ n \in Nat \ {0}
               /\ n = execs[e].attempt + (IF execs[e].status = "running" THEN 0 ELSE 1)
               /\ \A j \in 1..n : /\ t[j].seq = j /\ t[j].state = "processed"
                                  /\ t[j].worker = NoOwner
                                  /\ j < n => t[j].outcome = "failed"
               /\ t[n].outcome = out
  <1> DEFINE t == Resolve(retries[e], from, out)
             n == Len(retries[e])
  <1>1. /\ LedgerTail(e) /\ LedgerPrefix(e) /\ FingerprintOf(e)
        /\ retries[e] \in Seq(RetryRow) /\ execs[e].attempt \in Nat
    BY DEF BoardInv, RowSound, BoardTypeOK, Row
  <1>2. /\ n \in Nat \ {0}
        /\ n = execs[e].attempt + (IF execs[e].status = "running" THEN 0 ELSE 1)
        /\ retries[e][n].state \in from
    <2>1. CASE execs[e].status = "running"
      <3>1. LastRetry(e, execs[e].attempt, InFlight, NoCode)
        BY <1>1, <2>1 DEF LedgerTail
      <3> QED
        BY <1>1, <2>1, <3>1 DEF LastRetry, Outstanding
    <2>2. CASE execs[e].status = "pending"
      <3>1. LastRetry(e, execs[e].attempt + 1, {"pending"}, NoCode)
        BY <1>1, <2>2 DEF LedgerTail
      <3> QED
        BY <1>1, <2>2, <3>1 DEF LastRetry, Outstanding
    <2> QED
      BY <2>1, <2>2 DEF Active
  <1>3. t \in Seq(RetryRow) /\ Len(t) = n
    BY <1>1, ResolveRows
  <1>4. \A j \in 1..n : /\ retries[e][j].state \notin from => t[j] = retries[e][j]
                        /\ retries[e][j].state \in from => t[j] = Processed(retries[e][j], out)
    BY <1>1, ResolveRows
  <1>5. \A j \in 1..n : retries[e][j] \in RetryRow
    BY <1>1
  <1> HIDE DEF t, n
  <1>6. ASSUME NEW j \in 1..n, j < n
        PROVE  /\ t[j].seq = j /\ t[j].state = "processed" /\ t[j].worker = NoOwner
               /\ t[j].outcome = "failed"
    <2>1. /\ retries[e][j].seq = j /\ retries[e][j].state = "processed"
          /\ retries[e][j].outcome = "failed"
      BY <1>1, <1>6 DEF LedgerPrefix, n
    <2>2. retries[e][j].worker = NoOwner
      BY <1>1, <2>1 DEF FingerprintOf, n, InFlight
    <2>3. t[j] = retries[e][j]
      BY <1>4, <2>1 DEF InFlight, Outstanding
    <2> QED
      BY <2>1, <2>2, <2>3
  <1>7. /\ t[n].seq = n /\ t[n].state = "processed" /\ t[n].worker = NoOwner
        /\ t[n].outcome = out
    <2>1. n \in 1..n
      BY <1>2
    <2>2. t[n] = Processed(retries[e][n], out)
      BY <1>2, <1>4, <2>1
    <2>3. retries[e][n].seq = n
      BY <1>1, <2>1 DEF LedgerPrefix, n
    <2>4. retries[e][n] \in RetryRow
      BY <1>5, <2>1
    <2> QED
      BY <2>2, <2>3, <2>4 DEF Processed, RetryRow
  <1>8. ASSUME NEW j \in 1..n
        PROVE  /\ t[j].seq = j /\ t[j].state = "processed" /\ t[j].worker = NoOwner
               /\ j < n => t[j].outcome = "failed"
    BY <1>2, <1>6, <1>7
  <1> QED
    BY <1>2, <1>3, <1>7, <1>8 DEF t, n

\* Cancelling resolves whatever retry row is outstanding.
LEMMA CancelSound ==
    ASSUME BoardInv, BoardTypeOK', NEW e \in Execution, Cancel(e)
    PROVE  BoardInv'
  <1>0. MaxAttempts[e] \in Nat \ {0}
    BY ConstantsAssumption
  <1>1. /\ execs[e] \in Row /\ execs[e].status \in Active
        /\ BudgetOf(e) /\ DeadLetterOf(e) /\ execs[e].attempt \in Nat
    BY DEF BoardInv, BoardTypeOK, Row, RowSound, Cancel
  <1>2. /\ execs'[e] = [Released(execs[e], "cancelled") EXCEPT !.code = NoCode]
        /\ retries'[e] = Resolve(retries[e], Outstanding, "cancelled")
        /\ dlq' = dlq /\ granted' = granted
    BY DEF BoardInv, BoardTypeOK, Cancel
  <1>3. /\ execs'[e].status = "cancelled" /\ execs'[e].owner = NoOwner
        /\ execs'[e].attempt = execs[e].attempt /\ execs'[e].gen = execs[e].gen
    BY <1>1, <1>2 DEF Released, Row
  <1> DEFINE n == Len(retries[e])
  <1>4. /\ Len(retries'[e]) = n /\ n \in Nat \ {0}
        /\ n = execs[e].attempt + (IF execs[e].status = "running" THEN 0 ELSE 1)
        /\ \A j \in 1..n : /\ retries'[e][j].seq = j
                           /\ retries'[e][j].state = "processed"
                           /\ retries'[e][j].worker = NoOwner
                           /\ j < n => retries'[e][j].outcome = "failed"
        /\ retries'[e][n].outcome = "cancelled"
    BY <1>1, <1>2, ResolvedLedger DEF RetryOutcome
  <1> HIDE DEF n
  <1>5. LedgerTail(e)'
    <2>1. n \in 1..n
      BY <1>4
    <2>2. /\ Len(retries'[e]) = n /\ n > 0 /\ retries'[e][n].outcome = "cancelled"
          /\ retries'[e][n].state \in {"processed"}
      BY <1>4, <2>1
    <2>3. n = execs'[e].attempt \/ n = execs'[e].attempt + 1
      BY <1>1, <1>3, <1>4
    <2> QED
      BY <1>3, <2>2, <2>3 DEF LedgerTail, LastRetry
  <1>6. LedgerPrefix(e)'
    BY <1>4 DEF LedgerPrefix
  <1>7. BudgetOf(e)' /\ DeadLetterOf(e)'
    BY <1>0, <1>1, <1>2, <1>3 DEF BudgetOf, DeadLetterOf, Active
  <1>8. FingerprintOf(e)'
    BY <1>4 DEF FingerprintOf, InFlight
  <1>9. OthersKept(e)
    BY DEF OthersKept, BoardInv, BoardTypeOK, Cancel
  <1>10. FencingSound'
    BY <1>2, <1>3, <1>9, FencingFrame DEF OthersKept
  <1>11. RowSound(e)'
    BY <1>5, <1>6, <1>7, <1>8 DEF RowSound
  <1> QED
    BY <1>2, <1>9, <1>10, <1>11, OneRow

\* A fence that still matches describes the running attempt of its execution.
LEMMA HeldFence ==
    ASSUME BoardInv, NEW f \in granted
    PROVE  /\ f \in Fence /\ f.exec \in Execution
           /\ f.attempt \in Nat /\ f.gen \in Nat /\ f.retry \in Nat
           /\ Held(f) => /\ execs[f.exec].status = "running"
                         /\ f.attempt = execs[f.exec].attempt
  BY DEF BoardInv, BoardTypeOK, Fence, FencingSound, FenceSound, Held

\* Completing resolves the retry row in flight as a success.
LEMMA CompleteSound ==
    ASSUME BoardInv, BoardTypeOK', NEW f \in granted, Complete(f)
    PROVE  BoardInv'
  <1> DEFINE e == f.exec
             n == Len(retries[e])
  <1>0. e \in Execution /\ execs[e].status = "running" /\ MaxAttempts[e] \in Nat \ {0}
    BY HeldFence, ConstantsAssumption DEF Complete
  <1> HIDE DEF e
  <1>1. /\ execs[e] \in Row /\ BudgetOf(e) /\ DeadLetterOf(e)
        /\ execs[e].attempt \in Nat
    BY <1>0 DEF BoardInv, BoardTypeOK, Row, RowSound
  <1>2. /\ execs'[e] = Released(execs[e], "completed")
        /\ retries'[e] = Resolve(retries[e], InFlight, "success")
        /\ dlq' = dlq /\ granted' = granted
    BY <1>0 DEF BoardInv, BoardTypeOK, Complete, e
  <1>3. /\ execs'[e].status = "completed" /\ execs'[e].owner = NoOwner
        /\ execs'[e].attempt = execs[e].attempt /\ execs'[e].gen = execs[e].gen
    BY <1>1, <1>2 DEF Released, Row
  <1>4. /\ Len(retries'[e]) = n /\ n \in Nat \ {0} /\ n = execs[e].attempt
        /\ \A j \in 1..n : /\ retries'[e][j].seq = j
                           /\ retries'[e][j].state = "processed"
                           /\ retries'[e][j].worker = NoOwner
                           /\ j < n => retries'[e][j].outcome = "failed"
        /\ retries'[e][n].outcome = "success"
    <2>1. "success" \in RetryOutcome
      BY DEF RetryOutcome
    <2> QED
      BY <1>0, <1>1, <1>2, <2>1, ResolvedLedger
  <1> HIDE DEF n
  <1>5. LedgerTail(e)'
    <2>1. n \in 1..n
      BY <1>4
    <2> QED
      BY <1>3, <1>4, <2>1 DEF LedgerTail, LastRetry
  <1>6. LedgerPrefix(e)'
    BY <1>4 DEF LedgerPrefix
  <1>7. BudgetOf(e)' /\ DeadLetterOf(e)'
    BY <1>0, <1>1, <1>2, <1>3 DEF BudgetOf, DeadLetterOf
  <1>8. FingerprintOf(e)'
    BY <1>4 DEF FingerprintOf, InFlight
  <1>9. OthersKept(e)
    BY <1>0 DEF OthersKept, BoardInv, BoardTypeOK, Complete, e
  <1>10. FencingSound'
    BY <1>0, <1>2, <1>3, <1>9, FencingFrame DEF OthersKept
  <1>11. RowSound(e)'
    BY <1>5, <1>6, <1>7, <1>8 DEF RowSound
  <1> QED
    BY <1>0, <1>2, <1>9, <1>10, <1>11, OneRow

\* Failing resolves the retry row in flight and adds the only dead letter.
LEMMA FailSound ==
    ASSUME BoardInv, BoardTypeOK', NEW f \in granted, NEW c \in Causes,
           MayFail(f, c), FailAndDLQ(f, c)
    PROVE  BoardInv'
  <1> DEFINE e == f.exec
             n == Len(retries[e])
  <1>0. /\ e \in Execution /\ execs[e].status = "running"
        /\ f.attempt = execs[e].attempt /\ MaxAttempts[e] \in Nat \ {0}
    BY HeldFence, ConstantsAssumption DEF FailAndDLQ
  <1>m. ~Retryable(c) \/ f.attempt >= MaxAttempts[e]
    BY DEF MayFail
  <1> HIDE DEF e
  <1>1. /\ execs[e] \in Row /\ BudgetOf(e) /\ DeadLetterOf(e)
        /\ execs[e].attempt \in Nat /\ dlq[e] \in Seq(DLQRow)
    BY <1>0 DEF BoardInv, BoardTypeOK, Row, RowSound
  <1>2. /\ execs'[e] = [Released(execs[e], "failed") EXCEPT !.code = c]
        /\ retries'[e] = Resolve(retries[e], InFlight, "failed")
        /\ dlq'[e] = Append(dlq[e], [attempt |-> f.attempt, code |-> c])
        /\ granted' = granted
    BY <1>0 DEF BoardInv, BoardTypeOK, FailAndDLQ, e
  <1>3. /\ execs'[e].status = "failed" /\ execs'[e].owner = NoOwner
        /\ execs'[e].attempt = execs[e].attempt /\ execs'[e].gen = execs[e].gen
        /\ execs'[e].code = c
    BY <1>1, <1>2 DEF Released, Row
  <1>4. /\ Len(retries'[e]) = n /\ n \in Nat \ {0} /\ n = execs[e].attempt
        /\ \A j \in 1..n : /\ retries'[e][j].seq = j
                           /\ retries'[e][j].state = "processed"
                           /\ retries'[e][j].worker = NoOwner
                           /\ j < n => retries'[e][j].outcome = "failed"
        /\ retries'[e][n].outcome = "failed"
    BY <1>0, <1>1, <1>2, ResolvedLedger DEF RetryOutcome
  <1> HIDE DEF n
  <1>5. LedgerTail(e)'
    <2>1. n \in 1..n
      BY <1>4
    <2> QED
      BY <1>3, <1>4, <2>1 DEF LedgerTail, LastRetry
  <1>6. LedgerPrefix(e)'
    BY <1>4 DEF LedgerPrefix
  <1>7. BudgetOf(e)'
    BY <1>0, <1>1, <1>3 DEF BudgetOf
  <1>8. DeadLetterOf(e)'
    <2>1. Len(dlq[e]) = 0
      BY <1>0, <1>1 DEF DeadLetterOf
    <2>2. /\ Len(dlq'[e]) = 1
          /\ dlq'[e][1] = [attempt |-> f.attempt, code |-> c]
      BY <1>1, <1>2, <2>1
    <2>3. ~Retryable(c) \/ execs[e].attempt = MaxAttempts[e]
      BY <1>0, <1>1, <1>m DEF BudgetOf
    <2> QED
      BY <1>0, <1>3, <2>2, <2>3 DEF DeadLetterOf
  <1>9. FingerprintOf(e)'
    BY <1>4 DEF FingerprintOf, InFlight
  <1>10. OthersKept(e)
    BY <1>0 DEF OthersKept, BoardInv, BoardTypeOK, FailAndDLQ, e
  <1>11. FencingSound'
    BY <1>0, <1>2, <1>3, <1>10, FencingFrame DEF OthersKept
  <1>12. RowSound(e)'
    BY <1>5, <1>6, <1>7, <1>8, <1>9 DEF RowSound
  <1> QED
    BY <1>0, <1>2, <1>10, <1>11, <1>12, OneRow

\* Rescheduling resolves the retry row in flight before it adds the next.
LEMMA RescheduleSound ==
    ASSUME BoardInv, BoardTypeOK', NEW f \in granted,
           MayReschedule(f), Reschedule(f, f.attempt + 1)
    PROVE  BoardInv'
  <1> DEFINE e == f.exec
             n == Len(retries[e])
             t == Resolve(retries[e], InFlight, "failed")
             p == PendingRetry(f.attempt + 1, f.gen)
  <1>0. /\ e \in Execution /\ execs[e].status = "running"
        /\ f.attempt = execs[e].attempt /\ MaxAttempts[e] \in Nat \ {0}
        /\ f.attempt < MaxAttempts[e] /\ f.attempt \in Nat /\ f.gen \in Nat
    BY HeldFence, ConstantsAssumption DEF Reschedule, MayReschedule
  <1> HIDE DEF e
  <1>1. /\ execs[e] \in Row /\ BudgetOf(e) /\ DeadLetterOf(e)
        /\ execs[e].attempt \in Nat
    BY <1>0 DEF BoardInv, BoardTypeOK, Row, RowSound
  <1>2. /\ execs'[e] = [Released(execs[e], "pending") EXCEPT !.due = FALSE]
        /\ retries'[e] = Append(t, p)
        /\ dlq' = dlq /\ granted' = granted
    BY <1>0 DEF BoardInv, BoardTypeOK, Reschedule, e
  <1>3. /\ execs'[e].status = "pending" /\ execs'[e].owner = NoOwner
        /\ execs'[e].attempt = execs[e].attempt /\ execs'[e].gen = execs[e].gen
    BY <1>1, <1>2 DEF Released, Row
  <1>4. /\ t \in Seq(RetryRow)
        /\ Len(t) = n /\ n \in Nat \ {0} /\ n = execs[e].attempt
        /\ \A j \in 1..n : /\ t[j].seq = j /\ t[j].state = "processed"
                           /\ t[j].worker = NoOwner
                           /\ j < n => t[j].outcome = "failed"
        /\ t[n].outcome = "failed"
    BY <1>0, <1>1, ResolvedLedger DEF RetryOutcome
  <1>5. /\ p \in RetryRow /\ p.state = "pending" /\ p.outcome = NoCode
        /\ p.worker = NoOwner /\ p.seq = execs[e].attempt + 1
    BY <1>0 DEF PendingRetry, RetryRow, RetryState, Outstanding
  <1> HIDE DEF n, t, p
  <1>6. /\ Len(retries'[e]) = n + 1 /\ retries'[e][n + 1] = p
        /\ \A j \in 1..n : retries'[e][j] = t[j]
    BY <1>2, <1>4, <1>5
  <1>7. LedgerTail(e)'
    BY <1>3, <1>4, <1>5, <1>6 DEF LedgerTail, LastRetry
  <1>s. ASSUME NEW j \in 1..(n + 1)
        PROVE  /\ j \in 1..n => retries'[e][j] = t[j]
               /\ j \notin 1..n => j = n + 1 /\ retries'[e][j] = p
    BY <1>4, <1>6
  <1>8. LedgerPrefix(e)'
    <2>1. ASSUME NEW j \in 1..(n + 1)
          PROVE  /\ retries'[e][j].seq = j
                 /\ j < n + 1 => /\ retries'[e][j].state = "processed"
                                 /\ retries'[e][j].outcome = "failed"
      <3>1. CASE j \in 1..n
        BY <1>4, <1>s, <3>1
      <3>2. CASE j \notin 1..n
        BY <1>4, <1>5, <1>s, <3>2
      <3> QED
        BY <3>1, <3>2
    <2> QED
      BY <1>6, <2>1 DEF LedgerPrefix
  <1>9. BudgetOf(e)' /\ DeadLetterOf(e)'
    BY <1>0, <1>1, <1>2, <1>3 DEF BudgetOf, DeadLetterOf
  <1>10. FingerprintOf(e)'
    <2>1. ASSUME NEW j \in 1..(n + 1)
          PROVE  retries'[e][j].state \notin InFlight /\ retries'[e][j].worker = NoOwner
      BY <1>4, <1>5, <1>s DEF InFlight
    <2> QED
      BY <1>6, <2>1 DEF FingerprintOf
  <1>11. OthersKept(e)
    BY <1>0 DEF OthersKept, BoardInv, BoardTypeOK, Reschedule, e
  <1>12. FencingSound'
    BY <1>0, <1>2, <1>3, <1>11, FencingFrame DEF OthersKept
  <1>13. RowSound(e)'
    BY <1>7, <1>8, <1>9, <1>10 DEF RowSound
  <1> QED
    BY <1>0, <1>2, <1>11, <1>12, <1>13, OneRow

\* Only a running execution has a claimed retry row, and it is the last.
LEMMA ClaimedIsRunning ==
    ASSUME BoardInv, NEW e \in Execution, NEW i \in 1..Len(retries[e]),
           retries[e][i].state = "claimed"
    PROVE  i = Len(retries[e]) /\ execs[e].status = "running"
  <1>1. /\ LedgerTail(e) /\ LedgerPrefix(e) /\ retries[e] \in Seq(RetryRow)
        /\ execs[e].status \in Status \cup {"absent"} /\ execs[e].attempt \in Nat
    BY DEF BoardInv, RowSound, BoardTypeOK, Row
  <1>2. i = Len(retries[e])
    BY <1>1 DEF LedgerPrefix
  <1>3. execs[e].status # "absent"
    BY <1>1 DEF LedgerTail
  <1>4. execs[e].status \notin {"pending", "completed", "failed", "cancelled"}
    BY <1>1, <1>2 DEF LedgerTail, LastRetry
  <1> QED
    BY <1>1, <1>2, <1>3, <1>4 DEF Status, Active, TerminalStatus

\* Recording a dispatch never touches a retry row of another claim.
LEMMA RecordDispatchSound ==
    ASSUME BoardInv, BoardTypeOK', NEW f \in granted, NEW ok \in BOOLEAN,
           RecordDispatch(f, ok)
    PROVE  BoardInv'
  <1> DEFINE e == f.exec
             i == f.retry
             rs == retries[e]
  <1>0. e \in Execution /\ i \in 1..Len(rs) /\ execs' = execs /\ dlq' = dlq
        /\ granted' = granted
    BY HeldFence DEF RecordDispatch
  <1>1. CASE retries' = retries
    BY <1>0, <1>1, SoftStep
  <1>2. CASE /\ retries' = [retries EXCEPT ![e][i] = Sent(rs[i])]
             /\ rs[i].state = "claimed"
    <2> HIDE DEF e, i
    <2>1. /\ LedgerTail(e) /\ LedgerPrefix(e) /\ FingerprintOf(e)
          /\ BudgetOf(e) /\ DeadLetterOf(e)
          /\ rs \in Seq(RetryRow) /\ retries \in [Execution -> Seq(RetryRow)]
      BY <1>0 DEF BoardInv, RowSound, BoardTypeOK
    <2>2. retries'[e] = [rs EXCEPT ![i] = Sent(rs[i])]
      BY <1>0, <1>2, <2>1
    <2>3. OthersKept(e)
      BY <1>0, <1>2, <2>1 DEF OthersKept
    <2> HIDE DEF rs
    <2>4. /\ Len(retries'[e]) = Len(rs) /\ Len(rs) \in Nat /\ rs[i] \in RetryRow
          /\ retries'[e][i] = Sent(rs[i])
          /\ \A j \in 1..Len(rs) : j # i => retries'[e][j] = rs[j]
      BY <1>0, <2>1, <2>2
    <2>5. /\ retries'[e][i].state = "dispatched"
          /\ retries'[e][i].worker = rs[i].worker /\ retries'[e][i].gen = rs[i].gen
          /\ retries'[e][i].seq = rs[i].seq
          /\ retries'[e][i].outcome = rs[i].outcome
      BY <2>4 DEF Sent, RetryRow
    <2>6. i = Len(rs) /\ execs[e].status = "running"
      BY <1>0, <1>2, ClaimedIsRunning DEF rs
    <2>8. LedgerTail(e)'
      <3>1. LastRetry(e, execs[e].attempt, InFlight, NoCode)
        BY <2>1, <2>6 DEF LedgerTail
      <3> QED
        BY <1>0, <2>4, <2>5, <2>6, <3>1 DEF LedgerTail, LastRetry, InFlight, rs
    <2>9. LedgerPrefix(e)'
      <3>1. ASSUME NEW j \in 1..Len(rs)
            PROVE  /\ retries'[e][j].seq = j
                   /\ j < Len(rs) => /\ retries'[e][j].state = "processed"
                                     /\ retries'[e][j].outcome = "failed"
        <4>1. /\ rs[j].seq = j
              /\ j < Len(rs) => rs[j].state = "processed" /\ rs[j].outcome = "failed"
          BY <2>1 DEF LedgerPrefix, rs
        <4>2. CASE j = i
          BY <2>4, <2>5, <2>6, <4>1, <4>2
        <4>3. CASE j # i
          BY <2>4, <4>1, <4>3
        <4> QED
          BY <4>2, <4>3
      <3> QED
        BY <2>4, <3>1 DEF LedgerPrefix
    <2>10. BudgetOf(e)' /\ DeadLetterOf(e)'
      BY <1>0, <2>1 DEF BudgetOf, DeadLetterOf
    <2>11. FingerprintOf(e)'
      <3>1. ASSUME NEW j \in 1..Len(rs)
            PROVE  IF retries'[e][j].state \in InFlight
                   THEN \E h \in granted : /\ h.exec = e /\ h.retry = j
                                           /\ h.owner = retries'[e][j].worker
                                           /\ h.gen = retries'[e][j].gen
                   ELSE retries'[e][j].worker = NoOwner
        <4>1. IF rs[j].state \in InFlight
              THEN \E h \in granted : /\ h.exec = e /\ h.retry = j
                                      /\ h.owner = rs[j].worker
                                      /\ h.gen = rs[j].gen
              ELSE rs[j].worker = NoOwner
          BY <2>1 DEF FingerprintOf, rs
        <4>2. CASE j = i
          BY <1>2, <2>5, <4>1, <4>2 DEF InFlight
        <4>3. CASE j # i
          BY <2>4, <4>1, <4>3
        <4> QED
          BY <4>2, <4>3
      <3> QED
        BY <1>0, <2>4, <3>1 DEF FingerprintOf
    <2>12. FencingSound'
      BY <1>0 DEF BoardInv, FencingSound, FenceSound, Held
    <2>13. RowSound(e)'
      BY <2>8, <2>9, <2>10, <2>11 DEF RowSound
    <2> QED
      BY <1>0, <2>3, <2>12, <2>13, OneRow
  <1> QED
    BY <1>1, <1>2 DEF RecordDispatch

\* Heartbeats, classifications and the passing of time keep the invariant.
LEMMA SoftActions ==
    ASSUME BoardInv, BoardTypeOK',
           \/ \E e \in Execution : LeaseExpires(e) \/ BackoffElapses(e)
           \/ \E f \in granted : Heartbeat(f)
           \/ \E f \in granted, c \in Causes : PersistError(f, c)
    PROVE  BoardInv'
  <1>1. execs \in [Execution -> Row]
    BY DEF BoardInv, BoardTypeOK
  <1>2. ASSUME NEW e \in Execution, LeaseExpires(e) PROVE BoardInv'
    BY <1>1, <1>2, SoftStep DEF LeaseExpires, Row
  <1>3. ASSUME NEW e \in Execution, BackoffElapses(e) PROVE BoardInv'
    BY <1>1, <1>3, SoftStep DEF BackoffElapses, Row
  <1>4. ASSUME NEW f \in granted, Heartbeat(f) PROVE BoardInv'
    BY <1>1, <1>4, HeldFence, SoftStep DEF Heartbeat, Row
  <1>5. ASSUME NEW f \in granted, NEW c \in Causes, PersistError(f, c)
        PROVE  BoardInv'
    BY <1>1, <1>5, HeldFence, SoftStep DEF PersistError, Row
  <1> QED
    BY <1>2, <1>3, <1>4, <1>5

\* Every method keeps the inductive invariant.
LEMMA InvStep == BoardInv /\ [BoardNext]_boardVars => BoardInv'
  <1> SUFFICES ASSUME BoardInv, [BoardNext]_boardVars
               PROVE  BoardInv'
    OBVIOUS
  <1>1. BoardTypeOK'
    BY TypingStep DEF BoardInv
  <1>2. CASE UNCHANGED boardVars
    BY <1>1, <1>2, SoftStep DEF boardVars
  <1>3. ASSUME NEW e \in Execution,
               \/ AdmissionAdmit(e) \/ Cancel(e)
               \/ LeaseExpires(e) \/ BackoffElapses(e)
        PROVE  BoardInv'
    BY <1>1, <1>3, AdmitSound, CancelSound, SoftActions
  <1>4. ASSUME NEW e \in Execution, NEW o \in Dispatcher,
               \/ \E i \in 1..Len(retries[e]) : Claim(e, o, i)
               \/ ReclaimStale(e, o)
        PROVE  BoardInv'
    BY <1>1, <1>4, ClaimSound, ReclaimSound
  <1>5. ASSUME NEW f \in granted, Fenced(f) PROVE BoardInv'
    BY <1>1, <1>5, SoftActions, CompleteSound, FailSound, RescheduleSound,
       RecordDispatchSound DEF Fenced
  <1> QED
    BY <1>2, <1>3, <1>4, <1>5 DEF BoardNext

\* The empty tables satisfy the inductive invariant.
LEMMA InvInit == BoardInit => BoardInv
  <1> SUFFICES ASSUME BoardInit PROVE BoardInv
    OBVIOUS
  <1>1. BoardTypeOK
    BY ConstantsAssumption DEF BoardInit, BoardTypeOK, AbsentRow, Row, Status
  <1>2. ASSUME NEW e \in Execution PROVE RowSound(e)
    <2>1. /\ execs[e] = AbsentRow /\ retries[e] = << >> /\ dlq[e] = << >>
          /\ MaxAttempts[e] \in Nat \ {0}
      BY ConstantsAssumption DEF BoardInit
    <2> QED
      BY <2>1 DEF RowSound, LedgerTail, LedgerPrefix, BudgetOf, FingerprintOf,
                  DeadLetterOf, AbsentRow
  <1>3. FencingSound
    BY DEF BoardInit, FencingSound
  <1> QED
    BY <1>1, <1>2, <1>3 DEF BoardInv

\* The inductive invariant holds throughout every behaviour of the board.
LEMMA BoardInvariance == BoardSpec => []BoardInv
  BY InvInit, InvStep, PTL DEF BoardSpec

-----------------------------------------------------------------------------
(* The theorems.                                                           *)

\* The retry ledger always mirrors the executions, whatever the clients do
\* with the fences they hold (executions.go, Claim to RecordDispatch).
THEOREM LedgerMirrors == BoardSpec => []RetryLedger
  <1>1. BoardInv => RetryLedger
    BY DEF BoardInv, RowSound, RetryLedger
  <1> QED
    BY <1>1, BoardInvariance, PTL

\* No execution is ever started more often than its max_attempts allows, a
\* waiting one always has an attempt left, and only a running one is leased.
THEOREM BudgetKept == BoardSpec => []AttemptBudget
  <1>1. BoardInv => AttemptBudget
    BY DEF BoardInv, RowSound, AttemptBudget
  <1> QED
    BY <1>1, BoardInvariance, PTL

\* Lease generations fence: no two grants share one, and a fence that still
\* matches belongs to the attempt that is running.
THEOREM FencingHolds == BoardSpec => []FencingSound
  <1>1. BoardInv => FencingSound
    BY DEF BoardInv
  <1> QED
    BY <1>1, BoardInvariance, PTL

\* Exactly the failed executions are dead-lettered, once, and with cause.
THEOREM DeadLettersExact == BoardSpec => []DeadLetterExact
  <1>1. BoardInv => DeadLetterExact
    BY DEF BoardInv, RowSound, DeadLetterExact
  <1> QED
    BY <1>1, BoardInvariance, PTL

\* A retry row in flight always carries the fingerprint of a granted claim.
THEOREM FingerprintsGranted == BoardSpec => []RetryFingerprint
  <1>1. BoardInv => RetryFingerprint
    BY DEF BoardInv, RowSound, RetryFingerprint
  <1> QED
    BY <1>1, BoardInvariance, PTL

-----------------------------------------------------------------------------
(* What one method may do to one execution.                                *)

SameLease(e) == /\ execs'[e].attempt = execs[e].attempt
                /\ execs'[e].gen = execs[e].gen

Leaves(e, to) == /\ execs[e].status \in Active /\ execs'[e].status = to
                 /\ SameLease(e) /\ execs'[e].owner = NoOwner

RowStep(e) ==
    \/ /\ execs[e].status = "absent" /\ execs'[e].status = "pending"
       /\ SameLease(e) /\ execs'[e].owner = execs[e].owner
       /\ \E emp \in Employee : EmployeeOf[e] = emp
                                /\ Cardinality(ActiveOf(emp)) < Capacity[emp]
    \/ /\ execs[e].status = "pending" /\ execs'[e].status = "running"
       /\ execs[e].attempt < MaxAttempts[e]
       /\ execs'[e].attempt = execs[e].attempt + 1
       /\ execs'[e].gen = execs[e].gen + 1
    \/ /\ execs[e].status = "running" /\ execs'[e].status = "running"
       /\ execs'[e].attempt = execs[e].attempt
       /\ execs'[e].gen = execs[e].gen + 1
    \/ /\ execs[e].status = "running" /\ execs[e].attempt < MaxAttempts[e]
       /\ Leaves(e, "pending")
    \/ execs[e].status = "running" /\ (Leaves(e, "completed") \/ Leaves(e, "failed"))
    \/ Leaves(e, "cancelled")
    \/ /\ execs'[e].status = execs[e].status /\ SameLease(e)
       /\ execs'[e].owner = execs[e].owner
       /\ Terminal(execs[e].status) =>
             execs'[e] = execs[e] /\ retries'[e] = retries[e] /\ dlq'[e] = dlq[e]

\* Every method is one such step of one execution.
LEMMA MethodStep ==
    ASSUME BoardInv, BoardNext
    PROVE  \E e \in Execution : OthersKept(e) /\ RowStep(e)
  <1>1. /\ execs \in [Execution -> Row]
        /\ retries \in [Execution -> Seq(RetryRow)]
        /\ dlq \in [Execution -> Seq(DLQRow)]
    BY DEF BoardInv, BoardTypeOK
  <1>2. ASSUME NEW e \in Execution, AdmissionAdmit(e)
        PROVE  OthersKept(e) /\ RowStep(e)
    <2>1. OthersKept(e)
      BY <1>1, <1>2 DEF OthersKept, AdmissionAdmit
    <2>2. EmployeeOf[e] \in Employee
      BY ConstantsAssumption
    <2> QED
      BY <1>1, <1>2, <2>1, <2>2 DEF RowStep, SameLease, AdmissionAdmit, Row
  <1>3. ASSUME NEW e \in Execution, Cancel(e)
        PROVE  OthersKept(e) /\ RowStep(e)
    <2>1. OthersKept(e)
      BY <1>1, <1>3 DEF OthersKept, Cancel
    <2>2. Leaves(e, "cancelled")
      BY <1>1, <1>3 DEF Leaves, SameLease, Cancel, Released, Row
    <2> QED
      BY <2>1, <2>2 DEF RowStep
  <1>4. ASSUME NEW e \in Execution, LeaseExpires(e) \/ BackoffElapses(e)
        PROVE  OthersKept(e) /\ RowStep(e)
    <2>1. OthersKept(e)
      BY <1>1, <1>4 DEF OthersKept, LeaseExpires, BackoffElapses
    <2> QED
      BY <1>1, <1>4, <2>1 DEF RowStep, SameLease, LeaseExpires, BackoffElapses,
                              Row, Terminal, TerminalStatus
  <1>5. ASSUME NEW e \in Execution, NEW o \in Dispatcher,
               NEW i \in 1..Len(retries[e]), Claim(e, o, i)
        PROVE  OthersKept(e) /\ RowStep(e)
    <2>1. OthersKept(e)
      BY <1>1, <1>5 DEF OthersKept, Claim
    <2> QED
      BY <1>1, <1>5, <2>1 DEF RowStep, Claim, Due, Leased, Row
  <1>6. ASSUME NEW e \in Execution, NEW o \in Dispatcher, ReclaimStale(e, o)
        PROVE  OthersKept(e) /\ RowStep(e)
    <2>1. OthersKept(e)
      BY <1>1, <1>6 DEF OthersKept, ReclaimStale
    <2> QED
      BY <1>1, <1>6, <2>1 DEF RowStep, ReclaimStale, Stale, Leased, Row
  <1>7. ASSUME NEW f \in granted, Fenced(f)
        PROVE  OthersKept(f.exec) /\ RowStep(f.exec)
    <2>0. f.exec \in Execution /\ (Held(f) => /\ execs[f.exec].status = "running"
                                              /\ f.attempt = execs[f.exec].attempt)
      BY HeldFence
    <2>1. ASSUME Heartbeat(f) \/ \E c \in Causes : PersistError(f, c)
          PROVE  OthersKept(f.exec) /\ RowStep(f.exec)
      <3>1. OthersKept(f.exec)
        BY <1>1, <2>0, <2>1 DEF OthersKept, Heartbeat, PersistError
      <3>2. /\ execs'[f.exec].status = execs[f.exec].status /\ SameLease(f.exec)
            /\ execs'[f.exec].owner = execs[f.exec].owner
        <4>1. CASE Heartbeat(f)
          BY <1>1, <2>0, <4>1 DEF SameLease, Heartbeat, Row
        <4>2. ASSUME NEW c \in Causes, PersistError(f, c)
              PROVE  /\ execs'[f.exec].status = execs[f.exec].status
                     /\ SameLease(f.exec)
                     /\ execs'[f.exec].owner = execs[f.exec].owner
          BY <1>1, <2>0, <4>2 DEF SameLease, PersistError, Row
        <4> QED
          BY <2>1, <4>1, <4>2
      <3>3. execs[f.exec].status = "running"
        BY <2>0, <2>1 DEF Heartbeat, PersistError
      <3> QED
        BY <3>1, <3>2, <3>3 DEF RowStep, Terminal, TerminalStatus
    <2>2. CASE Complete(f)
      <3>1. OthersKept(f.exec)
        BY <1>1, <2>0, <2>2 DEF OthersKept, Complete
      <3>2. execs[f.exec].status = "running" /\ Leaves(f.exec, "completed")
        BY <1>1, <2>0, <2>2 DEF Leaves, SameLease, Complete, Released, Row, Active
      <3> QED
        BY <3>1, <3>2 DEF RowStep
    <2>3. ASSUME NEW c \in Causes, FailAndDLQ(f, c)
          PROVE  OthersKept(f.exec) /\ RowStep(f.exec)
      <3>1. OthersKept(f.exec)
        BY <1>1, <2>0, <2>3 DEF OthersKept, FailAndDLQ
      <3>2. execs[f.exec].status = "running" /\ Leaves(f.exec, "failed")
        BY <1>1, <2>0, <2>3 DEF Leaves, SameLease, FailAndDLQ, Released, Row, Active
      <3> QED
        BY <3>1, <3>2 DEF RowStep
    <2>4. CASE MayReschedule(f) /\ Reschedule(f, f.attempt + 1)
      <3>1. OthersKept(f.exec)
        BY <1>1, <2>0, <2>4 DEF OthersKept, Reschedule
      <3>2. execs[f.exec].status = "running" /\ Leaves(f.exec, "pending")
        BY <1>1, <2>0, <2>4 DEF Leaves, SameLease, Reschedule, Released, Row, Active
      <3>3. execs[f.exec].attempt < MaxAttempts[f.exec]
        BY <2>0, <2>4 DEF MayReschedule, Reschedule
      <3> QED
        BY <3>1, <3>2, <3>3 DEF RowStep
    <2>5. ASSUME NEW ok \in BOOLEAN, RecordDispatch(f, ok)
          PROVE  OthersKept(f.exec) /\ RowStep(f.exec)
      <3>1. OthersKept(f.exec)
        BY <1>1, <2>0, <2>5 DEF OthersKept, RecordDispatch
      <3>2. /\ execs' = execs /\ dlq' = dlq
            /\ \/ retries' = retries
               \/ /\ f.retry \in 1..Len(retries[f.exec])
                  /\ retries[f.exec][f.retry].state = "claimed"
        BY <2>5 DEF RecordDispatch
      <3>3. Terminal(execs[f.exec].status) => retries' = retries
        BY <2>0, <3>2, ClaimedIsRunning DEF Terminal, TerminalStatus
      <3> QED
        BY <3>1, <3>2, <3>3 DEF RowStep, SameLease
    <2> QED
      BY <1>7, <2>1, <2>2, <2>3, <2>4, <2>5 DEF Fenced
  <1>8. ASSUME NEW f \in granted PROVE f.exec \in Execution
    BY HeldFence
  <1> QED
    BY <1>2, <1>3, <1>4, <1>5, <1>6, <1>7, <1>8 DEF BoardNext

\* A terminal execution is never touched again: not by a late worker, not by
\* a recovery, not by a second cancel.
THEOREM TerminalStays == BoardSpec => TerminalIsFinal
  <1>1. BoardInv /\ [BoardNext]_boardVars => [EndedUntouched]_boardVars
    <2> SUFFICES ASSUME BoardInv, BoardNext PROVE EndedUntouched
      OBVIOUS
    <2>1. PICK e \in Execution : OthersKept(e) /\ RowStep(e)
      BY MethodStep
    <2>2. Terminal(execs[e].status) =>
             execs'[e] = execs[e] /\ retries'[e] = retries[e] /\ dlq'[e] = dlq[e]
      BY <2>1 DEF RowStep, Leaves, Terminal, TerminalStatus, Active
    <2> QED
      BY <2>1, <2>2 DEF OthersKept, EndedUntouched
  <1> QED
    BY <1>1, BoardInvariance, PTL DEF BoardSpec, TerminalIsFinal

\* Ownership and attempts only ever change together with a new generation.
THEOREM HandoverFenced == BoardSpec => LeaseHandover
  <1>1. BoardInv /\ [BoardNext]_boardVars =>
           [\A e \in Execution : HandedOver(e)]_boardVars
    <2> SUFFICES ASSUME BoardInv, BoardNext, NEW x \in Execution
                 PROVE  HandedOver(x)
      OBVIOUS
    <2>1. PICK e \in Execution : OthersKept(e) /\ RowStep(e)
      BY MethodStep
    <2>2. HandedOver(e)
      BY <2>1 DEF RowStep, Leaves, SameLease, HandedOver
    <2> QED
      BY <2>1, <2>2 DEF OthersKept, HandedOver
  <1> QED
    BY <1>1, BoardInvariance, PTL DEF BoardSpec, LeaseHandover

\* Neither retries nor recoveries push an employee over its capacity: the
\* check of AdmissionAdmit is enough.
THEOREM CapacityKept == BoardSpec => []CapacityRespected
  <1>1. BoardInit => CapacityRespected
    <2> SUFFICES ASSUME BoardInit, NEW emp \in Employee
                 PROVE  Cardinality(ActiveOf(emp)) <= Capacity[emp]
      BY DEF CapacityRespected
    <2>1. ActiveOf(emp) = {}
      BY DEF BoardInit, ActiveOf, AbsentRow, Active
    <2>2. Capacity[emp] \in Nat
      BY ConstantsAssumption
    <2> QED
      BY <2>1, <2>2, FS_EmptySet
  <1>2. BoardInv /\ CapacityRespected /\ [BoardNext]_boardVars => CapacityRespected'
    <2> SUFFICES ASSUME BoardInv, CapacityRespected, [BoardNext]_boardVars,
                        NEW emp \in Employee
                 PROVE  Cardinality(ActiveOf(emp)') <= Capacity[emp]
      BY DEF CapacityRespected
    <2> DEFINE old == ActiveOf(emp)
               new == ActiveOf(emp)'
    <2>0. IsFiniteSet(old) /\ IsFiniteSet(new) /\ Capacity[emp] \in Nat
      <3>1. old \subseteq Execution /\ new \subseteq Execution
        BY DEF ActiveOf
      <3> QED
        BY <3>1, ConstantsAssumption, FS_Subset
    <2>1. Cardinality(old) <= Capacity[emp]
      BY DEF CapacityRespected
    <2>2. Cardinality(old) \in Nat /\ Cardinality(new) \in Nat
      BY <2>0, FS_CardinalityType
    <2>3. CASE new \subseteq old
      <3> HIDE DEF old, new
      <3>1. Cardinality(new) <= Cardinality(old)
        BY <2>0, <2>3, FS_Subset
      <3> QED
        BY <2>0, <2>1, <2>2, <3>1 DEF new
    <2>4. CASE ~(new \subseteq old)
      <3>1. BoardNext
        BY <2>4 DEF boardVars, ActiveOf
      <3>2. PICK e \in Execution : OthersKept(e) /\ RowStep(e)
        BY <3>1, MethodStep
      <3>3. /\ execs[e].status = "absent" /\ EmployeeOf[e] = emp
            /\ Cardinality(old) < Capacity[emp]
        <4>1. PICK x \in new : x \notin old
          BY <2>4
        <4>2. x = e
          BY <3>2, <4>1 DEF ActiveOf, OthersKept
        <4>3. EmployeeOf[e] = emp /\ execs'[e].status \in Active
              /\ execs[e].status \notin Active
          BY <4>1, <4>2 DEF ActiveOf
        <4> QED
          BY <3>2, <4>3 DEF RowStep, Leaves, Active
      <3>4. new \subseteq old \cup {e} /\ e \notin old
        BY <3>2, <3>3 DEF ActiveOf, OthersKept, Active
      <3> HIDE DEF old, new
      <3>5. IsFiniteSet(old \cup {e}) /\ Cardinality(old \cup {e}) = Cardinality(old) + 1
        BY <2>0, <3>4, FS_AddElement
      <3>6. Cardinality(new) <= Cardinality(old) + 1
        BY <3>4, <3>5, FS_Subset
      <3> QED
        BY <2>0, <2>2, <3>3, <3>6 DEF new
    <2> QED
      BY <2>3, <2>4
  <1> QED
    BY <1>1, <1>2, BoardInvariance, PTL DEF BoardSpec

\* The tables implement the lifecycle the API promises: every method is one
\* transition of ExecutionLifecycle, or none.
THEOREM BoardImplementsLifecycle == BoardSpec => ImplementsLifecycle
  <1> DEFINE st == [e \in Execution |-> execs[e].status]
             at == [e \in Execution |-> execs[e].attempt]
  <1>1. BoardInit => Lifecycle!Init
    BY DEF BoardInit, AbsentRow, Lifecycle!Init
  <1>2. BoardInv /\ [BoardNext]_boardVars => [Lifecycle!Next]_<<st, at>>
    <2> SUFFICES ASSUME BoardInv, [BoardNext]_boardVars
                 PROVE  [Lifecycle!Next]_<<st, at>>
      OBVIOUS
    <2>1. CASE UNCHANGED boardVars
      BY <2>1 DEF boardVars
    <2>2. CASE BoardNext
      <3>1. PICK e \in Execution : OthersKept(e) /\ RowStep(e)
        BY <2>2, MethodStep
      <3>2. /\ st' = [st EXCEPT ![e] = execs'[e].status]
            /\ at' = [at EXCEPT ![e] = execs'[e].attempt]
        BY <3>1 DEF OthersKept
      <3>3. st[e] = execs[e].status /\ at[e] = execs[e].attempt
        OBVIOUS
      <3>4. execs'[e].attempt = execs[e].attempt => at' = at
        BY <3>2, <3>3
      <3>5. execs'[e].status = execs[e].status => st' = st
        BY <3>2, <3>3
      <3> HIDE DEF st, at
      <3>6. \/ Lifecycle!Admit(e) \/ Lifecycle!Start(e) \/ Lifecycle!Retry(e)
            \/ Lifecycle!Finish(e) \/ Lifecycle!Cancel(e)
            \/ UNCHANGED <<st, at>>
        BY <3>1, <3>2, <3>3, <3>4, <3>5
           DEF RowStep, Leaves, SameLease, Active, st, at, Lifecycle!Admit,
               Lifecycle!Start, Lifecycle!Retry, Lifecycle!Finish, Lifecycle!Cancel
      <3> QED
        BY <3>6 DEF Lifecycle!Next, st, at
    <2> QED
      BY <2>1, <2>2
  <1> QED
    BY <1>1, <1>2, BoardInvariance, PTL DEF BoardSpec, ImplementsLifecycle, Lifecycle!Spec
=============================================================================
