--------------------------- MODULE RuntimeProofs ---------------------------
(***************************************************************************)
(* Proofs about ExecutionRuntime, for any number of executions,            *)
(* dispatchers and handlers and any number of faults: the processes and    *)
(* the queue implement the open board of ExecutionBoard, so that all that  *)
(* ExecutionBoardProofs shows of the board holds of the runtime.           *)
(***************************************************************************)
EXTENDS ExecutionRuntime, ExecutionBoardProofs

-----------------------------------------------------------------------------
(* The inductive invariant.                                                *)

\* A message worth delivering: a claim's, and its fence can be rebuilt.
Genuine(m) == m.retry # 0 /\ fencedFrom(m) \in granted

\* A dispatcher that is about to write holds a granted fence; one that is about
\* to publish holds its own, fresh from a claim, whose message nobody has yet.
DispSound(d) ==
    /\ disp[d].pc \in {"resolve", "publish", "record"} => disp[d].f \in granted
    /\ disp[d].pc = "publish" =>
        /\ disp[d].f.owner = d /\ disp[d].f.retry # 0
        /\ PublishMessage(d, disp[d].f) \notin broker
        /\ \A h \in Handler : run[h].live => run[h].msg # PublishMessage(d, disp[d].f)

\* A handler that runs has a message whose fence was granted, which nobody else
\* has while its delivery is open; it persists only what classifies a failure.
RunSound(h) ==
    /\ run[h].pc = "idle" => ~run[h].live /\ run[h].hb = "off"
    /\ run[h].pc # "idle" => run[h].msg \in Message /\ Genuine(run[h].msg)
    /\ run[h].live =>
        /\ run[h].msg \notin broker
        /\ \A g \in Handler \ {h} : run[g].live => run[g].msg # run[h].msg
    /\ run[h].pc = "returned" => run[h].result # "none"
    /\ run[h].pc \in {"persist", "decide"} => run[h].result \in Causes

\* The row of a running execution names the owner its newest grant names.
OwnersGranted == \A f \in granted :
    execs[f.exec].status = "running" /\ execs[f.exec].gen = f.gen =>
        execs[f.exec].owner = f.owner

RuntimeInv ==
    /\ BoardInv
    /\ OwnersGranted
    /\ TypeOK
    /\ \A m \in broker : Genuine(m)
    /\ \A d \in Dispatcher : DispSound(d)
    /\ \A h \in Handler : RunSound(h)

-----------------------------------------------------------------------------
(* The transport.                                                          *)

\* Building the message of one's own claim and rebuilding the fence from it
\* gives the fence back.
LEMMA RoundTrip ==
    ASSUME NEW d \in Dispatcher, NEW f \in Fence, f.owner = d
    PROVE  /\ PublishMessage(d, f) \in Message
           /\ PublishMessage(d, f).retry = f.retry
           /\ fencedFrom(PublishMessage(d, f)) = f
  <1> DEFINE m == PublishMessage(d, f)
  <1>1. /\ m = [exec |-> f.exec, attempt |-> f.attempt, retry |-> f.retry,
                gen |-> f.gen, owner |-> d]
        /\ m \in Message /\ m.owner = d /\ m.retry = f.retry
    BY DEF PublishMessage, Message, Fence
  <1>2. d # NoOwner
    BY ConstantsAssumption
  <1>3. fencedFrom(m) = [exec |-> f.exec, gen |-> f.gen, attempt |-> f.attempt,
                         retry |-> f.retry, owner |-> d]
    BY <1>1, <1>2 DEF fencedFrom
  <1> QED
    BY <1>1, <1>3 DEF Fence

-----------------------------------------------------------------------------
(* Every step of the runtime is a step of the board, or none.              *)

\* What a provider call can return is "ok" or a classification.
LEMMA ResultFacts ==
    /\ {"deadline_exceeded"} \cup ProviderErrors \subseteq Causes
    /\ "none" \notin Causes /\ "ok" \notin Causes /\ NoCode \notin Causes
    /\ "worker_lease_expired" \in Causes
  BY RuntimeAssumption, CausesAssumption
     DEF Codes, RetryableCodes, FinalCodes, NoCode

\* A dispatcher's or a handler's call with a fence it was granted.
LEMMA FencedStep ==
    ASSUME NEW f \in granted, Fenced(f)
    PROVE  BoardNext
  BY DEF BoardNext

\* The decision on a recovered lease keeps the clients' two rules.
LEMMA ResolveKeepsRules ==
    ASSUME RuntimeInv, NEW d \in Dispatcher, ResolveRecovered(d)
    PROVE  BoardNext
  <1> DEFINE f == disp[d].f
             c == RecoveredCode(disp[d].code)
  <1>1. /\ disp[d].pc = "resolve"
        /\ IF ~Retryable(c) \/ f.attempt >= MaxAttempts[f.exec]
           THEN FailAndDLQ(f, c) ELSE Reschedule(f, f.attempt + 1)
    BY DEF ResolveRecovered
  <1>2. f \in granted /\ disp[d].code \in Causes \cup {NoCode}
    BY <1>1 DEF RuntimeInv, DispSound, TypeOK, Sweep
  <1>3. c \in Causes
    BY <1>2, ResultFacts DEF RecoveredCode
  <1>4. f.attempt \in Nat /\ MaxAttempts[f.exec] \in Nat
    BY <1>2, HeldFence, ConstantsAssumption DEF RuntimeInv
  <1> HIDE DEF f, c
  <1>5. CASE ~Retryable(c) \/ f.attempt >= MaxAttempts[f.exec]
    <2>1. MayFail(f, c) /\ FailAndDLQ(f, c)
      BY <1>1, <1>5 DEF MayFail
    <2> QED
      BY <1>2, <1>3, <2>1, FencedStep DEF Fenced
  <1>6. CASE ~(~Retryable(c) \/ f.attempt >= MaxAttempts[f.exec])
    <2>1. MayReschedule(f) /\ Reschedule(f, f.attempt + 1)
      BY <1>1, <1>4, <1>6 DEF MayReschedule
    <2> QED
      BY <1>2, <2>1, FencedStep DEF Fenced
  <1> QED
    BY <1>5, <1>6

\* So does Worker.finalizeFailure.
LEMMA DecideKeepsRules ==
    ASSUME RuntimeInv, NEW h \in Handler, DecideFailure(h)
    PROVE  BoardNext
  <1> DEFINE f == FenceOf(h)
             c == run[h].result
  <1>1. /\ run[h].pc = "decide"
        /\ IF Retryable(c) /\ f.attempt < MaxAttempts[f.exec]
           THEN Reschedule(f, f.attempt + 1) ELSE FailAndDLQ(f, c)
    BY DEF DecideFailure
  <1>2. f \in granted /\ c \in Causes
    BY <1>1 DEF RuntimeInv, RunSound, Genuine, FenceOf
  <1>3. f.attempt \in Nat /\ MaxAttempts[f.exec] \in Nat
    BY <1>2, HeldFence, ConstantsAssumption DEF RuntimeInv
  <1> HIDE DEF f, c
  <1>4. CASE Retryable(c) /\ f.attempt < MaxAttempts[f.exec]
    <2>1. MayReschedule(f) /\ Reschedule(f, f.attempt + 1)
      BY <1>1, <1>4 DEF MayReschedule
    <2> QED
      BY <1>2, <2>1, FencedStep DEF Fenced
  <1>5. CASE ~(Retryable(c) /\ f.attempt < MaxAttempts[f.exec])
    <2>1. MayFail(f, c) /\ FailAndDLQ(f, c)
      BY <1>1, <1>3, <1>5 DEF MayFail
    <2> QED
      BY <1>2, <2>1, FencedStep DEF Fenced
  <1> QED
    BY <1>4, <1>5

\* A sweep.
LEMMA SweepOnBoard ==
    ASSUME RuntimeInv, NEW d \in Dispatcher, SweepStep(d) \/ AbortSweep(d)
    PROVE  BoardNext \/ UNCHANGED boardVars
  <1>1. ASSUME NEW e \in Execution, RecoverOne(d, e) PROVE BoardNext
    BY <1>1 DEF RecoverOne, BoardNext
  <1>2. ASSUME NEW e \in Execution, ClaimOne(d, e) PROVE BoardNext
    BY <1>2 DEF ClaimOne, BoardNext
  <1>3. ASSUME Record(d) PROVE BoardNext
    <2>1. disp[d].f \in granted /\ disp[d].sent \in BOOLEAN /\ RecordDispatch(disp[d].f, disp[d].sent)
      BY <1>3 DEF Record, RuntimeInv, DispSound, TypeOK, Sweep
    <2> QED
      BY <2>1, FencedStep DEF Fenced
  <1>4. ASSUME NEW e \in Execution, SkipStale(d, e) \/ SkipDue(d, e)
        PROVE  UNCHANGED boardVars
    BY <1>4 DEF SkipStale, SkipDue
  <1>5. ASSUME NEW ok \in BOOLEAN, NEW arrives \in BOOLEAN, Publish(d, ok, arrives)
        PROVE  UNCHANGED boardVars
    BY <1>5 DEF Publish
  <1>6. ASSUME \/ ListStale(d) \/ EndRecoveryPass(d) \/ ResolveStale(d) \/ ListDue(d)
               \/ EndDispatchPass(d) \/ AbortSweep(d)
        PROVE  UNCHANGED boardVars
    BY <1>6 DEF ListStale, EndRecoveryPass, ResolveStale, ListDue, EndDispatchPass, AbortSweep
  <1> QED
    BY <1>1, <1>2, <1>3, <1>4, <1>5, <1>6, ResolveKeepsRules DEF SweepStep

\* A delivery.
LEMMA RunOnBoard ==
    ASSUME RuntimeInv, NEW h \in Handler, RunStep(h) \/ RunEvent(h) \/ RunFault(h)
    PROVE  BoardNext \/ UNCHANGED boardVars
  <1>1. run[h].pc # "idle" => FenceOf(h) \in granted
    BY DEF RuntimeInv, RunSound, Genuine, FenceOf
  <1>2. Beating(h) => run[h].pc # "idle"
    BY DEF RuntimeInv, RunSound, Beating
  <1>3. ASSUME HeartbeatRenews(h) PROVE BoardNext
    BY <1>1, <1>2, <1>3, FencedStep DEF HeartbeatRenews, Fenced
  <1>4. ASSUME HeartbeatCut(h) PROVE BoardNext \/ UNCHANGED boardVars
    BY <1>1, <1>2, <1>4, FencedStep DEF HeartbeatCut, Beating, Fenced
  <1>5. ASSUME CompleteRun(h) PROVE BoardNext
    BY <1>1, <1>5, FencedStep DEF CompleteRun, Fenced
  <1>6. ASSUME PersistFailure(h) PROVE BoardNext
    <2>1. PersistError(FenceOf(h), run[h].result) /\ run[h].result \in Causes /\ FenceOf(h) \in granted
      BY <1>1, <1>6 DEF PersistFailure, RuntimeInv, RunSound
    <2> QED
      BY <2>1, FencedStep DEF Fenced
  <1>7. ASSUME \/ CheckOwnership(h) \/ WriteStale(h) \/ Settle(h) \/ HeartbeatLost(h)
               \/ DeadlineHits(h) \/ StoreFails(h) \/ HeartbeatFails(h)
               \/ WorkerCrashes(h) \/ ConnectionLost(h)
               \/ \E r \in Results, during \in BOOLEAN : ProviderReturns(h, r, during)
               \/ \E m \in broker : Deliver(h, m) \/ MaterializeFails(h, m)
        PROVE  UNCHANGED boardVars
    BY <1>7 DEF CheckOwnership, WriteStale, Settle, HeartbeatLost, DeadlineHits, StoreFails,
                HeartbeatFails, WorkerCrashes, ConnectionLost, ProviderReturns, Deliver,
                MaterializeFails
  <1> QED
    BY <1>3, <1>4, <1>5, <1>6, <1>7, DecideKeepsRules DEF RunStep, RunEvent, RunFault

\* The refinement, step by step.
LEMMA BoardStep == RuntimeInv /\ [Next]_vars => [BoardNext]_boardVars
  <1> SUFFICES ASSUME RuntimeInv, [Next]_vars PROVE BoardNext \/ UNCHANGED boardVars
    OBVIOUS
  <1>1. ASSUME NEW e \in Execution, Admit(e) \/ CancelExecution(e) \/ TimeStep(e)
        PROVE  BoardNext \/ UNCHANGED boardVars
    BY <1>1 DEF Admit, CancelExecution, TimeStep, LeaseRunsOut, LeaseLapses, BackoffOver,
                BoardNext
  <1> QED
    BY <1>1, SweepOnBoard, RunOnBoard DEF Next, vars

\* No grant is ever taken back.
LEMMA GrantsStay ==
    ASSUME [BoardNext]_boardVars
    PROVE  granted \subseteq granted'
  BY DEF BoardNext, AdmissionAdmit, Cancel, LeaseExpires, BackoffElapses, Claim,
         ReclaimStale, Fenced, Heartbeat, Complete, PersistError, FailAndDLQ, Reschedule,
         RecordDispatch, boardVars

\* A claim or a reclaim writes the owner it grants under a new generation; no
\* other statement changes the owner of a row that stays running.
LEMMA OwnersStep ==
    ASSUME BoardInv, OwnersGranted, [BoardNext]_boardVars
    PROVE  OwnersGranted'
  <1>1. /\ execs \in [Execution -> Row] /\ \A f \in granted : f \in Fence
        /\ \A f \in granted : f.gen <= execs[f.exec].gen
    BY DEF BoardInv, BoardTypeOK, FencingSound, FenceSound
  <1>2. ASSUME NEW e \in Execution, NEW o, NEW n, NEW a,
               execs' = [execs EXCEPT ![e] = Leased(execs[e], o, execs[e].gen + 1, a)],
               granted' = granted \cup {n},
               n.exec = e /\ n.owner = o /\ n.gen = execs[e].gen + 1
        PROVE  OwnersGranted'
    <2>1. /\ execs'[e].owner = o /\ execs'[e].gen = execs[e].gen + 1
          /\ \A x \in Execution \ {e} : execs'[x] = execs[x]
      BY <1>1, <1>2 DEF Leased, Row
    <2>2. execs[e].gen \in Nat
      BY <1>1 DEF Row
    <2> SUFFICES ASSUME NEW f \in granted', execs'[f.exec].status = "running",
                        execs'[f.exec].gen = f.gen
                 PROVE  execs'[f.exec].owner = f.owner
      BY DEF OwnersGranted
    <2>3. CASE f = n
      BY <1>2, <2>1, <2>3
    <2>4. CASE f # n
      <3>1. f \in granted /\ f.exec \in Execution /\ f.gen \in Nat
        BY <1>1, <1>2, <2>4 DEF Fence
      <3>2. f.exec # e
        BY <1>1, <2>1, <2>2, <3>1
      <3> QED
        BY <2>1, <3>1, <3>2 DEF OwnersGranted
    <2> QED
      BY <2>3, <2>4
  <1>3. ASSUME granted' = granted,
               \A x \in Execution : \/ execs'[x].status # "running"
                                    \/ /\ execs'[x].gen = execs[x].gen
                                       /\ execs'[x].owner = execs[x].owner
                                       /\ execs[x].status = "running"
        PROVE  OwnersGranted'
    BY <1>1, <1>3 DEF OwnersGranted, Fence
  <1>4. ASSUME NEW e \in Execution, NEW o \in Dispatcher, NEW i \in 1..Len(retries[e]),
               Claim(e, o, i)
        PROVE  OwnersGranted'
    <2>1. /\ ClaimFence(e, o, i).exec = e /\ ClaimFence(e, o, i).owner = o
          /\ ClaimFence(e, o, i).gen = execs[e].gen + 1
      BY DEF ClaimFence
    <2> QED
      BY <1>2, <1>4, <2>1 DEF Claim
  <1>5. ASSUME NEW e \in Execution, NEW o \in Dispatcher, ReclaimStale(e, o)
        PROVE  OwnersGranted'
    <2>1. /\ ReclaimFence(e, o).exec = e /\ ReclaimFence(e, o).owner = o
          /\ ReclaimFence(e, o).gen = execs[e].gen + 1
      BY DEF ReclaimFence
    <2> QED
      BY <1>2, <1>5, <2>1 DEF ReclaimStale
  <1>6. ASSUME NEW e \in Execution,
               AdmissionAdmit(e) \/ Cancel(e) \/ LeaseExpires(e) \/ BackoffElapses(e)
        PROVE  OwnersGranted'
    <2>1. CASE AdmissionAdmit(e)
      BY <1>1, <2>1 DEF AdmissionAdmit, Row, OwnersGranted, Fence
    <2>2. CASE Cancel(e)
      BY <1>1, <2>2 DEF Cancel, Released, Row, OwnersGranted, Fence
    <2>3. CASE LeaseExpires(e)
      BY <1>1, <2>3 DEF LeaseExpires, Row, OwnersGranted, Fence
    <2>4. CASE BackoffElapses(e)
      BY <1>1, <2>4 DEF BackoffElapses, Row, OwnersGranted, Fence
    <2> QED
      BY <1>6, <2>1, <2>2, <2>3, <2>4
  <1>7. ASSUME NEW f \in granted, Fenced(f) PROVE OwnersGranted'
    <2>1. f.exec \in Execution
      BY <1>1 DEF Fence
    <2>2. CASE Heartbeat(f)
      BY <1>1, <1>3, <2>1, <2>2 DEF Heartbeat, Held, Row
    <2>3. CASE Complete(f)
      BY <1>1, <1>3, <2>1, <2>3 DEF Complete, Released, Row
    <2>4. CASE \E c \in Causes : PersistError(f, c)
      BY <1>1, <1>3, <2>1, <2>4 DEF PersistError, Held, Row
    <2>5. CASE \E c \in Causes : FailAndDLQ(f, c)
      BY <1>1, <1>3, <2>1, <2>5 DEF FailAndDLQ, Released, Row
    <2>6. CASE Reschedule(f, f.attempt + 1)
      BY <1>1, <1>3, <2>1, <2>6 DEF Reschedule, Released, Row
    <2>7. CASE \E ok \in BOOLEAN : RecordDispatch(f, ok)
      BY <2>7 DEF RecordDispatch, OwnersGranted
    <2> QED
      BY <1>7, <2>2, <2>3, <2>4, <2>5, <2>6, <2>7 DEF Fenced
  <1>8. CASE UNCHANGED boardVars
    BY <1>8 DEF boardVars, OwnersGranted
  <1> QED
    BY <1>4, <1>5, <1>6, <1>7, <1>8 DEF BoardNext

-----------------------------------------------------------------------------
(* Frames.                                                                 *)

\* A step of a dispatcher that leaves the queue alone.
LEMMA DispStep ==
    ASSUME RuntimeInv, BoardInv', OwnersGranted', granted \subseteq granted',
           NEW d \in Dispatcher, NEW t \in Sweep, disp' = [disp EXCEPT ![d] = t],
           UNCHANGED <<broker, run, overdue>>, faults' \in 0..MaxFaults,
           t.pc \in {"resolve", "publish", "record"} => t.f \in granted',
           t.pc = "publish" =>
              /\ t.f.owner = d /\ t.f.retry # 0 /\ PublishMessage(d, t.f) \notin broker
              /\ \A h \in Handler : run[h].live => run[h].msg # PublishMessage(d, t.f)
    PROVE  RuntimeInv'
  <1>1. /\ disp' \in [Dispatcher -> Sweep] /\ disp'[d] = t
        /\ \A x \in Dispatcher \ {d} : disp'[x] = disp[x]
    BY DEF RuntimeInv, TypeOK
  <1>2. TypeOK'
    BY <1>1 DEF RuntimeInv, TypeOK, BoardInv
  <1>3. \A x \in Dispatcher : DispSound(x)'
    <2> SUFFICES ASSUME NEW x \in Dispatcher PROVE DispSound(x)'
      OBVIOUS
    <2>1. CASE x = d
      BY <1>1, <2>1 DEF DispSound
    <2>2. CASE x # d
      BY <1>1, <2>2 DEF RuntimeInv, DispSound
    <2> QED
      BY <2>1, <2>2
  <1>4. \A h \in Handler : RunSound(h)'
    BY DEF RuntimeInv, RunSound, Genuine
  <1>5. \A m \in broker' : Genuine(m)'
    BY DEF RuntimeInv, Genuine
  <1> QED
    BY <1>2, <1>3, <1>4, <1>5 DEF RuntimeInv

\* A step of a handler: it keeps its delivery, takes one from the queue, or
\* lets go of it, and only an open one goes back to the queue.
Keeps(h, k) == k.msg = run[h].msg /\ k.live = run[h].live /\ broker' = broker
Takes(h, k) == k.msg \in broker /\ k.live /\ ~run[h].live /\ broker' = broker \ {k.msg}
LetsGo(h, k) ==
    /\ ~k.live /\ (k.pc # "idle" => k.msg = run[h].msg)
    /\ broker' = broker \/ (run[h].live /\ broker' = broker \cup {run[h].msg})

\* A handler's step that keeps its delivery, takes one or lets it go.
LEMMA HandlerStep ==
    ASSUME RuntimeInv, BoardInv', OwnersGranted', granted \subseteq granted',
           NEW h \in Handler, NEW k \in Run, run' = [run EXCEPT ![h] = k],
           UNCHANGED <<disp, overdue>>, faults' \in 0..MaxFaults,
           Keeps(h, k) \/ Takes(h, k) \/ LetsGo(h, k),
           k.pc = "idle" => ~k.live /\ k.hb = "off",
           k.pc # "idle" => run[h].pc # "idle" \/ k.msg \in broker,
           k.pc = "returned" => k.result # "none",
           k.pc \in {"persist", "decide"} => k.result \in Causes
    PROVE  RuntimeInv'
  <1>1. /\ run' \in [Handler -> Run] /\ run'[h] = k
        /\ \A x \in Handler \ {h} : run'[x] = run[x]
    BY DEF RuntimeInv, TypeOK
  <1>2. RunSound(h) /\ broker \in SUBSET Message /\ \A m \in broker : Genuine(m)
    BY DEF RuntimeInv, TypeOK
  <1>3. run[h].live => run[h].msg \in Message /\ Genuine(run[h].msg)
    BY <1>2 DEF RunSound
  <1>4. \A m \in broker' : m \in Message /\ Genuine(m)
    BY <1>2, <1>3 DEF Keeps, Takes, LetsGo
  <1>5. broker' \in SUBSET Message /\ \A m \in broker' : Genuine(m)'
    BY <1>4 DEF Genuine
  <1>6. TypeOK'
    BY <1>1, <1>5 DEF RuntimeInv, TypeOK, BoardInv
  <1>7. \A d \in Dispatcher : DispSound(d)'
    <2> SUFFICES ASSUME NEW d \in Dispatcher PROVE DispSound(d)'
      OBVIOUS
    <2>1. DispSound(d) /\ disp'[d] = disp[d]
      BY DEF RuntimeInv
    <2>2. CASE Keeps(h, k)
      BY <1>1, <2>1, <2>2 DEF DispSound, Keeps
    <2>3. CASE Takes(h, k)
      BY <1>1, <2>1, <2>3 DEF DispSound, Takes
    <2>4. CASE LetsGo(h, k)
      BY <1>1, <2>1, <2>4 DEF DispSound, LetsGo
    <2> QED
      BY <2>2, <2>3, <2>4
  <1>8. RunSound(h)'
    <2>1. k.pc # "idle" => k.msg \in Message /\ Genuine(k.msg)
      BY <1>2 DEF RunSound, Keeps, Takes, LetsGo
    <2>3. k.pc # "idle" => k.msg \in Message /\ Genuine(k.msg)'
      BY <2>1 DEF Genuine
    <2>2. k.live => /\ k.msg \notin broker'
                    /\ \A g \in Handler \ {h} : run[g].live => run[g].msg # k.msg
      <3>1. CASE Keeps(h, k)
        BY <1>2, <3>1 DEF RunSound, Keeps
      <3>2. CASE Takes(h, k)
        BY <1>2, <3>2 DEF RuntimeInv, RunSound, Takes
      <3>3. CASE LetsGo(h, k)
        BY <3>3 DEF LetsGo
      <3> QED
        BY <3>1, <3>2, <3>3
    <2> QED
      BY <1>1, <2>2, <2>3 DEF RunSound
  <1>9. \A g \in Handler \ {h} : RunSound(g)'
    <2> SUFFICES ASSUME NEW g \in Handler \ {h} PROVE RunSound(g)'
      OBVIOUS
    <2>1. RunSound(g) /\ run'[g] = run[g]
      BY <1>1 DEF RuntimeInv
    <2>2. run[g].live => run[g].msg \notin broker' /\ (k.live => k.msg # run[g].msg)
      <3>1. CASE Keeps(h, k)
        BY <2>1, <3>1 DEF RunSound, Keeps
      <3>2. CASE Takes(h, k)
        BY <2>1, <3>2 DEF RunSound, Takes
      <3>3. CASE LetsGo(h, k)
        BY <2>1, <3>3 DEF RunSound, LetsGo
      <3> QED
        BY <3>1, <3>2, <3>3
    <2>3. \A x \in Handler \ {g} : run[g].live /\ run'[x].live => run'[x].msg # run[g].msg
      BY <1>1, <2>1, <2>2 DEF RunSound
    <2> QED
      BY <2>1, <2>2, <2>3 DEF RunSound, Genuine
  <1> QED
    BY <1>5, <1>6, <1>7, <1>8, <1>9 DEF RuntimeInv

\* A step of the API or of time.
LEMMA OutsideStep ==
    ASSUME RuntimeInv, BoardInv', OwnersGranted', granted \subseteq granted',
           UNCHANGED <<disp, broker, run>>,
           overdue' \in [Execution -> Nat], faults' \in 0..MaxFaults
    PROVE  RuntimeInv'
  <1>1. TypeOK'
    BY DEF RuntimeInv, TypeOK, BoardInv
  <1>2. \A d \in Dispatcher : DispSound(d)'
    BY DEF RuntimeInv, DispSound
  <1>3. \A h \in Handler : RunSound(h)'
    BY DEF RuntimeInv, RunSound, Genuine
  <1>4. \A m \in broker' : Genuine(m)'
    BY DEF RuntimeInv, Genuine
  <1> QED
    BY <1>1, <1>2, <1>3, <1>4 DEF RuntimeInv

-----------------------------------------------------------------------------
(* The dispatchers.                                                        *)

\* A sweep begins with the recovery of expired leases.
LEMMA NewSweepFacts == NewSweep \in Sweep /\ NewSweep.pc = "recover"
  BY DEF NewSweep, Sweep, SweepPC

\* A sweep goes on to a point where it holds no fence.
LEMMA SweepMoves ==
    ASSUME RuntimeInv, BoardInv', OwnersGranted', granted \subseteq granted', NEW d \in Dispatcher,
           NEW t \in Sweep, disp' = [disp EXCEPT ![d] = t],
           t.pc \in {"recover", "reclaim", "due", "claim"},
           UNCHANGED <<broker, run, overdue>>, faults' \in 0..MaxFaults
    PROVE  RuntimeInv'
  BY DispStep

\* Listing, skipping, ending a pass, giving up and resolving.
LEMMA SweepQuiet ==
    ASSUME RuntimeInv, BoardInv', OwnersGranted', granted \subseteq granted', NEW d \in Dispatcher,
           \/ ListStale(d) \/ EndRecoveryPass(d) \/ ResolveRecovered(d) \/ ResolveStale(d)
           \/ ListDue(d) \/ EndDispatchPass(d) \/ Record(d) \/ AbortSweep(d)
           \/ \E e \in Execution : SkipStale(d, e) \/ SkipDue(d, e)
    PROVE  RuntimeInv'
  <1>0. disp \in [Dispatcher -> Sweep] /\ disp[d] \in Sweep /\ faults \in 0..MaxFaults
    BY DEF RuntimeInv, TypeOK
  <1>1. ASSUME NEW stale \in SUBSET Execution,
               disp[d].pc = "recover",
               disp' = [disp EXCEPT ![d].pc = IF stale = {} THEN "due" ELSE "reclaim",
                                    ![d].todo = stale, ![d].reclaimed = FALSE],
               UNCHANGED <<broker, run, overdue, faults>>
        PROVE  RuntimeInv'
    <2> DEFINE pc == IF stale = {} THEN "due" ELSE "reclaim"
               t == [disp[d] EXCEPT !.pc = pc, !.todo = stale, !.reclaimed = FALSE]
    <2>1. t \in Sweep /\ t.pc \in {"due", "reclaim"}
      BY <1>0 DEF Sweep, SweepPC
    <2>2. disp' = [disp EXCEPT ![d] = t]
      BY <1>0, <1>1
    <2> HIDE DEF t
    <2> QED
      BY <1>0, <1>1, <2>1, <2>2, SweepMoves
  <1>2. CASE ListStale(d)
    <2>1. {e \in Execution : Stale(e)} \in SUBSET Execution
      OBVIOUS
    <2> QED
      BY <1>1, <1>2, <2>1 DEF ListStale
  <1>3. CASE EndRecoveryPass(d)
    <2> DEFINE pc == IF disp[d].reclaimed THEN "recover" ELSE "due"
               t == [disp[d] EXCEPT !.pc = pc]
    <2>1. t \in Sweep /\ t.pc \in {"recover", "due"}
      BY <1>0 DEF Sweep, SweepPC
    <2>2. disp' = [disp EXCEPT ![d] = t] /\ UNCHANGED <<broker, run, overdue, faults>>
      BY <1>0, <1>3 DEF EndRecoveryPass
    <2> HIDE DEF t
    <2> QED
      BY <1>0, <2>1, <2>2, SweepMoves
  <1>4. CASE ResolveRecovered(d)
    <2> DEFINE t == [disp[d] EXCEPT !.pc = "reclaim", !.f = NoFence, !.code = NoCode]
    <2>1. t \in Sweep /\ t.pc = "reclaim"
      BY <1>0 DEF Sweep, SweepPC
    <2>2. disp' = [disp EXCEPT ![d] = t] /\ UNCHANGED <<broker, run, overdue, faults>>
      BY <1>0, <1>4 DEF ResolveRecovered
    <2> HIDE DEF t
    <2> QED
      BY <1>0, <2>1, <2>2, SweepMoves
  <1>5. CASE ListDue(d)
    <2> DEFINE due == {e \in Execution : Due(e)}
               t == IF due = {} THEN NewSweep
                    ELSE [NewSweep EXCEPT !.pc = "claim", !.todo = due]
    <2>1. t \in Sweep /\ t.pc \in {"recover", "claim"}
      <3>1. [NewSweep EXCEPT !.pc = "claim", !.todo = due] \in Sweep
        BY DEF NewSweep, Sweep, SweepPC
      <3>2. [NewSweep EXCEPT !.pc = "claim", !.todo = due].pc = "claim"
        BY DEF NewSweep
      <3> QED
        BY <3>1, <3>2, NewSweepFacts
    <2>2. disp' = [disp EXCEPT ![d] = t] /\ UNCHANGED <<broker, run, overdue, faults>>
      BY <1>5 DEF ListDue
    <2> HIDE DEF t
    <2> QED
      BY <1>0, <2>1, <2>2, SweepMoves
  <1>6. CASE Record(d)
    <2> DEFINE t == [disp[d] EXCEPT !.pc = "claim", !.f = NoFence, !.sent = FALSE]
    <2>1. t \in Sweep /\ t.pc = "claim"
      BY <1>0 DEF Sweep, SweepPC
    <2>2. disp' = [disp EXCEPT ![d] = t] /\ UNCHANGED <<broker, run, overdue, faults>>
      BY <1>0, <1>6 DEF Record
    <2> HIDE DEF t
    <2> QED
      BY <1>0, <2>1, <2>2, SweepMoves
  <1>7. CASE ResolveStale(d) \/ EndDispatchPass(d) \/ AbortSweep(d)
    <2>1. /\ disp' = [disp EXCEPT ![d] = NewSweep] /\ UNCHANGED <<broker, run, overdue>>
          /\ UNCHANGED faults \/ Fault
      BY <1>7 DEF ResolveStale, EndDispatchPass, AbortSweep
    <2>2. faults' \in 0..MaxFaults
      BY <1>0, <2>1, RuntimeAssumption DEF Fault
    <2> QED
      BY <2>1, <2>2, NewSweepFacts, SweepMoves
  <1>8. ASSUME NEW e \in Execution, SkipStale(d, e) \/ SkipDue(d, e)
        PROVE  RuntimeInv'
    <2> DEFINE t == [disp[d] EXCEPT !.todo = disp[d].todo \ {e}]
    <2>1. t \in Sweep /\ t.pc = disp[d].pc
      BY <1>0 DEF Sweep
    <2>2. /\ disp' = [disp EXCEPT ![d] = t] /\ UNCHANGED <<broker, run, overdue, faults>>
          /\ disp[d].pc \in {"reclaim", "claim"}
      BY <1>0, <1>8 DEF SkipStale, SkipDue
    <2> HIDE DEF t
    <2> QED
      BY <1>0, <2>1, <2>2, SweepMoves
  <1> QED
    BY <1>2, <1>3, <1>4, <1>5, <1>6, <1>7, <1>8

\* A reclaim hands its fence to the sweep that resolves it.
LEMMA RecoverOneInv ==
    ASSUME RuntimeInv, BoardInv', OwnersGranted', granted \subseteq granted', NEW d \in Dispatcher,
           NEW e \in Execution, RecoverOne(d, e)
    PROVE  RuntimeInv'
  <1> DEFINE n == ReclaimFence(e, d)
             t == [disp[d] EXCEPT !.pc = "resolve", !.todo = disp[d].todo \ {e},
                                  !.reclaimed = TRUE, !.code = execs[e].code, !.f = n]
  <1>1. /\ disp' = [disp EXCEPT ![d] = t] /\ UNCHANGED <<broker, run, overdue, faults>>
        /\ granted' = granted \cup {n}
    BY DEF RecoverOne, ReclaimStale
  <1>2. n \in Fence /\ n \in granted'
    BY <1>1 DEF BoardInv, BoardTypeOK
  <1>3. disp[d] \in Sweep /\ execs[e].code \in Causes \cup {NoCode} /\ faults \in 0..MaxFaults
    BY DEF RuntimeInv, TypeOK, BoardTypeOK, Row
  <1> HIDE DEF n
  <1>4. t \in Sweep /\ t.pc = "resolve" /\ t.f = n
    BY <1>2, <1>3 DEF Sweep, SweepPC
  <1> HIDE DEF t
  <1> QED
    BY <1>1, <1>2, <1>3, <1>4, DispStep

\* A claim's fence is new: no generation of the execution was as high before.
LEMMA ClaimOneInv ==
    ASSUME RuntimeInv, BoardInv', OwnersGranted', granted \subseteq granted', NEW d \in Dispatcher,
           NEW e \in Execution, ClaimOne(d, e)
    PROVE  RuntimeInv'
  <1>0. PICK i \in 1..Len(retries[e]) :
            /\ Claim(e, d, i)
            /\ disp' = [disp EXCEPT ![d] = [disp[d] EXCEPT !.pc = "publish",
                            !.todo = disp[d].todo \ {e}, !.f = ClaimFence(e, d, i)]]
    BY DEF ClaimOne
  <1> DEFINE n == ClaimFence(e, d, i)
             t == [disp[d] EXCEPT !.pc = "publish", !.todo = disp[d].todo \ {e}, !.f = n]
  <1>1. /\ disp' = [disp EXCEPT ![d] = t] /\ UNCHANGED <<broker, run, overdue, faults>>
        /\ granted' = granted \cup {n}
    BY <1>0 DEF ClaimOne, Claim
  <1>2. n \in Fence /\ n \in granted'
    BY <1>1 DEF BoardInv, BoardTypeOK
  <1>3. disp[d] \in Sweep /\ faults \in 0..MaxFaults
    BY DEF RuntimeInv, TypeOK
  <1>4. n.owner = d /\ n.retry # 0 /\ n.exec = e /\ n.gen = execs[e].gen + 1
    BY DEF ClaimFence
  <1>5. n \notin granted
    <2>1. \A f \in granted : f.gen <= execs[f.exec].gen
      BY DEF RuntimeInv, BoardInv, FencingSound, FenceSound
    <2>2. execs[e].gen \in Nat
      BY DEF RuntimeInv, BoardInv, BoardTypeOK, Row
    <2> HIDE DEF n
    <2> QED
      BY <1>4, <2>1, <2>2
  <1> HIDE DEF n
  <1>6. /\ PublishMessage(d, n) \notin broker
        /\ \A h \in Handler : run[h].live => run[h].msg # PublishMessage(d, n)
    <2>1. fencedFrom(PublishMessage(d, n)) = n
      BY <1>2, <1>4, RoundTrip
    <2>2. ~Genuine(PublishMessage(d, n))
      BY <1>5, <2>1 DEF Genuine
    <2> QED
      BY <2>2 DEF RuntimeInv, RunSound
  <1>7. t \in Sweep /\ t.pc = "publish" /\ t.f = n
    BY <1>2, <1>3 DEF Sweep, SweepPC
  <1> HIDE DEF t
  <1> QED
    BY <1>1, <1>2, <1>3, <1>4, <1>6, <1>7, DispStep

\* The message enters the queue while nobody has it.
LEMMA PublishInv ==
    ASSUME RuntimeInv, BoardInv', OwnersGranted', granted \subseteq granted', NEW d \in Dispatcher,
           NEW ok \in BOOLEAN, NEW arrives \in BOOLEAN, Publish(d, ok, arrives)
    PROVE  RuntimeInv'
  <1> DEFINE n == disp[d].f
             p == PublishMessage(d, n)
  <1>1. /\ disp[d].pc = "publish"
        /\ disp' = [disp EXCEPT ![d].pc = "record", ![d].sent = ok]
        /\ broker' = IF arrives THEN broker \cup {p} ELSE broker
        /\ UNCHANGED <<run, overdue, faults>>
    BY DEF Publish
  <1>2. /\ n \in granted /\ n \in Fence /\ n.owner = d /\ n.retry # 0
        /\ \A h \in Handler : run[h].live => run[h].msg # p
    BY <1>1 DEF RuntimeInv, DispSound, BoardInv, BoardTypeOK
  <1>3. /\ disp' \in [Dispatcher -> Sweep] /\ disp'[d].pc = "record" /\ disp'[d].f = n
        /\ \A x \in Dispatcher \ {d} : disp'[x] = disp[x]
    <2> DEFINE t == [disp[d] EXCEPT !.pc = "record", !.sent = ok]
    <2>1. disp \in [Dispatcher -> Sweep] /\ disp[d] \in Sweep
      BY DEF RuntimeInv, TypeOK
    <2>2. t \in Sweep /\ t.pc = "record" /\ t.f = n
      BY <2>1 DEF Sweep, SweepPC
    <2>3. disp' = [disp EXCEPT ![d] = t]
      BY <1>1, <2>1
    <2> HIDE DEF t, n, p
    <2> QED
      BY <2>1, <2>2, <2>3
  <1> HIDE DEF n
  <1>4. p \in Message /\ p.owner = d /\ Genuine(p)
    <2>1. /\ PublishMessage(d, n) \in Message /\ PublishMessage(d, n).retry = n.retry
          /\ fencedFrom(PublishMessage(d, n)) = n
      BY <1>2, RoundTrip
    <2>2. PublishMessage(d, n).owner = d
      BY DEF PublishMessage
    <2> QED
      BY <1>2, <2>1, <2>2 DEF Genuine
  <1> HIDE DEF p
  <1>5. broker' \in SUBSET Message /\ \A m \in broker' : Genuine(m)'
    <2>1. broker \in SUBSET Message /\ \A m \in broker : Genuine(m)
      BY DEF RuntimeInv, TypeOK
    <2> QED
      BY <1>1, <1>4, <2>1 DEF Genuine
  <1>6. TypeOK'
    BY <1>1, <1>3, <1>5 DEF RuntimeInv, TypeOK, BoardInv, BoardTypeOK
  <1>7. \A x \in Dispatcher : DispSound(x)'
    <2> SUFFICES ASSUME NEW x \in Dispatcher PROVE DispSound(x)'
      OBVIOUS
    <2>1. CASE x = d
      BY <1>2, <1>3, <2>1 DEF DispSound
    <2>2. CASE x # d
      <3>1. DispSound(x) /\ disp'[x] = disp[x]
        BY <1>3, <2>2 DEF RuntimeInv
      <3>2. PublishMessage(x, disp[x].f) # p
        <4>1. PublishMessage(x, disp[x].f).owner = x
          BY DEF PublishMessage
        <4> QED
          BY <1>4, <2>2, <4>1
      <3>3. disp[x].pc = "publish" => PublishMessage(x, disp[x].f) \notin broker'
        BY <1>1, <3>1, <3>2 DEF DispSound
      <3> QED
        BY <1>1, <3>1, <3>3 DEF DispSound
    <2> QED
      BY <2>1, <2>2
  <1>8. \A h \in Handler : RunSound(h)'
    <2> SUFFICES ASSUME NEW h \in Handler PROVE RunSound(h)'
      OBVIOUS
    <2>1. RunSound(h) /\ (run[h].live => run[h].msg \notin broker')
      BY <1>1, <1>2 DEF RuntimeInv, RunSound
    <2> QED
      BY <1>1, <2>1 DEF RunSound, Genuine
  <1> QED
    BY <1>5, <1>6, <1>7, <1>8 DEF RuntimeInv

-----------------------------------------------------------------------------
(* The handlers.                                                           *)

\* A handler without a delivery.
LEMMA IdleFacts ==
    Idle \in Run /\ Idle.pc = "idle" /\ ~Idle.live /\ Idle.hb = "off" /\ Idle.result = "none"
  BY DEF Idle, Run, RunPC, Results

\* A run that is over keeps its message until it is acknowledged.
LEMMA EndedFacts ==
    ASSUME NEW r \in Run, NEW pc \in {"ack", "nack"}
    PROVE  /\ Ended(r, pc) \in Run /\ Ended(r, pc).pc = pc
           /\ Ended(r, pc).msg = r.msg /\ Ended(r, pc).live = r.live
  BY DEF Ended, Run, RunPC, Results

\* A run goes on with the delivery it has.
LEMMA RunMoves ==
    ASSUME RuntimeInv, BoardInv', OwnersGranted', granted \subseteq granted', NEW h \in Handler,
           NEW k \in Run, run' = [run EXCEPT ![h] = k], run[h].pc # "idle",
           k.msg = run[h].msg, k.live = run[h].live, k.pc # "idle",
           UNCHANGED <<disp, broker, overdue>>, faults' \in 0..MaxFaults,
           k.pc = "returned" => k.result # "none",
           k.pc \in {"persist", "decide"} => k.result \in Causes
    PROVE  RuntimeInv'
  BY HandlerStep DEF Keeps

\* A run that ends, with or without an error.
LEMMA RunEnds ==
    ASSUME RuntimeInv, BoardInv', OwnersGranted', granted \subseteq granted', NEW h \in Handler,
           \/ StoreFails(h) \/ CompleteRun(h) \/ DecideFailure(h) \/ WriteStale(h)
    PROVE  RuntimeInv'
  <1>1. run \in [Handler -> Run] /\ run[h] \in Run /\ faults \in 0..MaxFaults
    BY DEF RuntimeInv, TypeOK
  <1>2. PICK pc \in {"ack", "nack"} : run' = [run EXCEPT ![h] = Ended(run[h], pc)]
    BY <1>1 DEF StoreFails, CompleteRun, DecideFailure, WriteStale
  <1>3. /\ run[h].pc # "idle" /\ UNCHANGED <<disp, broker, overdue>>
        /\ faults' \in 0..MaxFaults
    BY <1>1, RuntimeAssumption DEF StoreFails, CompleteRun, DecideFailure, WriteStale, Fault
  <1> QED
    BY <1>1, <1>2, <1>3, EndedFacts, RunMoves

\* The heartbeat and the deadline change neither result nor delivery.
LEMMA RunDisturbed ==
    ASSUME RuntimeInv, BoardInv', OwnersGranted', granted \subseteq granted', NEW h \in Handler,
           \/ HeartbeatRenews(h) \/ HeartbeatLost(h) \/ HeartbeatFails(h)
           \/ HeartbeatCut(h) \/ DeadlineHits(h)
    PROVE  RuntimeInv'
  <1>1. run \in [Handler -> Run] /\ run[h] \in Run /\ faults \in 0..MaxFaults /\ RunSound(h)
    BY DEF RuntimeInv, TypeOK
  <1>2. PICK hb \in {"waiting", "off"}, ctx \in {"live", "canceled", "deadline"} :
            \/ run' = [run EXCEPT ![h].hb = hb]
            \/ run' = [run EXCEPT ![h].ctx = ctx]
            \/ run' = [run EXCEPT ![h].hb = hb, ![h].ctx = ctx]
    <2>1. CASE HeartbeatRenews(h)
      <3>1. (IF run[h].pc = "calling" THEN "waiting" ELSE "off") \in {"waiting", "off"}
        OBVIOUS
      <3> QED
        BY <2>1, <3>1 DEF HeartbeatRenews
    <2>2. CASE DeadlineHits(h)
      BY <2>2 DEF DeadlineHits
    <2>3. CASE HeartbeatLost(h) \/ HeartbeatFails(h) \/ HeartbeatCut(h)
      <3>1. CancelRun(run[h].ctx) \in {"live", "canceled", "deadline"}
        BY <1>1 DEF CancelRun, Run
      <3>2. run' = [run EXCEPT ![h].hb = "off", ![h].ctx = CancelRun(run[h].ctx)]
        BY <1>1, <2>3 DEF HeartbeatLost, HeartbeatFails, HeartbeatCut
      <3> QED
        BY <3>1, <3>2
    <2> QED
      BY <2>1, <2>2, <2>3
  <1>3. /\ run[h].pc # "idle" /\ UNCHANGED <<disp, broker, overdue>>
        /\ faults' \in 0..MaxFaults
    BY <1>1, RuntimeAssumption
       DEF HeartbeatRenews, HeartbeatLost, HeartbeatFails, HeartbeatCut, DeadlineHits,
           Beating, RunSound, Fault
  <1>4. PICK k \in Run : /\ run' = [run EXCEPT ![h] = k] /\ k.msg = run[h].msg
                         /\ k.live = run[h].live /\ k.pc = run[h].pc
                         /\ k.result = run[h].result
    <2>1. CASE run' = [run EXCEPT ![h].hb = hb]
      <3>1. [run[h] EXCEPT !.hb = hb] \in Run
        BY <1>1 DEF Run
      <3>2. run' = [run EXCEPT ![h] = [run[h] EXCEPT !.hb = hb]]
        BY <1>1, <2>1
      <3> QED
        BY <1>1, <3>1, <3>2 DEF Run
    <2>2. CASE run' = [run EXCEPT ![h].ctx = ctx]
      <3>1. [run[h] EXCEPT !.ctx = ctx] \in Run
        BY <1>1 DEF Run
      <3>2. run' = [run EXCEPT ![h] = [run[h] EXCEPT !.ctx = ctx]]
        BY <1>1, <2>2
      <3> QED
        BY <1>1, <3>1, <3>2 DEF Run
    <2>3. CASE run' = [run EXCEPT ![h].hb = hb, ![h].ctx = ctx]
      <3>1. [run[h] EXCEPT !.hb = hb, !.ctx = ctx] \in Run
        BY <1>1 DEF Run
      <3>2. run' = [run EXCEPT ![h] = [run[h] EXCEPT !.hb = hb, !.ctx = ctx]]
        BY <1>1, <2>3
      <3> QED
        BY <1>1, <3>1, <3>2 DEF Run
    <2> QED
      BY <1>2, <2>1, <2>2, <2>3
  <1> QED
    BY <1>1, <1>3, <1>4, RunMoves DEF RunSound

\* The provider answers, perhaps while a heartbeat is in flight.
LEMMA ProviderReturnsInv ==
    ASSUME RuntimeInv, BoardInv', OwnersGranted', granted \subseteq granted', NEW h \in Handler,
           NEW r \in Results, NEW during \in BOOLEAN, ProviderReturns(h, r, during)
    PROVE  RuntimeInv'
  <1> DEFINE hb == IF during /\ run[h].hb = "waiting" THEN "inflight" ELSE "off"
             k == [run[h] EXCEPT !.pc = "returned", !.result = r, !.hb = hb]
  <1>1. run[h] \in Run /\ faults \in 0..MaxFaults
    BY DEF RuntimeInv, TypeOK
  <1>2. /\ run[h].pc = "calling" /\ run' = [run EXCEPT ![h] = k]
        /\ r \in {"ok", "deadline_exceeded"} \cup ProviderErrors
        /\ UNCHANGED <<disp, broker, overdue, faults>>
    BY DEF ProviderReturns
  <1>3. /\ k \in Run /\ k.pc = "returned" /\ k.result = r /\ k.msg = run[h].msg
        /\ k.live = run[h].live
    BY <1>1 DEF Run, RunPC
  <1>4. r # "none"
    BY <1>2, ResultFacts
  <1> HIDE DEF k
  <1> QED
    BY <1>1, <1>2, <1>3, <1>4, RunMoves

\* After the call the worker asks whether the lease is still its own.
LEMMA CheckOwnershipInv ==
    ASSUME RuntimeInv, BoardInv', OwnersGranted', granted \subseteq granted', NEW h \in Handler,
           CheckOwnership(h)
    PROVE  RuntimeInv'
  <1> DEFINE pc == IF run[h].result = "ok" THEN "complete" ELSE "persist"
             k == [run[h] EXCEPT !.ctx = "live", !.hb = "off", !.pc = pc]
  <1>1. run \in [Handler -> Run] /\ run[h] \in Run /\ faults \in 0..MaxFaults
    BY DEF RuntimeInv, TypeOK
  <1>2. /\ run[h].pc = "returned" /\ UNCHANGED <<disp, broker, overdue, faults>>
        /\ run' = [run EXCEPT ![h] = IF run[h].ctx = "canceled" THEN Ended(run[h], "ack") ELSE k]
    BY <1>1 DEF CheckOwnership
  <1>3. run[h].result # "none" /\ run[h].result \in Results
    BY <1>1, <1>2 DEF RuntimeInv, RunSound, Run
  <1>4. pc \in RunPC /\ pc \in {"complete", "persist"} /\ (pc = "persist" => run[h].result \in Causes)
    BY <1>3, ResultFacts DEF RunPC, Results
  <1> HIDE DEF pc
  <1>5. /\ k \in Run /\ k.pc = pc /\ k.result = run[h].result /\ k.msg = run[h].msg
        /\ k.live = run[h].live
    BY <1>1, <1>4 DEF Run
  <1> HIDE DEF k
  <1>6. CASE run[h].ctx = "canceled"
    BY <1>1, <1>2, <1>6, EndedFacts, RunMoves
  <1>7. CASE run[h].ctx # "canceled"
    BY <1>1, <1>2, <1>4, <1>5, <1>7, RunMoves
  <1> QED
    BY <1>6, <1>7

\* The classified error is written before the decision on it.
LEMMA PersistFailureInv ==
    ASSUME RuntimeInv, BoardInv', OwnersGranted', granted \subseteq granted', NEW h \in Handler,
           PersistFailure(h)
    PROVE  RuntimeInv'
  <1> DEFINE k == [run[h] EXCEPT !.pc = "decide"]
  <1>1. run \in [Handler -> Run] /\ run[h] \in Run /\ faults \in 0..MaxFaults
    BY DEF RuntimeInv, TypeOK
  <1>2. /\ run[h].pc = "persist" /\ run' = [run EXCEPT ![h] = k]
        /\ UNCHANGED <<disp, broker, overdue, faults>>
    BY <1>1 DEF PersistFailure
  <1>3. run[h].result \in Causes
    BY <1>2 DEF RuntimeInv, RunSound
  <1>4. /\ k \in Run /\ k.pc = "decide" /\ k.result = run[h].result /\ k.msg = run[h].msg
        /\ k.live = run[h].live
    BY <1>1 DEF Run, RunPC
  <1> HIDE DEF k
  <1> QED
    BY <1>1, <1>2, <1>3, <1>4, RunMoves

\* A message leaves the queue and becomes its only delivery.
LEMMA DeliverInv ==
    ASSUME RuntimeInv, BoardInv', OwnersGranted', granted \subseteq granted', NEW h \in Handler,
           NEW m \in broker, Deliver(h, m)
    PROVE  RuntimeInv'
  <1> DEFINE k == Started(m)
  <1>1. m \in Message /\ faults \in 0..MaxFaults /\ RunSound(h)
    BY DEF RuntimeInv, TypeOK
  <1>2. /\ run[h].pc = "idle" /\ run' = [run EXCEPT ![h] = k] /\ broker' = broker \ {m}
        /\ UNCHANGED <<disp, overdue, faults>>
    BY DEF Deliver
  <1>4. k \in Run /\ k.pc = "calling" /\ k.msg = m /\ k.live = TRUE
    <2> DEFINE ctx == IF overdue[m.exec] >= m.gen THEN "deadline" ELSE "live"
    <2>1. ctx \in {"live", "canceled", "deadline"}
      OBVIOUS
    <2>2. k = [Idle EXCEPT !.pc = "calling", !.msg = m, !.live = TRUE,
                           !.hb = "waiting", !.ctx = ctx]
      BY DEF Started
    <2> HIDE DEF ctx, k
    <2> QED
      BY <1>1, <2>1, <2>2 DEF Idle, Run, RunPC, Results
  <1> HIDE DEF k
  <1>5. Takes(h, k)
    BY <1>1, <1>2, <1>4 DEF Takes, RunSound
  <1> QED
    BY <1>1, <1>2, <1>4, <1>5, HandlerStep

\* Settling, crashing and losing the connection give up the delivery.
LEMMA LetGoInv ==
    ASSUME RuntimeInv, BoardInv', OwnersGranted', granted \subseteq granted', NEW h \in Handler,
           Settle(h) \/ WorkerCrashes(h) \/ ConnectionLost(h)
    PROVE  RuntimeInv'
  <1>1. run \in [Handler -> Run] /\ run[h] \in Run /\ faults \in 0..MaxFaults /\ RunSound(h)
    BY DEF RuntimeInv, TypeOK
  <1>2. faults' \in 0..MaxFaults /\ UNCHANGED <<disp, overdue>> /\ run[h].pc # "idle"
    BY <1>1, RuntimeAssumption DEF Settle, WorkerCrashes, ConnectionLost, Fault
  <1>3. broker' = broker \/ (run[h].live /\ broker' = broker \cup {run[h].msg})
    BY DEF Settle, WorkerCrashes, ConnectionLost, Requeued
  <1>4. CASE Settle(h) \/ WorkerCrashes(h)
    <2>1. run' = [run EXCEPT ![h] = Idle]
      BY <1>4 DEF Settle, WorkerCrashes
    <2>2. LetsGo(h, Idle)
      BY <1>3, IdleFacts DEF LetsGo
    <2> QED
      BY <1>2, <2>1, <2>2, IdleFacts, HandlerStep
  <1>5. CASE ConnectionLost(h)
    <2> DEFINE k == [run[h] EXCEPT !.live = FALSE]
    <2>1. run' = [run EXCEPT ![h] = k]
      BY <1>1, <1>5 DEF ConnectionLost
    <2>2. /\ k \in Run /\ k.pc = run[h].pc /\ k.msg = run[h].msg /\ k.live = FALSE
          /\ k.result = run[h].result
      BY <1>1 DEF Run
    <2> HIDE DEF k
    <2>3. LetsGo(h, k)
      BY <1>3, <2>2 DEF LetsGo
    <2> QED
      BY <1>1, <1>2, <2>1, <2>2, <2>3, HandlerStep DEF RunSound
  <1> QED
    BY <1>4, <1>5

-----------------------------------------------------------------------------
(* The invariant holds.                                                    *)

\* At the start the queue is empty and nobody holds a fence.
LEMMA RuntimeInit == Init => RuntimeInv
  <1> SUFFICES ASSUME Init PROVE RuntimeInv
    OBVIOUS
  <1>1. BoardInv
    BY InvInit DEF Init
  <1>2. TypeOK
    BY <1>1, NewSweepFacts, IdleFacts, RuntimeAssumption DEF Init, TypeOK, BoardInv
  <1>3. \A d \in Dispatcher : DispSound(d)
    BY NewSweepFacts DEF Init, DispSound
  <1>4. \A h \in Handler : RunSound(h)
    BY IdleFacts DEF Init, RunSound
  <1>5. OwnersGranted
    BY DEF Init, BoardInit, OwnersGranted
  <1> QED
    BY <1>1, <1>2, <1>3, <1>4, <1>5 DEF Init, RuntimeInv

\* Every step of the runtime keeps the invariant.
LEMMA RuntimeStep == RuntimeInv /\ [Next]_vars => RuntimeInv'
  <1> SUFFICES ASSUME RuntimeInv, [Next]_vars PROVE RuntimeInv'
    OBVIOUS
  <1>1. BoardInv' /\ OwnersGranted' /\ granted \subseteq granted'
    <2>1. [BoardNext]_boardVars
      BY BoardStep
    <2> QED
      BY <2>1, InvStep, OwnersStep, GrantsStay DEF RuntimeInv
  <1>2. overdue \in [Execution -> Nat] /\ faults \in 0..MaxFaults
    BY DEF RuntimeInv, TypeOK
  <1>3. ASSUME NEW e \in Execution, Admit(e) \/ CancelExecution(e) \/ TimeStep(e)
        PROVE  RuntimeInv'
    <2>1. /\ UNCHANGED <<disp, broker, run>>
          /\ overdue' = overdue \/ overdue' = [overdue EXCEPT ![e] = execs[e].gen]
          /\ UNCHANGED faults \/ Fault
      BY <1>3 DEF Admit, CancelExecution, TimeStep, LeaseRunsOut, LeaseLapses, BackoffOver,
                  NoFault, runtimeVars
    <2>2. execs[e].gen \in Nat
      BY DEF RuntimeInv, BoardInv, BoardTypeOK, Row
    <2>3. overdue' \in [Execution -> Nat] /\ faults' \in 0..MaxFaults
      BY <1>2, <2>1, <2>2, RuntimeAssumption DEF Fault
    <2> QED
      BY <1>1, <2>1, <2>3, OutsideStep
  <1>4. ASSUME NEW d \in Dispatcher, SweepStep(d) \/ AbortSweep(d) PROVE RuntimeInv'
    BY <1>1, <1>4, SweepQuiet, RecoverOneInv, ClaimOneInv, PublishInv DEF SweepStep
  <1>5. ASSUME NEW h \in Handler, NEW m \in broker, MaterializeFails(h, m) PROVE RuntimeInv'
    <2>1. UNCHANGED <<disp, broker, run, overdue>> /\ faults' \in 0..MaxFaults
      BY <1>2, <1>5, RuntimeAssumption DEF MaterializeFails, Fault, NoFault
    <2> QED
      BY <1>1, <1>2, <2>1, OutsideStep
  <1>6. ASSUME NEW h \in Handler, RunStep(h) \/ RunEvent(h) \/ RunFault(h) PROVE RuntimeInv'
    BY <1>1, <1>5, <1>6, RunEnds, RunDisturbed, ProviderReturnsInv, CheckOwnershipInv,
       PersistFailureInv, DeliverInv, LetGoInv DEF RunStep, RunEvent, RunFault
  <1>7. CASE UNCHANGED vars
    BY <1>1, <1>2, <1>7, OutsideStep DEF vars, runtimeVars
  <1> QED
    BY <1>3, <1>4, <1>6, <1>7 DEF Next

-----------------------------------------------------------------------------
(* The theorems.                                                           *)

\* The invariant, on which the others rest.
THEOREM RuntimeInvariant == Spec => []RuntimeInv
  BY RuntimeInit, RuntimeStep, PTL DEF Spec

\* What a worker rebuilds from a queued or a running message is a fence that a
\* claim granted, in every field, and it holds the row for as long as the row
\* is under its generation (Dispatcher.dispatchDue, PublishMessage, fencedFrom).
THEOREM CarriedFencesGranted == Spec => []FencesGranted
  <1>1. RuntimeInv => FencesGranted
    <2> SUFFICES ASSUME RuntimeInv PROVE FencesGranted
      OBVIOUS
    <2>1. ASSUME NEW m \in InTransit PROVE CarriesLease(m)
      <3>1. m \in Message /\ Genuine(m)
        BY DEF RuntimeInv, TypeOK, RunSound, InTransit
      <3>2. fencedFrom(m) \in granted
        BY <3>1 DEF Genuine
      <3>3. fencedFrom(m).exec = m.exec /\ fencedFrom(m).gen = m.gen
        BY DEF fencedFrom
      <3>4. CurrentLease(m) => Held(fencedFrom(m))
        BY <3>2, <3>3 DEF RuntimeInv, OwnersGranted, CurrentLease, Held
      <3> QED
        BY <3>2, <3>4 DEF CarriesLease
    <2> QED
      BY <2>1 DEF RuntimeInv, DispSound, FencesGranted
  <1> QED
    BY <1>1, RuntimeInvariant, PTL

\* A dispatch is in one place: queued, or open in one handler.
THEOREM DeliveryIsSingle == Spec => []SingleDelivery
  <1>1. RuntimeInv => SingleDelivery
    BY DEF RuntimeInv, RunSound, Genuine, SingleDelivery
  <1> QED
    BY <1>1, RuntimeInvariant, PTL

\* The real clients implement the open board: Init to BoardInit, every step to
\* a step of BoardNext or to none.
THEOREM RuntimeImplementsBoard == Spec => ImplementsBoard
  <1>1. Init => BoardInit
    BY DEF Init
  <1> QED
    BY <1>1, BoardStep, RuntimeInvariant, PTL DEF Spec, ImplementsBoard, BoardSpec

\* What ExecutionBoardProofs shows of the open board holds of the runtime: its
\* ledger mirrors the executions, no attempt is started beyond the budget, a
\* fence that matches is the running attempt's, dead letters are exact, capacity
\* is respected, and nothing of an execution that is over changes, whatever
\* dispatchers, handlers and queue do.
THEOREM RuntimeKeepsBoard ==
    Spec => /\ [](RetryLedger /\ AttemptBudget /\ FencingSound /\ DeadLetterExact)
            /\ []CapacityRespected
            /\ TerminalIsFinal /\ LeaseHandover /\ ImplementsLifecycle
  <1>1. Spec => BoardSpec
    BY RuntimeImplementsBoard DEF ImplementsBoard
  <1> QED
    BY <1>1, LedgerMirrors, BudgetKept, FencingHolds, DeadLettersExact, CapacityKept,
       TerminalStays, HandoverFenced, BoardImplementsLifecycle, PTL
=============================================================================
