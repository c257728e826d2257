-------------------------- MODULE ExecutionRuntime --------------------------
(***************************************************************************)
(* The execution runtime: dispatchers (internal/execution/dispatcher.go),  *)
(* the dispatch queue (infrastructure/rabbitmq), the message handlers of   *)
(* the worker process (internal/worker, cmd/worker/handler.go) running     *)
(* Worker.Run (internal/execution/worker.go), and the API's admission and  *)
(* cancellation, over the board of ExecutionBoard.                         *)
(*                                                                         *)
(* Processes, the database and the broker are separate: a sweep or a       *)
(* handler may stop between any two of its calls, a call may fail, a       *)
(* delivery may be repeated while its first handler is still running.      *)
(* Each such fault costs one of MaxFaults.                                 *)
(***************************************************************************)
EXTENDS ExecutionBoard

CONSTANTS
    Handler,          \* goroutines of the worker that run a delivery
    ProviderErrors,   \* what a provider call that fails in time is classified as
    WorkerId,         \* execution.NewWorkerID of the worker process
    MaxFaults,        \* bound: crashes, failed calls, lost connections
    NoFence,
    NoMessage

ASSUME RuntimeAssumption ==
    /\ ProviderErrors \cup {"deadline_exceeded", "worker_lease_expired"}
          \subseteq Causes
    /\ MaxFaults \in Nat
    /\ NoFence \notin Fence
    /\ WorkerId \notin Dispatcher

VARIABLES
    disp,      \* per dispatcher: where its Sweep is
    broker,    \* the messages waiting in austro.executions
    run,       \* per handler: where its Worker.Run is
    overdue,   \* per execution: the newest generation whose original lease ran out
    faults     \* faults so far

runtimeVars == <<disp, broker, run, overdue, faults>>
vars == <<boardVars, runtimeVars>>

-----------------------------------------------------------------------------
SweepPC == {"recover", "reclaim", "resolve", "due", "claim", "publish", "record"}
RunPC == {"idle", "calling", "returned", "persist", "decide", "complete",
          "ack", "nack"}
Results == {"none", "ok", "deadline_exceeded"} \cup ProviderErrors

\* PublishMessage, as it is serialised into the envelope's Details: field by
\* field, not a FencedExecution.  NoOwner is the empty LeaseOwner.  MaxAttempts
\* and the employee are columns that never change, and the expiry is the time
\* at which overdue reaches the message's generation.
Message == [exec: Execution, attempt: Nat, retry: Nat, gen: Nat,
            owner: Dispatcher \cup {NoOwner}]

Sweep == [pc: SweepPC, todo: SUBSET Execution, reclaimed: BOOLEAN,
          f: Fence \cup {NoFence}, code: Causes \cup {NoCode}, sent: BOOLEAN]

\* live: the delivery is still on an open channel, so it can be settled.
\* ctx: runCtx.Err() is nil, Canceled or DeadlineExceeded.
\* hb: the heartbeat goroutine waits for its tick, was inside the store call
\* when the provider returned, or has ended.
Run == [pc: RunPC, msg: Message \cup {NoMessage}, live: BOOLEAN,
        ctx: {"live", "canceled", "deadline"},
        hb: {"waiting", "inflight", "off"}, result: Results]

NewSweep == [pc |-> "recover", todo |-> {}, reclaimed |-> FALSE, f |-> NoFence,
             code |-> NoCode, sent |-> FALSE]
Idle == [pc |-> "idle", msg |-> NoMessage, live |-> FALSE, ctx |-> "live",
         hb |-> "off", result |-> "none"]

Init ==
    /\ BoardInit
    /\ disp = [d \in Dispatcher |-> NewSweep]
    /\ broker = {}
    /\ run = [h \in Handler |-> Idle]
    /\ overdue = [e \in Execution |-> 0]
    /\ faults = 0

Fault == faults < MaxFaults /\ faults' = faults + 1
NoFault == UNCHANGED faults

-----------------------------------------------------------------------------
(* The API.                                                                *)

Admit(e) == AdmissionAdmit(e) /\ UNCHANGED runtimeVars
CancelExecution(e) == Cancel(e) /\ UNCHANGED runtimeVars

-----------------------------------------------------------------------------
(* Dispatcher.Sweep.                                                       *)

\* Mutant: expired leases are never listed.
ListNothingStale(d) ==
    /\ disp[d].pc = "recover"
    /\ disp' = [disp EXCEPT ![d].pc = "due"]
    /\ UNCHANGED <<boardVars, broker, run, overdue, faults>>

\* GetStale; an empty list ends the recovery pass.
ListStale(d) ==
    LET stale == {e \in Execution : Stale(e)} IN
    /\ disp[d].pc = "recover"
    /\ disp' = [disp EXCEPT ![d].pc = IF stale = {} THEN "due" ELSE "reclaim",
                            ![d].todo = stale, ![d].reclaimed = FALSE]
    /\ UNCHANGED <<boardVars, broker, run, overdue, faults>>

RecoverOne(d, e) ==
    /\ disp[d].pc = "reclaim" /\ e \in disp[d].todo
    /\ ReclaimStale(e, d)
    /\ disp' = [disp EXCEPT ![d] = [disp[d] EXCEPT !.pc = "resolve",
                    !.todo = disp[d].todo \ {e},
                    !.reclaimed = TRUE, !.code = execs[e].code,
                    !.f = ReclaimFence(e, d)]]
    /\ UNCHANGED <<broker, run, overdue, faults>>

\* ErrNotFound: renewed or taken by somebody else since it was listed.
SkipStale(d, e) ==
    /\ disp[d].pc = "reclaim" /\ e \in disp[d].todo
    /\ ~Stale(e)
    /\ disp' = [disp EXCEPT ![d].todo = @ \ {e}]
    /\ UNCHANGED <<boardVars, broker, run, overdue, faults>>

\* List again while something was reclaimed; otherwise go on to dispatchDue.
EndRecoveryPass(d) ==
    /\ disp[d].pc = "reclaim" /\ disp[d].todo = {}
    /\ disp' = [disp EXCEPT ![d].pc = IF disp[d].reclaimed THEN "recover" ELSE "due"]
    /\ UNCHANGED <<boardVars, broker, run, overdue, faults>>

\* A missing classification means the worker died: worker_lease_expired.
RecoveredCode(code) == IF code = NoCode THEN "worker_lease_expired" ELSE code

\* Mutant: a recovered execution is always rescheduled.
ResolveAlwaysRetries(d) ==
    /\ disp[d].pc = "resolve"
    /\ Reschedule(disp[d].f, disp[d].f.attempt + 1)
    /\ disp' = [disp EXCEPT ![d] = [@ EXCEPT !.pc = "reclaim", !.f = NoFence,
                                             !.code = NoCode]]
    /\ UNCHANGED <<broker, run, overdue, faults>>

ResolveRecovered(d) ==
    LET f == disp[d].f
        c == RecoveredCode(disp[d].code)
    IN  /\ disp[d].pc = "resolve"
        /\ IF ~Retryable(c) \/ f.attempt >= MaxAttempts[f.exec]
           THEN FailAndDLQ(f, c)
           ELSE Reschedule(f, f.attempt + 1)
        /\ disp' = [disp EXCEPT ![d] = [@ EXCEPT !.pc = "reclaim", !.f = NoFence,
                                                 !.code = NoCode]]
        /\ UNCHANGED <<broker, run, overdue, faults>>

\* ErrStaleLease ends the sweep.
ResolveStale(d) ==
    /\ disp[d].pc = "resolve" /\ ~Held(disp[d].f)
    /\ disp' = [disp EXCEPT ![d] = NewSweep]
    /\ UNCHANGED <<boardVars, broker, run, overdue, faults>>

ListDue(d) ==
    LET due == {e \in Execution : Due(e)} IN
    /\ disp[d].pc = "due"
    /\ disp' = [disp EXCEPT ![d] = IF due = {} THEN NewSweep
                                   ELSE [NewSweep EXCEPT !.pc = "claim", !.todo = due]]
    /\ UNCHANGED <<boardVars, broker, run, overdue, faults>>

ClaimOne(d, e) ==
    /\ disp[d].pc = "claim" /\ e \in disp[d].todo
    /\ \E i \in 1..Len(retries[e]) :
        /\ Claim(e, d, i)
        /\ disp' = [disp EXCEPT ![d] = [disp[d] EXCEPT !.pc = "publish",
                        !.todo = disp[d].todo \ {e},
                        !.f = ClaimFence(e, d, i)]]
    /\ UNCHANGED <<broker, run, overdue, faults>>

SkipDue(d, e) ==
    /\ disp[d].pc = "claim" /\ e \in disp[d].todo
    /\ ~Due(e)
    /\ disp' = [disp EXCEPT ![d].todo = @ \ {e}]
    /\ UNCHANGED <<boardVars, broker, run, overdue, faults>>

\* Mutant: the message is built without the LeaseOwner.
OwnerlessMessage(d, f) ==
    [exec |-> f.exec, attempt |-> f.attempt, retry |-> f.retry, gen |-> f.gen,
     owner |-> NoOwner]

\* What dispatcher d publishes of a claim: the owner is its own worker id, the
\* rest are fields of the fence.
PublishMessage(d, f) ==
    [exec |-> f.exec, attempt |-> f.attempt, retry |-> f.retry, gen |-> f.gen,
     owner |-> d]

\* The sink publishes without confirms: the queue may get the message although
\* Publish failed, and may miss it although Publish succeeded.
Publish(d, ok, arrives) ==
    /\ disp[d].pc = "publish"
    /\ disp' = [disp EXCEPT ![d].pc = "record", ![d].sent = ok]
    /\ broker' = IF arrives THEN broker \cup {PublishMessage(d, disp[d].f)}
               ELSE broker
    /\ UNCHANGED <<boardVars, run, overdue, faults>>

Record(d) ==
    /\ disp[d].pc = "record"
    /\ RecordDispatch(disp[d].f, disp[d].sent)
    /\ disp' = [disp EXCEPT ![d] = [@ EXCEPT !.pc = "claim", !.f = NoFence,
                                             !.sent = FALSE]]
    /\ UNCHANGED <<broker, run, overdue, faults>>

EndDispatchPass(d) ==
    /\ disp[d].pc = "claim" /\ disp[d].todo = {}
    /\ disp' = [disp EXCEPT ![d] = NewSweep]
    /\ UNCHANGED <<boardVars, broker, run, overdue, faults>>

\* A store call fails, or the process dies and comes back: the rest of the
\* sweep is lost and the next tick starts a new one.
AbortSweep(d) ==
    /\ disp[d] # NewSweep /\ Fault
    /\ disp' = [disp EXCEPT ![d] = NewSweep]
    /\ UNCHANGED <<boardVars, broker, run, overdue>>

SweepStep(d) ==
    \/ ListStale(d) \/ EndRecoveryPass(d) \/ ResolveRecovered(d) \/ ResolveStale(d)
    \/ ListDue(d) \/ EndDispatchPass(d) \/ Record(d)
    \/ \E ok, arrives \in BOOLEAN : Publish(d, ok, arrives)
    \/ \E e \in Execution : \/ RecoverOne(d, e) \/ SkipStale(d, e)
                            \/ ClaimOne(d, e) \/ SkipDue(d, e)

-----------------------------------------------------------------------------
(* A delivery: worker.processMessage, newExecutionHandler and Worker.Run.  *)

\* The fence the worker rebuilds from a message.  A message without an owner
\* falls back to the worker's own id.
fencedFrom(msg) ==
    [exec |-> msg.exec, gen |-> msg.gen, attempt |-> msg.attempt, retry |-> msg.retry,
     owner |-> IF msg.owner = NoOwner THEN WorkerId ELSE msg.owner]

FenceOf(h) == fencedFrom(run[h].msg)

\* The deadline of the call is the message's LeaseExpiresAt at the latest.
Started(m) ==
    [Idle EXCEPT !.pc = "calling", !.msg = m, !.live = TRUE, !.hb = "waiting",
                 !.ctx = IF overdue[m.exec] >= m.gen THEN "deadline" ELSE "live"]

\* Mutant: the delivery stays in the queue (auto-ack off, never taken out).
DeliverKeepsCopy(h, m) ==
    /\ run[h].pc = "idle" /\ m \in broker /\ m.exec \in Contextual
    /\ run' = [run EXCEPT ![h] = Started(m)]
    /\ UNCHANGED <<boardVars, disp, broker, overdue, faults>>

\* Materialize reads the context snapshot, which never changes.  The refusal of
\* a nil retry id has no case here: SingleDelivery shows that none is queued.
Deliver(h, m) ==
    /\ run[h].pc = "idle" /\ m \in broker /\ m.exec \in Contextual
    /\ broker' = broker \ {m}
    /\ run' = [run EXCEPT ![h] = Started(m)]
    /\ UNCHANGED <<boardVars, disp, overdue, faults>>

\* Materialize fails: the delivery goes straight back to the queue.  Without a
\* snapshot it fails every time, with ErrNotFound.
MaterializeFails(h, m) ==
    /\ run[h].pc = "idle" /\ m \in broker
    /\ IF m.exec \in Contextual THEN Fault ELSE NoFault
    /\ UNCHANGED <<boardVars, disp, broker, run, overdue>>

\* Where the run ends: what it learned on the way no longer matters.
Ended(r, pc) == [r EXCEPT !.pc = pc, !.ctx = "live", !.hb = "off",
                          !.result = "none"]

\* A fenced write of the handler fails: the error is returned and requeues.
StoreFails(h) ==
    /\ run[h].pc \in {"persist", "decide", "complete"} /\ Fault
    /\ run' = [run EXCEPT ![h] = Ended(@, "nack")]
    /\ UNCHANGED <<boardVars, disp, broker, overdue>>

CancelRun(ctx) == IF ctx = "live" THEN "canceled" ELSE ctx

\* The goroutine's store call, atomic at the row: hb is "waiting" while the
\* goroutine lives, and "inflight" when the provider returned during the call.
Beating(h) == run[h].hb \in {"waiting", "inflight"}

HeartbeatRenews(h) ==
    /\ Beating(h)
    /\ Heartbeat(FenceOf(h))
    /\ run' = [run EXCEPT ![h].hb = IF run[h].pc = "calling" THEN "waiting" ELSE "off"]
    /\ UNCHANGED <<disp, broker, overdue, faults>>

\* ErrStaleLease: the goroutine cancels the run and returns.
HeartbeatLost(h) ==
    /\ Beating(h) /\ ~Held(FenceOf(h))
    /\ run' = [run EXCEPT ![h].hb = "off", ![h].ctx = CancelRun(@)]
    /\ UNCHANGED <<boardVars, disp, broker, overdue, faults>>

HeartbeatFails(h) ==
    /\ Beating(h) /\ Fault
    /\ run' = [run EXCEPT ![h].hb = "off", ![h].ctx = CancelRun(@)]
    /\ UNCHANGED <<boardVars, disp, broker, overdue>>

\* stopHeartbeat cancels the store call in flight; its error cancels the run
\* like any other, whether or not the renewal was committed.
HeartbeatCut(h) ==
    /\ run[h].hb = "inflight"
    /\ run' = [run EXCEPT ![h].hb = "off", ![h].ctx = CancelRun(@)]
    /\ Heartbeat(FenceOf(h)) \/ UNCHANGED boardVars
    /\ UNCHANGED <<disp, broker, overdue, faults>>

\* The execution window or the lease deadline ends the call.
DeadlineHits(h) ==
    /\ run[h].pc = "calling" /\ run[h].ctx = "live"
    /\ run' = [run EXCEPT ![h].ctx = "deadline"]
    /\ UNCHANGED <<boardVars, disp, broker, overdue, faults>>

\* Provider.Complete returns (external), perhaps during a heartbeat; then
\* stopHeartbeat().
ProviderReturns(h, r, during) ==
    /\ run[h].pc = "calling"
    /\ r \in {"ok"} \cup IF run[h].ctx = "deadline" THEN {"deadline_exceeded"}
                         ELSE ProviderErrors
    /\ run' = [run EXCEPT ![h] = [run[h] EXCEPT !.pc = "returned", !.result = r,
                    !.hb = IF during /\ run[h].hb = "waiting" THEN "inflight"
                           ELSE "off"]]
    /\ UNCHANGED <<boardVars, disp, broker, overdue, faults>>

\* runCtx.Err() is Canceled: abandoned without an error, so acknowledged.
CheckOwnership(h) ==
    /\ run[h].pc = "returned"
    /\ run' = [run EXCEPT ![h] =
                  IF run[h].ctx = "canceled" THEN Ended(@, "ack")
                  ELSE [@ EXCEPT !.ctx = "live", !.hb = "off", !.pc =
                          IF run[h].result = "ok" THEN "complete" ELSE "persist"]]
    /\ UNCHANGED <<boardVars, disp, broker, overdue, faults>>

CompleteRun(h) ==
    /\ run[h].pc = "complete"
    /\ Complete(FenceOf(h))
    /\ run' = [run EXCEPT ![h] = Ended(@, "ack")]
    /\ UNCHANGED <<disp, broker, overdue, faults>>

\* finalizeFailure: the classification first, then the decision.
PersistFailure(h) ==
    /\ run[h].pc = "persist"
    /\ PersistError(FenceOf(h), run[h].result)
    /\ run' = [run EXCEPT ![h].pc = "decide"]
    /\ UNCHANGED <<disp, broker, overdue, faults>>

DecideFailure(h) ==
    LET f == FenceOf(h)
        c == run[h].result
    IN  /\ run[h].pc = "decide"
        /\ IF Retryable(c) /\ f.attempt < MaxAttempts[f.exec]
           THEN Reschedule(f, f.attempt + 1)
           ELSE FailAndDLQ(f, c)
        /\ run' = [run EXCEPT ![h] = Ended(@, "ack")]
        /\ UNCHANGED <<disp, broker, overdue, faults>>

\* ErrStaleLease from a fenced write is returned as the run's error.
WriteStale(h) ==
    /\ run[h].pc \in {"persist", "decide", "complete"} /\ ~Held(FenceOf(h))
    /\ run' = [run EXCEPT ![h] = Ended(@, "nack")]
    /\ UNCHANGED <<boardVars, disp, broker, overdue, faults>>

\* processMessage acknowledges a run without error and requeues one with an
\* error; on a closed channel neither has an effect.
Settle(h) ==
    /\ run[h].pc \in {"ack", "nack"}
    /\ broker' = IF run[h].pc = "nack" /\ run[h].live
                 THEN broker \cup {run[h].msg} ELSE broker
    /\ run' = [run EXCEPT ![h] = Idle]
    /\ UNCHANGED <<boardVars, disp, overdue, faults>>

\* The broker requeues what a dead connection had not acknowledged.
Requeued(h) == IF run[h].live THEN broker \cup {run[h].msg} ELSE broker

WorkerCrashes(h) ==
    /\ run[h].pc # "idle" /\ Fault
    /\ broker' = Requeued(h)
    /\ run' = [run EXCEPT ![h] = Idle]
    /\ UNCHANGED <<boardVars, disp, overdue>>

\* The connection drops; the handler keeps running.
ConnectionLost(h) ==
    /\ run[h].pc # "idle" /\ run[h].live /\ Fault
    /\ broker' = Requeued(h)
    /\ run' = [run EXCEPT ![h].live = FALSE]
    /\ UNCHANGED <<boardVars, disp, overdue>>

RunStep(h) ==
    \/ CheckOwnership(h) \/ CompleteRun(h) \/ PersistFailure(h)
    \/ DecideFailure(h) \/ WriteStale(h) \/ Settle(h)
    \/ HeartbeatCut(h)
    \/ \E r \in Results, during \in BOOLEAN : ProviderReturns(h, r, during)
    \/ \E m \in broker : Deliver(h, m)

RunEvent(h) == HeartbeatRenews(h) \/ HeartbeatLost(h) \/ DeadlineHits(h)

RunFault(h) ==
    \/ StoreFails(h) \/ HeartbeatFails(h) \/ WorkerCrashes(h) \/ ConnectionLost(h)
    \/ \E m \in broker : MaterializeFails(h, m)

-----------------------------------------------------------------------------
(* Time.                                                                   *)

\* The expiry the newest lease was granted with has passed.
LeaseRunsOut(e) ==
    /\ overdue[e] < execs[e].gen
    /\ overdue' = [overdue EXCEPT ![e] = execs[e].gen]
    /\ UNCHANGED <<boardVars, disp, broker, run, faults>>

\* ... and so has every renewal.  A dispatcher that reclaimed the lease
\* resolves it at once: only a stall longer than the lease lets it expire.
BeingResolved(e) == \E d \in Dispatcher :
    /\ disp[d].pc = "resolve"
    /\ disp[d].f.exec = e /\ disp[d].f.gen = execs[e].gen

LeaseLapses(e) ==
    /\ overdue[e] >= execs[e].gen
    /\ LeaseExpires(e)
    /\ IF BeingResolved(e) THEN Fault ELSE NoFault
    /\ UNCHANGED <<disp, broker, run, overdue>>

BackoffOver(e) == BackoffElapses(e) /\ UNCHANGED runtimeVars

TimeStep(e) == LeaseRunsOut(e) \/ LeaseLapses(e) \/ BackoffOver(e)

-----------------------------------------------------------------------------
Next ==
    \/ \E e \in Execution : Admit(e) \/ CancelExecution(e) \/ TimeStep(e)
    \/ \E d \in Dispatcher : SweepStep(d) \/ AbortSweep(d)
    \/ \E h \in Handler : RunStep(h) \/ RunEvent(h) \/ RunFault(h)

Spec == Init /\ [][Next]_vars

\* startDispatchSweep runs a ticker for ever, handlers are goroutines that are
\* scheduled, calls return by their deadline, and time passes.
Fairness ==
    /\ \A d \in Dispatcher : WF_vars(SweepStep(d))
    /\ \A h \in Handler : WF_vars(RunStep(h))
    /\ \A e \in Execution : WF_vars(TimeStep(e))

FairSpec == Spec /\ Fairness

-----------------------------------------------------------------------------
(* Properties.                                                             *)

\* Every process and message is in a state the code knows, over a well-typed
\* board.
TypeOK ==
    /\ BoardTypeOK
    /\ disp \in [Dispatcher -> Sweep]
    /\ broker \in SUBSET Message
    /\ run \in [Handler -> Run]
    /\ overdue \in [Execution -> Nat]
    /\ faults \in 0..MaxFaults

\* The lease survives the transport: the fence a worker rebuilds from a message
\* is, field by field, one that a claim or a reclaim returned, so the identity
\* in a redelivered message is never made up (fencedFrom: "it matches the
\* FencedExecution the original Claim returned"); and while the row is still
\* under the message's generation, the rebuilt fence holds it, so a healthy
\* run's writes are not answered ErrStaleLease.
InTransit == broker \cup {run[h].msg : h \in {g \in Handler : run[g].pc # "idle"}}

CurrentLease(m) == /\ execs[m.exec].status = "running"
                   /\ execs[m.exec].gen = m.gen

CarriesLease(m) ==
    /\ fencedFrom(m) \in granted
    /\ CurrentLease(m) => Held(fencedFrom(m))

FencesGranted ==
    /\ \A m \in InTransit : CarriesLease(m)
    /\ \A d \in Dispatcher : disp[d].pc \in {"resolve", "publish", "record"} =>
          disp[d].f \in granted

\* One copy of a dispatch at a time: a message waits in the queue, or one
\* handler has it on an open channel, never both, and only a claim's fence is
\* ever published.  Extra executions of an attempt come from lost connections
\* alone.
SingleDelivery ==
    /\ \A m \in broker : m.retry # 0
    /\ \A h \in Handler : run[h].live =>
          /\ run[h].msg \notin broker
          /\ \A g \in Handler \ {h} : run[g].live => run[g].msg # run[h].msg

\* The real clients respect the board's rules: every step of the runtime is a
\* step of the open board or leaves it alone.
ImplementsBoard == BoardSpec

\* Whatever crashes, loses or repeats itself, an admitted execution ends: it
\* is completed, dead-lettered or cancelled, because recovery takes back every
\* lapsed lease and attempts are bounded.
EventuallyTerminal == Lifecycle!Ends

\* Settlement: once an execution is over, the messages that were dispatched
\* for it leave the queue for good (cmd/worker/handler.go: every terminal
\* outcome, "including abandoned", "is acknowledged").
MessagesSettle == \A e \in Execution :
    Terminal(execs[e].status) ~>
        /\ \A m \in broker : m.exec # e
        /\ \A h \in Handler : ~(run[h].live /\ run[h].msg.exec = e)

\* Abandoning: without a failed call, a run is given up only when the lease
\* was really lost (execution.OutcomeAbandoned: "ownership moved (heartbeat
\* lost) or store failure").
Abandons(h) == run[h].pc = "returned" /\ run'[h].pc = "ack"

AbandonedWhenLost ==
    [][\A h \in Handler : Abandons(h) /\ faults = 0 => ~Held(FenceOf(h))]_vars
=============================================================================
