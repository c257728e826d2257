-------------------------- MODULE CreatorPipeline --------------------------
(***************************************************************************)
(* The creator pipeline: internal/orchestration over its versioned store,  *)
(* driven by the events of its queue (cmd/worker/handler.go) and by the    *)
(* named commands of operators, and bound to the publishing service by     *)
(* internal/composition/pipeline_publication.go.                           *)
(*                                                                         *)
(* One pipeline and its publication, Draft.  Handlers and operators work   *)
(* on copies of the row; the row's version decides whose copy is written.  *)
(* Publishing's own commands reach the same Draft from its API.            *)
(***************************************************************************)
EXTENDS Publication, Sequences

CONSTANTS
    Draft,          \* the publication whose creation key is the pipeline's id
    Handler,        \* consumers of the pipeline queue
    Operator,       \* requests to the pipeline API
    MaxRequests,    \* bound: operator requests
    Faults,         \* the kinds of disturbance that occur
    MaxFaults       \* bound: disturbances

\* crash: a handler dies, or loses broker or database; abort: the same of a
\* request; refusal: the broker takes no event; limit: the advance budget is
\* used up; command: somebody uses the publishing API on the draft; foreign: the
\* event of another, failed pipeline is in the queue.
FaultKinds == {"crash", "abort", "refusal", "limit", "command", "foreign"}

ASSUME PipelineAssumption ==
    /\ Draft \in Publications
    /\ Handler \cup Operator \subseteq Caller
    /\ Handler \cap Operator = {}
    /\ MaxRequests \in Nat /\ MaxFaults \in Nat
    /\ Faults \subseteq FaultKinds

VARIABLES
    line,     \* the row of the pipeline
    act,      \* per handler and operator: what it is doing
    queue,    \* ready events, counted
    requests, \* operator requests so far
    faults    \* disturbances so far

pipeVars == <<line, act, queue, requests, faults>>
bounds == <<requests, faults>>
vars == <<pubVars, pipeVars>>

Actor == Handler \cup Operator

-----------------------------------------------------------------------------
Stages == <<"research", "script", "review", "publish", "complete">>
Stage == {Stages[i] : i \in DOMAIN Stages}
Rank(stage) == CHOOSE i \in DOMAIN Stages : Stages[i] = stage
NextStage(stage) == Stages[Rank(stage) + 1]
IsAfter(s, t) == Rank(s) > Rank(t)

LineStatus == {"created", "active", "awaiting_approval", "approved", "done", "failed"}

\* draft: publication_id; approved: approved_by and approved_at; published:
\* published_reference.  Version 0 stands for a row that is not there.
Line == [stage: Stage, status: LineStatus, draft: BOOLEAN, approved: BOOLEAN,
         published: BOOLEAN, version: Nat]

NewLine == [stage |-> "research", status |-> "created", draft |-> FALSE,
            approved |-> FALSE, published |-> FALSE, version |-> 1]

NoLine == [NewLine EXCEPT !.version = 0]

\* The events that command a stage; review_ready and complete are observations,
\* which a handler acknowledges without looking at the pipeline.
Command == {"research", "script", "review_approved", "publish"}
EventKind(e) == IF e = "review_approved" THEN "review" ELSE e

\* publishCurrentEvent: the event that a row stands for.
CurrentEvent(p) ==
    IF p.stage = "review"
    THEN IF p.status = "approved" THEN "review_approved" ELSE "review_ready"
    ELSE p.stage

Approved(p) == p.status = "approved" /\ p.approved

\* CanAdvance for the one stage that follows.
CanAdvance(p) ==
    /\ p.status \notin {"done", "failed"} /\ p.stage # "complete"
    /\ p.stage = "review" => p.status = "approved"

\* Mutant: whatever failed is active again, the first stage included.
ReopenedActive(p) ==
    [p EXCEPT !.status = IF p.stage = "review" THEN "approved" ELSE "active"]

\* What Retry makes of a failed row.
Reopened(p) ==
    [p EXCEPT !.status = CASE p.stage = "review" /\ p.approved -> "approved"
                           [] p.stage = "review" /\ ~p.approved -> "awaiting_approval"
                           [] p.stage = "research" -> "created"
                           [] OTHER -> "active"]

\* What doAdvance makes of its copy.
Advanced(p) ==
    LET to == NextStage(p.stage) IN
    [p EXCEPT !.stage = to,
              !.status = CASE to \in {"script", "publish"} -> "active"
                           [] to = "review" -> "awaiting_approval"
                           [] to = "complete" -> "done",
              !.draft = @ \/ to = "review",
              !.published = @ \/ to = "publish"]

-----------------------------------------------------------------------------
(* What an actor does: its job, the event it handles, its copy of the row, *)
(* and how far it is.  err is the error it will return; held says that the *)
(* event is its own to acknowledge.                                        *)

Calling == {"submit", "approve", "publish", "retry"}
Storing == {"reopen", "fail", "write"}
Pc == {"idle", "repair", "work", "prepare", "consult", "grant", "call",
       "announce", "answer"} \cup Calling \cup Storing
Err == {"none", "terminal", "other"}

Task == [pc: Pc, job: {"none", "event", "foreign", "create", "approve", "retry"},
         event: Command \cup {"none"}, copy: Line, err: Err, held: BOOLEAN]

Idle == [pc |-> "idle", job |-> "none", event |-> "none", copy |-> NoLine,
         err |-> "none", held |-> FALSE]

PipeInit ==
    /\ line = NoLine
    /\ act = [a \in Actor |-> Idle]
    /\ queue = [e \in Command |-> 0]
    /\ requests = 0 /\ faults = 0

Init == PubInit /\ PipeInit

Goto(a, pc) == act' = [act EXCEPT ![a].pc = pc]
Return(a, err) == act' = [act EXCEPT ![a].pc = "answer", ![a].err = err]
Fault(kind) ==
    /\ kind \in Faults /\ faults < MaxFaults
    /\ faults' = faults + 1
    /\ UNCHANGED requests
Requeued(e) == queue' = [queue EXCEPT ![e] = @ + 1]

-----------------------------------------------------------------------------
(* Entry points.                                                           *)

\* A handler takes an event.  Advance refuses it when the workspace's budget is
\* used up or the row cannot be read; else a row in another stage sends the event
\* to the repair of AdvanceFromEvent.
Take(h, e) ==
    /\ act[h].pc = "idle" /\ queue[e] > 0
    /\ queue' = [queue EXCEPT ![e] = @ - 1]

TaskOf(e, pc, err) == [Idle EXCEPT !.job = "event", !.event = e, !.held = TRUE,
                                   !.copy = line, !.pc = pc, !.err = err]

AdvanceFromEvent(h, e) ==
    /\ Take(h, e)
    /\ act' = [act EXCEPT ![h] =
          IF line.stage # EventKind(e) THEN TaskOf(e, "repair", "none")
          ELSE IF CanAdvance(line) THEN TaskOf(e, "work", "none")
          ELSE TaskOf(e, "answer",
                      IF line.status \in {"done", "failed"} THEN "terminal" ELSE "other")]
    /\ UNCHANGED <<pubVars, line, bounds>>

RateLimited(h, e) ==
    /\ Take(h, e) /\ Fault("limit")
    /\ act' = [act EXCEPT ![h] = TaskOf(e, "answer", "other")]
    /\ UNCHANGED <<pubVars, line>>

\* The other pipeline's event is refused with ErrTerminalState, its row is found
\* failed, and the event is requeued where it was, however often it is taken.
TakeForeign(h) ==
    /\ act[h].pc = "idle" /\ "foreign" \in Faults
    /\ act' = [act EXCEPT ![h] = [Idle EXCEPT !.pc = "answer", !.job = "foreign",
                                              !.err = "terminal"]]
    /\ UNCHANGED <<pubVars, line, queue, bounds>>

RequeueForeign(h) ==
    /\ act[h].pc = "answer" /\ act[h].job = "foreign"
    /\ act' = [act EXCEPT ![h] = Idle]
    /\ UNCHANGED <<pubVars, line, queue, bounds>>


\* The pipeline is past the event: its next event may be what got lost.
Repair(h) ==
    /\ act[h].pc = "repair"
    /\ IF line.status # "failed" /\ IsAfter(line.stage, EventKind(act[h].event))
       THEN act' = [act EXCEPT ![h].pc = "announce", ![h].copy = line]
       ELSE Return(h, "other")
    /\ UNCHANGED <<pubVars, line, queue, bounds>>

Request(o, job, pc, copy) ==
    /\ act[o].pc = "idle"
    /\ requests < MaxRequests /\ requests' = requests + 1
    /\ UNCHANGED faults
    /\ act' = [act EXCEPT ![o] = [Idle EXCEPT !.job = job, !.copy = copy, !.pc = pc]]

\* CreateWithIdempotency: the key's row is inserted, or found, at first or after
\* the INSERT met the unique index; an untouched row is announced again.
CreateLine(o) ==
    /\ line.version = 0
    /\ line' = NewLine
    /\ Request(o, "create", "announce", NewLine)
    /\ UNCHANGED <<pubVars, queue>>

CreateAgain(o) ==
    /\ line.stage = "research" /\ line.status = "created" /\ line.version > 0
    /\ Request(o, "create", "announce", line)
    /\ UNCHANGED <<pubVars, line, queue>>

\* Approve: an approved review is only announced again.
ApproveLine(o) ==
    /\ line.version > 0 /\ line.stage = "review"
    /\ \/ Approved(line) /\ Request(o, "approve", "announce", line)
       \/ line.status = "awaiting_approval" /\ line.draft /\ Request(o, "approve", "grant", line)
    /\ UNCHANGED <<pubVars, line, queue>>

\* Retry: the row is reopened with an update of its own.
RetryLine(o) ==
    /\ line.version > 0 /\ line.status = "failed" /\ line.stage # "complete"
    /\ Request(o, "retry", "reopen", Reopened(line))
    /\ UNCHANGED <<pubVars, line, queue>>

-----------------------------------------------------------------------------
(* store.Update: a copy replaces the row whose version it carries.         *)

\* Mutant: the version is not compared.
CurrentAlways(copy) == TRUE

Current(copy) == copy.version = line.version

\* The row that each update writes.
Written(a) ==
    LET p == act[a].copy IN
    CASE act[a].pc = "fail" -> [p EXCEPT !.status = "failed"]
      [] act[a].pc = "write" /\ act[a].job = "approve" ->
            [p EXCEPT !.status = "approved", !.approved = TRUE]
      [] act[a].pc = "write" /\ act[a].job # "approve" -> Advanced(p)
      [] OTHER -> p

Stored(a) == [Written(a) EXCEPT !.version = line.version + 1]

\* A reopened row goes on to its stage work, an advanced or approved one to its
\* event; a failure has been persisted and is returned.
Store(a) ==
    /\ act[a].pc \in Storing /\ Current(act[a].copy)
    /\ line' = Stored(a)
    /\ act' = [act EXCEPT ![a].copy = Stored(a),
                 ![a].err = IF act[a].pc = "fail" THEN "other" ELSE "none",
                 ![a].pc = CASE act[a].pc = "reopen" -> "work"
                             [] act[a].pc = "write" -> "announce"
                             [] act[a].pc = "fail" -> "answer"]
    /\ UNCHANGED <<pubVars, queue, bounds>>

\* ErrConcurrentUpdate.
Conflict(a) ==
    /\ act[a].pc \in Storing /\ ~Current(act[a].copy)
    /\ Return(a, "other")
    /\ UNCHANGED <<pubVars, line, queue, bounds>>

\* The database does not answer: the update is lost.
Unstored(a) ==
    /\ act[a].pc \in Storing
    /\ Fault(IF a \in Handler THEN "crash" ELSE "abort")
    /\ Return(a, "other")
    /\ UNCHANGED <<pubVars, line, queue>>

-----------------------------------------------------------------------------
(* doAdvance and the commands' ways to the publishing service.             *)

\* stageWork: the ports of research, script and review may fail.
StageWork(a, ok) ==
    LET to == NextStage(act[a].copy.stage) IN
    /\ act[a].pc = "work"
    /\ ~ok => to \in {"script", "review"}
    /\ Goto(a, CASE ~ok -> "fail"
                 [] ok /\ to = "review" -> "prepare"
                 [] ok /\ to = "publish" -> "consult"
                 [] OTHER -> "write")
    /\ UNCHANGED <<pubVars, line, queue, bounds>>

\* Prepare: the draft is created under the pipeline's key, or found.
Prepare(a) ==
    LET found == rows[Draft].status IN
    /\ act[a].pc = "prepare"
    /\ IF found = "absent" THEN Create(Draft) ELSE UNCHANGED pubVars
    /\ Goto(a, CASE found \in {"absent", "queued"} -> "submit"
                 [] found \in {"review", "approved", "published"} -> "write"
                 [] OTHER -> "fail")
    /\ UNCHANGED <<line, queue, bounds>>

Releasable(p) == p.draft /\ Approved(p)

\* The adapter's Publish: what is published already is not delivered again.
Consult(a) ==
    LET found == rows[Draft].status IN
    /\ act[a].pc = "consult"
    /\ IF ~Releasable(act[a].copy) THEN Return(a, "other")
       ELSE Goto(a, CASE found = "published" -> "write"
                      [] found = "failed" -> "retry"
                      [] OTHER -> "publish")
    /\ UNCHANGED <<pubVars, line, queue, bounds>>

\* The adapter's Approve: an approval given to the draft directly counts.
Grant(a) ==
    /\ act[a].pc = "grant"
    /\ Goto(a, IF rows[Draft].status \in {"approved", "published"} THEN "write" ELSE "approve")
    /\ UNCHANGED <<pubVars, line, queue, bounds>>

\* The publishing service is called, reads the draft for itself and answers.
CallService(a) ==
    /\ act[a].pc \in Calling
    /\ Begin(a, Draft, act[a].pc) \/ Throttled(a, Draft, act[a].pc)
    /\ Goto(a, "call")
    /\ UNCHANGED <<line, queue, bounds>>

\* Mutant: the service's error is not looked at.
ServiceAnswersRegardless(a) ==
    /\ act[a].pc = "call" /\ call[a].pc = "done"
    /\ call' = [call EXCEPT ![a] = NoCall]
    /\ Goto(a, "write")
    /\ UNCHANGED <<rows, approvals, rejections, platform, line, queue, bounds>>

\* Its error fails the stage, or refuses the approval.
ServiceAnswers(a) ==
    /\ act[a].pc = "call" /\ call[a].pc = "done"
    /\ call' = [call EXCEPT ![a] = NoCall]
    /\ IF call[a].ok THEN Goto(a, "write")
       ELSE IF act[a].job = "approve" THEN Return(a, "other") ELSE Goto(a, "fail")
    /\ UNCHANGED <<rows, approvals, rejections, platform, line, queue, bounds>>

\* PublishPipeline.
Announce(a) ==
    LET e == CurrentEvent(act[a].copy) IN
    /\ act[a].pc = "announce"
    /\ queue' = IF e \in Command THEN [queue EXCEPT ![e] = @ + 1] ELSE queue
    /\ Return(a, "none")
    /\ UNCHANGED <<pubVars, line, bounds>>

AnnounceFails(a) ==
    /\ act[a].pc = "announce" /\ Fault("refusal")
    /\ Return(a, "other")
    /\ UNCHANGED <<pubVars, line, queue>>

-----------------------------------------------------------------------------
(* The end of a task.                                                      *)

\* newHandler: an event is acknowledged when it was handled, or when the row
\* shows that somebody else has.
Settled(h) ==
    \/ act[h].err = "none"
    \/ line.status = "done"
    \/ IsAfter(line.stage, EventKind(act[h].event))
    \/ act[h].err = "terminal" /\ line.status # "failed"

Settle(h) ==
    /\ act[h].pc = "answer" /\ act[h].job = "event"
    /\ IF Settled(h) \/ ~act[h].held THEN UNCHANGED queue ELSE Requeued(act[h].event)
    /\ act' = [act EXCEPT ![h] = Idle]
    /\ UNCHANGED <<pubVars, line, bounds>>

Reply(o) ==
    /\ act[o].pc = "answer" /\ act[o].job \in {"create", "approve", "retry"}
    /\ act' = [act EXCEPT ![o] = Idle]
    /\ UNCHANGED <<pubVars, line, queue, bounds>>

\* A handler's process dies; the broker delivers its event again.
Crash(h) ==
    /\ act[h].pc # "idle" /\ Fault("crash")
    /\ IF act[h].held THEN Requeued(act[h].event) ELSE UNCHANGED queue
    /\ act' = [act EXCEPT ![h] = Idle]
    /\ call' = [call EXCEPT ![h] = NoCall]
    /\ UNCHANGED <<rows, approvals, rejections, platform, line>>

\* Its connection drops: the event is delivered again while the handler runs on.
LoseConnection(h) ==
    /\ act[h].held /\ Fault("crash")
    /\ Requeued(act[h].event)
    /\ act' = [act EXCEPT ![h].held = FALSE]
    /\ UNCHANGED <<pubVars, line>>

Abort(o) ==
    /\ act[o].pc # "idle" /\ Fault("abort")
    /\ act' = [act EXCEPT ![o] = Idle]
    /\ call' = [call EXCEPT ![o] = NoCall]
    /\ UNCHANGED <<rows, approvals, rejections, platform, line, queue>>

-----------------------------------------------------------------------------
Step(a) ==
    \/ Store(a) \/ Conflict(a)
    \/ \E ok \in BOOLEAN : StageWork(a, ok)
    \/ Prepare(a) \/ Consult(a) \/ Grant(a)
    \/ CallService(a) \/ ServiceAnswers(a)
    \/ ServiceStep(a) /\ UNCHANGED pipeVars
    \/ Announce(a)

HandlerStep(h) == Repair(h) \/ Step(h) \/ Settle(h) \/ RequeueForeign(h)
Consume(h) == TakeForeign(h) \/ \E e \in Command : AdvanceFromEvent(h, e)
OperatorStep(o) == Step(o) \/ Reply(o)
OperatorRequest(o) == CreateLine(o) \/ CreateAgain(o) \/ ApproveLine(o) \/ RetryLine(o)

\* Publishing's own API; it has no route for cancel.
Direct(c) ==
    \/ /\ rows[Draft].status # "absent" /\ Fault("command")
       /\ \E op \in Op \ {"cancel"} : Begin(c, Draft, op)
       /\ UNCHANGED <<line, act, queue>>
    \/ (ServiceStep(c) \/ EndCall(c)) /\ UNCHANGED pipeVars

Next ==
    \/ \E h \in Handler :
        \/ Consume(h) \/ \E e \in Command : RateLimited(h, e)
        \/ HandlerStep(h) \/ Crash(h) \/ LoseConnection(h)
    \/ \E o \in Operator : OperatorRequest(o) \/ OperatorStep(o) \/ Abort(o)
    \/ \E a \in Actor : Unstored(a) \/ AnnounceFails(a)
    \/ \E c \in Caller \ Actor : Direct(c)

Spec == Init /\ [][Next]_vars

\* A consumer that is free takes a delivery, whichever the broker chooses to
\* give it: no order of the queue is assumed, and no event is sure to be taken
\* while others are there (Qos(1), Nack with requeue).  Consumers and running
\* requests go on; nobody need send a request.
Fairness ==
    /\ \A h \in Handler : WF_vars(Consume(h) \/ HandlerStep(h))
    /\ \A o \in Operator : WF_vars(OperatorStep(o))

FairSpec == Spec /\ Fairness

-----------------------------------------------------------------------------
(* Properties.                                                             *)

\* The row, the tasks and the queue are well formed.
PipelineTypeOK ==
    /\ PubTypeOK
    /\ line \in Line
    /\ act \in [Actor -> Task]
    /\ queue \in [Command -> Nat]
    /\ requests \in 0..MaxRequests /\ faults \in 0..MaxFaults

\* Human oversight across both services: a pipeline is past its review only
\* with its own approval on record, and its draft was approved by a human and
\* accepted by the platform, whoever else worked on pipeline and draft.
GatedPublish ==
    line.stage \in {"publish", "complete"} =>
        /\ line.approved /\ line.draft /\ line.published
        /\ Draft \in platform \cap approvals

\* The status and the references fit the stage, though every update writes a
\* whole copy that may be old: the constraint pipelines_stage_status_valid never
\* refuses an update.  What failed is in a stage that Retry can enter again.
StatusFits ==
    /\ line.status = "created" => line.stage = "research"
    /\ line.status = "active" => line.stage \in {"script", "publish"}
    /\ line.status \in {"awaiting_approval", "approved"} => line.stage = "review"
    /\ line.status = "done" <=> line.stage = "complete"
    /\ line.status = "failed" => line.stage \in {"research", "script", "review"}
    /\ line.approved => line.stage \in {"review", "publish", "complete"}
    /\ line.draft <=> line.stage \in {"review", "publish", "complete"}

\* Stages are taken one at a time and never back, the review is left only when
\* approved, and no approval is withdrawn, whichever of the overlapping tasks
\* writes (CanAdvance and the version of the row).
StageOrder == [][
    /\ line'.stage # line.stage =>
        /\ line'.stage = NextStage(line.stage)
        /\ line.stage = "review" => line.status = "approved"
    /\ line.approved => line'.approved]_vars

\* A pipeline that is under way comes to rest: it waits for a human, is done, or
\* has failed and may be retried, although handlers crash between the update
\* of the row and the event that announces it, or lose their connection, and in
\* whatever order its events and their duplicates are delivered
\* (AdvanceFromEvent: "Republish the persisted follower rather than
\* acknowledging a missing event").  With a foreign event in the queue it does
\* not hold: the consumer may be given that one for ever.
EventuallyRests ==
    (line.version > 0 /\ line.status \in {"created", "active", "approved"})
        ~> (line.status \in {"awaiting_approval", "done", "failed"})
=============================================================================
