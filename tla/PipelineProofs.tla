--------------------------- MODULE PipelineProofs ---------------------------
(***************************************************************************)
(* Proofs about CreatorPipeline, for any number of handlers, operators and *)
(* callers of the publishing API, and any number of disturbances: what the *)
(* version of the row and the checks of each stage secure together.        *)
(***************************************************************************)
EXTENDS CreatorPipeline, PublicationProofs

-----------------------------------------------------------------------------
(* The inductive invariant.                                                *)

\* StatusFits and GatedPublish, of the row or of anybody's copy of it.
Fits(p) ==
    /\ p.status = "created" => p.stage = "research"
    /\ p.status = "active" => p.stage \in {"script", "publish"}
    /\ p.status \in {"awaiting_approval", "approved"} => p.stage = "review"
    /\ p.status = "done" <=> p.stage = "complete"
    /\ p.status = "failed" => p.stage \in {"research", "script", "review"}
    /\ p.approved => p.stage \in {"review", "publish", "complete"}
    /\ p.draft <=> p.stage \in {"review", "publish", "complete"}

Past(p) ==
    p.stage \in {"publish", "complete"} =>
        p.approved /\ p.published /\ Draft \in platform /\ Draft \in approvals

\* A copy that the store will accept is of the row that is there: only Retry
\* has changed its status.
Dated(t) ==
    /\ t.copy.version <= line.version
    /\ t.copy.version = line.version =>
        /\ t.copy.stage = line.stage
        /\ t.copy.approved = line.approved
        /\ t.pc # "reopen" => t.copy.status = line.status

\* What an approval in progress holds.
Approving(t) ==
    /\ t.pc \in {"grant", "approve", "call", "write", "announce"}
    /\ t.pc # "announce" => t.copy.stage = "review"

\* What the other jobs have established at each of their points; k is the
\* command that the actor has given the publishing service.
Advancing(t, k) ==
    /\ t.pc \notin {"grant", "approve"}
    /\ t.pc = "work" => t.copy.stage # "complete"
    /\ t.pc \in {"reopen", "fail"} => t.copy.stage \in {"research", "script", "review"}
    /\ t.pc \in {"prepare", "submit"} => t.copy.stage = "script"
    /\ t.pc = "consult" => t.copy.stage = "review"
    /\ t.pc \in {"publish", "retry"} => t.copy.stage = "review" /\ Releasable(t.copy)
    /\ t.pc = "call" =>
        \/ t.copy.stage = "script"
        \/ /\ t.copy.stage = "review" /\ Releasable(t.copy)
           /\ k.of = Draft /\ k.op \in Delivering
    /\ t.pc = "write" =>
        /\ t.copy.stage # "complete"
        /\ t.copy.stage = "review" => Releasable(t.copy) /\ Draft \in platform

TaskSound(t, k) ==
    t.pc \notin {"idle", "answer"} =>
        /\ Fits(t.copy) /\ Past(t.copy) /\ Dated(t)
        /\ t.job = "approve" => Approving(t)
        /\ t.job # "approve" => Advancing(t, k)

LineSound == Fits(line) /\ Past(line) /\ (line.version = 0 => line = NoLine)

PipeInv ==
    /\ PubInv
    /\ PipelineTypeOK
    /\ LineSound
    /\ \A a \in Actor : TaskSound(act[a], call[a])

-----------------------------------------------------------------------------
(* The stages.                                                             *)

\* The order of the stages, as NextStage computes it.
LEMMA StageFacts ==
    /\ Stage = {"research", "script", "review", "publish", "complete"}
    /\ NextStage("research") = "script" /\ NextStage("script") = "review"
    /\ NextStage("review") = "publish" /\ NextStage("publish") = "complete"
  <1>1. DOMAIN Stages = 1..5
    BY DEF Stages
  <1>2. /\ Stages[1] = "research" /\ Stages[2] = "script" /\ Stages[3] = "review"
        /\ Stages[4] = "publish" /\ Stages[5] = "complete"
    BY DEF Stages
  <1>3. 1..5 = {1, 2, 3, 4, 5}
    OBVIOUS
  <1>4. \A i, j \in {1, 2, 3, 4, 5} : Stages[i] = Stages[j] => i = j
    BY <1>2
  <1>5. \A i \in {1, 2, 3, 4, 5} : Rank(Stages[i]) = i
    <2> SUFFICES ASSUME NEW i \in {1, 2, 3, 4, 5} PROVE Rank(Stages[i]) = i
      OBVIOUS
    <2>1. \E j \in DOMAIN Stages : Stages[j] = Stages[i]
      BY <1>1, <1>3
    <2>2. Rank(Stages[i]) \in DOMAIN Stages /\ Stages[Rank(Stages[i])] = Stages[i]
      BY <2>1 DEF Rank
    <2> QED
      BY <1>1, <1>3, <1>4, <2>2
  <1>6. Rank("research") = 1 /\ Rank("script") = 2 /\ Rank("review") = 3 /\ Rank("publish") = 4
    BY <1>2, <1>5
  <1>7. Stage = {"research", "script", "review", "publish", "complete"}
    BY <1>1, <1>2, <1>3 DEF Stage
  <1> QED
    BY <1>2, <1>6, <1>7 DEF NextStage

\* The new row and the row that is not there.
LEMMA NewLineFacts ==
    /\ NewLine \in Line /\ NoLine \in Line
    /\ NewLine.version = 1 /\ NoLine.version = 0
    /\ NewLine.stage = "research" /\ NoLine.stage = "research"
    /\ NewLine.status = "created" /\ NoLine.status = "created"
    /\ ~NewLine.approved /\ ~NoLine.approved
    /\ Fits(NewLine) /\ Fits(NoLine) /\ Past(NewLine) /\ Past(NoLine)
  BY StageFacts DEF NewLine, NoLine, Line, LineStatus, Fits, Past

\* Advancing moves a row to the next stage, and keeps status and references
\* in step with it.
LEMMA AdvancedFacts ==
    ASSUME NEW p \in Line, p.stage # "complete"
    PROVE  /\ Advanced(p) \in Line
           /\ Advanced(p).stage = NextStage(p.stage)
           /\ Advanced(p).approved = p.approved
           /\ Advanced(p).version = p.version
           /\ Fits(p) /\ (p.stage = "review" => p.approved) => Fits(Advanced(p))
           /\ p.published => Advanced(p).published
           /\ p.stage = "review" => Advanced(p).published
  <1>1. p.stage \in {"research", "script", "review", "publish"} /\ p.stage \in Stage
    BY StageFacts DEF Line
  <1>2. CASE p.stage = "research"
    BY <1>2, StageFacts DEF Advanced, Line, LineStatus, Fits
  <1>3. CASE p.stage = "script"
    BY <1>3, StageFacts DEF Advanced, Line, LineStatus, Fits
  <1>4. CASE p.stage = "review"
    BY <1>4, StageFacts DEF Advanced, Line, LineStatus, Fits
  <1>5. CASE p.stage = "publish"
    BY <1>5, StageFacts DEF Advanced, Line, LineStatus, Fits
  <1> QED
    BY <1>1, <1>2, <1>3, <1>4, <1>5

\* Retry opens a failed row in the stage it failed in.
LEMMA ReopenedFacts ==
    ASSUME NEW p \in Line, p.status = "failed", Fits(p)
    PROVE  /\ Reopened(p) \in Line /\ Fits(Reopened(p))
           /\ Reopened(p).stage = p.stage /\ Reopened(p).approved = p.approved
           /\ Reopened(p).published = p.published /\ Reopened(p).version = p.version
           /\ p.stage \in {"research", "script", "review"}
  <1>1. p.stage \in {"research", "script", "review"}
    BY DEF Fits
  <1>2. CASE p.stage = "research"
    BY <1>2 DEF Reopened, Line, LineStatus, Fits
  <1>3. CASE p.stage = "script"
    BY <1>3 DEF Reopened, Line, LineStatus, Fits
  <1>4. CASE p.stage = "review" /\ p.approved
    BY <1>4 DEF Reopened, Line, LineStatus, Fits
  <1>5. CASE p.stage = "review" /\ ~p.approved
    BY <1>5 DEF Reopened, Line, LineStatus, Fits
  <1> QED
    BY <1>1, <1>2, <1>3, <1>4, <1>5

-----------------------------------------------------------------------------
(* Frames: what a step of one actor leaves to the others.                  *)

\* The commands and the row may move on under a task that does nothing.
LEMMA TaskKept ==
    ASSUME PipeInv, NEW a \in Actor,
           act'[a] = act[a], call'[a].of = call[a].of, call'[a].op = call[a].op,
           line' \in Line, line' = line \/ line'.version > line.version,
           platform \subseteq platform', approvals \subseteq approvals'
    PROVE  TaskSound(act[a], call[a])'
  <1> SUFFICES ASSUME act[a].pc \notin {"idle", "answer"}
               PROVE  TaskSound(act[a], call[a])'
    BY DEF TaskSound
  <1>1. TaskSound(act[a], call[a])
    BY DEF PipeInv
  <1>2. act[a].copy.version \in Nat /\ line.version \in Nat /\ line'.version \in Nat
    BY DEF PipeInv, PipelineTypeOK, Task, Line
  <1>3. Dated(act[a])'
    BY <1>1, <1>2 DEF TaskSound, Dated
  <1>4. Fits(act[a].copy)' /\ Past(act[a].copy)'
    BY <1>1 DEF TaskSound, Fits, Past
  <1>5. act[a].job = "approve" => Approving(act[a])'
    BY <1>1 DEF TaskSound, Approving
  <1>6. act[a].job # "approve" => Advancing(act[a], call[a])'
    BY <1>1 DEF TaskSound, Advancing, Releasable, Approved
  <1> QED
    BY <1>3, <1>4, <1>5, <1>6 DEF TaskSound

\* A step of one actor.
LEMMA TaskStep ==
    ASSUME PipeInv, PubInv', NEW a \in Actor,
           act' \in [Actor -> Task],
           \A q \in Actor \ {a} : act'[q] = act[q] /\ call'[q] = call[q],
           TaskSound(act[a], call[a])',
           line' \in Line, line' = line \/ line'.version > line.version, LineSound',
           platform \subseteq platform', approvals \subseteq approvals',
           queue' \in [Command -> Nat],
           requests' \in 0..MaxRequests, faults' \in 0..MaxFaults
    PROVE  PipeInv'
  <1>1. \A q \in Actor : TaskSound(act[q], call[q])'
    BY TaskKept
  <1>2. PipelineTypeOK'
    BY DEF PipelineTypeOK, PubInv
  <1> QED
    BY <1>1, <1>2 DEF PipeInv

\* The row stays; so does what is known of it.
LEMMA LineKept ==
    ASSUME PipeInv, line' = line, platform \subseteq platform', approvals \subseteq approvals'
    PROVE  LineSound' /\ line' \in Line
  BY DEF PipeInv, PipelineTypeOK, LineSound, Fits, Past

\* What a move of an actor inside its task leaves alone.
LEMMA GotoFacts ==
    ASSUME PipeInv, NEW a \in Actor, NEW pc \in Pc, Goto(a, pc)
    PROVE  /\ act' \in [Actor -> Task] /\ \A q \in Actor \ {a} : act'[q] = act[q]
           /\ act'[a].pc = pc /\ act'[a].copy = act[a].copy /\ act'[a].job = act[a].job
  BY SMTT(30) DEF PipeInv, PipelineTypeOK, Goto, Task

\* What an actor is after it has answered.
LEMMA ReturnFacts ==
    ASSUME PipeInv, NEW a \in Actor, NEW err \in Err, Return(a, err)
    PROVE  /\ act' \in [Actor -> Task] /\ \A q \in Actor \ {a} : act'[q] = act[q]
           /\ act'[a].pc = "answer" /\ TaskSound(act[a], call[a])'
  <1>1. /\ act' \in [Actor -> Task] /\ \A q \in Actor \ {a} : act'[q] = act[q]
        /\ act'[a].pc = "answer"
    BY ZenonT(60) DEF PipeInv, PipelineTypeOK, Return, Task, Pc
  <1> QED
    BY <1>1 DEF TaskSound

\* A fault is counted, and counted to the bound.
LEMMA FaultFacts ==
    ASSUME PipeInv, NEW kind, Fault(kind)
    PROVE  requests' \in 0..MaxRequests /\ faults' \in 0..MaxFaults
  BY PipelineAssumption DEF PipeInv, PipelineTypeOK, Fault

\* An event more, or one less that was there.
LEMMA QueueFacts ==
    ASSUME PipeInv, NEW e
    PROVE  /\ [queue EXCEPT ![e] = @ + 1] \in [Command -> Nat]
           /\ e \in Command /\ queue[e] > 0 =>
                [queue EXCEPT ![e] = @ - 1] \in [Command -> Nat]
  <1>1. queue \in [Command -> Nat]
    BY DEF PipeInv, PipelineTypeOK
  <1>2. CASE e \in Command
    BY <1>1, <1>2
  <1>3. CASE e \notin Command
    BY <1>1, <1>3
  <1> QED
    BY <1>2, <1>3

\* A step that leaves row and publishing alone and returns.
LEMMA ReturnInv ==
    ASSUME PipeInv, NEW a \in Actor, NEW err \in Err, Return(a, err),
           UNCHANGED <<pubVars, line>>, queue' \in [Command -> Nat],
           requests' \in 0..MaxRequests, faults' \in 0..MaxFaults
    PROVE  PipeInv'
  <1>1. PubInv'
    BY PubUnchanged DEF PipeInv
  <1>2. LineSound' /\ line' \in Line
    BY LineKept DEF pubVars
  <1> QED
    BY <1>1, <1>2, ReturnFacts, TaskStep DEF pubVars

\* A step that leaves the row alone and ends the task.
LEMMA IdleInv ==
    ASSUME PipeInv, NEW a \in Actor, PubInv', act' = [act EXCEPT ![a] = Idle],
           \A q \in Actor \ {a} : call'[q] = call[q],
           UNCHANGED <<line, platform, approvals>>, queue' \in [Command -> Nat],
           requests' \in 0..MaxRequests, faults' \in 0..MaxFaults
    PROVE  PipeInv'
  <1>1. Idle \in Task /\ Idle.pc = "idle"
    BY NewLineFacts DEF Idle, Task, Pc, Err
  <1>2. /\ act' \in [Actor -> Task] /\ act'[a].pc = "idle"
        /\ \A q \in Actor \ {a} : act'[q] = act[q]
    BY <1>1 DEF PipeInv, PipelineTypeOK
  <1>3. TaskSound(act[a], call[a])'
    BY <1>2 DEF TaskSound
  <1>4. LineSound' /\ line' \in Line
    BY LineKept
  <1> QED
    BY <1>2, <1>3, <1>4, TaskStep

\* What an actor's service call may change.
LEMMA ServiceFrame ==
    ASSUME PubInv, NEW c \in Caller, ServiceStep(c)
    PROVE  /\ platform \subseteq platform' /\ approvals \subseteq approvals'
           /\ \A q \in Caller \ {c} : call'[q] = call[q]
           /\ call'[c].of = call[c].of /\ call'[c].op = call[c].op
  <1>1. call \in [Caller -> PubCall]
    BY DEF PubInv, PubTypeOK
  <1>2. ASSUME NEW ok \in BOOLEAN, NEW accepted \in BOOLEAN, Deliver(c, ok, accepted)
        PROVE  /\ platform \subseteq platform' /\ approvals \subseteq approvals'
               /\ \A q \in Caller \ {c} : call'[q] = call[q]
               /\ call'[c].of = call[c].of /\ call'[c].op = call[c].op
    BY <1>1, <1>2 DEF Deliver, PubCall
  <1>3. CASE Update(c)
    BY <1>1, <1>3 DEF Update, PubCall
  <1>4. CASE UpdateFails(c)
    BY <1>1, <1>4 DEF UpdateFails, PubCall
  <1> QED
    BY <1>2, <1>3, <1>4 DEF ServiceStep

-----------------------------------------------------------------------------
(* The store.                                                              *)

\* The row that a current copy leaves is sound, and one legal step from the row
\* it replaces.
LEMMA StoredFacts ==
    ASSUME PipeInv, NEW a \in Actor, act[a].pc \in Storing, Current(act[a].copy)
    PROVE  /\ Stored(a) \in Line /\ Fits(Stored(a)) /\ Past(Stored(a))
           /\ Stored(a).version = line.version + 1
           /\ Stored(a).stage # line.stage =>
                /\ Stored(a).stage = NextStage(line.stage)
                /\ line.stage = "review" => line.status = "approved"
           /\ line.approved => Stored(a).approved
           /\ act[a].pc = "reopen" => act[a].job # "approve" /\ Stored(a).stage # "complete"
  <1> DEFINE t == act[a]
             p == t.copy
             w == Written(a)
  <1>1. /\ p \in Line /\ t \in Task /\ line \in Line
        /\ t.pc \in {"reopen", "fail", "write"} /\ p.version = line.version
    BY DEF PipeInv, PipelineTypeOK, Task, Storing, Current
  <1>2. /\ Fits(p) /\ Past(p) /\ Dated(t)
        /\ t.job = "approve" => Approving(t)
        /\ t.job # "approve" => Advancing(t, call[a])
    <2>1. TaskSound(t, call[a])
      BY DEF PipeInv
    <2> HIDE DEF t
    <2> QED
      BY <1>1, <2>1 DEF TaskSound
  <1>3. /\ p.stage = line.stage /\ p.approved = line.approved
        /\ t.pc # "reopen" => p.status = line.status
    BY <1>1, <1>2 DEF Dated
  <1>4. /\ w \in Line /\ Fits(w) /\ Past(w)
        /\ w.stage # line.stage =>
             /\ w.stage = NextStage(line.stage)
             /\ line.stage = "review" => line.status = "approved"
        /\ line.approved => w.approved
        /\ t.pc = "reopen" => t.job # "approve" /\ w.stage # "complete"
    <2>1. CASE t.pc = "reopen"
      <3>1. w = p
        BY <2>1 DEF Written
      <3>2. t.job # "approve" /\ p.stage \in {"research", "script", "review"}
        BY <2>1, <1>2 DEF Approving, Advancing
      <3> QED
        BY <3>1, <3>2, <1>1, <1>2, <1>3
    <2>2. CASE t.pc = "fail"
      <3>1. w = [p EXCEPT !.status = "failed"]
        BY <2>2 DEF Written
      <3>2. t.job # "approve" /\ p.stage \in {"research", "script", "review"}
        BY <2>2, <1>2 DEF Approving, Advancing
      <3>3. /\ w \in Line /\ w.stage = p.stage /\ w.status = "failed"
            /\ w.approved = p.approved /\ w.draft = p.draft
        BY <3>1, <1>1 DEF Line, LineStatus
      <3> HIDE DEF w, p
      <3>4. Fits(w) /\ Past(w)
        BY <3>2, <3>3, <1>2 DEF Fits, Past
      <3> QED
        BY <2>2, <3>3, <3>4, <1>3
    <2>3. CASE t.pc = "write" /\ t.job = "approve"
      <3>1. w = [p EXCEPT !.status = "approved", !.approved = TRUE]
        BY <2>3 DEF Written
      <3>2. p.stage = "review"
        BY <2>3, <1>2 DEF Approving
      <3>3. /\ w \in Line /\ w.stage = p.stage /\ w.status = "approved"
            /\ w.approved = TRUE /\ w.draft = p.draft
        BY <3>1, <1>1 DEF Line, LineStatus
      <3> HIDE DEF w, p
      <3>4. Fits(w) /\ Past(w)
        BY <3>2, <3>3, <1>2 DEF Fits, Past
      <3> QED
        BY <2>3, <3>3, <3>4, <1>3
    <2>4. CASE t.pc = "write" /\ t.job # "approve"
      <3>1. w = Advanced(p)
        BY <2>4 DEF Written
      <3>2. /\ p.stage # "complete"
            /\ p.stage = "review" => Releasable(p) /\ Draft \in platform
        BY <2>4, <1>2 DEF Advancing
      <3>3. /\ w \in Line /\ w.stage = NextStage(p.stage) /\ w.approved = p.approved
            /\ Fits(w) /\ (p.published => w.published)
            /\ (p.stage = "review" => w.published /\ p.approved /\ p.status = "approved")
        BY <3>1, <3>2, <1>1, <1>2, AdvancedFacts DEF Releasable, Approved
      <3>4. ApprovalGate
        BY DEF PipeInv, PubInv
      <3>5. p.stage \in {"research", "script", "review", "publish"}
        BY <3>2, <1>1, StageFacts DEF Line
      <3> HIDE DEF w, p
      <3>6. Past(w)
        BY <3>2, <3>3, <3>4, <3>5, <1>2, StageFacts DEF Past, ApprovalGate
      <3> QED
        BY <2>4, <3>3, <3>6, <1>3
    <2> HIDE DEF t, w
    <2> QED
      BY <1>1, <2>1, <2>2, <2>3, <2>4
  <1>5. line.version + 1 \in Nat
    BY <1>1 DEF Line
  <1>6. /\ Stored(a) \in Line /\ Stored(a).version = line.version + 1
        /\ Stored(a).stage = w.stage /\ Stored(a).status = w.status
        /\ Stored(a).approved = w.approved /\ Stored(a).draft = w.draft
        /\ Stored(a).published = w.published
    <2> HIDE DEF w
    <2>1. Stored(a) = [w EXCEPT !.version = line.version + 1]
      BY DEF Stored, w
    <2> QED
      BY <1>4, <1>5, <2>1 DEF Line
  <1> HIDE DEF w
  <1>7. Fits(Stored(a)) /\ Past(Stored(a))
    BY <1>4, <1>6 DEF Fits, Past
  <1> QED
    BY <1>4, <1>6, <1>7

\* Whose copy is current replaces the row.
LEMMA StoreInv ==
    ASSUME PipeInv, NEW a \in Actor, Store(a)
    PROVE  PipeInv'
  <1> DEFINE n == Stored(a)
             pc == CASE act[a].pc = "reopen" -> "work"
                     [] act[a].pc = "write" -> "announce"
                     [] act[a].pc = "fail" -> "answer"
             err == IF act[a].pc = "fail" THEN "other" ELSE "none"
  <1>1. /\ act[a].pc \in Storing /\ Current(act[a].copy) /\ line' = n
        /\ UNCHANGED <<pubVars, queue, bounds>>
        /\ act' = [act EXCEPT ![a].copy = n, ![a].err = err, ![a].pc = pc]
    BY DEF Store
  <1>2. /\ n \in Line /\ Fits(n) /\ Past(n) /\ n.version = line.version + 1
        /\ act[a].pc = "reopen" => act[a].job # "approve" /\ n.stage # "complete"
    BY <1>1, StoredFacts
  <1>3. pc \in Pc /\ err \in Err /\ pc \in {"work", "announce", "answer"}
        /\ (pc = "work" => act[a].pc = "reopen")
    BY <1>1 DEF Storing, Pc, Err
  <1> HIDE DEF n, pc, err
  <1>4. /\ act' \in [Actor -> Task] /\ \A q \in Actor \ {a} : act'[q] = act[q]
        /\ act'[a].pc = pc /\ act'[a].copy = n /\ act'[a].job = act[a].job
    <2>1. act \in [Actor -> Task]
      BY DEF PipeInv, PipelineTypeOK
    <2>2. act' = [act EXCEPT ![a] = [act[a] EXCEPT !.copy = n, !.err = err, !.pc = pc]]
      BY <1>1, <2>1
    <2>3. [act[a] EXCEPT !.copy = n, !.err = err, !.pc = pc] \in Task
      BY <1>2, <1>3, <2>1 DEF Task
    <2>4. act'[a] = [act[a] EXCEPT !.copy = n, !.err = err, !.pc = pc]
      BY <2>1, <2>2
    <2>5. act'[a].pc = pc /\ act'[a].copy = n /\ act'[a].job = act[a].job
      BY <2>1, <2>4 DEF Task
    <2> QED
      BY <2>1, <2>2, <2>3, <2>5
  <1>5. PubInv'
    BY <1>1, PubUnchanged DEF PipeInv
  <1>6. line.version \in Nat /\ n.version > line.version /\ n.version # 0
    BY <1>2 DEF PipeInv, PipelineTypeOK, Line
  <1>7. LineSound'
    BY <1>1, <1>2, <1>6 DEF LineSound, Fits, Past, pubVars
  <1>8. TaskSound(act[a], call[a])'
    <2>1. Dated(act[a])'
      BY <1>1, <1>2, <1>4, <1>6 DEF Dated
    <2>2. Fits(act[a].copy)' /\ Past(act[a].copy)'
      BY <1>1, <1>2, <1>4 DEF Fits, Past, pubVars
    <2>3. act'[a].pc # "answer" => /\ act'[a].job = "approve" => Approving(act[a])'
                                   /\ act'[a].job # "approve" => Advancing(act[a], call[a])'
      BY <1>2, <1>3, <1>4 DEF Approving, Advancing
    <2> QED
      BY <2>1, <2>2, <2>3 DEF TaskSound
  <1>9. /\ platform' = platform /\ approvals' = approvals /\ call' = call
        /\ queue' \in [Command -> Nat] /\ requests' \in 0..MaxRequests
        /\ faults' \in 0..MaxFaults
    BY <1>1 DEF pubVars, bounds, PipeInv, PipelineTypeOK
  <1> QED
    BY <1>1, <1>2, <1>4, <1>5, <1>6, <1>7, <1>8, <1>9, TaskStep

-----------------------------------------------------------------------------
(* The other steps.                                                        *)

\* A step on to another point, that leaves row and queue alone.
LEMMA GotoInv ==
    ASSUME PipeInv, PubInv', NEW a \in Actor, NEW pc \in Pc, Goto(a, pc),
           UNCHANGED <<line, queue, bounds>>, act[a].pc \notin {"idle", "answer", "reopen"},
           \A q \in Actor \ {a} : call'[q] = call[q],
           platform \subseteq platform', approvals \subseteq approvals',
           pc # "reopen",
           act[a].job = "approve" => Approving(act[a])',
           act[a].job # "approve" => Advancing(act[a], call[a])'
    PROVE  PipeInv'
  <1>1. /\ act' \in [Actor -> Task] /\ \A q \in Actor \ {a} : act'[q] = act[q]
        /\ act'[a].pc = pc /\ act'[a].copy = act[a].copy /\ act'[a].job = act[a].job
    BY GotoFacts
  <1>2. Fits(act[a].copy) /\ Past(act[a].copy) /\ Dated(act[a])
    BY DEF PipeInv, TaskSound
  <1>3. LineSound' /\ line' \in Line
    BY LineKept
  <1>4. Fits(act[a].copy)' /\ Past(act[a].copy)' /\ Dated(act[a])'
    BY <1>1, <1>2 DEF Fits, Past, Dated
  <1>5. TaskSound(act[a], call[a])'
    BY <1>1, <1>4 DEF TaskSound
  <1>6. /\ queue' \in [Command -> Nat] /\ requests' \in 0..MaxRequests
        /\ faults' \in 0..MaxFaults
    BY DEF bounds, PipeInv, PipelineTypeOK
  <1> QED
    BY <1>1, <1>3, <1>5, <1>6, TaskStep

\* A task in progress knows what TaskSound says.
LEMMA InProgress ==
    ASSUME PipeInv, NEW a \in Actor, act[a].pc \notin {"idle", "answer"}
    PROVE  /\ Fits(act[a].copy) /\ Past(act[a].copy) /\ Dated(act[a])
           /\ act[a].job = "approve" => Approving(act[a])
           /\ act[a].job # "approve" => Advancing(act[a], call[a])
           /\ act[a].copy \in Line
  BY DEF PipeInv, TaskSound, PipelineTypeOK, Task

\* The work of a stage only decides where the task goes next.
LEMMA StageWorkInv ==
    ASSUME PipeInv, NEW a \in Actor, NEW ok \in BOOLEAN, StageWork(a, ok)
    PROVE  PipeInv'
  <1> DEFINE c == act[a].copy
             to == NextStage(c.stage)
             pc == CASE ~ok -> "fail"
                     [] ok /\ to = "review" -> "prepare"
                     [] ok /\ to = "publish" -> "consult"
                     [] OTHER -> "write"
  <1>1. /\ act[a].pc = "work" /\ (~ok => to \in {"script", "review"})
        /\ Goto(a, pc) /\ UNCHANGED <<pubVars, line, queue, bounds>>
    BY DEF StageWork
  <1>2. act[a].job # "approve" /\ c.stage # "complete" /\ c.stage \in Stage
    BY <1>1, InProgress DEF Approving, Advancing, Line
  <1>3. /\ pc \in Pc /\ pc \in {"fail", "prepare", "consult", "write"}
        /\ pc = "fail" => c.stage \in {"research", "script"}
        /\ pc = "prepare" => c.stage = "script"
        /\ pc = "consult" => c.stage = "review"
        /\ pc = "write" => c.stage \in {"research", "publish"}
    <2>1. c.stage \in {"research", "script", "review", "publish"}
      BY <1>2, StageFacts
    <2>2. CASE ~ok
      <3>1. pc = "fail"
        BY <2>2
      <3> QED
        BY <1>1, <2>1, <2>2, <3>1, StageFacts DEF Pc, Storing
    <2>3. CASE ok
      BY <2>1, <2>3, StageFacts DEF Pc, Storing
    <2> QED
      BY <2>2, <2>3
  <1> HIDE DEF pc
  <1>4. act'[a].pc = pc /\ act'[a].copy = c /\ act'[a].job = act[a].job
    BY <1>1, <1>3, GotoFacts
  <1>5. Advancing(act[a], call[a])'
    BY <1>3, <1>4 DEF Advancing
  <1>6. PubInv'
    BY <1>1, PubUnchanged DEF PipeInv
  <1>7. call' = call /\ platform' = platform /\ approvals' = approvals
    BY <1>1 DEF pubVars
  <1> QED
    BY <1>1, <1>2, <1>3, <1>5, <1>6, <1>7, GotoInv

\* The publication is looked up before it is submitted.
LEMMA PrepareInv ==
    ASSUME PipeInv, NEW a \in Actor, Prepare(a)
    PROVE  PipeInv'
  <1> DEFINE found == rows[Draft].status
             pc == CASE found \in {"absent", "queued"} -> "submit"
                     [] found \in {"review", "approved", "published"} -> "write"
                     [] OTHER -> "fail"
  <1>1. /\ act[a].pc = "prepare" /\ Goto(a, pc) /\ UNCHANGED <<line, queue, bounds>>
        /\ IF found = "absent" THEN Create(Draft) ELSE UNCHANGED pubVars
    BY DEF Prepare
  <1>2. act[a].job # "approve" /\ act[a].copy.stage = "script"
    BY <1>1, InProgress DEF Approving, Advancing
  <1>3. pc \in Pc /\ pc \in {"submit", "write", "fail"}
    BY DEF Pc, Calling, Storing
  <1> HIDE DEF pc
  <1>4. act'[a].pc = pc /\ act'[a].copy = act[a].copy /\ act'[a].job = act[a].job
    BY <1>1, <1>3, GotoFacts
  <1>5. Advancing(act[a], call[a])'
    BY <1>2, <1>3, <1>4 DEF Advancing
  <1>6. PubInv'
    BY <1>1, PubUnchanged, CreateInv, PipelineAssumption DEF PipeInv
  <1>7. call' = call /\ platform' = platform /\ approvals' = approvals
    BY <1>1 DEF pubVars, Create
  <1> QED
    BY <1>1, <1>2, <1>3, <1>5, <1>6, <1>7, GotoInv

\* Only an approved copy with a draft goes on, and what counts as published
\* already was accepted by the platform.
LEMMA ConsultInv ==
    ASSUME PipeInv, NEW a \in Actor, Consult(a)
    PROVE  PipeInv'
  <1> DEFINE found == rows[Draft].status
             pc == CASE found = "published" -> "write"
                     [] found = "failed" -> "retry"
                     [] OTHER -> "publish"
  <1>1. /\ act[a].pc = "consult" /\ UNCHANGED <<pubVars, line, queue, bounds>>
        /\ IF ~Releasable(act[a].copy) THEN Return(a, "other") ELSE Goto(a, pc)
    BY DEF Consult
  <1>2. /\ queue' \in [Command -> Nat] /\ requests' \in 0..MaxRequests
        /\ faults' \in 0..MaxFaults
    BY <1>1 DEF bounds, PipeInv, PipelineTypeOK
  <1>3. CASE ~Releasable(act[a].copy)
    BY <1>1, <1>2, <1>3, ReturnInv DEF Err
  <1>4. CASE Releasable(act[a].copy)
    <2>1. act[a].job # "approve" /\ act[a].copy.stage = "review"
      BY <1>1, InProgress DEF Approving, Advancing
    <2>2. /\ pc \in Pc /\ pc \in {"write", "retry", "publish"}
          /\ pc = "write" => found = "published"
      BY DEF Pc, Calling, Storing
    <2>3. found = "published" => Draft \in platform
      BY PipelineAssumption DEF PipeInv, PubInv, RowsJustified, Justified
    <2> HIDE DEF pc
    <2>4. act'[a].pc = pc /\ act'[a].copy = act[a].copy /\ act'[a].job = act[a].job
      BY <1>1, <1>4, <2>2, GotoFacts
    <2>5. call' = call /\ platform' = platform /\ approvals' = approvals
      BY <1>1 DEF pubVars
    <2>6. Advancing(act[a], call[a])'
      BY <1>4, <2>1, <2>2, <2>3, <2>4, <2>5 DEF Advancing, Releasable, Approved
    <2>7. PubInv'
      BY <1>1, PubUnchanged DEF PipeInv
    <2> QED
      BY <1>1, <1>4, <2>1, <2>2, <2>5, <2>6, <2>7, GotoInv
  <1> QED
    BY <1>3, <1>4

\* An approval that the publication already has is not asked for again.
LEMMA GrantInv ==
    ASSUME PipeInv, NEW a \in Actor, Grant(a)
    PROVE  PipeInv'
  <1> DEFINE pc == IF rows[Draft].status \in {"approved", "published"} THEN "write" ELSE "approve"
  <1>1. /\ act[a].pc = "grant" /\ Goto(a, pc) /\ UNCHANGED <<pubVars, line, queue, bounds>>
    BY DEF Grant
  <1>2. act[a].job = "approve" /\ act[a].copy.stage = "review"
    BY <1>1, InProgress DEF Approving, Advancing
  <1>3. pc \in Pc /\ pc \in {"write", "approve"}
    BY DEF Pc, Calling, Storing
  <1> HIDE DEF pc
  <1>4. act'[a].pc = pc /\ act'[a].copy = act[a].copy /\ act'[a].job = act[a].job
    BY <1>1, <1>3, GotoFacts
  <1>5. Approving(act[a])'
    BY <1>2, <1>3, <1>4 DEF Approving
  <1>6. PubInv'
    BY <1>1, PubUnchanged DEF PipeInv
  <1>7. call' = call /\ platform' = platform /\ approvals' = approvals
    BY <1>1 DEF pubVars
  <1> QED
    BY <1>1, <1>2, <1>3, <1>5, <1>6, <1>7, GotoInv

\* A call of the publishing service begins.
LEMMA CallServiceInv ==
    ASSUME PipeInv, NEW a \in Actor, CallService(a)
    PROVE  PipeInv'
  <1> DEFINE op == act[a].pc
  <1>1. /\ op \in Calling /\ Goto(a, "call") /\ UNCHANGED <<line, queue, bounds>>
        /\ Begin(a, Draft, op) \/ Throttled(a, Draft, op)
    BY DEF CallService
  <1>2. a \in Caller /\ Draft \in Publications /\ op \in Op /\ "call" \in Pc
    BY <1>1, PipelineAssumption DEF Actor, Calling, Op, Pc
  <1>3. PubInv'
    BY <1>1, <1>2, BeginInv, ThrottledInv DEF PipeInv
  <1>4. /\ call'[a].of = Draft /\ call'[a].op = op
        /\ \A q \in Caller \ {a} : call'[q] = call[q]
        /\ platform' = platform /\ approvals' = approvals
    <2>1. call \in [Caller -> PubCall]
      BY DEF PipeInv, PubInv, PubTypeOK
    <2> HIDE DEF op
    <2>2. CASE Begin(a, Draft, op)
      BY <1>2, <2>1, <2>2 DEF Begin, NoCall
    <2>3. CASE Throttled(a, Draft, op)
      BY <1>2, <2>1, <2>3 DEF Throttled, NoCall
    <2> QED
      BY <1>1, <2>2, <2>3
  <1>5. /\ act[a].job = "approve" => op = "approve" /\ act[a].copy.stage = "review"
        /\ act[a].job # "approve" =>
            \/ act[a].copy.stage = "script"
            \/ /\ act[a].copy.stage = "review" /\ Releasable(act[a].copy)
               /\ op \in Delivering
    BY <1>1, InProgress DEF Approving, Advancing, Calling, Delivering
  <1>6. act'[a].pc = "call" /\ act'[a].copy = act[a].copy /\ act'[a].job = act[a].job
    BY <1>1, <1>2, GotoFacts
  <1> HIDE DEF op
  <1>7. /\ act[a].job = "approve" => Approving(act[a])'
        /\ act[a].job # "approve" => Advancing(act[a], call[a])'
    BY <1>4, <1>5, <1>6 DEF Approving, Advancing, Releasable, Approved
  <1>8. act[a].pc \notin {"idle", "answer", "reopen"}
    BY <1>1 DEF op, Calling
  <1>9. \A q \in Actor \ {a} : call'[q] = call[q]
    BY <1>4, PipelineAssumption DEF Actor
  <1> QED
    BY <1>1, <1>2, <1>3, <1>4, <1>7, <1>8, <1>9, GotoInv

\* The service has answered; a delivery it acknowledged reached the platform.
LEMMA ServiceAnswersInv ==
    ASSUME PipeInv, NEW a \in Actor, ServiceAnswers(a)
    PROVE  PipeInv'
  <1>1. /\ act[a].pc = "call" /\ call' = [call EXCEPT ![a] = NoCall]
        /\ UNCHANGED <<rows, approvals, rejections, platform, line, queue, bounds>>
        /\ IF call[a].ok THEN Goto(a, "write")
           ELSE IF act[a].job = "approve" THEN Return(a, "other") ELSE Goto(a, "fail")
    BY DEF ServiceAnswers
  <1>2. a \in Caller
    BY PipelineAssumption DEF Actor
  <1>3. PubInv'
    BY <1>1, <1>2, EndCallInv DEF PipeInv
  <1>4. \A q \in Actor \ {a} : call'[q] = call[q]
    BY <1>1, PipelineAssumption DEF PipeInv, PubInv, PubTypeOK, Actor
  <1>5. /\ act[a].job = "approve" => act[a].copy.stage = "review"
        /\ act[a].job # "approve" =>
            \/ act[a].copy.stage = "script"
            \/ /\ act[a].copy.stage = "review" /\ Releasable(act[a].copy)
               /\ call[a].of = Draft /\ call[a].op \in Delivering
    BY <1>1, InProgress DEF Approving, Advancing
  <1>6. call[a].ok /\ call[a].of = Draft /\ call[a].op \in Delivering => Draft \in platform
    BY <1>2 DEF PipeInv, PubInv, CallSound
  <1>7. CASE call[a].ok
    <2>1. Goto(a, "write") /\ "write" \in Pc
      BY <1>1, <1>7 DEF Pc, Storing
    <2>2. act'[a].pc = "write" /\ act'[a].copy = act[a].copy /\ act'[a].job = act[a].job
      BY <2>1, GotoFacts
    <2>3. /\ act[a].job = "approve" => Approving(act[a])'
          /\ act[a].job # "approve" => Advancing(act[a], call[a])'
      BY <1>1, <1>5, <1>6, <1>7, <2>2 DEF Approving, Advancing, Releasable, Approved
    <2> QED
      BY <1>1, <1>3, <1>4, <2>1, <2>3, GotoInv
  <1>8. CASE ~call[a].ok /\ act[a].job # "approve"
    <2>1. Goto(a, "fail") /\ "fail" \in Pc
      BY <1>1, <1>8 DEF Pc, Storing
    <2>2. act'[a].pc = "fail" /\ act'[a].copy = act[a].copy /\ act'[a].job = act[a].job
      BY <2>1, GotoFacts
    <2>3. Advancing(act[a], call[a])'
      BY <1>5, <1>8, <2>2 DEF Advancing
    <2> QED
      BY <1>1, <1>3, <1>4, <1>8, <2>1, <2>3, GotoInv
  <1>9. CASE ~call[a].ok /\ act[a].job = "approve"
    <2>1. Return(a, "other") /\ "other" \in Err
      BY <1>1, <1>9 DEF Err
    <2>2. LineSound' /\ line' \in Line
      BY <1>1, LineKept
    <2>3. /\ queue' \in [Command -> Nat] /\ requests' \in 0..MaxRequests
          /\ faults' \in 0..MaxFaults
      BY <1>1 DEF bounds, PipeInv, PipelineTypeOK
    <2> QED
      BY <1>1, <1>3, <1>4, <2>1, <2>2, <2>3, ReturnFacts, TaskStep
  <1> QED
    BY <1>7, <1>8, <1>9

\* The service works on an actor's command.
LEMMA ServiceInv ==
    ASSUME PipeInv, NEW c \in Caller, ServiceStep(c), UNCHANGED pipeVars
    PROVE  PipeInv'
  <1>1. PubInv'
    BY ServiceStepInv DEF PipeInv
  <1>2. /\ platform \subseteq platform' /\ approvals \subseteq approvals'
        /\ \A q \in Caller \ {c} : call'[q] = call[q]
        /\ call'[c].of = call[c].of /\ call'[c].op = call[c].op
    BY ServiceFrame DEF PipeInv
  <1>3. /\ line' = line /\ act' = act /\ queue' = queue /\ requests' = requests
        /\ faults' = faults
    BY DEF pipeVars
  <1>4. LineSound' /\ line' \in Line
    BY <1>2, <1>3, LineKept
  <1>5. \A a \in Actor : TaskSound(act[a], call[a])'
    <2> SUFFICES ASSUME NEW a \in Actor PROVE TaskSound(act[a], call[a])'
      OBVIOUS
    <2>1. call'[a].of = call[a].of /\ call'[a].op = call[a].op
      BY <1>2, PipelineAssumption DEF Actor
    <2> QED
      BY <1>2, <1>3, <1>4, <2>1, TaskKept
  <1>6. PipelineTypeOK'
    BY <1>1, <1>3 DEF PipeInv, PipelineTypeOK, PubInv
  <1> QED
    BY <1>1, <1>4, <1>5, <1>6 DEF PipeInv

\* The event of a stage is sent and the task is over.
LEMMA AnnounceInv ==
    ASSUME PipeInv, NEW a \in Actor, Announce(a)
    PROVE  PipeInv'
  <1>1. /\ Return(a, "none") /\ "none" \in Err /\ UNCHANGED <<pubVars, line, bounds>>
        /\ queue' \in [Command -> Nat]
    BY QueueFacts DEF Announce, Err, PipeInv, PipelineTypeOK
  <1>2. requests' \in 0..MaxRequests /\ faults' \in 0..MaxFaults
    BY <1>1 DEF bounds, PipeInv, PipelineTypeOK
  <1> QED
    BY <1>1, <1>2, ReturnInv

\* A task that ends in an error leaves the line alone.
LEMMA RefusedInv ==
    ASSUME PipeInv, NEW a \in Actor, AnnounceFails(a) \/ Unstored(a) \/ Conflict(a)
    PROVE  PipeInv'
  <1>1. /\ Return(a, "other") /\ "other" \in Err /\ UNCHANGED <<pubVars, line, queue>>
        /\ UNCHANGED bounds \/ \E kind : Fault(kind)
    BY DEF AnnounceFails, Unstored, Conflict, Err
  <1>2. /\ queue' \in [Command -> Nat]
        /\ requests' \in 0..MaxRequests /\ faults' \in 0..MaxFaults
    BY <1>1, FaultFacts DEF bounds, PipeInv, PipelineTypeOK
  <1> QED
    BY <1>1, <1>2, ReturnInv

\* A task that starts on the row as it is, for a job other than an approval.
Starting(t) ==
    /\ t.copy = line /\ t.job # "approve"
    /\ t.pc \in {"answer", "repair", "announce", "work"}
    /\ t.pc = "work" => line.stage # "complete"

\* A task begins with a copy of the row as it is.
LEMMA StartInv ==
    ASSUME PipeInv, NEW a \in Actor, NEW t \in Task, act' = [act EXCEPT ![a] = t],
           Starting(t), UNCHANGED <<pubVars, line>>, queue' \in [Command -> Nat],
           requests' \in 0..MaxRequests, faults' \in 0..MaxFaults
    PROVE  PipeInv'
  <1>1. PubInv'
    BY PubUnchanged DEF PipeInv
  <1>2. LineSound' /\ line' \in Line
    BY LineKept DEF pubVars
  <1>3. /\ act' \in [Actor -> Task] /\ act'[a] = t
        /\ \A q \in Actor \ {a} : act'[q] = act[q]
    BY DEF PipeInv, PipelineTypeOK
  <1>4. TaskSound(act[a], call[a])'
    <2>1. Fits(line)' /\ Past(line)' /\ line.version \in Nat
      BY <1>2 DEF LineSound, PipeInv, PipelineTypeOK, Line
    <2>2. Fits(act[a].copy)' /\ Past(act[a].copy)'
      BY <1>3, <2>1 DEF Starting, Fits, Past
    <2>3. Dated(act[a])'
      BY <1>3, <2>1 DEF Starting, Dated
    <2>4. Advancing(act[a], call[a])' /\ act'[a].job # "approve"
      BY <1>3 DEF Starting, Advancing
    <2> QED
      BY <2>2, <2>3, <2>4 DEF TaskSound
  <1> QED
    BY <1>1, <1>2, <1>3, <1>4, TaskStep DEF pubVars

\* The task that an event starts.
LEMMA TaskOfFacts ==
    ASSUME PipeInv, NEW e \in Command, NEW pc \in Pc, NEW err \in Err
    PROVE  /\ TaskOf(e, pc, err) \in Task /\ TaskOf(e, pc, err).copy = line
           /\ TaskOf(e, pc, err).job = "event" /\ TaskOf(e, pc, err).pc = pc
  BY DEF TaskOf, Idle, Task, PipeInv, PipelineTypeOK, Command

\* A consumer takes an event and begins to advance the line.
LEMMA AdvanceFromEventInv ==
    ASSUME PipeInv, NEW h \in Handler, NEW e \in Command, AdvanceFromEvent(h, e)
    PROVE  PipeInv'
  <1>1. Take(h, e) /\ UNCHANGED <<pubVars, line, bounds>> /\ h \in Actor
    BY DEF AdvanceFromEvent, Actor
  <1>2. PICK pc \in {"repair", "work", "answer"}, err \in Err :
            /\ act' = [act EXCEPT ![h] = TaskOf(e, pc, err)]
            /\ pc = "work" => CanAdvance(line)
    <2>1. CASE line.stage # EventKind(e)
      BY <2>1 DEF AdvanceFromEvent, Err
    <2>2. CASE line.stage = EventKind(e) /\ CanAdvance(line)
      BY <2>2 DEF AdvanceFromEvent, Err
    <2>3. CASE line.stage = EventKind(e) /\ ~CanAdvance(line)
      <3> DEFINE err == IF line.status \in {"done", "failed"} THEN "terminal" ELSE "other"
      <3>1. act' = [act EXCEPT ![h] = TaskOf(e, "answer", err)]
        BY <2>3 DEF AdvanceFromEvent
      <3>2. err \in Err
        BY DEF Err
      <3> HIDE DEF err
      <3> QED
        BY <3>1, <3>2
    <2> QED
      BY <2>1, <2>2, <2>3
  <1>3. /\ queue' \in [Command -> Nat]
        /\ requests' \in 0..MaxRequests /\ faults' \in 0..MaxFaults
    BY <1>1, QueueFacts DEF Take, bounds, PipeInv, PipelineTypeOK
  <1>4. pc \in Pc
    BY DEF Pc
  <1>5. TaskOf(e, pc, err) \in Task /\ Starting(TaskOf(e, pc, err))
    BY <1>2, <1>4, TaskOfFacts DEF Starting, CanAdvance
  <1> QED
    BY <1>1, <1>2, <1>3, <1>5, StartInv

\* A consumer takes the event of a failed pipeline and refuses it.
LEMMA TakeForeignInv ==
    ASSUME PipeInv, NEW h \in Actor, TakeForeign(h)
    PROVE  PipeInv'
  <1> DEFINE t == [Idle EXCEPT !.pc = "answer", !.job = "foreign", !.err = "terminal"]
  <1>1. /\ act' = [act EXCEPT ![h] = t] /\ UNCHANGED <<pubVars, line, queue, bounds>>
        /\ queue \in [Command -> Nat] /\ requests \in 0..MaxRequests
        /\ faults \in 0..MaxFaults
    BY DEF TakeForeign, PipeInv, PipelineTypeOK
  <1>2. t \in Task /\ t.pc = "answer"
    BY NewLineFacts DEF Idle, Task, Pc, Err
  <1> HIDE DEF t
  <1>3. /\ act' \in [Actor -> Task] /\ act'[h].pc = "answer"
        /\ \A q \in Actor \ {h} : act'[q] = act[q]
    BY <1>1, <1>2 DEF PipeInv, PipelineTypeOK
  <1>4. TaskSound(act[h], call[h])'
    BY <1>3 DEF TaskSound
  <1>5. PubInv' /\ LineSound' /\ line' \in Line
    BY <1>1, PubUnchanged, LineKept DEF PipeInv, pubVars
  <1> QED
    BY <1>1, <1>3, <1>4, <1>5, TaskStep DEF bounds, pubVars

\* The guard turns a task away before it reads anything.
LEMMA RateLimitedInv ==
    ASSUME PipeInv, NEW h \in Handler, NEW e \in Command, RateLimited(h, e)
    PROVE  PipeInv'
  <1>1. /\ Take(h, e) /\ Fault("limit") /\ UNCHANGED <<pubVars, line>> /\ h \in Actor
        /\ act' = [act EXCEPT ![h] = TaskOf(e, "answer", "other")]
    BY DEF RateLimited, Actor
  <1>2. queue' \in [Command -> Nat]
    BY <1>1, QueueFacts DEF Take
  <1>3. TaskOf(e, "answer", "other") \in Task /\ Starting(TaskOf(e, "answer", "other"))
    BY TaskOfFacts DEF Starting, Pc, Err
  <1> QED
    BY <1>1, <1>2, <1>3, FaultFacts, StartInv

\* An event that is behind is answered from the row as it is now.
LEMMA RepairInv ==
    ASSUME PipeInv, NEW h \in Actor, Repair(h)
    PROVE  PipeInv'
  <1>1. /\ act[h].pc = "repair" /\ UNCHANGED <<pubVars, line, queue, bounds>>
        /\ \/ act' = [act EXCEPT ![h].pc = "announce", ![h].copy = line]
           \/ Return(h, "other")
    BY DEF Repair
  <1>2. /\ queue' \in [Command -> Nat]
        /\ requests' \in 0..MaxRequests /\ faults' \in 0..MaxFaults
    BY <1>1 DEF bounds, PipeInv, PipelineTypeOK
  <1>3. CASE Return(h, "other")
    BY <1>1, <1>2, <1>3, ReturnInv DEF Err
  <1>4. CASE act' = [act EXCEPT ![h].pc = "announce", ![h].copy = line]
    <2> DEFINE t == [act[h] EXCEPT !.pc = "announce", !.copy = line]
    <2>1. t \in Task /\ t.pc = "announce" /\ t.copy = line /\ t.job = act[h].job
      BY DEF PipeInv, PipelineTypeOK, Task, Pc
    <2>2. act' = [act EXCEPT ![h] = t]
      BY <1>4 DEF PipeInv, PipelineTypeOK
    <2>3. act[h].job # "approve"
      BY <1>1, InProgress DEF Approving
    <2> HIDE DEF t
    <2>4. Starting(t)
      BY <2>1, <2>3 DEF Starting
    <2> QED
      BY <1>1, <1>2, <2>1, <2>2, <2>4, StartInv
  <1> QED
    BY <1>1, <1>3, <1>4

\* A request's bounds and its task.
LEMMA RequestStart ==
    ASSUME PipeInv, NEW o \in Operator, NEW job \in {"create", "approve", "retry"},
           NEW pc \in Pc, NEW p \in Line, Request(o, job, pc, p)
    PROVE  /\ requests' \in 0..MaxRequests /\ faults' \in 0..MaxFaults /\ o \in Actor
           /\ act' \in [Actor -> Task] /\ \A q \in Actor \ {o} : act'[q] = act[q]
           /\ act'[o].copy = p /\ act'[o].job = job /\ act'[o].pc = pc
  <1> DEFINE t == [Idle EXCEPT !.job = job, !.copy = p, !.pc = pc]
  <1>1. t \in Task /\ t.copy = p /\ t.job = job /\ t.pc = pc
    BY DEF Idle, Task, Err
  <1>2. act' = [act EXCEPT ![o] = t] /\ o \in Actor
    BY DEF Request, Actor
  <1>3. requests' \in 0..MaxRequests /\ faults' \in 0..MaxFaults
    BY PipelineAssumption DEF Request, PipeInv, PipelineTypeOK
  <1> HIDE DEF t
  <1> QED
    BY <1>1, <1>2, <1>3 DEF PipeInv, PipelineTypeOK

\* A request whose task is sound, on a row that stays.
LEMMA RequestInv ==
    ASSUME PipeInv, NEW o \in Operator, NEW job \in {"create", "approve", "retry"},
           NEW pc \in Pc, NEW p \in Line, Request(o, job, pc, p),
           UNCHANGED <<pubVars, line, queue>>,
           Fits(p), Past(p), p.version = line.version, p.stage = line.stage,
           p.approved = line.approved, pc # "reopen" => p.status = line.status,
           job = "approve" => pc \in {"announce", "grant"} /\ p.stage = "review",
           job # "approve" => \/ pc = "announce"
                              \/ pc = "reopen" /\ p.stage \in {"research", "script", "review"}
    PROVE  PipeInv'
  <1>1. /\ requests' \in 0..MaxRequests /\ faults' \in 0..MaxFaults /\ o \in Actor
        /\ act' \in [Actor -> Task] /\ \A q \in Actor \ {o} : act'[q] = act[q]
        /\ act'[o].copy = p /\ act'[o].job = job /\ act'[o].pc = pc
    BY RequestStart
  <1>2. PubInv'
    BY PubUnchanged DEF PipeInv
  <1>3. LineSound' /\ line' \in Line
    BY LineKept DEF pubVars
  <1>4. line.version \in Nat /\ queue' \in [Command -> Nat]
    BY DEF PipeInv, PipelineTypeOK, Line
  <1>5. TaskSound(act[o], call[o])'
    <2>1. Fits(act[o].copy)' /\ Past(act[o].copy)'
      BY <1>1 DEF Fits, Past, pubVars
    <2>2. Dated(act[o])'
      BY <1>1, <1>4 DEF Dated
    <2>3. CASE job = "approve"
      BY <1>1, <2>1, <2>2, <2>3 DEF TaskSound, Approving
    <2>4. CASE job # "approve"
      BY <1>1, <2>1, <2>2, <2>4 DEF TaskSound, Advancing
    <2> QED
      BY <2>3, <2>4
  <1> QED
    BY <1>1, <1>2, <1>3, <1>4, <1>5, TaskStep DEF pubVars

\* A new line of content begins at its first stage.
LEMMA CreateLineInv ==
    ASSUME PipeInv, NEW o \in Operator, CreateLine(o)
    PROVE  PipeInv'
  <1>1. /\ line.version = 0 /\ line' = NewLine /\ Request(o, "create", "announce", NewLine)
        /\ UNCHANGED <<pubVars, queue>> /\ "announce" \in Pc
    BY DEF CreateLine, Pc
  <1>2. /\ requests' \in 0..MaxRequests /\ faults' \in 0..MaxFaults /\ o \in Actor
        /\ act' \in [Actor -> Task] /\ \A q \in Actor \ {o} : act'[q] = act[q]
        /\ act'[o].copy = NewLine /\ act'[o].job = "create" /\ act'[o].pc = "announce"
    BY <1>1, NewLineFacts, RequestStart
  <1>3. PubInv'
    BY <1>1, PubUnchanged DEF PipeInv
  <1>4. line'.version = 1 /\ line' \in Line /\ line'.version > line.version
    BY <1>1, NewLineFacts
  <1>5. LineSound'
    BY <1>1, <1>4, NewLineFacts DEF LineSound, Fits, Past
  <1>6. TaskSound(act[o], call[o])'
    BY <1>1, <1>2, <1>4, <1>5 DEF TaskSound, LineSound, Fits, Past, Dated, Advancing
  <1>7. queue' \in [Command -> Nat]
    BY <1>1 DEF PipeInv, PipelineTypeOK
  <1> QED
    BY <1>1, <1>2, <1>3, <1>4, <1>5, <1>6, <1>7, TaskStep DEF pubVars

\* An operator's request finds the line at a status and begins its task.
LEMMA OperatorRequestInv ==
    ASSUME PipeInv, NEW o \in Operator, OperatorRequest(o)
    PROVE  PipeInv'
  <1>1. line \in Line /\ Fits(line) /\ Past(line)
    BY DEF PipeInv, PipelineTypeOK, LineSound
  <1>2. "announce" \in Pc /\ "grant" \in Pc /\ "reopen" \in Pc
    BY DEF Pc, Storing
  <1>3. CASE CreateAgain(o)
    <2>1. Request(o, "create", "announce", line) /\ UNCHANGED <<pubVars, line, queue>>
      BY <1>3 DEF CreateAgain
    <2> QED
      BY <1>1, <1>2, <2>1, RequestInv
  <1>4. CASE ApproveLine(o)
    <2>1. /\ UNCHANGED <<pubVars, line, queue>> /\ line.stage = "review"
          /\ \/ Request(o, "approve", "announce", line)
             \/ Request(o, "approve", "grant", line)
      BY <1>4 DEF ApproveLine
    <2> QED
      BY <1>1, <1>2, <2>1, RequestInv
  <1>5. CASE RetryLine(o)
    <2>1. /\ line.status = "failed" /\ Request(o, "retry", "reopen", Reopened(line))
          /\ UNCHANGED <<pubVars, line, queue>>
      BY <1>5 DEF RetryLine
    <2>2. /\ Reopened(line) \in Line /\ Fits(Reopened(line))
          /\ Reopened(line).stage = line.stage /\ Reopened(line).approved = line.approved
          /\ Reopened(line).published = line.published
          /\ Reopened(line).version = line.version
          /\ line.stage \in {"research", "script", "review"}
      BY <1>1, <2>1, ReopenedFacts
    <2>3. Past(Reopened(line))
      BY <1>1, <2>2 DEF Past
    <2> QED
      BY <1>2, <2>1, <2>2, <2>3, RequestInv
  <1> QED
    BY <1>3, <1>4, <1>5, CreateLineInv DEF OperatorRequest

\* A task ends: answered, or with its process or its client.
LEMMA EndInv ==
    ASSUME PipeInv, NEW a \in Actor, Settle(a) \/ RequeueForeign(a) \/ Reply(a)
                                     \/ Crash(a) \/ Abort(a)
    PROVE  PipeInv'
  <1>1. /\ act' = [act EXCEPT ![a] = Idle]
        /\ UNCHANGED <<rows, approvals, rejections, platform, line>>
        /\ UNCHANGED call \/ call' = [call EXCEPT ![a] = NoCall]
        /\ UNCHANGED bounds \/ \E kind : Fault(kind)
        /\ UNCHANGED queue \/ Requeued(act[a].event)
    BY DEF Settle, RequeueForeign, Reply, Crash, Abort, pubVars
  <1>2. a \in Caller
    BY PipelineAssumption DEF Actor
  <1>3. PubInv' /\ \A q \in Actor \ {a} : call'[q] = call[q]
    <2>1. CASE UNCHANGED call
      BY <1>1, <2>1, PubUnchanged DEF PipeInv, pubVars
    <2>2. CASE call' = [call EXCEPT ![a] = NoCall]
      <3>1. PubInv'
        BY <1>1, <1>2, <2>2, EndCallInv DEF PipeInv
      <3>2. \A q \in Actor \ {a} : call'[q] = call[q]
        BY <2>2, PipelineAssumption DEF PipeInv, PubInv, PubTypeOK, Actor
      <3> QED
        BY <3>1, <3>2
    <2> QED
      BY <1>1, <2>1, <2>2
  <1>4. queue' \in [Command -> Nat]
    BY <1>1, QueueFacts DEF Requeued, PipeInv, PipelineTypeOK
  <1>5. requests' \in 0..MaxRequests /\ faults' \in 0..MaxFaults
    BY <1>1, FaultFacts DEF bounds, PipeInv, PipelineTypeOK
  <1> QED
    BY <1>1, <1>3, <1>4, <1>5, IdleInv

\* A connection breaks in the middle of a task.
LEMMA LoseConnectionInv ==
    ASSUME PipeInv, NEW h \in Actor, LoseConnection(h)
    PROVE  PipeInv'
  <1>1. /\ act' = [act EXCEPT ![h].held = FALSE] /\ UNCHANGED <<pubVars, line>>
        /\ Fault("crash") /\ Requeued(act[h].event)
    BY DEF LoseConnection
  <1>2. /\ act' \in [Actor -> Task] /\ \A q \in Actor \ {h} : act'[q] = act[q]
        /\ act'[h].pc = act[h].pc /\ act'[h].job = act[h].job /\ act'[h].copy = act[h].copy
    BY <1>1 DEF PipeInv, PipelineTypeOK, Task
  <1>3. PubInv'
    BY <1>1, PubUnchanged DEF PipeInv
  <1>4. LineSound' /\ line' \in Line
    BY <1>1, LineKept DEF pubVars
  <1>5. TaskSound(act[h], call[h])'
    <2>1. TaskSound(act[h], call[h])
      BY DEF PipeInv
    <2> QED
      BY <1>1, <1>2, <2>1 DEF TaskSound, Fits, Past, Dated, Approving, Advancing,
                             Releasable, Approved, pubVars
  <1>6. queue' \in [Command -> Nat]
    BY <1>1, QueueFacts DEF Requeued
  <1> QED
    BY <1>1, <1>2, <1>3, <1>4, <1>5, <1>6, FaultFacts, TaskStep DEF pubVars

\* Commands of the publishing API on the draft.
LEMMA DirectInv ==
    ASSUME PipeInv, NEW c \in Caller \ Actor, Direct(c)
    PROVE  PipeInv'
  <1>1. CASE ServiceStep(c) /\ UNCHANGED pipeVars
    BY <1>1, ServiceInv
  <1>2. ASSUME PubInv', \A q \in Actor : call'[q] = call[q],
               UNCHANGED <<line, act, queue, platform, approvals>>,
               requests' \in 0..MaxRequests, faults' \in 0..MaxFaults
        PROVE  PipeInv'
    <2>1. LineSound' /\ line' \in Line
      BY <1>2, LineKept
    <2>2. \A a \in Actor : TaskSound(act[a], call[a])'
      BY <1>2, <2>1, TaskKept
    <2>3. PipelineTypeOK'
      BY <1>2 DEF PipeInv, PipelineTypeOK, PubInv
    <2> QED
      BY <1>2, <2>1, <2>2, <2>3 DEF PipeInv
  <1>3. CASE EndCall(c) /\ UNCHANGED pipeVars
    <2>1. PubInv'
      BY <1>3, EndCallInv DEF EndCall, PipeInv
    <2>2. \A q \in Actor : call'[q] = call[q]
      BY <1>3, PipelineAssumption DEF EndCall, PipeInv, PubInv, PubTypeOK, Actor
    <2>3. requests' \in 0..MaxRequests /\ faults' \in 0..MaxFaults
      BY <1>3 DEF pipeVars, PipeInv, PipelineTypeOK
    <2> QED
      BY <1>2, <1>3, <2>1, <2>2, <2>3 DEF EndCall, pipeVars
  <1>4. ASSUME NEW op \in Op, Begin(c, Draft, op), Fault("command"),
               UNCHANGED <<line, act, queue>>
        PROVE  PipeInv'
    <2>1. PubInv'
      BY <1>4, PipelineAssumption, BeginInv DEF PipeInv
    <2>2. \A q \in Actor : call'[q] = call[q]
      BY <1>4, PipelineAssumption DEF Begin, PipeInv, PubInv, PubTypeOK, Actor
    <2> QED
      BY <1>2, <1>4, <2>1, <2>2, FaultFacts DEF Begin
  <1> QED
    BY <1>1, <1>3, <1>4 DEF Direct

-----------------------------------------------------------------------------
(* The invariant holds.                                                    *)

\* At the start no line exists and every actor is idle.
LEMMA PipeInitInv == Init => PipeInv
  <1> SUFFICES ASSUME Init PROVE PipeInv
    OBVIOUS
  <1>1. PubInv
    BY PubInitInv DEF Init
  <1>2. LineSound /\ line \in Line
    BY NewLineFacts DEF Init, PipeInit, LineSound
  <1>3. Idle \in Task /\ Idle.pc = "idle"
    BY NewLineFacts DEF Idle, Task, Pc, Err
  <1>4. PipelineTypeOK
    BY <1>1, <1>2, <1>3, PipelineAssumption DEF Init, PipeInit, PipelineTypeOK, PubInv
  <1>5. \A a \in Actor : TaskSound(act[a], call[a])
    BY <1>3 DEF Init, PipeInit, TaskSound
  <1> QED
    BY <1>1, <1>2, <1>4, <1>5 DEF PipeInv

\* Every step of one actor keeps the invariant.
LEMMA ActorStepInv ==
    ASSUME PipeInv, NEW a \in Actor, Step(a)
    PROVE  PipeInv'
  <1>1. a \in Caller
    BY PipelineAssumption DEF Actor
  <1> QED
    BY <1>1, StoreInv, RefusedInv, StageWorkInv, PrepareInv, ConsultInv, GrantInv,
       CallServiceInv, ServiceAnswersInv, ServiceInv, AnnounceInv DEF Step

\* Every step of the pipeline keeps the invariant.
LEMMA PipeStep == PipeInv /\ [Next]_vars => PipeInv'
  <1> SUFFICES ASSUME PipeInv, [Next]_vars PROVE PipeInv'
    OBVIOUS
  <1>1. ASSUME NEW h \in Handler,
               \/ Consume(h) \/ \E e \in Command : RateLimited(h, e)
               \/ HandlerStep(h) \/ Crash(h) \/ LoseConnection(h)
        PROVE  PipeInv'
    <2>1. h \in Actor
      BY DEF Actor
    <2> QED
      BY <1>1, <2>1, AdvanceFromEventInv, TakeForeignInv, RateLimitedInv, RepairInv,
         ActorStepInv, EndInv, LoseConnectionInv DEF HandlerStep, Consume
  <1>2. ASSUME NEW o \in Operator, OperatorRequest(o) \/ OperatorStep(o) \/ Abort(o)
        PROVE  PipeInv'
    <2>1. o \in Actor
      BY DEF Actor
    <2> QED
      BY <1>2, <2>1, OperatorRequestInv, ActorStepInv, EndInv DEF OperatorStep
  <1>3. CASE UNCHANGED vars
    <2>1. /\ UNCHANGED pubVars /\ line' = line /\ act' = act /\ queue' = queue
          /\ requests' = requests /\ faults' = faults
      BY <1>3 DEF vars, pipeVars
    <2>2. PubInv'
      BY <2>1, PubUnchanged DEF PipeInv
    <2>3. LineSound' /\ line' \in Line
      BY <2>1, LineKept DEF pubVars
    <2>4. \A a \in Actor : TaskSound(act[a], call[a])'
      BY <2>1, <2>3, TaskKept DEF pubVars
    <2>5. PipelineTypeOK'
      BY <2>1, <2>2 DEF PipeInv, PipelineTypeOK, PubInv
    <2> QED
      BY <2>2, <2>3, <2>4, <2>5 DEF PipeInv
  <1> QED
    BY <1>1, <1>2, <1>3, RefusedInv, DirectInv DEF Next

-----------------------------------------------------------------------------
(* The theorems.                                                           *)

\* The invariant, on which the others rest.
THEOREM PipelineInvariant == Spec => []PipeInv
  BY PipeInitInv, PipeStep, PTL DEF Spec

\* No pipeline is past its review without its own approval, a human's approval
\* of its draft and the platform's acknowledgement (Orchestrator.Advance and
\* the publication adapter).
THEOREM PublishIsGated == Spec => []GatedPublish
  <1>1. PipeInv => GatedPublish
    BY DEF PipeInv, LineSound, Fits, Past, GatedPublish
  <1> QED
    BY <1>1, PipelineInvariant, PTL

\* The constraint pipelines_stage_status_valid never refuses an update of the
\* orchestrator's store.
THEOREM StatusAlwaysFits == Spec => []StatusFits
  <1>1. PipeInv => StatusFits
    BY DEF PipeInv, LineSound, Fits, StatusFits
  <1> QED
    BY <1>1, PipelineInvariant, PTL

-----------------------------------------------------------------------------
(* The pipeline uses the publishing service by its rules.                  *)

\* A caller that waits for nothing has left no trace of its last command.
Quiet == \A c \in Caller : call[c].pc = "idle" => call[c] = NoCall

\* Commands leave none behind.
LEMMA QuietKept ==
    ASSUME PubTypeOK, Quiet, PubNext \/ UNCHANGED pubVars
    PROVE  Quiet'
  <1>1. call \in [Caller -> PubCall] /\ \A c \in Caller : call[c].pc = "idle" => call[c] = NoCall
    BY DEF PubTypeOK, Quiet
  <1>2. ASSUME NEW c \in Caller, NEW k, k.pc = "idle" => k = NoCall,
               call' = [call EXCEPT ![c] = k]
        PROVE  Quiet'
    BY <1>1, <1>2 DEF Quiet
  <1>3. ASSUME NEW c \in Caller, NEW p \in Publications, NEW op \in Op,
               Begin(c, p, op) \/ Throttled(c, p, op)
        PROVE  Quiet'
    BY <1>2, <1>3 DEF Begin, Throttled, NoCall
  <1>4. ASSUME NEW c \in Caller, ServiceStep(c)
        PROVE  Quiet'
    <2>1. ASSUME NEW ok \in BOOLEAN, NEW accepted \in BOOLEAN, Deliver(c, ok, accepted)
          PROVE  Quiet'
      BY <1>1, <1>2, <2>1 DEF Deliver, PubCall
    <2>2. ASSUME Update(c) \/ UpdateFails(c)
          PROVE  Quiet'
      BY <1>1, <2>2 DEF Update, UpdateFails, Quiet, PubCall
    <2> QED
      BY <1>4, <2>1, <2>2 DEF ServiceStep
  <1>5. ASSUME NEW c \in Caller, EndCall(c)
        PROVE  Quiet'
    BY <1>2, <1>5 DEF EndCall
  <1>6. ASSUME UNCHANGED call
        PROVE  Quiet'
    BY <1>6 DEF Quiet
  <1> QED
    BY <1>3, <1>4, <1>5, <1>6 DEF PubNext, Create, pubVars

\* A process that dies takes its command with it, if it had one.
LEMMA DropsCall ==
    ASSUME Quiet, PubTypeOK, NEW c \in Caller, call' = [call EXCEPT ![c] = NoCall],
           UNCHANGED <<rows, approvals, rejections, platform>>
    PROVE  PubNext \/ UNCHANGED pubVars
  <1>1. CASE call[c].pc = "idle"
    <2>1. call' = call
      BY <1>1 DEF Quiet, PubTypeOK
    <2> QED
      BY <2>1 DEF pubVars
  <1>2. CASE call[c].pc # "idle"
    BY <1>2 DEF PubNext, EndCall
  <1> QED
    BY <1>1, <1>2

\* Whatever the pipeline does is a step of the publishing service, or none.
LEMMA PublishingStep ==
    ASSUME PubTypeOK, Quiet, [Next]_vars
    PROVE  PubNext \/ UNCHANGED pubVars
  <1> USE PipelineAssumption
  <1>1. ASSUME NEW a \in Actor, Step(a)
        PROVE  PubNext \/ UNCHANGED pubVars
    <2>0. a \in Caller
      BY DEF Actor
    <2>1. CASE Prepare(a)
      BY <2>1 DEF Prepare, PubNext
    <2>2. CASE CallService(a)
      BY <2>0, <2>2 DEF CallService, Calling, Op, PubNext
    <2>3. CASE ServiceAnswers(a)
      BY <2>0, <2>3, DropsCall DEF ServiceAnswers
    <2>4. CASE ServiceStep(a)
      BY <2>0, <2>4 DEF PubNext
    <2> QED
      BY <1>1, <2>1, <2>2, <2>3, <2>4
         DEF Step, Store, Conflict, StageWork, Consult, Grant, Announce
  <1>2. ASSUME NEW h \in Handler,
               \/ Consume(h) \/ \E e \in Command : RateLimited(h, e)
               \/ HandlerStep(h) \/ Crash(h) \/ LoseConnection(h)
        PROVE  PubNext \/ UNCHANGED pubVars
    <2>1. CASE Crash(h)
      BY <2>1, DropsCall DEF Crash
    <2> QED
      BY <1>1, <1>2, <2>1 DEF Consume, AdvanceFromEvent, TakeForeign, RateLimited,
                              HandlerStep, Repair, Settle, RequeueForeign,
                              LoseConnection, Actor
  <1>3. ASSUME NEW o \in Operator, OperatorRequest(o) \/ OperatorStep(o) \/ Abort(o)
        PROVE  PubNext \/ UNCHANGED pubVars
    <2>1. CASE Abort(o)
      BY <2>1, DropsCall DEF Abort
    <2> QED
      BY <1>1, <1>3, <2>1 DEF OperatorRequest, CreateLine, CreateAgain, ApproveLine,
                              RetryLine, OperatorStep, Reply, Actor
  <1>4. ASSUME NEW a \in Actor, Unstored(a) \/ AnnounceFails(a)
        PROVE  UNCHANGED pubVars
    BY <1>4 DEF Unstored, AnnounceFails
  <1>5. ASSUME NEW c \in Caller \ Actor, Direct(c)
        PROVE  PubNext
    BY <1>5 DEF Direct, PubNext
  <1>6. CASE UNCHANGED vars
    BY <1>6 DEF vars
  <1> QED
    BY <1>2, <1>3, <1>4, <1>5, <1>6 DEF Next

\* Pipeline, operators and direct commands together use the publishing service
\* only through its commands: the composition implements Publication.
THEOREM PipelineImplementsPublishing == Spec => PubSpec
  <1>1. Init => PubInit /\ Quiet
    BY DEF Init, PubInit, Quiet
  <1>2. PubTypeOK /\ Quiet /\ [Next]_vars => Quiet' /\ [PubNext]_pubVars
    BY PublishingStep, QuietKept
  <1>3. PipeInv => PubTypeOK
    BY DEF PipeInv, PubInv
  <1> QED
    BY <1>1, <1>2, <1>3, PipelineInvariant, PTL DEF Spec, PubSpec

\* So the guarantees of the publishing service hold inside the pipeline: no
\* delivery without a human's approval, truthful rows, and the lifecycle.
THEOREM PipelineOversight == Spec => [](ApprovalGate /\ RowsJustified) /\ LifecycleKept
  BY PipelineImplementsPublishing, OversightHolds, RowsTruthful, LifecycleHolds, PTL

-----------------------------------------------------------------------------
(* The order of the stages.                                                *)

\* Only the store changes the row, or the request that creates it.
LEMMA LineSteps ==
    ASSUME Next
    PROVE  \/ UNCHANGED line
           \/ line.version = 0 /\ line' = NewLine
           \/ \E a \in Actor : Store(a)
  <1>1. ASSUME NEW a \in Actor, Step(a)
        PROVE  UNCHANGED line \/ Store(a)
    BY <1>1 DEF Step, Conflict, StageWork, Prepare, Consult, Grant, CallService,
                ServiceAnswers, Announce, pipeVars
  <1>2. ASSUME NEW h \in Handler,
               \/ Consume(h) \/ \E e \in Command : RateLimited(h, e)
               \/ HandlerStep(h) \/ Crash(h) \/ LoseConnection(h)
        PROVE  UNCHANGED line \/ \E a \in Actor : Store(a)
    BY <1>1, <1>2 DEF Consume, AdvanceFromEvent, TakeForeign, RateLimited, HandlerStep,
                      Repair, Settle, RequeueForeign, Crash, LoseConnection, Actor
  <1>3. ASSUME NEW o \in Operator, OperatorRequest(o) \/ OperatorStep(o) \/ Abort(o)
        PROVE  \/ UNCHANGED line
               \/ line.version = 0 /\ line' = NewLine
               \/ \E a \in Actor : Store(a)
    BY <1>1, <1>3 DEF OperatorRequest, CreateLine, CreateAgain, ApproveLine, RetryLine,
                      OperatorStep, Reply, Abort, Actor
  <1>4. ASSUME NEW a \in Actor, Unstored(a) \/ AnnounceFails(a)
        PROVE  UNCHANGED line
    BY <1>4 DEF Unstored, AnnounceFails
  <1>5. ASSUME NEW c \in Caller \ Actor, Direct(c)
        PROVE  UNCHANGED line
    BY <1>5 DEF Direct, pipeVars
  <1> QED
    BY <1>2, <1>3, <1>4, <1>5 DEF Next

\* Stages follow one another, the review is left only approved, and approvals
\* stay, whichever of the overlapping tasks writes the row.
THEOREM StagesInOrder == Spec => StageOrder
  <1> DEFINE Order == /\ line'.stage # line.stage =>
                          /\ line'.stage = NextStage(line.stage)
                          /\ line.stage = "review" => line.status = "approved"
                      /\ line.approved => line'.approved
  <1>1. PipeInv /\ [Next]_vars => Order
    <2> SUFFICES ASSUME PipeInv, [Next]_vars PROVE Order
      OBVIOUS
    <2>1. CASE UNCHANGED line
      BY <2>1
    <2>2. CASE line.version = 0 /\ line' = NewLine
      BY <2>2, NewLineFacts DEF PipeInv, LineSound
    <2>3. ASSUME NEW a \in Actor, Store(a) PROVE Order
      BY <2>3, StoredFacts DEF Store
    <2> QED
      BY <2>1, <2>2, <2>3, LineSteps DEF vars, pipeVars
  <1> QED
    BY <1>1, PipelineInvariant, PTL DEF Spec, StageOrder
=============================================================================
