---------------------------- MODULE TaskRecords ----------------------------
(***************************************************************************)
(* Tasks: the lifecycle of internal/task, its service and its store.       *)
(*                                                                         *)
(* Transition and Update both read the row, change their copy and write    *)
(* all of it back; the statement compares neither status nor time.  The    *)
(* columns a PATCH may change are one, title.                              *)
(***************************************************************************)
EXTENDS RecordRequests

CONSTANT FirstTasks   \* the table at the start

Status == {"backlog", "planned", "in_progress", "in_review", "completed",
           "cancelled", "failed", "rejected"}
TaskRow == [workspace : Workspace, title : Name, status : Status, created : Instants]

ASSUME TasksAssumption ==
    {Null, Gone} \cap TaskRow = {} /\ FirstTasks \in Table(TaskRow)

VARIABLES
    tasks,
    held              \* history: the statuses a task has had
taskVars == <<tasks, held>>

-----------------------------------------------------------------------------
Terminal(status) == status \in {"completed", "cancelled", "failed", "rejected"}

allowedTransition(from, to) == <<from, to>> \in
    {<<"backlog", "planned">>, <<"planned", "in_progress">>,
     <<"in_progress", "in_review">>, <<"in_review", "completed">>,
     <<"in_review", "rejected">>}
    \cup {"backlog", "planned", "in_progress", "in_review"} \X {"cancelled", "failed"}

\* Mutant: a review may be skipped.
TransitionSkippingReview(from, to) ==
    \/ ~Terminal(from) /\ allowedTransition(from, to)
    \/ from = "in_progress" /\ to = "completed"

CanTransition(from, to) == ~Terminal(from) /\ allowedTransition(from, to)

TaskInit ==
    /\ tasks = FirstTasks
    /\ held = [i \in Id |->
                IF Exists(FirstTasks[i]) THEN {FirstTasks[i].status} ELSE {}]

TaskVisible(ws, i) == Exists(tasks[i]) /\ tasks[i].workspace = ws

-----------------------------------------------------------------------------
\* The bodies that pass the checks of Create and of Update.
TaskRequest == [title : Name]
TaskPatch == [title : Name]
NewTask(ws, req, now) ==
    [workspace |-> ws, title |-> req.title, status |-> "backlog", created |-> now]

InsertTask(c, new) == \E i \in Id :
    /\ tasks[i] = Null
    /\ Arrives(c, Outcome("task", i, "ok"))
    /\ tasks' = [tasks EXCEPT ![i] = new]
    /\ held' = [held EXCEPT ![i] = {new.status}]

CreateTask(c) == \E req \in TaskRequest, now \in Instants :
    InsertTask(c, NewTask(Ws(c), req, now))

UpdateTask(c) == \E i \in Id, patch \in TaskPatch :
    /\ Arrives(c, IF TaskVisible(Ws(c), i)
                  THEN Holding("task", i, Overlay(tasks[i], patch), "write")
                  ELSE Outcome("task", i, "notfound"))
    /\ UNCHANGED taskVars

\* The status of the body, checked to be one.
TransitionRequest == Status

Transition(c) == \E i \in Id, to \in TransitionRequest :
    /\ Arrives(c, IF ~TaskVisible(Ws(c), i) THEN Outcome("task", i, "notfound")
                  ELSE IF ~CanTransition(tasks[i].status, to)
                  THEN Outcome("task", i, "invalid")
                  ELSE Holding("task", i, [tasks[i] EXCEPT !.status = to], "move"))
    /\ UNCHANGED taskVars

WriteTask(c) == LET i == call[c].id IN
    /\ call[c].pc \in {"write", "move"} /\ call[c].table = "task"
    /\ IF TaskVisible(Ws(c), i)
       THEN /\ Goes(c, Outcome("task", i, "ok"))
            /\ tasks' = [tasks EXCEPT ![i].title = call[c].copy.title,
                                      ![i].status = call[c].copy.status]
            /\ held' = [held EXCEPT ![i] = held[i] \cup {call[c].copy.status}]
       ELSE Goes(c, Outcome("task", i, "notfound")) /\ UNCHANGED taskVars

\* A method of the service without a route.
DeleteTask(c) == \E i \in Id :
    IF TaskVisible(Ws(c), i)
    THEN /\ Arrives(c, Outcome("task", i, "ok"))
         /\ tasks' = [tasks EXCEPT ![i] = Gone]
         /\ UNCHANGED held
    ELSE Arrives(c, Outcome("task", i, "notfound")) /\ UNCHANGED taskVars

-----------------------------------------------------------------------------
TaskStep(c) ==
    CreateTask(c) \/ UpdateTask(c) \/ Transition(c) \/ WriteTask(c) \/ DeleteTask(c)
=============================================================================
