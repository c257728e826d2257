-------------------------- MODULE WorkspaceRecords --------------------------
(***************************************************************************)
(* The records of all workspaces in one database: the organization, the    *)
(* tasks and the knowledge base under concurrent requests, the audit       *)
(* records the handlers leave, and a client that pages through a table.    *)
(***************************************************************************)
EXTENDS Organization, TaskRecords, Documents

CONSTANTS
    Scenarios,   \* bound: the sets of tables the requests of a behaviour use,
                 \* and "listing" if a client pages through one of them
    PageSize     \* the limit of a page, after Normalize

ASSUME PageAssumption == PageSize \in Nat \ {0}

VARIABLES scenario, walk

vars == <<requestVars, orgVars, taskVars, documents, scenario, walk>>

OrgTables == {"department", "team", "employee"}
Tables == OrgTables \cup {"task", "document"}

NoWalk == [pc |-> "idle", table |-> Null, ws |-> Null, cursor |-> Null,
           base |-> {}, seen |-> {}, shown |-> 0]

Init ==
    /\ RequestsInit /\ OrgInit /\ TaskInit /\ DocInit
    /\ scenario \in Scenarios
    /\ walk = NoWalk

-----------------------------------------------------------------------------
(* The audit record of a request.                                          *)

\* Mutant: nobody looks at the result of the append.
RecordIgnored(table, answer) == answer

\* recordSuccess of tasks and recordOrInternal of documents fail closed: the
\* change stands and the client is told 500.  The organization's handlers log.
Unaudited(table, answer) ==
    IF table \in {"task", "document"} /\ answer = "ok" THEN "error" ELSE answer

\* Append returns an error: nothing was written, or all of it was and only the
\* answer to COMMIT is missing.
RecordFails(c) ==
    /\ call[c].pc = "record" /\ IsRecorded(call[c]) /\ Fault
    /\ \E r \in MayRecord(call[c]) :
        call' = [call EXCEPT ![c] =
            Answered(call[c], Unaudited(call[c].table, call[c].answer), r)]
    /\ UNCHANGED requests

-----------------------------------------------------------------------------
(* The listings: newest first, in pages, with a cursor.                    *)

DepartmentRows(ws) == {<<departments[d].created, d>> : d \in
                        {x \in Id : DepartmentVisible(ws, x)}}
TeamRows(ws) == {<<teams[t].created, t>> : t \in {x \in Id : TeamVisible(ws, x)}}
EmployeeRows(ws) == {<<employees[e].created, e>> : e \in
                        {x \in Id : EmployeeVisible(ws, x)}}
TaskRows(ws) == {<<tasks[i].created, i>> : i \in {x \in Id : TaskVisible(ws, x)}}
DocumentRows(ws) == {<<documents[i].created, i>> : i \in
                        {x \in Id : DocumentVisible(ws, x)}}

Rows(table, ws) ==
    CASE table = "department" -> DepartmentRows(ws)
      [] table = "team" -> TeamRows(ws)
      [] table = "employee" -> EmployeeRows(ws)
      [] table = "task" -> TaskRows(ws)
      [] table = "document" -> DocumentRows(ws)

\* ORDER BY created_at DESC, id DESC.
Newer(x, k) == x[1] > k[1] \/ (x[1] = k[1] /\ x[2] > k[2])

\* Mutant: created_at alone decides.
BeforeByTime(k, cursor) == k[1] < cursor[1]

\* (created_at, id) < (cursor's created_at, cursor's id).
Before(k, cursor) == k[1] < cursor[1] \/ (k[1] = cursor[1] /\ k[2] < cursor[2])

\* EncodeCursor: tasks and documents keep the whole key of the last row, the
\* organization only its id, and looks the time up when the cursor comes back.
EncodeCursor(table, key) == IF table \in OrgTables THEN key[2] ELSE key
CursorKnown(table, ws, cursor) ==
    table \in OrgTables => \E k \in Rows(table, ws) : k[2] = cursor
DecodeCursor(table, ws, cursor) ==
    IF table \in OrgTables THEN CHOOSE k \in Rows(table, ws) : k[2] = cursor
    ELSE cursor

\* LIMIT PageSize + 1: the row too many says that there is another page.
ShowPage(w, match) ==
    LET page == {k \in match : Cardinality({x \in match : Newer(x, k)}) < PageSize}
        last == CHOOSE k \in page : \A x \in page : ~Newer(k, x)
    IN  walk' = [w EXCEPT
            !.pc = IF Cardinality(match) > PageSize THEN "more" ELSE "done",
            !.cursor = IF Cardinality(match) > PageSize
                       THEN EncodeCursor(w.table, last) ELSE Null,
            !.seen = w.seen \cup page,
            !.shown = w.shown + Cardinality(page)]

\* base: what was there when the client began.
FirstPage(table) == \E ws \in {Ws(c) : c \in Caller} :
    /\ walk.pc = "idle" /\ {"listing", table} \subseteq scenario
    /\ ShowPage([NoWalk EXCEPT !.table = table, !.ws = ws, !.base = Rows(table, ws)],
                Rows(table, ws))
    /\ UNCHANGED <<requestVars, orgVars, taskVars, documents, scenario>>
ListDepartments == FirstPage("department")
ListTeams == FirstPage("team")
ListEmployees == FirstPage("employee")
ListTasks == FirstPage("task")
ListDocuments == FirstPage("document")

NextPage ==
    /\ walk.pc = "more" /\ CursorKnown(walk.table, walk.ws, walk.cursor)
    /\ LET at == DecodeCursor(walk.table, walk.ws, walk.cursor) IN
        ShowPage(walk, {k \in Rows(walk.table, walk.ws) : Before(k, at)})
    /\ UNCHANGED <<requestVars, orgVars, taskVars, documents, scenario>>

\* The row the cursor names was deleted: 400, the client must begin again.
CursorRefused ==
    /\ walk.pc = "more" /\ ~CursorKnown(walk.table, walk.ws, walk.cursor)
    /\ walk' = [walk EXCEPT !.pc = "refused"]
    /\ UNCHANGED <<requestVars, orgVars, taskVars, documents, scenario>>

-----------------------------------------------------------------------------
RequestStep(c) ==
    /\ Recorded(c) \/ Unrecorded(c) \/ RecordFails(c) \/ StatementFails(c)
       \/ CommitLost(c) \/ RequestLost(c)
    /\ UNCHANGED <<orgVars, taskVars, documents, scenario, walk>>

Engaging ==
    /\ "employee" \in scenario /\ Engage
    /\ UNCHANGED <<taskVars, documents, scenario, walk>>
Organize(c) ==
    /\ \/ "department" \in scenario /\ DepartmentStep(c)
       \/ "team" \in scenario /\ TeamStep(c)
       \/ "employee" \in scenario /\ EmployeeStep(c)
    /\ UNCHANGED <<taskVars, documents, scenario, walk>>
Plan(c) ==
    /\ "task" \in scenario /\ TaskStep(c)
    /\ UNCHANGED <<orgVars, documents, scenario, walk>>
Know(c) ==
    /\ "document" \in scenario /\ DocStep(c)
    /\ UNCHANGED <<orgVars, taskVars, scenario, walk>>

Next ==
    \/ \E c \in Caller : RequestStep(c) \/ Organize(c) \/ Plan(c) \/ Know(c)
    \/ ListDepartments \/ ListTeams \/ ListEmployees \/ ListTasks \/ ListDocuments
    \/ Engaging \/ NextPage \/ CursorRefused

Spec == Init /\ [][Next]_vars

-----------------------------------------------------------------------------
(* Properties.                                                             *)

\* Every row has the columns of its table, and a request that is on its way
\* carries a copy of the row it works on.
RecordsTypeOK ==
    /\ departments \in Table(DepartmentRow) /\ teams \in Table(TeamRow)
    /\ employees \in Table(EmployeeRow) /\ engaged \subseteq Id
    /\ tasks \in Table(TaskRow) /\ held \in [Id -> SUBSET Status]
    /\ documents \in Table(DocumentRow)
    /\ \A c \in Caller :
        /\ call[c].answer \in Answers
        /\ call[c].recorded \in {"none", "success", "failed"}
        /\ call[c].pc \in {"write", "insert", "move", "embed"} => call[c].copy # Null

\* Whatever creations, moves and deletions overlap, a team's department and an
\* employee's team exist, siblings have different names, and an employee whose
\* executions refer to it is still there (foreign keys and unique indexes of
\* migrateOrganization, the checks of the stores).
OrganizationSound ==
    /\ KeysHold(departments, teams, employees)
    /\ \A e \in engaged : Exists(employees[e])

Home(t) == departments[teams[t].department].workspace
Stays(table) == \A i \in Id :
    /\ Exists(table[i]) /\ Exists(table'[i]) => table'[i].created = table[i].created
    /\ table[i] = Gone => table'[i] = Gone

\* No request moves a row to another workspace or brings a deleted row back,
\* whatever it read before (the resolvers; KnowledgeStore.Update: "turning a
\* concurrent delete into a silent recreate").
RowsStayPut == [][
    /\ Stays(departments) /\ Stays(teams) /\ Stays(employees) /\ Stays(tasks)
    /\ Stays(documents)
    /\ \A i \in Id :
        /\ Exists(departments[i]) /\ Exists(departments'[i]) =>
            departments'[i].workspace = departments[i].workspace
        /\ Exists(teams[i]) /\ Exists(teams'[i]) => Home(i)' = Home(i)
        /\ Exists(employees[i]) /\ Exists(employees'[i]) =>
            departments'[teams'[employees'[i].team].department].workspace
                = departments[teams[employees[i].team].department].workspace
        /\ Exists(tasks[i]) /\ Exists(tasks'[i]) =>
            tasks'[i].workspace = tasks[i].workspace
        /\ Exists(documents[i]) /\ Exists(documents'[i]) =>
            documents'[i].workspace = documents[i].workspace]_vars

\* The vector that search ranks on belongs to the content it is stored with,
\* although updates overwrite each other's columns (Update: "it must track the
\* content and nothing else").
EmbeddingFits == EmbeddingsFit(documents)

\* Updates may write an older status back, but no task ever has a status to
\* which the lifecycle does not lead from another it has had (CanTransition).
StatusEarned == \A i \in Id :
    /\ Exists(tasks[i]) => tasks[i].status \in held[i]
    /\ \A s \in held[i] \ {"backlog"} :
        \/ Exists(FirstTasks[i]) /\ s = FirstTasks[i].status
        \/ \E r \in held[i] : ~Terminal(r) /\ allowedTransition(r, s)

\* A change of a task or a document that is answered with success is in the
\* audit chain as such, whatever became of appends and commits ("a create,
\* update or transition must not answer 2xx while its audit entry is missing"),
\* and no request whose client was told of a refusal is there as a success.  An
\* entry of success behind a 500 or a broken connection there may be.
SuccessAudited == \A c \in Caller : call[c].pc = "idle" =>
    /\ call[c].answer = "ok" /\ call[c].table \in {"task", "document"} =>
        call[c].recorded = "success"
    /\ call[c].recorded = "success" => call[c].answer \in {"ok", "error", "lost"}

\* A client that follows the cursors to the end has seen every row that was
\* there all the time, and none twice, although rows come and go and share
\* their creation time (ListPage of the stores).
WalkComplete ==
    /\ walk.pc = "done" => walk.base \cap Rows(walk.table, walk.ws) \subseteq walk.seen
    /\ walk.shown = Cardinality(walk.seen)

\* What the comment of TaskHandler.Update promises: "it moves only through
\* Transition, so a PATCH cannot smuggle a lifecycle change past the validation
\* there".
PatchKeepsStatus == [][\A c \in Caller :
    call[c].pc = "write" /\ call[c].table = "task" /\ call'[c].pc = "record"
        /\ Exists(tasks[call[c].id]) =>
            tasks'[call[c].id].status = tasks[call[c].id].status]_vars
=============================================================================
