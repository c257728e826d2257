---------------------------- MODULE Organization ----------------------------
(***************************************************************************)
(* Departments, teams and AI employees: the services, the stores and the   *)
(* keys between their tables.  A team has no workspace of its own but its  *)
(* department's, an employee its team's.                                   *)
(*                                                                         *)
(* A store's transaction looks at parent and name before it writes; the    *)
(* foreign keys and unique indexes look again.  Both are one step here:    *)
(* whichever of them refuses, nothing is written, and the answers differ.  *)
(* The columns of an employee besides name and team are one, task.         *)
(***************************************************************************)
EXTENDS RecordRequests

CONSTANTS
    Task,   \* bound: the task ids given to an employee
    FirstDepartments, FirstTeams, FirstEmployees   \* the tables at the start

DepartmentRow == [workspace : Workspace, name : Name, created : Instants]
TeamRow == [department : Id, name : Name, created : Instants]
EmployeeRow == [team : Id, name : Name, task : Task \cup {Null}, created : Instants]

\* The foreign keys, and the unique indexes on lower(name) under each parent.
TeamsPlaced(ts, ds) == \A t \in Id : Exists(ts[t]) => Exists(ds[ts[t].department])
EmployeesPlaced(es, ts) == \A e \in Id : Exists(es[e]) => Exists(ts[es[e].team])
DepartmentNamesUnique(ds) == \A i, j \in Id :
    Exists(ds[i]) /\ Exists(ds[j]) /\ i # j =>
        <<ds[i].workspace, ds[i].name>> # <<ds[j].workspace, ds[j].name>>
TeamNamesUnique(ts) == \A i, j \in Id :
    Exists(ts[i]) /\ Exists(ts[j]) /\ i # j =>
        <<ts[i].department, ts[i].name>> # <<ts[j].department, ts[j].name>>
EmployeeNamesUnique(es) == \A i, j \in Id :
    Exists(es[i]) /\ Exists(es[j]) /\ i # j =>
        <<es[i].team, es[i].name>> # <<es[j].team, es[j].name>>
KeysHold(ds, ts, es) ==
    /\ TeamsPlaced(ts, ds) /\ EmployeesPlaced(es, ts)
    /\ DepartmentNamesUnique(ds) /\ TeamNamesUnique(ts) /\ EmployeeNamesUnique(es)

ASSUME OrganizationAssumption ==
    /\ {Null, Gone} \cap (DepartmentRow \cup TeamRow \cup EmployeeRow) = {}
    /\ FirstDepartments \in Table(DepartmentRow)
    /\ FirstTeams \in Table(TeamRow)
    /\ FirstEmployees \in Table(EmployeeRow)
    /\ KeysHold(FirstDepartments, FirstTeams, FirstEmployees)

VARIABLES
    departments, teams, employees,
    engaged   \* employees that a row of ai_executions refers to
orgVars == <<departments, teams, employees, engaged>>

OrgInit ==
    /\ departments = FirstDepartments
    /\ teams = FirstTeams
    /\ employees = FirstEmployees
    /\ engaged = {}

-----------------------------------------------------------------------------
(* Row level security and the joins of the stores.                         *)

DepartmentVisible(ws, d) ==
    Exists(departments[d]) /\ departments[d].workspace = ws
TeamVisible(ws, t) ==
    Exists(teams[t]) /\ DepartmentVisible(ws, teams[t].department)
EmployeeVisible(ws, e) ==
    Exists(employees[e]) /\ TeamVisible(ws, employees[e].team)

\* What the resolvers of the services and the stores' own checks ask.
DepartmentResolved(ws, d) == DepartmentVisible(ws, d)
TeamResolved(ws, t) == TeamVisible(ws, t)

\* The unique indexes on lower(name) under each parent; id is the row itself.
DepartmentNameFree(ws, name, id) == \A d \in Id \ {id} :
    Exists(departments[d]) /\ departments[d].workspace = ws => departments[d].name # name
\* Mutant: the name is only looked for when the row is created.
NameFreeOnCreate(department, name, id) == id # Null \/ \A t \in Id :
    Exists(teams[t]) /\ teams[t].department = department => teams[t].name # name
TeamNameFree(department, name, id) == \A t \in Id \ {id} :
    Exists(teams[t]) /\ teams[t].department = department => teams[t].name # name
EmployeeNameFree(team, name, id) == \A e \in Id \ {id} :
    Exists(employees[e]) /\ employees[e].team = team => employees[e].name # name

\* ON DELETE CASCADE.
TeamsUnder(ds) == {t \in Id : Exists(teams[t]) /\ teams[t].department \in ds}
EmployeesUnder(ts) == {e \in Id : Exists(employees[e]) /\ employees[e].team \in ts}
Without(table, ids) == [i \in Id |-> IF i \in ids THEN Gone ELSE table[i]]

\* The check of the transaction says so, or the constraint does later, which
\* is an internal error.
Refused(c, answer, late) == \E a \in {answer} \cup (IF late THEN {"error"} ELSE {}) :
    Goes(c, Outcome(call[c].table, call[c].id, a))

-----------------------------------------------------------------------------
(* Departments.                                                            *)

\* The bodies that pass the checks of Create and of Update.
DepartmentRequest == [name : Name]
DepartmentPatch == [name : Name]
NewDepartment(ws, req, now) == [workspace |-> ws, name |-> req.name, created |-> now]

\* INSERT ... WHERE NOT EXISTS.
InsertDepartment(c, new) ==
    IF DepartmentNameFree(new.workspace, new.name, Null)
    THEN \E d \in Id :
         /\ departments[d] = Null
         /\ Arrives(c, Outcome("department", d, "ok"))
         /\ departments' = [departments EXCEPT ![d] = new]
    ELSE Arrives(c, Outcome("department", Null, "taken")) /\ UNCHANGED departments

CreateDepartment(c) == \E req \in DepartmentRequest, now \in Instants :
    /\ InsertDepartment(c, NewDepartment(Ws(c), req, now))
    /\ UNCHANGED <<teams, employees, engaged>>

UpdateDepartment(c) == \E d \in Id, patch \in DepartmentPatch :
    /\ Arrives(c, IF DepartmentVisible(Ws(c), d)
                  THEN Holding("department", d, Overlay(departments[d], patch), "write")
                  ELSE Outcome("department", d, "notfound"))
    /\ UNCHANGED orgVars

\* A name taken since the check is refused by the index, as an internal error.
WriteDepartment(c) == LET d == call[c].id copy == call[c].copy IN
    /\ call[c].pc = "write" /\ call[c].table = "department"
    /\ IF ~DepartmentNameFree(Ws(c), copy.name, d)
       THEN Refused(c, "taken", DepartmentVisible(Ws(c), d)) /\ UNCHANGED departments
       ELSE IF ~DepartmentVisible(Ws(c), d)
       THEN Goes(c, Outcome("department", d, "notfound")) /\ UNCHANGED departments
       ELSE /\ Goes(c, Outcome("department", d, "ok"))
            /\ departments' = [departments EXCEPT ![d].name = copy.name]
    /\ UNCHANGED <<teams, employees, engaged>>

\* One DELETE with its cascade; an employee with executions restricts it all.
RemoveDepartment(c, d) == LET ts == TeamsUnder({d}) es == EmployeesUnder(ts) IN
    IF ~DepartmentVisible(Ws(c), d)
    THEN Arrives(c, Outcome("department", d, "notfound")) /\ UNCHANGED orgVars
    ELSE IF es \cap engaged # {}
    THEN Arrives(c, Outcome("department", d, "error")) /\ UNCHANGED orgVars
    ELSE /\ Arrives(c, Outcome("department", d, "ok"))
         /\ departments' = Without(departments, {d})
         /\ teams' = Without(teams, ts)
         /\ employees' = Without(employees, es)
         /\ UNCHANGED engaged
DeleteDepartment(c) == \E d \in Id : RemoveDepartment(c, d)

-----------------------------------------------------------------------------
(* Teams.                                                                  *)

TeamRequest == [department : Id, name : Name]
NewTeam(req, now) ==
    [department |-> req.department, name |-> req.name, created |-> now]

\* departmentLookup, in a transaction of its own.
CreateTeam(c) == \E req \in TeamRequest, now \in Instants :
    /\ Arrives(c, IF DepartmentResolved(Ws(c), req.department)
                  THEN Holding("team", Null, NewTeam(req, now), "insert")
                  ELSE Outcome("team", Null, "invalid"))
    /\ UNCHANGED orgVars

InsertTeam(c) == LET new == call[c].copy IN
    /\ call[c].pc = "insert" /\ call[c].table = "team"
    /\ IF ~DepartmentResolved(Ws(c), new.department)
       THEN Refused(c, "invalid", TRUE) /\ UNCHANGED teams
       ELSE IF ~TeamNameFree(new.department, new.name, Null)
       THEN Refused(c, "taken", FALSE) /\ UNCHANGED teams
       ELSE \E t \in Id :
            /\ teams[t] = Null
            /\ Goes(c, Outcome("team", t, "ok"))
            /\ teams' = [teams EXCEPT ![t] = new]
    /\ UNCHANGED <<departments, employees, engaged>>

\* Rename, move or both.
TeamPatch == [name : Name] \cup [department : Id] \cup [name : Name, department : Id]

UpdateTeam(c) == \E t \in Id, patch \in TeamPatch :
    /\ Arrives(c,
        IF ~TeamVisible(Ws(c), t) THEN Outcome("team", t, "notfound")
        ELSE IF "department" \in DOMAIN patch /\ ~DepartmentResolved(Ws(c), patch.department)
        THEN Outcome("team", t, "invalid")
        ELSE Holding("team", t, Overlay(teams[t], patch), "write"))
    /\ UNCHANGED orgVars

WriteTeam(c) == LET t == call[c].id copy == call[c].copy IN
    /\ call[c].pc = "write" /\ call[c].table = "team"
    /\ IF ~DepartmentResolved(Ws(c), copy.department)
       THEN Refused(c, "invalid", TeamVisible(Ws(c), t)) /\ UNCHANGED teams
       ELSE IF ~TeamNameFree(copy.department, copy.name, t)
       THEN Refused(c, "taken", TeamVisible(Ws(c), t)) /\ UNCHANGED teams
       ELSE IF ~TeamVisible(Ws(c), t)
       THEN Goes(c, Outcome("team", t, "notfound")) /\ UNCHANGED teams
       ELSE /\ Goes(c, Outcome("team", t, "ok"))
            /\ teams' = [teams EXCEPT ![t].department = copy.department,
                                      ![t].name = copy.name]
    /\ UNCHANGED <<departments, employees, engaged>>

\* The team is looked for first.
DeleteTeam(c) == \E t \in Id :
    /\ Arrives(c, IF TeamVisible(Ws(c), t) THEN Holding("team", t, Null, "delete")
                  ELSE Outcome("team", t, "notfound"))
    /\ UNCHANGED orgVars

\* Then deleted by its id; that somebody else was faster is not noticed.
RemoveTeam(c) == LET t == call[c].id es == EmployeesUnder({t}) IN
    /\ call[c].pc = "delete" /\ call[c].table = "team"
    /\ IF TeamVisible(Ws(c), t) /\ es \cap engaged # {}
       THEN Goes(c, Outcome("team", t, "error")) /\ UNCHANGED <<teams, employees>>
       ELSE /\ Goes(c, Outcome("team", t, "ok"))
            /\ teams' = Without(teams, {t} \cap {x \in Id : TeamVisible(Ws(c), x)})
            /\ employees' = Without(employees, es)
    /\ UNCHANGED <<departments, engaged>>

-----------------------------------------------------------------------------
(* AI employees.                                                           *)

EmployeeRequest == [team : Id, name : Name]
NewEmployee(req, now) ==
    [team |-> req.team, name |-> req.name, task |-> Null, created |-> now]

CreateEmployee(c) == \E req \in EmployeeRequest, now \in Instants :
    /\ Arrives(c, IF TeamResolved(Ws(c), req.team)
                  THEN Holding("employee", Null, NewEmployee(req, now), "insert")
                  ELSE Outcome("employee", Null, "invalid"))
    /\ UNCHANGED orgVars

InsertEmployee(c) == LET new == call[c].copy IN
    /\ call[c].pc = "insert" /\ call[c].table = "employee"
    /\ IF ~TeamResolved(Ws(c), new.team)
       THEN Refused(c, "invalid", TRUE) /\ UNCHANGED employees
       ELSE IF ~EmployeeNameFree(new.team, new.name, Null)
       THEN Refused(c, "taken", FALSE) /\ UNCHANGED employees
       ELSE \E e \in Id :
            /\ employees[e] = Null
            /\ Goes(c, Outcome("employee", e, "ok"))
            /\ employees' = [employees EXCEPT ![e] = new]
    /\ UNCHANGED <<departments, teams, engaged>>

\* Rename, move, assign a task, which nothing looks up, or clear it; bound:
\* one of them at a time.
EmployeePatch == [name : Name] \cup [team : Id] \cup [task : Task \cup {Null}]

UpdateEmployee(c) == \E e \in Id, patch \in EmployeePatch :
    /\ Arrives(c,
        IF ~EmployeeVisible(Ws(c), e) THEN Outcome("employee", e, "notfound")
        ELSE IF "team" \in DOMAIN patch /\ ~TeamResolved(Ws(c), patch.team)
        THEN Outcome("employee", e, "invalid")
        ELSE Holding("employee", e, Overlay(employees[e], patch), "write"))
    /\ UNCHANGED orgVars

\* The whole copy is written; the transaction does not ask whose row it is,
\* row level security does.
WriteEmployee(c) == LET e == call[c].id copy == call[c].copy IN
    /\ call[c].pc = "write" /\ call[c].table = "employee"
    /\ IF ~TeamResolved(Ws(c), copy.team)
       THEN Refused(c, "invalid", EmployeeVisible(Ws(c), e)) /\ UNCHANGED employees
       ELSE IF ~EmployeeNameFree(copy.team, copy.name, e)
       THEN Refused(c, "taken", EmployeeVisible(Ws(c), e)) /\ UNCHANGED employees
       ELSE IF ~EmployeeVisible(Ws(c), e)
       THEN Goes(c, Outcome("employee", e, "notfound")) /\ UNCHANGED employees
       ELSE /\ Goes(c, Outcome("employee", e, "ok"))
            /\ employees' = [employees EXCEPT ![e] = copy]
    /\ UNCHANGED <<departments, teams, engaged>>

DeleteEmployee(c) == \E e \in Id :
    /\ Arrives(c, IF EmployeeVisible(Ws(c), e)
                  THEN Holding("employee", e, Null, "delete")
                  ELSE Outcome("employee", e, "notfound"))
    /\ UNCHANGED orgVars

RemoveEmployee(c) == LET e == call[c].id IN
    /\ call[c].pc = "delete" /\ call[c].table = "employee"
    /\ IF EmployeeVisible(Ws(c), e) /\ e \in engaged
       THEN Goes(c, Outcome("employee", e, "error")) /\ UNCHANGED employees
       ELSE /\ Goes(c, Outcome("employee", e, "ok"))
            /\ employees' = Without(employees,
                                {e} \cap {x \in Id : EmployeeVisible(Ws(c), x)})
    /\ UNCHANGED <<departments, teams, engaged>>

\* An execution is admitted for an employee; the row refers to it for ever.
Engage == \E e \in Id :
    /\ Exists(employees[e]) /\ engaged' = engaged \cup {e}
    /\ UNCHANGED <<requestVars, departments, teams, employees>>

-----------------------------------------------------------------------------
DepartmentStep(c) ==
    \/ CreateDepartment(c) \/ UpdateDepartment(c) \/ WriteDepartment(c)
    \/ DeleteDepartment(c)
TeamStep(c) ==
    \/ CreateTeam(c) \/ InsertTeam(c) \/ UpdateTeam(c) \/ WriteTeam(c)
    \/ DeleteTeam(c) \/ RemoveTeam(c)
EmployeeStep(c) ==
    \/ CreateEmployee(c) \/ InsertEmployee(c) \/ UpdateEmployee(c)
    \/ WriteEmployee(c) \/ DeleteEmployee(c) \/ RemoveEmployee(c)
=============================================================================
