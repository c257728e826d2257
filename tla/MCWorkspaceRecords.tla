------------------------ MODULE MCWorkspaceRecords ------------------------
(* Two requests at a time in workspace a, rows of workspace b beside them.  *)
EXTENDS WorkspaceRecords, TLC

CONSTANTS a, b, x, y

Everyone(w) == [c \in Caller |-> w]
MCWorkspaceOf == Everyone(a)

MCDepartments == 1 :> [workspace |-> a, name |-> x, created |-> 2]
              @@ 2 :> [workspace |-> b, name |-> x, created |-> 2] @@ 3 :> Null
MCTeams == 1 :> [department |-> 1, name |-> x, created |-> 2]
        @@ 2 :> [department |-> 2, name |-> x, created |-> 2] @@ 3 :> Null
MCEmployees == 1 :> [team |-> 1, name |-> x, task |-> Null, created |-> 2]
            @@ 2 :> Null @@ 3 :> Null
MCTasks == 1 :> [workspace |-> a, title |-> x, status |-> "in_progress", created |-> 2]
        @@ 2 :> [workspace |-> b, title |-> x, status |-> "backlog", created |-> 2]
        @@ 3 :> Null
MCDocuments == 1 :> [workspace |-> a, title |-> x, content |-> x,
                     embedding |-> x, created |-> 2]
            @@ 2 :> [workspace |-> b, title |-> x, content |-> x,
                     embedding |-> x, created |-> 2]
            @@ 3 :> Null

\* Pairs of neighbouring tables, and every table while it is listed.
MCScenarios == {{"department", "team"}, {"team", "employee"}}
    \cup {{table, "listing"} : table \in Tables}

Symmetry == Permutations(Caller)
=============================================================================
