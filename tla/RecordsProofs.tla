--------------------------- MODULE RecordsProofs ---------------------------
(***************************************************************************)
(* Proofs about WorkspaceRecords, for any number of workspaces, requests,  *)
(* rows and faults and any page size: the keys of the organization hold,   *)
(* rows stay where they are, embeddings fit, statuses are earned,          *)
(* successes are audited and a listing misses nothing.                     *)
(***************************************************************************)
EXTENDS WorkspaceRecords, TLAPS, FiniteSetTheorems, WellFoundedInduction

-----------------------------------------------------------------------------
(* The inductive invariant.                                                *)

Pc == {"idle", "write", "insert", "move", "embed", "delete", "search", "record"}
Copy == DepartmentRow \cup TeamRow \cup EmployeeRow \cup TaskRow \cup Draft \cup {Null}
Call == [pc : Pc, table : Tables \cup {Null}, id : Id \cup {Null}, copy : Copy,
         answer : Answers, recorded : {"none", "success", "failed"}]

TablesTyped ==
    /\ departments \in Table(DepartmentRow) /\ teams \in Table(TeamRow)
    /\ employees \in Table(EmployeeRow) /\ engaged \subseteq Id
    /\ tasks \in Table(TaskRow) /\ held \in [Id -> SUBSET Status]
    /\ documents \in Table(DocumentRow)

\* The row was there, and as long as it is, it is as old as the copy.
Copied(table, i, copy) ==
    /\ i \in Id /\ table[i] # Null
    /\ Exists(table[i]) => copy.created = table[i].created

\* Until its record is written a request has none.
AuditSound(k) ==
    /\ k.pc # "idle" => k.recorded = "none"
    /\ k.pc = "idle" =>
        /\ k.answer = "ok" /\ k.table \in {"task", "document"} => k.recorded = "success"
        /\ k.recorded = "success" => k.answer \in {"ok", "error", "lost"}
    /\ k.pc \in {"write", "insert", "move", "embed"} => k.copy # Null

\* A team that a request deletes is gone or still the workspace's own.
OrgSound(c, k) ==
    /\ k.table = "department" /\ k.pc = "write" => k.id \in Id /\ k.copy \in DepartmentRow
    /\ k.table = "team" =>
        /\ k.pc \in {"insert", "write"} => k.copy \in TeamRow
        /\ k.pc \in {"write", "delete"} => k.id \in Id
        /\ k.pc = "delete" =>
            teams[k.id] # Null /\ (Exists(teams[k.id]) => Home(k.id) = Ws(c))
    /\ k.table = "employee" =>
        /\ k.pc \in {"insert", "write"} => k.copy \in EmployeeRow
        /\ k.pc \in {"write", "delete"} => k.id \in Id
        /\ k.pc = "write" => Copied(employees, k.id, k.copy)

\* The status a request writes was the task's, or follows one that was.
TaskSound(k) == k.table = "task" /\ k.pc \in {"write", "move"} =>
    /\ k.id \in Id /\ k.copy \in TaskRow /\ tasks[k.id] # Null
    /\ k.pc = "write" => k.copy.status \in held[k.id]
    /\ k.pc = "move" => \E r \in held[k.id] : CanTransition(r, k.copy.status)

\* What is written as a document has its vector already.
DocSound(c, k) == k.table = "document" /\ k.pc \in {"embed", "insert", "write"} =>
    /\ k.copy \in Draft /\ k.copy.workspace = Ws(c)
    /\ k.pc # "insert" => k.id = Null \/ Copied(documents, k.id, k.copy)
    /\ k.pc = "write" => k.id \in Id
    /\ k.pc # "embed" => k.copy.embedding = Embed(k.copy.content)

CallSound(c) ==
    /\ AuditSound(call[c]) /\ OrgSound(c, call[c])
    /\ TaskSound(call[c]) /\ DocSound(c, call[c])

RecordsInv ==
    /\ TablesTyped /\ call \in [Caller -> Call]
    /\ OrganizationSound /\ EmbeddingFits /\ StatusEarned
    /\ \A c \in Caller : CallSound(c)

-----------------------------------------------------------------------------
(* What no step does to a row, whoever holds a copy of it.                 *)

RowsKept(table) == \A i \in Id :
    /\ Exists(table[i]) /\ Exists(table'[i]) => table'[i].created = table[i].created
    /\ table[i] = Gone => table'[i] = Gone
    /\ table[i] # Null => table'[i] # Null

OrgKept ==
    /\ RowsKept(departments) /\ RowsKept(teams) /\ RowsKept(employees)
    /\ \A i \in Id :
        /\ Exists(departments[i]) /\ Exists(departments'[i]) =>
            departments'[i].workspace = departments[i].workspace
        /\ Exists(teams[i]) /\ Exists(teams'[i]) => Home(i)' = Home(i)
        /\ Exists(employees[i]) /\ Exists(employees'[i]) =>
            departments'[teams'[employees'[i].team].department].workspace
                = departments[teams[employees[i].team].department].workspace

TasksKept ==
    /\ RowsKept(tasks)
    /\ \A i \in Id :
        /\ Exists(tasks[i]) /\ Exists(tasks'[i]) =>
            tasks'[i].workspace = tasks[i].workspace
        /\ tasks[i] # Null => held[i] \subseteq held'[i]

DocsKept ==
    /\ RowsKept(documents)
    /\ \A i \in Id : Exists(documents[i]) /\ Exists(documents'[i]) =>
        documents'[i].workspace = documents[i].workspace

Kept == OrgKept /\ TasksKept /\ DocsKept

-----------------------------------------------------------------------------
(* Requests.                                                               *)

\* A row is there.
LEMMA RowsExist ==
    /\ \A r \in DepartmentRow \cup TeamRow \cup EmployeeRow \cup TaskRow \cup Draft : Exists(r)
    /\ DocumentRow \subseteq Draft /\ ~Exists(Null) /\ ~Exists(Gone) /\ Null # Gone
    /\ Null \notin Id /\ Null \notin Name
  BY RequestsAssumption, OrganizationAssumption, TasksAssumption, DocumentsAssumption
     DEF Exists, DocumentRow, Draft

\* A request with an answer and no record yet.
LEMMA OutcomeFacts ==
    ASSUME NEW t \in Tables \cup {Null}, NEW i \in Id \cup {Null}, NEW a \in Answers
    PROVE  /\ Outcome(t, i, a) \in Call /\ Outcome(t, i, a).pc = "record"
           /\ Outcome(t, i, a).recorded = "none"
  BY DEF Outcome, NoCall, Call, Pc, Copy

\* A request with a copy.
LEMMA HoldingFacts ==
    ASSUME NEW t \in Tables, NEW i \in Id \cup {Null}, NEW r \in Copy, NEW pc \in Pc
    PROVE  /\ Holding(t, i, r, pc) \in Call /\ Holding(t, i, r, pc).pc = pc
           /\ Holding(t, i, r, pc).table = t /\ Holding(t, i, r, pc).id = i
           /\ Holding(t, i, r, pc).copy = r /\ Holding(t, i, r, pc).recorded = "none"
  BY DEF Holding, NoCall, Call, Answers, Tables

\* Requests that others overtake stay sound.
LEMMA OthersKept ==
    ASSUME RecordsInv, TablesTyped', Kept, NEW q \in Caller, call'[q] = call[q]
    PROVE  CallSound(q)'
  <1> DEFINE k == call[q]
  <1>0. k \in Call /\ CallSound(q)
    BY DEF RecordsInv
  <1>1. AuditSound(call[q])'
    BY <1>0 DEF CallSound, AuditSound
  <1>2. OrgSound(q, call[q])'
    <2>1. k.table = "team" /\ k.pc = "delete" =>
            teams'[k.id] # Null /\ (Exists(teams'[k.id]) => Home(k.id)' = Ws(q))
      BY <1>0 DEF CallSound, OrgSound, Kept, OrgKept, RowsKept, Exists
    <2>2. k.table = "employee" /\ k.pc = "write" => Copied(employees', k.id, k.copy)
      BY <1>0 DEF CallSound, OrgSound, Copied, Kept, OrgKept, RowsKept, Exists
    <2> QED
      BY <1>0, <2>1, <2>2 DEF CallSound, OrgSound, Home, Copied, Ws
  <1>3. TaskSound(call[q])'
    BY <1>0 DEF CallSound, TaskSound, Kept, TasksKept, RowsKept
  <1>4. DocSound(q, call[q])'
    <2>1. k.id \in Id /\ Copied(documents, k.id, k.copy) => Copied(documents', k.id, k.copy)
      BY DEF Copied, Kept, DocsKept, RowsKept, Exists
    <2> QED
      BY <1>0, <2>1 DEF CallSound, DocSound, Copied, Ws
  <1> QED
    BY <1>1, <1>2, <1>3, <1>4 DEF CallSound

\* One request makes a step; the tables are as they must be.
LEMMA CallStep ==
    ASSUME RecordsInv, TablesTyped', OrganizationSound', EmbeddingFits', StatusEarned',
           Kept, NEW c \in Caller, call' \in [Caller -> Call],
           \A q \in Caller \ {c} : call'[q] = call[q], CallSound(c)'
    PROVE  RecordsInv'
  BY OthersKept DEF RecordsInv

\* A request is answered.
LEMMA AnsweredFacts ==
    ASSUME RecordsInv, NEW c \in Caller, NEW t \in Tables \cup {Null},
           NEW i \in Id \cup {Null}, NEW a \in Answers,
           Arrives(c, Outcome(t, i, a)) \/ Goes(c, Outcome(t, i, a))
              \/ call' = [call EXCEPT ![c] = Outcome(t, i, a)]
    PROVE  /\ call' \in [Caller -> Call] /\ CallSound(c)'
           /\ \A q \in Caller \ {c} : call'[q] = call[q]
  <1> DEFINE k == Outcome(t, i, a)
  <1>1. k \in Call /\ k.pc = "record" /\ k.recorded = "none"
    BY OutcomeFacts
  <1>2. call' = [call EXCEPT ![c] = k]
    BY DEF Arrives, Goes
  <1> HIDE DEF k
  <1>3. call' \in [Caller -> Call] /\ call'[c] = k
    BY <1>1, <1>2 DEF RecordsInv
  <1>4. \A q \in Caller \ {c} : call'[q] = call[q]
    BY <1>2 DEF RecordsInv
  <1> QED
    BY <1>1, <1>3, <1>4 DEF CallSound, AuditSound, OrgSound, TaskSound, DocSound

\* Steps that leave all tables alone.
LEMMA Untouched ==
    ASSUME RecordsInv, UNCHANGED <<orgVars, taskVars, documents>>
    PROVE  /\ TablesTyped' /\ OrganizationSound' /\ EmbeddingFits' /\ StatusEarned' /\ Kept
  <1>1. TablesTyped' /\ OrganizationSound' /\ EmbeddingFits' /\ StatusEarned'
    BY DEF RecordsInv, TablesTyped, OrganizationSound, EmbeddingFits, StatusEarned,
           orgVars, taskVars
  <1>2. OrgKept /\ TasksKept /\ DocsKept
    BY DEF OrgKept, TasksKept, DocsKept, RowsKept, Home, orgVars, taskVars
  <1> QED
    BY <1>1, <1>2 DEF Kept

\* A request goes on and the tables stay.
LEMMA QuietInv ==
    ASSUME RecordsInv, UNCHANGED <<orgVars, taskVars, documents>>, NEW c \in Caller,
           call' \in [Caller -> Call], \A q \in Caller \ {c} : call'[q] = call[q],
           CallSound(c)'
    PROVE  RecordsInv' /\ Kept
  BY Untouched, CallStep

\* An append that failed leaves the record it was to leave, or none.
LEMMA MayRecordFacts ==
    ASSUME NEW k \in Call, NEW r \in MayRecord(k)
    PROVE  /\ r \in {"none", "success", "failed"}
           /\ r = "success" => k.pc = "record" /\ k.answer = "ok"
  BY DEF MayRecord, RecordOf

LEMMA EndFacts ==
    ASSUME call \in [Caller -> Call], NEW c \in Caller, NEW a \in Answers,
           NEW r \in {"none", "success", "failed"},
           call' = [call EXCEPT ![c] = Answered(call[c], a, r)]
    PROVE  /\ call'[c].pc = "idle" /\ call'[c].answer = a /\ call'[c].recorded = r
           /\ call'[c].table = call[c].table /\ call[c].table \in Tables \cup {Null}
           /\ call[c].answer \in Answers
           /\ call'[c] \in Call /\ call' \in [Caller -> Call]
           /\ \A q \in Caller \ {c} : call'[q] = call[q]
  <1> DEFINE n == Answered(call[c], a, r)
  <1>1. call[c] \in Call /\ call[c].table \in Tables \cup {Null} /\ call[c].answer \in Answers
    BY DEF Call
  <1>2. n \in Call /\ n.pc = "idle" /\ n.answer = a /\ n.recorded = r /\ n.table = call[c].table
    BY <1>1 DEF Answered, NoCall, Call, Pc, Copy
  <1> HIDE DEF n
  <1>3. call' = [call EXCEPT ![c] = n]
    BY DEF n
  <1> QED
    BY <1>1, <1>2, <1>3

\* The end of a request: recorded, not recorded, failed or lost.
LEMMA RequestInv ==
    ASSUME RecordsInv, NEW c \in Caller,
           Recorded(c) \/ Unrecorded(c) \/ RecordFails(c) \/ StatementFails(c)
              \/ CommitLost(c) \/ RequestLost(c),
           UNCHANGED <<orgVars, taskVars, documents>>
    PROVE  RecordsInv' /\ Kept
  <1> DEFINE k == call[c]
  <1>0. call \in [Caller -> Call] /\ k \in Call /\ CallSound(c)
    BY DEF RecordsInv
  <1>1. CASE StatementFails(c) \/ CommitLost(c)
    <2>1. call' = [call EXCEPT ![c] = Outcome(k.table, k.id, "error")]
      BY <1>1 DEF StatementFails, CommitLost
    <2>2. k.table \in Tables \cup {Null} /\ k.id \in Id \cup {Null} /\ "error" \in Answers
      BY <1>0 DEF Call, Answers
    <2> QED
      BY <2>1, <2>2, AnsweredFacts, QuietInv
  <1>2. CASE ~(StatementFails(c) \/ CommitLost(c))
    <2>1. PICK a \in Answers, r \in {"none", "success", "failed"}, t \in Tables \cup {Null} :
            /\ call'[c].pc = "idle" /\ call'[c].answer = a /\ call'[c].recorded = r
            /\ call'[c].table = t /\ call'[c] \in Call
            /\ a = "ok" /\ t \in {"task", "document"} => r = "success"
            /\ r = "success" => a \in {"ok", "error", "lost"}
            /\ call' \in [Caller -> Call]
            /\ \A q \in Caller \ {c} : call'[q] = call[q]
      <3>1. CASE Recorded(c)
        <4>1. call' = [call EXCEPT ![c] = Answered(k, k.answer, RecordOf(k))]
          BY <3>1 DEF Recorded, Goes
        <4>2. /\ RecordOf(k) \in {"none", "success", "failed"}
              /\ k.answer = "ok" <=> RecordOf(k) = "success"
          BY DEF RecordOf
        <4>3. k.answer \in Answers
          BY <1>0 DEF Call
        <4>4. /\ call'[c].pc = "idle" /\ call'[c].answer = k.answer
              /\ call'[c].recorded = RecordOf(k) /\ call'[c].table = k.table
              /\ k.table \in Tables \cup {Null} /\ call'[c] \in Call
              /\ call' \in [Caller -> Call] /\ \A q \in Caller \ {c} : call'[q] = call[q]
          BY <1>0, <4>1, <4>2, <4>3, EndFacts
        <4> HIDE DEF k
        <4> QED
          BY <4>2, <4>3, <4>4
      <3>2. CASE Unrecorded(c)
        <4>1. call' = [call EXCEPT ![c] = Answered(k, "error", "none")]
          BY <3>2 DEF Unrecorded, Goes, IsRecorded
        <4> QED
          BY <1>0, <4>1, EndFacts DEF Answers
      <3>3. CASE RecordFails(c)
        <4> DEFINE a == Unaudited(k.table, k.answer)
        <4>1. PICK r \in MayRecord(k) : call' = [call EXCEPT ![c] = Answered(k, a, r)]
          BY <3>3 DEF RecordFails
        <4>2. /\ r \in {"none", "success", "failed"}
              /\ r = "success" => k.pc = "record" /\ k.answer = "ok"
          BY <1>0, <4>1, MayRecordFacts
        <4>3. /\ a \in Answers /\ ~(a = "ok" /\ k.table \in {"task", "document"})
              /\ k.answer = "ok" => a \in {"ok", "error"}
          BY <1>0 DEF Unaudited, Answers, Call
        <4> HIDE DEF a
        <4>4. /\ call'[c].pc = "idle" /\ call'[c].answer = a
              /\ call'[c].recorded = r /\ call'[c].table = k.table
              /\ k.table \in Tables \cup {Null} /\ call'[c] \in Call
              /\ call' \in [Caller -> Call] /\ \A q \in Caller \ {c} : call'[q] = call[q]
          BY <1>0, <4>1, <4>2, <4>3, EndFacts
        <4> HIDE DEF k
        <4> QED
          BY <4>2, <4>3, <4>4
      <3>4. CASE RequestLost(c)
        <4>1. PICK r \in MayRecord(k) : call' = [call EXCEPT ![c] = Answered(k, "lost", r)]
          BY <3>4 DEF RequestLost
        <4>2. r \in {"none", "success", "failed"}
          BY <1>0, <4>1, MayRecordFacts
        <4> QED
          BY <1>0, <4>1, <4>2, EndFacts DEF Answers
      <3> QED
        BY <1>2, <3>1, <3>2, <3>3, <3>4
    <2>2. CallSound(c)'
      BY <2>1 DEF CallSound, AuditSound, OrgSound, TaskSound, DocSound
    <2> QED
      BY <2>1, <2>2, QuietInv
  <1> QED
    BY <1>1, <1>2

\* A request that has read goes on with its copy.
LEMMA HeldFacts ==
    ASSUME RecordsInv, NEW c \in Caller, NEW t \in Tables, NEW i \in Id \cup {Null},
           NEW r \in Copy, NEW pc \in Pc,
           Arrives(c, Holding(t, i, r, pc))
    PROVE  /\ call' \in [Caller -> Call] /\ \A q \in Caller \ {c} : call'[q] = call[q]
           /\ call'[c].pc = pc /\ call'[c].table = t /\ call'[c].id = i /\ call'[c].copy = r
           /\ call'[c].recorded = "none"
  <1> DEFINE k == Holding(t, i, r, pc)
  <1>1. /\ k \in Call /\ k.pc = pc /\ k.table = t /\ k.id = i /\ k.copy = r
        /\ k.recorded = "none"
    BY HoldingFacts
  <1> HIDE DEF k
  <1>2. call' = [call EXCEPT ![c] = k] /\ call \in [Caller -> Call]
    BY DEF k, RecordsInv, Arrives
  <1>3. call' \in [Caller -> Call] /\ call'[c] = k
    BY <1>1, <1>2
  <1>4. \A q \in Caller \ {c} : call'[q] = call[q]
    BY <1>2
  <1> QED
    BY <1>1, <1>3, <1>4

-----------------------------------------------------------------------------
(* Tasks.                                                                  *)

\* A change of the tasks that is answered at once.
LEMMA TaskWritten ==
    ASSUME RecordsInv, NEW c \in Caller, NEW i \in Id \cup {Null}, NEW a \in Answers,
           Arrives(c, Outcome("task", i, a)) \/ Goes(c, Outcome("task", i, a)),
           tasks' \in Table(TaskRow), held' \in [Id -> SUBSET Status],
           StatusEarned', TasksKept, UNCHANGED <<orgVars, documents>>
    PROVE  RecordsInv' /\ Kept
  <1>1. /\ call' \in [Caller -> Call] /\ CallSound(c)'
        /\ \A q \in Caller \ {c} : call'[q] = call[q]
    BY AnsweredFacts DEF Tables
  <1>2. TablesTyped' /\ OrganizationSound' /\ EmbeddingFits'
    BY DEF RecordsInv, TablesTyped, OrganizationSound, EmbeddingFits, orgVars
  <1>3. OrgKept /\ DocsKept
    BY DEF OrgKept, DocsKept, RowsKept, Home, orgVars
  <1> QED
    BY <1>1, <1>2, <1>3, CallStep DEF Kept

\* TaskStore.Create: a row that was not there.
LEMMA CreateTaskInv ==
    ASSUME RecordsInv, NEW c \in Caller, CreateTask(c), UNCHANGED <<orgVars, documents>>
    PROVE  RecordsInv' /\ Kept
  <1>1. PICK req \in TaskRequest, now \in Instants, i \in Id :
            /\ tasks[i] = Null /\ Arrives(c, Outcome("task", i, "ok"))
            /\ tasks' = [tasks EXCEPT ![i] = NewTask(Ws(c), req, now)]
            /\ held' = [held EXCEPT ![i] = {NewTask(Ws(c), req, now).status}]
    BY DEF CreateTask, InsertTask
  <1> DEFINE n == NewTask(Ws(c), req, now)
  <1>2. n \in TaskRow /\ n.status = "backlog" /\ n.workspace = Ws(c)
    BY RequestsAssumption DEF NewTask, TaskRow, TaskRequest, Ws, Status
  <1> HIDE DEF n
  <1>3. tasks \in Table(TaskRow) /\ held \in [Id -> SUBSET Status] /\ StatusEarned
    BY DEF RecordsInv, TablesTyped
  <1>4. tasks' = [tasks EXCEPT ![i] = n] /\ held' = [held EXCEPT ![i] = {"backlog"}]
    BY <1>1, <1>2 DEF n
  <1>5. tasks' \in Table(TaskRow) /\ held' \in [Id -> SUBSET Status]
    BY <1>2, <1>3, <1>4 DEF Table, Status
  <1>6. StatusEarned'
    BY <1>2, <1>3, <1>4 DEF StatusEarned, Table
  <1>7. TasksKept
    BY <1>1, <1>2, <1>3, <1>4, RowsExist DEF TasksKept, RowsKept, Table, Exists
  <1> QED
    BY <1>1, <1>5, <1>6, <1>7, TaskWritten DEF Answers

\* TaskStore.Delete.
LEMMA DeleteTaskInv ==
    ASSUME RecordsInv, NEW c \in Caller, DeleteTask(c), UNCHANGED <<orgVars, documents>>
    PROVE  RecordsInv' /\ Kept
  <1>0. tasks \in Table(TaskRow) /\ held \in [Id -> SUBSET Status] /\ StatusEarned
    BY DEF RecordsInv, TablesTyped
  <1>1. PICK i \in Id :
            \/ /\ Arrives(c, Outcome("task", i, "ok")) /\ Exists(tasks[i])
               /\ tasks' = [tasks EXCEPT ![i] = Gone] /\ UNCHANGED held
            \/ Arrives(c, Outcome("task", i, "notfound")) /\ UNCHANGED taskVars
    BY DEF DeleteTask, TaskVisible
  <1>2. CASE Arrives(c, Outcome("task", i, "notfound")) /\ UNCHANGED taskVars
    BY <1>2, AnsweredFacts, QuietInv DEF Tables, Answers
  <1>3. CASE /\ Arrives(c, Outcome("task", i, "ok")) /\ Exists(tasks[i])
             /\ tasks' = [tasks EXCEPT ![i] = Gone] /\ UNCHANGED held
    <2>1. tasks' \in Table(TaskRow)
      BY <1>0, <1>3 DEF Table
    <2>2. StatusEarned'
      BY <1>0, <1>3, RowsExist DEF StatusEarned, Table
    <2>3. TasksKept
      BY <1>0, <1>3, RowsExist DEF TasksKept, RowsKept, Table, Exists
    <2> QED
      BY <1>0, <1>3, <2>1, <2>2, <2>3, TaskWritten DEF Answers
  <1> QED
    BY <1>1, <1>2, <1>3

\* The copy of a PATCH has the status that was read.
LEMMA UpdateTaskInv ==
    ASSUME RecordsInv, NEW c \in Caller, UpdateTask(c), UNCHANGED <<orgVars, documents>>
    PROVE  RecordsInv' /\ Kept
  <1>0. tasks \in Table(TaskRow) /\ StatusEarned
    BY DEF RecordsInv, TablesTyped
  <1>1. PICK i \in Id, patch \in TaskPatch :
            /\ Arrives(c, IF TaskVisible(Ws(c), i)
                          THEN Holding("task", i, Overlay(tasks[i], patch), "write")
                          ELSE Outcome("task", i, "notfound"))
            /\ UNCHANGED taskVars
    BY DEF UpdateTask
  <1>2. CASE ~TaskVisible(Ws(c), i)
    BY <1>1, <1>2, AnsweredFacts, QuietInv DEF Tables, Answers
  <1>3. CASE TaskVisible(Ws(c), i)
    <2> DEFINE r == Overlay(tasks[i], patch)
    <2>1. tasks[i] \in TaskRow /\ tasks[i] # Null /\ tasks[i].status \in held[i]
      BY <1>0, <1>3, RowsExist DEF TaskVisible, Table, Exists, StatusEarned
    <2>2. r \in TaskRow /\ r.status = tasks[i].status
      BY <2>1 DEF Overlay, TaskRow, TaskPatch
    <2>3. Arrives(c, Holding("task", i, r, "write"))
      BY <1>1, <1>3
    <2> HIDE DEF r
    <2>4. /\ r \in Copy /\ r # Null /\ "write" \in Pc /\ "task" \in Tables
          /\ i \in Id \cup {Null}
      BY <2>2, RowsExist DEF Copy, Pc, Tables, Exists
    <2>5. /\ call' \in [Caller -> Call] /\ \A q \in Caller \ {c} : call'[q] = call[q]
          /\ call'[c].pc = "write" /\ call'[c].table = "task" /\ call'[c].id = i
          /\ call'[c].copy = r /\ call'[c].recorded = "none"
      BY <2>3, <2>4, HeldFacts
    <2>6. TaskSound(call[c])'
      BY <1>1, <2>1, <2>2, <2>5 DEF TaskSound, taskVars
    <2>7. CallSound(c)'
      BY <2>4, <2>5, <2>6 DEF CallSound, AuditSound, OrgSound, DocSound
    <2> QED
      BY <1>1, <2>5, <2>7, QuietInv
  <1> QED
    BY <1>2, <1>3

\* The copy of a transition has a status that follows the one read.
LEMMA TransitionInv ==
    ASSUME RecordsInv, NEW c \in Caller, Transition(c), UNCHANGED <<orgVars, documents>>
    PROVE  RecordsInv' /\ Kept
  <1>0. tasks \in Table(TaskRow) /\ StatusEarned
    BY DEF RecordsInv, TablesTyped
  <1>1. PICK i \in Id, to \in Status :
            /\ Arrives(c, IF ~TaskVisible(Ws(c), i) THEN Outcome("task", i, "notfound")
                  ELSE IF ~CanTransition(tasks[i].status, to)
                  THEN Outcome("task", i, "invalid")
                  ELSE Holding("task", i, [tasks[i] EXCEPT !.status = to], "move"))
            /\ UNCHANGED taskVars
    BY DEF Transition, TransitionRequest
  <1>2. CASE ~TaskVisible(Ws(c), i)
    BY <1>1, <1>2, AnsweredFacts, QuietInv DEF Tables, Answers
  <1>3. CASE TaskVisible(Ws(c), i) /\ ~CanTransition(tasks[i].status, to)
    BY <1>1, <1>3, AnsweredFacts, QuietInv DEF Tables, Answers
  <1>4. CASE TaskVisible(Ws(c), i) /\ CanTransition(tasks[i].status, to)
    <2> DEFINE r == [tasks[i] EXCEPT !.status = to]
    <2>1. tasks[i] \in TaskRow /\ tasks[i] # Null /\ tasks[i].status \in held[i]
      BY <1>0, <1>4, RowsExist DEF TaskVisible, Table, Exists, StatusEarned
    <2>2. r \in TaskRow /\ r.status = to
      BY <2>1 DEF TaskRow
    <2>3. Arrives(c, Holding("task", i, r, "move"))
      BY <1>1, <1>4
    <2> HIDE DEF r
    <2>4. /\ r \in Copy /\ r # Null /\ "move" \in Pc /\ "task" \in Tables
          /\ i \in Id \cup {Null}
      BY <2>2, RowsExist DEF Copy, Pc, Tables, Exists
    <2>5. /\ call' \in [Caller -> Call] /\ \A q \in Caller \ {c} : call'[q] = call[q]
          /\ call'[c].pc = "move" /\ call'[c].table = "task" /\ call'[c].id = i
          /\ call'[c].copy = r /\ call'[c].recorded = "none"
      BY <2>3, <2>4, HeldFacts
    <2>6. TaskSound(call[c])'
      BY <1>1, <1>4, <2>1, <2>2, <2>5 DEF TaskSound, taskVars
    <2>7. CallSound(c)'
      BY <2>4, <2>5, <2>6 DEF CallSound, AuditSound, OrgSound, DocSound
    <2> QED
      BY <1>1, <2>5, <2>7, QuietInv
  <1> QED
    BY <1>2, <1>3, <1>4

\* TaskStore.Update: title and status of the copy, whatever the row has by now.
LEMMA WriteTaskInv ==
    ASSUME RecordsInv, NEW c \in Caller, WriteTask(c), UNCHANGED <<orgVars, documents>>
    PROVE  RecordsInv' /\ Kept
  <1> DEFINE i == call[c].id
             s == call[c].copy.status
             n == [tasks[i] EXCEPT !.title = call[c].copy.title, !.status = s]
  <1>0. /\ tasks \in Table(TaskRow) /\ held \in [Id -> SUBSET Status] /\ StatusEarned
        /\ CallSound(c)
    BY DEF RecordsInv, TablesTyped
  <1>1. /\ i \in Id /\ call[c].copy \in TaskRow /\ s \in Status
        /\ s \in held[i] \/ \E r \in held[i] : CanTransition(r, s)
    BY <1>0 DEF CallSound, TaskSound, WriteTask, TaskRow
  <1>2. CASE ~TaskVisible(Ws(c), i)
    <2>1. Goes(c, Outcome("task", i, "notfound")) /\ UNCHANGED taskVars
      BY <1>2 DEF WriteTask
    <2> QED
      BY <1>1, <2>1, AnsweredFacts, QuietInv DEF Tables, Answers
  <1>3. CASE TaskVisible(Ws(c), i)
    <2>1. /\ Goes(c, Outcome("task", i, "ok")) /\ tasks' = [tasks EXCEPT ![i] = n]
          /\ held' = [held EXCEPT ![i] = held[i] \cup {s}]
      BY <1>3 DEF WriteTask
    <2>2. tasks[i] \in TaskRow /\ Exists(tasks[i])
      BY <1>0, <1>1, <1>3 DEF TaskVisible, Table, Exists
    <2>3. /\ n \in TaskRow /\ n.status = s /\ n.created = tasks[i].created
          /\ n.workspace = tasks[i].workspace
      BY <1>1, <2>2 DEF TaskRow
    <2> HIDE DEF n, i, s
    <2>4. tasks' \in Table(TaskRow) /\ held' \in [Id -> SUBSET Status]
      BY <1>0, <1>1, <2>1, <2>3 DEF Table
    <2>5. StatusEarned'
      <3>1. ASSUME NEW j \in Id
            PROVE  /\ Exists(tasks'[j]) => tasks'[j].status \in held'[j]
                   /\ \A x \in held'[j] \ {"backlog"} :
                        \/ Exists(FirstTasks[j]) /\ x = FirstTasks[j].status
                        \/ \E r \in held'[j] : ~Terminal(r) /\ allowedTransition(r, x)
        BY <1>0, <1>1, <2>1, <2>3 DEF StatusEarned, Table, CanTransition
      <3> QED
        BY <3>1 DEF StatusEarned
    <2>6. TasksKept
      BY <1>0, <1>1, <2>1, <2>2, <2>3, RowsExist DEF TasksKept, RowsKept, Table, Exists
    <2> QED
      BY <1>1, <2>1, <2>4, <2>5, <2>6, TaskWritten DEF Answers
  <1> QED
    BY <1>2, <1>3

\* Every step of a task request.
LEMMA TaskStepInv ==
    ASSUME RecordsInv, NEW c \in Caller, TaskStep(c), UNCHANGED <<orgVars, documents>>
    PROVE  RecordsInv' /\ Kept
  BY CreateTaskInv, UpdateTaskInv, TransitionInv, WriteTaskInv, DeleteTaskInv DEF TaskStep

-----------------------------------------------------------------------------
(* Documents.                                                              *)

\* A request that holds a document, or looks for some.
LEMMA DocHeld ==
    ASSUME RecordsInv, NEW c \in Caller, NEW i \in Id \cup {Null}, NEW r \in Copy,
           NEW pc \in {"embed", "write", "search"},
           Arrives(c, Holding("document", i, r, pc)),
           UNCHANGED <<orgVars, taskVars, documents>>,
           pc # "search" =>
             /\ r \in Draft /\ r.workspace = Ws(c)
             /\ i = Null \/ Copied(documents, i, r)
             /\ pc = "write" => i \in Id /\ r.embedding = Embed(r.content)
    PROVE  RecordsInv' /\ Kept
  <1>1. pc \in Pc /\ "document" \in Tables /\ pc \notin {"move", "insert", "idle", "delete"}
    BY DEF Pc, Tables
  <1>2. /\ call' \in [Caller -> Call] /\ \A q \in Caller \ {c} : call'[q] = call[q]
        /\ call'[c].pc = pc /\ call'[c].table = "document" /\ call'[c].id = i
        /\ call'[c].copy = r /\ call'[c].recorded = "none"
    BY <1>1, HeldFacts
  <1>3. pc # "search" => r # Null
    BY RowsExist DEF Exists
  <1>4. DocSound(c, call[c])'
    <2>1. i = Null \/ Copied(documents, i, r) => i = Null \/ Copied(documents', i, r)
      BY DEF Copied
    <2> QED
      BY <1>1, <1>2, <2>1 DEF DocSound, Ws, Copied
  <1>5. CallSound(c)'
    BY <1>1, <1>2, <1>3, <1>4 DEF CallSound, AuditSound, OrgSound, TaskSound
  <1> QED
    BY <1>2, <1>5, QuietInv

\* Service.Create before the vector.
LEMMA CreateDocumentInv ==
    ASSUME RecordsInv, NEW c \in Caller, CreateDocument(c), UNCHANGED <<orgVars, taskVars>>
    PROVE  RecordsInv' /\ Kept
  <1>1. PICK req \in DocumentRequest, now \in Instants :
            /\ Arrives(c, Holding("document", Null, NewDocument(Ws(c), req, now), "embed"))
            /\ UNCHANGED documents
    BY DEF CreateDocument
  <1> DEFINE r == NewDocument(Ws(c), req, now)
  <1>2. r \in Draft /\ r.workspace = Ws(c)
    BY RequestsAssumption DEF NewDocument, Draft, DocumentRequest, Ws
  <1>3. Arrives(c, Holding("document", Null, r, "embed"))
    BY <1>1
  <1> HIDE DEF r
  <1>4. r \in Copy
    BY <1>2 DEF Copy
  <1> QED
    BY <1>1, <1>2, <1>3, <1>4, DocHeld

\* Service.Update: the copy keeps its vector exactly if it keeps its content.
LEMMA UpdateDocumentInv ==
    ASSUME RecordsInv, NEW c \in Caller, UpdateDocument(c), UNCHANGED <<orgVars, taskVars>>
    PROVE  RecordsInv' /\ Kept
  <1>0. documents \in Table(DocumentRow) /\ EmbeddingFits
    BY DEF RecordsInv, TablesTyped
  <1>1. PICK i \in Id, patch \in DocumentPatch :
            /\ Arrives(c, IF DocumentVisible(Ws(c), i)
                  THEN Holding("document", i, Overlay(documents[i], patch),
                        IF NeedsEmbedding(documents[i], patch) THEN "embed" ELSE "write")
                  ELSE Outcome("document", i, "notfound"))
            /\ UNCHANGED documents
    BY DEF UpdateDocument
  <1>2. CASE ~DocumentVisible(Ws(c), i)
    BY <1>1, <1>2, AnsweredFacts, QuietInv DEF Tables, Answers
  <1>3. CASE DocumentVisible(Ws(c), i)
    <2> DEFINE r == Overlay(documents[i], patch)
               pc == IF NeedsEmbedding(documents[i], patch) THEN "embed" ELSE "write"
    <2>1. /\ documents[i] \in DocumentRow /\ documents[i] # Null
          /\ documents[i].workspace = Ws(c)
          /\ documents[i].embedding = documents[i].content
      BY <1>0, <1>3 DEF DocumentVisible, Table, Exists, EmbeddingFits, EmbeddingsFit, Embed
    <2>2. /\ r \in Draft /\ r.workspace = Ws(c) /\ r.created = documents[i].created
          /\ r.embedding = documents[i].embedding
          /\ r.content = IF "content" \in DOMAIN patch THEN patch.content
                         ELSE documents[i].content
      BY <2>1 DEF Overlay, DocumentRow, Draft, DocumentPatch
    <2>3. pc = "write" => r.embedding = r.content
      BY <2>1, <2>2 DEF NeedsEmbedding
    <2>4. Arrives(c, Holding("document", i, r, pc)) /\ pc \in {"embed", "write", "search"}
      BY <1>1, <1>3
    <2>5. Copied(documents, i, r) /\ r \in Copy /\ pc # "search"
      BY <2>1, <2>2 DEF Copied, Copy
    <2> HIDE DEF r, pc
    <2> QED
      BY <1>1, <2>2, <2>3, <2>4, <2>5, DocHeld DEF Embed
  <1> QED
    BY <1>2, <1>3

\* Search.
LEMMA SearchInv ==
    ASSUME RecordsInv, NEW c \in Caller, SearchDocuments(c) \/ Found(c),
           UNCHANGED <<orgVars, taskVars>>
    PROVE  RecordsInv' /\ Kept
  <1>1. CASE SearchDocuments(c)
    BY <1>1, DocHeld DEF SearchDocuments, Copy
  <1>2. CASE Found(c)
    BY <1>2, AnsweredFacts, QuietInv DEF Found, Tables, Answers
  <1> QED
    BY <1>1, <1>2

\* The provider answers with the vector of the copy's content.
LEMMA EmbedContentInv ==
    ASSUME RecordsInv, NEW c \in Caller, EmbedContent(c), UNCHANGED <<orgVars, taskVars>>
    PROVE  RecordsInv' /\ Kept
  <1> DEFINE k == call[c]
             r == [k.copy EXCEPT !.embedding = Embed(k.copy.content)]
             pc == IF k.id = Null THEN "insert" ELSE "write"
             n == [k EXCEPT !.copy = r, !.pc = pc]
  <1>0. call \in [Caller -> Call] /\ k \in Call /\ CallSound(c)
    BY DEF RecordsInv
  <1>1. /\ k.pc = "embed" /\ k.table = "document" /\ UNCHANGED documents
        /\ call' = [call EXCEPT ![c] = n]
    BY DEF EmbedContent, Goes
  <1>2. /\ k.copy \in Draft /\ k.copy.workspace = Ws(c) /\ k.recorded = "none"
        /\ k.id = Null \/ Copied(documents, k.id, k.copy)
    BY <1>0, <1>1 DEF CallSound, DocSound, AuditSound
  <1>3. /\ r \in Draft /\ r.workspace = Ws(c) /\ r.created = k.copy.created
        /\ r.content = k.copy.content /\ r.embedding = Embed(r.content)
    BY <1>2 DEF Draft, Embed
  <1>4. r \in Copy /\ r # Null /\ pc \in Pc /\ pc \in {"insert", "write"}
    BY <1>3, RowsExist DEF Copy, Pc, Exists
  <1>5. k.id # Null => k.id \in Id
    BY <1>0 DEF Call
  <1>6. pc = "write" => k.id \in Id /\ Copied(documents, k.id, r)
    BY <1>2, <1>3, <1>5 DEF Copied
  <1> HIDE DEF r, pc
  <1>7. /\ n \in Call /\ n.pc = pc /\ n.copy = r /\ n.table = "document" /\ n.id = k.id
        /\ n.recorded = "none"
    BY <1>0, <1>1, <1>2, <1>4 DEF Call
  <1> HIDE DEF n
  <1>8. /\ call' \in [Caller -> Call] /\ call'[c] = n
        /\ \A q \in Caller \ {c} : call'[q] = call[q]
    BY <1>0, <1>1, <1>7
  <1>9. DocSound(c, call[c])'
    <2>1. pc = "write" => Copied(documents', k.id, r)
      BY <1>1, <1>6 DEF Copied
    <2> QED
      BY <1>3, <1>4, <1>6, <1>7, <1>8, <2>1 DEF DocSound, Ws, Copied
  <1>10. CallSound(c)'
    BY <1>4, <1>7, <1>8, <1>9 DEF CallSound, AuditSound, OrgSound, TaskSound
  <1> QED
    BY <1>1, <1>8, <1>10, QuietInv

\* A change of the documents that is answered at once.
LEMMA DocWritten ==
    ASSUME RecordsInv, NEW c \in Caller, NEW i \in Id \cup {Null}, NEW a \in Answers,
           Arrives(c, Outcome("document", i, a)) \/ Goes(c, Outcome("document", i, a)),
           documents' \in Table(DocumentRow), EmbeddingFits', DocsKept,
           UNCHANGED <<orgVars, taskVars>>
    PROVE  RecordsInv' /\ Kept
  <1>1. /\ call' \in [Caller -> Call] /\ CallSound(c)'
        /\ \A q \in Caller \ {c} : call'[q] = call[q]
    BY AnsweredFacts DEF Tables
  <1>2. TablesTyped' /\ OrganizationSound' /\ StatusEarned'
    BY DEF RecordsInv, TablesTyped, OrganizationSound, StatusEarned, orgVars, taskVars
  <1>3. OrgKept /\ TasksKept
    BY DEF OrgKept, TasksKept, RowsKept, Home, orgVars, taskVars
  <1> QED
    BY <1>1, <1>2, <1>3, CallStep DEF Kept

\* A whole document is written over a row of its workspace and age, or where
\* there was none.
LEMMA DocPut ==
    ASSUME RecordsInv, NEW c \in Caller, NEW i \in Id, NEW r \in Draft,
           Goes(c, Outcome("document", i, "ok")), UNCHANGED <<orgVars, taskVars>>,
           documents' = [documents EXCEPT ![i] = r], r.embedding = Embed(r.content),
           documents[i] # Gone,
           Exists(documents[i]) =>
              r.workspace = documents[i].workspace /\ r.created = documents[i].created
    PROVE  RecordsInv' /\ Kept
  <1>0. documents \in Table(DocumentRow) /\ EmbeddingFits
    BY DEF RecordsInv, TablesTyped
  <1>1. r \in DocumentRow
    BY DEF Draft, DocumentRow, Embed
  <1>2. documents' \in Table(DocumentRow)
    BY <1>0, <1>1 DEF Table
  <1>3. EmbeddingFits'
    BY <1>0 DEF EmbeddingFits, EmbeddingsFit, Table
  <1>4. DocsKept
    BY <1>0, RowsExist DEF DocsKept, RowsKept, Table, Exists
  <1> QED
    BY <1>2, <1>3, <1>4, DocWritten DEF Answers

\* KnowledgeStore.Upsert of a new document and KnowledgeStore.Update.
LEMMA PutDocumentInv ==
    ASSUME RecordsInv, NEW c \in Caller, InsertDocument(c) \/ WriteDocument(c),
           UNCHANGED <<orgVars, taskVars>>
    PROVE  RecordsInv' /\ Kept
  <1> DEFINE k == call[c]
  <1>0. k \in Call /\ CallSound(c)
    BY DEF RecordsInv
  <1>1. ASSUME k.table = "document", k.pc \in {"insert", "write"}
        PROVE  /\ k.copy \in Draft /\ k.copy.workspace = Ws(c)
               /\ k.copy.embedding = Embed(k.copy.content)
               /\ k.pc = "write" => Copied(documents, k.id, k.copy)
    BY <1>0, <1>1, RowsExist DEF CallSound, DocSound
  <1>2. CASE InsertDocument(c)
    <2>1. PICK i \in Id :
            /\ k.pc = "insert" /\ k.table = "document" /\ documents[i] = Null
            /\ Goes(c, Outcome("document", i, "ok"))
            /\ documents' = [documents EXCEPT ![i] = k.copy]
      BY <1>2 DEF InsertDocument
    <2>2. documents[i] # Gone /\ ~Exists(documents[i])
      BY <2>1, RowsExist
    <2>3. k.copy \in Draft /\ k.copy.embedding = Embed(k.copy.content)
      BY <1>1, <2>1
    <2> HIDE DEF k
    <2> QED
      BY <2>1, <2>2, <2>3, DocPut
  <1>3. CASE WriteDocument(c)
    <2> DEFINE i == k.id
    <2>1. /\ k.pc = "write" /\ k.table = "document"
          /\ IF DocumentVisible(Ws(c), i)
             THEN /\ Goes(c, Outcome("document", i, "ok"))
                  /\ documents' = [documents EXCEPT ![i] = k.copy]
             ELSE Goes(c, Outcome("document", i, "notfound")) /\ UNCHANGED documents
      BY <1>3 DEF WriteDocument
    <2>2. /\ i \in Id /\ k.copy \in Draft /\ k.copy.workspace = Ws(c)
          /\ k.copy.embedding = Embed(k.copy.content)
          /\ Exists(documents[i]) => k.copy.created = documents[i].created
      BY <1>1, <2>1 DEF Copied
    <2> HIDE DEF i
    <2>3. CASE ~DocumentVisible(Ws(c), i)
      BY <2>1, <2>2, <2>3, AnsweredFacts, QuietInv DEF Tables, Answers
    <2>4. CASE DocumentVisible(Ws(c), i)
      <3>1. /\ Exists(documents[i]) /\ documents[i].workspace = Ws(c)
            /\ documents[i] # Gone
        BY <2>4, RowsExist DEF DocumentVisible
      <3> HIDE DEF k
      <3> QED
        BY <2>1, <2>2, <2>4, <3>1, DocPut
    <2> QED
      BY <2>3, <2>4
  <1> QED
    BY <1>2, <1>3

\* KnowledgeStore.Delete.
LEMMA DeleteDocumentInv ==
    ASSUME RecordsInv, NEW c \in Caller, DeleteDocument(c), UNCHANGED <<orgVars, taskVars>>
    PROVE  RecordsInv' /\ Kept
  <1>0. documents \in Table(DocumentRow) /\ EmbeddingFits
    BY DEF RecordsInv, TablesTyped
  <1>1. PICK i \in Id : RemoveDocument(c, i)
    BY DEF DeleteDocument
  <1>2. CASE ~DocumentVisible(Ws(c), i)
    BY <1>1, <1>2, AnsweredFacts, QuietInv DEF RemoveDocument, Tables, Answers
  <1>3. CASE DocumentVisible(Ws(c), i)
    <2>1. /\ Arrives(c, Outcome("document", i, "ok"))
          /\ documents' = [documents EXCEPT ![i] = Gone]
      BY <1>1, <1>3 DEF RemoveDocument
    <2>2. documents' \in Table(DocumentRow)
      BY <1>0, <2>1 DEF Table
    <2>3. EmbeddingFits'
      BY <1>0, <2>1, RowsExist DEF EmbeddingFits, EmbeddingsFit, Table
    <2>4. DocsKept
      BY <1>0, <2>1, RowsExist DEF DocsKept, RowsKept, Table, Exists
    <2> QED
      BY <2>1, <2>2, <2>3, <2>4, DocWritten DEF Answers
  <1> QED
    BY <1>2, <1>3

\* Every step of a document request.
LEMMA DocStepInv ==
    ASSUME RecordsInv, NEW c \in Caller, DocStep(c), UNCHANGED <<orgVars, taskVars>>
    PROVE  RecordsInv' /\ Kept
  BY CreateDocumentInv, UpdateDocumentInv, EmbedContentInv, PutDocumentInv,
     DeleteDocumentInv, SearchInv DEF DocStep

-----------------------------------------------------------------------------
(* The organization.                                                       *)

\* A request that holds a copy of a row of the organization, or its id.
LEMMA OrgHeld ==
    ASSUME RecordsInv, NEW c \in Caller, NEW t \in OrgTables, NEW i \in Id \cup {Null},
           NEW r \in Copy, NEW pc \in {"insert", "write", "delete"},
           Arrives(c, Holding(t, i, r, pc)), UNCHANGED <<orgVars, taskVars, documents>>,
           pc # "delete" => r # Null, pc # "insert" => i \in Id,
           t = "department" => r \in DepartmentRow,
           t = "team" =>
             /\ pc # "delete" => r \in TeamRow
             /\ pc = "delete" =>
                  teams[i] # Null /\ (Exists(teams[i]) => Home(i) = Ws(c)),
           t = "employee" =>
             /\ pc # "delete" => r \in EmployeeRow
             /\ pc = "write" => Copied(employees, i, r)
    PROVE  RecordsInv' /\ Kept
  <1>1. pc \in Pc /\ t \in Tables /\ t \in {"department", "team", "employee"}
    BY DEF Pc, Tables, OrgTables
  <1>2. /\ call' \in [Caller -> Call] /\ \A q \in Caller \ {c} : call'[q] = call[q]
        /\ call'[c].pc = pc /\ call'[c].table = t /\ call'[c].id = i
        /\ call'[c].copy = r /\ call'[c].recorded = "none"
    BY <1>1, HeldFacts
  <1>3. OrgSound(c, call[c])'
    <2>1. t = "team" /\ pc = "delete" =>
             teams'[i] # Null /\ (Exists(teams'[i]) => Home(i)' = Ws(c))
      BY DEF orgVars, Home
    <2>2. t = "employee" /\ pc = "write" => Copied(employees', i, r)
      BY DEF orgVars, Copied
    <2> QED
      BY <1>1, <1>2, <2>1, <2>2 DEF OrgSound, Ws, Home, Copied
  <1>4. CallSound(c)'
    BY <1>1, <1>2, <1>3 DEF CallSound, AuditSound, TaskSound, DocSound
  <1> QED
    BY <1>2, <1>4, QuietInv

\* A change of the organization that is answered at once.
LEMMA OrgWritten ==
    ASSUME RecordsInv, NEW c \in Caller, NEW t \in OrgTables, NEW i \in Id \cup {Null},
           NEW a \in Answers,
           Arrives(c, Outcome(t, i, a)) \/ Goes(c, Outcome(t, i, a)),
           departments' \in Table(DepartmentRow), teams' \in Table(TeamRow),
           employees' \in Table(EmployeeRow), KeysHold(departments', teams', employees'),
           \A e \in engaged : Exists(employees'[e]), OrgKept,
           UNCHANGED <<engaged, taskVars, documents>>
    PROVE  RecordsInv' /\ Kept
  <1>1. /\ call' \in [Caller -> Call] /\ CallSound(c)'
        /\ \A q \in Caller \ {c} : call'[q] = call[q]
    BY AnsweredFacts DEF Tables
  <1>2. TablesTyped' /\ EmbeddingFits' /\ StatusEarned'
    BY DEF RecordsInv, TablesTyped, EmbeddingFits, StatusEarned, taskVars
  <1>3. OrganizationSound'
    BY DEF OrganizationSound
  <1>4. TasksKept /\ DocsKept
    BY DEF TasksKept, DocsKept, RowsKept, taskVars
  <1> QED
    BY <1>1, <1>2, <1>3, <1>4, CallStep DEF Kept

\* Rows that keep their parents, or change them inside their workspace, stay
\* in it.
LEMMA HomesKept ==
    ASSUME RecordsInv, TeamsPlaced(teams', departments'),
           EmployeesPlaced(employees', teams'),
           departments' \in Table(DepartmentRow), teams' \in Table(TeamRow),
           employees' \in Table(EmployeeRow),
           RowsKept(departments), RowsKept(teams), RowsKept(employees),
           \A i \in Id : Exists(departments[i]) /\ Exists(departments'[i]) =>
              departments'[i].workspace = departments[i].workspace,
           \A i \in Id : Exists(teams[i]) /\ Exists(teams'[i]) =>
              teams'[i].department = teams[i].department \/ Home(i)' = Home(i),
           \A i \in Id : Exists(employees[i]) /\ Exists(employees'[i]) =>
              \/ employees'[i].team = employees[i].team
              \/ departments'[teams'[employees'[i].team].department].workspace
                    = departments[teams[employees[i].team].department].workspace
    PROVE  OrgKept
  <1>0. /\ teams \in Table(TeamRow) /\ employees \in Table(EmployeeRow)
        /\ TeamsPlaced(teams, departments) /\ EmployeesPlaced(employees, teams)
    BY DEF RecordsInv, TablesTyped, OrganizationSound, KeysHold
  <1>1. ASSUME NEW i \in Id, Exists(teams[i]), Exists(teams'[i])
        PROVE  Home(i)' = Home(i)
    <2>1. CASE teams'[i].department = teams[i].department
      <3>1. teams[i].department \in Id
        BY <1>0, <1>1 DEF Table, Exists, TeamRow
      <3>2. Exists(departments[teams[i].department])
        BY <1>0, <1>1 DEF TeamsPlaced
      <3>3. Exists(departments'[teams'[i].department])
        BY <1>1 DEF TeamsPlaced
      <3> QED
        BY <2>1, <3>1, <3>2, <3>3 DEF Home
    <2> QED
      BY <1>1, <2>1
  <1>2. ASSUME NEW i \in Id, Exists(employees[i]), Exists(employees'[i])
        PROVE  departments'[teams'[employees'[i].team].department].workspace
                  = departments[teams[employees[i].team].department].workspace
    <2>1. CASE employees'[i].team = employees[i].team
      <3>1. employees[i].team \in Id
        BY <1>0, <1>2 DEF Table, Exists, EmployeeRow
      <3>2. Exists(teams[employees[i].team])
        BY <1>0, <1>2 DEF EmployeesPlaced
      <3>3. Exists(teams'[employees'[i].team])
        BY <1>2 DEF EmployeesPlaced
      <3>4. Home(employees[i].team)' = Home(employees[i].team)'
        OBVIOUS
      <3> QED
        BY <2>1, <3>1, <3>2, <3>3, <1>1 DEF Home
    <2> QED
      BY <1>2, <2>1
  <1> QED
    BY <1>1, <1>2 DEF OrgKept

\* What the invariant says of the organization.
LEMMA OrgFacts ==
    ASSUME RecordsInv
    PROVE  /\ departments \in Table(DepartmentRow) /\ teams \in Table(TeamRow)
           /\ employees \in Table(EmployeeRow) /\ engaged \subseteq Id
           /\ KeysHold(departments, teams, employees)
           /\ \A e \in engaged : Exists(employees[e])
  BY DEF RecordsInv, TablesTyped, OrganizationSound

\* A department is inserted or renamed.
LEMMA DepartmentPut ==
    ASSUME RecordsInv, NEW c \in Caller, NEW d \in Id, NEW r \in DepartmentRow,
           \/ Arrives(c, Outcome("department", d, "ok"))
           \/ Goes(c, Outcome("department", d, "ok")),
           departments' = [departments EXCEPT ![d] = r],
           UNCHANGED <<teams, employees, engaged, taskVars, documents>>,
           departments[d] # Gone,
           Exists(departments[d]) => /\ r.workspace = departments[d].workspace
                                     /\ r.created = departments[d].created,
           \A x \in Id \ {d} : Exists(departments[x]) /\ departments[x].workspace = r.workspace
                                  => departments[x].name # r.name
    PROVE  RecordsInv' /\ Kept
  <1>0. /\ departments \in Table(DepartmentRow) /\ teams \in Table(TeamRow)
        /\ employees \in Table(EmployeeRow)
        /\ KeysHold(departments, teams, employees)
        /\ \A e \in engaged : Exists(employees[e])
    BY OrgFacts
  <1>1. departments' \in Table(DepartmentRow) /\ Exists(r)
    BY <1>0, RowsExist DEF Table
  <1>2. \A i \in Id : departments'[i] = IF i = d THEN r ELSE departments[i]
    BY <1>0 DEF Table
  <1>3. TeamsPlaced(teams', departments')
    BY <1>0, <1>1, <1>2 DEF KeysHold, TeamsPlaced, Table, TeamRow, Exists
  <1>4. DepartmentNamesUnique(departments')
    <2> SUFFICES ASSUME NEW i \in Id, NEW j \in Id, i # j, Exists(departments'[i]),
                        Exists(departments'[j]),
                        departments'[i].workspace = departments'[j].workspace
                 PROVE  departments'[i].name # departments'[j].name
      BY DEF DepartmentNamesUnique
    <2>1. CASE i # d /\ j # d
      BY <1>0, <1>2, <2>1 DEF KeysHold, DepartmentNamesUnique
    <2>2. CASE i = d \/ j = d
      BY <1>2, <2>2
    <2> QED
      BY <2>1, <2>2
  <1>5. KeysHold(departments', teams', employees')
    BY <1>0, <1>3, <1>4 DEF KeysHold
  <1>6. RowsKept(departments) /\ RowsKept(teams) /\ RowsKept(employees)
    BY <1>1, <1>2 DEF RowsKept, Exists
  <1>7. \A i \in Id : Exists(departments[i]) /\ Exists(departments'[i]) =>
            departments'[i].workspace = departments[i].workspace
    BY <1>2
  <1>8. OrgKept
    BY <1>0, <1>1, <1>3, <1>5, <1>6, <1>7, HomesKept DEF KeysHold
  <1> QED
    BY <1>0, <1>1, <1>5, <1>8, OrgWritten DEF OrgTables, Answers

\* A team is inserted, renamed or moved.
LEMMA TeamPut ==
    ASSUME RecordsInv, NEW c \in Caller, NEW t \in Id, NEW r \in TeamRow,
           Goes(c, Outcome("team", t, "ok")), teams' = [teams EXCEPT ![t] = r],
           UNCHANGED <<departments, employees, engaged, taskVars, documents>>,
           Exists(departments[r.department]), teams[t] # Gone,
           Exists(teams[t]) => /\ departments[r.department].workspace = Home(t)
                               /\ r.created = teams[t].created,
           \A x \in Id \ {t} : Exists(teams[x]) /\ teams[x].department = r.department
                                  => teams[x].name # r.name
    PROVE  RecordsInv' /\ Kept
  <1>0. /\ departments \in Table(DepartmentRow) /\ teams \in Table(TeamRow)
        /\ employees \in Table(EmployeeRow)
        /\ KeysHold(departments, teams, employees)
        /\ \A e \in engaged : Exists(employees[e])
    BY OrgFacts
  <1>1. teams' \in Table(TeamRow) /\ Exists(r)
    BY <1>0, RowsExist DEF Table
  <1>2. \A i \in Id : teams'[i] = IF i = t THEN r ELSE teams[i]
    BY <1>0 DEF Table
  <1>3. TeamsPlaced(teams', departments')
    BY <1>0, <1>2 DEF KeysHold, TeamsPlaced
  <1>4. EmployeesPlaced(employees', teams')
    BY <1>0, <1>1, <1>2 DEF KeysHold, EmployeesPlaced, Table, EmployeeRow, Exists
  <1>5. TeamNamesUnique(teams')
    <2> SUFFICES ASSUME NEW i \in Id, NEW j \in Id, i # j, Exists(teams'[i]),
                        Exists(teams'[j]), teams'[i].department = teams'[j].department
                 PROVE  teams'[i].name # teams'[j].name
      BY DEF TeamNamesUnique
    <2>1. CASE i # t /\ j # t
      BY <1>0, <1>2, <2>1 DEF KeysHold, TeamNamesUnique
    <2>2. CASE i = t \/ j = t
      BY <1>2, <2>2
    <2> QED
      BY <2>1, <2>2
  <1>6. KeysHold(departments', teams', employees')
    BY <1>0, <1>3, <1>4, <1>5 DEF KeysHold
  <1>7. RowsKept(departments) /\ RowsKept(teams) /\ RowsKept(employees)
    BY <1>1, <1>2 DEF RowsKept, Exists
  <1>8. \A i \in Id : Exists(teams[i]) /\ Exists(teams'[i]) =>
            teams'[i].department = teams[i].department \/ Home(i)' = Home(i)
    BY <1>2 DEF Home
  <1>9. OrgKept
    BY <1>0, <1>1, <1>3, <1>4, <1>7, <1>8, HomesKept
  <1> QED
    BY <1>0, <1>1, <1>6, <1>9, OrgWritten DEF OrgTables, Answers

\* An employee is inserted, changed or moved.
LEMMA EmployeePut ==
    ASSUME RecordsInv, NEW c \in Caller, NEW e \in Id, NEW r \in EmployeeRow,
           Goes(c, Outcome("employee", e, "ok")), employees' = [employees EXCEPT ![e] = r],
           UNCHANGED <<departments, teams, engaged, taskVars, documents>>,
           Exists(teams[r.team]), employees[e] # Gone,
           Exists(employees[e]) => /\ Home(r.team) = Home(employees[e].team)
                                   /\ r.created = employees[e].created,
           \A x \in Id \ {e} : Exists(employees[x]) /\ employees[x].team = r.team
                                  => employees[x].name # r.name
    PROVE  RecordsInv' /\ Kept
  <1>0. /\ departments \in Table(DepartmentRow) /\ teams \in Table(TeamRow)
        /\ employees \in Table(EmployeeRow)
        /\ KeysHold(departments, teams, employees)
        /\ \A x \in engaged : Exists(employees[x]) /\ x \in Id
    BY OrgFacts
  <1>1. employees' \in Table(EmployeeRow) /\ Exists(r)
    BY <1>0, RowsExist DEF Table
  <1>2. \A i \in Id : employees'[i] = IF i = e THEN r ELSE employees[i]
    BY <1>0 DEF Table
  <1>3. EmployeesPlaced(employees', teams')
    BY <1>0, <1>2 DEF KeysHold, EmployeesPlaced
  <1>4. EmployeeNamesUnique(employees')
    <2> SUFFICES ASSUME NEW i \in Id, NEW j \in Id, i # j, Exists(employees'[i]),
                        Exists(employees'[j]), employees'[i].team = employees'[j].team
                 PROVE  employees'[i].name # employees'[j].name
      BY DEF EmployeeNamesUnique
    <2>1. CASE i # e /\ j # e
      BY <1>0, <1>2, <2>1 DEF KeysHold, EmployeeNamesUnique
    <2>2. CASE i = e \/ j = e
      BY <1>2, <2>2
    <2> QED
      BY <2>1, <2>2
  <1>5. KeysHold(departments', teams', employees')
    BY <1>0, <1>3, <1>4 DEF KeysHold
  <1>6. RowsKept(departments) /\ RowsKept(teams) /\ RowsKept(employees)
    BY <1>1, <1>2 DEF RowsKept, Exists
  <1>7. \A i \in Id : Exists(employees[i]) /\ Exists(employees'[i]) =>
            \/ employees'[i].team = employees[i].team
            \/ departments'[teams'[employees'[i].team].department].workspace
                  = departments[teams[employees[i].team].department].workspace
    BY <1>2 DEF Home
  <1>8. \A x \in engaged : Exists(employees'[x])
    BY <1>0, <1>1, <1>2
  <1>9. OrgKept
    BY <1>0, <1>1, <1>3, <1>5, <1>6, <1>7, HomesKept DEF KeysHold
  <1> QED
    BY <1>0, <1>1, <1>5, <1>8, <1>9, OrgWritten DEF OrgTables, Answers

\* A row is deleted with everything below it.
LEMMA OrgRemoved ==
    ASSUME RecordsInv, NEW c \in Caller, NEW tab \in OrgTables, NEW x \in Id,
           Arrives(c, Outcome(tab, x, "ok")) \/ Goes(c, Outcome(tab, x, "ok")),
           NEW D \in SUBSET Id, NEW T \in SUBSET Id, NEW E \in SUBSET Id,
           departments' = Without(departments, D), teams' = Without(teams, T),
           employees' = Without(employees, E), UNCHANGED <<engaged, taskVars, documents>>,
           TeamsUnder(D) \subseteq T, EmployeesUnder(T) \subseteq E, E \cap engaged = {}
    PROVE  RecordsInv' /\ Kept
  <1>0. /\ departments \in Table(DepartmentRow) /\ teams \in Table(TeamRow)
        /\ employees \in Table(EmployeeRow) /\ engaged \subseteq Id
        /\ KeysHold(departments, teams, employees)
        /\ \A e \in engaged : Exists(employees[e])
    BY OrgFacts
  <1>1. /\ departments' \in Table(DepartmentRow) /\ teams' \in Table(TeamRow)
        /\ employees' \in Table(EmployeeRow)
    BY <1>0 DEF Table, Without
  <1>2. /\ \A i \in Id : departments'[i] = IF i \in D THEN Gone ELSE departments[i]
        /\ \A i \in Id : teams'[i] = IF i \in T THEN Gone ELSE teams[i]
        /\ \A i \in Id : employees'[i] = IF i \in E THEN Gone ELSE employees[i]
        /\ ~Exists(Gone) /\ Null # Gone
    BY RowsExist DEF Without
  <1>3. TeamsPlaced(teams', departments')
    <2> SUFFICES ASSUME NEW t \in Id, Exists(teams'[t])
                 PROVE  Exists(departments'[teams'[t].department])
      BY DEF TeamsPlaced
    <2>1. t \notin T /\ teams'[t] = teams[t] /\ Exists(teams[t])
      BY <1>2
    <2>2. teams[t].department \in Id /\ Exists(departments[teams[t].department])
      BY <1>0, <2>1 DEF KeysHold, TeamsPlaced, Table, TeamRow, Exists
    <2>3. teams[t].department \notin D
      BY <2>1 DEF TeamsUnder
    <2> QED
      BY <1>2, <2>1, <2>2, <2>3
  <1>4. EmployeesPlaced(employees', teams')
    <2> SUFFICES ASSUME NEW e \in Id, Exists(employees'[e])
                 PROVE  Exists(teams'[employees'[e].team])
      BY DEF EmployeesPlaced
    <2>1. e \notin E /\ employees'[e] = employees[e] /\ Exists(employees[e])
      BY <1>2
    <2>2. employees[e].team \in Id /\ Exists(teams[employees[e].team])
      BY <1>0, <2>1 DEF KeysHold, EmployeesPlaced, Table, EmployeeRow, Exists
    <2>3. employees[e].team \notin T
      BY <2>1 DEF EmployeesUnder
    <2> QED
      BY <1>2, <2>1, <2>2, <2>3
  <1>5. DepartmentNamesUnique(departments')
    BY <1>0, <1>2 DEF KeysHold, DepartmentNamesUnique
  <1>6. TeamNamesUnique(teams')
    BY <1>0, <1>2 DEF KeysHold, TeamNamesUnique
  <1>7. EmployeeNamesUnique(employees')
    BY <1>0, <1>2 DEF KeysHold, EmployeeNamesUnique
  <1>8. KeysHold(departments', teams', employees')
    BY <1>3, <1>4, <1>5, <1>6, <1>7 DEF KeysHold
  <1>9. \A e \in engaged : Exists(employees'[e])
    BY <1>0, <1>2
  <1>10. RowsKept(departments) /\ RowsKept(teams) /\ RowsKept(employees)
    BY <1>2 DEF RowsKept
  <1>11. /\ \A i \in Id : Exists(departments[i]) /\ Exists(departments'[i]) =>
              departments'[i].workspace = departments[i].workspace
         /\ \A i \in Id : Exists(teams[i]) /\ Exists(teams'[i]) =>
              teams'[i].department = teams[i].department
         /\ \A i \in Id : Exists(employees[i]) /\ Exists(employees'[i]) =>
              employees'[i].team = employees[i].team
    BY <1>2
  <1>12. OrgKept
    BY <1>1, <1>3, <1>4, <1>10, <1>11, HomesKept
  <1> QED
    BY <1>1, <1>8, <1>9, <1>12, OrgWritten DEF Answers

\* A write that a check or a constraint refuses.
LEMMA RefusedInv ==
    ASSUME RecordsInv, NEW c \in Caller, NEW a \in Answers,
           Goes(c, Outcome(call[c].table, call[c].id, a)),
           UNCHANGED <<orgVars, taskVars, documents>>
    PROVE  RecordsInv' /\ Kept
  <1>1. call[c].table \in Tables \cup {Null} /\ call[c].id \in Id \cup {Null}
    BY DEF RecordsInv, Call
  <1> QED
    BY <1>1, AnsweredFacts, QuietInv

\* DepartmentStore.Create.
LEMMA CreateDepartmentInv ==
    ASSUME RecordsInv, NEW c \in Caller, CreateDepartment(c),
           UNCHANGED <<taskVars, documents>>
    PROVE  RecordsInv' /\ Kept
  <1>1. PICK req \in DepartmentRequest, now \in Instants :
            InsertDepartment(c, NewDepartment(Ws(c), req, now))
    BY DEF CreateDepartment
  <1>2. UNCHANGED <<teams, employees, engaged>>
    BY DEF CreateDepartment
  <1> DEFINE r == NewDepartment(Ws(c), req, now)
  <1>3. r \in DepartmentRow
    BY RequestsAssumption DEF NewDepartment, DepartmentRow, DepartmentRequest, Ws
  <1> HIDE DEF r
  <1>4. InsertDepartment(c, r)
    BY <1>1 DEF r
  <1>5. CASE DepartmentNameFree(r.workspace, r.name, Null)
    <2>1. PICK d \in Id : /\ departments[d] = Null
                          /\ Arrives(c, Outcome("department", d, "ok"))
                          /\ departments' = [departments EXCEPT ![d] = r]
      BY <1>4, <1>5 DEF InsertDepartment
    <2>2. \A x \in Id \ {d} : Exists(departments[x]) /\ departments[x].workspace = r.workspace
                                  => departments[x].name # r.name
      BY <1>5, RowsExist DEF DepartmentNameFree
    <2>3. departments[d] # Gone /\ ~Exists(departments[d])
      BY <2>1, RowsExist
    <2> QED
      BY <1>2, <1>3, <2>1, <2>2, <2>3, DepartmentPut
  <1>6. CASE ~DepartmentNameFree(r.workspace, r.name, Null)
    <2>1. Arrives(c, Outcome("department", Null, "taken")) /\ UNCHANGED departments
      BY <1>4, <1>6 DEF InsertDepartment
    <2> QED
      BY <1>2, <2>1, AnsweredFacts, QuietInv DEF orgVars, Tables, OrgTables, Answers
  <1> QED
    BY <1>5, <1>6

\* Service.Update of a department until it writes.
LEMMA UpdateDepartmentInv ==
    ASSUME RecordsInv, NEW c \in Caller, UpdateDepartment(c),
           UNCHANGED <<taskVars, documents>>
    PROVE  RecordsInv' /\ Kept
  <1>1. PICK d \in Id, patch \in DepartmentPatch :
            /\ Arrives(c, IF DepartmentVisible(Ws(c), d)
                  THEN Holding("department", d, Overlay(departments[d], patch), "write")
                  ELSE Outcome("department", d, "notfound"))
            /\ UNCHANGED orgVars
    BY DEF UpdateDepartment
  <1>2. CASE ~DepartmentVisible(Ws(c), d)
    BY <1>1, <1>2, AnsweredFacts, QuietInv DEF Tables, OrgTables, Answers
  <1>3. CASE DepartmentVisible(Ws(c), d)
    <2> DEFINE r == Overlay(departments[d], patch)
    <2>1. departments[d] \in DepartmentRow
      BY <1>3, OrgFacts DEF DepartmentVisible, Table, Exists
    <2>2. r \in DepartmentRow
      BY <2>1 DEF Overlay, DepartmentRow, DepartmentPatch
    <2>3. Arrives(c, Holding("department", d, r, "write"))
      BY <1>1, <1>3
    <2> HIDE DEF r
    <2>4. r \in Copy /\ r # Null /\ "department" \in OrgTables
      BY <2>2, RowsExist DEF Copy, OrgTables, Exists
    <2> QED
      BY <1>1, <2>2, <2>3, <2>4, OrgHeld
  <1> QED
    BY <1>2, <1>3

\* DepartmentStore.Update.
LEMMA WriteDepartmentInv ==
    ASSUME RecordsInv, NEW c \in Caller, WriteDepartment(c),
           UNCHANGED <<taskVars, documents>>
    PROVE  RecordsInv' /\ Kept
  <1> DEFINE d == call[c].id
             copy == call[c].copy
             r == [departments[d] EXCEPT !.name = copy.name]
  <1>1. /\ call[c].pc = "write" /\ call[c].table = "department"
        /\ UNCHANGED <<teams, employees, engaged>>
    BY DEF WriteDepartment
  <1>2. d \in Id /\ copy \in DepartmentRow
    BY <1>1 DEF RecordsInv, CallSound, OrgSound
  <1>3. CASE ~DepartmentNameFree(Ws(c), copy.name, d)
    <2>1. Refused(c, "taken", DepartmentVisible(Ws(c), d)) /\ UNCHANGED departments
      BY <1>3 DEF WriteDepartment
    <2>2. PICK a \in Answers : Goes(c, Outcome(call[c].table, call[c].id, a))
      BY <2>1 DEF Refused, Answers
    <2> QED
      BY <1>1, <2>1, <2>2, RefusedInv DEF orgVars
  <1>4. CASE DepartmentNameFree(Ws(c), copy.name, d) /\ ~DepartmentVisible(Ws(c), d)
    <2>1. Goes(c, Outcome("department", d, "notfound")) /\ UNCHANGED departments
      BY <1>4 DEF WriteDepartment
    <2> HIDE DEF d
    <2> QED
      BY <1>1, <1>2, <2>1, AnsweredFacts, QuietInv DEF orgVars, Tables, OrgTables, Answers
  <1>5. CASE DepartmentNameFree(Ws(c), copy.name, d) /\ DepartmentVisible(Ws(c), d)
    <2>1. /\ Goes(c, Outcome("department", d, "ok"))
          /\ departments' = [departments EXCEPT ![d] = r]
      BY <1>5 DEF WriteDepartment
    <2>2. departments[d] \in DepartmentRow /\ departments[d].workspace = Ws(c)
      BY <1>2, <1>5, OrgFacts DEF DepartmentVisible, Table, Exists
    <2>3. /\ r \in DepartmentRow /\ r.workspace = Ws(c) /\ r.name = copy.name
          /\ r.created = departments[d].created
      BY <1>2, <2>2 DEF DepartmentRow
    <2>4. \A x \in Id \ {d} : Exists(departments[x]) /\ departments[x].workspace = r.workspace
                                  => departments[x].name # r.name
      BY <1>5, <2>3 DEF DepartmentNameFree
    <2>5. departments[d] # Gone
      BY <1>5, RowsExist DEF DepartmentVisible
    <2> HIDE DEF r, d
    <2> QED
      BY <1>1, <1>2, <2>1, <2>2, <2>3, <2>4, <2>5, DepartmentPut
  <1> QED
    BY <1>3, <1>4, <1>5

\* Deleting no row changes nothing.
LEMMA WithoutNone ==
    ASSUME NEW R, NEW table \in Table(R)
    PROVE  Without(table, {}) = table
  BY DEF Without, Table

\* DepartmentStore.Delete.
LEMMA DeleteDepartmentInv ==
    ASSUME RecordsInv, NEW c \in Caller, DeleteDepartment(c),
           UNCHANGED <<taskVars, documents>>
    PROVE  RecordsInv' /\ Kept
  <1>1. PICK d \in Id : RemoveDepartment(c, d)
    BY DEF DeleteDepartment
  <1> DEFINE ts == TeamsUnder({d})
             es == EmployeesUnder(ts)
  <1>2. CASE ~DepartmentVisible(Ws(c), d)
    <2>1. Arrives(c, Outcome("department", d, "notfound")) /\ UNCHANGED orgVars
      BY <1>1, <1>2 DEF RemoveDepartment
    <2> QED
      BY <2>1, AnsweredFacts, QuietInv DEF Tables, OrgTables, Answers
  <1>3. CASE DepartmentVisible(Ws(c), d) /\ es \cap engaged # {}
    <2>1. Arrives(c, Outcome("department", d, "error")) /\ UNCHANGED orgVars
      BY <1>1, <1>3 DEF RemoveDepartment
    <2> QED
      BY <2>1, AnsweredFacts, QuietInv DEF Tables, OrgTables, Answers
  <1>4. CASE DepartmentVisible(Ws(c), d) /\ es \cap engaged = {}
    <2>1. /\ Arrives(c, Outcome("department", d, "ok"))
          /\ departments' = Without(departments, {d}) /\ teams' = Without(teams, ts)
          /\ employees' = Without(employees, es) /\ UNCHANGED engaged
      BY <1>1, <1>4 DEF RemoveDepartment
    <2>2. {d} \in SUBSET Id /\ ts \in SUBSET Id /\ es \in SUBSET Id
      BY DEF TeamsUnder, EmployeesUnder
    <2>3. TeamsUnder({d}) \subseteq ts /\ EmployeesUnder(ts) \subseteq es
      OBVIOUS
    <2> HIDE DEF ts, es
    <2> QED
      BY <1>4, <2>1, <2>2, <2>3, OrgRemoved DEF OrgTables
  <1> QED
    BY <1>2, <1>3, <1>4

-----------------------------------------------------------------------------
\* A visible team is a row whose home is the workspace.
LEMMA TeamSeen ==
    ASSUME RecordsInv, NEW ws, NEW t \in Id
    PROVE  TeamVisible(ws, t) <=> Exists(teams[t]) /\ Home(t) = ws
  <1>1. Exists(teams[t]) => Exists(departments[teams[t].department])
    BY OrgFacts DEF KeysHold, TeamsPlaced
  <1> QED
    BY <1>1 DEF TeamVisible, DepartmentVisible, Home

\* A visible employee.
LEMMA EmployeeSeen ==
    ASSUME RecordsInv, NEW ws, NEW e \in Id
    PROVE  EmployeeVisible(ws, e) <=> Exists(employees[e]) /\ Home(employees[e].team) = ws
  <1>1. Exists(employees[e]) =>
            employees[e].team \in Id /\ Exists(teams[employees[e].team])
    BY OrgFacts DEF KeysHold, EmployeesPlaced, Table, EmployeeRow, Exists
  <1> QED
    BY <1>1, TeamSeen DEF EmployeeVisible

\* TeamService.Create and Delete until they write.
LEMMA TeamAsked ==
    ASSUME RecordsInv, NEW c \in Caller, CreateTeam(c) \/ DeleteTeam(c),
           UNCHANGED <<taskVars, documents>>
    PROVE  RecordsInv' /\ Kept
  <1>1. CASE CreateTeam(c)
    <2>1. PICK req \in TeamRequest, now \in Instants :
            /\ Arrives(c, IF DepartmentResolved(Ws(c), req.department)
                          THEN Holding("team", Null, NewTeam(req, now), "insert")
                          ELSE Outcome("team", Null, "invalid"))
            /\ UNCHANGED orgVars
      BY <1>1 DEF CreateTeam
    <2> DEFINE r == NewTeam(req, now)
    <2>2. r \in TeamRow
      BY DEF NewTeam, TeamRow, TeamRequest
    <2> HIDE DEF r
    <2>3. r \in Copy /\ r # Null /\ "team" \in OrgTables
      BY <2>2, RowsExist DEF Copy, OrgTables, Exists
    <2>4. \/ Arrives(c, Holding("team", Null, r, "insert"))
          \/ Arrives(c, Outcome("team", Null, "invalid"))
      BY <2>1 DEF r
    <2>5. CASE Arrives(c, Holding("team", Null, r, "insert"))
      BY <2>1, <2>2, <2>3, <2>5, OrgHeld
    <2>6. CASE Arrives(c, Outcome("team", Null, "invalid"))
      BY <2>1, <2>6, AnsweredFacts, QuietInv DEF Tables, OrgTables, Answers
    <2> QED
      BY <2>4, <2>5, <2>6
  <1>2. CASE DeleteTeam(c)
    <2>1. PICK t \in Id :
            /\ Arrives(c, IF TeamVisible(Ws(c), t) THEN Holding("team", t, Null, "delete")
                          ELSE Outcome("team", t, "notfound"))
            /\ UNCHANGED orgVars
      BY <1>2 DEF DeleteTeam
    <2>2. CASE TeamVisible(Ws(c), t)
      <3>1. teams[t] # Null /\ Home(t) = Ws(c) /\ Null \in Copy /\ "team" \in OrgTables
        BY <2>2, TeamSeen, RowsExist DEF Copy, OrgTables
      <3>2. Arrives(c, Holding("team", t, Null, "delete"))
        BY <2>1, <2>2
      <3> QED
        BY <2>1, <3>1, <3>2, OrgHeld
    <2>3. CASE ~TeamVisible(Ws(c), t)
      BY <2>1, <2>3, AnsweredFacts, QuietInv DEF Tables, OrgTables, Answers
    <2> QED
      BY <2>2, <2>3
  <1> QED
    BY <1>1, <1>2

\* TeamService.Update until it writes.
LEMMA UpdateTeamInv ==
    ASSUME RecordsInv, NEW c \in Caller, UpdateTeam(c), UNCHANGED <<taskVars, documents>>
    PROVE  RecordsInv' /\ Kept
  <1>1. PICK t \in Id, patch \in TeamPatch :
          /\ \/ Arrives(c, Outcome("team", t, "notfound"))
             \/ Arrives(c, Outcome("team", t, "invalid"))
             \/ /\ TeamVisible(Ws(c), t)
                /\ Arrives(c, Holding("team", t, Overlay(teams[t], patch), "write"))
          /\ UNCHANGED orgVars
    BY DEF UpdateTeam
  <1>2. CASE \/ Arrives(c, Outcome("team", t, "notfound"))
             \/ Arrives(c, Outcome("team", t, "invalid"))
    BY <1>1, <1>2, AnsweredFacts, QuietInv DEF Tables, OrgTables, Answers
  <1>3. CASE /\ TeamVisible(Ws(c), t)
             /\ Arrives(c, Holding("team", t, Overlay(teams[t], patch), "write"))
    <2> DEFINE r == Overlay(teams[t], patch)
    <2>1. teams[t] \in TeamRow
      BY <1>3, OrgFacts DEF TeamVisible, Table, Exists
    <2>2. r \in TeamRow
      BY <2>1 DEF Overlay, TeamRow, TeamPatch
    <2>3. Arrives(c, Holding("team", t, r, "write"))
      BY <1>3
    <2> HIDE DEF r
    <2>4. r \in Copy /\ r # Null /\ "team" \in OrgTables
      BY <2>2, RowsExist DEF Copy, OrgTables, Exists
    <2> QED
      BY <1>1, <2>2, <2>3, <2>4, OrgHeld
  <1> QED
    BY <1>1, <1>2, <1>3

\* TeamStore.Create.
LEMMA InsertTeamInv ==
    ASSUME RecordsInv, NEW c \in Caller, InsertTeam(c), UNCHANGED <<taskVars, documents>>
    PROVE  RecordsInv' /\ Kept
  <1> DEFINE r == call[c].copy
  <1>1. /\ call[c].pc = "insert" /\ call[c].table = "team"
        /\ UNCHANGED <<departments, employees, engaged>>
    BY DEF InsertTeam
  <1>2. r \in TeamRow
    BY <1>1 DEF RecordsInv, CallSound, OrgSound
  <1>3. CASE DepartmentResolved(Ws(c), r.department) /\ TeamNameFree(r.department, r.name, Null)
    <2>1. PICK t \in Id : /\ teams[t] = Null /\ Goes(c, Outcome("team", t, "ok"))
                          /\ teams' = [teams EXCEPT ![t] = r]
      BY <1>3 DEF InsertTeam
    <2>2. Exists(departments[r.department])
      BY <1>3 DEF DepartmentResolved, DepartmentVisible
    <2>3. \A x \in Id \ {t} : Exists(teams[x]) /\ teams[x].department = r.department
                                  => teams[x].name # r.name
      BY <1>3, RowsExist DEF TeamNameFree
    <2>4. teams[t] # Gone /\ ~Exists(teams[t])
      BY <2>1, RowsExist
    <2> HIDE DEF r
    <2> QED
      BY <1>1, <1>2, <2>1, <2>2, <2>3, <2>4, TeamPut
  <1>4. CASE ~(DepartmentResolved(Ws(c), r.department)
                  /\ TeamNameFree(r.department, r.name, Null))
    <2>1. PICK a \in Answers : Goes(c, Outcome(call[c].table, call[c].id, a))
      BY <1>4 DEF InsertTeam, Refused, Answers
    <2>2. UNCHANGED teams
      BY <1>4 DEF InsertTeam
    <2> QED
      BY <1>1, <2>1, <2>2, RefusedInv DEF orgVars
  <1> QED
    BY <1>3, <1>4

\* TeamStore.Update.
LEMMA WriteTeamInv ==
    ASSUME RecordsInv, NEW c \in Caller, WriteTeam(c), UNCHANGED <<taskVars, documents>>
    PROVE  RecordsInv' /\ Kept
  <1> DEFINE t == call[c].id
             copy == call[c].copy
             r == [teams[t] EXCEPT !.department = copy.department, !.name = copy.name]
             fine == /\ DepartmentResolved(Ws(c), copy.department)
                     /\ TeamNameFree(copy.department, copy.name, t)
                     /\ TeamVisible(Ws(c), t)
  <1>1. /\ call[c].pc = "write" /\ call[c].table = "team"
        /\ UNCHANGED <<departments, employees, engaged>>
    BY DEF WriteTeam
  <1>2. t \in Id /\ copy \in TeamRow
    BY <1>1 DEF RecordsInv, CallSound, OrgSound
  <1>3. CASE ~fine
    <2>1. PICK a \in Answers : Goes(c, Outcome(call[c].table, call[c].id, a))
      BY <1>1, <1>3 DEF WriteTeam, Refused, Answers
    <2>2. UNCHANGED teams
      BY <1>3 DEF WriteTeam
    <2> QED
      BY <1>1, <2>1, <2>2, RefusedInv DEF orgVars
  <1>4. CASE fine
    <2>1. Goes(c, Outcome("team", t, "ok")) /\ teams' = [teams EXCEPT ![t] = r]
      BY <1>4 DEF WriteTeam
    <2>2. teams[t] \in TeamRow /\ Exists(teams[t]) /\ teams[t] # Gone
      BY <1>2, <1>4, OrgFacts, RowsExist DEF TeamVisible, Table, Exists
    <2>3. /\ r \in TeamRow /\ r.department = copy.department /\ r.name = copy.name
          /\ r.created = teams[t].created
      BY <1>2, <2>2 DEF TeamRow
    <2>4. Home(t) = Ws(c)
      BY <1>2, <1>4, TeamSeen
    <2>5. Exists(departments[r.department]) /\ departments[r.department].workspace = Home(t)
      BY <1>4, <2>3, <2>4 DEF DepartmentResolved, DepartmentVisible
    <2>6. \A x \in Id \ {t} : Exists(teams[x]) /\ teams[x].department = r.department
                                  => teams[x].name # r.name
      BY <1>4, <2>3 DEF TeamNameFree
    <2> HIDE DEF r, t, fine
    <2> QED
      BY <1>1, <1>2, <2>1, <2>2, <2>3, <2>5, <2>6, TeamPut
  <1> QED
    BY <1>3, <1>4

\* TeamStore.Delete.  A team that is not visible any more is gone, and nobody
\* is left in it.
LEMMA RemoveTeamInv ==
    ASSUME RecordsInv, NEW c \in Caller, RemoveTeam(c), UNCHANGED <<taskVars, documents>>
    PROVE  RecordsInv' /\ Kept
  <1> DEFINE t == call[c].id
             es == EmployeesUnder({t})
             ts == {t} \cap {x \in Id : TeamVisible(Ws(c), x)}
  <1>1. /\ call[c].pc = "delete" /\ call[c].table = "team"
        /\ UNCHANGED <<departments, engaged>>
    BY DEF RemoveTeam
  <1>2. t \in Id /\ (Exists(teams[t]) => Home(t) = Ws(c))
    BY <1>1 DEF RecordsInv, CallSound, OrgSound
  <1>3. CASE TeamVisible(Ws(c), t) /\ es \cap engaged # {}
    <2>1. Goes(c, Outcome("team", t, "error")) /\ UNCHANGED <<teams, employees>>
      BY <1>3 DEF RemoveTeam
    <2> HIDE DEF t
    <2> QED
      BY <1>1, <1>2, <2>1, AnsweredFacts, QuietInv DEF orgVars, Tables, OrgTables, Answers
  <1>4. CASE ~(TeamVisible(Ws(c), t) /\ es \cap engaged # {})
    <2>1. /\ Goes(c, Outcome("team", t, "ok")) /\ teams' = Without(teams, ts)
          /\ employees' = Without(employees, es)
      BY <1>4 DEF RemoveTeam
    <2>2. es \cap engaged = {}
      <3>1. CASE TeamVisible(Ws(c), t)
        BY <1>4, <3>1
      <3>2. CASE ~TeamVisible(Ws(c), t)
        <4>1. ~Exists(teams[t])
          BY <1>2, <3>2, TeamSeen
        <4> QED
          BY <4>1, OrgFacts DEF EmployeesUnder, KeysHold, EmployeesPlaced
      <3> QED
        BY <3>1, <3>2
    <2>3. departments' = Without(departments, {})
      BY <1>1, OrgFacts, WithoutNone
    <2>4. ts \in SUBSET Id /\ es \in SUBSET Id /\ {} \in SUBSET Id
      BY DEF EmployeesUnder
    <2>5. TeamsUnder({}) \subseteq ts /\ EmployeesUnder(ts) \subseteq es
      BY DEF TeamsUnder, EmployeesUnder
    <2> HIDE DEF t, ts, es
    <2> QED
      BY <1>1, <1>2, <2>1, <2>2, <2>3, <2>4, <2>5, OrgRemoved DEF OrgTables
  <1> QED
    BY <1>3, <1>4

\* AIEmployeeService.Create and Delete until they write.
LEMMA EmployeeAsked ==
    ASSUME RecordsInv, NEW c \in Caller, CreateEmployee(c) \/ DeleteEmployee(c),
           UNCHANGED <<taskVars, documents>>
    PROVE  RecordsInv' /\ Kept
  <1>1. CASE CreateEmployee(c)
    <2>1. PICK req \in EmployeeRequest, now \in Instants :
            /\ Arrives(c, IF TeamResolved(Ws(c), req.team)
                          THEN Holding("employee", Null, NewEmployee(req, now), "insert")
                          ELSE Outcome("employee", Null, "invalid"))
            /\ UNCHANGED orgVars
      BY <1>1 DEF CreateEmployee
    <2> DEFINE r == NewEmployee(req, now)
    <2>2. r \in EmployeeRow
      BY DEF NewEmployee, EmployeeRow, EmployeeRequest
    <2> HIDE DEF r
    <2>3. r \in Copy /\ r # Null /\ "employee" \in OrgTables
      BY <2>2, RowsExist DEF Copy, OrgTables, Exists
    <2>4. \/ Arrives(c, Holding("employee", Null, r, "insert"))
          \/ Arrives(c, Outcome("employee", Null, "invalid"))
      BY <2>1 DEF r
    <2>5. CASE Arrives(c, Holding("employee", Null, r, "insert"))
      BY <2>1, <2>2, <2>3, <2>5, OrgHeld
    <2>6. CASE Arrives(c, Outcome("employee", Null, "invalid"))
      BY <2>1, <2>6, AnsweredFacts, QuietInv DEF Tables, OrgTables, Answers
    <2> QED
      BY <2>4, <2>5, <2>6
  <1>2. CASE DeleteEmployee(c)
    <2>1. PICK e \in Id :
            /\ \/ Arrives(c, Holding("employee", e, Null, "delete"))
               \/ Arrives(c, Outcome("employee", e, "notfound"))
            /\ UNCHANGED orgVars
      BY <1>2 DEF DeleteEmployee
    <2>2. CASE Arrives(c, Holding("employee", e, Null, "delete"))
      BY <2>1, <2>2, OrgHeld DEF Copy, OrgTables
    <2>3. CASE Arrives(c, Outcome("employee", e, "notfound"))
      BY <2>1, <2>3, AnsweredFacts, QuietInv DEF Tables, OrgTables, Answers
    <2> QED
      BY <2>1, <2>2, <2>3
  <1> QED
    BY <1>1, <1>2

\* AIEmployeeService.Update until it writes.
LEMMA UpdateEmployeeInv ==
    ASSUME RecordsInv, NEW c \in Caller, UpdateEmployee(c), UNCHANGED <<taskVars, documents>>
    PROVE  RecordsInv' /\ Kept
  <1>1. PICK e \in Id, patch \in EmployeePatch :
          /\ \/ Arrives(c, Outcome("employee", e, "notfound"))
             \/ Arrives(c, Outcome("employee", e, "invalid"))
             \/ /\ EmployeeVisible(Ws(c), e)
                /\ Arrives(c, Holding("employee", e, Overlay(employees[e], patch), "write"))
          /\ UNCHANGED orgVars
    BY DEF UpdateEmployee
  <1>2. CASE \/ Arrives(c, Outcome("employee", e, "notfound"))
             \/ Arrives(c, Outcome("employee", e, "invalid"))
    BY <1>1, <1>2, AnsweredFacts, QuietInv DEF Tables, OrgTables, Answers
  <1>3. CASE /\ EmployeeVisible(Ws(c), e)
             /\ Arrives(c, Holding("employee", e, Overlay(employees[e], patch), "write"))
    <2> DEFINE r == Overlay(employees[e], patch)
    <2>1. employees[e] \in EmployeeRow /\ employees[e] # Null
      BY <1>3, OrgFacts DEF EmployeeVisible, Table, Exists
    <2>2. r \in EmployeeRow /\ r.created = employees[e].created
      BY <2>1 DEF Overlay, EmployeeRow, EmployeePatch
    <2>3. Arrives(c, Holding("employee", e, r, "write"))
      BY <1>3
    <2> HIDE DEF r
    <2>4. /\ r \in Copy /\ r # Null /\ "employee" \in OrgTables
          /\ Copied(employees, e, r)
      BY <2>1, <2>2, RowsExist DEF Copy, OrgTables, Exists, Copied
    <2> QED
      BY <1>1, <2>2, <2>3, <2>4, OrgHeld
  <1> QED
    BY <1>1, <1>2, <1>3

\* AIEmployeeStore.Create.
LEMMA InsertEmployeeInv ==
    ASSUME RecordsInv, NEW c \in Caller, InsertEmployee(c), UNCHANGED <<taskVars, documents>>
    PROVE  RecordsInv' /\ Kept
  <1> DEFINE r == call[c].copy
  <1>1. /\ call[c].pc = "insert" /\ call[c].table = "employee"
        /\ UNCHANGED <<departments, teams, engaged>>
    BY DEF InsertEmployee
  <1>2. r \in EmployeeRow
    BY <1>1 DEF RecordsInv, CallSound, OrgSound
  <1>3. CASE TeamResolved(Ws(c), r.team) /\ EmployeeNameFree(r.team, r.name, Null)
    <2>1. PICK e \in Id : /\ employees[e] = Null /\ Goes(c, Outcome("employee", e, "ok"))
                          /\ employees' = [employees EXCEPT ![e] = r]
      BY <1>3 DEF InsertEmployee
    <2>2. Exists(teams[r.team])
      BY <1>3 DEF TeamResolved, TeamVisible
    <2>3. \A x \in Id \ {e} : Exists(employees[x]) /\ employees[x].team = r.team
                                  => employees[x].name # r.name
      BY <1>3, RowsExist DEF EmployeeNameFree
    <2>4. employees[e] # Gone /\ ~Exists(employees[e])
      BY <2>1, RowsExist
    <2> HIDE DEF r
    <2> QED
      BY <1>1, <1>2, <2>1, <2>2, <2>3, <2>4, EmployeePut
  <1>4. CASE ~(TeamResolved(Ws(c), r.team) /\ EmployeeNameFree(r.team, r.name, Null))
    <2>1. PICK a \in Answers : Goes(c, Outcome(call[c].table, call[c].id, a))
      BY <1>4 DEF InsertEmployee, Refused, Answers
    <2>2. UNCHANGED employees
      BY <1>4 DEF InsertEmployee
    <2> QED
      BY <1>1, <2>1, <2>2, RefusedInv DEF orgVars
  <1> QED
    BY <1>3, <1>4

\* AIEmployeeStore.Update: the whole copy.
LEMMA WriteEmployeeInv ==
    ASSUME RecordsInv, NEW c \in Caller, WriteEmployee(c), UNCHANGED <<taskVars, documents>>
    PROVE  RecordsInv' /\ Kept
  <1> DEFINE e == call[c].id
             r == call[c].copy
             fine == /\ TeamResolved(Ws(c), r.team) /\ EmployeeNameFree(r.team, r.name, e)
                     /\ EmployeeVisible(Ws(c), e)
  <1>1. /\ call[c].pc = "write" /\ call[c].table = "employee"
        /\ UNCHANGED <<departments, teams, engaged>>
    BY DEF WriteEmployee
  <1>2. e \in Id /\ r \in EmployeeRow /\ Copied(employees, e, r)
    BY <1>1 DEF RecordsInv, CallSound, OrgSound
  <1>3. CASE ~fine
    <2>1. PICK a \in Answers : Goes(c, Outcome(call[c].table, call[c].id, a))
      BY <1>1, <1>3 DEF WriteEmployee, Refused, Answers
    <2>2. UNCHANGED employees
      BY <1>3 DEF WriteEmployee
    <2> QED
      BY <1>1, <2>1, <2>2, RefusedInv DEF orgVars
  <1>4. CASE fine
    <2>1. Goes(c, Outcome("employee", e, "ok")) /\ employees' = [employees EXCEPT ![e] = r]
      BY <1>4 DEF WriteEmployee
    <2>2. r.team \in Id
      BY <1>2 DEF EmployeeRow
    <2>3. /\ Exists(employees[e]) /\ Home(employees[e].team) = Ws(c)
          /\ r.created = employees[e].created /\ employees[e] # Gone
      BY <1>2, <1>4, EmployeeSeen, RowsExist DEF Copied
    <2>4. Exists(teams[r.team]) /\ Home(r.team) = Ws(c)
      BY <1>4, <2>2, TeamSeen DEF TeamResolved
    <2>5. \A x \in Id \ {e} : Exists(employees[x]) /\ employees[x].team = r.team
                                  => employees[x].name # r.name
      BY <1>4 DEF EmployeeNameFree
    <2> HIDE DEF r, e, fine
    <2> QED
      BY <1>1, <1>2, <2>1, <2>3, <2>4, <2>5, EmployeePut
  <1> QED
    BY <1>3, <1>4

\* AIEmployeeStore.Delete.
LEMMA RemoveEmployeeInv ==
    ASSUME RecordsInv, NEW c \in Caller, RemoveEmployee(c), UNCHANGED <<taskVars, documents>>
    PROVE  RecordsInv' /\ Kept
  <1> DEFINE e == call[c].id
             es == {e} \cap {x \in Id : EmployeeVisible(Ws(c), x)}
  <1>1. /\ call[c].pc = "delete" /\ call[c].table = "employee"
        /\ UNCHANGED <<departments, teams, engaged>>
    BY DEF RemoveEmployee
  <1>2. e \in Id
    BY <1>1 DEF RecordsInv, CallSound, OrgSound
  <1>3. CASE EmployeeVisible(Ws(c), e) /\ e \in engaged
    <2>1. Goes(c, Outcome("employee", e, "error")) /\ UNCHANGED employees
      BY <1>3 DEF RemoveEmployee
    <2> HIDE DEF e
    <2> QED
      BY <1>1, <1>2, <2>1, AnsweredFacts, QuietInv DEF orgVars, Tables, OrgTables, Answers
  <1>4. CASE ~(EmployeeVisible(Ws(c), e) /\ e \in engaged)
    <2>1. Goes(c, Outcome("employee", e, "ok")) /\ employees' = Without(employees, es)
      BY <1>4 DEF RemoveEmployee
    <2>2. es \cap engaged = {}
      BY <1>4
    <2>3. departments' = Without(departments, {}) /\ teams' = Without(teams, {})
      BY <1>1, OrgFacts, WithoutNone
    <2>4. es \in SUBSET Id /\ {} \in SUBSET Id
      OBVIOUS
    <2>5. TeamsUnder({}) \subseteq {} /\ EmployeesUnder({}) \subseteq es
      BY DEF TeamsUnder, EmployeesUnder
    <2> HIDE DEF e, es
    <2> QED
      BY <1>1, <1>2, <2>1, <2>2, <2>3, <2>4, <2>5, OrgRemoved DEF OrgTables
  <1> QED
    BY <1>3, <1>4

\* An execution is admitted for an employee.
LEMMA EngageInv ==
    ASSUME RecordsInv, Engage, UNCHANGED <<taskVars, documents>>
    PROVE  RecordsInv' /\ Kept
  <1>1. PICK e \in Id : Exists(employees[e]) /\ engaged' = engaged \cup {e}
    BY DEF Engage
  <1>2. UNCHANGED <<call, departments, teams, employees>>
    BY DEF Engage, requestVars
  <1>3. TablesTyped' /\ OrganizationSound' /\ EmbeddingFits' /\ StatusEarned'
    BY <1>1, <1>2 DEF RecordsInv, TablesTyped, OrganizationSound, EmbeddingFits,
                      StatusEarned, taskVars
  <1>4. Kept
    BY <1>2 DEF Kept, OrgKept, TasksKept, DocsKept, RowsKept, Home, taskVars
  <1>5. \A c \in Caller : CallSound(c)'
    BY <1>2, <1>3, <1>4, OthersKept
  <1> QED
    BY <1>2, <1>3, <1>4, <1>5 DEF RecordsInv

-----------------------------------------------------------------------------
(* The invariant and what follows from it.                                 *)

\* A step of a listing.
WalkStep ==
    \/ ListDepartments \/ ListTeams \/ ListEmployees \/ ListTasks \/ ListDocuments
    \/ NextPage \/ CursorRefused

\* A listing only reads.
LEMMA WalkReads ==
    ASSUME WalkStep
    PROVE  UNCHANGED <<requestVars, orgVars, taskVars, documents>>
  BY DEF WalkStep, ListDepartments, ListTeams, ListEmployees, ListTasks, ListDocuments,
         FirstPage, NextPage, CursorRefused

\* At the start nobody asks and the tables are as they are assumed to be.
LEMMA RecordsInit == Init => RecordsInv
  <1> SUFFICES ASSUME Init PROVE RecordsInv
    OBVIOUS
  <1>1. TablesTyped /\ OrganizationSound /\ EmbeddingFits
    <2>1. held \in [Id -> SUBSET Status]
      BY TasksAssumption DEF Init, TaskInit, Table, Exists, TaskRow
    <2> QED
      BY <2>1, OrganizationAssumption, TasksAssumption, DocumentsAssumption
         DEF Init, OrgInit, TaskInit, DocInit, TablesTyped, OrganizationSound, EmbeddingFits
  <1>2. StatusEarned
    BY DEF Init, TaskInit, StatusEarned
  <1>3. NoCall \in Call /\ NoCall.pc = "idle" /\ NoCall.answer = "none"
        /\ NoCall.recorded = "none"
    BY DEF NoCall, Call, Pc, Copy, Answers
  <1>4. \A c \in Caller : call[c] = NoCall
    BY DEF Init, RequestsInit
  <1>5. \A c \in Caller : CallSound(c)
    BY <1>3, <1>4 DEF CallSound, AuditSound, OrgSound, TaskSound, DocSound
  <1>6. call \in [Caller -> Call]
    BY <1>3 DEF Init, RequestsInit
  <1> QED
    BY <1>1, <1>2, <1>5, <1>6 DEF RecordsInv

\* Every step keeps the invariant, and every row where it is.
LEMMA RecordsStep == RecordsInv /\ [Next]_vars => RecordsInv' /\ Kept
  <1> SUFFICES ASSUME RecordsInv, [Next]_vars PROVE RecordsInv' /\ Kept
    OBVIOUS
  <1>1. ASSUME UNCHANGED <<requestVars, orgVars, taskVars, documents>>
        PROVE  RecordsInv' /\ Kept
    <2>1. UNCHANGED call /\ call \in [Caller -> Call]
      BY <1>1 DEF requestVars, RecordsInv
    <2>2. TablesTyped' /\ OrganizationSound' /\ EmbeddingFits' /\ StatusEarned' /\ Kept
      BY <1>1, Untouched
    <2>3. \A c \in Caller : CallSound(c)'
      BY <2>1, <2>2, OthersKept
    <2> QED
      BY <2>1, <2>2, <2>3 DEF RecordsInv
  <1>2. ASSUME NEW c \in Caller, RequestStep(c) PROVE RecordsInv' /\ Kept
    BY <1>2, RequestInv DEF RequestStep
  <1>3. ASSUME NEW c \in Caller, Organize(c) PROVE RecordsInv' /\ Kept
    BY <1>3, CreateDepartmentInv, UpdateDepartmentInv, WriteDepartmentInv,
       DeleteDepartmentInv, TeamAsked, UpdateTeamInv, InsertTeamInv, WriteTeamInv,
       RemoveTeamInv, EmployeeAsked, UpdateEmployeeInv, InsertEmployeeInv,
       WriteEmployeeInv, RemoveEmployeeInv
       DEF Organize, DepartmentStep, TeamStep, EmployeeStep
  <1>4. ASSUME NEW c \in Caller, Plan(c) PROVE RecordsInv' /\ Kept
    BY <1>4, TaskStepInv DEF Plan
  <1>5. ASSUME NEW c \in Caller, Know(c) PROVE RecordsInv' /\ Kept
    BY <1>5, DocStepInv DEF Know
  <1>6. ASSUME Engaging PROVE RecordsInv' /\ Kept
    BY <1>6, EngageInv DEF Engaging
  <1>7. ASSUME WalkStep PROVE RecordsInv' /\ Kept
    BY <1>1, <1>7, WalkReads
  <1>8. ASSUME UNCHANGED vars PROVE RecordsInv' /\ Kept
    BY <1>1, <1>8 DEF vars
  <1> QED
    BY <1>2, <1>3, <1>4, <1>5, <1>6, <1>7, <1>8 DEF Next, WalkStep

\* The inductive invariant holds.
THEOREM RecordsInvariant == Spec => []RecordsInv
  BY RecordsInit, RecordsStep, PTL DEF Spec

\* Every table keeps its columns and every request on its way has its copy.
THEOREM RecordsTyped == Spec => []RecordsTypeOK
  <1>1. RecordsInv => RecordsTypeOK
    BY DEF RecordsInv, TablesTyped, CallSound, AuditSound, Call, RecordsTypeOK
  <1> QED
    BY <1>1, RecordsInvariant, PTL

\* Parents exist, siblings have different names and engaged employees stay,
\* whatever creations, moves and cascading deletions overlap.
THEOREM OrganizationHolds == Spec => []OrganizationSound
  <1>1. RecordsInv => OrganizationSound
    BY DEF RecordsInv
  <1> QED
    BY <1>1, RecordsInvariant, PTL

\* The stored vector is the one of the stored content (Service.Update of
\* knowledge documents).
THEOREM EmbeddingsTrack == Spec => []EmbeddingFits
  <1>1. RecordsInv => EmbeddingFits
    BY DEF RecordsInv
  <1> QED
    BY <1>1, RecordsInvariant, PTL

\* A task's statuses follow the lifecycle although writes overtake each other.
THEOREM StatusesEarned == Spec => []StatusEarned
  <1>1. RecordsInv => StatusEarned
    BY DEF RecordsInv
  <1> QED
    BY <1>1, RecordsInvariant, PTL

\* A task or document request answered with success has its entry, and none
\* answered with a refusal has one of success, although appends and commits may
\* lose their answers (recordSuccess, recordOrInternal).
THEOREM SuccessesAudited == Spec => []SuccessAudited
  <1>1. RecordsInv => SuccessAudited
    BY DEF RecordsInv, CallSound, AuditSound, SuccessAudited
  <1> QED
    BY <1>1, RecordsInvariant, PTL

\* No step moves a row to another workspace, changes its age or brings it back.
THEOREM RowsStay == Spec => RowsStayPut
  <1> DEFINE Put ==
        /\ Stays(departments) /\ Stays(teams) /\ Stays(employees) /\ Stays(tasks)
        /\ Stays(documents)
        /\ \A i \in Id :
            /\ Exists(departments[i]) /\ Exists(departments'[i]) =>
                departments'[i].workspace = departments[i].workspace
            /\ Exists(teams[i]) /\ Exists(teams'[i]) => Home(i)' = Home(i)
            /\ Exists(employees[i]) /\ Exists(employees'[i]) =>
                departments'[teams'[employees'[i].team].department].workspace
                    = departments[teams[employees[i].team].department].workspace
            /\ Exists(tasks[i]) /\ Exists(tasks'[i]) =>
                tasks'[i].workspace = tasks[i].workspace
            /\ Exists(documents[i]) /\ Exists(documents'[i]) =>
                documents'[i].workspace = documents[i].workspace
  <1>1. Kept => Put
    BY DEF Kept, OrgKept, TasksKept, DocsKept, RowsKept, Stays
  <1>2. RecordsInv /\ [Next]_vars => [Put]_vars
    BY <1>1, RecordsStep
  <1> QED
    BY <1>2, RecordsInvariant, PTL DEF Spec, RowsStayPut

-----------------------------------------------------------------------------
(* Listings: pages of finite sets of keys.                                 *)

Key == Nat \X Nat

\* ORDER BY created_at, id is a strict total order of the keys.
LEMMA KeyOrder ==
    /\ \A x, y, z \in Key : Newer(x, y) /\ Newer(y, z) => Newer(x, z)
    /\ \A x \in Key : ~Newer(x, x)
    /\ \A x, y \in Key : x # y => Newer(x, y) \/ Newer(y, x)
    /\ \A x, y \in Key : Before(x, y) <=> Newer(y, x)
  <1>1. \A x, y, z \in Key : Newer(x, y) /\ Newer(y, z) => Newer(x, z)
    BY DEF Key, Newer
  <1>2. \A x \in Key : ~Newer(x, x)
    BY DEF Key, Newer
  <1>3. \A x, y \in Key : x # y => Newer(x, y) \/ Newer(y, x)
    BY DEF Key, Newer
  <1>4. \A x, y \in Key : Before(x, y) <=> Newer(y, x)
    BY DEF Key, Newer, Before
  <1> QED
    BY <1>1, <1>2, <1>3, <1>4

\* Among finitely many keys one is the oldest: strict inclusion of the sets of
\* older keys is well-founded.
LEMMA Oldest ==
    ASSUME NEW S, S \subseteq Key, IsFiniteSet(S), S # {}
    PROVE  \E k \in S : \A x \in S : ~Newer(k, x)
  <1> DEFINE Under(k) == {x \in S : Newer(k, x)}
             T == {Under(k) : k \in S}
  <1>1. T \subseteq FiniteSubsetsOf(S) /\ T # {}
    <2>1. \A k \in S : Under(k) \subseteq S /\ IsFiniteSet(Under(k))
      BY FS_Subset
    <2> QED
      BY <2>1 DEF FiniteSubsetsOf
  <1>2. PICK u \in T : \A v \in T : ~(<<v, u>> \in StrictSubsetOrdering(S))
    BY <1>1, FS_StrictSubsetOrderingWellFounded, WFMin
  <1>3. PICK k \in S : u = Under(k)
    BY <1>2
  <1>4. ASSUME NEW x \in S, Newer(k, x) PROVE FALSE
    <2>1. Under(x) \subseteq Under(k)
      BY <1>4, KeyOrder
    <2>2. x \in Under(k) /\ x \notin Under(x)
      BY <1>4, KeyOrder
    <2>3. <<Under(x), Under(k)>> \in StrictSubsetOrdering(S)
      BY <2>1, <2>2 DEF StrictSubsetOrdering
    <2> QED
      BY <1>2, <1>3, <2>3
  <1> QED
    BY <1>4

\* And one is the newest.
LEMMA Newest ==
    ASSUME NEW S, S \subseteq Key, IsFiniteSet(S), S # {}
    PROVE  \E k \in S : \A x \in S : ~Newer(x, k)
  <1> DEFINE Above(k) == {x \in S : Newer(x, k)}
             T == {Above(k) : k \in S}
  <1>1. T \subseteq FiniteSubsetsOf(S) /\ T # {}
    <2>1. \A k \in S : Above(k) \subseteq S /\ IsFiniteSet(Above(k))
      BY FS_Subset
    <2> QED
      BY <2>1 DEF FiniteSubsetsOf
  <1>2. PICK u \in T : \A v \in T : ~(<<v, u>> \in StrictSubsetOrdering(S))
    BY <1>1, FS_StrictSubsetOrderingWellFounded, WFMin
  <1>3. PICK k \in S : u = Above(k)
    BY <1>2
  <1>4. ASSUME NEW x \in S, Newer(x, k) PROVE FALSE
    <2>1. Above(x) \subseteq Above(k)
      BY <1>4, KeyOrder
    <2>2. x \in Above(k) /\ x \notin Above(x)
      BY <1>4, KeyOrder
    <2>3. <<Above(x), Above(k)>> \in StrictSubsetOrdering(S)
      BY <2>1, <2>2 DEF StrictSubsetOrdering
    <2> QED
      BY <1>2, <1>3, <2>3
  <1> QED
    BY <1>4

\* The page of a result, and its last row.
Page(match) == {k \in match : Cardinality({x \in match : Newer(x, k)}) < PageSize}
Last(match) == CHOOSE k \in Page(match) : \A x \in Page(match) : ~Newer(k, x)

\* A page is all that matches, or ends before everything that it leaves out.
LEMMA PageFacts ==
    ASSUME NEW M, M \subseteq Key, IsFiniteSet(M)
    PROVE  /\ Page(M) \subseteq M /\ IsFiniteSet(Page(M)) /\ Cardinality(M) \in Nat
           /\ Cardinality(M) <= PageSize => Page(M) = M
           /\ Cardinality(M) > PageSize =>
                /\ Last(M) \in Page(M) /\ \A x \in Page(M) : ~Newer(Last(M), x)
                /\ \A x \in M \ Page(M) : Newer(Last(M), x)
  <1> DEFINE Above(k) == {x \in M : Newer(x, k)}
  <1>1. /\ Page(M) \subseteq M /\ IsFiniteSet(Page(M)) /\ Cardinality(M) \in Nat
        /\ PageSize \in Nat /\ PageSize > 0
    <2>1. Page(M) \in SUBSET M
      BY DEF Page
    <2>2. IsFiniteSet(Page(M))
      BY <2>1, FS_Subset
    <2>3. Cardinality(M) \in Nat
      BY FS_CardinalityType
    <2>4. PageSize \in Nat /\ PageSize > 0
      BY PageAssumption
    <2> QED
      BY <2>1, <2>2, <2>3, <2>4
  <1>2. ASSUME NEW k \in M
        PROVE  /\ IsFiniteSet(Above(k)) /\ Cardinality(Above(k)) \in Nat
               /\ Cardinality(Above(k)) < Cardinality(M)
    <2>1. Above(k) \in SUBSET M /\ k \notin Above(k)
      BY <1>2, KeyOrder
    <2>2. IsFiniteSet(Above(k)) /\ Cardinality(Above(k)) <= Cardinality(M)
          /\ (Cardinality(M) = Cardinality(Above(k)) => M = Above(k))
      BY <2>1, FS_Subset
    <2>3. Cardinality(Above(k)) \in Nat /\ Cardinality(M) # Cardinality(Above(k))
      BY <1>2, <2>1, <2>2, FS_CardinalityType
    <2> QED
      BY <1>1, <2>2, <2>3
  <1>3. ASSUME Cardinality(M) <= PageSize PROVE Page(M) = M
    <2>1. ASSUME NEW k \in M PROVE k \in Page(M)
      <3>1. Cardinality(Above(k)) < PageSize
        <4>1. Cardinality(Above(k)) \in Nat /\ Cardinality(Above(k)) < Cardinality(M)
          BY <1>2, <2>1
        <4> HIDE DEF Above
        <4> QED
          BY <1>1, <1>3, <4>1
      <3> QED
        BY <2>1, <3>1 DEF Page
    <2> QED
      BY <1>1, <2>1
  <1>4. ASSUME Cardinality(M) > PageSize
        PROVE  Last(M) \in Page(M) /\ \A x \in Page(M) : ~Newer(Last(M), x)
    <2>1. M # {}
      BY <1>1, <1>4, FS_EmptySet
    <2>2. PICK k \in M : \A x \in M : ~Newer(x, k)
      BY <2>1, Newest
    <2>3. Above(k) = {}
      BY <2>2
    <2>4. Cardinality(Above(k)) = 0
      BY <2>3, FS_EmptySet
    <2>5. k \in Page(M)
      BY <1>1, <2>4 DEF Page
    <2>6. Page(M) \subseteq Key
      BY <1>1
    <2>7. \E z \in Page(M) : \A x \in Page(M) : ~Newer(z, x)
      BY <1>1, <2>5, <2>6, Oldest
    <2> QED
      BY <2>7 DEF Last
  <1>5. ASSUME Cardinality(M) > PageSize, NEW x \in M \ Page(M)
        PROVE  Newer(Last(M), x)
    <2> DEFINE z == Last(M)
    <2>1. z \in Page(M) /\ z \in M /\ z # x
      BY <1>1, <1>4, <1>5
    <2> HIDE DEF z
    <2>2. CASE Newer(x, z)
      <3>1. Above(x) \in SUBSET Above(z)
        BY <2>1, <2>2, KeyOrder
      <3>2. Cardinality(Above(x)) <= Cardinality(Above(z))
        BY <1>2, <2>1, <3>1, FS_Subset
      <3>3. Cardinality(Above(z)) < PageSize
        BY <2>1 DEF Page
      <3>4. Cardinality(Above(x)) \in Nat /\ Cardinality(Above(z)) \in Nat
        BY <1>2, <1>5, <2>1
      <3>5. x \in M /\ Cardinality(Above(x)) < PageSize
        BY <1>1, <1>5, <3>2, <3>3, <3>4
      <3> QED
        BY <1>5, <3>5 DEF Page
    <2>3. Newer(x, z) \/ Newer(z, x)
      BY <1>5, <2>1, KeyOrder
    <2> QED
      BY <2>2, <2>3 DEF z
  <1> QED
    BY <1>1, <1>3, <1>4, <1>5

-----------------------------------------------------------------------------
(* The rows of a listing.                                                  *)

\* The keys of some rows of a table.
KeysOf(table, S) == {<<table[i].created, i>> : i \in S}

\* They are finitely many, and no two have the same id.
LEMMA KeysFacts ==
    ASSUME NEW table, NEW S \in SUBSET Id, \A i \in S : table[i].created \in Nat
    PROVE  /\ KeysOf(table, S) \subseteq Key /\ IsFiniteSet(KeysOf(table, S))
           /\ \A k \in KeysOf(table, S) : k[2] \in S
           /\ \A k, x \in KeysOf(table, S) : x[2] = k[2] => x = k
  <1> DEFINE R == KeysOf(table, S)
             f == [k \in R |-> k[2]]
  <1>1. R \subseteq Key
    BY RequestsAssumption DEF KeysOf, Key
  <1>2. \A k \in R : k[2] \in S /\ k = <<table[k[2]].created, k[2]>>
    BY DEF KeysOf
  <1> HIDE DEF R
  <1>3. f \in Injection(R, Id)
    BY <1>2 DEF Injection, IsInjective
  <1>4. IsFiniteSet(R)
    BY <1>3, FS_Injection, RequestsAssumption
  <1> QED
    BY <1>1, <1>2, <1>4 DEF R

\* A row that was there has its key from then.
LEMMA KeysKept ==
    ASSUME NEW table, NEW later, NEW S, NEW T \in SUBSET Id,
           \A i \in T : table[i] # Null => i \in S /\ later[i].created = table[i].created
    PROVE  \A k \in KeysOf(later, T) : table[k[2]] # Null => k \in KeysOf(table, S)
  BY DEF KeysOf

\* The table of a kind.
TableOf(t) ==
    CASE t = "department" -> departments
      [] t = "team" -> teams
      [] t = "employee" -> employees
      [] t = "task" -> tasks
      [] t = "document" -> documents

\* The ids that have been used.
Present(t) == {i \in Id : TableOf(t)[i] # Null}

\* What a listing of each kind ranges over, in one form.
LEMMA RowsAre ==
    ASSUME NEW ws
    PROVE  /\ Rows("department", ws)
                = KeysOf(departments, {x \in Id : DepartmentVisible(ws, x)})
           /\ Rows("team", ws) = KeysOf(teams, {x \in Id : TeamVisible(ws, x)})
           /\ Rows("employee", ws) = KeysOf(employees, {x \in Id : EmployeeVisible(ws, x)})
           /\ Rows("task", ws) = KeysOf(tasks, {x \in Id : TaskVisible(ws, x)})
           /\ Rows("document", ws) = KeysOf(documents, {x \in Id : DocumentVisible(ws, x)})
  BY DEF Rows, KeysOf, DepartmentRows, TeamRows, EmployeeRows, TaskRows, DocumentRows

\* What a listing selects from is finite, and an id is one row of it.
LEMMA RowsFacts ==
    ASSUME RecordsInv, NEW t \in Tables, NEW ws
    PROVE  /\ Rows(t, ws) \subseteq Key /\ IsFiniteSet(Rows(t, ws))
           /\ \A k \in Rows(t, ws) : k[2] \in Present(t)
           /\ \A k, x \in Rows(t, ws) : x[2] = k[2] => x = k
  <1> DEFINE Facts(R, P) == /\ R \subseteq Key /\ IsFiniteSet(R)
                            /\ \A k \in R : k[2] \in P
                            /\ \A k, x \in R : x[2] = k[2] => x = k
  <1>0. /\ TablesTyped /\ Instants \subseteq Nat
        /\ \A x : Exists(x) => x # Null
    BY RequestsAssumption DEF RecordsInv, Exists
  <1>1. ASSUME NEW table, NEW S \in SUBSET Id,
               \A i \in S : table[i] # Null /\ table[i].created \in Nat
        PROVE  Facts(KeysOf(table, S), {i \in Id : table[i] # Null})
    BY <1>1, KeysFacts
  <1> HIDE DEF Facts
  <1>2. \A i \in Id :
            /\ Exists(departments[i]) => departments[i].created \in Nat
            /\ Exists(teams[i]) => teams[i].created \in Nat
            /\ Exists(employees[i]) => employees[i].created \in Nat
            /\ Exists(tasks[i]) => tasks[i].created \in Nat
            /\ Exists(documents[i]) => documents[i].created \in Nat
    BY <1>0 DEF TablesTyped, Table, Exists, DepartmentRow, TeamRow, EmployeeRow, TaskRow,
                DocumentRow
  <1>3. CASE t = "department"
    <2> DEFINE S == {x \in Id : DepartmentVisible(ws, x)}
    <2>1. S \in SUBSET Id /\ \A i \in S : departments[i] # Null /\ departments[i].created \in Nat
      BY <1>0, <1>2 DEF DepartmentVisible
    <2> HIDE DEF S
    <2>2. Facts(KeysOf(departments, S), {i \in Id : departments[i] # Null})
      BY <1>1, <2>1
    <2>3. Rows(t, ws) = KeysOf(departments, S)
      BY <1>3, RowsAre DEF S
    <2> QED
      BY <1>3, <2>2, <2>3 DEF Facts, Present, TableOf
  <1>4. CASE t = "team"
    <2> DEFINE S == {x \in Id : TeamVisible(ws, x)}
    <2>1. S \in SUBSET Id /\ \A i \in S : teams[i] # Null /\ teams[i].created \in Nat
      BY <1>0, <1>2 DEF TeamVisible
    <2> HIDE DEF S
    <2>2. Facts(KeysOf(teams, S), {i \in Id : teams[i] # Null})
      BY <1>1, <2>1
    <2>3. Rows(t, ws) = KeysOf(teams, S)
      BY <1>4, RowsAre DEF S
    <2> QED
      BY <1>4, <2>2, <2>3 DEF Facts, Present, TableOf
  <1>5. CASE t = "employee"
    <2> DEFINE S == {x \in Id : EmployeeVisible(ws, x)}
    <2>1. S \in SUBSET Id /\ \A i \in S : employees[i] # Null /\ employees[i].created \in Nat
      BY <1>0, <1>2 DEF EmployeeVisible
    <2> HIDE DEF S
    <2>2. Facts(KeysOf(employees, S), {i \in Id : employees[i] # Null})
      BY <1>1, <2>1
    <2>3. Rows(t, ws) = KeysOf(employees, S)
      BY <1>5, RowsAre DEF S
    <2> QED
      BY <1>5, <2>2, <2>3 DEF Facts, Present, TableOf
  <1>6. CASE t = "task"
    <2> DEFINE S == {x \in Id : TaskVisible(ws, x)}
    <2>1. S \in SUBSET Id /\ \A i \in S : tasks[i] # Null /\ tasks[i].created \in Nat
      BY <1>0, <1>2 DEF TaskVisible
    <2> HIDE DEF S
    <2>2. Facts(KeysOf(tasks, S), {i \in Id : tasks[i] # Null})
      BY <1>1, <2>1
    <2>3. Rows(t, ws) = KeysOf(tasks, S)
      BY <1>6, RowsAre DEF S
    <2> QED
      BY <1>6, <2>2, <2>3 DEF Facts, Present, TableOf
  <1>7. CASE t = "document"
    <2> DEFINE S == {x \in Id : DocumentVisible(ws, x)}
    <2>1. S \in SUBSET Id /\ \A i \in S : documents[i] # Null /\ documents[i].created \in Nat
      BY <1>0, <1>2 DEF DocumentVisible
    <2> HIDE DEF S
    <2>2. Facts(KeysOf(documents, S), {i \in Id : documents[i] # Null})
      BY <1>1, <2>1
    <2>3. Rows(t, ws) = KeysOf(documents, S)
      BY <1>7, RowsAre DEF S
    <2> QED
      BY <1>7, <2>2, <2>3 DEF Facts, Present, TableOf
  <1> QED
    BY <1>3, <1>4, <1>5, <1>6, <1>7 DEF Tables, OrgTables

\* Whatever the requests do, a row that was there is listed where and as it
\* was, if it is listed at all.
LEMMA RowsStable ==
    ASSUME RecordsInv, Kept, NEW t \in Tables, NEW ws
    PROVE  /\ Present(t) \subseteq Present(t)'
           /\ \A k \in Rows(t, ws)' : k[2] \in Present(t) => k \in Rows(t, ws)
  <1>0. /\ RowsKept(departments) /\ RowsKept(teams) /\ RowsKept(employees)
        /\ RowsKept(tasks) /\ RowsKept(documents)
    BY DEF Kept, OrgKept, TasksKept, DocsKept
  <1>1. Present(t) \subseteq Present(t)'
    BY <1>0 DEF Tables, OrgTables, Present, TableOf, RowsKept
  <1>2. CASE t = "department"
    <2> DEFINE S == {x \in Id : DepartmentVisible(ws, x)}
               T == {x \in Id : DepartmentVisible(ws, x)'}
    <2>1. \A i \in T : departments[i] # Null =>
                i \in S /\ departments'[i].created = departments[i].created
      BY <1>0 DEF Kept, OrgKept, RowsKept, Exists, DepartmentVisible
    <2>2. Rows(t, ws) = KeysOf(departments, S) /\ Rows(t, ws)' = KeysOf(departments', T)
      BY <1>2 DEF Rows, KeysOf, DepartmentRows
    <2>3. T \in SUBSET Id
      OBVIOUS
    <2> HIDE DEF S, T
    <2> QED
      BY <1>1, <1>2, <2>1, <2>2, <2>3, KeysKept DEF Present, TableOf
  <1>3. CASE t = "team"
    <2> DEFINE S == {x \in Id : TeamVisible(ws, x)}
               T == {x \in Id : TeamVisible(ws, x)'}
    <2>1. \A i \in T : teams[i] # Null =>
                i \in S /\ teams'[i].created = teams[i].created
      BY <1>0, TeamSeen DEF Kept, OrgKept, RowsKept, Exists, TeamVisible, DepartmentVisible, Home
    <2>2. Rows(t, ws) = KeysOf(teams, S) /\ Rows(t, ws)' = KeysOf(teams', T)
      BY <1>3 DEF Rows, KeysOf, TeamRows
    <2>3. T \in SUBSET Id
      OBVIOUS
    <2> HIDE DEF S, T
    <2> QED
      BY <1>1, <1>3, <2>1, <2>2, <2>3, KeysKept DEF Present, TableOf
  <1>4. CASE t = "employee"
    <2> DEFINE S == {x \in Id : EmployeeVisible(ws, x)}
               T == {x \in Id : EmployeeVisible(ws, x)'}
    <2>1. \A i \in T : employees[i] # Null =>
                i \in S /\ employees'[i].created = employees[i].created
      BY <1>0, EmployeeSeen
         DEF Kept, OrgKept, RowsKept, Exists, EmployeeVisible, TeamVisible, DepartmentVisible, Home
    <2>2. Rows(t, ws) = KeysOf(employees, S) /\ Rows(t, ws)' = KeysOf(employees', T)
      BY <1>4 DEF Rows, KeysOf, EmployeeRows
    <2>3. T \in SUBSET Id
      OBVIOUS
    <2> HIDE DEF S, T
    <2> QED
      BY <1>1, <1>4, <2>1, <2>2, <2>3, KeysKept DEF Present, TableOf
  <1>5. CASE t = "task"
    <2> DEFINE S == {x \in Id : TaskVisible(ws, x)}
               T == {x \in Id : TaskVisible(ws, x)'}
    <2>1. \A i \in T : tasks[i] # Null =>
                i \in S /\ tasks'[i].created = tasks[i].created
      BY <1>0 DEF Kept, TasksKept, RowsKept, Exists, TaskVisible
    <2>2. Rows(t, ws) = KeysOf(tasks, S) /\ Rows(t, ws)' = KeysOf(tasks', T)
      BY <1>5 DEF Rows, KeysOf, TaskRows
    <2>3. T \in SUBSET Id
      OBVIOUS
    <2> HIDE DEF S, T
    <2> QED
      BY <1>1, <1>5, <2>1, <2>2, <2>3, KeysKept DEF Present, TableOf
  <1>6. CASE t = "document"
    <2> DEFINE S == {x \in Id : DocumentVisible(ws, x)}
               T == {x \in Id : DocumentVisible(ws, x)'}
    <2>1. \A i \in T : documents[i] # Null =>
                i \in S /\ documents'[i].created = documents[i].created
      BY <1>0 DEF Kept, DocsKept, RowsKept, Exists, DocumentVisible
    <2>2. Rows(t, ws) = KeysOf(documents, S) /\ Rows(t, ws)' = KeysOf(documents', T)
      BY <1>6 DEF Rows, KeysOf, DocumentRows
    <2>3. T \in SUBSET Id
      OBVIOUS
    <2> HIDE DEF S, T
    <2> QED
      BY <1>1, <1>6, <2>1, <2>2, <2>3, KeysKept DEF Present, TableOf
  <1> QED
    BY <1>2, <1>3, <1>4, <1>5, <1>6 DEF Tables, OrgTables

-----------------------------------------------------------------------------
(* A client that pages through a table.                                    *)

Walk == [pc : {"idle", "more", "done", "refused"}, table : Tables \cup {Null},
         ws : Workspace \cup {Null}, cursor : Nat \cup Key \cup {Null},
         base : SUBSET Key, seen : SUBSET Key, shown : Nat]

\* Of the rows R, with the ids P in use: an id that the client has met means
\* the row that it has met; what the client has not seen comes after the cursor.
WalkSound(w, R, P) ==
    /\ IsFiniteSet(w.seen) /\ w.shown = Cardinality(w.seen)
    /\ \A k \in w.base \cup w.seen : k[2] \in P /\ \A x \in R : x[2] = k[2] => x = k
    /\ w.pc = "more" => \E at \in w.seen :
        /\ w.cursor = EncodeCursor(w.table, at)
        /\ \A k \in w.seen : ~Before(k, at)
        /\ \A k \in w.base \cap R : k \in w.seen \/ Before(k, at)
    /\ w.pc = "done" => w.base \cap R \subseteq w.seen

WalkInv ==
    /\ walk \in Walk
    /\ walk.pc = "idle" => walk = NoWalk
    /\ walk.pc # "idle" => walk.table \in Tables /\ walk.ws \in Workspace
    /\ \A t \in Tables, ws \in Workspace :
        walk.table = t /\ walk.ws = ws => WalkSound(walk, Rows(t, ws), Present(t))

\* Requests of others leave a walk sound.
LEMMA WalkSoundKept ==
    ASSUME NEW w, NEW R, NEW P, WalkSound(w, R, P),
           NEW Q, NEW O, P \subseteq O, \A k \in Q : k[2] \in P => k \in R
    PROVE  WalkSound(w, Q, O)
  <1>1. \A k \in w.base \cup w.seen : k[2] \in O /\ \A x \in Q : x[2] = k[2] => x = k
    BY DEF WalkSound
  <1>2. w.base \cap Q \subseteq R
    BY DEF WalkSound
  <1> QED
    BY <1>1, <1>2 DEF WalkSound

\* The walk after a page.
Shown(w, match) ==
    [w EXCEPT !.pc = IF Cardinality(match) > PageSize THEN "more" ELSE "done",
              !.cursor = IF Cardinality(match) > PageSize
                         THEN EncodeCursor(w.table, Last(match)) ELSE Null,
              !.seen = w.seen \cup Page(match),
              !.shown = w.shown + Cardinality(Page(match))]

\* A page of what matches keeps a walk sound if nothing that matches was seen
\* and all that is missing matches.
LEMMA PageKeepsSound ==
    ASSUME NEW w \in Walk, NEW R \in SUBSET Key, IsFiniteSet(R), NEW P,
           \A k \in R : k[2] \in P, \A k, x \in R : x[2] = k[2] => x = k,
           IsFiniteSet(w.seen), w.shown = Cardinality(w.seen),
           \A k \in w.base \cup w.seen : k[2] \in P /\ \A x \in R : x[2] = k[2] => x = k,
           NEW M \in SUBSET R, M \cap w.seen = {}, w.base \cap R \subseteq w.seen \cup M,
           \A k \in w.seen, m \in M : ~Before(k, m)
    PROVE  Shown(w, M) \in Walk /\ WalkSound(Shown(w, M), R, P)
  <1> DEFINE v == Shown(w, M)
             more == Cardinality(M) > PageSize
  <1>0. M \subseteq Key /\ IsFiniteSet(M)
    BY FS_Subset
  <1>1. /\ Page(M) \subseteq M /\ IsFiniteSet(Page(M))
        /\ Cardinality(M) \in Nat /\ PageSize \in Nat
        /\ ~more => Page(M) = M
        /\ more => /\ Last(M) \in Page(M) /\ \A x \in Page(M) : ~Newer(Last(M), x)
                   /\ \A x \in M \ Page(M) : Newer(Last(M), x)
    <2>1. PageSize \in Nat /\ Cardinality(M) \in Nat
      BY <1>0, PageFacts, PageAssumption
    <2>2. ~more => Cardinality(M) <= PageSize
      BY <2>1
    <2> QED
      BY <1>0, <2>1, <2>2, PageFacts
  <1>2. /\ IsFiniteSet(w.seen \cup Page(M))
        /\ Cardinality(w.seen \cup Page(M)) = w.shown + Cardinality(Page(M))
        /\ Cardinality(Page(M)) \in Nat
    <2>1. w.seen \cap Page(M) = {}
      BY <1>1
    <2>2. /\ IsFiniteSet(w.seen \cup Page(M))
          /\ Cardinality(w.seen \cup Page(M))
                = Cardinality(w.seen) + Cardinality(Page(M)) - Cardinality(w.seen \cap Page(M))
      BY <1>1, FS_Union
    <2>3. Cardinality(w.seen \cap Page(M)) = 0
      BY <2>1, FS_EmptySet
    <2>4. Cardinality(w.seen) \in Nat /\ Cardinality(Page(M)) \in Nat
      BY <1>1, FS_CardinalityType
    <2> QED
      BY <2>2, <2>3, <2>4
  <1>3. /\ v.pc = (IF more THEN "more" ELSE "done") /\ v.table = w.table /\ v.base = w.base
        /\ v.cursor = (IF more THEN EncodeCursor(w.table, Last(M)) ELSE Null)
        /\ v.seen = w.seen \cup Page(M) /\ v.shown = w.shown + Cardinality(Page(M))
    BY DEF Shown, Walk
  <1>4. v \in Walk
    <2>1. more => EncodeCursor(w.table, Last(M)) \in Nat \cup Key
      BY <1>0, <1>1 DEF EncodeCursor, Key
    <2>2. w.seen \cup Page(M) \in SUBSET Key
      BY <1>0, <1>1 DEF Walk
    <2>3. w.shown + Cardinality(Page(M)) \in Nat
      BY <1>2 DEF Walk
    <2> HIDE DEF more
    <2> QED
      BY <2>1, <2>2, <2>3 DEF Shown, Walk, more
  <1> HIDE DEF v, more
  <1>5. \A k \in v.base \cup v.seen : k[2] \in P /\ \A x \in R : x[2] = k[2] => x = k
    BY <1>1, <1>3
  <1>6. ASSUME more
        PROVE  /\ Last(M) \in v.seen
               /\ \A k \in v.seen : ~Before(k, Last(M))
               /\ \A k \in v.base \cap R : k \in v.seen \/ Before(k, Last(M))
    <2>1. Last(M) \in M /\ Last(M) \in v.seen /\ M \subseteq Key
      BY <1>0, <1>1, <1>3, <1>6
    <2>2. \A k \in Page(M) : ~Before(k, Last(M))
      BY <1>1, <1>6, <2>1, KeyOrder
    <2>3. \A k \in M \ Page(M) : Before(k, Last(M))
      BY <1>1, <1>6, <2>1, KeyOrder
    <2> QED
      BY <1>3, <2>1, <2>2, <2>3
  <1>7. ~more => v.base \cap R \subseteq v.seen
    BY <1>1, <1>3
  <1>8. v.pc = "more" => more
    BY <1>3
  <1>9. v.pc = "done" => ~more
    BY <1>3
  <1>10. more => v.cursor = EncodeCursor(v.table, Last(M))
    BY <1>3
  <1>11. v.pc = "more" => \E at \in v.seen :
            /\ v.cursor = EncodeCursor(v.table, at)
            /\ \A k \in v.seen : ~Before(k, at)
            /\ \A k \in v.base \cap R : k \in v.seen \/ Before(k, at)
    BY <1>6, <1>8, <1>10
  <1>12. IsFiniteSet(v.seen) /\ v.shown = Cardinality(v.seen)
    BY <1>2, <1>3
  <1>13. WalkSound(v, R, P)
    BY <1>5, <1>7, <1>9, <1>11, <1>12 DEF WalkSound
  <1> QED
    BY <1>4, <1>13 DEF v

\* What a page does to the walk, in the words of the lemma above.
LEMMA PageShown ==
    ASSUME NEW w, NEW M, ShowPage(w, M)
    PROVE  walk' = Shown(w, M)
  BY DEF ShowPage, Shown, Page, Last

\* It is enough that the walk is sound for its own table and workspace, as the
\* rows were before the step.
LEMMA WalkSuffices ==
    ASSUME RecordsInv, Kept, NEW t \in Tables, NEW ws \in Workspace,
           walk' \in Walk, walk'.pc # "idle", walk'.table = t, walk'.ws = ws,
           WalkSound(walk', Rows(t, ws), Present(t))
    PROVE  WalkInv'
  <1>1. /\ Present(t) \subseteq Present(t)'
        /\ \A k \in Rows(t, ws)' : k[2] \in Present(t) => k \in Rows(t, ws)
    BY RowsStable
  <1>2. WalkSound(walk', Rows(t, ws)', Present(t)')
    BY <1>1, WalkSoundKept
  <1> QED
    BY <1>2 DEF WalkInv

\* The fields of a walk after a page.
LEMMA ShownFields ==
    ASSUME NEW w \in Walk, NEW M
    PROVE  /\ Shown(w, M).pc # "idle" /\ Shown(w, M).table = w.table
           /\ Shown(w, M).ws = w.ws
  BY DEF Shown, Walk

\* FirstPage: nothing was seen, and all that matches is the base.
LEMMA FirstPageInv ==
    ASSUME RecordsInv, Kept, NEW t \in Tables, FirstPage(t)
    PROVE  WalkInv'
  <1>1. PICK ws \in Workspace :
            ShowPage([NoWalk EXCEPT !.table = t, !.ws = ws, !.base = Rows(t, ws)], Rows(t, ws))
    BY RequestsAssumption DEF FirstPage, Ws
  <1> DEFINE w == [NoWalk EXCEPT !.table = t, !.ws = ws, !.base = Rows(t, ws)]
             R == Rows(t, ws)
  <1>2. /\ R \in SUBSET Key /\ IsFiniteSet(R) /\ \A k \in R : k[2] \in Present(t)
        /\ \A k, x \in R : x[2] = k[2] => x = k
    BY RowsFacts
  <1>3. /\ w \in Walk /\ w.table = t /\ w.ws = ws
        /\ w.base = R /\ w.seen = {} /\ w.shown = 0
    BY <1>2 DEF NoWalk, Walk
  <1>4. walk' = Shown(w, R)
    BY <1>1, PageShown
  <1> HIDE DEF w, R
  <1>5. IsFiniteSet(w.seen) /\ w.shown = Cardinality(w.seen)
    BY <1>3, FS_EmptySet
  <1>6. Shown(w, R) \in Walk /\ WalkSound(Shown(w, R), R, Present(t))
    BY <1>2, <1>3, <1>5, PageKeepsSound
  <1>7. /\ walk' \in Walk /\ walk'.pc # "idle" /\ walk'.table = t /\ walk'.ws = ws
        /\ WalkSound(walk', R, Present(t))
    BY <1>3, <1>4, <1>6, ShownFields
  <1> QED
    BY <1>7, WalkSuffices DEF R

\* NextPage: the cursor still means the row it was made from, so that what
\* comes after it was not seen, and is all that was not.
LEMMA NextPageInv ==
    ASSUME RecordsInv, WalkInv, Kept, NextPage
    PROVE  WalkInv'
  <1>1. PICK t \in Tables, ws \in Workspace : walk.table = t /\ walk.ws = ws
    BY DEF WalkInv, NextPage
  <1> DEFINE R == Rows(t, ws)
             M(at) == {k \in R : Before(k, at)}
  <1>2. /\ R \in SUBSET Key /\ IsFiniteSet(R) /\ \A k \in R : k[2] \in Present(t)
        /\ \A k, x \in R : x[2] = k[2] => x = k
    BY RowsFacts
  <1>3. walk \in Walk /\ WalkSound(walk, R, Present(t)) /\ walk.pc = "more"
    BY <1>1 DEF WalkInv, NextPage
  <1>4. PICK at \in walk.seen :
            /\ walk.cursor = EncodeCursor(t, at)
            /\ \A k \in walk.seen : ~Before(k, at)
            /\ \A k \in walk.base \cap R : k \in walk.seen \/ Before(k, at)
    BY <1>1, <1>3 DEF WalkSound
  <1>5. DecodeCursor(t, ws, walk.cursor) = at
    <2>1. CASE t \in OrgTables
      <3>1. walk.cursor = at[2]
        BY <1>4, <2>1 DEF EncodeCursor
      <3>2. PICK k \in R : k[2] = walk.cursor
        BY <1>1, <2>1 DEF NextPage, CursorKnown
      <3>3. \A x \in R : x[2] = at[2] => x = at
        BY <1>3, <1>4 DEF WalkSound
      <3> QED
        BY <2>1, <3>1, <3>2, <3>3 DEF DecodeCursor
    <2>2. CASE t \notin OrgTables
      BY <1>4, <2>2 DEF EncodeCursor, DecodeCursor
    <2> QED
      BY <2>1, <2>2
  <1>6. walk' = Shown(walk, M(at))
    <2>1. ShowPage(walk, M(at))
      BY <1>1, <1>5 DEF NextPage
    <2> QED
      BY <2>1, PageShown
  <1>7. walk.seen \subseteq Key /\ at \in Key
    BY <1>3, <1>4 DEF Walk
  <1>8. /\ M(at) \in SUBSET R /\ M(at) \cap walk.seen = {}
        /\ walk.base \cap R \subseteq walk.seen \cup M(at)
    BY <1>4
  <1>9. \A k \in walk.seen, m \in M(at) : ~Before(k, m)
    <2>1. \A m \in M(at) : m \in Key /\ Before(m, at)
      BY <1>2
    <2> HIDE DEF M, R
    <2> QED
      BY <1>4, <1>7, <2>1, KeyOrder
  <1>10. /\ IsFiniteSet(walk.seen) /\ walk.shown = Cardinality(walk.seen)
         /\ \A k \in walk.base \cup walk.seen :
                k[2] \in Present(t) /\ \A x \in R : x[2] = k[2] => x = k
    BY <1>3 DEF WalkSound
  <1> HIDE DEF R, M
  <1>11. Shown(walk, M(at)) \in Walk /\ WalkSound(Shown(walk, M(at)), R, Present(t))
    BY <1>2, <1>3, <1>8, <1>9, <1>10, PageKeepsSound
  <1>12. /\ walk' \in Walk /\ walk'.pc # "idle" /\ walk'.table = t /\ walk'.ws = ws
         /\ WalkSound(walk', R, Present(t))
    BY <1>1, <1>3, <1>6, <1>11, ShownFields
  <1> QED
    BY <1>12, WalkSuffices DEF R

\* CursorRefused: the walk is over, and promises nothing.
LEMMA CursorRefusedInv ==
    ASSUME RecordsInv, WalkInv, Kept, CursorRefused
    PROVE  WalkInv'
  <1>1. PICK t \in Tables, ws \in Workspace : walk.table = t /\ walk.ws = ws
    BY DEF WalkInv, CursorRefused
  <1>2. walk \in Walk /\ WalkSound(walk, Rows(t, ws), Present(t))
    BY <1>1 DEF WalkInv
  <1>3. /\ walk' \in Walk /\ walk'.pc = "refused" /\ walk'.table = t /\ walk'.ws = ws
        /\ walk'.base = walk.base /\ walk'.seen = walk.seen /\ walk'.shown = walk.shown
    BY <1>1, <1>2 DEF CursorRefused, Walk
  <1>4. WalkSound(walk', Rows(t, ws), Present(t))
    BY <1>2, <1>3 DEF WalkSound
  <1> QED
    BY <1>3, <1>4, WalkSuffices

\* The requests of others: the walk waits.
LEMMA WalkWaits ==
    ASSUME RecordsInv, WalkInv, Kept, UNCHANGED walk
    PROVE  WalkInv'
  <1>1. CASE walk.pc = "idle"
    <2>1. walk' = NoWalk /\ walk' = walk /\ walk \in Walk
      BY <1>1 DEF WalkInv
    <2>2. NoWalk.pc = "idle" /\ NoWalk.table = Null
      BY DEF NoWalk
    <2>3. \A t \in Tables, ws \in Workspace : ~(walk'.table = t /\ walk'.ws = ws)
      BY <2>1, RequestsAssumption DEF NoWalk
    <2> QED
      BY <2>1, <2>2, <2>3 DEF WalkInv
  <1>2. CASE walk.pc # "idle"
    <2>1. PICK t \in Tables, ws \in Workspace : walk.table = t /\ walk.ws = ws
      BY <1>2 DEF WalkInv
    <2>2. walk \in Walk /\ WalkSound(walk, Rows(t, ws), Present(t)) /\ walk' = walk
      BY <2>1 DEF WalkInv
    <2>3. /\ walk' \in Walk /\ walk'.pc # "idle" /\ walk'.table = t /\ walk'.ws = ws
          /\ WalkSound(walk', Rows(t, ws), Present(t))
      BY <1>2, <2>1, <2>2
    <2> QED
      BY <2>3, WalkSuffices
  <1> QED
    BY <1>1, <1>2

\* No listing misses a row that was there all the time, or shows one twice,
\* whatever requests come between its pages and whatever the size of a page.
THEOREM WalksComplete == Spec => []WalkComplete
  <1>1. Init => WalkInv
    <2> SUFFICES ASSUME Init PROVE WalkInv
      OBVIOUS
    <2>1. walk = NoWalk /\ NoWalk \in Walk /\ NoWalk.pc = "idle" /\ NoWalk.ws = Null
      BY DEF Init, NoWalk, Walk
    <2>2. \A ws \in Workspace : walk.ws # ws
      BY <2>1, RequestsAssumption
    <2> QED
      BY <2>1, <2>2 DEF WalkInv
  <1>2. RecordsInv /\ WalkInv /\ [Next]_vars => WalkInv'
    <2> SUFFICES ASSUME RecordsInv, WalkInv, [Next]_vars PROVE WalkInv'
      OBVIOUS
    <2>1. Kept
      BY RecordsStep
    <2>2. ASSUME \/ ListDepartments \/ ListTeams \/ ListEmployees \/ ListTasks
                 \/ ListDocuments
          PROVE  WalkInv'
      <3>1. \E t \in Tables : FirstPage(t)
        BY <2>2 DEF Tables, OrgTables, ListDepartments, ListTeams, ListEmployees, ListTasks,
                    ListDocuments
      <3> QED
        BY <2>1, <3>1, FirstPageInv
    <2>3. ASSUME NextPage \/ CursorRefused PROVE WalkInv'
      BY <2>1, <2>3, NextPageInv, CursorRefusedInv
    <2>4. ASSUME UNCHANGED walk PROVE WalkInv'
      BY <2>1, <2>4, WalkWaits
    <2>5. (\E c \in Caller : RequestStep(c) \/ Organize(c) \/ Plan(c) \/ Know(c))
            \/ Engaging \/ UNCHANGED vars => UNCHANGED walk
      BY DEF RequestStep, Organize, Plan, Know, Engaging, vars
    <2> QED
      BY <2>2, <2>3, <2>4, <2>5 DEF Next
  <1>3. WalkInv => WalkComplete
    <2> SUFFICES ASSUME WalkInv PROVE WalkComplete
      OBVIOUS
    <2>1. CASE walk.pc = "idle"
      <3>1. walk = NoWalk
        BY <2>1 DEF WalkInv
      <3> QED
        BY <3>1, FS_EmptySet DEF WalkComplete, NoWalk
    <2>2. CASE walk.pc # "idle"
      <3>1. WalkSound(walk, Rows(walk.table, walk.ws), Present(walk.table))
        BY <2>2 DEF WalkInv
      <3> QED
        BY <3>1 DEF WalkSound, WalkComplete
    <2> QED
      BY <2>1, <2>2
  <1> QED
    BY <1>1, <1>2, <1>3, RecordsInvariant, PTL DEF Spec
=============================================================================
