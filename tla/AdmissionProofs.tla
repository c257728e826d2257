-------------------------- MODULE AdmissionProofs --------------------------
(***************************************************************************)
(* Proofs about Admission, for any requests, employees, keys, capacities   *)
(* and numbers of tries: what a snapshot older than the lock may decide.   *)
(***************************************************************************)
EXTENDS Admission, TLAPS, FiniteSetTheorems, SequenceTheorems

-----------------------------------------------------------------------------
(* The inductive invariant.                                                *)

\* Of the rows a transaction sees, those that are active now were so in its
\* snapshot: executions end, but none comes back.
SnapshotCovers == \A r \in Request :
    call[r].pc # "idle" => active \cap Seen(r) \subseteq call[r].live

\* Whoever was told of an execution was told of a row that is there.
AnswersExist == \A r \in Request :
    answer[r].kind \in {"created", "replayed"} => answer[r].id \in Ids

AdmissionInv ==
    /\ TypeOK
    /\ SnapshotCovers
    /\ AnswersExist
    /\ KeyUnique
    /\ CapacityHeld
    /\ AnswersOwn

ActiveOf(b) == {i \in active : rows[i].emp = b}

\* The table is a finite sequence, and so is everything counted in it.
LEMMA TableFacts ==
    ASSUME TypeOK
    PROVE  /\ Len(rows) \in Nat /\ DOMAIN rows = Ids
           /\ IsFiniteSet(Ids) /\ IsFiniteSet(active)
           /\ \A i \in Ids : rows[i] \in {RowOf(r) : r \in Request}
  <1>1. Len(rows) \in Nat /\ DOMAIN rows = 1..Len(rows)
    BY DEF TypeOK
  <1>2. IsFiniteSet(1..Len(rows))
    BY <1>1, FS_Interval
  <1>3. IsFiniteSet(active)
    BY <1>2, FS_Subset DEF TypeOK, Ids
  <1>4. \A i \in 1..Len(rows) : rows[i] \in {RowOf(r) : r \in Request}
    BY <1>1, ElementOfSeq DEF TypeOK
  <1> QED
    BY <1>1, <1>2, <1>3, <1>4 DEF Ids

\* The invariant holds at the start.
LEMMA InitInv == Init => AdmissionInv
  <1> SUFFICES ASSUME Init PROVE AdmissionInv
    OBVIOUS
  <1> USE DEF Init
  <1>1. Len(rows) = 0 /\ Ids = {}
    BY DEF Ids
  <1>2. Quiet \in Call /\ Quiet.pc = "idle" /\ Quiet.seen = 0 /\ Quiet.live = {}
    BY DEF Quiet, Call
  <1>3. NoAnswer \in Answer /\ NoAnswer.kind = "none"
    BY DEF NoAnswer, Answer
  <1>4. TypeOK
    BY <1>1, <1>2, <1>3, AdmissionAssumption DEF TypeOK
  <1>5. SnapshotCovers /\ AnswersExist /\ AnswersOwn
    BY <1>2, <1>3 DEF SnapshotCovers, AnswersExist, AnswersOwn
  <1>6. KeyUnique
    BY <1>1 DEF KeyUnique
  <1>7. CapacityHeld
    <2> SUFFICES ASSUME NEW b \in Employee
                 PROVE  Cardinality({i \in active : rows[i].emp = b}) <= Capacity[b]
      BY DEF CapacityHeld
    <2>1. {i \in active : rows[i].emp = b} = {}
      OBVIOUS
    <2> QED
      BY <2>1, FS_EmptySet, AdmissionAssumption
  <1> QED
    BY <1>4, <1>5, <1>6, <1>7 DEF AdmissionInv

\* A step that adds no row and activates none: executions may end, calls may
\* begin, go on and end.
LEMMA QuietStep ==
    ASSUME AdmissionInv, TypeOK', SnapshotCovers', rows' = rows, active' \subseteq active,
           \A r \in Request : answer'[r].kind \in {"created", "replayed"} =>
               answer'[r].id \in Ids /\ rows[answer'[r].id] = RowOf(r)
    PROVE  AdmissionInv'
  <1>1. Ids' = Ids
    BY DEF Ids
  <1>2. KeyUnique' /\ AnswersExist' /\ AnswersOwn'
    BY <1>1 DEF AdmissionInv, KeyUnique, AnswersExist, AnswersOwn
  <1>3. CapacityHeld'
    <2> SUFFICES ASSUME NEW b \in Employee
                 PROVE  Cardinality({i \in active' : rows'[i].emp = b}) <= Capacity[b]
      BY DEF CapacityHeld
    <2>1. {i \in active' : rows'[i].emp = b} \in SUBSET ActiveOf(b)
      BY DEF ActiveOf
    <2>2. IsFiniteSet(ActiveOf(b))
      <3>1. ActiveOf(b) \in SUBSET active
        BY DEF ActiveOf
      <3> QED
        BY <3>1, TableFacts, FS_Subset DEF AdmissionInv
    <2>3. Cardinality(ActiveOf(b)) <= Capacity[b] /\ Capacity[b] \in Nat
      BY AdmissionAssumption DEF AdmissionInv, CapacityHeld, ActiveOf
    <2>4. /\ Cardinality({i \in active' : rows'[i].emp = b}) <= Cardinality(ActiveOf(b))
          /\ IsFiniteSet({i \in active' : rows'[i].emp = b})
      BY <2>1, <2>2, FS_Subset
    <2>5. /\ Cardinality({i \in active' : rows'[i].emp = b}) \in Nat
          /\ Cardinality(ActiveOf(b)) \in Nat
      BY <2>2, <2>4, FS_CardinalityType
    <2> QED
      BY <2>3, <2>4, <2>5
  <1> QED
    BY <1>2, <1>3 DEF AdmissionInv

\* A step of one transaction that commits no row: what it must leave in its
\* own call and answer.
LEMMA CallStep ==
    ASSUME AdmissionInv, NEW r \in Request, NEW k \in Call, NEW w \in Answer,
           rows' = rows, active' = active,
           call' = [call EXCEPT ![r] = k], answer' = [answer EXCEPT ![r] = w],
           lock' \in [Employee -> Request \cup {NoRequest}],
           tries' \in [Request -> 0..MaxTries],
           k.seen <= Len(rows), k.live \subseteq 1..k.seen,
           k.pc # "idle" => active \cap (1..k.seen) \subseteq k.live,
           w.kind \in {"created", "replayed"} => w.id \in Ids /\ rows[w.id] = RowOf(r)
    PROVE  AdmissionInv'
  <1>1. call' \in [Request -> Call] /\ answer' \in [Request -> Answer]
    BY DEF AdmissionInv, TypeOK
  <1>2. call'[r] = k /\ answer'[r] = w
    BY DEF AdmissionInv, TypeOK
  <1>3. \A q \in Request : q # r => call'[q] = call[q] /\ answer'[q] = answer[q]
    BY DEF AdmissionInv, TypeOK
  <1>4. \A q \in Request : call'[q].seen <= Len(rows) /\ call'[q].live \subseteq 1..call'[q].seen
    <2> SUFFICES ASSUME NEW q \in Request
                 PROVE  call'[q].seen <= Len(rows) /\ call'[q].live \subseteq 1..call'[q].seen
      OBVIOUS
    <2>1. CASE q = r
      BY <2>1, <1>2
    <2>2. CASE q # r
      BY <2>2, <1>3 DEF AdmissionInv, TypeOK, Seen
    <2> QED
      BY <2>1, <2>2
  <1>5. TypeOK'
    BY <1>1, <1>4 DEF AdmissionInv, TypeOK, Seen, Ids
  <1>6. SnapshotCovers'
    <2> SUFFICES ASSUME NEW q \in Request, call'[q].pc # "idle"
                 PROVE  active \cap (1..call'[q].seen) \subseteq call'[q].live
      BY DEF SnapshotCovers, Seen
    <2>1. CASE q = r
      BY <2>1, <1>2
    <2>2. CASE q # r
      BY <2>2, <1>3 DEF AdmissionInv, SnapshotCovers, Seen
    <2> QED
      BY <2>1, <2>2
  <1>7. \A q \in Request : answer'[q].kind \in {"created", "replayed"} =>
            answer'[q].id \in Ids /\ rows[answer'[q].id] = RowOf(q)
    <2> SUFFICES ASSUME NEW q \in Request, answer'[q].kind \in {"created", "replayed"}
                 PROVE  answer'[q].id \in Ids /\ rows[answer'[q].id] = RowOf(q)
      OBVIOUS
    <2>1. CASE q = r
      BY <2>1, <1>2
    <2>2. CASE q # r
      BY <2>2, <1>3 DEF AdmissionInv, AnswersExist, AnswersOwn
    <2> QED
      BY <2>1, <2>2
  <1> QED
    BY <1>5, <1>6, <1>7, QuietStep

\* Begin takes the snapshot: everything committed, everything active.
LEMMA BeginInv ==
    ASSUME AdmissionInv, NEW r \in Request, Begin(r)
    PROVE  AdmissionInv'
  <1> DEFINE k == [pc |-> "begun", seen |-> Len(rows), live |-> active]
  <1>1. /\ call' = [call EXCEPT ![r] = k] /\ tries[r] < MaxTries
        /\ tries' = [tries EXCEPT ![r] = @ + 1]
        /\ answer' = [answer EXCEPT ![r] = NoAnswer]
        /\ UNCHANGED <<rows, active, lock>>
    BY DEF Begin
  <1>2. k \in Call /\ k.seen = Len(rows) /\ k.live = active /\ active \subseteq 1..Len(rows)
    BY TableFacts DEF AdmissionInv, TypeOK, Call, Ids
  <1>3. NoAnswer \in Answer /\ NoAnswer.kind = "none"
    BY DEF NoAnswer, Answer
  <1>4. tries' \in [Request -> 0..MaxTries] /\ lock' \in [Employee -> Request \cup {NoRequest}]
    BY <1>1, AdmissionAssumption DEF AdmissionInv, TypeOK
  <1>5. Len(rows) \in Nat
    BY TableFacts DEF AdmissionInv
  <1> HIDE DEF k
  <1>6. k.seen <= Len(rows) /\ k.live \subseteq 1..k.seen /\ active \cap (1..k.seen) \subseteq k.live
    BY <1>2, <1>5
  <1> QED
    BY <1>1, <1>2, <1>3, <1>4, <1>6, CallStep

\* Lock waits for its turn; the snapshot stays what it was.
LEMMA LockInv ==
    ASSUME AdmissionInv, NEW r \in Request, Lock(r)
    PROVE  AdmissionInv'
  <1> DEFINE k == [call[r] EXCEPT !.pc = "locked"]
  <1>1. /\ call[r].pc = "begun" /\ call' = [call EXCEPT ![r] = k]
        /\ UNCHANGED <<rows, active, answer, tries>>
        /\ lock' = [lock EXCEPT ![EmployeeOf[r]] = r]
    BY DEF Lock
  <1>2. k \in Call /\ k.seen = call[r].seen /\ k.live = call[r].live
    BY DEF AdmissionInv, TypeOK, Call
  <1>3. answer[r] \in Answer /\ answer' = [answer EXCEPT ![r] = answer[r]]
    BY <1>1 DEF AdmissionInv, TypeOK
  <1>4. tries' \in [Request -> 0..MaxTries] /\ lock' \in [Employee -> Request \cup {NoRequest}]
    BY <1>1 DEF AdmissionInv, TypeOK
  <1> HIDE DEF k
  <1>5. k.seen <= Len(rows) /\ k.live \subseteq 1..k.seen
    BY <1>2 DEF AdmissionInv, TypeOK, Seen
  <1>6. active \cap (1..k.seen) \subseteq k.live
    BY <1>1, <1>2 DEF AdmissionInv, SnapshotCovers, Seen
  <1>7. answer[r].kind \in {"created", "replayed"} =>
            answer[r].id \in Ids /\ rows[answer[r].id] = RowOf(r)
    BY DEF AdmissionInv, AnswersExist, AnswersOwn
  <1> QED
    BY <1>1, <1>2, <1>3, <1>4, <1>5, <1>6, <1>7, CallStep

\* A transaction that ends without a row may answer with a row that is its own.
LEMMA EndTxInv ==
    ASSUME AdmissionInv, NEW r \in Request, NEW kind, NEW id,
           [kind |-> kind, id |-> id] \in Answer,
           kind \in {"created", "replayed"} => id \in Ids /\ rows[id] = RowOf(r),
           EndTx(r, kind, id), UNCHANGED <<rows, active>>
    PROVE  AdmissionInv'
  <1> DEFINE w == [kind |-> kind, id |-> id]
  <1>1. /\ call' = [call EXCEPT ![r] = Quiet] /\ answer' = [answer EXCEPT ![r] = w]
        /\ lock' = [lock EXCEPT ![EmployeeOf[r]] = NoRequest]
        /\ UNCHANGED <<rows, active, tries>>
    BY DEF EndTx
  <1>2. Quiet \in Call /\ Quiet.pc = "idle" /\ Quiet.seen = 0 /\ Quiet.live = {}
    BY DEF Quiet, Call
  <1>3. w \in Answer /\ w.kind = kind /\ w.id = id
    OBVIOUS
  <1>4. tries' \in [Request -> 0..MaxTries] /\ lock' \in [Employee -> Request \cup {NoRequest}]
    BY <1>1 DEF AdmissionInv, TypeOK
  <1>5. Len(rows) \in Nat
    BY TableFacts DEF AdmissionInv
  <1> HIDE DEF w
  <1>6. Quiet.seen <= Len(rows) /\ Quiet.live \subseteq 1..Quiet.seen
    BY <1>2, <1>5
  <1> QED
    BY <1>1, <1>2, <1>3, <1>4, <1>6, CallStep

\* Every refusal.
LEMMA RefusalInv ==
    ASSUME AdmissionInv, NEW r \in Request, NEW kind \in Refusals,
           EndTx(r, kind, 0), UNCHANGED <<rows, active>>
    PROVE  AdmissionInv'
  <1>1. [kind |-> kind, id |-> 0] \in Answer
    BY DEF Answer
  <1>2. kind \notin {"created", "replayed"}
    BY DEF Refusals
  <1> QED
    BY <1>1, <1>2, EndTxInv

\* The caller goes away.
LEMMA DropInv ==
    ASSUME AdmissionInv, NEW r \in Request, Drop(r)
    PROVE  AdmissionInv'
  <1>1. /\ call' = [call EXCEPT ![r] = Quiet]
        /\ lock' = [b \in Employee |-> IF lock[b] = r THEN NoRequest ELSE lock[b]]
        /\ UNCHANGED <<rows, active, answer, tries>>
    BY DEF Drop
  <1>2. Quiet \in Call /\ Quiet.pc = "idle" /\ Quiet.seen = 0 /\ Quiet.live = {}
    BY DEF Quiet, Call
  <1>3. answer[r] \in Answer /\ answer' = [answer EXCEPT ![r] = answer[r]]
    BY <1>1 DEF AdmissionInv, TypeOK
  <1>4. tries' \in [Request -> 0..MaxTries] /\ lock' \in [Employee -> Request \cup {NoRequest}]
    BY <1>1 DEF AdmissionInv, TypeOK
  <1>5. answer[r].kind \in {"created", "replayed"} =>
            answer[r].id \in Ids /\ rows[answer[r].id] = RowOf(r)
    BY DEF AdmissionInv, AnswersExist, AnswersOwn
  <1>6. Len(rows) \in Nat
    BY TableFacts DEF AdmissionInv
  <1>7. Quiet.seen <= Len(rows) /\ Quiet.live \subseteq 1..Quiet.seen
    BY <1>2, <1>6
  <1> QED
    BY <1>1, <1>2, <1>3, <1>4, <1>5, <1>7, CallStep

\* A replay answers with a row of the same key, employee and payload: the
\* whole of the request.
LEMMA ResolveInv ==
    ASSUME AdmissionInv, NEW r \in Request, Resolve(r)
    PROVE  AdmissionInv'
  <1>1. PICK i \in Seen(r) :
            /\ SameKey(r, i)
            /\ IF SameRequest(r, i) THEN EndTx(r, "replayed", i)
                                    ELSE EndTx(r, "conflict", 0)
    BY DEF Resolve
  <1>2. UNCHANGED <<rows, active>>
    BY DEF Resolve
  <1>3. CASE ~SameRequest(r, i)
    BY <1>1, <1>2, <1>3, RefusalInv DEF Refusals
  <1>4. CASE SameRequest(r, i)
    <2>1. i \in Ids /\ i \in Nat
      <3>1. call[r].seen <= Len(rows) /\ call[r].seen \in Nat /\ Len(rows) \in Nat
        BY TableFacts DEF AdmissionInv, TypeOK, Call
      <3> QED
        BY <1>1, <3>1 DEF Seen, Ids
    <2>2. PICK q \in Request : rows[i] = RowOf(q)
      BY <2>1, TableFacts DEF AdmissionInv
    <2>3. /\ rows[i].emp = EmployeeOf[q] /\ rows[i].key = KeyOf[q]
          /\ rows[i].payload = PayloadOf[q]
      BY <2>2 DEF RowOf
    <2>4. rows[i] = RowOf(r)
      BY <1>1, <1>4, <2>2, <2>3 DEF RowOf, SameKey, SameRequest
    <2>5. [kind |-> "replayed", id |-> i] \in Answer
      BY <2>1 DEF Answer
    <2> QED
      BY <1>1, <1>2, <1>4, <2>1, <2>4, <2>5, EndTxInv
  <1> QED
    BY <1>3, <1>4

\* An execution ends: fewer are active, and every snapshot covers them still.
LEMMA FinishInv ==
    ASSUME AdmissionInv, NEW i \in active, Finish(i)
    PROVE  AdmissionInv'
  <1> USE DEF Finish
  <1>1. TypeOK'
    BY DEF AdmissionInv, TypeOK, Ids, Seen
  <1>2. SnapshotCovers'
    BY DEF AdmissionInv, SnapshotCovers, Seen
  <1>3. \A r \in Request : answer[r].kind \in {"created", "replayed"} =>
            answer[r].id \in Ids /\ rows[answer[r].id] = RowOf(r)
    BY DEF AdmissionInv, AnswersExist, AnswersOwn
  <1> QED
    BY <1>1, <1>2, <1>3, QuietStep

\* What the unique index and the serialization check add to the snapshot: no
\* row carries the key of a request that is inserted, and of the employee's
\* active executions the snapshot has missed none.
LEMMA SnapshotSuffices ==
    ASSUME AdmissionInv, NEW r \in Request,
           Inserting(r), ~KeyTaken(r), ~CountedStale(r)
    PROVE  /\ \A i \in Ids : KeyOf[r] # NoKey => rows[i].key # KeyOf[r]
           /\ Cardinality(ActiveOf(EmployeeOf[r])) < Capacity[EmployeeOf[r]]
  <1>1. \A i \in Ids : ~SameKey(r, i)
    BY DEF Inserting, KeySeen, KeyTaken, Unseen
  <1>2. ActiveOf(EmployeeOf[r]) \subseteq LiveSeen(r)
    <2> SUFFICES ASSUME NEW i \in active, rows[i].emp = EmployeeOf[r]
                 PROVE  i \in call[r].live
      BY DEF ActiveOf, LiveSeen
    <2>1. i \in Seen(r)
      BY DEF CountedStale, Unseen, AdmissionInv, TypeOK
    <2>2. call[r].pc # "idle"
      BY DEF Inserting
    <2> QED
      BY <2>1, <2>2 DEF AdmissionInv, SnapshotCovers
  <1>3. IsFiniteSet(LiveSeen(r))
    <2>1. LiveSeen(r) \subseteq Seen(r)
      BY DEF LiveSeen, AdmissionInv, TypeOK
    <2>2. IsFiniteSet(Ids) /\ Seen(r) \subseteq Ids
      BY TableFacts DEF AdmissionInv, TypeOK, Call, Seen, Ids
    <2> QED
      BY <2>1, <2>2, FS_Subset
  <1>4. Cardinality(ActiveOf(EmployeeOf[r])) <= Cardinality(LiveSeen(r))
    BY <1>2, <1>3, FS_Subset
  <1>5. /\ Cardinality(LiveSeen(r)) \in Nat
        /\ Cardinality(ActiveOf(EmployeeOf[r])) \in Nat
    BY <1>2, <1>3, FS_Subset, FS_CardinalityType
  <1>6. Cardinality(LiveSeen(r)) < Capacity[EmployeeOf[r]]
    BY DEF Inserting, WithinCapacity
  <1>7. Capacity[EmployeeOf[r]] \in Nat
    BY AdmissionAssumption
  <1> QED
    BY <1>1, <1>4, <1>5, <1>6, <1>7 DEF SameKey

\* The row commits: one more, at the end of the table.
LEMMA CreateInv ==
    ASSUME AdmissionInv, NEW r \in Request, Create(r)
    PROVE  AdmissionInv'
  <1> DEFINE n == Len(rows) + 1
             w == [kind |-> "created", id |-> n]
  <1>1. /\ Inserting(r) /\ ~KeyTaken(r) /\ ~CountedStale(r)
        /\ rows' = Append(rows, RowOf(r)) /\ active' = active \cup {n}
        /\ call' = [call EXCEPT ![r] = Quiet] /\ answer' = [answer EXCEPT ![r] = w]
        /\ lock' = [lock EXCEPT ![EmployeeOf[r]] = NoRequest] /\ UNCHANGED tries
    BY DEF Create, EndTx
  <1>2. /\ \A i \in Ids : KeyOf[r] # NoKey => rows[i].key # KeyOf[r]
        /\ Cardinality(ActiveOf(EmployeeOf[r])) < Capacity[EmployeeOf[r]]
    BY <1>1, SnapshotSuffices
  <1>3. Len(rows) \in Nat /\ IsFiniteSet(active) /\ active \subseteq 1..Len(rows)
    BY TableFacts DEF AdmissionInv, TypeOK, Ids
  <1>4. /\ rows' \in Seq({RowOf(q) : q \in Request}) /\ Len(rows') = n
        /\ \A i \in 1..Len(rows) : rows'[i] = rows[i]
        /\ rows'[n] = RowOf(r)
    <2>1. rows \in Seq({RowOf(q) : q \in Request}) /\ RowOf(r) \in {RowOf(q) : q \in Request}
      BY DEF AdmissionInv, TypeOK
    <2> HIDE DEF RowOf
    <2> QED
      BY <1>1, <2>1, AppendProperties
  <1>5. Quiet \in Call /\ Quiet.pc = "idle" /\ Quiet.seen = 0 /\ Quiet.live = {}
    BY DEF Quiet, Call
  <1>6. w \in Answer /\ w.kind = "created" /\ w.id = n
    BY <1>3 DEF Answer
  <1>7. n = Len(rows) + 1 /\ n \in Nat /\ Ids' = Ids \cup {n} /\ n \notin Ids /\ Ids = 1..Len(rows)
    BY <1>3, <1>4 DEF Ids
  <1> HIDE DEF n, w
  <1>8. /\ call' \in [Request -> Call] /\ call'[r] = Quiet
        /\ \A q \in Request : q # r => call'[q] = call[q]
    BY <1>1, <1>5 DEF AdmissionInv, TypeOK
  <1>9. /\ answer' \in [Request -> Answer] /\ answer'[r] = w
        /\ \A q \in Request : q # r => answer'[q] = answer[q]
    BY <1>1, <1>6 DEF AdmissionInv, TypeOK
  <1>10. \A q \in Request : call'[q].seen <= n /\ call'[q].live \subseteq 1..call'[q].seen
    <2> SUFFICES ASSUME NEW q \in Request
                 PROVE  call'[q].seen <= n /\ call'[q].live \subseteq 1..call'[q].seen
      OBVIOUS
    <2>1. CASE q = r
      BY <2>1, <1>5, <1>7, <1>8
    <2>2. CASE q # r
      <3>1. call[q].seen <= Len(rows) /\ call[q].seen \in Nat /\ call[q].live \subseteq 1..call[q].seen
        BY DEF AdmissionInv, TypeOK, Seen, Call
      <3> QED
        BY <2>2, <3>1, <1>3, <1>7, <1>8
    <2> QED
      BY <2>1, <2>2
  <1>11. TypeOK'
    <2>1. lock' \in [Employee -> Request \cup {NoRequest}] /\ tries' \in [Request -> 0..MaxTries]
      BY <1>1 DEF AdmissionInv, TypeOK
    <2>2. active' \subseteq Ids'
      BY <1>1, <1>3, <1>7
    <2> QED
      BY <1>4, <1>8, <1>9, <1>10, <2>1, <2>2 DEF TypeOK, Seen
  <1>12. SnapshotCovers'
    <2> SUFFICES ASSUME NEW q \in Request, call'[q].pc # "idle",
                        NEW i \in active', i \in 1..call'[q].seen
                 PROVE  i \in call'[q].live
      BY DEF SnapshotCovers, Seen
    <2>1. q # r /\ call'[q] = call[q]
      BY <1>5, <1>8
    <2>2. call[q].seen <= Len(rows) /\ call[q].seen \in Nat
      BY DEF AdmissionInv, TypeOK, Call
    <2>3. i \in active
      BY <1>1, <1>3, <1>7, <2>1, <2>2
    <2> QED
      BY <2>1, <2>3 DEF AdmissionInv, SnapshotCovers, Seen
  <1>13. AnswersExist' /\ AnswersOwn'
    <2> SUFFICES ASSUME NEW q \in Request, answer'[q].kind \in {"created", "replayed"}
                 PROVE  answer'[q].id \in Ids' /\ rows'[answer'[q].id] = RowOf(q)
      BY DEF AnswersExist, AnswersOwn, RowOf
    <2>1. CASE q = r
      BY <2>1, <1>4, <1>6, <1>7, <1>9
    <2>2. CASE q # r
      BY <2>2, <1>4, <1>7, <1>9 DEF AdmissionInv, AnswersExist, AnswersOwn
    <2> QED
      BY <2>1, <2>2
  <1>14. RowOf(r).key = KeyOf[r] /\ RowOf(r).emp = EmployeeOf[r]
    BY DEF RowOf
  <1>15. KeyUnique'
    <2> SUFFICES ASSUME NEW i \in Ids', NEW j \in Ids',
                        rows'[i].key # NoKey, rows'[i].key = rows'[j].key
                 PROVE  i = j
      BY DEF KeyUnique
    <2>1. CASE i \in Ids /\ j \in Ids
      BY <2>1, <1>4, <1>7 DEF AdmissionInv, KeyUnique
    <2>2. CASE i = n /\ j \in Ids
      BY <2>2, <1>2, <1>4, <1>7, <1>14
    <2>3. CASE i \in Ids /\ j = n
      BY <2>3, <1>2, <1>4, <1>7, <1>14
    <2> QED
      BY <1>7, <2>1, <2>2, <2>3
  <1>16. CapacityHeld'
    <2> SUFFICES ASSUME NEW b \in Employee
                 PROVE  Cardinality({i \in active' : rows'[i].emp = b}) <= Capacity[b]
      BY DEF CapacityHeld
    <2>1. IsFiniteSet(ActiveOf(b)) /\ n \notin ActiveOf(b)
      <3>1. ActiveOf(b) \subseteq active
        BY DEF ActiveOf
      <3> QED
        BY <3>1, <1>3, <1>7, FS_Subset
    <2>2. Cardinality(ActiveOf(b)) <= Capacity[b]
      BY DEF AdmissionInv, CapacityHeld, ActiveOf
    <2>3. CASE b = EmployeeOf[r]
      <3>1. {i \in active' : rows'[i].emp = b} = ActiveOf(b) \cup {n}
        BY <2>3, <1>1, <1>3, <1>4, <1>14 DEF ActiveOf
      <3>2. Cardinality(ActiveOf(b) \cup {n}) = Cardinality(ActiveOf(b)) + 1
        BY <2>1, FS_AddElement
      <3>3. Cardinality(ActiveOf(b)) \in Nat /\ Capacity[b] \in Nat
        BY <2>1, FS_CardinalityType, AdmissionAssumption
      <3>4. Cardinality(ActiveOf(b)) < Capacity[b]
        BY <2>3, <1>2
      <3>5. Cardinality(ActiveOf(b)) + 1 <= Capacity[b]
        BY <3>3, <3>4
      <3> QED
        BY <3>1, <3>2, <3>5, Zenon
    <2>4. CASE b # EmployeeOf[r]
      <3>1. {i \in active' : rows'[i].emp = b} = ActiveOf(b)
        BY <2>4, <1>1, <1>3, <1>4, <1>14 DEF ActiveOf
      <3> QED
        BY <3>1, <2>2
    <2> QED
      BY <2>3, <2>4
  <1> QED
    BY <1>11, <1>12, <1>13, <1>15, <1>16 DEF AdmissionInv

\* Every step keeps the invariant.
LEMMA InvStep == AdmissionInv /\ [Next]_vars => AdmissionInv'
  <1> SUFFICES ASSUME AdmissionInv, [Next]_vars PROVE AdmissionInv'
    OBVIOUS
  <1>1. ASSUME NEW r \in Request, RefuseCapacity(r) PROVE AdmissionInv'
    BY <1>1, RefusalInv DEF RefuseCapacity, Refusals
  <1>2. ASSUME NEW r \in Request, RefuseDuplicate(r) PROVE AdmissionInv'
    BY <1>2, RefusalInv DEF RefuseDuplicate, Refusals
  <1>3. ASSUME NEW r \in Request, SerializationFails(r) PROVE AdmissionInv'
    BY <1>3, RefusalInv DEF SerializationFails, Refusals
  <1>4. ASSUME NEW r \in Request, RejectContext(r) PROVE AdmissionInv'
    BY <1>4, RefusalInv DEF RejectContext, Refusals
  <1>5. CASE UNCHANGED vars
    <2>1. TypeOK' /\ SnapshotCovers'
      BY <1>5 DEF vars, AdmissionInv, TypeOK, SnapshotCovers, Ids, Seen
    <2> QED
      BY <1>5, <2>1, QuietStep DEF vars, AdmissionInv, AnswersExist, AnswersOwn
  <1> QED
    BY <1>1, <1>2, <1>3, <1>4, <1>5, BeginInv, LockInv, ResolveInv, CreateInv,
       DropInv, FinishInv DEF Next

-----------------------------------------------------------------------------
(* The theorems.                                                           *)

\* The invariant, on which the others rest.
THEOREM AdmissionInvariant == Spec => []AdmissionInv
  BY InitInv, InvStep, PTL DEF Spec

\* At most one execution carries a key, however many callers send it to however
\* many employees (the unique index of ai_executions under stale snapshots).
THEOREM KeysAreUnique == Spec => []KeyUnique
  <1>1. AdmissionInv => KeyUnique
    BY DEF AdmissionInv
  <1> QED
    BY <1>1, AdmissionInvariant, PTL

\* No employee exceeds max_concurrent_executions, although every transaction of
\* AdmissionAdmit counts in a snapshot older than its lock.
THEOREM CapacityIsHeld == Spec => []CapacityHeld
  <1>1. AdmissionInv => CapacityHeld
    BY DEF AdmissionInv
  <1> QED
    BY <1>1, AdmissionInvariant, PTL

\* A caller that is told of an execution is told of its own (Service.Admit).
THEOREM AnswersAreOwn == Spec => []AnswersOwn
  <1>1. AdmissionInv => AnswersOwn
    BY DEF AdmissionInv
  <1> QED
    BY <1>1, AdmissionInvariant, PTL
=============================================================================
