-------------------------- MODULE AuditChainProofs --------------------------
(***************************************************************************)
(* Proofs about AuditChain, for any number of processes, operations and    *)
(* faults and any page size: the persisted chain verifies, an edited one   *)
(* does not, a reported success is recorded once and the readers' cursors  *)
(* neither skip nor repeat an event.                                       *)
(***************************************************************************)
EXTENDS AuditChain, Sequences, TLAPS, FiniteSetTheorems, WellFoundedInduction

-----------------------------------------------------------------------------
(* Sets of rows in the order of their sequence numbers.                    *)

Rank(E, row) == Cardinality({r \in E : r.seq <= row.seq})

\* Row i of the order exists for every i: what a finite set promises, kept as
\* part of the invariant because each insert extends the order at its end.
Ordered(E) ==
    /\ IsFiniteSet(E) /\ \A r \in E : r.seq \in Nat
    /\ \A r, s \in E : r.seq = s.seq => r = s
    /\ \A i \in 1..Cardinality(E) : \E r \in E : Rank(E, r) = i

\* Ranks are positions, and tell rows apart.
LEMMA RankFacts ==
    ASSUME NEW E, Ordered(E)
    PROVE  /\ Cardinality(E) \in Nat
           /\ \A r \in E : Rank(E, r) \in 1..Cardinality(E)
           /\ \A r, s \in E : r.seq < s.seq => Rank(E, r) < Rank(E, s)
           /\ \A r, s \in E : Rank(E, r) = Rank(E, s) => r = s
  <1> DEFINE Upto(row) == {r \in E : r.seq <= row.seq}
  <1>1. IsFiniteSet(E) /\ Cardinality(E) \in Nat
    BY FS_CardinalityType DEF Ordered
  <1>2. ASSUME NEW r \in E
        PROVE  IsFiniteSet(Upto(r)) /\ Cardinality(Upto(r)) \in 1..Cardinality(E)
    <2>1. Upto(r) \in SUBSET E /\ Upto(r) # {}
      BY DEF Ordered
    <2> HIDE DEF Upto
    <2>2. IsFiniteSet(Upto(r)) /\ Cardinality(Upto(r)) <= Cardinality(E)
      BY <1>1, <2>1, FS_Subset
    <2>3. Cardinality(Upto(r)) \in Nat /\ Cardinality(Upto(r)) # 0
      BY <2>1, <2>2, FS_CardinalityType, FS_EmptySet
    <2> QED
      BY <1>1, <2>2, <2>3
  <1>3. ASSUME NEW r \in E, NEW s \in E, r.seq < s.seq
        PROVE  Rank(E, r) < Rank(E, s)
    <2>1. r.seq \in Nat /\ s.seq \in Nat /\ \A x \in E : x.seq \in Nat
      BY DEF Ordered
    <2>2. Upto(r) \in SUBSET Upto(s) /\ s \in Upto(s) /\ s \notin Upto(r)
      BY <1>3, <2>1
    <2> HIDE DEF Upto
    <2>3. /\ Cardinality(Upto(r)) <= Cardinality(Upto(s))
          /\ Cardinality(Upto(s)) = Cardinality(Upto(r)) => Upto(s) = Upto(r)
      BY <1>2, <2>2, FS_Subset
    <2>4. Cardinality(Upto(r)) \in Nat /\ Cardinality(Upto(s)) \in Nat
      BY <1>2
    <2>5. Cardinality(Upto(r)) < Cardinality(Upto(s))
      BY <2>2, <2>3, <2>4
    <2> QED
      BY <2>5 DEF Rank, Upto
  <1>4. \A r \in E : Rank(E, r) \in 1..Cardinality(E)
    BY <1>2 DEF Rank
  <1>5. ASSUME NEW r \in E, NEW s \in E, Rank(E, r) = Rank(E, s)
        PROVE  r = s
    <2>1. r.seq \in Nat /\ s.seq \in Nat /\ (r.seq = s.seq => r = s)
      BY DEF Ordered
    <2>2. Rank(E, r) \in Nat /\ Rank(E, s) \in Nat
      BY <1>1, <1>4
    <2>3. ~(r.seq < s.seq) /\ ~(s.seq < r.seq)
      BY <1>3, <1>5, <2>2
    <2> QED
      BY <2>1, <2>3
  <1> QED
    BY <1>1, <1>3, <1>4, <1>5

\* A row with the highest number goes to the end and moves nothing.
LEMMA Grown ==
    ASSUME NEW E, Ordered(E), NEW x, x.seq \in Nat, \A r \in E : r.seq < x.seq
    PROVE  /\ Ordered(E \cup {x})
           /\ Cardinality(E \cup {x}) = Cardinality(E) + 1
           /\ \A r \in E : Rank(E \cup {x}, r) = Rank(E, r)
           /\ Rank(E \cup {x}, x) = Cardinality(E) + 1
  <1> DEFINE F == E \cup {x}
             n == Cardinality(E)
  <1>1. IsFiniteSet(E) /\ n \in Nat /\ x \notin E /\ \A r \in E : r.seq \in Nat
    BY FS_CardinalityType DEF Ordered
  <1>2. IsFiniteSet(F) /\ Cardinality(F) = n + 1
    BY <1>1, FS_AddElement
  <1>3. ASSUME NEW r \in E PROVE Rank(F, r) = Rank(E, r)
    <2>1. {s \in F : s.seq <= r.seq} = {s \in E : s.seq <= r.seq}
      BY <1>1
    <2> QED
      BY <2>1 DEF Rank
  <1>4. Rank(F, x) = n + 1
    <2>1. {s \in F : s.seq <= x.seq} = F
      BY <1>1
    <2> QED
      BY <1>2, <2>1 DEF Rank
  <1>5. \A i \in 1..(n + 1) : \E r \in F : Rank(F, r) = i
    <2> SUFFICES ASSUME NEW i \in 1..(n + 1) PROVE \E r \in F : Rank(F, r) = i
      OBVIOUS
    <2>1. CASE i = n + 1
      BY <1>4, <2>1
    <2>2. CASE i # n + 1
      <3>1. i \in 1..n
        BY <1>1, <2>2
      <3>2. PICK r \in E : Rank(E, r) = i
        BY <3>1 DEF Ordered
      <3> QED
        BY <1>3, <3>2
    <2> QED
      BY <2>1, <2>2
  <1>6. \A r, s \in F : r.seq = s.seq => r = s
    BY <1>1 DEF Ordered
  <1>7. Ordered(F)
    BY <1>1, <1>2, <1>5, <1>6 DEF Ordered
  <1> QED
    BY <1>2, <1>3, <1>4, <1>7

NthOf(E, i) == CHOOSE row \in E : Rank(E, row) = i
ChainOf(E) == [i \in 1..Cardinality(E) |-> ScanRow(NthOf(E, i))]

\* The row of a rank.
LEMMA NthFacts ==
    ASSUME NEW E, Ordered(E)
    PROVE  /\ \A i \in 1..Cardinality(E) : NthOf(E, i) \in E /\ Rank(E, NthOf(E, i)) = i
           /\ \A r \in E : NthOf(E, Rank(E, r)) = r
  <1>1. \A i \in 1..Cardinality(E) : NthOf(E, i) \in E /\ Rank(E, NthOf(E, i)) = i
    BY DEF Ordered, NthOf
  <1> QED
    BY <1>1, RankFacts

\* The chain grows at its end.
LEMMA ChainGrown ==
    ASSUME NEW E, Ordered(E), NEW x, x.seq \in Nat, \A r \in E : r.seq < x.seq
    PROVE  LET n == Cardinality(E)
               C == ChainOf(E \cup {x})
           IN  /\ DOMAIN C = 1..(n + 1) /\ C[n + 1] = x.ev
               /\ \A i \in 1..n : C[i] = ChainOf(E)[i]
  <1> DEFINE F == E \cup {x}
             n == Cardinality(E)
  <1>1. /\ Ordered(F) /\ Cardinality(F) = n + 1 /\ n \in Nat
        /\ \A r \in E : Rank(F, r) = Rank(E, r)
        /\ Rank(F, x) = n + 1
    <2>1. n \in Nat
      BY RankFacts
    <2>2. Ordered(F) /\ Cardinality(F) = n + 1
      BY Grown
    <2>3. (\A r \in E : Rank(F, r) = Rank(E, r)) /\ Rank(F, x) = n + 1
      BY Grown
    <2> QED
      BY <2>1, <2>2, <2>3
  <1>2. x \in F /\ E \subseteq F
    OBVIOUS
  <1> HIDE DEF F
  <1>3. NthOf(F, n + 1) = x
    BY <1>1, <1>2, NthFacts
  <1>4. ASSUME NEW i \in 1..n PROVE NthOf(F, i) = NthOf(E, i)
    <2>1. NthOf(E, i) \in E /\ Rank(E, NthOf(E, i)) = i
      BY NthFacts
    <2> QED
      BY <1>1, <1>2, <2>1, NthFacts
  <1>5. \A i \in 1..n : i \in 1..(n + 1)
    BY <1>1
  <1>6. n + 1 \in 1..(n + 1)
    BY <1>1
  <1> HIDE DEF n
  <1>7. /\ DOMAIN ChainOf(F) = 1..(n + 1) /\ ChainOf(F)[n + 1] = x.ev
        /\ \A i \in 1..n : ChainOf(F)[i] = NthOf(E, i).ev
    BY <1>1, <1>3, <1>4, <1>5, <1>6 DEF ChainOf, ScanRow
  <1>8. \A i \in 1..n : ChainOf(E)[i] = NthOf(E, i).ev
    BY DEF ChainOf, ScanRow, n
  <1> QED
    BY <1>7, <1>8 DEF F, n

\* The row with the highest number is the last one, and there is one.
LEMMA LastFacts ==
    ASSUME NEW E, Ordered(E), E # {}
    PROVE  LET h == CHOOSE row \in E : \A r \in E : r.seq <= row.seq
           IN  /\ h \in E /\ \A r \in E : r.seq <= h.seq
               /\ Cardinality(E) \in Nat \ {0}
               /\ ChainOf(E)[Cardinality(E)] = h.ev
  <1> DEFINE n == Cardinality(E)
             z == NthOf(E, n)
             h == CHOOSE row \in E : \A r \in E : r.seq <= row.seq
  <1>1. n \in Nat /\ n # 0
    BY RankFacts, FS_EmptySet DEF Ordered
  <1>2. n \in 1..n
    BY <1>1
  <1>3. z \in E /\ Rank(E, z) = n
    BY <1>2, NthFacts
  <1>4. ASSUME NEW r \in E PROVE r.seq <= z.seq
    <2>1. Rank(E, r) \in 1..n
      BY RankFacts
    <2>2. ~(n < Rank(E, r))
      BY <1>1, <2>1
    <2>3. ~(z.seq < r.seq)
      BY <1>3, <2>2, RankFacts
    <2>4. r.seq \in Nat /\ z.seq \in Nat
      BY <1>3 DEF Ordered
    <2> QED
      BY <2>3, <2>4
  <1>5. h \in E /\ \A r \in E : r.seq <= h.seq
    BY <1>3, <1>4
  <1>6. h = z
    <2> HIDE DEF h, z
    <2>1. h.seq \in Nat /\ z.seq \in Nat /\ h.seq <= z.seq /\ z.seq <= h.seq
      BY <1>3, <1>4, <1>5 DEF Ordered
    <2>2. h.seq = z.seq
      BY <2>1
    <2> QED
      BY <1>3, <1>5, <2>2 DEF Ordered
  <1>7. ChainOf(E)[n] = z.ev
    BY <1>2 DEF ChainOf, ScanRow
  <1> QED
    BY <1>1, <1>5, <1>6, <1>7

-----------------------------------------------------------------------------
(* The inductive invariant: the table, the lock and the appends.           *)

Pcs == {"idle", "begun", "locked", "inserted", "reply", "failed"}
EventFields == {"id", "timestamp", "genesis", "of", "outcome", "parent", "hash", "sig"}

RowSound(row) ==
    /\ row.seq \in Nat /\ row.seq > 0 /\ row.ev.id = row.seq
    /\ DOMAIN row.ev = EventFields
    /\ row.ev.outcome \in Outcomes \cup {"genesis"}
    /\ row.ev.of \in Operation \cup {NoOne}
    /\ row.column = Truncate(row.ev.timestamp)
    /\ row.ev.sig = signHash(row.ev.hash)

TableSound ==
    /\ Ordered(events) /\ nextSeq \in Nat /\ nextSeq > 0
    /\ \A row \in events : RowSound(row) /\ row.seq < nextSeq

\* Exactly the append that holds the lock is between its two statements.
LockSound ==
    /\ DOMAIN call = Operation /\ lock \in Operation \cup {NoOne}
    /\ \A o \in Operation :
        /\ DOMAIN call[o] = {"pc", "prev", "row"} /\ call[o].pc \in Pcs
        /\ lock = o <=> call[o].pc \in {"locked", "inserted"}

\* The row that is linked to the head, and comes after it.
Linked(o, prev, row) ==
    /\ RowSound(row) /\ row.ev.of = o /\ ~row.ev.genesis
    /\ row.ev.hash = ChainPreimage(prev, row.ev)
    /\ row.seq < nextSeq /\ \A r \in events : r.seq < row.seq

\* While an append holds the lock the head is the one it has read.
CallSound(o) ==
    /\ call[o].pc \in {"locked", "inserted"} => call[o].prev = LoadHead
    /\ call[o].pc = "inserted" =>
        events # {} /\ Linked(o, call[o].prev, call[o].row)

AuditInv == TableSound /\ LockSound /\ \A o \in Operation : CallSound(o)

-----------------------------------------------------------------------------
\* The genesis that InsertGenesis and GenesisFails write.
LEMMA GenesisRow ==
    ASSUME NEW seq \in Nat, seq > 0, NEW now
    PROVE  LET row == RowOf(GenesisEvent(seq, now), seq, NoWorkspace)
           IN  /\ RowSound(row) /\ row.seq = seq /\ row.ev = GenesisEvent(seq, now)
               /\ row.ev.of = NoOne /\ row.ev.genesis
               /\ row.ev.hash = GenesisPreimage(row.ev)
  BY DEF RowOf, GenesisEvent, Signed, RowSound, EventFields, GenesisPreimage

\* The row that Insert writes.
LEMMA AppendRow ==
    ASSUME NEW o \in Operation, NEW seq \in Nat, seq > 0, NEW now, NEW prev
    PROVE  LET row == RowOf(AppendEvent(prev, seq, now, o), seq, WorkspaceOf[o])
           IN  /\ RowSound(row) /\ row.seq = seq
               /\ row.ev.of = o /\ ~row.ev.genesis
               /\ row.ev.hash = ChainPreimage(prev, row.ev)
  BY AuditAssumption
     DEF RowOf, AppendEvent, Signed, RowSound, EventFields, ChainPreimage, Outcomes

\* The table after a row.
LEMMA TableAdds ==
    ASSUME TableSound, NEW x, RowSound(x), \A r \in events : r.seq < x.seq,
           events' = events \cup {x}, nextSeq' \in Nat, nextSeq' >= nextSeq,
           x.seq < nextSeq'
    PROVE  TableSound'
  <1>1. Ordered(events)'
    BY Grown DEF TableSound, RowSound
  <1>2. \A row \in events' : RowSound(row) /\ row.seq < nextSeq'
    BY DEF TableSound, RowSound
  <1>3. \A row \in events' : RowSound(row)' /\ row.seq < nextSeq'
    BY <1>2 DEF RowSound
  <1> QED
    BY <1>1, <1>3 DEF TableSound

\* The table and the appends of others, as long as no row is added.
LEMMA NothingAdded ==
    ASSUME AuditInv, UNCHANGED events, nextSeq' \in {nextSeq, nextSeq + 1}
    PROVE  /\ TableSound' /\ LoadHead' = LoadHead
           /\ \A q \in Operation : call'[q] = call[q] => CallSound(q)'
  <1>1. nextSeq \in Nat /\ nextSeq' \in Nat /\ nextSeq' >= nextSeq
    BY DEF AuditInv, TableSound
  <1>2. LoadHead' = LoadHead
    BY DEF LoadHead
  <1>3. TableSound'
    BY <1>1 DEF AuditInv, TableSound, RowSound
  <1>4. ASSUME NEW q \in Operation, call'[q] = call[q] PROVE CallSound(q)'
    <2>1. CallSound(q)
      BY DEF AuditInv
    <2>2. \A prev, row : Linked(q, prev, row) => Linked(q, prev, row)'
      BY <1>1 DEF Linked, RowSound
    <2> QED
      BY <1>2, <1>4, <2>1, <2>2 DEF CallSound
  <1> QED
    BY <1>2, <1>3, <1>4

\* An append that is not in its transaction needs nothing of the table.
LEMMA Outside ==
    ASSUME NEW q \in Operation, call'[q].pc \notin {"locked", "inserted"}
    PROVE  CallSound(q)'
  BY DEF CallSound

\* At the start the table is empty and nobody appends.
LEMMA AuditInit == Init => AuditInv
  <1> SUFFICES ASSUME Init PROVE AuditInv
    OBVIOUS
  <1>1. Ordered(events)
    <2>1. events = {} /\ IsFiniteSet({}) /\ Cardinality({}) = 0
      BY FS_EmptySet DEF Init
    <2> QED
      BY <2>1 DEF Ordered
  <1>2. TableSound
    BY <1>1 DEF Init, TableSound
  <1>3. LockSound
    BY AuditAssumption DEF Init, LockSound, Quiet, Pcs
  <1>4. \A o \in Operation : CallSound(o)
    BY DEF Init, CallSound, Quiet
  <1> QED
    BY <1>2, <1>3, <1>4 DEF AuditInv

\* Start, Reply, and the steps of a client change nothing an append relies on.
LEMMA StoreStarts ==
    ASSUME AuditInv, UNCHANGED <<events, nextSeq, lock, call>>
    PROVE  AuditInv'
  <1>1. LockSound'
    BY DEF AuditInv, LockSound
  <1> QED
    BY <1>1, NothingAdded DEF AuditInv

\* A step that leaves one append outside its transaction, adding nothing.
LEMMA StepOutside ==
    ASSUME AuditInv, NEW o \in Operation, NEW k, DOMAIN k = {"pc", "prev", "row"},
           k.pc \in Pcs \ {"locked", "inserted"},
           call' = [call EXCEPT ![o] = k], lock' = (IF lock = o THEN NoOne ELSE lock),
           UNCHANGED <<events, nextSeq>>
    PROVE  AuditInv'
  <1>1. call'[o] = k /\ \A q \in Operation \ {o} : call'[q] = call[q]
    BY DEF AuditInv, LockSound
  <1>2. LockSound'
    BY <1>1, AuditAssumption DEF AuditInv, LockSound
  <1>3. \A q \in Operation : CallSound(q)'
    BY <1>1, NothingAdded, Outside
  <1> QED
    BY <1>2, <1>3, NothingAdded DEF AuditInv

\* Begin and RefuseRecord.
LEMMA BeginInv ==
    ASSUME AuditInv, NEW o \in Operation, Begin(o) \/ RefuseRecord(o)
    PROVE  AuditInv'
  <1>1. /\ DOMAIN call = Operation /\ DOMAIN call[o] = {"pc", "prev", "row"}
        /\ call[o].pc = "idle" /\ lock # o /\ UNCHANGED <<events, nextSeq, lock>>
    BY DEF AuditInv, LockSound, Begin, RefuseRecord
  <1>2. PICK pc \in {"begun", "failed"} : call' = [call EXCEPT ![o].pc = pc]
    BY DEF Begin, RefuseRecord
  <1> DEFINE k == [call[o] EXCEPT !.pc = pc]
  <1>3. DOMAIN k = {"pc", "prev", "row"} /\ k.pc = pc /\ call' = [call EXCEPT ![o] = k]
    BY <1>1, <1>2
  <1> HIDE DEF k
  <1> QED
    BY <1>1, <1>3, StepOutside DEF Pcs

\* AppendFails and Reply.
LEMMA RollBackInv ==
    ASSUME AuditInv, NEW o \in Operation, AppendFails(o) \/ Reply(o)
    PROVE  AuditInv'
  <1>1. PICK pc \in {"idle", "failed"} : call' = [call EXCEPT ![o] = [Quiet EXCEPT !.pc = pc]]
    <2>1. Quiet = [Quiet EXCEPT !.pc = "idle"]
      BY DEF Quiet
    <2> QED
      BY <2>1 DEF AppendFails, Reply
  <1>2. lock' = (IF lock = o THEN NoOne ELSE lock) /\ UNCHANGED <<events, nextSeq>>
    BY DEF AuditInv, LockSound, AppendFails, Reply, Released
  <1> DEFINE k == [Quiet EXCEPT !.pc = pc]
  <1>3. DOMAIN k = {"pc", "prev", "row"} /\ k.pc = pc
    BY DEF Quiet
  <1> HIDE DEF k
  <1> QED
    BY <1>1, <1>2, <1>3, StepOutside DEF Pcs, k

\* Acquire: the head is read under the lock.
LEMMA AcquireInv ==
    ASSUME AuditInv, NEW o \in Operation, Acquire(o)
    PROVE  AuditInv'
  <1>1. /\ DOMAIN call = Operation /\ DOMAIN call[o] = {"pc", "prev", "row"}
        /\ UNCHANGED <<events, nextSeq>> /\ lock = NoOne /\ lock' = o
    BY DEF AuditInv, LockSound, Acquire
  <1>2. /\ call'[o].pc = "locked" /\ call'[o].prev = LoadHead
        /\ DOMAIN call' = Operation /\ DOMAIN call'[o] = {"pc", "prev", "row"}
        /\ \A q \in Operation \ {o} : call'[q] = call[q]
    BY <1>1 DEF Acquire
  <1>3. LockSound'
    BY <1>1, <1>2, AuditAssumption DEF AuditInv, LockSound, Pcs
  <1>4. CallSound(o)'
    BY <1>1, <1>2, NothingAdded DEF CallSound
  <1>5. \A q \in Operation : CallSound(q)'
    BY <1>1, <1>2, <1>4, NothingAdded
  <1> QED
    BY <1>1, <1>3, <1>5, NothingAdded DEF AuditInv

\* Insert: the row follows the head, which nobody can have moved.
LEMMA InsertInv ==
    ASSUME AuditInv, NEW o \in Operation, Insert(o)
    PROVE  AuditInv'
  <1>1. PICK now \in Clock :
            call' = [call EXCEPT
                ![o].pc = "inserted",
                ![o].row = RowOf(AppendEvent(call[o].prev, nextSeq, now, o),
                                 nextSeq, WorkspaceOf[o])]
    BY DEF Insert
  <1> DEFINE row == RowOf(AppendEvent(call[o].prev, nextSeq, now, o),
                          nextSeq, WorkspaceOf[o])
  <1>2. /\ DOMAIN call = Operation /\ DOMAIN call[o] = {"pc", "prev", "row"}
        /\ UNCHANGED <<events, lock>> /\ nextSeq \in Nat /\ nextSeq > 0
        /\ nextSeq' = nextSeq + 1 /\ call[o].pc = "locked" /\ lock = o
        /\ call[o].prev = LoadHead /\ call[o].prev # NoHead
        /\ \A r \in events : r.seq < nextSeq
    BY DEF AuditInv, TableSound, LockSound, CallSound, Insert
  <1>3. /\ RowSound(row) /\ row.seq = nextSeq /\ row.ev.of = o /\ ~row.ev.genesis
        /\ row.ev.hash = ChainPreimage(call[o].prev, row.ev)
    BY <1>2, AppendRow
  <1> HIDE DEF row
  <1>4. /\ call'[o].pc = "inserted" /\ call'[o].prev = call[o].prev /\ call'[o].row = row
        /\ DOMAIN call' = Operation /\ DOMAIN call'[o] = {"pc", "prev", "row"}
        /\ \A q \in Operation \ {o} : call'[q] = call[q]
    BY <1>1, <1>2 DEF row
  <1>5. LockSound'
    BY <1>2, <1>4 DEF AuditInv, LockSound, Pcs
  <1>6. CallSound(o)'
    <2>1. LoadHead' = LoadHead /\ events' # {}
      BY <1>2, NothingAdded DEF LoadHead
    <2>2. \A r \in events' : r.seq < row.seq
      BY <1>2, <1>3
    <2>3. call'[o].prev = LoadHead'
      BY <1>2, <1>4, <2>1
    <2>4. /\ RowSound(call'[o].row) /\ call'[o].row.ev.of = o /\ ~call'[o].row.ev.genesis
          /\ call'[o].row.ev.hash = ChainPreimage(call'[o].prev, call'[o].row.ev)
          /\ call'[o].row.seq < nextSeq' /\ \A r \in events' : r.seq < call'[o].row.seq
      BY <1>2, <1>3, <1>4, <2>2
    <2> QED
      BY <2>1, <2>3, <2>4 DEF CallSound, Linked, RowSound
  <1>7. \A q \in Operation : CallSound(q)'
    BY <1>2, <1>4, <1>6, NothingAdded
  <1> QED
    BY <1>2, <1>5, <1>7, NothingAdded DEF AuditInv

\* The table grows by a row that comes after all others.
Grows(x) ==
    /\ events' = events \cup {x} /\ RowSound(x)
    /\ \A r \in events : r.seq < x.seq
    /\ nextSeq' \in {nextSeq, nextSeq + 1} /\ x.seq < nextSeq'

\* Commit and CommitLost: the row is the one that was linked to the head.
LEMMA CommitInv ==
    ASSUME AuditInv, NEW o \in Operation, Commit(o) \/ CommitLost(o)
    PROVE  /\ AuditInv'
           /\ Grows(call[o].row)
           /\ \E pc \in {"reply", "failed"} : /\ call' = [call EXCEPT ![o] = [Quiet EXCEPT !.pc = pc]]
                                              /\ pc = "reply" => Commit(o)
  <1> DEFINE x == call[o].row
  <1>1. PICK pc \in {"reply", "failed"} : /\ call' = [call EXCEPT ![o] = [Quiet EXCEPT !.pc = pc]]
                                          /\ pc = "reply" => Commit(o)
    BY DEF Commit, CommitLost
  <1>2. /\ DOMAIN call = Operation /\ call[o].pc = "inserted" /\ lock = o
        /\ nextSeq \in Nat /\ events' = events \cup {x} /\ lock' = NoOne
        /\ UNCHANGED nextSeq
    BY DEF AuditInv, TableSound, LockSound, Commit, CommitLost, Released
  <1>3. RowSound(x) /\ x.seq < nextSeq /\ \A r \in events : r.seq < x.seq
    BY <1>2 DEF AuditInv, CallSound, Linked
  <1> HIDE DEF x
  <1>4. TableSound'
    BY <1>2, <1>3, TableAdds DEF AuditInv
  <1>5. /\ DOMAIN call' = Operation /\ call'[o].pc = pc
        /\ DOMAIN call'[o] = {"pc", "prev", "row"}
        /\ \A q \in Operation \ {o} : call'[q] = call[q]
    BY <1>1, <1>2 DEF Quiet
  <1>6. LockSound'
    BY <1>2, <1>5, AuditAssumption DEF AuditInv, LockSound, Pcs
  <1>7. \A q \in Operation : call'[q].pc \notin {"locked", "inserted"}
    BY <1>2, <1>5 DEF AuditInv, LockSound
  <1>8. \A q \in Operation : CallSound(q)'
    BY <1>7, Outside
  <1>9. Grows(x)
    BY <1>2, <1>3 DEF Grows
  <1> QED
    BY <1>1, <1>4, <1>6, <1>8, <1>9 DEF AuditInv, x

\* InsertGenesis and GenesisFails: without the lock nobody is in between.
LEMMA GenesisInv ==
    ASSUME AuditInv, NEW p \in Process, InsertGenesis(p) \/ GenesisFails(p)
    PROVE  /\ AuditInv' /\ UNCHANGED call
           /\ \/ UNCHANGED events
              \/ \E now \in Clock : Grows(RowOf(GenesisEvent(nextSeq, now), nextSeq, NoWorkspace))
  <1>1. /\ lock = NoOne /\ UNCHANGED <<lock, call>> /\ nextSeq' = nextSeq + 1
        /\ nextSeq \in Nat /\ nextSeq > 0 /\ \A r \in events : r.seq < nextSeq
    BY DEF AuditInv, TableSound, InsertGenesis, GenesisFails
  <1>2. LockSound'
    BY <1>1 DEF AuditInv, LockSound
  <1>3. \A q \in Operation : CallSound(q)'
    <2>1. \A q \in Operation : call'[q].pc \notin {"locked", "inserted"}
      BY <1>1, AuditAssumption DEF AuditInv, LockSound
    <2> QED
      BY <2>1, Outside
  <1>4. CASE UNCHANGED events
    BY <1>1, <1>2, <1>3, <1>4, NothingAdded DEF AuditInv
  <1>5. CASE \E now \in Clock :
                events' = events \cup {RowOf(GenesisEvent(nextSeq, now), nextSeq, NoWorkspace)}
    <2>1. PICK now \in Clock :
            events' = events \cup {RowOf(GenesisEvent(nextSeq, now), nextSeq, NoWorkspace)}
      BY <1>5
    <2> DEFINE x == RowOf(GenesisEvent(nextSeq, now), nextSeq, NoWorkspace)
    <2>2. RowSound(x) /\ x.seq = nextSeq
      BY <1>1, GenesisRow
    <2> HIDE DEF x
    <2>3. events' = events \cup {x} /\ (\A r \in events : r.seq < x.seq) /\ x.seq < nextSeq'
      BY <1>1, <2>1, <2>2 DEF x
    <2>4. TableSound'
      BY <1>1, <2>2, <2>3, TableAdds DEF AuditInv
    <2>5. Grows(x)
      BY <1>1, <2>2, <2>3 DEF Grows
    <2> QED
      BY <1>1, <1>2, <1>3, <2>4, <2>5 DEF AuditInv, x
  <1> QED
    BY <1>4, <1>5 DEF InsertGenesis, GenesisFails

\* Crash: whatever the process had not committed is gone, and so is its lock.
LEMMA CrashInv ==
    ASSUME AuditInv, NEW p \in Process, Crash(p)
    PROVE  AuditInv'
  <1> DEFINE mine == {o \in Operation : ProcessOf[o] = p /\ call[o].pc # "idle"}
  <1>1. /\ UNCHANGED <<events, nextSeq>> /\ lock' = (IF lock \in mine THEN NoOne ELSE lock)
        /\ call' = [o \in Operation |-> IF o \in mine THEN Quiet ELSE call[o]]
    BY DEF Crash
  <1>2. \A o \in Operation : call'[o] = IF o \in mine THEN Quiet ELSE call[o]
    BY <1>1
  <1> HIDE DEF mine
  <1>3. LockSound'
    <2>1. DOMAIN call' = Operation /\ lock' \in Operation \cup {NoOne}
      BY <1>1 DEF AuditInv, LockSound
    <2>2. \A o \in Operation :
            /\ DOMAIN call'[o] = {"pc", "prev", "row"} /\ call'[o].pc \in Pcs
            /\ lock' = o <=> call'[o].pc \in {"locked", "inserted"}
      BY <1>1, <1>2, AuditAssumption DEF AuditInv, LockSound, Quiet, Pcs
    <2> QED
      BY <2>1, <2>2 DEF LockSound
  <1>4. ASSUME NEW q \in Operation PROVE CallSound(q)'
    <2>1. CASE q \in mine
      <3>1. call'[q].pc = "idle"
        BY <1>2, <2>1 DEF Quiet
      <3> QED
        BY <3>1, Outside
    <2>2. CASE q \notin mine
      BY <1>1, <1>2, <2>2, NothingAdded
    <2> QED
      BY <2>1, <2>2
  <1> QED
    BY <1>1, <1>3, <1>4, NothingAdded DEF AuditInv

\* Every step keeps the invariant.
LEMMA AuditStep == AuditInv /\ [Next]_vars => AuditInv'
  <1> SUFFICES ASSUME AuditInv, [Next]_vars PROVE AuditInv'
    OBVIOUS
  <1>1. ASSUME NEW p \in Process, ProcessStep(p) PROVE AuditInv'
    <2>1. ASSUME Start(p) PROVE AuditInv'
      BY <2>1, StoreStarts DEF Start
    <2> QED
      BY <1>1, <2>1, GenesisInv, CrashInv DEF ProcessStep
  <1>2. ASSUME NEW o \in Operation, OperationStep(o) PROVE AuditInv'
    BY <1>2, BeginInv, AcquireInv, InsertInv, CommitInv, RollBackInv DEF OperationStep
  <1>3. ASSUME FirstPage \/ NextPage \/ UNCHANGED vars PROVE AuditInv'
    BY <1>3, StoreStarts DEF FirstPage, NextPage, vars
  <1> QED
    BY <1>1, <1>2, <1>3 DEF Next

\* The inductive invariant holds.
THEOREM AuditInvariant == Spec => []AuditInv
  BY AuditInit, AuditStep, PTL DEF Spec

-----------------------------------------------------------------------------
(* The chain.                                                              *)

\* The table read in its order is the chain of the rows.
LEMMA ChainIs == Chain = ChainOf(events)
  BY DEF Chain, ChainOf, Nth, NthOf, Rank

\* The first link.
LEMMA RootVerifies ==
    ASSUME NEW x, RowSound(x), x.ev.genesis, x.ev.hash = GenesisPreimage(x.ev)
    PROVE  VerifyHashChain(ChainOf({x}))
  <1> DEFINE C == ChainOf({x})
  <1>1. Ordered({}) /\ Cardinality({}) = 0
    BY FS_EmptySet DEF Ordered
  <1>2. {} \cup {x} = {x} /\ x.seq \in Nat /\ 0 + 1 = 1
    BY DEF RowSound
  <1>3. DOMAIN C = 1..1 /\ C[1] = x.ev
    <2>1. \A r \in {} : r.seq < x.seq
      OBVIOUS
    <2>2. LET n == Cardinality({})
              D == ChainOf({} \cup {x})
          IN  DOMAIN D = 1..(n + 1) /\ D[n + 1] = x.ev
      BY <1>1, <1>2, <2>1, ChainGrown
    <2> HIDE DEF C
    <2> QED
      BY <1>1, <1>2, <2>2 DEF C
  <1> HIDE DEF C
  <1>4. DOMAIN C = {1} /\ DOMAIN << >> = {}
    BY <1>3
  <1>5. C # << >>
    BY <1>4
  <1> QED
    BY <1>3, <1>4, <1>5 DEF VerifyHashChain, RowSound, C

\* The next link.
LEMMA LinkVerifies ==
    ASSUME NEW E, Ordered(E), VerifyHashChain(ChainOf(E)), Cardinality(E) \in Nat \ {0},
           NEW x, RowSound(x), \A r \in E : r.seq < x.seq,
           x.ev.hash = ChainPreimage(ChainOf(E)[Cardinality(E)], x.ev)
    PROVE  VerifyHashChain(ChainOf(E \cup {x}))
  <1> DEFINE n == Cardinality(E)
             C == ChainOf(E)
             D == ChainOf(E \cup {x})
  <1>1. DOMAIN C = 1..n
    BY DEF ChainOf
  <1>2. /\ DOMAIN D = 1..(n + 1) /\ D[n + 1] = x.ev
        /\ \A i \in 1..n : D[i] = C[i]
    BY ChainGrown DEF RowSound
  <1> HIDE DEF C, D
  <1>3. D # << >> /\ D[1] = C[1]
    <2>1. 1 \in 1..n /\ 1 \in DOMAIN D /\ DOMAIN << >> = {}
      BY <1>2
    <2> QED
      BY <1>2, <2>1
  <1>4. ASSUME NEW i \in 1..(n + 1), i # 1
        PROVE  D[i].hash = ChainPreimage(D[i - 1], D[i])
    <2>1. CASE i = n + 1
      <3>1. i - 1 = n /\ n \in 1..n
        BY <2>1
      <3> QED
        BY <1>2, <2>1, <3>1 DEF C
    <2>2. CASE i # n + 1
      <3>1. i \in 1..n /\ i - 1 \in 1..n
        BY <1>4, <2>2
      <3>2. C[i].hash = ChainPreimage(C[i - 1], C[i])
        BY <1>1, <1>4, <3>1 DEF VerifyHashChain, C
      <3> QED
        BY <1>2, <3>1, <3>2
    <2> QED
      BY <2>1, <2>2
  <1>5. ASSUME NEW i \in 1..(n + 1) PROVE D[i].sig = signHash(D[i].hash)
    <2>1. CASE i = n + 1
      BY <1>2, <2>1 DEF RowSound
    <2>2. CASE i # n + 1
      <3>1. i \in 1..n
        BY <2>2
      <3> QED
        BY <1>1, <1>2, <3>1 DEF VerifyHashChain, C
    <2> QED
      BY <2>1, <2>2
  <1>6. C[1].genesis /\ C[1].hash = GenesisPreimage(C[1])
    BY DEF VerifyHashChain, C
  <1> QED
    BY <1>2, <1>3, <1>4, <1>5, <1>6 DEF VerifyHashChain, D

\* A process without a root has seen an empty table, and it still is.
RootInv ==
    /\ DOMAIN proc = Process /\ \A p \in Process : DOMAIN proc[p] = {"pc", "head"}
    /\ \A p \in Process : proc[p].pc = "rootless" => p \in First /\ events = {}
    /\ events # {} => VerifyHashChain(ChainOf(events))

\* A genesis is written by the only process that may find the table empty.
LEMMA GenesisRoots ==
    ASSUME AuditInv, RootInv, NEW f, First \subseteq {f},
           NEW p \in Process, InsertGenesis(p) \/ GenesisFails(p)
    PROVE  RootInv'
  <1>1. proc[p].pc = "rootless" /\ events = {} /\ p \in First
    BY DEF RootInv, InsertGenesis, GenesisFails
  <1>2. /\ DOMAIN proc' = Process /\ \A q \in Process : DOMAIN proc'[q] = {"pc", "head"}
        /\ proc'[p].pc # "rootless" /\ \A q \in Process \ {p} : proc'[q] = proc[q]
    BY DEF RootInv, InsertGenesis, GenesisFails, Down
  <1>3. \A q \in Process : proc'[q].pc # "rootless"
    BY <1>1, <1>2 DEF RootInv
  <1>4. ASSUME events' # {} PROVE VerifyHashChain(ChainOf(events))'
    <2>1. PICK now \in Clock : Grows(RowOf(GenesisEvent(nextSeq, now), nextSeq, NoWorkspace))
      BY <1>1, <1>4, GenesisInv
    <2> DEFINE x == RowOf(GenesisEvent(nextSeq, now), nextSeq, NoWorkspace)
    <2>2. events' = {x} /\ RowSound(x)
      BY <1>1, <2>1 DEF Grows
    <2>3. nextSeq \in Nat /\ nextSeq > 0
      BY DEF AuditInv, TableSound
    <2>4. x.ev.genesis /\ x.ev.hash = GenesisPreimage(x.ev)
      BY <2>3, GenesisRow
    <2> HIDE DEF x
    <2> QED
      BY <2>2, <2>4, RootVerifies
  <1> QED
    BY <1>2, <1>3, <1>4 DEF RootInv

\* A commit links its row to the head that is still the last row.
LEMMA CommitLinks ==
    ASSUME AuditInv, RootInv, NEW o \in Operation, Commit(o) \/ CommitLost(o)
    PROVE  RootInv'
  <1> DEFINE x == call[o].row
  <1>1. Grows(x)
    BY CommitInv
  <1>2. /\ call[o].pc = "inserted" /\ call[o].prev = LoadHead /\ events # {}
        /\ Ordered(events) /\ x.ev.hash = ChainPreimage(LoadHead, x.ev)
    BY DEF AuditInv, TableSound, CallSound, Linked, Commit, CommitLost
  <1> HIDE DEF x
  <1>3. /\ Cardinality(events) \in Nat \ {0}
        /\ LoadHead = ChainOf(events)[Cardinality(events)]
    BY <1>2, LastFacts DEF LoadHead, ScanRow
  <1>4. VerifyHashChain(ChainOf(events \cup {x}))
    BY <1>1, <1>2, <1>3, LinkVerifies DEF RootInv, Grows
  <1>5. VerifyHashChain(ChainOf(events))'
    BY <1>1, <1>4 DEF Grows
  <1>6. /\ DOMAIN proc' = Process
        /\ \A p \in Process : DOMAIN proc'[p] = {"pc", "head"} /\ proc'[p].pc = proc[p].pc
    BY DEF RootInv, Commit, CommitLost
  <1> QED
    BY <1>2, <1>5, <1>6 DEF RootInv

\* As long as only one process may start on an empty table, the persisted
\* chain verifies, whoever appends and whatever fails.
THEOREM ChainHolds ==
    ASSUME NEW f, First \subseteq {f}
    PROVE  Spec => []ChainVerifies
  <1>1. Init => RootInv
    BY DEF Init, RootInv, Down
  <1>2. AuditInv /\ RootInv /\ [Next]_vars => RootInv'
    <2> SUFFICES ASSUME AuditInv, RootInv, [Next]_vars PROVE RootInv'
      OBVIOUS
    <2>1. ASSUME NEW p \in Process, Start(p) \/ Crash(p) PROVE RootInv'
      <3>1. /\ UNCHANGED events /\ DOMAIN proc' = Process
            /\ \A q \in Process : DOMAIN proc'[q] = {"pc", "head"}
        BY <2>1 DEF RootInv, Start, Crash, Down
      <3>2. \A q \in Process : proc'[q].pc = "rootless" => q \in First /\ events = {}
        BY <2>1 DEF RootInv, Start, Crash, Down
      <3> QED
        BY <3>1, <3>2 DEF RootInv
    <2>2. ASSUME NEW o \in Operation, Acquire(o) PROVE RootInv'
      <3>1. /\ UNCHANGED events /\ DOMAIN proc' = Process
            /\ \A p \in Process : DOMAIN proc'[p] = {"pc", "head"} /\ proc'[p].pc = proc[p].pc
        BY <2>2 DEF RootInv, Acquire
      <3> QED
        BY <3>1 DEF RootInv
    <2>3. ASSUME UNCHANGED <<events, proc>> PROVE RootInv'
      BY <2>3 DEF RootInv
    <2>4. ASSUME NEW o \in Operation,
                 Begin(o) \/ RefuseRecord(o) \/ Insert(o) \/ AppendFails(o) \/ Reply(o)
          PROVE  UNCHANGED <<events, proc>>
      BY <2>4 DEF Begin, RefuseRecord, Insert, AppendFails, Reply
    <2>5. FirstPage \/ NextPage \/ UNCHANGED vars => UNCHANGED <<events, proc>>
      BY DEF FirstPage, NextPage, vars
    <2> QED
      BY <2>1, <2>2, <2>3, <2>4, <2>5, GenesisRoots, CommitLinks
         DEF Next, ProcessStep, OperationStep
  <1>3. RootInv => ChainVerifies
    BY ChainIs DEF RootInv, ChainVerifies, Verify
  <1> QED
    BY <1>1, <1>2, <1>3, AuditInvariant, PTL DEF Spec

-----------------------------------------------------------------------------
(* Tampering.                                                              *)

\* A chain of n events with ids of their own.
Events(C, n) ==
    /\ n \in Nat /\ DOMAIN C = 1..n
    /\ \A i \in 1..n : DOMAIN C[i] = EventFields
    /\ \A i, j \in 1..n : i # j => C[i].id # C[j].id

Preimage(C, i, ev) ==
    IF i = 1 THEN GenesisPreimage(ev) ELSE ChainPreimage(C[i - 1], ev)

\* An edit keeps hash and tag, and changes what the link is computed over.
LEMMA EditShows ==
    ASSUME NEW C, NEW n, Events(C, n), VerifyHashChain(C), NEW i \in 1..n,
           NEW ev \in Edits(C[i])
    PROVE  /\ ev.hash = C[i].hash /\ ev.sig = C[i].sig /\ DOMAIN ev = EventFields
           /\ Preimage(C, i, ev) # Preimage(C, i, C[i])
  <1>1. DOMAIN C[i] = EventFields /\ (i = 1 => C[i].genesis)
    BY DEF Events, VerifyHashChain
  <1>2. /\ ev.hash = C[i].hash /\ ev.sig = C[i].sig /\ DOMAIN ev = EventFields
        /\ \/ ev.outcome # C[i].outcome
           \/ ev.timestamp # C[i].timestamp
           \/ ~C[i].genesis /\ ev.of # C[i].of
    <2>1. CASE ev \in {[C[i] EXCEPT !.outcome = x] : x \in Outcomes \ {C[i].outcome}}
      BY <1>1, <2>1 DEF EventFields
    <2>2. CASE ev \in {[C[i] EXCEPT !.timestamp = t] :
                        t \in {Truncate(C[i].timestamp)} \ {C[i].timestamp}}
      BY <1>1, <2>2 DEF EventFields
    <2>3. CASE ev \in {[C[i] EXCEPT !.of = o] :
                        o \in IF C[i].genesis THEN {} ELSE Operation \ {C[i].of}}
      BY <1>1, <2>3 DEF EventFields
    <2> QED
      BY <2>1, <2>2, <2>3 DEF Edits
  <1>3. Preimage(C, i, ev) # Preimage(C, i, C[i])
    <2>1. CASE i = 1
      BY <1>1, <1>2, <2>1 DEF Preimage, GenesisPreimage
    <2>2. CASE i # 1
      BY <1>2, <2>2 DEF Preimage, ChainPreimage
    <2> QED
      BY <2>1, <2>2
  <1> QED
    BY <1>2, <1>3

\* What verification says of one event.
LEMMA VerifiesAt ==
    ASSUME NEW C, VerifyHashChain(C), NEW i \in DOMAIN C
    PROVE  C[i].hash = Preimage(C, i, C[i]) /\ C[i].sig = signHash(C[i].hash)
  BY DEF VerifyHashChain, Preimage

\* An edited event fails, with its old hash and with its own.
LEMMA EditFails ==
    ASSUME NEW C, NEW n, Events(C, n), VerifyHashChain(C), NEW i \in 1..n,
           NEW ev \in Edits(C[i])
    PROVE  /\ ~VerifyHashChain([C EXCEPT ![i] = ev])
           /\ ~VerifyHashChain([C EXCEPT ![i] = [ev EXCEPT !.hash = Preimage(C, i, ev)]])
  <1>0. DOMAIN C = 1..n /\ n \in Nat
    BY DEF Events
  <1>1. C[i].hash = Preimage(C, i, C[i]) /\ C[i].sig = signHash(C[i].hash)
    BY <1>0, VerifiesAt
  <1>2. /\ ev.hash = C[i].hash /\ ev.sig = C[i].sig /\ DOMAIN ev = EventFields
        /\ Preimage(C, i, ev) # C[i].hash
    BY <1>1, EditShows
  <1>3. ASSUME VerifyHashChain([C EXCEPT ![i] = ev]) PROVE FALSE
    <2> DEFINE D == [C EXCEPT ![i] = ev]
    <2>1. D[i] = ev /\ i \in DOMAIN D /\ (i # 1 => D[i - 1] = C[i - 1])
      BY <1>0
    <2> HIDE DEF D
    <2>2. ev.hash = Preimage(D, i, ev)
      BY <1>3, <2>1, VerifiesAt DEF D
    <2>3. Preimage(D, i, ev) = Preimage(C, i, ev)
      BY <2>1 DEF Preimage
    <2> QED
      BY <1>2, <2>2, <2>3
  <1>4. ASSUME VerifyHashChain([C EXCEPT ![i] = [ev EXCEPT !.hash = Preimage(C, i, ev)]])
        PROVE  FALSE
    <2> DEFINE e == [ev EXCEPT !.hash = Preimage(C, i, ev)]
               D == [C EXCEPT ![i] = e]
    <2>1. e.hash = Preimage(C, i, ev) /\ e.sig = signHash(C[i].hash)
      BY <1>1, <1>2 DEF EventFields
    <2> HIDE DEF e
    <2>2. D[i] = e /\ i \in DOMAIN D
      BY <1>0
    <2> HIDE DEF D
    <2>3. e.sig = signHash(e.hash)
      <3>1. VerifyHashChain(D)
        BY <1>4 DEF D, e
      <3>2. D[i].sig = signHash(D[i].hash)
        BY <2>2, <3>1, VerifiesAt
      <3> QED
        BY <2>2, <3>2
    <2>4. C[i].hash = e.hash
      BY <2>1, <2>3 DEF signHash
    <2> QED
      BY <1>2, <2>1, <2>4
  <1> QED
    BY <1>3, <1>4

\* Without an event that has a successor the chain fails.
LEMMA RemovalFails ==
    ASSUME NEW C, NEW n, Events(C, n), VerifyHashChain(C), NEW i \in 1..n, i < n
    PROVE  ~VerifyHashChain(Without(C, i))
  <1> DEFINE D == Without(C, i)
  <1>0. /\ DOMAIN C = 1..n /\ n \in Nat /\ i + 1 \in 1..n /\ i + 1 \in DOMAIN C
        /\ i \in 1..(n - 1)
    BY DEF Events
  <1>1. Cardinality(DOMAIN C) = n
    <2>1. Cardinality(1..n) = n
      BY <1>0, FS_Interval
    <2> QED
      BY <1>0, <2>1
  <1>2. DOMAIN D = 1..(n - 1) /\ D[i] = C[i + 1] /\ (i # 1 => D[i - 1] = C[i - 1])
    BY <1>0, <1>1 DEF Without
  <1> HIDE DEF D
  <1>3. C[i + 1].hash = ChainPreimage(C[i], C[i + 1])
    BY <1>0 DEF VerifyHashChain
  <1>4. ASSUME VerifyHashChain(D) PROVE FALSE
    <2>1. C[i + 1].hash = Preimage(D, i, C[i + 1])
      BY <1>0, <1>2, <1>4, VerifiesAt
    <2>2. CASE i = 1
      <3>1. C[i + 1].hash = GenesisPreimage(C[i + 1])
        BY <2>1, <2>2 DEF Preimage
      <3>2. Len(GenesisPreimage(C[i + 1])) = 3
        BY DEF GenesisPreimage
      <3>3. Len(ChainPreimage(C[i], C[i + 1])) = 8
        BY DEF ChainPreimage
      <3> QED
        BY <1>3, <3>1, <3>2, <3>3
    <2>3. CASE i # 1
      <3>1. ChainPreimage(C[i - 1], C[i + 1]) = ChainPreimage(C[i], C[i + 1])
        BY <1>2, <1>3, <2>1, <2>3 DEF Preimage
      <3>2. C[i - 1].id = C[i].id
        BY <3>1 DEF ChainPreimage
      <3> QED
        BY <1>0, <2>3, <3>2 DEF Events
    <2> QED
      BY <2>2, <2>3
  <1> QED
    BY <1>4 DEF D

\* A chain that verifies does not verify any more once an event's outcome,
\* instant or content is changed, rehashed or not, or an event that has a
\* successor is taken out.
THEOREM TamperingShows == Spec => []EditsDetected
  <1>1. AuditInv => EditsDetected
    <2> SUFFICES ASSUME AuditInv, Verify PROVE
            \A i \in DOMAIN Chain :
                /\ \A ev \in Edits(Chain[i]) :
                    LET rehashed == IF i = 1 THEN GenesisPreimage(ev)
                                             ELSE ChainPreimage(Chain[i - 1], ev)
                    IN  /\ ~VerifyHashChain([Chain EXCEPT ![i] = ev])
                        /\ ~VerifyHashChain([Chain EXCEPT ![i] = [ev EXCEPT !.hash = rehashed]])
                /\ i < Cardinality(events) => ~VerifyHashChain(Without(Chain, i))
      BY DEF EditsDetected
    <2> DEFINE C == Chain
               n == Cardinality(events)
    <2>1. Ordered(events) /\ \A r \in events : RowSound(r)
      BY DEF AuditInv, TableSound
    <2>2. \A i \in 1..n : /\ NthOf(events, i) \in events
                          /\ Rank(events, NthOf(events, i)) = i
      BY <2>1, NthFacts
    <2>3. C = [i \in 1..n |-> NthOf(events, i).ev]
      BY ChainIs DEF ChainOf, ScanRow
    <2>4. n \in Nat
      BY <2>1, RankFacts
    <2> HIDE DEF C, n
    <2>5. \A i \in 1..n : DOMAIN C[i] = EventFields /\ C[i].id = NthOf(events, i).seq
      BY <2>1, <2>2, <2>3 DEF RowSound
    <2>6. ASSUME NEW i \in 1..n, NEW j \in 1..n, C[i].id = C[j].id PROVE i = j
      <3>1. NthOf(events, i) = NthOf(events, j)
        BY <2>1, <2>2, <2>5, <2>6 DEF Ordered
      <3> QED
        BY <2>2, <3>1
    <2>7. DOMAIN C = 1..n
      BY <2>3
    <2>8. Events(C, n)
      BY <2>4, <2>5, <2>6, <2>7 DEF Events
    <2>9. VerifyHashChain(C)
      BY DEF Verify, C
    <2>10. ASSUME NEW i \in 1..n, NEW ev \in Edits(C[i])
           PROVE  LET rehashed == IF i = 1 THEN GenesisPreimage(ev)
                                           ELSE ChainPreimage(C[i - 1], ev)
                  IN  /\ ~VerifyHashChain([C EXCEPT ![i] = ev])
                      /\ ~VerifyHashChain([C EXCEPT ![i] = [ev EXCEPT !.hash = rehashed]])
      BY <2>8, <2>9, <2>10, EditFails DEF Preimage
    <2>11. \A i \in 1..n : i < n => ~VerifyHashChain(Without(C, i))
      BY <2>8, <2>9, RemovalFails
    <2> QED
      BY <2>7, <2>10, <2>11 DEF C, n
  <1> QED
    BY <1>1, AuditInvariant, PTL

-----------------------------------------------------------------------------
(* Successes are recorded.                                                 *)

One(o) == \E row \in events : row.ev.of = o /\ \A r \in events : r.ev.of = o => r = row

\* An operation has no row until its commit, and then one.
Counted(o) ==
    /\ answer[o] # "none" => call[o].pc = "idle"
    /\ answer[o] = "none" /\ call[o].pc \in {"idle", "begun", "locked", "inserted"} =>
        \A row \in events : row.ev.of # o
    /\ call[o].pc = "reply" \/ (answer[o] = "success" /\ o \in Closed) => One(o)

CountInv == DOMAIN answer = Operation /\ \A o \in Operation : Counted(o)

\* An operation that does nothing keeps its count while no row is its own.
LEMMA CountKept ==
    ASSUME NEW o \in Operation, Counted(o), answer'[o] = answer[o], call'[o] = call[o],
           UNCHANGED events \/ \E x : events' = events \cup {x} /\ x.ev.of # o
    PROVE  Counted(o)'
  BY DEF Counted, One

\* The commit of an operation is its first row.
LEMMA CommitCounts ==
    ASSUME AuditInv, CountInv, NEW o \in Operation, Commit(o) \/ CommitLost(o)
    PROVE  CountInv'
  <1> DEFINE x == call[o].row
  <1>1. PICK pc \in {"reply", "failed"} : call' = [call EXCEPT ![o] = [Quiet EXCEPT !.pc = pc]]
    BY CommitInv
  <1>2. /\ DOMAIN call = Operation /\ call[o].pc = "inserted" /\ UNCHANGED answer
        /\ events' = events \cup {x} /\ x.ev.of = o
    BY DEF AuditInv, LockSound, CallSound, Linked, Commit, CommitLost
  <1>3. call'[o].pc = pc /\ \A q \in Operation \ {o} : call'[q] = call[q]
    BY <1>1, <1>2 DEF Quiet
  <1>4. answer[o] = "none" /\ \A row \in events : row.ev.of # o
    BY <1>2 DEF CountInv, Counted
  <1> HIDE DEF x
  <1>5. One(o)'
    BY <1>2, <1>4 DEF One
  <1>6. Counted(o)'
    BY <1>2, <1>3, <1>4, <1>5 DEF Counted
  <1>7. \A q \in Operation \ {o} : Counted(q)'
    BY <1>2, <1>3, CountKept DEF CountInv
  <1> QED
    BY <1>2, <1>6, <1>7 DEF CountInv

\* A success of a fail-closed operation is in the chain, once.
THEOREM SuccessesRecorded == Spec => []SuccessIsRecorded
  <1>1. Init => CountInv
    BY DEF Init, CountInv, Counted, Quiet
  <1>2. AuditInv /\ CountInv /\ [Next]_vars => CountInv'
    <2> SUFFICES ASSUME AuditInv, CountInv, [Next]_vars PROVE CountInv'
      OBVIOUS
    <2>0. /\ DOMAIN call = Operation /\ DOMAIN answer = Operation
          /\ \A o \in Operation : DOMAIN call[o] = {"pc", "prev", "row"} /\ Counted(o)
      BY DEF AuditInv, LockSound, CountInv
    <2>1. ASSUME NEW o \in Operation,
                 Begin(o) \/ RefuseRecord(o) \/ Acquire(o) \/ Insert(o) \/ AppendFails(o)
          PROVE  CountInv'
      <3>1. /\ UNCHANGED <<events, answer>>
            /\ call'[o].pc \in {"begun", "failed", "locked", "inserted"}
            /\ call'[o].pc # "failed" => call[o].pc \in {"idle", "begun", "locked"}
            /\ answer[o] = "none" \/ call[o].pc # "idle"
            /\ \A q \in Operation \ {o} : call'[q] = call[q]
        BY <2>0, <2>1 DEF Begin, RefuseRecord, Acquire, Insert, AppendFails, Quiet
      <3>2. Counted(o)'
        BY <2>0, <3>1 DEF Counted, One
      <3>3. \A q \in Operation \ {o} : Counted(q)'
        BY <2>0, <3>1, CountKept
      <3> QED
        BY <2>0, <3>1, <3>2, <3>3 DEF CountInv
    <2>2. ASSUME NEW o \in Operation, Reply(o) PROVE CountInv'
      <3>1. /\ UNCHANGED events /\ call'[o].pc = "idle" /\ answer'[o] = AnswerOf(o)
            /\ call[o].pc \in {"reply", "failed"} /\ DOMAIN answer' = Operation
            /\ \A q \in Operation \ {o} : call'[q] = call[q] /\ answer'[q] = answer[q]
        BY <2>0, <2>2 DEF Reply, Quiet
      <3>2. Counted(o)'
        BY <2>0, <3>1 DEF Counted, One, AnswerOf
      <3>3. \A q \in Operation \ {o} : Counted(q)'
        BY <2>0, <3>1, CountKept
      <3> QED
        BY <3>1, <3>2, <3>3 DEF CountInv
    <2>3. ASSUME NEW p \in Process, Crash(p) PROVE CountInv'
      <3> DEFINE mine == {o \in Operation : ProcessOf[o] = p /\ call[o].pc # "idle"}
      <3>1. /\ UNCHANGED events /\ DOMAIN answer' = Operation
            /\ \A o \in mine : call'[o].pc = "idle" /\ answer'[o] = "error"
            /\ \A o \in Operation \ mine : call'[o] = call[o] /\ answer'[o] = answer[o]
        BY <2>3 DEF Crash, Quiet
      <3> HIDE DEF mine
      <3>2. \A o \in Operation : Counted(o)'
        <4>1. ASSUME NEW o \in mine PROVE Counted(o)'
          BY <3>1 DEF Counted
        <4>2. ASSUME NEW o \in Operation \ mine PROVE Counted(o)'
          BY <2>0, <3>1, CountKept
        <4> QED
          BY <4>1, <4>2
      <3> QED
        BY <3>1, <3>2 DEF CountInv
    <2>4. ASSUME NEW p \in Process, InsertGenesis(p) \/ GenesisFails(p) PROVE CountInv'
      <3>1. /\ UNCHANGED <<call, answer>>
            /\ \/ UNCHANGED events
               \/ \E now \in Clock :
                    Grows(RowOf(GenesisEvent(nextSeq, now), nextSeq, NoWorkspace))
        BY <2>4, GenesisInv DEF InsertGenesis, GenesisFails
      <3>2. nextSeq \in Nat /\ nextSeq > 0
        BY DEF AuditInv, TableSound
      <3>3. UNCHANGED events \/ \E x : events' = events \cup {x} /\ x.ev.of = NoOne
        BY <3>1, <3>2, GenesisRow DEF Grows
      <3>4. \A o \in Operation : Counted(o)'
        BY <2>0, <3>1, <3>3, CountKept, AuditAssumption
      <3> QED
        BY <2>0, <3>1, <3>4 DEF CountInv
    <2>5. ASSUME UNCHANGED <<events, call, answer>> PROVE CountInv'
      BY <2>0, <2>5, CountKept DEF CountInv
    <2>6. (\E p \in Process : Start(p)) \/ FirstPage \/ NextPage \/ UNCHANGED vars
            => UNCHANGED <<events, call, answer>>
      BY DEF Start, FirstPage, NextPage, vars
    <2> QED
      BY <2>1, <2>2, <2>3, <2>4, <2>5, <2>6, CommitCounts
         DEF Next, ProcessStep, OperationStep
  <1>3. AuditInv /\ CountInv => SuccessIsRecorded
    <2> SUFFICES ASSUME CountInv, NEW o \in Closed, answer[o] = "success"
                 PROVE  Cardinality({row \in events : row.ev.of = o}) = 1
      BY DEF SuccessIsRecorded
    <2>1. One(o)
      BY AuditAssumption DEF CountInv, Counted
    <2>2. PICK row : {r \in events : r.ev.of = o} = {row}
      BY <2>1 DEF One
    <2> QED
      BY <2>2, FS_Singleton
  <1> QED
    BY <1>1, <1>2, <1>3, AuditInvariant, PTL DEF Spec

-----------------------------------------------------------------------------
(* The readers.                                                            *)

\* Rows with numbers of their own.
Numbered(S) ==
    /\ IsFiniteSet(S) /\ \A r \in S : r.seq \in Nat
    /\ \A r, s \in S : r.seq = s.seq => r = s

\* So are some of them.
LEMMA SomeNumbered ==
    ASSUME NEW S, Numbered(S), NEW T \in SUBSET S
    PROVE  Numbered(T)
  BY FS_Subset DEF Numbered

\* Among finitely many rows one comes first.
LEMMA FirstRow ==
    ASSUME NEW S, Numbered(S), S # {}
    PROVE  \E k \in S : \A x \in S : k.seq <= x.seq
  <1> DEFINE Under(k) == {x \in S : x.seq < k.seq}
             T == {Under(k) : k \in S}
  <1>1. T \subseteq FiniteSubsetsOf(S) /\ T # {}
    <2>1. \A k \in S : Under(k) \subseteq S /\ IsFiniteSet(Under(k))
      BY FS_Subset DEF Numbered
    <2> QED
      BY <2>1 DEF FiniteSubsetsOf
  <1>2. PICK u \in T : \A v \in T : ~(<<v, u>> \in StrictSubsetOrdering(S))
    <2>1. IsFiniteSet(S)
      BY DEF Numbered
    <2> QED
      BY <1>1, <2>1, FS_StrictSubsetOrderingWellFounded, WFMin
  <1>3. PICK k \in S : u = Under(k)
    BY <1>2
  <1>4. ASSUME NEW x \in S, x.seq < k.seq PROVE FALSE
    <2>0. \A r \in S : r.seq \in Nat
      BY DEF Numbered
    <2>1. Under(x) \subseteq Under(k)
      BY <1>4, <2>0
    <2>2. x \in Under(k) /\ x \notin Under(x)
      BY <1>4, <2>0
    <2>3. <<Under(x), Under(k)>> \in StrictSubsetOrdering(S)
      BY <2>1, <2>2 DEF StrictSubsetOrdering
    <2> QED
      BY <1>2, <1>3, <2>3
  <1> QED
    BY <1>4 DEF Numbered

\* And one last.
LEMMA LastRow ==
    ASSUME NEW S, Numbered(S), S # {}
    PROVE  \E k \in S : \A x \in S : x.seq <= k.seq
  <1> DEFINE Above(k) == {x \in S : x.seq > k.seq}
             T == {Above(k) : k \in S}
  <1>1. T \subseteq FiniteSubsetsOf(S) /\ T # {}
    <2>1. \A k \in S : Above(k) \subseteq S /\ IsFiniteSet(Above(k))
      BY FS_Subset DEF Numbered
    <2> QED
      BY <2>1 DEF FiniteSubsetsOf
  <1>2. PICK u \in T : \A v \in T : ~(<<v, u>> \in StrictSubsetOrdering(S))
    <2>1. IsFiniteSet(S)
      BY DEF Numbered
    <2> QED
      BY <1>1, <2>1, FS_StrictSubsetOrderingWellFounded, WFMin
  <1>3. PICK k \in S : u = Above(k)
    BY <1>2
  <1>4. ASSUME NEW x \in S, x.seq > k.seq PROVE FALSE
    <2>0. \A r \in S : r.seq \in Nat
      BY DEF Numbered
    <2>1. Above(x) \subseteq Above(k)
      BY <1>4, <2>0
    <2>2. x \in Above(k) /\ x \notin Above(x)
      BY <1>4, <2>0
    <2>3. <<Above(x), Above(k)>> \in StrictSubsetOrdering(S)
      BY <2>1, <2>2 DEF StrictSubsetOrdering
    <2> QED
      BY <1>2, <1>3, <2>3
  <1> QED
    BY <1>4 DEF Numbered

\* ORDER BY seq DESC LIMIT limit of some rows.
PageOf(A, limit) == {row \in A : Cardinality({r \in A : r.seq >= row.seq}) <= limit}

\* A page that is not full has everything; a full one ends above what is left.
LEMMA PageOfFacts ==
    ASSUME NEW A, Numbered(A), NEW limit \in Nat, limit > 0
    PROVE  LET page == PageOf(A, limit)
           IN  /\ page \in SUBSET A /\ Numbered(page) /\ Cardinality(page) \in Nat
               /\ Cardinality(page) # limit => page = A
               /\ Cardinality(page) = limit => page # {}
               /\ \A x \in A \ page, y \in page : x.seq < y.seq
  <1> DEFINE From(row) == {r \in A : r.seq >= row.seq}
             page == PageOf(A, limit)
  <1>1. page \in SUBSET A
    BY DEF PageOf
  <1>2. Numbered(page) /\ IsFiniteSet(page) /\ Cardinality(page) \in Nat
    <2>1. Numbered(page)
      BY <1>1, SomeNumbered
    <2>2. IsFiniteSet(page)
      BY <2>1 DEF Numbered
    <2> QED
      BY <2>1, <2>2, FS_CardinalityType
  <1>3. \A r \in A : r.seq \in Nat
    BY DEF Numbered
  <1>4. ASSUME NEW r PROVE IsFiniteSet(From(r)) /\ Cardinality(From(r)) \in Nat
    <2>1. From(r) \in SUBSET A /\ IsFiniteSet(A)
      BY DEF Numbered
    <2> HIDE DEF From
    <2>2. IsFiniteSet(From(r))
      BY <2>1, FS_Subset
    <2> QED
      BY <2>2, FS_CardinalityType
  <1>5. \A r \in A : r \in page <=> Cardinality(From(r)) <= limit
    BY DEF PageOf
  <1> HIDE DEF page
  <1>6. ASSUME NEW x \in A \ page, NEW y \in page PROVE x.seq < y.seq
    <2>1. x.seq \in Nat /\ y.seq \in Nat /\ y \in A
      BY <1>1, <1>3
    <2>2. ASSUME x.seq >= y.seq PROVE FALSE
      <3>1. From(x) \in SUBSET From(y)
        BY <1>3, <2>1, <2>2
      <3> HIDE DEF From
      <3>2. Cardinality(From(x)) <= Cardinality(From(y))
        BY <1>4, <3>1, FS_Subset
      <3>3. Cardinality(From(y)) <= limit /\ ~(Cardinality(From(x)) <= limit)
        BY <1>5, <2>1
      <3> QED
        BY <1>4, <3>2, <3>3
    <2> QED
      BY <2>1, <2>2
  <1>7. Cardinality(page) <= limit
    <2>1. CASE page = {}
      BY <2>1, FS_EmptySet
    <2>2. CASE page # {}
      <3>1. PICK y \in page : \A z \in page : y.seq <= z.seq
        BY <1>2, <2>2, FirstRow
      <3>2. y \in A /\ y.seq \in Nat
        BY <1>1, <1>3
      <3>3. page \in SUBSET From(y)
        BY <1>1, <1>3, <3>1, <3>2
      <3>4. Cardinality(From(y)) <= limit
        BY <1>5, <3>2
      <3> HIDE DEF From
      <3>5. Cardinality(page) <= Cardinality(From(y))
        BY <1>4, <3>3, FS_Subset
      <3> QED
        BY <1>2, <1>4, <3>4, <3>5
    <2> QED
      BY <2>1, <2>2
  <1>8. ASSUME page # A PROVE Cardinality(page) >= limit
    <2>1. A \ page # {} /\ Numbered(A \ page)
      BY <1>1, <1>8, SomeNumbered
    <2>2. PICK x \in A \ page : \A z \in A \ page : z.seq <= x.seq
      BY <2>1, LastRow
    <2>3. From(x) = page \cup {x}
      <3>1. \A z \in page : z \in From(x)
        BY <1>1, <1>3, <1>6, <2>2
      <3>2. \A z \in From(x) : z \in page \/ z = x
        <4>1. \A z \in A \ page : z.seq \in Nat /\ (z.seq >= x.seq => z.seq = x.seq)
          BY <1>3, <2>2
        <4>2. \A z \in A : z.seq = x.seq => z = x
          BY DEF Numbered
        <4> QED
          BY <4>1, <4>2
      <3>3. x \in From(x)
        BY <1>3
      <3> QED
        BY <3>1, <3>2, <3>3
    <2> HIDE DEF From
    <2>4. Cardinality(page \cup {x}) = Cardinality(page) + 1
      BY <1>2, FS_AddElement
    <2>5. ~(Cardinality(From(x)) <= limit)
      BY <1>5
    <2> QED
      BY <1>2, <2>3, <2>4, <2>5
  <1>9. Cardinality(page) = limit => page # {}
    BY FS_EmptySet
  <1>10. Cardinality(page) # limit => page = A
    BY <1>2, <1>7, <1>8
  <1> QED
    BY <1>1, <1>2, <1>6, <1>9, <1>10 DEF page

SeqsOf(S) == {r.seq : r \in S}

\* As many numbers as rows.
LEMMA SeqsCount ==
    ASSUME NEW S, Numbered(S)
    PROVE  IsFiniteSet(SeqsOf(S)) /\ Cardinality(SeqsOf(S)) = Cardinality(S)
  <1> DEFINE f == [r \in S |-> r.seq]
  <1>1. f \in Bijection(S, SeqsOf(S))
    BY DEF Numbered, SeqsOf, Bijection, Injection, Surjection, IsInjective
  <1>2. IsFiniteSet(S)
    BY DEF Numbered
  <1>3. ExistsBijection(S, SeqsOf(S))
    BY <1>1 DEF ExistsBijection
  <1> QED
    BY <1>2, <1>3, FS_Bijection

WalkFields == {"pc", "scope", "outcome", "limit", "before", "top", "seen", "shown"}

\* The events a walk is about.
Based(E, w) == {r \in E : r.seq <= w.top /\ Matches(r, [w EXCEPT !.before = 0])}

\* What a client that began at top has been shown: everything from the cursor.
WalkSound(w, E) ==
    /\ DOMAIN w = WalkFields /\ w.pc \in {"more", "done"}
    /\ w.limit \in Nat /\ w.limit > 0 /\ w.top \in SeqsOf(E)
    /\ IsFiniteSet(w.seen) /\ w.shown = Cardinality(w.seen)
    /\ w.pc = "more" =>
        /\ w.before \in Nat /\ w.before > 0 /\ w.before <= w.top
        /\ w.seen = SeqsOf({r \in Based(E, w) : r.seq >= w.before})
    /\ w.pc = "done" => w.seen = SeqsOf(Based(E, w))

PageInv ==
    IF walk.pc = "idle" THEN walk = NoWalk ELSE WalkSound(walk, events)

\* Rows that are added later are above the top.
LEMMA WalkGrows ==
    ASSUME NEW E, \A r \in E : r.seq \in Nat, NEW w, WalkSound(w, E),
           NEW x, x.seq \in Nat, \A r \in E : r.seq < x.seq
    PROVE  WalkSound(w, E \cup {x})
  <1>1. w.top \in Nat /\ w.top < x.seq /\ w.top \in SeqsOf(E \cup {x})
    BY DEF WalkSound, SeqsOf
  <1>2. Based(E \cup {x}, w) = Based(E, w)
    BY <1>1 DEF Based
  <1> QED
    BY <1>1, <1>2 DEF WalkSound

\* The walk after a page, of the rows that match.
ReadOf(w, A) == LET page == PageOf(A, w.limit) IN
    [w EXCEPT
        !.pc = IF Cardinality(page) = w.limit THEN "more" ELSE "done",
        !.before = IF Cardinality(page) = w.limit THEN Min(SeqsOf(page)) ELSE w.before,
        !.seen = w.seen \cup SeqsOf(page),
        !.shown = w.shown + Cardinality(page)]

\* What Read does to the walk.
LEMMA ReadIs ==
    ASSUME NEW w, Read(w)
    PROVE  walk' = ReadOf(w, {row \in events : Matches(row, w)})
  BY DEF Read, Page, ReadOf, PageOf, SeqsOf

\* A page keeps a walk sound if what was shown is what does not match any more
\* and comes after all that does.
LEMMA ReadKeepsSound ==
    ASSUME NEW E, Numbered(E), \A r \in E : r.seq > 0,
           NEW w, DOMAIN w = WalkFields, w.limit \in Nat, w.limit > 0, w.top \in SeqsOf(E),
           IsFiniteSet(w.seen), w.shown = Cardinality(w.seen),
           NEW A \in SUBSET Based(E, w), w.seen = SeqsOf(Based(E, w) \ A),
           \A r \in Based(E, w) \ A, s \in A : s.seq < r.seq
    PROVE  WalkSound(ReadOf(w, A), E)
  <1> DEFINE B == Based(E, w)
             page == PageOf(A, w.limit)
             full == Cardinality(page) = w.limit
             v == ReadOf(w, A)
  <1>1. B \in SUBSET E /\ \A r \in B : r.seq <= w.top
    BY DEF Based
  <1>2. Numbered(B) /\ Numbered(A)
    BY <1>1, SomeNumbered
  <1>3. /\ page \in SUBSET A /\ Numbered(page) /\ Cardinality(page) \in Nat
        /\ ~full => page = A
        /\ full => page # {}
        /\ \A x \in A \ page, y \in page : x.seq < y.seq
    BY <1>2, PageOfFacts
  <1>4. /\ DOMAIN v = WalkFields /\ v.pc = (IF full THEN "more" ELSE "done")
        /\ v.scope = w.scope /\ v.outcome = w.outcome /\ v.limit = w.limit /\ v.top = w.top
        /\ v.before = (IF full THEN Min(SeqsOf(page)) ELSE w.before)
        /\ v.seen = w.seen \cup SeqsOf(page) /\ v.shown = w.shown + Cardinality(page)
    BY DEF ReadOf, WalkFields
  <1> HIDE DEF page, v
  <1>5. Based(E, v) = B
    <2>1. \A r : Matches(r, [v EXCEPT !.before = 0]) <=> Matches(r, [w EXCEPT !.before = 0])
      BY <1>4 DEF Matches, WalkFields
    <2> QED
      BY <1>4, <2>1 DEF Based
  <1> HIDE DEF B, full
  <1>6. v.seen = SeqsOf((B \ A) \cup page)
    BY <1>4 DEF SeqsOf, B
  <1>7. IsFiniteSet(v.seen) /\ v.shown = Cardinality(v.seen)
    <2>1. w.seen \cap SeqsOf(page) = {}
      <3>1. \A r \in B \ A, s \in page : s.seq # r.seq
        BY <1>2, <1>3 DEF B, Numbered
      <3> QED
        BY <3>1 DEF SeqsOf, B
    <2>2. IsFiniteSet(SeqsOf(page)) /\ Cardinality(SeqsOf(page)) = Cardinality(page)
      BY <1>3, SeqsCount
    <2>3. /\ IsFiniteSet(w.seen \cup SeqsOf(page))
          /\ Cardinality(w.seen \cup SeqsOf(page)) = Cardinality(w.seen)
                + Cardinality(SeqsOf(page)) - Cardinality(w.seen \cap SeqsOf(page))
      BY <2>2, FS_Union
    <2>4. Cardinality(w.seen \cap SeqsOf(page)) = 0
      BY <2>1, FS_EmptySet
    <2>5. Cardinality(w.seen) \in Nat
      BY FS_CardinalityType
    <2>6. Cardinality(w.seen \cup SeqsOf(page)) = w.shown + Cardinality(page)
      BY <1>3, <2>2, <2>3, <2>4, <2>5
    <2> QED
      BY <1>4, <2>3, <2>6
  <1>8. ASSUME full
        PROVE  /\ v.before \in Nat /\ v.before > 0 /\ v.before <= v.top
               /\ v.seen = SeqsOf({r \in B : r.seq >= v.before})
    <2>1. PICK y \in page : \A z \in page : y.seq <= z.seq
      BY <1>3, <1>8, FirstRow
    <2>2. y \in A /\ y \in B /\ y \in E /\ y.seq \in Nat /\ \A r \in B : r.seq \in Nat
      BY <1>1, <1>2, <1>3 DEF Numbered, B
    <2>3. y.seq > 0 /\ y.seq <= w.top
      BY <1>1, <2>2
    <2>4. Min(SeqsOf(page)) = y.seq
      <3>1. y.seq \in SeqsOf(page) /\ \A z \in SeqsOf(page) : y.seq <= z
        BY <2>1 DEF SeqsOf
      <3>2. SeqsOf(page) \subseteq Nat
        BY <1>3 DEF SeqsOf, Numbered
      <3>3. \E m \in SeqsOf(page) : \A z \in SeqsOf(page) : m <= z
        BY <3>1
      <3>4. /\ Min(SeqsOf(page)) \in SeqsOf(page)
            /\ \A z \in SeqsOf(page) : Min(SeqsOf(page)) <= z
        BY <3>3 DEF Min
      <3> QED
        BY <3>1, <3>2, <3>4
    <2>5. v.before = y.seq
      BY <1>4, <1>8, <2>4
    <2>6. ASSUME NEW r \in B PROVE r \in (B \ A) \cup page <=> r.seq >= y.seq
      <3>1. CASE r \in B \ A
        <4>1. y.seq < r.seq
          BY <2>2, <3>1 DEF B
        <4> QED
          BY <2>2, <3>1, <4>1
      <3>2. CASE r \in page
        BY <2>1, <2>2, <3>2
      <3>3. CASE r \in A \ page
        BY <1>3, <2>1, <2>2, <3>3
      <3> QED
        BY <3>1, <3>2, <3>3
    <2>7. (B \ A) \cup page \subseteq B
      BY <1>3 DEF B
    <2>8. (B \ A) \cup page = {r \in B : r.seq >= v.before}
      BY <2>5, <2>6, <2>7
    <2> QED
      BY <1>4, <1>6, <2>2, <2>3, <2>5, <2>8
  <1>9. ASSUME ~full PROVE v.seen = SeqsOf(B)
    <2>1. (B \ A) \cup page = B
      BY <1>3, <1>9 DEF B
    <2> QED
      BY <1>6, <2>1
  <1>10. (v.pc = "more" => full) /\ (v.pc = "done" => ~full) /\ v.pc \in {"more", "done"}
    BY <1>4
  <1>11. WalkSound(v, E)
    BY <1>4, <1>5, <1>7, <1>8, <1>9, <1>10 DEF WalkSound
  <1> QED
    BY <1>11 DEF v

\* The rows of the table.
LEMMA TableFacts ==
    ASSUME AuditInv
    PROVE  Numbered(events) /\ \A r \in events : r.seq > 0 /\ r.seq \in Nat
  BY DEF AuditInv, TableSound, RowSound, Ordered, Numbered

\* A page has at least one row.
LEMMA LimitFacts ==
    ASSUME NEW limit \in Limits
    PROVE  Normalize(limit) \in Nat /\ Normalize(limit) > 0
  BY AuditAssumption DEF Normalize

\* FirstPage: nothing was shown, and everything is below the top.
LEMMA FirstPageSound ==
    ASSUME AuditInv, FirstPage
    PROVE  WalkSound(walk', events)
  <1>1. PICK scope \in {NoWorkspace} \cup {WorkspaceOf[o] : o \in Operation},
             outcome \in {"", "success"}, limit \in Limits :
            Read([NoWalk EXCEPT !.scope = scope, !.outcome = outcome,
                                !.limit = Normalize(limit),
                                !.top = Max({row.seq : row \in events})])
    BY DEF FirstPage
  <1> DEFINE top == Max({row.seq : row \in events})
             w == [NoWalk EXCEPT !.scope = scope, !.outcome = outcome,
                                 !.limit = Normalize(limit), !.top = top]
             A == {row \in events : Matches(row, w)}
  <1>2. top \in SeqsOf(events) /\ \A r \in events : r.seq <= top
    <2>1. PICK k \in events : \A x \in events : x.seq <= k.seq
      BY TableFacts, LastRow DEF FirstPage
    <2>2. k.seq \in SeqsOf(events) /\ \A y \in SeqsOf(events) : k.seq >= y
      BY <2>1, TableFacts DEF SeqsOf
    <2>3. \E m \in SeqsOf(events) : \A y \in SeqsOf(events) : m >= y
      BY <2>2
    <2>4. /\ Max(SeqsOf(events)) \in SeqsOf(events)
          /\ \A y \in SeqsOf(events) : Max(SeqsOf(events)) >= y
      BY <2>3 DEF Max
    <2>5. top = Max(SeqsOf(events))
      BY DEF SeqsOf
    <2>6. top \in Nat /\ \A r \in events : r.seq \in SeqsOf(events)
      BY <2>4, <2>5, TableFacts DEF SeqsOf
    <2> HIDE DEF top
    <2> QED
      BY <2>4, <2>5, <2>6, TableFacts
  <1>3. walk' = ReadOf(w, A)
    BY <1>1, ReadIs
  <1> HIDE DEF top
  <1>4. /\ DOMAIN w = WalkFields /\ w.limit = Normalize(limit) /\ w.top = top
        /\ w.before = 0 /\ w.seen = {} /\ w.shown = 0
    BY DEF NoWalk, WalkFields
  <1>5. A = Based(events, w)
    <2>1. \A r : Matches(r, [w EXCEPT !.before = 0]) <=> Matches(r, w)
      BY DEF Matches, NoWalk
    <2> QED
      BY <1>2, <1>4, <2>1 DEF Based
  <1> HIDE DEF w, A
  <1>6. w.limit \in Nat /\ w.limit > 0
    BY <1>4, LimitFacts
  <1>7. IsFiniteSet(w.seen) /\ w.shown = Cardinality(w.seen)
    BY <1>4, FS_EmptySet
  <1>8. A \in SUBSET Based(events, w) /\ Based(events, w) \ A = {}
    BY <1>5
  <1>9. w.seen = SeqsOf(Based(events, w) \ A)
    BY <1>4, <1>8 DEF SeqsOf
  <1>10. WalkSound(ReadOf(w, A), events)
    BY <1>2, <1>4, <1>6, <1>7, <1>8, <1>9, TableFacts, ReadKeepsSound
  <1> QED
    BY <1>3, <1>10

\* NextPage: what matches is what comes before the cursor.
LEMMA NextPageSound ==
    ASSUME AuditInv, PageInv, NextPage
    PROVE  WalkSound(walk', events)
  <1> DEFINE w == walk
             A == {row \in events : Matches(row, w)}
             B == Based(events, w)
  <1>1. w.pc = "more" /\ WalkSound(w, events)
    BY DEF NextPage, PageInv
  <1>2. walk' = ReadOf(w, A)
    BY ReadIs DEF NextPage
  <1>3. /\ DOMAIN w = WalkFields /\ w.limit \in Nat /\ w.limit > 0
        /\ w.top \in SeqsOf(events) /\ w.top \in Nat
        /\ IsFiniteSet(w.seen) /\ w.shown = Cardinality(w.seen)
        /\ w.before \in Nat /\ w.before > 0 /\ w.before <= w.top
        /\ w.seen = SeqsOf({r \in B : r.seq >= w.before})
    BY <1>1, TableFacts DEF WalkSound, SeqsOf
  <1>4. \A r \in events : Matches(r, w) <=>
            Matches(r, [w EXCEPT !.before = 0]) /\ r.seq < w.before
    <2> HIDE DEF w
    <2>1. ASSUME NEW r PROVE Matches(r, w) <=>
                Matches(r, [w EXCEPT !.before = 0]) /\ r.seq < w.before
      <3> DEFINE z == [w EXCEPT !.before = 0]
      <3>1. z.scope = w.scope /\ z.outcome = w.outcome /\ z.before = 0 /\ w.before # 0
        BY <1>3 DEF WalkFields
      <3> HIDE DEF z
      <3>2. Matches(r, w) <=> Matches(r, z) /\ r.seq < w.before
        BY <3>1 DEF Matches
      <3> QED
        BY <3>2 DEF z
    <2> QED
      BY <2>1
  <1>5. A = {r \in B : r.seq < w.before} /\ B \in SUBSET events
    BY <1>3, <1>4, TableFacts DEF Based
  <1> HIDE DEF A, B, w
  <1>6. B \ A = {r \in B : r.seq >= w.before}
    BY <1>3, <1>5, TableFacts
  <1>7. \A r \in B \ A, s \in A : s.seq < r.seq
    BY <1>3, <1>5, <1>6, TableFacts
  <1>8. A \in SUBSET B /\ w.seen = SeqsOf(B \ A)
    BY <1>3, <1>5, <1>6
  <1>9. WalkSound(ReadOf(w, A), events)
    BY <1>3, <1>7, <1>8, TableFacts, ReadKeepsSound DEF B
  <1> QED
    BY <1>2, <1>9

\* A client that follows the cursors to the end was shown every matching event
\* that was there when it began, each once, and nothing else, whatever the
\* limit and however the table grew.
THEOREM CursorsComplete == Spec => []PagesComplete
  <1>1. Init => PageInv
    <2>1. NoWalk.pc = "idle"
      BY DEF NoWalk
    <2> QED
      BY <2>1 DEF Init, PageInv
  <1>2. AuditInv /\ PageInv /\ [Next]_vars => PageInv'
    <2> SUFFICES ASSUME AuditInv, PageInv, [Next]_vars PROVE PageInv'
      OBVIOUS
    <2>1. ASSUME FirstPage \/ NextPage PROVE PageInv'
      <3>1. WalkSound(walk', events) /\ UNCHANGED events
        BY <2>1, FirstPageSound, NextPageSound DEF FirstPage, NextPage
      <3>2. WalkSound(walk', events') /\ walk'.pc # "idle"
        BY <3>1 DEF WalkSound
      <3> QED
        BY <3>2 DEF PageInv
    <2>2. ASSUME UNCHANGED walk, UNCHANGED events \/ \E x : Grows(x) PROVE PageInv'
      <3>1. CASE walk.pc = "idle"
        BY <2>2, <3>1 DEF PageInv
      <3>2. CASE walk.pc # "idle"
        <4>1. WalkSound(walk, events)
          BY <3>2 DEF PageInv
        <4>2. WalkSound(walk, events')
          BY <2>2, <4>1, TableFacts, WalkGrows DEF Grows, RowSound
        <4>3. WalkSound(walk', events') /\ walk'.pc # "idle"
          BY <2>2, <3>2, <4>2
        <4> QED
          BY <4>3 DEF PageInv
      <3> QED
        BY <3>1, <3>2
    <2>3. ASSUME NEW p \in Process, ProcessStep(p)
          PROVE  UNCHANGED walk /\ (UNCHANGED events \/ \E x : Grows(x))
      BY <2>3, GenesisInv DEF ProcessStep, Start, InsertGenesis, GenesisFails, Crash
    <2>4. ASSUME NEW o \in Operation, OperationStep(o)
          PROVE  UNCHANGED walk /\ (UNCHANGED events \/ \E x : Grows(x))
      <3>1. ASSUME Commit(o) \/ CommitLost(o) PROVE UNCHANGED walk /\ Grows(call[o].row)
        BY <3>1, CommitInv DEF Commit, CommitLost
      <3> QED
        BY <2>4, <3>1
           DEF OperationStep, Begin, RefuseRecord, Acquire, Insert, AppendFails, Reply
    <2>5. UNCHANGED vars => UNCHANGED <<walk, events>>
      BY DEF vars
    <2> QED
      BY <2>1, <2>2, <2>3, <2>4, <2>5 DEF Next
  <1>3. PageInv => PagesComplete
    BY DEF PageInv, WalkSound, PagesComplete, SeqsOf, Based, NoWalk
  <1> QED
    BY <1>1, <1>2, <1>3, AuditInvariant, PTL DEF Spec
=============================================================================
