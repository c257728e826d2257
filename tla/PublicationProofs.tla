------------------------- MODULE PublicationProofs -------------------------
(***************************************************************************)
(* Proofs about Publication, for any number of publications and callers:   *)
(* what holds although every command writes back a whole copy that it read *)
(* before.                                                                 *)
(***************************************************************************)
EXTENDS Publication, TLAPS

-----------------------------------------------------------------------------
(* The inductive invariant.                                                *)

\* Justified, of any copy of a row, as far as its fields go.
Sound(r) ==
    /\ r.approved <=> r.status \in {"approved", "published", "failed"}
    /\ r.rejected <=> r.status = "rejected"
    /\ r.reference <=> r.status = "published"
    /\ r.reason <=> r.status = "failed"

\* A command that will deliver holds an approved row as it read it.
Deliverable(k) ==
    /\ k.copy.status \in {"approved", "failed"} /\ k.copy.status = k.read
    /\ k.of \in approvals

\* A command that will write holds a sound copy, one edge of the lifecycle
\* (or the failure of a retry) away from the status it read.
Writable(k) ==
    /\ \/ <<k.read, k.copy.status>> \in AllowedTransition
       \/ k.read = "failed" /\ k.copy.status = "failed"
    /\ k.copy.approved => k.of \in approvals \/ k.op = "approve"

CallSound(c) ==
    LET k == call[c] IN
    /\ k.pc \in {"loaded", "delivered"} =>
        /\ k.op \in Op /\ k.of \in Publications /\ Sound(k.copy)
        /\ k.copy.status = "published" => k.of \in platform
    /\ k.pc = "loaded" /\ k.op \in Delivering => Deliverable(k)
    /\ Writing(c) => Writable(k)
    /\ k.ok /\ k.op \in Delivering => k.of \in platform

PubInv ==
    /\ PubTypeOK
    /\ ApprovalGate
    /\ RowsJustified
    /\ \A p \in Publications : rows[p].approved => p \in approvals
    /\ \A c \in Caller : CallSound(c)

-----------------------------------------------------------------------------
(* What the commands make of a row.                                        *)

\* An absent row is sound.
LEMMA AbsentSound ==
    AbsentPub \in PubRow /\ Sound(AbsentPub)
  BY DEF AbsentPub, PubRow, Sound

\* A decision on an accepted row is sound, and an edge of the lifecycle.
LEMMA DecidedSound ==
    ASSUME NEW r \in PubRow, NEW op \in Op \ Delivering,
           Sound(r), Accepts(op, r)
    PROVE  /\ Decided(op, r) \in PubRow
           /\ Sound(Decided(op, r)) /\ Decided(op, r).status # "published"
           /\ <<r.status, Decided(op, r).status>> \in AllowedTransition
           /\ Decided(op, r).approved => op = "approve"
  <1>1. op \in {"submit", "approve", "reject", "cancel"} /\ op \notin Delivering
    BY DEF Op, Delivering
  <1>2. CanTransition(r.status, Target(op))
    BY <1>1 DEF Accepts
  <1>3. CASE op = "submit"
    BY <1>2, <1>3 DEF Decided, Target, CanTransition, AllowedTransition, FinalStatus,
                      Sound, PubRow, PubStatus, Delivering
  <1>4. CASE op = "approve"
    BY <1>2, <1>4 DEF Decided, Target, CanTransition, AllowedTransition, FinalStatus,
                      Sound, PubRow, PubStatus, Delivering
  <1>5. CASE op = "reject"
    BY <1>2, <1>5 DEF Decided, Target, CanTransition, AllowedTransition, FinalStatus,
                      Sound, PubRow, PubStatus, Delivering
  <1>6. CASE op = "cancel"
    BY <1>2, <1>6 DEF Decided, Target, CanTransition, AllowedTransition, FinalStatus,
                      Sound, PubRow, PubStatus, Delivering
  <1> QED
    BY <1>1, <1>3, <1>4, <1>5, <1>6

\* Only an approved row, or one whose delivery failed, is delivered.
LEMMA AcceptedDelivery ==
    ASSUME NEW r \in PubRow, NEW op \in Delivering, Accepts(op, r)
    PROVE  r.approved /\ r.status \in {"approved", "failed"}
  BY DEF Accepts, Delivering, CanTransition, AllowedTransition, FinalStatus

\* What the platform answered makes of an approved or failed copy.
LEMMA DeliveredSound ==
    ASSUME NEW r \in PubRow, NEW ok \in BOOLEAN,
           Sound(r), r.status \in {"approved", "failed"}
    PROVE  /\ Delivered(r, ok) \in PubRow
           /\ Sound(Delivered(r, ok))
           /\ Delivered(r, ok).status = "published" => ok
           /\ \/ <<r.status, Delivered(r, ok).status>> \in AllowedTransition
              \/ r.status = "failed" /\ Delivered(r, ok).status = "failed"
  BY DEF Delivered, Sound, PubRow, PubStatus, AllowedTransition

-----------------------------------------------------------------------------
(* The invariant holds at the start and is kept by every step.             *)

\* No row and no workflow: nothing to justify yet.
LEMMA PubInitInv == PubInit => PubInv
  <1> SUFFICES ASSUME PubInit PROVE PubInv
    OBVIOUS
  <1> USE DEF PubInit
  <1>1. NoCall \in PubCall /\ NoCall.pc = "idle" /\ ~NoCall.ok
    BY AbsentSound DEF NoCall, PubCall, PubStatus, Op
  <1>2. PubTypeOK
    BY <1>1, AbsentSound DEF PubTypeOK
  <1>3. RowsJustified /\ \A p \in Publications : ~rows[p].approved
    BY DEF RowsJustified, Justified, AbsentPub
  <1>4. \A c \in Caller : CallSound(c)
    BY <1>1 DEF CallSound, Writing
  <1> QED
    BY <1>2, <1>3, <1>4 DEF PubInv, ApprovalGate

\* A caller whose command is untouched stays sound while the histories grow.
LEMMA OtherCalls ==
    ASSUME PubInv, NEW c \in Caller, call'[c] = call[c],
           platform \subseteq platform', approvals \subseteq approvals'
    PROVE  CallSound(c)'
  BY DEF PubInv, CallSound, Sound, Deliverable, Writable, Writing

\* A step that changes one command and no row.
LEMMA CallFrame ==
    ASSUME PubInv, NEW c \in Caller, NEW k \in PubCall,
           call' = [call EXCEPT ![c] = k],
           UNCHANGED <<rows, approvals, rejections>>,
           platform \subseteq platform', platform' \subseteq approvals,
           platform' \subseteq Publications, CallSound(c)'
    PROVE  PubInv'
  <1>1. PubTypeOK'
    BY DEF PubInv, PubTypeOK
  <1>2. \A d \in Caller : CallSound(d)'
    <2> TAKE d \in Caller
    <2>1. CASE d = c
      BY <2>1
    <2>2. CASE d # c
      <3>1. call'[d] = call[d]
        BY <2>2 DEF PubInv, PubTypeOK
      <3> QED
        BY <3>1, OtherCalls
    <2> QED
      BY <2>1, <2>2
  <1>3. ApprovalGate'
    BY DEF ApprovalGate
  <1>4. RowsJustified'
    BY DEF PubInv, RowsJustified, Justified
  <1> QED
    BY <1>1, <1>2, <1>3, <1>4 DEF PubInv

\* The end of a command, wherever it was.
LEMMA EndCallInv ==
    ASSUME PubInv, NEW c \in Caller, call' = [call EXCEPT ![c] = NoCall],
           UNCHANGED <<rows, approvals, rejections, platform>>
    PROVE  PubInv'
  <1>1. NoCall \in PubCall /\ NoCall.pc = "idle" /\ ~NoCall.ok
    BY AbsentSound DEF NoCall, PubCall, PubStatus, Op
  <1>2. call'[c] = NoCall
    BY DEF PubInv, PubTypeOK
  <1>3. CallSound(c)'
    BY <1>1, <1>2 DEF CallSound, Writing
  <1> QED
    BY <1>1, <1>3, CallFrame DEF PubInv, ApprovalGate, PubTypeOK

\* Service.Create: a new row waits for its first approval.
LEMMA CreateInv ==
    ASSUME PubInv, NEW p \in Publications, Create(p)
    PROVE  PubInv'
  <1> DEFINE new == [AbsentPub EXCEPT !.status = "queued"]
  <1>1. /\ rows' = [rows EXCEPT ![p] = new]
        /\ UNCHANGED <<call, approvals, rejections, platform>>
    BY DEF Create
  <1>2. new \in PubRow /\ ~new.approved /\ Sound(new) /\ new.status # "published"
    BY DEF AbsentPub, PubRow, PubStatus, Sound
  <1>3. PubTypeOK'
    BY <1>1, <1>2 DEF PubInv, PubTypeOK
  <1>4. \A q \in Publications : rows'[q] = IF q = p THEN new ELSE rows[q]
    BY <1>1 DEF PubInv, PubTypeOK
  <1> HIDE DEF new
  <1>5. RowsJustified'
    BY <1>1, <1>2, <1>4 DEF PubInv, RowsJustified, Justified, Sound
  <1>6. \A c \in Caller : CallSound(c)'
    BY <1>1, OtherCalls
  <1>7. \A q \in Publications : rows'[q].approved => q \in approvals'
    BY <1>1, <1>2, <1>4 DEF PubInv
  <1> QED
    BY <1>1, <1>3, <1>5, <1>6, <1>7 DEF PubInv, ApprovalGate

\* The copy of a command that is refused is never written.
LEMMA BeginInv ==
    ASSUME PubInv, NEW c \in Caller, NEW p \in Publications, NEW op \in Op,
           Begin(c, p, op)
    PROVE  PubInv'
  <1> DEFINE r == rows[p]
             pc == IF Accepts(op, r) THEN "loaded" ELSE "done"
             copy == IF Accepts(op, r) /\ op \notin Delivering THEN Decided(op, r) ELSE r
             k == [NoCall EXCEPT !.op = op, !.of = p, !.read = r.status, !.pc = pc,
                                 !.copy = copy]
  <1>1. /\ call' = [call EXCEPT ![c] = k]
        /\ UNCHANGED <<rows, approvals, rejections, platform>>
    BY DEF Begin
  <1>2. /\ r \in PubRow /\ Sound(r) /\ (r.approved => p \in approvals)
        /\ r.status = "published" => p \in platform
    BY DEF PubInv, PubTypeOK, RowsJustified, Justified, Sound
  <1>3. call'[c] = k
    BY <1>1 DEF PubInv, PubTypeOK
  <1>4. Accepts(op, r) /\ op \notin Delivering =>
            /\ Decided(op, r) \in PubRow
            /\ Sound(Decided(op, r)) /\ Decided(op, r).status # "published"
            /\ <<r.status, Decided(op, r).status>> \in AllowedTransition
            /\ Decided(op, r).approved => op = "approve"
    BY <1>2, DecidedSound
  <1>5. Accepts(op, r) /\ op \in Delivering =>
            r.approved /\ r.status \in {"approved", "failed"}
    BY <1>2, AcceptedDelivery
  <1>6. pc \in {"loaded", "done"} /\ copy \in PubRow /\ r.status \in PubStatus \cup {"absent"}
    BY <1>2, <1>4 DEF PubRow
  <1>7. /\ k \in PubCall /\ ~k.ok
        /\ k.op = op /\ k.of = p /\ k.read = r.status /\ k.pc = pc /\ k.copy = copy
    <2> HIDE DEF pc, copy, r
    <2> QED
      BY <1>6 DEF NoCall, PubCall
  <1> HIDE DEF k
  <1>8. CallSound(c)'
    <2>1. CASE Accepts(op, r) /\ op \notin Delivering
      BY <1>1, <1>3, <1>4, <1>7, <2>1 DEF CallSound, Writing, Writable
    <2>2. CASE Accepts(op, r) /\ op \in Delivering
      BY <1>1, <1>2, <1>3, <1>5, <1>7, <2>2 DEF CallSound, Writing, Deliverable
    <2>3. CASE ~Accepts(op, r)
      BY <1>3, <1>7, <2>3 DEF CallSound, Writing
    <2> QED
      BY <2>1, <2>2, <2>3
  <1> QED
    BY <1>1, <1>7, <1>8, CallFrame DEF PubInv, ApprovalGate, PubTypeOK

\* A delivery that the limiter turns away has read nothing.
LEMMA ThrottledInv ==
    ASSUME PubInv, NEW c \in Caller, NEW p \in Publications, NEW op \in Op,
           Throttled(c, p, op)
    PROVE  PubInv'
  <1> DEFINE k == [NoCall EXCEPT !.op = op, !.of = p, !.pc = "done"]
  <1>1. /\ call' = [call EXCEPT ![c] = k]
        /\ UNCHANGED <<rows, approvals, rejections, platform>>
    BY DEF Throttled
  <1>2. k \in PubCall /\ k.pc = "done" /\ ~k.ok
    BY AbsentSound DEF NoCall, PubCall, PubStatus
  <1>3. call'[c] = k
    BY <1>1 DEF PubInv, PubTypeOK
  <1> HIDE DEF k
  <1>4. CallSound(c)'
    BY <1>2, <1>3 DEF CallSound, Writing
  <1> QED
    BY <1>1, <1>2, <1>4, CallFrame DEF PubInv, ApprovalGate, PubTypeOK

\* What is handed over was approved: the copy says so, and copies do not lie.
LEMMA DeliverInv ==
    ASSUME PubInv, NEW c \in Caller, NEW ok \in BOOLEAN, NEW accepted \in BOOLEAN,
           Deliver(c, ok, accepted)
    PROVE  PubInv'
  <1> DEFINE j == call[c]
             k == [j EXCEPT !.pc = "delivered", !.ok = ok, !.copy = Delivered(j.copy, ok)]
  <1>1. /\ j.pc = "loaded" /\ j.op \in Delivering /\ (ok => accepted)
        /\ call' = [call EXCEPT ![c] = k]
        /\ platform' = IF accepted THEN platform \cup {j.of} ELSE platform
        /\ UNCHANGED <<rows, approvals, rejections>>
    BY DEF Deliver
  <1>2. /\ j \in PubCall /\ j.op \in Op /\ j.of \in Publications
        /\ j.copy \in PubRow /\ Sound(j.copy)
        /\ j.copy.status \in {"approved", "failed"} /\ j.copy.status = j.read
        /\ j.of \in approvals
    BY <1>1 DEF PubInv, PubTypeOK, PubCall, CallSound, Deliverable
  <1>3. call'[c] = k
    BY <1>1 DEF PubInv, PubTypeOK
  <1>4. /\ Delivered(j.copy, ok) \in PubRow
        /\ Sound(Delivered(j.copy, ok))
        /\ Delivered(j.copy, ok).status = "published" => ok
        /\ \/ <<j.read, Delivered(j.copy, ok).status>> \in AllowedTransition
           \/ j.read = "failed" /\ Delivered(j.copy, ok).status = "failed"
    <2> HIDE DEF j
    <2> QED
      BY <1>2, DeliveredSound
  <1>5. /\ k \in PubCall /\ k.pc = "delivered" /\ k.op = j.op /\ k.of = j.of
        /\ k.read = j.read /\ k.ok = ok /\ k.copy = Delivered(j.copy, ok)
    <2> HIDE DEF j
    <2> QED
      BY <1>2, <1>4 DEF PubCall
  <1>6. /\ platform \subseteq platform' /\ platform' \subseteq approvals
        /\ platform' \subseteq Publications /\ (ok => j.of \in platform')
    BY <1>1, <1>2 DEF PubInv, PubTypeOK, ApprovalGate
  <1> HIDE DEF k, j
  <1>7. Sound(k.copy) /\ (k.copy.status = "published" => k.of \in platform')
    BY <1>4, <1>5, <1>6
  <1>8. CallSound(c)'
    BY <1>1, <1>2, <1>3, <1>4, <1>5, <1>6, <1>7 DEF CallSound, Writing, Writable
  <1> QED
    BY <1>1, <1>5, <1>6, <1>8, CallFrame

\* A copy replaces the row: it is sound, and approved only with an approval.
LEMMA UpdateInv ==
    ASSUME PubInv, NEW c \in Caller, Update(c)
    PROVE  PubInv'
  <1> DEFINE j == call[c]
             p == j.of
             k == [j EXCEPT !.pc = "done", !.ok = @ \/ j.op \notin Delivering]
  <1>1. /\ Writing(c)
        /\ rows' = [rows EXCEPT ![p] = j.copy]
        /\ call' = [call EXCEPT ![c] = k]
        /\ approvals' = IF j.op = "approve" THEN approvals \cup {p} ELSE approvals
        /\ rejections' = IF j.op = "reject" THEN rejections \cup {p} ELSE rejections
        /\ UNCHANGED platform
    BY DEF Update
  <1>2. /\ j \in PubCall /\ p \in Publications /\ j.copy \in PubRow
        /\ Sound(j.copy) /\ (j.copy.status = "published" => p \in platform)
        /\ j.copy.approved => p \in approvals \/ j.op = "approve"
        /\ j.ok /\ j.op \in Delivering => p \in platform
    BY <1>1 DEF PubInv, PubTypeOK, PubCall, CallSound, Writing, Writable
  <1>3. /\ k \in PubCall /\ k.pc = "done" /\ k.op = j.op /\ k.of = p
        /\ k.ok /\ k.op \in Delivering => j.ok
    <2> HIDE DEF j
    <2> QED
      BY <1>2 DEF PubCall
  <1>4. PubTypeOK'
    BY <1>1, <1>2, <1>3 DEF PubInv, PubTypeOK
  <1>5. /\ \A q \in Publications : rows'[q] = IF q = p THEN j.copy ELSE rows[q]
        /\ \A d \in Caller : call'[d] = IF d = c THEN k ELSE call[d]
    BY <1>1 DEF PubInv, PubTypeOK
  <1> HIDE DEF k, j, p
  <1>6. RowsJustified'
    <2> SUFFICES ASSUME NEW q \in Publications PROVE Justified(q)'
      BY DEF RowsJustified
    <2>1. CASE q = p
      BY <1>1, <1>2, <1>5, <2>1 DEF Justified, Sound
    <2>2. CASE q # p
      BY <1>1, <1>5, <2>2 DEF PubInv, RowsJustified, Justified
    <2> QED
      BY <2>1, <2>2
  <1>7. \A q \in Publications : rows'[q].approved => q \in approvals'
    BY <1>1, <1>2, <1>5 DEF PubInv
  <1>8. \A d \in Caller : CallSound(d)'
    <2> TAKE d \in Caller
    <2>1. CASE d = c
      BY <1>1, <1>2, <1>3, <1>5, <2>1 DEF CallSound, Writing
    <2>2. CASE d # c
      BY <1>1, <1>5, <2>2, OtherCalls
    <2> QED
      BY <2>1, <2>2
  <1>9. ApprovalGate'
    BY <1>1 DEF PubInv, ApprovalGate
  <1> QED
    BY <1>4, <1>6, <1>7, <1>8, <1>9 DEF PubInv

\* A statement that fails leaves row and workflow as they are.
LEMMA UpdateFailsInv ==
    ASSUME PubInv, NEW c \in Caller, UpdateFails(c)
    PROVE  PubInv'
  <1> DEFINE j == call[c]
             k == [j EXCEPT !.pc = "done", !.ok = FALSE]
  <1>1. /\ call' = [call EXCEPT ![c] = k]
        /\ UNCHANGED <<rows, approvals, rejections, platform>>
    BY DEF UpdateFails
  <1>2. k \in PubCall /\ k.pc = "done" /\ ~k.ok
    BY DEF PubInv, PubTypeOK, PubCall
  <1>3. call'[c] = k
    BY <1>1 DEF PubInv, PubTypeOK
  <1> HIDE DEF k
  <1>4. CallSound(c)'
    BY <1>2, <1>3 DEF CallSound, Writing
  <1> QED
    BY <1>1, <1>2, <1>4, CallFrame DEF PubInv, ApprovalGate, PubTypeOK

\* A step of the service, whoever called it.
LEMMA ServiceStepInv ==
    ASSUME PubInv, NEW c \in Caller, ServiceStep(c)
    PROVE  PubInv'
  BY DeliverInv, UpdateInv, UpdateFailsInv DEF ServiceStep

\* A step outside the publishing service.
LEMMA PubUnchanged == PubInv /\ UNCHANGED pubVars => PubInv'
  <1> SUFFICES ASSUME PubInv, UNCHANGED pubVars PROVE PubInv'
    OBVIOUS
  <1> USE DEF pubVars
  <1>1. \A c \in Caller : CallSound(c)'
    BY OtherCalls
  <1>2. PubTypeOK' /\ ApprovalGate' /\ RowsJustified'
    BY DEF PubInv, PubTypeOK, ApprovalGate, RowsJustified, Justified
  <1> QED
    BY <1>1, <1>2 DEF PubInv

\* Every step of the publishing service keeps the invariant.
LEMMA PubStep == PubInv /\ [PubNext]_pubVars => PubInv'
  BY CreateInv, BeginInv, ThrottledInv, ServiceStepInv, EndCallInv, PubUnchanged
     DEF PubNext, EndCall

-----------------------------------------------------------------------------
(* The theorems.                                                           *)

\* The invariant, in every behaviour of the service.
THEOREM PubInvariant == PubSpec => []PubInv
  BY PubInitInv, PubStep, PTL DEF PubSpec

\* Rows and commands are well formed.
THEOREM PublicationTyped == PubSpec => []PubTypeOK
  <1>1. PubInv => PubTypeOK
    BY DEF PubInv
  <1> QED
    BY <1>1, PubInvariant, PTL

\* Nothing reaches the platform that no human approved (service.go, Publish),
\* however many commands overlap and overwrite each other.
THEOREM OversightHolds == PubSpec => []ApprovalGate
  <1>1. PubInv => ApprovalGate
    BY DEF PubInv
  <1> QED
    BY <1>1, PubInvariant, PTL

\* Every row carries the fields that justify its status, and is published only
\* if the platform has it (Update writes whole copies).
THEOREM RowsTruthful == PubSpec => []RowsJustified
  <1>1. PubInv => RowsJustified
    BY DEF PubInv
  <1> QED
    BY <1>1, PubInvariant, PTL

\* Only a write changes a status, and it knows the status it replaces, or it
\* is a lost update.
LEMMA StatusStep ==
    ASSUME PubInv, PubNext, NEW p \in Publications, rows'[p].status # rows[p].status
    PROVE  \/ rows[p].status = "absent"
           \/ <<rows[p].status, rows'[p].status>> \in AllowedTransition
           \/ LostUpdate(p)
  <1>1. ASSUME NEW q \in Publications, Create(q)
        PROVE  rows[p].status = "absent"
    BY <1>1 DEF Create, PubInv, PubTypeOK
  <1>2. ASSUME NEW c \in Caller, Update(c)
        PROVE  \/ <<rows[p].status, rows'[p].status>> \in AllowedTransition
               \/ LostUpdate(p)
    <2>1. /\ Writing(c) /\ call[c].of = p /\ rows'[p] = call[c].copy
          /\ call'[c].pc = "done"
      BY <1>2 DEF Update, PubInv, PubTypeOK, PubCall
    <2>2. \/ <<call[c].read, call[c].copy.status>> \in AllowedTransition
          \/ call[c].read = "failed" /\ call[c].copy.status = "failed"
      BY <2>1 DEF PubInv, CallSound, Writable
    <2>3. CASE call[c].read = rows[p].status
      BY <2>1, <2>2, <2>3
    <2>4. CASE call[c].read # rows[p].status
      BY <2>1, <2>4 DEF LostUpdate
    <2> QED
      BY <2>3, <2>4
  <1>3. ASSUME UNCHANGED rows PROVE FALSE
    BY <1>3
  <1> QED
    BY <1>1, <1>2, <1>3
       DEF PubNext, ServiceStep, Begin, Throttled, Deliver, UpdateFails, EndCall

\* A status moves along the lifecycle, final statuses included, or a command
\* overwrites what it has not seen (CanTransition and Update).
THEOREM LifecycleHolds == PubSpec => LifecycleKept
  <1>1. PubInv /\ [PubNext]_pubVars =>
            [\A p \in Publications :
                rows'[p].status # rows[p].status =>
                    \/ rows[p].status = "absent"
                    \/ <<rows[p].status, rows'[p].status>> \in AllowedTransition
                    \/ LostUpdate(p)]_pubVars
    BY StatusStep
  <1> QED
    BY <1>1, PubInvariant, PTL DEF PubSpec, LifecycleKept
=============================================================================
