--------------------------- MODULE SessionsProofs ---------------------------
(***************************************************************************)
(* Proofs about Sessions, for any number of concurrent requests, accounts  *)
(* and tokens and any sweep threshold: what a refresh store without        *)
(* compare-and-set guarantees all the same.                                *)
(***************************************************************************)
EXTENDS Sessions, TLAPS, FiniteSetTheorems, SequenceTheorems, WellFoundedInduction

-----------------------------------------------------------------------------
(* The refresh store as a function.                                        *)

Stored(s) == s \in [DOMAIN s -> Record]

\* Sweeping drops records and changes none.
LEMMA SweptFacts ==
    ASSUME NEW s, Stored(s)
    PROVE  /\ DOMAIN Swept(s) \subseteq DOMAIN s
           /\ Stored(Swept(s))
           /\ \A t \in DOMAIN Swept(s) : Swept(s)[t] = s[t]
  <1> DEFINE fresh == evictExpired(s)
  <1>1. /\ DOMAIN fresh \subseteq DOMAIN s
        /\ \A t \in DOMAIN fresh : fresh[t] = s[t]
    BY DEF evictExpired, Restrict
  <1>2. /\ DOMAIN evictOldest(fresh, refreshEvictBatch) \subseteq DOMAIN fresh
        /\ \A t \in DOMAIN evictOldest(fresh, refreshEvictBatch) :
            evictOldest(fresh, refreshEvictBatch)[t] = fresh[t]
    BY DEF evictOldest, Restrict
  <1>3. /\ DOMAIN Swept(s) \subseteq DOMAIN s
        /\ \A t \in DOMAIN Swept(s) : Swept(s)[t] = s[t]
    BY <1>1, <1>2 DEF Swept
  <1>4. Swept(s) = [t \in DOMAIN Swept(s) |-> Swept(s)[t]]
    BY DEF Swept, evictExpired, evictOldest, Restrict
  <1> QED
    BY <1>3, <1>4 DEF Stored

\* Save puts the record in and changes no other.
LEMMA SaveFacts ==
    ASSUME Stored(store), NEW t, NEW rec \in Record
    PROVE  /\ DOMAIN Save(t, rec) \subseteq DOMAIN store \cup {t}
           /\ Stored(Save(t, rec))
           /\ t \in DOMAIN Save(t, rec) /\ Save(t, rec)[t] = rec
           /\ \A u \in DOMAIN Save(t, rec) \ {t} : Save(t, rec)[u] = store[u]
  <1>1. ASSUME NEW s, Stored(s), DOMAIN s \subseteq DOMAIN store,
               \A u \in DOMAIN s : s[u] = store[u]
        PROVE  /\ DOMAIN Put(s, t, rec) \subseteq DOMAIN store \cup {t}
               /\ Stored(Put(s, t, rec))
               /\ t \in DOMAIN Put(s, t, rec) /\ Put(s, t, rec)[t] = rec
               /\ \A u \in DOMAIN Put(s, t, rec) \ {t} : Put(s, t, rec)[u] = store[u]
    BY <1>1 DEF Put, Stored
  <1>2. CASE t \notin DOMAIN store /\ Cardinality(DOMAIN store) >= refreshSweepThreshold
    <2>1. Save(t, rec) = Put(Swept(store), t, rec)
      BY <1>2 DEF Save
    <2> QED
      BY <1>1, <2>1, SweptFacts
  <1>3. CASE ~(t \notin DOMAIN store /\ Cardinality(DOMAIN store) >= refreshSweepThreshold)
    <2>1. Save(t, rec) = Put(store, t, rec)
      BY <1>3 DEF Save
    <2> QED
      BY <1>1, <2>1
  <1> QED
    BY <1>2, <1>3

\* A set of naturals that is not empty has a least element.
LEMMA LeastElement ==
    ASSUME NEW T \in SUBSET Nat, T # {}
    PROVE  \E m \in T : \A n \in T : m <= n
  <1>1. PICK m \in T : \A n \in T : ~(<<n, m>> \in OpToRel(<, Nat))
    BY NatLessThanWellFounded, WFMin
  <1>2. \A n \in T : ~(n < m)
    BY <1>1 DEF OpToRel
  <1> QED
    BY <1>2

\* A sweep makes room: of a store within its bound, fewer records than the
\* threshold are left.
LEMMA SweepMakesRoom ==
    ASSUME NEW s, IsFiniteSet(DOMAIN s), DOMAIN s \subseteq Nat,
           Cardinality(DOMAIN s) <= refreshSweepThreshold
    PROVE  /\ IsFiniteSet(DOMAIN Swept(s))
           /\ Cardinality(DOMAIN Swept(s)) <= refreshSweepThreshold - 1
  <1> USE SweepAssumption
  <1> DEFINE fresh == evictExpired(s)
             D == DOMAIN fresh
             K == DOMAIN evictOldest(fresh, refreshEvictBatch)
  <1>1. /\ D \subseteq DOMAIN s /\ IsFiniteSet(D)
        /\ Cardinality(D) \in Nat /\ Cardinality(D) <= refreshSweepThreshold
    <2>1. D \in SUBSET DOMAIN s
      BY DEF evictExpired, Restrict
    <2>2. IsFiniteSet(D) /\ Cardinality(D) <= Cardinality(DOMAIN s)
      BY <2>1, FS_Subset
    <2>3. Cardinality(D) \in Nat /\ Cardinality(DOMAIN s) \in Nat
      BY <2>2, FS_CardinalityType
    <2> QED
      BY <2>1, <2>2, <2>3
  <1>2. CASE Cardinality(D) < refreshSweepThreshold
    <2>1. Swept(s) = fresh
      BY <1>2 DEF Swept
    <2> QED
      BY <1>1, <1>2, <2>1
  <1>3. CASE ~(Cardinality(D) < refreshSweepThreshold)
    <2>1. Swept(s) = evictOldest(fresh, refreshEvictBatch)
      BY <1>3 DEF Swept
    <2>2. D # {}
      BY <1>1, <1>3, FS_EmptySet
    <2>3. PICK m \in D : \A n \in D : m <= n
      <3>1. D \in SUBSET Nat
        BY <1>1
      <3> QED
        BY <2>2, <3>1, LeastElement
    <2>4. {u \in D : u < m} = {}
      <3>1. \A u \in D : ~(u < m)
        BY <1>1, <2>3
      <3> QED
        BY <3>1
    <2>5. K = {t \in D : Cardinality({u \in D : u < t}) >= refreshEvictBatch}
      BY DEF evictOldest, Restrict
    <2>6. K \in SUBSET (D \ {m})
      <3>1. ~(Cardinality({u \in D : u < m}) >= refreshEvictBatch)
        <4>1. Cardinality({u \in D : u < m}) = 0
          BY <2>4, FS_EmptySet
        <4> QED
          BY <4>1
      <3> HIDE DEF K
      <3> QED
        BY <2>5, <3>1
    <2>7. /\ IsFiniteSet(D \ {m})
          /\ Cardinality(D \ {m}) = Cardinality(D) - 1
      BY <1>1, <2>3, FS_RemoveElement
    <2>8. IsFiniteSet(K) /\ Cardinality(K) <= Cardinality(D) - 1
      BY <2>6, <2>7, FS_Subset
    <2>9. Cardinality(K) \in Nat
      BY <2>8, FS_CardinalityType
    <2> HIDE DEF K
    <2> QED
      BY <1>1, <2>1, <2>8, <2>9 DEF K
  <1> QED
    BY <1>2, <1>3

-----------------------------------------------------------------------------
(* The inductive invariant.                                                *)

Identity == Accounts \cup {Founder}
Request ==
    [op : {"none", "login", "refresh"},
     pc : {"idle", "lookup", "revoke", "rotate", "issue", "record"},
     user : Identity, token : Nat, late : BOOLEAN]

\* Whatever the store, a client, a request or the history mentions was issued.
SessionsTypeOK ==
    /\ users \subseteq Identity
    /\ minted \in Seq([user : Identity, family : Nat])
    /\ Stored(store) /\ DOMAIN store \subseteq DOMAIN minted
    /\ held \subseteq DOMAIN minted
    /\ ended \subseteq DOMAIN minted
    /\ call \in [Clients -> Request]
    /\ \A c \in Clients :
        /\ call[c].op = "refresh" => call[c].token \in DOMAIN minted
        /\ call[c].op = "login" /\ call[c].pc = "record" => call[c].token \in DOMAIN minted
        /\ call[c].pc = "issue" => call[c].op # "none"

\* A request that came too late stands before a token that is dead.
LateDead == \A c \in Clients :
    call[c].late => call[c].op = "refresh" /\ call[c].token \notin Live

SessionsInv ==
    SessionsTypeOK /\ ReplayEndsFamily /\ LateDead /\ LateRefused /\ StoreBounded

\* It holds at the start.
LEMMA InitInv == Init => SessionsInv
  <1> SUFFICES ASSUME Init PROVE SessionsInv
    OBVIOUS
  <1> USE DEF Init
  <1>1. users \subseteq Identity
    BY DEF kSubset, Identity
  <1>2. /\ store = <<>> /\ DOMAIN store = {}
    OBVIOUS
  <1>3. Stored(store)
    <2>1. store = [t \in {} |-> 0]
      BY <1>2
    <2> QED
      BY <1>2, <2>1 DEF Stored
  <1>4. minted \in Seq([user : Identity, family : Nat])
    OBVIOUS
  <1>5. Nobody \in Request /\ Nobody.op = "none" /\ Nobody.pc = "idle" /\ ~Nobody.late
    BY DEF Nobody, Request, Identity
  <1>6. SessionsTypeOK
    BY <1>1, <1>2, <1>3, <1>4, <1>5 DEF SessionsTypeOK
  <1>7. LateDead /\ LateRefused
    BY <1>5 DEF LateDead, LateRefused
  <1>8. ReplayEndsFamily
    BY DEF ReplayEndsFamily
  <1>9. StoreBounded
    BY <1>2, FS_EmptySet, SweepAssumption DEF StoreBounded
  <1> QED
    BY <1>6, <1>7, <1>8, <1>9 DEF SessionsInv

\* An issued token is a number up to the last; the next is none of them.
LEMMA MintedFacts ==
    ASSUME SessionsTypeOK
    PROVE  /\ Len(minted) \in Nat
           /\ DOMAIN minted = 1..Len(minted)
           /\ IsFiniteSet(DOMAIN store) /\ DOMAIN store \subseteq Nat
           /\ Cardinality(DOMAIN store) \in Nat
  <1>1. Len(minted) \in Nat /\ DOMAIN minted = 1..Len(minted)
    BY DEF SessionsTypeOK
  <1>2. IsFiniteSet(DOMAIN minted)
    BY <1>1, FS_Interval
  <1>3. DOMAIN store \in SUBSET DOMAIN minted
    BY DEF SessionsTypeOK
  <1>4. IsFiniteSet(DOMAIN store)
    BY <1>2, <1>3, FS_Subset
  <1> QED
    BY <1>1, <1>3, <1>4, FS_CardinalityType

\* Save never takes the store over its threshold, be the record new, known,
\* or evicted since it was read.
LEMMA SaveBounded ==
    ASSUME SessionsInv, NEW t \in Nat, NEW rec
    PROVE  Cardinality(DOMAIN Save(t, rec)) <= refreshSweepThreshold
  <1> USE SweepAssumption
  <1>0. /\ IsFiniteSet(DOMAIN store) /\ DOMAIN store \subseteq Nat
        /\ Cardinality(DOMAIN store) \in Nat
        /\ Cardinality(DOMAIN store) <= refreshSweepThreshold
    BY MintedFacts DEF SessionsInv, StoreBounded
  <1>1. \A s : DOMAIN Put(s, t, rec) = DOMAIN s \cup {t}
    BY DEF Put
  <1>2. CASE t \in DOMAIN store
    <2>1. DOMAIN Save(t, rec) = DOMAIN store
      BY <1>1, <1>2 DEF Save
    <2> QED
      BY <1>0, <2>1
  <1>3. CASE t \notin DOMAIN store /\ Cardinality(DOMAIN store) >= refreshSweepThreshold
    <2> DEFINE S == DOMAIN Swept(store)
    <2>1. DOMAIN Save(t, rec) = S \cup {t}
      BY <1>1, <1>3 DEF Save
    <2>2. IsFiniteSet(S) /\ Cardinality(S) <= refreshSweepThreshold - 1
      BY <1>0, SweepMakesRoom
    <2> HIDE DEF S
    <2>3. Cardinality(S) \in Nat
      BY <2>2, FS_CardinalityType
    <2>4. Cardinality(S \cup {t}) <= Cardinality(S) + 1
      BY <2>2, <2>3, FS_AddElement
    <2>5. Cardinality(S \cup {t}) \in Nat
      BY <2>2, FS_AddElement, FS_CardinalityType
    <2> QED
      BY <2>1, <2>2, <2>3, <2>4, <2>5
  <1>4. CASE t \notin DOMAIN store /\ ~(Cardinality(DOMAIN store) >= refreshSweepThreshold)
    <2>1. DOMAIN Save(t, rec) = DOMAIN store \cup {t}
      BY <1>1, <1>4 DEF Save
    <2>2. Cardinality(DOMAIN store \cup {t}) = Cardinality(DOMAIN store) + 1
      BY <1>0, <1>4, FS_AddElement
    <2> QED
      BY <1>0, <1>4, <2>1, <2>2
  <1> QED
    BY <1>2, <1>3, <1>4

-----------------------------------------------------------------------------
(* One step.                                                               *)

Dead == \A t \in DOMAIN minted : t \notin Live => t \notin Live'

\* A step that leaves the store alone and moves no late request onward.
LEMMA QuietStep ==
    ASSUME SessionsInv, SessionsTypeOK', UNCHANGED <<store, ended>>,
           \A c \in Clients : call'[c].late =>
               /\ call'[c].op = "refresh" /\ call'[c].token \notin Live
               /\ call'[c].pc \in {"lookup", "revoke"}
    PROVE  SessionsInv' /\ Dead
  <1>1. Live' = Live
    BY DEF Live
  <1>2. LateDead' /\ LateRefused'
    BY <1>1 DEF LateDead, LateRefused
  <1>3. ReplayEndsFamily' /\ StoreBounded'
    BY DEF SessionsInv, ReplayEndsFamily, StoreBounded
  <1> QED
    BY <1>1, <1>2, <1>3 DEF SessionsInv, Dead

\* Requests that begin, and those that only read or answer.
LEMMA RequestSteps ==
    ASSUME SessionsInv, NEW c \in Clients,
           \/ Bootstrap(c)
           \/ \E u \in users : Login(c, u)
           \/ \E t \in held : RefreshBegins(c, t)
           \/ Lookup(c)
           \/ \E u \in Bearers, name \in WorkspaceNames : CreateWorkspace(c, u, name)
           \/ Recorded(c) \/ RecordFails(c)
    PROVE  SessionsInv' /\ Dead
  <1> USE DEF SessionsInv, SessionsTypeOK
  <1>0. Nobody \in Request /\ Nobody.op = "none" /\ Nobody.pc = "idle" /\ ~Nobody.late
    BY DEF Nobody, Request, Identity
  <1>a. DOMAIN minted \subseteq Nat
    BY MintedFacts
  <1>1. CASE Bootstrap(c) \/ \E u \in Bearers, name \in WorkspaceNames : CreateWorkspace(c, u, name)
    <2>1. /\ call[c] = Nobody /\ call' = [call EXCEPT ![c].pc = "record"]
          /\ users' \subseteq Identity
          /\ UNCHANGED <<minted, store, held, ended>>
      BY <1>1 DEF Bootstrap, CreateWorkspace, Records, Identity
    <2>2. call' \in [Clients -> Request]
      BY <2>1 DEF Request
    <2>3. SessionsTypeOK'
      BY <1>0, <2>1, <2>2 DEF Stored
    <2> QED
      BY <1>0, <2>1, <2>3, QuietStep DEF LateDead, LateRefused
  <1>2. CASE \E u \in users : Login(c, u)
    <2>1. PICK u \in users : Login(c, u)
      BY <1>2
    <2>2. /\ call' = [call EXCEPT ![c] =
                [op |-> "login", pc |-> "issue", user |-> u, token |-> 0, late |-> FALSE]]
          /\ UNCHANGED <<users, minted, store, held, ended>>
      BY <2>1 DEF Login, Starts
    <2>3. call' \in [Clients -> Request]
      BY <2>2 DEF Request
    <2>4. SessionsTypeOK'
      BY <2>2, <2>3 DEF Stored
    <2> QED
      BY <2>2, <2>4, QuietStep DEF LateDead, LateRefused
  <1>3. CASE \E t \in held : RefreshBegins(c, t)
    <2>1. PICK t \in held : RefreshBegins(c, t)
      BY <1>3
    <2> DEFINE late == t \notin Live
    <2>2. /\ call' = [call EXCEPT ![c] =
                [op |-> "refresh", pc |-> "lookup", user |-> minted[t].user,
                 token |-> t, late |-> late]]
          /\ minted[t].user \in users
          /\ UNCHANGED <<users, minted, store, held, ended>>
      BY <2>1 DEF RefreshBegins, Starts
    <2>3. t \in DOMAIN minted /\ t \in Nat /\ minted[t].user \in Identity
      BY <1>a, <2>2
    <2>4. call' \in [Clients -> Request]
      BY <2>2, <2>3 DEF Request
    <2>5. SessionsTypeOK'
      BY <2>2, <2>3, <2>4 DEF Stored
    <2> QED
      BY <2>2, <2>5, QuietStep DEF LateDead, LateRefused
  <1>4. CASE Lookup(c)
    <2>1. /\ call[c].op = "refresh" /\ call[c].pc = "lookup"
          /\ UNCHANGED <<users, minted, store, held, ended>>
      BY <1>4 DEF Lookup, At
    <2>2. CASE call' = [call EXCEPT ![c] = Nobody]
      <3>1. SessionsTypeOK'
        BY <1>0, <2>1, <2>2 DEF Stored
      <3> QED
        BY <1>0, <2>1, <2>2, <3>1, QuietStep DEF LateDead, LateRefused
    <2>3. CASE call' = [call EXCEPT ![c].pc = "revoke"]
      <3>1. call' \in [Clients -> Request]
        BY <2>3 DEF Request
      <3>2. SessionsTypeOK'
        BY <2>1, <2>3, <3>1 DEF Stored
      <3> QED
        BY <2>1, <2>3, <3>2, QuietStep DEF LateDead, LateRefused
    <2>4. CASE call' = [call EXCEPT ![c].pc = "rotate"] /\ call[c].token \in Live
      <3>1. call' \in [Clients -> Request]
        BY <2>4 DEF Request
      <3>2. SessionsTypeOK'
        BY <2>1, <2>4, <3>1 DEF Stored
      <3>3. ~call[c].late
        BY <2>4 DEF LateDead
      <3> QED
        BY <2>1, <2>4, <3>2, <3>3, QuietStep DEF LateDead, LateRefused
    <2> QED
      BY <1>4, <2>2, <2>3, <2>4 DEF Lookup, Moves, Answers
  <1>5. CASE Recorded(c) \/ RecordFails(c)
    <2>1. /\ call[c].pc = "record" /\ call' = [call EXCEPT ![c] = Nobody]
          /\ held' \subseteq DOMAIN minted
          /\ UNCHANGED <<users, minted, store, ended>>
      BY <1>5 DEF Recorded, RecordFails, Answers
    <2>2. call' \in [Clients -> Request]
      BY <1>0, <2>1
    <2>3. SessionsTypeOK'
      BY <1>0, <2>1, <2>2 DEF Stored
    <2> QED
      BY <1>0, <2>1, <2>3, QuietStep DEF LateDead, LateRefused
  <1> QED
    BY <1>1, <1>2, <1>3, <1>4, <1>5

\* Time, and operators of the database.
LEMMA EnvironmentSteps ==
    ASSUME SessionsInv, Expire \/ \E u \in users \cap Accounts : RemoveAccount(u)
    PROVE  SessionsInv' /\ Dead
  <1>1. /\ users' \subseteq users
        /\ UNCHANGED <<minted, store, held, call, ended>>
    BY DEF Expire, RemoveAccount
  <1>2. SessionsTypeOK'
    BY <1>1 DEF SessionsInv, SessionsTypeOK, Stored
  <1> QED
    BY <1>1, <1>2, QuietStep DEF SessionsInv, LateDead, LateRefused

\* A step that changes the store: if nothing dead comes alive, what was ended
\* stays revoked and no request becomes late, the rest is the type's and the
\* bound's.
LEMMA StoreStep ==
    ASSUME SessionsInv, SessionsTypeOK', StoreBounded', ReplayEndsFamily', Dead,
           \A c \in Clients : call'[c].late =>
               /\ call[c].late /\ call'[c].op = call[c].op
               /\ call'[c].token = call[c].token /\ call'[c].pc = call[c].pc
    PROVE  SessionsInv' /\ Dead
  <1>1. LateRefused'
    BY DEF SessionsInv, LateRefused
  <1>2. \A c \in Clients : call[c].late =>
            call[c].op = "refresh" /\ call[c].token \in DOMAIN minted /\ call[c].token \notin Live
    BY DEF SessionsInv, SessionsTypeOK, LateDead
  <1>3. LateDead'
    BY <1>2 DEF LateDead, Dead
  <1> QED
    BY <1>1, <1>3 DEF SessionsInv

\* Revocations and the restart: records are revoked or forgotten.
LEMMA RevokingSteps ==
    ASSUME SessionsInv,
           \/ \E c \in Clients : EndFamily(c) \/ \E t \in held : Logout(c, t)
           \/ Restart
    PROVE  SessionsInv' /\ Dead
  <1> USE DEF SessionsInv, SessionsTypeOK
  <1>0. Nobody \in Request /\ Nobody.op = "none" /\ Nobody.pc = "idle" /\ ~Nobody.late
    BY DEF Nobody, Request, Identity
  <1>1. ASSUME NEW c \in Clients, EndFamily(c)
        PROVE  SessionsInv' /\ Dead
    <2> DEFINE F == Family(minted[call[c].token].family)
    <2>1. /\ store' = [t \in DOMAIN store |->
                IF t \in F THEN [store[t] EXCEPT !.revoked = TRUE] ELSE store[t]]
          /\ ended' = ended \cup F /\ F \subseteq DOMAIN minted
          /\ call' = [call EXCEPT ![c] = Nobody]
          /\ UNCHANGED <<users, minted, held>>
      BY <1>1 DEF EndFamily, RevokeFamily, Answers, Family
    <2> HIDE DEF F
    <2>2. /\ DOMAIN store' = DOMAIN store
          /\ \A t \in DOMAIN store : store[t] \in Record /\ store'[t] \in Record
                /\ store'[t].used = store[t].used
                /\ (store[t].revoked \/ t \in F => store'[t].revoked)
      BY <2>1 DEF Stored, Record
    <2>3. Stored(store')
      BY <2>1, <2>2 DEF Stored
    <2>4. SessionsTypeOK'
      BY <1>0, <2>1, <2>2, <2>3 DEF Stored
    <2>5. ReplayEndsFamily' /\ StoreBounded'
      BY <2>1, <2>2 DEF ReplayEndsFamily, StoreBounded
    <2>6. Dead
      <3>1. \A t \in DOMAIN store : store'[t].revoked \/ store'[t] = store[t]
        BY <2>1, <2>2
      <3> QED
        BY <2>2, <3>1 DEF Dead, Live
    <2> QED
      BY <1>0, <2>1, <2>4, <2>5, <2>6, StoreStep
  <1>2. ASSUME NEW c \in Clients, NEW t \in held, Logout(c, t)
        PROVE  SessionsInv' /\ Dead
    <2>1. /\ call[c] = Nobody /\ call' = [call EXCEPT ![c].pc = "record"]
          /\ store' = IF t \in DOMAIN store THEN [store EXCEPT ![t].revoked = TRUE] ELSE store
          /\ UNCHANGED <<users, minted, held, ended>>
      BY <1>2 DEF Logout, Records, Revoke
    <2>2. /\ DOMAIN store' = DOMAIN store
          /\ \A u \in DOMAIN store : store[u] \in Record /\ store'[u] \in Record
                /\ (store'[u] = store[u] \/ store'[u].revoked)
      BY <2>1 DEF Stored, Record
    <2>3. Stored(store')
      <3>1. CASE t \in DOMAIN store
        BY <2>1, <2>2, <3>1 DEF Stored
      <3>2. CASE t \notin DOMAIN store
        BY <2>1, <3>2 DEF Stored
      <3> QED
        BY <3>1, <3>2
    <2>4. call' \in [Clients -> Request]
      BY <2>1 DEF Request
    <2>5. SessionsTypeOK'
      BY <1>0, <2>1, <2>2, <2>3, <2>4 DEF Stored
    <2>6. ReplayEndsFamily' /\ StoreBounded'
      BY <2>1, <2>2 DEF ReplayEndsFamily, StoreBounded
    <2>7. Dead
      BY <2>2 DEF Dead, Live
    <2> QED
      BY <1>0, <2>1, <2>5, <2>6, <2>7, StoreStep
  <1>3. CASE Restart
    <2>1. /\ store' = <<>> /\ DOMAIN store' = {}
          /\ call' = [c \in Clients |-> Nobody]
          /\ UNCHANGED <<users, minted, held, ended>>
      BY <1>3 DEF Restart
    <2>2. Stored(store')
      <3>1. store' = [t \in {} |-> 0]
        BY <2>1
      <3> QED
        BY <2>1, <3>1 DEF Stored
    <2>3. SessionsTypeOK'
      BY <1>0, <2>1, <2>2 DEF Stored
    <2>4. StoreBounded'
      BY <2>1, FS_EmptySet, SweepAssumption DEF StoreBounded
    <2>5. ReplayEndsFamily' /\ Dead
      BY <2>1 DEF ReplayEndsFamily, Dead, Live
    <2> QED
      BY <1>0, <2>1, <2>3, <2>4, <2>5, StoreStep
  <1> QED
    BY <1>1, <1>2, <1>3

\* The copy goes back: its own record is dead, the others are as they were or
\* swept, and one that was evicted since it was read comes back dead.
LEMMA RotateStep ==
    ASSUME SessionsInv, NEW c \in Clients, Rotate(c)
    PROVE  SessionsInv' /\ Dead
  <1> USE DEF SessionsInv, SessionsTypeOK
  <1> DEFINE t == call[c].token
  <1>1. /\ call[c].op = "refresh" /\ call[c].pc = "rotate"
        /\ store' = Save(t, Rotated)
        /\ call' = [call EXCEPT ![c].pc = "issue"]
        /\ UNCHANGED <<users, minted, held, ended>>
    BY DEF Rotate, At, Moves
  <1>2. t \in DOMAIN minted /\ t \in Nat
    BY <1>1, MintedFacts
  <1>3. /\ DOMAIN store' \subseteq DOMAIN store \cup {t} /\ Stored(store')
        /\ store'[t] = Rotated
        /\ \A u \in DOMAIN store' \ {t} : store'[u] = store[u]
    <2>1. Rotated \in Record
      BY DEF Rotated, Record
    <2> QED
      BY <1>1, <2>1, SaveFacts
  <1>4. SessionsTypeOK'
    <2>1. call' \in [Clients -> Request]
      BY <1>1 DEF Request
    <2>2. DOMAIN store' \subseteq DOMAIN minted'
      BY <1>1, <1>2, <1>3
    <2> QED
      BY <1>1, <1>2, <1>3, <2>1, <2>2 DEF Stored
  <1>5. StoreBounded'
    BY <1>1, <1>2, SaveBounded DEF StoreBounded
  <1>6. ReplayEndsFamily'
    BY <1>1, <1>3 DEF ReplayEndsFamily, Rotated
  <1>7. Dead
    <2>1. \A u \in DOMAIN store' : u = t \/ (u \in DOMAIN store /\ store'[u] = store[u])
      BY <1>3
    <2> QED
      BY <1>3, <2>1 DEF Dead, Live, Rotated
  <1>8. ~call[c].late
    BY <1>1 DEF LateRefused
  <1> QED
    BY <1>1, <1>4, <1>5, <1>6, <1>7, <1>8, StoreStep

\* The new token is none of those issued before.
LEMMA IssueStep ==
    ASSUME SessionsInv, NEW c \in Clients, issueRefreshToken(c)
    PROVE  SessionsInv' /\ Dead
  <1> USE DEF SessionsInv, SessionsTypeOK
  <1> DEFINE t == Len(minted) + 1
             f == IF call[c].op = "login" THEN t ELSE minted[call[c].token].family
             new == [used |-> FALSE, revoked |-> FALSE]
  <1>1. /\ call[c].pc = "issue"
        /\ minted' = Append(minted, [user |-> call[c].user, family |-> f])
        /\ store' = Save(t, new)
        /\ call' = [call EXCEPT ![c].pc = "record", ![c].token = t]
        /\ UNCHANGED <<users, held, ended>>
    BY DEF issueRefreshToken
  <1>2. /\ Len(minted) \in Nat /\ DOMAIN minted = 1..Len(minted)
        /\ t \in Nat /\ t \notin DOMAIN minted
    BY MintedFacts
  <1>3. /\ DOMAIN store' \subseteq DOMAIN store \cup {t} /\ Stored(store')
        /\ \A u \in DOMAIN store' \ {t} : store'[u] = store[u]
    <2>1. new \in Record
      BY DEF Record
    <2> HIDE DEF t, new
    <2> QED
      BY <1>1, <2>1, SaveFacts
  <1>4. f \in Nat /\ call[c].user \in Identity
    <2>1. call[c] \in Request /\ call[c].op \in {"login", "refresh"}
      BY <1>1 DEF Request
    <2>2. CASE call[c].op = "login"
      BY <1>2, <2>1, <2>2 DEF Request
    <2>3. CASE call[c].op = "refresh"
      <3>1. f = minted[call[c].token].family
        BY <2>3
      <3>2. minted[call[c].token] \in [user : Identity, family : Nat]
        <4>1. call[c].token \in 1..Len(minted)
          BY <1>2, <2>3
        <4> QED
          BY <4>1, ElementOfSeq
      <3> HIDE DEF f
      <3> QED
        BY <2>1, <3>1, <3>2 DEF Request
    <2> QED
      BY <2>1, <2>2, <2>3
  <1> HIDE DEF f
  <1>5. /\ minted' \in Seq([user : Identity, family : Nat])
        /\ DOMAIN minted' = 1..t /\ DOMAIN minted \subseteq DOMAIN minted'
    <2>1. [user |-> call[c].user, family |-> f] \in [user : Identity, family : Nat]
      BY <1>4
    <2>2. /\ minted' \in Seq([user : Identity, family : Nat]) /\ Len(minted') = t
      BY <1>1, <2>1
    <2> QED
      BY <1>2, <2>2
  <1>6. SessionsTypeOK'
    <2>1. call' \in [Clients -> Request]
      <3> DEFINE k == [call[c] EXCEPT !.pc = "record", !.token = t]
      <3>1. call[c] \in Request /\ t \in Nat
        BY <1>1, <1>2
      <3>2. k \in Request
        BY <3>1 DEF Request
      <3>3. call' = [call EXCEPT ![c] = k]
        BY <1>1
      <3> HIDE DEF k
      <3> QED
        BY <1>1, <3>2, <3>3
    <2>2. t \in DOMAIN minted' /\ DOMAIN store' \subseteq DOMAIN minted'
      BY <1>2, <1>3, <1>5
    <2>3. /\ call'[c].pc = "record" /\ call'[c].token = t /\ call'[c].op = call[c].op
          /\ \A d \in Clients \ {c} : call'[d] = call[d]
      BY <1>1 DEF Request
    <2>4. held' \subseteq DOMAIN minted' /\ ended' \subseteq DOMAIN minted'
      BY <1>1, <1>5
    <2> HIDE DEF t
    <2>5. \A d \in Clients :
            /\ call'[d].op = "refresh" => call'[d].token \in DOMAIN minted'
            /\ call'[d].op = "login" /\ call'[d].pc = "record"
                => call'[d].token \in DOMAIN minted'
            /\ call'[d].pc = "issue" => call'[d].op # "none"
      BY <1>5, <2>2, <2>3
    <2> QED
      BY <1>1, <1>3, <1>5, <2>1, <2>2, <2>4, <2>5
  <1>7. StoreBounded'
    BY <1>1, <1>2, SaveBounded DEF StoreBounded
  <1> HIDE DEF t, new
  <1>8. \A u \in DOMAIN store' \cap DOMAIN minted :
            u \in DOMAIN store /\ store'[u] = store[u]
    BY <1>2, <1>3
  <1>9. ReplayEndsFamily'
    BY <1>1, <1>8 DEF ReplayEndsFamily
  <1>10. Dead
    BY <1>8 DEF Dead, Live
  <1>11. ~call[c].late
    BY <1>1 DEF LateRefused
  <1>12. \A d \in Clients : call'[d].late => d # c /\ call'[d] = call[d]
    BY <1>1, <1>11 DEF Request
  <1> QED
    BY <1>6, <1>7, <1>9, <1>10, <1>12, StoreStep

\* Every step keeps the invariant and revives no token.
LEMMA InvStep == SessionsInv /\ [Next]_vars => SessionsInv' /\ Dead
  <1> SUFFICES ASSUME SessionsInv, [Next]_vars PROVE SessionsInv' /\ Dead
    OBVIOUS
  <1>1. ASSUME NEW c \in Clients, Rotate(c) PROVE SessionsInv' /\ Dead
    BY <1>1, RotateStep
  <1>2. ASSUME NEW c \in Clients, issueRefreshToken(c) PROVE SessionsInv' /\ Dead
    BY <1>2, IssueStep
  <1>3. CASE UNCHANGED vars
    <2>1. SessionsTypeOK' /\ UNCHANGED <<store, ended, call>>
      BY <1>3 DEF vars, SessionsInv, SessionsTypeOK, Stored
    <2> QED
      BY <2>1, QuietStep DEF SessionsInv, LateDead, LateRefused
  <1> QED
    BY <1>1, <1>2, <1>3, RequestSteps, EnvironmentSteps, RevokingSteps DEF Next

-----------------------------------------------------------------------------
(* The theorems.                                                           *)

\* Every behaviour of the specification keeps the invariant.
THEOREM SessionsInvariant == Spec => []SessionsInv
  BY InitInv, InvStep, PTL DEF Spec

\* Reuse of a refresh token ends every token its family had, for good
\* (RevokeFamily), although rotations write back copies they read before.
THEOREM FamilyEnds == Spec => []ReplayEndsFamily
  <1>1. SessionsInv => ReplayEndsFamily
    BY DEF SessionsInv
  <1> QED
    BY <1>1, SessionsInvariant, PTL

\* A refresh that begins after its token died gets no tokens (Refresh).
THEOREM LateNeverServed == Spec => []LateRefused
  <1>1. SessionsInv => LateRefused
    BY DEF SessionsInv
  <1> QED
    BY <1>1, SessionsInvariant, PTL

\* The in-memory store stays within its sweep threshold (Save, evictOldest).
THEOREM StoreStaysBounded == Spec => []StoreBounded
  <1>1. SessionsInv => StoreBounded
    BY DEF SessionsInv
  <1> QED
    BY <1>1, SessionsInvariant, PTL

\* A dead refresh token never comes alive again (Save of a stale copy).
THEOREM DeadNeverRevive == Spec => DeadStayDead
  <1>1. SessionsInv /\ [Next]_vars =>
            [\A t \in DOMAIN minted : t \notin Live => t \notin Live']_vars
    BY InvStep DEF Dead
  <1> QED
    BY <1>1, SessionsInvariant, PTL DEF Spec, DeadStayDead

-----------------------------------------------------------------------------
(* What the claims in circulation reach.                                   *)

Organization == {"departments", "teams", "ai-employees"}
Decisions == {"approve", "reject", "publish"}

\* What the table of rules must be like for tenants to be confined: a rule for
\* tenant data is a tenant's, one below a workspace is the founder's or bound
\* to the captured workspace, decisions and structure are the administrator's.
RuleConfines(rule) ==
    LET p == rule.pattern IN
    /\ Len(p) \in Nat /\ DOMAIN p = 1..Len(p) /\ Len(p) > 0 /\ p[1] \notin Placeholders
    /\ p[1] \notin {"workspaces", "audit", "api"} => rule.roles \subseteq Tenants
    /\ p[1] = "workspaces" /\ Len(p) > 1 =>
        \/ rule.roles = {RoleFounder}
        \/ /\ rule.scope = "path" /\ p[2] \in Placeholders
           /\ \A i \in 1..Len(p) : i # 2 => p[i] \notin Placeholders
    /\ p[1] \in Organization /\ rule.action # "GET" => rule.roles = Admins
    /\ p[1] \in {"publications", "pipelines"} /\ Len(p) = 3 =>
        p[3] \notin Placeholders /\ (p[3] \in Decisions => rule.roles = Admins)

\* The two kinds of rules that are not about one workspace's path, and the
\* decisions: what makes each a rule that confines.
DataRule(action, a, roles) ==
    /\ a \notin Placeholders /\ a \notin {"workspaces", "audit", "api"}
    /\ roles \in {Tenants, Admins}
    /\ a \in Organization => action = "GET" \/ roles = Admins

\* A data rule of one or two segments confines.
LEMMA DataRules ==
    ASSUME NEW action, NEW a, NEW roles, NEW scope, DataRule(action, a, roles), NEW b
    PROVE  /\ RuleConfines(Rule(action, <<a>>, roles, scope))
           /\ RuleConfines(Rule(action, <<a, b>>, roles, scope))
  <1>0. /\ a \notin Placeholders /\ a # "workspaces"
        /\ a \in Organization /\ action # "GET" => roles = Admins
    BY DEF DataRule
  <1>1. roles \subseteq Tenants
    BY DEF DataRule, Tenants, Admins
  <1>2. RuleConfines(Rule(action, <<a>>, roles, scope))
    <2> DEFINE r == Rule(action, <<a>>, roles, scope)
    <2>1. /\ Len(r.pattern) = 1 /\ DOMAIN r.pattern = 1..Len(r.pattern) /\ r.pattern[1] = a
          /\ r.roles = roles /\ r.action = action
      BY DEF Rule
    <2> HIDE DEF r
    <2>2. r.pattern[1] # "workspaces" /\ r.pattern[1] \notin Placeholders
      BY <1>0, <2>1
    <2>3. r.pattern[1] \in Organization /\ r.action # "GET" => r.roles = Admins
      BY <1>0, <2>1
    <2>4. Len(r.pattern) \in Nat /\ Len(r.pattern) > 0 /\ Len(r.pattern) # 3
      BY <2>1
    <2>5. RuleConfines(r)
      BY <1>1, <2>1, <2>2, <2>3, <2>4, Zenon DEF RuleConfines
    <2> QED
      BY <2>5 DEF r
  <1>3. RuleConfines(Rule(action, <<a, b>>, roles, scope))
    <2> DEFINE r == Rule(action, <<a, b>>, roles, scope)
    <2>1. /\ Len(r.pattern) = 2 /\ DOMAIN r.pattern = 1..Len(r.pattern) /\ r.pattern[1] = a
          /\ r.roles = roles /\ r.action = action
      BY DEF Rule
    <2> HIDE DEF r
    <2>2. r.pattern[1] # "workspaces" /\ r.pattern[1] \notin Placeholders
      BY <1>0, <2>1
    <2>3. r.pattern[1] \in Organization /\ r.action # "GET" => r.roles = Admins
      BY <1>0, <2>1
    <2>4. Len(r.pattern) \in Nat /\ Len(r.pattern) > 0 /\ Len(r.pattern) # 3
      BY <2>1
    <2>5. RuleConfines(r)
      BY <1>1, <2>1, <2>2, <2>3, <2>4, Zenon DEF RuleConfines
    <2> QED
      BY <2>5 DEF r
  <1> QED
    BY <1>2, <1>3

\* So does one of three, whose third segment may be a decision.
LEMMA CommandRules ==
    ASSUME NEW action, NEW a, NEW b, NEW c, NEW roles, NEW scope,
           DataRule(action, a, roles),
           a \in {"publications", "pipelines"} =>
                c \notin Placeholders /\ (c \in Decisions => roles = Admins)
    PROVE  RuleConfines(Rule(action, <<a, b, c>>, roles, scope))
  <1> DEFINE r == Rule(action, <<a, b, c>>, roles, scope)
  <1>0. /\ roles \subseteq Tenants /\ a \notin Placeholders /\ a # "workspaces"
        /\ a \in Organization /\ action # "GET" => roles = Admins
    BY DEF DataRule, Tenants, Admins
  <1>1. /\ Len(r.pattern) = 3 /\ DOMAIN r.pattern = 1..Len(r.pattern) /\ r.pattern[1] = a
        /\ r.pattern[3] = c /\ r.roles = roles /\ r.action = action
    BY DEF Rule
  <1> HIDE DEF r
  <1>2. r.pattern[1] # "workspaces" /\ r.pattern[1] \notin Placeholders
    BY <1>0, <1>1
  <1>3. /\ r.pattern[1] \in Organization /\ r.action # "GET" => r.roles = Admins
        /\ r.pattern[1] \in {"publications", "pipelines"} =>
            r.pattern[3] \notin Placeholders /\ (r.pattern[3] \in Decisions => r.roles = Admins)
    BY <1>0, <1>1
  <1>4. Len(r.pattern) \in Nat /\ Len(r.pattern) > 0 /\ r.roles \subseteq Tenants
    BY <1>0, <1>1
  <1>5. RuleConfines(r)
    BY <1>1, <1>2, <1>3, <1>4, Zenon DEF RuleConfines
  <1> QED
    BY <1>5 DEF r

\* The rules of tenant data.
LEMMA TaskRulesConfine == \A rule \in taskRules \cup knowledgeRules : RuleConfines(rule)
  <1>1. \A action : \A a \in {"tasks", "executions", "knowledge", "memory"} :
            DataRule(action, a, Tenants)
    BY DEF DataRule, Placeholders, Organization
  <1>2. \A rule \in taskRules : RuleConfines(rule)
    BY <1>1, DataRules, CommandRules DEF taskRules
  <1>3. \A rule \in knowledgeRules : RuleConfines(rule)
    BY <1>1, DataRules, CommandRules DEF knowledgeRules
  <1> QED
    BY <1>2, <1>3

\* The rules of departments, teams and AI employees.
LEMMA HierarchyRulesConfine == \A rule \in hierarchyRules : RuleConfines(rule)
  <1>1. \A action : \A a \in Organization : DataRule(action, a, Admins) /\ DataRule("GET", a, Tenants)
    BY DEF DataRule, Placeholders, Organization
  <1>2. ASSUME NEW kind \in Organization,
               NEW rule \in { Rule("POST", <<kind>>, Admins, "self"),
                              Rule("GET", <<kind>>, Tenants, "self"),
                              Rule("GET", <<kind, "{id}">>, Tenants, "self"),
                              Rule("PATCH", <<kind, "{id}">>, Admins, "self"),
                              Rule("DELETE", <<kind, "{id}">>, Admins, "self") }
        PROVE  RuleConfines(rule)
    BY <1>1, DataRules
  <1> QED
    BY <1>2 DEF hierarchyRules, Organization

\* The rules of publications and pipelines.
LEMMA PublicationRulesConfine ==
    \A rule \in publicationRules \cup pipelineRules : RuleConfines(rule)
  <1>1. \A action : \A a \in {"publications", "pipelines"} :
            DataRule(action, a, Tenants) /\ DataRule(action, a, Admins)
    BY DEF DataRule, Placeholders, Organization
  <1>2. \A c \in {"submit", "approve", "reject", "publish", "retry"} :
            c \notin Placeholders /\ (c \in {"submit", "retry"} => c \notin Decisions)
    BY DEF Placeholders, Decisions
  <1>3. \A rule \in publicationRules : RuleConfines(rule)
    <2>1. \A c \in {"approve", "reject", "publish", "retry"} :
            RuleConfines(Rule("POST", <<"publications", "{id}", c>>, Admins, "self"))
      BY <1>1, <1>2, CommandRules
    <2>2. RuleConfines(Rule("POST", <<"publications", "{id}", "submit">>, Tenants, "self"))
      BY <1>1, <1>2, CommandRules
    <2>3. /\ RuleConfines(Rule("POST", <<"publications">>, Tenants, "self"))
          /\ RuleConfines(Rule("GET", <<"publications">>, Tenants, "self"))
          /\ RuleConfines(Rule("GET", <<"publications", "{id}">>, Tenants, "self"))
      BY <1>1, DataRules
    <2> QED
      BY <2>1, <2>2, <2>3 DEF publicationRules
  <1>4. \A rule \in pipelineRules : RuleConfines(rule)
    <2>1. /\ RuleConfines(Rule("POST", <<"pipelines", "{id}", "approve">>, Admins, "self"))
          /\ RuleConfines(Rule("POST", <<"pipelines", "{id}", "retry">>, Tenants, "self"))
      BY <1>1, <1>2, CommandRules
    <2>2. /\ RuleConfines(Rule("POST", <<"pipelines">>, Tenants, "self"))
          /\ RuleConfines(Rule("GET", <<"pipelines">>, Tenants, "self"))
          /\ RuleConfines(Rule("GET", <<"pipelines", "{id}">>, Tenants, "self"))
      BY <1>1, DataRules
    <2> QED
      BY <2>1, <2>2 DEF pipelineRules
  <1> QED
    BY <1>3, <1>4

\* The rules about workspaces, their audit events and oneself.
LEMMA OrganizationRulesConfine ==
    \A rule \in organizationRules \cup auditRules : RuleConfines(rule)
  <1>1. ASSUME NEW action, NEW roles, NEW scope, NEW b, NEW a \in {"api", "audit"}
        PROVE  RuleConfines(Rule(action, <<a, b>>, roles, scope))
    <2> DEFINE r == Rule(action, <<a, b>>, roles, scope)
    <2>1. /\ Len(r.pattern) = 2 /\ DOMAIN r.pattern = 1..Len(r.pattern)
          /\ r.pattern[1] \in {"api", "audit"}
      BY DEF Rule
    <2> HIDE DEF r
    <2>2. /\ r.pattern[1] # "workspaces" /\ r.pattern[1] \notin Placeholders
          /\ r.pattern[1] \notin Organization
          /\ r.pattern[1] \notin {"publications", "pipelines"}
          /\ r.pattern[1] \in {"workspaces", "audit", "api"}
      BY <2>1 DEF Placeholders, Organization
    <2>3. Len(r.pattern) \in Nat /\ Len(r.pattern) > 0
      BY <2>1
    <2>4. RuleConfines(r)
      BY <2>1, <2>2, <2>3, Zenon DEF RuleConfines
    <2> QED
      BY <2>4 DEF r
  <1>2. ASSUME NEW action, NEW roles, NEW scope, NEW p, p[1] = "workspaces",
               Len(p) \in Nat, Len(p) > 0, DOMAIN p = 1..Len(p),
               Len(p) > 1 =>
                /\ roles = {RoleFounder} \/ scope = "path"
                /\ p[2] \in Placeholders
                /\ \A i \in 1..Len(p) : i # 2 => p[i] \notin Placeholders
        PROVE  RuleConfines(Rule(action, p, roles, scope))
    <2> DEFINE r == Rule(action, p, roles, scope)
    <2>1. /\ p[1] \notin Placeholders /\ p[1] \notin Organization
          /\ p[1] \notin {"publications", "pipelines"}
          /\ p[1] \in {"workspaces", "audit", "api"}
      BY <1>2, Zenon DEF Placeholders, Organization
    <2>2. r.pattern = p /\ r.roles = roles /\ r.scope = scope
      BY DEF Rule
    <2> HIDE DEF r
    <2>3. RuleConfines(r)
      BY <1>2, <2>1, <2>2, Zenon DEF RuleConfines
    <2> QED
      BY <2>3 DEF r
  <1>3. ASSUME NEW action, NEW roles, NEW scope, NEW h \in Placeholders,
               NEW x, x \notin Placeholders, NEW y, y \notin Placeholders
        PROVE  /\ RuleConfines(Rule(action, <<"workspaces">>, roles, scope))
               /\ roles = {RoleFounder} \/ scope = "path" =>
                    /\ RuleConfines(Rule(action, <<"workspaces", h>>, roles, scope))
                    /\ RuleConfines(Rule(action, <<"workspaces", h, x, y>>, roles, scope))
    <2>0. "workspaces" \notin Placeholders
      BY Zenon DEF Placeholders
    <2>1. RuleConfines(Rule(action, <<"workspaces">>, roles, scope))
      <3> DEFINE p == <<"workspaces">>
      <3>1. /\ Len(p) \in Nat /\ Len(p) > 0 /\ ~(Len(p) > 1)
            /\ DOMAIN p = 1..Len(p) /\ p[1] = "workspaces"
        OBVIOUS
      <3> HIDE DEF p
      <3>2. RuleConfines(Rule(action, p, roles, scope))
        BY <1>2, <3>1, Zenon
      <3> QED
        BY <3>2 DEF p
    <2>2. ASSUME roles = {RoleFounder} \/ scope = "path"
          PROVE  RuleConfines(Rule(action, <<"workspaces", h>>, roles, scope))
      <3> DEFINE p == <<"workspaces", h>>
      <3>1. /\ Len(p) = 2 /\ DOMAIN p = 1..Len(p) /\ p[1] = "workspaces" /\ p[2] = h
            /\ \A i \in 1..Len(p) : i # 2 => i = 1
        OBVIOUS
      <3> HIDE DEF p
      <3>2. RuleConfines(Rule(action, p, roles, scope))
        BY <1>2, <1>3, <2>0, <2>2, <3>1
      <3> QED
        BY <3>2 DEF p
    <2>3. ASSUME roles = {RoleFounder} \/ scope = "path"
          PROVE  RuleConfines(Rule(action, <<"workspaces", h, x, y>>, roles, scope))
      <3> DEFINE p == <<"workspaces", h, x, y>>
      <3>1. /\ Len(p) = 4 /\ DOMAIN p = 1..Len(p) /\ p[1] = "workspaces" /\ p[2] = h
            /\ p[3] = x /\ p[4] = y
            /\ \A i \in 1..Len(p) : i # 2 => i = 1 \/ i = 3 \/ i = 4
        OBVIOUS
      <3> HIDE DEF p
      <3>2. RuleConfines(Rule(action, p, roles, scope))
        BY <1>2, <1>3, <2>0, <2>3, <3>1
      <3> QED
        BY <3>2 DEF p
    <2> QED
      BY <2>1, <2>2, <2>3
  <1>4. "{id}" \in Placeholders /\ "audit" \notin Placeholders /\ "events" \notin Placeholders
    BY Zenon DEF Placeholders
  <1>5. \A rule \in organizationRules : RuleConfines(rule)
    BY <1>1, <1>3, <1>4, Zenon DEF organizationRules
  <1>6. \A rule \in auditRules : RuleConfines(rule)
    BY <1>1, <1>3, <1>4, Zenon DEF auditRules
  <1> QED
    BY <1>5, <1>6

\* All rules.
LEMMA RulesConfine == \A rule \in ImplementedRules : RuleConfines(rule)
  BY OrganizationRulesConfine, TaskRulesConfine, HierarchyRulesConfine,
     PublicationRulesConfine DEF ImplementedRules

\* What the registered routes must be like.
RouteConfines(p) ==
    /\ Len(p) \in Nat /\ DOMAIN p = 1..Len(p) /\ Len(p) > 0 /\ p[1] \notin Placeholders
    /\ p[Len(p)] \in Decisions =>
        p[1] \in {"publications", "pipelines"} /\ Len(p) = 3

\* By their length.
LEMMA RouteLengths ==
    ASSUME NEW a, a \notin Placeholders, NEW b, NEW c, NEW d
    PROVE  /\ a \notin Decisions => RouteConfines(<<a>>)
           /\ b \notin Decisions => RouteConfines(<<a, b>>)
           /\ (c \in Decisions => a \in {"publications", "pipelines"})
                => RouteConfines(<<a, b, c>>)
           /\ d \notin Decisions => RouteConfines(<<a, b, c, d>>)
  <1>1. a \notin Decisions => RouteConfines(<<a>>)
    BY DEF RouteConfines
  <1>2. b \notin Decisions => RouteConfines(<<a, b>>)
    BY DEF RouteConfines
  <1>3. (c \in Decisions => a \in {"publications", "pipelines"}) => RouteConfines(<<a, b, c>>)
    BY DEF RouteConfines
  <1>4. d \notin Decisions => RouteConfines(<<a, b, c, d>>)
    BY DEF RouteConfines
  <1> QED
    BY <1>1, <1>2, <1>3, <1>4

\* The second of a pair.
LEMMA Pairs ==
    /\ \A S, T : \A r \in S \X T : r[2] \in T
    /\ \A a, b : <<a, b>>[2] = b
  OBVIOUS

\* All routes.
LEMMA RoutesConfine == \A r \in Routes : RouteConfines(r[2])
  <1> DEFINE Roots == {"health", "api", "workspaces", "audit", "tasks", "executions", "memory",
                       "knowledge", "publications", "pipelines", "departments", "teams",
                       "ai-employees"}
             Plain == {"live", "ready", "bootstrap", "login", "refresh", "logout", "me", "{id}",
                       "events", "verification", "search", "transition", "execute", "cancel",
                       "{key}", "submit", "retry"}
  <1>1. (\A a \in Roots : a \notin Placeholders /\ a \notin Decisions)
        /\ \A b \in Plain : b \notin Decisions
    BY DEF Placeholders, Decisions
  <1> HIDE DEF Roots, Plain
  <1>2. \A a \in Roots : RouteConfines(<<a>>)
    BY <1>1, RouteLengths
  <1>3. \A a \in Roots, b \in Plain : RouteConfines(<<a, b>>)
    BY <1>1, RouteLengths
  <1>4. \A a \in Roots, c \in Plain : \A b : RouteConfines(<<a, b, c>>)
    BY <1>1, RouteLengths
  <1>5. \A a \in {"publications", "pipelines"} : \A b, c : RouteConfines(<<a, b, c>>)
    BY <1>1, RouteLengths DEF Roots
  <1>6. RouteConfines(<<"workspaces", "{id}", "audit", "events">>)
    <2>1. "workspaces" \notin Placeholders /\ "events" \notin Decisions
      BY <1>1 DEF Roots, Plain
    <2> QED
      BY <2>1, RouteLengths
  <1>7. ASSUME NEW r \in publicRoutes PROVE RouteConfines(r[2])
    BY <1>3, <1>4 DEF publicRoutes, Roots, Plain
  <1>8. \A p \in { <<"api", "me">>, <<"workspaces">>, <<"workspaces", "{id}">>,
                  <<"audit", "events">>, <<"audit", "verification">>,
                  <<"workspaces", "{id}", "audit", "events">>,
                  <<"tasks">>, <<"tasks", "{id}">>, <<"executions", "{id}">>,
                  <<"memory", "{layer}", "{key}">> } \cup
                 { <<"workspaces">>, <<"tasks">>, <<"tasks", "{id}", "transition">>,
                  <<"tasks", "{id}", "execute">>, <<"executions", "{id}", "cancel">>,
                  <<"knowledge", "search">> } :
            RouteConfines(p)
    BY <1>2, <1>3, <1>4, <1>6 DEF Roots, Plain
  <1>9. \A kind \in {"knowledge", "publications", "pipelines", "departments", "teams",
                     "ai-employees"} :
            RouteConfines(<<kind>>) /\ RouteConfines(<<kind, "{id}">>)
    BY <1>2, <1>3 DEF Roots, Plain
  <1>10. ASSUME NEW r \in Routes PROVE RouteConfines(r[2])
    <2>1. \A x \in {"GET"} \X { <<"api", "me">>, <<"workspaces">>, <<"workspaces", "{id}">>,
                  <<"audit", "events">>, <<"audit", "verification">>,
                  <<"workspaces", "{id}", "audit", "events">>,
                  <<"tasks">>, <<"tasks", "{id}">>, <<"executions", "{id}">>,
                  <<"memory", "{layer}", "{key}">> } : RouteConfines(x[2])
      BY <1>8, Pairs, Zenon
    <2>2. \A x \in {"POST"} \X { <<"workspaces">>, <<"tasks">>,
                  <<"tasks", "{id}", "transition">>, <<"tasks", "{id}", "execute">>,
                  <<"executions", "{id}", "cancel">>, <<"knowledge", "search">> } :
            RouteConfines(x[2])
      BY <1>8, Pairs, Zenon
    <2>3. \A x \in {"POST"} \X { <<"publications", "{id}", command>> :
                  command \in {"submit", "approve", "reject", "publish", "retry"} } :
            RouteConfines(x[2])
      <3>1. \A c : RouteConfines(<<"publications", "{id}", c>>)
        BY <1>5, Zenon
      <3> QED
        BY <3>1, Pairs, Zenon
    <2>4. \A x \in {"POST"} \X { <<"pipelines", "{id}", command>> :
                  command \in {"approve", "retry"} } : RouteConfines(x[2])
      <3>1. \A c : RouteConfines(<<"pipelines", "{id}", c>>)
        BY <1>5, Zenon
      <3> QED
        BY <3>1, Pairs, Zenon
    <2>5. \A x \in {"POST", "GET"} \X { <<kind>> : kind \in {"knowledge", "publications",
                  "pipelines", "departments", "teams", "ai-employees"} } :
            RouteConfines(x[2])
      <3> DEFINE Kinds == {"knowledge", "publications", "pipelines", "departments",
                           "teams", "ai-employees"}
      <3>1. \A kind \in Kinds : RouteConfines(<<kind>>)
        BY <1>9, Zenon
      <3> HIDE DEF Kinds
      <3>2. \A S : \A x \in S \X { <<kind>> : kind \in Kinds } : RouteConfines(x[2])
        BY <3>1, Pairs, Zenon
      <3> USE DEF Kinds
      <3> QED
        BY <3>2, Zenon
    <2>6. \A x \in {"GET"} \X { <<kind, "{id}">> : kind \in {"knowledge", "publications",
                  "pipelines", "departments", "teams", "ai-employees"} } :
            RouteConfines(x[2])
      BY <1>9, Pairs, Zenon
    <2>7. \A x \in {"PATCH", "DELETE"} \X { <<kind, "{id}">> :
                  kind \in {"knowledge", "departments", "teams", "ai-employees"} } :
            RouteConfines(x[2])
      BY <1>9, Pairs, Zenon
    <2>8. \A x \in { <<"PATCH", <<"tasks", "{id}">>>>,
                     <<"PUT", <<"memory", "{layer}", "{key}">>>> } : RouteConfines(x[2])
      <3>1. \A a, b : RouteConfines(b) => RouteConfines(<<a, b>>[2])
        BY Pairs
      <3>2. RouteConfines(<<"tasks", "{id}">>) /\ RouteConfines(<<"memory", "{layer}", "{key}">>)
        BY <1>8, Zenon
      <3> QED
        BY <3>1, <3>2, Zenon
    <2> QED
      BY <1>7, <2>1, <2>2, <2>3, <2>4, <2>5, <2>6, <2>7, <2>8, Zenon DEF Routes
  <1> QED
    BY <1>10

\* A request's path has the shape of its route and agrees with it wherever
\* the route names a segment.
LEMMA FillFacts ==
    ASSUME NEW p, Len(p) \in Nat, DOMAIN p = 1..Len(p), NEW v
    PROVE  /\ Len(Fill(p, v)) = Len(p)
           /\ \A i \in 1..Len(p) : p[i] \notin Placeholders => Fill(p, v)[i] = p[i]
  <1> DEFINE q == Fill(p, v)
  <1>1. q = [i \in 1..Len(p) |-> IF p[i] \in Placeholders THEN v ELSE p[i]]
    BY DEF Fill
  <1>2. Len(q) = Len(p)
    BY <1>1
  <1> QED
    BY <1>1, <1>2

\* What a request is: the path of a registered route.
LEMMA RequestFacts ==
    ASSUME NEW request \in Requests
    PROVE  /\ RouteConfines(request.route)
           /\ Len(request.path) = Len(request.route)
           /\ request.path[1] = request.route[1]
           /\ \A i \in 1..Len(request.route) :
                request.route[i] \notin Placeholders => request.path[i] = request.route[i]
  <1>1. PICK r \in Routes, v \in PathValues :
            request = [action |-> r[1], route |-> r[2], path |-> Fill(r[2], v)]
    BY DEF Requests
  <1>2. request.route = r[2] /\ request.path = Fill(r[2], v)
    BY <1>1
  <1>3. RouteConfines(r[2])
    BY RoutesConfine
  <1>4. Len(r[2]) \in Nat /\ DOMAIN r[2] = 1..Len(r[2]) /\ Len(r[2]) > 0
        /\ r[2][1] \notin Placeholders
    BY <1>3 DEF RouteConfines
  <1>5. 1 \in 1..Len(r[2])
    BY <1>4
  <1> QED
    BY <1>2, <1>3, <1>4, <1>5, FillFacts

\* The public surface is the health checks and the authentication requests.
LEMMA PublicPaths == \A action, path : <<action, path>> \in publicRoutes => path[1] \in {"health", "api"}
  <1> SUFFICES ASSUME NEW action, NEW path, <<action, path>> \in publicRoutes
               PROVE  path[1] \in {"health", "api"}
    OBVIOUS
  <1>1. path \in { <<"health", "live">>, <<"health", "ready">> }
                \cup { <<"api", "auth", entry>> :
                       entry \in {"bootstrap", "login", "refresh", "logout"} }
    BY DEF publicRoutes
  <1> QED
    BY <1>1

\* A pattern whose only placeholder is its second segment captures that one.
LEMMA CapturesSecond ==
    ASSUME NEW p, NEW path, Len(p) \in Nat, DOMAIN p = 1..Len(p), Len(p) > 1,
           p[2] \in Placeholders, \A i \in 1..Len(p) : i # 2 => p[i] \notin Placeholders
    PROVE  Captured(p, path) = path[2]
  <1> DEFINE at == {i \in DOMAIN p : p[i] \in Placeholders}
             first == CHOOSE i \in at : \A j \in at : i <= j
  <1>1. at = {2}
    BY SMT
  <1>2. first = 2
    BY <1>1
  <1>3. Captured(p, path) = IF at = {} THEN NoWorkspace ELSE path[first]
    BY DEF Captured
  <1> QED
    BY <1>1, <1>2, <1>3

\* An identity's claims: the founder's, or a tenant's with its workspace.
LEMMA ClaimFacts ==
    ASSUME NEW u \in Identity
    PROVE  ClaimsFor(u).role \in Tenants => ClaimsFor(u).workspace \in Workspaces
  <1>1. CASE u = Founder
    BY <1>1 DEF ClaimsFor, RoleFor, Tenants, RoleFounder, RoleWorkspaceAdmin, RoleWorkspaceMember
  <1>2. CASE u # Founder
    BY <1>2, AccountsAssumption DEF ClaimsFor, Identity
  <1> QED
    BY <1>1, <1>2

\* A request a rule grants is confined.
LEMMA GrantConfines ==
    ASSUME NEW u \in Identity, NEW request \in Requests, NEW rule,
           RuleConfines(rule), rule.action = request.action,
           matchResource(rule.pattern, request.path),
           ClaimsFor(u).role \in rule.roles,
           inScope(rule.scope, Captured(rule.pattern, request.path), ClaimsFor(u).workspace)
    PROVE  Confined(u, request)
  <1> DEFINE p == rule.pattern
             path == request.path
             route == request.route
             claims == ClaimsFor(u)
  <1>1. /\ RouteConfines(route) /\ Len(path) = Len(route) /\ path[1] = route[1]
        /\ \A i \in 1..Len(route) : route[i] \notin Placeholders => path[i] = route[i]
    BY RequestFacts
  <1>2. /\ Len(p) \in Nat /\ DOMAIN p = 1..Len(p) /\ Len(p) > 0 /\ p[1] \notin Placeholders
    BY DEF RuleConfines
  <1>3. Len(p) = Len(path) /\ \A i \in 1..Len(p) : p[i] \in Placeholders \/ p[i] = path[i]
    BY <1>2 DEF matchResource
  <1>4. p[1] = route[1]
    BY <1>1, <1>2, <1>3
  <1>5. ASSUME route[1] = "workspaces", Len(path) > 1
        PROVE  claims.role = RoleFounder \/ claims.workspace = path[2]
    <2>1. CASE rule.roles = {RoleFounder}
      BY <2>1
    <2>2. CASE /\ rule.scope = "path" /\ p[2] \in Placeholders
               /\ \A i \in 1..Len(p) : i # 2 => p[i] \notin Placeholders
      <3>1. Captured(p, path) = path[2]
        BY <1>2, <1>3, <1>5, <2>2, CapturesSecond
      <3>2. Captured(p, path) = claims.workspace
        BY <2>2 DEF inScope
      <3> QED
        BY <3>1, <3>2
    <2> QED
      BY <1>3, <1>4, <1>5, <2>1, <2>2 DEF RuleConfines
  <1>6. ASSUME route[1] \notin {"workspaces", "audit", "api", "health"}
        PROVE  WorkspaceFromClaims(claims) \in Workspaces
    <2>1. rule.roles \subseteq Tenants
      BY <1>4, <1>6 DEF RuleConfines
    <2>2. claims.role \in Tenants
      BY <2>1
    <2> QED
      BY <2>2, ClaimFacts DEF WorkspaceFromClaims
  <1>7. ASSUME route[Len(route)] \in Decisions
        PROVE  claims.role = RoleWorkspaceAdmin
    <2>1. route[1] \in {"publications", "pipelines"} /\ Len(route) = 3
      BY <1>1, <1>7 DEF RouteConfines
    <2>2. route[3] \in Decisions /\ route[3] \notin Placeholders
      BY <1>7, <2>1, Zenon DEF Decisions, Placeholders
    <2>3. path[3] = route[3]
      BY <1>1, <2>1, <2>2
    <2>4. /\ p[3] \notin Placeholders
          /\ p[3] \in Decisions => rule.roles = Admins
      BY <1>1, <1>3, <1>4, <2>1 DEF RuleConfines
    <2>5. p[3] = path[3]
      BY <1>1, <1>3, <2>1, <2>4
    <2> QED
      BY <2>2, <2>3, <2>4, <2>5 DEF Admins
  <1>8. ASSUME route[1] \in Organization, request.action # "GET"
        PROVE  claims.role = RoleWorkspaceAdmin
    BY <1>4, <1>8 DEF RuleConfines, Admins
  <1> QED
    BY <1>5, <1>6, <1>7, <1>8 DEF Confined, Decisions, Organization

\* So is every request an identity is served.
LEMMA ServedConfined ==
    ASSUME NEW u \in Identity, NEW request \in Requests, Served(ClaimsFor(u), request)
    PROVE  Confined(u, request)
  <1>1. CASE <<request.action, request.path>> \in publicRoutes
    <2>1. request.route[1] \in {"health", "api"}
      BY <1>1, PublicPaths, RequestFacts
    <2>2. request.route[Len(request.route)] \notin Decisions
      BY <2>1, RequestFacts DEF RouteConfines
    <2> QED
      BY <2>1, <2>2 DEF Confined, Decisions
  <1>2. CASE AuthorizeClaims(ClaimsFor(u), request.action, request.path)
    BY <1>2, GrantConfines, RulesConfine DEF AuthorizeClaims
  <1> QED
    BY <1>1, <1>2 DEF Served

\* Whatever access tokens circulate, their identities reach only their own
\* workspace's data, and only an administrator decides on publications and
\* pipelines or changes the structure (AuthorizeClaims over the seeded rules).
THEOREM TenantsConfined == Spec => []TenantConfined
  <1>1. SessionsInv => TenantConfined
    <2> SUFFICES ASSUME SessionsInv, NEW u \in Bearers
                 PROVE  u \in ConfinedIdentities
      BY DEF TenantConfined
    <2>1. PICK t \in held : u = minted[t].user
      BY DEF Bearers
    <2>2. t \in 1..Len(minted) /\ minted \in Seq([user : Identity, family : Nat])
      BY MintedFacts DEF SessionsInv, SessionsTypeOK
    <2>3. u \in Identity
      <3>1. minted[t] \in [user : Identity, family : Nat]
        <4> DEFINE Token == [user : Identity, family : Nat]
        <4>1. \A s \in Seq(Token) : \A i \in 1..Len(s) : s[i] \in Token
          <5> HIDE DEF Token
          <5> QED
            OBVIOUS
        <4> QED
          BY <2>2, <4>1
      <3> QED
        BY <2>1, <3>1
    <2>4. \A request \in ServedTo[u] : Confined(u, request)
      BY <2>3, ServedConfined DEF ServedTo, Identity
    <2> QED
      BY <2>3, <2>4 DEF ConfinedIdentities, Identity
  <1> QED
    BY <1>1, SessionsInvariant, PTL
=============================================================================
