---------------------------- MODULE MCAdmission ----------------------------
(* Instance of Admission for TLC: two identical keyed requests, the same   *)
(* key sent for another employee, an unkeyed request and one that carries  *)
(* a context snapshot.                                                     *)
EXTENDS Admission

CONSTANTS first, again, other, plain, full, ann, bob, key

MCRequest == {first, again, other, plain, full}
MCEmployeeOf == [r \in MCRequest |-> IF r = other THEN bob ELSE ann]
MCKeyOf == [r \in MCRequest |-> IF r \in {plain, full} THEN NoKey ELSE key]
MCPayloadOf == [r \in MCRequest |-> 0]
MCCapacity == [b \in Employee |-> 1]
MCContextual == {full}
=============================================================================
