----------------------------- MODULE WafAclProofs -----------------------------
(***************************************************************************)
(* Proofs about the WAF ACL model: type correctness, and that a record's   *)
(* CurrentWafAclId never disagrees with AWS, for every set of ACLs and     *)
(* every bound.                                                            *)
(***************************************************************************)
EXTENDS WafAcl, TLAPS

(* The invariant with the types it needs.                                  *)
Inv == TypeOK /\ CurrentIsAssociated

(* associate and disassociate return records of the record type.          *)
LEMMA CallsTyped ==
    ASSUME TypeOK, NEW ok \in BOOLEAN
    PROVE  Associate(ok) \in Record /\ Disassociate(ok) \in Record
BY WafAclAssumption DEF TypeOK, Record, AclOrNil, Associate, Disassociate

(* Every step keeps Inv: a call that succeeds changes AWS and the record   *)
(* alike, a call that fails changes neither, and a new record has no       *)
(* current ACL.                                                            *)
LEMMA InvInductive == Inv /\ [Next]_vars => Inv'
<1> SUFFICES ASSUME Inv, [Next]_vars PROVE Inv'
  OBVIOUS
<1> USE WafAclAssumption DEF Inv, TypeOK, CurrentIsAssociated, AclOrNil
<1>1. ASSUME NEW ok \in BOOLEAN, Reconcile(ok) PROVE Inv'
  <2>1. CASE Operation = "none" /\ ok /\ UNCHANGED <<w, assoc>>
    BY <1>1, <2>1 DEF Reconcile
  <2>2. CASE Operation = "associate" /\ w' = Associate(ok)
             /\ assoc' = IF w.arnKnown /\ ok THEN w.desired ELSE assoc
    BY <1>1, <2>2, CallsTyped DEF Reconcile, Associate, Record
  <2>3. CASE Operation = "disassociate" /\ w' = Disassociate(ok)
             /\ assoc' = IF w.arnKnown /\ ok THEN Nil ELSE assoc
    BY <1>1, <2>3, CallsTyped DEF Reconcile, Disassociate, Record
  <2>4. QED
    BY <1>1, <2>1, <2>2, <2>3 DEF Reconcile
<1>2. CASE NewWafAcl
  BY <1>2 DEF NewWafAcl, NewWafAclRecord, Edit, Record
<1>3. CASE CreateLoadBalancer
  BY <1>3 DEF CreateLoadBalancer, Edit
<1>4. ASSUME NEW a \in AclOrNil, SetAnnotation(a) PROVE Inv'
  BY <1>4 DEF SetAnnotation, Edit
<1>5. CASE UNCHANGED vars
  BY <1>5 DEF vars
<1>6. QED
  BY <1>1, <1>2, <1>3, <1>4, <1>5 DEF Next

(* A record's CurrentWafAclId, once set, always names the ACL associated   *)
(* with the load balancer in AWS.                                          *)
THEOREM CurrentIsAssociatedHolds == Spec => []CurrentIsAssociated
<1>1. Init => Inv
  BY WafAclAssumption DEF Init, Inv, TypeOK, CurrentIsAssociated, Record, AclOrNil
<1>2. Inv => CurrentIsAssociated
  BY DEF Inv
<1>3. QED
  BY <1>1, <1>2, InvInductive, PTL DEF Spec

=============================================================================
