-------------------------------- MODULE WafAcl --------------------------------
(***************************************************************************)
(* The WAF ACL association of one load balancer (src/pkg/alb/wafacl).      *)
(* A WafAcl record is built by NewWafAcl from the ingress annotations and  *)
(* the load balancer, with CurrentWafAclId nil: nothing reads the ACL      *)
(* associated in AWS.  Reconcile compares CurrentWafAclId with             *)
(* DesiredWafAclId and associates, disassociates or does nothing; the      *)
(* record keeps what its own calls did.                                    *)
(***************************************************************************)
EXTENDS Naturals

CONSTANTS
    Acls,        \* web ACL IDs
    Nil,         \* nil *string
    MaxEdits     \* bound on annotation changes, new records and LB creation

ASSUME WafAclAssumption == Nil \notin Acls /\ MaxEdits \in Nat

AclOrNil == Acls \cup {Nil}

VARIABLES
    annotation,  \* the ingress's waf-acl-id annotation (Nil: absent)
    lbExists,    \* the load balancer exists in AWS
    assoc,       \* the web ACL associated with it in AWS WAF Regional
    w,           \* the WafAcl record: [current, desired, arnKnown]
    result,      \* what the last Reconcile returned: "none", "ok", "err"
    edits

vars == <<annotation, lbExists, assoc, w, result, edits>>

Record == [current : AclOrNil, desired : AclOrNil, arnKnown : BOOLEAN]

TypeOK ==
    /\ annotation \in AclOrNil /\ lbExists \in BOOLEAN /\ assoc \in AclOrNil
    /\ w \in Record /\ result \in {"none", "ok", "err"}
    /\ edits \in 0..MaxEdits

-----------------------------------------------------------------------------
(* NewWafAcl: DesiredWafAclId from the annotations, the ARN when the load  *)
(* balancer is given, CurrentWafAclId left nil.                            *)
NewWafAclRecord ==
    [current |-> Nil, desired |-> annotation, arnKnown |-> lbExists]

Init ==
    /\ annotation \in AclOrNil
    /\ lbExists \in BOOLEAN
    /\ assoc = Nil
    /\ w = [current |-> Nil, desired |-> annotation, arnKnown |-> lbExists]
    /\ result = "none"
    /\ edits = 0

Edit ==
    /\ edits < MaxEdits
    /\ edits' = edits + 1
    /\ UNCHANGED <<assoc, result>>

(* The caller builds a new record (each sync, or after a restart).         *)
NewWafAcl ==
    /\ w' = NewWafAclRecord
    /\ UNCHANGED annotation /\ UNCHANGED lbExists
    /\ Edit

SetAnnotation(a) ==
    /\ annotation # a
    /\ annotation' = a
    /\ UNCHANGED <<lbExists, w>>
    /\ Edit

CreateLoadBalancer ==
    /\ ~lbExists
    /\ lbExists' = TRUE
    /\ UNCHANGED <<annotation, w>>
    /\ Edit

-----------------------------------------------------------------------------
(* Mutant: CurrentWafAclId updated before the call's error is checked.     *)
AssociateEarlyUpdate(ok) ==
    IF ~w.arnKnown THEN w
    ELSE [w EXCEPT !.current = w.desired]

(* associate: nothing without a load balancer ARN; on success              *)
(* CurrentWafAclId = DesiredWafAclId.                                      *)
Associate(ok) ==
    IF ~w.arnKnown \/ ~ok THEN w ELSE [w EXCEPT !.current = w.desired]

(* disassociate: the same, CurrentWafAclId = nil on success.               *)
Disassociate(ok) ==
    IF ~w.arnKnown \/ ~ok THEN w ELSE [w EXCEPT !.current = Nil]

(* The three cases of Reconcile's switch.                                  *)
Operation ==
    CASE w.desired = Nil -> IF w.current = Nil THEN "none" ELSE "disassociate"
      [] w.current = Nil -> "associate"
      [] OTHER           -> IF w.current # w.desired THEN "associate" ELSE "none"

(* Reconcile, with the WAF Regional call succeeding (ok) or failing.       *)
Reconcile(ok) ==
    /\ \/ /\ Operation = "none"
          /\ ok
          /\ UNCHANGED <<w, assoc>>
       \/ /\ Operation = "associate"
          /\ w' = Associate(ok)
          /\ assoc' = IF w.arnKnown /\ ok THEN w.desired ELSE assoc
       \/ /\ Operation = "disassociate"
          /\ w' = Disassociate(ok)
          /\ assoc' = IF w.arnKnown /\ ok THEN Nil ELSE assoc
    /\ result' = IF ok \/ ~w.arnKnown THEN "ok" ELSE "err"
    /\ UNCHANGED <<annotation, lbExists, edits>>

Next ==
    \/ \E ok \in BOOLEAN : Reconcile(ok)
    \/ NewWafAcl \/ CreateLoadBalancer
    \/ \E a \in AclOrNil : SetAnnotation(a)

Spec == Init /\ [][Next]_vars

-----------------------------------------------------------------------------
(* PROPERTIES                                                              *)

(* The record's CurrentWafAclId, once set, is the ACL associated in AWS:   *)
(* associate and disassociate record only what the call did.               *)
CurrentIsAssociated ==
    w.arnKnown /\ w.current # Nil => assoc = w.current

(* A Reconcile of a record with the load balancer's ARN that returns nil   *)
(* leaves the load balancer with the ACL of the annotation, or with none   *)
(* when the annotation is absent (Reconcile's comment).                    *)
ReconcileEstablishesAcl ==
    [][\A ok \in BOOLEAN :
          Reconcile(ok) /\ w.arnKnown /\ result' = "ok" => assoc' = w.desired]_vars

=============================================================================
