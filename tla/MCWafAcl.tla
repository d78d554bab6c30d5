------------------------------- MODULE MCWafAcl -------------------------------
(* Two web ACLs, so that an association can be modified.                   *)
EXTENDS WafAcl

CONSTANTS acl1, acl2, nil

MCAcls == {acl1, acl2}
=============================================================================
