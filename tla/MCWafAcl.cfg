\* CurrentWafAclId never disagrees with AWS.
CONSTANTS
    Acls <- MCAcls
    acl1 = acl1
    acl2 = acl2
    Nil = nil
    nil = nil
    MaxEdits = 4
SPECIFICATION Spec
INVARIANT CurrentIsAssociated
