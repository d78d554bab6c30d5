\* Reconcile and Delete of one security group with EC2 errors.
CONSTANTS
    s1 = s1
    s2 = s2
    c1 = c1
    c2 = c2
    Nil = Nil
    SGIds <- MCSGIds
    Ports <- MCPorts
    Cidrs <- MCCidrs
    MaxFailures = 2
SPECIFICATION Spec
INVARIANTS
    TypeOK
    ReconcileEstablishesPermissions
