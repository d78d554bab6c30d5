\* Safety: two groups, two ingresses, all faults.
CONSTANTS
    i1 = i1
    i2 = i2
    g1 = g1
    g2 = g2
    NoGroup = NoGroup
    Ing <- MCIng
    Groups <- MCGroups2
    MaxEdits = 5
    MaxFailures = 2
    MaxCrashes = 1
SPECIFICATION Spec
SYMMETRY MCSymmetry
INVARIANTS
    TypeOK
    NoOrphan
\* Once the edit bound is spent and the queue is empty the controller waits
\* for events that no longer come: a quiescent controller, not a deadlock.
CHECK_DEADLOCK FALSE
