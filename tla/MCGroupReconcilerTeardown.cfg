\* Teardown: the last member of a group is deleted.
CONSTANTS
    i1 = i1
    i2 = i2
    g1 = g1
    g2 = g2
    NoGroup = NoGroup
    Ing <- MCIng
    Groups <- MCGroups1
    MaxEdits = 4
    MaxFailures = 2
    MaxCrashes = 1
SPECIFICATION FairSpec
PROPERTIES
    DeletedIngressReleased
\* The controller idles once users stop and the queue is empty.
CHECK_DEADLOCK FALSE
