\* Load balancers of ingresses deleted while no controller ran.
CONSTANTS
    a1 = a1
    a2 = a2
    Ids <- MCIds
    BadCapable <- MCBadNone
    MaxEdits = 3
    MaxCrashes = 1
SPECIFICATION FairSpec
PROPERTY
    OrphansEventuallyDeleted
