\* One ingress with broken annotations, another one valid.
CONSTANTS
    a1 = a1
    a2 = a2
    Ids <- MCIds
    BadCapable <- MCBadOne
    MaxEdits = 3
    MaxCrashes = 1
SPECIFICATION FairSpec
PROPERTY
    ValidEventuallyServed
