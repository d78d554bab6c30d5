\* Safety: two ingresses, one of which may get broken annotations.
CONSTANTS
    a1 = a1
    a2 = a2
    Ids <- MCIds
    BadCapable <- MCBadOne
    MaxEdits = 4
    MaxCrashes = 1
SPECIFICATION Spec
PROPERTY
    LoadBalancersRefined
