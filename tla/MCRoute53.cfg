\* LookupExistingRecord never returns the record set of another host.
CONSTANTS
    Labels <- MCLabels
    MaxLabels = 3
    ZoneNames <- MCZoneTwo
    ZoneIds <- MCZoneIds
    z1 = z1
    z2 = z2
    NoZone = none
    MaxChanges = 3
SPECIFICATION Spec
INVARIANT LookupIsSound
