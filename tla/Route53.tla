------------------------------- MODULE Route53 -------------------------------
(***************************************************************************)
(* The Route 53 lookups of src/awsutil/route53.go: getDomain, GetZoneID    *)
(* with its process-wide zone cache (60 minutes), DescribeResourceRecordSets *)
(* and LookupExistingRecord, against hosted zones whose records change.    *)
(*                                                                         *)
(* A DNS name is a sequence of labels, leftmost label first; labels are    *)
(* small numbers, case and the trailing dot are left out (the code trims   *)
(* the dot and lowercases the domain).  Route 53 lists the records of a    *)
(* zone sorted by name with the labels reversed (com.example.www), and     *)
(* ListResourceRecordSets with StartRecordName returns the records from    *)
(* the first one not below that name.                                      *)
(***************************************************************************)
EXTENDS Naturals, SequencesExt

CONSTANTS
    Labels,       \* DNS labels, a set of naturals
    MaxLabels,    \* longest host name, in labels
    ZoneNames,    \* names of the zones that may be hosted
    ZoneIds,      \* hosted zone IDs Route 53 may assign, model values
    NoZone,       \* no zone / a cache miss
    MaxChanges    \* bound on changes to zones and records

Names == {n \in BoundedSeq(Labels, MaxLabels) : n # <<>>}

(* The nil *ResourceRecordSet: no record.                                  *)
NoRecord == <<>>

(* The keys of the zone cache: the names getDomain can return.             *)
Domains == {n \in Names : Len(n) = 2}

VARIABLES
    zoneOf,       \* zoneOf[z]: ID of the hosted zone named z, or NoZone
    records,      \* records[id]: names of the record sets of zone id
    usedIds,      \* zone IDs assigned so far (never reused)
    cache,        \* cache[d]: zone ID cached under "r53zone " + d, or NoZone
    lastHost,     \* host name of the last LookupExistingRecord
    lastResult,   \* name of the record set it returned, or NoRecord
    changes

vars == <<zoneOf, records, usedIds, cache, lastHost, lastResult, changes>>

TypeOK ==
    /\ zoneOf \in [ZoneNames -> ZoneIds \cup {NoZone}]
    /\ records \in [ZoneIds -> SUBSET Names]
    /\ usedIds \subseteq ZoneIds
    /\ cache \in [Domains -> ZoneIds \cup {NoZone}]
    /\ lastHost \in Names \cup {NoRecord}
    /\ lastResult \in Names \cup {NoRecord}
    /\ changes \in 0..MaxChanges

-----------------------------------------------------------------------------
(* getDomain: the last two labels; a name of one label has no domain.      *)
GetDomain(h) == SubSeq(h, Len(h) - 1, Len(h))

HasDomain(h) == Len(h) >= 2

(* Lexicographic order of label sequences, and Route 53's record order.    *)
LexLeq(s, t) ==
    \/ IsPrefix(s, t)
    \/ \E k \in 1..Len(s) :
          /\ k <= Len(t)
          /\ SubSeq(s, 1, k - 1) = SubSeq(t, 1, k - 1)
          /\ s[k] < t[k]

RecordOrderLeq(a, b) == LexLeq(Reverse(a), Reverse(b))

HostedIds == {zoneOf[z] : z \in {y \in ZoneNames : zoneOf[y] # NoZone}}

(* GetZoneID: the cached zone, else the hosted zone whose name equals the  *)
(* domain in the ListHostedZonesByName answer, else an error.              *)
ZoneLookup(d) ==
    IF cache[d] # NoZone THEN cache[d]
    ELSE IF d \in ZoneNames THEN zoneOf[d] ELSE NoZone

(* DescribeResourceRecordSets with MaxItems 1 and StartRecordName h: the   *)
(* first record set not below h, whatever its name; an empty list or a     *)
(* zone that no longer exists (NoSuchHostedZone) is an error.              *)
DescribeResourceRecordSets(id, h) ==
    LET after == {r \in records[id] : RecordOrderLeq(h, r)}
    IN  IF id \notin HostedIds \/ after = {} THEN NoRecord
        ELSE CHOOSE r \in after : \A q \in after : RecordOrderLeq(r, q)

(* The cache entry set by GetZoneID expires after 60 minutes.              *)
Expire(d) ==
    /\ cache[d] # NoZone
    /\ cache' = [cache EXCEPT ![d] = NoZone]
    /\ UNCHANGED <<zoneOf, records, usedIds, lastHost, lastResult, changes>>

-----------------------------------------------------------------------------
Init ==
    /\ zoneOf = [z \in ZoneNames |-> NoZone]
    /\ records = [id \in ZoneIds |-> {}]
    /\ usedIds = {}
    /\ cache = [d \in Domains |-> NoZone]
    /\ lastHost = NoRecord /\ lastResult = NoRecord
    /\ changes = 0

(* LookupExistingRecord(h): nil on any error.  A zone found by             *)
(* ListHostedZonesByName is cached under its domain.                       *)
LookupExistingRecord(h) ==
    /\ lastHost' = h
    /\ IF ~HasDomain(h)
         THEN /\ lastResult' = NoRecord
              /\ UNCHANGED cache
         ELSE LET d == GetDomain(h)
                  id == ZoneLookup(d)
              IN  /\ cache' = IF cache[d] = NoZone /\ id # NoZone
                                THEN [cache EXCEPT ![d] = id] ELSE cache
                  /\ lastResult' = IF id = NoZone THEN NoRecord
                                   ELSE DescribeResourceRecordSets(id, h)
    /\ UNCHANGED <<zoneOf, records, usedIds, changes>>

(* A Route 53 call fails (throttling, timeout): the lookup returns nil.    *)
LookupFails(h) ==
    /\ lastHost' = h /\ lastResult' = NoRecord
    /\ UNCHANGED <<zoneOf, records, usedIds, cache, changes>>

-----------------------------------------------------------------------------
(* Zones and records change under the controller (other tools, users).     *)
Change ==
    /\ changes < MaxChanges
    /\ changes' = changes + 1
    /\ UNCHANGED <<cache, lastHost, lastResult>>

CreateZone(z) ==
    /\ zoneOf[z] = NoZone
    /\ \E id \in ZoneIds \ usedIds :
          /\ zoneOf' = [zoneOf EXCEPT ![z] = id]
          /\ usedIds' = usedIds \cup {id}
          /\ records' = [records EXCEPT ![id] = {z}]
    /\ Change

(* Route 53 deletes only a zone left with its apex NS and SOA records.     *)
DeleteZone(z) ==
    /\ zoneOf[z] # NoZone
    /\ records[zoneOf[z]] = {z}
    /\ zoneOf' = [zoneOf EXCEPT ![z] = NoZone]
    /\ records' = [records EXCEPT ![zoneOf[z]] = {}]
    /\ UNCHANGED usedIds
    /\ Change

AddRecord(z, n) ==
    /\ zoneOf[z] # NoZone
    /\ IsSuffix(z, n)
    /\ records' = [records EXCEPT ![zoneOf[z]] = @ \cup {n}]
    /\ UNCHANGED <<zoneOf, usedIds>>
    /\ Change

DeleteRecord(z, n) ==
    /\ zoneOf[z] # NoZone
    /\ n \in records[zoneOf[z]] \ {z}
    /\ records' = [records EXCEPT ![zoneOf[z]] = @ \ {n}]
    /\ UNCHANGED <<zoneOf, usedIds>>
    /\ Change

Next ==
    \/ \E h \in Names : LookupExistingRecord(h) \/ LookupFails(h)
    \/ \E d \in Domains : Expire(d)
    \/ \E z \in ZoneNames : CreateZone(z) \/ DeleteZone(z)
    \/ \E z \in ZoneNames, n \in Names : AddRecord(z, n) \/ DeleteRecord(z, n)

Spec == Init /\ [][Next]_vars

-----------------------------------------------------------------------------
(* PROPERTIES                                                              *)

(* LookupExistingRecord returns the record set of the host it was asked    *)
(* for, or nil (comment at line 140: "Return the respective                *)
(* route53.ResourceRecordSet").                                            *)
LookupIsSound == lastResult # NoRecord => lastResult = lastHost

=============================================================================
