------------------------------ MODULE MCRoute53 ------------------------------
(* Labels 1 and 2, host names of up to three labels, zones named 1.2 (and  *)
(* 2.2), two zone IDs so that a zone can be deleted and hosted again.      *)
EXTENDS Route53

CONSTANTS z1, z2

MCLabels == {1, 2}
MCZoneOne == {<<1, 2>>}
MCZoneTwo == {<<1, 2>>, <<2, 2>>}
MCZoneIds == {z1, z2}
=============================================================================
