-------------------------- MODULE MCSecurityGroup --------------------------
(* Model-checking instance of SecurityGroup: two group IDs, one port and  *)
(* two CIDR ranges, so that rules can be merged or split per port.        *)
EXTENDS SecurityGroup, TLC

CONSTANTS s1, s2, c1, c2

MCSGIds == {s1, s2}
MCPorts == {80}
MCCidrs == {c1, c2}
=============================================================================
