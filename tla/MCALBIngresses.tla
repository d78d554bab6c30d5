---------------------------- MODULE MCALBIngresses ----------------------------
EXTENDS ALBIngresses, TLC

CONSTANTS a1, a2

MCIds == {a1, a2}
MCBadNone == {}
MCBadOne == {a1}

=============================================================================
