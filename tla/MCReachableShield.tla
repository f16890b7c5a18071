------------------------- MODULE MCReachableShield -------------------------
EXTENDS ReachableShield
=============================================================================
