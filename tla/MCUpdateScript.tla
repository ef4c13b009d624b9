--------------------------- MODULE MCUpdateScript ---------------------------
EXTENDS UpdateScript
AllBackup == [l \in Luns |-> TRUE]
NoFaults == {}
=============================================================================
