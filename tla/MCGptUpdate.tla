---------------------------- MODULE MCGptUpdate ----------------------------
(* Instances of GptUpdate for TLC: which LUNs have backup partitions, and  *)
(* which storage faults may happen.                                        *)
EXTENDS GptUpdateInv

AllBackup == [l \in Luns |-> TRUE]
SomeBackup == [l \in Luns |-> l = 1]

NoFaults == {}
Volatile == {"volatile"}
=============================================================================
