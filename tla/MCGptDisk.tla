----------------------------- MODULE MCGptDisk -----------------------------
(* An instance of GptDisk for TLC: a block holds the entries of one slot   *)
(* or of the other, and a boot chain swap exchanges them.                  *)
EXTENDS GptDisk

Slots == {1, 2}
OtherSlot == [v \in Slots |-> 3 - v]
=============================================================================
