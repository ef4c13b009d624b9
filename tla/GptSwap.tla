------------------------------ MODULE GptSwap ------------------------------
(***************************************************************************)
(* gpt_boot_chain_swap() of gpt-utils/gpt-utils.cpp: the loop over         *)
(* PTN_SWAP_LIST that exchanges, in an array of partition entries, the     *)
(* entry of every image with the entry of its backup, so that the boot     *)
(* loader, which takes the first of the two, loads the backup.             *)
(*                                                                         *)
(* A name is a sequence of tokens: "cmnlib32bak" is <<"cmnlib", "32",      *)
(* "bak">>, so that one name may be a prefix of another.  An entry moves   *)
(* as a whole: it is represented by the slot it had when the loop began.   *)
(***************************************************************************)
EXTENDS Integers, Sequences

CONSTANTS
  SwapList,    \* PTN_SWAP_LIST
  Names,       \* the names that entries may have
  NumEntries,  \* entries of the array
  IsUfs        \* gpt_utils_is_ufs_device()

Bak == <<"bak">>
Xbl == <<"xbl">>
Slots == 1..NumEntries

\* No name of the list is listed twice or is another one's backup name.
ASSUME NumEntriesAssumption == NumEntries \in Nat
ASSUME IsUfsAssumption == IsUfs \in BOOLEAN
ASSUME NamesAssumption == Names \subseteq Seq(STRING)
ASSUME SwapListAssumption ==
  /\ SwapList \in Seq(Seq(STRING))
  /\ \A j, k \in 1..Len(SwapList) :
       /\ j # k => SwapList[j] # SwapList[k]
       /\ SwapList[j] # SwapList[k] \o Bak

VARIABLES
  name,             \* name[s]: the name of the entry read from slot s
  slot,             \* slot[k]: the entry now in slot k
  i,                \* loop index over the list
  backup_not_found  \* the return code: 1 until a pair is exchanged

vars == <<name, slot, i, backup_not_found>>

\* Types of the state; the loop index stays in the list, or one past it.
TypeOK ==
  /\ name \in [Slots -> Names]
  /\ slot \in [Slots -> Slots]
  /\ i \in 1..(Len(SwapList) + 1)
  /\ backup_not_found \in {0, 1}

AsRead == [k \in Slots |-> k]

InitFromZero == /\ name \in [Slots -> Names] /\ slot = AsRead
                /\ i = 0 /\ backup_not_found = 1
Init == /\ name \in [Slots -> Names]
        /\ slot = AsRead
        /\ i = 1
        /\ backup_not_found = 1

\* gpt_pentry_seek compares the name, and the name with the extension, only
\* as a whole.
Matches(p, n) == n = p \/ n = p \o Bak

\* The entries for image p in the arrangement s of the array.
Hits(s, p) == {k \in Slots : Matches(p, name[s[k]])}

\* gpt_pentry_seek(p) from slot f on returns slot k.
Seek(s, p, f, k) == /\ k \in Hits(s, p) /\ k >= f
                    /\ \A j \in Hits(s, p) : j >= f => k <= j
SeekNull(s, p, f) == \A k \in Hits(s, p) : k < f

\* The image and its backup are found in slots a and b.
Pair(s, p, a, b) == Seek(s, p, 1, a) /\ Seek(s, p, a + 1, b)

\* "Skip the xbl partition on UFS devices": every name that starts with it.
SkippedExactly(p) == IsUfs /\ p = Xbl
Skipped(p) == IsUfs /\ Len(p) > 0 /\ p[1] = Xbl[1]

Current == SwapList[i]
InLoop == i <= Len(SwapList) /\ i' = i + 1 /\ UNCHANGED name

SkipXbl == /\ InLoop /\ Skipped(Current)
           /\ UNCHANGED <<slot, backup_not_found>>

NotFound == /\ InLoop /\ ~Skipped(Current)
            /\ SeekNull(slot, Current, 1)
            /\ UNCHANGED <<slot, backup_not_found>>

NoBackup == /\ InLoop /\ ~Skipped(Current)
            /\ \E a \in Slots : /\ Seek(slot, Current, 1, a)
                                /\ SeekNull(slot, Current, a + 1)
            /\ UNCHANGED <<slot, backup_not_found>>

SwapPairNoCode == /\ InLoop /\ ~Skipped(Current)
                  /\ \E a, b \in Slots :
                       /\ Pair(slot, Current, a, b)
                       /\ slot' = [slot EXCEPT ![a] = slot[b], ![b] = slot[a]]
                  /\ UNCHANGED backup_not_found
SwapPair == /\ InLoop /\ ~Skipped(Current)
            /\ \E a, b \in Slots :
                 /\ Pair(slot, Current, a, b)
                 /\ slot' = [slot EXCEPT ![a] = slot[b], ![b] = slot[a]]
            /\ backup_not_found' = 0

Next == SkipXbl \/ NotFound \/ NoBackup \/ SwapPair
Spec == Init /\ [][Next]_vars

-----------------------------------------------------------------------------
(* What the swap does, in terms of the array as it was read.               *)

\* The entries that image p had in the array as read, first one first; on
\* UFS no image whose name starts with xbl takes part.
EntriesAsRead(p) == {k \in Slots : name[k] \in {p, p \o Bak}}
TakesPart(p) == ~IsUfs \/ p = <<>> \/ p[1] # "xbl"
Twins(p, a, b) ==
  /\ TakesPart(p) /\ a < b
  /\ {a, b} \subseteq EntriesAsRead(p)
  /\ \A k \in EntriesAsRead(p) : k \in {a, b} \/ k > b

\* Slots a and b held a pair that the loop has passed.
Passed(a, b) == \E j \in 1..(i - 1) : Twins(SwapList[j], a, b)

\* Although the loop looks for each pair in an array that earlier iterations
\* have rearranged, it exchanges exactly the pairs of the array as read, and
\* no other entry moves.
Exchanged ==
  \A k, m \in Slots :
    /\ Passed(k, m) => slot[k] = m /\ slot[m] = k
    /\ (\A x \in Slots : ~Passed(k, x) /\ ~Passed(x, k)) => slot[k] = k

\* The return code 1 ("no backup partitions found") means that the array is
\* as it was read: the callers then do not write it.
ReturnCode == backup_not_found = 1 <=> slot = AsRead
=============================================================================
