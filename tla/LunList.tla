------------------------------ MODULE LunList ------------------------------
(***************************************************************************)
(* How prepare_boot_update() of gpt-utils/gpt-utils.cpp finds, on a UFS    *)
(* device, the LUNs it has to prepare: for every image of PTN_SWAP_LIST    *)
(* but xbl it follows the link of the backup partition, by-name/<x>bak,    *)
(* and adds the LUN it leads to to update_data.lun_list, unless it is      *)
(* there.  lun_list is an array of MAX_LUNS paths.                         *)
(***************************************************************************)
EXTENDS Integers, Sequences, FiniteSets

CONSTANTS
  Luns,      \* the block devices /dev/block/sda .. sdz
  NumParts,  \* images of PTN_SWAP_LIST, those of xbl left out
  MAX_LUNS

Parts == 1..NumParts

\* What by-name/<x>bak is: a link to a partition of a LUN; absent; a link
\* that cannot be read; a link to a path too short to name a LUN.
LinkKinds == {"absent", "unreadable", "short"}

ASSUME LunsAssumption == IsFiniteSet(Luns) /\ Luns \cap LinkKinds = {}
ASSUME NumPartsAssumption == NumParts \in Nat
ASSUME MaxLunsAssumption == MAX_LUNS \in Nat \ {0}

VARIABLES
  link,        \* link[x]: what by-name/<x>bak is
  accessible,  \* the LUNs that stat() finds
  i,           \* loop index over PTN_SWAP_LIST
  lun_list,    \* the first num_valid_entries of update_data.lun_list
  overrun      \* a path was copied to where lun_list ends

vars == <<link, accessible, i, lun_list, overrun>>

num_valid_entries == Len(lun_list)

\* Types of the state.
TypeOK ==
  /\ link \in [Parts -> Luns \cup LinkKinds]
  /\ accessible \subseteq Luns
  /\ i \in 1..(NumParts + 1)
  /\ lun_list \in Seq(accessible)
  /\ overrun \in BOOLEAN

Init == /\ link \in [Parts -> Luns \cup LinkKinds]
        /\ accessible \in SUBSET Luns
        /\ i = 1
        /\ lun_list = <<>>
        /\ overrun = FALSE

InLoop == /\ i <= NumParts /\ ~overrun
          /\ i' = i + 1
          /\ UNCHANGED <<link, accessible, overrun>>

\* The backup partition does not exist, or its LUN cannot be told.
NoLun == /\ InLoop
         /\ link[i] \in LinkKinds
         /\ UNCHANGED lun_list

Resolved(l) == InLoop /\ link[i] = l

\* add_lun_to_update_list(l): stat() fails.
AddFails == /\ \E l \in Luns \ accessible : Resolved(l)
            /\ UNCHANGED lun_list

\* The list is searched for l only while num_valid_entries < MAX_LUNS - 1.
FoundInFirst(l) == num_valid_entries > 0 /\ lun_list[1] = l
Found(l) == /\ num_valid_entries < MAX_LUNS - 1
            /\ \E k \in 1..num_valid_entries : lun_list[k] = l

AddFound == /\ \E l \in accessible : Resolved(l) /\ Found(l)
            /\ UNCHANGED lun_list

CopyOver == \E l \in accessible : /\ num_valid_entries < MAX_LUNS
                                  /\ Resolved(l) /\ ~Found(l)
                                  /\ lun_list' = <<l>>
Copy == \E l \in accessible : /\ num_valid_entries < MAX_LUNS
                              /\ Resolved(l) /\ ~Found(l)
                              /\ lun_list' = Append(lun_list, l)

\* Every place is taken: the path goes over num_valid_entries and what lies
\* behind it.  What happens then is undefined; here the loop is over.
Overrun == /\ num_valid_entries = MAX_LUNS
           /\ i <= NumParts /\ ~overrun
           /\ link[i] \in accessible /\ ~Found(link[i])
           /\ overrun' = TRUE
           /\ UNCHANGED <<link, accessible, i, lun_list>>

Next == NoLun \/ AddFails \/ AddFound \/ Copy \/ Overrun
Spec == Init /\ [][Next]_vars

-----------------------------------------------------------------------------

\* The places of lun_list that are filled while the list is searched.
Searched == (1..num_valid_entries) \ {MAX_LUNS}

\* No LUN is prepared twice in one stage as long as a place is free; and when
\* none is, only the path in the last one may be there before.  (On a LUN
\* that it has already finalized, FINALIZE fails.)
NoDuplicates == \A j, k \in Searched : lun_list[j] = lun_list[k] => j = k

\* The list holds every accessible LUN with a backup partition that the loop
\* has passed, and no other, also where LUNs are listed twice: a stage that
\* succeeds has prepared all of them.
Covers == {lun_list[k] : k \in 1..num_valid_entries}
            = accessible \cap {link[x] : x \in 1..(i - 1)}
=============================================================================
