--------------------------- MODULE LunList_proofs ---------------------------
(***************************************************************************)
(* The update list for any number of LUNs, of images and of places in      *)
(* lun_list, with as many LUNs as there are places or more included.       *)
(***************************************************************************)
EXTENDS LunList, TLAPS

IInv == TypeOK /\ NoDuplicates /\ Covers

\* A step of the loop visits the next image.
LEMMA Visited ==
  ASSUME TypeOK, InLoop
  PROVE  /\ i \in Parts /\ i' \in 1..(NumParts + 1)
         /\ {link[x] : x \in 1..(i' - 1)}
              = {link[x] : x \in 1..(i - 1)} \cup {link[i]}
<1>1. i \in Parts /\ i' \in 1..(NumParts + 1)
  BY NumPartsAssumption DEF TypeOK, InLoop, Parts
<1>2. 1..(i' - 1) = 1..(i - 1) \cup {i}
  BY <1>1, NumPartsAssumption DEF InLoop, Parts
<1> QED BY <1>1, <1>2

\* A step that leaves the list alone preserves IInv if there was no need to
\* add the image's LUN.
LEMMA ListUnchanged ==
  ASSUME IInv, InLoop, UNCHANGED lun_list,
         \/ link[i] \notin accessible
         \/ link[i] \in {lun_list[k] : k \in 1..num_valid_entries}
  PROVE  IInv'
<1>1. TypeOK'
  BY Visited DEF IInv, TypeOK, InLoop
<1>2. NoDuplicates'
  BY DEF IInv, NoDuplicates, Searched, num_valid_entries
<1>3. Covers'
  <2>1. {link[x] : x \in 1..(i' - 1)} = {link[x] : x \in 1..(i - 1)} \cup {link[i]}
    BY Visited DEF IInv
  <2>2. {link'[x] : x \in 1..(i' - 1)} = {link[x] : x \in 1..(i - 1)} \cup {link[i]}
    BY <2>1 DEF InLoop
  <2>3. accessible' = accessible
    BY DEF InLoop
  <2> DEFINE L == {lun_list[k] : k \in 1..num_valid_entries}
             P == {link[x] : x \in 1..(i - 1)}
  <2>4. {lun_list'[k] : k \in 1..num_valid_entries'} = L
    BY DEF num_valid_entries
  <2>5. L = accessible \cap P
    BY DEF IInv, Covers
  <2>6. link[i] \notin accessible \/ link[i] \in L
    OBVIOUS
  <2> HIDE DEF L, P
  <2>7. L = accessible \cap (P \cup {link[i]})
    BY <2>5, <2>6
  <2>8. {link'[x] : x \in 1..(i' - 1)} = P \cup {link[i]}
    BY <2>2 DEF P
  <2> QED BY <2>3, <2>4, <2>7, <2>8 DEF Covers
<1> QED BY <1>1, <1>2, <1>3 DEF IInv

LEMMA InitIInv == Init => IInv
<1> SUFFICES ASSUME Init PROVE IInv
  OBVIOUS
<1>1. TypeOK
  <2>1. lun_list \in Seq(accessible)
    BY DEF Init
  <2>2. i \in 1..(NumParts + 1)
    BY NumPartsAssumption DEF Init
  <2> QED BY <2>1, <2>2 DEF Init, TypeOK
<1>2. NoDuplicates /\ Covers
  BY DEF Init, NoDuplicates, Searched, Covers, num_valid_entries
<1> QED BY <1>1, <1>2 DEF IInv

LEMMA StepIInv == IInv /\ [Next]_vars => IInv'
<1> SUFFICES ASSUME IInv, [Next]_vars PROVE IInv'
  OBVIOUS
<1>1. CASE NoLun
  <2>1. link[i] \notin accessible
    BY <1>1, LunsAssumption DEF NoLun, IInv, TypeOK
  <2> QED BY <1>1, <2>1, ListUnchanged DEF NoLun
<1>2. CASE AddFails
  <2>1. InLoop /\ link[i] \notin accessible /\ UNCHANGED lun_list
    BY <1>2 DEF AddFails, Resolved
  <2> QED BY <2>1, ListUnchanged
<1>3. CASE AddFound
  <2>1. /\ InLoop /\ UNCHANGED lun_list
        /\ \E k \in 1..num_valid_entries : lun_list[k] = link[i]
    BY <1>3 DEF AddFound, Resolved, Found
  <2> QED BY <2>1, ListUnchanged
<1>4. CASE Copy
  <2>1. PICK l \in accessible : /\ num_valid_entries < MAX_LUNS
                                /\ Resolved(l) /\ ~Found(l)
                                /\ lun_list' = Append(lun_list, l)
    BY <1>4 DEF Copy
  <2>2. InLoop /\ link[i] = l
    BY <2>1 DEF Resolved
  <2>3. num_valid_entries < MAX_LUNS - 1
          => \A k \in 1..num_valid_entries : lun_list[k] # l
    BY <2>1 DEF Found
  <2>4. /\ lun_list \in Seq(accessible)
        /\ num_valid_entries \in Nat
        /\ num_valid_entries' = num_valid_entries + 1
        /\ lun_list'[num_valid_entries + 1] = l
        /\ \A k \in 1..num_valid_entries : lun_list'[k] = lun_list[k]
    BY <2>1 DEF IInv, TypeOK, num_valid_entries
  <2>5. TypeOK'
    BY <2>1, <2>2, <2>4, Visited DEF IInv, TypeOK, InLoop
  <2>6. NoDuplicates'
    <3>1. CASE num_valid_entries < MAX_LUNS - 1
      <4>1. \A j, k \in 1..num_valid_entries : lun_list[j] = lun_list[k] => j = k
        BY <2>4, <3>1, MaxLunsAssumption DEF IInv, NoDuplicates, Searched
      <4>2. \A j, k \in 1..(num_valid_entries + 1) :
              lun_list'[j] = lun_list'[k] => j = k
        BY <2>3, <2>4, <3>1, <4>1
      <4> QED BY <2>4, <4>2 DEF NoDuplicates, Searched
    <3>2. CASE ~(num_valid_entries < MAX_LUNS - 1)
      <4>1. num_valid_entries + 1 = MAX_LUNS
        BY <2>1, <2>4, <3>2, MaxLunsAssumption
      <4>2. Searched' \subseteq Searched
        BY <2>4, <4>1 DEF Searched
      <4>3. \A k \in Searched : lun_list'[k] = lun_list[k]
        BY <2>4 DEF Searched
      <4> QED BY <4>2, <4>3 DEF IInv, NoDuplicates
    <3> QED BY <3>1, <3>2
  <2>7. Covers'
    <3>1. 1..num_valid_entries' = 1..num_valid_entries \cup {num_valid_entries + 1}
      BY <2>4
    <3>2. {lun_list'[k] : k \in 1..num_valid_entries'}
            = {lun_list[k] : k \in 1..num_valid_entries} \cup {l}
      BY <2>4, <3>1
    <3>3. {link[x] : x \in 1..(i' - 1)} = {link[x] : x \in 1..(i - 1)} \cup {l}
      BY <2>2, Visited DEF IInv
    <3>4. link' = link /\ accessible' = accessible
      BY <2>2 DEF InLoop
    <3> QED BY <3>2, <3>3, <3>4 DEF IInv, Covers
  <2> QED BY <2>5, <2>6, <2>7 DEF IInv
<1>5. CASE Overrun
  BY <1>5 DEF Overrun, IInv, TypeOK, NoDuplicates, Searched, Covers,
              num_valid_entries
<1>6. CASE UNCHANGED vars
  BY <1>6 DEF vars, IInv, TypeOK, NoDuplicates, Searched, Covers,
              num_valid_entries
<1> QED BY <1>1, <1>2, <1>3, <1>4, <1>5, <1>6 DEF Next

\* add_lun_to_update_list() lists no LUN twice in the places of lun_list that
\* are filled while it is searched, however many LUNs and images there are.
THEOREM NoDuplicatesTheorem == Spec => []NoDuplicates
<1>1. IInv => NoDuplicates
  BY DEF IInv
<1> QED BY <1>1, InitIInv, StepIInv, PTL DEF Spec

\* prepare_boot_update()'s list holds exactly the accessible LUNs that the
\* images visited lead to, up to the step that would overrun the array.
THEOREM CoversTheorem == Spec => []Covers
<1>1. IInv => Covers
  BY DEF IInv
<1> QED BY <1>1, InitIInv, StepIInv, PTL DEF Spec
=============================================================================
