--------------------------- MODULE GptSwap_proofs ---------------------------
(***************************************************************************)
(* For every list of names, every array and both kinds of device, the loop *)
(* of gpt_boot_chain_swap exchanges exactly the pairs of the array as it   *)
(* was read.  The argument: an entry belongs to one image of the list at   *)
(* most (Disjoint), so that what earlier iterations exchanged does not     *)
(* change where the current image is found (SameHits).                     *)
(***************************************************************************)
EXTENDS GptSwap, TLAPS

\* The return code tells whether the loop has passed a pair.
CodeTellsPassed ==
  backup_not_found = 1 <=> \A k, m \in Slots : ~Passed(k, m)

IInv == TypeOK /\ Exchanged /\ CodeTellsPassed

\* Appending the extension is injective.
LEMMA BakInjective ==
  ASSUME NEW p \in Seq(STRING), NEW q \in Seq(STRING), p \o Bak = q \o Bak
  PROVE  p = q
<1>1. Len(p) = Len(q)
  <2>1. Len(p \o Bak) = Len(p) + 1 /\ Len(q \o Bak) = Len(q) + 1
    BY DEF Bak
  <2> QED BY <2>1
<1>2. ASSUME NEW x \in 1..Len(p) PROVE p[x] = q[x]
  <2>1. (p \o Bak)[x] = p[x]
    BY DEF Bak
  <2>2. (q \o Bak)[x] = q[x]
    BY <1>1 DEF Bak
  <2> QED BY <2>1, <2>2
<1> QED BY <1>1, <1>2

\* An entry matches one name of the list at most.
LEMMA Disjoint ==
  ASSUME NEW j \in 1..Len(SwapList), NEW k \in 1..Len(SwapList), j # k,
         NEW n, Matches(SwapList[j], n)
  PROVE  ~Matches(SwapList[k], n)
<1>1. SwapList[j] \in Seq(STRING) /\ SwapList[k] \in Seq(STRING)
  BY SwapListAssumption
<1>2. /\ SwapList[j] # SwapList[k]
      /\ SwapList[j] # SwapList[k] \o Bak
      /\ SwapList[k] # SwapList[j] \o Bak
  BY SwapListAssumption
<1>3. SwapList[j] \o Bak # SwapList[k] \o Bak
  BY <1>1, <1>2, BakInjective
<1> QED BY <1>2, <1>3 DEF Matches

\* The pairs of different images have no slot in common.
LEMMA TwinsDisjoint ==
  ASSUME NEW j \in 1..Len(SwapList), NEW k \in 1..Len(SwapList), j # k,
         NEW a \in Slots, NEW b \in Slots, Twins(SwapList[j], a, b)
  PROVE  /\ a \notin EntriesAsRead(SwapList[k])
         /\ b \notin EntriesAsRead(SwapList[k])
<1>1. Matches(SwapList[j], name[a]) /\ Matches(SwapList[j], name[b])
  BY DEF Twins, EntriesAsRead, Matches
<1>2. ~Matches(SwapList[k], name[a]) /\ ~Matches(SwapList[k], name[b])
  BY <1>1, Disjoint
<1> QED BY <1>2 DEF Matches, EntriesAsRead

\* An image has one pair at most.
LEMMA TwinsUnique ==
  ASSUME NEW p, NEW a \in Slots, NEW b \in Slots, NEW c \in Slots,
         NEW d \in Slots, Twins(p, a, b), Twins(p, c, d)
  PROVE  a = c /\ b = d
BY NumEntriesAssumption DEF Twins, Slots

\* The current image is found where it was in the array as read.
LEMMA SameHits ==
  ASSUME IInv, i \in 1..Len(SwapList)
  PROVE  Hits(slot, Current) = EntriesAsRead(Current)
<1>1. ASSUME NEW k \in Slots
      PROVE  Matches(Current, name[slot[k]]) <=> Matches(Current, name[k])
  <2>1. CASE \E m \in Slots : Passed(k, m) \/ Passed(m, k)
    <3>1. PICK m \in Slots : Passed(k, m) \/ Passed(m, k)
      BY <2>1
    <3>2. slot[k] = m
      BY <3>1 DEF IInv, Exchanged
    <3>3. PICK j \in 1..(i - 1) : \/ Twins(SwapList[j], k, m)
                                  \/ Twins(SwapList[j], m, k)
      BY <3>1 DEF Passed
    <3>4. j \in 1..Len(SwapList) /\ j # i
      BY <3>3, SwapListAssumption
    <3>5. k \notin EntriesAsRead(Current) /\ m \notin EntriesAsRead(Current)
      BY <3>3, <3>4, TwinsDisjoint DEF Current
    <3> QED BY <3>2, <3>5 DEF EntriesAsRead, Matches
  <2>2. CASE \A m \in Slots : ~Passed(k, m) /\ ~Passed(m, k)
    <3>1. slot[k] = k
      BY <2>2 DEF IInv, Exchanged
    <3> QED BY <3>1
  <2> QED BY <2>1, <2>2
<1> QED BY <1>1 DEF Hits, EntriesAsRead, Matches

\* The test for xbl is the one the properties are stated with.
LEMMA SkippedTakesPart ==
  ASSUME i \in 1..Len(SwapList)
  PROVE  Skipped(Current) <=> ~TakesPart(Current)
<1>1. Current \in Seq(STRING)
  BY SwapListAssumption DEF Current
<1>2. Len(Current) > 0 <=> Current # <<>>
  BY <1>1
<1> QED BY <1>2 DEF Skipped, TakesPart, Xbl

\* One iteration passes the pair of the current image, if it has one.
LEMMA PassedNext ==
  ASSUME TypeOK, i <= Len(SwapList), i' = i + 1, UNCHANGED name,
         NEW k \in Slots, NEW m \in Slots
  PROVE  Passed(k, m)' <=> Passed(k, m) \/ Twins(Current, k, m)
<1>1. i \in 1..Len(SwapList) /\ Len(SwapList) \in Nat
  BY SwapListAssumption DEF TypeOK
<1>2. 1..(i' - 1) = 1..(i - 1) \cup {i}
  BY <1>1
<1>3. \A j : Twins(SwapList[j], k, m)' <=> Twins(SwapList[j], k, m)
  BY DEF Twins, EntriesAsRead, TakesPart
<1> QED BY <1>2, <1>3 DEF Passed, Current

\* An iteration that finds no pair changes nothing that IInv speaks of.
LEMMA NoPairStep ==
  ASSUME IInv, InLoop, UNCHANGED <<slot, backup_not_found>>,
         \A a, b \in Slots : ~Twins(Current, a, b)
  PROVE  IInv'
<1>1. \A k, m \in Slots : Passed(k, m)' <=> Passed(k, m)
  BY PassedNext DEF IInv, InLoop
<1>2. TypeOK'
  BY SwapListAssumption DEF IInv, TypeOK, InLoop
<1>3. Exchanged'
  BY <1>1 DEF IInv, Exchanged
<1>4. CodeTellsPassed'
  BY <1>1 DEF IInv, CodeTellsPassed
<1> QED BY <1>2, <1>3, <1>4 DEF IInv

LEMMA InitIInv == Init => IInv
<1> SUFFICES ASSUME Init PROVE IInv
  OBVIOUS
<1>1. TypeOK
  BY SwapListAssumption DEF Init, TypeOK, AsRead
<1>2. \A k, m \in Slots : ~Passed(k, m)
  BY DEF Init, Passed
<1> QED BY <1>1, <1>2 DEF Init, IInv, Exchanged, CodeTellsPassed, AsRead

LEMMA StepIInv == IInv /\ [Next]_vars => IInv'
<1> SUFFICES ASSUME IInv, [Next]_vars PROVE IInv'
  OBVIOUS
<1>1. CASE SkipXbl
  <2>1. i \in 1..Len(SwapList)
    BY <1>1, SwapListAssumption DEF SkipXbl, InLoop, IInv, TypeOK
  <2>2. ~TakesPart(Current)
    BY <1>1, <2>1, SkippedTakesPart DEF SkipXbl
  <2>3. \A a, b \in Slots : ~Twins(Current, a, b)
    BY <2>2 DEF Twins
  <2> QED BY <1>1, <2>3, NoPairStep DEF SkipXbl
<1>2. CASE NotFound
  <2>1. i \in 1..Len(SwapList)
    BY <1>2, SwapListAssumption DEF NotFound, InLoop, IInv, TypeOK
  <2>2. Hits(slot, Current) = EntriesAsRead(Current)
    BY <2>1, SameHits
  <2>3. \A k \in EntriesAsRead(Current) : k < 1
    BY <1>2, <2>2 DEF NotFound, SeekNull
  <2>4. \A a, b \in Slots : ~Twins(Current, a, b)
    BY <2>3 DEF Twins, Slots
  <2> QED BY <1>2, <2>4, NoPairStep DEF NotFound
<1>3. CASE NoBackup
  <2>1. i \in 1..Len(SwapList)
    BY <1>3, SwapListAssumption DEF NoBackup, InLoop, IInv, TypeOK
  <2>2. Hits(slot, Current) = EntriesAsRead(Current)
    BY <2>1, SameHits
  <2>3. PICK a \in Slots : /\ Seek(slot, Current, 1, a)
                           /\ SeekNull(slot, Current, a + 1)
    BY <1>3 DEF NoBackup
  <2>4. \A k \in EntriesAsRead(Current) : k = a
    BY <2>2, <2>3, NumEntriesAssumption DEF Seek, SeekNull, Slots, EntriesAsRead
  <2>5. \A c, d \in Slots : ~Twins(Current, c, d)
    BY <2>4 DEF Twins, Slots
  <2> QED BY <1>3, <2>5, NoPairStep DEF NoBackup
<1>4. CASE SwapPair
  <2>1. i \in 1..Len(SwapList)
    BY <1>4, SwapListAssumption DEF SwapPair, InLoop, IInv, TypeOK
  <2>2. Hits(slot, Current) = EntriesAsRead(Current)
    BY <2>1, SameHits
  <2>3. PICK a \in Slots, b \in Slots :
          /\ Pair(slot, Current, a, b)
          /\ slot' = [slot EXCEPT ![a] = slot[b], ![b] = slot[a]]
    BY <1>4 DEF SwapPair
  <2>4. TakesPart(Current)
    BY <1>4, <2>1, SkippedTakesPart DEF SwapPair
  <2>5. Twins(Current, a, b)
    <3> DEFINE E == EntriesAsRead(Current)
    <3>1. E \subseteq Int
      BY NumEntriesAssumption DEF EntriesAsRead, Slots
    <3>2. /\ a \in E /\ b \in E /\ b >= a + 1
          /\ \A k \in E : k >= 1 => a <= k
          /\ \A k \in E : k >= a + 1 => b <= k
      BY <2>2, <2>3 DEF Pair, Seek
    <3>3. \A k \in E : k >= 1
      BY NumEntriesAssumption DEF EntriesAsRead, Slots
    <3> HIDE DEF E
    <3>4. a < b /\ \A k \in E : k \in {a, b} \/ k > b
      BY <3>1, <3>2, <3>3
    <3> QED BY <2>4, <3>2, <3>4 DEF Twins, E
  <2>6. \A k, m \in Slots : Passed(k, m)' <=> Passed(k, m) \/ Twins(Current, k, m)
    BY <1>4, PassedNext DEF IInv, SwapPair, InLoop
  <2>7. \A k, m \in Slots : Twins(Current, k, m) => k = a /\ m = b
    BY <2>5, TwinsUnique
  <2>8. \A m \in Slots : /\ ~Passed(a, m) /\ ~Passed(m, a)
                         /\ ~Passed(b, m) /\ ~Passed(m, b)
    <3> SUFFICES ASSUME NEW c \in Slots, NEW d \in Slots, Passed(c, d)
                 PROVE  {c, d} \cap {a, b} = {}
      OBVIOUS
    <3>1. PICK j \in 1..(i - 1) : Twins(SwapList[j], c, d)
      BY DEF Passed
    <3>2. j \in 1..Len(SwapList) /\ j # i
      BY <2>1, SwapListAssumption
    <3>3. c \notin EntriesAsRead(Current) /\ d \notin EntriesAsRead(Current)
      BY <2>1, <3>1, <3>2, TwinsDisjoint DEF Current
    <3>4. {a, b} \subseteq EntriesAsRead(Current)
      BY <2>5 DEF Twins
    <3> QED BY <3>3, <3>4
  <2>9. slot[a] = a /\ slot[b] = b /\ a # b
    BY <2>8, <2>5 DEF IInv, Exchanged, Twins, Slots
  <2>10. /\ slot'[a] = b /\ slot'[b] = a
         /\ \A k \in Slots : k # a /\ k # b => slot'[k] = slot[k]
    BY <2>3, <2>9 DEF IInv, TypeOK
  <2>11. TypeOK'
    BY <1>4, <2>1, <2>3, SwapListAssumption DEF IInv, TypeOK, SwapPair, InLoop
  <2>12. Exchanged'
    <3> SUFFICES ASSUME NEW k \in Slots, NEW m \in Slots
                 PROVE  /\ Passed(k, m)' => slot'[k] = m /\ slot'[m] = k
                        /\ (\A x \in Slots : ~Passed(k, x)' /\ ~Passed(x, k)')
                             => slot'[k] = k
      BY DEF Exchanged
    <3>1. ASSUME Passed(k, m)' PROVE slot'[k] = m /\ slot'[m] = k
      <4>1. CASE Twins(Current, k, m)
        BY <4>1, <2>7, <2>10
      <4>2. CASE Passed(k, m)
        <5>1. slot[k] = m /\ slot[m] = k
          BY <4>2 DEF IInv, Exchanged
        <5>2. k \notin {a, b} /\ m \notin {a, b}
          BY <4>2, <2>8
        <5> QED BY <5>1, <5>2, <2>10
      <4> QED BY <3>1, <4>1, <4>2, <2>6
    <3>2. ASSUME \A x \in Slots : ~Passed(k, x)' /\ ~Passed(x, k)'
          PROVE  slot'[k] = k
      <4>1. \A x \in Slots : ~Passed(k, x) /\ ~Passed(x, k)
        BY <3>2, <2>6
      <4>2. slot[k] = k
        BY <4>1 DEF IInv, Exchanged
      <4>3. k # a /\ k # b
        BY <3>2, <2>6, <2>5
      <4> QED BY <4>2, <4>3, <2>10
    <3> QED BY <3>1, <3>2
  <2>13. CodeTellsPassed'
    BY <1>4, <2>5, <2>6 DEF CodeTellsPassed, SwapPair
  <2> QED BY <2>11, <2>12, <2>13 DEF IInv
<1>5. CASE UNCHANGED vars
  <2>1. \A k, m \in Slots : Passed(k, m)' <=> Passed(k, m)
    BY <1>5 DEF vars, Passed, Twins, EntriesAsRead, TakesPart
  <2>2. TypeOK'
    BY <1>5 DEF IInv, TypeOK, vars
  <2>3. Exchanged'
    BY <1>5, <2>1 DEF IInv, Exchanged, vars
  <2>4. CodeTellsPassed'
    BY <1>5, <2>1 DEF IInv, CodeTellsPassed, vars
  <2> QED BY <2>2, <2>3, <2>4 DEF IInv
<1> QED BY <1>1, <1>2, <1>3, <1>4, <1>5 DEF Next

\* IInv is an invariant of the loop: with it, the loop keeps its types.
THEOREM Invariance == Spec => []IInv
BY InitIInv, StepIInv, PTL DEF Spec

\* The loop index stays in the list or one past it, and the array stays an
\* arrangement of its own slots.
THEOREM TypeCorrect == Spec => []TypeOK
<1>1. IInv => TypeOK
  BY DEF IInv
<1> QED BY <1>1, Invariance, PTL

\* gpt_boot_chain_swap exchanges exactly the pairs of the array as read.
THEOREM ExchangedTheorem == Spec => []Exchanged
<1>1. IInv => Exchanged
  BY DEF IInv
<1> QED BY <1>1, Invariance, PTL

\* The return code of gpt_boot_chain_swap is 1 exactly if nothing moved.
LEMMA CodeFollows == IInv => ReturnCode
<1> SUFFICES ASSUME IInv PROVE ReturnCode
  OBVIOUS
<1>1. ASSUME backup_not_found = 1 PROVE slot = AsRead
  BY <1>1 DEF IInv, CodeTellsPassed, Exchanged, TypeOK, AsRead
<1>2. ASSUME slot = AsRead, NEW k \in Slots, NEW m \in Slots, Passed(k, m)
      PROVE  FALSE
  <2>1. slot[k] = m
    BY <1>2 DEF IInv, Exchanged
  <2>2. k < m
    BY <1>2 DEF Passed, Twins
  <2> QED BY <1>2, <2>1, <2>2 DEF AsRead, Slots
<1> QED BY <1>1, <1>2 DEF IInv, CodeTellsPassed, ReturnCode

\* The return code tells whether the array has changed.
THEOREM ReturnCodeTheorem == Spec => []ReturnCode
BY CodeFollows, Invariance, PTL
=============================================================================
