--------------------------- MODULE PowerHal_proofs ---------------------------
(***************************************************************************)
(* The power HAL, for any platform, library, client and bounds: which      *)
(* locks are held, and who will release them.                              *)
(***************************************************************************)
EXTENDS PowerHal, FiniteSetTheorems, SequenceTheorems, TLAPS

-----------------------------------------------------------------------------
(* The list of active hints.                                               *)

\* An entry's lock is of the kind that its identity says.
Entry == {e \in [hint_id : HintIds, lock : Locks] : e.lock[1] = e.hint_id}

LocksIn(list) == {list[i].lock : i \in DOMAIN list}
Some(list, id) == \E i \in DOMAIN list : list[i].hint_id = id
AtMostOne(list, id) ==
  \A i, j \in DOMAIN list : list[i].hint_id = id /\ list[j].hint_id = id => i = j
Distinct(list) ==
  \A i, j \in DOMAIN list : list[i].lock = list[j].lock => i = j

LEMMA Least ==
  ASSUME NEW S, S \subseteq Nat, S # {}
  PROVE  \E n \in S : \A m \in S : n <= m
<1>1. PICK n \in S : \A m \in S : <<m, n>> \notin OpToRel(<, Nat)
  BY NatLessThanWellFounded, WFMin
<1>2. \A m \in S : ~(m < n)
  BY <1>1 DEF OpToRel
<1>3. \A m \in S : m \in Nat /\ n \in Nat
  OBVIOUS
<1> QED
  BY <1>2, <1>3

LEMMA FindNode ==
  ASSUME NEW list \in Seq(Entry), NEW id
  PROVE  /\ find_node(list, id) = 0 <=> ~Some(list, id)
         /\ find_node(list, id) # 0 => /\ find_node(list, id) \in DOMAIN list
                                       /\ list[find_node(list, id)].hint_id = id
<1> DEFINE I == {i \in 1..Len(list) : list[i].hint_id = id}
<1>1. find_node(list, id) = IF I # {} THEN Min(I) ELSE 0
  BY DEF find_node, SelectInSeq
<1>2. I \subseteq Nat /\ I \subseteq DOMAIN list /\ 0 \notin I
  OBVIOUS
<1>3. I # {} <=> Some(list, id)
  BY DEF Some
<1>4. ASSUME I # {} PROVE Min(I) \in I
  <2>1. \E n \in I : \A m \in I : n <= m
    BY <1>2, <1>4, Least
  <2> QED
    BY <2>1 DEF Min
<1> QED
  BY <1>1, <1>2, <1>3, <1>4

LEMMA AddNode ==
  ASSUME NEW list \in Seq(Entry), NEW e \in Entry
  PROVE  LET r == add_list_node(list, e) IN
         /\ r \in Seq(Entry)
         /\ LocksIn(r) = LocksIn(list) \cup {e.lock}
         /\ Distinct(list) /\ e.lock \notin LocksIn(list) => Distinct(r)
         /\ \A id : Some(r, id) <=> id = e.hint_id \/ Some(list, id)
         /\ \A id : ~Some(list, id) => AtMostOne(r, id)
         /\ \A id : id # e.hint_id /\ AtMostOne(list, id) => AtMostOne(r, id)
<1> DEFINE r == add_list_node(list, e)
<1>1. /\ r \in Seq(Entry) /\ Len(list) \in Nat
      /\ DOMAIN list = 1..Len(list) /\ DOMAIN r = 1..(Len(list) + 1)
      /\ r[1] = e /\ \A k \in 1..Len(list) : r[k + 1] = list[k]
  BY DEF add_list_node
<1> HIDE DEF r
<1>2. \A k \in DOMAIN r : \/ k = 1 /\ r[k] = e
                          \/ k - 1 \in DOMAIN list /\ r[k] = list[k - 1]
  <2> SUFFICES ASSUME NEW k \in DOMAIN r, k # 1
               PROVE  k - 1 \in DOMAIN list /\ r[k] = list[k - 1]
    BY <1>1
  <2>1. k - 1 \in 1..Len(list) /\ (k - 1) + 1 = k
    BY <1>1
  <2> QED
    BY <1>1, <2>1
<1>3. \A k \in DOMAIN list : k + 1 \in DOMAIN r /\ r[k + 1] = list[k]
  BY <1>1
<1>4. 1 \in DOMAIN r /\ r[1] = e
  BY <1>1
<1>5. LocksIn(r) = LocksIn(list) \cup {e.lock}
  <2>1. ASSUME NEW l \in LocksIn(r) PROVE l \in LocksIn(list) \cup {e.lock}
    BY <1>2, <2>1 DEF LocksIn
  <2>2. ASSUME NEW l \in LocksIn(list) \cup {e.lock} PROVE l \in LocksIn(r)
    BY <1>3, <1>4, <2>2 DEF LocksIn
  <2> QED
    BY <2>1, <2>2
<1>6. ASSUME Distinct(list), e.lock \notin LocksIn(list) PROVE Distinct(r)
  <2> SUFFICES ASSUME NEW i \in DOMAIN r, NEW j \in DOMAIN r, r[i].lock = r[j].lock
               PROVE  i = j
    BY DEF Distinct
  <2>1. \A k \in DOMAIN list : list[k].lock # e.lock
    BY <1>6 DEF LocksIn
  <2>2. CASE i = 1 /\ j = 1
    BY <2>2
  <2>3. CASE i = 1 /\ j # 1
    BY <1>2, <1>4, <2>1, <2>3
  <2>4. CASE i # 1 /\ j = 1
    BY <1>2, <1>4, <2>1, <2>4
  <2>5. CASE i # 1 /\ j # 1
    <3>1. i - 1 = j - 1
      BY <1>2, <1>6, <2>5 DEF Distinct
    <3> QED
      BY <1>1, <3>1
  <2> QED
    BY <2>2, <2>3, <2>4, <2>5
<1>7. ASSUME NEW id PROVE Some(r, id) <=> id = e.hint_id \/ Some(list, id)
  <2>1. Some(r, id) => id = e.hint_id \/ Some(list, id)
    BY <1>2 DEF Some
  <2>2. id = e.hint_id \/ Some(list, id) => Some(r, id)
    BY <1>3, <1>4 DEF Some
  <2> QED
    BY <2>1, <2>2
<1>8. ASSUME NEW id, ~Some(list, id) PROVE AtMostOne(r, id)
  <2>1. \A k \in DOMAIN r : r[k].hint_id = id => k = 1
    BY <1>2, <1>8 DEF Some
  <2> QED
    BY <2>1 DEF AtMostOne
<1>9. ASSUME NEW id, id # e.hint_id, AtMostOne(list, id) PROVE AtMostOne(r, id)
  <2> SUFFICES ASSUME NEW i \in DOMAIN r, NEW j \in DOMAIN r,
                      r[i].hint_id = id, r[j].hint_id = id
               PROVE  i = j
    BY DEF AtMostOne
  <2>1. i # 1 /\ j # 1
    BY <1>4, <1>9
  <2>2. i - 1 = j - 1
    BY <1>2, <1>9, <2>1 DEF AtMostOne
  <2> QED
    BY <1>1, <2>2
<1> QED
  BY <1>1, <1>5, <1>6, <1>7, <1>8, <1>9 DEF r

LEMMA RemoveNode ==
  ASSUME NEW list \in Seq(Entry), NEW i \in DOMAIN list
  PROVE  LET r == remove_list_node(list, i) IN
         /\ r \in Seq(Entry)
         /\ Distinct(list) => /\ Distinct(r)
                              /\ LocksIn(r) = LocksIn(list) \ {list[i].lock}
         /\ \A id : id # list[i].hint_id => (Some(r, id) <=> Some(list, id))
         /\ \A id : AtMostOne(list, id) => AtMostOne(r, id)
         /\ AtMostOne(list, list[i].hint_id) => ~Some(r, list[i].hint_id)
<1> DEFINE r == remove_list_node(list, i)
           n == Len(list)
<1>1. /\ n \in Nat /\ DOMAIN list = 1..n /\ i \in 1..n
      /\ \A k \in 1..n : list[k] \in Entry
  OBVIOUS
<1>2. /\ r \in Seq(Entry) /\ DOMAIN r = 1..(n - 1)
      /\ \A k \in 1..(n - 1) : r[k] = IF k < i THEN list[k] ELSE list[k + 1]
  <2> DEFINE front == SubSeq(list, 1, i - 1)
             back == SubSeq(list, i + 1, n)
  <2>1. /\ front \in Seq(Entry) /\ Len(front) = i - 1
        /\ \A k \in 1..(i - 1) : front[k] = list[k]
    BY <1>1, SubSeqProperties
  <2>2. /\ back \in Seq(Entry) /\ Len(back) = n - i
        /\ \A k \in 1..(n - i) : back[k] = list[i + k]
    BY <1>1, SubSeqProperties
  <2>3. r = front \o back
    BY DEF remove_list_node, RemoveAt
  <2> HIDE DEF front, back, r, n
  <2>4. /\ r \in Seq(Entry) /\ Len(r) = Len(front) + Len(back)
        /\ \A k \in 1..(Len(front) + Len(back)) :
             r[k] = IF k <= Len(front) THEN front[k] ELSE back[k - Len(front)]
    <3>1. front \in Seq(Entry) /\ back \in Seq(Entry)
      BY <2>1, <2>2
    <3>2. /\ front \o back \in Seq(Entry)
          /\ Len(front \o back) = Len(front) + Len(back)
          /\ \A k \in 1..(Len(front) + Len(back)) :
               (front \o back)[k] = IF k <= Len(front) THEN front[k]
                                    ELSE back[k - Len(front)]
      BY ONLY <3>1, ConcatProperties, Zenon
    <3> QED
      BY <2>3, <3>2, Zenon
  <2>5. r \in Seq(Entry) /\ Len(r) = n - 1 /\ DOMAIN r = 1..(n - 1)
    BY <1>1, <2>1, <2>2, <2>4
  <2>6. ASSUME NEW k \in 1..(n - 1)
        PROVE  r[k] = IF k < i THEN list[k] ELSE list[k + 1]
    <3>1. CASE k < i
      BY <1>1, <2>1, <2>4, <2>5, <3>1
    <3>2. CASE ~(k < i)
      <4>1. k - (i - 1) \in 1..(n - i) /\ i + (k - (i - 1)) = k + 1
        BY <1>1, <3>2
      <4>2. k \in 1..(Len(front) + Len(back)) /\ ~(k <= Len(front))
        BY <1>1, <2>1, <2>2, <3>2
      <4>3. r[k] = back[k - (i - 1)]
        BY <2>1, <2>4, <4>2
      <4> QED
        BY <2>2, <3>2, <4>1, <4>3
    <3> QED
      BY <3>1, <3>2
  <2> QED
    BY <2>5, <2>6
<1> HIDE DEF r, n
<1> DEFINE at(k) == IF k < i THEN k ELSE k + 1
<1>3. \A k \in DOMAIN r : at(k) \in DOMAIN list /\ at(k) # i /\ r[k] = list[at(k)]
  BY <1>1, <1>2
<1>4. \A k, l \in DOMAIN r : at(k) = at(l) => k = l
  BY <1>1, <1>2
<1>5. \A k \in DOMAIN list : k # i => \E l \in DOMAIN r : at(l) = k
  <2> SUFFICES ASSUME NEW k \in DOMAIN list, k # i
               PROVE  \E l \in DOMAIN r : at(l) = k
    OBVIOUS
  <2>1. CASE k < i
    BY <1>1, <1>2, <2>1
  <2>2. CASE k > i
    <3>1. k - 1 \in DOMAIN r /\ at(k - 1) = k
      BY <1>1, <1>2, <2>2
    <3> QED
      BY <3>1
  <2> QED
    BY <1>1, <2>1, <2>2
<1> HIDE DEF at
<1>6. ASSUME Distinct(list)
      PROVE  Distinct(r) /\ LocksIn(r) = LocksIn(list) \ {list[i].lock}
  <2>1. Distinct(r)
    BY <1>3, <1>4, <1>6 DEF Distinct
  <2>2. ASSUME NEW l \in LocksIn(r) PROVE l \in LocksIn(list) \ {list[i].lock}
    BY <1>3, <1>6, <2>2 DEF LocksIn, Distinct
  <2>3. ASSUME NEW l \in LocksIn(list) \ {list[i].lock} PROVE l \in LocksIn(r)
    <3>1. PICK k \in DOMAIN list : k # i /\ l = list[k].lock
      BY <2>3 DEF LocksIn
    <3>2. PICK m \in DOMAIN r : at(m) = k
      BY <1>5, <3>1
    <3> QED
      BY <1>3, <3>1, <3>2 DEF LocksIn
  <2> QED
    BY <2>1, <2>2, <2>3
<1>7. ASSUME NEW id, id # list[i].hint_id PROVE Some(r, id) <=> Some(list, id)
  <2>1. Some(r, id) => Some(list, id)
    BY <1>3 DEF Some
  <2>2. ASSUME Some(list, id) PROVE Some(r, id)
    <3>1. PICK k \in DOMAIN list : k # i /\ list[k].hint_id = id
      BY <1>7, <2>2 DEF Some
    <3>2. PICK m \in DOMAIN r : at(m) = k
      BY <1>5, <3>1
    <3> QED
      BY <1>3, <3>1, <3>2 DEF Some
  <2> QED
    BY <2>1, <2>2
<1>8. ASSUME NEW id, AtMostOne(list, id) PROVE AtMostOne(r, id)
  BY <1>3, <1>4, <1>8 DEF AtMostOne
<1>9. ASSUME AtMostOne(list, list[i].hint_id) PROVE ~Some(r, list[i].hint_id)
  BY <1>3, <1>9 DEF AtMostOne, Some
<1> QED
  BY <1>2, <1>6, <1>7, <1>8, <1>9 DEF r
-----------------------------------------------------------------------------
(* The inductive invariant, of a state s of the HAL.                       *)

HalType ==
  [held : SUBSET Locks, h : [Handles -> Locks \cup {None}],
   count : [Counted -> Nat], list : Seq(Entry), display_hint_sent : BOOLEAN,
   profile : {"balanced"} \cup FiveProfiles, mode : SUBSET Modes,
   encode_sent : BOOLEAN, launch_mode : BOOLEAN, recent : BOOLEAN,
   first_off : BOOLEAN, node_open : BOOLEAN, node : {"unwritten", "0", "1"}]

\* What the lock of a handle is for.
KindsOf(v) ==
  CASE v \in Counted -> {KindOf(v)}
    [] v = "mode" -> {"sustained", "vr", "vr_sustained"}
    [] v = "encode" -> {"encode"}
    [] v = "interaction" -> {"scroll"}
    [] v = "launch" -> {"launch"}
    [] v = "lock_handle" -> {"touch"}

Typed(s) ==
  /\ s \in HalType
  /\ IsFiniteSet(s.held)
  /\ \A v \in Handles : s.h[v] # None => s.h[v][1] \in KindsOf(v)

\* The handles that the HAL releases later whatever else happens.
Firm == Counted \cup {"mode"}

\* A lock has one owner: a variable, or an entry of the list.
Owners(s) ==
  /\ Distinct(s.list)
  /\ \A v \in Handles : s.h[v] \notin LocksIn(s.list)
  /\ \A v, w \in Handles : s.h[v] = s.h[w] => v = w \/ s.h[v] = None

Live(s) ==
  /\ LocksIn(s.list) \subseteq s.held
  /\ \A v \in Firm : s.h[v] # None => s.h[v] \in s.held

\* The kinds whose locks are never forgotten.
KeptKinds ==
  IF "rel" \notin lib THEN {}
  ELSE Kinds \ (SentKinds \cup {"touch", "initial"} \cup
                IF soc \in {"845", "8998"} THEN {"encode"} ELSE {})

Kept(s) ==
  \A lock \in s.held :
    lock[1] \in KeptKinds =>
      lock \in LocksIn(s.list) \/ \E v \in Handles : lock = s.h[v]

LockInv(s) == Typed(s) /\ Owners(s) /\ Live(s) /\ Kept(s)

FlagInv(s) ==
  /\ \A hint \in Counted : s.count[hint] > 0 <=> s.h[hint] # None
  /\ s.launch_mode <=> s.h["launch"] # None
  /\ s.h["mode"] # None => /\ s.mode # NORMAL_MODE
                           /\ s.h["mode"][1] = get_perfd_hint_id(s.mode)

ProfileInv(s) ==
  foreign /\ {"acq", "rel"} \subseteq lib =>
    /\ AtMostOne(s.list, "profile")
    /\ Some(s.list, "profile") <=> s.profile # "balanced"

\* The platforms that have the display's lock.
WithDisplayHint == {"8974", "8084", "8226", "8610", "8909", "8916", "8937",
                    "8952", "8953", "8960", "8992", "8994", "660"}

DisplayLocks(s) == {lock \in s.held : lock[1] = "display"}

\* Of the display's locks one is held for the display being off, and at most
\* n that were left behind.
DisplayWith(s, n) ==
  /\ n \in Nat
  /\ foreign /\ "rel" \in lib =>
       /\ Cardinality(DisplayLocks(s)) <= n + IF s.display_hint_sent THEN 1 ELSE 0
       /\ soc \notin WithDisplayHint => DisplayLocks(s) = {}

DisplayInv(s) == DisplayWith(s, missed)

Inv(s) == LockInv(s) /\ FlagInv(s) /\ ProfileInv(s) /\ DisplayInv(s)

IInv ==
  /\ governor \in Governors
  /\ missed \in 0..MaxMissed
  /\ \A lock \in hal.held : lock[2] <= MaxLocks
  /\ \A hint \in Counted : hal.count[hint] <= MaxRef
  /\ Inv(hal)
-----------------------------------------------------------------------------
(* What the library gives is not known to the HAL yet.                     *)

LEMMA NoneIsNoLock == None \notin Locks /\ None = <<"none", 0>>
  BY DEF None, Locks

LEMMA HandlesFinite == IsFiniteSet(Handles)
<1>1. \A S, x : IsFiniteSet(S) => IsFiniteSet(S \cup {x})
  BY FS_AddElement, Zenon
<1>2. Handles = (((((({} \cup {"SUSTAINED_PERFORMANCE"}) \cup {"VIDEO_ENCODE"})
                   \cup {"mode"}) \cup {"encode"}) \cup {"interaction"})
                   \cup {"launch"}) \cup {"lock_handle"}
  BY DEF Handles, Counted
<1>3. IsFiniteSet({})
  BY FS_EmptySet, Zenon
<1>4. IsFiniteSet((({} \cup {"SUSTAINED_PERFORMANCE"}) \cup {"VIDEO_ENCODE"})
                  \cup {"mode"})
  BY <1>1, <1>3, Zenon
<1>5. IsFiniteSet(((((({} \cup {"SUSTAINED_PERFORMANCE"}) \cup {"VIDEO_ENCODE"})
                  \cup {"mode"}) \cup {"encode"}) \cup {"interaction"}) \cup {"launch"})
  BY <1>1, <1>4, Zenon
<1> QED
  BY <1>1, <1>2, <1>5, Zenon

LEMMA ImageFinite ==
  ASSUME NEW S, IsFiniteSet(S), NEW T, NEW f \in [S -> T]
  PROVE  IsFiniteSet({f[x] : x \in S})
<1>1. f \in [S -> {f[x] : x \in S}]
  OBVIOUS
<1>2. f \in Surjection(S, {f[x] : x \in S})
  BY <1>1 DEF Surjection
<1> QED
  BY <1>2, FS_Surjection

LEMMA KnownFinite ==
  ASSUME NEW s, s \in HalType, IsFiniteSet(s.held)
  PROVE  IsFiniteSet(Known(s))
<1>1. s.h \in [Handles -> Locks \cup {None}] /\ s.list \in Seq(Entry)
  BY DEF HalType
<1>2. IsFiniteSet({s.h[v] : v \in Handles})
  BY <1>1, HandlesFinite, ImageFinite
<1>3. IsFiniteSet(LocksIn(s.list))
  <2> DEFINE f == [i \in 1..Len(s.list) |-> s.list[i].lock]
  <2>1. Len(s.list) \in Nat /\ DOMAIN s.list = 1..Len(s.list)
    BY <1>1
  <2>2. IsFiniteSet(1..Len(s.list))
    BY <2>1, FS_Interval
  <2>3. f \in [1..Len(s.list) -> LocksIn(s.list)]
    BY <2>1 DEF LocksIn
  <2>4. IsFiniteSet({f[i] : i \in 1..Len(s.list)})
    <3> HIDE DEF f
    <3> QED
      BY <2>2, <2>3, ImageFinite
  <2>5. {f[i] : i \in 1..Len(s.list)} = LocksIn(s.list)
    BY <2>1 DEF LocksIn
  <2> QED
    BY <2>4, <2>5
<1>4. Known(s) = (s.held \cup {s.h[v] : v \in Handles}) \cup LocksIn(s.list)
  BY <1>1 DEF Known, LocksIn
<1> QED
  BY <1>2, <1>3, <1>4, FS_Union

LEMMA FreshNumber ==
  ASSUME NEW S, IsFiniteSet(S), NEW kind
  PROVE  \E n \in 1..(Cardinality(S) + 1) : <<kind, n>> \notin S
<1> DEFINE N == 1..(Cardinality(S) + 1)
           f == [n \in N |-> <<kind, n>>]
<1>1. Cardinality(S) \in Nat
  BY FS_CardinalityType
<1>2. IsFiniteSet(N) /\ Cardinality(N) = Cardinality(S) + 1
  BY <1>1, FS_Interval
<1>3. SUFFICES ASSUME \A n \in N : <<kind, n>> \in S PROVE FALSE
  OBVIOUS
<1>4. f \in [N -> S]
  BY <1>3
<1>5. Cardinality(S) < Cardinality(N)
  BY <1>1, <1>2
<1>6. \E x, y \in N : x # y /\ f[x] = f[y]
  <2> HIDE DEF N, f
  <2> QED
    BY <1>2, <1>4, <1>5, FS_PigeonHole
<1> QED
  BY <1>6

LEMMA Fresh ==
  ASSUME NEW s, s \in HalType, IsFiniteSet(s.held), NEW kind \in Kinds
  PROVE  /\ NewLock(s, kind) \in Locks
         /\ NewLock(s, kind)[1] = kind
         /\ NewLock(s, kind) # None
         /\ NewLock(s, kind) \notin s.held
         /\ \A v \in Handles : NewLock(s, kind) # s.h[v]
         /\ NewLock(s, kind) \notin LocksIn(s.list)
<1>1. IsFiniteSet(Known(s))
  BY KnownFinite
<1>2. \E n \in 1..(Cardinality(Known(s)) + 1) : <<kind, n>> \notin Known(s)
  BY <1>1, FreshNumber
<1>3. Cardinality(Known(s)) \in Nat
  BY <1>1, FS_CardinalityType
<1>4. PICK n \in 1..(Cardinality(Known(s)) + 1) :
        NewLock(s, kind) = <<kind, n>> /\ <<kind, n>> \notin Known(s)
  BY <1>2 DEF NewLock
<1>5. n \in Nat \ {0}
  BY <1>3
<1>6. s.h \in [Handles -> Locks \cup {None}]
  BY DEF HalType
<1>7. <<kind, n>> \in Locks /\ <<kind, n>>[1] = kind
  BY <1>5 DEF Locks
<1>8. <<kind, n>> \notin s.held /\ <<kind, n>> \notin LocksIn(s.list)
  BY <1>4 DEF Known, LocksIn
<1>9. \A v \in Handles : <<kind, n>> # s.h[v]
  BY <1>4, <1>6 DEF Known
<1> QED
  BY <1>4, <1>7, <1>8, <1>9, NoneIsNoLock
-----------------------------------------------------------------------------
(* The locks: releasing and acquiring.                                     *)

\* What no acquisition or release changes.
Same(s, r) ==
  /\ r.count = s.count /\ r.display_hint_sent = s.display_hint_sent
  /\ r.profile = s.profile /\ r.mode = s.mode
  /\ r.encode_sent = s.encode_sent /\ r.launch_mode = s.launch_mode

LEMMA HalFields ==
  ASSUME NEW s, s \in HalType
  PROVE  /\ s.held \subseteq Locks
         /\ s.h \in [Handles -> Locks \cup {None}]
         /\ s.count \in [Counted -> Nat]
         /\ s.list \in Seq(Entry)
         /\ s.mode \subseteq Modes
         /\ s.profile \in {"balanced"} \cup FiveProfiles
  BY DEF HalType

LEMMA SetHeld ==
  ASSUME NEW s, s \in HalType, NEW X, X \subseteq Locks
  PROVE  LET r == [s EXCEPT !.held = X] IN
         /\ r \in HalType /\ Same(s, r)
         /\ r.held = X /\ r.h = s.h /\ r.list = s.list
  BY DEF HalType, Same

LEMMA SetHandle ==
  ASSUME NEW s, s \in HalType, NEW v \in Handles, NEW l \in Locks \cup {None}
  PROVE  LET r == [s EXCEPT !.h[v] = l] IN
         /\ r \in HalType /\ Same(s, r)
         /\ r.held = s.held /\ r.h = [s.h EXCEPT ![v] = l] /\ r.list = s.list
<1> DEFINE r == [s EXCEPT !.h[v] = l]
<1>1. r = [s EXCEPT !.h = [s.h EXCEPT ![v] = l]]
  BY DEF HalType
<1>2. [s.h EXCEPT ![v] = l] \in [Handles -> Locks \cup {None}]
  BY HalFields
<1> HIDE DEF r
<1> QED
  BY <1>1, <1>2 DEF HalType, Same, r

\* Fewer locks are held, and none that the HAL counts on is missing.
LEMMA Fewer ==
  ASSUME NEW s, LockInv(s), NEW r, r \in HalType, r.h = s.h, r.list = s.list,
         r.held \subseteq s.held, LocksIn(s.list) \subseteq r.held,
         \A v \in Firm : s.h[v] # None => s.h[v] \in r.held
  PROVE  LockInv(r)
<1>1. IsFiniteSet(r.held)
  BY FS_Subset DEF LockInv, Typed
<1>2. Typed(r)
  BY <1>1 DEF LockInv, Typed
<1>3. Owners(r) /\ Live(r)
  BY DEF LockInv, Owners, Live
<1>4. Kept(r)
  BY DEF LockInv, Kept
<1> QED
  BY <1>2, <1>3, <1>4 DEF LockInv

LEMMA Release ==
  ASSUME NEW s, LockInv(s), NEW lock, lock \notin LocksIn(s.list),
         \A v \in Firm : s.h[v] = lock => lock = None
  PROVE  LET r == release_request(s, lock) IN
         /\ LockInv(r) /\ Same(s, r)
         /\ r.h = s.h /\ r.list = s.list /\ r.held \subseteq s.held
         /\ "rel" \in lib => r.held = s.held \ {lock}
<1>1. CASE "rel" \notin lib
  <2>1. release_request(s, lock) = s
    BY <1>1 DEF release_request
  <2> QED
    BY <1>1, <2>1 DEF Same
<1>2. CASE "rel" \in lib
  <2> DEFINE r == release_request(s, lock)
  <2>1. r = [s EXCEPT !.held = s.held \ {lock}]
    BY <1>2 DEF release_request
  <2>2. s \in HalType /\ s.held \ {lock} \subseteq Locks
    BY HalFields DEF LockInv, Typed
  <2>3. /\ r \in HalType /\ Same(s, r)
        /\ r.held = s.held \ {lock} /\ r.h = s.h /\ r.list = s.list
    BY <2>1, <2>2, SetHeld
  <2> HIDE DEF r
  <2>4. LocksIn(s.list) \subseteq r.held
    BY <2>3 DEF LockInv, Live
  <2>5. \A v \in Firm : s.h[v] # None => s.h[v] \in r.held
    BY <2>3 DEF LockInv, Live
  <2>6. LockInv(r)
    BY <2>3, <2>4, <2>5, Fewer
  <2> QED
    BY <2>3, <2>6 DEF r
<1> QED
  BY <1>1, <1>2

LEMMA KindFacts ==
  /\ \A v \in Handles : KindsOf(v) \subseteq Kinds
  /\ Firm \subseteq Handles
  /\ HintIds \subseteq Kinds
  /\ KeptKinds \subseteq Kinds
<1>1. \A v \in Handles : KindsOf(v) \subseteq Kinds
  <2> SUFFICES ASSUME NEW v \in Handles PROVE KindsOf(v) \subseteq Kinds
    OBVIOUS
  <2>1. CASE v \in Counted
    BY <2>1 DEF KindsOf, KindOf, Kinds, HintIds, Counted
  <2>2. CASE v \in {"mode", "encode", "interaction", "launch", "lock_handle"}
    BY <2>2 DEF KindsOf, Kinds, HintIds, TimedKinds, Counted
  <2> QED
    BY <2>1, <2>2 DEF Handles
<1> QED
  BY <1>1 DEF Firm, Handles, HintIds, Kinds, Numerals, KeptKinds

\* A handle may be overwritten: its lock is not held, or may be forgotten.
Free(s, v) == s.h[v] \in s.held => s.h[v][1] \notin KeptKinds

\* A variable gets the handle of a lock that no other owner has.
LEMMA Gain ==
  ASSUME NEW s, LockInv(s), NEW v \in Handles, NEW l \in Locks,
         l[1] \in KindsOf(v), l \notin LocksIn(s.list),
         \A w \in Handles : w # v => s.h[w] # l,
         Free(s, v) \/ s.h[v] = l,
         NEW r, r \in HalType, r.list = s.list,
         r.held = s.held \cup {l}, r.h = [s.h EXCEPT ![v] = l]
  PROVE  LockInv(r)
<1>1. /\ s \in HalType /\ s.h \in [Handles -> Locks \cup {None}]
      /\ l # None
  BY HalFields, NoneIsNoLock DEF LockInv, Typed
<1>2. /\ r.h[v] = l
      /\ \A w \in Handles : w # v => r.h[w] = s.h[w]
  BY <1>1
<1>3. IsFiniteSet(r.held)
  BY FS_AddElement DEF LockInv, Typed
<1>4. Typed(r)
  BY <1>2, <1>3 DEF LockInv, Typed
<1>5. Owners(r)
  BY <1>1, <1>2 DEF LockInv, Owners
<1>6. Live(r)
  BY <1>2, KindFacts DEF LockInv, Live
<1>7. Kept(r)
  <2> SUFFICES ASSUME NEW lock \in r.held, lock[1] \in KeptKinds
               PROVE  lock \in LocksIn(r.list) \/ \E w \in Handles : lock = r.h[w]
    BY DEF Kept
  <2>1. CASE lock = l
    BY <1>2, <2>1
  <2>2. CASE lock # l /\ lock \in LocksIn(s.list)
    BY <2>2
  <2>3. CASE lock # l /\ lock \notin LocksIn(s.list)
    <3>1. PICK w \in Handles : lock = s.h[w]
      BY <2>3 DEF LockInv, Kept
    <3>2. w # v
      BY <2>3, <3>1 DEF Free
    <3> QED
      BY <1>2, <3>1, <3>2
  <2> QED
    BY <2>1, <2>2, <2>3
<1> QED
  BY <1>4, <1>5, <1>6, <1>7 DEF LockInv

\* A variable's handle is cleared.
LEMMA Lose ==
  ASSUME NEW s, LockInv(s), NEW v \in Handles, Free(s, v),
         NEW r, r \in HalType, r.list = s.list,
         r.held = s.held, r.h = [s.h EXCEPT ![v] = None]
  PROVE  LockInv(r)
<1>1. s \in HalType /\ s.h \in [Handles -> Locks \cup {None}]
  BY HalFields DEF LockInv, Typed
<1>2. /\ r.h[v] = None
      /\ \A w \in Handles : w # v => r.h[w] = s.h[w]
  BY <1>1
<1>3. None \notin LocksIn(s.list)
  BY <1>1, HalFields, NoneIsNoLock DEF LockInv, Live
<1>4. Typed(r)
  BY <1>2 DEF LockInv, Typed
<1>5. Owners(r)
  BY <1>2, <1>3 DEF LockInv, Owners
<1>6. Live(r)
  BY <1>2, KindFacts DEF LockInv, Live
<1>7. Kept(r)
  <2> SUFFICES ASSUME NEW lock \in s.held, lock[1] \in KeptKinds,
                      lock \notin LocksIn(s.list)
               PROVE  \E w \in Handles : lock = r.h[w]
    BY DEF Kept
  <2>1. PICK w \in Handles : lock = s.h[w]
    BY DEF LockInv, Kept
  <2>2. w # v
    BY <2>1 DEF Free
  <2> QED
    BY <1>2, <2>1, <2>2
<1> QED
  BY <1>4, <1>5, <1>6, <1>7 DEF LockInv

\* What perf_hint_enable() and interaction_with_handle() do to a state.
Acquired(s, r, v, kind) ==
  /\ LockInv(r) /\ Same(s, r) /\ r.list = s.list
  /\ \A w \in Handles : w # v => r.h[w] = s.h[w]
  /\ r.h[v] # None => r.h[v][1] = kind \/ r.h[v] = s.h[v]
  /\ \A lock \in r.held : lock \in s.held \/ lock[1] = kind

LEMMA Enable ==
  ASSUME NEW s, LockInv(s), NEW v \in Handles, Free(s, v),
         NEW kind \in KindsOf(v), NEW out
  PROVE  LET r == perf_hint_enable(s, v, kind, out) IN
         Acquired(s, r, v, kind) /\ (r.h[v] # None => r.h[v][1] = kind)
<1> DEFINE r == perf_hint_enable(s, v, kind, out)
           l == NewLock(s, kind)
<1>1. /\ s \in HalType /\ IsFiniteSet(s.held) /\ kind \in Kinds
      /\ s.held \subseteq Locks /\ s.h \in [Handles -> Locks \cup {None}]
  BY HalFields, KindFacts DEF LockInv, Typed
<1>2. CASE "hint" \in lib /\ out = "granted"
  <2>1. /\ l \in Locks /\ l[1] = kind /\ l # None /\ l \notin s.held
        /\ \A w \in Handles : l # s.h[w]
        /\ l \notin LocksIn(s.list)
    BY <1>1, Fresh
  <2>2. r = [s EXCEPT !.h[v] = l, !.held = s.held \cup {l}]
    BY <1>2 DEF perf_hint_enable
  <2> HIDE DEF l, r
  <2>3. /\ r \in HalType /\ Same(s, r) /\ r.list = s.list
        /\ r.held = s.held \cup {l} /\ r.h = [s.h EXCEPT ![v] = l]
    <3>1. s.held \cup {l} \subseteq Locks
      BY <1>1, <2>1
    <3>2. s \in HalType /\ l \in Locks \cup {None}
      BY <1>1, <2>1
    <3>3. [s.h EXCEPT ![v] = l] \in [Handles -> Locks \cup {None}]
      BY <1>1, <3>2
    <3>4. r = [s EXCEPT !.h = [s.h EXCEPT ![v] = l], !.held = s.held \cup {l}]
      BY <2>2, <3>2 DEF HalType
    <3> QED
      BY <3>1, <3>2, <3>3, <3>4 DEF HalType, Same
  <2>4. LockInv(r)
    BY <2>1, <2>3, Gain
  <2>5. /\ r.h[v] = l /\ \A w \in Handles : w # v => r.h[w] = s.h[w]
    BY <1>1, <2>3
  <2> QED
    BY <2>1, <2>3, <2>4, <2>5 DEF Acquired, r
<1>3. CASE ~("hint" \in lib /\ out = "granted")
  <2>1. r = [s EXCEPT !.h[v] = None]
    BY <1>3 DEF perf_hint_enable
  <2>2. /\ r \in HalType /\ Same(s, r) /\ r.list = s.list
        /\ r.held = s.held /\ r.h = [s.h EXCEPT ![v] = None]
    BY <1>1, <2>1, SetHandle
  <2> HIDE DEF r
  <2>3. LockInv(r)
    BY <2>2, Lose
  <2>4. /\ r.h[v] = None /\ \A w \in Handles : w # v => r.h[w] = s.h[w]
    BY <1>1, <2>2
  <2> QED
    BY <2>2, <2>3, <2>4 DEF Acquired, r
<1> QED
  BY <1>2, <1>3

LEMMA Extend ==
  ASSUME NEW s, LockInv(s), NEW v \in Handles, Free(s, v),
         NEW kind \in KindsOf(v), NEW out
  PROVE  Acquired(s, interaction_with_handle(s, v, kind, out), v, kind)
<1> DEFINE r == interaction_with_handle(s, v, kind, out)
           l == IF s.h[v] \in s.held THEN s.h[v] ELSE NewLock(s, kind)
<1>1. /\ s \in HalType /\ IsFiniteSet(s.held) /\ kind \in Kinds
      /\ s.held \subseteq Locks /\ s.h \in [Handles -> Locks \cup {None}]
  BY HalFields, KindFacts DEF LockInv, Typed
<1>2. CASE "acq" \in lib /\ out = "granted"
  <2>1. /\ l \in Locks /\ l[1] \in KindsOf(v) /\ (l[1] = kind \/ l = s.h[v])
        /\ \A w \in Handles : w # v => s.h[w] # l
        /\ l \notin LocksIn(s.list)
        /\ Free(s, v) \/ s.h[v] = l
        /\ l = s.h[v] \/ l[1] = kind
    <3>1. CASE s.h[v] \in s.held
      BY <1>1, <3>1, NoneIsNoLock DEF LockInv, Typed, Owners
    <3>2. CASE s.h[v] \notin s.held
      BY <1>1, <3>2, Fresh
    <3> QED
      BY <3>1, <3>2
  <2>2. r = [s EXCEPT !.h[v] = l, !.held = s.held \cup {l}]
    BY <1>2 DEF interaction_with_handle
  <2>3. s.h[v] = l => l \in s.held \/ l[1] = kind
    BY <1>1, Fresh
  <2> HIDE DEF l, r
  <2>4. /\ r \in HalType /\ Same(s, r) /\ r.list = s.list
        /\ r.held = s.held \cup {l} /\ r.h = [s.h EXCEPT ![v] = l]
    <3>1. s.held \cup {l} \subseteq Locks /\ l \in Locks \cup {None}
      BY <1>1, <2>1
    <3>2. [s.h EXCEPT ![v] = l] \in [Handles -> Locks \cup {None}]
      BY <1>1, <3>1
    <3>3. r = [s EXCEPT !.h = [s.h EXCEPT ![v] = l], !.held = s.held \cup {l}]
      BY <1>1, <2>2 DEF HalType
    <3> QED
      BY <1>1, <3>1, <3>2, <3>3 DEF HalType, Same
  <2>5. LockInv(r)
    BY <2>1, <2>4, Gain
  <2>6. /\ r.h[v] = l /\ \A w \in Handles : w # v => r.h[w] = s.h[w]
    BY <1>1, <2>4
  <2>7. \A lock \in r.held : lock \in s.held \/ lock[1] = kind
    BY <2>1, <2>3, <2>4
  <2> QED
    BY <2>1, <2>4, <2>5, <2>6, <2>7 DEF Acquired, r
<1>3. CASE "acq" \in lib /\ out # "granted"
  <2>1. r = [s EXCEPT !.h[v] = None]
    BY <1>3 DEF interaction_with_handle
  <2>2. /\ r \in HalType /\ Same(s, r) /\ r.list = s.list
        /\ r.held = s.held /\ r.h = [s.h EXCEPT ![v] = None]
    BY <1>1, <2>1, SetHandle
  <2> HIDE DEF r
  <2>3. LockInv(r)
    BY <2>2, Lose
  <2>4. /\ r.h[v] = None /\ \A w \in Handles : w # v => r.h[w] = s.h[w]
    BY <1>1, <2>2
  <2> QED
    BY <2>2, <2>3, <2>4 DEF Acquired, r
<1>4. CASE "acq" \notin lib
  <2>1. r = s
    BY <1>4 DEF interaction_with_handle
  <2> QED
    BY <2>1 DEF Acquired, Same
<1> QED
  BY <1>2, <1>3, <1>4

\* A variable's lock is released, as far as the library can, and forgotten.
LEMMA Drop ==
  ASSUME NEW s, LockInv(s), NEW v \in Handles,
         NEW r, r \in HalType, r.list = s.list,
         r.held = release_request(s, s.h[v]).held,
         r.h = [s.h EXCEPT ![v] = None]
  PROVE  /\ LockInv(r) /\ r.held \subseteq s.held
         /\ r.h[v] = None /\ \A w \in Handles : w # v => r.h[w] = s.h[w]
<1>1. s \in HalType /\ s.h \in [Handles -> Locks \cup {None}]
  BY HalFields DEF LockInv, Typed
<1>2. /\ r.h[v] = None
      /\ \A w \in Handles : w # v => r.h[w] = s.h[w]
  BY <1>1
<1>3. /\ r.held \subseteq s.held
      /\ s.held \ {s.h[v]} \subseteq r.held
      /\ "rel" \in lib => r.held = s.held \ {s.h[v]}
  <2>1. CASE "rel" \in lib
    BY <1>1, <2>1 DEF release_request, HalType
  <2>2. CASE "rel" \notin lib
    BY <2>2 DEF release_request
  <2> QED
    BY <2>1, <2>2
<1>4. None \notin LocksIn(s.list)
  BY <1>1, HalFields, NoneIsNoLock DEF LockInv, Live
<1>5. Typed(r)
  <2>1. IsFiniteSet(r.held)
    BY <1>3, FS_Subset DEF LockInv, Typed
  <2> QED
    BY <1>2, <2>1 DEF LockInv, Typed
<1>6. Owners(r)
  BY <1>2, <1>4 DEF LockInv, Owners
<1>7. Live(r)
  <2>1. LocksIn(r.list) \subseteq r.held
    BY <1>3 DEF LockInv, Live, Owners
  <2>2. ASSUME NEW w \in Firm, r.h[w] # None PROVE r.h[w] \in r.held
    BY <1>2, <1>3, <2>2, KindFacts DEF LockInv, Live, Owners
  <2> QED
    BY <2>1, <2>2 DEF Live
<1>8. Kept(r)
  <2> SUFFICES ASSUME NEW lock \in r.held, lock[1] \in KeptKinds,
                      lock \notin LocksIn(s.list)
               PROVE  \E w \in Handles : lock = r.h[w]
    BY DEF Kept
  <2>1. PICK w \in Handles : lock = s.h[w]
    BY <1>3 DEF LockInv, Kept
  <2>2. "rel" \in lib
    BY DEF KeptKinds
  <2>3. w # v
    BY <1>3, <2>1, <2>2
  <2> QED
    BY <1>2, <2>1, <2>3
<1> QED
  BY <1>2, <1>3, <1>5, <1>6, <1>7, <1>8 DEF LockInv

-----------------------------------------------------------------------------
(* The list: one hint's entries are added or removed, no other's.          *)

OnlyEntry(s, r, id) ==
  /\ LockInv(r) /\ Same(s, r) /\ r.h = s.h
  /\ \A other : other # id =>
       /\ Some(r.list, other) <=> Some(s.list, other)
       /\ AtMostOne(s.list, other) => AtMostOne(r.list, other)
  /\ \A lock \in r.held : lock \in s.held \/ lock[1] = id

LEMMA Perform ==
  ASSUME NEW s, LockInv(s), NEW id \in HintIds, NEW out \in Outcomes
  PROVE  LET r == perform_hint_action(s, id, out)
             added == "acq" \in lib /\ out = "granted" IN
         /\ OnlyEntry(s, r, id)
         /\ Some(r.list, id) <=> Some(s.list, id) \/ added
         /\ ~added => r.list = s.list
         /\ ~Some(s.list, id) => AtMostOne(r.list, id)
         /\ \E l : r.held \subseteq s.held \cup {l}
<1> DEFINE r == perform_hint_action(s, id, out)
           l == NewLock(s, id)
<1>1. /\ s \in HalType /\ IsFiniteSet(s.held) /\ id \in Kinds
      /\ s.held \subseteq Locks /\ s.h \in [Handles -> Locks \cup {None}]
      /\ s.list \in Seq(Entry)
  BY HalFields, KindFacts DEF LockInv, Typed
<1>2. /\ l \in Locks /\ l[1] = id /\ l # None /\ l \notin s.held
      /\ \A w \in Handles : s.h[w] # l
      /\ l \notin LocksIn(s.list)
  BY <1>1, Fresh
<1>3. ~Some(s.list, id) => AtMostOne(s.list, id)
  BY DEF Some, AtMostOne
<1>4. CASE "acq" \notin lib \/ out = "refused"
  <2>1. r = s
    BY <1>4 DEF perform_hint_action
  <2> QED
    BY <1>3, <1>4, <2>1 DEF OnlyEntry, Same
<1>5. CASE "acq" \in lib /\ out = "nomem"
  <2>1. r = release_request([s EXCEPT !.held = @ \cup {l}], l)
    BY <1>5 DEF perform_hint_action
  <2>2. s.held \cup {l} \subseteq Locks
    BY <1>1, <1>2
  <2>3. CASE "rel" \in lib
    <3>1. r = [s EXCEPT !.held = (s.held \cup {l}) \ {l}]
      BY <1>1, <2>1, <2>3 DEF release_request, HalType
    <3>2. (s.held \cup {l}) \ {l} = s.held
      BY <1>2
    <3>3. r = s
      BY <1>1, <3>1, <3>2 DEF HalType
    <3> QED
      BY <1>3, <1>5, <3>3 DEF OnlyEntry, Same
  <2>4. CASE "rel" \notin lib
    <3>1. r = [s EXCEPT !.held = s.held \cup {l}]
      BY <2>1, <2>4 DEF release_request
    <3> HIDE DEF r, l
    <3>2. /\ r \in HalType /\ Same(s, r)
          /\ r.held = s.held \cup {l} /\ r.h = s.h /\ r.list = s.list
      BY <1>1, <2>2, <3>1, SetHeld
    <3>3. IsFiniteSet(r.held)
      <4>1. IsFiniteSet(s.held \cup {l})
        BY <1>1, FS_AddElement, Zenon
      <4> QED
        BY <3>2, <4>1
    <3>4. Typed(r) /\ Owners(r) /\ Live(r)
      BY <3>2, <3>3 DEF LockInv, Typed, Owners, Live
    <3>5. Kept(r)
      BY <2>4 DEF Kept, KeptKinds
    <3> QED
      BY <1>2, <1>3, <1>5, <3>2, <3>4, <3>5 DEF OnlyEntry, LockInv, r
  <2> QED
    BY <2>3, <2>4
<1>6. CASE "acq" \in lib /\ out = "granted"
  <2> DEFINE e == [hint_id |-> id, lock |-> l]
             list == add_list_node(s.list, e)
  <2>1. r = [s EXCEPT !.held = s.held \cup {l}, !.list = list]
    BY <1>1, <1>6 DEF perform_hint_action, HalType
  <2>2. e \in Entry /\ e.hint_id = id /\ e.lock = l
    BY <1>2 DEF Entry
  <2> HIDE DEF l, e, r
  <2>3. /\ list \in Seq(Entry)
        /\ LocksIn(list) = LocksIn(s.list) \cup {e.lock}
        /\ Distinct(s.list) /\ e.lock \notin LocksIn(s.list) => Distinct(list)
        /\ \A other : Some(list, other) <=> other = e.hint_id \/ Some(s.list, other)
        /\ \A other : ~Some(s.list, other) => AtMostOne(list, other)
        /\ \A other : other # e.hint_id /\ AtMostOne(s.list, other)
                        => AtMostOne(list, other)
    BY <1>1, <2>2, AddNode, Zenon
  <2> HIDE DEF list
  <2>4. s.held \cup {l} \subseteq Locks
    BY <1>1, <1>2
  <2>5. /\ r \in HalType /\ Same(s, r)
        /\ r.held = s.held \cup {l} /\ r.h = s.h /\ r.list = list
    BY <1>1, <2>1, <2>3, <2>4 DEF HalType, Same
  <2>6. IsFiniteSet(r.held)
    <3>1. IsFiniteSet(s.held \cup {l})
      BY <1>1, FS_AddElement, Zenon
    <3> QED
      BY <2>5, <3>1
  <2>7. Typed(r)
    BY <2>5, <2>6 DEF LockInv, Typed
  <2>8. Owners(r)
    BY <1>2, <2>2, <2>3, <2>5 DEF LockInv, Owners
  <2>9. Live(r)
    BY <2>2, <2>3, <2>5 DEF LockInv, Live
  <2>10. Kept(r)
    BY <2>2, <2>3, <2>5 DEF LockInv, Kept
  <2>11. OnlyEntry(s, r, id)
    BY <1>2, <2>2, <2>3, <2>5, <2>7, <2>8, <2>9, <2>10 DEF OnlyEntry, LockInv
  <2> QED
    BY <1>6, <2>2, <2>3, <2>5, <2>11 DEF r
<1> QED
  BY <1>4, <1>5, <1>6 DEF Outcomes

LEMMA Undo ==
  ASSUME NEW s, LockInv(s), NEW id \in HintIds
  PROVE  LET r == undo_hint_action(s, id) IN
         /\ OnlyEntry(s, r, id)
         /\ AtMostOne(s.list, id) => AtMostOne(r.list, id)
         /\ "rel" \in lib /\ AtMostOne(s.list, id) => ~Some(r.list, id)
         /\ r.held \subseteq s.held
         /\ "rel" \in lib /\ Some(s.list, id) =>
              \E l \in s.held : l[1] = id /\ r.held = s.held \ {l}
<1> DEFINE r == undo_hint_action(s, id)
           i == find_node(s.list, id)
<1>1. /\ s \in HalType /\ IsFiniteSet(s.held) /\ s.held \subseteq Locks
      /\ s.h \in [Handles -> Locks \cup {None}] /\ s.list \in Seq(Entry)
  BY HalFields DEF LockInv, Typed
<1>2. /\ i = 0 <=> ~Some(s.list, id)
      /\ i # 0 => i \in DOMAIN s.list /\ s.list[i].hint_id = id
  BY <1>1, FindNode
<1>3. CASE "rel" \notin lib \/ i = 0
  <2>1. r = s
    BY <1>3 DEF undo_hint_action
  <2> QED
    BY <1>2, <1>3, <2>1 DEF OnlyEntry, Same
<1>4. CASE "rel" \in lib /\ i # 0
  <2> DEFINE l == s.list[i].lock
             list == remove_list_node(s.list, i)
  <2>1. r = [s EXCEPT !.held = s.held \ {l}, !.list = list]
    BY <1>1, <1>4 DEF undo_hint_action, release_request, HalType
  <2> HIDE DEF i, r
  <2>2. i \in DOMAIN s.list /\ s.list[i].hint_id = id
    BY <1>2, <1>4
  <2>3. /\ list \in Seq(Entry)
        /\ Distinct(s.list) => /\ Distinct(list)
                               /\ LocksIn(list) = LocksIn(s.list) \ {s.list[i].lock}
        /\ \A other : other # s.list[i].hint_id =>
                        (Some(list, other) <=> Some(s.list, other))
        /\ \A other : AtMostOne(s.list, other) => AtMostOne(list, other)
        /\ AtMostOne(s.list, s.list[i].hint_id) => ~Some(list, s.list[i].hint_id)
    BY <1>1, <2>2, RemoveNode, Zenon
  <2>4. l \in LocksIn(s.list)
    BY <2>2 DEF LocksIn
  <2>5. /\ Distinct(list)
        /\ LocksIn(list) = LocksIn(s.list) \ {l}
    BY <2>3 DEF LockInv, Owners
  <2> HIDE DEF list, l
  <2>6. /\ r \in HalType /\ Same(s, r)
        /\ r.held = s.held \ {l} /\ r.h = s.h /\ r.list = list
    BY <1>1, <2>1, <2>3 DEF HalType, Same
  <2>7. IsFiniteSet(r.held)
    <3>1. IsFiniteSet(s.held \ {l})
      BY <1>1, FS_RemoveElement, Zenon
    <3> QED
      BY <2>6, <3>1
  <2>8. Typed(r)
    BY <2>6, <2>7 DEF LockInv, Typed
  <2>9. Owners(r)
    BY <2>5, <2>6 DEF LockInv, Owners
  <2>10. Live(r)
    BY <2>4, <2>5, <2>6, KindFacts DEF LockInv, Live, Owners
  <2>11. Kept(r)
    BY <2>5, <2>6 DEF LockInv, Kept
  <2>12. OnlyEntry(s, r, id)
    BY <2>2, <2>3, <2>6, <2>8, <2>9, <2>10, <2>11 DEF OnlyEntry, LockInv
  <2>13. l \in s.held /\ l[1] = id
    <3>1. s.list[i] \in Entry
      BY <1>1, <2>2
    <3> QED
      BY <2>2, <2>4, <3>1 DEF LockInv, Live, Entry, l
  <2> QED
    BY <2>2, <2>3, <2>6, <2>12, <2>13 DEF r
<1> QED
  BY <1>3, <1>4

-----------------------------------------------------------------------------
(* How many locks the display has.                                         *)

LEMMA DisplayFinite ==
  ASSUME NEW s, IsFiniteSet(s.held)
  PROVE  IsFiniteSet(DisplayLocks(s)) /\ Cardinality(DisplayLocks(s)) \in Nat
<1>1. DisplayLocks(s) \subseteq s.held
  BY DEF DisplayLocks
<1> QED
  BY <1>1, FS_Subset, FS_CardinalityType

LEMMA DisplayKept ==
  ASSUME NEW s, LockInv(s), NEW n, DisplayWith(s, n),
         NEW r, r.display_hint_sent = s.display_hint_sent,
         \A lock \in r.held : lock \in s.held \/ lock[1] # "display"
  PROVE  DisplayWith(r, n)
<1>1. DisplayLocks(r) \subseteq DisplayLocks(s)
  BY DEF DisplayLocks
<1>2. IsFiniteSet(DisplayLocks(s)) /\ Cardinality(DisplayLocks(s)) \in Nat
  BY DisplayFinite DEF LockInv, Typed
<1>3. /\ Cardinality(DisplayLocks(r)) \in Nat
      /\ Cardinality(DisplayLocks(r)) <= Cardinality(DisplayLocks(s))
  BY <1>1, <1>2, FS_Subset, FS_CardinalityType
<1>4. DisplayLocks(s) = {} => DisplayLocks(r) = {}
  BY <1>1
<1> QED
  BY <1>2, <1>3, <1>4 DEF DisplayWith

LEMMA DisplayAdded ==
  ASSUME NEW s, LockInv(s), NEW r, NEW l, r.held \subseteq s.held \cup {l}
  PROVE  /\ Cardinality(DisplayLocks(s)) \in Nat
         /\ Cardinality(DisplayLocks(r)) \in Nat
         /\ Cardinality(DisplayLocks(r)) <= Cardinality(DisplayLocks(s)) + 1
<1>1. DisplayLocks(r) \subseteq DisplayLocks(s) \cup {l}
  BY DEF DisplayLocks
<1>2. IsFiniteSet(DisplayLocks(s)) /\ Cardinality(DisplayLocks(s)) \in Nat
  BY DisplayFinite DEF LockInv, Typed
<1>3. /\ IsFiniteSet(DisplayLocks(s) \cup {l})
      /\ Cardinality(DisplayLocks(s) \cup {l}) \in Nat
      /\ Cardinality(DisplayLocks(s) \cup {l}) <= Cardinality(DisplayLocks(s)) + 1
  BY <1>2, FS_AddElement, FS_CardinalityType
<1>4. /\ Cardinality(DisplayLocks(r)) \in Nat
      /\ Cardinality(DisplayLocks(r)) <= Cardinality(DisplayLocks(s) \cup {l})
  BY <1>1, <1>3, FS_Subset, FS_CardinalityType
<1> QED
  BY <1>2, <1>3, <1>4

LEMMA DisplayTaken ==
  ASSUME NEW s, LockInv(s), NEW r, NEW l \in s.held, l[1] = "display",
         r.held = s.held \ {l}
  PROVE  /\ Cardinality(DisplayLocks(s)) \in Nat
         /\ Cardinality(DisplayLocks(r)) = Cardinality(DisplayLocks(s)) - 1
<1>1. DisplayLocks(r) = DisplayLocks(s) \ {l} /\ l \in DisplayLocks(s)
  BY DEF DisplayLocks
<1>2. IsFiniteSet(DisplayLocks(s)) /\ Cardinality(DisplayLocks(s)) \in Nat
  BY DisplayFinite DEF LockInv, Typed
<1> QED
  BY <1>1, <1>2, FS_RemoveElement

\* Every lock of the display is in the list.
LEMMA DisplayListed ==
  ASSUME NEW s, LockInv(s), "rel" \in lib, DisplayLocks(s) # {}
  PROVE  Some(s.list, "display")
<1>1. PICK lock \in s.held : lock[1] = "display"
  BY DEF DisplayLocks
<1>2. "display" \in KeptKinds
  BY DEF KeptKinds, Kinds, SentKinds, HintIds
<1>3. \A v \in Handles : lock # s.h[v]
  <2>1. \A v \in Handles : "display" \notin KindsOf(v)
    <3> SUFFICES ASSUME NEW v \in Handles PROVE "display" \notin KindsOf(v)
      OBVIOUS
    <3>1. CASE v \in Counted
      BY <3>1 DEF KindsOf, KindOf
    <3>2. CASE v \in {"mode", "encode", "interaction", "launch", "lock_handle"}
      BY <3>2 DEF KindsOf, Counted
    <3> QED
      BY <3>1, <3>2 DEF Handles
  <2>2. lock # None
    BY <1>1, HalFields, NoneIsNoLock DEF LockInv, Typed
  <2> QED
    BY <1>1, <2>1, <2>2 DEF LockInv, Typed
<1>4. lock \in LocksIn(s.list)
  BY <1>1, <1>2, <1>3 DEF LockInv, Kept
<1>5. s.list \in Seq(Entry)
  BY HalFields DEF LockInv, Typed
<1>6. PICK i \in DOMAIN s.list : lock = s.list[i].lock
  BY <1>4 DEF LocksIn
<1>7. s.list[i] \in Entry
  BY <1>5
<1> QED
  BY <1>1, <1>6, <1>7 DEF Some, Entry

-----------------------------------------------------------------------------
(* The handlers of PowerHandlers.                                          *)

LEMMA SameLocks ==
  ASSUME NEW s, LockInv(s), NEW r, r \in HalType,
         r.held = s.held, r.h = s.h, r.list = s.list
  PROVE  LockInv(r)
  BY DEF LockInv, Typed, Owners, Live, Kept

LEMMA InvType ==
  ASSUME NEW s, Inv(s)
  PROVE  /\ LockInv(s) /\ s \in HalType /\ IsFiniteSet(s.held)
         /\ s.held \subseteq Locks
         /\ s.h \in [Handles -> Locks \cup {None}]
         /\ s.count \in [Counted -> Nat]
         /\ s.list \in Seq(Entry)
         /\ s.mode \subseteq Modes
  BY HalFields DEF Inv, LockInv, Typed

Good(answer) ==
  Inv(answer.hal) /\ answer.ret \in {"HINT_HANDLED", "HINT_NONE"}

LEMMA Answers ==
  ASSUME NEW s
  PROVE  /\ HINT_HANDLED(s).hal = s /\ HINT_HANDLED(s).ret = "HINT_HANDLED"
         /\ HINT_NONE(s).hal = s /\ HINT_NONE(s).ret = "HINT_NONE"
         /\ Inv(s) => Good(HINT_HANDLED(s)) /\ Good(HINT_NONE(s))
  BY DEF HINT_HANDLED, HINT_NONE, Answer, Good

LEMMA SameFlags ==
  ASSUME NEW s, FlagInv(s), NEW r, Same(s, r), r.h = s.h
  PROVE  FlagInv(r)
  BY DEF FlagInv, Same

LEMMA PerformHint ==
  ASSUME NEW s, Inv(s), NEW id \in HintIds, foreign => id \notin OwnIds,
         NEW out \in Outcomes
  PROVE  Inv(perform_hint_action(s, id, out))
<1> DEFINE r == perform_hint_action(s, id, out)
<1>1. OnlyEntry(s, r, id)
  BY InvType, Perform
<1> HIDE DEF r
<1>2. FlagInv(r)
  BY <1>1, SameFlags DEF Inv, OnlyEntry
<1>3. ProfileInv(r)
  BY <1>1 DEF Inv, OnlyEntry, Same, ProfileInv, OwnIds
<1>4. DisplayInv(r)
  <2>1. CASE foreign
    BY <1>1, <2>1, InvType, DisplayKept DEF Inv, OnlyEntry, Same, DisplayInv, OwnIds
  <2>2. CASE ~foreign
    BY <2>2 DEF Inv, DisplayInv, DisplayWith
  <2> QED
    BY <2>1, <2>2
<1> QED
  BY <1>1, <1>2, <1>3, <1>4 DEF Inv, OnlyEntry, r

LEMMA UndoHint ==
  ASSUME NEW s, Inv(s), NEW id \in HintIds, foreign => id \notin OwnIds
  PROVE  Inv(undo_hint_action(s, id))
<1> DEFINE r == undo_hint_action(s, id)
<1>1. OnlyEntry(s, r, id)
  BY InvType, Undo
<1> HIDE DEF r
<1>2. FlagInv(r)
  BY <1>1, SameFlags DEF Inv, OnlyEntry
<1>3. ProfileInv(r)
  BY <1>1 DEF Inv, OnlyEntry, Same, ProfileInv, OwnIds
<1>4. DisplayInv(r)
  <2>1. CASE foreign
    BY <1>1, <2>1, InvType, DisplayKept DEF Inv, OnlyEntry, Same, DisplayInv, OwnIds
  <2>2. CASE ~foreign
    BY <2>2 DEF Inv, DisplayInv, DisplayWith
  <2> QED
    BY <2>1, <2>2
<1> QED
  BY <1>1, <1>2, <1>3, <1>4 DEF Inv, OnlyEntry, r

\* Only the flags that no invariant is about change.
LEMMA SetFlag ==
  ASSUME NEW s, Inv(s), NEW r, r \in HalType,
         r.held = s.held, r.h = s.h, r.list = s.list, r.count = s.count,
         r.launch_mode = s.launch_mode, r.mode = s.mode,
         r.profile = s.profile, r.display_hint_sent = s.display_hint_sent
  PROVE  Inv(r)
<1>1. LockInv(r)
  BY SameLocks DEF Inv
<1>2. FlagInv(r)
  BY DEF Inv, FlagInv
<1>3. ProfileInv(r)
  BY DEF Inv, ProfileInv
<1>4. DisplayInv(r)
  BY InvType, DisplayKept DEF Inv, DisplayInv
<1> QED
  BY <1>1, <1>2, <1>3, <1>4 DEF Inv

LEMMA ChangeProfileInv ==
  ASSUME NEW s, Inv(s), NEW profile, NEW Listed, Listed \subseteq FiveProfiles,
         NEW out \in Outcomes
  PROVE  Inv(ChangeProfile(s, profile, Listed, out))
<1> DEFINE undone == IF s.profile = "balanced" THEN s
                     ELSE [undo_hint_action(s, "profile") EXCEPT
                             !.profile = "balanced"]
           performed == perform_hint_action(undone, "profile", out)
           changed == [performed EXCEPT
                         !.profile = IF Performed(out) THEN profile ELSE @]
<1>1. ChangeProfile(s, profile, Listed, out) =
        CASE profile = s.profile -> s
          [] profile # s.profile /\ profile \notin Listed -> undone
          [] profile # s.profile /\ profile \in Listed -> changed
  BY DEF ChangeProfile
<1>2. "profile" \in HintIds /\ "balanced" \notin FiveProfiles
  BY DEF HintIds, FiveProfiles, ThreeProfiles
<1>3. Inv(undone) /\ undone.profile = "balanced"
  <2>1. CASE s.profile = "balanced"
    BY <2>1
  <2>2. CASE s.profile # "balanced"
    <3> DEFINE u == undo_hint_action(s, "profile")
    <3>1. /\ OnlyEntry(s, u, "profile")
          /\ "rel" \in lib /\ AtMostOne(s.list, "profile") => ~Some(u.list, "profile")
          /\ AtMostOne(s.list, "profile") => AtMostOne(u.list, "profile")
      BY <1>2, InvType, Undo
    <3>2. undone = [u EXCEPT !.profile = "balanced"]
      BY <2>2
    <3> HIDE DEF u, undone
    <3>3. u \in HalType
      BY <3>1 DEF OnlyEntry, LockInv, Typed
    <3>4. /\ undone \in HalType /\ undone.profile = "balanced"
          /\ undone.held = u.held /\ undone.h = u.h /\ undone.list = u.list
          /\ undone.count = u.count /\ undone.launch_mode = u.launch_mode
          /\ undone.mode = u.mode /\ undone.display_hint_sent = u.display_hint_sent
      BY <3>2, <3>3 DEF HalType
    <3>5. LockInv(undone)
      BY <3>1, <3>4, SameLocks DEF OnlyEntry
    <3>6. FlagInv(undone)
      BY <3>1, <3>4 DEF Inv, FlagInv, OnlyEntry, Same
    <3>7. ProfileInv(undone)
      BY <3>1, <3>4 DEF Inv, ProfileInv
    <3>8. DisplayInv(undone)
      BY <3>1, <3>4, InvType, DisplayKept DEF Inv, DisplayInv, OnlyEntry, Same
    <3> QED
      BY <3>4, <3>5, <3>6, <3>7, <3>8 DEF Inv
  <2> QED
    BY <2>1, <2>2
<1>4. ASSUME profile \in Listed PROVE Inv(changed)
  <2> HIDE DEF undone
  <2>1. /\ OnlyEntry(undone, performed, "profile")
        /\ Some(performed.list, "profile") <=>
             Some(undone.list, "profile") \/ ("acq" \in lib /\ out = "granted")
        /\ ~("acq" \in lib /\ out = "granted") => performed.list = undone.list
        /\ ~Some(undone.list, "profile") => AtMostOne(performed.list, "profile")
    BY <1>2, <1>3, InvType, Perform
  <2> HIDE DEF performed
  <2>2. performed \in HalType /\ performed.profile = "balanced"
    BY <1>3, <2>1 DEF OnlyEntry, LockInv, Typed, Same
  <2> DEFINE new == IF Performed(out) THEN profile ELSE "balanced"
  <2>3. changed = [performed EXCEPT !.profile = new]
    BY <2>2
  <2>4. /\ new \in {"balanced"} \cup FiveProfiles
        /\ new # "balanced" <=> Performed(out)
    BY <1>2, <1>4
  <2> HIDE DEF changed, new
  <2>5. /\ changed \in HalType /\ changed.profile = new
        /\ changed.held = performed.held /\ changed.h = performed.h
        /\ changed.list = performed.list /\ changed.count = performed.count
        /\ changed.launch_mode = performed.launch_mode
        /\ changed.mode = performed.mode
        /\ changed.display_hint_sent = performed.display_hint_sent
    BY <2>2, <2>3, <2>4 DEF HalType
  <2>6. LockInv(changed)
    BY <2>1, <2>5, SameLocks DEF OnlyEntry
  <2>7. FlagInv(changed)
    BY <1>3, <2>1, <2>5 DEF Inv, FlagInv, OnlyEntry, Same
  <2>8. ProfileInv(changed)
    BY <1>3, <2>1, <2>4, <2>5 DEF Inv, ProfileInv, Performed
  <2>9. DisplayInv(changed)
    BY <1>3, <2>1, <2>5, InvType, DisplayKept DEF Inv, DisplayInv, OnlyEntry, Same
  <2> QED
    BY <2>6, <2>7, <2>8, <2>9 DEF Inv
<1> HIDE DEF undone, changed
<1> QED
  BY <1>1, <1>3, <1>4

LEMMA Requests ==
  ASSUME NEW text
  PROVE  /\ parse_video_encode_metadata(text).hint_id \in HintIds
         /\ parse_video_decode_metadata(text).hint_id \in HintIds
         /\ ForeignText(text) =>
              /\ parse_video_encode_metadata(text).hint_id \notin OwnIds
              /\ parse_video_decode_metadata(text).hint_id \notin OwnIds
<1>1. /\ Attribute(text, "hint_id", "encode") \in HintIds
      /\ Attribute(text, "hint_id", "decode") \in HintIds
  BY DEF Attribute, atoi, HintIds, Numerals
<1> QED
  BY <1>1 DEF parse_video_encode_metadata, parse_video_decode_metadata, ForeignText

LEMMA ListedHintGood ==
  ASSUME NEW s, Inv(s), NEW data, NEW request, request.hint_id \in HintIds,
         data # Null /\ foreign => request.hint_id \notin OwnIds,
         NEW out \in Outcomes
  PROVE  Good(ListedHint(s, data, request, out))
<1> DEFINE performed == perform_hint_action(s, request.hint_id, out)
           undone == undo_hint_action(s, request.hint_id)
<1>1. data # Null => Inv(performed) /\ Inv(undone)
  BY PerformHint, UndoHint
<1>2. \/ data # Null /\ ListedHint(s, data, request, out) = HINT_HANDLED(performed)
      \/ data # Null /\ ListedHint(s, data, request, out) = HINT_HANDLED(undone)
      \/ ListedHint(s, data, request, out) = HINT_NONE(s)
  BY DEF ListedHint
<1> HIDE DEF performed, undone
<1> QED
  BY <1>1, <1>2, Answers

LEMMA FlaggedHintGood ==
  ASSUME NEW s, Inv(s), NEW data, NEW understood,
         NEW request, request.hint_id \in HintIds,
         data # Null /\ foreign => request.hint_id \notin OwnIds,
         NEW out \in Outcomes
  PROVE  Good(FlaggedHint(s, data, understood, request, out))
<1> DEFINE performed == perform_hint_action(s, request.hint_id, out)
           undone == undo_hint_action(s, request.hint_id)
<1>1. data # Null => Inv(performed) /\ Inv(undone)
  BY PerformHint, UndoHint
<1>2. \/ /\ data # Null
         /\ FlaggedHint(s, data, understood, request, out)
              = HINT_HANDLED([performed EXCEPT !.encode_sent = TRUE])
      \/ /\ data # Null
         /\ FlaggedHint(s, data, understood, request, out)
              = HINT_HANDLED([undone EXCEPT !.encode_sent = FALSE])
      \/ FlaggedHint(s, data, understood, request, out) = HINT_NONE(s)
  BY DEF FlaggedHint
<1> HIDE DEF performed, undone
<1>3. ASSUME NEW t, Inv(t), NEW b \in BOOLEAN
      PROVE  Inv([t EXCEPT !.encode_sent = b])
  <2> DEFINE r == [t EXCEPT !.encode_sent = b]
  <2>1. t \in HalType
    BY <1>3, InvType
  <2>2. /\ r \in HalType /\ r.held = t.held /\ r.h = t.h /\ r.list = t.list
        /\ r.count = t.count /\ r.launch_mode = t.launch_mode
        /\ r.mode = t.mode /\ r.profile = t.profile
        /\ r.display_hint_sent = t.display_hint_sent
    BY <2>1 DEF HalType
  <2> HIDE DEF r
  <2>3. Inv(r)
    BY <1>3, <2>2, SetFlag
  <2> QED
    BY <2>3 DEF r
<1>4. data # Null => /\ Inv([performed EXCEPT !.encode_sent = TRUE])
                     /\ Inv([undone EXCEPT !.encode_sent = FALSE])
  BY <1>1, <1>3
<1> QED
  BY <1>2, <1>4, Answers

LEMMA EncodeFree ==
  ASSUME NEW s, Inv(s), soc \in {"845", "8998"}
  PROVE  Free(s, "encode") /\ "encode" \in Handles /\ KindsOf("encode") = {"encode"}
<1>1. "encode" \in Handles /\ KindsOf("encode") = {"encode"}
  BY DEF Handles, KindsOf, Counted
<1>2. s.h["encode"] \in s.held => s.h["encode"][1] = "encode"
  BY <1>1, InvType, NoneIsNoLock DEF Inv, LockInv, Typed
<1>3. "encode" \notin KeptKinds
  BY DEF KeptKinds
<1> QED
  BY <1>1, <1>2, <1>3 DEF Free

LEMMA HandleHintGood ==
  ASSUME NEW s, Inv(s), soc \in {"845", "8998"},
         NEW data, NEW request, NEW out
  PROVE  Good(HandleHint(s, data, request, out))
<1> DEFINE enabled == perf_hint_enable(s, "encode", "encode", out)
           released == release_request(s, s.h.encode)
<1>1. \/ HandleHint(s, data, request, out) = HINT_HANDLED(enabled)
      \/ HandleHint(s, data, request, out) = HINT_HANDLED(released)
      \/ HandleHint(s, data, request, out) = HINT_NONE(s)
  BY DEF HandleHint
<1>2. "encode" \in Handles /\ "encode" \notin Firm /\ "encode" # "launch"
  BY DEF Handles, Firm, Counted
<1>3. Inv(enabled)
  <2>1. Acquired(s, enabled, "encode", "encode")
    BY EncodeFree, InvType, Enable
  <2> HIDE DEF enabled
  <2>2. \A v \in Handles : v # "encode" => enabled.h[v] = s.h[v]
    BY <2>1 DEF Acquired
  <2>3. FlagInv(enabled)
    <3>1. /\ \A hint \in Counted : enabled.h[hint] = s.h[hint]
          /\ enabled.h["launch"] = s.h["launch"]
          /\ enabled.h["mode"] = s.h["mode"]
      BY <2>2 DEF Handles, Counted
    <3> QED
      BY <2>1, <3>1 DEF Inv, FlagInv, Acquired, Same
  <2>4. ProfileInv(enabled) /\ DisplayInv(enabled)
    BY <2>1, InvType, DisplayKept DEF Inv, ProfileInv, DisplayInv, Acquired, Same
  <2> QED
    BY <2>1, <2>3, <2>4 DEF Inv, Acquired
<1>4. Inv(released)
  <2>1. s.h.encode \notin LocksIn(s.list)
    BY <1>2 DEF Inv, LockInv, Owners
  <2>2. \A v \in Firm : s.h[v] = s.h.encode => s.h.encode = None
    BY <1>2, KindFacts DEF Inv, LockInv, Owners
  <2>3. LockInv(released) /\ Same(s, released)
        /\ released.h = s.h /\ released.list = s.list
        /\ released.held \subseteq s.held
    BY <2>1, <2>2, InvType, Release
  <2> HIDE DEF released
  <2>4. FlagInv(released)
    BY <2>3, SameFlags DEF Inv
  <2>5. ProfileInv(released) /\ DisplayInv(released)
    BY <2>3, InvType, DisplayKept DEF Inv, ProfileInv, DisplayInv, Same
  <2> QED
    BY <2>3, <2>4, <2>5 DEF Inv
<1> HIDE DEF enabled, released
<1> QED
  BY <1>1, <1>3, <1>4, Answers

LEMMA SetRecent ==
  ASSUME NEW s, Inv(s)
  PROVE  LET r == [s EXCEPT !.recent = TRUE] IN
         Inv(r) /\ r.h = s.h /\ r.held = s.held /\ r.list = s.list
<1> DEFINE r == [s EXCEPT !.recent = TRUE]
<1>1. s \in HalType
  BY InvType
<1>2. /\ r \in HalType /\ r.held = s.held /\ r.h = s.h /\ r.list = s.list
      /\ r.count = s.count /\ r.launch_mode = s.launch_mode
      /\ r.mode = s.mode /\ r.profile = s.profile
      /\ r.display_hint_sent = s.display_hint_sent
  BY <1>1 DEF HalType
<1> HIDE DEF r
<1>3. Inv(r)
  BY <1>2, SetFlag
<1> QED
  BY <1>2, <1>3 DEF r

\* An acquisition for a handle that no flag is about.
LEMMA AcquiredInv ==
  ASSUME NEW s, Inv(s), NEW v \in Handles, v \notin Firm, v # "launch",
         NEW kind, kind # "display", NEW r, Acquired(s, r, v, kind)
  PROVE  Inv(r)
<1>1. \A w \in Firm \cup {"launch"} : r.h[w] = s.h[w]
  <2>1. Firm \cup {"launch"} \subseteq Handles
    BY KindFacts DEF Handles
  <2> QED
    BY <2>1 DEF Acquired
<1>2. FlagInv(r)
  BY <1>1 DEF Inv, FlagInv, Firm, Acquired, Same
<1>3. ProfileInv(r) /\ DisplayInv(r)
  BY InvType, DisplayKept DEF Inv, ProfileInv, DisplayInv, Acquired, Same
<1> QED
  BY <1>2, <1>3 DEF Inv, Acquired

LEMMA InteractionInv ==
  ASSUME NEW s, Inv(s), NEW out
  PROVE  Inv(interaction(s, out))
<1> DEFINE r == interaction_with_handle(s, "lock_handle", "touch", out)
<1>1. /\ "lock_handle" \in Handles /\ "lock_handle" \notin Firm
      /\ KindsOf("lock_handle") = {"touch"} /\ "touch" \notin KeptKinds
  BY DEF Handles, Firm, Counted, KindsOf, KeptKinds
<1>2. s.h["lock_handle"] \in s.held => s.h["lock_handle"][1] = "touch"
  BY <1>1, InvType, NoneIsNoLock DEF Inv, LockInv, Typed
<1>3. Acquired(s, r, "lock_handle", "touch")
  BY <1>1, <1>2, InvType, Extend DEF Free
<1>4. interaction(s, out) = r
  BY DEF interaction
<1> HIDE DEF r
<1>5. Inv(r)
  BY <1>1, <1>3, AcquiredInv
<1> QED
  BY <1>4, <1>5

LEMMA TouchBoostInv ==
  ASSUME NEW s, Inv(s), NEW data, NEW least, NEW out
  PROVE  Inv(TouchBoost(s, data, least, out))
<1> DEFINE t == [s EXCEPT !.recent = TRUE]
           r == interaction(t, out)
<1>1. TouchBoost(s, data, least, out) \in {s, r}
  BY DEF TouchBoost
<1>2. Inv(t)
  BY SetRecent
<1> HIDE DEF t
<1>3. Inv(r)
  BY <1>2, InteractionInv
<1> HIDE DEF r
<1> QED
  BY <1>1, <1>3

LEMMA ScrollBoostInv ==
  ASSUME NEW s, Inv(s), NEW data, NEW least, NEW out
  PROVE  Inv(ScrollBoost(s, data, least, out))
<1> DEFINE u == release_request(s, s.h.interaction)
           t == [u EXCEPT !.recent = TRUE]
           r == perf_hint_enable(t, "interaction", "scroll", out)
<1>1. ScrollBoost(s, data, least, out) \in {s, r}
  BY DEF ScrollBoost
<1>2. /\ "interaction" \in Handles /\ "interaction" \notin Firm
      /\ KindsOf("interaction") = {"scroll"}
  BY DEF Handles, Firm, Counted, KindsOf
<1>3. /\ LockInv(u) /\ Same(s, u) /\ u.h = s.h /\ u.list = s.list
      /\ u.held \subseteq s.held
      /\ "rel" \in lib => u.held = s.held \ {s.h.interaction}
  <2>1. s.h.interaction \notin LocksIn(s.list)
    BY <1>2 DEF Inv, LockInv, Owners
  <2>2. \A v \in Firm : s.h[v] = s.h.interaction => s.h.interaction = None
    BY <1>2, KindFacts DEF Inv, LockInv, Owners
  <2> QED
    BY <2>1, <2>2, InvType, Release
<1> HIDE DEF u
<1>4. Inv(u)
  <2>1. FlagInv(u)
    BY <1>3, SameFlags DEF Inv
  <2>2. ProfileInv(u) /\ DisplayInv(u)
    BY <1>3, InvType, DisplayKept DEF Inv, ProfileInv, DisplayInv, Same
  <2> QED
    BY <1>3, <2>1, <2>2 DEF Inv
<1>5. Inv(t) /\ t.h = u.h /\ t.held = u.held
  BY <1>4, SetRecent
<1> HIDE DEF t
<1>6. Free(t, "interaction")
  BY <1>3, <1>5 DEF Free, KeptKinds
<1>7. Acquired(t, r, "interaction", "scroll")
  BY <1>2, <1>5, <1>6, InvType, Enable
<1> HIDE DEF r
<1>8. Inv(r)
  BY <1>2, <1>5, <1>7, AcquiredInv
<1> QED
  BY <1>1, <1>8

\* boosted is the state after the attempt to acquire the launch's lock.
LEMMA LaunchGood ==
  ASSUME NEW s, Inv(s), NEW data, NEW boosted,
         ~s.launch_mode => Acquired(s, boosted, "launch", "launch")
  PROVE  Good(Launch(s, data, boosted))
<1> DEFINE ended == LaunchEnded(s)
           begun == [boosted EXCEPT !.launch_mode = TRUE]
<1>1. "launch" \in Handles /\ "launch" \notin Firm /\ "launch" # "mode"
  BY DEF Handles, Firm, Counted
<1>2. /\ Launch(s, data, boosted) \in {HINT_HANDLED(ended), HINT_HANDLED(s)}
      \/ /\ ~s.launch_mode /\ boosted.h["launch"] = None
         /\ Launch(s, data, boosted) = HINT_NONE(boosted)
      \/ /\ ~s.launch_mode /\ boosted.h["launch"] # None
         /\ Launch(s, data, boosted) = HINT_HANDLED(begun)
  BY InvType DEF Launch, HalType
<1>3. Inv(ended)
  <2>1. /\ s \in HalType /\ s.h \in [Handles -> Locks \cup {None}]
        /\ s.held \subseteq Locks
    BY InvType
  <2>2. CASE s.h.launch = None
    <3>1. ended = [s EXCEPT !.launch_mode = FALSE]
      BY <2>2 DEF LaunchEnded
    <3>2. s.launch_mode = FALSE
      BY <1>1, <2>1, <2>2 DEF Inv, FlagInv, HalType
    <3>3. ended = s
      BY <2>1, <3>1, <3>2 DEF HalType
    <3> QED
      BY <3>3
  <2>3. CASE s.h.launch # None
    <3> DEFINE u == release_request(s, s.h.launch)
    <3>1. ended = [u EXCEPT !.h["launch"] = None, !.launch_mode = FALSE]
      BY <2>3 DEF LaunchEnded
    <3>2. /\ u \in HalType /\ Same(s, u) /\ u.h = s.h /\ u.list = s.list
      <4>1. CASE "rel" \in lib
        <5>1. u = [s EXCEPT !.held = s.held \ {s.h.launch}]
          BY <4>1 DEF release_request
        <5>2. s.held \ {s.h.launch} \subseteq Locks
          BY <2>1
        <5> HIDE DEF u
        <5> QED
          BY <2>1, <5>1, <5>2, SetHeld
      <4>2. CASE "rel" \notin lib
        BY <2>1, <4>2 DEF release_request, Same
      <4> QED
        BY <4>1, <4>2
    <3>3. ended = [u EXCEPT !.h = [s.h EXCEPT !["launch"] = None],
                            !.launch_mode = FALSE]
      BY <3>1, <3>2 DEF HalType
    <3>4. [s.h EXCEPT !["launch"] = None] \in [Handles -> Locks \cup {None}]
      BY <2>1
    <3>5. u.held = release_request(s, s.h["launch"]).held
      OBVIOUS
    <3> HIDE DEF u, ended
    <3>6. /\ ended \in HalType /\ ended.held = u.held
          /\ ended.h = [s.h EXCEPT !["launch"] = None]
          /\ ended.list = s.list /\ ended.launch_mode = FALSE
      BY <3>2, <3>3, <3>4 DEF HalType
    <3>7. /\ ended.count = s.count /\ ended.mode = s.mode
          /\ ended.profile = s.profile
          /\ ended.display_hint_sent = s.display_hint_sent
      BY <3>2, <3>3 DEF HalType, Same
    <3>8. /\ LockInv(ended) /\ ended.held \subseteq s.held
          /\ ended.h["launch"] = None
          /\ \A w \in Handles : w # "launch" => ended.h[w] = s.h[w]
      BY <1>1, <3>5, <3>6, InvType, Drop
    <3>9. \A w \in Firm : ended.h[w] = s.h[w]
      BY <1>1, <3>8, KindFacts
    <3>10. FlagInv(ended)
      BY <3>6, <3>7, <3>8, <3>9 DEF Inv, FlagInv, Firm
    <3>11. ProfileInv(ended) /\ DisplayInv(ended)
      BY <3>6, <3>7, <3>8, InvType, DisplayKept DEF Inv, ProfileInv, DisplayInv
    <3> QED
      BY <3>8, <3>10, <3>11 DEF Inv
  <2> QED
    BY <2>2, <2>3
<1> HIDE DEF ended
<1>4. ASSUME ~s.launch_mode
      PROVE  /\ boosted.h["launch"] = None => Inv(boosted)
             /\ boosted.h["launch"] # None => Inv(begun)
  <2>1. Acquired(s, boosted, "launch", "launch")
    BY <1>4
  <2>2. /\ LockInv(boosted) /\ boosted \in HalType /\ Same(s, boosted)
        /\ boosted.list = s.list
    BY <2>1 DEF Acquired, LockInv, Typed
  <2>3. \A w \in Firm : boosted.h[w] = s.h[w]
    BY <1>1, <2>1, KindFacts DEF Acquired
  <2>4. /\ begun \in HalType /\ begun.held = boosted.held
        /\ begun.h = boosted.h /\ begun.list = boosted.list
        /\ begun.launch_mode = TRUE
        /\ begun.count = boosted.count /\ begun.mode = boosted.mode
        /\ begun.profile = boosted.profile
        /\ begun.display_hint_sent = boosted.display_hint_sent
    BY <2>2 DEF HalType
  <2> HIDE DEF begun
  <2>5. \A lock \in boosted.held : lock \in s.held \/ lock[1] # "display"
    BY <2>1 DEF Acquired
  <2>6. LockInv(begun)
    BY <2>2, <2>4, SameLocks
  <2>7. /\ ProfileInv(boosted) /\ DisplayInv(boosted)
        /\ ProfileInv(begun) /\ DisplayInv(begun)
    BY <2>2, <2>4, <2>5, InvType, DisplayKept DEF Inv, ProfileInv, DisplayInv, Same
  <2>8. boosted.h["launch"] = None => FlagInv(boosted)
    BY <1>4, <2>2, <2>3 DEF Inv, FlagInv, Firm, Same
  <2>9. boosted.h["launch"] # None => FlagInv(begun)
    BY <2>2, <2>3, <2>4 DEF Inv, FlagInv, Firm, Same
  <2> QED
    BY <2>2, <2>6, <2>7, <2>8, <2>9 DEF Inv
<1> HIDE DEF begun
<1>5. CASE Launch(s, data, boosted) = HINT_HANDLED(ended)
  BY <1>3, <1>5, Answers
<1>6. CASE Launch(s, data, boosted) = HINT_HANDLED(s)
  BY <1>6, Answers
<1>7. CASE /\ ~s.launch_mode /\ boosted.h["launch"] = None
           /\ Launch(s, data, boosted) = HINT_NONE(boosted)
  BY <1>4, <1>7, Answers
<1>8. CASE /\ ~s.launch_mode /\ boosted.h["launch"] # None
           /\ Launch(s, data, boosted) = HINT_HANDLED(begun)
  BY <1>4, <1>8, Answers
<1> QED
  BY <1>2, <1>5, <1>6, <1>7, <1>8

LEMMA LaunchFree ==
  ASSUME NEW s, Inv(s), ~s.launch_mode
  PROVE  /\ Free(s, "launch") /\ "launch" \in Handles
         /\ "launch" \in KindsOf("launch")
  BY InvType, NoneIsNoLock
     DEF Inv, FlagInv, Free, Handles, KindsOf, Counted

LEMMA LaunchHintGood ==
  ASSUME NEW s, Inv(s), NEW data, NEW out
  PROVE  Good(LaunchHint(s, data, out))
<1>1. ~s.launch_mode =>
        Acquired(s, perf_hint_enable(s, "launch", "launch", out), "launch", "launch")
  BY LaunchFree, InvType, Enable
<1> QED
  BY <1>1, LaunchGood DEF LaunchHint

LEMMA LaunchLockGood ==
  ASSUME NEW s, Inv(s), NEW data, NEW out
  PROVE  Good(LaunchLock(s, data, out))
<1>1. ~s.launch_mode =>
        Acquired(s, interaction_with_handle(s, "launch", "launch", out),
                 "launch", "launch")
  BY LaunchFree, InvType, Extend
<1> QED
  BY <1>1, LaunchGood DEF LaunchLock

LEMMA ModeKind ==
  ASSUME NEW mode, mode \subseteq Modes, mode # NORMAL_MODE
  PROVE  get_perfd_hint_id(mode) \in KindsOf("mode")
<1>1. mode \in {{"sustained"}, {"vr"}, Modes}
  BY DEF Modes, NORMAL_MODE
<1>2. KindsOf("mode") = {"sustained", "vr", "vr_sustained"}
  BY DEF KindsOf, Counted
<1>3. /\ get_perfd_hint_id({"sustained"}) = "sustained"
      /\ get_perfd_hint_id({"vr"}) = "vr"
      /\ get_perfd_hint_id(Modes) = "vr_sustained"
  BY DEF get_perfd_hint_id, Modes
<1> QED
  BY <1>1, <1>2, <1>3

LEMMA SwitchMode ==
  ASSUME NEW s, Inv(s), NEW mode, mode \subseteq Modes, NEW out
  PROVE  LET r == switch_mode(s, mode, out) IN
         /\ LockInv(r) /\ Same(s, r) /\ r.list = s.list
         /\ \A w \in Handles : w # "mode" => r.h[w] = s.h[w]
         /\ r.h["mode"] # None => /\ mode # NORMAL_MODE
                                  /\ r.h["mode"][1] = get_perfd_hint_id(mode)
         /\ \A lock \in r.held : lock \in s.held \/ lock[1] # "display"
<1> DEFINE u == release_request(s, s.h.mode)
           t == [u EXCEPT !.h.mode = None]
           r == perf_hint_enable(t, "mode", get_perfd_hint_id(mode), out)
<1>1. switch_mode(s, mode, out) = IF mode = NORMAL_MODE THEN t ELSE r
  BY DEF switch_mode
<1>2. "mode" \in Handles
  BY DEF Handles
<1>3. /\ s \in HalType /\ s.h \in [Handles -> Locks \cup {None}]
      /\ s.held \subseteq Locks
  BY InvType
<1>4. u \in HalType /\ Same(s, u) /\ u.h = s.h /\ u.list = s.list
  <2>1. CASE "rel" \in lib
    <3>1. u = [s EXCEPT !.held = s.held \ {s.h.mode}]
      BY <2>1 DEF release_request
    <3>2. s.held \ {s.h.mode} \subseteq Locks
      BY <1>3
    <3> HIDE DEF u
    <3> QED
      BY <1>3, <3>1, <3>2, SetHeld
  <2>2. CASE "rel" \notin lib
    BY <1>3, <2>2 DEF release_request, Same
  <2> QED
    BY <2>1, <2>2
<1>5. u.held = release_request(s, s.h["mode"]).held
  OBVIOUS
<1> HIDE DEF u
<1>6. /\ t \in HalType /\ t.held = u.held /\ Same(u, t)
      /\ t.h = [s.h EXCEPT !["mode"] = None] /\ t.list = s.list
  <2>1. t = [u EXCEPT !.h = [u.h EXCEPT !["mode"] = None]]
    BY <1>4 DEF HalType
  <2>2. [u.h EXCEPT !["mode"] = None] \in [Handles -> Locks \cup {None}]
    BY <1>3, <1>4
  <2> HIDE DEF t
  <2> QED
    BY <1>4, <2>1, <2>2 DEF HalType, Same
<1> HIDE DEF t
<1>7. /\ LockInv(t) /\ t.h["mode"] = None /\ t.held \subseteq s.held
      /\ \A w \in Handles : w # "mode" => t.h[w] = s.h[w]
  BY <1>2, <1>5, <1>6, InvType, Drop
<1>8. Same(s, t)
  BY <1>4, <1>6 DEF Same
<1>9. CASE mode = NORMAL_MODE
  BY <1>1, <1>6, <1>7, <1>8, <1>9
<1>10. CASE mode # NORMAL_MODE
  <2>1. Free(t, "mode")
    BY <1>6, <1>7, HalFields, NoneIsNoLock DEF Free
  <2>2. get_perfd_hint_id(mode) \in KindsOf("mode")
    BY <1>10, ModeKind
  <2>3. /\ Acquired(t, r, "mode", get_perfd_hint_id(mode))
        /\ r.h["mode"] # None => r.h["mode"][1] = get_perfd_hint_id(mode)
    BY <1>2, <1>7, <2>1, <2>2, Enable
  <2> HIDE DEF r
  <2>4. \A w \in Handles : w # "mode" => r.h[w] = s.h[w]
    BY <1>7, <2>3 DEF Acquired
  <2>5. get_perfd_hint_id(mode) # "display"
    BY <2>2 DEF KindsOf, Counted
  <2>6. \A lock \in r.held : lock \in s.held \/ lock[1] # "display"
    BY <1>7, <2>3, <2>5 DEF Acquired
  <2> QED
    BY <1>1, <1>6, <1>8, <1>10, <2>3, <2>4, <2>6 DEF Acquired, Same
<1> QED
  BY <1>9, <1>10

LEMMA PerfHintGood ==
  ASSUME NEW s, Inv(s), NEW data, NEW type \in Modes, NEW out
  PROVE  Good(process_perf_hint(s, data, type, out))
<1> DEFINE mode == IF data = Null THEN s.mode \ {type} ELSE s.mode \cup {type}
           r == switch_mode(s, mode, out)
           t == [r EXCEPT !.mode = mode]
<1>1. mode \subseteq Modes
  BY InvType
<1>2. \/ mode = s.mode /\ process_perf_hint(s, data, type, out) = HINT_HANDLED(s)
      \/ /\ mode # s.mode /\ r.h["mode"] = None
         /\ process_perf_hint(s, data, type, out) = HINT_NONE(r)
      \/ /\ mode # s.mode /\ (mode = NORMAL_MODE \/ r.h["mode"] # None)
         /\ process_perf_hint(s, data, type, out) = HINT_HANDLED(t)
  BY DEF process_perf_hint, NORMAL_MODE
<1> HIDE DEF mode
<1>3. /\ LockInv(r) /\ Same(s, r) /\ r.list = s.list
      /\ \A w \in Handles : w # "mode" => r.h[w] = s.h[w]
      /\ r.h["mode"] # None => /\ mode # NORMAL_MODE
                               /\ r.h["mode"][1] = get_perfd_hint_id(mode)
      /\ \A lock \in r.held : lock \in s.held \/ lock[1] # "display"
  BY <1>1, SwitchMode
<1> HIDE DEF r
<1>4. r \in HalType
  BY <1>3 DEF LockInv, Typed
<1>5. /\ t \in HalType /\ t.held = r.held /\ t.h = r.h /\ t.list = r.list
      /\ t.count = r.count /\ t.launch_mode = r.launch_mode
      /\ t.mode = mode /\ t.profile = r.profile
      /\ t.display_hint_sent = r.display_hint_sent
  BY <1>1, <1>4 DEF HalType
<1> HIDE DEF t
<1>6. /\ \A hint \in Counted : r.h[hint] = s.h[hint]
      /\ r.h["launch"] = s.h["launch"]
  BY <1>3 DEF Handles, Counted
<1>7. /\ ProfileInv(r) /\ DisplayInv(r) /\ ProfileInv(t) /\ DisplayInv(t)
  BY <1>3, <1>5, InvType, DisplayKept DEF Inv, ProfileInv, DisplayInv, Same
<1>8. r.h["mode"] = None => FlagInv(r)
  BY <1>3, <1>6 DEF Inv, FlagInv, Same
<1>9. FlagInv(t)
  BY <1>3, <1>5, <1>6 DEF Inv, FlagInv, Same
<1>10. LockInv(t)
  BY <1>3, <1>5, SameLocks
<1>11. Inv(t) /\ (r.h["mode"] = None => Inv(r))
  BY <1>3, <1>7, <1>8, <1>9, <1>10 DEF Inv
<1> QED
  BY <1>2, <1>11, Answers

-----------------------------------------------------------------------------
(* The display: Ready(s, on, n) holds when the SoC's function is called,   *)
(* n being the number of locks that are left behind after the call.        *)

InvWith(s, n) == LockInv(s) /\ FlagInv(s) /\ ProfileInv(s) /\ DisplayWith(s, n)

Ready(s, on, n) ==
  /\ LockInv(s) /\ FlagInv(s) /\ ProfileInv(s)
  /\ s.display_hint_sent = ~on
  /\ n \in Nat
  /\ foreign /\ "rel" \in lib =>
       /\ Cardinality(DisplayLocks(s))
             <= n + IF on /\ governor = "interactive" THEN 1 ELSE 0
       /\ soc \notin WithDisplayHint => DisplayLocks(s) = {}

LEMMA ReadyType ==
  ASSUME NEW s, NEW on, NEW n, Ready(s, on, n)
  PROVE  LockInv(s) /\ s \in HalType
  BY DEF Ready, LockInv, Typed

\* What is acquired or released for another purpose leaves it so.
LEMMA ReadyKept ==
  ASSUME NEW s, NEW on, NEW n, Ready(s, on, n),
         NEW r, LockInv(r), FlagInv(r), ProfileInv(r),
         r.display_hint_sent = s.display_hint_sent,
         \A lock \in r.held : lock \in s.held \/ lock[1] # "display"
  PROVE  Ready(r, on, n)
<1>1. DisplayLocks(r) \subseteq DisplayLocks(s)
  BY DEF DisplayLocks
<1>2. IsFiniteSet(DisplayLocks(s)) /\ Cardinality(DisplayLocks(s)) \in Nat
  BY DisplayFinite DEF Ready, LockInv, Typed
<1>3. /\ Cardinality(DisplayLocks(r)) \in Nat
      /\ Cardinality(DisplayLocks(r)) <= Cardinality(DisplayLocks(s))
  BY <1>1, <1>2, FS_Subset, FS_CardinalityType
<1>4. DisplayLocks(s) = {} => DisplayLocks(r) = {}
  BY <1>1
<1> QED
  BY <1>2, <1>3, <1>4 DEF Ready

LEMMA ReadyEntry ==
  ASSUME NEW s, NEW on, NEW n, Ready(s, on, n),
         NEW r, OnlyEntry(s, r, "display_2")
  PROVE  Ready(r, on, n)
<1>1. FlagInv(r)
  BY SameFlags DEF Ready, OnlyEntry
<1>2. ProfileInv(r)
  BY DEF Ready, ProfileInv, OnlyEntry, Same
<1>3. /\ LockInv(r) /\ r.display_hint_sent = s.display_hint_sent
      /\ \A lock \in r.held : lock \in s.held \/ lock[1] # "display"
  BY DEF OnlyEntry, Same
<1> QED
  BY <1>1, <1>2, <1>3, ReadyKept

LEMMA DisplayNodeInv ==
  ASSUME NEW s, NEW n, InvWith(s, n), NEW on, NEW io
  PROVE  InvWith(DisplayNode(s, on, io), n)
<1> DEFINE opened == [s EXCEPT !.node_open = TRUE]
           written == [s EXCEPT !.node = IF on THEN "1" ELSE "0"]
<1>1. DisplayNode(s, on, io) \in {s, opened, written}
  BY DEF DisplayNode
<1>2. s \in HalType
  BY DEF InvWith, LockInv, Typed
<1>3. ASSUME NEW r \in {opened, written} PROVE InvWith(r, n)
  <2>1. /\ r \in HalType /\ r.held = s.held /\ r.h = s.h /\ r.list = s.list
        /\ r.count = s.count /\ r.launch_mode = s.launch_mode
        /\ r.mode = s.mode /\ r.profile = s.profile
        /\ r.display_hint_sent = s.display_hint_sent
    <3>1. CASE r = opened
      BY <1>2, <3>1 DEF HalType
    <3>2. CASE r = written
      BY <1>2, <3>2 DEF HalType
    <3> QED
      BY <1>3, <3>1, <3>2
  <2>2. LockInv(r)
    BY <2>1, SameLocks DEF InvWith
  <2>3. FlagInv(r) /\ ProfileInv(r)
    BY <2>1 DEF InvWith, FlagInv, ProfileInv
  <2>4. DisplayWith(r, n)
    BY <2>1, DisplayKept DEF InvWith
  <2> QED
    BY <2>2, <2>3, <2>4 DEF InvWith
<1> HIDE DEF opened, written
<1> QED
  BY <1>1, <1>3

\* A platform without the lock, or a governor without it.
LEMMA NoDisplayHint ==
  ASSUME NEW s, NEW on \in BOOLEAN, NEW n, Ready(s, on, n),
         soc \notin WithDisplayHint \/ governor # "interactive"
  PROVE  InvWith(s, n)
<1>1. Cardinality(DisplayLocks(s)) \in Nat
  BY DisplayFinite DEF Ready, LockInv, Typed
<1>2. DisplayLocks(s) = {} => Cardinality(DisplayLocks(s)) = 0
  BY FS_EmptySet
<1>3. DisplayWith(s, n)
  BY <1>1, <1>2 DEF Ready, DisplayWith
<1> QED
  BY <1>3 DEF Ready, InvWith

LEMMA DisplayHintInv ==
  ASSUME NEW s, NEW on \in BOOLEAN, NEW n, Ready(s, on, n), soc \in WithDisplayHint,
         NEW out \in Outcomes
  PROVE  InvWith(DisplayHint(s, on, out), n)
<1> DEFINE performed == perform_hint_action(s, "display", out)
           undone == undo_hint_action(s, "display")
<1>1. "display" \in HintIds /\ "display" # "profile"
  BY DEF HintIds
<1>2. CASE governor # "interactive"
  BY <1>2, NoDisplayHint DEF DisplayHint, is_interactive_governor
<1>3. ASSUME NEW r, OnlyEntry(s, r, "display"), DisplayWith(r, n)
      PROVE  InvWith(r, n)
  <2>1. FlagInv(r)
    BY <1>3, SameFlags DEF Ready, OnlyEntry
  <2>2. ProfileInv(r)
    BY <1>1, <1>3 DEF Ready, ProfileInv, OnlyEntry, Same
  <2> QED
    BY <1>3, <2>1, <2>2 DEF InvWith, OnlyEntry
<1>4. CASE governor = "interactive" /\ on
  <2>1. /\ OnlyEntry(s, undone, "display") /\ undone.held \subseteq s.held
        /\ "rel" \in lib /\ Some(s.list, "display") =>
             \E l \in s.held : l[1] = "display" /\ undone.held = s.held \ {l}
    BY <1>1, ReadyType, Undo
  <2>2. DisplayHint(s, on, out) = undone
    BY <1>4 DEF DisplayHint, is_interactive_governor
  <2> HIDE DEF undone
  <2>3. ASSUME foreign, "rel" \in lib
        PROVE  Cardinality(DisplayLocks(undone)) <= n
    <3>1. LockInv(s)
      BY ReadyType
    <3>2. CASE DisplayLocks(s) = {}
      <4>1. DisplayLocks(undone) = {}
        BY <2>1, <3>2 DEF DisplayLocks
      <4> QED
        BY <4>1, FS_EmptySet DEF Ready
    <3>3. CASE DisplayLocks(s) # {}
      <4>1. PICK l \in s.held : l[1] = "display" /\ undone.held = s.held \ {l}
        BY <2>1, <2>3, <3>1, <3>3, DisplayListed
      <4>2. /\ Cardinality(DisplayLocks(s)) \in Nat
            /\ Cardinality(DisplayLocks(undone)) = Cardinality(DisplayLocks(s)) - 1
        BY <3>1, <4>1, DisplayTaken
      <4>3. Cardinality(DisplayLocks(s)) <= n + 1 /\ n \in Nat
        BY <1>4, <2>3 DEF Ready
      <4> QED
        BY <4>2, <4>3
    <3> QED
      BY <3>2, <3>3
  <2>4. undone.display_hint_sent = FALSE /\ n \in Nat
    BY <1>4, <2>1 DEF Ready, OnlyEntry, Same
  <2>5. ASSUME foreign, "rel" \in lib
        PROVE  Cardinality(DisplayLocks(undone))
                 <= n + IF undone.display_hint_sent THEN 1 ELSE 0
    BY <2>3, <2>4, <2>5
  <2>6. DisplayWith(undone, n)
    BY <2>4, <2>5 DEF DisplayWith
  <2> QED
    BY <1>3, <2>1, <2>2, <2>6
<1>5. CASE governor = "interactive" /\ ~on
  <2>1. /\ OnlyEntry(s, performed, "display")
        /\ \E l : performed.held \subseteq s.held \cup {l}
    BY <1>1, ReadyType, Perform
  <2>2. DisplayHint(s, on, out) = performed
    BY <1>5 DEF DisplayHint, is_interactive_governor
  <2> HIDE DEF performed
  <2>3. /\ Cardinality(DisplayLocks(s)) \in Nat
        /\ Cardinality(DisplayLocks(performed)) \in Nat
        /\ Cardinality(DisplayLocks(performed)) <= Cardinality(DisplayLocks(s)) + 1
    BY <2>1, ReadyType, DisplayAdded
  <2>4. performed.display_hint_sent = TRUE /\ n \in Nat
    BY <1>5, <2>1 DEF Ready, OnlyEntry, Same
  <2>5. ASSUME foreign, "rel" \in lib
        PROVE  Cardinality(DisplayLocks(performed))
                 <= n + IF performed.display_hint_sent THEN 1 ELSE 0
    <3>1. Cardinality(DisplayLocks(s)) <= n
      BY <1>5, <2>4, <2>5 DEF Ready
    <3> QED
      BY <2>3, <2>4, <3>1
  <2>6. DisplayWith(performed, n)
    BY <2>4, <2>5 DEF DisplayWith
  <2> QED
    BY <1>3, <2>1, <2>2, <2>6
<1> QED
  BY <1>2, <1>4, <1>5

LEMMA ListKinds ==
  ASSUME NEW s, LockInv(s), NEW lock \in LocksIn(s.list)
  PROVE  lock[1] \in HintIds
<1>1. s.list \in Seq(Entry)
  BY HalFields DEF LockInv, Typed
<1>2. PICK i \in DOMAIN s.list : lock = s.list[i].lock
  BY DEF LocksIn
<1>3. s.list[i] \in Entry
  BY <1>1
<1> QED
  BY <1>2, <1>3 DEF Entry

LEMMA HandleKinds ==
  ASSUME NEW s, LockInv(s), NEW v \in Firm, s.h[v] # None
  PROVE  s.h[v][1] \in {"sustained", "vr", "vr_sustained", "encode"}
<1>1. KindsOf(v) \subseteq {"sustained", "vr", "vr_sustained", "encode"}
  <2>1. CASE v \in Counted
    BY <2>1 DEF KindsOf, KindOf, Counted
  <2>2. CASE v = "mode"
    BY <2>2 DEF KindsOf, Counted
  <2> QED
    BY <2>1, <2>2 DEF Firm
<1>2. v \in Handles
  BY KindFacts
<1> QED
  BY <1>1, <1>2 DEF LockInv, Typed

LEMMA InitialLock ==
  ASSUME NEW s, NEW on, NEW n, Ready(s, on, n)
  PROVE  Ready([undo_initial_hint_action(s) EXCEPT !.first_off = TRUE], on, n)
<1> DEFINE lock == <<"initial", 1>>
           u == release_request(s, lock)
           r == [u EXCEPT !.first_off = TRUE]
<1>1. r = [undo_initial_hint_action(s) EXCEPT !.first_off = TRUE]
  BY DEF undo_initial_hint_action
<1>2. lock[1] = "initial"
  OBVIOUS
<1>3. lock \notin LocksIn(s.list)
  BY <1>2, ReadyType, ListKinds DEF HintIds, Numerals
<1>4. \A v \in Firm : s.h[v] = lock => lock = None
  BY <1>2, ReadyType, HandleKinds
<1> HIDE DEF lock
<1>5. /\ LockInv(u) /\ Same(s, u) /\ u.h = s.h /\ u.list = s.list
      /\ u.held \subseteq s.held
  BY <1>3, <1>4, ReadyType, Release
<1> HIDE DEF u
<1>6. u \in HalType
  BY <1>5 DEF LockInv, Typed
<1>7. /\ r \in HalType /\ r.held = u.held /\ r.h = u.h /\ r.list = u.list
      /\ Same(u, r)
  BY <1>6 DEF HalType, Same
<1> HIDE DEF r
<1>8. LockInv(r)
  BY <1>5, <1>7, SameLocks
<1>9. Same(s, r) /\ r.h = s.h
  BY <1>5, <1>7 DEF Same
<1>10. FlagInv(r)
  BY <1>9, SameFlags DEF Ready
<1>11. ProfileInv(r)
  BY <1>5, <1>7, <1>9 DEF Ready, ProfileInv, Same
<1>12. /\ r.display_hint_sent = s.display_hint_sent
       /\ \A l \in r.held : l \in s.held \/ l[1] # "display"
  BY <1>5, <1>7, <1>9 DEF Same
<1>13. Ready(r, on, n)
  BY <1>8, <1>10, <1>11, <1>12, ReadyKept
<1> QED
  BY <1>1, <1>13

LEMMA TwoCoresReady ==
  ASSUME NEW s, NEW on \in BOOLEAN, NEW n, Ready(s, on, n), NEW out \in Outcomes
  PROVE  /\ Ready(TwoCores_8974(s, on, out), on, n)
         /\ Ready(TwoCores_8084(s, on, out), on, n)
<1> DEFINE first == [undo_initial_hint_action(s) EXCEPT !.first_off = TRUE]
           begun == IF s.first_off THEN s ELSE first
           performed == perform_hint_action(s, "display_2", out)
           undone == undo_hint_action(begun, "display_2")
           r == IF on THEN performed ELSE undone
<1>1. TwoCores_8974(s, on, out) = r /\ TwoCores_8084(s, on, out) = r
  BY DEF TwoCores_8974, TwoCores_8084
<1>2. "display_2" \in HintIds
  BY DEF HintIds
<1>3. Ready(performed, on, n)
  <2>1. OnlyEntry(s, performed, "display_2")
    BY <1>2, ReadyType, Perform
  <2> HIDE DEF performed
  <2> QED
    BY <2>1, ReadyEntry
<1>4. Ready(begun, on, n)
  BY InitialLock
<1> HIDE DEF begun
<1>5. Ready(undone, on, n)
  <2>1. OnlyEntry(begun, undone, "display_2")
    BY <1>2, <1>4, ReadyType, Undo
  <2> HIDE DEF undone
  <2> QED
    BY <1>4, <2>1, ReadyEntry
<1> HIDE DEF performed, undone
<1> QED
  BY <1>1, <1>3, <1>4, <1>5

-----------------------------------------------------------------------------
(* The platforms.                                                          *)

LEMMA Displays ==
  ASSUME NEW s, NEW on \in BOOLEAN, NEW n, Ready(s, on, n),
         NEW out \in Outcomes, NEW io \in BOOLEAN
  PROVE  InvWith(set_interactive_override(s, on, out, io), n)
<1> DEFINE Fine(r) == InvWith(r, n)
<1>1. soc \in WithDisplayHint => Fine(DisplayHint(s, on, out))
  BY DisplayHintInv
<1>2. soc \notin WithDisplayHint \/ governor = "unreadable" => Fine(s)
  BY NoDisplayHint
<1>3. ASSUME NEW r, Fine(r) PROVE Fine(DisplayNode(r, on, io))
  BY <1>3, DisplayNodeInv
<1>4. ASSUME soc \in WithDisplayHint,
             NEW t, Ready(t, on, n)
      PROVE  Fine(DisplayHint(t, on, out))
  BY <1>4, DisplayHintInv
<1>5. /\ Ready(TwoCores_8974(s, on, out), on, n)
      /\ Ready(TwoCores_8084(s, on, out), on, n)
  BY TwoCoresReady
<1> HIDE DEF Fine
<1>6. CASE soc = "8974"
  <2>1. set_interactive_override(s, on, out, io)
          = set_interactive_override_8974(s, on, out, io)
    BY <1>6 DEF set_interactive_override
  <2>2. soc \in WithDisplayHint
    BY <1>6 DEF WithDisplayHint
  <2>3. Fine(set_interactive_override_8974(s, on, out, io))
    BY <1>1, <1>2, <1>4, <1>5, <2>2 DEF set_interactive_override_8974
  <2> QED
    BY <2>1, <2>3 DEF Fine
<1>7. CASE soc = "8084"
  <2>1. set_interactive_override(s, on, out, io)
          = set_interactive_override_8084(s, on, out, io)
    BY <1>7 DEF set_interactive_override
  <2>2. soc \in WithDisplayHint
    BY <1>7 DEF WithDisplayHint
  <2>3. Fine(set_interactive_override_8084(s, on, out, io))
    BY <1>2, <1>4, <1>5, <2>2 DEF set_interactive_override_8084
  <2> QED
    BY <2>1, <2>3 DEF Fine
<1>8. CASE soc \in {"8937", "8953"}
  <2>1. soc \in WithDisplayHint
    BY <1>8 DEF WithDisplayHint
  <2>2. set_interactive_override(s, on, out, io)
          = IF governor = "unreadable" THEN s
            ELSE DisplayNode(DisplayHint(s, on, out), on, io)
    BY <1>8 DEF set_interactive_override, set_interactive_override_8937,
                set_interactive_override_8953
  <2> QED
    BY <1>1, <1>2, <1>3, <2>1, <2>2 DEF Fine
<1>9. CASE soc \in WithDisplayHint \ {"8974", "8084", "8937", "8953"}
  <2>1. set_interactive_override(s, on, out, io) = DisplayHint(s, on, out)
    BY <1>9 DEF WithDisplayHint, set_interactive_override,
       set_interactive_override_8226, set_interactive_override_8610,
       set_interactive_override_8909, set_interactive_override_8916,
       set_interactive_override_8952, set_interactive_override_8960,
       set_interactive_override_8992, set_interactive_override_8994,
       set_interactive_override_660
  <2> QED
    BY <1>1, <1>9, <2>1 DEF Fine
<1>10. CASE soc \in {"845", "710", "msmnile"}
  <2>1. soc \notin WithDisplayHint
    BY <1>10 DEF WithDisplayHint
  <2>2. set_interactive_override(s, on, out, io) = DisplayNode(s, on, io)
    BY <1>10 DEF set_interactive_override, set_interactive_override_845,
                 set_interactive_override_710, set_interactive_override_msmnile
  <2> QED
    BY <1>2, <1>3, <2>1, <2>2 DEF Fine
<1>11. CASE soc \notin WithDisplayHint \cup {"845", "710", "msmnile"}
  <2>1. set_interactive_override(s, on, out, io) = s
    BY <1>11 DEF WithDisplayHint, set_interactive_override,
                 set_interactive_override_8996, set_interactive_override_8998
  <2> QED
    BY <1>2, <1>11, <2>1 DEF Fine
<1> QED
  BY <1>6, <1>7, <1>8, <1>9, <1>10, <1>11

LEMMA ProfilesInv ==
  ASSUME NEW s, Inv(s), NEW profile, NEW out \in Outcomes
  PROVE  Inv(set_power_profile(s, profile, out))
<1>1. /\ Inv(ChangeProfile(s, profile, FiveProfiles, out))
      /\ Inv(ChangeProfile(s, profile, ThreeProfiles, out))
  BY ChangeProfileInv DEF FiveProfiles
<1>2. CASE soc \in {"8974", "8084", "8937", "8952", "8953", "8992", "8994",
                    "8996", "8998", "660"}
  <2>1. set_power_profile(s, profile, out)
          = ChangeProfile(s, profile, FiveProfiles, out)
    BY <1>2 DEF set_power_profile,
       set_power_profile_8974, profile_resources_8974,
       set_power_profile_8084, profile_resources_8084,
       set_power_profile_8937, profile_resources_8937,
       set_power_profile_8952, profile_resources_8952,
       set_power_profile_8953, profile_resources_8953,
       set_power_profile_8992, profile_resources_8992,
       set_power_profile_8994, profile_resources_8994,
       set_power_profile_8996, profile_resources_8996,
       set_power_profile_8998, profile_resources_8998,
       set_power_profile_660, profile_resources_660
  <2> QED
    BY <1>1, <2>1
<1>3. CASE soc \in {"8226", "8610", "8916", "8960"}
  <2>1. set_power_profile(s, profile, out)
          = ChangeProfile(s, profile, ThreeProfiles, out)
    BY <1>3 DEF set_power_profile,
       set_power_profile_8226, profile_resources_8226,
       set_power_profile_8610, profile_resources_8610,
       set_power_profile_8916, profile_resources_8916,
       set_power_profile_8960, profile_resources_8960
  <2> QED
    BY <1>1, <2>1
<1>4. CASE soc \notin {"8974", "8084", "8937", "8952", "8953", "8992", "8994",
                       "8996", "8998", "660", "8226", "8610", "8916", "8960"}
  <2>1. set_power_profile(s, profile, out) = s
    BY <1>4 DEF set_power_profile
  <2> QED
    BY <2>1
<1> QED
  BY <1>2, <1>3, <1>4

\* The metadata of a video hint, if there is any, may be of this instance.
Proper(data) == data # Null /\ foreign => ForeignText(data[1])

Videos == {"VIDEO_ENCODE", "VIDEO_DECODE"}

LEMMA OverrideBoost ==
  ASSUME NEW s, Inv(s), NEW data, NEW least, NEW out
  PROVE  /\ Good(HINT_HANDLED(TouchBoost(s, data, least, out)))
         /\ Good(HINT_HANDLED(ScrollBoost(s, data, least, out)))
         /\ Good(HINT_HANDLED(interaction(s, out)))
         /\ Good(LaunchHint(s, data, out))
         /\ Good(LaunchLock(s, data, out))
  BY TouchBoostInv, ScrollBoostInv, InteractionInv, LaunchHintGood, LaunchLockGood,
     Answers

LEMMA OverrideVideo ==
  ASSUME NEW s, Inv(s), NEW hint, NEW data, hint \in Videos => Proper(data),
         NEW out \in Outcomes, NEW understood
  PROVE  /\ hint = "VIDEO_ENCODE" =>
              /\ Good(ListedHint(s, data, parse_video_encode_metadata(data[1]), out))
              /\ Good(FlaggedHint(s, data, understood,
                                  parse_video_encode_metadata(data[1]), out))
         /\ hint = "VIDEO_DECODE" =>
              Good(ListedHint(s, data, parse_video_decode_metadata(data[1]), out))
         /\ soc \in {"845", "8998"} =>
              Good(HandleHint(s, data, parse_video_encode_metadata(data[1]), out))
<1> DEFINE encode == parse_video_encode_metadata(data[1])
           decode == parse_video_decode_metadata(data[1])
<1>1. /\ encode.hint_id \in HintIds /\ decode.hint_id \in HintIds
      /\ Proper(data) /\ data # Null /\ foreign =>
           encode.hint_id \notin OwnIds /\ decode.hint_id \notin OwnIds
  BY Requests DEF Proper
<1> HIDE DEF encode, decode
<1>2. hint = "VIDEO_ENCODE" => /\ Good(ListedHint(s, data, encode, out))
                               /\ Good(FlaggedHint(s, data, understood, encode, out))
  BY <1>1, ListedHintGood, FlaggedHintGood DEF Videos
<1>3. hint = "VIDEO_DECODE" => Good(ListedHint(s, data, decode, out))
  BY <1>1, ListedHintGood DEF Videos
<1>4. soc \in {"845", "8998"} => Good(HandleHint(s, data, encode, out))
  BY HandleHintGood
<1> QED
  BY <1>2, <1>3, <1>4 DEF encode, decode

LEMMA OverrideMode ==
  ASSUME NEW s, Inv(s), NEW data, NEW out
  PROVE  /\ Good(process_perf_hint(s, data, "sustained", out))
         /\ Good(process_perf_hint(s, data, "vr", out))
  BY PerfHintGood DEF Modes

\* One step per platform.
LEMMA Overrides ==
  ASSUME NEW s, Inv(s), NEW hint, NEW data, hint \in Videos => Proper(data),
         NEW out \in Outcomes
  PROVE  Good(power_hint_override(s, hint, data, out))
<1>1. CASE soc = "8974"
  <2>1. power_hint_override(s, hint, data, out)
          = power_hint_override_8974(s, hint, data, out)
    BY <1>1 DEF power_hint_override
  <2>2. Good(power_hint_override_8974(s, hint, data, out))
    BY <1>1, Answers, OverrideBoost, OverrideVideo
       DEF power_hint_override_8974,
           process_video_encode_hint_8974,
           process_video_decode_hint_8974,
           process_interaction_hint_8974,
           process_activity_launch_hint_8974
  <2> QED
    BY <2>1, <2>2
<1>2. CASE soc = "8084"
  <2>1. power_hint_override(s, hint, data, out)
          = power_hint_override_8084(s, hint, data, out)
    BY <1>2 DEF power_hint_override
  <2>2. Good(power_hint_override_8084(s, hint, data, out))
    BY <1>2, Answers, OverrideBoost, OverrideVideo
       DEF power_hint_override_8084,
           process_video_encode_hint_8084,
           process_video_decode_hint_8084,
           process_interaction_hint_8084,
           process_activity_launch_hint_8084
  <2> QED
    BY <2>1, <2>2
<1>3. CASE soc = "8226"
  <2>1. power_hint_override(s, hint, data, out)
          = power_hint_override_8226(s, hint, data, out)
    BY <1>3 DEF power_hint_override
  <2>2. Good(power_hint_override_8226(s, hint, data, out))
    BY <1>3, Answers, OverrideBoost, OverrideVideo
       DEF power_hint_override_8226,
           process_video_encode_hint_8226,
           process_video_decode_hint_8226,
           process_interaction_hint_8226
  <2> QED
    BY <2>1, <2>2
<1>4. CASE soc = "8610"
  <2>1. power_hint_override(s, hint, data, out)
          = power_hint_override_8610(s, hint, data, out)
    BY <1>4 DEF power_hint_override
  <2>2. Good(power_hint_override_8610(s, hint, data, out))
    BY <1>4, Answers, OverrideBoost, OverrideVideo
       DEF power_hint_override_8610,
           process_video_encode_hint_8610,
           process_video_decode_hint_8610,
           process_interaction_hint_8610
  <2> QED
    BY <2>1, <2>2
<1>5. CASE soc = "8909"
  <2>1. power_hint_override(s, hint, data, out)
          = power_hint_override_8909(s, hint, data, out)
    BY <1>5 DEF power_hint_override
  <2>2. Good(power_hint_override_8909(s, hint, data, out))
    BY <1>5, Answers, OverrideVideo
       DEF power_hint_override_8909,
           process_video_encode_hint_8909,
           process_video_decode_hint_8909
  <2> QED
    BY <2>1, <2>2
<1>6. CASE soc = "8916"
  <2>1. power_hint_override(s, hint, data, out)
          = power_hint_override_8916(s, hint, data, out)
    BY <1>6 DEF power_hint_override
  <2>2. Good(power_hint_override_8916(s, hint, data, out))
    BY <1>6, Answers, OverrideBoost
       DEF power_hint_override_8916,
           process_interaction_hint_8916,
           process_activity_launch_hint_8916
  <2> QED
    BY <2>1, <2>2
<1>7. CASE soc = "8937"
  <2>1. power_hint_override(s, hint, data, out)
          = power_hint_override_8937(s, hint, data, out)
    BY <1>7 DEF power_hint_override
  <2>2. Good(power_hint_override_8937(s, hint, data, out))
    BY <1>7, Answers, OverrideBoost, OverrideVideo
       DEF power_hint_override_8937,
           process_video_encode_hint_8937,
           process_interaction_hint_8937,
           process_activity_launch_hint_8937
  <2> QED
    BY <2>1, <2>2
<1>8. CASE soc = "8952"
  <2>1. power_hint_override(s, hint, data, out)
          = power_hint_override_8952(s, hint, data, out)
    BY <1>8 DEF power_hint_override
  <2>2. Good(power_hint_override_8952(s, hint, data, out))
    BY <1>8, Answers, OverrideVideo
       DEF power_hint_override_8952,
           process_video_encode_hint_8952,
           process_video_decode_hint_8952
  <2> QED
    BY <2>1, <2>2
<1>9. CASE soc = "8953"
  <2>1. power_hint_override(s, hint, data, out)
          = power_hint_override_8953(s, hint, data, out)
    BY <1>9 DEF power_hint_override
  <2>2. Good(power_hint_override_8953(s, hint, data, out))
    BY <1>9, Answers, OverrideBoost, OverrideVideo
       DEF power_hint_override_8953,
           process_video_encode_hint_8953,
           process_interaction_hint_8953,
           process_activity_launch_hint_8953
  <2> QED
    BY <2>1, <2>2
<1>10. CASE soc = "8960"
  <2>1. power_hint_override(s, hint, data, out)
          = power_hint_override_8960(s, hint, data, out)
    BY <1>10 DEF power_hint_override
  <2>2. Good(power_hint_override_8960(s, hint, data, out))
    BY <1>10, Answers, OverrideVideo
       DEF power_hint_override_8960,
           process_video_encode_hint_8960,
           process_video_decode_hint_8960
  <2> QED
    BY <2>1, <2>2
<1>11. CASE soc = "8992"
  <2>1. power_hint_override(s, hint, data, out)
          = power_hint_override_8992(s, hint, data, out)
    BY <1>11 DEF power_hint_override
  <2>2. Good(power_hint_override_8992(s, hint, data, out))
    BY <1>11, Answers, OverrideBoost, OverrideVideo
       DEF power_hint_override_8992,
           process_video_encode_hint_8992,
           process_video_decode_hint_8992,
           process_interaction_hint_8992,
           process_activity_launch_hint_8992
  <2> QED
    BY <2>1, <2>2
<1>12. CASE soc = "8994"
  <2>1. power_hint_override(s, hint, data, out)
          = power_hint_override_8994(s, hint, data, out)
    BY <1>12 DEF power_hint_override
  <2>2. Good(power_hint_override_8994(s, hint, data, out))
    BY <1>12, Answers, OverrideBoost, OverrideVideo
       DEF power_hint_override_8994,
           process_video_encode_hint_8994,
           process_video_decode_hint_8994,
           process_interaction_hint_8994,
           process_activity_launch_hint_8994
  <2> QED
    BY <2>1, <2>2
<1>13. CASE soc = "8996"
  <2>1. power_hint_override(s, hint, data, out)
          = power_hint_override_8996(s, hint, data, out)
    BY <1>13 DEF power_hint_override
  <2>2. Good(power_hint_override_8996(s, hint, data, out))
    BY <1>13, Answers, OverrideBoost, OverrideVideo, OverrideMode
       DEF power_hint_override_8996,
           process_video_encode_hint_8996,
           process_interaction_hint_8996,
           process_activity_launch_hint_8996
  <2> QED
    BY <2>1, <2>2
<1>14. CASE soc = "8998"
  <2>1. power_hint_override(s, hint, data, out)
          = power_hint_override_8998(s, hint, data, out)
    BY <1>14 DEF power_hint_override
  <2>2. Good(power_hint_override_8998(s, hint, data, out))
    BY <1>14, Answers, OverrideBoost, OverrideVideo, OverrideMode
       DEF power_hint_override_8998,
           process_video_encode_hint_8998,
           process_interaction_hint_8998,
           process_activity_launch_hint_8998
  <2> QED
    BY <2>1, <2>2
<1>15. CASE soc = "660"
  <2>1. power_hint_override(s, hint, data, out)
          = power_hint_override_660(s, hint, data, out)
    BY <1>15 DEF power_hint_override
  <2>2. Good(power_hint_override_660(s, hint, data, out))
    BY <1>15, Answers, OverrideBoost, OverrideVideo
       DEF power_hint_override_660,
           process_video_encode_hint_660,
           process_interaction_hint_660,
           process_activity_launch_hint_660
  <2> QED
    BY <2>1, <2>2
<1>16. CASE soc = "845"
  <2>1. power_hint_override(s, hint, data, out)
          = power_hint_override_845(s, hint, data, out)
    BY <1>16 DEF power_hint_override
  <2>2. Good(power_hint_override_845(s, hint, data, out))
    BY <1>16, Answers, OverrideBoost, OverrideVideo, OverrideMode
       DEF power_hint_override_845,
           process_video_encode_hint_845,
           process_interaction_hint_845,
           process_activity_launch_hint_845
  <2> QED
    BY <2>1, <2>2
<1>17. CASE soc = "msmnile"
  <2>1. power_hint_override(s, hint, data, out)
          = power_hint_override_msmnile(s, hint, data, out)
    BY <1>17 DEF power_hint_override
  <2>2. Good(power_hint_override_msmnile(s, hint, data, out))
    BY <1>17, Answers, OverrideBoost
       DEF power_hint_override_msmnile
  <2> QED
    BY <2>1, <2>2
<1>18. CASE soc \notin {"8974", "8084", "8226", "8610", "8909", "8916", "8937",
                     "8952", "8953", "8960", "8992", "8994", "8996", "8998",
                     "660", "845", "msmnile"}
  <2>1. power_hint_override(s, hint, data, out) = HINT_NONE(s)
    BY <1>18 DEF power_hint_override
  <2> QED
    BY <2>1, Answers
<1> QED
  BY <1>1, <1>2, <1>3, <1>4, <1>5, <1>6, <1>7, <1>8, <1>9, <1>10,
     <1>11, <1>12, <1>13, <1>14, <1>15, <1>16, <1>17, <1>18

-----------------------------------------------------------------------------
(* power-common.c.                                                         *)

LEMMA CountedFacts ==
  ASSUME NEW hint \in Counted
  PROVE  /\ hint \in Handles /\ hint \in Firm /\ hint # "mode" /\ hint # "launch"
         /\ KindOf(hint) \in KindsOf(hint)
  BY DEF Counted, Handles, Firm, KindsOf, KindOf

LEMMA SetCount ==
  ASSUME NEW s, s \in HalType, NEW hint \in Counted, NEW n \in Nat
  PROVE  LET r == [s EXCEPT !.count[hint] = n] IN
         /\ r \in HalType /\ r.held = s.held /\ r.h = s.h /\ r.list = s.list
         /\ r.count = [s.count EXCEPT ![hint] = n]
         /\ r.launch_mode = s.launch_mode /\ r.mode = s.mode
         /\ r.profile = s.profile /\ r.display_hint_sent = s.display_hint_sent
<1> DEFINE r == [s EXCEPT !.count[hint] = n]
<1>1. r = [s EXCEPT !.count = [s.count EXCEPT ![hint] = n]]
  BY DEF HalType
<1>2. [s.count EXCEPT ![hint] = n] \in [Counted -> Nat]
  BY HalFields
<1> HIDE DEF r
<1> QED
  BY <1>1, <1>2 DEF HalType, r

\* All but the count of one hint is as the invariant says, and so is the
\* new count.
LEMMA Recount ==
  ASSUME NEW s, s \in HalType, LockInv(s), ProfileInv(s), DisplayInv(s),
         NEW hint \in Counted, NEW n \in Nat, n > 0 <=> s.h[hint] # None,
         \A other \in Counted : other # hint =>
           (s.count[other] > 0 <=> s.h[other] # None),
         s.launch_mode <=> s.h["launch"] # None,
         s.h["mode"] # None => /\ s.mode # NORMAL_MODE
                               /\ s.h["mode"][1] = get_perfd_hint_id(s.mode)
  PROVE  Inv([s EXCEPT !.count[hint] = n])
<1> DEFINE r == [s EXCEPT !.count[hint] = n]
<1>1. /\ r \in HalType /\ r.held = s.held /\ r.h = s.h /\ r.list = s.list
      /\ r.count = [s.count EXCEPT ![hint] = n]
      /\ r.launch_mode = s.launch_mode /\ r.mode = s.mode
      /\ r.profile = s.profile /\ r.display_hint_sent = s.display_hint_sent
  BY SetCount
<1> HIDE DEF r
<1>2. LockInv(r)
  BY <1>1, SameLocks
<1>3. \A other \in Counted : r.count[other] > 0 <=> r.h[other] # None
  <2>1. s.count \in [Counted -> Nat]
    BY HalFields
  <2>2. /\ r.count[hint] = n
        /\ \A other \in Counted : other # hint => r.count[other] = s.count[other]
    BY <1>1, <2>1
  <2> QED
    BY <1>1, <2>2
<1>4. FlagInv(r)
  BY <1>1, <1>3 DEF FlagInv
<1>5. ProfileInv(r) /\ DisplayInv(r)
  BY <1>1, DisplayKept DEF ProfileInv, DisplayInv
<1> QED
  BY <1>2, <1>4, <1>5 DEF Inv, r

LEMMA StartInv ==
  ASSUME NEW s, Inv(s), NEW hint \in Counted, NEW out
  PROVE  Inv(Start(s, hint, out))
<1> DEFINE a == IF s.count[hint] > 0 THEN s
                ELSE perf_hint_enable(s, hint, KindOf(hint), out)
<1>1. Start(s, hint, out) = IF a.h[hint] = None THEN a
                            ELSE [a EXCEPT !.count[hint] = a.count[hint] + 1]
  BY DEF Start
<1>2. /\ s.count[hint] \in Nat /\ (s.count[hint] > 0 <=> s.h[hint] # None)
  BY InvType DEF Inv, FlagInv
<1>3. /\ LockInv(a) /\ Same(s, a) /\ a.list = s.list
      /\ \A w \in Handles : w # hint => a.h[w] = s.h[w]
      /\ s.count[hint] > 0 => a.h[hint] = s.h[hint]
      /\ \A lock \in a.held : lock \in s.held \/ lock[1] # "display"
  <2>1. CASE s.count[hint] > 0
    BY <2>1, InvType DEF Same
  <2>2. CASE ~(s.count[hint] > 0)
    <3>1. s.h[hint] = None /\ s.held \subseteq Locks
      BY <1>2, <2>2, InvType
    <3>2. Free(s, hint)
      BY <3>1, NoneIsNoLock DEF Free
    <3>3. Acquired(s, perf_hint_enable(s, hint, KindOf(hint), out), hint, KindOf(hint))
      BY <3>2, CountedFacts, InvType, Enable
    <3>4. KindOf(hint) # "display"
      BY DEF KindOf
    <3> QED
      BY <2>2, <3>3, <3>4 DEF Acquired
  <2> QED
    BY <2>1, <2>2
<1> HIDE DEF a
<1>4. /\ a \in HalType /\ a.count = s.count /\ a.launch_mode = s.launch_mode
      /\ a.mode = s.mode /\ a.profile = s.profile
      /\ a.display_hint_sent = s.display_hint_sent
  BY <1>3 DEF LockInv, Typed, Same
<1>5. /\ a.h["launch"] = s.h["launch"] /\ a.h["mode"] = s.h["mode"]
      /\ \A other \in Counted : other # hint => a.h[other] = s.h[other]
  BY <1>3, CountedFacts DEF Handles
<1>6. ProfileInv(a) /\ DisplayInv(a)
  BY <1>3, <1>4, InvType, DisplayKept DEF Inv, ProfileInv, DisplayInv
<1>7. /\ \A other \in Counted : other # hint =>
           (a.count[other] > 0 <=> a.h[other] # None)
      /\ a.launch_mode <=> a.h["launch"] # None
      /\ a.h["mode"] # None => /\ a.mode # NORMAL_MODE
                               /\ a.h["mode"][1] = get_perfd_hint_id(a.mode)
  BY <1>4, <1>5 DEF Inv, FlagInv
<1>8. CASE a.h[hint] = None
  <2>1. ~(a.count[hint] > 0)
    BY <1>2, <1>3, <1>4, <1>8
  <2>2. FlagInv(a)
    BY <1>7, <1>8, <2>1 DEF FlagInv
  <2> QED
    BY <1>1, <1>3, <1>6, <1>8, <2>2 DEF Inv
<1>9. CASE a.h[hint] # None
  <2>1. a.count[hint] + 1 \in Nat /\ a.count[hint] + 1 > 0
    BY <1>2, <1>4
  <2> DEFINE n == a.count[hint] + 1
  <2> HIDE DEF n
  <2>2. n \in Nat /\ (n > 0 <=> a.h[hint] # None)
    BY <1>9, <2>1 DEF n
  <2>3. Inv([a EXCEPT !.count[hint] = n])
    BY <1>3, <1>4, <1>6, <1>7, <2>2, Recount
  <2> QED
    BY <1>1, <1>9, <2>3 DEF n
<1> QED
  BY <1>8, <1>9

LEMMA StopInv ==
  ASSUME NEW s, Inv(s), NEW hint \in Counted
  PROVE  Inv(Stop(s, hint))
<1>1. /\ s.count[hint] \in Nat /\ (s.count[hint] > 0 <=> s.h[hint] # None)
      /\ s \in HalType /\ LockInv(s) /\ ProfileInv(s) /\ DisplayInv(s)
      /\ s.h \in [Handles -> Locks \cup {None}] /\ s.held \subseteq Locks
      /\ s.count \in [Counted -> Nat]
  BY InvType DEF Inv, FlagInv
<1>2. /\ \A other \in Counted : s.count[other] > 0 <=> s.h[other] # None
      /\ s.launch_mode <=> s.h["launch"] # None
      /\ s.h["mode"] # None => /\ s.mode # NORMAL_MODE
                               /\ s.h["mode"][1] = get_perfd_hint_id(s.mode)
  BY DEF Inv, FlagInv
<1>3. CASE s.h[hint] = None
  <2>1. Stop(s, hint) = s
    BY <1>3 DEF Stop
  <2> QED
    BY <2>1
<1>4. CASE s.h[hint] # None /\ s.count[hint] > 1
  <2> DEFINE n == s.count[hint] - 1
  <2>1. n \in Nat /\ (n > 0 <=> s.h[hint] # None)
    BY <1>1, <1>4
  <2>2. Stop(s, hint) = [s EXCEPT !.count[hint] = n]
    BY <1>1, <1>4 DEF Stop
  <2> HIDE DEF n
  <2>3. Inv([s EXCEPT !.count[hint] = n])
    BY <1>1, <1>2, <2>1, Recount
  <2> QED
    BY <1>4, <2>2, <2>3
<1>5. CASE s.h[hint] # None /\ s.count[hint] <= 1
  <2> DEFINE u == release_request(s, s.h[hint])
             t == [u EXCEPT !.h[hint] = None]
             n == 0
             r == [t EXCEPT !.count[hint] = n]
  <2>1. Stop(s, hint) = r
    BY <1>1, <1>5 DEF Stop
  <2>2. u \in HalType /\ Same(s, u) /\ u.h = s.h /\ u.list = s.list
    <3>1. CASE "rel" \in lib
      <4>1. u = [s EXCEPT !.held = s.held \ {s.h[hint]}]
        BY <3>1 DEF release_request
      <4>2. s.held \ {s.h[hint]} \subseteq Locks
        BY <1>1
      <4> HIDE DEF u
      <4> QED
        BY <1>1, <4>1, <4>2, SetHeld
    <3>2. CASE "rel" \notin lib
      BY <1>1, <3>2 DEF release_request, Same
    <3> QED
      BY <3>1, <3>2
  <2>3. u.held = release_request(s, s.h[hint]).held
    OBVIOUS
  <2> HIDE DEF u
  <2>4. /\ t \in HalType /\ Same(u, t) /\ t.held = u.held
        /\ t.h = [s.h EXCEPT ![hint] = None] /\ t.list = s.list
    BY <2>2, CountedFacts, SetHandle
  <2> HIDE DEF t
  <2>5. /\ LockInv(t) /\ t.h[hint] = None /\ t.held \subseteq s.held
        /\ \A w \in Handles : w # hint => t.h[w] = s.h[w]
    BY <1>1, <2>3, <2>4, CountedFacts, Drop
  <2>6. /\ t.count = s.count /\ t.launch_mode = s.launch_mode
        /\ t.mode = s.mode /\ t.profile = s.profile
        /\ t.display_hint_sent = s.display_hint_sent
    BY <2>2, <2>4 DEF Same
  <2>7. ProfileInv(t) /\ DisplayInv(t)
    BY <1>1, <2>4, <2>5, <2>6, DisplayKept DEF ProfileInv, DisplayInv
  <2>8. /\ t.h["launch"] = s.h["launch"] /\ t.h["mode"] = s.h["mode"]
        /\ \A other \in Counted : other # hint => t.h[other] = s.h[other]
    BY <2>5, CountedFacts DEF Handles
  <2>9. n \in Nat /\ (n > 0 <=> t.h[hint] # None)
    BY <2>5
  <2> HIDE DEF n
  <2>10. /\ \A other \in Counted : other # hint =>
              (t.count[other] > 0 <=> t.h[other] # None)
         /\ t.launch_mode <=> t.h["launch"] # None
         /\ t.h["mode"] # None => /\ t.mode # NORMAL_MODE
                                  /\ t.h["mode"][1] = get_perfd_hint_id(t.mode)
    BY <1>2, <2>6, <2>8
  <2>11. Inv(r)
    BY <2>4, <2>5, <2>7, <2>9, <2>10, Recount
  <2> QED
    BY <1>5, <2>1, <2>11
<1> QED
  BY <1>1, <1>3, <1>4, <1>5

LEMMA PowerHintInv ==
  ASSUME NEW s, Inv(s), NEW hint \in Hints, NEW data, hint \in Videos => Proper(data),
         NEW out \in Outcomes, NEW common
  PROVE  Inv(power_hint(s, hint, data, out, common))
<1> DEFINE a == power_hint_override(s, hint, data, out)
           r == power_hint(s, hint, data, out, common)
<1>1. Inv(a.hal) /\ a.ret \in {"HINT_HANDLED", "HINT_NONE"}
  BY Overrides DEF Good
<1>2. /\ a.ret = "HINT_HANDLED" \/ hint \notin Counted => r = a.hal
      /\ a.ret = "HINT_NONE" /\ hint \in Counted /\ data # Null
           => r = Start(a.hal, hint, common)
      /\ a.ret = "HINT_NONE" /\ hint \in Counted /\ data = Null
           => r = Stop(a.hal, hint)
  BY DEF power_hint
<1> HIDE DEF a, r
<1>3. Inv(r)
  BY <1>1, <1>2, StartInv, StopInv
<1> QED
  BY <1>3 DEF r

\* The hint that every display call sends is a lock that no invariant is
\* about.
LEMMA SendInv ==
  ASSUME NEW s, Inv(s), NEW on, NEW sent
  PROVE  Inv(SendDisplay(s, on, sent)) /\ Same(s, SendDisplay(s, on, sent))
<1> DEFINE kind == IF on THEN "display_on" ELSE "display_off"
           l == NewLock(s, kind)
           r == SendDisplay(s, on, sent)
<1>1. kind \in SentKinds /\ kind \in Kinds /\ kind \notin KeptKinds /\ kind # "display"
  BY DEF SentKinds, Kinds, KeptKinds
<1>2. r = s \/ r = [s EXCEPT !.held = s.held \cup {l}]
  BY DEF SendDisplay, perf_hint_unkept
<1>3. l \in Locks /\ l[1] = kind
  BY <1>1, InvType, Fresh
<1> HIDE DEF r, l, kind
<1>4. CASE r = s
  BY <1>4 DEF Same, r
<1>5. CASE r = [s EXCEPT !.held = s.held \cup {l}]
  <2>1. s.held \cup {l} \subseteq Locks /\ IsFiniteSet(s.held \cup {l})
    BY <1>3, InvType, FS_AddElement
  <2>2. /\ r \in HalType /\ Same(s, r)
        /\ r.held = s.held \cup {l} /\ r.h = s.h /\ r.list = s.list
    BY <1>5, <2>1, InvType, SetHeld
  <2>3. Typed(r) /\ Owners(r) /\ Live(r)
    BY <2>1, <2>2 DEF Inv, LockInv, Typed, Owners, Live
  <2>4. Kept(r)
    BY <1>1, <1>3, <2>2 DEF Inv, LockInv, Kept
  <2>5. FlagInv(r) /\ ProfileInv(r)
    BY <2>2, SameFlags DEF Inv, ProfileInv, Same
  <2>6. DisplayInv(r)
    BY <1>1, <1>3, <2>2, InvType, DisplayKept DEF Inv, DisplayInv, Same
  <2> QED
    BY <2>2, <2>3, <2>4, <2>5, <2>6 DEF Inv, LockInv, r
<1> QED
  BY <1>2, <1>4, <1>5

LEMMA SetInteractiveInv ==
  ASSUME Inv(hal), missed \in Nat, NEW on \in BOOLEAN, NEW sent,
         NEW out \in Outcomes, NEW io \in BOOLEAN
  PROVE  /\ Missed(on) \in Nat
         /\ InvWith(set_interactive(hal, on, sent, out, io), Missed(on))
<1> DEFINE s == SendDisplay(hal, on, sent)
           t == [s EXCEPT !.display_hint_sent = ~on]
           r == set_interactive_override(t, on, out, io)
           n == Missed(on)
<1>1. Inv(s) /\ Same(hal, s) /\ s \in HalType
  BY SendInv, InvType
<1>2. n \in Nat
  BY DEF Missed
<1>3. set_interactive(hal, on, sent, out, io)
        = IF hal.display_hint_sent /\ ~on THEN s ELSE r
  BY DEF set_interactive
<1>4. n = missed + IF on /\ s.display_hint_sent /\ governor # "interactive"
                   THEN 1 ELSE 0
  BY <1>1 DEF Missed, is_interactive_governor, Same
<1> HIDE DEF s, n
<1>5. CASE s.display_hint_sent /\ ~on
  <2>1. n = missed
    BY <1>4, <1>5
  <2>2. InvWith(s, n)
    BY <1>1, <2>1 DEF Inv, DisplayInv, InvWith
  <2> QED
    BY <1>1, <1>2, <1>3, <1>5, <2>2 DEF n, Same
<1>6. CASE ~(s.display_hint_sent /\ ~on)
  <2>1. /\ t \in HalType /\ t.held = s.held /\ t.h = s.h /\ t.list = s.list
        /\ t.count = s.count /\ t.launch_mode = s.launch_mode
        /\ t.mode = s.mode /\ t.profile = s.profile
        /\ t.display_hint_sent = ~on
    BY <1>1 DEF HalType
  <2> HIDE DEF t
  <2>2. LockInv(t)
    BY <1>1, <2>1, SameLocks DEF Inv
  <2>3. FlagInv(t) /\ ProfileInv(t)
    BY <1>1, <2>1 DEF Inv, FlagInv, ProfileInv
  <2>4. DisplayLocks(t) = DisplayLocks(s)
    BY <2>1 DEF DisplayLocks
  <2>5. Cardinality(DisplayLocks(s)) \in Nat /\ s.display_hint_sent \in BOOLEAN
    BY <1>1, InvType, DisplayFinite DEF HalType
  <2>6. Ready(t, on, n)
    BY <1>1, <1>2, <1>4, <1>6, <2>1, <2>2, <2>3, <2>4, <2>5
       DEF Ready, Inv, DisplayInv, DisplayWith
  <2>7. InvWith(r, n)
    BY <2>6, Displays
  <2> QED
    BY <1>1, <1>2, <1>3, <1>6, <2>7 DEF n, Same
<1> QED
  BY <1>5, <1>6

-----------------------------------------------------------------------------
(* Invariance.                                                             *)

LEMMA OutcomeFacts ==
  \A hint \in Hints : OutcomesOf(hint) \subseteq Outcomes
  BY DEF OutcomesOf

\* The invariant of the state after a step is what the lemmas say of it.
LEMMA Transfer ==
  ASSUME NEW r, NEW n, InvWith(r, n), hal' = r, missed' = n, UNCHANGED config
  PROVE  Inv(hal)'
<1>1. lib' = lib /\ soc' = soc /\ foreign' = foreign
  BY DEF config
<1>2. KeptKinds' = KeptKinds
  BY <1>1 DEF KeptKinds
<1>3. LockInv(hal)'
  BY <1>2 DEF InvWith, LockInv, Typed, Owners, Live, Kept
<1>4. FlagInv(hal)'
  BY DEF InvWith, FlagInv
<1>5. ProfileInv(hal)' /\ DisplayInv(hal)'
  BY <1>1 DEF InvWith, ProfileInv, DisplayInv, DisplayWith, DisplayLocks
<1> QED
  BY <1>3, <1>4, <1>5 DEF Inv

LEMMA StepInv ==
  ASSUME NEW r, NEW n, IInv, n \in Nat, InvWith(r, n), Step(r, n)
  PROVE  IInv'
<1>1. /\ Bounded(r) /\ n <= MaxMissed /\ hal' = r /\ missed' = n
      /\ UNCHANGED <<config, governor>>
  BY DEF Step
<1>2. Inv(hal)'
  BY <1>1, Transfer
<1>3. /\ \A lock \in hal'.held : lock[2] <= MaxLocks
      /\ \A hint \in Counted : hal'.count[hint] <= MaxRef
  BY <1>1 DEF Bounded
<1>4. missed' \in 0..MaxMissed
  BY <1>1, BoundsAssumption
<1> QED
  BY <1>1, <1>2, <1>3, <1>4 DEF IInv

LEMMA CallInv ==
  ASSUME NEW r, IInv, Inv(r), Call(r)
  PROVE  IInv'
<1>1. missed \in Nat /\ InvWith(r, missed)
  BY BoundsAssumption DEF IInv, Inv, InvWith, DisplayInv
<1> QED
  BY <1>1, StepInv DEF Call

LEMMA InitInv == Init => IInv
<1> SUFFICES ASSUME Init PROVE IInv
  OBVIOUS
<1> DEFINE initial == IF soc \in {"8974", "8084"} THEN {<<"initial", 1>>} ELSE {}
<1>1. /\ hal.held = initial /\ hal.h = [v \in Handles |-> None]
      /\ hal.count = [hint \in Counted |-> 0] /\ hal.list = <<>>
      /\ hal.display_hint_sent = FALSE /\ hal.profile = "balanced"
      /\ hal.mode = NORMAL_MODE /\ hal.launch_mode = FALSE /\ missed = 0
  BY DEF Init, power_init
<1>2. initial \subseteq Locks /\ IsFiniteSet(initial)
  <2>1. <<"initial", 1>> \in Locks
    BY DEF Locks, Kinds
  <2>2. IsFiniteSet({}) /\ IsFiniteSet({<<"initial", 1>>})
    BY FS_EmptySet, FS_Singleton, Zenon
  <2> QED
    BY <2>1, <2>2
<1>3. \A lock \in initial : lock[1] = "initial" /\ lock[2] = 1
  OBVIOUS
<1>4. hal \in HalType
  <2>1. [v \in Handles |-> None] \in [Handles -> Locks \cup {None}]
    OBVIOUS
  <2>2. [hint \in Counted |-> 0] \in [Counted -> Nat]
    OBVIOUS
  <2>3. <<>> \in Seq(Entry)
    OBVIOUS
  <2>4. NORMAL_MODE \in SUBSET Modes
    BY DEF NORMAL_MODE
  <2>5. hal = power_init
    BY DEF Init
  <2> QED
    BY <1>2, <2>1, <2>2, <2>3, <2>4, <2>5 DEF power_init, HalType
<1> HIDE DEF initial
<1>5. LocksIn(hal.list) = {} /\ \A id : ~Some(hal.list, id)
  BY <1>1 DEF LocksIn, Some
<1>6. Distinct(hal.list) /\ \A id : AtMostOne(hal.list, id)
  BY <1>1 DEF Distinct, AtMostOne
<1>7. \A v \in Handles : hal.h[v] = None
  BY <1>1
<1>8. LockInv(hal)
  <2>1. Typed(hal)
    BY <1>1, <1>2, <1>4, <1>7 DEF Typed
  <2>2. Owners(hal) /\ Live(hal)
    BY <1>5, <1>6, <1>7, KindFacts DEF Owners, Live
  <2>3. Kept(hal)
    BY <1>1, <1>3 DEF Kept, KeptKinds
  <2> QED
    BY <2>1, <2>2, <2>3 DEF LockInv
<1>9. FlagInv(hal)
  <2>1. \A hint \in Counted : hal.count[hint] = 0 /\ hal.h[hint] = None
    BY <1>1, <1>7, CountedFacts
  <2>2. hal.h["launch"] = None /\ hal.h["mode"] = None
    BY <1>7 DEF Handles
  <2> QED
    BY <1>1, <2>1, <2>2 DEF FlagInv
<1>10. ProfileInv(hal)
  BY <1>1, <1>5, <1>6 DEF ProfileInv
<1>11. DisplayInv(hal)
  <2>1. DisplayLocks(hal) = {}
    BY <1>1, <1>3 DEF DisplayLocks
  <2> QED
    BY <1>1, <2>1, FS_EmptySet DEF DisplayInv, DisplayWith
<1>12. /\ \A lock \in hal.held : lock[2] <= MaxLocks
       /\ \A hint \in Counted : hal.count[hint] <= MaxRef
  <2>1. 1 <= MaxLocks /\ 0 <= MaxRef
    BY BoundsAssumption
  <2> QED
    BY <1>1, <1>3, <2>1
<1>13. governor \in Governors /\ missed \in 0..MaxMissed
  BY <1>1, BoundsAssumption DEF Init, Governors
<1> QED
  BY <1>8, <1>9, <1>10, <1>11, <1>12, <1>13 DEF IInv, Inv

LEMMA InteractiveStep ==
  ASSUME IInv, NEW on \in BOOLEAN, SetInteractive(on)
  PROVE  IInv'
<1>1. PICK sent \in Outcomes \ {"nomem"}, out \in Outcomes, io \in BOOLEAN :
        Step(set_interactive(hal, on, sent, out, io), Missed(on))
  BY DEF SetInteractive
<1>2. Inv(hal) /\ missed \in Nat
  BY BoundsAssumption DEF IInv
<1>3. /\ Missed(on) \in Nat
      /\ InvWith(set_interactive(hal, on, sent, out, io), Missed(on))
  BY <1>2, SetInteractiveInv
<1> QED
  BY <1>1, <1>3, StepInv

LEMMA HintStep ==
  ASSUME IInv, NEW hint \in Hints, NEW data, hint \in Videos => Proper(data),
         NEW out \in OutcomesOf(hint), NEW common,
         Call(power_hint(hal, hint, data, out, common))
  PROVE  IInv'
<1>1. Inv(hal) /\ out \in Outcomes
  BY OutcomeFacts DEF IInv
<1>2. Inv(power_hint(hal, hint, data, out, common))
  BY <1>1, PowerHintInv
<1> QED
  BY <1>2, CallInv

LEMMA ServiceStep == IInv /\ Service => IInv'
<1> SUFFICES ASSUME IInv, Service PROVE IInv'
  OBVIOUS
<1>1. /\ {"SUSTAINED_PERFORMANCE", "LAUNCH", "INTERACTION"} \subseteq Hints
      /\ {"SUSTAINED_PERFORMANCE", "LAUNCH", "INTERACTION"} \cap Videos = {}
  BY DEF Hints, Videos
<1>2. ASSUME NEW enabled \in BOOLEAN, SetSustained(enabled) PROVE IInv'
  BY <1>1, <1>2, HintStep DEF SetSustained
<1>3. ASSUME NEW enabled \in BOOLEAN, SetLaunch(enabled) PROVE IInv'
  BY <1>1, <1>3, HintStep DEF SetLaunch
<1>4. ASSUME NEW ms \in Durations, SetBoost(ms) PROVE IInv'
  BY <1>1, <1>4, HintStep DEF SetBoost
<1> QED
  BY <1>2, <1>3, <1>4, InteractiveStep DEF Service

LEMMA ProperData ==
  ASSUME NEW hint \in Videos, NEW data \in DataOf(hint)
  PROVE  Proper(data)
<1>1. GroupOf(hint) = "video" /\ hint # "INTERACTION"
  BY DEF Videos, GroupOf
<1>2. DataOf(hint) = {Null} \cup
        {<<text>> : text \in {t \in Texts : foreign => ForeignText(t)}}
  BY <1>1 DEF DataOf
<1>3. data = Null \/ \E text \in {t \in Texts : foreign => ForeignText(t)} :
                       data = <<text>>
  BY <1>2
<1> QED
  BY <1>3 DEF Proper

LEMMA LibraryStep == IInv /\ Library => IInv'
<1> SUFFICES ASSUME IInv, Library PROVE IInv'
  OBVIOUS
<1>1. ASSUME Hint PROVE IInv'
  <2>1. PICK hint \in Hints : \E data \in DataOf(hint), out, common \in OutcomesOf(hint) :
          Call(power_hint(hal, hint, data, out, common))
    BY <1>1 DEF Hint
  <2>2. PICK data \in DataOf(hint), out, common \in OutcomesOf(hint) :
          Call(power_hint(hal, hint, data, out, common))
    BY <2>1
  <2>3. hint \in Videos => Proper(data)
    BY ProperData
  <2> QED
    BY <2>2, <2>3, HintStep
<1>2. ASSUME SetProfile PROVE IInv'
  <2>1. PICK profile \in Profiles, out \in Outcomes :
          Call(set_power_profile(hal, profile, out))
    BY <1>2 DEF SetProfile
  <2>2. Inv(set_power_profile(hal, profile, out))
    BY ProfilesInv DEF IInv
  <2> QED
    BY <2>1, <2>2, CallInv
<1>3. ASSUME Interactive PROVE IInv'
  BY <1>3, InteractiveStep DEF Interactive
<1> QED
  BY <1>1, <1>2, <1>3 DEF Library

LEMMA ExpireStep == IInv /\ Expire => IInv'
<1> SUFFICES ASSUME IInv, Expire PROVE IInv'
  OBVIOUS
<1>1. PICK lock \in hal.held :
        /\ lock[1] \in TimedKinds
        /\ hal' = [hal EXCEPT !.held = @ \ {lock}]
        /\ UNCHANGED <<config, governor, missed>>
  BY DEF Expire
<1> DEFINE r == [hal EXCEPT !.held = hal.held \ {lock}]
<1>2. /\ Inv(hal) /\ LockInv(hal) /\ hal \in HalType /\ hal.held \subseteq Locks
      /\ LocksIn(hal.list) \subseteq hal.held
      /\ \A v \in Firm : hal.h[v] # None => hal.h[v] \in hal.held
  BY InvType DEF IInv, Inv, LockInv, Live
<1>3. hal' = r
  BY <1>1, <1>2 DEF HalType
<1>4. /\ r \in HalType /\ Same(hal, r)
      /\ r.held = hal.held \ {lock} /\ r.h = hal.h /\ r.list = hal.list
  BY <1>2, SetHeld
<1> HIDE DEF r
<1>5. lock \notin LocksIn(hal.list)
  BY <1>1, <1>2, ListKinds DEF HintIds, Numerals, TimedKinds
<1>6. \A v \in Firm : hal.h[v] # None => hal.h[v] # lock
  BY <1>1, <1>2, HandleKinds DEF TimedKinds
<1>7. LockInv(r)
  BY <1>2, <1>4, <1>5, <1>6, Fewer
<1>8. FlagInv(r)
  BY <1>2, <1>4, SameFlags DEF Inv
<1>9. ProfileInv(r) /\ DisplayInv(r)
  BY <1>2, <1>4, DisplayKept DEF Inv, ProfileInv, DisplayInv, Same
<1>10. InvWith(r, missed)
  BY <1>7, <1>8, <1>9 DEF InvWith, DisplayInv
<1>11. Inv(hal)'
  BY <1>1, <1>3, <1>10, Transfer
<1>12. /\ \A l \in hal'.held : l[2] <= MaxLocks
       /\ \A hint \in Counted : hal'.count[hint] <= MaxRef
  BY <1>3, <1>4 DEF IInv, Same
<1> QED
  BY <1>1, <1>11, <1>12 DEF IInv

LEMMA ElapseStep == IInv /\ Elapse => IInv'
<1> SUFFICES ASSUME IInv, Elapse PROVE IInv'
  OBVIOUS
<1> DEFINE r == [hal EXCEPT !.recent = FALSE]
<1>1. hal' = r /\ UNCHANGED <<config, governor, missed>>
  BY DEF Elapse
<1>2. Inv(hal) /\ hal \in HalType
  BY InvType DEF IInv
<1>3. /\ r \in HalType /\ r.held = hal.held /\ r.h = hal.h /\ r.list = hal.list
      /\ r.count = hal.count /\ r.launch_mode = hal.launch_mode
      /\ r.mode = hal.mode /\ r.profile = hal.profile
      /\ r.display_hint_sent = hal.display_hint_sent
  BY <1>2 DEF HalType
<1> HIDE DEF r
<1>4. Inv(r)
  BY <1>2, <1>3, SetFlag
<1>5. InvWith(r, missed)
  BY <1>4 DEF Inv, InvWith, DisplayInv
<1>6. Inv(hal)'
  BY <1>1, <1>4, <1>5, Transfer
<1>7. /\ \A l \in hal'.held : l[2] <= MaxLocks
      /\ \A hint \in Counted : hal'.count[hint] <= MaxRef
  BY <1>1, <1>3 DEF IInv
<1> QED
  BY <1>1, <1>6, <1>7 DEF IInv

LEMMA StutterInv ==
  ASSUME Inv(hal), hal' = hal, missed' = missed, UNCHANGED config
  PROVE  Inv(hal)'
<1>1. InvWith(hal, missed)
  BY DEF Inv, InvWith, DisplayInv
<1> QED
  BY <1>1, Transfer

LEMMA GovernorStep == IInv /\ ChangeGovernor => IInv'
  BY StutterInv DEF ChangeGovernor, IInv

LEMMA UnchangedStep == IInv /\ UNCHANGED vars => IInv'
  BY StutterInv DEF vars, IInv

\* The invariant is inductive: every call of the framework or of a board's
\* additions, every expiry and every change of the governor keeps it.
THEOREM Invariance == Spec => []IInv
<1>1. IInv /\ [Next]_vars => IInv'
  BY ServiceStep, LibraryStep, ExpireStep, ElapseStep, GovernorStep,
     UnchangedStep DEF Next
<1> QED
  BY InitInv, <1>1, PTL DEF Spec

-----------------------------------------------------------------------------
(* The properties.                                                         *)

\* TypeOK: every handle, count and entry is one that the library and the
\* calls can have caused.
THEOREM TypeCorrect == Spec => []TypeOK
<1>1. IInv => TypeOK
  <2> SUFFICES ASSUME IInv PROVE TypeOK
    OBVIOUS
  <2>1. /\ hal \in HalType /\ governor \in Governors /\ missed \in 0..MaxMissed
        /\ \A lock \in hal.held : lock[2] <= MaxLocks
        /\ \A hint \in Counted : hal.count[hint] <= MaxRef
    BY InvType DEF IInv
  <2>2. /\ hal.held \subseteq Locks /\ hal.h \in [Handles -> Locks \cup {None}]
        /\ hal.mode \subseteq Modes /\ hal.profile \in {"balanced"} \cup FiveProfiles
        /\ hal.count \in [Counted -> Nat] /\ hal.list \in Seq(Entry)
    BY <2>1, HalFields
  <2>3. hal.count \in [Counted -> 0..MaxRef]
    BY <2>1, <2>2, BoundsAssumption
  <2>4. ASSUME NEW i \in DOMAIN hal.list
        PROVE  hal.list[i].hint_id \in HintIds /\ hal.list[i].lock \in Locks
    <3>1. hal.list[i] \in Entry
      BY <2>2
    <3> QED
      BY <3>1 DEF Entry
  <2>5. \A v \in {"display_hint_sent", "encode_sent", "launch_mode", "recent",
                  "first_off", "node_open"} : hal[v] \in BOOLEAN
    BY <2>1 DEF HalType
  <2> QED
    BY <2>1, <2>2, <2>3, <2>4, <2>5 DEF TypeOK
<1> QED
  BY Invariance, <1>1, PTL

LEMMA CountDistinct ==
  ASSUME NEW list \in Seq(Entry), Distinct(list)
  PROVE  Cardinality(LocksIn(list)) = Len(list)
<1> DEFINE n == Len(list)
           f == [i \in 1..n |-> list[i].lock]
<1>1. n \in Nat /\ DOMAIN list = 1..n
  OBVIOUS
<1>2. f \in Bijection(1..n, LocksIn(list))
  <2>1. f \in [1..n -> LocksIn(list)]
    BY <1>1 DEF LocksIn
  <2>2. \A i, j \in 1..n : f[i] = f[j] => i = j
    BY <1>1 DEF Distinct
  <2>3. \A l \in LocksIn(list) : \E i \in 1..n : f[i] = l
    BY <1>1 DEF LocksIn
  <2> HIDE DEF f
  <2>4. DOMAIN f = 1..n
    BY <2>1
  <2> QED
    BY <2>1, <2>2, <2>3, <2>4 DEF Bijection, Injection, Surjection, IsInjective
<1> HIDE DEF f, n
<1>3. ExistsBijection(1..n, LocksIn(list))
  BY <1>2 DEF ExistsBijection
<1> QED
  BY <1>1, <1>3, FS_CountingElements DEF n

\* NoStaleHandle: a lock that the HAL will release is held until then, and
\* by one owner only.
THEOREM StaleTheorem == Spec => []NoStaleHandle
<1>1. IInv => NoStaleHandle
  <2> SUFFICES ASSUME IInv PROVE NoStaleHandle
    OBVIOUS
  <2>1. Inv(hal) /\ LockInv(hal) /\ hal.list \in Seq(Entry)
    BY InvType DEF IInv
  <2>2. ListedLocks = LocksIn(hal.list)
    BY DEF ListedLocks, LocksIn
  <2>3. \A hint \in Counted : /\ hal.count[hint] > 0 <=> hal.h[hint] # None
                              /\ hal.h[hint] \notin ListedLocks
    BY <2>1, <2>2, CountedFacts DEF Inv, FlagInv, LockInv, Owners
  <2>4. \A v \in Counted \cup {"mode"} : hal.h[v] # None => hal.h[v] \in hal.held
    BY <2>1 DEF LockInv, Live, Firm
  <2>5. hal.h["mode"] \notin {hal.h["SUSTAINED_PERFORMANCE"]} \ {None}
    BY <2>1 DEF LockInv, Owners, Handles, Counted
  <2>6. ListedLocks \subseteq hal.held
    BY <2>1, <2>2 DEF LockInv, Live
  <2>7. Cardinality(ListedLocks) = Len(hal.list)
    BY <2>1, <2>2, CountDistinct DEF LockInv, Owners
  <2> QED
    BY <2>3, <2>4, <2>5, <2>6, <2>7 DEF NoStaleHandle
<1> QED
  BY Invariance, <1>1, PTL

\* Which handle a lock can be in.
LEMMA WhichHandle ==
  ASSUME NEW s, LockInv(s), NEW v \in Handles, s.h[v] # None
  PROVE  /\ s.h[v][1] = "scroll" => v = "interaction"
         /\ s.h[v][1] = "launch" => v = "launch"
         /\ s.h[v][1] \in {"sustained", "vr", "vr_sustained"}
              => v \in {"mode", "SUSTAINED_PERFORMANCE"}
         /\ s.h[v][1] \notin TimedKinds => v \in Counted \cup {"mode", "encode"}
<1>1. s.h[v][1] \in KindsOf(v)
  BY DEF LockInv, Typed
<1>2. CASE v \in Counted
  BY <1>1, <1>2 DEF KindsOf, KindOf, Counted
<1>3. CASE v \in {"mode", "encode"}
  BY <1>1, <1>3 DEF KindsOf, Counted
<1>4. CASE v \in {"interaction", "launch", "lock_handle"}
  BY <1>1, <1>4 DEF KindsOf, Counted, TimedKinds
<1> QED
  BY <1>2, <1>3, <1>4 DEF Handles

\* NoOrphan: with the whole library no lock without a duration is forgotten,
\* but the hints that set_interactive() sends and, where encoding has its own
\* handle, the first of two starts.
THEOREM OrphanTheorem == Spec => []NoOrphan
<1>1. IInv => NoOrphan
  <2> SUFFICES ASSUME IInv, FullLibrary, NEW lock \in hal.held,
                      lock[1] \notin TimedKinds \cup SentKinds \cup {"initial"},
                      ~(soc \in {"845", "8998"} /\ lock[1] = "encode"),
                      lock \notin ListedLocks
               PROVE  \E v \in Counted \cup {"mode", "encode"} : lock = hal.h[v]
    BY DEF NoOrphan
  <2>1. LockInv(hal) /\ hal.held \subseteq Locks
    BY InvType DEF IInv
  <2>2. lock \notin LocksIn(hal.list)
    BY DEF ListedLocks, LocksIn
  <2>3. lock[1] \in Kinds /\ lock # None
    BY <2>1, NoneIsNoLock DEF Locks
  <2>4. lock[1] \in KeptKinds
    BY <2>3 DEF KeptKinds, FullLibrary, Functions, TimedKinds
  <2>5. PICK v \in Handles : lock = hal.h[v]
    BY <2>1, <2>2, <2>4 DEF LockInv, Kept
  <2>6. v \in Counted \cup {"mode", "encode"}
    BY <2>1, <2>3, <2>5, WhichHandle
  <2> QED
    BY <2>5, <2>6
<1> QED
  BY Invariance, <1>1, PTL

LEMMA CountEntries ==
  ASSUME NEW list \in Seq(Entry), NEW id, AtMostOne(list, id)
  PROVE  LET I == {i \in DOMAIN list : list[i].hint_id = id} IN
         Cardinality(I) = IF Some(list, id) THEN 1 ELSE 0
<1> DEFINE I == {i \in DOMAIN list : list[i].hint_id = id}
<1>1. CASE ~Some(list, id)
  <2>1. I = {}
    BY <1>1 DEF Some
  <2> QED
    BY <1>1, <2>1, FS_EmptySet
<1>2. CASE Some(list, id)
  <2>1. PICK i \in DOMAIN list : list[i].hint_id = id
    BY <1>2 DEF Some
  <2>2. I = {i}
    BY <2>1 DEF AtMostOne
  <2> QED
    BY <1>2, <2>2, FS_Singleton
<1> QED
  BY <1>1, <1>2

\* ProfileBacked: one lock for any profile but the balanced one, unless
\* metadata names its identity.
THEOREM ProfileTheorem == Spec => []ProfileBacked
<1>1. IInv => ProfileBacked
  <2> SUFFICES ASSUME IInv, foreign, {"acq", "rel"} \subseteq lib
               PROVE  Cardinality(Entries("profile"))
                        = IF hal.profile = "balanced" THEN 0 ELSE 1
    BY DEF ProfileBacked
  <2>1. /\ hal.list \in Seq(Entry) /\ AtMostOne(hal.list, "profile")
        /\ Some(hal.list, "profile") <=> hal.profile # "balanced"
    BY InvType DEF IInv, Inv, ProfileInv
  <2>2. Cardinality(Entries("profile")) = IF Some(hal.list, "profile") THEN 1 ELSE 0
    BY <2>1, CountEntries DEF Entries
  <2> QED
    BY <2>1, <2>2
<1> QED
  BY Invariance, <1>1, PTL

\* ModeBacked: the perf mode's lock is the one of the modes that are on, and
\* no other mode's lock is held.
THEOREM ModeTheorem == Spec => []ModeBacked
<1>1. IInv => ModeBacked
  <2> SUFFICES ASSUME IInv, "rel" \in lib
               PROVE  /\ hal.h["mode"] # None =>
                           /\ hal.mode # NORMAL_MODE
                           /\ hal.h["mode"][1] = get_perfd_hint_id(hal.mode)
                      /\ HeldOf({"sustained", "vr", "vr_sustained"})
                           \subseteq {hal.h["mode"], hal.h["SUSTAINED_PERFORMANCE"]}
    BY DEF ModeBacked
  <2>1. Inv(hal) /\ LockInv(hal) /\ hal.held \subseteq Locks
    BY InvType DEF IInv
  <2>2. ASSUME NEW lock \in HeldOf({"sustained", "vr", "vr_sustained"})
        PROVE  lock \in {hal.h["mode"], hal.h["SUSTAINED_PERFORMANCE"]}
    <3>1. /\ lock \in hal.held /\ lock \in Locks /\ lock # None
          /\ lock[1] \in {"sustained", "vr", "vr_sustained"}
      BY <2>1, <2>2, NoneIsNoLock DEF HeldOf
    <3>2. lock[1] \in KeptKinds
      BY <3>1 DEF KeptKinds, Kinds, SentKinds
    <3>3. lock \notin LocksIn(hal.list)
      BY <2>1, <3>1, ListKinds DEF HintIds, Numerals
    <3>4. PICK v \in Handles : lock = hal.h[v]
      BY <2>1, <3>1, <3>2, <3>3 DEF LockInv, Kept
    <3> QED
      BY <2>1, <3>1, <3>4, WhichHandle
  <2> QED
    BY <2>1, <2>2 DEF Inv, FlagInv
<1> QED
  BY Invariance, <1>1, PTL

LEMMA AtMostOneElement ==
  ASSUME NEW S, NEW x, \A y \in S : y = x
  PROVE  Cardinality(S) <= 1
<1>1. CASE S = {}
  BY <1>1, FS_EmptySet
<1>2. CASE S # {}
  <2>1. S = {x}
    BY <1>2
  <2> QED
    BY <2>1, FS_Singleton
<1> QED
  BY <1>1, <1>2

\* BoostsSingle: boosts do not pile up, and a launch that is going on can be
\* ended.
THEOREM BoostTheorem == Spec => []BoostsSingle
<1>1. IInv => BoostsSingle
  <2> SUFFICES ASSUME IInv PROVE BoostsSingle
    OBVIOUS
  <2>1. Inv(hal) /\ LockInv(hal) /\ hal.held \subseteq Locks
    BY InvType DEF IInv
  <2>2. ASSUME "rel" \in lib, NEW kind \in {"scroll", "launch"}
        PROVE  Cardinality(HeldOf({kind})) <= 1
    <3> DEFINE v == IF kind = "scroll" THEN "interaction" ELSE "launch"
    <3>1. ASSUME NEW lock \in HeldOf({kind}) PROVE lock = hal.h[v]
      <4>1. /\ lock \in hal.held /\ lock[1] = kind /\ lock # None
        BY <2>1, <3>1, NoneIsNoLock DEF HeldOf
      <4>2. lock[1] \in KeptKinds
        BY <2>2, <4>1 DEF KeptKinds, Kinds, TimedKinds, SentKinds
      <4>3. lock \notin LocksIn(hal.list)
        BY <2>1, <2>2, <4>1, ListKinds DEF HintIds, Numerals
      <4>4. PICK w \in Handles : lock = hal.h[w]
        BY <2>1, <4>1, <4>2, <4>3 DEF LockInv, Kept
      <4> QED
        BY <2>1, <2>2, <4>1, <4>4, WhichHandle
    <3> QED
      BY <3>1, AtMostOneElement
  <2> QED
    BY <2>1, <2>2 DEF BoostsSingle, Inv, FlagInv
<1> QED
  BY Invariance, <1>1, PTL

\* DisplayLockOnce: the lock of the display being off is held once, and not
\* while it is on, but for what a display-on under another governor leaves.
THEOREM DisplayTheorem == Spec => []DisplayLockOnce
<1>1. IInv => DisplayLockOnce
  <2>1. HeldOf({"display"}) = DisplayLocks(hal)
    BY DEF HeldOf, DisplayLocks
  <2> QED
    BY <2>1 DEF IInv, Inv, DisplayInv, DisplayWith, DisplayLockOnce
<1> QED
  BY Invariance, <1>1, PTL
=============================================================================
