--------------------------- MODULE GptDisk_proofs ---------------------------
(***************************************************************************)
(* Proofs about GptDisk, for every number of blocks, every content of the  *)
(* blocks and any number of commits that break the rules.  The inductive   *)
(* invariant says where a commit is (Progress), why a table stays valid    *)
(* (Safe) and what a fresh handle knows (Fresh).                           *)
(***************************************************************************)
EXTENDS GptDisk, TLAPS

Idle == pc \in {"none", "idle"}
Committing == pc \in {"hdr", "arr"}

\* Table t of the disk is table t of w.
Stored(t, w) == hdr[t] = w[t].h /\ arr[t] = w[t].a

IntactPrim == hdr["prim"].state = "BAD_SIGNATURE" => hdr["prim"].acrc = arr["prim"]

\* Where a commit is: what it has stored, and what it has not touched.
Progress ==
  /\ Idle => \E t \in Tables : Stored(t, before) \/ Stored(t, want)
  /\ rc = 0 => Idle /\ \A t \in Tables : Stored(t, want)
  /\ Committing =>
       /\ init
       /\ \A t \in Tables : want[t].h = dhdr[t] /\ want[t].a = darr[t]
       /\ tab = "prim" => Stored("sec", before)
       /\ tab = "sec" => Stored("prim", want)
  /\ pc = "hdr" => blk = 1
  /\ pc = "arr" => /\ hdr[tab] = dhdr[tab]
                   /\ \A i \in 1..(blk - 1) : arr[tab][i] = darr[tab][i]

\* While every commit kept to MaySafely, one table is valid, and a primary
\* table whose signature is destroyed is valid but for that.
Safe ==
  careless = 0 =>
    /\ \E t \in Tables : Valid(hdr[t], arr[t])
    /\ IntactPrim
    /\ Committing =>
         /\ \A t \in Tables : /\ dhdr[t] # NULL /\ darr[t] # NULL
                              /\ Valid(dhdr[t], darr[t])
         /\ tab = "prim" => \/ Valid(hdr["sec"], arr["sec"])
                            \/ Stored("prim", want)

\* A fresh handle tells the stage of the update as the disk does.
Fresh ==
  fresh => \A t \in Tables :
             /\ dhdr[t] # NULL
             /\ (dhdr[t].state = "BAD_SIGNATURE")
                  <=> (hdr[t].state = "BAD_SIGNATURE")

IInv == TypeOK /\ Progress /\ Safe /\ Fresh

-----------------------------------------------------------------------------
(* Types.                                                                  *)

\* The steps of the program keep the types of the state.
LEMMA TypeStep == TypeOK /\ [Next]_vars => TypeOK'
<1> SUFFICES ASSUME TypeOK, [Next]_vars PROVE TypeOK'
  OBVIOUS
<1> USE BAssumption, MaxCarelessAssumption DEF TypeOK
<1>1. OnDisk \in [Tables -> Table]
  BY DEF OnDisk, Table
<1>2. InHandle \in [Tables -> Table]
  BY DEF InHandle, Table
<1>3. CASE Alloc
  BY <1>1, <1>3 DEF Alloc, LaterCall, disk, handle
<1>4. CASE Gone
  <2>1. 1 \in 1..B
    OBVIOUS
  <2> QED BY <1>4, <2>1 DEF Gone, disk, Tables
<1>5. CASE GetDiskInfo
  <2> PICK stop \in 1..AllRead :
        /\ dhdr' = [t \in Tables |-> Got(Position.hdr[t], stop, hdr[t], dhdr[t])]
        /\ darr' = [t \in Tables |-> Got(Position.arr[t], stop, arr[t], darr[t])]
        /\ init' = (init \/ stop = AllRead)
        /\ fresh' = (stop = AllRead)
    BY <1>5 DEF GetDiskInfo
  <2>1. dhdr' \in [Tables -> Header \cup {NULL}]
    BY DEF Got
  <2>2. darr' \in [Tables -> Array \cup {NULL}]
    BY DEF Got
  <2> QED BY <1>1, <1>5, <2>1, <2>2 DEF GetDiskInfo, LaterCall, disk
<1>6. CASE UpdateCrc
  <2>1. ASSUME NEW t \in Tables PROVE HeaderFor(dhdr[t], darr[t]) \in Header
    BY <1>6, <2>1 DEF UpdateCrc, HeaderFor, Header, States
  <2>2. dhdr' \in [Tables -> Header \cup {NULL}]
    BY <1>6, <2>1 DEF UpdateCrc
  <2> QED BY <1>1, <1>6, <2>2 DEF UpdateCrc, LaterCall, disk
<1>7. CASE Commit
  <2>1. 1 \in 1..B /\ careless' \in 0..MaxCareless
    BY <1>7 DEF Commit
  <2> QED BY <1>1, <1>2, <1>7, <2>1 DEF Commit, disk, handle, Tables
<1>8. CASE WriteHeader
  <2>1. hdr' \in [Tables -> Header]
    BY <1>8 DEF WriteHeader
  <2> QED BY <1>8, <2>1 DEF WriteHeader, handle, commit
<1>9. CASE WriteBlock
  <2>1. darr[tab][blk] \in Vals
    BY <1>9 DEF WriteBlock, Array
  <2>2. arr' \in [Tables -> Array]
    BY <1>9, <2>1 DEF WriteBlock, Array
  <2>3. blk' \in 1..B /\ tab' \in Tables /\ pc' \in {"none", "idle", "hdr", "arr"}
        /\ rc' \in {-1, 0, 1}
    BY <1>9 DEF WriteBlock, AfterBlock, Tables
  <2> QED BY <1>9, <2>2, <2>3 DEF WriteBlock, handle
<1>10. CASE WriteFails
  <2>1. 1 \in 1..B
    OBVIOUS
  <2> QED BY <1>10, <2>1 DEF WriteFails, disk, handle, Tables
<1>11. CASE Client
  <2> PICK t \in Tables, i \in 1..B, v \in Vals : EditEntry(t, i, v)
    BY <1>11 DEF Client
  <2>1. [darr[t] EXCEPT ![i] = v] \in Array
    BY DEF EditEntry, Array
  <2>2. darr' \in [Tables -> Array \cup {NULL}]
    BY <2>1 DEF EditEntry
  <2> QED BY <1>1, <2>2 DEF EditEntry, LaterCall, disk
<1>12. CASE Update
  <2>1. Swapped(arr["prim"]) \in Array
    BY TwinAssumption DEF Swapped, Array, Tables
  <2>2. arr' \in [Tables -> Array]
    BY <1>12, <2>1 DEF Update, UpdateMain, UpdateBackup, UpdateFinalize, Tables
  <2>3. hdr' \in [Tables -> Header]
    <3>1. CASE UpdateMain
      <4>1. hdr'["prim"] \in Header /\ hdr'["sec"] \in Header
        BY <2>2, <3>1 DEF UpdateMain, Tables, Header, States
      <4> QED BY <3>1, <4>1 DEF UpdateMain, Tables
    <3>2. CASE UpdateBackup
      <4>1. hdr'["prim"] \in Header /\ hdr'["sec"] \in Header
        BY <3>2 DEF UpdateBackup, Tables, Header, States
      <4> QED BY <3>2, <4>1 DEF UpdateBackup, Tables
    <3>3. CASE UpdateFinalize
      <4>1. hdr'["prim"] \in Header /\ hdr'["sec"] \in Header
        BY <3>3 DEF UpdateFinalize, Tables, Header, States
      <4> QED BY <3>3, <4>1 DEF UpdateFinalize, Tables
    <3> QED BY <1>12, <3>1, <3>2, <3>3 DEF Update
  <2>4. OnDisk' \in [Tables -> Table]
    BY <2>2, <2>3 DEF OnDisk, Table
  <2>5. Updated
    BY <1>12 DEF Update, UpdateMain, UpdateBackup, UpdateFinalize
  <2> QED BY <2>2, <2>3, <2>4, <2>5 DEF Updated, handle
<1>13. CASE UNCHANGED vars
  BY <1>13 DEF vars, disk, handle, commit
<1> QED
  BY <1>3, <1>4, <1>5, <1>6, <1>7, <1>8, <1>9, <1>10, <1>11, <1>12, <1>13
     DEF Next, Program

\* The initial states have the types of the state.
LEMMA TypeInit == Init => TypeOK
<1> SUFFICES ASSUME Init PROVE TypeOK
  OBVIOUS
<1> USE BAssumption, MaxCarelessAssumption
<1> PICK a \in Array, g \in Array, bad \in Tables \cup {"none"}, how \in {"hdr", "arr"} :
      /\ hdr = [t \in Tables |->
                  [state |-> IF t = bad /\ how = "hdr" THEN "BAD_CRC" ELSE "OK",
                   acrc |-> a]]
      /\ arr = [t \in Tables |-> IF t = bad /\ how = "arr" THEN g ELSE a]
  BY DEF Init
<1>1. hdr \in [Tables -> Header]
  BY DEF Header, States
<1>2. arr \in [Tables -> Array]
  OBVIOUS
<1>3. OnDisk \in [Tables -> Table]
  BY <1>1, <1>2 DEF OnDisk, Table
<1>4. dhdr \in [Tables -> Header \cup {NULL}] /\ darr \in [Tables -> Array \cup {NULL}]
  BY DEF Init
<1>5. blk \in 1..B /\ careless \in 0..MaxCareless
  BY DEF Init
<1>6. before \in [Tables -> Table] /\ want \in [Tables -> Table]
  BY <1>3 DEF Init
<1>7. init \in BOOLEAN /\ pc \in {"none", "idle", "hdr", "arr"} /\ tab \in Tables
      /\ rc \in {-1, 0, 1} /\ fresh \in BOOLEAN
  BY DEF Init, Tables
<1> QED BY <1>1, <1>2, <1>4, <1>5, <1>6, <1>7 DEF TypeOK

\* TypeOK for every instance of GptDisk: the block index of a write stays
\* within the array.
THEOREM TypeCorrect == Spec => []TypeOK
<1> QED BY TypeInit, TypeStep, PTL DEF Spec

-----------------------------------------------------------------------------
(* The order of the writes.                                                *)

\* A copy of the disk's tables, or of the handle's, field by field.
LEMMA StoredOnDisk == \A t \in Tables : OnDisk[t].h = hdr[t] /\ OnDisk[t].a = arr[t]
BY DEF OnDisk

LEMMA HeldInHandle == \A t \in Tables : InHandle[t].h = dhdr[t] /\ InHandle[t].a = darr[t]
BY DEF InHandle

\* Right after a call that is no commit, the tables are those on record.
LEMMA LaterStored ==
  ASSUME LaterCall, UNCHANGED disk
  PROVE  \A t \in Tables : Stored(t, before)' /\ Stored(t, want)'
BY StoredOnDisk DEF LaterCall, Stored, disk

\* Every step keeps the order of the writes of a commit.
LEMMA ProgressStep == TypeOK /\ Progress /\ [Next]_vars => Progress'
<1> SUFFICES ASSUME TypeOK, Progress, [Next]_vars PROVE Progress'
  OBVIOUS
<1> USE BAssumption
<1>a. "prim" \in Tables /\ "sec" \in Tables /\ Tables = {"prim", "sec"}
  BY DEF Tables
<1>b. blk \in 1..B /\ tab \in Tables /\ pc \in {"none", "idle", "hdr", "arr"}
  BY DEF TypeOK
<1>c. ASSUME LaterCall, UNCHANGED disk, pc' = "idle" PROVE Progress'
  BY <1>a, <1>c, LaterStored DEF Progress, Idle, Committing, LaterCall
<1>1. CASE Alloc
  BY <1>c, <1>1 DEF Alloc
<1>2. CASE GetDiskInfo
  BY <1>c, <1>2 DEF GetDiskInfo
<1>3. CASE Client
  BY <1>c, <1>3 DEF Client, EditEntry
<1>4. CASE UpdateCrc
  BY <1>c, <1>4 DEF UpdateCrc
<1>5. ASSUME \E t \in Tables : Stored(t, before) \/ Stored(t, want),
             rc' = 0 => rc = 0,
             UNCHANGED <<disk, before, want>>, Idle'
      PROVE  Progress'
  BY <1>5 DEF Progress, Idle, Committing, Stored, disk
<1>6. \E t \in Tables : Stored(t, before) \/ Stored(t, want)
  BY <1>a, <1>b DEF Progress, Idle, Committing
<1>7. CASE Gone
  BY <1>5, <1>6, <1>7 DEF Gone, Idle
<1>8. CASE WriteFails
  BY <1>5, <1>6, <1>8 DEF WriteFails, Idle
<1>9. CASE Commit
  BY <1>9, <1>a, StoredOnDisk, HeldInHandle
     DEF Commit, Progress, Idle, Committing, Stored, disk, handle
<1>10. CASE WriteHeader
  <2>1. pc = "hdr" /\ pc' = "arr" /\ blk = 1 /\ rc # 0
    BY <1>10 DEF WriteHeader, Progress, Idle
  <2>2. hdr'[tab] = dhdr[tab]
    BY <1>10, <1>b DEF WriteHeader, TypeOK
  <2>3. \A t \in Tables : t # tab => hdr'[t] = hdr[t]
    BY <1>10, <1>b DEF WriteHeader, TypeOK
  <2>4. UNCHANGED <<arr, dhdr, darr, init, tab, blk, before, want, rc>>
    BY <1>10 DEF WriteHeader, handle, commit
  <2> QED BY <1>a, <2>1, <2>2, <2>3, <2>4 DEF Progress, Idle, Committing, Stored
<1>11. CASE WriteBlock
  <2>1. pc = "arr" /\ rc # 0 /\ darr[tab] \in Array /\ init
    BY <1>11, <1>b DEF WriteBlock, Progress, Idle, Committing, TypeOK
  <2>2. arr'[tab] = [arr[tab] EXCEPT ![blk] = darr[tab][blk]]
    BY <1>11, <1>b DEF WriteBlock, TypeOK
  <2>3. \A t \in Tables : t # tab => arr'[t] = arr[t]
    BY <1>11, <1>b DEF WriteBlock, TypeOK
  <2>4. UNCHANGED <<hdr, dhdr, darr, init, before, want>>
    BY <1>11 DEF WriteBlock, handle
  <2>5. \A t \in Tables : want[t].h = dhdr[t] /\ want[t].a = darr[t]
    BY <2>1 DEF Progress, Committing
  <2>6. \A i \in 1..blk : arr'[tab][i] = darr[tab][i]
    <3> SUFFICES ASSUME NEW i \in 1..blk PROVE arr'[tab][i] = darr[tab][i]
      OBVIOUS
    <3>1. arr[tab] \in Array
      BY <1>b DEF TypeOK
    <3>2. i \in 1..B /\ (i = blk \/ i \in 1..(blk - 1))
      BY <1>b
    <3> QED BY <2>1, <2>2, <3>1, <3>2 DEF Progress, Array
  <2>7. hdr'[tab] = dhdr[tab]
    BY <2>1, <2>4 DEF Progress
  <2>8. CASE blk < B
    <3>1. blk' = blk + 1 /\ pc' = "arr" /\ tab' = tab /\ rc' = rc
      BY <1>11, <2>1, <2>8, <1>b DEF WriteBlock, AfterBlock
    <3>2. \A i \in 1..(blk' - 1) : arr'[tab][i] = darr[tab][i]
      BY <2>6, <3>1, <1>b
    <3> QED BY <1>a, <2>1, <2>3, <2>4, <2>5, <2>7, <3>1, <3>2
            DEF Progress, Idle, Committing, Stored
  <2>9. CASE blk = B
    <3>1. arr'[tab] = darr[tab]
      <4>1. arr'[tab] \in Array
        BY <1>11, <1>b, TypeStep DEF TypeOK
      <4> QED BY <2>1, <2>6, <2>9, <4>1 DEF Array
    <3>2. hdr'[tab] = want'[tab].h /\ arr'[tab] = want'[tab].a
      BY <1>b, <2>4, <2>5, <2>7, <3>1
    <3>3. CASE tab = "prim"
      <4>1. blk' = 1 /\ pc' = "hdr" /\ tab' = "sec" /\ rc' = rc
        BY <1>11, <2>9, <3>3, <1>b DEF WriteBlock, AfterBlock
      <4> QED BY <1>a, <2>1, <2>4, <2>5, <3>2, <3>3, <4>1 DEF Progress, Idle, Committing, Stored
    <3>4. CASE tab = "sec"
      <4>1. blk' = 1 /\ pc' = "idle" /\ rc' = 0
        BY <1>11, <2>9, <3>4, <1>b DEF WriteBlock, AfterBlock
      <4>2. Stored("prim", want)'
        BY <1>a, <2>1, <2>3, <2>4, <3>4 DEF Progress, Committing, Stored
      <4>3. Stored("sec", want)'
        BY <3>2, <3>4 DEF Stored
      <4> QED BY <1>a, <4>1, <4>2, <4>3 DEF Progress, Idle, Committing
    <3> QED BY <1>a, <1>b, <3>3, <3>4
  <2> QED BY <1>b, <2>8, <2>9
<1>12. CASE Update
  <2>1. Updated /\ Idle
    BY <1>12 DEF Update, UpdateMain, UpdateBackup, UpdateFinalize, Idle
  <2>2. \A t \in Tables : Stored(t, before)' /\ Stored(t, want)'
    BY <2>1 DEF Updated, Stored, OnDisk
  <2> QED BY <1>a, <2>1, <2>2 DEF Updated, Progress, Idle, Committing
<1>13. CASE UNCHANGED vars
  BY <1>13 DEF vars, disk, handle, commit, Progress, Idle, Committing, Stored
<1> QED
  BY <1>1, <1>2, <1>3, <1>4, <1>7, <1>8, <1>9, <1>10, <1>11, <1>12, <1>13
     DEF Next, Program

\* No commit has begun in an initial state.
LEMMA ProgressInit == Init => Progress
BY StoredOnDisk DEF Init, Progress, Idle, Committing, Stored, Tables

\* A table of the disk that is table t of w is whole.
LEMMA WholeIfStored ==
  ASSUME TypeOK, NEW t \in Tables, NEW w \in [Tables -> Table], Stored(t, w)
  PROVE  OnDisk[t] = w[t]
<1>1. w[t] \in [h : Header \cup {NULL}, a : Array \cup {NULL}]
  BY DEF Table
<1> QED BY <1>1 DEF Stored, OnDisk

\* OneTableWhole for every instance: gpt_disk_commit completes the primary
\* table before it touches the secondary one.
THEOREM OneTableWholeTheorem == Spec => []OneTableWhole
<1>1. TypeOK /\ Progress => OneTableWhole
  <2> SUFFICES ASSUME TypeOK, Progress PROVE OneTableWhole
    OBVIOUS
  <2>1. before \in [Tables -> Table] /\ want \in [Tables -> Table]
        /\ pc \in {"none", "idle", "hdr", "arr"} /\ tab \in Tables
    BY DEF TypeOK
  <2>2. \E t \in Tables : Stored(t, before) \/ Stored(t, want)
    BY <2>1 DEF Progress, Idle, Committing, Tables
  <2>3. \E t \in Tables : WholeTable(t)
    BY <2>1, <2>2, WholeIfStored DEF WholeTable
  <2>4. ASSUME rc = 0 PROVE OnDisk = want
    <3>1. \A t \in Tables : OnDisk[t] = want[t]
      BY <2>1, <2>4, WholeIfStored DEF Progress
    <3>2. OnDisk = [t \in Tables |-> OnDisk[t]]
      BY DEF OnDisk
    <3> QED BY <2>1, <3>1, <3>2
  <2> QED BY <2>3, <2>4 DEF OneTableWhole
<1> QED
  BY <1>1, TypeInit, TypeStep, ProgressInit, ProgressStep, PTL DEF Spec

-----------------------------------------------------------------------------
(* One valid table.                                                        *)

\* Nothing that Safe speaks of on the disk has changed, and no commit runs.
LEMMA SafeKept ==
  ASSUME TypeOK, Safe, UNCHANGED <<disk, careless>>, pc' \in {"none", "idle"}
  PROVE  Safe'
BY DEF Safe, Committing, IntactPrim, Valid, disk

\* Every step, and a commit only if it keeps to MaySafely, leaves a valid table.
LEMMA SafeStep == TypeOK /\ Progress /\ Safe /\ [Next]_vars => Safe'
<1> SUFFICES ASSUME TypeOK, Progress, Safe, [Next]_vars PROVE Safe'
  OBVIOUS
<1> USE BAssumption
<1>a. "prim" \in Tables /\ "sec" \in Tables /\ Tables = {"prim", "sec"}
  BY DEF Tables
<1>b. blk \in 1..B /\ tab \in Tables /\ pc \in {"none", "idle", "hdr", "arr"}
      /\ careless \in Nat
  BY MaxCarelessAssumption DEF TypeOK
<1>1. CASE Alloc
  BY <1>1, SafeKept DEF Alloc
<1>2. CASE GetDiskInfo
  BY <1>2, SafeKept DEF GetDiskInfo
<1>3. CASE Client
  BY <1>3, SafeKept DEF Client, EditEntry
<1>4. CASE UpdateCrc
  BY <1>4, SafeKept DEF UpdateCrc
<1>5. CASE Gone
  BY <1>5, SafeKept DEF Gone
<1>6. CASE WriteFails
  BY <1>6, SafeKept DEF WriteFails
<1>7. CASE Commit
  <2>1. UNCHANGED <<hdr, arr, dhdr, darr>> /\ tab' = "prim"
    BY <1>7 DEF Commit, disk, handle
  <2>2. CASE careless' # 0
    BY <2>2 DEF Safe
  <2>3. CASE careless' = 0
    <3>1. MaySafely /\ careless = 0
      BY <1>7, <1>b, <2>3 DEF Commit
    <3>2. ASSUME InHandle["prim"] = OnDisk["prim"] PROVE Stored("prim", want)'
      BY <1>7, <1>a, <2>1, <3>2, StoredOnDisk, HeldInHandle DEF Commit, Stored
    <3> QED BY <1>a, <2>1, <3>1, <3>2 DEF Safe, MaySafely, Committing, IntactPrim, Valid
  <2> QED BY <2>2, <2>3
<1>8. CASE WriteHeader
  <2>1. pc = "hdr" /\ pc' = "arr"
    BY <1>8 DEF WriteHeader
  <2>2. hdr'[tab] = dhdr[tab]
    BY <1>8, <1>b DEF WriteHeader, TypeOK
  <2>3. \A t \in Tables : t # tab => hdr'[t] = hdr[t]
    BY <1>8, <1>b DEF WriteHeader, TypeOK
  <2>4. UNCHANGED <<arr, dhdr, darr, tab, want, careless>>
    BY <1>8 DEF WriteHeader, handle, commit
  <2>5. \A t \in Tables : want[t].h = dhdr[t] /\ want[t].a = darr[t]
    BY <2>1 DEF Progress, Committing
  <2>6. SUFFICES ASSUME careless = 0 PROVE Safe'
    BY <2>4 DEF Safe
  <2>7. \A t \in Tables : /\ dhdr[t] # NULL /\ darr[t] # NULL
                         /\ Valid(dhdr[t], darr[t])
    BY <2>1, <2>6 DEF Safe, Committing
  <2>8. CASE tab = "prim"
    <3>1. hdr'["sec"] = hdr["sec"] /\ hdr'["prim"] = dhdr["prim"]
      BY <1>a, <2>2, <2>3, <2>8
    <3>2. IntactPrim'
      BY <1>a, <2>7, <3>1 DEF IntactPrim, Valid
    <3>3. Valid(hdr["sec"], arr["sec"]) \/ Stored("prim", want)
      BY <2>1, <2>6, <2>8 DEF Safe, Committing
    <3>4. Valid(hdr'["sec"], arr'["sec"]) \/ Stored("prim", want)'
      BY <1>a, <2>4, <2>5, <3>1, <3>3 DEF Stored, Valid
    <3>5. \E t \in Tables : Valid(hdr'[t], arr'[t])
      BY <1>a, <2>4, <2>5, <2>7, <3>1, <3>4 DEF Stored
    <3> QED BY <2>4, <2>7, <3>2, <3>4, <3>5 DEF Safe, Committing
  <2>9. CASE tab = "sec"
    <3>1. hdr'["prim"] = hdr["prim"] /\ Stored("prim", want)
      BY <1>a, <2>1, <2>3, <2>9 DEF Progress, Committing
    <3>2. Valid(hdr'["prim"], arr'["prim"])
      BY <1>a, <2>4, <2>5, <2>7, <3>1 DEF Stored
    <3>3. IntactPrim'
      BY <3>2 DEF IntactPrim, Valid
    <3> QED BY <1>a, <2>4, <2>7, <2>9, <3>2, <3>3 DEF Safe, Committing
  <2> QED BY <1>a, <1>b, <2>8, <2>9
<1>9. CASE WriteBlock
  <2>1. pc = "arr" /\ (pc' = "arr" \/ pc' = "hdr" \/ pc' = "idle")
    BY <1>9 DEF WriteBlock, AfterBlock
  <2>2. arr'[tab] = [arr[tab] EXCEPT ![blk] = darr[tab][blk]]
    BY <1>9, <1>b DEF WriteBlock, TypeOK
  <2>3. \A t \in Tables : t # tab => arr'[t] = arr[t]
    BY <1>9, <1>b DEF WriteBlock, TypeOK
  <2>4. UNCHANGED <<hdr, dhdr, darr, want, careless>>
    BY <1>9 DEF WriteBlock, handle
  <2>5. \A t \in Tables : want[t].h = dhdr[t] /\ want[t].a = darr[t]
    BY <2>1 DEF Progress, Committing
  <2>6. SUFFICES ASSUME careless = 0 PROVE Safe'
    BY <2>4 DEF Safe
  <2>7. \A t \in Tables : /\ dhdr[t] # NULL /\ darr[t] # NULL
                         /\ Valid(dhdr[t], darr[t])
    BY <2>1, <2>6 DEF Safe, Committing
  <2>8. CASE tab = "prim"
    <3>1. arr'["sec"] = arr["sec"] /\ hdr["prim"] = dhdr["prim"]
      BY <1>a, <2>1, <2>3, <2>8 DEF Progress
    <3>2. IntactPrim'
      BY <1>a, <2>4, <2>7, <3>1 DEF IntactPrim, Valid
    <3>3. Valid(hdr["sec"], arr["sec"]) \/ Stored("prim", want)
      BY <2>1, <2>6, <2>8 DEF Safe, Committing
    <3>4. ASSUME Stored("prim", want) PROVE Stored("prim", want)'
      <4>1. arr["prim"] \in Array /\ arr["prim"] = darr["prim"]
        BY <1>a, <2>5, <3>4 DEF Stored, TypeOK
      <4>2. arr'["prim"] = arr["prim"]
        BY <1>b, <2>2, <2>8, <4>1 DEF Array
      <4> QED BY <2>4, <3>4, <4>2 DEF Stored
    <3>5. Valid(hdr'["sec"], arr'["sec"]) \/ Stored("prim", want)'
      BY <2>4, <3>1, <3>3, <3>4 DEF Valid
    <3>6. \E t \in Tables : Valid(hdr'[t], arr'[t])
      BY <1>a, <2>4, <2>5, <2>7, <3>5 DEF Stored
    <3>7. CASE tab' = "prim"
      BY <2>4, <2>7, <3>2, <3>5, <3>6, <3>7 DEF Safe, Committing
    <3>8. CASE tab' # "prim"
      BY <2>4, <2>7, <3>2, <3>6, <3>8 DEF Safe, Committing
    <3> QED BY <3>7, <3>8
  <2>9. CASE tab = "sec"
    <3>1. arr'["prim"] = arr["prim"] /\ Stored("prim", want)
      BY <1>a, <2>1, <2>3, <2>9 DEF Progress, Committing
    <3>2. Valid(hdr'["prim"], arr'["prim"])
      BY <1>a, <2>4, <2>5, <2>7, <3>1 DEF Stored
    <3>3. IntactPrim'
      BY <3>2 DEF IntactPrim, Valid
    <3>4. pc' = "idle" \/ tab' = "sec"
      BY <1>9, <2>9 DEF WriteBlock, AfterBlock
    <3> QED BY <1>a, <2>4, <2>7, <3>2, <3>3, <3>4 DEF Safe, Committing
  <2> QED BY <1>a, <1>b, <2>8, <2>9
<1>10. ASSUME hdr'["prim"].state # "BAD_SIGNATURE" \/ hdr'["prim"].acrc = arr'["prim"],
              careless' = 0 => \E t \in Tables : Valid(hdr'[t], arr'[t]),
              pc' \in {"none", "idle"}
       PROVE  Safe'
  BY <1>10 DEF Safe, Committing, IntactPrim
<1>11. CASE UpdateMain
  <2>1. hdr'["prim"].state = "BAD_SIGNATURE" /\ hdr'["prim"].acrc = hdr["prim"].acrc
        /\ hdr'["sec"].state = hdr["sec"].state /\ hdr'["sec"].acrc = arr'["sec"]
    BY <1>11, <1>a DEF UpdateMain, TypeOK, Header
  <2>2. arr'["prim"] = arr["prim"]
    BY <1>11, <1>a DEF UpdateMain, TypeOK
  <2> QED BY <1>10, <1>11, <1>a, <2>1, <2>2 DEF UpdateMain, Updated, Valid
<1>12. CASE UpdateBackup
  <2>1. hdr'["prim"].state = "OK" /\ hdr'["prim"].acrc = hdr["prim"].acrc
    BY <1>12, <1>a DEF UpdateBackup, TypeOK, Header
  <2>2. UNCHANGED <<arr, careless, pc>> /\ pc \in {"none", "idle"}
    BY <1>12 DEF UpdateBackup, Updated
  <2>3. ASSUME careless = 0 PROVE hdr["prim"].acrc = arr["prim"]
    BY <1>12, <2>3 DEF UpdateBackup, Safe, IntactPrim
  <2> QED BY <1>10, <1>a, <2>1, <2>2, <2>3 DEF Valid
<1>13. CASE UpdateFinalize
  <2>1. hdr'["prim"] = hdr["prim"] /\ arr'["prim"] = arr["prim"]
    BY <1>13, <1>a DEF UpdateFinalize, TypeOK
  <2> QED BY <1>10, <1>13, <1>a, <2>1 DEF UpdateFinalize, Updated, Valid
<1>14. CASE UNCHANGED vars
  <2>1. UNCHANGED <<hdr, arr, dhdr, darr, pc, tab, want, careless>>
    BY <1>14 DEF vars, disk, handle, commit
  <2> QED BY <2>1 DEF Safe, Committing, IntactPrim, Valid, Stored
<1> QED
  BY <1>1, <1>2, <1>3, <1>4, <1>5, <1>6, <1>7, <1>8, <1>9, <1>11, <1>12, <1>13, <1>14
     DEF Next, Program, Update

\* At most one table is damaged in an initial state.
LEMMA SafeInit == Init => Safe
<1> SUFFICES ASSUME Init PROVE Safe
  OBVIOUS
<1> PICK a \in Array, g \in Array, bad \in Tables \cup {"none"}, how \in {"hdr", "arr"} :
      /\ hdr = [t \in Tables |->
                  [state |-> IF t = bad /\ how = "hdr" THEN "BAD_CRC" ELSE "OK",
                   acrc |-> a]]
      /\ arr = [t \in Tables |-> IF t = bad /\ how = "arr" THEN g ELSE a]
  BY DEF Init
<1>1. hdr["prim"].state # "BAD_SIGNATURE"
  BY DEF Tables
<1>2. PICK t \in Tables : t # bad
  BY DEF Tables
<1>3. Valid(hdr[t], arr[t])
  BY <1>2 DEF Valid
<1>4. pc = "none"
  BY DEF Init
<1> QED BY <1>1, <1>3, <1>4 DEF Safe, Committing, IntactPrim

\* NeverBothBad for every instance: commits that keep to MaySafely leave a
\* table the boot loader accepts, wherever each of them is cut short.
THEOREM NeverBothBadTheorem == Spec => []NeverBothBad
<1>1. Safe => NeverBothBad
  BY DEF Safe, NeverBothBad
<1> QED
  BY <1>1, TypeInit, TypeStep, ProgressInit, ProgressStep, SafeInit, SafeStep, PTL
     DEF Spec

-----------------------------------------------------------------------------
(* The stage of the update.                                                *)

\* A handle stays fresh only while its signatures are those of the disk.
LEMMA FreshStep == TypeOK /\ Fresh /\ [Next]_vars => Fresh'
<1> SUFFICES ASSUME TypeOK, Fresh, [Next]_vars, fresh' PROVE Fresh'
  BY DEF Fresh
<1>1. CASE fresh /\ UNCHANGED <<hdr, dhdr>>
  BY <1>1 DEF Fresh
<1>2. CASE GetDiskInfo
  <2> PICK stop \in 1..AllRead :
        /\ dhdr' = [t \in Tables |-> Got(Position.hdr[t], stop, hdr[t], dhdr[t])]
        /\ fresh' = (stop = AllRead)
    BY <1>2 DEF GetDiskInfo
  <2>1. dhdr' = hdr /\ hdr' = hdr
    <3>1. \A t \in Tables : Position.hdr[t] < AllRead
      BY DEF Position, AllRead, Tables
    <3>2. \A t \in Tables : dhdr'[t] = hdr[t]
      BY <3>1 DEF Got
    <3> QED BY <1>2, <3>2 DEF GetDiskInfo, disk, TypeOK
  <2>2. \A t \in Tables : hdr[t] # NULL
    BY NullAssumption DEF TypeOK
  <2> QED BY <2>1, <2>2 DEF Fresh
<1>3. CASE UpdateCrc
  <2>1. fresh /\ hdr' = hdr
    BY <1>3 DEF UpdateCrc, disk
  <2>2. ASSUME NEW t \in Tables
        PROVE  /\ dhdr'[t] # NULL
               /\ (dhdr'[t].state = "BAD_SIGNATURE") <=> (dhdr[t].state = "BAD_SIGNATURE")
    <3>1. dhdr'[t] = HeaderFor(dhdr[t], darr[t]) /\ dhdr[t] \in Header
      BY <1>3, <2>2 DEF UpdateCrc, TypeOK
    <3>2. dhdr'[t] \in Header
      BY <2>2, <3>1 DEF HeaderFor, Header, States, TypeOK
    <3> QED BY <3>1, <3>2, NullAssumption DEF HeaderFor
  <2> QED BY <2>1, <2>2 DEF Fresh
<1>4. CASE WriteHeader
  <2>1. fresh /\ dhdr' = dhdr /\ tab \in Tables
    BY <1>4 DEF WriteHeader, handle, TypeOK
  <2>2. \A t \in Tables : hdr'[t] = IF t = tab THEN dhdr[t] ELSE hdr[t]
    BY <1>4, <2>1 DEF WriteHeader, TypeOK
  <2> QED BY <2>1, <2>2 DEF Fresh
<1>5. CASE Alloc \/ Commit \/ WriteBlock \/ WriteFails \/ Client \/ UNCHANGED vars
  BY <1>1, <1>5 DEF Alloc, Commit, WriteBlock, WriteFails, Client, EditEntry,
                    vars, disk, handle
<1>6. CASE Gone \/ Update
  BY <1>6 DEF Gone, Update, UpdateMain, UpdateBackup, UpdateFinalize, Updated
<1> QED BY <1>2, <1>3, <1>4, <1>5, <1>6 DEF Next, Program

\* UpdateKept for every instance: a commit of a fresh handle does not change
\* the signatures, from which prepare_partitions tells the stage.
THEOREM UpdateKeptTheorem == Spec => UpdateKept
<1>1. TypeOK /\ Fresh /\ [Next]_vars
        => [fresh /\ pc \in {"hdr", "arr"} => SameStage]_vars
  <2> SUFFICES ASSUME TypeOK, Fresh, Next, fresh, pc \in {"hdr", "arr"}
               PROVE  SameStage
    OBVIOUS
  <2>1. CASE hdr' = hdr
    BY <2>1 DEF SameStage
  <2>2. CASE WriteHeader
    <3>1. \A t \in Tables : hdr'[t] = IF t = tab THEN dhdr[t] ELSE hdr[t]
      BY <2>2 DEF WriteHeader, TypeOK
    <3> QED BY <3>1 DEF Fresh, SameStage
  <2>3. CASE Gone \/ WriteBlock \/ WriteFails
    BY <2>1, <2>3 DEF Gone, WriteBlock, WriteFails, disk
  <2>4. ~(Alloc \/ GetDiskInfo \/ UpdateCrc \/ Commit \/ Client \/ Update)
    BY DEF Alloc, GetDiskInfo, UpdateCrc, Commit, Client, EditEntry, Update,
           UpdateMain, UpdateBackup, UpdateFinalize
  <2> QED BY <2>2, <2>3, <2>4 DEF Next, Program
<1>2. Init => Fresh
  BY DEF Init, Fresh
<1> QED BY <1>1, <1>2, TypeInit, TypeStep, FreshStep, PTL DEF Spec, UpdateKept
=============================================================================
