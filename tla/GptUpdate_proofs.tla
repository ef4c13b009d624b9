-------------------------- MODULE GptUpdate_proofs --------------------------
(***************************************************************************)
(* Proofs about GptUpdate for any number of LUNs, any length of the        *)
(* entries array and any distribution of backup partitions.                *)
(***************************************************************************)
EXTENDS GptUpdateInv, TLAPS

USE NAssumption, BAssumption, SwitchXblAssumption, HasBackupAssumption,
    FaultsAssumption

-----------------------------------------------------------------------------
(* Types.                                                                  *)

\* The arrays the program computes are arrays.
LEMMA ArrayTypes ==
  /\ \A c \in Chains : Uniform(c) \in Array
  /\ Uniform("garbage") \in Array
  /\ \A a \in Array : Swap(a) \in Array
  /\ \A s \in Stages, a \in Array : NewEntries(s, a) \in Array
BY DEF Uniform, Array, Chains, Swap, NewEntries

\* Writing a header, or a block of an array, keeps the disk's types.
LEMMA WriteHeaderType ==
  ASSUME TypeOK, NEW l \in Luns, NEW t \in Tables, NEW h \in Header,
         WriteHeader(l, t, h)
  PROVE  /\ hdr' \in [Luns -> [Tables -> Header]]
         /\ mhdr' \in [Luns -> [Tables -> Header]]
         /\ arr' = arr /\ marr' = marr
BY DEF TypeOK, WriteHeader

LEMMA WriteBlockType ==
  ASSUME TypeOK, NEW l \in Luns, NEW t \in Tables, NEW i \in 1..B,
         NEW v \in Chains \cup {"garbage"}, WriteBlock(l, t, i, v)
  PROVE  /\ arr' \in [Luns -> [Tables -> Array]]
         /\ marr' \in [Luns -> [Tables -> Array]]
         /\ hdr' = hdr /\ mhdr' = mhdr
<1>1. \A a \in [Luns -> [Tables -> Array]] :
        [a EXCEPT ![l][t][i] = v] \in [Luns -> [Tables -> Array]]
  BY DEF Array
<1> QED BY <1>1 DEF TypeOK, WriteBlock

LEMMA InitType == Init => TypeOK
<1> SUFFICES ASSUME Init PROVE TypeOK OBVIOUS
<1>1. PICK damage \in [Luns -> {"none", "prim", "sec", "array"}] :
        InitDisk(damage)
  BY DEF Init
<1>2. hdr \in [Luns -> [Tables -> Header]]
  BY <1>1, ArrayTypes DEF InitDisk, Header, GptStates, Chains
<1>3. arr \in [Luns -> [Tables -> Array]]
  BY <1>1, ArrayTypes DEF InitDisk, Chains
<1> QED BY <1>2, <1>3 DEF Init, TypeOK, Luns, Pcs, Stages, FINALIZE, MAIN, BACKUP, Chains

\* Every step of the program, its failures and its environment keeps types.
LEMMA StepType == TypeOK /\ [Next]_vars => TypeOK'
<1> SUFFICES ASSUME TypeOK, [Next]_vars PROVE TypeOK' OBVIOUS
<1> USE DEF Luns, Pcs
<1>1. ASSUME NEW s \in Stages, Call(s) PROVE TypeOK'
  BY <1>1 DEF Call, TypeOK, disk
<1>2. CASE OpenFails
  BY <1>2 DEF OpenFails, NextLun, TypeOK, disk, client
<1>3. CASE Open
  BY <1>3 DEF Open, FirstStep, TypeOK, disk, client
<1>4. CASE SetXbl
  BY <1>4 DEF SetXbl, XblTarget, TypeOK, disk, client
<1>5. CASE SecHeader
  <2> DEFINE h == [hdr[lun]["sec"] EXCEPT
                     !.acrc = NewEntries(stage, arr[lun]["prim"])]
  <2>0. /\ NewEntries(stage, arr[lun]["prim"]) \in Array
        /\ hdr[lun]["sec"] \in Header
    BY ArrayTypes DEF TypeOK, Tables
  <2>1. h \in Header
    BY <2>0 DEF Header
  <2>2. CASE WriteHeader(lun, "sec", h) /\ blk' = 1 /\ pc' = "sec_arr"
             /\ UNCHANGED r
    BY <1>5, <2>1, <2>2, WriteHeaderType
    DEF SecHeader, TypeOK, client, Tables
  <2>3. CASE UNCHANGED <<disk, blk>> /\ r' \in {-1, r} /\ pc' = "exit"
    BY <1>5, <2>3 DEF SecHeader, TypeOK, disk, client
  <2> QED BY <1>5, <2>2, <2>3 DEF SecHeader
<1>6. CASE SecArray
  <2>0. NewEntries(stage, arr[lun]["prim"]) \in Array /\ blk \in 1..B
    BY ArrayTypes DEF TypeOK, Tables
  <2>1. NewEntries(stage, arr[lun]["prim"])[blk] \in Chains \cup {"garbage"}
    BY <2>0 DEF Array
  <2>2. /\ arr' \in [Luns -> [Tables -> Array]]
        /\ marr' \in [Luns -> [Tables -> Array]]
        /\ hdr' = hdr /\ mhdr' = mhdr
    BY <1>6, <2>1, WriteBlockType DEF SecArray, TypeOK, Tables
  <2>3. blk' \in 1..B /\ pc' \in Pcs
    BY <1>6 DEF SecArray, AfterSecArray, TypeOK
  <2> QED BY <1>6, <2>2, <2>3 DEF SecArray, TypeOK, client
<1>7. CASE ShortWrite
  BY <1>7 DEF ShortWrite, AfterSecArray, TypeOK, disk, client
<1>8. ASSUME NEW step, NEW t \in Tables, NEW state \in GptStates,
             NEW next \in Pcs, SetState(step, t, state, next)
      PROVE  TypeOK'
  <2>0. hdr[lun][t] \in Header
    BY DEF TypeOK
  <2>1. [hdr[lun][t] EXCEPT !.state = state] \in Header
    BY <2>0 DEF Header
  <2> QED BY <1>8, <2>1, WriteHeaderType DEF SetState, TypeOK, client
<1>9. CASE StepFails
  BY <1>9 DEF StepFails, TypeOK, disk, client
<1>10. CASE Exit
  <2>0. /\ [mhdr EXCEPT ![lun] = hdr[lun]] \in [Luns -> [Tables -> Header]]
        /\ [marr EXCEPT ![lun] = arr[lun]] \in [Luns -> [Tables -> Array]]
    BY DEF TypeOK
  <2>1. /\ mhdr' \in [Luns -> [Tables -> Header]]
        /\ marr' \in [Luns -> [Tables -> Array]]
    BY <1>10, <2>0 DEF Exit, TypeOK
  <2> QED BY <1>10, <2>1 DEF Exit, NextLun, TypeOK, cache, client
<1>11. CASE Return
  BY <1>11 DEF Return, TypeOK, disk
<1>12. ASSUME NEW c \in Chains, BeginImages(c) \/ EndImages(c) PROVE TypeOK'
  BY <1>12 DEF BeginImages, EndImages, TypeOK, disk, run
<1>13. CASE WriteBack
  <2>1. ASSUME NEW l \in Luns, NEW t \in Tables, NEW i \in 1..B
        PROVE  [marr EXCEPT ![l][t][i] = arr[l][t][i]]
                 \in [Luns -> [Tables -> Array]]
    BY DEF TypeOK, Array
  <2>2. /\ mhdr' \in [Luns -> [Tables -> Header]]
        /\ marr' \in [Luns -> [Tables -> Array]]
    <3>1. ASSUME NEW l \in Luns, NEW t \in Tables
          PROVE  [mhdr EXCEPT ![l][t] = hdr[l][t]]
                   \in [Luns -> [Tables -> Header]]
      BY DEF TypeOK
    <3>2. mhdr \in [Luns -> [Tables -> Header]]
          /\ marr \in [Luns -> [Tables -> Array]]
      BY DEF TypeOK
    <3>3. PICK l \in Luns, t \in Tables :
            \/ mhdr' = [mhdr EXCEPT ![l][t] = hdr[l][t]] /\ marr' = marr
            \/ \E i \in 1..B : /\ marr' = [marr EXCEPT ![l][t][i] = arr[l][t][i]]
                              /\ mhdr' = mhdr
      BY <1>13 DEF WriteBack
    <3>4. CASE mhdr' = [mhdr EXCEPT ![l][t] = hdr[l][t]] /\ marr' = marr
      BY <3>1, <3>2, <3>4
    <3>5. CASE \E i \in 1..B : /\ marr' = [marr EXCEPT ![l][t][i] = arr[l][t][i]]
                               /\ mhdr' = mhdr
      <4>1. PICK i \in 1..B : marr' = [marr EXCEPT ![l][t][i] = arr[l][t][i]]
        BY <3>5
      <4>2. [marr EXCEPT ![l][t][i] = arr[l][t][i]]
              \in [Luns -> [Tables -> Array]]
        BY <2>1
      <4> QED BY <3>2, <3>5, <4>1, <4>2, Zenon
    <3> QED BY <3>3, <3>4, <3>5
  <2> QED BY <1>13, <2>2 DEF WriteBack, TypeOK, cache, run, client
<1>14. CASE Kill
  BY <1>14 DEF Kill, TypeOK, disk
<1>15. CASE PowerLoss
  BY <1>15 DEF PowerLoss, TypeOK
<1>16. CASE UNCHANGED vars
  BY <1>16 DEF vars, disk, run, client, TypeOK
<1>17. PrimBad \/ PrimOk \/ SecBad \/ SecOk => TypeOK'
  BY <1>8 DEF PrimBad, PrimOk, SecBad, SecOk, Tables, GptStates
<1> QED
  BY <1>1, <1>2, <1>3, <1>4, <1>5, <1>6, <1>7, <1>9, <1>10, <1>11, <1>12,
     <1>13, <1>14, <1>15, <1>16, <1>17
  DEF Next, Program, Failure, Client

\* The state always has its types, whatever faults the storage has: the loop
\* index stays in the update list and the block index in the array.
THEOREM TypeCorrect == Spec => []TypeOK
BY InitType, StepType, PTL DEF Spec

-----------------------------------------------------------------------------
(* The inductive invariant, for disks without the storage faults that      *)
(* break it: writes reach the medium in order and are never short.         *)

Ordered == WriteThrough /\ "short_write" \notin Faults

\* A header write changes one header, on the medium too.
LEMMA HeaderWritten ==
  ASSUME TypeOK, OnMedium, Ordered, NEW l \in Luns, NEW t \in Tables,
         NEW h \in Header, WriteHeader(l, t, h)
  PROVE  /\ OnMedium' /\ arr' = arr
         /\ hdr'[l][t] = h
         /\ \A k \in Luns, u \in Tables :
              k # l \/ u # t => hdr'[k][u] = hdr[k][u]
BY DEF TypeOK, OnMedium, Ordered, WriteHeader

\* A block write changes one block.
LEMMA BlockWritten ==
  ASSUME TypeOK, OnMedium, Ordered, NEW l \in Luns, NEW t \in Tables,
         NEW i \in 1..B, NEW v \in Chains \cup {"garbage"},
         WriteBlock(l, t, i, v)
  PROVE  /\ OnMedium' /\ hdr' = hdr
         /\ arr'[l][t][i] = v
         /\ \A j \in 1..B : j # i => arr'[l][t][j] = arr[l][t][j]
         /\ \A k \in Luns, u \in Tables :
              k # l \/ u # t => arr'[k][u] = arr[k][u]
<1>1. \A a \in [Luns -> [Tables -> Array]] :
        LET b == [a EXCEPT ![l][t][i] = v]
        IN  /\ b[l][t][i] = v
            /\ \A j \in 1..B : j # i => b[l][t][j] = a[l][t][j]
            /\ \A k \in Luns, u \in Tables :
                 k # l \/ u # t => b[k][u] = a[k][u]
  BY DEF Array
<1> QED BY <1>1 DEF TypeOK, OnMedium, Ordered, WriteBlock

\* An array is uniform when all of its blocks name the same chain, and the
\* two uniform arrays differ.
LEMMA UniformArray ==
  /\ \A a \in Array, c \in Chains \cup {"garbage"} :
       (\A i \in 1..B : a[i] = c) => a = Uniform(c)
  /\ Uniform("primary") # Uniform("backup")
  /\ Swap(Uniform("primary")) = Uniform("backup")
<1>1. 1 \in 1..B OBVIOUS
<1>2. Uniform("primary")[1] # Uniform("backup")[1]
  BY <1>1 DEF Uniform
<1> QED BY <1>2 DEF Array, Uniform, Swap

\* A destroyed signature tells the shape of the LUN.
LEMMA Shapes ==
  ASSUME Shape, NEW l \in Luns
  PROVE  /\ PrimState(l) = "BAD_SIGNATURE" => BySecondary(l)
         /\ SecState(l) = "BAD_SIGNATURE" => ByPrimary(l)
         /\ PrimState(l) = "OK" /\ SecState(l) = "OK"
              /\ hdr[l]["prim"].acrc = arr[l]["prim"] => ByPrimary(l)
BY DEF Shape, ByPrimary, BySecondary, Frozen, Damaged, PrimState, SecState,
       Tables

\* Initially every LUN boots by its primary table, or is damaged.
LEMMA InitInv == Init => IInv
<1> SUFFICES ASSUME Init PROVE IInv OBVIOUS
<1>1. PICK damage \in [Luns -> {"none", "prim", "sec", "array"}] :
        InitDisk(damage)
  BY DEF Init
<1>2. \A l \in Luns :
        /\ PrimState(l) = IF damage[l] = "prim" THEN "BAD_CRC" ELSE "OK"
        /\ SecState(l) = IF damage[l] = "sec" THEN "BAD_CRC" ELSE "OK"
        /\ hdr[l]["prim"].acrc = Uniform("primary")
        /\ SecLists(l, "primary")
        /\ arr[l]["prim"] = IF damage[l] = "array" THEN Uniform("garbage")
                                                   ELSE Uniform("primary")
  BY <1>1 DEF InitDisk, PrimState, SecState, SecLists, Tables
<1>3. Uniform("primary") # Uniform("garbage")
  <2>1. 1 \in 1..B OBVIOUS
  <2>2. Uniform("primary")[1] # Uniform("garbage")[1]
    BY <2>1 DEF Uniform
  <2> QED BY <2>2
<1>4. Shape
  <2> SUFFICES ASSUME NEW l \in Luns PROVE ByPrimary(l) \/ Frozen(l)
    BY DEF Shape
  <2>1. CASE damage[l] \in {"none", "sec"}
    BY <1>2, <2>1 DEF ByPrimary, PrimWhole
  <2>2. CASE damage[l] \in {"prim", "array"}
    BY <1>2, <1>3, <2>2 DEF Frozen, Damaged, Valid, PrimState, Tables
  <2> QED BY <2>1, <2>2
<1>5. TypeOK /\ OnMedium /\ StepInv /\ LoopInv /\ GrantInv /\ TornInv
  BY InitType DEF Init, OnMedium, StepInv, LoopInv, GrantInv, TornInv, Chains
<1>6. XblInv
  BY DEF Init, XblInv
<1> QED BY <1>4, <1>5, <1>6 DEF IInv

\* A step that leaves the disk alone leaves the facts about the disk alone.
LEMMA DiskSame ==
  ASSUME hdr' = hdr, arr' = arr, OnMedium, mhdr' = mhdr, marr' = marr
  PROVE  /\ OnMedium' /\ (Shape => Shape')
         /\ \A l \in Luns :
              /\ PrimState(l)' = PrimState(l) /\ SecState(l)' = SecState(l)
              /\ ByPrimary(l)' = ByPrimary(l)
              /\ \A c \in Chains : SecLists(l, c)' = SecLists(l, c)
              /\ \A s \in Stages : Achieved(s, l)' = Achieved(s, l)
<1>1. \A l \in Luns :
        /\ PrimState(l)' = PrimState(l) /\ SecState(l)' = SecState(l)
        /\ ByPrimary(l)' = ByPrimary(l)
        /\ \A c \in Chains : SecLists(l, c)' = SecLists(l, c)
        /\ BySecondary(l)' = BySecondary(l)
        /\ Frozen(l)' = Frozen(l)
  BY DEF PrimState, SecState, ByPrimary, PrimWhole, SecLists, BySecondary,
         Frozen, Damaged, Valid
<1>2. \A l \in Luns, s \in Stages : Achieved(s, l)' = Achieved(s, l)
  BY <1>1 DEF Achieved, Chains
<1>3. OnMedium' /\ (Shape => Shape')
  BY <1>1 DEF OnMedium, Shape
<1> QED BY <1>1, <1>2, <1>3

\* The call: the client's guard keeps torn chains out of reach.
LEMMA CallInv ==
  ASSUME IInv, TypeOK', NEW s \in Stages, Call(s)
  PROVE  IInv'
<1> USE DEF Stages, MAIN, BACKUP, FINALIZE
<1>1. /\ hdr' = hdr /\ arr' = arr /\ mhdr' = mhdr /\ marr' = marr
      /\ pc = "idle" /\ pc' = "open" /\ stage' = s /\ lun' = 1
      /\ granted' = 0 /\ img' = img /\ bootLun' = bootLun
  BY DEF Call, disk
<1>2. OnMedium' /\ Shape' /\ StepInv' /\ GrantInv'
  BY <1>1, DiskSame DEF IInv, StepInv, GrantInv
<1>3. LoopInv'
  BY <1>1 DEF LoopInv, Passed, Luns
<1>4. TornInv'
  BY <1>1, DiskSame DEF IInv, TornInv, Call, ClientMayCall, Protected
<1>5. XblInv'
  BY <1>1, DiskSame DEF IInv, XblInv
<1> QED BY <1>2, <1>3, <1>4, <1>5 DEF IInv

\* Leaving the loop body with a LUN done, or refused.
LEMMA NextLunInv ==
  ASSUME IInv, TypeOK', pc \in {"open", "exit"},
         isError' = 0 => isError = 0 /\ pc = "exit" /\ r = 0,
         \/ lun = N /\ pc' = "return" /\ lun' = lun
         \/ lun # N /\ pc' = "open" /\ lun' = lun + 1,
         hdr' = hdr, arr' = arr, mhdr' = mhdr, marr' = marr,
         UNCHANGED <<bootLun, stage, blk, granted, img>>
  PROVE  IInv'
<1>1. /\ pc' \in {"open", "return"} /\ lun' \in Luns
      /\ lun \in Luns /\ isError' \in {0, 1}
  BY DEF IInv, TypeOK
<1>2. OnMedium' /\ Shape' /\ StepInv'
  BY <1>1, DiskSame DEF IInv, StepInv
<1>3. GrantInv' /\ TornInv' /\ XblInv'
  BY <1>1, DiskSame DEF IInv, GrantInv, TornInv, XblInv, Protected
<1>4. LoopInv'
  <2> SUFFICES ASSUME isError' = 0, NEW l \in Luns, Passed(l)'
               PROVE  Achieved(stage, l)
    BY DiskSame DEF LoopInv, IInv, TypeOK
  <2>1. isError = 0 /\ pc = "exit" /\ r = 0
    OBVIOUS
  <2>2. l < lun \/ l = lun
    BY <1>1 DEF Passed, Luns
  <2> QED BY <2>1, <2>2 DEF IInv, LoopInv, Passed
<1> QED BY <1>2, <1>3, <1>4 DEF IInv

\* open() fails.
LEMMA OpenFailsInv ==
  ASSUME IInv, TypeOK', OpenFails
  PROVE  IInv'
<1>1. /\ hdr' = hdr /\ arr' = arr /\ mhdr' = mhdr /\ marr' = marr
      /\ pc = "open" /\ isError' = 1
      /\ \/ lun = N /\ pc' = "return" /\ lun' = lun
         \/ lun # N /\ pc' = "open" /\ lun' = lun + 1
      /\ UNCHANGED <<bootLun, stage, blk, granted, img>>
  BY DEF OpenFails, NextLun, disk, client
<1> QED BY <1>1, NextLunInv

\* The checks of the headers establish what the stage's writes rely on.
LEMMA OpenInv ==
  ASSUME IInv, TypeOK', Open
  PROVE  IInv'
<1> USE DEF Stages, MAIN, BACKUP, FINALIZE
<1>1. /\ hdr' = hdr /\ arr' = arr /\ mhdr' = mhdr /\ marr' = marr
      /\ pc = "open" /\ pc' \in Pcs \ {"idle", "open", "return"}
      /\ UNCHANGED <<bootLun, stage, lun, blk, isError, granted, img>>
      /\ stage \in Stages /\ lun \in Luns
      /\ PrimState(lun) \in GptStates /\ SecState(lun) \in GptStates
  BY DEF Open, FirstStep, disk, client, Pcs, IInv, TypeOK, PrimState,
         SecState, Header, Tables
<1>2. OnMedium' /\ Shape'
  BY <1>1, DiskSame DEF IInv
<1>3. StepInv'
  <2>1. CASE pc' = "exit"
    BY <2>1 DEF StepInv
  <2>2. CASE pc' = FirstStep(stage) /\ Acceptable(PrimState(lun), SecState(lun))
             /\ stage = InternalStage(PrimState(lun), SecState(lun))
    <3>1. /\ pc' \in {"set_xbl", "sec_hdr", "prim_ok"}
          /\ pc' = "set_xbl" => stage # FINALIZE
          /\ pc' = "prim_ok" => stage = BACKUP
          /\ pc' = "sec_hdr" => stage # BACKUP
      BY <1>1, <2>2 DEF FirstStep
    <3>2. /\ stage = MAIN => PrimState(lun) = "OK" /\ SecState(lun) = "OK"
          /\ stage = BACKUP => PrimState(lun) = "BAD_SIGNATURE"
          /\ stage = FINALIZE =>
               PrimState(lun) = "OK" /\ SecState(lun) = "BAD_SIGNATURE"
      BY <1>1, <2>2 DEF Acceptable, InternalStage, GptStates
    <3> QED BY <1>1, <3>1, <3>2, DiskSame DEF StepInv, IInv
  <2> QED BY <1>1, <2>1, <2>2 DEF Open, PrimState, SecState
<1>4. GrantInv' /\ TornInv'
  BY <1>1, DiskSame DEF IInv, GrantInv, TornInv, Protected
<1>5. XblInv'
  <2>1. pc' # "sec_bad" /\ (SwitchXbl => pc' # "prim_ok")
    BY DEF Open, FirstStep
  <2> QED BY <1>1, <2>1, DiskSame DEF IInv, XblInv
<1>6. LoopInv'
  <2> SUFFICES ASSUME isError = 0, NEW l \in Luns, Passed(l)'
               PROVE  Achieved(stage, l)
    BY <1>1, DiskSame DEF LoopInv, IInv, TypeOK
  <2>1. CASE l < lun
    BY <1>1, <2>1 DEF IInv, LoopInv, Passed
  <2>2. CASE l = lun /\ pc' = "exit" /\ r' = 0
    <3>1. /\ Acceptable(PrimState(lun), SecState(lun))
          /\ AlreadySet(stage, InternalStage(PrimState(lun), SecState(lun)))
      BY <1>1, <2>2 DEF Open, FirstStep, PrimState, SecState
    <3> QED BY <1>1, <2>2, <3>1
            DEF Acceptable, AlreadySet, InternalStage, GptStates, Achieved
  <2> QED BY <1>1, <2>1, <2>2 DEF Passed
<1> QED BY <1>2, <1>3, <1>4, <1>5, <1>6 DEF IInv

\* The boot LUN is switched only by a LUN that is between two stages.
LEMMA SetXblInv ==
  ASSUME IInv, TypeOK', SetXbl
  PROVE  IInv'
<1> USE DEF Stages, MAIN, BACKUP, FINALIZE
<1>1. /\ hdr' = hdr /\ arr' = arr /\ mhdr' = mhdr /\ marr' = marr
      /\ pc = "set_xbl" /\ bootLun' = XblTarget(stage)
      /\ pc' = IF stage = MAIN THEN "sec_hdr" ELSE "prim_ok"
      /\ UNCHANGED <<stage, lun, blk, r, isError, granted, img>>
      /\ stage \in {MAIN, BACKUP} /\ lun \in Luns
  BY DEF SetXbl, disk, client, IInv, StepInv, TypeOK
<1>2. OnMedium' /\ Shape' /\ StepInv'
  BY <1>1, DiskSame DEF IInv, StepInv
<1>3. GrantInv' /\ TornInv'
  BY <1>1, DiskSame DEF IInv, GrantInv, TornInv, Protected
<1>4. LoopInv'
  BY <1>1, DiskSame DEF IInv, LoopInv, Passed
<1>5. XblInv'
  <2>1. CASE stage = MAIN
    <3>1. SecState(lun)' # "BAD_SIGNATURE"
      BY <1>1, <2>1, DiskSame DEF IInv, StepInv
    <3> QED BY <1>1, <2>1, <3>1 DEF XblInv, XblTarget
  <2>2. CASE stage = BACKUP
    BY <1>1, <2>2 DEF XblInv, XblTarget
  <2> QED BY <1>1, <2>1, <2>2
<1> QED BY <1>2, <1>3, <1>4, <1>5 DEF IInv

(***************************************************************************)
(* A write to the secondary table of the LUN being prepared that keeps its *)
(* state: such a write disturbs neither the other LUNs, nor what the       *)
(* stages promise of the states of the headers, nor a LUN that boots by    *)
(* its primary table.                                                      *)
(***************************************************************************)
LEMMA SecondaryWrite ==
  ASSUME IInv, TypeOK', OnMedium',
         pc \in {"sec_hdr", "sec_arr"}, pc' # "exit", pc' # "idle",
         pc' # "return", pc' \notin {"prim_ok", "sec_bad"},
         UNCHANGED <<bootLun, stage, lun, r, isError, granted, img>>,
         ByPrimary(lun),
         hdr'[lun]["prim"] = hdr[lun]["prim"],
         arr'[lun]["prim"] = arr[lun]["prim"],
         hdr'[lun]["sec"].state = hdr[lun]["sec"].state,
         \A k \in Luns : k # lun => hdr'[k] = hdr[k] /\ arr'[k] = arr[k]
  PROVE  /\ Shape' /\ LoopInv' /\ GrantInv' /\ TornInv' /\ XblInv'
         /\ ByPrimary(lun)'
         /\ PrimState(lun)' = PrimState(lun) /\ SecState(lun)' = SecState(lun)
<1>1. lun \in Luns /\ lun' = lun
  BY DEF IInv, TypeOK
<1>2. /\ ByPrimary(lun)'
      /\ \A k \in Luns : /\ PrimState(k)' = PrimState(k)
                         /\ SecState(k)' = SecState(k)
  BY <1>1 DEF ByPrimary, PrimWhole, PrimState, SecState
<1>3. \A k \in Luns : k # lun =>
        /\ ByPrimary(k)' = ByPrimary(k) /\ BySecondary(k)' = BySecondary(k)
        /\ Frozen(k)' = Frozen(k) /\ SecLists(k, "primary")' = SecLists(k, "primary")
  BY <1>1 DEF ByPrimary, PrimWhole, BySecondary, Frozen, Damaged, Valid,
              SecLists, PrimState, SecState
<1>4. Shape'
  BY <1>2, <1>3 DEF Shape, IInv
<1>5. LoopInv'
  <2> SUFFICES ASSUME isError = 0, NEW l \in Luns, Passed(l)'
               PROVE  Achieved(stage, l)'
    BY DEF LoopInv
  <2>1. l < lun /\ Achieved(stage, l)
    BY <1>1 DEF Passed, IInv, LoopInv
  <2>2. l # lun
    BY <1>1, <2>1 DEF Luns
  <2> QED BY <1>2, <1>3, <2>1, <2>2 DEF Achieved
<1>6. GrantInv' /\ TornInv' /\ XblInv'
  BY <1>1, <1>2 DEF IInv, GrantInv, TornInv, XblInv, Protected
<1> QED BY <1>1, <1>2, <1>4, <1>5, <1>6

\* The header that makes the secondary table incomplete is written only
\* while the primary table boots.
LEMMA SecHeaderInv ==
  ASSUME Ordered, IInv, TypeOK', SecHeader
  PROVE  IInv'
<1> USE DEF Stages, MAIN, BACKUP, FINALIZE
<1> DEFINE a == arr[lun]["prim"]
<1>1. /\ pc = "sec_hdr" /\ lun \in Luns /\ stage \in {MAIN, FINALIZE}
      /\ UNCHANGED <<bootLun, stage, lun, isError, granted, img>>
  BY DEF SecHeader, client, IInv, StepInv, TypeOK
<1> DEFINE Refuses == /\ UNCHANGED <<disk, blk>> /\ pc' = "exit"
                      /\ \/ r' = -1
                         \/ UNCHANGED r /\ stage = MAIN /\ ~HasBackup[lun]
           Writes == /\ hdr[lun]["prim"].acrc = a
                     /\ ~(stage = MAIN /\ ~HasBackup[lun])
                     /\ WriteHeader(lun, "sec",
                          [hdr[lun]["sec"] EXCEPT !.acrc = NewEntries(stage, a)])
                     /\ blk' = 1 /\ pc' = "sec_arr" /\ UNCHANGED r
<1>2. CASE Refuses
  <2>1. hdr' = hdr /\ arr' = arr /\ mhdr' = mhdr /\ marr' = marr
    BY <1>2 DEF disk
  <2>2. OnMedium' /\ Shape' /\ StepInv' /\ GrantInv' /\ TornInv' /\ XblInv'
    BY <1>1, <1>2, <2>1, DiskSame
    DEF IInv, StepInv, GrantInv, TornInv, XblInv, Protected
  <2>3. LoopInv'
    BY <1>1, <1>2, <2>1, DiskSame DEF IInv, LoopInv, Passed, Achieved, Protected
  <2> QED BY <2>2, <2>3 DEF IInv
<1>3. CASE Writes
  <2>1. ByPrimary(lun)
    BY <1>1, <1>3, Shapes DEF IInv, StepInv
  <2>2. a = Uniform("primary")
    BY <2>1 DEF ByPrimary, PrimWhole
  <2> DEFINE c == IF stage = MAIN THEN "backup" ELSE "primary"
             h == [hdr[lun]["sec"] EXCEPT !.acrc = NewEntries(stage, a)]
  <2>3. NewEntries(stage, a) = Uniform(c)
    BY <1>1, <2>2, UniformArray DEF NewEntries
  <2>4. hdr[lun]["sec"] \in Header /\ Uniform(c) \in Array
    BY <1>1, ArrayTypes DEF IInv, TypeOK, Tables, Chains
  <2>5. h \in Header /\ h.state = hdr[lun]["sec"].state /\ h.acrc = Uniform(c)
    BY <2>3, <2>4 DEF Header
  <2>6. /\ OnMedium' /\ arr' = arr /\ hdr'[lun]["sec"] = h
        /\ \A k \in Luns, u \in Tables :
             k # lun \/ u # "sec" => hdr'[k][u] = hdr[k][u]
    BY <1>1, <1>3, <2>5, HeaderWritten DEF IInv, Tables
  <2>7. \A k \in Luns : k # lun => hdr'[k] = hdr[k]
    BY <2>6 DEF IInv, TypeOK
  <2>8. /\ Shape' /\ LoopInv' /\ GrantInv' /\ TornInv' /\ XblInv'
        /\ ByPrimary(lun)'
        /\ PrimState(lun)' = PrimState(lun) /\ SecState(lun)' = SecState(lun)
    BY <1>1, <1>3, <2>1, <2>5, <2>6, <2>7, SecondaryWrite DEF Tables
  <2>9. StepInv'
    BY <1>1, <1>3, <2>5, <2>6, <2>8 DEF StepInv, IInv, Protected
  <2> QED BY <2>6, <2>8, <2>9 DEF IInv
<1>4. Refuses \/ Writes
  BY DEF SecHeader
<1> HIDE DEF Refuses, Writes
<1> QED BY <1>2, <1>3, <1>4

\* Block by block the secondary array becomes the one its header announces.
LEMMA SecArrayInv ==
  ASSUME Ordered, IInv, TypeOK', SecArray
  PROVE  IInv'
<1> USE DEF Stages, MAIN, BACKUP, FINALIZE
<1> DEFINE c == IF stage = MAIN THEN "backup" ELSE "primary"
<1>1. /\ pc = "sec_arr" /\ lun \in Luns /\ stage \in {MAIN, FINALIZE}
      /\ blk \in 1..B /\ ByPrimary(lun)
      /\ UNCHANGED <<bootLun, stage, lun, r, isError, granted, img>>
  BY DEF SecArray, client, IInv, StepInv, TypeOK
<1>2. NewEntries(stage, arr[lun]["prim"])[blk] = c
  BY <1>1, UniformArray DEF NewEntries, ByPrimary, PrimWhole, Uniform
<1>3. /\ OnMedium' /\ hdr' = hdr /\ arr'[lun]["sec"][blk] = c
      /\ \A j \in 1..B : j # blk => arr'[lun]["sec"][j] = arr[lun]["sec"][j]
      /\ \A k \in Luns, u \in Tables :
           k # lun \/ u # "sec" => arr'[k][u] = arr[k][u]
  BY <1>1, <1>2, BlockWritten DEF SecArray, IInv, Tables, Chains
<1>4. \A k \in Luns : k # lun => arr'[k] = arr[k]
  BY <1>3 DEF IInv, TypeOK
<1>5. /\ pc' \in {"sec_arr", "prim_bad", "sec_ok"}
      /\ pc' = "sec_arr" => blk' = blk + 1
      /\ pc' # "sec_arr" => blk = B
      /\ pc' = "prim_bad" => stage = MAIN
      /\ pc' = "sec_ok" => stage = FINALIZE
  BY <1>1 DEF SecArray, AfterSecArray
<1>6. /\ Shape' /\ LoopInv' /\ GrantInv' /\ TornInv' /\ XblInv'
      /\ ByPrimary(lun)'
      /\ PrimState(lun)' = PrimState(lun) /\ SecState(lun)' = SecState(lun)
  BY <1>1, <1>3, <1>4, <1>5, SecondaryWrite DEF Tables
<1>7. hdr[lun]["sec"].acrc = Uniform(c)
      /\ \A i \in 1..B : i < blk => arr[lun]["sec"][i] = c
  BY <1>1 DEF IInv, StepInv
<1>8. pc' # "sec_arr" => arr'[lun]["sec"] = Uniform(c)
  <2> SUFFICES ASSUME pc' # "sec_arr" PROVE arr'[lun]["sec"] = Uniform(c)
    OBVIOUS
  <2>1. \A i \in 1..B : arr'[lun]["sec"][i] = c
    BY <1>1, <1>3, <1>5, <1>7
  <2>2. arr'[lun]["sec"] \in Array
    BY <1>1 DEF TypeOK, Tables
  <2> QED BY <2>1, <2>2, UniformArray DEF Chains
<1>9. pc' = "sec_arr" => \A i \in 1..B : i < blk' => arr'[lun]["sec"][i] = c
  BY <1>1, <1>3, <1>5, <1>7
<1>10. StepInv'
  BY <1>1, <1>3, <1>5, <1>6, <1>7, <1>8, <1>9
  DEF StepInv, IInv, SecLists
<1> QED BY <1>3, <1>6, <1>10 DEF IInv

\* gpt_set_state changes one state of one header of the LUN being prepared.
LEMMA StateWritten ==
  ASSUME Ordered, IInv, NEW step, NEW t \in Tables, NEW state \in GptStates,
         NEW next, SetState(step, t, state, next)
  PROVE  /\ OnMedium' /\ lun \in Luns /\ pc = step /\ pc' = next
         /\ UNCHANGED <<bootLun, stage, lun, blk, r, isError, granted, img>>
         /\ hdr'[lun][t].state = state
         /\ arr' = arr
         /\ \A u \in Tables : hdr'[lun][u].acrc = hdr[lun][u].acrc
         /\ \A u \in Tables : u # t => hdr'[lun][u].state = hdr[lun][u].state
         /\ PrimWhole(lun)' = PrimWhole(lun)
         /\ \A c \in Chains : SecLists(lun, c)' = SecLists(lun, c)
         /\ \A k \in Luns : k # lun =>
              /\ PrimState(k)' = PrimState(k) /\ SecState(k)' = SecState(k)
              /\ ByPrimary(k)' = ByPrimary(k)
              /\ BySecondary(k)' = BySecondary(k) /\ Frozen(k)' = Frozen(k)
              /\ \A s \in Stages : Achieved(s, k)' = Achieved(s, k)
<1> DEFINE h == [hdr[lun][t] EXCEPT !.state = state]
<1>1. lun \in Luns /\ hdr[lun][t] \in Header
  BY DEF IInv, TypeOK
<1>2. h \in Header /\ h.state = state /\ h.acrc = hdr[lun][t].acrc
  BY <1>1 DEF Header
<1>3. /\ OnMedium' /\ arr' = arr /\ hdr'[lun][t] = h
      /\ \A k \in Luns, u \in Tables :
           k # lun \/ u # t => hdr'[k][u] = hdr[k][u]
  BY <1>1, <1>2, HeaderWritten DEF SetState, IInv
<1>4. /\ pc = step /\ pc' = next
      /\ UNCHANGED <<bootLun, stage, lun, blk, r, isError, granted, img>>
  BY DEF SetState, client
<1>5. /\ hdr'[lun][t].state = state
      /\ \A u \in Tables : hdr'[lun][u].acrc = hdr[lun][u].acrc
      /\ \A u \in Tables : u # t => hdr'[lun][u].state = hdr[lun][u].state
  BY <1>1, <1>2, <1>3
<1>6. /\ PrimWhole(lun)' = PrimWhole(lun)
      /\ \A c \in Chains : SecLists(lun, c)' = SecLists(lun, c)
  BY <1>3, <1>4, <1>5 DEF PrimWhole, SecLists, Tables
<1>7. ASSUME NEW k \in Luns, k # lun
      PROVE  /\ PrimState(k)' = PrimState(k) /\ SecState(k)' = SecState(k)
             /\ PrimWhole(k)' = PrimWhole(k)
             /\ \A c \in Chains : SecLists(k, c)' = SecLists(k, c)
             /\ Damaged(k)' = Damaged(k)
             /\ Valid(hdr[k]["prim"], arr[k]["prim"])'
                  = Valid(hdr[k]["prim"], arr[k]["prim"])
  BY <1>3, <1>7 DEF PrimState, SecState, PrimWhole, SecLists, Damaged, Valid,
                    Tables
<1>8. ASSUME NEW k \in Luns, k # lun
      PROVE  /\ ByPrimary(k)' = ByPrimary(k)
             /\ BySecondary(k)' = BySecondary(k) /\ Frozen(k)' = Frozen(k)
             /\ \A s \in Stages : Achieved(s, k)' = Achieved(s, k)
  <2>1. ByPrimary(k)' = ByPrimary(k) /\ BySecondary(k)' = BySecondary(k)
    BY <1>7, <1>8 DEF ByPrimary, BySecondary, Chains
  <2>2. Frozen(k)' = Frozen(k)
    BY <1>7, <1>8, <2>1 DEF Frozen, Chains
  <2>3. \A s \in Stages : Achieved(s, k)' = Achieved(s, k)
    BY <1>7, <1>8, <2>1 DEF Achieved, Chains
  <2> QED BY <2>1, <2>2, <2>3
<1> QED BY <1>1, <1>3, <1>4, <1>5, <1>6, <1>7, <1>8

\* The last write of a stage: with the LUN in its new shape, the LUN joins
\* those that the stage is through with.
LEMMA LastWrite ==
  ASSUME IInv, TypeOK', OnMedium', pc' = "exit",
         pc \in {"prim_bad", "sec_bad", "sec_ok"}, lun \in Luns,
         UNCHANGED <<bootLun, stage, lun, blk, r, isError, granted, img>>,
         \A k \in Luns : k # lun =>
              /\ PrimState(k)' = PrimState(k) /\ SecState(k)' = SecState(k)
              /\ ByPrimary(k)' = ByPrimary(k)
              /\ BySecondary(k)' = BySecondary(k) /\ Frozen(k)' = Frozen(k)
              /\ \A s \in Stages : Achieved(s, k)' = Achieved(s, k),
         ByPrimary(lun)' \/ BySecondary(lun)',
         Achieved(stage, lun)'
  PROVE  Shape' /\ StepInv' /\ LoopInv' /\ GrantInv'
<1>1. Shape' /\ StepInv'
  BY DEF Shape, IInv, StepInv
<1>2. LoopInv'
  <2> SUFFICES ASSUME isError = 0, NEW l \in Luns, Passed(l)', l # lun
               PROVE  Achieved(stage, l)
    BY DEF LoopInv, IInv, TypeOK
  <2>1. l < lun
    BY DEF Passed
  <2> QED BY <2>1 DEF IInv, LoopInv, Passed
<1>3. GrantInv'
  BY DEF IInv, GrantInv
<1> QED BY <1>1, <1>2, <1>3

\* The primary's signature is destroyed when the secondary table is complete.
LEMMA PrimBadInv ==
  ASSUME Ordered, IInv, TypeOK', PrimBad
  PROVE  IInv'
<1> USE DEF Stages, MAIN, BACKUP, FINALIZE
<1>1. /\ OnMedium' /\ lun \in Luns /\ pc = "prim_bad" /\ pc' = "exit"
      /\ UNCHANGED <<bootLun, stage, lun, blk, r, isError, granted, img>>
      /\ hdr'[lun]["prim"].state = "BAD_SIGNATURE"
      /\ hdr'[lun]["sec"].state = hdr[lun]["sec"].state
      /\ PrimWhole(lun)' = PrimWhole(lun)
      /\ SecLists(lun, "backup")' = SecLists(lun, "backup")
      /\ \A k \in Luns : k # lun =>
              /\ PrimState(k)' = PrimState(k) /\ SecState(k)' = SecState(k)
              /\ ByPrimary(k)' = ByPrimary(k)
              /\ BySecondary(k)' = BySecondary(k) /\ Frozen(k)' = Frozen(k)
              /\ \A s \in Stages : Achieved(s, k)' = Achieved(s, k)
  BY StateWritten DEF PrimBad, Tables, GptStates, Chains
<1>2. /\ stage = MAIN /\ lun \in Protected /\ SecState(lun) = "OK"
      /\ ByPrimary(lun) /\ SecLists(lun, "backup")
  BY <1>1 DEF IInv, StepInv
<1>3. PrimState(lun)' = "BAD_SIGNATURE" /\ SecState(lun)' = SecState(lun)
  BY <1>1 DEF PrimState, SecState
<1>4. BySecondary(lun)'
  BY <1>1, <1>2, <1>3 DEF BySecondary, ByPrimary, Protected
<1>5. Achieved(stage, lun)'
  BY <1>1, <1>2, <1>3 DEF Achieved
<1>6. Shape' /\ StepInv' /\ LoopInv' /\ GrantInv'
  BY <1>1, <1>4, <1>5, LastWrite
<1>7. TornInv' /\ XblInv'
  BY <1>1, <1>3 DEF IInv, TornInv, XblInv, Protected
<1> QED BY <1>1, <1>6, <1>7 DEF IInv

\* BACKUP first makes the primary table usable again ...
LEMMA PrimOkInv ==
  ASSUME Ordered, IInv, TypeOK', PrimOk
  PROVE  IInv'
<1> USE DEF Stages, MAIN, BACKUP, FINALIZE
<1>1. /\ OnMedium' /\ lun \in Luns /\ pc = "prim_ok" /\ pc' = "sec_bad"
      /\ UNCHANGED <<bootLun, stage, lun, blk, r, isError, granted, img>>
      /\ hdr'[lun]["prim"].state = "OK"
      /\ hdr'[lun]["sec"].state = hdr[lun]["sec"].state
      /\ PrimWhole(lun)' = PrimWhole(lun)
      /\ \A k \in Luns : k # lun =>
              /\ PrimState(k)' = PrimState(k) /\ SecState(k)' = SecState(k)
              /\ ByPrimary(k)' = ByPrimary(k)
              /\ BySecondary(k)' = BySecondary(k) /\ Frozen(k)' = Frozen(k)
              /\ \A s \in Stages : Achieved(s, k)' = Achieved(s, k)
  BY StateWritten DEF PrimOk, Tables, GptStates, Chains
<1>2. stage = BACKUP /\ PrimState(lun) = "BAD_SIGNATURE"
  BY <1>1 DEF IInv, StepInv
<1>3. BySecondary(lun)
  BY <1>1, <1>2, Shapes DEF IInv
<1>4. PrimState(lun)' = "OK" /\ SecState(lun)' = SecState(lun)
  BY <1>1 DEF PrimState, SecState
<1>5. ByPrimary(lun)'
  BY <1>1, <1>3, <1>4 DEF ByPrimary, BySecondary
<1>6. Shape' /\ StepInv'
  BY <1>1, <1>2, <1>3, <1>4, <1>5 DEF Shape, StepInv, IInv, BySecondary
<1>7. LoopInv'
  <2> SUFFICES ASSUME isError = 0, NEW l \in Luns, Passed(l)'
               PROVE  Achieved(stage, l)'
    BY <1>1 DEF LoopInv
  <2>1. l < lun /\ Achieved(stage, l)
    BY <1>1 DEF Passed, IInv, LoopInv
  <2>2. l # lun
    BY <1>1, <2>1 DEF Luns
  <2> QED BY <1>1, <1>2, <2>1, <2>2
<1>8. GrantInv'
  BY <1>1 DEF IInv, GrantInv
<1>9. TornInv'
  BY <1>1, <1>2, <1>4 DEF IInv, TornInv, Protected
<1>10. XblInv'
  BY <1>1, <1>4 DEF IInv, XblInv
<1> QED BY <1>1, <1>6, <1>7, <1>8, <1>9, <1>10 DEF IInv

\* ... and only then destroys the secondary's signature.
LEMMA SecBadInv ==
  ASSUME Ordered, IInv, TypeOK', SecBad
  PROVE  IInv'
<1> USE DEF Stages, MAIN, BACKUP, FINALIZE
<1>1. /\ OnMedium' /\ lun \in Luns /\ pc = "sec_bad" /\ pc' = "exit"
      /\ UNCHANGED <<bootLun, stage, lun, blk, r, isError, granted, img>>
      /\ hdr'[lun]["sec"].state = "BAD_SIGNATURE"
      /\ hdr'[lun]["prim"].state = hdr[lun]["prim"].state
      /\ PrimWhole(lun)' = PrimWhole(lun)
      /\ \A k \in Luns : k # lun =>
              /\ PrimState(k)' = PrimState(k) /\ SecState(k)' = SecState(k)
              /\ ByPrimary(k)' = ByPrimary(k)
              /\ BySecondary(k)' = BySecondary(k) /\ Frozen(k)' = Frozen(k)
              /\ \A s \in Stages : Achieved(s, k)' = Achieved(s, k)
  BY StateWritten DEF SecBad, Tables, GptStates, Chains
<1>2. stage = BACKUP /\ ByPrimary(lun)
  BY <1>1 DEF IInv, StepInv
<1>3. SecState(lun)' = "BAD_SIGNATURE" /\ PrimState(lun)' = PrimState(lun)
  BY <1>1 DEF PrimState, SecState
<1>4. ByPrimary(lun)'
  BY <1>1, <1>2, <1>3 DEF ByPrimary
<1>5. Achieved(stage, lun)'
  BY <1>1, <1>2, <1>3 DEF Achieved
<1>6. Shape' /\ StepInv' /\ LoopInv' /\ GrantInv'
  BY <1>1, <1>4, <1>5, LastWrite
<1>7. TornInv'
  BY <1>1, <1>2, <1>3 DEF IInv, TornInv, Protected
<1>8. XblInv'
  BY <1>1, <1>3 DEF IInv, XblInv
<1> QED BY <1>1, <1>6, <1>7, <1>8 DEF IInv

\* FINALIZE restores the secondary's signature over a complete array.
LEMMA SecOkInv ==
  ASSUME Ordered, IInv, TypeOK', SecOk
  PROVE  IInv'
<1> USE DEF Stages, MAIN, BACKUP, FINALIZE
<1>1. /\ OnMedium' /\ lun \in Luns /\ pc = "sec_ok" /\ pc' = "exit"
      /\ UNCHANGED <<bootLun, stage, lun, blk, r, isError, granted, img>>
      /\ hdr'[lun]["sec"].state = "OK"
      /\ hdr'[lun]["prim"].state = hdr[lun]["prim"].state
      /\ PrimWhole(lun)' = PrimWhole(lun)
      /\ SecLists(lun, "primary")' = SecLists(lun, "primary")
      /\ \A k \in Luns : k # lun =>
              /\ PrimState(k)' = PrimState(k) /\ SecState(k)' = SecState(k)
              /\ ByPrimary(k)' = ByPrimary(k)
              /\ BySecondary(k)' = BySecondary(k) /\ Frozen(k)' = Frozen(k)
              /\ \A s \in Stages : Achieved(s, k)' = Achieved(s, k)
  BY StateWritten DEF SecOk, Tables, GptStates, Chains
<1>2. stage = FINALIZE /\ ByPrimary(lun) /\ SecLists(lun, "primary")
  BY <1>1 DEF IInv, StepInv
<1>3. SecState(lun)' = "OK" /\ PrimState(lun)' = PrimState(lun)
  BY <1>1 DEF PrimState, SecState
<1>4. ByPrimary(lun)'
  BY <1>1, <1>2, <1>3 DEF ByPrimary
<1>5. Achieved(stage, lun)'
  BY <1>1, <1>2, <1>3, <1>4 DEF Achieved
<1>6. Shape' /\ StepInv' /\ LoopInv' /\ GrantInv'
  BY <1>1, <1>4, <1>5, LastWrite
<1>7. TornInv'
  BY <1>1, <1>2, <1>3 DEF IInv, TornInv, Protected
<1>8. XblInv'
  BY <1>1, <1>3 DEF IInv, XblInv
<1> QED BY <1>1, <1>6, <1>7, <1>8 DEF IInv

\* A failing step writes nothing and claims nothing.
LEMMA StepFailsInv ==
  ASSUME IInv, TypeOK', StepFails
  PROVE  IInv'
<1>1. /\ hdr' = hdr /\ arr' = arr /\ mhdr' = mhdr /\ marr' = marr
      /\ pc # "idle" /\ pc # "return" /\ pc' = "exit" /\ r' = -1
      /\ pc # "exit"
      /\ UNCHANGED <<bootLun, stage, lun, blk, isError, granted, img>>
  BY DEF StepFails, WriteSteps, disk, client
<1>2. OnMedium' /\ Shape' /\ StepInv'
  BY <1>1, DiskSame DEF IInv, StepInv
<1>3. GrantInv' /\ TornInv' /\ XblInv'
  BY <1>1, DiskSame DEF IInv, GrantInv, TornInv, XblInv, Protected
<1>4. LoopInv'
  BY <1>1, DiskSame DEF IInv, LoopInv, Passed, TypeOK
<1> QED BY <1>2, <1>3, <1>4 DEF IInv

\* fsync finds nothing left to do.
LEMMA ExitInv ==
  ASSUME IInv, TypeOK', Exit
  PROVE  IInv'
<1>1. /\ mhdr = hdr /\ marr = arr /\ hdr' = hdr /\ arr' = arr
      /\ hdr \in [Luns -> [Tables -> Header]]
      /\ arr \in [Luns -> [Tables -> Array]]
      /\ pc = "exit" /\ (isError' = 0 => isError = 0 /\ r = 0)
      /\ \/ lun = N /\ pc' = "return" /\ lun' = lun
         \/ lun # N /\ pc' = "open" /\ lun' = lun + 1
      /\ UNCHANGED <<bootLun, stage, blk, granted, img>>
  BY DEF IInv, OnMedium, TypeOK, Exit, NextLun, cache, client
<1>2. /\ [hdr EXCEPT ![lun] = hdr[lun]] = hdr
      /\ [arr EXCEPT ![lun] = arr[lun]] = arr
  BY <1>1
<1>3. mhdr' = mhdr /\ marr' = marr
  BY <1>1, <1>2 DEF Exit
<1> QED BY <1>1, <1>3, NextLunInv

\* The return code 0 is given only when every LUN has been through the stage.
LEMMA ReturnInv ==
  ASSUME IInv, TypeOK', Return
  PROVE  IInv'
<1>1. /\ hdr' = hdr /\ arr' = arr /\ mhdr' = mhdr /\ marr' = marr
      /\ pc = "return" /\ pc' = "idle"
      /\ granted' = IF isError = 0 THEN stage ELSE 0
      /\ UNCHANGED <<bootLun, stage, lun, blk, r, isError, img>>
  BY DEF Return, disk
<1>2. OnMedium' /\ Shape' /\ StepInv' /\ LoopInv'
  BY <1>1, DiskSame DEF IInv, StepInv, LoopInv
<1>3. TornInv' /\ XblInv'
  BY <1>1, DiskSame DEF IInv, TornInv, XblInv, Protected
<1>4. GrantInv'
  <2> SUFFICES ASSUME isError = 0, NEW l \in Luns
               PROVE  Achieved(stage, l)
    BY <1>1, DiskSame DEF GrantInv, IInv, TypeOK
  <2> QED BY <1>1 DEF IInv, LoopInv, Passed
<1> QED BY <1>2, <1>3, <1>4 DEF IInv

\* The client tears a chain only while it holds the grant of its stage.
LEMMA ImagesInv ==
  ASSUME IInv, TypeOK', NEW c \in Chains, BeginImages(c) \/ EndImages(c)
  PROVE  IInv'
<1> USE DEF Stages, MAIN, BACKUP, FINALIZE
<1>1. /\ hdr' = hdr /\ arr' = arr /\ mhdr' = mhdr /\ marr' = marr
      /\ pc = "idle" /\ granted = ImageStage(c)
      /\ img' \in {[img EXCEPT ![c] = "torn"], [img EXCEPT ![c] = "new"]}
      /\ UNCHANGED <<bootLun, pc, stage, lun, blk, r, isError, granted>>
  BY DEF BeginImages, EndImages, disk, run
<1>2. OnMedium' /\ Shape' /\ StepInv' /\ LoopInv' /\ GrantInv'
  BY <1>1, DiskSame DEF IInv, StepInv, LoopInv, GrantInv, TypeOK
<1>3. XblInv'
  BY <1>1, DiskSame DEF IInv, XblInv
<1>4. /\ \A l \in Luns : Achieved(granted, l)
      /\ \A d \in Chains : img'[d] = "torn" => d = c \/ img[d] = "torn"
  BY <1>1 DEF IInv, GrantInv, TypeOK, ImageStage
<1>5. TornInv'
  <2>1. img'["primary"] = "torn" =>
          \A l \in Protected : PrimState(l) = "BAD_SIGNATURE"
    BY <1>1, <1>4 DEF IInv, TornInv, ImageStage, Achieved, Protected, Chains
  <2>2. img'["backup"] = "torn" =>
          \A l \in Luns : SecState(l) = "BAD_SIGNATURE"
    BY <1>1, <1>4 DEF IInv, TornInv, ImageStage, Achieved, Chains
  <2> QED BY <1>1, <2>1, <2>2, DiskSame DEF IInv, TornInv, Protected
<1> QED BY <1>2, <1>3, <1>5 DEF IInv

\* A restart of the process or of the device loses the grant and nothing else.
LEMMA RestartInv ==
  ASSUME IInv, TypeOK', Kill \/ PowerLoss
  PROVE  IInv'
<1>1. /\ hdr' = hdr /\ arr' = arr /\ mhdr' = mhdr /\ marr' = marr
      /\ pc' = "idle" /\ granted' = 0
      /\ UNCHANGED <<bootLun, stage, lun, blk, r, isError, img>>
  BY DEF IInv, OnMedium, Kill, PowerLoss, disk
<1>2. OnMedium' /\ Shape' /\ StepInv' /\ LoopInv' /\ GrantInv'
  BY <1>1, DiskSame DEF IInv, StepInv, LoopInv, GrantInv
<1>3. TornInv' /\ XblInv'
  BY <1>1, DiskSame DEF IInv, TornInv, XblInv, Protected
<1> QED BY <1>2, <1>3 DEF IInv

\* A stuttering step.
LEMMA StutterInv ==
  ASSUME IInv, UNCHANGED vars
  PROVE  IInv'
<1>1. /\ hdr' = hdr /\ arr' = arr /\ mhdr' = mhdr /\ marr' = marr
      /\ UNCHANGED <<bootLun, pc, stage, lun, blk, r, isError, granted, img>>
  BY DEF vars, disk, run, client
<1>2. OnMedium' /\ Shape' /\ TypeOK'
  BY <1>1, DiskSame DEF IInv, TypeOK
<1>3. StepInv'
  BY <1>1 DEF IInv, StepInv, ByPrimary, PrimWhole, SecLists, PrimState,
              SecState
<1>4. LoopInv' /\ GrantInv'
  <2>1. \A l \in Luns : Passed(l)' = Passed(l)
    BY <1>1 DEF Passed
  <2> QED BY <1>1, <2>1, DiskSame DEF IInv, LoopInv, GrantInv, TypeOK
<1>5. TornInv' /\ XblInv'
  BY <1>1, DiskSame DEF IInv, TornInv, XblInv, Protected
<1> QED BY <1>2, <1>3, <1>4, <1>5 DEF IInv

\* Every step keeps the inductive invariant.
LEMMA StepInductive ==
  ASSUME Ordered, IInv, [Next]_vars
  PROVE  IInv'
<1>1. TypeOK'
  BY StepType DEF IInv
<1>2. CASE Program
  <2>1. CASE Open BY <1>1, <2>1, OpenInv
  <2>2. CASE SetXbl BY <1>1, <2>2, SetXblInv
  <2>3. CASE SecHeader BY <1>1, <2>3, SecHeaderInv
  <2>4. CASE SecArray BY <1>1, <2>4, SecArrayInv
  <2>5. CASE PrimBad BY <1>1, <2>5, PrimBadInv
  <2>6. CASE PrimOk BY <1>1, <2>6, PrimOkInv
  <2>7. CASE SecBad BY <1>1, <2>7, SecBadInv
  <2>8. CASE SecOk BY <1>1, <2>8, SecOkInv
  <2>9. CASE Exit BY <1>1, <2>9, ExitInv
  <2>10. CASE Return BY <1>1, <2>10, ReturnInv
  <2> QED BY <1>2, <2>1, <2>2, <2>3, <2>4, <2>5, <2>6, <2>7, <2>8, <2>9,
             <2>10 DEF Program
<1>3. CASE Failure
  <2>1. CASE OpenFails
    BY <1>1, <2>1, OpenFailsInv
  <2>2. CASE StepFails BY <1>1, <2>2, StepFailsInv
  <2>3. CASE ShortWrite BY <2>3 DEF ShortWrite, Ordered
  <2>4. CASE Kill \/ PowerLoss BY <1>1, <2>4, RestartInv
  <2> QED BY <1>3, <2>1, <2>2, <2>3, <2>4 DEF Failure
<1>4. CASE Client
  BY <1>1, <1>4, CallInv, ImagesInv DEF Client
<1>5. CASE WriteBack
  BY <1>5 DEF WriteBack, Ordered
<1>6. CASE UNCHANGED vars
  BY <1>6, StutterInv
<1> QED BY <1>2, <1>3, <1>4, <1>5, <1>6 DEF Next

-----------------------------------------------------------------------------
(* The theorems.                                                           *)

\* The inductive invariant holds on disks that write in order.
THEOREM Invariance == ASSUME Ordered PROVE Spec => []IInv
<1>1. Ordered /\ IInv /\ [Next]_vars => IInv'
  BY StepInductive
<1> QED BY <1>1, InitInv, PTL DEF Spec

\* The chain a LUN boots from, by its shape.
LEMMA ShapeBoots ==
  ASSUME IInv, NEW l \in Luns
  PROVE  /\ ByPrimary(l) \/ Frozen(l) => Boots(l, "primary")
         /\ BySecondary(l) => Boots(l, "backup")
BY UniformArray
DEF IInv, OnMedium, ByPrimary, BySecondary, Frozen, PrimWhole, SecLists,
    Boots, Valid, PrimState, SecState

\* Wherever the update is interrupted, every LUN with backup partitions
\* selects a whole chain of images.
THEOREM FailsafeTheorem == ASSUME Ordered PROVE Spec => []Failsafe
<1>1. IInv => Failsafe
  <2> SUFFICES ASSUME IInv, NEW l \in Protected
               PROVE  \E c \in Chains : Boots(l, c) /\ img[c] # "torn"
    BY DEF Failsafe
  <2>0. l \in Luns
    BY DEF Protected
  <2>1. CASE img["primary"] = "torn"
    <3>1. PrimState(l) = "BAD_SIGNATURE"
      BY <2>1 DEF IInv, TornInv
    <3>2. BySecondary(l)
      BY <2>0, <3>1, Shapes DEF IInv
    <3>3. img["backup"] # "torn"
      BY <2>0, <3>2 DEF IInv, TornInv, BySecondary
    <3> QED BY <2>0, <3>2, <3>3, ShapeBoots DEF Chains
  <2>2. CASE img["primary"] # "torn" /\ (ByPrimary(l) \/ Frozen(l))
    BY <2>0, <2>2, ShapeBoots DEF Chains
  <2>3. CASE BySecondary(l)
    <3>1. img["backup"] # "torn"
      BY <2>0, <2>3 DEF IInv, TornInv, BySecondary
    <3> QED BY <2>0, <2>3, <3>1, ShapeBoots DEF Chains
  <2> QED BY <2>0, <2>1, <2>2, <2>3 DEF IInv, Shape
<1> QED BY <1>1, Invariance, PTL

\* The return code 0 of MAIN and BACKUP keeps its promise on every LUN.
THEOREM GrantTheorem == ASSUME Ordered PROVE Spec => []GrantMeansSwitched
<1>1. IInv => GrantMeansSwitched
  <2> SUFFICES ASSUME IInv, NEW l \in Protected
               PROVE  /\ granted = MAIN => Boots(l, "backup")
                      /\ granted = BACKUP => Boots(l, "primary")
    BY DEF GrantMeansSwitched
  <2>0. l \in Luns
    BY DEF Protected
  <2>1. granted \in {MAIN, BACKUP} => Achieved(granted, l)
    BY <2>0 DEF IInv, GrantInv, MAIN, BACKUP
  <2>2. granted = MAIN => BySecondary(l)
    BY <2>0, <2>1, Shapes DEF IInv, Achieved, MAIN, BACKUP
  <2>3. granted = BACKUP => ByPrimary(l)
    BY <2>0, <2>1, Shapes DEF IInv, Achieved, MAIN, BACKUP
  <2> QED BY <2>0, <2>2, <2>3, ShapeBoots
<1> QED BY <1>1, Invariance, PTL

\* The return code 0 of FINALIZE means that both tables are normal again.
THEOREM FinalTheorem == ASSUME Ordered PROVE Spec => []GrantMeansFinal
<1>1. IInv => GrantMeansFinal
  BY DEF IInv, OnMedium, GrantInv, GrantMeansFinal, Achieved, MAIN, BACKUP,
         FINALIZE, ByPrimary, PrimWhole, SecLists, PrimState, SecState, Tables
<1> QED BY <1>1, Invariance, PTL

\* The return code 0 of BACKUP means that boot LUN A is selected.
THEOREM XblTheorem == ASSUME Ordered PROVE Spec => []XblBackup
<1>1. IInv => XblBackup
  BY DEF IInv, GrantInv, XblInv, XblBackup, Achieved, MAIN, BACKUP, FINALIZE,
         TypeOK
<1> QED BY <1>1, Invariance, PTL

-----------------------------------------------------------------------------
(* Steps.                                                                  *)

\* What one step may change on the disk: only the table writes of a stage
\* change the cache, on the LUN being prepared.
LEMMA QuietSteps ==
  ASSUME IInv, [Next]_vars,
         ~(SecHeader \/ SecArray \/ PrimBad \/ PrimOk \/ SecBad \/ SecOk)
  PROVE  hdr' = hdr /\ arr' = arr
<1>1. OpenFails \/ Open \/ SetXbl \/ Exit \/ Return \/ StepFails \/ ShortWrite
        => hdr' = hdr /\ arr' = arr
  BY DEF OpenFails, Open, SetXbl, Exit, Return, StepFails, ShortWrite, disk,
         cache
<1>2. Kill \/ PowerLoss \/ WriteBack => hdr' = hdr /\ arr' = arr
  BY DEF Kill, PowerLoss, WriteBack, IInv, OnMedium, disk, cache
<1>3. Client => hdr' = hdr /\ arr' = arr
  BY DEF Client, Call, BeginImages, EndImages, disk
<1>4. UNCHANGED vars => hdr' = hdr /\ arr' = arr
  BY DEF vars, disk
<1> QED BY <1>1, <1>2, <1>3, <1>4 DEF Next, Program, Failure

\* The write steps write to the LUN being prepared, which is not damaged.
LEMMA WritingSteps ==
  ASSUME Ordered, IInv,
         SecHeader \/ SecArray \/ PrimBad \/ PrimOk \/ SecBad \/ SecOk,
         ~(hdr' = hdr /\ arr' = arr)
  PROVE  /\ lun \in Luns /\ ~Damaged(lun) /\ img' = img /\ lun' = lun
         /\ \A k \in Luns : k # lun => hdr'[k] = hdr[k] /\ arr'[k] = arr[k]
         /\ PrimState(lun)' =
              IF PrimBad THEN "BAD_SIGNATURE"
              ELSE IF PrimOk THEN "OK" ELSE PrimState(lun)
<1> USE DEF MAIN, BACKUP, FINALIZE
<1>0. /\ lun \in Luns /\ stage \in Stages
      /\ hdr \in [Luns -> [Tables -> Header]]
      /\ arr \in [Luns -> [Tables -> Array]]
  BY DEF IInv, TypeOK
<1>1. CASE SecHeader
  <2>1. /\ pc = "sec_hdr" /\ img' = img /\ lun' = lun
        /\ arr' = arr /\ hdr[lun]["prim"].acrc = arr[lun]["prim"]
        /\ \E h : hdr' = [hdr EXCEPT ![lun]["sec"] = h]
    BY <1>1 DEF SecHeader, WriteHeader, disk, client
  <2>2. \A t \in Tables : hdr[lun][t].state # "BAD_CRC"
    BY <1>0, <2>1 DEF IInv, StepInv, PrimState, SecState, Tables, Stages
  <2>3. ~PrimBad /\ ~PrimOk
    BY <2>1 DEF PrimBad, PrimOk, SetState
  <2> QED BY <1>0, <2>1, <2>2, <2>3 DEF Damaged, PrimState, Tables
<1>2. CASE SecArray
  <2>1. /\ pc = "sec_arr" /\ img' = img /\ lun' = lun /\ hdr' = hdr
        /\ \E i, v : arr' = [arr EXCEPT ![lun]["sec"][i] = v]
    BY <1>2 DEF SecArray, WriteBlock, client
  <2>2. ByPrimary(lun) /\ SecState(lun) \in {"OK", "BAD_SIGNATURE"}
    BY <1>0, <2>1 DEF IInv, StepInv, Stages
  <2>3. ~PrimBad /\ ~PrimOk
    BY <2>1 DEF PrimBad, PrimOk, SetState
  <2> QED BY <1>0, <2>1, <2>2, <2>3
          DEF Damaged, PrimState, SecState, ByPrimary, PrimWhole, Tables
<1>3. CASE PrimBad
  <2>1. /\ pc = "prim_bad" /\ img' = img /\ lun' = lun /\ arr' = arr
        /\ hdr' = [hdr EXCEPT ![lun]["prim"] =
                     [hdr[lun]["prim"] EXCEPT !.state = "BAD_SIGNATURE"]]
    BY <1>3 DEF PrimBad, SetState, WriteHeader, client
  <2>2. ByPrimary(lun) /\ SecState(lun) = "OK"
    BY <2>1 DEF IInv, StepInv
  <2>3. hdr[lun]["prim"] \in Header
    BY <1>0 DEF Tables
  <2>4. PrimState(lun)' = "BAD_SIGNATURE"
    BY <1>0, <2>1, <2>3 DEF PrimState, Header, Tables
  <2> QED BY <1>0, <1>3, <2>1, <2>2, <2>4
          DEF Damaged, PrimState, SecState, ByPrimary, PrimWhole, Tables
<1>4. CASE PrimOk
  <2>1. /\ pc = "prim_ok" /\ img' = img /\ lun' = lun /\ arr' = arr
        /\ hdr' = [hdr EXCEPT ![lun]["prim"] =
                     [hdr[lun]["prim"] EXCEPT !.state = "OK"]]
    BY <1>4 DEF PrimOk, SetState, WriteHeader, client
  <2>2. BySecondary(lun)
    BY <1>0, <2>1, Shapes DEF IInv, StepInv
  <2>3. hdr[lun]["prim"] \in Header
    BY <1>0 DEF Tables
  <2>4. PrimState(lun)' = "OK" /\ ~PrimBad
    BY <1>0, <2>1, <2>3 DEF PrimState, Header, Tables, PrimBad, SetState
  <2> QED BY <1>0, <1>4, <2>1, <2>2, <2>4
          DEF Damaged, PrimState, SecState, BySecondary, PrimWhole, Tables
<1>5. CASE SecBad \/ SecOk
  <2>1. /\ pc \in {"sec_bad", "sec_ok"} /\ img' = img /\ lun' = lun
        /\ arr' = arr /\ \E h : hdr' = [hdr EXCEPT ![lun]["sec"] = h]
    BY <1>5 DEF SecBad, SecOk, SetState, WriteHeader, client
  <2>2. ByPrimary(lun) /\ SecState(lun) \in {"OK", "BAD_SIGNATURE"}
    BY <2>1 DEF IInv, StepInv
  <2>3. ~PrimBad /\ ~PrimOk
    BY <2>1 DEF PrimBad, PrimOk, SetState
  <2> QED BY <1>0, <2>1, <2>2, <2>3
          DEF Damaged, PrimState, SecState, ByPrimary, PrimWhole, Tables
<1> QED BY <1>1, <1>2, <1>3, <1>4, <1>5

\* The chain a LUN boots from is decided by the primary's signature.
ChainByState ==
  \A l \in Luns : BootChain(l) = IF PrimState(l) = "BAD_SIGNATURE"
                                THEN "backup" ELSE "primary"

LEMMA ChainOfState == IInv => ChainByState
<1> SUFFICES ASSUME IInv, NEW l \in Luns
             PROVE  BootChain(l) = IF PrimState(l) = "BAD_SIGNATURE"
                                   THEN "backup" ELSE "primary"
  BY DEF ChainByState
<1>1. CASE PrimState(l) = "BAD_SIGNATURE"
  <2>1. BySecondary(l)
    BY <1>1, Shapes DEF IInv
  <2>2. ~Boots(l, "primary")
    BY <1>1, <2>1, UniformArray
    DEF IInv, OnMedium, BySecondary, SecLists, Boots, Valid, PrimState
  <2> QED BY <1>1, <2>1, <2>2, ShapeBoots DEF BootChain
<1>2. CASE PrimState(l) # "BAD_SIGNATURE"
  <2>1. ByPrimary(l) \/ Frozen(l)
    BY <1>2 DEF IInv, Shape, BySecondary
  <2> QED BY <1>2, <2>1, ShapeBoots DEF BootChain
<1> QED BY <1>1, <1>2

\* A step maps to a step of FailsafeBoot, or to none: PrimBad and PrimOk
\* switch the LUN being prepared, the client's writes are the writes.
LEMMA StepRefines ==
  ASSUME Ordered, IInv, IInv', ChainByState, ChainByState', [Next]_vars
  PROVE  [FB!Next]_<<[l \in Protected |-> BootChain(l)], img>>
<1> DEFINE boots == [l \in Protected |-> BootChain(l)]
<1> USE DEF MAIN, BACKUP, FINALIZE
<1>1. CASE PrimBad
  <2>1. /\ pc = "prim_bad" /\ lun \in Luns /\ img' = img /\ lun' = lun
        /\ \A k \in Luns : k # lun => PrimState(k)' = PrimState(k)
        /\ PrimState(lun)' = "BAD_SIGNATURE"
    BY <1>1, StateWritten DEF PrimBad, Tables, GptStates, PrimState
  <2>2. lun \in Protected /\ SecState(lun) = "OK"
    BY <2>1 DEF IInv, StepInv
  <2>3. img["backup"] # "torn"
    BY <2>1, <2>2 DEF IInv, TornInv
  <2>4. boots' = [boots EXCEPT ![lun] = "backup"]
    <3>1. \A l \in Protected :
            BootChain(l)' = IF l = lun THEN "backup" ELSE BootChain(l)
      BY <2>1, <2>2 DEF ChainByState, Protected, PrimState
    <3> HIDE DEF Protected
    <3> QED BY <3>1
  <2>5. FB!Switch(lun, "backup")
    BY <2>1, <2>3, <2>4 DEF FB!Switch
  <2> QED BY <2>2, <2>5 DEF FB!Next, Chains
<1>2. CASE PrimOk
  <2>1. /\ pc = "prim_ok" /\ lun \in Luns /\ img' = img /\ lun' = lun
        /\ \A k \in Luns : k # lun => PrimState(k)' = PrimState(k)
        /\ PrimState(lun)' = "OK"
    <3>1. /\ pc = "prim_ok" /\ lun \in Luns /\ lun' = lun /\ img' = img
          /\ hdr'[lun]["prim"].state = "OK"
          /\ \A k \in Luns : k # lun => PrimState(k)' = PrimState(k)
      BY <1>2, StateWritten DEF PrimOk, Tables, GptStates
    <3> QED BY <3>1 DEF PrimState
  <2>2. stage = BACKUP /\ lun \in Protected
    BY <2>1, Shapes DEF IInv, StepInv, BySecondary
  <2>3. img["primary"] # "torn"
    BY <2>1, <2>2 DEF IInv, TornInv
  <2>4. boots' = [boots EXCEPT ![lun] = "primary"]
    <3>1. \A l \in Protected :
            BootChain(l)' = IF l = lun THEN "primary" ELSE BootChain(l)
      BY <2>1, <2>2 DEF ChainByState, Protected, PrimState
    <3> HIDE DEF Protected
    <3> QED BY <3>1
  <2>5. FB!Switch(lun, "primary")
    BY <2>1, <2>3, <2>4 DEF FB!Switch
  <2> QED BY <2>2, <2>5 DEF FB!Next, Chains
<1>3. ASSUME \A l \in Luns : PrimState(l)' = PrimState(l)
      PROVE  boots' = boots
  BY <1>3 DEF ChainByState, Protected
<1>4. ASSUME NEW c \in Chains, BeginImages(c)
      PROVE  FB!BeginWrite(c)
  <2>1. /\ hdr' = hdr /\ img' = [img EXCEPT ![c] = "torn"]
        /\ granted = ImageStage(c)
    BY <1>4 DEF BeginImages, disk
  <2>2. boots' = boots
    BY <1>3, <2>1 DEF PrimState
  <2>3. \A l \in Protected : boots[l] # c
    <3>1. \A l \in Luns : Achieved(granted, l)
      BY <2>1 DEF IInv, GrantInv, ImageStage
    <3>2. \A l \in Protected :
            /\ c = "primary" => PrimState(l) = "BAD_SIGNATURE"
            /\ c = "backup" => PrimState(l) # "BAD_SIGNATURE"
      BY <2>1, <3>1, Shapes DEF IInv, Achieved, ImageStage, Protected, ByPrimary
    <3> QED BY <3>2 DEF ChainByState, Protected, Chains
  <2> QED BY <2>1, <2>2, <2>3 DEF FB!BeginWrite
<1>5. ASSUME NEW c \in Chains, EndImages(c)
      PROVE  FB!EndWrite(c)
  <2>1. hdr' = hdr /\ img[c] = "torn" /\ img' = [img EXCEPT ![c] = "new"]
    BY <1>5 DEF EndImages, disk
  <2>2. boots' = boots
    BY <1>3, <2>1 DEF PrimState
  <2> QED BY <2>1, <2>2 DEF FB!EndWrite
<1>6. CASE SecHeader \/ SecArray \/ SecBad \/ SecOk
  <2>1. ~PrimBad /\ ~PrimOk
    BY <1>6 DEF SecHeader, SecArray, SecBad, SecOk, PrimBad, PrimOk, SetState
  <2>2. img' = img
    BY <1>6 DEF SecHeader, SecArray, SecBad, SecOk, SetState, client
  <2>3. \A l \in Luns : PrimState(l)' = PrimState(l)
    <3>1. CASE hdr' = hdr /\ arr' = arr
      BY <3>1 DEF PrimState
    <3>2. CASE ~(hdr' = hdr /\ arr' = arr)
      BY <1>6, <2>1, <3>2, WritingSteps DEF PrimState
    <3> QED BY <3>1, <3>2
  <2> QED BY <1>3, <2>2, <2>3
<1>7. CASE /\ ~(SecHeader \/ SecArray \/ PrimBad \/ PrimOk \/ SecBad \/ SecOk)
           /\ ~\E c \in Chains : BeginImages(c) \/ EndImages(c)
  <2>1. hdr' = hdr
    BY <1>7, QuietSteps
  <2>2. img' = img
    BY <1>7 DEF Next, Program, Failure, Client, Call, OpenFails, Open, SetXbl,
                Exit, Return, StepFails, ShortWrite, Kill, PowerLoss,
                WriteBack, vars, client
  <2> QED BY <1>3, <2>1, <2>2 DEF PrimState
<1> QED BY <1>1, <1>2, <1>4, <1>5, <1>6, <1>7 DEF FB!Next

\* Seen through the chain each LUN boots from, the program only takes steps
\* of FailsafeBoot: the multi-write switch is indivisible, and no chain is
\* overwritten while a LUN selects it.
THEOREM Refinement == ASSUME Ordered PROVE Spec => ImplementsFailsafeBoot
<1>1. Init => FB!Init
  <2> SUFFICES ASSUME Init PROVE FB!Init OBVIOUS
  <2>1. ChainByState
    BY InitInv, ChainOfState
  <2>2. \A l \in Luns : PrimState(l) # "BAD_SIGNATURE"
    BY DEF Init, InitDisk, PrimState, Tables
  <2>3. \A l \in Protected : BootChain(l) = "primary"
    BY <2>1, <2>2 DEF ChainByState, Protected
  <2> QED BY <2>3 DEF FB!Init, Init
<1>2. IInv /\ IInv' /\ ChainByState /\ ChainByState' /\ [Next]_vars
        => [FB!Next]_<<[l \in Protected |-> BootChain(l)], img>>
  BY StepRefines
<1> QED BY <1>1, <1>2, Invariance, ChainOfState, PTL
        DEF Spec, ImplementsFailsafeBoot, FB!Spec
-----------------------------------------------------------------------------
(* Any storage: what holds whatever the disk does with the writes.         *)

\* Every array that the program computes from a whole one is a whole one.
LEMMA WholeArrays ==
  ASSUME NEW s \in Stages, NEW a, NEW c \in Chains, a = Uniform(c)
  PROVE  \E d \in Chains : NewEntries(s, a) = Uniform(d)
<1>1. Swap(Uniform(c)) = Uniform(IF c = "primary" THEN "backup" ELSE "primary")
  BY DEF Swap, Uniform
<1> QED BY <1>1 DEF NewEntries, Chains

\* What may be written to is known from the cached tables alone.
LEMMA UntouchableKept ==
  ASSUME NEW l \in Luns,
         \A t \in Tables : hdr'[l][t].state = "BAD_CRC"
                             => hdr[l][t].state = "BAD_CRC",
         hdr'[l]["prim"].acrc = hdr[l]["prim"].acrc,
         arr'[l]["prim"] = arr[l]["prim"],
         Untouchable(l)'
  PROVE  Untouchable(l)
BY DEF Untouchable, Damaged, Protected

\* Initially the medium is the cache, and no program is running.
LEMMA InitFault == Init => FaultInv
<1> SUFFICES ASSUME Init PROVE FaultInv OBVIOUS
<1>1. PICK damage \in [Luns -> {"none", "prim", "sec", "array"}] :
        InitDisk(damage)
  BY DEF Init
<1>2. \A l \in Luns, t \in Tables :
        /\ hdr[l][t].acrc = Uniform("primary")
        /\ hdr[l][t].state # "BAD_SIGNATURE"
  BY <1>1 DEF InitDisk
<1>3. mhdr = hdr /\ marr = arr /\ pc = "idle"
  BY DEF Init
<1>4. CrcInv
  BY <1>2, <1>3 DEF CrcInv, Chains
<1>5. BadCrcInv /\ AloneInv
  BY <1>2, <1>3 DEF BadCrcInv, AloneInv, WriteSteps
<1> QED BY <1>4, <1>5, InitType DEF FaultInv

\* A step that leaves the disk alone keeps FaultInv if it leaves the program
\* where a LUN that no stage may write to is safe.
LEMMA NoWriteFault ==
  ASSUME FaultInv, TypeOK', UNCHANGED disk,
         pc' \in WriteSteps =>
           /\ lun' = lun
           /\ Untouchable(lun) =>
                /\ pc' \in {"set_xbl", "sec_hdr"} /\ stage' = MAIN
                /\ \A t \in Tables : hdr[lun][t].state # "BAD_CRC"
  PROVE  FaultInv'
<1>1. hdr' = hdr /\ arr' = arr /\ mhdr' = mhdr /\ marr' = marr
  BY DEF disk
<1>2. CrcInv' /\ BadCrcInv'
  BY <1>1 DEF FaultInv, CrcInv, BadCrcInv
<1>3. \A l \in Luns : Untouchable(l)' <=> Untouchable(l)
  BY <1>1 DEF Untouchable, Damaged, Protected
<1>4. AloneInv'
  BY <1>1, <1>3 DEF FaultInv, AloneInv
<1> QED BY <1>2, <1>4 DEF FaultInv

\* open() and the checks of the stage: MAIN alone gets past them on a LUN
\* that no stage may write to.
LEMMA OpenFault ==
  ASSUME FaultInv, TypeOK', Open
  PROVE  FaultInv'
<1> USE DEF MAIN, BACKUP, FINALIZE
<1>1. UNCHANGED disk /\ lun' = lun /\ stage' = stage /\ lun \in Luns
  BY DEF Open, FaultInv, TypeOK
<1>2. ASSUME pc' \in WriteSteps, Untouchable(lun)
      PROVE  /\ pc' \in {"set_xbl", "sec_hdr"} /\ stage' = MAIN
             /\ \A t \in Tables : hdr[lun][t].state # "BAD_CRC"
  <2>1. \A t \in Tables : hdr[lun][t].state # "BAD_SIGNATURE"
    BY <1>1, <1>2 DEF FaultInv, AloneInv
  <2>2. /\ pc' = FirstStep(stage)
        /\ Acceptable(hdr[lun]["prim"].state, hdr[lun]["sec"].state)
        /\ stage = InternalStage(hdr[lun]["prim"].state, hdr[lun]["sec"].state)
    BY <1>2 DEF Open, WriteSteps
  <2>3. \A t \in Tables : hdr[lun][t].state = "OK"
    <3>1. \A t \in Tables : hdr[lun][t].state \in GptStates
      BY <1>1 DEF FaultInv, TypeOK, Header
    <3> QED BY <2>1, <2>2, <3>1 DEF Acceptable, GptStates, Tables
  <2>4. stage = MAIN
    BY <2>2, <2>3 DEF InternalStage, Tables
  <2> QED BY <1>1, <2>2, <2>3, <2>4 DEF FirstStep
<1> QED BY <1>1, <1>2, NoWriteFault

\* The other steps that leave the disk alone.
LEMMA QuietFault ==
  ASSUME FaultInv, TypeOK',
         \/ OpenFails \/ SetXbl \/ ShortWrite \/ StepFails \/ Return \/ Kill
         \/ \E s \in Stages : Call(s)
         \/ \E c \in Chains : BeginImages(c) \/ EndImages(c)
         \/ UNCHANGED vars
  PROVE  FaultInv'
<1> USE DEF MAIN, BACKUP, FINALIZE
<1>0. lun \in Luns
  BY DEF FaultInv, TypeOK
<1>1. CASE \/ OpenFails \/ StepFails \/ Return \/ Kill
           \/ \E s \in Stages : Call(s)
  <2>1. UNCHANGED disk
    BY <1>1 DEF OpenFails, StepFails, Return, Kill, Call
  <2>2. pc' \notin WriteSteps
    BY <1>1 DEF OpenFails, StepFails, Return, Kill, Call, NextLun, WriteSteps
  <2> QED BY <2>1, <2>2, NoWriteFault
<1>2. CASE SetXbl
  <2>1. /\ UNCHANGED disk /\ lun' = lun /\ stage' = stage /\ pc = "set_xbl"
        /\ pc' = IF stage = MAIN THEN "sec_hdr" ELSE "prim_ok"
    BY <1>2 DEF SetXbl
  <2>2. Untouchable(lun) => /\ stage = MAIN
                            /\ \A t \in Tables : hdr[lun][t].state # "BAD_CRC"
    BY <1>0, <2>1 DEF FaultInv, AloneInv, WriteSteps
  <2> QED BY <2>1, <2>2, NoWriteFault
<1>3. CASE ShortWrite
  <2>1. UNCHANGED disk /\ lun' = lun /\ pc = "sec_arr"
    BY <1>3 DEF ShortWrite
  <2>2. ~Untouchable(lun)
    BY <1>0, <2>1 DEF FaultInv, AloneInv, WriteSteps
  <2> QED BY <2>1, <2>2, NoWriteFault
<1>4. CASE \/ \E c \in Chains : BeginImages(c) \/ EndImages(c)
           \/ UNCHANGED vars
  <2>1. UNCHANGED disk /\ UNCHANGED <<pc, lun, stage>>
    BY <1>4 DEF BeginImages, EndImages, vars, run
  <2>2. Untouchable(lun) /\ pc \in WriteSteps =>
          /\ pc \in {"set_xbl", "sec_hdr"} /\ stage = MAIN
          /\ \A t \in Tables : hdr[lun][t].state # "BAD_CRC"
    BY <1>0 DEF FaultInv, AloneInv
  <2> QED BY <2>1, <2>2, NoWriteFault
<1> QED BY <1>1, <1>2, <1>3, <1>4

\* Writing back, fsync and the loss of power move values between cache and
\* medium: LUNs on which the two agree do not change.
LEMMA MovedFault ==
  ASSUME FaultInv, TypeOK', pc' \notin WriteSteps \/ UNCHANGED <<pc, lun, stage>>,
         \A l \in Luns, t \in Tables :
           /\ hdr'[l][t] \in {hdr[l][t], mhdr[l][t]}
           /\ mhdr'[l][t] \in {hdr[l][t], mhdr[l][t]}
           /\ \A i \in 1..B : /\ arr'[l][t][i] \in {arr[l][t][i], marr[l][t][i]}
                              /\ marr'[l][t][i] \in {arr[l][t][i], marr[l][t][i]}
  PROVE  /\ FaultInv'
         /\ \A l \in Luns : Untouchable(l) => hdr'[l] = hdr[l] /\ arr'[l] = arr[l]
<1>1. /\ CrcInv /\ BadCrcInv /\ AloneInv /\ TypeOK
  BY DEF FaultInv
<1>2. \A l \in Luns : /\ hdr[l] \in [Tables -> Header] /\ arr[l] \in [Tables -> Array]
                      /\ hdr'[l] \in [Tables -> Header]
                      /\ arr'[l] \in [Tables -> Array]
                      /\ mhdr'[l] \in [Tables -> Header]
                      /\ marr[l] \in [Tables -> Array]
                      /\ marr'[l] \in [Tables -> Array]
  BY DEF FaultInv, TypeOK
<1>3. ASSUME NEW l \in Luns, Untouchable(l)
      PROVE  /\ hdr'[l] = hdr[l] /\ mhdr'[l] = hdr[l]
             /\ arr'[l] = arr[l] /\ marr'[l] = arr[l]
  <2>1. mhdr[l] = hdr[l] /\ marr[l] = arr[l]
    BY <1>1, <1>3 DEF AloneInv
  <2>2. hdr'[l] = hdr[l] /\ mhdr'[l] = hdr[l]
    BY <1>2, <2>1
  <2>3. ASSUME NEW t \in Tables
        PROVE  arr'[l][t] = arr[l][t] /\ marr'[l][t] = arr[l][t]
    <3>1. \A i \in 1..B : /\ arr'[l][t][i] = arr[l][t][i]
                          /\ marr'[l][t][i] = arr[l][t][i]
      BY <2>1
    <3>2. arr[l][t] \in Array /\ arr'[l][t] \in Array /\ marr'[l][t] \in Array
      BY <1>2
    <3> QED BY <3>1, <3>2 DEF Array
  <2>4. arr'[l] = arr[l] /\ marr'[l] = arr[l]
    BY <1>2, <2>3
  <2> QED BY <2>2, <2>4
<1>4. ASSUME NEW l \in Luns
      PROVE  arr'[l]["prim"] = arr[l]["prim"] /\ marr'[l]["prim"] = arr[l]["prim"]
  <2>1. marr[l]["prim"] = arr[l]["prim"]
    BY <1>1 DEF CrcInv
  <2>2. \A i \in 1..B : /\ arr'[l]["prim"][i] = arr[l]["prim"][i]
                        /\ marr'[l]["prim"][i] = arr[l]["prim"][i]
    BY <2>1 DEF Tables
  <2>3. /\ arr[l]["prim"] \in Array /\ arr'[l]["prim"] \in Array
        /\ marr'[l]["prim"] \in Array
    BY <1>2 DEF Tables
  <2> QED BY <2>2, <2>3 DEF Array
<1>5. CrcInv'
  <2>1. ASSUME NEW l \in Luns, NEW t \in Tables
        PROVE  \E c, d \in Chains : hdr'[l][t].acrc = Uniform(c)
                                    /\ mhdr'[l][t].acrc = Uniform(d)
    <3>1. PICK c \in Chains, d \in Chains :
            hdr[l][t].acrc = Uniform(c) /\ mhdr[l][t].acrc = Uniform(d)
      BY <1>1 DEF CrcInv
    <3>2. hdr'[l][t].acrc \in {Uniform(c), Uniform(d)}
      BY <3>1
    <3>3. mhdr'[l][t].acrc \in {Uniform(c), Uniform(d)}
      BY <3>1
    <3> QED BY <3>2, <3>3
  <2>2. \A l \in Luns : mhdr'[l]["prim"].acrc = hdr'[l]["prim"].acrc
    <3>1. "prim" \in Tables
      BY DEF Tables
    <3> QED BY <1>1, <3>1 DEF CrcInv
  <2> QED BY <1>4, <2>1, <2>2 DEF CrcInv, Uniform
<1>6. BadCrcInv'
  BY <1>1 DEF BadCrcInv
<1>7. \A l \in Luns : Untouchable(l)' => Untouchable(l)
  BY <1>1, <1>4, UntouchableKept DEF BadCrcInv, CrcInv, Tables
<1>8. AloneInv'
  <2> SUFFICES ASSUME NEW l \in Luns, Untouchable(l)' PROVE
        /\ mhdr'[l] = hdr'[l] /\ marr'[l] = arr'[l]
        /\ \A t \in Tables : hdr'[l][t].state # "BAD_SIGNATURE"
        /\ l = lun' /\ pc' \in WriteSteps =>
             /\ pc' \in {"set_xbl", "sec_hdr"} /\ stage' = MAIN
             /\ \A t \in Tables : hdr'[l][t].state # "BAD_CRC"
    BY DEF AloneInv
  <2>1. Untouchable(l)
    BY <1>7
  <2> QED BY <1>1, <1>3, <2>1 DEF AloneInv
<1> QED BY <1>3, <1>5, <1>6, <1>8 DEF FaultInv

\* fsync, the kernel writing back, and a loss of power.
LEMMA StorageSteps ==
  ASSUME FaultInv, TypeOK', Exit \/ WriteBack \/ PowerLoss
  PROVE  /\ FaultInv'
         /\ \A l \in Luns : Untouchable(l) => hdr'[l] = hdr[l] /\ arr'[l] = arr[l]
<1>0. /\ lun \in Luns
      /\ hdr \in [Luns -> [Tables -> Header]] /\ arr \in [Luns -> [Tables -> Array]]
      /\ mhdr \in [Luns -> [Tables -> Header]]
      /\ marr \in [Luns -> [Tables -> Array]]
  BY DEF FaultInv, TypeOK
<1>1. pc' \notin WriteSteps \/ UNCHANGED <<pc, lun, stage>>
  BY DEF Exit, NextLun, WriteBack, PowerLoss, WriteSteps, run
<1>2. ASSUME NEW l \in Luns, NEW t \in Tables
      PROVE
           /\ hdr'[l][t] \in {hdr[l][t], mhdr[l][t]}
           /\ mhdr'[l][t] \in {hdr[l][t], mhdr[l][t]}
           /\ \A i \in 1..B : /\ arr'[l][t][i] \in {arr[l][t][i], marr[l][t][i]}
                              /\ marr'[l][t][i] \in {arr[l][t][i], marr[l][t][i]}
  <2>1. CASE PowerLoss
    BY <2>1 DEF PowerLoss
  <2>2. CASE Exit
    BY <1>0, <2>2 DEF Exit, cache
  <2>3. CASE WriteBack
    <3>1. hdr' = hdr /\ arr' = arr
      BY <2>3 DEF WriteBack, cache
    <3>2. PICK k \in Luns, u \in Tables :
            \/ mhdr' = [mhdr EXCEPT ![k][u] = hdr[k][u]] /\ marr' = marr
            \/ \E i \in 1..B : /\ marr' = [marr EXCEPT ![k][u][i] = arr[k][u][i]]
                              /\ mhdr' = mhdr
      BY <2>3 DEF WriteBack
    <3>3. CASE mhdr' = [mhdr EXCEPT ![k][u] = hdr[k][u]] /\ marr' = marr
      BY <1>0, <3>1, <3>3
    <3>4. ASSUME NEW i \in 1..B,
                 marr' = [marr EXCEPT ![k][u][i] = arr[k][u][i]], mhdr' = mhdr
          PROVE  \A j \in 1..B : marr'[l][t][j] \in {arr[l][t][j], marr[l][t][j]}
      <4>1. marr[k][u] \in Array /\ arr[k][u] \in Array
        BY <1>0
      <4>2. CASE k = l /\ u = t
        <5>1. marr'[l][t] = [marr[l][t] EXCEPT ![i] = arr[l][t][i]]
          BY <1>0, <3>4, <4>2
        <5> QED BY <4>1, <4>2, <5>1 DEF Array
      <4>3. CASE k # l \/ u # t
        BY <1>0, <3>4, <4>3
      <4> QED BY <4>2, <4>3
    <3> QED BY <3>1, <3>2, <3>3, <3>4
  <2> QED BY <2>1, <2>2, <2>3
<1> QED BY <1>1, <1>2, MovedFault

\* What a write step does to the cached tables: one header, or one block of
\* the secondary array, of a LUN that may be written to.
LEMMA WriteFault ==
  ASSUME FaultInv, TypeOK', ~Untouchable(lun), lun' = lun,
         \A k \in Luns, u \in Tables : k # lun =>
           /\ hdr'[k][u] = hdr[k][u] /\ arr'[k][u] = arr[k][u]
           /\ mhdr'[k][u] = mhdr[k][u] /\ marr'[k][u] = marr[k][u],
         arr'[lun]["prim"] = arr[lun]["prim"],
         marr'[lun]["prim"] = marr[lun]["prim"],
         hdr'[lun]["prim"].acrc = hdr[lun]["prim"].acrc,
         \A u \in Tables :
           /\ hdr'[lun][u].state # "BAD_CRC"
           /\ \E d \in Chains : hdr'[lun][u].acrc = Uniform(d)
           /\ mhdr'[lun][u] \in {mhdr[lun][u], hdr'[lun][u]}
  PROVE  /\ FaultInv'
         /\ \A l \in Luns : Untouchable(l) => hdr'[l] = hdr[l] /\ arr'[l] = arr[l]
<1>1. /\ CrcInv /\ BadCrcInv /\ AloneInv /\ TypeOK /\ lun \in Luns
  BY DEF FaultInv, TypeOK
<1>2. \A l \in Luns : l # lun =>
        /\ hdr'[l] = hdr[l] /\ arr'[l] = arr[l]
        /\ mhdr'[l] = mhdr[l] /\ marr'[l] = marr[l]
  BY DEF FaultInv, TypeOK
<1>3. \A u \in Tables : hdr[lun][u].state # "BAD_CRC"
  BY DEF Untouchable, Damaged
<1>4. \A u \in Tables : mhdr'[lun][u].state # "BAD_CRC"
  BY <1>1, <1>3 DEF BadCrcInv
<1>5. CrcInv'
  <2>1. \A l \in Luns, t \in Tables : \E c, d \in Chains :
          hdr'[l][t].acrc = Uniform(c) /\ mhdr'[l][t].acrc = Uniform(d)
    <3> SUFFICES ASSUME NEW l \in Luns, NEW t \in Tables
                 PROVE  \E c, d \in Chains : hdr'[l][t].acrc = Uniform(c)
                                             /\ mhdr'[l][t].acrc = Uniform(d)
      OBVIOUS
    <3>1. CASE l = lun
      BY <1>1, <3>1 DEF CrcInv
    <3>2. CASE l # lun
      BY <1>1, <1>2, <3>2 DEF CrcInv
    <3> QED BY <3>1, <3>2
  <2>2. \A l \in Luns : /\ mhdr'[l]["prim"].acrc = hdr'[l]["prim"].acrc
                        /\ marr'[l]["prim"] = arr'[l]["prim"]
    BY <1>1, <1>2 DEF CrcInv, Tables
  <2> QED BY <2>1, <2>2 DEF CrcInv, Uniform
<1>6. BadCrcInv'
  BY <1>1, <1>2, <1>4 DEF BadCrcInv
<1>7. \A l \in Luns : Untouchable(l)' => Untouchable(l)
  BY <1>1, <1>2, UntouchableKept
<1>8. AloneInv'
  BY <1>1, <1>2, <1>7 DEF AloneInv
<1> QED BY <1>2, <1>5, <1>6, <1>8 DEF FaultInv

\* The write of the secondary header: MAIN finds no backup partitions on the
\* LUN, or the primary array is damaged, or the LUN may be written to.
LEMMA SecHeaderFault ==
  ASSUME FaultInv, TypeOK', SecHeader
  PROVE  /\ FaultInv'
         /\ \A l \in Luns : Untouchable(l) => hdr'[l] = hdr[l] /\ arr'[l] = arr[l]
<1> DEFINE a == arr[lun]["prim"]
           h == [hdr[lun]["sec"] EXCEPT !.acrc = NewEntries(stage, a)]
<1>1. /\ lun \in Luns /\ stage \in Stages /\ pc = "sec_hdr" /\ lun' = lun
      /\ CrcInv /\ AloneInv
      /\ hdr \in [Luns -> [Tables -> Header]]
      /\ mhdr \in [Luns -> [Tables -> Header]]
  BY DEF SecHeader, FaultInv, TypeOK
<1>2. CASE UNCHANGED disk /\ pc' = "exit"
  <2>1. FaultInv'
    BY <1>2, NoWriteFault DEF WriteSteps
  <2> QED BY <1>2, <2>1 DEF disk
<1>3. CASE /\ hdr[lun]["prim"].acrc = a /\ ~(stage = MAIN /\ ~HasBackup[lun])
           /\ WriteHeader(lun, "sec", h)
  <2>1. ~Untouchable(lun)
    <3>1. Untouchable(lun) => /\ stage = MAIN
                              /\ \A t \in Tables : hdr[lun][t].state # "BAD_CRC"
      BY <1>1 DEF AloneInv, WriteSteps
    <3> QED BY <1>1, <1>3, <3>1 DEF Untouchable, Damaged, Protected
  <2>2. PICK c \in Chains : a = Uniform(c)
    BY <1>1, <1>3 DEF CrcInv, Tables
  <2>3. PICK d \in Chains : NewEntries(stage, a) = Uniform(d)
    BY <1>1, <2>2, WholeArrays
  <2>4. h.acrc = Uniform(d) /\ h.state = hdr[lun]["sec"].state
    <3>1. hdr[lun]["sec"] \in Header
      BY <1>1 DEF Tables
    <3> QED BY <2>3, <3>1 DEF Header
  <2> HIDE DEF h
  <2>5. arr' = arr /\ marr' = marr /\ hdr' = [hdr EXCEPT ![lun]["sec"] = h]
        /\ mhdr' \in {mhdr, [mhdr EXCEPT ![lun]["sec"] = h]}
    BY <1>3 DEF WriteHeader
  <2>6. /\ hdr'[lun]["sec"] = h /\ hdr'[lun]["prim"] = hdr[lun]["prim"]
        /\ mhdr'[lun]["sec"] \in {mhdr[lun]["sec"], h}
        /\ mhdr'[lun]["prim"] = mhdr[lun]["prim"]
        /\ \A k \in Luns, u \in Tables : k # lun =>
             hdr'[k][u] = hdr[k][u] /\ mhdr'[k][u] = mhdr[k][u]
    BY <1>1, <2>5 DEF Tables
  <2>7. \A u \in Tables : hdr[lun][u].state # "BAD_CRC"
    BY <2>1 DEF Untouchable, Damaged
  <2>8. \A u \in Tables :
          /\ hdr'[lun][u].state # "BAD_CRC"
          /\ \E e \in Chains : hdr'[lun][u].acrc = Uniform(e)
          /\ mhdr'[lun][u] \in {mhdr[lun][u], hdr'[lun][u]}
    <3>1. \E e \in Chains : hdr[lun]["prim"].acrc = Uniform(e)
      BY <1>1 DEF CrcInv, Tables
    <3> QED BY <2>4, <2>6, <2>7, <3>1 DEF Tables
  <2> QED BY <1>1, <2>1, <2>5, <2>6, <2>8, WriteFault
<1> QED BY <1>2, <1>3 DEF SecHeader

\* The write of a block of the secondary array.
LEMMA SecArrayFault ==
  ASSUME FaultInv, TypeOK', SecArray
  PROVE  /\ FaultInv'
         /\ \A l \in Luns : Untouchable(l) => hdr'[l] = hdr[l] /\ arr'[l] = arr[l]
<1>1. /\ lun \in Luns /\ pc = "sec_arr" /\ lun' = lun /\ CrcInv /\ AloneInv
      /\ arr \in [Luns -> [Tables -> Array]]
      /\ marr \in [Luns -> [Tables -> Array]]
  BY DEF SecArray, FaultInv, TypeOK
<1>2. ~Untouchable(lun)
  BY <1>1 DEF AloneInv, WriteSteps
<1>3. PICK v : /\ hdr' = hdr /\ mhdr' = mhdr
               /\ arr' = [arr EXCEPT ![lun]["sec"][blk] = v]
               /\ marr' \in {marr, [marr EXCEPT ![lun]["sec"][blk] = v]}
  BY DEF SecArray, WriteBlock
<1>4. /\ arr'[lun]["prim"] = arr[lun]["prim"]
      /\ marr'[lun]["prim"] = marr[lun]["prim"]
      /\ \A k \in Luns, u \in Tables : k # lun =>
           arr'[k][u] = arr[k][u] /\ marr'[k][u] = marr[k][u]
  BY <1>1, <1>3 DEF Tables
<1>5. \A u \in Tables : /\ hdr[lun][u].state # "BAD_CRC"
                        /\ \E d \in Chains : hdr[lun][u].acrc = Uniform(d)
  BY <1>1, <1>2 DEF Untouchable, Damaged, CrcInv
<1> QED BY <1>1, <1>2, <1>3, <1>4, <1>5, WriteFault

\* The write of a signature.
LEMMA SetStateFault ==
  ASSUME FaultInv, TypeOK', PrimBad \/ PrimOk \/ SecBad \/ SecOk
  PROVE  /\ FaultInv'
         /\ \A l \in Luns : Untouchable(l) => hdr'[l] = hdr[l] /\ arr'[l] = arr[l]
<1>1. /\ lun \in Luns /\ CrcInv /\ AloneInv
      /\ hdr \in [Luns -> [Tables -> Header]]
      /\ mhdr \in [Luns -> [Tables -> Header]]
  BY DEF FaultInv, TypeOK
<1>2. /\ lun' = lun /\ pc \in {"prim_bad", "prim_ok", "sec_bad", "sec_ok"}
      /\ \E t \in Tables, st \in {"OK", "BAD_SIGNATURE"} :
           WriteHeader(lun, t, [hdr[lun][t] EXCEPT !.state = st])
  BY DEF PrimBad, PrimOk, SecBad, SecOk, SetState, Tables
<1>3. ~Untouchable(lun)
  BY <1>1, <1>2 DEF AloneInv, WriteSteps
<1>4. PICK t \in Tables, st \in {"OK", "BAD_SIGNATURE"} :
        WriteHeader(lun, t, [hdr[lun][t] EXCEPT !.state = st])
  BY <1>2
<1> DEFINE h == [hdr[lun][t] EXCEPT !.state = st]
<1>5. h.acrc = hdr[lun][t].acrc /\ h.state # "BAD_CRC"
  <2>1. hdr[lun][t] \in Header
    BY <1>1
  <2> QED BY <2>1 DEF Header
<1>6. arr' = arr /\ marr' = marr /\ hdr' = [hdr EXCEPT ![lun][t] = h]
      /\ mhdr' \in {mhdr, [mhdr EXCEPT ![lun][t] = h]}
  BY <1>4 DEF WriteHeader
<1> HIDE DEF h
<1>7. /\ hdr'[lun][t] = h
      /\ mhdr'[lun][t] \in {mhdr[lun][t], h}
      /\ \A k \in Luns, u \in Tables : k # lun \/ u # t =>
           hdr'[k][u] = hdr[k][u] /\ mhdr'[k][u] = mhdr[k][u]
  BY <1>1, <1>6
<1>8. \A u \in Tables : hdr[lun][u].state # "BAD_CRC"
  BY <1>3 DEF Untouchable, Damaged
<1>9. \A u \in Tables :
        /\ hdr'[lun][u].state # "BAD_CRC"
        /\ hdr'[lun][u].acrc = hdr[lun][u].acrc
        /\ mhdr'[lun][u] \in {mhdr[lun][u], hdr'[lun][u]}
  BY <1>1, <1>5, <1>7, <1>8
<1>10. \A u \in Tables : \E d \in Chains : hdr'[lun][u].acrc = Uniform(d)
  BY <1>1, <1>9 DEF CrcInv
<1>11. "prim" \in Tables
  BY DEF Tables
<1> QED BY <1>1, <1>2, <1>3, <1>6, <1>7, <1>9, <1>10, <1>11, WriteFault

\* Every step keeps FaultInv and the LUNs that no stage may write to.
LEMMA StepFault ==
  ASSUME FaultInv, [Next]_vars
  PROVE  /\ FaultInv'
         /\ \A l \in Luns : Untouchable(l) => hdr'[l] = hdr[l] /\ arr'[l] = arr[l]
<1>1. TypeOK'
  BY StepType DEF FaultInv
<1>2. CASE Exit \/ WriteBack \/ PowerLoss
  BY <1>1, <1>2, StorageSteps
<1>3. CASE SecHeader \/ SecArray \/ PrimBad \/ PrimOk \/ SecBad \/ SecOk
  BY <1>1, <1>3, SecHeaderFault, SecArrayFault, SetStateFault
<1>4. CASE \/ OpenFails \/ SetXbl \/ ShortWrite \/ StepFails \/ Return \/ Kill
           \/ \E s \in Stages : Call(s)
           \/ \E c \in Chains : BeginImages(c) \/ EndImages(c)
           \/ UNCHANGED vars
  <2>1. hdr' = hdr /\ arr' = arr
    BY <1>4 DEF OpenFails, SetXbl, ShortWrite, StepFails, Return, Kill, Call,
                BeginImages, EndImages, vars, disk
  <2> QED BY <1>1, <1>4, <2>1, QuietFault
<1>5. CASE Open
  BY <1>1, <1>5, OpenFault DEF Open, disk
<1> QED BY <1>2, <1>3, <1>4, <1>5 DEF Next, Program, Failure, Client

\* FaultInv is an invariant of the update on any storage.
THEOREM FaultInvariance == Spec => []FaultInv
<1>1. FaultInv /\ [Next]_vars => FaultInv'
  BY StepFault
<1> QED BY <1>1, InitFault, PTL DEF Spec

\* Whatever the storage does, a table that the boot loader accepts selects a
\* whole chain of images: the CRC is written ahead of the array.
THEOREM WholeTheorem == Spec => []WholeOrInvalid
<1>1. FaultInv => WholeOrInvalid
  BY DEF FaultInv, CrcInv, WholeOrInvalid, Valid
<1> QED BY <1>1, FaultInvariance, PTL

\* A damaged LUN is left alone by every stage, on any storage.
THEOREM DamagedTheorem == Spec => DamagedUntouched
<1>1. FaultInv /\ [Next]_vars =>
        [\A l \in Luns : Damaged(l) => hdr'[l] = hdr[l] /\ arr'[l] = arr[l]]_vars
  BY StepFault DEF Untouchable
<1> QED BY <1>1, FaultInvariance, PTL DEF Spec, DamagedUntouched

\* So is a LUN that has no backup partitions.
THEOREM NoBackupTheorem == Spec => NoBackupUntouched
<1>1. FaultInv /\ [Next]_vars =>
        [\A l \in Luns \ Protected : hdr'[l] = hdr[l] /\ arr'[l] = arr[l]]_vars
  BY StepFault DEF Untouchable
<1> QED BY <1>1, FaultInvariance, PTL DEF Spec, NoBackupUntouched
=============================================================================
