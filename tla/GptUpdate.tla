------------------------------ MODULE GptUpdate ------------------------------
(***************************************************************************)
(* prepare_boot_update() of gpt-utils/gpt-utils.cpp: the staged update of  *)
(* the boot-critical images.  For every LUN of the update list the program *)
(* rewrites the two partition tables so that the chain of images about to  *)
(* be overwritten is not the one the boot loader uses:                     *)
(*                                                                         *)
(*   MAIN      boot LUN B; secondary table -> backup images; primary       *)
(*             table's signature destroyed.  The client then rewrites the  *)
(*             primary images.                                             *)
(*   BACKUP    boot LUN A; primary signature restored; secondary           *)
(*             signature destroyed.  The client then rewrites the backups. *)
(*   FINALIZE  secondary table -> primary images; its signature restored.  *)
(*                                                                         *)
(* Every write to a LUN is a step of its own, the write of the entries     *)
(* array one step per block, so that a failure, the death of the process   *)
(* or a loss of power can come between any two of them.  hdr and arr are   *)
(* what the kernel returns to a read (page cache); mhdr and marr are what  *)
(* a loss of power leaves.                                                 *)
(***************************************************************************)
EXTENDS Integers

CONSTANTS
  N,          \* update_data.num_valid_entries: LUNs in the update list
  B,          \* blocks of the entries array that a boot chain swap changes
  SwitchXbl,  \* is_ufs, and both xbl and xblbak exist
  HasBackup,  \* HasBackup[l]: gpt_boot_chain_swap finds a pair on LUN l
  Faults      \* which storage faults this instance has, see FaultKinds

MAIN == 1
BACKUP == 2
FINALIZE == 3
Stages == {MAIN, BACKUP, FINALIZE}

Luns == 1..N
Tables == {"prim", "sec"}
Chains == {"primary", "backup"}
GptStates == {"OK", "BAD_SIGNATURE", "BAD_CRC"}

(***************************************************************************)
(* "volatile"     writes sit in the page cache until they are written back *)
(*                (in any order) or fsync'ed, and power may be lost        *)
(* "fsync"        fsync() itself may fail                                  *)
(* "short_write"  write() may transfer only a prefix of the entries array  *)
(***************************************************************************)
FaultKinds == {"volatile", "fsync", "short_write"}

ASSUME NAssumption == N \in Nat \ {0}
ASSUME BAssumption == B \in Nat \ {0}
ASSUME SwitchXblAssumption == SwitchXbl \in BOOLEAN
ASSUME HasBackupAssumption == HasBackup \in [Luns -> BOOLEAN]
ASSUME FaultsAssumption == Faults \subseteq FaultKinds

VARIABLES
  hdr,      \* hdr[l][t]: the header of table t: its gpt_state, and the
            \* entries array its PARTITION_CRC stands for
  arr,      \* arr[l][t][i]: whose images block i of the entries array names
  mhdr,     \* hdr and arr as the medium holds them
  marr,
  bootLun,  \* boot LUN attribute of the UFS device: "A" or "B"
  pc,       \* next step of the program, "idle" between two calls
  stage,    \* argument of the current (last) prepare_boot_update
  lun,      \* loop index over the update list
  blk,      \* next block of the entries array to write
  r,        \* prepare_partitions' return code
  isError,  \* prepare_boot_update's is_error
  granted,  \* stage the client holds a return code 0 for, 0 if none
  img       \* img[c]: the client's images of chain c: "old", "torn" while
            \* they are being rewritten, "new"

cache == <<hdr, arr>>
disk == <<hdr, arr, mhdr, marr>>
run == <<pc, stage, lun, blk, r, isError>>
client == <<granted, img>>
vars == <<disk, bootLun, run, client>>

-----------------------------------------------------------------------------
(* The partition tables.                                                   *)

\* An entries array names only the images of the chains, or is damaged.
Array == [1..B -> Chains \cup {"garbage"}]
Header == [state : GptStates, acrc : Array]
Uniform(c) == [i \in 1..B |-> c]

\* gpt_boot_chain_swap: exchanges every image with its backup.
Swap(a) == [i \in 1..B |-> IF a[i] = "primary" THEN "backup" ELSE "primary"]

\* A table the boot loader accepts.
Valid(h, a) == h.state = "OK" /\ h.acrc = a

\* The boot loader uses the primary table, and the secondary one if the
\* primary is not valid.  Boots(l, c): the chain it would load from LUN l.
Boots(l, c) ==
  \/ Valid(mhdr[l]["prim"], marr[l]["prim"]) /\ marr[l]["prim"] = Uniform(c)
  \/ /\ ~Valid(mhdr[l]["prim"], marr[l]["prim"])
     /\ Valid(mhdr[l]["sec"], marr[l]["sec"]) /\ marr[l]["sec"] = Uniform(c)

\* gpt_boot_chain_swap only finds pairs on these.
Protected == {l \in Luns : HasBackup[l]}

WriteThrough == "volatile" \notin Faults

-----------------------------------------------------------------------------
(* The types of the state, and the states the update may start from: both  *)
(* tables of a LUN select the primary images, and at most one of them is   *)
(* damaged: a header with a bad CRC, or a primary array that its CRC does  *)
(* not match.                                                              *)

Pcs == {"idle", "open", "set_xbl", "sec_hdr", "sec_arr", "prim_bad",
        "prim_ok", "sec_bad", "sec_ok", "exit", "return"}

\* Types of the state: also bounds the loop index and the block index.
TypeOK ==
  /\ hdr \in [Luns -> [Tables -> Header]]
  /\ arr \in [Luns -> [Tables -> Array]]
  /\ mhdr \in [Luns -> [Tables -> Header]]
  /\ marr \in [Luns -> [Tables -> Array]]
  /\ bootLun \in {"A", "B"}
  /\ pc \in Pcs
  /\ stage \in Stages
  /\ lun \in Luns
  /\ blk \in 1..B
  /\ r \in {-1, 0}
  /\ isError \in {0, 1}
  /\ granted \in Stages \cup {0}
  /\ img \in [Chains -> {"old", "torn", "new"}]

InitDisk(damage) ==
  /\ hdr = [l \in Luns |-> [t \in Tables |->
              [state |-> IF damage[l] = t THEN "BAD_CRC" ELSE "OK",
               acrc |-> Uniform("primary")]]]
  /\ arr = [l \in Luns |-> [t \in Tables |->
              IF t = "prim" /\ damage[l] = "array"
              THEN Uniform("garbage") ELSE Uniform("primary")]]

Init ==
  /\ \E damage \in [Luns -> {"none", "prim", "sec", "array"}] :
       InitDisk(damage)
  /\ mhdr = hdr /\ marr = arr
  /\ bootLun = "A"
  /\ pc = "idle" /\ stage = FINALIZE /\ lun = 1 /\ blk = 1
  /\ r = 0 /\ isError = 0
  /\ granted = 0
  /\ img = [c \in Chains |-> "old"]

-----------------------------------------------------------------------------
(* blk_rw(): one header, or one block of the entries array.                *)

WriteHeader(l, t, h) ==
  /\ hdr' = [hdr EXCEPT ![l][t] = h]
  /\ mhdr' = IF WriteThrough THEN [mhdr EXCEPT ![l][t] = h] ELSE mhdr
  /\ UNCHANGED <<arr, marr>>

WriteBlock(l, t, i, v) ==
  /\ arr' = [arr EXCEPT ![l][t][i] = v]
  /\ marr' = IF WriteThrough THEN [marr EXCEPT ![l][t][i] = v] ELSE marr
  /\ UNCHANGED <<hdr, mhdr>>

-----------------------------------------------------------------------------
(* prepare_boot_update and prepare_partitions up to the switch on stage.   *)

\* The client calls prepare_boot_update(s).  It does not move on to a stage
\* that makes the images of a chain the ones in use while they are torn.
ClientMayCall(s) ==
  /\ s = BACKUP => img["primary"] # "torn"
  /\ s = FINALIZE => img["primary"] # "torn" /\ img["backup"] # "torn"

Call(s) ==
  /\ pc = "idle" /\ ClientMayCall(s)
  /\ pc' = "open" /\ stage' = s /\ lun' = 1
  /\ r' = 0 /\ isError' = 0 /\ granted' = 0
  /\ UNCHANGED <<disk, bootLun, blk, img>>

\* Faulty variants, for the mutation runs, stand before what they replace.
NextLunTooFar(rcode) ==
  /\ isError' = IF rcode # 0 THEN 1 ELSE isError
  /\ IF lun > N THEN pc' = "return" /\ UNCHANGED lun
               ELSE pc' = "open" /\ lun' = lun + 1
  /\ r' = 0
NextLunLastCode(rcode) ==
  /\ isError' = IF rcode # 0 THEN 1 ELSE 0
  /\ IF lun = N THEN pc' = "return" /\ UNCHANGED lun
               ELSE pc' = "open" /\ lun' = lun + 1
  /\ r' = 0

\* End of one iteration: on to the next LUN, or out of the loop.
NextLun(rcode) ==
  /\ isError' = IF rcode # 0 THEN 1 ELSE isError
  /\ IF lun = N THEN pc' = "return" /\ UNCHANGED lun
               ELSE pc' = "open" /\ lun' = lun + 1
  /\ r' = 0

\* open() fails: there is nothing to fsync.
OpenFails ==
  /\ pc = "open"
  /\ NextLun(-1)
  /\ UNCHANGED <<disk, bootLun, stage, blk, client>>

\* "internal update stage according GPT headers' state"
InternalStage(p, s) ==
  IF p = "OK" /\ s = "OK" THEN MAIN
  ELSE IF p = "BAD_SIGNATURE" THEN BACKUP ELSE FINALIZE

AcceptableAnyCrc(p, s) == ~(p = "BAD_SIGNATURE" /\ s = "BAD_SIGNATURE")
Acceptable(p, s) ==
  /\ p # "BAD_CRC" /\ s # "BAD_CRC"
  /\ ~(p = "BAD_SIGNATURE" /\ s = "BAD_SIGNATURE")

AlreadySetNever(s, internal) == FALSE
AlreadySet(s, internal) == s = internal - 1

FirstStep(s) == IF s = FINALIZE THEN "sec_hdr"
                ELSE IF SwitchXbl THEN "set_xbl"
                ELSE IF s = MAIN THEN "sec_hdr" ELSE "prim_ok"

\* open(), gpt_get_state on both headers, and the checks of the stage.
Open ==
  /\ pc = "open"
  /\ LET p == hdr[lun]["prim"].state
         s == hdr[lun]["sec"].state
         internal == InternalStage(p, s)
     IN  \/ /\ Acceptable(p, s) /\ ~AlreadySet(stage, internal)
            /\ stage = internal
            /\ pc' = FirstStep(stage) /\ UNCHANGED r
         \/ /\ Acceptable(p, s) /\ AlreadySet(stage, internal)
            /\ pc' = "exit" /\ UNCHANGED r
         \/ /\ ~Acceptable(p, s) \/ stage \notin {internal, internal - 1}
            /\ pc' = "exit" /\ r' = -1
  /\ UNCHANGED <<disk, bootLun, stage, lun, blk, isError, client>>

-----------------------------------------------------------------------------
(* The writes, in the order each stage makes them.                         *)

XblTargetOnlyB(s) == "B"
XblTarget(s) == IF s = MAIN THEN "B" ELSE "A"

\* gpt_utils_set_xbl_boot_partition: an ioctl, effective at once.
SetXbl ==
  /\ pc = "set_xbl"
  /\ bootLun' = XblTarget(stage)
  /\ pc' = IF stage = MAIN THEN "sec_hdr" ELSE "prim_ok"
  /\ UNCHANGED <<disk, stage, lun, blk, r, isError, client>>

NewEntriesUnswapped(s, a) == a
\* The array gpt2_set_boot_chain writes: it starts from the primary's.
NewEntries(s, a) == IF s = MAIN THEN Swap(a) ELSE a

SecHeaderAnyLun ==
  /\ pc = "sec_hdr"
  /\ WriteHeader(lun, "sec", [hdr[lun]["sec"] EXCEPT
                             !.acrc = NewEntries(stage, arr[lun]["prim"])])
  /\ blk' = 1 /\ pc' = "sec_arr"
  /\ UNCHANGED <<r, bootLun, stage, lun, isError, client>>

SecHeaderUnchecked ==
  /\ pc = "sec_hdr"
  /\ WriteHeader(lun, "sec", [hdr[lun]["sec"] EXCEPT
                             !.acrc = NewEntries(stage, arr[lun]["prim"])])
  /\ hdr[lun]["sec"].state = "BAD_SIGNATURE" \/ HasBackup[lun]
  /\ blk' = 1 /\ pc' = "sec_arr"
  /\ UNCHANGED <<r, bootLun, stage, lun, isError, client>>

\* gpt2_set_boot_chain up to the write of the secondary header: no write if
\* the primary array is damaged, or if MAIN finds no backup partitions.
SecHeader ==
  /\ pc = "sec_hdr"
  /\ LET a == arr[lun]["prim"]
         intact == hdr[lun]["prim"].acrc = a
         noBackup == stage = MAIN /\ ~HasBackup[lun]
     IN  \/ /\ ~intact
            /\ r' = -1 /\ pc' = "exit" /\ UNCHANGED <<disk, blk>>
         \/ /\ intact /\ noBackup
            /\ pc' = "exit" /\ UNCHANGED <<disk, r, blk>>
         \/ /\ intact /\ ~noBackup
            /\ WriteHeader(lun, "sec",
                 [hdr[lun]["sec"] EXCEPT !.acrc = NewEntries(stage, a)])
            /\ blk' = 1 /\ pc' = "sec_arr" /\ UNCHANGED r
  /\ UNCHANGED <<bootLun, stage, lun, isError, client>>

AfterSecArrayUnfixed == IF stage = MAIN THEN "prim_bad" ELSE "exit"
AfterSecArray == IF stage = MAIN THEN "prim_bad" ELSE "sec_ok"

SecArrayFirstBlock ==
  /\ pc = "sec_arr"
  /\ WriteBlock(lun, "sec", blk, NewEntries(stage, arr[lun]["prim"])[blk])
  /\ pc' = AfterSecArray
  /\ UNCHANGED <<bootLun, stage, lun, blk, r, isError, client>>

\* The write of the entries array, one block of it.
SecArray ==
  /\ pc = "sec_arr"
  /\ WriteBlock(lun, "sec", blk, NewEntries(stage, arr[lun]["prim"])[blk])
  /\ IF blk = B THEN pc' = AfterSecArray /\ UNCHANGED blk
               ELSE blk' = blk + 1 /\ UNCHANGED pc
  /\ UNCHANGED <<bootLun, stage, lun, r, isError, client>>

\* write() stores less than the whole array; blk_rw reports success.
ShortWrite ==
  /\ "short_write" \in Faults
  /\ pc = "sec_arr"
  /\ pc' = AfterSecArray
  /\ UNCHANGED <<disk, bootLun, stage, lun, blk, r, isError, client>>

\* gpt_set_state(t, state), followed by step next of the stage.
SetState(step, t, state, next) ==
  /\ pc = step
  /\ WriteHeader(lun, t, [hdr[lun][t] EXCEPT !.state = state])
  /\ pc' = next
  /\ UNCHANGED <<bootLun, stage, lun, blk, r, isError, client>>

PrimBad == SetState("prim_bad", "prim", "BAD_SIGNATURE", "exit")
PrimOk == SetState("prim_ok", "prim", "OK", "sec_bad")
SecBad == SetState("sec_bad", "sec", "BAD_SIGNATURE", "exit")
SecOk == SetState("sec_ok", "sec", "OK", "exit")

WriteSteps == {"set_xbl", "sec_hdr", "sec_arr", "prim_bad", "prim_ok",
               "sec_bad", "sec_ok"}

\* A read, a write, an ioctl or an allocation of a step fails before it has
\* changed the disk: every such path is a goto EXIT with r != 0.
StepFails ==
  /\ pc \in WriteSteps \cup {"open"}
  /\ pc = "sec_arr" => blk = 1
  /\ r' = -1 /\ pc' = "exit"
  /\ UNCHANGED <<disk, bootLun, stage, lun, blk, isError, client>>

-----------------------------------------------------------------------------
(* EXIT: of prepare_partitions, and the return of prepare_boot_update.     *)

\* fsync(fd); its result is ignored.
Exit ==
  /\ pc = "exit"
  /\ \/ mhdr' = [mhdr EXCEPT ![lun] = hdr[lun]]
        /\ marr' = [marr EXCEPT ![lun] = arr[lun]]
     \/ "fsync" \in Faults /\ UNCHANGED <<mhdr, marr>>
  /\ NextLun(r)
  /\ UNCHANGED <<cache, bootLun, stage, blk, client>>

Return ==
  /\ pc = "return"
  /\ granted' = IF isError = 0 THEN stage ELSE 0
  /\ pc' = "idle"
  /\ UNCHANGED <<disk, bootLun, stage, lun, blk, r, isError, img>>

-----------------------------------------------------------------------------
(* The environment.                                                        *)

\* The stage in which chain c may be rewritten.
ImageStage(c) == IF c = "primary" THEN MAIN ELSE BACKUP

\* The client rewrites the images of a chain it has been granted.
BeginImages(c) ==
  /\ pc = "idle" /\ granted = ImageStage(c)
  /\ img' = [img EXCEPT ![c] = "torn"]
  /\ UNCHANGED <<disk, bootLun, run, granted>>

EndImages(c) ==
  /\ pc = "idle" /\ granted = ImageStage(c) /\ img[c] = "torn"
  /\ img' = [img EXCEPT ![c] = "new"]
  /\ UNCHANGED <<disk, bootLun, run, granted>>

\* The kernel writes one header or one block back, in no particular order.
WriteBack ==
  /\ ~WriteThrough
  /\ \E l \in Luns, t \in Tables :
       \/ /\ mhdr' = [mhdr EXCEPT ![l][t] = hdr[l][t]]
          /\ UNCHANGED marr
       \/ \E i \in 1..B :
            /\ marr' = [marr EXCEPT ![l][t][i] = arr[l][t][i]]
            /\ UNCHANGED mhdr
  /\ UNCHANGED <<cache, bootLun, run, client>>

\* The updater dies: what it wrote stays with the kernel.
Kill ==
  /\ pc' = "idle" /\ granted' = 0
  /\ UNCHANGED <<disk, bootLun, stage, lun, blk, r, isError, img>>

\* The device loses power: what is on the medium is all there is.
PowerLoss ==
  /\ hdr' = mhdr /\ arr' = marr
  /\ pc' = "idle" /\ granted' = 0
  /\ UNCHANGED <<mhdr, marr, bootLun, stage, lun, blk, r, isError, img>>

-----------------------------------------------------------------------------
Program == \/ Open \/ SetXbl \/ SecHeader \/ SecArray
           \/ PrimBad \/ PrimOk \/ SecBad \/ SecOk \/ Exit \/ Return

Failure == OpenFails \/ StepFails \/ ShortWrite \/ Kill \/ PowerLoss

Client == \/ \E s \in Stages : Call(s)
          \/ \E c \in Chains : BeginImages(c) \/ EndImages(c)

Next == Program \/ Failure \/ Client \/ WriteBack

Spec == Init /\ [][Next]_vars

-----------------------------------------------------------------------------
(* Properties.                                                             *)

\* Whatever has happened so far, if the device restarted now, the boot
\* loader would find on every LUN a table that selects a whole chain of
\* images: prepare_partitions' order of writes keeps one table usable.
Failsafe ==
  \A l \in Protected : \E c \in Chains : Boots(l, c) /\ img[c] # "torn"

\* A return code 0 for MAIN (BACKUP) means that no LUN boots from the
\* primary (backup) images any more, so that they may be overwritten.
GrantMeansSwitched ==
  \A l \in Protected : /\ granted = MAIN => Boots(l, "backup")
                       /\ granted = BACKUP => Boots(l, "primary")

\* A return code 0 for FINALIZE means that both tables of every LUN are
\* valid and select the primary images again.
GrantMeansFinal ==
  granted = FINALIZE =>
    \A l \in Luns, t \in Tables : /\ mhdr[l][t].state = "OK"
                                  /\ mhdr[l][t].acrc = marr[l][t]
                                  /\ marr[l][t] = Uniform("primary")

\* The return code 0 of MAIN (BACKUP) also means that the UFS boot LUN is B
\* (A), so that the first boot stage does not run from the copy of xbl that
\* is about to be overwritten.
XblMain == SwitchXbl /\ granted = MAIN => bootLun = "B"
XblBackup == SwitchXbl /\ granted = BACKUP => bootLun = "A"

\* A LUN found with a damaged header or primary array is not written to.
Damaged(l) == \/ \E t \in Tables : hdr[l][t].state = "BAD_CRC"
              \/ hdr[l]["prim"].acrc # arr[l]["prim"]
DamagedUntouched ==
  [][\A l \in Luns : Damaged(l) => hdr'[l] = hdr[l] /\ arr'[l] = arr[l]]_vars

\* The refinement: the chain each LUN would boot from.
BootChain(l) == IF Boots(l, "primary") THEN "primary"
                ELSE IF Boots(l, "backup") THEN "backup" ELSE "none"

FB == INSTANCE FailsafeBoot WITH
        Luns <- Protected, boots <- [l \in Protected |-> BootChain(l)]

\* The steps of prepare_boot_update implement the indivisible switch of
\* FailsafeBoot: one write of a stage moves the LUN from one whole chain to
\* the other, and every other write, failure and restart leaves it there.
ImplementsFailsafeBoot == FB!Spec

\* "No backup partitions - do not corrupt GPT": no stage ever writes to a LUN
\* that has nothing to switch to.
NoBackupUntouched ==
  [][\A l \in Luns \ Protected : hdr'[l] = hdr[l] /\ arr'[l] = arr[l]]_vars

\* Whatever the storage does, short writes and a loss of power in the middle
\* of an array included, a table that the boot loader accepts selects a whole
\* chain: the CRC written ahead of the array rejects every torn one.
WholeOrInvalid ==
  \A l \in Luns, t \in Tables :
    Valid(mhdr[l][t], marr[l][t]) => \E c \in Chains : marr[l][t] = Uniform(c)
=============================================================================
