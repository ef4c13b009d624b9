---------------------------- MODULE GptUpdateInv ----------------------------
(***************************************************************************)
(* The inductive invariants of GptUpdate: IInv, for disks whose writes     *)
(* reach the medium in the order they are made and are never short, and    *)
(* FaultInv, for any disk.  Both are proved in GptUpdate_proofs.           *)
(***************************************************************************)
EXTENDS GptUpdate

PrimState(l) == hdr[l]["prim"].state
SecState(l) == hdr[l]["sec"].state

\* The primary table still lists the primary images.
PrimWhole(l) == /\ hdr[l]["prim"].acrc = Uniform("primary")
                /\ arr[l]["prim"] = Uniform("primary")

\* The secondary table lists the images of chain c, up to its state.
SecLists(l, c) == /\ hdr[l]["sec"].acrc = Uniform(c)
                  /\ arr[l]["sec"] = Uniform(c)

(***************************************************************************)
(* The three shapes of a LUN between any two writes: it boots by its       *)
(* primary table; the primary's signature is destroyed and the secondary   *)
(* table is complete; or it was damaged to begin with, and boots whichever *)
(* table is intact.                                                        *)
(***************************************************************************)
ByPrimary(l) == PrimWhole(l) /\ PrimState(l) = "OK"

BySecondary(l) == /\ l \in Protected
                  /\ PrimWhole(l) /\ PrimState(l) = "BAD_SIGNATURE"
                  /\ SecLists(l, "backup") /\ SecState(l) = "OK"

Frozen(l) ==
  /\ Damaged(l)
  /\ PrimState(l) # "BAD_SIGNATURE" /\ SecState(l) # "BAD_SIGNATURE"
  /\ \/ ByPrimary(l)
     \/ /\ ~Valid(hdr[l]["prim"], arr[l]["prim"])
        /\ SecLists(l, "primary") /\ SecState(l) = "OK"

Shape == \A l \in Luns : ByPrimary(l) \/ BySecondary(l) \/ Frozen(l)

\* The medium is never behind the cache.
OnMedium == mhdr = hdr /\ marr = arr

\* What the stages done so far in this call promise of the LUN being
\* prepared, at each write of the stage.
StepInv ==
  /\ pc \in {"set_xbl", "prim_ok", "sec_bad"} => stage # FINALIZE
  /\ pc \in {"prim_ok", "sec_bad"} => stage = BACKUP
  /\ pc \in {"sec_hdr", "sec_arr"} => stage # BACKUP
  /\ pc = "prim_bad" => stage = MAIN
  /\ pc = "sec_ok" => stage = FINALIZE
  /\ pc \in {"set_xbl", "sec_hdr"} /\ stage = MAIN =>
       PrimState(lun) = "OK" /\ SecState(lun) = "OK"
  /\ pc \in {"set_xbl", "prim_ok"} /\ stage = BACKUP =>
       PrimState(lun) = "BAD_SIGNATURE"
  /\ pc \in {"sec_hdr", "sec_arr", "sec_ok"} /\ stage = FINALIZE =>
       PrimState(lun) = "OK" /\ SecState(lun) = "BAD_SIGNATURE"
  /\ pc \in {"sec_arr", "prim_bad", "sec_bad", "sec_ok"} => ByPrimary(lun)
  /\ pc \in {"sec_arr", "prim_bad"} /\ stage = MAIN =>
       lun \in Protected /\ SecState(lun) = "OK"
  /\ pc = "prim_bad" => SecLists(lun, "backup")
  /\ pc = "sec_bad" => SecState(lun) = "OK"
  /\ pc = "sec_ok" => SecLists(lun, "primary")
  /\ pc = "sec_arr" =>
       LET c == IF stage = MAIN THEN "backup" ELSE "primary"
       IN  /\ hdr[lun]["sec"].acrc = Uniform(c)
           /\ \A i \in 1..B : i < blk => arr[lun]["sec"][i] = c

\* What stage s has achieved once it has been through LUN l without error.
Achieved(s, l) ==
  /\ s = MAIN /\ l \in Protected => PrimState(l) = "BAD_SIGNATURE"
  /\ s = BACKUP => SecState(l) = "BAD_SIGNATURE"
  /\ s = FINALIZE => ByPrimary(l) /\ SecLists(l, "primary")
                     /\ SecState(l) = "OK"

\* The LUNs the running call has been through.
Passed(l) == \/ l < lun
             \/ l = lun /\ pc = "exit" /\ r = 0
             \/ pc = "return"

LoopInv == pc # "idle" /\ isError = 0 =>
             \A l \in Luns : Passed(l) => Achieved(stage, l)

GrantInv == granted # 0 => /\ pc = "idle"
                           /\ \A l \in Luns : Achieved(granted, l)

\* While a chain is torn, every LUN is kept off it, and no stage that would
\* switch a LUN back to it is running.
TornInv ==
  /\ img["primary"] = "torn" =>
       /\ \A l \in Protected : PrimState(l) = "BAD_SIGNATURE"
       /\ pc # "idle" => stage = MAIN
  /\ img["backup"] = "torn" =>
       /\ \A l \in Luns : SecState(l) = "BAD_SIGNATURE"
       /\ pc # "idle" => stage # FINALIZE

\* Boot LUN B is selected only while some LUN has yet to enter BACKUP.
XblInv ==
  SwitchXbl =>
    /\ bootLun = "B" => \E l \in Luns : SecState(l) # "BAD_SIGNATURE"
    /\ pc \in {"prim_ok", "sec_bad"} => bootLun = "A"

\* The inductive invariant: prepare_boot_update's reasons for being safe.
IInv == /\ TypeOK /\ OnMedium /\ Shape /\ StepInv
        /\ LoopInv /\ GrantInv /\ TornInv /\ XblInv

-----------------------------------------------------------------------------
(* What is left of it when writes may be short, reordered or lost.         *)

\* The CRC of every header, written back or not, stands for a whole chain,
\* and the primary array is never written.
CrcInv ==
  /\ \A l \in Luns, t \in Tables : \E c, d \in Chains :
       hdr[l][t].acrc = Uniform(c) /\ mhdr[l][t].acrc = Uniform(d)
  /\ \A l \in Luns : /\ mhdr[l]["prim"].acrc = hdr[l]["prim"].acrc
                      /\ marr[l]["prim"] = arr[l]["prim"]

\* A bad CRC is neither made nor repaired.
BadCrcInv ==
  \A l \in Luns, t \in Tables :
    mhdr[l][t].state = "BAD_CRC" <=> hdr[l][t].state = "BAD_CRC"

\* A LUN that no stage may write to is still as it was found, on the medium
\* too, and no stage gets further with it than the checks of MAIN.
Untouchable(l) == l \notin Protected \/ Damaged(l)
AloneInv ==
  \A l \in Luns : Untouchable(l) =>
    /\ mhdr[l] = hdr[l] /\ marr[l] = arr[l]
    /\ \A t \in Tables : hdr[l][t].state # "BAD_SIGNATURE"
    /\ l = lun /\ pc \in WriteSteps =>
         /\ pc \in {"set_xbl", "sec_hdr"} /\ stage = MAIN
         /\ \A t \in Tables : hdr[l][t].state # "BAD_CRC"

FaultInv == TypeOK /\ CrcInv /\ BadCrcInv /\ AloneInv
=============================================================================
