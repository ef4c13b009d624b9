------------------------------- MODULE GptDisk -------------------------------
(***************************************************************************)
(* The gpt_disk_* interface of gpt-utils/gpt-utils.cpp: a client (the boot *)
(* control HAL) reads both partition tables of a disk into a handle, edits *)
(* entries in memory, has the CRCs computed and commits the handle.        *)
(*                                                                         *)
(* A commit is four writes without a lock, a journal or an fsync: primary  *)
(* header, primary array, secondary header, secondary array.  Each write   *)
(* is a step here, the write of an array one step per block, and the       *)
(* client may die or a write may fail at each of them.  The failsafe       *)
(* update (prepare_boot_update, module GptUpdate) rewrites the same tables *)
(* between two calls of the client.                                        *)
(***************************************************************************)
EXTENDS Integers

CONSTANTS
  B,      \* blocks of an entries array
  Vals,   \* what a block may hold
  Twin,   \* Twin[v]: block v after gpt_boot_chain_swap
  NULL,   \* a null pointer; also the CRC of no buffer, which fits no array
  MaxCareless   \* bound of careless

Tables == {"prim", "sec"}
States == {"OK", "BAD_SIGNATURE", "BAD_CRC"}
Array == [1..B -> Vals]
Header == [state : States, acrc : Array \cup {NULL}]

ASSUME BAssumption == B \in Nat \ {0}
ASSUME TwinAssumption == Twin \in [Vals -> Vals]
ASSUME NullAssumption == NULL \notin Array /\ NULL \notin Header
ASSUME MaxCarelessAssumption == MaxCareless \in Nat

VARIABLES
  hdr,      \* hdr[t], arr[t]: the table t of the disk
  arr,
  dhdr,     \* disk->hdr, hdr_bak: the headers of the handle, NULL if none
  darr,     \* disk->pentry_arr, pentry_arr_bak
  init,     \* disk->is_initialized = GPT_DISK_INIT_MAGIC
  pc,       \* "none" without a handle, "idle" between two calls, in a
            \* commit what is written next: "hdr" or "arr" of table tab
  tab,
  blk,      \* next block of the array
  rc,       \* what the last commit returned, 1 once something followed it
  before,   \* the tables when the last commit began, and those of the handle
  want,     \* it was to store; the tables of the disk after a later call
  fresh,    \* the handle is a complete copy of the tables, with edits of
            \* the client, and nobody else has written since
  careless  \* commits that did not keep to MaySafely

disk == <<hdr, arr>>
handle == <<dhdr, darr, init>>
commit == <<tab, blk, before, want>>
vars == <<disk, handle, pc, rc, commit, fresh, careless>>

-----------------------------------------------------------------------------
(* Tables and their validity.                                              *)

Valid(h, a) == h.state = "OK" /\ h.acrc = a

OnDisk == [t \in Tables |-> [h |-> hdr[t], a |-> arr[t]]]
InHandle == [t \in Tables |-> [h |-> dhdr[t], a |-> darr[t]]]

\* A table as it was before the last commit, or as the commit was to leave it.
WholeTable(t) == OnDisk[t] \in {before[t], want[t]}

Table == [h : Header \cup {NULL}, a : Array \cup {NULL}]

\* Types of the state; also bounds the block index of a write.
TypeOK ==
  /\ hdr \in [Tables -> Header] /\ arr \in [Tables -> Array]
  /\ dhdr \in [Tables -> Header \cup {NULL}]
  /\ darr \in [Tables -> Array \cup {NULL}]
  /\ init \in BOOLEAN
  /\ pc \in {"none", "idle", "hdr", "arr"}
  /\ tab \in Tables /\ blk \in 1..B
  /\ rc \in {-1, 0, 1}
  /\ before \in [Tables -> Table] /\ want \in [Tables -> Table]
  /\ fresh \in BOOLEAN /\ careless \in 0..MaxCareless

\* Both tables hold the same entries; at most one of them is damaged, its
\* header (CRC) or its array (the CRC in the header does not fit).
Init ==
  /\ \E a, g \in Array, bad \in Tables \cup {"none"}, how \in {"hdr", "arr"} :
       /\ hdr = [t \in Tables |->
                   [state |-> IF t = bad /\ how = "hdr" THEN "BAD_CRC" ELSE "OK",
                    acrc |-> a]]
       /\ arr = [t \in Tables |-> IF t = bad /\ how = "arr" THEN g ELSE a]
  /\ dhdr = [t \in Tables |-> NULL] /\ darr = [t \in Tables |-> NULL]
  /\ init = FALSE
  /\ pc = "none" /\ tab = "prim" /\ blk = 1 /\ rc = 1
  /\ before = OnDisk /\ want = OnDisk
  /\ fresh = FALSE /\ careless = 0

\* A call that follows the last commit, which is then history.
LaterCall == rc' = 1 /\ before' = OnDisk /\ want' = OnDisk

-----------------------------------------------------------------------------
(* The life of a handle.                                                   *)

\* gpt_disk_alloc: a zeroed handle.
Alloc ==
  /\ pc = "none"
  /\ pc' = "idle"
  /\ LaterCall
  /\ UNCHANGED <<disk, handle, tab, blk, fresh, careless>>

\* gpt_disk_free, or the death of the client at any step.
Gone ==
  /\ pc # "none"
  /\ pc' = "none"
  /\ dhdr' = [t \in Tables |-> NULL] /\ darr' = [t \in Tables |-> NULL]
  /\ init' = FALSE
  /\ fresh' = FALSE
  /\ rc' = IF pc = "idle" THEN rc ELSE 1
  /\ tab' = "prim" /\ blk' = 1
  /\ UNCHANGED <<disk, before, want, careless>>

\* The reads of gpt_disk_get_disk_info, in its order: both headers, open(),
\* both arrays.  A failed read leaves NULL, the later ones do not happen.
Position == [hdr |-> [prim |-> 1, sec |-> 2], arr |-> [prim |-> 4, sec |-> 5]]
AllRead == 6
Got(position, stop, new, old) ==
  IF position < stop THEN new ELSE IF position = stop THEN NULL ELSE old

\* gpt_disk_get_disk_info: nothing is validated, and a handle that was
\* initialized before stays so when a read fails.
GetDiskInfo ==
  /\ pc = "idle"
  /\ \E stop \in 1..AllRead :
       /\ dhdr' = [t \in Tables |-> Got(Position.hdr[t], stop, hdr[t], dhdr[t])]
       /\ darr' = [t \in Tables |-> Got(Position.arr[t], stop, arr[t], darr[t])]
       /\ init' = (init \/ stop = AllRead)
       /\ fresh' = (stop = AllRead)
  /\ LaterCall
  /\ UNCHANGED <<disk, pc, tab, blk, careless>>

\* gpt_disk_get_pentry, and a write of the client through the pointer.
\* (Without an array the function dereferences NULL: see Gone.)
EditEntry(t, i, v) ==
  /\ pc = "idle" /\ init /\ darr[t] # NULL
  /\ darr' = [darr EXCEPT ![t][i] = v]
  /\ LaterCall
  /\ UNCHANGED <<disk, dhdr, init, pc, tab, blk, fresh, careless>>

\* Faulty variants, for the mutation runs, stand before what they replace.
HeaderForSigned(h, a) == [state |-> "OK", acrc |-> a]
\* gpt_disk_update_crc on one header: the array's CRC, then its own.  The
\* signature stays what it is.
HeaderFor(h, a) ==
  [state |-> IF h.state = "BAD_SIGNATURE" THEN h.state ELSE "OK", acrc |-> a]

\* gpt_disk_update_crc.  (Without a header it dereferences NULL: see Gone.)
UpdateCrc ==
  /\ pc = "idle" /\ init /\ \A t \in Tables : dhdr[t] # NULL
  /\ dhdr' = [t \in Tables |-> HeaderFor(dhdr[t], darr[t])]
  /\ LaterCall
  /\ UNCHANGED <<disk, darr, init, pc, tab, blk, fresh, careless>>

-----------------------------------------------------------------------------
(* gpt_disk_commit.                                                        *)

\* What a client must see to for a valid table to be there at every step:
\* both tables of the handle are complete and their CRCs computed, the
\* signatures are not those of an update under way, and the commit does not
\* have to change the primary table while the secondary is damaged.
MaySafely ==
  /\ \A t \in Tables : /\ dhdr[t] # NULL /\ darr[t] # NULL
                       /\ Valid(dhdr[t], darr[t])
  /\ Valid(hdr["sec"], arr["sec"]) \/ InHandle["prim"] = OnDisk["prim"]

\* (An open() that fails changes nothing.)
Commit ==
  /\ pc = "idle" /\ init
  /\ \/ MaySafely /\ UNCHANGED careless
     \/ ~MaySafely /\ careless < MaxCareless /\ careless' = careless + 1
  /\ pc' = "hdr" /\ tab' = "prim" /\ blk' = 1 /\ rc' = 1
  /\ before' = OnDisk /\ want' = InHandle
  /\ UNCHANGED <<disk, handle, fresh>>

WriteHeaderAhead ==
  /\ pc = "hdr" /\ dhdr[tab] # NULL
  /\ hdr' = [hdr EXCEPT ![tab] = dhdr[tab]]
  /\ IF tab = "prim" THEN tab' = "sec" /\ UNCHANGED pc
                     ELSE pc' = "arr" /\ tab' = "prim"
  /\ UNCHANGED <<arr, handle, blk, before, want, rc, fresh, careless>>

\* gpt_set_header.
WriteHeader ==
  /\ pc = "hdr" /\ dhdr[tab] # NULL
  /\ hdr' = [hdr EXCEPT ![tab] = dhdr[tab]]
  /\ pc' = "arr"
  /\ UNCHANGED <<arr, handle, rc, commit, fresh, careless>>

AfterBlockLate ==
  IF blk < B \/ tab = "sec"
  THEN blk' = blk + 1 /\ UNCHANGED <<pc, tab, rc>>
  ELSE /\ blk' = 1 /\ pc' = "hdr" /\ tab' = "sec" /\ UNCHANGED rc

\* The next block, then the secondary table, then the end of the commit.
AfterBlock ==
  \/ /\ blk < B
     /\ blk' = blk + 1 /\ UNCHANGED <<pc, tab, rc>>
  \/ /\ blk = B /\ tab = "prim"
     /\ blk' = 1 /\ pc' = "hdr" /\ tab' = "sec" /\ UNCHANGED rc
  \/ /\ blk = B /\ tab = "sec"
     /\ blk' = 1 /\ pc' = "idle" /\ tab' = "prim" /\ rc' = 0

\* gpt_set_pentry_arr, one block of it.
WriteBlock ==
  /\ pc = "arr" /\ darr[tab] # NULL
  /\ arr' = [arr EXCEPT ![tab][blk] = darr[tab][blk]]
  /\ AfterBlock
  /\ UNCHANGED <<hdr, handle, before, want, fresh, careless>>

WriteFailsIgnored ==
  /\ pc \in {"hdr", "arr"}
  /\ IF pc = "hdr" THEN pc' = "arr" /\ UNCHANGED <<tab, blk, rc>>
     ELSE /\ blk' = 1
          /\ IF tab = "prim" THEN tab' = "sec" /\ pc' = "hdr" /\ UNCHANGED rc
                             ELSE tab' = "prim" /\ pc' = "idle" /\ rc' = -1
  /\ UNCHANGED <<disk, handle, before, want, fresh, careless>>

\* A write fails, or there is no header or no array to write.
WriteFails ==
  /\ pc \in {"hdr", "arr"}
  /\ pc' = "idle" /\ tab' = "prim" /\ blk' = 1 /\ rc' = -1
  /\ UNCHANGED <<disk, handle, before, want, fresh, careless>>

-----------------------------------------------------------------------------
(* prepare_boot_update on this disk, a stage that succeeds, between two    *)
(* calls of the client.                                                    *)

Swapped(a) == [i \in 1..B |-> Twin[a[i]]]

Updated ==
  /\ before' = OnDisk' /\ want' = OnDisk'
  /\ fresh' = FALSE /\ rc' = 1
  /\ UNCHANGED <<handle, pc, tab, blk, careless>>

UpdateMain ==
  /\ pc \in {"none", "idle"}
  /\ hdr["prim"].state = "OK" /\ hdr["sec"].state = "OK"
  /\ hdr["prim"].acrc = arr["prim"]
  /\ arr' = [arr EXCEPT !["sec"] = Swapped(arr["prim"])]
  /\ hdr' = [hdr EXCEPT !["prim"].state = "BAD_SIGNATURE",
                        !["sec"].acrc = arr'["sec"]]
  /\ Updated

UpdateBackup ==
  /\ pc \in {"none", "idle"}
  /\ hdr["prim"].state = "BAD_SIGNATURE" /\ hdr["sec"].state = "OK"
  /\ hdr' = [hdr EXCEPT !["prim"].state = "OK",
                        !["sec"].state = "BAD_SIGNATURE"]
  /\ UNCHANGED arr
  /\ Updated

UpdateFinalize ==
  /\ pc \in {"none", "idle"}
  /\ hdr["prim"].state = "OK" /\ hdr["sec"].state = "BAD_SIGNATURE"
  /\ hdr["prim"].acrc = arr["prim"]
  /\ arr' = [arr EXCEPT !["sec"] = arr["prim"]]
  /\ hdr' = [hdr EXCEPT !["sec"] = [state |-> "OK", acrc |-> arr["prim"]]]
  /\ Updated

-----------------------------------------------------------------------------
Program == \/ Alloc \/ Gone \/ GetDiskInfo \/ UpdateCrc
           \/ Commit \/ WriteHeader \/ WriteBlock \/ WriteFails

Client == \E t \in Tables, i \in 1..B, v \in Vals : EditEntry(t, i, v)

Update == UpdateMain \/ UpdateBackup \/ UpdateFinalize

Next == Program \/ Client \/ Update

Spec == Init /\ [][Next]_vars

-----------------------------------------------------------------------------
(* Properties.                                                             *)

\* Whatever the client does, and wherever a commit is cut short, one of the
\* two tables is whole: as it was before the commit or as the handle has it.
\* gpt_disk_commit completes the primary table before it begins with the
\* secondary.  When it returns 0, both are as the handle has them.
OneTableWhole ==
  /\ \E t \in Tables : WholeTable(t)
  /\ rc = 0 => OnDisk = want

\* With a client that keeps to MaySafely, the disk always has a valid table:
\* over failed reads into a handle in use, commits cut short and repeated
\* from the tables they left, and stages of the failsafe update in between.
NeverBothBad ==
  careless = 0 => \E t \in Tables : Valid(hdr[t], arr[t])

\* A step leaves the signatures, which tell the stage of the update, alone.
SameStage ==
  \A t \in Tables : (hdr'[t].state = "BAD_SIGNATURE")
                      <=> (hdr[t].state = "BAD_SIGNATURE")

\* A commit of a fresh handle leaves the failsafe update in the stage it is
\* in: the signatures, which tell the stage, are written as they were read,
\* whatever gpt_disk_update_crc made of the rest of the headers.
UpdateKept == [][fresh /\ pc \in {"hdr", "arr"} => SameStage]_vars
=============================================================================
