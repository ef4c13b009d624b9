# Formal models of the laurel_sprout device tree

TLA+ models of the programs in this device tree (Xiaomi Mi A3, codename
laurel_sprout), the TLC configurations that check them on small instances, and
proofs of their properties for every instance, checked by TLAPS.

Run everything from this directory: `tlc -config GptUpdate.cfg MCGptUpdate`
(one `.cfg` per run, see "Runs"), `tlapm GptUpdate_proofs.tla`. `PROJECT.json`
lists the components, the runs, the mutations each property has to detect, the
source lines each definition translates, the findings, the hazards and the
theorems.

## 1. Inventory

Most of the tree is configuration read by other programs. The programs are the
boot update library, the power HAL, the ambient display application, the
in-display fingerprint service and a few lines of init. What each keeps, does
and risks:

### Boot update: `gpt-utils/gpt-utils.cpp`

The boot-critical images exist twice, `x` and `xbak`, and every disk (LUN) has
two partition tables (GPT): primary and secondary. The boot loader takes the
first entry of an image in the first valid table. `prepare_boot_update(stage)`
moves the boot loader from one chain of images to the other so that the updater
can overwrite the one not in use.

| part | state | operations |
|---|---|---|
| `prepare_boot_update`, `prepare_partitions`, `gpt2_set_boot_chain`, `gpt_get_state`, `gpt_set_state`, `blk_rw` | the headers and entries arrays of both tables of every LUN, in the page cache and on the medium; the UFS boot LUN; nothing else: the stage is read off the signatures | MAIN, BACKUP, FINALIZE, each a sequence of reads, writes, an ioctl and an fsync per LUN |
| `gpt_boot_chain_swap`, `gpt_pentry_seek` | an entries array in memory | exchanges the entries of each pair |
| the list of `prepare_boot_update`, `add_lun_to_update_list` | `lun_list[MAX_LUNS]` | follows the links of the backup partitions |
| `gpt_utils_set_xbl_boot_partition`, `set_boot_lun` | the boot LUN attribute | an ioctl on the bsg node |
| `gpt_disk_*` | a handle with copies of the tables, for another client (the boot control HAL) | alloc, read, find an entry, recompute the CRCs, commit, free |
| `gpt_utils_get_partition_map` | none | groups names by device |

Interactions: the updater calls the stages and overwrites images between them;
the kernel writes the cache back when it likes; the boot loader reads the medium
after a restart. What is hard: a failure, the death of the updater or a loss of
power between any two writes; LUNs left in different stages; retries; a stage
derived from the signatures only; short writes and an fsync whose result is
ignored; a search that runs over an array that the loop is permuting; a list of
fixed size; a handle that is read in steps that can fail, goes stale and is
committed in four writes. Correct means: the device can boot at every moment from a whole
chain, a return code 0 allows exactly what the updater does next, and an
interrupted update can be completed.

### Power HAL: `power/`

| part | state | operations |
|---|---|---|
| `Power.cpp`, `main.cpp`, `power-mode.cpp` | none; one binder thread (`main.cpp:41`) | `setMode`, `setBoost` of the framework, forwarded |
| `power-common.c` | a handle and a count per counted hint, the last display hint | `power_init`, `power_hint`, `set_interactive` |
| `utils.c`, `list.c`, `hint-data.c` | the list of active hints, one handle of `interaction()`, the functions found in the library | acquire, release, list, read the governor |
| `power-660.c` and 13 others | the profile, the display hint, the time of the last boost, the video hint | `set_power_profile`, `power_hint_override`, `set_interactive_override` |
| `power-845.c`, `-8998.c`, `-msmnile.c`, `-710.c` | the perf mode and its handle, the handles of boosts and of encoding | the same, over `switch_mode` |
| `metadata-parser.c` | none | reads the attributes of a video hint |
| `powerhintparser.c` | a table of hints | reads an XML file; has no caller |

`Android.mk` links the file of one platform and, for this device's (trinket),
none, so that the weak functions of `power-common.c` remain. Interactions: the
framework calls the HAL; the HAL acquires locks from the vendor's perf library,
which may be missing, lack functions or refuse, and reads and writes sysfs, where
the governor may change at any time. What is hard: sequences of starts and stops
that do not pair, acquisitions that fail half way through a switch, the governor
changing between the two halves of a pair, the same hint handled by the platform
once and by the common code the next time. Correct means: a handle the HAL keeps
is that of a held lock and of one purpose only, no lock is forgotten, and the
profile, the mode and the display have the locks they stand for.

### Ambient display: `parts/` (`org.lineageos.settings.doze`)

| part | state | operations |
|---|---|---|
| `DozeSettingsFragment` | the settings (doze, always-on, three gestures) | changes of a preference, each followed by a check, at once or posted |
| `DozeUtils`, `BootCompletedReceiver` | none | `checkDozeService` starts or stops the service |
| `DozeService` | its receiver and its two sensors | created, destroyed, screen on, screen off |
| `PickupSensor`, `ProximitySensor` | an executor thread, a registered listener, the times of the last events | enable, disable, `onSensorChanged` |

Interactions: the main thread runs the fragment, the service and the listeners
one message at a time; the activity manager and the screen send it messages that
are delayed independently; the executors register and unregister later. What is
hard: all of these orders, an activity left with checks posted, a service object
destroyed with tasks queued, sensor state that survives a disable. Correct means:
the service follows the settings, the listeners follow the service and the
screen, and a pulse means the gesture the user enabled.

### The rest

* `fod/`: press, release, show and hide write the panel's and the touch sensor's
  sysfs nodes and call the fingerprint HAL. Hard: press and hide interleaved.
* `init/`: three property assignments. `interfaces/`: a HAL declaration.
  `bootctrl/`: a build file; the HAL is elsewhere.
* `audio`, `bluetooth`, `keylayout`, `configs`, `overlay*`, `rootdir`, `sepolicy`,
  `permissions`, manifests, makefiles, scripts: data and build steps, not
  modelled. The overlay leaves the always-on display unavailable on this device;
  Doze has it as the constant `AodAvailable`.

## 2. Modules

| module | models | checked by | proved in |
|---|---|---|---|
| `GptUpdate` | `prepare_boot_update` write by write, its client, failures, the medium | `gpt_update`, `gpt_faults`, `gpt_power_loss`, `gpt_xbl_main` | `GptUpdate_proofs` |
| `GptUpdateInv` | its inductive invariants: `IInv` for storage that writes in order, `FaultInv` for any | `gpt_update` | `GptUpdate_proofs` |
| `FailsafeBoot` | the abstract promise: whole chains, switched in one step | refined by `GptUpdate` | `GptUpdate_proofs` |
| `UpdateScript` | `GptUpdate` composed with a client that drives an update to its end | `update_script` | `UpdateScript_proofs` |
| `GptSwap` | `gpt_boot_chain_swap` | `gpt_swap` | `GptSwap_proofs` |
| `LunList` | the update list | `lun_list` | `LunList_proofs` |
| `GptDisk` | `gpt_disk_*` on one disk, with the stages of the update between its calls | `gpt_disk` | `GptDisk_proofs` |
| `PerfLock` | the perf library as the HAL sees it, `utils.c`, `list.c`, `metadata-parser.c` | `power` | `PowerHal_proofs` |
| `PowerHandlers` | the shapes that the files of the platforms share: profiles, video hints, perf modes, boosts, the display | `power` | `PowerHal_proofs` |
| `Power8974`, ..., `Power660`, `Power845`, `PowerMsmnile` | one per platform file: which shapes it uses, with which locks | `power` | `PowerHal_proofs` |
| `PowerHal` | `power-common.c` and the calls of `Power.cpp`, over the modules of all platforms | `power` | `PowerHal_proofs` |
| `Doze` | the ambient display service, its settings, its executors | `doze` | `Doze_proofs` |
| `ProximityGestures` | `ProximitySensor.onSensorChanged` | `proximity`, `proximity_stale` | `ProximityGestures_proofs` |
| `MC...` | constants and symmetry for TLC | | |

`GptUpdate` uses what the two smaller modules establish about its inner loops:
its LUNs are the list that `LunList` builds, each of them once as long as a place of
`lun_list` is free (a handful of LUNs for 26 places), and its operator `Swap` on whole
arrays is what `GptSwap` shows the loop to do, `HasBackup` being return code 0.

### GptUpdate

State. `hdr` and `arr` are what the kernel returns to a read: for each LUN and
table, the header's state (`OK`, `BAD_SIGNATURE`, `BAD_CRC`, as `gpt_get_state`
tells them apart), the array its `PARTITION_CRC` stands for, and the array itself
in `B` blocks. `mhdr` and `marr` are the same on the medium. A CRC is represented
by the array it was computed over, so that a CRC matches exactly the data it was
made for. An array names the images of one chain per block; `Swap` exchanges the
chains. `bootLun` is the UFS attribute. `pc`, `stage`, `lun`, `blk`, `r`,
`isError` are the program; `granted` is the last return code 0, `img` the images.

Actions. One per step that can be interrupted: `Call`, `Open` (open, both
`gpt_get_state`, the check of the stage with its three outcomes), `SetXbl`,
`SecHeader` (`gpt2_set_boot_chain` up to the write of the header), `SecArray`
(the array, block by block), `PrimBad`, `PrimOk`, `SecBad`, `SecOk`
(`gpt_set_state`), `Exit` (fsync, next LUN), `Return`. `StepFails` and `OpenFails`
are all the error paths: the code has one label, EXIT, and every read, write,
allocation or ioctl that fails jumps there before the disk has changed. `Kill`
and `PowerLoss` may happen at any point; after a `PowerLoss` the cache is what the
medium holds. `WriteBack` is the kernel's, in any order. The client calls any
stage whenever it likes, except one that would put a half-written chain in use,
and overwrites a chain only while it holds the return code for it.

Initially both tables select the primary images and at most one table of a LUN
is damaged.

Two things the code does that surprise a reader and are in the model: FINALIZE
is not idempotent (a finalized LUN looks like one before MAIN, and FINALIZE fails
on it), and on a LUN without backup partitions MAIN returns 0 and writes nothing
while BACKUP and FINALIZE always fail.

### UpdateScript

The client of `GptUpdate` made deterministic: it calls the stages in turn,
rewrites the images it is granted, goes on when refused, starts over when
restarted, and stops after a FINALIZE with both chains rewritten. At most
`MaxFaults` failures happen.

### GptSwap

The array is a function `slot` from slots to the slot each entry came from, and
`name` gives the entries' names. Names are sequences of tokens, because
`gpt_pentry_seek` compares by prefix lengths and one image's name is another's
prefix (`cmnlib`, `cmnlib32`). One action per outcome of an iteration: `SkipXbl`,
`NotFound`, `NoBackup`, `SwapPair`. The properties compare the array in progress
with the pairs of the array as it was read.

### LunList

One action per outcome of an iteration over the images: `NoLun` (no link,
unreadable, too short), `AddFails`, `AddFound`, `Copy`, `Overrun`. The search is
skipped when `MAX_LUNS - 1` LUNs are listed, as in the code: every further image
then adds its LUN again, and when every place is taken the copy goes behind
`lun_list`. What happens after that is undefined; the model records it in `overrun`
and ends the loop. The instance has one place more than LUNs, so that both happen, and
`NoDuplicates` and `Covers` say what holds all the same: no LUN is listed twice while
a place is free, and none is left out. On a device `MAX_LUNS` is 26, one for each
letter, and boot images live on a handful.

### GptDisk

`hdr` and `arr` are the tables of one disk, as in `GptUpdate`; `dhdr`, `darr`, `init`
the handle, whose pointers may be `NULL`. `GetDiskInfo` picks the read that fails:
what comes before it is replaced, the field it was for becomes `NULL`, what comes
after keeps its old content, and an initialized handle stays initialized.
`EditEntry` is the client's write through the pointer of `gpt_disk_get_pentry`.
`UpdateCrc` makes whatever is in memory fit and keeps the signature. A commit is
`Commit`, then `WriteHeader` and one `WriteBlock` per block for the primary table and
for the secondary one; `WriteFails` ends it anywhere, `Gone` is `gpt_disk_free` or
the death of the client. Dereferencing a null pointer (an entry or the CRCs of a
handle that was not read completely) is such a death. `UpdateMain`, `UpdateBackup`
and `UpdateFinalize` are whole stages of `prepare_boot_update`, between two calls of
the client; the two programs do not run at the same time.

`before` and `want` record the tables when the last commit began and those of the
handle. The code leaves to its client what a commit is safe for. `MaySafely` says
it: both tables of the handle complete, valid and with their signatures, and the
secondary table on the disk valid unless the primary one does not change. Each of
its conjuncts is needed: without any of them TLC finds a disk without a valid
table. (That the handle is not stale is not needed for a valid table, only for
`UpdateKept`.) `careless` counts the commits that did not keep to it.

### PerfLock, PowerHandlers, Power\<SoC\>, PowerHal

The HAL answers one call at a time, so that a call is one action and a C function
an operator from the record of the HAL's static variables (`hal`) to the record
after it, with the name of the function. `hal.held` is the set of locks held in the
library; a lock is a kind (what its resource list is for) and a number, which the
library does not give again while the HAL knows it. A hint of the library without a
duration is a lock without one; "refused" stands also for a library that takes note
of a hint and has nothing to release. Resource lists and the choice
between variants of a chip only choose resources and are left out, except for the
8974pro, whose locks differ in number. Every acquisition may be granted, refused or,
where the code allocates memory, fail for want of it; `lib` is the set of functions
that the library has.

`PowerHal` extends the modules of all platform files, whose definitions end in the
name of their SoC, picks the functions of `soc`, and has the weak functions for a
platform without a file. Of the values a video hint gives an attribute the last one
counts (`Attribute`), as the parser overwrites the earlier ones. A number in it is
written as the identity it denotes: one of those of `hint-data.h`, under which the
HAL lists its own locks, or one of three others (`HintIds`). `soc`, `lib`, `client`,
`calls` and `foreign` never change: they choose the build, the library, whether
`Power.cpp` is the only caller ("service") or any function of `power-common.h` is
called ("library"), which of them, and whether metadata keeps clear of the identities
of the profile's and the display's lock. `missed` counts the display-ons that a
governor other than the interactive one made without effect. Actions: `Service`,
`Library`, and the environment's `Expire` (a lock with a duration ends), `Elapse`
(250 ms), `ChangeGovernor`.

`set_interactive` begins with `SendDisplay`: on every call, a repeated display-off too,
it enables the library's display-off or display-on hint with duration 0 and drops the
handle (`power-common.c:118-124`). If the library makes a lock of it, nothing will
release that lock. The model acquires it, and `NoOrphan`, which says that the HAL
forgets no lock without a duration, names these two kinds (`SentKinds`) as an
exception; `DisplayLockOnce` is about the lock of the list of active hints, which
the platform acquires after that.

What the model shows of the code and no property excludes: 845 and 8998 lose the
lock of an encoding started twice, and a second stop releases a stale handle
(`NoOrphan` excepts this one too); a sustained mode that the common code acquired
after a failed `switch_mode` is released only by the common count; while a
power-save or high-performance profile is in force hints are dropped, stops
included; on the platforms whose display-on acquires a lock of two cores (8084,
8974pro) a repeated display-on acquires another one, of which a display-off releases
one, though the comment at `power-common.c:126-127` says that consecutive display-on
hints are already handled; a display-on under another governor leaves the
display-off lock behind, so that the next display-off adds a second one
(`DisplayLockOnce` counts them); metadata that names the profile's or the display's
identity adds to that list entry or takes it away; `Power.cpp` passes
SUSTAINED_PERFORMANCE on without its argument, so that it never starts, though it
reports the mode as supported (`Power.cpp:101`, `125-127`).

### Doze

`mainQ` is the looper's queue; `life` and `bcast` the messages of the activity
manager and of the screen before they arrive; `tasks[d][s]` the queue of the
executor of sensor `s` of service object `d`; `listeners` what is registered.
`CheckDozeService` is `DozeUtils.checkDozeService`: the activity manager ignores a
start of a started service. Actions: the user's changes (`GestureChanges`,
`AlwaysOnChanges`, `DozeChanges`, `Open`, `Leave`), the screen, the deliveries, the
main thread's messages (`Check`, `Orphan`, `OnCreate`, `OnDestroy`, `OnDisplayOn`,
`OnDisplayOff`), the executors. `Orphan` is a posted check that runs after its
activity has gone: `getActivity()` is null, the process dies, and the activity
manager restarts the service if it was started. A destroyed service has unregistered
its receiver: the broadcasts on their way to it are dropped, and those that wait for
the main thread do nothing (`Forget`, `Forgotten`). The durability of preferences
across that crash is not modelled: they keep their values. `careful` never changes:
it tells whether the user of this behaviour changes settings only once the
application has been told that the screen is on, and does not leave the activity
with a check posted.

### ProximityGestures

Time in ticks; events carry the sensor's time, how long the sensor was covered
when it was covered last, and whether the listener had been registered since
before (the last two only for the properties). `OnSensorChanged` is the handler;
`ShouldPulse` its rule.

## 3. Runs

| run | instance | shows |
|---|---|---|
| `gpt_update` | 2 LUNs, 2 blocks, UFS, ordered writes | `Failsafe`: the device can always boot a whole chain. `GrantMeansSwitched`, `GrantMeansFinal`, `XblBackup`: what return code 0 of each stage means. `IInv`: the invariant of the proofs. `ImplementsFailsafeBoot`: the refinement |
| `gpt_faults` | 2 LUNs, 2 blocks, write-back in any order, failing fsync, short writes; one LUN without backups | `WholeOrInvalid`: the CRC rejects every torn table. `NoBackupUntouched`, `DamagedUntouched` |
| `update_script` | 2 LUNs, 3 failures | `UpdateCompletes` (liveness): any three failures leave an update that completes. `CompleteMeansNew` |
| `gpt_power_loss` | 1 LUN, write-back in any order | violation of `Failsafe` |
| `gpt_disk` | 2 blocks of 2 contents, any number of safe commits, 1 careless one | `OneTableWhole`: wherever a commit is cut short, one table is whole. `NeverBothBad`: safe commits leave a valid table over failed reads, crashes and update stages. `UpdateKept`: a fresh handle does not change the stage of the update |
| `power` | 19 platforms, 4 libraries, 2 kinds of client | `NoStaleHandle`, `NoOrphan`: handles and locks. `ProfileBacked`, `ModeBacked`, `DisplayLockOnce`: the lock each state stands for. `BoostsSingle` |
| `gpt_xbl_main` | 1 LUN, UFS | violation of `XblMain` |
| `gpt_swap` | 4 entries, 9 names | `Exchanged`: exactly the pairs as read are exchanged. `ReturnCode` |
| `lun_list` | 3 LUNs, 5 images, 4 places | `Covers`: every accessible LUN with a backup is listed, also where LUNs are listed twice. `NoDuplicates`: none is while a place is free |
| `doze` | 2 service objects; 5 messages pending for a careful user, 3 for any other | `ServiceMatchesSettings`, `QuietWhenOn`, `ArmedTogether`, whenever everything has been delivered to a careful user's application. `OwnedListeners`; `OffIsQuiet` (liveness), for every user |
| `proximity` | 5 ticks, 2 events pending | `OneGestureExact` |
| `proximity_stale` | the same | violation of `PocketMeansCovered` |

Bounds. Two LUNs are enough for LUNs in different stages, which is what the loop
adds to one LUN; two blocks are enough for a torn array, which is one with both
chains in it. Three failures let a failure hit a stage, its retry and the retry's
retry. `N`, `B` are unbounded in the proofs. Nine names include two prefixes, both
kinds of xbl, a backup without its image and a stranger; four slots hold two pairs
in every order. `MaxQueue` bounds only when the user and the screen act, so that
everything pending is always delivered; two service objects allow a new one while
the executors of the old one still work. With three LUNs and four places `lun_list`
is nearly full once each LUN is listed; the fourth image then lists one of them
again, and the fifth overruns it. Deltas of 1 and 2 ticks keep the gap between the
gestures' limits, and 5 ticks hold a cover of each length and another after it.

In `gpt_disk`, two blocks make a torn array and two contents tell the entries of
one slot from those of the other. One careless commit reaches every way in which a
single commit is cut short, from every state that safe commits reach; its theorems
have no bound.

In `power`, `MaxLocks` and `MaxRef` of 2 hold a lock and its replacement, a start
and a start again; `MaxList` of 3 holds two hints and one more; `MaxMissed` of 1
lets one display-on go without effect, and display-offs follow it. `MaxLocks` bounds
the hints that `set_interactive` sends like any other lock: two of each, and a
library that refuses them takes any number. Calls of kinds that share no state are
not combined: profiles come with video, with the display, or with modes and boosts.
Two of the texts name the profile's identity. The library is whole, missing, or
without one of the two functions that acquire; one that acquires without a function
to release would hold every lock for ever. The governor changes wherever a call
reads it (video and display). INTERACTION_BOOST is taken as set, as in
`BoardConfig.mk:126`.

In `doze`, three properties are about a careful user. With any other `QuietWhenOn`
fails: a gesture switched off between the screen going on and its broadcast leaves
its listener registered until the service is destroyed, because `onDisplayOn`
disables only the sensors of enabled gestures.

Fairness. `UpdateScript`: weak fairness of the program's steps and of the
client's, which run in one process that the kernel schedules; none of failures,
of which there are at most `MaxFaults`. `Doze`: weak fairness of the deliveries,
the main thread and each executor; none of the user or of the screen.

Deadlock is checked except where the system ends: the loops of `GptSwap` and
`LunList`, a completed update script, and the bounded clock of
`ProximityGestures`.

## 4. Proofs

Eight modules hold theorems. Between them they state every safety property that a
passing run checks, for every value of the constants.

`GptUpdate_proofs`, for every number of LUNs and blocks and every `HasBackup`. Four
theorems hold on any storage, with every fault of `Faults`: `TypeCorrect`,
`WholeTheorem`, `DamagedTheorem` and `NoBackupTheorem`. They follow from `FaultInv`,
which is what no write can spoil: the CRC of every header, written back or not, was
computed over a whole chain; a bad CRC is neither made nor repaired; and no stage
gets further than the checks of MAIN with a LUN that it may not write to. The rest
are from

    Ordered == WriteThrough /\ "short_write" \notin Faults

that is, writes reach the medium in the order in which they are made, and whole.
(fsync is free to fail.) `gpt_power_loss` shows that `Failsafe` needs it. The safety
properties are not inductive: that a LUN boots says nothing of what the next write
will leave. `IInv` adds the shape of a LUN between two writes (`Shape`: it boots by
the primary table; or by the secondary one, the primary's signature being destroyed;
or it was damaged and is left alone), what each stage has done so far on the LUN it
is at (`StepInv`), on the LUNs it has been through (`LoopInv`), what the client holds
(`GrantInv`), which LUNs a half-written chain must stay out of (`TornInv`), and that
boot LUN B means some LUN has not reached BACKUP (`XblInv`). `Invariance` proves it
inductive with one lemma per action; `FailsafeTheorem`, `GrantTheorem`,
`FinalTheorem` and `XblTheorem` follow from it, and `Refinement`
shows that `GptUpdate` implements `FailsafeBoot` under the mapping of every LUN to
the chain it boots from: the only steps that are not stutters are the two writes of
the primary signature and the client's.

`UpdateScript_proofs`: every step of the script is a step of `GptUpdate` or leaves
its variables alone (`ScriptImplementsUpdate`), so that all theorems about
`GptUpdate` hold of the script. `CompleteTheorem`, from `Ordered`: what `IInv` says of
a return code 0 of FINALIZE is what the client stops with, and nothing changes after.

`GptSwap_proofs`, for every list of names that are pairwise distinct and none
another's backup name (`SwapListAssumption`; PTN_SWAP_LIST is one), every array
and both kinds of device. The argument: an entry belongs to at most one image
(`Disjoint`), so what earlier iterations exchanged does not move what the current
one finds (`SameHits`). `ExchangedTheorem`, `ReturnCodeTheorem`,
`TypeCorrect`.

`LunList_proofs`, for any finite set of LUNs, any number of images and of places. A
LUN that the search does not find is new as long as the list is searched; that the
search is skipped adds duplicates but leaves out no LUN. `NoDuplicatesTheorem`,
`CoversTheorem`.

`GptDisk_proofs`, for every number of blocks, every set of contents, every twin and
any number of careless commits. The invariant has three parts. `Progress`: while the
primary table is written, the secondary one is as before the commit, and while the
secondary is written, the primary is complete, with a prefix of the array in
between. `Safe`: while every commit kept to `MaySafely`, a table is valid, the tables
of a handle being committed are valid, and a primary table with a destroyed
signature is intact but for that; otherwise BACKUP, which restores the signature
without a look at the array, would make a torn table the one in use. `Fresh`: a
fresh handle has the signatures of the disk. `OneTableWholeTheorem` follows from
`Progress`, `NeverBothBadTheorem` from `Safe`, `UpdateKeptTheorem` is an action property
from `Fresh`.

`PowerHal_proofs`, for every platform, set of functions in the library, caller, hint
text and bound. A handle is only as good as what every other handle does, so the
invariant is about all of them: a lock has one owner, a variable or an entry of the list
(`Owners`); a lock that a count, the mode or the list stands for is held (`Live`); a
lock of a kind that is never forgotten has an owner (`Kept`). The hints that
`set_interactive` sends are of no such kind (`KeptKinds` leaves them out as it does the
encodings of 845 and 8998): they are held and have no owner. `FlagInv`, `ProfileInv` and
`DisplayInv` tie the owners to the counts, the mode, the profile and the display hint.
`Owners` survives an acquisition because the library does not give a lock that the HAL
knows of, and some number is always free, as the locks held, listed and kept in
variables are finitely many (`Fresh`). The proof has a lemma for each way in which a
lock is gained, lost or handed over, one for each shape of `PowerHandlers`, and then one
step per platform. `StaleTheorem`, `OrphanTheorem`, `ProfileTheorem`, `ModeTheorem`,
`BoostTheorem`, `DisplayTheorem`, `TypeCorrect`. `ProfileTheorem` and `DisplayTheorem`
have the premise of their properties, that metadata names neither identity; the others
hold whichever identity of `HintIds` it names. `DisplayTheorem` rests on `DisplayWith`,
which counts the locks of the display against `missed`, and on what `Ready` says between
the change of `display_hint_sent` and the platform's half of the call.
`BoundsAssumption` asks only that the bounds are numbers and that one lock fits.

`Doze_proofs`, for every set of service objects, any `MaxQueue` and both values of
`AodAvailable`. The properties speak of the moment at which everything is delivered,
so the invariant says what the messages on their way will do. `Carries(q, M, a, b)`:
the messages of `q` that are in `M` take their receiver from `a` to `b`, each to a value
it does not have yet. The messages of the activity manager carry the service from
"there is an object" to "it is started" (`LifeInv`), the broadcasts carry it from the
screen it was told of to the screen (`ScreenInv`), the last task of an executor
decides its listener (`Final`), no other object will have one (`Gone`), and for a
careful user a check is due or the last one was right (`CheckInv`). With empty queues
these are `ServiceTheorem`, `QuietTheorem`, `ArmedTheorem` and `OwnedTheorem`; also
`TypeCorrect`.

`ProximityGestures_proofs`, for every clock and queue and any limits with
`HANDWAVE_MAX_DELTA < POCKET_MIN_DELTA`, as in `ProximitySensor.java`. The handler
sees the end of a cover long after it happened; the invariant says that what it has
seen by then, the object's fields or the event queued just before, is the beginning
of the same cover (`CoverInv`, `GoesOnInv`). `OneGestureTheorem`, `TypeCorrect`.

Only model-checked: `UpdateCompletes` and `OffIsQuiet`, which are liveness under
fairness and out of the prover's reach.

## 5. Findings

1. `gpt_power_loss`: the writes of a stage are not ordered on the medium, the only
   fsync being the last step. A loss of power after the primary signature has been
   destroyed on the medium and before the secondary table has arrived leaves
   nothing to boot.
2. `gpt_xbl_main`: BACKUP sets boot LUN A before it touches the tables. Interrupted
   there and followed by MAIN, it lets MAIN return 0 ("stage already set") with
   boot LUN A selected, whose xbl the client then overwrites.
3. `proximity_stale`: `ProximitySensor` keeps the start of a cover across disable
   and enable, so that the first event after a pause completes a gesture that
   never lasted.

Weaknesses that a model shows and no run is about are told with the modules in
section 2; two of them disagree with a comment, on repeated display-ons (`PowerHal`)
and on the search of the nearly full list (`LunList`, `gpt-utils.cpp:969-971`). One
more is the lack of any fsync in `gpt_disk_commit`: on a loss of power, during a
commit or soon after it has returned 0, the medium may hold both headers and neither
array. `GptDisk` has what the kernel returns to a read, and no loss of power. Like
`GptUpdate`'s `gpt_power_loss` it would have no valid table left. Nor has it short
writes, which `blk_rw` takes for complete ones (`gpt_faults` has them for the
update).

## 6. Plan

1. An abstract specification of the locks of the HAL, owners and what they own, and
   `PowerHal` as its refinement; `Owners` and `Live` of `PowerHal_proofs` are what the
   mapping needs.
2. The pickup gesture's limit of one pulse in 2.5 s, and the race of its timestamp
   between the executor and the main thread.
3. The second start of video encoding on 845 and 8998 as a property of its own: how
   many locks are lost by which sequence of calls.

## 7. Not modelled

`PROJECT.json` gives the reason for each part. In short: the parsing of sysfs and
link names into devices (`get_scsi_node_from_bootdevice`,
`get_dev_path_from_partition_name`) is reduced to success or failure; header
fields other than signature and CRCs do not change; logging is left out; the
vendor's libraries, the boot loader and Android's framework are modelled by how
the code uses them. `fod/` is left out because it keeps no state and has no guard
(each call writes a constant), `powerhintparser.c` because nothing calls it.
