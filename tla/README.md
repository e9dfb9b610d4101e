# Verification of the storage, boot, environment and network core of the MS120 U-Boot

This directory holds TLA+ models of the U-Boot of the Meraki MS120 switch (`src/U-boot.MS120`, a U-Boot of
2013 for the Marvell AC3 "msys" board), TLC configurations that check them, and proofs for TLAPS. Paths below
are relative to `src/U-boot.MS120`.

The board boots from raw NAND through UBI: everything the boot depends on - the kernel images, and the counter
that limits how often an upgrade is tried - lives in UBI volumes. The models follow that stack upwards. Two more
parts have models of their own: the environment, which holds the boot scripts' variables, and loading a file over
the network, which is how a board is recovered.

```
   MerakiBoot      boot scripts, retry counter            msys.h, cmd_meraki.c, (bootm)
       | uses
   VolStore        what a volume promises                 (abstract)
       ^ implemented by
   UbiVolume       volume table, update marker, commands  vtbl.c upd.c vmt.c cmd_ubi.c
       | uses
   LebStore        what a logical eraseblock promises     (abstract)
       ^ implemented by
   UbiEba          EBA, moves, erasures, scan, flash I/O  eba.c wl.c scan.c io.c build.c
       | uses                     ^ the choices it leaves open, made by
   FlashData                    UbiWl   trees, counters, protection, reserve   wl.c

   EnvStore  <- implemented by -  EnvTable   hash table, commands, saveenv     hashtable.c cmd_nvedit.c env_nand.c
   Tftp            network loop, ARP, TFTP client         net.c arp.c tftp.c
```

`MC...` modules give the constants their values for TLC; `..._proofs` modules hold the theorems (section 4).

## 1. Inventory

| Component | State | Operations | Interacts with |
|---|---|---|---|
| UBI eraseblock association (`drivers/mtd/ubi/eba.c`) | `eba_tbl` per volume, `global_sqnum` | un-map, read, write (dynamic, static), atomic change, copy, build tables at attach, recover a failing eraseblock | calls WL to get and put eraseblocks; called by WL to copy a LEB |
| UBI wear-levelling (`wl.c`) | free, used, scrub and protection trees, work queue | get, put, scrub, erase, move, attach | runs its work inside the caller: there is no background thread |
| UBI scanning (`scan.c`) | scan information: volumes, LEBs, lists of eraseblocks to erase | read all headers, order copies of a LEB | input of vtbl, EBA and WL at attach |
| UBI flash I/O (`io.c`) | `ro_mode` | read, write, erase, torture, mark bad, headers | NAND driver |
| UBI volume table (`vtbl.c`) | table in RAM, two copies in the layout volume | change a record, check, restore, create, build volumes | EBA |
| UBI volume update (`upd.c`) | `updating`, `upd_marker` | start an update, write data, set and clear the marker | vtbl, EBA |
| UBI commands and volume management (`common/cmd_ubi.c`, `vmt.c`) | volume objects | `ubi part, create, remove, write, read, check` | vtbl, upd, EBA |
| UBI attach (`build.c`) | the device | scan, table, EBA, WL in this order | all of the above |
| Meraki upgrade counter (`common/cmd_meraki.c`) | one byte in volume `upgrade_retries` | test, limit, decrement, write back | UBI commands |
| Boot scripts (`include/configs/msys.h`) | environment | `bootcmd`, `bootselect`, `meraki_boot` | UBI commands, bootm |
| bootm (`common/cmd_bootm.c`) | image under way | load, verify, start | scripts |
| Network loop (`net/net.c`) | `net_state`, timeout and packet handler, number of tries | start, receive, time out, restart, abort, end | calls the protocols; they set its handlers and its state |
| ARP (`net/arp.c`) | the packet that waits, tries | request, repeat, reply | shares the transmit buffer with every protocol |
| TFTP (`net/tftp.c`) | state, ports, block numbers, wrap offset, timeouts | start, OACK, data, error, time out | loop, ARP, memory |
| Environment hash table (`lib/hashtable.c`) | buckets, number of entries | create, find, enter, delete, export, import | commands, storage |
| Environment storage and commands (`common/env_nand.c`, `env_common.c`, `cmd_nvedit.c`) | the copy in NAND | set, delete, import, default, save, load | hash table, NAND |
| Logical memory blocks (`lib/lmb.c`), link-local addresses (`net/link_local.c`) | region lists; address state | reserve, free; probe, defend | bootm; loop |
| Board, SoC, shell, file systems, drivers | registers, text | - | - |

What is hard here:

* **Unclean reboots.** The board has no orderly shutdown. Every sequence of flash operations may stop between any
  two of them or inside one; a torn page later reads as an ECC error. Attaching repairs, and may itself be cut.
* **Work inside work.** Upstream UBI gives erasures and moves to a thread and protects LEBs with locks. This port
  runs the work by a direct call (`wl.c:704`) and its locks are empty (`include/ubi_uboot.h`), so that a move of
  any LEB may happen in the middle of an operation on any LEB.
* **Failing flash.** A failed write is retried on another eraseblock, or the data already there is moved by
  `recover_peb`; a failed erasure makes a block bad; errors that are not expected make the device read-only in the
  middle of a command.
* **RAM and flash drift apart** when a command fails half way and the next one relies on what RAM says.
* **Counting with a byte on the flash** under power cuts, with a value nobody may have written yet.
* **Trees and counters that drift over a long time.** Erase counters, protection, bad eraseblocks and deleted hash
  entries only show their effect after long sequences of operations.
* **A network that loses, doubles and delays packets**, with two timers, a packet waiting in a shared buffer, and
  handlers that all write the same few variables within one turn of the loop.

What makes the parts correct, in one line each: a LEB holds what was last written to it, whatever goes on below
(LebStore); one intact copy of the volume table always exists; a volume never mixes old and new data unless it is
marked damaged (VolStore); no eraseblock is lost or shared; an upgrade is tried at most five times and every boot
gets to an image that can be booted, if there is one; every variable that was set can be found, and what was saved
is what is loaded; a transfer that reports success has stored the whole file, and one that cannot go on ends.
`PROJECT.json` lists the hazards, with the line where each
one bites and the properties about it.

## 2. Modules

### FlashData

Contents of eraseblocks as sequences of pages. `Partial(c)` is what an interrupted or failed write of `c` leaves
(a prefix, perhaps followed by a torn page), `Scrambled(c)` what an erasure leaves that stopped before it reached
the headers, `EccError` a read that meets a torn page.

### LebStore (abstract) and UbiEba

`LebStore` has one variable per LEB, its durable content, and one request at a time. A request changes only its own
LEB and only within `Allowed`; moves, erasures, attaches and power cuts change nothing else. `Allowed` is as strong
as the code makes it, and no stronger: an append whose write fails may lose the pages written before it when
power is cut inside `recover_peb`; `AppendStored` says that they are there again when the append reports success,
and are never touched before a write fails.

`UbiEba` models eba.c, wl.c, scan.c and the flash operations of io.c.

| Variable | Code |
|---|---|
| `flash[p]` | headers (state, LEB, `sqnum`, `copy_flag`, the content `data_crc` covers) and data of eraseblock p |
| `eba_tbl` | `vol->eba_tbl` of all volumes; a LEB is a volume and a number in one |
| `free`, `used` | `ubi->free`; `ubi->used`, `scrub` and the protection trees together |
| `global_sqnum`, `ro_mode` | the fields of `struct ubi_device` |
| `todo` | the lists `erase`, `corr` of the scan, erased by `ubi_wl_init_scan` |
| `op`, `work` | the call stack: the EBA operation, and the erasure or move inside it |
| `up` | not attached, attached, or attaching was refused |
| `lost` | used eraseblocks that no LEB is mapped to: the targets of moves whose header could not be read back |

A step is one flash operation with the RAM updates around it. `WriteLeb` is `ubi_eba_write_leb` and
`ubi_eba_write_leb_st` for a LEB that is not mapped, `AppendLeb` the former for one that is, with `Recover...` for
`recover_peb`; `AtomicLebChange`, `UnmapLeb` and `Move...` (`wear_leveling_worker` with `ubi_eba_copy_leb`) likewise.
`PutPeb` starts the erasure and names where the caller goes on; `EnsureWearLeveling`, at the end of an erasure,
may start a move of any used to any free eraseblock: the trees, thresholds and erase counters that choose them are
abstracted to any choice here and modelled in `UbiWl`. `Attach` is scan and EBA initialisation in one step (neither writes to the flash),
`AttachErase` and `AttachDone` are `ubi_wl_init_scan`; EBA is initialised before WL (`build.c:479`), so a move at
the end of attach finds its table, and while attach erases the used tree is not filled, so none starts earlier.

Left out: memory errors in WL and EBA, apart from the one UbiVolume uses; -ENOSPC while eraseblocks are reserved
for each volume; header layout, CRC computation and compatibility flags; erase counters. A read is a function of what is
on the flash: a header that was written well and cannot be read once is not modelled. A write that fails with an error
other than -EIO is modelled as a refused one, in read-only mode. `ubi_eba_copy_leb` returns a code above 1 in two cases. One is
a volume that is being deleted: it cannot happen here, since `ubi_remove_vol` keeps the volume object until its LEBs are un-mapped,
and `ubi_remove_volume` has no caller. The other is a header of the copy that reads back as none or as a damaged one
(`eba.c:1098`): that is `MoveBadHdr`, after which the target is in the used tree, where nobody will erase it.

### UbiWl

The wear-levelling unit for itself, with the EBA unit reduced to what it uses each eraseblock for (`owner`).

| Variable | Code |
|---|---|
| `free`, `used`, `scrub`, `prot` | the trees; `prot[p]` is `pe->abs_ec - ubi->abs_ec` |
| `ec` | `e->ec` |
| `wl_scheduled`, `ro_mode`, `avail_pebs`, `beb_rsvd_pebs` | the fields of `struct ubi_device` |
| `work`, `depth` | the work that runs, and how many calls of `do_work` are inside each other |
| `todo`, `attached` | `ubi_wl_init_scan` |
| `owner`, `op` | what the EBA unit has got, and its unfinished call |

`First`, `Last` and `FindWlEntry` are the searches in the trees; `Picks` is the choice of `ubi_wl_get_peb`, where the
root of a red-black tree is any member. `Erase`, `EraseFailed`, `EraseRefused` are `erase_worker`; `MoveBegin` to
`MoveFailed` are `wear_leveling_worker` with what `ubi_eba_copy_leb` may return: `MoveProtects` is the header that cannot be
read back, which leaves a target that is used and holds no LEB (`Lost`; its header is "blank" or "corr"), and `MoveNotErased`
is the lack of memory for the erasure at the end of a move. `EnsureWearLeveling` is part of the action that calls it. Since every `do_work` is the last thing its caller does, a stack of calls is one piece of
work and a depth, and `StackBounded` is about that depth.

Left out: `move_to_put` and the waiting in `ubi_wl_put_peb`, which need a second thread; freed memory that is still
used (`wl.c:1085`, `:949`); a failing `ubi_io_mark_bad`, which is a refused erasure; recomputing the reserve level,
constant on a device of this size; `recover_peb`, which uses this unit like an atomic change; flash that does not admit bad
eraseblocks (`wl.c:1102`), which NAND does; a move that meets two faults at once, a bit-flip and no memory for the
erasure; data that reads back differently, which is in `UbiEba`; and attaching that fails for lack of memory
(`wl.c:1547`), after which there is nothing to look at.

### EnvStore (abstract) and EnvTable

`EnvStore` is a map from names to values and a saved copy of it; a step changes one variable, forgets all of them,
erases the copy or saves. `EnvTable` is the hash table: `used`, `key`, `data` per bucket, the probe sequence of the two
hash functions, deletion marks, and `hexport_r` (`Sorted` is its `qsort`) and `himport_r` with the list of variables; on top of it `setenv`,
`env delete`, `env import`, `env default`, `saveenv` (erase, then write, each of which may fail) and loading at boot.
The content of the table is the map: `ImplementsEnvStore` says that each step of the code is a step of the map as
long as a bucket is left that was never used. `SizeAssumption` says that the search of `hcreate_r` for a prime ends
below twice the size asked for, which is Bertrand's postulate; TLC evaluates it for the sizes of the runs.

A name is a number, its rank in the order of `strcmp`, with any hash; a value is empty or not, since saving writes
`name=` for an empty one and loading takes that for a deletion. Left out: parsing and formatting, memory errors, a read error at boot with a good copy on the flash (`env_nand.c:426`, the default
environment is taken), and whether a variable is write-protected, which is any choice. On the way three things were seen that no property is about:
`hmatch_r` and `hstrstr_r` never look at the last bucket (`hashtable.c:221`, `:242`), `isprime` takes 1 for a prime
and 3 for none, and variables with empty values do not survive a reboot.

### Tftp

One module for the loop, ARP and the client, because they share the timeout handler, the packet handler, `net_state`
and `NetTxPacket`. `pc` follows a turn of `NetLoop`: packets (`Receive`), the ARP timer, the transfer's timer, then
`net_state` (`Continue`, `Restart`, `Leave`). Packets on their way are a set; the faults of a scenario say whether
they may be lost, arrive again or be overtaken by a timer, and whether the server sends errors. Memory holds, for
each unit, which unit of the file was stored there, so that `OkIsWhole` can tell a file from a file with a hole.
`DoneIsWhole` is `OkIsWhole` but for two cases in which the code does not keep it (section 5).
Block numbers are modulo `SEQ` where the code has 2^16. The server is any that keeps to the protocol; it may answer a
repeated acknowledgement or ignore it.

Assumed: the pseudo-random port of a new try differs from those of packets still on their way (`FreshPorts`); with
the same port (a one in 3072 chance) packets of the earlier try would be taken; and no packet of one command arrives in the next
(`Return`), when someone has typed it. Left out: other protocols, the
gateway, requests of others for our address, multicast, tsize, writing to a server; the counter of tries is not
counted when it has no limit.

### VolStore (abstract) and UbiVolume

`VolStore` says what a reader finds after a reboot: a volume is absent, damaged or has a complete content, and a
command moves it forwards only.

`UbiVolume` models vtbl.c, upd.c and the commands on top of a LebStore. A call of EBA is a request of it: `EbaCall`
begins one, `EbaReturn` and `EbaError` end it, `PowerCut` leaves anything the request allows. `op.pc` is the loop
the command is in and `op.then` the code after `ubi_change_vtbl_record`. `AttachTable`, `AttachBlank` and
`CreateVtbl` are `ubi_read_volume_table` with the restoring of a lost copy; `InitVolumes` and `EraseUnknown` are
`init_volumes` and what follows `check_scanning_info`.

Details kept because they matter: a failed create leaves its record in the table in RAM; a failed remove leaves the
volume object, and a write to it then produces a record that `vtbl_check` refuses (`BadRec`); `updating` stays set
after a failed update; `set_update_marker` sets the marker in RAM also when the table could not be written; a
write of 0xFF to a dynamic volume is skipped; an update of no data clears the marker twice; un-mapping, and a write
that used up its retries, report success although the device has become read-only.

Left out: names (a volume's name is its ID), auto-resize, resizing (no command), the accounting of reserved
eraseblocks, the `corrupted` flag, which only affects messages; an update that fails because there is no memory for its buffer
(`upd.c:164`), which leaves the volume wiped and marked; and that in read-only mode a LEB of 0xFF is skipped
(`upd.c:247`) before the next one is refused.

Two notes on how the layers meet. `create_vtbl` at attach writes its copy without the copy flag, so the highest
sequence number wins, and a layout LEB may for a while have three copies; `AtMostTwoCopies` is about EBA operations
and moves. And the refinement of LebStore is checked without "miswrite" (data read back after a move differs), because
LebStore's promise does not hold then (section 5).

### MerakiBoot

The scripts of `msys.h` as a program counter, over a VolStore with the volumes `part.new`, `part.safe`, `part.old`
and `upgrade_retries`. `CheckUpgrade`, `CountProgress` and `CountWritten` are `meraki_check_upgrade` with its
`ubi write`; `ReadAndBoot` is one `ubi read && bootm` of the script. An image is good, refused by bootm, or makes
bootm reset the board. A volume that was never written reads as success with the buffer untouched if it is
static, so the counter may be any byte and the image whatever memory held: both are modelled. What Linux does
(installing and confirming an upgrade) is outside the source and modelled as permissively as the boot needs.

Not covered by any property, because the code makes no promise: an image in `part.safe` that makes bootm reset the
board is tried again on every boot, and `part.old` is never reached.

## 3. Runs

| Run | Instance | Shows |
|---|---|---|
| `eba_errors` | 4 eraseblocks, 2 LEBs, 2 pages, power cuts, one failed write, write in place or erasure, a bit-flip or a header that does not read back | `ImplementsLebStore`, `AppendStored`, at most two copies, RAM equals what a scan finds, no leak but the known one, mapping valid, nothing mapped is erased |
| `eba_all` | 2 page values, all faults, two of them, power cuts | types, unique sequence numbers |
| `ubi_wl` | 5 eraseblocks, 6 devices with different counters, reserves and faults, 4 calls of the EBA unit | each eraseblock in one place, reserves suffice, scrubbing done, wear within the window, calls end |
| `volume_all` | 2 volumes of 2 LEBs, cuts and flash errors | table recoverable, RAM equals flash, no leftovers of a removed volume, reads are right, `ImplementsVolStore` |
| `volume_live` | blank flash, every fault | every command and every attach ends |
| `meraki_boot` | counter of 0..7, 2 upgrades | five tries, given up in the end, fallbacks tried, every boot ends |
| `env_table` | 3 names, two of them with one hash, tables of 5 and 7 buckets | names stay findable, entries counted, booting restores, `ImplementsEnvStore` |
| `tftp` | files of 1 to 5 units, both block sizes, two tries or without limit, the network's faults | success means the whole file but for two cases, never waiting for nothing, transfers complete or end |

Four more runs expect a violation of what a comment says, each on the smallest device or file that shows it: `eba_retries`,
`eba_recover`, `env_tombstones` and `tftp_wrap`. Section 5 lists them.

Bounds, and why they are enough. *UbiEba*: four eraseblocks let two LEBs be mapped while an operation has a new
eraseblock and a move another one, which is all one thread can hold. Two LEBs tell "this LEB" from "another LEB". Two
pages give a write a boundary to be torn at; two page values tell a wrong copy from a right one. `MaxFaults` counts
flash errors, not power cuts: cuts are unlimited. `MaxSqnum` bounds writes between two attaches; an operation that
has begun goes on beyond it. `UBI_IO_RETRIES` is 1 instead of 3: once more, and given up. *UbiWl*: five eraseblocks are
one in use, one to scrub, one to erase, one free and one reserved; the threshold is 2 and the counters span both
sides of it and of `WL_FREE_MAX_DIFF`; protection of 2, 3 and 4 erasures ends within four calls, one of which may
fail. *UbiVolume*: volumes and their LEBs tell "this" from "another". *MerakiBoot*: `MaxByte` 7 stands for 255: above 5,
and below the point where arithmetic wraps; `StartsCounted` counts one beyond what is allowed. *EnvTable*: three names
in five buckets fill them with entries and deletion marks; the third name falls on bucket 0, which is not used.
*Tftp*: `SEQ` 4 and a file of 5 blocks wrap once; a timeout count of 1 and two ARP tries reach every limit; two
transfers of the server let one overlap with the rest of another. Eraseblocks, LEBs, page values and volumes are
symmetric in the runs without liveness: they are only compared for equality.

Fairness. `UbiEba`, `UbiWl` and `EnvTable` have none and only safety is checked. `UbiVolume` assumes WF of `Program`:
U-Boot has one thread, and it runs while there is power; commands and power cuts are not fair, and `Settles` excludes
only endless cuts. `MerakiBoot` assumes the same of `Script`, and that a `ubi write` ends, which is `Settles`. `Tftp`
assumes WF of the loop; SF of receiving, since a packet that waits in the device is seen by some turn; SF of the
timers, since one that stays armed runs out while the loop turns; and WF of the server's answers, which `Completes`
needs and `GivesUp` does not. TLC checks deadlock in every run but those of `UbiWl`, whose calls are bounded: the system
may always be reset or given a command.

Each property of a passing run has a mutant, an operator named in `PROJECT.json` next to the definition it
replaces, which changes the code in a plausible way and makes TLC report that property.

## 4. Proofs

All of these hold for every value of the constants that the modules' assumptions allow; "under" names a hypothesis of
the theorem, explained below.

| Module | Theorem | States | Under |
|---|---|---|---|
| `UbiEba_proofs` | `TypeCorrect` | `[]TypeOK` | |
| | `SqnumsUnique` | `[]SqnumUnique` | |
| `UbiEba_map_proofs` | `MappingStaysValid` | `[]MappingValid` | `RecoverySafe` |
| | `OnlyUnmappedErased` | `[]ErasedIsUnmapped` | `RecoversAtOnce`, `[][~MoveMismatch]_vars` |
| | `TwoCopies` | `[]AtMostTwoCopies` | `RecoverySafe` |
| | `RamMatchesScan` | `[]EbaMatchesScan` | `RecoverySafe` |
| | `AllAccounted` | `[]PebAccounting` | `RecoverySafe` |
| `UbiEba_store_proofs` | `StoreImplemented` | `ImplementsLebStore` | `StoreSafe` |
| | `AppendIsStored` | `AppendStored` | `StoreSafe` |
| `UbiWl_proofs` | `Types` | `[]TypeOK` | |
| | `NoneLost` | `[]OnePlace` | |
| | `NoneLeaked` | `[]UsedIsOwned` | |
| | `ReservesSuffice` | `[]FreeRemains` | |
| | `NotForgotten` | `[]ScrubDone` | |
| | `WearWindow` | `[]PicksInWindow` | |
| | `CallsReturn` | `[]CallsBounded` | `StackSafe` |
| | `CallsEnd` | `[]StackBounded` | `StackSafe`, no bit-flips |
| `UbiVolume_proofs` | `VolumeTypes` | `[]TypeOK` | |
| | `NothingLeft` | `[]NoLeftovers` | |
| | `TableSurvives` | `[]VtblRecoverable` | `Formatted` |
| | `TableInSync` | `[]VtblInSync` | `Formatted` |
| | `ReadsAreStored` | `[]ReadIsStored` | `Formatted` |
| | `VolumesImplement` | `ImplementsVolStore` | `Formatted` |
| `MerakiBoot_proofs` | `FiveTries` | `[]TriesBounded` | |
| | `BootTypes` | `[]TypeOK` | |
| | `RedIsLast` | `RedMeansNoImage` | |
| `EnvTable_proofs` | `EnvTypes` | `[]TypeOK` | |
| | `SearchFinds` | `[]FindsExported` | |
| | `FilledIsCount` | `[]FilledCounts` | |
| | `SearchIsComplete` | `[]ProbesAll` | |
| | `TableIsMap` | `ImplementsEnvStore` | |
| | `BootLoadsSaved` | `[]BootRestores` | `Fits` |
| `Tftp_proofs` | `TransferTypes` | `[]TypeOK` | |
| | `LoopIsWoken` | `[]AlwaysWoken` | |
| | `ArpSendsCurrent` | `[]WaitingIsCurrent` | |
| | `WholeFile` | `[](OkIsWhole /\ DoneIsWhole)` | `Plain` |

### Hypotheses

`RecoverySafe`, `StoreSafe`, `Formatted` and `Plain` exclude behaviour of the code after which the properties are false;
`Fits` keeps the table from being filled up during one import; `StackSafe` is about a constant of the build.

* `RecoversAtOnce`: not both a failed write in place and a second failed write (run `eba_recover`).
* `RecoverySafe`: `RecoversAtOnce`, and no move whose data reads back differently (section 5, `MoveMismatch`). Headers that do
  not read back are not excluded. `OnlyUnmappedErased` does without the second part: it says of any flash that no mapped
  eraseblock is erased in a behaviour without that step, which makes it the one step to blame.
* `StoreSafe`: `RecoverySafe`; no more failed writes than retries, since the last retry reports success for data that is not
  stored (run `eba_retries`); and not both a failed write in place and a failed erasure. The last conjunct was found while
  proving and confirmed by TLC (section 5, `RecoverVidHdr`, then `EraseError`). The constants of the run `eba_errors` satisfy
  it with one fault of any kind. The theorem also admits up to `UBI_IO_RETRIES` faults of the kinds "write", "erase" and
  "bitflip", and any number of the kinds "erase" and "bitflip" or "inplace" and "bitflip", "readback" among all of them; power cuts anywhere in all cases.
* `StackSafe`: `UBI_WL_THRESHOLD` is at least 2. It is 4096 (`CONFIG_MTD_UBI_WL_THRESHOLD`); with 1 the eraseblock that a move
  gives back could be the target of the next one, and the calls would go deeper on larger devices.
* `Formatted`: the flash was formatted before the first attach, and the allocator does not fail. A cut inside the first
  formatting leaves a device that never attaches; a failed allocation leaves one copy of the table, which the next
  change un-maps (section 5).
* `Fits`: an environment on the flash, and the default one, have no more variables than the table has buckets;
  `himport_r` computes the size of the table from the size of the data, up to a limit.
* `Plain`: the file has fewer blocks than there are block numbers (`tftp_wrap` shows why), fits into the memory that is
  looked at, and packets are doubled by the network only where no options are negotiated (section 5, `ReceiveOack`).

The assumptions of the modules themselves are that the constants for "no eraseblock", "no LEB", "torn", "unmapped" and the
special contents differ from ordinary values, that bounds are naturals, that faults are of the known kinds, and `SizeAssumption`.

### Arguments

*Sequence numbers.* `SqnumUnique` is not inductive: an operation takes its number first and writes it later, and
moves in between take others. `SqnumInv` adds `SqnumFresh` (the next number is above every number on the flash,
and the one an operation holds is on no eraseblock) and `ControlOK` (which eraseblocks an operation and a piece of
work hold at each point). Attach re-establishes `SqnumFresh` from the flash alone: its counter starts above the
highest number found (there is one, since the set of eraseblocks is finite). `UbiEba_proofs` begins with the lemmas about
partial writes and scrambled contents.

*Mapping and copies.* `MapInv` adds to `MappingValid` and `ErasedIsUnmapped` what operation and move hold at each point: that a
block taken is erased and no longer free, that a move still has the mapping it started from when it re-maps, and
what the stale mapping of an atomic change means between giving the old block away and mapping the new one.
`CopyInv` adds that at most one copy of a LEB is not the mapped one (`Lone`), and that on a writable device this
one is about to be mapped or erased (`Extra`): hence there is never a third, and between operations a scan, which
prefers the higher sequence number unless its copy is incomplete, finds the mapped one. `PlaceInv` adds that what is
not mapped, held, free or about to be erased does not exist.

*The store.* That `UbiEba` implements `LebStore` is proved in three parts. Reading: of at most two copies of a LEB (`TwoCopies`)
the scan takes one, and `DurableIs` says which; a copy is `Harmless` beside another when a reader finds the same without it -
it is older, or it is a newer copy of a move or a change that is incomplete or holds the same data. Writing: for every write
to the flash, complete, failed or cut short, a lemma ending in `Legal` says that the durable content changes in no LEB but
that of the request, and there to something `Allowed`. What these lemmas need of the copies in flight is the invariant
`StoreInv`: `PlaceInv` of the mapping proofs and `DataInv`, whose parts are that what `data_crc` covers is clean (`CrcClean`),
what move and operation are writing (`MoveShape`, `OpShape`), what the LEB held when the request was issued and holds now
(`OpBase`), that whatever is being erased or waits to be erased during attach is harmless or belongs to the request (`Waste`),
and how many faults led to a retry (`Counted`). `InAllowed`, the content of the LEB of the request is one `LebStore` allows now,
makes a power cut a stutter and the return of the request a step. `AppendStored` follows from the same invariant: at the
point where success is reported `OpBase` gives the mapped data, and `Waste` that no other copy hides it.

*Wear-levelling.* `PlaceInv` is `OnePlace` with what the running work and the operation of the EBA unit hold and own.
`OwnInv` adds that a move's source belongs to a LEB or is lost, and that no more are lost than there were headers that could not
be read back (`LostCounted`): nobody knows a lost eraseblock, so that none is found again, and only `MoveProtects` loses
one. `FreeInv` adds a count (`Reserved`): LEBs are no more than the volumes have reserved, and bad, available and reserved
eraseblocks always add up to what attaching found; with `OnePlace`, what is left over is free, unless more are lost than are available
or in reserve. `ScrubInv` says at each
point of the nested calls why the scrub tree is empty or will be looked at again: `wl_scheduled` is set only while a move
is under way, and a move for wear starts only when nothing waits to be scrubbed.

*Depth of the calls.* `StackInv` keeps, while calls are inside each other, a set R of eraseblocks that pays two calls each:
`depth` and twice its size are together no more than is allowed. R holds every eraseblock to be scrubbed and every
protected one, all free ones as long as something is to be scrubbed, and one of any two between which a move for wear is
possible (`Funds`). `WearMove` is the heart: a move from the least worn used eraseblock to the most worn one in
`find_wl_entry`'s window takes one of the two out of R, because the source is afterwards worn too little to be a target and the target
too much to be a source, and the window does not grow. An erasure changes nothing of this (`FreeThen`, `UsedThen`, `EcThen`
count it as done), and a move that scrubs takes its target out of R. On a writable device on which nothing is lost only a bit-flip prevents a move
(`OnlyFlips`); it raises the counter of the free eraseblock, may widen the window, and starts the account anew, which is the
factor in `Allowed`.

*Volumes.* `CtlInv` follows the command through its loops and the EBA call it waits for. `EmptyInv` adds that where no volume
is, no LEB is (`Vacant`), also half way through a removal. `TableInv` adds which of the two copies is intact at each
point of `ubi_change_vtbl_record` and of restoring (`Intact`), and that RAM agrees with the table about every volume but
the one that is being changed (`InStep`). `ReadInv` adds what `updating` and the marker say about the data. For the
refinement, `Progressed` says how far the LEBs of the volume under way are - untouched, wiped up to `op.i`, written up to
`op.i`, complete - while the marker is on the flash; so every EBA call of the loop, interrupted or not, maps to a stutter
of `VolStore`, and the step that makes a table with the marker set or cleared durable is the one step it takes.

*Five tries.* `TriesBounded` follows from `TriesLeft`: what the counter on the flash allows, in its old or its new
value, plus the starts so far never exceed five, and the decrement is durable before `bootm`. `TriesInv` is
`TypeOK /\ TriesBounded /\ TriesLeft`; a torn write leaves `Damaged`, which allows no start. `RedMeansNoImage` needs
`SafeTried`: at `part.old`, `part.safe` was tried in this boot and nothing has written to it since.

*Environment.* `EnvInv` holds `GoodTable`: every entry is found by the search for its name, because no bucket before it on its
probe sequence was never used. That needs that the sequence visits every bucket: the size is a prime (`IsPrime`), the step is
smaller, and by Euclid's lemma multiples of the step repeat only after `size` steps. The search is a recursive
function; what it returns is proved by giving it in closed form - the first place of the sequence with an answer - and
taking a least counterexample. That entries, marks and empty buckets add up is a pigeonhole argument on their
cardinalities. For booting, `BootInv` says that after n entries the table is the meaning of the first n entries, last one
wins, and that no more than n buckets are used up.

*Network loop.* `AlwaysWoken` is not inductive: the timers clear the handler before they call it, and what they
call may give up. `IInv` follows the handler through a turn: while the loop is between packets and `net_state`, either
a handler is armed or the state is no longer to continue (`Woken`). `WaitingIsCurrent` needs that no acknowledgement
changes `TftpBlock` while a packet waits: before the first reply the server's address is unknown, so nothing but
the request has been sent (`Acknowledged`).

*Whole file.* `NetInv` says of every packet on its way or in a buffer that it belongs to a transfer of the server and is
not ahead of it. `OkIsWhole` rests on both ends: the server sends block n + 1 only to an acknowledgement of n
(`Partner`), the client acknowledges n only when the blocks up to n are stored (`Stored`), and each is stored in its place
(`Placed`), also when an old packet of the same transfer comes late.

### Only model-checked

* Liveness (`Settles`, `Completes`, `GivesUp`, `UpgradeGivenUp`, `BootEnds`): out of the prover's reach.
* `StackBounded` of `UbiWl` where copies meet bit-flips: `CallsReturn` proves a bound that allows each bit-flip as many calls as
  a whole round of moves; that two calls for each are enough is what the run `ubi_wl` shows for five eraseblocks.
* That `ErasedIsUnmapped`, `UsedIsOwned`, `ScrubDone`, `StackBounded`, `PicksInWindow` and `DoneIsWhole` need the exceptions they
  name: with an exception taken away TLC finds the behaviour that section 5 describes.
* `DoneIsWhole` of `Tftp` for the scenarios of the run `tftp` that `Plain` excludes: two blocks with options and doubled
  packets, and a file of more blocks than there are numbers on a network without faults.

## 5. Where code and comments disagree

Each of these is a run that TLC refutes; the quoted lines are in `PROJECT.json`.

1. `eba_retries`: after the last retry `ubi_eba_write_leb` returns 0, because `err` holds the result of
   `ubi_wl_put_peb`; the device is read-only and the data is not stored.
2. `eba_recover`: after a failed try `recover_peb` reads header and data again from the eraseblock number it was given.
   In between it erased a block, and the move that this may start takes the LEB elsewhere and lets another LEB use that
   eraseblock; the next try copies that LEB's data, erases its eraseblock and reports success.
3. `env_tombstones`: when deletions have used up the empty buckets, setting a new variable may overwrite another one.
4. `tftp_wrap`: a repeated block 0 counts as another wrap; the rest of the file is stored in the wrong place, and
   success is reported. It takes a file of more than 65535 blocks and one lost acknowledgement.

The models show more behaviours that a reader of the comments would not expect. They are part of the actions
named; the properties either hold all the same or name them as exceptions.

* `PowerCut` while the data of an atomic change is written, then `AttachError` of `UbiEba`: the torn page makes
  `compare_lebs` fail with -EBADMSG, and the whole attach with it (`scan.c:352`; `eba.c:852` promises the old contents).
* `PowerCut` while `CreateVtbl` formats a blank flash, then `AttachError` of `UbiVolume`: the flash is neither blank nor
  does it have a table, and no later attach succeeds (`vtbl.c:778`).
* `EbaNoMemory` while the update marker is stored: it is set in RAM all the same (`upd.c:78`), and repeating the write
  updates the volume without a marker on the flash.
* `RecoverVidHdr`, then `PowerCut`: a cut inside `recover_peb` loses the pages that were there, since the new
  eraseblock has a higher number and no copy flag before it has data (`eba.c:509` speaks of moving all good data).
* `RecoverVidHdr`, then `EraseError` of the old eraseblock and an attach: `recover_peb` copies the header with `copy_flag` and
  `data_crc` of the old copy and changes only the sequence number (`eba.c:546`), although it adds pages. The new copy then
  does not match its checksum, and when the old eraseblock, which could not be erased, is still there, the scan
  takes the old one: the append was reported as done and its pages are gone. It takes a LEB that was moved or changed
  atomically before, and two faults in one operation. `StoreSafe` excludes it.
* `AtomicLebChange` of a LEB that is not mapped is not atomic; `Allowed` of LebStore says so.
* `MoveData` may re-map the LEB whose operation triggered the move: the try-lock always succeeds (`eba.c:1022`).
* `EbaNoMemory` while copy 1 of the table is written, another change of the table and a power cut lose both copies;
  `VtblRecoverable` is therefore checked without "nomem".
* `Wiped` with no data: the marker is cleared twice, against an assertion in `clear_update_marker` that this build
  compiles out.
* `MoveMismatch`: a move whose data reads back differently leaves `ubi_eba_copy_leb` with `err` 0 and counts as done; its
  source, to which the LEB is still mapped, is erased (`eba.c:1130`, `wl.c:906`). `ErasedIsUnmapped` is therefore checked
  without "miswrite".
* `MoveBadHdr` of `UbiEba` and `MoveProtects` of `UbiWl`: a header of a copy that cannot be read back is taken for a volume that
  is being deleted (`eba.c:1098`, `wl.c:865`): the target goes into the used tree, although it was not got (`wl.c:27`), may
  have been written to and holds no LEB. It is lost until the next attach. `UsedIsOwned`, `FreeRemains` and `PebAccounting` say
  that nothing else is.
* `Unmovable`: a move that cannot be done is tried again by the erasure of its own target, each time one call deeper
  (`wl.c:843` says "re-schedule", which in U-Boot is a direct call). The new eraseblock of an atomic change whose
  protection ends before the LEB is mapped to it never becomes movable meanwhile; the same happens with a lost eraseblock
  that is blank. `StackBounded` and the proofs about it are stated without the two.
* `MoveNoMemory`: without memory for a header the worker leaves `wl_scheduled` set, and nothing is moved or scrubbed until
  the next attach (`wl.c:766`). `ScrubDone` is therefore stated without errors of the allocator.
* `EraseFailed` and `MoveProtects` end the chain of calls without looking for eraseblocks to scrub; `ScrubDone` says so.
* `Picks` for data of unknown type, which is everything `ubi write` stores: the limit for the erase counter is added to the
  lowest counter twice (`wl.c:507`; the comment at `wl.c:493` speaks of one window), so that on a device in use for long an
  eraseblock beyond the window is taken. `PicksInWindow` says where the window holds.
* `ReceiveOack` for an OACK that arrives again during the transfer goes back to `STATE_OACK` (`tftp.c:516`, in every state)
  and acknowledges the current block once more. The next block, which is not block 1, is not stored and asks for a
  restart; if the file's last block is handled in the same call of `eth_rx`, its success replaces the restart, and a file
  with a hole is reported as complete. It takes a network that doubles packets and a file of at least three blocks;
  `DoneIsWhole` names it as an exception.
* `Leave` after a failure keeps the packet that waits for ARP (`net.c:562`; an abort drops it): a late reply to it in
  the next command is possible until that command sends.

## 6. Plan

1. A bound linear in the bit-flips for the depth of the nested calls of `UbiWl`.
2. That the choices of `UbiWl` are among those `UbiEba` allows, as a refinement of a common abstraction of the two.
3. `Lmb` (`lib/lmb.c`) against a set of bytes; bootm's states.

## 7. Not modelled

* Link-local addresses: not compiled for this board. DHCP, PXE, NFS, DNS, ping: requests with one answer, whose timers and
  restarts are those of the loop that `Tftp` models.
* Logical memory blocks: a pure algorithm on two short lists.
* Register sequences and DRAM or SERDES training of the Marvell HAL: behaviour the source does not define. This, with
  the boards, processors and drivers of other systems, is by far the largest part of the repository.
* Text parsing, image formats, the command shell.
* File systems and drivers taken over from Linux that this board's boot does not use.
