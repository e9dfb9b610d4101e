------------------------------- MODULE UbiEba -------------------------------
(***************************************************************************)
(* The UBI core of this U-Boot: eraseblock association (eba.c), wear-      *)
(* levelling (wl.c), scanning at attach (scan.c) and the flash operations  *)
(* they issue (io.c), on a NAND that tears writes when power is cut.       *)
(*                                                                         *)
(* U-Boot has one thread.  The kernel's background thread is replaced by a *)
(* direct call (schedule_ubi_work calls do_work), and the locks are empty: *)
(* an erasure, and the wear-levelling move that may follow it, runs inside *)
(* the ubi_wl_put_peb call that asked for it.  So there is one operation   *)
(* (op) and at most one piece of work (work) inside it, and op goes on     *)
(* when work is done.  A step is one flash operation with the RAM updates  *)
(* around it; power may be cut at any of them.                             *)
(*                                                                         *)
(* The wear-levelling choice (erase counters, thresholds, protection and   *)
(* scrub trees) is abstracted to any pair of a used and a free eraseblock. *)
(***************************************************************************)
EXTENDS FlashData, FiniteSets

CONSTANTS PEB,             \* physical eraseblocks
          LEB,             \* logical eraseblocks: volume and number in one
          NoPeb,           \* UBI_LEB_UNMAPPED
          NoLeb,           \* the LEB number of an eraseblock without VID header
          Unmapped,        \* content of a LEB that no eraseblock carries
          UBI_IO_RETRIES,  \* how often a failed write is tried elsewhere
          Faults,          \* kinds of fault the flash may show
          MaxFaults,       \* bound: faults in a behaviour, power cuts apart
          MaxSqnum         \* bound: sequence numbers handed out

FaultKinds == {"cut", "write", "inplace", "erase", "bitflip", "readback", "miswrite"}

ASSUME PebFinite == IsFiniteSet(PEB) /\ NoPeb \notin PEB
ASSUME LebAssumption == NoLeb \notin LEB
ASSUME UnmappedAssumption == Unmapped \notin Content
ASSUME BoundsAssumption == /\ UBI_IO_RETRIES \in Nat
                           /\ MaxFaults \in Nat
                           /\ MaxSqnum \in Nat
                           /\ Faults \subseteq FaultKinds

VARIABLES
  flash,         \* the medium: headers and data of every PEB; survives a cut
  up,            \* "down", "up", or "failed" when attaching was refused
  eba_tbl,       \* RAM: the PEB each LEB is mapped to
  free,          \* RAM: the WL unit's free tree
  used,          \* RAM: its used, scrub and protection trees together
  global_sqnum,  \* RAM: the next sequence number
  ro_mode,       \* RAM: read-only after an unrecoverable error
  todo,          \* RAM: PEBs the scan left to erase during attach
  lost,          \* history: PEBs a move left in the used tree without owner
  op,            \* the EBA operation in progress
  work,          \* the WL work running inside it
  faults         \* faults so far (bounds the model)

ram  == <<eba_tbl, free, used, global_sqnum, ro_mode, todo, lost>>
vars == <<flash, up, ram, op, work, faults>>

-----------------------------------------------------------------------------
(* Eraseblocks.  st is what reading the headers says: "empty" all 0xFF,     *)
(* "free" an EC header only, "used" a VID header too, "corr" a header that  *)
(* fails its CRC, "bad" marked bad.  crc is the content data_crc stands for *)
(* and data_size covers.                                                    *)

PebState == [st : {"empty", "free", "used", "corr", "bad"}, lnum : LEB \cup {NoLeb},
             sqnum : Nat, copy_flag : BOOLEAN, crc : Content, data : Content]

Blank(st) == [st |-> st, lnum |-> NoLeb, sqnum |-> 0, copy_flag |-> FALSE,
              crc |-> <<>>, data |-> <<>>]

VidHdr(l, s, flag, crc) == [st |-> "used", lnum |-> l, sqnum |-> s, copy_flag |-> flag,
                            crc |-> crc, data |-> <<>>]

WithData(r, d) == [r EXCEPT !.data = d]

\* What an erasure that does not complete may leave of eraseblock r.
HalfErased(r) == {r, Blank("empty"), Blank("corr")} \cup {WithData(r, d) : d \in Scrambled(r.data)}

-----------------------------------------------------------------------------
(* Scanning: which PEB carries a LEB after a reboot.                        *)

Copies(l) == {p \in PEB : flash[p].st = "used" /\ flash[p].lnum = l}

CrcOk(r) == Len(r.crc) <= Len(r.data) /\ SubSeq(r.data, 1, Len(r.crc)) = r.crc

\* Mutant of Beats: the data of a copy is not checked.
BeatsUnchecked(p, q) == flash[p].sqnum > flash[q].sqnum

\* compare_lebs: the higher sequence number wins, unless it is a copy whose data
\* is not intact.
Beats(p, q) ==
  IF flash[p].sqnum > flash[q].sqnum
    THEN flash[p].copy_flag => CrcOk(flash[p])
    ELSE flash[q].copy_flag /\ ~CrcOk(flash[q])

IsWinner(p, l) == p \in Copies(l) /\ \A q \in Copies(l) \ {p} : Beats(p, q)

ScanTbl == [l \in LEB |-> IF \E p \in PEB : IsWinner(p, l)
                            THEN CHOOSE p \in PEB : IsWinner(p, l)
                            ELSE NoPeb]

\* The scan stops with an error: two copies with one sequence number, or an ECC
\* error while reading the data of the newer copy.
ScanFails ==
  \E l \in LEB : \E p, q \in Copies(l) :
    /\ p # q
    /\ \/ flash[p].sqnum = flash[q].sqnum
       \/ /\ flash[p].sqnum > flash[q].sqnum
          /\ flash[p].copy_flag /\ EccError(flash[p].data, Len(flash[p].crc))

\* What a reader finds in LEB l after a reboot.
Durable(l) == IF ScanTbl[l] = NoPeb THEN Unmapped ELSE flash[ScanTbl[l]].data

-----------------------------------------------------------------------------
(* Control state.                                                           *)

Pcs == {"idle", "attach", "vid", "data", "map", "retry", "inplace",
        "rget", "rvid", "rdata", "rretry", "rfail", "done"}

Op == [kind : {"idle", "attach", "write", "append", "change", "unmap"}, pc : Pcs,
       lnum : LEB \cup {NoLeb}, arg : Content, base : Content \cup {Unmapped},
       pnum : PEB \cup {NoPeb}, old : PEB \cup {NoPeb}, sqnum : Nat, tries : Nat,
       ret : {"none", "ok", "err"}]

Idle(ret) == [kind |-> "idle", pc |-> "idle", lnum |-> NoLeb, arg |-> <<>>,
              base |-> Unmapped, pnum |-> NoPeb, old |-> NoPeb, sqnum |-> 0,
              tries |-> 0, ret |-> ret]

NewOp(kind, pc, l, c) == [Idle("none") EXCEPT !.kind = kind, !.pc = pc, !.lnum = l,
                                              !.arg = c, !.base = Durable(l)]

NoWork == [k |-> "none", from |-> NoPeb, to |-> NoPeb]
\* Mutant of Erase: the entry lands in the wrong field of the work.
EraseWrongEntry(p) == [k |-> "erase", from |-> NoPeb, to |-> p]
Erase(p) == [k |-> "erase", from |-> p, to |-> NoPeb]
Move(e1, e2) == [k |-> "mvid", from |-> e1, to |-> e2]
Work == [k : {"none", "erase", "mvid", "mdata"}, from : PEB \cup {NoPeb}, to : PEB \cup {NoPeb}]

Fault(kind) == kind \in Faults /\ faults < MaxFaults /\ faults' = faults + 1

\* The pc the operation is at, when no work keeps it waiting.
At(pc) == up = "up" /\ work = NoWork /\ op.pc = pc
Ready == At("idle") /\ global_sqnum < MaxSqnum

Return(ret) == op' = Idle(ret)
Goto(pc) == op' = [op EXCEPT !.pc = pc]
SetFlash(p, r) == flash' = [flash EXCEPT ![p] = r]

\* Mutant of PutPeb: the entry stays in the used tree.
PutPebKeepsEntry(p, cont, failed) ==
  used' = used /\ work' = Erase(p) /\ ro_mode' = ro_mode /\ op' = cont

\* ubi_wl_put_peb: erase p, then go on with cont; an unknown PEB is an error.
PutPeb(p, cont, failed) ==
  IF p \in used
    THEN used' = used \ {p} /\ work' = Erase(p) /\ ro_mode' = ro_mode /\ op' = cont
    ELSE ro_mode' = TRUE /\ op' = failed /\ UNCHANGED <<used, work>>

\* ubi_wl_get_peb, with the sequence number the VID header will carry.
GetPeb(next) ==
  /\ global_sqnum' = global_sqnum + 1
  /\ IF free = {}
       THEN Return("err") /\ UNCHANGED <<free, used>>
       ELSE \E p \in free : /\ free' = free \ {p} /\ used' = used \cup {p}
                            /\ op' = [next EXCEPT !.pnum = p, !.sqnum = global_sqnum]

-----------------------------------------------------------------------------
(* EBA operations on an unmapped LEB, and the atomic change.                *)

\* ubi_eba_write_leb and ubi_eba_write_leb_st when nothing is mapped yet.
WriteLeb(l, c) ==
  /\ Ready /\ ~ro_mode
  /\ eba_tbl[l] = NoPeb
  /\ GetPeb(NewOp("write", "vid", l, c))
  /\ UNCHANGED <<flash, up, eba_tbl, ro_mode, todo, lost, work, faults>>

\* ubi_eba_atomic_leb_change; for no data it is an unmap and a write.
AtomicLebChange(l, c) ==
  /\ Ready /\ ~ro_mode
  /\ c # <<>>
  /\ GetPeb(NewOp("change", "vid", l, c))
  /\ UNCHANGED <<flash, up, eba_tbl, ro_mode, todo, lost, work, faults>>

\* Mutant of OpHdr: a change that does not mark its eraseblock as a copy.
OpHdrNoCopyFlag == VidHdr(op.lnum, op.sqnum, FALSE, <<>>)

OpHdr == IF op.kind = "change" THEN VidHdr(op.lnum, op.sqnum, TRUE, op.arg)
                               ELSE VidHdr(op.lnum, op.sqnum, FALSE, <<>>)

WriteVidHdr ==
  /\ At("vid") /\ ~ro_mode
  /\ SetFlash(op.pnum, OpHdr)
  /\ Goto(IF op.arg = <<>> THEN "map" ELSE "data")
  /\ UNCHANGED <<up, ram, work, faults>>

\* The data is written; a change first gives back the PEB it replaces.
WriteData ==
  /\ At("data") /\ ~ro_mode
  /\ SetFlash(op.pnum, WithData(flash[op.pnum], op.arg))
  /\ IF op.kind = "change" /\ eba_tbl[op.lnum] # NoPeb
       THEN PutPeb(eba_tbl[op.lnum], [op EXCEPT !.pc = "map"], Idle("err"))
       ELSE Goto("map") /\ UNCHANGED <<used, ro_mode, work>>
  /\ UNCHANGED <<up, eba_tbl, free, global_sqnum, todo, lost, faults>>

MapLeb ==
  /\ At("map")
  /\ eba_tbl' = [eba_tbl EXCEPT ![op.lnum] = op.pnum]
  /\ Return("ok")
  /\ UNCHANGED <<flash, up, free, used, global_sqnum, ro_mode, todo, lost, work, faults>>

\* What the flash holds when writing the header, or the data, failed (-EIO).
VidHdrLeft == {flash[op.pnum], Blank("corr"), OpHdr}
DataLeft == {WithData(flash[op.pnum], d) : d \in Partial(op.arg)}

\* A write failed: give the PEB back to be tortured and erased, and try another.
WriteError ==
  /\ ~ro_mode /\ Fault("write")
  /\ \/ At("vid") /\ \E r \in VidHdrLeft : SetFlash(op.pnum, r)
     \/ At("data") /\ \E r \in DataLeft : SetFlash(op.pnum, r)
  /\ PutPeb(op.pnum, [op EXCEPT !.pc = "retry"], Idle("err"))
  /\ UNCHANGED <<up, eba_tbl, free, global_sqnum, todo, lost>>

\* After too many tries the device becomes read-only; err is 0 at that point.
RetryWrite ==
  /\ At("retry")
  /\ IF op.tries + 1 > UBI_IO_RETRIES
       THEN ro_mode' = TRUE /\ Return("ok") /\ UNCHANGED <<free, used, global_sqnum>>
       ELSE ro_mode' = ro_mode /\ GetPeb([op EXCEPT !.pc = "vid", !.tries = @ + 1])
  /\ UNCHANGED <<flash, up, eba_tbl, todo, lost, work, faults>>

\* Read-only mode: a new operation, or ubi_io_write in one, returns -EROFS.
WriteRefused ==
  /\ \E pc \in {"idle", "vid", "data"} : At(pc)
  /\ ro_mode
  /\ Return("err")
  /\ UNCHANGED <<flash, up, ram, work, faults>>

-----------------------------------------------------------------------------
(* Un-mapping, and writing to a mapped LEB with the recovery of its data.   *)

UnmapLeb(l) ==
  /\ Ready /\ ~ro_mode
  /\ eba_tbl[l] # NoPeb
  /\ eba_tbl' = [eba_tbl EXCEPT ![l] = NoPeb]
  /\ PutPeb(eba_tbl[l], NewOp("unmap", "done", l, <<>>), Idle("err"))
  /\ UNCHANGED <<flash, up, free, global_sqnum, todo, lost, faults>>

\* ubi_eba_write_leb on a mapped LEB, behind the pages already there.
AppendLeb(l, c) ==
  /\ Ready /\ ~ro_mode
  /\ eba_tbl[l] # NoPeb
  /\ c # <<>> /\ Len(flash[eba_tbl[l]].data) + Len(c) <= MaxPages
  /\ op' = [NewOp("append", "inplace", l, c) EXCEPT !.old = eba_tbl[l]]
  /\ UNCHANGED <<flash, up, ram, work, faults>>

WriteInPlace ==
  /\ At("inplace") /\ ~ro_mode
  /\ SetFlash(op.old, WithData(flash[op.old], flash[op.old].data \o op.arg))
  /\ Return("ok")
  /\ UNCHANGED <<up, ram, work, faults>>

WriteInPlaceError ==
  /\ At("inplace") /\ ~ro_mode /\ Fault("inplace")
  /\ \E d \in Partial(op.arg) : SetFlash(op.old, WithData(flash[op.old], flash[op.old].data \o d))
  /\ Goto("rget")
  /\ UNCHANGED <<up, ram, work>>

\* recover_peb: take a new PEB and read the VID header of the failing one; if
\* that fails, give the new one back and end in read-only mode.
RecoverGetPeb ==
  /\ At("rget")
  /\ IF free = {}
       THEN ro_mode' = TRUE /\ Return("err") /\ UNCHANGED <<free, used, global_sqnum, work>>
       ELSE \E p \in free :
              /\ free' = free \ {p}
              /\ ro_mode' = ro_mode
              /\ IF flash[op.old].st = "used"
                   THEN /\ used' = used \cup {p}
                        /\ global_sqnum' = global_sqnum + 1
                        /\ op' = [op EXCEPT !.pc = "rvid", !.pnum = p, !.sqnum = global_sqnum]
                        /\ work' = work
                   ELSE Goto("rfail") /\ work' = Erase(p) /\ UNCHANGED <<used, global_sqnum>>
  /\ UNCHANGED <<flash, up, eba_tbl, todo, lost, faults>>

\* The header is the old one with a new sequence number.
RecoveredHdr == [flash[op.old] EXCEPT !.sqnum = op.sqnum, !.data = <<>>]

RecoverVidHdr ==
  /\ At("rvid") /\ ~ro_mode
  /\ SetFlash(op.pnum, RecoveredHdr)
  /\ Goto("rdata")
  /\ UNCHANGED <<up, ram, work, faults>>

\* The pages in front of the failed write, and the ones it should have written.
\* (Pages that are not there read as 0xFF and are not told apart from the end.)
Offset == LET n == IF op.base = Unmapped THEN 0 ELSE Len(op.base)
              m == Len(flash[op.old].data)
          IN IF n <= m THEN n ELSE m
\* Mutant of RecoveredData: the data in front of the failed write is not read.
RecoveredDataOnlyNew == op.arg
RecoveredData == SubSeq(flash[op.old].data, 1, Offset) \o op.arg

RecoverData ==
  /\ At("rdata") /\ ~ro_mode
  /\ ~EccError(flash[op.old].data, Offset)
  /\ SetFlash(op.pnum, WithData(flash[op.pnum], RecoveredData))
  /\ eba_tbl' = [eba_tbl EXCEPT ![op.lnum] = op.pnum]
  /\ PutPeb(op.old, [op EXCEPT !.pc = "done"], Idle("ok"))
  /\ UNCHANGED <<up, free, global_sqnum, todo, lost, faults>>

RecoverReadError ==
  /\ At("rdata")
  /\ EccError(flash[op.old].data, Offset)
  /\ PutPeb(op.pnum, [op EXCEPT !.pc = "rfail"], Idle("err"))
  /\ UNCHANGED <<flash, up, eba_tbl, free, global_sqnum, todo, lost, faults>>

\* Writing the new PEB failed too.
RecoverWriteError ==
  /\ \/ ro_mode /\ At("rvid") /\ UNCHANGED <<flash, faults>>
     \/ ~ro_mode /\ Fault("write") /\ At("rvid")
        /\ \E r \in {flash[op.pnum], Blank("corr"), RecoveredHdr} : SetFlash(op.pnum, r)
     \/ ~ro_mode /\ Fault("write") /\ At("rdata")
        /\ ~EccError(flash[op.old].data, Offset)
        /\ \E d \in Partial(RecoveredData) : SetFlash(op.pnum, WithData(flash[op.pnum], d))
  /\ PutPeb(op.pnum, [op EXCEPT !.pc = "rretry"], [op EXCEPT !.pc = "rretry"])
  /\ UNCHANGED <<up, eba_tbl, free, global_sqnum, todo, lost>>

RecoverRetry ==
  /\ At("rretry")
  /\ IF op.tries + 1 > UBI_IO_RETRIES
       THEN ro_mode' = TRUE /\ Return("err")
       ELSE ro_mode' = ro_mode /\ op' = [op EXCEPT !.pc = "rget", !.tries = @ + 1]
  /\ UNCHANGED <<flash, up, eba_tbl, free, used, global_sqnum, todo, lost, work, faults>>

RecoverFailed ==
  /\ At("rfail")
  /\ ro_mode' = TRUE /\ Return("err")
  /\ UNCHANGED <<flash, up, eba_tbl, free, used, global_sqnum, todo, lost, work, faults>>

Done ==
  /\ At("done")
  /\ Return("ok")
  /\ UNCHANGED <<flash, up, ram, work, faults>>

-----------------------------------------------------------------------------
(* Wear-levelling work: erasures, and moves of a LEB to another PEB.        *)

\* ensure_wear_leveling with free tree fr and used tree us: nothing to do, or
\* wear_leveling_worker starts to move e1 to e2.
EnsureWearLeveling(fr, us) ==
  \/ work' = NoWork /\ free' = fr /\ used' = us
  \/ /\ global_sqnum < MaxSqnum
     /\ \E e1 \in us, e2 \in fr : /\ work' = Move(e1, e2)
                                  /\ free' = fr \ {e2} /\ used' = us \ {e1}

\* erase_worker.  While attaching, the trees are not filled yet: no move starts.
EraseWorker ==
  /\ work.k = "erase" /\ ~ro_mode
  /\ SetFlash(work.from, Blank("free"))
  /\ IF op.pc = "attach"
       THEN work' = NoWork /\ free' = free \cup {work.from} /\ used' = used
       ELSE EnsureWearLeveling(free \cup {work.from}, used)
  /\ UNCHANGED <<up, eba_tbl, global_sqnum, ro_mode, todo, lost, op, faults>>

\* -EIO: mark the PEB bad, or, with no reserved PEBs left, become read-only.
EraseError ==
  /\ work.k = "erase" /\ ~ro_mode /\ Fault("erase")
  /\ \/ SetFlash(work.from, Blank("bad")) /\ ro_mode' = ro_mode
     \/ (\E r \in HalfErased(flash[work.from]) : SetFlash(work.from, r)) /\ ro_mode' = TRUE
  /\ work' = NoWork
  /\ UNCHANGED <<up, eba_tbl, free, used, global_sqnum, todo, lost, op>>

EraseRefused ==
  /\ work.k = "erase" /\ ro_mode
  /\ work' = NoWork
  /\ UNCHANGED <<flash, up, ram, op, faults>>

Src == flash[work.from]

\* Mutant of NothingToMove: whether the LEB is still mapped to e1 is not checked.
NothingToMoveUnchecked == Src.st = "free"

\* ubi_eba_copy_leb finds nothing to copy: no VID header, or the LEB is mapped
\* to another PEB.
NothingToMove == \/ Src.st = "free"
                 \/ Src.st = "used" /\ eba_tbl[Src.lnum] # work.from

\* The header cannot be read, or the data has an uncorrectable page.
CannotReadSrc == \/ Src.st \notin {"free", "used"}
                 \/ Src.st = "used" /\ eba_tbl[Src.lnum] = work.from
                                    /\ EccError(Src.data, Len(Src.data))

\* Mutant of CopyHdr: the copy keeps the sequence number of the source.
CopyHdrOldSqnum == VidHdr(Src.lnum, Src.sqnum, Src.data # <<>>, Src.data)

\* A LEB without data is not marked as a copy.
CopyHdr == IF Src.data = <<>> THEN [Src EXCEPT !.sqnum = global_sqnum]
                              ELSE VidHdr(Src.lnum, global_sqnum, TRUE, Src.data)

CanCopy == ~NothingToMove /\ ~CannotReadSrc /\ ~ro_mode

\* Mutants of NotMoved: the copy is left on the flash; e1 is forgotten.
NotMovedNoErase == used' = used \cup {work.from} /\ work' = NoWork
NotMovedLeak == used' = used /\ work' = Erase(work.to)

\* out_not_moved: e1 goes back to its tree, e2 is erased.
NotMoved == used' = used \cup {work.from} /\ work' = Erase(work.to)

\* out_error: both entries are freed, the device becomes read-only.
MoveFailed == ro_mode' = TRUE /\ work' = NoWork

\* Mutant of Moved: the copy is erased instead of the source.
MovedSwapped == used' = used \cup {work.from} /\ work' = Erase(work.to)

\* The move is done: e2 is a used PEB, e1 is erased.
Moved == used' = used \cup {work.to} /\ work' = Erase(work.from)

MoveCancelled ==
  /\ work.k = "mvid" /\ NothingToMove
  /\ NotMoved
  /\ UNCHANGED <<flash, up, eba_tbl, free, global_sqnum, ro_mode, todo, lost, op, faults>>

MoveVidHdr ==
  /\ work.k = "mvid" /\ CanCopy
  /\ global_sqnum' = global_sqnum + 1
  /\ SetFlash(work.to, CopyHdr)
  /\ IF Src.data = <<>>
       THEN Moved /\ eba_tbl' = [eba_tbl EXCEPT ![Src.lnum] = work.to]
       ELSE work' = [work EXCEPT !.k = "mdata"] /\ UNCHANGED <<eba_tbl, used>>
  /\ UNCHANGED <<up, free, ro_mode, todo, lost, op, faults>>

MoveData ==
  /\ work.k = "mdata"
  /\ SetFlash(work.to, WithData(flash[work.to], Src.data))
  /\ eba_tbl' = [eba_tbl EXCEPT ![Src.lnum] = work.to]
  /\ Moved
  /\ UNCHANGED <<up, free, global_sqnum, ro_mode, todo, lost, op, faults>>

\* Reading back what was written meets a corrected bit-flip: try later.
MoveBitflip ==
  /\ Fault("bitflip")
  /\ \/ /\ work.k = "mvid" /\ CanCopy
        /\ global_sqnum' = global_sqnum + 1
        /\ SetFlash(work.to, CopyHdr)
     \/ /\ work.k = "mdata"
        /\ global_sqnum' = global_sqnum
        /\ SetFlash(work.to, WithData(flash[work.to], Src.data))
  /\ NotMoved
  /\ UNCHANGED <<up, eba_tbl, free, ro_mode, todo, lost, op>>

\* The header that is read back is no header (UBI_IO_PEB_FREE) or a broken one
\* (UBI_IO_BAD_VID_HDR).  ubi_eba_copy_leb returns that code, which the worker takes
\* for "the volume is being deleted": e1 is protected, and e2 becomes a used PEB
\* although no LEB is mapped to it and nobody will erase it before the next attach.
MoveBadHdr ==
  /\ work.k = "mvid" /\ CanCopy /\ Fault("readback")
  /\ global_sqnum' = global_sqnum + 1
  /\ \E r \in {flash[work.to], Blank("corr")} : SetFlash(work.to, r)
  /\ used' = used \cup {work.from, work.to} /\ lost' = lost \cup {work.to}
  /\ work' = NoWork
  /\ UNCHANGED <<up, eba_tbl, free, ro_mode, todo, op>>

\* Reading back gives other data: ubi_eba_copy_leb leaves with err = 0 and the
\* LEB still mapped to e1, and the worker takes the move for done.
MoveMismatch ==
  /\ work.k = "mdata" /\ Fault("miswrite")
  /\ \E d \in Written : /\ Len(d) = Len(Src.data) /\ d # Src.data
                        /\ SetFlash(work.to, WithData(flash[work.to], d))
  /\ Moved
  /\ UNCHANGED <<up, eba_tbl, free, global_sqnum, ro_mode, todo, lost, op>>

MoveWriteError ==
  /\ ~ro_mode /\ Fault("write")
  /\ \/ /\ work.k = "mvid" /\ CanCopy
        /\ global_sqnum' = global_sqnum + 1
        /\ \E r \in {flash[work.to], Blank("corr"), CopyHdr} : SetFlash(work.to, r)
     \/ /\ work.k = "mdata"
        /\ global_sqnum' = global_sqnum
        /\ \E d \in Partial(Src.data) : SetFlash(work.to, WithData(flash[work.to], d))
  /\ MoveFailed
  /\ UNCHANGED <<up, eba_tbl, free, used, todo, lost, op>>

\* The source cannot be read, or writing is refused.
MoveReadError ==
  /\ work.k = "mvid" /\ ~NothingToMove /\ ~CanCopy
  /\ MoveFailed
  /\ UNCHANGED <<flash, up, eba_tbl, free, used, global_sqnum, todo, lost, op, faults>>

\* A read that met a bit-flip schedules scrubbing (ubi_wl_scrub_peb).
ScrubLeb(l) ==
  /\ Ready /\ "bitflip" \in Faults
  /\ eba_tbl[l] # NoPeb
  /\ \E e1 \in used, e2 \in free : /\ work' = Move(e1, e2)
                                   /\ free' = free \ {e2} /\ used' = used \ {e1}
  /\ UNCHANGED <<flash, up, eba_tbl, global_sqnum, ro_mode, todo, lost, op, faults>>

-----------------------------------------------------------------------------
(* Power and attaching.                                                     *)

\* What the flash operation in progress may leave when power is cut in it.
Interrupted ==
  CASE work.k = "erase" -> {<<work.from, r>> : r \in HalfErased(flash[work.from])}
    [] work.k = "mvid" /\ CanCopy -> {<<work.to, Blank("corr")>>}
    [] work.k = "mdata" -> {<<work.to, WithData(flash[work.to], d)>> : d \in Partial(Src.data)}
    [] At("vid") \/ At("rvid") -> {<<op.pnum, Blank("corr")>>}
    [] At("data") -> {<<op.pnum, r>> : r \in DataLeft}
    [] At("inplace") -> {<<op.old, WithData(flash[op.old], flash[op.old].data \o d)>> :
                           d \in Partial(op.arg)}
    [] At("rdata") -> {<<op.pnum, WithData(flash[op.pnum], d)>> : d \in Partial(RecoveredData)}
    [] OTHER -> {}

LoseRam ==
  /\ up' = "down"
  /\ eba_tbl' = [l \in LEB |-> NoPeb]
  /\ free' = {} /\ used' = {} /\ todo' = {} /\ lost' = {}
  /\ global_sqnum' = 0 /\ ro_mode' = FALSE
  /\ work' = NoWork
  /\ Return("none")
  /\ UNCHANGED faults

\* Power goes away between operations (a reset, or Linux is started).
PowerOff == /\ up = "failed" \/ At("idle")
            /\ flash' = flash
            /\ LoseRam

PowerCut == /\ up = "up" /\ "cut" \in Faults
            /\ \/ flash' = flash
               \/ ~ro_mode /\ \E i \in Interrupted : SetFlash(i[1], i[2])
            /\ LoseRam

\* ubi_scan, ubi_eba_init_scan and the filling of the WL trees.
Attach ==
  /\ up = "down" /\ ~ScanFails
  /\ up' = "up"
  /\ eba_tbl' = ScanTbl
  /\ used' = {p \in PEB : \E l \in LEB : ScanTbl[l] = p}
  /\ free' = {p \in PEB : flash[p].st = "free"}
  /\ todo' = {p \in PEB : flash[p].st \in {"empty", "corr", "used"}} \ used'
  /\ \E s \in {1} \cup {flash[p].sqnum + 1 : p \in PEB} :
       /\ \A p \in PEB : flash[p].st = "used" => flash[p].sqnum < s
       /\ global_sqnum' = s
  /\ op' = [Idle("none") EXCEPT !.kind = "attach", !.pc = "attach"]
  /\ UNCHANGED <<flash, ro_mode, lost, work, faults>>

AttachError ==
  /\ up = "down" /\ ScanFails
  /\ up' = "failed"
  /\ UNCHANGED <<flash, ram, op, work, faults>>

\* ubi_wl_init_scan erases what the scan dropped, one PEB after the other.
AttachErase ==
  /\ At("attach")
  /\ \E p \in todo : todo' = todo \ {p} /\ work' = Erase(p)
  /\ UNCHANGED <<flash, up, eba_tbl, free, used, global_sqnum, ro_mode, lost, op, faults>>

\* Mutant of AttachDone: the device is used before the old copies are erased.
AttachDoneEarly ==
  /\ At("attach") /\ todo' = {}
  /\ Return("none")
  /\ EnsureWearLeveling(free, used)
  /\ UNCHANGED <<flash, up, eba_tbl, global_sqnum, ro_mode, lost, faults>>

AttachDone ==
  /\ At("attach") /\ todo = {}
  /\ Return("none")
  /\ EnsureWearLeveling(free, used)
  /\ UNCHANGED <<flash, up, eba_tbl, global_sqnum, ro_mode, todo, lost, faults>>

-----------------------------------------------------------------------------
\* A formatted, empty flash.
Init ==
  /\ flash = [p \in PEB |-> Blank("free")]
  /\ up = "down"
  /\ eba_tbl = [l \in LEB |-> NoPeb]
  /\ free = {} /\ used = {} /\ todo = {} /\ lost = {}
  /\ global_sqnum = 0 /\ ro_mode = FALSE
  /\ op = Idle("none") /\ work = NoWork
  /\ faults = 0

EbaStep ==
  \/ \E l \in LEB, c \in Written : WriteLeb(l, c) \/ AtomicLebChange(l, c) \/ AppendLeb(l, c)
  \/ \E l \in LEB : UnmapLeb(l)
  \/ WriteVidHdr \/ WriteData \/ MapLeb \/ WriteError \/ RetryWrite \/ WriteRefused
  \/ WriteInPlace \/ WriteInPlaceError
  \/ RecoverGetPeb \/ RecoverVidHdr \/ RecoverData \/ RecoverReadError
  \/ RecoverWriteError \/ RecoverRetry \/ RecoverFailed
  \/ Done

WlStep ==
  \/ EraseWorker \/ EraseError \/ EraseRefused
  \/ MoveCancelled \/ MoveVidHdr \/ MoveData
  \/ MoveBitflip \/ MoveBadHdr \/ MoveMismatch \/ MoveWriteError \/ MoveReadError
  \/ \E l \in LEB : ScrubLeb(l)

PowerStep == PowerOff \/ PowerCut \/ Attach \/ AttachError \/ AttachErase \/ AttachDone

Next == EbaStep \/ WlStep \/ PowerStep

Spec == Init /\ [][Next]_vars

-----------------------------------------------------------------------------
(* Properties.                                                              *)

\* The type of every variable.
TypeOK ==
  /\ flash \in [PEB -> PebState]
  /\ up \in {"down", "up", "failed"}
  /\ eba_tbl \in [LEB -> PEB \cup {NoPeb}]
  /\ free \subseteq PEB /\ used \subseteq PEB /\ todo \subseteq PEB /\ lost \subseteq PEB
  /\ global_sqnum \in Nat /\ ro_mode \in BOOLEAN
  /\ op \in Op /\ work \in Work
  /\ faults \in Nat

\* No two eraseblocks ever carry the same sequence number, whatever power cuts,
\* failed writes, retries and moves happened: ubi_scan_add_used can always order
\* two copies of a LEB and never refuses the image with "two LEBs with same
\* sequence number".
SqnumUnique ==
  \A p, q \in PEB : /\ p # q
                    /\ flash[p].st = "used" /\ flash[q].st = "used"
                    => flash[p].sqnum # flash[q].sqnum

\* Why that is so: the next number is above every number on the flash, and the
\* number an operation holds for the header it has yet to write is on no eraseblock.
SqnumFresh ==
  /\ up = "up" => \A p \in PEB : flash[p].st = "used" => flash[p].sqnum < global_sqnum
  /\ op.pc \in {"vid", "rvid"} =>
       /\ op.sqnum < global_sqnum
       /\ \A p \in PEB : flash[p].st = "used" => flash[p].sqnum # op.sqnum

\* The eraseblocks an operation and a piece of work hold at each point of the code;
\* there is no work without a running device.
ControlOK ==
  /\ up # "up" => work = NoWork
  /\ op.pc \in {"vid", "data", "map", "rvid", "rdata"} => op.pnum \in PEB
  /\ op.pc \in {"inplace", "rget", "rvid", "rdata", "rretry"} => op.old \in PEB
  /\ op.pc \notin {"idle", "attach"} => op.lnum \in LEB
  /\ work.k # "none" => work.from \in PEB
  /\ work.k \in {"mvid", "mdata"} => work.to \in PEB

\* The inductive invariant behind SqnumUnique.
SqnumInv == TypeOK /\ ControlOK /\ SqnumFresh /\ SqnumUnique

\* A LEB never has more than two copies on the flash, across any number of power
\* cuts during moves, changes, recovery and the erasures of attach: comparing the
\* copies in the order of the PEBs, as ubi_scan does, gives the same winner as
\* comparing all of them.
AtMostTwoCopies == \A l \in LEB : Cardinality(Copies(l)) <= 2

\* The mapping in RAM never points a LEB at an eraseblock that does not carry it
\* (erased, taken by another LEB, gone bad), not even while a move or an erasure
\* runs inside another operation.  The one exception is the atomic change, which
\* erases the old eraseblock before it maps the new one.
MappingValid ==
  up = "up" =>
    \A l \in LEB : eba_tbl[l] # NoPeb =>
      \/ eba_tbl[l] \in Copies(l)
      \/ op.kind = "change" /\ op.lnum = l /\ op.pc = "map"

\* Between operations, what U-Boot reads from every LEB is what it would read
\* after a reboot: the mapping in RAM is the one a scan would rebuild.
EbaMatchesScan == At("idle") /\ ~ro_mode => eba_tbl = ScanTbl

\* No eraseblock is shared, and between operations every good one is either erased and
\* free, or mapped by exactly one LEB and known to the WL unit.  One kind of step leaks an
\* eraseblock on a writable device: a move whose header reads back as no header or as a
\* broken one leaves its target in the used tree, where it stays until the next attach.
\* Nothing else does, no failed write, erasure, move or recovery.
PebAccounting ==
  At("idle") /\ ~ro_mode =>
    /\ free \cap used = {}
    /\ \A p \in PEB : \/ flash[p].st = "bad"
                      \/ p \in free /\ flash[p].st = "free"
                      \/ p \in used /\ \E l \in LEB : eba_tbl[l] = p
                      \/ p \in used /\ p \in lost
    /\ \A k, l \in LEB : eba_tbl[k] = eba_tbl[l] /\ k # l => eba_tbl[l] = NoPeb

\* An eraseblock is erased only when no LEB is mapped to it any more: a move erases its
\* source after the LEB is mapped to the copy, recovery the failing eraseblock after it is
\* replaced.  There are two exceptions.  The atomic change erases before it maps.  And this
\* is said of a flash on which what was written reads back, or fails to: when the copy reads
\* back differently, MoveMismatch erases a source that is still mapped.
ErasedIsUnmapped ==
  work.k = "erase" =>
    \A l \in LEB : eba_tbl[l] = work.from =>
      op.kind = "change" /\ op.lnum = l /\ op.pc = "map"

\* An append that reports success is stored behind the pages that were there, also
\* when the write failed and recover_peb moved the LEB to another eraseblock.  Up to
\* the moment a write fails it leaves those pages alone, whatever interrupts it.
AppendStored ==
  [][\A l \in LEB : op.kind = "append" /\ op.lnum = l =>
       /\ op' = Idle("ok") => Durable(l)' = op.base \o op.arg
       /\ op.pc = "inplace" => Durable(l)' \in {op.base \o t : t \in Partial(op.arg)}]_vars

\* The request LebStore sees, and the refinement: a LEB only ever changes by the
\* request addressed to it, in the ways LebStore allows, although erasures, moves,
\* retries, power cuts and attaches go on below.
AbsReq == IF op.kind \in {"idle", "attach"}
            THEN [kind |-> "idle", ret |-> op.ret]
            ELSE [kind |-> op.kind, lnum |-> op.lnum, arg |-> op.arg, base |-> op.base]

LS == INSTANCE LebStore WITH leb <- [l \in LEB |-> Durable(l)], req <- AbsReq

ImplementsLebStore == LS!LSpec

-----------------------------------------------------------------------------
(* What comments of the code promise and the code does not always keep.     *)

\* ubi_eba_write_leb and ubi_eba_atomic_leb_change return zero "in case of success
\* and a negative error code in case of failure": zero means the data is stored.
OkMeansStored ==
  [][\A l \in LEB : /\ op.kind \in {"write", "change"} /\ op.lnum = l
                    /\ op' = Idle("ok")
                    => Durable(l)' = op.arg]_vars
=============================================================================
