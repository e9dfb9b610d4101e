------------------------------- MODULE UbiWl -------------------------------
(***************************************************************************)
(* The wear-levelling unit of UBI (drivers/mtd/ubi/wl.c) in detail: erase   *)
(* counters, the free, used, scrub and protection trees, the choice of      *)
(* eraseblocks, the work that erases and moves them, and the reserve for    *)
(* bad ones.  UbiEba abstracts the choices made here to any used and any    *)
(* free eraseblock, and looks at the flash instead.                         *)
(*                                                                          *)
(* There is no background thread: schedule_ubi_work calls do_work, so work  *)
(* runs inside the call that schedules it.  An erasure may start a move and *)
(* a move starts an erasure, each inside the one before; all these calls    *)
(* are the last thing their caller does, so that one piece of work and the  *)
(* depth of the calls describe the stack.                                   *)
(*                                                                          *)
(* Of the EBA unit, the user of this one, there is for each eraseblock what *)
(* it uses it for.  abs_ec is only compared with the values in the          *)
(* protection tree, which therefore holds the differences.                  *)
(***************************************************************************)
EXTENDS Integers, FiniteSets

CONSTANTS N,                     \* peb_count
          UBI_WL_THRESHOLD,
          ST_PROTECTION, U_PROTECTION, LT_PROTECTION,
          UBI_MAX_ERASECOUNTER,
          TORTURE_CYCLES,        \* erasures of torture_peb
          BEB_RSVD_LEVEL,        \* beb_rsvd_level; MIN_RESEVED_PEBS on a small device
          MaxFaults,             \* bound: faults in a behaviour
          MaxCalls,              \* bound: operations of the EBA unit in a behaviour
          Scenarios              \* the devices to look at

PEB == 0..(N - 1)
NoPeb == N
WL_RESERVED_PEBS == 1
EBA_RESERVED_PEBS == 1
WL_FREE_MAX_DIFF == 2 * UBI_WL_THRESHOLD

Faults == {"erase", "bitflip", "readback", "move", "write", "nomem"}

\* What the scan found: the eraseblocks with data, those of them to be scrubbed, those to be
\* erased, the erase counters; how many are available and how many reserved for bad ones.
Scenario == [used : SUBSET PEB, scrub : SUBSET PEB, erase : SUBSET PEB,
             ec : [PEB -> 0..UBI_MAX_ERASECOUNTER], avail : Nat, beb : Nat,
             faults : SUBSET Faults]

VolPebs(s) == N - WL_RESERVED_PEBS - EBA_RESERVED_PEBS - s.avail - s.beb

ASSUME BoundsAssumption == /\ N \in Nat /\ UBI_WL_THRESHOLD \in Nat \ {0}
                           /\ {ST_PROTECTION, U_PROTECTION, LT_PROTECTION} \subseteq Nat \ {0}
                           /\ {UBI_MAX_ERASECOUNTER, TORTURE_CYCLES, MaxFaults, MaxCalls} \subseteq Nat
                           /\ BEB_RSVD_LEVEL \in Nat
ASSUME ScenariosAssumption ==
  \A s \in Scenarios : /\ s \in Scenario
                       /\ Cardinality(s.used \cup s.scrub) <= VolPebs(s)
                       /\ s.used \cap s.scrub = {} /\ s.erase \cap (s.used \cup s.scrub) = {}

VARIABLES run,           \* the scenario
          todo,          \* eraseblocks ubi_wl_init_scan still has to erase
          attached,
          free, used, scrub,  \* the trees
          prot,          \* the protection trees: erasures until the protection ends
          ec,            \* the erase counters
          wl_scheduled,
          work,          \* the work that runs
          depth,         \* calls of do_work inside each other
          ro_mode,
          bad,           \* eraseblocks marked bad
          avail_pebs, beb_rsvd_pebs,
          owner,         \* what the EBA unit uses an eraseblock for
          op,            \* what the EBA unit is doing
          calls,         \* its operations so far
          faults         \* faults so far

attach == <<todo, attached>>
trees == <<free, used, scrub, prot>>
works == <<wl_scheduled, work, depth>>
reserve == <<bad, avail_pebs, beb_rsvd_pebs>>
vars == <<run, attach, trees, ec, works, ro_mode, reserve, owner, op, calls, faults>>

-----------------------------------------------------------------------------
(* The trees are ordered by erase counter, then by number.                  *)

Before(p, q) == ec[p] < ec[q] \/ (ec[p] = ec[q] /\ p <= q)
First(T) == CHOOSE p \in T : \A q \in T : Before(p, q)
Last(T) == CHOOSE p \in T : \A q \in T : Before(q, p)

\* A mutant of FindWlEntry: the limit itself is allowed as well.
FindWlEntryOneMore(T, max) ==
  LET S == {p \in T : ec[p] <= ec[First(T)] + max} IN IF S = {} THEN First(T) ELSE Last(S)

\* find_wl_entry: the last one whose counter is less than `max' above the lowest.
FindWlEntry(T, max) ==
  LET S == {p \in T : ec[p] < ec[First(T)] + max} IN IF S = {} THEN First(T) ELSE Last(S)

DataTypes == {"LONGTERM", "UNKNOWN", "SHORTTERM"}

\* What ubi_wl_get_peb may pick.  The root of a tree may be any of its members.
Picks(dtype) ==
  CASE dtype = "LONGTERM" -> {FindWlEntry(free, WL_FREE_MAX_DIFF)}
    [] dtype = "SHORTTERM" -> {First(free)}
    [] dtype = "UNKNOWN" ->
         IF ec[Last(free)] - ec[First(free)] < WL_FREE_MAX_DIFF THEN free
         ELSE {FindWlEntry(free, (ec[First(free)] + WL_FREE_MAX_DIFF) \div 2)}

Protection(dtype) == CASE dtype = "LONGTERM" -> LT_PROTECTION
                       [] dtype = "UNKNOWN" -> U_PROTECTION
                       [] dtype = "SHORTTERM" -> ST_PROTECTION

-----------------------------------------------------------------------------
NoWork == [k |-> "none", e1 |-> NoPeb, e2 |-> NoPeb, flag |-> FALSE]
EraseWork(p, torture) == [k |-> "erase", e1 |-> p, e2 |-> NoPeb, flag |-> torture]
WearLevelling == [k |-> "wl", e1 |-> NoPeb, e2 |-> NoPeb, flag |-> FALSE]
Copy(e1, e2, scrubbing) == [k |-> "copy", e1 |-> e1, e2 |-> e2, flag |-> scrubbing]
NoOp == [k |-> "none", pnum |-> NoPeb, old |-> NoPeb]

Fault(kind) == kind \in run.faults /\ faults < MaxFaults /\ faults' = faults + 1

\* schedule_ubi_work, and the return from all calls.
Schedule(w) == work' = w /\ depth' = depth + 1
Returned == work' = NoWork /\ depth' = 0

\* A mutant of TooFar: any difference is enough.
TooFarAny(e1, e2) == ec[e2] >= ec[e1]

\* Whether ensure_wear_leveling finds something to do.
TooFar(e1, e2) == ec[e2] - ec[e1] >= UBI_WL_THRESHOLD
Needed == \/ scrub # {}
          \/ used # {} /\ free # {} /\ TooFar(First(used), FindWlEntry(free, WL_FREE_MAX_DIFF))

\* ensure_wear_leveling, with the trees as they are after the step.
EnsureWearLeveling ==
  IF wl_scheduled \/ ~Needed'
  THEN Returned /\ UNCHANGED <<wl_scheduled, faults>>
  ELSE \/ wl_scheduled' = TRUE /\ Schedule(WearLevelling) /\ UNCHANGED faults
       \/ Fault("nomem") /\ Returned /\ UNCHANGED wl_scheduled

-----------------------------------------------------------------------------
(* Work (do_work).                                                          *)

Cycles == IF work.flag THEN TORTURE_CYCLES + 1 ELSE 1
Erasing == work.k = "erase"

\* A mutant of ProtectionOver: the protection ends one erasure later.
ProtectionOverLate == {p \in DOMAIN prot : prot[p] <= 0}

\* check_protection_over, after one more erasure.
ProtectionOver == {p \in DOMAIN prot : prot[p] <= 1}

\* erase_worker, sync_erase
Erase ==
  /\ Erasing /\ ~ro_mode
  /\ ec[work.e1] + Cycles <= UBI_MAX_ERASECOUNTER
  /\ ec' = [ec EXCEPT ![work.e1] = @ + Cycles]
  /\ free' = free \cup {work.e1}
  /\ used' = used \cup ProtectionOver
  /\ prot' = [p \in DOMAIN prot \ ProtectionOver |-> prot[p] - 1]
  /\ UNCHANGED scrub
  /\ EnsureWearLeveling
  /\ UNCHANGED <<run, calls, attach, ro_mode, reserve, owner, op>>

\* Read-only mode, or the counter overflows.  The entry is gone.
EraseRefused ==
  /\ Erasing
  /\ ro_mode \/ ec[work.e1] + Cycles > UBI_MAX_ERASECOUNTER
  /\ ro_mode' = TRUE
  /\ Returned
  /\ UNCHANGED <<run, calls, attach, trees, ec, wl_scheduled, reserve, owner, op, faults>>

\* How many available eraseblocks join the reserve before one is taken from it.
More == LET need == BEB_RSVD_LEVEL - beb_rsvd_pebs + 1 IN
        IF need <= 0 THEN 0 ELSE IF avail_pebs >= need THEN need ELSE avail_pebs

\* A mutant of EraseFailed: nobody looks whether the reserve is empty.
EraseFailedUnchecked ==
  /\ Erasing /\ ~ro_mode
  /\ Fault("erase")
  /\ avail_pebs' = avail_pebs - More
  /\ bad' = bad \cup {work.e1}
  /\ beb_rsvd_pebs' = IF beb_rsvd_pebs + More = 0 THEN 0 ELSE beb_rsvd_pebs + More - 1
  /\ Returned
  /\ UNCHANGED <<run, calls, attach, trees, ec, wl_scheduled, ro_mode, owner, op>>

\* The eraseblock went bad.  Nobody looks whether wear-levelling is needed.
EraseFailed ==
  /\ Erasing /\ ~ro_mode
  /\ Fault("erase")
  /\ avail_pebs' = avail_pebs - More
  /\ IF beb_rsvd_pebs + More = 0
     THEN ro_mode' = TRUE /\ UNCHANGED <<bad, beb_rsvd_pebs>>
     ELSE /\ bad' = bad \cup {work.e1}
          /\ beb_rsvd_pebs' = beb_rsvd_pebs + More - 1
          /\ UNCHANGED ro_mode
  /\ Returned
  /\ UNCHANGED <<run, calls, attach, trees, ec, wl_scheduled, owner, op>>

Moving == work.k = "wl"
NoDeal == \/ free = {} \/ (used = {} /\ scrub = {})
          \/ scrub = {} /\ ~TooFar(First(used), FindWlEntry(free, WL_FREE_MAX_DIFF))

\* wear_leveling_worker until it reads the header: nothing to move, a pair to move, or no
\* memory for the header, when wl_scheduled stays set.
MoveCancelled ==
  /\ Moving /\ NoDeal
  /\ wl_scheduled' = FALSE
  /\ Returned
  /\ UNCHANGED <<run, calls, attach, trees, ec, ro_mode, reserve, owner, op, faults>>

MoveBegin ==
  /\ Moving /\ ~NoDeal
  /\ \E e1 \in used \cup scrub, e2 \in free :
       /\ e1 = First(IF scrub = {} THEN used ELSE scrub)
       /\ e2 = FindWlEntry(free, WL_FREE_MAX_DIFF)
       /\ work' = Copy(e1, e2, scrub # {})
       /\ used' = used \ {e1} /\ scrub' = scrub \ {e1} /\ free' = free \ {e2}
  /\ UNCHANGED <<run, calls, attach, prot, ec, wl_scheduled, depth, ro_mode, reserve, owner, op, faults>>

MoveNoMemory ==
  /\ Moving
  /\ Fault("nomem")
  /\ Returned
  /\ UNCHANGED <<run, calls, attach, trees, ec, wl_scheduled, ro_mode, reserve, owner, op>>

Copying == work.k = "copy"

\* It has no header, or the table has no or another eraseblock for its LEB.
Unmovable(p) == owner[p] \in {"none", "new", "blank"}

\* A mutant of Moved: the source is not erased but returned to its tree.
MovedNotErased ==
  /\ Copying /\ ~ro_mode
  /\ owner[work.e1] = "leb"
  /\ used' = used \cup {work.e1, work.e2}
  /\ owner' = [owner EXCEPT ![work.e1] = "none", ![work.e2] = "leb"]
  /\ wl_scheduled' = FALSE
  /\ Returned
  /\ UNCHANGED <<run, calls, attach, free, scrub, prot, ec, ro_mode, reserve, op, faults>>

\* The LEB was copied: e2 takes the place of e1, which is erased.
Moved ==
  /\ Copying /\ ~ro_mode
  /\ owner[work.e1] = "leb"
  /\ used' = used \cup {work.e2}
  /\ owner' = [owner EXCEPT ![work.e1] = "none", ![work.e2] = "leb"]
  /\ wl_scheduled' = FALSE
  /\ Schedule(EraseWork(work.e1, FALSE))
  /\ UNCHANGED <<run, calls, attach, free, scrub, prot, ec, ro_mode, reserve, op, faults>>

\* A mutant of NotMoved: wl_scheduled stays set.
NotMovedScheduled ==
  /\ Copying
  /\ \/ Unmovable(work.e1) /\ UNCHANGED faults
     \/ owner[work.e1] = "leb" /\ ~ro_mode /\ Fault("bitflip")
  /\ used' = IF work.flag THEN used ELSE used \cup {work.e1}
  /\ scrub' = IF work.flag THEN scrub \cup {work.e1} ELSE scrub
  /\ Schedule(EraseWork(work.e2, FALSE))
  /\ UNCHANGED <<run, calls, attach, free, prot, ec, wl_scheduled, ro_mode, reserve, owner, op>>

\* out_not_moved: no header yet, another eraseblock is in the table, or a bit-flip in the copy.
NotMoved ==
  /\ Copying
  /\ \/ Unmovable(work.e1) /\ UNCHANGED faults
     \/ owner[work.e1] = "leb" /\ ~ro_mode /\ Fault("bitflip")
  /\ used' = IF work.flag THEN used ELSE used \cup {work.e1}
  /\ scrub' = IF work.flag THEN scrub \cup {work.e1} ELSE scrub
  /\ wl_scheduled' = FALSE
  /\ Schedule(EraseWork(work.e2, FALSE))
  /\ UNCHANGED <<run, calls, attach, free, prot, ec, ro_mode, reserve, owner, op>>

\* There is no memory to schedule the erasure at the end of a move, done or not (out_error).
MoveNotErased ==
  /\ Copying /\ Fault("nomem")
  /\ \/ /\ owner[work.e1] = "leb" /\ ~ro_mode
        /\ used' = used \cup {work.e2}
        /\ owner' = [owner EXCEPT ![work.e1] = "none", ![work.e2] = "leb"]
        /\ UNCHANGED scrub
     \/ /\ Unmovable(work.e1)
        /\ used' = IF work.flag THEN used ELSE used \cup {work.e1}
        /\ scrub' = IF work.flag THEN scrub \cup {work.e1} ELSE scrub
        /\ UNCHANGED owner
  /\ ro_mode' = TRUE
  /\ wl_scheduled' = FALSE
  /\ Returned
  /\ UNCHANGED <<run, calls, attach, free, prot, ec, reserve, op>>

\* The header of the copy reads back as none or as a damaged one, and ubi_eba_copy_leb returns that
\* positive code: the worker protects e1 for one erasure, and puts e2, which holds no LEB, into the
\* used tree.  Nothing is erased, so nobody looks for more to move.
MoveProtects ==
  /\ Copying /\ ~ro_mode
  /\ owner[work.e1] = "leb" /\ Fault("readback")
  /\ prot' = [p \in DOMAIN prot \cup {work.e1} |-> IF p = work.e1 THEN 1 ELSE prot[p]]
  /\ used' = used \cup {work.e2}
  /\ \E left \in {"blank", "corr"} : owner' = [owner EXCEPT ![work.e2] = left]
  /\ wl_scheduled' = FALSE
  /\ Returned
  /\ UNCHANGED <<run, calls, attach, free, scrub, ec, ro_mode, reserve, op>>

\* out_error: the entries are gone.  Writing is refused or fails, the header of e1 is damaged, or
\* that of e2 is and there is no memory to protect e1.
MoveFailed ==
  /\ Copying
  /\ \/ owner[work.e1] = "leb" /\ ro_mode /\ UNCHANGED faults
     \/ owner[work.e1] = "leb" /\ Fault("move")
     \/ owner[work.e1] = "leb" /\ "nomem" \in run.faults /\ Fault("readback")
     \/ owner[work.e1] = "corr" /\ UNCHANGED faults
  /\ ro_mode' = TRUE
  /\ wl_scheduled' = FALSE
  /\ Returned
  /\ UNCHANGED <<run, calls, attach, trees, ec, reserve, owner, op>>

Work == \/ Erase \/ EraseRefused \/ EraseFailed
        \/ MoveCancelled \/ MoveBegin \/ MoveNoMemory
        \/ Moved \/ NotMoved \/ MoveNotErased \/ MoveProtects \/ MoveFailed

-----------------------------------------------------------------------------
(* Attaching (ubi_wl_init_scan).  While the lists are erased the used and   *)
(* scrub trees are empty.                                                   *)

AttachErase(p) ==
  /\ ~attached /\ work = NoWork
  /\ p \in todo
  /\ todo' = todo \ {p}
  /\ Schedule(EraseWork(p, FALSE))
  /\ UNCHANGED <<run, calls, attached, trees, ec, wl_scheduled, ro_mode, reserve, owner, op, faults>>

\* (Without memory for the first move the attach fails, which ends the behaviour.)
AttachEnd ==
  /\ ~attached /\ work = NoWork /\ todo = {}
  /\ attached' = TRUE
  /\ used' = run.used /\ scrub' = run.scrub
  /\ UNCHANGED <<free, prot, ec, faults>>
  /\ EnsureWearLeveling
  /\ UNCHANGED <<run, calls, todo, ro_mode, reserve, owner, op>>

-----------------------------------------------------------------------------
(* Calls of the EBA unit.                                                   *)

Ready == attached /\ work = NoWork /\ op = NoOp
Call == Ready /\ calls < MaxCalls /\ calls' = calls + 1
Leb == {p \in PEB : owner[p] = "leb"}
Owned == {p \in PEB : owner[p] \in {"new", "leb"}}

\* What a move could not read back: used, but nobody's.
Lost == {p \in PEB : owner[p] \in {"blank", "corr"}}
InUse == Owned \cup Lost

\* ubi_wl_get_peb.  No work is left over that could produce a free eraseblock.
GetPeb(dtype, p) ==
  /\ p \in free /\ p \in Picks(dtype)
  /\ free' = free \ {p}
  /\ prot' = [q \in DOMAIN prot \cup {p} |-> IF q = p THEN Protection(dtype) ELSE prot[q]]
  /\ owner' = [owner EXCEPT ![p] = "new"]
  /\ UNCHANGED <<used, scrub>>

\* A mutant of Unprotect: the entry stays in the protection trees.
UnprotectNot(p) == UNCHANGED prot

Listed(p) == p \in used \cup scrub \cup DOMAIN prot
Unprotect(p) == prot' = [q \in DOMAIN prot \ {p} |-> prot[q]]

\* ubi_wl_put_peb
PutPeb(p, torture) ==
  /\ IF Listed(p)
     THEN /\ used' = used \ {p} /\ scrub' = scrub \ {p} /\ Unprotect(p)
          /\ Schedule(EraseWork(p, torture))
          /\ UNCHANGED ro_mode
     ELSE ro_mode' = TRUE /\ UNCHANGED <<used, scrub, prot, work, depth>>
  /\ UNCHANGED <<free, wl_scheduled, faults>>

\* ubi_wl_put_peb when there is no memory for the work.
PutNoMemory(p) ==
  /\ Fault("nomem")
  /\ Listed(p)
  /\ used' = used \cup {p} /\ scrub' = scrub \ {p} /\ Unprotect(p)
  /\ UNCHANGED <<free, works>>

\* A write to a LEB that is not mapped.  Volumes have no more LEBs than they have reserved.
WriteLeb(dtype) ==
  /\ Call /\ ~ro_mode
  /\ Cardinality(Leb) < VolPebs(run)
  /\ \E p \in PEB : GetPeb(dtype, p) /\ op' = [k |-> "write", pnum |-> p, old |-> NoPeb]
  /\ UNCHANGED <<run, attach, ec, works, ro_mode, reserve, faults>>

\* ubi_eba_atomic_leb_change, which puts the old eraseblock before the new one is in the table.
\* recover_peb is like it, but for the order.
ChangeLeb(old, dtype) ==
  /\ Call /\ ~ro_mode
  /\ old \in Leb
  /\ \E p \in PEB : GetPeb(dtype, p) /\ op' = [k |-> "change", pnum |-> p, old |-> old]
  /\ UNCHANGED <<run, attach, ec, works, ro_mode, reserve, faults>>

ChangePut ==
  /\ op.k = "change" /\ work = NoWork
  /\ \/ /\ PutPeb(op.old, TRUE)
        /\ owner' = [owner EXCEPT ![op.old] = "none"]
        /\ op' = [op EXCEPT !.k = "write"]
     \/ /\ PutNoMemory(op.old)
        /\ owner' = [owner EXCEPT ![op.pnum] = "none"]
        /\ op' = NoOp
        /\ UNCHANGED ro_mode
  /\ UNCHANGED <<run, calls, attach, ec, reserve>>

\* The eraseblock that was written is put into the table.
WriteDone ==
  /\ op.k = "write" /\ work = NoWork
  /\ owner' = [owner EXCEPT ![op.pnum] = "leb"]
  /\ op' = NoOp
  /\ UNCHANGED <<run, calls, attach, trees, ec, works, ro_mode, reserve, faults>>

\* Writing failed: the eraseblock is put back.  Trying another one is a write of its own.
WriteFailed ==
  /\ op.k \in {"write", "change"} /\ work = NoWork
  /\ op.k = "write" => op.old = NoPeb
  /\ "write" \in run.faults
  /\ owner' = [owner EXCEPT ![op.pnum] = "none"]
  /\ op' = NoOp
  /\ PutPeb(op.pnum, TRUE)
  /\ UNCHANGED <<run, calls, attach, ec, reserve>>

\* ubi_eba_unmap_leb clears the table first.
UnmapLeb(p) ==
  /\ Call /\ ~ro_mode
  /\ p \in Leb
  /\ owner' = [owner EXCEPT ![p] = "none"]
  /\ \/ PutPeb(p, FALSE)
     \/ PutNoMemory(p) /\ UNCHANGED ro_mode
  /\ UNCHANGED <<run, attach, ec, reserve, op>>

\* ubi_wl_scrub_peb, after a read that met a bit-flip; also in read-only mode.
ScrubPeb(p) ==
  /\ Call
  /\ p \in Leb \ scrub
  /\ IF Listed(p)
     THEN /\ used' = used \ {p} /\ Unprotect(p) /\ scrub' = scrub \cup {p}
          /\ UNCHANGED <<free, ec, ro_mode>>
          /\ EnsureWearLeveling
     ELSE ro_mode' = TRUE /\ UNCHANGED <<trees, ec, works, faults>>
  /\ UNCHANGED <<run, attach, reserve, owner, op>>

Init ==
  /\ run \in Scenarios
  /\ todo = run.erase /\ attached = FALSE
  /\ free = PEB \ (run.used \cup run.scrub \cup run.erase) /\ used = {} /\ scrub = {}
  /\ prot = [p \in {} |-> 0]
  /\ ec = run.ec
  /\ wl_scheduled = FALSE /\ work = NoWork /\ depth = 0
  /\ ro_mode = FALSE /\ bad = {} /\ avail_pebs = run.avail /\ beb_rsvd_pebs = run.beb
  /\ owner = [p \in PEB |-> IF p \in run.used \cup run.scrub THEN "leb" ELSE "none"]
  /\ op = NoOp /\ calls = 0 /\ faults = 0

Eba == \/ \E d \in DataTypes : WriteLeb(d) \/ \E old \in PEB : ChangeLeb(old, d)
       \/ ChangePut \/ WriteDone \/ WriteFailed
       \/ \E p \in PEB : UnmapLeb(p) \/ ScrubPeb(p)

Next == Work \/ (\E p \in PEB : AttachErase(p)) \/ AttachEnd \/ Eba

Spec == Init /\ [][Next]_vars
-----------------------------------------------------------------------------
Idle == attached /\ work = NoWork

\* Types of the state.
TypeOK ==
  /\ run \in Scenarios
  /\ todo \subseteq PEB /\ attached \in BOOLEAN
  /\ free \subseteq PEB /\ used \subseteq PEB /\ scrub \subseteq PEB /\ bad \subseteq PEB
  /\ DOMAIN prot \subseteq PEB /\ \A p \in DOMAIN prot : prot[p] \in Nat \ {0}
  /\ ec \in [PEB -> 0..UBI_MAX_ERASECOUNTER]
  /\ wl_scheduled \in BOOLEAN /\ ro_mode \in BOOLEAN
  /\ work \in [k : {"none", "erase", "wl", "copy"}, e1 : PEB \cup {NoPeb},
               e2 : PEB \cup {NoPeb}, flag : BOOLEAN]
  /\ depth \in Nat /\ avail_pebs \in Nat /\ beb_rsvd_pebs \in Nat
  /\ owner \in [PEB -> {"none", "new", "leb", "blank", "corr"}]
  /\ op \in [k : {"none", "write", "change"}, pnum : PEB \cup {NoPeb}, old : PEB \cup {NoPeb}]

\* The eraseblocks the work that runs has taken, and those that are not in a tree yet.
Hands == {work.e1, work.e2} \ {NoPeb}
Waiting == IF attached THEN {} ELSE todo \cup run.used \cup run.scrub

\* As long as the device is writable every eraseblock that is not bad is in exactly one tree, or
\* in the hands of the work that runs, and those in use are where ubi_wl_put_peb and
\* ubi_wl_scrub_peb look for them.
OnePlace ==
  ~ro_mode =>
    /\ Waiting \cup free \cup used \cup scrub \cup DOMAIN prot \cup bad \cup Hands = PEB
    /\ Waiting \cap (free \cup used \cup scrub \cup DOMAIN prot \cup bad \cup Hands) = {}
    /\ free \cap (used \cup scrub \cup DOMAIN prot \cup bad \cup Hands) = {}
    /\ used \cap (scrub \cup DOMAIN prot \cup bad \cup Hands) = {}
    /\ scrub \cap (DOMAIN prot \cup bad \cup Hands) = {}
    /\ DOMAIN prot \cap (bad \cup Hands) = {}
    /\ bad \cap Hands = {}
    /\ attached => \A p \in InUse : Listed(p) \/ (work.k = "copy" /\ p = work.e1)

\* Unless memory ran out, the used trees hold nothing but what the EBA unit has got, and for each
\* header that could not be read back at most one eraseblock that nobody will give back.
UsedIsOwned ==
  ~ro_mode /\ attached /\ "nomem" \notin run.faults =>
    /\ used \cup scrub \cup DOMAIN prot \subseteq InUse
    /\ Cardinality(Lost) <= IF "readback" \in run.faults THEN faults ELSE 0

\* The reserves suffice: unless memory ran out, there is a free eraseblock on a writable device
\* whenever the volumes ask for one or one has to be moved, although eraseblocks go bad and headers
\* cannot be read back, as long as no more are lost so than are available or in reserve.
FreeRemains ==
  /\ Idle /\ ~ro_mode /\ "nomem" \notin run.faults
  /\ Cardinality(Lost) <= avail_pebs + beb_rsvd_pebs
  => free # {}

\* When the calls have returned, an eraseblock with a bit-flip is left in place only if there was
\* none to move it to, an erasure failed, the header of a copy could not be read back (which ends
\* the moves), or memory ran out.
ScrubDone ==
  Idle /\ ~ro_mode /\ bad = {} /\ Lost = {} /\ "nomem" \notin run.faults /\ scrub # {} => free = {}

\* Calls that start each other come to an end before the stack is used up: each eraseblock is moved
\* about once, and once more after a bit-flip.  Only an eraseblock that cannot be moved at all is
\* tried again without end: one that was got for an atomic change and lost its protection before
\* it is in the table, or one that nobody owns.  (With a threshold of 1 the eraseblock a move gives
\* back could be the target of the next one, and the calls would go deeper.)
StackBounded ==
  op.old = NoPeb /\ run.faults \cap {"nomem", "readback"} = {} => depth <= 2 * (N + faults)

\* What ubi_wl_get_peb picks is free and never worn out by WL_FREE_MAX_DIFF more than another free
\* eraseblock: for data of a known type on any device; for an unknown type, whose limit find_wl_entry
\* adds to the lowest counter twice, as long as that counter is at most WL_FREE_MAX_DIFF.
PicksInWindow ==
  free # {} => \A d \in DataTypes :
                 d # "UNKNOWN" \/ ec[First(free)] <= WL_FREE_MAX_DIFF =>
                   \A p \in Picks(d) : p \in free /\ ec[p] < ec[First(free)] + WL_FREE_MAX_DIFF
=============================================================================
