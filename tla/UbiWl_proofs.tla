---------------------------- MODULE UbiWl_proofs ----------------------------
(***************************************************************************)
(* Proofs about UbiWl, for every number of eraseblocks, every device the    *)
(* scan may find, every threshold and protection, every set of faults and   *)
(* every bound on faults and calls.                                         *)
(***************************************************************************)
EXTENDS UbiWl, FiniteSetTheorems, TLAPS

-----------------------------------------------------------------------------
(* The control state.                                                       *)

\* What the work and the operation hold at each point of the code.  Before the device is
\* attached the used and protection trees are empty and only erasures run.
ScanOwner == [p \in PEB |-> IF p \in run.used \cup run.scrub THEN "leb" ELSE "none"]

ControlOK ==
  /\ work.k = "none" => work = NoWork
  /\ work.k = "wl" => work = WearLevelling
  /\ work.k = "erase" => work.e1 \in PEB /\ work.e2 = NoPeb
  /\ work.k = "copy" => work.e1 \in PEB /\ work.e2 \in PEB
  /\ op.k = "none" => op = NoOp
  /\ op.k # "none" => op.pnum \in PEB
  /\ op.k = "write" => op.old \in PEB \cup {NoPeb}
  /\ op.k = "change" => op.old \in PEB /\ work = NoWork
  /\ ~attached => /\ used = {} /\ scrub = {} /\ DOMAIN prot = {} /\ op = NoOp
                  /\ work.k \in {"none", "erase"}
                  /\ todo \subseteq run.erase
                  /\ owner = ScanOwner

CtlInv == TypeOK /\ ControlOK

\* There is no eraseblock with the number that stands for none.
LEMMA NoPebIsNone == NoPeb \notin PEB
  BY BoundsAssumption DEF NoPeb, PEB

\* The works there are.
Works == [k : {"none", "erase", "wl", "copy"}, e1 : PEB \cup {NoPeb},
          e2 : PEB \cup {NoPeb}, flag : BOOLEAN]

LEMMA NoWorkType == /\ NoWork \in Works /\ NoWork.k = "none"
                    /\ NoWork.e1 = NoPeb /\ NoWork.e2 = NoPeb
  BY DEF NoWork, Works

LEMMA WlType == /\ WearLevelling \in Works /\ WearLevelling.k = "wl"
                /\ WearLevelling.e1 = NoPeb /\ WearLevelling.e2 = NoPeb
  BY DEF WearLevelling, Works

LEMMA EraseType ==
  ASSUME NEW p \in PEB, NEW t \in BOOLEAN
  PROVE  /\ EraseWork(p, t) \in Works
         /\ EraseWork(p, t).k = "erase" /\ EraseWork(p, t).e1 = p /\ EraseWork(p, t).e2 = NoPeb
  BY DEF EraseWork, Works

LEMMA CopyType ==
  ASSUME NEW p \in PEB, NEW q \in PEB, NEW t \in BOOLEAN
  PROVE  /\ Copy(p, q, t) \in Works
         /\ Copy(p, q, t).k = "copy" /\ Copy(p, q, t).e1 = p /\ Copy(p, q, t).e2 = q
         /\ Copy(p, q, t).flag = t
  BY DEF Copy, Works

\* What is in a scenario.
LEMMA RunType ==
  ASSUME run \in Scenarios
  PROVE  /\ run.used \subseteq PEB /\ run.scrub \subseteq PEB /\ run.erase \subseteq PEB
         /\ run.ec \in [PEB -> 0..UBI_MAX_ERASECOUNTER] /\ run.avail \in Nat /\ run.beb \in Nat
         /\ run.used \cap run.scrub = {} /\ run.erase \cap (run.used \cup run.scrub) = {}
         /\ Cardinality(run.used \cup run.scrub) <= VolPebs(run)
  BY ScenariosAssumption DEF Scenario

\* What looking for wear-levelling to do leaves behind.
LEMMA EnsureType ==
  ASSUME TypeOK, EnsureWearLeveling
  PROVE  /\ work' \in {NoWork, WearLevelling} /\ depth' \in Nat /\ wl_scheduled' \in BOOLEAN
         /\ work' = WearLevelling => Needed' /\ wl_scheduled' = TRUE
<1>1. \/ work' = NoWork /\ depth' = 0 /\ wl_scheduled' = wl_scheduled
      \/ work' = WearLevelling /\ depth' = depth + 1 /\ wl_scheduled' = TRUE /\ Needed'
    BY DEF EnsureWearLeveling, Returned, Schedule
<1>2. depth' \in Nat
    BY <1>1 DEF TypeOK
<1>3. wl_scheduled' \in BOOLEAN
    BY <1>1 DEF TypeOK
<1>4. NoWork # WearLevelling
    BY NoWorkType, WlType
<1> QED
    BY <1>1, <1>2, <1>3, <1>4, Zenon

LEMMA InitCtl == Init => CtlInv
<1> SUFFICES ASSUME Init PROVE CtlInv
    OBVIOUS
<1>1. run \in Scenarios
    BY DEF Init
<1>2. TypeOK
    BY <1>1, RunType, NoWorkType DEF Init, TypeOK, NoOp, Works
<1>3. ControlOK
    BY <1>1, NoWorkType DEF Init, ControlOK, NoOp, ScanOwner
<1> QED
    BY <1>2, <1>3 DEF CtlInv

\* The work that runs.
LEMMA WorkCtl == CtlInv /\ Work => CtlInv'
<1> SUFFICES ASSUME CtlInv, Work PROVE CtlInv'
    OBVIOUS
<1> USE DEF CtlInv
<1>0. /\ run' = run /\ todo' = todo /\ attached' = attached /\ op' = op
      /\ ScanOwner' = ScanOwner
    BY DEF ScanOwner, Work, Erase, EraseRefused, EraseFailed, MoveCancelled, MoveBegin,
           MoveNoMemory, Moved, NotMoved, MoveNotErased, MoveProtects, MoveFailed, attach
<1>1. CASE Erase
  <2>1. /\ work.k = "erase" /\ work.e1 \in PEB
        /\ ec' = [ec EXCEPT ![work.e1] = @ + Cycles]
        /\ ec[work.e1] + Cycles <= UBI_MAX_ERASECOUNTER
        /\ free' = free \cup {work.e1}
        /\ used' = used \cup ProtectionOver
        /\ prot' = [p \in DOMAIN prot \ ProtectionOver |-> prot[p] - 1]
        /\ UNCHANGED <<scrub, ro_mode, bad, avail_pebs, beb_rsvd_pebs, owner>>
        /\ EnsureWearLeveling
      BY <1>1 DEF Erase, Erasing, ControlOK, reserve
  <2>2. Cycles \in Nat
      BY BoundsAssumption DEF Cycles
  <2>3. ec' \in [PEB -> 0..UBI_MAX_ERASECOUNTER]
      BY <2>1, <2>2, BoundsAssumption DEF TypeOK
  <2>4. ProtectionOver \subseteq DOMAIN prot
      BY DEF ProtectionOver
  <2>5. /\ DOMAIN prot' \subseteq DOMAIN prot
        /\ \A p \in DOMAIN prot' : prot'[p] \in Nat \ {0}
      BY <2>1 DEF ProtectionOver, TypeOK
  <2>6. /\ work' \in {NoWork, WearLevelling} /\ depth' \in Nat /\ wl_scheduled' \in BOOLEAN
        /\ work' = WearLevelling => Needed'
      BY <2>1, EnsureType
  <2>7. TypeOK'
      BY <1>0, <2>1, <2>3, <2>4, <2>5, <2>6, NoWorkType, WlType DEF TypeOK, Works
  <2>8. ~attached => ~Needed'
      BY <2>1, <2>4 DEF Needed, ControlOK
  <2>9. work'.k \in {"none", "wl"} /\ (~attached => work' = NoWork) /\ op.k # "change"
      BY <2>1, <2>6, <2>8, NoWorkType, WlType DEF ControlOK
  <2>10. ControlOK'
      BY <1>0, <2>1, <2>4, <2>5, <2>6, <2>9, NoWorkType, WlType DEF ControlOK
  <2> QED
      BY <2>7, <2>10
<1>2. CASE EraseRefused
  <2>1. /\ work' = NoWork /\ depth' = 0 /\ ro_mode' = TRUE
        /\ UNCHANGED <<free, used, scrub, prot, ec, wl_scheduled, bad, avail_pebs,
                       beb_rsvd_pebs, owner>>
      BY <1>2 DEF EraseRefused, Returned, trees, reserve
  <2> QED
      BY <1>0, <2>1, NoWorkType DEF TypeOK, ControlOK, Works
<1>3. CASE EraseFailed
  <2>1. avail_pebs' \in Nat /\ More \in Nat
      BY <1>3, BoundsAssumption DEF EraseFailed, More, TypeOK
  <2>2. work.e1 \in PEB
      BY <1>3 DEF EraseFailed, Erasing, ControlOK
  <2>3. \/ ro_mode' = TRUE /\ bad' = bad /\ beb_rsvd_pebs' = beb_rsvd_pebs
        \/ /\ bad' = bad \cup {work.e1} /\ beb_rsvd_pebs + More # 0
           /\ beb_rsvd_pebs' = beb_rsvd_pebs + More - 1 /\ ro_mode' = ro_mode
      BY <1>3 DEF EraseFailed
  <2>4. beb_rsvd_pebs' \in Nat
    <3>1. \/ beb_rsvd_pebs' = beb_rsvd_pebs
          \/ beb_rsvd_pebs + More # 0 /\ beb_rsvd_pebs' = beb_rsvd_pebs + More - 1
        BY <2>3
    <3>2. beb_rsvd_pebs \in Nat
        BY DEF TypeOK
    <3> QED
        BY <2>1, <3>1, <3>2
  <2>5. bad' \subseteq PEB /\ ro_mode' \in BOOLEAN
      BY <2>2, <2>3 DEF TypeOK
  <2>6. /\ work' = NoWork /\ depth' = 0
        /\ UNCHANGED <<free, used, scrub, prot, ec, wl_scheduled, owner>>
      BY <1>3 DEF EraseFailed, Returned, trees
  <2> QED
      BY <1>0, <2>1, <2>4, <2>5, <2>6, NoWorkType DEF TypeOK, ControlOK, Works
<1>4. CASE MoveCancelled
  <2>1. /\ work' = NoWork /\ depth' = 0 /\ wl_scheduled' = FALSE
        /\ UNCHANGED <<free, used, scrub, prot, ec, ro_mode, bad, avail_pebs, beb_rsvd_pebs, owner>>
      BY <1>4 DEF MoveCancelled, Returned, trees, reserve
  <2> QED
      BY <1>0, <2>1, NoWorkType DEF TypeOK, ControlOK, Works
<1>5. CASE MoveBegin
  <2>1. PICK e1 \in used \cup scrub, e2 \in free :
          /\ work' = Copy(e1, e2, scrub # {})
          /\ used' = used \ {e1} /\ scrub' = scrub \ {e1} /\ free' = free \ {e2}
      BY <1>5 DEF MoveBegin
  <2>2. e1 \in PEB /\ e2 \in PEB
      BY <2>1 DEF TypeOK
  <2>3. /\ UNCHANGED <<prot, ec, wl_scheduled, depth, ro_mode, bad, avail_pebs, beb_rsvd_pebs, owner>>
        /\ work.k = "wl"
      BY <1>5 DEF MoveBegin, Moving, reserve
  <2>4. work' \in Works /\ work'.k = "copy" /\ work'.e1 = e1 /\ work'.e2 = e2
      BY <2>1, <2>2, CopyType
  <2>5. attached /\ op.k # "change"
      BY <2>3, NoWorkType DEF ControlOK
  <2>6. TypeOK'
      BY <1>0, <2>1, <2>2, <2>3, <2>4 DEF TypeOK, Works
  <2>7. ControlOK'
      BY <1>0, <2>2, <2>4, <2>5 DEF ControlOK
  <2> QED
      BY <2>6, <2>7
<1>6. CASE MoveNoMemory
  <2>1. /\ work' = NoWork /\ depth' = 0
        /\ UNCHANGED <<free, used, scrub, prot, ec, wl_scheduled, ro_mode, bad, avail_pebs,
                       beb_rsvd_pebs, owner>>
      BY <1>6 DEF MoveNoMemory, Returned, trees, reserve
  <2> QED
      BY <1>0, <2>1, NoWorkType DEF TypeOK, ControlOK, Works
<1>7. Copying => work.e1 \in PEB /\ work.e2 \in PEB
    BY DEF Copying, ControlOK
<1>c. Copying => attached /\ op.k # "change"
    BY NoWorkType DEF Copying, ControlOK
<1>8. CASE Moved
  <2>1. /\ used' = used \cup {work.e2}
        /\ owner' = [owner EXCEPT ![work.e1] = "none", ![work.e2] = "leb"]
        /\ wl_scheduled' = FALSE
        /\ work' = EraseWork(work.e1, FALSE) /\ depth' = depth + 1
        /\ UNCHANGED <<free, scrub, prot, ec, ro_mode, bad, avail_pebs, beb_rsvd_pebs>>
        /\ Copying
      BY <1>8 DEF Moved, Schedule, reserve
  <2>2. work' \in Works /\ work'.k = "erase" /\ work'.e1 = work.e1 /\ work'.e2 = NoPeb
      BY <1>7, <2>1, EraseType
  <2>3. TypeOK'
    <3>1. used' \subseteq PEB /\ owner' \in [PEB -> {"none", "new", "leb", "blank", "corr"}]
        BY <1>7, <2>1 DEF TypeOK
    <3>2. depth' \in Nat
        BY <2>1 DEF TypeOK
    <3>3. wl_scheduled' \in BOOLEAN
        BY <2>1
    <3> QED
        BY <1>0, <2>1, <2>2, <3>1, <3>2, <3>3 DEF TypeOK, Works
  <2>4. ControlOK'
      BY <1>0, <1>7, <1>c, <2>1, <2>2 DEF ControlOK
  <2> QED
      BY <2>3, <2>4
<1>9. CASE NotMoved
  <2>1. /\ used' \subseteq used \cup {work.e1} /\ scrub' \subseteq scrub \cup {work.e1}
        /\ wl_scheduled' = FALSE
        /\ work' = EraseWork(work.e2, FALSE) /\ depth' = depth + 1
        /\ UNCHANGED <<free, prot, ec, ro_mode, bad, avail_pebs, beb_rsvd_pebs, owner>>
        /\ Copying
      BY <1>9 DEF NotMoved, Schedule, reserve
  <2>2. work' \in Works /\ work'.k = "erase" /\ work'.e1 = work.e2 /\ work'.e2 = NoPeb
      BY <1>7, <2>1, EraseType
  <2>3. TypeOK'
    <3>1. used' \subseteq PEB /\ scrub' \subseteq PEB
        BY <1>7, <2>1 DEF TypeOK
    <3>2. depth' \in Nat
        BY <2>1 DEF TypeOK
    <3>3. wl_scheduled' \in BOOLEAN
        BY <2>1
    <3> QED
        BY <1>0, <2>1, <2>2, <3>1, <3>2, <3>3 DEF TypeOK, Works
  <2>4. ControlOK'
      BY <1>0, <1>7, <1>c, <2>1, <2>2 DEF ControlOK
  <2> QED
      BY <2>3, <2>4
<1>10. CASE MoveProtects
  <2>1. /\ DOMAIN prot' = DOMAIN prot \cup {work.e1}
        /\ \A p \in DOMAIN prot' : prot'[p] = IF p = work.e1 THEN 1 ELSE prot[p]
        /\ used' = used \cup {work.e2}
        /\ wl_scheduled' = FALSE
        /\ work' = NoWork /\ depth' = 0
        /\ \E left \in {"blank", "corr"} : owner' = [owner EXCEPT ![work.e2] = left]
        /\ UNCHANGED <<free, scrub, ec, ro_mode, bad, avail_pebs, beb_rsvd_pebs>>
        /\ Copying
      BY <1>10 DEF MoveProtects, Returned, reserve
  <2>2. TypeOK'
    <3>1. used' \subseteq PEB /\ DOMAIN prot' \subseteq PEB
        BY <1>7, <2>1 DEF TypeOK
    <3>o. owner' \in [PEB -> {"none", "new", "leb", "blank", "corr"}]
        BY <1>7, <2>1 DEF TypeOK
    <3>2. \A p \in DOMAIN prot' : prot'[p] \in Nat \ {0}
        BY <2>1 DEF TypeOK
    <3>3. wl_scheduled' \in BOOLEAN
        BY <2>1
    <3> QED
        BY <1>0, <2>1, <3>1, <3>o, <3>2, <3>3, NoWorkType DEF TypeOK, Works
  <2>3. ControlOK'
      BY <1>0, <1>7, <1>c, <2>1, NoWorkType DEF ControlOK
  <2> QED
      BY <2>2, <2>3
<1>12. CASE MoveNotErased
  <2>1. /\ used' \subseteq used \cup {work.e1, work.e2} /\ scrub' \subseteq scrub \cup {work.e1}
        /\ \/ owner' = owner
           \/ owner' = [owner EXCEPT ![work.e1] = "none", ![work.e2] = "leb"]
        /\ wl_scheduled' = FALSE /\ ro_mode' = TRUE
        /\ work' = NoWork /\ depth' = 0
        /\ UNCHANGED <<free, prot, ec, bad, avail_pebs, beb_rsvd_pebs>>
        /\ Copying
      BY <1>12 DEF MoveNotErased, Returned, reserve
  <2>2. TypeOK'
    <3>1. used' \subseteq PEB /\ scrub' \subseteq PEB
        BY <1>7, <2>1 DEF TypeOK
    <3>2. owner' \in [PEB -> {"none", "new", "leb", "blank", "corr"}]
        BY <1>7, <2>1 DEF TypeOK
    <3>3. wl_scheduled' \in BOOLEAN /\ ro_mode' \in BOOLEAN
        BY <2>1
    <3> QED
        BY <1>0, <2>1, <3>1, <3>2, <3>3, NoWorkType DEF TypeOK, Works
  <2>3. ControlOK'
      BY <1>0, <1>7, <1>c, <2>1, NoWorkType DEF ControlOK
  <2> QED
      BY <2>2, <2>3
<1>11. CASE MoveFailed
  <2>1. /\ work' = NoWork /\ depth' = 0 /\ ro_mode' = TRUE /\ wl_scheduled' = FALSE
        /\ UNCHANGED <<free, used, scrub, prot, ec, bad, avail_pebs, beb_rsvd_pebs, owner>>
      BY <1>11 DEF MoveFailed, Returned, trees, reserve
  <2> QED
      BY <1>0, <2>1, NoWorkType DEF TypeOK, ControlOK, Works
<1> QED
    BY <1>1, <1>2, <1>3, <1>4, <1>5, <1>6, <1>8, <1>9, <1>10, <1>11, <1>12 DEF Work

\* Attaching the device.
LEMMA AttachCtl == CtlInv /\ (AttachEnd \/ \E p \in PEB : AttachErase(p)) => CtlInv'
<1> SUFFICES ASSUME CtlInv, AttachEnd \/ \E p \in PEB : AttachErase(p) PROVE CtlInv'
    OBVIOUS
<1> USE DEF CtlInv
<1>1. ASSUME NEW p \in PEB, AttachErase(p)
      PROVE  CtlInv'
  <2>1. /\ ~attached /\ attached' = attached /\ todo' = todo \ {p}
        /\ work' = EraseWork(p, FALSE) /\ depth' = depth + 1
        /\ UNCHANGED <<run, free, used, scrub, prot, ec, wl_scheduled, ro_mode, bad, avail_pebs,
                       beb_rsvd_pebs, owner, op>>
      BY <1>1 DEF AttachErase, Schedule, trees, reserve
  <2>2. work' \in Works /\ work'.k = "erase" /\ work'.e1 = p /\ work'.e2 = NoPeb
      BY <2>1, EraseType
  <2>3. depth' \in Nat
      BY <2>1 DEF TypeOK
  <2>4. TypeOK'
      BY <2>1, <2>2, <2>3 DEF TypeOK, Works
  <2>5. op.k = "none" /\ ScanOwner' = ScanOwner
      BY <2>1 DEF ControlOK, NoOp, ScanOwner
  <2>6. ControlOK'
      BY <2>1, <2>2, <2>5 DEF ControlOK
  <2> QED
      BY <2>4, <2>6
<1>2. CASE AttachEnd
  <2>1. /\ ~attached /\ attached' = TRUE /\ used' = run.used /\ scrub' = run.scrub
        /\ EnsureWearLeveling
        /\ UNCHANGED <<run, free, prot, ec, todo, ro_mode, bad, avail_pebs, beb_rsvd_pebs, owner, op>>
      BY <1>2 DEF AttachEnd, reserve
  <2>2. run.used \subseteq PEB /\ run.scrub \subseteq PEB
      BY RunType DEF TypeOK
  <2>3. work' \in {NoWork, WearLevelling} /\ depth' \in Nat /\ wl_scheduled' \in BOOLEAN
      BY <2>1, EnsureType
  <2>4. attached' \in BOOLEAN
      BY <2>1
  <2>5. TypeOK'
      BY <2>1, <2>2, <2>3, <2>4, NoWorkType, WlType DEF TypeOK, Works
  <2>6. op = NoOp /\ op.k = "none"
      BY <2>1 DEF ControlOK, NoOp
  <2>7. ControlOK'
      BY <2>1, <2>3, <2>6, NoWorkType, WlType DEF ControlOK
  <2> QED
      BY <2>5, <2>7
<1> QED
    BY <1>1, <1>2

\* What putting an eraseblock leaves of the types.
PutOK ==
  /\ used' \subseteq PEB /\ scrub' \subseteq PEB
  /\ DOMAIN prot' \subseteq PEB /\ \A q \in DOMAIN prot' : prot'[q] \in Nat \ {0}
  /\ depth' \in Nat /\ work' \in Works
  /\ work'.k = "none" => work' = NoWork
  /\ work'.k \in {"none", "erase"}
  /\ work'.k = "erase" => work'.e1 \in PEB /\ work'.e2 = NoPeb
  /\ free' = free

LEMMA UnprotectFacts ==
  ASSUME NEW p, Unprotect(p)
  PROVE  /\ DOMAIN prot' = DOMAIN prot \ {p}
         /\ \A q \in DOMAIN prot' : prot'[q] = prot[q]
  BY DEF Unprotect

LEMMA PutCtl ==
  ASSUME TypeOK, work = NoWork, NEW p \in PEB, NEW t \in BOOLEAN, PutPeb(p, t)
  PROVE  PutOK /\ ro_mode' \in BOOLEAN /\ wl_scheduled' = wl_scheduled
<1>1. ro_mode' \in BOOLEAN
    BY DEF PutPeb, TypeOK
<1>2. free' = free /\ wl_scheduled' = wl_scheduled
    BY DEF PutPeb
<1>3. CASE Listed(p)
  <2>1. /\ used' = used \ {p} /\ scrub' = scrub \ {p} /\ Unprotect(p)
        /\ work' = EraseWork(p, t) /\ depth' = depth + 1
      BY <1>3 DEF PutPeb, Schedule
  <2>2. work' \in Works /\ work'.k = "erase" /\ work'.e1 = p /\ work'.e2 = NoPeb
      BY <2>1, EraseType
  <2>3. depth' \in Nat
      BY <2>1 DEF TypeOK
  <2>4. DOMAIN prot' \subseteq PEB /\ \A q \in DOMAIN prot' : prot'[q] \in Nat \ {0}
      BY <2>1, UnprotectFacts DEF TypeOK
  <2> QED
      BY <1>1, <1>2, <2>1, <2>2, <2>3, <2>4 DEF PutOK, TypeOK
<1>4. CASE ~Listed(p)
  <2>1. UNCHANGED <<used, scrub, prot, work, depth>>
      BY <1>4 DEF PutPeb
  <2> QED
      BY <1>1, <1>2, <2>1, NoWorkType DEF PutOK, TypeOK
<1> QED
    BY <1>3, <1>4

LEMMA PutNoMemoryCtl ==
  ASSUME TypeOK, work = NoWork, NEW p \in PEB, PutNoMemory(p)
  PROVE  PutOK /\ wl_scheduled' = wl_scheduled
<1>1. /\ used' = used \cup {p} /\ scrub' = scrub \ {p} /\ Unprotect(p)
      /\ free' = free /\ work' = work /\ depth' = depth /\ wl_scheduled' = wl_scheduled
    BY DEF PutNoMemory, works
<1>2. DOMAIN prot' \subseteq PEB /\ \A q \in DOMAIN prot' : prot'[q] \in Nat \ {0}
    BY <1>1, UnprotectFacts DEF TypeOK
<1> QED
    BY <1>1, <1>2, NoWorkType DEF PutOK, TypeOK

\* What getting an eraseblock leaves of the types.
LEMMA GetCtl ==
  ASSUME TypeOK, NEW d \in DataTypes, NEW p \in PEB, GetPeb(d, p)
  PROVE  /\ p \in free /\ free' = free \ {p}
         /\ DOMAIN prot' = DOMAIN prot \cup {p}
         /\ \A q \in DOMAIN prot' : prot'[q] \in Nat \ {0}
         /\ owner' = [owner EXCEPT ![p] = "new"]
         /\ used' = used /\ scrub' = scrub
<1>1. Protection(d) \in Nat \ {0}
    BY BoundsAssumption DEF Protection, DataTypes
<1> QED
    BY <1>1 DEF GetPeb, TypeOK

\* What a call of the EBA unit relies on and keeps.
Called == /\ UNCHANGED <<run, todo, attached, ec, bad, avail_pebs, beb_rsvd_pebs>>
          /\ attached

\* The calls of the EBA unit.
LEMMA EbaCtl == CtlInv /\ Eba => CtlInv'
<1> SUFFICES ASSUME CtlInv, Eba PROVE CtlInv'
    OBVIOUS
<1> USE DEF CtlInv
<1>1. ASSUME NEW d \in DataTypes, WriteLeb(d) \/ \E old \in PEB : ChangeLeb(old, d)
      PROVE  CtlInv'
  <2>1. PICK p \in PEB, old \in PEB \cup {NoPeb} :
          /\ GetPeb(d, p)
          /\ \/ op' = [k |-> "write", pnum |-> p, old |-> NoPeb]
             \/ op' = [k |-> "change", pnum |-> p, old |-> old] /\ old # NoPeb
      BY <1>1, NoPebIsNone DEF WriteLeb, ChangeLeb
  <2>2. /\ Called /\ work = NoWork /\ UNCHANGED <<wl_scheduled, work, depth, ro_mode>>
      BY <1>1 DEF WriteLeb, ChangeLeb, Call, Ready, Called, attach, works, reserve
  <2>3. op' \in [k : {"none", "write", "change"}, pnum : PEB \cup {NoPeb}, old : PEB \cup {NoPeb}]
      BY <2>1
  <2>4. owner' \in [PEB -> {"none", "new", "leb", "blank", "corr"}]
      BY <2>1, GetCtl DEF TypeOK
  <2>5. /\ free' \subseteq PEB /\ used' \subseteq PEB /\ scrub' \subseteq PEB
        /\ DOMAIN prot' \subseteq PEB /\ \A q \in DOMAIN prot' : prot'[q] \in Nat \ {0}
    <3>1. /\ free' = free \ {p} /\ DOMAIN prot' = DOMAIN prot \cup {p}
          /\ \A q \in DOMAIN prot' : prot'[q] \in Nat \ {0}
          /\ used' = used /\ scrub' = scrub
        BY <2>1, GetCtl
    <3> QED
        BY <3>1 DEF TypeOK
  <2>6. TypeOK'
      BY <2>2, <2>3, <2>4, <2>5 DEF TypeOK, Called
  <2>7. ControlOK'
      BY <2>1, <2>2 DEF ControlOK, Called
  <2> QED
      BY <2>6, <2>7
<1>2. CASE ChangePut
  <2>1. /\ op.k = "change" /\ work = NoWork /\ op.old \in PEB /\ op.pnum \in PEB /\ op.old # NoPeb
        /\ Called
      BY <1>2, NoPebIsNone DEF ChangePut, Called, attach, reserve, ControlOK, NoOp
  <2>2. PutOK /\ ro_mode' \in BOOLEAN /\ wl_scheduled' = wl_scheduled
    <3>1. PutPeb(op.old, TRUE) \/ (PutNoMemory(op.old) /\ ro_mode' = ro_mode)
        BY <1>2 DEF ChangePut
    <3>2. ro_mode \in BOOLEAN
        BY DEF TypeOK
    <3> QED
        BY <2>1, <3>1, <3>2, PutCtl, PutNoMemoryCtl
  <2>3. op' = [op EXCEPT !.k = "write"] \/ op' = NoOp
      BY <1>2 DEF ChangePut
  <2>4. /\ op' \in [k : {"none", "write", "change"}, pnum : PEB \cup {NoPeb}, old : PEB \cup {NoPeb}]
        /\ (op' = NoOp /\ op'.k = "none") \/ (op'.k = "write" /\ op'.pnum = op.pnum /\ op'.old = op.old)
      BY <2>3 DEF TypeOK, NoOp
  <2>5. owner' \in [PEB -> {"none", "new", "leb", "blank", "corr"}]
      BY <1>2 DEF ChangePut, TypeOK
  <2>6. TypeOK'
      BY <2>1, <2>2, <2>4, <2>5 DEF TypeOK, PutOK, Called, Works
  <2>7. ControlOK'
      BY <2>1, <2>2, <2>4 DEF ControlOK, PutOK, Called
  <2> QED
      BY <2>6, <2>7
<1>3. CASE WriteDone
  <2>1. /\ op.k = "write" /\ work = NoWork /\ op.pnum \in PEB /\ op' = NoOp /\ Called
        /\ owner' = [owner EXCEPT ![op.pnum] = "leb"]
        /\ UNCHANGED <<free, used, scrub, prot, wl_scheduled, work, depth, ro_mode>>
      BY <1>3 DEF WriteDone, Called, attach, trees, works, reserve, ControlOK, NoOp
  <2>2. NoOp \in [k : {"none", "write", "change"}, pnum : PEB \cup {NoPeb}, old : PEB \cup {NoPeb}]
        /\ NoOp.k = "none"
      BY DEF NoOp
  <2>3. TypeOK'
      BY <2>1, <2>2 DEF TypeOK, Called
  <2>4. ControlOK'
      BY <2>1, <2>2 DEF ControlOK, Called
  <2> QED
      BY <2>3, <2>4
<1>4. CASE WriteFailed
  <2>0. op.k \in {"write", "change"} /\ NoOp.k = "none"
      BY <1>4 DEF WriteFailed, NoOp
  <2>1. /\ work = NoWork /\ op.pnum \in PEB /\ op' = NoOp /\ Called
        /\ owner' = [owner EXCEPT ![op.pnum] = "none"]
        /\ PutPeb(op.pnum, TRUE)
    <3>1. op.pnum \in PEB /\ attached
        BY <2>0 DEF ControlOK
    <3> QED
        BY <1>4, <3>1 DEF WriteFailed, Called, attach, reserve
  <2>2. NoOp \in [k : {"none", "write", "change"}, pnum : PEB \cup {NoPeb}, old : PEB \cup {NoPeb}]
        /\ NoOp.k = "none"
      BY DEF NoOp
  <2>3. PutOK /\ ro_mode' \in BOOLEAN /\ wl_scheduled' = wl_scheduled
      BY <2>1, PutCtl
  <2>4. owner' \in [PEB -> {"none", "new", "leb", "blank", "corr"}]
      BY <2>1 DEF TypeOK
  <2>5. TypeOK'
      BY <2>1, <2>2, <2>3, <2>4 DEF TypeOK, PutOK, Called, Works
  <2>6. ControlOK'
      BY <2>1, <2>2, <2>3 DEF ControlOK, PutOK, Called
  <2> QED
      BY <2>5, <2>6
<1>5. ASSUME NEW p \in PEB, UnmapLeb(p)
      PROVE  CtlInv'
  <2>1. /\ work = NoWork /\ op = NoOp /\ op' = NoOp /\ Called
        /\ owner' = [owner EXCEPT ![p] = "none"]
      BY <1>5 DEF UnmapLeb, Call, Ready, Called, attach, reserve
  <2>2. PutOK /\ ro_mode' \in BOOLEAN /\ wl_scheduled' = wl_scheduled
    <3>1. PutPeb(p, FALSE) \/ (PutNoMemory(p) /\ ro_mode' = ro_mode)
        BY <1>5 DEF UnmapLeb
    <3>2. ro_mode \in BOOLEAN
        BY DEF TypeOK
    <3> QED
        BY <2>1, <3>1, <3>2, PutCtl, PutNoMemoryCtl
  <2>4. owner' \in [PEB -> {"none", "new", "leb", "blank", "corr"}]
      BY <2>1 DEF TypeOK
  <2>5. TypeOK'
      BY <2>1, <2>2, <2>4 DEF TypeOK, PutOK, Called, Works
  <2>6. ControlOK'
      BY <2>1, <2>2 DEF ControlOK, PutOK, Called, NoOp
  <2> QED
      BY <2>5, <2>6
<1>6. ASSUME NEW p \in PEB, ScrubPeb(p)
      PROVE  CtlInv'
  <2>1. work = NoWork /\ op = NoOp /\ op' = NoOp /\ owner' = owner /\ op'.k = "none"
        /\ UNCHANGED <<run, todo, attached, bad, avail_pebs, beb_rsvd_pebs>> /\ attached
      BY <1>6 DEF ScrubPeb, Call, Ready, attach, reserve, NoOp
  <2>2. CASE Listed(p)
    <3>1. /\ used' = used \ {p} /\ Unprotect(p) /\ scrub' = scrub \cup {p}
          /\ UNCHANGED <<free, ec, ro_mode>> /\ EnsureWearLeveling
        BY <1>6, <2>2 DEF ScrubPeb
    <3>2. DOMAIN prot' \subseteq PEB /\ \A q \in DOMAIN prot' : prot'[q] \in Nat \ {0}
        BY <3>1, UnprotectFacts DEF TypeOK
    <3>3. work' \in {NoWork, WearLevelling} /\ depth' \in Nat /\ wl_scheduled' \in BOOLEAN
        BY <3>1, EnsureType
    <3>4. TypeOK'
        BY <2>1, <3>1, <3>2, <3>3, NoWorkType, WlType DEF TypeOK, Works
    <3>5. ControlOK'
        BY <2>1, <3>3, NoWorkType, WlType DEF ControlOK
    <3> QED
        BY <3>4, <3>5
  <2>3. CASE ~Listed(p)
    <3>1. ro_mode' = TRUE
          /\ UNCHANGED <<free, used, scrub, prot, ec, wl_scheduled, work, depth, faults>>
        BY <1>6, <2>3 DEF ScrubPeb, trees, works
    <3>2. TypeOK'
        BY <2>1, <3>1 DEF TypeOK
    <3>3. ControlOK'
        BY <2>1, <3>1 DEF ControlOK
    <3> QED
        BY <3>2, <3>3
  <2> QED
      BY <2>2, <2>3
<1> QED
    BY <1>1, <1>2, <1>3, <1>4, <1>5, <1>6 DEF Eba

\* A step that changes nothing.
LEMMA StutterCtl == CtlInv /\ UNCHANGED vars => CtlInv'
  BY DEF CtlInv, TypeOK, ControlOK, ScanOwner, vars, attach, trees, works, reserve

LEMMA NextCtl == CtlInv /\ [Next]_vars => CtlInv'
  BY WorkCtl, AttachCtl, EbaCtl, StutterCtl DEF Next

\* Types: the state of the wear-levelling unit is well formed whatever happens to it; no counter
\* of reserved eraseblocks becomes negative and no erase counter exceeds its limit.
THEOREM Types == Spec => []TypeOK
<1>1. CtlInv => TypeOK
    BY DEF CtlInv
<1> QED
    BY <1>1, InitCtl, NextCtl, PTL DEF Spec

-----------------------------------------------------------------------------
(* Where the eraseblocks are, and whose.                                    *)

\* While the device is writable, an operation owns the eraseblock it got, and an atomic change
\* also the one it replaces; a move has two eraseblocks.
OpOwns ==
  ~ro_mode =>
    /\ op.k # "none" => owner[op.pnum] = "new"
    /\ op.k = "change" => owner[op.old] = "leb"
    /\ work.k = "copy" => work.e1 # work.e2

\* The invariant behind OnePlace.
PlaceInv == CtlInv /\ OnePlace /\ OpOwns

\* Unless memory ran out, a move that is not done returns an eraseblock that is in use; none is lost
\* where headers can always be read back.
MoveOwned ==
  ~ro_mode /\ "nomem" \notin run.faults /\ work.k = "copy" => work.e1 \in InUse
NoLost == "readback" \notin run.faults => Lost = {}

\* The volumes never have more LEBs than they reserved, also while a write is under way; nothing
\* but that write has got an eraseblock without a LEB; each bad eraseblock cost one of the reserve.
Reserved ==
  ~ro_mode =>
    /\ Cardinality(Leb) <= VolPebs(run)
    /\ op.k = "write" => Cardinality(Leb) < VolPebs(run)
    /\ \A p \in PEB : owner[p] = "new" => op.k # "none" /\ p = op.pnum
    /\ Cardinality(bad) + avail_pebs + beb_rsvd_pebs = run.avail + run.beb

\* While memory suffices, wl_scheduled is set only while there is such work, and no eraseblock is
\* moved for its wear while one waits to be scrubbed.
ScrubInv ==
  ~ro_mode /\ bad = {} /\ Lost = {} /\ "nomem" \notin run.faults =>
    /\ wl_scheduled => work.k \in {"wl", "copy"}
    /\ work.k = "copy" /\ ~work.flag => scrub = {}

\* What is in the hands of the work, now and after a step.
HandsOf ==
  /\ work.k \in {"none", "wl"} => Hands = {}
  /\ work.k = "erase" => Hands = {work.e1}
  /\ work.k = "copy" => Hands = {work.e1, work.e2}
  /\ work.k \in {"none", "wl", "erase", "copy"}

LEMMA HandsAre == (CtlInv => HandsOf) /\ (CtlInv' => HandsOf')
<1>1. /\ NoWork.e1 = NoPeb /\ NoWork.e2 = NoPeb
      /\ WearLevelling.e1 = NoPeb /\ WearLevelling.e2 = NoPeb
    BY NoWorkType, WlType
<1>2. ASSUME CtlInv PROVE HandsOf
  <2>1. work.k \in {"none", "wl", "erase", "copy"}
      BY <1>2 DEF CtlInv, TypeOK
  <2> QED
      BY <1>1, <1>2, <2>1, NoPebIsNone DEF CtlInv, ControlOK, Hands, HandsOf
<1>3. ASSUME CtlInv' PROVE HandsOf'
  <2>1. work'.k \in {"none", "wl", "erase", "copy"}
      BY <1>3 DEF CtlInv, TypeOK
  <2> QED
      BY <1>1, <1>3, <2>1, NoPebIsNone DEF CtlInv, ControlOK, Hands, HandsOf
<1> QED
    BY <1>2, <1>3

\* Read-only mode is never left.
LEMMA ReadOnlyStays == ~ro_mode' /\ [Next]_vars => ~ro_mode
<1> SUFFICES ASSUME ~ro_mode', [Next]_vars PROVE ~ro_mode
    OBVIOUS
<1>1. CASE Work
    BY <1>1 DEF Work, Erase, EraseRefused, EraseFailed, MoveCancelled, MoveBegin, MoveNoMemory,
                Moved, NotMoved, MoveNotErased, MoveProtects, MoveFailed
<1>2. CASE AttachEnd \/ \E p \in PEB : AttachErase(p)
    BY <1>2 DEF AttachEnd, AttachErase
<1>3. CASE Eba
    BY <1>3 DEF Eba, WriteLeb, ChangeLeb, ChangePut, WriteDone, WriteFailed, UnmapLeb, ScrubPeb,
                Call, PutPeb, PutNoMemory
<1>4. CASE UNCHANGED vars
    BY <1>4 DEF vars
<1> QED
    BY <1>1, <1>2, <1>3, <1>4 DEF Next

\* A mutual placement is kept by erasures: what they erase is free or bad afterwards.
LEMMA ErasePlace == PlaceInv /\ Erase /\ CtlInv' => OnePlace' /\ OpOwns'
<1> SUFFICES ASSUME PlaceInv, Erase, CtlInv' PROVE OnePlace' /\ OpOwns'
    OBVIOUS
<1>1. /\ work.k = "erase" /\ ~ro_mode
      /\ free' = free \cup {work.e1}
      /\ used' = used \cup ProtectionOver
      /\ prot' = [p \in DOMAIN prot \ ProtectionOver |-> prot[p] - 1]
      /\ UNCHANGED <<run, todo, attached, scrub, ro_mode, bad, owner, op>>
      /\ EnsureWearLeveling
    BY DEF Erase, Erasing, reserve, attach
<1>2. work'.k \in {"none", "wl"}
    BY <1>1, EnsureType, NoWorkType, WlType DEF PlaceInv, CtlInv
<1>3. Hands = {work.e1} /\ Hands' = {}
    BY <1>1, <1>2, HandsAre DEF PlaceInv, HandsOf
<1>4. ProtectionOver \subseteq DOMAIN prot /\ DOMAIN prot' = DOMAIN prot \ ProtectionOver
    BY <1>1 DEF ProtectionOver
<1>5. Waiting' = Waiting /\ InUse' = InUse
    BY <1>1 DEF Waiting, InUse, Owned, Lost
<1>6. OnePlace'
    BY <1>1, <1>2, <1>3, <1>4, <1>5 DEF PlaceInv, OnePlace, Listed
<1>7. OpOwns'
    BY <1>1, <1>2 DEF PlaceInv, OpOwns
<1> QED BY <1>6, <1>7

LEMMA EraseFailedPlace ==
  PlaceInv /\ EraseFailed /\ CtlInv' /\ ~ro_mode' => OnePlace' /\ OpOwns'
<1> SUFFICES ASSUME PlaceInv, EraseFailed, CtlInv', ~ro_mode' PROVE OnePlace' /\ OpOwns'
    OBVIOUS
<1>1. /\ work.k = "erase" /\ ~ro_mode /\ bad' = bad \cup {work.e1} /\ work' = NoWork
      /\ UNCHANGED <<run, todo, attached, free, used, scrub, prot, owner, op>>
    BY DEF EraseFailed, Erasing, Returned, trees, attach
<1>2. Hands = {work.e1} /\ Hands' = {} /\ work'.k = "none"
    BY <1>1, HandsAre, NoWorkType DEF PlaceInv, HandsOf
<1>3. Waiting' = Waiting /\ InUse' = InUse
    BY <1>1 DEF Waiting, InUse, Owned, Lost
<1>4. OnePlace'
    BY <1>1, <1>2, <1>3 DEF PlaceInv, OnePlace, Listed
<1>5. OpOwns'
    BY <1>1, <1>2 DEF PlaceInv, OpOwns
<1> QED
    BY <1>4, <1>5

\* A move takes two eraseblocks out of the trees and puts both back: into the trees, into the
\* hands of the erasure that follows, or, on an error, nowhere when the device is read-only.
LEMMA MovePlace ==
  ASSUME PlaceInv, CtlInv', ~ro_mode',
         MoveCancelled \/ MoveBegin \/ MoveNoMemory \/ Moved \/ NotMoved \/ MoveProtects \/ MoveFailed
  PROVE  OnePlace' /\ OpOwns'
<1>0. UNCHANGED <<run, todo, attached, ro_mode, bad, op>> /\ ~ro_mode /\ Waiting' = Waiting
  <2>1. UNCHANGED <<run, todo, attached, bad, op>>
      BY DEF MoveCancelled, MoveBegin, MoveNoMemory, Moved, NotMoved, MoveProtects, MoveFailed,
             attach, reserve
  <2>2. ro_mode' = ro_mode
      BY DEF MoveCancelled, MoveBegin, MoveNoMemory, Moved, NotMoved, MoveProtects, MoveFailed
  <2> QED
      BY <2>1, <2>2 DEF Waiting
<1>1. CASE MoveCancelled \/ MoveNoMemory
  <2>1. work.k = "wl" /\ work' = NoWork /\ UNCHANGED <<free, used, scrub, prot, owner>>
      BY <1>1 DEF MoveCancelled, MoveNoMemory, Moving, Returned, trees
  <2>2. Hands = {} /\ Hands' = {} /\ work'.k = "none" /\ InUse' = InUse
      BY <2>1, HandsAre, NoWorkType DEF PlaceInv, HandsOf, InUse, Owned, Lost
  <2>3. OnePlace'
      BY <1>0, <2>1, <2>2 DEF PlaceInv, OnePlace, Listed
  <2> QED
      BY <1>0, <2>1, <2>2, <2>3 DEF PlaceInv, OpOwns
<1>2. CASE MoveBegin
  <2>1. PICK e1 \in used \cup scrub, e2 \in free :
          /\ work' = Copy(e1, e2, scrub # {})
          /\ used' = used \ {e1} /\ scrub' = scrub \ {e1} /\ free' = free \ {e2}
      BY <1>2 DEF MoveBegin
  <2>2. work.k = "wl" /\ UNCHANGED <<prot, owner>>
      BY <1>2 DEF MoveBegin, Moving
  <2>3. e1 \in PEB /\ e2 \in PEB
      BY <2>1 DEF PlaceInv, CtlInv, TypeOK
  <2>4. work'.k = "copy" /\ work'.e1 = e1 /\ work'.e2 = e2
      BY <2>1, <2>3, CopyType
  <2>5. Hands = {} /\ Hands' = {e1, e2} /\ InUse' = InUse
      BY <2>2, <2>4, HandsAre DEF PlaceInv, HandsOf, InUse, Owned, Lost
  <2>6. OnePlace'
      BY <1>0, <2>1, <2>2, <2>4, <2>5 DEF PlaceInv, OnePlace, Listed
  <2>7. e1 # e2
      BY <1>0, <2>1 DEF PlaceInv, OnePlace
  <2> QED
      BY <1>0, <2>2, <2>4, <2>6, <2>7 DEF PlaceInv, OpOwns
<1>3. ASSUME Copying
      PROVE  /\ Hands = {work.e1, work.e2} /\ work.e1 # work.e2 /\ work.e1 \in PEB /\ work.e2 \in PEB
             /\ work.k = "copy"
    BY <1>0, <1>3, HandsAre DEF PlaceInv, OpOwns, HandsOf, Copying, CtlInv, ControlOK
<1>8. ASSUME Copying, owner[work.e1] = "leb"
      PROVE  /\ op.k # "none" => op.pnum # work.e1 /\ op.pnum # work.e2
             /\ op.k # "change"
  <2>1. ASSUME op.k # "none" PROVE op.pnum \in InUse /\ owner[op.pnum] = "new"
      BY <1>0, <2>1 DEF PlaceInv, OpOwns, CtlInv, ControlOK, InUse, Owned
  <2>2. op.k # "none" => work.e2 \notin InUse
      BY <1>0, <1>3, <1>8, <2>1 DEF PlaceInv, OnePlace, Listed, CtlInv, ControlOK
  <2>3. op.k # "change"
      BY <1>3, <1>8, NoWorkType DEF PlaceInv, CtlInv, ControlOK
  <2> QED
      BY <1>8, <2>1, <2>2, <2>3
<1>9. op.k # "none" => op.pnum \in PEB /\ owner[op.pnum] = "new"
    BY <1>0 DEF PlaceInv, OpOwns, CtlInv, ControlOK
<1>o. owner \in [PEB -> {"none", "new", "leb", "blank", "corr"}]
    BY DEF PlaceInv, CtlInv, TypeOK
<1>4. CASE Moved
  <2>1. /\ Copying /\ owner[work.e1] = "leb" /\ used' = used \cup {work.e2}
        /\ owner' = [owner EXCEPT ![work.e1] = "none", ![work.e2] = "leb"]
        /\ work' = EraseWork(work.e1, FALSE)
        /\ UNCHANGED <<free, scrub, prot>>
      BY <1>4 DEF Moved, Schedule
  <2>2. Hands' = {work.e1} /\ work'.k = "erase"
      BY <1>3, <2>1, EraseType, HandsAre DEF HandsOf
  <2>3. InUse' = (InUse \ {work.e1}) \cup {work.e2}
      BY <1>3, <2>1 DEF InUse, Owned, Lost, PlaceInv, CtlInv, TypeOK
  <2>4. OnePlace'
      BY <1>0, <1>3, <2>1, <2>2, <2>3 DEF PlaceInv, OnePlace, Listed
  <2>5. op.k # "none" => owner'[op.pnum] = "new"
      BY <1>8, <1>9, <1>o, <2>1
  <2>6. op.k # "change"
      BY <1>8, <2>1
  <2>8. OpOwns'
      BY <1>0, <2>2, <2>5, <2>6 DEF OpOwns
  <2> QED
      BY <2>4, <2>8
<1>5. CASE NotMoved
  <2>1. /\ Copying
        /\ used' = IF work.flag THEN used ELSE used \cup {work.e1}
        /\ scrub' = IF work.flag THEN scrub \cup {work.e1} ELSE scrub
        /\ work' = EraseWork(work.e2, FALSE)
        /\ UNCHANGED <<free, prot, owner>>
      BY <1>5 DEF NotMoved, Schedule
  <2>2. Hands' = {work.e2} /\ work'.k = "erase" /\ InUse' = InUse
      BY <1>3, <2>1, EraseType, HandsAre DEF HandsOf, InUse, Owned, Lost
  <2>3. OnePlace'
      BY <1>0, <1>3, <2>1, <2>2 DEF PlaceInv, OnePlace, Listed
  <2> QED
      BY <1>0, <2>1, <2>2, <2>3 DEF PlaceInv, OpOwns
<1>6. CASE MoveProtects
  <2>1. /\ Copying /\ owner[work.e1] = "leb"
        /\ DOMAIN prot' = DOMAIN prot \cup {work.e1}
        /\ used' = used \cup {work.e2}
        /\ \E left \in {"blank", "corr"} : owner' = [owner EXCEPT ![work.e2] = left]
        /\ work' = NoWork
        /\ UNCHANGED <<free, scrub>>
      BY <1>6 DEF MoveProtects, Returned
  <2>2. Hands' = {} /\ work'.k = "none"
      BY <2>1, NoWorkType, HandsAre DEF HandsOf
  <2>3. InUse' = InUse \cup {work.e2}
      BY <1>3, <1>o, <2>1 DEF InUse, Owned, Lost
  <2>4. OnePlace'
      BY <1>0, <1>3, <2>1, <2>2, <2>3 DEF PlaceInv, OnePlace, Listed
  <2>5. op.k # "none" => owner'[op.pnum] = "new"
      BY <1>8, <1>9, <1>o, <2>1
  <2>6. op.k # "change"
      BY <1>8, <2>1
  <2>7. OpOwns'
      BY <1>0, <2>2, <2>5, <2>6 DEF OpOwns
  <2> QED
      BY <2>4, <2>7
<1>7. CASE MoveFailed
    BY <1>0, <1>7 DEF MoveFailed
<1> QED
    BY <1>1, <1>2, <1>4, <1>5, <1>6, <1>7

\* Attaching takes the eraseblocks of the scan one after the other, then all that carry data.
LEMMA AttachPlace ==
  ASSUME PlaceInv, CtlInv', ~ro_mode, AttachEnd \/ \E p \in PEB : AttachErase(p)
  PROVE  OnePlace' /\ OpOwns'
<1>1. ASSUME NEW p \in PEB, AttachErase(p)
      PROVE  OnePlace' /\ OpOwns'
  <2>1. /\ ~attached /\ work = NoWork /\ p \in todo /\ todo' = todo \ {p}
        /\ work' = EraseWork(p, FALSE)
        /\ UNCHANGED <<run, attached, free, used, scrub, prot, bad, owner, op, ro_mode>>
      BY <1>1 DEF AttachErase, Schedule, trees, reserve
  <2>2. Hands = {} /\ Hands' = {p} /\ work'.k = "erase"
      BY <2>1, NoWorkType, EraseType, HandsAre DEF PlaceInv, HandsOf
  <2>3. p \notin run.used /\ p \notin run.scrub
    <3>1. run \in Scenarios /\ p \in run.erase
        BY <2>1 DEF PlaceInv, CtlInv, TypeOK, ControlOK
    <3> QED
        BY <3>1, RunType
  <2>4. Waiting = Waiting' \cup {p} /\ p \notin Waiting'
      BY <2>1, <2>3 DEF Waiting
  <2>5. OnePlace'
    <3>1. ~attached' /\ UNCHANGED <<free, used, scrub, prot, bad>>
        BY <2>1
    <3> QED
        BY <2>2, <2>4, <3>1 DEF PlaceInv, OnePlace
  <2> QED
      BY <2>1, <2>2, <2>5 DEF PlaceInv, OpOwns
<1>2. CASE AttachEnd
  <2>1. /\ ~attached /\ attached' = TRUE /\ work = NoWork /\ todo = {}
        /\ used' = run.used /\ scrub' = run.scrub
        /\ UNCHANGED <<run, free, prot, bad, owner, op, ro_mode>>
        /\ EnsureWearLeveling
      BY <1>2 DEF AttachEnd, reserve
  <2>2. work'.k \in {"none", "wl"}
      BY <2>1, EnsureType, NoWorkType, WlType DEF PlaceInv, CtlInv
  <2>3. Hands = {} /\ Hands' = {}
      BY <2>1, <2>2, NoWorkType, HandsAre DEF PlaceInv, HandsOf
  <2>4. run.used \cap run.scrub = {}
      BY RunType DEF PlaceInv, CtlInv, TypeOK
  <2>5. Waiting' = {} /\ Waiting = run.used \cup run.scrub
      BY <2>1 DEF Waiting
  <2>6. used = {} /\ scrub = {} /\ DOMAIN prot = {} /\ owner = ScanOwner /\ op = NoOp
      BY <2>1 DEF PlaceInv, CtlInv, ControlOK
  <2>7. InUse' \subseteq run.used \cup run.scrub
      BY <2>1, <2>6 DEF InUse, Owned, Lost, ScanOwner
  <2>8. OnePlace'
      BY <2>1, <2>3, <2>4, <2>5, <2>6, <2>7 DEF PlaceInv, OnePlace, Listed
  <2> QED
      BY <2>1, <2>2, <2>6, <2>8 DEF OpOwns, NoOp
<1> QED
    BY <1>1, <1>2

\* Getting an eraseblock moves it from the free tree to the protection tree.
LEMMA GetPlace ==
  ASSUME PlaceInv, ~ro_mode, Called, work = NoWork, work' = work, ro_mode' = ro_mode,
         NEW d \in DataTypes, NEW p \in PEB, GetPeb(d, p)
  PROVE  OnePlace' /\ owner[p] = "none"
<1>1. /\ p \in free /\ free' = free \ {p}
      /\ DOMAIN prot' = DOMAIN prot \cup {p}
      /\ owner' = [owner EXCEPT ![p] = "new"]
      /\ used' = used /\ scrub' = scrub
    BY GetCtl DEF PlaceInv, CtlInv
<1>2. Hands = {} /\ Hands' = Hands
    BY NoWorkType, HandsAre DEF PlaceInv, HandsOf, Hands
<1>3. Waiting = {} /\ Waiting' = {}
    BY DEF Waiting, Called
<1>4. InUse' = InUse \cup {p}
    BY <1>1 DEF InUse, Owned, Lost, PlaceInv, CtlInv, TypeOK
<1>5. p \notin InUse
    BY <1>1, NoWorkType DEF PlaceInv, OnePlace, Listed, Called
<1>6. OnePlace'
    BY <1>1, <1>2, <1>3, <1>4, NoWorkType DEF PlaceInv, OnePlace, Listed, Called
<1>7. owner[p] \in {"none", "new", "leb", "blank", "corr"}
    BY DEF PlaceInv, CtlInv, TypeOK
<1> QED
    BY <1>5, <1>6, <1>7 DEF InUse, Owned, Lost

\* Putting an eraseblock that is in a tree hands it to the erasure, or, without memory, puts it
\* into the used tree.
LEMMA PutPlace ==
  ASSUME PlaceInv, ~ro_mode, ~ro_mode', CtlInv', Called, work = NoWork,
         NEW p \in PEB, NEW t \in BOOLEAN, PutPeb(p, t),
         owner' = [owner EXCEPT ![p] = "none"]
  PROVE  OnePlace' /\ work'.k = "erase"
<1>1. Listed(p)
    BY DEF PutPeb
<1>2. /\ used' = used \ {p} /\ scrub' = scrub \ {p} /\ DOMAIN prot' = DOMAIN prot \ {p}
      /\ free' = free /\ work' = EraseWork(p, t)
    BY <1>1, UnprotectFacts DEF PutPeb, Schedule
<1>3. Hands = {} /\ Hands' = {p} /\ work'.k = "erase"
    BY <1>2, NoWorkType, EraseType, HandsAre DEF PlaceInv, HandsOf
<1>4. Waiting = {} /\ Waiting' = {}
    BY DEF Waiting, Called
<1>5. InUse' = InUse \ {p}
    BY DEF InUse, Owned, Lost, PlaceInv, CtlInv, TypeOK
<1>6. OnePlace'
    BY <1>1, <1>2, <1>3, <1>4, <1>5, NoWorkType DEF PlaceInv, OnePlace, Listed, Called
<1> QED
    BY <1>3, <1>6

LEMMA PutNoMemoryPlace ==
  ASSUME PlaceInv, ~ro_mode, ro_mode' = ro_mode, Called, work = NoWork,
         NEW p \in PEB, PutNoMemory(p), InUse' \subseteq InUse
  PROVE  OnePlace' /\ work' = NoWork
<1>1. /\ used' = used \cup {p} /\ scrub' = scrub \ {p} /\ DOMAIN prot' = DOMAIN prot \ {p}
      /\ free' = free /\ work' = NoWork /\ Listed(p)
    BY UnprotectFacts DEF PutNoMemory, works
<1>2. Hands = {} /\ Hands' = {}
    BY <1>1, NoWorkType, HandsAre DEF PlaceInv, HandsOf, Hands
<1>3. Waiting = {} /\ Waiting' = {}
    BY DEF Waiting, Called
<1>4. OnePlace'
    BY <1>1, <1>2, <1>3, NoWorkType DEF PlaceInv, OnePlace, Listed, Called
<1> QED
    BY <1>1, <1>4

\* Every call of the EBA unit leaves each eraseblock in one place.
LEMMA EbaPlace ==
  ASSUME PlaceInv, CtlInv', ~ro_mode, ~ro_mode', Eba
  PROVE  OnePlace' /\ OpOwns'
<1>0. /\ owner \in [PEB -> {"none", "new", "leb", "blank", "corr"}]
      /\ op.k \in {"none", "write", "change"}
      /\ op.k # "none" => op.pnum \in PEB /\ owner[op.pnum] = "new"
      /\ op.k = "change" => op.old \in PEB /\ owner[op.old] = "leb"
    BY DEF PlaceInv, CtlInv, TypeOK, ControlOK, OpOwns
<1>n. NoOp.k = "none" /\ NoWork.k = "none"
    BY NoWorkType DEF NoOp
<1>1. ASSUME NEW d \in DataTypes, WriteLeb(d) \/ \E old \in PEB : ChangeLeb(old, d)
      PROVE  OnePlace' /\ OpOwns'
  <2>1. PICK p \in PEB :
          /\ GetPeb(d, p)
          /\ op'.pnum = p /\ op'.k \in {"write", "change"}
          /\ op'.k = "change" => op'.old \in Leb
      BY <1>1 DEF WriteLeb, ChangeLeb
  <2>2. Called /\ work = NoWork /\ work' = work /\ ro_mode' = ro_mode
      BY <1>1 DEF WriteLeb, ChangeLeb, Call, Ready, Called, attach, works, reserve
  <2>3. OnePlace' /\ owner[p] = "none"
      BY <2>1, <2>2, GetPlace
  <2>4. owner' = [owner EXCEPT ![p] = "new"]
      BY <2>1 DEF GetPeb
  <2>5. owner'[op'.pnum] = "new" /\ (op'.k = "change" => owner'[op'.old] = "leb")
      BY <1>0, <2>1, <2>3, <2>4 DEF Leb
  <2>6. OpOwns'
      BY <1>n, <2>2, <2>5 DEF OpOwns
  <2> QED
      BY <2>3, <2>6
<1>2. CASE ChangePut
  <2>1. /\ op.k = "change" /\ work = NoWork /\ Called
      BY <1>2, <1>n DEF ChangePut, Called, attach, reserve, PlaceInv, CtlInv, ControlOK
  <2>2. CASE PutPeb(op.old, TRUE) /\ owner' = [owner EXCEPT ![op.old] = "none"]
             /\ op' = [op EXCEPT !.k = "write"]
    <3>1. OnePlace' /\ work'.k = "erase"
        BY <1>0, <2>1, <2>2, PutPlace
    <3>2. op'.k = "write" /\ op'.pnum = op.pnum
        BY <2>2 DEF PlaceInv, CtlInv, TypeOK
    <3>3. owner'[op.pnum] = "new"
        BY <1>0, <2>1, <2>2
    <3> QED
        BY <3>1, <3>2, <3>3 DEF OpOwns
  <2>3. CASE PutNoMemory(op.old) /\ owner' = [owner EXCEPT ![op.pnum] = "none"]
             /\ op' = NoOp /\ ro_mode' = ro_mode
    <3>1. InUse' \subseteq InUse
        BY <1>0, <2>3 DEF InUse, Owned, Lost
    <3>2. OnePlace' /\ work' = NoWork
        BY <1>0, <2>1, <2>3, <3>1, PutNoMemoryPlace
    <3> QED
        BY <1>n, <2>3, <3>2 DEF OpOwns
  <2> QED
      BY <1>2, <2>2, <2>3 DEF ChangePut
<1>3. CASE WriteDone
  <2>1. /\ op.k = "write" /\ work = NoWork /\ work' = work /\ op' = NoOp
        /\ owner' = [owner EXCEPT ![op.pnum] = "leb"]
        /\ UNCHANGED <<run, todo, attached, free, used, scrub, prot, bad, ro_mode>>
      BY <1>3 DEF WriteDone, attach, trees, works, reserve
  <2>2. InUse' = InUse /\ Waiting' = Waiting /\ Hands' = Hands
      BY <1>0, <2>1 DEF InUse, Owned, Lost, Waiting, Hands
  <2>3. OnePlace'
      BY <2>1, <2>2 DEF PlaceInv, OnePlace, Listed
  <2> QED
      BY <1>n, <2>1, <2>3 DEF OpOwns
<1>4. CASE WriteFailed
  <2>1. /\ op.k # "none" /\ work = NoWork /\ op' = NoOp /\ PutPeb(op.pnum, TRUE)
        /\ owner' = [owner EXCEPT ![op.pnum] = "none"]
      BY <1>4 DEF WriteFailed
  <2>2. Called
      BY <1>4, <1>n, <2>1 DEF WriteFailed, Called, attach, reserve, PlaceInv, CtlInv, ControlOK
  <2>3. OnePlace' /\ work'.k = "erase"
      BY <1>0, <2>1, <2>2, PutPlace
  <2> QED
      BY <1>n, <2>1, <2>3 DEF OpOwns
<1>5. ASSUME NEW p \in PEB, UnmapLeb(p)
      PROVE  OnePlace' /\ OpOwns'
  <2>1. /\ work = NoWork /\ op' = NoOp /\ Called /\ owner' = [owner EXCEPT ![p] = "none"]
        /\ PutPeb(p, FALSE) \/ (PutNoMemory(p) /\ ro_mode' = ro_mode)
      BY <1>5 DEF UnmapLeb, Call, Ready, Called, attach, reserve
  <2>2. InUse' \subseteq InUse
      BY <1>0, <2>1 DEF InUse, Owned, Lost
  <2>3. OnePlace' /\ work'.k # "copy"
      BY <1>n, <2>1, <2>2, PutPlace, PutNoMemoryPlace
  <2> QED
      BY <1>n, <2>1, <2>3 DEF OpOwns
<1>6. ASSUME NEW p \in PEB, ScrubPeb(p)
      PROVE  OnePlace' /\ OpOwns'
  <2>1. /\ Listed(p) /\ used' = used \ {p} /\ Unprotect(p) /\ scrub' = scrub \cup {p}
        /\ attached /\ work = NoWork /\ op = NoOp /\ EnsureWearLeveling
        /\ UNCHANGED <<run, todo, attached, free, bad, owner, op>>
      BY <1>6 DEF ScrubPeb, Call, Ready, attach, reserve
  <2>2. DOMAIN prot' = DOMAIN prot \ {p}
      BY <2>1, UnprotectFacts
  <2>3. work'.k \in {"none", "wl"}
      BY <2>1, EnsureType, NoWorkType, WlType DEF PlaceInv, CtlInv
  <2>4. Hands = {} /\ Hands' = {}
      BY <1>n, <2>1, <2>3, HandsAre DEF PlaceInv, HandsOf
  <2>5. Waiting = {} /\ Waiting' = {} /\ InUse' = InUse /\ attached'
      BY <2>1 DEF Waiting, InUse, Owned, Lost
  <2>6. OnePlace'
      BY <1>n, <2>1, <2>2, <2>4, <2>5 DEF PlaceInv, OnePlace, Listed
  <2> QED
      BY <1>n, <2>1, <2>3, <2>6 DEF OpOwns
<1> QED
    BY <1>1, <1>2, <1>3, <1>4, <1>5, <1>6 DEF Eba

LEMMA InitPlace == Init => PlaceInv
<1> SUFFICES ASSUME Init PROVE OnePlace /\ OpOwns
    BY InitCtl DEF PlaceInv
<1>1. Hands = {} /\ NoWork.k = "none"
    BY InitCtl, HandsAre, NoWorkType DEF Init, HandsOf
<1>2. run.used \subseteq PEB /\ run.scrub \subseteq PEB /\ run.erase \subseteq PEB
    BY RunType DEF Init
<1>3. OnePlace
    BY <1>1, <1>2 DEF Init, OnePlace, Waiting
<1> QED
    BY <1>1, <1>3 DEF Init, OpOwns, NoOp

LEMMA NextPlace == PlaceInv /\ [Next]_vars => PlaceInv'
<1> SUFFICES ASSUME PlaceInv, [Next]_vars PROVE PlaceInv'
    OBVIOUS
<1>1. CtlInv'
    BY NextCtl DEF PlaceInv
<1>2. CASE ro_mode'
    BY <1>1, <1>2 DEF PlaceInv, OnePlace, OpOwns
<1>3. CASE ~ro_mode'
  <2>1. ~ro_mode
      BY <1>3, ReadOnlyStays
  <2>2. CASE Work
    <3>1. ~EraseRefused /\ ~MoveNotErased
        BY <1>3 DEF EraseRefused, MoveNotErased
    <3> QED
        BY <1>1, <1>3, <2>2, <3>1, ErasePlace, EraseFailedPlace, MovePlace DEF Work, PlaceInv
  <2>3. CASE AttachEnd \/ \E p \in PEB : AttachErase(p)
      BY <1>1, <2>1, <2>3, AttachPlace DEF PlaceInv
  <2>4. CASE Eba
      BY <1>1, <1>3, <2>1, <2>4, EbaPlace DEF PlaceInv
  <2>5. CASE UNCHANGED vars
    <3>1. UNCHANGED <<run, todo, attached, free, used, scrub, prot, bad, work, owner, op, ro_mode>>
        BY <2>5 DEF vars, attach, trees, works, reserve
    <3>2. OnePlace' /\ OpOwns'
        BY <3>1 DEF PlaceInv, OnePlace, OpOwns, Waiting, Hands, InUse, Owned, Lost, Listed
    <3> QED
        BY <1>1, <3>2 DEF PlaceInv
  <2> QED
      BY <2>2, <2>3, <2>4, <2>5 DEF Next
<1> QED
    BY <1>2, <1>3

\* OnePlace: however erasures, moves, calls and errors follow each other, no eraseblock of a
\* writable device is lost or listed twice, so that ubi_wl_put_peb and ubi_wl_scrub_peb find
\* every eraseblock the EBA unit uses.
THEOREM NoneLost == Spec => []OnePlace
<1>1. PlaceInv => OnePlace
    BY DEF PlaceInv
<1> QED
    BY <1>1, InitPlace, NextPlace, PTL DEF Spec

-----------------------------------------------------------------------------
(* The used trees hold what the EBA unit has got.                           *)

\* The scenario of a behaviour never changes.
LEMMA RunStays == [Next]_vars => run' = run
  BY DEF Next, Work, Erase, EraseRefused, EraseFailed, MoveCancelled, MoveBegin, MoveNoMemory,
         Moved, NotMoved, MoveNotErased, MoveProtects, MoveFailed, AttachErase, AttachEnd, Eba,
         WriteLeb, ChangeLeb, ChangePut, WriteDone, WriteFailed, UnmapLeb, ScrubPeb, vars

\* The eraseblocks are finitely many, and so are those of any set of them.
LEMMA FinitePebs ==
  /\ IsFiniteSet(PEB) /\ Cardinality(PEB) = N
  /\ \A S \in SUBSET PEB : IsFiniteSet(S) /\ Cardinality(S) \in Nat
<1>1. N \in Nat
    BY BoundsAssumption
<1>2. IsFiniteSet(PEB) /\ Cardinality(PEB) = N
    BY <1>1, FS_Interval DEF PEB
<1>3. ASSUME NEW S \in SUBSET PEB
      PROVE  IsFiniteSet(S) /\ Cardinality(S) \in Nat
    BY <1>2, FS_Subset, FS_CardinalityType
<1> QED
    BY <1>2, <1>3

\* One more element.
LEMMA OneMore ==
  ASSUME NEW S, IsFiniteSet(S), NEW x
  PROVE  /\ IsFiniteSet(S \cup {x}) /\ Cardinality(S) \in Nat /\ Cardinality(S \cup {x}) \in Nat
         /\ Cardinality(S \cup {x}) <= Cardinality(S) + 1
<1>1. Cardinality(S) \in Nat
    BY FS_CardinalityType
<1>2. /\ IsFiniteSet(S \cup {x})
      /\ Cardinality(S \cup {x}) = IF x \in S THEN Cardinality(S) ELSE Cardinality(S) + 1
    BY FS_AddElement
<1>3. CASE x \in S
    BY <1>1, <1>2, <1>3
<1>4. CASE x \notin S
    BY <1>1, <1>2, <1>4
<1> QED
    BY <1>3, <1>4

\* Eraseblocks are lost one at a time, each at the cost of a fault.
LEMMA LostStep ==
  ASSUME CtlInv, faults \in Nat, [Next]_vars
  PROVE  /\ faults' \in {faults, faults + 1}
         /\ \/ Lost' \subseteq Lost
            \/ /\ "readback" \in run.faults /\ faults' = faults + 1
               /\ Lost' \subseteq Lost \cup {work.e2}
<1>0. owner \in [PEB -> {"none", "new", "leb", "blank", "corr"}]
    BY DEF CtlInv, TypeOK
<1>1. CASE MoveProtects
    BY <1>0, <1>1 DEF MoveProtects, Fault, Lost
<1>2. CASE Erase \/ AttachEnd \/ \E p \in PEB : ScrubPeb(p)
  <2>1. faults' \in {faults, faults + 1}
      BY <1>2 DEF Erase, AttachEnd, ScrubPeb, EnsureWearLeveling, Fault
  <2>2. owner' = owner
      BY <1>2 DEF Erase, AttachEnd, ScrubPeb
  <2> QED
      BY <2>1, <2>2 DEF Lost
<1>3. CASE \/ EraseRefused \/ EraseFailed \/ MoveCancelled \/ MoveBegin \/ MoveNoMemory
           \/ MoveFailed \/ NotMoved
  <2>1. faults' \in {faults, faults + 1} /\ owner' = owner
      BY <1>3 DEF EraseRefused, EraseFailed, MoveCancelled, MoveBegin, MoveNoMemory, MoveFailed,
                  NotMoved, Fault
  <2> QED
      BY <2>1 DEF Lost
<1>4. CASE Moved \/ MoveNotErased
  <2>1. /\ faults' \in {faults, faults + 1}
        /\ \/ owner' = owner
           \/ owner' = [owner EXCEPT ![work.e1] = "none", ![work.e2] = "leb"]
      BY <1>4 DEF Moved, MoveNotErased, Fault
  <2> QED
      BY <1>0, <2>1 DEF Lost
<1>5. CASE \E p \in PEB : AttachErase(p)
    BY <1>5 DEF AttachErase, Lost
<1>6. CASE \E d \in DataTypes : WriteLeb(d) \/ \E old \in PEB : ChangeLeb(old, d)
  <2>1. faults' = faults /\ \E p \in PEB : owner' = [owner EXCEPT ![p] = "new"]
      BY <1>6 DEF WriteLeb, ChangeLeb, GetPeb
  <2> QED
      BY <1>0, <2>1 DEF Lost
<1>7. CASE ChangePut \/ WriteDone \/ WriteFailed \/ \E p \in PEB : UnmapLeb(p)
  <2>1. /\ faults' \in {faults, faults + 1}
        /\ \E p, w : w \in {"none", "leb"} /\ owner' = [owner EXCEPT ![p] = w]
      BY <1>7 DEF ChangePut, WriteDone, WriteFailed, UnmapLeb, PutPeb, PutNoMemory, Fault
  <2> QED
      BY <1>0, <2>1 DEF Lost
<1>8. CASE UNCHANGED vars
    BY <1>8 DEF vars, Lost
<1> QED
    BY <1>1, <1>2, <1>3, <1>4, <1>5, <1>6, <1>7, <1>8 DEF Next, Work, Eba

\* No more are lost than there were faults, and none where headers can always be read back.
LostCounted ==
  /\ faults \in Nat
  /\ Cardinality(Lost) <= IF "readback" \in run.faults THEN faults ELSE 0

LEMMA NextLost == CtlInv /\ LostCounted /\ [Next]_vars => LostCounted'
<1> SUFFICES ASSUME CtlInv, LostCounted, [Next]_vars PROVE LostCounted'
    OBVIOUS
<1>1. run' = run /\ faults \in Nat /\ faults' \in {faults, faults + 1}
    BY RunStays, LostStep DEF LostCounted
<1>2. /\ IsFiniteSet(Lost) /\ Cardinality(Lost) \in Nat
      /\ IsFiniteSet(Lost') /\ Cardinality(Lost') \in Nat
    BY FinitePebs DEF Lost
<1>3. CASE Lost' \subseteq Lost
  <2>1. Cardinality(Lost') <= Cardinality(Lost)
      BY <1>2, <1>3, FS_Subset
  <2> QED
      BY <1>1, <1>2, <2>1 DEF LostCounted
<1>4. CASE /\ "readback" \in run.faults /\ faults' = faults + 1 /\ Lost' \subseteq Lost \cup {work.e2}
  <2>1. /\ IsFiniteSet(Lost \cup {work.e2}) /\ Cardinality(Lost \cup {work.e2}) \in Nat
        /\ Cardinality(Lost \cup {work.e2}) <= Cardinality(Lost) + 1
      BY <1>2, OneMore
  <2>2. Cardinality(Lost') <= Cardinality(Lost \cup {work.e2})
      BY <1>4, <2>1, FS_Subset
  <2> QED
      BY <1>1, <1>2, <1>4, <2>1, <2>2 DEF LostCounted
<1> QED
    BY <1>1, <1>3, <1>4, LostStep

LEMMA NoneLostYet == LostCounted => NoLost
<1> SUFFICES ASSUME LostCounted, "readback" \notin run.faults PROVE Lost = {}
    BY DEF NoLost
<1>1. IsFiniteSet(Lost) /\ Cardinality(Lost) \in Nat
    BY FinitePebs DEF Lost
<1>2. Cardinality(Lost) = 0
    BY <1>1 DEF LostCounted
<1> QED
    BY <1>1, <1>2, FS_EmptySet

\* What is lost stays lost: while the device is writable nobody gives it back.
LEMMA LostStays ==
  ASSUME PlaceInv, ~ro_mode, [Next]_vars
  PROVE  Lost \subseteq Lost'
<1> SUFFICES ASSUME NEW p \in Lost PROVE p \in Lost'
    OBVIOUS
<1>0. /\ owner \in [PEB -> {"none", "new", "leb", "blank", "corr"}]
      /\ p \in PEB /\ owner[p] \in {"blank", "corr"}
      /\ op.k # "none" => op.pnum # p
      /\ op.k = "change" => op.old # p
    BY DEF PlaceInv, OpOwns, CtlInv, TypeOK, Lost
<1>a. /\ attached => p \notin free
      /\ attached /\ work.k = "copy" => p # work.e2
    BY <1>0, HandsAre DEF PlaceInv, OnePlace, OpOwns, Listed, InUse, HandsOf
<1>1. CASE MoveProtects \/ Moved \/ MoveNotErased
  <2>1. /\ work.k = "copy"
        /\ \/ owner' = owner
           \/ /\ owner[work.e1] = "leb"
              /\ owner' = [owner EXCEPT ![work.e1] = "none", ![work.e2] = "leb"]
           \/ \E left \in {"blank", "corr"} : owner' = [owner EXCEPT ![work.e2] = left]
      BY <1>0, <1>1 DEF MoveProtects, Moved, MoveNotErased, Copying
  <2>2. p # work.e2
      BY <1>a, <2>1 DEF PlaceInv, CtlInv, ControlOK
  <2> QED
      BY <1>0, <2>1, <2>2 DEF Lost
<1>2. CASE \/ Erase \/ AttachEnd \/ EraseRefused \/ EraseFailed \/ MoveCancelled \/ MoveBegin
           \/ MoveNoMemory \/ MoveFailed \/ NotMoved \/ \E q \in PEB : ScrubPeb(q) \/ AttachErase(q)
    BY <1>0, <1>2 DEF Erase, AttachEnd, EraseRefused, EraseFailed, MoveCancelled, MoveBegin,
                 MoveNoMemory, MoveFailed, NotMoved, ScrubPeb, AttachErase, Lost
<1>3. CASE \E d \in DataTypes : WriteLeb(d) \/ \E old \in PEB : ChangeLeb(old, d)
  <2>1. PICK q \in PEB : owner' = [owner EXCEPT ![q] = "new"] /\ q \in free /\ attached
      BY <1>3 DEF WriteLeb, ChangeLeb, GetPeb, Call, Ready
  <2> QED
      BY <1>0, <1>a, <2>1 DEF Lost
<1>4. CASE ChangePut \/ WriteDone \/ WriteFailed \/ \E q \in PEB : UnmapLeb(q)
  <2>1. PICK q, w : owner' = [owner EXCEPT ![q] = w] /\ q # p
    <3>1. CASE ChangePut
        BY <1>0, <3>1 DEF ChangePut
    <3>2. CASE WriteDone \/ WriteFailed
        BY <1>0, <3>2 DEF WriteDone, WriteFailed
    <3>3. CASE \E q \in PEB : UnmapLeb(q)
        BY <1>0, <3>3 DEF UnmapLeb, Leb
    <3> QED
        BY <1>4, <3>1, <3>2, <3>3
  <2> QED
      BY <1>0, <2>1 DEF Lost
<1>5. CASE UNCHANGED vars
    BY <1>0, <1>5 DEF vars, Lost
<1> QED
    BY <1>1, <1>2, <1>3, <1>4, <1>5 DEF Next, Work, Eba

\* The invariant behind UsedIsOwned.
OwnInv == PlaceInv /\ LostCounted /\ MoveOwned /\ UsedIsOwned

\* One step of a device that is attached, writable, and meets no lack of memory.
LEMMA OwnStep ==
  ASSUME OwnInv, PlaceInv', Next, ~ro_mode, ~ro_mode', "nomem" \notin run.faults
  PROVE  /\ work'.k = "copy" => work'.e1 \in InUse'
         /\ attached' => used' \cup scrub' \cup DOMAIN prot' \subseteq InUse'
<1> DEFINE Goal == /\ work'.k = "copy" => work'.e1 \in InUse'
                   /\ attached' => used' \cup scrub' \cup DOMAIN prot' \subseteq InUse'
<1>0. /\ owner \in [PEB -> {"none", "new", "leb", "blank", "corr"}]
      /\ attached => used \cup scrub \cup DOMAIN prot \subseteq InUse
      /\ work.k = "copy" => work.e1 \in InUse
    BY DEF OwnInv, PlaceInv, CtlInv, TypeOK, UsedIsOwned, MoveOwned
<1>n. NoWork.k = "none" /\ WearLevelling.k = "wl" /\ NoOp.k = "none"
    BY NoWorkType, WlType DEF NoOp
<1>1. CASE Erase
  <2>1. /\ used' = used \cup ProtectionOver
        /\ DOMAIN prot' = DOMAIN prot \ ProtectionOver
        /\ UNCHANGED <<attached, scrub, owner>>
        /\ EnsureWearLeveling
      BY <1>1 DEF Erase, attach
  <2>2. ProtectionOver \subseteq DOMAIN prot /\ InUse' = InUse
      BY <2>1 DEF ProtectionOver, InUse, Owned, Lost
  <2>3. work'.k # "copy"
      BY <1>n, <2>1, EnsureType DEF OwnInv, PlaceInv, CtlInv
  <2> QED
      BY <1>0, <2>1, <2>2, <2>3
<1>2. CASE EraseRefused \/ EraseFailed \/ MoveCancelled \/ MoveNoMemory \/ MoveFailed
  <2>1. UNCHANGED <<attached, used, scrub, prot, owner>> /\ work' = NoWork
      BY <1>2 DEF EraseRefused, EraseFailed, MoveCancelled, MoveNoMemory, MoveFailed, Returned,
                  attach, trees
  <2> QED
      BY <1>0, <1>n, <2>1 DEF InUse, Owned, Lost
<1>3. CASE MoveBegin
  <2>1. PICK e1 \in used \cup scrub, e2 \in free :
          /\ work' = Copy(e1, e2, scrub # {})
          /\ used' = used \ {e1} /\ scrub' = scrub \ {e1}
      BY <1>3 DEF MoveBegin
  <2>2. UNCHANGED <<attached, prot, owner>> /\ work.k = "wl"
      BY <1>3 DEF MoveBegin, Moving, attach
  <2>3. attached /\ e1 \in PEB /\ e2 \in PEB
      BY <2>1, <2>2 DEF OwnInv, PlaceInv, CtlInv, ControlOK, TypeOK
  <2>4. work'.e1 = e1
      BY <2>1, <2>3, CopyType
  <2> QED
      BY <1>0, <2>1, <2>2, <2>3, <2>4 DEF InUse, Owned, Lost
<1>4. Copying => work.e1 \in PEB /\ work.e2 \in PEB /\ attached /\ work.k = "copy"
    BY DEF Copying, OwnInv, PlaceInv, CtlInv, ControlOK
<1>5. CASE Moved
  <2>1. /\ Copying /\ used' = used \cup {work.e2}
        /\ owner' = [owner EXCEPT ![work.e1] = "none", ![work.e2] = "leb"]
        /\ work' = EraseWork(work.e1, FALSE)
        /\ UNCHANGED <<attached, scrub, prot>>
      BY <1>5 DEF Moved, Schedule, attach
  <2>2. InUse' = (InUse \ {work.e1}) \cup {work.e2}
    <3>1. work.e1 # work.e2
        BY <1>4, <2>1 DEF OwnInv, PlaceInv, OpOwns
    <3> QED
        BY <1>0, <1>4, <2>1, <3>1 DEF InUse, Owned, Lost
  <2>3. work.e1 \notin used \cup scrub \cup DOMAIN prot
    <3>1. work.e1 \in Hands
        BY <1>4, <2>1, HandsAre DEF OwnInv, PlaceInv, HandsOf
    <3> QED
        BY <3>1 DEF OwnInv, PlaceInv, OnePlace
  <2>4. work'.k = "erase"
      BY <1>4, <2>1, EraseType
  <2> QED
      BY <1>0, <1>4, <2>1, <2>2, <2>3, <2>4
<1>6. CASE NotMoved
  <2>1. /\ Copying /\ used' \subseteq used \cup {work.e1} /\ scrub' \subseteq scrub \cup {work.e1}
        /\ work' = EraseWork(work.e2, FALSE)
        /\ UNCHANGED <<attached, prot, owner>>
      BY <1>6 DEF NotMoved, Schedule, attach
  <2>2. work'.k = "erase" /\ InUse' = InUse
      BY <1>4, <2>1, EraseType DEF InUse, Owned, Lost
  <2> QED
      BY <1>0, <1>4, <2>1, <2>2
<1>7. CASE MoveProtects
  <2>1. /\ Copying /\ owner[work.e1] = "leb" /\ used' = used \cup {work.e2}
        /\ DOMAIN prot' = DOMAIN prot \cup {work.e1}
        /\ \E left \in {"blank", "corr"} : owner' = [owner EXCEPT ![work.e2] = left]
        /\ work' = NoWork
        /\ UNCHANGED <<attached, scrub>>
      BY <1>7 DEF MoveProtects, Returned, attach
  <2>2. InUse' = InUse \cup {work.e2}
      BY <1>0, <1>4, <2>1 DEF InUse, Owned, Lost
  <2> QED
      BY <1>0, <1>n, <1>4, <2>1, <2>2
<1>8. ASSUME NEW p \in PEB, AttachErase(p)
      PROVE  Goal
  <2>1. ~attached' /\ work'.k = "erase"
      BY <1>8, EraseType DEF AttachErase, Schedule
  <2> QED
      BY <2>1
<1>9. CASE AttachEnd
  <2>1. /\ ~attached /\ used' = run.used /\ scrub' = run.scrub /\ EnsureWearLeveling
        /\ UNCHANGED <<prot, owner>>
      BY <1>9 DEF AttachEnd
  <2>2. DOMAIN prot = {} /\ owner = ScanOwner
      BY <2>1 DEF OwnInv, PlaceInv, CtlInv, ControlOK
  <2>3. run.used \subseteq PEB /\ run.scrub \subseteq PEB
      BY RunType DEF OwnInv, PlaceInv, CtlInv, TypeOK
  <2>4. work'.k # "copy"
      BY <1>n, <2>1, EnsureType DEF OwnInv, PlaceInv, CtlInv
  <2> QED
      BY <2>1, <2>2, <2>3, <2>4 DEF InUse, Owned, Lost, ScanOwner
<1>10. ASSUME NEW d \in DataTypes, WriteLeb(d) \/ \E old \in PEB : ChangeLeb(old, d)
       PROVE  Goal
  <2>1. PICK p \in PEB : GetPeb(d, p)
      BY <1>10 DEF WriteLeb, ChangeLeb
  <2>2. work' = NoWork /\ attached
      BY <1>10 DEF WriteLeb, ChangeLeb, Call, Ready, works
  <2>3. /\ DOMAIN prot' = DOMAIN prot \cup {p} /\ used' = used /\ scrub' = scrub
        /\ owner' = [owner EXCEPT ![p] = "new"]
      BY <2>1, GetCtl DEF OwnInv, PlaceInv, CtlInv
  <2>4. InUse' = InUse \cup {p}
      BY <1>0, <2>3 DEF InUse, Owned, Lost
  <2> QED
      BY <1>0, <1>n, <2>2, <2>3, <2>4
<1>11. ASSUME NEW p \in PEB, NEW t \in BOOLEAN, PutPeb(p, t), attached, work = NoWork,
              owner' = [owner EXCEPT ![p] = "none"]
       PROVE  Goal
  <2>1. Listed(p)
      BY <1>11 DEF PutPeb
  <2>2. /\ used' = used \ {p} /\ scrub' = scrub \ {p} /\ DOMAIN prot' = DOMAIN prot \ {p}
        /\ work' = EraseWork(p, t)
      BY <1>11, <2>1, UnprotectFacts DEF PutPeb, Schedule
  <2>3. work'.k = "erase" /\ InUse' = InUse \ {p}
      BY <1>0, <1>11, <2>2, EraseType DEF InUse, Owned, Lost
  <2> QED
      BY <1>0, <1>11, <2>2, <2>3
<1>12. \A p \in PEB : ~PutNoMemory(p)
    BY <1>0 DEF PutNoMemory, Fault
<1>13. CASE ChangePut
  <2>1. op.k = "change" /\ op.old \in PEB /\ attached /\ work = NoWork
      BY <1>13, <1>n DEF ChangePut, OwnInv, PlaceInv, CtlInv, ControlOK
  <2> QED
      BY <1>11, <1>12, <1>13, <2>1 DEF ChangePut
<1>14. CASE WriteFailed
  <2>1. op.k # "none" /\ op.pnum \in PEB /\ attached /\ work = NoWork
    <3>1. op.k \in {"write", "change"} /\ work = NoWork
        BY <1>14 DEF WriteFailed
    <3> QED
        BY <1>n, <3>1 DEF OwnInv, PlaceInv, CtlInv, ControlOK
  <2> QED
      BY <1>11, <1>14, <2>1 DEF WriteFailed
<1>15. ASSUME NEW p \in PEB, UnmapLeb(p)
       PROVE  Goal
  <2>1. attached /\ work = NoWork /\ owner' = [owner EXCEPT ![p] = "none"]
      BY <1>15 DEF UnmapLeb, Call, Ready
  <2> QED
      BY <1>11, <1>12, <1>15, <2>1 DEF UnmapLeb
<1>16. CASE WriteDone
  <2>1. /\ work' = NoWork /\ owner' = [owner EXCEPT ![op.pnum] = "leb"]
        /\ UNCHANGED <<attached, used, scrub, prot>>
      BY <1>16 DEF WriteDone, attach, trees, works
  <2>2. InUse \subseteq InUse'
      BY <1>0, <2>1 DEF InUse, Owned, Lost
  <2> QED
      BY <1>0, <1>n, <2>1, <2>2
<1>17. ASSUME NEW p \in PEB, ScrubPeb(p)
       PROVE  Goal
  <2>1. /\ Listed(p) /\ used' = used \ {p} /\ Unprotect(p) /\ scrub' = scrub \cup {p}
        /\ attached /\ EnsureWearLeveling /\ owner' = owner
      BY <1>17 DEF ScrubPeb, Call, Ready
  <2>2. DOMAIN prot' = DOMAIN prot \ {p} /\ InUse' = InUse
      BY <2>1, UnprotectFacts DEF InUse, Owned, Lost
  <2>3. work'.k # "copy"
      BY <1>n, <2>1, EnsureType DEF OwnInv, PlaceInv, CtlInv
  <2> QED
      BY <1>0, <2>1, <2>2, <2>3 DEF Listed
<1>18. ~MoveNotErased
    BY DEF MoveNotErased
<1> QED
    BY <1>1, <1>2, <1>3, <1>5, <1>6, <1>7, <1>8, <1>9, <1>10, <1>13, <1>14, <1>15, <1>16, <1>17, <1>18
    DEF Next, Work, Eba

LEMMA NextOwn == OwnInv /\ [Next]_vars => OwnInv'
<1> SUFFICES ASSUME OwnInv, [Next]_vars PROVE OwnInv'
    OBVIOUS
<1>1. PlaceInv' /\ LostCounted' /\ run' = run
    BY NextPlace, NextLost, RunStays DEF OwnInv, PlaceInv
<1>2. CASE ro_mode' \/ "nomem" \in run.faults
    BY <1>1, <1>2 DEF OwnInv, MoveOwned, UsedIsOwned
<1>3. CASE Next /\ ~ro_mode' /\ "nomem" \notin run.faults
  <2>1. ~ro_mode
      BY <1>3, ReadOnlyStays
  <2> QED
      BY <1>1, <1>3, <2>1, OwnStep DEF OwnInv, MoveOwned, UsedIsOwned, LostCounted
<1>4. CASE UNCHANGED vars
  <2>1. UNCHANGED <<run, attached, used, scrub, prot, work, owner, ro_mode>>
      BY <1>4 DEF vars, attach, trees, works
  <2>2. MoveOwned' /\ UsedIsOwned'
      BY <1>1, <2>1 DEF OwnInv, MoveOwned, UsedIsOwned, InUse, Owned, Lost, LostCounted
  <2> QED
      BY <1>1, <2>2 DEF OwnInv
<1> QED
    BY <1>2, <1>3, <1>4

LEMMA InitOwn == Init => OwnInv
<1> SUFFICES ASSUME Init PROVE OwnInv
    OBVIOUS
<1>1. work.k = "none" /\ ~attached
    BY NoWorkType DEF Init
<1>2. LostCounted
  <2>1. Lost = {} /\ faults = 0
      BY DEF Init, Lost
  <2> QED
      BY <2>1, FS_EmptySet DEF LostCounted
<1> QED
    BY <1>1, <1>2, InitPlace DEF OwnInv, MoveOwned, UsedIsOwned

\* UsedIsOwned: unless memory ran out, nothing that the EBA unit does not use stays in the used, scrub
\* and protection trees, where it could never be got again, but for one eraseblock for each header
\* that could not be read back.
THEOREM NoneLeaked == Spec => []UsedIsOwned
<1>1. OwnInv => UsedIsOwned
    BY DEF OwnInv
<1> QED
    BY <1>1, InitOwn, NextOwn, PTL DEF Spec

-----------------------------------------------------------------------------
(* The reserves suffice.                                                    *)

\* What setting the owner of one eraseblock does to the LEBs.
LEMMA LebUpdate ==
  ASSUME TypeOK, NEW p \in PEB, NEW w \in {"none", "new", "leb", "blank", "corr"},
         owner' = [owner EXCEPT ![p] = w]
  PROVE  /\ Leb' = IF w = "leb" THEN Leb \cup {p} ELSE Leb \ {p}
         /\ w # "leb" => Cardinality(Leb') <= Cardinality(Leb)
         /\ w # "leb" /\ owner[p] = "leb" => Cardinality(Leb') < Cardinality(Leb)
         /\ w = "leb" => Cardinality(Leb') <= Cardinality(Leb) + 1
         /\ Cardinality(Leb) \in Nat /\ Cardinality(Leb') \in Nat
<1>1. Leb' = IF w = "leb" THEN Leb \cup {p} ELSE Leb \ {p}
    BY DEF Leb, TypeOK
<1>2. IsFiniteSet(Leb) /\ Cardinality(Leb) \in Nat /\ (owner[p] = "leb" <=> p \in Leb)
    BY FinitePebs DEF Leb
<1>3. CASE w = "leb"
    BY <1>1, <1>2, <1>3, FS_AddElement
<1>4. CASE w # "leb"
  <2>1. Cardinality(Leb') = IF p \in Leb THEN Cardinality(Leb) - 1 ELSE Cardinality(Leb)
      BY <1>1, <1>2, <1>4, FS_RemoveElement
  <2>2. Cardinality(Leb') \in Nat
      BY FinitePebs DEF Leb
  <2> QED
      BY <1>1, <1>2, <1>4, <2>1, <2>2
<1> QED
    BY <1>3, <1>4

LEMMA VolPebsType == run \in Scenarios => VolPebs(run) \in Int
  BY RunType, BoundsAssumption DEF VolPebs, WL_RESERVED_PEBS, EBA_RESERVED_PEBS

\* A bad eraseblock is paid for with one of the reserve.
LEMMA BadPaid ==
  ASSUME PlaceInv, Reserved, EraseFailed, ~ro_mode, ~ro_mode'
  PROVE  Cardinality(bad') + avail_pebs' + beb_rsvd_pebs' = run.avail + run.beb
<1>1. /\ avail_pebs \in Nat /\ beb_rsvd_pebs \in Nat /\ bad \subseteq PEB
      /\ work.k = "erase" /\ work.e1 \in PEB
      /\ Cardinality(bad) + avail_pebs + beb_rsvd_pebs = run.avail + run.beb
    BY DEF PlaceInv, CtlInv, ControlOK, TypeOK, Reserved, EraseFailed, Erasing
<1>2. More \in Nat
    BY <1>1, BoundsAssumption DEF More
<1>3. /\ avail_pebs' = avail_pebs - More
      /\ beb_rsvd_pebs' = beb_rsvd_pebs + More - 1
      /\ bad' = bad \cup {work.e1}
    BY DEF EraseFailed
<1>4. work.e1 \notin bad
    BY <1>1, HandsAre DEF PlaceInv, OnePlace, HandsOf
<1>5. Cardinality(bad') = Cardinality(bad) + 1 /\ Cardinality(bad) \in Nat
    BY <1>1, <1>3, <1>4, FinitePebs, FS_AddElement
<1> QED
    BY <1>1, <1>2, <1>3, <1>5

\* The part of Reserved about the eraseblocks of the EBA unit.
LebsReserved ==
  /\ Cardinality(Leb) <= VolPebs(run)
  /\ op.k = "write" => Cardinality(Leb) < VolPebs(run)
  /\ \A p \in PEB : owner[p] = "new" => op.k # "none" /\ p = op.pnum

LEMMA ReservedStep ==
  ASSUME PlaceInv, Reserved, Next, ~ro_mode, ~ro_mode'
  PROVE  Reserved'
<1>0. /\ LebsReserved
      /\ Cardinality(bad) + avail_pebs + beb_rsvd_pebs = run.avail + run.beb
    BY DEF Reserved, LebsReserved
<1>t. /\ TypeOK /\ owner \in [PEB -> {"none", "new", "leb", "blank", "corr"}] /\ run' = run
      /\ VolPebs(run)' = VolPebs(run) /\ VolPebs(run) \in Int
      /\ Cardinality(Leb) \in Nat
    BY RunStays, VolPebsType, FinitePebs DEF PlaceInv, CtlInv, TypeOK, Leb
<1>n. NoOp.k = "none"
    BY DEF NoOp
<1>a. ASSUME LebsReserved', UNCHANGED <<bad, avail_pebs, beb_rsvd_pebs>>
      PROVE  Reserved'
    BY <1>0, <1>t, <1>a DEF Reserved, LebsReserved
<1>b. ASSUME UNCHANGED <<owner, op>>
      PROVE  LebsReserved'
    BY <1>0, <1>t, <1>b DEF LebsReserved, Leb
<1>1. CASE \/ Erase \/ EraseRefused \/ MoveCancelled \/ MoveBegin \/ MoveNoMemory \/ NotMoved
           \/ MoveFailed \/ AttachEnd \/ \E p \in PEB : AttachErase(p) \/ ScrubPeb(p)
  <2>1. UNCHANGED <<owner, op, bad, avail_pebs, beb_rsvd_pebs>>
      BY <1>1 DEF Erase, EraseRefused, MoveCancelled, MoveBegin, MoveNoMemory, NotMoved,
                  MoveFailed, AttachEnd, AttachErase, ScrubPeb, reserve
  <2> QED
      BY <1>a, <1>b, <2>1
<1>2. CASE EraseFailed
  <2>1. UNCHANGED <<owner, op>>
      BY <1>2 DEF EraseFailed
  <2>2. LebsReserved'
      BY <1>b, <2>1
  <2> QED
      BY <1>2, <1>t, <2>2, BadPaid DEF Reserved, LebsReserved
<1>3. CASE Moved
  <2>1. /\ work.k = "copy" /\ work.e1 \in PEB /\ work.e2 \in PEB /\ owner[work.e1] = "leb"
        /\ owner' = [owner EXCEPT ![work.e1] = "none", ![work.e2] = "leb"]
        /\ UNCHANGED <<op, bad, avail_pebs, beb_rsvd_pebs>>
      BY <1>3 DEF Moved, Copying, reserve, PlaceInv, CtlInv, ControlOK
  <2>2. work.e1 # work.e2
      BY <2>1 DEF PlaceInv, OpOwns
  <2>3. Leb' = (Leb \ {work.e1}) \cup {work.e2} /\ work.e1 \in Leb
      BY <1>t, <2>1, <2>2 DEF Leb
  <2>4. IsFiniteSet(Leb) /\ IsFiniteSet(Leb \ {work.e1})
      BY FinitePebs DEF Leb
  <2>5. Cardinality(Leb \ {work.e1}) = Cardinality(Leb) - 1
      BY <2>3, <2>4, FS_RemoveElement
  <2>6. Cardinality(Leb') <= Cardinality(Leb) /\ Cardinality(Leb') \in Nat
    <3>1. /\ Cardinality((Leb \ {work.e1}) \cup {work.e2}) \in Nat
          /\ Cardinality((Leb \ {work.e1}) \cup {work.e2}) <= Cardinality(Leb) - 1 + 1
        BY <2>4, <2>5, OneMore
    <3> QED
        BY <1>t, <2>3, <3>1
  <2>7. \A p \in PEB : owner'[p] = "new" => owner[p] = "new"
      BY <1>t, <2>1
  <2>8. LebsReserved'
      BY <1>0, <1>t, <2>1, <2>6, <2>7 DEF LebsReserved
  <2> QED
      BY <1>a, <2>1, <2>8
<1>4. ASSUME NEW d \in DataTypes, WriteLeb(d) \/ \E old \in PEB : ChangeLeb(old, d)
      PROVE  Reserved'
  <2> DEFINE Got(p) == /\ GetPeb(d, p) /\ op'.k \in {"write", "change"} /\ op'.pnum = p
                       /\ op'.k = "write" => Cardinality(Leb) < VolPebs(run)
  <2>w. ASSUME WriteLeb(d)
        PROVE  \E p \in PEB : Got(p)
    <3>1. PICK p \in PEB : GetPeb(d, p) /\ op' = [k |-> "write", pnum |-> p, old |-> NoPeb]
        BY <2>w DEF WriteLeb
    <3>2. op'.k = "write" /\ op'.pnum = p
        BY <3>1
    <3>3. Cardinality(Leb) < VolPebs(run)
        BY <2>w DEF WriteLeb
    <3> QED
        BY <3>1, <3>2, <3>3
  <2>c. ASSUME NEW old \in PEB, ChangeLeb(old, d)
        PROVE  \E p \in PEB : Got(p)
    <3>1. PICK p \in PEB : GetPeb(d, p) /\ op' = [k |-> "change", pnum |-> p, old |-> old]
        BY <2>c DEF ChangeLeb
    <3>2. op'.k = "change" /\ op'.pnum = p
        BY <3>1
    <3> QED
        BY <3>1, <3>2
  <2>1. PICK p \in PEB : Got(p)
      BY <1>4, <2>c, <2>w
  <2>2. op.k = "none" /\ UNCHANGED <<bad, avail_pebs, beb_rsvd_pebs>>
      BY <1>4, <1>n DEF WriteLeb, ChangeLeb, Call, Ready, reserve
  <2>3. owner' = [owner EXCEPT ![p] = "new"]
      BY <2>1 DEF GetPeb
  <2>4. Cardinality(Leb') <= Cardinality(Leb) /\ Cardinality(Leb') \in Nat
      BY <1>t, <2>3, LebUpdate
  <2>5. \A q \in PEB : owner'[q] = "new" => q = p
      BY <1>0, <1>t, <2>2, <2>3 DEF LebsReserved
  <2>6. LebsReserved'
      BY <1>0, <1>t, <2>1, <2>4, <2>5 DEF LebsReserved
  <2> QED
      BY <1>a, <2>2, <2>6
<1>5. CASE ChangePut
  <2>1. /\ op.k = "change" /\ op.old \in PEB /\ op.pnum \in PEB /\ owner[op.old] = "leb"
        /\ UNCHANGED <<bad, avail_pebs, beb_rsvd_pebs>>
      BY <1>5 DEF ChangePut, reserve, PlaceInv, CtlInv, ControlOK, OpOwns
  <2>2. CASE owner' = [owner EXCEPT ![op.old] = "none"] /\ op' = [op EXCEPT !.k = "write"]
    <3>1. op'.pnum = op.pnum /\ op'.k = "write"
        BY <1>t, <2>2 DEF TypeOK
    <3>2. Cardinality(Leb') < Cardinality(Leb) /\ Cardinality(Leb') \in Nat
        BY <1>t, <2>1, <2>2, LebUpdate
    <3>3. \A q \in PEB : owner'[q] = "new" => owner[q] = "new"
        BY <1>t, <2>2
    <3>4. LebsReserved'
        BY <1>0, <1>t, <3>1, <3>2, <3>3 DEF LebsReserved
    <3> QED
        BY <1>a, <2>1, <3>4
  <2>3. CASE owner' = [owner EXCEPT ![op.pnum] = "none"] /\ op' = NoOp
    <3>1. Cardinality(Leb') <= Cardinality(Leb) /\ Cardinality(Leb') \in Nat
        BY <1>t, <2>1, <2>3, LebUpdate
    <3>2. \A q \in PEB : owner'[q] # "new"
        BY <1>0, <1>t, <2>1, <2>3 DEF LebsReserved
    <3>3. LebsReserved'
        BY <1>0, <1>n, <1>t, <2>3, <3>1, <3>2 DEF LebsReserved
    <3> QED
        BY <1>a, <2>1, <3>3
  <2> QED
      BY <1>5, <2>2, <2>3 DEF ChangePut
<1>6. CASE WriteDone
  <2>1. /\ op.k = "write" /\ op.pnum \in PEB /\ op' = NoOp
        /\ owner' = [owner EXCEPT ![op.pnum] = "leb"]
        /\ UNCHANGED <<bad, avail_pebs, beb_rsvd_pebs>>
      BY <1>6 DEF WriteDone, reserve, PlaceInv, CtlInv, ControlOK
  <2>2. Cardinality(Leb') <= Cardinality(Leb) + 1 /\ Cardinality(Leb') \in Nat
      BY <1>t, <2>1, LebUpdate
  <2>3. \A q \in PEB : owner'[q] # "new"
      BY <1>0, <1>t, <2>1 DEF LebsReserved
  <2>4. LebsReserved'
      BY <1>0, <1>n, <1>t, <2>1, <2>2, <2>3 DEF LebsReserved
  <2> QED
      BY <1>a, <2>1, <2>4
<1>7. CASE WriteFailed
  <2>1. /\ op.k # "none" /\ op.pnum \in PEB /\ op' = NoOp
        /\ owner' = [owner EXCEPT ![op.pnum] = "none"]
        /\ UNCHANGED <<bad, avail_pebs, beb_rsvd_pebs>>
      BY <1>7 DEF WriteFailed, reserve, PlaceInv, CtlInv, ControlOK
  <2>2. Cardinality(Leb') <= Cardinality(Leb) /\ Cardinality(Leb') \in Nat
      BY <1>t, <2>1, LebUpdate
  <2>3. \A q \in PEB : owner'[q] # "new"
      BY <1>0, <1>t, <2>1 DEF LebsReserved
  <2>4. LebsReserved'
      BY <1>0, <1>n, <1>t, <2>1, <2>2, <2>3 DEF LebsReserved
  <2> QED
      BY <1>a, <2>1, <2>4
<1>8. ASSUME NEW p \in PEB, UnmapLeb(p)
      PROVE  Reserved'
  <2>1. /\ op' = op /\ owner' = [owner EXCEPT ![p] = "none"]
        /\ UNCHANGED <<bad, avail_pebs, beb_rsvd_pebs>>
      BY <1>8 DEF UnmapLeb, reserve
  <2>2. Cardinality(Leb') <= Cardinality(Leb) /\ Cardinality(Leb') \in Nat
      BY <1>t, <2>1, LebUpdate
  <2>3. \A q \in PEB : owner'[q] = "new" => owner[q] = "new"
      BY <1>t, <2>1
  <2>4. LebsReserved'
      BY <1>0, <1>t, <2>1, <2>2, <2>3 DEF LebsReserved
  <2> QED
      BY <1>a, <2>1, <2>4
<1>9. CASE MoveProtects
  <2>1. /\ op' = op /\ work.e2 \in PEB
        /\ UNCHANGED <<bad, avail_pebs, beb_rsvd_pebs>>
      BY <1>9 DEF MoveProtects, Copying, reserve, PlaceInv, CtlInv, ControlOK
  <2>2. PICK left \in {"blank", "corr"} : owner' = [owner EXCEPT ![work.e2] = left]
      BY <1>9 DEF MoveProtects
  <2>3. Cardinality(Leb') <= Cardinality(Leb) /\ Cardinality(Leb') \in Nat
      BY <1>t, <2>1, <2>2, LebUpdate
  <2>4. \A q \in PEB : owner'[q] = "new" => owner[q] = "new"
      BY <1>t, <2>2
  <2>5. LebsReserved'
      BY <1>0, <1>t, <2>1, <2>3, <2>4 DEF LebsReserved
  <2> QED
      BY <1>a, <2>1, <2>5
<1>10. ~MoveNotErased
    BY DEF MoveNotErased
<1> QED
    BY <1>1, <1>2, <1>3, <1>4, <1>5, <1>6, <1>7, <1>8, <1>9, <1>10 DEF Next, Work, Eba

LEMMA InitReserved == Init => Reserved
<1> SUFFICES ASSUME Init PROVE Reserved
    OBVIOUS
<1>1. run \in Scenarios /\ op.k = "none"
    BY DEF Init, NoOp
<1>2. Leb = run.used \cup run.scrub
    BY <1>1, RunType DEF Init, Leb
<1>3. /\ Cardinality(Leb) <= VolPebs(run) /\ run.avail \in Nat /\ run.beb \in Nat
      /\ Cardinality(bad) = 0 /\ avail_pebs = run.avail /\ beb_rsvd_pebs = run.beb
    BY <1>1, <1>2, RunType, FS_EmptySet DEF Init
<1>4. \A p \in PEB : owner[p] # "new"
    BY DEF Init
<1> QED
    BY <1>1, <1>3, <1>4 DEF Reserved

\* The invariant behind FreeRemains.
FreeInv == OwnInv /\ Reserved

LEMMA NextFree == FreeInv /\ [Next]_vars => FreeInv'
<1> SUFFICES ASSUME FreeInv, [Next]_vars PROVE FreeInv'
    OBVIOUS
<1>1. OwnInv'
    BY NextOwn DEF FreeInv
<1>2. CASE ro_mode'
    BY <1>1, <1>2 DEF FreeInv, Reserved
<1>3. CASE Next /\ ~ro_mode'
  <2>1. ~ro_mode
      BY <1>3, ReadOnlyStays
  <2> QED
      BY <1>1, <1>3, <2>1, ReservedStep DEF FreeInv, OwnInv
<1>4. CASE UNCHANGED vars
  <2>1. UNCHANGED <<run, owner, op, ro_mode, bad, avail_pebs, beb_rsvd_pebs>>
      BY <1>4 DEF vars, reserve
  <2> QED
      BY <1>1, <2>1 DEF FreeInv, Reserved, Leb
<1> QED
    BY <1>2, <1>3, <1>4

\* The cardinality of a union.
LEMMA UnionBound ==
  ASSUME NEW A, NEW B, IsFiniteSet(A), IsFiniteSet(B)
  PROVE  /\ IsFiniteSet(A \cup B)
         /\ Cardinality(A) \in Nat /\ Cardinality(B) \in Nat /\ Cardinality(A \cup B) \in Nat
         /\ Cardinality(A \cup B) <= Cardinality(A) + Cardinality(B)
<1>1. /\ IsFiniteSet(A \cup B)
      /\ Cardinality(A \cup B) = Cardinality(A) + Cardinality(B) - Cardinality(A \cap B)
    BY FS_Union
<1>2. IsFiniteSet(A \cap B)
    BY FS_Subset
<1>3. /\ Cardinality(A) \in Nat /\ Cardinality(B) \in Nat
      /\ Cardinality(A \cup B) \in Nat /\ Cardinality(A \cap B) \in Nat
    BY <1>1, <1>2, FS_CardinalityType
<1> QED
    BY <1>1, <1>3

\* Counting: the eraseblocks that are not free are the LEBs, at most one more that is being
\* written, the lost and the bad ones; one of the two reserved for the WL and the EBA unit is left.
LEMMA FreeLeft == FreeInv => FreeRemains
<1> SUFFICES ASSUME FreeInv, Idle, ~ro_mode, "nomem" \notin run.faults, free = {},
                    Cardinality(Lost) <= avail_pebs + beb_rsvd_pebs
             PROVE  FALSE
    BY DEF FreeRemains
<1>1. PEB = used \cup scrub \cup DOMAIN prot \cup bad
  <2>1. Hands = {} /\ Waiting = {}
      BY NoWorkType, HandsAre DEF FreeInv, OwnInv, PlaceInv, HandsOf, Idle, Waiting
  <2> QED
      BY <2>1 DEF FreeInv, OwnInv, PlaceInv, OnePlace
<1>2. InUse \subseteq (Leb \cup {op.pnum}) \cup Lost
    BY DEF FreeInv, OwnInv, Reserved, InUse, Owned, Leb
<1> DEFINE L == Leb \cup {op.pnum}
<1> DEFINE M == L \cup Lost
<1>3. PEB \subseteq M \cup bad
    BY <1>1, <1>2 DEF FreeInv, OwnInv, UsedIsOwned, Idle
<1>4. IsFiniteSet(Leb) /\ IsFiniteSet(Lost) /\ IsFiniteSet(bad) /\ Cardinality(Leb) \in Nat
    BY FinitePebs DEF Leb, Lost, FreeInv, OwnInv, PlaceInv, CtlInv, TypeOK
<1>5. /\ IsFiniteSet(L) /\ Cardinality(L) \in Nat
      /\ Cardinality(L) <= Cardinality(Leb) + 1
    BY <1>4, OneMore
<1> HIDE DEF L
<1>6. /\ IsFiniteSet(M) /\ Cardinality(M) \in Nat /\ Cardinality(Lost) \in Nat
      /\ Cardinality(M) <= Cardinality(L) + Cardinality(Lost)
    BY <1>4, <1>5, UnionBound
<1> HIDE DEF M
<1>7. /\ IsFiniteSet(M \cup bad) /\ Cardinality(M \cup bad) \in Nat /\ Cardinality(bad) \in Nat
      /\ Cardinality(M \cup bad) <= Cardinality(M) + Cardinality(bad)
    BY <1>4, <1>6, UnionBound
<1>8. N <= Cardinality(M \cup bad)
    BY <1>3, <1>7, FinitePebs, FS_Subset
<1>9. /\ Cardinality(Leb) <= VolPebs(run) /\ run.avail \in Nat /\ run.beb \in Nat
      /\ avail_pebs \in Nat /\ beb_rsvd_pebs \in Nat
      /\ Cardinality(bad) + avail_pebs + beb_rsvd_pebs = run.avail + run.beb
    BY RunType DEF FreeInv, Reserved, OwnInv, PlaceInv, CtlInv, TypeOK
<1>10. VolPebs(run) = N - 2 - run.avail - run.beb /\ N \in Nat
    BY <1>9, BoundsAssumption DEF VolPebs, WL_RESERVED_PEBS, EBA_RESERVED_PEBS
<1> QED
    BY <1>4, <1>5, <1>6, <1>7, <1>8, <1>9, <1>10

\* FreeRemains: the eraseblocks that build.c and wl.c set aside suffice.  However eraseblocks go
\* bad, are moved, torn and rewritten, a device that is still writable has a free eraseblock
\* whenever no work runs, so that ubi_wl_get_peb never has to give up: unless memory ran out, or
\* headers that could not be read back cost more eraseblocks than are available or in reserve.
THEOREM ReservesSuffice == Spec => []FreeRemains
<1>1. Init => FreeInv
    BY InitOwn, InitReserved DEF FreeInv
<1> QED
    BY <1>1, NextFree, FreeLeft, PTL DEF Spec

-----------------------------------------------------------------------------
(* The order of the trees.                                                  *)

\* A finite set that is not empty has a first element in any order that is total.
LEMMA FiniteHasFirst ==
  ASSUME NEW S, IsFiniteSet(S), NEW T \in SUBSET S, T # {}, NEW R,
         \A p, q \in S : <<p, q>> \in R \/ <<q, p>> \in R,
         \A p, q, r \in S : <<p, q>> \in R /\ <<q, r>> \in R => <<p, r>> \in R
  PROVE  \E p \in T : \A q \in T : <<p, q>> \in R
<1> DEFINE Upto(p) == {q \in T : <<q, p>> \in R}
           Sets == {Upto(p) : p \in T}
           Sub == StrictSubsetOrdering(S)
<1>1. IsWellFoundedOn(Sub, SUBSET S)
    BY FS_StrictSubsetOrderingWellFounded, FS_FiniteSubsetsOfFinite
<1>2. Sets \subseteq SUBSET S /\ Sets # {}
  <2>1. PICK p \in T : TRUE
      OBVIOUS
  <2>2. Upto(p) \in Sets
      OBVIOUS
  <2>3. \A q \in T : Upto(q) \in SUBSET S
      OBVIOUS
  <2> HIDE DEF Upto
  <2> QED
      BY <2>2, <2>3
<1>3. PICK U \in Sets : \A V \in Sets : ~(<<V, U>> \in Sub)
  <2> HIDE DEF Sets, Sub
  <2> QED
      BY <1>1, <1>2, WFMin
<1>4. PICK p \in T : U = Upto(p)
    BY <1>3
<1>5. ASSUME NEW q \in T, <<p, q>> \notin R
      PROVE  FALSE
  <2>1. <<q, p>> \in R /\ <<p, p>> \in R
      BY <1>5
  <2>2. Upto(q) \subseteq Upto(p) /\ p \in Upto(p) /\ p \notin Upto(q)
      BY <1>5, <2>1
  <2>3. Upto(q) \in SUBSET S /\ Upto(p) \in SUBSET S /\ Upto(q) # Upto(p)
      BY <2>2
  <2>4. <<Upto(q), Upto(p)>> \in Sub
    <3> HIDE DEF Upto
    <3> QED
        BY <2>2, <2>3 DEF StrictSubsetOrdering
  <2>5. Upto(q) \in Sets
      OBVIOUS
  <2> QED
      BY <1>3, <1>4, <2>4, <2>5
<1> QED
    BY <1>5

\* The order of the trees is total.
LEMMA TreeOrder ==
  ASSUME TypeOK
  PROVE  /\ \A p, q \in PEB : Before(p, q) \/ Before(q, p)
         /\ \A p, q, r \in PEB : Before(p, q) /\ Before(q, r) => Before(p, r)
<1>1. \A p \in PEB : p \in Nat /\ ec[p] \in Nat
    BY BoundsAssumption DEF PEB, TypeOK
<1> QED
    BY <1>1 DEF Before

\* A tree that is not empty has a first and a last entry.
LEMMA FirstIs ==
  ASSUME TypeOK, NEW T \in SUBSET PEB, T # {}
  PROVE  First(T) \in T /\ \A q \in T : Before(First(T), q)
<1> DEFINE R == {pq \in PEB \X PEB : Before(pq[1], pq[2])}
<1>1. \A p, q \in PEB : <<p, q>> \in R <=> Before(p, q)
    OBVIOUS
<1> HIDE DEF R
<1>2. \E p \in T : \A q \in T : <<p, q>> \in R
    BY <1>1, FinitePebs, TreeOrder, FiniteHasFirst
<1>3. \E p \in T : \A q \in T : Before(p, q)
    BY <1>1, <1>2
<1> QED
    BY <1>3 DEF First

LEMMA LastIs ==
  ASSUME TypeOK, NEW T \in SUBSET PEB, T # {}
  PROVE  Last(T) \in T /\ \A q \in T : Before(q, Last(T))
<1> DEFINE R == {pq \in PEB \X PEB : Before(pq[2], pq[1])}
<1>1. \A p, q \in PEB : <<p, q>> \in R <=> Before(q, p)
    OBVIOUS
<1> HIDE DEF R
<1>2. \E p \in T : \A q \in T : <<p, q>> \in R
    BY <1>1, FinitePebs, TreeOrder, FiniteHasFirst
<1>3. \E p \in T : \A q \in T : Before(q, p)
    BY <1>1, <1>2
<1> QED
    BY <1>3 DEF Last

\* find_wl_entry: an entry of the tree, worn out by less than `max' more than the first.
LEMMA FindsInWindow ==
  ASSUME TypeOK, NEW T \in SUBSET PEB, T # {}, NEW max \in Nat \ {0}
  PROVE  /\ FindWlEntry(T, max) \in T
         /\ ec[FindWlEntry(T, max)] < ec[First(T)] + max
<1> DEFINE S == {p \in T : ec[p] < ec[First(T)] + max}
<1>1. First(T) \in T /\ ec[First(T)] \in Nat
    BY FirstIs DEF TypeOK
<1>2. First(T) \in S
    BY <1>1
<1>3. Last(S) \in S
    BY <1>2, LastIs
<1> QED
    BY <1>2, <1>3 DEF FindWlEntry

LEMMA PickWindow == TypeOK => PicksInWindow
<1> SUFFICES ASSUME TypeOK, free # {}, NEW d \in DataTypes,
                    d # "UNKNOWN" \/ ec[First(free)] <= WL_FREE_MAX_DIFF, NEW p \in Picks(d)
             PROVE  p \in free /\ ec[p] < ec[First(free)] + WL_FREE_MAX_DIFF
    BY DEF PicksInWindow
<1>1. WL_FREE_MAX_DIFF \in Nat \ {0} /\ WL_FREE_MAX_DIFF >= 2 /\ free \in SUBSET PEB
    BY BoundsAssumption DEF WL_FREE_MAX_DIFF, TypeOK
<1>2. /\ First(free) \in free /\ Last(free) \in free
      /\ \A q \in free : Before(q, Last(free))
      /\ \A q \in free : ec[q] \in Nat
    BY <1>1, FirstIs, LastIs DEF TypeOK
<1>3. CASE d = "LONGTERM"
    BY <1>1, <1>3, FindsInWindow DEF Picks
<1>4. CASE d = "SHORTTERM"
  <2>1. p = First(free)
      BY <1>4 DEF Picks
  <2> QED
      BY <1>1, <1>2, <2>1
<1>5. CASE d = "UNKNOWN" /\ ec[Last(free)] - ec[First(free)] < WL_FREE_MAX_DIFF
  <2>1. p \in free
      BY <1>5 DEF Picks
  <2>2. ec[p] <= ec[Last(free)]
      BY <1>2, <2>1 DEF Before
  <2> QED
      BY <1>1, <1>2, <1>5, <2>1, <2>2
<1>6. CASE d = "UNKNOWN" /\ ~(ec[Last(free)] - ec[First(free)] < WL_FREE_MAX_DIFF)
  <2> DEFINE max == (ec[First(free)] + WL_FREE_MAX_DIFF) \div 2
  <2>1. max \in Nat \ {0} /\ max <= WL_FREE_MAX_DIFF
      BY <1>1, <1>2, <1>6
  <2>2. p = FindWlEntry(free, max)
      BY <1>6 DEF Picks
  <2> HIDE DEF max
  <2>3. p \in free /\ ec[p] < ec[First(free)] + max
      BY <1>1, <2>1, <2>2, FindsInWindow
  <2> QED
      BY <1>1, <1>2, <2>1, <2>3
<1> QED
    BY <1>3, <1>4, <1>5, <1>6 DEF DataTypes

\* The eraseblock ubi_wl_get_peb takes is one of the free tree and less than WL_FREE_MAX_DIFF more
\* worn than its first, for every kind of data on a young device and for long-term and short-term
\* data on any.
THEOREM WearWindow == Spec => []PicksInWindow
  BY Types, PickWindow, PTL

-----------------------------------------------------------------------------
(* Scrubbing is not forgotten.                                              *)

\* What ScrubInv and ScrubDone say of a device on which they say something.
ScrubState ==
  /\ wl_scheduled => work.k \in {"wl", "copy"}
  /\ work.k = "copy" /\ ~work.flag => scrub = {}
  /\ attached /\ work = NoWork /\ scrub # {} => free = {}

LEMMA ScrubEnsured ==
  ASSUME EnsureWearLeveling, ~wl_scheduled, "nomem" \notin run.faults
  PROVE  \/ work' = NoWork /\ scrub' = {} /\ ~wl_scheduled'
         \/ work' = WearLevelling
  BY DEF EnsureWearLeveling, Needed, Fault, Returned, Schedule

\* The work that runs.
LEMMA ScrubWork ==
  ASSUME PlaceInv, ScrubState, Work, "nomem" \notin run.faults, ~ro_mode, ~ro_mode',
         bad' = {}, Lost' = {}
  PROVE  ScrubState'
<1>0. /\ TypeOK /\ owner \in [PEB -> {"none", "new", "leb", "blank", "corr"}]
      /\ free \subseteq PEB /\ used \subseteq PEB /\ scrub \subseteq PEB
    BY DEF PlaceInv, CtlInv, TypeOK
<1>n. NoWork.k = "none" /\ WearLevelling.k = "wl"
    BY NoWorkType, WlType
<1>1. CASE Erase
  <2>1. /\ work.k = "erase" /\ work.e1 \in PEB
        /\ EnsureWearLeveling
      BY <1>1 DEF Erase, Erasing, PlaceInv, CtlInv, ControlOK
  <2>2. \/ work' = NoWork /\ scrub' = {} /\ ~wl_scheduled'
        \/ work' = WearLevelling
      BY <2>1, ScrubEnsured DEF ScrubState
  <2> QED
      BY <1>n, <2>2 DEF ScrubState
<1>2. CASE EraseRefused \/ MoveFailed \/ MoveNoMemory \/ MoveNotErased
    BY <1>2 DEF EraseRefused, MoveFailed, MoveNoMemory, MoveNotErased, Fault
<1>3. CASE EraseFailed
    BY <1>3 DEF EraseFailed
<1>4. CASE MoveCancelled
  <2>1. /\ ~wl_scheduled' /\ work' = NoWork /\ UNCHANGED <<free, scrub, owner>>
        /\ free = {} \/ scrub = {}
      BY <1>4 DEF MoveCancelled, NoDeal, Returned, trees
  <2> QED
      BY <1>n, <2>1 DEF ScrubState
<1>5. CASE MoveBegin
  <2>1. PICK e1 \in used \cup scrub, e2 \in free :
          /\ e1 = First(IF scrub = {} THEN used ELSE scrub)
          /\ work' = Copy(e1, e2, scrub # {})
          /\ scrub' = scrub \ {e1} /\ free' = free \ {e2}
      BY <1>5 DEF MoveBegin
  <2>2. work.k = "wl" /\ owner' = owner
      BY <1>5 DEF MoveBegin, Moving
  <2>3. /\ e1 \in PEB /\ e2 \in PEB /\ work'.k = "copy" /\ work'.e1 = e1
        /\ work'.flag = (scrub # {})
    <3>1. e1 \in PEB /\ e2 \in PEB
        BY <1>0, <2>1
    <3>2. CASE scrub = {}
      <4>1. work' = Copy(e1, e2, FALSE)
          BY <2>1, <3>2
      <4> QED
          BY <3>1, <3>2, <4>1, CopyType
    <3>3. CASE scrub # {}
      <4>1. work' = Copy(e1, e2, TRUE)
          BY <2>1, <3>3
      <4> QED
          BY <3>1, <3>3, <4>1, CopyType
    <3> QED
        BY <3>2, <3>3
  <2>4. ~work'.flag => scrub' = {}
      BY <2>1, <2>3
  <2> QED
      BY <1>n, <2>3, <2>4 DEF ScrubState
<1>6. Copying => work.k = "copy" /\ work.e1 \in PEB /\ work.e2 \in PEB
    BY DEF Copying, PlaceInv, CtlInv, ControlOK
<1>7. CASE Moved \/ NotMoved
  <2>1. /\ Copying /\ ~wl_scheduled'
        /\ \E p \in {work.e1, work.e2} : work' = EraseWork(p, FALSE)
      BY <1>7 DEF Moved, NotMoved, Schedule
  <2>2. work'.k = "erase"
      BY <1>6, <2>1, EraseType
  <2> QED
      BY <1>n, <2>1, <2>2 DEF ScrubState
<1>8. CASE MoveProtects
  <2>1. Copying /\ \E left \in {"blank", "corr"} : owner' = [owner EXCEPT ![work.e2] = left]
      BY <1>8 DEF MoveProtects
  <2>2. work.e2 \in Lost'
      BY <1>0, <1>6, <2>1 DEF Lost
  <2> QED
      BY <2>2
<1> QED
    BY <1>1, <1>2, <1>3, <1>4, <1>5, <1>7, <1>8 DEF Work

\* Attaching, and the calls of the EBA unit.
LEMMA ScrubCalls ==
  ASSUME PlaceInv, ScrubState, AttachEnd \/ (\E p \in PEB : AttachErase(p)) \/ Eba,
         "nomem" \notin run.faults, ~ro_mode, ~ro_mode'
  PROVE  ScrubState'
<1>n. NoWork.k = "none" /\ WearLevelling.k = "wl" /\ NoOp.k = "none"
    BY NoWorkType, WlType DEF NoOp
<1>1. work = NoWork /\ ~wl_scheduled
  <2>1. work = NoWork
      BY DEF AttachEnd, AttachErase, Eba, WriteLeb, ChangeLeb, ChangePut, WriteDone, WriteFailed,
             UnmapLeb, ScrubPeb, Call, Ready
  <2> QED
      BY <1>n, <2>1 DEF ScrubState
\* An eraseblock is got, or nothing but its owner changes.
<1>b. ASSUME attached, UNCHANGED <<attached, wl_scheduled, work, scrub>>, free' \subseteq free
      PROVE  ScrubState'
    BY <1>1, <1>b, <1>n DEF ScrubState
\* An eraseblock is put.
<1>c. ASSUME NEW p \in PEB, NEW t \in BOOLEAN, PutPeb(p, t)
      PROVE  ScrubState'
  <2>1. Listed(p)
      BY <1>c DEF PutPeb
  <2>2. work' = EraseWork(p, t) /\ UNCHANGED wl_scheduled
      BY <1>c, <2>1 DEF PutPeb, Schedule
  <2>3. work'.k = "erase"
      BY <1>c, <2>2, EraseType
  <2> QED
      BY <1>1, <1>n, <2>2, <2>3 DEF ScrubState
<1>d. \A p \in PEB : ~PutNoMemory(p)
    BY DEF PutNoMemory, Fault
<1>2. ASSUME NEW p \in PEB, AttachErase(p)
      PROVE  ScrubState'
  <2>1. ~attached /\ work' = EraseWork(p, FALSE) /\ UNCHANGED <<wl_scheduled, scrub>>
      BY <1>2 DEF AttachErase, Schedule, trees
  <2>2. scrub = {} /\ work'.k = "erase"
      BY <2>1, EraseType DEF PlaceInv, CtlInv, ControlOK
  <2> QED
      BY <1>1, <1>n, <2>1, <2>2 DEF ScrubState
<1>3. CASE AttachEnd
  <2>1. \/ work' = NoWork /\ scrub' = {} /\ ~wl_scheduled'
        \/ work' = WearLevelling
      BY <1>1, <1>3, ScrubEnsured DEF AttachEnd
  <2> QED
      BY <1>n, <2>1 DEF ScrubState
<1>4. ASSUME NEW d \in DataTypes, WriteLeb(d) \/ \E old \in PEB : ChangeLeb(old, d)
      PROVE  ScrubState'
  <2>1. PICK p \in PEB : GetPeb(d, p)
      BY <1>4 DEF WriteLeb, ChangeLeb
  <2>2. attached /\ UNCHANGED <<attached, wl_scheduled, work>>
      BY <1>4 DEF WriteLeb, ChangeLeb, Call, Ready, attach, works
  <2>3. free' \subseteq free /\ scrub' = scrub
      BY <2>1 DEF GetPeb
  <2> QED
      BY <1>b, <2>2, <2>3
<1>5. CASE ChangePut
  <2>1. op.old \in PEB
      BY <1>5 DEF ChangePut, PlaceInv, CtlInv, ControlOK
  <2> QED
      BY <1>5, <1>c, <1>d, <2>1 DEF ChangePut
<1>6. CASE WriteFailed
  <2>1. op.pnum \in PEB
      BY <1>6 DEF WriteFailed, PlaceInv, CtlInv, ControlOK
  <2> QED
      BY <1>6, <1>c, <2>1 DEF WriteFailed
<1>7. CASE WriteDone
  <2>1. UNCHANGED <<attached, wl_scheduled, work, scrub, free>> /\ op.k = "write"
      BY <1>7 DEF WriteDone, attach, works, trees
  <2>2. attached
      BY <1>n, <2>1 DEF PlaceInv, CtlInv, ControlOK
  <2> QED
      BY <1>b, <2>1, <2>2
<1>8. ASSUME NEW p \in PEB, UnmapLeb(p)
      PROVE  ScrubState'
    BY <1>8, <1>c, <1>d DEF UnmapLeb
<1>9. ASSUME NEW p \in PEB, ScrubPeb(p)
      PROVE  ScrubState'
  <2>1. scrub' = scrub \cup {p} /\ EnsureWearLeveling
      BY <1>9 DEF ScrubPeb
  <2>2. work' = WearLevelling
      BY <1>1, <2>1, ScrubEnsured
  <2> QED
      BY <1>n, <2>2 DEF ScrubState
<1> QED
    BY <1>2, <1>3, <1>4, <1>5, <1>6, <1>7, <1>8, <1>9 DEF Eba

\* Bad eraseblocks stay bad.
LEMMA BadStays == [Next]_vars => bad \subseteq bad'
  BY DEF Next, Work, Erase, EraseRefused, EraseFailed, MoveCancelled, MoveBegin, MoveNoMemory,
         Moved, NotMoved, MoveNotErased, MoveProtects, MoveFailed, AttachErase, AttachEnd, Eba,
         WriteLeb, ChangeLeb, ChangePut, WriteDone, WriteFailed, UnmapLeb, ScrubPeb, reserve, vars

\* The invariant behind ScrubDone.
ScrubbingInv == PlaceInv /\ ScrubInv /\ ScrubDone

LEMMA NextScrub == ScrubbingInv /\ [Next]_vars => ScrubbingInv'
<1> SUFFICES ASSUME ScrubbingInv, [Next]_vars PROVE ScrubbingInv'
    OBVIOUS
<1>1. PlaceInv' /\ run' = run
    BY NextPlace, RunStays DEF ScrubbingInv
<1>2. CASE ro_mode' \/ bad' # {} \/ Lost' # {} \/ "nomem" \in run.faults
    BY <1>1, <1>2 DEF ScrubbingInv, ScrubInv, ScrubDone
<1>3. CASE ~ro_mode' /\ bad' = {} /\ Lost' = {} /\ "nomem" \notin run.faults
  <2>0. ~ro_mode
      BY <1>3, ReadOnlyStays
  <2>1. ~ro_mode /\ bad = {} /\ Lost = {}
      BY <1>3, <2>0, BadStays, LostStays DEF ScrubbingInv
  <2>2. ScrubState
      BY <1>3, <2>1 DEF ScrubbingInv, ScrubInv, ScrubDone, ScrubState, Idle
  <2>3. ScrubState'
    <3>1. CASE Next
        BY <1>3, <2>1, <2>2, <3>1, ScrubWork, ScrubCalls DEF ScrubbingInv, Next
    <3>2. CASE UNCHANGED vars
      <4>1. UNCHANGED <<wl_scheduled, work, scrub, free, attached>>
          BY <3>2 DEF vars, works, trees, attach
      <4> QED
          BY <2>2, <4>1 DEF ScrubState
    <3> QED
        BY <3>1, <3>2
  <2> QED
      BY <1>1, <2>3 DEF ScrubbingInv, ScrubInv, ScrubDone, ScrubState, Idle
<1> QED
    BY <1>2, <1>3

LEMMA InitScrub == Init => ScrubbingInv
<1> SUFFICES ASSUME Init PROVE ScrubbingInv
    OBVIOUS
<1>1. work.k = "none" /\ ~attached /\ ~wl_scheduled /\ scrub = {}
    BY NoWorkType DEF Init
<1> QED
    BY <1>1, InitPlace DEF ScrubbingInv, ScrubInv, ScrubDone, Idle

\* ScrubDone: while memory suffices, no erasure fails and headers can be read back, an eraseblock
\* with a bit-flip is left in the scrub tree only while there is no free eraseblock to move it to,
\* although nothing but the chain of calls that starts wear-levelling would ever look at that tree.
THEOREM NotForgotten == Spec => []ScrubDone
<1>1. ScrubbingInv => ScrubDone
    BY DEF ScrubbingInv
<1> QED
    BY <1>1, InitScrub, NextScrub, PTL DEF Spec

-----------------------------------------------------------------------------
(* How deep the calls go.                                                   *)

\* The target of a move is not the eraseblock that the move before it gave back.
StackSafe == UBI_WL_THRESHOLD >= 2

\* Two calls for each eraseblock.  A bit-flip in a copy raises the counter of a free eraseblock, and
\* with it the limit of find_wl_entry: after each there are as many to pay for again.
Allowed == IF "bitflip" \in run.faults THEN 2 * (N * (faults + 1)) ELSE 2 * N

\* It is never less than it was.
Room == Allowed \in Nat /\ Allowed' \in Nat /\ Allowed >= 2 * N /\ Allowed' >= Allowed

\* What the provers need of the product.
LEMMA Product ==
  ASSUME NEW a \in Nat, NEW b \in Nat
  PROVE  a * b \in Nat /\ a * (b + 1) = a * b + a
  OBVIOUS

\* What is allowed, and how a fault changes it.
LEMMA AllowedIs ==
  ASSUME faults \in Nat
  PROVE  Allowed \in Nat /\ Allowed >= 2 * N
<1>1. N * faults \in Nat /\ N * (faults + 1) = N * faults + N /\ N \in Nat
    BY BoundsAssumption, Product
<1> QED
    BY <1>1 DEF Allowed

LEMMA AllowedGrows ==
  ASSUME faults \in Nat, faults' \in {faults, faults + 1}, run' = run
  PROVE  /\ Room
         /\ "bitflip" \in run.faults /\ faults' = faults + 1 => Allowed' = Allowed + 2 * N
<1> DEFINE f == faults'
           a == N * (faults + 1)
           b == N * (f + 1)
<1>1. N \in Nat /\ f \in Nat /\ faults + 1 \in Nat
    BY BoundsAssumption
<1>2. N * faults \in Nat /\ a = N * faults + N
    BY <1>1, Product
<1>3. f = faults + 1 => b = a + N
    BY <1>1, Product
<1>4. f = faults => b = a
    OBVIOUS
<1>5. /\ Allowed = IF "bitflip" \in run.faults THEN 2 * a ELSE 2 * N
      /\ Allowed' = IF "bitflip" \in run.faults THEN 2 * b ELSE 2 * N
    BY DEF Allowed
<1> HIDE DEF a, b, f
<1>6. f = faults \/ f = faults + 1
    BY DEF f
<1>7. a \in Nat /\ a >= N /\ b \in Nat /\ b >= a
    BY <1>1, <1>2, <1>3, <1>4, <1>6
<1>8. Room
    BY <1>1, <1>5, <1>7 DEF Room
<1>9. "bitflip" \in run.faults /\ faults' = faults + 1 => Allowed' = Allowed + 2 * N
    BY <1>1, <1>3, <1>5, <1>7 DEF f
<1> QED
    BY <1>8, <1>9

\* With the counters E and the free tree F, z could be moved to w.
Possible(E, F, z, w) ==
  /\ E[z] + UBI_WL_THRESHOLD <= E[w]
  /\ \A g \in F : E[w] < E[g] + WL_FREE_MAX_DIFF

\* R pays for every move there could be: its source or its target is in it.
Funds(R, E, F, U) == \A z \in U \ R, w \in F \ R : ~Possible(E, F, z, w)

\* One move costs one eraseblock of R: the source, which is free afterwards, is worn too little to
\* be a target, and the target, which is used, is worn too much to be a source.
LEMMA WearMove ==
  ASSUME UBI_WL_THRESHOLD >= 2,
         NEW E \in [PEB -> Nat], NEW F \in SUBSET PEB, NEW U \in SUBSET PEB, NEW R \in SUBSET PEB,
         NEW y \in U, NEW t \in F, y \notin F, t \notin U, Funds(R, E, F, U),
         \A u \in U : E[y] <= E[u], Possible(E, F, y, t),
         \A w \in F : E[w] <= E[t] \/ \E g \in F : E[w] >= E[g] + WL_FREE_MAX_DIFF
  PROVE  \E c \in R : /\ c \in {y, t}
                      /\ Funds(R \ {c}, [E EXCEPT ![y] = @ + 1], (F \ {t}) \cup {y}, (U \ {y}) \cup {t})
<1>1. PICK c \in R : c \in {y, t}
    BY DEF Funds
<1> DEFINE E2 == [E EXCEPT ![y] = @ + 1]
           F2 == (F \ {t}) \cup {y}
           U2 == (U \ {y}) \cup {t}
<1>t. UBI_WL_THRESHOLD \in Nat /\ WL_FREE_MAX_DIFF = 2 * UBI_WL_THRESHOLD
    BY BoundsAssumption DEF WL_FREE_MAX_DIFF
<1>e. /\ \A p \in PEB : E[p] \in Nat
      /\ E2[y] = E[y] + 1 /\ \A p \in PEB : p # y => E2[p] = E[p]
    OBVIOUS
<1>p. E[y] + UBI_WL_THRESHOLD <= E[t] /\ \A g \in F : E[t] < E[g] + WL_FREE_MAX_DIFF
    BY DEF Possible
<1> SUFFICES ASSUME NEW z \in U2 \ (R \ {c}), NEW w \in F2 \ (R \ {c}), Possible(E2, F2, z, w)
             PROVE  FALSE
    BY <1>1 DEF Funds
<1> HIDE DEF E2
<1>2. E2[z] + UBI_WL_THRESHOLD <= E2[w] /\ \A g \in F2 : E2[w] < E2[g] + WL_FREE_MAX_DIFF
    BY DEF Possible
<1>3. z # y /\ E2[z] = E[z] /\ E[y] <= E[z] /\ z \in PEB /\ y \in PEB /\ t \in PEB
    BY <1>t, <1>e, <1>p
<1>4. w # y
    BY <1>2, <1>3, <1>e, <1>t
<1>5. w \in F /\ w # t /\ w \notin R /\ E2[w] = E[w]
    BY <1>1, <1>4, <1>e
<1>6. CASE z = t
  <2>1. E[w] > E[t]
      BY <1>2, <1>3, <1>5, <1>6, <1>t, <1>e
  <2>2. PICK g \in F : E[w] >= E[g] + WL_FREE_MAX_DIFF
      BY <1>5, <2>1, <1>e, <1>3
  <2>3. CASE g # t
    <3>1. g \in F2 /\ E2[g] = E[g] /\ g \in PEB
        BY <2>3, <1>e
    <3> QED
        BY <1>2, <1>5, <2>2, <3>1, <1>e, <1>t
  <2>4. CASE g = t
    <3>1. E[w] < E[y] + 1 + WL_FREE_MAX_DIFF
        BY <1>2, <1>5, <1>e
    <3> QED
        BY <2>2, <2>4, <3>1, <1>p, <1>t, <1>e, <1>3
  <2> QED
      BY <2>3, <2>4
<1>7. CASE z # t
  <2>1. z \in U \ R
      BY <1>1, <1>3, <1>7
  <2>2. \A g \in F : E[w] < E[g] + WL_FREE_MAX_DIFF
    <3> SUFFICES ASSUME NEW g \in F PROVE E[w] < E[g] + WL_FREE_MAX_DIFF
        OBVIOUS
    <3>1. CASE g # t
      <4>1. g \in F2 /\ E2[g] = E[g]
          BY <3>1, <1>e
      <4> QED
          BY <1>2, <1>5, <4>1
    <3>2. CASE g = t
      <4>1. E[w] < E[y] + 1 + WL_FREE_MAX_DIFF
          BY <1>2, <1>5, <1>e
      <4> QED
          BY <3>2, <4>1, <1>p, <1>t, <1>e, <1>3, <1>5
    <3> QED
        BY <3>1, <3>2
  <2>3. Possible(E, F, z, w)
      BY <1>2, <1>3, <1>5, <2>2 DEF Possible
  <2> QED
      BY <1>5, <2>1, <2>3 DEF Funds
<1> QED
    BY <1>6, <1>7

\* The trees and the counters as they are once the work in hand is done: an eraseblock that is
\* erased is free with its new counter, and a move has not begun.
FreeThen == free \cup (IF work.k = "erase" THEN {work.e1} ELSE IF work.k = "copy" THEN {work.e2} ELSE {})
UsedThen == used \cup (IF work.k = "copy" /\ ~work.flag THEN {work.e1} ELSE {})
ScrubThen == scrub \cup (IF work.k = "copy" /\ work.flag THEN {work.e1} ELSE {})
EcThen == IF work.k = "erase" THEN [ec EXCEPT ![work.e1] = @ + Cycles] ELSE ec

\* R pays for the moves to come: one for each eraseblock to be scrubbed, and the moves between
\* eraseblocks that are worn differently.
Paid(R) ==
  /\ ScrubThen \subseteq R /\ DOMAIN prot \subseteq R
  /\ ScrubThen # {} => FreeThen \subseteq R
  /\ Funds(R, EcThen, FreeThen, UsedThen)

\* The pair that wear_leveling_worker chose: the used eraseblock that is worn least and, of the free
\* ones that find_wl_entry may return, the one that is worn most.
Pair(e1, e2) ==
  /\ scrub = {}
  /\ \A u \in used : ec[e1] <= ec[u]
  /\ Possible(ec, FreeThen, e1, e2)
  /\ \A w \in FreeThen : ec[w] <= ec[e2] \/ \E g \in FreeThen : ec[w] >= ec[g] + WL_FREE_MAX_DIFF
Chosen == /\ work.k = "wl" => Needed
          /\ work.k = "copy" /\ ~work.flag => Pair(work.e1, work.e2)

\* Two calls for each eraseblock that is still there to pay.
Affords(R) == depth + 2 * Cardinality(R) <= Allowed + (IF work.k = "erase" THEN 0 ELSE 1)

Counted == op.old = NoPeb /\ run.faults \cap {"nomem", "readback"} = {}

\* In read-only mode nothing is erased and no move starts another one.
StackNow ==
  IF ro_mode
  THEN depth <= IF work.k = "erase" THEN 2 ELSE 1
  ELSE Chosen /\ \E R \in SUBSET PEB : Paid(R) /\ Affords(R)

\* The invariant behind StackBounded.
StackInv ==
  /\ faults \in Nat
  /\ work = NoWork => depth = 0
  /\ op.k = "write" /\ op.old = NoPeb => work = NoWork
  /\ Counted /\ work # NoWork => StackNow

\* find_wl_entry: whatever is worn more than its result is outside its window.
LEMMA FindsTop ==
  ASSUME TypeOK, NEW T \in SUBSET PEB, T # {}, NEW max \in Nat \ {0}
  PROVE  \A w \in T : ec[w] <= ec[FindWlEntry(T, max)] \/ ec[w] >= ec[First(T)] + max
<1> DEFINE S == {p \in T : ec[p] < ec[First(T)] + max}
<1>1. First(T) \in T /\ \A p \in T : ec[p] \in Nat
    BY FirstIs DEF TypeOK
<1>2. First(T) \in S /\ S \in SUBSET PEB
    BY <1>1
<1>3. Last(S) \in S /\ \A q \in S : Before(q, Last(S))
    BY <1>2, LastIs
<1>4. FindWlEntry(T, max) = Last(S)
    BY <1>2 DEF FindWlEntry
<1> SUFFICES ASSUME NEW w \in T, ~(ec[w] >= ec[First(T)] + max)
             PROVE  ec[w] <= ec[FindWlEntry(T, max)]
    OBVIOUS
<1>5. w \in S
    BY <1>1
<1> QED
    BY <1>1, <1>3, <1>4, <1>5 DEF Before

\* The first used eraseblock and the free one that find_wl_entry returns, when they are worn so
\* differently that the one is moved to the other.
LEMMA WearPair ==
  ASSUME TypeOK, used # {}, free # {}, TooFar(First(used), FindWlEntry(free, WL_FREE_MAX_DIFF))
  PROVE  /\ First(used) \in used /\ FindWlEntry(free, WL_FREE_MAX_DIFF) \in free
         /\ Possible(ec, free, First(used), FindWlEntry(free, WL_FREE_MAX_DIFF))
         /\ \A u \in used : ec[First(used)] <= ec[u]
         /\ \A w \in free : \/ ec[w] <= ec[FindWlEntry(free, WL_FREE_MAX_DIFF)]
                              \/ \E g \in free : ec[w] >= ec[g] + WL_FREE_MAX_DIFF
<1> DEFINE e1 == First(used)
           e2 == FindWlEntry(free, WL_FREE_MAX_DIFF)
<1>1. /\ WL_FREE_MAX_DIFF \in Nat \ {0} /\ UBI_WL_THRESHOLD \in Nat
      /\ used \in SUBSET PEB /\ free \in SUBSET PEB /\ \A p \in PEB : ec[p] \in Nat
    BY BoundsAssumption DEF WL_FREE_MAX_DIFF, TypeOK
<1>2. e1 \in used /\ \A u \in used : Before(e1, u)
    BY <1>1, FirstIs
<1>3. First(free) \in free /\ \A g \in free : Before(First(free), g)
    BY <1>1, FirstIs
<1>4. e2 \in free /\ ec[e2] < ec[First(free)] + WL_FREE_MAX_DIFF
    BY <1>1, FindsInWindow
<1>5. \A w \in free : ec[w] <= ec[e2] \/ ec[w] >= ec[First(free)] + WL_FREE_MAX_DIFF
    BY <1>1, FindsTop
<1>6. ec[e2] - ec[e1] >= UBI_WL_THRESHOLD
    BY DEF TooFar
<1> HIDE DEF e1, e2
<1>7. ec[e1] + UBI_WL_THRESHOLD <= ec[e2]
    BY <1>1, <1>2, <1>4, <1>6
<1>8. \A g \in free : ec[e2] < ec[g] + WL_FREE_MAX_DIFF
    BY <1>1, <1>3, <1>4 DEF Before
<1>9. Possible(ec, free, e1, e2)
    BY <1>7, <1>8 DEF Possible
<1>10. \A u \in used : ec[e1] <= ec[u]
    BY <1>1, <1>2 DEF Before
<1> QED
    BY <1>2, <1>3, <1>4, <1>5, <1>9, <1>10 DEF e1, e2

\* An eraseblock less.
LEMMA OneLess ==
  ASSUME NEW R \in SUBSET PEB, NEW c \in R
  PROVE  /\ R \ {c} \in SUBSET PEB
         /\ Cardinality(R) \in Nat /\ Cardinality(R \ {c}) \in Nat
         /\ Cardinality(R \ {c}) = Cardinality(R) - 1
<1>1. R \ {c} \in SUBSET PEB
    OBVIOUS
<1>2. IsFiniteSet(R) /\ Cardinality(R) \in Nat /\ Cardinality(R \ {c}) \in Nat
    BY <1>1, FinitePebs
<1> QED
    BY <1>1, <1>2, FS_RemoveElement

\* The sets of Paid at each kind of work.
LEMMA ThenIs ==
  /\ work.k = "wl" => FreeThen = free /\ UsedThen = used /\ ScrubThen = scrub /\ EcThen = ec
  /\ work.k = "erase" => /\ FreeThen = free \cup {work.e1} /\ UsedThen = used /\ ScrubThen = scrub
                         /\ EcThen = [ec EXCEPT ![work.e1] = @ + Cycles]
  /\ work.k = "copy" => /\ FreeThen = free \cup {work.e2} /\ EcThen = ec
                        /\ UsedThen = used \cup (IF work.flag THEN {} ELSE {work.e1})
                        /\ ScrubThen = scrub \cup (IF work.flag THEN {work.e1} ELSE {})
  /\ work'.k = "wl" => FreeThen' = free' /\ UsedThen' = used' /\ ScrubThen' = scrub' /\ EcThen' = ec'
  /\ work'.k = "erase" => /\ FreeThen' = free' \cup {work'.e1} /\ UsedThen' = used' /\ ScrubThen' = scrub'
                          /\ EcThen' = [ec' EXCEPT ![work'.e1] = @ + Cycles']
  /\ work'.k = "copy" => /\ FreeThen' = free' \cup {work'.e2} /\ EcThen' = ec'
                         /\ UsedThen' = used' \cup (IF work'.flag THEN {} ELSE {work'.e1})
                         /\ ScrubThen' = scrub' \cup (IF work'.flag THEN {work'.e1} ELSE {})
  BY DEF FreeThen, UsedThen, ScrubThen, EcThen

\* An erasure that finds wear-levelling to do costs nothing: its eraseblock was counted as free,
\* and those whose protection ends are paid for.
LEMMA EraseStack ==
  ASSUME CtlInv, Erase, StackNow, work' # NoWork, Room
  PROVE  StackNow'
<1>1. /\ work.k = "erase" /\ ~ro_mode /\ ~ro_mode'
      /\ ec' = [ec EXCEPT ![work.e1] = @ + Cycles]
      /\ free' = free \cup {work.e1} /\ used' = used \cup ProtectionOver
      /\ DOMAIN prot' = DOMAIN prot \ ProtectionOver /\ scrub' = scrub
      /\ EnsureWearLeveling
    BY DEF Erase, Erasing
<1>2. work' = WearLevelling /\ Needed'
    BY <1>1, EnsureType DEF CtlInv
<1>3. depth' = depth + 1
    BY <1>1 DEF EnsureWearLeveling, Returned, Schedule
<1>4. work'.k = "wl"
    BY <1>2, WlType
<1>5. Chosen'
    BY <1>2, <1>4 DEF Chosen
<1>6. PICK R \in SUBSET PEB : Paid(R) /\ Affords(R)
    BY <1>1 DEF StackNow
<1>7. ProtectionOver \subseteq DOMAIN prot
    BY DEF ProtectionOver
<1>8. /\ FreeThen' = FreeThen /\ ScrubThen' = ScrubThen /\ EcThen' = EcThen
      /\ UsedThen' = UsedThen \cup ProtectionOver
    BY <1>1, <1>4, ThenIs
<1>9. Paid(R)'
    BY <1>1, <1>6, <1>7, <1>8 DEF Paid, Funds
<1>10. Affords(R)'
  <2>1. Cardinality(R) \in Nat /\ depth \in Nat /\ N \in Nat
      BY FinitePebs, BoundsAssumption DEF CtlInv, TypeOK
  <2> QED
      BY <1>1, <1>3, <1>4, <1>6, <2>1 DEF Affords, Room
<1> QED
    BY <1>1, <1>5, <1>9, <1>10 DEF StackNow

\* The beginning of a move changes nothing of what there is to pay.
LEMMA BeginStack ==
  ASSUME CtlInv, MoveBegin, StackNow, Room
  PROVE  StackNow'
<1>1. /\ work.k = "wl" /\ ~NoDeal /\ ec' = ec /\ prot' = prot /\ depth' = depth
      /\ ro_mode' = ro_mode
    BY DEF MoveBegin, Moving
<1>2. PICK e1 \in used \cup scrub, e2 \in free :
        /\ e1 = First(IF scrub = {} THEN used ELSE scrub)
        /\ e2 = FindWlEntry(free, WL_FREE_MAX_DIFF)
        /\ work' = Copy(e1, e2, scrub # {})
        /\ used' = used \ {e1} /\ scrub' = scrub \ {e1} /\ free' = free \ {e2}
    BY DEF MoveBegin
<1>3. /\ free \in SUBSET PEB /\ used \in SUBSET PEB /\ scrub \in SUBSET PEB
      /\ e1 \in PEB /\ e2 \in PEB
    BY DEF CtlInv, TypeOK
<1>4. /\ work'.k = "copy" /\ work'.e1 = e1 /\ work'.e2 = e2
      /\ work'.flag <=> scrub # {}
  <2>1. work'.k = "copy" /\ work'.e1 = e1 /\ work'.e2 = e2
      BY <1>2 DEF Copy
  <2>2. CASE scrub = {}
    <3>1. work' = Copy(e1, e2, FALSE)
        BY <1>2, <2>2
    <3> QED
        BY <2>1, <2>2, <3>1 DEF Copy
  <2>3. CASE scrub # {}
    <3>1. work' = Copy(e1, e2, TRUE)
        BY <1>2, <2>3
    <3> QED
        BY <2>1, <2>3, <3>1 DEF Copy
  <2> QED
      BY <2>2, <2>3
<1>5. CASE ro_mode
    BY <1>1, <1>4, <1>5 DEF StackNow
<1>6. CASE ~ro_mode
  <2>1. PICK R \in SUBSET PEB : Paid(R) /\ Affords(R)
      BY <1>6 DEF StackNow
  <2>2. FreeThen' = FreeThen /\ FreeThen = free /\ EcThen' = EcThen
      BY <1>1, <1>2, <1>4, ThenIs
  <2>6. Cardinality(R) \in Nat /\ depth \in Nat
      BY FinitePebs DEF CtlInv, TypeOK
  <2>3. scrub # {} => e1 \in scrub /\ e1 = First(scrub)
      BY <1>2, <1>3, FirstIs DEF CtlInv
  <2>4. CASE scrub = {}
    <3>1. /\ used # {} /\ free # {} /\ TooFar(First(used), FindWlEntry(free, WL_FREE_MAX_DIFF))
          /\ e1 = First(used)
        BY <1>1, <1>2, <2>4 DEF NoDeal
    <3>2. /\ e1 \in used /\ Possible(ec, free, e1, e2) /\ \A u \in used : ec[e1] <= ec[u]
          /\ \A w \in free : ec[w] <= ec[e2] \/ \E g \in free : ec[w] >= ec[g] + WL_FREE_MAX_DIFF
        BY <1>2, <3>1, WearPair DEF CtlInv
    <3>3. Pair(work.e1, work.e2)'
        BY <1>1, <1>2, <1>4, <2>2, <2>4, <3>2 DEF Pair
    <3>4. Chosen'
        BY <1>4, <3>3 DEF Chosen
    <3>5. UsedThen' = UsedThen /\ ScrubThen' = ScrubThen
        BY <1>1, <1>2, <1>4, <2>4, <3>2, ThenIs
    <3>6. Paid(R)'
        BY <1>1, <2>1, <2>2, <3>5 DEF Paid
    <3>7. Affords(R)'
        BY <1>1, <1>4, <2>1, <2>6 DEF Affords, Room
    <3> QED
        BY <1>1, <1>6, <3>4, <3>6, <3>7 DEF StackNow
  <2>5. CASE scrub # {}
    <3>1. Chosen'
        BY <1>4, <2>5 DEF Chosen
    <3>2. ScrubThen' = ScrubThen
        BY <1>1, <1>2, <1>4, <2>3, <2>5, ThenIs
    <3>3. FreeThen \subseteq R
        BY <1>1, <2>1, <2>5, ThenIs DEF Paid
    <3>4. Funds(R, EcThen', FreeThen', UsedThen')
        BY <2>2, <3>3 DEF Funds
    <3>5. Paid(R)'
        BY <1>1, <2>1, <2>2, <3>2, <3>4 DEF Paid
    <3>6. Affords(R)'
        BY <1>1, <1>4, <2>1, <2>6 DEF Affords, Room
    <3> QED
        BY <1>1, <1>6, <3>1, <3>5, <3>6 DEF StackNow
  <2> QED
      BY <2>4, <2>5
<1> QED
    BY <1>5, <1>6

\* A move that is done costs one eraseblock of those that pay: the target of one that scrubs, and
\* the source or the target of one that levels the wear.
LEMMA MovedStack ==
  ASSUME UBI_WL_THRESHOLD >= 2, PlaceInv, Moved, StackNow, Room
  PROVE  StackNow'
<1>1. /\ work.k = "copy" /\ ~ro_mode /\ ~ro_mode'
      /\ used' = used \cup {work.e2} /\ free' = free /\ scrub' = scrub /\ prot' = prot /\ ec' = ec
      /\ work' = EraseWork(work.e1, FALSE) /\ depth' = depth + 1
    BY DEF Moved, Copying, Schedule
<1>2. /\ work.e1 \in PEB /\ work.e2 \in PEB /\ work.e1 # work.e2
      /\ free \in SUBSET PEB /\ used \in SUBSET PEB /\ scrub \in SUBSET PEB
      /\ work.flag \in BOOLEAN
    BY <1>1 DEF PlaceInv, CtlInv, ControlOK, OpOwns, TypeOK
<1>3. {work.e1, work.e2} \cap (free \cup used \cup scrub \cup DOMAIN prot) = {}
  <2>1. Hands = {work.e1, work.e2}
      BY <1>1, HandsAre DEF PlaceInv, HandsOf
  <2> QED
      BY <1>1, <2>1 DEF PlaceInv, OnePlace
<1>4. work'.k = "erase" /\ work'.e1 = work.e1 /\ ~work'.flag
    BY <1>1, <1>2, EraseType DEF EraseWork
<1>5. PICK R \in SUBSET PEB : Paid(R) /\ Affords(R)
    BY <1>1 DEF StackNow
<1>6. Cycles' = 1
    BY <1>4 DEF Cycles
<1>7. /\ FreeThen = free \cup {work.e2} /\ FreeThen' = free \cup {work.e1}
      /\ EcThen = ec /\ EcThen' = [ec EXCEPT ![work.e1] = @ + 1]
      /\ UsedThen' = used \cup {work.e2} /\ ScrubThen' = scrub
    BY <1>1, <1>4, <1>6, ThenIs
<1>8. \E c \in R : Paid(R \ {c})'
  <2>1. CASE work.flag
    <3>1. ScrubThen = scrub \cup {work.e1}
        BY <1>1, <2>1, ThenIs
    <3>2. work.e1 \in R /\ work.e2 \in R /\ free \subseteq R /\ scrub \subseteq R /\ DOMAIN prot \subseteq R
        BY <1>5, <1>7, <3>1 DEF Paid
    <3>3. FreeThen' \subseteq R \ {work.e2}
        BY <1>2, <1>3, <1>7, <3>2
    <3>4. Funds(R \ {work.e2}, EcThen', FreeThen', UsedThen')
        BY <3>3 DEF Funds
    <3>5. ScrubThen' \subseteq R \ {work.e2} /\ DOMAIN prot' \subseteq R \ {work.e2}
        BY <1>1, <1>3, <1>7, <3>2
    <3> QED
        BY <3>2, <3>3, <3>4, <3>5 DEF Paid
  <2>2. CASE ~work.flag
    <3>1. UsedThen = used \cup {work.e1}
        BY <1>1, <2>2, ThenIs
    <3>2. /\ scrub = {} /\ \A u \in used : ec[work.e1] <= ec[u]
          /\ Possible(ec, FreeThen, work.e1, work.e2)
          /\ \A w \in FreeThen : \/ ec[w] <= ec[work.e2]
                                 \/ \E g \in FreeThen : ec[w] >= ec[g] + WL_FREE_MAX_DIFF
        BY <1>1, <2>2 DEF StackNow, Chosen, Pair
    <3>3. /\ ec \in [PEB -> Nat] /\ FreeThen \in SUBSET PEB /\ UsedThen \in SUBSET PEB
          /\ work.e1 \in UsedThen /\ work.e2 \in FreeThen
          /\ work.e1 \notin FreeThen /\ work.e2 \notin UsedThen
      <4>1. ec \in [PEB -> Nat]
          BY BoundsAssumption DEF PlaceInv, CtlInv, TypeOK
      <4> QED
          BY <1>2, <1>3, <1>7, <3>1, <4>1
    <3>4. \A u \in UsedThen : ec[work.e1] <= ec[u]
        BY <1>2, <3>1, <3>2, <3>3
    <3>5. Funds(R, ec, FreeThen, UsedThen) /\ DOMAIN prot \subseteq R
        BY <1>5, <1>7 DEF Paid
    <3>6. \E c \in R : /\ c \in {work.e1, work.e2}
                       /\ Funds(R \ {c}, [ec EXCEPT ![work.e1] = @ + 1],
                                (FreeThen \ {work.e2}) \cup {work.e1},
                                (UsedThen \ {work.e1}) \cup {work.e2})
        BY <3>2, <3>3, <3>4, <3>5, WearMove
    <3>7. /\ (FreeThen \ {work.e2}) \cup {work.e1} = FreeThen'
          /\ (UsedThen \ {work.e1}) \cup {work.e2} = UsedThen'
        BY <1>3, <1>7, <3>1
    <3>8. PICK c \in R : c \in {work.e1, work.e2} /\ Funds(R \ {c}, EcThen', FreeThen', UsedThen')
        BY <1>7, <3>6, <3>7
    <3>9. ScrubThen' = {} /\ DOMAIN prot' \subseteq R \ {c}
        BY <1>1, <1>3, <1>7, <3>2, <3>5, <3>8
    <3> QED
        BY <3>8, <3>9 DEF Paid
  <2> QED
      BY <1>2, <2>1, <2>2
<1>9. PICK c \in R : Paid(R \ {c})'
    BY <1>8
<1>10. Affords(R \ {c})'
  <2>1. /\ Cardinality(R) \in Nat /\ Cardinality(R \ {c}) = Cardinality(R) - 1
        /\ depth \in Nat /\ N \in Nat
      BY OneLess, BoundsAssumption DEF PlaceInv, CtlInv, TypeOK
  <2>2. depth + 2 * Cardinality(R) <= Allowed + 1
      BY <1>1, <1>5 DEF Affords
  <2> QED
      BY <1>1, <1>4, <2>1, <2>2 DEF Affords, Room
<1>11. Chosen'
    BY <1>4 DEF Chosen
<1>12. R \ {c} \in SUBSET PEB
    OBVIOUS
<1> QED
    BY <1>1, <1>9, <1>10, <1>11, <1>12 DEF StackNow

\* A move that is about to begin, or has begun, is paid for, so that it is not the last call that
\* is allowed.
LEMMA MovePaid ==
  ASSUME CtlInv, ~ro_mode, StackNow, work.k \in {"wl", "copy"}, Allowed \in Nat
  PROVE  depth + 1 <= Allowed
<1>1. Chosen
    BY DEF StackNow
<1>2. PICK R \in SUBSET PEB : Paid(R) /\ Affords(R)
    BY DEF StackNow
<1>3. R # {}
  <2>1. CASE ScrubThen # {}
      BY <1>2, <2>1 DEF Paid
  <2>2. CASE ScrubThen = {} /\ work.k = "wl"
    <3>1. scrub = {} /\ Needed /\ Funds(R, ec, free, used)
        BY <1>1, <1>2, <2>2, ThenIs DEF Chosen, Paid
    <3>2. /\ First(used) \in used /\ FindWlEntry(free, WL_FREE_MAX_DIFF) \in free
          /\ Possible(ec, free, First(used), FindWlEntry(free, WL_FREE_MAX_DIFF))
        BY <3>1, WearPair DEF Needed, CtlInv
    <3> QED
        BY <3>1, <3>2 DEF Funds
  <2>3. CASE ScrubThen = {} /\ work.k = "copy"
    <3>1. ~work.flag
        BY <2>3, ThenIs
    <3>2. Possible(ec, FreeThen, work.e1, work.e2)
        BY <1>1, <2>3, <3>1 DEF Chosen, Pair
    <3>3. work.e1 \in UsedThen /\ work.e2 \in FreeThen /\ Funds(R, ec, FreeThen, UsedThen)
        BY <1>2, <2>3, <3>1, ThenIs DEF Paid
    <3> QED
        BY <3>2, <3>3 DEF Funds
  <2> QED
      BY <2>1, <2>2, <2>3
<1>4. Cardinality(R) \in Nat /\ Cardinality(R) # 0
    BY <1>3, FinitePebs, FS_EmptySet
<1>5. depth + 2 * Cardinality(R) <= Allowed + 1 /\ depth \in Nat
    BY <1>2 DEF Affords, CtlInv, TypeOK
<1> QED
    BY <1>4, <1>5

\* A bit-flip in a copy: the move is not done, and all eraseblocks pay again.
LEMMA FlippedStack ==
  ASSUME CtlInv, TypeOK', NotMoved, ~ro_mode, StackNow, Room, Allowed' = Allowed + 2 * N
  PROVE  StackNow'
<1>1. /\ work.k = "copy" /\ ~ro_mode' /\ work' = EraseWork(work.e2, FALSE)
      /\ depth' = depth + 1 /\ work.e2 \in PEB /\ depth \in Nat /\ N \in Nat
    BY BoundsAssumption DEF NotMoved, Copying, Schedule, CtlInv, ControlOK, TypeOK
<1>2. work'.k = "erase" /\ work'.e1 = work.e2
    BY <1>1, EraseType
<1>3. depth + 1 <= Allowed
    BY <1>1, MovePaid DEF Room
<1>4. /\ FreeThen' \subseteq PEB /\ ScrubThen' \subseteq PEB /\ UsedThen' \subseteq PEB
      /\ DOMAIN prot' \subseteq PEB
  <2>1. /\ free' \subseteq PEB /\ used' \subseteq PEB /\ scrub' \subseteq PEB
        /\ DOMAIN prot' \subseteq PEB
      BY DEF TypeOK
  <2> QED
      BY <1>1, <1>2, <2>1, ThenIs
<1>5. Paid(PEB)'
    BY <1>4 DEF Paid, Funds
<1>6. Affords(PEB)'
    BY <1>1, <1>2, <1>3, FinitePebs DEF Affords, Room
<1>7. Chosen'
    BY <1>2 DEF Chosen
<1> QED
    BY <1>1, <1>5, <1>6, <1>7 DEF StackNow

\* On a writable device only a bit-flip prevents a move: the eraseblock is that of a LEB, as no
\* operation is under way.
LEMMA OnlyFlips ==
  ASSUME FreeInv, StackInv, Counted, ~ro_mode, NotMoved
  PROVE  "bitflip" \in run.faults /\ faults' = faults + 1
<1>1. /\ work.k = "copy" /\ work.e1 \in PEB /\ work # NoWork
      /\ \/ owner[work.e1] \in {"none", "new", "blank"}
         \/ "bitflip" \in run.faults /\ faults' = faults + 1
    BY NoWorkType DEF NotMoved, Unmovable, Copying, Fault, FreeInv, OwnInv, PlaceInv, CtlInv, ControlOK
<1>2. op.k = "none"
    BY <1>1 DEF StackInv, Counted, FreeInv, OwnInv, PlaceInv, CtlInv, ControlOK, TypeOK
<1>3. owner[work.e1] # "none"
    BY <1>1 DEF FreeInv, OwnInv, MoveOwned, Counted, InUse, Owned, Lost
<1>4. owner[work.e1] # "new"
    BY <1>1, <1>2 DEF FreeInv, Reserved
<1>5. owner[work.e1] # "blank"
    BY <1>1, NoneLostYet DEF FreeInv, OwnInv, NoLost, Counted, Lost
<1> QED
    BY <1>1, <1>3, <1>4, <1>5

\* The work that runs.
LEMMA WorkStack ==
  ASSUME StackSafe, FreeInv, StackInv, TypeOK', Counted, StackNow, Work, run' = run,
         faults' \in {faults, faults + 1}, work' # NoWork
  PROVE  StackNow'
<1>0. Room /\ ("bitflip" \in run.faults /\ faults' = faults + 1 => Allowed' = Allowed + 2 * N)
    BY AllowedGrows DEF StackInv
<1>1. CASE Erase
    BY <1>0, <1>1, EraseStack DEF FreeInv, OwnInv, PlaceInv
<1>2. CASE EraseRefused \/ EraseFailed \/ MoveCancelled \/ MoveNoMemory \/ MoveNotErased
           \/ MoveProtects \/ MoveFailed
    BY <1>2 DEF EraseRefused, EraseFailed, MoveCancelled, MoveNoMemory, MoveNotErased, MoveProtects,
                MoveFailed, Returned
<1>3. CASE MoveBegin
    BY <1>0, <1>3, BeginStack DEF FreeInv, OwnInv, PlaceInv
<1>4. CASE Moved
    BY <1>0, <1>4, MovedStack DEF FreeInv, OwnInv, StackSafe
<1>5. CASE NotMoved /\ ~ro_mode
  <2>1. Allowed' = Allowed + 2 * N
      BY <1>0, <1>5, OnlyFlips
  <2> QED
      BY <1>0, <1>5, <2>1, FlippedStack DEF FreeInv, OwnInv, PlaceInv
<1>6. CASE NotMoved /\ ro_mode
  <2>1. /\ work.k = "copy" /\ ro_mode' = ro_mode /\ work' = EraseWork(work.e2, FALSE)
        /\ depth' = depth + 1 /\ work.e2 \in PEB /\ depth \in Nat
      BY <1>6 DEF NotMoved, Copying, Schedule, FreeInv, OwnInv, PlaceInv, CtlInv, ControlOK, TypeOK
  <2>2. work'.k = "erase"
      BY <2>1, EraseType
  <2> QED
      BY <1>6, <2>1, <2>2 DEF StackNow
<1> QED
    BY <1>1, <1>2, <1>3, <1>4, <1>5, <1>6 DEF Work

\* All eraseblocks can pay when the first call begins.
LEMMA RoomForAll ==
  ASSUME Room
  PROVE  1 + 2 * Cardinality(PEB) <= Allowed' + 1
<1>1. N \in Nat /\ Cardinality(PEB) = N
    BY FinitePebs, BoundsAssumption
<1>2. Allowed' \in Nat /\ Allowed' >= 2 * N
    BY <1>1 DEF Room
<1>3. \A b \in Nat : b >= 2 * N => 1 + 2 * N <= b + 1
    BY <1>1
<1>4. 1 + 2 * N <= Allowed' + 1
    BY <1>2, <1>3
<1> QED
    BY <1>1, <1>4

\* Wear-levelling that starts when no other work runs: all eraseblocks pay.
LEMMA EnsureStack ==
  ASSUME TypeOK, TypeOK', EnsureWearLeveling, depth = 0, work' # NoWork, Room
  PROVE  StackNow'
<1>1. work' = WearLevelling /\ Needed'
    BY EnsureType
<1>2. depth' = 1
    BY <1>1, NoWorkType, WlType DEF EnsureWearLeveling, Returned, Schedule
<1>3. work'.k = "wl"
    BY <1>1, WlType
<1>4. Chosen'
    BY <1>1, <1>3 DEF Chosen
<1>5. /\ FreeThen' \subseteq PEB /\ ScrubThen' \subseteq PEB /\ UsedThen' \subseteq PEB
      /\ DOMAIN prot' \subseteq PEB
    BY <1>3, ThenIs DEF TypeOK
<1>6. Paid(PEB)'
    BY <1>5 DEF Paid, Funds
<1>7. Affords(PEB)'
    BY <1>2, <1>3, RoomForAll DEF Affords
<1> QED
    BY <1>2, <1>3, <1>4, <1>6, <1>7 DEF StackNow

\* An erasure that starts when no other work runs, and one eraseblock that need not pay: it is
\* neither protected nor to be scrubbed, nor does it take part in wear-levelling.
LEMMA StartsErase ==
  ASSUME NEW p \in PEB, NEW t \in BOOLEAN, work' = EraseWork(p, t), depth' = 1, NEW q \in PEB,
         TypeOK', Room, q \notin scrub' \cup DOMAIN prot',
         q \in free' \cup {p} => used' = {} /\ scrub' = {}
  PROVE  StackNow'
<1>1. work'.k = "erase" /\ work'.e1 = p
    BY EraseType
<1>2. Chosen'
    BY <1>1 DEF Chosen
<1>3. /\ FreeThen' = free' \cup {p} /\ UsedThen' = used' /\ ScrubThen' = scrub'
      /\ FreeThen' \subseteq PEB /\ UsedThen' \subseteq PEB /\ ScrubThen' \subseteq PEB
      /\ DOMAIN prot' \subseteq PEB
    BY <1>1, ThenIs DEF TypeOK
<1>4. ScrubThen' # {} => FreeThen' \subseteq PEB \ {q}
    BY <1>3
<1>5. Funds(PEB \ {q}, EcThen', FreeThen', UsedThen')
    BY <1>3 DEF Funds
<1>6. Paid(PEB \ {q})'
    BY <1>3, <1>4, <1>5 DEF Paid
<1>7. Affords(PEB \ {q})'
  <2>1. Cardinality(PEB \ {q}) = N - 1 /\ N \in Nat
      BY FinitePebs, OneLess, BoundsAssumption
  <2> QED
    <3>1. Allowed' \in Nat /\ Allowed' >= 2 * N
        BY <2>1 DEF Room
    <3>2. depth' + 2 * Cardinality(PEB \ {q}) <= Allowed'
        BY <2>1, <3>1
    <3> QED
        BY <1>1, <3>1, <3>2 DEF Affords
<1>8. PEB \ {q} \in SUBSET PEB
    OBVIOUS
<1>9. depth' <= 2
    OBVIOUS
<1> QED
    BY <1>1, <1>2, <1>6, <1>7, <1>8, <1>9 DEF StackNow

\* Putting an eraseblock.  One that is used or bad need not pay; if there is none, the one that is
\* put need not, since nothing is left to be scrubbed.
LEMMA PutStack ==
  ASSUME FreeInv, ScrubbingInv, StackInv, TypeOK', Room, attached, work = NoWork,
         run.faults \cap {"nomem", "readback"} = {}, NEW p \in PEB, NEW t \in BOOLEAN, PutPeb(p, t),
         bad' = bad, work' # NoWork
  PROVE  StackNow'
<1>1. /\ Listed(p) /\ used' = used \ {p} /\ scrub' = scrub \ {p} /\ free' = free
      /\ DOMAIN prot' = DOMAIN prot \ {p} /\ work' = EraseWork(p, t) /\ depth' = 1
      /\ ro_mode' = ro_mode
  <2>1. Listed(p) /\ Schedule(EraseWork(p, t))
      BY DEF PutPeb
  <2>2. depth = 0
      BY DEF StackInv
  <2> QED
      BY <2>1, <2>2, UnprotectFacts DEF PutPeb, Schedule
<1>2. CASE ro_mode
  <2>1. work'.k = "erase"
      BY <1>1, EraseType
  <2> QED
      BY <1>1, <1>2, <2>1 DEF StackNow
<1>3. CASE ~ro_mode
  <2>1. /\ free \cap (used \cup scrub \cup DOMAIN prot \cup bad) = {}
        /\ used \cap (scrub \cup DOMAIN prot) = {} /\ bad \cap (used \cup scrub \cup DOMAIN prot) = {}
      BY <1>3 DEF FreeInv, OwnInv, PlaceInv, OnePlace
  <2>2. bad \subseteq PEB /\ used \subseteq PEB
      BY DEF FreeInv, OwnInv, PlaceInv, CtlInv, TypeOK
  <2>3. CASE used' \cup bad # {}
    <3>1. PICK q \in used' \cup bad : TRUE
        BY <2>3
    <3>2. q \in PEB /\ q # p /\ q \notin free' \cup scrub' \cup DOMAIN prot'
        BY <1>1, <2>1, <2>2, <3>1 DEF Listed
    <3> QED
        BY <1>1, <3>2, StartsErase
  <2>4. CASE used' = {} /\ bad = {}
    <3>1. Lost = {} /\ "nomem" \notin run.faults
        BY NoneLostYet DEF FreeInv, OwnInv, NoLost
    <3>2. Cardinality(Lost) = 0 /\ avail_pebs \in Nat /\ beb_rsvd_pebs \in Nat
        BY <3>1, FS_EmptySet DEF FreeInv, OwnInv, PlaceInv, CtlInv, TypeOK
    <3>3. free # {}
        BY <1>3, <3>1, <3>2, FreeLeft DEF FreeRemains, Idle
    <3>4. scrub = {}
        BY <1>3, <2>4, <3>1, <3>3 DEF ScrubbingInv, ScrubDone, Idle
    <3> QED
        BY <1>1, <2>4, <3>4, StartsErase
  <2> QED
      BY <2>3, <2>4
<1> QED
    BY <1>2, <1>3 DEF FreeInv, OwnInv, PlaceInv, CtlInv, TypeOK

\* Calls of do_work that return, calls that start nothing, and calls that do.
LEMMA DepthStep ==
  ASSUME CtlInv, StackInv, Next
  PROVE  faults' \in {faults, faults + 1} /\ (work' = NoWork => depth' = 0)
<1>1. /\ \A p, t : EraseWork(p, t) # NoWork
      /\ \A p, q, t : Copy(p, q, t) # NoWork /\ WearLevelling # NoWork
    BY DEF EraseWork, Copy, WearLevelling, NoWork
<1>2. faults \in Nat /\ (work = NoWork => depth = 0)
    BY DEF StackInv
<1>3. \A k : Fault(k) => faults' \in {faults, faults + 1}
    BY <1>2 DEF Fault
<1>4. EnsureWearLeveling => faults' \in {faults, faults + 1} /\ (work' = NoWork => depth' = 0)
    BY <1>1, <1>2, <1>3 DEF EnsureWearLeveling, Returned, Schedule
<1>5. CASE Erase \/ AttachEnd \/ \E p \in PEB : ScrubPeb(p) /\ Listed(p)
    BY <1>4, <1>5 DEF Erase, AttachEnd, ScrubPeb
<1>6. CASE EraseRefused \/ EraseFailed \/ MoveCancelled \/ MoveNoMemory \/ MoveNotErased
           \/ MoveProtects \/ MoveFailed
    BY <1>2, <1>3, <1>6 DEF EraseRefused, EraseFailed, MoveCancelled, MoveNoMemory, MoveNotErased,
                            MoveProtects, MoveFailed, Returned
<1>7. CASE MoveBegin \/ Moved \/ NotMoved \/ \E p \in PEB : AttachErase(p)
    BY <1>1, <1>2, <1>3, <1>7 DEF MoveBegin, Moved, NotMoved, AttachErase, Schedule
<1>8. ASSUME NEW p, NEW t, PutPeb(p, t) \/ PutNoMemory(p)
      PROVE  faults' \in {faults, faults + 1} /\ (work' = NoWork => depth' = 0)
  <2>1. CASE PutPeb(p, t)
      BY <1>1, <1>2, <2>1 DEF PutPeb, Schedule
  <2>2. CASE PutNoMemory(p)
      BY <1>2, <1>3, <2>2 DEF PutNoMemory, works
  <2> QED
      BY <1>8, <2>1, <2>2
<1>9. CASE ChangePut \/ WriteFailed \/ \E p \in PEB : UnmapLeb(p)
    BY <1>8, <1>9 DEF ChangePut, WriteFailed, UnmapLeb
<1>10. CASE \/ \E d \in DataTypes : WriteLeb(d) \/ \E old \in PEB : ChangeLeb(old, d)
            \/ WriteDone
            \/ \E p \in PEB : ScrubPeb(p) /\ ~Listed(p)
    BY <1>2, <1>10 DEF WriteLeb, ChangeLeb, WriteDone, ScrubPeb, works
<1> QED
    BY <1>5, <1>6, <1>7, <1>9, <1>10 DEF Next, Work, Eba

\* A write that does not change a LEB starts no work before it is done or has failed.
LEMMA WriteStep ==
  ASSUME CtlInv, StackInv, Next, op'.k = "write", op'.old = NoPeb
  PROVE  work' = NoWork
<1>n. NoOp.k = "none"
    BY DEF NoOp
<1>1. CASE Work
  <2>1. op' = op /\ work # NoWork
      BY <1>1, NoWorkType DEF Work, Erase, EraseRefused, EraseFailed, MoveCancelled, MoveBegin, MoveNoMemory,
             Moved, NotMoved, MoveNotErased, MoveProtects, MoveFailed, Erasing, Moving, Copying
  <2> QED
      BY <2>1 DEF StackInv
<1>2. CASE AttachEnd \/ \E p \in PEB : AttachErase(p)
  <2>1. op' = op /\ ~attached
      BY <1>2 DEF AttachEnd, AttachErase
  <2> QED
      BY <1>n, <2>1 DEF CtlInv, ControlOK
<1>3. CASE \E d \in DataTypes : WriteLeb(d) \/ \E old \in PEB : ChangeLeb(old, d)
    BY <1>3 DEF WriteLeb, ChangeLeb, Call, Ready, works
<1>4. CASE ChangePut
  <2>1. op.k = "change" /\ op.old \in PEB
      BY <1>4 DEF ChangePut, CtlInv, ControlOK
  <2>2. op' = NoOp \/ op'.old = op.old
      BY <1>4 DEF ChangePut, CtlInv, TypeOK
  <2> QED
      BY <1>n, <2>1, <2>2, NoPebIsNone
<1>5. CASE WriteDone \/ WriteFailed
    BY <1>5, <1>n DEF WriteDone, WriteFailed
<1>6. CASE \E p \in PEB : UnmapLeb(p) \/ ScrubPeb(p)
    BY <1>6, <1>n DEF UnmapLeb, ScrubPeb, Call, Ready
<1> QED
    BY <1>1, <1>2, <1>3, <1>4, <1>5, <1>6 DEF Next, Eba

\* The calls of the EBA unit, and attaching.
LEMMA CallsStack ==
  ASSUME FreeInv, ScrubbingInv, StackInv, TypeOK', Room, Next, ~Work, Counted', run' = run,
         work' # NoWork
  PROVE  StackNow'
<1>0. /\ TypeOK /\ CtlInv /\ (work = NoWork => depth = 0)
      /\ run.faults \cap {"nomem", "readback"} = {} /\ "nomem" \notin run.faults
    BY DEF FreeInv, OwnInv, PlaceInv, CtlInv, StackInv, Counted
<1>1. ASSUME NEW p \in PEB, AttachErase(p) PROVE StackNow'
  <2>1. /\ work' = EraseWork(p, FALSE) /\ depth' = 1 /\ ~attached
        /\ used' = used /\ scrub' = scrub /\ prot' = prot
      BY <1>0, <1>1 DEF AttachErase, Schedule, trees
  <2>2. used' = {} /\ scrub' = {} /\ DOMAIN prot' = {}
      BY <1>0, <2>1 DEF CtlInv, ControlOK
  <2> QED
      BY <2>1, <2>2, StartsErase
<1>2. CASE AttachEnd
    BY <1>0, <1>2, EnsureStack DEF AttachEnd
<1>3. CASE \/ \E d \in DataTypes : WriteLeb(d) \/ \E old \in PEB : ChangeLeb(old, d)
           \/ WriteDone
    BY <1>3 DEF WriteLeb, ChangeLeb, WriteDone, Call, Ready, works
<1>4. \A p \in PEB : ~PutNoMemory(p)
    BY <1>0 DEF PutNoMemory, Fault
<1>5. CASE ChangePut
  <2>1. op.k = "change" /\ op.old \in PEB
      BY <1>0, <1>5 DEF ChangePut, CtlInv, ControlOK
  <2>2. op' = [op EXCEPT !.k = "write"]
      BY <1>4, <1>5, <2>1 DEF ChangePut
  <2>3. op'.old = op.old
      BY <1>0, <2>2 DEF TypeOK
  <2> QED
      BY <2>1, <2>3, NoPebIsNone DEF Counted
<1>6. CASE WriteFailed
  <2>1. op.k \in {"write", "change"} /\ work = NoWork /\ PutPeb(op.pnum, TRUE) /\ bad' = bad
      BY <1>6 DEF WriteFailed, reserve
  <2>2. op.pnum \in PEB /\ attached
      BY <1>0, <2>1 DEF CtlInv, ControlOK, NoOp
  <2> QED
      BY <1>0, <2>1, <2>2, PutStack
<1>7. ASSUME NEW p \in PEB, UnmapLeb(p) PROVE StackNow'
  <2>1. attached /\ work = NoWork /\ PutPeb(p, FALSE) /\ bad' = bad
      BY <1>4, <1>7 DEF UnmapLeb, Call, Ready, reserve
  <2> QED
      BY <1>0, <2>1, PutStack
<1>8. ASSUME NEW p \in PEB, ScrubPeb(p) PROVE StackNow'
  <2>1. work = NoWork
      BY <1>8 DEF ScrubPeb, Call, Ready
  <2>2. CASE Listed(p)
      BY <1>0, <1>8, <2>1, <2>2, EnsureStack DEF ScrubPeb
  <2>3. CASE ~Listed(p)
      BY <1>8, <2>1, <2>3 DEF ScrubPeb, works
  <2> QED
      BY <2>2, <2>3
<1> QED
    BY <1>1, <1>2, <1>3, <1>5, <1>6, <1>7, <1>8 DEF Next, Eba

\* The invariants the bound rests on.
CallsInv == FreeInv /\ ScrubbingInv /\ StackInv

LEMMA NextStack == StackSafe /\ CallsInv /\ [Next]_vars => CallsInv'
<1> SUFFICES ASSUME StackSafe, CallsInv, [Next]_vars PROVE CallsInv'
    OBVIOUS
<1>1. FreeInv' /\ ScrubbingInv' /\ run' = run
    BY NextFree, NextScrub, RunStays DEF CallsInv
<1>2. CtlInv /\ TypeOK'
    BY <1>1 DEF CallsInv, FreeInv, OwnInv, PlaceInv, CtlInv
<1>3. CASE Next
  <2>1. faults' \in {faults, faults + 1} /\ (work' = NoWork => depth' = 0) /\ faults \in Nat
      BY <1>2, <1>3, DepthStep DEF CallsInv, StackInv
  <2>2. op'.k = "write" /\ op'.old = NoPeb => work' = NoWork
      BY <1>2, <1>3, WriteStep DEF CallsInv
  <2>3. ASSUME Counted', work' # NoWork PROVE StackNow'
    <3>1. CASE Work
      <4>1. op' = op /\ work # NoWork
          BY <3>1, NoWorkType DEF Work, Erase, EraseRefused, EraseFailed, MoveCancelled, MoveBegin,
                 MoveNoMemory, Moved, NotMoved, MoveNotErased, MoveProtects, MoveFailed, Erasing,
                 Moving, Copying
      <4>2. Counted /\ StackNow
          BY <1>1, <2>3, <4>1 DEF Counted, CallsInv, StackInv
      <4> QED
          BY <1>1, <1>2, <2>1, <2>3, <3>1, <4>2, WorkStack DEF CallsInv
    <3>2. CASE ~Work
      <4>1. Room
          BY <1>1, <2>1, AllowedGrows
      <4> QED
          BY <1>1, <1>2, <1>3, <2>3, <3>2, <4>1, CallsStack DEF CallsInv
    <3> QED
        BY <3>1, <3>2
  <2> QED
      BY <1>1, <2>1, <2>2, <2>3 DEF CallsInv, StackInv
<1>4. CASE UNCHANGED vars
  <2>1. UNCHANGED <<run, free, used, scrub, prot, ec, work, depth, ro_mode, op, faults>>
      BY <1>4 DEF vars, trees, works
  <2>2. /\ FreeThen' = FreeThen /\ UsedThen' = UsedThen /\ ScrubThen' = ScrubThen
        /\ EcThen' = EcThen /\ Needed' = Needed
      BY <2>1 DEF FreeThen, UsedThen, ScrubThen, EcThen, Cycles, Needed, TooFar, First, Last, FindWlEntry, Before
  <2>3. Counted' = Counted /\ StackNow' = StackNow
      BY <2>1, <2>2 DEF Counted, StackNow, Chosen, Pair, Paid, Affords, Allowed
  <2> QED
      BY <1>1, <2>1, <2>3 DEF CallsInv, StackInv
<1> QED
    BY <1>3, <1>4

LEMMA InitStack == Init => CallsInv
<1> SUFFICES ASSUME Init PROVE CallsInv
    OBVIOUS
<1>1. FreeInv /\ ScrubbingInv
    BY InitOwn, InitReserved, InitScrub DEF FreeInv
<1>2. faults = 0 /\ depth = 0 /\ work = NoWork
    BY DEF Init
<1> QED
    BY <1>1, <1>2 DEF CallsInv, StackInv

\* While memory suffices, the headers of copies read back and no atomic change is under way, the calls
\* of do_work inside each other are no more than is allowed.
CallsBounded == Counted => depth <= Allowed

LEMMA StackEnough == CallsInv => CallsBounded
<1> SUFFICES ASSUME CallsInv, Counted PROVE depth <= Allowed
    BY DEF CallsBounded
<1>1. TypeOK /\ CtlInv /\ faults \in Nat /\ depth \in Nat /\ N \in Nat
    BY BoundsAssumption DEF CallsInv, FreeInv, OwnInv, PlaceInv, CtlInv, TypeOK, StackInv
<1>2. N >= 2
  <2>1. run \in Scenarios
      BY <1>1 DEF TypeOK
  <2>2. run.used \cup run.scrub \in SUBSET PEB
      BY <2>1, RunType
  <2>3. /\ Cardinality(run.used \cup run.scrub) \in Nat /\ run.avail \in Nat /\ run.beb \in Nat
        /\ Cardinality(run.used \cup run.scrub) <= VolPebs(run)
      BY <2>1, <2>2, RunType, FinitePebs
  <2> QED
      BY <1>1, <2>3 DEF VolPebs, WL_RESERVED_PEBS, EBA_RESERVED_PEBS
<1>3. Allowed \in Nat /\ Allowed >= 2 * N
    BY <1>1, AllowedIs
<1>4. CASE work = NoWork
    BY <1>1, <1>3, <1>4 DEF CallsInv, StackInv
<1>5. CASE work # NoWork
  <2>1. StackNow
      BY <1>5 DEF CallsInv, StackInv
  <2>2. CASE ro_mode
      BY <1>1, <1>2, <1>3, <2>1, <2>2 DEF StackNow
  <2>3. CASE ~ro_mode /\ work.k = "erase"
    <3>1. PICK R \in SUBSET PEB : Affords(R)
        BY <2>1, <2>3 DEF StackNow
    <3>2. Cardinality(R) \in Nat
        BY FinitePebs
    <3> QED
        BY <1>1, <1>3, <2>3, <3>1, <3>2 DEF Affords
  <2>4. CASE ~ro_mode /\ work.k # "erase"
    <3>1. work.k \in {"wl", "copy"}
        BY <1>1, <1>5, <2>4 DEF CtlInv, TypeOK, ControlOK
    <3> QED
        BY <1>1, <1>3, <2>1, <2>4, <3>1, MovePaid
  <2> QED
      BY <2>2, <2>3, <2>4
<1> QED
    BY <1>4, <1>5

\* schedule_ubi_work calls do_work, so that an erasure starts a move inside it and the move an
\* erasure inside itself.  On every device, whatever its counters, however many eraseblocks are to be
\* scrubbed and whatever faults there are but a lack of memory and unreadable headers of copies,
\* while no atomic change holds an eraseblock that cannot be moved, these calls return, having gone no
\* deeper than two for each eraseblock, and as many again for each fault where copies meet bit-flips.
THEOREM CallsReturn == ASSUME StackSafe PROVE Spec => []CallsBounded
<1>1. CallsInv /\ [Next]_vars => CallsInv'
    BY NextStack
<1> QED
    BY <1>1, InitStack, StackEnough, PTL DEF Spec

\* StackBounded, on devices whose copies read back as they were written: the calls return before each
\* eraseblock has cost two of them.
THEOREM CallsEnd ==
  ASSUME StackSafe, \A s \in Scenarios : "bitflip" \notin s.faults
  PROVE  Spec => []StackBounded
<1>1. CallsInv => StackBounded
  <2> SUFFICES ASSUME CallsInv, Counted PROVE depth <= 2 * (N + faults)
      BY DEF StackBounded, Counted
  <2>1. run \in Scenarios /\ faults \in Nat /\ N \in Nat /\ depth \in Nat
      BY BoundsAssumption DEF CallsInv, FreeInv, OwnInv, PlaceInv, CtlInv, TypeOK, StackInv
  <2>2. depth <= 2 * N
      BY <2>1, StackEnough DEF CallsBounded, Allowed
  <2> QED
      BY <2>1, <2>2
<1>2. CallsInv /\ [Next]_vars => CallsInv'
    BY NextStack
<1> QED
    BY <1>1, <1>2, InitStack, PTL DEF Spec
=============================================================================
