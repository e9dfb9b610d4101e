------------------------- MODULE UbiEba_map_proofs --------------------------
(***************************************************************************)
(* More proofs about UbiEba: the mapping in RAM, the copies on the flash   *)
(* and the trees of the WL unit stay in step, for every number of          *)
(* eraseblocks, LEBs, pages and retries, wherever power is cut and         *)
(* whatever fails, but for two kinds of fault after which they do not:     *)
(* RecoverySafe names them.                                                *)
(***************************************************************************)
EXTENDS UbiEba_proofs, FiniteSetTheorems

USE PebFinite, LebAssumption

\* A second write error, inside recover_peb, lets wear-levelling move the LEB away and use its
\* eraseblock for another one before recover_peb goes on with it.
RecoversAtOnce == {"inplace", "write"} \subseteq Faults => MaxFaults <= 1

\* A move whose copy reads back wrong is taken for done although the LEB stays mapped to the
\* source (MoveMismatch).
RecoverySafe == RecoversAtOnce /\ "miswrite" \notin Faults

-----------------------------------------------------------------------------
(* The invariant, in parts.                                                 *)

\* An atomic change that has given its old eraseblock away and not yet mapped the new one.
Changing == op.kind = "change" /\ op.pc = "map"

\* Which operation is at which point; when one waits for work, and what holds while it does not.
Stages ==
  /\ up # "up" => free = {} /\ used = {} /\ todo = {} /\ op.pc = "idle"
  /\ op.pc \in {"vid", "data", "inplace", "rget", "rvid", "rdata"} => work = NoWork
  /\ op.pc \in {"vid", "data", "map", "retry"} => op.kind \in {"write", "change"}
  /\ op.pc = "map" /\ op.kind = "write" => work = NoWork
  /\ op.kind = "change" => op.arg # <<>>
  /\ op.kind = "write" => op.lnum \in LEB /\ eba_tbl[op.lnum] = NoPeb
  /\ op.pc # "rretry"
  /\ op.pc \in {"inplace", "rget", "rvid", "rdata"} => ~ro_mode
  /\ op.pc \in {"rget", "rvid", "rdata"} => "inplace" \in Faults /\ faults >= 1
  /\ op.pc = "attach" => work.k \in {"none", "erase"}
  /\ todo # {} => op.pc = "attach"

\* Headers name LEBs, and what the WL unit hands out is erased.
Erased ==
  /\ \A p \in PEB : flash[p].st = "used" => flash[p].lnum \in LEB
  /\ \A p \in free : flash[p].st = "free"

\* The eraseblocks in the hands of an operation.
OpHolds ==
  /\ op.pc \in {"vid", "rvid"} => flash[op.pnum].st = "free" /\ op.pnum \notin free
  /\ op.pc \in {"data", "rdata", "map"} => op.pnum \in Copies(op.lnum) /\ eba_tbl[op.lnum] # op.pnum
  /\ op.pc \in {"inplace", "rget", "rvid", "rdata"} => op.old = eba_tbl[op.lnum]

\* The eraseblocks in the hands of a move.
MoveHolds ==
  /\ work.k = "mvid" => flash[work.to].st = "free" /\ work.to \notin free
  /\ work.k = "mdata" =>
       /\ Src.st = "used" /\ eba_tbl[Src.lnum] = work.from
       /\ work.to \in Copies(Src.lnum) /\ work.to # work.from /\ work.to \notin free
       /\ ~ro_mode

\* What the stale mapping of an atomic change still means.
Stale ==
  Changing =>
    /\ work.k = "erase" => \/ work.from = eba_tbl[op.lnum]
                           \/ /\ work.from \notin Copies(op.lnum)
                              /\ eba_tbl[op.lnum] \notin Copies(op.lnum)
    /\ work.k \in {"mvid", "mdata"} => eba_tbl[op.lnum] \notin Copies(op.lnum)
    /\ work.k = "none" /\ ~ro_mode => eba_tbl[op.lnum] \notin Copies(op.lnum)

\* What is to be erased is not free, and what attaching still has to erase is mapped by no LEB.
TodoUnmapped == /\ todo \cap free = {}
                /\ work.k = "erase" => work.from \notin free \cup todo
                /\ \A l \in LEB : eba_tbl[l] \notin todo

InStep == /\ Stages /\ Erased /\ OpHolds /\ MoveHolds /\ Stale /\ TodoUnmapped
          /\ MappingValid /\ ErasedIsUnmapped
MapInv == CtlInv /\ InStep

\* At most one copy of a LEB is not the one it is mapped to, and, on a device that is writable,
\* that one is about to be mapped or erased.
Few == \A l \in LEB : \A p, q, r \in Copies(l) : p = q \/ q = r \/ p = r
Lone == up = "up" => \A l \in LEB : \A p, q \in Copies(l) \ {eba_tbl[l]} : p = q
InFlight == {p \in PEB : \/ p \in todo
                         \/ work.k = "erase" /\ p = work.from
                         \/ work.k = "mdata" /\ p = work.to
                         \/ op.pc \in {"data", "map", "rdata"} /\ p = op.pnum}
Extra == up = "up" /\ ~ro_mode =>
           \A l \in LEB : Copies(l) \subseteq {eba_tbl[l]} \cup InFlight

\* On a writable device every eraseblock is in one place: a tree of the WL unit, the hands of the
\* work that runs, or what attaching has yet to erase.
Hands == {p \in PEB : \/ work.k # "none" /\ p = work.from
                      \/ work.k \in {"mvid", "mdata"} /\ p = work.to}
Tidy == up = "up" /\ ~ro_mode =>
          /\ free \cap used = {} /\ free \cap Hands = {} /\ used \cap Hands = {}
          /\ todo \cap (free \cup used \cup Hands) = {}
          /\ work.k \in {"mvid", "mdata"} => work.from # work.to
          /\ \A p \in PEB : flash[p].st = "bad" \/ p \in free \cup used \cup todo \cup Hands

\* What is in use, moved or not, is mapped, in the hands of the operation, or the target of a move
\* whose header could not be read back.
InUse == used \cup {p \in PEB : work.k \in {"mvid", "mdata"} /\ p = work.from}
Mapped(p) == \E l \in LEB : eba_tbl[l] = p /\ ~(Changing /\ op.lnum = l)
Held(p) == op.pc \in {"vid", "data", "map", "rvid", "rdata"} /\ p = op.pnum
Owned == up = "up" /\ ~ro_mode => \A p \in InUse : Mapped(p) \/ Held(p) \/ p \in lost

CopyInv == MapInv /\ SqnumInv /\ Few /\ Lone /\ Extra
PlaceInv == CopyInv /\ Tidy /\ Owned

-----------------------------------------------------------------------------
(* What steps do to the operation, the work and the flash.                  *)

\* The operation goes on.
SameOp == /\ op'.kind = op.kind /\ op'.lnum = op.lnum /\ op'.arg = op.arg
          /\ op'.pnum = op.pnum /\ op'.old = op.old

LEMMA GotoFacts ==
  ASSUME TypeOK, NEW pc, op' = [op EXCEPT !.pc = pc]
  PROVE  SameOp /\ op'.pc = pc
  BY DEF TypeOK, Op, SameOp

LEMMA IdleFacts == \A ret : Idle(ret).pc = "idle" /\ Idle(ret).kind = "idle"
  BY DEF Idle

LEMMA NewOpFacts ==
  ASSUME NEW kind, NEW pc, NEW l, NEW c
  PROVE  /\ NewOp(kind, pc, l, c).kind = kind /\ NewOp(kind, pc, l, c).pc = pc
         /\ NewOp(kind, pc, l, c).lnum = l /\ NewOp(kind, pc, l, c).arg = c
  BY DEF NewOp, Idle

LEMMA WorkFacts == /\ NoWork.k = "none" /\ NoWork.from = NoPeb /\ NoWork.to = NoPeb
                   /\ \A p : Erase(p).k = "erase" /\ Erase(p).from = p /\ Erase(p).to = NoPeb
                   /\ \A p, q : /\ Move(p, q).k = "mvid" /\ Move(p, q).from = p
                                /\ Move(p, q).to = q
  BY DEF NoWork, Erase, Move

\* One eraseblock is written, and reads as r afterwards.
Writes(p, st, l) ==
  /\ \A q \in PEB : q # p => flash'[q] = flash[q]
  /\ flash'[p].st = st /\ flash'[p].lnum = l

LEMMA SetFacts ==
  ASSUME TypeOK, NEW p \in PEB, NEW r, SetFlash(p, r)
  PROVE  Writes(p, r.st, r.lnum)
  BY DEF SetFlash, TypeOK, Writes

\* The headers in front of the data.
LEMMA HdrFacts ==
  /\ \A l, s, flag, crc : VidHdr(l, s, flag, crc).st = "used" /\ VidHdr(l, s, flag, crc).lnum = l
  /\ \A st : Blank(st).st = st /\ Blank(st).lnum = NoLeb
  /\ \A r \in PebState : \A d : WithData(r, d).st = r.st /\ WithData(r, d).lnum = r.lnum
  BY DEF VidHdr, Blank, WithData, PebState

LEMMA OpHdrFacts == OpHdr.st = "used" /\ OpHdr.lnum = op.lnum
  BY DEF OpHdr, VidHdr

\* While an operation runs without work.
Alone(pc) == /\ up = "up" /\ work = NoWork /\ work.k = "none" /\ op.pc = pc

LEMMA AtFacts == \A pc : At(pc) => Alone(pc)
  BY WorkFacts DEF At, Alone

\* No header is written: data at most.
SameHeads == \A q \in PEB : flash'[q].st = flash[q].st /\ flash'[q].lnum = flash[q].lnum

LEMMA DataFacts ==
  ASSUME TypeOK, NEW p \in PEB, NEW d, SetFlash(p, WithData(flash[p], d))
  PROVE  SameHeads
<1>1. flash[p] \in PebState
    BY DEF TypeOK
<1>2. WithData(flash[p], d).st = flash[p].st /\ WithData(flash[p], d).lnum = flash[p].lnum
    BY <1>1, HdrFacts
<1>3. Writes(p, flash[p].st, flash[p].lnum)
    BY <1>2, SetFacts
<1> QED
    BY <1>3 DEF Writes, SameHeads

\* Giving an eraseblock back: it is handed to an erasure, or the device becomes read-only.
LEMMA PutFacts ==
  ASSUME NEW p, NEW cont, NEW failed, PutPeb(p, cont, failed), work = NoWork
  PROVE  \/ /\ p \in used /\ used' = used \ {p} /\ work' = Erase(p)
            /\ work'.k = "erase" /\ work'.from = p /\ ro_mode' = ro_mode /\ op' = cont
         \/ ro_mode' /\ op' = failed /\ used' = used /\ work' = NoWork
  BY WorkFacts DEF PutPeb

\* An operation that has nothing in its hands returns, or waits for an erasure of an eraseblock
\* that no LEB is mapped to; the mapping it leaves behind was valid before.
AtRest == op'.pc \in {"idle", "retry", "done", "rfail"} /\ todo' = {} /\ free' \subseteq free
ValidBefore == \A l \in LEB : eba_tbl'[l] # NoPeb => eba_tbl'[l] \in Copies(l)

LEMMA MapReturn ==
  ASSUME MapInv, AtRest, SameHeads, ValidBefore, work' = NoWork, Stages'
  PROVE  InStep'
<1>1. work'.k = "none"
    BY WorkFacts
<1>2. Erased'
    BY DEF MapInv, InStep, CtlInv, TypeOK, Erased, SameHeads, AtRest
<1>3. MappingValid'
    BY DEF MappingValid, Copies, ValidBefore, SameHeads
<1>4. OpHolds' /\ MoveHolds' /\ Stale' /\ TodoUnmapped' /\ ErasedIsUnmapped'
    BY <1>1 DEF AtRest, OpHolds, MoveHolds, Stale, Changing, TodoUnmapped, ErasedIsUnmapped
<1> QED
    BY <1>2, <1>3, <1>4 DEF InStep

LEMMA MapPut ==
  ASSUME MapInv, AtRest, ValidBefore, Stages', NEW p \in PEB, work' = Erase(p), p \notin free,
         \A q \in PEB : q # p => flash'[q].st = flash[q].st /\ flash'[q].lnum = flash[q].lnum,
         flash'[p].st = "used" => flash'[p].lnum \in LEB,
         \A l \in LEB : eba_tbl'[l] # p
  PROVE  InStep'
<1>1. work'.k = "erase" /\ work'.from = p
    BY WorkFacts
<1>2. Erased'
    BY DEF MapInv, InStep, CtlInv, TypeOK, Erased, AtRest
<1>3. MappingValid'
    BY DEF MappingValid, Copies, ValidBefore
<1>4. OpHolds' /\ MoveHolds' /\ Stale' /\ TodoUnmapped' /\ ErasedIsUnmapped'
    BY <1>1 DEF AtRest, OpHolds, MoveHolds, Stale, Changing, TodoUnmapped, ErasedIsUnmapped
<1> QED
    BY <1>2, <1>3, <1>4 DEF InStep

\* Before a change gives its eraseblock away, every LEB is mapped to a copy of its own.
LEMMA MapBefore ==
  ASSUME MapInv, up = "up", op.pc # "map"
  PROVE  /\ \A l \in LEB : eba_tbl[l] # NoPeb => eba_tbl[l] \in Copies(l)
         /\ \A l \in LEB : \A p \in PEB : flash[p].st # "used" => eba_tbl[l] # p
         /\ \A k, l \in LEB : eba_tbl[k] = eba_tbl[l] /\ k # l => eba_tbl[l] = NoPeb
  BY DEF MapInv, InStep, MappingValid, Copies

\* Taking an eraseblock for an operation that then writes its header.
LEMMA MapGet ==
  ASSUME MapInv, CtlInv', Stages', SameHeads, NEW p \in free, free' = free \ {p},
         up = "up", op.pc # "map", todo' = {}, eba_tbl' = eba_tbl, work' = NoWork,
         op'.pc \in {"vid", "rvid"}, op'.pnum = p, op'.pc = "rvid" => op'.old = eba_tbl[op'.lnum]
  PROVE  InStep'
<1>1. work'.k = "none" /\ p \in PEB
    BY WorkFacts DEF MapInv, CtlInv, TypeOK
<1>2. Erased'
    BY DEF MapInv, InStep, CtlInv, TypeOK, Erased, SameHeads
<1>3. MappingValid'
    BY MapBefore DEF MappingValid, Copies, SameHeads
<1>4. OpHolds'
    BY <1>1 DEF OpHolds, MapInv, InStep, Erased, SameHeads
<1>5. MoveHolds' /\ Stale' /\ TodoUnmapped' /\ ErasedIsUnmapped'
    BY <1>1 DEF MoveHolds, Stale, Changing, TodoUnmapped, ErasedIsUnmapped
<1> QED
    BY <1>2, <1>3, <1>4, <1>5 DEF InStep

-----------------------------------------------------------------------------
(* The mapping: writing an unmapped LEB and the atomic change.              *)

LEMMA MapWriteVidHdr == MapInv /\ CtlInv' /\ WriteVidHdr => InStep'
<1> SUFFICES ASSUME MapInv, CtlInv', WriteVidHdr PROVE InStep'
    OBVIOUS
<1>1. /\ Alone("vid") /\ ~ro_mode /\ op.pnum \in PEB /\ op.lnum \in LEB
      /\ UNCHANGED <<up, eba_tbl, free, used, ro_mode, todo, work, faults>>
    BY AtFacts DEF WriteVidHdr, MapInv, CtlInv, ControlOK, Alone, ram
<1>2. Writes(op.pnum, "used", op.lnum)
    BY <1>1, SetFacts, OpHdrFacts DEF WriteVidHdr, MapInv, CtlInv
<1>3. SameOp /\ op'.pc = IF op.arg = <<>> THEN "map" ELSE "data"
    BY GotoFacts DEF WriteVidHdr, Goto, MapInv, CtlInv
<1>t. TypeOK
    BY DEF MapInv, CtlInv
<1> USE DEF MapInv, InStep, Alone, Writes, SameOp
<1>4. Stages'
    BY <1>1, <1>3 DEF Stages
<1>5. Erased'
    BY <1>1, <1>2, <1>t DEF Erased, OpHolds, TypeOK
<1>6. MappingValid'
    BY <1>1, <1>2, <1>3, <1>t DEF MappingValid, Copies, OpHolds, TypeOK
<1>7. OpHolds'
  <2>1. eba_tbl[op.lnum] # op.pnum
      BY <1>1 DEF OpHolds, MappingValid, Copies
  <2> QED
      BY <1>1, <1>2, <1>3, <2>1 DEF OpHolds, Copies
<1>8. MoveHolds' /\ TodoUnmapped' /\ ErasedIsUnmapped'
    BY <1>1 DEF MoveHolds, TodoUnmapped, ErasedIsUnmapped
<1>9. Stale'
    BY <1>3 DEF Stale, Changing, Stages
<1> QED
    BY <1>4, <1>5, <1>6, <1>7, <1>8, <1>9

LEMMA MapWriteData == MapInv /\ CtlInv' /\ WriteData => InStep'
<1> SUFFICES ASSUME MapInv, CtlInv', WriteData PROVE InStep'
    OBVIOUS
<1>1. /\ Alone("data") /\ ~ro_mode /\ op.pnum \in PEB /\ op.lnum \in LEB
      /\ UNCHANGED <<up, eba_tbl, free, todo, faults>>
    BY AtFacts DEF WriteData, MapInv, CtlInv, ControlOK, Alone
<1>2. SameHeads
    BY <1>1, DataFacts DEF WriteData, MapInv, CtlInv
<1>3. /\ todo = {} /\ op.kind \in {"write", "change"}
      /\ op.kind = "write" => eba_tbl[op.lnum] = NoPeb
      /\ op.kind = "change" => op.arg # <<>>
      /\ op.pnum \in Copies(op.lnum) /\ eba_tbl[op.lnum] # op.pnum
    BY <1>1 DEF MapInv, InStep, Stages, OpHolds, Alone
<1>4. /\ \A l \in LEB : eba_tbl[l] # NoPeb => eba_tbl[l] \in Copies(l)
      /\ \A k, l \in LEB : eba_tbl[k] = eba_tbl[l] /\ k # l => eba_tbl[l] = NoPeb
    BY <1>1, MapBefore DEF Alone
<1> DEFINE cont == [op EXCEPT !.pc = "map"]
<1>5. \/ /\ op.kind = "change" /\ eba_tbl[op.lnum] # NoPeb
         /\ PutPeb(eba_tbl[op.lnum], cont, Idle("err"))
      \/ /\ ~(op.kind = "change" /\ eba_tbl[op.lnum] # NoPeb)
         /\ op' = cont /\ UNCHANGED <<used, ro_mode, work>>
    BY DEF WriteData, Goto
<1>6. op' = cont => SameOp /\ op'.pc = "map"
    BY GotoFacts DEF MapInv, CtlInv
<1> HIDE DEF cont
<1>7. CASE op' = cont /\ work' = NoWork /\ eba_tbl[op.lnum] = NoPeb
  <2>0. work'.k = "none" /\ NoPeb \notin PEB
      BY <1>7, WorkFacts
  <2>1. Stages'
      BY <1>1, <1>3, <1>6, <1>7 DEF Stages, SameOp, Alone
  <2>2. Erased' /\ TodoUnmapped'
      BY <1>1, <1>2, <1>3, <2>0
      DEF MapInv, InStep, CtlInv, TypeOK, Erased, TodoUnmapped, SameHeads
  <2>3. OpHolds'
      BY <1>1, <1>2, <1>3, <1>6, <1>7 DEF OpHolds, SameOp, SameHeads, Copies
  <2>4. MappingValid'
      BY <1>1, <1>2, <1>4 DEF MappingValid, SameHeads, Copies
  <2>5. MoveHolds' /\ ErasedIsUnmapped'
      BY <2>0 DEF MoveHolds, ErasedIsUnmapped
  <2>6. Stale'
      BY <1>1, <1>6, <1>7, <2>0 DEF Stale, SameOp, Copies
  <2> QED
      BY <2>1, <2>2, <2>3, <2>4, <2>5, <2>6 DEF InStep
<1>8. CASE /\ op.kind = "change" /\ eba_tbl[op.lnum] # NoPeb
           /\ op' = cont /\ work'.k = "erase" /\ work'.from = eba_tbl[op.lnum]
           /\ ro_mode' = ro_mode
  <2>1. Stages'
      BY <1>1, <1>3, <1>6, <1>8 DEF Stages, SameOp, Alone
  <2>2. Erased'
      BY <1>1, <1>2 DEF MapInv, InStep, CtlInv, TypeOK, Erased, SameHeads
  <2>7. TodoUnmapped'
    <3>1. eba_tbl[op.lnum] \notin free
        BY <1>1, <1>4, <1>8 DEF MapInv, InStep, Erased, Copies
    <3> QED
        BY <1>1, <1>3, <1>8, <3>1 DEF TodoUnmapped
  <2>3. OpHolds'
      BY <1>1, <1>2, <1>3, <1>6, <1>8 DEF OpHolds, SameOp, SameHeads, Copies
  <2>4. MappingValid'
      BY <1>1, <1>2, <1>4 DEF MappingValid, SameHeads, Copies
  <2>5. MoveHolds' /\ ErasedIsUnmapped'
      BY <1>1, <1>4, <1>6, <1>8 DEF MoveHolds, ErasedIsUnmapped, SameOp
  <2>6. Stale'
      BY <1>1, <1>6, <1>8 DEF Stale, SameOp
  <2> QED
      BY <2>1, <2>2, <2>3, <2>4, <2>5, <2>6, <2>7 DEF InStep
<1>9. CASE ro_mode' /\ op' = Idle("err") /\ work' = NoWork /\ used' = used
  <2>1. op'.pc = "idle" /\ op'.kind = "idle"
      BY <1>9, IdleFacts
  <2>2. Stages'
      BY <1>1, <1>3, <1>9, <2>1 DEF Stages, Alone
  <2> QED
      BY <1>1, <1>2, <1>3, <1>4, <1>9, <2>1, <2>2, MapReturn DEF AtRest, ValidBefore
<1> QED
    BY <1>1, <1>3, <1>5, <1>7, <1>8, <1>9, PutFacts DEF Alone

LEMMA MapMapLeb == MapInv /\ CtlInv' /\ MapLeb => InStep'
<1> SUFFICES ASSUME MapInv, CtlInv', MapLeb PROVE InStep'
    OBVIOUS
<1>1. /\ Alone("map") /\ op.pnum \in PEB /\ op.lnum \in LEB
      /\ eba_tbl' = [eba_tbl EXCEPT ![op.lnum] = op.pnum] /\ op' = Idle("ok")
      /\ UNCHANGED <<flash, up, free, used, ro_mode, todo, work, faults>>
    BY AtFacts DEF MapLeb, Return, MapInv, CtlInv, ControlOK, Alone
<1>2. todo = {} /\ op.pnum \in Copies(op.lnum) /\ op'.pc = "idle" /\ op'.kind = "idle"
    BY <1>1, IdleFacts DEF MapInv, InStep, Stages, OpHolds, Alone
<1>3. ValidBefore
    BY <1>1, <1>2 DEF ValidBefore, MapInv, InStep, CtlInv, TypeOK, MappingValid, Alone
<1>4. Stages'
    BY <1>1, <1>2 DEF Stages, Alone
<1> QED
    BY <1>1, <1>2, <1>3, <1>4, MapReturn DEF Alone, AtRest, SameHeads

\* What an operation gets from ubi_wl_get_peb.
LEMMA GetFacts ==
  ASSUME NEW next \in Op, GetPeb(next)
  PROVE  \/ op' = Idle("err") /\ UNCHANGED <<free, used>>
         \/ \E p \in free : /\ free' = free \ {p} /\ used' = used \cup {p}
                            /\ op'.pnum = p /\ op'.pc = next.pc /\ op'.kind = next.kind
                            /\ op'.lnum = next.lnum /\ op'.arg = next.arg /\ op'.old = next.old
<1>1. CASE free = {}
    BY <1>1 DEF GetPeb, Return
<1>2. CASE free # {}
  <2>1. PICK p \in free : /\ free' = free \ {p} /\ used' = used \cup {p}
                          /\ op' = [next EXCEPT !.pnum = p, !.sqnum = global_sqnum]
      BY <1>2 DEF GetPeb
  <2>2. /\ op'.pnum = p /\ op'.pc = next.pc /\ op'.kind = next.kind
        /\ op'.lnum = next.lnum /\ op'.arg = next.arg /\ op'.old = next.old
      BY <2>1 DEF Op
  <2> QED
      BY <2>1, <2>2
<1> QED
    BY <1>1, <1>2

LEMMA MapBegin ==
  ASSUME MapInv, CtlInv', NEW l \in LEB, NEW c \in Written, WriteLeb(l, c) \/ AtomicLebChange(l, c)
  PROVE  InStep'
<1>1. /\ Alone("idle") /\ ~ro_mode
      /\ UNCHANGED <<flash, up, eba_tbl, ro_mode, todo, work, faults>>
    BY AtFacts DEF WriteLeb, AtomicLebChange, Ready
<1>2. PICK kind \in {"write", "change"} : /\ GetPeb(NewOp(kind, "vid", l, c))
                                          /\ kind = "write" => eba_tbl[l] = NoPeb
                                          /\ kind = "change" => c # <<>>
    BY DEF WriteLeb, AtomicLebChange
<1> DEFINE next == NewOp(kind, "vid", l, c)
<1>3. next \in Op /\ next.pc = "vid" /\ next.kind = kind /\ next.lnum = l /\ next.arg = c
    BY <1>2, NewOpType, NewOpFacts, WrittenIsContent DEF MapInv, CtlInv, Pcs
<1> HIDE DEF next
<1>4. todo = {} /\ SameHeads
    BY <1>1 DEF MapInv, InStep, Stages, Alone, SameHeads
<1>5. CASE op' = Idle("err") /\ UNCHANGED <<free, used>>
  <2>1. op'.pc = "idle" /\ op'.kind = "idle"
      BY <1>5, IdleFacts
  <2>2. Stages'
      BY <1>1, <1>4, <1>5, <2>1 DEF Stages, Alone
  <2>3. ValidBefore
      BY <1>1, MapBefore DEF Alone, ValidBefore
  <2> QED
      BY <1>1, <1>4, <1>5, <2>1, <2>2, <2>3, MapReturn DEF AtRest, Alone
<1>6. CASE \E p \in free : /\ free' = free \ {p} /\ used' = used \cup {p}
                           /\ op'.pnum = p /\ op'.pc = "vid" /\ op'.kind = kind
                           /\ op'.lnum = l /\ op'.arg = c
  <2>1. PICK p \in free : /\ free' = free \ {p} /\ op'.pnum = p
                          /\ op'.pc = "vid" /\ op'.kind = kind /\ op'.lnum = l /\ op'.arg = c
      BY <1>6
  <2>2. Stages'
      BY <1>1, <1>2, <1>4, <2>1 DEF Stages, Alone
  <2> QED
      BY <1>1, <1>4, <2>1, <2>2, MapGet DEF Alone
<1> QED
    BY <1>2, <1>3, <1>5, <1>6, GetFacts DEF next

LEMMA MapWriteError == MapInv /\ CtlInv' /\ WriteError => InStep'
<1> SUFFICES ASSUME MapInv, CtlInv', WriteError PROVE InStep'
    OBVIOUS
<1> DEFINE cont == [op EXCEPT !.pc = "retry"]
<1>1. /\ \E pc \in {"vid", "data"} : Alone(pc)
      /\ UNCHANGED <<up, eba_tbl, free, todo>> /\ ~ro_mode
      /\ PutPeb(op.pnum, cont, Idle("err")) /\ work = NoWork
    BY AtFacts DEF WriteError, At
<1>2. /\ op.pnum \in PEB /\ op.lnum \in LEB /\ op.kind \in {"write", "change"} /\ todo = {}
      /\ op.kind = "change" => op.arg # <<>>
      /\ op.kind = "write" => eba_tbl[op.lnum] = NoPeb
      /\ flash[op.pnum] \in PebState
    BY <1>1 DEF MapInv, CtlInv, ControlOK, InStep, Stages, Alone, TypeOK
<1>3. ValidBefore /\ (\A l \in LEB : eba_tbl[l] # op.pnum) /\ op.pnum \notin free
  <2>1. ValidBefore
      BY <1>1, MapBefore DEF Alone, ValidBefore
  <2>2. op.pnum \in Copies(op.lnum) => op.pnum \notin free
      BY DEF MapInv, InStep, Erased, Copies
  <2>3. CASE Alone("vid")
      BY <1>2, <2>1, <2>3, MapBefore DEF MapInv, InStep, OpHolds, Alone, ValidBefore
  <2>4. CASE Alone("data")
      BY <1>1, <1>2, <2>1, <2>2, <2>4 DEF MapInv, InStep, OpHolds, Alone, ValidBefore, Copies
  <2> QED
      BY <1>1, <2>1, <2>3, <2>4
<1>4. PICK r : /\ SetFlash(op.pnum, r) /\ (r.st = "used" => r.lnum \in LEB)
  <2>1. CASE \E r \in VidHdrLeft : SetFlash(op.pnum, r)
    <3>1. \A r \in VidHdrLeft : r.st = "used" => r.lnum \in LEB
        BY <1>2, OpHdrFacts, HdrFacts DEF VidHdrLeft, MapInv, InStep, Erased
    <3> QED
        BY <2>1, <3>1
  <2>2. CASE \E r \in DataLeft : SetFlash(op.pnum, r)
    <3>1. \A r \in DataLeft : r.st = "used" => r.lnum \in LEB
        BY <1>2, HdrFacts DEF DataLeft, MapInv, InStep, Erased
    <3> QED
        BY <2>2, <3>1
  <2> QED
      BY <2>1, <2>2 DEF WriteError
<1>5. Writes(op.pnum, r.st, r.lnum)
    BY <1>2, <1>4, SetFacts DEF MapInv, CtlInv
<1>6. op' = cont => SameOp /\ op'.pc = "retry"
    BY GotoFacts DEF MapInv, CtlInv
<1> HIDE DEF cont
<1>7. CASE op' = cont /\ work' = Erase(op.pnum) /\ ro_mode' = ro_mode
  <2>1. Stages'
      BY <1>1, <1>2, <1>6, <1>7 DEF Stages, SameOp, Alone
  <2> QED
      BY <1>1, <1>2, <1>3, <1>4, <1>5, <1>6, <1>7, <2>1, MapPut DEF AtRest, Writes
<1>8. CASE ro_mode' /\ op' = Idle("err") /\ work' = NoWork
  <2>1. op'.pc = "idle" /\ op'.kind = "idle" /\ work'.k = "none"
      BY <1>8, IdleFacts, WorkFacts
  <2>2. Stages'
      BY <1>1, <1>2, <1>8, <2>1 DEF Stages, Alone
  <2>3. Erased' /\ MappingValid'
      BY <1>1, <1>2, <1>3, <1>4, <1>5
      DEF Erased, MappingValid, ValidBefore, Writes, Copies, MapInv, InStep, CtlInv, TypeOK
  <2>4. OpHolds' /\ MoveHolds' /\ Stale' /\ TodoUnmapped' /\ ErasedIsUnmapped'
      BY <1>1, <1>2, <2>1 DEF OpHolds, MoveHolds, Stale, Changing, TodoUnmapped, ErasedIsUnmapped
  <2> QED
      BY <2>2, <2>3, <2>4 DEF InStep
<1> QED
    BY <1>1, <1>7, <1>8, PutFacts

LEMMA MapRetry == MapInv /\ CtlInv' /\ RetryWrite => InStep'
<1> SUFFICES ASSUME MapInv, CtlInv', RetryWrite PROVE InStep'
    OBVIOUS
<1>1. /\ Alone("retry") /\ UNCHANGED <<flash, up, eba_tbl, todo, work, faults>>
    BY AtFacts DEF RetryWrite
<1>2. /\ op.lnum \in LEB /\ op.kind \in {"write", "change"} /\ todo = {} /\ SameHeads
      /\ op.kind = "change" => op.arg # <<>>
      /\ op.kind = "write" => eba_tbl[op.lnum] = NoPeb
    BY <1>1 DEF MapInv, CtlInv, ControlOK, InStep, Stages, Alone, SameHeads
<1>3. ValidBefore
    BY <1>1, MapBefore DEF Alone, ValidBefore
<1> DEFINE next == [op EXCEPT !.pc = "vid", !.tries = @ + 1]
<1>4. /\ next \in Op /\ next.pc = "vid" /\ next.kind = op.kind /\ next.lnum = op.lnum
      /\ next.arg = op.arg
  <2>1. op \in Op /\ op.tries + 1 \in Nat
      BY DEF MapInv, CtlInv, TypeOK, Op
  <2> QED
      BY <2>1 DEF Op, Pcs
<1> HIDE DEF next
<1>5. CASE op' \in {Idle("ok"), Idle("err")} /\ UNCHANGED <<free, used>>
  <2>1. op'.pc = "idle" /\ op'.kind = "idle"
      BY <1>5, IdleFacts
  <2>2. Stages'
      BY <1>1, <1>2, <1>5, <2>1 DEF Stages, Alone
  <2> QED
      BY <1>1, <1>2, <1>3, <1>5, <2>1, <2>2, MapReturn DEF AtRest, Alone
<1>6. CASE GetPeb(next) /\ ro_mode' = ro_mode /\ ~(op' = Idle("err") /\ UNCHANGED <<free, used>>)
  <2>1. PICK p \in free : /\ free' = free \ {p} /\ op'.pnum = p /\ op'.pc = "vid"
                          /\ op'.kind = op.kind /\ op'.lnum = op.lnum /\ op'.arg = op.arg
      BY <1>4, <1>6, GetFacts
  <2>2. Stages'
      BY <1>1, <1>2, <1>6, <2>1 DEF Stages, Alone
  <2> QED
      BY <1>1, <1>2, <2>1, <2>2, MapGet DEF Alone
<1> QED
    BY <1>5, <1>6 DEF RetryWrite, Return, next

LEMMA MapWriteRefused == MapInv /\ CtlInv' /\ WriteRefused => InStep'
<1> SUFFICES ASSUME MapInv, CtlInv', WriteRefused PROVE InStep'
    OBVIOUS
<1>1. /\ \E pc \in {"idle", "vid", "data"} : Alone(pc)
      /\ op' = Idle("err")
      /\ UNCHANGED <<flash, up, eba_tbl, free, used, ro_mode, todo, work, faults>>
    BY AtFacts DEF WriteRefused, Return, ram
<1>2. op'.pc = "idle" /\ op'.kind = "idle" /\ todo = {} /\ SameHeads
    BY <1>1, IdleFacts DEF MapInv, InStep, Stages, Alone, SameHeads
<1>3. ValidBefore
    BY <1>1, MapBefore DEF Alone, ValidBefore
<1>4. Stages'
    BY <1>1, <1>2 DEF Stages, Alone
<1> QED
    BY <1>1, <1>2, <1>3, <1>4, MapReturn DEF Alone, AtRest

-----------------------------------------------------------------------------
(* The mapping: un-mapping, appending and recovering.                       *)

LEMMA MapUnmap == ASSUME MapInv, CtlInv', NEW l \in LEB, UnmapLeb(l) PROVE InStep'
<1> DEFINE cont == NewOp("unmap", "done", l, <<>>)
<1>1. /\ Alone("idle") /\ ~ro_mode /\ eba_tbl[l] \in PEB
      /\ eba_tbl' = [eba_tbl EXCEPT ![l] = NoPeb]
      /\ PutPeb(eba_tbl[l], cont, Idle("err"))
      /\ UNCHANGED <<flash, up, free, todo, faults>>
    BY AtFacts DEF UnmapLeb, Ready, MapInv, CtlInv, TypeOK
<1>2. cont.pc = "done" /\ cont.kind = "unmap" /\ Idle("err").pc = "idle" /\ Idle("err").kind = "idle"
    BY IdleFacts, NewOpFacts
<1> HIDE DEF cont
<1>3. todo = {} /\ SameHeads
    BY <1>1 DEF MapInv, InStep, Stages, Alone, SameHeads
<1>4. ValidBefore /\ (\A k \in LEB : eba_tbl'[k] # eba_tbl[l]) /\ eba_tbl[l] \in Copies(l)
    BY <1>1, MapBefore DEF Alone, ValidBefore, MapInv, CtlInv, TypeOK
<1>5. eba_tbl[l] \notin free
    BY <1>4 DEF MapInv, InStep, Erased, Copies
<1>6. CASE op' = cont /\ work' = Erase(eba_tbl[l]) /\ ro_mode' = ro_mode
  <2>1. Stages'
      BY <1>1, <1>2, <1>3, <1>6 DEF Stages, Alone
  <2>2. flash'[eba_tbl[l]].st = "used" => flash'[eba_tbl[l]].lnum \in LEB
      BY <1>1 DEF MapInv, InStep, Erased
  <2> QED
      BY <1>1, <1>2, <1>3, <1>4, <1>5, <1>6, <2>1, <2>2, MapPut DEF AtRest
<1>7. CASE ro_mode' /\ op' = Idle("err") /\ work' = NoWork /\ used' = used
  <2>1. Stages'
      BY <1>1, <1>2, <1>3, <1>7 DEF Stages, Alone
  <2> QED
      BY <1>1, <1>2, <1>3, <1>4, <1>7, <2>1, MapReturn DEF AtRest
<1> QED
    BY <1>1, <1>6, <1>7, PutFacts DEF Alone

LEMMA MapAppend ==
  ASSUME MapInv, CtlInv', NEW l \in LEB, NEW c \in Written, AppendLeb(l, c)
  PROVE  InStep'
<1> DEFINE new == NewOp("append", "inplace", l, c)
<1>1. /\ Alone("idle") /\ ~ro_mode /\ op' = [new EXCEPT !.old = eba_tbl[l]]
      /\ UNCHANGED <<flash, up, eba_tbl, free, used, ro_mode, todo, work, faults>>
    BY AtFacts DEF AppendLeb, Ready, ram
<1>2. new \in Op /\ new.pc = "inplace" /\ new.kind = "append" /\ new.lnum = l
    BY NewOpType, NewOpFacts, WrittenIsContent DEF MapInv, CtlInv, Pcs
<1> HIDE DEF new
<1>3. op'.pc = "inplace" /\ op'.kind = "append" /\ op'.lnum = l /\ op'.old = eba_tbl[l]
    BY <1>1, <1>2 DEF Op
<1>4. Stages'
    BY <1>1, <1>3 DEF MapInv, InStep, Stages, Alone
<1>5. Erased' /\ TodoUnmapped'
    BY <1>1 DEF MapInv, InStep, Erased, TodoUnmapped
<1>6. MappingValid'
    BY <1>1, MapBefore DEF Alone, MappingValid, Copies
<1>7. OpHolds' /\ MoveHolds' /\ Stale' /\ ErasedIsUnmapped'
    BY <1>1, <1>3 DEF Alone, OpHolds, MoveHolds, Stale, Changing, ErasedIsUnmapped
<1> QED
    BY <1>4, <1>5, <1>6, <1>7 DEF InStep

LEMMA MapInPlace == MapInv /\ CtlInv' /\ (WriteInPlace \/ WriteInPlaceError) => InStep'
<1> SUFFICES ASSUME MapInv, CtlInv', WriteInPlace \/ WriteInPlaceError PROVE InStep'
    OBVIOUS
<1>1. /\ Alone("inplace") /\ ~ro_mode /\ op.old \in PEB /\ op.lnum \in LEB
      /\ UNCHANGED <<up, eba_tbl, free, used, ro_mode, todo, work>>
    BY AtFacts DEF WriteInPlace, WriteInPlaceError, ram, Alone, MapInv, CtlInv, ControlOK
<1>2. SameHeads
    BY <1>1, DataFacts DEF WriteInPlace, WriteInPlaceError, MapInv, CtlInv
<1>3. todo = {} /\ ValidBefore
    BY <1>1, MapBefore DEF MapInv, InStep, Stages, Alone, ValidBefore
<1>4. CASE WriteInPlace
  <2>1. op' = Idle("ok") /\ op'.pc = "idle" /\ op'.kind = "idle"
      BY <1>4, IdleFacts DEF WriteInPlace, Return
  <2>2. Stages'
      BY <1>1, <1>3, <2>1 DEF Stages, Alone
  <2> QED
      BY <1>1, <1>2, <1>3, <2>1, <2>2, MapReturn DEF Alone, AtRest
<1>5. CASE WriteInPlaceError
  <2>1. SameOp /\ op'.pc = "rget"
      BY <1>5, GotoFacts DEF WriteInPlaceError, Goto, MapInv, CtlInv
  <2>2. "inplace" \in Faults /\ faults' >= 1
      BY <1>5 DEF WriteInPlaceError, Fault, MapInv, CtlInv, TypeOK
  <2>3. Stages'
      BY <1>1, <1>3, <2>1, <2>2 DEF MapInv, InStep, Stages, Alone, SameOp
  <2>4. Erased' /\ TodoUnmapped'
      BY <1>1, <1>2, <1>3 DEF MapInv, InStep, CtlInv, TypeOK, Erased, TodoUnmapped, SameHeads
  <2>5. MappingValid'
      BY <1>1, <1>2, <1>3 DEF MappingValid, Copies, SameHeads, ValidBefore
  <2>6. OpHolds'
      BY <1>1, <2>1 DEF OpHolds, MapInv, InStep, Alone, SameOp
  <2>7. MoveHolds' /\ Stale' /\ ErasedIsUnmapped'
      BY <1>1, <2>1 DEF Alone, MoveHolds, Stale, Changing, ErasedIsUnmapped
  <2> QED
      BY <2>3, <2>4, <2>5, <2>6, <2>7 DEF InStep
<1> QED
    BY <1>4, <1>5

LEMMA MapRecoverGet == MapInv /\ CtlInv' /\ RecoverGetPeb => InStep'
<1> SUFFICES ASSUME MapInv, CtlInv', RecoverGetPeb PROVE InStep'
    OBVIOUS
<1>1. /\ Alone("rget") /\ op.old \in PEB /\ op.lnum \in LEB
      /\ UNCHANGED <<flash, up, eba_tbl, todo, faults>>
  <2>1. At("rget") /\ UNCHANGED <<flash, up, eba_tbl, todo, faults>>
      BY DEF RecoverGetPeb
  <2> QED
      BY <2>1, AtFacts DEF Alone, MapInv, CtlInv, ControlOK
<1>2. /\ todo = {} /\ SameHeads /\ ValidBefore /\ ~ro_mode /\ op.old = eba_tbl[op.lnum]
      /\ "inplace" \in Faults /\ faults >= 1
    BY <1>1, MapBefore DEF MapInv, InStep, Stages, OpHolds, Alone, ValidBefore, SameHeads
<1>3. flash[op.old].st = "used"
    BY <1>1, <1>2 DEF ValidBefore, Copies
<1>4. CASE free = {}
  <2>1. op' = Idle("err") /\ ro_mode' /\ UNCHANGED <<free, used, work>>
      BY <1>4 DEF RecoverGetPeb, Return
  <2>2. op'.pc = "idle" /\ op'.kind = "idle"
      BY <2>1, IdleFacts
  <2>3. Stages'
      BY <1>1, <1>2, <2>1, <2>2 DEF Stages, Alone
  <2> QED
      BY <1>1, <1>2, <2>1, <2>2, <2>3, MapReturn DEF AtRest, Alone
<1>5. CASE free # {}
  <2>1. PICK p \in free :
          /\ free' = free \ {p} /\ ro_mode' = ro_mode /\ used' = used \cup {p}
          /\ op' = [op EXCEPT !.pc = "rvid", !.pnum = p, !.sqnum = global_sqnum] /\ work' = work
      BY <1>3, <1>5 DEF RecoverGetPeb
  <2>2. /\ op'.pc = "rvid" /\ op'.pnum = p /\ op'.old = op.old /\ op'.lnum = op.lnum
        /\ op'.kind = op.kind /\ op'.arg = op.arg
      BY <2>1 DEF MapInv, CtlInv, TypeOK, Op
  <2>3. Stages'
      BY <1>1, <1>2, <2>1, <2>2 DEF MapInv, InStep, Stages, Alone
  <2> QED
      BY <1>1, <1>2, <2>1, <2>2, <2>3, MapGet DEF Alone
<1> QED
    BY <1>4, <1>5

LEMMA MapRecoverVidHdr == MapInv /\ CtlInv' /\ RecoverVidHdr => InStep'
<1> SUFFICES ASSUME MapInv, CtlInv', RecoverVidHdr PROVE InStep'
    OBVIOUS
<1>1. /\ Alone("rvid") /\ ~ro_mode /\ op.pnum \in PEB /\ op.old \in PEB /\ op.lnum \in LEB
      /\ SetFlash(op.pnum, RecoveredHdr)
      /\ UNCHANGED <<up, eba_tbl, free, used, ro_mode, todo, work, faults>>
    BY AtFacts DEF RecoverVidHdr, MapInv, CtlInv, ControlOK, Alone, ram
<1>2. op.old \in Copies(op.lnum) /\ todo = {} /\ op.old = eba_tbl[op.lnum]
      /\ flash[op.pnum].st = "free" /\ op.pnum \notin free
    BY <1>1, MapBefore DEF MapInv, InStep, OpHolds, Stages, Alone
<1>3. Writes(op.pnum, "used", op.lnum)
  <2>1. RecoveredHdr.st = "used" /\ RecoveredHdr.lnum = op.lnum
      BY <1>1, <1>2 DEF RecoveredHdr, Copies, MapInv, CtlInv, TypeOK, PebState
  <2> QED
      BY <1>1, <2>1, SetFacts DEF MapInv, CtlInv
<1>4. SameOp /\ op'.pc = "rdata"
    BY GotoFacts DEF RecoverVidHdr, Goto, MapInv, CtlInv
<1>5. ValidBefore /\ \A l \in LEB : eba_tbl[l] # op.pnum
    BY <1>1, <1>2, MapBefore DEF Alone, ValidBefore
<1> USE DEF Alone, Writes, SameOp
<1>6. Stages'
    BY <1>1, <1>4 DEF MapInv, InStep, Stages
<1>7. Erased'
    BY <1>1, <1>2, <1>3 DEF MapInv, InStep, CtlInv, TypeOK, Erased
<1>8. MappingValid'
    BY <1>1, <1>3, <1>5 DEF MappingValid, Copies, ValidBefore, MapInv, CtlInv, TypeOK
<1>9. OpHolds'
    BY <1>1, <1>2, <1>3, <1>4, <1>5 DEF OpHolds, Copies
<1>10. MoveHolds' /\ TodoUnmapped' /\ ErasedIsUnmapped' /\ Stale'
    BY <1>1, <1>2, <1>4 DEF MoveHolds, TodoUnmapped, ErasedIsUnmapped, Stale, Changing
<1> QED
    BY <1>6, <1>7, <1>8, <1>9, <1>10 DEF InStep

\* What recover_peb holds when it writes the data.
LEMMA RecoverHolds ==
  ASSUME MapInv, Alone("rdata")
  PROVE  /\ op.pnum \in PEB /\ op.old \in PEB /\ op.lnum \in LEB /\ todo = {} /\ ~ro_mode
         /\ op.old = eba_tbl[op.lnum] /\ op.old \in Copies(op.lnum) /\ op.old \notin free
         /\ op.pnum # op.old /\ op.pnum \in Copies(op.lnum) /\ op.pnum \notin free
         /\ \A l \in LEB : eba_tbl[l] # op.pnum
         /\ \A l \in LEB : eba_tbl[l] = op.old => l = op.lnum
         /\ \A l \in LEB : eba_tbl[l] # NoPeb => eba_tbl[l] \in Copies(l)
         /\ op.kind # "write"
<1>1. op.pnum \in PEB /\ op.old \in PEB /\ op.lnum \in LEB /\ todo = {} /\ ~ro_mode
    BY DEF MapInv, InStep, CtlInv, ControlOK, Stages, Alone
<1>2. op.old = eba_tbl[op.lnum] /\ op.pnum \in Copies(op.lnum) /\ eba_tbl[op.lnum] # op.pnum
    BY DEF MapInv, InStep, OpHolds, Alone
<1>3. /\ \A l \in LEB : eba_tbl[l] # NoPeb => eba_tbl[l] \in Copies(l)
      /\ \A k, l \in LEB : eba_tbl[k] = eba_tbl[l] /\ k # l => eba_tbl[l] = NoPeb
    BY MapBefore DEF Alone
<1>4. \A l \in LEB : eba_tbl[l] # op.pnum
    BY <1>1, <1>2, <1>3 DEF Copies
<1>5. op.old \in Copies(op.lnum) /\ \A l \in LEB : eba_tbl[l] = op.old => l = op.lnum
    BY <1>1, <1>2, <1>3
<1>6. op.old \notin free /\ op.pnum \notin free
    BY <1>2, <1>5 DEF MapInv, InStep, Erased, Copies
<1>7. op.kind # "write"
    BY <1>1, <1>2 DEF MapInv, InStep, Stages
<1> QED
    BY <1>1, <1>2, <1>3, <1>4, <1>5, <1>6, <1>7

LEMMA MapRecoverData == MapInv /\ CtlInv' /\ RecoverData => InStep'
<1> SUFFICES ASSUME MapInv, CtlInv', RecoverData PROVE InStep'
    OBVIOUS
<1> DEFINE cont == [op EXCEPT !.pc = "done"]
<1>1. /\ Alone("rdata") /\ UNCHANGED <<up, free, todo, faults>>
      /\ eba_tbl' = [eba_tbl EXCEPT ![op.lnum] = op.pnum]
      /\ PutPeb(op.old, cont, Idle("ok"))
      /\ SetFlash(op.pnum, WithData(flash[op.pnum], RecoveredData))
    BY AtFacts DEF RecoverData
<1>2. SameHeads
    BY <1>1, RecoverHolds, DataFacts DEF MapInv, CtlInv
<1>3. ValidBefore /\ \A l \in LEB : eba_tbl'[l] # op.old
    BY <1>1, RecoverHolds DEF ValidBefore, MapInv, CtlInv, TypeOK
<1>4. /\ op' = cont => SameOp /\ op'.pc = "done"
      /\ Idle("ok").pc = "idle" /\ Idle("ok").kind = "idle"
    BY GotoFacts, IdleFacts DEF MapInv, CtlInv
<1> HIDE DEF cont
<1>5. CASE op' = cont /\ work' = Erase(op.old) /\ ro_mode' = ro_mode
  <2>1. Stages'
      BY <1>1, <1>4, <1>5, RecoverHolds DEF MapInv, InStep, Stages, Alone, SameOp
  <2>2. op.old \in PEB /\ op.old \notin free /\ flash'[op.old].lnum \in LEB
      BY <1>2, RecoverHolds, <1>1 DEF SameHeads, Copies
  <2>3. AtRest
      BY <1>1, <1>4, <1>5, RecoverHolds DEF AtRest
  <2> QED
      BY <1>2, <1>3, <1>5, <2>1, <2>2, <2>3, MapPut DEF SameHeads
<1>6. CASE ro_mode' /\ op' = Idle("ok") /\ work' = NoWork /\ used' = used
  <2>1. Stages'
      BY <1>1, <1>4, <1>6, RecoverHolds DEF Stages, Alone
  <2>2. AtRest
      BY <1>1, <1>4, <1>6, RecoverHolds DEF AtRest
  <2> QED
      BY <1>2, <1>3, <1>6, <2>1, <2>2, MapReturn
<1> QED
    BY <1>1, <1>5, <1>6, PutFacts DEF Alone

LEMMA MapRecoverReadError == MapInv /\ CtlInv' /\ RecoverReadError => InStep'
<1> SUFFICES ASSUME MapInv, CtlInv', RecoverReadError PROVE InStep'
    OBVIOUS
<1> DEFINE cont == [op EXCEPT !.pc = "rfail"]
<1>1. /\ Alone("rdata") /\ UNCHANGED <<flash, up, eba_tbl, free, todo, faults>>
      /\ PutPeb(op.pnum, cont, Idle("err"))
    BY AtFacts DEF RecoverReadError
<1>2. SameHeads /\ ValidBefore
    BY <1>1, RecoverHolds DEF SameHeads, ValidBefore
<1>3. /\ op' = cont => SameOp /\ op'.pc = "rfail"
      /\ Idle("err").pc = "idle" /\ Idle("err").kind = "idle"
    BY GotoFacts, IdleFacts DEF MapInv, CtlInv
<1> HIDE DEF cont
<1>4. CASE op' = cont /\ work' = Erase(op.pnum) /\ ro_mode' = ro_mode
  <2>1. Stages'
      BY <1>1, <1>3, <1>4, RecoverHolds DEF MapInv, InStep, Stages, Alone, SameOp
  <2>2. op.pnum \in PEB /\ op.pnum \notin free /\ flash'[op.pnum].lnum \in LEB
      BY <1>1, RecoverHolds DEF Copies
  <2>3. AtRest /\ \A l \in LEB : eba_tbl'[l] # op.pnum
      BY <1>1, <1>3, <1>4, RecoverHolds DEF AtRest
  <2> QED
      BY <1>1, <1>2, <1>4, <2>1, <2>2, <2>3, MapPut
<1>5. CASE ro_mode' /\ op' = Idle("err") /\ work' = NoWork /\ used' = used
  <2>1. Stages'
      BY <1>1, <1>3, <1>5, RecoverHolds DEF Stages, Alone
  <2>2. AtRest
      BY <1>1, <1>3, <1>5, RecoverHolds DEF AtRest
  <2> QED
      BY <1>2, <1>5, <2>1, <2>2, MapReturn
<1> QED
    BY <1>1, <1>4, <1>5, PutFacts DEF Alone

\* With one fault in a behaviour, the write error was the one that started the recovery.
LEMMA MapRecoverWriteError == MapInv /\ RecoversAtOnce => ~RecoverWriteError /\ ~RecoverRetry
<1> SUFFICES ASSUME MapInv, RecoversAtOnce PROVE ~RecoverWriteError /\ ~RecoverRetry
    OBVIOUS
<1>1. ~RecoverRetry
    BY DEF RecoverRetry, At, MapInv, InStep, Stages
<1>2. ASSUME At("rvid") \/ At("rdata")
      PROVE  ~ro_mode /\ "inplace" \in Faults /\ faults >= 1
    BY <1>2 DEF At, MapInv, InStep, Stages
<1>3. faults \in Nat /\ MaxFaults \in Nat
    BY BoundsAssumption DEF MapInv, CtlInv, TypeOK
<1>4. ("inplace" \in Faults /\ faults >= 1) => ~Fault("write")
    BY <1>3 DEF Fault, RecoversAtOnce
<1>5. ~RecoverWriteError
    BY <1>2, <1>4 DEF RecoverWriteError
<1> QED
    BY <1>1, <1>5

LEMMA MapEnds == MapInv /\ CtlInv' /\ (RecoverFailed \/ Done) => InStep'
<1> SUFFICES ASSUME MapInv, CtlInv', RecoverFailed \/ Done PROVE InStep'
    OBVIOUS
<1>1. /\ \E pc \in {"rfail", "done"} : Alone(pc)
      /\ \E ret \in {"ok", "err"} : op' = Idle(ret)
      /\ UNCHANGED <<flash, up, eba_tbl, free, used, todo, work, faults>>
    BY AtFacts DEF RecoverFailed, Done, Return, ram
<1>2. op'.pc = "idle" /\ op'.kind = "idle" /\ todo = {} /\ SameHeads
    BY <1>1, IdleFacts DEF MapInv, InStep, Stages, Alone, SameHeads
<1>3. ValidBefore
    BY <1>1, MapBefore DEF Alone, ValidBefore
<1>4. Stages'
    BY <1>1, <1>2 DEF Stages, Alone
<1> QED
    BY <1>1, <1>2, <1>3, <1>4, MapReturn DEF Alone, AtRest

-----------------------------------------------------------------------------
(* The mapping: erasures and moves.                                         *)

\* An operation that waits for work is at one of the points after ubi_wl_put_peb.
Waiting == /\ up = "up" /\ op.pc \notin {"vid", "data", "inplace", "rget", "rvid", "rdata", "rretry"}
           /\ op.pc = "map" => Changing /\ op.lnum \in LEB

LEMMA WaitFacts ==
  ASSUME MapInv, work.k # "none"
  PROVE  Waiting
<1>1. work # NoWork
    BY WorkFacts
<1> QED
    BY <1>1 DEF Waiting, Changing, MapInv, CtlInv, ControlOK, InStep, Stages

\* While one waits, only the work and the eraseblock in its hands change.
Waits == /\ UNCHANGED <<up, todo, op>> /\ (ro_mode => ro_mode')
         /\ op.pc = "attach" => work'.k \in {"none", "erase"}
         /\ \A l \in LEB : eba_tbl[l] = NoPeb => eba_tbl'[l] = NoPeb

LEMMA MapStages ==
  ASSUME MapInv, Waiting, Waits, faults' >= faults
  PROVE  Stages'
  BY DEF MapInv, InStep, Stages, Waiting, Waits, Changing

\* The erased eraseblock is not the one a change is about to map.
LEMMA EraseHolds ==
  ASSUME MapInv, work.k = "erase"
  PROVE  /\ Waiting /\ work.from \in PEB /\ work.from \notin free \cup todo
         /\ op.pc = "map" => op.pnum # work.from /\ op.pnum \in PEB
<1>1. Waiting /\ work.from \in PEB /\ work.from \notin free \cup todo
    BY WaitFacts DEF MapInv, InStep, CtlInv, ControlOK, TodoUnmapped
<1>2. op.pc = "map" => op.pnum # work.from /\ op.pnum \in PEB
    BY <1>1 DEF Waiting, MapInv, InStep, OpHolds, Stale, Copies
<1> QED
    BY <1>1, <1>2

\* The end of an erasure, whatever is left of the eraseblock.
LEMMA MapErased ==
  ASSUME MapInv, work.k = "erase", eba_tbl' = eba_tbl, free' = free, Waits, Stages',
         work' = NoWork, flash'[work.from].st # "used" \/ ro_mode',
         \A q \in PEB : q # work.from => flash'[q].st = flash[q].st /\ flash'[q].lnum = flash[q].lnum,
         flash'[work.from].st = "used" => flash'[work.from].lnum \in LEB
  PROVE  InStep'
<1>1. work'.k = "none"
    BY WorkFacts
<1> USE EraseHolds DEF MapInv, InStep, Waiting, Waits
<1>2. Erased'
    BY DEF Erased, CtlInv, TypeOK
<1>3. MappingValid'
    BY DEF MappingValid, ErasedIsUnmapped, Copies
<1>4. OpHolds'
    BY DEF OpHolds, Copies
<1>5. Stale'
    BY <1>1 DEF Stale, Copies, Changing
<1>6. MoveHolds' /\ TodoUnmapped' /\ ErasedIsUnmapped'
    BY <1>1 DEF MoveHolds, TodoUnmapped, ErasedIsUnmapped
<1> QED
    BY <1>2, <1>3, <1>4, <1>5, <1>6

LEMMA MapEraseWorker == MapInv /\ CtlInv' /\ EraseWorker => InStep'
<1> SUFFICES ASSUME MapInv, CtlInv', EraseWorker PROVE InStep'
    OBVIOUS
<1>1. /\ work.k = "erase" /\ ~ro_mode /\ SetFlash(work.from, Blank("free"))
      /\ UNCHANGED <<up, eba_tbl, ro_mode, todo, op, faults>>
    BY DEF EraseWorker
<1>2. /\ \/ work'.k = "none"
         \/ /\ work'.k = "mvid" /\ work'.from \in used /\ op.pc # "attach"
            /\ work'.to \in free \cup {work.from} /\ work'.to \notin free'
      /\ free' \subseteq free \cup {work.from}
    BY WorkFacts DEF EraseWorker, EnsureWearLeveling
<1>3. Writes(work.from, "free", NoLeb)
    BY <1>1, EraseHolds, SetFacts, HdrFacts DEF MapInv, CtlInv
<1>4. Stages'
  <2>1. Waits
      BY <1>1, <1>2 DEF Waits
  <2>2. faults' >= faults
      BY <1>1 DEF MapInv, CtlInv, TypeOK
  <2> QED
      BY <1>1, <2>1, <2>2, EraseHolds, MapStages
<1> USE <1>1, EraseHolds DEF MapInv, InStep, Waiting, Writes
<1>5. Erased'
    BY <1>2, <1>3 DEF Erased, CtlInv, TypeOK
<1>6. MappingValid'
    BY <1>3 DEF MappingValid, ErasedIsUnmapped, Copies
<1>7. OpHolds'
    BY <1>3 DEF OpHolds, Copies
<1>8. Stale'
    BY <1>2, <1>3 DEF Stale, Copies, Changing
<1>9. MoveHolds'
    BY <1>2, <1>3 DEF MoveHolds, Erased, CtlInv, TypeOK
<1>10. TodoUnmapped' /\ ErasedIsUnmapped'
    BY <1>2 DEF TodoUnmapped, ErasedIsUnmapped
<1> QED
    BY <1>4, <1>5, <1>6, <1>7, <1>8, <1>9, <1>10

LEMMA MapEraseEnds == MapInv /\ CtlInv' /\ (EraseError \/ EraseRefused) => InStep'
<1> SUFFICES ASSUME MapInv, CtlInv', EraseError \/ EraseRefused PROVE InStep'
    OBVIOUS
<1>1. /\ work.k = "erase" /\ work' = NoWork
      /\ UNCHANGED <<up, eba_tbl, free, used, todo, op>> /\ (ro_mode => ro_mode')
    BY DEF EraseError, EraseRefused, ram
<1>2. Waits /\ faults' >= faults /\ work.from \in PEB
    BY <1>1, WorkFacts, EraseHolds
    DEF Waits, EraseError, EraseRefused, Fault, MapInv, CtlInv, TypeOK
<1>3. Stages'
    BY <1>1, <1>2, EraseHolds, MapStages
<1>4. /\ \A q \in PEB : q # work.from => flash'[q] = flash[q]
      /\ flash'[work.from].st # "used" \/ ro_mode'
      /\ flash'[work.from].st = "used" => flash'[work.from].lnum \in LEB
  <2>1. CASE EraseRefused
    <3>1. ro_mode' /\ flash' = flash
        BY <1>1, <2>1 DEF EraseRefused
    <3> QED
        BY <1>2, <3>1 DEF MapInv, InStep, Erased
  <2>2. CASE SetFlash(work.from, Blank("bad"))
      BY <1>2, <2>2, SetFacts, HdrFacts DEF Writes, MapInv, CtlInv
  <2>3. CASE ro_mode' /\ \E r \in HalfErased(flash[work.from]) : SetFlash(work.from, r)
    <3>1. PICK r \in HalfErased(flash[work.from]) : SetFlash(work.from, r)
        BY <2>3
    <3>2. r.st = "used" => r.lnum \in LEB
        BY <1>2, HalfErasedType DEF MapInv, InStep, Erased, CtlInv, TypeOK
    <3> QED
        BY <1>2, <2>3, <3>1, <3>2, SetFacts DEF Writes, MapInv, CtlInv
  <2> QED
      BY <2>1, <2>2, <2>3 DEF EraseError
<1> QED
    BY <1>1, <1>2, <1>3, <1>4, MapErased

\* The target of a move is in nobody else's hands.
MoveTo == /\ Waiting /\ work.from \in PEB /\ work.to \in PEB /\ work.to \notin free
          /\ todo = {} /\ op.pc # "attach"
          /\ \A k \in LEB : eba_tbl[k] = work.to => Changing /\ op.lnum = k
          /\ op.pc = "map" => op.pnum # work.to /\ op.pnum \in PEB
          /\ Changing => eba_tbl[op.lnum] \notin Copies(op.lnum)

LEMMA MoveToHolds ==
  ASSUME MapInv, work.k \in {"mvid", "mdata"}
  PROVE  MoveTo
<1>1. Waiting /\ work.from \in PEB /\ work.to \in PEB
    BY WaitFacts DEF MapInv, CtlInv, ControlOK
<1>2. op.pc # "attach" /\ todo = {}
    BY DEF MapInv, InStep, Stages
<1>3. Changing => eba_tbl[op.lnum] \notin Copies(op.lnum)
    BY DEF MapInv, InStep, Stale
<1>4. CASE work.k = "mvid"
  <2>1. flash[work.to].st = "free" /\ work.to \notin free
      BY <1>4 DEF MapInv, InStep, MoveHolds
  <2> QED
      BY <1>1, <1>2, <1>3, <2>1
      DEF MoveTo, MapInv, InStep, MappingValid, OpHolds, Copies, Waiting, Changing, CtlInv, ControlOK
<1>5. CASE work.k = "mdata"
  <2>1. /\ eba_tbl[Src.lnum] = work.from /\ Src.lnum \in LEB /\ Src.st = "used"
        /\ work.to \in Copies(Src.lnum) /\ work.to # work.from /\ work.to \notin free
      BY <1>1, <1>5 DEF MapInv, InStep, MoveHolds, Erased, Src
  <2>2. Changing => op.lnum # Src.lnum
      BY <1>1, <1>3, <2>1 DEF Copies, Src
  <2>3. \A k \in LEB : eba_tbl[k] = work.to => Changing /\ op.lnum = k
      BY <1>1, <2>1 DEF MapInv, InStep, MappingValid, Copies, Waiting, Changing
  <2>4. op.pc = "map" => op.pnum # work.to /\ op.pnum \in PEB
      BY <1>1, <2>1, <2>2 DEF MapInv, InStep, OpHolds, Copies, Waiting
  <2> QED
      BY <1>1, <1>2, <1>3, <2>1, <2>3, <2>4 DEF MoveTo
<1> QED
    BY <1>4, <1>5

\* What is copied is the eraseblock its LEB is mapped to, and no change waits for that LEB.
Copying == work.k = "mdata" \/ (work.k = "mvid" /\ CanCopy)
CopyFrom == /\ Src.st = "used" /\ Src.lnum \in LEB /\ eba_tbl[Src.lnum] = work.from
            /\ work.from # work.to /\ work.from \notin free /\ ~ro_mode
            /\ Changing => op.lnum # Src.lnum
            /\ \A k \in LEB : eba_tbl[k] = work.from => k = Src.lnum \/ (Changing /\ op.lnum = k)

LEMMA CopyFromHolds ==
  ASSUME MapInv, Copying
  PROVE  CopyFrom
<1>1. MoveTo
    BY MoveToHolds DEF Copying
<1>2. Src.st = "used" /\ eba_tbl[Src.lnum] = work.from /\ ~ro_mode
    BY DEF Copying, CanCopy, NothingToMove, CannotReadSrc, MapInv, InStep, MoveHolds
<1>3. Src.lnum \in LEB /\ work.from \notin free
    BY <1>1, <1>2 DEF MapInv, InStep, Erased, Src, MoveTo
<1>4. work.from # work.to
    BY <1>2 DEF Copying, MapInv, InStep, MoveHolds, Src
<1>5. Changing => op.lnum # Src.lnum
    BY <1>1, <1>2 DEF MoveTo, Copies, Src
<1>6. \A k \in LEB : eba_tbl[k] = work.from => k = Src.lnum \/ (Changing /\ op.lnum = k)
    BY <1>1, <1>2 DEF MapInv, InStep, MappingValid, Copies, Src, MoveTo, Waiting, Changing
<1> QED
    BY <1>2, <1>3, <1>4, <1>5, <1>6 DEF CopyFrom

\* What a move writes to its target.
LEMMA CopyWrites ==
  ASSUME MapInv, Copying,
         \/ work.k = "mvid" /\ SetFlash(work.to, CopyHdr)
         \/ work.k = "mdata" /\ \E d : SetFlash(work.to, WithData(flash[work.to], d))
  PROVE  Writes(work.to, "used", Src.lnum)
<1>1. MoveTo /\ CopyFrom
    BY CopyFromHolds, MoveToHolds DEF Copying
<1>2. Src \in PebState /\ flash[work.to] \in PebState /\ TypeOK
    BY <1>1 DEF MapInv, CtlInv, TypeOK, Src, MoveTo
<1>3. CopyHdr.st = "used" /\ CopyHdr.lnum = Src.lnum
  <2>1. CASE Src.data = <<>>
      BY <1>1, <1>2, <2>1 DEF CopyHdr, PebState, CopyFrom
  <2>2. CASE Src.data # <<>>
    <3>1. CopyHdr = VidHdr(Src.lnum, global_sqnum, TRUE, Src.data)
        BY <2>2 DEF CopyHdr
    <3> QED
        BY <3>1 DEF VidHdr
  <2> QED
      BY <2>1, <2>2
<1>4. CASE work.k = "mvid"
    BY <1>1, <1>2, <1>3, <1>4, SetFacts DEF MoveTo
<1>5. CASE work.k = "mdata"
  <2>1. flash[work.to].st = "used" /\ flash[work.to].lnum = Src.lnum
      BY <1>5 DEF MapInv, InStep, MoveHolds, Copies
  <2> QED
      BY <1>1, <1>2, <1>5, <2>1, SetFacts, HdrFacts DEF MoveTo
<1> QED
    BY <1>4, <1>5

\* The move is over and its target is given up.
LEMMA MapNotMoved ==
  ASSUME MapInv, work.k \in {"mvid", "mdata"}, eba_tbl' = eba_tbl, free' = free, Waits, Stages',
         work' = Erase(work.to) \/ work' = NoWork,
         \A q \in PEB : q # work.to => flash'[q].st = flash[q].st /\ flash'[q].lnum = flash[q].lnum,
         flash'[work.to].st = "used" =>
           flash'[work.to].lnum \in LEB /\ (Changing => flash'[work.to].lnum # op.lnum)
  PROVE  InStep'
<1>1. MoveTo
    BY MoveToHolds
<1>2. \/ work'.k = "erase" /\ work'.from = work.to
      \/ work'.k = "none"
    BY WorkFacts
<1> USE <1>1 DEF MapInv, InStep, Waiting, Waits, MoveTo
<1>3. Erased'
    BY DEF Erased, CtlInv, TypeOK
<1>4. MappingValid'
    BY DEF MappingValid, Copies, Changing
<1>5. OpHolds'
    BY DEF OpHolds, Copies
<1>6. Stale'
    BY <1>2 DEF Stale, Copies, Changing
<1>7. MoveHolds' /\ TodoUnmapped'
    BY <1>2 DEF MoveHolds, TodoUnmapped
<1>8. ErasedIsUnmapped'
    BY <1>2 DEF ErasedIsUnmapped, Changing
<1> QED
    BY <1>3, <1>4, <1>5, <1>6, <1>7, <1>8

\* The move is done: the LEB is mapped to the copy, and its old eraseblock is erased.
LEMMA MapMoved ==
  ASSUME MapInv, Copying, Writes(work.to, "used", Src.lnum),
         eba_tbl' = [eba_tbl EXCEPT ![Src.lnum] = work.to], free' = free, Waits, Stages',
         work' = Erase(work.from)
  PROVE  InStep'
<1>1. MoveTo /\ CopyFrom
    BY CopyFromHolds, MoveToHolds DEF Copying
<1>2. work'.k = "erase" /\ work'.from = work.from
    BY WorkFacts
<1>3. /\ \A k \in LEB : k # Src.lnum => eba_tbl'[k] = eba_tbl[k]
      /\ eba_tbl'[Src.lnum] = work.to
    BY <1>1 DEF MapInv, CtlInv, TypeOK, CopyFrom
<1> USE <1>1, <1>3 DEF MapInv, InStep, Waiting, Waits, MoveTo, CopyFrom, Writes
<1>4. Erased'
    BY DEF Erased, CtlInv, TypeOK
<1>5. MappingValid'
    BY DEF MappingValid, Copies, Changing
<1>6. OpHolds'
    BY DEF OpHolds, Copies, Changing
<1>7. Stale'
    BY <1>2 DEF Stale, Copies, Changing, Src
<1>8. MoveHolds' /\ TodoUnmapped'
    BY <1>2 DEF MoveHolds, TodoUnmapped
<1>9. ErasedIsUnmapped'
    BY <1>2 DEF ErasedIsUnmapped, Changing
<1> QED
    BY <1>4, <1>5, <1>6, <1>7, <1>8, <1>9

LEMMA MapMove ==
  MapInv /\ CtlInv' /\ (MoveVidHdr \/ MoveData) => InStep'
<1> SUFFICES ASSUME MapInv, CtlInv', MoveVidHdr \/ MoveData PROVE InStep'
    OBVIOUS
<1>1. Copying /\ UNCHANGED <<up, free, ro_mode, todo, op, faults>>
    BY DEF Copying, MoveVidHdr, MoveData
<1>2. MoveTo /\ CopyFrom
    BY <1>1, CopyFromHolds, MoveToHolds DEF Copying
<1>3. Writes(work.to, "used", Src.lnum)
    BY <1>1, CopyWrites DEF MoveVidHdr, MoveData
<1>4. /\ \A k \in LEB : k # Src.lnum => [eba_tbl EXCEPT ![Src.lnum] = work.to][k] = eba_tbl[k]
      /\ eba_tbl[Src.lnum] # NoPeb
    BY <1>2 DEF MapInv, CtlInv, TypeOK, CopyFrom, MoveTo
<1>5. CASE eba_tbl' = [eba_tbl EXCEPT ![Src.lnum] = work.to] /\ work' = Erase(work.from)
  <2>1. Waits
      BY <1>1, <1>2, <1>4, <1>5 DEF Waits, MoveTo
  <2>2. faults' >= faults
      BY <1>1 DEF MapInv, CtlInv, TypeOK
  <2>3. Stages'
      BY <1>2, <2>1, <2>2, MapStages DEF MoveTo
  <2> QED
      BY <1>1, <1>3, <1>5, <2>1, <2>3, MapMoved
<1>6. CASE /\ work.k = "mvid" /\ work' = [work EXCEPT !.k = "mdata"] /\ eba_tbl' = eba_tbl
  <2>0. work'.k = "mdata" /\ work'.from = work.from /\ work'.to = work.to
      BY <1>6 DEF MapInv, CtlInv, TypeOK, Work
  <2>1. Waits
      BY <1>1, <1>2, <1>6 DEF Waits, MoveTo
  <2>2. faults' >= faults
      BY <1>1 DEF MapInv, CtlInv, TypeOK
  <2>3. Stages'
      BY <1>2, <2>1, <2>2, MapStages DEF MoveTo
  <2> USE <1>1, <1>2, <1>3, <1>6, <2>0 DEF MapInv, InStep, Waiting, MoveTo, CopyFrom, Writes
  <2>4. Erased'
      BY DEF Erased, CtlInv, TypeOK
  <2>5. MappingValid'
      BY DEF MappingValid, Copies, Changing
  <2>6. OpHolds'
      BY DEF OpHolds, Copies
  <2>7. Stale'
      BY DEF Stale, Copies, Changing
  <2>8. MoveHolds'
      BY DEF MoveHolds, Src, Copies
  <2>9. TodoUnmapped' /\ ErasedIsUnmapped'
      BY DEF TodoUnmapped, ErasedIsUnmapped
  <2> QED
      BY <2>3, <2>4, <2>5, <2>6, <2>7, <2>8, <2>9
<1> QED
    BY <1>5, <1>6 DEF MoveVidHdr, MoveData, Moved

LEMMA MapGivenUp ==
  ASSUME MapInv, CtlInv',
         \/ MoveCancelled \/ MoveBitflip \/ MoveBadHdr \/ MoveWriteError \/ MoveReadError
  PROVE  InStep'
<1>1. /\ work.k \in {"mvid", "mdata"} /\ UNCHANGED <<up, eba_tbl, free, todo, op>>
    BY DEF MoveCancelled, MoveBitflip, MoveBadHdr, MoveWriteError, MoveReadError
<1>2. MoveTo /\ faults \in Nat /\ TypeOK
    BY <1>1, MoveToHolds DEF MapInv, CtlInv, TypeOK
<1>3. work' = Erase(work.to) \/ work' = NoWork
    BY DEF MoveCancelled, MoveBitflip, MoveBadHdr, MoveWriteError, MoveReadError, NotMoved, MoveFailed
<1>4. Waits /\ faults' >= faults
  <2>1. faults' >= faults
      BY <1>2 DEF MoveCancelled, MoveBitflip, MoveBadHdr, MoveWriteError, MoveReadError, Fault
  <2>2. ro_mode => ro_mode'
      BY DEF MoveCancelled, MoveBitflip, MoveBadHdr, MoveWriteError, MoveReadError, MoveFailed
  <2> QED
      BY <1>1, <1>2, <2>1, <2>2 DEF Waits, MoveTo
<1>5. Stages'
    BY <1>2, <1>4, MapStages DEF MoveTo
<1>6. /\ \A q \in PEB : q # work.to => flash'[q].st = flash[q].st /\ flash'[q].lnum = flash[q].lnum
      /\ flash'[work.to].st = "used" =>
           flash'[work.to].lnum \in LEB /\ (Changing => flash'[work.to].lnum # op.lnum)
  <2>1. CASE flash' = flash /\ work.k = "mvid"
      BY <2>1 DEF MapInv, InStep, MoveHolds
  <2>2. CASE work.k = "mvid" /\ SetFlash(work.to, Blank("corr"))
      BY <1>2, <2>2, SetFacts, HdrFacts DEF Writes, MoveTo
  <2>3. CASE /\ Copying
             /\ \/ work.k = "mvid" /\ SetFlash(work.to, CopyHdr)
                \/ work.k = "mdata" /\ \E d : SetFlash(work.to, WithData(flash[work.to], d))
    <3>1. Writes(work.to, "used", Src.lnum) /\ CopyFrom
        BY <2>3, CopyWrites, CopyFromHolds
    <3> QED
        BY <3>1 DEF Writes, CopyFrom
  <2>4. CASE MoveCancelled \/ MoveReadError
      BY <2>1, <2>4 DEF MoveCancelled, MoveReadError
  <2>5. CASE MoveBitflip
      BY <2>3, <2>5 DEF MoveBitflip, Copying
  <2>6. CASE MoveWriteError
    <3>1. SetFlash(work.to, flash[work.to]) => flash' = flash
        BY <1>2 DEF SetFlash, TypeOK
    <3> QED
        BY <2>1, <2>2, <2>3, <2>6, <3>1 DEF MoveWriteError, Copying
  <2>7. CASE MoveBadHdr
    <3>1. SetFlash(work.to, flash[work.to]) => flash' = flash
        BY <1>2 DEF SetFlash, TypeOK
    <3> QED
        BY <2>1, <2>2, <2>7, <3>1 DEF MoveBadHdr
  <2> QED
      BY <2>4, <2>5, <2>6, <2>7
<1> QED
    BY <1>1, <1>3, <1>4, <1>5, <1>6, MapNotMoved

\* A move starts between operations.
LEMMA MapStart ==
  ASSUME MapInv, up = "up", up' = "up", op.pc # "map", SameHeads, todo = {}, Stages',
         op'.pc = "idle", UNCHANGED <<eba_tbl, todo>>,
         \/ work' = NoWork /\ free' = free
         \/ \E e1 \in used, e2 \in free : work' = Move(e1, e2) /\ free' = free \ {e2}
  PROVE  InStep'
<1>1. /\ free' \subseteq free
      /\ \/ work'.k = "none"
         \/ work'.k = "mvid" /\ work'.to \in free /\ work'.to \notin free'
    BY WorkFacts
<1> USE <1>1 DEF MapInv, InStep, SameHeads
<1>2. Erased'
    BY DEF Erased, CtlInv, TypeOK
<1>3. MappingValid'
    BY MapBefore DEF MappingValid, Copies
<1>4. MoveHolds'
    BY DEF MoveHolds, Erased, CtlInv, TypeOK
<1>5. OpHolds' /\ Stale' /\ TodoUnmapped' /\ ErasedIsUnmapped'
    BY DEF OpHolds, Stale, Changing, TodoUnmapped, ErasedIsUnmapped
<1> QED
    BY <1>2, <1>3, <1>4, <1>5

LEMMA MapScrub == ASSUME MapInv, CtlInv', NEW l \in LEB, ScrubLeb(l) PROVE InStep'
<1>1. /\ Alone("idle") /\ UNCHANGED <<flash, up, eba_tbl, ro_mode, todo, op, faults>>
      /\ \E e1 \in used, e2 \in free : /\ work' = Move(e1, e2) /\ free' = free \ {e2}
    BY AtFacts DEF ScrubLeb, Ready
<1>2. todo = {} /\ SameHeads
    BY <1>1 DEF MapInv, InStep, Stages, Alone, SameHeads
<1>3. Stages'
    BY <1>1, <1>2 DEF MapInv, InStep, Stages, Alone
<1> QED
    BY <1>1, <1>2, <1>3, MapStart DEF Alone

-----------------------------------------------------------------------------
(* The mapping: power and attaching.                                        *)

\* No header appears, and the ones that stay are the ones that were there.
FewerHeads == \A q \in PEB : flash'[q].st = "used" =>
                flash[q].st = "used" /\ flash'[q].lnum = flash[q].lnum

LEMMA CutFacts ==
  ASSUME CtlInv, PowerOff \/ PowerCut
  PROVE  LoseRam /\ FewerHeads
<1>1. LoseRam
    BY DEF PowerOff, PowerCut
<1>2. CASE flash' = flash
    BY <1>1, <1>2 DEF FewerHeads
<1>3. CASE up = "up" /\ \E i \in Interrupted : SetFlash(i[1], i[2])
  <2>1. PICK i \in Interrupted : SetFlash(i[1], i[2])
      BY <1>3
  <2>2. /\ i[1] \in PEB
        /\ i[2].st = "used" => flash[i[1]].st = "used" /\ i[2].lnum = flash[i[1]].lnum
      BY <1>3, InterruptedType
  <2>3. Writes(i[1], i[2].st, i[2].lnum)
      BY <2>1, <2>2, SetFacts DEF CtlInv
  <2> QED
      BY <1>1, <2>2, <2>3 DEF FewerHeads, Writes
<1> QED
    BY <1>2, <1>3 DEF PowerOff, PowerCut

LEMMA MapLosePower == MapInv /\ CtlInv' /\ (PowerOff \/ PowerCut) => InStep'
<1> SUFFICES ASSUME MapInv, CtlInv', PowerOff \/ PowerCut PROVE InStep'
    OBVIOUS
<1>1. LoseRam /\ FewerHeads
    BY CutFacts DEF MapInv
<1>2. /\ up' = "down" /\ free' = {} /\ used' = {} /\ todo' = {} /\ work'.k = "none"
      /\ op'.pc = "idle" /\ op'.kind = "idle" /\ ro_mode' = FALSE /\ work' = NoWork
      /\ \A l \in LEB : eba_tbl'[l] = NoPeb
    BY <1>1, IdleFacts, WorkFacts DEF LoseRam, Return
<1>3. Erased'
    BY <1>1, <1>2 DEF Erased, FewerHeads, MapInv, InStep
<1>4. Stages' /\ OpHolds' /\ MoveHolds' /\ Stale' /\ TodoUnmapped'
    BY <1>2 DEF Stages, OpHolds, MoveHolds, Stale, Changing, TodoUnmapped
<1>5. MappingValid' /\ ErasedIsUnmapped'
    BY <1>2 DEF MappingValid, ErasedIsUnmapped
<1> QED
    BY <1>3, <1>4, <1>5 DEF InStep

\* What a scan maps is a copy of the LEB.
LEMMA ScanMaps ==
  \A l \in LEB : /\ ScanTbl[l] \in Copies(l) \cup {NoPeb}
                 /\ ScanTbl[l] # NoPeb => IsWinner(ScanTbl[l], l)
<1> SUFFICES ASSUME NEW l \in LEB
             PROVE  /\ ScanTbl[l] \in Copies(l) \cup {NoPeb}
                    /\ ScanTbl[l] # NoPeb => IsWinner(ScanTbl[l], l)
    OBVIOUS
<1>1. CASE \E p \in PEB : IsWinner(p, l)
  <2>1. ScanTbl[l] = CHOOSE p \in PEB : IsWinner(p, l)
      BY <1>1 DEF ScanTbl
  <2>2. IsWinner(ScanTbl[l], l)
      BY <1>1, <2>1
  <2> QED
      BY <2>2 DEF IsWinner
<1>2. CASE ~\E p \in PEB : IsWinner(p, l)
    BY <1>2 DEF ScanTbl
<1> QED
    BY <1>1, <1>2

LEMMA MapAttach == MapInv /\ CtlInv' /\ (Attach \/ AttachError) => InStep'
<1> SUFFICES ASSUME MapInv, CtlInv', Attach \/ AttachError PROVE InStep'
    OBVIOUS
<1>1. CASE Attach
  <2>1. /\ up = "down" /\ up' = "up" /\ eba_tbl' = ScanTbl
        /\ used' = {p \in PEB : \E l \in LEB : ScanTbl[l] = p}
        /\ free' = {p \in PEB : flash[p].st = "free"}
        /\ todo' = {p \in PEB : flash[p].st \in {"empty", "corr", "used"}} \ used'
        /\ op' = [Idle("none") EXCEPT !.kind = "attach", !.pc = "attach"]
        /\ UNCHANGED <<flash, ro_mode, work, faults>>
      BY <1>1 DEF Attach
  <2>2. op'.pc = "attach" /\ op'.kind = "attach" /\ work' = NoWork /\ work'.k = "none"
      BY <2>1, WorkFacts DEF Idle, MapInv, CtlInv, ControlOK
  <2>3. Stages'
      BY <2>1, <2>2 DEF Stages
  <2>4. Erased'
      BY <2>1 DEF Erased, MapInv, InStep
  <2>5. MappingValid'
      BY <2>1, ScanMaps DEF MappingValid, Copies
  <2>6. TodoUnmapped'
      BY <2>1, <2>2 DEF TodoUnmapped
  <2>7. OpHolds' /\ MoveHolds' /\ Stale' /\ ErasedIsUnmapped'
      BY <2>2 DEF OpHolds, MoveHolds, Stale, Changing, ErasedIsUnmapped
  <2> QED
      BY <2>3, <2>4, <2>5, <2>6, <2>7 DEF InStep
<1>2. CASE AttachError
  <2>1. /\ up = "down" /\ up' = "failed" /\ work.k = "none"
        /\ UNCHANGED <<flash, eba_tbl, free, used, ro_mode, todo, op, work, faults>>
      BY <1>2, WorkFacts DEF AttachError, ram, MapInv, CtlInv, ControlOK
  <2>2. Stages'
      BY <2>1 DEF Stages, MapInv, InStep
  <2>3. Erased' /\ OpHolds' /\ MoveHolds' /\ Stale' /\ TodoUnmapped' /\ ErasedIsUnmapped'
      BY <2>1 DEF MapInv, InStep, Erased, OpHolds, MoveHolds, Stale, Changing, TodoUnmapped,
                  ErasedIsUnmapped, Copies
  <2>4. MappingValid'
      BY <2>1 DEF MappingValid
  <2> QED
      BY <2>2, <2>3, <2>4 DEF InStep
<1> QED
    BY <1>1, <1>2

LEMMA MapAttachEnds == MapInv /\ CtlInv' /\ (AttachErase \/ AttachDone) => InStep'
<1> SUFFICES ASSUME MapInv, CtlInv', AttachErase \/ AttachDone PROVE InStep'
    OBVIOUS
<1>1. /\ Alone("attach") /\ UNCHANGED <<flash, up, eba_tbl, ro_mode, faults>>
    BY AtFacts DEF AttachErase, AttachDone
<1>2. CASE AttachErase
  <2>1. PICK p \in todo : todo' = todo \ {p} /\ work' = Erase(p) /\ UNCHANGED <<free, used, op>>
      BY <1>2 DEF AttachErase
  <2>2. work'.k = "erase" /\ work'.from = p /\ work'.k # "mvid" /\ work'.k # "mdata"
      BY <2>1, WorkFacts
  <2>3. Stages'
      BY <1>1, <2>1, <2>2 DEF Stages, MapInv, InStep, Alone
  <2>4. Erased' /\ OpHolds' /\ MoveHolds' /\ Stale'
      BY <1>1, <2>1, <2>2
      DEF MapInv, InStep, Erased, OpHolds, MoveHolds, Stale, Changing, Alone
  <2>5. TodoUnmapped' /\ ErasedIsUnmapped'
      BY <1>1, <2>1, <2>2 DEF MapInv, InStep, TodoUnmapped, ErasedIsUnmapped
  <2>6. MappingValid'
      BY <1>1, MapBefore DEF MappingValid, Copies, Alone
  <2> QED
      BY <2>3, <2>4, <2>5, <2>6 DEF InStep
<1>3. CASE AttachDone
  <2>1. /\ todo = {} /\ todo' = {} /\ op' = Idle("none")
        /\ \/ work' = NoWork /\ free' = free
           \/ \E e1 \in used, e2 \in free : work' = Move(e1, e2) /\ free' = free \ {e2}
      BY <1>3 DEF AttachDone, EnsureWearLeveling, Return
  <2>2. op'.pc = "idle" /\ op'.kind = "idle"
      BY <2>1, IdleFacts
  <2>3. Stages'
      BY <1>1, <2>1, <2>2 DEF Stages, Alone
  <2> QED
      BY <1>1, <2>1, <2>2, <2>3, MapStart DEF Alone, SameHeads
<1> QED
    BY <1>2, <1>3

-----------------------------------------------------------------------------
(* The mapping: the theorems.                                               *)

\* Every step keeps the mapping valid but the one that takes an unverified copy for a move.
LEMMA VerifiedStepKeepsMap ==
  ASSUME RecoversAtOnce
  PROVE  MapInv /\ [Next]_vars /\ [~MoveMismatch]_vars => MapInv'
<1> SUFFICES ASSUME MapInv, [Next]_vars, [~MoveMismatch]_vars
             PROVE  MapInv'
    OBVIOUS
<1>0. CtlInv'
    BY StepKeepsTypes DEF MapInv
<1>1. CASE EbaStep
    BY <1>0, <1>1, MapBegin, MapAppend, MapUnmap, MapWriteVidHdr, MapWriteData, MapMapLeb,
       MapWriteError, MapRetry, MapWriteRefused, MapInPlace, MapRecoverGet, MapRecoverVidHdr,
       MapRecoverData, MapRecoverReadError, MapRecoverWriteError, MapEnds DEF EbaStep, MapInv
<1>2. CASE WlStep /\ ~MoveMismatch
    BY <1>0, <1>2, MapEraseWorker, MapEraseEnds, MapMove, MapGivenUp, MapScrub DEF WlStep, MapInv
<1>3. CASE PowerStep
    BY <1>0, <1>3, MapLosePower, MapAttach, MapAttachEnds DEF PowerStep, MapInv
<1>4. CASE UNCHANGED vars
  <2>1. UNCHANGED <<flash, up, eba_tbl, free, used, ro_mode, todo, op, work, faults>>
      BY <1>4 DEF vars, ram
  <2> QED
      BY <1>0, <2>1
      DEF MapInv, InStep, Stages, Erased, OpHolds, MoveHolds, Stale, Changing, TodoUnmapped,
          MappingValid, ErasedIsUnmapped, Copies, Src
<1> QED
    BY <1>1, <1>2, <1>3, <1>4 DEF Next

LEMMA StepKeepsMap ==
  ASSUME RecoverySafe
  PROVE  MapInv /\ [Next]_vars => MapInv'
<1>1. ~MoveMismatch
    BY DEF RecoverySafe, MoveMismatch, Fault
<1> QED
    BY <1>1, VerifiedStepKeepsMap DEF RecoverySafe

LEMMA InitMap == Init => MapInv
<1> SUFFICES ASSUME Init
             PROVE  MapInv
    OBVIOUS
<1>1. CtlInv
    BY InitTypes
<1>2. /\ op.pc = "idle" /\ op.kind = "idle" /\ work = NoWork /\ work.k = "none" /\ up = "down"
      /\ free = {} /\ used = {} /\ todo = {} /\ (\A l \in LEB : eba_tbl[l] = NoPeb)
      /\ \A p \in PEB : flash[p].st = "free"
    BY IdleFacts, WorkFacts, HdrFacts DEF Init
<1>3. Stages /\ Erased /\ OpHolds /\ MoveHolds /\ Stale /\ TodoUnmapped
    BY <1>2 DEF Stages, Erased, OpHolds, MoveHolds, Stale, Changing, TodoUnmapped
<1>4. MappingValid /\ ErasedIsUnmapped
    BY <1>2 DEF MappingValid, ErasedIsUnmapped
<1> QED
    BY <1>1, <1>3, <1>4 DEF MapInv, InStep

\* The mapping in RAM points every LEB at an eraseblock that carries it, in every state of an
\* attached device: while an erasure or a move runs inside an operation, while a failed write is
\* tried elsewhere or recovered, and after power cuts; ubi_eba_atomic_leb_change, which erases
\* before it maps, is the one exception.
THEOREM MappingStaysValid == ASSUME RecoverySafe PROVE Spec => []MappingValid
<1>1. Init => MapInv
    BY InitMap
<1>2. MapInv /\ [Next]_vars => MapInv'
    BY StepKeepsMap
<1>3. MapInv => MappingValid
    BY DEF MapInv, InStep
<1> QED
    BY <1>1, <1>2, <1>3, PTL DEF Spec

\* sync_erase is never asked to erase an eraseblock that a LEB is mapped to, whoever asked for the
\* erasure (ubi_wl_put_peb, a move that was given up, interrupted or done, ubi_wl_init_scan at
\* attach), on any flash and for as long as no move ends in MoveMismatch.  That one step, a copy
\* whose data reads back differently (the exit of ubi_eba_copy_leb with err = 0), is thus the only
\* one that lets wear_leveling_worker erase a mapped eraseblock.
THEOREM OnlyUnmappedErased ==
  ASSUME RecoversAtOnce
  PROVE  Spec /\ [][~MoveMismatch]_vars => []ErasedIsUnmapped
<1>1. Init => MapInv
    BY InitMap
<1>2. MapInv /\ [Next]_vars /\ [~MoveMismatch]_vars => MapInv'
    BY VerifiedStepKeepsMap
<1>3. MapInv => ErasedIsUnmapped
    BY DEF MapInv, InStep
<1> QED
    BY <1>1, <1>2, <1>3, PTL DEF Spec

-----------------------------------------------------------------------------
(* The copies of a LEB.                                                     *)

\* Few follows while the device is attached.
LEMMA LoneIsFew == ASSUME Lone', up' = "up" PROVE Few'
  BY DEF Lone, Few

\* The copies of every LEB but l stay or become fewer, and l is looked at by itself.
LEMMA CopyStep ==
  ASSUME CopyInv, up = "up", up' = "up", NEW l \in LEB,
         \A q \in PEB : flash'[q].st = "used" => \/ flash[q].st = "used" /\ flash'[q].lnum = flash[q].lnum
                                                 \/ flash'[q].lnum = l,
         \A k \in LEB : k # l => eba_tbl'[k] = eba_tbl[k],
         ro_mode => ro_mode',
         ~ro_mode' => \A p \in InFlight : \/ p \in InFlight' \/ flash'[p].st # "used"
                                          \/ flash'[p].lnum = l,
         \A p, q \in Copies(l)' \ {eba_tbl'[l]} : p = q,
         ~ro_mode' => Copies(l)' \subseteq {eba_tbl'[l]} \cup InFlight'
  PROVE  Few' /\ Lone' /\ Extra'
<1>1. \A k \in LEB : k # l => Copies(k)' \subseteq Copies(k)
    BY DEF Copies
<1>2. Lone'
    BY <1>1 DEF CopyInv, Lone
<1>3. Extra'
  <2> SUFFICES ASSUME ~ro_mode', NEW k \in LEB, NEW p \in Copies(k)'
               PROVE  p = eba_tbl'[k] \/ p \in InFlight'
      BY DEF Extra
  <2>1. CASE k = l
      BY <2>1
  <2>2. CASE k # l
    <3>1. p \in Copies(k) /\ flash'[p].st = "used" /\ flash'[p].lnum = k
        BY <1>1, <2>2 DEF Copies
    <3>2. p = eba_tbl[k] \/ p \in InFlight
        BY <3>1 DEF CopyInv, Extra
    <3> QED
        BY <2>2, <3>1, <3>2
  <2> QED
      BY <2>1, <2>2
<1> QED
    BY <1>2, <1>3, LoneIsFew

\* No header is written and nothing is mapped elsewhere.
LEMMA CopyKeep ==
  ASSUME CopyInv, up = "up", up' = "up", FewerHeads, eba_tbl' = eba_tbl, ro_mode => ro_mode',
         ~ro_mode' => \A p \in InFlight : p \in InFlight' \/ flash'[p].st # "used"
  PROVE  Few' /\ Lone' /\ Extra'
<1>1. \A k \in LEB : Copies(k)' \subseteq Copies(k)
    BY DEF Copies, FewerHeads
<1>2. Lone'
    BY <1>1 DEF CopyInv, Lone
<1>3. Extra'
  <2> SUFFICES ASSUME ~ro_mode', NEW k \in LEB, NEW p \in Copies(k)'
               PROVE  p = eba_tbl'[k] \/ p \in InFlight'
      BY DEF Extra
  <2>1. p \in Copies(k) /\ flash'[p].st = "used"
      BY <1>1 DEF Copies
  <2>2. p = eba_tbl[k] \/ p \in InFlight
      BY <2>1 DEF CopyInv, Extra
  <2> QED
      BY <2>1, <2>2
<1> QED
    BY <1>2, <1>3, LoneIsFew

LEMMA SameIsFewer == SameHeads => FewerHeads
  BY DEF SameHeads, FewerHeads

\* Between flash operations that write a header, no LEB has a second copy.
LEMMA NoneInFlight ==
  ASSUME CopyInv, up = "up", work.k = "none", todo = {}, op.pc \notin {"data", "map", "rdata"}
  PROVE  InFlight = {} /\ (~ro_mode => \A l \in LEB : Copies(l) \subseteq {eba_tbl[l]})
<1>1. InFlight = {}
    BY DEF InFlight
<1> QED
    BY <1>1 DEF CopyInv, Extra

\* An operation starts, ends or takes an eraseblock.
LEMMA CopyQuiet ==
  ASSUME RecoverySafe, CopyInv,
         \/ \E l \in LEB, c \in Written : WriteLeb(l, c) \/ AtomicLebChange(l, c) \/ AppendLeb(l, c)
         \/ RetryWrite \/ WriteRefused \/ WriteInPlace \/ WriteInPlaceError
         \/ RecoverGetPeb \/ RecoverFailed \/ Done
  PROVE  Few' /\ Lone' /\ Extra'
<1>t. TypeOK /\ MapInv
    BY DEF CopyInv, MapInv, CtlInv
<1>1. /\ \E pc \in {"idle", "vid", "data", "retry", "inplace", "rget", "rfail", "done"} :
           Alone(pc) /\ (pc \in {"vid", "data"} => ro_mode)
      /\ UNCHANGED <<up, eba_tbl>>
  <2>1. ASSUME NEW l \in LEB, NEW c \in Written,
               WriteLeb(l, c) \/ AtomicLebChange(l, c) \/ AppendLeb(l, c)
        PROVE  Alone("idle") /\ UNCHANGED <<up, eba_tbl>>
      BY <2>1, AtFacts DEF WriteLeb, AtomicLebChange, AppendLeb, Ready, ram
  <2>2. RetryWrite => Alone("retry") /\ UNCHANGED <<up, eba_tbl>>
      BY AtFacts DEF RetryWrite
  <2>3. WriteRefused => /\ \E pc \in {"idle", "vid", "data"} : Alone(pc)
                        /\ ro_mode /\ UNCHANGED <<up, eba_tbl>>
      BY AtFacts DEF WriteRefused, ram
  <2>4. WriteInPlace \/ WriteInPlaceError => Alone("inplace") /\ UNCHANGED <<up, eba_tbl>>
      BY AtFacts DEF WriteInPlace, WriteInPlaceError, ram
  <2>5. RecoverGetPeb => Alone("rget") /\ UNCHANGED <<up, eba_tbl>>
    <3>1. RecoverGetPeb => At("rget") /\ UNCHANGED <<up, eba_tbl>>
        BY DEF RecoverGetPeb
    <3> QED
        BY <3>1, AtFacts
  <2>6. RecoverFailed => Alone("rfail") /\ UNCHANGED <<up, eba_tbl>>
      BY AtFacts DEF RecoverFailed
  <2>7. Done => Alone("done") /\ UNCHANGED <<up, eba_tbl>>
      BY AtFacts DEF Done, ram
  <2> QED
      BY <2>1, <2>2, <2>3, <2>4, <2>5, <2>6, <2>7
<1>2. SameHeads
  <2>1. WriteInPlace \/ WriteInPlaceError => SameHeads
    <3>1. WriteInPlace \/ WriteInPlaceError => op.old \in PEB
        BY <1>t DEF WriteInPlace, WriteInPlaceError, At, MapInv, CtlInv, ControlOK
    <3> QED
        BY <1>t, <3>1, DataFacts DEF WriteInPlace, WriteInPlaceError
  <2>2. flash' = flash => SameHeads
      BY DEF SameHeads
  <2>3. RecoverGetPeb => flash' = flash
      BY DEF RecoverGetPeb
  <2> QED
      BY <2>1, <2>2, <2>3
      DEF WriteLeb, AtomicLebChange, AppendLeb, RetryWrite, WriteRefused, RecoverFailed, Done
<1>3. ro_mode => ro_mode'
  <2>1. RecoverGetPeb => (ro_mode => ro_mode')
      BY DEF RecoverGetPeb
  <2> QED
      BY <2>1 DEF WriteLeb, AtomicLebChange, AppendLeb, RetryWrite, WriteRefused, WriteInPlace,
         WriteInPlaceError, RecoverFailed, Done, ram
<1>4. ~ro_mode => InFlight = {}
  <2>1. ~ro_mode => /\ up = "up" /\ work.k = "none" /\ todo = {}
                    /\ op.pc \notin {"data", "map", "rdata"}
      BY <1>1, <1>t DEF Alone, MapInv, InStep, Stages
  <2> QED
      BY <2>1, NoneInFlight
<1> QED
    BY <1>1, <1>2, <1>3, <1>4, SameIsFewer, CopyKeep DEF Alone

\* An operation writes its header, in front of its data.
LEMMA CopyHeader ==
  ASSUME CopyInv, MapInv', WriteVidHdr \/ RecoverVidHdr
  PROVE  Few' /\ Lone' /\ Extra'
<1>m. MapInv /\ TypeOK
    BY DEF CopyInv, MapInv, CtlInv
<1>1. /\ \E pc \in {"vid", "rvid"} : Alone(pc)
      /\ ~ro_mode /\ op.pnum \in PEB /\ op.lnum \in LEB /\ op'.pc \in {"data", "map", "rdata"}
      /\ op'.pnum = op.pnum /\ UNCHANGED <<up, eba_tbl, ro_mode, todo, work>>
      /\ \E r : SetFlash(op.pnum, r)
  <2>1. CASE WriteVidHdr
    <3>1. op' = [op EXCEPT !.pc = IF op.arg = <<>> THEN "map" ELSE "data"]
        BY <2>1 DEF WriteVidHdr, Goto
    <3>2. SameOp /\ op'.pc \in {"data", "map"}
        BY <1>m, <3>1, GotoFacts
    <3> QED
        BY <1>m, <2>1, <3>2, AtFacts DEF WriteVidHdr, MapInv, CtlInv, ControlOK, Alone, ram, SameOp
  <2>2. CASE RecoverVidHdr
    <3>1. SameOp /\ op'.pc = "rdata"
        BY <1>m, <2>2, GotoFacts DEF RecoverVidHdr, Goto
    <3> QED
        BY <1>m, <2>2, <3>1, AtFacts
        DEF RecoverVidHdr, MapInv, CtlInv, ControlOK, Alone, ram, SameOp
  <2> QED
      BY <2>1, <2>2
<1>l. PICK l \in LEB : l = op.lnum
    BY <1>1
<1>2. todo = {} /\ InFlight = {} /\ Copies(l) \subseteq {eba_tbl[l]}
    BY <1>1, <1>m, NoneInFlight DEF Alone, MapInv, InStep, Stages
<1>3. /\ \A q \in PEB : q # op.pnum => flash'[q] = flash[q]
      /\ Copies(l)' \subseteq {eba_tbl[l], op.pnum}
    BY <1>1, <1>2, <1>m DEF SetFlash, TypeOK, Copies
<1>4. op.pnum \in InFlight'
    BY <1>1 DEF InFlight
<1>5. flash'[op.pnum].st = "used" => flash'[op.pnum].lnum = op.lnum
  <2>1. CASE WriteVidHdr
      BY <1>1, <1>m, <2>1, SetFacts, OpHdrFacts DEF WriteVidHdr, Writes
  <2>2. CASE RecoverVidHdr
    <3>1. op.old \in PEB /\ flash[op.old].lnum = op.lnum
        BY <1>1, <1>m, <2>2, MapBefore
        DEF RecoverVidHdr, At, MapInv, InStep, OpHolds, CtlInv, ControlOK, Copies
    <3>2. RecoveredHdr.lnum = op.lnum
        BY <1>m, <3>1 DEF RecoveredHdr, TypeOK, PebState
    <3> QED
        BY <1>1, <1>m, <2>2, <3>2, SetFacts DEF RecoverVidHdr, Writes
  <2> QED
      BY <2>1, <2>2
<1> QED
    BY <1>1, <1>l, <1>2, <1>3, <1>4, <1>5, CopyStep DEF Alone

\* The eraseblock an operation has written: it is kept, or handed to an erasure.
LEMMA CopyWritten ==
  ASSUME CopyInv, WriteData \/ RecoverReadError
  PROVE  Few' /\ Lone' /\ Extra'
<1>m. MapInv /\ TypeOK
    BY DEF CopyInv, MapInv, CtlInv
<1>1. /\ \E pc \in {"data", "rdata"} : Alone(pc)
      /\ op.pnum \in PEB /\ UNCHANGED <<up, eba_tbl, todo>> /\ ~ro_mode
    BY <1>m, AtFacts
    DEF WriteData, RecoverReadError, MapInv, CtlInv, ControlOK, InStep, Stages, Alone
<1>2. SameHeads
  <2>1. CASE WriteData
      BY <1>1, <1>m, <2>1, DataFacts DEF WriteData
  <2>2. CASE RecoverReadError
      BY <2>2 DEF RecoverReadError, SameHeads
  <2> QED
      BY <2>1, <2>2
<1>3. todo = {} /\ InFlight \subseteq {op.pnum}
    BY <1>1, <1>m DEF Alone, MapInv, InStep, Stages, InFlight
<1>4. ~ro_mode' => op.pnum \in InFlight'
  <2>1. CASE WriteData
    <3>1. op' = [op EXCEPT !.pc = "map"] => op'.pc = "map" /\ op'.pnum = op.pnum
        BY <1>m, GotoFacts DEF SameOp
    <3>2. \/ op' = [op EXCEPT !.pc = "map"]
          \/ PutPeb(eba_tbl[op.lnum], [op EXCEPT !.pc = "map"], Idle("err"))
        BY <2>1 DEF WriteData, Goto
    <3>3. ~ro_mode' => op' = [op EXCEPT !.pc = "map"]
        BY <3>2 DEF PutPeb
    <3> QED
        BY <1>1, <3>1, <3>3 DEF InFlight
  <2>2. CASE RecoverReadError
    <3>1. \/ ro_mode'
          \/ work'.k = "erase" /\ work'.from = op.pnum
        BY <1>1, <2>2, PutFacts DEF RecoverReadError, Alone
    <3> QED
        BY <1>1, <3>1 DEF InFlight
  <2> QED
      BY <2>1, <2>2
<1> QED
    BY <1>1, <1>2, <1>3, <1>4, SameIsFewer, CopyKeep DEF Alone

\* A failed write may leave a header behind, on an eraseblock that is erased next.
LEMMA CopyWriteError ==
  ASSUME CopyInv, WriteError
  PROVE  Few' /\ Lone' /\ Extra'
<1>m. MapInv /\ TypeOK
    BY DEF CopyInv, MapInv, CtlInv
<1>1. /\ \E pc \in {"vid", "data"} : Alone(pc)
      /\ UNCHANGED <<up, eba_tbl, todo>> /\ ~ro_mode
      /\ PutPeb(op.pnum, [op EXCEPT !.pc = "retry"], Idle("err"))
    BY AtFacts DEF WriteError
<1>2. op.pnum \in PEB /\ op.lnum \in LEB /\ todo = {} /\ InFlight \subseteq {op.pnum}
    BY <1>1, <1>m DEF Alone, MapInv, InStep, Stages, InFlight, CtlInv, ControlOK
<1>3. ~ro_mode' => op.pnum \in InFlight'
  <2>1. \/ ro_mode'
        \/ work'.k = "erase" /\ work'.from = op.pnum
      BY <1>1, PutFacts DEF Alone
  <2> QED
      BY <1>2, <2>1 DEF InFlight
<1>l. PICK l \in LEB : l = op.lnum
    BY <1>2
<1>4. CASE Alone("vid")
  <2>1. PICK r \in VidHdrLeft : SetFlash(op.pnum, r)
      BY <1>4 DEF WriteError, At, Alone
  <2>2. r.st = "used" => r.lnum = l
      BY <1>4, <1>l, <1>m, OpHdrFacts, HdrFacts DEF VidHdrLeft, MapInv, InStep, OpHolds, Alone
  <2>3. Writes(op.pnum, r.st, r.lnum)
      BY <1>2, <1>m, <2>1, SetFacts
  <2>4. Copies(l) \subseteq {eba_tbl[l]}
      BY <1>1, <1>2, <1>4, NoneInFlight DEF Alone
  <2>5. /\ \A q \in PEB : q # op.pnum => flash'[q] = flash[q]
        /\ flash'[op.pnum].st = "used" => flash'[op.pnum].lnum = l
        /\ Copies(l)' \subseteq {eba_tbl[l], op.pnum}
      BY <1>1, <2>2, <2>3, <2>4 DEF Writes, Copies
  <2> QED
      BY <1>1, <1>2, <1>3, <2>5, CopyStep DEF Alone
<1>5. CASE Alone("data")
  <2>1. SameHeads
      BY <1>2, <1>5, <1>m, DataFacts DEF WriteError, At, Alone, DataLeft
  <2> QED
      BY <1>1, <1>2, <1>3, <2>1, SameIsFewer, CopyKeep DEF Alone
<1> QED
    BY <1>1, <1>4, <1>5

\* A LEB is mapped to another eraseblock, or to none; no header is written.
LEMMA CopyRemap ==
  ASSUME CopyInv, MapLeb \/ RecoverData \/ \E k \in LEB : UnmapLeb(k)
  PROVE  Few' /\ Lone' /\ Extra'
<1>m. MapInv /\ TypeOK
    BY DEF CopyInv, MapInv, CtlInv
<1>1. CASE MapLeb
  <2>1. /\ Alone("map") /\ op.pnum \in PEB /\ op.lnum \in LEB
        /\ eba_tbl' = [eba_tbl EXCEPT ![op.lnum] = op.pnum]
        /\ UNCHANGED <<flash, up, ro_mode, todo, work>>
      BY <1>m, <1>1, AtFacts DEF MapLeb, MapInv, CtlInv, ControlOK, Alone
  <2>2. PICK l \in LEB : l = op.lnum
      BY <2>1
  <2>3. /\ todo = {} /\ InFlight \subseteq {op.pnum}
        /\ op.pnum \in Copies(l) /\ eba_tbl[l] # op.pnum
        /\ ~ro_mode => eba_tbl[l] \notin Copies(l)
      BY <2>1, <2>2, <1>m
      DEF MapInv, InStep, Stages, OpHolds, Stale, Changing, Alone, InFlight, Copies
  <2>4. Copies(l) \subseteq {eba_tbl[l], op.pnum}
      BY <2>1, <2>3 DEF CopyInv, Lone, Alone
  <2>5. eba_tbl'[l] = op.pnum /\ \A k \in LEB : k # l => eba_tbl'[k] = eba_tbl[k]
      BY <2>1, <2>2, <1>m DEF TypeOK
  <2>6. Copies(l)' = Copies(l) /\ flash[op.pnum].lnum = l
      BY <2>1, <2>3 DEF Copies
  <2> QED
      BY <2>1, <2>3, <2>4, <2>5, <2>6, CopyStep DEF Alone
<1>2. CASE RecoverData
  <2>1. /\ Alone("rdata") /\ UNCHANGED <<up, todo>>
        /\ eba_tbl' = [eba_tbl EXCEPT ![op.lnum] = op.pnum]
        /\ SetFlash(op.pnum, WithData(flash[op.pnum], RecoveredData))
        /\ PutPeb(op.old, [op EXCEPT !.pc = "done"], Idle("ok"))
      BY <1>2, AtFacts DEF RecoverData
  <2>2. PICK l \in LEB : l = op.lnum
      BY <2>1, <1>m, RecoverHolds
  <2>3. /\ op.pnum \in PEB /\ op.old \in PEB /\ ~ro_mode /\ InFlight \subseteq {op.pnum}
        /\ op.pnum \in Copies(l) /\ op.old = eba_tbl[l] /\ op.pnum # op.old
    <3>1. /\ op.pnum \in PEB /\ op.old \in PEB /\ ~ro_mode /\ todo = {}
          /\ op.pnum \in Copies(op.lnum) /\ op.old = eba_tbl[op.lnum] /\ op.pnum # op.old
        BY <2>1, <1>m, RecoverHolds
    <3> QED
        BY <2>1, <2>2, <3>1 DEF Alone, InFlight
  <2>4. Copies(l) \subseteq {op.old, op.pnum}
      BY <2>1, <2>3 DEF CopyInv, Lone, Alone
  <2>5. eba_tbl'[l] = op.pnum /\ \A k \in LEB : k # l => eba_tbl'[k] = eba_tbl[k]
      BY <2>1, <2>2, <1>m DEF TypeOK
  <2>6. SameHeads
      BY <2>1, <2>3, <1>m, DataFacts
  <2>7. Copies(l)' = Copies(l) /\ flash'[op.pnum].lnum = l
      BY <2>3, <2>6 DEF Copies, SameHeads
  <2>8. ~ro_mode' => op.old \in InFlight'
    <3>1. \/ ro_mode'
          \/ work'.k = "erase" /\ work'.from = op.old
        BY <2>1, PutFacts DEF Alone
    <3> QED
        BY <2>3, <3>1 DEF InFlight
  <2> QED
      BY <2>1, <2>3, <2>4, <2>5, <2>6, <2>7, <2>8, CopyStep DEF Alone, SameHeads
<1>3. ASSUME NEW l \in LEB, UnmapLeb(l)
      PROVE  Few' /\ Lone' /\ Extra'
  <2>1. /\ Alone("idle") /\ ~ro_mode /\ eba_tbl[l] \in PEB
        /\ eba_tbl' = [eba_tbl EXCEPT ![l] = NoPeb]
        /\ PutPeb(eba_tbl[l], NewOp("unmap", "done", l, <<>>), Idle("err"))
        /\ UNCHANGED <<flash, up, todo>>
      BY <1>3, <1>m, AtFacts DEF UnmapLeb, Ready, TypeOK
  <2>2. todo = {} /\ InFlight = {} /\ Copies(l) \subseteq {eba_tbl[l]}
      BY <2>1, <1>m, NoneInFlight DEF Alone, MapInv, InStep, Stages
  <2>3. Copies(l)' = Copies(l)
      BY <2>1 DEF Copies
  <2>4. ~ro_mode' => eba_tbl[l] \in InFlight'
    <3>1. \/ ro_mode'
          \/ work'.k = "erase" /\ work'.from = eba_tbl[l]
        BY <2>1, PutFacts DEF Alone
    <3> QED
        BY <2>1, <3>1 DEF InFlight
  <2>5. \A k \in LEB : k # l => eba_tbl'[k] = eba_tbl[k]
      BY <2>1, <1>m DEF TypeOK
  <2> QED
      BY <2>1, <2>2, <2>3, <2>4, <2>5, CopyStep DEF Alone
<1> QED
    BY <1>1, <1>2, <1>3

LEMMA CopyEba ==
  ASSUME RecoverySafe, CopyInv, MapInv', EbaStep
  PROVE  Few' /\ Lone' /\ Extra'
<1>1. ~RecoverWriteError /\ ~RecoverRetry
    BY MapRecoverWriteError DEF CopyInv, RecoverySafe
<1> QED
    BY <1>1, CopyQuiet, CopyHeader, CopyWritten, CopyWriteError, CopyRemap DEF EbaStep

-----------------------------------------------------------------------------
(* The copies of a LEB: erasures and moves, power and attaching.            *)

LEMMA CopyErase ==
  ASSUME CopyInv, EraseWorker \/ EraseError \/ EraseRefused
  PROVE  Few' /\ Lone' /\ Extra'
<1>m. MapInv /\ TypeOK
    BY DEF CopyInv, MapInv, CtlInv
<1>1. work.k = "erase" /\ UNCHANGED <<up, eba_tbl, todo, op>> /\ (ro_mode => ro_mode')
    BY DEF EraseWorker, EraseError, EraseRefused, ram
<1>2. up = "up" /\ work.from \in PEB
    BY <1>1, <1>m, EraseHolds DEF Waiting
<1>3. FewerHeads /\ (~ro_mode' => flash'[work.from].st # "used")
  <2>1. CASE EraseWorker
    <3>1. Writes(work.from, "free", NoLeb)
        BY <1>2, <1>m, <2>1, SetFacts, HdrFacts DEF EraseWorker
    <3> QED
        BY <3>1 DEF Writes, FewerHeads
  <2>2. CASE EraseError /\ SetFlash(work.from, Blank("bad"))
    <3>1. Writes(work.from, "bad", NoLeb)
        BY <1>2, <1>m, <2>2, SetFacts, HdrFacts
    <3> QED
        BY <3>1 DEF Writes, FewerHeads
  <2>3. CASE ro_mode' /\ \E r \in HalfErased(flash[work.from]) : SetFlash(work.from, r)
    <3>1. PICK r \in HalfErased(flash[work.from]) : SetFlash(work.from, r)
        BY <2>3
    <3>2. r.st = "used" => flash[work.from].st = "used" /\ r.lnum = flash[work.from].lnum
        BY <1>2, <1>m, HalfErasedType DEF TypeOK
    <3>3. Writes(work.from, r.st, r.lnum)
        BY <1>2, <1>m, <3>1, SetFacts
    <3> QED
        BY <2>3, <3>2, <3>3 DEF Writes, FewerHeads
  <2>4. CASE EraseRefused
      BY <1>1, <2>4 DEF EraseRefused, FewerHeads
  <2> QED
      BY <2>1, <2>2, <2>3, <2>4 DEF EraseError
<1>4. \A p \in InFlight : p = work.from \/ p \in InFlight'
    BY <1>1 DEF InFlight
<1> QED
    BY <1>1, <1>2, <1>3, <1>4, CopyKeep

LEMMA CopyMove ==
  ASSUME RecoverySafe, CopyInv,
         \/ MoveVidHdr \/ MoveData \/ MoveCancelled
         \/ MoveBitflip \/ MoveBadHdr \/ MoveMismatch \/ MoveWriteError \/ MoveReadError
  PROVE  Few' /\ Lone' /\ Extra'
<1>m. MapInv /\ TypeOK
    BY DEF CopyInv, MapInv, CtlInv
<1>0. ~MoveMismatch
    BY DEF MoveMismatch, Fault, RecoverySafe
<1>1. work.k \in {"mvid", "mdata"} /\ UNCHANGED <<up, todo, op>> /\ (ro_mode => ro_mode')
    BY <1>0 DEF MoveVidHdr, MoveData, MoveCancelled, MoveBitflip, MoveBadHdr, MoveWriteError,
                MoveReadError, MoveFailed
<1>2. MoveTo /\ up = "up" /\ work.to \in PEB /\ work.from \in PEB
    BY <1>1, <1>m, MoveToHolds DEF MoveTo, Waiting
\* What was in flight stays so, but for the target of the move.
<1>3. \A p \in InFlight : p \in InFlight' \/ (work.k = "mdata" /\ p = work.to)
    BY <1>1 DEF InFlight
<1>4. CASE /\ Copying /\ (\A q \in PEB : q # work.to => flash'[q] = flash[q])
           /\ (flash'[work.to].st = "used" => flash'[work.to].lnum = Src.lnum)
           /\ \/ eba_tbl' = eba_tbl /\ (~ro_mode' => work.to \in InFlight')
              \/ /\ eba_tbl' = [eba_tbl EXCEPT ![Src.lnum] = work.to]
                 /\ work.from \in InFlight'
  <2>1. CopyFrom
      BY <1>4, <1>m, CopyFromHolds
  <2>2. PICK l \in LEB : l = Src.lnum
      BY <2>1 DEF CopyFrom
  <2>3. Copies(l) \subseteq {work.from, work.to}
    <3>1. CASE work.k = "mdata"
        BY <1>2, <1>m, <2>1, <2>2, <3>1
        DEF CopyInv, Lone, CopyFrom, MapInv, InStep, MoveHolds
    <3>2. CASE work.k = "mvid"
      <4>1. InFlight \subseteq IF op.pc = "map" THEN {op.pnum} ELSE {}
          BY <1>2, <3>2 DEF InFlight, MoveTo, Waiting
      <4>2. op.pc = "map" => op.pnum \notin Copies(l)
          BY <1>2, <1>m, <2>1, <2>2 DEF MoveTo, Waiting, CopyFrom, MapInv, InStep, OpHolds, Copies
      <4>3. Copies(l) \subseteq {eba_tbl[l]} \cup InFlight
          BY <1>2, <2>1 DEF CopyInv, Extra, CopyFrom
      <4> QED
          BY <2>1, <2>2, <4>1, <4>2, <4>3 DEF CopyFrom
    <3> QED
        BY <1>1, <3>1, <3>2
  <2>4. Copies(l)' \subseteq {work.from, work.to}
      BY <1>4, <2>3 DEF Copies
  <2>5. /\ \A k \in LEB : k # l => eba_tbl'[k] = eba_tbl[k]
        /\ \/ eba_tbl'[l] = work.from /\ (~ro_mode' => work.to \in InFlight')
           \/ eba_tbl'[l] = work.to /\ work.from \in InFlight'
      BY <1>4, <1>m, <2>1, <2>2 DEF TypeOK, CopyFrom
  <2>6. \A p \in InFlight : \/ p \in InFlight' \/ flash'[p].st # "used" \/ flash'[p].lnum = l
      BY <1>3, <1>4, <2>2
  <2> QED
      BY <1>1, <1>2, <1>4, <2>1, <2>2, <2>4, <2>5, <2>6, CopyStep
<1>5. CASE MoveVidHdr \/ MoveData
  <2>1. Copying
      BY <1>5 DEF Copying, MoveVidHdr, MoveData
  <2>2. Writes(work.to, "used", Src.lnum)
      BY <1>5, <1>m, <2>1, CopyWrites DEF MoveVidHdr, MoveData
  <2>3. \/ eba_tbl' = [eba_tbl EXCEPT ![Src.lnum] = work.to] /\ work' = Erase(work.from)
        \/ /\ eba_tbl' = eba_tbl /\ work' = [work EXCEPT !.k = "mdata"]
      BY <1>5 DEF MoveVidHdr, MoveData, Moved
  <2>4. \/ /\ eba_tbl' = [eba_tbl EXCEPT ![Src.lnum] = work.to]
           /\ work'.k = "erase" /\ work'.from = work.from
        \/ /\ eba_tbl' = eba_tbl /\ work'.k = "mdata" /\ work'.to = work.to
    <3>1. work' = [work EXCEPT !.k = "mdata"] => work'.k = "mdata" /\ work'.to = work.to
        BY <1>m DEF TypeOK, Work
    <3> QED
        BY <2>3, <3>1, WorkFacts
  <2>5. \/ eba_tbl' = eba_tbl /\ work.to \in InFlight'
        \/ /\ eba_tbl' = [eba_tbl EXCEPT ![Src.lnum] = work.to]
           /\ work.from \in InFlight'
      BY <1>2, <2>4 DEF InFlight
  <2> QED
      BY <1>4, <2>1, <2>2, <2>5 DEF Writes
<1>6. CASE MoveBitflip
  <2>1. Copying /\ eba_tbl' = eba_tbl /\ work' = Erase(work.to)
      BY <1>6 DEF Copying, MoveBitflip, NotMoved
  <2>2. Writes(work.to, "used", Src.lnum)
      BY <1>6, <1>m, <2>1, CopyWrites DEF MoveBitflip
  <2>3. work.to \in InFlight'
      BY <1>2, <2>1, WorkFacts DEF InFlight
  <2> QED
      BY <1>4, <2>1, <2>2, <2>3 DEF Writes
<1>7. CASE MoveWriteError
  <2>1. Copying /\ eba_tbl' = eba_tbl /\ ro_mode'
      BY <1>7 DEF Copying, MoveWriteError, MoveFailed
  <2>2. CASE Writes(work.to, "used", Src.lnum)
      BY <1>4, <2>1, <2>2 DEF Writes
  <2>3. CASE work.k = "mvid" /\ \E r \in {flash[work.to], Blank("corr")} : SetFlash(work.to, r)
    <3>1. flash[work.to].st = "free"
        BY <1>m, <2>3 DEF MapInv, InStep, MoveHolds
    <3>2. PICK r : r \in {flash[work.to], Blank("corr")} /\ SetFlash(work.to, r)
        BY <2>3
    <3>3. r.st # "used" /\ Writes(work.to, r.st, r.lnum)
        BY <1>2, <1>m, <3>1, <3>2, HdrFacts, SetFacts
    <3> QED
        BY <1>4, <2>1, <3>3 DEF Writes
  <2> QED
      BY <1>7, <1>m, <2>1, <2>2, <2>3, CopyWrites DEF MoveWriteError
<1>8. CASE MoveCancelled \/ MoveReadError
  <2>1. flash' = flash /\ eba_tbl' = eba_tbl /\ work.k = "mvid"
      BY <1>8 DEF MoveCancelled, MoveReadError
  <2> QED
      BY <1>1, <1>2, <1>3, <2>1, CopyKeep DEF FewerHeads
<1>9. CASE MoveBadHdr
  <2>1. /\ eba_tbl' = eba_tbl /\ work.k = "mvid"
        /\ \E r \in {flash[work.to], Blank("corr")} : SetFlash(work.to, r)
      BY <1>9 DEF MoveBadHdr
  <2>2. flash[work.to].st = "free"
      BY <1>m, <2>1 DEF MapInv, InStep, MoveHolds
  <2>3. PICK r : r \in {flash[work.to], Blank("corr")} /\ SetFlash(work.to, r)
      BY <2>1
  <2>4. r.st # "used" /\ Writes(work.to, r.st, r.lnum)
      BY <1>2, <1>m, <2>2, <2>3, HdrFacts, SetFacts
  <2>5. FewerHeads
      BY <2>4 DEF Writes, FewerHeads
  <2> QED
      BY <1>1, <1>2, <1>3, <2>1, <2>5, CopyKeep
<1> QED
    BY <1>0, <1>5, <1>6, <1>7, <1>8, <1>9

LEMMA CopyWl ==
  ASSUME RecoverySafe, CopyInv, WlStep
  PROVE  Few' /\ Lone' /\ Extra'
<1>m. MapInv /\ TypeOK
    BY DEF CopyInv, MapInv, CtlInv
<1>1. ASSUME NEW l \in LEB, ScrubLeb(l)
      PROVE  Few' /\ Lone' /\ Extra'
  <2>1. Alone("idle") /\ UNCHANGED <<flash, up, eba_tbl, ro_mode, todo, op>>
      BY <1>1, AtFacts DEF ScrubLeb, Ready
  <2>2. InFlight = {}
      BY <2>1, <1>m, NoneInFlight DEF Alone, MapInv, InStep, Stages
  <2> QED
      BY <2>1, <2>2, CopyKeep DEF Alone, FewerHeads
<1> QED
    BY <1>1, CopyErase, CopyMove DEF WlStep

\* Of two copies with different sequence numbers exactly one wins.
LEMMA OneWins ==
  ASSUME TypeOK, SqnumUnique, NEW l \in LEB, NEW p \in Copies(l), NEW q \in Copies(l), p # q
  PROVE  (Beats(p, q) \/ Beats(q, p)) /\ ~(Beats(p, q) /\ Beats(q, p))
<1>1. flash[p].sqnum \in Nat /\ flash[q].sqnum \in Nat /\ flash[p].sqnum # flash[q].sqnum
    BY DEF TypeOK, PebState, SqnumUnique, Copies
<1>2. flash[p].copy_flag \in BOOLEAN /\ flash[q].copy_flag \in BOOLEAN
    BY DEF TypeOK, PebState, Copies
<1> DEFINE cp == CrcOk(flash[p])
           cq == CrcOk(flash[q])
<1>3. CASE flash[p].sqnum > flash[q].sqnum
  <2>1. ~(flash[q].sqnum > flash[p].sqnum)
      BY <1>1, <1>3
  <2> HIDE DEF cp, cq
  <2>2. Beats(p, q) <=> (flash[p].copy_flag => cp)
      BY <1>3 DEF Beats, cp
  <2>3. Beats(q, p) <=> (flash[p].copy_flag /\ ~cp)
      BY <2>1 DEF Beats, cp
  <2> QED
      BY <2>2, <2>3
<1>4. CASE ~(flash[p].sqnum > flash[q].sqnum)
  <2>1. flash[q].sqnum > flash[p].sqnum
      BY <1>1, <1>4
  <2> HIDE DEF cp, cq
  <2>2. Beats(p, q) <=> (flash[q].copy_flag /\ ~cq)
      BY <1>4 DEF Beats, cq
  <2>3. Beats(q, p) <=> (flash[q].copy_flag => cq)
      BY <2>1 DEF Beats, cq
  <2> QED
      BY <2>2, <2>3
<1> QED
    BY <1>3, <1>4

\* So a scan finds an eraseblock for every LEB that has a copy.
LEMMA ScanFinds ==
  ASSUME TypeOK, SqnumUnique, Few, NEW l \in LEB, Copies(l) # {}
  PROVE  ScanTbl[l] \in Copies(l)
<1>1. \E p \in PEB : IsWinner(p, l)
  <2>1. PICK p \in PEB : p \in Copies(l)
      BY DEF Copies
  <2>2. CASE Copies(l) = {p}
      BY <2>1, <2>2 DEF IsWinner
  <2>3. CASE Copies(l) # {p}
    <3>1. PICK q \in PEB : q \in Copies(l) /\ q # p
        BY <2>1, <2>3 DEF Copies
    <3>2. Copies(l) = {p, q}
        BY <2>1, <3>1 DEF Few
    <3>3. Beats(p, q) \/ Beats(q, p)
        BY <2>1, <3>1, OneWins
    <3> QED
        BY <3>1, <3>2, <3>3 DEF IsWinner
  <2> QED
      BY <2>2, <2>3
<1>2. ScanTbl[l] = CHOOSE p \in PEB : IsWinner(p, l)
    BY <1>1 DEF ScanTbl
<1>3. IsWinner(ScanTbl[l], l)
    BY <1>1, <1>2
<1> QED
    BY <1>3 DEF IsWinner

LEMMA CopyPower ==
  ASSUME CopyInv, PowerStep
  PROVE  Few' /\ Lone' /\ Extra'
<1>m. MapInv /\ TypeOK /\ CtlInv
    BY DEF CopyInv, MapInv, CtlInv
<1>1. CASE PowerOff \/ PowerCut
  <2>1. up' = "down" /\ FewerHeads
      BY <1>1, <1>m, CutFacts DEF LoseRam
  <2>2. \A l \in LEB : Copies(l)' \subseteq Copies(l)
      BY <2>1 DEF FewerHeads, Copies
  <2>3. Few'
      BY <2>2 DEF CopyInv, Few
  <2> QED
      BY <2>1, <2>3 DEF Lone, Extra
<1>2. CASE Attach
  <2>1. /\ flash' = flash /\ up' = "up" /\ eba_tbl' = ScanTbl
        /\ used' = {p \in PEB : \E l \in LEB : ScanTbl[l] = p}
        /\ todo' = {p \in PEB : flash[p].st \in {"empty", "corr", "used"}} \ used'
      BY <1>2 DEF Attach
  <2>2. \A l \in LEB : Copies(l)' = Copies(l)
      BY <2>1 DEF Copies
  <2>3. Few'
      BY <2>2 DEF CopyInv, Few
  <2>4. \A l \in LEB : Copies(l) # {} => ScanTbl[l] \in Copies(l)
      BY <1>m, ScanFinds DEF CopyInv, SqnumInv
  <2>5. Lone'
    <3> SUFFICES ASSUME NEW l \in LEB, NEW p \in Copies(l) \ {ScanTbl[l]},
                        NEW q \in Copies(l) \ {ScanTbl[l]}
                 PROVE  p = q
        BY <2>1, <2>2 DEF Lone
    <3>1. ScanTbl[l] \in Copies(l)
        BY <2>4
    <3> QED
        BY <3>1 DEF CopyInv, Few
  <2>6. Extra'
    <3> SUFFICES ASSUME NEW l \in LEB, NEW p \in Copies(l), p # ScanTbl[l]
                 PROVE  p \in todo'
        BY <2>1, <2>2 DEF Extra, InFlight, Copies
    <3>1. \A k \in LEB : ScanTbl[k] # p
        BY ScanMaps DEF Copies
    <3> QED
        BY <2>1, <3>1 DEF Copies
  <2> QED
      BY <2>3, <2>5, <2>6
<1>3. CASE AttachError
  <2>1. up' = "failed" /\ flash' = flash
      BY <1>3 DEF AttachError
  <2>2. Few'
      BY <2>1 DEF CopyInv, Few, Copies
  <2> QED
      BY <2>1, <2>2 DEF Lone, Extra
<1>4. CASE AttachErase \/ AttachDone
  <2>1. Alone("attach") /\ UNCHANGED <<flash, up, eba_tbl, ro_mode>>
      BY <1>4, AtFacts DEF AttachErase, AttachDone
  <2>2. InFlight = todo
      BY <2>1, <1>m DEF Alone, InFlight, TypeOK
  <2>3. \A p \in todo : p \in InFlight'
    <3>1. CASE AttachErase
      <4>1. PICK p \in todo : todo' = todo \ {p} /\ work' = Erase(p)
          BY <3>1 DEF AttachErase
      <4>2. work'.k = "erase" /\ work'.from = p
          BY <4>1, WorkFacts
      <4> QED
          BY <1>m, <4>1, <4>2 DEF InFlight, TypeOK
    <3>2. CASE AttachDone
        BY <3>2 DEF AttachDone
    <3> QED
        BY <1>4, <3>1, <3>2
  <2> QED
      BY <2>1, <2>2, <2>3, CopyKeep DEF Alone, FewerHeads
<1> QED
    BY <1>1, <1>2, <1>3, <1>4 DEF PowerStep

-----------------------------------------------------------------------------
(* The copies of a LEB: the theorems.                                       *)

LEMMA StepKeepsCopies ==
  ASSUME RecoverySafe
  PROVE  CopyInv /\ [Next]_vars => CopyInv'
<1> SUFFICES ASSUME CopyInv, [Next]_vars
             PROVE  CopyInv'
    OBVIOUS
<1>1. MapInv' /\ SqnumInv'
    BY StepKeepsMap, StepKeepsSqnums DEF CopyInv
<1>2. Few' /\ Lone' /\ Extra'
  <2>1. CASE EbaStep
      BY <1>1, <2>1, CopyEba
  <2>2. CASE WlStep
      BY <2>2, CopyWl
  <2>3. CASE PowerStep
      BY <2>3, CopyPower
  <2>4. CASE UNCHANGED vars
    <3>1. UNCHANGED <<flash, up, eba_tbl, ro_mode, todo, op, work>>
        BY <2>4 DEF vars, ram
    <3> QED
        BY <3>1 DEF CopyInv, Few, Lone, Extra, Copies, InFlight
  <2> QED
      BY <2>1, <2>2, <2>3, <2>4 DEF Next
<1> QED
    BY <1>1, <1>2 DEF CopyInv

LEMMA InitCopies == Init => CopyInv
<1> SUFFICES ASSUME Init
             PROVE  CopyInv
    OBVIOUS
<1>1. up = "down" /\ \A p \in PEB : flash[p].st = "free"
    BY HdrFacts DEF Init
<1>2. Few /\ Lone /\ Extra
    BY <1>1 DEF Few, Lone, Extra, Copies
<1> QED
    BY <1>2, InitMap, InitSqnums DEF CopyInv

LEMMA FewIsTwo == ASSUME Few PROVE AtMostTwoCopies
<1> SUFFICES ASSUME NEW l \in LEB
             PROVE  Cardinality(Copies(l)) <= 2
    BY DEF AtMostTwoCopies
<1>1. CASE Copies(l) = {}
    BY <1>1, FS_EmptySet
<1>2. CASE Copies(l) # {}
  <2>1. PICK p \in Copies(l), q \in Copies(l) : Copies(l) \subseteq {p, q}
      BY <1>2 DEF Few
  <2>2. /\ IsFiniteSet({p}) /\ Cardinality({p}) = 1
        /\ IsFiniteSet({p} \cup {q})
        /\ Cardinality({p} \cup {q}) = IF q \in {p} THEN Cardinality({p}) ELSE Cardinality({p}) + 1
      BY FS_Singleton, FS_AddElement
  <2>3. IsFiniteSet({p, q}) /\ Cardinality({p, q}) <= 2 /\ Cardinality({p, q}) \in Nat
    <3>1. {p, q} = {p} \cup {q}
        OBVIOUS
    <3> QED
        BY <2>2, <3>1
  <2>4. Cardinality(Copies(l)) <= Cardinality({p, q}) /\ Cardinality(Copies(l)) \in Nat
      BY <2>1, <2>3, FS_Subset, FS_CardinalityType
  <2> QED
      BY <2>3, <2>4
<1> QED
    BY <1>1, <1>2

\* A LEB never has more than two copies on the flash, however often power is cut while it is moved,
\* changed or recovered: no header is written for a LEB that has a copy besides the one it is
\* mapped to, and ubi_wl_init_scan erases what a cut left before the device is used.
THEOREM TwoCopies == ASSUME RecoverySafe PROVE Spec => []AtMostTwoCopies
<1>1. Init => CopyInv
    BY InitCopies
<1>2. CopyInv /\ [Next]_vars => CopyInv'
    BY StepKeepsCopies
<1>3. CopyInv => AtMostTwoCopies
    BY FewIsTwo DEF CopyInv
<1> QED
    BY <1>1, <1>2, <1>3, PTL DEF Spec

\* With one copy of every LEB a scan finds what is mapped.
LEMMA LoneIsScanned == CopyInv => EbaMatchesScan
<1> SUFFICES ASSUME CopyInv, At("idle"), ~ro_mode
             PROVE  eba_tbl = ScanTbl
    BY DEF EbaMatchesScan
<1>1. Alone("idle") /\ MapInv /\ todo = {}
    BY AtFacts DEF CopyInv, MapInv, InStep, Stages, Alone
<1>2. \A l \in LEB : Copies(l) \subseteq {eba_tbl[l]}
    BY <1>1, NoneInFlight DEF Alone
<1>3. \A l \in LEB : eba_tbl[l] # NoPeb => eba_tbl[l] \in Copies(l)
    BY <1>1, MapBefore DEF Alone
<1>4. ASSUME NEW l \in LEB
      PROVE  eba_tbl[l] = ScanTbl[l]
  <2>1. CASE eba_tbl[l] = NoPeb
    <3>1. Copies(l) = {}
        BY <1>2, <2>1 DEF Copies
    <3> QED
        BY <2>1, <3>1, ScanMaps
  <2>2. CASE eba_tbl[l] # NoPeb
    <3>1. Copies(l) = {eba_tbl[l]}
        BY <1>2, <1>3, <2>2
    <3>2. ScanTbl[l] \in Copies(l)
        BY <3>1, ScanFinds DEF CopyInv, SqnumInv
    <3> QED
        BY <3>1, <3>2
  <2> QED
      BY <2>1, <2>2
<1>5. eba_tbl \in [LEB -> PEB \cup {NoPeb}] /\ ScanTbl = [l \in LEB |-> ScanTbl[l]]
    BY <1>1 DEF MapInv, CtlInv, TypeOK, ScanTbl
<1> QED
    BY <1>4, <1>5

\* Between operations of a writable device the mapping in RAM is the one a scan would rebuild: what
\* U-Boot reads from any LEB is what it, or Linux, reads after a reset at this moment.
THEOREM RamMatchesScan == ASSUME RecoverySafe PROVE Spec => []EbaMatchesScan
<1>1. Init => CopyInv
    BY InitCopies
<1>2. CopyInv /\ [Next]_vars => CopyInv'
    BY StepKeepsCopies
<1>3. CopyInv => EbaMatchesScan
    BY LoneIsScanned
<1> QED
    BY <1>1, <1>2, <1>3, PTL DEF Spec

-----------------------------------------------------------------------------
(* Where every eraseblock is.                                               *)

\* The work has nothing in its hands.
LEMMA EmptyHands == /\ work.k = "none" => Hands = {} /\ InUse = used
                    /\ work'.k = "none" => Hands' = {} /\ InUse' = used'
  BY DEF Hands, InUse

\* An eraseblock is marked bad or stays bad; no other is.
SameBad == \A p \in PEB : flash[p].st = "bad" => flash'[p].st = "bad"

\* Whatever is in use goes on being mapped or held.
LEMMA OwnedKeep ==
  ASSUME Owned, up = "up", ro_mode => ro_mode', InUse' \subseteq InUse, op' = op,
         UNCHANGED <<eba_tbl, lost>>
  PROVE  Owned'
<1>1. \A p : (Mapped(p) => Mapped(p)') /\ (Held(p) => Held(p)')
    BY DEF Mapped, Held, Changing
<1> QED
    BY <1>1 DEF Owned

\* An operation takes nothing and gives nothing back.
LEMMA TidyKeep ==
  ASSUME PlaceInv, up = "up", ro_mode => ro_mode', SameBad, UNCHANGED <<free, used, todo, lost, work>>
  PROVE  Tidy'
<1>1. Hands' = Hands
    BY DEF Hands
<1> QED
    BY <1>1 DEF PlaceInv, Tidy, SameBad

\* It takes an eraseblock from the free tree.
LEMMA TidyGet ==
  ASSUME PlaceInv, up = "up", ro_mode => ro_mode', SameBad, NEW p \in free, free' = free \ {p},
         used' = used \cup {p}, UNCHANGED <<todo, lost, work>>
  PROVE  Tidy'
<1>1. Hands' = Hands
    BY DEF Hands
<1> QED
    BY <1>1 DEF PlaceInv, Tidy, SameBad

\* It gives one back to be erased.
LEMMA TidyPut ==
  ASSUME PlaceInv, up = "up", ro_mode => ro_mode', SameBad, NEW p \in PEB, work = NoWork,
         UNCHANGED <<free, todo, lost>>,
         \/ ro_mode'
         \/ p \in used /\ used' = used \ {p} /\ work' = Erase(p)
  PROVE  Tidy'
<1>1. CASE ro_mode'
    BY <1>1 DEF Tidy
<1>2. CASE p \in used /\ used' = used \ {p} /\ work' = Erase(p)
  <2>1. work'.k = "erase" /\ work'.from = p /\ work.k = "none"
      BY <1>2, WorkFacts
  <2>2. Hands = {} /\ Hands' = {p}
      BY <2>1 DEF Hands
  <2> QED
      BY <1>2, <2>1, <2>2 DEF PlaceInv, Tidy, SameBad
<1> QED
    BY <1>1, <1>2

\* Writing data or a header to an eraseblock that is not bad.
LEMMA WriteNotBad ==
  ASSUME TypeOK, NEW p \in PEB, NEW r, SetFlash(p, r), flash[p].st # "bad" \/ r.st = "bad"
  PROVE  SameBad
  BY DEF SetFlash, TypeOK, SameBad

LEMMA SameIsBad == SameHeads => SameBad
  BY DEF SameHeads, SameBad

\* Operations that start, wait or end without the trees.
LEMMA PlaceQuiet ==
  ASSUME PlaceInv,
         \/ \E l \in LEB, c \in Written : AppendLeb(l, c)
         \/ WriteRefused \/ WriteInPlace \/ WriteInPlaceError \/ RecoverFailed \/ Done
  PROVE  Tidy' /\ Owned'
<1>m. MapInv /\ TypeOK
    BY DEF PlaceInv, CopyInv, MapInv, CtlInv
<1>1. CASE WriteRefused \/ RecoverFailed
  <2>1. ro_mode'
      BY <1>1 DEF WriteRefused, RecoverFailed, ram
  <2> QED
      BY <2>1 DEF Tidy, Owned
<1>2. CASE \/ \E l \in LEB, c \in Written : AppendLeb(l, c)
           \/ WriteInPlace \/ WriteInPlaceError \/ Done
  <2>1. /\ \E pc \in {"idle", "inplace", "done"} : Alone(pc)
        /\ UNCHANGED <<up, eba_tbl, free, used, ro_mode, todo, lost, work>>
      BY <1>2, AtFacts DEF AppendLeb, WriteInPlace, WriteInPlaceError, Done, Ready, ram
  <2>2. SameHeads
    <3>1. WriteInPlace \/ WriteInPlaceError => op.old \in PEB
        BY <1>m DEF WriteInPlace, WriteInPlaceError, At, MapInv, CtlInv, ControlOK
    <3>2. WriteInPlace \/ WriteInPlaceError => SameHeads
        BY <1>m, <3>1, DataFacts DEF WriteInPlace, WriteInPlaceError
    <3>3. flash' = flash => SameHeads
        BY DEF SameHeads
    <3> QED
        BY <1>2, <3>2, <3>3 DEF AppendLeb, Done
  <2>3. Tidy'
      BY <2>1, <2>2, SameIsBad, TidyKeep DEF Alone
  <2>4. ~Changing'
    <3>1. ASSUME NEW l \in LEB, NEW c \in Written, AppendLeb(l, c)
          PROVE  op'.pc = "inplace"
      <4>1. NewOp("append", "inplace", l, c) \in Op
          BY <1>m, NewOpType, WrittenIsContent DEF Pcs
      <4>2. NewOp("append", "inplace", l, c).pc = "inplace"
          BY NewOpFacts
      <4>3. op' = [NewOp("append", "inplace", l, c) EXCEPT !.old = eba_tbl[l]]
          BY <3>1 DEF AppendLeb
      <4> QED
          BY <4>1, <4>2, <4>3 DEF Op
    <3>2. WriteInPlace \/ Done => op'.pc = "idle"
        BY IdleFacts DEF WriteInPlace, Done, Return
    <3>3. WriteInPlaceError => op'.pc = "rget"
        BY <1>m, GotoFacts DEF WriteInPlaceError, Goto
    <3> QED
        BY <1>2, <3>1, <3>2, <3>3 DEF Changing
  <2>5. \A p : Mapped(p) \/ Held(p) => Mapped(p)'
      BY <2>1, <2>4 DEF Alone, Mapped, Held
  <2>6. Owned'
    <3>1. InUse' = InUse
        BY <2>1 DEF InUse
    <3> QED
        BY <2>1, <2>5, <3>1 DEF PlaceInv, Owned, Alone
  <2> QED
      BY <2>3, <2>6
<1> QED
    BY <1>1, <1>2

\* An operation takes an eraseblock, or finds none.
LEMMA PlaceTakes ==
  ASSUME PlaceInv,
         \/ \E l \in LEB, c \in Written : WriteLeb(l, c) \/ AtomicLebChange(l, c)
         \/ RetryWrite \/ RecoverGetPeb
  PROVE  Tidy' /\ Owned'
<1>m. MapInv /\ TypeOK
    BY DEF PlaceInv, CopyInv, MapInv, CtlInv
<1>1. /\ \E pc \in {"idle", "retry", "rget"} : Alone(pc)
      /\ UNCHANGED <<flash, up, eba_tbl, todo, lost>>
  <2>1. RecoverGetPeb => At("rget") /\ UNCHANGED <<flash, up, eba_tbl, todo, lost>>
      BY DEF RecoverGetPeb
  <2> QED
      BY <2>1, AtFacts DEF WriteLeb, AtomicLebChange, Ready, RetryWrite
<1>2. \/ ro_mode'
      \/ op'.pc = "idle" /\ UNCHANGED <<free, used, ro_mode, work>>
      \/ \E p \in free : /\ free' = free \ {p} /\ used' = used \cup {p} /\ work' = work
                         /\ op'.pnum = p /\ op'.pc \in {"vid", "rvid"} /\ ro_mode' = ro_mode
  <2>1. ASSUME NEW l \in LEB, NEW c \in Written, WriteLeb(l, c) \/ AtomicLebChange(l, c)
        PROVE  <1>2!2 \/ <1>2!3
    <3>1. PICK kind \in {"write", "change"} : GetPeb(NewOp(kind, "vid", l, c))
        BY <2>1 DEF WriteLeb, AtomicLebChange
    <3>2. UNCHANGED <<ro_mode, work>>
        BY <2>1 DEF WriteLeb, AtomicLebChange
    <3>3. NewOp(kind, "vid", l, c) \in Op /\ NewOp(kind, "vid", l, c).pc = "vid"
        BY <1>m, <3>1, NewOpType, WrittenIsContent DEF Pcs
    <3> QED
        BY <3>1, <3>2, <3>3, GetFacts, IdleFacts
  <2>2. CASE RetryWrite
    <3> DEFINE next == [op EXCEPT !.pc = "vid", !.tries = @ + 1]
    <3>1. op \in Op /\ op.tries + 1 \in Nat
        BY <1>m DEF TypeOK, Op
    <3>2. next \in Op /\ next.pc = "vid"
        BY <3>1 DEF Op, Pcs
    <3>3. ro_mode' \/ (GetPeb(next) /\ ro_mode' = ro_mode)
        BY <2>2 DEF RetryWrite
    <3>4. work' = work
        BY <2>2 DEF RetryWrite
    <3> HIDE DEF next
    <3> QED
        BY <3>2, <3>3, <3>4, GetFacts, IdleFacts
  <2>3. CASE RecoverGetPeb
    <3>1. flash[op.old].st = "used"
      <4>1. At("rget")
          BY <2>3 DEF RecoverGetPeb
      <4>2. op.old \in PEB /\ op.lnum \in LEB /\ op.old = eba_tbl[op.lnum]
          BY <1>m, <4>1 DEF At, MapInv, CtlInv, ControlOK, InStep, OpHolds
      <4> QED
          BY <1>m, <4>1, <4>2, MapBefore DEF At, Copies
    <3>2. CASE free = {}
        BY <2>3, <3>2 DEF RecoverGetPeb
    <3>3. CASE free # {}
      <4>1. PICK p \in free :
              /\ free' = free \ {p} /\ ro_mode' = ro_mode /\ used' = used \cup {p}
              /\ op' = [op EXCEPT !.pc = "rvid", !.pnum = p, !.sqnum = global_sqnum] /\ work' = work
          BY <2>3, <3>1, <3>3 DEF RecoverGetPeb
      <4>2. op'.pc = "rvid" /\ op'.pnum = p
          BY <1>m, <4>1 DEF TypeOK, Op
      <4> QED
          BY <4>1, <4>2
    <3> QED
        BY <3>2, <3>3
  <2> QED
      BY <2>1, <2>2, <2>3
<1>3. \A p : Mapped(p) \/ Held(p) => (op'.pc # "map" => Mapped(p)')
    BY <1>1 DEF Alone, Mapped, Held, Changing
<1>4. CASE ro_mode'
    BY <1>4 DEF Tidy, Owned
<1>5. CASE op'.pc = "idle" /\ UNCHANGED <<free, used, ro_mode, work>>
  <2>1. Tidy'
      BY <1>1, <1>5, TidyKeep DEF Alone, SameBad
  <2>2. InUse' = InUse
      BY <1>5 DEF InUse
  <2>3. Owned'
      BY <1>1, <1>3, <1>5, <2>2 DEF PlaceInv, Owned, Alone
  <2> QED
      BY <2>1, <2>3
<1>6. CASE <1>2!3
  <2>1. PICK p \in free : /\ free' = free \ {p} /\ used' = used \cup {p} /\ work' = work
                          /\ op'.pnum = p /\ op'.pc \in {"vid", "rvid"} /\ ro_mode' = ro_mode
      BY <1>6
  <2>2. Tidy'
      BY <1>1, <2>1, TidyGet DEF Alone, SameBad
  <2>3. InUse' = InUse \cup {p}
      BY <2>1 DEF InUse
  <2>4. Held(p)'
      BY <2>1 DEF Held
  <2>5. Owned'
      BY <1>1, <1>3, <2>1, <2>3, <2>4 DEF PlaceInv, Owned, Alone
  <2> QED
      BY <2>2, <2>5
<1> QED
    BY <1>2, <1>4, <1>5, <1>6

\* An operation writes its header, and maps its LEB.
LEMMA PlaceWrites ==
  ASSUME PlaceInv, WriteVidHdr \/ RecoverVidHdr \/ MapLeb
  PROVE  Tidy' /\ Owned'
<1>m. MapInv /\ TypeOK
    BY DEF PlaceInv, CopyInv, MapInv, CtlInv
<1>1. /\ \E pc \in {"vid", "rvid", "map"} : Alone(pc)
      /\ UNCHANGED <<up, free, used, ro_mode, todo, lost, work>> /\ op.pnum \in PEB /\ op.lnum \in LEB
    BY <1>m, AtFacts
    DEF WriteVidHdr, RecoverVidHdr, MapLeb, ram, Alone, MapInv, CtlInv, ControlOK
<1>2. InUse' = InUse
    BY <1>1 DEF InUse
<1>3. CASE WriteVidHdr \/ RecoverVidHdr
  <2>1. flash[op.pnum].st = "free" /\ eba_tbl' = eba_tbl
      BY <1>3, <1>m DEF WriteVidHdr, RecoverVidHdr, At, MapInv, InStep, OpHolds, ram
  <2>2. SameBad
      BY <1>1, <1>3, <1>m, <2>1, WriteNotBad DEF WriteVidHdr, RecoverVidHdr
  <2>3. Tidy'
      BY <1>1, <2>2, TidyKeep DEF Alone
  <2>4. SameOp /\ op'.pc \in {"data", "map", "rdata"} /\ (op'.pc = "map" => op.arg = <<>>)
    <3>1. CASE WriteVidHdr
      <4>1. op' = [op EXCEPT !.pc = IF op.arg = <<>> THEN "map" ELSE "data"]
          BY <3>1 DEF WriteVidHdr, Goto
      <4> QED
          BY <1>m, <4>1, GotoFacts
    <3>2. CASE RecoverVidHdr
        BY <1>m, <3>2, GotoFacts DEF RecoverVidHdr, Goto
    <3> QED
        BY <1>3, <3>1, <3>2
  <2>5. ~Changing'
      BY <1>m, <2>4 DEF Changing, SameOp, MapInv, InStep, Stages
  <2>6. \A p : (Mapped(p) => Mapped(p)') /\ (Held(p) => Held(p)')
      BY <2>1, <2>4, <2>5 DEF Mapped, Held, SameOp
  <2>7. Owned'
      BY <1>1, <1>2, <2>6 DEF PlaceInv, Owned, Alone
  <2> QED
      BY <2>3, <2>7
<1>4. CASE MapLeb
  <2>1. /\ eba_tbl' = [eba_tbl EXCEPT ![op.lnum] = op.pnum] /\ flash' = flash /\ op' = Idle("ok")
        /\ op.pc = "map"
      BY <1>4 DEF MapLeb, Return, At
  <2>2. ~Changing'
      BY <2>1, IdleFacts DEF Changing
  <2>3. Tidy'
      BY <1>1, <2>1, TidyKeep DEF Alone, SameBad
  <2>4. Changing \/ eba_tbl[op.lnum] = NoPeb
      BY <1>m, <2>1 DEF Changing, MapInv, InStep, Stages
  <2>5. ASSUME NEW p \in PEB, Mapped(p) \/ Held(p)
        PROVE  Mapped(p)'
    <3>1. CASE p = op.pnum
        BY <1>1, <1>m, <2>1, <2>2, <3>1 DEF Mapped, TypeOK
    <3>2. CASE p # op.pnum
      <4>1. PICK l \in LEB : eba_tbl[l] = p /\ ~(Changing /\ op.lnum = l)
          BY <2>5, <3>2 DEF Mapped, Held
      <4>2. l # op.lnum
          BY <2>4, <4>1
      <4>3. eba_tbl'[l] = p
          BY <1>m, <2>1, <4>1, <4>2 DEF TypeOK
      <4> QED
          BY <2>2, <4>3 DEF Mapped
    <3> QED
        BY <3>1, <3>2
  <2>6. Owned'
      BY <1>1, <1>2, <1>m, <2>5 DEF PlaceInv, Owned, Alone, InUse, TypeOK
  <2> QED
      BY <2>3, <2>6
<1> QED
    BY <1>3, <1>4

\* An eraseblock is given back: every other one is still mapped or held.
LEMMA PlacePut ==
  ASSUME PlaceInv, up = "up", work = NoWork, ro_mode => ro_mode', SameBad, NEW p \in PEB,
         UNCHANGED <<free, todo, lost>>, NEW cont, NEW failed, PutPeb(p, cont, failed),
         op' = cont => \A q \in PEB : q # p /\ (Mapped(q) \/ Held(q)) => Mapped(q)' \/ Held(q)'
  PROVE  Tidy' /\ Owned'
<1>1. \/ ro_mode'
      \/ /\ p \in used /\ used' = used \ {p} /\ work' = Erase(p) /\ work'.k = "erase"
         /\ op' = cont
    BY PutFacts
<1>2. Tidy'
    BY <1>1, TidyPut
<1>3. Owned'
  <2>1. CASE ro_mode'
      BY <2>1 DEF Owned
  <2>2. CASE /\ used' = used \ {p} /\ work'.k = "erase" /\ op' = cont
    <3>1. InUse' = used \ {p} /\ InUse = used /\ used \subseteq PEB
        BY <2>2, WorkFacts DEF InUse, PlaceInv, CopyInv, MapInv, CtlInv, TypeOK
    <3> QED
        BY <2>2, <3>1 DEF PlaceInv, Owned
  <2> QED
      BY <1>1, <2>1, <2>2
<1> QED
    BY <1>2, <1>3

LEMMA PlaceGives ==
  ASSUME PlaceInv,
         \/ WriteData \/ WriteError \/ RecoverData \/ RecoverReadError
         \/ \E l \in LEB : UnmapLeb(l)
  PROVE  Tidy' /\ Owned'
<1>m. MapInv /\ TypeOK
    BY DEF PlaceInv, CopyInv, MapInv, CtlInv
<1>1. CASE WriteData
  <2> DEFINE cont == [op EXCEPT !.pc = "map"]
  <2>1. /\ Alone("data") /\ ~ro_mode /\ op.pnum \in PEB /\ op.lnum \in LEB
        /\ SetFlash(op.pnum, WithData(flash[op.pnum], op.arg))
        /\ UNCHANGED <<up, eba_tbl, free, todo, lost>>
      BY <1>m, <1>1, AtFacts DEF WriteData, MapInv, CtlInv, ControlOK, Alone
  <2>2. \/ /\ op.kind = "change" /\ eba_tbl[op.lnum] # NoPeb
           /\ PutPeb(eba_tbl[op.lnum], cont, Idle("err"))
        \/ /\ ~(op.kind = "change" /\ eba_tbl[op.lnum] # NoPeb)
           /\ op' = cont /\ UNCHANGED <<used, ro_mode, work>>
      BY <1>1 DEF WriteData, Goto
  <2>3. SameBad
      BY <1>m, <2>1, DataFacts, SameIsBad
  <2>4. op' = cont => SameOp /\ op'.pc = "map"
      BY <1>m, GotoFacts
  <2> HIDE DEF cont
  <2>5. op' = cont => \A q \in PEB : q # eba_tbl[op.lnum] /\ (Mapped(q) \/ Held(q))
                                       => Mapped(q)' \/ Held(q)'
      BY <2>1, <2>4 DEF Mapped, Held, Changing, SameOp
  <2>6. CASE eba_tbl[op.lnum] # NoPeb /\ PutPeb(eba_tbl[op.lnum], cont, Idle("err"))
    <3>1. eba_tbl[op.lnum] \in PEB
        BY <1>m, <2>1, <2>6 DEF TypeOK
    <3> QED
        BY <2>1, <2>3, <2>5, <2>6, <3>1, PlacePut DEF Alone
  <2>7. CASE eba_tbl[op.lnum] = NoPeb /\ op' = cont /\ UNCHANGED <<used, ro_mode, work>>
    <3>1. Tidy'
        BY <2>1, <2>3, <2>7, TidyKeep DEF Alone
    <3>2. InUse' = InUse /\ InUse \subseteq PEB
        BY <1>m, <2>7 DEF InUse, TypeOK
    <3>3. Owned'
        BY <2>1, <2>5, <2>7, <3>2 DEF PlaceInv, Owned, Alone
    <3> QED
        BY <3>1, <3>3
  <2>8. op.kind \in {"write", "change"} /\ (op.kind = "write" => eba_tbl[op.lnum] = NoPeb)
      BY <1>m, <2>1 DEF Alone, MapInv, InStep, Stages
  <2> QED
      BY <2>2, <2>6, <2>7, <2>8
<1>2. CASE WriteError
  <2> DEFINE cont == [op EXCEPT !.pc = "retry"]
  <2>1. /\ \E pc \in {"vid", "data"} : Alone(pc)
        /\ UNCHANGED <<up, eba_tbl, free, todo, lost>> /\ ~ro_mode
        /\ PutPeb(op.pnum, cont, Idle("err"))
      BY <1>2, AtFacts DEF WriteError
  <2>2. op.pnum \in PEB /\ flash[op.pnum].st # "bad"
      BY <1>m, <2>1 DEF Alone, MapInv, InStep, OpHolds, Copies, CtlInv, ControlOK
  <2>3. \E r : SetFlash(op.pnum, r)
      BY <1>2 DEF WriteError
  <2>4. SameBad
      BY <1>m, <2>2, <2>3, WriteNotBad
  <2>5. op' = cont => SameOp /\ op'.pc = "retry"
      BY <1>m, GotoFacts
  <2> HIDE DEF cont
  <2>6. op' = cont => \A q \in PEB : q # op.pnum /\ (Mapped(q) \/ Held(q)) => Mapped(q)' \/ Held(q)'
      BY <2>1, <2>5 DEF Mapped, Held, Changing
  <2> QED
      BY <2>1, <2>2, <2>4, <2>6, PlacePut DEF Alone
<1>3. CASE RecoverData
  <2> DEFINE cont == [op EXCEPT !.pc = "done"]
  <2>1. /\ Alone("rdata") /\ UNCHANGED <<up, free, todo, lost>>
        /\ eba_tbl' = [eba_tbl EXCEPT ![op.lnum] = op.pnum]
        /\ SetFlash(op.pnum, WithData(flash[op.pnum], RecoveredData))
        /\ PutPeb(op.old, cont, Idle("ok"))
      BY <1>3, AtFacts DEF RecoverData
  <2>2. /\ op.pnum \in PEB /\ op.old \in PEB /\ op.lnum \in LEB /\ ~ro_mode
        /\ op.old = eba_tbl[op.lnum]
      BY <1>m, <2>1, RecoverHolds
  <2>3. SameBad
      BY <1>m, <2>1, <2>2, DataFacts, SameIsBad
  <2>4. op' = cont => SameOp /\ op'.pc = "done"
      BY <1>m, GotoFacts
  <2> HIDE DEF cont
  <2>5. op' = cont => \A q \in PEB : q # op.old /\ (Mapped(q) \/ Held(q)) => Mapped(q)' \/ Held(q)'
    <3> SUFFICES ASSUME op' = cont, NEW q \in PEB, q # op.old, Mapped(q) \/ Held(q)
                 PROVE  Mapped(q)'
        OBVIOUS
    <3>0. ~Changing'
        BY <2>4 DEF Changing
    <3>1. CASE q = op.pnum
        BY <1>m, <2>1, <2>2, <3>0, <3>1 DEF Mapped, TypeOK
    <3>2. CASE q # op.pnum
      <4>1. PICK k \in LEB : eba_tbl[k] = q
          BY <3>2 DEF Mapped, Held
      <4>2. eba_tbl'[k] = q
          BY <1>m, <2>1, <2>2, <4>1 DEF TypeOK
      <4> QED
          BY <3>0, <4>2 DEF Mapped
    <3> QED
        BY <3>1, <3>2
  <2> QED
      BY <2>1, <2>2, <2>3, <2>5, PlacePut DEF Alone
<1>4. CASE RecoverReadError
  <2> DEFINE cont == [op EXCEPT !.pc = "rfail"]
  <2>1. /\ Alone("rdata") /\ UNCHANGED <<flash, up, eba_tbl, free, todo, lost>>
        /\ PutPeb(op.pnum, cont, Idle("err"))
      BY <1>4, AtFacts DEF RecoverReadError
  <2>2. op.pnum \in PEB /\ ~ro_mode
      BY <1>m, <2>1, RecoverHolds
  <2>3. op' = cont => SameOp /\ op'.pc = "rfail"
      BY <1>m, GotoFacts
  <2> HIDE DEF cont
  <2>4. op' = cont => \A q \in PEB : q # op.pnum /\ (Mapped(q) \/ Held(q)) => Mapped(q)' \/ Held(q)'
      BY <2>1, <2>3 DEF Mapped, Held, Changing
  <2> QED
      BY <2>1, <2>2, <2>4, PlacePut DEF Alone, SameBad
<1>5. ASSUME NEW l \in LEB, UnmapLeb(l)
      PROVE  Tidy' /\ Owned'
  <2> DEFINE cont == NewOp("unmap", "done", l, <<>>)
  <2>1. /\ Alone("idle") /\ ~ro_mode /\ eba_tbl[l] \in PEB
        /\ eba_tbl' = [eba_tbl EXCEPT ![l] = NoPeb]
        /\ PutPeb(eba_tbl[l], cont, Idle("err"))
        /\ UNCHANGED <<flash, up, free, todo, lost>>
      BY <1>5, <1>m, AtFacts DEF UnmapLeb, Ready, TypeOK
  <2>2. cont.pc = "done"
      BY NewOpFacts
  <2> HIDE DEF cont
  <2>3. op' = cont => \A q \in PEB : q # eba_tbl[l] /\ (Mapped(q) \/ Held(q)) => Mapped(q)' \/ Held(q)'
    <3> SUFFICES ASSUME op' = cont, NEW q \in PEB, q # eba_tbl[l], Mapped(q)
                 PROVE  Mapped(q)'
        BY <2>1 DEF Alone, Held
    <3>1. ~Changing'
        BY <2>2 DEF Changing
    <3>2. PICK k \in LEB : eba_tbl[k] = q
        BY DEF Mapped
    <3>3. eba_tbl'[k] = q
        BY <1>m, <2>1, <3>2 DEF TypeOK
    <3> QED
        BY <3>1, <3>3 DEF Mapped
  <2> QED
      BY <2>1, <2>3, PlacePut DEF Alone, SameBad
<1> QED
    BY <1>1, <1>2, <1>3, <1>4, <1>5

\* ensure_wear_leveling: what a move takes from the trees is in its hands.
LEMMA PlaceEnsure ==
  ASSUME TypeOK, NEW fr \in SUBSET PEB, NEW us \in SUBSET PEB,
         fr \cap us = {},
         \/ work' = NoWork /\ free' = fr /\ used' = us
         \/ \E e1 \in us, e2 \in fr : /\ work' = Move(e1, e2)
                                      /\ free' = fr \ {e2} /\ used' = us \ {e1}
  PROVE  /\ free' \cup used' \cup Hands' = fr \cup us
         /\ free' \cap used' = {} /\ free' \cap Hands' = {} /\ used' \cap Hands' = {}
         /\ work'.k \in {"mvid", "mdata"} => work'.from # work'.to
         /\ InUse' = us
<1>1. CASE work' = NoWork /\ free' = fr /\ used' = us
  <2>1. Hands' = {} /\ InUse' = used' /\ work'.k = "none"
      BY <1>1, WorkFacts, EmptyHands
  <2> QED
      BY <1>1, <2>1
<1>2. CASE \E e1 \in us, e2 \in fr : /\ work' = Move(e1, e2)
                                     /\ free' = fr \ {e2} /\ used' = us \ {e1}
  <2>1. PICK e1 \in us, e2 \in fr : /\ work' = Move(e1, e2)
                                    /\ free' = fr \ {e2} /\ used' = us \ {e1}
      BY <1>2
  <2>2. work'.k = "mvid" /\ work'.from = e1 /\ work'.to = e2
      BY <2>1, WorkFacts
  <2>3. Hands' = {e1, e2} /\ InUse' = us
      BY <2>1, <2>2 DEF Hands, InUse
  <2> QED
      BY <2>1, <2>2, <2>3
<1> QED
    BY <1>1, <1>2

LEMMA PlaceErase ==
  ASSUME PlaceInv, EraseWorker \/ EraseError \/ EraseRefused
  PROVE  Tidy' /\ Owned'
<1>m. MapInv /\ TypeOK
    BY DEF PlaceInv, CopyInv, MapInv, CtlInv
<1>1. work.k = "erase" /\ UNCHANGED <<up, eba_tbl, todo, lost, op>> /\ (ro_mode => ro_mode')
    BY DEF EraseWorker, EraseError, EraseRefused, ram
<1>2. up = "up" /\ work.from \in PEB
    BY <1>1, <1>m, EraseHolds DEF Waiting
<1>3. Hands = {work.from} /\ InUse = used
    BY <1>1, <1>2 DEF Hands, InUse
<1>4. CASE ro_mode'
    BY <1>4 DEF Tidy, Owned
<1>5. CASE EraseWorker
  <2>1. /\ SetFlash(work.from, Blank("free")) /\ ~ro_mode /\ ro_mode' = ro_mode
        /\ \/ work' = NoWork /\ free' = free \cup {work.from} /\ used' = used
           \/ \E e1 \in used, e2 \in free \cup {work.from} :
                /\ work' = Move(e1, e2)
                /\ free' = (free \cup {work.from}) \ {e2} /\ used' = used \ {e1}
      BY <1>5 DEF EraseWorker, EnsureWearLeveling
  <2>2. PICK fr \in SUBSET PEB : fr = free \cup {work.from}
      BY <1>2, <1>m DEF TypeOK
  <2>3. fr \cap used = {} /\ used \in SUBSET PEB /\ todo \cap (fr \cup used) = {}
      BY <1>2, <1>3, <1>m, <2>1, <2>2 DEF PlaceInv, Tidy, TypeOK
  <2>4. /\ free' \cup used' \cup Hands' = fr \cup used
        /\ free' \cap used' = {} /\ free' \cap Hands' = {} /\ used' \cap Hands' = {}
        /\ work'.k \in {"mvid", "mdata"} => work'.from # work'.to
        /\ InUse' = used
    <3>1. \/ work' = NoWork /\ free' = fr /\ used' = used
          \/ \E e1 \in used, e2 \in fr : /\ work' = Move(e1, e2)
                                         /\ free' = fr \ {e2} /\ used' = used \ {e1}
        BY <2>1, <2>2
    <3> QED
        BY <1>m, <2>3, <3>1, PlaceEnsure
  <2>5. \A p \in PEB : flash'[p].st = "bad" \/ p \in free' \cup used' \cup todo' \cup Hands'
    <3>1. \A p \in PEB : flash[p].st = "bad" \/ p \in free \cup used \cup todo \cup {work.from}
        BY <1>2, <1>3, <2>1 DEF PlaceInv, Tidy
    <3>2. \A p \in PEB : p # work.from => flash'[p] = flash[p]
        BY <1>m, <2>1 DEF SetFlash, TypeOK
    <3> QED
        BY <1>1, <2>2, <2>4, <3>1, <3>2
  <2>6. Tidy'
      BY <1>1, <2>3, <2>4, <2>5 DEF Tidy
  <2>7. Owned'
      BY <1>1, <1>2, <1>3, <2>4, OwnedKeep DEF PlaceInv
  <2> QED
      BY <2>6, <2>7
<1>6. CASE /\ SetFlash(work.from, Blank("bad")) /\ ro_mode' = ro_mode /\ work' = NoWork
           /\ UNCHANGED <<free, used>> /\ ~ro_mode
  <2>1. Writes(work.from, "bad", NoLeb)
      BY <1>2, <1>6, <1>m, SetFacts, HdrFacts
  <2>2. Hands' = {} /\ InUse' = used' /\ work'.k = "none"
      BY <1>6, WorkFacts, EmptyHands
  <2>3. Tidy'
      BY <1>1, <1>2, <1>3, <1>6, <2>1, <2>2 DEF PlaceInv, Tidy, Writes
  <2>4. Owned'
      BY <1>1, <1>2, <1>3, <1>6, <2>2, OwnedKeep DEF PlaceInv
  <2> QED
      BY <2>3, <2>4
<1>7. EraseRefused => ro_mode'
    BY <1>1 DEF EraseRefused
<1> QED
    BY <1>4, <1>5, <1>6, <1>7 DEF EraseError

LEMMA PlaceMove ==
  ASSUME RecoverySafe, PlaceInv,
         \/ MoveVidHdr \/ MoveData \/ MoveCancelled
         \/ MoveBitflip \/ MoveBadHdr \/ MoveMismatch \/ MoveWriteError \/ MoveReadError
  PROVE  Tidy' /\ Owned'
<1>m. MapInv /\ TypeOK
    BY DEF PlaceInv, CopyInv, MapInv, CtlInv
<1>0. ~MoveMismatch
    BY DEF MoveMismatch, Fault, RecoverySafe
<1>1. /\ work.k \in {"mvid", "mdata"} /\ UNCHANGED <<up, free, todo, op>>
      /\ ro_mode => ro_mode'
    BY <1>0 DEF MoveVidHdr, MoveData, MoveCancelled, MoveBitflip, MoveBadHdr, MoveWriteError,
                MoveReadError, MoveFailed
<1>2. MoveTo /\ up = "up" /\ work.to \in PEB /\ work.from \in PEB
    BY <1>1, <1>m, MoveToHolds DEF MoveTo, Waiting
<1>3. Hands = {work.from, work.to} /\ InUse = used \cup {work.from}
    BY <1>1, <1>2 DEF Hands, InUse
<1>4. flash[work.to].st \in {"free", "used"}
    BY <1>1, <1>m DEF MapInv, InStep, MoveHolds, Copies
<1>5. CASE ro_mode'
    BY <1>5 DEF Tidy, Owned
<1>6. SameBad
  <2>1. flash' = flash \/ \E r : SetFlash(work.to, r)
      BY <1>0 DEF MoveVidHdr, MoveData, MoveCancelled, MoveBitflip, MoveBadHdr, MoveWriteError,
                  MoveReadError
  <2>2. flash' = flash => SameBad
      BY DEF SameBad
  <2>3. (\E r : SetFlash(work.to, r)) => SameBad
      BY <1>2, <1>4, <1>m, WriteNotBad
  <2> QED
      BY <2>1, <2>2, <2>3
<1>7. CASE MoveCancelled \/ MoveBitflip
  <2>1. used' = used \cup {work.from} /\ work' = Erase(work.to) /\ UNCHANGED <<eba_tbl, lost>>
      BY <1>7 DEF MoveCancelled, MoveBitflip, NotMoved
  <2>2. work'.k = "erase" /\ work'.from = work.to
      BY <2>1, WorkFacts
  <2>3. Hands' = {work.to} /\ InUse' = used'
      BY <1>2, <2>2 DEF Hands, InUse
  <2>4. Tidy'
      BY <1>1, <1>2, <1>3, <1>6, <2>1, <2>2, <2>3 DEF PlaceInv, Tidy, SameBad
  <2>5. Owned'
      BY <1>1, <1>2, <1>3, <2>1, <2>3, OwnedKeep DEF PlaceInv
  <2> QED
      BY <2>4, <2>5
<1>8. CASE MoveVidHdr \/ MoveData
  <2>1. Copying /\ ro_mode' = ro_mode /\ lost' = lost
      BY <1>8 DEF Copying, MoveVidHdr, MoveData
  <2>2. CopyFrom /\ ~ro_mode
      BY <1>m, <2>1, CopyFromHolds DEF CopyFrom
  <2>3. CASE /\ work' = [work EXCEPT !.k = "mdata"] /\ UNCHANGED <<eba_tbl, used>>
    <3>1. work'.k = "mdata" /\ work'.from = work.from /\ work'.to = work.to
        BY <1>m, <2>3 DEF TypeOK, Work
    <3>2. Hands' = Hands /\ InUse' = InUse
        BY <1>1, <2>3, <3>1 DEF Hands, InUse
    <3>3. Tidy'
        BY <1>1, <1>2, <1>6, <2>1, <2>3, <3>1, <3>2 DEF PlaceInv, Tidy, SameBad
    <3>4. Owned'
        BY <1>1, <1>2, <2>1, <2>3, <3>2, OwnedKeep DEF PlaceInv
    <3> QED
        BY <3>3, <3>4
  <2>4. CASE /\ eba_tbl' = [eba_tbl EXCEPT ![Src.lnum] = work.to] /\ work' = Erase(work.from)
             /\ used' = used \cup {work.to}
    <3>1. work'.k = "erase" /\ work'.from = work.from
        BY <2>4, WorkFacts
    <3>2. Hands' = {work.from} /\ InUse' = used'
        BY <1>2, <3>1 DEF Hands, InUse
    <3>3. Tidy'
        BY <1>1, <1>2, <1>3, <1>6, <2>1, <2>2, <2>4, <3>1, <3>2 DEF PlaceInv, Tidy, SameBad
    <3>4. \A p \in used : p # work.from
        BY <1>2, <1>3, <2>2 DEF PlaceInv, Tidy
    <3>5. ASSUME NEW p \in InUse'
          PROVE  Mapped(p)' \/ Held(p)' \/ p \in lost'
      <4>1. PICK l \in LEB : l = Src.lnum
          BY <2>2 DEF CopyFrom
      <4>2. eba_tbl'[l] = work.to /\ \A k \in LEB : k # l => eba_tbl'[k] = eba_tbl[k]
          BY <1>m, <2>4, <4>1 DEF TypeOK
      <4>3. CASE p = work.to
          BY <1>1, <2>2, <4>1, <4>2, <4>3 DEF Mapped, Changing, CopyFrom
      <4>4. CASE p # work.to
        <5>1. p \in used /\ (Mapped(p) \/ Held(p) \/ p \in lost)
            BY <1>2, <1>3, <2>2, <2>4, <3>2, <4>4 DEF PlaceInv, Owned
        <5>2. p # work.from
            BY <3>4, <5>1
        <5>3. eba_tbl[l] = work.from
            BY <2>2, <4>1 DEF CopyFrom
        <5>4. Mapped(p) => Mapped(p)'
            BY <1>1, <4>2, <5>2, <5>3 DEF Mapped, Changing
        <5>5. Held(p) => Held(p)'
            BY <1>1 DEF Held
        <5> QED
            BY <2>1, <5>1, <5>4, <5>5
      <4> QED
          BY <4>3, <4>4
    <3>6. Owned'
        BY <3>5 DEF Owned
    <3> QED
        BY <3>3, <3>6
  <2> QED
      BY <1>8, <2>3, <2>4 DEF MoveVidHdr, MoveData, Moved
<1>9. MoveWriteError \/ MoveReadError => ro_mode'
    BY DEF MoveWriteError, MoveReadError, MoveFailed
<1>10. CASE MoveBadHdr
  <2>1. /\ used' = used \cup {work.from, work.to} /\ lost' = lost \cup {work.to}
        /\ work' = NoWork /\ eba_tbl' = eba_tbl /\ ro_mode' = ro_mode
      BY <1>10 DEF MoveBadHdr
  <2>2. Hands' = {} /\ InUse' = used' /\ work'.k = "none"
      BY <2>1, WorkFacts, EmptyHands
  <2>3. Tidy'
      BY <1>1, <1>2, <1>3, <1>6, <2>1, <2>2 DEF PlaceInv, Tidy, SameBad
  <2>4. \A p : (Mapped(p) => Mapped(p)') /\ (Held(p) => Held(p)')
      BY <1>1, <2>1 DEF Mapped, Held, Changing
  <2>5. Owned'
      BY <1>2, <1>3, <2>1, <2>2, <2>4 DEF PlaceInv, Owned
  <2> QED
      BY <2>3, <2>5
<1> QED
    BY <1>0, <1>1, <1>5, <1>7, <1>8, <1>9, <1>10

\* A move starts between operations, or nothing does.
LEMMA PlaceStart ==
  ASSUME PlaceInv, up = "up", work = NoWork, ~Changing',
         op.pc \notin {"vid", "data", "map", "rvid", "rdata"},
         UNCHANGED <<flash, up, eba_tbl, ro_mode, todo, lost>>,
         \/ work' = NoWork /\ free' = free /\ used' = used
         \/ \E e1 \in used, e2 \in free : /\ work' = Move(e1, e2)
                                          /\ free' = free \ {e2} /\ used' = used \ {e1}
  PROVE  Tidy' /\ Owned'
<1>m. TypeOK /\ free \in SUBSET PEB /\ used \in SUBSET PEB
    BY DEF PlaceInv, CopyInv, MapInv, CtlInv, TypeOK
<1>1. CASE ro_mode
    BY <1>1 DEF Tidy, Owned
<1>2. CASE ~ro_mode
  <2>1. Hands = {} /\ InUse = used
      BY WorkFacts, EmptyHands
  <2>2. free \cap used = {} /\ todo \cap (free \cup used) = {}
      BY <1>2, <2>1 DEF PlaceInv, Tidy
  <2>3. /\ free' \cup used' \cup Hands' = free \cup used
        /\ free' \cap used' = {} /\ free' \cap Hands' = {} /\ used' \cap Hands' = {}
        /\ work'.k \in {"mvid", "mdata"} => work'.from # work'.to
        /\ InUse' = used
      BY <1>m, <2>2, PlaceEnsure
  <2>4. Tidy'
      BY <1>2, <2>1, <2>2, <2>3 DEF PlaceInv, Tidy
  <2>5. \A p : Mapped(p) \/ Held(p) => Mapped(p)'
      BY DEF Mapped, Held
  <2>6. Owned'
      BY <1>2, <2>1, <2>3, <2>5 DEF PlaceInv, Owned
  <2> QED
      BY <2>4, <2>6
<1> QED
    BY <1>1, <1>2

LEMMA PlaceScrub ==
  ASSUME PlaceInv, NEW l \in LEB, ScrubLeb(l)
  PROVE  Tidy' /\ Owned'
<1>1. /\ Alone("idle") /\ UNCHANGED <<flash, up, eba_tbl, ro_mode, todo, lost, op>>
      /\ \E e1 \in used, e2 \in free : /\ work' = Move(e1, e2)
                                       /\ free' = free \ {e2} /\ used' = used \ {e1}
    BY AtFacts DEF ScrubLeb, Ready
<1>2. ~Changing'
    BY <1>1 DEF Changing, Alone
<1> QED
    BY <1>1, <1>2, PlaceStart DEF Alone

LEMMA PlacePower ==
  ASSUME PlaceInv, PowerStep
  PROVE  Tidy' /\ Owned'
<1>m. MapInv /\ TypeOK /\ CtlInv
    BY DEF PlaceInv, CopyInv, MapInv, CtlInv
<1>1. CASE PowerOff \/ PowerCut \/ AttachError
  <2>1. up' # "up"
      BY <1>1 DEF PowerOff, PowerCut, AttachError, LoseRam
  <2> QED
      BY <2>1 DEF Tidy, Owned
<1>2. CASE Attach
  <2>1. /\ up = "down" /\ flash' = flash /\ eba_tbl' = ScanTbl /\ work' = work
        /\ used' = {p \in PEB : \E l \in LEB : ScanTbl[l] = p}
        /\ free' = {p \in PEB : flash[p].st = "free"}
        /\ todo' = {p \in PEB : flash[p].st \in {"empty", "corr", "used"}} \ used'
        /\ op' = [Idle("none") EXCEPT !.kind = "attach", !.pc = "attach"]
      BY <1>2 DEF Attach
  <2>2. work'.k = "none" /\ Hands' = {} /\ InUse' = used'
      BY <2>1, <1>m, WorkFacts, EmptyHands DEF CtlInv, ControlOK
  <2>3. \A p \in used' : flash[p].st = "used"
      BY <2>1, ScanMaps DEF Copies
  <2>4. \A p \in PEB : flash[p].st \in {"empty", "free", "used", "corr", "bad"}
      BY <1>m DEF TypeOK, PebState
  <2>5. Tidy'
      BY <2>1, <2>2, <2>3, <2>4 DEF Tidy
  <2>6. ~Changing'
      BY <2>1 DEF Changing, Idle
  <2>7. \A p \in used' : Mapped(p)'
      BY <2>1, <2>6 DEF Mapped
  <2>8. Owned'
      BY <2>2, <2>7 DEF Owned
  <2> QED
      BY <2>5, <2>8
<1>3. CASE AttachErase
  <2>1. /\ Alone("attach") /\ UNCHANGED <<flash, up, eba_tbl, free, used, ro_mode, lost, op>>
      BY <1>3, AtFacts DEF AttachErase
  <2>2. PICK p \in todo : todo' = todo \ {p} /\ work' = Erase(p)
      BY <1>3 DEF AttachErase
  <2>3. work'.k = "erase" /\ work'.from = p /\ p \in PEB
      BY <1>m, <2>2, WorkFacts DEF TypeOK
  <2>4. Hands = {} /\ InUse = used /\ Hands' = {p} /\ InUse' = used
    <3>1. Hands = {} /\ InUse = used
        BY <2>1, EmptyHands DEF Alone
    <3>2. Hands' = {p} /\ InUse' = used'
        BY <2>3 DEF Hands, InUse
    <3> QED
        BY <2>1, <3>1, <3>2
  <2>5. Tidy'
      BY <2>1, <2>2, <2>3, <2>4 DEF PlaceInv, Tidy, Alone
  <2>6. Owned'
      BY <2>1, <2>4, OwnedKeep DEF PlaceInv, Alone
  <2> QED
      BY <2>5, <2>6
<1>4. CASE AttachDone
  <2>1. /\ Alone("attach") /\ UNCHANGED <<flash, up, eba_tbl, ro_mode, todo, lost>> /\ op' = Idle("none")
        /\ \/ work' = NoWork /\ free' = free /\ used' = used
           \/ \E e1 \in used, e2 \in free : /\ work' = Move(e1, e2)
                                            /\ free' = free \ {e2} /\ used' = used \ {e1}
      BY <1>4, AtFacts DEF AttachDone, EnsureWearLeveling, Return
  <2>2. ~Changing'
      BY <2>1, IdleFacts DEF Changing
  <2> QED
      BY <2>1, <2>2, PlaceStart DEF Alone
<1> QED
    BY <1>1, <1>2, <1>3, <1>4 DEF PowerStep

LEMMA StepKeepsPlaces ==
  ASSUME RecoverySafe
  PROVE  PlaceInv /\ [Next]_vars => PlaceInv'
<1> SUFFICES ASSUME PlaceInv, [Next]_vars
             PROVE  PlaceInv'
    OBVIOUS
<1>1. CopyInv' /\ MapInv
    BY StepKeepsCopies DEF PlaceInv, CopyInv
<1>2. Tidy' /\ Owned'
  <2>1. CASE EbaStep
    <3>1. ~RecoverWriteError /\ ~RecoverRetry
        BY <1>1, MapRecoverWriteError DEF RecoverySafe
    <3> QED
        BY <2>1, <3>1, PlaceQuiet, PlaceTakes, PlaceWrites, PlaceGives DEF EbaStep
  <2>2. CASE WlStep
      BY <2>2, PlaceErase, PlaceMove, PlaceScrub DEF WlStep
  <2>3. CASE PowerStep
      BY <2>3, PlacePower
  <2>4. CASE UNCHANGED vars
    <3>1. UNCHANGED <<flash, up, eba_tbl, free, used, ro_mode, todo, lost, op, work>>
        BY <2>4 DEF vars, ram
    <3>2. Hands' = Hands /\ InUse' = InUse /\ \A p : Mapped(p)' = Mapped(p) /\ Held(p)' = Held(p)
        BY <3>1 DEF Hands, InUse, Mapped, Held, Changing
    <3> QED
        BY <3>1, <3>2 DEF PlaceInv, Tidy, Owned
  <2> QED
      BY <2>1, <2>2, <2>3, <2>4 DEF Next
<1> QED
    BY <1>1, <1>2 DEF PlaceInv

LEMMA InitPlaces == Init => PlaceInv
<1> SUFFICES ASSUME Init
             PROVE  PlaceInv
    OBVIOUS
<1>1. Tidy /\ Owned
    BY DEF Init, Tidy, Owned
<1> QED
    BY <1>1, InitCopies DEF PlaceInv

LEMMA PlacedIsCounted == PlaceInv => PebAccounting
<1> SUFFICES ASSUME PlaceInv, At("idle"), ~ro_mode
             PROVE  /\ free \cap used = {}
                    /\ \A p \in PEB : \/ flash[p].st = "bad"
                                      \/ p \in free /\ flash[p].st = "free"
                                      \/ p \in used /\ \E l \in LEB : eba_tbl[l] = p
                                      \/ p \in used /\ p \in lost
                    /\ \A k, l \in LEB : eba_tbl[k] = eba_tbl[l] /\ k # l => eba_tbl[l] = NoPeb
    BY DEF PebAccounting
<1>1. Alone("idle") /\ MapInv /\ todo = {}
    BY AtFacts DEF PlaceInv, CopyInv, MapInv, InStep, Stages, Alone
<1>2. Hands = {} /\ InUse = used
    BY <1>1, EmptyHands DEF Alone
<1>3. free \cap used = {} /\ \A p \in PEB : flash[p].st = "bad" \/ p \in free \cup used
    BY <1>1, <1>2 DEF PlaceInv, Tidy, Alone
<1>4. \A p \in free : flash[p].st = "free"
    BY <1>1 DEF MapInv, InStep, Erased
<1>5. \A p \in used : (\E l \in LEB : eba_tbl[l] = p) \/ p \in lost
    BY <1>1, <1>2 DEF PlaceInv, Owned, Mapped, Held, Alone
<1>6. \A k, l \in LEB : eba_tbl[k] = eba_tbl[l] /\ k # l => eba_tbl[l] = NoPeb
    BY <1>1, MapBefore DEF Alone
<1> QED
    BY <1>3, <1>4, <1>5, <1>6

\* However long the device runs no eraseblock is shared, and between operations of a writable device
\* every good one is erased and free, or known to the WL unit as used and mapped by one LEB, or the
\* target of a move whose header could not be read back (ubi_eba_copy_leb, MoveBadHdr), the one path
\* of eba.c and wl.c that loses an eraseblock and goes on writing.
THEOREM AllAccounted == ASSUME RecoverySafe PROVE Spec => []PebAccounting
<1>1. Init => PlaceInv
    BY InitPlaces
<1>2. PlaceInv /\ [Next]_vars => PlaceInv'
    BY StepKeepsPlaces
<1>3. PlaceInv => PebAccounting
    BY PlacedIsCounted
<1> QED
    BY <1>1, <1>2, <1>3, PTL DEF Spec
=============================================================================
