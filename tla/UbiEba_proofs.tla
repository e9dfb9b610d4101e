---------------------------- MODULE UbiEba_proofs ----------------------------
(***************************************************************************)
(* Proofs about UbiEba, for every number of eraseblocks, LEBs, pages and   *)
(* retries, every set of faults and every bound on them.                   *)
(*                                                                         *)
(* The invariant SqnumInv is preserved by every step.  Most steps write no *)
(* VID header: KeepsNumbers says what they leave alone.  The others write  *)
(* one header with a number that is on no eraseblock: WritesNumber.        *)
(***************************************************************************)
EXTENDS UbiEba, SequenceTheorems, TLAPS

USE PebFinite, LebAssumption

-----------------------------------------------------------------------------
(* Contents: every way in which the flash turns contents into other         *)
(* contents gives contents again.                                           *)

\* What users write can be read back from an eraseblock.
LEMMA WrittenIsContent == Written \subseteq Content
  BY PagesAssumption DEF Written, Content

\* An eraseblock without data is a content.
LEMMA EmptyIsContent == <<>> \in Content
  BY DEF Content

\* Appending pages (ubi_eba_write_leb on a mapped LEB) gives a content.
LEMMA ConcatIsContent == \A c, d \in Content : c \o d \in Content
  BY ConcatProperties DEF Content

\* The pages in front of an offset (what recover_peb reads) are a content.
LEMMA PrefixIsContent == \A c \in Content : \A n \in 0..Len(c) : SubSeq(c, 1, n) \in Content
  BY SubSeqProperties DEF Content

\* What an interrupted write leaves is a content.
LEMMA PartialIsContent == \A c \in Content : Partial(c) \subseteq Content
<1> SUFFICES ASSUME NEW c \in Content, NEW d \in Partial(c)
             PROVE  d \in Content
    OBVIOUS
<1>1. CASE \E n \in 0..Len(c) : d = SubSeq(c, 1, n)
    BY <1>1, PrefixIsContent
<1>2. CASE \E n \in 0..Len(c) : d = Append(SubSeq(c, 1, n), Torn)
    BY <1>2, PrefixIsContent, AppendProperties DEF Content
<1> QED
    BY <1>1, <1>2 DEF Partial

\* Pages that cannot be read any more are a content too.
LEMMA TornIsContent == \A c \in Content : [i \in 1..Len(c) |-> Torn] \in Content
  BY LenProperties DEF Content

\* What an interrupted erasure leaves of the data is a content.
LEMMA ScrambledIsContent == \A c \in Content : Scrambled(c) \subseteq Content
  BY TornIsContent DEF Scrambled

-----------------------------------------------------------------------------
(* Types of the operators.                                                  *)

\* An eraseblock without a VID header.
LEMMA BlankType == \A st \in {"empty", "free", "corr", "bad"} :
                     Blank(st) \in PebState /\ Blank(st).st = st
  BY EmptyIsContent DEF Blank, PebState

\* A VID header in front of no data.
LEMMA VidHdrType ==
  \A l \in LEB \cup {NoLeb}, s \in Nat, flag \in BOOLEAN, crc \in Content :
    /\ VidHdr(l, s, flag, crc) \in PebState
    /\ VidHdr(l, s, flag, crc).sqnum = s
  BY EmptyIsContent DEF VidHdr, PebState

\* Writing data changes nothing in the headers.
LEMMA WithDataType ==
  \A r \in PebState, d \in Content :
    /\ WithData(r, d) \in PebState /\ WithData(r, d).st = r.st
    /\ WithData(r, d).sqnum = r.sqnum /\ WithData(r, d).lnum = r.lnum
  BY DEF WithData, PebState

\* An interrupted erasure leaves the VID header as it was, or none.
LEMMA HalfErasedType ==
  ASSUME NEW r \in PebState, NEW h \in HalfErased(r)
  PROVE  /\ h \in PebState
         /\ h.st = "used" => r.st = "used" /\ h.sqnum = r.sqnum /\ h.lnum = r.lnum
<1>1. r.data \in Content
    BY DEF PebState
<1>2. CASE h \in {r, Blank("empty"), Blank("corr")}
    BY <1>2, BlankType
<1>3. CASE \E d \in Scrambled(r.data) : h = WithData(r, d)
    BY <1>1, <1>3, ScrambledIsContent, WithDataType
<1> QED
    BY <1>2, <1>3 DEF HalfErased

\* An idle operation.
LEMMA IdleType == \A ret \in {"none", "ok", "err"} : Idle(ret) \in Op /\ Idle(ret).pc = "idle"
  BY EmptyIsContent DEF Idle, Op, Pcs

\* What a scan would find is a content, or nothing.
LEMMA DurableType == TypeOK => \A l \in LEB : Durable(l) \in Content \cup {Unmapped}
<1> SUFFICES ASSUME TypeOK, NEW l \in LEB
             PROVE  Durable(l) \in Content \cup {Unmapped}
    OBVIOUS
<1>1. ScanTbl[l] \in PEB \cup {NoPeb}
    BY DEF ScanTbl
<1>2. CASE ScanTbl[l] = NoPeb
    BY <1>2 DEF Durable
<1>3. CASE ScanTbl[l] # NoPeb
  <2>1. flash[ScanTbl[l]] \in PebState
      BY <1>1, <1>3 DEF TypeOK
  <2> QED
      BY <1>3, <2>1 DEF Durable, PebState
<1> QED
    BY <1>2, <1>3

\* A new operation.
LEMMA NewOpType ==
  ASSUME TypeOK, NEW kind \in {"write", "append", "change", "unmap"}, NEW pc \in Pcs,
         NEW l \in LEB, NEW c \in Content
  PROVE  /\ NewOp(kind, pc, l, c) \in Op
         /\ NewOp(kind, pc, l, c).pc = pc
         /\ NewOp(kind, pc, l, c).lnum = l
  BY DurableType, EmptyIsContent DEF NewOp, Idle, Op

\* The works there are.
LEMMA WorkType == /\ NoWork \in Work /\ NoWork.k = "none"
                  /\ \A p \in PEB : Erase(p) \in Work /\ Erase(p).k = "erase" /\ Erase(p).from = p
                  /\ \A p, q \in PEB : /\ Move(p, q) \in Work /\ Move(p, q).k = "mvid"
                                       /\ Move(p, q).from = p /\ Move(p, q).to = q
  BY DEF NoWork, Erase, Move, Work

-----------------------------------------------------------------------------
(* Type correctness.                                                        *)

\* The type of everything an EBA operation changes, and of the control state.
CtlInv == TypeOK /\ ControlOK

\* Taking an eraseblock: the operation holds it, or ends with an error.
LEMMA GetPebType ==
  ASSUME TypeOK, NEW next \in Op, next.pc = "vid", next.lnum \in LEB, GetPeb(next)
  PROVE  /\ free' \subseteq PEB /\ used' \subseteq PEB /\ global_sqnum' \in Nat
         /\ op' \in Op
         /\ \/ op'.pc = "idle"
            \/ op'.pc = "vid" /\ op'.pnum \in PEB /\ op'.lnum \in LEB
<1>1. free \subseteq PEB /\ used \subseteq PEB /\ global_sqnum \in Nat
    BY DEF TypeOK
<1>2. CASE free = {}
    BY <1>1, <1>2, IdleType DEF GetPeb, Return
<1>3. CASE free # {}
  <2>1. PICK p \in free : /\ free' = free \ {p} /\ used' = used \cup {p}
                          /\ op' = [next EXCEPT !.pnum = p, !.sqnum = global_sqnum]
      BY <1>3 DEF GetPeb
  <2>2. global_sqnum' = global_sqnum + 1
      BY Zenon DEF GetPeb
  <2>3. op' \in Op
      BY <1>1, <2>1 DEF Op
  <2>4. op'.pc = "vid" /\ op'.pnum = p /\ op'.lnum = next.lnum
      BY <1>1, <2>1 DEF Op
  <2> QED
      BY <1>1, <2>1, <2>2, <2>3, <2>4
<1> QED
    BY <1>2, <1>3

\* What giving an eraseblock back leaves of the RAM state.
PutOK(cont) == /\ used' \subseteq PEB /\ ro_mode' \in BOOLEAN
               /\ op' \in {cont, Idle("err"), Idle("ok")}
               /\ work' \in Work
               /\ work'.k \in {"none", "erase"}
               /\ work'.k # "none" => work'.from \in PEB

\* Giving an eraseblock back: it is erased before the operation goes on.
LEMMA PutPebType ==
  ASSUME TypeOK, work = NoWork, NEW p, NEW cont,
         NEW failed \in {cont, Idle("err"), Idle("ok")}, PutPeb(p, cont, failed)
  PROVE  PutOK(cont)
<1>1. used \subseteq PEB /\ ro_mode \in BOOLEAN
    BY DEF TypeOK
<1>2. ro_mode' \in BOOLEAN /\ op' \in {cont, Idle("err"), Idle("ok")}
    BY <1>1 DEF PutPeb
<1>3. used' \subseteq PEB
    BY <1>1 DEF PutPeb
<1>4. work' = NoWork \/ (p \in PEB /\ work' = Erase(p))
    BY <1>1 DEF PutPeb
<1> QED
    BY <1>2, <1>3, <1>4, WorkType DEF PutOK

\* Writing one eraseblock.
LEMMA SetFlashType ==
  ASSUME TypeOK, NEW p, NEW r \in PebState, SetFlash(p, r)
  PROVE  flash' \in [PEB -> PebState]
  BY DEF SetFlash, TypeOK

\* Writing an unmapped LEB and changing a mapped one, with the retries.
LEMMA WriteSteps ==
  ASSUME CtlInv,
         \/ \E l \in LEB, c \in Written : WriteLeb(l, c) \/ AtomicLebChange(l, c)
         \/ WriteVidHdr \/ WriteData \/ MapLeb \/ WriteError \/ RetryWrite \/ WriteRefused
  PROVE  CtlInv'
<1> USE DEF CtlInv
<1>1. ASSUME NEW l \in LEB, NEW c \in Written, WriteLeb(l, c)
      PROVE  CtlInv'
  <2> DEFINE next == NewOp("write", "vid", l, c)
  <2>1. next \in Op /\ next.pc = "vid" /\ next.lnum = l
      BY <1>1, NewOpType, WrittenIsContent DEF Pcs
  <2>2. GetPeb(next) /\ UNCHANGED <<flash, up, eba_tbl, ro_mode, todo, lost, work, faults>>
      BY <1>1 DEF WriteLeb
  <2> HIDE DEF next
  <2> QED
      BY <2>1, <2>2, GetPebType DEF TypeOK, ControlOK
<1>2. ASSUME NEW l \in LEB, NEW c \in Written, AtomicLebChange(l, c)
      PROVE  CtlInv'
  <2> DEFINE next == NewOp("change", "vid", l, c)
  <2>1. next \in Op /\ next.pc = "vid" /\ next.lnum = l
      BY <1>2, NewOpType, WrittenIsContent DEF Pcs
  <2>2. GetPeb(next) /\ UNCHANGED <<flash, up, eba_tbl, ro_mode, todo, lost, work, faults>>
      BY <1>2 DEF AtomicLebChange
  <2> HIDE DEF next
  <2> QED
      BY <2>1, <2>2, GetPebType DEF TypeOK, ControlOK
<1>3. CASE WriteVidHdr
  <2>1. OpHdr \in PebState
      BY <1>3, VidHdrType, EmptyIsContent DEF OpHdr, WriteVidHdr, TypeOK, Op
  <2> QED
      BY <1>3, <2>1 DEF WriteVidHdr, SetFlash, Goto, At, TypeOK, ControlOK, ram, Op, Pcs
<1>4. CASE WriteData
  <2>1. WithData(flash[op.pnum], op.arg) \in PebState
      BY <1>4, WithDataType DEF WriteData, At, TypeOK, ControlOK, Op
  <2>2. flash' \in [PEB -> PebState]
      BY <1>4, <2>1, SetFlashType DEF WriteData
  <2> DEFINE cont == [op EXCEPT !.pc = "map"]
  <2>3. cont \in Op /\ cont.pc = "map" /\ cont.lnum \in LEB /\ cont.pnum \in PEB
    <3>1. op \in Op /\ op.lnum \in LEB /\ op.pnum \in PEB
        BY <1>4 DEF WriteData, At, TypeOK, ControlOK
    <3> QED
        BY <3>1 DEF Op, Pcs
  <2>4. \/ PutPeb(eba_tbl[op.lnum], cont, Idle("err"))
        \/ op' = cont /\ UNCHANGED <<used, ro_mode, work>>
      BY <1>4 DEF WriteData, Goto
  <2>5. UNCHANGED <<up, eba_tbl, free, global_sqnum, todo, lost, faults>> /\ At("data")
      BY <1>4 DEF WriteData
  <2>6. PutOK(cont)
      BY <2>4, <2>5, PutPebType, WorkType DEF PutOK, At, CtlInv, TypeOK
  <2> HIDE DEF cont
  <2>7. TypeOK'
      BY <2>2, <2>3, <2>5, <2>6, IdleType DEF TypeOK, PutOK
  <2>8. ControlOK'
      BY <2>3, <2>5, <2>6, IdleType DEF At, ControlOK, PutOK
  <2> QED
      BY <2>7, <2>8
<1>5. CASE MapLeb
    BY <1>5, IdleType DEF MapLeb, Return, At, TypeOK, ControlOK
<1>6. CASE WriteError
  <2>1. OpHdr \in PebState
      BY <1>6, VidHdrType, EmptyIsContent DEF OpHdr, TypeOK, Op
  <2>2. At("vid") => VidHdrLeft \subseteq PebState
      BY <1>6, <2>1, BlankType DEF VidHdrLeft, At, TypeOK, ControlOK
  <2>3. At("data") => DataLeft \subseteq PebState
      BY <1>6, WithDataType, PartialIsContent DEF DataLeft, At, TypeOK, ControlOK, Op
  <2>4. flash' \in [PEB -> PebState]
      BY <1>6, <2>2, <2>3 DEF WriteError, SetFlash, TypeOK
  <2> DEFINE cont == [op EXCEPT !.pc = "retry"]
  <2>5. cont \in Op /\ cont.pc = "retry" /\ cont.lnum \in LEB
    <3>1. op \in Op /\ op.lnum \in LEB
        BY <1>6 DEF WriteError, At, TypeOK, ControlOK
    <3> QED
        BY <3>1 DEF Op, Pcs
  <2>6. /\ PutPeb(op.pnum, cont, Idle("err"))
        /\ UNCHANGED <<up, eba_tbl, free, global_sqnum, todo, lost>>
        /\ At("vid") \/ At("data")
        /\ faults' = faults + 1
      BY <1>6 DEF WriteError, Fault
  <2>7. PutOK(cont)
      BY <2>6, PutPebType DEF At, CtlInv
  <2> HIDE DEF cont
  <2>8. TypeOK'
      BY <2>4, <2>5, <2>6, <2>7, IdleType DEF TypeOK, PutOK
  <2>9. ControlOK'
      BY <2>5, <2>6, <2>7, IdleType DEF At, ControlOK, PutOK
  <2> QED
      BY <2>8, <2>9
<1>7. CASE RetryWrite
  <2> DEFINE next == [op EXCEPT !.pc = "vid", !.tries = @ + 1]
  <2>1. next \in Op /\ next.pc = "vid" /\ next.lnum \in LEB
    <3>1. op \in Op /\ op.tries + 1 \in Nat /\ op.lnum \in LEB
        BY <1>7 DEF RetryWrite, At, TypeOK, ControlOK, Op
    <3> QED
        BY <3>1 DEF Op, Pcs
  <2>2. /\ At("retry")
        /\ \/ GetPeb(next) /\ ro_mode' = ro_mode
           \/ ro_mode' = TRUE /\ op' = Idle("ok") /\ UNCHANGED <<free, used, global_sqnum>>
        /\ UNCHANGED <<flash, up, eba_tbl, todo, lost, work, faults>>
      BY <1>7 DEF RetryWrite, Return
  <2> HIDE DEF next
  <2> QED
      BY <2>1, <2>2, IdleType, GetPebType DEF At, TypeOK, ControlOK
<1>8. CASE WriteRefused
    BY <1>8, IdleType DEF WriteRefused, Return, At, TypeOK, ControlOK, ram
<1> QED
    BY <1>1, <1>2, <1>3, <1>4, <1>5, <1>6, <1>7, <1>8

\* The data recover_peb writes to the new eraseblock.
LEMMA RecoveredDataType ==
  ASSUME TypeOK, flash[op.old] \in PebState
  PROVE  RecoveredData \in Content
<1>1. op.arg \in Content /\ op.base \in Content \cup {Unmapped} /\ flash[op.old].data \in Content
    BY DEF TypeOK, Op, PebState
<1>2. Offset \in 0..Len(flash[op.old].data)
    BY <1>1, LenProperties DEF Offset, Content
<1>3. SubSeq(flash[op.old].data, 1, Offset) \in Content
    BY <1>1, <1>2, PrefixIsContent
<1> QED
    BY <1>1, <1>3, ConcatIsContent DEF RecoveredData

\* Un-mapping, appending, and recovering the data of a failing eraseblock.
LEMMA MappedSteps ==
  ASSUME CtlInv,
         \/ \E l \in LEB : UnmapLeb(l)
         \/ \E l \in LEB, c \in Written : AppendLeb(l, c)
         \/ WriteInPlace \/ WriteInPlaceError
         \/ RecoverGetPeb \/ RecoverVidHdr \/ RecoverData \/ RecoverReadError
         \/ RecoverWriteError \/ RecoverRetry \/ RecoverFailed \/ Done
  PROVE  CtlInv'
<1> USE DEF CtlInv
<1>0. /\ op \in Op
      /\ op.arg \in Content
      /\ op.pc \in {"inplace", "rget", "rvid", "rdata", "rretry"} => flash[op.old] \in PebState
      /\ op.pc \in {"rvid", "rdata"} => flash[op.pnum] \in PebState
    BY DEF TypeOK, ControlOK, Op
<1>1. ASSUME NEW l \in LEB, UnmapLeb(l)
      PROVE  CtlInv'
  <2> DEFINE cont == NewOp("unmap", "done", l, <<>>)
  <2>1. cont \in Op /\ cont.pc = "done" /\ cont.lnum = l
      BY NewOpType, EmptyIsContent DEF Pcs
  <2>2. /\ eba_tbl' = [eba_tbl EXCEPT ![l] = NoPeb]
        /\ PutPeb(eba_tbl[l], cont, Idle("err"))
        /\ UNCHANGED <<flash, up, free, global_sqnum, todo, lost, faults>>
        /\ At("idle")
      BY <1>1 DEF UnmapLeb, Ready
  <2>3. PutOK(cont)
      BY <2>2, PutPebType DEF At
  <2> HIDE DEF cont
  <2>4. TypeOK'
      BY <2>1, <2>2, <2>3, IdleType DEF TypeOK, PutOK
  <2>5. ControlOK'
      BY <2>1, <2>2, <2>3, IdleType DEF At, ControlOK, PutOK
  <2> QED
      BY <2>4, <2>5
<1>2. ASSUME NEW l \in LEB, NEW c \in Written, AppendLeb(l, c)
      PROVE  CtlInv'
  <2> DEFINE new == NewOp("append", "inplace", l, c)
  <2>1. new \in Op /\ new.pc = "inplace" /\ new.lnum = l
      BY NewOpType, WrittenIsContent DEF Pcs
  <2>2. /\ eba_tbl[l] \in PEB
        /\ op' = [new EXCEPT !.old = eba_tbl[l]]
        /\ UNCHANGED <<flash, up, ram, work, faults>>
      BY <1>2 DEF AppendLeb, TypeOK
  <2> HIDE DEF new
  <2>3. op' \in Op /\ op'.pc = "inplace" /\ op'.lnum = l /\ op'.old \in PEB
      BY <2>1, <2>2 DEF Op
  <2> QED
      BY <2>2, <2>3 DEF TypeOK, ControlOK, ram
<1>3. CASE WriteInPlace
  <2>1. WithData(flash[op.old], flash[op.old].data \o op.arg) \in PebState
      BY <1>0, <1>3, WithDataType, ConcatIsContent DEF WriteInPlace, At, PebState
  <2>2. flash' \in [PEB -> PebState]
      BY <1>3, <2>1, SetFlashType DEF WriteInPlace
  <2> QED
      BY <1>3, <2>2, IdleType DEF WriteInPlace, Return, At, TypeOK, ControlOK, ram
<1>4. CASE WriteInPlaceError
  <2>1. PICK d \in Partial(op.arg) :
          SetFlash(op.old, WithData(flash[op.old], flash[op.old].data \o d))
      BY <1>4 DEF WriteInPlaceError
  <2>2. WithData(flash[op.old], flash[op.old].data \o d) \in PebState
    <3>1. d \in Content /\ flash[op.old].data \in Content
        BY <1>0, <1>4, PartialIsContent DEF WriteInPlaceError, At, PebState
    <3> QED
        BY <1>0, <1>4, <3>1, WithDataType, ConcatIsContent DEF WriteInPlaceError, At
  <2>3. flash' \in [PEB -> PebState]
      BY <2>1, <2>2, SetFlashType
  <2>4. op' = [op EXCEPT !.pc = "rget"] /\ At("inplace") /\ faults' = faults + 1
        /\ UNCHANGED <<up, ram, work>>
      BY <1>4 DEF WriteInPlaceError, Goto, Fault
  <2>5. op' \in Op /\ op'.pc = "rget" /\ op'.lnum = op.lnum /\ op'.old = op.old
      BY <1>0, <2>4 DEF Op, Pcs
  <2> QED
      BY <2>3, <2>4, <2>5 DEF At, TypeOK, ControlOK, ram
<1>5. CASE RecoverGetPeb
  <2>1. At("rget") /\ UNCHANGED <<flash, up, eba_tbl, todo, lost, faults>>
      BY <1>5 DEF RecoverGetPeb
  <2>2. CASE free = {}
      BY <1>5, <2>1, <2>2, IdleType DEF RecoverGetPeb, Return, At, TypeOK, ControlOK
  <2>3. CASE free # {}
    <3>1. PICK p \in free :
            /\ free' = free \ {p}
            /\ ro_mode' = ro_mode
            /\ \/ /\ used' = used \cup {p}
                  /\ global_sqnum' = global_sqnum + 1
                  /\ op' = [op EXCEPT !.pc = "rvid", !.pnum = p, !.sqnum = global_sqnum]
                  /\ work' = work
               \/ /\ op' = [op EXCEPT !.pc = "rfail"]
                  /\ work' = Erase(p) /\ UNCHANGED <<used, global_sqnum>>
        BY <1>5, <2>3 DEF RecoverGetPeb, Goto
    <3>2. p \in PEB /\ global_sqnum \in Nat /\ used \subseteq PEB /\ free \subseteq PEB
        BY DEF TypeOK
    <3>3. /\ op' \in Op /\ op'.lnum = op.lnum /\ op'.old = op.old
          /\ (op'.pc = "rvid" /\ op'.pnum = p) \/ op'.pc = "rfail"
        BY <1>0, <3>1, <3>2 DEF Op, Pcs
    <3>4. /\ used' \subseteq PEB /\ free' \subseteq PEB /\ global_sqnum' \in Nat
          /\ work' = work \/ work' = Erase(p)
        BY <3>1, <3>2
    <3>5. TypeOK'
        BY <2>1, <3>1, <3>2, <3>3, <3>4, WorkType DEF TypeOK
    <3>6. ControlOK'
        BY <2>1, <3>2, <3>3, <3>4, WorkType DEF At, ControlOK
    <3> QED
        BY <3>5, <3>6
  <2> QED
      BY <2>2, <2>3
<1>6. CASE RecoverVidHdr
  <2>1. RecoveredHdr \in PebState
      BY <1>0, <1>6, EmptyIsContent DEF RecoveredHdr, RecoverVidHdr, At, PebState, Op
  <2>2. flash' \in [PEB -> PebState]
      BY <1>6, <2>1, SetFlashType DEF RecoverVidHdr
  <2>3. At("rvid") /\ op' = [op EXCEPT !.pc = "rdata"] /\ UNCHANGED <<up, ram, work, faults>>
      BY <1>6 DEF RecoverVidHdr, Goto
  <2>4. op' \in Op /\ op'.pc = "rdata" /\ op'.lnum = op.lnum /\ op'.old = op.old /\ op'.pnum = op.pnum
      BY <1>0, <2>3 DEF Op, Pcs
  <2> QED
      BY <2>2, <2>3, <2>4 DEF At, TypeOK, ControlOK, ram
<1>7. CASE RecoverData
  <2>1. WithData(flash[op.pnum], RecoveredData) \in PebState
      BY <1>0, <1>7, RecoveredDataType, WithDataType DEF RecoverData, At
  <2>2. flash' \in [PEB -> PebState]
      BY <1>7, <2>1, SetFlashType DEF RecoverData
  <2> DEFINE cont == [op EXCEPT !.pc = "done"]
  <2>3. /\ At("rdata") /\ UNCHANGED <<up, free, global_sqnum, todo, lost, faults>>
        /\ PutPeb(op.old, cont, Idle("ok"))
        /\ eba_tbl' = [eba_tbl EXCEPT ![op.lnum] = op.pnum]
      BY <1>7 DEF RecoverData
  <2>4. cont \in Op /\ cont.pc = "done" /\ cont.lnum = op.lnum
      BY <1>0 DEF Op, Pcs
  <2>5. PutOK(cont)
      BY <2>3, PutPebType DEF At
  <2> HIDE DEF cont
  <2>6. TypeOK'
      BY <2>2, <2>3, <2>4, <2>5, IdleType DEF TypeOK, ControlOK, At, PutOK
  <2>7. ControlOK'
      BY <2>3, <2>4, <2>5, IdleType DEF ControlOK, At, PutOK
  <2> QED
      BY <2>6, <2>7
<1>8. CASE RecoverReadError
  <2> DEFINE cont == [op EXCEPT !.pc = "rfail"]
  <2>1. /\ At("rdata") /\ UNCHANGED <<flash, up, eba_tbl, free, global_sqnum, todo, lost, faults>>
        /\ PutPeb(op.pnum, cont, Idle("err"))
      BY <1>8 DEF RecoverReadError
  <2>2. cont \in Op /\ cont.pc = "rfail" /\ cont.lnum = op.lnum
      BY <1>0 DEF Op, Pcs
  <2>3. PutOK(cont)
      BY <2>1, PutPebType DEF At
  <2> HIDE DEF cont
  <2>4. TypeOK'
      BY <2>1, <2>2, <2>3, IdleType DEF TypeOK, PutOK
  <2>5. ControlOK'
      BY <2>1, <2>2, <2>3, IdleType DEF ControlOK, At, PutOK
  <2> QED
      BY <2>4, <2>5
<1>9. CASE RecoverWriteError
  <2>1. At("rvid") \/ At("rdata")
      BY <1>9 DEF RecoverWriteError
  <2>2. faults' \in Nat
      BY <1>9 DEF RecoverWriteError, Fault, TypeOK
  <2>3. flash' \in [PEB -> PebState]
    <3>1. CASE UNCHANGED flash
        BY <3>1 DEF TypeOK
    <3>2. CASE \E r \in {flash[op.pnum], Blank("corr"), RecoveredHdr} : SetFlash(op.pnum, r)
      <4>1. RecoveredHdr \in PebState
          BY <1>0, <2>1, EmptyIsContent DEF RecoveredHdr, At, PebState, Op
      <4> QED
          BY <1>0, <2>1, <3>2, <4>1, BlankType, SetFlashType DEF At
    <3>3. CASE \E d \in Partial(RecoveredData) : SetFlash(op.pnum, WithData(flash[op.pnum], d))
      <4>1. \A d \in Partial(RecoveredData) : WithData(flash[op.pnum], d) \in PebState
          BY <1>0, <2>1, RecoveredDataType, PartialIsContent, WithDataType DEF At
      <4> QED
          BY <3>3, <4>1, SetFlashType
    <3> QED
        BY <1>9, <3>1, <3>2, <3>3 DEF RecoverWriteError
  <2> DEFINE cont == [op EXCEPT !.pc = "rretry"]
  <2>4. PutPeb(op.pnum, cont, cont) /\ UNCHANGED <<up, eba_tbl, free, global_sqnum, todo, lost>>
      BY <1>9 DEF RecoverWriteError
  <2>5. cont \in Op /\ cont.pc = "rretry" /\ cont.lnum = op.lnum /\ cont.old = op.old
      BY <1>0 DEF Op, Pcs
  <2>6. PutOK(cont)
      BY <2>1, <2>4, PutPebType DEF At
  <2> HIDE DEF cont
  <2>7. TypeOK'
      BY <2>2, <2>3, <2>4, <2>5, <2>6, IdleType DEF TypeOK, PutOK
  <2>8. ControlOK'
      BY <2>1, <2>4, <2>5, <2>6, IdleType DEF ControlOK, At, PutOK
  <2> QED
      BY <2>7, <2>8
<1>10. CASE RecoverRetry
  <2>1. /\ At("rretry")
        /\ UNCHANGED <<flash, up, eba_tbl, free, used, global_sqnum, todo, lost, work, faults>>
        /\ \/ ro_mode' = TRUE /\ op' = Idle("err")
           \/ ro_mode' = ro_mode /\ op' = [op EXCEPT !.pc = "rget", !.tries = op.tries + 1]
      BY <1>10 DEF RecoverRetry, Return
  <2>2. CASE op' = Idle("err")
      BY <2>1, <2>2, IdleType DEF At, TypeOK, ControlOK
  <2>3. CASE op' # Idle("err")
    <3>1. op.tries + 1 \in Nat
        BY <1>0 DEF Op
    <3>2. op' \in Op /\ op'.pc = "rget" /\ op'.lnum = op.lnum /\ op'.old = op.old
        BY <1>0, <2>1, <2>3, <3>1 DEF Op, Pcs
    <3> QED
        BY <2>1, <3>2 DEF At, TypeOK, ControlOK
  <2> QED
      BY <2>2, <2>3
<1>11. CASE RecoverFailed
    BY <1>11, IdleType DEF RecoverFailed, Return, At, TypeOK, ControlOK
<1>12. CASE Done
    BY <1>12, IdleType DEF Done, Return, At, TypeOK, ControlOK, ram
<1> QED
    BY <1>1, <1>2, <1>3, <1>4, <1>5, <1>6, <1>7, <1>8, <1>9, <1>10, <1>11, <1>12

\* Starting a move, or not.
LEMMA EnsureWearLevelingType ==
  ASSUME NEW fr \in SUBSET PEB, NEW us \in SUBSET PEB, EnsureWearLeveling(fr, us)
  PROVE  /\ free' \subseteq PEB /\ used' \subseteq PEB
         /\ work' \in Work
         /\ work'.k # "none" => work'.from \in PEB /\ work'.to \in PEB
<1>1. CASE work' = NoWork /\ free' = fr /\ used' = us
    BY <1>1, WorkType
<1>2. CASE \E e1 \in us, e2 \in fr : /\ work' = Move(e1, e2)
                                     /\ free' = fr \ {e2} /\ used' = us \ {e1}
    BY <1>2, WorkType
<1> QED
    BY <1>1, <1>2 DEF EnsureWearLeveling

\* The header of a copy.
LEMMA CopyHdrType ==
  ASSUME TypeOK, Src \in PebState
  PROVE  CopyHdr \in PebState /\ CopyHdr.sqnum = global_sqnum
<1>1. CASE Src.data = <<>>
    BY <1>1 DEF CopyHdr, TypeOK, PebState
<1>2. CASE Src.data # <<>>
  <2>1. Src.lnum \in LEB \cup {NoLeb} /\ Src.data \in Content /\ global_sqnum \in Nat
      BY DEF TypeOK, PebState
  <2> QED
      BY <1>2, <2>1, VidHdrType DEF CopyHdr
<1> QED
    BY <1>1, <1>2

\* The end of a move: one of its eraseblocks is erased.
MoveEndOK == /\ used' \subseteq PEB
              /\ work' \in Work /\ work'.k = "erase" /\ work'.from \in PEB

\* How a move ends: one of its two eraseblocks is kept, the other one is erased.
LEMMA MoveEndType ==
  ASSUME CtlInv, work.k \in {"mvid", "mdata"}, NotMoved \/ Moved
  PROVE  MoveEndOK
<1>1. work.from \in PEB /\ work.to \in PEB /\ used \subseteq PEB
    BY DEF CtlInv, TypeOK, ControlOK
<1> QED
    BY <1>1, WorkType DEF NotMoved, Moved, MoveEndOK

\* Erasures and moves.
LEMMA WlSteps ==
  ASSUME CtlInv, WlStep
  PROVE  CtlInv'
<1> USE DEF CtlInv
<1>0. /\ work.k # "none" => Src \in PebState /\ Src.data \in Content /\ up = "up"
      /\ work.k \in {"mvid", "mdata"} => flash[work.to] \in PebState
    BY WorkType DEF TypeOK, ControlOK, Src, PebState
<1>1. CASE EraseWorker
  <2>1. flash' \in [PEB -> PebState]
      BY <1>1, BlankType, SetFlashType DEF EraseWorker
  <2>2. UNCHANGED <<up, eba_tbl, global_sqnum, ro_mode, todo, lost, op, faults>> /\ up = "up"
        /\ work.from \in PEB
      BY <1>0, <1>1 DEF EraseWorker, ControlOK
  <2>3. free \in SUBSET PEB /\ used \in SUBSET PEB /\ free \cup {work.from} \in SUBSET PEB
      BY <2>2 DEF TypeOK
  <2>4. /\ free' \subseteq PEB /\ used' \subseteq PEB
        /\ work' \in Work
        /\ work'.k # "none" => work'.from \in PEB /\ work'.to \in PEB
    <3>1. CASE op.pc = "attach"
        BY <1>1, <2>3, <3>1, WorkType DEF EraseWorker
    <3>2. CASE op.pc # "attach"
        BY <1>1, <2>3, <3>2, EnsureWearLevelingType DEF EraseWorker
    <3> QED
        BY <3>1, <3>2
  <2>5. TypeOK'
      BY <2>1, <2>2, <2>4 DEF TypeOK
  <2>6. ControlOK'
      BY <2>2, <2>4 DEF ControlOK
  <2> QED
      BY <2>5, <2>6
<1>2. CASE EraseError
  <2>1. flash' \in [PEB -> PebState]
      BY <1>0, <1>2, BlankType, HalfErasedType, SetFlashType DEF EraseError, Src
  <2>2. ro_mode' \in BOOLEAN
      BY <1>2 DEF EraseError, TypeOK
  <2> QED
      BY <1>2, <2>1, <2>2, WorkType DEF EraseError, Fault, TypeOK, ControlOK
<1>3. CASE EraseRefused
    BY <1>3, WorkType DEF EraseRefused, TypeOK, ControlOK, ram
<1>4. CASE MoveCancelled
  <2>1. MoveEndOK
      BY <1>4, MoveEndType DEF MoveCancelled
  <2>2. UNCHANGED <<flash, up, eba_tbl, free, global_sqnum, ro_mode, todo, lost, op, faults>> /\ up = "up"
      BY <1>0, <1>4 DEF MoveCancelled
  <2> QED
      BY <2>1, <2>2 DEF MoveEndOK, TypeOK, ControlOK
<1>5. CASE MoveVidHdr
  <2>1. CopyHdr \in PebState
      BY <1>0, <1>5, CopyHdrType DEF MoveVidHdr
  <2>2. flash' \in [PEB -> PebState]
      BY <1>5, <2>1, SetFlashType DEF MoveVidHdr
  <2>3. /\ global_sqnum' = global_sqnum + 1 /\ work.k = "mvid" /\ up = "up"
        /\ UNCHANGED <<up, free, ro_mode, todo, lost, op, faults>>
      BY <1>0, <1>5 DEF MoveVidHdr
  <2>4. CASE Src.data = <<>>
    <3>1. MoveEndOK
        BY <1>5, <2>3, <2>4, MoveEndType DEF MoveVidHdr
    <3>2. eba_tbl' \in [LEB -> PEB \cup {NoPeb}]
        BY <1>5, <2>4 DEF MoveVidHdr, TypeOK, ControlOK
    <3> QED
        BY <2>2, <2>3, <3>1, <3>2 DEF MoveEndOK, TypeOK, ControlOK
  <2>5. CASE Src.data # <<>>
    <3>1. UNCHANGED <<eba_tbl, used>> /\ work' = [work EXCEPT !.k = "mdata"]
        BY <1>5, <2>5 DEF MoveVidHdr
    <3>2. work' \in Work /\ work'.k = "mdata" /\ work'.from = work.from /\ work'.to = work.to
        BY <3>1 DEF TypeOK, Work
    <3> QED
        BY <2>2, <2>3, <3>1, <3>2 DEF TypeOK, ControlOK
  <2> QED
      BY <2>4, <2>5
<1>6. CASE MoveData
  <2>1. WithData(flash[work.to], Src.data) \in PebState
      BY <1>0, <1>6, WithDataType DEF MoveData
  <2>2. flash' \in [PEB -> PebState]
      BY <1>6, <2>1, SetFlashType DEF MoveData
  <2>3. /\ work.k = "mdata" /\ up = "up"
        /\ UNCHANGED <<up, free, global_sqnum, ro_mode, todo, lost, op, faults>>
      BY <1>0, <1>6 DEF MoveData
  <2>4. MoveEndOK
      BY <1>6, <2>3, MoveEndType DEF MoveData
  <2>5. eba_tbl' \in [LEB -> PEB \cup {NoPeb}]
      BY <1>6 DEF MoveData, TypeOK, ControlOK
  <2> QED
      BY <2>2, <2>3, <2>4, <2>5 DEF MoveEndOK, TypeOK, ControlOK
<1>7. CASE MoveBitflip
  <2>1. /\ work.k \in {"mvid", "mdata"} /\ up = "up" /\ faults' = faults + 1
        /\ UNCHANGED <<up, eba_tbl, free, ro_mode, todo, lost, op>>
      BY <1>0, <1>7 DEF MoveBitflip, Fault
  <2>2. global_sqnum' \in Nat
      BY <1>7 DEF MoveBitflip, TypeOK
  <2>3. CopyHdr \in PebState /\ WithData(flash[work.to], Src.data) \in PebState
      BY <1>0, <2>1, CopyHdrType, WithDataType
  <2>4. flash' \in [PEB -> PebState]
      BY <1>7, <2>3, SetFlashType DEF MoveBitflip
  <2>5. MoveEndOK
      BY <1>7, <2>1, MoveEndType DEF MoveBitflip
  <2> QED
      BY <2>1, <2>2, <2>4, <2>5 DEF MoveEndOK, TypeOK, ControlOK
<1>8. CASE MoveMismatch
  <2>1. /\ work.k = "mdata" /\ up = "up" /\ faults' = faults + 1
        /\ UNCHANGED <<up, eba_tbl, free, global_sqnum, ro_mode, todo, lost, op>>
      BY <1>0, <1>8 DEF MoveMismatch, Fault
  <2>2. \A d \in Written : WithData(flash[work.to], d) \in PebState
      BY <1>0, <2>1, WrittenIsContent, WithDataType
  <2>3. flash' \in [PEB -> PebState]
      BY <1>8, <2>2, SetFlashType DEF MoveMismatch
  <2>4. MoveEndOK
      BY <1>8, <2>1, MoveEndType DEF MoveMismatch
  <2> QED
      BY <2>1, <2>3, <2>4 DEF MoveEndOK, TypeOK, ControlOK
<1>9. CASE MoveWriteError
  <2>1. /\ work.k \in {"mvid", "mdata"} /\ up = "up" /\ faults' = faults + 1
        /\ ro_mode' = TRUE /\ work' = NoWork
        /\ UNCHANGED <<up, eba_tbl, free, used, todo, lost, op>>
      BY <1>0, <1>9 DEF MoveWriteError, MoveFailed, Fault
  <2>2. global_sqnum' \in Nat
      BY <1>9 DEF MoveWriteError, TypeOK
  <2>3. \A r \in {flash[work.to], Blank("corr"), CopyHdr} : r \in PebState
      BY <1>0, <2>1, CopyHdrType, BlankType
  <2>4. \A d \in Partial(Src.data) : WithData(flash[work.to], d) \in PebState
      BY <1>0, <2>1, PartialIsContent, WithDataType
  <2>5. flash' \in [PEB -> PebState]
      BY <1>9, <2>3, <2>4, SetFlashType DEF MoveWriteError
  <2> QED
      BY <2>1, <2>2, <2>5, WorkType DEF TypeOK, ControlOK
<1>10. CASE MoveReadError
    BY <1>10, WorkType DEF MoveReadError, MoveFailed, TypeOK, ControlOK
<1>11. ASSUME NEW l \in LEB, ScrubLeb(l)
       PROVE  CtlInv'
  <2>1. PICK e1 \in used, e2 \in free : /\ work' = Move(e1, e2)
                                         /\ free' = free \ {e2} /\ used' = used \ {e1}
      BY <1>11 DEF ScrubLeb
  <2>2. /\ up = "up"
        /\ UNCHANGED <<flash, up, eba_tbl, global_sqnum, ro_mode, todo, lost, op, faults>>
      BY <1>11 DEF ScrubLeb, Ready, At
  <2>3. e1 \in PEB /\ e2 \in PEB
      BY DEF TypeOK
  <2> QED
      BY <2>1, <2>2, <2>3, WorkType DEF TypeOK, ControlOK
<1>12. CASE MoveBadHdr
  <2>1. /\ work.k = "mvid" /\ up = "up" /\ faults' = faults + 1
        /\ work' = NoWork /\ global_sqnum' = global_sqnum + 1
        /\ used' = used \cup {work.from, work.to} /\ lost' = lost \cup {work.to}
        /\ UNCHANGED <<up, eba_tbl, free, ro_mode, todo, op>>
      BY <1>0, <1>12 DEF MoveBadHdr, Fault
  <2>2. \A r \in {flash[work.to], Blank("corr")} : r \in PebState
      BY <1>0, <2>1, BlankType
  <2>3. flash' \in [PEB -> PebState]
      BY <1>12, <2>2, SetFlashType DEF MoveBadHdr
  <2>4. used' \subseteq PEB /\ lost' \subseteq PEB
      BY <2>1 DEF TypeOK, ControlOK
  <2> QED
      BY <2>1, <2>3, <2>4, WorkType DEF TypeOK, ControlOK
<1> QED
    BY <1>1, <1>2, <1>3, <1>4, <1>5, <1>6, <1>7, <1>8, <1>9, <1>10, <1>11, <1>12 DEF WlStep

\* A flash operation that power interrupts writes no VID header.
LEMMA InterruptedType ==
  ASSUME CtlInv, up = "up", NEW i \in Interrupted
  PROVE  /\ i[1] \in PEB /\ i[2] \in PebState
         /\ i[2].st = "used" => /\ flash[i[1]].st = "used" /\ i[2].sqnum = flash[i[1]].sqnum
                                /\ i[2].lnum = flash[i[1]].lnum
<1> DEFINE Kept(p, r) == /\ p \in PEB /\ r \in PebState
                         /\ r.st = "used" => /\ flash[p].st = "used" /\ r.sqnum = flash[p].sqnum
                                            /\ r.lnum = flash[p].lnum
<1>0. /\ op \in Op /\ op.arg \in Content
      /\ work.k # "none" => work.from \in PEB /\ Src \in PebState /\ Src.data \in Content
      /\ work.k \in {"mvid", "mdata"} => work.to \in PEB /\ flash[work.to] \in PebState
      /\ op.pc \in {"vid", "data", "rvid", "rdata"} => op.pnum \in PEB /\ flash[op.pnum] \in PebState
      /\ op.pc \in {"inplace", "rdata"} => op.old \in PEB /\ flash[op.old] \in PebState
    BY DEF CtlInv, TypeOK, ControlOK, Src, PebState, Op
<1>a. work.k # "none" =>
        ~At("vid") /\ ~At("rvid") /\ ~At("data") /\ ~At("inplace") /\ ~At("rdata")
    BY WorkType DEF At
<1>1. CASE work.k = "erase"
  <2>1. \A h \in HalfErased(Src) : Kept(work.from, h)
      BY <1>0, <1>1, HalfErasedType DEF Src
  <2>2. PICK h \in HalfErased(Src) : i = <<work.from, h>>
      BY <1>1, <1>a DEF Interrupted, Src
  <2> QED
      BY <2>1, <2>2
<1>2. CASE work.k = "mvid"
  <2>1. i \in {<<work.to, Blank("corr")>>}
      BY <1>2, <1>a DEF Interrupted
  <2> QED
      BY <1>0, <1>2, <2>1, BlankType
<1>3. CASE work.k = "mdata"
  <2>1. PICK d \in Partial(Src.data) : i = <<work.to, WithData(flash[work.to], d)>>
      BY <1>3, <1>a DEF Interrupted
  <2> QED
      BY <1>0, <1>3, <2>1, PartialIsContent, WithDataType
<1>4. CASE work = NoWork /\ op.pc \in {"vid", "rvid"}
  <2>1. i \in {<<op.pnum, Blank("corr")>>}
      BY <1>4, WorkType DEF Interrupted, At
  <2> QED
      BY <1>0, <1>4, <2>1, BlankType
<1>5. CASE work = NoWork /\ op.pc = "data"
  <2>1. PICK d \in Partial(op.arg) : i = <<op.pnum, WithData(flash[op.pnum], d)>>
      BY <1>5, WorkType DEF Interrupted, At, DataLeft
  <2> QED
      BY <1>0, <1>5, <2>1, PartialIsContent, WithDataType
<1>6. CASE work = NoWork /\ op.pc = "inplace"
  <2>1. PICK d \in Partial(op.arg) :
          i = <<op.old, WithData(flash[op.old], flash[op.old].data \o d)>>
      BY <1>6, WorkType DEF Interrupted, At
  <2>2. flash[op.old].data \o d \in Content
    <3>1. d \in Content /\ flash[op.old].data \in Content
        BY <1>0, <1>6, PartialIsContent DEF PebState
    <3> QED
        BY <3>1, ConcatIsContent
  <2> QED
      BY <1>0, <1>6, <2>1, <2>2, WithDataType
<1>7. CASE work = NoWork /\ op.pc = "rdata"
  <2>1. PICK d \in Partial(RecoveredData) : i = <<op.pnum, WithData(flash[op.pnum], d)>>
      BY <1>7, WorkType DEF Interrupted, At
  <2>2. d \in Content
      BY <1>0, <1>7, RecoveredDataType, PartialIsContent DEF CtlInv
  <2> QED
      BY <1>0, <1>7, <2>1, <2>2, WithDataType
<1>8. CASE /\ work.k = "none"
           /\ work = NoWork => op.pc \notin {"vid", "rvid", "data", "inplace", "rdata"}
    BY <1>8 DEF Interrupted, At
<1>9. work.k \in {"none", "erase", "mvid", "mdata"}
    BY DEF CtlInv, TypeOK, Work
<1> QED
    BY <1>1, <1>2, <1>3, <1>4, <1>5, <1>6, <1>7, <1>8, <1>9

\* Losing power and attaching again.
LEMMA PowerSteps ==
  ASSUME CtlInv, PowerStep
  PROVE  CtlInv'
<1> USE DEF CtlInv
<1>1. ASSUME LoseRam, flash' \in [PEB -> PebState]
      PROVE  CtlInv'
    BY <1>1, IdleType, WorkType DEF LoseRam, Return, TypeOK, ControlOK
<1>2. CASE PowerOff
    BY <1>1, <1>2 DEF PowerOff, TypeOK
<1>3. CASE PowerCut
  <2>1. flash' \in [PEB -> PebState]
    <3>1. CASE flash' = flash
        BY <3>1 DEF TypeOK
    <3>2. CASE \E i \in Interrupted : SetFlash(i[1], i[2])
        BY <1>3, <3>2, InterruptedType, SetFlashType DEF PowerCut
    <3> QED
        BY <1>3, <3>1, <3>2 DEF PowerCut
  <2> QED
      BY <1>1, <1>3, <2>1 DEF PowerCut
<1>4. CASE Attach
  <2>1. eba_tbl' \in [LEB -> PEB \cup {NoPeb}]
      BY <1>4 DEF Attach, ScanTbl
  <2>2. free' \subseteq PEB /\ used' \subseteq PEB /\ todo' \subseteq PEB
      BY <1>4 DEF Attach
  <2>3. global_sqnum' \in Nat
    <3>1. \A p \in PEB : flash[p].sqnum + 1 \in Nat
        BY DEF TypeOK, PebState
    <3>2. global_sqnum' \in {1} \cup {flash[p].sqnum + 1 : p \in PEB}
        BY <1>4 DEF Attach
    <3> QED
        BY <3>1, <3>2
  <2>4. op' \in Op /\ op'.pc = "attach"
      BY <1>4, EmptyIsContent DEF Attach, Idle, Op, Pcs
  <2>5. up' = "up" /\ work = NoWork /\ UNCHANGED <<flash, ro_mode, lost, work, faults>>
      BY <1>4 DEF Attach, ControlOK
  <2> QED
      BY <2>1, <2>2, <2>3, <2>4, <2>5, WorkType DEF TypeOK, ControlOK
<1>5. CASE AttachError
    BY <1>5 DEF AttachError, TypeOK, ControlOK, ram
<1>6. CASE AttachErase
    BY <1>6, WorkType DEF AttachErase, At, TypeOK, ControlOK
<1>7. CASE AttachDone
  <2>1. free \in SUBSET PEB /\ used \in SUBSET PEB
      BY DEF TypeOK
  <2>2. /\ free' \subseteq PEB /\ used' \subseteq PEB
        /\ work' \in Work
        /\ work'.k # "none" => work'.from \in PEB /\ work'.to \in PEB
      BY <1>7, <2>1, EnsureWearLevelingType DEF AttachDone
  <2>3. /\ op' = Idle("none") /\ up = "up"
        /\ UNCHANGED <<flash, up, eba_tbl, global_sqnum, ro_mode, todo, lost, faults>>
      BY <1>7 DEF AttachDone, Return, At
  <2> QED
      BY <2>2, <2>3, IdleType DEF TypeOK, ControlOK
<1> QED
    BY <1>2, <1>3, <1>4, <1>5, <1>6, <1>7 DEF PowerStep

\* Every step keeps the types and the control invariant.
LEMMA StepKeepsTypes == CtlInv /\ [Next]_vars => CtlInv'
<1> SUFFICES ASSUME CtlInv, [Next]_vars
             PROVE  CtlInv'
    OBVIOUS
<1>1. CASE EbaStep
    BY <1>1, WriteSteps, MappedSteps DEF EbaStep
<1>2. CASE WlStep
    BY <1>2, WlSteps
<1>3. CASE PowerStep
    BY <1>3, PowerSteps
<1>4. CASE UNCHANGED vars
    BY <1>4 DEF vars, ram, CtlInv, TypeOK, ControlOK
<1> QED
    BY <1>1, <1>2, <1>3, <1>4 DEF Next

\* The initial states.
LEMMA InitTypes == Init => CtlInv
<1> SUFFICES ASSUME Init
             PROVE  CtlInv
    OBVIOUS
<1>1. flash \in [PEB -> PebState] /\ eba_tbl \in [LEB -> PEB \cup {NoPeb}]
    BY BlankType DEF Init
<1>2. op \in Op /\ op.pc = "idle" /\ work = NoWork /\ work \in Work /\ work.k = "none"
    BY IdleType, WorkType DEF Init
<1>3. TypeOK
    BY <1>1, <1>2 DEF Init, TypeOK
<1>4. ControlOK
    BY <1>2 DEF Init, ControlOK
<1> QED
    BY <1>3, <1>4 DEF CtlInv

\* Type correctness of the UBI model: what eba.c, wl.c and scan.c keep in RAM and
\* put on the flash has the types they rely on, and an operation that goes on after
\* a failed write, an erasure or a move still holds the eraseblocks it needs.
THEOREM TypeCorrect == Spec => []TypeOK
<1>1. Spec => []CtlInv
    BY InitTypes, StepKeepsTypes, PTL DEF Spec
<1>2. CtlInv => TypeOK
    BY DEF CtlInv
<1> QED
    BY <1>1, <1>2, PTL

-----------------------------------------------------------------------------
(* Sequence numbers.                                                        *)

SqInv == SqnumFresh /\ SqnumUnique

\* No VID header is written: every one on the flash was there before.
KeepsNumbers ==
  \A p \in PEB : flash'[p].st = "used" =>
    flash[p].st = "used" /\ flash'[p].sqnum = flash[p].sqnum

\* The number for a header to be written stays, or is taken from the counter.
OpNumber ==
  op'.pc \in {"vid", "rvid"} =>
    \/ op.pc \in {"vid", "rvid"} /\ op'.sqnum = op.sqnum /\ global_sqnum' >= global_sqnum
    \/ up = "up" /\ op'.sqnum = global_sqnum /\ global_sqnum' = global_sqnum + 1

\* Writing one eraseblock with the header it had, or none, keeps the numbers.
LEMMA SetKeeps ==
  ASSUME TypeOK, NEW x, NEW r, SetFlash(x, r),
         r.st = "used" => flash[x].st = "used" /\ r.sqnum = flash[x].sqnum
  PROVE  KeepsNumbers
  BY DEF SetFlash, KeepsNumbers, TypeOK

\* A step that writes no VID header.
LEMMA KeepStep ==
  ASSUME TypeOK, TypeOK', SqInv, KeepsNumbers, OpNumber,
         up' = "up" => up = "up" /\ global_sqnum' >= global_sqnum
  PROVE  SqInv'
<1>1. /\ \A p \in PEB : flash[p].sqnum \in Nat /\ flash'[p].sqnum \in Nat
      /\ op.sqnum \in Nat /\ op'.sqnum \in Nat
      /\ global_sqnum \in Nat /\ global_sqnum' \in Nat
    BY DEF TypeOK, PebState, Op
<1>2. SqnumUnique'
    BY DEF SqInv, SqnumUnique, KeepsNumbers
<1>3. up' = "up" => \A p \in PEB : flash'[p].st = "used" => flash'[p].sqnum < global_sqnum'
    BY <1>1 DEF SqInv, SqnumFresh, KeepsNumbers
<1>4. op'.pc \in {"vid", "rvid"} =>
        /\ op'.sqnum < global_sqnum'
        /\ \A p \in PEB : flash'[p].st = "used" => flash'[p].sqnum # op'.sqnum
    BY <1>1 DEF SqInv, SqnumFresh, KeepsNumbers, OpNumber
<1> QED
    BY <1>2, <1>3, <1>4 DEF SqInv, SqnumFresh

\* A step that writes one VID header, with a number that is on no eraseblock.
LEMMA WriteStep ==
  ASSUME TypeOK, TypeOK', SqInv, up = "up",
         NEW x, NEW r, SetFlash(x, r), NEW s \in Nat,
         r.st = "used" => r.sqnum = s \/ (flash[x].st = "used" /\ r.sqnum = flash[x].sqnum),
         \A p \in PEB : flash[p].st = "used" => flash[p].sqnum # s,
         s < global_sqnum', global_sqnum <= global_sqnum',
         op'.pc \in {"vid", "rvid"} => op' = op /\ s # op.sqnum
  PROVE  SqInv'
<1>1. /\ \A p \in PEB : flash[p].sqnum \in Nat /\ flash'[p].sqnum \in Nat
      /\ op.sqnum \in Nat /\ op'.sqnum \in Nat
      /\ global_sqnum \in Nat /\ global_sqnum' \in Nat
    BY DEF TypeOK, PebState, Op
<1>2. \A p \in PEB : flash'[p].st = "used" =>
        \/ p = x /\ flash'[p].sqnum = s
        \/ flash[p].st = "used" /\ flash'[p].sqnum = flash[p].sqnum
    BY DEF SetFlash, TypeOK
<1>3. SqnumUnique'
    BY <1>2 DEF SqInv, SqnumUnique
<1>4. \A p \in PEB : flash'[p].st = "used" => flash'[p].sqnum < global_sqnum'
    BY <1>1, <1>2 DEF SqInv, SqnumFresh
<1>5. op'.pc \in {"vid", "rvid"} =>
        /\ op'.sqnum < global_sqnum'
        /\ \A p \in PEB : flash'[p].st = "used" => flash'[p].sqnum # op'.sqnum
    BY <1>1, <1>2 DEF SqInv, SqnumFresh
<1> QED
    BY <1>3, <1>4, <1>5 DEF SqInv, SqnumFresh

\* Writes, and recovery: four steps write a header with the number the operation
\* has held since it took the eraseblock.
LEMMA EbaKeepsNumbers ==
  ASSUME CtlInv, CtlInv', SqInv, EbaStep
  PROVE  SqInv'
<1> USE DEF CtlInv
<1>0. /\ op \in Op /\ op.sqnum \in Nat /\ op.arg \in Content /\ global_sqnum \in Nat
      /\ \A p \in PEB : flash[p] \in PebState
    BY DEF TypeOK, Op
<1>1. ASSUME At("vid") \/ At("rvid"), NEW r, SetFlash(op.pnum, r),
             \/ r.st = "used" => r.sqnum = op.sqnum
             \/ r = flash[op.pnum],
             UNCHANGED global_sqnum, op'.pc \notin {"vid", "rvid"}
      PROVE  SqInv'
  <2>1. /\ \A p \in PEB : flash[p].st = "used" => flash[p].sqnum # op.sqnum
        /\ op.sqnum < global_sqnum /\ up = "up"
      BY <1>1 DEF At, SqInv, SqnumFresh
  <2> QED
      BY <1>0, <1>1, <2>1, WriteStep
<1>2. ASSUME KeepsNumbers, UNCHANGED global_sqnum, op'.pc \notin {"vid", "rvid"}, up' = up
      PROVE  SqInv'
    BY <1>0, <1>2, KeepStep DEF OpNumber
<1>3. ASSUME UNCHANGED <<flash, up>>, OpNumber, global_sqnum' >= global_sqnum
      PROVE  SqInv'
    BY <1>0, <1>3, KeepStep DEF KeepsNumbers
<1>4. \A ret \in {"none", "ok", "err"} : Idle(ret).pc = "idle"
    BY IdleType
<1>5. \A next \in Op : up = "up" /\ GetPeb(next) => OpNumber /\ global_sqnum' >= global_sqnum
  <2> SUFFICES ASSUME NEW next \in Op, up = "up", GetPeb(next)
               PROVE  OpNumber /\ global_sqnum' >= global_sqnum
      OBVIOUS
  <2>1. global_sqnum' = global_sqnum + 1
      BY Zenon DEF GetPeb
  <2>2. CASE free = {}
      BY <1>0, <1>4, <2>1, <2>2 DEF GetPeb, Return, OpNumber
  <2>3. CASE free # {}
    <3>1. PICK p \in free : op' = [next EXCEPT !.pnum = p, !.sqnum = global_sqnum]
        BY <2>3 DEF GetPeb
    <3>2. op'.sqnum = global_sqnum
        BY <3>1 DEF Op
    <3> QED
        BY <1>0, <2>1, <3>2 DEF OpNumber
  <2> QED
      BY <2>2, <2>3
<1>6. ASSUME NEW p, NEW cont \in Op, NEW failed \in {cont, Idle("err"), Idle("ok")},
             PutPeb(p, cont, failed), cont.pc \notin {"vid", "rvid"}
      PROVE  op'.pc \notin {"vid", "rvid"}
    BY <1>4, <1>6 DEF PutPeb
<1>7. ASSUME NEW pc \in Pcs
      PROVE  [op EXCEPT !.pc = pc] \in Op /\ [op EXCEPT !.pc = pc].pc = pc
    BY <1>0 DEF Op
<1>8. ASSUME NEW l \in LEB, NEW c \in Written, WriteLeb(l, c) \/ AtomicLebChange(l, c)
      PROVE  SqInv'
  <2>1. PICK kind \in {"write", "change"} :
          At("idle") /\ GetPeb(NewOp(kind, "vid", l, c)) /\ UNCHANGED <<flash, up>>
      BY <1>8 DEF WriteLeb, AtomicLebChange, Ready
  <2>2. NewOp(kind, "vid", l, c) \in Op
      BY NewOpType, WrittenIsContent DEF Pcs
  <2> QED
      BY <1>3, <1>5, <2>1, <2>2 DEF At
<1>9. CASE WriteVidHdr
  <2>1. OpHdr.sqnum = op.sqnum
      BY DEF OpHdr, VidHdr
  <2>2. /\ At("vid") /\ SetFlash(op.pnum, OpHdr) /\ UNCHANGED global_sqnum
        /\ op' = [op EXCEPT !.pc = "map"] \/ op' = [op EXCEPT !.pc = "data"]
      BY <1>9 DEF WriteVidHdr, Goto, ram
  <2>3. op'.pc \notin {"vid", "rvid"}
      BY <1>7, <2>2 DEF Pcs
  <2> QED
      BY <1>1, <2>1, <2>2, <2>3
<1>10. CASE WriteData
  <2>1. op.pnum \in PEB /\ flash[op.pnum] \in PebState
      BY <1>0, <1>10 DEF WriteData, At, ControlOK
  <2>2. KeepsNumbers
      BY <1>0, <1>10, <2>1, SetKeeps, WithDataType DEF WriteData
  <2>3. op'.pc \notin {"vid", "rvid"}
    <3>1. \/ PutPeb(eba_tbl[op.lnum], [op EXCEPT !.pc = "map"], Idle("err"))
          \/ op' = [op EXCEPT !.pc = "map"]
        BY <1>10 DEF WriteData, Goto
    <3>2. [op EXCEPT !.pc = "map"] \in Op /\ [op EXCEPT !.pc = "map"].pc = "map"
        BY <1>7 DEF Pcs
    <3> QED
        BY <1>6, <3>1, <3>2
  <2> QED
      BY <1>2, <1>10, <2>2, <2>3 DEF WriteData
<1>11. CASE MapLeb \/ WriteRefused \/ RecoverFailed \/ Done
  <2>1. op'.pc = "idle" /\ UNCHANGED <<flash, up, global_sqnum>>
      BY <1>4, <1>11 DEF MapLeb, WriteRefused, RecoverFailed, Done, Return, ram
  <2> QED
      BY <1>2, <2>1 DEF KeepsNumbers
<1>12. CASE WriteError
  <2>1. PutPeb(op.pnum, [op EXCEPT !.pc = "retry"], Idle("err")) /\ UNCHANGED <<up, global_sqnum>>
      BY <1>12 DEF WriteError
  <2>2. op'.pc \notin {"vid", "rvid"}
      BY <1>6, <1>7, <2>1 DEF Pcs
  <2>3. CASE At("vid") /\ \E r \in VidHdrLeft : SetFlash(op.pnum, r)
    <3>1. PICK r \in VidHdrLeft : SetFlash(op.pnum, r)
        BY <2>3
    <3>2. r = flash[op.pnum] \/ r.st # "used" \/ r.sqnum = op.sqnum
        BY BlankType DEF VidHdrLeft, OpHdr, VidHdr
    <3> QED
        BY <1>1, <2>1, <2>2, <2>3, <3>1, <3>2
  <2>4. CASE At("data") /\ \E r \in DataLeft : SetFlash(op.pnum, r)
    <3>1. PICK d \in Partial(op.arg) : SetFlash(op.pnum, WithData(flash[op.pnum], d))
        BY <2>4 DEF DataLeft
    <3>2. d \in Content /\ flash[op.pnum] \in PebState
        BY <1>0, <2>4, PartialIsContent DEF At, ControlOK
    <3>3. KeepsNumbers
        BY <3>1, <3>2, SetKeeps, WithDataType
    <3> QED
        BY <1>2, <2>1, <2>2, <3>3
  <2> QED
      BY <1>12, <2>3, <2>4 DEF WriteError
<1>13. CASE RetryWrite
  <2> DEFINE next == [op EXCEPT !.pc = "vid", !.tries = op.tries + 1]
  <2>1. next \in Op
    <3>1. op.tries + 1 \in Nat
        BY <1>0 DEF Op
    <3> QED
        BY <1>0, <3>1 DEF Op, Pcs
  <2>2. /\ UNCHANGED <<flash, up>> /\ up = "up"
        /\ GetPeb(next) \/ (op' = Idle("ok") /\ UNCHANGED global_sqnum)
      BY <1>13 DEF RetryWrite, Return, At
  <2> HIDE DEF next
  <2>3. CASE GetPeb(next)
      BY <1>3, <1>5, <2>1, <2>2, <2>3
  <2>4. CASE op' = Idle("ok") /\ UNCHANGED global_sqnum
      BY <1>2, <1>4, <2>2, <2>4 DEF KeepsNumbers
  <2> QED
      BY <2>2, <2>3, <2>4
<1>14. ASSUME NEW l \in LEB, UnmapLeb(l)
       PROVE  SqInv'
  <2>1. /\ PutPeb(eba_tbl[l], NewOp("unmap", "done", l, <<>>), Idle("err"))
        /\ UNCHANGED <<flash, up, global_sqnum>>
      BY <1>14 DEF UnmapLeb
  <2>2. /\ NewOp("unmap", "done", l, <<>>) \in Op
        /\ NewOp("unmap", "done", l, <<>>).pc = "done"
      BY NewOpType, EmptyIsContent DEF Pcs
  <2>3. op'.pc \notin {"vid", "rvid"}
      BY <1>6, <2>1, <2>2
  <2> QED
      BY <1>2, <2>1, <2>3 DEF KeepsNumbers
<1>15. ASSUME NEW l \in LEB, NEW c \in Written, AppendLeb(l, c)
       PROVE  SqInv'
  <2>1. /\ op' = [NewOp("append", "inplace", l, c) EXCEPT !.old = eba_tbl[l]]
        /\ UNCHANGED <<flash, up, global_sqnum>>
      BY <1>15 DEF AppendLeb, ram
  <2>2. /\ NewOp("append", "inplace", l, c) \in Op
        /\ NewOp("append", "inplace", l, c).pc = "inplace"
      BY NewOpType, WrittenIsContent DEF Pcs
  <2>3. op'.pc = "inplace"
      BY <2>1, <2>2 DEF Op
  <2> QED
      BY <1>2, <2>1, <2>3 DEF KeepsNumbers
<1>16. CASE WriteInPlace \/ WriteInPlaceError
  <2>1. PICK d \in {op.arg} \cup Partial(op.arg) :
          SetFlash(op.old, WithData(flash[op.old], flash[op.old].data \o d))
      BY <1>16 DEF WriteInPlace, WriteInPlaceError
  <2>2. flash[op.old] \in PebState
      BY <1>0, <1>16 DEF WriteInPlace, WriteInPlaceError, At, ControlOK
  <2>3. flash[op.old].data \o d \in Content
    <3>1. d \in Content /\ flash[op.old].data \in Content
        BY <1>0, <2>2, PartialIsContent DEF PebState
    <3> QED
        BY <3>1, ConcatIsContent
  <2>4. KeepsNumbers
      BY <2>1, <2>2, <2>3, SetKeeps, WithDataType
  <2>5. /\ op' = Idle("ok") \/ op' = [op EXCEPT !.pc = "rget"]
        /\ UNCHANGED <<up, global_sqnum>>
      BY <1>16 DEF WriteInPlace, WriteInPlaceError, Return, Goto, ram
  <2>6. op'.pc \notin {"vid", "rvid"}
      BY <1>4, <1>7, <2>5 DEF Pcs
  <2> QED
      BY <1>2, <2>4, <2>5, <2>6
<1>17. CASE RecoverGetPeb
  <2>1. UNCHANGED <<flash, up>> /\ up = "up"
      BY <1>17 DEF RecoverGetPeb, At
  <2>2. CASE free = {}
      BY <1>2, <1>4, <1>17, <2>1, <2>2 DEF RecoverGetPeb, Return, KeepsNumbers
  <2>3. CASE free # {}
    <3>1. PICK p \in free :
            \/ /\ global_sqnum' = global_sqnum + 1
               /\ op' = [op EXCEPT !.pc = "rvid", !.pnum = p, !.sqnum = global_sqnum]
            \/ op' = [op EXCEPT !.pc = "rfail"] /\ UNCHANGED global_sqnum
        BY <1>17, <2>3 DEF RecoverGetPeb, Goto
    <3>2. CASE op' = [op EXCEPT !.pc = "rfail"] /\ UNCHANGED global_sqnum
      <4>1. op'.pc = "rfail"
          BY <1>7, <3>2 DEF Pcs
      <4> QED
          BY <1>2, <2>1, <3>2, <4>1 DEF KeepsNumbers
    <3>3. CASE /\ global_sqnum' = global_sqnum + 1
               /\ op' = [op EXCEPT !.pc = "rvid", !.pnum = p, !.sqnum = global_sqnum]
      <4>1. op'.sqnum = global_sqnum
          BY <1>0, <3>3 DEF Op
      <4> QED
          BY <1>0, <1>3, <2>1, <3>3, <4>1 DEF OpNumber
    <3> QED
        BY <3>1, <3>2, <3>3
  <2> QED
      BY <2>2, <2>3
<1>18. ASSUME At("rvid")
       PROVE  RecoveredHdr.sqnum = op.sqnum
    BY <1>0, <1>18 DEF RecoveredHdr, At, ControlOK, PebState
<1>19. CASE RecoverVidHdr
  <2>1. /\ At("rvid") /\ SetFlash(op.pnum, RecoveredHdr) /\ UNCHANGED global_sqnum
        /\ op' = [op EXCEPT !.pc = "rdata"]
      BY <1>19 DEF RecoverVidHdr, Goto, ram
  <2>2. op'.pc \notin {"vid", "rvid"}
      BY <1>7, <2>1 DEF Pcs
  <2> QED
      BY <1>1, <1>18, <2>1, <2>2
<1>20. CASE RecoverData
  <2>1. flash[op.pnum] \in PebState /\ flash[op.old] \in PebState
      BY <1>0, <1>20 DEF RecoverData, At, ControlOK
  <2>2. KeepsNumbers
      BY <1>20, <2>1, RecoveredDataType, SetKeeps, WithDataType DEF RecoverData
  <2>3. PutPeb(op.old, [op EXCEPT !.pc = "done"], Idle("ok")) /\ UNCHANGED <<up, global_sqnum>>
      BY <1>20 DEF RecoverData
  <2>4. op'.pc \notin {"vid", "rvid"}
      BY <1>6, <1>7, <2>3 DEF Pcs
  <2> QED
      BY <1>2, <2>2, <2>3, <2>4
<1>21. CASE RecoverReadError
  <2>1. /\ PutPeb(op.pnum, [op EXCEPT !.pc = "rfail"], Idle("err"))
        /\ UNCHANGED <<flash, up, global_sqnum>>
      BY <1>21 DEF RecoverReadError
  <2>2. op'.pc \notin {"vid", "rvid"}
      BY <1>6, <1>7, <2>1 DEF Pcs
  <2> QED
      BY <1>2, <2>1, <2>2 DEF KeepsNumbers
<1>22. CASE RecoverWriteError
  <2> DEFINE cont == [op EXCEPT !.pc = "rretry"]
  <2>1. PutPeb(op.pnum, cont, cont) /\ UNCHANGED <<up, global_sqnum>>
      BY <1>22 DEF RecoverWriteError
  <2>2. cont \in Op /\ cont.pc = "rretry"
      BY <1>7 DEF Pcs
  <2> HIDE DEF cont
  <2>3. op'.pc \notin {"vid", "rvid"}
      BY <1>6, <2>1, <2>2
  <2>4. CASE UNCHANGED flash
      BY <1>2, <2>1, <2>3, <2>4 DEF KeepsNumbers
  <2>5. CASE /\ At("rvid")
             /\ \E r \in {flash[op.pnum], Blank("corr"), RecoveredHdr} : SetFlash(op.pnum, r)
    <3>1. PICK r \in {flash[op.pnum], Blank("corr"), RecoveredHdr} : SetFlash(op.pnum, r)
        BY <2>5
    <3>2. r = flash[op.pnum] \/ r.st # "used" \/ r.sqnum = op.sqnum
        BY <1>18, <2>5, BlankType
    <3> QED
        BY <1>1, <2>1, <2>3, <2>5, <3>1, <3>2
  <2>6. CASE /\ At("rdata")
             /\ \E d \in Partial(RecoveredData) : SetFlash(op.pnum, WithData(flash[op.pnum], d))
    <3>1. PICK d \in Partial(RecoveredData) : SetFlash(op.pnum, WithData(flash[op.pnum], d))
        BY <2>6
    <3>2. flash[op.pnum] \in PebState /\ flash[op.old] \in PebState
        BY <1>0, <2>6 DEF At, ControlOK
    <3>3. d \in Content
        BY <3>2, RecoveredDataType, PartialIsContent
    <3>4. KeepsNumbers
        BY <3>1, <3>2, <3>3, SetKeeps, WithDataType
    <3> QED
        BY <1>2, <2>1, <2>3, <3>4
  <2> QED
      BY <1>22, <2>4, <2>5, <2>6 DEF RecoverWriteError
<1>23. CASE RecoverRetry
  <2>1. op'.pc \notin {"vid", "rvid"}
      BY <1>0, <1>4, <1>23 DEF RecoverRetry, Return, Op
  <2> QED
      BY <1>2, <1>23, <2>1 DEF RecoverRetry, KeepsNumbers
<1> QED
    BY <1>8, <1>9, <1>10, <1>11, <1>12, <1>13, <1>14, <1>15, <1>16, <1>17, <1>19, <1>20,
       <1>21, <1>22, <1>23 DEF EbaStep

\* Erasures and moves: a copy takes the next number.
LEMMA WlKeepsNumbers ==
  ASSUME CtlInv, CtlInv', SqInv, WlStep
  PROVE  SqInv'
<1> USE DEF CtlInv
<1>0. /\ global_sqnum \in Nat /\ op.sqnum \in Nat
      /\ work.k # "none" => Src \in PebState /\ Src.data \in Content /\ up = "up"
      /\ work.k \in {"mvid", "mdata"} => flash[work.to] \in PebState
    BY WorkType DEF TypeOK, ControlOK, Src, PebState, Op
<1>1. ASSUME KeepsNumbers, UNCHANGED <<up, op, global_sqnum>>
      PROVE  SqInv'
    BY <1>0, <1>1, KeepStep DEF OpNumber
<1>2. ASSUME work.k = "mvid", NEW r \in {flash[work.to], Blank("corr"), CopyHdr},
             SetFlash(work.to, r), global_sqnum' = global_sqnum + 1, UNCHANGED op
      PROVE  SqInv'
  <2>1. up = "up" /\ (r.st = "used" => r = flash[work.to] \/ r.sqnum = global_sqnum)
      BY <1>0, <1>2, BlankType, CopyHdrType
  <2>2. \A p \in PEB : flash[p].st = "used" => flash[p].sqnum # global_sqnum
    <3>1. \A p \in PEB : flash[p].sqnum \in Nat
        BY DEF TypeOK, PebState
    <3> QED
        BY <1>0, <2>1, <3>1 DEF SqInv, SqnumFresh
  <2>3. op.pc \in {"vid", "rvid"} => global_sqnum # op.sqnum
      BY <1>0 DEF SqInv, SqnumFresh
  <2>4. global_sqnum < global_sqnum'
      BY <1>0, <1>2
  <2> QED
      BY <1>0, <1>2, <2>1, <2>2, <2>3, <2>4, WriteStep
<1>3. ASSUME work.k = "mdata", NEW d \in Content, SetFlash(work.to, WithData(flash[work.to], d)),
             UNCHANGED <<up, op, global_sqnum>>
      PROVE  SqInv'
  <2>1. KeepsNumbers
      BY <1>0, <1>3, SetKeeps, WithDataType
  <2> QED
      BY <1>1, <1>3, <2>1
<1>4. CASE EraseWorker
    BY <1>1, <1>4, BlankType, SetKeeps DEF EraseWorker
<1>5. CASE EraseError
  <2>1. PICK r \in {Blank("bad")} \cup HalfErased(Src) : SetFlash(work.from, r)
      BY <1>5 DEF EraseError, Src
  <2>2. r.st = "used" => Src.st = "used" /\ r.sqnum = Src.sqnum
      BY <1>0, <1>5, BlankType, HalfErasedType DEF EraseError
  <2>3. KeepsNumbers
      BY <2>1, <2>2, SetKeeps DEF Src
  <2> QED
      BY <1>1, <1>5, <2>3 DEF EraseError
<1>6. CASE EraseRefused \/ MoveCancelled \/ MoveReadError \/ \E l \in LEB : ScrubLeb(l)
  <2>1. UNCHANGED <<flash, up, op, global_sqnum>>
      BY <1>6 DEF EraseRefused, MoveCancelled, MoveReadError, ScrubLeb, ram
  <2> QED
      BY <1>1, <2>1 DEF KeepsNumbers
<1>7. CASE MoveVidHdr
    BY <1>2, <1>7 DEF MoveVidHdr
<1>8. CASE MoveData
    BY <1>0, <1>3, <1>8 DEF MoveData
<1>9. CASE MoveBitflip
  <2>1. UNCHANGED <<up, op>>
      BY <1>9 DEF MoveBitflip
  <2>2. CASE work.k = "mvid" /\ global_sqnum' = global_sqnum + 1 /\ SetFlash(work.to, CopyHdr)
      BY <1>2, <2>1, <2>2
  <2>3. CASE /\ work.k = "mdata" /\ global_sqnum' = global_sqnum
             /\ SetFlash(work.to, WithData(flash[work.to], Src.data))
      BY <1>0, <1>3, <2>1, <2>3
  <2> QED
      BY <1>9, <2>2, <2>3 DEF MoveBitflip
<1>10. CASE MoveMismatch
    BY <1>0, <1>3, <1>10, WrittenIsContent DEF MoveMismatch
<1>11. CASE MoveWriteError
  <2>1. UNCHANGED <<up, op>>
      BY <1>11 DEF MoveWriteError
  <2>2. CASE /\ work.k = "mvid" /\ global_sqnum' = global_sqnum + 1
             /\ \E r \in {flash[work.to], Blank("corr"), CopyHdr} : SetFlash(work.to, r)
      BY <1>2, <2>1, <2>2
  <2>3. CASE /\ work.k = "mdata" /\ global_sqnum' = global_sqnum
             /\ \E d \in Partial(Src.data) : SetFlash(work.to, WithData(flash[work.to], d))
      BY <1>0, <1>3, <2>1, <2>3, PartialIsContent
  <2> QED
      BY <1>11, <2>2, <2>3 DEF MoveWriteError
<1>12. CASE MoveBadHdr
    BY <1>2, <1>12 DEF MoveBadHdr
<1> QED
    BY <1>4, <1>5, <1>6, <1>7, <1>8, <1>9, <1>10, <1>11, <1>12 DEF WlStep

\* Losing power writes no header; the scan starts above every number it finds.
LEMMA PowerKeepsNumbers ==
  ASSUME CtlInv, CtlInv', SqInv, PowerStep
  PROVE  SqInv'
<1> USE DEF CtlInv
<1>1. ASSUME KeepsNumbers, LoseRam
      PROVE  SqInv'
    BY <1>1, KeepStep, IdleType DEF LoseRam, Return, OpNumber
<1>2. CASE PowerOff
    BY <1>1, <1>2 DEF PowerOff, KeepsNumbers
<1>3. CASE PowerCut
  <2>1. KeepsNumbers
    <3>1. CASE flash' = flash
        BY <3>1 DEF KeepsNumbers
    <3>2. CASE \E i \in Interrupted : SetFlash(i[1], i[2])
        BY <1>3, <3>2, InterruptedType, SetKeeps DEF PowerCut
    <3> QED
        BY <1>3, <3>1, <3>2 DEF PowerCut
  <2> QED
      BY <1>1, <1>3, <2>1 DEF PowerCut
<1>4. CASE Attach
  <2>1. flash' = flash /\ \A p \in PEB : flash[p].st = "used" => flash[p].sqnum < global_sqnum'
      BY <1>4 DEF Attach
  <2>2. op'.pc = "attach"
      BY <1>4, IdleType DEF Attach, Idle
  <2> QED
      BY <2>1, <2>2 DEF SqInv, SqnumFresh, SqnumUnique
<1>5. CASE AttachError
    BY <1>5 DEF AttachError, ram, SqInv, SqnumFresh, SqnumUnique
<1>6. CASE AttachErase
    BY <1>6 DEF AttachErase, SqInv, SqnumFresh, SqnumUnique
<1>7. CASE AttachDone
  <2>1. op'.pc = "idle" /\ UNCHANGED <<flash, up, global_sqnum>>
      BY <1>7, IdleType DEF AttachDone, Return
  <2> QED
      BY <2>1 DEF SqInv, SqnumFresh, SqnumUnique
<1> QED
    BY <1>2, <1>3, <1>4, <1>5, <1>6, <1>7 DEF PowerStep

LEMMA InitSqnums == Init => SqnumInv
<1>1. Init => TypeOK /\ ControlOK
    BY InitTypes DEF CtlInv
<1>2. Init => SqnumFresh /\ SqnumUnique
    BY BlankType, IdleType DEF Init, SqnumFresh, SqnumUnique
<1> QED
    BY <1>1, <1>2 DEF SqnumInv

\* Every step keeps the invariant.
LEMMA StepKeepsSqnums == SqnumInv /\ [Next]_vars => SqnumInv'
<1> SUFFICES ASSUME SqnumInv, [Next]_vars
             PROVE  SqnumInv'
    OBVIOUS
<1>1. CtlInv /\ CtlInv' /\ SqInv
    BY StepKeepsTypes DEF SqnumInv, CtlInv, SqInv
<1>2. SqInv'
  <2>1. CASE EbaStep
      BY <1>1, <2>1, EbaKeepsNumbers
  <2>2. CASE WlStep
      BY <1>1, <2>2, WlKeepsNumbers
  <2>3. CASE PowerStep
      BY <1>1, <2>3, PowerKeepsNumbers
  <2>4. CASE UNCHANGED vars
      BY <1>1, <2>4 DEF vars, ram, SqInv, SqnumFresh, SqnumUnique
  <2> QED
      BY <2>1, <2>2, <2>3, <2>4 DEF Next
<1> QED
    BY <1>1, <1>2 DEF CtlInv, SqInv, SqnumInv

\* No two eraseblocks ever carry the same sequence number, whatever power cuts,
\* failed writes, retries and moves happen: next_sqnum hands out each number once,
\* the number of a header that is never written is not used again while the device
\* is attached, and the scan restarts the counter above all it finds.  So
\* ubi_scan_add_used never meets two copies it cannot order.
THEOREM SqnumsUnique == Spec => []SqnumUnique
<1>1. SqnumInv => SqnumUnique
    BY DEF SqnumInv
<1> QED
    BY <1>1, InitSqnums, StepKeepsSqnums, PTL DEF Spec
=============================================================================
