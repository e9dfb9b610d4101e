------------------------ MODULE UbiEba_store_proofs -------------------------
(***************************************************************************)
(* UbiEba implements LebStore: what a reader finds after a reboot changes  *)
(* only by the request in progress, only in its own LEB and only in the    *)
(* ways LebStore allows, for every number of eraseblocks, LEBs and pages,  *)
(* and wherever power is cut.  StoreSafe names the combinations of faults  *)
(* that are excluded.                                                      *)
(*                                                                         *)
(* The argument has three parts.  Reading: which copy of a LEB the scan    *)
(* takes (DurableIs).  Writing: what each write to the flash, complete or  *)
(* torn, does to that (the lemmas ending in Legal).  And the invariant     *)
(* StoreInv: what the copies in flight contain at each point of the code.  *)
(***************************************************************************)
EXTENDS UbiEba_map_proofs

USE PebFinite, LebAssumption

\* Besides what RecoverySafe excludes: a write that fails as often as it is tried (run eba_retries),
\* and an erasure that fails behind recover_peb.  Its new copy inherits copy_flag and data_crc of the
\* old one, may not match them, and then loses to what the failed erasure left.
StoreSafe ==
  /\ RecoverySafe
  /\ "write" \in Faults => MaxFaults <= UBI_IO_RETRIES
  /\ {"inplace", "erase"} \subseteq Faults => MaxFaults <= 1

-----------------------------------------------------------------------------
(* The invariant, in parts.                                                 *)

Kinds == {"write", "append", "change", "unmap"}

\* Which kind of operation is at which point.
KindOf ==
  /\ op.pc = "idle" <=> op.kind = "idle"
  /\ op.pc = "attach" <=> op.kind = "attach"
  /\ op.pc \in {"vid", "data", "map", "retry"} <=> op.kind \in {"write", "change"}
  /\ op.kind = "append" <=> op.pc \in {"inplace", "rget", "rvid", "rdata", "rfail"}
                            \/ (op.pc = "done" /\ op.old # NoPeb)
  /\ op.kind = "unmap" <=> op.pc = "done" /\ op.old = NoPeb
  /\ op.kind = "unmap" => eba_tbl[op.lnum] = NoPeb
  /\ op.kind = "append" => eba_tbl[op.lnum] # NoPeb

\* What data_crc of a copy covers was read, or given by a user, without an ECC error.
Clean(c) == c # <<>> /\ \A i \in 1..Len(c) : c[i] # Torn
CrcClean == \A p \in PEB : flash[p].copy_flag => Clean(flash[p].crc)

\* Beside copy m of a LEB copy x makes no difference to a reader.
Harmless(x, m) ==
  \/ x.sqnum < m.sqnum /\ (m.copy_flag => CrcOk(m))
  \/ x.sqnum > m.sqnum /\ x.copy_flag /\ (~CrcOk(x) \/ x.data = m.data)
  \/ x.data = <<>> /\ m.data = <<>>

\* The pages that were there and some of the ones to be appended.
Extended == {op.base \o d : d \in Partial(op.arg)}

\* An eraseblock that is being erased and the only one of LEB l: what a failed write left of an unmapped
\* LEB, or the LEB is being un-mapped.
Unfinished(l, x) ==
  /\ op.lnum = l
  /\ \/ op.kind \in {"write", "change"} /\ x.data \in Partial(op.arg)
     \/ op.kind = "unmap" /\ x.data = op.base

\* One that is being erased beside the mapped copy m of l, and may make a difference: a failed
\* attempt to change l, or one of the two copies recover_peb dealt with.
Leftover(l, x, m) ==
  /\ op.lnum = l
  /\ \/ /\ op.pc = "retry" /\ op.kind = "change"
        /\ x.copy_flag /\ x.crc = op.arg /\ x.data \in Partial(op.arg) /\ x.sqnum > m.sqnum
     \/ op.pc = "rfail" /\ x.data = <<>>
     \/ op.pc = "done" /\ op.kind = "append" /\ x.data \in Extended

ErasedFine(l, x) ==
  IF eba_tbl[l] = NoPeb
    THEN Unfinished(l, x)
    ELSE \/ Changing /\ op.lnum = l
         \/ Harmless(x, flash[eba_tbl[l]]) \/ Leftover(l, x, flash[eba_tbl[l]])

\* What is erased, now or later during attach, is not missed.
Waste ==
  up = "up" /\ ~ro_mode =>
    \A l \in LEB :
      /\ work.k = "erase" /\ work.from \in Copies(l) => ErasedFine(l, flash[work.from])
      /\ \A p \in todo \cap Copies(l) : /\ eba_tbl[l] # NoPeb
                                        /\ Harmless(flash[p], flash[eba_tbl[l]])

\* The copy a move is writing.
MoveShape ==
  work.k = "mdata" => /\ Clean(Src.data)
                      /\ flash[work.to].copy_flag /\ flash[work.to].crc = Src.data
                      /\ flash[work.to].data = <<>> /\ flash[work.to].sqnum > Src.sqnum

RamData == flash[eba_tbl[op.lnum]].data

\* The copy an operation is writing, and what it was given.
OpShape ==
  /\ op.pc \in {"vid", "data", "rvid", "rdata"} => op.sqnum + 1 = global_sqnum
  /\ op.pc = "data" => flash[op.pnum] = OpHdr
  /\ op.pc = "map" => /\ flash[op.pnum] = WithData(OpHdr, op.arg)
                      /\ \A x \in Copies(op.lnum) \ {op.pnum} : flash[x].sqnum < op.sqnum
  /\ op.pc = "rdata" => flash[op.pnum] = RecoveredHdr
  /\ op.kind = "change" => op.arg \in Written

\* What the LEB of the operation held when it began, and holds now.
OpBase ==
  /\ op.kind \in {"write", "change"} /\ eba_tbl[op.lnum] = NoPeb => op.base = Unmapped
  /\ op.kind = "change" /\ op.pc # "map" /\ eba_tbl[op.lnum] # NoPeb => op.base = RamData
  /\ op.kind \in {"append", "unmap"} => op.base \in Content
  /\ op.pc = "inplace" => RamData = op.base
  /\ op.pc \in {"rget", "rvid", "rdata", "rfail"} => RamData \in Extended
  /\ op.pc = "done" /\ op.kind = "append" =>
       /\ RamData = op.base \o op.arg
       /\ ro_mode => Durable(op.lnum) = RamData

\* The faults that led here.
Counted ==
  /\ op.tries <= faults /\ faults <= MaxFaults
  /\ op.pc = "retry" => op.tries < faults /\ "write" \in Faults
  /\ op.pc = "done" /\ op.kind = "append" => faults >= 1 /\ "inplace" \in Faults

\* The content of the LEB the request in progress is for is one LebStore allows.
InAllowed == op.kind \in Kinds => Durable(op.lnum) \in LS!Allowed(AbsReq)

DataInv == /\ KindOf /\ CrcClean /\ Waste /\ MoveShape /\ OpShape /\ OpBase /\ Counted
StoreInv == PlaceInv /\ DataInv /\ InAllowed

-----------------------------------------------------------------------------
(* Sequences of pages.                                                      *)

\* What a write that stops early leaves: a prefix, and perhaps one torn page behind it.
LEMMA PartialIs ==
  ASSUME NEW c \in Content
  PROVE  /\ \A n \in 0..Len(c) : SubSeq(c, 1, n) \in Partial(c)
         /\ \A n \in 0..Len(c) : n < Len(c) => Append(SubSeq(c, 1, n), Torn) \in Partial(c)
         /\ \A d \in Partial(c) : \E n \in 0..Len(c) :
              d = SubSeq(c, 1, n) \/ (d = Append(SubSeq(c, 1, n), Torn) /\ n < Len(c))
<1> DEFINE pre == {SubSeq(c, 1, n) : n \in 0..Len(c)}
<1>1. Partial(c) = pre \cup {Append(s, Torn) : s \in {t \in pre : Len(t) < Len(c)}}
    BY DEF Partial
<1>2. \A n \in 0..Len(c) : SubSeq(c, 1, n) \in pre /\ Len(SubSeq(c, 1, n)) = n
    BY SubSeqProperties, ElementOfSeq DEF Content
<1>3. \A t \in pre : \E n \in 0..Len(c) : t = SubSeq(c, 1, n)
    OBVIOUS
<1> HIDE DEF pre
<1> QED
    BY <1>1, <1>2, <1>3

\* It may stop before the first page, or after the last.
LEMMA PartialEnds ==
  \A c \in Content : <<>> \in Partial(c) /\ c \in Partial(c)
<1> SUFFICES ASSUME NEW c \in Content
             PROVE  <<>> \in Partial(c) /\ c \in Partial(c)
    OBVIOUS
<1>1. SubSeq(c, 1, 0) = <<>> /\ SubSeq(c, 1, Len(c)) = c /\ Len(c) \in Nat
    BY SubSeqEmpty, SubSeqFull, LenProperties DEF Content
<1>2. SubSeq(c, 1, 0) \in Partial(c) /\ SubSeq(c, 1, Len(c)) \in Partial(c)
    BY <1>1, PartialIs
<1> QED
    BY <1>1, <1>2

\* Appending nothing.
LEMMA ConcatEmpty == \A c \in Content : c \o <<>> = c
  BY ConcatProperties, EmptySeq DEF Content

\* A write behind pages that are there stops early as a write of all of them does.
LEMMA PartialBehind ==
  \A b, c \in Content : \A d \in Partial(c) : b \o d \in Partial(b \o c)
<1> SUFFICES ASSUME NEW b \in Content, NEW c \in Content, NEW d \in Partial(c)
             PROVE  b \o d \in Partial(b \o c)
    OBVIOUS
<1>1. PICK n \in 0..Len(c) : \/ d = SubSeq(c, 1, n)
                             \/ d = Append(SubSeq(c, 1, n), Torn) /\ n < Len(c)
    BY PartialIs
<1>2. /\ b \o c \in Content /\ Len(b \o c) = Len(b) + Len(c) /\ Len(b) \in Nat /\ Len(c) \in Nat
      /\ SubSeq(c, 1, n) \in Content /\ Len(SubSeq(c, 1, n)) = n
    BY ConcatProperties, LenProperties, SubSeqProperties DEF Content
<1> DEFINE k == Len(b) + n
<1> DEFINE S == Page \cup {Torn}
           u == SubSeq(b \o c, 1, k)
           v == b \o SubSeq(c, 1, n)
<1>3. k \in 0..Len(b \o c) /\ u = v /\ Len(u) = k
  <2>1. b \in Seq(S) /\ c \in Seq(S) /\ b \o c \in Seq(S) /\ SubSeq(c, 1, n) \in Seq(S) /\ k \in 0..Len(b \o c)
      BY <1>2 DEF Content
  <2>2. /\ \A i \in 1..Len(b) + Len(c) : (b \o c)[i] = IF i <= Len(b) THEN b[i] ELSE c[i - Len(b)]
        /\ \A i \in 1..Len(b) + Len(c) : (b \o c)[i] \in S
      BY <1>2, <2>1, ConcatProperties, ElementOfSeq
  <2>3. u \in Seq(S) /\ Len(u) = k /\ \A i \in 1..k : u[i] = (b \o c)[i]
    <3>1. \A i \in 1..k : (b \o c)[i] \in S
        BY <1>2, <2>1, <2>2
    <3> QED
        BY <1>2, <2>1, <3>1, SubSeqProperties
  <2>4. /\ v \in Seq(S) /\ Len(v) = k
        /\ \A i \in 1..k : v[i] = IF i <= Len(b) THEN b[i] ELSE SubSeq(c, 1, n)[i - Len(b)]
      BY <1>2, <2>1, ConcatProperties
  <2>5. \A i \in 1..n : SubSeq(c, 1, n)[i] = c[i]
    <3>1. \A i \in 1..n : c[i] \in S
        BY <1>2, <2>1, ElementOfSeq
    <3> QED
        BY <1>2, <3>1, SubSeqProperties
  <2>6. \A i \in 1..k : u[i] = v[i]
      BY <1>2, <2>2, <2>3, <2>4, <2>5
  <2> HIDE DEF u, v
  <2> QED
      BY <2>1, <2>3, <2>4, <2>6, SeqEqual
<1>4. Append(v, Torn) = b \o Append(SubSeq(c, 1, n), Torn)
  <2>1. /\ b \in Seq(S) /\ SubSeq(c, 1, n) \in Seq(S) /\ Torn \in S /\ <<Torn>> \in Seq(S)
        /\ v \in Seq(S)
      BY <1>2, ConcatProperties DEF Content
  <2>2. /\ Append(v, Torn) = v \o <<Torn>>
        /\ Append(SubSeq(c, 1, n), Torn) = SubSeq(c, 1, n) \o <<Torn>>
      BY <2>1, AppendIsConcat
  <2>3. \A x, y, z \in Seq(S) : (x \o y) \o z = x \o (y \o z)
      BY ConcatAssociative
  <2>4. (b \o SubSeq(c, 1, n)) \o <<Torn>> = b \o (SubSeq(c, 1, n) \o <<Torn>>)
    <3> HIDE DEF S
    <3> QED
        BY <2>1, <2>3, Zenon
  <2> QED
      BY <2>2, <2>4
<1> HIDE DEF k, u, v
<1>6. CASE d = SubSeq(c, 1, n)
    BY <1>2, <1>3, <1>6, PartialIs DEF u, v
<1>7. CASE d = Append(SubSeq(c, 1, n), Torn) /\ n < Len(c)
  <2>1. k < Len(b \o c)
      BY <1>2, <1>7 DEF k
  <2>2. Append(u, Torn) \in Partial(b \o c)
      BY <1>2, <1>3, <2>1, PartialIs DEF u
  <2> QED
      BY <1>3, <1>4, <1>7, <2>2
<1> QED
    BY <1>1, <1>6, <1>7

\* The pages in front of the ones that were appended.
LEMMA ConcatPrefix == \A b, c \in Content : /\ SubSeq(b \o c, 1, Len(b)) = b
                                            /\ Len(b) <= Len(b \o c) /\ Len(b) \in Nat
                                            /\ Len(b \o c) \in Nat
<1> SUFFICES ASSUME NEW b \in Content, NEW c \in Content
             PROVE  /\ SubSeq(b \o c, 1, Len(b)) = b
                    /\ Len(b) <= Len(b \o c) /\ Len(b) \in Nat /\ Len(b \o c) \in Nat
    OBVIOUS
<1>1. /\ b \o c \in Content /\ Len(b \o c) = Len(b) + Len(c) /\ Len(b) \in Nat /\ Len(c) \in Nat
      /\ \A i \in 1..Len(b) : (b \o c)[i] = b[i]
    BY ConcatProperties, LenProperties DEF Content
<1>2. SubSeq(b \o c, 1, Len(b)) = b
    BY <1>1, SubSeqProperties DEF Content
<1> QED
    BY <1>1, <1>2

\* Without data there is nothing an erasure could tear.
LEMMA ScrambledEmpty == Scrambled(<<>>) = {<<>>}
<1>1. Len(<<>>) = 0 /\ 1..0 = {}
    BY EmptySeq
<1>2. [i \in 1..Len(<<>>) |-> Torn] = <<>>
    BY <1>1
<1> QED
    BY <1>2 DEF Scrambled

\* When the data of a copy does, and does not, match a data_crc of readable pages.
LEMMA CleanFacts ==
  ASSUME NEW r \in PebState, Clean(r.crc)
  PROVE  /\ r.data = <<>> => ~CrcOk(r)
         /\ r.data = [i \in 1..Len(r.data) |-> Torn] => ~CrcOk(r)
         /\ r.data = r.crc => CrcOk(r)
         /\ r.data \in Partial(r.crc) /\ CrcOk(r) => r.data = r.crc
<1> DEFINE c == r.crc
           d == r.data
           n == Len(c)
<1>1. c \in Seq(Page \cup {Torn}) /\ d \in Seq(Page \cup {Torn}) /\ n \in Nat /\ Len(d) \in Nat
    BY LenProperties DEF PebState, Content
<1>2. n >= 1 /\ c[1] # Torn
    BY <1>1, EmptySeq DEF Clean
<1>3. n <= Len(d) => \A i \in 1..n : SubSeq(d, 1, n)[i] = d[i]
    BY <1>1, SubSeqProperties
<1>4. CrcOk(r) => n <= Len(d) /\ d[1] = c[1]
    BY <1>2, <1>3 DEF CrcOk
<1>5. d = <<>> => Len(d) = 0
    OBVIOUS
<1>6. d = c => CrcOk(r)
    BY <1>1, SubSeqProperties DEF CrcOk
<1>7. ASSUME d \in Partial(c), CrcOk(r)
      PROVE  d = c
  <2>1. Len(d) <= n
    <3>1. \A m \in 0..n : Len(SubSeq(c, 1, m)) = m /\ Len(Append(SubSeq(c, 1, m), Torn)) = m + 1
        BY <1>1, SubSeqProperties, AppendProperties
    <3> QED
        BY <1>1, <1>7, <3>1 DEF Partial
  <2>2. Len(d) = n
      BY <1>1, <1>4, <1>7, <2>1
  <2>3. SubSeq(d, 1, n) = d
      BY <1>1, <2>2, SubSeqProperties
  <2> QED
      BY <1>7, <2>3 DEF CrcOk
<1>8. (d = [i \in 1..Len(d) |-> Torn]) => ~CrcOk(r)
    BY <1>1, <1>2, <1>4
<1> QED
    BY <1>2, <1>4, <1>5, <1>6, <1>7, <1>8

-----------------------------------------------------------------------------
(* Reading: what a scan finds.                                              *)

\* Of the copies of a LEB one wins; beside harmless ones it reads as the one they are harmless to.
DurableOK ==
  \A l \in LEB :
    /\ Copies(l) = {} => Durable(l) = Unmapped
    /\ \A p \in PEB : IsWinner(p, l) => Durable(l) = flash[p].data
    /\ Copies(l) # {} => \E p \in PEB : IsWinner(p, l)
    /\ \A m \in Copies(l) :
         (\A x \in Copies(l) \ {m} : Harmless(flash[x], flash[m])) => Durable(l) = flash[m].data

\* The scan takes one of at most two copies, the one that wins compare_lebs.
LEMMA DurableIs == TypeOK /\ SqnumUnique /\ Few => DurableOK
<1> SUFFICES ASSUME TypeOK, SqnumUnique, Few, NEW l \in LEB
             PROVE  /\ Copies(l) = {} => Durable(l) = Unmapped
                    /\ \A p \in PEB : IsWinner(p, l) => Durable(l) = flash[p].data
                    /\ Copies(l) # {} => \E p \in PEB : IsWinner(p, l)
                    /\ \A m \in Copies(l) :
                         (\A x \in Copies(l) \ {m} : Harmless(flash[x], flash[m]))
                           => Durable(l) = flash[m].data
    BY DEF DurableOK
<1>1. ASSUME Copies(l) = {}
      PROVE  Durable(l) = Unmapped
  <2>1. ScanTbl[l] = NoPeb
      BY <1>1 DEF ScanTbl, IsWinner
  <2> QED
      BY <2>1 DEF Durable
<1>2. ASSUME NEW p \in PEB, IsWinner(p, l)
      PROVE  Durable(l) = flash[p].data
  <2>1. \A q \in PEB : IsWinner(q, l) => q = p
    <3> SUFFICES ASSUME NEW q \in PEB, IsWinner(q, l), q # p
                 PROVE  FALSE
        OBVIOUS
    <3>1. p \in Copies(l) /\ q \in Copies(l) /\ Beats(p, q) /\ Beats(q, p)
        BY <1>2 DEF IsWinner
    <3> QED
        BY <3>1, OneWins
  <2>2. ScanTbl[l] = CHOOSE q \in PEB : IsWinner(q, l)
      BY <1>2 DEF ScanTbl
  <2>3. ScanTbl[l] \in PEB /\ IsWinner(ScanTbl[l], l)
      BY <1>2, <2>2
  <2>4. ScanTbl[l] = p /\ p # NoPeb
      BY <2>1, <2>3
  <2> QED
      BY <2>4 DEF Durable
<1>3. ASSUME Copies(l) # {}
      PROVE  \E p \in PEB : IsWinner(p, l)
  <2>1. ScanTbl[l] \in Copies(l)
      BY <1>3, ScanFinds
  <2> QED
      BY <2>1 DEF ScanTbl, Copies
<1>4. ASSUME NEW m \in Copies(l), \A x \in Copies(l) \ {m} : Harmless(flash[x], flash[m])
      PROVE  Durable(l) = flash[m].data
  <2>1. m \in PEB /\ flash[m] \in PebState
      BY DEF Copies, TypeOK
  <2>2. CASE IsWinner(m, l)
      BY <1>2, <2>1, <2>2
  <2>3. CASE ~IsWinner(m, l)
    <3>1. PICK x \in Copies(l) \ {m} : ~Beats(m, x)
        BY <2>3 DEF IsWinner
    <3>2. x \in PEB /\ flash[x] \in PebState /\ Harmless(flash[x], flash[m])
        BY <1>4, <3>1 DEF Copies, TypeOK
    <3>3. flash[x].data = flash[m].data
      <4>1. flash[x].sqnum \in Nat /\ flash[m].sqnum \in Nat
          BY <2>1, <3>2 DEF PebState
      <4>2. CASE flash[x].sqnum < flash[m].sqnum /\ (flash[m].copy_flag => CrcOk(flash[m]))
        <5>1. flash[m].sqnum > flash[x].sqnum
            BY <4>1, <4>2
        <5> QED
            BY <3>1, <4>2, <5>1 DEF Beats
      <4>3. CASE flash[x].sqnum > flash[m].sqnum /\ flash[x].copy_flag /\ ~CrcOk(flash[x])
        <5>1. ~(flash[m].sqnum > flash[x].sqnum)
            BY <4>1, <4>3
        <5> QED
            BY <3>1, <4>3, <5>1 DEF Beats
      <4> QED
          BY <3>2, <4>2, <4>3 DEF Harmless
    <3>4. PICK p \in PEB : IsWinner(p, l)
        BY <1>3
    <3>5. p \in {m, x}
        BY <3>1, <3>4 DEF IsWinner, Few
    <3> QED
        BY <1>2, <3>3, <3>4, <3>5
  <2> QED
      BY <2>2, <2>3
<1> QED
    BY <1>1, <1>2, <1>3, <1>4

\* The same after a step.
LEMMA DurableNext == TypeOK' /\ SqnumUnique' /\ Few' => DurableOK'
  BY DurableIs, PTL

\* One of the two copies of a LEB that has two is the one that is read.
LEMMA OneIsRead ==
  ASSUME DurableOK, NEW l \in LEB, NEW m \in Copies(l), NEW x, Copies(l) \subseteq {m, x}
  PROVE  \/ Durable(l) = flash[m].data
         \/ /\ Durable(l) = flash[x].data /\ x \in Copies(l)
            /\ x # m => Beats(x, m)
<1>1. PICK p \in PEB : IsWinner(p, l)
    BY DEF DurableOK
<1>2. Durable(l) = flash[p].data /\ p \in Copies(l) /\ \A q \in Copies(l) \ {p} : Beats(p, q)
    BY <1>1 DEF DurableOK, IsWinner
<1> QED
    BY <1>2

\* What both states of a step satisfy.
Scans == TypeOK /\ SqnumUnique /\ Few /\ DurableOK

\* The scan is well defined in every reachable state.
LEMMA ScansIs == CopyInv => Scans
  BY DurableIs DEF CopyInv, SqnumInv, Scans

\* The same after a step.
LEMMA ScansNext == CopyInv' => Scans'
  BY ScansIs, PTL

\* A LEB whose copies stay as they are reads as before.
LEMMA SameCopies ==
  ASSUME Scans, Scans', NEW l \in LEB,
         \A p \in PEB : p \in Copies(l) <=> p \in Copies(l)',
         \A p \in PEB : p \in Copies(l) => flash'[p] = flash[p]
  PROVE  Durable(l)' = Durable(l)
<1>0. DurableOK /\ DurableOK'
    BY DEF Scans
<1>c. Copies(l) \subseteq PEB /\ Copies(l)' \subseteq PEB
    BY DEF Copies
<1>1. CASE Copies(l) = {}
  <2>1. Copies(l)' = {}
      BY <1>1, <1>c
  <2> QED
      BY <1>0, <1>1, <2>1 DEF DurableOK
<1>2. CASE Copies(l) # {}
  <2>1. PICK p \in PEB : IsWinner(p, l)
      BY <1>0, <1>2 DEF DurableOK
  <2>2. p \in Copies(l) /\ \A q \in Copies(l) \ {p} : Beats(p, q)
      BY <2>1 DEF IsWinner
  <2>3. flash'[p] = flash[p] /\ p \in Copies(l)'
      BY <2>2
  <2>4. ASSUME NEW q \in Copies(l)' \ {p}
        PROVE  Beats(p, q)'
    <3>1. q \in Copies(l) /\ flash'[q] = flash[q] /\ Beats(p, q)
        BY <1>c, <2>2, <2>4
    <3> QED
        BY <2>3, <3>1 DEF Beats
  <2>5. IsWinner(p, l)'
      BY <2>3, <2>4 DEF IsWinner
  <2>6. Durable(l)' = flash'[p].data /\ Durable(l) = flash[p].data
      BY <1>0, <2>1, <2>5 DEF DurableOK
  <2> QED
      BY <2>3, <2>6
<1> QED
    BY <1>1, <1>2

-----------------------------------------------------------------------------
(* What LebStore allows.                                                    *)

\* What LebStore allows, for each kind of request.
LEMMA AllowedIs ==
  ASSUME TypeOK, op.kind \in Kinds
  PROVE  /\ op.base = Unmapped =>
              LS!Allowed(AbsReq) = {Unmapped} \cup UNION {Scrambled(c) : c \in Partial(op.arg)}
         /\ op.base # Unmapped =>
              /\ op.kind = "append" =>
                   LS!Allowed(AbsReq) = UNION {Scrambled(c) : c \in Partial(op.base \o op.arg)}
              /\ op.kind = "change" => LS!Allowed(AbsReq) = {op.base, op.arg}
              /\ op.kind \in {"write", "unmap"} =>
                   LS!Allowed(AbsReq) = {Unmapped} \cup Scrambled(op.base)
<1>1. AbsReq = [kind |-> op.kind, lnum |-> op.lnum, arg |-> op.arg, base |-> op.base]
    BY DEF AbsReq, Kinds
<1>2. AbsReq.kind = op.kind /\ AbsReq.base = op.base /\ AbsReq.arg = op.arg
    BY <1>1
<1>p. (\A c : LS!Partial(c) = Partial(c)) /\ (\A c : LS!Scrambled(c) = Scrambled(c))
    BY DEF LS!Partial, Partial, LS!Scrambled, Scrambled
<1>u. \A c : UNION {LS!Scrambled(d) : d \in LS!Partial(c)} = UNION {Scrambled(d) : d \in Partial(c)}
    BY <1>p
<1>3. CASE op.base = Unmapped
  <2>1. LS!Allowed(AbsReq)
          = {Unmapped} \cup UNION {LS!Scrambled(d) : d \in LS!Partial(AbsReq.arg)}
      BY <1>2, <1>3 DEF LS!Allowed
  <2> QED
      BY <1>2, <1>3, <1>u, <2>1
<1>4. CASE op.base # Unmapped
  <2>1. op.kind = "append" => LS!Allowed(AbsReq)
          = UNION {LS!Scrambled(d) : d \in LS!Partial(AbsReq.base \o AbsReq.arg)}
      BY <1>2, <1>4 DEF LS!Allowed
  <2>2. op.kind = "change" => LS!Allowed(AbsReq) = {op.base, op.arg}
      BY <1>2, <1>4 DEF LS!Allowed
  <2>3. op.kind \in {"write", "unmap"} =>
          LS!Allowed(AbsReq) = {Unmapped} \cup LS!Scrambled(op.base)
      BY <1>2, <1>4 DEF LS!Allowed
  <2>4. AbsReq.base \o AbsReq.arg = op.base \o op.arg
      BY <1>2
  <2> QED
      BY <1>4, <1>p, <1>u, <2>1, <2>2, <2>3, <2>4
<1> QED
    BY <1>3, <1>4

\* An erasure may not have begun.
LEMMA ScrambledSelf == \A c : c \in Scrambled(c)
  BY DEF Scrambled

\* An unmapped LEB may become any part of what is written to it.
LEMMA AllowedFresh ==
  ASSUME TypeOK, op.kind \in Kinds, op.base = Unmapped
  PROVE  /\ Unmapped \in LS!Allowed(AbsReq)
         /\ \A d \in Partial(op.arg) : Scrambled(d) \subseteq LS!Allowed(AbsReq)
         /\ \A d \in Partial(op.arg) : d \in LS!Allowed(AbsReq)
  BY AllowedIs, ScrambledSelf

\* What an append may leave.
LEMMA AllowedAppend ==
  ASSUME TypeOK, op.kind = "append", op.base \in Content
  PROVE  /\ \A e \in Extended : Scrambled(e) \subseteq LS!Allowed(AbsReq)
         /\ \A e \in Extended : e \in LS!Allowed(AbsReq)
         /\ \A d \in Partial(op.base \o op.arg) : d \in LS!Allowed(AbsReq)
         /\ <<>> \in LS!Allowed(AbsReq)
         /\ op.base \o op.arg \in LS!Allowed(AbsReq)
         /\ op.base \in LS!Allowed(AbsReq)
<1>1. op.arg \in Content /\ op.base \o op.arg \in Content /\ op.base # Unmapped /\ op.kind \in Kinds
    BY UnmappedAssumption, ConcatIsContent DEF TypeOK, Op, Kinds
<1>2. LS!Allowed(AbsReq) = UNION {Scrambled(c) : c \in Partial(op.base \o op.arg)}
    BY <1>1, AllowedIs
<1>3. Extended \subseteq Partial(op.base \o op.arg)
    BY <1>1, PartialBehind DEF Extended
<1>4. <<>> \in Partial(op.base \o op.arg) /\ op.base \o op.arg \in Partial(op.base \o op.arg)
    BY <1>1, PartialEnds
<1>5. op.base \in Extended
  <2>1. op.base \o <<>> = op.base /\ <<>> \in Partial(op.arg)
      BY <1>1, ConcatEmpty, PartialEnds
  <2> QED
      BY <2>1 DEF Extended
<1>6. \A d \in Partial(op.base \o op.arg) : Scrambled(d) \subseteq LS!Allowed(AbsReq)
    BY <1>2
<1> QED
    BY <1>3, <1>4, <1>5, <1>6, ScrambledSelf

\* What a change and an unmap of a mapped LEB may leave.
LEMMA AllowedOther ==
  ASSUME TypeOK, op.base # Unmapped
  PROVE  /\ op.kind = "change" => op.base \in LS!Allowed(AbsReq) /\ op.arg \in LS!Allowed(AbsReq)
         /\ op.kind = "unmap" => /\ Unmapped \in LS!Allowed(AbsReq)
                                 /\ Scrambled(op.base) \subseteq LS!Allowed(AbsReq)
  BY AllowedIs DEF Kinds

\* A change may always have stored what it was given.
LEMMA AllowedArg ==
  ASSUME TypeOK, op.kind \in {"write", "change"}, op.kind = "write" => op.base = Unmapped
  PROVE  op.arg \in LS!Allowed(AbsReq)
<1>1. op.arg \in Partial(op.arg) /\ op.kind \in Kinds
    BY PartialEnds DEF TypeOK, Op, Kinds
<1>2. CASE op.base = Unmapped
    BY <1>1, <1>2, AllowedFresh
<1>3. CASE op.base # Unmapped
    BY <1>3, AllowedOther
<1> QED
    BY <1>2, <1>3

-----------------------------------------------------------------------------
(* Writing: what a write to one eraseblock does to what is read.            *)

\* Nothing changes but the LEB of the request in progress, and that as it may.
Legal ==
  \A l \in LEB : \/ Durable(l)' = Durable(l)
                 \/ l = op.lnum /\ op.kind \in Kinds /\ Durable(l)' \in LS!Allowed(AbsReq)

\* Eraseblock p reads as r afterwards, and only LEB l, if any, sees a difference.
WritesOnly(p, r, l) ==
  /\ flash'[p] = r /\ \A q \in PEB : q # p => flash'[q] = flash[q]
  /\ \A k \in LEB : k # l => Durable(k)' = Durable(k)
  /\ \A q \in PEB : q # p => \A k : q \in Copies(k)' <=> q \in Copies(k)
  /\ \A k : p \in Copies(k)' <=> r.st = "used" /\ r.lnum = k

\* A write that concerns one LEB at most leaves the others alone.
LEMMA OthersSame ==
  ASSUME Scans, Scans', NEW p \in PEB, NEW r, SetFlash(p, r), NEW l,
         flash[p].st = "used" => flash[p].lnum = l,
         r.st = "used" => r.lnum = l
  PROVE  WritesOnly(p, r, l)
<1>1. flash'[p] = r /\ \A q \in PEB : q # p => flash'[q] = flash[q]
    BY DEF SetFlash, Scans, TypeOK
<1>2. ASSUME NEW k \in LEB, k # l
      PROVE  Durable(k)' = Durable(k)
  <2>1. /\ \A q \in PEB : q \in Copies(k) <=> q \in Copies(k)'
        /\ \A q \in PEB : q \in Copies(k) => flash'[q] = flash[q]
      BY <1>1, <1>2 DEF Copies
  <2> QED
      BY <2>1, SameCopies
<1>3. /\ \A q \in PEB : q # p => \A k : q \in Copies(k)' <=> q \in Copies(k)
      /\ \A k : p \in Copies(k)' <=> r.st = "used" /\ r.lnum = k
    BY <1>1 DEF Copies
<1> QED
    BY <1>1, <1>2, <1>3 DEF WritesOnly

\* Neither before nor after a header: no LEB sees it.
LEMMA NoHeader ==
  ASSUME Scans, Scans', NEW p \in PEB, NEW r, SetFlash(p, r), flash[p].st # "used", r.st # "used"
  PROVE  Legal
<1>1. WritesOnly(p, r, NoLeb)
    BY OthersSame
<1> QED
    BY <1>1 DEF Legal, WritesOnly

\* Without a write to the flash every LEB reads as before.
LEMMA SameFlash ==
  ASSUME Scans, Scans', flash' = flash
  PROVE  (\A l \in LEB : Durable(l)' = Durable(l)) /\ Legal
<1>1. ASSUME NEW l \in LEB
      PROVE  Durable(l)' = Durable(l)
    BY SameCopies DEF Copies
<1> QED
    BY <1>1 DEF Legal

\* Two copies of which the second is harmless read as the first.
LEMMA HarmlessPair ==
  ASSUME Scans, NEW l \in LEB, NEW m \in Copies(l), NEW x, Copies(l) \subseteq {m, x},
         x \in Copies(l) /\ x # m => Harmless(flash[x], flash[m])
  PROVE  Durable(l) = flash[m].data
  BY DEF Scans, DurableOK

\* The same after a step.
LEMMA HarmlessPairNext ==
  ASSUME Scans', NEW l \in LEB, NEW m \in Copies(l)', NEW x, Copies(l)' \subseteq {m, x},
         x \in Copies(l)' /\ x # m => Harmless(flash'[x], flash'[m])
  PROVE  Durable(l)' = flash'[m].data
  BY DEF Scans, DurableOK

\* Of two copies the second is read only when it beats the first.
LEMMA OneIsReadNext ==
  ASSUME Scans', NEW l \in LEB, NEW m \in Copies(l)', NEW x, Copies(l)' \subseteq {m, x}
  PROVE  \/ Durable(l)' = flash'[m].data
         \/ /\ Durable(l)' = flash'[x].data /\ x \in Copies(l)'
            /\ x # m => Beats(x, m)'
<1>0. DurableOK'
    BY DEF Scans
<1>1. PICK p \in PEB : IsWinner(p, l)'
    BY <1>0 DEF DurableOK
<1>2. Durable(l)' = flash'[p].data /\ p \in Copies(l)' /\ \A q \in Copies(l)' \ {p} : Beats(p, q)'
    BY <1>0, <1>1 DEF DurableOK, IsWinner
<1> QED
    BY <1>2

\* A LEB without copies is unmapped.
LEMMA NoneIsReadNext == ASSUME Scans', NEW l \in LEB, Copies(l)' = {} PROVE Durable(l)' = Unmapped
  BY DEF Scans, DurableOK

\* What StoreInv says of a device that is up.
LEMMA StoreFacts ==
  ASSUME StoreInv
  PROVE  /\ Scans /\ TypeOK /\ ControlOK /\ CopyInv /\ MapInv /\ CtlInv /\ SqnumFresh /\ SqnumUnique
         /\ DataInv
         /\ \A p \in PEB : flash[p] \in PebState
         /\ \A l \in LEB : Copies(l) \subseteq PEB /\ eba_tbl[l] \in PEB \cup {NoPeb}
  BY ScansIs DEF StoreInv, PlaceInv, CopyInv, MapInv, CtlInv, SqnumInv, TypeOK, Copies

\* An eraseblock whose header survived a failed erasure keeps it, and the data may be torn.
LEMMA HalfErasedIs ==
  ASSUME NEW x \in PebState, NEW r \in HalfErased(x), r.st = "used"
  PROVE  /\ r \in PebState /\ x.st = "used" /\ r.lnum = x.lnum /\ r.sqnum = x.sqnum
         /\ r.copy_flag = x.copy_flag /\ r.crc = x.crc /\ r.data \in Scrambled(x.data)
<1>1. r = x \/ \E d \in Scrambled(x.data) : r = WithData(x, d)
    BY HdrFacts DEF HalfErased
<1>2. r \in PebState
    BY HalfErasedType
<1>3. CASE r = x
    BY <1>2, <1>3, ScrambledSelf
<1>4. ASSUME NEW d \in Scrambled(x.data), r = WithData(x, d)
      PROVE  /\ r.data = d /\ x.st = "used" /\ r.lnum = x.lnum /\ r.sqnum = x.sqnum
             /\ r.copy_flag = x.copy_flag /\ r.crc = x.crc
    BY <1>4 DEF WithData, PebState
<1> QED
    BY <1>1, <1>2, <1>3, <1>4

\* What is harmless stays so while it is erased.
LEMMA HarmlessErased ==
  ASSUME NEW x \in PebState, NEW m \in PebState, Harmless(x, m), x.copy_flag => Clean(x.crc),
         NEW r \in HalfErased(x), r.st = "used"
  PROVE  Harmless(r, m)
<1>1. /\ r \in PebState /\ r.sqnum = x.sqnum /\ r.copy_flag = x.copy_flag /\ r.crc = x.crc
      /\ r.data \in Scrambled(x.data)
    BY HalfErasedIs
<1>2. r.data = x.data => (CrcOk(r) <=> CrcOk(x))
    BY <1>1 DEF CrcOk
<1>3. r.data # x.data => r.data = [i \in 1..Len(r.data) |-> Torn]
  <2>1. r.data # x.data => r.data = [i \in 1..Len(x.data) |-> Torn]
      BY <1>1 DEF Scrambled
  <2>2. x.data \in Seq(Page \cup {Torn}) /\ r.data \in Seq(Page \cup {Torn})
      BY <1>1 DEF PebState, Content
  <2>3. Len(x.data) \in Nat
      BY <2>2, LenProperties
  <2> QED
      BY <2>1, <2>2, <2>3, LenProperties
<1>4. r.data # x.data /\ x.copy_flag => ~CrcOk(r)
    BY <1>1, <1>3, CleanFacts
<1>5. x.data = <<>> => r.data = <<>>
    BY <1>1, ScrambledEmpty
<1> QED
    BY <1>1, <1>2, <1>4, <1>5 DEF Harmless

\* An operation that is about to map its eraseblock has stored what it was given.
LEMMA MapReads ==
  ASSUME StoreInv, op.pc = "map"
  PROVE  /\ op.lnum \in LEB /\ op.pnum \in Copies(op.lnum) /\ flash[op.pnum].data = op.arg
         /\ flash[op.pnum].sqnum = op.sqnum /\ op.pnum \in PEB
         /\ flash[op.pnum].copy_flag => CrcOk(flash[op.pnum])
         /\ op.sqnum \in Nat
         /\ Durable(op.lnum) = op.arg
<1>0. TypeOK /\ ControlOK /\ DataInv /\ MapInv /\ Scans
    BY StoreFacts
<1>1. op.lnum \in LEB /\ op.pnum \in PEB /\ op.pnum \in Copies(op.lnum) /\ op.sqnum \in Nat
    BY <1>0 DEF ControlOK, MapInv, InStep, OpHolds, TypeOK, Op
<1>2. /\ flash[op.pnum] = WithData(OpHdr, op.arg)
      /\ \A x \in Copies(op.lnum) \ {op.pnum} : flash[x].sqnum < op.sqnum
    BY <1>0 DEF DataInv, OpShape
<1>3. /\ flash[op.pnum].data = op.arg /\ flash[op.pnum].sqnum = op.sqnum
      /\ flash[op.pnum].copy_flag => flash[op.pnum].crc = op.arg
    BY <1>2 DEF WithData, OpHdr, VidHdr
<1>4. flash[op.pnum].copy_flag => CrcOk(flash[op.pnum])
  <2>1. flash[op.pnum] \in PebState /\ CrcClean
      BY <1>0, <1>1 DEF TypeOK, DataInv
  <2> QED
      BY <1>1, <1>3, <2>1, CleanFacts DEF CrcClean
<1>5. \A x \in Copies(op.lnum) \ {op.pnum} : Harmless(flash[x], flash[op.pnum])
    BY <1>2, <1>3, <1>4 DEF Harmless
<1>6. Durable(op.lnum) = flash[op.pnum].data
    BY <1>0, <1>1, <1>5 DEF Scans, DurableOK
<1> QED
    BY <1>1, <1>3, <1>4, <1>6

\* Erasing, completely or not.
LEMMA EraseLegal ==
  ASSUME StoreInv, Scans', up = "up", ~ro_mode, work.k = "erase",
         NEW r \in HalfErased(flash[work.from]) \cup {Blank("free"), Blank("bad")},
         SetFlash(work.from, r)
  PROVE  Legal
<1>0. Scans /\ TypeOK /\ ControlOK /\ CopyInv /\ MapInv /\ DataInv /\ \A q \in PEB : flash[q] \in PebState
    BY StoreFacts
<1>p. PICK p \in PEB : p = work.from
    BY <1>0 DEF ControlOK
<1> DEFINE x == flash[p]
<1>1. x \in PebState /\ (x.st = "used" => x.lnum \in LEB)
    BY <1>0 DEF MapInv, InStep, Erased
<1>2. r.st = "used" => /\ r \in HalfErased(x) /\ x.st = "used" /\ r.lnum = x.lnum /\ r.sqnum = x.sqnum
                       /\ r.copy_flag = x.copy_flag /\ r.crc = x.crc /\ r.data \in Scrambled(x.data)
  <2>1. r.st = "used" => r \in HalfErased(x)
      BY <1>p, HdrFacts
  <2> QED
      BY <1>1, <2>1, HalfErasedIs
<1>3. CASE x.st # "used"
    BY <1>0, <1>p, <1>1, <1>2, <1>3, NoHeader
<1>4. CASE x.st = "used"
  <2>0. PICK l \in LEB : l = x.lnum
      BY <1>1, <1>4
  <2>1. l \in LEB /\ p \in Copies(l)
      BY <1>p, <2>0, <1>4 DEF Copies
  <2>2. /\ flash'[p] = r /\ \A q \in PEB : q # p => flash'[q] = flash[q]
        /\ \A k \in LEB : k # l => Durable(k)' = Durable(k)
        /\ \A q \in PEB : q # p => \A k : q \in Copies(k)' <=> q \in Copies(k)
        /\ \A k : p \in Copies(k)' <=> r.st = "used" /\ r.lnum = k
    <3>1. SetFlash(p, r) /\ flash[p].lnum = l /\ (r.st = "used" => r.lnum = l)
        BY <1>p, <1>2, <2>0
    <3> HIDE DEF x
    <3>2. WritesOnly(p, r, l)
        BY <1>0, <3>1, OthersSame
    <3> QED
        BY <3>2 DEF WritesOnly
  <2>c. Copies(l)' \subseteq PEB /\ Copies(l) \subseteq PEB
      BY DEF Copies
  <2>e. ErasedFine(l, x)
      BY <1>0, <1>p, <2>1 DEF DataInv, Waste
  <2>z. p \in Copies(l)' => r.st = "used"
      BY <2>2
  <2> HIDE DEF x
  <2> SUFFICES \/ Durable(l)' = Durable(l)
               \/ l = op.lnum /\ op.kind \in Kinds /\ Durable(l)' \in LS!Allowed(AbsReq)
      BY <2>2 DEF Legal
  <2>3. CASE eba_tbl[l] = NoPeb
    <3>1. Unfinished(l, x)
        BY <2>3, <2>e DEF ErasedFine
    <3>2. Copies(l) = {p}
        BY <1>0, <2>1, <2>3, <2>c DEF CopyInv, Lone
    <3>3. Copies(l)' \subseteq {p}
        BY <2>2, <2>c, <3>2
    <3>4. op.kind \in Kinds /\ op.lnum = l
        BY <3>1 DEF Unfinished, Kinds
    <3>5. Unmapped \in LS!Allowed(AbsReq) /\ Scrambled(x.data) \subseteq LS!Allowed(AbsReq)
      <4>1. CASE op.kind \in {"write", "change"}
        <5>1. op.base = Unmapped /\ x.data \in Partial(op.arg)
            BY <1>0, <2>3, <3>1, <4>1 DEF DataInv, OpBase, Unfinished
        <5> QED
            BY <1>0, <3>4, <5>1, AllowedFresh
      <4>2. CASE op.kind = "unmap"
        <5>1. op.base \in Content /\ x.data = op.base
            BY <1>0, <3>1, <4>2 DEF DataInv, OpBase, Unfinished
        <5> QED
            BY <1>0, <4>2, <5>1, AllowedOther, UnmappedAssumption
      <4> QED
          BY <3>1, <4>1, <4>2 DEF Unfinished
    <3>6. CASE Copies(l)' = {}
        BY <2>1, <3>4, <3>5, <3>6, NoneIsReadNext
    <3>7. CASE p \in Copies(l)'
      <4>1. Durable(l)' = flash'[p].data
          BY <2>1, <3>3, <3>7, HarmlessPairNext
      <4> QED
          BY <1>2, <2>2, <2>z, <3>4, <3>5, <3>7, <4>1
    <3> QED
        BY <3>3, <3>6, <3>7
  <2>4. CASE eba_tbl[l] # NoPeb /\ Changing /\ op.lnum = l
    <3>1. /\ op.pnum \in Copies(l) /\ flash[op.pnum].sqnum = op.sqnum /\ op.pnum \in PEB
          /\ flash[op.pnum].copy_flag => CrcOk(flash[op.pnum])
          /\ Durable(l) = flash[op.pnum].data
        BY <2>4, MapReads DEF Changing
    <3>2. op.pnum # p
        BY <1>0, <1>p, <2>1, <2>4, <3>1 DEF MapInv, InStep, Stale, OpHolds, Changing
    <3>3. op.pnum \in Copies(l)' /\ flash'[op.pnum] = flash[op.pnum]
        BY <2>2, <3>1, <3>2
    <3>4. \A q \in Copies(l)' \ {op.pnum} : Harmless(flash'[q], flash'[op.pnum])
      <4>1. \A q \in Copies(l) \ {op.pnum} : flash[q].sqnum < op.sqnum
          BY <1>0, <2>4 DEF DataInv, OpShape, Changing
      <4>2. \A q \in Copies(l)' \ {op.pnum} : flash'[q].sqnum = flash[q].sqnum /\ q \in Copies(l)
          BY <1>2, <2>1, <2>2, <2>c, <2>z DEF x
      <4> QED
          BY <3>1, <3>3, <4>1, <4>2 DEF Harmless
    <3>5. Durable(l)' = flash'[op.pnum].data
        BY <2>1, <3>3, <3>4 DEF Scans, DurableOK
    <3> QED
        BY <3>1, <3>3, <3>5
  <2>5. CASE eba_tbl[l] # NoPeb /\ ~(Changing /\ op.lnum = l)
    <3>m. PICK m \in PEB : m = eba_tbl[l]
        BY <1>0, <2>5 DEF TypeOK
    <3>1. m \in Copies(l) /\ m # p
        BY <1>0, <1>p, <2>1, <2>5, <3>m DEF MapInv, InStep, MappingValid, ErasedIsUnmapped, Changing
    <3>2. m \in PEB /\ flash'[m] = flash[m] /\ m \in Copies(l)'
        BY <2>2, <2>c, <3>1
    <3>3. Copies(l)' \subseteq {m, p} /\ Copies(l) \subseteq {m, p}
        BY <1>0, <2>1, <2>2, <2>c, <3>1 DEF CopyInv, Few
    <3>4. CASE Harmless(x, flash[m])
      <4>1. Durable(l) = flash[m].data
          BY <1>0, <2>1, <3>1, <3>3, <3>4, HarmlessPair DEF x
      <4>2. p \in Copies(l)' => Harmless(flash'[p], flash'[m])
        <5>1. x.copy_flag => Clean(x.crc)
            BY <1>0, <1>1 DEF DataInv, CrcClean, x
        <5> QED
            BY <1>0, <1>1, <1>2, <2>2, <2>z, <3>2, <3>4, <5>1, HarmlessErased
      <4>3. Durable(l)' = flash'[m].data
          BY <2>1, <3>2, <3>3, <4>2, HarmlessPairNext
      <4> QED
          BY <3>2, <4>1, <4>3
    <3>5. CASE Leftover(l, x, flash[m])
      <4>1. op.lnum = l /\ op.kind \in Kinds /\ op.arg \in Content
          BY <1>0, <3>5 DEF Leftover, DataInv, KindOf, Kinds, TypeOK, Op
      <4>2. \/ Durable(l)' = flash'[m].data
            \/ Durable(l)' = r.data /\ r.st = "used" /\ Beats(p, m)'
          BY <2>1, <2>2, <2>z, <3>1, <3>2, <3>3, OneIsReadNext
      <4>3. CASE op.pc = "retry" /\ op.kind = "change"
        <5>1. op.base = flash[m].data /\ op.arg \in Written
            BY <1>0, <2>5, <3>m, <4>1, <4>3 DEF DataInv, OpBase, OpShape, RamData
        <5>2. flash[m].data \in Content
            BY <1>0, <3>2 DEF PebState
        <5>3. op.base \in LS!Allowed(AbsReq) /\ op.arg \in LS!Allowed(AbsReq)
            BY <1>0, <4>3, <5>1, <5>2, AllowedOther, UnmappedAssumption
        <5>4. ASSUME r.st = "used", Beats(p, m)'
              PROVE  r.data = op.arg
          <6>1. /\ r.copy_flag /\ r.crc = op.arg /\ x.data \in Partial(op.arg)
                /\ r.sqnum > flash'[m].sqnum
              BY <1>2, <3>2, <3>5, <4>3, <5>4 DEF Leftover
          <6>2. CrcOk(r)
              BY <2>2, <5>4, <6>1 DEF Beats
          <6>3. r \in PebState
              BY <1>1, <1>2, <5>4, HalfErasedIs
          <6>4. Clean(r.crc)
              BY <1>0, <1>1, <1>2, <5>4, <6>1 DEF DataInv, CrcClean, x
          <6>5. r.data = x.data
            <7>1. r.data # x.data => r.data = [i \in 1..Len(r.data) |-> Torn]
              <8>1. r.data # x.data => r.data = [i \in 1..Len(x.data) |-> Torn]
                  BY <1>2, <5>4 DEF Scrambled
              <8>2. x.data \in Seq(Page \cup {Torn}) /\ r.data \in Seq(Page \cup {Torn})
                  BY <1>1, <6>3 DEF PebState, Content
              <8>3. Len(x.data) \in Nat
                  BY <8>2, LenProperties
              <8> QED
                  BY <8>1, <8>2, <8>3, LenProperties
            <7> QED
                BY <6>2, <6>3, <6>4, <7>1, CleanFacts
          <6> QED
              BY <6>1, <6>2, <6>3, <6>4, <6>5, CleanFacts
        <5> QED
            BY <3>2, <4>1, <4>2, <5>1, <5>3, <5>4
      <4>4. CASE op.pc = "rfail"
        <5>1. op.kind = "append" /\ op.base \in Content /\ flash[m].data \in Extended
            BY <1>0, <3>m, <4>1, <4>4 DEF DataInv, OpBase, KindOf, RamData
        <5>2. r.st = "used" => r.data = <<>>
            BY <1>2, <3>5, <4>4, ScrambledEmpty DEF Leftover
        <5> QED
            BY <1>0, <3>2, <4>1, <4>2, <5>1, <5>2, AllowedAppend
      <4>5. CASE op.pc = "done" /\ op.kind = "append"
        <5>1. op.base \in Content /\ flash[m].data = op.base \o op.arg
            BY <1>0, <3>m, <4>1, <4>5 DEF DataInv, OpBase, RamData
        <5>2. r.st = "used" => \E e \in Extended : r.data \in Scrambled(e)
            BY <1>2, <3>5, <4>5 DEF Leftover
        <5> QED
            BY <1>0, <3>2, <4>1, <4>2, <4>5, <5>1, <5>2, AllowedAppend
      <4> QED
          BY <3>5, <4>3, <4>4, <4>5 DEF Leftover
    <3> QED
        BY <2>5, <2>e, <3>m, <3>4, <3>5 DEF ErasedFine
  <2> QED
      BY <2>3, <2>4, <2>5
<1> QED
    BY <1>3, <1>4

\* The copy a move writes, and what it is to its source.
LEMMA CopyIs ==
  ASSUME StoreInv, Copying, NEW r,
         \/ work.k = "mvid" /\ r = CopyHdr
         \/ work.k = "mdata" /\ \E d \in Partial(Src.data) : r = WithData(flash[work.to], d)
  PROVE  /\ r \in PebState /\ r.st = "used" /\ r.lnum = Src.lnum /\ r.sqnum > Src.sqnum
         /\ r.copy_flag => Clean(r.crc)
         /\ Harmless(r, Src)
         /\ Src.data # <<>> => Clean(Src.data) /\ r.copy_flag /\ r.crc = Src.data
         /\ work.k = "mvid" => r.data = <<>>
<1>0. TypeOK /\ ControlOK /\ MapInv /\ SqnumFresh /\ DataInv /\ CrcClean
    BY StoreFacts DEF DataInv
<1>1. CopyFrom /\ MoveTo /\ work.k \in {"mvid", "mdata"}
    BY <1>0, CopyFromHolds, MoveToHolds DEF Copying
<1>2. work.from \in PEB /\ work.to \in PEB /\ Src \in PebState /\ Src.st = "used" /\ up = "up"
    BY <1>0, <1>1 DEF CopyFrom, MoveTo, Waiting, Src, TypeOK
<1>3. /\ Src.data \in Content /\ Src.sqnum \in Nat /\ Src.copy_flag \in BOOLEAN
      /\ Src.copy_flag => Clean(Src.crc)
    BY <1>0, <1>2 DEF PebState, CrcClean, Src
<1>4. CASE work.k = "mvid"
  <2>1. CanCopy /\ r = CopyHdr /\ Src.sqnum < global_sqnum /\ global_sqnum \in Nat
      BY <1>0, <1>2, <1>4 DEF Copying, SqnumFresh, Src, TypeOK
  <2>2. CASE Src.data = <<>>
    <3>1. r = [Src EXCEPT !.sqnum = global_sqnum]
        BY <2>1, <2>2 DEF CopyHdr
    <3>2. /\ r \in PebState /\ r.st = "used" /\ r.lnum = Src.lnum /\ r.sqnum = global_sqnum
          /\ r.copy_flag = Src.copy_flag /\ r.crc = Src.crc /\ r.data = <<>>
        BY <1>2, <2>1, <2>2, <3>1 DEF PebState
    <3> QED
        BY <1>3, <1>4, <2>1, <2>2, <3>2 DEF Harmless
  <2>3. CASE Src.data # <<>>
    <3>1. r = VidHdr(Src.lnum, global_sqnum, TRUE, Src.data)
        BY <2>1, <2>3 DEF CopyHdr
    <3>2. /\ r.st = "used" /\ r.lnum = Src.lnum /\ r.sqnum = global_sqnum
          /\ r.copy_flag = TRUE /\ r.crc = Src.data /\ r.data = <<>>
        BY <3>1 DEF VidHdr
    <3>3. r \in PebState
      <4>1. Src.lnum \in LEB \cup {NoLeb}
          BY <1>2 DEF PebState
      <4> QED
          BY <1>3, <2>1, <3>1, <4>1, EmptyIsContent DEF VidHdr, PebState
    <3>4. Clean(Src.data)
      <4>1. ~EccError(Src.data, Len(Src.data)) /\ Len(Src.data) \in Nat
          BY <1>1, <1>2, <1>3, <2>1, LenProperties DEF CanCopy, CannotReadSrc, CopyFrom, Content
      <4> QED
          BY <2>3, <4>1 DEF EccError, Clean
    <3>5. ~CrcOk(r)
        BY <3>2, <3>3, <3>4, CleanFacts
    <3> QED
        BY <1>3, <1>4, <2>1, <3>2, <3>3, <3>4, <3>5 DEF Harmless
  <2> QED
      BY <2>2, <2>3
<1>5. CASE work.k = "mdata"
  <2>1. PICK d \in Partial(Src.data) : r = WithData(flash[work.to], d)
      BY <1>5
  <2>2. /\ Clean(Src.data) /\ flash[work.to].copy_flag /\ flash[work.to].crc = Src.data
        /\ flash[work.to].sqnum > Src.sqnum /\ flash[work.to] \in PebState
        /\ flash[work.to].st = "used" /\ flash[work.to].lnum = Src.lnum
      BY <1>0, <1>2, <1>5 DEF DataInv, MoveShape, TypeOK, MapInv, InStep, MoveHolds, Copies
  <2>3. d \in Content
      BY <1>3, PartialIsContent
  <2>4. /\ r.st = "used" /\ r.lnum = Src.lnum /\ r.sqnum > Src.sqnum /\ r.copy_flag
        /\ r.crc = Src.data /\ r.data = d /\ r \in PebState
      BY <2>1, <2>2, <2>3 DEF WithData, PebState
  <2>5. CrcOk(r) => r.data = Src.data
      BY <2>2, <2>4, CleanFacts
  <2> QED
      BY <1>5, <2>2, <2>4, <2>5 DEF Harmless
<1> QED
    BY <1>1, <1>4, <1>5

\* While a LEB is being copied it has no copies but the two, and reads as the source.
LEMMA CopyReads ==
  ASSUME StoreInv, Copying, NEW l \in LEB, l = Src.lnum, NEW e1, e1 = work.from, NEW e2, e2 = work.to
  PROVE  /\ e1 \in Copies(l) /\ Copies(l) \subseteq {e1, e2} /\ e1 # e2 /\ e1 \in PEB /\ e2 \in PEB
         /\ work.k = "mvid" => e2 \notin Copies(l) /\ flash[e2].st = "free"
         /\ Durable(l) = flash[e1].data
<1>0. TypeOK /\ ControlOK /\ MapInv /\ DataInv /\ Scans /\ CopyInv
    BY StoreFacts
<1>1. CopyFrom /\ MoveTo /\ work.k \in {"mvid", "mdata"}
    BY <1>0, CopyFromHolds, MoveToHolds DEF Copying
<1>2. e1 \in Copies(l) /\ e1 # e2 /\ e1 \in PEB /\ e2 \in PEB /\ eba_tbl[l] = e1
    BY <1>1 DEF CopyFrom, MoveTo, Copies, Src
<1>3. CASE work.k = "mvid"
  <2>1. flash[e2].st = "free" /\ e2 \notin Copies(l)
      BY <1>0, <1>3 DEF MapInv, InStep, MoveHolds, Copies
  <2>2. Copies(l) = {e1}
    <3>1. Copies(l) \subseteq {e1} \cup InFlight
        BY <1>0, <1>1, <1>2 DEF CopyInv, Extra, MoveTo, Waiting, CopyFrom
    <3>2. \A q \in Copies(l) \cap InFlight : op.pc = "map" /\ q = op.pnum
        BY <1>1, <1>3 DEF InFlight, MoveTo, Waiting
    <3>3. op.pc = "map" => op.pnum \notin Copies(l)
      <4>1. op.pc = "map" => op.pnum \in Copies(op.lnum) /\ op.lnum # l
          BY <1>0, <1>1 DEF MapInv, InStep, OpHolds, CopyFrom, MoveTo, Waiting
      <4> QED
          BY <4>1 DEF Copies
    <3> QED
        BY <1>2, <3>1, <3>2, <3>3
  <2>3. Durable(l) = flash[e1].data
      BY <1>0, <1>2, <2>2, HarmlessPair
  <2> QED
      BY <1>2, <2>1, <2>2, <2>3
<1>4. CASE work.k = "mdata"
  <2>1. e2 \in Copies(l)
      BY <1>0, <1>4 DEF MapInv, InStep, MoveHolds
  <2>2. Copies(l) \subseteq {e1, e2}
      BY <1>0, <1>2, <2>1 DEF CopyInv, Few
  <2>3. Harmless(flash[e2], flash[e1])
    <3>1. /\ flash[e2].copy_flag /\ flash[e2].crc = Src.data /\ Clean(Src.data)
          /\ flash[e2].data = <<>> /\ flash[e2].sqnum > Src.sqnum
        BY <1>0, <1>4 DEF DataInv, MoveShape
    <3>2. ~CrcOk(flash[e2])
        BY <1>0, <1>2, <3>1, CleanFacts DEF TypeOK
    <3> QED
        BY <3>1, <3>2 DEF Harmless, Src
  <2>4. Durable(l) = flash[e1].data
      BY <1>0, <1>2, <2>2, <2>3, HarmlessPair
  <2> QED
      BY <1>2, <1>4, <2>2, <2>4
<1> QED
    BY <1>1, <1>3, <1>4

\* Copying a LEB changes nothing a reader sees, however far it gets.
LEMMA MoveLegal ==
  ASSUME StoreInv, Scans', Copying, NEW r, SetFlash(work.to, r),
         \/ work.k = "mvid" /\ r \in {flash[work.to], Blank("corr"), CopyHdr}
         \/ work.k = "mdata" /\ \E d \in Partial(Src.data) : r = WithData(flash[work.to], d)
  PROVE  (\A l \in LEB : Durable(l)' = Durable(l)) /\ Legal
<1>0. TypeOK /\ MapInv /\ Scans
    BY StoreFacts
<1>1. CopyFrom /\ MoveTo /\ work.k \in {"mvid", "mdata"}
    BY <1>0, CopyFromHolds, MoveToHolds DEF Copying
<1>2. PICK l \in LEB, e1 \in PEB, e2 \in PEB : l = Src.lnum /\ e1 = work.from /\ e2 = work.to
    BY <1>1 DEF CopyFrom, MoveTo
<1>3. /\ e1 \in Copies(l) /\ Copies(l) \subseteq {e1, e2} /\ e1 # e2
      /\ work.k = "mvid" => e2 \notin Copies(l) /\ flash[e2].st = "free"
      /\ Durable(l) = flash[e1].data
    BY <1>2, CopyReads
<1>4. r.st = "used" => r.lnum = l /\ Harmless(r, flash[e1])
  <2>1. CASE work.k = "mdata" \/ r = CopyHdr
    <3>1. r.lnum = Src.lnum /\ Harmless(r, Src)
        BY <2>1, CopyIs
    <3> QED
        BY <1>2, <3>1 DEF Src
  <2>2. CASE work.k = "mvid" /\ r # CopyHdr
      BY <1>2, <1>3, <2>2, HdrFacts
  <2> QED
      BY <1>1, <2>1, <2>2
<1>5. flash[e2].st = "used" => flash[e2].lnum = l
    BY <1>0, <1>1, <1>2, <1>3 DEF MapInv, InStep, MoveHolds, Copies
<1>6. /\ flash'[e2] = r /\ \A q \in PEB : q # e2 => flash'[q] = flash[q]
      /\ \A k \in LEB : k # l => Durable(k)' = Durable(k)
      /\ \A q \in PEB : q # e2 => \A k : q \in Copies(k)' <=> q \in Copies(k)
      /\ \A k : e2 \in Copies(k)' <=> r.st = "used" /\ r.lnum = k
  <2>1. SetFlash(e2, r) /\ (r.st = "used" => r.lnum = l)
      BY <1>2, <1>4
  <2>2. WritesOnly(e2, r, l)
      BY <1>0, <1>5, <2>1, OthersSame
  <2> QED
      BY <2>2 DEF WritesOnly
<1>7. e1 \in Copies(l)' /\ Copies(l)' \subseteq {e1, e2} /\ flash'[e1] = flash[e1]
  <2>1. Copies(l)' \subseteq PEB
      BY DEF Copies
  <2> QED
      BY <1>3, <1>6, <2>1
<1>8. e2 \in Copies(l)' => Harmless(flash'[e2], flash'[e1])
    BY <1>4, <1>6, <1>7
<1>9. Durable(l)' = flash'[e1].data
    BY <1>7, <1>8, HarmlessPairNext
<1> QED
    BY <1>3, <1>6, <1>7, <1>9 DEF Legal

\* What a user writes can be read back.
LEMMA WrittenIsClean == \A c \in Written : c # <<>> => Clean(c)
<1> SUFFICES ASSUME NEW c \in Written, c # <<>>
             PROVE  \A i \in 1..Len(c) : c[i] # Torn
    BY DEF Clean
<1>1. PICK n \in 0..MaxPages : c \in [1..n -> Page]
    BY DEF Written
<1>2. Len(c) = n
    BY <1>1, PagesAssumption
<1> QED
    BY <1>1, <1>2, TornIsNoPage

\* The header an operation writes.
LEMMA OpHdrIs ==
  ASSUME StoreInv, op.lnum \in LEB
  PROVE  /\ OpHdr \in PebState /\ OpHdr.st = "used" /\ OpHdr.lnum = op.lnum
         /\ OpHdr.sqnum = op.sqnum /\ OpHdr.data = <<>>
         /\ op.kind = "change" => OpHdr.copy_flag /\ OpHdr.crc = op.arg /\ Clean(op.arg)
         /\ op.kind # "change" => ~OpHdr.copy_flag
         /\ OpHdr.copy_flag => Clean(OpHdr.crc)
<1>0. TypeOK /\ MapInv /\ DataInv
    BY StoreFacts
<1>1. op.arg \in Content /\ op.sqnum \in Nat /\ <<>> \in Content
    BY <1>0, EmptyIsContent DEF TypeOK, Op
<1>2. op.kind = "change" => Clean(op.arg)
    BY <1>0, WrittenIsClean DEF DataInv, OpShape, MapInv, InStep, Stages
<1>3. CASE op.kind = "change"
  <2>1. OpHdr = VidHdr(op.lnum, op.sqnum, TRUE, op.arg)
      BY <1>3 DEF OpHdr
  <2> QED
      BY <1>1, <1>2, <1>3, <2>1 DEF VidHdr, PebState
<1>4. CASE op.kind # "change"
  <2>1. OpHdr = VidHdr(op.lnum, op.sqnum, FALSE, <<>>)
      BY <1>4 DEF OpHdr
  <2> QED
      BY <1>1, <1>4, <2>1 DEF VidHdr, PebState
<1> QED
    BY <1>3, <1>4

\* The header recover_peb writes.
LEMMA RecoveredHdrIs ==
  ASSUME StoreInv, op.old \in PEB
  PROVE  /\ RecoveredHdr \in PebState /\ RecoveredHdr.st = flash[op.old].st
         /\ RecoveredHdr.lnum = flash[op.old].lnum
         /\ RecoveredHdr.sqnum = op.sqnum /\ RecoveredHdr.data = <<>>
         /\ RecoveredHdr.copy_flag => Clean(RecoveredHdr.crc)
<1>0. TypeOK /\ CrcClean
    BY StoreFacts DEF DataInv
<1>1. op.sqnum \in Nat /\ <<>> \in Content /\ flash[op.old] \in PebState
    BY <1>0, EmptyIsContent DEF TypeOK, Op
<1> QED
    BY <1>0, <1>1 DEF RecoveredHdr, PebState, CrcClean

\* The number an operation has taken is the highest.
LEMMA OpIsNewest ==
  ASSUME StoreInv, up = "up", op.pc \in {"vid", "data", "rvid", "rdata"}
  PROVE  /\ \A q \in PEB : flash[q].st = "used" /\ q # op.pnum => flash[q].sqnum < op.sqnum
         /\ op.pc \in {"vid", "rvid"} => flash[op.pnum].st = "free"
         /\ op.lnum \in LEB /\ op.pnum \in PEB
         /\ todo = {} /\ work = NoWork /\ work.k = "none"
<1>0. TypeOK /\ ControlOK /\ MapInv /\ DataInv /\ SqnumFresh /\ SqnumUnique
    BY StoreFacts
<1>1. op.sqnum \in Nat /\ global_sqnum \in Nat /\ op.sqnum + 1 = global_sqnum
    BY <1>0 DEF TypeOK, Op, DataInv, OpShape
<1>2. /\ op.lnum \in LEB /\ op.pnum \in PEB /\ todo = {} /\ work = NoWork /\ work.k = "none"
      /\ op.pc \in {"vid", "rvid"} => flash[op.pnum].st = "free"
    BY <1>0, WorkFacts DEF ControlOK, MapInv, InStep, Stages, OpHolds
<1>3. ASSUME NEW q \in PEB, flash[q].st = "used", q # op.pnum
      PROVE  flash[q].sqnum < op.sqnum
  <2>1. flash[q].sqnum \in Nat /\ flash[q].sqnum < global_sqnum
      BY <1>0, <1>3 DEF TypeOK, PebState, SqnumFresh
  <2>2. flash[q].sqnum # op.sqnum
    <3>1. CASE op.pc \in {"vid", "rvid"}
        BY <1>0, <1>3, <3>1 DEF SqnumFresh
    <3>2. CASE op.pc = "data"
      <4>1. flash[op.pnum].sqnum = op.sqnum /\ flash[op.pnum].st = "used"
          BY <1>0, <1>2, <3>2, OpHdrIs DEF DataInv, OpShape
      <4> QED
          BY <1>0, <1>2, <1>3, <4>1 DEF SqnumUnique
    <3>3. CASE op.pc = "rdata"
      <4>1. flash[op.pnum] = RecoveredHdr /\ op.pnum \in Copies(op.lnum) /\ op.old \in PEB
          BY <1>0, <3>3 DEF DataInv, OpShape, MapInv, InStep, OpHolds, ControlOK
      <4>2. flash[op.pnum].sqnum = op.sqnum /\ flash[op.pnum].st = "used"
          BY <4>1, RecoveredHdrIs DEF Copies
      <4> QED
          BY <1>0, <1>2, <1>3, <4>2 DEF SqnumUnique
    <3> QED
        BY <3>1, <3>2, <3>3
  <2> QED
      BY <1>1, <2>1, <2>2
<1> QED
    BY <1>2, <1>3

\* Writing the header of an unmapped LEB, or of an atomic change.
LEMMA VidLegal ==
  ASSUME StoreInv, Scans', Alone("vid"), ~ro_mode, NEW r \in VidHdrLeft, SetFlash(op.pnum, r)
  PROVE  Legal
<1>0. TypeOK /\ MapInv /\ Scans /\ CopyInv /\ DataInv
    BY StoreFacts
<1>1. PICK l \in LEB, p \in PEB : /\ l = op.lnum /\ p = op.pnum /\ flash[p].st = "free"
                                  /\ todo = {} /\ work.k = "none"
    BY OpIsNewest DEF Alone
<1>2. op.kind \in {"write", "change"} /\ op.kind \in Kinds
    BY <1>0 DEF MapInv, InStep, Stages, Alone, Kinds
<1>3. CASE r.st # "used"
    BY <1>0, <1>1, <1>3, NoHeader
<1>4. CASE r.st = "used"
  <2>1. r = OpHdr
      BY <1>1, <1>4, HdrFacts DEF VidHdrLeft
  <2>2. /\ r \in PebState /\ r.lnum = l /\ r.sqnum = op.sqnum /\ r.data = <<>>
        /\ op.kind = "change" => r.copy_flag /\ r.crc = op.arg /\ Clean(op.arg)
      BY <1>1, <2>1, OpHdrIs
  <2>3. WritesOnly(p, r, l)
      BY <1>0, <1>1, <2>2, OthersSame
  <2>4. Copies(l) \subseteq {eba_tbl[l]} /\ p \notin Copies(l) /\ Copies(l)' \subseteq PEB
      BY <1>0, <1>1, NoneInFlight DEF Alone, Copies
  <2>5. p \in Copies(l)' /\ flash'[p] = r
      BY <1>4, <2>2, <2>3 DEF WritesOnly
  <2>6. CASE eba_tbl[l] = NoPeb
    <3>1. Copies(l)' \subseteq {p, p}
        BY <2>3, <2>4, <2>6 DEF WritesOnly, Copies
    <3>2. Durable(l)' = <<>>
        BY <2>2, <2>5, <3>1, HarmlessPairNext
    <3>3. op.base = Unmapped /\ op.arg \in Content
        BY <1>0, <1>1, <1>2, <2>6 DEF DataInv, OpBase, TypeOK, Op
    <3>4. <<>> \in LS!Allowed(AbsReq)
        BY <1>0, <1>2, <3>3, AllowedFresh, PartialEnds
    <3> QED
        BY <1>1, <1>2, <2>3, <3>2, <3>4 DEF Legal, WritesOnly
  <2>7. CASE eba_tbl[l] # NoPeb
    <3>1. PICK m \in PEB : m = eba_tbl[l]
        BY <1>0, <2>7 DEF TypeOK
    <3>2. op.kind = "change" /\ m \in Copies(l) /\ m # p
        BY <1>0, <1>1, <1>2, <2>7, <3>1, MapBefore DEF MapInv, InStep, Stages, Alone, Copies
    <3>3. Durable(l) = flash[m].data
        BY <1>0, <2>4, <3>1, <3>2, HarmlessPair
    <3>4. m \in Copies(l)' /\ Copies(l)' \subseteq {m, p} /\ flash'[m] = flash[m]
        BY <2>3, <2>4, <3>1, <3>2 DEF WritesOnly
    <3>5. Harmless(r, flash[m])
      <4>1. ~CrcOk(r)
          BY <2>2, <3>2, CleanFacts
      <4>2. r.sqnum > flash[m].sqnum
        <5>1. flash[m].sqnum < op.sqnum /\ flash[m].sqnum \in Nat /\ op.sqnum \in Nat
            BY <1>0, <1>1, <3>1, <3>2, OpIsNewest DEF Copies, Alone, TypeOK, Op, PebState
        <5> QED
            BY <2>2, <5>1
      <4> QED
          BY <2>2, <3>2, <4>1, <4>2 DEF Harmless
    <3>6. Durable(l)' = flash'[m].data
        BY <2>5, <3>4, <3>5, HarmlessPairNext
    <3> QED
        BY <2>3, <3>3, <3>4, <3>6 DEF Legal, WritesOnly
  <2> QED
      BY <2>6, <2>7
<1> QED
    BY <1>3, <1>4

\* While an operation writes its eraseblock, the LEB has no copy but that and the mapped one.
LEMMA WritingPair ==
  ASSUME StoreInv, ~ro_mode, NEW pc \in {"data", "rdata"}, Alone(pc),
         NEW l \in LEB, l = op.lnum, NEW p \in PEB, p = op.pnum
  PROVE  /\ Copies(l) \subseteq {eba_tbl[l], p} /\ p \in Copies(l) /\ eba_tbl[l] # p
         /\ eba_tbl[l] # NoPeb => eba_tbl[l] \in Copies(l) /\ eba_tbl[l] \in PEB
<1>0. TypeOK /\ MapInv /\ CopyInv
    BY StoreFacts
<1>1. InFlight \subseteq {p}
    BY OpIsNewest DEF InFlight, Alone
<1>2. Copies(l) \subseteq {eba_tbl[l]} \cup InFlight
    BY <1>0 DEF CopyInv, Extra, Alone
<1>3. p \in Copies(l) /\ eba_tbl[l] # p
    BY <1>0 DEF MapInv, InStep, OpHolds, Alone
<1>4. eba_tbl[l] # NoPeb => eba_tbl[l] \in Copies(l)
    BY <1>0, MapBefore DEF Alone
<1> QED
    BY <1>1, <1>2, <1>3, <1>4 DEF Copies

\* Writing the data of an unmapped LEB, or of an atomic change.
LEMMA DataLegal ==
  ASSUME StoreInv, Scans', Alone("data"), ~ro_mode, NEW d \in Partial(op.arg),
         SetFlash(op.pnum, WithData(flash[op.pnum], d))
  PROVE  Legal
<1>0. TypeOK /\ MapInv /\ Scans /\ CopyInv /\ DataInv
    BY StoreFacts
<1>1. PICK l \in LEB, p \in PEB : l = op.lnum /\ p = op.pnum
    BY OpIsNewest DEF Alone
<1>2. op.kind \in {"write", "change"} /\ op.kind \in Kinds
    BY <1>0 DEF MapInv, InStep, Stages, Alone, Kinds
<1>3. PICK r : r = WithData(OpHdr, d)
    OBVIOUS
<1>4. SetFlash(p, r) /\ flash[p].st = "used" /\ flash[p].lnum = l
    BY <1>0, <1>1, <1>3, OpHdrIs DEF DataInv, OpShape, Alone
<1>5. /\ r \in PebState /\ r.st = "used" /\ r.lnum = l /\ r.sqnum = op.sqnum /\ r.data = d
      /\ op.kind = "change" => r.copy_flag /\ r.crc = op.arg /\ Clean(op.arg)
  <2>1. d \in Content
      BY <1>0, PartialIsContent DEF TypeOK, Op
  <2> QED
      BY <1>1, <1>3, <2>1, OpHdrIs DEF WithData, PebState
<1>6. WritesOnly(p, r, l)
    BY <1>0, <1>4, <1>5, OthersSame
<1>7. /\ Copies(l) \subseteq {eba_tbl[l], p} /\ p \in Copies(l) /\ eba_tbl[l] # p
      /\ eba_tbl[l] # NoPeb => eba_tbl[l] \in Copies(l) /\ eba_tbl[l] \in PEB
    BY <1>1, WritingPair
<1>8. p \in Copies(l)' /\ flash'[p] = r /\ Copies(l)' \subseteq PEB /\ Copies(l)' \subseteq {eba_tbl[l], p}
  <2>1. Copies(l)' \subseteq PEB
      BY DEF Copies
  <2> QED
      BY <1>5, <1>6, <1>7, <2>1 DEF WritesOnly
<1>9. CASE eba_tbl[l] = NoPeb
  <2>1. Copies(l)' \subseteq {p, p}
      BY <1>8, <1>9, PebFinite
  <2>2. Durable(l)' = d
      BY <1>5, <1>8, <2>1, HarmlessPairNext
  <2>3. op.base = Unmapped
      BY <1>0, <1>1, <1>2, <1>9 DEF DataInv, OpBase
  <2>4. d \in LS!Allowed(AbsReq)
      BY <1>0, <1>2, <2>3, AllowedFresh
  <2> QED
      BY <1>1, <1>2, <1>6, <2>2, <2>4 DEF Legal, WritesOnly
<1>10. CASE eba_tbl[l] # NoPeb
  <2>1. PICK m \in PEB : m = eba_tbl[l]
      BY <1>7, <1>10
  <2>2. op.kind = "change" /\ m \in Copies(l) /\ m # p /\ op.base = flash[m].data
      BY <1>0, <1>1, <1>2, <1>7, <1>10, <2>1 DEF MapInv, InStep, Stages, Alone, DataInv, OpBase, RamData
  <2>3. m \in Copies(l)' /\ Copies(l)' \subseteq {m, p} /\ flash'[m] = flash[m]
      BY <1>6, <1>7, <1>8, <2>1, <2>2 DEF WritesOnly
  <2>4. op.base # Unmapped
      BY <1>0, <2>2, UnmappedAssumption DEF TypeOK, PebState
  <2>5. Durable(l)' = op.base \/ Durable(l)' = op.arg
    <3>1. CASE Durable(l)' = flash'[m].data
        BY <2>2, <2>3, <3>1
    <3>2. CASE Durable(l)' = flash'[p].data /\ Beats(p, m)'
      <4>1. flash[m].sqnum < op.sqnum /\ flash[m].sqnum \in Nat /\ op.sqnum \in Nat
          BY <1>0, <1>1, <2>1, <2>2, OpIsNewest DEF Copies, Alone, TypeOK, Op, PebState
      <4>2. flash'[p].sqnum > flash'[m].sqnum
          BY <1>5, <1>8, <2>3, <4>1
      <4>3. CrcOk(r)
          BY <1>5, <1>8, <2>2, <3>2, <4>2 DEF Beats
      <4>4. r.data = op.arg
          BY <1>5, <2>2, <4>3, CleanFacts
      <4> QED
          BY <1>8, <3>2, <4>4
    <3> QED
        BY <2>2, <2>3, <3>1, <3>2, OneIsReadNext
  <2>6. Durable(l)' \in LS!Allowed(AbsReq)
      BY <1>0, <2>2, <2>4, <2>5, AllowedOther
  <2> QED
      BY <1>1, <1>2, <1>6, <2>6 DEF Legal, WritesOnly
<1> QED
    BY <1>9, <1>10

\* Appending in place.
LEMMA InplaceLegal ==
  ASSUME StoreInv, Scans', Alone("inplace"), NEW d \in Partial(op.arg),
         SetFlash(op.old, WithData(flash[op.old], flash[op.old].data \o d))
  PROVE  Legal /\ \A l \in LEB : l = op.lnum => Durable(l)' = op.base \o d
<1>0. TypeOK /\ MapInv /\ Scans /\ CopyInv /\ DataInv /\ ControlOK
    BY StoreFacts
<1>1. PICK l \in LEB, p \in PEB : l = op.lnum /\ p = op.old /\ p = eba_tbl[l] /\ ~ro_mode /\ todo = {}
    BY <1>0 DEF ControlOK, Alone, MapInv, InStep, OpHolds, Stages
<1>2. op.kind = "append" /\ op.kind \in Kinds /\ op.base = flash[p].data /\ op.base \in Content
    BY <1>0, <1>1 DEF DataInv, KindOf, Alone, Kinds, OpBase, RamData
<1>3. p \in Copies(l) /\ Copies(l) \subseteq {p}
    BY <1>0, <1>1, MapBefore, NoneInFlight DEF Alone
<1>4. PICK r : r = WithData(flash[p], op.base \o d)
    OBVIOUS
<1>5. r.st = "used" /\ r.lnum = l /\ r.data = op.base \o d /\ SetFlash(p, r)
  <2>1. flash[p] \in PebState /\ flash[p].st = "used" /\ flash[p].lnum = l
      BY <1>0, <1>3 DEF Copies, TypeOK
  <2> QED
      BY <1>1, <1>2, <1>4, <2>1 DEF WithData, PebState
<1>6. WritesOnly(p, r, l)
    BY <1>0, <1>3, <1>5, OthersSame DEF Copies
<1>7. p \in Copies(l)' /\ flash'[p] = r /\ Copies(l)' \subseteq {p, p}
  <2>1. Copies(l)' \subseteq PEB
      BY DEF Copies
  <2> QED
      BY <1>3, <1>5, <1>6, <2>1 DEF WritesOnly
<1>8. Durable(l)' = op.base \o d
    BY <1>5, <1>7, HarmlessPairNext
<1>9. op.base \o d \in LS!Allowed(AbsReq)
    BY <1>0, <1>2, AllowedAppend DEF Extended
<1> QED
    BY <1>1, <1>2, <1>6, <1>8, <1>9 DEF Legal, WritesOnly

\* Recovering a LEB whose eraseblock failed: the header of the new one.
LEMMA RvidLegal ==
  ASSUME StoreInv, Scans', Alone("rvid"), NEW r \in {Blank("corr"), RecoveredHdr}, SetFlash(op.pnum, r)
  PROVE  Legal
<1>0. TypeOK /\ MapInv /\ Scans /\ CopyInv /\ DataInv /\ ControlOK
    BY StoreFacts
<1>1. PICK l \in LEB, p \in PEB, m \in PEB :
        /\ l = op.lnum /\ p = op.pnum /\ m = op.old /\ m = eba_tbl[l] /\ ~ro_mode
        /\ flash[p].st = "free" /\ todo = {}
    BY <1>0, OpIsNewest DEF ControlOK, Alone, MapInv, InStep, OpHolds, Stages
<1>2. op.kind = "append" /\ op.kind \in Kinds /\ op.base \in Content /\ flash[m].data \in Extended
    BY <1>0, <1>1 DEF DataInv, KindOf, Alone, Kinds, OpBase, RamData
<1>3. m \in Copies(l) /\ Copies(l) \subseteq {m} /\ p # m
    BY <1>0, <1>1, MapBefore, NoneInFlight DEF Alone, Copies
<1>4. CASE r = Blank("corr")
  <2>1. r.st # "used" /\ SetFlash(p, r)
      BY <1>1, <1>4, HdrFacts
  <2> QED
      BY <1>0, <1>1, <2>1, NoHeader
<1>5. CASE r = RecoveredHdr
  <2>1. r.lnum = l /\ r.data = <<>> /\ SetFlash(p, r)
      BY <1>1, <1>3, <1>5, RecoveredHdrIs DEF Copies
  <2>2. WritesOnly(p, r, l)
      BY <1>0, <1>1, <2>1, OthersSame
  <2>3. m \in Copies(l)' /\ Copies(l)' \subseteq {m, p} /\ flash'[p] = r /\ flash'[m] = flash[m]
    <3>1. Copies(l)' \subseteq PEB
        BY DEF Copies
    <3> QED
        BY <1>3, <2>2, <3>1 DEF WritesOnly
  <2>4. Durable(l)' \in {flash[m].data, <<>>}
      BY <2>1, <2>3, OneIsReadNext
  <2>5. Durable(l)' \in LS!Allowed(AbsReq)
      BY <1>0, <1>2, <2>4, AllowedAppend
  <2> QED
      BY <1>1, <1>2, <2>2, <2>5 DEF Legal, WritesOnly
<1> QED
    BY <1>4, <1>5

\* recover_peb copies what was there, and what was to be appended.
LEMMA RecoveredIs ==
  ASSUME StoreInv, Alone("rdata")
  PROVE  RecoveredData = op.base \o op.arg
<1>0. TypeOK /\ MapInv /\ DataInv /\ ControlOK
    BY StoreFacts
<1>1. op.old \in PEB /\ op.old = eba_tbl[op.lnum] /\ op.kind = "append"
    BY <1>0, RecoverHolds DEF DataInv, KindOf, Alone
<1>2. op.base \in Content /\ op.arg \in Content /\ flash[op.old].data \in Extended
    BY <1>0, <1>1 DEF DataInv, OpBase, RamData, Alone, TypeOK, Op
<1>3. PICK d \in Partial(op.arg) : flash[op.old].data = op.base \o d
    BY <1>2 DEF Extended
<1>4. d \in Content
    BY <1>2, PartialIsContent
<1>5. /\ SubSeq(flash[op.old].data, 1, Len(op.base)) = op.base
      /\ Len(op.base) <= Len(flash[op.old].data) /\ Len(op.base) \in Nat
    BY <1>2, <1>3, <1>4, ConcatPrefix
<1>6. Offset = Len(op.base)
    BY <1>2, <1>5, UnmappedAssumption DEF Offset
<1> QED
    BY <1>5, <1>6 DEF RecoveredData

\* Recovering a LEB whose eraseblock failed: the data of the new one.
LEMMA RdataLegal ==
  ASSUME StoreInv, Scans', Alone("rdata"), NEW d \in Partial(RecoveredData),
         SetFlash(op.pnum, WithData(flash[op.pnum], d))
  PROVE  Legal
<1>0. TypeOK /\ MapInv /\ Scans /\ CopyInv /\ DataInv /\ ControlOK
    BY StoreFacts
<1>1. PICK l \in LEB, p \in PEB, m \in PEB :
        /\ l = op.lnum /\ p = op.pnum /\ m = op.old /\ m = eba_tbl[l] /\ ~ro_mode
        /\ m \in Copies(l) /\ p \in Copies(l) /\ p # m
    BY <1>0, RecoverHolds
<1>2. op.kind = "append" /\ op.kind \in Kinds /\ op.base \in Content /\ flash[m].data \in Extended
    BY <1>0, <1>1 DEF DataInv, KindOf, Alone, Kinds, OpBase, RamData
<1>3. PICK r : r = WithData(flash[p], d)
    OBVIOUS
<1>4. r.st = "used" /\ r.lnum = l /\ r.data = d /\ SetFlash(p, r)
  <2>1. flash[p] \in PebState /\ flash[p].st = "used" /\ flash[p].lnum = l
      BY <1>0, <1>1 DEF Copies, TypeOK
  <2> QED
      BY <1>1, <1>3, <2>1 DEF WithData, PebState
<1>5. WritesOnly(p, r, l)
    BY <1>0, <1>1, <1>4, OthersSame DEF Copies
<1>6. m \in Copies(l)' /\ Copies(l)' \subseteq {m, p} /\ flash'[p] = r /\ flash'[m] = flash[m]
  <2>1. Copies(l)' \subseteq PEB /\ Copies(l) \subseteq {m, p}
      BY <1>1, WritingPair DEF Copies
  <2> QED
      BY <1>1, <1>5, <2>1 DEF WritesOnly
<1>7. Durable(l)' \in {flash[m].data, d}
    BY <1>4, <1>6, OneIsReadNext
<1>8. Durable(l)' \in LS!Allowed(AbsReq)
    BY <1>0, <1>2, <1>7, AllowedAppend, RecoveredIs
<1> QED
    BY <1>1, <1>2, <1>5, <1>8 DEF Legal, WritesOnly

-----------------------------------------------------------------------------
(* The invariant is kept: what the steps have in common.                    *)

\* The fields of an operation that has returned.
LEMMA IdleIs ==
  \A ret : /\ Idle(ret).kind = "idle" /\ Idle(ret).pc = "idle" /\ Idle(ret).lnum = NoLeb
           /\ Idle(ret).old = NoPeb /\ Idle(ret).tries = 0 /\ Idle(ret).ret = ret
  BY DEF Idle

\* The fields of one that begins.
LEMMA NewOpIs ==
  ASSUME NEW kind, NEW pc, NEW l, NEW c, NEW o, o = NewOp(kind, pc, l, c)
  PROVE  /\ o.kind = kind /\ o.pc = pc /\ o.lnum = l /\ o.arg = c /\ o.base = Durable(l)
         /\ o.old = NoPeb /\ o.tries = 0 /\ o.sqnum = 0
  BY DEF NewOp, Idle

\* All fields of the operation that stay when it goes on.
SameReq == /\ op'.kind = op.kind /\ op'.lnum = op.lnum /\ op'.arg = op.arg /\ op'.base = op.base

\* An operation that goes on keeps its request.
LEMMA GotoIs ==
  ASSUME TypeOK, NEW pc, op' = [op EXCEPT !.pc = pc]
  PROVE  /\ SameReq /\ op'.pc = pc /\ op'.old = op.old /\ op'.pnum = op.pnum
         /\ op'.sqnum = op.sqnum /\ op'.tries = op.tries
  BY DEF TypeOK, Op, SameReq

\* ubi_wl_get_peb hands out a free eraseblock and the next sequence number, or fails.
LEMMA GetIs ==
  ASSUME TypeOK, NEW next \in Op, GetPeb(next)
  PROVE  /\ global_sqnum' = global_sqnum + 1
         /\ \/ op' = Idle("err") /\ UNCHANGED <<free, used>>
            \/ \E p \in free : /\ op'.pnum = p /\ op'.pc = next.pc /\ op'.kind = next.kind
                               /\ op'.lnum = next.lnum /\ op'.arg = next.arg /\ op'.old = next.old
                               /\ op'.base = next.base /\ op'.tries = next.tries
                               /\ op'.sqnum = global_sqnum
<1>1. CASE free = {}
    BY <1>1 DEF GetPeb, Return
<1>2. CASE free # {}
  <2>1. PICK p \in free : op' = [next EXCEPT !.pnum = p, !.sqnum = global_sqnum]
      BY <1>2 DEF GetPeb
  <2>2. /\ op'.pnum = p /\ op'.pc = next.pc /\ op'.kind = next.kind
        /\ op'.lnum = next.lnum /\ op'.arg = next.arg /\ op'.old = next.old
        /\ op'.base = next.base /\ op'.tries = next.tries /\ op'.sqnum = global_sqnum
      BY <2>1 DEF Op
  <2> QED
      BY <2>2 DEF GetPeb
<1> QED
    BY <1>1, <1>2

\* An operation that has returned says nothing.
OpParts == KindOf /\ OpShape /\ OpBase /\ Counted

\* An operation that has returned asks nothing of the flash.
LEMMA IdleEnds ==
  ASSUME NEW ret, op' = Idle(ret), faults' \in Nat, faults' <= MaxFaults
  PROVE  OpParts'
<1>1. op'.kind = "idle" /\ op'.pc = "idle" /\ op'.tries = 0
    BY IdleIs
<1>2. KindOf' /\ OpShape' /\ OpBase'
    BY <1>1 DEF KindOf, OpShape, OpBase
<1>3. Counted'
    BY <1>1 DEF Counted
<1> QED
    BY <1>2, <1>3 DEF OpParts

\* A device at rest.
LEMMA NothingErased ==
  ASSUME work' = NoWork, todo' = {}
  PROVE  Waste' /\ MoveShape'
<1>1. work'.k = "none"
    BY WorkFacts
<1> QED
    BY <1>1 DEF Waste, MoveShape

\* data_crc when nothing is written,
LEMMA CrcSame == ASSUME CrcClean, flash' = flash PROVE CrcClean'
  BY DEF CrcClean

\* when a header is written,
LEMMA CrcSet ==
  ASSUME TypeOK, CrcClean, NEW p \in PEB, NEW r, SetFlash(p, r), r.copy_flag => Clean(r.crc)
  PROVE  CrcClean'
<1>1. flash'[p] = r /\ \A q \in PEB : q # p => flash'[q] = flash[q]
    BY DEF SetFlash, TypeOK
<1> QED
    BY <1>1 DEF CrcClean

\* An erased or corrupted eraseblock carries no copy.
LEMMA BlankIs == \A st : ~Blank(st).copy_flag /\ Blank(st).data = <<>>
  BY DEF Blank

\* and when data is, which leaves the header alone.
LEMMA CrcData ==
  ASSUME TypeOK, CrcClean, NEW p \in PEB, NEW d, SetFlash(p, WithData(flash[p], d))
  PROVE  CrcClean'
<1>1. flash[p] \in PebState
    BY DEF TypeOK
<1>2. PICK r : r = WithData(flash[p], d)
    OBVIOUS
<1>3. r.copy_flag = flash[p].copy_flag /\ r.crc = flash[p].crc
    BY <1>1, <1>2 DEF WithData, PebState
<1>4. SetFlash(p, r) /\ (r.copy_flag => Clean(r.crc))
    BY <1>2, <1>3 DEF CrcClean
<1> QED
    BY <1>4, CrcSet

\* The parts of the invariant, grouped as the steps need them.
LEMMA Together == ASSUME OpParts', CrcClean', Waste', MoveShape' PROVE DataInv'
  BY DEF OpParts, DataInv

\* An operation that returns, with nothing left to erase.
LEMMA Returns ==
  ASSUME StoreInv, NEW ret, op' = Idle(ret), work' = NoWork, todo' = {}, CrcClean', faults' = faults
  PROVE  DataInv'
<1>1. faults \in Nat /\ faults <= MaxFaults
    BY StoreFacts DEF TypeOK, DataInv, Counted
<1>2. OpParts'
    BY <1>1, IdleEnds
<1>3. Waste' /\ MoveShape'
    BY NothingErased
<1> QED
    BY <1>2, <1>3, Together

\* The operation waits for an erasure or a move, or does not look at the flash.
LEMMA WaitKeeps ==
  ASSUME StoreInv, op' = op, op.pc \notin {"vid", "data", "inplace", "rget", "rvid", "rdata"},
         faults' \in Nat, faults <= faults', faults' <= MaxFaults,
         \A l \in LEB : eba_tbl'[l] = NoPeb <=> eba_tbl[l] = NoPeb,
         op.pc # "map" /\ op.lnum \in LEB =>
           (eba_tbl[op.lnum] # NoPeb => flash'[eba_tbl'[op.lnum]].data = flash[eba_tbl[op.lnum]].data),
         op.pc = "map" => /\ flash'[op.pnum] = flash[op.pnum]
                          /\ \A x \in Copies(op.lnum)' : /\ x \in Copies(op.lnum)
                                                         /\ flash'[x].sqnum = flash[x].sqnum,
         op.pc = "done" /\ op.kind = "append" /\ ro_mode' =>
           \A l \in LEB : l = op.lnum => Durable(l)' = flash[eba_tbl[l]].data
  PROVE  OpParts'
<1>0. TypeOK /\ ControlOK /\ DataInv /\ MapInv
    BY StoreFacts
<1>1. op.pc \notin {"idle", "attach"} => op.lnum \in LEB
    BY <1>0 DEF ControlOK
<1>2. KindOf'
    BY <1>0, <1>1 DEF KindOf, DataInv
<1>3. OpShape'
  <2>1. op.pc = "map" => op.pnum \in PEB /\ OpHdr' = OpHdr
      BY <1>0 DEF ControlOK, OpHdr
  <2>2. op.pc = "map" => /\ flash[op.pnum] = WithData(OpHdr, op.arg)
                         /\ \A x \in Copies(op.lnum) \ {op.pnum} : flash[x].sqnum < op.sqnum
      BY <1>0 DEF DataInv, OpShape
  <2>3. op'.pc = "map" => /\ flash'[op'.pnum] = WithData(OpHdr, op.arg)'
                          /\ \A x \in Copies(op.lnum)' \ {op.pnum} : flash'[x].sqnum < op.sqnum
      BY <2>1, <2>2 DEF WithData
  <2>4. op.kind = "change" => op.arg \in Written
      BY <1>0 DEF DataInv, OpShape
  <2> QED
      BY <2>3, <2>4 DEF OpShape
<1>4. OpBase'
  <2>0. Extended' = Extended
      BY DEF Extended
  <2>1. op.kind \in {"write", "change"} => op.lnum \in LEB
      BY <1>0, <1>1 DEF DataInv, KindOf
  <2>2. (op.pc = "done" /\ op.kind = "append") \/ op.pc = "rfail" => op.lnum \in LEB /\ eba_tbl[op.lnum] # NoPeb
      BY <1>0, <1>1 DEF DataInv, KindOf
  <2>3. /\ op.kind \in {"write", "change"} /\ eba_tbl'[op.lnum] = NoPeb => op.base = Unmapped
        /\ op.kind \in {"append", "unmap"} => op.base \in Content
      BY <1>0, <2>1 DEF DataInv, OpBase
  <2>4. op.kind = "change" /\ op.pc # "map" /\ eba_tbl'[op.lnum] # NoPeb
           => op.base = flash'[eba_tbl'[op.lnum]].data
      BY <1>0, <2>1 DEF DataInv, OpBase, RamData
  <2>5. op.pc = "rfail" => flash'[eba_tbl'[op.lnum]].data \in Extended
      BY <1>0, <2>2 DEF DataInv, OpBase, RamData
  <2>6. op.pc = "done" /\ op.kind = "append" => flash'[eba_tbl'[op.lnum]].data = op.base \o op.arg
      BY <1>0, <2>2 DEF DataInv, OpBase, RamData
  <2>7. op.pc = "done" /\ op.kind = "append" /\ ro_mode' => Durable(op.lnum)' = flash'[eba_tbl'[op.lnum]].data
    <3> SUFFICES ASSUME op.pc = "done", op.kind = "append", ro_mode'
                 PROVE  Durable(op.lnum)' = flash'[eba_tbl'[op.lnum]].data
        OBVIOUS
    <3>1. PICK l \in LEB : l = op.lnum
        BY <2>2
    <3>2. Durable(l)' = flash[eba_tbl[l]].data /\ l = op'.lnum
        BY <3>1
    <3>3. Durable(op.lnum)' = Durable(l)'
        BY <3>2 DEF Durable
    <3> QED
        BY <2>2, <3>1, <3>2, <3>3
  <2> QED
      BY <2>0, <2>3, <2>4, <2>5, <2>6, <2>7 DEF OpBase, RamData
<1>5. Counted'
    BY <1>0 DEF Counted, DataInv, TypeOK, Op
<1> QED
    BY <1>2, <1>3, <1>4, <1>5 DEF OpParts

-----------------------------------------------------------------------------
(* The invariant is kept: erasures and moves.                               *)

\* Erasing takes nothing from the operation that waits for it.
LEMMA EraseWaits ==
  ASSUME StoreInv, work.k = "erase", ~ro_mode, NEW r, SetFlash(work.from, r),
         r \in HalfErased(flash[work.from]) \cup {Blank("free"), Blank("bad")},
         op' = op, eba_tbl' = eba_tbl, faults' \in Nat, faults <= faults', faults' <= MaxFaults,
         ro_mode' => ~(op.pc = "done" /\ op.kind = "append")
  PROVE  OpParts' /\ CrcClean'
<1>0. TypeOK /\ ControlOK /\ DataInv /\ MapInv /\ \A q \in PEB : flash[q] \in PebState
    BY StoreFacts
<1>1. PICK p \in PEB : p = work.from /\ Waiting /\ (op.pc = "map" => op.pnum # p /\ op.pnum \in PEB)
    BY <1>0, EraseHolds
<1>2. flash'[p] = r /\ \A q \in PEB : q # p => flash'[q] = flash[q]
    BY <1>0, <1>1 DEF SetFlash, TypeOK
<1>3. r.st = "used" => flash[p].st = "used" /\ r.lnum = flash[p].lnum /\ r.sqnum = flash[p].sqnum
    BY <1>0, <1>1, HalfErasedIs, HdrFacts
<1>4. r.copy_flag => Clean(r.crc)
  <2>1. CASE r.copy_flag = FALSE
      BY <2>1
  <2>2. CASE r \in HalfErased(flash[p]) /\ r \notin {Blank("empty"), Blank("corr")}
    <3>1. r = flash[p] \/ \E d \in Scrambled(flash[p].data) : r = WithData(flash[p], d)
        BY <2>2 DEF HalfErased
    <3>2. r.copy_flag = flash[p].copy_flag /\ r.crc = flash[p].crc
        BY <1>0, <3>1 DEF WithData, PebState
    <3> QED
        BY <1>0, <3>2 DEF DataInv, CrcClean
  <2> QED
      BY <1>1, <2>1, <2>2, BlankIs
<1>5. CrcClean'
    BY <1>0, <1>1, <1>4, CrcSet DEF DataInv
<1>6. op.pc # "map" /\ op.lnum \in LEB =>
        (eba_tbl[op.lnum] # NoPeb => flash'[eba_tbl'[op.lnum]].data = flash[eba_tbl[op.lnum]].data)
  <2>1. op.pc # "map" /\ op.lnum \in LEB => eba_tbl[op.lnum] # p
      BY <1>0, <1>1 DEF MapInv, InStep, ErasedIsUnmapped
  <2> QED
      BY <1>0, <1>2, <2>1 DEF TypeOK
<1>7. op.pc = "map" => /\ flash'[op.pnum] = flash[op.pnum]
                       /\ \A x \in Copies(op.lnum)' : /\ x \in Copies(op.lnum)
                                                      /\ flash'[x].sqnum = flash[x].sqnum
  <2>1. ASSUME NEW x \in Copies(op.lnum)'
        PROVE  x \in Copies(op.lnum) /\ flash'[x].sqnum = flash[x].sqnum
    <3>1. x \in PEB /\ flash'[x].st = "used" /\ flash'[x].lnum = op.lnum
        BY DEF Copies
    <3> QED
        BY <1>2, <1>3, <3>1 DEF Copies
  <2> QED
      BY <1>1, <1>2, <2>1
<1>8. op.pc \notin {"vid", "data", "inplace", "rget", "rvid", "rdata"}
    BY <1>1 DEF Waiting
<1>9. OpParts'
    BY <1>6, <1>7, <1>8, WaitKeeps
<1> QED
    BY <1>5, <1>9

\* Erasures, also those that fail, keep the invariant.
LEMMA KeepErase ==
  ASSUME StoreSafe, StoreInv, Scans', EraseWorker \/ EraseError \/ EraseRefused
  PROVE  DataInv'
<1>0. TypeOK /\ ControlOK /\ DataInv /\ MapInv /\ Scans /\ \A q \in PEB : flash[q] \in PebState
    BY StoreFacts
<1>f. faults \in Nat /\ faults <= MaxFaults /\ MaxFaults \in Nat
    BY <1>0, BoundsAssumption DEF TypeOK, DataInv, Counted
<1>k. work.k = "erase" /\ up = "up"
    BY <1>0, WorkFacts DEF EraseWorker, EraseError, EraseRefused, ControlOK
\* What is left for later is not touched.
<1>t. ASSUME NEW r, SetFlash(work.from, r), UNCHANGED <<up, todo, eba_tbl>>, ro_mode' = ro_mode,
             work'.k \in {"none", "mvid"}, op' = op
      PROVE  Waste' /\ MoveShape'
  <2>1. PICK p \in PEB : p = work.from /\ p \notin todo
      BY <1>0, <1>k DEF MapInv, InStep, TodoUnmapped, ControlOK
  <2>2. flash'[p] = r /\ \A q \in PEB : q # p => flash'[q] = flash[q]
      BY <1>0, <1>t, <2>1 DEF SetFlash, TypeOK
  <2>3. ASSUME ~ro_mode, NEW l \in LEB, NEW q \in todo', q \in Copies(l)'
        PROVE  eba_tbl'[l] # NoPeb /\ Harmless(flash'[q], flash'[eba_tbl'[l]])
    <3>1. q \in todo /\ q \in PEB /\ q # p /\ flash'[q] = flash[q] /\ q \in Copies(l)
        BY <1>0, <1>t, <2>1, <2>2, <2>3 DEF Copies, TypeOK
    <3>2. eba_tbl[l] # NoPeb /\ Harmless(flash[q], flash[eba_tbl[l]])
        BY <1>0, <1>k, <2>3, <3>1 DEF DataInv, Waste
    <3>3. eba_tbl[l] # p /\ eba_tbl[l] \in PEB
        BY <1>0, <1>k, <2>1, <3>1, <3>2 DEF MapInv, InStep, ErasedIsUnmapped, Stages, TypeOK
    <3> QED
        BY <1>t, <2>2, <3>1, <3>2, <3>3
  <2> QED
      BY <1>t, <2>3 DEF Waste, MoveShape
<1>1. CASE EraseWorker
  <2>1. /\ ~ro_mode /\ SetFlash(work.from, Blank("free")) /\ UNCHANGED <<up, todo, eba_tbl>>
        /\ ro_mode' = ro_mode /\ op' = op /\ faults' = faults
      BY <1>1 DEF EraseWorker
  <2>2. work'.k \in {"none", "mvid"}
      BY <1>1, WorkFacts DEF EraseWorker, EnsureWearLeveling
  <2>3. Waste' /\ MoveShape'
      BY <1>t, <2>1, <2>2
  <2>4. OpParts' /\ CrcClean'
      BY <1>f, <1>k, <2>1, EraseWaits
  <2> QED
      BY <2>3, <2>4, Together
<1>2. CASE EraseError
  <2>1. /\ ~ro_mode /\ UNCHANGED <<up, todo, eba_tbl>> /\ op' = op /\ work' = NoWork
        /\ faults' = faults + 1 /\ faults < MaxFaults /\ "erase" \in Faults /\ work'.k = "none"
      BY <1>2, WorkFacts DEF EraseError, Fault
  <2>2. faults' \in Nat /\ faults <= faults' /\ faults' <= MaxFaults
      BY <1>f, <2>1
  <2>3. CASE SetFlash(work.from, Blank("bad")) /\ ro_mode' = ro_mode
    <3>1. Waste' /\ MoveShape'
        BY <1>t, <2>1, <2>3
    <3>2. OpParts' /\ CrcClean'
        BY <1>k, <2>1, <2>2, <2>3, EraseWaits
    <3> QED
        BY <3>1, <3>2, Together
  <2>4. CASE (\E r \in HalfErased(flash[work.from]) : SetFlash(work.from, r)) /\ ro_mode' = TRUE
    <3>1. ~(op.pc = "done" /\ op.kind = "append")
        BY <1>0, <1>f, <2>1 DEF StoreSafe, DataInv, Counted
    <3>2. PICK r \in HalfErased(flash[work.from]) : SetFlash(work.from, r)
        BY <2>4
    <3>3. OpParts' /\ CrcClean'
        BY <1>k, <2>1, <2>2, <3>1, <3>2, EraseWaits
    <3>4. Waste' /\ MoveShape'
        BY <2>1, <2>4 DEF Waste, MoveShape
    <3> QED
        BY <3>3, <3>4, Together
  <2> QED
      BY <1>2, <2>3, <2>4 DEF EraseError
<1>3. CASE EraseRefused
  <2>1. /\ flash' = flash /\ eba_tbl' = eba_tbl /\ todo' = todo /\ up' = up
        /\ op' = op /\ work' = NoWork /\ faults' = faults /\ ro_mode /\ ro_mode' = ro_mode
      BY <1>3 DEF EraseRefused, ram
  <2>2. Waste' /\ MoveShape'
      BY <2>1, WorkFacts DEF Waste, MoveShape
  <2>3. \A l \in LEB : Durable(l)' = Durable(l)
      BY <1>0, <2>1, SameFlash
  <2>4. op.pc = "done" /\ op.kind = "append" =>
          \A l \in LEB : l = op.lnum => Durable(l)' = flash[eba_tbl[l]].data
      BY <1>0, <2>1, <2>3 DEF DataInv, OpBase, RamData
  <2>5. /\ \A x : x \in Copies(op.lnum)' <=> x \in Copies(op.lnum)
        /\ op.pc \notin {"vid", "data", "inplace", "rget", "rvid", "rdata"}
      BY <1>0, <1>k, <2>1, WaitFacts DEF Copies, Waiting
  <2>6. OpParts'
      BY <1>f, <2>1, <2>4, <2>5, WaitKeeps
  <2> QED
      BY <1>0, <2>1, <2>2, <2>6, Together, CrcSame DEF DataInv
<1> QED
    BY <1>1, <1>2, <1>3

\* A finished append reads as it is mapped while a move runs.
LEMMA DoneReads ==
  ASSUME StoreInv, ~ro_mode, op.pc = "done", op.kind = "append", work.k \in {"mvid", "mdata"},
         NEW l \in LEB, l = op.lnum
  PROVE  Durable(l) = flash[eba_tbl[l]].data
<1>0. TypeOK /\ DataInv /\ MapInv /\ Scans /\ CopyInv
    BY StoreFacts
<1>1. MoveTo
    BY <1>0, MoveToHolds
<1>2. PICK m \in PEB : m = eba_tbl[l] /\ m \in Copies(l)
    BY <1>0, <1>1, MapBefore DEF DataInv, KindOf, MoveTo, Waiting, TypeOK
<1>3. CASE Copies(l) \subseteq {m, m}
    BY <1>0, <1>2, <1>3, HarmlessPair
<1>4. CASE work.k = "mdata" /\ Src.lnum = l
  <2>1. Copying /\ eba_tbl[l] = work.from
      BY <1>0, <1>4 DEF Copying, MapInv, InStep, MoveHolds
  <2>2. Durable(l) = flash[work.from].data
      BY <1>4, <2>1, CopyReads
  <2> QED
      BY <2>1, <2>2
<1>5. CASE ~(work.k = "mdata" /\ Src.lnum = l)
  <2>1. Copies(l) \subseteq {m} \cup InFlight
      BY <1>0, <1>1, <1>2 DEF CopyInv, Extra, MoveTo, Waiting
  <2>2. \A q \in InFlight : work.k = "mdata" /\ q = work.to
      BY <1>1 DEF InFlight, MoveTo
  <2>3. \A q \in InFlight : q \notin Copies(l)
      BY <1>0, <1>5, <2>2 DEF MapInv, InStep, MoveHolds, Copies
  <2> QED
      BY <1>3, <2>1, <2>3
<1> QED
    BY <1>3, <1>4, <1>5

\* Nor does a move take anything from the operation that waits for it.
LEMMA MoveWaits ==
  ASSUME StoreInv, Scans', Copying, NEW r, SetFlash(work.to, r), op' = op,
         \/ work.k = "mvid" /\ r \in {flash[work.to], Blank("corr"), CopyHdr}
         \/ work.k = "mdata" /\ \E d \in Partial(Src.data) : r = WithData(flash[work.to], d),
         \/ eba_tbl' = eba_tbl
         \/ eba_tbl' = [eba_tbl EXCEPT ![Src.lnum] = work.to] /\ r.data = Src.data,
         faults' \in Nat, faults <= faults', faults' <= MaxFaults
  PROVE  OpParts' /\ CrcClean'
<1>0. TypeOK /\ ControlOK /\ DataInv /\ MapInv /\ \A q \in PEB : flash[q] \in PebState
    BY StoreFacts
<1>1. CopyFrom /\ MoveTo /\ work.k \in {"mvid", "mdata"}
    BY <1>0, CopyFromHolds, MoveToHolds DEF Copying
<1>2. PICK s \in LEB, e1 \in PEB, e2 \in PEB : s = Src.lnum /\ e1 = work.from /\ e2 = work.to
    BY <1>1 DEF CopyFrom, MoveTo
<1>3. /\ e1 \in Copies(s) /\ e1 # e2 /\ eba_tbl[s] = e1
      /\ \A l \in LEB : op.pc # "map" => eba_tbl[l] # e2
      /\ op.pc = "map" => op.pnum # e2 /\ op.pnum \in PEB /\ op.lnum # s
    BY <1>1, <1>2 DEF CopyFrom, MoveTo, Waiting, Changing, Copies, Src
<1>4. flash'[e2] = r /\ \A q \in PEB : q # e2 => flash'[q] = flash[q]
    BY <1>0, <1>2 DEF SetFlash, TypeOK
<1>5. (r.copy_flag => Clean(r.crc)) /\ (r.st = "used" => r.lnum = s)
  <2>1. CASE work.k = "mdata" \/ r = CopyHdr
      BY <1>2, <2>1, CopyIs
  <2>2. CASE r = Blank("corr")
      BY <2>2, BlankIs, HdrFacts
  <2>3. CASE work.k = "mvid" /\ r = flash[work.to]
      BY <1>0, <1>2, <2>3 DEF DataInv, CrcClean, MapInv, InStep, MoveHolds
  <2> QED
      BY <2>1, <2>2, <2>3
<1>6. CrcClean'
    BY <1>0, <1>2, <1>5, CrcSet DEF DataInv
<1>7. \A l \in LEB : eba_tbl'[l] = NoPeb <=> eba_tbl[l] = NoPeb
    BY <1>0, <1>2, <1>3 DEF TypeOK
<1>8. op.pc # "map" /\ op.lnum \in LEB =>
        (eba_tbl[op.lnum] # NoPeb => flash'[eba_tbl'[op.lnum]].data = flash[eba_tbl[op.lnum]].data)
  <2> SUFFICES ASSUME op.pc # "map", NEW l \in LEB, l = op.lnum, eba_tbl[l] # NoPeb
               PROVE  flash'[eba_tbl'[l]].data = flash[eba_tbl[l]].data
      OBVIOUS
  <2>1. eba_tbl[l] \in PEB /\ eba_tbl[l] # e2
      BY <1>0, <1>3 DEF TypeOK
  <2>2. CASE eba_tbl'[l] = eba_tbl[l]
      BY <1>4, <2>1, <2>2
  <2>3. CASE eba_tbl'[l] # eba_tbl[l]
    <3>1. l = s /\ eba_tbl'[l] = e2 /\ r.data = Src.data
        BY <1>0, <1>2, <2>3 DEF TypeOK
    <3> QED
        BY <1>2, <1>3, <1>4, <3>1 DEF Src
  <2> QED
      BY <2>2, <2>3
<1>9. op.pc = "map" => /\ flash'[op.pnum] = flash[op.pnum]
                       /\ \A x \in Copies(op.lnum)' : /\ x \in Copies(op.lnum)
                                                      /\ flash'[x].sqnum = flash[x].sqnum
  <2>1. ASSUME op.pc = "map", NEW x \in Copies(op.lnum)'
        PROVE  x \in Copies(op.lnum) /\ flash'[x].sqnum = flash[x].sqnum
    <3>1. x \in PEB /\ flash'[x].st = "used" /\ flash'[x].lnum = op.lnum
        BY DEF Copies
    <3>2. x # e2
        BY <1>3, <1>4, <1>5, <2>1, <3>1
    <3> QED
        BY <1>4, <3>1, <3>2 DEF Copies
  <2> QED
      BY <1>3, <1>4, <2>1
<1>10. op.pc = "done" /\ op.kind = "append" /\ ro_mode' =>
         \A l \in LEB : l = op.lnum => Durable(l)' = flash[eba_tbl[l]].data
    BY <1>1, DoneReads, MoveLegal DEF CopyFrom
<1>11. op.pc \notin {"vid", "data", "inplace", "rget", "rvid", "rdata"}
    BY <1>1 DEF MoveTo, Waiting
<1>12. OpParts'
    BY <1>7, <1>8, <1>9, <1>10, <1>11, WaitKeeps
<1> QED
    BY <1>6, <1>12

\* The erasure behind a move: of the source, or of a copy that is not used.
LEMMA MoveErases ==
  ASSUME StoreInv, Copying, NEW r, SetFlash(work.to, r), todo' = {}, op' = op,
         \/ work.k = "mvid" /\ r = CopyHdr
         \/ work.k = "mdata" /\ r = WithData(flash[work.to], Src.data),
         \/ /\ work' = Erase(work.from) /\ eba_tbl' = [eba_tbl EXCEPT ![Src.lnum] = work.to]
            /\ r.data = Src.data
         \/ work' = Erase(work.to) /\ eba_tbl' = eba_tbl
  PROVE  Waste' /\ MoveShape'
<1>0. TypeOK /\ ControlOK /\ DataInv /\ MapInv /\ \A q \in PEB : flash[q] \in PebState
    BY StoreFacts
<1>1. CopyFrom /\ MoveTo /\ work.k \in {"mvid", "mdata"}
    BY <1>0, CopyFromHolds, MoveToHolds DEF Copying
<1>2. PICK s \in LEB, e1 \in PEB, e2 \in PEB : s = Src.lnum /\ e1 = work.from /\ e2 = work.to
    BY <1>1 DEF CopyFrom, MoveTo
<1>3. /\ flash[e1].st = "used" /\ flash[e1].lnum = s /\ e1 # e2 /\ eba_tbl[s] = e1
      /\ Src = flash[e1]
    BY <1>1, <1>2 DEF CopyFrom, MoveTo, Src
<1>4. flash'[e2] = r /\ \A q \in PEB : q # e2 => flash'[q] = flash[q]
    BY <1>0, <1>2 DEF SetFlash, TypeOK
<1>5. /\ r \in PebState /\ r.st = "used" /\ r.lnum = s /\ r.sqnum > Src.sqnum
      /\ Harmless(r, Src) /\ (r.copy_flag => Clean(r.crc))
      /\ Src.data # <<>> => Clean(Src.data) /\ r.copy_flag /\ r.crc = Src.data
  <2>1. Src.data \in Partial(Src.data)
      BY <1>0, <1>2, <1>3, PartialEnds DEF PebState
  <2> QED
      BY <1>2, <2>1, CopyIs
<1>6. work'.k = "erase"
    BY WorkFacts
<1>7. CASE work' = Erase(work.from)
  <2>0. work'.from = e1 /\ eba_tbl' = [eba_tbl EXCEPT ![s] = e2] /\ r.data = Src.data
      BY <1>2, <1>3, <1>7, WorkFacts
  <2>1. Harmless(flash'[e1], flash'[e2])
    <3>1. CASE Src.data = <<>>
        BY <1>3, <1>4, <2>0, <3>1 DEF Harmless
    <3>2. CASE Src.data # <<>>
      <4>1. CrcOk(r)
          BY <1>5, <2>0, <3>2, CleanFacts
      <4>2. Src.sqnum < r.sqnum
          BY <1>0, <1>2, <1>3, <1>5 DEF PebState
      <4> QED
          BY <1>3, <1>4, <4>1, <4>2 DEF Harmless
    <3> QED
        BY <3>1, <3>2
  <2>2. ASSUME NEW l \in LEB, work'.from \in Copies(l)'
        PROVE  ErasedFine(l, flash[work.from])'
    <3>1. l = s
        BY <1>3, <1>4, <2>0, <2>2 DEF Copies
    <3>2. eba_tbl'[l] = e2 /\ e2 # NoPeb
        BY <1>0, <2>0, <3>1 DEF TypeOK
    <3> QED
        BY <2>0, <2>1, <3>2 DEF ErasedFine
  <2> QED
      BY <1>6, <2>2 DEF Waste, MoveShape
<1>8. CASE work' = Erase(work.to) /\ eba_tbl' = eba_tbl
  <2>0. work'.from = e2
      BY <1>2, <1>8, WorkFacts
  <2>2. ASSUME NEW l \in LEB, work'.from \in Copies(l)'
        PROVE  ErasedFine(l, flash[work.from])'
    <3>1. l = s
        BY <1>4, <1>5, <2>0, <2>2 DEF Copies
    <3>2. eba_tbl'[l] = e1 /\ e1 # NoPeb /\ Harmless(flash'[e2], flash'[e1])
        BY <1>3, <1>4, <1>5, <1>8, <3>1
    <3> QED
        BY <2>0, <3>2 DEF ErasedFine
  <2> QED
      BY <1>6, <2>2 DEF Waste, MoveShape
<1> QED
    BY <1>7, <1>8

\* Steps that leave the flash and the mapping alone while the operation waits.
LEMMA QuietWaits ==
  ASSUME StoreInv, Scans', work.k \in {"mvid", "mdata"}, flash' = flash, eba_tbl' = eba_tbl, op' = op,
         faults' = faults
  PROVE  OpParts' /\ CrcClean'
<1>0. TypeOK /\ DataInv /\ MapInv /\ Scans
    BY StoreFacts
<1>1. Waiting /\ faults \in Nat /\ faults <= MaxFaults
    BY <1>0, WaitFacts DEF TypeOK, DataInv, Counted
<1>2. \A l \in LEB : Durable(l)' = Durable(l)
    BY <1>0, SameFlash
<1>3. op.pc = "done" /\ op.kind = "append" =>
        \A l \in LEB : l = op.lnum => Durable(l)' = flash[eba_tbl[l]].data
  <2>1. ASSUME op.pc = "done", op.kind = "append", NEW l \in LEB, l = op.lnum
        PROVE  Durable(l) = flash[eba_tbl[l]].data
    <3>1. CASE ro_mode
        BY <1>0, <2>1, <3>1 DEF DataInv, OpBase, RamData
    <3>2. CASE ~ro_mode
        BY <2>1, <3>2, DoneReads
    <3> QED
        BY <3>1, <3>2
  <2> QED
      BY <1>2, <2>1
<1>4. /\ \A x : x \in Copies(op.lnum)' <=> x \in Copies(op.lnum)
      /\ op.pc \notin {"vid", "data", "inplace", "rget", "rvid", "rdata"}
    BY <1>1 DEF Copies, Waiting
<1>5. OpParts'
    BY <1>1, <1>3, <1>4, WaitKeeps
<1> QED
    BY <1>0, <1>5, CrcSame DEF DataInv

\* So do all steps of a move but a miswrite, which RecoverySafe excludes.
LEMMA KeepMove ==
  ASSUME StoreSafe, StoreInv, Scans',
         \/ MoveVidHdr \/ MoveData \/ MoveCancelled
         \/ MoveBitflip \/ MoveBadHdr \/ MoveWriteError \/ MoveReadError
  PROVE  DataInv'
<1>0. TypeOK /\ ControlOK /\ DataInv /\ MapInv /\ Scans /\ \A q \in PEB : flash[q] \in PebState
    BY StoreFacts
<1>f. faults \in Nat /\ faults <= MaxFaults /\ MaxFaults \in Nat
    BY <1>0, BoundsAssumption DEF TypeOK, DataInv, Counted
<1>k. work.k \in {"mvid", "mdata"} /\ op' = op /\ todo' = todo
    BY DEF MoveVidHdr, MoveData, MoveCancelled, MoveBitflip, MoveBadHdr, MoveWriteError, MoveReadError
<1>m. MoveTo /\ todo = {}
    BY <1>0, <1>k, MoveToHolds DEF MoveTo
<1>1. CASE MoveVidHdr
  <2>1. /\ work.k = "mvid" /\ CanCopy /\ Copying /\ SetFlash(work.to, CopyHdr) /\ faults' = faults
      BY <1>1 DEF MoveVidHdr, Copying
  <2>2. CASE Src.data = <<>>
    <3>1. work' = Erase(work.from) /\ eba_tbl' = [eba_tbl EXCEPT ![Src.lnum] = work.to]
        BY <1>1, <2>2 DEF MoveVidHdr, Moved
    <3>2. CopyHdr.data = Src.data
        BY <2>1, <2>2, CopyIs
    <3>3. OpParts' /\ CrcClean'
        BY <1>f, <1>k, <2>1, <3>1, <3>2, MoveWaits
    <3>4. Waste' /\ MoveShape'
        BY <1>k, <1>m, <2>1, <3>1, <3>2, MoveErases
    <3> QED
        BY <3>3, <3>4, Together
  <2>3. CASE Src.data # <<>>
    <3>1. work' = [work EXCEPT !.k = "mdata"] /\ eba_tbl' = eba_tbl
        BY <1>1, <2>3 DEF MoveVidHdr
    <3>2. work'.k = "mdata" /\ work'.from = work.from /\ work'.to = work.to
        BY <1>0, <3>1 DEF TypeOK, Work
    <3>3. OpParts' /\ CrcClean'
        BY <1>f, <1>k, <2>1, <3>1, MoveWaits
    <3>4. Waste'
        BY <1>k, <1>m, <3>2 DEF Waste
    <3>5. MoveShape'
      <4>1. PICK e1 \in PEB, e2 \in PEB : e1 = work.from /\ e2 = work.to /\ e1 # e2
          BY <1>0, <1>m, <2>1, CopyFromHolds DEF CopyFrom, MoveTo
      <4>2. flash'[e1] = flash[e1] /\ flash'[e2] = CopyHdr
          BY <1>0, <2>1, <4>1 DEF SetFlash, TypeOK
      <4>3. /\ CopyHdr.sqnum > Src.sqnum /\ CopyHdr.data = <<>>
            /\ Clean(Src.data) /\ CopyHdr.copy_flag /\ CopyHdr.crc = Src.data
          BY <2>1, <2>3, CopyIs
      <4>4. Src = flash[e1] /\ Src' = flash'[e1]
          BY <3>2, <4>1 DEF Src
      <4> QED
          BY <3>2, <4>1, <4>2, <4>3, <4>4 DEF MoveShape
    <3> QED
        BY <3>3, <3>4, <3>5, Together
  <2> QED
      BY <2>2, <2>3
<1>2. CASE MoveData
  <2>1. /\ work.k = "mdata" /\ Copying /\ SetFlash(work.to, WithData(flash[work.to], Src.data))
        /\ faults' = faults /\ work' = Erase(work.from)
        /\ eba_tbl' = [eba_tbl EXCEPT ![Src.lnum] = work.to]
      BY <1>2 DEF MoveData, Copying, Moved
  <2>2. PICK r : r = WithData(flash[work.to], Src.data)
      OBVIOUS
  <2>3. r.data = Src.data /\ Src.data \in Partial(Src.data)
      BY <1>0, <1>m, <2>2, PartialEnds DEF WithData, PebState, MoveTo, Src
  <2>4. OpParts' /\ CrcClean'
      BY <1>f, <1>k, <2>1, <2>2, <2>3, MoveWaits
  <2>5. Waste' /\ MoveShape'
      BY <1>k, <1>m, <2>1, <2>2, <2>3, MoveErases
  <2> QED
      BY <2>4, <2>5, Together
<1>3. CASE MoveCancelled
  <2>1. /\ work.k = "mvid" /\ flash' = flash /\ eba_tbl' = eba_tbl /\ faults' = faults
        /\ work' = Erase(work.to)
      BY <1>3 DEF MoveCancelled, NotMoved
  <2>2. OpParts' /\ CrcClean'
      BY <1>k, <2>1, QuietWaits
  <2>3. flash[work.to].st = "free" /\ work'.from = work.to /\ work'.k = "erase"
      BY <1>0, <2>1, WorkFacts DEF MapInv, InStep, MoveHolds
  <2>4. \A l \in LEB : work'.from \notin Copies(l)'
      BY <2>1, <2>3 DEF Copies
  <2>5. Waste' /\ MoveShape'
      BY <1>k, <1>m, <2>3, <2>4 DEF Waste, MoveShape
  <2> QED
      BY <2>2, <2>5, Together
<1>4. CASE MoveBitflip
  <2>1. /\ eba_tbl' = eba_tbl /\ work' = Erase(work.to) /\ faults' = faults + 1 /\ faults < MaxFaults
      BY <1>4 DEF MoveBitflip, NotMoved, Fault
  <2>2. faults' \in Nat /\ faults <= faults' /\ faults' <= MaxFaults
      BY <1>f, <2>1
  <2>3. PICK r : /\ Copying /\ SetFlash(work.to, r)
                 /\ \/ work.k = "mvid" /\ r = CopyHdr
                    \/ work.k = "mdata" /\ r = WithData(flash[work.to], Src.data)
      BY <1>4 DEF MoveBitflip, Copying
  <2>4. Src.data \in Partial(Src.data)
      BY <1>0, <1>m, PartialEnds DEF PebState, MoveTo, Src
  <2>5. OpParts' /\ CrcClean'
      BY <1>k, <2>1, <2>2, <2>3, <2>4, MoveWaits
  <2>6. Waste' /\ MoveShape'
      BY <1>k, <1>m, <2>1, <2>3, MoveErases
  <2> QED
      BY <2>5, <2>6, Together
<1>5. CASE MoveWriteError
  <2>1. /\ eba_tbl' = eba_tbl /\ work' = NoWork /\ faults' = faults + 1 /\ faults < MaxFaults
      BY <1>5 DEF MoveWriteError, MoveFailed, Fault
  <2>2. faults' \in Nat /\ faults <= faults' /\ faults' <= MaxFaults
      BY <1>f, <2>1
  <2>3. PICK r : /\ Copying /\ SetFlash(work.to, r)
                 /\ \/ work.k = "mvid" /\ r \in {flash[work.to], Blank("corr"), CopyHdr}
                    \/ work.k = "mdata" /\ \E d \in Partial(Src.data) : r = WithData(flash[work.to], d)
      BY <1>5 DEF MoveWriteError, Copying
  <2>4. OpParts' /\ CrcClean'
      BY <1>k, <2>1, <2>2, <2>3, MoveWaits
  <2>5. Waste' /\ MoveShape'
      BY <1>k, <1>m, <2>1, NothingErased
  <2> QED
      BY <2>4, <2>5, Together
<1>6. CASE MoveReadError
  <2>1. flash' = flash /\ eba_tbl' = eba_tbl /\ faults' = faults /\ work' = NoWork
      BY <1>6 DEF MoveReadError, MoveFailed
  <2>2. OpParts' /\ CrcClean'
      BY <1>k, <2>1, QuietWaits
  <2>3. Waste' /\ MoveShape'
      BY <1>k, <1>m, <2>1, NothingErased
  <2> QED
      BY <2>2, <2>3, Together
<1>7. CASE MoveBadHdr
  <2>1. /\ eba_tbl' = eba_tbl /\ work' = NoWork /\ faults' = faults + 1 /\ faults < MaxFaults
      BY <1>7 DEF MoveBadHdr, Fault
  <2>2. faults' \in Nat /\ faults <= faults' /\ faults' <= MaxFaults
      BY <1>f, <2>1
  <2>3. PICK r : /\ Copying /\ SetFlash(work.to, r)
                 /\ work.k = "mvid" /\ r \in {flash[work.to], Blank("corr"), CopyHdr}
      BY <1>7 DEF MoveBadHdr, Copying
  <2>4. OpParts' /\ CrcClean'
      BY <1>k, <2>1, <2>2, <2>3, MoveWaits
  <2>5. Waste' /\ MoveShape'
      BY <1>k, <1>m, <2>1, NothingErased
  <2> QED
      BY <2>4, <2>5, Together
<1> QED
    BY <1>1, <1>2, <1>3, <1>4, <1>5, <1>6, <1>7

-----------------------------------------------------------------------------
(* The invariant is kept: the operations.                                   *)

\* Between operations a LEB reads as it is mapped.
LEMMA BaseIs ==
  ASSUME StoreInv, At("idle"), ~ro_mode, NEW l \in LEB
  PROVE  /\ eba_tbl[l] = NoPeb => Durable(l) = Unmapped
         /\ eba_tbl[l] # NoPeb => /\ Durable(l) = flash[eba_tbl[l]].data
                                  /\ Durable(l) \in Content /\ eba_tbl[l] \in PEB
                                  /\ eba_tbl[l] \in Copies(l)
<1>0. TypeOK /\ CopyInv /\ MapInv
    BY StoreFacts
<1>1. eba_tbl = ScanTbl
    BY <1>0, LoneIsScanned DEF EbaMatchesScan
<1>2. eba_tbl[l] # NoPeb => eba_tbl[l] \in PEB /\ eba_tbl[l] \in Copies(l)
    BY <1>0, MapBefore, AtFacts DEF TypeOK, Alone
<1>3. eba_tbl[l] # NoPeb => flash[eba_tbl[l]].data \in Content
    BY <1>0, <1>2 DEF TypeOK, PebState
<1> QED
    BY <1>1, <1>2, <1>3 DEF Durable

\* How the operations on an unmapped LEB and the atomic change begin.
BeginsWrite(l, c) ==
  \/ op' = Idle("err")
  \/ /\ op'.pc = "vid" /\ op'.kind \in {"write", "change"} /\ op'.lnum = l /\ op'.arg = c
     /\ op'.base = Durable(l) /\ op'.old = NoPeb /\ op'.tries = 0
     /\ op'.sqnum = global_sqnum /\ global_sqnum' = global_sqnum + 1
     /\ op'.kind = "write" => eba_tbl[l] = NoPeb

\* A write or a change begins with the device at rest.
LEMMA BeginIs ==
  ASSUME StoreInv, NEW l \in LEB, NEW c \in Written, WriteLeb(l, c) \/ AtomicLebChange(l, c)
  PROVE  /\ At("idle") /\ ~ro_mode /\ todo = {} /\ UNCHANGED <<flash, up, eba_tbl, ro_mode, todo, work, faults>>
         /\ BeginsWrite(l, c)
<1>0. TypeOK /\ MapInv
    BY StoreFacts
<1>1. At("idle") /\ ~ro_mode /\ UNCHANGED <<flash, up, eba_tbl, ro_mode, todo, work, faults>>
    BY DEF WriteLeb, AtomicLebChange, Ready
<1>2. PICK kind \in {"write", "change"} : /\ GetPeb(NewOp(kind, "vid", l, c))
                                          /\ kind = "write" => eba_tbl[l] = NoPeb
    BY DEF WriteLeb, AtomicLebChange
<1>3. PICK next \in Op : next = NewOp(kind, "vid", l, c)
    BY <1>0, NewOpType, WrittenIsContent DEF Pcs
<1>4. /\ next.kind = kind /\ next.pc = "vid" /\ next.lnum = l /\ next.arg = c /\ next.base = Durable(l)
      /\ next.old = NoPeb /\ next.tries = 0
    BY <1>3, NewOpIs
<1>5. todo = {}
    BY <1>0, <1>1 DEF MapInv, InStep, Stages, At
<1> QED
    BY <1>0, <1>1, <1>2, <1>3, <1>4, <1>5, GetIs DEF BeginsWrite

\* It keeps the invariant.
LEMMA KeepBegin ==
  ASSUME StoreInv, NEW l \in LEB, NEW c \in Written, WriteLeb(l, c) \/ AtomicLebChange(l, c)
  PROVE  DataInv'
<1>0. TypeOK /\ MapInv /\ DataInv
    BY StoreFacts
<1>1. /\ At("idle") /\ ~ro_mode /\ todo = {} /\ UNCHANGED <<flash, up, eba_tbl, ro_mode, todo, work, faults>>
      /\ BeginsWrite(l, c)
    BY BeginIs
<1>2. CrcClean' /\ todo' = {} /\ work' = NoWork
    BY <1>0, <1>1, CrcSame DEF DataInv, At
<1>3. CASE op' = Idle("err")
    BY <1>1, <1>2, <1>3, Returns
<1>4. CASE op' # Idle("err")
  <2>1. /\ op'.pc = "vid" /\ op'.kind \in {"write", "change"} /\ op'.lnum = l /\ op'.arg = c
        /\ op'.base = Durable(l) /\ op'.tries = 0
        /\ op'.sqnum = global_sqnum /\ global_sqnum' = global_sqnum + 1
      BY <1>1, <1>4 DEF BeginsWrite
  <2>2. KindOf' /\ OpShape'
      BY <2>1 DEF KindOf, OpShape
  <2>3. OpBase'
      BY <1>1, <2>1, BaseIs DEF OpBase, RamData
  <2>4. Counted'
      BY <1>0, <1>1, <2>1 DEF Counted, DataInv, TypeOK
  <2>5. Waste' /\ MoveShape'
      BY <1>2, NothingErased
  <2> QED
      BY <1>2, <2>2, <2>3, <2>4, <2>5 DEF DataInv
<1> QED
    BY <1>3, <1>4

\* An append begins with the device at rest, and remembers the eraseblock its LEB is mapped to.
LEMMA AppendIs ==
  ASSUME StoreInv, NEW l \in LEB, NEW c \in Written, AppendLeb(l, c)
  PROVE  /\ At("idle") /\ ~ro_mode /\ todo = {} /\ UNCHANGED <<flash, up, ram, work, faults>>
         /\ eba_tbl[l] # NoPeb
         /\ op'.kind = "append" /\ op'.pc = "inplace" /\ op'.lnum = l /\ op'.arg = c
         /\ op'.base = Durable(l) /\ op'.tries = 0 /\ op'.old = eba_tbl[l]
<1>0. TypeOK /\ MapInv
    BY StoreFacts
<1>1. /\ At("idle") /\ ~ro_mode /\ eba_tbl[l] # NoPeb /\ UNCHANGED <<flash, up, ram, work, faults>>
      /\ op' = [NewOp("append", "inplace", l, c) EXCEPT !.old = eba_tbl[l]]
    BY DEF AppendLeb, Ready
<1>2. PICK o \in Op : o = NewOp("append", "inplace", l, c)
    BY <1>0, NewOpType, WrittenIsContent DEF Pcs
<1>3. /\ o.kind = "append" /\ o.pc = "inplace" /\ o.lnum = l /\ o.arg = c /\ o.base = Durable(l) /\ o.tries = 0
    BY <1>2, NewOpIs
<1>4. /\ op'.kind = o.kind /\ op'.pc = o.pc /\ op'.lnum = o.lnum /\ op'.arg = o.arg /\ op'.base = o.base
      /\ op'.tries = o.tries /\ op'.old = eba_tbl[l]
    BY <1>1, <1>2 DEF Op
<1>5. todo = {}
    BY <1>0, <1>1 DEF MapInv, InStep, Stages, At
<1> QED
    BY <1>1, <1>3, <1>4, <1>5

\* It keeps the invariant.
LEMMA KeepAppend ==
  ASSUME StoreInv, NEW l \in LEB, NEW c \in Written, AppendLeb(l, c)
  PROVE  DataInv'
<1>0. TypeOK /\ DataInv
    BY StoreFacts
<1>1. /\ At("idle") /\ ~ro_mode /\ todo = {} /\ UNCHANGED <<flash, up, ram, work, faults>>
      /\ eba_tbl[l] # NoPeb
      /\ op'.kind = "append" /\ op'.pc = "inplace" /\ op'.lnum = l /\ op'.arg = c
      /\ op'.base = Durable(l) /\ op'.tries = 0
    BY AppendIs
<1>2. CrcClean' /\ todo' = {} /\ work' = NoWork /\ eba_tbl' = eba_tbl
    BY <1>0, <1>1, CrcSame DEF DataInv, At, ram
<1>3. KindOf' /\ OpShape'
    BY <1>1, <1>2 DEF KindOf, OpShape
<1>4. OpBase'
    BY <1>1, <1>2, BaseIs DEF OpBase, RamData
<1>5. Counted'
    BY <1>0, <1>1 DEF Counted, DataInv, TypeOK
<1>6. Waste' /\ MoveShape'
    BY <1>2, NothingErased
<1> QED
    BY <1>2, <1>3, <1>4, <1>5, <1>6 DEF DataInv

\* Giving back an eraseblock never fails while the device is writable.
LEMMA PutWorks ==
  ASSUME StoreInv, up = "up", ~ro_mode, work = NoWork, todo = {}, NEW p \in PEB, p \notin free,
         flash[p].st # "bad", NEW cont, NEW failed, PutPeb(p, cont, failed)
  PROVE  op' = cont /\ work' = Erase(p) /\ work'.k = "erase" /\ work'.from = p /\ ro_mode' = ro_mode
<1>1. Hands = {}
    BY EmptyHands, WorkFacts
<1>2. p \in used
    BY <1>1 DEF StoreInv, PlaceInv, Tidy
<1> QED
    BY <1>2, WorkFacts DEF PutPeb

\* An unmap drops the mapping and asks for the erasure in one step.
LEMMA UnmapIs ==
  ASSUME StoreInv, NEW l \in LEB, UnmapLeb(l)
  PROVE  /\ At("idle") /\ ~ro_mode /\ todo = {} /\ UNCHANGED <<flash, up, todo, faults, ro_mode>>
         /\ eba_tbl[l] # NoPeb /\ eba_tbl' = [eba_tbl EXCEPT ![l] = NoPeb]
         /\ work' = Erase(eba_tbl[l])
         /\ op'.kind = "unmap" /\ op'.pc = "done" /\ op'.lnum = l /\ op'.arg = <<>>
         /\ op'.base = Durable(l) /\ op'.tries = 0 /\ op'.old = NoPeb
<1>0. TypeOK /\ MapInv
    BY StoreFacts
<1>1. /\ At("idle") /\ ~ro_mode /\ eba_tbl[l] # NoPeb /\ UNCHANGED <<flash, up, todo, faults>>
      /\ eba_tbl' = [eba_tbl EXCEPT ![l] = NoPeb]
      /\ PutPeb(eba_tbl[l], NewOp("unmap", "done", l, <<>>), Idle("err"))
    BY DEF UnmapLeb, Ready
<1>2. todo = {} /\ up = "up" /\ work = NoWork
    BY <1>0, <1>1 DEF MapInv, InStep, Stages, At
<1>3. eba_tbl[l] \in PEB /\ flash[eba_tbl[l]].st = "used" /\ eba_tbl[l] \notin free
    BY <1>0, <1>1, BaseIs DEF Copies, MapInv, InStep, Erased
<1>4. op' = NewOp("unmap", "done", l, <<>>) /\ work' = Erase(eba_tbl[l]) /\ ro_mode' = ro_mode
    BY <1>1, <1>2, <1>3, PutWorks
<1> QED
    BY <1>1, <1>2, <1>4, NewOpIs

\* It keeps the invariant.
LEMMA KeepUnmap ==
  ASSUME StoreInv, NEW l \in LEB, UnmapLeb(l)
  PROVE  DataInv'
<1>0. TypeOK /\ DataInv
    BY StoreFacts
<1>1. /\ At("idle") /\ ~ro_mode /\ todo = {} /\ UNCHANGED <<flash, up, todo, faults, ro_mode>>
      /\ eba_tbl[l] # NoPeb /\ eba_tbl' = [eba_tbl EXCEPT ![l] = NoPeb]
      /\ work' = Erase(eba_tbl[l])
      /\ op'.kind = "unmap" /\ op'.pc = "done" /\ op'.lnum = l /\ op'.arg = <<>>
      /\ op'.base = Durable(l) /\ op'.tries = 0 /\ op'.old = NoPeb
    BY UnmapIs
<1>2. CrcClean' /\ work'.k = "erase" /\ work'.from = eba_tbl[l] /\ eba_tbl'[l] = NoPeb
    BY <1>0, <1>1, CrcSame, WorkFacts DEF DataInv, TypeOK
<1>b. Durable(l) = flash[eba_tbl[l]].data /\ Durable(l) \in Content /\ eba_tbl[l] \in Copies(l)
    BY <1>1, BaseIs
<1>3. KindOf' /\ OpShape'
    BY <1>1, <1>2 DEF KindOf, OpShape
<1>4. OpBase'
    BY <1>1, <1>b DEF OpBase
<1>5. Counted'
    BY <1>0, <1>1 DEF Counted, DataInv, TypeOK
<1>6. Waste' /\ MoveShape'
  <2>1. ASSUME NEW k \in LEB, work'.from \in Copies(k)'
        PROVE  ErasedFine(k, flash[work.from])'
    <3>1. k = l
        BY <1>1, <1>2, <1>b, <2>1 DEF Copies
    <3>2. Unfinished(k, flash[work.from])'
        BY <1>1, <1>2, <1>b, <3>1 DEF Unfinished
    <3> QED
        BY <1>2, <3>1, <3>2 DEF ErasedFine
  <2> QED
      BY <1>1, <1>2, <2>1 DEF Waste, MoveShape
<1> QED
    BY <1>2, <1>3, <1>4, <1>5, <1>6 DEF DataInv

\* A write is tried elsewhere: under StoreSafe the tries are never used up.
LEMMA RetryIs ==
  ASSUME StoreSafe, StoreInv, RetryWrite
  PROVE  /\ At("retry") /\ todo = {} /\ UNCHANGED <<flash, up, eba_tbl, todo, work, faults>>
         /\ \/ op' = Idle("err")
            \/ /\ SameReq /\ op'.pc = "vid" /\ op'.old = op.old
               /\ op'.sqnum = global_sqnum /\ global_sqnum' = global_sqnum + 1 /\ op'.tries = op.tries + 1
<1>0. TypeOK /\ MapInv /\ DataInv
    BY StoreFacts
<1>1. At("retry") /\ UNCHANGED <<flash, up, eba_tbl, todo, work, faults>>
    BY DEF RetryWrite
<1>2. todo = {} /\ op.tries < faults /\ faults <= MaxFaults /\ "write" \in Faults
    BY <1>0, <1>1 DEF MapInv, InStep, Stages, At, DataInv, Counted
<1>3. ~(op.tries + 1 > UBI_IO_RETRIES)
    BY <1>0, <1>2, BoundsAssumption DEF StoreSafe, TypeOK, Op
<1>4. PICK next : next = [op EXCEPT !.pc = "vid", !.tries = @ + 1]
    OBVIOUS
<1>5. /\ next \in Op /\ next.pc = "vid" /\ next.kind = op.kind /\ next.lnum = op.lnum
      /\ next.arg = op.arg /\ next.base = op.base /\ next.old = op.old /\ next.tries = op.tries + 1
  <2>1. op \in Op /\ op.tries + 1 \in Nat
      BY <1>0 DEF TypeOK, Op
  <2> QED
      BY <1>4, <2>1 DEF Op, Pcs
<1>6. GetPeb(next)
    BY <1>3, <1>4 DEF RetryWrite
<1> QED
    BY <1>0, <1>1, <1>2, <1>5, <1>6, GetIs DEF SameReq

\* The retry keeps the invariant.
LEMMA KeepRetry ==
  ASSUME StoreSafe, StoreInv, RetryWrite
  PROVE  DataInv'
<1>0. TypeOK /\ DataInv
    BY StoreFacts
<1>1. /\ At("retry") /\ todo = {} /\ UNCHANGED <<flash, up, eba_tbl, todo, work, faults>>
      /\ \/ op' = Idle("err")
         \/ /\ SameReq /\ op'.pc = "vid"
            /\ op'.sqnum = global_sqnum /\ global_sqnum' = global_sqnum + 1 /\ op'.tries = op.tries + 1
    BY RetryIs
<1>2. CrcClean' /\ todo' = {} /\ work' = NoWork
    BY <1>0, <1>1, CrcSame DEF DataInv, At
<1>3. CASE op' = Idle("err")
    BY <1>1, <1>2, <1>3, Returns
<1>4. CASE op' # Idle("err")
  <2>1. op.kind \in {"write", "change"} /\ op.pc = "retry"
      BY <1>0, <1>1 DEF DataInv, KindOf, At
  <2>2. KindOf' /\ OpShape'
      BY <1>0, <1>1, <1>4, <2>1 DEF KindOf, OpShape, SameReq, DataInv
  <2>3. OpBase'
      BY <1>0, <1>1, <1>4, <2>1 DEF OpBase, RamData, SameReq, DataInv
  <2>4. Counted'
      BY <1>0, <1>1, <1>4, <2>1 DEF Counted, DataInv, TypeOK, Op, SameReq
  <2>5. Waste' /\ MoveShape'
      BY <1>2, NothingErased
  <2> QED
      BY <1>2, <2>2, <2>3, <2>4, <2>5 DEF DataInv
<1> QED
    BY <1>3, <1>4

\* Where an operation writes its new eraseblock.
LEMMA WritesOwn ==
  ASSUME StoreInv, NEW pc \in {"vid", "data"}, Alone(pc), NEW r, SetFlash(op.pnum, r)
  PROVE  /\ op.lnum \in LEB /\ op.pnum \in PEB /\ op.pnum \notin free /\ flash[op.pnum].st # "bad"
         /\ op.kind \in {"write", "change"} /\ todo = {} /\ up = "up" /\ work = NoWork
         /\ op.kind = "write" => eba_tbl[op.lnum] = NoPeb
         /\ flash'[op.pnum] = r /\ \A q \in PEB : q # op.pnum => flash'[q] = flash[q]
         /\ eba_tbl[op.lnum] # NoPeb => /\ eba_tbl[op.lnum] \in Copies(op.lnum) /\ eba_tbl[op.lnum] \in PEB
                                        /\ eba_tbl[op.lnum] # op.pnum
                                        /\ flash'[eba_tbl[op.lnum]] = flash[eba_tbl[op.lnum]]
<1>0. TypeOK /\ MapInv /\ ControlOK
    BY StoreFacts
<1>1. op.lnum \in LEB /\ op.pnum \in PEB /\ todo = {} /\ up = "up" /\ work = NoWork /\ op.pc = pc
    BY OpIsNewest DEF Alone
<1>2. /\ op.pnum \notin free /\ flash[op.pnum].st \in {"free", "used"}
      /\ op.pc = "vid" => flash[op.pnum].st = "free"
      /\ op.pc = "data" => eba_tbl[op.lnum] # op.pnum
    BY <1>0, <1>1 DEF MapInv, InStep, OpHolds, Erased, Copies
<1>3. op.kind \in {"write", "change"} /\ (op.kind = "write" => eba_tbl[op.lnum] = NoPeb)
    BY <1>0, <1>1 DEF MapInv, InStep, Stages
<1>4. flash'[op.pnum] = r /\ \A q \in PEB : q # op.pnum => flash'[q] = flash[q]
    BY <1>0, <1>1 DEF SetFlash, TypeOK
<1>5. eba_tbl[op.lnum] # NoPeb => /\ eba_tbl[op.lnum] \in Copies(op.lnum) /\ eba_tbl[op.lnum] \in PEB
                                  /\ eba_tbl[op.lnum] # op.pnum
    BY <1>0, <1>1, <1>2, MapBefore DEF Copies
<1> QED
    BY <1>1, <1>2, <1>3, <1>4, <1>5

\* The other copies of its LEB are older.
LEMMA OthersOlder ==
  ASSUME StoreInv, NEW pc \in {"vid", "data"}, Alone(pc), NEW r, SetFlash(op.pnum, r),
         op'.lnum = op.lnum, op'.pnum = op.pnum, op'.sqnum = op.sqnum
  PROVE  \A x \in Copies(op.lnum)' \ {op'.pnum} : flash'[x].sqnum < op'.sqnum
<1> SUFFICES ASSUME NEW x \in Copies(op.lnum)', x # op.pnum
             PROVE  flash'[x].sqnum < op.sqnum
    OBVIOUS
<1>1. x \in PEB /\ flash'[x].st = "used"
    BY DEF Copies
<1>2. flash'[x] = flash[x]
    BY <1>1, WritesOwn
<1> QED
    BY <1>1, <1>2, OpIsNewest DEF Alone

\* Writing the header of an operation keeps the invariant.
LEMMA KeepVidHdr ==
  ASSUME StoreInv, WriteVidHdr
  PROVE  DataInv'
<1>0. TypeOK /\ MapInv /\ DataInv
    BY StoreFacts
<1>1. /\ Alone("vid") /\ SetFlash(op.pnum, OpHdr) /\ UNCHANGED <<up, ram, work, faults>>
      /\ op' = [op EXCEPT !.pc = IF op.arg = <<>> THEN "map" ELSE "data"]
    BY AtFacts DEF WriteVidHdr, Goto
<1>2. /\ op.lnum \in LEB /\ op.pnum \in PEB /\ op.kind \in {"write", "change"} /\ todo = {} /\ work = NoWork
      /\ flash'[op.pnum] = OpHdr /\ (op.kind = "write" => eba_tbl[op.lnum] = NoPeb)
      /\ eba_tbl[op.lnum] # NoPeb => flash'[eba_tbl[op.lnum]] = flash[eba_tbl[op.lnum]]
    BY <1>1, WritesOwn
<1>3. /\ SameReq /\ op'.pc = (IF op.arg = <<>> THEN "map" ELSE "data") /\ op'.pnum = op.pnum
      /\ op'.sqnum = op.sqnum /\ op'.tries = op.tries
    BY <1>0, <1>1, GotoIs
<1>4. /\ eba_tbl' = eba_tbl /\ global_sqnum' = global_sqnum /\ todo' = {} /\ work' = NoWork
      /\ ro_mode' = ro_mode
    BY <1>1, <1>2 DEF ram
<1>5. OpHdr.copy_flag => Clean(OpHdr.crc)
    BY <1>2, OpHdrIs
<1>6. CrcClean'
    BY <1>0, <1>1, <1>2, <1>5, CrcSet DEF DataInv
<1>7. Waste' /\ MoveShape'
    BY <1>4, NothingErased
<1>8. KindOf'
    BY <1>0, <1>2, <1>3, <1>4 DEF KindOf, SameReq, DataInv
<1>9. OpShape'
  <2>1. OpHdr' = OpHdr
      BY <1>3 DEF OpHdr, SameReq
  <2>2. op.sqnum + 1 = global_sqnum /\ (op.kind = "change" => op.arg \in Written)
      BY <1>0, <1>1 DEF DataInv, OpShape, Alone
  <2>3. op.arg = <<>> => OpHdr = WithData(OpHdr, op.arg)
    <3>1. OpHdr \in PebState /\ OpHdr.data = <<>>
        BY <1>2, OpHdrIs
    <3> QED
        BY <3>1 DEF WithData, PebState
  <2>4. \A x \in Copies(op.lnum)' \ {op'.pnum} : flash'[x].sqnum < op'.sqnum
      BY <1>1, <1>3, OthersOlder DEF SameReq
  <2>5. op'.pc = "map" => flash'[op'.pnum] = WithData(OpHdr, op.arg)'
      BY <1>2, <1>3, <2>1, <2>3 DEF SameReq, WithData
  <2> QED
      BY <1>2, <1>3, <1>4, <2>1, <2>2, <2>4, <2>5 DEF OpShape, SameReq
<1>10. OpBase'
    BY <1>0, <1>1, <1>2, <1>3, <1>4 DEF OpBase, RamData, SameReq, DataInv, Alone
<1>11. Counted'
    BY <1>0, <1>1, <1>3 DEF Counted, DataInv
<1> QED
    BY <1>6, <1>7, <1>8, <1>9, <1>10, <1>11 DEF DataInv

\* The data is written, and a change of a mapped LEB asks for the erasure of the old eraseblock.
LEMMA WriteDataIs ==
  ASSUME StoreInv, WriteData
  PROVE  /\ Alone("data") /\ ~ro_mode /\ ro_mode' = ro_mode
         /\ SetFlash(op.pnum, WithData(flash[op.pnum], op.arg))
         /\ UNCHANGED <<up, eba_tbl, free, global_sqnum, todo, faults>>
         /\ op' = [op EXCEPT !.pc = "map"]
         /\ \/ work' = NoWork
            \/ op.kind = "change" /\ eba_tbl[op.lnum] # NoPeb /\ work' = Erase(eba_tbl[op.lnum])
<1>0. TypeOK /\ MapInv /\ DataInv
    BY StoreFacts
<1>1. /\ Alone("data") /\ ~ro_mode /\ SetFlash(op.pnum, WithData(flash[op.pnum], op.arg))
      /\ UNCHANGED <<up, eba_tbl, free, global_sqnum, todo, faults>>
    BY AtFacts DEF WriteData
<1>2. todo = {} /\ up = "up" /\ work = NoWork /\ op.lnum \in LEB
    BY <1>1, WritesOwn
<1>3. CASE op.kind = "change" /\ eba_tbl[op.lnum] # NoPeb
  <2>1. PutPeb(eba_tbl[op.lnum], [op EXCEPT !.pc = "map"], Idle("err"))
      BY <1>3 DEF WriteData
  <2>2. eba_tbl[op.lnum] \in PEB /\ eba_tbl[op.lnum] \notin free /\ flash[eba_tbl[op.lnum]].st = "used"
      BY <1>0, <1>1, <1>3, WritesOwn DEF Copies, MapInv, InStep, Erased
  <2>3. op' = [op EXCEPT !.pc = "map"] /\ work' = Erase(eba_tbl[op.lnum]) /\ ro_mode' = ro_mode
      BY <1>1, <1>2, <2>1, <2>2, PutWorks
  <2> QED
      BY <1>1, <1>3, <2>3
<1>4. CASE ~(op.kind = "change" /\ eba_tbl[op.lnum] # NoPeb)
    BY <1>1, <1>2, <1>4 DEF WriteData, Goto
<1> QED
    BY <1>3, <1>4

\* Writing the data keeps the invariant.
LEMMA KeepData ==
  ASSUME StoreInv, WriteData
  PROVE  DataInv'
<1>0. TypeOK /\ MapInv /\ DataInv
    BY StoreFacts
<1>1. /\ Alone("data") /\ ~ro_mode /\ ro_mode' = ro_mode
      /\ SetFlash(op.pnum, WithData(flash[op.pnum], op.arg))
      /\ UNCHANGED <<up, eba_tbl, free, global_sqnum, todo, faults>>
      /\ op' = [op EXCEPT !.pc = "map"]
      /\ \/ work' = NoWork
         \/ op.kind = "change" /\ eba_tbl[op.lnum] # NoPeb /\ work' = Erase(eba_tbl[op.lnum])
    BY WriteDataIs
<1>2. /\ op.lnum \in LEB /\ op.pnum \in PEB /\ op.kind \in {"write", "change"} /\ todo = {}
      /\ flash'[op.pnum] = WithData(flash[op.pnum], op.arg)
      /\ eba_tbl[op.lnum] # NoPeb => /\ flash'[eba_tbl[op.lnum]] = flash[eba_tbl[op.lnum]]
                                     /\ eba_tbl[op.lnum] \in Copies(op.lnum)
    BY <1>1, WritesOwn
<1>3. /\ SameReq /\ op'.pc = "map" /\ op'.pnum = op.pnum /\ op'.sqnum = op.sqnum /\ op'.tries = op.tries
    BY <1>0, <1>1, GotoIs
<1>4. CrcClean'
    BY <1>0, <1>1, <1>2, CrcData DEF DataInv
<1>5. KindOf'
    BY <1>0, <1>1, <1>2, <1>3 DEF KindOf, SameReq, DataInv
<1>6. OpShape'
  <2>1. OpHdr' = OpHdr /\ flash[op.pnum] = OpHdr /\ (op.kind = "change" => op.arg \in Written)
      BY <1>0, <1>1, <1>3 DEF OpHdr, SameReq, DataInv, OpShape, Alone
  <2>2. \A x \in Copies(op.lnum)' \ {op'.pnum} : flash'[x].sqnum < op'.sqnum
      BY <1>1, <1>3, OthersOlder DEF SameReq
  <2>3. flash'[op'.pnum] = WithData(OpHdr, op.arg)'
      BY <1>2, <1>3, <2>1 DEF SameReq, WithData
  <2> QED
      BY <1>3, <2>1, <2>2, <2>3 DEF OpShape, SameReq
<1>7. OpBase'
    BY <1>0, <1>1, <1>2, <1>3 DEF OpBase, SameReq, DataInv
<1>8. Counted'
    BY <1>0, <1>1, <1>3 DEF Counted, DataInv
<1>9. Waste' /\ MoveShape'
  <2>1. CASE work' = NoWork
      BY <1>1, <1>2, <2>1, NothingErased
  <2>2. CASE op.kind = "change" /\ eba_tbl[op.lnum] # NoPeb /\ work' = Erase(eba_tbl[op.lnum])
    <3>1. work'.k = "erase" /\ work'.from = eba_tbl[op.lnum]
        BY <2>2, WorkFacts
    <3>2. ASSUME NEW k \in LEB, work'.from \in Copies(k)'
          PROVE  ErasedFine(k, flash[work.from])'
      <4>1. k = op.lnum
          BY <1>2, <2>2, <3>1, <3>2 DEF Copies
      <4>2. Changing' /\ op'.lnum = k /\ eba_tbl'[k] # NoPeb
          BY <1>1, <1>3, <2>2, <4>1 DEF Changing, SameReq
      <4> QED
          BY <4>2 DEF ErasedFine
    <3> QED
        BY <1>1, <1>2, <3>1, <3>2 DEF Waste, MoveShape
  <2> QED
      BY <1>1, <2>1, <2>2
<1> QED
    BY <1>4, <1>5, <1>6, <1>7, <1>8, <1>9 DEF DataInv

\* What a failed write leaves.
LEMMA WriteErrorIs ==
  ASSUME StoreInv, WriteError
  PROVE  /\ ~ro_mode /\ ro_mode' = ro_mode /\ UNCHANGED <<up, eba_tbl, free, global_sqnum, todo>>
         /\ faults' = faults + 1 /\ faults < MaxFaults /\ "write" \in Faults
         /\ op' = [op EXCEPT !.pc = "retry"] /\ work' = Erase(op.pnum)
         /\ \/ Alone("vid") /\ \E r \in VidHdrLeft : SetFlash(op.pnum, r)
            \/ Alone("data") /\ \E d \in Partial(op.arg) : SetFlash(op.pnum, WithData(flash[op.pnum], d))
<1>0. TypeOK /\ MapInv /\ DataInv
    BY StoreFacts
<1>1. /\ ~ro_mode /\ UNCHANGED <<up, eba_tbl, free, global_sqnum, todo>>
      /\ faults' = faults + 1 /\ faults < MaxFaults /\ "write" \in Faults
      /\ PutPeb(op.pnum, [op EXCEPT !.pc = "retry"], Idle("err"))
    BY DEF WriteError, Fault
<1>2. \/ Alone("vid") /\ \E r \in VidHdrLeft : SetFlash(op.pnum, r)
      \/ Alone("data") /\ \E d \in Partial(op.arg) : SetFlash(op.pnum, WithData(flash[op.pnum], d))
    BY AtFacts DEF WriteError, DataLeft
<1>3. /\ op.pnum \in PEB /\ op.pnum \notin free /\ flash[op.pnum].st # "bad"
      /\ todo = {} /\ up = "up" /\ work = NoWork
    BY <1>2, WritesOwn
<1>4. op' = [op EXCEPT !.pc = "retry"] /\ work' = Erase(op.pnum) /\ ro_mode' = ro_mode
    BY <1>1, <1>3, PutWorks
<1> QED
    BY <1>1, <1>2, <1>4

\* A failed write keeps the invariant: what it left is to be erased.
LEMMA KeepWriteError ==
  ASSUME StoreInv, WriteError
  PROVE  DataInv'
<1>0. TypeOK /\ MapInv /\ DataInv
    BY StoreFacts
<1>1. /\ ~ro_mode /\ ro_mode' = ro_mode /\ UNCHANGED <<up, eba_tbl, free, global_sqnum, todo>>
      /\ faults' = faults + 1 /\ faults < MaxFaults /\ "write" \in Faults
      /\ op' = [op EXCEPT !.pc = "retry"] /\ work' = Erase(op.pnum)
      /\ \/ Alone("vid") /\ \E r \in VidHdrLeft : SetFlash(op.pnum, r)
         \/ Alone("data") /\ \E d \in Partial(op.arg) : SetFlash(op.pnum, WithData(flash[op.pnum], d))
    BY WriteErrorIs
<1>p. PICK pc, r :
        /\ pc \in {"vid", "data"} /\ Alone(pc) /\ SetFlash(op.pnum, r)
        /\ pc = "vid" => r \in VidHdrLeft
        /\ pc = "data" => \E d \in Partial(op.arg) : r = WithData(flash[op.pnum], d)
    BY <1>1
<1>2. /\ op.lnum \in LEB /\ op.pnum \in PEB /\ op.kind \in {"write", "change"} /\ todo = {}
      /\ flash'[op.pnum] = r /\ (op.kind = "write" => eba_tbl[op.lnum] = NoPeb)
      /\ eba_tbl[op.lnum] # NoPeb => /\ flash'[eba_tbl[op.lnum]] = flash[eba_tbl[op.lnum]]
                                     /\ eba_tbl[op.lnum] \in Copies(op.lnum)
                                     /\ eba_tbl[op.lnum] \in PEB /\ eba_tbl[op.lnum] # op.pnum
    BY <1>p, WritesOwn
<1>3. SameReq /\ op'.pc = "retry" /\ op'.pnum = op.pnum /\ op'.sqnum = op.sqnum /\ op'.tries = op.tries
    BY <1>0, <1>1, GotoIs
<1>4. /\ r.copy_flag => Clean(r.crc)
      /\ r.st = "used" => /\ r.lnum = op.lnum /\ r.data \in Partial(op.arg) /\ r.sqnum = op.sqnum
                          /\ op.kind = "change" => r.copy_flag /\ r.crc = op.arg
  <2>1. CASE pc = "vid"
    <3>1. flash[op.pnum].st = "free" /\ op.arg \in Content
        BY <1>0, <1>p, <2>1, OpIsNewest DEF Alone, TypeOK, Op
    <3>2. CASE r = OpHdr
        BY <1>2, <3>1, <3>2, OpHdrIs, PartialEnds
    <3>3. CASE r = Blank("corr")
        BY <3>3, BlankIs, HdrFacts
    <3>4. CASE r = flash[op.pnum]
        BY <1>0, <1>2, <3>1, <3>4 DEF DataInv, CrcClean
    <3> QED
        BY <1>p, <2>1, <3>2, <3>3, <3>4 DEF VidHdrLeft
  <2>2. CASE pc = "data"
    <3>1. PICK d \in Partial(op.arg) : r = WithData(OpHdr, d)
        BY <1>0, <1>p, <2>2 DEF DataInv, OpShape, Alone
    <3>2. /\ r.copy_flag = OpHdr.copy_flag /\ r.crc = OpHdr.crc /\ r.sqnum = OpHdr.sqnum
          /\ r.lnum = OpHdr.lnum /\ r.data = d
        BY <1>2, <3>1, OpHdrIs DEF WithData, PebState
    <3> QED
        BY <1>2, <3>2, OpHdrIs
  <2> QED
      BY <1>p, <2>1, <2>2
<1>5. CrcClean'
    BY <1>0, <1>p, <1>2, <1>4, CrcSet DEF DataInv
<1>6. KindOf' /\ OpShape'
    BY <1>0, <1>p, <1>1, <1>2, <1>3 DEF KindOf, OpShape, SameReq, DataInv
<1>7. OpBase'
    BY <1>0, <1>p, <1>1, <1>2, <1>3 DEF OpBase, RamData, SameReq, DataInv, Alone
<1>8. Counted'
    BY <1>0, <1>1, <1>2, <1>3, BoundsAssumption DEF Counted, DataInv, TypeOK, Op, SameReq
<1>9. Waste' /\ MoveShape'
  <2>1. work'.k = "erase" /\ work'.from = op.pnum
      BY <1>1, WorkFacts
  <2>2. ASSUME NEW k \in LEB, work'.from \in Copies(k)'
        PROVE  ErasedFine(k, flash[work.from])'
    <3>1. r.st = "used" /\ k = op.lnum
        BY <1>2, <1>4, <2>1, <2>2 DEF Copies
    <3>2. CASE eba_tbl[k] = NoPeb
      <4>1. Unfinished(k, flash[work.from])'
          BY <1>2, <1>3, <1>4, <2>1, <3>1 DEF Unfinished, SameReq
      <4> QED
          BY <1>1, <3>2, <4>1 DEF ErasedFine
    <3>3. CASE eba_tbl[k] # NoPeb
      <4>1. flash[eba_tbl[k]].sqnum < op.sqnum /\ flash[eba_tbl[k]].sqnum \in Nat /\ op.sqnum \in Nat
          BY <1>0, <1>p, <1>2, <3>1, <3>3, OpIsNewest DEF Alone, Copies, TypeOK, PebState, Op
      <4>2. Leftover(k, flash[work.from], flash[eba_tbl[k]])'
          BY <1>1, <1>2, <1>3, <1>4, <2>1, <3>1, <3>3, <4>1 DEF Leftover, SameReq
      <4> QED
          BY <1>1, <3>3, <4>2 DEF ErasedFine
    <3> QED
        BY <3>2, <3>3
  <2> QED
      BY <1>1, <1>2, <2>1, <2>2 DEF Waste, MoveShape
<1> QED
    BY <1>5, <1>6, <1>7, <1>8, <1>9 DEF DataInv

\* Where an append, or the recovery of one, works.
LEMMA AppendHolds ==
  ASSUME StoreInv, NEW pc \in {"inplace", "rget", "rvid", "rdata"}, Alone(pc)
  PROVE  /\ op.lnum \in LEB /\ op.old \in PEB /\ op.old = eba_tbl[op.lnum] /\ op.old \in Copies(op.lnum)
         /\ flash[op.old] \in PebState /\ flash[op.old].st = "used" /\ flash[op.old].lnum = op.lnum
         /\ flash[op.old].data \in Content /\ op.old \notin free
         /\ op.kind = "append" /\ op.base \in Content /\ op.arg \in Content
         /\ ~ro_mode /\ todo = {} /\ up = "up" /\ work = NoWork /\ op.pc = pc
         /\ pc = "inplace" => flash[op.old].data = op.base
         /\ pc # "inplace" => flash[op.old].data \in Extended /\ "inplace" \in Faults /\ faults >= 1
         /\ pc \in {"rvid", "rdata"} => /\ op.pnum \in PEB /\ op.pnum # op.old /\ op.pnum \notin free
                                        /\ flash[op.pnum].st # "bad"
<1>0. TypeOK /\ MapInv /\ ControlOK /\ DataInv
    BY StoreFacts
<1>1. /\ op.lnum \in LEB /\ op.old \in PEB /\ op.old = eba_tbl[op.lnum] /\ ~ro_mode /\ todo = {}
      /\ up = "up" /\ work = NoWork /\ op.pc = pc
    BY <1>0 DEF ControlOK, MapInv, InStep, OpHolds, Stages, Alone
<1>2. op.old \in Copies(op.lnum)
    BY <1>0, <1>1, MapBefore
<1>3. /\ flash[op.old] \in PebState /\ flash[op.old].st = "used" /\ flash[op.old].lnum = op.lnum
      /\ flash[op.old].data \in Content /\ op.old \notin free
    BY <1>0, <1>1, <1>2 DEF TypeOK, PebState, Copies, MapInv, InStep, Erased
<1>4. op.kind = "append" /\ op.base \in Content /\ op.arg \in Content
    BY <1>0, <1>1 DEF DataInv, KindOf, OpBase, TypeOK, Op
<1>5. /\ pc = "inplace" => flash[op.old].data = op.base
      /\ pc # "inplace" => flash[op.old].data \in Extended /\ "inplace" \in Faults /\ faults >= 1
    BY <1>0, <1>1 DEF DataInv, OpBase, RamData, MapInv, InStep, Stages
<1>6. pc \in {"rvid", "rdata"} => /\ op.pnum \in PEB /\ op.pnum # op.old /\ op.pnum \notin free
                                  /\ flash[op.pnum].st # "bad"
    BY <1>0, <1>1, <1>3 DEF ControlOK, MapInv, InStep, OpHolds, Erased, Copies
<1> QED
    BY <1>1, <1>2, <1>3, <1>4, <1>5, <1>6

\* Writing in place, complete or failed, keeps the invariant.
LEMMA KeepInPlace ==
  ASSUME StoreInv, WriteInPlace \/ WriteInPlaceError
  PROVE  DataInv'
<1>0. TypeOK /\ DataInv /\ MapInv
    BY StoreFacts
<1>1. Alone("inplace") /\ UNCHANGED <<up, ram, work>>
    BY AtFacts DEF WriteInPlace, WriteInPlaceError
<1>2. /\ op.lnum \in LEB /\ op.old \in PEB /\ op.old = eba_tbl[op.lnum] /\ op.kind = "append"
      /\ op.base \in Content /\ todo = {} /\ flash[op.old].data = op.base /\ flash[op.old] \in PebState
    BY <1>1, AppendHolds
<1>3. eba_tbl' = eba_tbl /\ todo' = {} /\ work' = NoWork
    BY <1>1, <1>2 DEF ram, Alone
<1>4. CASE WriteInPlace
  <2>1. CrcClean'
      BY <1>0, <1>2, <1>4, CrcData DEF WriteInPlace, DataInv
  <2> QED
      BY <1>3, <1>4, <2>1, Returns DEF WriteInPlace, Return
<1>5. CASE WriteInPlaceError
  <2>1. PICK d \in Partial(op.arg) : SetFlash(op.old, WithData(flash[op.old], op.base \o d))
      BY <1>2, <1>5 DEF WriteInPlaceError
  <2>2. /\ SameReq /\ op'.pc = "rget" /\ op'.old = op.old /\ op'.tries = op.tries
        /\ faults' = faults + 1 /\ faults < MaxFaults
      BY <1>0, <1>5, GotoIs DEF WriteInPlaceError, Goto, Fault
  <2>3. CrcClean'
      BY <1>0, <1>2, <2>1, CrcData DEF DataInv
  <2>4. flash'[op.old].data = op.base \o d
      BY <1>0, <1>2, <2>1 DEF SetFlash, WithData, TypeOK, PebState
  <2>5. KindOf' /\ OpShape'
      BY <1>0, <1>2, <1>3, <2>2 DEF KindOf, OpShape, SameReq, DataInv
  <2>6. OpBase'
    <3>1. Extended' = Extended /\ op.base \o d \in Extended
        BY <2>2 DEF Extended, SameReq
    <3> QED
        BY <1>2, <1>3, <2>2, <2>4, <3>1 DEF OpBase, RamData, SameReq
  <2>7. Counted'
      BY <1>0, <2>2, BoundsAssumption DEF Counted, DataInv, TypeOK, Op, SameReq
  <2>8. Waste' /\ MoveShape'
      BY <1>3, NothingErased
  <2> QED
      BY <2>3, <2>5, <2>6, <2>7, <2>8 DEF DataInv
<1> QED
    BY <1>4, <1>5

\* recover_peb takes an eraseblock, or gives up; the header of the old one can be read.
LEMMA RecoverGetIs ==
  ASSUME StoreInv, RecoverGetPeb
  PROVE  /\ Alone("rget") /\ UNCHANGED <<flash, up, eba_tbl, todo, faults, work>>
         /\ \/ op' = Idle("err")
            \/ /\ SameReq /\ op'.pc = "rvid" /\ op'.old = op.old /\ op'.tries = op.tries
               /\ op'.sqnum = global_sqnum /\ global_sqnum' = global_sqnum + 1
<1>0. TypeOK
    BY StoreFacts
<1>1. Alone("rget") /\ UNCHANGED <<flash, up, eba_tbl, todo, faults>>
    BY AtFacts DEF RecoverGetPeb
<1>2. flash[op.old].st = "used"
    BY <1>1, AppendHolds
<1>3. CASE free = {}
    BY <1>1, <1>3 DEF RecoverGetPeb, Return
<1>4. CASE free # {}
  <2>1. PICK p \in free : /\ global_sqnum' = global_sqnum + 1 /\ work' = work
                          /\ op' = [op EXCEPT !.pc = "rvid", !.pnum = p, !.sqnum = global_sqnum]
      BY <1>2, <1>4 DEF RecoverGetPeb
  <2>2. /\ SameReq /\ op'.pc = "rvid" /\ op'.old = op.old /\ op'.tries = op.tries
        /\ op'.sqnum = global_sqnum
      BY <1>0, <2>1 DEF TypeOK, Op, SameReq
  <2> QED
      BY <1>1, <2>1, <2>2
<1> QED
    BY <1>3, <1>4

\* It keeps the invariant.
LEMMA KeepRecoverGet ==
  ASSUME StoreInv, RecoverGetPeb
  PROVE  DataInv'
<1>0. TypeOK /\ DataInv
    BY StoreFacts
<1>1. /\ Alone("rget") /\ UNCHANGED <<flash, up, eba_tbl, todo, faults, work>>
      /\ \/ op' = Idle("err")
         \/ /\ SameReq /\ op'.pc = "rvid" /\ op'.old = op.old /\ op'.tries = op.tries
            /\ op'.sqnum = global_sqnum /\ global_sqnum' = global_sqnum + 1
    BY RecoverGetIs
<1>2. /\ op.lnum \in LEB /\ op.old = eba_tbl[op.lnum] /\ op.old \in PEB /\ op.kind = "append"
      /\ op.base \in Content /\ todo = {} /\ work = NoWork /\ flash[op.old].data \in Extended
    BY <1>1, AppendHolds
<1>3. CrcClean'
    BY <1>0, <1>1, CrcSame DEF DataInv
<1>4. CASE op' = Idle("err")
    BY <1>1, <1>2, <1>3, <1>4, Returns
<1>5. CASE op' # Idle("err")
  <2>1. KindOf' /\ OpShape'
      BY <1>0, <1>1, <1>2, <1>5 DEF KindOf, OpShape, SameReq, DataInv
  <2>2. OpBase'
    <3>1. Extended' = Extended
        BY <1>1, <1>5 DEF Extended, SameReq
    <3> QED
        BY <1>1, <1>2, <1>5, <3>1 DEF OpBase, RamData, SameReq
  <2>3. Counted'
      BY <1>0, <1>1, <1>2, <1>5 DEF Counted, DataInv, SameReq
  <2>4. Waste' /\ MoveShape'
      BY <1>1, <1>2, NothingErased
  <2> QED
      BY <1>3, <2>1, <2>2, <2>3, <2>4 DEF DataInv
<1> QED
    BY <1>4, <1>5

\* Writing the recovered header keeps the invariant.
LEMMA KeepRecoverVidHdr ==
  ASSUME StoreInv, RecoverVidHdr
  PROVE  DataInv'
<1>0. TypeOK /\ DataInv
    BY StoreFacts
<1>1. /\ Alone("rvid") /\ SetFlash(op.pnum, RecoveredHdr) /\ op' = [op EXCEPT !.pc = "rdata"]
      /\ UNCHANGED <<up, ram, work, faults>>
    BY AtFacts DEF RecoverVidHdr, Goto
<1>2. /\ op.lnum \in LEB /\ op.old = eba_tbl[op.lnum] /\ op.old \in PEB /\ op.kind = "append"
      /\ op.base \in Content /\ todo = {} /\ work = NoWork /\ flash[op.old].data \in Extended
      /\ op.pnum \in PEB /\ op.pnum # op.old
    BY <1>1, AppendHolds
<1>3. /\ SameReq /\ op'.pc = "rdata" /\ op'.old = op.old /\ op'.tries = op.tries /\ op'.pnum = op.pnum
      /\ op'.sqnum = op.sqnum
    BY <1>0, <1>1, GotoIs
<1>4. /\ flash'[op.pnum] = RecoveredHdr /\ flash'[op.old] = flash[op.old]
      /\ eba_tbl' = eba_tbl /\ global_sqnum' = global_sqnum /\ todo' = {} /\ work' = NoWork
    BY <1>0, <1>1, <1>2 DEF SetFlash, TypeOK, ram
<1>5. RecoveredHdr' = RecoveredHdr
    BY <1>3, <1>4 DEF RecoveredHdr
<1>6. RecoveredHdr.copy_flag => Clean(RecoveredHdr.crc)
    BY <1>2, RecoveredHdrIs
<1>7. CrcClean'
    BY <1>0, <1>1, <1>2, <1>6, CrcSet DEF DataInv
<1>8. KindOf' /\ OpShape'
  <2>1. op.sqnum + 1 = global_sqnum
      BY <1>0, <1>1 DEF DataInv, OpShape, Alone
  <2> QED
      BY <1>0, <1>2, <1>3, <1>4, <1>5, <2>1 DEF KindOf, OpShape, SameReq, DataInv
<1>9. OpBase'
  <2>1. Extended' = Extended
      BY <1>3 DEF Extended, SameReq
  <2> QED
      BY <1>2, <1>3, <1>4, <2>1 DEF OpBase, RamData, SameReq
<1>10. Counted'
    BY <1>0, <1>1, <1>2, <1>3 DEF Counted, DataInv, SameReq
<1>11. Waste' /\ MoveShape'
    BY <1>4, NothingErased
<1> QED
    BY <1>7, <1>8, <1>9, <1>10, <1>11 DEF DataInv

\* recover_peb writes the pages that were there and the new ones, and the old eraseblock is known to wl.c.
LEMMA RecoverDataIs ==
  ASSUME StoreInv, RecoverData
  PROVE  /\ Alone("rdata") /\ SetFlash(op.pnum, WithData(flash[op.pnum], op.base \o op.arg))
         /\ eba_tbl' = [eba_tbl EXCEPT ![op.lnum] = op.pnum]
         /\ op' = [op EXCEPT !.pc = "done"] /\ work' = Erase(op.old)
         /\ UNCHANGED <<up, todo, faults, ro_mode>>
<1>1. /\ Alone("rdata") /\ SetFlash(op.pnum, WithData(flash[op.pnum], RecoveredData))
      /\ eba_tbl' = [eba_tbl EXCEPT ![op.lnum] = op.pnum]
      /\ PutPeb(op.old, [op EXCEPT !.pc = "done"], Idle("ok"))
      /\ UNCHANGED <<up, todo, faults>>
    BY AtFacts DEF RecoverData
<1>2. /\ op.old \in PEB /\ op.old \notin free /\ flash[op.old].st = "used" /\ ~ro_mode
      /\ todo = {} /\ up = "up" /\ work = NoWork
    BY <1>1, AppendHolds
<1>3. op' = [op EXCEPT !.pc = "done"] /\ work' = Erase(op.old) /\ ro_mode' = ro_mode
    BY <1>1, <1>2, PutWorks
<1> QED
    BY <1>1, <1>3, RecoveredIs

\* It keeps the invariant.
LEMMA KeepRecoverData ==
  ASSUME StoreInv, RecoverData
  PROVE  DataInv'
<1>0. TypeOK /\ DataInv
    BY StoreFacts
<1>1. /\ Alone("rdata") /\ SetFlash(op.pnum, WithData(flash[op.pnum], op.base \o op.arg))
      /\ eba_tbl' = [eba_tbl EXCEPT ![op.lnum] = op.pnum]
      /\ op' = [op EXCEPT !.pc = "done"] /\ work' = Erase(op.old)
      /\ UNCHANGED <<up, todo, faults, ro_mode>>
    BY RecoverDataIs
<1>2. /\ op.lnum \in LEB /\ op.old = eba_tbl[op.lnum] /\ op.old \in PEB /\ op.kind = "append"
      /\ op.base \in Content /\ todo = {} /\ work = NoWork /\ flash[op.old].data \in Extended
      /\ op.pnum \in PEB /\ op.pnum # op.old /\ flash[op.old].lnum = op.lnum /\ ~ro_mode
      /\ "inplace" \in Faults /\ faults >= 1
    BY <1>1, AppendHolds
<1>3. SameReq /\ op'.pc = "done" /\ op'.old = op.old /\ op'.tries = op.tries
    BY <1>0, <1>1, GotoIs
<1>4. /\ flash'[op.pnum].data = op.base \o op.arg /\ flash'[op.old] = flash[op.old]
      /\ eba_tbl'[op.lnum] = op.pnum /\ work'.k = "erase" /\ work'.from = op.old
  <2>1. flash'[op.pnum] = WithData(flash[op.pnum], op.base \o op.arg) /\ flash'[op.old] = flash[op.old]
      BY <1>0, <1>1, <1>2 DEF SetFlash, TypeOK
  <2>2. flash[op.pnum] \in PebState /\ eba_tbl'[op.lnum] = op.pnum
      BY <1>0, <1>1, <1>2 DEF TypeOK
  <2>3. flash'[op.pnum].data = op.base \o op.arg
      BY <2>1, <2>2 DEF WithData, PebState
  <2> QED
      BY <1>1, <2>1, <2>2, <2>3, WorkFacts
<1>5. CrcClean'
    BY <1>0, <1>1, <1>2, CrcData DEF DataInv
<1>6. KindOf' /\ OpShape'
    BY <1>0, <1>2, <1>3, <1>4 DEF KindOf, OpShape, SameReq, DataInv
<1>7. OpBase'
    BY <1>1, <1>2, <1>3, <1>4 DEF OpBase, RamData, SameReq
<1>8. Counted'
    BY <1>0, <1>1, <1>2, <1>3 DEF Counted, DataInv, SameReq
<1>9. Waste' /\ MoveShape'
  <2>1. ASSUME NEW k \in LEB, work'.from \in Copies(k)'
        PROVE  ErasedFine(k, flash[work.from])'
    <3>1. k = op.lnum
        BY <1>2, <1>4, <2>1 DEF Copies
    <3>2. Extended' = Extended
        BY <1>3 DEF Extended, SameReq
    <3>3. Leftover(k, flash[work.from], flash[eba_tbl[k]])'
        BY <1>2, <1>3, <1>4, <3>1, <3>2 DEF Leftover, SameReq
    <3>4. eba_tbl'[k] # NoPeb
        BY <1>2, <1>4, <3>1
    <3> QED
        BY <3>3, <3>4 DEF ErasedFine
  <2> QED
      BY <1>1, <1>2, <1>4, <2>1 DEF Waste, MoveShape
<1> QED
    BY <1>5, <1>6, <1>7, <1>8, <1>9 DEF DataInv

\* Data that cannot be read back: the new eraseblock is given back.
LEMMA RecoverReadIs ==
  ASSUME StoreInv, RecoverReadError
  PROVE  /\ Alone("rdata") /\ UNCHANGED <<flash, up, eba_tbl, todo, faults, ro_mode>>
         /\ op' = [op EXCEPT !.pc = "rfail"] /\ work' = Erase(op.pnum)
<1>1. /\ Alone("rdata") /\ UNCHANGED <<flash, up, eba_tbl, todo, faults>>
      /\ PutPeb(op.pnum, [op EXCEPT !.pc = "rfail"], Idle("err"))
    BY AtFacts DEF RecoverReadError
<1>2. /\ op.pnum \in PEB /\ op.pnum \notin free /\ flash[op.pnum].st # "bad" /\ ~ro_mode
      /\ todo = {} /\ up = "up" /\ work = NoWork
    BY <1>1, AppendHolds
<1> QED
    BY <1>1, <1>2, PutWorks

\* It keeps the invariant.
LEMMA KeepRecoverRead ==
  ASSUME StoreInv, RecoverReadError
  PROVE  DataInv'
<1>0. TypeOK /\ DataInv /\ MapInv
    BY StoreFacts
<1>1. /\ Alone("rdata") /\ UNCHANGED <<flash, up, eba_tbl, todo, faults, ro_mode>>
      /\ op' = [op EXCEPT !.pc = "rfail"] /\ work' = Erase(op.pnum)
    BY RecoverReadIs
<1>2. /\ op.lnum \in LEB /\ op.old = eba_tbl[op.lnum] /\ op.old \in PEB /\ op.kind = "append"
      /\ op.base \in Content /\ todo = {} /\ flash[op.old].data \in Extended
      /\ op.pnum \in PEB /\ op.pnum # op.old /\ ~ro_mode
    BY <1>1, AppendHolds
<1>3. SameReq /\ op'.pc = "rfail" /\ op'.old = op.old /\ op'.tries = op.tries
    BY <1>0, <1>1, GotoIs
<1>4. CrcClean' /\ work'.k = "erase" /\ work'.from = op.pnum
    BY <1>0, <1>1, CrcSame, WorkFacts DEF DataInv
<1>5. KindOf' /\ OpShape'
    BY <1>0, <1>1, <1>2, <1>3 DEF KindOf, OpShape, SameReq, DataInv
<1>e. Extended' = Extended
    BY <1>3 DEF Extended, SameReq
<1>6. OpBase'
    BY <1>e, <1>1, <1>2, <1>3 DEF OpBase, RamData, SameReq
<1>7. Counted'
    BY <1>0, <1>1, <1>2, <1>3 DEF Counted, DataInv, SameReq
<1>8. Waste' /\ MoveShape'
  <2>0. flash[op.pnum].data = <<>> /\ flash[op.pnum].lnum = op.lnum
    <3>1. flash[op.pnum] = RecoveredHdr /\ op.pnum \in Copies(op.lnum)
        BY <1>0, <1>1 DEF DataInv, OpShape, Alone, MapInv, InStep, OpHolds
    <3> QED
        BY <1>2, <3>1, RecoveredHdrIs DEF Copies
  <2>1. ASSUME NEW k \in LEB, work'.from \in Copies(k)'
        PROVE  ErasedFine(k, flash[work.from])'
    <3>1. k = op.lnum
        BY <1>1, <1>4, <2>0, <2>1 DEF Copies
    <3>2. Leftover(k, flash[work.from], flash[eba_tbl[k]])'
        BY <1>1, <1>3, <1>4, <2>0, <3>1 DEF Leftover, SameReq
    <3>3. eba_tbl'[k] # NoPeb
        BY <1>1, <1>2, <3>1
    <3> QED
        BY <3>2, <3>3 DEF ErasedFine
  <2> QED
      BY <1>1, <1>2, <1>4, <2>1 DEF Waste, MoveShape
<1> QED
    BY <1>4, <1>5, <1>6, <1>7, <1>8 DEF DataInv

\* An operation that returns keeps the invariant.
LEMMA KeepReturn ==
  ASSUME StoreInv, MapLeb \/ WriteRefused \/ RecoverFailed \/ Done
  PROVE  DataInv'
<1>0. TypeOK /\ DataInv /\ MapInv
    BY StoreFacts
<1>1. /\ \E pc \in {"map", "idle", "vid", "data", "rfail", "done"} : At(pc)
      /\ \E ret : op' = Idle(ret)
      /\ flash' = flash /\ todo' = todo /\ work' = work /\ faults' = faults
    BY DEF MapLeb, WriteRefused, RecoverFailed, Done, Return, ram
<1>2. todo = {} /\ work = NoWork
    BY <1>0, <1>1 DEF MapInv, InStep, Stages, At
<1>3. CrcClean'
    BY <1>0, <1>1, CrcSame DEF DataInv
<1> QED
    BY <1>1, <1>2, <1>3, Returns

\* Scheduling a move keeps the invariant.
LEMMA KeepScrub ==
  ASSUME StoreInv, NEW l \in LEB, ScrubLeb(l)
  PROVE  DataInv'
<1>0. TypeOK /\ DataInv /\ MapInv
    BY StoreFacts
<1>1. /\ At("idle") /\ UNCHANGED <<flash, up, eba_tbl, todo, op, faults>> /\ work'.k = "mvid"
    BY WorkFacts DEF ScrubLeb, Ready
<1>2. todo = {} /\ faults \in Nat /\ faults <= MaxFaults
    BY <1>0, <1>1 DEF MapInv, InStep, Stages, At, DataInv, Counted, TypeOK
<1>3. Waste' /\ MoveShape'
    BY <1>1, <1>2 DEF Waste, MoveShape
<1>4. OpParts'
    BY <1>1, <1>2, WaitKeeps DEF At
<1> QED
    BY <1>0, <1>1, <1>3, <1>4, Together, CrcSame DEF DataInv

\* What power leaves of the flash operation it interrupts.
LEMMA InterruptedIs ==
  ASSUME StoreInv, up = "up", NEW i \in Interrupted
  PROVE  \/ /\ work.k = "erase" /\ i[1] = work.from /\ i[2] \in HalfErased(flash[work.from])
         \/ /\ Copying /\ i[1] = work.to
            /\ \/ work.k = "mvid" /\ i[2] = Blank("corr")
               \/ work.k = "mdata" /\ \E d \in Partial(Src.data) : i[2] = WithData(flash[work.to], d)
         \/ (Alone("vid") \/ Alone("rvid")) /\ i[1] = op.pnum /\ i[2] = Blank("corr")
         \/ Alone("data") /\ i[1] = op.pnum /\ \E d \in Partial(op.arg) : i[2] = WithData(flash[op.pnum], d)
         \/ /\ Alone("inplace") /\ i[1] = op.old
            /\ \E d \in Partial(op.arg) : i[2] = WithData(flash[op.old], flash[op.old].data \o d)
         \/ /\ Alone("rdata") /\ i[1] = op.pnum
            /\ \E d \in Partial(RecoveredData) : i[2] = WithData(flash[op.pnum], d)
<1>a. \A pc : At(pc) => work.k = "none" /\ work = NoWork /\ up = "up" /\ op.pc = pc
    BY WorkFacts DEF At
<1>1. CASE work.k = "erase"
  <2>1. Interrupted = {<<work.from, r>> : r \in HalfErased(flash[work.from])}
      BY <1>1, <1>a DEF Interrupted
  <2> QED
      BY <1>1, <2>1
<1>2. CASE work.k = "mvid" /\ CanCopy
  <2>1. Interrupted = {<<work.to, Blank("corr")>>}
      BY <1>2, <1>a DEF Interrupted
  <2> QED
      BY <1>2, <2>1 DEF Copying
<1>3. CASE work.k = "mdata"
  <2>1. Interrupted = {<<work.to, WithData(flash[work.to], d)>> : d \in Partial(Src.data)}
      BY <1>3, <1>a DEF Interrupted
  <2> QED
      BY <1>3, <2>1 DEF Copying
<1>4. CASE At("vid") \/ At("rvid")
  <2>1. Interrupted = {<<op.pnum, Blank("corr")>>}
      BY <1>4, WorkFacts DEF Interrupted, At
  <2> QED
      BY <1>4, <2>1, AtFacts
<1>5. CASE At("data")
  <2>1. Interrupted = {<<op.pnum, r>> : r \in DataLeft}
      BY <1>5, WorkFacts DEF Interrupted, At
  <2>2. i[1] = op.pnum /\ i[2] \in DataLeft
      BY <2>1
  <2> QED
      BY <1>5, <2>2, AtFacts DEF DataLeft
<1>6. CASE At("inplace")
  <2>1. Interrupted = {<<op.old, WithData(flash[op.old], flash[op.old].data \o d)>> : d \in Partial(op.arg)}
      BY <1>6, WorkFacts DEF Interrupted, At
  <2> QED
      BY <1>6, <2>1, AtFacts
<1>7. CASE At("rdata")
  <2>1. Interrupted = {<<op.pnum, WithData(flash[op.pnum], d)>> : d \in Partial(RecoveredData)}
      BY <1>7, WorkFacts DEF Interrupted, At
  <2> QED
      BY <1>7, <2>1, AtFacts
<1>8. CASE /\ work.k # "erase" /\ ~(work.k = "mvid" /\ CanCopy) /\ work.k # "mdata"
           /\ ~At("vid") /\ ~At("rvid") /\ ~At("data") /\ ~At("inplace") /\ ~At("rdata")
  <2>1. Interrupted = {}
      BY <1>8 DEF Interrupted
  <2> QED
      BY <2>1
<1> QED
    BY <1>1, <1>2, <1>3, <1>4, <1>5, <1>6, <1>7, <1>8

\* No header on the flash gets a wrong CRC by that.
LEMMA InterruptedCrc ==
  ASSUME StoreInv, up = "up", NEW i \in Interrupted, SetFlash(i[1], i[2])
  PROVE  CrcClean'
<1>0. TypeOK /\ DataInv /\ CtlInv /\ MapInv /\ \A q \in PEB : flash[q] \in PebState
    BY StoreFacts
<1>1. i[1] \in PEB
    BY <1>0, InterruptedType
<1>2. PICK p, r : p \in PEB /\ p = i[1] /\ r = i[2] /\ SetFlash(p, r)
    BY <1>1
<1>3. CASE \E d : r = WithData(flash[p], d)
    BY <1>0, <1>2, <1>3, CrcData DEF DataInv
<1>4. CASE r = flash[p] \/ ~r.copy_flag
    BY <1>0, <1>2, <1>4, CrcSet DEF DataInv, CrcClean
<1>5. (\E d : r = WithData(flash[p], d)) \/ r = flash[p] \/ ~r.copy_flag
  <2>1. r \in HalfErased(flash[p]) \/ r = Blank("corr") \/ \E d : r = WithData(flash[p], d)
      BY <1>2, InterruptedIs
  <2> QED
      BY <2>1, BlankIs DEF HalfErased
<1> QED
    BY <1>3, <1>4, <1>5

\* A reset keeps the invariant, wherever it comes: only the flash is left.
LEMMA KeepCut ==
  ASSUME StoreInv, PowerOff \/ PowerCut
  PROVE  DataInv'
<1>0. TypeOK /\ DataInv
    BY StoreFacts
<1>1. LoseRam
    BY DEF PowerOff, PowerCut
<1>2. op' = Idle("none") /\ work' = NoWork /\ todo' = {} /\ faults' = faults
    BY <1>1 DEF LoseRam, Return
<1>3. CrcClean'
    BY <1>0, CrcSame, InterruptedCrc DEF PowerOff, PowerCut, DataInv
<1> QED
    BY <1>2, <1>3, Returns

\* Attaching establishes it again: what the scan dropped is harmless beside what it took.
LEMMA KeepAttach ==
  ASSUME StoreInv, Attach
  PROVE  DataInv'
<1>0. TypeOK /\ DataInv /\ MapInv /\ Scans /\ SqnumUnique /\ ControlOK /\ \A q \in PEB : flash[q] \in PebState
    BY StoreFacts
<1>1. /\ up = "down" /\ eba_tbl' = ScanTbl /\ used' = {p \in PEB : \E l \in LEB : ScanTbl[l] = p}
      /\ todo' = {p \in PEB : flash[p].st \in {"empty", "corr", "used"}} \ used'
      /\ op' = [Idle("none") EXCEPT !.kind = "attach", !.pc = "attach"]
      /\ UNCHANGED <<flash, ro_mode, work, faults>>
    BY DEF Attach
<1>2. work' = NoWork /\ work'.k = "none"
    BY <1>0, <1>1, WorkFacts DEF ControlOK
<1>3. op'.kind = "attach" /\ op'.pc = "attach" /\ op'.tries = 0
    BY <1>1 DEF Idle
<1>4. KindOf' /\ OpShape' /\ OpBase'
    BY <1>3 DEF KindOf, OpShape, OpBase
<1>5. Counted' /\ CrcClean'
    BY <1>0, <1>1, <1>3, CrcSame DEF Counted, DataInv, TypeOK
<1>6. Waste' /\ MoveShape'
  <2>1. ASSUME NEW l \in LEB, NEW p \in todo', p \in Copies(l)'
        PROVE  eba_tbl'[l] # NoPeb /\ Harmless(flash'[p], flash'[eba_tbl'[l]])
    <3>1. p \in Copies(l) /\ p \in PEB /\ flash' = flash
        BY <1>1, <2>1 DEF Copies
    <3>2. ScanTbl[l] \in Copies(l)
        BY <1>0, <3>1, ScanFinds DEF Scans
    <3>3. PICK w \in PEB : w = ScanTbl[l] /\ w \in Copies(l) /\ w # NoPeb
        BY <3>2 DEF Copies
    <3>4. IsWinner(w, l)
        BY <3>3, ScanMaps
    <3>5. p # w
        BY <1>1, <2>1, <3>3
    <3>6. Beats(w, p)
        BY <3>1, <3>4, <3>5 DEF IsWinner
    <3>7. flash[p].sqnum # flash[w].sqnum /\ flash[p].sqnum \in Nat /\ flash[w].sqnum \in Nat
        BY <1>0, <3>1, <3>3, <3>5 DEF SqnumUnique, Copies, PebState
    <3>8. Harmless(flash[p], flash[w])
        BY <3>6, <3>7 DEF Beats, Harmless
    <3> QED
        BY <1>1, <3>1, <3>3, <3>8
  <2> QED
      BY <1>2, <2>1 DEF Waste, MoveShape
<1> QED
    BY <1>4, <1>5, <1>6 DEF DataInv

\* The rest of attaching keeps the invariant.
LEMMA KeepAttaching ==
  ASSUME StoreInv, AttachError \/ AttachErase \/ AttachDone
  PROVE  DataInv'
<1>0. TypeOK /\ DataInv /\ MapInv /\ ControlOK
    BY StoreFacts
<1>1. /\ flash' = flash /\ eba_tbl' = eba_tbl /\ faults' = faults
      /\ faults \in Nat /\ faults <= MaxFaults
    BY <1>0 DEF AttachError, AttachErase, AttachDone, ram, TypeOK, DataInv, Counted
<1>2. CrcClean'
    BY <1>0, <1>1, CrcSame DEF DataInv
<1>3. CASE AttachError
  <2>1. op' = op /\ op.pc = "idle" /\ work' = NoWork /\ todo' = {}
      BY <1>0, <1>3 DEF AttachError, ram, MapInv, InStep, Stages, ControlOK
  <2>2. OpParts'
      BY <1>1, <2>1, WaitKeeps
  <2>3. Waste' /\ MoveShape'
      BY <2>1, NothingErased
  <2> QED
      BY <1>2, <2>2, <2>3, Together
<1>4. CASE AttachErase
  <2>1. /\ op' = op /\ op.pc = "attach" /\ up = "up" /\ up' = up /\ ro_mode' = ro_mode
      BY <1>4 DEF AttachErase, At
  <2>2. PICK p \in todo : todo' = todo \ {p} /\ work' = Erase(p)
      BY <1>4 DEF AttachErase
  <2>3. work'.k = "erase" /\ work'.from = p
      BY <2>2, WorkFacts
  <2>4. OpParts'
      BY <1>1, <2>1, WaitKeeps
  <2>5. ASSUME ~ro_mode, NEW l \in LEB
        PROVE  /\ p \in Copies(l)' => ErasedFine(l, flash[p])'
               /\ \A q \in todo' \cap Copies(l)' : /\ eba_tbl'[l] # NoPeb
                                                   /\ Harmless(flash'[q], flash'[eba_tbl'[l]])
    <3>1. \A q \in todo : q \in Copies(l)' =>
            eba_tbl[l] # NoPeb /\ Harmless(flash[q], flash[eba_tbl[l]])
        BY <1>0, <1>1, <2>1, <2>5 DEF DataInv, Waste, Copies
    <3> QED
        BY <1>1, <2>2, <3>1 DEF ErasedFine
  <2>6. Waste' /\ MoveShape'
      BY <2>1, <2>3, <2>5 DEF Waste, MoveShape, ErasedFine
  <2> QED
      BY <1>2, <2>4, <2>6, Together
<1>5. CASE AttachDone
  <2>1. op' = Idle("none") /\ todo' = {} /\ work'.k \in {"none", "mvid"}
      BY <1>5, WorkFacts DEF AttachDone, Return, EnsureWearLeveling
  <2>2. OpParts'
      BY <1>1, <2>1, IdleEnds
  <2>3. Waste' /\ MoveShape'
      BY <2>1 DEF Waste, MoveShape
  <2> QED
      BY <1>2, <2>2, <2>3, Together
<1> QED
    BY <1>3, <1>4, <1>5

-----------------------------------------------------------------------------
(* LebStore: every step is one of its steps.                                *)

\* What a reader finds, as LebStore sees it.
Abs == [l \in LEB |-> Durable(l)]

\* The request LebStore sees.
LEMMA ReqIs ==
  ASSUME op.kind \in Kinds
  PROVE  /\ AbsReq = [kind |-> op.kind, lnum |-> op.lnum, arg |-> op.arg, base |-> op.base]
         /\ AbsReq.kind = op.kind /\ AbsReq.lnum = op.lnum /\ AbsReq.kind # "idle"
  BY DEF AbsReq, Kinds

\* A legal step gives the LEB of the request an allowed content and leaves the others alone.
LEMMA LegalChange ==
  ASSUME StoreInv, Legal, op.kind \in Kinds, op.lnum \in LEB
  PROVE  LS!Change /\ \A l \in LEB : l = op.lnum => Durable(l)' \in LS!Allowed(AbsReq)
<1>1. PICK k \in LEB : k = op.lnum
    OBVIOUS
<1>2. Durable(k)' \in LS!Allowed(AbsReq)
    BY <1>1 DEF Legal, StoreInv, InAllowed
<1>3. AbsReq.kind # "idle" /\ AbsReq.lnum = k
    BY <1>1, ReqIs
<1>4. \A l \in LEB : l # k => Durable(l)' = Durable(l)
    BY <1>1 DEF Legal
<1>5. Abs' = [Abs EXCEPT ![k] = Abs'[k]]
    BY <1>4 DEF Abs
<1>6. Abs'[k] = Durable(k)'
    BY DEF Abs
<1>7. LS!Change
    BY <1>2, <1>3, <1>5, <1>6 DEF LS!Change, Abs
<1> QED
    BY <1>1, <1>2, <1>7

\* An operation that goes on is progress of its request.
LEMMA GoesOn ==
  ASSUME StoreInv, Legal, op.kind \in Kinds, op.lnum \in LEB, SameReq
  PROVE  LS!LNext /\ InAllowed'
<1>1. LS!Change /\ \A l \in LEB : l = op.lnum => Durable(l)' \in LS!Allowed(AbsReq)
    BY LegalChange
<1>2. AbsReq' = AbsReq
    BY DEF AbsReq, SameReq, Kinds
<1>3. LS!LNext
    BY <1>1, <1>2 DEF LS!LNext, LS!Progress
<1>4. InAllowed'
    BY <1>1, <1>2 DEF InAllowed, SameReq, LS!Allowed
<1> QED
    BY <1>3, <1>4

\* One that has returned is no request any more.
LEMMA IdleReq ==
  ASSUME NEW ret, op' = Idle(ret)
  PROVE  AbsReq' = LS!Idle(ret) /\ InAllowed'
<1>1. op'.kind = "idle" /\ op'.ret = ret
    BY IdleIs
<1>2. AbsReq' = LS!Idle(ret)
    BY <1>1 DEF AbsReq, LS!Idle
<1>3. InAllowed'
    BY <1>1 DEF InAllowed, Kinds
<1> QED
    BY <1>2, <1>3

\* One that returns zero is a success, if its data is stored.
LEMMA Succeeds ==
  ASSUME StoreInv, Legal, op.kind \in Kinds, NEW k \in LEB, k = op.lnum, op' = Idle("ok"),
         op.kind = "append" => Durable(k)' = op.base \o op.arg,
         op.kind \in {"write", "change"} => Durable(k)' = op.arg
  PROVE  LS!LNext /\ InAllowed'
<1>1. LS!Change
    BY LegalChange
<1>2. AbsReq' = LS!Idle("ok") /\ InAllowed'
    BY IdleReq
<1>3. /\ AbsReq.kind = op.kind /\ AbsReq.arg = op.arg /\ AbsReq.base = op.base /\ AbsReq.lnum = k
    BY ReqIs
<1>4. LS!Stored(AbsReq, Durable(k)')
    BY <1>3 DEF LS!Stored, Kinds
<1>5. Abs'[AbsReq.lnum] = Durable(k)'
    BY <1>3 DEF Abs
<1>6. LS!Succeed
    BY <1>1, <1>2, <1>4, <1>5 DEF LS!Succeed, Abs
<1> QED
    BY <1>2, <1>6 DEF LS!LNext

\* LebStore sees what readers find.
LEMMA SameAbs == ASSUME \A l \in LEB : Durable(l)' = Durable(l) PROVE Abs' = Abs
  BY DEF Abs

\* One that returns an error and writes nothing is a failure.
LEMMA Fails ==
  ASSUME \A l \in LEB : Durable(l)' = Durable(l), op' = Idle("err")
  PROVE  LS!LNext /\ InAllowed'
<1>1. Abs' = Abs
    BY SameAbs
<1>2. AbsReq' = LS!Idle("err") /\ InAllowed'
    BY IdleReq
<1>3. LS!Fail
    BY <1>1, <1>2 DEF LS!Fail, Abs
<1> QED
    BY <1>2, <1>3 DEF LS!LNext

\* Without a request in progress nothing changes.
LEMMA LegalIdle ==
  ASSUME Legal, op.kind \notin Kinds
  PROVE  Abs' = Abs
<1>1. \A l \in LEB : Durable(l)' = Durable(l)
    BY DEF Legal
<1> QED
    BY <1>1, SameAbs

\* A reset ends the request.
LEMMA Cuts ==
  ASSUME StoreInv, Legal, op.kind \in Kinds => op.lnum \in LEB, AbsReq' = LS!Idle("none"), op'.kind \notin Kinds
  PROVE  LS!LNext /\ InAllowed'
<1>1. LS!Change \/ Abs' = Abs
    BY LegalChange, LegalIdle
<1>2. LS!Cut
    BY <1>1 DEF LS!Cut, Abs
<1> QED
    BY <1>2 DEF LS!LNext, InAllowed

\* What the LEB held when the request was issued is allowed.
BaseMayBe == /\ TypeOK /\ op.kind \in Kinds
             /\ op.kind = "write" => op.base = Unmapped
             /\ op.kind \in {"append", "unmap"} => op.base \in Content

\* A request may leave its LEB as it found it.
LEMMA BaseAllowed == BaseMayBe => op.base \in LS!Allowed(AbsReq)
<1> SUFFICES ASSUME BaseMayBe
             PROVE  op.base \in LS!Allowed(AbsReq)
    OBVIOUS
<1>0. /\ TypeOK /\ op.kind \in Kinds /\ (op.kind = "write" => op.base = Unmapped)
      /\ op.kind \in {"append", "unmap"} => op.base \in Content
    BY DEF BaseMayBe
<1>1. CASE op.base = Unmapped
  <2>1. Unmapped \in LS!Allowed(AbsReq)
      BY <1>0, <1>1, AllowedFresh
  <2> QED
      BY <1>1, <2>1
<1>2. CASE op.base # Unmapped
  <2>1. op.kind = "append" => op.base \in LS!Allowed(AbsReq)
      BY <1>0, AllowedAppend
  <2>2. op.kind = "change" => op.base \in LS!Allowed(AbsReq)
      BY <1>0, <1>2, AllowedOther
  <2>3. op.kind = "unmap" => op.base \in LS!Allowed(AbsReq)
    <3>1. op.kind = "unmap" => Scrambled(op.base) \subseteq LS!Allowed(AbsReq)
        BY <1>0, <1>2, AllowedOther
    <3> QED
        BY <3>1, ScrambledSelf
  <2> QED
      BY <1>0, <1>2, <2>1, <2>2, <2>3 DEF Kinds
<1> QED
    BY <1>1, <1>2

\* The same for a request that has just begun.
LEMMA BaseAllowedNext == BaseMayBe' => (op.base \in LS!Allowed(AbsReq))'
  BY BaseAllowed, PTL

\* An operation that begins is a new request.
LEMMA Begins ==
  ASSUME StoreInv, Scans', flash' = flash, op.kind = "idle", NEW l \in LEB, op'.lnum = l, op'.kind \in Kinds,
         op'.arg \in Written, op'.base = Durable(l),
         op'.kind = "write" => Durable(l) = Unmapped,
         op'.kind \in {"append", "unmap"} => Durable(l) \in Content,
         TypeOK'
  PROVE  LS!LNext /\ InAllowed'
<1>0. TypeOK /\ Scans
    BY StoreFacts
<1>1. \A k \in LEB : Durable(k)' = Durable(k)
    BY <1>0, SameFlash
<1>2. Abs' = Abs /\ Abs[l] = Durable(l)
    BY <1>1, SameAbs DEF Abs
<1>3. /\ AbsReq.kind = "idle"
      /\ AbsReq' = [kind |-> op'.kind, lnum |-> l, arg |-> op'.arg, base |-> Durable(l)]
    BY DEF AbsReq, Kinds
<1>4. Durable(l) \in Content \cup {Unmapped}
    BY <1>0, DurableType
<1>5. /\ AbsReq' \in LS!Request /\ AbsReq'.base = Durable(l) /\ AbsReq'.lnum = l
      /\ AbsReq'.kind = op'.kind
  <2>1. LS!Request = [kind : Kinds, lnum : LEB, arg : Written, base : {Unmapped} \cup Content]
      BY DEF LS!Request, Kinds, LS!Written, Written, LS!Content, Content
  <2> QED
      BY <1>3, <1>4, <2>1
<1>6. LS!Begin
    BY <1>2, <1>3, <1>5, UnmappedAssumption DEF LS!Begin, Abs
<1>7. InAllowed'
  <2>1. (op.base \in LS!Allowed(AbsReq))'
      BY BaseAllowedNext, UnmappedAssumption DEF BaseMayBe
  <2>2. Durable(op.lnum)' = op'.base
      BY <1>1
  <2> QED
      BY <2>1, <2>2 DEF InAllowed
<1> QED
    BY <1>6, <1>7 DEF LS!LNext

\* A step of LebStore, or one it does not see.
Refines == (LS!LNext \/ (Abs' = Abs /\ AbsReq' = AbsReq)) /\ InAllowed'

\* A request is for one of the LEBs.
LEMMA RequestLeb == StoreInv /\ op.kind \in Kinds => op.lnum \in LEB
<1> SUFFICES ASSUME StoreInv, op.kind \in Kinds
             PROVE  op.lnum \in LEB
    OBVIOUS
<1>1. ControlOK /\ DataInv
    BY StoreFacts
<1>2. op.pc \notin {"idle", "attach"}
    BY <1>1 DEF DataInv, KindOf, Kinds
<1> QED
    BY <1>1, <1>2 DEF ControlOK

\* While an operation waits, legal writes are progress, or not seen at all.
LEMMA WaitsRefine == ASSUME StoreInv, Legal, op' = op PROVE Refines
<1>1. CASE op.kind \in Kinds
    BY <1>1, GoesOn, RequestLeb DEF Refines, SameReq
<1>2. CASE op.kind \notin Kinds
  <2>1. Abs' = Abs /\ AbsReq' = AbsReq
      BY <1>2, LegalIdle DEF AbsReq
  <2> QED
      BY <1>2, <2>1 DEF Refines, InAllowed
<1> QED
    BY <1>1, <1>2

\* Erasures and moves.
LEMMA WorkRefines ==
  ASSUME StoreSafe, StoreInv, Scans', WlStep
  PROVE  Refines
<1>0. TypeOK /\ ControlOK /\ MapInv /\ Scans /\ \A q \in PEB : flash[q] \in PebState
    BY StoreFacts
<1>s. ASSUME flash' = flash, op' = op
      PROVE  Refines
    BY <1>0, <1>s, SameFlash, WaitsRefine
<1>1. CASE EraseWorker \/ EraseError
  <2>1. work.k = "erase" /\ ~ro_mode /\ op' = op /\ up = "up"
      BY <1>0, <1>1, WorkFacts DEF EraseWorker, EraseError, ControlOK
  <2>2. PICK r \in HalfErased(flash[work.from]) \cup {Blank("free"), Blank("bad")} : SetFlash(work.from, r)
      BY <1>1 DEF EraseWorker, EraseError
  <2> QED
      BY <2>1, <2>2, EraseLegal, WaitsRefine
<1>2. CASE EraseRefused \/ MoveCancelled \/ MoveReadError \/ \E l \in LEB : ScrubLeb(l)
  <2>1. flash' = flash /\ op' = op
      BY <1>2 DEF EraseRefused, MoveCancelled, MoveReadError, ScrubLeb
  <2> QED
      BY <1>s, <2>1
<1>3. CASE MoveVidHdr \/ MoveData \/ MoveBitflip \/ MoveBadHdr \/ MoveWriteError
  <2>1. op' = op /\ work.k \in {"mvid", "mdata"}
      BY <1>3 DEF MoveVidHdr, MoveData, MoveBitflip, MoveBadHdr, MoveWriteError
  <2>2. Src.data \in Partial(Src.data)
      BY <1>0, <2>1, MoveToHolds, PartialEnds DEF PebState, MoveTo, Src
  <2>3. PICK r : /\ Copying /\ SetFlash(work.to, r)
                 /\ \/ work.k = "mvid" /\ r \in {flash[work.to], Blank("corr"), CopyHdr}
                    \/ work.k = "mdata" /\ \E d \in Partial(Src.data) : r = WithData(flash[work.to], d)
      BY <1>3, <2>2 DEF MoveVidHdr, MoveData, MoveBitflip, MoveBadHdr, MoveWriteError, Copying
  <2> QED
      BY <2>1, <2>3, MoveLegal, WaitsRefine
<1>4. ~MoveMismatch
    BY DEF StoreSafe, RecoverySafe, MoveMismatch, Fault
<1> QED
    BY <1>1, <1>2, <1>3, <1>4 DEF WlStep

\* The beginning of an operation.
LEMMA BeginRefines ==
  ASSUME StoreInv, Scans', TypeOK', NEW l \in LEB, NEW c \in Written,
         WriteLeb(l, c) \/ AtomicLebChange(l, c) \/ AppendLeb(l, c) \/ UnmapLeb(l)
  PROVE  Refines
<1>0. TypeOK /\ DataInv /\ Scans
    BY StoreFacts
<1>1. CASE WriteLeb(l, c) \/ AtomicLebChange(l, c)
  <2>1. At("idle") /\ ~ro_mode /\ flash' = flash /\ BeginsWrite(l, c)
      BY <1>1, BeginIs
  <2>2. op.kind = "idle"
      BY <1>0, <2>1 DEF DataInv, KindOf, At
  <2>3. CASE op' = Idle("err")
      BY <1>0, <2>1, <2>3, SameFlash, Fails DEF Refines
  <2>4. CASE op' # Idle("err")
    <3>1. /\ op'.kind \in {"write", "change"} /\ op'.lnum = l /\ op'.arg = c /\ op'.base = Durable(l)
          /\ op'.kind = "write" => Durable(l) = Unmapped
        BY <2>1, <2>4, BaseIs DEF BeginsWrite
    <3>2. LS!LNext /\ InAllowed'
        BY <2>1, <2>2, <3>1, Begins DEF Kinds
    <3> QED
        BY <3>2 DEF Refines
  <2> QED
      BY <2>3, <2>4
<1>2. CASE AppendLeb(l, c)
  <2>1. /\ At("idle") /\ ~ro_mode /\ flash' = flash /\ eba_tbl[l] # NoPeb
        /\ op'.kind = "append" /\ op'.lnum = l /\ op'.arg = c /\ op'.base = Durable(l)
      BY <1>2, AppendIs
  <2>2. op.kind = "idle" /\ Durable(l) \in Content
      BY <1>0, <2>1, BaseIs DEF DataInv, KindOf, At
  <2>3. LS!LNext /\ InAllowed'
      BY <2>1, <2>2, Begins DEF Kinds
  <2> QED
      BY <2>3 DEF Refines
<1>3. CASE UnmapLeb(l)
  <2>1. /\ At("idle") /\ ~ro_mode /\ flash' = flash /\ eba_tbl[l] # NoPeb
        /\ op'.kind = "unmap" /\ op'.lnum = l /\ op'.arg = <<>> /\ op'.base = Durable(l)
      BY <1>3, UnmapIs
  <2>2. op.kind = "idle" /\ Durable(l) \in Content
      BY <1>0, <2>1, BaseIs DEF DataInv, KindOf, At
  <2>3. <<>> \in Written
    <3>1. <<>> \in [1..0 -> Page] /\ 0 \in 0..MaxPages
        BY PagesAssumption
    <3> QED
        BY <3>1 DEF Written
  <2>4. LS!LNext /\ InAllowed'
      BY <2>1, <2>2, <2>3, Begins DEF Kinds
  <2> QED
      BY <2>4 DEF Refines
<1> QED
    BY <1>1, <1>2, <1>3

\* An operation that goes on with the flash as it was.
LEMMA QuietRefines ==
  ASSUME StoreInv, Scans', flash' = flash, op' = Idle("err") \/ (SameReq /\ op.kind \in Kinds)
  PROVE  Refines
<1>0. Scans
    BY StoreFacts
<1>1. Legal /\ \A l \in LEB : Durable(l)' = Durable(l)
    BY <1>0, SameFlash
<1>2. CASE op' = Idle("err")
    BY <1>1, <1>2, Fails DEF Refines
<1>3. CASE SameReq /\ op.kind \in Kinds
    BY <1>1, <1>3, GoesOn, RequestLeb DEF Refines
<1> QED
    BY <1>2, <1>3

\* Writing an unmapped LEB, and the atomic change.
LEMMA WriteRefines ==
  ASSUME StoreSafe, StoreInv, Scans', WriteVidHdr \/ WriteData \/ WriteError \/ RetryWrite \/ MapLeb
  PROVE  Refines
<1>0. TypeOK /\ DataInv /\ Scans /\ op.arg \in Content
    BY StoreFacts DEF TypeOK, Op
<1>1. CASE WriteVidHdr
  <2>1. /\ Alone("vid") /\ ~ro_mode /\ SetFlash(op.pnum, OpHdr)
        /\ op' = [op EXCEPT !.pc = IF op.arg = <<>> THEN "map" ELSE "data"]
      BY <1>1, AtFacts DEF WriteVidHdr, Goto
  <2>2. Legal
      BY <2>1, VidLegal DEF VidHdrLeft
  <2>3. SameReq /\ op.kind \in Kinds
      BY <1>0, <2>1, GotoIs DEF DataInv, KindOf, Alone, Kinds
  <2> QED
      BY <2>2, <2>3, GoesOn, RequestLeb DEF Refines
<1>2. CASE WriteData
  <2>1. /\ Alone("data") /\ ~ro_mode /\ SetFlash(op.pnum, WithData(flash[op.pnum], op.arg))
        /\ op' = [op EXCEPT !.pc = "map"]
      BY <1>2, WriteDataIs
  <2>2. Legal
      BY <1>0, <2>1, DataLegal, PartialEnds
  <2>3. SameReq /\ op.kind \in Kinds
      BY <1>0, <2>1, GotoIs DEF DataInv, KindOf, Alone, Kinds
  <2> QED
      BY <2>2, <2>3, GoesOn, RequestLeb DEF Refines
<1>3. CASE WriteError
  <2>1. /\ ~ro_mode /\ op' = [op EXCEPT !.pc = "retry"]
        /\ \/ Alone("vid") /\ \E r \in VidHdrLeft : SetFlash(op.pnum, r)
           \/ Alone("data") /\ \E d \in Partial(op.arg) : SetFlash(op.pnum, WithData(flash[op.pnum], d))
      BY <1>3, WriteErrorIs
  <2>2. Legal
      BY <2>1, VidLegal, DataLegal
  <2>3. SameReq /\ op.kind \in Kinds
      BY <1>0, <2>1, GotoIs DEF DataInv, KindOf, Alone, Kinds
  <2> QED
      BY <2>2, <2>3, GoesOn, RequestLeb DEF Refines
<1>4. CASE RetryWrite
  <2>1. flash' = flash /\ At("retry") /\ (op' = Idle("err") \/ SameReq)
      BY <1>4, RetryIs
  <2>2. op.kind \in Kinds
      BY <1>0, <2>1 DEF DataInv, KindOf, At, Kinds
  <2> QED
      BY <2>1, <2>2, QuietRefines
<1>5. CASE MapLeb
  <2>1. At("map") /\ flash' = flash /\ op' = Idle("ok")
      BY <1>5 DEF MapLeb, Return
  <2>2. op.kind \in {"write", "change"} /\ op.kind \in Kinds
      BY <1>0, <2>1 DEF DataInv, KindOf, At, Kinds
  <2>3. PICK k \in LEB : k = op.lnum /\ Durable(k) = op.arg
      BY <2>1, MapReads DEF At
  <2>4. Legal /\ Durable(k)' = op.arg
      BY <1>0, <2>1, <2>3, SameFlash
  <2>5. LS!LNext /\ InAllowed'
      BY <2>1, <2>2, <2>3, <2>4, Succeeds
  <2> QED
      BY <2>5 DEF Refines
<1> QED
    BY <1>1, <1>2, <1>3, <1>4, <1>5

\* An append that has been recovered reads as it should, although the old eraseblock is still there.
LEMMA DoneIs ==
  ASSUME StoreInv, At("done"), op.kind = "append", NEW k \in LEB, k = op.lnum
  PROVE  Durable(k) = op.base \o op.arg
<1>0. TypeOK /\ DataInv /\ MapInv /\ Scans /\ CopyInv
    BY StoreFacts
<1>1. /\ flash[eba_tbl[k]].data = op.base \o op.arg /\ eba_tbl[k] # NoPeb
      /\ ro_mode => Durable(k) = flash[eba_tbl[k]].data
    BY <1>0 DEF DataInv, OpBase, RamData, At, KindOf
<1>2. PICK m \in PEB : m = eba_tbl[k] /\ m \in Copies(k)
    BY <1>0, <1>1, MapBefore DEF At, TypeOK
<1>3. CASE ~ro_mode
  <2>1. Copies(k) \subseteq {m, m}
      BY <1>0, <1>2, <1>3, NoneInFlight, WorkFacts DEF At, MapInv, InStep, Stages
  <2> QED
      BY <1>0, <1>1, <1>2, <2>1, HarmlessPair
<1> QED
    BY <1>1, <1>3

\* Appending, and the recovery of an append.
LEMMA AppendRefines ==
  ASSUME StoreSafe, StoreInv, Scans',
         \/ WriteInPlace \/ WriteInPlaceError \/ RecoverGetPeb \/ RecoverVidHdr \/ RecoverData
         \/ RecoverReadError \/ RecoverWriteError \/ RecoverRetry
  PROVE  Refines
<1>0. TypeOK /\ DataInv /\ MapInv /\ Scans /\ op.arg \in Content
    BY StoreFacts DEF TypeOK, Op
<1>g. ASSUME Legal, NEW pc, op' = [op EXCEPT !.pc = pc], op.kind = "append"
      PROVE  Refines
  <2>1. SameReq /\ op.kind \in Kinds
      BY <1>0, <1>g, GotoIs DEF Kinds
  <2> QED
      BY <1>g, <2>1, GoesOn, RequestLeb DEF Refines
<1>1. CASE WriteInPlace
  <2>1. /\ Alone("inplace") /\ op' = Idle("ok")
        /\ SetFlash(op.old, WithData(flash[op.old], flash[op.old].data \o op.arg))
      BY <1>1, AtFacts DEF WriteInPlace, Return
  <2>2. PICK k \in LEB : k = op.lnum
      BY <2>1, AppendHolds
  <2>3. Legal /\ Durable(k)' = op.base \o op.arg /\ op.kind = "append"
      BY <1>0, <2>1, <2>2, InplaceLegal, PartialEnds, AppendHolds
  <2>4. LS!LNext /\ InAllowed'
      BY <2>1, <2>2, <2>3, Succeeds DEF Kinds
  <2> QED
      BY <2>4 DEF Refines
<1>2. CASE WriteInPlaceError
  <2>1. /\ Alone("inplace") /\ op' = [op EXCEPT !.pc = "rget"]
        /\ \E d \in Partial(op.arg) : SetFlash(op.old, WithData(flash[op.old], flash[op.old].data \o d))
      BY <1>2, AtFacts DEF WriteInPlaceError, Goto
  <2>2. Legal /\ op.kind = "append"
      BY <2>1, InplaceLegal, AppendHolds
  <2> QED
      BY <1>g, <2>1, <2>2
<1>3. CASE RecoverGetPeb
  <2>1. flash' = flash /\ Alone("rget") /\ (op' = Idle("err") \/ SameReq)
      BY <1>3, RecoverGetIs
  <2>2. op.kind \in Kinds
      BY <2>1, AppendHolds DEF Kinds
  <2> QED
      BY <2>1, <2>2, QuietRefines
<1>4. CASE RecoverVidHdr
  <2>1. Alone("rvid") /\ SetFlash(op.pnum, RecoveredHdr) /\ op' = [op EXCEPT !.pc = "rdata"]
      BY <1>4, AtFacts DEF RecoverVidHdr, Goto
  <2>2. Legal /\ op.kind = "append"
      BY <2>1, RvidLegal, AppendHolds
  <2> QED
      BY <1>g, <2>1, <2>2
<1>5. CASE RecoverData
  <2>1. /\ Alone("rdata") /\ SetFlash(op.pnum, WithData(flash[op.pnum], op.base \o op.arg))
        /\ op' = [op EXCEPT !.pc = "done"]
      BY <1>5, RecoverDataIs
  <2>2. op.kind = "append" /\ op.base \in Content
      BY <2>1, AppendHolds
  <2>3. op.base \o op.arg \in Partial(RecoveredData)
      BY <1>0, <2>1, <2>2, RecoveredIs, ConcatIsContent, PartialEnds
  <2>4. Legal
      BY <2>1, <2>3, RdataLegal
  <2> QED
      BY <1>g, <2>1, <2>2, <2>4
<1>6. CASE RecoverReadError
  <2>1. flash' = flash /\ Alone("rdata") /\ op' = [op EXCEPT !.pc = "rfail"]
      BY <1>6, RecoverReadIs
  <2>2. op.kind = "append" /\ Legal
      BY <1>0, <2>1, AppendHolds, SameFlash
  <2> QED
      BY <1>g, <2>1, <2>2
<1>7. ~RecoverWriteError /\ ~RecoverRetry
    BY <1>0, MapRecoverWriteError DEF StoreSafe, RecoverySafe
<1> QED
    BY <1>1, <1>2, <1>3, <1>4, <1>5, <1>6, <1>7

\* Operations that return.
LEMMA ReturnRefines ==
  ASSUME StoreInv, Scans', WriteRefused \/ RecoverFailed \/ Done
  PROVE  Refines
<1>0. TypeOK /\ DataInv /\ Scans
    BY StoreFacts
<1>1. flash' = flash /\ (op' = Idle("err") \/ (Done /\ op' = Idle("ok")))
    BY DEF WriteRefused, RecoverFailed, Done, Return
<1>2. CASE op' = Idle("err")
    BY <1>1, <1>2, QuietRefines
<1>3. CASE Done /\ op' = Idle("ok")
  <2>1. At("done") /\ op.kind \in {"append", "unmap"} /\ op.kind \in Kinds
      BY <1>0, <1>3 DEF Done, DataInv, KindOf, At, Kinds, TypeOK, Op
  <2>2. PICK k \in LEB : k = op.lnum
      BY <2>1, RequestLeb
  <2>3. Legal /\ Durable(k)' = Durable(k)
      BY <1>0, <1>1, SameFlash
  <2>4. op.kind = "append" => Durable(k) = op.base \o op.arg
      BY <2>1, <2>2, DoneIs
  <2>5. LS!LNext /\ InAllowed'
      BY <1>3, <2>1, <2>2, <2>3, <2>4, Succeeds
  <2> QED
      BY <2>5 DEF Refines
<1> QED
    BY <1>1, <1>2, <1>3

\* Power, and attaching.
LEMMA PowerRefines ==
  ASSUME StoreInv, Scans', PowerStep
  PROVE  Refines
<1>0. TypeOK /\ DataInv /\ Scans /\ MapInv
    BY StoreFacts
<1>1. CASE PowerOff \/ PowerCut
  <2>1. op' = Idle("none")
      BY <1>1 DEF PowerOff, PowerCut, LoseRam, Return
  <2>2. Legal
    <3>1. CASE flash' = flash
        BY <1>0, <3>1, SameFlash
    <3>2. ASSUME up = "up", ~ro_mode, NEW i \in Interrupted, SetFlash(i[1], i[2])
          PROVE  Legal
        BY <3>2, InterruptedIs, EraseLegal, MoveLegal, VidLegal, RvidLegal, DataLegal, InplaceLegal,
           RdataLegal DEF VidHdrLeft
    <3> QED
        BY <1>1, <3>1, <3>2 DEF PowerOff, PowerCut
  <2>3. AbsReq' = LS!Idle("none") /\ op'.kind \notin Kinds
      BY <2>1, IdleReq, IdleIs DEF Kinds
  <2>4. LS!LNext /\ InAllowed'
      BY <2>2, <2>3, Cuts, RequestLeb
  <2> QED
      BY <2>4 DEF Refines
<1>2. CASE Attach \/ AttachDone
  <2>1. flash' = flash
      BY <1>2 DEF Attach, AttachDone
  <2>2. AbsReq' = LS!Idle("none") /\ op'.kind \notin Kinds
    <3>1. CASE Attach
      <4>1. op'.kind = "attach" /\ op'.ret = "none"
          BY <3>1 DEF Attach, Idle
      <4> QED
          BY <4>1 DEF AbsReq, LS!Idle, Kinds
    <3>2. CASE AttachDone
        BY <3>2, IdleReq, IdleIs DEF AttachDone, Return, Kinds
    <3> QED
        BY <1>2, <3>1, <3>2
  <2>3. Legal
      BY <1>0, <2>1, SameFlash
  <2>4. LS!LNext /\ InAllowed'
      BY <2>2, <2>3, Cuts, RequestLeb
  <2> QED
      BY <2>4 DEF Refines
<1>3. CASE AttachError \/ AttachErase
  <2>1. flash' = flash /\ op' = op
      BY <1>3 DEF AttachError, AttachErase
  <2> QED
      BY <1>0, <2>1, SameFlash, WaitsRefine
<1> QED
    BY <1>1, <1>2, <1>3 DEF PowerStep

-----------------------------------------------------------------------------
(* The refinement.                                                          *)

\* A step that changes nothing keeps the invariant and is not seen.
LEMMA StutterKeeps ==
  ASSUME StoreInv, Scans', UNCHANGED vars
  PROVE  DataInv' /\ Refines
<1>0. Scans /\ DataInv
    BY StoreFacts
<1>1. /\ flash' = flash /\ up' = up /\ eba_tbl' = eba_tbl /\ global_sqnum' = global_sqnum
      /\ ro_mode' = ro_mode /\ todo' = todo /\ op' = op /\ work' = work /\ faults' = faults
    BY DEF vars, ram
<1>2. Legal /\ \A l \in LEB : Durable(l)' = Durable(l)
    BY <1>0, <1>1, SameFlash
<1>3. KindOf' /\ CrcClean' /\ MoveShape' /\ Counted'
    BY <1>0, <1>1 DEF DataInv, KindOf, CrcClean, MoveShape, Counted, Src
<1>4. Waste'
    BY <1>0, <1>1 DEF DataInv, Waste, ErasedFine, Unfinished, Leftover, Extended, Changing, Copies
<1>5. OpShape'
    BY <1>0, <1>1 DEF DataInv, OpShape, OpHdr, RecoveredHdr, Copies
<1>6. OpBase'
  <2>1. op.pc = "done" /\ op.kind = "append" => op.lnum \in LEB
      BY RequestLeb DEF Kinds
  <2>2. PICK k : k = op.lnum
      OBVIOUS
  <2>3. op.pc = "done" /\ op.kind = "append" => Durable(op.lnum)' = Durable(op.lnum)
      BY <1>1, <1>2, <2>1, <2>2 
  <2> QED
      BY <1>0, <1>1, <2>3 DEF DataInv, OpBase, RamData, Extended
<1> QED
    BY <1>1, <1>2, <1>3, <1>4, <1>5, <1>6, WaitsRefine DEF DataInv

\* Every step keeps the invariant on the data, and is a step of LebStore or none.
LEMMA StepKeepsData ==
  ASSUME StoreSafe, StoreInv, Scans', TypeOK', [Next]_vars
  PROVE  DataInv' /\ Refines
<1>0. MapInv
    BY StoreFacts
<1>1. CASE EbaStep
  <2>1. ASSUME NEW l \in LEB, NEW c \in Written, WriteLeb(l, c) \/ AtomicLebChange(l, c) \/ AppendLeb(l, c)
        PROVE  DataInv' /\ Refines
      BY <2>1, KeepBegin, KeepAppend, BeginRefines
  <2>2. ASSUME NEW l \in LEB, UnmapLeb(l)
        PROVE  DataInv' /\ Refines
    <3>1. <<>> \in Written
      <4>1. <<>> \in [1..0 -> Page] /\ 0 \in 0..MaxPages
          BY PagesAssumption
      <4> QED
          BY <4>1 DEF Written
    <3> QED
        BY <2>2, <3>1, KeepUnmap, BeginRefines
  <2>3. CASE WriteVidHdr \/ WriteData \/ WriteError \/ RetryWrite \/ MapLeb
      BY <2>3, KeepVidHdr, KeepData, KeepWriteError, KeepRetry, KeepReturn, WriteRefines
  <2>4. CASE WriteRefused \/ RecoverFailed \/ Done
      BY <2>4, KeepReturn, ReturnRefines
  <2>5. CASE WriteInPlace \/ WriteInPlaceError \/ RecoverGetPeb \/ RecoverVidHdr \/ RecoverData \/ RecoverReadError
      BY <2>5, KeepInPlace, KeepRecoverGet, KeepRecoverVidHdr, KeepRecoverData, KeepRecoverRead, AppendRefines
  <2>6. ~RecoverWriteError /\ ~RecoverRetry
      BY <1>0, MapRecoverWriteError DEF StoreSafe, RecoverySafe
  <2> QED
      BY <1>1, <2>1, <2>2, <2>3, <2>4, <2>5, <2>6 DEF EbaStep
<1>2. CASE WlStep
  <2>1. ~MoveMismatch
      BY DEF StoreSafe, RecoverySafe, MoveMismatch, Fault
  <2>2. DataInv'
      BY <1>2, <2>1, KeepErase, KeepMove, KeepScrub DEF WlStep
  <2> QED
      BY <1>2, <2>2, WorkRefines
<1>3. CASE PowerStep
  <2>1. DataInv'
      BY <1>3, KeepCut, KeepAttach, KeepAttaching DEF PowerStep
  <2> QED
      BY <1>3, <2>1, PowerRefines
<1>4. CASE UNCHANGED vars
    BY <1>4, StutterKeeps
<1> QED
    BY <1>1, <1>2, <1>3, <1>4 DEF Next

\* The same in the form the theorems use.
LEMMA StepKeepsStore ==
  ASSUME StoreSafe
  PROVE  StoreInv /\ [Next]_vars => StoreInv' /\ [LS!LNext]_<<[l \in LEB |-> Durable(l)], AbsReq>>
<1> SUFFICES ASSUME StoreInv, [Next]_vars
             PROVE  StoreInv' /\ [LS!LNext]_<<[l \in LEB |-> Durable(l)], AbsReq>>
    OBVIOUS
<1>1. PlaceInv'
    BY StepKeepsPlaces DEF StoreSafe, StoreInv
<1>2. Scans' /\ TypeOK'
    BY <1>1, ScansNext DEF PlaceInv, Scans
<1>3. DataInv' /\ Refines
    BY <1>2, StepKeepsData
<1>4. StoreInv'
    BY <1>1, <1>3 DEF StoreInv, Refines
<1>5. [LS!LNext]_<<[l \in LEB |-> Durable(l)], AbsReq>>
    BY <1>3 DEF Refines, Abs
<1> QED
    BY <1>4, <1>5

\* A formatted, empty flash is an empty store.
LEMMA InitStore == Init => StoreInv /\ LS!LInit
<1> SUFFICES ASSUME Init
             PROVE  StoreInv /\ LS!LInit
    OBVIOUS
<1>1. PlaceInv
    BY InitPlaces
<1>2. /\ op = Idle("none") /\ work.k = "none" /\ faults = 0 /\ up = "down"
      /\ \A p \in PEB : flash[p] = Blank("free")
    BY WorkFacts DEF Init
<1>3. op.kind = "idle" /\ op.pc = "idle" /\ op.tries = 0
    BY <1>2, IdleIs
<1>4. KindOf /\ OpShape /\ OpBase /\ Waste /\ MoveShape
    BY <1>2, <1>3 DEF KindOf, OpShape, OpBase, Waste, MoveShape
<1>5. Counted
    BY <1>2, <1>3, BoundsAssumption DEF Counted
<1>6. CrcClean
    BY <1>2, BlankIs DEF CrcClean
<1>7. InAllowed
    BY <1>3 DEF InAllowed, Kinds
<1>8. \A l \in LEB : Durable(l) = Unmapped
  <2>1. \A l \in LEB : Copies(l) = {}
      BY <1>2 DEF Copies, Blank
  <2>2. DurableOK
      BY <1>1, ScansIs DEF PlaceInv, Scans
  <2> QED
      BY <2>1, <2>2 DEF DurableOK
<1>9. AbsReq = LS!Idle("none")
    BY <1>2, IdleIs DEF AbsReq, LS!Idle
<1>10. LS!LInit
  <2>1. [l \in LEB |-> Durable(l)] \in [LEB -> {Unmapped}]
      BY <1>8
  <2> QED
      BY <1>9, <2>1 DEF LS!LInit
<1> QED
    BY <1>1, <1>4, <1>5, <1>6, <1>7, <1>10 DEF StoreInv, DataInv

\* ubi_eba_write_leb, ubi_eba_atomic_leb_change and ubi_eba_unmap_leb, with the retries and recover_peb
\* below them, sync_erase, wear-levelling moves and attach, on a flash that tears writes, implement
\* LebStore: a LEB changes only by the request addressed to it and in the ways its kind allows, and a
\* request that returns zero has stored what it was given.
THEOREM StoreImplemented == ASSUME StoreSafe PROVE Spec => ImplementsLebStore
<1>1. Init => StoreInv /\ LS!LInit
    BY InitStore
<1>2. StoreInv /\ [Next]_vars => StoreInv' /\ [LS!LNext]_<<[l \in LEB |-> Durable(l)], AbsReq>>
    BY StepKeepsStore
<1> QED
    BY <1>1, <1>2, PTL DEF Spec, ImplementsLebStore, LS!LSpec, LS!lsvars

\* A request the abstract store reports as done was stored.
LEMMA OkIsStored ==
  ASSUME Refines, op.kind = "append", op' = Idle("ok"), NEW l \in LEB, op.lnum = l
  PROVE  Durable(l)' = op.base \o op.arg
<1>1. /\ AbsReq = [kind |-> op.kind, lnum |-> op.lnum, arg |-> op.arg, base |-> op.base]
      /\ AbsReq.kind = "append" /\ AbsReq.lnum = l
    BY ReqIs DEF Kinds
<1>2. AbsReq' = [kind |-> "idle", ret |-> "ok"] /\ AbsReq'.kind = "idle" /\ AbsReq'.ret = "ok"
    BY IdleIs DEF AbsReq
<1>3. AbsReq' # AbsReq
    BY <1>1, <1>2
<1>4. LS!LNext
    BY <1>3 DEF Refines
<1>5. /\ ~LS!Begin /\ ~LS!Progress
    BY <1>1, <1>3 DEF LS!Begin, LS!Progress
<1>6. ~LS!Fail /\ ~LS!Cut
  <2>1. LS!Idle("err").ret = "err" /\ LS!Idle("none").ret = "none"
      BY DEF LS!Idle
  <2> QED
      BY <1>2, <2>1 DEF LS!Fail, LS!Cut
<1>7. LS!Stored(AbsReq, Abs'[l])
    BY <1>1, <1>4, <1>5, <1>6 DEF LS!LNext, LS!Succeed, Abs
<1>8. Abs'[l] = op.base \o op.arg
    BY <1>1, <1>7 DEF LS!Stored
<1> QED
    BY <1>8 DEF Abs

\* While it writes behind the pages that are there, an append adds some of its own.
LEMMA AppendAdds ==
  ASSUME StoreInv, Scans', Next, op.pc = "inplace", NEW l \in LEB, op.lnum = l
  PROVE  Durable(l)' \in {op.base \o t : t \in Partial(op.arg)}
<1>0. TypeOK /\ MapInv /\ Scans /\ CopyInv /\ DataInv /\ ControlOK
    BY StoreFacts
<1>1. Alone("inplace") /\ ~ro_mode /\ op.arg \in Content
  <2>1. up = "up" /\ work = NoWork /\ ~ro_mode
      BY <1>0 DEF MapInv, InStep, Stages
  <2> QED
      BY <1>0, <2>1, WorkFacts DEF Alone, TypeOK, Op
<1>2. /\ op.old \in PEB /\ op.old = eba_tbl[l] /\ op.old \in Copies(l) /\ op.base \in Content
      /\ flash[op.old].data = op.base /\ todo = {}
    BY <1>1, AppendHolds
<1>3. ASSUME flash' = flash
      PROVE  Durable(l)' \in {op.base \o t : t \in Partial(op.arg)}
  <2>1. Copies(l) \subseteq {op.old, op.old}
      BY <1>0, <1>1, <1>2, NoneInFlight DEF Alone
  <2>2. Durable(l) = op.base
      BY <1>0, <1>2, <2>1, HarmlessPair
  <2>3. Durable(l)' = op.base \o <<>> /\ <<>> \in Partial(op.arg)
      BY <1>0, <1>1, <1>2, <1>3, <2>2, SameFlash, ConcatEmpty, PartialEnds
  <2> QED
      BY <2>3
<1>4. ASSUME NEW d \in Partial(op.arg), SetFlash(op.old, WithData(flash[op.old], flash[op.old].data \o d))
      PROVE  Durable(l)' \in {op.base \o t : t \in Partial(op.arg)}
    BY <1>1, <1>4, InplaceLegal
<1>5. CASE EbaStep
  <2>1. WriteInPlace \/ WriteInPlaceError
      BY <1>1, <1>5 DEF Alone, EbaStep, Ready, At, WriteLeb, AtomicLebChange, AppendLeb, UnmapLeb, WriteVidHdr,
         WriteData, MapLeb, WriteError, RetryWrite, WriteRefused, RecoverGetPeb, RecoverVidHdr, RecoverData,
         RecoverReadError, RecoverWriteError, RecoverRetry, RecoverFailed, Done
  <2>2. op.arg \in Partial(op.arg)
      BY <1>1, PartialEnds
  <2>3. PICK d \in Partial(op.arg) : SetFlash(op.old, WithData(flash[op.old], flash[op.old].data \o d))
      BY <2>1, <2>2 DEF WriteInPlace, WriteInPlaceError
  <2> QED
      BY <1>4, <2>3
<1>6. CASE WlStep
  <2>1. FALSE
      BY <1>1, <1>6 DEF Alone, WlStep, EraseWorker, EraseError, EraseRefused, MoveCancelled, MoveVidHdr, MoveData,
         MoveBitflip, MoveBadHdr, MoveMismatch, MoveWriteError, MoveReadError, ScrubLeb, Ready, At
  <2> QED
      BY <2>1
<1>7. CASE PowerStep
  <2>1. PowerCut
      BY <1>1, <1>7 DEF Alone, At, PowerStep, PowerOff, Attach, AttachError, AttachErase, AttachDone
  <2>2. CASE flash' = flash
      BY <1>3, <2>2
  <2>3. ASSUME NEW i \in Interrupted, SetFlash(i[1], i[2])
        PROVE  Durable(l)' \in {op.base \o t : t \in Partial(op.arg)}
    <3>1. i[1] = op.old /\ \E d \in Partial(op.arg) : i[2] = WithData(flash[op.old], flash[op.old].data \o d)
      <4>1. ~Copying /\ work.k # "erase"
          BY <1>1 DEF Alone, Copying
      <4> QED
          BY <1>1, <2>3, <4>1, InterruptedIs DEF Alone
    <3> QED
        BY <1>4, <2>3, <3>1
  <2> QED
      BY <2>1, <2>2, <2>3 DEF PowerCut
<1> QED
    BY <1>5, <1>6, <1>7 DEF Next

\* ubi_eba_write_leb on a mapped LEB: when it returns zero the pages are behind the ones that were
\* there, also when the write failed and recover_peb moved the LEB; and until a write fails those pages
\* stay as they are, whatever power does.
THEOREM AppendIsStored == ASSUME StoreSafe PROVE Spec => AppendStored
<1> DEFINE Kept == \A l \in LEB : op.kind = "append" /\ op.lnum = l =>
                     /\ op' = Idle("ok") => Durable(l)' = op.base \o op.arg
                     /\ op.pc = "inplace" => Durable(l)' \in {op.base \o t : t \in Partial(op.arg)}
<1>1. Init => StoreInv
    BY InitStore
<1>2. StoreInv /\ [Next]_vars => StoreInv'
    BY StepKeepsStore
<1>3. StoreInv /\ StoreInv' /\ [Next]_vars => [Kept]_vars
  <2> SUFFICES ASSUME StoreInv, StoreInv', Next
               PROVE  Kept
      OBVIOUS
  <2>1. Scans' /\ TypeOK'
      BY ScansNext DEF StoreInv, PlaceInv, Scans
  <2>2. Refines
      BY <2>1, StepKeepsData
  <2> QED
      BY <2>1, <2>2, OkIsStored, AppendAdds
<1> QED
    BY <1>1, <1>2, <1>3, PTL DEF Spec, AppendStored
=============================================================================
