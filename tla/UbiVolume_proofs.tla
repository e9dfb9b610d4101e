-------------------------- MODULE UbiVolume_proofs --------------------------
(***************************************************************************)
(* Proofs about UbiVolume: for any number of volumes and of LEBs in them,  *)
(* any contents and any faults.                                            *)
(***************************************************************************)
EXTENDS UbiVolume, SequenceTheorems, FiniteSetTheorems, TLAPS

USE VolAssumption

-----------------------------------------------------------------------------
(* The inductive invariant, in parts.                                       *)

\* Which command is at which of its loops, and which EBA call it waits for.
AtTable == op.pc \in {"tunmap", "twrite"}
Control ==
  /\ op.pc = "idle" <=> op.cmd \in {"none", "restore"}
  /\ op.pc # "idle" => up = "up" /\ op.v \in Vol
  /\ AtTable => /\ op.i \in {0, 1}
                /\ CASE op.cmd = "create" -> op.then = "create"
                     [] op.cmd = "remove" -> op.then = "remove"
                     [] OTHER             -> op.then \in {"set", "clear", "again"}
  /\ op.pc = "wipe" => op.cmd \in {"remove", "write"} /\ op.i \in Lnum
  /\ op.pc = "put" => op.cmd = "write" /\ op.i < Len(op.data)
  /\ op.cmd \in {"remove", "write"} => vols[op.v] \in Volume
  /\ up = "restore" => op.i \in {0, 1}
  /\ up = "down" => vtbl = NoTable
  /\ up \in {"restore", "erase"} => Sane(vtbl)
  /\ up \in {"down", "restore"} => ~ro_mode

Calling ==
  req.kind # "idle" =>
    /\ up = "up" /\ ~ro_mode /\ op.pc # "idle"
    /\ req.kind = (IF Writing THEN "write" ELSE "unmap")
    /\ req.lnum = Target /\ req.base = leb[Target]
    /\ req.arg = IF Writing THEN Payload ELSE <<>>

\* Where no volume is, no LEB is.
EmptyVol(v) == \A n \in Lnum : leb[<<v, n>>] = Unmapped
Vacant ==
  /\ up = "up" /\ ~ro_mode => \A v \in Vol : vols[v] = NoVol => EmptyVol(v)
  /\ up = "erase" => \A v \in Vol : vols[v] = NoVol => vtbl[v] = NoRec
  /\ op.cmd = "remove" /\ op.pc = "wipe" /\ ~ro_mode =>
       \A n \in Lnum : n < op.i => leb[<<op.v, n>>] = Unmapped

\* Both copies of the table, or at least the one attaching would choose, are intact.
Holds(i) == leb[Copy(i)] = <<vtbl>>
Good(i) == Checked(i) /\ Sane(TableOf(i))
Intact ==
  /\ Attachable /\ ~blank
  /\ up = "restore" => Holds(1 - op.i)
  /\ up = "erase" => Holds(0) /\ Holds(1)
  /\ up = "up" /\ ~ro_mode =>
       /\ Sane(vtbl)
       /\ ~AtTable => Holds(0) /\ Holds(1)
       /\ AtTable /\ op.i = 0 => Good(1)
       /\ AtTable /\ op.i = 1 => Holds(0)
       /\ op.pc = "tunmap" /\ op.i = 0 => leb[Copy(0)] = leb[Copy(1)]

\* RAM and table agree about every volume but the one a command is changing.
Agree(v) == IF vtbl[v] = NoRec THEN vols[v] = NoVol
            ELSE /\ vtbl[v] \in Record /\ vols[v] \in Volume
                 /\ vols[v].upd_marker = vtbl[v].upd_marker
Changed ==
  LET v == op.v IN
  CASE op.cmd = "create" -> vols[v] = NoVol /\ vtbl[v] \in Record /\ ~vtbl[v].upd_marker
    [] op.cmd = "remove" -> vols[v] \in Volume /\ vtbl[v] = NoRec
    [] OTHER -> /\ vols[v] \in Volume /\ vtbl[v] \in Record
                /\ IF AtTable /\ op.then \in {"clear", "again"} THEN ~vtbl[v].upd_marker
                                                               ELSE vtbl[v].upd_marker
                /\ ~AtTable => vols[v].upd_marker
                /\ ~vols[v].updating => AtTable /\ op.then = "clear" /\ ~vols[v].upd_marker
InStep ==
  /\ up = "erase" => \A v \in Vol : Agree(v)
  /\ up = "up" /\ ~ro_mode => /\ \A v \in Vol : (op.pc # "idle" => v # op.v) => Agree(v)
                              /\ op.pc # "idle" => Changed

\* A volume that can be read is not marked in the table: neither in the copy attaching would
\* choose nor, on a writable device, anywhere.  While its update runs it cannot be read.
MarkedIn(t, v) == t[v] \in Record /\ t[v].upd_marker
Clean(c, v) == c \in [{1} -> Table] => ~MarkedIn(c[1], v)
Honest ==
  up = "up" =>
    /\ op.cmd = "write" => vols[op.v].updating \/ ~vols[op.v].upd_marker
    /\ \A v \in Vol : Readable(v) =>
         /\ Clean(leb[Copy(Chosen)], v)
         /\ ~ro_mode => ~MarkedIn(vtbl, v) /\ Clean(leb[Copy(0)], v) /\ Clean(leb[Copy(1)], v)

\* How far a command has got: while copy 0 is being replaced, what is stored is copy 1, the table
\* before the change; the LEBs of the volume are un-mapped, then written, in order, and have the
\* new data when the marker is cleared.
Before == /\ leb[Copy(0)] \in {leb[Copy(1)], Unmapped}
          /\ \A w \in Vol \ {op.v} : TableOf(1)[w] = vtbl[w]
          /\ op.then \in {"clear", "again"} => TableOf(1)[op.v] # NoRec
Wiping == \A n \in Lnum : n < op.i => leb[<<op.v, n>>] = Unmapped
Putting == \A n \in Lnum : IF n < op.i THEN Visible(leb[<<op.v, n>>]) = op.data[n + 1]
                           ELSE leb[<<op.v, n>>] = Unmapped
Complete == \A n \in Lnum : Visible(leb[<<op.v, n>>]) = Argument(op.data)[n]
Progressed ==
  /\ up = "restore" /\ op.i = 0 => ~Checked(0)
  /\ up = "up" /\ ~ro_mode =>
       /\ AtTable /\ op.i = 0 => Before
       /\ op.cmd = "write" /\ op.pc = "wipe" => Wiping
       /\ op.pc = "put" => Putting
       /\ AtTable /\ op.then \in {"clear", "again"} => Complete

CtlInv == TypeOK /\ Control /\ Calling
EmptyInv == CtlInv /\ NoLeftovers /\ Vacant
TableInv == EmptyInv /\ Intact /\ InStep
ReadInv == TableInv /\ Honest
StoreInv == TableInv /\ Progressed

\* The flash was formatted before the first attach, and memory does not run out.  Without the
\* one, a power cut while create_empty_lvol writes the first copies leaves a device that does
\* not attach; without the other, a change of the table fails without making the device
\* read-only, and the next one un-maps the only copy that is left.
Formatted == ~StartBlank /\ "nomem" \notin Faults

-----------------------------------------------------------------------------
(* Contents of LEBs.                                                        *)

Lebs == VolLeb \cup {Copy(0), Copy(1)}

LEMMA TinyIsContent == 
  /\ <<>> \in EBA!Content
  /\ <<Torn>> \in EBA!Content
  /\ \A x \in Data \cup Table : <<x>> \in EBA!Content /\ <<x>> \in EBA!Written
  /\ <<>> \in EBA!Written
  BY DEF EBA!Content, EBA!Written

LEMMA PartialOfOne ==
  ASSUME NEW x
  PROVE  /\ \A c \in EBA!Partial(<<x>>) : c \in {<<>>, <<x>>, <<Torn>>}
         /\ \A c \in EBA!Partial(<<>>) : c = <<>>
<1>1. SubSeq(<<x>>, 1, 0) = <<>> /\ SubSeq(<<>>, 1, 0) = <<>>
  OBVIOUS
<1>a. SubSeq(<<x>>, 1, 1) = <<x>>
  <2>1. \A j \in 1..1 : <<x>>[j] \in {x}
    OBVIOUS
  <2>2. SubSeq(<<x>>, 1, 1) \in Seq({x}) /\ Len(SubSeq(<<x>>, 1, 1)) = 1
    BY <2>1, SubSeqProperties
  <2>3. \A t \in Seq({x}) : Len(t) = 1 => t = <<x>>
    OBVIOUS
  <2> QED BY <2>2, <2>3
<1>b. \A n \in 0..1 : n = 0 \/ n = 1
  OBVIOUS
<1>2. Len(<<x>>) = 1 /\ Append(<<>>, Torn) = <<Torn>>
  OBVIOUS
<1> QED BY <1>1, <1>2, <1>a, <1>b DEF EBA!Partial

\* A LEB of the model has one page.
LEMMA WrittenTiny == \A a \in EBA!Written : a = <<>> \/ \E x \in Data \cup Table : a = <<x>>
<1> SUFFICES ASSUME NEW a \in EBA!Written, a # <<>>
             PROVE  \E x \in Data \cup Table : a = <<x>>
  OBVIOUS
<1>1. PICK n \in 0..1 : a \in [1..n -> Data \cup Table]
  BY DEF EBA!Written
<1>2. n = 1
  BY <1>1
<1>3. a = <<a[1]>> /\ a[1] \in Data \cup Table
  BY <1>1, <1>2
<1> QED BY <1>3

\* What is left of a content by an erasure that stopped.
LEMMA ScrambledContent ==
  ASSUME NEW c \in EBA!Content, NEW d \in EBA!Scrambled(c)
  PROVE  d \in EBA!Content /\ (d = c \/ d \notin [{1} -> Table])
<1>1. Len(c) \in Nat
  BY DEF EBA!Content
<1>2. CASE d = c
  BY <1>2
<1>3. CASE d = [i \in 1..Len(c) |-> Torn]
  <2>1. d \in EBA!Content
    BY <1>1, <1>3 DEF EBA!Content
  <2>2. d \notin [{1} -> Table]
    <3> SUFFICES ASSUME d \in [{1} -> Table] PROVE FALSE
      OBVIOUS
    <3>1. 1 \in DOMAIN d /\ d[1] \in Table
      OBVIOUS
    <3>2. 1 \in 1..Len(c)
      BY <3>1, <1>3
    <3>3. d[1] = Torn
      BY <3>2, <1>3
    <3> QED BY <3>1, <3>3, MarkersAssumption
  <2> QED BY <2>1, <2>2
<1> QED BY <1>2, <1>3 DEF EBA!Scrambled

\* A copy of the table that can be read is a content, and only a whole page is one.
LEMMA TableContent ==
  /\ \A t \in Table : <<t>> \in [{1} -> Table] /\ <<t>>[1] = t
  /\ \A c \in [{1} -> Table] : c \in EBA!Content /\ c[1] \in Table /\ c = <<c[1]>>
  /\ Unmapped \notin [{1} -> Table] /\ <<>> \notin [{1} -> Table] /\ <<Torn>> \notin [{1} -> Table]
<1>1. \A t \in Table : <<t>> \in [{1} -> Table] /\ <<t>>[1] = t
  OBVIOUS
<1>2. \A c \in [{1} -> Table] : c[1] \in Table /\ c = <<c[1]>>
  OBVIOUS
<1>3. \A c \in [{1} -> Table] : c \in EBA!Content
  BY <1>2, TinyIsContent
<1>4. Unmapped \notin [{1} -> Table]
  BY <1>3, MarkersAssumption
<1>5. <<>> \notin [{1} -> Table]
  OBVIOUS
<1>6. <<Torn>>[1] = Torn
  OBVIOUS
<1>7. <<Torn>> \notin [{1} -> Table]
  BY <1>2, <1>6, MarkersAssumption
<1> QED BY <1>1, <1>2, <1>3, <1>4, <1>5, <1>7

\* What an interrupted or failed call leaves in its LEB: the old content, the new one, or
\* something that is not taken for a table.
LEMMA AllowedContent ==
  ASSUME NEW r \in EBA!Request, r.kind \in {"write", "unmap"}, NEW c \in EBA!Allowed(r)
  PROVE  /\ c \in EBA!Content \cup {Unmapped}
         /\ c \in [{1} -> Table] => c \in {r.base, r.arg}
<1>1. r.arg \in EBA!Written /\ r.base \in {Unmapped} \cup EBA!Content
  BY DEF EBA!Request
<1>2. CASE r.base = Unmapped
  <2>1. \A d \in EBA!Partial(r.arg) : d \in {<<>>, <<Torn>>, r.arg} /\ d \in EBA!Content
    BY <1>1, WrittenTiny, PartialOfOne, TinyIsContent
  <2>2. c = Unmapped \/ \E d \in EBA!Partial(r.arg) : c \in EBA!Scrambled(d)
    BY <1>2 DEF EBA!Allowed
  <2> QED BY <2>1, <2>2, ScrambledContent, TableContent
<1>3. CASE r.base # Unmapped
  <2>1. c = Unmapped \/ c \in EBA!Scrambled(r.base)
    BY <1>3 DEF EBA!Allowed
  <2> QED BY <2>1, <1>1, <1>3, ScrambledContent, TableContent
<1> QED BY <1>2, <1>3

-----------------------------------------------------------------------------
(* What the steps of a command do, in terms of what they change.            *)

OpTo(pc, i, then) == /\ op'.cmd = op.cmd /\ op'.v = op.v /\ op'.data = op.data
                     /\ op'.pc = pc /\ op'.i = i /\ op'.then = then
OpEnds(ret) == op'.cmd = "none" /\ op'.pc = "idle" /\ op'.ret = ret
OthersKept == \A w \in Vol \ {op.v} : vols'[w] = vols[w]
VolTo(marker, updating) == /\ OthersKept
                           /\ vols'[op.v] \in Volume
                           /\ vols'[op.v].upd_marker = marker
                           /\ vols'[op.v].updating = updating
RecTo(v, rec) == /\ vtbl'[v] = rec
                 /\ \A w \in Vol \ {v} : vtbl'[w] = vtbl[w]
SameRam == vtbl' = vtbl /\ vols' = vols

ToWrite == op.pc = "tunmap" /\ OpTo("twrite", op.i, op.then) /\ SameRam
ToSecond == op.pc = "twrite" /\ op.i = 0 /\ OpTo("tunmap", 1, op.then) /\ SameRam
Stored1 == op.pc = "twrite" /\ op.i = 1
Created == /\ Stored1 /\ op.cmd = "create" /\ OpEnds("ok") /\ vtbl' = vtbl
           /\ VolTo(FALSE, FALSE)
ToWipe == Stored1 /\ op.cmd = "remove" /\ OpTo("wipe", 0, op.then) /\ SameRam
SetToWipe == /\ Stored1 /\ op.cmd = "write" /\ op.then = "set" /\ OpTo("wipe", 0, op.then)
             /\ vtbl' = vtbl /\ VolTo(TRUE, vols[op.v].updating)
Cleared == /\ Stored1 /\ op.cmd = "write" /\ op.then = "clear" /\ OpEnds("ok")
           /\ vtbl' = vtbl /\ VolTo(FALSE, FALSE)
ClearAgain == /\ Stored1 /\ op.cmd = "write" /\ op.then = "again" /\ OpTo("tunmap", 0, "clear")
              /\ RecTo(op.v, Marked(vtbl[op.v], FALSE)) /\ VolTo(FALSE, FALSE)
WipeNext == op.pc = "wipe" /\ op.i + 1 < Ebs /\ OpTo("wipe", op.i + 1, op.then) /\ SameRam
Removed == /\ op.pc = "wipe" /\ op.i + 1 = Ebs /\ op.cmd = "remove" /\ OpEnds("ok")
           /\ vtbl' = vtbl /\ OthersKept /\ vols'[op.v] = NoVol
AtEnd(then) == IF then = "again" THEN op.pc = "wipe" /\ op.i + 1 = Ebs /\ op.data = <<>>
                                ELSE op.pc = "put" /\ op.i + 1 = Len(op.data)
ToClear(then) == /\ AtEnd(then)
                 /\ op.pc \in {"wipe", "put"} /\ op.cmd = "write" /\ OpTo("tunmap", 0, then)
                 /\ RecTo(op.v, Marked(vtbl[op.v], FALSE))
                 /\ VolTo(vols[op.v].upd_marker, vols[op.v].updating)
ToPut == /\ op.pc = "wipe" /\ op.i + 1 = Ebs /\ op.cmd = "write" /\ 0 < Len(op.data) /\ OpTo("put", 0, op.then)
         /\ SameRam
PutNext == op.pc = "put" /\ op.i + 1 < Len(op.data) /\ OpTo("put", op.i + 1, op.then) /\ SameRam

RamTypes == op' \in Op /\ vtbl' \in Table /\ vols' \in [Vol -> Volume \cup {NoVol}]

LEMMA OpFields ==
  ASSUME op \in Op
  PROVE  /\ \A r \in {"none", "ok", "err"} :
              Idle(r) \in Op /\ Idle(r).cmd = "none" /\ Idle(r).pc = "idle" /\ Idle(r).ret = r
         /\ \A pc \in {"idle", "tunmap", "twrite", "wipe", "put"}, i \in Lnum \cup {0, 1} :
              /\ op' = [op EXCEPT !.pc = pc, !.i = i] => op' \in Op /\ OpTo(pc, i, op.then)
              /\ \A then \in {"none", "create", "remove", "set", "clear", "again"} :
                   op' = [op EXCEPT !.pc = pc, !.i = i, !.then = then] =>
                     op' \in Op /\ OpTo(pc, i, then)
         /\ \A pc \in {"idle", "tunmap", "twrite", "wipe", "put"} :
              op' = [op EXCEPT !.pc = pc] => op' \in Op /\ OpTo(pc, op.i, op.then)
         /\ \A i \in Lnum \cup {0, 1} :
              op' = [op EXCEPT !.i = i] => op' \in Op /\ OpTo(op.pc, i, op.then)
<1>1. <<>> \in UNION {[1..n -> Data] : n \in 0..Ebs}
  <2>1. <<>> \in [1..0 -> Data] /\ 0 \in 0..Ebs
    OBVIOUS
  <2> QED BY <2>1
<1>2. \A r \in {"none", "ok", "err"} :
              Idle(r) \in Op /\ Idle(r).cmd = "none" /\ Idle(r).pc = "idle" /\ Idle(r).ret = r
  BY <1>1 DEF Idle, Op
<1> DEFINE PCs == {"idle", "tunmap", "twrite", "wipe", "put"}
           Thens == {"none", "create", "remove", "set", "clear", "again"}
<1>3. ASSUME NEW pc \in PCs, NEW i \in Lnum \cup {0, 1}, op' = [op EXCEPT !.pc = pc, !.i = i]
      PROVE  op' \in Op /\ OpTo(pc, i, op.then)
  BY <1>3 DEF Op, OpTo
<1>4. ASSUME NEW pc \in PCs, NEW i \in Lnum \cup {0, 1}, NEW then \in Thens,
             op' = [op EXCEPT !.pc = pc, !.i = i, !.then = then]
      PROVE  op' \in Op /\ OpTo(pc, i, then)
  BY <1>4 DEF Op, OpTo
<1>5. ASSUME NEW pc \in PCs, op' = [op EXCEPT !.pc = pc]
      PROVE  op' \in Op /\ OpTo(pc, op.i, op.then)
  BY <1>5 DEF Op, OpTo
<1>6. ASSUME NEW i \in Lnum \cup {0, 1}, op' = [op EXCEPT !.i = i]
      PROVE  op' \in Op /\ OpTo(op.pc, i, op.then)
  BY <1>6 DEF Op, OpTo
<1> QED BY <1>2, <1>3, <1>4, <1>5, <1>6

LEMMA DataLength == \A o \in Op : Len(o.data) \in 0..Ebs /\ (o.data # <<>> => 0 < Len(o.data))
<1> SUFFICES ASSUME NEW o \in Op PROVE Len(o.data) \in 0..Ebs /\ (o.data # <<>> => 0 < Len(o.data))
  OBVIOUS
<1>1. PICK n \in 0..Ebs : o.data \in [1..n -> Data]
  BY DEF Op
<1>2. Len(o.data) = n
  BY <1>1
<1>3. n = 0 => o.data = <<>>
  BY <1>1
<1> QED BY <1>2, <1>3

LEMMA VolEdit ==
  ASSUME TypeOK, op.v \in Vol, vols[op.v] \in Volume
  PROVE  /\ \A m \in BOOLEAN : vols' = [vols EXCEPT ![op.v].upd_marker = m] =>
              VolTo(m, vols[op.v].updating) /\ vols' \in [Vol -> Volume \cup {NoVol}]
         /\ \A m, u \in BOOLEAN :
              vols' = [vols EXCEPT ![op.v].upd_marker = m, ![op.v].updating = u] =>
                VolTo(m, u) /\ vols' \in [Vol -> Volume \cup {NoVol}]
         /\ \A n \in 0..Ebs : vols' = [vols EXCEPT ![op.v].used_ebs = n] =>
              /\ VolTo(vols[op.v].upd_marker, vols[op.v].updating)
              /\ vols' \in [Vol -> Volume \cup {NoVol}]
<1> USE DEF VolTo, OthersKept, TypeOK, Volume
<1>1. ASSUME NEW m \in BOOLEAN, vols' = [vols EXCEPT ![op.v].upd_marker = m]
      PROVE  VolTo(m, vols[op.v].updating) /\ vols' \in [Vol -> Volume \cup {NoVol}]
  BY <1>1
<1>2. ASSUME NEW m \in BOOLEAN, NEW u \in BOOLEAN,
             vols' = [vols EXCEPT ![op.v].upd_marker = m, ![op.v].updating = u]
      PROVE  VolTo(m, u) /\ vols' \in [Vol -> Volume \cup {NoVol}]
  BY <1>2
<1>3. ASSUME NEW n \in 0..Ebs, vols' = [vols EXCEPT ![op.v].used_ebs = n]
      PROVE  /\ VolTo(vols[op.v].upd_marker, vols[op.v].updating)
             /\ vols' \in [Vol -> Volume \cup {NoVol}]
  BY <1>3
<1> QED BY <1>1, <1>2, <1>3

LEMMA MarkedType ==
  \A rec \in Record \cup {NoRec, BadRec}, m \in BOOLEAN :
    /\ Marked(rec, m) \in Record \cup {NoRec, BadRec}
    /\ rec \in Record => Marked(rec, m) \in Record /\ Marked(rec, m).upd_marker = m
  BY MarkersAssumption DEF Marked, Record

LEMMA MarkedRecord ==
  ASSUME NEW rec \in Record
  PROVE  /\ Marked(rec, FALSE) \in Record /\ ~Marked(rec, FALSE).upd_marker
         /\ Marked(rec, TRUE) \in Record /\ Marked(rec, TRUE).upd_marker
<1>1. ASSUME NEW m \in BOOLEAN
      PROVE  Marked(rec, m) \in Record /\ Marked(rec, m).upd_marker = m
  BY MarkedType
<1> QED BY <1>1

LEMMA RecordChanged ==
  ASSUME TypeOK, NEW o \in Op, o.v \in Vol, NEW rec \in Record \cup {NoRec, BadRec},
         NEW then \in {"create", "remove", "set", "clear", "again"}, ChangeVtblRecord(o, rec, then)
  PROVE  /\ op' \in Op /\ vtbl' \in Table /\ RecTo(o.v, rec)
         /\ op'.cmd = o.cmd /\ op'.v = o.v /\ op'.data = o.data
         /\ op'.pc = "tunmap" /\ op'.i = 0 /\ op'.then = then
<1>1. op' = [o EXCEPT !.pc = "tunmap", !.i = 0, !.then = then] /\ vtbl' = [vtbl EXCEPT ![o.v] = rec]
  BY DEF ChangeVtblRecord
<1>2. vtbl' \in Table /\ RecTo(o.v, rec)
  BY <1>1 DEF TypeOK, Table, RecTo
<1>3. op' \in Op
  BY <1>1 DEF Op
<1>4. /\ op'.cmd = o.cmd /\ op'.v = o.v /\ op'.data = o.data
      /\ op'.pc = "tunmap" /\ op'.i = 0 /\ op'.then = then
  BY <1>1 DEF Op
<1> QED BY <1>2, <1>3, <1>4

\* A call returned 0: the next one of the loop, or what follows the loop.
Moved == \/ ToWrite \/ ToSecond \/ Created \/ ToWipe \/ SetToWipe \/ Cleared \/ ClearAgain
         \/ WipeNext \/ Removed \/ ToClear("again") \/ ToPut \/ PutNext \/ ToClear("clear")

LEMMA Returned ==
  ASSUME TypeOK, Control, op.pc # "idle", CallReturned
  PROVE  RamTypes /\ Moved
<1>0. op \in Op /\ vtbl \in Table /\ vols \in [Vol -> Volume \cup {NoVol}] /\ op.v \in Vol
      /\ op.cmd \in {"create", "remove", "write"}
  BY DEF TypeOK, Control, Op
<1>t. op.pc \in {"tunmap", "twrite", "wipe", "put"}
  BY <1>0 DEF Op
<1>r. vtbl[op.v] \in Record \cup {NoRec, BadRec}
  BY <1>0 DEF Table
<1>d. Len(op.data) \in 0..Ebs /\ (op.data # <<>> => 0 < Len(op.data))
  BY <1>0, DataLength
<1>c. ASSUME op.cmd = "write", NEW then \in {"clear", "again"}, ClearUpdateMarker(then),
             op.pc \in {"wipe", "put"}, AtEnd(then)
      PROVE  RamTypes /\ ToClear(then)
  <2>1. vols[op.v] \in Volume
    BY <1>c DEF Control
  <2>2. ChangeVtblRecord(op, Marked(vtbl[op.v], FALSE), then)
    BY <1>c DEF ClearUpdateMarker
  <2>3. Marked(vtbl[op.v], FALSE) \in Record \cup {NoRec, BadRec}
    BY <1>r, MarkedType
  <2>4. /\ op' \in Op /\ vtbl' \in Table /\ RecTo(op.v, Marked(vtbl[op.v], FALSE))
        /\ OpTo("tunmap", 0, then)
    BY <2>2, <2>3, <1>0, RecordChanged DEF OpTo
  <2>5. \E n \in 0..Ebs : vols' = [vols EXCEPT ![op.v].used_ebs = n]
    <3>1. vols[op.v].used_ebs \in 0..Ebs
      BY <2>1 DEF Volume
    <3>2. CASE vtbl[op.v] \in Record /\ vtbl[op.v].type = "static"
      BY <3>2, <1>c, <1>d DEF ClearUpdateMarker
    <3>3. CASE ~(vtbl[op.v] \in Record /\ vtbl[op.v].type = "static")
      BY <3>3, <3>1, <1>c DEF ClearUpdateMarker
    <3> QED BY <3>2, <3>3
  <2>6. /\ VolTo(vols[op.v].upd_marker, vols[op.v].updating)
        /\ vols' \in [Vol -> Volume \cup {NoVol}]
    BY <2>5, <2>1, <1>0, VolEdit
  <2> QED BY <2>4, <2>6, <1>c DEF RamTypes, ToClear
<1>1. CASE op.pc = "tunmap"
  <2>1. op' = [op EXCEPT !.pc = "twrite"] /\ SameRam
    BY <1>1 DEF CallReturned, SameRam
  <2> QED BY <2>1, <1>1, <1>0, OpFields DEF RamTypes, ToWrite, SameRam, Moved
<1>2. CASE op.pc = "twrite" /\ op.i = 0
  <2>1. op' = [op EXCEPT !.pc = "tunmap", !.i = 1] /\ SameRam
    BY <1>2 DEF CallReturned, SameRam
  <2> QED BY <2>1, <1>2, <1>0, OpFields DEF RamTypes, ToSecond, SameRam, Moved
<1>3. CASE op.pc = "twrite" /\ op.i = 1
  <2>1. VtblChanged
    BY <1>3 DEF CallReturned
  <2>2. CASE op.cmd = "create"
    <3>1. op.then = "create"
      BY <2>2, <1>3 DEF Control, AtTable
    <3>2. \E n \in {0, Ebs} : vols' = [vols EXCEPT ![op.v] =
                    [upd_marker |-> FALSE, updating |-> FALSE, used_ebs |-> n]]
      BY <3>1, <2>1 DEF VtblChanged
    <3>3. VolTo(FALSE, FALSE) /\ vols' \in [Vol -> Volume \cup {NoVol}]
      BY <3>2, <1>0 DEF VolTo, OthersKept, Volume
    <3>4. op' = Idle("ok") /\ vtbl' = vtbl
      BY <3>1, <2>1 DEF VtblChanged
    <3> QED BY <3>3, <3>4, <1>3, <2>2, <1>0, OpFields DEF RamTypes, Created, Stored1, OpEnds, Moved
  <2>3. CASE op.cmd = "remove"
    <3>1. op.then = "remove"
      BY <2>3, <1>3 DEF Control, AtTable
    <3>2. op' = [op EXCEPT !.pc = "wipe", !.i = 0] /\ SameRam
      BY <3>1, <2>1 DEF VtblChanged, Wipe, SameRam
    <3> QED BY <3>2, <1>3, <2>3, <1>0, OpFields DEF RamTypes, ToWipe, Stored1, SameRam, Moved
  <2>4. CASE op.cmd = "write"
    <3>1. op.then \in {"set", "clear", "again"} /\ vols[op.v] \in Volume
      BY <2>4, <1>3 DEF Control, AtTable
    <3>2. CASE op.then = "set"
      <4>1. op' = [op EXCEPT !.pc = "wipe", !.i = 0] /\ vtbl' = vtbl
            /\ vols' = [vols EXCEPT ![op.v].upd_marker = TRUE]
        BY <3>2, <2>1 DEF VtblChanged, Wipe
      <4>2. VolTo(TRUE, vols[op.v].updating) /\ vols' \in [Vol -> Volume \cup {NoVol}]
        BY <4>1, <3>1, <1>0, VolEdit
      <4> QED BY <4>1, <4>2, <3>2, <1>3, <2>4, <1>0, OpFields DEF RamTypes, SetToWipe, Stored1, Moved
    <3>3. CASE op.then \in {"clear", "again"}
      <4>1. vols' = [vols EXCEPT ![op.v].upd_marker = FALSE, ![op.v].updating = FALSE]
        BY <3>3, <2>1 DEF VtblChanged
      <4>2. VolTo(FALSE, FALSE) /\ vols' \in [Vol -> Volume \cup {NoVol}]
        BY <4>1, <3>1, <1>0, VolEdit
      <4>3. CASE op.then = "clear"
        <5>1. op' = Idle("ok") /\ vtbl' = vtbl
          BY <4>3, <2>1 DEF VtblChanged
        <5> QED BY <5>1, <4>2, <4>3, <1>3, <2>4, <1>0, OpFields
                DEF RamTypes, Cleared, Stored1, OpEnds, Moved
      <4>4. CASE op.then = "again"
        <5>1. ChangeVtblRecord(op, Marked(vtbl[op.v], FALSE), "clear")
          BY <4>4, <2>1 DEF VtblChanged
        <5>2. Marked(vtbl[op.v], FALSE) \in Record \cup {NoRec, BadRec}
          BY <1>r, MarkedType
        <5>3. /\ op' \in Op /\ vtbl' \in Table /\ RecTo(op.v, Marked(vtbl[op.v], FALSE))
              /\ OpTo("tunmap", 0, "clear")
          BY <5>1, <5>2, <1>0, RecordChanged DEF OpTo
        <5> QED BY <5>3, <4>2, <4>4, <1>3, <2>4 DEF RamTypes, ClearAgain, Stored1, Moved
      <4> QED BY <3>3, <4>3, <4>4
    <3> QED BY <3>1, <3>2, <3>3
  <2> QED BY <1>0, <2>2, <2>3, <2>4
<1>4. CASE op.pc = "wipe"
  <2>0. op.cmd \in {"remove", "write"} /\ op.i \in Lnum
    BY <1>4 DEF Control
  <2>1. CASE op.i + 1 < Ebs
    <3>1. op' = [op EXCEPT !.i = op.i + 1] /\ SameRam
      BY <2>1, <1>4 DEF CallReturned, NextLeb, SameRam
    <3>2. op.i + 1 \in Lnum
      BY <2>0, <2>1 DEF Lnum
    <3>3. op' \in Op /\ OpTo("wipe", op.i + 1, op.then)
      BY <3>1, <3>2, <1>4, <1>0, OpFields
    <3> QED BY <3>1, <3>3, <2>1, <1>4, <1>0 DEF RamTypes, WipeNext, SameRam, Moved
  <2>2. CASE ~(op.i + 1 < Ebs)
    <3>1. Wiped /\ op.i + 1 = Ebs
      BY <2>2, <2>0, <1>4 DEF CallReturned, Lnum
    <3>2. CASE op.cmd = "remove"
      <4>1. vols' = [vols EXCEPT ![op.v] = NoVol] /\ op' = Idle("ok") /\ vtbl' = vtbl
        BY <3>1, <3>2 DEF Wiped
      <4>2. OthersKept /\ vols'[op.v] = NoVol /\ vols' \in [Vol -> Volume \cup {NoVol}]
        BY <4>1, <1>0 DEF OthersKept
      <4> QED BY <4>1, <4>2, <3>1, <3>2, <1>4, <1>0, OpFields DEF RamTypes, Removed, OpEnds, Moved
    <3>3. CASE op.cmd = "write" /\ op.data = <<>>
      <4>1. ClearUpdateMarker("again")
        BY <3>1, <3>3 DEF Wiped
      <4>2. AtEnd("again")
        BY <3>1, <3>3, <1>4 DEF AtEnd
      <4> QED BY <4>1, <4>2, <3>3, <1>4, <1>c DEF Moved
    <3>4. CASE op.cmd = "write" /\ op.data # <<>>
      <4>1. op' = [op EXCEPT !.pc = "put", !.i = 0] /\ SameRam
        BY <3>1, <3>4 DEF Wiped, SameRam
      <4>2. op' \in Op /\ OpTo("put", 0, op.then)
        BY <4>1, <1>0, OpFields
      <4> QED BY <4>1, <4>2, <3>1, <3>4, <1>4, <1>d, <1>0 DEF RamTypes, ToPut, SameRam, Moved
    <3> QED BY <2>0, <3>2, <3>3, <3>4
  <2> QED BY <2>1, <2>2
<1>5. CASE op.pc = "put"
  <2>0. op.cmd = "write" /\ op.i < Len(op.data) /\ op.i \in Lnum \cup {0, 1}
    BY <1>5, <1>0 DEF Control, Op
  <2>1. CASE op.i + 1 < Len(op.data)
    <3>1. op' = [op EXCEPT !.i = op.i + 1] /\ SameRam
      BY <2>1, <1>5 DEF CallReturned, NextLeb, SameRam
    <3>2. op.i + 1 \in Lnum
      BY <2>0, <2>1, <1>d DEF Lnum
    <3>3. op' \in Op /\ OpTo("put", op.i + 1, op.then)
      BY <3>1, <3>2, <1>5, <1>0, OpFields
    <3> QED BY <3>1, <3>3, <2>1, <1>5, <1>0 DEF RamTypes, PutNext, SameRam, Moved
  <2>2. CASE ~(op.i + 1 < Len(op.data))
    <3>1. ClearUpdateMarker("clear")
      BY <2>2, <1>5 DEF CallReturned
    <3>2. op.i + 1 = Len(op.data)
      BY <2>0, <2>2, <1>d DEF Lnum
    <3>3. AtEnd("clear")
      BY <3>2, <1>5 DEF AtEnd
    <3> QED BY <3>1, <3>3, <2>0, <1>5, <1>c DEF Moved
  <2> QED BY <2>1, <2>2
<1> QED BY <1>t, <1>1, <1>2, <1>3, <1>4, <1>5 DEF Control, AtTable

\* A call failed: the command ends.
FailedVol ==
  \/ vols' = vols
  \/ AtTable /\ op.cmd = "write" /\ op.then = "set" /\ VolTo(TRUE, vols[op.v].updating)
  \/ /\ AtTable /\ op.cmd = "write" /\ op.then \in {"clear", "again"}
     /\ VolTo(FALSE, vols[op.v].updating)
Failing == OpEnds("err") /\ vtbl' = vtbl /\ FailedVol

LEMMA Failed ==
  ASSUME TypeOK, Control, op.pc # "idle", CallFailed
  PROVE  RamTypes /\ Failing
<1>0. op \in Op /\ vtbl \in Table /\ vols \in [Vol -> Volume \cup {NoVol}] /\ op.v \in Vol
      /\ op.cmd \in {"create", "remove", "write"}
  BY DEF TypeOK, Control, Op
<1>1. op' = Idle("err") /\ vtbl' = vtbl
  BY DEF CallFailed
<1>2. op' \in Op /\ OpEnds("err")
  BY <1>0, <1>1, OpFields DEF OpEnds
<1>3. vols' \in [Vol -> Volume \cup {NoVol}] /\ FailedVol
  <2>1. CASE AtTable /\ op.then \in {"set", "clear", "again"}
    <3>1. op.cmd = "write" /\ vols[op.v] \in Volume
      BY <2>1, <1>0 DEF Control
    <3>2. CASE op.then = "set"
      <4>1. vols' = [vols EXCEPT ![op.v].upd_marker = TRUE]
        BY <2>1, <3>2 DEF CallFailed, AtTable
      <4> QED BY <4>1, <3>1, <3>2, <2>1, <1>0, VolEdit DEF FailedVol
    <3>3. CASE op.then \in {"clear", "again"}
      <4>1. vols' = [vols EXCEPT ![op.v].upd_marker = FALSE]
        BY <2>1, <3>3 DEF CallFailed, AtTable
      <4> QED BY <4>1, <3>1, <3>3, <2>1, <1>0, VolEdit DEF FailedVol
    <3> QED BY <2>1, <3>2, <3>3
  <2>2. CASE ~(AtTable /\ op.then \in {"set", "clear", "again"})
    <3>1. vols' = vols
      BY <2>2 DEF CallFailed, AtTable
    <3> QED BY <3>1, <1>0 DEF FailedVol
  <2> QED BY <2>1, <2>2
<1> QED BY <1>0, <1>1, <1>2, <1>3 DEF RamTypes, Failing

\* What a call does to the flash.
Effect ==
  /\ up = "up" /\ up' = "up" /\ op.pc # "idle" /\ blank' = blank /\ ro_mode' \in BOOLEAN
  /\ req' \in {EBA!Idle(r) : r \in {"none", "ok", "err"}}
  /\ leb' \in [Lebs -> EBA!Content \cup {Unmapped}]
  /\ \A l \in Lebs \ {Target} : leb'[l] = leb[l]
  /\ ~ro_mode' => /\ ~Writing => leb'[Target] = Unmapped
                  /\ op.pc = "twrite" => leb'[Target] = <<vtbl>>
                  /\ op.pc = "put" => \/ leb'[Target] = Payload
                                      \/ Payload = <<Blank>> /\ leb'[Target] = leb[Target]
  /\ leb'[Target] \in [{1} -> Table] => \/ leb'[Target] = leb[Target]
                                        \/ Writing /\ leb'[Target] = Payload
  /\ ~ro_mode

LEMMA TargetType ==
  ASSUME TypeOK, Control, op.pc # "idle"
  PROVE  /\ Target \in Lebs
         /\ AtTable => Target = Copy(op.i) /\ op.i \in {0, 1}
         /\ ~AtTable => Target = <<op.v, op.i>> /\ op.v \in Vol /\ op.i \in Lnum
         /\ Copy(0) # Copy(1) /\ Copy(0) \notin VolLeb /\ Copy(1) \notin VolLeb
<1>1. op.pc \in {"tunmap", "twrite", "wipe", "put"} /\ op.i \in Lnum \cup {0, 1} /\ op.v \in Vol
  BY DEF TypeOK, Control, Op
<1>2. op.pc = "put" => op.i \in Lnum
  <2>1. op.pc = "put" => op.i < Len(op.data) /\ Len(op.data) \in 0..Ebs
    BY DataLength DEF TypeOK, Control
  <2> QED BY <2>1, <1>1 DEF Lnum
<1>3. op.pc = "wipe" => op.i \in Lnum
  BY DEF Control
<1>4. Copy(0) # Copy(1) /\ Copy(0) \notin VolLeb /\ Copy(1) \notin VolLeb
  BY DEF Copy, VolLeb
<1>5. AtTable => Target = Copy(op.i) /\ op.i \in {0, 1}
  BY DEF Control, Target, AtTable
<1>6. ~AtTable => Target = <<op.v, op.i>> /\ op.v \in Vol /\ op.i \in Lnum
  BY <1>1, <1>2, <1>3 DEF Target, AtTable
<1>7. Target \in Lebs
  BY <1>5, <1>6 DEF Lebs, VolLeb
<1> QED BY <1>4, <1>5, <1>6, <1>7

LEMMA CallEffect ==
  ASSUME CtlInv, EbaSkip \/ EbaReturn \/ EbaError
  PROVE  Effect /\ (CallReturned \/ (CallFailed /\ ro_mode'))
<1>0. TypeOK /\ Control /\ Calling
  BY DEF CtlInv
<1>1. /\ leb \in [Lebs -> EBA!Content \cup {Unmapped}] /\ ro_mode \in BOOLEAN
      /\ req \in EBA!Request \cup {EBA!Idle(r) : r \in {"none", "ok", "err"}}
  BY <1>0 DEF TypeOK, Lebs
<1>2. \A r : EBA!Idle(r).kind = "idle"
  BY DEF EBA!Idle
<1>3. CASE EbaSkip
  <2>1. /\ Running /\ ~ro_mode /\ NothingToDo /\ CallReturned
        /\ leb' = leb /\ req' = req /\ blank' = blank /\ up' = up /\ ro_mode' = ro_mode
    BY <1>3 DEF EbaSkip
  <2>2. up = "up" /\ op.pc # "idle" /\ req \in {EBA!Idle(r) : r \in {"none", "ok", "err"}}
    BY <2>1, <1>1 DEF Running, EBA!Request
  <2>3. /\ ~Writing => leb'[Target] = Unmapped
        /\ op.pc # "twrite" /\ (op.pc = "put" => Payload = <<Blank>>)
    BY <2>1 DEF NothingToDo, Writing
  <2> QED BY <2>1, <2>2, <2>3, <1>1 DEF Effect
<1>4. CASE req.kind # "idle" /\ (EbaReturn \/ EbaError)
  <2>1. /\ req \in EBA!Request /\ up = "up" /\ ~ro_mode /\ op.pc # "idle"
        /\ req.kind \in {"write", "unmap"}
        /\ req.lnum = Target /\ req.base = leb[Target]
        /\ req.arg = IF Writing THEN Payload ELSE <<>>
    BY <1>4, <1>0, <1>1, <1>2 DEF Calling
  <2>2. Target \in Lebs /\ up' = up /\ blank' = blank
    BY <2>1, <1>0, <1>4, TargetType DEF EbaReturn, EbaError
  <2>3. req.arg \in EBA!Content
    BY <2>1, WrittenTiny, TinyIsContent DEF EBA!Request
  <2>4. CASE EbaReturn
    <3>1. /\ leb' = [leb EXCEPT ![Target] = IF Writing THEN Payload ELSE Unmapped]
          /\ req' = EBA!Idle("ok") /\ ro_mode' = ro_mode /\ CallReturned
      BY <2>4, <2>1 DEF EbaReturn
    <3>2. /\ leb'[Target] = IF Writing THEN Payload ELSE Unmapped
          /\ \A l \in Lebs \ {Target} : leb'[l] = leb[l]
          /\ leb' \in [Lebs -> EBA!Content \cup {Unmapped}]
      BY <3>1, <2>1, <2>2, <2>3, <1>1
    <3>3. (op.pc = "twrite" => Writing /\ Payload = <<vtbl>>) /\ (op.pc = "put" => Writing)
      BY DEF Writing, Payload
    <3> QED BY <3>1, <3>2, <3>3, <2>1, <2>2, <1>1, TableContent DEF Effect
  <2>5. CASE EbaError
    <3>1. PICK c \in EBA!Allowed(req) : leb' = [leb EXCEPT ![Target] = c]
      BY <2>5, <2>1 DEF EbaError
    <3>2. /\ c \in EBA!Content \cup {Unmapped}
          /\ c \in [{1} -> Table] => c \in {req.base, req.arg}
      BY <2>1, AllowedContent
    <3>3. /\ leb'[Target] = c
          /\ \A l \in Lebs \ {Target} : leb'[l] = leb[l]
          /\ leb' \in [Lebs -> EBA!Content \cup {Unmapped}]
      BY <3>1, <3>2, <2>2, <1>1
    <3>4. /\ ro_mode' = TRUE /\ req' \in {EBA!Idle(r) : r \in {"none", "ok", "err"}}
          /\ CallReturned \/ CallFailed
      BY <2>5 DEF EbaError
    <3>5. c \in [{1} -> Table] => c = leb[Target] \/ (Writing /\ c = Payload)
      BY <3>2, <2>1, TableContent
    <3> QED BY <3>3, <3>4, <3>5, <2>1, <2>2 DEF Effect
  <2> QED BY <1>4, <2>4, <2>5
<1> QED BY <1>3, <1>4 DEF EbaReturn, EbaError

-----------------------------------------------------------------------------
(* Types and control.                                                       *)

LEMMA MovedControl ==
  ASSUME TypeOK, Control, op.pc # "idle", RamTypes, Moved, up = "up", up' = "up"
  PROVE  Control'
<1>0. /\ op \in Op /\ op.v \in Vol /\ op.cmd \in {"create", "remove", "write"}
      /\ op.cmd \in {"remove", "write"} => vols[op.v] \in Volume
      /\ Len(op.data) \in 0..Ebs /\ 0 \in Lnum
  BY DataLength DEF TypeOK, Control, Op, Lnum
<1> USE DEF Control, AtTable, OpTo, OpEnds, VolTo, OthersKept, SameRam, Stored1
<1>1. CASE ToWrite
  BY <1>0, <1>1 DEF ToWrite
<1>2. CASE ToSecond
  BY <1>0, <1>2 DEF ToSecond
<1>3. CASE Created
  BY <1>0, <1>3 DEF Created
<1>4. CASE ToWipe
  BY <1>0, <1>4 DEF ToWipe
<1>5. CASE SetToWipe
  BY <1>0, <1>5 DEF SetToWipe
<1>6. CASE Cleared
  BY <1>0, <1>6 DEF Cleared
<1>7. CASE ClearAgain
  BY <1>0, <1>7 DEF ClearAgain
<1>8. CASE WipeNext
  BY <1>0, <1>8 DEF WipeNext, Lnum
<1>9. CASE Removed
  BY <1>0, <1>9 DEF Removed
<1>10. CASE ToClear("again") \/ ToClear("clear")
  BY <1>0, <1>10 DEF ToClear
<1>11. CASE ToPut
  BY <1>0, <1>11 DEF ToPut
<1>12. CASE PutNext
  BY <1>0, <1>12 DEF PutNext
<1> QED BY <1>1, <1>2, <1>3, <1>4, <1>5, <1>6, <1>7, <1>8, <1>9, <1>10, <1>11, <1>12 DEF Moved

LEMMA IdleCall == \A r \in {"none", "ok", "err"} :
  /\ EBA!Idle(r).kind = "idle"
  /\ EBA!Idle(r) \in EBA!Request \cup {EBA!Idle(s) : s \in {"none", "ok", "err"}}
  BY DEF EBA!Idle

\* A call and its return.
LEMMA ServedControl ==
  ASSUME CtlInv, Effect, RamTypes, Moved \/ Failing
  PROVE  CtlInv'
<1>0. TypeOK /\ Control /\ Calling
  BY DEF CtlInv
<1>1. TypeOK'
  <2>1. (blank' \in BOOLEAN /\ up' = "up" /\ ro_mode' \in BOOLEAN)
    BY <1>0 DEF TypeOK, Effect
  <2>2. leb' \in [Lebs -> EBA!Content \cup {Unmapped}]
    BY DEF Effect
  <2>3. req' \in EBA!Request \cup {EBA!Idle(r) : r \in {"none", "ok", "err"}}
    BY DEF Effect
  <2> QED BY <2>1, <2>2, <2>3 DEF TypeOK, Lebs, RamTypes
<1>2. Control'
  <2>1. CASE Moved
    BY <2>1, <1>0, MovedControl DEF Effect
  <2>2. CASE Failing
    BY <2>2 DEF Failing, OpEnds, Control, AtTable, Effect
  <2> QED BY <2>1, <2>2
<1>3. req'.kind = "idle"
  BY IdleCall DEF Effect
<1> QED BY <1>1, <1>2, <1>3 DEF CtlInv, Calling

\* A call that is refused, or that finds no memory.
NoEffect == /\ up = "up" /\ op.pc # "idle" /\ req.kind = "idle"
            /\ UNCHANGED <<leb, req, blank, up, ro_mode>>
            /\ ro_mode \/ "nomem" \in Faults
LEMMA NotServed ==
  ASSUME CtlInv, EbaRefused \/ EbaNoMemory
  PROVE  NoEffect /\ RamTypes /\ Failing
<1>1. NoEffect /\ CallFailed
  BY DEF EbaRefused, EbaNoMemory, Running, NoEffect
<1> QED BY <1>1, Failed DEF CtlInv, NoEffect

LEMMA NotServedControl ==
  ASSUME CtlInv, NoEffect, RamTypes, Failing
  PROVE  CtlInv'
  BY DEF CtlInv, TypeOK, RamTypes, Failing, OpEnds, Control, AtTable, Calling, NoEffect

LEMMA EbaCallControl ==
  ASSUME CtlInv, EbaCall
  PROVE  /\ CtlInv' /\ UNCHANGED <<leb, blank, up, vtbl, vols, ro_mode, op>>
         /\ Running /\ ~ro_mode /\ ~NothingToDo
<1>1. /\ UNCHANGED <<leb, blank, up, vtbl, vols, ro_mode, op>>
      /\ Running /\ ~ro_mode /\ ~NothingToDo /\ req' \in EBA!Request
      /\ req' = [kind |-> IF Writing THEN "write" ELSE "unmap", lnum |-> Target,
                 arg |-> IF Writing THEN Payload ELSE <<>>, base |-> leb[Target]]
  BY DEF EbaCall, EBA!Begin
<1>2. Writing' = Writing /\ Target' = Target /\ Payload' = Payload
  BY <1>1 DEF Writing, Target, Payload
<1>3. Calling'
  BY <1>1, <1>2 DEF Calling, Running
<1>4. TypeOK' /\ Control'
  BY <1>1 DEF CtlInv, TypeOK, Control, AtTable, Sane
<1> QED BY <1>1, <1>3, <1>4 DEF CtlInv

DataSets == UNION {[1..n -> Data] : n \in 0..Ebs}
LEMMA NoData == <<>> \in DataSets
<1>1. <<>> \in [1..0 -> Data] /\ 0 \in 0..Ebs
  OBVIOUS
<1> QED BY <1>1 DEF DataSets

\* A command begins.
LEMMA BeginFacts ==
  ASSUME NEW cmd \in {"create", "remove", "write"}, NEW v \in Vol,
         NEW data \in DataSets
  PROVE  /\ Begin(cmd, v, data) \in Op
         /\ Begin(cmd, v, data).cmd = cmd /\ Begin(cmd, v, data).v = v
         /\ Begin(cmd, v, data).data = data /\ Begin(cmd, v, data).i = 0
         /\ [Begin(cmd, v, data) EXCEPT !.pc = "wipe"] \in Op
         /\ [Begin(cmd, v, data) EXCEPT !.pc = "wipe"].pc = "wipe"
         /\ [Begin(cmd, v, data) EXCEPT !.pc = "wipe"].cmd = cmd
         /\ [Begin(cmd, v, data) EXCEPT !.pc = "wipe"].v = v
         /\ [Begin(cmd, v, data) EXCEPT !.pc = "wipe"].i = 0
<1> DEFINE b == Begin(cmd, v, data)
<1>1. Idle("none") \in Op
  BY NoData DEF Idle, Op, DataSets
<1>2. b \in Op
  BY <1>1 DEF Begin, Op, DataSets
<1>3. b.cmd = cmd /\ b.v = v /\ b.data = data /\ b.i = 0
  BY DEF Begin, Idle
<1> HIDE DEF b
<1>4. [b EXCEPT !.pc = "wipe"] \in Op
  BY <1>2 DEF Op
<1>5. /\ [b EXCEPT !.pc = "wipe"].pc = "wipe" /\ [b EXCEPT !.pc = "wipe"].cmd = cmd
      /\ [b EXCEPT !.pc = "wipe"].v = v /\ [b EXCEPT !.pc = "wipe"].i = 0
  BY <1>2, <1>3 DEF Op
<1> QED BY <1>2, <1>3, <1>4, <1>5 DEF b

\* The command that begins, and what it does in RAM at once.
Begins(cmd, v, then) == /\ op'.cmd = cmd /\ op'.v = v /\ op'.pc = "tunmap" /\ op'.i = 0
                        /\ op'.then = then
Marking(v, marker) == /\ \A w \in Vol \ {v} : vols'[w] = vols[w]
                      /\ vols'[v] \in Volume /\ vols'[v].updating = TRUE
                      /\ vols'[v].upd_marker = marker
CreateBegins(v) == /\ ~ro_mode /\ vols[v] = NoVol /\ vols' = vols
                   /\ Begins("create", v, "create")
                   /\ RecTo(v, vtbl'[v]) /\ vtbl'[v] \in Record /\ ~vtbl'[v].upd_marker
RemoveBegins(v) == /\ ~ro_mode /\ vols[v] \in Volume /\ vols' = vols
                   /\ Begins("remove", v, "remove") /\ RecTo(v, NoRec)
WriteBegins(v) == /\ ~ro_mode /\ vols[v] \in Volume /\ ~vols[v].upd_marker
                  /\ Marking(v, FALSE)
                  /\ Begins("write", v, "set") /\ RecTo(v, Marked(vtbl[v], TRUE))
WriteWipes(v) == /\ ~ro_mode /\ vols[v] \in Volume /\ vols[v].upd_marker /\ vtbl' = vtbl
                 /\ Marking(v, TRUE)
                 /\ op'.cmd = "write" /\ op'.v = v /\ op'.pc = "wipe" /\ op'.i = 0
WriteRefused(v) == ro_mode /\ vols[v] \in Volume /\ OpEnds("err") /\ Marking(v, TRUE)
CommandBegins(v) == \/ CreateBegins(v) \/ RemoveBegins(v) \/ WriteBegins(v)
                    \/ WriteWipes(v) \/ WriteRefused(v)

LEMMA UpdateEdit ==
  ASSUME TypeOK, NEW v \in Vol, vols[v] \in Volume
  PROVE  /\ vols' = [vols EXCEPT ![v].updating = TRUE] =>
              Marking(v, vols[v].upd_marker) /\ vols' \in [Vol -> Volume \cup {NoVol}]
         /\ vols' = [vols EXCEPT ![v].updating = TRUE, ![v].upd_marker = TRUE] =>
              Marking(v, TRUE) /\ vols' \in [Vol -> Volume \cup {NoVol}]
<1> USE DEF Volume, TypeOK
<1>1. ASSUME NEW u \in BOOLEAN, vols' = [vols EXCEPT ![v].updating = u]
      PROVE  /\ \A w \in Vol \ {v} : vols'[w] = vols[w]
             /\ vols'[v] \in Volume /\ vols'[v].updating = u
             /\ vols'[v].upd_marker = vols[v].upd_marker
             /\ vols' \in [Vol -> Volume \cup {NoVol}]
  BY <1>1
<1>2. ASSUME NEW u \in BOOLEAN, NEW m \in BOOLEAN,
             vols' = [vols EXCEPT ![v].updating = u, ![v].upd_marker = m]
      PROVE  /\ \A w \in Vol \ {v} : vols'[w] = vols[w]
             /\ vols'[v] \in Volume /\ vols'[v].updating = u
             /\ vols'[v].upd_marker = m
             /\ vols' \in [Vol -> Volume \cup {NoVol}]
  BY <1>2
<1> HIDE DEF Volume, TypeOK
<1> QED BY <1>1, <1>2 DEF Marking

LEMMA CommandFacts ==
  ASSUME TypeOK, Command
  PROVE  /\ Ready /\ RamTypes /\ UNCHANGED <<leb, req, blank, up, ro_mode>>
         /\ \E v \in Vol : CommandBegins(v)
<1>0. vtbl \in Table /\ vols \in [Vol -> Volume \cup {NoVol}] /\ op \in Op
  BY DEF TypeOK
<1>m. ASSUME NEW v \in Vol, vols[v] # NoVol
      PROVE  /\ vols[v] \in Volume /\ vtbl[v] \in Record \cup {NoRec, BadRec}
             /\ vols' = [vols EXCEPT ![v].updating = TRUE] =>
                  Marking(v, vols[v].upd_marker) /\ vols' \in [Vol -> Volume \cup {NoVol}]
             /\ vols' = [vols EXCEPT ![v].updating = TRUE, ![v].upd_marker = TRUE] =>
                  Marking(v, TRUE) /\ vols' \in [Vol -> Volume \cup {NoVol}]
  <2>1. vols[v] \in Volume /\ vtbl[v] \in Record \cup {NoRec, BadRec}
    BY <1>0, <1>m DEF Table
  <2>2. vols' = [vols EXCEPT ![v].updating = TRUE] =>
          Marking(v, vols[v].upd_marker) /\ vols' \in [Vol -> Volume \cup {NoVol}]
    BY <1>0, <2>1, UpdateEdit
  <2>3. vols' = [vols EXCEPT ![v].updating = TRUE, ![v].upd_marker = TRUE] =>
          Marking(v, TRUE) /\ vols' \in [Vol -> Volume \cup {NoVol}]
    BY <1>0, <2>1, UpdateEdit
  <2> QED BY <2>1, <2>2, <2>3
<1>1. ASSUME NEW v \in Vol, NEW type \in {"dynamic", "static"}, CreateVolume(v, type)
      PROVE  Ready /\ RamTypes /\ UNCHANGED <<leb, req, blank, up, ro_mode>> /\ CommandBegins(v)
  <2>1. /\ Ready /\ ~ro_mode /\ vols[v] = NoVol /\ UNCHANGED <<leb, req, blank, up, vols, ro_mode>>
        /\ ChangeVtblRecord(Begin("create", v, <<>>), [type |-> type, upd_marker |-> FALSE], "create")
    BY <1>1 DEF CreateVolume
  <2>2. [type |-> type, upd_marker |-> FALSE] \in Record
    BY DEF Record
  <2>3. op' \in Op /\ vtbl' \in Table /\ RecTo(v, [type |-> type, upd_marker |-> FALSE])
        /\ Begins("create", v, "create")
    <3>1. Begin("create", v, <<>>) \in Op
      BY BeginFacts, NoData
    <3>2. Begin("create", v, <<>>).cmd = "create" /\ Begin("create", v, <<>>).v = v
      BY DEF Begin, Idle
    <3> QED BY <3>1, <3>2, <2>1, <2>2, RecordChanged DEF Begins
  <2> QED BY <2>1, <2>2, <2>3, <1>0 DEF RamTypes, CommandBegins, CreateBegins, RecTo
<1>2. ASSUME NEW v \in Vol, RemoveVol(v)
      PROVE  Ready /\ RamTypes /\ UNCHANGED <<leb, req, blank, up, ro_mode>> /\ CommandBegins(v)
  <2>1. /\ Ready /\ ~ro_mode /\ vols[v] # NoVol /\ UNCHANGED <<leb, req, blank, up, vols, ro_mode>>
        /\ ChangeVtblRecord(Begin("remove", v, <<>>), NoRec, "remove")
    BY <1>2 DEF RemoveVol
  <2>3. op' \in Op /\ vtbl' \in Table /\ RecTo(v, NoRec) /\ Begins("remove", v, "remove")
    <3>1. Begin("remove", v, <<>>) \in Op
      BY BeginFacts, NoData
    <3>2. Begin("remove", v, <<>>).cmd = "remove" /\ Begin("remove", v, <<>>).v = v
      BY DEF Begin, Idle
    <3> QED BY <3>1, <3>2, <2>1, RecordChanged DEF Begins
  <2> QED BY <2>1, <2>3, <1>0, <1>m DEF RamTypes, CommandBegins, RemoveBegins
<1>3. ASSUME NEW v \in Vol, VolumeWriteRefused(v)
      PROVE  Ready /\ RamTypes /\ UNCHANGED <<leb, req, blank, up, ro_mode>> /\ CommandBegins(v)
  <2>1. /\ Ready /\ ro_mode /\ vols[v] # NoVol /\ UNCHANGED <<leb, req, blank, up, ro_mode>>
        /\ vols' = [vols EXCEPT ![v].updating = TRUE, ![v].upd_marker = TRUE]
        /\ vtbl' = IF vols[v].upd_marker THEN vtbl ELSE [vtbl EXCEPT ![v] = Marked(@, TRUE)]
        /\ op' = Idle("err")
    BY <1>3 DEF VolumeWriteRefused
  <2>2. vols[v] \in Volume /\ Marking(v, TRUE) /\ vols' \in [Vol -> Volume \cup {NoVol}]
        /\ Marked(vtbl[v], TRUE) \in Record \cup {NoRec, BadRec}
    BY <2>1, <1>m, MarkedType
  <2>3. vtbl' \in Table
    BY <2>1, <2>2, <1>0 DEF Table
  <2>4. op' \in Op /\ OpEnds("err")
    BY <2>1, <1>0, OpFields DEF OpEnds
  <2> QED BY <2>1, <2>2, <2>3, <2>4 DEF RamTypes, CommandBegins, WriteRefused
<1>4. ASSUME NEW v \in Vol, NEW n \in 0..Ebs, NEW data \in [1..n -> Data], VolumeWrite(v, data)
      PROVE  Ready /\ RamTypes /\ UNCHANGED <<leb, req, blank, up, ro_mode>> /\ CommandBegins(v)
  <2>0. data \in DataSets
    BY DEF DataSets
  <2>1. /\ Ready /\ ~ro_mode /\ vols[v] # NoVol /\ UNCHANGED <<leb, req, blank, up, ro_mode>>
        /\ vols' = [vols EXCEPT ![v].updating = TRUE]
    BY <1>4 DEF VolumeWrite
  <2>2. /\ vols[v] \in Volume /\ Marking(v, vols[v].upd_marker)
        /\ vols' \in [Vol -> Volume \cup {NoVol}] /\ vols[v].upd_marker \in BOOLEAN
        /\ Marked(vtbl[v], TRUE) \in Record \cup {NoRec, BadRec}
    BY <2>1, <1>m, MarkedType DEF Volume
  <2>3. CASE vols[v].upd_marker
    <3>1. op' = [Begin("write", v, data) EXCEPT !.pc = "wipe"] /\ vtbl' = vtbl
      BY <1>4, <2>3 DEF VolumeWrite
    <3>2. op' \in Op /\ op'.cmd = "write" /\ op'.v = v /\ op'.pc = "wipe" /\ op'.i = 0
      BY <3>1, <2>0, BeginFacts
    <3>3. vols[v].upd_marker = TRUE
      BY <2>2, <2>3
    <3> QED BY <3>1, <3>2, <3>3, <2>1, <2>2, <1>0 DEF RamTypes, CommandBegins, WriteWipes
  <2>4. CASE ~vols[v].upd_marker
    <3>1. ChangeVtblRecord(Begin("write", v, data), Marked(vtbl[v], TRUE), "set")
      BY <1>4, <2>4 DEF VolumeWrite
    <3>2. op' \in Op /\ vtbl' \in Table /\ RecTo(v, Marked(vtbl[v], TRUE)) /\ Begins("write", v, "set")
      <4>1. Begin("write", v, data) \in Op
        BY BeginFacts, <2>0
      <4>2. Begin("write", v, data).cmd = "write" /\ Begin("write", v, data).v = v
        BY DEF Begin, Idle
      <4> QED BY <4>1, <4>2, <3>1, <2>2, RecordChanged DEF Begins
    <3>3. vols[v].upd_marker = FALSE
      BY <2>2, <2>4
    <3> QED BY <3>2, <3>3, <2>1, <2>2 DEF RamTypes, CommandBegins, WriteBegins
  <2> QED BY <2>3, <2>4
<1> QED BY <1>1, <1>2, <1>3, <1>4 DEF Command

LEMMA CommandControl ==
  ASSUME CtlInv, Command
  PROVE  CtlInv'
<1>0. TypeOK /\ Control /\ Calling
  BY DEF CtlInv
<1>1. /\ Ready /\ RamTypes /\ leb' = leb /\ req' = req /\ blank' = blank /\ up' = up
      /\ ro_mode' = ro_mode
  BY <1>0, CommandFacts
<1>2. up = "up" /\ op.pc = "idle" /\ req.kind = "idle"
  BY <1>0, <1>1 DEF Ready, Calling
<1>3. TypeOK' /\ Calling'
  BY <1>0, <1>1, <1>2 DEF TypeOK, Calling, RamTypes
<1>4. PICK v \in Vol : CommandBegins(v)
  BY <1>0, CommandFacts
<1>5. Control'
  <2> USE DEF Control, AtTable, OpEnds, Begins, Marking
  <2>0. 0 \in Lnum
    BY DEF Lnum
  <2>1. CASE CreateBegins(v)
    BY <2>1, <1>1, <1>2 DEF CreateBegins
  <2>2. CASE RemoveBegins(v)
    BY <2>2, <1>1, <1>2 DEF RemoveBegins
  <2>3. CASE WriteBegins(v)
    BY <2>3, <1>1, <1>2 DEF WriteBegins
  <2>4. CASE WriteWipes(v)
    BY <2>0, <2>4, <1>1, <1>2 DEF WriteWipes
  <2>5. CASE WriteRefused(v)
    BY <2>5, <1>1, <1>2 DEF WriteRefused
  <2> QED BY <1>4, <2>1, <2>2, <2>3, <2>4, <2>5 DEF CommandBegins
<1> QED BY <1>3, <1>5 DEF CtlInv

-----------------------------------------------------------------------------
(* Attaching and power.                                                     *)

LEMMA FoundType == \A v \in Vol : Found(v) \in 0..Ebs
<1> SUFFICES ASSUME NEW v \in Vol PROVE Found(v) \in 0..Ebs
  OBVIOUS
<1> DEFINE S == {n \in Lnum : leb[<<v, n>>] # Unmapped}
<1>1. IsFiniteSet(Lnum) /\ Cardinality(Lnum) = Ebs
  BY FS_Interval DEF Lnum
<1>2. S \subseteq Lnum
  OBVIOUS
<1>3. IsFiniteSet(S) /\ Cardinality(S) <= Cardinality(Lnum)
  BY <1>1, <1>2, FS_Subset
<1>4. Cardinality(S) \in Nat
  BY <1>3, FS_CardinalityType
<1> QED BY <1>1, <1>3, <1>4 DEF Found

\* The volumes in RAM after init_volumes.
VolsOf(t) == \A v \in Vol :
  IF t[v] = NoRec THEN vols'[v] = NoVol
  ELSE vols'[v] \in Volume /\ vols'[v].upd_marker = t[v].upd_marker /\ vols'[v].updating = FALSE

LEMMA InitVolumesFacts ==
  ASSUME NEW t \in Table, Sane(t), InitVolumes(t)
  PROVE  /\ vols' \in [Vol -> Volume \cup {NoVol}] /\ VolsOf(t)
         /\ up' = "erase" /\ op' = Idle("none")
<1>1. \A v \in Vol : t[v] = NoRec \/ (t[v] \in Record /\ t[v] # NoRec /\ t[v].upd_marker \in BOOLEAN)
  BY DEF Table, Sane, Record
<1>2. vols' = [v \in Vol |->
       IF t[v] = NoRec THEN NoVol
       ELSE [upd_marker |-> t[v].upd_marker, updating |-> FALSE,
             used_ebs |-> CASE t[v].type = "dynamic" -> Ebs
                            [] t[v].type = "static" /\ t[v].upd_marker -> 0
                            [] OTHER -> Found(v)]]
  BY DEF InitVolumes
<1>3. ASSUME NEW v \in Vol
      PROVE  (CASE t[v].type = "dynamic" -> Ebs
                [] t[v].type = "static" /\ t[v].upd_marker -> 0
                [] OTHER -> Found(v)) \in 0..Ebs
  BY FoundType
<1>4. ASSUME NEW v \in Vol
      PROVE  IF t[v] = NoRec THEN vols'[v] = NoVol
             ELSE vols'[v] \in Volume /\ vols'[v].upd_marker = t[v].upd_marker
                  /\ vols'[v].updating = FALSE
  <2>1. PICK n \in 0..Ebs : n = (CASE t[v].type = "dynamic" -> Ebs
                [] t[v].type = "static" /\ t[v].upd_marker -> 0
                [] OTHER -> Found(v))
    BY <1>3
  <2>2. t[v] # NoRec => vols'[v] = [upd_marker |-> t[v].upd_marker, updating |-> FALSE, used_ebs |-> n]
    BY <1>2, <2>1
  <2>3. t[v] # NoRec => t[v].upd_marker \in BOOLEAN
    BY <1>1
  <2>4. t[v] = NoRec => vols'[v] = NoVol
    BY <1>2
  <2>5. \A m, u \in BOOLEAN : LET r == [upd_marker |-> m, updating |-> u, used_ebs |-> n]
                             IN r \in Volume /\ r.upd_marker = m /\ r.updating = u
    BY DEF Volume
  <2>6. CASE t[v] # NoRec
    <3>1. PICK m \in BOOLEAN : m = t[v].upd_marker
      BY <2>3, <2>6
    <3>2. PICK u \in BOOLEAN : u = FALSE
      OBVIOUS
    <3>3. vols'[v] = [upd_marker |-> m, updating |-> u, used_ebs |-> n]
      BY <2>2, <2>6, <3>1, <3>2
    <3> QED BY <2>5, <2>6, <3>1, <3>2, <3>3
  <2> QED BY <2>4, <2>6
<1>5. vols' \in [Vol -> Volume \cup {NoVol}]
  <2>1. vols' = [v \in Vol |-> vols'[v]]
    BY <1>2, Zenon
  <2> QED BY <2>1, <1>4
<1> QED BY <1>4, <1>5 DEF InitVolumes, VolsOf

LEMMA LoseRamControl ==
  ASSUME TypeOK, LoseRam, leb' \in [Lebs -> EBA!Content \cup {Unmapped}]
  PROVE  CtlInv' /\ up' = "down" /\ op'.pc = "idle" /\ op'.cmd = "none" /\ req'.kind = "idle"
         /\ blank' = blank
<1>1. /\ up' = "down" /\ ro_mode' = FALSE /\ vtbl' = NoTable /\ vols' = [v \in Vol |-> NoVol]
      /\ op' = Idle("none") /\ req' = EBA!Idle("none") /\ blank' = blank
  BY DEF LoseRam
<1>2. op' \in Op /\ op'.pc = "idle" /\ op'.cmd = "none"
  BY <1>1, OpFields DEF TypeOK
<1>3. NoTable \in Table
  BY DEF NoTable, Table
<1>4. req' \in EBA!Request \cup {EBA!Idle(r) : r \in {"none", "ok", "err"}} /\ req'.kind = "idle"
  BY <1>1, IdleCall
<1>5. TypeOK'
  BY <1>1, <1>2, <1>3, <1>4 DEF TypeOK, Lebs
<1>6. Control' /\ Calling'
  BY <1>1, <1>2, <1>4 DEF Control, Calling, AtTable
<1> QED BY <1>1, <1>2, <1>4, <1>5, <1>6 DEF CtlInv

\* The volumes are set up, or a copy of the table is about to be written.
SetUp == /\ VolsOf(vtbl') /\ up' = "erase" /\ op'.pc = "idle" /\ op'.cmd = "none"
Restoring(i) == /\ vols' = vols /\ up' = "restore" /\ op'.pc = "idle" /\ op'.cmd = "restore"
                /\ op'.i = i

LEMMA RestoreFacts ==
  ASSUME TypeOK, NEW i \in {0, 1}, Restore(i), vols' = vols
  PROVE  Restoring(i) /\ op' \in Op
<1>1. Idle("none") \in Op /\ Idle("none").pc = "idle"
  BY OpFields DEF TypeOK
<1>2. op' = [Idle("none") EXCEPT !.cmd = "restore", !.i = i] /\ up' = "restore"
  BY DEF Restore
<1>3. op' \in Op
  BY <1>1, <1>2 DEF Op
<1>4. op'.pc = "idle" /\ op'.cmd = "restore" /\ op'.i = i
  BY <1>2 DEF Idle
<1> QED BY <1>2, <1>3, <1>4 DEF Restoring

\* What attaching reads is a table.
LEMMA ChosenFacts ==
  ASSUME Attachable
  PROVE  /\ Chosen \in {0, 1} /\ TableOf(Chosen) \in Table /\ Sane(TableOf(Chosen))
         /\ leb[Copy(Chosen)] = <<TableOf(Chosen)>>
<1>1. Chosen \in {0, 1}
  BY DEF Chosen
<1>2. leb[Copy(Chosen)] \in [{1} -> Table] /\ Sane(TableOf(Chosen))
  BY DEF Attachable, Checked
<1> QED BY <1>1, <1>2, TableContent DEF TableOf

LEMMA AttachTableFacts ==
  ASSUME TypeOK, AttachTable
  PROVE  /\ RamTypes /\ UNCHANGED <<leb, req, blank, ro_mode>> /\ up = "down"
         /\ Attachable /\ vtbl' = TableOf(Chosen) /\ Sane(vtbl')
         /\ \/ leb[Copy(0)] = leb[Copy(1)] /\ SetUp
            \/ Restoring(1 - Chosen)
<1>1. /\ up = "down" /\ Attachable /\ vtbl' = TableOf(Chosen)
      /\ leb' = leb /\ req' = req /\ blank' = blank /\ ro_mode' = ro_mode
  BY DEF AttachTable
<1>2. /\ Chosen \in {0, 1} /\ TableOf(Chosen) \in Table /\ Sane(TableOf(Chosen))
  BY <1>1, ChosenFacts
<1>s. Sane(vtbl')
  BY <1>1, <1>2
<1>3. CASE leb[Copy(0)] = leb[Copy(1)]
  <2>1. InitVolumes(TableOf(Chosen))
    BY <1>3 DEF AttachTable
  <2>2. /\ vols' \in [Vol -> Volume \cup {NoVol}] /\ VolsOf(TableOf(Chosen))
        /\ up' = "erase" /\ op' = Idle("none")
    BY <2>1, <1>2, InitVolumesFacts
  <2>3. op' \in Op /\ op'.pc = "idle" /\ op'.cmd = "none"
    BY <2>2, OpFields DEF TypeOK
  <2>4. VolsOf(vtbl')
    BY <2>2, <1>1 DEF VolsOf
  <2> QED BY <1>1, <1>2, <1>s, <1>3, <2>2, <2>3, <2>4 DEF RamTypes, SetUp
<1>4. CASE leb[Copy(0)] # leb[Copy(1)]
  <2>1. Restore(1 - Chosen) /\ vols' = vols
    BY <1>4 DEF AttachTable
  <2>2. 1 - Chosen \in {0, 1}
    BY <1>2
  <2>3. Restoring(1 - Chosen) /\ op' \in Op
    BY <2>1, <2>2, RestoreFacts
  <2> QED BY <1>1, <1>2, <1>s, <2>1, <2>3 DEF RamTypes, TypeOK
<1> QED BY <1>3, <1>4

LEMMA AttachBlankFacts ==
  ASSUME TypeOK, AttachBlank
  PROVE  /\ RamTypes /\ UNCHANGED <<leb, req, vtbl, ro_mode>> /\ up = "down" /\ blank
         /\ blank' = FALSE /\ Restoring(0)
<1>1. /\ up = "down" /\ blank /\ blank' = FALSE /\ Restore(0)
      /\ leb' = leb /\ req' = req /\ vtbl' = vtbl /\ vols' = vols /\ ro_mode' = ro_mode
  BY DEF AttachBlank
<1>2. Restoring(0) /\ op' \in Op
  BY <1>1, RestoreFacts
<1> QED BY <1>1, <1>2 DEF RamTypes, TypeOK

LEMMA CreateVtblFacts ==
  ASSUME CtlInv, CreateVtbl
  PROVE  /\ RamTypes /\ UNCHANGED <<req, blank, vtbl, ro_mode>> /\ up = "restore"
         /\ op.i \in {0, 1} /\ Copy(op.i) \in Lebs
         /\ leb' = [leb EXCEPT ![Copy(op.i)] = <<vtbl>>]
         /\ leb' \in [Lebs -> EBA!Content \cup {Unmapped}]
         /\ \/ SetUp /\ (op.i = 0 => leb[Copy(1)] = <<vtbl>>)
            \/ Restoring(1) /\ op.i = 0 /\ leb[Copy(1)] # <<vtbl>>
<1>0. TypeOK /\ Control
  BY DEF CtlInv
<1>1. /\ up = "restore" /\ req' = req /\ blank' = blank /\ vtbl' = vtbl /\ ro_mode' = ro_mode
      /\ leb' = [leb EXCEPT ![Copy(op.i)] = <<vtbl>>]
  BY DEF CreateVtbl
<1>2. op.i \in {0, 1} /\ Copy(op.i) \in Lebs /\ vtbl \in Table /\ Sane(vtbl)
  BY <1>0, <1>1 DEF Control, Lebs, TypeOK
<1>3. leb' \in [Lebs -> EBA!Content \cup {Unmapped}]
  <2>1. <<vtbl>> \in EBA!Content /\ leb \in [Lebs -> EBA!Content \cup {Unmapped}]
    BY <1>0, <1>2, TinyIsContent DEF TypeOK, Lebs
  <2> QED BY <2>1, <1>1
<1>4. CASE op.i = 0 /\ leb[Copy(1)] # <<vtbl>>
  <2>1. Restore(1) /\ vols' = vols
    BY <1>4 DEF CreateVtbl
  <2>2. Restoring(1) /\ op' \in Op
    BY <2>1, <1>0, RestoreFacts
  <2> QED BY <1>1, <1>2, <1>3, <1>4, <1>0, <2>1, <2>2 DEF RamTypes, TypeOK
<1>5. CASE ~(op.i = 0 /\ leb[Copy(1)] # <<vtbl>>)
  <2>1. InitVolumes(vtbl)
    BY <1>5 DEF CreateVtbl
  <2>2. /\ vols' \in [Vol -> Volume \cup {NoVol}] /\ VolsOf(vtbl)
        /\ up' = "erase" /\ op' = Idle("none")
    BY <2>1, <1>2, InitVolumesFacts
  <2>3. op' \in Op /\ op'.pc = "idle" /\ op'.cmd = "none"
    BY <2>2, <1>0, OpFields DEF TypeOK
  <2>4. VolsOf(vtbl')
    BY <2>2, <1>1 DEF VolsOf
  <2> QED BY <1>1, <1>2, <1>3, <1>5, <2>2, <2>3, <2>4 DEF RamTypes, SetUp
<1> QED BY <1>4, <1>5

\* What a failed or interrupted create_vtbl leaves.
LEMMA CreateVtblLeftFacts ==
  ASSUME CtlInv, up = "restore", NEW d \in CreateVtblLeft
  PROVE  /\ op.i \in {0, 1} /\ d \in [Lebs -> EBA!Content \cup {Unmapped}]
         /\ \A l \in Lebs \ {Copy(op.i)} : d[l] = leb[l]
         /\ d[Copy(op.i)] \in [{1} -> Table] => d[Copy(op.i)] = <<vtbl>>
<1>1. op.i \in {0, 1} /\ vtbl \in Table /\ leb \in [Lebs -> EBA!Content \cup {Unmapped}]
  BY DEF CtlInv, TypeOK, Control, Lebs
<1>2. PICK c \in EBA!Partial(<<vtbl>>) : d = [leb EXCEPT ![Copy(op.i)] = c]
  BY DEF CreateVtblLeft
<1>3. c \in {<<>>, <<vtbl>>, <<Torn>>} /\ c \in EBA!Content
  BY <1>1, PartialOfOne, TinyIsContent
<1>4. Copy(op.i) \in Lebs
  BY <1>1 DEF Lebs
<1>5. /\ d \in [Lebs -> EBA!Content \cup {Unmapped}]
      /\ \A l \in Lebs \ {Copy(op.i)} : d[l] = leb[l]
      /\ d[Copy(op.i)] = c
  BY <1>1, <1>2, <1>3, <1>4
<1> QED BY <1>1, <1>3, <1>5, TableContent

\* What an interrupted erasure leaves.
LEMMA EraseLeftFacts ==
  ASSUME TypeOK, NEW d \in EraseLeft
  PROVE  /\ d \in [Lebs -> EBA!Content \cup {Unmapped}]
         /\ d[Copy(0)] = leb[Copy(0)] /\ d[Copy(1)] = leb[Copy(1)]
<1>1. leb \in [Lebs -> EBA!Content \cup {Unmapped}]
  BY DEF TypeOK, Lebs
<1>2. PICK l \in Unknown : \E c \in EBA!Scrambled(leb[l]) : d = [leb EXCEPT ![l] = c]
  BY DEF EraseLeft
<1>3. l \in VolLeb /\ l \in Lebs /\ leb[l] \in EBA!Content
  BY <1>1 DEF Unknown, Lebs
<1>4. PICK c \in EBA!Scrambled(leb[l]) : d = [leb EXCEPT ![l] = c]
  BY <1>2
<1>5. c \in EBA!Content
  BY <1>3, <1>4, ScrambledContent
<1>6. Copy(0) \notin VolLeb /\ Copy(1) \notin VolLeb
  BY DEF Copy, VolLeb
<1> QED BY <1>1, <1>3, <1>4, <1>5, <1>6 DEF Lebs

\* What a power cut leaves of a call.
CallCut == /\ up = "up" /\ op.pc # "idle" /\ ~ro_mode /\ Target \in Lebs
           /\ \A l \in Lebs \ {Target} : leb'[l] = leb[l]
           /\ leb'[Target] \in [{1} -> Table] => \/ leb'[Target] = leb[Target]
                                                 \/ Writing /\ leb'[Target] = Payload

LEMMA CutFacts ==
  ASSUME CtlInv, PowerCut
  PROVE  /\ leb' \in [Lebs -> EBA!Content \cup {Unmapped}]
         /\ \/ leb' = leb
            \/ CallCut
            \/ up = "restore" /\ leb' \in CreateVtblLeft
            \/ up = "erase" /\ leb' \in EraseLeft
<1>0. TypeOK /\ Control /\ Calling
  BY DEF CtlInv
<1>1. leb \in [Lebs -> EBA!Content \cup {Unmapped}]
  BY <1>0 DEF TypeOK, Lebs
<1>2. leb' \in {leb} \cup Interrupted
  BY DEF PowerCut
<1>3. CASE leb' = leb
  BY <1>1, <1>3
<1>4. CASE leb' \in Interrupted /\ req.kind # "idle"
  <2>1. /\ req \in EBA!Request /\ up = "up" /\ ~ro_mode /\ op.pc # "idle"
        /\ req.kind \in {"write", "unmap"}
        /\ req.lnum = Target /\ req.base = leb[Target]
        /\ req.arg = IF Writing THEN Payload ELSE <<>>
    BY <1>4, <1>0, IdleCall DEF Calling, TypeOK
  <2>2. Target \in Lebs
    BY <2>1, <1>0, TargetType
  <2>3. leb' \in {[leb EXCEPT ![req.lnum] = c] : c \in EBA!Allowed(req)}
    BY <1>4, <2>1 DEF Interrupted
  <2>4. PICK c \in EBA!Allowed(req) : leb' = [leb EXCEPT ![Target] = c]
    BY <2>1, <2>3
  <2>5. /\ c \in EBA!Content \cup {Unmapped}
        /\ c \in [{1} -> Table] => c \in {req.base, req.arg}
    BY <2>1, AllowedContent
  <2>6. /\ leb'[Target] = c
        /\ \A l \in Lebs \ {Target} : leb'[l] = leb[l]
        /\ leb' \in [Lebs -> EBA!Content \cup {Unmapped}]
    BY <2>4, <2>5, <2>2, <1>1
  <2>7. c \in [{1} -> Table] => c = leb[Target] \/ (Writing /\ c = Payload)
    BY <2>5, <2>1, TableContent
  <2> QED BY <2>1, <2>2, <2>6, <2>7 DEF CallCut
<1>5. CASE leb' \in Interrupted /\ req.kind = "idle"
  <2>1. \/ up = "restore" /\ leb' \in CreateVtblLeft
        \/ up = "erase" /\ leb' \in EraseLeft
    BY <1>5 DEF Interrupted
  <2> QED BY <2>1, <1>0, CreateVtblLeftFacts, EraseLeftFacts
<1> QED BY <1>2, <1>3, <1>4, <1>5

LEMMA PowerControl ==
  ASSUME CtlInv, Reboot \/ PowerCut
  PROVE  CtlInv' /\ up' = "down" /\ op'.pc = "idle" /\ op'.cmd = "none" /\ req'.kind = "idle"
         /\ blank' = blank
<1>1. LoseRam /\ TypeOK
  BY DEF Reboot, PowerCut, CtlInv
<1>2. leb' \in [Lebs -> EBA!Content \cup {Unmapped}]
  BY CutFacts DEF Reboot, CtlInv, TypeOK, Lebs
<1> QED BY <1>1, <1>2, LoseRamControl

\* While attaching, no command and no call is going on.
LEMMA AttachIdle ==
  ASSUME CtlInv, up # "up"
  PROVE  op.pc = "idle" /\ op.cmd \in {"none", "restore"} /\ req.kind = "idle"
  BY DEF CtlInv, Control, Calling

Attaching == \/ AttachTable \/ AttachBlank \/ AttachError \/ CreateVtbl \/ CreateVtblError
             \/ EraseUnknown \/ EraseUnknownError \/ AttachDone

LEMMA EraseFacts ==
  ASSUME CtlInv, EraseUnknown \/ EraseUnknownError
  PROVE  /\ leb' \in [Lebs -> EBA!Content \cup {Unmapped}]
         /\ leb'[Copy(0)] = leb[Copy(0)] /\ leb'[Copy(1)] = leb[Copy(1)]
         /\ up = "erase" /\ UNCHANGED <<req, blank, up, vtbl, vols, op>>
         /\ ro_mode' \in BOOLEAN
<1>0. TypeOK /\ leb \in [Lebs -> EBA!Content \cup {Unmapped}]
  BY DEF CtlInv, TypeOK, Lebs
<1>1. CASE EraseUnknown
  <2>1. PICK l \in Unknown : leb' = [leb EXCEPT ![l] = Unmapped]
    BY <1>1 DEF EraseUnknown
  <2>2. l \in VolLeb /\ l \in Lebs
    BY DEF Unknown, Lebs
  <2>3. Copy(0) \notin VolLeb /\ Copy(1) \notin VolLeb
    BY DEF Copy, VolLeb
  <2>4. /\ leb' \in [Lebs -> EBA!Content \cup {Unmapped}]
        /\ leb'[Copy(0)] = leb[Copy(0)] /\ leb'[Copy(1)] = leb[Copy(1)]
    BY <1>0, <2>1, <2>2, <2>3 DEF Lebs
  <2> QED BY <2>4, <1>0, <1>1 DEF EraseUnknown, TypeOK
<1>2. CASE EraseUnknownError
  <2>1. leb' \in EraseLeft
    BY <1>2 DEF EraseUnknownError
  <2> QED BY <2>1, <1>0, <1>2, EraseLeftFacts DEF EraseUnknownError
<1> QED BY <1>1, <1>2

LEMMA AttachControl ==
  ASSUME CtlInv, Attaching
  PROVE  CtlInv'
<1>0. TypeOK /\ Control /\ Calling
  BY DEF CtlInv
<1>i. up # "up" => op.pc = "idle" /\ op.cmd \in {"none", "restore"} /\ req.kind = "idle"
  BY AttachIdle
<1>n. Sane(NoTable)
  BY MarkersAssumption DEF Sane, NoTable
<1> USE DEF CtlInv, TypeOK, Control, AtTable, Calling, RamTypes
<1>1. CASE AttachTable
  <2>1. /\ RamTypes /\ leb' = leb /\ req' = req /\ blank' = blank /\ ro_mode' = ro_mode
        /\ up = "down" /\ Sane(vtbl') /\ Chosen \in {0, 1} /\ (SetUp \/ Restoring(1 - Chosen))
    BY <1>0, <1>1, AttachTableFacts, ChosenFacts
  <2>2. Sane(vtbl)'
    BY <2>1 DEF Sane
  <2>3. req.kind = "idle" /\ ~ro_mode
    BY <2>1, <1>i, <1>0
  <2> QED BY <2>1, <2>2, <2>3, <1>0 DEF SetUp, Restoring
<1>2. CASE AttachBlank
  <2>1. /\ RamTypes /\ leb' = leb /\ req' = req /\ blank' = FALSE /\ ro_mode' = ro_mode
        /\ up = "down" /\ vtbl' = vtbl /\ Restoring(0)
    BY <1>0, <1>2, AttachBlankFacts
  <2>2. vtbl' = NoTable
    BY <2>1, <1>0
  <2>3. Sane(vtbl)'
    BY <2>2, <1>n DEF Sane
  <2>4. req.kind = "idle" /\ ~ro_mode
    BY <2>1, <1>i, <1>0
  <2> QED BY <2>1, <2>2, <2>3, <2>4, <1>0 DEF Restoring
<1>3. CASE AttachError
  <2>1. /\ up = "down" /\ up' = "failed"
        /\ UNCHANGED <<leb, req, blank, vtbl, vols, ro_mode, op>>
    BY <1>3 DEF AttachError
  <2> QED BY <2>1, <1>0, <1>i
<1>4. CASE CreateVtbl
  <2>1. /\ RamTypes /\ req' = req /\ blank' = blank /\ vtbl' = vtbl /\ ro_mode' = ro_mode
        /\ up = "restore" /\ leb' \in [Lebs -> EBA!Content \cup {Unmapped}]
        /\ SetUp \/ Restoring(1)
    BY <1>4, CreateVtblFacts
  <2>2. Sane(vtbl)'
    BY <2>1, <1>0 DEF Sane
  <2>3. req.kind = "idle" /\ ~ro_mode
    BY <2>1, <1>i, <1>0
  <2> QED BY <2>1, <2>2, <2>3, <1>0 DEF SetUp, Restoring, Lebs
<1>5. CASE CreateVtblError
  <2>1. /\ up = "restore" /\ up' = "failed" /\ op' = Idle("none")
        /\ leb' \in {leb} \cup CreateVtblLeft
        /\ UNCHANGED <<req, blank, vtbl, vols, ro_mode>>
    BY <1>5 DEF CreateVtblError
  <2>2. leb' \in [Lebs -> EBA!Content \cup {Unmapped}]
    BY <2>1, <1>0, CreateVtblLeftFacts DEF Lebs
  <2>3. op' \in Op /\ op'.pc = "idle" /\ op'.cmd = "none"
    BY <2>1, <1>0, OpFields
  <2>4. req.kind = "idle" /\ ~ro_mode
    BY <2>1, <1>i, <1>0
  <2> QED BY <2>1, <2>2, <2>3, <2>4, <1>0 DEF Lebs
<1>6. CASE EraseUnknown \/ EraseUnknownError
  <2>1. /\ leb' \in [Lebs -> EBA!Content \cup {Unmapped}]
        /\ up = "erase" /\ UNCHANGED <<req, blank, up, vtbl, vols, op>>
        /\ ro_mode' \in BOOLEAN
    BY <1>6, EraseFacts
  <2>2. Sane(vtbl)'
    BY <2>1, <1>0 DEF Sane
  <2> QED BY <2>1, <2>2, <1>0, <1>i DEF Lebs
<1>7. CASE AttachDone
  <2>1. /\ up = "erase" /\ up' = "up"
        /\ UNCHANGED <<leb, req, blank, vtbl, vols, ro_mode, op>>
    BY <1>7 DEF AttachDone
  <2> QED BY <2>1, <1>0, <1>i
<1> QED BY <1>1, <1>2, <1>3, <1>4, <1>5, <1>6, <1>7 DEF Attaching

LEMMA CtlInit == Init => CtlInv
<1> SUFFICES ASSUME Init PROVE CtlInv
  OBVIOUS
<1>1. leb \in [Lebs -> EBA!Content \cup {Unmapped}]
  <2>1. NoTable \in Table
    BY DEF NoTable, Table
  <2>2. <<NoTable>> \in EBA!Content
    BY <2>1, TinyIsContent
  <2> QED BY <2>2 DEF Init, Lebs
<1>2. req = EBA!Idle("none") /\ up = "down" /\ ro_mode = FALSE /\ vtbl = NoTable
      /\ vols = [v \in Vol |-> NoVol] /\ op = Idle("none") /\ blank = StartBlank
  BY DEF Init
<1>3. op \in Op /\ op.pc = "idle" /\ op.cmd = "none"
  <2>1. Idle("none") \in Op
    BY NoData DEF Idle, Op, DataSets
  <2> QED BY <2>1, <1>2 DEF Idle
<1>4. vtbl \in Table
  BY <1>2 DEF NoTable, Table
<1>5. TypeOK
  BY <1>1, <1>2, <1>3, <1>4, IdleCall, FaultsAssumption DEF TypeOK, Lebs
<1> QED BY <1>2, <1>3, <1>5, IdleCall DEF CtlInv, Control, Calling, AtTable

LEMMA CtlNext == CtlInv /\ [Next]_vars => CtlInv'
<1> SUFFICES ASSUME CtlInv, [Next]_vars PROVE CtlInv'
  OBVIOUS
<1>1. CASE Command
  BY <1>1, CommandControl
<1>2. CASE EbaSkip \/ EbaReturn \/ EbaError
  <2>1. Effect /\ (CallReturned \/ (CallFailed /\ ro_mode'))
    BY <1>2, CallEffect
  <2>2. RamTypes /\ (Moved \/ Failing)
    BY <2>1, Returned, Failed DEF CtlInv, Effect
  <2> QED BY <2>1, <2>2, ServedControl
<1>3. CASE EbaCall
  BY <1>3, EbaCallControl
<1>4. CASE EbaRefused \/ EbaNoMemory
  BY <1>4, NotServed, NotServedControl
<1>5. CASE Attaching
  BY <1>5, AttachControl
<1>6. CASE Reboot \/ PowerCut
  BY <1>6, PowerControl
<1>7. CASE UNCHANGED vars
  BY <1>7 DEF vars, CtlInv, TypeOK, Control, AtTable, Calling, Sane, Writing, Target, Payload
<1> QED BY <1>1, <1>2, <1>3, <1>4, <1>5, <1>6, <1>7 DEF Next, Program, Attaching

\* The volume table, the volume objects, the command and the call in progress keep their types,
\* for any number of volumes and of LEBs in them, any contents and any faults: no path through
\* the loops of ubi_change_vtbl_record, ubi_start_update and ubi_more_update_data leaves the
\* table or counts a LEB outside the volume.
THEOREM VolumeTypes == Spec => []TypeOK
<1>1. CtlInv => TypeOK
  BY DEF CtlInv
<1> QED BY <1>1, CtlInit, CtlNext, PTL DEF Spec

-----------------------------------------------------------------------------
(* Nothing is left of a removed volume.                                     *)

LEMMA OtherLebs ==
  ASSUME CtlInv, Effect \/ CallCut, NEW v \in Vol, NEW n \in Lnum,
         AtTable \/ v # op.v \/ n # op.i
  PROVE  leb'[<<v, n>>] = leb[<<v, n>>]
<1>1. op.pc # "idle" /\ \A l \in Lebs \ {Target} : leb'[l] = leb[l]
  BY DEF Effect, CallCut
<1>2. <<v, n>> \in Lebs /\ <<v, n>> \in VolLeb
  BY DEF Lebs, VolLeb
<1>3. /\ AtTable => Target = Copy(op.i) /\ op.i \in {0, 1}
      /\ ~AtTable => Target = <<op.v, op.i>>
      /\ Copy(0) \notin VolLeb /\ Copy(1) \notin VolLeb
  BY <1>1, TargetType DEF CtlInv
<1>4. <<v, n>> # Target
  BY <1>2, <1>3
<1> QED BY <1>1, <1>2, <1>4

LEMMA MovedEmpty ==
  ASSUME EmptyInv, Effect, RamTypes, Moved
  PROVE  NoLeftovers' /\ Vacant'
<1>0. /\ TypeOK /\ Control /\ Calling /\ CtlInv /\ NoLeftovers /\ Vacant
  BY DEF EmptyInv, CtlInv
<1>1. /\ up = "up" /\ up' = "up" /\ op.pc # "idle" /\ ~ro_mode /\ op.v \in Vol
      /\ op.cmd \in {"create", "remove", "write"}
      /\ op.cmd \in {"remove", "write"} => vols[op.v] \in Volume /\ vols[op.v] # NoVol
      /\ op.cmd = "create" => AtTable
  BY <1>0, MarkersAssumption DEF Effect, Control, TypeOK, Op, AtTable
<1>2. \A v \in Vol, n \in Lnum : AtTable \/ v # op.v \/ n # op.i => leb'[<<v, n>>] = leb[<<v, n>>]
  BY <1>0, OtherLebs
<1>3. op.cmd = "create" => \A n \in Lnum : leb[<<op.v, n>>] = Unmapped
  BY <1>0, <1>1 DEF NoLeftovers
<1>4. op'.cmd = "create" => op.cmd = "create" /\ op'.v = op.v
  BY <1>1 DEF Moved, ToWrite, ToSecond, Created, ToWipe, SetToWipe, Cleared, ClearAgain, WipeNext,
              Removed, ToClear, ToPut, PutNext, OpTo, OpEnds
<1>5. NoLeftovers'
  <2> SUFFICES ASSUME NEW v \in Vol, op'.cmd = "create", op'.v = v, NEW n \in Lnum
               PROVE  leb'[<<v, n>>] = Unmapped
    BY DEF NoLeftovers, Lnum
  <2> QED BY <1>1, <1>2, <1>3, <1>4
<1>6. ASSUME op.pc = "wipe", op.cmd = "remove", ~ro_mode', NEW n \in Lnum, n <= op.i
      PROVE  leb'[<<op.v, n>>] = Unmapped
  <2>0. op.i \in Lnum
    BY <1>0, <1>6 DEF Control
  <2>1. CASE n < op.i
    <3>1. leb[<<op.v, n>>] = Unmapped /\ n # op.i
      BY <1>0, <1>1, <1>6, <2>1 DEF Vacant, Lnum
    <3> QED BY <3>1, <1>1, <1>2
  <2>2. CASE n = op.i
    <3>1. ~Writing /\ Target = <<op.v, n>>
      BY <1>6, <2>2 DEF Writing, Target
    <3> QED BY <3>1, <1>6 DEF Effect
  <2> QED BY <2>0, <2>1, <2>2, <1>6 DEF Lnum
<1>7. ASSUME op'.cmd = "remove", op'.pc = "wipe", ~ro_mode', NEW n \in Lnum, n < op'.i
      PROVE  leb'[<<op'.v, n>>] = Unmapped
  <2>1. /\ op.pc = "wipe" /\ op.cmd = "remove" /\ op'.v = op.v /\ op'.i = op.i + 1
        /\ op.i \in Lnum
    <3>1. WipeNext \/ op'.i = 0 \/ op'.cmd # "remove" \/ op'.pc # "wipe"
      BY DEF Moved, ToWrite, ToSecond, Created, ToWipe, SetToWipe, Cleared, ClearAgain,
              Removed, ToClear, ToPut, PutNext, OpTo, OpEnds
    <3>2. WipeNext
      BY <3>1, <1>7 DEF Lnum
    <3> QED BY <3>2, <1>7, <1>0 DEF WipeNext, OpTo, Control
  <2> QED BY <2>1, <1>6, <1>7 DEF Lnum
<1>8. ASSUME NEW v \in Vol, ~ro_mode', vols'[v] = NoVol, NEW n \in Lnum
      PROVE  leb'[<<v, n>>] = Unmapped
  <2>1. CASE Removed /\ v = op.v
    <3>1. n <= op.i
      BY <2>1, <1>0 DEF Removed, Lnum, Control
    <3> QED BY <3>1, <2>1, <1>6, <1>8 DEF Removed
  <2>2. CASE ~(Removed /\ v = op.v)
    <3>1. vols[v] = NoVol
      BY <2>2, <1>8, MarkersAssumption
         DEF Moved, ToWrite, ToSecond, Created, ToWipe, SetToWipe, Cleared, ClearAgain, WipeNext,
              Removed, ToClear, ToPut, PutNext, SameRam, VolTo, OthersKept
    <3>2. leb[<<v, n>>] = Unmapped
      BY <3>1, <1>0, <1>1 DEF Vacant, EmptyVol
    <3>3. AtTable \/ v # op.v
      BY <3>1, <1>1
    <3> QED BY <3>2, <3>3, <1>2
  <2> QED BY <2>1, <2>2
<1>9. Vacant'
  <2>1. \A v \in Vol : ~ro_mode' /\ vols'[v] = NoVol => EmptyVol(v)'
    BY <1>8 DEF EmptyVol, Lnum
  <2> QED BY <2>1, <1>1, <1>7 DEF Vacant, Lnum
<1> QED BY <1>5, <1>9

LEMMA EmptyNext ==
  ASSUME EmptyInv, [Next]_vars
  PROVE  EmptyInv'
<1>0. /\ TypeOK /\ Control /\ Calling /\ CtlInv /\ NoLeftovers /\ Vacant
  BY DEF EmptyInv, CtlInv
<1>c. CtlInv'
  BY <1>0, CtlNext
<1> SUFFICES NoLeftovers' /\ Vacant'
  BY <1>c DEF EmptyInv
<1>1. CASE Command
  <2>1. /\ Ready /\ leb' = leb /\ up' = up /\ ro_mode' = ro_mode
        /\ \E v \in Vol : CommandBegins(v)
    BY <1>0, <1>1, CommandFacts
  <2>2. PICK v \in Vol : CommandBegins(v)
    BY <2>1
  <2>3. up = "up" /\ op.cmd \in {"none", "restore"}
    BY <2>1, <1>0 DEF Ready, Control
  <2>4. \A w \in Vol : vols'[w] = NoVol => vols[w] = NoVol
    BY <2>2, MarkersAssumption DEF CommandBegins, CreateBegins, RemoveBegins, WriteBegins, WriteWipes,
                                   WriteRefused, Marking
  <2>5. op'.cmd = "create" => op'.v = v /\ vols[v] = NoVol /\ ~ro_mode
    BY <2>2 DEF CommandBegins, CreateBegins, RemoveBegins, WriteBegins, WriteWipes,
                                   WriteRefused, Begins, OpEnds
  <2>6. op'.cmd = "remove" => op'.pc # "wipe"
    BY <2>2 DEF CommandBegins, CreateBegins, RemoveBegins, WriteBegins, WriteWipes,
                                   WriteRefused, Begins, OpEnds
  <2>7. NoLeftovers'
    BY <2>1, <2>3, <2>5, <1>0 DEF NoLeftovers, Vacant, EmptyVol
  <2>8. Vacant'
    BY <2>1, <2>3, <2>4, <2>6, <1>0 DEF Vacant, EmptyVol
  <2> QED BY <2>7, <2>8
<1>2. CASE EbaSkip \/ EbaReturn \/ EbaError
  <2>1. Effect /\ (CallReturned \/ (CallFailed /\ ro_mode'))
    BY <1>0, <1>2, CallEffect
  <2>2. RamTypes /\ (Moved \/ (Failing /\ ro_mode'))
    BY <2>1, <1>0, Returned, Failed DEF Effect
  <2>3. CASE Moved
    BY <2>1, <2>2, <2>3, MovedEmpty
  <2>4. CASE Failing /\ ro_mode'
    BY <2>1, <2>4 DEF Failing, OpEnds, NoLeftovers, Vacant, Effect
  <2> QED BY <2>2, <2>3, <2>4
<1>3. CASE EbaCall
  <2>1. UNCHANGED <<leb, blank, up, vtbl, vols, ro_mode, op>>
    BY <1>0, <1>3, EbaCallControl
  <2> QED BY <2>1, <1>0 DEF NoLeftovers, Vacant, EmptyVol
<1>4. CASE EbaRefused \/ EbaNoMemory
  <2>1. NoEffect /\ Failing
    BY <1>0, <1>4, NotServed
  <2>2. \A v \in Vol : vols'[v] = NoVol => vols[v] = NoVol
    BY <2>1, MarkersAssumption DEF Failing, FailedVol, VolTo, OthersKept
  <2> QED BY <2>1, <2>2, <1>0 DEF NoEffect, Failing, OpEnds, NoLeftovers, Vacant, EmptyVol
<1>5. CASE Attaching
  <2>0. up # "up" /\ op.cmd \in {"none", "restore"} /\ op.pc = "idle"
    <3>1. up # "up"
      BY <1>5 DEF Attaching, AttachTable, AttachBlank, AttachError, CreateVtbl, CreateVtblError,
              EraseUnknown, EraseUnknownError, AttachDone
    <3> QED BY <3>1, <1>0, AttachIdle
  <2>v. ASSUME SetUp, NEW v \in Vol, vols'[v] = NoVol
        PROVE  vtbl'[v] = NoRec
    BY <2>v, MarkersAssumption DEF SetUp, VolsOf
  <2>1. CASE AttachTable
    <3>1. SetUp \/ Restoring(1 - Chosen)
      BY <1>0, <2>1, AttachTableFacts
    <3> QED BY <3>1, <2>v DEF SetUp, Restoring, NoLeftovers, Vacant
  <2>2. CASE AttachBlank
    <3>1. Restoring(0)
      BY <1>0, <2>2, AttachBlankFacts
    <3> QED BY <3>1 DEF Restoring, NoLeftovers, Vacant
  <2>3. CASE AttachError
    BY <2>0, <2>3 DEF AttachError, NoLeftovers, Vacant
  <2>4. CASE CreateVtbl
    <3>1. SetUp \/ Restoring(1)
      BY <1>0, <2>4, CreateVtblFacts
    <3> QED BY <3>1, <2>v DEF SetUp, Restoring, NoLeftovers, Vacant
  <2>5. CASE CreateVtblError
    BY <2>5 DEF CreateVtblError, Idle, NoLeftovers, Vacant
  <2>6. CASE EraseUnknown \/ EraseUnknownError
    <3>1. up = "erase" /\ UNCHANGED <<up, vtbl, vols, op>>
      BY <1>0, <2>6, EraseFacts
    <3> QED BY <3>1, <2>0, <1>0 DEF NoLeftovers, Vacant
  <2>7. CASE AttachDone
    <3>1. /\ up = "erase" /\ up' = "up" /\ (ro_mode \/ Unknown = {})
          /\ UNCHANGED <<leb, vtbl, vols, ro_mode, op>>
      BY <2>7 DEF AttachDone
    <3>2. ASSUME ~ro_mode, NEW v \in Vol, vols[v] = NoVol, NEW n \in Lnum
          PROVE  leb[<<v, n>>] = Unmapped
      <4>1. vtbl[v] = NoRec
        BY <3>1, <3>2, <1>0 DEF Vacant
      <4>2. <<v, n>> \in VolLeb /\ <<v, n>>[1] = v
        BY DEF VolLeb
      <4> QED BY <4>1, <4>2, <3>1, <3>2 DEF Unknown
    <3> QED BY <3>1, <3>2, <2>0 DEF NoLeftovers, Vacant, EmptyVol
  <2> QED BY <1>5, <2>1, <2>2, <2>3, <2>4, <2>5, <2>6, <2>7 DEF Attaching
<1>6. CASE Reboot \/ PowerCut
  <2>1. up' = "down" /\ op'.cmd = "none"
    BY <1>0, <1>6, PowerControl
  <2> QED BY <2>1 DEF NoLeftovers, Vacant
<1>7. CASE UNCHANGED vars
  BY <1>7, <1>0 DEF vars, NoLeftovers, Vacant, EmptyVol
<1> QED BY <1>1, <1>2, <1>3, <1>4, <1>5, <1>6, <1>7 DEF Next, Program, Attaching

LEMMA EmptyInit == Init => EmptyInv
<1> SUFFICES ASSUME Init PROVE EmptyInv
  OBVIOUS
<1>1. up = "down" /\ op.cmd = "none"
  BY DEF Init, Idle
<1> QED BY <1>1, CtlInit DEF EmptyInv, NoLeftovers, Vacant

\* A volume that is created never contains anything of a removed one that had its ID, wherever
\* the removal was cut off or failed, whatever the scan at the next attach had to erase, and
\* however often a command ran out of memory: for any number of volumes and LEBs.
THEOREM NothingLeft == Spec => []NoLeftovers
<1>1. EmptyInv => NoLeftovers
  BY DEF EmptyInv
<1>2. EmptyInv /\ [Next]_vars => EmptyInv'
  BY EmptyNext
<1> QED BY <1>1, <1>2, EmptyInit, PTL DEF Spec

-----------------------------------------------------------------------------
(* A copy of the table survives, and RAM agrees with it.                    *)

LEMMA TableInvParts == TableInv => /\ EmptyInv /\ CtlInv /\ TypeOK /\ Control /\ Calling
                                   /\ Intact /\ InStep
  BY DEF TableInv, EmptyInv, CtlInv

LEMMA VtblGood == \A t \in Table : \A c : Sane(t) /\ c = <<t>> => c \in [{1} -> Table] /\ Sane(c[1])
  BY TableContent

\* An intact copy 0, or no copy 0 and an intact copy 1.
LEMMA OneSuffices ==
  ASSUME \/ leb'[Copy(0)] \in [{1} -> Table] /\ Sane(leb'[Copy(0)][1])
         \/ /\ leb'[Copy(0)] \notin [{1} -> Table]
            /\ leb'[Copy(1)] \in [{1} -> Table] /\ Sane(leb'[Copy(1)][1])
  PROVE  Attachable'
<1> USE DEF Attachable, Checked, TableOf, Chosen
<1>1. CASE leb'[Copy(0)] \in [{1} -> Table] /\ Sane(leb'[Copy(0)][1])
  <2>1. Chosen' = 0
    BY <1>1
  <2> QED BY <2>1, <1>1
<1>2. CASE /\ leb'[Copy(0)] \notin [{1} -> Table]
           /\ leb'[Copy(1)] \in [{1} -> Table] /\ Sane(leb'[Copy(1)][1])
  <2>1. Chosen' = 1
    BY <1>2
  <2> QED BY <2>1, <1>2
<1> QED BY <1>1, <1>2

LEMMA FirstGood == Attachable /\ Checked(0) => leb[Copy(0)] \in [{1} -> Table] /\ Sane(leb[Copy(0)][1])
  BY DEF Attachable, Checked, Chosen, TableOf

\* The copies of the table after a call.
LEMMA CopiesAfter ==
  ASSUME TableInv, Effect \/ CallCut
  PROVE  /\ ~AtTable \/ op.i = 1 => leb'[Copy(0)] = leb[Copy(0)]
         /\ ~AtTable \/ op.i = 0 => leb'[Copy(1)] = leb[Copy(1)]
         /\ Effect /\ ~ro_mode' /\ op.pc = "twrite" => leb'[Copy(op.i)] = <<vtbl>>
         /\ AtTable /\ leb'[Copy(op.i)] \in [{1} -> Table] =>
              leb'[Copy(op.i)] = leb[Copy(op.i)] \/ leb'[Copy(op.i)] = <<vtbl>>
<1>1. /\ op.pc # "idle" /\ \A l \in Lebs \ {Target} : leb'[l] = leb[l]
      /\ leb'[Target] \in [{1} -> Table] => \/ leb'[Target] = leb[Target]
                                            \/ Writing /\ leb'[Target] = Payload
  BY DEF Effect, CallCut
<1>2. /\ Target \in Lebs
      /\ AtTable => Target = Copy(op.i) /\ op.i \in {0, 1}
      /\ ~AtTable => Target = <<op.v, op.i>> /\ op.v \in Vol /\ op.i \in Lnum
      /\ Copy(0) # Copy(1) /\ Copy(0) \notin VolLeb /\ Copy(1) \notin VolLeb
  BY <1>1, TableInvParts, TargetType
<1>3. ~AtTable => Target # Copy(0) /\ Target # Copy(1)
  BY <1>2 DEF VolLeb
<1>4. AtTable /\ Writing => op.pc = "twrite" /\ Payload = <<vtbl>>
  BY DEF AtTable, Writing, Payload
<1>5. op.pc = "twrite" => AtTable
  BY DEF AtTable
<1>6. Effect /\ ~ro_mode' /\ op.pc = "twrite" => leb'[Target] = <<vtbl>>
  BY DEF Effect
<1>7. Copy(0) \in Lebs /\ Copy(1) \in Lebs
  BY DEF Lebs
<1> QED BY <1>1, <1>2, <1>3, <1>4, <1>5, <1>6, <1>7

\* Whatever a call leaves, also when power is cut, one intact copy is there.
LEMMA CopiesSurvive ==
  ASSUME TableInv, Effect \/ CallCut
  PROVE  Attachable'
<1>0. /\ up = "up" /\ ~ro_mode /\ vtbl \in Table /\ Sane(vtbl) /\ Attachable
      /\ AtTable => op.i \in {0, 1}
  BY TableInvParts DEF Effect, CallCut, Intact, TypeOK, Control
<1>1. CASE ~AtTable \/ op.i = 1
  <2>1. Holds(0) /\ leb'[Copy(0)] = leb[Copy(0)]
    BY <1>0, <1>1, TableInvParts, CopiesAfter DEF Intact
  <2> QED BY <2>1, <1>0, VtblGood, OneSuffices DEF Holds
<1>2. CASE AtTable /\ op.i = 0
  <2>1. Good(1) /\ leb'[Copy(1)] = leb[Copy(1)]
    BY <1>0, <1>2, TableInvParts, CopiesAfter DEF Intact
  <2>2. leb'[Copy(0)] \in [{1} -> Table] => leb'[Copy(0)] = leb[Copy(0)] \/ leb'[Copy(0)] = <<vtbl>>
    BY <1>2, CopiesAfter
  <2>3. leb[Copy(0)] \in [{1} -> Table] => Sane(leb[Copy(0)][1])
    BY <1>0, FirstGood DEF Checked
  <2>4. leb'[Copy(0)] \in [{1} -> Table] => Sane(leb'[Copy(0)][1])
    BY <2>2, <2>3, <1>0, VtblGood
  <2>5. leb'[Copy(1)] \in [{1} -> Table] /\ Sane(leb'[Copy(1)][1])
    BY <2>1 DEF Good, Checked, TableOf
  <2> QED BY <2>4, <2>5, OneSuffices
<1> QED BY <1>0, <1>1, <1>2

LEMMA MarkedSane == \A rec \in Record \cup {NoRec, BadRec} : Marked(rec, FALSE) # BadRec
  BY MarkersAssumption, MarkedType DEF Marked

\* A table in which one record is replaced.
LEMMA StillSane ==
  ASSUME Sane(vtbl), NEW v \in Vol, NEW rec, rec # BadRec, RecTo(v, rec)
  PROVE  Sane(vtbl')
  BY DEF Sane, RecTo

LEMMA MovedIntact ==
  ASSUME TableInv, Effect, RamTypes, Moved
  PROVE  Intact'
<1>0. /\ up = "up" /\ up' = "up" /\ ~ro_mode /\ vtbl \in Table /\ Sane(vtbl) /\ ~blank /\ ~blank'
      /\ AtTable => op.i \in {0, 1}
      /\ op.v \in Vol /\ vtbl[op.v] \in Record \cup {NoRec, BadRec}
      /\ ~AtTable => Holds(0) /\ Holds(1)
      /\ AtTable /\ op.i = 0 => Good(1)
      /\ AtTable /\ op.i = 1 => Holds(0)
  <2>1. up = "up" /\ up' = "up" /\ op.pc # "idle" /\ ~ro_mode /\ blank' = blank
    BY DEF Effect
  <2>2. op.v \in Vol /\ vtbl \in Table /\ (AtTable => op.i \in {0, 1})
    BY <2>1, TableInvParts DEF Control, TypeOK
  <2>3. vtbl[op.v] \in Record \cup {NoRec, BadRec}
    BY <2>2 DEF Table
  <2> QED BY <2>1, <2>2, <2>3, TableInvParts DEF Intact
<1>a. Attachable'
  BY CopiesSurvive
<1> SUFFICES ASSUME ~ro_mode'
             PROVE  /\ Sane(vtbl')
                    /\ ~AtTable' => leb'[Copy(0)] = <<vtbl'>> /\ leb'[Copy(1)] = <<vtbl'>>
                    /\ AtTable' /\ op'.i = 0 => leb'[Copy(1)] \in [{1} -> Table] /\ Sane(leb'[Copy(1)][1])
                    /\ AtTable' /\ op'.i = 1 => leb'[Copy(0)] = <<vtbl'>>
                    /\ op'.pc = "tunmap" /\ op'.i = 0 => leb'[Copy(0)] = leb'[Copy(1)]
  BY <1>0, <1>a DEF Intact, Holds, Good, Checked, TableOf, Sane
<1>1. /\ ~AtTable \/ op.i = 1 => leb'[Copy(0)] = leb[Copy(0)]
      /\ ~AtTable \/ op.i = 0 => leb'[Copy(1)] = leb[Copy(1)]
      /\ op.pc = "twrite" => leb'[Copy(op.i)] = <<vtbl>>
  BY CopiesAfter
<1>2. <<vtbl>> \in [{1} -> Table] /\ Sane(<<vtbl>>[1])
  BY <1>0, VtblGood
<1>3. CASE ToWrite
  BY <1>3, <1>0, <1>1 DEF ToWrite, OpTo, SameRam, AtTable, Holds, Good, Checked, TableOf
<1>4. CASE ToSecond
  BY <1>4, <1>0, <1>1 DEF ToSecond, OpTo, SameRam, AtTable
<1>5. CASE Created \/ ToWipe \/ SetToWipe \/ Cleared
  <2>1. op.pc = "twrite" /\ op.i = 1 /\ vtbl' = vtbl /\ op'.pc \in {"idle", "wipe"}
    BY <1>5 DEF Created, ToWipe, SetToWipe, Cleared, Stored1, OpTo, OpEnds, SameRam
  <2> QED BY <2>1, <1>0, <1>1 DEF AtTable, Holds
<1>6. CASE WipeNext \/ Removed \/ ToPut \/ PutNext
  <2>1. op.pc \in {"wipe", "put"} /\ vtbl' = vtbl /\ op'.pc \in {"idle", "wipe", "put"}
    BY <1>6 DEF WipeNext, Removed, ToPut, PutNext, OpTo, OpEnds, SameRam
  <2> QED BY <2>1, <1>0, <1>1 DEF AtTable, Holds
<1>7. CASE ClearAgain
  <2>1. op.pc = "twrite" /\ op.i = 1 /\ op'.pc = "tunmap" /\ op'.i = 0
    BY <1>7 DEF ClearAgain, Stored1, OpTo
  <2>2. Sane(vtbl')
    BY <1>7, <1>0, MarkedSane, StillSane DEF ClearAgain
  <2>3. leb'[Copy(0)] = <<vtbl>> /\ leb'[Copy(1)] = <<vtbl>>
    BY <2>1, <1>0, <1>1 DEF AtTable, Holds
  <2> QED BY <2>1, <2>2, <2>3, <1>2 DEF AtTable
<1>8. CASE ToClear("again") \/ ToClear("clear")
  <2>1. op.pc \in {"wipe", "put"} /\ op'.pc = "tunmap" /\ op'.i = 0
    BY <1>8 DEF ToClear, OpTo
  <2>2. Sane(vtbl')
    BY <1>8, <1>0, MarkedSane, StillSane DEF ToClear
  <2>3. leb'[Copy(0)] = <<vtbl>> /\ leb'[Copy(1)] = <<vtbl>>
    BY <2>1, <1>0, <1>1 DEF AtTable, Holds
  <2> QED BY <2>1, <2>2, <2>3, <1>2 DEF AtTable
<1> QED BY <1>3, <1>4, <1>5, <1>6, <1>7, <1>8 DEF Moved

LEMMA AgreeKept ==
  ASSUME NEW w \in Vol, Agree(w), vtbl'[w] = vtbl[w], vols'[w] = vols[w]
  PROVE  Agree(w)'
  BY DEF Agree

LEMMA MovedInStep ==
  ASSUME TableInv, Effect, RamTypes, Moved
  PROVE  InStep'
<1>0. /\ up = "up" /\ up' = "up" /\ ~ro_mode /\ op.pc # "idle" /\ op.v \in Vol
      /\ \A w \in Vol : w # op.v => Agree(w)
      /\ Changed /\ op.cmd \in {"create", "remove", "write"}
      /\ op.cmd = "create" => AtTable
      /\ AtTable /\ op.cmd = "write" => op.then \in {"set", "clear", "again"}
  BY TableInvParts DEF Effect, Control, InStep, TypeOK, Op, AtTable
<1>o. ASSUME NEW w \in Vol, w # op.v
      PROVE  Agree(w)'
  <2>1. vtbl'[w] = vtbl[w] /\ vols'[w] = vols[w]
    BY <1>o DEF Moved, ToWrite, ToSecond, Created, ToWipe, SetToWipe, Cleared, ClearAgain, WipeNext,
              Removed, ToClear, ToPut, PutNext, SameRam, VolTo, OthersKept, RecTo
  <2> QED BY <2>1, <1>0, <1>o, AgreeKept
<1>x. PICK x \in Vol : x = op.v
  BY <1>0
<1> SUFFICES IF op'.pc = "idle" THEN Agree(x)' ELSE op'.v = op.v /\ Changed'
  BY <1>0, <1>o, <1>x DEF InStep
<1>t. vtbl[op.v] \in Record \cup {NoRec, BadRec}
  BY <1>0, TableInvParts DEF TypeOK, Table
<1>1. CASE Created
  BY <1>0, <1>x, <1>1, MarkersAssumption DEF Created, OpEnds, VolTo, Agree, Changed, Record
<1>2. CASE Removed
  BY <1>0, <1>x, <1>2 DEF Removed, OpEnds, Agree, Changed
<1>3. CASE Cleared
  BY <1>0, <1>x, <1>3, MarkersAssumption DEF Cleared, Stored1, OpEnds, VolTo, Agree, Changed, Record, AtTable
<1>4. CASE ToWrite \/ ToSecond
  <2>1. /\ op'.cmd = op.cmd /\ op'.v = op.v /\ op'.then = op.then /\ AtTable /\ AtTable'
        /\ vtbl' = vtbl /\ vols' = vols /\ op'.pc # "idle"
    BY <1>4 DEF ToWrite, ToSecond, OpTo, SameRam, AtTable
  <2> QED BY <2>1, <1>0 DEF Changed
<1>5. CASE ToWipe
  BY <1>0, <1>5 DEF ToWipe, OpTo, SameRam, Changed
<1>6. CASE SetToWipe
  BY <1>0, <1>6 DEF SetToWipe, Stored1, OpTo, VolTo, Changed, AtTable
<1>7. CASE WipeNext \/ ToPut \/ PutNext
  <2>1. /\ op'.cmd = op.cmd /\ op'.v = op.v /\ ~AtTable /\ ~AtTable'
        /\ vtbl' = vtbl /\ vols' = vols /\ op'.pc # "idle"
    BY <1>7 DEF WipeNext, ToPut, PutNext, OpTo, SameRam, AtTable
  <2> QED BY <2>1, <1>0 DEF Changed
<1>8. CASE ClearAgain
  <2>1. vtbl[op.v] \in Record
    BY <1>0, <1>8 DEF ClearAgain, Changed
  <2>2. vtbl'[op.v] \in Record /\ ~vtbl'[op.v].upd_marker
    BY <2>1, <1>8, MarkedRecord DEF ClearAgain, RecTo
  <2> QED BY <2>2, <1>8 DEF ClearAgain, Stored1, OpTo, VolTo, Changed, AtTable
<1>9. CASE ToClear("again") \/ ToClear("clear")
  <2>1. vtbl[op.v] \in Record
    BY <1>0, <1>9 DEF ToClear, Changed
  <2>2. vtbl'[op.v] \in Record /\ ~vtbl'[op.v].upd_marker
    BY <2>1, <1>9, MarkedRecord DEF ToClear, RecTo
  <2>3. vols[op.v].updating
    BY <1>0, <1>9 DEF ToClear, Changed, AtTable
  <2> QED BY <2>2, <2>3, <1>9 DEF ToClear, OpTo, VolTo, Changed, AtTable
<1> QED BY <1>1, <1>2, <1>3, <1>4, <1>5, <1>6, <1>7, <1>8, <1>9 DEF Moved

\* A copy that cannot be written again leaves the one it is made from.
LEMMA RestoreSurvives ==
  ASSUME TableInv, up = "restore", leb' \in CreateVtblLeft
  PROVE  Attachable'
<1>0. Sane(vtbl) /\ vtbl \in Table /\ CtlInv /\ leb[Copy(1 - op.i)] = <<vtbl>>
  BY TableInvParts DEF Control, TypeOK, Intact, Holds
<1>1. /\ op.i \in {0, 1}
      /\ \A l \in Lebs \ {Copy(op.i)} : leb'[l] = leb[l]
      /\ leb'[Copy(op.i)] \in [{1} -> Table] => leb'[Copy(op.i)] = <<vtbl>>
  BY <1>0, CreateVtblLeftFacts
<1>2. Copy(0) # Copy(1) /\ Copy(0) \in Lebs /\ Copy(1) \in Lebs
  BY DEF Copy, Lebs
<1>3. CASE op.i = 0
  <2>1. leb'[Copy(1)] = <<vtbl>>
    BY <1>0, <1>1, <1>2, <1>3
  <2> QED BY <2>1, <1>0, <1>1, <1>3, VtblGood, OneSuffices
<1>4. CASE op.i = 1
  <2>1. leb'[Copy(0)] = <<vtbl>>
    BY <1>0, <1>1, <1>2, <1>4
  <2> QED BY <2>1, <1>0, VtblGood, OneSuffices
<1> QED BY <1>1, <1>3, <1>4

LEMMA SameAttachable ==
  ASSUME Attachable, leb'[Copy(0)] = leb[Copy(0)], leb'[Copy(1)] = leb[Copy(1)]
  PROVE  Attachable' /\ Chosen' = Chosen
<1>1. Chosen' = Chosen
  BY DEF Chosen, Checked
<1> QED BY <1>1 DEF Attachable, Checked, TableOf, Chosen

LEMMA CommandTable ==
  ASSUME TableInv, Command
  PROVE  Intact' /\ InStep'
<1>1. /\ Ready /\ leb' = leb /\ blank' = blank /\ up' = up /\ ro_mode' = ro_mode
      /\ vtbl' \in Table
  BY TableInvParts, CommandFacts DEF RamTypes
<1>2. up = "up" /\ op.pc = "idle" /\ ~AtTable
  BY <1>1 DEF Ready, AtTable
<1>a. Attachable' /\ ~blank'
  BY <1>1, TableInvParts, SameAttachable DEF Intact
<1>3. CASE ro_mode
  BY <1>a, <1>1, <1>2, <1>3 DEF Intact, InStep
<1>4. CASE ~ro_mode
  <2>0. /\ Sane(vtbl) /\ leb'[Copy(0)] = <<vtbl>> /\ leb'[Copy(1)] = <<vtbl>>
        /\ \A w \in Vol : Agree(w)
        /\ leb'[Copy(1)] \in [{1} -> Table] /\ Sane(leb'[Copy(1)][1])
    BY <1>1, <1>2, <1>4, TableInvParts, VtblGood DEF Intact, InStep, Holds, TypeOK
  <2>1. PICK v \in Vol : CommandBegins(v)
    BY TableInvParts, CommandFacts
  <2>2. ASSUME op'.pc = "tunmap", op'.i = 0, Sane(vtbl')
        PROVE  Intact'
    BY <2>0, <2>2, <1>a, <1>1, <1>2, <1>4 DEF Intact, AtTable, Good, Checked, TableOf, Sane
  <2>o. ASSUME NEW w \in Vol, w # v
        PROVE  Agree(w)'
    <3>1. vols'[w] = vols[w] /\ vtbl'[w] = vtbl[w]
      BY <2>1, <2>o, <1>4 DEF CommandBegins, CreateBegins, RemoveBegins, WriteBegins, WriteWipes,
                              WriteRefused, Marking, RecTo
    <3> QED BY <3>1, <2>0, AgreeKept
  <2>i. ASSUME op'.pc # "idle", op'.v = v, Changed'
        PROVE  InStep'
    BY <2>i, <2>o, <1>1, <1>2 DEF InStep
  <2>3. CASE CreateBegins(v)
    <3>1. Sane(vtbl')
      BY <2>0, <2>3, StillSane, MarkersAssumption DEF CreateBegins
    <3>2. Changed'
      BY <2>3 DEF CreateBegins, Begins, Changed
    <3> QED BY <3>1, <3>2, <2>2, <2>i, <2>3 DEF CreateBegins, Begins
  <2>4. CASE RemoveBegins(v)
    <3>1. Sane(vtbl')
      BY <2>0, <2>4, StillSane, MarkersAssumption DEF RemoveBegins
    <3>2. Changed'
      BY <2>4 DEF RemoveBegins, Begins, Changed, RecTo
    <3> QED BY <3>1, <3>2, <2>2, <2>i, <2>4 DEF RemoveBegins, Begins
  <2>5. CASE WriteBegins(v)
    <3>1. vtbl[v] \in Record
      BY <2>0, <2>5, MarkersAssumption DEF WriteBegins, Agree
    <3>2. Marked(vtbl[v], TRUE) \in Record /\ Marked(vtbl[v], TRUE).upd_marker
      BY <3>1, MarkedRecord
    <3>3. Sane(vtbl')
      BY <2>0, <2>5, <3>2, StillSane, MarkersAssumption DEF WriteBegins
    <3>4. Changed'
      BY <2>5, <3>2 DEF WriteBegins, Begins, Changed, RecTo, Marking, AtTable
    <3> QED BY <3>3, <3>4, <2>2, <2>i, <2>5 DEF WriteBegins, Begins
  <2>6. CASE WriteWipes(v)
    <3>1. vtbl[v] \in Record /\ vols[v].upd_marker = vtbl[v].upd_marker
      BY <2>0, <2>6, MarkersAssumption DEF WriteWipes, Agree
    <3>2. Changed'
      BY <3>1, <2>6 DEF WriteWipes, Changed, Marking, AtTable
    <3>3. Intact'
      BY <2>0, <2>6, <1>a, <1>1, <1>2, <1>4 DEF Intact, AtTable, Holds, WriteWipes
    <3> QED BY <3>2, <3>3, <2>i, <2>6 DEF WriteWipes
  <2>7. CASE WriteRefused(v)
    BY <2>7, <1>4 DEF WriteRefused
  <2> QED BY <2>1, <2>3, <2>4, <2>5, <2>6, <2>7 DEF CommandBegins
<1> QED BY <1>3, <1>4

LEMMA SetUpAgree ==
  ASSUME vtbl' \in Table, Sane(vtbl'), SetUp
  PROVE  \A v \in Vol : Agree(v)'
  BY MarkersAssumption DEF SetUp, VolsOf, Agree, Table, Sane

LEMMA AttachTableInv ==
  ASSUME TableInv, Attaching
  PROVE  Intact' /\ InStep'
<1>0. CtlInv /\ TypeOK /\ Control /\ Intact /\ InStep /\ Attachable /\ ~blank /\ vtbl \in Table
  BY TableInvParts DEF Intact, TypeOK
<1>c. Copy(0) # Copy(1) /\ Copy(0) \in Lebs /\ Copy(1) \in Lebs
      /\ leb \in [Lebs -> EBA!Content \cup {Unmapped}]
  BY <1>0 DEF Copy, Lebs, TypeOK
<1>1. CASE AttachTable
  <2>1. /\ leb' = leb /\ blank' = blank /\ vtbl' \in Table /\ vtbl' = TableOf(Chosen) /\ Sane(vtbl')
        /\ \/ leb[Copy(0)] = leb[Copy(1)] /\ SetUp
           \/ Restoring(1 - Chosen)
    BY <1>0, <1>1, AttachTableFacts DEF RamTypes
  <2>2. Chosen \in {0, 1} /\ leb[Copy(Chosen)] = <<vtbl'>>
    BY <2>1, <1>0, ChosenFacts
  <2>3. Attachable' /\ ~blank'
    BY <2>1, <1>0, SameAttachable
  <2>4. CASE leb[Copy(0)] = leb[Copy(1)] /\ SetUp
    <3>1. leb'[Copy(0)] = <<vtbl'>> /\ leb'[Copy(1)] = <<vtbl'>>
      BY <2>1, <2>2, <2>4
    <3> QED BY <3>1, <2>3, <2>4, <2>1, SetUpAgree DEF SetUp, Intact, InStep, Holds
  <2>5. CASE Restoring(1 - Chosen)
    <3>1. op'.i = 1 - Chosen /\ up' = "restore"
      BY <2>5 DEF Restoring
    <3>2. 1 - op'.i = Chosen
      BY <3>1, <2>2
    <3>3. leb'[Copy(1 - op'.i)] = <<vtbl'>>
      BY <3>2, <2>1, <2>2
    <3> QED BY <3>1, <3>3, <2>3 DEF Intact, InStep, Holds, Copy
  <2> QED BY <2>1, <2>4, <2>5
<1>2. CASE AttachBlank
  BY <1>0, <1>2 DEF AttachBlank
<1>3. CASE AttachError
  BY <1>0, <1>3 DEF AttachError
<1>4. CASE CreateVtbl
  <2>1. /\ blank' = blank /\ vtbl' = vtbl /\ up = "restore"
        /\ op.i \in {0, 1} /\ leb' = [leb EXCEPT ![Copy(op.i)] = <<vtbl>>]
        /\ SetUp \/ (Restoring(1) /\ op.i = 0 /\ leb[Copy(1)] # <<vtbl>>)
    BY <1>0, <1>4, CreateVtblFacts
  <2>2. leb[Copy(1 - op.i)] = <<vtbl>> /\ Sane(vtbl)
    BY <2>1, <1>0 DEF Intact, Control, Holds
  <2>3. leb'[Copy(0)] = <<vtbl>> /\ leb'[Copy(1)] = <<vtbl>>
    <3>1. CASE op.i = 0
      BY <3>1, <2>1, <2>2, <1>c
    <3>2. CASE op.i = 1
      BY <3>2, <2>1, <2>2, <1>c
    <3> QED BY <2>1, <3>1, <3>2
  <2>4. SetUp
    BY <2>1, <2>2
  <2>5. Attachable' /\ ~blank' /\ Sane(vtbl')
    BY <2>1, <2>2, <2>3, <1>0, VtblGood, OneSuffices
  <2> QED BY <2>1, <2>3, <2>4, <2>5, <1>0, SetUpAgree DEF SetUp, Intact, InStep, Holds
<1>5. CASE CreateVtblError
  <2>1. /\ up = "restore" /\ up' = "failed" /\ blank' = blank /\ leb' \in {leb} \cup CreateVtblLeft
    BY <1>5 DEF CreateVtblError
  <2>2. Attachable'
    BY <2>1, <1>0, RestoreSurvives, SameAttachable
  <2> QED BY <2>1, <2>2, <1>0 DEF Intact, InStep
<1>6. CASE EraseUnknown \/ EraseUnknownError
  <2>1. /\ leb'[Copy(0)] = leb[Copy(0)] /\ leb'[Copy(1)] = leb[Copy(1)]
        /\ up = "erase" /\ UNCHANGED <<req, blank, up, vtbl, vols, op>>
    BY <1>6, <1>0, EraseFacts
  <2>2. Attachable'
    BY <2>1, <1>0, SameAttachable
  <2> QED BY <2>1, <2>2, <1>0 DEF Intact, InStep, Holds, Agree
<1>7. CASE AttachDone
  <2>1. /\ up = "erase" /\ up' = "up"
        /\ UNCHANGED <<leb, blank, vtbl, vols, ro_mode, op>>
    BY <1>7 DEF AttachDone
  <2>2. Attachable' /\ op.pc = "idle" /\ Sane(vtbl)
    BY <2>1, <1>0, SameAttachable, AttachIdle DEF Control
  <2> QED BY <2>1, <2>2, <1>0 DEF Intact, InStep, Holds, Agree, AtTable
<1> QED BY <1>1, <1>2, <1>3, <1>4, <1>5, <1>6, <1>7 DEF Attaching

\* A copy survives every power cut.
LEMMA PowerTable ==
  ASSUME TableInv, Reboot \/ PowerCut
  PROVE  Intact' /\ InStep'
<1>0. CtlInv /\ TypeOK /\ Intact /\ Attachable /\ ~blank
  BY TableInvParts DEF Intact
<1>1. up' = "down" /\ blank' = blank
  BY <1>0, PowerControl
<1>2. CASE Reboot
  <2>1. leb' = leb
    BY <1>2 DEF Reboot
  <2> QED BY <2>1, <1>0, <1>1, SameAttachable DEF Intact, InStep
<1>3. CASE PowerCut
  <2>1. \/ leb' = leb
        \/ CallCut
        \/ up = "restore" /\ leb' \in CreateVtblLeft
        \/ up = "erase" /\ leb' \in EraseLeft
    BY <1>0, <1>3, CutFacts
  <2>2. Attachable'
    BY <2>1, <1>0, SameAttachable, CopiesSurvive, RestoreSurvives, EraseLeftFacts
  <2> QED BY <2>2, <1>0, <1>1 DEF Intact, InStep
<1> QED BY <1>2, <1>3

LEMMA FailedTable ==
  ASSUME TableInv, Failing, up' = up, blank' = blank, ro_mode', up = "up", Attachable'
  PROVE  Intact' /\ InStep'
  BY TableInvParts DEF Intact, InStep

LEMMA TableNext ==
  ASSUME Formatted, TableInv, [Next]_vars
  PROVE  TableInv'
<1>0. EmptyInv /\ CtlInv /\ TypeOK /\ Control /\ Intact /\ InStep /\ Attachable
  BY TableInvParts DEF Intact
<1>c. EmptyInv'
  BY <1>0, EmptyNext
<1> SUFFICES Intact' /\ InStep'
  BY <1>c DEF TableInv
<1>1. CASE Command
  BY <1>1, CommandTable
<1>2. CASE EbaSkip \/ EbaReturn \/ EbaError
  <2>1. Effect /\ (CallReturned \/ (CallFailed /\ ro_mode'))
    BY <1>0, <1>2, CallEffect
  <2>2. RamTypes /\ (Moved \/ (Failing /\ ro_mode'))
    BY <2>1, <1>0, Returned, Failed DEF Effect
  <2>3. CASE Moved
    BY <2>1, <2>2, <2>3, MovedIntact, MovedInStep
  <2>4. CASE Failing /\ ro_mode'
    BY <2>1, <2>4, CopiesSurvive, FailedTable DEF Effect
  <2> QED BY <2>2, <2>3, <2>4
<1>3. CASE EbaCall
  <2>1. leb' = leb /\ blank' = blank /\ up' = up /\ vtbl' = vtbl /\ vols' = vols
        /\ ro_mode' = ro_mode /\ op' = op
    BY <1>0, <1>3, EbaCallControl
  <2>2. Attachable'
    BY <2>1, <1>0, SameAttachable
  <2> QED BY <2>1, <2>2, <1>0 DEF Intact, InStep, Holds, Good, Checked, TableOf, AtTable, Agree,
                                  Changed
<1>4. CASE EbaRefused \/ EbaNoMemory
  <2>1. NoEffect /\ Failing
    BY <1>0, <1>4, NotServed
  <2>2. Attachable' /\ ro_mode' /\ up' = up /\ up = "up" /\ blank' = blank
    BY <2>1, <1>0, SameAttachable DEF NoEffect, Formatted
  <2> QED BY <2>1, <2>2, FailedTable
<1>5. CASE Attaching
  BY <1>5, AttachTableInv
<1>6. CASE Reboot \/ PowerCut
  BY <1>6, PowerTable
<1>7. CASE UNCHANGED vars
  <2>1. leb' = leb /\ blank' = blank /\ up' = up /\ vtbl' = vtbl /\ vols' = vols
        /\ ro_mode' = ro_mode /\ op' = op
    BY <1>7 DEF vars
  <2>2. Attachable'
    BY <2>1, <1>0, SameAttachable
  <2> QED BY <2>1, <2>2, <1>0 DEF Intact, InStep, Holds, Good, Checked, TableOf, AtTable, Agree,
                                  Changed
<1> QED BY <1>1, <1>2, <1>3, <1>4, <1>5, <1>6, <1>7 DEF Next, Program, Attaching

LEMMA TableInit ==
  ASSUME Formatted, Init
  PROVE  TableInv
<1>1. up = "down" /\ ~blank
  BY DEF Init, Formatted
<1>2. leb[Copy(0)] = <<NoTable>>
  <2>1. Copy(0) \notin VolLeb /\ Copy(0) \in VolLeb \cup {Copy(0), Copy(1)}
    BY DEF Copy, VolLeb
  <2> QED BY <2>1 DEF Init, Formatted
<1>3. NoTable \in Table /\ Sane(NoTable)
  BY MarkersAssumption DEF NoTable, Table, Sane
<1>4. leb[Copy(0)] \in [{1} -> Table] /\ Sane(leb[Copy(0)][1])
  BY <1>2, <1>3, VtblGood
<1>5. Attachable
  <2>1. Chosen = 0
    BY <1>4 DEF Chosen, Checked
  <2> QED BY <2>1, <1>4 DEF Attachable, Checked, TableOf
<1> QED BY <1>1, <1>5, EmptyInit DEF TableInv, Intact, InStep

\* Whenever power is cut or the flash fails, while the table changes or while a lost copy is
\* restored from the other, one intact copy remains and it is the one process_lvol takes: for any
\* number of volumes and LEBs, on a device that was formatted and does not run out of memory.
THEOREM TableSurvives == ASSUME Formatted PROVE Spec => []VtblRecoverable
<1>1. TableInv => VtblRecoverable
  BY TableInvParts DEF VtblRecoverable, Intact
<1>2. Init => TableInv
  BY TableInit
<1>3. TableInv /\ [Next]_vars => TableInv'
  BY TableNext
<1> QED BY <1>1, <1>2, <1>3, PTL DEF Spec

\* Between commands of a writable device both copies hold the table in RAM, and every volume
\* object has the marker a reboot would find, whatever commands failed before and wherever power
\* was cut.
THEOREM TableInSync == ASSUME Formatted PROVE Spec => []VtblInSync
<1>1. TableInv => VtblInSync
  <2> SUFFICES ASSUME TableInv, Ready, ~ro_mode
               PROVE  /\ leb[Copy(0)] = <<vtbl>> /\ leb[Copy(1)] = <<vtbl>>
                      /\ \A v \in Vol : IF vtbl[v] = NoRec THEN vols[v] = NoVol
                                        ELSE vols[v].upd_marker = vtbl[v].upd_marker
    BY DEF VtblInSync
  <2> QED BY TableInvParts DEF Ready, Intact, InStep, AtTable, Holds, Agree
<1>2. Init => TableInv
  BY TableInit
<1>3. TableInv /\ [Next]_vars => TableInv'
  BY TableNext
<1> QED BY <1>1, <1>2, <1>3, PTL DEF Spec

-----------------------------------------------------------------------------
(* What can be read is what is stored.                                      *)

LEMMA ReadInvParts == ReadInv => /\ TableInv /\ EmptyInv /\ CtlInv /\ TypeOK /\ Control
                                 /\ Intact /\ InStep /\ Honest
  BY TableInvParts DEF ReadInv

LEMMA ChosenOne == Chosen' \in {0, 1}
  BY DEF Chosen

\* A call that ends leaves the copies of the table free of markers of readable volumes.
LEMMA CleanAfter ==
  ASSUME ReadInv, Effect, NEW v \in Vol, Readable(v)
  PROVE  Clean(leb'[Copy(0)], v) /\ Clean(leb'[Copy(1)], v)
<1>1. /\ up = "up" /\ ~ro_mode /\ vtbl \in Table /\ (AtTable => op.i \in {0, 1})
      /\ ~MarkedIn(vtbl, v) /\ Clean(leb[Copy(0)], v) /\ Clean(leb[Copy(1)], v)
  BY ReadInvParts DEF Effect, Honest, TypeOK, Control
<1>2. Clean(<<vtbl>>, v)
  BY <1>1, TableContent DEF Clean
<1>3. /\ ~AtTable \/ op.i = 1 => leb'[Copy(0)] = leb[Copy(0)]
      /\ ~AtTable \/ op.i = 0 => leb'[Copy(1)] = leb[Copy(1)]
      /\ AtTable /\ leb'[Copy(op.i)] \in [{1} -> Table] =>
              leb'[Copy(op.i)] = leb[Copy(op.i)] \/ leb'[Copy(op.i)] = <<vtbl>>
  BY ReadInvParts, CopiesAfter
<1>4. AtTable => Clean(leb'[Copy(op.i)], v)
  BY <1>1, <1>2, <1>3 DEF Clean
<1> QED BY <1>1, <1>3, <1>4

LEMMA MovedHonest ==
  ASSUME ReadInv, Effect, RamTypes, Moved
  PROVE  Honest'
<1>0. /\ up = "up" /\ up' = "up" /\ ~ro_mode /\ op.pc # "idle" /\ op.v \in Vol /\ vtbl \in Table
      /\ Changed /\ Intact /\ op.cmd \in {"create", "remove", "write"}
      /\ vtbl[op.v] \in Record \cup {NoRec, BadRec}
  BY ReadInvParts DEF Effect, Control, InStep, TypeOK, Op, Table
<1>1. ASSUME op'.cmd = "write"
      PROVE  vols'[op'.v].updating \/ ~vols'[op'.v].upd_marker
  <2>1. op.cmd = "write" /\ op'.v = op.v
    BY <1>1 DEF Moved, ToWrite, ToSecond, Created, ToWipe, SetToWipe, Cleared, ClearAgain, WipeNext,
              Removed, ToClear, ToPut, PutNext, OpTo, OpEnds
  <2>2. vols[op.v].updating \/ (~vols[op.v].upd_marker /\ AtTable /\ op.then = "clear")
    BY <2>1, <1>0 DEF Changed
  <2>3. SetToWipe => vols[op.v].updating
    BY <2>2 DEF SetToWipe
  <2> QED BY <2>1, <2>2, <2>3, <1>1
          DEF Moved, ToWrite, ToSecond, Created, ToWipe, SetToWipe, Cleared, ClearAgain, WipeNext,
              Removed, ToClear, ToPut, PutNext, OpEnds, SameRam, VolTo
<1>2. ASSUME NEW v \in Vol, Readable(v)', ~Readable(v)
      PROVE  v = op.v /\ op.pc = "twrite" /\ op.i = 1 /\ ~MarkedIn(vtbl, v)
             /\ (vtbl' = vtbl \/ vtbl'[v] = Marked(vtbl[v], FALSE))
  <2>1. vols'[v] # NoVol /\ ~vols'[v].updating /\ ~vols'[v].upd_marker
    BY <1>2 DEF Readable
  <2>2. vols'[v] # vols[v]
    BY <2>1, <1>2 DEF Readable
  <2>3. v = op.v
    BY <2>2 DEF Moved, ToWrite, ToSecond, Created, ToWipe, SetToWipe, Cleared, ClearAgain, WipeNext,
              Removed, ToClear, ToPut, PutNext, SameRam, VolTo, OthersKept
  <2>4. ~ToClear("again") /\ ~ToClear("clear")
    <3>1. ToClear("again") \/ ToClear("clear") => /\ ~vols[v].updating /\ ~vols[v].upd_marker
                                                  /\ vols[v] \in Volume /\ vols[v] # NoVol
      BY <2>1, <2>3, <1>0, MarkersAssumption DEF ToClear, VolTo, Changed
    <3> QED BY <3>1, <1>2 DEF Readable
  <2>5. Created \/ Cleared \/ ClearAgain
    BY <2>1, <2>2, <2>3, <2>4 DEF Moved, ToWrite, ToSecond, ToWipe, SetToWipe, WipeNext,
              Removed, ToPut, PutNext, SameRam, VolTo, OthersKept
  <2>6. ~vtbl[op.v].upd_marker
    BY <2>5, <1>0 DEF Created, Cleared, ClearAgain, Stored1, AtTable, Changed
  <2> QED BY <2>3, <2>5, <2>6 DEF Created, Cleared, ClearAgain, Stored1, RecTo, MarkedIn
<1>m. ASSUME NEW v \in Vol, ~MarkedIn(vtbl, v) PROVE ~MarkedIn(vtbl', v)
  <2>1. vtbl'[v] = vtbl[v] \/ vtbl'[v] = Marked(vtbl[v], FALSE)
    BY DEF Moved, ToWrite, ToSecond, Created, ToWipe, SetToWipe, Cleared, ClearAgain, WipeNext,
              Removed, ToClear, ToPut, PutNext, SameRam, RecTo
  <2>2. ~(Marked(vtbl[v], FALSE) \in Record /\ Marked(vtbl[v], FALSE).upd_marker)
    <3>1. CASE vtbl[v] \in Record
      BY <3>1, MarkedRecord
    <3>2. CASE vtbl[v] \notin Record
      <4>1. Marked(vtbl[v], FALSE) = NoRec
        BY <3>2, <1>0 DEF Marked, Table
      <4> QED BY <4>1, MarkersAssumption
    <3> QED BY <3>1, <3>2
  <2> QED BY <2>1, <2>2, <1>m DEF MarkedIn
<1>3. ASSUME NEW v \in Vol, Readable(v)'
      PROVE  /\ Clean(leb'[Copy(Chosen')], v)
             /\ ~ro_mode' => /\ ~MarkedIn(vtbl', v)
                             /\ Clean(leb'[Copy(0)], v) /\ Clean(leb'[Copy(1)], v)
  <2>1. CASE Readable(v)
    <3>1. Clean(leb'[Copy(0)], v) /\ Clean(leb'[Copy(1)], v)
      BY <2>1, CleanAfter
    <3>2. ~MarkedIn(vtbl, v)
      BY <2>1, <1>0, ReadInvParts DEF Honest
    <3> QED BY <3>1, <3>2, <1>m, ChosenOne
  <2>2. CASE ~Readable(v)
    <3>1. v = op.v /\ op.pc = "twrite" /\ op.i = 1 /\ ~MarkedIn(vtbl, v)
      BY <1>2, <1>3, <2>2
    <3>2. leb'[Copy(0)] = <<vtbl>>
      BY <3>1, <1>0, ReadInvParts, CopiesAfter DEF Intact, AtTable, Holds
    <3>3. ~ro_mode' => leb'[Copy(1)] = <<vtbl>>
      BY <3>1, ReadInvParts, CopiesAfter
    <3>4. Chosen' = 0
      BY <3>2, <1>0, TableContent DEF Chosen, Checked
    <3>5. Clean(<<vtbl>>, v)
      BY <3>1, <1>0, TableContent DEF Clean
    <3> QED BY <3>1, <3>2, <3>3, <3>4, <3>5, <1>m
  <2> QED BY <2>1, <2>2
<1> QED BY <1>0, <1>1, <1>3 DEF Honest, Copy, Clean, MarkedIn

LEMMA FailedHonest ==
  ASSUME ReadInv, Failing, op.pc # "idle", up = "up", up' = "up", ro_mode',
         Effect \/ (leb' = leb /\ ro_mode)
  PROVE  Honest'
<1>0. /\ op.v \in Vol /\ Honest /\ op'.cmd = "none" /\ (Effect => ~ro_mode)
  BY ReadInvParts DEF Control, Failing, OpEnds, Effect
<1>1. ASSUME NEW v \in Vol, Readable(v)'
      PROVE  Readable(v)
  <2>1. vols'[v] # NoVol /\ ~vols'[v].updating /\ ~vols'[v].upd_marker
    BY <1>1 DEF Readable
  <2>2. CASE vols'[v] = vols[v]
    BY <2>1, <2>2 DEF Readable
  <2>3. CASE vols'[v] # vols[v]
    <3>1. v = op.v /\ op.cmd = "write" /\ ~vols[op.v].updating
      BY <2>1, <2>3 DEF Failing, FailedVol, VolTo, OthersKept
    <3>2. ~vols[op.v].upd_marker
      BY <3>1, <1>0 DEF Honest
    <3>3. vols[op.v] # NoVol
      BY <3>1, ReadInvParts, MarkersAssumption DEF Control
    <3> QED BY <3>1, <3>2, <3>3 DEF Readable
  <2> QED BY <2>2, <2>3
<1>2. ASSUME NEW v \in Vol, Readable(v)
      PROVE  Clean(leb'[Copy(Chosen')], v)
  <2>1. CASE Effect
    BY <2>1, <1>2, CleanAfter, ChosenOne
  <2>2. CASE leb' = leb
    <3>1. Chosen' = Chosen
      BY <2>2 DEF Chosen, Checked
    <3> QED BY <3>1, <2>2, <1>0, <1>2 DEF Honest
  <2> QED BY <2>1, <2>2
<1> QED BY <1>0, <1>1, <1>2 DEF Honest, Copy, Clean, MarkedIn

LEMMA CommandHonest ==
  ASSUME ReadInv, Command
  PROVE  Honest'
<1>1. /\ Ready /\ leb' = leb /\ up' = up /\ ro_mode' = ro_mode
  BY ReadInvParts, CommandFacts
<1>2. PICK v \in Vol : CommandBegins(v)
  BY ReadInvParts, CommandFacts
<1>3. Chosen' = Chosen
  BY <1>1 DEF Chosen, Checked
<1>4. op'.cmd = "write" => vols'[op'.v].updating
  BY <1>2 DEF CommandBegins, CreateBegins, RemoveBegins, WriteBegins, WriteWipes,
              WriteRefused, Begins, OpEnds, Marking
<1>5. ASSUME NEW w \in Vol, Readable(w)'
      PROVE  Readable(w) /\ (~ro_mode => vtbl'[w] = vtbl[w] \/ vtbl'[w] = NoRec)
  <2>1. CASE w = v
    BY <1>2, <1>5, <2>1 DEF CommandBegins, CreateBegins, RemoveBegins, WriteBegins, WriteWipes,
              WriteRefused, Begins, OpEnds, Marking, Readable, RecTo
  <2>2. CASE w # v
    BY <1>2, <1>5, <2>2 DEF CommandBegins, CreateBegins, RemoveBegins, WriteBegins, WriteWipes,
              WriteRefused, Begins, OpEnds, Marking, Readable, RecTo
  <2> QED BY <2>1, <2>2
<1>6. ASSUME NEW w \in Vol, Readable(w)', ~ro_mode
      PROVE  ~MarkedIn(vtbl', w)
  BY <1>1, <1>5, <1>6, ReadInvParts, MarkersAssumption DEF Ready, Honest, MarkedIn
<1> QED BY <1>1, <1>3, <1>4, <1>5, <1>6, ReadInvParts DEF Ready, Honest, Copy, Clean, MarkedIn

LEMMA AttachHonest ==
  ASSUME ReadInv, Attaching
  PROVE  Honest'
<1>0. CtlInv /\ TypeOK /\ Intact /\ InStep /\ vtbl \in Table
  BY ReadInvParts DEF TypeOK
<1>1. CASE up' # "up"
  BY <1>1 DEF Honest
<1>2. CASE AttachDone
  <2>1. /\ up = "erase" /\ UNCHANGED <<leb, blank, vtbl, vols, ro_mode, op>>
    BY <1>2 DEF AttachDone
  <2>2. leb[Copy(0)] = <<vtbl>> /\ leb[Copy(1)] = <<vtbl>> /\ \A v \in Vol : Agree(v)
    BY <2>1, <1>0 DEF Intact, InStep, Holds
  <2>3. op'.cmd # "write"
    BY <2>1, <1>0, AttachIdle
  <2>4. ASSUME NEW v \in Vol, Readable(v)'
        PROVE  ~MarkedIn(vtbl', v) /\ Clean(<<vtbl>>, v)
    <3>1. ~MarkedIn(vtbl, v)
      BY <2>1, <2>2, <2>4 DEF Readable, Agree, MarkedIn
    <3> QED BY <3>1, <2>1, <1>0, TableContent DEF Clean
  <2>5. leb'[Copy(Chosen')] = <<vtbl>>
    BY <2>1, <2>2, ChosenOne
  <2> QED BY <2>1, <2>2, <2>3, <2>4, <2>5 DEF Honest, Copy, Clean, MarkedIn
<1>3. up' # "up" \/ AttachDone
  <2>1. CASE AttachTable
    BY <2>1, <1>0, AttachTableFacts DEF SetUp, Restoring
  <2>2. CASE AttachBlank
    BY <2>2, <1>0, AttachBlankFacts DEF Restoring
  <2>3. CASE CreateVtbl
    BY <2>3, <1>0, CreateVtblFacts DEF SetUp, Restoring
  <2>4. CASE AttachError \/ CreateVtblError \/ EraseUnknown \/ EraseUnknownError
    BY <2>4 DEF AttachError, CreateVtblError, EraseUnknown, EraseUnknownError
  <2> QED BY <2>1, <2>2, <2>3, <2>4 DEF Attaching
<1> QED BY <1>1, <1>2, <1>3

LEMMA ReadNext ==
  ASSUME Formatted, ReadInv, [Next]_vars
  PROVE  ReadInv'
<1>0. TableInv /\ CtlInv /\ TypeOK /\ Control /\ Honest
  BY ReadInvParts
<1>c. TableInv'
  BY <1>0, TableNext
<1> SUFFICES Honest'
  BY <1>c DEF ReadInv
<1>1. CASE Command
  BY <1>1, CommandHonest
<1>2. CASE EbaSkip \/ EbaReturn \/ EbaError
  <2>1. Effect /\ (CallReturned \/ (CallFailed /\ ro_mode'))
    BY <1>0, <1>2, CallEffect
  <2>2. RamTypes /\ (Moved \/ (Failing /\ ro_mode'))
    BY <2>1, <1>0, Returned, Failed DEF Effect
  <2> QED BY <2>1, <2>2, MovedHonest, FailedHonest DEF Effect
<1>3. CASE EbaCall \/ UNCHANGED vars
  <2>1. leb' = leb /\ up' = up /\ vtbl' = vtbl /\ vols' = vols /\ ro_mode' = ro_mode /\ op' = op
    BY <1>0, <1>3, EbaCallControl DEF vars
  <2>2. Chosen' = Chosen
    BY <2>1 DEF Chosen, Checked
  <2> QED BY <2>1, <2>2, <1>0 DEF Honest, Readable, Copy, Clean, MarkedIn
<1>4. CASE EbaRefused \/ EbaNoMemory
  <2>1. NoEffect /\ Failing
    BY <1>0, <1>4, NotServed
  <2> QED BY <2>1, FailedHonest DEF NoEffect, Formatted
<1>5. CASE Attaching
  BY <1>5, AttachHonest
<1>6. CASE Reboot \/ PowerCut
  <2>1. up' = "down"
    BY <1>0, <1>6, PowerControl
  <2> QED BY <2>1 DEF Honest
<1> QED BY <1>1, <1>2, <1>3, <1>4, <1>5, <1>6 DEF Next, Program, Attaching

LEMMA VisibleType == \A c \in EBA!Content \cup {Unmapped} : Visible(c) \in Data \cup Table \cup {Torn}
<1> SUFFICES ASSUME NEW c \in EBA!Content, c # <<>>, c # Unmapped
             PROVE  c[1] \in Data \cup Table \cup {Torn}
  BY DataAssumption DEF Visible
<1>1. Len(c) \in Nat /\ Len(c) # 0 /\ c \in [1..Len(c) -> Data \cup Table \cup {Torn}]
  BY DEF EBA!Content
<1> QED BY <1>1

LEMMA HonestReads == ReadInv => ReadIsStored
<1> SUFFICES ASSUME ReadInv, NEW v \in Vol, Ready, Readable(v), Stored(v) # Absent
             PROVE  /\ Stored(v) # Damaged
                    /\ \A n \in DOMAIN VolumeRead(v) : Visible(VolumeRead(v)[n]) = Stored(v)[n]
  BY DEF ReadIsStored
<1>1. /\ up = "up" /\ Attachable /\ Clean(leb[Copy(Chosen)], v)
      /\ leb \in [Lebs -> EBA!Content \cup {Unmapped}]
      /\ vols[v] \in Volume
  BY ReadInvParts DEF Ready, Intact, Honest, TypeOK, Lebs, Readable
<1>2. /\ DurableTable = TableOf(Chosen) /\ TableOf(Chosen) \in Table /\ Sane(TableOf(Chosen))
      /\ ~MarkedIn(TableOf(Chosen), v)
  BY <1>1, ChosenFacts, TableContent DEF DurableTable, Clean, TableOf
<1>3. DurableTable[v] # NoRec
  BY DEF Stored
<1>4. DurableTable[v] \in Record /\ ~DurableTable[v].upd_marker
  BY <1>2, <1>3 DEF Table, Sane, MarkedIn
<1>5. Stored(v) = [n \in Lnum |-> Visible(leb[<<v, n>>])]
  BY <1>3, <1>4 DEF Stored
<1>6. Stored(v) # Damaged
  <2>1. \A n \in Lnum : Visible(leb[<<v, n>>]) \in Data \cup Table \cup {Torn}
    <3>1. \A n \in Lnum : <<v, n>> \in Lebs
      BY DEF Lebs, VolLeb
    <3> QED BY <3>1, <1>1, VisibleType
  <2>2. Stored(v) \in [Lnum -> Data \cup Table \cup {Torn}]
    BY <2>1, <1>5
  <2> QED BY <2>2, MarkersAssumption
<1>7. ASSUME NEW n \in DOMAIN VolumeRead(v)
      PROVE  Visible(VolumeRead(v)[n]) = Stored(v)[n]
  <2>1. vols[v].used_ebs \in 0..Ebs
    BY <1>1 DEF Volume
  <2>2. n \in Lnum /\ VolumeRead(v)[n] = leb[<<v, n>>]
    BY <1>7, <2>1 DEF VolumeRead, Lnum
  <2> QED BY <2>2, <1>5
<1> QED BY <1>6, <1>7

\* Between commands, read-only mode included, a read that reports success gives what is stored:
\* never the data of a damaged volume, although a command that failed half way left RAM and flash
\* different.  For any number of volumes and LEBs and any history of commands, faults and cuts.
THEOREM ReadsAreStored == ASSUME Formatted PROVE Spec => []ReadIsStored
<1>1. ReadInv => ReadIsStored
  BY HonestReads
<1>2. Init => ReadInv
  <2> SUFFICES ASSUME Init PROVE ReadInv
    OBVIOUS
  <2>1. up = "down"
    BY DEF Init
  <2> QED BY <2>1, TableInit DEF ReadInv, Honest
<1>3. ReadInv /\ [Next]_vars => ReadInv'
  BY ReadNext
<1> QED BY <1>1, <1>2, <1>3, PTL DEF Spec

-----------------------------------------------------------------------------
(* The refinement of VolStore.                                              *)

LEMMA StoreInvParts == StoreInv => /\ TableInv /\ EmptyInv /\ CtlInv /\ TypeOK /\ Control
                                   /\ Intact /\ InStep /\ Progressed
  BY TableInvParts DEF StoreInv

LEMMA VisibleOf ==
  /\ Visible(Unmapped) = Blank
  /\ \A x \in Data \cup Table : Visible(<<x>>) = x
<1>1. Visible(Unmapped) = Blank
  BY DEF Visible
<1>2. ASSUME NEW x \in Data \cup Table PROVE Visible(<<x>>) = x
  <2>1. <<x>> \in EBA!Content
    BY TinyIsContent
  <2>2. <<x>> # Unmapped
    BY <2>1, MarkersAssumption
  <2>3. <<x>> # <<>> /\ <<x>>[1] = x
    OBVIOUS
  <2> QED BY <2>2, <2>3 DEF Visible
<1> QED BY <1>1, <1>2

\* The LEBs of a volume after one more of them is un-mapped or written.
LEMMA LebsAfter ==
  ASSUME StoreInv, Effect, ~ro_mode'
  PROVE  /\ op.cmd = "write" /\ op.pc = "wipe" =>
              \A n \in Lnum : n <= op.i => leb'[<<op.v, n>>] = Unmapped
         /\ op.pc = "put" =>
              \A n \in Lnum : IF n <= op.i THEN Visible(leb'[<<op.v, n>>]) = op.data[n + 1]
                              ELSE leb'[<<op.v, n>>] = Unmapped
<1>0. /\ up = "up" /\ ~ro_mode /\ op.pc # "idle" /\ op.v \in Vol
      /\ ~Writing => leb'[Target] = Unmapped
      /\ op.pc = "put" => \/ leb'[Target] = Payload
                          \/ Payload = <<Blank>> /\ leb'[Target] = leb[Target]
  BY StoreInvParts DEF Effect, Control
<1>1. /\ ~AtTable => Target = <<op.v, op.i>> /\ op.i \in Lnum
  BY <1>0, StoreInvParts, TargetType
<1>2. \A n \in Lnum : n # op.i => leb'[<<op.v, n>>] = leb[<<op.v, n>>]
  BY <1>0, StoreInvParts, OtherLebs
<1>3. CASE op.cmd = "write" /\ op.pc = "wipe"
  <2>1. Wiping /\ op.i \in Lnum /\ leb'[<<op.v, op.i>>] = Unmapped
    BY <1>0, <1>1, <1>3, StoreInvParts DEF Progressed, AtTable, Writing
  <2> QED BY <2>1, <1>2, <1>3 DEF Wiping, Lnum
<1>4. CASE op.pc = "put"
  <2>1. Putting /\ op.i \in Lnum /\ Target = <<op.v, op.i>> /\ op.i < Len(op.data)
    BY <1>0, <1>1, <1>4, StoreInvParts DEF Progressed, AtTable, Control
  <2>2. op.data[op.i + 1] \in Data
    <3>1. PICK m \in 0..Ebs : op.data \in [1..m -> Data]
      BY StoreInvParts DEF TypeOK, Op
    <3>2. Len(op.data) = m
      BY <3>1
    <3>3. op.i + 1 \in 1..m
      BY <2>1, <3>2 DEF Lnum
    <3> QED BY <3>1, <3>3
  <2>3. PICK x \in Data : x = op.data[op.i + 1]
    BY <2>2
  <2>4. Payload = <<x>> /\ Visible(<<x>>) = x /\ leb[<<op.v, op.i>>] = Unmapped
    BY <2>1, <2>3, <1>4, VisibleOf DEF Payload, Putting, Lnum
  <2>5. Visible(leb'[<<op.v, op.i>>]) = x
    <3>1. CASE leb'[Target] = Payload
      BY <3>1, <2>1, <2>4
    <3>2. CASE Payload = <<Blank>> /\ leb'[Target] = leb[Target]
      <4>1. x = Blank
        BY <3>2, <2>4
      <4> QED BY <4>1, <3>2, <2>1, <2>4, VisibleOf
    <3> QED BY <3>1, <3>2, <1>0, <1>4
  <2>6. ASSUME NEW n \in Lnum
        PROVE  IF n <= op.i THEN Visible(leb'[<<op.v, n>>]) = op.data[n + 1]
               ELSE leb'[<<op.v, n>>] = Unmapped
    <3>1. CASE n = op.i
      BY <3>1, <2>1, <2>3, <2>5 DEF Lnum
    <3>2. CASE n # op.i
      <4>1. n <= op.i <=> n < op.i
        BY <3>2, <2>1 DEF Lnum
      <4> QED BY <4>1, <3>2, <1>2, <2>1 DEF Putting
    <3> QED BY <3>1, <3>2
  <2> QED BY <2>6, <1>4
<1> QED BY <1>3, <1>4

LEMMA ArgumentOf ==
  ASSUME NEW data, NEW n \in Lnum
  PROVE  Argument(data)[n] = IF n < Len(data) THEN data[n + 1] ELSE Blank
  BY DEF Argument

LEMMA MovedProgress ==
  ASSUME StoreInv, Effect, RamTypes, Moved
  PROVE  Progressed'
<1>0. /\ up = "up" /\ up' = "up" /\ ~ro_mode /\ op.pc # "idle" /\ op.v \in Vol /\ vtbl \in Table
      /\ Changed /\ Intact /\ (AtTable => op.i \in {0, 1})
      /\ AtTable /\ op.i = 0 => Before
      /\ AtTable /\ op.then \in {"clear", "again"} => Complete
  BY StoreInvParts DEF Effect, Control, InStep, TypeOK, Progressed
<1> SUFFICES ASSUME ~ro_mode'
             PROVE  /\ AtTable' /\ op'.i = 0 => Before'
                    /\ op'.cmd = "write" /\ op'.pc = "wipe" => Wiping'
                    /\ op'.pc = "put" => Putting'
                    /\ AtTable' /\ op'.then \in {"clear", "again"} => Complete'
  BY <1>0 DEF Progressed
<1>1. /\ ~AtTable \/ op.i = 1 => leb'[Copy(0)] = leb[Copy(0)]
      /\ ~AtTable \/ op.i = 0 => leb'[Copy(1)] = leb[Copy(1)]
      /\ op.pc = "twrite" => leb'[Copy(op.i)] = <<vtbl>>
  BY StoreInvParts, CopiesAfter
<1>2. AtTable => \A n \in Lnum : leb'[<<op.v, n>>] = leb[<<op.v, n>>]
  BY <1>0, StoreInvParts, OtherLebs
<1>3. AtTable /\ op'.v = op.v /\ op'.data = op.data /\ Complete => Complete'
  BY <1>2 DEF Complete
<1>t. <<vtbl>>[1] = vtbl
  OBVIOUS
<1>b. ASSUME leb'[Copy(0)] = <<vtbl>>, leb'[Copy(1)] = <<vtbl>>, op'.v = op.v,
             \A w \in Vol \ {op.v} : vtbl'[w] = vtbl[w], vtbl[op.v] # NoRec
      PROVE  Before'
  BY <1>b, <1>t DEF Before, TableOf
<1>4. CASE ToWrite
  <2>1. /\ op.pc = "tunmap" /\ op'.v = op.v /\ op'.data = op.data /\ op'.i = op.i
        /\ op'.then = op.then /\ vtbl' = vtbl /\ op'.pc = "twrite"
    BY <1>4 DEF ToWrite, OpTo, SameRam
  <2>2. ASSUME op.i = 0 PROVE Before'
    <3>1. leb'[Copy(0)] = Unmapped
      <4>1. Target = Copy(0) /\ ~Writing
        BY <2>1, <2>2 DEF Target, Writing
      <4> QED BY <4>1 DEF Effect
    <3>2. Before /\ leb'[Copy(1)] = leb[Copy(1)]
      BY <1>0, <1>1, <2>1, <2>2 DEF AtTable
    <3> QED BY <3>1, <3>2, <2>1 DEF Before, TableOf
  <2> QED BY <2>1, <2>2, <1>0, <1>3 DEF AtTable
<1>5. CASE ToSecond
  <2>1. /\ op.pc = "twrite" /\ op'.v = op.v /\ op'.data = op.data /\ op'.i = 1
        /\ op'.then = op.then /\ op'.pc = "tunmap"
    BY <1>5 DEF ToSecond, OpTo
  <2> QED BY <2>1, <1>0, <1>3 DEF AtTable
<1>6. CASE Created \/ Removed \/ Cleared
  BY <1>6 DEF Created, Removed, Cleared, OpEnds, AtTable
<1>7. CASE ToWipe \/ SetToWipe
  <2>1. op'.pc = "wipe" /\ op'.i = 0
    BY <1>7 DEF ToWipe, SetToWipe, OpTo
  <2> QED BY <2>1 DEF AtTable, Wiping, Lnum
<1>8. CASE ClearAgain
  <2>1. /\ op.pc = "twrite" /\ op.i = 1 /\ op.then = "again" /\ op'.v = op.v /\ op'.data = op.data
        /\ op'.pc = "tunmap" /\ vtbl[op.v] \in Record /\ \A w \in Vol \ {op.v} : vtbl'[w] = vtbl[w]
    BY <1>8, <1>0 DEF ClearAgain, Stored1, OpTo, RecTo, Changed
  <2>2. leb'[Copy(0)] = <<vtbl>> /\ leb'[Copy(1)] = <<vtbl>>
    BY <2>1, <1>0, <1>1 DEF AtTable, Intact, Holds
  <2>3. Before'
    BY <2>1, <2>2, <1>b, MarkersAssumption
  <2> QED BY <2>1, <2>3, <1>0, <1>3 DEF AtTable
<1>9. CASE WipeNext
  <2>1. op.pc = "wipe" /\ op'.pc = "wipe" /\ op'.i = op.i + 1 /\ op'.v = op.v /\ op'.cmd = op.cmd
        /\ op.i \in Lnum
    BY <1>9, StoreInvParts DEF WipeNext, OpTo, Control
  <2>2. op.cmd = "write" => \A n \in Lnum : n <= op.i => leb'[<<op.v, n>>] = Unmapped
    BY <2>1, LebsAfter
  <2>3. op.cmd = "write" => Wiping'
    BY <2>1, <2>2 DEF Wiping, Lnum
  <2> QED BY <2>1, <2>3 DEF AtTable
<1>10. CASE ToPut
  <2>1. op.pc = "wipe" /\ op.cmd = "write" /\ op.i + 1 = Ebs /\ op'.pc = "put" /\ op'.i = 0 /\ op'.v = op.v
        /\ op.i \in Lnum
    BY <1>10, StoreInvParts DEF ToPut, OpTo, Control
  <2>2. \A n \in Lnum : leb'[<<op.v, n>>] = Unmapped
    BY <2>1, LebsAfter DEF Lnum
  <2>3. Putting'
    BY <2>1, <2>2 DEF Putting, Lnum
  <2> QED BY <2>1, <2>3 DEF AtTable
<1>11. CASE PutNext
  <2>1. op.pc = "put" /\ op'.pc = "put" /\ op'.i = op.i + 1 /\ op'.v = op.v /\ op'.data = op.data
        /\ op.i \in Lnum
    BY <1>11, <1>0, StoreInvParts, TargetType DEF PutNext, OpTo, AtTable
  <2>2. \A n \in Lnum : IF n <= op.i THEN Visible(leb'[<<op.v, n>>]) = op.data[n + 1]
                        ELSE leb'[<<op.v, n>>] = Unmapped
    BY <2>1, LebsAfter
  <2>3. \A n \in Lnum : n <= op.i <=> n < op'.i
    BY <2>1 DEF Lnum
  <2>4. Putting'
    BY <2>1, <2>2, <2>3 DEF Putting
  <2> QED BY <2>1, <2>4 DEF AtTable
<1>12. CASE ToClear("again") \/ ToClear("clear")
  <2>1. /\ op.pc \in {"wipe", "put"} /\ op.cmd = "write" /\ op'.v = op.v /\ op'.data = op.data
        /\ op'.pc = "tunmap" /\ vtbl[op.v] \in Record /\ \A w \in Vol \ {op.v} : vtbl'[w] = vtbl[w]
        /\ AtEnd("again") \/ AtEnd("clear")
    BY <1>12, <1>0 DEF ToClear, OpTo, RecTo, Changed
  <2>2. leb'[Copy(0)] = <<vtbl>> /\ leb'[Copy(1)] = <<vtbl>>
    BY <2>1, <1>0, <1>1 DEF AtTable, Intact, Holds
  <2>3. Before'
    BY <2>1, <2>2, <1>b, MarkersAssumption
  <2>4. op.i \in Lnum
    BY <2>1, <1>0, StoreInvParts, TargetType DEF AtTable
  <2>5. ASSUME NEW n \in Lnum PROVE Visible(leb'[<<op.v, n>>]) = Argument(op.data)[n]
    <3>1. CASE AtEnd("again")
      <4>1. op.pc = "wipe" /\ op.i + 1 = Ebs /\ op.data = <<>> /\ Len(op.data) = 0
        BY <3>1 DEF AtEnd
      <4>0. n <= op.i
        BY <4>1, <2>4 DEF Lnum
      <4>2. leb'[<<op.v, n>>] = Unmapped
        BY <4>0, <4>1, <2>1, LebsAfter
      <4>3. Argument(op.data)[n] = Blank
        BY <4>1, ArgumentOf DEF Lnum
      <4> QED BY <4>2, <4>3, VisibleOf
    <3>2. CASE AtEnd("clear")
      <4>1. op.pc = "put" /\ op.i + 1 = Len(op.data)
        BY <3>2 DEF AtEnd
      <4>2. IF n <= op.i THEN Visible(leb'[<<op.v, n>>]) = op.data[n + 1]
                         ELSE leb'[<<op.v, n>>] = Unmapped
        BY <4>1, LebsAfter
      <4>3. n <= op.i <=> n < Len(op.data)
        BY <4>1, <2>4 DEF Lnum
      <4> QED BY <4>2, <4>3, ArgumentOf, VisibleOf
    <3> QED BY <2>1, <3>1, <3>2
  <2>6. Complete'
    BY <2>1, <2>5 DEF Complete
  <2> QED BY <2>1, <2>3, <2>6
<1> QED BY <1>4, <1>5, <1>6, <1>7, <1>8, <1>9, <1>10, <1>11, <1>12 DEF Moved

\* The table a reboot finds.
TableIn(c0, c1) == IF c0 \in [{1} -> Table] THEN c0[1] ELSE c1[1]
LEMMA Durable ==
  /\ Attachable => DurableTable = TableIn(leb[Copy(0)], leb[Copy(1)])
  /\ Attachable' => DurableTable' = TableIn(leb'[Copy(0)], leb'[Copy(1)])
<1>1. Attachable => DurableTable = TableIn(leb[Copy(0)], leb[Copy(1)])
  BY DEF DurableTable, TableIn, Chosen, Checked, TableOf
<1>2. Attachable' => DurableTable' = TableIn(leb'[Copy(0)], leb'[Copy(1)])
  BY DEF DurableTable, TableIn, Chosen, Checked, TableOf
<1> QED BY <1>1, <1>2

LEMMA TableInOf ==
  /\ \A t \in Table : \A c1 : TableIn(<<t>>, c1) = t
  /\ \A c0, c1 : c0 \notin [{1} -> Table] => TableIn(c0, c1) = c1[1]
  /\ \A c1 : TableIn(c1, c1) = c1[1]
  /\ Unmapped \notin [{1} -> Table]
<1>1. \A t \in Table : \A c1 : TableIn(<<t>>, c1) = t
  BY TableContent DEF TableIn
<1>2. Unmapped \notin [{1} -> Table]
  BY MarkersAssumption, TableContent
<1> QED BY <1>1, <1>2 DEF TableIn

LEMMA DurableNow ==
  ASSUME StoreInv
  PROVE  /\ up \in {"restore", "erase"} => DurableTable = vtbl
         /\ up = "up" /\ ~ro_mode => DurableTable = IF AtTable /\ op.i = 0 THEN TableOf(1) ELSE vtbl
<1>0. /\ Attachable /\ Intact /\ Progressed /\ vtbl \in Table
      /\ (up = "restore" => op.i \in {0, 1}) /\ (AtTable => op.i \in {0, 1})
      /\ DurableTable = TableIn(leb[Copy(0)], leb[Copy(1)])
  BY StoreInvParts, Durable DEF Intact, TypeOK, Control
<1>1. CASE up = "restore"
  <2>1. leb[Copy(1 - op.i)] = <<vtbl>>
    BY <1>0, <1>1 DEF Intact, Holds
  <2>2. CASE op.i = 0
    <3>1. leb[Copy(0)] \notin [{1} -> Table] /\ leb[Copy(1)] = <<vtbl>> /\ <<vtbl>>[1] = vtbl
      BY <2>1, <2>2, <1>0, <1>1 DEF Progressed, Checked
    <3> QED BY <3>1, <1>0, <1>1, TableInOf
  <2>3. CASE op.i = 1
    <3>1. leb[Copy(0)] = <<vtbl>>
      BY <2>1, <2>3
    <3> QED BY <3>1, <1>0, <1>1, TableInOf
  <2> QED BY <1>0, <1>1, <2>2, <2>3
<1>2. CASE up = "erase" \/ (up = "up" /\ ~ro_mode /\ ~(AtTable /\ op.i = 0))
  <2>1. leb[Copy(0)] = <<vtbl>>
    BY <1>0, <1>2 DEF Intact, Holds
  <2> QED BY <2>1, <1>0, <1>2, TableInOf
<1>3. CASE up = "up" /\ ~ro_mode /\ AtTable /\ op.i = 0
  <2>1. leb[Copy(0)] \in {leb[Copy(1)], Unmapped}
    BY <1>0, <1>3 DEF Progressed, Before
  <2> QED BY <2>1, <1>0, <1>3, TableInOf DEF TableOf
<1> QED BY <1>1, <1>2, <1>3

LEMMA DurableCall ==
  ASSUME StoreInv, Effect \/ CallCut
  PROVE  /\ up = "up" /\ ~ro_mode
         /\ ~(AtTable /\ op.i = 0) => DurableTable' = vtbl
         /\ AtTable /\ op.i = 0 => DurableTable' \in {TableOf(1), vtbl}
<1>0. /\ up = "up" /\ ~ro_mode /\ Intact /\ vtbl \in Table /\ TableInv
      /\ (AtTable => op.i \in {0, 1}) /\ (AtTable /\ op.i = 0 => Before)
  BY StoreInvParts DEF Effect, CallCut, TypeOK, Control, Progressed
<1>1. DurableTable' = TableIn(leb'[Copy(0)], leb'[Copy(1)])
  BY <1>0, CopiesSurvive, Durable
<1>2. CASE ~(AtTable /\ op.i = 0)
  <2>1. leb'[Copy(0)] = <<vtbl>>
    BY <1>0, <1>2, CopiesAfter DEF Intact, Holds
  <2> QED BY <2>1, <1>0, <1>1, <1>2, TableInOf
<1>3. CASE AtTable /\ op.i = 0
  <2>1. /\ leb'[Copy(1)] = leb[Copy(1)]
        /\ leb'[Copy(0)] \in [{1} -> Table] => leb'[Copy(0)] \in {leb[Copy(0)], <<vtbl>>}
        /\ leb[Copy(0)] \in {leb[Copy(1)], Unmapped}
    BY <1>0, <1>3, CopiesAfter DEF Before
  <2>2. CASE leb'[Copy(0)] \notin [{1} -> Table]
    BY <2>1, <2>2, <1>0, <1>1, <1>3, TableInOf DEF TableOf
  <2>3. CASE leb'[Copy(0)] = <<vtbl>>
    BY <2>3, <1>0, <1>1, <1>3, TableInOf
  <2>4. CASE leb'[Copy(0)] \in [{1} -> Table] /\ leb'[Copy(0)] = leb[Copy(0)]
    <3>1. leb'[Copy(0)] = leb'[Copy(1)]
      BY <2>1, <2>4, TableInOf
    <3> QED BY <3>1, <2>1, <1>0, <1>1, <1>3, TableInOf DEF TableOf
  <2> QED BY <2>1, <2>2, <2>3, <2>4
<1> QED BY <1>0, <1>2, <1>3

\* What is stored in a volume changes with its record or with its LEBs only.
LEMMA StoredKept ==
  ASSUME NEW v \in Vol, DurableTable'[v] = DurableTable[v],
         \/ DurableTable[v] = NoRec
         \/ DurableTable[v].upd_marker
         \/ \A n \in Lnum : leb'[<<v, n>>] = leb[<<v, n>>]
  PROVE  Stored(v)' = Stored(v)
<1>1. CASE DurableTable[v] = NoRec \/ DurableTable[v].upd_marker
  BY <1>1 DEF Stored
<1>2. CASE \A n \in Lnum : leb'[<<v, n>>] = leb[<<v, n>>]
  <2>1. [n \in Lnum |-> Visible(leb'[<<v, n>>])] = [n \in Lnum |-> Visible(leb[<<v, n>>])]
    BY <1>2
  <2>2. \A n : (Visible(leb[<<v, n>>]))' = Visible(leb'[<<v, n>>])
    BY DEF Visible
  <2> QED BY <2>1, <2>2, Zenon DEF Stored
<1> QED BY <1>1, <1>2

LEMMA EmptyContent == /\ Argument(<<>>) = [n \in Lnum |-> Blank]
                      /\ \A data : Argument(data) = [n \in Lnum |-> Argument(data)[n]]
<1>1. \A n \in Lnum : ~(n < Len(<<>>))
  BY DEF Lnum
<1> QED BY <1>1 DEF Argument

\* What is stored once the table of the command is: the marker hides the data until it is complete.
Goal == CASE op.cmd = "create" -> Argument(<<>>)
          [] op.cmd = "remove" -> Absent
          [] OTHER -> IF AtTable /\ op.then \in {"clear", "again"} THEN Argument(op.data) ELSE Damaged

LEMMA CallGoal ==
  ASSUME StoreInv, Effect \/ CallCut, DurableTable' = vtbl, NEW x \in Vol, x = op.v
  PROVE  Stored(x)' = Goal
<1>0. /\ up = "up" /\ ~ro_mode /\ op.pc # "idle" /\ Changed /\ NoLeftovers /\ CtlInv
      /\ op.cmd \in {"create", "remove", "write"} /\ (op.cmd = "create" => AtTable)
      /\ AtTable /\ op.then \in {"clear", "again"} => Complete
  BY StoreInvParts DEF Effect, CallCut, InStep, EmptyInv, Control, TypeOK, Op, Progressed, AtTable
<1>1. AtTable => \A n \in Lnum : leb'[<<x, n>>] = leb[<<x, n>>]
  BY <1>0, OtherLebs
<1>v. \A n : (Visible(leb[<<x, n>>]))' = Visible(leb'[<<x, n>>])
  BY DEF Visible
<1>2. CASE op.cmd = "create"
  <2>1. vtbl[x] # NoRec /\ ~vtbl[x].upd_marker
    BY <1>0, <1>2, MarkersAssumption DEF Changed
  <2>2. \A n \in Lnum : leb'[<<x, n>>] = Unmapped
    BY <1>0, <1>1, <1>2 DEF NoLeftovers
  <2>3. [n \in Lnum |-> Visible(leb'[<<x, n>>])] = Argument(<<>>)
    BY <2>2, VisibleOf, EmptyContent
  <2>4. Goal = Argument(<<>>)
    BY <1>2 DEF Goal
  <2> QED BY <2>1, <2>3, <2>4, <1>v, Zenon DEF Stored
<1>3. CASE op.cmd = "remove"
  <2>1. vtbl[x] = NoRec
    BY <1>0, <1>3 DEF Changed
  <2> QED BY <2>1, <1>3 DEF Stored, Goal
<1>4. CASE op.cmd = "write" /\ ~(AtTable /\ op.then \in {"clear", "again"})
  <2>1. vtbl[x] # NoRec /\ vtbl[x].upd_marker
    BY <1>0, <1>4, MarkersAssumption DEF Changed
  <2> QED BY <2>1, <1>4 DEF Stored, Goal
<1>5. CASE op.cmd = "write" /\ AtTable /\ op.then \in {"clear", "again"}
  <2>1. vtbl[x] # NoRec /\ ~vtbl[x].upd_marker
    BY <1>0, <1>5, MarkersAssumption DEF Changed
  <2>2. \A n \in Lnum : Visible(leb'[<<x, n>>]) = Argument(op.data)[n]
    BY <1>0, <1>1, <1>5 DEF Complete
  <2>3. [n \in Lnum |-> Visible(leb'[<<x, n>>])] = Argument(op.data)
    BY <2>2, EmptyContent
  <2>4. Goal = Argument(op.data)
    BY <1>5 DEF Goal
  <2> QED BY <2>1, <2>3, <2>4, <1>v, Zenon DEF Stored
<1> QED BY <1>0, <1>2, <1>3, <1>4, <1>5

\* A call, finished, failed or interrupted, changes what is stored as VolStore allows.
LEMMA CallStore ==
  ASSUME StoreInv, Effect \/ CallCut, NEW x \in Vol, x = op.v
  PROVE  /\ \A w \in Vol \ {x} : Stored(w)' = Stored(w)
         /\ Stored(x)' \in VS!Step(AbsCommand, Stored(x))
         /\ \/ AtTable /\ op.i = 1 /\ op.then # "set"
            \/ op.pc = "wipe" /\ op.cmd = "remove"
            => Stored(x)' = VS!Result(AbsCommand)
<1>0. /\ up = "up" /\ ~ro_mode /\ op.pc # "idle" /\ Changed /\ CtlInv
      /\ op.cmd \in {"create", "remove", "write"} /\ (op.cmd = "create" => AtTable)
      /\ AtTable /\ op.then \in {"clear", "again"} => Complete
      /\ AtTable /\ op.i = 0 => Before
      /\ AtTable /\ op.cmd = "write" => op.then \in {"set", "clear", "again"}
      /\ AtTable /\ op.cmd # "write" => op.then \notin {"set", "clear", "again"}
  BY StoreInvParts DEF Effect, CallCut, InStep, EmptyInv, Control, TypeOK, Op, Progressed, AtTable
<1>1. /\ ~(AtTable /\ op.i = 0) => DurableTable' = vtbl /\ DurableTable = vtbl
      /\ AtTable /\ op.i = 0 => DurableTable' \in {TableOf(1), vtbl} /\ DurableTable = TableOf(1)
  BY <1>0, DurableNow, DurableCall
<1>2. /\ AbsCommand.cmd = op.cmd /\ AbsCommand.v = x /\ AbsCommand.arg = Argument(op.data)
  BY <1>0 DEF AbsCommand
<1>3. ASSUME NEW w \in Vol \ {x} PROVE Stored(w)' = Stored(w)
  <2>1. \A n \in Lnum : leb'[<<w, n>>] = leb[<<w, n>>]
    BY <1>0, OtherLebs
  <2>2. DurableTable'[w] = DurableTable[w]
    BY <1>0, <1>1 DEF Before
  <2> QED BY <2>1, <2>2, StoredKept
<1>g. DurableTable' = vtbl => Stored(x)' = Goal
  BY CallGoal
<1>4. CASE AtTable /\ op.i = 0
  <2>1. \A n \in Lnum : leb'[<<x, n>>] = leb[<<x, n>>]
    BY <1>0, <1>4, OtherLebs
  <2>2. CASE DurableTable' = TableOf(1)
    <3>1. Stored(x)' = Stored(x)
      BY <2>1, <2>2, <1>1, <1>4, StoredKept
    <3> QED BY <3>1, <1>3, <1>4 DEF VS!Step, AtTable
  <2>3. CASE DurableTable' = vtbl
    <3>1. op.then \in {"clear", "again"} => Stored(x) \in {Damaged, Argument(op.data)}
      <4> SUFFICES ASSUME op.then \in {"clear", "again"}, ~TableOf(1)[x].upd_marker
                   PROVE  Stored(x) = Argument(op.data)
        BY <1>0, <1>1, <1>4 DEF Stored, Before
      <4>1. \A n \in Lnum : Visible(leb[<<x, n>>]) = Argument(op.data)[n]
        BY <1>0, <1>4 DEF Complete
      <4>2. [n \in Lnum |-> Visible(leb[<<x, n>>])] = Argument(op.data)
        BY <4>1, EmptyContent
      <4>3. DurableTable[x] # NoRec /\ ~DurableTable[x].upd_marker
        BY <1>0, <1>1, <1>4 DEF Before
      <4> QED BY <4>2, <4>3 DEF Stored
    <3>2. Stored(x)' = Goal
      BY <2>3, <1>g
    <3>3. Goal \in VS!Step(AbsCommand, Stored(x))
      BY <3>1, <1>0, <1>2, <1>4 DEF Goal, VS!Step
    <3> QED BY <3>2, <3>3, <1>3, <1>4 DEF AtTable
  <2> QED BY <2>2, <2>3, <1>1, <1>4
<1>5. CASE ~(AtTable /\ op.i = 0)
  <2>1. Stored(x)' = Goal
    BY <1>1, <1>5, <1>g
  <2>2. Stored(x)' = Stored(x)
    <3>1. AtTable => \A n \in Lnum : leb'[<<x, n>>] = leb[<<x, n>>]
      BY <1>0, OtherLebs
    <3>2. ~AtTable => vtbl[x] = NoRec \/ vtbl[x].upd_marker
      BY <1>0 DEF Changed
    <3> QED BY <3>1, <3>2, <1>1, <1>5, StoredKept
  <2>3. \/ AtTable /\ op.i = 1 /\ op.then # "set"
        \/ op.pc = "wipe" /\ op.cmd = "remove"
        => Goal = VS!Result(AbsCommand)
    BY <1>0, <1>2 DEF Goal, VS!Result
  <2> QED BY <2>1, <2>2, <2>3, <1>3 DEF VS!Step
<1> QED BY <1>4, <1>5

LEMMA ChangeIs ==
  ASSUME NEW x \in Vol, AbsCommand.v = x, AbsCommand.cmd # "none",
         \A w \in Vol \ {x} : Stored(w)' = Stored(w),
         Stored(x)' \in VS!Step(AbsCommand, Stored(x))
  PROVE  VS!VChange
  BY DEF VS!VChange

LEMMA SameStore ==
  ASSUME \A w \in Vol : Stored(w)' = Stored(w)
  PROVE  [v \in Vol |-> Stored(v)]' = [v \in Vol |-> Stored(v)]
  OBVIOUS

Stutter == UNCHANGED <<[v \in Vol |-> Stored(v)], AbsCommand>>

LEMMA MovedStep ==
  ASSUME StoreInv, Effect, RamTypes, Moved
  PROVE  VS!VNext
<1>0. /\ op.pc # "idle" /\ op.v \in Vol /\ op.cmd \in {"create", "remove", "write"}
      /\ AtTable /\ op.cmd = "create" => op.then = "create"
  BY StoreInvParts DEF Effect, Control, TypeOK, Op
<1>x. PICK x \in Vol : x = op.v
  BY <1>0
<1>1. AbsCommand = [cmd |-> op.cmd, v |-> op.v, arg |-> Argument(op.data)]
  BY <1>0 DEF AbsCommand
<1>2. VS!VChange
  BY <1>0, <1>1, <1>x, CallStore, ChangeIs
<1>3. CASE op'.cmd = "none"
  <2>1. op'.ret = "ok" /\ \/ AtTable /\ op.i = 1 /\ op.then # "set"
                          \/ op.pc = "wipe" /\ op.cmd = "remove"
    BY <1>0, <1>3 DEF Moved, ToWrite, ToSecond, Created, ToWipe, SetToWipe, Cleared, ClearAgain,
              WipeNext, Removed, ToClear, ToPut, PutNext, OpTo, OpEnds, Stored1, AtTable
  <2>2. Stored(x)' = VS!Result(AbsCommand)
    BY <2>1, <1>x, CallStore
  <2>3. AbsCommand' = VS!NoCommand("ok")
    BY <2>1, <1>3 DEF AbsCommand, VS!NoCommand
  <2>4. [v \in Vol |-> Stored(v)]'[AbsCommand.v] = Stored(x)'
    BY <1>1, <1>x
  <2> QED BY <2>2, <2>3, <2>4, <1>2 DEF VS!VNext, VS!VSucceed
<1>4. CASE op'.cmd # "none"
  <2>1. op'.cmd = op.cmd /\ op'.v = op.v /\ op'.data = op.data
    BY <1>0, <1>4 DEF Moved, ToWrite, ToSecond, Created, ToWipe, SetToWipe, Cleared, ClearAgain,
              WipeNext, Removed, ToClear, ToPut, PutNext, OpTo, OpEnds
  <2>2. AbsCommand' = AbsCommand
    BY <2>1, <1>0 DEF AbsCommand, Argument
  <2> QED BY <2>2, <1>2 DEF VS!VNext, VS!VProgress
<1> QED BY <1>3, <1>4

LEMMA SameLebs ==
  ASSUME leb' = leb
  PROVE  \A w \in Vol : Stored(w)' = Stored(w)
  BY DEF Stored, DurableTable, Attachable, Chosen, Checked, Sane, TableOf, Visible

LEMMA FailedStep ==
  ASSUME StoreInv, Failing, op.pc # "idle", Effect \/ leb' = leb
  PROVE  VS!VNext
<1>0. op.v \in Vol /\ op.cmd \in {"create", "remove", "write"}
  BY StoreInvParts DEF Control, TypeOK, Op
<1>x. PICK x \in Vol : x = op.v
  BY <1>0
<1>1. AbsCommand = [cmd |-> op.cmd, v |-> op.v, arg |-> Argument(op.data)]
  BY <1>0 DEF AbsCommand
<1>2. AbsCommand' = VS!NoCommand("err")
  BY DEF AbsCommand, VS!NoCommand, Failing, OpEnds
<1>3. VS!VChange
  <2>1. CASE Effect
    BY <2>1, <1>0, <1>1, <1>x, CallStore, ChangeIs
  <2>2. CASE leb' = leb
    <3>1. \A w \in Vol : Stored(w)' = Stored(w)
      BY <2>2, SameLebs
    <3>2. Stored(x)' \in VS!Step(AbsCommand, Stored(x))
      BY <3>1 DEF VS!Step
    <3> QED BY <3>1, <3>2, <1>0, <1>1, <1>x, ChangeIs
  <2> QED BY <2>1, <2>2
<1> QED BY <1>2, <1>3 DEF VS!VNext, VS!VFail

LEMMA CommandStep ==
  ASSUME StoreInv, Command
  PROVE  VS!VNext
<1>1. /\ Ready /\ leb' = leb /\ up' = up /\ ro_mode' = ro_mode
  BY StoreInvParts, CommandFacts
<1>2. PICK v \in Vol : CommandBegins(v)
  BY StoreInvParts, CommandFacts
<1>3. up = "up" /\ op.pc = "idle" /\ op.cmd \in {"none", "restore"} /\ AbsCommand.cmd = "none"
  BY <1>1, StoreInvParts DEF Ready, Control, AbsCommand
<1>4. [w \in Vol |-> Stored(w)]' = [w \in Vol |-> Stored(w)]
  BY <1>1, SameLebs, SameStore
<1>5. CASE WriteRefused(v)
  <2>1. AbsCommand' = VS!NoCommand("err")
    BY <1>5 DEF WriteRefused, OpEnds, AbsCommand, VS!NoCommand
  <2> QED BY <2>1, <1>3, <1>4 DEF VS!VNext, VS!VRefuse
<1>6. CASE ~WriteRefused(v)
  <2>1. ~ro_mode /\ op'.v = v /\ op'.cmd \in {"create", "remove", "write"}
        /\ (op'.cmd = "create" <=> vols[v] = NoVol)
    BY <1>2, <1>6, MarkersAssumption DEF CommandBegins, CreateBegins, RemoveBegins, WriteBegins, WriteWipes, Begins
  <2>2. DurableTable = vtbl /\ Agree(v)
    BY <2>1, <1>3, StoreInvParts, DurableNow DEF AtTable, InStep
  <2>3. vtbl[v] = NoRec <=> op'.cmd = "create"
    BY <2>1, <2>2, MarkersAssumption DEF Agree
  <2>4. op'.cmd = "create" <=> Stored(v) = Absent
    <3>1. CASE vtbl[v] = NoRec
      BY <3>1, <2>2, <2>3 DEF Stored
    <3>2. CASE vtbl[v] # NoRec
      <4>1. \A n \in Lnum : Visible(leb[<<v, n>>]) \in Data \cup Table \cup {Torn}
        <5>1. \A n \in Lnum : leb[<<v, n>>] \in EBA!Content \cup {Unmapped}
          BY StoreInvParts DEF TypeOK, VolLeb
        <5> QED BY <5>1, VisibleType
      <4>2. [n \in Lnum |-> Visible(leb[<<v, n>>])] \in [Lnum -> Data \cup Table \cup {Torn}]
        BY <4>1
      <4>3. Stored(v) # Absent
        BY <3>2, <4>2, <2>2, MarkersAssumption DEF Stored
      <4> QED BY <4>3, <3>2, <2>3
    <3> QED BY <3>1, <3>2
  <2>5. AbsCommand'.cmd = op'.cmd /\ AbsCommand'.v = v
    BY <2>1 DEF AbsCommand
  <2>6. [w \in Vol |-> Stored(w)][AbsCommand'.v] = Stored(v)
    BY <2>5
  <2> QED BY <2>1, <2>4, <2>5, <2>6, <1>3, <1>4 DEF VS!VNext, VS!VBegin
<1> QED BY <1>5, <1>6

\* Erasing what belongs to no volume, and what is left when this is interrupted.
LEMMA ErasedStore ==
  ASSUME StoreInv, up = "erase", leb' \in EraseLeft \/ \E l \in Unknown : leb' = [leb EXCEPT ![l] = Unmapped]
  PROVE  \A w \in Vol : Stored(w)' = Stored(w)
<1>1. PICK l \in Unknown : \E c : leb' = [leb EXCEPT ![l] = c]
  BY DEF EraseLeft
<1>2. PICK c : leb' = [leb EXCEPT ![l] = c]
  BY <1>1
<1>3. /\ l \in VolLeb /\ vtbl[l[1]] = NoRec /\ leb \in [Lebs -> EBA!Content \cup {Unmapped}]
      /\ Copy(0) \notin VolLeb /\ Copy(1) \notin VolLeb /\ Attachable
  BY StoreInvParts DEF Unknown, TypeOK, Lebs, Copy, VolLeb, Intact
<1>4. leb'[Copy(0)] = leb[Copy(0)] /\ leb'[Copy(1)] = leb[Copy(1)]
  BY <1>2, <1>3 DEF Lebs
<1>5. DurableTable' = DurableTable /\ DurableTable = vtbl
  BY <1>3, <1>4, SameAttachable, Durable, DurableNow
<1>6. ASSUME NEW w \in Vol, vtbl[w] # NoRec, NEW n \in Lnum
      PROVE  leb'[<<w, n>>] = leb[<<w, n>>]
  <2>1. <<w, n>> # l /\ <<w, n>> \in Lebs
    BY <1>3, <1>6 DEF Lebs, VolLeb
  <2> QED BY <2>1, <1>2, <1>3
<1> QED BY <1>5, <1>6, StoredKept

\* Writing a lost copy of the table again, and what is left when this is interrupted.
LEMMA RestoredStore ==
  ASSUME StoreInv, up = "restore",
         leb' \in CreateVtblLeft \/ leb' = [leb EXCEPT ![Copy(op.i)] = <<vtbl>>]
  PROVE  \A w \in Vol : Stored(w)' = Stored(w)
<1>0. /\ Attachable /\ vtbl \in Table /\ op.i \in {0, 1} /\ CtlInv /\ Sane(vtbl)
      /\ leb[Copy(1 - op.i)] = <<vtbl>> /\ leb \in [Lebs -> EBA!Content \cup {Unmapped}]
      /\ op.i = 0 => leb[Copy(0)] \notin [{1} -> Table]
  BY StoreInvParts DEF Intact, TypeOK, Control, Holds, Lebs, Progressed, Checked
<1>1. Copy(0) # Copy(1) /\ Copy(0) \in Lebs /\ Copy(1) \in Lebs /\ Copy(0) \notin VolLeb /\ Copy(1) \notin VolLeb
  BY DEF Copy, Lebs, VolLeb
<1>2. /\ \A l \in Lebs \ {Copy(op.i)} : leb'[l] = leb[l]
      /\ leb'[Copy(op.i)] \in [{1} -> Table] => leb'[Copy(op.i)] = <<vtbl>>
  <2>1. CASE leb' \in CreateVtblLeft
    BY <2>1, <1>0, CreateVtblLeftFacts
  <2>2. CASE leb' = [leb EXCEPT ![Copy(op.i)] = <<vtbl>>]
    BY <2>2, <1>0, <1>1
  <2> QED BY <2>1, <2>2
<1>3. DurableTable = vtbl
  BY DurableNow
<1>4. DurableTable' = vtbl
  <2>1. CASE op.i = 0
    <3>1. leb'[Copy(1)] = <<vtbl>> /\ <<vtbl>>[1] = vtbl
      BY <1>0, <1>1, <1>2, <2>1
    <3>2. Attachable'
      BY <3>1, <1>0, <1>2, <2>1, VtblGood, OneSuffices
    <3> QED BY <3>1, <3>2, <1>0, <1>2, <2>1, Durable, TableInOf
  <2>2. CASE op.i = 1
    <3>1. leb'[Copy(0)] = <<vtbl>>
      BY <1>0, <1>1, <1>2, <2>2
    <3>2. Attachable'
      BY <3>1, <1>0, VtblGood, OneSuffices
    <3> QED BY <3>1, <3>2, <1>0, Durable, TableInOf
  <2> QED BY <1>0, <2>1, <2>2
<1>5. ASSUME NEW w \in Vol, NEW n \in Lnum PROVE leb'[<<w, n>>] = leb[<<w, n>>]
  <2>1. <<w, n>> \in Lebs /\ <<w, n>> # Copy(0) /\ <<w, n>> # Copy(1)
    BY <1>1 DEF Lebs, VolLeb
  <2> QED BY <2>1, <1>0, <1>2
<1> QED BY <1>3, <1>4, <1>5, StoredKept

\* Attaching changes nothing that is stored, and no command runs meanwhile.
LEMMA AttachStep ==
  ASSUME StoreInv, Attaching
  PROVE  [VS!VNext]_<<[v \in Vol |-> Stored(v)], AbsCommand>>
<1>0. CtlInv /\ TypeOK /\ (up # "up" => op.cmd \in {"none", "restore"})
  BY StoreInvParts, AttachIdle
<1>r. ASSUME op'.ret = "none", op'.cmd \in {"none", "restore"}, \A w \in Vol : Stored(w)' = Stored(w)
      PROVE  VS!VNext
  <2>1. AbsCommand' = VS!NoCommand("none")
    BY <1>r DEF AbsCommand, VS!NoCommand
  <2> QED BY <2>1, <1>r, SameStore DEF VS!VNext, VS!VCut
<1>s. ASSUME op' = op, \A w \in Vol : Stored(w)' = Stored(w)
      PROVE  Stutter
  <2>1. AbsCommand' = AbsCommand
    BY <1>s DEF AbsCommand, Argument
  <2> QED BY <2>1, <1>s, SameStore DEF Stutter
<1>i. /\ Idle("none").ret = "none" /\ Idle("none").cmd = "none"
      /\ \A i : /\ [Idle("none") EXCEPT !.cmd = "restore", !.i = i].ret = "none"
                /\ [Idle("none") EXCEPT !.cmd = "restore", !.i = i].cmd = "restore"
  BY DEF Idle
<1>1. CASE AttachTable
  <2>1. leb' = leb /\ (InitVolumes(TableOf(Chosen)) \/ Restore(1 - Chosen))
    BY <1>1 DEF AttachTable
  <2>2. op'.ret = "none" /\ op'.cmd \in {"none", "restore"}
    BY <2>1, <1>i DEF InitVolumes, Restore
  <2> QED BY <2>1, <2>2, <1>r, SameLebs
<1>2. CASE AttachBlank
  BY <1>2, StoreInvParts DEF AttachBlank, Intact
<1>3. CASE AttachError
  BY <1>3, StoreInvParts DEF AttachError, Intact
<1>4. CASE CreateVtbl
  <2>1. /\ up = "restore" /\ leb' = [leb EXCEPT ![Copy(op.i)] = <<vtbl>>]
        /\ InitVolumes(vtbl) \/ Restore(1)
    BY <1>4 DEF CreateVtbl
  <2>2. op'.ret = "none" /\ op'.cmd \in {"none", "restore"}
    BY <2>1, <1>i DEF InitVolumes, Restore
  <2> QED BY <2>1, <2>2, <1>r, RestoredStore
<1>5. CASE CreateVtblError
  <2>1. up = "restore" /\ leb' \in {leb} \cup CreateVtblLeft /\ op' = Idle("none")
    BY <1>5 DEF CreateVtblError
  <2> QED BY <2>1, <1>i, <1>r, RestoredStore, SameLebs
<1>6. CASE EraseUnknown
  <2>1. up = "erase" /\ op' = op /\ \E l \in Unknown : leb' = [leb EXCEPT ![l] = Unmapped]
    BY <1>6 DEF EraseUnknown
  <2> QED BY <2>1, <1>s, ErasedStore DEF Stutter
<1>7. CASE EraseUnknownError
  <2>1. up = "erase" /\ op' = op /\ leb' \in EraseLeft
    BY <1>7 DEF EraseUnknownError
  <2> QED BY <2>1, <1>s, ErasedStore DEF Stutter
<1>8. CASE AttachDone
  <2>1. op' = op /\ leb' = leb
    BY <1>8 DEF AttachDone
  <2> QED BY <2>1, <1>s, SameLebs DEF Stutter
<1> QED BY <1>1, <1>2, <1>3, <1>4, <1>5, <1>6, <1>7, <1>8 DEF Attaching

LEMMA PowerStep ==
  ASSUME StoreInv, Reboot \/ PowerCut
  PROVE  VS!VNext
<1>1. op' = Idle("none")
  BY DEF Reboot, PowerCut, LoseRam
<1>2. AbsCommand' = VS!NoCommand("none")
  BY <1>1 DEF AbsCommand, VS!NoCommand, Idle
<1>3. ASSUME \A w \in Vol : Stored(w)' = Stored(w) PROVE VS!VNext
  BY <1>2, <1>3, SameStore DEF VS!VNext, VS!VCut
<1>4. \/ leb' = leb
      \/ CallCut
      \/ up = "restore" /\ leb' \in CreateVtblLeft
      \/ up = "erase" /\ leb' \in EraseLeft
  BY StoreInvParts, CutFacts DEF Reboot
<1>5. CASE CallCut
  <2>0. op.v \in Vol /\ op.cmd \in {"create", "remove", "write"}
    BY <1>5, StoreInvParts DEF CallCut, Control, TypeOK, Op
  <2>x. PICK x \in Vol : x = op.v
    BY <2>0
  <2>1. AbsCommand = [cmd |-> op.cmd, v |-> op.v, arg |-> Argument(op.data)]
    BY <2>0 DEF AbsCommand
  <2>2. VS!VChange
    BY <1>5, <2>0, <2>1, <2>x, CallStore, ChangeIs
  <2> QED BY <2>2, <1>2 DEF VS!VNext, VS!VCut
<1> QED BY <1>3, <1>4, <1>5, SameLebs, RestoredStore, ErasedStore

LEMMA CommandProgress ==
  ASSUME StoreInv, Command
  PROVE  Progressed'
<1>1. /\ Ready /\ leb' = leb /\ up' = up /\ ro_mode' = ro_mode
  BY StoreInvParts, CommandFacts
<1>2. PICK v \in Vol : CommandBegins(v)
  BY StoreInvParts, CommandFacts
<1>3. up = "up" /\ op.pc = "idle" /\ up' = "up"
  BY <1>1 DEF Ready
<1>4. CASE ro_mode
  BY <1>1, <1>3, <1>4 DEF Progressed
<1>5. CASE ~ro_mode
  <2>1. leb'[Copy(0)] = <<vtbl>> /\ leb'[Copy(1)] = <<vtbl>> /\ <<vtbl>>[1] = vtbl
    BY <1>1, <1>3, <1>5, StoreInvParts DEF Intact, Holds, AtTable
  <2>2. CASE WriteWipes(v)
    BY <2>2, <1>1, <1>3 DEF WriteWipes, Progressed, AtTable, Wiping, Lnum
  <2>3. CASE CreateBegins(v) \/ RemoveBegins(v) \/ WriteBegins(v)
    <3>1. /\ op'.pc = "tunmap" /\ op'.i = 0 /\ op'.v = v /\ op'.then \notin {"clear", "again"}
          /\ \A w \in Vol \ {v} : vtbl'[w] = vtbl[w]
      BY <2>3 DEF CreateBegins, RemoveBegins, WriteBegins, Begins, RecTo
    <3>2. Before'
      BY <2>1, <3>1 DEF Before, TableOf
    <3> QED BY <3>1, <3>2, <1>3 DEF Progressed
  <2> QED BY <1>2, <1>5, <2>2, <2>3 DEF CommandBegins, WriteRefused
<1> QED BY <1>4, <1>5

LEMMA AttachProgress ==
  ASSUME StoreInv, Attaching
  PROVE  Progressed'
<1>0. TypeOK /\ CtlInv /\ Intact /\ Attachable
  BY StoreInvParts DEF Intact
<1>1. CASE AttachTable
  <2>1. leb' = leb /\ (SetUp \/ Restoring(1 - Chosen)) /\ Chosen \in {0, 1}
    BY <1>0, <1>1, AttachTableFacts, ChosenFacts
  <2>2. Chosen = 1 => ~Checked(0)'
    BY <2>1 DEF Chosen, Checked
  <2> QED BY <2>1, <2>2 DEF Progressed, SetUp, Restoring
<1>2. CASE AttachBlank
  BY <1>2, <1>0 DEF AttachBlank, Intact
<1>3. CASE CreateVtbl
  <2>1. /\ up = "restore" /\ op.i \in {0, 1}
        /\ SetUp \/ (Restoring(1) /\ op.i = 0 /\ leb[Copy(1)] # <<vtbl>>)
    BY <1>0, <1>3, CreateVtblFacts
  <2> QED BY <2>1 DEF Progressed, SetUp, Restoring
<1>4. CASE AttachError \/ CreateVtblError \/ EraseUnknown \/ EraseUnknownError
  <2>1. up' \in {"failed", "erase"}
    BY <1>4 DEF AttachError, CreateVtblError, EraseUnknown, EraseUnknownError
  <2> QED BY <2>1 DEF Progressed
<1>5. CASE AttachDone
  <2>1. up = "erase" /\ up' = "up" /\ op' = op
    BY <1>5 DEF AttachDone
  <2>2. op.pc = "idle"
    BY <2>1, <1>0, AttachIdle
  <2> QED BY <2>1, <2>2 DEF Progressed, AtTable
<1> QED BY <1>1, <1>2, <1>3, <1>4, <1>5 DEF Attaching

LEMMA StoreNext ==
  ASSUME Formatted, StoreInv, [Next]_vars
  PROVE  StoreInv' /\ [VS!VNext]_<<[v \in Vol |-> Stored(v)], AbsCommand>>
<1>0. TableInv /\ CtlInv /\ TypeOK /\ Control /\ Progressed
  BY StoreInvParts
<1>c. TableInv'
  BY <1>0, TableNext
<1> SUFFICES Progressed' /\ (VS!VNext \/ Stutter)
  BY <1>c DEF StoreInv, Stutter
<1>1. CASE Command
  BY <1>1, CommandProgress, CommandStep
<1>2. CASE EbaSkip \/ EbaReturn \/ EbaError
  <2>1. Effect /\ (CallReturned \/ (CallFailed /\ ro_mode'))
    BY <1>0, <1>2, CallEffect
  <2>2. RamTypes /\ (Moved \/ (Failing /\ ro_mode'))
    BY <2>1, <1>0, Returned, Failed DEF Effect
  <2>3. CASE Moved
    BY <2>1, <2>2, <2>3, MovedProgress, MovedStep
  <2>4. CASE Failing /\ ro_mode'
    BY <2>1, <2>4, FailedStep DEF Effect, Progressed
  <2> QED BY <2>2, <2>3, <2>4
<1>3. CASE EbaCall \/ UNCHANGED vars
  <2>1. leb' = leb /\ up' = up /\ vtbl' = vtbl /\ ro_mode' = ro_mode /\ op' = op
    BY <1>0, <1>3, EbaCallControl DEF vars
  <2>2. Progressed'
    BY <2>1, <1>0 DEF Progressed, AtTable, Before, TableOf, Checked, Wiping, Putting, Complete,
                      Visible, Argument
  <2>3. AbsCommand' = AbsCommand
    BY <2>1 DEF AbsCommand, Argument
  <2> QED BY <2>1, <2>2, <2>3, SameLebs, SameStore DEF Stutter
<1>4. CASE EbaRefused \/ EbaNoMemory
  <2>1. NoEffect /\ Failing
    BY <1>0, <1>4, NotServed
  <2>2. ro_mode' /\ up' = "up" /\ leb' = leb /\ op.pc # "idle"
    BY <2>1 DEF NoEffect, Formatted
  <2> QED BY <2>1, <2>2, FailedStep DEF Progressed
<1>5. CASE Attaching
  BY <1>5, AttachProgress, AttachStep DEF Stutter
<1>6. CASE Reboot \/ PowerCut
  <2>1. up' = "down"
    BY <1>0, <1>6, PowerControl
  <2> QED BY <2>1, <1>6, PowerStep DEF Progressed
<1> QED BY <1>1, <1>2, <1>3, <1>4, <1>5, <1>6 DEF Next, Program, Attaching

LEMMA StoreInit ==
  ASSUME Formatted, Init
  PROVE  StoreInv /\ VS!VInit
<1>1. up = "down" /\ op = Idle("none") /\ TableInv
  BY TableInit DEF Init
<1>2. leb[Copy(0)] = <<NoTable>> /\ NoTable \in Table
  <2>1. Copy(0) \notin VolLeb /\ Copy(0) \in VolLeb \cup {Copy(0), Copy(1)}
    BY DEF Copy, VolLeb
  <2> QED BY <2>1 DEF Init, Formatted, NoTable, Table
<1>3. DurableTable = NoTable
  BY <1>1, <1>2, TableInvParts, Durable, TableInOf DEF Intact
<1>4. \A v \in Vol : Stored(v) = Absent
  BY <1>3 DEF Stored, NoTable
<1>5. AbsCommand = VS!NoCommand("none")
  BY <1>1 DEF AbsCommand, VS!NoCommand, Idle
<1>6. [v \in Vol |-> Stored(v)] \in [Vol -> {Absent}]
  BY <1>4
<1> QED BY <1>1, <1>5, <1>6 DEF StoreInv, Progressed, VS!VInit

\* The volume commands keep VolStore's promise: after a reboot at any moment a volume is absent,
\* damaged or has a complete content; a command changes its own volume only, forwards, and has
\* taken effect for good when it reports success.  For any number of volumes, LEBs and contents
\* and any history of flash errors and power cuts, on a formatted device that does not run out of
\* memory.
THEOREM VolumesImplement == ASSUME Formatted PROVE Spec => ImplementsVolStore
<1>1. Init => StoreInv /\ VS!VInit
  BY StoreInit
<1>2. StoreInv /\ [Next]_vars => StoreInv' /\ [VS!VNext]_<<[v \in Vol |-> Stored(v)], AbsCommand>>
  BY StoreNext
<1> QED BY <1>1, <1>2, PTL DEF Spec, ImplementsVolStore, VS!VSpec, VS!vsvars
=============================================================================
