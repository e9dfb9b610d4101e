----------------------------- MODULE UbiVolume -----------------------------
(***************************************************************************)
(* UBI volumes: the volume table in the two LEBs of the layout volume      *)
(* (vtbl.c), volume updates with their update marker (upd.c), and the      *)
(* commands ubi part, create, remove and write (cmd_ubi.c, vmt.c).         *)
(*                                                                         *)
(* The LEBs below are a LebStore, which UbiEba implements: a call of the   *)
(* EBA layer is a request of it, and power may be cut while it runs.       *)
(* Names and IDs of volumes are one (a new volume takes the first vacant   *)
(* ID, so re-creating volume v stands for any volume that reuses v's ID);  *)
(* every volume has Ebs LEBs, and a LEB holds one page.                    *)
(***************************************************************************)
EXTENDS Integers, Sequences, FiniteSets

CONSTANTS Vol,         \* volume IDs
          Ebs,         \* LEBs of a volume (reserved_pebs)
          Data,        \* contents of a LEB of a volume
          Blank,       \* the content that is all 0xFF bytes
          Torn,        \* a page the ECC cannot correct
          Unmapped,    \* content of a LEB that no eraseblock carries
          Layout,      \* UBI_LAYOUT_VOLUME_ID
          NoRec,       \* the empty volume table record
          BadRec,      \* an empty record with the update marker set
          NoVol,       \* no volume description object
          Absent,      \* content of a volume that does not exist
          Damaged,     \* content of a volume whose update did not finish
          StartBlank,  \* the flash is not formatted at first
          Faults       \* faults that happen

ASSUME VolAssumption == Layout \notin Vol /\ Ebs \in Nat \ {0}
ASSUME DataAssumption == Blank \in Data
ASSUME FaultsAssumption == Faults \subseteq {"cut", "write", "nomem"} /\ StartBlank \in BOOLEAN

VARIABLES
  leb,      \* the medium: the content of every LEB
  req,      \* the EBA call in progress
  blank,    \* the medium: no eraseblock has a header
  up,       \* "down", "restore", "erase" while attaching, "up", "failed"
  vtbl,     \* RAM: the volume table
  vols,     \* RAM: the volume description objects
  ro_mode,  \* RAM: read-only after an unrecoverable error
  op        \* the command in progress, or the restoring of the table

vars == <<leb, req, blank, up, vtbl, vols, ro_mode, op>>

Record == [type : {"dynamic", "static"}, upd_marker : BOOLEAN]
Table == [Vol -> Record \cup {NoRec, BadRec}]
Lnum == 0..Ebs - 1
VolLeb == Vol \X Lnum
Copy(i) == <<Layout, i>>

EBA == INSTANCE LebStore WITH LEB <- VolLeb \cup {Copy(0), Copy(1)},
                              Page <- Data \cup Table, MaxPages <- 1

NoTable == [v \in Vol |-> NoRec]
Volume == [upd_marker : BOOLEAN, updating : BOOLEAN, used_ebs : 0..Ebs]

ASSUME MarkersAssumption ==
  /\ NoRec # BadRec /\ {NoRec, BadRec} \cap Record = {} /\ NoVol \notin Volume
  /\ Torn \notin Data \cup Table /\ Unmapped \notin EBA!Content
  /\ Damaged \notin [Lnum -> Data \cup Table \cup {Torn}]
  /\ Absent \notin [Lnum -> Data \cup Table \cup {Torn}] /\ Absent # Damaged

\* vtbl_check accepts what copy i holds; a record it rejects is an error of attach.
Checked(i) == leb[Copy(i)] \in [{1} -> Table]
Sane(t) == \A v \in Vol : t[v] # BadRec
TableOf(i) == leb[Copy(i)][1]

-----------------------------------------------------------------------------
(* The command in progress.  pc is the loop it is in: "tunmap" and "twrite" *)
(* those of ubi_change_vtbl_record, after which it goes on as then says,    *)
(* "wipe" the one that un-maps the volume, "put" the one that writes it.    *)

Op == [cmd : {"none", "create", "remove", "write", "restore"}, v : Vol \cup {NoVol},
       data : UNION {[1..n -> Data] : n \in 0..Ebs},
       pc : {"idle", "tunmap", "twrite", "wipe", "put"}, i : Lnum \cup {0, 1},
       then : {"none", "create", "remove", "set", "clear", "again"},
       ret : {"none", "ok", "err"}]

Idle(ret) == [cmd |-> "none", v |-> NoVol, data |-> <<>>, pc |-> "idle", i |-> 0,
              then |-> "none", ret |-> ret]

Begin(cmd, v, data) == [Idle("none") EXCEPT !.cmd = cmd, !.v = v, !.data = data]

Running == up = "up" /\ req.kind = "idle" /\ op.pc # "idle"
Ready == up = "up" /\ op.pc = "idle"

\* ubi_change_vtbl_record: the table changes in RAM first, then LEB 0 and LEB 1.
ChangeVtblRecord(o, rec, then) ==
  /\ vtbl' = [vtbl EXCEPT ![o.v] = rec]
  /\ op' = [o EXCEPT !.pc = "tunmap", !.i = 0, !.then = then]

Marked(rec, m) == IF rec \in {NoRec, BadRec} THEN IF m THEN BadRec ELSE NoRec
                                             ELSE [rec EXCEPT !.upd_marker = m]

\* clear_update_marker; for a static volume it also sets the data size.
ClearUpdateMarker(then) ==
  /\ ChangeVtblRecord(op, Marked(vtbl[op.v], FALSE), then)
  /\ vols' = [vols EXCEPT ![op.v].used_ebs =
                IF vtbl[op.v] \in Record /\ vtbl[op.v].type = "static" THEN Len(op.data) ELSE @]

Wipe == op' = [op EXCEPT !.pc = "wipe", !.i = 0] /\ vtbl' = vtbl

\* What follows when both copies of the table are written.
VtblChanged ==
  CASE op.then = "create" ->
         /\ vols' = [vols EXCEPT ![op.v] =
                       [upd_marker |-> FALSE, updating |-> FALSE,
                        used_ebs |-> IF vtbl[op.v].type = "dynamic" THEN Ebs ELSE 0]]
         /\ op' = Idle("ok") /\ vtbl' = vtbl
    [] op.then = "remove" -> Wipe /\ vols' = vols
    [] op.then = "set" -> Wipe /\ vols' = [vols EXCEPT ![op.v].upd_marker = TRUE]
    [] op.then = "clear" ->
         /\ vols' = [vols EXCEPT ![op.v].upd_marker = FALSE, ![op.v].updating = FALSE]
         /\ op' = Idle("ok") /\ vtbl' = vtbl
    [] op.then = "again" ->
         /\ vols' = [vols EXCEPT ![op.v].upd_marker = FALSE, ![op.v].updating = FALSE]
         /\ ChangeVtblRecord(op, Marked(vtbl[op.v], FALSE), "clear")

\* What follows when every LEB of the volume is un-mapped.  An update of no data
\* clears the marker at once, and ubi_more_update_data clears it again.
Wiped ==
  CASE op.cmd = "remove" -> /\ vols' = [vols EXCEPT ![op.v] = NoVol]
                            /\ op' = Idle("ok") /\ vtbl' = vtbl
    [] op.cmd = "write" /\ op.data = <<>> -> ClearUpdateMarker("again")
    [] OTHER -> op' = [op EXCEPT !.pc = "put", !.i = 0] /\ UNCHANGED <<vtbl, vols>>

\* Mutant of NextLeb: the loop does not advance.
NextLebStuck == op' = op /\ UNCHANGED <<vtbl, vols>>
NextLeb == op' = [op EXCEPT !.i = @ + 1] /\ UNCHANGED <<vtbl, vols>>

\* Mutants of CallReturned: one LEB too many is wiped; both copies of the table are
\* un-mapped before they are written.
CallReturnedOneMore ==
  CASE op.pc = "wipe" -> IF op.i < Ebs THEN NextLeb ELSE Wiped
    [] op.pc = "tunmap" -> op' = [op EXCEPT !.pc = "twrite"] /\ UNCHANGED <<vtbl, vols>>
    [] op.pc = "twrite" /\ op.i = 0 ->
         op' = [op EXCEPT !.pc = "tunmap", !.i = 1] /\ UNCHANGED <<vtbl, vols>>
    [] OTHER -> VtblChanged
CallReturnedUnmapFirst ==
  CASE op.pc = "tunmap" -> /\ op' = [op EXCEPT !.i = 1 - @, !.pc = IF op.i = 0 THEN @ ELSE "twrite"]
                           /\ UNCHANGED <<vtbl, vols>>
    [] op.pc = "twrite" /\ op.i = 0 -> op' = [op EXCEPT !.i = 1] /\ UNCHANGED <<vtbl, vols>>
    [] op.pc = "twrite" /\ op.i = 1 -> VtblChanged
    [] op.pc = "wipe" -> IF op.i + 1 < Ebs THEN NextLeb ELSE Wiped
    [] op.pc = "put" -> IF op.i + 1 < Len(op.data) THEN NextLeb ELSE ClearUpdateMarker("clear")

\* The EBA call the command is at returned 0.
CallReturned ==
  CASE op.pc = "tunmap" -> op' = [op EXCEPT !.pc = "twrite"] /\ UNCHANGED <<vtbl, vols>>
    [] op.pc = "twrite" /\ op.i = 0 ->
         op' = [op EXCEPT !.pc = "tunmap", !.i = 1] /\ UNCHANGED <<vtbl, vols>>
    [] op.pc = "twrite" /\ op.i = 1 -> VtblChanged
    [] op.pc = "wipe" -> IF op.i + 1 < Ebs THEN NextLeb ELSE Wiped
    [] op.pc = "put" -> IF op.i + 1 < Len(op.data) THEN NextLeb ELSE ClearUpdateMarker("clear")

\* Mutant of CallFailed: the volume is not left in the updating state.
CallFailedNotUpdating ==
  /\ op' = Idle("err") /\ vtbl' = vtbl
  /\ vols' = IF op.cmd = "write"
               THEN [vols EXCEPT ![op.v].updating = FALSE, ![op.v].upd_marker = (op.then = "set")]
               ELSE vols

\* It returned an error, and the command does too.  set_update_marker and
\* clear_update_marker change vol->upd_marker all the same.
CallFailed ==
  /\ op' = Idle("err") /\ vtbl' = vtbl
  /\ vols' = CASE op.pc \in {"tunmap", "twrite"} /\ op.then = "set" ->
                    [vols EXCEPT ![op.v].upd_marker = TRUE]
               [] op.pc \in {"tunmap", "twrite"} /\ op.then \in {"clear", "again"} ->
                    [vols EXCEPT ![op.v].upd_marker = FALSE]
               [] OTHER -> vols

-----------------------------------------------------------------------------
(* EBA calls.                                                               *)

\* The LEB the command is at, and what it writes there.
Target == IF op.pc \in {"tunmap", "twrite"} THEN Copy(op.i) ELSE <<op.v, op.i>>
Writing == op.pc \in {"twrite", "put"}
Payload == IF op.pc = "twrite" THEN <<vtbl>> ELSE <<op.data[op.i + 1]>>

\* Un-mapping what is not mapped, and writing only 0xFF to a dynamic volume.
NothingToDo ==
  \/ ~Writing /\ leb[Target] = Unmapped
  \/ /\ op.pc = "put" /\ Payload = <<Blank>>
     /\ vtbl[op.v] \in Record /\ vtbl[op.v].type = "dynamic"

EbaSkip ==
  /\ Running /\ ~ro_mode /\ NothingToDo
  /\ CallReturned
  /\ UNCHANGED <<leb, req, blank, up, ro_mode>>

EbaCall ==
  /\ Running /\ ~ro_mode /\ ~NothingToDo
  /\ req' = [kind |-> IF Writing THEN "write" ELSE "unmap", lnum |-> Target,
             arg |-> IF Writing THEN Payload ELSE <<>>, base |-> leb[Target]]
  /\ leb' = leb
  /\ EBA!Begin
  /\ UNCHANGED <<blank, up, vtbl, vols, ro_mode, op>>

EbaReturn ==
  /\ up = "up" /\ req.kind # "idle"
  /\ leb' = [leb EXCEPT ![req.lnum] = IF Writing THEN req.arg ELSE Unmapped]
  /\ req' = EBA!Idle("ok")
  /\ EBA!Succeed
  /\ CallReturned
  /\ UNCHANGED <<blank, up, ro_mode>>

\* The flash fails: the device becomes read-only, and the LEB keeps something it
\* may hold.  An un-mapping and the last retry of a write still return 0.
EbaError ==
  /\ up = "up" /\ req.kind # "idle" /\ "write" \in Faults
  /\ \E c \in EBA!Allowed(req) : leb' = [leb EXCEPT ![req.lnum] = c]
  /\ EBA!Change
  /\ ro_mode' = TRUE
  /\ \/ req' = EBA!Idle("ok") /\ CallReturned
     \/ req' = EBA!Idle("err") /\ CallFailed
  /\ UNCHANGED <<blank, up>>

EbaRefused ==
  /\ Running /\ ro_mode
  /\ CallFailed
  /\ UNCHANGED <<leb, req, blank, up, ro_mode>>

\* ubi_eba_write_leb has no memory for the VID header: an error without read-only.
EbaNoMemory ==
  /\ Running /\ ~ro_mode /\ Writing /\ ~NothingToDo /\ "nomem" \in Faults
  /\ CallFailed
  /\ UNCHANGED <<leb, req, blank, up, ro_mode>>

-----------------------------------------------------------------------------
(* Commands.                                                                *)

CreateVolume(v, type) ==
  /\ Ready /\ ~ro_mode
  /\ vols[v] = NoVol
  /\ ChangeVtblRecord(Begin("create", v, <<>>), [type |-> type, upd_marker |-> FALSE], "create")
  /\ UNCHANGED <<leb, req, blank, up, vols, ro_mode>>

RemoveVol(v) ==
  /\ Ready /\ ~ro_mode
  /\ vols[v] # NoVol
  /\ ChangeVtblRecord(Begin("remove", v, <<>>), NoRec, "remove")
  /\ UNCHANGED <<leb, req, blank, up, vols, ro_mode>>

\* Mutant of VolumeWrite: the volume is wiped without setting the update marker.
VolumeWriteNoMarker(v, data) ==
  /\ Ready /\ ~ro_mode
  /\ vols[v] # NoVol
  /\ vols' = [vols EXCEPT ![v].updating = TRUE]
  /\ op' = [Begin("write", v, data) EXCEPT !.pc = "wipe"]
  /\ UNCHANGED <<leb, req, blank, up, vtbl, ro_mode>>

\* ubi_start_update: set the update marker, unless it is set, and wipe the volume.
VolumeWrite(v, data) ==
  /\ Ready /\ ~ro_mode
  /\ vols[v] # NoVol
  /\ vols' = [vols EXCEPT ![v].updating = TRUE]
  /\ IF vols[v].upd_marker
       THEN /\ op' = [Begin("write", v, data) EXCEPT !.pc = "wipe"] /\ vtbl' = vtbl
       ELSE ChangeVtblRecord(Begin("write", v, data), Marked(vtbl[v], TRUE), "set")
  /\ UNCHANGED <<leb, req, blank, up, ro_mode>>

\* In read-only mode an update gets as far as its first EBA call, in RAM only.
VolumeWriteRefused(v) ==
  /\ Ready /\ ro_mode
  /\ vols[v] # NoVol
  /\ vols' = [vols EXCEPT ![v].updating = TRUE, ![v].upd_marker = TRUE]
  /\ vtbl' = IF vols[v].upd_marker THEN vtbl ELSE [vtbl EXCEPT ![v] = Marked(@, TRUE)]
  /\ op' = Idle("err")
  /\ UNCHANGED <<leb, req, blank, up, ro_mode>>

\* ubi_volume_read: reading is refused during and after an unfinished update, and an
\* empty static volume reads as success with the buffer untouched.
Readable(v) == vols[v] # NoVol /\ ~vols[v].updating /\ ~vols[v].upd_marker
VolumeRead(v) == [n \in 0..vols[v].used_ebs - 1 |-> leb[<<v, n>>]]

-----------------------------------------------------------------------------
(* Attaching (ubi part): ubi_read_volume_table and what follows it.         *)

\* process_lvol: copy 0 if it is intact, else copy 1.
Chosen == IF Checked(0) THEN 0 ELSE 1
Attachable == Checked(Chosen) /\ Sane(TableOf(Chosen))
NoCopies == leb[Copy(0)] = Unmapped /\ leb[Copy(1)] = Unmapped

Restore(i) == up' = "restore" /\ op' = [Idle("none") EXCEPT !.cmd = "restore", !.i = i]

\* init_volumes.  How much data a static volume has is found by scanning; it is not
\* used before the next update if the update marker is set.
Found(v) == Cardinality({n \in Lnum : leb[<<v, n>>] # Unmapped})
InitVolumes(t) ==
  /\ vols' = [v \in Vol |->
       IF t[v] = NoRec THEN NoVol
       ELSE [upd_marker |-> t[v].upd_marker, updating |-> FALSE,
             used_ebs |-> CASE t[v].type = "dynamic" -> Ebs
                            [] t[v].type = "static" /\ t[v].upd_marker -> 0
                            [] OTHER -> Found(v)]]
  /\ up' = "erase" /\ op' = Idle("none")

\* Mutant of AttachTable: the other copy is not restored.
AttachTableNoRestore ==
  /\ up = "down" /\ Attachable
  /\ vtbl' = TableOf(Chosen)
  /\ InitVolumes(TableOf(Chosen))
  /\ UNCHANGED <<leb, req, blank, ro_mode>>

\* The copies differ: restore the other one; or go on with the volumes.
AttachTable ==
  /\ up = "down" /\ Attachable
  /\ vtbl' = TableOf(Chosen)
  /\ IF leb[Copy(0)] = leb[Copy(1)]
       THEN InitVolumes(TableOf(Chosen))
       ELSE Restore(1 - Chosen) /\ vols' = vols
  /\ UNCHANGED <<leb, req, blank, ro_mode>>

\* create_empty_lvol writes both copies; finding and erasing an eraseblock for
\* the first one ends the time when the flash is blank.
AttachBlank ==
  /\ up = "down" /\ NoCopies /\ blank
  /\ blank' = FALSE
  /\ Restore(0)
  /\ UNCHANGED <<leb, req, vtbl, vols, ro_mode>>

AttachError ==
  /\ up = "down" /\ ~Attachable /\ ~(NoCopies /\ blank)
  /\ up' = "failed"
  /\ UNCHANGED <<leb, req, blank, vtbl, vols, ro_mode, op>>

\* create_vtbl writes copy op.i to a new eraseblock, which replaces the old one.
CreateVtbl ==
  /\ up = "restore"
  /\ leb' = [leb EXCEPT ![Copy(op.i)] = <<vtbl>>]
  /\ IF op.i = 0 /\ leb[Copy(1)] # <<vtbl>>
       THEN Restore(1) /\ vols' = vols
       ELSE InitVolumes(vtbl)
  /\ UNCHANGED <<req, blank, vtbl, ro_mode>>

\* What an interrupted or failed create_vtbl leaves.
CreateVtblLeft == {[leb EXCEPT ![Copy(op.i)] = c] : c \in EBA!Partial(<<vtbl>>)}

CreateVtblError ==
  /\ up = "restore" /\ "write" \in Faults
  /\ leb' \in {leb} \cup CreateVtblLeft
  /\ up' = "failed" /\ op' = Idle("none")
  /\ UNCHANGED <<req, blank, vtbl, vols, ro_mode>>

\* Mutant of Unknown: LEBs without a volume are kept.
UnknownKept == {}

\* LEBs of volumes the table does not know (check_scanning_info); ubi_wl_init_scan
\* erases them.
Unknown == {l \in VolLeb : vtbl[l[1]] = NoRec /\ leb[l] # Unmapped}

EraseUnknown ==
  /\ up = "erase" /\ ~ro_mode
  /\ \E l \in Unknown : leb' = [leb EXCEPT ![l] = Unmapped]
  /\ UNCHANGED <<req, blank, up, vtbl, vols, ro_mode, op>>

\* What an interrupted or failed erasure leaves.
EraseLeft == UNION {{[leb EXCEPT ![l] = c] : c \in EBA!Scrambled(leb[l])} : l \in Unknown}

EraseUnknownError ==
  /\ up = "erase" /\ ~ro_mode /\ "write" \in Faults
  /\ leb' \in EraseLeft
  /\ ro_mode' = TRUE
  /\ UNCHANGED <<req, blank, up, vtbl, vols, op>>

AttachDone ==
  /\ up = "erase" /\ (ro_mode \/ Unknown = {})
  /\ up' = "up"
  /\ UNCHANGED <<leb, req, blank, vtbl, vols, ro_mode, op>>

-----------------------------------------------------------------------------
(* Power.                                                                   *)

LoseRam ==
  /\ up' = "down" /\ ro_mode' = FALSE
  /\ vtbl' = NoTable /\ vols' = [v \in Vol |-> NoVol]
  /\ op' = Idle("none") /\ req' = EBA!Idle("none")
  /\ blank' = blank

\* A reset, ubi part again, or Linux: between commands.
Reboot == (Ready \/ up = "failed") /\ leb' = leb /\ LoseRam

Interrupted ==
  CASE req.kind # "idle" -> {[leb EXCEPT ![req.lnum] = c] : c \in EBA!Allowed(req)}
    [] up = "restore" -> CreateVtblLeft
    [] up = "erase" -> EraseLeft
    [] OTHER -> {}

PowerCut ==
  /\ "cut" \in Faults /\ up \in {"restore", "erase", "up"}
  /\ leb' \in {leb} \cup Interrupted
  /\ LoseRam

-----------------------------------------------------------------------------
\* A flash that is blank, or that was formatted with an empty volume table.
Init ==
  /\ leb = [l \in VolLeb \cup {Copy(0), Copy(1)} |->
              IF l \in VolLeb \/ StartBlank THEN Unmapped ELSE <<NoTable>>]
  /\ req = EBA!Idle("none")
  /\ blank = StartBlank
  /\ up = "down" /\ ro_mode = FALSE
  /\ vtbl = NoTable /\ vols = [v \in Vol |-> NoVol]
  /\ op = Idle("none")

Command ==
  \/ \E v \in Vol, type \in {"dynamic", "static"} : CreateVolume(v, type)
  \/ \E v \in Vol : RemoveVol(v) \/ VolumeWriteRefused(v)
  \/ \E v \in Vol : \E n \in 0..Ebs : \E data \in [1..n -> Data] : VolumeWrite(v, data)

Program ==
  \/ EbaSkip \/ EbaCall \/ EbaReturn \/ EbaError \/ EbaRefused \/ EbaNoMemory
  \/ AttachTable \/ AttachBlank \/ AttachError \/ CreateVtbl \/ CreateVtblError
  \/ EraseUnknown \/ EraseUnknownError \/ AttachDone

Next == Command \/ Program \/ Reboot \/ PowerCut

\* U-Boot has one thread, which runs while there is power.
Spec == Init /\ [][Next]_vars /\ WF_vars(Program)

-----------------------------------------------------------------------------
(* Properties.                                                              *)

\* The type of every variable.
TypeOK ==
  /\ leb \in [VolLeb \cup {Copy(0), Copy(1)} -> EBA!Content \cup {Unmapped}]
  /\ req \in EBA!Request \cup {EBA!Idle(r) : r \in {"none", "ok", "err"}}
  /\ up \in {"down", "restore", "erase", "up", "failed"}
  /\ vtbl \in Table
  /\ vols \in [Vol -> Volume \cup {NoVol}]
  /\ ro_mode \in BOOLEAN /\ blank \in BOOLEAN
  /\ op \in Op

\* Redundancy "guarantees robustness to unclean reboots": whenever power is cut or
\* the flash fails, while the table changes or while a lost copy is restored from
\* the other, one intact copy remains and it is the one process_lvol would take.
VtblRecoverable == Attachable

\* Between commands, RAM and flash agree: both copies hold the table in RAM, and the
\* marker of every volume is the one a reboot would find.
VtblInSync ==
  Ready /\ ~ro_mode =>
    /\ leb[Copy(0)] = <<vtbl>> /\ leb[Copy(1)] = <<vtbl>>
    /\ \A v \in Vol : IF vtbl[v] = NoRec THEN vols[v] = NoVol
                                        ELSE vols[v].upd_marker = vtbl[v].upd_marker

\* A volume the table knows never contains LEBs of a removed one with the same ID:
\* when a volume is created, whatever happened while the old one was removed,
\* nothing of it is left.
NoLeftovers ==
  \A v \in Vol : op.cmd = "create" /\ op.v = v => \A n \in Lnum : leb[<<v, n>>] = Unmapped

\* What a reader finds after a reboot, and the refinement of VolStore: no power cut
\* or flash error mixes old and new data in a volume without update marker.
Visible(c) == IF c \in {Unmapped, <<>>} THEN Blank ELSE c[1]
DurableTable == IF Attachable THEN TableOf(Chosen) ELSE NoTable
Stored(v) ==
  IF DurableTable[v] = NoRec THEN Absent
  ELSE IF DurableTable[v].upd_marker THEN Damaged
  ELSE [n \in Lnum |-> Visible(leb[<<v, n>>])]
Argument(data) == [n \in Lnum |-> IF n < Len(data) THEN data[n + 1] ELSE Blank]
AbsCommand == IF op.cmd \in {"none", "restore"} THEN [cmd |-> "none", ret |-> op.ret]
              ELSE [cmd |-> op.cmd, v |-> op.v, arg |-> Argument(op.data)]

VS == INSTANCE VolStore WITH Volumes <- Vol, Empty <- Argument(<<>>),
                             store <- [v \in Vol |-> Stored(v)], vreq <- AbsCommand

ImplementsVolStore == VS!VSpec

\* Between commands, read-only mode included, a read that reports success gives what
\* is stored on the flash: never the data of a damaged volume, although a command
\* that failed half way left RAM and flash different.  (A volume whose removal failed
\* stays readable until the reboot that makes it disappear.)
ReadIsStored ==
  \A v \in Vol :
    Ready /\ Readable(v) =>
      \/ Stored(v) = Absent
      \/ /\ Stored(v) # Damaged
         /\ \A n \in DOMAIN VolumeRead(v) : Visible(VolumeRead(v)[n]) = Stored(v)[n]

\* Unless power is cut again and again, attaching ends and every command returns,
\* also when the flash fails in the middle of it.
Settles == []<><<PowerCut>>_vars \/ []<>(Ready \/ up = "failed")
=============================================================================
