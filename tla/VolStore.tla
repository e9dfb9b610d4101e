------------------------------ MODULE VolStore ------------------------------
(***************************************************************************)
(* What the UBI volume commands (ubi create, remove and write) promise, as *)
(* seen by a reader after a reboot: a volume is absent, damaged (its       *)
(* update marker is set and reading is refused) or holds a complete        *)
(* content.  A command changes one volume, forwards only: an update damages*)
(* the volume and then gives it the new content, never a mixture.          *)
(***************************************************************************)
CONSTANTS Volumes,    \* the volumes
          Absent,     \* no such volume
          Damaged,    \* an update of it did not finish
          Empty       \* the content of a new volume

VARIABLES store,      \* store[v]: what a reader finds in volume v
          vreq        \* the command in progress, or the result of the last one

vsvars == <<store, vreq>>

NoCommand(ret) == [cmd |-> "none", ret |-> ret]

VInit == /\ store \in [Volumes -> {Absent}]
         /\ vreq = NoCommand("none")

VBegin == /\ vreq.cmd = "none"
          /\ \/ vreq'.cmd = "create" /\ store[vreq'.v] = Absent
             \/ vreq'.cmd \in {"remove", "write"} /\ store[vreq'.v] # Absent
          /\ store' = store

\* What command r may turn content c of its volume into, in one step.
Step(r, c) ==
  CASE r.cmd = "create" -> {c, Empty}
    [] r.cmd = "remove" -> {c, Absent}
    [] OTHER            -> IF c = Damaged THEN {c, r.arg} ELSE {c, Damaged}

VChange == /\ vreq.cmd # "none"
           /\ store' = [store EXCEPT ![vreq.v] = store'[vreq.v]]
           /\ store'[vreq.v] \in Step(vreq, store[vreq.v])

VProgress == VChange /\ vreq' = vreq

Result(r) == CASE r.cmd = "create" -> Empty
               [] r.cmd = "remove" -> Absent
               [] OTHER            -> r.arg

\* A command that reports success has taken effect for good.
VSucceed == /\ VChange
            /\ store'[vreq.v] = Result(vreq)
            /\ vreq' = NoCommand("ok")

VFail == VChange /\ vreq' = NoCommand("err")

\* A command that is refused before it starts, and a reboot.
VRefuse == store' = store /\ vreq.cmd = "none" /\ vreq' = NoCommand("err")
VCut == (VChange \/ store' = store) /\ vreq' = NoCommand("none")

VNext == VBegin \/ VProgress \/ VSucceed \/ VFail \/ VRefuse \/ VCut

VSpec == VInit /\ [][VNext]_vsvars
=============================================================================
