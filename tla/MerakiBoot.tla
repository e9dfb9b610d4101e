----------------------------- MODULE MerakiBoot -----------------------------
(***************************************************************************)
(* The boot policy of the board: the scripts bootcmd, bootselect and       *)
(* meraki_boot (msys.h) and meraki_check_upgrade (cmd_meraki.c), which     *)
(* tests and decrements the retry counter of an upgrade.  Linux installs   *)
(* an upgrade as the volumes part.new and upgrade_retries, and confirms it *)
(* once it works.                                                          *)
(*                                                                         *)
(* The volumes are a VolStore, which UbiVolume implements: writing the     *)
(* counter is a command of it, and power may be cut while it runs.         *)
(***************************************************************************)
EXTENDS Integers

CONSTANTS Absent, Damaged, Empty,  \* contents of a volume, as in VolStore
          MaxByte,                 \* the largest value of a uint8_t
          MaxInstalls              \* bound: upgrades Linux installs

ASSUME ByteAssumption == MaxByte \in Nat /\ MaxByte >= 5
ASSUME InstallsAssumption == MaxInstalls \in Nat
ASSUME ContentsAssumption == /\ {Absent, Damaged, Empty} \cap (0..MaxByte) = {}
                             /\ "good" \notin {Absent, Damaged, Empty}
                             /\ Damaged # Absent /\ Empty \notin {Absent, Damaged}

VARIABLES
  store, vreq,  \* the volumes, and the ubi write in progress
  pc,           \* where the boot script is
  count,        \* the counter in meraki_check_upgrade
  image,        \* the image that runs
  starts,       \* how often the installed upgrade was started, up to StartsCounted
  installs      \* upgrades installed so far (bounds the model)

vars == <<store, vreq, pc, count, image, starts, installs>>

Images == {"new", "safe", "old"}
Byte == 0..MaxByte
StartsCounted == 6  \* bound: starts are counted one beyond what is allowed

\* What an image is worth: bootm starts it, refuses it and returns, or resets the
\* board because it failed past the point of no return.
Quality == {"good", "bad", "reset"}

VOL == INSTANCE VolStore WITH Volumes <- Images \cup {"retries"}

Goto(p) == pc' = p

-----------------------------------------------------------------------------
(* bootcmd: a step that fails leads to the red LED and an endless loop.     *)

PowerOn ==
  /\ pc = "off"
  /\ Goto("part") /\ image' = "none"
  /\ UNCHANGED <<store, vreq, count, starts, installs>>

\* ubi part ubi && run muse_load && run tamdump && run bootselect
BootCmd ==
  /\ pc = "part"
  /\ \E p \in {"check", "mfg", "red"} : Goto(p)
  /\ UNCHANGED <<store, vreq, count, image, starts, installs>>

\* mfg_boot: the manufacturing image is not modelled further.
MfgBoot ==
  /\ pc = "mfg"
  /\ \/ Goto("linux") /\ image' = "mfg"
     \/ \E p \in {"off", "red"} : Goto(p) /\ image' = image
  /\ UNCHANGED <<store, vreq, count, starts, installs>>

-----------------------------------------------------------------------------
(* meraki_boot.                                                             *)

\* ubi check part.new && meraki_check_upgrade, which checks its own volume.
CheckNew ==
  /\ pc = "check"
  /\ Goto(IF store["new"] # Absent /\ store["retries"] # Absent THEN "count" ELSE "safe")
  /\ UNCHANGED <<store, vreq, count, image, starts, installs>>

\* What ubi read puts into count: a counter volume that was never written reads as
\* 0xFF, or not at all when it is static, and count is not initialised.
CountRead == IF store["retries"] = Empty THEN Byte ELSE {store["retries"]}
\* Mutant of Sane: the counter is not limited.
SaneNoLimit(c) == c
Sane(c) == IF c > 5 THEN 5 ELSE c

\* Mutants of CheckUpgrade: zero is not tested, so that the counter wraps around, or
\* becomes negative.
CheckUpgradeNoZeroTest ==
  /\ pc = "count"
  /\ IF store["retries"] = Damaged
       THEN Goto("safe") /\ UNCHANGED <<vreq, count>>
       ELSE \E c \in CountRead :
              /\ Goto("write")
              /\ count' = (Sane(c) + MaxByte) % (MaxByte + 1)
              /\ vreq' = [cmd |-> "write", v |-> "retries", arg |-> count']
  /\ UNCHANGED <<store, image, starts, installs>>
CheckUpgradeSigned ==
  /\ pc = "count"
  /\ IF store["retries"] = Damaged
       THEN Goto("safe") /\ UNCHANGED <<vreq, count>>
       ELSE \E c \in CountRead :
              /\ Goto("write")
              /\ count' = Sane(c) - 1
              /\ vreq' = [cmd |-> "write", v |-> "retries", arg |-> count']
  /\ UNCHANGED <<store, image, starts, installs>>

\* do_meraki_check_upgrade as far as the ubi write of the decremented counter.
CheckUpgrade ==
  /\ pc = "count"
  /\ IF store["retries"] = Damaged
       THEN Goto("safe") /\ UNCHANGED <<vreq, count>>
       ELSE \E c \in CountRead :
              IF Sane(c) = 0
                THEN Goto("safe") /\ count' = 0 /\ vreq' = vreq
                ELSE /\ Goto("write")
                     /\ count' = Sane(c) - 1
                     /\ vreq' = [cmd |-> "write", v |-> "retries", arg |-> count']
  /\ store' = store
  /\ vreq' # vreq => VOL!VBegin
  /\ UNCHANGED <<image, starts, installs>>

\* The volume layer works on it, and the write returns.
CountProgress ==
  /\ pc = "write"
  /\ \E c \in {Damaged, count} : store' = [store EXCEPT !["retries"] = c]
  /\ vreq' = vreq
  /\ VOL!VProgress
  /\ UNCHANGED <<pc, count, image, starts, installs>>

CountWritten ==
  /\ pc = "write"
  /\ store' = store
  /\ \/ vreq' = VOL!NoCommand("ok") /\ VOL!VSucceed /\ Goto("load")
     \/ vreq' = VOL!NoCommand("err") /\ VOL!VFail /\ Goto("safe")
  /\ UNCHANGED <<count, image, starts, installs>>

\* ubi read $loadaddr part.x && bootm $loadaddr; the script goes on at otherwise.
\* Reading an empty static volume succeeds and leaves in memory what was there.
ReadAndBoot(img, otherwise) ==
  \/ store[img] \in {"good", Empty} /\ Goto("linux") /\ image' = img
  \/ store[img] \in {"reset", Empty} /\ Goto("off") /\ image' = image
  \/ store[img] \in {Absent, Damaged, Empty, "bad"} /\ Goto(otherwise) /\ image' = image

BootNew ==
  /\ pc = "load"
  /\ ReadAndBoot("new", "safe")
  /\ starts' = IF pc' = "safe" \/ starts = StartsCounted THEN starts ELSE starts + 1
  /\ UNCHANGED <<store, vreq, count, installs>>

\* Mutant of BootSafe: the script ends when part.safe cannot be booted.
BootSafeNoOld ==
  /\ pc = "safe"
  /\ ReadAndBoot("safe", "red")
  /\ UNCHANGED <<store, vreq, count, starts, installs>>

BootSafe ==
  /\ pc = "safe"
  /\ ReadAndBoot("safe", "old")
  /\ UNCHANGED <<store, vreq, count, starts, installs>>

\* Mutant of BootOld: the script starts over.
BootOldLoops ==
  /\ pc = "old"
  /\ ReadAndBoot("old", "safe")
  /\ UNCHANGED <<store, vreq, count, starts, installs>>

BootOld ==
  /\ pc = "old"
  /\ ReadAndBoot("old", "red")
  /\ UNCHANGED <<store, vreq, count, starts, installs>>

-----------------------------------------------------------------------------
(* Power, and Linux.                                                        *)

\* A reset, a crash of the kernel or a power cut, in a ubi write too.
PowerOff ==
  /\ pc # "off"
  /\ pc' = "off" /\ image' = "none" /\ count' = 0
  /\ store' \in {store} \cup
       (IF pc = "write" THEN {[store EXCEPT !["retries"] = c] :
                                c \in VOL!Step(vreq, store["retries"])} ELSE {})
  /\ vreq' = VOL!NoCommand("none")
  /\ VOL!VCut
  /\ UNCHANGED <<starts, installs>>

\* Linux installs an upgrade, perhaps not to the end.
LinuxInstalls ==
  /\ pc = "linux" /\ installs < MaxInstalls
  /\ \E q \in Quality \cup {Damaged, Empty}, c \in Byte \cup {Absent, Damaged, Empty} :
       store' = [store EXCEPT !["new"] = q, !["retries"] = c]
  /\ starts' = 0 /\ installs' = installs + 1
  /\ UNCHANGED <<vreq, pc, count, image>>

\* Linux confirms the upgrade it runs: the counter goes, then the image is renamed.
LinuxConfirms ==
  /\ pc = "linux" /\ image = "new"
  /\ \/ store' = [store EXCEPT !["retries"] = Absent]
     \/ store' = [store EXCEPT !["retries"] = Absent, !["new"] = Absent, !["safe"] = store["new"]]
  /\ UNCHANGED <<vreq, pc, count, image, starts, installs>>

-----------------------------------------------------------------------------
Init ==
  /\ store \in [Images \cup {"retries"} -> Quality \cup {Absent}]
  /\ store["new"] = Absent /\ store["retries"] = Absent
  /\ vreq = VOL!NoCommand("none")
  /\ pc = "off" /\ image = "none" /\ count = 0
  /\ starts = 0 /\ installs = 0

Script == \/ PowerOn \/ BootCmd \/ MfgBoot \/ CheckNew \/ CheckUpgrade
          \/ CountProgress \/ CountWritten \/ BootNew \/ BootSafe \/ BootOld

Next == Script \/ PowerOff \/ LinuxInstalls \/ LinuxConfirms

\* The board boots while it has power, and a write of the counter comes to an end
\* (Settles in UbiVolume).
Spec == Init /\ [][Next]_vars /\ WF_vars(Script) /\ WF_vars(CountWritten)

-----------------------------------------------------------------------------
(* Properties.                                                              *)

\* The type of every variable; the counter stays a byte.
TypeOK ==
  /\ DOMAIN store = Images \cup {"retries"}
  /\ \A img \in Images : store[img] \in Quality \cup {Absent, Damaged, Empty}
  /\ store["retries"] \in Byte \cup {Absent, Damaged, Empty}
  /\ vreq \in {VOL!NoCommand(r) : r \in {"none", "ok", "err"}}
              \cup [cmd : {"write"}, v : {"retries"}, arg : Byte]
  /\ pc \in {"off", "part", "mfg", "check", "count", "write", "load", "safe", "old", "linux", "red"}
  /\ count \in Byte /\ image \in Images \cup {"none", "mfg"}
  /\ starts \in 0..StartsCounted /\ installs \in 0..MaxInstalls

\* An upgrade that is not confirmed is started at most five times, although power
\* may be cut anywhere, also while the counter is read, decremented and written, and
\* whatever Linux left in the counter: the decrement is durable before bootm.
TriesBounded == starts <= 5

\* Why that is so: what the counter on the flash still allows, whether it is the old
\* value or the new one, and the start under way are within the five.  A counter that
\* is damaged allows none, and one that was never written was never used.
TriesLeft ==
  /\ store["retries"] \in Byte => starts + Sane(store["retries"]) <= 5
  /\ store["retries"] = Empty => starts = 0
  /\ pc = "write" => /\ vreq = [cmd |-> "write", v |-> "retries", arg |-> count]
                     /\ starts + count < 5
  /\ pc = "load" => store["retries"] = count /\ starts + count < 5
  /\ pc # "write" => vreq.cmd = "none"

\* The inductive invariant behind TriesBounded.
TriesInv == TypeOK /\ TriesBounded /\ TriesLeft

\* The red LED comes on after the images were tried only if neither fallback can be
\* booted: no failure of part.new or of its counter keeps part.safe or part.old from
\* being tried in the same boot.
RedMeansNoImage ==
  [][pc' = "red" /\ pc \notin {"part", "mfg"} => store["safe"] # "good" /\ store["old"] # "good"]_vars

\* A board that is reset again and again stops starting the upgrade for good.
UpgradeGivenUp == []<>(pc = "off") => <>[](image # "new")

\* Every boot ends in Linux, at the red LED or with another reset.
BootEnds == pc = "part" ~> pc \in {"linux", "red", "off"}
=============================================================================
