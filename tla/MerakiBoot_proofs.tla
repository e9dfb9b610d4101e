------------------------- MODULE MerakiBoot_proofs -------------------------
(***************************************************************************)
(* An upgrade is started at most five times, and the fallback images are   *)
(* tried before the board gives up: the proofs, for every range of the     *)
(* counter and every number of upgrades.                                   *)
(***************************************************************************)
EXTENDS MerakiBoot, TLAPS

USE ByteAssumption, InstallsAssumption, ContentsAssumption DEF Byte

\* A limited counter is at most five and no more than the counter.
LEMMA SaneType == \A c \in Byte : Sane(c) \in 0..5 /\ Sane(c) <= c /\ Sane(c) \in Byte
  BY DEF Sane

\* The initial states.
LEMMA InitTries == Init => TriesInv
  BY SaneType DEF Init, TriesInv, TypeOK, TriesBounded, TriesLeft, VOL!NoCommand, StartsCounted,
                  Images, Quality

\* What a cut or a step of the write of the counter may leave: the old value, the
\* new one, or a damaged volume.
LEMMA StepOfWrite ==
  ASSUME NEW n \in Byte, NEW c,
         NEW d \in VOL!Step([cmd |-> "write", v |-> "retries", arg |-> n], c)
  PROVE  d \in {c, n, Damaged}
  BY DEF VOL!Step

\* Steps of the scripts that leave the volumes and the starts alone.
LEMMA QuietSteps ==
  ASSUME TriesInv, PowerOn \/ BootCmd \/ MfgBoot \/ CheckNew \/ BootSafe \/ BootOld
  PROVE  TriesInv'
<1> USE DEF TriesInv, TypeOK, TriesBounded, TriesLeft, Goto, ReadAndBoot, Images
<1>1. CASE PowerOn
    BY <1>1 DEF PowerOn
<1>2. CASE BootCmd
    BY <1>2 DEF BootCmd
<1>3. CASE MfgBoot
    BY <1>3 DEF MfgBoot
<1>4. CASE CheckNew
    BY <1>4 DEF CheckNew
<1>5. CASE BootSafe
    BY <1>5 DEF BootSafe
<1>6. CASE BootOld
    BY <1>6 DEF BootOld
<1> QED
    BY <1>1, <1>2, <1>3, <1>4, <1>5, <1>6

\* meraki_check_upgrade as far as the write: the start it prepares is one of those
\* the counter allowed.
LEMMA CheckStep ==
  ASSUME TriesInv, CheckUpgrade
  PROVE  TriesInv'
<1> USE DEF TriesInv, TypeOK, TriesBounded, TriesLeft, Goto
<1>1. CASE store["retries"] = Damaged
    BY <1>1 DEF CheckUpgrade
<1>2. CASE store["retries"] # Damaged
  <2>1. PICK c \in CountRead :
          IF Sane(c) = 0
            THEN pc' = "safe" /\ count' = 0 /\ vreq' = vreq
            ELSE /\ pc' = "write"
                 /\ count' = Sane(c) - 1
                 /\ vreq' = [cmd |-> "write", v |-> "retries", arg |-> count']
      BY <1>2 DEF CheckUpgrade
  <2>2. /\ store' = store /\ starts' = starts /\ installs' = installs /\ image' = image
        /\ pc = "count" /\ (vreq' # vreq => store["retries"] # Absent)
      BY <2>1 DEF CheckUpgrade, VOL!VBegin
  <2>3. CASE Sane(c) = 0
      BY <2>1, <2>2, <2>3
  <2>4. CASE Sane(c) # 0
    <3>1. vreq' # vreq
        BY <2>1, <2>2, <2>4
    <3>2. c \in Byte /\ starts + Sane(c) <= 5
        BY <1>2, <2>2, <3>1, SaneType DEF CountRead
    <3>3. count' \in Byte /\ starts' + count' < 5
        BY <2>1, <2>2, <2>4, <3>2, SaneType
    <3> QED
        BY <2>1, <2>2, <2>4, <3>3
  <2> QED
      BY <2>3, <2>4
<1> QED
    BY <1>1, <1>2

\* The write of the counter, up to its return.
LEMMA WriteSteps ==
  ASSUME TriesInv, CountProgress \/ CountWritten
  PROVE  TriesInv'
<1> USE DEF TriesInv, TypeOK, TriesBounded, TriesLeft
<1>0. count \in Byte /\ starts + count < 5 /\ Sane(count) = count /\ pc = "write"
    BY DEF CountProgress, CountWritten, Sane
<1>1. CASE CountProgress
  <2>1. PICK c \in {Damaged, count} : store' = [store EXCEPT !["retries"] = c]
      BY <1>1 DEF CountProgress
  <2>2. /\ DOMAIN store' = DOMAIN store /\ store'["retries"] = c
        /\ \A img \in Images : store'[img] = store[img]
      BY <2>1 DEF Images
  <2>3. UNCHANGED <<vreq, pc, count, image, starts, installs>>
      BY <1>1 DEF CountProgress
  <2> QED
      BY <1>0, <2>2, <2>3
<1>2. CASE CountWritten
  <2>1. store' = store /\ UNCHANGED <<count, image, starts, installs>>
      BY <1>2 DEF CountWritten
  <2>2. CASE vreq' = VOL!NoCommand("ok") /\ VOL!VSucceed /\ Goto("load")
    <3>1. store["retries"] = count
        BY <1>0, <2>1, <2>2 DEF VOL!VSucceed, VOL!Result
    <3> QED
        BY <1>0, <2>1, <2>2, <3>1 DEF Goto, VOL!NoCommand
  <2>3. CASE vreq' = VOL!NoCommand("err") /\ VOL!VFail /\ Goto("safe")
      BY <1>0, <2>1, <2>3 DEF Goto, VOL!NoCommand
  <2> QED
      BY <1>2, <2>2, <2>3 DEF CountWritten
<1> QED
    BY <1>1, <1>2

\* The start of the upgrade uses up what the write of the counter took off.
LEMMA StartStep ==
  ASSUME TriesInv, BootNew
  PROVE  TriesInv'
<1> USE DEF TriesInv, TypeOK, TriesBounded, TriesLeft
<1>1. store["retries"] = count /\ starts + count < 5 /\ Sane(count) = count /\ pc = "load"
    BY DEF BootNew, Sane
<1>2. /\ UNCHANGED <<store, vreq, count, installs>>
      /\ pc' \in {"linux", "off", "safe"} /\ image' \in Images \cup {"none", "mfg"}
      /\ starts' \in {starts, starts + 1}
    BY DEF BootNew, ReadAndBoot, Goto, Images
<1> QED
    BY <1>1, <1>2 DEF StartsCounted

\* Losing power anywhere, also in the write of the counter.
LEMMA PowerOffStep ==
  ASSUME TriesInv, PowerOff
  PROVE  TriesInv'
<1> USE DEF TriesInv, TypeOK, TriesBounded, TriesLeft
<1>1. /\ pc' = "off" /\ image' = "none" /\ count' = 0 /\ vreq' = VOL!NoCommand("none")
      /\ UNCHANGED <<starts, installs>>
    BY DEF PowerOff
<1>2. CASE store' = store
    BY <1>1, <1>2 DEF VOL!NoCommand
<1>3. CASE store' # store
  <2>1. pc = "write" /\ \E c \in VOL!Step(vreq, store["retries"]) :
                            store' = [store EXCEPT !["retries"] = c]
      BY <1>3 DEF PowerOff
  <2>2. PICK c \in VOL!Step(vreq, store["retries"]) : store' = [store EXCEPT !["retries"] = c]
      BY <2>1
  <2>3. c \in {store["retries"], count, Damaged}
      BY <2>1, <2>2, StepOfWrite
  <2>4. /\ DOMAIN store' = DOMAIN store /\ store'["retries"] = c
        /\ \A img \in Images : store'[img] = store[img]
      BY <2>2 DEF Images
  <2>5. starts + count < 5 /\ Sane(count) = count
      BY <2>1 DEF Sane
  <2> QED
      BY <1>1, <2>3, <2>4, <2>5 DEF VOL!NoCommand
<1> QED
    BY <1>2, <1>3

\* Linux installs an upgrade with any counter, and confirms the one that runs.
LEMMA LinuxSteps ==
  ASSUME TriesInv, LinuxInstalls \/ LinuxConfirms
  PROVE  TriesInv'
<1> USE DEF TriesInv, TypeOK, TriesBounded, TriesLeft
<1>1. CASE LinuxInstalls
  <2>1. PICK q \in Quality \cup {Damaged, Empty}, c \in Byte \cup {Absent, Damaged, Empty} :
          store' = [store EXCEPT !["new"] = q, !["retries"] = c]
      BY <1>1 DEF LinuxInstalls
  <2>2. /\ DOMAIN store' = DOMAIN store /\ store'["retries"] = c /\ store'["new"] = q
        /\ \A img \in Images \ {"new"} : store'[img] = store[img]
      BY <2>1 DEF Images
  <2>3. starts' = 0 /\ installs' = installs + 1 /\ installs < MaxInstalls /\ pc = "linux"
        /\ UNCHANGED <<vreq, pc, count, image>>
      BY <1>1 DEF LinuxInstalls
  <2> QED
      BY <2>2, <2>3, SaneType DEF StartsCounted
<1>2. CASE LinuxConfirms
  <2>1. /\ DOMAIN store' = DOMAIN store /\ store'["retries"] = Absent
        /\ \A img \in Images : store'[img] \in Quality \cup {Absent, Damaged, Empty}
      BY <1>2 DEF LinuxConfirms, Images
  <2>2. UNCHANGED <<vreq, pc, count, image, starts, installs>> /\ pc = "linux"
      BY <1>2 DEF LinuxConfirms
  <2> QED
      BY <2>1, <2>2
<1> QED
    BY <1>1, <1>2

\* Every step keeps the invariant.
LEMMA StepKeepsTries == TriesInv /\ [Next]_vars => TriesInv'
<1> SUFFICES ASSUME TriesInv, [Next]_vars PROVE TriesInv'
    OBVIOUS
<1>1. CASE Next
    BY <1>1, QuietSteps, CheckStep, WriteSteps, StartStep, PowerOffStep, LinuxSteps
       DEF Next, Script
<1>2. CASE UNCHANGED vars
    BY <1>2 DEF vars, TriesInv, TypeOK, TriesBounded, TriesLeft
<1> QED
    BY <1>1, <1>2

\* meraki_check_upgrade and meraki_boot start an upgrade at most five times before
\* it is confirmed, wherever power is cut and whatever Linux left in the counter.
THEOREM FiveTries == Spec => []TriesBounded
<1>1. TriesInv => TriesBounded
    BY DEF TriesInv
<1> QED
    BY <1>1, InitTries, StepKeepsTries, PTL DEF Spec

\* The counter stays a byte and every volume holds a content the scripts expect.
THEOREM BootTypes == Spec => []TypeOK
<1>1. TriesInv => TypeOK
    BY DEF TriesInv
<1> QED
    BY <1>1, InitTries, StepKeepsTries, PTL DEF Spec

-----------------------------------------------------------------------------
(* The red LED.                                                             *)

\* When the script comes to part.old, part.safe was tried in this boot and cannot be started.
SafeTried == pc = "old" => store["safe"] # "good"

\* Only bootm of part.safe leads to part.old, and until bootm of that one nothing is written.
LEMMA StepKeepsTried == SafeTried /\ [Next]_vars => SafeTried'
<1> SUFFICES ASSUME SafeTried, [Next]_vars PROVE SafeTried'
    OBVIOUS
<1> USE DEF SafeTried, Goto
<1>1. CASE PowerOn \/ BootCmd \/ MfgBoot \/ CheckNew
    BY <1>1 DEF PowerOn, BootCmd, MfgBoot, CheckNew
<1>2. CASE CheckUpgrade
    BY <1>2 DEF CheckUpgrade
<1>3. CASE CountProgress \/ CountWritten
    BY <1>3 DEF CountProgress, CountWritten
<1>4. CASE BootNew
    BY <1>4 DEF BootNew, ReadAndBoot
<1>5. CASE BootSafe
    BY <1>5 DEF BootSafe, ReadAndBoot
<1>6. CASE BootOld
    BY <1>6 DEF BootOld, ReadAndBoot
<1>7. CASE PowerOff \/ LinuxInstalls \/ LinuxConfirms
    BY <1>7 DEF PowerOff, LinuxInstalls, LinuxConfirms
<1>8. CASE UNCHANGED vars
    BY <1>8 DEF vars
<1> QED
    BY <1>1, <1>2, <1>3, <1>4, <1>5, <1>6, <1>7, <1>8 DEF Next, Script

\* The red LED comes on after the images were tried only when neither part.safe nor part.old can
\* be booted, whatever became of part.new and its counter in the same boot.
THEOREM RedIsLast == Spec => RedMeansNoImage
<1>1. ASSUME SafeTried, [Next]_vars, pc' = "red", pc \notin {"part", "mfg"}, vars' # vars
      PROVE  store["safe"] # "good" /\ store["old"] # "good"
  <2> USE <1>1 DEF Goto
  <2>1. CASE PowerOn \/ BootCmd \/ MfgBoot \/ CheckNew
      BY <2>1 DEF PowerOn, BootCmd, MfgBoot, CheckNew
  <2>2. CASE CheckUpgrade \/ CountProgress \/ CountWritten
      BY <2>2 DEF CheckUpgrade, CountProgress, CountWritten
  <2>3. CASE BootNew \/ BootSafe
      BY <2>3 DEF BootNew, BootSafe, ReadAndBoot
  <2>4. CASE BootOld
      BY <2>4 DEF BootOld, ReadAndBoot, SafeTried
  <2>5. CASE PowerOff \/ LinuxInstalls \/ LinuxConfirms
      BY <2>5 DEF PowerOff, LinuxInstalls, LinuxConfirms
  <2> QED
      BY <2>1, <2>2, <2>3, <2>4, <2>5 DEF Next, Script
<1>2. SafeTried /\ [Next]_vars =>
        [pc' = "red" /\ pc \notin {"part", "mfg"} => store["safe"] # "good" /\ store["old"] # "good"]_vars
    BY <1>1
<1>3. Init => SafeTried
    BY DEF Init, SafeTried
<1> QED
    BY <1>2, <1>3, StepKeepsTried, PTL DEF Spec, RedMeansNoImage
=============================================================================
