------------------------------ MODULE LebStore ------------------------------
(***************************************************************************)
(* What the UBI eraseblock-association layer promises its users.           *)
(*                                                                         *)
(* The store maps every logical eraseblock (LEB) to a durable content: the *)
(* pages a reader would find after an unclean reboot, or Unmapped (which   *)
(* reads as 0xFF).  Users issue one request at a time.  A request may only *)
(* change its own LEB, and only in the ways its kind allows; a power cut   *)
(* ends the request and changes no content; wear-levelling, scrubbing and  *)
(* attaching are invisible.                                                *)
(***************************************************************************)
EXTENDS FlashData

CONSTANTS LEB,        \* logical eraseblocks
          Unmapped    \* the content of a LEB no eraseblock carries

VARIABLES leb,        \* leb[l]: the durable content of LEB l
          req         \* the request in progress, or the result of the last one

lsvars == <<leb, req>>

\* A request: base is the content its LEB had when it was issued.
Request == [kind : {"write", "append", "change", "unmap"}, lnum : LEB,
            arg : Written, base : {Unmapped} \cup Content]

\* No request in progress; ret is what the last one returned.
Idle(ret) == [kind |-> "idle", ret |-> ret]

\* The contents request r may give to its LEB.  Writing a LEB nothing is mapped
\* to may stop anywhere, and so may the erasure of a failed attempt; an append whose
\* write fails is moved to another eraseblock, and when this stops the pages written
\* before it may be lost as well; a change of a mapped LEB is atomic; an erasure may
\* stop half way.
Allowed(r) ==
  IF r.base = Unmapped
  THEN {Unmapped} \cup UNION {Scrambled(c) : c \in Partial(r.arg)}
  ELSE CASE r.kind = "append" -> UNION {Scrambled(c) : c \in Partial(r.base \o r.arg)}
         [] r.kind = "change" -> {r.base, r.arg}
         [] OTHER             -> {Unmapped} \cup Scrambled(r.base)

\* A request that reports success has stored what it was given.  (An unmap may
\* come undone by a reboot: the eraseblock is erased "later".)
Stored(r, c) ==
  CASE r.kind = "append" -> c = r.base \o r.arg
    [] r.kind = "unmap"  -> TRUE
    [] OTHER             -> c = r.arg

LInit == /\ leb \in [LEB -> {Unmapped}]
         /\ req = Idle("none")

Begin == /\ req.kind = "idle"
         /\ req' \in Request
         /\ req'.base = leb[req'.lnum]
         /\ req'.kind = "write" => req'.base = Unmapped
         /\ req'.kind \in {"append", "unmap"} => req'.base # Unmapped
         /\ leb' = leb

\* The request in progress changes its own LEB and no other.
Change == /\ req.kind # "idle"
          /\ leb' = [leb EXCEPT ![req.lnum] = leb'[req.lnum]]
          /\ leb'[req.lnum] \in Allowed(req)

Progress == Change /\ req' = req

Succeed == /\ Change
           /\ Stored(req, leb'[req.lnum])
           /\ req' = Idle("ok")

\* A read-only device, no free eraseblock, a write that failed too often.
Fail == /\ leb' = leb
        /\ req' = Idle("err")

\* Power is lost: what the request had done to its LEB stays, whatever the
\* interrupted flash operation left of it included.
Cut == /\ Change \/ leb' = leb
       /\ req' = Idle("none")

LNext == Begin \/ Progress \/ Succeed \/ Fail \/ Cut

LSpec == LInit /\ [][LNext]_lsvars
=============================================================================
