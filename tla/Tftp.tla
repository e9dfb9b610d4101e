-------------------------------- MODULE Tftp --------------------------------
(***************************************************************************)
(* Loading a file over the network: the TFTP client (net/tftp.c), the loop *)
(* that runs it (NetLoop and NetStartAgain of net/net.c) and the ARP wait   *)
(* that delays its first packet (net/arp.c), against a server and a network *)
(* that may lose, duplicate, delay and reorder packets.                     *)
(*                                                                          *)
(* The loop is a single thread: it handles packets, looks at the ARP timer, *)
(* then at the timeout handler, and only then at net_state, which packets   *)
(* and timers handled in the same turn may all have set.                    *)
(*                                                                          *)
(* A file is a number of units, the smaller block size being one unit; the  *)
(* larger one, which the server may grant in an OACK, is two.  Memory       *)
(* holds, per unit, which unit of the file was stored there.  Sequence      *)
(* numbers are modulo SEQ instead of 2^16.                                  *)
(***************************************************************************)
EXTENDS Integers, FiniteSets

CONSTANTS SEQ,                \* TFTP_SEQUENCE_SIZE
          TIMEOUT_COUNT,      \* timeouts after which a transfer is started again
          ARP_TIMEOUT_COUNT,  \* ARP requests after which it is
          Ports,              \* the ports the client may take for itself
          MaxSessions,        \* bound: transfers the server begins
          Cells,              \* bound: units of memory looked at
          Scenarios           \* the files, faults and settings to look at

\* Kinds of faults.  "loss", "dup" and "late" are the network's: "late" means that a timer may
\* run out although an answer is on its way, "dup" that packets arrive any number of times and
\* in any order.  "error" are error packets of the server.
Faults == {"loss", "dup", "late", "error"}
Forever == -1

\* len: units of the file; opt: the server grants the larger block size; retry: the variable
\* `netretry', Forever when it is not set.
Scenario == [len : Nat, opt : BOOLEAN, faults : SUBSET Faults, retry : {Forever} \cup Nat]

ASSUME BoundsAssumption == /\ SEQ \in Nat \ {0, 1}
                           /\ TIMEOUT_COUNT \in Nat
                           /\ ARP_TIMEOUT_COUNT \in Nat \ {0}
                           /\ MaxSessions \in Nat
                           /\ Cells \in Nat
ASSUME PortsAssumption == Ports # {} /\ 0 \notin Ports
ASSUME ScenariosAssumption == Scenarios \subseteq Scenario

VARIABLES run,         \* the scenario
          pc,          \* where NetLoop is
          net_state,
          timeHandler, \* the timeout handler: "tftp", "again" or "none"
          udpHandler,  \* TftpHandler is installed
          tries,       \* NetTryCount
          ret,         \* what NetLoop returned last: "ok", "fail", "abort" (both are -1), or "none"
          ether,       \* NetServerEther is known
          arpWait,     \* NetArpWaitPacketIP is set
          arpTry,      \* NetArpWaitTry
          tx,          \* NetTxPacket: the last packet put together
          state,       \* TftpState
          ourPort,     \* TftpOurPort
          remotePort,  \* TftpRemotePort; 0 is the well-known port
          block,       \* TftpBlock, TftpLastBlock
          lastBlock,
          wrapOffset,  \* TftpBlockWrapOffset, in units
          blkSize,     \* TftpBlkSize, in units
          timeouts,    \* TftpTimeoutCount
          xferSize,    \* NetBootFileXferSize, in units
          mem,         \* mem[u]: the unit of the file stored at load_addr + u, 0 for none
          net,         \* the packets on their way
          sessions     \* the server's transfers, by the port it took for each

loop == <<pc, net_state, timeHandler, udpHandler, tries, ret>>
arp == <<ether, arpWait, arpTry, tx>>
transfer == <<state, ourPort, remotePort, block, lastBlock, wrapOffset, blkSize, timeouts>>
store == <<xferSize, mem>>
world == <<net, sessions>>
vars == <<run, loop, arp, transfer, store, world>>

(***************************************************************************)
(* Packets.  port is the client's port, tid the server's.                  *)
(***************************************************************************)
ArpRequest == [kind |-> "arp-request"]
ArpReply == [kind |-> "arp-reply"]
RRQ(p) == [kind |-> "RRQ", port |-> p]
OACK(p, t) == [kind |-> "OACK", port |-> p, tid |-> t]
ACK(p, t, n) == [kind |-> "ACK", port |-> p, tid |-> t, num |-> n]
ERROR(p, t, e) == [kind |-> "ERROR", port |-> p, tid |-> t, code |-> e]

\* Block b of a transfer with blocks of z units: `count' units after the first `at' ones.
DATA(p, t, b, z) ==
  [kind |-> "DATA", port |-> p, tid |-> t, num |-> b % SEQ, at |-> (b - 1) * z,
   count |-> IF b * z <= run.len THEN z ELSE run.len - (b - 1) * z]

\* The network after packet m has been received and the packets of `sent' have been sent.
Carry(m, sent) == IF "dup" \in run.faults THEN net \cup sent ELSE (net \ {m}) \cup sent

(***************************************************************************)
(* Sending (TftpSend, NetSendUDPPacket).  Without the server's address the *)
(* packet waits in NetTxPacket for the answer to an ARP request.           *)
(***************************************************************************)
\* What TftpSend sends in the present state.
Current == IF state = "SEND_RRQ" THEN RRQ(ourPort) ELSE ACK(ourPort, remotePort, block)

\* A mutant of Send: a packet that waits for an address is not replaced.
SendKeepsWaiting(N, msg, known) ==
  /\ tx' = IF arpWait THEN tx ELSE msg
  /\ ether' = known
  /\ IF known
     THEN net' = N \cup {msg} /\ UNCHANGED <<arpWait, arpTry>>
     ELSE net' = N \cup {ArpRequest} /\ arpWait' = TRUE /\ arpTry' = 1

\* The network N to which the packet msg or an ARP request is added.
Send(N, msg, known) ==
  /\ tx' = msg
  /\ ether' = known
  /\ IF known
     THEN net' = N \cup {msg} /\ UNCHANGED <<arpWait, arpTry>>
     ELSE net' = N \cup {ArpRequest} /\ arpWait' = TRUE /\ arpTry' = 1

(***************************************************************************)
(* NetStartAgain.  With one device, or when all were tried, the next try   *)
(* begins after a pause without a handler.  armed is the timeout handler    *)
(* that is left when it is called.                                         *)
(***************************************************************************)
\* A mutant of NetStartAgain: a try is only counted when it begins at once.
NetStartAgainUncounted(armed) ==
  IF run.retry # Forever /\ tries >= run.retry
  THEN net_state' = "FAIL" /\ timeHandler' = armed /\ UNCHANGED <<tries, udpHandler>>
  ELSE \/ timeHandler' = "again" /\ udpHandler' = FALSE /\ UNCHANGED <<tries, net_state>>
       \/ tries' = tries + 1 /\ net_state' = "RESTART" /\ timeHandler' = armed
            /\ UNCHANGED udpHandler

NetStartAgain(armed) ==
  IF run.retry # Forever /\ tries >= run.retry
  THEN net_state' = "FAIL" /\ timeHandler' = armed /\ UNCHANGED <<tries, udpHandler>>
  ELSE /\ tries' = IF run.retry = Forever THEN tries ELSE tries + 1
       /\ \/ timeHandler' = "again" /\ udpHandler' = FALSE /\ UNCHANGED net_state
          \/ net_state' = "RESTART" /\ timeHandler' = armed /\ UNCHANGED udpHandler

\* TftpOurPort comes from a timer.  It is taken to differ from those of earlier attempts as long
\* as there are packets or transfers for them.
FreshPorts == Ports \ ({m.port : m \in {n \in net : n.kind \notin {"arp-request", "arp-reply"}}}
                         \cup {sessions[t].port : t \in DOMAIN sessions})

\* `restart' in NetLoop and TftpStart.  TftpLastBlock and the offset keep their values until the
\* first block arrives.
TftpStart ==
  /\ net_state' = "CONTINUE"
  /\ xferSize' = 0
  /\ state' = "SEND_RRQ"
  /\ timeHandler' = "tftp"
  /\ udpHandler' = TRUE
  /\ remotePort' = 0
  /\ timeouts' = 0
  /\ ourPort' \in FreshPorts
  /\ block' = 0
  /\ blkSize' = 1
  /\ Send(net, RRQ(ourPort'), FALSE)
  /\ pc' = "rx"
  /\ UNCHANGED <<lastBlock, wrapOffset>>

\* The command `tftpboot': NetLoop from its beginning.  Memory may have been used meanwhile; the
\* variables of this file still have the values an earlier transfer left.
Command ==
  /\ pc = "idle"
  /\ tries' = 1
  /\ ret' = "none"
  /\ mem' = [u \in 1..Cells |-> 0]
  /\ TftpStart
  /\ UNCHANGED <<run, sessions>>

(***************************************************************************)
(* Packets for the client (TftpHandler, ArpReceive).                       *)
(***************************************************************************)
ToClient == {m \in net : m.kind \in {"OACK", "DATA", "ERROR"}}

Accepts(m) == /\ udpHandler
              /\ m.port = ourPort
              /\ state # "SEND_RRQ" => m.tid = remotePort

Ignore(m) ==
  /\ ~Accepts(m)
  /\ net' = Carry(m, {})
  /\ UNCHANGED <<run, loop, arp, transfer, store, sessions>>

\* An option acknowledgement is accepted in every state, and answered with the last block.
ReceiveOack(m) ==
  /\ m.kind = "OACK" /\ Accepts(m)
  /\ state' = "OACK"
  /\ remotePort' = m.tid
  /\ blkSize' = 2
  /\ Send(Carry(m, {}), ACK(ourPort, m.tid, block), ether)
  /\ UNCHANGED <<run, loop, ourPort, block, lastBlock, wrapOffset, timeouts, store, sessions>>

\* A mutant of WrapOffset: the wrap is not counted.
WrapOffsetNone(n) == wrapOffset

\* update_block_number
WrapOffset(n) == IF n = 0 THEN wrapOffset + blkSize * SEQ ELSE wrapOffset
CountTimeouts(n) == IF n = 0 THEN 0 ELSE timeouts

FirstData == state \in {"SEND_RRQ", "OACK"}

ReceiveFirstNotOne(m) ==
  /\ m.kind = "DATA" /\ Accepts(m)
  /\ FirstData
  /\ m.num # 1
  /\ state' = "DATA"
  /\ remotePort' = m.tid
  /\ block' = m.num
  /\ timeouts' = CountTimeouts(m.num)
  /\ lastBlock' = 0
  /\ wrapOffset' = 0
  /\ net' = Carry(m, {})
  /\ NetStartAgain(timeHandler)
  /\ UNCHANGED <<run, pc, ret, arp, ourPort, blkSize, store, sessions>>

ReceiveSameBlock(m) ==
  /\ m.kind = "DATA" /\ Accepts(m)
  /\ ~FirstData
  /\ m.num = lastBlock
  /\ block' = m.num
  /\ wrapOffset' = WrapOffset(m.num)
  /\ timeouts' = CountTimeouts(m.num)
  /\ net' = Carry(m, {})
  /\ UNCHANGED <<run, loop, arp, state, ourPort, remotePort, lastBlock, blkSize, store, sessions>>

\* store_block: `offset' units are before the block.
StoreBlock(m, offset) ==
  /\ mem' = [u \in 1..Cells |-> IF u - offset \in 1..m.count THEN m.at + u - offset ELSE mem[u]]
  /\ xferSize' = IF xferSize < offset + m.count THEN offset + m.count ELSE xferSize

\* A mutant of ReceiveData: an empty block is not taken for the last one.
ReceiveDataNotEmpty(m) ==
  /\ m.kind = "DATA" /\ Accepts(m)
  /\ IF FirstData THEN m.num = 1 ELSE m.num # lastBlock
  /\ state' = "DATA"
  /\ remotePort' = m.tid
  /\ block' = m.num
  /\ lastBlock' = m.num
  /\ timeouts' = CountTimeouts(m.num)
  /\ wrapOffset' = IF FirstData THEN 0 ELSE WrapOffset(m.num)
  /\ timeHandler' = "tftp"
  /\ StoreBlock(m, (m.num - 1) * blkSize + wrapOffset')
  /\ Send(Carry(m, {}), ACK(ourPort, m.tid, m.num), ether)
  /\ net_state' = IF m.count \in 1..(blkSize - 1) THEN "SUCCESS" ELSE net_state
  /\ UNCHANGED <<run, pc, udpHandler, tries, ret, ourPort, blkSize, sessions>>

ReceiveData(m) ==
  /\ m.kind = "DATA" /\ Accepts(m)
  /\ IF FirstData THEN m.num = 1 ELSE m.num # lastBlock
  /\ state' = "DATA"
  /\ remotePort' = m.tid
  /\ block' = m.num
  /\ lastBlock' = m.num
  /\ timeouts' = CountTimeouts(m.num)
  /\ wrapOffset' = IF FirstData THEN 0 ELSE WrapOffset(m.num)
  /\ timeHandler' = "tftp"
  /\ StoreBlock(m, (m.num - 1) * blkSize + wrapOffset')
  /\ Send(Carry(m, {}), ACK(ourPort, m.tid, m.num), ether)
  /\ net_state' = IF m.count < blkSize THEN "SUCCESS" ELSE net_state
  /\ UNCHANGED <<run, pc, udpHandler, tries, ret, ourPort, blkSize, sessions>>

ReceiveError(m) ==
  /\ m.kind = "ERROR" /\ Accepts(m)
  /\ net' = Carry(m, {})
  /\ IF m.code = "not-found"
     THEN net_state' = "FAIL" /\ UNCHANGED <<timeHandler, udpHandler, tries>>
     ELSE NetStartAgain(timeHandler)
  /\ UNCHANGED <<run, pc, ret, arp, transfer, store, sessions>>

\* ArpReceive: the answer is used if one is waited for, and the packet that waits is sent.
ReceiveArp ==
  /\ ArpReply \in net
  /\ IF arpWait
     THEN ether' = TRUE /\ arpWait' = FALSE /\ net' = Carry(ArpReply, {tx})
     ELSE net' = Carry(ArpReply, {}) /\ UNCHANGED <<ether, arpWait>>
  /\ UNCHANGED <<run, loop, arpTry, tx, transfer, store, sessions>>

\* eth_rx handles any number of packets.
Receive ==
  /\ pc = "rx"
  /\ \/ ReceiveArp
     \/ \E m \in ToClient : \/ Ignore(m)
                            \/ ReceiveOack(m)
                            \/ ReceiveFirstNotOne(m)
                            \/ ReceiveSameBlock(m)
                            \/ ReceiveData(m)
                            \/ ReceiveError(m)

(***************************************************************************)
(* The rest of a turn of NetLoop.                                          *)
(***************************************************************************)
\* Whether a timer may have run out: not while an answer is about to come.
Waited == net = {} \/ "late" \in run.faults

Goto(from, to) == pc = from /\ pc' = to

\* NetLoop returns.  Packets are only received inside it, and those that are on their way are
\* taken to be gone when it is called again.
Return(from, r) ==
  /\ Goto(from, "idle")
  /\ timeHandler' = "none"
  /\ udpHandler' = FALSE
  /\ ret' = r
  /\ net' = {} /\ sessions' = <<>>

\* ctrl-c, which also cancels a pending ARP request.
Abort ==
  /\ Return("rx", "abort")
  /\ arpWait' = FALSE
  /\ UNCHANGED <<run, net_state, tries, ether, arpTry, tx, transfer, store>>

\* ArpTimeoutCheck.  The address waited for is kept when the transfer is started again.
ArpTimeout ==
  /\ Goto("rx", "timer")
  /\ arpWait
  /\ Waited
  /\ IF arpTry + 1 >= ARP_TIMEOUT_COUNT
     THEN arpTry' = 0 /\ NetStartAgain(timeHandler) /\ UNCHANGED net
     ELSE /\ arpTry' = arpTry + 1
          /\ net' = net \cup {ArpRequest}
          /\ UNCHANGED <<net_state, timeHandler, udpHandler, tries>>
  /\ UNCHANGED <<run, ret, ether, arpWait, tx, transfer, store, sessions>>

NoArpTimeout ==
  /\ Goto("rx", "timer")
  /\ UNCHANGED <<run, net_state, timeHandler, udpHandler, tries, ret, arp, transfer, store, world>>

\* A mutant of TftpTimeout: the timer is not armed again for the packet that is repeated.
TftpTimeoutOnce ==
  /\ Goto("timer", "switch")
  /\ timeHandler = "tftp"
  /\ Waited
  /\ timeouts' = timeouts + 1
  /\ IF timeouts + 1 > TIMEOUT_COUNT
     THEN NetStartAgain("none") /\ UNCHANGED <<net, arp>>
     ELSE /\ timeHandler' = "none"
          /\ Send(net, Current, ether)
          /\ UNCHANGED <<net_state, udpHandler, tries>>
  /\ UNCHANGED <<run, ret, state, ourPort, remotePort, block, lastBlock, wrapOffset, blkSize,
                 store, sessions>>

\* A mutant of TftpTimeout: the count is compared before it is increased by one more.
TftpTimeoutLate ==
  /\ Goto("timer", "switch")
  /\ timeHandler = "tftp"
  /\ Waited
  /\ timeouts' = timeouts + 1
  /\ IF timeouts > TIMEOUT_COUNT
     THEN NetStartAgain("none") /\ UNCHANGED <<net, arp>>
     ELSE /\ timeHandler' = "tftp"
          /\ Send(net, Current, ether)
          /\ UNCHANGED <<net_state, udpHandler, tries>>
  /\ UNCHANGED <<run, ret, state, ourPort, remotePort, block, lastBlock, wrapOffset, blkSize,
                 store, sessions>>

\* The handler is cleared before it is called.
TftpTimeout ==
  /\ Goto("timer", "switch")
  /\ timeHandler = "tftp"
  /\ Waited
  /\ timeouts' = timeouts + 1
  /\ IF timeouts + 1 > TIMEOUT_COUNT
     THEN NetStartAgain("none") /\ UNCHANGED <<net, arp>>
     ELSE /\ timeHandler' = "tftp"
          /\ Send(net, Current, ether)
          /\ UNCHANGED <<net_state, udpHandler, tries>>
  /\ UNCHANGED <<run, ret, state, ourPort, remotePort, block, lastBlock, wrapOffset, blkSize,
                 store, sessions>>

StartAgainTimeout ==
  /\ Goto("timer", "switch")
  /\ timeHandler = "again"
  /\ timeHandler' = "none"
  /\ net_state' = "RESTART"
  /\ UNCHANGED <<run, udpHandler, tries, ret, arp, transfer, store, world>>

NoTimeout ==
  /\ Goto("timer", "switch")
  /\ UNCHANGED <<run, net_state, timeHandler, udpHandler, tries, ret, arp, transfer, store, world>>

Continue ==
  /\ Goto("switch", "rx")
  /\ net_state = "CONTINUE"
  /\ UNCHANGED <<run, net_state, timeHandler, udpHandler, tries, ret, arp, transfer, store, world>>

Restart ==
  /\ pc = "switch"
  /\ net_state = "RESTART"
  /\ TftpStart
  /\ UNCHANGED <<run, tries, ret, mem, sessions>>

\* NETLOOP_SUCCESS and NETLOOP_FAIL: the handlers are removed, a pending ARP request is not.
Leave ==
  /\ net_state \in {"SUCCESS", "FAIL"}
  /\ Return("switch", IF net_state = "SUCCESS" THEN "ok" ELSE "fail")
  /\ UNCHANGED <<run, net_state, tries, arp, transfer, store>>

(***************************************************************************)
(* The server and the network (outside the source).                        *)
(***************************************************************************)
Blk(t) == IF run.opt THEN 2 ELSE 1
LastBlockOf(t) == run.len \div Blk(t) + 1

ServerArp ==
  /\ ArpRequest \in net
  /\ net' = Carry(ArpRequest, {ArpReply})
  /\ UNCHANGED <<run, loop, arp, transfer, store, sessions>>

\* A transfer begins with an OACK, that is block 0, or with block 1.
ServerPacket(t, p, b) == IF b = 0 THEN OACK(p, t) ELSE DATA(p, t, b, Blk(t))

\* A server that has MaxSessions transfers does not answer another request.
ServerBegin ==
  \E m \in {n \in net : n.kind = "RRQ"} :
    LET t == Cardinality(DOMAIN sessions) + 1
        b == IF run.opt THEN 0 ELSE 1 IN
    /\ IF t <= MaxSessions
       THEN /\ sessions' = [s \in 1..t |-> IF s = t THEN [port |-> m.port, block |-> b]
                                                     ELSE sessions[s]]
            /\ net' = Carry(m, {ServerPacket(t, m.port, b)})
       ELSE net' = Carry(m, {}) /\ UNCHANGED sessions
    /\ UNCHANGED <<run, loop, arp, transfer, store>>

\* The acknowledgement of the last packet makes the server send the next one; another one is
\* ignored or answered by sending the last packet again.
ServerAck ==
  \E m \in {n \in net : n.kind = "ACK"} :
    LET s == sessions[m.tid] IN
    /\ \/ /\ m.num = s.block % SEQ /\ s.block < LastBlockOf(m.tid)
          /\ sessions' = [sessions EXCEPT ![m.tid].block = @ + 1]
          /\ net' = Carry(m, {ServerPacket(m.tid, m.port, s.block + 1)})
       \/ /\ m.num # s.block % SEQ \/ s.block = LastBlockOf(m.tid)
          /\ net' = Carry(m, {})
          /\ UNCHANGED sessions
       \/ /\ m.num # s.block % SEQ
          /\ net' = Carry(m, {ServerPacket(m.tid, m.port, s.block)})
          /\ UNCHANGED sessions
    /\ UNCHANGED <<run, loop, arp, transfer, store>>

ServerTimeout ==
  \E t \in DOMAIN sessions :
    /\ "loss" \in run.faults \/ "late" \in run.faults
    /\ Waited
    /\ net' = net \cup {ServerPacket(t, sessions[t].port, sessions[t].block)}
    /\ UNCHANGED <<run, loop, arp, transfer, store, sessions>>

ServerError ==
  \E t \in DOMAIN sessions, e \in {"not-found", "other"} :
    /\ "error" \in run.faults
    /\ net' = net \cup {ERROR(sessions[t].port, t, e)}
    /\ UNCHANGED <<run, loop, arp, transfer, store, sessions>>

Lose ==
  \E m \in net :
    /\ "loss" \in run.faults
    /\ net' = net \ {m}
    /\ UNCHANGED <<run, loop, arp, transfer, store, sessions>>

Init ==
  /\ run \in Scenarios
  /\ pc = "idle" /\ net_state = "CONTINUE" /\ timeHandler = "none" /\ udpHandler = FALSE
  /\ tries = 1 /\ ret = "none" /\ ether = FALSE /\ arpWait = FALSE /\ arpTry = 0 /\ tx = ArpRequest
  /\ state = "SEND_RRQ" /\ ourPort = 0 /\ remotePort = 0 /\ block = 0 /\ lastBlock = 0
  /\ wrapOffset = 0 /\ blkSize = 1 /\ timeouts = 0
  /\ xferSize = 0 /\ mem = [u \in 1..Cells |-> 0]
  /\ net = {} /\ sessions = <<>>

Client == \/ Receive \/ ArpTimeout \/ NoArpTimeout
          \/ TftpTimeout \/ StartAgainTimeout \/ NoTimeout
          \/ Continue \/ Restart \/ Leave

Server == ServerArp \/ ServerBegin \/ ServerAck

Next == \/ Command \/ Client \/ Abort
        \/ Server \/ ServerTimeout \/ ServerError \/ Lose

\* NetLoop runs while there is power.  A packet that keeps waiting is received at some time, a
\* timer that stays armed runs out if the loop goes on for ever, and the server answers.
Fairness ==
  /\ WF_vars(Client) /\ SF_vars(Receive)
  /\ SF_vars(ArpTimeout) /\ SF_vars(TftpTimeout) /\ SF_vars(StartAgainTimeout)
  /\ WF_vars(ServerArp) /\ WF_vars(ServerBegin) /\ WF_vars(ServerAck)

Spec == Init /\ [][Next]_vars /\ Fairness

-----------------------------------------------------------------------------
\* Types of the state.
TypeOK ==
  /\ run \in Scenarios
  /\ pc \in {"idle", "rx", "timer", "switch"}
  /\ net_state \in {"CONTINUE", "RESTART", "SUCCESS", "FAIL"}
  /\ timeHandler \in {"none", "tftp", "again"}
  /\ udpHandler \in BOOLEAN
  /\ tries \in Nat
  /\ ret \in {"none", "ok", "fail", "abort"}
  /\ ether \in BOOLEAN /\ arpWait \in BOOLEAN /\ arpTry \in 0..ARP_TIMEOUT_COUNT
  /\ state \in {"SEND_RRQ", "OACK", "DATA"}
  /\ ourPort \in Ports \cup {0}
  /\ remotePort \in 0..MaxSessions
  /\ block \in 0..(SEQ - 1) /\ lastBlock \in 0..(SEQ - 1)
  /\ wrapOffset \in Nat
  /\ blkSize \in {1, 2}
  /\ timeouts \in 0..(TIMEOUT_COUNT + 1)
  /\ xferSize \in Nat
  /\ mem \in [1..Cells -> Nat]

\* "The TFTP get or put is complete" (tftp_complete), and NetLoop reports a success: the whole file is
\* in memory, each part where it belongs, and `filesize' is its size.
OkIsWhole ==
  ret = "ok" => xferSize = run.len /\ \A u \in 1..run.len : mem[u] = u

\* That a success means the whole file, but in two cases: an OACK that is doubled in a transfer of
\* more than two blocks, and block numbers that wrap around on a network with faults.
DoneIsWhole ==
  \/ run.opt /\ "dup" \in run.faults /\ LastBlockOf(remotePort) > 2
  \/ run.faults # {} /\ LastBlockOf(remotePort) >= SEQ
  \/ OkIsWhole

\* As long as NetLoop goes on, a timer is armed that ends the wait for packets.
AlwaysWoken == pc = "rx" /\ net_state = "CONTINUE" => timeHandler # "none"

\* The packet that ArpReceive sends when the address has been found is the one the transfer is
\* waiting to send, however often it was replaced while the request was under way.
WaitingIsCurrent == arpWait /\ udpHandler /\ net_state = "CONTINUE" => tx = Current

\* On a network without faults every transfer comes to its end, unless it is aborted.
Completes ==
  run.faults = {} /\ pc # "idle" ~> pc = "idle" /\ ret \in {"ok", "abort"}

\* When no packet arrives any more, NetLoop gives up after the number of tries in `netretry',
\* although the ARP timer and the TFTP timer restart each other.
GivesUp == run.retry # Forever /\ <>[][~Receive]_vars => [](pc # "idle" => <>(pc = "idle"))
=============================================================================
