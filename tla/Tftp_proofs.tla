---------------------------- MODULE Tftp_proofs ----------------------------
(***************************************************************************)
(* What holds of the network loop and of the transfer for every file, range  *)
(* of block numbers, retry count, set of ports and combination of faults:    *)
(* the loop is always woken, the packet an ARP reply releases is the one the *)
(* transfer wants to send, the types, and - for files of fewer blocks than   *)
(* there are numbers - that success means the whole file.                    *)
(***************************************************************************)
EXTENDS Tftp, FiniteSetTheorems, TLAPS

\* AlwaysWoken holds inside the whole turn, not only where the loop waits.
Woken == pc # "idle" /\ net_state = "CONTINUE" => timeHandler # "none"

\* As long as the handlers are installed, the block that is acknowledged is the last one stored;
\* it is not when the first block was not block 1, but then the transfer is started again.
Acknowledged == state = "DATA" /\ udpHandler /\ net_state = "CONTINUE" => block = lastBlock

\* The inductive invariant.
IInv == /\ state \in {"SEND_RRQ", "OACK", "DATA"}
        /\ Woken /\ Acknowledged /\ WaitingIsCurrent

\* Init establishes the invariant.
LEMMA InitIInv == Init => IInv
  BY DEF Init, IInv, Woken, Acknowledged, WaitingIsCurrent

\* The command and a restart send a request for a new transfer.
LEMMA StartIInv == TftpStart => IInv'
  BY DEF TftpStart, Send, IInv, Woken, Acknowledged, WaitingIsCurrent, Current

\* NetStartAgain leaves CONTINUE only with the pause, when the handler for packets is removed.
LEMMA AgainFacts ==
  ASSUME NEW armed, NetStartAgain(armed)
  PROVE  net_state' # "CONTINUE" \/ (/\ net_state' = net_state
                                     /\ timeHandler' = "again"
                                     /\ udpHandler' = FALSE)
  BY DEF NetStartAgain

\* What a packet does to the invariant.
LEMMA ReceiveIInv == IInv /\ Receive => IInv'
<1> SUFFICES ASSUME IInv, Receive PROVE IInv'
  OBVIOUS
<1> USE DEF IInv
<1>1. pc' = pc /\ pc = "rx"
  BY DEF Receive, ReceiveArp, Ignore, ReceiveOack, ReceiveFirstNotOne, ReceiveSameBlock,
         ReceiveData, ReceiveError, loop
<1>2. CASE ReceiveArp
  BY <1>2 DEF ReceiveArp, Woken, Acknowledged, WaitingIsCurrent, Current, loop, transfer
<1>3. ASSUME NEW m \in ToClient, Ignore(m)
      PROVE  IInv'
  BY <1>3 DEF Ignore, Woken, Acknowledged, WaitingIsCurrent, Current, loop, arp, transfer
<1>4. ASSUME NEW m \in ToClient, ReceiveOack(m)
      PROVE  IInv'
  BY <1>4 DEF ReceiveOack, Send, Woken, Acknowledged, WaitingIsCurrent, Current, loop
<1>5. ASSUME NEW m \in ToClient, ReceiveFirstNotOne(m)
      PROVE  IInv'
  <2>1. net_state' # "CONTINUE" \/ (timeHandler' = "again" /\ udpHandler' = FALSE)
    BY <1>5, AgainFacts DEF ReceiveFirstNotOne
  <2>2. state' = "DATA"
    BY <1>5 DEF ReceiveFirstNotOne
  <2> QED
    BY <2>1, <2>2 DEF Woken, Acknowledged, WaitingIsCurrent
<1>6. ASSUME NEW m \in ToClient, ReceiveSameBlock(m)
      PROVE  IInv'
  <2>1. /\ state' = state /\ ourPort' = ourPort /\ remotePort' = remotePort
        /\ lastBlock' = lastBlock /\ block' = lastBlock /\ tx' = tx /\ arpWait' = arpWait
        /\ udpHandler' = udpHandler /\ net_state' = net_state /\ timeHandler' = timeHandler
    BY <1>6 DEF ReceiveSameBlock, loop, arp
  <2>2. state # "SEND_RRQ" /\ state # "OACK" /\ udpHandler
    BY <1>6 DEF ReceiveSameBlock, FirstData, Accepts
  <2>3. Woken' /\ Acknowledged'
    BY <1>1, <2>1 DEF Woken, Acknowledged
  <2>4. CASE state = "DATA" /\ net_state = "CONTINUE"
    <3>1. block' = block
      BY <2>1, <2>2, <2>4 DEF Acknowledged
    <3> QED
      BY <2>1, <2>3, <3>1 DEF WaitingIsCurrent, Current
  <2>5. CASE net_state # "CONTINUE"
    BY <2>1, <2>3, <2>5 DEF WaitingIsCurrent
  <2>6. CASE state # "DATA"
    BY <2>2, <2>6
  <2> QED
    BY <2>4, <2>5, <2>6
<1>7. ASSUME NEW m \in ToClient, ReceiveData(m)
      PROVE  IInv'
  BY <1>7 DEF ReceiveData, Send, Woken, Acknowledged, WaitingIsCurrent, Current
<1>8. ASSUME NEW m \in ToClient, ReceiveError(m)
      PROVE  IInv'
  <2>1. CASE m.code = "not-found"
    BY <1>8, <2>1 DEF ReceiveError, Woken, Acknowledged, WaitingIsCurrent, transfer
  <2>2. CASE m.code # "not-found"
    <3>1. net_state' # "CONTINUE" \/ (timeHandler' = "again" /\ udpHandler' = FALSE)
      BY <1>8, <2>2, AgainFacts DEF ReceiveError
    <3>2. state' = state
      BY <1>8 DEF ReceiveError, transfer
    <3> QED
      BY <3>1, <3>2 DEF Woken, Acknowledged, WaitingIsCurrent
  <2> QED
    BY <2>1, <2>2
<1> QED
  BY <1>2, <1>3, <1>4, <1>5, <1>6, <1>7, <1>8 DEF Receive

\* One turn of NetLoop, the user and the network preserve the invariant.
LEMMA NextIInv == IInv /\ [Next]_vars => IInv'
<1> SUFFICES ASSUME IInv, [Next]_vars PROVE IInv'
  OBVIOUS
<1> USE DEF IInv
<1>1. CASE Command
  BY <1>1, StartIInv DEF Command
<1>2. CASE Receive
  BY <1>2, ReceiveIInv
<1>3. CASE ArpTimeout
  <2>1. pc = "rx" /\ pc' = "timer" /\ UNCHANGED <<tx, arpWait, transfer>>
    BY <1>3 DEF ArpTimeout, Goto
  <2>2. CASE arpTry + 1 >= ARP_TIMEOUT_COUNT
    <3>1. net_state' # "CONTINUE" \/ (timeHandler' = "again" /\ udpHandler' = FALSE)
      BY <1>3, <2>2, AgainFacts DEF ArpTimeout
    <3> QED
      BY <2>1, <3>1 DEF Woken, Acknowledged, WaitingIsCurrent, transfer
  <2>3. CASE ~(arpTry + 1 >= ARP_TIMEOUT_COUNT)
    <3>1. UNCHANGED <<net_state, timeHandler, udpHandler>>
      BY <1>3, <2>3 DEF ArpTimeout
    <3> QED
      BY <2>1, <3>1 DEF Woken, Acknowledged, WaitingIsCurrent, Current, transfer
  <2> QED
    BY <2>2, <2>3
<1>4. CASE TftpTimeout
  <2>1. /\ pc = "timer" /\ pc' = "switch"
        /\ UNCHANGED <<state, ourPort, remotePort, block, lastBlock>>
    BY <1>4 DEF TftpTimeout, Goto
  <2>2. CASE timeouts + 1 > TIMEOUT_COUNT
    <3>1. net_state' # "CONTINUE" \/ (timeHandler' = "again" /\ udpHandler' = FALSE)
      BY <1>4, <2>2, AgainFacts DEF TftpTimeout
    <3> QED
      BY <2>1, <3>1 DEF Woken, Acknowledged, WaitingIsCurrent
  <2>3. CASE ~(timeouts + 1 > TIMEOUT_COUNT)
    <3>1. timeHandler' = "tftp" /\ tx' = Current /\ UNCHANGED <<net_state, udpHandler>>
      BY <1>4, <2>3 DEF TftpTimeout, Send
    <3> QED
      BY <2>1, <3>1 DEF Woken, Acknowledged, WaitingIsCurrent, Current
  <2> QED
    BY <2>2, <2>3
<1>5. CASE NoArpTimeout \/ NoTimeout \/ Continue
  BY <1>5 DEF NoArpTimeout, NoTimeout, Continue, Goto, Woken, Acknowledged, WaitingIsCurrent,
              Current, arp, transfer
<1>6. CASE StartAgainTimeout
  BY <1>6 DEF StartAgainTimeout, Woken, Acknowledged, WaitingIsCurrent, transfer
<1>7. CASE Restart
  BY <1>7, StartIInv DEF Restart
<1>8. CASE Leave \/ Abort
  BY <1>8 DEF Leave, Abort, Return, Goto, Woken, Acknowledged, WaitingIsCurrent, transfer
<1>9. CASE Server \/ ServerTimeout \/ ServerError \/ Lose
  <2>1. UNCHANGED <<loop, arp, transfer>>
    BY <1>9 DEF Server, ServerArp, ServerBegin, ServerAck, ServerTimeout, ServerError, Lose
  <2> QED
    BY <2>1 DEF Woken, Acknowledged, WaitingIsCurrent, Current, loop, arp, transfer
<1>10. CASE UNCHANGED vars
  BY <1>10 DEF vars, Woken, Acknowledged, WaitingIsCurrent, Current, loop, arp, transfer
<1> QED
  BY <1>1, <1>2, <1>3, <1>4, <1>5, <1>6, <1>7, <1>8, <1>9, <1>10 DEF Next, Client

\* Whatever packets arrive, the wait for packets is always bounded by a timer: NetLoop never
\* waits with the timeout handler that NetSetTimeout removes before it is called.
THEOREM LoopIsWoken == Spec => []AlwaysWoken
<1>1. IInv => AlwaysWoken
  BY DEF IInv, Woken, AlwaysWoken
<1> QED
  BY InitIInv, NextIInv, <1>1, PTL DEF Spec

\* The packet in NetTxPacket while an ARP request is pending is the one TftpSend would send,
\* although packets that arrive late, timeouts and restarts put others together meanwhile.
THEOREM ArpSendsCurrent == Spec => []WaitingIsCurrent
<1>1. IInv => WaitingIsCurrent
  BY DEF IInv
<1> QED
  BY InitIInv, NextIInv, <1>1, PTL DEF Spec

-----------------------------------------------------------------------------
(* Packets and the server's transfers.                                      *)

\* The packets that are on their way, and the one in NetTxPacket, which an ARP reply releases.
Sent == IF pc = "idle" THEN net ELSE net \cup {tx}

\* What a transfer of the server begins with: an OACK, that is block 0, or block 1.
FirstBlock == IF run.opt THEN 0 ELSE 1

\* The server's transfers have the numbers from 1, and are at one of the blocks of the file.
SessionsInv ==
  \E k \in 0..MaxSessions :
    /\ DOMAIN sessions = 1..k
    /\ \A t \in 1..k : /\ sessions[t].port \in Ports
                       /\ sessions[t].block \in FirstBlock..LastBlockOf(t)

\* A packet of transfer t is for the port that asked for it.
Of(t, p) == t \in DOMAIN sessions /\ sessions[t].port = p

\* Every packet is one that the client or the server has put together.
Known(m) ==
  \/ m = ArpRequest
  \/ m = ArpReply
  \/ \E p \in Ports : m = RRQ(p)
  \/ \E p \in Ports, t \in 1..MaxSessions :
       /\ Of(t, p)
       /\ \/ run.opt /\ m = OACK(p, t)
          \/ \E n \in 0..(SEQ - 1) : m = ACK(p, t, n)
          \/ \E b \in 1..sessions[t].block : m = DATA(p, t, b, Blk(t))
          \/ \E e \in {"not-found", "other"} : m = ERROR(p, t, e)

\* When TftpTimeout has given up, it is not called again before the counter is reset.
TimeoutsInv ==
  timeouts > TIMEOUT_COUNT =>
    /\ timeHandler # "tftp"
    /\ ~udpHandler \/ (pc = "switch" /\ net_state \in {"RESTART", "FAIL"})

\* The inductive invariant behind TypeOK.
NetInv ==
  /\ TypeOK
  /\ SessionsInv
  /\ \A m \in Sent : Known(m)
  /\ pc = "idle" => net = {} /\ sessions = <<>> /\ ~udpHandler
  /\ pc # "idle" => ourPort \in Ports
  /\ pc # "idle" /\ state # "SEND_RRQ" => Of(remotePort, ourPort)
  /\ TimeoutsInv

\* The numbers in a packet: what the remainder does to a block number.
LEMMA Remainder == ASSUME NEW b \in Nat PROVE b % SEQ \in 0..(SEQ - 1)
  BY BoundsAssumption

\* The scenario's settings are what they should be.
LEMMA RunTypes ==
  ASSUME run \in Scenarios
  PROVE  /\ run.len \in Nat /\ run.opt \in BOOLEAN
         /\ run.retry \in {Forever} \cup Nat
         /\ FirstBlock \in {0, 1} /\ \A t : Blk(t) \in {1, 2} /\ Blk(t) = Blk(0)
         /\ \A t : LastBlockOf(t) \in Nat \ {0} /\ LastBlockOf(t) = LastBlockOf(0)
<1>1. run \in Scenario
    BY ScenariosAssumption
<1>2. run.len \in Nat /\ run.opt \in BOOLEAN /\ run.retry \in {Forever} \cup Nat
    BY <1>1 DEF Scenario
<1>3. /\ FirstBlock \in {0, 1}
      /\ \A t : Blk(t) \in {1, 2} /\ Blk(t) = Blk(0)
    BY <1>2 DEF FirstBlock, Blk
<1>4. run.len \div 1 \in Nat /\ run.len \div 2 \in Nat
    BY <1>2
<1>5. \A t : LastBlockOf(t) \in Nat \ {0} /\ LastBlockOf(t) = LastBlockOf(0)
    BY <1>3, <1>4 DEF LastBlockOf
<1> QED
    BY <1>2, <1>3, <1>5

\* What a block of the file holds: it is full unless it is the last one, and with the last one the
\* file is complete.
LEMMA BlockFacts ==
  ASSUME run \in Scenarios, NEW p, NEW t, NEW b \in 1..LastBlockOf(t)
  PROVE  LET m == DATA(p, t, b, Blk(t)) IN
         /\ m.kind = "DATA" /\ m.port = p /\ m.tid = t /\ m.num = b % SEQ
         /\ m.num \in 0..(SEQ - 1)
         /\ m.at = (b - 1) * Blk(0) /\ m.at \in Nat
         /\ m.count \in 0..Blk(0)
         /\ m.at + m.count <= run.len
         /\ m.count = Blk(0) \/ m.at + m.count = run.len
         /\ m.count < Blk(0) => b = LastBlockOf(0)
         /\ b = LastBlockOf(0) => m.count < Blk(0)
<1>1. /\ run.len \in Nat /\ Blk(t) \in {1, 2} /\ Blk(t) = Blk(0)
      /\ LastBlockOf(t) = LastBlockOf(0) /\ LastBlockOf(t) \in Nat /\ b \in Nat
    BY RunTypes
<1>2. LastBlockOf(0) = run.len \div Blk(0) + 1
    BY DEF LastBlockOf
<1>3. b % SEQ \in 0..(SEQ - 1)
    BY <1>1, Remainder
<1>4. CASE Blk(t) = 1
    BY <1>1, <1>2, <1>3, <1>4 DEF DATA
<1>5. CASE Blk(t) = 2
    BY <1>1, <1>2, <1>3, <1>5 DEF DATA
<1> QED
    BY <1>1, <1>4, <1>5

\* What is known of a packet of each kind.
LEMMA KnownKinds ==
  ASSUME NEW m, Known(m)
  PROVE  /\ m.kind = "RRQ" => m.port \in Ports /\ m = RRQ(m.port)
         /\ m.kind \in {"OACK", "ACK", "DATA", "ERROR"} =>
              m.tid \in 1..MaxSessions /\ m.port \in Ports /\ Of(m.tid, m.port)
         /\ m.kind = "OACK" => run.opt /\ m = OACK(m.port, m.tid)
         /\ m.kind = "ACK" => m.num \in 0..(SEQ - 1) /\ m = ACK(m.port, m.tid, m.num)
         /\ m.kind = "DATA" => \E b \in 1..sessions[m.tid].block :
                                 m = DATA(m.port, m.tid, b, Blk(m.tid))
  BY DEF Known, ArpRequest, ArpReply, RRQ, OACK, ACK, DATA, ERROR

\* A data packet on its way holds one of the blocks the server has come to.
LEMMA DataKnown ==
  ASSUME NetInv, NEW m \in net, m.kind = "DATA"
  PROVE  \E b \in 1..sessions[m.tid].block :
           /\ b \in 1..LastBlockOf(m.tid) /\ m = DATA(m.port, m.tid, b, Blk(m.tid))
           /\ m.tid \in 1..MaxSessions /\ Of(m.tid, m.port)
<1>1. Known(m)
    BY DEF NetInv, Sent
<1>2. PICK b \in 1..sessions[m.tid].block : m = DATA(m.port, m.tid, b, Blk(m.tid))
    BY <1>1, KnownKinds
<1>3. m.tid \in 1..MaxSessions /\ Of(m.tid, m.port)
    BY <1>1, KnownKinds
<1>4. sessions[m.tid].block \in FirstBlock..LastBlockOf(m.tid)
    BY <1>3 DEF NetInv, SessionsInv, Of
<1>5. run \in Scenarios
    BY DEF NetInv, TypeOK
<1>6. LastBlockOf(m.tid) \in Nat /\ FirstBlock \in Nat
    BY <1>5, RunTypes
<1> QED
    BY <1>2, <1>3, <1>4, <1>6

\* What the server has sent stays known when its transfers go on.
LEMMA KnownKept ==
  ASSUME run' = run,
         \A t \in DOMAIN sessions : /\ t \in DOMAIN sessions'
                                    /\ sessions'[t].port = sessions[t].port
                                    /\ 1..sessions[t].block \subseteq 1..sessions'[t].block,
         NEW m, Known(m)
  PROVE  Known(m)'
<1>1. \A t, p : Of(t, p) => Of(t, p)' /\ 1..sessions[t].block \subseteq 1..sessions'[t].block
    BY DEF Of
<1>2. \A p, t, b : DATA(p, t, b, Blk(t))' = DATA(p, t, b, Blk(t))
    BY DEF DATA, Blk
<1> QED
    BY <1>1, <1>2 DEF Known

\* A step of the client leaves the server alone; what it sends is known.
LEMMA SentKept ==
  ASSUME NetInv, run' = run, sessions' = sessions,
         \A m \in Sent' : m \in Sent \/ Known(m)'
  PROVE  SessionsInv' /\ \A m \in Sent' : Known(m)'
<1>1. SessionsInv'
    BY DEF NetInv, SessionsInv, FirstBlock, LastBlockOf, Blk
<1>2. \A m \in Sent : Known(m)'
    BY KnownKept DEF NetInv
<1> QED
    BY <1>1, <1>2

\* How NetStartAgain leaves the loop.
LEMMA AgainTypes ==
  ASSUME TypeOK, NEW armed \in {"none", "tftp", "again"}, NetStartAgain(armed)
  PROVE  /\ tries' \in Nat
         /\ udpHandler' \in BOOLEAN
         /\ timeHandler' \in {"none", "tftp", "again"}
         /\ net_state' \in {"CONTINUE", "RESTART", "SUCCESS", "FAIL"}
         /\ \/ /\ net_state' = net_state /\ timeHandler' = "again" /\ udpHandler' = FALSE
            \/ /\ net_state' \in {"RESTART", "FAIL"} /\ timeHandler' = armed
               /\ udpHandler' = udpHandler
<1>1. /\ net_state \in {"CONTINUE", "RESTART", "SUCCESS", "FAIL"} /\ tries \in Nat
      /\ udpHandler \in BOOLEAN
    BY DEF TypeOK
<1>2. CASE run.retry # Forever /\ tries >= run.retry
    BY <1>1, <1>2 DEF NetStartAgain
<1>3. CASE ~(run.retry # Forever /\ tries >= run.retry)
  <2>1. tries' \in Nat
      BY <1>1, <1>3 DEF NetStartAgain
  <2>2. \/ timeHandler' = "again" /\ udpHandler' = FALSE /\ net_state' = net_state
        \/ net_state' = "RESTART" /\ timeHandler' = armed /\ udpHandler' = udpHandler
      BY <1>3 DEF NetStartAgain
  <2> QED
      BY <1>1, <2>1, <2>2
<1> QED
    BY <1>2, <1>3

\* A new transfer is begun by the command and by a restart.
LEMMA StartTypes ==
  ASSUME NetInv, TftpStart, run' = run, sessions' = sessions,
         tries' \in Nat, ret' \in {"none", "ok", "fail", "abort"}, mem' \in [1..Cells -> Nat]
  PROVE  NetInv'
<1>1. PICK q \in Ports : ourPort' = q
    BY DEF TftpStart, FreshPorts
<1>2. /\ tx' = RRQ(q) /\ net' = net \cup {ArpRequest} /\ ether' = FALSE
      /\ arpWait' = TRUE /\ arpTry' = 1 /\ pc' = "rx"
    BY <1>1 DEF TftpStart, Send
<1>3. Known(ArpRequest)' /\ Known(RRQ(q))'
    BY DEF Known
<1>4. Sent' \subseteq Sent \cup {ArpRequest, RRQ(q)}
    BY <1>2 DEF Sent
<1>5. SessionsInv' /\ \A m \in Sent' : Known(m)'
  <2>1. \A m \in Sent' : m \in Sent \/ Known(m)'
      BY <1>3, <1>4
  <2> QED
      BY <2>1, SentKept
<1>6. TypeOK'
  <2>1. /\ run \in Scenarios /\ lastBlock \in 0..(SEQ - 1) /\ wrapOffset \in Nat
        /\ SEQ \in Nat \ {0, 1} /\ TIMEOUT_COUNT \in Nat /\ ARP_TIMEOUT_COUNT \in Nat \ {0}
        /\ MaxSessions \in Nat
      BY BoundsAssumption DEF NetInv, TypeOK
  <2>2. /\ net_state' = "CONTINUE" /\ xferSize' = 0 /\ state' = "SEND_RRQ" /\ timeHandler' = "tftp"
        /\ udpHandler' = TRUE /\ remotePort' = 0 /\ timeouts' = 0 /\ block' = 0 /\ blkSize' = 1
        /\ lastBlock' = lastBlock /\ wrapOffset' = wrapOffset
      BY DEF TftpStart
  <2>3. /\ arpTry' \in 0..ARP_TIMEOUT_COUNT /\ remotePort' \in 0..MaxSessions
        /\ block' \in 0..(SEQ - 1) /\ timeouts' \in 0..(TIMEOUT_COUNT + 1) /\ xferSize' \in Nat
      BY <1>2, <2>1, <2>2
  <2> QED
      BY <1>1, <1>2, <2>1, <2>2, <2>3 DEF TypeOK
<1>7. TimeoutsInv'
    BY BoundsAssumption DEF TftpStart, TimeoutsInv
<1>8. pc' # "idle" /\ state' = "SEND_RRQ"
    BY <1>2 DEF TftpStart
<1> QED
    BY <1>1, <1>5, <1>6, <1>7, <1>8 DEF NetInv

\* An answer to a packet of transfer t is known when t is the server's.
LEMMA AckKnown ==
  ASSUME NetInv, run' = run, sessions' = sessions,
         NEW p \in Ports, NEW t \in 1..MaxSessions, Of(t, p), NEW n \in 0..(SEQ - 1)
  PROVE  Known(ACK(p, t, n))'
<1>1. Of(t, p)'
    BY DEF Of
<1> QED
    BY <1>1 DEF Known

\* What Send adds to the packets on their way.
LEMMA SendAdds ==
  ASSUME NetInv, NEW N, NEW msg, N \subseteq net, pc # "idle", pc' # "idle", Send(N, msg, ether)
  PROVE  /\ Sent' \subseteq Sent \cup {ArpRequest, msg}
         /\ ether' \in BOOLEAN /\ arpWait' \in BOOLEAN /\ arpTry' \in 0..ARP_TIMEOUT_COUNT
<1>1. ether \in BOOLEAN /\ arpWait \in BOOLEAN /\ arpTry \in 0..ARP_TIMEOUT_COUNT
    BY DEF NetInv, TypeOK
<1>2. CASE ether
    BY <1>1, <1>2 DEF Send, Sent
<1>3. CASE ~ether
    BY <1>1, <1>3, BoundsAssumption DEF Send, Sent
<1> QED
    BY <1>2, <1>3

\* Receiving takes nothing but the packet from the network.
LEMMA CarryLess == ASSUME NEW m, NEW S PROVE Carry(m, S) \subseteq net \cup S
  BY DEF Carry

\* An answer of the server's to the client comes from a transfer the client's port belongs to.
LEMMA Addressed ==
  ASSUME NetInv, NEW m \in ToClient, Accepts(m), pc = "rx"
  PROVE  /\ m \in net /\ m.kind \in {"OACK", "DATA", "ERROR"}
         /\ ourPort \in Ports /\ m.port = ourPort /\ m.tid \in 1..MaxSessions /\ Of(m.tid, ourPort)
<1>1. m \in net /\ m.kind \in {"OACK", "DATA", "ERROR"}
    BY DEF ToClient
<1>2. Known(m)
    BY <1>1 DEF NetInv, Sent
<1> QED
    BY <1>1, <1>2, KnownKinds DEF Accepts, NetInv

\* The handler of packets keeps the invariant.
LEMMA ReceiveNetInv == NetInv /\ Receive => NetInv'
<1> SUFFICES ASSUME NetInv, Receive PROVE NetInv'
    OBVIOUS
<1>0. /\ pc = "rx" /\ TypeOK /\ TimeoutsInv /\ ourPort \in Ports
      /\ state # "SEND_RRQ" => Of(remotePort, ourPort)
    BY DEF Receive, NetInv
<1>A. /\ SEQ \in Nat \ {0, 1} /\ TIMEOUT_COUNT \in Nat /\ ARP_TIMEOUT_COUNT \in Nat \ {0}
      /\ MaxSessions \in Nat /\ Cells \in Nat
    BY BoundsAssumption
<1>1. CASE ReceiveArp
  <2>1. /\ UNCHANGED <<run, loop, arpTry, tx, transfer, store, sessions>>
        /\ net' \subseteq net \cup {tx} /\ ether' \in BOOLEAN /\ arpWait' \in BOOLEAN
      BY <1>0, <1>1, CarryLess DEF ReceiveArp, TypeOK, Carry
  <2>2. Sent' \subseteq Sent
      BY <1>0, <2>1 DEF Sent, loop
  <2>3. SessionsInv' /\ \A m \in Sent' : Known(m)'
      BY <2>1, <2>2, SentKept
  <2>4. TypeOK' /\ TimeoutsInv'
      BY <1>0, <2>1 DEF TypeOK, TimeoutsInv, loop, transfer, store
  <2> QED
      BY <1>0, <2>1, <2>3, <2>4 DEF NetInv, Of, loop, transfer
<1>2. ASSUME NEW m \in ToClient, Ignore(m) PROVE NetInv'
  <2>1. UNCHANGED <<run, loop, arp, transfer, store, sessions>> /\ net' \subseteq net
      BY <1>2, CarryLess DEF Ignore
  <2>2. Sent' \subseteq Sent
      BY <1>0, <2>1 DEF Sent, loop, arp
  <2>3. SessionsInv' /\ \A n \in Sent' : Known(n)'
      BY <2>1, <2>2, SentKept
  <2>4. TypeOK' /\ TimeoutsInv'
      BY <1>0, <2>1 DEF TypeOK, TimeoutsInv, loop, arp, transfer, store
  <2> QED
      BY <1>0, <2>1, <2>3, <2>4 DEF NetInv, Of, loop, transfer
<1>3. ASSUME NEW m \in ToClient, ReceiveOack(m) PROVE NetInv'
  <2>1. /\ UNCHANGED <<run, loop, ourPort, block, lastBlock, wrapOffset, timeouts, store, sessions>>
        /\ state' = "OACK" /\ remotePort' = m.tid /\ blkSize' = 2
        /\ Send(Carry(m, {}), ACK(ourPort, m.tid, block), ether) /\ Accepts(m)
      BY <1>3 DEF ReceiveOack
  <2>2. m.tid \in 1..MaxSessions /\ Of(m.tid, ourPort) /\ block \in 0..(SEQ - 1)
      BY <1>0, <2>1, Addressed DEF TypeOK
  <2>3. PICK k : k = ACK(ourPort, m.tid, block)
      OBVIOUS
  <2>4. /\ Sent' \subseteq Sent \cup {ArpRequest, k}
        /\ ether' \in BOOLEAN /\ arpWait' \in BOOLEAN /\ arpTry' \in 0..ARP_TIMEOUT_COUNT
    <3>1. Carry(m, {}) \subseteq net /\ pc # "idle" /\ pc' # "idle"
        BY <1>0, <2>1, CarryLess DEF loop
    <3> QED
        BY <2>1, <2>3, <3>1, SendAdds
  <2>5. Known(ArpRequest)' /\ Known(k)'
    <3>1. \A p \in Ports, t \in 1..MaxSessions, n \in 0..(SEQ - 1) :
            Of(t, p) => Known(ACK(p, t, n))'
        BY <2>1, AckKnown
    <3> QED
        BY <1>0, <2>2, <2>3, <3>1 DEF Known
  <2>6. SessionsInv' /\ \A n \in Sent' : Known(n)'
    <3>1. \A n \in Sent' : n \in Sent \/ Known(n)'
        BY <2>4, <2>5
    <3> QED
        BY <2>1, <3>1, SentKept
  <2>7. TypeOK'
      BY <1>0, <1>A, <2>1, <2>2, <2>4 DEF TypeOK, loop, store
  <2>8. TimeoutsInv'
      BY <1>0, <2>1 DEF TimeoutsInv, loop
  <2> QED
      BY <1>0, <2>1, <2>2, <2>6, <2>7, <2>8 DEF NetInv, Of, loop
<1>4. ASSUME NEW m \in ToClient, ReceiveFirstNotOne(m) PROVE NetInv'
  <2>1. /\ UNCHANGED <<run, pc, ret, arp, ourPort, blkSize, store, sessions>>
        /\ state' = "DATA" /\ remotePort' = m.tid /\ block' = m.num
        /\ timeouts' = CountTimeouts(m.num) /\ lastBlock' = 0 /\ wrapOffset' = 0
        /\ NetStartAgain(timeHandler) /\ Accepts(m) /\ m.kind = "DATA" /\ net' = Carry(m, {})
      BY <1>4 DEF ReceiveFirstNotOne
  <2>2. m \in net /\ m.tid \in 1..MaxSessions /\ Of(m.tid, ourPort)
      BY <1>0, <2>1, Addressed
  <2>3. m.num \in 0..(SEQ - 1)
      BY <1>0, <2>1, <2>2, DataKnown, BlockFacts DEF TypeOK
  <2>4. timeHandler \in {"none", "tftp", "again"} /\ timeouts \in 0..(TIMEOUT_COUNT + 1)
      BY <1>0 DEF TypeOK
  <2>5. /\ tries' \in Nat
        /\ udpHandler' \in BOOLEAN
        /\ timeHandler' \in {"none", "tftp", "again"}
        /\ net_state' \in {"CONTINUE", "RESTART", "SUCCESS", "FAIL"}
        /\ \/ timeHandler' = "again" /\ udpHandler' = FALSE
           \/ timeHandler' = timeHandler /\ udpHandler' = udpHandler
      BY <1>0, <2>1, <2>4, AgainTypes
  <2>6. Sent' \subseteq Sent
      BY <1>0, <2>1, CarryLess DEF Sent, arp
  <2>7. SessionsInv' /\ \A n \in Sent' : Known(n)'
      BY <2>1, <2>6, SentKept
  <2>8. timeouts' \in 0..(TIMEOUT_COUNT + 1) /\ (timeouts' = timeouts \/ timeouts' = 0)
      BY <1>A, <2>1, <2>4 DEF CountTimeouts
  <2>9. TypeOK'
      BY <1>0, <1>A, <2>1, <2>2, <2>3, <2>5, <2>8 DEF TypeOK, arp, store
  <2>10. TimeoutsInv'
      BY <1>0, <1>A, <2>1, <2>5, <2>8 DEF TimeoutsInv
  <2> QED
      BY <1>0, <2>1, <2>2, <2>7, <2>9, <2>10 DEF NetInv, Of
<1>5. ASSUME NEW m \in ToClient, ReceiveSameBlock(m) PROVE NetInv'
  <2>1. /\ UNCHANGED <<run, loop, arp, state, ourPort, remotePort, lastBlock, blkSize, store, sessions>>
        /\ block' = m.num /\ wrapOffset' = WrapOffset(m.num)
        /\ timeouts' = CountTimeouts(m.num)
        /\ Accepts(m) /\ m.kind = "DATA" /\ net' = Carry(m, {})
      BY <1>5 DEF ReceiveSameBlock
  <2>2. m \in net /\ m.tid \in 1..MaxSessions /\ Of(m.tid, ourPort)
      BY <1>0, <2>1, Addressed
  <2>3. m.num \in 0..(SEQ - 1)
      BY <1>0, <2>1, <2>2, DataKnown, BlockFacts DEF TypeOK
  <2>4. wrapOffset' \in Nat
    <3>1. wrapOffset \in Nat /\ blkSize \in {1, 2} /\ 1 * SEQ \in Nat /\ 2 * SEQ \in Nat
        BY <1>0, <1>A DEF TypeOK
    <3> QED
        BY <2>1, <3>1 DEF WrapOffset
  <2>5. timeouts' \in 0..(TIMEOUT_COUNT + 1) /\ (timeouts' = timeouts \/ timeouts' = 0)
      BY <1>0, <1>A, <2>1 DEF CountTimeouts, TypeOK
  <2>6. Sent' \subseteq Sent
      BY <1>0, <2>1, CarryLess DEF Sent, arp, loop
  <2>7. SessionsInv' /\ \A n \in Sent' : Known(n)'
      BY <2>1, <2>6, SentKept
  <2>8. TypeOK'
      BY <1>0, <1>A, <2>1, <2>3, <2>4, <2>5 DEF TypeOK, arp, store, loop
  <2>9. TimeoutsInv'
      BY <1>0, <1>A, <2>1, <2>5 DEF TimeoutsInv, loop
  <2> QED
      BY <1>0, <2>1, <2>7, <2>8, <2>9 DEF NetInv, Of, loop
<1>6. ASSUME NEW m \in ToClient, ReceiveData(m) PROVE NetInv'
  <2>1. /\ UNCHANGED <<run, pc, udpHandler, tries, ret, ourPort, blkSize, sessions>>
        /\ state' = "DATA" /\ remotePort' = m.tid /\ block' = m.num /\ lastBlock' = m.num
        /\ timeouts' = CountTimeouts(m.num)
        /\ wrapOffset' = (IF FirstData THEN 0 ELSE WrapOffset(m.num)) /\ timeHandler' = "tftp"
        /\ StoreBlock(m, (m.num - 1) * blkSize + wrapOffset')
        /\ Send(Carry(m, {}), ACK(ourPort, m.tid, m.num), ether)
        /\ net_state' = (IF m.count < blkSize THEN "SUCCESS" ELSE net_state)
        /\ Accepts(m) /\ m.kind = "DATA"
      BY <1>6 DEF ReceiveData
  <2>2. m \in net /\ m.tid \in 1..MaxSessions /\ Of(m.tid, ourPort)
      BY <1>0, <2>1, Addressed
  <2>3. m.num \in 0..(SEQ - 1) /\ m.at \in Nat /\ m.count \in 0..2
    <3>1. run \in Scenarios /\ Blk(0) \in {1, 2}
        BY <1>0, RunTypes DEF TypeOK
    <3>2. PICK b \in 1..LastBlockOf(m.tid) : m = DATA(m.port, m.tid, b, Blk(m.tid))
        BY <2>1, <2>2, DataKnown
    <3> QED
        BY <3>1, <3>2, BlockFacts
  <2>4. wrapOffset' \in Nat
    <3>1. wrapOffset \in Nat /\ blkSize \in {1, 2} /\ 1 * SEQ \in Nat /\ 2 * SEQ \in Nat
        BY <1>0, <1>A DEF TypeOK
    <3> QED
        BY <2>1, <3>1 DEF WrapOffset
  <2>5. timeouts' \in 0..(TIMEOUT_COUNT + 1) /\ (timeouts' = timeouts \/ timeouts' = 0)
      BY <1>0, <1>A, <2>1 DEF CountTimeouts, TypeOK
  <2>6. mem' \in [1..Cells -> Nat] /\ xferSize' \in Nat
    <3> DEFINE offset == (m.num - 1) * blkSize + wrapOffset'
    <3>1. offset \in Int
      <4>1. blkSize \in {1, 2} /\ (m.num - 1) * 1 \in Int /\ (m.num - 1) * 2 \in Int
          BY <1>0, <1>A, <2>3 DEF TypeOK
      <4> QED
          BY <2>4, <4>1
    <3>2. StoreBlock(m, offset)
        BY <2>1
    <3>3. xferSize \in Nat /\ mem \in [1..Cells -> Nat]
        BY <1>0 DEF TypeOK
    <3> HIDE DEF offset
    <3>4. \A u \in 1..Cells : u - offset \in 1..m.count => m.at + u - offset \in Nat
        BY <1>A, <2>3, <3>1
    <3>5. mem' \in [1..Cells -> Nat]
        BY <3>2, <3>3, <3>4 DEF StoreBlock
    <3>6. xferSize' \in Nat
        BY <2>3, <3>1, <3>2, <3>3 DEF StoreBlock
    <3> QED
        BY <3>5, <3>6
  <2>7. PICK k : k = ACK(ourPort, m.tid, m.num)
      OBVIOUS
  <2>8. /\ Sent' \subseteq Sent \cup {ArpRequest, k}
        /\ ether' \in BOOLEAN /\ arpWait' \in BOOLEAN /\ arpTry' \in 0..ARP_TIMEOUT_COUNT
    <3>1. Carry(m, {}) \subseteq net /\ pc # "idle" /\ pc' # "idle"
        BY <1>0, <2>1, CarryLess
    <3> QED
        BY <2>1, <2>7, <3>1, SendAdds
  <2>9. Known(ArpRequest)' /\ Known(k)'
    <3>1. \A p \in Ports, t \in 1..MaxSessions, n \in 0..(SEQ - 1) :
            Of(t, p) => Known(ACK(p, t, n))'
        BY <2>1, AckKnown
    <3> QED
        BY <1>0, <2>2, <2>3, <2>7, <3>1 DEF Known
  <2>10. SessionsInv' /\ \A n \in Sent' : Known(n)'
    <3>1. \A n \in Sent' : n \in Sent \/ Known(n)'
        BY <2>8, <2>9
    <3> QED
        BY <2>1, <3>1, SentKept
  <2>11. net_state' \in {"CONTINUE", "RESTART", "SUCCESS", "FAIL"}
      BY <1>0, <2>1 DEF TypeOK
  <2>12. TypeOK'
      BY <1>0, <1>A, <2>1, <2>2, <2>3, <2>4, <2>5, <2>6, <2>8, <2>11 DEF TypeOK
  <2>13. TimeoutsInv'
    <3>1. timeouts <= TIMEOUT_COUNT
        BY <1>0, <1>A, <2>1 DEF TimeoutsInv, TypeOK, Accepts
    <3> QED
        BY <1>A, <2>5, <3>1 DEF TimeoutsInv
  <2> QED
      BY <1>0, <2>1, <2>2, <2>10, <2>12, <2>13 DEF NetInv, Of
<1>7. ASSUME NEW m \in ToClient, ReceiveError(m) PROVE NetInv'
  <2>1. /\ UNCHANGED <<run, pc, ret, arp, transfer, store, sessions>> /\ net' \subseteq net
        /\ \/ net_state' = "FAIL" /\ UNCHANGED <<timeHandler, udpHandler, tries>>
           \/ NetStartAgain(timeHandler)
      BY <1>7, CarryLess DEF ReceiveError
  <2>2. timeHandler \in {"none", "tftp", "again"} /\ udpHandler \in BOOLEAN /\ tries \in Nat
      BY <1>0 DEF TypeOK
  <2>3. /\ tries' \in Nat
        /\ udpHandler' \in BOOLEAN
        /\ timeHandler' \in {"none", "tftp", "again"}
        /\ net_state' \in {"CONTINUE", "RESTART", "SUCCESS", "FAIL"}
        /\ \/ timeHandler' = "again" /\ udpHandler' = FALSE
           \/ timeHandler' = timeHandler /\ udpHandler' = udpHandler
      BY <1>0, <2>1, <2>2, AgainTypes
  <2>4. Sent' \subseteq Sent
      BY <1>0, <2>1 DEF Sent, arp
  <2>5. SessionsInv' /\ \A n \in Sent' : Known(n)'
      BY <2>1, <2>4, SentKept
  <2>6. TypeOK'
      BY <1>0, <2>1, <2>3 DEF TypeOK, arp, store, transfer
  <2>7. TimeoutsInv'
      BY <1>0, <1>A, <2>1, <2>3 DEF TimeoutsInv, transfer
  <2> QED
      BY <1>0, <2>1, <2>5, <2>6, <2>7 DEF NetInv, Of, transfer
<1> QED
    BY <1>1, <1>2, <1>3, <1>4, <1>5, <1>6, <1>7 DEF Receive

\* The timers and the end of a turn keep the invariant.
LEMMA TimerNetInv ==
  ASSUME NetInv,
         \/ ArpTimeout \/ NoArpTimeout \/ TftpTimeout \/ StartAgainTimeout \/ NoTimeout \/ Continue
  PROVE  NetInv'
<1>0. /\ TypeOK /\ TimeoutsInv /\ pc \in {"rx", "timer", "switch"} /\ pc # "idle"
      /\ pc' \in {"rx", "timer", "switch"} /\ pc' # "idle"
    BY DEF ArpTimeout, NoArpTimeout, TftpTimeout, StartAgainTimeout, NoTimeout, Continue, Goto,
           NetInv
<1>1. /\ ourPort \in Ports
      /\ state # "SEND_RRQ" => Of(remotePort, ourPort)
    BY <1>0 DEF NetInv
<1>A. /\ SEQ \in Nat \ {0, 1} /\ TIMEOUT_COUNT \in Nat /\ ARP_TIMEOUT_COUNT \in Nat \ {0}
      /\ MaxSessions \in Nat /\ Cells \in Nat
    BY BoundsAssumption
<1>B. /\ timeHandler \in {"none", "tftp", "again"} /\ udpHandler \in BOOLEAN /\ tries \in Nat
      /\ net_state \in {"CONTINUE", "RESTART", "SUCCESS", "FAIL"} /\ timeouts \in Nat
      /\ arpTry \in 0..ARP_TIMEOUT_COUNT
    BY <1>0, <1>A DEF TypeOK
<1>2. CASE ArpTimeout
  <2>1. /\ UNCHANGED <<run, ret, ether, arpWait, tx, transfer, store, sessions>>
        /\ pc = "rx" /\ pc' = "timer"
        /\ net' \subseteq net \cup {ArpRequest}
        /\ \/ NetStartAgain(timeHandler) /\ arpTry' = 0
           \/ /\ UNCHANGED <<net_state, timeHandler, udpHandler, tries>>
              /\ arpTry' = arpTry + 1 /\ ~(arpTry + 1 >= ARP_TIMEOUT_COUNT)
      BY <1>2 DEF ArpTimeout, Goto
  <2>2. /\ tries' \in Nat
        /\ udpHandler' \in BOOLEAN
        /\ timeHandler' \in {"none", "tftp", "again"}
        /\ net_state' \in {"CONTINUE", "RESTART", "SUCCESS", "FAIL"}
        /\ \/ timeHandler' = "again" /\ udpHandler' = FALSE
           \/ timeHandler' = timeHandler /\ udpHandler' = udpHandler
      BY <1>0, <1>B, <2>1, AgainTypes
  <2>3. arpTry' \in 0..ARP_TIMEOUT_COUNT
      BY <1>A, <1>B, <2>1
  <2>4. Sent' \subseteq Sent \cup {ArpRequest} /\ Known(ArpRequest)'
      BY <2>1 DEF Sent, Known
  <2>5. SessionsInv' /\ \A n \in Sent' : Known(n)'
    <3>1. \A n \in Sent' : n \in Sent \/ Known(n)'
        BY <2>4
    <3> QED
        BY <2>1, <3>1, SentKept
  <2>6. TypeOK'
      BY <1>0, <2>1, <2>2, <2>3 DEF TypeOK, store, transfer
  <2>7. TimeoutsInv'
      BY <1>0, <2>1, <2>2 DEF TimeoutsInv, transfer
  <2> QED
      BY <1>0, <1>1, <2>1, <2>5, <2>6, <2>7 DEF NetInv, Of, transfer
<1>3. CASE TftpTimeout
  <2>1. /\ UNCHANGED <<run, ret, state, ourPort, remotePort, block, lastBlock, wrapOffset, blkSize,
                       store, sessions>>
        /\ pc = "timer" /\ pc' = "switch" /\ timeHandler = "tftp" /\ timeouts' = timeouts + 1
      BY <1>3 DEF TftpTimeout, Goto
  <2>2. timeouts <= TIMEOUT_COUNT /\ timeouts' \in 0..(TIMEOUT_COUNT + 1)
      BY <1>0, <1>A, <1>B, <2>1 DEF TimeoutsInv
  <2>3. CASE timeouts + 1 > TIMEOUT_COUNT
    <3>1. NetStartAgain("none") /\ UNCHANGED <<net, arp>>
        BY <1>3, <2>3 DEF TftpTimeout
    <3>2. /\ tries' \in Nat
          /\ udpHandler' \in BOOLEAN
          /\ timeHandler' \in {"none", "tftp", "again"}
          /\ net_state' \in {"CONTINUE", "RESTART", "SUCCESS", "FAIL"}
          /\ \/ timeHandler' = "again" /\ udpHandler' = FALSE
             \/ timeHandler' = "none" /\ net_state' \in {"RESTART", "FAIL"}
        BY <1>0, <3>1, AgainTypes
    <3>3. Sent' \subseteq Sent
        BY <1>0, <3>1 DEF Sent, arp
    <3>4. SessionsInv' /\ \A n \in Sent' : Known(n)'
        BY <2>1, <3>3, SentKept
    <3>5. TypeOK'
        BY <1>0, <2>1, <2>2, <3>1, <3>2 DEF TypeOK, store, arp
    <3>6. TimeoutsInv'
        BY <2>1, <3>2 DEF TimeoutsInv
    <3> QED
        BY <1>0, <1>1, <2>1, <3>4, <3>5, <3>6 DEF NetInv, Of
  <2>4. CASE ~(timeouts + 1 > TIMEOUT_COUNT)
    <3>1. /\ timeHandler' = "tftp" /\ Send(net, Current, ether)
          /\ UNCHANGED <<net_state, udpHandler, tries>>
        BY <1>3, <2>4 DEF TftpTimeout
    <3>2. PICK k : k = Current
        OBVIOUS
    <3>3. Known(k)' /\ Known(ArpRequest)'
      <4>1. CASE state = "SEND_RRQ"
          BY <1>1, <3>2, <4>1 DEF Current, Known
      <4>2. CASE state # "SEND_RRQ"
        <5>1. /\ remotePort \in 1..MaxSessions /\ block \in 0..(SEQ - 1) /\ Of(remotePort, ourPort)
              /\ k = ACK(ourPort, remotePort, block)
            BY <1>0, <1>1, <1>A, <3>2, <4>2 DEF Current, TypeOK, NetInv, SessionsInv, Of
        <5>2. \A p \in Ports, t \in 1..MaxSessions, n \in 0..(SEQ - 1) :
                Of(t, p) => Known(ACK(p, t, n))'
            BY <2>1, AckKnown
        <5> QED
            BY <1>1, <5>1, <5>2 DEF Known
      <4> QED
          BY <4>1, <4>2
    <3>4. /\ Sent' \subseteq Sent \cup {ArpRequest, k}
          /\ ether' \in BOOLEAN /\ arpWait' \in BOOLEAN /\ arpTry' \in 0..ARP_TIMEOUT_COUNT
        BY <1>0, <3>1, <3>2, SendAdds
    <3>5. SessionsInv' /\ \A n \in Sent' : Known(n)'
      <4>1. \A n \in Sent' : n \in Sent \/ Known(n)'
          BY <3>3, <3>4
      <4> QED
          BY <2>1, <4>1, SentKept
    <3>6. TypeOK'
        BY <1>0, <2>1, <2>2, <3>1, <3>4 DEF TypeOK, store
    <3>7. TimeoutsInv'
        BY <1>A, <1>B, <2>1, <2>4 DEF TimeoutsInv
    <3> QED
        BY <1>0, <1>1, <2>1, <3>5, <3>6, <3>7 DEF NetInv, Of
  <2> QED
      BY <2>3, <2>4
<1>4. CASE NoArpTimeout \/ StartAgainTimeout \/ NoTimeout \/ Continue
  <2>1. /\ UNCHANGED <<run, udpHandler, tries, ret, arp, transfer, store, world>>
        /\ \/ UNCHANGED <<net_state, timeHandler>> /\ pc # "switch"
           \/ UNCHANGED <<net_state, timeHandler>> /\ net_state = "CONTINUE"
           \/ net_state' = "RESTART" /\ timeHandler' = "none" /\ pc # "switch"
      BY <1>4 DEF NoArpTimeout, StartAgainTimeout, NoTimeout, Continue, Goto
  <2>2. Sent' \subseteq Sent
      BY <1>0, <2>1 DEF Sent, arp, world
  <2>3. SessionsInv' /\ \A n \in Sent' : Known(n)'
      BY <2>1, <2>2, SentKept DEF world
  <2>4. TypeOK'
      BY <1>0, <1>B, <2>1 DEF TypeOK, store, transfer, arp
  <2>5. TimeoutsInv'
      BY <1>0, <2>1 DEF TimeoutsInv, transfer
  <2> QED
      BY <1>0, <1>1, <2>1, <2>3, <2>4, <2>5 DEF NetInv, Of, transfer, world
<1> QED
    BY <1>2, <1>3, <1>4

\* NetLoop returns.
LEMMA LeaveNetInv == ASSUME NetInv, Leave \/ Abort PROVE NetInv'
<1>1. /\ UNCHANGED <<run, net_state, tries, ether, arpTry, tx, transfer, store>>
      /\ arpWait' \in BOOLEAN /\ ret' \in {"ok", "fail", "abort"}
      /\ pc' = "idle" /\ timeHandler' = "none" /\ udpHandler' = FALSE
      /\ net' = {} /\ sessions' = <<>>
    BY DEF Leave, Abort, Return, Goto, arp, NetInv, TypeOK
<1>2. TypeOK'
    BY <1>1 DEF NetInv, TypeOK, transfer, store
<1>3. SessionsInv'
  <2>1. 0 \in 0..MaxSessions /\ 1..0 = {}
      BY BoundsAssumption
  <2>2. DOMAIN sessions' = {}
      BY <1>1
  <2> QED
      BY <2>1, <2>2 DEF SessionsInv
<1>4. Sent' = {}
    BY <1>1 DEF Sent
<1>5. TimeoutsInv'
    BY <1>1 DEF TimeoutsInv
<1> QED
    BY <1>1, <1>2, <1>3, <1>4, <1>5 DEF NetInv

\* The server's transfers only begin and go on.
Grow == \A t \in DOMAIN sessions : /\ t \in DOMAIN sessions'
                                   /\ sessions'[t].port = sessions[t].port
                                   /\ sessions'[t].block \in {sessions[t].block,
                                                              sessions[t].block + 1}

\* What the server sends next in a transfer is known.
LEMMA ServerKnown ==
  ASSUME run' = run, SessionsInv', run \in Scenarios,
         NEW t \in DOMAIN sessions', NEW b, NEW m,
         b = sessions'[t].block, m = ServerPacket(t, sessions'[t].port, b)
  PROVE  Known(m)'
<1>1. /\ t \in 1..MaxSessions /\ sessions'[t].port \in Ports
      /\ b \in FirstBlock..LastBlockOf(t)
    BY BoundsAssumption DEF SessionsInv, FirstBlock, LastBlockOf, Blk
<1>2. PICK p \in Ports : p = sessions'[t].port
    BY <1>1
<1>3. Of(t, p)'
    BY <1>2 DEF Of
<1>4. CASE b = 0
  <2>1. run.opt' /\ m = OACK(p, t)
      BY <1>1, <1>2, <1>4, RunTypes DEF ServerPacket, FirstBlock
  <2> QED
      BY <1>1, <1>3, <2>1 DEF Known
<1>5. CASE b # 0
  <2>1. b \in 1..sessions'[t].block
      BY <1>1, <1>5, RunTypes
  <2>2. m = DATA(p, t, b, Blk(t))'
      BY <1>2, <1>5 DEF ServerPacket, DATA, Blk
  <2> QED
      BY <1>1, <1>3, <2>1, <2>2 DEF Known
<1> QED
    BY <1>4, <1>5

\* A step of the server or of the network.
LEMMA ServerKeeps ==
  ASSUME NetInv, UNCHANGED <<run, loop, arp, transfer, store>>, pc # "idle", SessionsInv', Grow,
         \A m \in net' : m \in net \/ Known(m)'
  PROVE  NetInv'
<1>1. \A t \in DOMAIN sessions : 1..sessions[t].block \subseteq 1..sessions'[t].block
  <2>1. \A t \in DOMAIN sessions : sessions[t].block \in Int
      BY RunTypes DEF NetInv, TypeOK, SessionsInv
  <2> QED
      BY <2>1 DEF Grow
<1>2. \A m \in Sent : Known(m)'
    BY <1>1, KnownKept DEF NetInv, Grow
<1>3. \A m \in Sent' : Known(m)'
    BY <1>2 DEF Sent, loop, arp
<1>4. TypeOK'
    BY DEF NetInv, TypeOK, loop, arp, transfer, store
<1>5. TimeoutsInv'
    BY DEF NetInv, TimeoutsInv, loop, transfer
<1>6. \A t, p : Of(t, p) => Of(t, p)'
    BY DEF Of, Grow
<1>7. pc' = pc /\ ourPort' = ourPort /\ state' = state /\ remotePort' = remotePort
    BY DEF loop, transfer
<1>8. /\ ourPort' \in Ports
      /\ state' # "SEND_RRQ" => Of(remotePort, ourPort)'
    BY <1>6, <1>7 DEF NetInv, Of
<1> QED
    BY <1>3, <1>4, <1>5, <1>7, <1>8 DEF NetInv

\* What each step of the server does to its transfers, and what it sends.
LEMMA ServerSteps ==
  ASSUME NetInv, Server \/ ServerTimeout \/ ServerError \/ Lose
  PROVE  /\ UNCHANGED <<run, loop, arp, transfer, store>> /\ pc # "idle"
         /\ SessionsInv' /\ Grow
         /\ \A m \in net' : m \in net \/ Known(m)'
<1>0. run \in Scenarios /\ SessionsInv /\ MaxSessions \in Nat
    BY BoundsAssumption DEF NetInv, TypeOK
<1>1. UNCHANGED <<run, loop, arp, transfer, store>>
    BY DEF Server, ServerArp, ServerBegin, ServerAck, ServerTimeout, ServerError, Lose
<1>2. pc # "idle"
  <2>1. net # {} \/ DOMAIN sessions # {}
      BY DEF Server, ServerArp, ServerBegin, ServerAck, ServerTimeout, ServerError, Lose
  <2> QED
      BY <2>1 DEF NetInv
<1>3. PICK k \in 0..MaxSessions :
        /\ DOMAIN sessions = 1..k
        /\ \A t \in 1..k : /\ sessions[t].port \in Ports
                           /\ sessions[t].block \in FirstBlock..LastBlockOf(t)
    BY <1>0 DEF SessionsInv
<1>4. /\ FirstBlock \in {0, 1} /\ FirstBlock' = FirstBlock
      /\ \A t : LastBlockOf(t) \in Nat \ {0} /\ LastBlockOf(t)' = LastBlockOf(t)
    BY <1>0, <1>1, RunTypes DEF FirstBlock, LastBlockOf, Blk
<1>5. sessions' = sessions => SessionsInv' /\ Grow
    BY <1>0, <1>4 DEF SessionsInv, Grow
<1>6. CASE ServerArp
  <2>1. sessions' = sessions /\ net' \subseteq net \cup {ArpReply}
      BY <1>6, CarryLess DEF ServerArp
  <2>2. Known(ArpReply)'
      BY DEF Known
  <2> QED
      BY <1>1, <1>2, <1>5, <2>1, <2>2
<1>7. CASE ServerBegin
  <2>1. PICK m \in {n \in net : n.kind = "RRQ"} :
          LET t == Cardinality(DOMAIN sessions) + 1
              b == IF run.opt THEN 0 ELSE 1 IN
          IF t <= MaxSessions
          THEN /\ sessions' = [s \in 1..t |-> IF s = t THEN [port |-> m.port, block |-> b]
                                                       ELSE sessions[s]]
               /\ net' = Carry(m, {ServerPacket(t, m.port, b)})
          ELSE net' = Carry(m, {}) /\ UNCHANGED sessions
      BY <1>7 DEF ServerBegin
  <2>2. Cardinality(DOMAIN sessions) = k
    <3>1. Cardinality(1..k) = k
        BY <1>3, FS_Interval
    <3> QED
        BY <1>3, <3>1
  <2>3. m.port \in Ports
    <3>1. Known(m)
        BY DEF NetInv, Sent
    <3> QED
        BY <3>1, KnownKinds
  <2>4. CASE ~(k + 1 <= MaxSessions)
    <3>1. sessions' = sessions /\ net' \subseteq net
        BY <2>1, <2>2, <2>4, CarryLess
    <3> QED
        BY <1>1, <1>2, <1>5, <3>1
  <2>5. CASE k + 1 <= MaxSessions
    <3>1. /\ sessions' = [s \in 1..(k + 1) |-> IF s = k + 1 THEN [port |-> m.port, block |-> FirstBlock]
                                                            ELSE sessions[s]]
          /\ net' \subseteq net \cup {ServerPacket(k + 1, m.port, FirstBlock)}
        BY <2>1, <2>2, <2>5, CarryLess DEF FirstBlock
    <3>2. /\ DOMAIN sessions' = 1..(k + 1) /\ k + 1 \in 0..MaxSessions /\ k + 1 \in 1..(k + 1)
          /\ sessions'[k + 1] = [port |-> m.port, block |-> FirstBlock]
          /\ \A t \in 1..k : t \in 1..(k + 1) /\ sessions'[t] = sessions[t]
          /\ \A t \in 1..(k + 1) : t = k + 1 \/ t \in 1..k
        BY <1>0, <1>3, <2>5, <3>1
    <3>3. SessionsInv'
        BY <1>3, <1>4, <2>3, <3>2 DEF SessionsInv
    <3>4. Grow
        BY <1>3, <3>2 DEF Grow
    <3>5. PICK d : d = ServerPacket(k + 1, m.port, FirstBlock)
        OBVIOUS
    <3>6. Known(d)'
        BY <1>0, <1>1, <3>2, <3>3, <3>5, ServerKnown
    <3> QED
        BY <1>1, <1>2, <3>1, <3>3, <3>4, <3>5, <3>6
  <2> QED
      BY <2>4, <2>5
<1>8. CASE ServerAck
  <2>1. PICK m \in {n \in net : n.kind = "ACK"} :
          \/ /\ m.num = sessions[m.tid].block % SEQ /\ sessions[m.tid].block < LastBlockOf(m.tid)
             /\ sessions' = [sessions EXCEPT ![m.tid].block = @ + 1]
             /\ net' = Carry(m, {ServerPacket(m.tid, m.port, sessions[m.tid].block + 1)})
          \/ net' = Carry(m, {}) /\ UNCHANGED sessions
          \/ /\ net' = Carry(m, {ServerPacket(m.tid, m.port, sessions[m.tid].block)})
             /\ UNCHANGED sessions
      BY <1>8 DEF ServerAck
  <2>2. m.tid \in DOMAIN sessions /\ sessions[m.tid].port = m.port
    <3>1. Known(m)
        BY DEF NetInv, Sent
    <3> QED
        BY <3>1, KnownKinds DEF Of
  <2>3. CASE /\ m.num = sessions[m.tid].block % SEQ /\ sessions[m.tid].block < LastBlockOf(m.tid)
             /\ sessions' = [sessions EXCEPT ![m.tid].block = @ + 1]
             /\ net' = Carry(m, {ServerPacket(m.tid, m.port, sessions[m.tid].block + 1)})
    <3>1. /\ DOMAIN sessions' = 1..k
          /\ sessions'[m.tid].port = m.port
          /\ sessions'[m.tid].block = sessions[m.tid].block + 1
          /\ \A t \in 1..k : t # m.tid => sessions'[t] = sessions[t]
        BY <1>3, <2>2, <2>3
    <3>2. sessions[m.tid].block + 1 \in FirstBlock..LastBlockOf(m.tid)
        BY <1>3, <1>4, <2>2, <2>3
    <3>3. SessionsInv'
        BY <1>3, <1>4, <2>2, <3>1, <3>2 DEF SessionsInv
    <3>4. Grow
        BY <1>3, <2>2, <3>1 DEF Grow
    <3>5. PICK d : d = ServerPacket(m.tid, m.port, sessions[m.tid].block + 1)
        OBVIOUS
    <3>6. Known(d)'
        BY <1>0, <1>1, <1>3, <2>2, <3>1, <3>3, <3>5, ServerKnown
    <3>7. net' \subseteq net \cup {d}
        BY <2>3, <3>5, CarryLess
    <3> QED
        BY <1>1, <1>2, <3>3, <3>4, <3>6, <3>7
  <2>4. CASE net' = Carry(m, {}) /\ UNCHANGED sessions
      BY <1>1, <1>2, <1>5, <2>4, CarryLess
  <2>5. CASE /\ net' = Carry(m, {ServerPacket(m.tid, m.port, sessions[m.tid].block)})
             /\ UNCHANGED sessions
    <3>1. PICK d : d = ServerPacket(m.tid, m.port, sessions[m.tid].block)
        OBVIOUS
    <3>2. Known(d)'
        BY <1>0, <1>1, <1>5, <2>2, <2>5, <3>1, ServerKnown
    <3>3. net' \subseteq net \cup {d}
        BY <2>5, <3>1, CarryLess
    <3> QED
        BY <1>1, <1>2, <1>5, <2>5, <3>2, <3>3
  <2> QED
      BY <2>1, <2>3, <2>4, <2>5
<1>9. CASE ServerTimeout
  <2>1. PICK t \in DOMAIN sessions :
          /\ net' = net \cup {ServerPacket(t, sessions[t].port, sessions[t].block)}
          /\ sessions' = sessions
      BY <1>9 DEF ServerTimeout
  <2>2. PICK d : d = ServerPacket(t, sessions[t].port, sessions[t].block)
      OBVIOUS
  <2>3. Known(d)'
      BY <1>0, <1>1, <1>5, <2>1, <2>2, ServerKnown
  <2> QED
      BY <1>1, <1>2, <1>5, <2>1, <2>2, <2>3
<1>10. CASE ServerError
  <2>1. PICK t \in DOMAIN sessions, e \in {"not-found", "other"} :
          /\ net' = net \cup {ERROR(sessions[t].port, t, e)}
          /\ sessions' = sessions
      BY <1>10 DEF ServerError
  <2>2. PICK p \in Ports : p = sessions[t].port
      BY <1>3, <2>1
  <2>3. Known(ERROR(p, t, e))'
    <3>1. Of(t, p)' /\ t \in 1..MaxSessions
        BY <1>0, <1>3, <2>1, <2>2 DEF Of
    <3> QED
        BY <3>1 DEF Known
  <2> QED
      BY <1>1, <1>2, <1>5, <2>1, <2>2, <2>3
<1>11. CASE Lose
  <2>1. net' \subseteq net /\ sessions' = sessions
      BY <1>11 DEF Lose
  <2> QED
      BY <1>1, <1>2, <1>5, <2>1
<1> QED
    BY <1>6, <1>7, <1>8, <1>9, <1>10, <1>11 DEF Server

\* The inductive invariant is one.
LEMMA NetInvHolds == Spec => []NetInv
<1>1. Init => NetInv
  <2> SUFFICES ASSUME Init PROVE NetInv
      OBVIOUS
  <2>1. TypeOK
    <3>1. /\ 0 \in 0..ARP_TIMEOUT_COUNT /\ 0 \in 0..MaxSessions /\ 0 \in 0..(SEQ - 1)
          /\ 0 \in 0..(TIMEOUT_COUNT + 1) /\ [u \in 1..Cells |-> 0] \in [1..Cells -> Nat]
        BY BoundsAssumption
    <3> QED
        BY <3>1 DEF Init, TypeOK
  <2>2. SessionsInv
    <3>1. 0 \in 0..MaxSessions /\ 1..0 = {} /\ DOMAIN sessions = {}
        BY BoundsAssumption DEF Init
    <3> QED
        BY <3>1 DEF SessionsInv
  <2>3. Sent = {} /\ TimeoutsInv /\ pc = "idle"
      BY BoundsAssumption DEF Init, Sent, TimeoutsInv
  <2> QED
      BY <2>1, <2>2, <2>3 DEF NetInv, Init
<1>2. NetInv /\ [Next]_vars => NetInv'
  <2> SUFFICES ASSUME NetInv, [Next]_vars PROVE NetInv'
      OBVIOUS
  <2>1. CASE Command
    <3>1. /\ tries' = 1 /\ ret' = "none" /\ mem' = [u \in 1..Cells |-> 0]
          /\ TftpStart /\ run' = run /\ sessions' = sessions
        BY <2>1 DEF Command
    <3>2. mem' \in [1..Cells -> Nat] /\ tries' \in Nat
        BY <3>1
    <3> QED
        BY <3>1, <3>2, StartTypes
  <2>2. CASE Restart
      BY <2>2, StartTypes DEF Restart, NetInv, TypeOK
  <2>3. CASE Receive
      BY <2>3, ReceiveNetInv
  <2>4. CASE \/ ArpTimeout \/ NoArpTimeout \/ TftpTimeout \/ StartAgainTimeout \/ NoTimeout
             \/ Continue
      BY <2>4, TimerNetInv
  <2>5. CASE Leave \/ Abort
      BY <2>5, LeaveNetInv
  <2>6. CASE Server \/ ServerTimeout \/ ServerError \/ Lose
      BY <2>6, ServerSteps, ServerKeeps
  <2>7. CASE UNCHANGED vars
    <3>1. UNCHANGED <<run, pc, net_state, timeHandler, udpHandler, tries, ret, ether, arpWait,
                      arpTry, tx, state, ourPort, remotePort, block, lastBlock, wrapOffset,
                      blkSize, timeouts, xferSize, mem, net, sessions>>
        BY <2>7 DEF vars, loop, arp, transfer, store, world
    <3>2. Sent' = Sent
        BY <3>1 DEF Sent
    <3>3. SessionsInv' /\ \A n \in Sent' : Known(n)'
        BY <3>1, <3>2, SentKept
    <3>4. TypeOK' /\ TimeoutsInv'
        BY <3>1 DEF NetInv, TypeOK, TimeoutsInv
    <3> QED
        BY <3>1, <3>3, <3>4 DEF NetInv, Of
  <2> QED
      BY <2>1, <2>2, <2>3, <2>4, <2>5, <2>6, <2>7 DEF Next, Client
<1> QED
    BY <1>1, <1>2, PTL DEF Spec

\* The state of the loop, of the ARP wait and of the transfer stays within its types: block numbers
\* and timeouts stay in range although any packet may arrive at any time and in any number.
THEOREM TransferTypes == Spec => []TypeOK
<1>1. NetInv => TypeOK
    BY DEF NetInv
<1> QED
    BY <1>1, NetInvHolds, PTL

-----------------------------------------------------------------------------
(* Success means the whole file.                                            *)

\* The file has fewer blocks than there are numbers, and fits into the memory looked at; packets
\* are doubled only by the server, unless it does not send option acknowledgements.
Plain == \A s \in Scenarios : /\ s.len + 1 < SEQ /\ s.len <= Cells
                              /\ s.opt => "dup" \notin s.faults

\* The first n blocks of the file are in memory.
Have(n) == \A u \in 1..run.len : u <= n * Blk(0) => mem[u] = u

\* The acknowledgements of this transfer.
Acked == {n \in 0..(SEQ - 1) : ACK(ourPort, remotePort, n) \in Sent}

\* The last turn of a transfer that is given up: packets for it are not received any more.
Over == pc = "idle" \/ (pc = "switch" /\ net_state \in {"RESTART", "FAIL"})

\* The server goes on with a transfer only when the client has answered, and it has one partner.
Partner ==
  pc # "idle" =>
    /\ state = "SEND_RRQ" => block = 0 /\ blkSize = 1
    /\ state # "SEND_RRQ" => blkSize = Blk(0) /\ block <= sessions[remotePort].block
    /\ \A t \in DOMAIN sessions :
         sessions[t].port = ourPort /\ (state = "SEND_RRQ" \/ t # remotePort) =>
           sessions[t].block = FirstBlock
    /\ \A t \in 1..MaxSessions, n \in 0..(SEQ - 1) :
         ACK(ourPort, t, n) \in Sent =>
           /\ state # "SEND_RRQ" /\ t = remotePort
           /\ n <= sessions[t].block
    /\ state = "DATA" => wrapOffset = 0
    /\ tx.kind # "OACK"

\* What the server believes is stored is stored, and so is what has been acknowledged.  The block
\* number is that of a block that was not stored only when the transfer is about to be given up,
\* and then no OACK is left that would make the client acknowledge it.
Stored ==
  ~Over /\ state # "SEND_RRQ" =>
    /\ Have(sessions[remotePort].block - 1)
    /\ \A n \in Acked : Have(n)
    /\ state = "DATA" => lastBlock <= sessions[remotePort].block /\ Have(lastBlock)
    /\ ~Have(block) => \/ net_state \in {"RESTART", "FAIL"}
                       \/ ~udpHandler /\ timeHandler # "tftp"
    /\ OACK(ourPort, remotePort) \in net =>
         /\ state = "OACK" => /\ block = 0 /\ sessions[remotePort].block <= 1
                              /\ \A n \in Acked : n = 0
         /\ Have(block)

\* Each unit is where it belongs, and success is reported when none is missing.
Placed ==
  /\ \A u \in 1..run.len : mem[u] \in {0, u}
  /\ xferSize <= run.len
  /\ net_state = "SUCCESS" /\ pc # "idle" => xferSize = run.len /\ \A u \in 1..run.len : mem[u] = u
  /\ pc # "idle" => ret = "none"

\* Without wrapping, a block's number is its place in the file.
LEMMA PlainBlocks ==
  ASSUME Plain, run \in Scenarios
  PROVE  /\ run.len \in Nat /\ run.len <= Cells /\ Blk(0) \in {1, 2} /\ FirstBlock \in {0, 1}
         /\ LastBlockOf(0) \in Nat /\ LastBlockOf(0) < SEQ
         /\ \A b \in 0..LastBlockOf(0) : b % SEQ = b
         /\ run.opt => Blk(0) = 2 /\ FirstBlock = 0 /\ "dup" \notin run.faults
         /\ ~run.opt => Blk(0) = 1 /\ FirstBlock = 1
<1>1. run.len \in Nat /\ Blk(0) \in {1, 2} /\ FirstBlock \in {0, 1} /\ LastBlockOf(0) \in Nat
    BY RunTypes
<1>2. run.len + 1 < SEQ /\ run.len <= Cells /\ (run.opt => "dup" \notin run.faults)
    BY DEF Plain
<1>3. SEQ \in Nat \ {0}
    BY BoundsAssumption
<1>4. LastBlockOf(0) < SEQ
  <2>1. LastBlockOf(0) = run.len \div Blk(0) + 1
      BY DEF LastBlockOf
  <2>2. run.len \div 1 <= run.len /\ run.len \div 2 <= run.len
      BY <1>1
  <2>3. run.len \div 1 \in Nat /\ run.len \div 2 \in Nat
      BY <1>1
  <2> QED
      BY <1>1, <1>2, <1>3, <2>1, <2>2, <2>3
<1>5. \A b \in 0..LastBlockOf(0) : b % SEQ = b
  <2> SUFFICES ASSUME NEW b \in 0..LastBlockOf(0) PROVE b % SEQ = b
      OBVIOUS
  <2>1. b \in Nat /\ b < SEQ
      BY <1>1, <1>3, <1>4
  <2> QED
      BY <1>3, <2>1
<1> QED
    BY <1>1, <1>2, <1>4, <1>5 DEF Blk, FirstBlock

\* Fewer blocks are in memory when more are, and none is there always.
LEMMA HaveLess ==
  ASSUME run \in Scenarios, NEW n \in Int, NEW k \in Int, k <= n \/ k <= 0, Have(n)
  PROVE  Have(k)
<1>1. Blk(0) \in {1, 2} /\ run.len \in Nat
    BY RunTypes
<1>2. CASE Blk(0) = 1
    BY <1>1, <1>2 DEF Have
<1>3. CASE Blk(0) = 2
    BY <1>1, <1>3 DEF Have
<1> QED
    BY <1>1, <1>2, <1>3

LEMMA HaveNone == ASSUME run \in Scenarios, NEW k \in Int, k <= 0 PROVE Have(k)
<1>1. Blk(0) \in {1, 2} /\ run.len \in Nat
    BY RunTypes
<1>2. CASE Blk(0) = 1
    BY <1>1, <1>2 DEF Have
<1>3. CASE Blk(0) = 2
    BY <1>1, <1>3 DEF Have
<1> QED
    BY <1>1, <1>2, <1>3

\* A data packet for the client holds the block its number says, and the block sizes agree.
LEMMA DataFacts ==
  ASSUME Plain, NetInv, Partner, pc = "rx", NEW m \in ToClient, Accepts(m), m.kind = "DATA"
  PROVE  /\ m.num \in 1..sessions[m.tid].block /\ m.num <= LastBlockOf(0) /\ m.num \in Nat
         /\ m.at = (m.num - 1) * Blk(0) /\ m.at \in Nat /\ m.count \in 0..Blk(0)
         /\ m.at + m.count <= run.len
         /\ m.count = Blk(0) \/ m.at + m.count = run.len
         /\ m.count < Blk(0) => m.num = LastBlockOf(0)
         /\ m.num = LastBlockOf(0) => m.count < Blk(0)
         /\ sessions[m.tid].block \in 0..LastBlockOf(0)
         /\ blkSize = Blk(0)
         /\ state = "SEND_RRQ" => m.num = 1 /\ ~run.opt /\ sessions[m.tid].block = 1
         /\ state # "SEND_RRQ" => m.tid = remotePort
         /\ ourPort \in Ports /\ m.tid \in DOMAIN sessions /\ m.tid \in 1..MaxSessions
         /\ m \in net
<1>0. run \in Scenarios
    BY DEF NetInv, TypeOK
<1>1. /\ ourPort \in Ports /\ m.port = ourPort /\ m.tid \in 1..MaxSessions /\ Of(m.tid, ourPort)
      /\ m \in net
    BY Addressed
<1>2. PICK b \in 1..sessions[m.tid].block :
        b \in 1..LastBlockOf(m.tid) /\ m = DATA(m.port, m.tid, b, Blk(m.tid))
    BY <1>1, DataKnown
<1>3. LastBlockOf(m.tid) = LastBlockOf(0) /\ LastBlockOf(0) \in Nat /\ FirstBlock \in Nat
    BY <1>0, RunTypes
<1>4. m.num = b % SEQ /\ b % SEQ = b
    BY <1>0, <1>2, <1>3, BlockFacts, PlainBlocks
<1>5. /\ m.at = (b - 1) * Blk(0) /\ m.at \in Nat
      /\ m.count \in 0..Blk(0)
      /\ m.at + m.count <= run.len
      /\ m.count = Blk(0) \/ m.at + m.count = run.len
      /\ m.count < Blk(0) => b = LastBlockOf(0)
      /\ b = LastBlockOf(0) => m.count < Blk(0)
    BY <1>0, <1>2, BlockFacts
<1>6. sessions[m.tid].block \in 0..LastBlockOf(0)
    BY <1>1, <1>3 DEF NetInv, SessionsInv, Of
<1>7. state # "SEND_RRQ" => m.tid = remotePort /\ blkSize = Blk(0)
    BY DEF Accepts, Partner
<1>8. state = "SEND_RRQ" => m.num = 1 /\ ~run.opt /\ blkSize = Blk(0) /\ sessions[m.tid].block = 1
  <2> SUFFICES ASSUME state = "SEND_RRQ"
               PROVE  m.num = 1 /\ ~run.opt /\ blkSize = Blk(0) /\ sessions[m.tid].block = 1
      OBVIOUS
  <2>1. sessions[m.tid].block = FirstBlock /\ blkSize = 1
      BY <1>1 DEF Partner, Of
  <2> QED
      BY <1>0, <1>2, <1>4, <2>1, PlainBlocks
<1> QED
    BY <1>1, <1>2, <1>3, <1>4, <1>5, <1>6, <1>7, <1>8 DEF Of

\* What a step leaves alone that neither stores nor acknowledges anything new.
Same == UNCHANGED <<run, state, ourPort, remotePort, block, lastBlock, wrapOffset, blkSize,
                    xferSize, mem, ret>>

\* The transfer will be given up before it acknowledges its block number again.
GivenUp == net_state \in {"RESTART", "FAIL"} \/ (~udpHandler /\ timeHandler # "tftp")

\* The blocks of the transfer are within the file, and its numbers are integers.
LEMMA Numbers ==
  ASSUME NetInv
  PROVE  /\ run \in Scenarios /\ block \in Nat /\ lastBlock \in Nat
         /\ pc # "idle" /\ state # "SEND_RRQ" =>
              /\ remotePort \in DOMAIN sessions /\ sessions[remotePort].port = ourPort
              /\ remotePort \in 1..MaxSessions
              /\ sessions[remotePort].block \in Nat
              /\ sessions[remotePort].block <= LastBlockOf(0)
<1>1. run \in Scenarios /\ block \in Nat /\ lastBlock \in Nat
    BY BoundsAssumption DEF NetInv, TypeOK
<1>2. /\ FirstBlock \in Nat /\ \A t : LastBlockOf(t) = LastBlockOf(0) /\ LastBlockOf(0) \in Nat
    BY <1>1, RunTypes
<1> QED
    BY <1>1, <1>2, BoundsAssumption DEF NetInv, SessionsInv, Of

\* A step that leaves the transfer alone and takes packets from the network.
LEMMA SameKeeps ==
  ASSUME NetInv, Partner, Stored, Placed, OkIsWhole, pc # "idle", pc' # "idle",
         Same, sessions' = sessions, tx' = tx,
         \A p, t, n : ACK(p, t, n) \in Sent' => ACK(p, t, n) \in Sent,
         \A p, t : OACK(p, t) \in net' => OACK(p, t) \in net,
         Over => Over', GivenUp => GivenUp',
         net_state' = "SUCCESS" => net_state = "SUCCESS"
  PROVE  Partner' /\ Stored' /\ Placed' /\ OkIsWhole'
<1>1. /\ run' = run /\ state' = state /\ ourPort' = ourPort /\ remotePort' = remotePort
      /\ block' = block /\ lastBlock' = lastBlock /\ wrapOffset' = wrapOffset
      /\ blkSize' = blkSize /\ xferSize' = xferSize /\ mem' = mem /\ ret' = ret
    BY DEF Same
<1>2. Partner'
    BY <1>1 DEF Partner, Blk, FirstBlock
<1>3. \A n : Have(n)' <=> Have(n)
    BY <1>1 DEF Have, Blk
<1>4. Acked' \subseteq Acked
    BY <1>1 DEF Acked
<1>5. Stored'
  <2> SUFFICES ASSUME ~Over', state' # "SEND_RRQ"
               PROVE  /\ Have(sessions[remotePort].block - 1)'
                      /\ \A n \in Acked' : Have(n)'
                      /\ state' = "DATA" => /\ lastBlock' <= sessions'[remotePort'].block
                                            /\ Have(lastBlock)'
                      /\ ~Have(block)' => GivenUp'
                      /\ OACK(ourPort', remotePort') \in net' =>
                           /\ state' = "OACK" => /\ block' = 0 /\ sessions'[remotePort'].block <= 1
                                                 /\ \A n \in Acked' : n = 0
                           /\ Have(block)'
      BY DEF Stored, GivenUp
  <2>1. /\ Have(sessions[remotePort].block - 1)
        /\ \A n \in Acked : Have(n)
        /\ state = "DATA" => lastBlock <= sessions[remotePort].block /\ Have(lastBlock)
        /\ ~Have(block) => GivenUp
        /\ OACK(ourPort, remotePort) \in net =>
             /\ state = "OACK" => /\ block = 0 /\ sessions[remotePort].block <= 1
                                  /\ \A n \in Acked : n = 0
             /\ Have(block)
      BY <1>1 DEF Stored, GivenUp
  <2>2. Have(sessions[remotePort].block - 1)' /\ Have(lastBlock)' = Have(lastBlock)
        /\ Have(block)' = Have(block)
      BY <1>1, <2>1 DEF Have, Blk
  <2> QED
      BY <1>1, <1>3, <1>4, <2>1, <2>2
<1>6. Placed' /\ OkIsWhole'
    BY <1>1 DEF Placed, OkIsWhole
<1> QED
    BY <1>2, <1>5, <1>6

\* A new transfer has a port of its own, and nothing was ever acknowledged to it.
LEMMA StartKeeps ==
  ASSUME NetInv, TftpStart, run' = run, sessions' = sessions,
         ret' = "none", \A u \in 1..run.len : mem'[u] \in {0, u}
  PROVE  Partner' /\ Stored' /\ Placed' /\ OkIsWhole'
<1>0. run.len \in Nat
    BY RunTypes DEF NetInv, TypeOK
<1>1. PICK q \in FreshPorts : ourPort' = q
    BY DEF TftpStart
<1>2. /\ tx' = RRQ(q) /\ net' = net \cup {ArpRequest} /\ pc' = "rx"
      /\ state' = "SEND_RRQ" /\ block' = 0 /\ blkSize' = 1 /\ net_state' = "CONTINUE"
      /\ xferSize' = 0
    BY <1>1 DEF TftpStart, Send
<1>3. \A t \in DOMAIN sessions : sessions[t].port # q
    BY <1>1 DEF FreshPorts
<1>4. \A t, n : ACK(q, t, n) \notin Sent'
  <2> SUFFICES ASSUME NEW t, NEW n, ACK(q, t, n) \in Sent' PROVE FALSE
      OBVIOUS
  <2>1. ACK(q, t, n) \in net
      BY <1>2 DEF Sent, ACK, RRQ, ArpRequest
  <2>2. ACK(q, t, n).kind = "ACK" /\ ACK(q, t, n).port = q
      BY DEF ACK
  <2> QED
      BY <1>1, <2>1, <2>2 DEF FreshPorts
<1>5. tx'.kind # "OACK"
    BY <1>2 DEF RRQ
<1>6. Partner'
    BY <1>1, <1>2, <1>3, <1>4, <1>5 DEF Partner
<1>7. Stored'
    BY <1>2 DEF Stored
<1>8. Placed' /\ OkIsWhole'
    BY <1>0, <1>2 DEF Placed, OkIsWhole
<1> QED
    BY <1>6, <1>7, <1>8

\* The server: a transfer begins, goes on after an acknowledgement, or repeats its last packet.
LEMMA ServerStores ==
  ASSUME Plain, NetInv, Partner, Stored, Placed, OkIsWhole, NetInv',
         UNCHANGED <<run, loop, arp, transfer, store>>, pc # "idle", Grow,
         \A p, t, n : ACK(p, t, n) \in net' => ACK(p, t, n) \in net,
         \A p, t : OACK(p, t) \in net' => OACK(p, t) \in net \/ sessions'[t].block = 0,
         \A t \in DOMAIN sessions' :
           IF t \in DOMAIN sessions
           THEN \/ sessions'[t].block = sessions[t].block
                \/ ACK(sessions[t].port, t, sessions[t].block) \in net
           ELSE sessions'[t].block = FirstBlock
  PROVE  Partner' /\ Stored' /\ Placed' /\ OkIsWhole'
<1>1. /\ run' = run /\ state' = state /\ ourPort' = ourPort /\ remotePort' = remotePort
      /\ block' = block /\ lastBlock' = lastBlock /\ wrapOffset' = wrapOffset
      /\ blkSize' = blkSize /\ xferSize' = xferSize /\ mem' = mem /\ ret' = ret /\ tx' = tx
      /\ pc' = pc /\ net_state' = net_state /\ udpHandler' = udpHandler
      /\ timeHandler' = timeHandler
    BY DEF loop, arp, transfer, store
<1>2. \A p, t, n : ACK(p, t, n) \in Sent' => ACK(p, t, n) \in Sent
    BY <1>1 DEF Sent
<1>3. \A n : Have(n)' <=> Have(n)
    BY <1>1 DEF Have, Blk
<1>4. Acked' \subseteq Acked
    BY <1>1, <1>2 DEF Acked
<1>5. \A t \in DOMAIN sessions : sessions[t].block \in 0..(SEQ - 1) /\ t \in 1..MaxSessions
  <2>1. run \in Scenarios /\ SEQ \in Nat /\ MaxSessions \in Nat
      BY BoundsAssumption DEF NetInv, TypeOK
  <2>2. FirstBlock \in Nat /\ \A t : LastBlockOf(t) \in Nat /\ LastBlockOf(t) < SEQ
      BY <2>1, RunTypes, PlainBlocks
  <2> QED
      BY <2>1, <2>2 DEF NetInv, SessionsInv
<1>6. \A t \in DOMAIN sessions :
        ACK(sessions[t].port, t, sessions[t].block) \in net /\ sessions[t].port = ourPort =>
          state # "SEND_RRQ" /\ t = remotePort /\ sessions[t].block \in Acked
    BY <1>5 DEF Partner, Acked, Sent
<1>7. Partner'
  <2>1. \A t \in DOMAIN sessions' :
          sessions'[t].port = ourPort /\ (state = "SEND_RRQ" \/ t # remotePort) =>
            sessions'[t].block = FirstBlock
    <3> SUFFICES ASSUME NEW t \in DOMAIN sessions', sessions'[t].port = ourPort,
                        state = "SEND_RRQ" \/ t # remotePort
                 PROVE  sessions'[t].block = FirstBlock
        OBVIOUS
    <3>1. CASE t \in DOMAIN sessions
      <4>1. sessions[t].port = ourPort
          BY <3>1 DEF Grow
      <4>2. sessions[t].block = FirstBlock
          BY <3>1, <4>1 DEF Partner
      <4>3. sessions'[t].block = sessions[t].block
          BY <1>6, <3>1, <4>1
      <4> QED
          BY <4>2, <4>3
    <3>2. CASE t \notin DOMAIN sessions
        BY <3>2
    <3> QED
        BY <3>1, <3>2
  <2>2. state # "SEND_RRQ" => /\ blkSize = Blk(0)
                              /\ block <= sessions'[remotePort].block
    <3> SUFFICES ASSUME state # "SEND_RRQ"
                 PROVE  blkSize = Blk(0) /\ block <= sessions'[remotePort].block
        OBVIOUS
    <3>1. /\ remotePort \in DOMAIN sessions /\ block \in Nat /\ sessions[remotePort].block \in Nat
        BY Numbers
    <3> QED
        BY <3>1 DEF Partner, Grow
  <2>3. \A t \in 1..MaxSessions, n \in 0..(SEQ - 1) :
          ACK(ourPort, t, n) \in Sent' =>
            state # "SEND_RRQ" /\ t = remotePort /\ n <= sessions'[t].block
    <3> SUFFICES ASSUME NEW t \in 1..MaxSessions, NEW n \in 0..(SEQ - 1), ACK(ourPort, t, n) \in Sent'
                 PROVE  state # "SEND_RRQ" /\ t = remotePort /\ n <= sessions'[t].block
        OBVIOUS
    <3>1. state # "SEND_RRQ" /\ t = remotePort /\ n <= sessions[t].block
        BY <1>2 DEF Partner
    <3>2. t \in DOMAIN sessions /\ sessions[t].block \in Nat /\ n \in Int
        BY <3>1, Numbers
    <3> QED
        BY <3>1, <3>2 DEF Grow
  <2>4. /\ state = "SEND_RRQ" => block = 0 /\ blkSize = 1
        /\ state = "DATA" => wrapOffset = 0
        /\ tx.kind # "OACK"
      BY DEF Partner
  <2>5. Blk(0)' = Blk(0) /\ FirstBlock' = FirstBlock
      BY <1>1 DEF Blk, FirstBlock
  <2> QED
      BY <1>1, <2>1, <2>2, <2>3, <2>4, <2>5 DEF Partner
<1>8. Stored'
  <2> SUFFICES ASSUME ~Over, state # "SEND_RRQ"
               PROVE  Stored'
      BY <1>1 DEF Stored, Over
  <2>0. /\ remotePort \in DOMAIN sessions /\ sessions[remotePort].port = ourPort
        /\ sessions[remotePort].block \in Nat /\ block \in Nat /\ lastBlock \in Nat
        /\ run \in Scenarios
      BY Numbers
  <2>1. /\ Have(sessions[remotePort].block - 1)
        /\ \A n \in Acked : Have(n)
        /\ state = "DATA" => lastBlock <= sessions[remotePort].block /\ Have(lastBlock)
        /\ ~Have(block) => GivenUp
        /\ OACK(ourPort, remotePort) \in net =>
             /\ state = "OACK" => /\ block = 0 /\ sessions[remotePort].block <= 1
                                  /\ \A n \in Acked : n = 0
             /\ Have(block)
      BY DEF Stored, GivenUp
  <2>2. PICK s \in Nat : s = sessions'[remotePort].block
      BY <2>0 DEF Grow
  <2>3. \/ s = sessions[remotePort].block
        \/ s = sessions[remotePort].block + 1 /\ sessions[remotePort].block \in Acked
      BY <1>6, <2>0, <2>2 DEF Grow
  <2>4. Have(s - 1)
    <3>1. CASE s = sessions[remotePort].block
        BY <2>1, <3>1
    <3>2. CASE s = sessions[remotePort].block + 1 /\ sessions[remotePort].block \in Acked
      <4>1. s - 1 = sessions[remotePort].block
          BY <2>0, <3>2
      <4> QED
          BY <2>1, <3>2, <4>1
    <3> QED
        BY <2>3, <3>1, <3>2
  <2>5. state = "DATA" => lastBlock <= s
      BY <2>0, <2>1, <2>3
  <2>6. OACK(ourPort, remotePort) \in net' =>
          /\ state = "OACK" => block = 0 /\ s <= 1 /\ \A n \in Acked' : n = 0
          /\ Have(block)
    <3>1. CASE OACK(ourPort, remotePort) \in net
      <4>1. state = "OACK" => s <= 1
          BY <2>0, <2>1, <2>3, <3>1
      <4> QED
          BY <1>4, <2>1, <3>1, <4>1
    <3>2. CASE s = 0
      <4>1. sessions[remotePort].block = 0
          BY <2>0, <2>3, <3>2
      <4>2. block = 0
          BY <2>0, <4>1 DEF Partner, Over
      <4>3. \A n \in Acked : n = 0
          BY <2>0, <4>1, Numbers DEF Acked, Partner, Over
      <4>4. Have(block)
          BY <2>0, <4>2, HaveNone
      <4> QED
          BY <1>4, <3>2, <4>2, <4>3, <4>4
    <3> QED
        BY <2>2, <3>1, <3>2
  <2>7. Have(sessions[remotePort].block - 1)' /\ (Have(lastBlock)' <=> Have(lastBlock))
        /\ (Have(block)' <=> Have(block))
      BY <1>1, <2>2, <2>4 DEF Have, Blk
  <2> QED
      BY <1>1, <1>3, <1>4, <2>1, <2>2, <2>5, <2>6, <2>7 DEF Stored, GivenUp
<1>9. Placed' /\ OkIsWhole'
    BY <1>1 DEF Placed, OkIsWhole
<1> QED
    BY <1>7, <1>8, <1>9

\* A packet the client sends is the only acknowledgement a step adds.
LEMMA SendOnly ==
  ASSUME NEW N, NEW msg, N \subseteq net, pc # "idle", pc' # "idle", Send(N, msg, ether)
  PROVE  /\ Sent' \subseteq Sent \cup {ArpRequest, msg}
         /\ net' \subseteq N \cup {ArpRequest, msg}
         /\ tx' = msg
  BY DEF Send, Sent

\* An option acknowledgement makes the client acknowledge its last block, which is stored.
LEMMA OackKeeps ==
  ASSUME Plain, NetInv, Partner, Stored, Placed, OkIsWhole, NetInv', pc = "rx",
         NEW m \in ToClient, ReceiveOack(m)
  PROVE  Partner' /\ Stored' /\ Placed' /\ OkIsWhole'
<1>1. /\ UNCHANGED <<run, loop, ourPort, block, lastBlock, wrapOffset, timeouts, store, sessions>>
      /\ state' = "OACK" /\ remotePort' = m.tid /\ blkSize' = 2
      /\ Send(Carry(m, {}), ACK(ourPort, m.tid, block), ether) /\ Accepts(m) /\ m.kind = "OACK"
    BY DEF ReceiveOack
<1>2. /\ pc' = pc /\ net_state' = net_state /\ ret' = ret /\ udpHandler' = udpHandler
      /\ timeHandler' = timeHandler /\ mem' = mem /\ xferSize' = xferSize /\ run' = run
      /\ ourPort' = ourPort /\ block' = block /\ sessions' = sessions /\ lastBlock' = lastBlock
    BY <1>1 DEF loop, store
<1>3. /\ m \in net /\ m.port = ourPort /\ m.tid \in 1..MaxSessions /\ Of(m.tid, ourPort)
      /\ ourPort \in Ports
    BY <1>1, Addressed
<1>4. Known(m)
    BY <1>3 DEF NetInv, Sent
<1>5. run.opt /\ m = OACK(ourPort, m.tid)
    BY <1>1, <1>3, <1>4, KnownKinds
<1>6. run \in Scenarios /\ block \in Nat
    BY Numbers
<1>7. Blk(0) = 2 /\ FirstBlock = 0 /\ "dup" \notin run.faults
    BY <1>5, <1>6, PlainBlocks
<1>8. Carry(m, {}) = net \ {m}
    BY <1>7 DEF Carry
<1>9. /\ Sent' \subseteq Sent \cup {ArpRequest, ACK(ourPort, m.tid, block)}
      /\ net' \subseteq (net \ {m}) \cup {ArpRequest, ACK(ourPort, m.tid, block)}
      /\ tx' = ACK(ourPort, m.tid, block)
    BY <1>1, <1>2, <1>8, SendOnly
<1>10. OACK(ourPort, m.tid) \notin net'
    BY <1>5, <1>9 DEF OACK, ACK, ArpRequest
<1>11. /\ m.tid \in DOMAIN sessions /\ sessions[m.tid].port = ourPort
       /\ sessions[m.tid].block \in Nat
  <2>1. \A t : LastBlockOf(t) \in Nat
      BY <1>6, RunTypes
  <2> QED
      BY <1>3, <1>7, <2>1 DEF Of, NetInv, SessionsInv
<1>12. /\ block <= sessions[m.tid].block
       /\ Have(block)
       /\ Have(sessions[m.tid].block - 1)
       /\ \A n \in 0..(SEQ - 1) : ACK(ourPort, m.tid, n) \in Sent => Have(n) /\ n <= sessions[m.tid].block
       /\ state # "SEND_RRQ" => m.tid = remotePort
  <2>1. CASE state = "SEND_RRQ"
    <3>1. block = 0 /\ sessions[m.tid].block = 0
        BY <1>7, <1>11, <2>1 DEF Partner
    <3>2. Have(block) /\ Have(sessions[m.tid].block - 1)
        BY <1>6, <3>1, HaveNone
    <3> QED
        BY <1>3, <2>1, <3>1, <3>2 DEF Partner
  <2>2. CASE state # "SEND_RRQ"
    <3>1. m.tid = remotePort /\ ~Over
        BY <1>1, <2>2 DEF Accepts, Over
    <3>2. block <= sessions[remotePort].block
        BY <2>2 DEF Partner
    <3>3. /\ Have(block) /\ Have(sessions[remotePort].block - 1)
          /\ \A n \in Acked : Have(n)
        BY <1>3, <1>5, <2>2, <3>1 DEF Stored
    <3> QED
        BY <1>3, <2>2, <3>1, <3>2, <3>3 DEF Partner, Acked
  <2> QED
      BY <2>1, <2>2
<1>13. \A t, n : ACK(ourPort, t, n) \in Sent' =>
                   ACK(ourPort, t, n) \in Sent \/ (t = m.tid /\ n = block)
    BY <1>9 DEF ACK, ArpRequest
<1>14. \A t \in 1..MaxSessions, n \in 0..(SEQ - 1) :
         ACK(ourPort, t, n) \in Sent' => t = m.tid /\ n <= sessions[t].block /\ Have(n)
  <2> SUFFICES ASSUME NEW t \in 1..MaxSessions, NEW n \in 0..(SEQ - 1), ACK(ourPort, t, n) \in Sent'
               PROVE  t = m.tid /\ n <= sessions[t].block /\ Have(n)
      OBVIOUS
  <2>1. CASE t = m.tid /\ n = block
      BY <1>12, <2>1
  <2>2. CASE ACK(ourPort, t, n) \in Sent
    <3>1. t = m.tid
        BY <1>12, <2>2 DEF Partner
    <3> QED
        BY <1>12, <2>2, <3>1
  <2> QED
      BY <1>13, <2>1, <2>2
<1>15. Partner'
  <2>1. \A t \in DOMAIN sessions : sessions[t].port = ourPort /\ t # m.tid =>
                                     sessions[t].block = FirstBlock
      BY <1>12 DEF Partner
  <2>2. tx'.kind # "OACK"
      BY <1>9 DEF ACK
  <2>3. Blk(0)' = Blk(0) /\ FirstBlock' = FirstBlock
      BY <1>2 DEF Blk, FirstBlock
  <2> QED
      BY <1>1, <1>2, <1>7, <1>12, <1>14, <2>1, <2>2, <2>3 DEF Partner
<1>16. Stored'
  <2>1. \A n : Have(n)' <=> Have(n)
      BY <1>2 DEF Have, Blk
  <2>2. Have(sessions[remotePort].block - 1)' /\ Have(block)'
      BY <1>1, <1>2, <1>12 DEF Have, Blk
  <2>3. \A n \in Acked' : Have(n)'
      BY <1>1, <1>2, <1>3, <1>14, <2>1 DEF Acked
  <2> QED
      BY <1>1, <1>2, <1>10, <2>2, <2>3 DEF Stored
<1>17. Placed' /\ OkIsWhole'
    BY <1>2 DEF Placed, OkIsWhole
<1> QED
    BY <1>15, <1>16, <1>17

\* A first block that is not block 1 only comes after an option acknowledgement was repeated; none
\* is left then.
LEMMA FirstNotOneKeeps ==
  ASSUME Plain, NetInv, Partner, Stored, Placed, OkIsWhole, NetInv', pc = "rx",
         NEW m \in ToClient, ReceiveFirstNotOne(m)
  PROVE  Partner' /\ Stored' /\ Placed' /\ OkIsWhole'
<1>1. /\ UNCHANGED <<run, pc, ret, arp, ourPort, blkSize, store, sessions>>
      /\ state' = "DATA" /\ remotePort' = m.tid /\ block' = m.num
      /\ lastBlock' = 0 /\ wrapOffset' = 0 /\ m.num # 1 /\ FirstData
      /\ NetStartAgain(timeHandler) /\ Accepts(m) /\ m.kind = "DATA" /\ net' = Carry(m, {})
    BY DEF ReceiveFirstNotOne
<1>2. /\ mem' = mem /\ xferSize' = xferSize /\ run' = run /\ pc' = pc /\ tx' = tx
      /\ ourPort' = ourPort /\ sessions' = sessions /\ blkSize' = blkSize /\ ret' = ret
    BY <1>1 DEF arp, store
<1>3. /\ m.num \in 1..sessions[m.tid].block /\ sessions[m.tid].block \in Nat /\ m.num \in Nat
      /\ blkSize = Blk(0) /\ (state = "SEND_RRQ" => m.num = 1)
      /\ (state # "SEND_RRQ" => m.tid = remotePort)
    BY <1>1, DataFacts
<1>4. state = "OACK" /\ remotePort' = remotePort
    BY <1>1, <1>3 DEF FirstData
<1>5. run \in Scenarios /\ remotePort \in DOMAIN sessions
    BY <1>4, Numbers
<1>6. ~Over
    BY DEF Over
<1>7. net' \subseteq net /\ Sent' \subseteq Sent
    BY <1>1, <1>2, CarryLess DEF Sent
<1>8. OACK(ourPort, remotePort) \notin net'
  <2>1. sessions[remotePort].block >= 2
      BY <1>1, <1>3, <1>4
  <2> QED
      BY <1>3, <1>4, <1>6, <1>7, <2>1 DEF Stored
<1>9. GivenUp' /\ (net_state' = "SUCCESS" => net_state = "SUCCESS")
  <2>1. TypeOK /\ timeHandler \in {"none", "tftp", "again"}
      BY DEF NetInv, TypeOK
  <2> QED
      BY <1>1, <2>1, AgainTypes DEF GivenUp
<1>10. Partner'
  <2>1. Blk(0)' = Blk(0) /\ FirstBlock' = FirstBlock
      BY <1>2 DEF Blk, FirstBlock
  <2>2. m.num <= sessions[m.tid].block
      BY <1>3
  <2> QED
      BY <1>1, <1>2, <1>3, <1>4, <1>7, <2>1, <2>2 DEF Partner
<1>11. Stored'
  <2>1. /\ Have(sessions[remotePort].block - 1) /\ \A n \in Acked : Have(n)
      BY <1>4, <1>6 DEF Stored
  <2>2. \A n : Have(n)' <=> Have(n)
      BY <1>2 DEF Have, Blk
  <2>3. Acked' \subseteq Acked
      BY <1>2, <1>4, <1>7 DEF Acked
  <2>4. Have(0)
      BY <1>5, HaveNone
  <2>5. Have(sessions[remotePort].block - 1)' /\ Have(lastBlock)'
      BY <1>1, <1>2, <1>4, <2>1, <2>4 DEF Have, Blk
  <2>6. 0 <= sessions[remotePort].block
      BY <1>3, <1>4
  <2> QED
      BY <1>1, <1>2, <1>4, <1>8, <1>9, <2>1, <2>2, <2>3, <2>5, <2>6 DEF Stored, GivenUp
<1>12. Placed' /\ OkIsWhole'
    BY <1>2, <1>9 DEF Placed, OkIsWhole
<1> QED
    BY <1>10, <1>11, <1>12

\* The last block again: its number is known to be that of a block that is stored.
LEMMA SameBlockKeeps ==
  ASSUME Plain, NetInv, Partner, Stored, Placed, OkIsWhole, NetInv', pc = "rx",
         NEW m \in ToClient, ReceiveSameBlock(m)
  PROVE  Partner' /\ Stored' /\ Placed' /\ OkIsWhole'
<1>1. /\ UNCHANGED <<run, loop, arp, state, ourPort, remotePort, lastBlock, blkSize, store, sessions>>
      /\ block' = m.num /\ wrapOffset' = WrapOffset(m.num) /\ ~FirstData /\ m.num = lastBlock
      /\ Accepts(m) /\ m.kind = "DATA" /\ net' = Carry(m, {})
    BY DEF ReceiveSameBlock
<1>2. /\ mem' = mem /\ xferSize' = xferSize /\ run' = run /\ pc' = pc /\ tx' = tx
      /\ ourPort' = ourPort /\ sessions' = sessions /\ blkSize' = blkSize /\ ret' = ret
      /\ state' = state /\ remotePort' = remotePort /\ lastBlock' = lastBlock
      /\ net_state' = net_state /\ udpHandler' = udpHandler /\ timeHandler' = timeHandler
    BY <1>1 DEF arp, store, loop
<1>3. /\ m.num \in 1..sessions[m.tid].block /\ sessions[m.tid].block \in Nat /\ m.num \in Nat
      /\ (state # "SEND_RRQ" => m.tid = remotePort)
    BY <1>1, DataFacts
<1>4. state = "DATA" /\ ~Over
    BY <1>1 DEF FirstData, Over, NetInv, TypeOK
<1>5. wrapOffset' = 0
    BY <1>1, <1>3, <1>4 DEF WrapOffset, Partner
<1>6. net' \subseteq net /\ Sent' \subseteq Sent
    BY <1>1, <1>2, CarryLess DEF Sent
<1>7. Partner'
  <2>1. Blk(0)' = Blk(0) /\ FirstBlock' = FirstBlock
      BY <1>2 DEF Blk, FirstBlock
  <2>2. m.num <= sessions[remotePort].block
      BY <1>3, <1>4
  <2> QED
      BY <1>1, <1>2, <1>4, <1>5, <1>6, <2>1, <2>2 DEF Partner
<1>8. Stored'
  <2>1. /\ Have(sessions[remotePort].block - 1) /\ \A n \in Acked : Have(n)
        /\ lastBlock <= sessions[remotePort].block /\ Have(lastBlock)
      BY <1>4 DEF Stored
  <2>2. \A n : Have(n)' <=> Have(n)
      BY <1>2 DEF Have, Blk
  <2>3. Acked' \subseteq Acked
      BY <1>2, <1>6 DEF Acked
  <2>4. Have(sessions[remotePort].block - 1)' /\ Have(lastBlock)' /\ Have(block)'
      BY <1>1, <1>2, <2>1 DEF Have, Blk
  <2> QED
      BY <1>1, <1>2, <1>4, <2>1, <2>2, <2>3, <2>4 DEF Stored
<1>9. Placed' /\ OkIsWhole'
    BY <1>2 DEF Placed, OkIsWhole
<1> QED
    BY <1>7, <1>8, <1>9

\* A block is stored where it belongs; if it is the server's last one, all before it are there.
LEMMA DataKeeps ==
  ASSUME Plain, NetInv, Partner, Stored, Placed, OkIsWhole, NetInv', pc = "rx",
         NEW m \in ToClient, ReceiveData(m)
  PROVE  Partner' /\ Stored' /\ Placed' /\ OkIsWhole'
<1>1. /\ UNCHANGED <<run, pc, udpHandler, tries, ret, ourPort, blkSize, sessions>>
      /\ state' = "DATA" /\ remotePort' = m.tid /\ block' = m.num /\ lastBlock' = m.num
      /\ wrapOffset' = (IF FirstData THEN 0 ELSE WrapOffset(m.num))
      /\ StoreBlock(m, (m.num - 1) * blkSize + wrapOffset')
      /\ Send(Carry(m, {}), ACK(ourPort, m.tid, m.num), ether)
      /\ net_state' = (IF m.count < blkSize THEN "SUCCESS" ELSE net_state)
      /\ Accepts(m) /\ m.kind = "DATA"
    BY DEF ReceiveData
<1>2. /\ m.num \in 1..sessions[m.tid].block /\ m.num <= LastBlockOf(0) /\ m.num \in Nat
      /\ m.at = (m.num - 1) * Blk(0) /\ m.at \in Nat /\ m.count \in 0..Blk(0)
      /\ m.at + m.count <= run.len
      /\ m.count = Blk(0) \/ m.at + m.count = run.len
      /\ m.count < Blk(0) => m.num = LastBlockOf(0)
      /\ m.num = LastBlockOf(0) => m.count < Blk(0)
      /\ sessions[m.tid].block \in 0..LastBlockOf(0)
      /\ blkSize = Blk(0)
      /\ state = "SEND_RRQ" => m.num = 1 /\ ~run.opt /\ sessions[m.tid].block = 1
      /\ state # "SEND_RRQ" => m.tid = remotePort
      /\ ourPort \in Ports /\ m.tid \in DOMAIN sessions /\ m.tid \in 1..MaxSessions
    BY <1>1, DataFacts
<1>3. /\ run \in Scenarios /\ run.len \in Nat /\ run.len <= Cells /\ Blk(0) \in {1, 2}
      /\ LastBlockOf(0) \in Nat /\ LastBlockOf(0) < SEQ /\ Cells \in Nat
    BY Numbers, PlainBlocks, BoundsAssumption
<1>4. wrapOffset' = 0
  <2>1. CASE FirstData
      BY <1>1, <2>1
  <2>2. CASE ~FirstData
    <3>1. state = "DATA"
        BY <2>2 DEF FirstData, NetInv, TypeOK
    <3> QED
        BY <1>1, <1>2, <2>2, <3>1 DEF WrapOffset, Partner
  <2> QED
      BY <2>1, <2>2
<1>5. StoreBlock(m, m.at)
  <2>1. (m.num - 1) * blkSize + wrapOffset' = m.at
      BY <1>2, <1>4
  <2> QED
      BY <1>1, <2>1
<1>6. \A u \in 1..run.len : /\ mem'[u] = IF u - m.at \in 1..m.count THEN u ELSE mem[u]
                            /\ mem[u] = u => mem'[u] = u
                            /\ m.at < u /\ u <= m.at + m.count => mem'[u] = u
  <2> SUFFICES ASSUME NEW u \in 1..run.len
               PROVE  /\ mem'[u] = IF u - m.at \in 1..m.count THEN u ELSE mem[u]
                      /\ mem[u] = u => mem'[u] = u
                      /\ m.at < u /\ u <= m.at + m.count => mem'[u] = u
      OBVIOUS
  <2>1. u \in 1..Cells /\ u \in Int /\ m.count \in Int
      BY <1>2, <1>3
  <2>2. mem'[u] = IF u - m.at \in 1..m.count THEN m.at + u - m.at ELSE mem[u]
      BY <1>5, <2>1 DEF StoreBlock
  <2>3. m.at + u - m.at = u
      BY <1>2, <2>1
  <2>4. m.at < u /\ u <= m.at + m.count => u - m.at \in 1..m.count
      BY <1>2, <2>1
  <2> QED
      BY <2>2, <2>3, <2>4
<1>7. run' = run /\ pc' = pc /\ ourPort' = ourPort /\ sessions' = sessions /\ ret' = ret
      /\ blkSize' = blkSize /\ udpHandler' = udpHandler
    BY <1>1
<1>8. \A n \in Int : Have(n) => Have(n)'
    BY <1>6, <1>7 DEF Have, Blk
<1>9. Have(sessions[m.tid].block - 1)
  <2>1. CASE state = "SEND_RRQ"
    <3>1. sessions[m.tid].block - 1 = 0
        BY <1>2, <2>1
    <3> QED
        BY <1>3, <3>1, HaveNone
  <2>2. CASE state # "SEND_RRQ"
      BY <1>2, <2>2 DEF Stored, Over
  <2> QED
      BY <2>1, <2>2
<1>10. PICK c \in Nat : c = m.num
    BY <1>2
<1>11. Have(c)'
  <2>1. Have(c - 1)
      BY <1>2, <1>3, <1>9, <1>10, HaveLess
  <2>2. Have(c - 1)'
      BY <1>8, <1>10, <2>1
  <2> SUFFICES ASSUME NEW u \in 1..run.len, u <= c * Blk(0)
               PROVE  mem'[u] = u
      BY <1>7 DEF Have, Blk
  <2>3. u <= (c - 1) * Blk(0) => mem'[u] = u
      BY <1>7, <2>2 DEF Have, Blk
  <2>4. u > (c - 1) * Blk(0) => m.at < u /\ u <= m.at + m.count
    <3>1. CASE Blk(0) = 1
        BY <1>2, <1>3, <1>10, <3>1
    <3>2. CASE Blk(0) = 2
        BY <1>2, <1>3, <1>10, <3>2
    <3> QED
        BY <1>3, <3>1, <3>2
  <2>5. u \in Int /\ (c - 1) * Blk(0) \in Int
    <3>1. (c - 1) * 1 \in Int /\ (c - 1) * 2 \in Int
        BY <1>10
    <3> QED
        BY <1>3, <3>1
  <2> QED
      BY <1>6, <2>3, <2>4, <2>5
<1>12. /\ Sent' \subseteq Sent \cup {ArpRequest, ACK(ourPort, m.tid, c)}
       /\ net' \subseteq net \cup {ArpRequest, ACK(ourPort, m.tid, c)}
       /\ tx' = ACK(ourPort, m.tid, c)
  <2>1. Carry(m, {}) \subseteq net
      BY CarryLess
  <2> QED
      BY <1>1, <1>7, <1>10, <2>1, SendOnly
<1>13. \A t, n : ACK(ourPort, t, n) \in Sent' =>
                   ACK(ourPort, t, n) \in Sent \/ (t = m.tid /\ n = c)
    BY <1>12 DEF ACK, ArpRequest
<1>14. \A t \in 1..MaxSessions, n \in 0..(SEQ - 1) :
         ACK(ourPort, t, n) \in Sent' => t = m.tid /\ n <= sessions[t].block /\ Have(n)'
  <2> SUFFICES ASSUME NEW t \in 1..MaxSessions, NEW n \in 0..(SEQ - 1), ACK(ourPort, t, n) \in Sent'
               PROVE  t = m.tid /\ n <= sessions[t].block /\ Have(n)'
      OBVIOUS
  <2>1. CASE t = m.tid /\ n = c
      BY <1>2, <1>10, <1>11, <2>1
  <2>2. CASE ACK(ourPort, t, n) \in Sent
    <3>1. t = m.tid /\ t = remotePort /\ n <= sessions[t].block /\ state # "SEND_RRQ"
        BY <1>2, <2>2 DEF Partner
    <3>2. n \in Acked /\ n \in Int
        BY <2>2, <3>1 DEF Acked
    <3>3. Have(n)
        BY <3>1, <3>2 DEF Stored, Over
    <3> QED
        BY <1>8, <3>1, <3>2, <3>3
  <2> QED
      BY <1>13, <2>1, <2>2
<1>15. Partner'
  <2>1. \A t \in DOMAIN sessions : sessions[t].port = ourPort /\ t # m.tid =>
                                     sessions[t].block = FirstBlock
      BY <1>2 DEF Partner
  <2>2. tx'.kind # "OACK"
      BY <1>12 DEF ACK
  <2>3. Blk(0)' = Blk(0) /\ FirstBlock' = FirstBlock
      BY <1>7 DEF Blk, FirstBlock
  <2>4. m.num <= sessions[m.tid].block
      BY <1>2
  <2> QED
      BY <1>1, <1>2, <1>4, <1>7, <1>14, <2>1, <2>2, <2>3, <2>4 DEF Partner
<1>16. Stored'
  <2>1. Have(sessions[remotePort].block - 1)'
    <3>1. PICK d \in Int : d = sessions[m.tid].block - 1
        BY <1>2, <1>3
    <3>2. Have(d)'
        BY <1>8, <1>9, <3>1
    <3> QED
        BY <1>1, <1>7, <3>1, <3>2 DEF Have, Blk
  <2>2. Have(block)' /\ Have(lastBlock)'
      BY <1>1, <1>10, <1>11 DEF Have, Blk
  <2>3. \A n \in Acked' : Have(n)'
      BY <1>1, <1>2, <1>7, <1>14 DEF Acked
  <2>4. lastBlock' <= sessions'[remotePort'].block
      BY <1>1, <1>2, <1>7
  <2> QED
      BY <1>1, <2>1, <2>2, <2>3, <2>4 DEF Stored
<1>17. Placed'
  <2>1. \A u \in 1..run.len : mem'[u] \in {0, u}
      BY <1>6 DEF Placed
  <2>2. /\ xferSize \in Nat /\ xferSize <= run.len
        /\ xferSize' = IF xferSize < m.at + m.count THEN m.at + m.count ELSE xferSize
      BY <1>5 DEF StoreBlock, Placed, NetInv, TypeOK
  <2>3. xferSize' <= run.len
      BY <1>2, <1>3, <2>2
  <2>4. ASSUME net_state' = "SUCCESS"
        PROVE  xferSize' = run.len /\ \A u \in 1..run.len : mem'[u] = u
    <3>1. CASE m.count < blkSize
      <4>1. c = LastBlockOf(0) /\ m.at + m.count = run.len
          BY <1>2, <1>3, <1>10, <3>1
      <4>2. xferSize' = run.len
          BY <1>3, <2>2, <4>1
      <4>3. \A u \in 1..run.len : u <= c * Blk(0)
        <5>1. LastBlockOf(0) = run.len \div Blk(0) + 1
            BY DEF LastBlockOf
        <5>2. run.len < (run.len \div 1 + 1) * 1 /\ run.len < (run.len \div 2 + 1) * 2
            BY <1>3
        <5>3. run.len < c * Blk(0)
            BY <1>3, <4>1, <5>1, <5>2
        <5>4. c * 1 \in Int /\ c * 2 \in Int
            BY <1>10
        <5> QED
            BY <1>3, <5>3, <5>4
      <4> QED
          BY <1>7, <1>11, <4>2, <4>3 DEF Have, Blk
    <3>2. CASE ~(m.count < blkSize)
      <4>1. net_state = "SUCCESS"
          BY <1>1, <2>4, <3>2
      <4>2. xferSize = run.len /\ \A u \in 1..run.len : mem[u] = u
          BY <4>1 DEF Placed
      <4> QED
          BY <1>2, <1>3, <1>6, <2>2, <4>2
    <3> QED
        BY <3>1, <3>2
  <2> QED
      BY <1>7, <2>1, <2>3, <2>4 DEF Placed
<1>18. OkIsWhole'
  <2>1. ret' = "none"
      BY <1>7 DEF Placed
  <2> QED
      BY <2>1 DEF OkIsWhole
<1> QED
    BY <1>15, <1>16, <1>17, <1>18

\* A timeout repeats the acknowledgement of a block that is stored, or the transfer is over.
LEMMA TimeoutKeeps ==
  ASSUME Plain, NetInv, Partner, Stored, Placed, OkIsWhole, NetInv', TftpTimeout
  PROVE  Partner' /\ Stored' /\ Placed' /\ OkIsWhole'
<1>1. /\ UNCHANGED <<run, ret, state, ourPort, remotePort, block, lastBlock, wrapOffset, blkSize,
                     store, sessions>>
      /\ pc = "timer" /\ pc' = "switch" /\ timeHandler = "tftp"
    BY DEF TftpTimeout, Goto
<1>2. Same /\ sessions' = sessions /\ pc # "idle" /\ pc' # "idle" /\ ~Over
    BY <1>1 DEF Same, Over, store
<1>3. CASE timeouts + 1 > TIMEOUT_COUNT
  <2>1. NetStartAgain("none") /\ UNCHANGED <<net, arp>>
      BY <1>3 DEF TftpTimeout
  <2>2. GivenUp' /\ (net_state' = "SUCCESS" => net_state = "SUCCESS")
    <3>1. TypeOK /\ "none" \in {"none", "tftp", "again"}
        BY DEF NetInv
    <3> QED
        BY <2>1, <3>1, AgainTypes DEF GivenUp
  <2>3. tx' = tx /\ net' = net /\ Sent' = Sent
      BY <1>1, <2>1 DEF arp, Sent
  <2> QED
      BY <1>2, <2>2, <2>3, SameKeeps
<1>4. CASE ~(timeouts + 1 > TIMEOUT_COUNT)
  <2>1. /\ timeHandler' = "tftp" /\ Send(net, Current, ether)
        /\ UNCHANGED <<net_state, udpHandler, tries>>
      BY <1>4 DEF TftpTimeout
  <2>2. /\ run' = run /\ state' = state /\ ourPort' = ourPort /\ remotePort' = remotePort
        /\ block' = block /\ lastBlock' = lastBlock /\ wrapOffset' = wrapOffset
        /\ blkSize' = blkSize /\ xferSize' = xferSize /\ mem' = mem /\ ret' = ret
        /\ sessions' = sessions /\ net_state' = net_state /\ udpHandler' = udpHandler
      BY <1>1, <2>1 DEF store
  <2>3. /\ Sent' \subseteq Sent \cup {ArpRequest, Current}
        /\ net' \subseteq net \cup {ArpRequest, Current}
        /\ tx' = Current
      BY <1>2, <2>1, SendOnly
  <2>4. OACK(ourPort, remotePort) \in net' => OACK(ourPort, remotePort) \in net
      BY <2>3 DEF Current, OACK, ACK, RRQ, ArpRequest
  <2>5. \A t, n : ACK(ourPort, t, n) \in Sent' =>
                    \/ ACK(ourPort, t, n) \in Sent
                    \/ state # "SEND_RRQ" /\ t = remotePort /\ n = block
      BY <2>3 DEF Current, ACK, RRQ, ArpRequest
  <2>6. Partner'
    <3>1. tx'.kind # "OACK"
        BY <2>3 DEF Current, ACK, RRQ
    <3>2. Blk(0)' = Blk(0) /\ FirstBlock' = FirstBlock
        BY <2>2 DEF Blk, FirstBlock
    <3>3. \A t \in 1..MaxSessions, n \in 0..(SEQ - 1) :
            ACK(ourPort, t, n) \in Sent' =>
              state # "SEND_RRQ" /\ t = remotePort /\ n <= sessions[t].block
        BY <1>2, <2>5 DEF Partner
    <3> QED
        BY <1>2, <2>2, <3>1, <3>2, <3>3 DEF Partner
  <2>7. Stored'
    <3> SUFFICES ASSUME ~Over', state # "SEND_RRQ" PROVE Stored'
        BY <2>2 DEF Stored
    <3>1. net_state \notin {"RESTART", "FAIL"}
        BY <1>1, <2>2 DEF Over
    <3>2. /\ Have(sessions[remotePort].block - 1)
          /\ \A n \in Acked : Have(n)
          /\ state = "DATA" => lastBlock <= sessions[remotePort].block /\ Have(lastBlock)
          /\ OACK(ourPort, remotePort) \in net =>
               /\ state = "OACK" => /\ block = 0 /\ sessions[remotePort].block <= 1
                                    /\ \A n \in Acked : n = 0
          /\ Have(block)
        BY <1>1, <1>2, <3>1 DEF Stored
    <3>3. \A n \in Acked' : n \in Acked \/ n = block
        BY <2>2, <2>5 DEF Acked
    <3>4. \A n : Have(n)' <=> Have(n)
        BY <2>2 DEF Have, Blk
    <3>5. Have(sessions[remotePort].block - 1)' /\ (Have(lastBlock)' <=> Have(lastBlock)) /\ Have(block)'
        BY <2>2, <3>2 DEF Have, Blk
    <3>6. \A n \in Acked' : Have(n)'
        BY <3>2, <3>3, <3>4
    <3> QED
        BY <2>2, <2>4, <3>2, <3>3, <3>5, <3>6 DEF Stored
  <2>8. Placed' /\ OkIsWhole'
      BY <1>2, <2>2 DEF Placed, OkIsWhole
  <2> QED
      BY <2>6, <2>7, <2>8
<1> QED
    BY <1>3, <1>4

\* The steps of the loop that store and acknowledge nothing.
LEMMA QuietKeeps ==
  ASSUME NetInv, Partner, Stored, Placed, OkIsWhole,
         \/ pc = "rx" /\ ReceiveArp
         \/ pc = "rx" /\ \E m \in ToClient : Ignore(m) \/ ReceiveError(m)
         \/ ArpTimeout \/ NoArpTimeout \/ StartAgainTimeout \/ NoTimeout \/ Continue
  PROVE  Partner' /\ Stored' /\ Placed' /\ OkIsWhole'
<1>1. /\ TypeOK /\ timeHandler \in {"none", "tftp", "again"} 
      /\ tx.kind # "OACK" \/ pc = "idle"
    BY DEF NetInv, TypeOK, Partner
<1>2. \A p, t : OACK(p, t).kind = "OACK" /\ OACK(p, t) # ArpRequest
    BY DEF OACK, ArpRequest
<1>3. \A p, t, n : ACK(p, t, n) # ArpRequest
    BY DEF ACK, ArpRequest
<1>4. CASE pc = "rx" /\ ReceiveArp
  <2>1. /\ UNCHANGED <<run, loop, arpTry, tx, transfer, store, sessions>>
        /\ net' \subseteq net \cup {tx}
      BY <1>4, CarryLess DEF ReceiveArp, Carry
  <2>2. /\ Same /\ sessions' = sessions /\ tx' = tx /\ pc # "idle" /\ pc' # "idle"
        /\ Over' = Over /\ GivenUp' = GivenUp /\ net_state' = net_state
      BY <1>4, <2>1 DEF Same, loop, transfer, store, Over, GivenUp
  <2>3. \A p, t, n : ACK(p, t, n) \in Sent' => ACK(p, t, n) \in Sent
      BY <2>1, <2>2 DEF Sent
  <2>4. \A p, t : OACK(p, t) \in net' => OACK(p, t) \in net
      BY <1>1, <1>2, <2>1, <2>2
  <2> QED
      BY <2>2, <2>3, <2>4, SameKeeps
<1>5. ASSUME pc = "rx", NEW m \in ToClient, Ignore(m) \/ ReceiveError(m)
      PROVE  Partner' /\ Stored' /\ Placed' /\ OkIsWhole'
  <2>1. /\ UNCHANGED <<run, pc, ret, arp, transfer, store, sessions>> /\ net' \subseteq net
        /\ \/ UNCHANGED <<net_state, timeHandler, udpHandler>>
           \/ net_state' = "FAIL"
           \/ NetStartAgain(timeHandler)
      BY <1>5, CarryLess DEF Ignore, ReceiveError, loop
  <2>2. /\ GivenUp => GivenUp'
        /\ net_state' = "SUCCESS" => net_state = "SUCCESS"
    <3>1. CASE UNCHANGED <<net_state, timeHandler, udpHandler>> \/ net_state' = "FAIL"
        BY <3>1 DEF GivenUp
    <3>2. CASE NetStartAgain(timeHandler)
        BY <1>1, <1>5, <3>2, AgainTypes DEF GivenUp
    <3> QED
        BY <2>1, <3>1, <3>2
  <2>3. /\ Same /\ sessions' = sessions /\ tx' = tx /\ pc # "idle" /\ pc' # "idle" /\ ~Over
      BY <1>5, <2>1 DEF Same, transfer, store, arp, Over
  <2>4. Sent' \subseteq Sent
      BY <2>1, <2>3 DEF Sent
  <2> QED
      BY <2>1, <2>2, <2>3, <2>4, SameKeeps
<1>6. CASE ArpTimeout
  <2>1. /\ UNCHANGED <<run, ret, tx, transfer, store, sessions>>
        /\ pc = "rx" /\ pc' = "timer" /\ net' \subseteq net \cup {ArpRequest}
        /\ NetStartAgain(timeHandler) \/ UNCHANGED <<net_state, timeHandler, udpHandler>>
      BY <1>6 DEF ArpTimeout, Goto
  <2>2. /\ GivenUp => GivenUp'
        /\ net_state' = "SUCCESS" => net_state = "SUCCESS"
    <3>1. CASE UNCHANGED <<net_state, timeHandler, udpHandler>>
        BY <3>1 DEF GivenUp
    <3>2. CASE NetStartAgain(timeHandler)
        BY <1>1, <2>1, <3>2, AgainTypes DEF GivenUp
    <3> QED
        BY <2>1, <3>1, <3>2
  <2>3. /\ Same /\ sessions' = sessions /\ tx' = tx /\ pc # "idle" /\ pc' # "idle" /\ ~Over
      BY <2>1 DEF Same, transfer, store, Over
  <2>4. \A p, t, n : ACK(p, t, n) \in Sent' => ACK(p, t, n) \in Sent
      BY <1>3, <2>1, <2>3 DEF Sent
  <2>5. \A p, t : OACK(p, t) \in net' => OACK(p, t) \in net
      BY <1>2, <2>1
  <2> QED
      BY <2>2, <2>3, <2>4, <2>5, SameKeeps
<1>7. CASE NoArpTimeout \/ StartAgainTimeout \/ NoTimeout \/ Continue
  <2>1. /\ UNCHANGED <<run, udpHandler, tries, ret, arp, transfer, store, world>>
        /\ pc # "idle" /\ pc' # "idle"
        /\ \/ UNCHANGED <<net_state, timeHandler>> /\ pc # "switch"
           \/ UNCHANGED <<net_state, timeHandler>> /\ net_state = "CONTINUE"
           \/ net_state' = "RESTART" /\ pc # "switch"
      BY <1>7 DEF NoArpTimeout, StartAgainTimeout, NoTimeout, Continue, Goto
  <2>2. /\ Same /\ sessions' = sessions /\ tx' = tx /\ net' = net
      BY <2>1 DEF Same, transfer, store, arp, world
  <2>3. Sent' = Sent
      BY <2>1, <2>2 DEF Sent
  <2>4. ~Over /\ (GivenUp => GivenUp') /\ (net_state' = "SUCCESS" => net_state = "SUCCESS")
      BY <2>1 DEF Over, GivenUp
  <2> QED
      BY <2>1, <2>2, <2>3, <2>4, SameKeeps
<1> QED
    BY <1>4, <1>5, <1>6, <1>7

\* The server goes on only after it has seen the acknowledgement of its last block.
LEMMA ServerWaits ==
  ASSUME Plain, NetInv, Server \/ ServerTimeout \/ ServerError \/ Lose
  PROVE  /\ \A p, t, n : ACK(p, t, n) \in net' => ACK(p, t, n) \in net
         /\ \A p, t : OACK(p, t) \in net' => OACK(p, t) \in net \/ sessions'[t].block = 0
         /\ \A t \in DOMAIN sessions' :
              IF t \in DOMAIN sessions
              THEN \/ sessions'[t].block = sessions[t].block
                   \/ ACK(sessions[t].port, t, sessions[t].block) \in net
              ELSE sessions'[t].block = FirstBlock
<1>1. \A p, t, n : /\ ACK(p, t, n) # ArpReply
                   /\ \A q, s, b : ACK(p, t, n) # ServerPacket(s, q, b)
                   /\ \A q, s, e : ACK(p, t, n) # ERROR(q, s, e)
    BY DEF ACK, ArpReply, ServerPacket, OACK, DATA, ERROR
<1>2. \A p, t : /\ OACK(p, t) # ArpReply
                /\ \A q, s, b : OACK(p, t) = ServerPacket(s, q, b) => t = s /\ b = 0
                /\ \A q, s, e : OACK(p, t) # ERROR(q, s, e)
    BY DEF ArpReply, ServerPacket, OACK, DATA, ERROR
<1>3. CASE ServerArp \/ Lose
  <2>1. net' \subseteq net \cup {ArpReply} /\ sessions' = sessions
      BY <1>3, CarryLess DEF ServerArp, Lose
  <2> QED
      BY <1>1, <1>2, <2>1
<1>4. CASE ServerError
  <2>1. PICK t \in DOMAIN sessions, e \in {"not-found", "other"} :
          /\ net' = net \cup {ERROR(sessions[t].port, t, e)}
          /\ sessions' = sessions
      BY <1>4 DEF ServerError
  <2> QED
      BY <1>1, <1>2, <2>1
<1>5. CASE ServerTimeout
  <2>1. PICK t \in DOMAIN sessions :
          /\ net' = net \cup {ServerPacket(t, sessions[t].port, sessions[t].block)}
          /\ sessions' = sessions
      BY <1>5 DEF ServerTimeout
  <2> QED
      BY <1>1, <1>2, <2>1
<1>6. CASE ServerBegin
  <2>1. PICK m \in net, k \in Int :
          /\ k = Cardinality(DOMAIN sessions) + 1
          /\ \/ /\ sessions' = [s \in 1..k |-> IF s = k THEN [port |-> m.port, block |-> FirstBlock]
                                                       ELSE sessions[s]]
                /\ net' \subseteq net \cup {ServerPacket(k, m.port, FirstBlock)}
             \/ net' \subseteq net /\ sessions' = sessions
    <3>1. PICK k0 \in Nat : DOMAIN sessions = 1..k0
        BY DEF NetInv, SessionsInv
    <3>2. Cardinality(DOMAIN sessions) = k0
      <4>1. Cardinality(1..k0) = k0
          BY FS_Interval
      <4> QED
          BY <3>1, <4>1
    <3> QED
        BY <1>6, <3>2, CarryLess DEF ServerBegin, FirstBlock
  <2>2. CASE net' \subseteq net /\ sessions' = sessions
      BY <2>2
  <2>3. CASE /\ sessions' = [s \in 1..k |-> IF s = k THEN [port |-> m.port, block |-> FirstBlock]
                                                    ELSE sessions[s]]
             /\ net' \subseteq net \cup {ServerPacket(k, m.port, FirstBlock)}
    <3>1. PICK k0 \in Nat : DOMAIN sessions = 1..k0
        BY DEF NetInv, SessionsInv
    <3>2. k = k0 + 1
      <4>1. Cardinality(1..k0) = k0
          BY FS_Interval
      <4> QED
          BY <2>1, <3>1, <4>1
    <3>3. /\ DOMAIN sessions' = 1..k /\ sessions'[k].block = FirstBlock /\ k \notin DOMAIN sessions
          /\ \A t \in 1..k : t = k \/ (t \in DOMAIN sessions /\ sessions'[t] = sessions[t])
        BY <2>3, <3>1, <3>2
    <3>4. \A p, t, n : ACK(p, t, n) \in net' => ACK(p, t, n) \in net
        BY <1>1, <2>3
    <3>5. \A p, t : OACK(p, t) \in net' => OACK(p, t) \in net \/ sessions'[t].block = 0
        BY <1>2, <2>3, <3>3
    <3> QED
        BY <3>3, <3>4, <3>5
  <2> QED
      BY <2>1, <2>2, <2>3
<1>7. CASE ServerAck
  <2>1. PICK m \in {n \in net : n.kind = "ACK"} :
          \/ /\ m.num = sessions[m.tid].block % SEQ
             /\ sessions' = [sessions EXCEPT ![m.tid].block = @ + 1]
             /\ net' = Carry(m, {ServerPacket(m.tid, m.port, sessions[m.tid].block + 1)})
          \/ net' = Carry(m, {}) /\ UNCHANGED sessions
          \/ /\ net' = Carry(m, {ServerPacket(m.tid, m.port, sessions[m.tid].block)})
             /\ UNCHANGED sessions
      BY <1>7 DEF ServerAck
  <2>2. Known(m)
      BY DEF NetInv, Sent
  <2>3. /\ m.tid \in DOMAIN sessions /\ sessions[m.tid].port = m.port
        /\ m = ACK(m.port, m.tid, m.num)
      BY <2>2, KnownKinds DEF Of
  <2>4. sessions[m.tid].block \in 0..LastBlockOf(0)
    <3>1. run \in Scenarios
        BY Numbers
    <3>2. FirstBlock \in Nat /\ \A t : LastBlockOf(t) = LastBlockOf(0) /\ LastBlockOf(0) \in Nat
        BY <3>1, RunTypes
    <3> QED
        BY <2>3, <3>2 DEF NetInv, SessionsInv
  <2>5. CASE /\ m.num = sessions[m.tid].block % SEQ
             /\ sessions' = [sessions EXCEPT ![m.tid].block = @ + 1]
             /\ net' = Carry(m, {ServerPacket(m.tid, m.port, sessions[m.tid].block + 1)})
    <3>1. m.num = sessions[m.tid].block
        BY <2>4, <2>5, PlainBlocks, Numbers
    <3>2. ACK(sessions[m.tid].port, m.tid, sessions[m.tid].block) \in net
        BY <2>3, <3>1
    <3>3. /\ DOMAIN sessions' = DOMAIN sessions
          /\ \A t \in DOMAIN sessions : t # m.tid => sessions'[t] = sessions[t]
        BY <2>5
    <3>4. net' \subseteq net \cup {ServerPacket(m.tid, m.port, sessions[m.tid].block + 1)}
        BY <2>5, CarryLess
    <3>5. sessions[m.tid].block + 1 # 0
      <4>1. LastBlockOf(0) \in Nat
          BY Numbers, RunTypes
      <4> QED
          BY <2>4, <4>1
    <3>6. \A p, t, n : ACK(p, t, n) \in net' => ACK(p, t, n) \in net
        BY <1>1, <3>4
    <3>7. \A p, t : OACK(p, t) \in net' => OACK(p, t) \in net
        BY <1>2, <3>4, <3>5
    <3>8. \A t \in DOMAIN sessions' :
            IF t \in DOMAIN sessions
            THEN \/ sessions'[t].block = sessions[t].block
                 \/ ACK(sessions[t].port, t, sessions[t].block) \in net
            ELSE sessions'[t].block = FirstBlock
        BY <3>2, <3>3
    <3> QED
        BY <3>6, <3>7, <3>8
  <2>6. CASE net' = Carry(m, {}) /\ UNCHANGED sessions
      BY <2>6, CarryLess
  <2>7. CASE /\ net' = Carry(m, {ServerPacket(m.tid, m.port, sessions[m.tid].block)})
             /\ UNCHANGED sessions
    <3>1. net' \subseteq net \cup {ServerPacket(m.tid, m.port, sessions[m.tid].block)}
        BY <2>7, CarryLess
    <3> QED
        BY <1>1, <1>2, <2>7, <3>1
  <2> QED
      BY <2>1, <2>5, <2>6, <2>7
<1> QED
    BY <1>3, <1>4, <1>5, <1>6, <1>7 DEF Server

\* OkIsWhole, and so DoneIsWhole: a transfer that reports success has every unit of the file in its
\* place and the right size, whatever packets are lost, late, reordered, repeated by the server or -
\* without options - doubled on the way, for every file of fewer blocks than there are block numbers.
THEOREM WholeFile == ASSUME Plain PROVE Spec => [](OkIsWhole /\ DoneIsWhole)
<1> DEFINE Whole == Partner /\ Stored /\ Placed /\ OkIsWhole
<1>1. Init => Whole
  <2> SUFFICES ASSUME Init PROVE Whole
      OBVIOUS
  <2>1. run.len \in Nat /\ run.len <= Cells
      BY PlainBlocks DEF Init
  <2>2. \A u \in 1..run.len : mem[u] = 0
      BY <2>1, BoundsAssumption DEF Init
  <2>3. Partner /\ Stored /\ OkIsWhole
      BY DEF Init, Partner, Stored, Over, OkIsWhole
  <2>4. Placed
    <3>1. pc = "idle" /\ xferSize = 0
        BY DEF Init
    <3> QED
        BY <2>1, <2>2, <3>1 DEF Placed
  <2> QED
      BY <2>3, <2>4
<1>2. NetInv /\ Whole /\ NetInv' /\ [Next]_vars => Whole'
  <2> SUFFICES ASSUME NetInv, Whole, NetInv', [Next]_vars PROVE Whole'
      OBVIOUS
  <2>0. run \in Scenarios /\ run.len \in Nat /\ run.len <= Cells
      BY Numbers, PlainBlocks
  <2>1. CASE Command
    <3>1. /\ ret' = "none" /\ mem' = [u \in 1..Cells |-> 0]
          /\ TftpStart /\ run' = run /\ sessions' = sessions
        BY <2>1 DEF Command
    <3>2. \A u \in 1..run.len : mem'[u] = 0
        BY <2>0, <3>1, BoundsAssumption
    <3> QED
        BY <3>1, <3>2, StartKeeps
  <2>2. CASE Restart
    <3>1. /\ TftpStart /\ run' = run /\ sessions' = sessions /\ mem' = mem /\ ret' = ret
          /\ pc # "idle"
        BY <2>2 DEF Restart
    <3>2. ret = "none" /\ \A u \in 1..run.len : mem[u] \in {0, u}
        BY <3>1 DEF Placed
    <3> QED
        BY <3>1, <3>2, StartKeeps
  <2>3. CASE Receive
    <3>1. pc = "rx"
        BY <2>3 DEF Receive
    <3>2. CASE ReceiveArp
        BY <3>1, <3>2, QuietKeeps
    <3>3. ASSUME NEW m \in ToClient, Ignore(m) \/ ReceiveError(m) PROVE Whole'
        BY <3>1, <3>3, QuietKeeps
    <3>4. ASSUME NEW m \in ToClient, ReceiveOack(m) PROVE Whole'
        BY <3>1, <3>4, OackKeeps
    <3>5. ASSUME NEW m \in ToClient, ReceiveFirstNotOne(m) PROVE Whole'
        BY <3>1, <3>5, FirstNotOneKeeps
    <3>6. ASSUME NEW m \in ToClient, ReceiveSameBlock(m) PROVE Whole'
        BY <3>1, <3>6, SameBlockKeeps
    <3>7. ASSUME NEW m \in ToClient, ReceiveData(m) PROVE Whole'
        BY <3>1, <3>7, DataKeeps
    <3> HIDE DEF Whole
    <3> QED
        BY <2>3, <3>2, <3>3, <3>4, <3>5, <3>6, <3>7 DEF Receive
  <2>4. CASE ArpTimeout \/ NoArpTimeout \/ StartAgainTimeout \/ NoTimeout \/ Continue
      BY <2>4, QuietKeeps
  <2>5. CASE TftpTimeout
      BY <2>5, TimeoutKeeps
  <2>6. CASE Leave \/ Abort
    <3>1. /\ pc' = "idle" /\ UNCHANGED <<run, store>>
          /\ \/ ret' \in {"fail", "abort"}
             \/ net_state = "SUCCESS" /\ pc # "idle"
        BY <2>6 DEF Leave, Abort, Return, Goto
    <3>2. mem' = mem /\ xferSize' = xferSize /\ run' = run
        BY <3>1 DEF store
    <3>3. Partner' /\ Stored'
        BY <3>1 DEF Partner, Stored, Over
    <3>4. Placed'
        BY <3>1, <3>2 DEF Placed
    <3>5. OkIsWhole'
        BY <3>1, <3>2 DEF Placed, OkIsWhole
    <3> QED
        BY <3>3, <3>4, <3>5
  <2>7. CASE Server \/ ServerTimeout \/ ServerError \/ Lose
      BY <2>7, ServerSteps, ServerWaits, ServerStores
  <2>8. CASE UNCHANGED vars
    <3>1. UNCHANGED <<run, pc, net_state, timeHandler, udpHandler, tries, ret, ether, arpWait,
                      arpTry, tx, state, ourPort, remotePort, block, lastBlock, wrapOffset,
                      blkSize, timeouts, xferSize, mem, net, sessions>>
        BY <2>8 DEF vars, loop, arp, transfer, store, world
    <3>2. CASE pc = "idle"
        BY <3>1, <3>2 DEF Partner, Stored, Over, Placed, OkIsWhole
    <3>3. CASE pc # "idle"
      <4>1. Same /\ Sent' = Sent /\ (Over => Over') /\ (GivenUp => GivenUp')
          BY <3>1 DEF Same, Sent, Over, GivenUp
      <4> QED
          BY <3>1, <3>3, <4>1, SameKeeps
    <3> QED
        BY <3>2, <3>3
  <2> HIDE DEF Whole
  <2> QED
      BY <2>1, <2>2, <2>3, <2>4, <2>5, <2>6, <2>7, <2>8 DEF Next, Client
<1>3. Whole => OkIsWhole /\ DoneIsWhole
    BY DEF DoneIsWhole
<1> HIDE DEF Whole
<1> QED
    BY <1>1, <1>2, <1>3, NetInvHolds, PTL DEF Spec
=============================================================================
