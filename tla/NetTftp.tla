------------------------------ MODULE NetTftp ------------------------------
(***************************************************************************)
(* The network loop of U-Boot loading a file with TFTP: net/tftp.c on top  *)
(* of net/arp.c and the loop of net/net.c.  The client runs in one thread; *)
(* what interleaves with it is the server, the network and the clock.      *)
(*                                                                         *)
(* Data is abstracted to blocks: the file is blocks 1..N, of which block N *)
(* is the short one, offsets and sizes are counted in blocks, and the 16   *)
(* bit block number is taken modulo TFTP_SEQUENCE_SIZE.  A stored          *)
(* block remembers which transfer of the server it comes from.             *)
(*                                                                         *)
(* Each queue of the network is a sequence of packets.  A packet may be    *)
(* lost at any moment, at most MaxLoss times, and a queue of MaxQueue      *)
(* packets loses what is added.  With Reorder any packet of a queue may    *)
(* arrive first.  With Prompt a timeout only fires when nothing is in      *)
(* flight; without it the clock is free, and answers may come late.        *)
(***************************************************************************)
EXTENDS Integers, Sequences

CONSTANTS Setups,             \* the files, networks and bounds to look at
          ARP_TIMEOUT_COUNT,  \* tries of ARP before it starts again
          RetryCnt,           \* "netretry": 0 is "no", 1 is "once"
          MaxResend           \* bound: so often the server sends again unasked

ASSUME TftpAssumption ==
    /\ {ARP_TIMEOUT_COUNT, RetryCnt, MaxResend} \subseteq Nat
    /\ \A s \in Setups :
          /\ {s.n, s.ndev} \subseteq Nat \ {0} /\ s.numbers \in Nat \ {0, 1}
          /\ {s.timeouts, s.loss, s.queue, s.errors, s.tids} \subseteq Nat
          /\ s.options \subseteq BOOLEAN /\ {s.prompt, s.reorder} \subseteq BOOLEAN

\* A network that reorders packets has no file whose numbers wrap around: a
\* late copy of a block with the number 0 would be counted as another lap.
ASSUME OrderAssumption == \A s \in Setups : s.reorder => s.n < s.numbers

VARIABLES
    setup,       \* the member of Setups
    net_state,   \* how the loop goes on, or how it ended
    tftp,        \* the statics of tftp.c
    at,          \* the block of the file whose number is tftp.last (history)
    handler,     \* the UDP handler is TftpHandler
    timer,       \* timeHandler
    ether,       \* NetServerEther is known
    arp,         \* NetArpWaitPacketIP is set, and NetArpWaitTry
    tx,          \* NetTxPacket
    NetTryCount,
    eth,         \* eth_current, first_failed and NetRestarted
    mem,         \* memory from load_addr
    size,        \* NetBootFileXferSize
    c2s, s2c,    \* the network, to the server and from it
    server,      \* the transfers of the server
    lost, resent, errors   \* how often a bounded event has happened

client == <<net_state, tftp, at, handler, timer, ether, arp, tx, NetTryCount,
            eth, mem, size>>
bounds == <<setup, lost, resent, errors>>
vars == <<client, c2s, s2c, server, bounds>>

N                  == setup.n         \* blocks of the file
TFTP_SEQUENCE_SIZE == setup.numbers   \* the numbers of blocks on the wire
TIMEOUT_COUNT      == setup.timeouts  \* timeouts of TFTP before it starts again
NDev               == setup.ndev      \* the ethernet devices of the board
Options            == setup.options   \* whether the server may answer with an OACK
Prompt             == setup.prompt    \* what the clock and
Reorder            == setup.reorder   \* the network may do
MaxLoss            == setup.loss      \* bounds: packets lost,
MaxQueue           == setup.queue     \* packets on their way in one direction,
MaxErrors          == setup.errors    \* requests refused,
MaxTids            == setup.tids      \* transfers of the server

Tids == 1..MaxTids
Ports == 1..(RetryCnt + 1)
Number(b) == b % TFTP_SEQUENCE_SIZE

\* The blocks of memory that are watched; one lap of numbers beyond the file
Memory == 0..(N + TFTP_SEQUENCE_SIZE - 1)

(***************************************************************************)
(* Packets.  A request names the port of the client, an answer also the    *)
(* transfer (the port the server has chosen for it).                       *)
(***************************************************************************)
ArpAsk == [type |-> "ARP", port |-> 0, tid |-> 0, blk |-> 0]
RRQ(p) == [type |-> "RRQ", port |-> p, tid |-> 0, blk |-> 0]
ACK(p, t, n) == [type |-> "ACK", port |-> p, tid |-> t, blk |-> n]
OACK(p, t) == [type |-> "OACK", port |-> p, tid |-> t, blk |-> 0]
DATA(p, t, b) == [type |-> "DATA", port |-> p, tid |-> t, blk |-> b]
ERROR(p, code) == [type |-> code, port |-> p, tid |-> 0, blk |-> 0]

Packets == [type: {"ARP", "RRQ", "ACK", "OACK", "DATA", "missing", "busy"},
            port: {0} \cup Ports, tid: {0} \cup Tids, blk: 0..N]

Push(q, p) == IF Len(q) < MaxQueue THEN Append(q, p) ELSE q

\* The places a packet may be taken from
Heads(q) == 1..(IF Reorder THEN Len(q) ELSE IF q = <<>> THEN 0 ELSE 1)

Expires == Prompt => c2s = <<>> /\ s2c = <<>>

(***************************************************************************)
(* Sending.  NetSendUDPPacket keeps the one packet that waits for ARP in   *)
(* NetTxPacket; TftpSend repeats whatever the state of the transfer calls  *)
(* for.                                                                    *)
(***************************************************************************)
NetSendUDPPacket(known, p) ==
    IF known
    THEN /\ c2s' = Push(c2s, p)
         /\ tx' = p
         /\ UNCHANGED arp
    ELSE /\ c2s' = Push(c2s, ArpAsk)
         /\ tx' = p
         /\ arp' = [wait |-> TRUE, try |-> 1]

TftpPacket(t) == IF t.state = "SEND_RRQ" THEN RRQ(t.port)
                                         ELSE ACK(t.port, t.remote, t.block)

TftpSend(t) == NetSendUDPPacket(ether, TftpPacket(t))

(***************************************************************************)
(* Starting.  Nothing of an earlier attempt but its last block number, its *)
(* wrap offset and the blocks in memory is left.                           *)
(* Every attempt has a port of its own: TftpOurPort is the time in ms      *)
(* modulo 3072, which attempts a multiple of 3072 ms apart would share.    *)
(***************************************************************************)
Started(t) == [t EXCEPT !.state = "SEND_RRQ", !.remote = 0, !.timeouts = 0,
                        !.port = NetTryCount', !.block = 0]

TftpStart ==
    /\ net_state' = "CONTINUE"
    /\ tftp' = Started(tftp)
    /\ handler' = TRUE
    /\ timer' = "tftp"
    /\ ether' = FALSE
    /\ size' = 0
    /\ NetSendUDPPacket(FALSE, RRQ(NetTryCount'))
    /\ UNCHANGED <<at, mem>>

\* eth_try_another: the next device of the ring, and whether that is the lap
Turned == LET next == 1 + (eth.dev % NDev)
          IN  [eth EXCEPT !.dev = next,
                          !.first = IF eth.restarted THEN @ ELSE eth.dev]

\* The loop ends without the file
Fails == /\ net_state' = "FAIL"
         /\ handler' = FALSE /\ timer' = "none"
         /\ UNCHANGED <<NetTryCount, eth>>

NetStartAgain_Uncounted ==
    IF NetTryCount >= RetryCnt
    THEN Fails
    ELSE /\ eth' = Turned
         /\ UNCHANGED NetTryCount
         /\ IF eth'.dev = eth'.first
            THEN timer' = "again" /\ handler' = FALSE /\ UNCHANGED net_state
            ELSE net_state' = "RESTART" /\ UNCHANGED <<handler, timer>>

\* A failed attempt.  After a lap over the devices it waits before the next.
NetStartAgain ==
    IF NetTryCount >= RetryCnt
    THEN Fails
    ELSE /\ NetTryCount' = NetTryCount + 1
         /\ eth' = Turned
         /\ IF eth'.dev = eth'.first
            THEN timer' = "again" /\ handler' = FALSE /\ UNCHANGED net_state
            ELSE net_state' = "RESTART" /\ UNCHANGED <<handler, timer>>

Restart ==
    /\ net_state = "RESTART"
    /\ eth' = [eth EXCEPT !.restarted = TRUE]
    /\ UNCHANGED <<NetTryCount, s2c, server, bounds>>
    /\ TftpStart

startAgainTimeout ==
    /\ net_state = "CONTINUE" /\ timer = "again"
    /\ eth' = [eth EXCEPT !.restarted = TRUE]
    /\ UNCHANGED <<NetTryCount, s2c, server, bounds>>
    /\ TftpStart

(***************************************************************************)
(* Receiving.  The loop takes one packet at a time from the device and     *)
(* hands it to ArpReceive or, if it is for the handler's port and comes    *)
(* from the server's, to TftpHandler.                                      *)
(***************************************************************************)
\* The queue without its i-th packet
RemoveAt(q, i) == SubSeq(q, 1, i - 1) \o SubSeq(q, i + 1, Len(q))

Take(i) == s2c' = RemoveAt(s2c, i)

\* ArpReceive: the first answer releases the packet that waits for it
ArpReceive ==
    \E i \in Heads(s2c) :
        /\ net_state = "CONTINUE"
        /\ s2c[i].type = "ARP"
        /\ Take(i)
        /\ IF arp.wait
           THEN /\ ether' = TRUE
                /\ arp' = [arp EXCEPT !.wait = FALSE]
                /\ c2s' = Push(c2s, tx)
           ELSE UNCHANGED <<ether, arp, c2s>>
        /\ UNCHANGED <<net_state, tftp, at, handler, timer, tx, NetTryCount,
                       eth, mem, size, server, bounds>>

ForMe_AnyPort(p) == handler /\ p.type # "ARP" /\ p.port = tftp.port

\* TftpHandler's first two conditions
ForMe(p) == /\ handler /\ p.type # "ARP"
            /\ p.port = tftp.port
            /\ tftp.state = "SEND_RRQ" \/ p.tid = tftp.remote

Ignored ==
    \E i \in Heads(s2c) :
        /\ net_state = "CONTINUE"
        /\ s2c[i].type # "ARP" /\ ~ForMe(s2c[i])
        /\ Take(i)
        /\ UNCHANGED <<client, c2s, server, bounds>>

\* An OACK, in whatever state: what was received last is acknowledged again
GotOACK(t, p) == [t EXCEPT !.state = "OACK", !.remote = p.tid]

HandleOACK ==
    \E i \in Heads(s2c) :
        /\ net_state = "CONTINUE"
        /\ s2c[i].type = "OACK" /\ ForMe(s2c[i])
        /\ Take(i)
        /\ tftp' = GotOACK(tftp, s2c[i])
        /\ TftpSend(tftp')
        /\ UNCHANGED <<net_state, at, handler, timer, ether, NetTryCount, eth,
                       mem, size, server, bounds>>

update_block_number_Always(t, n) ==
    IF n = 0
    THEN [t EXCEPT !.block = n, !.wrap = @ + TFTP_SEQUENCE_SIZE, !.timeouts = 0]
    ELSE [t EXCEPT !.block = n]

\* The number of the packet is taken over, and 0 counts as a lap
update_block_number(t, n) ==
    IF n = 0 /\ t.last # 0
    THEN [t EXCEPT !.block = n, !.wrap = @ + TFTP_SEQUENCE_SIZE, !.timeouts = 0]
    ELSE [t EXCEPT !.block = n]

new_transfer(t) == [t EXCEPT !.last = 0, !.wrap = 0]

\* The transfer after the number of a block of data has been looked at
First(t) == t.state \in {"SEND_RRQ", "OACK"}
Looked(t, p) ==
    LET u == update_block_number(t, Number(p.blk))
    IN  IF First(t) THEN new_transfer([u EXCEPT !.state = "DATA", !.remote = p.tid])
                    ELSE u

store_block(offset, p) ==
    /\ mem' = IF offset \in Memory THEN [mem EXCEPT ![offset] = <<p.tid, p.blk>>]
                                   ELSE mem
    /\ size' = IF size < offset + 1 THEN offset + 1 ELSE size

\* The first block is not block 1: the attempt has failed
HandleDataNotFirst ==
    \E i \in Heads(s2c) :
        /\ net_state = "CONTINUE"
        /\ s2c[i].type = "DATA" /\ ForMe(s2c[i])
        /\ First(tftp) /\ Number(s2c[i].blk) # 1
        /\ Take(i)
        /\ tftp' = Looked(tftp, s2c[i])
        /\ NetStartAgain
        /\ UNCHANGED <<at, ether, arp, tx, mem, size, c2s, server, bounds>>

\* The same block again: it is not stored and not acknowledged
HandleDataSame ==
    \E i \in Heads(s2c) :
        /\ net_state = "CONTINUE"
        /\ s2c[i].type = "DATA" /\ ForMe(s2c[i])
        /\ ~First(tftp) /\ Number(s2c[i].blk) = tftp.last
        /\ Take(i)
        /\ tftp' = Looked(tftp, s2c[i])
        /\ UNCHANGED <<net_state, at, handler, timer, ether, arp, tx,
                       NetTryCount, eth, mem, size, c2s, server, bounds>>

\* Any other block is stored where its number says, and acknowledged
HandleData ==
    \E i \in Heads(s2c) :
        LET p == s2c[i]
            u == Looked(tftp, p)
        IN  /\ net_state = "CONTINUE"
            /\ p.type = "DATA" /\ ForMe(p)
            /\ First(tftp) => Number(p.blk) = 1
            /\ ~First(tftp) => Number(p.blk) # tftp.last
            /\ Take(i)
            /\ tftp' = [u EXCEPT !.last = u.block]
            /\ at' = p.blk
            /\ store_block(u.block - 1 + u.wrap, p)
            /\ TftpSend(u)
            /\ IF p.blk = N
               THEN net_state' = "SUCCESS" /\ timer' = "none" /\ handler' = FALSE
               ELSE timer' = "tftp" /\ UNCHANGED <<net_state, handler>>
            /\ UNCHANGED <<ether, NetTryCount, eth, server, bounds>>

\* An error of the server: a missing file is final, others are retried
HandleError ==
    \E i \in Heads(s2c) :
        /\ net_state = "CONTINUE"
        /\ s2c[i].type \in {"missing", "busy"} /\ ForMe(s2c[i])
        /\ Take(i)
        /\ IF s2c[i].type = "busy"
           THEN NetStartAgain
           ELSE Fails
        /\ UNCHANGED <<tftp, at, ether, arp, tx, mem, size, c2s, server, bounds>>

(***************************************************************************)
(* The clock and the operator                                              *)
(***************************************************************************)
TftpTimeout_NotRearmed ==
    /\ net_state = "CONTINUE" /\ timer = "tftp" /\ Expires
    /\ tftp' = [tftp EXCEPT !.timeouts = @ + 1]
    /\ IF tftp'.timeouts > TIMEOUT_COUNT
       THEN NetStartAgain /\ UNCHANGED <<c2s, arp, tx>>
       ELSE /\ timer' = "none"
            /\ TftpSend(tftp')
            /\ UNCHANGED <<net_state, handler, NetTryCount, eth>>
    /\ UNCHANGED <<at, ether, mem, size, s2c, server, bounds>>

\* TftpTimeout: repeat the last packet, or give the attempt up
TftpTimeout ==
    /\ net_state = "CONTINUE" /\ timer = "tftp" /\ Expires
    /\ tftp' = [tftp EXCEPT !.timeouts = @ + 1]
    /\ IF tftp'.timeouts > TIMEOUT_COUNT
       THEN NetStartAgain /\ UNCHANGED <<c2s, arp, tx>>
       ELSE /\ TftpSend(tftp')
            /\ UNCHANGED <<net_state, handler, timer, NetTryCount, eth>>
    /\ UNCHANGED <<at, ether, mem, size, s2c, server, bounds>>

\* ArpTimeoutCheck: ask again, or give the attempt up but go on waiting
ArpTimeoutCheck ==
    /\ net_state = "CONTINUE" /\ arp.wait /\ Expires
    /\ IF arp.try + 1 >= ARP_TIMEOUT_COUNT
       THEN /\ arp' = [arp EXCEPT !.try = 0]
            /\ NetStartAgain
            /\ UNCHANGED c2s
       ELSE /\ arp' = [arp EXCEPT !.try = @ + 1]
            /\ c2s' = Push(c2s, ArpAsk)
            /\ UNCHANGED <<net_state, handler, timer, NetTryCount, eth>>
    /\ UNCHANGED <<tftp, at, ether, tx, mem, size, s2c, server, bounds>>

\* Ctrl-C
Abort ==
    /\ net_state = "CONTINUE"
    /\ net_state' = "ABORT"
    /\ arp' = [arp EXCEPT !.wait = FALSE]
    /\ handler' = FALSE /\ timer' = "none"
    /\ UNCHANGED <<tftp, at, ether, tx, NetTryCount, eth, mem, size, c2s, s2c,
                   server, bounds>>

(***************************************************************************)
(* The server, a lockstep TFTP server that is not part of this repository. *)
(* It gives every request a transfer of its own, sends block after block   *)
(* as they are acknowledged, and sends its last packet again when the one  *)
(* before it is acknowledged again or when it has waited too long.         *)
(***************************************************************************)
Reply(t) == IF t.blk = 0 THEN OACK(t.port, t.tid) ELSE DATA(t.port, t.tid, t.blk)

Awaits(p, n) == /\ p.type = "ACK" /\ p.tid \in DOMAIN server
                /\ n >= 0 /\ p.blk = Number(n)

ServerReceive ==
    \E i \in Heads(c2s), oack \in Options :
        LET p == c2s[i]
            t == server[p.tid]
            new == [port |-> p.port, tid |-> Len(server) + 1,
                    blk |-> IF oack THEN 0 ELSE 1]
        IN  /\ c2s' = RemoveAt(c2s, i)
            /\ CASE p.type = "ARP" -> s2c' = Push(s2c, ArpAsk) /\ UNCHANGED server
                 [] p.type = "RRQ" /\ Len(server) < MaxTids ->
                        server' = Append(server, new) /\ s2c' = Push(s2c, Reply(new))
                 [] p.type = "ACK" /\ Awaits(p, t.blk) /\ t.blk < N ->
                        /\ server' = [server EXCEPT ![p.tid].blk = @ + 1]
                        /\ s2c' = Push(s2c, Reply(server'[p.tid]))
                 [] p.type = "ACK" /\ Awaits(p, t.blk - 1) ->
                        s2c' = Push(s2c, Reply(t)) /\ UNCHANGED server
                 [] OTHER -> UNCHANGED <<s2c, server>>
            /\ UNCHANGED <<client, bounds>>

ServerRefuses ==
    \E i \in Heads(c2s), code \in {"missing", "busy"} :
        /\ errors < MaxErrors /\ errors' = errors + 1
        /\ c2s[i].type = "RRQ"
        /\ c2s' = RemoveAt(c2s, i)
        /\ s2c' = Push(s2c, ERROR(c2s[i].port, code))
        /\ UNCHANGED <<client, server, setup, lost, resent>>

ServerResend ==
    \E t \in DOMAIN server :
        /\ resent < MaxResend /\ resent' = resent + 1
        /\ s2c' = Push(s2c, Reply(server[t]))
        /\ UNCHANGED <<client, c2s, server, setup, lost, errors>>

Lose ==
    /\ lost < MaxLoss /\ lost' = lost + 1
    /\ \/ \E i \in Heads(c2s) : c2s' = RemoveAt(c2s, i) /\ UNCHANGED s2c
       \/ \E i \in Heads(s2c) : s2c' = RemoveAt(s2c, i) /\ UNCHANGED c2s
    /\ UNCHANGED <<client, server, setup, resent, errors>>

(***************************************************************************)
(* The specification: NetLoop(TFTPGET), from its entry to its return       *)
(***************************************************************************)
Init ==
    /\ setup \in Setups
    /\ net_state = "CONTINUE"
    /\ tftp = [state |-> "SEND_RRQ", block |-> 0, last |-> 0, wrap |-> 0,
               timeouts |-> 0, remote |-> 0, port |-> 1]
    /\ at = 0
    /\ handler = TRUE /\ timer = "tftp"
    /\ ether = FALSE
    /\ arp = [wait |-> TRUE, try |-> 1]
    /\ tx = RRQ(1)
    /\ NetTryCount = 1
    /\ eth = [dev |-> 1, first |-> 1, restarted |-> FALSE]
    /\ mem = [i \in Memory |-> <<0, 0>>]
    /\ size = 0
    /\ c2s = <<ArpAsk>> /\ s2c = <<>>
    /\ server = <<>>
    /\ lost = 0 /\ resent = 0 /\ errors = 0

Receive == ArpReceive \/ Ignored \/ HandleOACK \/ HandleDataNotFirst
           \/ HandleDataSame \/ HandleData \/ HandleError

Clock == TftpTimeout \/ ArpTimeoutCheck \/ startAgainTimeout

Next == \/ Restart \/ ArpReceive \/ Ignored \/ HandleOACK \/ HandleDataNotFirst
        \/ HandleDataSame \/ HandleData \/ HandleError
        \/ TftpTimeout \/ ArpTimeoutCheck \/ startAgainTimeout \/ Abort
        \/ ServerReceive \/ ServerRefuses \/ ServerResend \/ Lose

Spec == Init /\ [][Next]_vars

\* NetLoop polls the device and the clock for ever and the server takes what
\* reaches it: while one of them can do something, something is done.  Which
\* of them does it is left open.
FairSpec == Spec /\ WF_vars(Restart \/ Receive \/ Clock \/ ServerReceive)

-----------------------------------------------------------------------------
(* The types of net/net.c, net/arp.c and net/tftp.c.                       *)
TypeOK ==
    /\ setup \in Setups
    /\ net_state \in {"CONTINUE", "RESTART", "SUCCESS", "FAIL", "ABORT"}
    /\ tftp \in [state: {"SEND_RRQ", "OACK", "DATA"},
                 block: 0..(TFTP_SEQUENCE_SIZE - 1),
                 last: 0..(TFTP_SEQUENCE_SIZE - 1),
                 wrap: 0..N, timeouts: 0..(TIMEOUT_COUNT + 1),
                 remote: {0} \cup Tids, port: Ports]
    /\ at \in 0..N
    /\ handler \in BOOLEAN /\ ether \in BOOLEAN
    /\ timer \in {"tftp", "again", "none"}
    /\ arp.wait \in BOOLEAN /\ arp.try \in 0..ARP_TIMEOUT_COUNT
    /\ tx \in Packets
    /\ NetTryCount \in Ports
    /\ eth \in [dev: 1..NDev, first: 1..NDev, restarted: BOOLEAN]
    /\ \A i \in Memory : mem[i][1] \in {0} \cup Tids /\ mem[i][2] \in 0..N
    /\ size \in 0..N
    /\ c2s \in Seq(Packets) /\ Len(c2s) <= MaxQueue
    /\ s2c \in Seq(Packets) /\ Len(s2c) <= MaxQueue
    /\ \A t \in DOMAIN server : server[t] \in [port: Ports, tid: {t}, blk: 0..N]

(* A transfer that NetLoop reports as done (NETLOOP_SUCCESS) has put every *)
(* block of the file in its place, all from one transfer of the server,    *)
(* and "filesize" is the size of the file: whatever was lost, repeated or  *)
(* late, however often the request was repeated or the loop started again. *)
FileIntact ==
    net_state = "SUCCESS" =>
        /\ size = N
        /\ \E t \in DOMAIN server : \A i \in 0..(N - 1) : mem[i] = <<t, i + 1>>

(* update_block_number: a block number of 0 means that the numbers have    *)
(* wrapped around, so the offset moves by a lap only when the block that   *)
(* arrives is the first one of that lap.                                   *)
WrapMeansWrap == [][tftp'.wrap > tftp.wrap => at' = tftp'.wrap]_vars

(* With a number in "netretry", NetLoop returns: no exchange of packets,   *)
(* timeouts and new attempts goes on for ever.                             *)
Ends == <>(net_state \in {"SUCCESS", "FAIL", "ABORT"})

(* Every lost packet is made up for: as long as no more are lost than      *)
(* TftpTimeout tolerates, timeouts do not fire early and nobody stops the   *)
(* loop, the file arrives.                                                 *)
Succeeds == <>(Prompt => net_state \in {"SUCCESS", "ABORT"})
=============================================================================
