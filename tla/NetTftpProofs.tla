---------------------------- MODULE NetTftpProofs ----------------------------
(***************************************************************************)
(* NetTftp stores the file as the server sent it, for every length of the  *)
(* file, range of block numbers, number of devices, retries, losses and    *)
(* repetitions, on a network that keeps the order and, for a file whose    *)
(* block numbers do not wrap around, on one that does not.                 *)
(***************************************************************************)
EXTENDS NetTftp, TLAPS

Packet == [type: {"ARP", "RRQ", "ACK", "OACK", "DATA", "missing", "busy"},
           port: Nat, tid: Nat, blk: Nat]

(* As much of the types as the proof needs.                                *)
Typed ==
  /\ setup \in Setups
  /\ tftp \in [state: {"SEND_RRQ", "OACK", "DATA"}, block: Nat, last: Nat,
               wrap: Nat, timeouts: Nat, remote: Nat, port: Nat]
  /\ at \in Nat /\ handler \in BOOLEAN /\ ether \in BOOLEAN
  /\ arp \in [wait: BOOLEAN, try: Nat] /\ tx \in Packet
  /\ NetTryCount \in Nat /\ mem \in [Memory -> Nat \X Nat] /\ size \in Nat
  /\ c2s \in Seq(Packet) /\ s2c \in Seq(Packet)
  /\ server \in Seq([port: Nat, tid: Nat, blk: Nat])

(* Every attempt has a port of its own, and nothing carries that port      *)
(* before the server's address is known.                                   *)
Used == IF ether THEN tftp.port ELSE tftp.port - 1

OwnPort ==
  /\ 1 <= tftp.port /\ tftp.port <= NetTryCount
  /\ net_state = "RESTART" \/ timer = "again" => tftp.port < NetTryCount
  /\ timer = "again" => ~handler
  /\ \A i \in DOMAIN c2s : c2s[i].port <= Used
  /\ \A i \in DOMAIN s2c : s2c[i].port <= Used
  /\ \A t \in DOMAIN server : server[t].port <= Used
  /\ ~ether => tftp.state = "SEND_RRQ"
  /\ arp.wait => ~ether /\ tx = RRQ(tftp.port)

IsAck(p) == p.type = "ACK"
IsReply(p) == p.type \in {"OACK", "DATA"}

(* Who is talking to whom: the client acknowledges one transfer of each    *)
(* attempt, and the others do not get beyond their first packet.           *)
Talking == tftp.state # "SEND_RRQ"

Dialogue ==
  /\ \A i \in DOMAIN c2s : IsAck(c2s[i]) =>
       /\ c2s[i].tid \in DOMAIN server /\ server[c2s[i].tid].port = c2s[i].port
       /\ c2s[i].port = tftp.port => Talking /\ c2s[i].tid = tftp.remote
  /\ \A i \in DOMAIN s2c : IsReply(s2c[i]) =>
       /\ s2c[i].tid \in DOMAIN server /\ server[s2c[i].tid].port = s2c[i].port
       /\ s2c[i].blk <= server[s2c[i].tid].blk
       /\ s2c[i].type = "OACK" <=> s2c[i].blk = 0
  /\ \A t \in DOMAIN server :
       /\ server[t].tid = t /\ server[t].blk <= N
       /\ server[t].port = tftp.port /\ ~(Talking /\ t = tftp.remote) => server[t].blk <= 1
  /\ Talking => tftp.remote \in DOMAIN server /\ server[tftp.remote].port = tftp.port

-----------------------------------------------------------------------------
(* The attempt goes on: the client has not given it up.                    *)
Active == net_state = "CONTINUE" /\ timer # "again"

(* The first k blocks of the client's transfer are in memory.              *)
Held(k) == /\ k <= size
           /\ \A i \in 0..(k - 1) : mem[i] = <<tftp.remote, i + 1>>

Sent == server[tftp.remote].blk

(* On a network that reorders, what is acknowledged is in memory.          *)
Loose ==
  /\ tftp.wrap = 0
  /\ Active /\ ~Talking => tftp.block = 0
  /\ Active /\ Talking =>
       /\ Held(Sent - 1) /\ Held(tftp.block)
       /\ tftp.state = "DATA" => Held(tftp.last)
       /\ \A i \in DOMAIN c2s : IsAck(c2s[i]) /\ c2s[i].port = tftp.port => Held(c2s[i].blk)

(* On one that does not, the client and the server move in lockstep.       *)
Got == IF tftp.state = "DATA" THEN at ELSE 0

InOrder ==
  \A i, j \in DOMAIN s2c :
    i < j /\ IsReply(s2c[i]) /\ IsReply(s2c[j]) /\ s2c[i].tid = s2c[j].tid
      => s2c[i].blk <= s2c[j].blk

Ours(i) == IsAck(c2s[i]) /\ c2s[i].port = tftp.port

Strict ==
  /\ InOrder
  /\ Active /\ ~Talking => tftp.block = 0
  /\ Active /\ Talking =>
       /\ Sent \in {Got, Got + 1} /\ Held(Got) /\ tftp.block = Number(Got)
       /\ tftp.state = "DATA" => /\ Got >= 1 /\ tftp.last = Number(Got)
                                 /\ tftp.wrap = Got - Number(Got)
       /\ \A i \in DOMAIN s2c : IsReply(s2c[i]) /\ s2c[i].tid = tftp.remote => Got <= s2c[i].blk
       /\ \A i \in DOMAIN c2s : Ours(i) =>
            \/ c2s[i].blk = Number(Got)
            \/ Sent = Got /\ Got > 0 /\ c2s[i].blk = Number(Got - 1)
       /\ \A i, j \in DOMAIN c2s : i < j /\ Ours(i) /\ Ours(j) /\ c2s[i].blk = Number(Got)
            => c2s[j].blk = Number(Got)

IInv == /\ Typed /\ OwnPort /\ Dialogue
        /\ IF Reorder THEN Loose ELSE Strict
        /\ size <= N /\ FileIntact
-----------------------------------------------------------------------------
(* The setup does not change, and its fields are numbers and flags.        *)
LEMMA SetupTyped ==
  ASSUME setup \in Setups
  PROVE  /\ N \in Nat \ {0} /\ TFTP_SEQUENCE_SIZE \in Nat \ {0, 1}
         /\ MaxQueue \in Nat /\ Reorder \in BOOLEAN
         /\ Reorder => N < TFTP_SEQUENCE_SIZE
  BY Zenon, TftpAssumption, OrderAssumption
     DEF N, TFTP_SEQUENCE_SIZE, MaxQueue, Reorder

(* Block numbers: neighbours differ, and a lap begins where the number is  *)
(* 0.                                                                      *)
LEMMA NextNumber ==
  ASSUME NEW m \in Nat \ {0, 1}, NEW a \in Nat
  PROVE  /\ a % m \in 0..(m - 1) /\ a % m <= a
         /\ (a + 1) % m = IF a % m = m - 1 THEN 0 ELSE (a % m) + 1
<1> DEFINE q == a \div m
           r == a % m
<1>1. q \in Nat /\ r \in 0..(m - 1) /\ a = q * m + r
  OBVIOUS
<1> HIDE DEF q, r
<1>2. \A x \in Nat, y \in 0..(m - 1) : (x * m + y) % m = y
  OBVIOUS
<1>3. CASE r = m - 1
  <2>1. a + 1 = (q + 1) * m + 0
    BY <1>1, <1>3
  <2>2. ((q + 1) * m + 0) % m = 0
    BY <1>1, <1>2
  <2> QED
    BY <1>1, <1>3, <2>1, <2>2 DEF r
<1>4. CASE r # m - 1
  <2>1. a + 1 = q * m + (r + 1) /\ r + 1 \in 0..(m - 1)
    BY <1>1, <1>4
  <2>2. (a + 1) % m = r + 1
    BY Zenon, <1>1, <1>2, <2>1
  <2> QED
    BY <1>1, <1>4, <2>2 DEF r
<1>5. r <= a
  BY <1>1
<1> QED
  BY Zenon, <1>1, <1>3, <1>4, <1>5 DEF r

(* Before the numbers wrap around, a block has its own.                    *)
LEMMA SmallNumber ==
  ASSUME NEW m \in Nat \ {0}, NEW a \in 0..(m - 1)
  PROVE  a % m = a
  OBVIOUS

-----------------------------------------------------------------------------
(* The queues: what is added comes last, what is left keeps its order.     *)
LEMMA Pushed ==
  ASSUME setup \in Setups, NEW q \in Seq(Packet), NEW p \in Packet
  PROVE  /\ Push(q, p) \in Seq(Packet)
         /\ \A i \in DOMAIN Push(q, p) :
              \/ i \in DOMAIN q /\ Push(q, p)[i] = q[i]
              \/ i = Len(q) + 1 /\ Push(q, p)[i] = p
<1>1. CASE Push(q, p) = q
  BY Zenon, <1>1
<1>2. CASE Push(q, p) = Append(q, p)
  <2>1. Append(q, p) \in Seq(Packet) /\ DOMAIN Append(q, p) = 1..(Len(q) + 1)
        /\ DOMAIN q = 1..Len(q) /\ Len(q) \in Nat
    OBVIOUS
  <2>2. \A i \in 1..(Len(q) + 1) : Append(q, p)[i] = IF i <= Len(q) THEN q[i] ELSE p
    OBVIOUS
  <2> QED
    BY <1>2, <2>1, <2>2
<1> QED
  BY Zenon, <1>1, <1>2 DEF Push

(* A queue without one of its packets.                                     *)
LEMMA Removed ==
  ASSUME NEW q \in Seq(Packet), NEW i \in DOMAIN q
  PROVE  /\ RemoveAt(q, i) \in Seq(Packet)
         /\ \A j \in DOMAIN RemoveAt(q, i) :
              LET k == IF j < i THEN j ELSE j + 1
              IN  k \in DOMAIN q /\ RemoveAt(q, i)[j] = q[k]
<1> DEFINE a == SubSeq(q, 1, i - 1)
           b == SubSeq(q, i + 1, Len(q))
<1>1. i \in 1..Len(q) /\ Len(q) \in Nat /\ DOMAIN q = 1..Len(q)
  OBVIOUS
<1>2. a \in Seq(Packet) /\ Len(a) = i - 1 /\ \A j \in 1..(i - 1) : a[j] = q[j]
  BY <1>1
<1>3. b \in Seq(Packet) /\ Len(b) = Len(q) - i
      /\ \A j \in 1..(Len(q) - i) : b[j] = q[i + j]
  BY SMTT(20), <1>1
<1> HIDE DEF a, b
<1>4. a \o b \in Seq(Packet) /\ DOMAIN (a \o b) = 1..(Len(q) - 1)
  <2>1. a \in Seq(Packet) /\ b \in Seq(Packet)
    BY Zenon, <1>2, <1>3
  <2>3. a \o b \in Seq(Packet) /\ Len(a \o b) = Len(a) + Len(b)
    BY <2>1
  <2>2. Len(a) + Len(b) = Len(q) - 1
    BY <1>1, <1>2, <1>3
  <2> QED
    BY <2>2, <2>3
<1>5. ASSUME NEW j \in 1..(Len(q) - 1)
      PROVE  (a \o b)[j] = q[IF j < i THEN j ELSE j + 1]
  <2>1. CASE j < i
    BY <1>1, <1>2, <1>3, <1>5, <2>1
  <2>2. CASE ~(j < i)
    <3>1. (a \o b)[j] = b[j - (i - 1)]
      BY SMTT(20), <1>1, <1>2, <1>3, <1>5, <2>2
    <3>2. j - (i - 1) \in 1..(Len(q) - i) /\ i + (j - (i - 1)) = j + 1
      BY <1>1, <1>5, <2>2
    <3> QED
      BY Zenon, <1>3, <2>2, <3>1, <3>2
  <2> QED
    BY Zenon, <2>1, <2>2
<1>6. RemoveAt(q, i) = a \o b
  BY Zenon DEF RemoveAt, a, b
<1>7. \A j \in 1..(Len(q) - 1) : (IF j < i THEN j ELSE j + 1) \in DOMAIN q
  BY <1>1
<1> QED
  BY Zenon, <1>4, <1>5, <1>6, <1>7

(* What may arrive first is in the queue; without reordering it is the     *)
(* first packet.                                                           *)
LEMMA HeadsIn ==
  ASSUME setup \in Setups, NEW q \in Seq(Packet), NEW i \in Heads(q)
  PROVE  i \in DOMAIN q /\ (~Reorder => i = 1)
<1>1. Len(q) \in Nat /\ DOMAIN q = 1..Len(q) /\ (q # <<>> => Len(q) >= 1)
  OBVIOUS
<1>2. CASE Reorder
  BY Zenon, <1>1, <1>2 DEF Heads
<1>3. CASE ~Reorder
  <2>1. q # <<>> /\ i = 1
    BY <1>3 DEF Heads
  <2> QED
    BY <1>1, <2>1
<1> QED
  BY Zenon, <1>2, <1>3

(* The transfers of the server have their fields.                          *)
LEMMA TransfersTyped ==
  ASSUME Typed, NEW t \in DOMAIN server
  PROVE  /\ server[t].port \in Nat /\ server[t].tid \in Nat /\ server[t].blk \in Nat
         /\ server[t] = [port |-> server[t].port, tid |-> server[t].tid,
                         blk |-> server[t].blk]
         /\ t \in 1..Len(server) /\ Len(server) \in Nat
<1> DEFINE S == [port: Nat, tid: Nat, blk: Nat]
<1>1. server \in Seq(S)
  BY Zenon DEF Typed
<1> HIDE DEF S
<1>2. server[t] \in S /\ t \in 1..Len(server) /\ Len(server) \in Nat
  BY <1>1
<1> QED
  BY Zenon, <1>2 DEF S

(* Of the constants a step needs the sizes of the file and of a lap.       *)
LEMMA Sizes ==
  ASSUME Typed
  PROVE  /\ N \in Nat /\ N >= 1 /\ TFTP_SEQUENCE_SIZE \in Nat
         /\ TFTP_SEQUENCE_SIZE >= 1 /\ \A b \in 1..N : b \in Nat /\ b >= 1 /\ b <= N
<1>1. setup \in Setups
  BY Zenon DEF Typed
<1>2. N \in Nat \ {0} /\ TFTP_SEQUENCE_SIZE \in Nat \ {0, 1}
  BY Zenon, <1>1, SetupTyped
<1> QED
  BY <1>2

(* The packets of a queue have their fields.                               *)
LEMMA PacketsTyped ==
  ASSUME NEW q \in Seq(Packet), NEW i \in DOMAIN q
  PROVE  q[i].port \in Nat /\ q[i].tid \in Nat /\ q[i].blk \in Nat /\ q[i] \in Packet
<1>1. q[i] \in Packet
  OBVIOUS
<1> QED
  BY Zenon, <1>1 DEF Packet
-----------------------------------------------------------------------------
(* An answer for the client comes from a transfer of this attempt.         *)
LEMMA Taken ==
  ASSUME IInv, net_state = "CONTINUE", NEW i \in Heads(s2c),
         IsReply(s2c[i]), ForMe(s2c[i])
  PROVE  /\ i \in DOMAIN s2c /\ s2c[i] \in Packet /\ Active /\ handler /\ ether
         /\ s2c[i].port = tftp.port
         /\ s2c[i].tid \in DOMAIN server /\ server[s2c[i].tid].port = tftp.port
         /\ s2c[i].blk <= server[s2c[i].tid].blk /\ server[s2c[i].tid].blk <= N
         /\ server[s2c[i].tid].blk \in Nat
         /\ s2c[i].type = "OACK" <=> s2c[i].blk = 0
         /\ IF Talking THEN s2c[i].tid = tftp.remote ELSE server[s2c[i].tid].blk <= 1
<1>1. Typed /\ OwnPort /\ Dialogue
  BY Zenon DEF IInv
<1>2. i \in DOMAIN s2c /\ s2c[i] \in Packet
  BY <1>1, HeadsIn DEF Typed
<1>3. s2c[i].port = tftp.port /\ handler /\ (Talking => s2c[i].tid = tftp.remote)
  BY Zenon DEF ForMe, Talking
<1>4. Active
  BY Zenon, <1>1, <1>3 DEF Active, OwnPort
<1>5. ether
  <2>1. s2c[i].port <= Used /\ tftp.port \in Nat
    BY Zenon, <1>1, <1>2 DEF OwnPort, Typed
  <2> QED
    BY <1>3, <2>1 DEF Used
<1>6. /\ s2c[i].tid \in DOMAIN server /\ server[s2c[i].tid].port = tftp.port
      /\ s2c[i].blk <= server[s2c[i].tid].blk
      /\ s2c[i].type = "OACK" <=> s2c[i].blk = 0
  BY Zenon, <1>1, <1>2, <1>3 DEF Dialogue
<1>7. /\ server[s2c[i].tid].blk <= N
      /\ ~Talking => server[s2c[i].tid].blk <= 1
      /\ server[s2c[i].tid].blk \in Nat
  <2>1. server[s2c[i].tid].blk \in Nat
    BY Zenon, <1>1, <1>6, TransfersTyped
  <2>2. server[s2c[i].tid].blk <= N
    <3>1. \A t \in DOMAIN server : server[t].blk <= N
      BY <1>1, Zenon DEF Dialogue
    <3> QED
      BY Zenon, <1>6, <3>1
  <2>3. ~Talking => server[s2c[i].tid].blk <= 1
    BY Zenon, <1>1, <1>6 DEF Dialogue
  <2> QED
    BY Zenon, <2>1, <2>2, <2>3
<1> QED
  BY Zenon, <1>2, <1>3, <1>4, <1>5, <1>6, <1>7

(* A block that is stored is stored where it belongs in the file.          *)
LEMMA DataPlace ==
  ASSUME IInv, net_state = "CONTINUE", NEW i \in Heads(s2c),
         s2c[i].type = "DATA", ForMe(s2c[i]),
         First(tftp) => Number(s2c[i].blk) = 1,
         ~First(tftp) => Number(s2c[i].blk) # tftp.last
  PROVE  LET p == s2c[i]
             u == Looked(tftp, p)
         IN  /\ p.blk \in 1..N
             /\ u.state = "DATA" /\ u.remote = p.tid /\ u.port = tftp.port
             /\ u.block = Number(p.blk) /\ u.wrap = p.blk - Number(p.blk)
             /\ u.wrap > tftp.wrap => p.blk = u.wrap
             /\ ~Talking => p.blk = 1 /\ server[p.tid].blk = 1
             /\ ~Reorder /\ Talking => p.blk = Got + 1 /\ Sent = Got + 1
             /\ Reorder => u.wrap = 0 /\ Number(p.blk) = p.blk
             /\ u \in [state: {"SEND_RRQ", "OACK", "DATA"}, block: Nat, last: Nat,
                       wrap: Nat, timeouts: Nat, remote: Nat, port: Nat]
<1> DEFINE p == s2c[i]
           u == Looked(tftp, p)
           m == TFTP_SEQUENCE_SIZE
           n == Number(p.blk)
<1>1. Typed /\ IF Reorder THEN Loose ELSE Strict
  BY Zenon DEF IInv
<1>2. /\ N \in Nat \ {0} /\ m \in Nat \ {0, 1} /\ Reorder \in BOOLEAN
      /\ Reorder => N < m
  BY Zenon, <1>1, SetupTyped DEF Typed
<1>3. /\ p \in Packet /\ Active /\ p.tid \in DOMAIN server
      /\ p.blk <= server[p.tid].blk /\ server[p.tid].blk <= N
      /\ server[p.tid].blk \in Nat /\ p.blk # 0 /\ i \in DOMAIN s2c
      /\ IF Talking THEN p.tid = tftp.remote ELSE server[p.tid].blk <= 1
  BY Zenon, Taken DEF IsReply
<1>4. p.blk \in 1..N
  BY <1>2, <1>3 DEF Packet
<1>5. /\ tftp.state \in {"SEND_RRQ", "OACK", "DATA"} /\ tftp.last \in Nat
      /\ tftp.wrap \in Nat /\ tftp.port \in Nat /\ tftp.remote \in Nat
      /\ tftp.timeouts \in Nat
      /\ tftp = [state |-> tftp.state, block |-> tftp.block, last |-> tftp.last,
                 wrap |-> tftp.wrap, timeouts |-> tftp.timeouts,
                 remote |-> tftp.remote, port |-> tftp.port]
  BY Zenon, <1>1 DEF Typed
<1>6. n \in Nat /\ n <= p.blk /\ n < m
  <2>1. p.blk \in Nat
    BY <1>2, <1>4
  <2>2. p.blk % m \in 0..(m - 1) /\ p.blk % m <= p.blk
    BY Zenon, <1>2, <2>1, NextNumber
  <2> QED
    BY <1>2, <2>2 DEF Number
<1>7. First(tftp) <=> tftp.state # "DATA"
  BY Zenon, <1>5 DEF First
<1> HIDE DEF n
<1>8. CASE tftp.state # "DATA"
  <2>1. n = 1
    BY Zenon, <1>7, <1>8 DEF n
  <2>2. u = [state |-> "DATA", block |-> 1, last |-> 0, wrap |-> 0,
             timeouts |-> tftp.timeouts, remote |-> p.tid, port |-> tftp.port]
    <3>1. update_block_number(tftp, n) = [tftp EXCEPT !.block = 1]
      BY <2>1 DEF update_block_number
    <3>2. u = new_transfer([[tftp EXCEPT !.block = 1] EXCEPT !.state = "DATA",
                                                            !.remote = p.tid])
      BY Zenon, <1>7, <1>8, <3>1 DEF Looked, n
    <3> QED
      BY Zenon, <1>5, <3>2 DEF new_transfer
  <2>3. p.blk = 1 /\ (~Talking => server[p.tid].blk = 1)
        /\ (~Reorder /\ Talking => p.blk = Got + 1 /\ Sent = Got + 1)
    <3>1. CASE ~Talking
      BY <1>3, <1>4, <3>1
    <3>2. CASE Talking /\ Reorder
      BY <1>2, <1>4, <2>1, <3>2, SmallNumber DEF n, Number
    <3>3. CASE Talking /\ ~Reorder
      <4>1. Got = 0 /\ Sent \in {Got, Got + 1} /\ Sent = server[p.tid].blk
        BY Zenon, <1>1, <1>3, <1>8, <3>3 DEF Strict, Got, Sent
      <4> QED
        BY <1>3, <1>4, <3>3, <4>1
    <3> QED
      BY Zenon, <3>1, <3>2, <3>3
  <2>4. p.tid \in Nat
    BY Zenon, <1>3 DEF Packet
  <2> QED
    BY <1>4, <1>5, <2>1, <2>2, <2>3, <2>4 DEF n
<1>9. CASE tftp.state = "DATA"
  <2>1. Talking /\ p.tid = tftp.remote /\ n # tftp.last /\ ~First(tftp)
    BY Zenon, <1>3, <1>7, <1>9 DEF Talking, n
  <2>2. CASE Reorder
    <3>1. n = p.blk
      BY <1>2, <1>4, <2>2, SmallNumber DEF n, Number
    <3>2. tftp.wrap = 0
      BY Zenon, <1>1, <2>2 DEF Loose
    <3>3. u = [tftp EXCEPT !.block = n]
      BY <1>4, <2>1, <3>1 DEF Looked, update_block_number, n
    <3> QED
      BY <1>4, <1>5, <1>6, <1>9, <2>1, <2>2, <3>1, <3>2, <3>3 DEF n
  <2>3. CASE ~Reorder
    <3>1. /\ Sent \in {Got, Got + 1} /\ Got >= 1 /\ tftp.last = Number(Got)
          /\ tftp.wrap = Got - Number(Got) /\ Got <= p.blk /\ Got \in Nat
          /\ Sent = server[p.tid].blk
      BY Zenon, <1>1, <1>3, <1>9, <2>1, <2>3 DEF Strict, Got, Typed, IsReply, Sent
    <3>2. p.blk = Got + 1 /\ Sent = Got + 1
      BY <1>3, <1>4, <2>1, <3>1 DEF n
    <3>3. /\ Number(Got) \in 0..(m - 1)
          /\ n = IF Number(Got) = m - 1 THEN 0 ELSE Number(Got) + 1
      BY Zenon, <1>2, <3>1, <3>2, NextNumber DEF n, Number
    <3>4. CASE n = 0
      <4>1. tftp.last # 0
        BY Zenon, <2>1, <3>4
      <4>2. u = [tftp EXCEPT !.block = 0, !.wrap = tftp.wrap + m, !.timeouts = 0]
        BY Zenon, <1>5, <2>1, <3>4, <4>1 DEF Looked, update_block_number, n
      <4>3. tftp.wrap + m = p.blk
        BY <1>2, <3>1, <3>2, <3>3, <3>4
      <4>4. u = [state |-> "DATA", block |-> 0, last |-> tftp.last, wrap |-> p.blk,
                 timeouts |-> 0, remote |-> p.tid, port |-> tftp.port]
        BY Zenon, <1>5, <1>9, <2>1, <4>2, <4>3
      <4> QED
        BY <1>4, <1>5, <2>1, <2>3, <3>2, <3>4, <4>4 DEF n
    <3>5. CASE n # 0
      <4>1. u = [tftp EXCEPT !.block = n]
        BY Zenon, <1>5, <2>1, <3>5 DEF Looked, update_block_number, n
      <4>2. tftp.wrap = p.blk - n
        BY <1>2, <3>1, <3>2, <3>3, <3>5
      <4> QED
        BY <1>4, <1>5, <1>6, <1>9, <2>1, <2>3, <3>2, <4>1, <4>2 DEF n
    <3> QED
      BY Zenon, <3>4, <3>5
  <2> QED
    BY Zenon, <1>2, <2>2, <2>3
<1> QED
  BY Zenon, <1>8, <1>9
-----------------------------------------------------------------------------
(* The packets of the queue r are packets of q in their order, or neither  *)
(* acknowledgements nor answers and not from a port above u.               *)
Kept(q, r, u) ==
  \E f \in [DOMAIN r -> Nat] :
    /\ \A i \in DOMAIN r :
         \/ f[i] \in DOMAIN q /\ r[i] = q[f[i]]
         \/ ~IsAck(r[i]) /\ ~IsReply(r[i]) /\ r[i].port <= u
    /\ \A i, j \in DOMAIN r : i < j => f[i] < f[j]

(* A queue that does not change, loses a packet, or gets one of no account *)
(* is kept.                                                                *)
LEMMA KeptSame ==
  ASSUME NEW q \in Seq(Packet), NEW u
  PROVE  Kept(q, q, u)
<1> DEFINE f == [i \in DOMAIN q |-> i]
<1>1. f \in [DOMAIN q -> Nat] /\ \A i \in DOMAIN q : f[i] = i
  OBVIOUS
<1> HIDE DEF f
<1>2. /\ \A i \in DOMAIN q : f[i] \in DOMAIN q /\ q[i] = q[f[i]]
      /\ \A i, j \in DOMAIN q : i < j => f[i] < f[j]
  BY Zenon, <1>1
<1> QED
  BY <1>1, <1>2, Zenon DEF Kept

(* A queue that loses a packet is kept.                                    *)
LEMMA KeptRemoved ==
  ASSUME NEW q \in Seq(Packet), NEW k \in DOMAIN q, NEW u
  PROVE  Kept(q, RemoveAt(q, k), u)
<1> DEFINE r == RemoveAt(q, k)
           f == [i \in DOMAIN r |-> IF i < k THEN i ELSE i + 1]
<1>1. /\ r \in Seq(Packet)
      /\ \A i \in DOMAIN r :
           LET j == IF i < k THEN i ELSE i + 1
           IN  j \in DOMAIN q /\ r[i] = q[j]
  BY Zenon, Removed
<1> HIDE DEF r
<1>2. \A i \in DOMAIN r : f[i] = IF i < k THEN i ELSE i + 1
  BY Zenon
<1>3. DOMAIN r \subseteq Nat /\ DOMAIN q \subseteq Nat /\ k \in Nat
  BY <1>1
<1>4. f \in [DOMAIN r -> Nat]
  BY <1>3
<1> HIDE DEF f
<1>5. \A i \in DOMAIN r : f[i] \in DOMAIN q /\ r[i] = q[f[i]]
  BY Zenon, <1>1, <1>2
<1>6. \A i, j \in DOMAIN r : i < j => f[i] < f[j]
  BY <1>2, <1>3
<1>7. Kept(q, r, u)
  BY <1>4, <1>5, <1>6, Zenon DEF Kept
<1> QED
  BY Zenon, <1>7 DEF r

(* A queue that gets a packet that is no answer and no acknowledgement is  *)
(* kept.                                                                   *)
LEMMA KeptPushed ==
  ASSUME setup \in Setups, NEW q \in Seq(Packet), NEW p \in Packet, NEW u,
         ~IsAck(p), ~IsReply(p), p.port <= u
  PROVE  Kept(q, Push(q, p), u)
<1> DEFINE r == Push(q, p)
           f == [i \in DOMAIN r |-> i]
<1>1. /\ r \in Seq(Packet)
      /\ \A i \in DOMAIN r :
           \/ i \in DOMAIN q /\ r[i] = q[i]
           \/ i = Len(q) + 1 /\ r[i] = p
  BY Zenon, Pushed
<1> HIDE DEF r
<1>2. f \in [DOMAIN r -> Nat] /\ \A i \in DOMAIN r : f[i] = i
  BY <1>1
<1> HIDE DEF f
<1>3. \A i \in DOMAIN r :
        \/ f[i] \in DOMAIN q /\ r[i] = q[f[i]]
        \/ ~IsAck(r[i]) /\ ~IsReply(r[i]) /\ r[i].port <= u
  BY <1>1, <1>2, Zenon
<1>4. \A i, j \in DOMAIN r : i < j => f[i] < f[j]
  BY Zenon, <1>2
<1>5. Kept(q, r, u)
  BY <1>2, <1>3, <1>4, Zenon DEF Kept
<1> QED
  BY Zenon, <1>5 DEF r

-----------------------------------------------------------------------------
(* A step in which nobody makes progress: no acknowledgement and no answer *)
(* is sent, and the attempt goes on as it was or is given up.              *)
Quiet ==
  /\ UNCHANGED <<setup, at, mem, size, server>>
  /\ tftp'.remote = tftp.remote /\ tftp'.port = tftp.port /\ Talking' = Talking
  /\ Reorder => tftp'.wrap = 0
  /\ ether => ether'
  /\ arp'.wait => ~ether' /\ tx' = RRQ(tftp.port)
  /\ tftp.port <= NetTryCount'
  /\ net_state' = "RESTART" \/ timer' = "again" => tftp.port < NetTryCount'
  /\ timer' = "again" => ~handler'
  /\ net_state' = "SUCCESS" => net_state = "SUCCESS"
  /\ Active' => /\ Active /\ tftp'.state = tftp.state /\ tftp'.last = tftp.last
                /\ tftp'.wrap = tftp.wrap
                /\ \/ tftp'.block = tftp.block
                   \/ tftp.state = "DATA" /\ tftp'.block = tftp.last
  /\ Kept(c2s, c2s', Used') /\ Kept(s2c, s2c', Used')

(* The ports of the packets stay below the next attempt's.                 *)
LEMMA QuietPort ==
  ASSUME IInv, Typed', Quiet
  PROVE  OwnPort'
<1>1. Typed /\ OwnPort
  BY Zenon DEF IInv
<1>2. Used <= Used' /\ Used \in Int /\ Used' \in Int
  <2>1. tftp.port \in Nat /\ tftp'.port = tftp.port
    BY Zenon, <1>1 DEF Typed, Quiet
  <2>2. ether => ether'
    BY Zenon DEF Quiet
  <2> QED
    BY <2>1, <2>2 DEF Used
<1>3. ASSUME NEW i \in DOMAIN c2s'
      PROVE  c2s'[i].port <= Used'
  <2>1. PICK f \in [DOMAIN c2s' -> Nat] : \A k \in DOMAIN c2s' :
              \/ f[k] \in DOMAIN c2s /\ c2s'[k] = c2s[f[k]]
              \/ ~IsAck(c2s'[k]) /\ ~IsReply(c2s'[k]) /\ c2s'[k].port <= Used'
    BY Zenon DEF Quiet, Kept
  <2>2. CASE f[i] \in DOMAIN c2s /\ c2s'[i] = c2s[f[i]]
    <3>1. c2s[f[i]].port <= Used /\ c2s[f[i]].port \in Nat
      BY Zenon, <1>1, <2>2, PacketsTyped DEF OwnPort, Typed
    <3> QED
      BY <1>2, <2>2, <3>1
  <2> QED
    BY Zenon, <1>3, <2>1, <2>2
<1>4. ASSUME NEW i \in DOMAIN s2c'
      PROVE  s2c'[i].port <= Used'
  <2>1. PICK f \in [DOMAIN s2c' -> Nat] : \A k \in DOMAIN s2c' :
              \/ f[k] \in DOMAIN s2c /\ s2c'[k] = s2c[f[k]]
              \/ ~IsAck(s2c'[k]) /\ ~IsReply(s2c'[k]) /\ s2c'[k].port <= Used'
    BY Zenon DEF Quiet, Kept
  <2>2. CASE f[i] \in DOMAIN s2c /\ s2c'[i] = s2c[f[i]]
    <3>1. s2c[f[i]].port <= Used /\ s2c[f[i]].port \in Nat
      BY Zenon, <1>1, <2>2, PacketsTyped DEF OwnPort, Typed
    <3> QED
      BY <1>2, <2>2, <3>1
  <2> QED
    BY Zenon, <1>4, <2>1, <2>2
<1>5. ASSUME NEW t \in DOMAIN server'
      PROVE  server'[t].port <= Used'
  <2>1. t \in DOMAIN server /\ server'[t] = server[t]
    BY Zenon, <1>5 DEF Quiet
  <2>2. server[t].port <= Used /\ server[t].port \in Nat
    BY Zenon, <1>1, <2>1, TransfersTyped DEF OwnPort
  <2> QED
    BY <1>2, <2>1, <2>2
<1>6. /\ 1 <= tftp'.port /\ tftp'.port <= NetTryCount'
      /\ net_state' = "RESTART" \/ timer' = "again" => tftp'.port < NetTryCount'
      /\ timer' = "again" => ~handler'
  BY Zenon, <1>1 DEF OwnPort, Quiet
<1>7. ~ether' => tftp'.state = "SEND_RRQ"
  BY Zenon, <1>1 DEF OwnPort, Quiet, Talking
<1>8. arp'.wait => ~ether' /\ tx' = RRQ(tftp'.port)
  BY Zenon DEF Quiet
<1> QED
  BY <1>3, <1>4, <1>5, <1>6, <1>7, <1>8, Zenon DEF OwnPort, RRQ

(* Nobody talks to anybody else.                                           *)
LEMMA QuietDialogue ==
  ASSUME IInv, Typed', Quiet
  PROVE  Dialogue'
<1>1. Typed /\ Dialogue
  BY Zenon DEF IInv
<1>2. server' = server /\ tftp'.remote = tftp.remote /\ tftp'.port = tftp.port
      /\ Talking' = Talking /\ N' = N
  BY Zenon DEF Quiet, N
<1>3. ASSUME NEW i \in DOMAIN c2s', IsAck(c2s'[i])
      PROVE  /\ c2s'[i].tid \in DOMAIN server /\ server[c2s'[i].tid].port = c2s'[i].port
             /\ c2s'[i].port = tftp.port => Talking /\ c2s'[i].tid = tftp.remote
  <2>1. PICK f \in [DOMAIN c2s' -> Nat] : \A k \in DOMAIN c2s' :
              \/ f[k] \in DOMAIN c2s /\ c2s'[k] = c2s[f[k]]
              \/ ~IsAck(c2s'[k]) /\ ~IsReply(c2s'[k]) /\ c2s'[k].port <= Used'
    BY Zenon DEF Quiet, Kept
  <2>2. f[i] \in DOMAIN c2s /\ c2s'[i] = c2s[f[i]]
    BY Zenon, <1>3, <2>1
  <2> QED
    BY <1>1, <1>3, <2>2 DEF Dialogue
<1>4. ASSUME NEW i \in DOMAIN s2c', IsReply(s2c'[i])
      PROVE  /\ s2c'[i].tid \in DOMAIN server /\ server[s2c'[i].tid].port = s2c'[i].port
             /\ s2c'[i].blk <= server[s2c'[i].tid].blk
             /\ s2c'[i].type = "OACK" <=> s2c'[i].blk = 0
  <2>1. PICK f \in [DOMAIN s2c' -> Nat] : \A k \in DOMAIN s2c' :
              \/ f[k] \in DOMAIN s2c /\ s2c'[k] = s2c[f[k]]
              \/ ~IsAck(s2c'[k]) /\ ~IsReply(s2c'[k]) /\ s2c'[k].port <= Used'
    BY Zenon DEF Quiet, Kept
  <2>2. f[i] \in DOMAIN s2c /\ s2c'[i] = s2c[f[i]]
    BY Zenon, <1>4, <2>1
  <2> QED
    BY <1>1, <1>4, <2>2 DEF Dialogue
<1>5. /\ \A t \in DOMAIN server :
           /\ server[t].tid = t /\ server[t].blk <= N
           /\ server[t].port = tftp.port /\ ~(Talking /\ t = tftp.remote) => server[t].blk <= 1
      /\ Talking => tftp.remote \in DOMAIN server /\ server[tftp.remote].port = tftp.port
  BY <1>1, Zenon DEF Dialogue
<1> QED
  BY <1>2, <1>3, <1>4, <1>5, Zenon DEF Dialogue, IsAck, IsReply

(* What is acknowledged stays in memory.                                   *)
LEMMA QuietLoose ==
  ASSUME IInv, Typed', Quiet, Reorder
  PROVE  Loose'
<1>1. Typed /\ Loose
  BY Zenon DEF IInv
<1>2. tftp'.wrap = 0
  BY Zenon DEF Quiet
<1>3. ASSUME Active'
      PROVE  /\ Active /\ tftp'.state = tftp.state /\ tftp'.last = tftp.last
             /\ \/ tftp'.block = tftp.block
                \/ tftp.state = "DATA" /\ tftp'.block = tftp.last
             /\ tftp'.remote = tftp.remote /\ tftp'.port = tftp.port
             /\ Talking' = Talking /\ Sent' = Sent
             /\ \A k : Held(k)' <=> Held(k)
  BY <1>3, Zenon DEF Quiet, Sent, Held
<1>4. ASSUME Active', ~Talking'
      PROVE  tftp'.block = 0
  BY Zenon, <1>1, <1>3, <1>4 DEF Loose, Talking
<1>5. ASSUME Active', Talking'
      PROVE  /\ Held(Sent - 1)' /\ Held(tftp.block)'
             /\ tftp'.state = "DATA" => Held(tftp.last)'
  <2>1. /\ Held(Sent - 1) /\ Held(tftp.block)
        /\ tftp.state = "DATA" => Held(tftp.last)
    BY Zenon, <1>1, <1>3, <1>5 DEF Loose
  <2>2. Held(Sent - 1)' /\ Held(tftp'.block) /\ (tftp'.state = "DATA" => Held(tftp'.last))
    BY Zenon, <1>3, <1>5, <2>1
  <2> QED
    BY Zenon, <1>3, <1>5, <2>2
<1>6. ASSUME Active', Talking', NEW i \in DOMAIN c2s', IsAck(c2s'[i]), c2s'[i].port = tftp'.port
      PROVE  Held(c2s[i].blk)'
  <2>1. PICK f \in [DOMAIN c2s' -> Nat] : \A k \in DOMAIN c2s' :
              \/ f[k] \in DOMAIN c2s /\ c2s'[k] = c2s[f[k]]
              \/ ~IsAck(c2s'[k]) /\ ~IsReply(c2s'[k]) /\ c2s'[k].port <= Used'
    BY Zenon DEF Quiet, Kept
  <2>2. f[i] \in DOMAIN c2s /\ c2s'[i] = c2s[f[i]]
    BY Zenon, <1>6, <2>1
  <2>3. Held(c2s[f[i]].blk)
    BY Zenon, <1>1, <1>3, <1>6, <2>2 DEF Loose
  <2> QED
    BY Zenon, <1>3, <1>6, <2>2, <2>3
<1> QED
  BY <1>2, <1>4, <1>5, <1>6, Zenon DEF Loose, IsAck

(* The answers of a queue that is kept are in order.                       *)
LEMMA OrderKept ==
  ASSUME InOrder, NEW u, Kept(s2c, s2c', u)
  PROVE  InOrder'
<1>1. PICK f \in [DOMAIN s2c' -> Nat] :
        /\ \A k \in DOMAIN s2c' :
             \/ f[k] \in DOMAIN s2c /\ s2c'[k] = s2c[f[k]]
             \/ ~IsAck(s2c'[k]) /\ ~IsReply(s2c'[k]) /\ s2c'[k].port <= u
        /\ \A i, j \in DOMAIN s2c' : i < j => f[i] < f[j]
  BY Zenon DEF Kept
<1>2. SUFFICES ASSUME NEW i \in DOMAIN s2c', NEW j \in DOMAIN s2c', i < j,
                      IsReply(s2c'[i]), IsReply(s2c'[j]), s2c'[i].tid = s2c'[j].tid
               PROVE  s2c'[i].blk <= s2c'[j].blk
  BY Zenon DEF InOrder, IsReply
<1>3. /\ f[i] \in DOMAIN s2c /\ s2c'[i] = s2c[f[i]]
      /\ f[j] \in DOMAIN s2c /\ s2c'[j] = s2c[f[j]] /\ f[i] < f[j]
  BY Zenon, <1>1, <1>2
<1> QED
  BY Zenon, <1>2, <1>3 DEF InOrder

(* The client and the server stay in step.                                 *)
LEMMA QuietStrict ==
  ASSUME IInv, Typed', Quiet, ~Reorder
  PROVE  Strict'
<1>1. Typed /\ Strict
  BY Zenon DEF IInv
<1>2. PICK f \in [DOMAIN s2c' -> Nat] :
        /\ \A k \in DOMAIN s2c' :
             \/ f[k] \in DOMAIN s2c /\ s2c'[k] = s2c[f[k]]
             \/ ~IsAck(s2c'[k]) /\ ~IsReply(s2c'[k]) /\ s2c'[k].port <= Used'
        /\ \A i, j \in DOMAIN s2c' : i < j => f[i] < f[j]
  BY Zenon DEF Quiet, Kept
<1>3. PICK g \in [DOMAIN c2s' -> Nat] :
        /\ \A k \in DOMAIN c2s' :
             \/ g[k] \in DOMAIN c2s /\ c2s'[k] = c2s[g[k]]
             \/ ~IsAck(c2s'[k]) /\ ~IsReply(c2s'[k]) /\ c2s'[k].port <= Used'
        /\ \A i, j \in DOMAIN c2s' : i < j => g[i] < g[j]
  BY Zenon DEF Quiet, Kept
<1>4. InOrder'
  BY Zenon, <1>1, OrderKept DEF Quiet, Strict
<1>5. ASSUME Active'
      PROVE  /\ Active /\ tftp'.state = tftp.state /\ tftp'.last = tftp.last
             /\ tftp'.wrap = tftp.wrap
             /\ \/ tftp'.block = tftp.block
                \/ tftp.state = "DATA" /\ tftp'.block = tftp.last
             /\ tftp'.remote = tftp.remote /\ tftp'.port = tftp.port
             /\ Talking' = Talking /\ Sent' = Sent /\ Got' = Got
             /\ \A k : Held(k)' <=> Held(k)
             /\ \A k : Number(k)' = Number(k)
  BY <1>5, Zenon DEF Quiet, Sent, Held, Got, Number, TFTP_SEQUENCE_SIZE
<1>6. ASSUME Active', ~Talking'
      PROVE  tftp'.block = 0
  BY Zenon, <1>1, <1>5, <1>6 DEF Strict, Talking
<1>7. ASSUME Active', Talking'
      PROVE  /\ Sent' \in {Got', Got' + 1} /\ Held(Got)' /\ tftp'.block = Number(Got)'
             /\ tftp'.state = "DATA" => /\ Got' >= 1 /\ tftp'.last = Number(Got)'
                                        /\ tftp'.wrap = Got' - Number(Got)'
  <2>1. /\ Sent \in {Got, Got + 1} /\ Held(Got) /\ tftp.block = Number(Got)
        /\ tftp.state = "DATA" => /\ Got >= 1 /\ tftp.last = Number(Got)
                                  /\ tftp.wrap = Got - Number(Got)
    BY Zenon, <1>1, <1>5, <1>7 DEF Strict
  <2> QED
    BY Zenon, <1>5, <1>7, <2>1
<1>8. ASSUME Active', Talking', NEW i \in DOMAIN s2c', IsReply(s2c'[i]),
             s2c'[i].tid = tftp'.remote
      PROVE  Got' <= s2c'[i].blk
  <2>1. f[i] \in DOMAIN s2c /\ s2c'[i] = s2c[f[i]]
    BY Zenon, <1>2, <1>8
  <2> QED
    BY Zenon, <1>1, <1>5, <1>8, <2>1 DEF Strict
<1>9. ASSUME Active', Talking', NEW i \in DOMAIN c2s', Ours(i)'
      PROVE  /\ g[i] \in DOMAIN c2s /\ c2s'[i] = c2s[g[i]] /\ Ours(g[i])
             /\ \/ c2s'[i].blk = Number(Got)'
                \/ Sent' = Got' /\ Got' > 0 /\ c2s'[i].blk = Number(Got - 1)'
  <2>1. g[i] \in DOMAIN c2s /\ c2s'[i] = c2s[g[i]]
    BY Zenon, <1>3, <1>9 DEF Ours
  <2>2. Ours(g[i])
    BY Zenon, <1>5, <1>9, <2>1 DEF Ours, IsAck
  <2>3. \/ c2s[g[i]].blk = Number(Got)
        \/ Sent = Got /\ Got > 0 /\ c2s[g[i]].blk = Number(Got - 1)
    BY Zenon, <1>1, <1>5, <1>9, <2>1, <2>2 DEF Strict
  <2> QED
    BY Zenon, <1>5, <1>9, <2>1, <2>2, <2>3
<1>10. ASSUME Active', Talking', NEW i \in DOMAIN c2s', NEW j \in DOMAIN c2s', i < j,
              Ours(i)', Ours(j)', c2s'[i].blk = Number(Got)'
       PROVE  c2s'[j].blk = Number(Got)'
  <2>1. /\ g[i] \in DOMAIN c2s /\ c2s'[i] = c2s[g[i]] /\ Ours(g[i])
        /\ g[j] \in DOMAIN c2s /\ c2s'[j] = c2s[g[j]] /\ Ours(g[j]) /\ g[i] < g[j]
    BY Zenon, <1>3, <1>9, <1>10
  <2>2. c2s[g[i]].blk = Number(Got)
    BY Zenon, <1>5, <1>10, <2>1
  <2>3. c2s[g[j]].blk = Number(Got)
    BY Zenon, <1>1, <1>5, <1>10, <2>1, <2>2 DEF Strict
  <2> QED
    BY Zenon, <1>5, <1>10, <2>1, <2>3
<1> QED
  BY <1>4, <1>6, <1>7, <1>8, <1>9, <1>10, Zenon DEF Strict, IsReply

(* A step in which nobody makes progress keeps the invariant.              *)
LEMMA QuietStep ==
  ASSUME IInv, Typed', Quiet
  PROVE  IInv'
<1>1. OwnPort' /\ Dialogue'
  BY Zenon, QuietPort, QuietDialogue
<1>2. Reorder' = Reorder
  BY Zenon DEF Quiet, Reorder
<1>3. IF Reorder' THEN Loose' ELSE Strict'
  BY <1>2, QuietLoose, QuietStrict, Zenon
<1>4. size' <= N'
  BY Zenon DEF IInv, Quiet, N
<1>5. FileIntact'
  BY Zenon DEF IInv, Quiet, FileIntact, N
<1> QED
  BY Zenon, <1>1, <1>3, <1>4, <1>5 DEF IInv

-----------------------------------------------------------------------------
(* The steps of the network and of the client that are quiet.              *)

(* The packets are packets.                                                *)
LEMMA PacketForms ==
  ASSUME NEW a \in Nat, NEW t \in Nat, NEW b \in Nat
  PROVE  /\ ArpAsk \in Packet /\ ~IsAck(ArpAsk) /\ ~IsReply(ArpAsk) /\ ArpAsk.port = 0
         /\ RRQ(a) \in Packet /\ ~IsAck(RRQ(a)) /\ ~IsReply(RRQ(a)) /\ RRQ(a).port = a
         /\ ACK(a, t, b) \in Packet /\ IsAck(ACK(a, t, b)) /\ ~IsReply(ACK(a, t, b))
         /\ ACK(a, t, b).port = a /\ ACK(a, t, b).tid = t /\ ACK(a, t, b).blk = b
         /\ OACK(a, t) \in Packet /\ IsReply(OACK(a, t))
         /\ DATA(a, t, b) \in Packet /\ IsReply(DATA(a, t, b))
         /\ \A c \in {"missing", "busy"} :
              ERROR(a, c) \in Packet /\ ~IsReply(ERROR(a, c)) /\ ~IsAck(ERROR(a, c))
              /\ ERROR(a, c).port = a
  BY Zenon DEF Packet, ArpAsk, RRQ, ACK, OACK, DATA, ERROR, IsAck, IsReply

(* What is left of the queues, whatever is taken from them.                *)
LEMMA Taking ==
  ASSUME Typed, NEW q \in Seq(Packet), NEW i \in Heads(q), NEW u
  PROVE  RemoveAt(q, i) \in Seq(Packet) /\ Kept(q, RemoveAt(q, i), u)
<1>1. i \in DOMAIN q
  BY Zenon, HeadsIn DEF Typed
<1> QED
  BY Zenon, <1>1, Removed, KeptRemoved

(* Nothing happens to the client, the server or the requests.              *)
LEMMA Stutters ==
  ASSUME IInv, UNCHANGED <<client, server, setup>>, c2s' \in Seq(Packet), s2c' \in Seq(Packet),
         Kept(c2s, c2s', Used), Kept(s2c, s2c', Used)
  PROVE  IInv'
<1>1. Typed /\ OwnPort
  BY Zenon DEF IInv
<1>2. /\ UNCHANGED <<setup, net_state, tftp, at, handler, timer, ether, arp, tx,
                     NetTryCount, mem, size, server>>
      /\ Used' = Used /\ Talking' = Talking /\ Active' = Active /\ Memory' = Memory
  BY Zenon DEF client, Used, Talking, Active, Memory, N, TFTP_SEQUENCE_SIZE
<1>3. Typed'
  BY Zenon, <1>1, <1>2 DEF Typed
<1>4. Reorder => tftp.wrap = 0
  BY Zenon DEF IInv, Loose
<1>5. Quiet
  BY <1>1, <1>2, <1>4, Zenon DEF Quiet, OwnPort
<1> QED
  BY Zenon, <1>3, <1>5, QuietStep

(* The client ignores a packet; the network loses one.                     *)
LEMMA IgnoredStep ==
  ASSUME IInv, Ignored
  PROVE  IInv'
<1>1. Typed
  BY Zenon DEF IInv
<1>2. PICK i \in Heads(s2c) : s2c' = RemoveAt(s2c, i) /\ UNCHANGED <<client, c2s, server, bounds>>
  BY Zenon DEF Ignored, Take
<1>3. s2c' \in Seq(Packet) /\ Kept(s2c, s2c', Used)
  BY Zenon, <1>1, <1>2, Taking DEF Typed
<1>4. c2s' \in Seq(Packet) /\ Kept(c2s, c2s', Used)
  BY Zenon, <1>1, <1>2, KeptSame DEF Typed
<1> QED
  BY Zenon, <1>2, <1>3, <1>4, Stutters DEF bounds

(* The network loses a packet.                                             *)
LEMMA LoseStep ==
  ASSUME IInv, Lose
  PROVE  IInv'
<1>1. Typed
  BY Zenon DEF IInv
<1>2. UNCHANGED <<client, server, setup>>
  BY Zenon DEF Lose
<1>3. CASE \E i \in Heads(c2s) : c2s' = RemoveAt(c2s, i) /\ UNCHANGED s2c
  <2>1. c2s' \in Seq(Packet) /\ Kept(c2s, c2s', Used)
    BY <1>1, <1>3, Taking DEF Typed
  <2>2. s2c' \in Seq(Packet) /\ Kept(s2c, s2c', Used)
    BY Zenon, <1>1, <1>3, KeptSame DEF Typed
  <2> QED
    BY Zenon, <1>2, <2>1, <2>2, Stutters
<1>4. CASE \E i \in Heads(s2c) : s2c' = RemoveAt(s2c, i) /\ UNCHANGED c2s
  <2>1. s2c' \in Seq(Packet) /\ Kept(s2c, s2c', Used)
    BY <1>1, <1>4, Taking DEF Typed
  <2>2. c2s' \in Seq(Packet) /\ Kept(c2s, c2s', Used)
    BY Zenon, <1>1, <1>4, KeptSame DEF Typed
  <2> QED
    BY Zenon, <1>2, <2>1, <2>2, Stutters
<1> QED
  BY Zenon, <1>3, <1>4 DEF Lose

(* The server refuses a request.                                           *)
LEMMA RefuseStep ==
  ASSUME IInv, ServerRefuses
  PROVE  IInv'
<1>1. Typed /\ OwnPort
  BY Zenon DEF IInv
<1>2. PICK i \in Heads(c2s), code \in {"missing", "busy"} :
        /\ c2s' = RemoveAt(c2s, i)
        /\ s2c' = Push(s2c, ERROR(c2s[i].port, code))
        /\ UNCHANGED <<client, server, setup, lost, resent>>
  BY Zenon DEF ServerRefuses
<1>3. i \in DOMAIN c2s /\ c2s[i].port \in Nat /\ c2s[i].port <= Used
  <2>1. i \in DOMAIN c2s
    BY Zenon, <1>1, HeadsIn DEF Typed
  <2> QED
    BY Zenon, <1>1, <2>1, PacketsTyped DEF Typed, OwnPort
<1>4. c2s' \in Seq(Packet) /\ Kept(c2s, c2s', Used)
  BY Zenon, <1>1, <1>2, Taking DEF Typed
<1>5. s2c' \in Seq(Packet) /\ Kept(s2c, s2c', Used)
  <2> DEFINE e == ERROR(c2s[i].port, code)
  <2>1. e \in Packet /\ ~IsReply(e) /\ ~IsAck(e) /\ e.port <= Used
    BY Zenon, <1>3, PacketForms
  <2> HIDE DEF e
  <2>2. s2c' = Push(s2c, e) /\ s2c \in Seq(Packet) /\ setup \in Setups
    BY Zenon, <1>1, <1>2 DEF e, Typed
  <2> QED
    BY Zenon, <2>1, <2>2, Pushed, KeptPushed
<1> QED
  BY Zenon, <1>2, <1>4, <1>5, Stutters

(* An attempt that is given up.                                            *)
LEMMA GivenUp ==
  ASSUME Typed, OwnPort, net_state = "CONTINUE", NetStartAgain \/ Fails
  PROVE  /\ ~Active' /\ net_state' # "SUCCESS" /\ NetTryCount' \in Nat /\ handler' \in BOOLEAN
         /\ tftp.port <= NetTryCount'
         /\ net_state' = "RESTART" \/ timer' = "again" => tftp.port < NetTryCount'
         /\ timer' = "again" => ~handler'
<1>1. tftp.port \in Nat /\ NetTryCount \in Nat /\ handler \in BOOLEAN
      /\ tftp.port <= NetTryCount /\ (timer = "again" => ~handler)
  BY Zenon DEF Typed, OwnPort
<1>2. CASE Fails
  BY Zenon, <1>1, <1>2 DEF Fails, Active
<1>3. CASE NetStartAgain /\ ~Fails
  <2>1. NetTryCount' = NetTryCount + 1
    BY <1>3, Zenon DEF NetStartAgain
  <2>2. \/ timer' = "again" /\ handler' = FALSE /\ net_state' = net_state
        \/ net_state' = "RESTART" /\ handler' = handler /\ timer' = timer
    BY <1>3, Zenon DEF NetStartAgain
  <2>3. CASE timer' = "again" /\ handler' = FALSE /\ net_state' = net_state
    <3>1. tftp.port <= NetTryCount' /\ tftp.port < NetTryCount' /\ NetTryCount' \in Nat
      BY <1>1, <2>1
    <3>2. ~Active' /\ net_state' # "SUCCESS" /\ handler' \in BOOLEAN /\ ~handler'
      BY <2>3, Zenon DEF Active
    <3> QED
      BY <3>1, <3>2, Zenon
  <2>4. CASE net_state' = "RESTART" /\ handler' = handler /\ timer' = timer
    BY <1>1, <2>1, <2>4 DEF Active
  <2> QED
    BY Zenon, <2>2, <2>3, <2>4
<1> QED
  BY Zenon, <1>2, <1>3

(* Giving an attempt up keeps the invariant.                               *)
LEMMA GiveUpStep ==
  ASSUME IInv, net_state = "CONTINUE", NetStartAgain \/ Fails,
         UNCHANGED <<setup, at, ether, tx, mem, size, c2s, server>>,
         arp' \in [wait: BOOLEAN, try: Nat], arp'.wait => arp.wait,
         tftp' \in [state: {"SEND_RRQ", "OACK", "DATA"}, block: Nat, last: Nat,
                    wrap: Nat, timeouts: Nat, remote: Nat, port: Nat],
         tftp'.remote = tftp.remote, tftp'.port = tftp.port, Talking' = Talking,
         Reorder => tftp'.wrap = 0,
         s2c' \in Seq(Packet), Kept(s2c, s2c', Used)
  PROVE  IInv'
<1>1. Typed /\ OwnPort
  BY Zenon DEF IInv
<1>2. /\ ~Active' /\ net_state' # "SUCCESS" /\ NetTryCount' \in Nat /\ handler' \in BOOLEAN
      /\ tftp.port <= NetTryCount'
      /\ net_state' = "RESTART" \/ timer' = "again" => tftp.port < NetTryCount'
      /\ timer' = "again" => ~handler'
  BY Zenon, <1>1, GivenUp
<1>3. Used' = Used /\ Memory' = Memory
  BY Zenon DEF Used, Memory, N, TFTP_SEQUENCE_SIZE
<1>4. Typed'
  BY Zenon, <1>1, <1>2, <1>3 DEF Typed
<1>5. Kept(c2s, c2s', Used')
  BY Zenon, <1>1, KeptSame DEF Typed
<1>6. arp'.wait => ~ether' /\ tx' = RRQ(tftp.port)
  BY Zenon, <1>1 DEF OwnPort
<1>7. Quiet
  BY <1>2, <1>3, <1>5, <1>6, Zenon DEF Quiet
<1> QED
  BY Zenon, <1>4, <1>7, QuietStep

(* The server reports an error.                                            *)
LEMMA ErrorStep ==
  ASSUME IInv, HandleError
  PROVE  IInv'
<1>1. Typed /\ (Reorder => tftp.wrap = 0)
  BY Zenon DEF IInv, Loose
<1>2. PICK i \in Heads(s2c) :
        /\ net_state = "CONTINUE" /\ s2c' = RemoveAt(s2c, i) /\ (NetStartAgain \/ Fails)
        /\ UNCHANGED <<tftp, at, ether, arp, tx, mem, size, c2s, server, bounds>>
  BY Zenon DEF HandleError, Take
<1>3. s2c' \in Seq(Packet) /\ Kept(s2c, s2c', Used)
  BY Zenon, <1>1, <1>2, Taking DEF Typed
<1>4. Talking' = Talking /\ setup' = setup
  BY Zenon, <1>2 DEF Talking, bounds
<1>5. arp' \in [wait: BOOLEAN, try: Nat] /\ arp' = arp /\ tftp' = tftp
      /\ tftp' \in [state: {"SEND_RRQ", "OACK", "DATA"}, block: Nat, last: Nat,
                    wrap: Nat, timeouts: Nat, remote: Nat, port: Nat]
  BY Zenon, <1>1, <1>2 DEF Typed
<1> QED
  BY Zenon, <1>1, <1>2, <1>3, <1>4, <1>5, GiveUpStep

(* The first block of data is not block 1: the transfer had begun before.  *)
LEMMA NotFirstStep ==
  ASSUME IInv, HandleDataNotFirst
  PROVE  IInv'
<1>1. Typed
  BY Zenon DEF IInv
<1>2. PICK i \in Heads(s2c) :
        /\ net_state = "CONTINUE" /\ s2c[i].type = "DATA" /\ ForMe(s2c[i])
        /\ First(tftp) /\ Number(s2c[i].blk) # 1
        /\ s2c' = RemoveAt(s2c, i) /\ tftp' = Looked(tftp, s2c[i]) /\ NetStartAgain
        /\ UNCHANGED <<at, ether, arp, tx, mem, size, c2s, server, bounds>>
  BY Zenon DEF HandleDataNotFirst, Take
<1> DEFINE p == s2c[i]
           n == Number(p.blk)
<1>3. s2c' \in Seq(Packet) /\ Kept(s2c, s2c', Used)
  BY Zenon, <1>1, <1>2, Taking DEF Typed
<1>4. /\ p \in Packet /\ p.blk # 0 /\ p.blk <= server[p.tid].blk /\ server[p.tid].blk \in Nat
      /\ IF Talking THEN p.tid = tftp.remote ELSE server[p.tid].blk <= 1
  BY Zenon, <1>2, Taken DEF IsReply
<1>5. p.blk \in Nat /\ p.tid \in Nat /\ TFTP_SEQUENCE_SIZE \in Nat \ {0, 1}
  BY Zenon, <1>1, <1>4, SetupTyped DEF Packet, Typed
<1>6. n \in Nat
  <2>1. p.blk % TFTP_SEQUENCE_SIZE \in 0..(TFTP_SEQUENCE_SIZE - 1)
    BY Zenon, <1>5, NextNumber
  <2>2. p.blk % TFTP_SEQUENCE_SIZE \in Nat
    BY <1>5, <2>1
  <2> QED
    BY Zenon, <2>2 DEF Number
<1>7. Talking /\ p.tid = tftp.remote
  <2> SUFFICES ASSUME ~Talking PROVE FALSE
    BY Zenon, <1>4
  <2>1. p.blk = 1
    BY <1>4, <1>5
  <2>2. 1 % TFTP_SEQUENCE_SIZE = 1
    BY <1>5, SmallNumber
  <2> QED
    BY Zenon, <1>2, <2>1, <2>2 DEF Number
<1> DEFINE w == update_block_number(tftp, n)
<1>8. /\ w \in [state: {"SEND_RRQ", "OACK", "DATA"}, block: Nat, last: Nat,
               wrap: Nat, timeouts: Nat, remote: Nat, port: Nat]
      /\ w.port = tftp.port
  <2> HIDE DEF n
  <2>1. CASE n = 0 /\ tftp.last # 0
    <3>1. w = [tftp EXCEPT !.block = n, !.wrap = tftp.wrap + TFTP_SEQUENCE_SIZE, !.timeouts = 0]
      BY Zenon, <2>1 DEF update_block_number
    <3>2. tftp.wrap + TFTP_SEQUENCE_SIZE \in Nat
      <4>1. tftp.wrap \in Nat
        BY <1>1 DEF Typed
      <4> QED
        BY <1>5, <4>1
    <3> HIDE DEF w
    <3> QED
      BY Zenon, <1>1, <1>6, <3>1, <3>2 DEF Typed
  <2>2. CASE ~(n = 0 /\ tftp.last # 0)
    <3>1. w = [tftp EXCEPT !.block = n]
      BY Zenon, <2>2 DEF update_block_number
    <3> HIDE DEF w
    <3> QED
      BY Zenon, <1>1, <1>6, <3>1 DEF Typed
  <2> QED
    BY Zenon, <2>1, <2>2
<1>9. tftp' = new_transfer([w EXCEPT !.state = "DATA", !.remote = p.tid])
  BY Zenon, <1>2 DEF Looked
<1> HIDE DEF w
<1>10. /\ tftp' \in [state: {"SEND_RRQ", "OACK", "DATA"}, block: Nat, last: Nat,
                     wrap: Nat, timeouts: Nat, remote: Nat, port: Nat]
       /\ tftp'.state = "DATA" /\ tftp'.remote = tftp.remote /\ tftp'.port = tftp.port
       /\ tftp'.wrap = 0
  BY Zenon, <1>5, <1>7, <1>8, <1>9 DEF new_transfer
<1>11. Talking' = Talking /\ setup' = setup
  BY Zenon, <1>2, <1>7, <1>10 DEF Talking, bounds
<1>12. arp' \in [wait: BOOLEAN, try: Nat] /\ arp' = arp
  BY Zenon, <1>1, <1>2 DEF Typed
<1> QED
  BY Zenon, <1>2, <1>3, <1>10, <1>11, <1>12, GiveUpStep

(* The block received last arrives again.                                  *)
LEMMA SameStep ==
  ASSUME IInv, HandleDataSame
  PROVE  IInv'
<1>1. Typed /\ OwnPort /\ (Reorder => tftp.wrap = 0)
  BY Zenon DEF IInv, Loose
<1>2. PICK i \in Heads(s2c) :
        /\ ~First(tftp) /\ Number(s2c[i].blk) = tftp.last
        /\ s2c' = RemoveAt(s2c, i) /\ tftp' = Looked(tftp, s2c[i])
        /\ UNCHANGED <<net_state, at, handler, timer, ether, arp, tx,
                       NetTryCount, eth, mem, size, c2s, server, bounds>>
  BY Zenon DEF HandleDataSame, Take
<1>3. s2c' \in Seq(Packet) /\ Kept(s2c, s2c', Used)
  BY Zenon, <1>1, <1>2, Taking DEF Typed
<1>4. tftp' = [tftp EXCEPT !.block = tftp.last] /\ tftp.state = "DATA"
  <2>1. tftp' = update_block_number(tftp, tftp.last)
    BY Zenon, <1>2 DEF Looked
  <2>2. tftp.state = "DATA"
    BY Zenon, <1>1, <1>2 DEF First, Typed
  <2> QED
    BY Zenon, <2>1, <2>2 DEF update_block_number
<1>5. /\ tftp' \in [state: {"SEND_RRQ", "OACK", "DATA"}, block: Nat, last: Nat,
                    wrap: Nat, timeouts: Nat, remote: Nat, port: Nat]
      /\ tftp'.state = tftp.state /\ tftp'.remote = tftp.remote /\ tftp'.port = tftp.port
      /\ tftp'.wrap = tftp.wrap /\ tftp'.last = tftp.last /\ tftp'.block = tftp.last
  BY Zenon, <1>1, <1>4 DEF Typed
<1>6. /\ UNCHANGED <<setup, net_state, at, handler, timer, ether, arp, tx, NetTryCount,
                     mem, size, c2s, server>>
      /\ Memory' = Memory
  BY Zenon, <1>2 DEF bounds, Memory, N, TFTP_SEQUENCE_SIZE
<1>7. Used' = Used /\ Talking' = Talking /\ Active' = Active
  BY Zenon, <1>5, <1>6 DEF Used, Talking, Active
<1>8. Typed'
  BY Zenon, <1>1, <1>3, <1>5, <1>6 DEF Typed
<1>9. Kept(c2s, c2s', Used)
  BY Zenon, <1>1, <1>6, KeptSame DEF Typed
<1>10. Quiet
  BY <1>1, <1>3, <1>4, <1>5, <1>6, <1>7, <1>9, Zenon DEF Quiet, OwnPort
<1> QED
  BY Zenon, <1>8, <1>10, QuietStep

(* The transfer is as it was, and a request may be sent.                   *)
LEMMA AskStep ==
  ASSUME IInv,
         UNCHANGED <<setup, net_state, at, handler, timer, NetTryCount, mem, size, server>>,
         NEW k \in Nat, tftp' = [tftp EXCEPT !.timeouts = k],
         ether' \in BOOLEAN, ether => ether', arp' \in [wait: BOOLEAN, try: Nat],
         tx' \in Packet, arp'.wait => ~ether' /\ tx' = RRQ(tftp.port),
         c2s' \in Seq(Packet), Kept(c2s, c2s', Used'),
         s2c' \in Seq(Packet), Kept(s2c, s2c', Used')
  PROVE  IInv'
<1>1. Typed /\ OwnPort /\ (Reorder => tftp.wrap = 0)
  BY Zenon DEF IInv, Loose
<1>2. /\ tftp' \in [state: {"SEND_RRQ", "OACK", "DATA"}, block: Nat, last: Nat,
                    wrap: Nat, timeouts: Nat, remote: Nat, port: Nat]
      /\ tftp'.state = tftp.state /\ tftp'.remote = tftp.remote /\ tftp'.port = tftp.port
      /\ tftp'.wrap = tftp.wrap /\ tftp'.last = tftp.last /\ tftp'.block = tftp.block
  BY Zenon, <1>1 DEF Typed
<1>3. Talking' = Talking /\ Active' = Active /\ Memory' = Memory
  BY Zenon, <1>2 DEF Talking, Active, Memory, N, TFTP_SEQUENCE_SIZE
<1>4. Typed'
  BY Zenon, <1>1, <1>2, <1>3 DEF Typed
<1>5. Quiet
  BY <1>1, <1>2, <1>3, Zenon DEF Quiet, OwnPort
<1> QED
  BY Zenon, <1>4, <1>5, QuietStep

(* A transfer whose timeouts do not change does not change.                *)
LEMMA SameTimeouts ==
  ASSUME Typed
  PROVE  tftp.timeouts \in Nat /\ tftp = [tftp EXCEPT !.timeouts = tftp.timeouts]
  BY Zenon DEF Typed

(* The address of the server arrives, and releases the request.            *)
LEMMA ArpStep ==
  ASSUME IInv, ArpReceive
  PROVE  IInv'
<1>1. Typed /\ OwnPort
  BY Zenon DEF IInv
<1>2. PICK i \in Heads(s2c) :
        /\ s2c' = RemoveAt(s2c, i)
        /\ IF arp.wait
           THEN /\ ether' = TRUE
                /\ arp' = [arp EXCEPT !.wait = FALSE]
                /\ c2s' = Push(c2s, tx)
           ELSE UNCHANGED <<ether, arp, c2s>>
        /\ UNCHANGED <<net_state, tftp, at, handler, timer, tx, NetTryCount,
                       eth, mem, size, server, bounds>>
  BY Zenon DEF ArpReceive, Take
<1>3. s2c' \in Seq(Packet) /\ Kept(s2c, s2c', Used')
  BY Zenon, <1>1, <1>2, Taking DEF Typed
<1>4. /\ UNCHANGED <<setup, net_state, at, handler, timer, NetTryCount, mem, size, server>>
      /\ tftp' = tftp /\ tx' = tx /\ tx' \in Packet
  BY Zenon, <1>1, <1>2 DEF bounds, Typed
<1>5. tftp.timeouts \in Nat /\ tftp' = [tftp EXCEPT !.timeouts = tftp.timeouts]
  BY Zenon, <1>1, <1>4, SameTimeouts
<1>6. CASE arp.wait
  <2>1. ether' = TRUE /\ ether' \in BOOLEAN
    BY Zenon, <1>2, <1>6
  <2>2. arp' \in [wait: BOOLEAN, try: Nat] /\ ~arp'.wait
    BY Zenon, <1>1, <1>2, <1>6 DEF Typed
  <2>3. tx = RRQ(tftp.port) /\ tftp.port \in Nat
    BY Zenon, <1>1, <1>6 DEF OwnPort, Typed
  <2>4. ~IsAck(tx) /\ ~IsReply(tx) /\ tx.port <= Used'
    BY <1>4, <2>1, <2>3, PacketForms DEF Used
  <2>5. c2s' \in Seq(Packet) /\ Kept(c2s, c2s', Used')
    <3>1. c2s' = Push(c2s, tx) /\ c2s \in Seq(Packet) /\ tx \in Packet /\ setup \in Setups
      BY Zenon, <1>1, <1>2, <1>6 DEF Typed
    <3>2. Push(c2s, tx) \in Seq(Packet) /\ Kept(c2s, Push(c2s, tx), Used')
      BY Zenon, <2>4, <3>1, Pushed, KeptPushed
    <3> QED
      BY Zenon, <3>1, <3>2
  <2> QED
    BY Zenon, <1>3, <1>4, <1>5, <2>1, <2>2, <2>5, AskStep
<1>7. CASE ~arp.wait
  <2>1. ether' = ether /\ arp' = arp /\ c2s' = c2s
    BY Zenon, <1>2, <1>7
  <2>2. c2s' \in Seq(Packet) /\ Kept(c2s, c2s', Used')
    BY Zenon, <1>1, <2>1, KeptSame DEF Typed
  <2>3. arp' \in [wait: BOOLEAN, try: Nat] /\ ether' \in BOOLEAN
    BY Zenon, <1>1, <2>1 DEF Typed
  <2> QED
    BY Zenon, <1>3, <1>4, <1>5, <1>7, <2>1, <2>2, <2>3, AskStep
<1> QED
  BY Zenon, <1>6, <1>7

(* ARP asks again, or gives the attempt up.                                *)
LEMMA ArpTimeoutStep ==
  ASSUME IInv, ArpTimeoutCheck
  PROVE  IInv'
<1>1. Typed /\ OwnPort /\ (Reorder => tftp.wrap = 0)
  BY Zenon DEF IInv, Loose
<1>2. /\ UNCHANGED <<setup, tftp, at, ether, tx, mem, size, s2c, server>>
      /\ net_state = "CONTINUE" /\ arp.wait
  BY Zenon DEF ArpTimeoutCheck, bounds
<1>3. s2c' \in Seq(Packet) /\ Kept(s2c, s2c', Used')
  BY Zenon, <1>1, <1>2, KeptSame DEF Typed
<1>4. Used' = Used /\ Talking' = Talking
  BY Zenon, <1>2 DEF Used, Talking
<1>5. tftp' \in [state: {"SEND_RRQ", "OACK", "DATA"}, block: Nat, last: Nat,
                 wrap: Nat, timeouts: Nat, remote: Nat, port: Nat]
  BY Zenon, <1>1, <1>2 DEF Typed
<1>6. CASE arp' = [arp EXCEPT !.try = 0] /\ NetStartAgain /\ UNCHANGED c2s
  <2>1. arp' \in [wait: BOOLEAN, try: Nat]
    BY Zenon, <1>1, <1>6 DEF Typed
  <2> QED
    BY Zenon, <1>1, <1>2, <1>3, <1>4, <1>5, <1>6, <2>1, GiveUpStep
<1>7. CASE /\ arp' = [arp EXCEPT !.try = @ + 1] /\ c2s' = Push(c2s, ArpAsk)
           /\ UNCHANGED <<net_state, handler, timer, NetTryCount, eth>>
  <2>1. arp' \in [wait: BOOLEAN, try: Nat]
    <3>1. arp \in [wait: BOOLEAN, try: Nat] /\ arp.try + 1 \in Nat
      BY <1>1 DEF Typed
    <3> QED
      BY Zenon, <1>7, <3>1
  <2>2. tftp.timeouts \in Nat /\ tftp' = [tftp EXCEPT !.timeouts = tftp.timeouts]
    BY Zenon, <1>1, <1>2, SameTimeouts
  <2>3. 0 <= Used'
    BY <1>1, <1>4 DEF Used, OwnPort, Typed
  <2>4. ArpAsk \in Packet /\ ~IsAck(ArpAsk) /\ ~IsReply(ArpAsk) /\ ArpAsk.port <= Used'
    BY Zenon, <2>3, PacketForms
  <2>5. c2s' \in Seq(Packet) /\ Kept(c2s, c2s', Used')
    BY Zenon, <1>1, <1>7, <2>4, Pushed, KeptPushed DEF Typed
  <2>6. tx' \in Packet /\ ether' \in BOOLEAN /\ ~ether' /\ tx' = RRQ(tftp.port)
    BY Zenon, <1>1, <1>2 DEF Typed, OwnPort
  <2> QED
    BY Zenon, <1>2, <1>3, <1>7, <2>1, <2>2, <2>5, <2>6, AskStep
<1> QED
  BY <1>6, <1>7, Zenon DEF ArpTimeoutCheck

(* Ctrl-C.                                                                 *)
LEMMA AbortStep ==
  ASSUME IInv, Abort
  PROVE  IInv'
<1>1. Typed /\ OwnPort /\ (Reorder => tftp.wrap = 0)
  BY Zenon DEF IInv, Loose
<1>2. /\ UNCHANGED <<setup, tftp, at, ether, tx, NetTryCount, mem, size, c2s, s2c, server>>
      /\ net_state' = "ABORT" /\ handler' = FALSE /\ timer' = "none"
      /\ arp' = [arp EXCEPT !.wait = FALSE]
  BY Zenon DEF Abort, bounds
<1>3. arp' \in [wait: BOOLEAN, try: Nat] /\ ~arp'.wait
  BY Zenon, <1>1, <1>2 DEF Typed
<1>4. Memory' = Memory /\ Talking' = Talking /\ ~Active'
  BY Zenon, <1>2 DEF Memory, N, TFTP_SEQUENCE_SIZE, Talking, Active
<1>5. Kept(c2s, c2s', Used') /\ Kept(s2c, s2c', Used')
  BY Zenon, <1>1, <1>2, KeptSame DEF Typed
<1>6. Typed'
  BY Zenon, <1>1, <1>2, <1>3, <1>4 DEF Typed
<1>7. Quiet
  BY Zenon, <1>1, <1>2, <1>3, <1>4, <1>5 DEF Quiet, OwnPort
<1> QED
  BY Zenon, <1>6, <1>7, QuietStep

-----------------------------------------------------------------------------
(* A new attempt has a port that no packet carries yet.                    *)
LEMMA FreshStep ==
  ASSUME IInv, TftpStart, UNCHANGED <<NetTryCount, s2c, server, bounds>>,
         tftp.port < NetTryCount
  PROVE  IInv'
<1>1. /\ Typed /\ OwnPort /\ Dialogue /\ (Reorder => tftp.wrap = 0)
      /\ ~Reorder => InOrder
  BY Zenon DEF IInv, Loose, Strict
<1>2. /\ tftp' = Started(tftp) /\ net_state' = "CONTINUE" /\ handler' = TRUE
      /\ timer' = "tftp" /\ ether' = FALSE /\ size' = 0 /\ at' = at /\ mem' = mem
      /\ c2s' = Push(c2s, ArpAsk) /\ tx' = RRQ(NetTryCount)
      /\ arp' = [wait |-> TRUE, try |-> 1]
      /\ NetTryCount' = NetTryCount /\ s2c' = s2c /\ server' = server /\ setup' = setup
  BY Zenon DEF TftpStart, NetSendUDPPacket, bounds
<1>3. /\ tftp' \in [state: {"SEND_RRQ", "OACK", "DATA"}, block: Nat, last: Nat,
                    wrap: Nat, timeouts: Nat, remote: Nat, port: Nat]
      /\ tftp'.state = "SEND_RRQ" /\ tftp'.port = NetTryCount /\ tftp'.block = 0
      /\ tftp'.wrap = tftp.wrap
  BY Zenon, <1>1, <1>2 DEF Started, Typed
<1>4. Used <= tftp.port /\ tftp.port <= Used' /\ tftp.port < tftp'.port
      /\ Used \in Int /\ Used' \in Int /\ tftp.port \in Nat /\ tftp'.port \in Nat /\ 1 <= tftp'.port
  <2>1. ether \in BOOLEAN /\ tftp.port \in Nat /\ NetTryCount \in Nat /\ 1 <= tftp.port
    BY <1>1 DEF Typed, OwnPort
  <2>2. Used = (IF ether THEN tftp.port ELSE tftp.port - 1) /\ Used' = NetTryCount - 1
    BY Zenon, <1>2, <1>3 DEF Used
  <2> QED
    BY <1>3, <2>1, <2>2
<1>5. ArpAsk \in Packet /\ RRQ(NetTryCount) \in Packet /\ ~IsAck(ArpAsk) /\ ArpAsk.port = 0
  BY Zenon, <1>1, PacketForms DEF Typed
<1>6. /\ c2s' \in Seq(Packet)
      /\ \A i \in DOMAIN c2s' : \/ i \in DOMAIN c2s /\ c2s'[i] = c2s[i]
                                \/ c2s'[i] = ArpAsk
  BY Zenon, <1>1, <1>2, <1>5, Pushed DEF Typed
<1>7. Typed'
  <2>1. Memory' = Memory
    BY Zenon, <1>2 DEF Memory, N, TFTP_SEQUENCE_SIZE
  <2>2. arp' \in [wait: BOOLEAN, try: Nat]
    BY Zenon, <1>2
  <2> QED
    BY Zenon, <1>1, <1>2, <1>3, <1>5, <1>6, <2>1, <2>2 DEF Typed
<1>8. \A i \in DOMAIN c2s : c2s[i].port \in Nat /\ c2s[i].port <= Used
  BY Zenon, <1>1, PacketsTyped DEF Typed, OwnPort
<1>9. \A i \in DOMAIN s2c : s2c[i].port \in Nat /\ s2c[i].port <= Used
  BY Zenon, <1>1, PacketsTyped DEF Typed, OwnPort
<1>10. \A t \in DOMAIN server : server[t].port \in Nat /\ server[t].port <= Used
  BY Zenon, <1>1, TransfersTyped DEF OwnPort
<1>11. OwnPort'
  <2>1. \A i \in DOMAIN c2s' : c2s'[i].port <= Used'
    BY <1>4, <1>5, <1>6, <1>8
  <2>2. \A i \in DOMAIN s2c' : s2c'[i].port <= Used'
    BY <1>2, <1>4, <1>9
  <2>3. \A t \in DOMAIN server' : server'[t].port <= Used'
    BY <1>2, <1>4, <1>10
  <2>4. tftp'.port <= NetTryCount'
    BY <1>2, <1>3, <1>4
  <2>5. arp'.wait => ~ether' /\ tx' = RRQ(tftp.port)'
    BY Zenon, <1>2, <1>3 DEF RRQ
  <2> QED
    BY Zenon, <1>2, <1>3, <1>4, <2>1, <2>2, <2>3, <2>4, <2>5 DEF OwnPort
<1>12. ~Talking'
  BY Zenon, <1>3 DEF Talking
<1>13. Dialogue'
  <2>1. ASSUME NEW i \in DOMAIN c2s', IsAck(c2s'[i])
        PROVE  /\ c2s'[i].tid \in DOMAIN server' /\ server'[c2s'[i].tid].port = c2s'[i].port
               /\ c2s'[i].port # tftp'.port
    <3>1. i \in DOMAIN c2s /\ c2s'[i] = c2s[i]
      BY Zenon, <1>5, <1>6, <2>1
    <3>2. c2s'[i].port # tftp'.port
      BY <1>4, <1>8, <3>1
    <3> QED
      BY Zenon, <1>1, <1>2, <2>1, <3>1, <3>2 DEF Dialogue
  <2>2. \A t \in DOMAIN server' : server'[t].port # tftp'.port
    BY <1>2, <1>4, <1>10
  <2>3. ASSUME NEW i \in DOMAIN s2c', IsReply(s2c'[i])
        PROVE  /\ s2c'[i].tid \in DOMAIN server' /\ server'[s2c'[i].tid].port = s2c'[i].port
               /\ s2c'[i].blk <= server'[s2c'[i].tid].blk
               /\ s2c'[i].type = "OACK" <=> s2c'[i].blk = 0
    BY Zenon, <1>1, <1>2, <2>3 DEF Dialogue
  <2>4. \A t \in DOMAIN server' : server'[t].tid = t /\ server'[t].blk <= N'
    <3>1. \A t \in DOMAIN server : server[t].tid = t /\ server[t].blk <= N
      BY <1>1, Zenon DEF Dialogue
    <3> QED
      BY Zenon, <1>2, <3>1 DEF N
  <2> QED
    BY <1>12, <2>1, <2>2, <2>3, <2>4, Zenon DEF Dialogue, IsAck, IsReply
<1>14. IF Reorder' THEN Loose' ELSE Strict'
  <2>1. Reorder' = Reorder
    BY Zenon, <1>2 DEF Reorder
  <2>2. ~Reorder => InOrder'
    BY Zenon, <1>1, <1>2 DEF InOrder, IsReply
  <2> QED
    BY Zenon, <1>1, <1>3, <1>12, <2>1, <2>2 DEF Loose, Strict
<1>15. size' <= N' /\ FileIntact'
  <2>1. N' = N /\ 0 <= N
    <3>1. N \in Nat
      BY Zenon, <1>1, Sizes
    <3> QED
      BY <1>2, <3>1 DEF N
  <2> QED
    BY <1>2, <2>1 DEF FileIntact
<1> QED
  BY Zenon, <1>7, <1>11, <1>13, <1>14, <1>15 DEF IInv

(* The loop is restarted, at once or after a while.                        *)
LEMMA RestartStep ==
  ASSUME IInv, Restart \/ startAgainTimeout
  PROVE  IInv'
<1>1. tftp.port < NetTryCount
  BY Zenon DEF IInv, OwnPort, Restart, startAgainTimeout
<1>2. TftpStart /\ UNCHANGED <<NetTryCount, s2c, server, bounds>>
  BY Zenon DEF Restart, startAgainTimeout
<1> QED
  BY Zenon, <1>1, <1>2, FreshStep

-----------------------------------------------------------------------------
(* A step in which the client acknowledges number b to the transfer r, the *)
(* one it talks to or the one it chooses now.                              *)
Acknowledges(r, b) ==
  /\ UNCHANGED <<setup, ether, arp, NetTryCount, server>>
  /\ ether /\ r \in DOMAIN server /\ server[r].port = tftp.port
  /\ IF Talking THEN r = tftp.remote ELSE server[r].blk <= 1
  /\ tftp'.remote = r /\ tftp'.port = tftp.port /\ Talking'
  /\ net_state' # "RESTART" /\ timer' # "again"
  /\ c2s' = Push(c2s, ACK(tftp.port, r, b))
  /\ Kept(s2c, s2c', Used)

(* The packets of the client are the old ones and, last, the new           *)
(* acknowledgement.                                                        *)
LEMMA Acknowledged ==
  ASSUME IInv, NEW r, NEW b \in Nat, Acknowledges(r, b)
  PROVE  /\ r \in Nat /\ c2s' \in Seq(Packet)
         /\ \A i \in DOMAIN c2s' :
              \/ i \in DOMAIN c2s /\ c2s'[i] = c2s[i] /\ i < Len(c2s) + 1
              \/ i = Len(c2s) + 1 /\ c2s'[i] = ACK(tftp.port, r, b)
<1>1. Typed /\ setup \in Setups /\ c2s \in Seq(Packet) /\ tftp.port \in Nat
  BY Zenon DEF IInv, Typed
<1>2. r \in Nat
  <2>1. r \in DOMAIN server
    BY Zenon DEF Acknowledges
  <2> QED
    BY <1>1, <2>1, TransfersTyped
<1>3. ACK(tftp.port, r, b) \in Packet
  BY Zenon, <1>1, <1>2, PacketForms
<1>4. c2s' = Push(c2s, ACK(tftp.port, r, b))
  BY Zenon DEF Acknowledges
<1>5. /\ c2s' \in Seq(Packet)
      /\ \A i \in DOMAIN c2s' :
           \/ i \in DOMAIN c2s /\ c2s'[i] = c2s[i]
           \/ i = Len(c2s) + 1 /\ c2s'[i] = ACK(tftp.port, r, b)
  BY Zenon, <1>1, <1>3, <1>4, Pushed
<1>6. \A i \in DOMAIN c2s : i < Len(c2s) + 1
  BY <1>1
<1> QED
  BY <1>2, <1>5, <1>6, Zenon

(* An acknowledgement carries the port of its attempt.                     *)
LEMMA AckPort ==
  ASSUME IInv, NEW r, NEW b \in Nat, Acknowledges(r, b), s2c' \in Seq(Packet)
  PROVE  OwnPort'
<1>1. Typed /\ OwnPort
  BY Zenon DEF IInv
<1>2. /\ ether /\ ether' = ether /\ arp' = arp /\ NetTryCount' = NetTryCount
      /\ server' = server /\ tftp'.port = tftp.port
      /\ net_state' # "RESTART" /\ timer' # "again" /\ Kept(s2c, s2c', Used)
  BY Zenon DEF Acknowledges
<1>3. Used = tftp.port /\ Used' = Used /\ tftp.port \in Nat
  BY Zenon, <1>1, <1>2 DEF Used, Typed
<1>4. ASSUME NEW i \in DOMAIN c2s'
      PROVE  c2s'[i].port <= Used'
  <2>1. \/ i \in DOMAIN c2s /\ c2s'[i] = c2s[i]
        \/ c2s'[i] = ACK(tftp.port, r, b)
    BY <1>4, Acknowledged, Zenon
  <2>2. CASE i \in DOMAIN c2s /\ c2s'[i] = c2s[i]
    BY Zenon, <1>1, <1>3, <2>2 DEF OwnPort
  <2>3. CASE c2s'[i] = ACK(tftp.port, r, b)
    <3>1. c2s'[i].port = tftp.port
      BY <2>3 DEF ACK
    <3> QED
      BY <1>3, <3>1
  <2> QED
    BY Zenon, <2>1, <2>2, <2>3
<1>5. ASSUME NEW i \in DOMAIN s2c'
      PROVE  s2c'[i].port <= Used'
  <2>1. PICK f \in [DOMAIN s2c' -> Nat] : \A k \in DOMAIN s2c' :
              \/ f[k] \in DOMAIN s2c /\ s2c'[k] = s2c[f[k]]
              \/ ~IsAck(s2c'[k]) /\ ~IsReply(s2c'[k]) /\ s2c'[k].port <= Used
    BY <1>2, Zenon DEF Kept
  <2>2. CASE f[i] \in DOMAIN s2c /\ s2c'[i] = s2c[f[i]]
    BY Zenon, <1>1, <1>3, <2>2 DEF OwnPort
  <2> QED
    BY Zenon, <1>3, <1>5, <2>1, <2>2
<1>6. /\ 1 <= tftp.port /\ tftp.port <= NetTryCount /\ ~arp.wait
      /\ \A t \in DOMAIN server : server[t].port <= Used
  BY <1>1, <1>2, Zenon DEF OwnPort
<1> QED
  BY <1>2, <1>3, <1>4, <1>5, <1>6, Zenon DEF OwnPort

(* An acknowledgement goes to the transfer the client talks to.            *)
LEMMA AckDialogue ==
  ASSUME IInv, NEW r, NEW b \in Nat, Acknowledges(r, b), s2c' \in Seq(Packet)
  PROVE  Dialogue'
<1>1. Typed /\ Dialogue
  BY Zenon DEF IInv
<1>2. /\ server' = server /\ setup' = setup /\ tftp'.port = tftp.port /\ tftp'.remote = r
      /\ Talking' /\ Kept(s2c, s2c', Used) /\ (Talking => r = tftp.remote)
      /\ r \in DOMAIN server /\ server[r].port = tftp.port
  BY Zenon DEF Acknowledges
<1>3. N' = N
  BY Zenon, <1>2 DEF N
<1>4. ASSUME NEW i \in DOMAIN c2s', IsAck(c2s'[i])
      PROVE  /\ c2s'[i].tid \in DOMAIN server /\ server[c2s'[i].tid].port = c2s'[i].port
             /\ c2s'[i].port = tftp.port => c2s'[i].tid = r
  <2>1. \/ i \in DOMAIN c2s /\ c2s'[i] = c2s[i]
        \/ c2s'[i] = ACK(tftp.port, r, b)
    BY <1>4, Acknowledged, Zenon
  <2>2. CASE i \in DOMAIN c2s /\ c2s'[i] = c2s[i]
    BY <1>1, <1>2, <1>4, <2>2, Zenon DEF Dialogue
  <2>3. CASE c2s'[i] = ACK(tftp.port, r, b)
    <3>1. c2s'[i].port = tftp.port /\ c2s'[i].tid = r
      BY <2>3 DEF ACK
    <3> QED
      BY Zenon, <1>2, <3>1
  <2> QED
    BY Zenon, <2>1, <2>2, <2>3
<1>5. ASSUME NEW i \in DOMAIN s2c', IsReply(s2c'[i])
      PROVE  /\ s2c'[i].tid \in DOMAIN server /\ server[s2c'[i].tid].port = s2c'[i].port
             /\ s2c'[i].blk <= server[s2c'[i].tid].blk
             /\ s2c'[i].type = "OACK" <=> s2c'[i].blk = 0
  <2>1. PICK f \in [DOMAIN s2c' -> Nat] : \A k \in DOMAIN s2c' :
              \/ f[k] \in DOMAIN s2c /\ s2c'[k] = s2c[f[k]]
              \/ ~IsAck(s2c'[k]) /\ ~IsReply(s2c'[k]) /\ s2c'[k].port <= Used
    BY <1>2, Zenon DEF Kept
  <2>2. f[i] \in DOMAIN s2c /\ s2c'[i] = s2c[f[i]]
    BY Zenon, <1>5, <2>1
  <2> QED
    BY <1>1, <1>5, <2>2 DEF Dialogue
<1>6. ASSUME NEW t \in DOMAIN server
      PROVE  /\ server[t].tid = t /\ server[t].blk <= N
             /\ server[t].port = tftp.port /\ t # r => server[t].blk <= 1
  BY <1>1, <1>2, <1>6, Zenon DEF Dialogue
<1> QED
  BY <1>2, <1>3, <1>4, <1>5, <1>6, Zenon DEF Dialogue, IsAck, IsReply

(* The client acknowledges again what it has: after a timeout, or as the   *)
(* answer to an OACK.                                                      *)
LEMMA RepeatStep ==
  ASSUME IInv, Active, NEW r, Acknowledges(r, tftp.block),
         UNCHANGED <<net_state, at, handler, timer, mem, size>>,
         tftp' \in [state: {"SEND_RRQ", "OACK", "DATA"}, block: Nat, last: Nat,
                    wrap: Nat, timeouts: Nat, remote: Nat, port: Nat],
         tftp'.block = tftp.block, tftp'.last = tftp.last, tftp'.wrap = tftp.wrap,
         \/ tftp'.state = tftp.state
         \/ tftp'.state = "OACK" /\ (Reorder \/ tftp.state # "DATA"),
         tx' \in Packet, s2c' \in Seq(Packet)
  PROVE  IInv'
<1>1. Typed /\ Dialogue /\ size <= N /\ FileIntact /\ IF Reorder THEN Loose ELSE Strict
  BY Zenon DEF IInv
<1>2. /\ setup' = setup /\ ether' = ether /\ arp' = arp /\ NetTryCount' = NetTryCount
      /\ server' = server /\ r \in DOMAIN server
      /\ IF Talking THEN r = tftp.remote ELSE server[r].blk <= 1
      /\ tftp'.remote = r /\ tftp'.port = tftp.port /\ Talking' /\ Kept(s2c, s2c', Used)
  BY Zenon DEF Acknowledges
<1>3. tftp.block \in Nat /\ server[r].blk \in Nat /\ size \in Nat
  BY Zenon, <1>1, <1>2, TransfersTyped DEF Typed
<1>4. /\ c2s' \in Seq(Packet)
      /\ \A i \in DOMAIN c2s' :
           \/ i \in DOMAIN c2s /\ c2s'[i] = c2s[i] /\ i < Len(c2s) + 1
           \/ i = Len(c2s) + 1 /\ c2s'[i] = ACK(tftp.port, r, tftp.block)
  BY Zenon, <1>3, Acknowledged
<1>5. /\ Memory' = Memory /\ N' = N /\ Reorder' = Reorder /\ Active' = Active
      /\ Sent' = server[r].blk /\ (Talking => Sent = server[r].blk)
      /\ \A k : Number(k)' = Number(k)
  BY Zenon, <1>2 DEF Memory, N, TFTP_SEQUENCE_SIZE, Reorder, Active, Sent, Number
<1>6. Typed'
  BY Zenon, <1>1, <1>2, <1>4, <1>5 DEF Typed
<1>7. OwnPort' /\ Dialogue'
  BY Zenon, <1>3, AckPort, AckDialogue
<1>8. size' <= N' /\ FileIntact'
  BY Zenon, <1>1, <1>2, <1>5 DEF FileIntact
<1>9. /\ \A k : Talking /\ Held(k) => Held(k)'
      /\ \A k \in Int : k <= 0 => Held(k)'
  <2>1. \A k : Talking /\ Held(k) => Held(k)'
    BY Zenon, <1>2 DEF Held
  <2>2. ASSUME NEW k \in Int, k <= 0
        PROVE  Held(k)'
    <3>1. k <= size /\ 0..(k - 1) = {}
      BY <1>3, <2>2
    <3> QED
      BY Zenon, <3>1 DEF Held
  <2> QED
    BY Zenon, <2>1, <2>2
<1>10. ~Talking => tftp.block = 0
  BY Zenon, <1>1 DEF Loose, Strict
<1>11. ASSUME NEW i \in DOMAIN c2s', IsAck(c2s'[i]), c2s'[i].port = tftp.port
       PROVE  \/ /\ i \in DOMAIN c2s /\ c2s'[i] = c2s[i] /\ i < Len(c2s) + 1
                 /\ Talking /\ Ours(i)
              \/ i = Len(c2s) + 1 /\ c2s'[i].blk = tftp.block
  <2>1. \/ i \in DOMAIN c2s /\ c2s'[i] = c2s[i] /\ i < Len(c2s) + 1
        \/ i = Len(c2s) + 1 /\ c2s'[i] = ACK(tftp.port, r, tftp.block)
    BY <1>4, <1>11, Zenon
  <2>2. CASE i \in DOMAIN c2s /\ c2s'[i] = c2s[i] /\ i < Len(c2s) + 1
    BY <1>1, <1>11, <2>2, Zenon DEF Dialogue, Ours
  <2>3. CASE i = Len(c2s) + 1 /\ c2s'[i] = ACK(tftp.port, r, tftp.block)
    <3>1. ACK(tftp.port, r, tftp.block).blk = tftp.block
      BY Zenon DEF ACK
    <3> QED
      BY <2>3, <3>1, Zenon
  <2> QED
    BY Zenon, <2>1, <2>2, <2>3
<1>12. CASE Reorder
  <2>1. tftp.wrap = 0
    BY Zenon, <1>1, <1>12 DEF Loose
  <2>2. ASSUME Talking
        PROVE  /\ Held(server[r].blk - 1) /\ Held(tftp.block)
               /\ tftp.state = "DATA" => Held(tftp.last)
               /\ \A i \in DOMAIN c2s : Ours(i) => Held(c2s[i].blk)
    BY Zenon, <1>1, <1>5, <1>12, <2>2 DEF Loose, Ours
  <2>3. Held(server[r].blk - 1)' /\ Held(tftp.block)'
    <3>1. CASE Talking
      <4>1. Held(server[r].blk - 1) /\ Held(tftp.block)
        BY Zenon, <2>2, <3>1
      <4>2. Held(server'[r].blk - 1) /\ Held(tftp'.block)
        BY Zenon, <1>2, <4>1
      <4> QED
        BY Zenon, <1>9, <3>1, <4>2
    <3>2. CASE ~Talking
      <4>1. server[r].blk - 1 \in Int /\ server[r].blk - 1 <= 0
        BY <1>2, <1>3, <3>2
      <4>2. server'[r].blk - 1 \in Int /\ server'[r].blk - 1 <= 0
            /\ tftp'.block \in Int /\ tftp'.block <= 0
        BY <1>2, <1>10, <3>2, <4>1
      <4> QED
        BY Zenon, <1>9, <4>2
    <3> QED
      BY Zenon, <3>1, <3>2
  <2>4. tftp'.state = "DATA" => Held(tftp.last)'
    BY Zenon, <1>9, <2>2 DEF Talking
  <2>5. ASSUME NEW i \in DOMAIN c2s', IsAck(c2s'[i]), c2s'[i].port = tftp.port
        PROVE  Held(c2s[i].blk)'
    <3>1. CASE i \in DOMAIN c2s /\ c2s'[i] = c2s[i] /\ Talking /\ Ours(i)
      <4>1. Held(c2s[i].blk)
        BY Zenon, <2>2, <3>1
      <4> QED
        BY Zenon, <1>9, <3>1, <4>1
    <3>2. CASE c2s'[i].blk = tftp.block
      BY Zenon, <2>3, <3>2
    <3> QED
      BY Zenon, <1>11, <2>5, <3>1, <3>2
  <2>6. Held(Sent - 1)'
    BY Zenon, <1>2, <1>5, <2>3
  <2>7. Loose'
    BY <1>2, <2>1, <2>3, <2>4, <2>5, <2>6, Zenon DEF Loose, IsAck
  <2> QED
    BY Zenon, <1>5, <1>6, <1>7, <1>8, <1>12, <2>7 DEF IInv
<1>13. CASE ~Reorder
  <2>1. Strict
    BY Zenon, <1>1, <1>13
  <2>2. Got' = Got /\ Got \in Nat /\ (tftp'.state = "DATA" => tftp.state = "DATA")
    BY Zenon, <1>1, <1>13 DEF Got, Typed
  <2>3. ASSUME ~Talking
        PROVE  Got = 0 /\ server[r].blk <= 1
    BY Zenon, <1>2, <2>3 DEF Talking, Got
  <2>4. ASSUME Talking
        PROVE  /\ server[r].blk \in {Got, Got + 1} /\ Held(Got) /\ tftp.block = Number(Got)
               /\ tftp.state = "DATA" => /\ Got >= 1 /\ tftp.last = Number(Got)
                                         /\ tftp.wrap = Got - Number(Got)
    BY Zenon, <1>5, <2>1, <2>4 DEF Strict
  <2>5. InOrder'
    BY Zenon, <1>2, <2>1, OrderKept DEF Strict
  <2>6. Number(0) = 0
    <3>1. TFTP_SEQUENCE_SIZE \in Nat \ {0}
      BY Zenon, <1>1, SetupTyped DEF Typed
    <3>2. 0 \in 0..(TFTP_SEQUENCE_SIZE - 1)
      BY <3>1
    <3> QED
      BY Zenon, <3>1, <3>2, SmallNumber DEF Number
  <2>7. Sent' \in {Got', Got' + 1} /\ Held(Got)' /\ tftp'.block = Number(Got)'
    <3>1. CASE Talking
      <4>1. Held(Got)'
        BY Zenon, <1>9, <2>2, <2>4, <3>1
      <4> QED
        BY Zenon, <1>5, <2>2, <2>4, <3>1, <4>1
    <3>2. CASE ~Talking
      <4>1. Got' <= 0 /\ Got' \in Int
        BY <2>2, <2>3, <3>2
      <4>2. Held(Got)'
        BY Zenon, <1>9, <4>1
      <4>3. server[r].blk \in {0, 1}
        BY <1>3, <2>3, <3>2
      <4> QED
        BY <1>5, <1>10, <2>2, <2>3, <2>6, <3>2, <4>2, <4>3
    <3> QED
      BY Zenon, <3>1, <3>2
  <2>8. tftp'.state = "DATA" => /\ Got' >= 1 /\ tftp'.last = Number(Got)'
                                /\ tftp'.wrap = Got' - Number(Got)'
    BY Zenon, <1>5, <2>2, <2>4 DEF Talking
  <2>9. ASSUME NEW i \in DOMAIN s2c', IsReply(s2c'[i]), s2c'[i].tid = tftp'.remote
        PROVE  Got' <= s2c'[i].blk
    <3>1. PICK f \in [DOMAIN s2c' -> Nat] : \A k \in DOMAIN s2c' :
              \/ f[k] \in DOMAIN s2c /\ s2c'[k] = s2c[f[k]]
              \/ ~IsAck(s2c'[k]) /\ ~IsReply(s2c'[k]) /\ s2c'[k].port <= Used
      BY <1>2, Zenon DEF Kept
    <3>2. f[i] \in DOMAIN s2c /\ s2c'[i] = s2c[f[i]]
      BY Zenon, <2>9, <3>1
    <3>3. CASE Talking
      <4>1. s2c[f[i]].tid = tftp.remote
        BY Zenon, <1>2, <2>9, <3>2, <3>3
      <4> QED
        BY <2>1, <2>2, <2>9, <3>2, <3>3, <4>1, Zenon DEF Strict
    <3>4. CASE ~Talking
      <4>1. s2c'[i].blk \in Nat
        BY Zenon, <2>9, PacketsTyped
      <4> QED
        BY <2>2, <2>3, <3>4, <4>1
    <3> QED
      BY Zenon, <3>3, <3>4
  <2>10. ASSUME NEW i \in DOMAIN c2s', Ours(i)'
         PROVE  \/ c2s'[i].blk = Number(Got)'
                \/ Sent' = Got' /\ Got' > 0 /\ c2s'[i].blk = Number(Got - 1)'
    <3>1. IsAck(c2s'[i]) /\ c2s'[i].port = tftp.port
      BY Zenon, <1>2, <2>10 DEF Ours, IsAck
    <3>2. CASE i \in DOMAIN c2s /\ c2s'[i] = c2s[i] /\ Talking /\ Ours(i)
      <4>1. \/ c2s[i].blk = Number(Got)
            \/ Sent = Got /\ Got > 0 /\ c2s[i].blk = Number(Got - 1)
        BY <2>1, <3>2, Zenon DEF Strict
      <4> QED
        BY Zenon, <1>5, <2>2, <3>2, <4>1
    <3>3. CASE c2s'[i].blk = tftp.block
      BY Zenon, <2>7, <3>3
    <3> QED
      BY Zenon, <1>11, <2>10, <3>1, <3>2, <3>3
  <2>11. ASSUME NEW i \in DOMAIN c2s', NEW j \in DOMAIN c2s', i < j,
                Ours(i)', Ours(j)', c2s'[i].blk = Number(Got)'
         PROVE  c2s'[j].blk = Number(Got)'
    <3>1. /\ IsAck(c2s'[i]) /\ c2s'[i].port = tftp.port
          /\ IsAck(c2s'[j]) /\ c2s'[j].port = tftp.port
      BY Zenon, <1>2, <2>11 DEF Ours, IsAck
    <3>2. CASE c2s'[j].blk = tftp.block
      BY Zenon, <2>7, <3>2
    <3>3. CASE j \in DOMAIN c2s /\ c2s'[j] = c2s[j] /\ j < Len(c2s) + 1 /\ Talking /\ Ours(j)
      <4>1. i # Len(c2s) + 1
        <5>1. DOMAIN c2s' \subseteq Nat
          BY <1>4
        <5>2. Len(c2s) \in Nat
          BY <1>1 DEF Typed
        <5> QED
          BY <2>11, <3>3, <5>1, <5>2
      <4>2. i \in DOMAIN c2s /\ c2s'[i] = c2s[i] /\ Ours(i)
        BY <1>11, <2>11, <3>1, <4>1, Zenon
      <4>3. c2s[i].blk = Number(Got)
        BY Zenon, <1>5, <2>2, <2>11, <4>2
      <4>4. c2s[j].blk = Number(Got)
        BY <2>1, <2>11, <3>3, <4>2, <4>3, Zenon DEF Strict
      <4> QED
        BY Zenon, <1>5, <2>2, <3>3, <4>4
    <3> QED
      BY <1>11, <2>11, <3>1, <3>2, <3>3, Zenon
  <2>12. Strict'
    BY <1>2, <2>5, <2>7, <2>8, <2>9, <2>10, <2>11, Zenon DEF Strict, IsReply
  <2> QED
    BY Zenon, <1>5, <1>6, <1>7, <1>8, <1>13, <2>12 DEF IInv
<1> QED
  BY Zenon, <1>12, <1>13

(* TFTP has waited too long.                                               *)
LEMMA TimeoutStep ==
  ASSUME IInv, TftpTimeout
  PROVE  IInv'
<1>1. Typed /\ OwnPort /\ Dialogue /\ (Reorder => tftp.wrap = 0)
  BY Zenon DEF IInv, Loose
<1>2. /\ net_state = "CONTINUE" /\ timer = "tftp"
      /\ tftp' = [tftp EXCEPT !.timeouts = @ + 1]
      /\ UNCHANGED <<setup, at, ether, mem, size, s2c, server>>
  BY Zenon DEF TftpTimeout, bounds
<1>3. /\ tftp' \in [state: {"SEND_RRQ", "OACK", "DATA"}, block: Nat, last: Nat,
                    wrap: Nat, timeouts: Nat, remote: Nat, port: Nat]
      /\ tftp'.state = tftp.state /\ tftp'.remote = tftp.remote /\ tftp'.port = tftp.port
      /\ tftp'.wrap = tftp.wrap /\ tftp'.last = tftp.last /\ tftp'.block = tftp.block
      /\ tftp.timeouts + 1 \in Nat /\ tftp' = [tftp EXCEPT !.timeouts = tftp.timeouts + 1]
  <2>1. tftp.timeouts + 1 \in Nat
    BY <1>1 DEF Typed
  <2> QED
    BY Zenon, <1>1, <1>2, <2>1 DEF Typed
<1>4. Talking' = Talking /\ Used' = Used /\ Active
  BY Zenon, <1>2, <1>3 DEF Talking, Used, Active
<1>5. s2c' \in Seq(Packet) /\ Kept(s2c, s2c', Used)
  BY Zenon, <1>1, <1>2, KeptSame DEF Typed
<1>6. CASE NetStartAgain /\ UNCHANGED <<c2s, arp, tx>>
  <2>1. arp' \in [wait: BOOLEAN, try: Nat] /\ arp' = arp
    BY Zenon, <1>1, <1>6 DEF Typed
  <2> QED
    BY Zenon, <1>1, <1>2, <1>3, <1>4, <1>5, <1>6, <2>1, GiveUpStep
<1>7. CASE TftpSend(tftp') /\ UNCHANGED <<net_state, handler, timer, NetTryCount, eth>>
  <2>1. tftp.port \in Nat /\ tftp.remote \in Nat /\ tftp.block \in Nat /\ 1 <= tftp.port
        /\ setup \in Setups /\ c2s \in Seq(Packet)
    BY Zenon, <1>1 DEF Typed, OwnPort
  <2>2. CASE Talking
    <3>1. ether
      BY Zenon, <1>1, <2>2 DEF OwnPort, Talking
    <3>2. TftpPacket(tftp') = ACK(tftp.port, tftp.remote, tftp.block)
      BY Zenon, <1>3, <2>2 DEF TftpPacket, Talking
    <3>3. /\ c2s' = Push(c2s, ACK(tftp.port, tftp.remote, tftp.block))
          /\ tx' = ACK(tftp.port, tftp.remote, tftp.block) /\ arp' = arp
      BY Zenon, <1>7, <3>1, <3>2 DEF TftpSend, NetSendUDPPacket
    <3>4. tx' \in Packet
      BY Zenon, <2>1, <3>3, PacketForms
    <3>5. tftp.remote \in DOMAIN server /\ server[tftp.remote].port = tftp.port
      BY <1>1, <2>2, Zenon DEF Dialogue
    <3>6. /\ UNCHANGED <<setup, ether, arp, NetTryCount, server>>
          /\ net_state' # "RESTART" /\ timer' # "again"
      BY Zenon, <1>2, <1>7, <3>3
    <3>7. Acknowledges(tftp.remote, tftp.block)
      BY <1>3, <1>4, <1>5, <2>2, <3>1, <3>3, <3>5, <3>6, Zenon DEF Acknowledges
    <3>8. UNCHANGED <<net_state, at, handler, timer, mem, size>>
      BY Zenon, <1>2, <1>7
    <3> QED
      BY Zenon, <1>3, <1>4, <1>5, <3>4, <3>7, <3>8, RepeatStep
  <2>3. CASE ~Talking
    <3>1. TftpPacket(tftp') = RRQ(tftp.port)
      BY Zenon, <1>3, <2>3 DEF TftpPacket, Talking
    <3>2. /\ tx' = RRQ(tftp.port)
          /\ IF ether THEN c2s' = Push(c2s, RRQ(tftp.port)) /\ arp' = arp
                      ELSE c2s' = Push(c2s, ArpAsk) /\ arp' = [wait |-> TRUE, try |-> 1]
      BY Zenon, <1>7, <3>1 DEF TftpSend, NetSendUDPPacket
    <3>3. /\ RRQ(tftp.port) \in Packet /\ ~IsAck(RRQ(tftp.port)) /\ ~IsReply(RRQ(tftp.port))
          /\ ArpAsk \in Packet /\ ~IsAck(ArpAsk) /\ ~IsReply(ArpAsk)
          /\ RRQ(tftp.port).port = tftp.port /\ ArpAsk.port = 0
      BY Zenon, <2>1, PacketForms
    <3>4. c2s' \in Seq(Packet) /\ Kept(c2s, c2s', Used')
      <4>1. CASE ether
        <5>1. RRQ(tftp.port).port <= Used'
          BY <1>4, <2>1, <3>3, <4>1 DEF Used
        <5>2. c2s' = Push(c2s, RRQ(tftp.port))
          BY Zenon, <3>2, <4>1
        <5>3. Push(c2s, RRQ(tftp.port)) \in Seq(Packet)
              /\ Kept(c2s, Push(c2s, RRQ(tftp.port)), Used')
          BY Zenon, <2>1, <3>3, <5>1, Pushed, KeptPushed
        <5> QED
          BY Zenon, <5>2, <5>3
      <4>2. CASE ~ether
        <5>1. ArpAsk.port <= Used'
          BY <1>4, <2>1, <3>3, <4>2 DEF Used
        <5>2. c2s' = Push(c2s, ArpAsk)
          BY Zenon, <3>2, <4>2
        <5>3. Push(c2s, ArpAsk) \in Seq(Packet) /\ Kept(c2s, Push(c2s, ArpAsk), Used')
          BY Zenon, <2>1, <3>3, <5>1, Pushed, KeptPushed
        <5> QED
          BY Zenon, <5>2, <5>3
      <4> QED
        BY Zenon, <4>1, <4>2
    <3>5. ether' \in BOOLEAN /\ ether' = ether /\ tx' \in Packet
      BY Zenon, <1>1, <1>2, <3>2, <3>3 DEF Typed
    <3>6. arp' \in [wait: BOOLEAN, try: Nat] /\ (arp'.wait => ~ether')
      <4>1. CASE ether
        <5>1. arp' = arp /\ arp \in [wait: BOOLEAN, try: Nat]
          BY Zenon, <1>1, <3>2, <4>1 DEF Typed
        <5>2. ~arp.wait
          BY <1>1, <4>1, Zenon DEF OwnPort
        <5> QED
          BY Zenon, <5>1, <5>2
      <4>2. CASE ~ether
        <5>1. arp' = [wait |-> TRUE, try |-> 1]
          BY <3>2, <4>2, Zenon
        <5>2. arp' \in [wait: BOOLEAN, try: Nat]
          BY Zenon, <5>1
        <5> QED
          BY <3>5, <4>2, <5>2, Zenon
      <4> QED
        BY Zenon, <4>1, <4>2
    <3>7. UNCHANGED <<setup, net_state, at, handler, timer, NetTryCount, mem, size, server>>
      BY Zenon, <1>2, <1>7
    <3> QED
      BY Zenon, <1>3, <1>4, <1>5, <3>2, <3>4, <3>5, <3>6, <3>7, AskStep
  <2> QED
    BY Zenon, <2>2, <2>3
<1> QED
  BY <1>6, <1>7, Zenon DEF TftpTimeout

(* The server accepts the options of the request.                          *)
LEMMA OackStep ==
  ASSUME IInv, HandleOACK
  PROVE  IInv'
<1>1. Typed /\ OwnPort /\ Dialogue /\ IF Reorder THEN Loose ELSE Strict
  BY Zenon DEF IInv
<1>2. PICK i \in Heads(s2c) :
        /\ net_state = "CONTINUE" /\ s2c[i].type = "OACK" /\ ForMe(s2c[i])
        /\ s2c' = RemoveAt(s2c, i) /\ tftp' = GotOACK(tftp, s2c[i]) /\ TftpSend(tftp')
        /\ UNCHANGED <<setup, net_state, at, handler, timer, ether, NetTryCount,
                       mem, size, server>>
  BY Zenon DEF HandleOACK, Take, bounds
<1> DEFINE r == s2c[i].tid
<1>3. /\ i \in DOMAIN s2c /\ s2c[i] \in Packet /\ Active /\ ether
      /\ r \in DOMAIN server /\ server[r].port = tftp.port /\ s2c[i].blk = 0
      /\ IF Talking THEN r = tftp.remote ELSE server[r].blk <= 1
  BY Zenon, <1>2, Taken DEF IsReply
<1>4. r \in Nat /\ tftp.port \in Nat /\ tftp.block \in Nat
  BY Zenon, <1>1, <1>3 DEF Typed, Packet
<1>5. tftp' = [tftp EXCEPT !.state = "OACK", !.remote = r]
  BY Zenon, <1>2 DEF GotOACK
<1> HIDE DEF r
<1>6. /\ tftp' \in [state: {"SEND_RRQ", "OACK", "DATA"}, block: Nat, last: Nat,
                    wrap: Nat, timeouts: Nat, remote: Nat, port: Nat]
      /\ tftp'.state = "OACK" /\ tftp'.remote = r /\ tftp'.port = tftp.port
      /\ tftp'.wrap = tftp.wrap /\ tftp'.last = tftp.last /\ tftp'.block = tftp.block
  BY Zenon, <1>1, <1>4, <1>5 DEF Typed
<1>7. TftpPacket(tftp') = ACK(tftp.port, r, tftp.block) /\ Talking'
  BY Zenon, <1>6 DEF TftpPacket, Talking
<1>8. /\ c2s' = Push(c2s, ACK(tftp.port, r, tftp.block))
      /\ tx' = ACK(tftp.port, r, tftp.block) /\ arp' = arp
  BY Zenon, <1>2, <1>3, <1>7 DEF TftpSend, NetSendUDPPacket
<1>9. tx' \in Packet
  BY Zenon, <1>4, <1>8, PacketForms
<1>10. s2c' \in Seq(Packet) /\ Kept(s2c, s2c', Used)
  BY Zenon, <1>1, <1>2, Taking DEF Typed
<1>11. /\ UNCHANGED <<setup, ether, arp, NetTryCount, server>>
       /\ net_state' # "RESTART" /\ timer' # "again"
  BY Zenon, <1>2, <1>3, <1>8 DEF Active
<1>12. Acknowledges(r, tftp.block)
  BY <1>3, <1>6, <1>7, <1>8, <1>10, <1>11, Zenon DEF Acknowledges
<1>13. Reorder \/ tftp.state # "DATA"
  <2> SUFFICES ASSUME ~Reorder, tftp.state = "DATA" PROVE FALSE
    BY Zenon
  <2>1. Talking /\ Strict /\ r = tftp.remote
    BY Zenon, <1>1, <1>3 DEF Talking
  <2>2. Got >= 1 /\ Got \in Nat
    BY Zenon, <1>1, <1>3, <2>1 DEF Strict, Got, Typed
  <2>3. Got <= s2c[i].blk
    BY Zenon, <1>2, <1>3, <2>1 DEF Strict, IsReply, r
  <2> QED
    BY <1>3, <2>2, <2>3
<1>14. UNCHANGED <<net_state, at, handler, timer, mem, size>>
  BY Zenon, <1>2
<1> QED
  BY Zenon, <1>3, <1>6, <1>9, <1>10, <1>12, <1>13, <1>14, RepeatStep

-----------------------------------------------------------------------------
(* A block of data that is stored and acknowledged.                        *)
Stores(i) ==
  /\ i \in Heads(s2c) /\ net_state = "CONTINUE" /\ s2c[i].type = "DATA" /\ ForMe(s2c[i])
  /\ First(tftp) => Number(s2c[i].blk) = 1
  /\ ~First(tftp) => Number(s2c[i].blk) # tftp.last
  /\ s2c' = RemoveAt(s2c, i)
  /\ tftp' = [Looked(tftp, s2c[i]) EXCEPT !.last = Looked(tftp, s2c[i]).block]
  /\ at' = s2c[i].blk
  /\ store_block(Looked(tftp, s2c[i]).block - 1 + Looked(tftp, s2c[i]).wrap, s2c[i])
  /\ TftpSend(Looked(tftp, s2c[i]))
  /\ IF s2c[i].blk = N
     THEN net_state' = "SUCCESS" /\ timer' = "none" /\ handler' = FALSE
     ELSE timer' = "tftp" /\ UNCHANGED <<net_state, handler>>
  /\ UNCHANGED <<setup, ether, NetTryCount, server>>

(* What such a block does to the client.                                   *)
LEMMA Stored ==
  ASSUME IInv, NEW i, Stores(i)
  PROVE  LET p == s2c[i]
         IN  /\ p.blk \in 1..N /\ Active /\ p.tid \in Nat /\ i \in DOMAIN s2c
             /\ tftp'.state = "DATA" /\ tftp'.block = Number(p.blk)
             /\ tftp'.last = Number(p.blk) /\ tftp'.wrap = p.blk - Number(p.blk)
             /\ tftp'.wrap > tftp.wrap => at' = tftp'.wrap
             /\ ~Talking => p.blk = 1 /\ server[p.tid].blk = 1
             /\ ~Reorder /\ Talking => p.blk = Got + 1 /\ Sent = Got + 1
             /\ Reorder => tftp'.wrap = 0 /\ Number(p.blk) = p.blk
             /\ p.blk <= server[p.tid].blk /\ server[p.tid].blk \in Nat
             /\ Number(p.blk) \in Nat
             /\ mem' = [mem EXCEPT ![p.blk - 1] = <<p.tid, p.blk>>]
             /\ size' = IF size < p.blk THEN p.blk ELSE size
             /\ Acknowledges(p.tid, Number(p.blk)) /\ Typed'
<1> DEFINE p == s2c[i]
           u == Looked(tftp, p)
<1>1. Typed /\ OwnPort
  BY Zenon DEF IInv
<1>2. /\ i \in Heads(s2c) /\ net_state = "CONTINUE" /\ p.type = "DATA" /\ ForMe(p)
      /\ First(tftp) => Number(p.blk) = 1
      /\ ~First(tftp) => Number(p.blk) # tftp.last
      /\ s2c' = RemoveAt(s2c, i) /\ tftp' = [u EXCEPT !.last = u.block] /\ at' = p.blk
      /\ store_block(u.block - 1 + u.wrap, p) /\ TftpSend(u)
      /\ UNCHANGED <<setup, ether, NetTryCount, server>>
  BY Zenon DEF Stores
<1>3. /\ IF p.blk = N
         THEN net_state' = "SUCCESS" /\ timer' = "none" /\ handler' = FALSE
         ELSE timer' = "tftp" /\ UNCHANGED <<net_state, handler>>
  BY Zenon DEF Stores
<1>4. /\ p.blk \in 1..N
      /\ u.state = "DATA" /\ u.remote = p.tid /\ u.port = tftp.port
      /\ u.block = Number(p.blk) /\ u.wrap = p.blk - Number(p.blk)
      /\ u.wrap > tftp.wrap => p.blk = u.wrap
      /\ ~Talking => p.blk = 1 /\ server[p.tid].blk = 1
      /\ ~Reorder /\ Talking => p.blk = Got + 1 /\ Sent = Got + 1
      /\ Reorder => u.wrap = 0 /\ Number(p.blk) = p.blk
      /\ u \in [state: {"SEND_RRQ", "OACK", "DATA"}, block: Nat, last: Nat,
                wrap: Nat, timeouts: Nat, remote: Nat, port: Nat]
  BY <1>2, DataPlace, Zenon
<1>5. /\ i \in DOMAIN s2c /\ p \in Packet /\ Active /\ handler /\ ether
      /\ p.tid \in DOMAIN server /\ server[p.tid].port = tftp.port
      /\ p.blk <= server[p.tid].blk /\ server[p.tid].blk \in Nat
      /\ IF Talking THEN p.tid = tftp.remote ELSE server[p.tid].blk <= 1
  BY Zenon, <1>2, Taken DEF IsReply
<1>6. p.tid \in Nat /\ p.blk \in Nat
  BY Zenon, <1>5 DEF Packet
<1> HIDE DEF u
<1>7. Number(p.blk) \in Nat /\ N \in Nat /\ TFTP_SEQUENCE_SIZE \in Nat
      /\ N + TFTP_SEQUENCE_SIZE - 1 >= N
  <2>1. Number(p.blk) \in Nat
    BY Zenon, <1>4
  <2>2. N \in Nat /\ TFTP_SEQUENCE_SIZE \in Nat \ {0, 1}
    BY Zenon, <1>1, SetupTyped DEF Typed
  <2> QED
    BY <2>1, <2>2
<1>8. /\ tftp'.state = "DATA" /\ tftp'.remote = p.tid /\ tftp'.port = tftp.port
      /\ tftp'.block = u.block /\ tftp'.last = u.block /\ tftp'.wrap = u.wrap
      /\ tftp' \in [state: {"SEND_RRQ", "OACK", "DATA"}, block: Nat, last: Nat,
                    wrap: Nat, timeouts: Nat, remote: Nat, port: Nat]
  BY Zenon, <1>2, <1>4
<1> HIDE DEF p
<1>9. u.block - 1 + u.wrap = p.blk - 1 /\ p.blk - 1 \in Memory /\ p.blk - 1 + 1 = p.blk
  <2>1. Number(p.blk) - 1 + (p.blk - Number(p.blk)) = p.blk - 1
    BY <1>6, <1>7
  <2>2. p.blk - 1 \in 0..(N + TFTP_SEQUENCE_SIZE - 1) /\ p.blk - 1 + 1 = p.blk
    BY <1>4, <1>7
  <2> QED
    BY Zenon, <1>4, <2>1, <2>2 DEF Memory
<1>10. /\ mem' = [mem EXCEPT ![p.blk - 1] = <<p.tid, p.blk>>]
       /\ size' = IF size < p.blk THEN p.blk ELSE size
  BY Zenon, <1>2, <1>9 DEF store_block
<1>11. mem' \in [Memory -> Nat \X Nat] /\ size' \in Nat
  BY Zenon, <1>1, <1>6, <1>9, <1>10 DEF Typed
<1>12. TftpPacket(u) = ACK(tftp.port, p.tid, Number(p.blk)) /\ Talking'
  BY Zenon, <1>4, <1>8 DEF TftpPacket, Talking
<1>13. /\ c2s' = Push(c2s, ACK(tftp.port, p.tid, Number(p.blk)))
       /\ tx' = ACK(tftp.port, p.tid, Number(p.blk)) /\ arp' = arp
  BY Zenon, <1>2, <1>5, <1>12 DEF TftpSend, NetSendUDPPacket
<1>14. s2c' \in Seq(Packet) /\ Kept(s2c, s2c', Used)
  BY Zenon, <1>1, <1>2, Taking DEF Typed
<1>15. /\ UNCHANGED <<setup, ether, arp, NetTryCount, server>>
       /\ net_state' # "RESTART" /\ timer' # "again"
  <2>1. net_state' # "RESTART" /\ timer' # "again"
    BY Zenon, <1>2, <1>3
  <2> QED
    BY Zenon, <1>2, <1>13, <2>1
<1>16. Acknowledges(p.tid, Number(p.blk))
  BY <1>5, <1>8, <1>12, <1>13, <1>14, <1>15, Zenon DEF Acknowledges
<1>17. c2s' \in Seq(Packet)
  BY Zenon, <1>7, <1>16, Acknowledged
<1>18. tx' \in Packet
  <2>1. tftp.port \in Nat
    BY Zenon, <1>1 DEF Typed
  <2> QED
    BY Zenon, <1>6, <1>7, <1>13, <2>1, PacketForms
<1>19. Typed'
  <2>1. Memory' = Memory
    BY Zenon, <1>2 DEF Memory, N, TFTP_SEQUENCE_SIZE
  <2>2. handler' \in BOOLEAN /\ at' \in Nat
    BY Zenon, <1>1, <1>2, <1>3, <1>6 DEF Typed
  <2>3. /\ setup' \in Setups /\ ether' \in BOOLEAN /\ arp' \in [wait: BOOLEAN, try: Nat]
        /\ NetTryCount' \in Nat /\ server' \in Seq([port: Nat, tid: Nat, blk: Nat])
    BY Zenon, <1>1, <1>15 DEF Typed
  <2> QED
    BY Zenon, <1>8, <1>11, <1>14, <1>17, <1>18, <2>1, <2>2, <2>3 DEF Typed
<1> QED
  BY <1>2, <1>4, <1>5, <1>6, <1>7, <1>8, <1>10, <1>16, <1>19, Zenon DEF p

(* On a network that reorders: what was in memory stays there, and what    *)
(* the server has sent before the block was.                               *)
LEMMA DataLoose ==
  ASSUME IInv, NEW i, Stores(i), Reorder, NEW b, b = s2c[i].blk, NEW r, r = s2c[i].tid
  PROVE  Loose' /\ Held(b)'
<1>1. Typed /\ Loose /\ Dialogue /\ size \in Nat /\ size <= N
  BY Zenon DEF IInv, Typed
<1>2. /\ b \in 1..N /\ Active /\ r \in Nat
      /\ tftp'.state = "DATA" /\ tftp'.block = b /\ tftp'.last = b /\ tftp'.wrap = 0
      /\ ~Talking => b = 1 /\ server[r].blk = 1
      /\ b <= server[r].blk /\ server[r].blk \in Nat
      /\ mem' = [mem EXCEPT ![b - 1] = <<r, b>>]
      /\ size' = IF size < b THEN b ELSE size
      /\ Acknowledges(r, b)
  BY Zenon, Stored
<1>3. /\ server' = server /\ r \in DOMAIN server /\ (Talking => r = tftp.remote)
      /\ tftp'.remote = r /\ tftp'.port = tftp.port /\ Talking'
  BY Zenon, <1>2 DEF Acknowledges
<1>4. b \in Nat /\ b >= 1
  BY Zenon, <1>1, <1>2, Sizes
<1>5. mem \in [Memory -> Nat \X Nat]
  BY Zenon, <1>1 DEF Typed
<1>6. ASSUME NEW k \in Int, k <= size' ,
             \A j \in 0..(k - 1) : j = b - 1 \/ (Talking /\ mem[j] = <<r, j + 1>>)
      PROVE  Held(k)'
  <2>1. ASSUME NEW j \in 0..(k - 1)
        PROVE  mem'[j] = <<r, j + 1>>
    <3>1. N \in Nat /\ TFTP_SEQUENCE_SIZE \in Nat
      BY Zenon, <1>1, SetupTyped DEF Typed
    <3>2. j \in Memory
      <4>1. size' <= N
        <5>1. b <= N /\ size <= N /\ size' = IF size < b THEN b ELSE size
          BY <1>1, <1>2, <3>1
        <5> QED
          BY Zenon, <5>1
      <4>2. size' \in Nat /\ TFTP_SEQUENCE_SIZE >= 1
        BY Zenon, <1>1, <1>2, <1>4, Sizes
      <4>3. j \in 0..(N + TFTP_SEQUENCE_SIZE - 1)
        BY <1>6, <2>1, <3>1, <4>1, <4>2
      <4> QED
        BY Zenon, <4>3 DEF Memory
    <3>3. CASE j = b - 1
      <4>1. b = j + 1
        BY <1>4, <3>3
      <4> QED
        BY Zenon, <1>2, <1>5, <3>2, <3>3, <4>1
    <3>4. CASE j # b - 1
      BY Zenon, <1>2, <1>5, <1>6, <2>1, <3>2, <3>4
    <3> QED
      BY Zenon, <3>3, <3>4
  <2> QED
    BY Zenon, <1>3, <1>6, <2>1 DEF Held
<1>7. ASSUME NEW k \in Int, Talking, Held(k)
      PROVE  Held(k)'
  <2>1. k <= size /\ \A j \in 0..(k - 1) : mem[j] = <<r, j + 1>>
    BY Zenon, <1>3, <1>7 DEF Held
  <2>2. k <= size'
    BY <1>1, <1>2, <1>4, <2>1
  <2> QED
    BY Zenon, <1>6, <1>7, <2>1, <2>2
<1>8. Held(server[r].blk - 1)'
  <2>1. server[r].blk - 1 \in Int
    BY <1>2
  <2>2. CASE Talking
    <3>1. Held(server[r].blk - 1)
      BY Zenon, <1>1, <1>2, <1>3, <2>2 DEF Loose, Sent
    <3>2. Held(server'[r].blk - 1) /\ server'[r].blk - 1 \in Int
      BY Zenon, <1>3, <2>1, <3>1
    <3> QED
      BY Zenon, <1>7, <2>2, <3>2
  <2>3. CASE ~Talking
    <3>1. server'[r].blk - 1 = 0 /\ 0 <= size' /\ 0..(0 - 1) = {}
      BY <1>1, <1>2, <1>3, <1>4, <2>3
    <3> QED
      BY Zenon, <3>1 DEF Held
  <2> QED
    BY Zenon, <2>2, <2>3
<1>9. Held(b)'
  <2>1. b <= size'
    BY <1>1, <1>2, <1>4
  <2>2. ASSUME NEW j \in 0..(b - 1), j # b - 1
        PROVE  Talking /\ mem[j] = <<r, j + 1>>
    <3>1. Talking
      BY <1>2, <1>4, <2>2
    <3>2. Held(server[r].blk - 1)
      BY Zenon, <1>1, <1>2, <1>3, <3>1 DEF Loose, Sent
    <3>3. j \in 0..(server[r].blk - 1 - 1)
      BY <1>2, <1>4, <2>2
    <3> QED
      BY Zenon, <1>3, <3>1, <3>2, <3>3 DEF Held
  <2> QED
    BY <1>4, <1>6, <2>1, <2>2
<1>10. ASSUME NEW j \in DOMAIN c2s', IsAck(c2s'[j]), c2s'[j].port = tftp.port
       PROVE  Held(c2s[j].blk)'
  <2>1. \/ j \in DOMAIN c2s /\ c2s'[j] = c2s[j]
        \/ c2s'[j] = ACK(tftp.port, r, b)
    <3>1. \A k \in DOMAIN c2s' :
            \/ k \in DOMAIN c2s /\ c2s'[k] = c2s[k] /\ k < Len(c2s) + 1
            \/ k = Len(c2s) + 1 /\ c2s'[k] = ACK(tftp.port, r, b)
      BY <1>2, <1>4, Acknowledged, Zenon
    <3> QED
      BY <1>10, <3>1, Zenon
  <2>2. CASE j \in DOMAIN c2s /\ c2s'[j] = c2s[j]
    <3>1. Talking
      BY <1>1, <1>10, <2>2, Zenon DEF Dialogue
    <3>2. Held(c2s[j].blk)
      BY <1>1, <1>2, <1>10, <2>2, <3>1, Zenon DEF Loose
    <3>3. c2s[j].blk \in Nat
      BY Zenon, <1>1, <2>2, PacketsTyped DEF Typed
    <3>4. c2s'[j].blk \in Int /\ Held(c2s'[j].blk)
      BY <2>2, <3>2, <3>3
    <3> QED
      BY Zenon, <1>7, <3>1, <3>4
  <2>3. CASE c2s'[j] = ACK(tftp.port, r, b)
    <3>1. c2s'[j].blk = b
      BY <2>3 DEF ACK
    <3> QED
      BY Zenon, <1>9, <3>1
  <2> QED
    BY Zenon, <2>1, <2>2, <2>3
<1>11. Held(Sent - 1)'
  BY Zenon, <1>3, <1>8 DEF Sent
<1>12. Held(tftp.block)' /\ Held(tftp.last)'
  BY Zenon, <1>2, <1>9
<1>13. Loose'
  BY <1>2, <1>3, <1>10, <1>11, <1>12, Zenon DEF Loose, IsAck
<1> QED
  BY Zenon, <1>9, <1>13

(* On a network that keeps the order: the client has one block more, and   *)
(* the server learns of it last.                                           *)
LEMMA DataStrict ==
  ASSUME IInv, NEW i, Stores(i), ~Reorder, NEW b, b = s2c[i].blk, NEW r, r = s2c[i].tid
  PROVE  Strict' /\ Held(b)'
<1>1. Typed /\ Strict /\ Dialogue /\ size \in Nat /\ size <= N
  BY Zenon DEF IInv, Typed
<1>2. /\ b \in 1..N /\ Active /\ r \in Nat /\ i \in DOMAIN s2c /\ Number(b) \in Nat
      /\ tftp'.state = "DATA" /\ tftp'.block = Number(b) /\ tftp'.last = Number(b)
      /\ tftp'.wrap = b - Number(b)
      /\ ~Talking => b = 1 /\ server[r].blk = 1
      /\ Talking => b = Got + 1 /\ Sent = Got + 1
      /\ mem' = [mem EXCEPT ![b - 1] = <<r, b>>]
      /\ size' = IF size < b THEN b ELSE size
      /\ Acknowledges(r, Number(b))
  BY Zenon, Stored
<1>3. /\ server' = server /\ setup' = setup /\ r \in DOMAIN server
      /\ (Talking => r = tftp.remote)
      /\ tftp'.remote = r /\ tftp'.port = tftp.port /\ Talking' /\ Kept(s2c, s2c', Used)
  BY Zenon, <1>2 DEF Acknowledges
<1>4. /\ at' = b /\ s2c' = RemoveAt(s2c, i) /\ i = 1 /\ IsReply(s2c[i])
      /\ s2c \in Seq(Packet)
  <2>1. /\ at' = b /\ s2c' = RemoveAt(s2c, i) /\ IsReply(s2c[i]) /\ i \in Heads(s2c)
    BY Zenon DEF Stores, IsReply
  <2>2. s2c \in Seq(Packet) /\ setup \in Setups
    BY Zenon, <1>1 DEF Typed
  <2> QED
    BY Zenon, <2>1, <2>2, HeadsIn
<1>5. Got \in Nat /\ b = Got + 1 /\ server[r].blk = b /\ Got' = b /\ b \in Nat
  <2>1. Got \in Nat /\ (~Talking => Got = 0)
    BY Zenon, <1>1 DEF Got, Typed, Talking
  <2>2. b \in Nat
    <3>1. N \in Nat /\ b \in 1..N
      BY Zenon, <1>1, <1>2, SetupTyped DEF Typed
    <3> QED
      BY <3>1
  <2>3. Got' = b
    BY Zenon, <1>2, <1>4 DEF Got
  <2>4. Talking => server[r].blk = Got + 1
    <3> SUFFICES ASSUME Talking PROVE server[r].blk = Got + 1
      BY Zenon
    <3>1. r = tftp.remote /\ Sent = Got + 1
      BY <1>2, <1>3, Zenon
    <3> QED
      BY Zenon, <3>1 DEF Sent
  <2>5. CASE Talking
    <3>1. b = Got + 1 /\ server[r].blk = Got + 1
      BY <1>2, <2>4, <2>5, Zenon
    <3> QED
      BY Zenon, <2>1, <2>2, <2>3, <3>1
  <2>6. CASE ~Talking
    <3>1. b = 1 /\ server[r].blk = 1 /\ Got = 0
      BY <1>2, <2>1, <2>6, Zenon
    <3> QED
      BY <2>3, <3>1
  <2> QED
    BY Zenon, <2>5, <2>6
<1>6. Sent' = b /\ \A k : Number(k)' = Number(k)
  BY Zenon, <1>3, <1>5 DEF Sent, Number, TFTP_SEQUENCE_SIZE
<1>7. Held(b)'
  <2>1. b <= size'
    <3>1. size' = (IF size < b THEN b ELSE size) /\ size \in Nat /\ b \in Nat
      BY Zenon, <1>1, <1>2, <1>5
    <3> QED
      BY <3>1
  <2>2. mem \in [Memory -> Nat \X Nat]
    BY Zenon, <1>1 DEF Typed
  <2>3. N \in Nat /\ TFTP_SEQUENCE_SIZE \in Nat /\ TFTP_SEQUENCE_SIZE >= 1
    BY Zenon, <1>1, Sizes
  <2>4. ASSUME NEW j \in 0..(b - 1)
        PROVE  mem'[j] = <<r, j + 1>>
    <3>1. j \in Memory
      <4>1. j \in 0..(N + TFTP_SEQUENCE_SIZE - 1)
        BY <1>2, <2>3, <2>4
      <4> QED
        BY Zenon, <4>1 DEF Memory
    <3>2. CASE j = b - 1
      <4>1. b = j + 1
        BY <1>5, <3>2
      <4> QED
        BY Zenon, <1>2, <2>2, <3>1, <3>2, <4>1
    <3>3. CASE j # b - 1
      <4>1. j \in 0..(Got - 1)
        BY <1>5, <2>4, <3>3
      <4>2. Talking
        BY <1>2, <1>5, <2>4, <3>3
      <4>3. Held(Got)
        BY Zenon, <1>1, <1>2, <4>2 DEF Strict
      <4>4. mem[j] = <<r, j + 1>>
        BY Zenon, <1>3, <4>1, <4>2, <4>3 DEF Held
      <4> QED
        BY Zenon, <1>2, <2>2, <3>1, <3>3, <4>4
    <3> QED
      BY Zenon, <3>2, <3>3
  <2> QED
    BY Zenon, <1>3, <2>1, <2>4 DEF Held
<1>8. InOrder'
  BY Zenon, <1>1, <1>3, OrderKept DEF Strict
<1>9. ASSUME NEW j \in DOMAIN s2c', IsReply(s2c'[j]), s2c'[j].tid = tftp'.remote
      PROVE  b <= s2c'[j].blk
  <2>1. j + 1 \in DOMAIN s2c /\ s2c'[j] = s2c[j + 1] /\ 1 < j + 1
    <3>1. /\ s2c' \in Seq(Packet)
          /\ LET k == IF j < 1 THEN j ELSE j + 1
             IN  k \in DOMAIN s2c /\ s2c'[j] = s2c[k]
      BY Zenon, <1>2, <1>4, <1>9, Removed
    <3>2. j \in Nat /\ j >= 1
      BY <1>9, <3>1
    <3> QED
      BY <3>1, <3>2
  <2>2. 1 \in DOMAIN s2c /\ IsReply(s2c[1]) /\ s2c[1].blk = b /\ s2c[1].tid = r
    BY Zenon, <1>2, <1>4
  <2>3. IsReply(s2c[j + 1]) /\ s2c[j + 1].tid = r
    BY Zenon, <1>3, <1>9, <2>1
  <2>4. InOrder
    BY Zenon, <1>1 DEF Strict
  <2>5. s2c[1].blk <= s2c[j + 1].blk
    BY Zenon, <2>1, <2>2, <2>3, <2>4 DEF InOrder
  <2> QED
    BY Zenon, <2>1, <2>2, <2>5
<1>10. ASSUME NEW j \in DOMAIN c2s', Ours(j)'
       PROVE  \/ j < Len(c2s) + 1 /\ c2s'[j].blk = Number(b - 1)
              \/ j = Len(c2s) + 1 /\ c2s'[j].blk = Number(b)
  <2>1. \/ j \in DOMAIN c2s /\ c2s'[j] = c2s[j] /\ j < Len(c2s) + 1
        \/ j = Len(c2s) + 1 /\ c2s'[j] = ACK(tftp.port, r, Number(b))
    BY <1>2, <1>10, Acknowledged, Zenon
  <2>2. CASE j \in DOMAIN c2s /\ c2s'[j] = c2s[j] /\ j < Len(c2s) + 1
    <3>1. Ours(j)
      BY Zenon, <1>3, <1>10, <2>2 DEF Ours, IsAck
    <3>2. Talking
      BY <1>1, <2>2, <3>1, Zenon DEF Dialogue, Ours
    <3>3. \/ c2s[j].blk = Number(Got)
          \/ Sent = Got /\ Got > 0 /\ c2s[j].blk = Number(Got - 1)
      BY <1>1, <1>2, <2>2, <3>1, <3>2, Zenon DEF Strict
    <3>4. Sent = Got + 1 /\ Got = b - 1 /\ Sent # Got
      BY <1>2, <1>5, <3>2
    <3> QED
      BY Zenon, <2>2, <3>3, <3>4
  <2>3. CASE j = Len(c2s) + 1 /\ c2s'[j] = ACK(tftp.port, r, Number(b))
    <3>1. ACK(tftp.port, r, Number(b)).blk = Number(b)
      BY Zenon DEF ACK
    <3> QED
      BY Zenon, <2>3, <3>1
  <2> QED
    BY Zenon, <2>1, <2>2, <2>3
<1>11. Number(b) # Number(b - 1)
  <2>1. TFTP_SEQUENCE_SIZE \in Nat \ {0, 1}
    BY Zenon, <1>1, SetupTyped DEF Typed
  <2>2. /\ Got % TFTP_SEQUENCE_SIZE \in 0..(TFTP_SEQUENCE_SIZE - 1)
        /\ (Got + 1) % TFTP_SEQUENCE_SIZE
             = IF Got % TFTP_SEQUENCE_SIZE = TFTP_SEQUENCE_SIZE - 1
               THEN 0 ELSE (Got % TFTP_SEQUENCE_SIZE) + 1
    BY Zenon, <1>5, <2>1, NextNumber
  <2>3. (Got + 1) % TFTP_SEQUENCE_SIZE # Got % TFTP_SEQUENCE_SIZE
    BY <2>1, <2>2
  <2>4. b = Got + 1 /\ b - 1 = Got
    BY <1>5
  <2> QED
    BY Zenon, <2>3, <2>4 DEF Number
<1>12. ASSUME NEW j \in DOMAIN c2s', Ours(j)'
       PROVE  \/ c2s'[j].blk = Number(Got)'
              \/ Sent' = Got' /\ Got' > 0 /\ c2s'[j].blk = Number(Got - 1)'
  <2>1. Got' > 0 /\ Sent' = Got' /\ Number(Got)' = Number(b) /\ Number(Got - 1)' = Number(b - 1)
    BY <1>2, <1>5, <1>6
  <2> QED
    BY <1>10, <1>12, <2>1, Zenon
<1>13. ASSUME NEW j \in DOMAIN c2s', NEW k \in DOMAIN c2s', j < k,
              Ours(j)', Ours(k)', c2s'[j].blk = Number(Got)'
       PROVE  c2s'[k].blk = Number(Got)'
  <2>1. c2s'[j].blk = Number(b) /\ Number(Got)' = Number(b)
    BY Zenon, <1>5, <1>6, <1>13
  <2>2. j = Len(c2s) + 1
    BY Zenon, <1>10, <1>11, <1>13, <2>1
  <2>3. k < Len(c2s) + 1 \/ k = Len(c2s) + 1
    BY <1>10, <1>13, Zenon
  <2>4. Len(c2s) \in Nat /\ k \in Nat
    <3>1. c2s \in Seq(Packet) /\ c2s' \in Seq(Packet)
      BY Zenon, <1>1, <1>2, Acknowledged DEF Typed
    <3> QED
      BY <1>13, <3>1
  <2> QED
    BY <1>13, <2>2, <2>3, <2>4
<1>14. /\ Sent' \in {Got', Got' + 1} /\ Held(Got)' /\ tftp'.block = Number(Got)'
       /\ Got' >= 1 /\ tftp'.last = Number(Got)' /\ tftp'.wrap = Got' - Number(Got)'
  BY <1>2, <1>5, <1>6, <1>7
<1>15. ASSUME NEW j \in DOMAIN s2c', IsReply(s2c'[j]), s2c'[j].tid = tftp'.remote
       PROVE  Got' <= s2c'[j].blk
  BY Zenon, <1>5, <1>9, <1>15
<1>16. Strict'
  BY <1>3, <1>8, <1>12, <1>13, <1>14, <1>15, Zenon DEF Strict, IsReply
<1> QED
  BY Zenon, <1>7, <1>16

(* The next block of the file arrives.                                     *)
LEMMA DataStep ==
  ASSUME IInv, HandleData
  PROVE  IInv'
<1>1. PICK i \in Heads(s2c) : Stores(i)
  BY Zenon DEF HandleData, Stores, Take, bounds
<1>2. PICK b, r : b = s2c[i].blk /\ r = s2c[i].tid
  BY Zenon
<1>3. /\ b \in 1..N /\ Active /\ Number(b) \in Nat
      /\ size' = IF size < b THEN b ELSE size
      /\ Acknowledges(r, Number(b)) /\ Typed'
  BY Zenon, <1>1, <1>2, Stored
<1>4. OwnPort' /\ Dialogue'
  BY Zenon, <1>3, AckPort, AckDialogue DEF Typed
<1>5. setup' = setup /\ server' = server /\ r \in DOMAIN server /\ tftp'.remote = r
  BY Zenon, <1>3 DEF Acknowledges
<1>6. N' = N /\ Reorder' = Reorder
  BY Zenon, <1>5 DEF N, Reorder
<1>7. Held(b)' /\ IF Reorder' THEN Loose' ELSE Strict'
  BY Zenon, <1>1, <1>2, <1>6, DataLoose, DataStrict
<1>8. N \in Nat /\ size \in Nat /\ size <= N
  BY Zenon, SetupTyped DEF IInv, Typed
<1>9. size' <= N' /\ (b = N => size' = N')
  BY <1>3, <1>6, <1>8
<1>10. FileIntact'
  <2> SUFFICES ASSUME net_state' = "SUCCESS"
               PROVE  size' = N' /\ \E t \in DOMAIN server' : \A j \in 0..(N' - 1) :
                                      mem'[j] = <<t, j + 1>>
    BY Zenon DEF FileIntact
  <2>1. net_state = "CONTINUE" /\ (s2c[i].blk # N => net_state' = net_state)
    BY <1>1, Zenon DEF Stores
  <2>2. b = N
    BY Zenon, <1>2, <2>1
  <2>3. \A j \in 0..(N' - 1) : mem'[j] = <<r, j + 1>>
    BY Zenon, <1>5, <1>6, <1>7, <2>2 DEF Held
  <2> QED
    BY Zenon, <1>5, <1>9, <2>2, <2>3
<1> QED
  BY Zenon, <1>3, <1>4, <1>7, <1>9, <1>10 DEF IInv

-----------------------------------------------------------------------------
(* A step in which the server sends a packet of its transfer t, an old one *)
(* or a new one.                                                           *)
Serves(t) ==
  /\ UNCHANGED <<client, setup>>
  /\ c2s' \in Seq(Packet) /\ Kept(c2s, c2s', Used)
  /\ server' \in Seq([port: Nat, tid: Nat, blk: Nat])
  /\ DOMAIN server' = DOMAIN server \cup {t}
  /\ \A x \in DOMAIN server :
       /\ server'[x].port = server[x].port /\ server[x].blk <= server'[x].blk
       /\ x # t => server'[x] = server[x]
  /\ server'[t].tid = t /\ server'[t].port <= Used /\ server'[t].blk <= N
  /\ server'[t].port = tftp.port /\ ~(Talking /\ t = tftp.remote) => server'[t].blk <= 1
  /\ s2c' = Push(s2c, Reply(server'[t]))

(* What the step leaves alone.                                             *)
LEMMA ServesQuiet ==
  ASSUME NEW t, Serves(t)
  PROVE  /\ UNCHANGED <<setup, net_state, tftp, at, handler, timer, ether, arp, tx,
                        NetTryCount, mem, size>>
         /\ N' = N /\ Memory' = Memory /\ Reorder' = Reorder /\ Used' = Used
         /\ Talking' = Talking /\ Active' = Active /\ Got' = Got
         /\ \A k : Held(k)' <=> Held(k)
         /\ \A k : Number(k)' = Number(k)
<1>1. UNCHANGED <<setup, net_state, tftp, at, handler, timer, ether, arp, tx,
                  NetTryCount, mem, size>>
  BY Zenon DEF Serves, client
<1> QED
  BY Zenon, <1>1 DEF N, TFTP_SEQUENCE_SIZE, Memory, Reorder, Used, Talking, Active, Got, Held,
     Number

(* The packets of the server are the old ones and, last, the new answer.   *)
LEMMA Served ==
  ASSUME IInv, NEW t, Serves(t)
  PROVE  /\ Typed' /\ t \in DOMAIN server' /\ server'[t].blk \in Nat
         /\ \A i \in DOMAIN s2c' :
              \/ i \in DOMAIN s2c /\ s2c'[i] = s2c[i] /\ i < Len(s2c) + 1
              \/ /\ i = Len(s2c) + 1 /\ IsReply(s2c'[i])
                 /\ s2c'[i].tid = t /\ s2c'[i].port = server'[t].port
                 /\ s2c'[i].blk = server'[t].blk
                 /\ s2c'[i].type = "OACK" <=> s2c'[i].blk = 0
<1>1. Typed
  BY Zenon DEF IInv
<1> DEFINE S == [port: Nat, tid: Nat, blk: Nat]
<1>2. /\ server' \in Seq(S) /\ t \in DOMAIN server' /\ server'[t].tid = t
      /\ s2c' = Push(s2c, Reply(server'[t])) /\ c2s' \in Seq(Packet)
  <2>1. DOMAIN server' = DOMAIN server \cup {t}
    BY Zenon DEF Serves
  <2>2. /\ server' \in Seq(S) /\ server'[t].tid = t
        /\ s2c' = Push(s2c, Reply(server'[t])) /\ c2s' \in Seq(Packet)
    BY Zenon DEF Serves
  <2> QED
    BY Zenon, <2>1, <2>2
<1> HIDE DEF S
<1>3. server'[t] \in S
  BY <1>2
<1>4. server'[t].port \in Nat /\ server'[t].blk \in Nat /\ t \in Nat
  <2>1. server'[t].port \in Nat /\ server'[t].blk \in Nat /\ server'[t].tid \in Nat
    BY Zenon, <1>3 DEF S
  <2> QED
    BY Zenon, <1>2, <2>1
<1> DEFINE p == Reply(server'[t])
<1>5. /\ p \in Packet /\ IsReply(p) /\ p.tid = t /\ p.port = server'[t].port
      /\ p.blk = server'[t].blk /\ (p.type = "OACK" <=> p.blk = 0)
  <2>1. CASE server'[t].blk = 0
    <3>1. p = OACK(server'[t].port, t)
      BY Zenon, <1>2, <2>1 DEF Reply
    <3> QED
      BY <1>4, <2>1, <3>1 DEF OACK, Packet, IsReply
  <2>2. CASE server'[t].blk # 0
    <3>1. p = DATA(server'[t].port, t, server'[t].blk)
      BY Zenon, <1>2, <2>2 DEF Reply
    <3> QED
      BY <1>4, <2>2, <3>1 DEF DATA, Packet, IsReply
  <2> QED
    BY Zenon, <2>1, <2>2
<1>6. s2c' = Push(s2c, p)
  BY Zenon, <1>2
<1> HIDE DEF p
<1>7. s2c \in Seq(Packet) /\ setup \in Setups
  BY Zenon, <1>1 DEF Typed
<1>8. /\ s2c' \in Seq(Packet)
      /\ \A i \in DOMAIN s2c' :
           \/ i \in DOMAIN s2c /\ s2c'[i] = s2c[i]
           \/ i = Len(s2c) + 1 /\ s2c'[i] = p
  BY Zenon, <1>5, <1>6, <1>7, Pushed
<1>9. \A i \in DOMAIN s2c : i < Len(s2c) + 1
  BY <1>7
<1>10. Typed'
  <2>1. /\ UNCHANGED <<setup, tftp, at, handler, ether, arp, tx, NetTryCount, mem, size>>
        /\ Memory' = Memory
    BY Zenon, ServesQuiet
  <2> QED
    BY Zenon, <1>1, <1>2, <1>8, <2>1 DEF Typed, S
<1> QED
  BY <1>2, <1>4, <1>5, <1>8, <1>9, <1>10, Zenon

(* The answers go to the ports the requests came from.                     *)
LEMMA ServePort ==
  ASSUME IInv, NEW t, Serves(t)
  PROVE  OwnPort'
<1>1. OwnPort
  BY Zenon DEF IInv
<1>2. /\ UNCHANGED <<net_state, tftp, handler, timer, ether, arp, tx, NetTryCount>>
      /\ Used' = Used
  BY Zenon, ServesQuiet
<1>3. /\ \A x \in DOMAIN server : server'[x].port = server[x].port
      /\ DOMAIN server' = DOMAIN server \cup {t} /\ server'[t].port <= Used
      /\ Kept(c2s, c2s', Used)
  BY Zenon DEF Serves
<1>4. ASSUME NEW i \in DOMAIN c2s'
      PROVE  c2s'[i].port <= Used
  <2>1. PICK f \in [DOMAIN c2s' -> Nat] : \A k \in DOMAIN c2s' :
              \/ f[k] \in DOMAIN c2s /\ c2s'[k] = c2s[f[k]]
              \/ ~IsAck(c2s'[k]) /\ ~IsReply(c2s'[k]) /\ c2s'[k].port <= Used
    BY <1>3, Zenon DEF Kept
  <2>2. CASE f[i] \in DOMAIN c2s /\ c2s'[i] = c2s[f[i]]
    BY Zenon, <1>1, <2>2 DEF OwnPort
  <2> QED
    BY Zenon, <1>4, <2>1, <2>2
<1>5. ASSUME NEW i \in DOMAIN s2c'
      PROVE  s2c'[i].port <= Used
  <2>1. \/ i \in DOMAIN s2c /\ s2c'[i] = s2c[i]
        \/ s2c'[i].port = server'[t].port
    BY <1>5, Served, Zenon
  <2>2. CASE i \in DOMAIN s2c /\ s2c'[i] = s2c[i]
    BY Zenon, <1>1, <2>2 DEF OwnPort
  <2>3. CASE s2c'[i].port = server'[t].port
    BY Zenon, <1>3, <2>3
  <2> QED
    BY Zenon, <2>1, <2>2, <2>3
<1>6. ASSUME NEW x \in DOMAIN server'
      PROVE  server'[x].port <= Used
  <2>1. x = t \/ x \in DOMAIN server
    BY Zenon, <1>3, <1>6
  <2> QED
    BY <1>1, <1>3, <2>1, Zenon DEF OwnPort
<1>7. /\ 1 <= tftp.port /\ tftp.port <= NetTryCount
      /\ net_state = "RESTART" \/ timer = "again" => tftp.port < NetTryCount
      /\ timer = "again" => ~handler
      /\ ~ether => tftp.state = "SEND_RRQ"
      /\ arp.wait => ~ether /\ tx = RRQ(tftp.port)
  BY <1>1, Zenon DEF OwnPort
<1>8. /\ 1 <= tftp'.port /\ tftp'.port <= NetTryCount'
      /\ net_state' = "RESTART" \/ timer' = "again" => tftp'.port < NetTryCount'
      /\ timer' = "again" => ~handler'
      /\ ~ether' => tftp'.state = "SEND_RRQ"
      /\ arp'.wait => ~ether' /\ tx' = RRQ(tftp.port)'
  BY Zenon, <1>2, <1>7 DEF RRQ
<1> QED
  BY <1>2, <1>4, <1>5, <1>6, <1>8, Zenon DEF OwnPort

(* The answers belong to their transfers, and come in the order of the     *)
(* blocks.                                                                 *)
LEMMA ServeDialogue ==
  ASSUME IInv, NEW t, Serves(t)
  PROVE  Dialogue' /\ (InOrder => InOrder')
<1>1. Typed /\ Dialogue
  BY Zenon DEF IInv
<1>2. tftp' = tftp /\ N' = N /\ Talking' = Talking
  BY Zenon, ServesQuiet
<1>3. /\ \A x \in DOMAIN server :
           /\ server'[x].port = server[x].port /\ server[x].blk <= server'[x].blk
           /\ x # t => server'[x] = server[x]
      /\ DOMAIN server' = DOMAIN server \cup {t}
      /\ server'[t].tid = t /\ server'[t].blk <= N
      /\ server'[t].port = tftp.port /\ ~(Talking /\ t = tftp.remote) => server'[t].blk <= 1
      /\ Kept(c2s, c2s', Used)
  BY Zenon DEF Serves
<1>4. DOMAIN server \subseteq DOMAIN server' /\ t \in DOMAIN server'
      /\ \A x \in DOMAIN server' : x = t \/ x \in DOMAIN server
  BY Zenon, <1>3
<1>5. ASSUME NEW x \in DOMAIN server
      PROVE  /\ server[x].blk \in Nat /\ server'[x].blk \in Nat
             /\ server[x].blk <= server'[x].blk
  BY Zenon, <1>1, <1>3, <1>4, <1>5, Served, TransfersTyped
<1>6. ASSUME NEW i \in DOMAIN c2s', IsAck(c2s'[i])
      PROVE  /\ c2s'[i].tid \in DOMAIN server' /\ server'[c2s'[i].tid].port = c2s'[i].port
             /\ c2s'[i].port = tftp.port => Talking /\ c2s'[i].tid = tftp.remote
  <2>1. PICK f \in [DOMAIN c2s' -> Nat] : \A k \in DOMAIN c2s' :
              \/ f[k] \in DOMAIN c2s /\ c2s'[k] = c2s[f[k]]
              \/ ~IsAck(c2s'[k]) /\ ~IsReply(c2s'[k]) /\ c2s'[k].port <= Used
    BY <1>3, Zenon DEF Kept
  <2>2. f[i] \in DOMAIN c2s /\ c2s'[i] = c2s[f[i]]
    BY Zenon, <1>6, <2>1
  <2>3. /\ c2s'[i].tid \in DOMAIN server /\ server[c2s'[i].tid].port = c2s'[i].port
        /\ c2s'[i].port = tftp.port => Talking /\ c2s'[i].tid = tftp.remote
    <3>1. PICK k : k = f[i]
      BY Zenon
    <3>2. k \in DOMAIN c2s /\ c2s'[i] = c2s[k] /\ IsAck(c2s[k])
      BY Zenon, <1>6, <2>2, <3>1
    <3>3. \A j \in DOMAIN c2s : IsAck(c2s[j]) =>
            /\ c2s[j].tid \in DOMAIN server /\ server[c2s[j].tid].port = c2s[j].port
            /\ c2s[j].port = tftp.port => Talking /\ c2s[j].tid = tftp.remote
      BY Zenon, <1>1 DEF Dialogue
    <3>4. /\ c2s[k].tid \in DOMAIN server /\ server[c2s[k].tid].port = c2s[k].port
          /\ c2s[k].port = tftp.port => Talking /\ c2s[k].tid = tftp.remote
      BY Zenon, <3>2, <3>3
    <3> QED
      BY Zenon, <3>2, <3>4
  <2> QED
    BY Zenon, <1>3, <1>4, <2>3
<1>7. ASSUME NEW i \in DOMAIN s2c, IsReply(s2c[i])
      PROVE  /\ s2c[i].tid \in DOMAIN server /\ server'[s2c[i].tid].port = s2c[i].port
             /\ s2c[i].blk <= server'[s2c[i].tid].blk
             /\ s2c[i].type = "OACK" <=> s2c[i].blk = 0
  <2>1. /\ s2c[i].tid \in DOMAIN server /\ server[s2c[i].tid].port = s2c[i].port
        /\ s2c[i].blk <= server[s2c[i].tid].blk
        /\ s2c[i].type = "OACK" <=> s2c[i].blk = 0
    BY <1>1, <1>7, Zenon DEF Dialogue
  <2>2. s2c[i].blk \in Nat
    BY Zenon, <1>1, <1>7, PacketsTyped DEF Typed
  <2>3. s2c[i].blk <= server'[s2c[i].tid].blk
    BY <1>5, <2>1, <2>2
  <2> QED
    BY <1>3, <2>1, <2>3, Zenon
<1>8. ASSUME NEW i \in DOMAIN s2c', IsReply(s2c'[i])
      PROVE  /\ s2c'[i].tid \in DOMAIN server' /\ server'[s2c'[i].tid].port = s2c'[i].port
             /\ s2c'[i].blk <= server'[s2c'[i].tid].blk
             /\ s2c'[i].type = "OACK" <=> s2c'[i].blk = 0
  <2>1. \/ i \in DOMAIN s2c /\ s2c'[i] = s2c[i]
        \/ /\ s2c'[i].tid = t /\ s2c'[i].port = server'[t].port
           /\ s2c'[i].blk = server'[t].blk
           /\ s2c'[i].type = "OACK" <=> s2c'[i].blk = 0
    BY <1>8, Served, Zenon
  <2>2. CASE i \in DOMAIN s2c /\ s2c'[i] = s2c[i]
    BY Zenon, <1>4, <1>7, <1>8, <2>2
  <2>3. CASE /\ s2c'[i].tid = t /\ s2c'[i].port = server'[t].port
             /\ s2c'[i].blk = server'[t].blk
             /\ s2c'[i].type = "OACK" <=> s2c'[i].blk = 0
    <3>1. server'[t].blk \in Nat
      BY Zenon, Served
    <3> QED
      BY <1>4, <2>3, <3>1
  <2> QED
    BY Zenon, <2>1, <2>2, <2>3
<1>9. ASSUME NEW x \in DOMAIN server'
      PROVE  /\ server'[x].tid = x /\ server'[x].blk <= N
             /\ server'[x].port = tftp.port /\ ~(Talking /\ x = tftp.remote)
                  => server'[x].blk <= 1
  <2>1. CASE x = t
    BY <1>3, <2>1, Zenon
  <2>2. CASE x # t /\ x \in DOMAIN server
    BY <1>1, <1>3, <2>2, Zenon DEF Dialogue
  <2> QED
    BY Zenon, <1>4, <1>9, <2>1, <2>2
<1>10. Talking => tftp.remote \in DOMAIN server' /\ server'[tftp.remote].port = tftp.port
  <2>1. Talking => tftp.remote \in DOMAIN server /\ server[tftp.remote].port = tftp.port
    BY <1>1, Zenon DEF Dialogue
  <2> QED
    BY Zenon, <1>3, <1>4, <2>1
<1>11. Dialogue'
  BY <1>2, <1>6, <1>8, <1>9, <1>10, Zenon DEF Dialogue, IsAck, IsReply
<1>12. ASSUME InOrder, NEW i \in DOMAIN s2c', NEW j \in DOMAIN s2c', i < j,
              IsReply(s2c'[i]), IsReply(s2c'[j]), s2c'[i].tid = s2c'[j].tid
       PROVE  s2c'[i].blk <= s2c'[j].blk
  <2>1. \/ i \in DOMAIN s2c /\ s2c'[i] = s2c[i] /\ i < Len(s2c) + 1
        \/ i = Len(s2c) + 1
    BY <1>12, Served, Zenon
  <2>2. \/ j \in DOMAIN s2c /\ s2c'[j] = s2c[j] /\ j < Len(s2c) + 1
        \/ j = Len(s2c) + 1 /\ s2c'[j].tid = t /\ s2c'[j].blk = server'[t].blk
    BY <1>12, Served, Zenon
  <2>3. i \in Nat /\ j \in Nat /\ Len(s2c) \in Nat
    <3>1. s2c \in Seq(Packet) /\ s2c' \in Seq(Packet)
      BY Zenon, <1>1, Served DEF Typed
    <3> QED
      BY <1>12, <3>1
  <2>4. i \in DOMAIN s2c /\ s2c'[i] = s2c[i]
    BY <1>12, <2>1, <2>2, <2>3
  <2>5. CASE j \in DOMAIN s2c /\ s2c'[j] = s2c[j]
    BY Zenon, <1>12, <2>4, <2>5 DEF InOrder
  <2>6. CASE s2c'[j].tid = t /\ s2c'[j].blk = server'[t].blk
    BY Zenon, <1>7, <1>12, <2>4, <2>6
  <2> QED
    BY Zenon, <2>2, <2>5, <2>6
<1>13. InOrder => InOrder'
  BY <1>12, Zenon DEF InOrder, IsReply
<1> QED
  BY Zenon, <1>11, <1>13

(* The server may send a block when the client has the one before it.      *)
LEMMA ServeStep ==
  ASSUME IInv, NEW t, Serves(t),
         Active /\ Talking /\ Reorder => Held(Sent - 1)',
         Active /\ Talking /\ ~Reorder =>
           /\ Sent' \in {Got, Got + 1}
           /\ \/ Sent' = Sent
              \/ \A i \in DOMAIN c2s' : Ours(i)' => c2s'[i].blk = Number(Got)
  PROVE  IInv'
<1>1. Typed /\ Dialogue /\ size <= N /\ FileIntact /\ IF Reorder THEN Loose ELSE Strict
  BY Zenon DEF IInv
<1>2. /\ UNCHANGED <<setup, net_state, tftp, at, handler, timer, ether, arp, tx,
                     NetTryCount, mem, size>>
      /\ N' = N /\ Reorder' = Reorder
      /\ Talking' = Talking /\ Active' = Active /\ Got' = Got
      /\ \A k : Held(k)' <=> Held(k)
      /\ \A k : Number(k)' = Number(k)
  BY Zenon, ServesQuiet
<1>3. Typed' /\ OwnPort' /\ Dialogue' /\ (InOrder => InOrder')
  BY Zenon, Served, ServePort, ServeDialogue
<1>4. PICK g \in [DOMAIN c2s' -> Nat] :
        /\ \A k \in DOMAIN c2s' :
             \/ g[k] \in DOMAIN c2s /\ c2s'[k] = c2s[g[k]]
             \/ ~IsAck(c2s'[k]) /\ ~IsReply(c2s'[k]) /\ c2s'[k].port <= Used
        /\ \A i, j \in DOMAIN c2s' : i < j => g[i] < g[j]
  BY Zenon DEF Serves, Kept
<1>5. size' <= N' /\ FileIntact'
  <2>1. size' <= N'
    BY Zenon, <1>1, <1>2
  <2>2. DOMAIN server \subseteq DOMAIN server'
    <3>1. DOMAIN server' = DOMAIN server \cup {t}
      BY Zenon DEF Serves
    <3> QED
      BY Zenon, <3>1
  <2>3. net_state' = "SUCCESS" => /\ size = N
          /\ \E x \in DOMAIN server : \A i \in 0..(N - 1) : mem[i] = <<x, i + 1>>
    BY Zenon, <1>1, <1>2 DEF FileIntact
  <2>4. net_state' = "SUCCESS" =>
          \E x \in DOMAIN server' : \A i \in 0..(N - 1) : mem[i] = <<x, i + 1>>
    BY Zenon, <2>2, <2>3
  <2> QED
    BY Zenon, <1>2, <2>1, <2>3, <2>4 DEF FileIntact
<1>6. ASSUME NEW i \in DOMAIN c2s', Ours(i)'
      PROVE  g[i] \in DOMAIN c2s /\ c2s'[i] = c2s[g[i]] /\ Ours(g[i])
  <2>1. g[i] \in DOMAIN c2s /\ c2s'[i] = c2s[g[i]]
    BY Zenon, <1>4, <1>6 DEF Ours
  <2> QED
    BY Zenon, <1>2, <1>6, <2>1 DEF Ours, IsAck
<1>7. CASE Reorder
  <2>1. Loose
    BY Zenon, <1>1, <1>7
  <2>2. ASSUME Active, Talking
        PROVE  /\ Held(tftp.block)' /\ (tftp'.state = "DATA" => Held(tftp.last)')
               /\ \A i \in DOMAIN c2s' : Ours(i)' => Held(c2s[i].blk)'
    <3>1. /\ Held(tftp.block) /\ (tftp.state = "DATA" => Held(tftp.last))
          /\ \A i \in DOMAIN c2s : Ours(i) => Held(c2s[i].blk)
      BY <2>1, <2>2, Zenon DEF Loose, Ours
    <3>2. Held(tftp.block)' /\ (tftp'.state = "DATA" => Held(tftp.last)')
      BY Zenon, <1>2, <3>1
    <3>3. ASSUME NEW i \in DOMAIN c2s', Ours(i)'
          PROVE  Held(c2s[i].blk)'
      <4>1. Held(c2s'[i].blk)
        BY Zenon, <1>6, <3>1, <3>3
      <4> QED
        BY Zenon, <1>2, <4>1
    <3> QED
      BY Zenon, <3>2, <3>3
  <2>3. tftp'.wrap = 0 /\ (Active /\ ~Talking => tftp'.block = 0)
    BY Zenon, <1>2, <2>1 DEF Loose
  <2>4. Loose'
    BY <1>2, <1>7, <2>2, <2>3, Zenon DEF Loose, Ours
  <2> QED
    BY Zenon, <1>2, <1>3, <1>5, <1>7, <2>4 DEF IInv
<1>8. CASE ~Reorder
  <2>1. Strict /\ InOrder'
    BY Zenon, <1>1, <1>3, <1>8 DEF Strict
  <2>2. Active /\ ~Talking => tftp'.block = 0
    BY Zenon, <1>2, <2>1 DEF Strict
  <2>3. ASSUME Active, Talking
        PROVE  /\ Sent' \in {Got', Got' + 1} /\ Held(Got)' /\ tftp'.block = Number(Got)'
               /\ tftp'.state = "DATA" => /\ Got' >= 1 /\ tftp'.last = Number(Got)'
                                          /\ tftp'.wrap = Got' - Number(Got)'
    <3>1. /\ Held(Got) /\ tftp.block = Number(Got)
          /\ tftp.state = "DATA" => /\ Got >= 1 /\ tftp.last = Number(Got)
                                    /\ tftp.wrap = Got - Number(Got)
      BY <2>1, <2>3, Zenon DEF Strict
    <3>2. Sent' \in {Got', Got' + 1}
      BY Zenon, <1>2, <1>8, <2>3
    <3> QED
      BY Zenon, <1>2, <3>1, <3>2
  <2>4. ASSUME Active, Talking, NEW i \in DOMAIN s2c', IsReply(s2c'[i]),
               s2c'[i].tid = tftp'.remote
        PROVE  Got' <= s2c'[i].blk
    <3>1. \/ i \in DOMAIN s2c /\ s2c'[i] = s2c[i]
          \/ s2c'[i].tid = t /\ s2c'[i].blk = server'[t].blk
      BY <2>4, Served, Zenon
    <3>2. CASE i \in DOMAIN s2c /\ s2c'[i] = s2c[i]
      BY Zenon, <1>2, <2>1, <2>4, <3>2 DEF Strict
    <3>3. CASE s2c'[i].tid = t /\ s2c'[i].blk = server'[t].blk
      <4>1. s2c'[i].blk = Sent'
        BY Zenon, <2>4, <3>3 DEF Sent
      <4>2. Got' \in Nat
        BY Zenon, <1>1, <1>2 DEF Got, Typed
      <4>3. Sent' = Got' \/ Sent' = Got' + 1
        BY Zenon, <2>3, <2>4
      <4>4. \A x \in Nat : x <= x /\ x <= x + 1
        OBVIOUS
      <4> QED
        BY <4>1, <4>2, <4>3, <4>4, Zenon
    <3> QED
      BY Zenon, <3>1, <3>2, <3>3
  <2>5. ASSUME Active, Talking, NEW i \in DOMAIN c2s', Ours(i)'
        PROVE  \/ c2s'[i].blk = Number(Got)'
               \/ Sent' = Got' /\ Got' > 0 /\ c2s'[i].blk = Number(Got - 1)'
    <3>1. \/ c2s[g[i]].blk = Number(Got)
          \/ Sent = Got /\ Got > 0 /\ c2s[g[i]].blk = Number(Got - 1)
      BY <1>6, <2>1, <2>5, Zenon DEF Strict
    <3>2. Sent' = Sent \/ c2s'[i].blk = Number(Got)
      BY Zenon, <1>8, <2>5
    <3>3. c2s'[i] = c2s[g[i]]
      BY Zenon, <1>6, <2>5
    <3>4. Number(Got)' = Number(Got) /\ Number(Got - 1)' = Number(Got - 1) /\ Got' = Got
      BY Zenon, <1>2
    <3> QED
      BY Zenon, <3>1, <3>2, <3>3, <3>4
  <2>6. ASSUME Active, Talking, NEW i \in DOMAIN c2s', NEW j \in DOMAIN c2s', i < j,
               Ours(i)', Ours(j)', c2s'[i].blk = Number(Got)'
        PROVE  c2s'[j].blk = Number(Got)'
    <3>1. /\ g[i] \in DOMAIN c2s /\ c2s'[i] = c2s[g[i]] /\ Ours(g[i])
          /\ g[j] \in DOMAIN c2s /\ c2s'[j] = c2s[g[j]] /\ Ours(g[j]) /\ g[i] < g[j]
      BY Zenon, <1>4, <1>6, <2>6
    <3>2. Number(Got)' = Number(Got)
      BY Zenon, <1>2
    <3>3. c2s[g[i]].blk = Number(Got)
      BY Zenon, <2>6, <3>1, <3>2
    <3>4. c2s[g[j]].blk = Number(Got)
      BY <2>1, <2>6, <3>1, <3>3, Zenon DEF Strict
    <3> QED
      BY Zenon, <3>1, <3>2, <3>4
  <2>7. Strict'
    BY <1>2, <2>1, <2>2, <2>3, <2>4, <2>5, <2>6, Zenon DEF Strict, IsReply
  <2> QED
    BY Zenon, <1>2, <1>3, <1>5, <1>8, <2>7 DEF IInv
<1> QED
  BY Zenon, <1>7, <1>8

(* The server sends its last packet of a transfer again.                   *)
LEMMA AgainStep ==
  ASSUME IInv, UNCHANGED <<client, setup, server>>, NEW t \in DOMAIN server,
         s2c' = Push(s2c, Reply(server[t])), c2s' \in Seq(Packet), Kept(c2s, c2s', Used)
  PROVE  IInv'
<1>1. Typed /\ OwnPort /\ Dialogue
  BY Zenon DEF IInv
<1>2. UNCHANGED <<client, setup>> /\ server' = server
  BY Zenon
<1>3. ASSUME NEW x \in DOMAIN server
      PROVE  server[x].blk <= server[x].blk
  BY <1>1, <1>3, TransfersTyped
<1>4. /\ server[t].tid = t /\ server[t].port <= Used /\ server[t].blk <= N
      /\ server[t].port = tftp.port /\ ~(Talking /\ t = tftp.remote) => server[t].blk <= 1
  BY <1>1, Zenon DEF OwnPort, Dialogue
<1>5. DOMAIN server = DOMAIN server \cup {t} /\ server \in Seq([port: Nat, tid: Nat, blk: Nat])
  BY Zenon, <1>1 DEF Typed
<1>6. Serves(t)
  BY <1>2, <1>3, <1>4, <1>5, Zenon DEF Serves
<1>7. Sent' = Sent
  BY Zenon DEF Sent, client
<1>8. ASSUME Active, Talking
      PROVE  /\ Reorder => Held(Sent - 1)'
             /\ ~Reorder => Sent' \in {Got, Got + 1}
  <2>1. CASE Reorder
    <3>1. Held(Sent - 1)
      BY Zenon, <1>8, <2>1 DEF IInv, Loose
    <3>2. Held(Sent' - 1)
      BY Zenon, <1>7, <3>1
    <3>3. \A k : Held(k)' <=> Held(k)
      BY Zenon, <1>6, ServesQuiet
    <3> QED
      BY Zenon, <2>1, <3>2, <3>3
  <2>2. CASE ~Reorder
    BY Zenon, <1>7, <1>8, <2>2 DEF IInv, Strict
  <2> QED
    BY Zenon, <2>1, <2>2
<1> QED
  BY Zenon, <1>6, <1>7, <1>8, ServeStep

(* The server has waited too long.                                         *)
LEMMA ResendStep ==
  ASSUME IInv, ServerResend
  PROVE  IInv'
<1>1. Typed
  BY Zenon DEF IInv
<1>2. PICK t \in DOMAIN server : s2c' = Push(s2c, Reply(server[t]))
  BY Zenon DEF ServerResend
<1>3. UNCHANGED <<client, setup, server>> /\ c2s' = c2s
  BY Zenon DEF ServerResend
<1>4. c2s' \in Seq(Packet) /\ Kept(c2s, c2s', Used)
  BY Zenon, <1>1, <1>3, KeptSame DEF Typed
<1> QED
  BY Zenon, <1>2, <1>3, <1>4, AgainStep

(* What the server does with a packet of the client.                       *)
LEMMA ServerCases ==
  ASSUME ServerReceive
  PROVE  \E i \in Heads(c2s) :
           /\ c2s' = RemoveAt(c2s, i) /\ UNCHANGED <<client, setup>>
           /\ \/ s2c' = Push(s2c, ArpAsk) /\ server' = server
              \/ /\ c2s[i].type = "RRQ"
                 /\ \E b \in {0, 1} :
                      /\ server' = Append(server, [port |-> c2s[i].port,
                                                   tid |-> Len(server) + 1, blk |-> b])
                      /\ s2c' = Push(s2c, Reply([port |-> c2s[i].port,
                                                 tid |-> Len(server) + 1, blk |-> b]))
              \/ /\ IsAck(c2s[i]) /\ Awaits(c2s[i], server[c2s[i].tid].blk)
                 /\ server[c2s[i].tid].blk < N
                 /\ server' = [server EXCEPT ![c2s[i].tid].blk = @ + 1]
                 /\ s2c' = Push(s2c, Reply(server'[c2s[i].tid]))
              \/ /\ c2s[i].tid \in DOMAIN server /\ server' = server
                 /\ s2c' = Push(s2c, Reply(server[c2s[i].tid]))
              \/ s2c' = s2c /\ server' = server
<1>1. PICK i \in Heads(c2s), oack \in Options :
        LET p == c2s[i]
            t == server[p.tid]
            new == [port |-> p.port, tid |-> Len(server) + 1,
                    blk |-> IF oack THEN 0 ELSE 1]
        IN  /\ c2s' = RemoveAt(c2s, i)
            /\ CASE p.type = "ARP" -> s2c' = Push(s2c, ArpAsk) /\ UNCHANGED server
                 [] p.type = "RRQ" /\ Len(server) < MaxTids ->
                        server' = Append(server, new) /\ s2c' = Push(s2c, Reply(new))
                 [] p.type = "ACK" /\ Awaits(p, t.blk) /\ t.blk < N ->
                        /\ server' = [server EXCEPT ![p.tid].blk = @ + 1]
                        /\ s2c' = Push(s2c, Reply(server'[p.tid]))
                 [] p.type = "ACK" /\ Awaits(p, t.blk - 1) ->
                        s2c' = Push(s2c, Reply(t)) /\ UNCHANGED server
                 [] OTHER -> UNCHANGED <<s2c, server>>
            /\ UNCHANGED <<client, bounds>>
  BY Zenon DEF ServerReceive
<1> DEFINE p == c2s[i]
           t == server[p.tid]
           b == IF oack THEN 0 ELSE 1
           new == [port |-> p.port, tid |-> Len(server) + 1, blk |-> b]
<1>2. c2s' = RemoveAt(c2s, i) /\ UNCHANGED <<client, setup>>
  BY Zenon, <1>1 DEF bounds
<1>3. b \in {0, 1}
  BY Zenon
<1>4. CASE p.type = "ARP"
  <2>1. s2c' = Push(s2c, ArpAsk) /\ server' = server
    BY Zenon, <1>1, <1>4
  <2> QED
    BY Zenon, <1>2, <2>1
<1>5. CASE p.type = "RRQ" /\ Len(server) < MaxTids
  <2>1. server' = Append(server, new) /\ s2c' = Push(s2c, Reply(new))
    BY Zenon, <1>1, <1>5
  <2> QED
    BY Zenon, <1>2, <1>3, <1>5, <2>1
<1>6. CASE p.type = "ACK" /\ Awaits(p, t.blk) /\ t.blk < N /\ ~Awaits(p, t.blk - 1)
  <2>1. /\ server' = [server EXCEPT ![p.tid].blk = @ + 1]
        /\ s2c' = Push(s2c, Reply(server'[p.tid]))
    BY Zenon, <1>1, <1>6
  <2> QED
    BY Zenon, <1>2, <1>6, <2>1 DEF IsAck
<1>7. CASE p.type = "ACK" /\ Awaits(p, t.blk - 1) /\ ~(Awaits(p, t.blk) /\ t.blk < N)
  <2>1. s2c' = Push(s2c, Reply(t)) /\ server' = server
    BY Zenon, <1>1, <1>7
  <2>2. p.tid \in DOMAIN server
    BY Zenon, <1>7 DEF Awaits
  <2> QED
    BY Zenon, <1>2, <2>1, <2>2
<1>8. CASE p.type = "ACK" /\ Awaits(p, t.blk) /\ t.blk < N /\ Awaits(p, t.blk - 1)
  <2>1. \/ /\ server' = [server EXCEPT ![p.tid].blk = @ + 1]
           /\ s2c' = Push(s2c, Reply(server'[p.tid]))
        \/ s2c' = Push(s2c, Reply(t)) /\ server' = server
    BY Zenon, <1>1, <1>8
  <2>2. p.tid \in DOMAIN server
    BY Zenon, <1>8 DEF Awaits
  <2> QED
    BY Zenon, <1>2, <1>8, <2>1, <2>2 DEF IsAck
<1>9. CASE /\ p.type # "ARP" /\ ~(p.type = "RRQ" /\ Len(server) < MaxTids)
           /\ ~(p.type = "ACK" /\ Awaits(p, t.blk) /\ t.blk < N)
           /\ ~(p.type = "ACK" /\ Awaits(p, t.blk - 1))
  <2>1. s2c' = s2c /\ server' = server
    BY Zenon, <1>1, <1>9
  <2> QED
    BY Zenon, <1>2, <2>1
<1> QED
  BY <1>4, <1>5, <1>6, <1>7, <1>8, <1>9, Zenon

(* A request opens a transfer.                                             *)
LEMMA RequestStep ==
  ASSUME IInv, NEW i \in DOMAIN c2s, NEW b \in {0, 1}, UNCHANGED <<client, setup>>,
         c2s' \in Seq(Packet), Kept(c2s, c2s', Used),
         server' = Append(server, [port |-> c2s[i].port, tid |-> Len(server) + 1, blk |-> b]),
         s2c' = Push(s2c, Reply([port |-> c2s[i].port, tid |-> Len(server) + 1, blk |-> b]))
  PROVE  IInv'
<1>1. Typed /\ OwnPort /\ Dialogue
  BY Zenon DEF IInv
<1> DEFINE S == [port: Nat, tid: Nat, blk: Nat]
<1>2. server \in Seq(S) /\ c2s \in Seq(Packet) /\ setup \in Setups
  BY Zenon, <1>1 DEF Typed
<1>3. PICK t, a, new : /\ t = Len(server) + 1 /\ a = c2s[i].port
                       /\ new = [port |-> a, tid |-> t, blk |-> b]
  BY Zenon
<1>4. a \in Nat /\ a <= Used
  BY <1>1, <1>2, <1>3, PacketsTyped, Zenon DEF OwnPort
<1>5. t \in Nat /\ b \in Nat /\ b <= 1 /\ b <= N
  BY <1>2, <1>3, SetupTyped
<1>6. new \in S /\ new.port = a /\ new.tid = t /\ new.blk = b
  BY Zenon, <1>3, <1>4, <1>5
<1> HIDE DEF S
<1>7. server' = Append(server, new) /\ s2c' = Push(s2c, Reply(new))
  BY Zenon, <1>3
<1>8. /\ server' \in Seq(S) /\ DOMAIN server' = DOMAIN server \cup {t}
      /\ server'[t] = new /\ t \notin DOMAIN server
      /\ \A x \in DOMAIN server : server'[x] = server[x]
  BY <1>2, <1>3, <1>6, <1>7
<1>9. ASSUME NEW x \in DOMAIN server
      PROVE  server[x].blk <= server[x].blk
  BY <1>1, <1>9, TransfersTyped
<1>10. Serves(t)
  BY <1>4, <1>5, <1>6, <1>7, <1>8, <1>9, Zenon DEF Serves, S
<1>11. Talking => Sent' = Sent
  <2>1. Talking => tftp.remote \in DOMAIN server
    BY <1>1, Zenon DEF Dialogue
  <2>2. tftp' = tftp
    BY Zenon DEF client
  <2> QED
    BY Zenon, <1>8, <2>1, <2>2 DEF Sent
<1>12. ASSUME Active, Talking
       PROVE  /\ Reorder => Held(Sent - 1)'
              /\ ~Reorder => Sent' \in {Got, Got + 1}
  <2>1. CASE Reorder
    <3>1. Held(Sent - 1)
      BY Zenon, <1>12, <2>1 DEF IInv, Loose
    <3>2. Held(Sent' - 1)
      BY Zenon, <1>11, <1>12, <3>1
    <3>3. \A k : Held(k)' <=> Held(k)
      BY Zenon, <1>10, ServesQuiet
    <3> QED
      BY Zenon, <2>1, <3>2, <3>3
  <2>2. CASE ~Reorder
    BY Zenon, <1>11, <1>12, <2>2 DEF IInv, Strict
  <2> QED
    BY Zenon, <2>1, <2>2
<1> QED
  BY Zenon, <1>10, <1>11, <1>12, ServeStep

(* An acknowledgement makes the server send the next block: the client has *)
(* all blocks before it.                                                   *)
LEMMA NextBlockStep ==
  ASSUME IInv, NEW i \in Heads(c2s), c2s' = RemoveAt(c2s, i), UNCHANGED <<client, setup>>,
         IsAck(c2s[i]), NEW t, t = c2s[i].tid, Awaits(c2s[i], server[t].blk),
         server[t].blk < N, server' = [server EXCEPT ![t].blk = @ + 1],
         s2c' = Push(s2c, Reply(server'[t]))
  PROVE  IInv'
<1>1. Typed /\ OwnPort /\ Dialogue /\ IF Reorder THEN Loose ELSE Strict
  BY Zenon DEF IInv
<1> DEFINE S == [port: Nat, tid: Nat, blk: Nat]
<1>2. server \in Seq(S) /\ c2s \in Seq(Packet) /\ setup \in Setups
  BY Zenon, <1>1 DEF Typed
<1>3. i \in DOMAIN c2s /\ (~Reorder => i = 1)
  BY Zenon, <1>2, HeadsIn
<1>4. c2s' \in Seq(Packet) /\ Kept(c2s, c2s', Used)
  BY Zenon, <1>1, <1>2, Taking
<1>5. /\ t \in DOMAIN server /\ server[t].port = c2s[i].port
      /\ c2s[i].port = tftp.port => Talking /\ t = tftp.remote
  BY <1>1, <1>3, Zenon DEF Dialogue
<1>6. PICK o : o = server[t].blk
  BY Zenon
<1>7. /\ o \in Nat /\ server[t].port \in Nat /\ server[t].tid \in Nat
      /\ server[t] = [port |-> server[t].port, tid |-> server[t].tid, blk |-> o]
      /\ o < N /\ c2s[i].blk = Number(o)
  <2>1. c2s[i].blk = Number(o)
    BY Zenon, <1>6 DEF Awaits
  <2> QED
    BY Zenon, <1>1, <1>5, <1>6, <2>1, TransfersTyped
<1>8. N \in Nat /\ TFTP_SEQUENCE_SIZE \in Nat \ {0, 1} /\ (Reorder => N < TFTP_SEQUENCE_SIZE)
  BY Zenon, <1>2, SetupTyped
<1>9. o + 1 \in Nat /\ o + 1 <= N /\ o <= o + 1
  BY <1>7, <1>8
<1>10. PICK new : new = [port |-> server[t].port, tid |-> server[t].tid, blk |-> o + 1]
  BY Zenon
<1>11. /\ server' = [server EXCEPT ![t] = new] /\ new \in S
       /\ new.port = server[t].port /\ new.tid = server[t].tid /\ new.blk = o + 1
  <2>1. [server[t] EXCEPT !.blk = o + 1] = new
    <3>1. PICK a, c, d : a = server[t].port /\ c = server[t].tid /\ d = o + 1
      BY Zenon
    <3>2. server[t] = [port |-> a, tid |-> c, blk |-> o] /\ new = [port |-> a, tid |-> c, blk |-> d]
      BY Zenon, <1>7, <1>10, <3>1
    <3>3. [[port |-> a, tid |-> c, blk |-> o] EXCEPT !.blk = d] = [port |-> a, tid |-> c, blk |-> d]
      BY SMT
    <3> QED
      BY Zenon, <3>1, <3>2, <3>3
  <2>2. server' = [server EXCEPT ![t] = new]
    BY Zenon, <1>6, <2>1
  <2> QED
    BY Zenon, <1>7, <1>9, <1>10, <2>2
<1> HIDE DEF S
<1>12. /\ server' \in Seq(S) /\ DOMAIN server' = DOMAIN server /\ server'[t] = new
       /\ \A x \in DOMAIN server : x # t => server'[x] = server[x]
  BY <1>2, <1>5, <1>11
<1>13. ASSUME NEW x \in DOMAIN server
       PROVE  server'[x].port = server[x].port /\ server[x].blk <= server'[x].blk
  <2>1. CASE x = t
    BY Zenon, <1>6, <1>9, <1>11, <1>12, <2>1
  <2>2. CASE x # t
    <3>1. server[x].blk \in Nat
      BY Zenon, <1>1, <1>13, TransfersTyped
    <3> QED
      BY <1>12, <1>13, <2>2, <3>1
  <2> QED
    BY Zenon, <2>1, <2>2
<1>14. server[t].tid = t /\ server[t].port <= Used
  BY <1>1, <1>5, Zenon DEF Dialogue, OwnPort
<1>15. DOMAIN server = DOMAIN server \cup {t}
  BY Zenon, <1>5
<1>16. ~(server'[t].port = tftp.port /\ ~(Talking /\ t = tftp.remote))
  BY Zenon, <1>5, <1>11, <1>12
<1>17. Serves(t)
  BY <1>4, <1>9, <1>11, <1>12, <1>13, <1>14, <1>15, <1>16, Zenon DEF Serves, S
<1>18. tftp' = tftp
  BY Zenon DEF client
<1>19. ASSUME Active, Talking, t # tftp.remote
       PROVE  /\ Reorder => Held(Sent - 1)'
              /\ ~Reorder => Sent' \in {Got, Got + 1} /\ Sent' = Sent
  <2>1. tftp.remote \in DOMAIN server
    BY <1>1, <1>19, Zenon DEF Dialogue
  <2>2. Sent' = Sent
    BY Zenon, <1>12, <1>18, <1>19, <2>1 DEF Sent
  <2>3. CASE Reorder
    <3>1. Held(Sent - 1)
      BY Zenon, <1>1, <1>19, <2>3 DEF Loose
    <3>2. Held(Sent' - 1)
      BY Zenon, <2>2, <3>1
    <3>3. \A k : Held(k)' <=> Held(k)
      BY Zenon, <1>17, ServesQuiet
    <3> QED
      BY Zenon, <2>3, <3>2, <3>3
  <2>4. CASE ~Reorder
    BY Zenon, <1>1, <1>19, <2>2, <2>4 DEF Strict
  <2> QED
    BY Zenon, <2>3, <2>4
<1>20. ASSUME Active, Talking, t = tftp.remote
       PROVE  /\ Reorder => Held(Sent - 1)'
              /\ ~Reorder => /\ Sent' \in {Got, Got + 1}
                             /\ \A j \in DOMAIN c2s' : Ours(j)' => c2s'[j].blk = Number(Got)
  <2>1. Sent = o /\ Sent' = o + 1 /\ Ours(i)
    <3>1. Sent = o /\ Sent' = o + 1
      BY Zenon, <1>6, <1>11, <1>12, <1>18, <1>20 DEF Sent
    <3>2. server[t].port = tftp.port
      BY <1>1, <1>20, Zenon DEF Dialogue
    <3> QED
      BY Zenon, <1>5, <3>1, <3>2 DEF Ours
  <2>2. CASE Reorder
    <3>1. Number(o) = o
      <4>1. o \in 0..(TFTP_SEQUENCE_SIZE - 1)
        BY <1>7, <1>8, <2>2
      <4> QED
        BY Zenon, <1>8, <4>1, SmallNumber DEF Number
    <3>2. Held(o)
      <4>1. \A j \in DOMAIN c2s : Ours(j) => Held(c2s[j].blk)
        BY Zenon, <1>1, <1>20, <2>2 DEF Loose, Ours
      <4>2. Held(c2s[i].blk) /\ c2s[i].blk = o
        BY Zenon, <1>3, <1>7, <2>1, <3>1, <4>1
      <4> QED
        BY Zenon, <4>2
    <3>3. Sent' - 1 = o
      BY <1>7, <2>1
    <3>4. \A k : Held(k)' <=> Held(k)
      BY Zenon, <1>17, ServesQuiet
    <3> QED
      BY Zenon, <2>2, <3>2, <3>3, <3>4
  <2>3. CASE ~Reorder
    <3>1. Strict /\ i = 1
      BY Zenon, <1>1, <1>3, <2>3
    <3>2. Got \in Nat
      BY Zenon, <1>1 DEF Got, Typed
    <3>3. /\ o = Got \/ o = Got + 1
          /\ \/ c2s[i].blk = Number(Got)
             \/ o = Got /\ Got > 0 /\ c2s[i].blk = Number(Got - 1)
      <4>1. /\ Sent \in {Got, Got + 1}
            /\ \/ c2s[i].blk = Number(Got)
               \/ Sent = Got /\ Got > 0 /\ c2s[i].blk = Number(Got - 1)
        BY <1>3, <1>20, <2>1, <3>1, Zenon DEF Strict
      <4> QED
        BY Zenon, <2>1, <4>1
    <3>4. \A a \in Nat : Number(a + 1) # Number(a)
      <4>1. ASSUME NEW a \in Nat
            PROVE  (a + 1) % TFTP_SEQUENCE_SIZE # a % TFTP_SEQUENCE_SIZE
        <5>1. /\ a % TFTP_SEQUENCE_SIZE \in 0..(TFTP_SEQUENCE_SIZE - 1)
              /\ (a + 1) % TFTP_SEQUENCE_SIZE
                   = IF a % TFTP_SEQUENCE_SIZE = TFTP_SEQUENCE_SIZE - 1
                     THEN 0 ELSE (a % TFTP_SEQUENCE_SIZE) + 1
          BY Zenon, <1>8, NextNumber
        <5> QED
          BY <1>8, <5>1
      <4> QED
        BY Zenon, <4>1 DEF Number
    <3>5. o = Got
      BY Zenon, <1>7, <3>2, <3>3, <3>4
    <3>6. c2s[i].blk = Number(Got)
      BY Zenon, <1>7, <3>5
    <3>7. ASSUME NEW j \in DOMAIN c2s', Ours(j)'
          PROVE  c2s'[j].blk = Number(Got)
      <4>1. j + 1 \in DOMAIN c2s /\ c2s'[j] = c2s[j + 1] /\ 1 < j + 1
        <5>1. /\ c2s' \in Seq(Packet)
              /\ LET k == IF j < 1 THEN j ELSE j + 1
                 IN  k \in DOMAIN c2s /\ c2s'[j] = c2s[k]
          BY <1>2, <1>3, <1>4, <3>1, <3>7, Removed
        <5>2. j \in Nat /\ j >= 1
          BY <3>7, <5>1
        <5> QED
          BY <5>1, <5>2
      <4>2. Ours(j + 1)
        BY Zenon, <1>18, <3>7, <4>1 DEF Ours, IsAck
      <4>3. 1 \in DOMAIN c2s /\ Ours(1) /\ c2s[1].blk = Number(Got)
        BY Zenon, <1>3, <2>1, <3>1, <3>6
      <4>4. c2s[j + 1].blk = Number(Got)
        BY Zenon, <1>20, <3>1, <4>1, <4>2, <4>3 DEF Strict
      <4> QED
        BY Zenon, <4>1, <4>4
    <3> QED
      BY Zenon, <2>1, <2>3, <3>5, <3>7
  <2> QED
    BY Zenon, <2>2, <2>3
<1> QED
  BY Zenon, <1>17, <1>19, <1>20, ServeStep

(* The server receives.                                                    *)
LEMMA ServerStep ==
  ASSUME IInv, ServerReceive
  PROVE  IInv'
<1>1. Typed /\ OwnPort /\ setup \in Setups /\ c2s \in Seq(Packet) /\ s2c \in Seq(Packet)
  BY Zenon DEF IInv, Typed
<1>2. PICK i \in Heads(c2s) :
           /\ c2s' = RemoveAt(c2s, i) /\ UNCHANGED <<client, setup>>
           /\ \/ s2c' = Push(s2c, ArpAsk) /\ server' = server
              \/ /\ c2s[i].type = "RRQ"
                 /\ \E b \in {0, 1} :
                      /\ server' = Append(server, [port |-> c2s[i].port,
                                                   tid |-> Len(server) + 1, blk |-> b])
                      /\ s2c' = Push(s2c, Reply([port |-> c2s[i].port,
                                                 tid |-> Len(server) + 1, blk |-> b]))
              \/ /\ IsAck(c2s[i]) /\ Awaits(c2s[i], server[c2s[i].tid].blk)
                 /\ server[c2s[i].tid].blk < N
                 /\ server' = [server EXCEPT ![c2s[i].tid].blk = @ + 1]
                 /\ s2c' = Push(s2c, Reply(server'[c2s[i].tid]))
              \/ /\ c2s[i].tid \in DOMAIN server /\ server' = server
                 /\ s2c' = Push(s2c, Reply(server[c2s[i].tid]))
              \/ s2c' = s2c /\ server' = server
  BY ServerCases, Zenon
<1>3. i \in DOMAIN c2s /\ c2s' \in Seq(Packet) /\ Kept(c2s, c2s', Used)
  BY Zenon, <1>1, <1>2, HeadsIn, Taking
<1>4. CASE s2c' = Push(s2c, ArpAsk) /\ server' = server
  <2>1. 0 <= Used
    BY <1>1 DEF Used, OwnPort, Typed
  <2>2. ArpAsk \in Packet /\ ~IsAck(ArpAsk) /\ ~IsReply(ArpAsk) /\ ArpAsk.port <= Used
    BY Zenon, <2>1, PacketForms
  <2>3. s2c' \in Seq(Packet) /\ Kept(s2c, s2c', Used)
    BY Zenon, <1>1, <1>4, <2>2, Pushed, KeptPushed
  <2> QED
    BY Zenon, <1>2, <1>3, <1>4, <2>3, Stutters
<1>5. CASE \E b \in {0, 1} :
             /\ server' = Append(server, [port |-> c2s[i].port,
                                          tid |-> Len(server) + 1, blk |-> b])
             /\ s2c' = Push(s2c, Reply([port |-> c2s[i].port,
                                        tid |-> Len(server) + 1, blk |-> b]))
  BY Zenon, <1>2, <1>3, <1>5, RequestStep
<1>6. CASE /\ IsAck(c2s[i]) /\ Awaits(c2s[i], server[c2s[i].tid].blk)
           /\ server[c2s[i].tid].blk < N
           /\ server' = [server EXCEPT ![c2s[i].tid].blk = @ + 1]
           /\ s2c' = Push(s2c, Reply(server'[c2s[i].tid]))
  <2>1. PICK t : t = c2s[i].tid
    BY Zenon
  <2> QED
    BY Zenon, <1>2, <1>6, <2>1, NextBlockStep
<1>7. CASE /\ c2s[i].tid \in DOMAIN server /\ server' = server
           /\ s2c' = Push(s2c, Reply(server[c2s[i].tid]))
  <2>1. PICK t \in DOMAIN server : t = c2s[i].tid
    BY Zenon, <1>7
  <2>2. UNCHANGED <<client, setup, server>> /\ s2c' = Push(s2c, Reply(server[t]))
    BY Zenon, <1>2, <1>7, <2>1
  <2> QED
    BY Zenon, <1>3, <2>1, <2>2, AgainStep
<1>8. CASE s2c' = s2c /\ server' = server
  <2>1. s2c' \in Seq(Packet) /\ Kept(s2c, s2c', Used)
    BY Zenon, <1>1, <1>8, KeptSame
  <2> QED
    BY Zenon, <1>2, <1>3, <1>8, <2>1, Stutters
<1> QED
  BY <1>2, <1>4, <1>5, <1>6, <1>7, <1>8, Zenon

-----------------------------------------------------------------------------
(* The invariant holds at the start.                                       *)
LEMMA InitIInv ==
  ASSUME Init
  PROVE  IInv
<1>1. /\ setup \in Setups /\ net_state = "CONTINUE" /\ at = 0
      /\ tftp = [state |-> "SEND_RRQ", block |-> 0, last |-> 0, wrap |-> 0,
                 timeouts |-> 0, remote |-> 0, port |-> 1]
      /\ handler = TRUE /\ timer = "tftp" /\ ether = FALSE
      /\ arp = [wait |-> TRUE, try |-> 1] /\ tx = RRQ(1) /\ NetTryCount = 1
      /\ mem = [i \in Memory |-> <<0, 0>>] /\ size = 0
      /\ c2s = <<ArpAsk>> /\ s2c = <<>> /\ server = <<>>
  BY Zenon DEF Init
<1>2. ArpAsk \in Packet /\ RRQ(1) \in Packet /\ ArpAsk.port = 0 /\ ~IsAck(ArpAsk)
  BY Zenon, PacketForms
<1>3. /\ tftp.state = "SEND_RRQ" /\ tftp.block = 0 /\ tftp.wrap = 0 /\ tftp.port = 1
      /\ arp.wait
  BY Zenon, <1>1
<1>4. /\ c2s \in Seq(Packet) /\ s2c \in Seq(Packet)
      /\ server \in Seq([port: Nat, tid: Nat, blk: Nat])
  BY <1>1, <1>2
<1>5. DOMAIN s2c = {} /\ DOMAIN server = {} /\ \A i \in DOMAIN c2s : c2s[i] = ArpAsk
  BY <1>1
<1>6. Typed
  <2>1. mem \in [Memory -> Nat \X Nat]
    BY Zenon, <1>1
  <2>2. arp \in [wait: BOOLEAN, try: Nat]
    BY Zenon, <1>1
  <2>3. tftp \in [state: {"SEND_RRQ", "OACK", "DATA"}, block: Nat, last: Nat,
                  wrap: Nat, timeouts: Nat, remote: Nat, port: Nat]
    BY Zenon, <1>1
  <2>4. at \in Nat /\ handler \in BOOLEAN /\ ether \in BOOLEAN /\ size \in Nat
        /\ NetTryCount \in Nat
    BY Zenon, <1>1
  <2> QED
    BY Zenon, <1>1, <1>2, <1>4, <2>1, <2>2, <2>3, <2>4 DEF Typed
<1>7. OwnPort
  <2>1. Used = 0
    BY <1>1, <1>3 DEF Used
  <2>2. \A i \in DOMAIN c2s : c2s[i].port <= Used
    BY <1>2, <1>5, <2>1
  <2> QED
    BY <1>1, <1>3, <1>5, <2>2 DEF OwnPort
<1>8. ~Talking
  BY Zenon, <1>3 DEF Talking
<1>9. Dialogue
  <2>1. \A i \in DOMAIN c2s : ~IsAck(c2s[i])
    BY Zenon, <1>2, <1>5
  <2> QED
    BY Zenon, <1>5, <1>8, <2>1 DEF Dialogue
<1>10. Loose /\ Strict
  BY Zenon, <1>3, <1>5, <1>8 DEF Loose, Strict, InOrder
<1>11. size <= N /\ FileIntact
  <2>1. N \in Nat
    BY Zenon, <1>1, SetupTyped
  <2> QED
    BY <1>1, <2>1 DEF FileIntact
<1> QED
  BY Zenon, <1>6, <1>7, <1>9, <1>10, <1>11 DEF IInv

(* Every step keeps it.                                                    *)
LEMMA NextIInv ==
  ASSUME IInv, [Next]_vars
  PROVE  IInv'
<1>1. CASE UNCHANGED vars
  <2>1. UNCHANGED <<client, server, setup>> /\ c2s' = c2s /\ s2c' = s2c
    BY Zenon, <1>1 DEF vars, bounds
  <2>2. c2s \in Seq(Packet) /\ s2c \in Seq(Packet)
    BY Zenon DEF IInv, Typed
  <2>3. Kept(c2s, c2s', Used) /\ Kept(s2c, s2c', Used)
    BY Zenon, <2>1, <2>2, KeptSame
  <2> QED
    BY Zenon, <2>1, <2>2, <2>3, Stutters
<1>2. CASE Restart \/ startAgainTimeout
  BY Zenon, <1>2, RestartStep
<1>3. CASE ArpReceive \/ ArpTimeoutCheck
  BY Zenon, <1>3, ArpStep, ArpTimeoutStep
<1>4. CASE Ignored \/ HandleOACK \/ HandleError
  BY Zenon, <1>4, IgnoredStep, OackStep, ErrorStep
<1>5. CASE HandleDataNotFirst \/ HandleDataSame \/ HandleData
  BY Zenon, <1>5, NotFirstStep, SameStep, DataStep
<1>6. CASE TftpTimeout \/ Abort
  BY Zenon, <1>6, TimeoutStep, AbortStep
<1>7. CASE ServerReceive \/ ServerRefuses \/ ServerResend \/ Lose
  BY Zenon, <1>7, ServerStep, RefuseStep, ResendStep, LoseStep
<1> QED
  BY <1>1, <1>2, <1>3, <1>4, <1>5, <1>6, <1>7, Zenon DEF Next

(* Whatever is lost, repeated, late or, while the block numbers last, out  *)
(* of order: a transfer that NetLoop reports as done has put every block   *)
(* of the file in its place, all from one transfer of the server.          *)
THEOREM FileIsIntact == Spec => []FileIntact
<1>1. Init => IInv
  BY Zenon, InitIInv
<1>2. IInv /\ [Next]_vars => IInv'
  BY Zenon, NextIInv
<1>3. IInv => FileIntact
  BY Zenon DEF IInv
<1> QED
  BY <1>1, <1>2, <1>3, PTL DEF Spec

-----------------------------------------------------------------------------
(* Where the offset of the lap changes.                                    *)
LEMMA LapStep ==
  ASSUME IInv, Next, tftp'.wrap > tftp.wrap
  PROVE  at' = tftp'.wrap
<1>1. Typed
  BY Zenon DEF IInv
<1>2. /\ tftp.wrap \in Nat /\ tftp'.wrap # tftp.wrap /\ tftp'.wrap # 0
      /\ tftp = [state |-> tftp.state, block |-> tftp.block, last |-> tftp.last,
                 wrap |-> tftp.wrap, timeouts |-> tftp.timeouts,
                 remote |-> tftp.remote, port |-> tftp.port]
  BY <1>1 DEF Typed
<1>3. tftp' # tftp
  BY Zenon, <1>2
<1>4. ~(Restart \/ startAgainTimeout)
  <2>1. tftp' = Started(tftp) => tftp'.wrap = tftp.wrap
    BY Zenon, <1>2 DEF Started
  <2> QED
    BY Zenon, <1>2, <2>1 DEF Restart, startAgainTimeout, TftpStart
<1>5. ~(ArpReceive \/ ArpTimeoutCheck \/ Ignored \/ HandleError \/ Abort)
  BY Zenon, <1>3 DEF ArpReceive, ArpTimeoutCheck, Ignored, HandleError, Abort, client
<1>6. ~(ServerReceive \/ ServerRefuses \/ ServerResend \/ Lose)
  BY Zenon, <1>3 DEF ServerReceive, ServerRefuses, ServerResend, Lose, client
<1>7. ~HandleOACK
  <2>1. \A p : GotOACK(tftp, p).wrap = tftp.wrap
    BY Zenon, <1>2 DEF GotOACK
  <2> QED
    BY Zenon, <1>2, <2>1 DEF HandleOACK
<1>8. ~TftpTimeout
  <2>1. [tftp EXCEPT !.timeouts = @ + 1].wrap = tftp.wrap
    BY Zenon, <1>2
  <2> QED
    BY Zenon, <1>2, <2>1 DEF TftpTimeout
<1>9. ~HandleDataNotFirst
  <2>1. ASSUME NEW p, First(tftp)
        PROVE  Looked(tftp, p).wrap = 0
    BY Zenon, <1>2, <2>1 DEF Looked, update_block_number, new_transfer
  <2> QED
    BY Zenon, <1>2, <2>1 DEF HandleDataNotFirst
<1>10. ~HandleDataSame
  <2>1. ASSUME NEW p, ~First(tftp), Number(p.blk) = tftp.last
        PROVE  Looked(tftp, p).wrap = tftp.wrap
    BY Zenon, <1>2, <2>1 DEF Looked, update_block_number
  <2> QED
    BY Zenon, <1>2, <2>1 DEF HandleDataSame
<1>11. HandleData
  BY <1>4, <1>5, <1>6, <1>7, <1>8, <1>9, <1>10, Zenon DEF Next
<1>12. PICK i \in Heads(s2c) : Stores(i)
  BY <1>11, Zenon DEF HandleData, Stores, Take, bounds
<1> QED
  BY Zenon, <1>12, Stored

(* The offset of update_block_number moves by a lap only when the block    *)
(* that arrives is the first one of that lap.                              *)
THEOREM WrapIsLap == Spec => WrapMeansWrap
<1>1. Init => IInv
  BY Zenon, InitIInv
<1>2. IInv /\ [Next]_vars => IInv'
  BY Zenon, NextIInv
<1>3. IInv /\ [Next]_vars => [tftp'.wrap > tftp.wrap => at' = tftp'.wrap]_vars
  BY Zenon, LapStep
<1> QED
  BY <1>1, <1>2, <1>3, PTL DEF Spec, WrapMeansWrap
=============================================================================
