-------------------------- MODULE SplXmodemProofs --------------------------
(***************************************************************************)
(* SplXmodem keeps its types, stores the accepted stream and programs only *)
(* erased pages, for every file, page, block and frame size, every retry   *)
(* limit and every set of faults.  With a prompt host no frame overruns    *)
(* frame[], and a download that EOT has ended has put the file into the    *)
(* flash, whatever its bytes look like and whichever of them get lost.     *)
(***************************************************************************)
EXTENDS SplXmodem, TLAPS

(* The retry counters while they can still grow.                           *)
RetriesBounded ==
  /\ xmState = "WAIT_TRANS" => ncgRetry <= NcgRetries + 1 /\ nakRetry = 0
  /\ xmState = "TRANSMIT" => nakRetry <= NakRetries + 1

(* A download is running exactly until it leaves for EXIT.                 *)
RunningOrEnded ==
  why = "running" <=> xmState \in {"ENTRY", "WAIT_TRANS", "TRANSMIT"}

(* The pages of the current block that are still to be written are erased. *)
RestErased ==
  nand_address % BlockPages # 0 /\ why = "running" =>
    \A q \in 0..(NPages - 1) :
      /\ nand_address <= q
      /\ q < nand_address - (nand_address % BlockPages) + BlockPages
      => flash[q] = Erased

(* doXmodemDownloadInit leaves nothing of an earlier download behind but   *)
(* buff_offset and nand_buff.                                              *)
EntryClean == xmState = "ENTRY" => nand_address = 0 /\ stream = <<>>

IInv ==
  /\ TypeOK /\ RetriesBounded /\ RunningOrEnded /\ EntryClean
  /\ RestErased /\ StreamStored

-----------------------------------------------------------------------------
(* Arithmetic of offsets: frame_offset wraps, page numbers advance.        *)
LEMMA ModWrap ==
  ASSUME NEW m \in Nat \ {0}, NEW x \in 0..m
  PROVE  x % m = IF x = m THEN 0 ELSE x
  OBVIOUS

(* A remainder is determined by any quotient that leaves it.               *)
LEMMA ModUnique ==
  ASSUME NEW m \in Nat \ {0}, NEW q \in Int, NEW r \in 0..(m - 1)
  PROVE  (q * m + r) % m = r
  OBVIOUS

(* The next page of a block is one further into the block.                 *)
LEMMA ModNext ==
  ASSUME NEW m \in Nat \ {0}, NEW a \in Nat, (a + 1) % m # 0
  PROVE  (a + 1) % m = (a % m) + 1
<1> DEFINE q == a \div m
           r == a % m
<1>1. q \in Int /\ r \in 0..(m - 1) /\ a = q * m + r
  OBVIOUS
<1> HIDE DEF q, r
<1>2. CASE r + 1 < m
  <2>1. (q * m + (r + 1)) % m = r + 1
    BY <1>1, <1>2, ModUnique
  <2>2. a + 1 = q * m + (r + 1)
    BY <1>1
  <2>3. (a + 1) % m = r + 1
    BY Zenon, <2>1, <2>2
  <2> QED
    BY Zenon, <2>3 DEF r
<1>3. CASE r + 1 = m
  <2>1. a + 1 = (q + 1) * m + 0
    BY <1>1, <1>3
  <2>2. ((q + 1) * m + 0) % m = 0
    BY <1>1, ModUnique
  <2> QED
    BY Zenon, <2>1, <2>2
<1> QED
  BY <1>1, <1>2, <1>3

-----------------------------------------------------------------------------
(* What a pass takes from the UART, and what the host sends, are bytes.    *)
LEMMA ArrivalTyped ==
  ASSUME TypeOK, NEW b \in Arrivals
  PROVE  b \in Seq(Byte) /\ Len(b) \in 0..1
<1>1. CASE b = <<>>
  BY <1>1
<1>2. CASE line # <<>> /\ b = <<Head(line)>>
  <2>1. Head(line) \in Byte
    BY <1>2 DEF TypeOK
  <2> QED
    BY <1>2, <2>1
<1> QED
  BY Zenon, <1>1, <1>2 DEF Arrivals

(* Consume leaves a line of bytes.                                         *)
LEMMA ConsumeTyped ==
  ASSUME TypeOK, NEW b \in Arrivals, Consume(b)
  PROVE  line' \in Seq(Byte)
<1>1. CASE b = <<>>
  BY Zenon, <1>1 DEF Consume, TypeOK
<1>2. CASE line # <<>> /\ b = <<Head(line)>>
  BY <1>2 DEF Consume, TypeOK
<1> QED
  BY Zenon, <1>1, <1>2 DEF Arrivals

(* xmGetData keeps frame and frame_offset in step, wrap included.          *)
LEMMA GotTyped ==
  ASSUME TypeOK, NEW b \in Arrivals
  PROVE  /\ GotOffset(b) \in 0..(OffsetMod - 1)
         /\ GotFrame(b) \in Seq(Byte)
         /\ Len(GotFrame(b)) = IF GotOffset(b) < FrameSize
                               THEN GotOffset(b) ELSE FrameSize
<1>1. b \in Seq(Byte) /\ Len(b) \in 0..1
  BY Zenon, ArrivalTyped
<1>2. /\ FrameSize \in Nat \ {0, 1} /\ OffsetMod \in Nat
      /\ OffsetMod > FrameSize
  BY Zenon, SizeAssumption, GeometryAssumption
<1>3. /\ frame_offset \in 0..(OffsetMod - 1) /\ frame \in Seq(Byte)
      /\ Len(frame) = IF frame_offset < FrameSize THEN frame_offset
                                                  ELSE FrameSize
  BY Zenon DEF TypeOK
<1> DEFINE l == Len(b)
<1>4. l \in 0..1
  BY Zenon, <1>1
<1> HIDE DEF l
<1>5. frame_offset + l \in 0..OffsetMod
  BY <1>2, <1>3, <1>4
<1>6. GotOffset(b) = IF frame_offset + l = OffsetMod THEN 0 ELSE frame_offset + l
  BY <1>2, <1>5, ModWrap DEF GotOffset, l
<1>7. CASE GotOffset(b) = 0
  BY <1>2, <1>7 DEF GotFrame
<1>8. CASE GotOffset(b) # 0 /\ frame_offset < FrameSize
  <2>1. GotFrame(b) = frame \o b
    BY Zenon, <1>8 DEF GotFrame
  <2>2. frame \o b \in Seq(Byte) /\ Len(frame \o b) = Len(frame) + l
    BY <1>1, <1>3 DEF l
  <2> QED
    BY <1>2, <1>3, <1>6, <1>8, <1>4, <2>1, <2>2
<1>9. CASE GotOffset(b) # 0 /\ ~(frame_offset < FrameSize)
  BY <1>2, <1>3, <1>6, <1>9, <1>4 DEF GotFrame
<1> QED
  BY Zenon, <1>3, <1>7, <1>8, <1>9

(* A frame that passes checkSohFrame carries a data field number.          *)
LEMMA CheckedTyped ==
  ASSUME TypeOK, NEW b \in Arrivals, checkSohFrame(GotFrame(b), GotOffset(b))
  PROVE  GotFrame(b)[2].n \in Blocks
<1>1. /\ GotFrame(b) \in Seq(Byte)
      /\ Len(GotFrame(b)) = FrameSize /\ FrameSize \in Nat /\ FrameSize >= 2
  BY GotTyped, SizeAssumption, GeometryAssumption DEF checkSohFrame
<1>2. GotFrame(b)[2] \in Byte
  BY <1>1
<1> QED
  BY Zenon, <1>2 DEF Byte

(* The host's frames are sequences of bytes.                               *)
LEMMA FrameTyped ==
  ASSUME NEW n \in 1..FileLen
  PROVE  Frame(n) \in Seq(Byte)
<1>1. FrameSize \in Nat /\ FrameSize >= 2 /\ FileLen \in Nat
  BY SizeAssumption, GeometryAssumption
<1>2. \A i \in 1..FrameSize : Frame(n)[i] \in Byte
  BY <1>1, ValueAssumption DEF Frame, Byte, Blocks, ByteValues
<1>3. Frame(n) = [i \in 1..FrameSize |-> Frame(n)[i]]
  BY Zenon DEF Frame
<1> HIDE DEF Frame
<1> QED
  BY <1>1, <1>2, <1>3

-----------------------------------------------------------------------------
(* program_tonand writes one page and touches no page before it.           *)
LEMMA ProgrammedPage ==
  ASSUME NEW addr \in Nat, NEW page \in Pages,
         NEW fl \in [0..(NPages - 1) -> Pages \cup {Erased}]
  PROVE  /\ program_tonand(fl, addr, page) \in [0..(NPages - 1) -> Pages \cup {Erased}]
         /\ \A p \in 0..(NPages - 1) : p < addr => program_tonand(fl, addr, page)[p] = fl[p]
         /\ addr < NPages => program_tonand(fl, addr, page)[addr] = page
  BY SizeAssumption, GeometryAssumption DEF program_tonand, nand_write_page, nand_erase

(* After a page is programmed the pages behind it in its block are erased  *)
(* if they were before, or if this was the block's first page.             *)
LEMMA ProgrammedRest ==
  ASSUME TypeOK, RestErased, why = "running", NEW page \in Pages,
         flash' = program_tonand(flash, nand_address, page),
         nand_address' = nand_address + 1
  PROVE  RestErased'
<1>1. /\ BlockPages \in Nat \ {0} /\ NPages \in Nat /\ nand_address \in Nat
  BY Zenon, SizeAssumption, GeometryAssumption DEF TypeOK
<1> DEFINE m == nand_address % BlockPages
<1> SUFFICES ASSUME (nand_address + 1) % BlockPages # 0,
                    NEW q \in 0..(NPages - 1),
                    nand_address + 1 <= q,
                    q < (nand_address + 1) - ((nand_address + 1) % BlockPages)
                          + BlockPages
             PROVE  flash'[q] = Erased
  BY Zenon DEF RestErased
<1>2. (nand_address + 1) % BlockPages = m + 1
  BY Zenon, <1>1, ModNext
<1>3. m \in Nat
  BY <1>1
<1>4. flash'[q] = IF m = 0 /\ q \in nand_address..(nand_address + BlockPages - 1)
                  THEN Erased ELSE flash[q]
  BY <1>1 DEF program_tonand, nand_write_page, nand_erase
<1> HIDE DEF m
<1>5. q < nand_address - m + BlockPages
  BY <1>1, <1>2, <1>3
<1>6. CASE m = 0
  BY <1>1, <1>4, <1>5, <1>6
<1>7. CASE m # 0
  BY <1>1, <1>4, <1>5, <1>7 DEF RestErased, m
<1> QED
  BY Zenon, <1>6, <1>7

(* try_program on one data field extends the stored stream by that field.  *)
LEMMA TryProgramStores ==
  ASSUME TypeOK, StreamStored, RestErased, why = "running", xmState # "ENTRY",
         NEW n \in Blocks, TryProgram(n), why' = why
  PROVE  /\ StreamStored' /\ RestErased'
         /\ nand_buff' \in Pages /\ buff_offset' \in 0..(PageBlocks - 1)
         /\ nand_address' \in Nat
         /\ flash' \in [0..(NPages - 1) -> Pages \cup {Erased}]
         /\ stream' \in Seq(Blocks)
<1>1. /\ PageBlocks \in Nat \ {0} /\ NPages \in Nat /\ nand_address \in Nat
      /\ buff_offset \in 0..(PageBlocks - 1)
      /\ flash \in [0..(NPages - 1) -> Pages \cup {Erased}]
  BY Zenon, SizeAssumption, GeometryAssumption DEF TypeOK
<1>2. stream \in Seq(Blocks) /\ stream' = Append(stream, n)
  BY Zenon DEF TypeOK, TryProgram
<1> DEFINE base == nand_address * PageBlocks
           buf  == [nand_buff EXCEPT ![buff_offset + 1] = n]
<1>3. base \in Nat /\ (nand_address + 1) * PageBlocks = base + PageBlocks
  BY <1>1
<1>4. /\ Len(stream) = base + buff_offset
      /\ \A p \in 0..(nand_address - 1) : p < NPages =>
           flash[p] = [i \in 1..PageBlocks |-> stream[p * PageBlocks + i]]
      /\ \A i \in 1..buff_offset : nand_buff[i] = stream[base + i]
  BY Zenon DEF StreamStored, FullPages
<1>5. buf \in Pages
  BY Zenon, <1>1 DEF TypeOK, Pages
<1>6. /\ Len(stream') = base + buff_offset + 1 /\ stream' \in Seq(Blocks)
      /\ stream'[base + buff_offset + 1] = n
      /\ \A j \in 1..(base + buff_offset) : stream'[j] = stream[j]
  BY SMTT(60), <1>1, <1>2, <1>3, <1>4
<1> HIDE DEF base
<1>7. \A i \in 1..(buff_offset + 1) : buf[i] = stream'[base + i]
  <2> SUFFICES ASSUME NEW i \in 1..(buff_offset + 1)
               PROVE  buf[i] = stream'[base + i]
    BY Zenon
  <2>0. nand_buff \in [1..PageBlocks -> Blocks]
    BY Zenon DEF TypeOK, Pages
  <2>1. CASE i = buff_offset + 1
    <3>1. buf[i] = n
      BY <1>1, <2>0, <2>1
    <3> QED
      BY <1>1, <1>3, <1>6, <2>1, <3>1
  <2>2. CASE i \in 1..buff_offset
    <3>1. buf[i] = nand_buff[i]
      BY <1>1, <2>0, <2>2
    <3>2. nand_buff[i] = stream[base + i]
      BY Zenon, <1>4, <2>2
    <3>3. base + i \in 1..(base + buff_offset)
      BY <1>1, <1>3, <2>2
    <3>4. stream'[base + i] = stream[base + i]
      BY Zenon, <1>6, <3>3
    <3> QED
      BY Zenon, <3>1, <3>2, <3>4
  <2> QED
    BY <1>1, <2>1, <2>2
<1>8. \A p \in 0..(nand_address - 1) : p < NPages =>
        flash[p] = [i \in 1..PageBlocks |-> stream'[p * PageBlocks + i]]
  <2> SUFFICES ASSUME NEW p \in 0..(nand_address - 1), p < NPages
               PROVE  flash[p] = [i \in 1..PageBlocks |-> stream'[p * PageBlocks + i]]
    BY Zenon
  <2>1. flash[p] = [i \in 1..PageBlocks |-> stream[p * PageBlocks + i]]
    BY Zenon, <1>4
  <2>2. ASSUME NEW i \in 1..PageBlocks
        PROVE  stream'[p * PageBlocks + i] = stream[p * PageBlocks + i]
    <3>1. p * PageBlocks \in Nat
      BY <1>1
    <3>2. (p + 1) * PageBlocks <= nand_address * PageBlocks
      BY <1>1
    <3>3. (p + 1) * PageBlocks = p * PageBlocks + PageBlocks
      BY <1>1
    <3>4. p * PageBlocks + i \in 1..base
      BY <1>1, <3>1, <3>2, <3>3 DEF base
    <3>5. p * PageBlocks + i \in 1..(base + buff_offset)
      BY <1>1, <1>3, <3>4
    <3> QED
      BY Zenon, <1>6, <3>5
  <2> QED
    BY Zenon, <2>1, <2>2
<1> HIDE DEF buf
<1>9. CASE buff_offset + 1 < PageBlocks
  <2>1. /\ nand_buff' = buf /\ buff_offset' = buff_offset + 1
        /\ flash' = flash /\ nand_address' = nand_address
    BY <1>1, <1>9 DEF TryProgram, buf
  <2>2. FullPages' = nand_address
    BY Zenon, <2>1 DEF FullPages
  <2>3. Len(stream') = nand_address * PageBlocks + (buff_offset + 1)
    BY <1>1, <1>3, <1>6 DEF base
  <2>4. \A i \in 1..(buff_offset + 1) : buf[i] = stream'[nand_address * PageBlocks + i]
    BY Zenon, <1>7 DEF base
  <2>5. StreamStored'
    BY Zenon, <1>8, <2>1, <2>2, <2>3, <2>4 DEF StreamStored
  <2> QED
    BY <1>1, <1>5, <1>6, <1>9, <2>1, <2>5 DEF RestErased
<1>10. CASE buff_offset + 1 = PageBlocks
  <2>1. /\ nand_buff' = buf /\ buff_offset' = 0
        /\ flash' = program_tonand(flash, nand_address, buf)
        /\ nand_address' = nand_address + 1
    BY <1>1, <1>10 DEF TryProgram, buf
  <2>2. /\ flash' \in [0..(NPages - 1) -> Pages \cup {Erased}]
        /\ \A p \in 0..(NPages - 1) : p < nand_address => flash'[p] = flash[p]
        /\ nand_address < NPages => flash'[nand_address] = buf
    BY <1>1, <1>5, <2>1, ProgrammedPage
  <2>3. RestErased'
    BY Zenon, <1>5, <2>1, ProgrammedRest
  <2> DEFINE P(p) == [i \in 1..PageBlocks |-> stream'[p * PageBlocks + i]]
  <2>4. ASSUME NEW p \in 0..nand_address, p < NPages PROVE flash'[p] = P(p)
    <3>1. CASE p = nand_address
      <4>1. flash'[p] = buf /\ buf \in [1..PageBlocks -> Blocks]
        BY Zenon, <1>1, <1>5, <2>2, <2>4, <3>1 DEF Pages
      <4>2. \A i \in 1..PageBlocks : buf[i] = stream'[p * PageBlocks + i]
        BY Zenon, <1>7, <1>10, <3>1 DEF base
      <4> QED
        BY Zenon, <4>1, <4>2
    <3>2. CASE p \in 0..(nand_address - 1)
      <4>1. flash'[p] = flash[p]
        BY <1>1, <2>2, <2>4, <3>2
      <4>2. flash[p] = P(p)
        BY Zenon, <1>8, <2>4, <3>2
      <4> QED
        BY Zenon, <4>1, <4>2
    <3> HIDE DEF P
    <3> QED
      BY <1>1, <3>1, <3>2
  <2>5. FullPages' = nand_address + 1
    BY Zenon, <2>1 DEF FullPages
  <2>6. Len(stream') = (nand_address + 1) * PageBlocks + 0
    BY <1>1, <1>3, <1>6, <1>10
  <2> HIDE DEF P
  <2>7. \A p \in 0..((nand_address + 1) - 1) : p < NPages => flash'[p] = P(p)
    BY <1>1, <2>4
  <2>8. StreamStored'
    BY <2>1, <2>5, <2>6, <2>7 DEF StreamStored, P
  <2> QED
    BY <1>1, <1>5, <1>6, <2>1, <2>2, <2>3, <2>8
<1> QED
  BY <1>1, <1>9, <1>10

(* EOT programs nand_buff behind the stored pages and changes none.        *)
LEMMA FinishStores ==
  ASSUME TypeOK, StreamStored, why = "running", xmState # "ENTRY",
         FinishProgram, why' = "eot"
  PROVE  /\ StreamStored' /\ RestErased'
         /\ nand_buff' \in Pages /\ buff_offset' \in 0..(PageBlocks - 1)
         /\ nand_address' \in Nat
         /\ flash' \in [0..(NPages - 1) -> Pages \cup {Erased}]
         /\ stream' \in Seq(Blocks)
<1>1. /\ PageBlocks \in Nat \ {0} /\ NPages \in Nat /\ nand_address \in Nat
      /\ buff_offset \in 0..(PageBlocks - 1) /\ nand_buff \in Pages
      /\ flash \in [0..(NPages - 1) -> Pages \cup {Erased}]
      /\ stream \in Seq(Blocks)
  BY Zenon, SizeAssumption, GeometryAssumption DEF TypeOK
<1>2. /\ flash' = program_tonand(flash, nand_address, nand_buff)
      /\ nand_address' = nand_address + 1
      /\ nand_buff' = nand_buff /\ buff_offset' = buff_offset /\ stream' = stream
  BY Zenon DEF FinishProgram
<1>3. /\ flash' \in [0..(NPages - 1) -> Pages \cup {Erased}]
      /\ \A p \in 0..(NPages - 1) : p < nand_address => flash'[p] = flash[p]
      /\ nand_address < NPages => flash'[nand_address] = nand_buff
  BY <1>1, <1>2, ProgrammedPage
<1>4. FullPages = nand_address /\ FullPages' = nand_address
  BY <1>1, <1>2 DEF FullPages
<1>5. /\ Len(stream) = nand_address * PageBlocks + buff_offset
      /\ \A p \in 0..(nand_address - 1) : p < NPages =>
           flash[p] = [i \in 1..PageBlocks |-> stream[p * PageBlocks + i]]
      /\ \A i \in 1..buff_offset :
           nand_buff[i] = stream[nand_address * PageBlocks + i]
  BY Zenon, <1>4 DEF StreamStored
<1>6. \A p \in 0..(nand_address - 1) : p < NPages => flash'[p] = flash[p]
  BY <1>1, <1>3
<1>7. \A p \in 0..(nand_address - 1) : p < NPages =>
        flash'[p] = [i \in 1..PageBlocks |-> stream'[p * PageBlocks + i]]
  BY Zenon, <1>2, <1>5, <1>6
<1>8. StreamStored'
  BY Zenon, <1>2, <1>3, <1>4, <1>5, <1>7 DEF StreamStored
<1>9. RestErased'
  BY Zenon DEF RestErased
<1> QED
  BY <1>1, <1>2, <1>3, <1>8, <1>9

-----------------------------------------------------------------------------
(* The initial states of a download satisfy the inductive invariant.       *)
LEMMA InitIInv == Init => IInv
<1> SUFFICES ASSUME Init PROVE IInv
  BY Zenon
<1>1. TypeOK
  BY SizeAssumption, GeometryAssumption DEF Init, TypeOK, Pages, Blocks, HostStates
<1>2. StreamStored
  BY Zenon DEF Init, StreamStored
<1> QED
  BY <1>1, <1>2, SizeAssumption, GeometryAssumption
     DEF Init, IInv, RetriesBounded, RunningOrEnded, RestErased, EntryClean

(* The answers to the host stay a sequence of answers.                     *)
LEMMA PutTyped ==
  ASSUME TypeOK, NEW c \in Answer, putData(c)
  PROVE  back' \in Seq(Answer)
  BY DEF TypeOK, putData

(* A good frame keeps the inductive invariant: its data are programmed     *)
(* before it is acknowledged.                                              *)
LEMMA GoodFrameIInv ==
  ASSUME IInv, NEW b \in Arrivals, xmState \in {"WAIT_TRANS", "TRANSMIT"},
         GoodFrame(b)
  PROVE  IInv'
<1>1. TypeOK /\ StreamStored /\ RestErased /\ why = "running"
  BY Zenon DEF IInv, RunningOrEnded
<1>2. GotFrame(b)[2].n \in Blocks
  BY Zenon, <1>1, CheckedTyped DEF GoodFrame
<1>3. TryProgram(GotFrame(b)[2].n) /\ why' = why /\ xmState # "ENTRY"
  BY Zenon DEF GoodFrame
<1>4. /\ StreamStored' /\ RestErased'
      /\ nand_buff' \in Pages /\ buff_offset' \in 0..(PageBlocks - 1)
      /\ nand_address' \in Nat
      /\ flash' \in [0..(NPages - 1) -> Pages \cup {Erased}]
      /\ stream' \in Seq(Blocks)
  BY Zenon, <1>1, <1>2, <1>3, TryProgramStores
<1>5. back' \in Seq(Answer)
  BY Zenon, <1>1, PutTyped DEF GoodFrame, Answer
<1>6. line' \in Seq(Byte)
  BY Zenon, <1>1, ConsumeTyped DEF GoodFrame
<1>7. /\ xmState' = "TRANSMIT" /\ nakRetry' = 0 /\ frame_offset' = 0
      /\ frame' = <<>>
      /\ UNCHANGED <<ncgRetry, host, faults, downloads, why>>
  BY Zenon DEF GoodFrame, countVars
<1>8. TypeOK'
  BY <1>1, <1>4, <1>5, <1>6, <1>7, SizeAssumption, GeometryAssumption DEF TypeOK
<1> QED
  BY <1>1, <1>4, <1>7, <1>8, SizeAssumption, GeometryAssumption DEF IInv, RetriesBounded,
     RunningOrEnded, EntryClean

(* A step that leaves the flash side alone and does not end the download   *)
(* with EOT keeps what is stored.                                          *)
LEMMA NandUnchanged ==
  ASSUME StreamStored, RestErased, UNCHANGED nandVars,
         xmState # "ENTRY", (why' = "eot") = (why = "eot"),
         why' = "running" => why = "running"
  PROVE  StreamStored' /\ RestErased'
<1>1. UNCHANGED <<nand_buff, buff_offset, nand_address, flash, stream>>
  BY Zenon DEF nandVars
<1>2. FullPages' = FullPages
  BY Zenon, <1>1 DEF FullPages
<1> QED
  BY Zenon, <1>1, <1>2 DEF StreamStored, RestErased

(* A timer that expires records at most one fault.                         *)
LEMMA LateTyped ==
  ASSUME NEW b, faults \in Seq(FaultKinds), Expired(b)
  PROVE  faults' \in Seq(FaultKinds)
<1>1. "slow" \in FaultKinds
  BY Zenon DEF FaultKinds
<1> QED
  BY <1>1 DEF Expired

(* The host and the line keep the inductive invariant.                     *)
LEMMA EnvIInv ==
  ASSUME IInv, UNCHANGED <<rxVars, nandVars, why, downloads>>,
         host' \in HostStates,
         line' \in Seq(Byte), back' \in Seq(Answer), faults' \in Seq(FaultKinds)
  PROVE  IInv'
<1>1. UNCHANGED <<xmState, ncgRetry, nakRetry, frame_offset, frame, nand_buff,
                  buff_offset, nand_address, flash, stream, why, downloads>>
  BY Zenon DEF rxVars, nandVars
<1>2. TypeOK'
  BY Zenon, <1>1 DEF IInv, TypeOK
<1>3. FullPages' = FullPages
  BY Zenon, <1>1 DEF FullPages
<1>4. StreamStored'
  BY Zenon, <1>1, <1>3 DEF IInv, StreamStored
<1> QED
  BY Zenon, <1>1, <1>2, <1>4 DEF IInv, RetriesBounded, RunningOrEnded, RestErased, EntryClean

(* One answer read by the host.                                            *)
LEMMA HostAnswerIInv ==
  ASSUME IInv, HostAnswer
  PROVE  IInv'
<1>1. TypeOK
  BY Zenon DEF IInv
<1>2. back' \in Seq(Answer)
  BY <1>1 DEF TypeOK, HostAnswer
<1>3. FileLen \in Nat \ {0}
  BY Zenon, SizeAssumption, GeometryAssumption
<1>4. EOT \in Byte
  BY <1>3, SizeAssumption, GeometryAssumption DEF EOT, Byte, ByteValues, Blocks
<1>5. host \in HostStates /\ host.blk \in 1..FileLen /\ line \in Seq(Byte)
  BY Zenon, <1>1 DEF TypeOK, HostStates
<1>6. host' \in HostStates /\ line' \in Seq(Byte)
  <2>1. Frame(host.blk) \in Seq(Byte)
    BY Zenon, <1>5, FrameTyped
  <2>2. CASE host' = [host EXCEPT !.st = "wait"] /\ line' = line \o Frame(host.blk)
    <3>1. line' \in Seq(Byte)
      BY <1>5, <2>1, <2>2
    <3>2. host' \in HostStates
      BY Zenon, <1>5, <2>2 DEF HostStates
    <3> QED
      BY Zenon, <3>1, <3>2
  <2>3. CASE /\ host.blk < FileLen /\ host' = [host EXCEPT !.blk = @ + 1]
             /\ line' = line \o Frame(host.blk + 1)
    <3>1. host.blk + 1 \in 1..FileLen
      BY <1>3, <1>5, <2>3
    <3>2. Frame(host.blk + 1) \in Seq(Byte)
      BY Zenon, <3>1, FrameTyped
    <3>3. line' \in Seq(Byte)
      BY <1>5, <2>3, <3>2
    <3>4. host' \in HostStates
      BY Zenon, <1>5, <2>3, <3>1 DEF HostStates
    <3> QED
      BY Zenon, <3>3, <3>4
  <2>4. CASE host' = [host EXCEPT !.st = "eot"] /\ line' = Append(line, EOT)
    <3>1. line' \in Seq(Byte)
      BY <1>4, <1>5, <2>4
    <3>2. host' \in HostStates
      BY Zenon, <1>5, <2>4 DEF HostStates
    <3> QED
      BY Zenon, <3>1, <3>2
  <2>5. CASE host' = [host EXCEPT !.st = "done"] /\ line' = line
    BY Zenon, <1>5, <2>5 DEF HostStates
  <2>6. CASE UNCHANGED <<host, line>>
    BY Zenon, <1>5, <2>6
  <2> QED
    BY Zenon, <2>2, <2>3, <2>4, <2>5, <2>6 DEF HostAnswer
<1>7. UNCHANGED <<rxVars, nandVars, why, downloads>> /\ faults' \in Seq(FaultKinds)
  BY Zenon, <1>1 DEF HostAnswer, countVars, TypeOK
<1> QED
  BY Zenon, <1>2, <1>6, <1>7, EnvIInv

-----------------------------------------------------------------------------
(* Every step of the board, the host and the line keeps the inductive      *)
(* invariant.                                                              *)
LEMMA NextIInv == IInv /\ [Next]_vars => IInv'
<1> SUFFICES ASSUME IInv, [Next]_vars PROVE IInv'
  BY Zenon
<1>1. /\ TypeOK /\ StreamStored /\ RestErased /\ RunningOrEnded
      /\ RetriesBounded /\ EntryClean
  BY Zenon DEF IInv
<1> USE DEF rxVars, nandVars, envVars, countVars
<1>2. CASE Entry
  <2>1. /\ why = "running" /\ why' = why /\ nand_address = 0 /\ stream = <<>>
        /\ xmState' = "WAIT_TRANS" /\ ncgRetry' = 0 /\ nakRetry' = 0
        /\ frame_offset' = 0 /\ frame' = <<>> /\ buff_offset' = 0
        /\ UNCHANGED <<nand_buff, nand_address, flash, stream, host, line,
                       back, faults, downloads>>
    BY Zenon, <1>1, <1>2 DEF RunningOrEnded, EntryClean, Entry
  <2>2. TypeOK'
    BY <1>1, <2>1, SizeAssumption, GeometryAssumption DEF TypeOK
  <2>3. FullPages' = 0
    BY Zenon, <2>1 DEF FullPages
  <2>4. StreamStored'
    BY <2>1, <2>3, SizeAssumption, GeometryAssumption DEF StreamStored
  <2> QED
    BY <1>1, <2>1, <2>2, <2>4, SizeAssumption, GeometryAssumption
       DEF IInv, RetriesBounded, RunningOrEnded, EntryClean, RestErased
<1>3. CASE Exit
  <2>1. StreamStored' /\ RestErased'
    BY Zenon, <1>1, <1>3, NandUnchanged DEF Exit
  <2>2. TypeOK'
    BY Zenon, <1>1, <1>3 DEF Exit, TypeOK
  <2> QED
    BY Zenon, <1>1, <1>3, <2>1, <2>2
       DEF Exit, IInv, RetriesBounded, RunningOrEnded, EntryClean
<1>4. ASSUME NEW b \in Arrivals, WaitSoh(b) \/ TransSoh(b) PROVE IInv'
  BY Zenon, <1>4, GoodFrameIInv DEF WaitSoh, TransSoh, NotEot
<1>5. ASSUME NEW b \in Arrivals, WaitKeep(b) PROVE IInv'
  <2>1. StreamStored' /\ RestErased'
    BY Zenon, <1>1, <1>5, NandUnchanged DEF WaitKeep, KeepByte
  <2>2. line' \in Seq(Byte)
    BY Zenon, <1>1, <1>5, ConsumeTyped DEF WaitKeep, KeepByte
  <2>3. TypeOK'
    BY Zenon, <1>1, <1>5, <2>2, GotTyped DEF WaitKeep, KeepByte, TypeOK
  <2> QED
    BY Zenon, <1>1, <1>5, <2>1, <2>3
       DEF WaitKeep, KeepByte, IInv, RetriesBounded, RunningOrEnded, EntryClean
<1>6. ASSUME NEW b \in Arrivals, WaitLate(b) PROVE IInv'
  <2>1. StreamStored' /\ RestErased'
    BY Zenon, <1>1, <1>6, NandUnchanged DEF WaitLate, RunningOrEnded
  <2>2. line' \in Seq(Byte)
    BY Zenon, <1>1, <1>6, ConsumeTyped DEF WaitLate
  <2>3. back' \in Seq(Answer)
    BY Zenon, <1>1, <1>6, PutTyped DEF WaitLate, Answer, TypeOK
  <2>4. faults' \in Seq(FaultKinds)
    BY Zenon, <1>1, <1>6, LateTyped DEF WaitLate, TypeOK
  <2>5. /\ frame_offset' \in 0..(OffsetMod - 1) /\ frame' \in Seq(Byte)
        /\ Len(frame') = IF frame_offset' < FrameSize THEN frame_offset' ELSE FrameSize
    <3>1. CASE frame_offset' = GotOffset(b) /\ frame' = GotFrame(b)
      BY Zenon, <1>1, <3>1, GotTyped
    <3>2. CASE frame_offset' = 0 /\ frame' = <<>>
      BY <3>2, SizeAssumption, GeometryAssumption
    <3> QED
      BY Zenon, <1>6, <3>1, <3>2 DEF WaitLate
  <2>6. /\ ncgRetry' = ncgRetry + 1 /\ xmState = "WAIT_TRANS"
        /\ \/ ncgRetry > NcgRetries /\ xmState' = "EXIT" /\ why' = "retries"
           \/ ~(ncgRetry > NcgRetries) /\ UNCHANGED <<xmState, why>>
        /\ UNCHANGED <<nakRetry, nandVars, host, downloads>>
    BY Zenon, <1>6 DEF WaitLate
  <2>7. ncgRetry' \in 0..(NcgRetries + 2) /\ (xmState' # "EXIT" => ncgRetry' <= NcgRetries + 1)
    BY <1>1, <2>6, SizeAssumption, GeometryAssumption DEF RetriesBounded, TypeOK
  <2>8. TypeOK'
    BY Zenon, <1>1, <2>2, <2>3, <2>4, <2>5, <2>6, <2>7 DEF TypeOK
  <2> QED
    BY Zenon, <1>1, <2>1, <2>6, <2>7, <2>8
       DEF IInv, RetriesBounded, RunningOrEnded, EntryClean
<1>7. ASSUME NEW b \in Arrivals, TransEot(b) PROVE IInv'
  <2>1. /\ StreamStored' /\ RestErased'
        /\ nand_buff' \in Pages /\ buff_offset' \in 0..(PageBlocks - 1)
        /\ nand_address' \in Nat
        /\ flash' \in [0..(NPages - 1) -> Pages \cup {Erased}]
        /\ stream' \in Seq(Blocks)
    BY Zenon, <1>1, <1>7, FinishStores DEF TransEot, RunningOrEnded
  <2>2. line' \in Seq(Byte)
    BY Zenon, <1>1, <1>7, ConsumeTyped DEF TransEot
  <2>3. /\ xmState' = "EXIT" /\ why' = "eot" /\ frame_offset' = 0 /\ frame' = <<>>
        /\ UNCHANGED <<ncgRetry, nakRetry, host, back, faults, downloads>>
    BY Zenon, <1>7 DEF TransEot
  <2>4. TypeOK'
    BY <1>1, <2>1, <2>2, <2>3, SizeAssumption, GeometryAssumption DEF TypeOK
  <2> QED
    BY Zenon, <1>1, <2>1, <2>3, <2>4
       DEF IInv, RetriesBounded, RunningOrEnded, EntryClean
<1>8. ASSUME NEW b \in Arrivals, TransKeep(b) PROVE IInv'
  <2>1. SecondLook(b) # "CAN"
    BY Zenon DEF SecondLook
  <2>2. /\ xmState = "TRANSMIT" /\ UNCHANGED <<xmState, why>>
        /\ frame_offset' = LeftOffset(b) /\ frame' = LeftFrame(b)
        /\ UNCHANGED <<ncgRetry, nakRetry, nandVars, host, back, countVars>>
    BY Zenon, <1>8, <2>1 DEF TransKeep, NotEot
  <2>3. StreamStored' /\ RestErased'
    BY Zenon, <1>1, <2>2, NandUnchanged
  <2>4. line' \in Seq(Byte)
    BY Zenon, <1>1, <1>8, ConsumeTyped DEF TransKeep
  <2>5. /\ frame_offset' \in 0..(OffsetMod - 1) /\ frame' \in Seq(Byte)
        /\ Len(frame') = IF frame_offset' < FrameSize THEN frame_offset' ELSE FrameSize
    BY <1>1, <2>2, GotTyped, SizeAssumption, GeometryAssumption DEF LeftOffset, LeftFrame
  <2>6. TypeOK'
    BY Zenon, <1>1, <2>2, <2>4, <2>5 DEF TypeOK
  <2> QED
    BY Zenon, <1>1, <2>2, <2>3, <2>6
       DEF IInv, RetriesBounded, RunningOrEnded, EntryClean
<1>9. ASSUME NEW b \in Arrivals, TransLate(b) PROVE IInv'
  <2>1. StreamStored' /\ RestErased'
    BY Zenon, <1>1, <1>9, NandUnchanged DEF TransLate, NotEot, RunningOrEnded
  <2>2. line' \in Seq(Byte)
    BY Zenon, <1>1, <1>9, ConsumeTyped DEF TransLate
  <2>3. back' \in Seq(Answer)
    BY Zenon, <1>1, <1>9, PutTyped DEF TransLate, Answer, TypeOK
  <2>4. faults' \in Seq(FaultKinds)
    BY Zenon, <1>1, <1>9, LateTyped DEF TransLate, TypeOK
  <2>5. /\ nakRetry' = nakRetry + 1 /\ xmState = "TRANSMIT"
        /\ frame_offset' = 0 /\ frame' = <<>>
        /\ \/ nakRetry > NakRetries /\ xmState' = "EXIT" /\ why' = "retries"
           \/ ~(nakRetry > NakRetries) /\ UNCHANGED <<xmState, why>>
        /\ UNCHANGED <<ncgRetry, nandVars, host, downloads>>
    BY Zenon, <1>9 DEF TransLate, NotEot
  <2>6. nakRetry' \in 0..(NakRetries + 2) /\ (xmState' # "EXIT" => nakRetry' <= NakRetries + 1)
    BY <1>1, <2>5, SizeAssumption, GeometryAssumption DEF RetriesBounded, TypeOK
  <2>7. TypeOK'
    BY <1>1, <2>2, <2>3, <2>4, <2>5, <2>6, SizeAssumption, GeometryAssumption DEF TypeOK
  <2> QED
    BY Zenon, <1>1, <2>1, <2>5, <2>6, <2>7
       DEF IInv, RetriesBounded, RunningOrEnded, EntryClean
<1>10. CASE doXmodemDownloadInit
  <2>1. /\ xmState' = "ENTRY" /\ nand_address' = 0 /\ stream' = <<>>
        /\ why' = "running" /\ downloads' = downloads + 1
        /\ host' = [st |-> "idle", blk |-> 1] /\ line' = <<>> /\ back' = <<>>
        /\ UNCHANGED <<ncgRetry, nakRetry, frame_offset, frame, nand_buff,
                       buff_offset, flash, faults>>
    BY Zenon, <1>10 DEF doXmodemDownloadInit
  <2>2. TypeOK'
    BY <1>1, <2>1, SizeAssumption, GeometryAssumption DEF TypeOK, HostStates
  <2> QED
    BY <2>1, <2>2, SizeAssumption, GeometryAssumption
       DEF IInv, RetriesBounded, RunningOrEnded, EntryClean, RestErased, StreamStored
<1>11. CASE HostStart \/ HostGiveUp
  <2>1. host' \in HostStates
    BY Zenon, <1>1, <1>11 DEF HostStart, HostGiveUp, TypeOK, HostStates
  <2>2. /\ line' \in Seq(Byte) /\ back' \in Seq(Answer) /\ faults' \in Seq(FaultKinds)
        /\ UNCHANGED <<rxVars, nandVars, why, downloads>>
    BY <1>1, <1>11 DEF HostStart, HostGiveUp, TypeOK
  <2> QED
    BY Zenon, <2>1, <2>2, EnvIInv
<1>12. CASE HostAnswer
  BY Zenon, <1>12, HostAnswerIInv
<1>13. CASE DropByte \/ LoseAnswer
  <2>1. line' \in Seq(Byte) /\ back' \in Seq(Answer)
    <3>1. line \in Seq(Byte) /\ back \in Seq(Answer)
      BY Zenon, <1>1 DEF TypeOK
    <3>2. CASE DropByte
      BY <3>1, <3>2 DEF DropByte
    <3>3. CASE LoseAnswer
      BY <3>1, <3>3 DEF LoseAnswer
    <3> QED
      BY Zenon, <1>13, <3>2, <3>3
  <2>2. host' \in HostStates /\ UNCHANGED <<rxVars, nandVars, why, downloads>>
    BY Zenon, <1>1, <1>13 DEF DropByte, LoseAnswer, TypeOK
  <2>3. faults' \in Seq(FaultKinds)
    <3>1. faults \in Seq(FaultKinds)
      BY Zenon, <1>1 DEF TypeOK
    <3>2. PICK kind \in FaultKinds : faults' = Append(faults, kind)
      BY Zenon, <1>13 DEF DropByte, LoseAnswer, Fault, FaultKinds
    <3> QED
      BY <3>1, <3>2
  <2> QED
    BY Zenon, <2>1, <2>2, <2>3, EnvIInv
<1>14. CASE HostCancel
  <2>1. CAN \in Byte
    BY SizeAssumption, GeometryAssumption DEF CAN, Byte, ByteValues, Blocks
  <2>2. /\ line' \in Seq(Byte) /\ back' \in Seq(Answer)
        /\ UNCHANGED <<rxVars, nandVars, why, downloads>>
    BY <1>1, <1>14, <2>1 DEF HostCancel, TypeOK
  <2>3. host' \in HostStates
    BY Zenon, <1>1, <1>14 DEF HostCancel, TypeOK, HostStates
  <2>4. faults' \in Seq(FaultKinds)
    <3>1. faults \in Seq(FaultKinds)
      BY Zenon, <1>1 DEF TypeOK
    <3>2. faults' = Append(faults, "cancel") /\ "cancel" \in FaultKinds
      BY Zenon, <1>14 DEF HostCancel, Fault, FaultKinds
    <3> QED
      BY <3>1, <3>2
  <2> QED
    BY Zenon, <2>2, <2>3, <2>4, EnvIInv
<1>15. CASE UNCHANGED vars
  <2>1. /\ UNCHANGED <<rxVars, nandVars, why, downloads>>
        /\ host' \in HostStates /\ line' \in Seq(Byte) /\ back' \in Seq(Answer)
        /\ faults' \in Seq(FaultKinds)
    BY Zenon, <1>1, <1>15 DEF vars, TypeOK
  <2> QED
    BY Zenon, <2>1, EnvIInv
<1> QED
  BY Zenon, <1>2, <1>3, <1>4, <1>5, <1>6, <1>7, <1>8, <1>9, <1>10, <1>11, <1>12,
     <1>13, <1>14, <1>15 DEF Next, Board, Host

(* The inductive invariant holds in every reachable state.                 *)
THEOREM Invariance == Spec => []IInv
<1>1. Init => IInv
  BY Zenon, InitIInv
<1>2. IInv /\ [Next]_vars => IInv'
  BY Zenon, NextIInv
<1> QED
  BY <1>1, <1>2, PTL DEF Spec

(* xmodem.c and its callbacks keep their variables in range: the retry     *)
(* counters stop at their limits, frame_offset wraps inside a byte and     *)
(* buff_offset stays inside nand_buff.                                     *)
THEOREM TypeCorrect == Spec => []TypeOK
<1>1. IInv => TypeOK
  BY Zenon DEF IInv
<1> QED
  BY <1>1, Invariance, PTL

(* try_program stores the accepted data fields in order, for every file    *)
(* and page size and whatever the line does.                               *)
THEOREM StreamIsStored == Spec => []StreamStored
<1>1. IInv => StreamStored
  BY Zenon DEF IInv
<1> QED
  BY <1>1, Invariance, PTL

(* program_tonand writes a page only into erased cells, for every geometry *)
(* of the flash.                                                           *)
THEOREM OnlyErasedProgrammed == Spec => ProgramsErased
<1> DEFINE OnlyErased ==
      nand_address' = nand_address + 1 /\ nand_address < NPages =>
        nand_address % BlockPages = 0 \/ flash[nand_address] = Erased
<1>1. ASSUME IInv, [Next]_vars PROVE [OnlyErased]_vars
  <2> SUFFICES ASSUME nand_address' = nand_address + 1, nand_address < NPages,
                      nand_address % BlockPages # 0
               PROVE  flash[nand_address] = Erased
    BY Zenon
  <2>1. nand_address \in Nat /\ BlockPages \in Nat \ {0} /\ NPages \in Nat
    BY Zenon, <1>1, SizeAssumption, GeometryAssumption DEF IInv, TypeOK
  <2>2. why = "running"
    <3>1. nand_address' # nand_address
      BY <2>1
    <3>2. \/ \E b \in Arrivals : WaitSoh(b) \/ TransSoh(b) \/ TransEot(b)
          \/ doXmodemDownloadInit
      BY Zenon, <1>1, <3>1
         DEF Next, Board, Host, Entry, Exit, WaitKeep, KeepByte, WaitLate,
             TransKeep, TransLate, HostStart, HostAnswer, HostGiveUp, DropByte,
             LoseAnswer, HostCancel, vars, nandVars
    <3>3. ~doXmodemDownloadInit
      BY <2>1 DEF doXmodemDownloadInit
    <3> QED
      BY Zenon, <1>1, <3>2, <3>3
         DEF IInv, RunningOrEnded, WaitSoh, TransSoh, TransEot, NotEot
  <2>3. nand_address < nand_address - (nand_address % BlockPages) + BlockPages
    BY <2>1
  <2> QED
    BY <1>1, <2>1, <2>2, <2>3 DEF IInv, RestErased
<1> QED
  BY <1>1, Invariance, PTL DEF Spec, ProgramsErased

-----------------------------------------------------------------------------
(* s is part of the frame of data field n, in order: byte j of s is one of *)
(* lo + j .. hi - Len(s) + j.                                              *)
InFrame(n, s, lo, hi) ==
  \A j \in 1..Len(s) : /\ s[j].i \in (lo + j)..(hi - Len(s) + j)
                       /\ s[j] = Frame(n)[s[j].i]

(* What dealExceptionFrame takes for the end when it comes first.          *)
Ends(b) == b.v \in {"EOT", "CAN"}

(* Where a running download with a prompt host is: nothing has been sent,  *)
(* one frame is on the way, the answer to it is, EOT is, or CAN is.        *)
Greeting ==
  /\ host.st \in {"idle", "hello"} /\ host.blk = 1 /\ xmState = "WAIT_TRANS"
  /\ line = <<>> /\ frame = <<>>
  /\ back = <<>> \/ (host.st = "hello" /\ back = <<"C">>)

Sending ==
  /\ host.st = "wait" /\ back = <<>> /\ Len(stream) = host.blk - 1
  /\ Len(frame) < FrameSize
  /\ InFrame(host.blk, frame, 0, FrameSize - Len(line))
  /\ InFrame(host.blk, line, Len(frame), FrameSize)
  /\ frame # <<>> => ~Ends(frame[1])
  /\ frame = <<>> /\ line # <<>> => ~Ends(line[1])

Answered ==
  /\ host.st = "wait" /\ line = <<>> /\ frame = <<>>
  /\ \/ back = <<"ACK">> /\ xmState = "TRANSMIT" /\ Len(stream) = host.blk
     \/ back = <<"NAK">> /\ xmState = "TRANSMIT" /\ Len(stream) = host.blk - 1
     \/ back = <<"C">> /\ xmState = "WAIT_TRANS" /\ host.blk = 1

Ending ==
  /\ host.st = "eot" /\ host.blk = FileLen /\ Len(stream) = FileLen
  /\ xmState = "TRANSMIT" /\ frame = <<>>
  /\ \/ back = <<>> /\ (line = <<>> \/ line = <<EOT>>)
     \/ back = <<"NAK">> /\ line = <<>>

Cancelled ==
  /\ host.st = "failed" /\ back = <<>> /\ (line = <<>> \/ line = <<CAN>>)
  /\ Len(frame) + Len(line) <= FrameSize
  /\ frame # <<>> => frame[1].v # "EOT"
  /\ Len(frame) = FrameSize => frame[FrameSize].i = 0

InStep ==
  /\ frame_offset <= FrameSize
  /\ xmState = "ENTRY" => /\ host.st \in {"idle", "hello"} /\ host.blk = 1
                          /\ line = <<>> /\ back = <<>>
  /\ xmState = "WAIT_TRANS" => stream = <<>>
  /\ xmState = "TRANSMIT" => stream # <<>>
  /\ xmState \in {"WAIT_TRANS", "TRANSMIT"} =>
       Greeting \/ Sending \/ Answered \/ Ending \/ Cancelled
  /\ why \in {"running", "eot"} => \A i \in 1..Len(stream) : stream[i] = i
  /\ why = "eot" => Len(stream) = FileLen

(* A prompt host and the receiver stay in step.                            *)
PromptInv == Prompt => InStep

-----------------------------------------------------------------------------
(* The bytes of a frame say which frame and where.                         *)
LEMMA FrameByte ==
  ASSUME NEW n \in 1..FileLen
  PROVE  /\ Len(Frame(n)) = FrameSize
         /\ \A i \in 1..FrameSize : Frame(n)[i].n = n /\ Frame(n)[i].i = i
         /\ Frame(n)[1].v = "SOH"
<1>1. FrameSize \in Nat /\ FrameSize >= 2
  BY SizeAssumption
<1>2. \A i \in 1..FrameSize : Frame(n)[i].n = n /\ Frame(n)[i].i = i
  BY Zenon, <1>1 DEF Frame
<1>3. Frame(n)[1].v = "SOH"
  BY <1>1 DEF Frame
<1>4. DOMAIN Frame(n) = 1..FrameSize
  BY Zenon DEF Frame
<1>5. Frame(n) \in Seq(Byte)
  BY Zenon, FrameTyped
<1>6. Len(Frame(n)) = FrameSize
  BY <1>1, <1>4, <1>5
<1> QED
  BY Zenon, <1>2, <1>3, <1>6

(* A fault that leaves the host prompt is a lost byte or a cancellation.   *)
LEMMA PromptFault ==
  ASSUME TypeOK, NEW k, faults' = Append(faults, k), Prompt'
  PROVE  Prompt /\ k \in {"drop", "cancel"}
<1>1. faults \in Seq(FaultKinds) /\ Len(faults) \in Nat
  BY DEF TypeOK
<1>2. Len(faults') = Len(faults) + 1 /\ faults'[Len(faults) + 1] = k
  BY <1>1
<1>3. \A i \in 1..Len(faults) : faults'[i] = faults[i]
  BY <1>1
<1>4. \A i \in 1..(Len(faults) + 1) : faults'[i] \in {"drop", "cancel"}
  BY Zenon, <1>2 DEF Prompt
<1> QED
  BY <1>1, <1>2, <1>3, <1>4 DEF Prompt

(* A pass without a byte changes nothing in the frame buffer.              *)
LEMMA GotNothing ==
  ASSUME TypeOK, frame_offset <= FrameSize
  PROVE  GotOffset(<<>>) = frame_offset /\ GotFrame(<<>>) = frame
<1>1. FrameSize \in Nat /\ OffsetMod \in Nat /\ OffsetMod > FrameSize
  BY Zenon, SizeAssumption
<1>2. frame_offset \in 0..(OffsetMod - 1) /\ frame \in Seq(Byte)
      /\ Len(frame) = IF frame_offset < FrameSize THEN frame_offset ELSE FrameSize
  BY Zenon DEF TypeOK
<1>3. GotOffset(<<>>) = frame_offset
  BY <1>1, <1>2, ModWrap DEF GotOffset
<1>4. frame \o <<>> = frame
  BY <1>2
<1>5. frame_offset = 0 => frame = <<>>
  BY <1>1, <1>2
<1> QED
  BY Zenon, <1>3, <1>4, <1>5 DEF GotFrame

(* A byte that arrives while there is room goes to the end of the frame.   *)
LEMMA GotByte ==
  ASSUME TypeOK, frame_offset < FrameSize, line # <<>>
  PROVE  /\ GotOffset(<<Head(line)>>) = frame_offset + 1
         /\ GotFrame(<<Head(line)>>) = frame \o <<line[1]>>
<1>1. FrameSize \in Nat /\ OffsetMod \in Nat /\ OffsetMod > FrameSize
  BY Zenon, SizeAssumption
<1>2. frame_offset \in 0..(OffsetMod - 1) /\ frame \in Seq(Byte) /\ line \in Seq(Byte)
  BY Zenon DEF TypeOK
<1>3. Head(line) = line[1] /\ Len(<<Head(line)>>) = 1
  BY <1>2
<1>4. GotOffset(<<Head(line)>>) = frame_offset + 1
  <2>1. frame_offset + 1 \in 0..OffsetMod /\ frame_offset + 1 # OffsetMod
        /\ OffsetMod \in Nat \ {0}
    BY <1>1, <1>2
  <2>2. (frame_offset + 1) % OffsetMod = frame_offset + 1
    BY Zenon, <2>1, ModWrap
  <2> QED
    BY Zenon, <1>3, <2>2 DEF GotOffset
<1> QED
  BY <1>1, <1>2, <1>3, <1>4 DEF GotFrame

(* The next byte of the frame, or all of it.                               *)
LEMMA SendingByte ==
  ASSUME TypeOK, Sending, line # <<>>
  PROVE  LET f == frame \o <<line[1]>> IN
         /\ f \in Seq(Byte) /\ Tail(line) \in Seq(Byte)
         /\ Len(f) = Len(frame) + 1 /\ ~Ends(f[1])
         /\ InFrame(host.blk, f, 0, FrameSize - Len(Tail(line)))
         /\ InFrame(host.blk, Tail(line), Len(f), FrameSize)
         /\ Len(f) = FrameSize => /\ Tail(line) = <<>> /\ f[2].n = host.blk
                                 /\ checkSohFrame(f, FrameSize)
<1> DEFINE f == frame \o <<line[1]>>
           rest == Tail(line)
           n == host.blk
<1>1. FrameSize \in Nat /\ FrameSize >= 2 /\ n \in 1..FileLen
  BY SizeAssumption DEF TypeOK, HostStates
<1>2. /\ frame \in Seq(Byte) /\ line \in Seq(Byte) /\ line[1] \in Byte
      /\ Len(frame) \in Nat /\ Len(line) \in Nat /\ Len(line) >= 1
  BY DEF TypeOK
<1>3. /\ f \in Seq(Byte) /\ Len(f) = Len(frame) + 1 /\ f[Len(frame) + 1] = line[1]
      /\ \A j \in 1..Len(frame) : f[j] = frame[j]
  BY <1>2
<1>4. /\ rest \in Seq(Byte) /\ Len(rest) = Len(line) - 1
      /\ \A j \in 1..Len(rest) : rest[j] = line[j + 1]
  BY <1>2
<1>5. /\ \A j \in 1..Len(frame) : /\ frame[j].i \in j..(FrameSize - Len(line) - Len(frame) + j)
                                  /\ frame[j] = Frame(n)[frame[j].i]
      /\ \A j \in 1..Len(line) : /\ line[j].i \in (Len(frame) + j)..(FrameSize - Len(line) + j)
                                 /\ line[j] = Frame(n)[line[j].i]
  BY SMTT(60), <1>1, <1>2 DEF Sending, InFrame
<1> HIDE DEF f, rest, n
<1>6. InFrame(n, f, 0, FrameSize - Len(rest))
  <2> SUFFICES ASSUME NEW j \in 1..Len(f)
               PROVE  /\ f[j].i \in j..(FrameSize - Len(rest) - Len(f) + j)
                      /\ f[j] = Frame(n)[f[j].i]
    BY <1>1, <1>2, <1>3, <1>4 DEF InFrame
  <2>1. CASE j = Len(frame) + 1
    BY <1>1, <1>2, <1>3, <1>4, <1>5, <2>1
  <2>2. CASE j \in 1..Len(frame)
    <3>1. f[j] = frame[j] /\ frame[j] = Frame(n)[frame[j].i]
      BY Zenon, <1>3, <1>5, <2>2
    <3>2. frame[j].i \in j..(FrameSize - Len(line) - Len(frame) + j)
      BY Zenon, <1>5, <2>2
    <3>3. FrameSize - Len(rest) - Len(f) + j = FrameSize - Len(line) - Len(frame) + j
      BY <1>1, <1>2, <1>3, <1>4, <2>2
    <3> QED
      BY Zenon, <3>1, <3>2, <3>3
  <2> QED
    BY <1>2, <1>3, <2>1, <2>2
<1>7. InFrame(n, rest, Len(f), FrameSize)
  <2> SUFFICES ASSUME NEW j \in 1..Len(rest)
               PROVE  /\ rest[j].i \in (Len(f) + j)..(FrameSize - Len(rest) + j)
                      /\ rest[j] = Frame(n)[rest[j].i]
    BY Zenon DEF InFrame
  <2>1. j + 1 \in 1..Len(line) /\ rest[j] = line[j + 1]
    BY <1>2, <1>4
  <2> QED
    BY <1>1, <1>2, <1>3, <1>4, <1>5, <2>1
<1>8. ~Ends(f[1])
  <2>1. CASE frame = <<>>
    BY <1>2, <1>3, <2>1 DEF Sending
  <2>2. CASE frame # <<>>
    <3>1. Len(frame) >= 1
      BY <1>2, <2>2
    <3> QED
      BY <1>2, <1>3, <2>2, <3>1 DEF Sending
  <2> QED
    BY Zenon, <2>1, <2>2
<1>9. ASSUME Len(f) = FrameSize
      PROVE  rest = <<>> /\ f[2].n = n /\ checkSohFrame(f, FrameSize)
  <2>1. Len(rest) = 0
    BY SMTT(60), <1>1, <1>2, <1>3, <1>4, <1>5, <1>9
  <2>2. rest = <<>>
    BY <1>4, <2>1
  <2>3. \A j \in 1..FrameSize : f[j].i = j
    BY <1>1, <1>6, <1>9, <2>1 DEF InFrame
  <2>4. \A j \in 1..FrameSize : f[j] = Frame(n)[j]
    BY Zenon, <1>6, <1>9, <2>3 DEF InFrame
  <2>5. \A j \in 1..FrameSize : f[j].n = n
    BY <1>1, <2>4, FrameByte
  <2>6. f[1].v = "SOH"
    BY <1>1, <2>4, FrameByte
  <2> QED
    BY <1>1, <2>2, <2>3, <2>5, <2>6 DEF checkSohFrame
<1> QED
  BY Zenon, <1>3, <1>4, <1>6, <1>7, <1>8, <1>9 DEF f, rest, n

(* Inside frame[], frame_offset is the number of bytes received.           *)
LEMMA OffsetIsLength ==
  ASSUME TypeOK, frame_offset <= FrameSize
  PROVE  /\ Len(frame) = frame_offset /\ frame_offset \in Nat
         /\ frame = <<>> <=> frame_offset = 0
<1>1. FrameSize \in Nat /\ OffsetMod \in Nat
  BY Zenon, SizeAssumption
<1>2. frame_offset \in 0..(OffsetMod - 1) /\ frame \in Seq(Byte)
      /\ Len(frame) = IF frame_offset < FrameSize THEN frame_offset ELSE FrameSize
  BY Zenon DEF TypeOK
<1>3. Len(frame) = frame_offset /\ frame_offset \in Nat
  BY <1>1, <1>2
<1>4. frame = <<>> <=> Len(frame) = 0
  BY <1>2
<1> QED
  BY Zenon, <1>3, <1>4

(* After CAN no frame is complete.                                         *)
LEMMA CancelledByte ==
  ASSUME TypeOK, InStep, Cancelled, line # <<>>
  PROVE  LET f == frame \o <<line[1]>> IN
         /\ f \in Seq(Byte) /\ Len(f) = Len(frame) + 1 /\ Len(f) <= FrameSize
         /\ Tail(line) = <<>> /\ f[Len(f)].i = 0 /\ f[1].v # "EOT"
<1> DEFINE f == frame \o <<line[1]>>
<1>1. FrameSize \in Nat /\ frame \in Seq(Byte) /\ line \in Seq(Byte)
  BY Zenon, SizeAssumption DEF TypeOK
<1>2. line = <<CAN>> /\ Len(line) = 1 /\ line[1] = CAN /\ Tail(line) = <<>>
  <2>1. line = <<CAN>>
    BY Zenon DEF Cancelled
  <2>2. Len(line) = 1 /\ line[1] = CAN
    BY Zenon, <2>1
  <2>3. Tail(line) \in Seq(Byte) /\ Len(Tail(line)) = 0
    BY <1>1, <2>2
  <2> QED
    BY <2>1, <2>2, <2>3
<1>3. CAN \in Byte
  BY SizeAssumption DEF CAN, Byte, ByteValues, Blocks
<1>4. /\ f \in Seq(Byte) /\ Len(f) = Len(frame) + 1 /\ f[Len(frame) + 1] = CAN
      /\ \A j \in 1..Len(frame) : f[j] = frame[j]
  BY <1>1, <1>2, <1>3
<1> HIDE DEF f
<1>5. CAN.i = 0 /\ CAN.v = "CAN"
  BY Zenon DEF CAN
<1>6. Len(f) <= FrameSize
  BY Zenon, <1>1, <1>2, <1>4 DEF Cancelled
<1>7. f[1].v # "EOT"
  <2>1. CASE frame = <<>>
    BY <1>1, <1>4, <1>5, <2>1
  <2>2. CASE frame # <<>>
    <3>1. 1 \in 1..Len(frame)
      BY <1>1, <2>2
    <3> QED
      BY Zenon, <1>4, <2>2, <3>1 DEF Cancelled
  <2> QED
    BY Zenon, <2>1, <2>2
<1> QED
  BY Zenon, <1>2, <1>4, <1>5, <1>6, <1>7 DEF f

(* checkSohFrame passes only on the last byte of the frame being sent.     *)
LEMMA OnlySending ==
  ASSUME TypeOK, InStep, xmState \in {"WAIT_TRANS", "TRANSMIT"}, NEW b \in Arrivals,
         checkSohFrame(GotFrame(b), GotOffset(b))
  PROVE  /\ Sending /\ line # <<>> /\ b = <<Head(line)>>
         /\ GotFrame(b) = frame \o <<line[1]>> /\ Len(frame) + 1 = FrameSize
<1>1. FrameSize \in Nat /\ FrameSize >= 2
  BY SizeAssumption
<1>2. frame_offset <= FrameSize /\ (Greeting \/ Sending \/ Answered \/ Ending \/ Cancelled)
  BY Zenon DEF InStep
<1>3. Len(frame) = frame_offset /\ frame_offset \in Nat /\ (frame = <<>> <=> frame_offset = 0)
  BY Zenon, <1>2, OffsetIsLength
<1>4. GotOffset(b) >= FrameSize /\ GotFrame(b)[FrameSize].i = FrameSize
  BY <1>1 DEF checkSohFrame
<1>5. b # <<>>
  <2> SUFFICES ASSUME b = <<>> PROVE FALSE
    BY Zenon
  <2>1. GotOffset(b) = frame_offset /\ GotFrame(b) = frame
    BY Zenon, <1>2, GotNothing
  <2>2. frame_offset = FrameSize /\ frame # <<>> /\ Len(frame) = FrameSize
    BY <1>1, <1>2, <1>3, <1>4, <2>1
  <2>3. Cancelled
    BY <1>1, <1>2, <2>2 DEF Greeting, Sending, Answered, Ending
  <2> QED
    BY <1>1, <1>4, <2>1, <2>2, <2>3 DEF Cancelled
<1>6. line # <<>> /\ b = <<Head(line)>>
  BY Zenon, <1>5 DEF Arrivals
<1>7. ~Cancelled
  <2> SUFFICES ASSUME Cancelled PROVE FALSE
    BY Zenon
  <2>1. /\ Len(frame \o <<line[1]>>) = Len(frame) + 1
        /\ Len(frame \o <<line[1]>>) <= FrameSize
        /\ (frame \o <<line[1]>>)[Len(frame \o <<line[1]>>)].i = 0
    BY Zenon, <1>6, CancelledByte
  <2>2. frame_offset < FrameSize
    BY <1>1, <1>3, <2>1
  <2>3. GotOffset(b) = frame_offset + 1 /\ GotFrame(b) = frame \o <<line[1]>>
    BY Zenon, <1>6, <2>2, GotByte
  <2>4. Len(frame \o <<line[1]>>) = FrameSize
    BY <1>1, <1>3, <1>4, <2>1, <2>3
  <2> QED
    BY <1>1, <1>4, <2>1, <2>3, <2>4
<1>8. ~Ending
  <2> SUFFICES ASSUME Ending PROVE FALSE
    BY Zenon
  <2>1. frame_offset = 0 /\ frame_offset < FrameSize
    BY <1>1, <1>3 DEF Ending
  <2>2. GotOffset(b) = 1
    BY <1>6, <2>1, GotByte
  <2> QED
    BY <1>1, <1>4, <2>2
<1>9. Sending
  BY Zenon, <1>2, <1>6, <1>7, <1>8 DEF Greeting, Answered
<1>10. frame_offset < FrameSize
  BY Zenon, <1>3, <1>9 DEF Sending
<1>11. GotOffset(b) = frame_offset + 1 /\ GotFrame(b) = frame \o <<line[1]>>
  BY Zenon, <1>6, <1>10, GotByte
<1> QED
  BY <1>1, <1>3, <1>4, <1>6, <1>9, <1>10, <1>11

(* A good frame is the one the host is sending: its number goes to the end *)
(* of the stream and its ACK to the host.                                  *)
LEMMA GoodStep ==
  ASSUME TypeOK, RunningOrEnded, InStep, TypeOK', NEW b \in Arrivals,
         WaitSoh(b) \/ TransSoh(b)
  PROVE  InStep'
<1>1. xmState \in {"WAIT_TRANS", "TRANSMIT"} /\ GoodFrame(b)
  BY Zenon DEF WaitSoh, TransSoh, NotEot
<1>2. why = "running"
  BY Zenon, <1>1 DEF RunningOrEnded
<1>3. checkSohFrame(GotFrame(b), GotOffset(b))
  BY Zenon, <1>1 DEF GoodFrame
<1>4. /\ Sending /\ line # <<>> /\ b = <<Head(line)>>
      /\ GotFrame(b) = frame \o <<line[1]>> /\ Len(frame) + 1 = FrameSize
  BY Zenon, <1>1, <1>3, OnlySending
<1> DEFINE f == frame \o <<line[1]>>
<1>5. Len(f) = Len(frame) + 1 /\ (Len(f) = FrameSize => Tail(line) = <<>> /\ f[2].n = host.blk)
  BY Zenon, <1>4, SendingByte
<1>6. Tail(line) = <<>> /\ f[2].n = host.blk
  BY Zenon, <1>4, <1>5
<1> HIDE DEF f
<1>7. /\ stream' = Append(stream, host.blk) /\ xmState' = "TRANSMIT" /\ frame_offset' = 0
      /\ frame' = <<>> /\ line' = <<>> /\ host' = host /\ why' = why
  BY Zenon, <1>1, <1>4, <1>6 DEF GoodFrame, TryProgram, Consume, countVars, f
<1>8. back' = <<"ACK">>
  BY SMTT(60), <1>1, <1>4 DEF GoodFrame, putData, Sending
<1>9. /\ stream \in Seq(Blocks) /\ host.blk \in 1..FileLen /\ Len(stream) = host.blk - 1
      /\ FileLen \in Nat /\ FrameSize \in Nat /\ host.st = "wait"
  BY Zenon, <1>4, SizeAssumption DEF TypeOK, HostStates, Sending
<1>10. Len(stream') = host.blk /\ stream'[host.blk] = host.blk
       /\ \A i \in 1..Len(stream) : stream'[i] = stream[i]
  BY <1>7, <1>9
<1>11. Answered'
  BY Zenon, <1>7, <1>8, <1>9, <1>10 DEF Answered
<1>12. \A i \in 1..Len(stream) : stream[i] = i
  BY Zenon, <1>2 DEF InStep
<1>13. \A i \in 1..Len(stream') : stream'[i] = i
  BY <1>9, <1>10, <1>12
<1>14. stream' # <<>>
  BY <1>9, <1>10
<1> QED
  BY <1>2, <1>7, <1>9, <1>11, <1>13, <1>14 DEF InStep

(* A byte that completes nothing is one more byte of the frame being sent, *)
(* or the CAN behind it.                                                   *)
LEMMA KeepStep ==
  ASSUME TypeOK, RunningOrEnded, InStep, TypeOK', xmState \in {"WAIT_TRANS", "TRANSMIT"},
         line # <<>>, ~Ending, ~checkSohFrame(GotFrame(<<Head(line)>>), GotOffset(<<Head(line)>>)),
         frame' = GotFrame(<<Head(line)>>), frame_offset' = GotOffset(<<Head(line)>>),
         line' = Tail(line), UNCHANGED <<xmState, stream, host, back, why>>
  PROVE  InStep'
<1> DEFINE f == frame \o <<line[1]>>
<1>1. FrameSize \in Nat /\ frame_offset <= FrameSize /\ (Sending \/ Cancelled)
  BY Zenon, SizeAssumption DEF InStep, Greeting, Answered
<1>2. Len(frame) = frame_offset /\ frame_offset \in Nat
  BY Zenon, <1>1, OffsetIsLength
<1>3. CASE Sending
  <2>1. frame_offset < FrameSize
    BY Zenon, <1>2, <1>3 DEF Sending
  <2>2. frame' = f /\ frame_offset' = frame_offset + 1
    BY Zenon, <2>1, GotByte
  <2>3. /\ f \in Seq(Byte) /\ Len(f) = Len(frame) + 1 /\ ~Ends(f[1])
        /\ InFrame(host.blk, f, 0, FrameSize - Len(Tail(line)))
        /\ InFrame(host.blk, Tail(line), Len(f), FrameSize)
        /\ Len(f) = FrameSize => checkSohFrame(f, FrameSize)
    BY Zenon, <1>3, SendingByte
  <2>4. ~checkSohFrame(f, frame_offset + 1)
    BY Zenon, <2>1, GotByte
  <2> HIDE DEF f
  <2>5. Len(f) < FrameSize
    BY <1>1, <1>2, <2>1, <2>3, <2>4
  <2>6. f # <<>>
    BY <1>2, <2>3
  <2>7. Sending'
    BY Zenon, <1>3, <2>2, <2>3, <2>5, <2>6 DEF Sending
  <2> QED
    BY <1>1, <1>2, <2>1, <2>2, <2>7 DEF InStep
<1>4. CASE Cancelled
  <2>1. /\ f \in Seq(Byte) /\ Len(f) = Len(frame) + 1 /\ Len(f) <= FrameSize
        /\ Tail(line) = <<>> /\ f[Len(f)].i = 0 /\ f[1].v # "EOT"
    BY Zenon, <1>4, CancelledByte
  <2>2. frame_offset < FrameSize
    BY <1>1, <1>2, <2>1
  <2>3. frame' = f /\ frame_offset' = frame_offset + 1
    BY Zenon, <2>2, GotByte
  <2> HIDE DEF f
  <2>4. Len(<<>>) = 0
    BY Zenon
  <2>5. Cancelled'
    BY <1>1, <1>2, <1>4, <2>1, <2>3, <2>4 DEF Cancelled
  <2> QED
    BY <1>1, <1>2, <2>2, <2>3, <2>5 DEF InStep
<1> QED
  BY Zenon, <1>1, <1>3, <1>4

(* dealExceptionFrame sees EOT only when the host has sent it after the    *)
(* last frame, and then for sure; it sees CAN only after a cancellation.   *)
LEMMA ExceptionByte ==
  ASSUME TypeOK, InStep, xmState = "TRANSMIT", NEW b \in Arrivals
  PROVE  LET e == dealExceptionFrame(GotFrame(b), GotOffset(b)) IN
         /\ e \in {"EOT", "CAN", "UNKNOWN"}
         /\ e = "EOT" => Ending
         /\ e = "CAN" => Cancelled
         /\ Ending /\ b # <<>> => e = "EOT"
<1> DEFINE e == dealExceptionFrame(GotFrame(b), GotOffset(b))
           g == GotFrame(b)
<1>1. FrameSize \in Nat /\ FrameSize >= 2
  BY SizeAssumption
<1>2. frame_offset <= FrameSize /\ (Sending \/ Answered \/ Ending \/ Cancelled)
  BY Zenon DEF InStep, Greeting
<1>3. Len(frame) = frame_offset /\ frame_offset \in Nat /\ (frame = <<>> <=> frame_offset = 0)
  BY Zenon, <1>2, OffsetIsLength
<1>4. /\ e \in {"EOT", "CAN", "UNKNOWN"}
      /\ e # "UNKNOWN" => GotOffset(b) = 1 /\ Ends(g[1]) /\ e = g[1].v
      /\ GotOffset(b) = 1 /\ Ends(g[1]) => e = g[1].v
  BY Zenon DEF dealExceptionFrame, Ends
<1> HIDE DEF e
<1>5. CASE b = <<>>
  <2>1. GotOffset(b) = frame_offset /\ g = frame
    BY Zenon, <1>2, <1>5, GotNothing
  <2>2. ASSUME e # "UNKNOWN" PROVE Cancelled /\ e # "EOT"
    <3>1. frame # <<>> /\ Ends(frame[1]) /\ e = frame[1].v
      BY <1>3, <1>4, <2>1, <2>2
    <3>2. Cancelled
      BY Zenon, <1>2, <3>1 DEF Sending, Answered, Ending
    <3> QED
      BY Zenon, <3>1, <3>2 DEF Cancelled
  <2> QED
    BY Zenon, <1>4, <1>5, <2>2 DEF e
<1>6. CASE b # <<>>
  <2>1. line # <<>> /\ b = <<Head(line)>>
    BY Zenon, <1>6 DEF Arrivals
  <2>2. CASE Sending
    <3>1. frame_offset < FrameSize
      BY Zenon, <1>3, <2>2 DEF Sending
    <3>2. g = frame \o <<line[1]>>
      BY Zenon, <2>1, <3>1, GotByte
    <3>3. ~Ends(g[1])
      BY Zenon, <2>1, <2>2, <3>2, SendingByte
    <3>4. ~Ending
      BY Zenon, <2>2 DEF Sending, Ending
    <3> QED
      BY Zenon, <1>4, <3>3, <3>4 DEF e
  <2>3. CASE Cancelled
    <3>1. /\ Len(frame \o <<line[1]>>) = Len(frame) + 1
          /\ Len(frame \o <<line[1]>>) <= FrameSize /\ (frame \o <<line[1]>>)[1].v # "EOT"
      BY Zenon, <2>1, <2>3, CancelledByte
    <3>2. frame_offset < FrameSize
      BY <1>1, <1>3, <3>1
    <3>3. g = frame \o <<line[1]>>
      BY Zenon, <2>1, <3>2, GotByte
    <3>4. ~Ending
      BY Zenon, <2>3 DEF Cancelled, Ending
    <3> QED
      BY Zenon, <1>4, <2>3, <3>1, <3>3, <3>4 DEF e
  <2>4. CASE Ending
    <3>1. frame = <<>> /\ line = <<EOT>> /\ frame_offset = 0 /\ frame_offset < FrameSize
      BY <1>1, <1>3, <2>1, <2>4 DEF Ending
    <3>2. g = frame \o <<line[1]>> /\ GotOffset(b) = 1
      BY <2>1, <3>1, GotByte
    <3>3. line[1] = EOT /\ EOT.v = "EOT"
      BY Zenon, <3>1 DEF EOT
    <3>4. (<<>> \o <<line[1]>>)[1] = line[1]
      OBVIOUS
    <3>5. g[1].v = "EOT"
      BY Zenon, <3>1, <3>2, <3>3, <3>4
    <3> QED
      BY Zenon, <1>4, <2>4, <3>2, <3>5 DEF e, Ends
  <2>5. ~Answered
    BY Zenon, <2>1 DEF Answered
  <2> QED
    BY Zenon, <1>2, <2>2, <2>3, <2>4, <2>5
<1> QED
  BY Zenon, <1>5, <1>6

(* EOT ends the download when the whole file has been accepted.            *)
LEMMA EotStep ==
  ASSUME TypeOK, RunningOrEnded, InStep, NEW b \in Arrivals, TransEot(b)
  PROVE  InStep'
<1>1. xmState = "TRANSMIT" /\ dealExceptionFrame(GotFrame(b), GotOffset(b)) = "EOT"
  BY Zenon DEF TransEot
<1>2. Ending
  BY Zenon, <1>1, ExceptionByte
<1>3. why = "running"
  BY Zenon, <1>1 DEF RunningOrEnded
<1>4. xmState' = "EXIT" /\ why' = "eot" /\ frame_offset' = 0 /\ stream' = stream
  BY Zenon DEF TransEot, FinishProgram
<1>5. 0 <= FrameSize
  BY SizeAssumption
<1> QED
  BY Zenon, <1>2, <1>3, <1>4, <1>5 DEF InStep, Ending

(* The other bytes in TRANSMIT; CAN is thrown away.                        *)
LEMMA TransKeepStep ==
  ASSUME TypeOK, RunningOrEnded, InStep, TypeOK', NEW b \in Arrivals, TransKeep(b)
  PROVE  InStep'
<1> DEFINE e == dealExceptionFrame(GotFrame(b), GotOffset(b))
<1>1. xmState = "TRANSMIT" /\ e # "EOT" /\ b # <<>>
  BY Zenon DEF TransKeep, NotEot
<1>2. line # <<>> /\ b = <<Head(line)>>
  BY Zenon, <1>1 DEF Arrivals
<1>3. ~Ending /\ e \in {"CAN", "UNKNOWN"} /\ (e = "CAN" => Cancelled)
  BY Zenon, <1>1, ExceptionByte
<1>4. SecondLook(b) # "CAN"
  BY Zenon DEF SecondLook
<1>5. /\ xmState' = xmState /\ why' = why /\ line' = Tail(line)
      /\ UNCHANGED <<stream, host, back>>
      /\ frame_offset' = LeftOffset(b) /\ frame' = LeftFrame(b)
      /\ ~checkSohFrame(LeftFrame(b), LeftOffset(b))
  BY Zenon, <1>1, <1>4 DEF TransKeep, Consume, nandVars
<1>6. CASE e = "UNKNOWN"
  <2>1. LeftOffset(b) = GotOffset(b)
    BY Zenon, <1>6 DEF LeftOffset
  <2>2. LeftFrame(b) = GotFrame(b)
    BY Zenon, <2>1 DEF LeftFrame, GotFrame
  <2> QED
    BY Zenon, <1>1, <1>2, <1>3, <1>5, <2>1, <2>2, KeepStep
<1>7. CASE e = "CAN"
  <2>1. frame_offset' = 0 /\ frame' = <<>>
    BY Zenon, <1>5, <1>7 DEF LeftOffset, LeftFrame
  <2>2. Cancelled /\ Tail(line) = <<>> /\ FrameSize \in Nat /\ FrameSize >= 2
    BY <1>2, <1>3, <1>7, CancelledByte, SizeAssumption
  <2>3. Len(<<>>) = 0
    BY Zenon
  <2>4. Cancelled'
    BY <1>5, <2>1, <2>2, <2>3 DEF Cancelled
  <2> QED
    BY <1>1, <1>5, <2>1, <2>2, <2>4 DEF InStep
<1> QED
  BY Zenon, <1>3, <1>6, <1>7

(* The timer of a download with a prompt host expires on a silent line.    *)
LEMMA ExpiredSilent ==
  ASSUME TypeOK, Prompt', NEW b \in Arrivals, Expired(b)
  PROVE  b = <<>> /\ line = <<>> /\ back = <<>>
<1>1. CASE faults' = Append(faults, "slow")
  BY <1>1, PromptFault
<1> QED
  BY Zenon, <1>1 DEF Expired

(* The receiver throws its partial frame away and asks again.              *)
LEMMA AskStep ==
  ASSUME TypeOK, InStep, xmState \in {"WAIT_TRANS", "TRANSMIT"},
         line = <<>>, back = <<>>, line' = line,
         putData(IF xmState = "WAIT_TRANS" THEN "C" ELSE "NAK"),
         frame_offset' = 0, frame' = <<>>,
         UNCHANGED <<xmState, why, stream, host>>
  PROVE  InStep'
<1> DEFINE c == IF xmState = "WAIT_TRANS" THEN "C" ELSE "NAK"
<1>1. FrameSize \in Nat /\ FrameSize >= 2
  BY SizeAssumption
<1>2. Append(back, c) = <<c>>
  OBVIOUS
<1>3. back' = IF host.st \in {"hello", "wait", "eot"} THEN <<c>> ELSE <<>>
  BY Zenon, <1>2 DEF putData
<1>4. /\ xmState = "WAIT_TRANS" => c = "C"
      /\ xmState = "TRANSMIT" => c = "NAK"
  BY Zenon
<1> HIDE DEF c
<1>5. Greeting \/ Sending \/ Answered \/ Ending \/ Cancelled
  BY Zenon DEF InStep
<1>6. (Greeting \/ Sending \/ Answered \/ Ending \/ Cancelled)'
  <2>1. CASE Greeting
    BY Zenon, <1>3, <1>4, <2>1 DEF Greeting
  <2>2. CASE Sending
    <3>1. xmState = "WAIT_TRANS" => Len(stream) = 0
      BY DEF InStep
    <3>2. Len(stream) = host.blk - 1 /\ host.blk \in Nat
      BY <2>2 DEF Sending, TypeOK, HostStates
    <3>3. xmState = "WAIT_TRANS" => host.blk = 1
      BY <3>1, <3>2
    <3>4. Answered'
      BY Zenon, <1>3, <1>4, <2>2, <3>2, <3>3 DEF Answered, Sending
    <3> QED
      BY Zenon, <3>4
  <2>3. ~Answered
    BY Zenon DEF Answered
  <2>4. CASE Ending
    BY Zenon, <1>3, <1>4, <2>4 DEF Ending
  <2>5. CASE Cancelled
    <3>1. Len(<<>>) = 0
      BY Zenon
    <3>2. Cancelled'
      BY <1>1, <1>3, <2>5, <3>1 DEF Cancelled
    <3> QED
      BY Zenon, <3>2
  <2> QED
    BY Zenon, <1>5, <2>1, <2>2, <2>3, <2>4, <2>5
<1>7. frame_offset' <= FrameSize
  BY <1>1
<1> QED
  BY Zenon, <1>6, <1>7 DEF InStep

(* The two timeouts.                                                       *)
LEMMA LateStep ==
  ASSUME TypeOK, InStep, Prompt', NEW b \in Arrivals, WaitLate(b) \/ TransLate(b)
  PROVE  InStep'
<1>1. b = <<>> /\ line = <<>> /\ back = <<>>
  BY Zenon, ExpiredSilent DEF WaitLate, TransLate
<1>2. line' = line /\ UNCHANGED <<stream, host>>
  BY Zenon, <1>1 DEF WaitLate, TransLate, Consume, nandVars
<1>3. xmState \in {"WAIT_TRANS", "TRANSMIT"}
  BY Zenon DEF WaitLate, TransLate, NotEot
<1>4. CASE xmState' = "EXIT" /\ why' = "retries"
  <2>1. FrameSize \in Nat /\ FrameSize >= 2
    BY SizeAssumption
  <2>2. GotOffset(b) <= FrameSize
    BY Zenon, <1>1, GotNothing DEF InStep
  <2>3. frame_offset' <= FrameSize
    BY <2>1, <2>2 DEF WaitLate, TransLate
  <2> QED
    BY Zenon, <1>4, <2>3 DEF InStep
<1>5. CASE /\ frame_offset' = 0 /\ frame' = <<>> /\ UNCHANGED <<xmState, why>>
           /\ putData(IF xmState = "WAIT_TRANS" THEN "C" ELSE "NAK")
  BY Zenon, <1>1, <1>2, <1>3, <1>5, AskStep
<1> QED
  BY Zenon, <1>3, <1>4, <1>5 DEF WaitLate, TransLate, NotEot

-----------------------------------------------------------------------------
(* A frame on an empty line is a frame on the way.                         *)
LEMMA FrameSent ==
  ASSUME NEW n \in 1..FileLen, frame = <<>>, Len(stream) = n - 1,
         host' = [st |-> "wait", blk |-> n], line' = Frame(n), back' = <<>>,
         UNCHANGED <<frame, stream>>
  PROVE  Sending'
<1>1. FrameSize \in Nat /\ FrameSize >= 2 /\ Len(<<>>) = 0
  BY SMTT(60), SizeAssumption
<1>2. /\ Len(Frame(n)) = FrameSize
      /\ \A i \in 1..FrameSize : Frame(n)[i].i = i
      /\ ~Ends(Frame(n)[1])
  BY Zenon, FrameByte DEF Ends
<1>3. InFrame(n, Frame(n), 0, FrameSize)
  BY <1>1, <1>2 DEF InFrame
<1>4. InFrame(n, <<>>, 0, FrameSize - Len(Frame(n)))
  BY <1>1 DEF InFrame
<1>5. frame' = <<>> /\ stream' = stream /\ host'.st = "wait" /\ host'.blk = n
  BY Zenon
<1>6. Len(frame') = 0 /\ Len(frame') < FrameSize
  BY <1>1, <1>5
<1>7. InFrame(host'.blk, frame', 0, FrameSize - Len(line'))
  BY Zenon, <1>4, <1>5
<1>8. InFrame(host'.blk, line', Len(frame'), FrameSize)
  BY Zenon, <1>3, <1>5, <1>6
<1> QED
  BY Zenon, <1>2, <1>5, <1>6, <1>7, <1>8 DEF Sending

(* The host reads an answer.                                               *)
LEMMA AnswerStep ==
  ASSUME TypeOK, InStep, HostAnswer
  PROVE  InStep'
<1>1. /\ UNCHANGED <<xmState, frame_offset, frame, stream, why>> /\ back # <<>>
      /\ back' = IF host.st = "eot" /\ Head(back) = "ACK" THEN <<>> ELSE Tail(back)
      /\ xmState # "ENTRY"
  BY Zenon DEF HostAnswer, rxVars, nandVars, InStep
<1>2. CASE xmState \notin {"WAIT_TRANS", "TRANSMIT"}
  BY Zenon, <1>1, <1>2 DEF InStep
<1>3. CASE xmState \in {"WAIT_TRANS", "TRANSMIT"}
  <2>1. ASSUME NEW c, back = <<c>>
        PROVE  Head(back) = c /\ Tail(back) = <<>>
    <3>1. Head(back) = c /\ Tail(back) \in Seq(Answer) /\ Len(Tail(back)) = 0
      BY <1>1, <2>1 DEF TypeOK
    <3>2. \A t \in Seq(Answer) : Len(t) = 0 => t = <<>>
      OBVIOUS
    <3> QED
      BY Zenon, <3>1, <3>2
  <2>2. /\ host = [st |-> host.st, blk |-> host.blk] /\ host.blk \in 1..FileLen
        /\ FileLen \in Nat
        /\ \A n \in 1..FileLen : <<>> \o Frame(n) = Frame(n)
    BY SizeAssumption, FrameTyped DEF TypeOK, HostStates
  <2>3. \A n \in 1..FileLen : n = host.blk + 1 => n - 1 = host.blk
    BY SMTT(60), <2>2
  <2>4. (Greeting \/ Answered \/ Ending) /\ line = <<>> /\ frame = <<>>
        /\ Tail(back) = <<>> /\ back' = <<>>
    BY Zenon, <1>1, <1>3, <2>1 DEF InStep, Greeting, Sending, Answered, Ending, Cancelled
  <2>5. CASE Greeting
    <3>1. host.blk = 1 /\ host.st = "hello" /\ Head(back) = "C"
      BY Zenon, <1>1, <2>1, <2>5 DEF Greeting
    <3>2. host' = [host EXCEPT !.st = "wait"] /\ line' = line \o Frame(1)
      BY <2>2, <3>1 DEF HostAnswer
    <3>3. host' = [st |-> "wait", blk |-> 1] /\ line' = Frame(1)
      BY Zenon, <2>2, <2>4, <3>1, <3>2
    <3>4. Len(stream) = 1 - 1
      BY <2>5 DEF Greeting, InStep
    <3>5. Sending'
      BY Zenon, <1>1, <2>2, <2>4, <3>1, <3>3, <3>4, FrameSent
    <3> QED
      BY Zenon, <1>1, <1>3, <3>5 DEF InStep
  <2>6. CASE Answered
    <3>1. CASE back = <<"ACK">> /\ xmState = "TRANSMIT" /\ Len(stream) = host.blk
      <4>1. Head(back) = "ACK" /\ host.st = "wait"
        BY Zenon, <2>1, <2>6, <3>1 DEF Answered
      <4>2. CASE host.blk < FileLen
        <5>1. /\ host' = [host EXCEPT !.blk = @ + 1]
              /\ line' = line \o Frame(host.blk + 1)
          BY <2>2, <4>1, <4>2 DEF HostAnswer
        <5>2. host.blk + 1 \in 1..FileLen /\ Len(stream) = (host.blk + 1) - 1
          BY <2>2, <3>1, <4>2
        <5>3. host' = [st |-> "wait", blk |-> host.blk + 1] /\ line' = Frame(host.blk + 1)
          BY Zenon, <2>2, <2>4, <4>1, <5>1, <5>2
        <5>4. Sending'
          BY Zenon, <1>1, <2>4, <5>2, <5>3, FrameSent
        <5> QED
          BY Zenon, <1>1, <1>3, <5>4 DEF InStep
      <4>3. CASE host.blk = FileLen
        <5>1. host' = [host EXCEPT !.st = "eot"] /\ line' = Append(line, EOT)
          BY <2>2, <4>1, <4>3 DEF HostAnswer
        <5>2. host'.st = "eot" /\ host'.blk = FileLen /\ line' = <<EOT>>
          BY <2>2, <2>4, <4>3, <5>1
        <5>3. Ending'
          BY Zenon, <1>1, <2>4, <3>1, <4>3, <5>2 DEF Ending
        <5> QED
          BY Zenon, <1>1, <1>3, <5>3 DEF InStep
      <4> QED
        BY <2>2, <4>2, <4>3
    <3>2. CASE back = <<"NAK">> \/ back = <<"C">>
      <4>1. /\ Head(back) \in {"NAK", "C"} /\ host.st = "wait"
            /\ Head(back) = "C" => host.blk = 1
        BY <2>1, <2>6, <3>2 DEF Answered
      <4>2. host' = [host EXCEPT !.st = "wait"] /\ line' = line \o Frame(host.blk)
        BY <2>2, <4>1 DEF HostAnswer
      <4>3. host' = [st |-> "wait", blk |-> host.blk] /\ line' = Frame(host.blk)
        BY Zenon, <2>2, <2>4, <4>2
      <4>4. Len(stream) = host.blk - 1
        BY <2>1, <2>6, <3>2 DEF Answered, InStep
      <4>5. Sending'
        BY Zenon, <1>1, <2>2, <2>4, <4>3, <4>4, FrameSent
      <4> QED
        BY Zenon, <1>1, <1>3, <4>5 DEF InStep
    <3> QED
      BY Zenon, <2>6, <3>1, <3>2 DEF Answered
  <2>7. CASE Ending
    <3>1. Head(back) = "NAK" /\ host.st = "eot"
      BY Zenon, <1>1, <2>1, <2>7 DEF Ending
    <3>2. host' = [host EXCEPT !.st = "eot"] /\ line' = Append(line, EOT)
      BY Zenon, <3>1 DEF HostAnswer
    <3>3. host'.st = "eot" /\ host'.blk = host.blk /\ line' = <<EOT>>
      BY <2>2, <2>4, <3>2
    <3>4. Ending'
      BY Zenon, <1>1, <2>4, <2>7, <3>3 DEF Ending
    <3> QED
      BY Zenon, <1>1, <1>3, <3>4 DEF InStep
  <2> QED
    BY Zenon, <2>4, <2>5, <2>6, <2>7
<1> QED
  BY Zenon, <1>2, <1>3

(* A byte is lost.                                                         *)
LEMMA DropStep ==
  ASSUME TypeOK, InStep, DropByte, Prompt'
  PROVE  InStep'
<1> DEFINE t == Tail(line)
<1>1. /\ UNCHANGED <<xmState, frame_offset, frame, stream, why, host, back>>
      /\ line # <<>> /\ line' = t /\ xmState # "ENTRY"
  BY Zenon DEF DropByte, rxVars, nandVars, InStep
<1>2. ~(/\ frame_offset = 0 /\ Len(line) > 1 /\ line[2].i > 1 /\ Ends(line[2]))
  BY PromptFault DEF DropByte, Fault, Ends
<1>3. /\ t \in Seq(Byte) /\ Len(line) \in Nat \ {0} /\ Len(t) = Len(line) - 1
      /\ \A j \in 1..Len(t) : t[j] = line[j + 1]
      /\ FrameSize \in Nat /\ Len(frame) \in Nat
  BY <1>1, SizeAssumption DEF TypeOK
<1>4. \A u \in Seq(Byte) : Len(u) = 0 => u = <<>>
  OBVIOUS
<1> HIDE DEF t
<1>5. CASE xmState \notin {"WAIT_TRANS", "TRANSMIT"}
  BY Zenon, <1>1, <1>5 DEF InStep
<1>6. CASE xmState \in {"WAIT_TRANS", "TRANSMIT"}
  <2>1. Sending \/ Ending \/ Cancelled
    BY Zenon, <1>1, <1>6 DEF InStep, Greeting, Answered
  <2>2. CASE Sending
    <3>1. \A j \in 1..Len(line) :
            /\ line[j].i \in (Len(frame) + j)..(FrameSize - Len(line) + j)
            /\ line[j] = Frame(host.blk)[line[j].i]
      BY Zenon, <2>2 DEF Sending, InFrame
    <3>2. \A j \in 1..Len(frame) :
            /\ frame[j].i \in (0 + j)..((FrameSize - Len(line)) - Len(frame) + j)
            /\ frame[j] = Frame(host.blk)[frame[j].i]
      BY Zenon, <2>2 DEF Sending, InFrame
    <3>3. InFrame(host.blk, t, Len(frame), FrameSize)
      <4> SUFFICES ASSUME NEW j \in 1..Len(t)
                   PROVE  /\ t[j].i \in (Len(frame) + j)..(FrameSize - Len(t) + j)
                          /\ t[j] = Frame(host.blk)[t[j].i]
        BY Zenon DEF InFrame
      <4>1. j + 1 \in 1..Len(line) /\ t[j] = line[j + 1]
        BY SMTT(60), <1>3
      <4>2. /\ t[j].i \in (Len(frame) + (j + 1))..(FrameSize - Len(line) + (j + 1))
            /\ t[j] = Frame(host.blk)[t[j].i]
        BY Zenon, <3>1, <4>1
      <4>3. /\ j \in Nat
            /\ \A i : i \in (Len(frame) + (j + 1))..(FrameSize - Len(line) + (j + 1)) =>
                      i \in (Len(frame) + j)..(FrameSize - Len(t) + j)
        BY <1>3
      <4> QED
        BY Zenon, <4>2, <4>3
    <3>4. InFrame(host.blk, frame, 0, FrameSize - Len(t))
      <4> SUFFICES ASSUME NEW j \in 1..Len(frame)
                   PROVE  /\ frame[j].i \in (0 + j)..((FrameSize - Len(t)) - Len(frame) + j)
                          /\ frame[j] = Frame(host.blk)[frame[j].i]
        BY Zenon DEF InFrame
      <4>1. /\ frame[j].i \in (0 + j)..((FrameSize - Len(line)) - Len(frame) + j)
            /\ frame[j] = Frame(host.blk)[frame[j].i]
        BY Zenon, <3>2
      <4>2. /\ j \in Nat
            /\ \A i : i \in (0 + j)..((FrameSize - Len(line)) - Len(frame) + j) =>
                      i \in (0 + j)..((FrameSize - Len(t)) - Len(frame) + j)
        BY <1>3
      <4> QED
        BY Zenon, <4>1, <4>2
    <3>5. ASSUME frame = <<>>, t # <<>> PROVE ~Ends(t[1])
      <4>1. Len(t) >= 1 /\ Len(line) > 1 /\ t[1] = line[2]
        BY <1>3, <1>4, <3>5
      <4>2. 2 \in 1..Len(line)
        BY <1>3, <4>1
      <4>3. line[2].i \in (Len(frame) + 2)..(FrameSize - Len(line) + 2)
        BY Zenon, <3>1, <4>2
      <4>4. line[2].i > 1
        BY <1>3, <4>3
      <4>5. frame_offset = 0
        BY Zenon, <3>5, OffsetIsLength DEF InStep
      <4> QED
        BY Zenon, <1>2, <4>1, <4>4, <4>5
    <3>6. Sending'
      BY Zenon, <1>1, <2>2, <3>3, <3>4, <3>5 DEF Sending
    <3> QED
      BY Zenon, <1>1, <1>6, <3>6 DEF InStep
  <2>3. CASE Ending
    <3>1. line = <<EOT>> /\ back = <<>>
      BY Zenon, <1>1, <2>3 DEF Ending
    <3>2. Len(line) = 1
      BY Zenon, <3>1
    <3>3. t = <<>>
      BY <1>3, <1>4, <3>2
    <3>4. Ending'
      BY Zenon, <1>1, <2>3, <3>1, <3>3 DEF Ending
    <3> QED
      BY Zenon, <1>1, <1>6, <3>4 DEF InStep
  <2>4. CASE Cancelled
    <3>1. line = <<CAN>>
      BY Zenon, <1>1, <2>4 DEF Cancelled
    <3>2. Len(line) = 1
      BY Zenon, <3>1
    <3>3. t = <<>> /\ Len(t) = 0
      BY <1>3, <1>4, <3>2
    <3>4. Len(frame) + Len(t) <= FrameSize
      BY SMTT(60), <1>3, <2>4, <3>2, <3>3 DEF Cancelled
    <3>5. Cancelled'
      BY Zenon, <1>1, <2>4, <3>3, <3>4 DEF Cancelled
    <3> QED
      BY Zenon, <1>1, <1>6, <3>5 DEF InStep
  <2> QED
    BY Zenon, <2>1, <2>2, <2>3, <2>4
<1> QED
  BY Zenon, <1>5, <1>6

(* The user cancels between two frames.                                    *)
LEMMA CancelStep ==
  ASSUME TypeOK, InStep, HostCancel
  PROVE  InStep'
<1>1. /\ UNCHANGED <<xmState, frame_offset, frame, stream, why>>
      /\ host.st = "wait" /\ host'.st = "failed" /\ back' = <<>>
      /\ line' = Append(line, CAN) /\ line = <<>> /\ xmState # "ENTRY"
  BY Zenon DEF HostCancel, rxVars, nandVars, InStep, TypeOK, HostStates
<1>2. line' = <<CAN>> /\ Len(<<CAN>>) = 1 /\ Len(<<>>) = 0
  BY <1>1
<1>3. CASE xmState \notin {"WAIT_TRANS", "TRANSMIT"}
  BY Zenon, <1>1, <1>3 DEF InStep
<1>4. CASE xmState \in {"WAIT_TRANS", "TRANSMIT"}
  <2>1. Sending \/ Answered
    BY Zenon, <1>1, <1>4 DEF InStep, Greeting, Ending, Cancelled
  <2>2. FrameSize \in Nat /\ FrameSize >= 2 /\ Len(frame) \in Nat
    BY SizeAssumption DEF TypeOK
  <2>3. Len(frame) < FrameSize
    BY <1>2, <2>1, <2>2 DEF Sending, Answered
  <2>4. frame # <<>> => frame[1].v # "EOT"
    BY Zenon, <2>1 DEF Sending, Answered, Ends
  <2>5. Len(frame) + Len(<<CAN>>) <= FrameSize /\ Len(frame) # FrameSize
    BY <1>2, <2>2, <2>3
  <2>6. Cancelled'
    BY Zenon, <1>1, <1>2, <2>4, <2>5 DEF Cancelled
  <2> QED
    BY Zenon, <1>1, <1>4, <2>6 DEF InStep
<1> QED
  BY Zenon, <1>3, <1>4

(* The other steps of the host, and those of the menu.                     *)
LEMMA OtherStep ==
  ASSUME TypeOK, EntryClean, InStep,
         Entry \/ Exit \/ doXmodemDownloadInit \/ HostStart \/ HostGiveUp
  PROVE  InStep'
<1>1. 0 <= FrameSize
  BY SizeAssumption
<1>2. CASE Entry
  <2>1. /\ xmState' = "WAIT_TRANS" /\ frame_offset' = 0 /\ frame' = <<>>
        /\ UNCHANGED <<stream, line, back, host, why>> /\ xmState = "ENTRY"
    BY Zenon, <1>2 DEF Entry, envVars
  <2>2. stream = <<>> /\ Greeting'
    BY Zenon, <2>1 DEF EntryClean, InStep, Greeting
  <2> QED
    BY Zenon, <1>1, <2>1, <2>2 DEF InStep
<1>3. CASE Exit
  <2>1. xmState' = "STOP" /\ UNCHANGED <<frame_offset, stream, why>>
    BY Zenon, <1>3 DEF Exit, nandVars
  <2> QED
    BY Zenon, <2>1 DEF InStep
<1>4. CASE doXmodemDownloadInit
  <2>1. /\ xmState' = "ENTRY" /\ stream' = <<>> /\ why' = "running"
        /\ host'.st = "idle" /\ host'.blk = 1 /\ line' = <<>> /\ back' = <<>>
        /\ frame_offset' = frame_offset
    BY Zenon, <1>4 DEF doXmodemDownloadInit
  <2>2. 1..Len(<<>>) = {}
    OBVIOUS
  <2> QED
    BY Zenon, <2>1, <2>2 DEF InStep
<1>5. CASE HostStart
  <2>1. /\ UNCHANGED <<xmState, frame_offset, frame, stream, why, line, back>>
        /\ host.st = "idle" /\ host'.st = "hello" /\ host'.blk = host.blk
    BY Zenon, <1>5 DEF HostStart, rxVars, nandVars, TypeOK, HostStates
  <2>2. ASSUME xmState \in {"WAIT_TRANS", "TRANSMIT"} PROVE Greeting'
    BY Zenon, <2>1, <2>2 DEF InStep, Greeting, Sending, Answered, Ending, Cancelled
  <2> QED
    BY Zenon, <2>1, <2>2 DEF InStep
<1>6. CASE HostGiveUp
  <2>1. xmState = "STOP" /\ UNCHANGED <<xmState, frame_offset, stream, why>>
    BY Zenon, <1>6 DEF HostGiveUp, rxVars, nandVars
  <2> QED
    BY Zenon, <2>1 DEF InStep
<1> QED
  BY Zenon, <1>2, <1>3, <1>4, <1>5, <1>6

-----------------------------------------------------------------------------
(* Every step keeps a prompt host and the receiver in step.                *)
LEMMA PromptNext == IInv /\ IInv' /\ PromptInv /\ [Next]_vars => PromptInv'
<1> SUFFICES ASSUME IInv, IInv', PromptInv, [Next]_vars, Prompt'
             PROVE  InStep'
  BY Zenon DEF PromptInv
<1>1. TypeOK /\ TypeOK' /\ RunningOrEnded /\ EntryClean
  BY Zenon DEF IInv
<1>2. ASSUME faults' = faults PROVE InStep
  BY Zenon, <1>2 DEF Prompt, PromptInv
<1>3. ASSUME NEW k, faults' = Append(faults, k) PROVE InStep
  BY Zenon, <1>1, <1>3, PromptFault DEF PromptInv
<1>4. CASE Entry \/ Exit \/ doXmodemDownloadInit \/ HostStart \/ HostGiveUp
  <2>1. faults' = faults
    BY Zenon, <1>4 DEF Entry, Exit, doXmodemDownloadInit, HostStart, HostGiveUp, countVars
  <2> QED
    BY Zenon, <1>1, <1>2, <1>4, <2>1, OtherStep
<1>5. ASSUME NEW b \in Arrivals, WaitSoh(b) \/ TransSoh(b) PROVE InStep'
  <2>1. faults' = faults
    BY Zenon, <1>5 DEF WaitSoh, TransSoh, GoodFrame, countVars
  <2> QED
    BY Zenon, <1>1, <1>2, <1>5, <2>1, GoodStep
<1>6. ASSUME NEW b \in Arrivals, WaitKeep(b) PROVE InStep'
  <2>1. /\ b # <<>> /\ xmState = "WAIT_TRANS"
        /\ ~checkSohFrame(GotFrame(b), GotOffset(b))
        /\ frame' = GotFrame(b) /\ frame_offset' = GotOffset(b)
        /\ line' = Tail(line) /\ faults' = faults
        /\ UNCHANGED <<xmState, stream, host, back, why>>
    BY Zenon, <1>6 DEF WaitKeep, KeepByte, Consume, nandVars, countVars
  <2>2. line # <<>> /\ b = <<Head(line)>> /\ ~Ending
    BY Zenon, <1>6, <2>1 DEF Arrivals, Ending
  <2> QED
    BY Zenon, <1>1, <1>2, <2>1, <2>2, KeepStep
<1>7. ASSUME NEW b \in Arrivals, WaitLate(b) \/ TransLate(b) PROVE InStep'
  <2>1. Expired(b)
    BY Zenon, <1>7 DEF WaitLate, TransLate
  <2>2. InStep
    BY Zenon, <1>2, <1>3, <2>1 DEF Expired
  <2> QED
    BY Zenon, <1>1, <1>7, <2>2, LateStep
<1>8. ASSUME NEW b \in Arrivals, TransEot(b) PROVE InStep'
  <2>1. faults' = faults
    BY Zenon, <1>8 DEF TransEot, countVars
  <2> QED
    BY Zenon, <1>1, <1>2, <1>8, <2>1, EotStep
<1>9. ASSUME NEW b \in Arrivals, TransKeep(b) PROVE InStep'
  <2>1. faults' = faults
    BY Zenon, <1>9 DEF TransKeep, countVars
  <2> QED
    BY Zenon, <1>1, <1>2, <1>9, <2>1, TransKeepStep
<1>10. CASE HostAnswer
  <2>1. faults' = faults
    BY Zenon, <1>10 DEF HostAnswer, countVars
  <2> QED
    BY Zenon, <1>1, <1>2, <1>10, <2>1, AnswerStep
<1>11. CASE DropByte
  <2>1. InStep
    BY Zenon, <1>3, <1>11 DEF DropByte, Fault
  <2> QED
    BY Zenon, <1>1, <1>11, <2>1, DropStep
<1>12. ~LoseAnswer
  BY <1>1, PromptFault DEF LoseAnswer, Fault
<1>13. CASE HostCancel
  <2>1. InStep
    BY Zenon, <1>3, <1>13 DEF HostCancel, Fault
  <2> QED
    BY Zenon, <1>1, <1>13, <2>1, CancelStep
<1>14. CASE UNCHANGED vars
  <2>1. /\ faults' = faults
        /\ UNCHANGED <<xmState, frame_offset, frame, stream, host, line, back, why>>
    BY Zenon, <1>14 DEF vars, rxVars, nandVars, envVars, countVars
  <2> QED
    BY Zenon, <1>2, <2>1 DEF InStep, Greeting, Sending, Answered, Ending, Cancelled
<1> QED
  BY Zenon, <1>4, <1>5, <1>6, <1>7, <1>8, <1>9, <1>10, <1>11, <1>12, <1>13, <1>14
     DEF Next, Board, Host

(* Field n of the file is in page (n - 1) \div PageBlocks.                  *)
LEMMA PageOfField ==
  ASSUME NEW m \in Nat \ {0}, NEW n \in Nat \ {0}
  PROVE  LET p == (n - 1) \div m
             i == ((n - 1) % m) + 1
         IN  p \in Nat /\ i \in 1..m /\ n = p * m + i
<1> DEFINE p == (n - 1) \div m
           r == (n - 1) % m
<1>1. p \in Nat /\ r \in 0..(m - 1) /\ n - 1 = p * m + r
  OBVIOUS
<1> HIDE DEF p, r
<1>2. r + 1 \in 1..m /\ n = p * m + (r + 1)
  BY <1>1
<1> QED
  BY Zenon, <1>1, <1>2 DEF p, r

(* A field in page p of fewer than q pages' fields: p is below q.          *)
LEMMA PageBelow ==
  ASSUME NEW m \in Nat \ {0}, NEW p \in Int, NEW q \in Int, NEW i \in Int,
         i > 0, p * m + i <= q * m
  PROVE  p < q
<1>1. (q - p) * m = q * m - p * m
  OBVIOUS
<1>2. (q - p) * m > 0
  BY <1>1
<1> QED
  BY <1>2

(* A complete stream is the file in the flash.                             *)
LEMMA StreamIsFile ==
  ASSUME IInv, InStep, why = "eot"
  PROVE  FileInFlash
<1> DEFINE L == FullPages
<1>1. /\ PageBlocks \in Nat \ {0} /\ FileLen \in Nat \ {0} /\ NPages \in Nat
      /\ FileLen <= NPages * PageBlocks
  BY Zenon, SizeAssumption, GeometryAssumption, FileFits
<1>2. L \in Int /\ buff_offset \in 0..(PageBlocks - 1)
  BY SMTT(60) DEF IInv, TypeOK, FullPages
<1>3. /\ FileLen = L * PageBlocks + buff_offset
      /\ \A p \in 0..(L - 1) : p < NPages =>
           flash[p] = [i \in 1..PageBlocks |-> stream[p * PageBlocks + i]]
      /\ \A i \in 1..buff_offset : nand_buff[i] = stream[L * PageBlocks + i]
      /\ L < NPages => flash[L] = nand_buff
  BY Zenon DEF IInv, StreamStored, RunningOrEnded, InStep
<1>4. \A n \in 1..FileLen : stream[n] = n
  BY Zenon DEF InStep
<1>5. nand_buff \in [1..PageBlocks -> Blocks]
  BY Zenon DEF IInv, TypeOK, Pages
<1> HIDE DEF L
<1> SUFFICES ASSUME NEW n \in 1..FileLen
             PROVE  LET page == flash[(n - 1) \div PageBlocks]
                    IN  page # Erased /\ page[((n - 1) % PageBlocks) + 1] = n
  BY Zenon DEF FileInFlash
<1> DEFINE p == (n - 1) \div PageBlocks
           i == ((n - 1) % PageBlocks) + 1
<1>6. p \in Nat /\ i \in 1..PageBlocks /\ n = p * PageBlocks + i
  BY <1>1, PageOfField
<1> HIDE DEF p, i
<1>7. p < NPages
  BY <1>1, <1>6, PageBelow
<1>8. p < L + 1
  <2>1. (L + 1) * PageBlocks = L * PageBlocks + PageBlocks
    BY <1>1, <1>2
  <2>2. L * PageBlocks \in Int /\ p * PageBlocks \in Int
    BY <1>1, <1>2, <1>6
  <2>3. p * PageBlocks + i <= (L + 1) * PageBlocks
    BY <1>1, <1>2, <1>3, <1>6, <2>1, <2>2
  <2> QED
    BY <1>1, <1>2, <1>6, <2>3, PageBelow
<1>9. flash[p] # <<>> /\ flash[p][i] = n
  <2>1. \A f \in [1..PageBlocks -> Blocks] : f # <<>>
    BY <1>1
  <2>2. CASE p < L
    <3>1. flash[p] = [j \in 1..PageBlocks |-> stream[p * PageBlocks + j]]
      <4>1. p \in 0..(L - 1)
        BY <1>2, <1>6, <2>2
      <4> QED
        BY Zenon, <1>3, <1>7, <4>1
    <3>2. flash[p][i] = n
      BY Zenon, <1>4, <1>6, <3>1
    <3>3. DOMAIN flash[p] = 1..PageBlocks /\ 1 \in 1..PageBlocks /\ DOMAIN <<>> = {}
      BY <1>1, <3>1
    <3> QED
      BY Zenon, <3>2, <3>3
  <2>3. CASE p = L
    <3>1. flash[p] = nand_buff
      BY Zenon, <1>3, <1>7, <2>3
    <3>2. i \in 1..buff_offset
      <4>1. L * PageBlocks \in Int
        BY <1>1, <1>2
      <4>2. n = L * PageBlocks + i /\ n <= L * PageBlocks + buff_offset
        BY <1>1, <1>3, <1>6, <2>3
      <4>3. i \in Nat /\ i >= 1 /\ buff_offset \in Nat
        BY <1>1, <1>2, <1>6
      <4> QED
        BY <4>1, <4>2, <4>3
    <3>3. flash[p][i] = n
      BY Zenon, <1>3, <1>4, <1>6, <2>3, <3>1, <3>2
    <3> QED
      BY Zenon, <1>5, <2>1, <3>1, <3>3
  <2> QED
    BY <1>2, <1>6, <1>8, <2>2, <2>3
<1> QED
  BY Zenon, <1>9 DEF p, i, Erased

(* With a prompt host the receiver and the host stay in step, for every    *)
(* file, whatever its bytes look like and whichever of them get lost.      *)
THEOREM InStepWithHost == Spec => []PromptInv
<1>1. Init => PromptInv
  <2> SUFFICES ASSUME Init PROVE InStep
    BY Zenon DEF PromptInv
  <2>1. 1..Len(<<>>) = {} /\ 0 <= FrameSize
    BY SizeAssumption
  <2> QED
    BY Zenon, <2>1 DEF Init, InStep
<1>2. IInv /\ IInv' /\ PromptInv /\ [Next]_vars => PromptInv'
  BY Zenon, PromptNext
<1> QED
  BY <1>1, <1>2, Invariance, PTL DEF Spec

(* With a prompt host xmGetData never writes behind frame[], although it   *)
(* ignores the room it is given.                                           *)
THEOREM FramesFit == Spec => []FrameFits
<1>1. PromptInv => FrameFits
  BY Zenon DEF PromptInv, InStep, FrameFits
<1> QED
  BY <1>1, InStepWithHost, PTL

(* With a prompt host "program finished!" means that the flash holds the   *)
(* file, for every file that fits and every page and block size.           *)
THEOREM FileInstalled == Spec => []FlashIsFile
<1>1. IInv /\ PromptInv => FlashIsFile
  BY Zenon, StreamIsFile DEF PromptInv, FlashIsFile
<1> QED
  BY <1>1, Invariance, InStepWithHost, PTL
=============================================================================
