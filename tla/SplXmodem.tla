----------------------------- MODULE SplXmodem -----------------------------
(***************************************************************************)
(* The XMODEM download of the SPL: the receiver of spl/xmodem.c, the       *)
(* callbacks of spl/board_init_f_spl.c that program the NAND flash, and,   *)
(* external to the repository, the XMODEM-CRC sender on the host and the   *)
(* serial line.  One board action is one pass of the poll loop: at most    *)
(* one byte is taken from the UART and xModemFSM runs once.                *)
(*                                                                         *)
(* A byte is a record: its value as far as the receiver tells values       *)
(* apart, and the place in a frame it was sent from.  CRC and number check *)
(* accept exactly the unaltered bytes of one frame (error detection is     *)
(* taken to be perfect).  128-byte data fields are numbered 1..FileLen;    *)
(* 0 stands for whatever was in the flash or in the buffer before.         *)
(***************************************************************************)
EXTENDS SplNand, Sequences

CONSTANTS
  FileLen,       \* data fields in the host's file
  FrameSize,     \* XMODEM_SOH_FRAME_SIZE, 133 in the code
  OffsetMod,     \* frame_offset is an unsigned char: 256 in the code
  Value,         \* Value[n][i]: what byte i >= 2 of frame n looks like
  PageBlocks,    \* data fields per NAND page: 2048 / 128
  NcgRetries,    \* 100 in the code
  NakRetries,    \* 50 in the code
  Faults,        \* which of "drop", "loseack", "slow", "cancel" may happen
  MaxFaults,     \* bound on the number of faults in a behaviour
  MaxDownloads   \* bound on the number of downloads in a behaviour

ByteValues == {"SOH", "EOT", "CAN", "x"}

ASSUME SizeAssumption ==
  /\ FileLen \in Nat \ {0} /\ FrameSize \in Nat \ {0, 1}
  /\ OffsetMod \in Nat /\ OffsetMod > FrameSize
  /\ PageBlocks \in Nat \ {0}
  /\ NcgRetries \in Nat /\ NakRetries \in Nat
  /\ MaxFaults \in Nat /\ MaxDownloads \in Nat
ASSUME FileFits == FileLen <= NPages * PageBlocks
ASSUME ValueAssumption ==
  Value \in [1..FileLen -> [2..FrameSize -> ByteValues]]
ASSUME FaultsAssumption ==
  Faults \subseteq {"drop", "loseack", "slow", "cancel"}

(* A "misread" is the loss of what comes before a byte of a frame that     *)
(* looks like EOT or CAN, so that this byte is the first one to arrive.    *)
FaultKinds == {"drop", "misread", "loseack", "slow", "cancel"}

VARIABLES
  xmState,       \* xmodem.xmState
  ncgRetry,      \* xmodem.ncg_send_retry_times
  nakRetry,      \* xmodem.soh_nak_retry_times
  frame_offset,  \* xmodem.frame_offset
  frame,         \* the bytes of xmodem.frame below frame_offset
  nand_buff,     \* nand_buff, in data fields
  buff_offset,   \* buff_offset, in data fields
  nand_address,  \* nand_address, in pages
  flash,         \* contents of every page
  host,          \* the sender: its state and the data field it is sending
  line,          \* bytes on the way to the board
  back,          \* answers on the way to the host
  faults,        \* history: the faults so far
  downloads,     \* downloads started so far
  stream,        \* history: numbers of the frames accepted by this download
  why            \* history: what ended this download

rxVars    == <<xmState, ncgRetry, nakRetry, frame_offset, frame>>
nandVars  == <<nand_buff, buff_offset, nand_address, flash, stream>>
envVars   == <<host, line, back>>
countVars == <<faults, downloads>>
vars      == <<rxVars, nandVars, envVars, countVars, why>>

Blocks == 0..FileLen
Pages  == [1..PageBlocks -> Blocks]
Byte   == [v : ByteValues, n : Blocks, i : 0..FrameSize]
Answer == {"ACK", "NAK", "C"}
HostStates == [st : {"idle", "hello", "wait", "eot", "done", "failed"},
               blk : 1..FileLen]

(***************************************************************************)
(* The frame of data field n as the host puts it on the line.              *)
(***************************************************************************)
Frame(n) == [i \in 1..FrameSize |->
               IF i = 1 THEN [v |-> "SOH", n |-> n, i |-> 1]
                        ELSE [v |-> Value[n][i], n |-> n, i |-> i]]
EOT == [v |-> "EOT", n |-> 0, i |-> 0]
CAN == [v |-> "CAN", n |-> 0, i |-> 0]

Init ==
  /\ xmState = "ENTRY" /\ ncgRetry = 0 /\ nakRetry = 0
  /\ frame_offset = 0 /\ frame = <<>>
  /\ nand_buff = [i \in 1..PageBlocks |-> 0]
  /\ buff_offset = 0 /\ nand_address = 0
  /\ flash \in {[p \in 0..(NPages - 1) |-> Erased],
                [p \in 0..(NPages - 1) |-> [i \in 1..PageBlocks |-> 0]]}
  /\ host = [st |-> "idle", blk |-> 1] /\ line = <<>> /\ back = <<>>
  /\ faults = <<>> /\ downloads = 1 /\ stream = <<>> /\ why = "running"

-----------------------------------------------------------------------------
(* board_init_f_spl.c: programming the flash *)

(* Mutant: buff_offset is not reset after a full page. *)
TryProgram_NoReset(n) ==
  LET buf == [nand_buff EXCEPT ![buff_offset + 1] = n]
      full == buff_offset + 1 >= PageBlocks
  IN  /\ nand_buff' = buf
      /\ buff_offset' = buff_offset + 1
      /\ flash' = IF full THEN program_tonand(flash, nand_address, buf) ELSE flash
      /\ nand_address' = IF full THEN nand_address + 1 ELSE nand_address
      /\ stream' = Append(stream, n)

(* try_program with bfinish = false, for one data field.                   *)
TryProgram(n) ==
  LET buf == [nand_buff EXCEPT ![buff_offset + 1] = n]
      full == buff_offset + 1 >= PageBlocks
  IN  /\ nand_buff' = buf
      /\ buff_offset' = IF full THEN 0 ELSE buff_offset + 1
      /\ flash' = IF full THEN program_tonand(flash, nand_address, buf) ELSE flash
      /\ nand_address' = IF full THEN nand_address + 1 ELSE nand_address
      /\ stream' = Append(stream, n)

(* try_program with bfinish = true: one page, whatever buff_offset is.     *)
FinishProgram ==
  /\ flash' = program_tonand(flash, nand_address, nand_buff)
  /\ nand_address' = nand_address + 1
  /\ UNCHANGED <<nand_buff, buff_offset, stream>>

-----------------------------------------------------------------------------
(* xmodem.c: the receiver *)

(* What the UART may deliver to this pass: nothing, or the next byte.      *)
Arrivals == {<<>>} \cup (IF line = <<>> THEN {} ELSE {<<Head(line)>>})
Consume(b) == line' = IF b = <<>> THEN line ELSE Tail(line)

(* xmGetData after frame_offset: bytes past the end of frame[] fall into   *)
(* the unused memory behind the last .bss object.                          *)
GotOffset(b) == (frame_offset + Len(b)) % OffsetMod
GotFrame(b) ==
  IF GotOffset(b) = 0 THEN <<>>
  ELSE IF frame_offset < FrameSize THEN frame \o b ELSE frame

checkSohFrame(f, off) ==
  /\ off >= FrameSize
  /\ f[1].v = "SOH"
  /\ \A i \in 2..FrameSize : f[i].i = i /\ f[i].n = f[2].n

(* dealExceptionFrame after its getData: a first byte EOT or CAN counts.   *)
dealExceptionFrame(f, off) ==
  IF off = 1 /\ f[1].v \in {"EOT", "CAN"} THEN f[1].v ELSE "UNKNOWN"

(* put_chars: a host program that is not transferring drops the byte.      *)
putData(c) ==
  back' = IF host.st \in {"hello", "wait", "eot"} THEN Append(back, c) ELSE back

(* timestamp - ..._prev >= 1000.  A prompt host answers within the second, *)
(* so the timer expires only on a silent line; a slow host is a fault.     *)
Expired(b) ==
  \/ /\ b = <<>> /\ line = <<>> /\ back = <<>>
     /\ UNCHANGED faults
  \/ /\ "slow" \in Faults /\ Len(faults) < MaxFaults
     /\ faults' = Append(faults, "slow")

(* Mutant: XMEVT_ENTRY does not reset buff_offset. *)
Entry_KeepsOffset ==
  /\ xmState = "ENTRY"
  /\ xmState' = "WAIT_TRANS" /\ ncgRetry' = 0 /\ nakRetry' = 0
  /\ frame_offset' = 0 /\ frame' = <<>>
  /\ UNCHANGED <<nandVars, envVars, countVars, why>>

Entry ==
  /\ xmState = "ENTRY"
  /\ xmState' = "WAIT_TRANS" /\ ncgRetry' = 0 /\ nakRetry' = 0
  /\ frame_offset' = 0 /\ frame' = <<>> /\ buff_offset' = 0
  /\ UNCHANGED <<nand_buff, nand_address, flash, stream, envVars, countVars, why>>

(* A good frame, in WAIT_TRANS or TRANSMIT: program, then acknowledge.     *)
GoodFrame(b) ==
  /\ checkSohFrame(GotFrame(b), GotOffset(b))
  /\ TryProgram(GotFrame(b)[2].n)
  /\ xmState' = "TRANSMIT" /\ nakRetry' = 0
  /\ frame_offset' = 0 /\ frame' = <<>>
  /\ putData("ACK") /\ Consume(b)
  /\ UNCHANGED <<ncgRetry, host, countVars, why>>

(* A byte that completes nothing, the timer not expired.                   *)
KeepByte(b) ==
  /\ b # <<>>
  /\ frame_offset' = GotOffset(b) /\ frame' = GotFrame(b)
  /\ Consume(b)
  /\ UNCHANGED <<xmState, ncgRetry, nakRetry, nandVars, host, back, countVars, why>>

WaitSoh(b) == xmState = "WAIT_TRANS" /\ GoodFrame(b)

WaitKeep(b) ==
  /\ xmState = "WAIT_TRANS" /\ ~checkSohFrame(GotFrame(b), GotOffset(b))
  /\ KeepByte(b)

WaitLate(b) ==
  /\ xmState = "WAIT_TRANS" /\ ~checkSohFrame(GotFrame(b), GotOffset(b))
  /\ Expired(b) /\ Consume(b)
  /\ ncgRetry' = ncgRetry + 1
  /\ IF ncgRetry > NcgRetries
     THEN /\ xmState' = "EXIT" /\ why' = "retries"
          /\ frame_offset' = GotOffset(b) /\ frame' = GotFrame(b)
          /\ UNCHANGED back
     ELSE /\ frame_offset' = 0 /\ frame' = <<>>
          /\ putData("C")
          /\ UNCHANGED <<xmState, why>>
  /\ UNCHANGED <<nakRetry, nandVars, host, downloads>>

TransEot(b) ==
  /\ xmState = "TRANSMIT"
  /\ dealExceptionFrame(GotFrame(b), GotOffset(b)) = "EOT"
  /\ FinishProgram
  /\ xmState' = "EXIT" /\ why' = "eot"
  /\ frame_offset' = 0 /\ frame' = <<>>
  /\ Consume(b)
  /\ UNCHANGED <<ncgRetry, nakRetry, host, back, countVars>>

(* The branches after "is it EOT": the second dealExceptionFrame gets no   *)
(* byte.  It looks again at what the first call left behind, and the first *)
(* call has already thrown a CAN away.                                     *)
SecondLook(b) ==
  IF dealExceptionFrame(GotFrame(b), GotOffset(b)) = "UNKNOWN"
  THEN dealExceptionFrame(GotFrame(b), GotOffset(b)) ELSE "UNKNOWN"

NotEot(b) ==
  /\ xmState = "TRANSMIT"
  /\ dealExceptionFrame(GotFrame(b), GotOffset(b)) # "EOT"

(* What the first dealExceptionFrame leaves in the frame buffer.           *)
LeftOffset(b) ==
  IF dealExceptionFrame(GotFrame(b), GotOffset(b)) = "CAN" THEN 0 ELSE GotOffset(b)
LeftFrame(b) == IF LeftOffset(b) = 0 THEN <<>> ELSE GotFrame(b)

TransSoh(b) ==
  /\ NotEot(b) /\ SecondLook(b) # "CAN"
  /\ GoodFrame(b)

(* CAN would leave for EXIT here.                                          *)
TransKeep(b) ==
  /\ NotEot(b) /\ b # <<>>
  /\ ~checkSohFrame(LeftFrame(b), LeftOffset(b))
  /\ frame_offset' = LeftOffset(b) /\ frame' = LeftFrame(b)
  /\ xmState' = IF SecondLook(b) = "CAN" THEN "EXIT" ELSE xmState
  /\ why' = IF SecondLook(b) = "CAN" THEN "cancel" ELSE why
  /\ Consume(b)
  /\ UNCHANGED <<ncgRetry, nakRetry, nandVars, host, back, countVars>>

(* Mutants of the timeout in TRANSMIT: retries are not counted, the partial *)
(* frame is kept, the wrong control character is sent.                     *)
TransLate_Uncounted(b) ==
  /\ NotEot(b) /\ ~checkSohFrame(LeftFrame(b), LeftOffset(b))
  /\ Expired(b) /\ Consume(b)
  /\ frame_offset' = 0 /\ frame' = <<>> /\ putData("NAK")
  /\ UNCHANGED <<xmState, why, nakRetry, ncgRetry, nandVars, host, downloads>>

TransLate_KeepsFrame(b) ==
  /\ NotEot(b) /\ ~checkSohFrame(LeftFrame(b), LeftOffset(b))
  /\ Expired(b) /\ Consume(b) /\ nakRetry <= NakRetries
  /\ nakRetry' = nakRetry + 1 /\ putData("NAK")
  /\ frame_offset' = LeftOffset(b) /\ frame' = LeftFrame(b)
  /\ UNCHANGED <<xmState, why, ncgRetry, nandVars, host, downloads>>

TransLate(b) ==
  /\ NotEot(b) /\ SecondLook(b) # "CAN"
  /\ ~checkSohFrame(LeftFrame(b), LeftOffset(b))
  /\ Expired(b) /\ Consume(b)
  /\ frame_offset' = 0 /\ frame' = <<>>
  /\ nakRetry' = nakRetry + 1
  /\ IF nakRetry > NakRetries
     THEN xmState' = "EXIT" /\ why' = "retries" /\ UNCHANGED back
     ELSE putData("NAK") /\ UNCHANGED <<xmState, why>>
  /\ UNCHANGED <<ncgRetry, nandVars, host, downloads>>

Exit ==
  /\ xmState = "EXIT" /\ xmState' = "STOP"
  /\ UNCHANGED <<ncgRetry, nakRetry, frame_offset, frame, nandVars, envVars,
                 countVars, why>>

(* Command D of the menu once a download has stopped: xmInit, xmStart and  *)
(* nand_address = BL1_NF_ADDR.  Bytes still on the line go to the menu.    *)
doXmodemDownloadInit ==
  /\ xmState = "STOP" /\ downloads < MaxDownloads
  /\ host.st \in {"done", "failed"}
  /\ xmState' = "ENTRY" /\ nand_address' = 0
  /\ downloads' = downloads + 1 /\ stream' = <<>> /\ why' = "running"
  /\ host' = [st |-> "idle", blk |-> 1] /\ line' = <<>> /\ back' = <<>>
  /\ UNCHANGED <<ncgRetry, nakRetry, frame_offset, frame, nand_buff,
                 buff_offset, flash, faults>>

Board ==
  \/ Entry \/ Exit
  \/ \E b \in Arrivals : \/ WaitSoh(b) \/ WaitKeep(b) \/ WaitLate(b)
                         \/ TransEot(b) \/ TransSoh(b) \/ TransKeep(b)
                         \/ TransLate(b)

-----------------------------------------------------------------------------
(* The sender on the host and the serial line: external *)

HostStart ==
  /\ host.st = "idle" /\ host' = [host EXCEPT !.st = "hello"]
  /\ UNCHANGED <<rxVars, nandVars, line, back, countVars, why>>

(* One answer of the board: 'C' and NAK ask for the current frame, ACK for *)
(* the next one or, after the last, for EOT.                               *)
HostAnswer ==
  /\ host.st \in {"hello", "wait", "eot"} /\ back # <<>>
  /\ back' = IF host.st = "eot" /\ Head(back) = "ACK" THEN <<>> ELSE Tail(back)
  /\ \/ /\ \/ Head(back) = "C" /\ host.st \in {"hello", "wait"} /\ host.blk = 1
           \/ Head(back) = "NAK" /\ host.st = "wait"
        /\ host' = [host EXCEPT !.st = "wait"]
        /\ line' = line \o Frame(host.blk)
     \/ /\ Head(back) = "ACK" /\ host.st = "wait" /\ host.blk < FileLen
        /\ host' = [host EXCEPT !.blk = @ + 1]
        /\ line' = line \o Frame(host.blk + 1)
     \/ /\ \/ Head(back) = "ACK" /\ host.st = "wait" /\ host.blk = FileLen
           \/ Head(back) = "NAK" /\ host.st = "eot"
        /\ host' = [host EXCEPT !.st = "eot"]
        /\ line' = Append(line, EOT)
     \/ /\ Head(back) = "ACK" /\ host.st = "eot"
        /\ host' = [host EXCEPT !.st = "done"] /\ UNCHANGED line
     \/ /\ \/ Head(back) = "C" /\ (host.st = "eot" \/ host.blk > 1)
           \/ Head(back) # "C" /\ host.st = "hello"
        /\ UNCHANGED <<host, line>>
  /\ UNCHANGED <<rxVars, nandVars, countVars, why>>

(* No answer will come any more: the sender's own retries run out.         *)
HostGiveUp ==
  /\ xmState = "STOP" /\ back = <<>>
  /\ host.st \in {"idle", "hello", "wait", "eot"}
  /\ host' = [host EXCEPT !.st = "failed"] /\ line' = <<>>
  /\ UNCHANGED <<rxVars, nandVars, back, countVars, why>>

Fault(f, kind) ==
  f \in Faults /\ Len(faults) < MaxFaults /\ faults' = Append(faults, kind)

DropByte ==
  /\ line # <<>> /\ line' = Tail(line)
  /\ Fault("drop", IF /\ frame_offset = 0 /\ Len(line) > 1
                      /\ line[2].i > 1 /\ line[2].v \in {"EOT", "CAN"}
                   THEN "misread" ELSE "drop")
  /\ UNCHANGED <<rxVars, nandVars, host, back, downloads, why>>

LoseAnswer ==
  /\ Fault("loseack", "loseack") /\ back # <<>> /\ back' = Tail(back)
  /\ UNCHANGED <<rxVars, nandVars, host, line, downloads, why>>

(* The user cancels in the terminal program: it stops between two frames   *)
(* and sends CAN.                                                          *)
HostCancel ==
  /\ Fault("cancel", "cancel") /\ host.st = "wait" /\ line = <<>>
  /\ host' = [host EXCEPT !.st = "failed"] /\ line' = Append(line, CAN)
  /\ back' = <<>>
  /\ UNCHANGED <<rxVars, nandVars, downloads, why>>

Host == HostStart \/ HostAnswer \/ HostGiveUp
Next == Board \/ doXmodemDownloadInit \/ Host
          \/ DropByte \/ LoseAnswer \/ HostCancel

(* The poll loop and the terminal program run for ever.                    *)
Fairness == WF_vars(Board) /\ WF_vars(Host)
Spec     == Init /\ [][Next]_vars
FairSpec == Spec /\ Fairness
-----------------------------------------------------------------------------
(* Properties *)

TypeOK ==
  /\ xmState \in {"ENTRY", "WAIT_TRANS", "TRANSMIT", "EXIT", "STOP"}
  /\ ncgRetry \in 0..(NcgRetries + 2) /\ nakRetry \in 0..(NakRetries + 2)
  /\ frame_offset \in 0..(OffsetMod - 1)
  /\ frame \in Seq(Byte)
  /\ Len(frame) = IF frame_offset < FrameSize THEN frame_offset ELSE FrameSize
  /\ nand_buff \in Pages /\ buff_offset \in 0..(PageBlocks - 1)
  /\ nand_address \in Nat
  /\ flash \in [0..(NPages - 1) -> Pages \cup {Erased}]
  /\ host \in HostStates
  /\ line \in Seq(Byte) /\ back \in Seq(Answer)
  /\ faults \in Seq(FaultKinds) /\ downloads \in Nat
  /\ stream \in Seq(Blocks)
  /\ why \in {"running", "eot", "cancel", "retries"}

(* The pages that hold accepted data; the page written on EOT comes after  *)
(* them.                                                                   *)
FullPages == IF why = "eot" THEN nand_address - 1 ELSE nand_address

(* try_program loses, repeats and reorders nothing: at any time after the  *)
(* entry of a download the accepted data fields are, in order, the pages   *)
(* programmed so far followed by the first buff_offset fields of           *)
(* nand_buff, and after EOT the last page programmed is nand_buff.         *)
StreamStored ==
  xmState # "ENTRY" =>
    /\ Len(stream) = FullPages * PageBlocks + buff_offset
    /\ \A p \in 0..(FullPages - 1) : p < NPages =>
         flash[p] = [i \in 1..PageBlocks |-> stream[p * PageBlocks + i]]
    /\ \A i \in 1..buff_offset :
         nand_buff[i] = stream[FullPages * PageBlocks + i]
    /\ why = "eot" /\ FullPages < NPages => flash[FullPages] = nand_buff

(* program_tonand erases a block only on its first page, so every other    *)
(* page it writes must still be erased: NAND bits only go from 1 to 0.     *)
ProgramsErased ==
  [][nand_address' = nand_address + 1 /\ nand_address < NPages =>
       nand_address % BlockPages = 0 \/ flash[nand_address] = Erased]_vars

(* The host answers within a second, its answers and the board's arrive,   *)
(* and no lost byte makes the next one look like the end of the file.      *)
Prompt == \A i \in 1..Len(faults) : faults[i] \in {"drop", "cancel"}

FileInFlash ==
  \A n \in 1..FileLen :
    LET page == flash[(n - 1) \div PageBlocks]
    IN  page # Erased /\ page[((n - 1) % PageBlocks) + 1] = n

(* ">> D: download myboot(SPL+uboot) into nandflash": when EOT has ended   *)
(* the download ("program finished!") data field n of the file is at its   *)
(* place in the flash.                                                     *)
FinishedHoldsFile == why = "eot" => FileInFlash

(* With a prompt host this is so, whatever bytes are lost.                 *)
FlashIsFile == why = "eot" /\ Prompt => FileInFlash

(* dealSohFrame and dealExceptionFrame write behind frame_offset: with a   *)
(* prompt host they stay inside frame[], although xmGetData ignores the    *)
(* room it is given.                                                       *)
FrameFits == Prompt => frame_offset <= FrameSize

(* The retry limits of xModemFSM bound every download: whenever the host   *)
(* answers late, stops or cancels, and whatever the line loses, the menu   *)
(* comes back.                                                             *)
Terminates == xmState = "ENTRY" ~> xmState = "STOP"
=============================================================================
