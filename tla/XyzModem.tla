-------------------------------- MODULE XyzModem --------------------------------
(***************************************************************************)
(* loadx and loady of U-Boot: common/xyzModem.c, called by                   *)
(* load_serial_ymodem of common/cmd_load.c, with the serial line and the     *)
(* sending program (external).                                               *)
(*                                                                           *)
(* A board action is one return of xyzModem_get_hdr and all that its callers *)
(* do until the next call.  What the host sends is one item on the line: a   *)
(* frame, EOT or a run of CAN.  An item may be lost or damaged on its way,   *)
(* an answer may be lost, and the host may take longer than the two seconds  *)
(* of xyzModem_CHAR_TIMEOUT.  Bytes of the file are named by their position, *)
(* the bytes that fill up the last frame by 0; these are ^Z, and bytes of     *)
(* the file may be ^Z too.                                                    *)
(***************************************************************************)
EXTENDS Integers, Sequences, SequencesExt

CONSTANTS Modes,           \* of "xmodem", "ymodem"
          Files,           \* the length of a file, and the bytes of it that are ^Z (EOF)
          FrameSizes,      \* 128 and 1024
          BufSize,         \* ymodemBuf, 1024
          NumMod,          \* 256: the numbers of frames
          EotNum,          \* 4: the frame whose number is the code of EOT
          MAX_RETRIES, MAX_RETRIES_WITH_CRC,
          MaxFaults,       \* bound: items and answers lost or damaged
          MaxSlow,         \* bound: so often the host takes too long
          MaxLine          \* bound: answers on their way

ASSUME XyzAssumption ==
    /\ Modes \subseteq {"xmodem", "ymodem"}
    /\ \A f \in Files : f.length \in Nat \ {0} /\ f.eofs \subseteq 1..f.length
    /\ FrameSizes \subseteq Nat \ {0}
    /\ NumMod \in Nat \ {0, 1, 2} /\ EotNum \in 0..(NumMod - 1)
    /\ {BufSize, MAX_RETRIES, MAX_RETRIES_WITH_CRC, MaxLine} \subseteq Nat \ {0}
    /\ {MaxFaults, MaxSlow} \subseteq Nat

VARIABLES
    setup,      \* mode, the file, size of its frames, and whether the header tells the length
    pc,         \* in get_hdr, in xyzModem_flush, returned, or beyond defined behaviour
    call,       \* who called get_hdr: the loops of stream_open and stream_read, or the final header
    noisy,      \* hdr_chars > 0
    tries,      \* calls of get_hdr the loop still has, after this one
    crcTries,   \* crc_retries
    xyz,        \* next_blk, crc_mode, at_eof, file_length, read_length
    stored,     \* what has been copied to ymodemBuf and from there to memory
    fill,       \* how much of it is still in ymodemBuf only
    up, down,   \* the line: to the board, to the host
    host,       \* the item it sends, whether it was sent, and the kind of check
    faults, slow,         \* how often a bounded event has happened
    edge, misread, misled \* history, see Repeat, Headless and HostAnswer

board == <<pc, call, noisy, tries, crcTries, xyz, stored, fill>>
history == <<edge, misread, misled>>
vars == <<setup, board, up, down, host, faults, slow, history>>

L == setup.file.length
B == setup.frame
Frames == (L + B - 1) \div B            \* of data; 0 is the header of ymodem
Eot == Frames + 1
Final == Frames + 2                     \* the empty header that ends a batch
Num(n) == IF n > Frames THEN 0 ELSE n % NumMod

Whole == "whole"
Frame(n, crc) == [type |-> "frame", n |-> n, crc |-> crc, state |-> Whole]
Control(t) == [type |-> t, n |-> 0, crc |-> FALSE, state |-> Whole]

IsEof(p) == p = 0 \/ p \in setup.file.eofs

(* The data of frame n; -1 is a byte of a header.                            *)
Data(n) == [i \in 1..B |-> LET p == (n - 1) * B + i
                           IN IF n \notin 1..Frames THEN -1 ELSE IF p <= L THEN p ELSE 0]

Ask == IF xyz.crc THEN "C" ELSE "NAK"

(* Answers a sender has no room for are lost.                                *)
Say(answers) == LET all == down \o answers
                IN down' = SubSeq(all, 1, IF Len(all) < MaxLine THEN Len(all) ELSE MaxLine)

-------------------------------------------------------------------------------
(* What the callers do with the result of get_hdr.  said are the answers     *)
(* get_hdr has given itself.                                                 *)

(* The next call of get_hdr; the acknowledgement left in tx_ack is sent by    *)
(* it, so it is part of answers.                                             *)
Again(loop, left) == /\ pc' = "hdr" /\ call' = loop /\ tries' = left /\ noisy' = FALSE

(* stream_read returns what is in the buffer, load_serial_ymodem stores it    *)
(* and calls again, with xyz.len = -1; with an empty buffer it ends.         *)
Fail == /\ pc' = IF fill > 0 THEN "wild" ELSE "done"
        /\ noisy' = FALSE
        /\ UNCHANGED <<call, tries, crcTries, xyz, stored, fill>>

(* Data is copied to the buffer, and from each full buffer to memory.        *)
Copy(data) == /\ stored' = stored \o data
              /\ fill' = (fill + Len(data)) % BufSize

(* How much of a frame is left without its pad bytes, as far as the code can   *)
(* tell: by the length of the file, or by three or more ^Z at its end, which    *)
(* may as well be the file's.                                                  *)
Trim_Short(data) ==
    LET over == xyz.rlen + Len(data) - xyz.flen
    IN Len(data) - (IF xyz.flen # 0 /\ over > 0 THEN over + 1 ELSE 0)

Trim(data) ==
    LET text == Max({0} \union {i \in 1..Len(data) : ~IsEof(data[i])})
        over == xyz.rlen + Len(data) - xyz.flen
    IN IF xyz.flen = 0
       THEN IF Len(data) - text >= 3 THEN text ELSE Len(data)
       ELSE IF over > 0 THEN Len(data) - over ELSE Len(data)

(* xyzModem_stream_open *)
OpenReturn(stat, n, said) ==
    /\ call = "open"
    /\ IF stat = "ok"
       THEN /\ Again("read", MAX_RETRIES - 1)
            /\ xyz' = [xyz EXCEPT !.flen = IF Num(n) = 0 /\ setup.tells THEN L ELSE 0]
            /\ Say(said \o IF Num(n) = 0 THEN <<"ACK">> ELSE <<>>)
            /\ UNCHANGED crcTries
       ELSE LET crc == xyz.crc /\ ~(stat = "timeout" /\ crcTries <= 1)
            IN /\ crcTries' = IF stat = "timeout" THEN crcTries - 1 ELSE crcTries
               /\ xyz' = [xyz EXCEPT !.crc = crc]
               /\ Say(said \o IF stat # "timeout" THEN <<>> ELSE IF crc THEN <<"C">> ELSE <<"NAK">>)
               /\ IF stat = "cancel" \/ tries = 0
                  THEN pc' = "done" /\ noisy' = FALSE /\ UNCHANGED <<call, tries>>
                  ELSE Again("open", tries - 1)
    /\ UNCHANGED <<stored, fill, edge>>

(* xyzModem_stream_read: the frame that is due.  After the end of the file,     *)
(* by its length, what is left of a frame may be less than nothing.             *)
Accept(n, said) ==
    LET len == Trim(Data(n))
    IN /\ xyz' = [xyz EXCEPT !.next = (@ + 1) % NumMod,
                             !.rlen = IF xyz.flen = 0 THEN 0 ELSE @ + B]
       /\ IF len < 0
          THEN pc' = "wild" /\ Say(said) /\ UNCHANGED <<call, noisy, tries, stored, fill>>
          ELSE /\ Copy(SubSeq(Data(n), 1, len))
               /\ Again("read", MAX_RETRIES - 1)
               /\ Say(said \o <<"ACK">>)
       /\ UNCHANGED <<crcTries, edge>>

(* The frame before it, once more: acknowledged again, and the loop goes on.  *)
(* When this was its last round, it ends with stat = 0 and the old data is    *)
(* taken for new.                                                            *)
Repeat(n, said) ==
    /\ Say(said \o <<"ACK">>)
    /\ UNCHANGED <<crcTries, xyz>>
    /\ IF tries > 0
       THEN Again("read", tries - 1) /\ UNCHANGED <<stored, fill, edge>>
       ELSE Copy(Data(n)) /\ Again("read", MAX_RETRIES - 1) /\ edge' = TRUE

(* End of file: a second acknowledgement, and with ymodem the final header.   *)
EndOfFile(said) ==
    /\ UNCHANGED <<stored, fill, crcTries, edge>>
    /\ IF setup.mode = "ymodem"
       THEN /\ Again("final", 0)
            /\ Say(said \o <<"ACK", Ask>>)
            /\ UNCHANGED xyz
       ELSE /\ pc' = "done" /\ noisy' = FALSE
            /\ xyz' = [xyz EXCEPT !.eof = TRUE]
            /\ Say(said \o <<"ACK">>)
            /\ UNCHANGED <<call, tries>>

ReadReturn_AnyNumber(stat, n, said) ==
    /\ call = "read"
    /\ IF stat = "ok" THEN Accept(n, said)
       ELSE IF stat = "eof" THEN EndOfFile(said)
       ELSE IF stat = "cancel" \/ tries = 0
            THEN Fail /\ Say(said \o IF stat = "cancel" THEN <<>> ELSE <<Ask>>) /\ UNCHANGED edge
       ELSE /\ Again("read", tries - 1)
            /\ Say(said \o <<Ask>>)
            /\ UNCHANGED <<crcTries, xyz, stored, fill, edge>>

ReadReturn_AckBad(stat, n, said) ==
    /\ call = "read"
    /\ IF stat = "ok" /\ Num(n) = xyz.next THEN Accept(n, said)
       ELSE IF stat = "ok" /\ Num(n) = (xyz.next - 1) % NumMod THEN Repeat(n, said)
       ELSE IF stat = "eof" THEN EndOfFile(said)
       ELSE IF stat = "cancel" \/ tries = 0
            THEN Fail /\ Say(said \o IF stat = "cancel" THEN <<>> ELSE <<Ask>>) /\ UNCHANGED edge
       ELSE /\ Again("read", tries - 1)
            /\ Say(said \o <<"ACK">>)
            /\ UNCHANGED <<crcTries, xyz, stored, fill, edge>>

ReadReturn_Uncounted(stat, n, said) ==
    /\ call = "read"
    /\ IF stat = "ok" /\ Num(n) = xyz.next THEN Accept(n, said)
       ELSE IF stat = "ok" /\ Num(n) = (xyz.next - 1) % NumMod THEN Repeat(n, said)
       ELSE IF stat = "eof" THEN EndOfFile(said)
       ELSE IF stat = "cancel" \/ tries = 0
            THEN Fail /\ Say(said \o IF stat = "cancel" THEN <<>> ELSE <<Ask>>) /\ UNCHANGED edge
       ELSE /\ Again("read", tries)
            /\ Say(said \o <<Ask>>)
            /\ UNCHANGED <<crcTries, xyz, stored, fill, edge>>

ReadReturn(stat, n, said) ==
    /\ call = "read"
    /\ IF stat = "ok" /\ Num(n) = xyz.next THEN Accept(n, said)
       ELSE IF stat = "ok" /\ Num(n) = (xyz.next - 1) % NumMod THEN Repeat(n, said)
       ELSE IF stat = "eof" THEN EndOfFile(said)
       ELSE IF stat = "cancel" \/ tries = 0
            THEN Fail /\ Say(said \o IF stat = "cancel" THEN <<>> ELSE <<Ask>>) /\ UNCHANGED edge
       ELSE /\ Again("read", tries - 1)
            /\ Say(said \o <<Ask>>)
            /\ UNCHANGED <<crcTries, xyz, stored, fill, edge>>

(* Whatever the final header was.                                            *)
FinalReturn(said) ==
    /\ call = "final"
    /\ pc' = "done" /\ noisy' = FALSE
    /\ xyz' = [xyz EXCEPT !.eof = TRUE]
    /\ Say(said \o <<"ACK">>)
    /\ UNCHANGED <<call, tries, crcTries, stored, fill, edge>>

Return(stat, n, said) ==
    OpenReturn(stat, n, said) \/ ReadReturn(stat, n, said) \/ FinalReturn(said)

-------------------------------------------------------------------------------
(* xyzModem_get_hdr *)

(* Nothing arrives for two seconds: nothing is on its way, unless the host    *)
(* is slow to react to an answer.                                            *)
Reacts == down # <<>> /\ host.alive
Patience == /\ Reacts => slow < MaxSlow
            /\ slow' = IF Reacts THEN slow + 1 ELSE slow
Quiet == up = <<>> /\ Patience

Item == Head(up)
Waiting(t) == pc = "hdr" /\ up # <<>> /\ Item.type = t
InState(S) == Waiting("frame") /\ Item.state \in S

Settled == UNCHANGED <<setup, host, faults, slow, misread, misled>>

(* Bytes before a header make an EOT part of the noise.                      *)
Skip == /\ noisy' = TRUE
        /\ up' = Tail(up)
        /\ UNCHANGED <<pc, call, tries, crcTries, xyz, stored, fill, down, edge>>

(* xyzModem_flush, and what get_hdr returns after it                         *)
Flush(stat) == /\ pc' = "flush_" \o stat
               /\ UNCHANGED <<call, noisy, tries, crcTries, xyz, stored, fill, down, edge>>

(* A frame with the check the board does not expect leaves a byte behind.     *)
GotFrame ==
    /\ InState({Whole})
    /\ IF Item.crc = xyz.crc
       THEN Return("ok", Item.n, <<>>) /\ up' = Tail(up)
       ELSE Return("cksum", 0, <<>>) /\ up' = <<Control("noise")>> \o Tail(up)
    /\ Settled

(* A byte of it has been altered: in the data, in the number, or the first.   *)
GotBad == /\ InState({"bad"})
          /\ \/ Return("cksum", 0, <<>>) /\ up' = Tail(up)
             \/ Flush("frame") /\ up' = Tail(up)
             \/ Skip
          /\ Settled

(* A byte is missing: the first byte of what follows takes its place.         *)
Beheaded(q) == IF Head(q).type = "frame" THEN [q EXCEPT ![1].state = "headless"]
               ELSE IF Head(q).type = "CAN" THEN q
               ELSE Tail(q)

GotShort == /\ InState({"short", "headless"})
            /\ Len(up) > 1
            /\ up' = Beheaded(Tail(up))
            /\ Return("cksum", 0, <<>>) \/ Flush("frame")
            /\ Settled

ShortTimeout == /\ InState({"short", "headless"})
                /\ Len(up) = 1
                /\ Patience
                /\ up' = <<>>
                /\ Return("timeout", 0, <<>>)
                /\ UNCHANGED <<setup, host, faults, misread, misled>>

(* The first byte is missing: the number may be taken for an EOT.            *)
Headless == /\ InState({"headless"})
            /\ IF Num(Item.n) = EotNum /\ ~noisy
               THEN /\ Return("eof", 0, <<"ACK">>)
                    /\ up' = <<Control("noise")>> \o Tail(up)
                    /\ misread' = TRUE
               ELSE Skip /\ UNCHANGED misread
            /\ UNCHANGED <<setup, host, faults, slow, misled>>

GotEot == /\ Waiting("EOT")
          /\ IF noisy THEN Skip ELSE Return("eof", 0, <<"ACK">>) /\ up' = Tail(up)
          /\ Settled

GotCan == /\ Waiting("CAN")
          /\ Return("cancel", 0, <<>>) /\ up' = Tail(up)
          /\ Settled

GotNoise == Waiting("noise") /\ Skip /\ Settled

HdrTimeout == /\ pc = "hdr" /\ Quiet
              /\ Flush("timeout")
              /\ UNCHANGED <<setup, up, host, faults, misread, misled>>

Toss == /\ pc \in {"flush_timeout", "flush_frame"}
        /\ up # <<>> /\ up' = Tail(up)
        /\ UNCHANGED <<board, down, edge>>
        /\ Settled

Idle == /\ pc \in {"flush_timeout", "flush_frame"} /\ Quiet
        /\ Return(IF pc = "flush_timeout" THEN "timeout" ELSE "frame", 0, <<>>)
        /\ UNCHANGED <<setup, up, host, faults, misread, misled>>

Board == \/ GotFrame \/ GotBad \/ GotShort \/ ShortTimeout \/ Headless
         \/ GotEot \/ GotCan \/ GotNoise \/ HdrTimeout \/ Toss \/ Idle

-------------------------------------------------------------------------------
(* The sending program and the line (external)                               *)

Send(n) == up' = Append(up, IF n = Eot THEN Control("EOT") ELSE Frame(n, host'.crc))

(* Asked for an item, it sends the one it has come to; the first answer       *)
(* decides about the kind of check.                                          *)
HostAsked(a) == /\ a \in {"C", "NAK"}
                /\ host' = [host EXCEPT !.sent = TRUE, !.fixed = TRUE,
                                        !.crc = IF host.fixed THEN @ ELSE a = "C"]
                /\ Send(host.at)
                /\ UNCHANGED misled

(* Acknowledged, it goes on to the next; after a header it may wait to be     *)
(* asked.                                                                    *)
HostAcked(a) ==
    LET last == IF setup.mode = "ymodem" THEN Final ELSE Eot
        next == host.at + 1
    IN /\ a = "ACK"
       /\ IF ~host.sent THEN UNCHANGED <<host, up>>
          ELSE IF host.at = last THEN host' = [host EXCEPT !.alive = FALSE] /\ UNCHANGED up
          ELSE \/ /\ next # Final
                  /\ host' = [host EXCEPT !.at = next]
                  /\ Send(next)
               \/ /\ next = Final \/ host.at = 0
                  /\ host' = [host EXCEPT !.at = next, !.sent = FALSE]
                  /\ UNCHANGED up
       /\ misled' = (misled \/ (host.sent /\ next = Eot /\ xyz.next # Eot % NumMod))

HostAnswer == /\ host.alive /\ down # <<>>
              /\ down' = Tail(down)
              /\ HostAsked(Head(down)) \/ HostAcked(Head(down))
              /\ UNCHANGED <<setup, board, faults, slow, edge, misread>>

(* The user stops the sending program, or it is gone.                        *)
HostStops == /\ host.alive
             /\ host' = [host EXCEPT !.alive = FALSE]
             /\ up' \in {up, Append(up, Control("CAN"))}
             /\ UNCHANGED <<setup, board, down, faults, slow, history>>

Fault == faults < MaxFaults /\ faults' = faults + 1

Damage == /\ Fault
          /\ \E i \in DOMAIN up :
                /\ up[i].state = Whole
                /\ \/ up' = RemoveAt(up, i)
                   \/ /\ up[i].type = "frame"
                      /\ \E s \in {"bad", "short", "headless"} : up' = [up EXCEPT ![i].state = s]
          /\ UNCHANGED <<setup, board, down, host, slow, history>>

LoseAnswer == /\ Fault
              /\ \E i \in DOMAIN down : down' = RemoveAt(down, i)
              /\ UNCHANGED <<setup, board, up, host, slow, history>>

-------------------------------------------------------------------------------
Init == /\ setup \in [mode: Modes, file: Files, frame: FrameSizes, tells: BOOLEAN]
        /\ setup.mode = "xmodem" => ~setup.tells
        /\ pc = "hdr" /\ noisy = FALSE /\ tries = MAX_RETRIES - 1
        /\ call = IF setup.mode = "ymodem" THEN "open" ELSE "read"
        /\ crcTries = MAX_RETRIES_WITH_CRC
        /\ xyz = [next |-> 1, crc |-> TRUE, eof |-> FALSE, flen |-> 0, rlen |-> 0]
        /\ stored = <<>> /\ fill = 0
        /\ up = <<>> /\ down = <<"C">>
        /\ host = [at |-> IF setup.mode = "ymodem" THEN 0 ELSE 1, sent |-> FALSE,
                   crc |-> TRUE, fixed |-> FALSE, alive |-> TRUE]
        /\ faults = 0 /\ slow = 0
        /\ edge = FALSE /\ misread = FALSE /\ misled = FALSE

Next == Board \/ HostAnswer \/ HostStops \/ Damage \/ LoseAnswer

Spec == Init /\ [][Next]_vars

(* get_hdr waits no longer than its timeout, and the host reacts.            *)
FairSpec == Spec /\ WF_vars(Board) /\ WF_vars(HostAnswer)

-------------------------------------------------------------------------------
(* The fields of xyz and the statics of the loops have their types.          *)
TypeOK == /\ pc \in {"hdr", "flush_timeout", "flush_frame", "done", "wild"}
          /\ call \in {"open", "read", "final"} /\ noisy \in BOOLEAN
          /\ tries \in 0..(MAX_RETRIES - 1)
          /\ crcTries \in (MAX_RETRIES_WITH_CRC - MAX_RETRIES)..MAX_RETRIES_WITH_CRC
          /\ xyz.next \in 0..(NumMod - 1) /\ xyz.flen \in {0, L} /\ xyz.rlen \in 0..((Frames + 1) * B)
          /\ fill \in 0..(BufSize - 1) /\ fill <= Len(stored)
          /\ Len(down) <= MaxLine

Padded == [i \in 1..(Frames * B) |-> IF i <= L THEN i ELSE 0]

(* Without the bytes of a closing header, and without every ^Z               *)
Body(s) == SelectSeq(s, LAMBDA p : p # -1)
Text(s) == SelectSeq(s, LAMBDA p : p # -1 /\ ~IsEof(p))

(* Whatever is lost, late or repeated, memory holds the beginning of the      *)
(* file, every byte once and in order: the numbers of frames are enough       *)
(* (stream_read).  The exceptions: the last try of its loop meets a repeated  *)
(* frame; the header that closes a YMODEM batch comes early, is taken for a   *)
(* frame with its number, 0, and stored behind the rest; and, when no length  *)
(* is known, ^Z of the file may be missing from the end of any frame.         *)
StoredInOrder ==
    ~edge => /\ IsPrefix(Text(stored), Text(Padded))
             /\ xyz.flen # 0 \/ setup.file.eofs = {} => IsPrefix(Body(stored), Padded)

(* A transfer that ended with EOT has all of the file, save ^Z at the end of  *)
(* its frames when no length is known, and with the length in its header      *)
(* exactly the file; the exceptions are a number read as EOT and a host that  *)
(* took the acknowledgement of a repeated frame for the next one's.           *)
Complete == xyz.eof /\ ~edge /\ ~misread /\ ~misled =>
               Text(stored) = Text(Padded) /\ (setup.tells => Len(stored) = L)

(* The host goes on to a frame only when the board has stored the one before, *)
(* save for ^Z at its end, as long as the host reacts in time.               *)
AckedStored == slow = 0 /\ ~misread =>
                  LET n == IF host.at > Frames THEN Frames ELSE host.at - 1
                  IN Len(Text(stored)) >= Len(Text(SubSeq(Padded, 1, n * B)))

(* loadx and loady return, whenever the host stops and whatever it repeats,   *)
(* or come to the copy of an undefined length that Fail and Accept describe:  *)
(* no loop of theirs runs for ever.  The host sends only when it is asked or  *)
(* acknowledged: a line that never falls silent would keep xyzModem_flush.    *)
LoadEnds == <>(pc \in {"done", "wild"})
===============================================================================
