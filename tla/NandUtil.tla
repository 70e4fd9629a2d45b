------------------------------ MODULE NandUtil ------------------------------
(***************************************************************************)
(* drivers/mtd/nand/nand_util.c: check_skip_len, nand_write_skip_bad,      *)
(* nand_read_skip_bad and nand_erase_opts on a chip with bad blocks and    *)
(* with blocks that fail.  One action is one call.                         *)
(*                                                                         *)
(* Offsets and lengths count units; WriteSize units are a page, EraseSize  *)
(* units a block.  Unit i of the buffer of the t-th write is <<t, i>>, so  *)
(* that every unit shows where it came from.                               *)
(***************************************************************************)
EXTENDS Integers, SequencesExt

CONSTANTS
  WriteSize, EraseSize, NBlocks,   \* geometry of the chip
  MaxBad,                          \* bound on the number of bad blocks
  MaxWorn,                         \* bound on the number of failing blocks
  Offsets, Lengths,                \* the arguments that are tried
  MaxCalls                         \* bound on the number of calls

ASSUME ChipAssumption ==
  /\ WriteSize \in Nat \ {0} /\ EraseSize \in Nat \ {0} /\ EraseSize % WriteSize = 0
  /\ Offsets \subseteq 0..(NBlocks * EraseSize - 1)
  /\ Lengths \subseteq 0..(NBlocks * EraseSize)
  /\ NBlocks \in Nat /\ MaxBad \in Nat /\ MaxWorn \in Nat /\ MaxCalls \in Nat

VARIABLES
  flash,    \* contents of every unit
  bad,      \* blocks marked bad
  worn,     \* good blocks on which every erase and write fails
  result,   \* what the last call returned and wrote through its pointers
  calls,    \* calls so far
  image     \* history: {} or the place of the last write, while it must be there

vars == <<flash, bad, worn, result, calls, image>>

Size   == NBlocks * EraseSize
Units  == 0..(Size - 1)
Erased == <<>>
Junk   == <<0, 0>>
BlockOf(o) == o \div EraseSize
IsBad(o)   == BlockOf(o) \in bad
ToBlockEnd(o) == EraseSize - (o % EraseSize)
Least(a, b)   == IF a < b THEN a ELSE b

-----------------------------------------------------------------------------
(* Mutant: the bad blocks are not counted in the length used.              *)
check_skip_len_Short(off, len) ==
  LET scan[o \in 0..(Size + EraseSize), left \in (-EraseSize)..Size] ==
        IF left <= 0 THEN [ret |-> 0, used |-> left]
        ELSE IF o >= Size THEN [ret |-> -1, used |-> 0]
        ELSE LET n == ToBlockEnd(o)
                 r == scan[o + n, IF IsBad(o) THEN left ELSE left - n]
             IN  [ret  |-> IF IsBad(o) /\ r.ret # -1 THEN 1 ELSE r.ret,
                  used |-> r.used + IF IsBad(o) THEN 0 ELSE n]
  IN  scan[off, len]

(* The loop of check_skip_len: left is length - len_excl_bad; used also    *)
(* grows on the way to a -1.                                               *)
check_skip_len(off, len) ==
  LET scan[o \in 0..(Size + EraseSize), left \in (-EraseSize)..Size] ==
        IF left <= 0 THEN [ret |-> 0, used |-> left]
        ELSE IF o >= Size THEN [ret |-> -1, used |-> 0]
        ELSE LET n == ToBlockEnd(o)
                 r == scan[o + n, IF IsBad(o) THEN left ELSE left - n]
             IN  [ret  |-> IF IsBad(o) /\ r.ret # -1 THEN 1 ELSE r.ret,
                  used |-> r.used + n]
  IN  scan[off, len]

(* The loop that skips bad blocks, shared by write and read: the places    *)
(* and sizes of the calls of nand_write and nand_read.                     *)
Chunks(off, len) ==
  LET from[o \in 0..(Size + EraseSize), left \in 0..Size] ==
        IF left = 0 THEN <<>>
        ELSE IF IsBad(o) THEN from[o + ToBlockEnd(o), left]
        ELSE LET n == Least(left, ToBlockEnd(o))
             IN  <<[at |-> o, n |-> n]>> \o from[o + n, left - n]
  IN  from[off, len]

(* nand_write: pages in order up to the first block that fails.  On units  *)
(* that are not erased the bits of old and new contents are mixed.         *)
Fails(at, n) == \E u \in at..(at + n - 1) : BlockOf(u) \in worn
nand_write(fl, at, n, t, first) ==
  LET done == {u \in at..(at + n - 1) : ~Fails(at, u - at + 1)}
  IN  [u \in Units |-> IF u \notin done THEN fl[u]
                       ELSE IF fl[u] = Erased THEN <<t, first + u - at>> ELSE Junk]

(* Mutants of the loop: p_buffer is not advanced; the chunk that failed is *)
(* counted.                                                                *)
WriteChunks_SameBuffer(t, chunks) ==
  FoldLeft(LAMBDA s, c : [fl |-> nand_write(s.fl, c.at, c.n, t, 0),
                          failed |-> s.failed \/ Fails(c.at, c.n), done |-> s.done + c.n],
           [fl |-> flash, failed |-> FALSE, done |-> 0], chunks)

WriteChunks_CountsFailed(t, chunks) ==
  FoldLeft(LAMBDA s, c :
             IF s.failed THEN s
             ELSE [fl |-> nand_write(s.fl, c.at, c.n, t, s.done),
                   failed |-> Fails(c.at, c.n), done |-> s.done + c.n],
           [fl |-> flash, failed |-> FALSE, done |-> 0], chunks)

(* The loop of nand_write_skip_bad: stops at the chunk that fails.         *)
WriteChunks(t, chunks) ==
  FoldLeft(LAMBDA s, c :
             IF s.failed THEN s
             ELSE [fl     |-> nand_write(s.fl, c.at, c.n, t, s.done),
                   failed |-> Fails(c.at, c.n),
                   done   |-> IF Fails(c.at, c.n) THEN s.done ELSE s.done + c.n],
           [fl |-> flash, failed |-> FALSE, done |-> 0], chunks)

Outcome(op, ret, length, actual, off, len, data) ==
  [op |-> op, ret |-> ret, length |-> length, actual |-> actual,
   off |-> off, len |-> len, data |-> data]

(* The checks both functions make before they touch the chip: what they    *)
(* return, or "go".                                                        *)
Checked(off, len, lim) ==
  LET need == check_skip_len(off, len)
  IN  IF off % WriteSize # 0 THEN [ret |-> "EINVAL", actual |-> 0]
      ELSE IF need.ret < 0 THEN [ret |-> "EINVAL", actual |-> need.used]
      ELSE IF need.used > lim THEN [ret |-> "EFBIG", actual |-> need.used]
      ELSE [ret |-> IF need.ret = 0 THEN "straight" ELSE "skip", actual |-> need.used]

Go(c) == c.ret \in {"straight", "skip"}

nand_write_skip_bad(off, len, lim) ==
  LET c == Checked(off, len, lim)
      chunks == IF c.ret = "straight" THEN <<[at |-> off, n |-> len]>> ELSE Chunks(off, len)
      w == WriteChunks(calls + 1, chunks)
  IN  /\ calls < MaxCalls /\ calls' = calls + 1
      /\ IF Go(c)
         THEN /\ flash' = w.fl
              /\ result' = Outcome("write", IF w.failed THEN "EIO" ELSE "0", w.done,
                                   c.actual, off, len, <<>>)
              /\ image' = IF w.failed \/ \E u \in off..(off + c.actual - 1) :
                                          ~IsBad(u) /\ flash[u] # Erased THEN {}
                          ELSE {[off |-> off, len |-> len, t |-> calls + 1]}
         ELSE /\ result' = Outcome("write", c.ret, 0, c.actual, off, len, <<>>)
              /\ UNCHANGED <<flash, image>>
      /\ UNCHANGED <<bad, worn>>

(* What nand_read_skip_bad has read when it stops, at the end or at a      *)
(* chunk with a block in unread, where nand_read reports an error.         *)
ReadBuffer(off, len, unread) ==
  FoldLeft(LAMBDA s, c :
             IF s.failed \/ \E u \in c.at..(c.at + c.n - 1) : BlockOf(u) \in unread
             THEN [s EXCEPT !.failed = TRUE]
             ELSE [s EXCEPT !.data = @ \o [i \in 1..c.n |-> flash[c.at + i - 1]]],
           [data |-> <<>>, failed |-> FALSE],
           IF check_skip_len(off, len).ret = 0 THEN <<[at |-> off, n |-> len]>>
           ELSE Chunks(off, len))

nand_read_skip_bad(off, len, lim, unread) ==
  LET c == Checked(off, len, lim)
      b == ReadBuffer(off, len, unread)
  IN  /\ calls < MaxCalls /\ calls' = calls + 1
      /\ result' = IF Go(c)
                   THEN Outcome("read", IF b.failed THEN "EIO" ELSE "0", Len(b.data),
                                c.actual, off, len, b.data)
                   ELSE Outcome("read", c.ret, 0, c.actual, off, len, <<>>)
      /\ UNCHANGED <<flash, bad, worn, image>>

(* Mutant: bad blocks never count.                                         *)
Victims_SpreadAlways(off, blocks, spread, lim, past) ==
  LET Skipped(o) == IF o = Size THEN past ELSE IsBad(o)
      from[o \in 0..(Size + 2 * EraseSize), left \in 0..NBlocks] ==
        IF left = 0 THEN [set |-> {}, ret |-> "0"]
        ELSE IF lim # 0 /\ o >= off + lim THEN [set |-> {}, ret |-> "EFBIG"]
        ELSE IF o > Size THEN [set |-> {}, ret |-> "-1"]
        ELSE LET r == from[o + EraseSize, IF Skipped(o) THEN left ELSE left - 1]
             IN  [r EXCEPT !.set = IF Skipped(o) \/ o = Size THEN @ ELSE @ \cup {BlockOf(o)}]
  IN  from[off, blocks]

(* nand_erase_opts without scrub: the blocks mtd_erase erases, and what is *)
(* returned.  Without spread bad blocks count.  mtd_block_isbad refuses    *)
(* only an offset behind the end of the chip: at the end itself it answers *)
(* past, from the memory behind the table of bad blocks, and a block taken *)
(* for good is counted although mtd_erase refuses it, which is printed.    *)
Victims(off, blocks, spread, lim, past) ==
  LET Skipped(o) == IF o = Size THEN past ELSE IsBad(o)
      from[o \in 0..(Size + 2 * EraseSize), left \in 0..NBlocks] ==
        IF left = 0 THEN [set |-> {}, ret |-> "0"]
        ELSE IF lim # 0 /\ o >= off + lim THEN [set |-> {}, ret |-> "EFBIG"]
        ELSE IF o > Size THEN [set |-> {}, ret |-> "-1"]
        ELSE LET r == from[o + EraseSize, IF Skipped(o) /\ spread THEN left ELSE left - 1]
             IN  [r EXCEPT !.set = IF Skipped(o) \/ o = Size THEN @ ELSE @ \cup {BlockOf(o)}]
  IN  from[off, blocks]

nand_erase_opts(off, len, spread, lim, past) ==
  LET v == Victims(off, (len + EraseSize - 1) \div EraseSize, spread, lim, past)
      erased == v.set \ worn
  IN  /\ calls < MaxCalls /\ calls' = calls + 1
      /\ IF off % EraseSize # 0
         THEN /\ result' = Outcome("erase", "-1", 0, 0, off, len, <<>>)
              /\ UNCHANGED <<flash, image>>
         ELSE /\ flash' = [u \in Units |-> IF BlockOf(u) \in erased THEN Erased ELSE flash[u]]
              /\ result' = Outcome(IF spread THEN "spread" ELSE "erase", v.ret, 0, Cardinality(v.set), off, len, <<>>)
              /\ image' = {}
      /\ UNCHANGED <<bad, worn>>

Init ==
  /\ bad \in {s \in SUBSET (0..(NBlocks - 1)) : Cardinality(s) <= MaxBad}
  /\ worn \in {s \in SUBSET ((0..(NBlocks - 1)) \ bad) : Cardinality(s) <= MaxWorn}
  /\ \E old, dead \in {Erased, Junk} :
       flash = [u \in Units |-> IF BlockOf(u) \in bad THEN dead ELSE old]
  /\ result = Outcome("none", "0", 0, 0, 0, 0, <<>>) /\ calls = 0 /\ image = {}

(* cmd_nand.c passes an offset inside the chip, and for lim the size of    *)
(* the partition or of the rest of the chip.                               *)
Next ==
  \E off \in Offsets, len \in Lengths :
    \/ \E lim \in {EraseSize, Size - off} :
         \/ nand_write_skip_bad(off, len, lim)
         \/ \E unread \in {{}} \cup {{b} : b \in (0..(NBlocks - 1)) \ bad} :
              nand_read_skip_bad(off, len, lim, unread)
    \/ \E spread, past \in BOOLEAN, lim \in {0, 2 * EraseSize} :
         off + len <= Size /\ nand_erase_opts(off, len, spread, lim, past)

Spec == Init /\ [][Next]_vars
-----------------------------------------------------------------------------
(* Properties *)

(* The good units from off on, in order: where data belongs.               *)
GoodFrom(off) == SelectSeq([i \in 1..(Size - off) |-> off + i - 1], LAMBDA u : ~IsBad(u))

TypeOK ==
  /\ DOMAIN flash = Units
  /\ \A u \in Units : flash[u] \in {Erased, Junk} \cup ((1..MaxCalls) \X (0..(Size - 1)))
  /\ bad \subseteq 0..(NBlocks - 1) /\ worn \subseteq (0..(NBlocks - 1)) \ bad
  /\ result.op \in {"none", "write", "read", "erase", "spread"}
  /\ result.ret \in {"0", "-1", "EINVAL", "EFBIG", "EIO"}
  /\ result.length \in 0..Size /\ result.actual \in 0..Size
  /\ calls \in 0..MaxCalls

(* check_skip_len computes what its comment says: -1 when fewer than       *)
(* length good units follow; else used ends right behind the length-th     *)
(* good one, and 1 exactly when a bad block lies in between.  (It depends  *)
(* on bad alone, which no call changes.)                                   *)
SkipLenIsExact ==
  calls = 0 => \A off \in Units, len \in 0..Size :
    LET good == GoodFrom(off)
        r == check_skip_len(off, len)
    IN  IF len > Len(good) THEN r.ret = -1
        ELSE /\ r.used = IF len = 0 THEN 0 ELSE good[len] - off + 1
             /\ r.ret = IF \E u \in off..(off + r.used - 1) : IsBad(u) THEN 1 ELSE 0

(* "Blocks that are marked bad are skipped and [it] is written to the next *)
(* block instead": a successful write into erased flash reads back as the  *)
(* buffer, whatever blocks are bad, until the flash changes.               *)
ReadsBack ==
  \A m \in image : ReadBuffer(m.off, m.len, {}).data = [i \in 1..m.len |-> <<m.t, i - 1>>]

(* On return *length units of the buffer are in the flash at their places, *)
(* or come from there, also when a block failed half way.                  *)
LengthIsTrue ==
  [][calls' # calls =>
       \A i \in 1..result'.length :
          LET u == GoodFrom(result'.off)[i]
          IN  CASE result'.op = "write" -> flash[u] = Erased => flash'[u] = <<calls', i - 1>>
                [] result'.op = "read"  -> result'.data[i] = flash[u]
                [] OTHER                -> TRUE]_vars

(* Bad blocks are never erased or written; scrub is not modelled.          *)
BadUntouched == [][\A u \in Units : IsBad(u) => flash'[u] = flash[u]]_vars

(* A write changes nothing outside the actual units behind its offset, and *)
(* nothing at all when it would need more than lim.                        *)
WritesInside ==
  [][/\ result'.op = "write" /\ calls' # calls
     => \A u \in Units :
          flash'[u] # flash[u] =>
            /\ u \in result'.off..(result'.off + result'.actual - 1)
            /\ result'.ret \in {"0", "EIO"}]_vars

(* Without spread an erase stays in the blocks of [offset, offset+length): *)
(* a bad block does not make it run into the next partition.  With spread  *)
(* and without an error it erases the first so many good blocks, as many   *)
(* as were asked for; at the end of the chip it may be one short of that,  *)
(* and no more, because the place behind the last block was counted.       *)
EraseInside == [][
  LET blocks == (result'.len + EraseSize - 1) \div EraseSize
      good == SelectSeq([i \in 1..NBlocks |-> i - 1],
                        LAMBDA b : b >= BlockOf(result'.off) /\ b \notin bad)
      Changed(b) == \E u \in Units : BlockOf(u) = b /\ flash'[u] # flash[u]
  IN  calls' # calls =>
           /\ result'.op = "erase" => \A b \in 0..(NBlocks - 1) : Changed(b) =>
                b \in BlockOf(result'.off)..(BlockOf(result'.off) + blocks - 1)
           /\ result'.op = "spread" /\ result'.ret = "0" =>
                /\ blocks <= Len(good) + 1
                /\ \A u \in Units : flash'[u] =
                     IF \E i \in 1..Least(blocks, Len(good)) :
                           good[i] = BlockOf(u) /\ good[i] \notin worn
                     THEN Erased ELSE flash[u]
  ]_vars

(* No call touches a block that is bad or that its caller does not own:    *)
(* in spite of the blocks it skips a transfer or an erase ends where       *)
(* check_skip_len and the range given to it say.                           *)
StaysInside == BadUntouched /\ WritesInside /\ EraseInside
=============================================================================
