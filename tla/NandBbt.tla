-------------------------------- MODULE NandBbt --------------------------------
(***************************************************************************)
(* The bad block table, drivers/mtd/nand/nand_bbt.c, with the calls of        *)
(* nand_base.c that use it: the scan at the first access, marking a block    *)
(* bad, and erasing.  The table is in memory only, built from the markers in *)
(* the blocks, or also in flash (NAND_BBT_USE_FLASH): two copies, main (td)  *)
(* and mirror (md), with a version, rewritten one after the other.  The power *)
(* may fail in any step, tables may become unreadable, and erases and writes *)
(* may fail.                                                                *)
(*                                                                          *)
(* A block is the unit of everything.  Error correction is perfect: a table  *)
(* is read as it was written or the read fails.                              *)
(***************************************************************************)
EXTENDS Integers, FiniteSets, FiniteSetsExt, Functions

CONSTANTS NBlocks,        \* blocks of the chip
          MAXBLOCKS,      \* NAND_BBT_SCAN_MAXBLOCKS: blocks at the end kept for tables
          VersionMod,     \* 256: versions are bytes
          Factory,        \* sets of blocks marked bad by the manufacturer
          Faults,         \* which of FaultKinds may happen
          MaxFaults       \* bound: so many faults together

Blocks == 1..NBlocks
Region == (NBlocks - MAXBLOCKS + 1)..NBlocks
Kinds == {"td", "md"}     \* the main copy and the mirror
FaultKinds == {"cut", "ecc", "flip", "io", "fail"}
None == 0                 \* no block: pages[i] = -1
NoTable == [kind |-> "none", version |-> 0, codes |-> [b \in Blocks |-> 0], ok |-> TRUE]

ASSUME BbtAssumption ==
    /\ NBlocks \in Nat /\ MAXBLOCKS \in 1..NBlocks
    /\ VersionMod \in Nat /\ VersionMod > 2
    /\ Factory \subseteq SUBSET Blocks /\ Faults \subseteq FaultKinds
    /\ MaxFaults \in Nat

VARIABLES useFlash, \* NAND_BBT_USE_FLASH
          mark,     \* the blocks with a bad block marker in their spare area
          tab,      \* the table each block holds
          bbt,      \* this->bbt: 0 good, 1 worn out, 2 reserved, 3 factory bad
          d,        \* td and md: block of each table, and its version
          pc,       \* off, check, oob, erase, write or idle
          todo,     \* writeops: the tables still to be written
          victim,   \* the block being marked, or None
          err,      \* a step of the marking has failed
          acked,    \* history: blocks whose marking returned 0
          wrote,    \* history: blocks bad in a main copy once written
          asked,    \* history: blocks whose marking was begun
          faults    \* history: the faults of each kind so far

vars == <<useFlash, mark, tab, bbt, d, pc, todo, victim, err, acked, wrote, asked, faults>>
flash == <<useFlash, mark, tab>>
history == <<acked, wrote, asked, faults>>

(* A fault of kind f happens, of which there have been faults[f].           *)
Fault(f) == /\ f \in Faults
            /\ SumFunction(faults) < MaxFaults
            /\ faults' = [faults EXCEPT ![f] = @ + 1]
Only(kinds) == \A f \in FaultKinds \ kinds : faults[f] = 0

Bad(code) == code \in {1, 3}
Or2(code) == IF Bad(code) THEN 3 ELSE 2

(* nand_isbad_bbt                                                           *)
IsBad(b, allowbbt) == Bad(bbt[b]) \/ (bbt[b] = 2 /\ ~allowbbt)

-------------------------------------------------------------------------------
(* Reading: nand_scan_bbt at the first use of the chip                      *)

(* search_bbt: from the last block down, the pattern in the spare area.     *)
Search(kind) ==
    LET hits == {b \in Region : tab[b].kind = kind}
    IN IF hits = {} THEN [block |-> None, version |-> 0]
       ELSE [block |-> Max(hits), version |-> tab[Max(hits)].version]

(* create_bbt: the markers of all blocks.                                   *)
Scanned == [b \in Blocks |-> IF b \in mark THEN 3 ELSE 0]

(* nand_memory_bbt: the table in memory only.                               *)
ScanMemory ==
    /\ pc = "off" /\ ~useFlash
    /\ bbt' = Scanned /\ pc' = "idle"
    /\ UNCHANGED <<flash, d, todo, victim, err, history>>

(* nand_scan_bbt: a cleared table in memory, then both tables are searched. *)
Scan == /\ pc = "off" /\ useFlash
        /\ bbt' = [b \in Blocks |-> 0]
        /\ d' = [k \in Kinds |-> Search(k)]
        /\ pc' = "check" /\ todo' = {} /\ victim' = None /\ err' = FALSE
        /\ UNCHANGED <<flash, history>>

(* (int8_t)(td->version - md->version) > 0                                  *)
Newer_NoWrap(v, w) == v > w

Newer(v, w) == (v - w + VersionMod) % VersionMod \in 1..((VersionMod - 1) \div 2)

(* The table to read, and the tables to write for want of a current copy.   *)
Choice == IF d["td"].block = None THEN [rd |-> "md", write |-> {"td"}]
          ELSE IF d["md"].block = None THEN [rd |-> "td", write |-> {"md"}]
          ELSE IF d["td"].version = d["md"].version THEN [rd |-> "td", write |-> {}]
          ELSE IF Newer(d["td"].version, d["md"].version) THEN [rd |-> "td", write |-> {"md"}]
          ELSE [rd |-> "md", write |-> {"td"}]

(* The end of nand_scan_bbt, reached with and without an error: the last    *)
(* blocks are reserved.                                                     *)
Reserved(codes) == [b \in Blocks |-> IF b \in Region THEN Or2(codes[b]) ELSE codes[b]]

(* What check_create does next with the table in memory.                    *)
Go(codes, write, versions) ==
    /\ d' = [k \in Kinds |-> [d[k] EXCEPT !.version = versions]]
    /\ todo' = write
    /\ IF write = {} THEN pc' = "idle" /\ bbt' = Reserved(codes)
                       ELSE pc' = "erase" /\ bbt' = codes

(* check_create without a table: scan the markers, write both tables.       *)
CheckCreate ==
    /\ pc = "check" /\ d["td"].block = None /\ d["md"].block = None
    /\ Go(Scanned, Kinds, 1)
    /\ UNCHANGED <<flash, victim, err, history>>

(* check_create with a table that cannot be read: try again without it.     *)
CheckUnreadable_Again ==
    /\ pc = "check" /\ ~(d["td"].block = None /\ d["md"].block = None)
    /\ ~tab[d[Choice.rd].block].ok
    /\ d' = [d EXCEPT ![Choice.rd] = [block |-> d[Choice.rd].block, version |-> 0]]
    /\ UNCHANGED <<flash, bbt, pc, todo, victim, err, history>>

CheckUnreadable ==
    /\ pc = "check" /\ ~(d["td"].block = None /\ d["md"].block = None)
    /\ ~tab[d[Choice.rd].block].ok
    /\ d' = [d EXCEPT ![Choice.rd] = [block |-> None, version |-> 0]]
    /\ UNCHANGED <<flash, bbt, pc, todo, victim, err, history>>

(* check_create with one that can, perhaps with corrected bits; any other    *)
(* error of the read passes for success with nothing read.                  *)
CheckRead(how) ==
    /\ pc = "check" /\ ~(d["td"].block = None /\ d["md"].block = None)
    /\ tab[d[Choice.rd].block].ok
    /\ IF how = "ok" THEN UNCHANGED faults ELSE Fault(how)
    /\ Go(IF how = "io" THEN bbt ELSE tab[d[Choice.rd].block].codes,
          IF how = "flip" THEN Kinds ELSE Choice.write,
          Max({d["td"].version, d["md"].version}))
    /\ UNCHANGED <<flash, victim, err, acked, wrote, asked>>

-------------------------------------------------------------------------------
(* Writing: write_bbt, an erase and a write of the block of the table       *)

Other(k) == IF k = "td" THEN "md" ELSE "td"

(* The main copy is written first.                                          *)
Current == IF "td" \in todo THEN "td" ELSE "md"

(* The block of the table, or the last good one that the other copy leaves. *)
Target_Shared(k) ==
    LET free == {b \in Region : ~Bad(bbt[b])}
    IN IF d[k].block # None THEN d[k].block
       ELSE IF free = {} THEN None ELSE Max(free)

Target(k) ==
    LET free == {b \in Region : ~Bad(bbt[b]) /\ b # d[Other(k)].block}
    IN IF d[k].block # None THEN d[k].block
       ELSE IF free = {} THEN None ELSE Max(free)

(* Reserved blocks are not stored.                                          *)
Stored_Factory(codes) == [b \in Blocks |-> IF codes[b] = 3 THEN 3 ELSE 0]

Stored(codes) == [b \in Blocks |-> IF codes[b] = 2 THEN 0 ELSE codes[b]]

(* Back to check_create and nand_scan_bbt, or to the marking of a block.     *)
Return(ret) ==
    /\ pc' = "idle" /\ todo' = {} /\ victim' = None /\ err' = FALSE
    /\ bbt' = IF victim = None THEN Reserved(bbt) ELSE bbt
    /\ acked' = IF victim # None /\ ret /\ ~err THEN acked \union {victim} ELSE acked

(* What an interrupted or failed erase or write leaves: the old contents,   *)
(* nothing, or a pattern over unreadable data, with the version written,    *)
(* still the old one, or erased (all ones).                                 *)
Torn(k, b) == {tab[b], NoTable} \union
    [kind : {k}, version : {d[k].version, tab[b].version, VersionMod - 1},
     codes : {NoTable.codes}, ok : {FALSE}]

(* nand_erase_nand(.., 1) of the block.                                     *)
WriteErase ==
    LET k == Current
        b == Target(k)
    IN /\ pc = "erase" /\ b # None /\ ~IsBad(b, TRUE)
       /\ tab' = [tab EXCEPT ![b] = NoTable] /\ mark' = mark \ {b}
       /\ pc' = "write"
       /\ UNCHANGED <<useFlash, bbt, d, todo, victim, err, history>>

(* -ENOSPC, or a block that may not be erased.                              *)
WriteNoSpace ==
    /\ pc = "erase"
    /\ Target(Current) # None => IsBad(Target(Current), TRUE)
    /\ Return(FALSE)
    /\ UNCHANGED <<flash, d, wrote, asked, faults>>

(* The erase or the write fails: no other block is tried.                   *)
WriteFails ==
    LET k == Current
        b == Target(k)
    IN /\ pc \in {"erase", "write"} /\ b # None /\ ~IsBad(b, TRUE)
       /\ Fault("fail")
       /\ \E t \in Torn(k, b) : tab' = [tab EXCEPT ![b] = t]
       /\ Return(FALSE)
       /\ UNCHANGED <<useFlash, mark, d, wrote, asked>>

(* scan_write_bbt and "Mark it as used"; then the other table or the end.   *)
WriteTable ==
    LET k == Current
        b == Target(k)
    IN /\ pc = "write"
       /\ tab' = [tab EXCEPT ![b] = [kind |-> k, version |-> d[k].version,
                                     codes |-> Stored(bbt), ok |-> TRUE]]
       /\ d' = [d EXCEPT ![k].block = b]
       /\ wrote' = IF k = "td" THEN wrote \union {c \in Blocks : Bad(bbt[c])} ELSE wrote
       /\ IF todo = {Current} THEN Return(TRUE)
          ELSE /\ pc' = "erase" /\ todo' = todo \ {Current}
               /\ UNCHANGED <<bbt, victim, err, acked>>
       /\ UNCHANGED <<useFlash, mark, asked, faults>>

-------------------------------------------------------------------------------
(* nand_block_markbad of a block not yet bad; for a bad one it does nothing *)

(* Erase the block, and mark it in memory.                                  *)
MarkBegin(b) ==
    /\ pc = "idle" /\ ~IsBad(b, FALSE)
    /\ mark' = mark \ {b} /\ tab' = [tab EXCEPT ![b] = NoTable]
    /\ bbt' = [bbt EXCEPT ![b] = 1]
    /\ pc' = "oob" /\ victim' = b /\ err' = FALSE /\ asked' = asked \union {b}
    /\ UNCHANGED <<useFlash, d, todo, acked, wrote, faults>>

NextVersion(v) == (v + 1) % VersionMod

(* Write the marker, which may fail; then nand_update_bbt, if there are      *)
(* tables in flash.                                                         *)
MarkOob(ok) ==
    /\ pc = "oob"
    /\ IF ok THEN UNCHANGED faults ELSE Fault("fail")
    /\ mark' \in {mark \union {victim}} \union (IF ok THEN {} ELSE {mark})
    /\ IF useFlash
       THEN /\ d' = [k \in Kinds |-> [d[k] EXCEPT !.version = NextVersion(@)]]
            /\ pc' = "erase" /\ todo' = Kinds /\ err' = ~ok
            /\ UNCHANGED <<bbt, victim, acked>>
       ELSE Return(ok) /\ UNCHANGED d
    /\ UNCHANGED <<useFlash, tab, wrote, asked>>

(* nand_erase_nand(.., 0) for anyone: never a bad or a reserved block.      *)
EraseBlock(b) ==
    /\ pc = "idle" /\ ~IsBad(b, FALSE)
    /\ mark' = mark \ {b} /\ tab' = [tab EXCEPT ![b] = NoTable]
    /\ UNCHANGED <<useFlash, bbt, d, pc, todo, victim, err, history>>

-------------------------------------------------------------------------------
NoDescr == [k \in Kinds |-> [block |-> None, version |-> 0]]

(* The program starts again: its memory is lost.                            *)
Restart == /\ pc' = "off" /\ bbt' = [b \in Blocks |-> 0] /\ d' = NoDescr
           /\ todo' = {} /\ victim' = None /\ err' = FALSE

(* The power fails, leaving the block being erased or written in any state. *)
Cut ==
    /\ pc # "off" /\ Fault("cut")
    /\ Restart
    /\ IF pc \in {"erase", "write"} /\ Target(Current) # None
       THEN LET k == Current
                b == Target(k)
            IN \E t \in Torn(k, b) : tab' = [tab EXCEPT ![b] = t]
       ELSE UNCHANGED tab
    /\ UNCHANGED <<useFlash, mark, acked, wrote, asked>>

(* reset: the program starts again without loss of power.                   *)
Reset ==
    /\ pc = "idle" /\ Restart
    /\ UNCHANGED <<flash, history>>

(* A table becomes unreadable.                                              *)
Decay(b) ==
    /\ pc = "off" /\ Fault("ecc")
    /\ tab[b].kind # "none" /\ tab[b].ok
    /\ tab' = [tab EXCEPT ![b].ok = FALSE]
    /\ UNCHANGED <<useFlash, mark, bbt, d, pc, todo, victim, err, acked, wrote, asked>>

-------------------------------------------------------------------------------
(* A chip as delivered, or one in use with both tables at the last version. *)
InUse(factory) ==
    LET good == Region \ factory
        first == Max(good)
        second == Max(good \ {first})
        table(k) == [kind |-> k, version |-> VersionMod - 1, ok |-> TRUE,
                     codes |-> [b \in Blocks |-> IF b \in factory THEN 3 ELSE 0]]
    IN [b \in Blocks |-> CASE b = first -> table("td") [] b = second -> table("md")
                            [] OTHER -> NoTable]

Init == /\ useFlash \in BOOLEAN
        /\ acked \in Factory
        /\ mark = acked
        /\ tab \in {[b \in Blocks |-> NoTable]} \union
                   (IF useFlash /\ Cardinality(Region \ acked) > 1 THEN {InUse(acked)} ELSE {})
        /\ bbt = [b \in Blocks |-> 0]
        /\ d = NoDescr
        /\ pc = "off" /\ todo = {} /\ victim = None /\ err = FALSE
        /\ asked = acked /\ wrote = {} /\ faults = [f \in FaultKinds |-> 0]

Program == Scan \/ ScanMemory \/ CheckCreate \/ CheckUnreadable \/ CheckRead("ok") \/ MarkOob(TRUE)
           \/ WriteErase \/ WriteNoSpace \/ WriteTable

Next == \/ Program
        \/ \E how \in {"flip", "io"} : CheckRead(how)
        \/ MarkOob(FALSE) \/ WriteFails
        \/ \E b \in Blocks : MarkBegin(b) \/ EraseBlock(b) \/ Decay(b)
        \/ Cut \/ Reset

(* The scan and the marking are straight-line code: started, they go on.    *)
Spec == Init /\ [][Next]_vars /\ WF_vars(Program)

-------------------------------------------------------------------------------
Codes == [Blocks -> 0..3]
Tables == [kind : {"none", "td", "md"}, version : 0..(VersionMod - 1), codes : Codes, ok : BOOLEAN]
Descr == [block : Blocks \union {None}, version : 0..(VersionMod - 1)]

FlagsOK == useFlash \in BOOLEAN /\ err \in BOOLEAN
TypeOK == /\ FlagsOK /\ mark \subseteq Blocks /\ bbt \in Codes
          /\ tab \in [Blocks -> Tables] /\ d \in [Kinds -> Descr]
          /\ pc \in {"off", "check", "oob", "erase", "write", "idle"}
          /\ todo \subseteq Kinds
          /\ victim \in Blocks \union {None}
          /\ acked \subseteq asked /\ asked \subseteq Blocks /\ wrote \subseteq asked
          /\ faults \in [FaultKinds -> Nat]

(* A block marked by the manufacturer, or whose nand_block_markbad has       *)
(* returned 0, is bad in the table in memory whenever the chip is in use,    *)
(* after any power failures, resets, unreadable copies and failed writes,    *)
(* and no block is bad that nobody asked to mark: check_create picks the     *)
(* newer readable copy, across the wrap of the version, and falls back on    *)
(* the markers in the blocks.  (A read error that is not an ECC error        *)
(* empties the table, see the README.)                                      *)
MarkedStays == pc = "idle" =>
    /\ Only({"cut", "ecc", "flip", "fail"}) => \A b \in acked : Bad(bbt[b])
    /\ \A b \in Blocks : Bad(bbt[b]) => b \in asked

(* One power failure anywhere costs nothing that has been written: a block    *)
(* bad in a completely written main copy stays bad, although nand_update_bbt *)
(* had yet to write the mirror.  check_create reads the newer copy, when the *)
(* version has wrapped too.  (A second power failure can lose such a block,  *)
(* see the README.)                                                         *)
WrittenStays == pc = "idle" /\ Only({"cut"}) /\ faults["cut"] < 2 =>
    \A b \in wrote : Bad(bbt[b])

(* While no write fails, a scan or a marking that ends leaves in flash a      *)
(* main copy that can be read and equals the table in memory, and a mirror    *)
(* elsewhere: a lost, unreadable or older main copy is rewritten from the     *)
(* mirror.  (The mirror may be older or torn, see the README.)               *)
MainIsCurrent ==
    useFlash /\ Only({"cut", "ecc", "flip"}) /\ pc = "idle"
    /\ Cardinality({b \in Region : bbt[b] = 2}) > 1 =>
        /\ tab[d["td"].block].ok /\ tab[d["td"].block].codes = Stored(bbt)
        /\ \A k \in Kinds : tab[d[k].block].kind = k

(* The scan at the first access and every marking end: each unreadable      *)
(* table is left out of the next round of check_create, so that its retry    *)
(* (i--) comes to an end.                                                   *)
ScanEnds == pc \in {"check", "oob"} ~> pc = "idle"
====
