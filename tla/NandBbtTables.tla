---------------------------- MODULE NandBbtTables ---------------------------
(***************************************************************************)
(* The inductive invariant behind NandBbtProofs, type correctness, what the*)
(* flash tables and the table in memory say of each block, and where the   *)
(* copies of the table may be.                                             *)
(***************************************************************************)
EXTENDS NandBbt, WellFoundedInduction, TLAPS

(* No read has failed without an ECC error, and nothing but the power.     *)
NoIo      == faults["io"] = 0
NoFail    == NoIo /\ faults["fail"] = 0
OnlyCuts  == NoFail /\ faults["ecc"] = 0 /\ faults["flip"] = 0
Faultless == OnlyCuts /\ faults["cut"] = 0

BadIn(codes) == {b \in Blocks : Bad(codes[b])}
IsTable(b)   == tab[b].kind # "none"
Readable(b)  == IsTable(b) /\ tab[b].ok

Working == pc \in {"oob", "erase", "write", "idle"}
Writing == pc \in {"erase", "write"}
Pending(k) == Writing /\ k \in todo

(* The homes of the two tables: the last two good blocks of the region.    *)
Good      == Region \ asked
IsTop(b)  == b \in Good /\ \A c \in Good : c <= b
IsNext(b) == b \in Good /\ \E t \in Good : IsTop(t) /\ b # t /\ \A c \in Good : c # t => c <= b
Home(k, b) == IF k = "td" THEN IsTop(b) ELSE IsNext(b)

(* Nothing is bad that nobody asked to mark.                               *)
AskedInv ==
  /\ mark \subseteq asked /\ BadIn(bbt) \subseteq asked
  /\ \A b \in Blocks : BadIn(tab[b].codes) \subseteq asked
  /\ pc = "oob" => victim \in asked
  /\ victim # None => pc \in {"oob", "erase", "write"} /\ bbt[victim] = 1
  /\ Writing <=> todo # {}
  /\ pc = "oob" => victim # None
  /\ pc = "write" => Target(Current) # None /\ ~IsBad(Target(Current), TRUE)

(* The scan is over: the region is reserved.                               *)
InUseNow == pc \in {"idle", "oob"} \/ victim # None

(* A table in flash: no block of the region worn out, none reserved.       *)
Clean(codes) == /\ \A c \in Region : codes[c] # 1
                /\ \A c \in Blocks : codes[c] # 2

(* The blocks of the region keep the codes of the factory.                 *)
RegionInv ==
  useFlash =>
    /\ asked \cap Region \subseteq acked
    /\ \A b \in Blocks : Clean(tab[b].codes)
    /\ \A c \in Blocks : bbt[c] = 2 => c \in Region
    /\ \A c \in Region : bbt[c] \in {IF InUseNow THEN 2 ELSE 0, 3}

(* A table is where it belongs, and so is what is known of it.             *)
HomeInv ==
  /\ ~useFlash => (\A b \in Blocks : ~IsTable(b)) /\ pc \in {"off", "oob", "idle"}
  /\ useFlash /\ NoIo =>
       /\ \A b \in Blocks : IsTable(b) => Home(tab[b].kind, b)
       /\ \A k \in Kinds : d[k].block # None => Home(k, d[k].block)
       /\ Pending("md") /\ ~Pending("td") => d["td"].block # None
       /\ pc = "check" =>
            /\ \A k \in Kinds : d[k].block # None =>
                 tab[d[k].block].kind = k /\ d[k].version = tab[d[k].block].version
            /\ \A k \in Kinds : d[k].block = None => d[k].version = 0
            /\ \A b \in Blocks : Readable(b) => d[tab[b].kind].block = b

(* What was marked is in the marker, in every readable table and, when the *)
(* chip is in use, in memory.                                              *)
MarkedInv ==
  NoIo =>
    /\ acked \subseteq mark
    /\ Working => acked \subseteq BadIn(bbt)
    /\ \A b \in Blocks : Readable(b) => acked \subseteq BadIn(tab[b].codes)
    /\ Writing /\ victim # None =>
         /\ victim \in mark \/ err
         /\ \A k \in Kinds : ~Pending(k) => \A b \in Blocks :
              Readable(b) /\ tab[b].kind = k => victim \in BadIn(tab[b].codes)

(* The tables that need not be written any more.                           *)
CurrentInv ==
  useFlash /\ NoFail =>
    /\ Writing => \A k \in Kinds : ~Pending(k) =>
         /\ d[k].block # None /\ tab[d[k].block].kind = k
         /\ tab[d[k].block].ok /\ tab[d[k].block].codes = Stored(bbt)
    /\ pc \in {"idle", "oob"} /\ (\E b \in Blocks : IsNext(b)) =>
         /\ \A k \in Kinds : d[k].block # None /\ tab[d[k].block].kind = k
         /\ tab[d["td"].block].ok
         /\ pc = "idle" => tab[d["td"].block].codes = Stored(bbt)

(* What has been written survives one power failure.                       *)
Safe(b) == wrote \subseteq BadIn(tab[b].codes)
Stale(m) == \E t \in Blocks : /\ Readable(t) /\ tab[t].kind = "td" /\ Safe(t)
                              /\ tab[t].version = NextVersion(tab[m].version)

WrittenInv ==
  OnlyCuts /\ faults["cut"] < 2 =>
    /\ wrote \subseteq mark
    /\ (pc # "oob" => BadIn(bbt) \subseteq mark) /\ (pc = "oob" => BadIn(bbt) \subseteq mark \cup {victim})
    /\ Working => wrote \subseteq BadIn(bbt)
    /\ \A b \in Blocks : Readable(b) => BadIn(tab[b].codes) \subseteq wrote \cup acked
    /\ \A b \in Blocks : Readable(b) /\ tab[b].kind = "td" => Safe(b)
    /\ ~Writing => \A b \in Blocks : Readable(b) => Safe(b) \/ Stale(b)

(* Without a power failure the mirror has the version of the main copy, or *)
(* the one before while the two are being written.                         *)
Mirror(m) ==
  /\ ~Writing => \E t \in Blocks : tab[t].kind = "td" /\ tab[t].version = tab[m].version
  /\ pc \in {"idle", "oob"} => tab[m].version = d["td"].version
  /\ Writing => Pending("md") /\ NextVersion(tab[m].version) = d["td"].version
  /\ Writing /\ ~Pending("td") => Stale(m)
  /\ Pending("td") => Safe(m)

VersionInv ==
  /\ Working /\ useFlash => d["td"].version = d["md"].version
  /\ Faultless =>
       /\ \A b \in Blocks : tab[b].ok
       /\ \A m \in Blocks : tab[m].kind = "md" => Mirror(m)
       /\ Writing /\ ~Pending("td") => tab[d["td"].block].version = d["td"].version

IInv == TypeOK /\ AskedInv /\ RegionInv /\ HomeInv /\ MarkedInv /\ CurrentInv
        /\ WrittenInv /\ VersionInv

-----------------------------------------------------------------------------
(* Blocks and types                                                        *)

(* The chip has blocks, the region of the tables is part of it, and        *)
(* versions wrap.                                                          *)
LEMMA Constants ==
  /\ NBlocks \in Nat /\ MAXBLOCKS \in 1..NBlocks /\ VersionMod \in Nat /\ VersionMod > 2
  /\ Region \subseteq Blocks /\ Blocks \subseteq Nat /\ None \notin Blocks
  BY BbtAssumption DEF Region, Blocks, None

(* Max returns the last block of a set of blocks.                          *)
LEMMA LastBlock ==
  ASSUME NEW S, S \subseteq Blocks, S # {}
  PROVE  Max(S) \in S /\ \A c \in S : c <= Max(S)
<1> DEFINE T == {n \in Nat : \E c \in S : n = NBlocks - c}
           R == {ss \in Nat \X Nat : ss[1] < ss[2]}
<1>1. IsWellFoundedOn(R, Nat)
  BY Zenon, NatLessThanWellFounded DEF OpToRel
<1>2. T \subseteq Nat /\ T # {} /\ \A c \in S : NBlocks - c \in T
  <2>1. \A c \in S : NBlocks - c \in Nat
    BY BbtAssumption DEF Blocks
  <2> QED
    BY Zenon, <2>1
<1> HIDE DEF R
<1>3. PICK x \in T : \A y \in T : ~ (<<y, x>> \in R)
  <2> HIDE DEF T
  <2> QED
    BY <1>1, <1>2, WFMin, Zenon
<1>4. PICK m \in S : x = NBlocks - m
  BY Zenon
<1>5. \A c \in S : m >= c
  <2> SUFFICES ASSUME NEW c \in S, ~(m >= c) PROVE FALSE
    BY Zenon
  <2>1. c \in Nat /\ m \in Nat /\ NBlocks \in Nat
    BY BbtAssumption DEF Blocks
  <2>2. NBlocks - c \in T /\ NBlocks - c \in Nat /\ x \in Nat /\ NBlocks - c < x
    BY <1>2, <1>4, <2>1
  <2>3. <<NBlocks - c, x>> \in R
    BY Zenon, <2>2 DEF R
  <2> QED
    BY Zenon, <1>3, <2>2, <2>3
<1>6. Max(S) \in S /\ \A c \in S : Max(S) >= c
  BY Zenon, <1>5 DEF Max
<1> QED
  BY Zenon, <1>6, Constants

(* A fault is counted under its kind and under no other.                   *)
LEMMA FaultFacts ==
  ASSUME TypeOK, NEW f, Fault(f)
  PROVE  /\ f \in FaultKinds /\ faults' \in [FaultKinds -> Nat]
         /\ \A g \in FaultKinds : faults'[g] = IF g = f THEN faults[g] + 1 ELSE faults[g]
<1>1. f \in FaultKinds /\ faults' = [faults EXCEPT ![f] = @ + 1]
  BY Zenon, BbtAssumption DEF Fault
<1> QED
  BY <1>1 DEF TypeOK

(* An erased block and whatever write_bbt programs are tables.             *)
LEMMA TablesTyped ==
  /\ NoTable \in Tables /\ NoTable.codes \in Codes
  /\ \A k \in Kinds, v \in 0..(VersionMod - 1), c \in Codes, o \in BOOLEAN :
       [kind |-> k, version |-> v, codes |-> c, ok |-> o] \in Tables
<1>1. NoTable.codes \in Codes
  BY DEF NoTable, Codes
<1>2. 0 \in 0..(VersionMod - 1)
  BY Constants
<1> QED
  BY Zenon, <1>1, <1>2 DEF NoTable, Tables, Kinds

(* What an interrupted erase or write leaves is a table that is the old    *)
(* one, or nothing, or one of kind k that cannot be read.                  *)
LEMMA TornFacts ==
  ASSUME TypeOK, NEW k \in Kinds, NEW b \in Blocks, NEW t \in Torn(k, b)
  PROVE  /\ t \in Tables
         /\ t = tab[b] \/ t = NoTable \/ (t.kind = k /\ ~t.ok /\ t.codes = NoTable.codes)
<1>1. tab[b] \in Tables /\ d[k].version \in 0..(VersionMod - 1)
      /\ tab[b].version \in 0..(VersionMod - 1) /\ VersionMod - 1 \in 0..(VersionMod - 1)
  BY Constants DEF TypeOK, Descr, Tables
<1>2. CASE t = tab[b] \/ t = NoTable
  BY Zenon, <1>1, <1>2, TablesTyped
<1>3. CASE t \in [kind : {k}, version : {d[k].version, tab[b].version, VersionMod - 1},
                  codes : {NoTable.codes}, ok : {FALSE}]
  <2>1. t.kind = k /\ t.codes = NoTable.codes /\ t.ok = FALSE
    BY Zenon, <1>3
  <2>2. t \in Tables
    BY ZenonT(60), <1>1, <1>3, TablesTyped DEF Tables, Kinds
  <2> QED
    BY Zenon, <2>1, <2>2
<1> QED
  BY Zenon, <1>2, <1>3 DEF Torn

(* The flags of the driver stay truth values.                              *)
LEMMA FlagsTyped ==
  ASSUME FlagsOK, [Next]_vars
  PROVE  FlagsOK'
<1>1. ASSUME NEW ok \in BOOLEAN, MarkOob(ok) PROVE FlagsOK'
  BY <1>1, Zenon DEF FlagsOK, MarkOob, Return
<1>2. ASSUME NEW how, CheckRead(how) PROVE FlagsOK'
  BY <1>2, Zenon DEF FlagsOK, CheckRead, flash
<1>3. ASSUME NEW b \in Blocks, MarkBegin(b) \/ EraseBlock(b) \/ Decay(b) PROVE FlagsOK'
  BY <1>3, Zenon DEF FlagsOK, MarkBegin, EraseBlock, Decay
<1>4. CASE Scan \/ ScanMemory \/ CheckCreate \/ CheckUnreadable \/ Reset \/ Cut \/ UNCHANGED vars
  BY <1>4, Zenon DEF FlagsOK, Scan, ScanMemory, CheckCreate, CheckUnreadable, Reset, Cut, Restart,
     flash, vars
<1>5. CASE WriteErase \/ WriteNoSpace \/ WriteFails \/ WriteTable
  BY <1>5, Zenon DEF FlagsOK, WriteErase, WriteNoSpace, WriteFails, WriteTable, Return, flash
<1> QED
  BY Zenon, <1>1, <1>2, <1>3, <1>4, <1>5 DEF Next, Program

(* create_bbt, mark_bbt_region and write_bbt give each block a code of two *)
(* bits.                                                                   *)
LEMMA CodesTyped ==
  /\ Scanned \in Codes
  /\ \A c \in Codes : Reserved(c) \in Codes /\ Stored(c) \in Codes
  /\ [b \in Blocks |-> 0] \in Codes /\ NoDescr \in [Kinds -> Descr]
<1>1. NoDescr \in [Kinds -> Descr]
  BY Constants DEF NoDescr, Descr
<1> QED
  BY <1>1 DEF Scanned, Codes, Reserved, Or2, Stored

(* write_bbt writes the table to a block of the chip.                      *)
LEMMA TargetTyped ==
  ASSUME TypeOK, NEW k \in Kinds, Target(k) # None
  PROVE  Target(k) \in Blocks
<1>1. CASE d[k].block # None
  BY Zenon, <1>1 DEF Target, TypeOK, Descr
<1>2. CASE d[k].block = None
  <2> DEFINE free == {b \in Region : ~Bad(bbt[b]) /\ b # d[Other(k)].block}
  <2>1. free # {} /\ Target(k) = Max(free)
    BY Zenon, <1>2 DEF Target
  <2>2. free \subseteq Blocks
    BY Zenon, Constants
  <2> HIDE DEF free
  <2>3. Max(free) \in free
    BY Zenon, <2>1, <2>2, LastBlock
  <2> QED
    BY Zenon, <2>1, <2>2, <2>3
<1> QED
  BY Zenon, <1>1, <1>2

(* search_bbt finds a block of the chip, or none with version 0.           *)
LEMMA SearchTyped ==
  ASSUME TypeOK, NEW k \in Kinds
  PROVE  Search(k) \in Descr
<1> DEFINE hits == {b \in Region : tab[b].kind = k}
<1>1. hits \subseteq Blocks
  BY Zenon, Constants
<1>2. CASE hits = {}
  <2>1. Search(k) = [block |-> None, version |-> 0]
    BY Zenon, <1>2 DEF Search
  <2> QED
    BY <2>1, Constants DEF Descr
<1>3. CASE hits # {}
  <2>1. Search(k) = [block |-> Max(hits), version |-> tab[Max(hits)].version]
    BY Zenon, <1>3 DEF Search
  <2> HIDE DEF hits
  <2>2. Max(hits) \in Blocks
    BY Zenon, <1>1, <1>3, LastBlock
  <2>3. tab[Max(hits)].version \in 0..(VersionMod - 1)
    BY Zenon, <2>2 DEF TypeOK, Tables
  <2> QED
    BY <2>1, <2>2, <2>3 DEF Descr
<1> QED
  BY Zenon, <1>2, <1>3

(* check_create takes the larger of the two versions, one byte each.       *)
LEMMA MaxVersion ==
  ASSUME TypeOK
  PROVE  /\ Max({d["td"].version, d["md"].version}) \in 0..(VersionMod - 1)
         /\ d["td"].version = d["md"].version =>
              Max({d["td"].version, d["md"].version}) = d["td"].version
<1>1. d["td"].version \in 0..(VersionMod - 1) /\ d["md"].version \in 0..(VersionMod - 1)
  BY Zenon DEF TypeOK, Descr, Kinds
<1> DEFINE S == {d["td"].version, d["md"].version}
<1>2. \E x \in S : \A y \in S : x >= y
  BY <1>1, Constants
<1>3. Max(S) \in S
  BY Zenon, <1>2 DEF Max
<1> QED
  BY Zenon, <1>1, <1>3

(* check_create leaves well-typed descriptors and a well-typed table in    *)
(* memory.                                                                 *)
LEMMA GoTyped ==
  ASSUME TypeOK, NEW c \in Codes, NEW w \in SUBSET Kinds, NEW v \in 0..(VersionMod - 1), Go(c, w, v)
  PROVE  /\ d' \in [Kinds -> Descr] /\ bbt' \in Codes /\ todo' \subseteq Kinds
         /\ pc' \in {"idle", "erase"}
<1>1. \A k \in Kinds : [d[k] EXCEPT !.version = v] \in Descr
  BY Zenon DEF TypeOK, Descr
<1> QED
  BY Zenon, <1>1, CodesTyped DEF Go

(* nand_update_bbt returns to the idle driver, or to a block that is being *)
(* marked.                                                                 *)
LEMMA ReturnTyped ==
  ASSUME TypeOK, NEW ret, Return(ret)
  PROVE  /\ bbt' \in Codes /\ todo' \subseteq Kinds /\ pc' \in {"idle", "erase"}
         /\ victim' \in Blocks \union {None} /\ acked' \subseteq acked \cup ({victim} \ {None})
  BY Zenon, CodesTyped DEF TypeOK, Return

(* A fault leaves well-typed counters.                                     *)
LEMMA FaultTyped ==
  ASSUME TypeOK, NEW f, f \in FaultKinds, Fault(f)
  PROVE  faults' \in [FaultKinds -> Nat]
  BY DEF TypeOK, Fault

(* check_create reads a copy that it found, and does not write that one.   *)
LEMMA ChoiceTyped ==
  ASSUME TypeOK, ~(d["td"].block = None /\ d["md"].block = None)
  PROVE  /\ Choice.rd \in Kinds /\ Choice.write \in SUBSET Kinds
         /\ d[Choice.rd].block \in Blocks /\ Choice.rd \notin Choice.write
  BY Zenon DEF Choice, TypeOK, Descr, Kinds

(* nand_update_bbt writes the main copy first, then the mirror.            *)
LEMMA CurrentTyped ==
  ASSUME todo # {}, todo \subseteq Kinds
  PROVE  Current \in Kinds /\ Current \in todo
  BY Zenon DEF Current, Kinds

(* Every step of the driver keeps the types.                               *)
LEMMA TypedNext ==
  ASSUME TypeOK, AskedInv, [Next]_vars
  PROVE  TypeOK'
<1> USE FlagsTyped
<1>0. FlagsOK
  BY Zenon DEF TypeOK
<1>1. CASE Scan
  BY Zenon, <1>0, <1>1, SearchTyped, CodesTyped DEF Scan, TypeOK, flash, history
<1>2. CASE ScanMemory
  BY Zenon, <1>0, <1>2, CodesTyped DEF ScanMemory, TypeOK, flash, history
<1>3. CASE CheckCreate
  <2>1. 1 \in 0..(VersionMod - 1) /\ Scanned \in Codes /\ Kinds \in SUBSET Kinds
    BY Constants, CodesTyped
  <2> QED
    BY Zenon, <1>0, <1>3, <2>1, GoTyped DEF CheckCreate, TypeOK, flash, history
<1>4. CASE CheckUnreadable
  <2>1. [block |-> None, version |-> 0] \in Descr
    BY Constants DEF Descr
  <2> QED
    BY Zenon, <1>0, <1>4, <2>1 DEF CheckUnreadable, TypeOK, flash, history
<1>5. ASSUME NEW how \in {"ok", "flip", "io"}, CheckRead(how) PROVE TypeOK'
  <2>1. Choice.rd \in Kinds /\ Choice.write \in SUBSET Kinds /\ d[Choice.rd].block \in Blocks
    BY Zenon, <1>5, ChoiceTyped DEF CheckRead
  <2>2. (IF how = "io" THEN bbt ELSE tab[d[Choice.rd].block].codes) \in Codes
    BY Zenon, <2>1 DEF TypeOK, Tables
  <2>3. (IF how = "flip" THEN Kinds ELSE Choice.write) \in SUBSET Kinds
    BY Zenon, <2>1
  <2>4. d' \in [Kinds -> Descr] /\ bbt' \in Codes /\ todo' \subseteq Kinds /\ pc' \in {"idle", "erase"}
    BY Zenon, <1>5, <2>2, <2>3, GoTyped, MaxVersion DEF CheckRead
  <2>5. faults' \in [FaultKinds -> Nat]
    BY Zenon, <1>5, FaultTyped DEF CheckRead, TypeOK, FaultKinds
  <2> QED
    BY Zenon, <1>0, <1>5, <2>4, <2>5 DEF CheckRead, TypeOK, flash
<1>6. ASSUME NEW ok \in BOOLEAN, MarkOob(ok) PROVE TypeOK'
  <2>1. faults' \in [FaultKinds -> Nat]
    BY Zenon, <1>6, FaultTyped DEF MarkOob, TypeOK, FaultKinds
  <2>2. victim \in asked
    BY Zenon, <1>6 DEF MarkOob, AskedInv
  <2>3. mark' \subseteq Blocks
    BY Zenon, <1>6, <2>2 DEF MarkOob, TypeOK
  <2>4. CASE useFlash
    <3>1. \A k \in Kinds : [d[k] EXCEPT !.version = NextVersion(@)] \in Descr
      BY Constants DEF TypeOK, Descr, NextVersion
    <3> QED
      BY Zenon, <1>0, <1>6, <2>1, <2>3, <2>4, <3>1 DEF MarkOob, TypeOK
  <2>5. CASE ~useFlash
    <3>1. Return(ok) /\ UNCHANGED d /\ UNCHANGED <<useFlash, tab, wrote, asked>>
      BY Zenon, <1>6, <2>5 DEF MarkOob
    <3> QED
      BY Zenon, <1>0, <1>6, <2>1, <2>2, <2>3, <3>1, ReturnTyped DEF TypeOK
  <2> QED
    BY Zenon, <2>4, <2>5
<1>7. CASE WriteErase
  <2>1. Current \in Kinds
    BY Zenon, <1>7, CurrentTyped DEF WriteErase, TypeOK, AskedInv, Writing
  <2>2. tab' \in [Blocks -> Tables]
    BY Zenon, <1>7, <2>1, TablesTyped DEF WriteErase, TypeOK
  <2> QED
    BY Zenon, <1>0, <1>7, <2>2 DEF WriteErase, TypeOK, history
<1>8. CASE WriteNoSpace
  <2>1. Return(FALSE) /\ UNCHANGED <<flash, d, wrote, asked, faults>>
    BY Zenon, <1>8 DEF WriteNoSpace
  <2>2. acked' = acked
    BY Zenon, <2>1 DEF Return
  <2> QED
    BY Zenon, <1>0, <2>1, <2>2, ReturnTyped DEF TypeOK, flash
<1>9. CASE WriteFails
  <2>1. Current \in Kinds /\ Target(Current) \in Blocks
    BY Zenon, <1>9, CurrentTyped, TargetTyped DEF WriteFails, TypeOK, AskedInv, Writing
  <2>2. PICK t \in Torn(Current, Target(Current)) : tab' = [tab EXCEPT ![Target(Current)] = t]
    BY Zenon, <1>9 DEF WriteFails
  <2>3. t \in Tables
    BY Zenon, <2>1, TornFacts
  <2>4. tab' \in [Blocks -> Tables]
    BY Zenon, <2>2, <2>3 DEF TypeOK
  <2>5. Return(FALSE) /\ UNCHANGED <<useFlash, mark, d, wrote, asked>> /\ faults' \in [FaultKinds -> Nat]
    BY Zenon, <1>9, FaultTyped DEF WriteFails, FaultKinds
  <2>6. acked' = acked
    BY Zenon, <2>5 DEF Return
  <2> QED
    BY Zenon, <1>0, <2>4, <2>5, <2>6, ReturnTyped DEF TypeOK
<1>10. CASE WriteTable
  <2>1. Current \in Kinds /\ Writing /\ todo # {}
    BY Zenon, <1>10, CurrentTyped DEF WriteTable, TypeOK, AskedInv, Writing
  <2>2. Target(Current) \in Blocks
    BY Zenon, <1>10, <2>1, TargetTyped DEF WriteTable, AskedInv
  <2>3. [kind |-> Current, version |-> d[Current].version, codes |-> Stored(bbt), ok |-> TRUE] \in Tables
    BY Zenon, <2>1, TablesTyped, CodesTyped DEF TypeOK, Descr
  <2>4. tab' \in [Blocks -> Tables]
    BY Zenon, <1>10, <2>3 DEF WriteTable, TypeOK
  <2>5. d' \in [Kinds -> Descr]
    <3>1. [d[Current] EXCEPT !.block = Target(Current)] \in Descr
      BY Zenon, <2>1, <2>2 DEF TypeOK, Descr
    <3>2. d' = [d EXCEPT ![Current] = [d[Current] EXCEPT !.block = Target(Current)]]
      BY Zenon, <1>10, <2>1 DEF WriteTable, TypeOK
    <3> QED
      BY Zenon, <2>1, <3>1, <3>2 DEF TypeOK
  <2>6. wrote' \subseteq asked /\ UNCHANGED <<useFlash, mark, asked, faults>>
    BY Zenon, <1>10 DEF WriteTable, AskedInv, BadIn, TypeOK
  <2>7. victim # None => victim \in asked
    BY Zenon DEF AskedInv, BadIn, Bad, TypeOK
  <2>8. CASE todo = {Current}
    <3>1. Return(TRUE)
      BY Zenon, <1>10, <2>8 DEF WriteTable
    <3> QED
      BY Zenon, <1>0, <2>4, <2>5, <2>6, <2>7, <3>1, ReturnTyped DEF TypeOK
  <2>9. CASE todo # {Current}
    <3>1. pc' = "erase" /\ todo' = todo \ {Current} /\ UNCHANGED <<bbt, victim, err, acked>>
      BY Zenon, <1>10, <2>9 DEF WriteTable
    <3> QED
      BY Zenon, <1>0, <2>4, <2>5, <2>6, <3>1 DEF TypeOK
  <2> QED
    BY Zenon, <2>8, <2>9
<1>11. ASSUME NEW b \in Blocks, MarkBegin(b) PROVE TypeOK'
  <2>1. tab' \in [Blocks -> Tables] /\ bbt' \in Codes
    BY <1>11, TablesTyped DEF MarkBegin, TypeOK, Codes
  <2> QED
    BY Zenon, <1>0, <1>11, <2>1 DEF MarkBegin, TypeOK
<1>12. ASSUME NEW b \in Blocks, EraseBlock(b) PROVE TypeOK'
  <2>1. tab' \in [Blocks -> Tables]
    BY Zenon, <1>12, TablesTyped DEF EraseBlock, TypeOK
  <2> QED
    BY Zenon, <1>0, <1>12, <2>1 DEF EraseBlock, TypeOK, history
<1>13. ASSUME NEW b \in Blocks, Decay(b) PROVE TypeOK'
  <2>1. [tab[b] EXCEPT !.ok = FALSE] \in Tables
    BY Zenon DEF TypeOK, Tables
  <2>2. tab' \in [Blocks -> Tables]
    BY Zenon, <1>13, <2>1 DEF Decay, TypeOK
  <2>3. faults' \in [FaultKinds -> Nat]
    BY Zenon, <1>13, FaultTyped DEF Decay, FaultKinds
  <2> QED
    BY Zenon, <1>0, <1>13, <2>2, <2>3 DEF Decay, TypeOK
<1>14. CASE Cut
  <2>1. tab' \in [Blocks -> Tables]
    <3>1. CASE Writing /\ Target(Current) # None
      <4>1. Current \in Kinds /\ Target(Current) \in Blocks
        BY Zenon, <3>1, CurrentTyped, TargetTyped DEF TypeOK, AskedInv
      <4>2. PICK t \in Torn(Current, Target(Current)) : tab' = [tab EXCEPT ![Target(Current)] = t]
        BY Zenon, <1>14, <3>1 DEF Cut, Writing
      <4>3. t \in Tables
        BY Zenon, <4>1, TornFacts
      <4> QED
        BY Zenon, <4>2, <4>3 DEF TypeOK
    <3>2. CASE ~(Writing /\ Target(Current) # None)
      BY Zenon, <1>14, <3>2 DEF Cut, Writing, TypeOK
    <3> QED
      BY Zenon, <3>1, <3>2
  <2>2. faults' \in [FaultKinds -> Nat]
    BY Zenon, <1>14, FaultTyped DEF Cut, FaultKinds
  <2>3. NoDescr \in [Kinds -> Descr]
    BY Constants DEF NoDescr, Descr
  <2> QED
    BY Zenon, <1>0, <1>14, <2>1, <2>2, <2>3, CodesTyped DEF Cut, Restart, TypeOK
<1>15. CASE Reset
  <2>1. NoDescr \in [Kinds -> Descr]
    BY Constants DEF NoDescr, Descr
  <2> QED
    BY Zenon, <1>0, <1>15, <2>1, CodesTyped DEF Reset, Restart, TypeOK, flash, history
<1>16. CASE UNCHANGED vars
  BY Zenon, <1>0, <1>16 DEF vars, TypeOK
<1> QED
  BY Zenon, <1>1, <1>2, <1>3, <1>4, <1>5, <1>6, <1>7, <1>8, <1>9, <1>10, <1>11, <1>12, <1>13,
     <1>14,
     <1>15, <1>16 DEF Next, Program

-----------------------------------------------------------------------------
(* Nothing is bad that nobody asked to mark                                *)

(* What the conversions between memory, flash and markers do to the bad    *)
(* blocks: nothing.                                                        *)
LEMMA SameBad ==
  /\ \A c \in Codes : BadIn(Reserved(c)) = BadIn(c) /\ BadIn(Stored(c)) = BadIn(c)
  /\ BadIn(NoTable.codes) = {} /\ BadIn([b \in Blocks |-> 0]) = {}
  /\ mark \subseteq Blocks => BadIn(Scanned) = mark
<1>1. \A c \in Codes : BadIn(Reserved(c)) = BadIn(c)
  BY DEF BadIn, Reserved, Or2, Bad, Codes
<1>2. \A c \in Codes : BadIn(Stored(c)) = BadIn(c)
  BY DEF BadIn, Stored, Bad, Codes
<1>3. BadIn(NoTable.codes) = {} /\ BadIn([b \in Blocks |-> 0]) = {}
  BY DEF BadIn, NoTable, Bad
<1>4. mark \subseteq Blocks => BadIn(Scanned) = mark
  BY DEF BadIn, Scanned, Bad
<1> QED
  BY Zenon, <1>1, <1>2, <1>3, <1>4

(* How a step of the flash changes the bad blocks of its tables: a block   *)
(* that is erased, torn or written with the table in memory.               *)
LEMMA TabBad ==
  ASSUME TypeOK, NEW S, \A b \in Blocks : BadIn(tab[b].codes) \subseteq S,
         NEW c \in Blocks, NEW t, tab' = [tab EXCEPT ![c] = t], BadIn(t.codes) \subseteq S
  PROVE  \A b \in Blocks : BadIn(tab'[b].codes) \subseteq S
  BY Zenon DEF TypeOK

(* Every step of the driver keeps the blocks bad that someone asked to     *)
(* mark, and only those.                                                   *)
LEMMA AskedNext ==
  ASSUME TypeOK, AskedInv, TypeOK', [Next]_vars
  PROVE  AskedInv'
<1> USE DEF AskedInv
<1>1. CASE Scan \/ ScanMemory
  BY Zenon, <1>1, SameBad DEF Scan, ScanMemory, flash, history, Writing, TypeOK
<1>2. ASSUME NEW c \in Codes, NEW w \in SUBSET Kinds, NEW v, Go(c, w, v), BadIn(c) \subseteq asked,
             victim = None, UNCHANGED <<flash, victim, asked>>
      PROVE  AskedInv'
  <2>1. BadIn(bbt') \subseteq asked
    BY Zenon, <1>2, SameBad DEF Go
  <2> QED
    BY ZenonT(60), <1>2, <2>1 DEF Go, flash, Writing
<1>3. CASE CheckCreate
  BY ZenonT(60), <1>2, <1>3, SameBad, CodesTyped DEF CheckCreate, TypeOK, history
<1>4. CASE CheckUnreadable
  BY Zenon, <1>4 DEF CheckUnreadable, flash, history, Writing
<1>5. ASSUME NEW how \in {"ok", "flip", "io"}, CheckRead(how) PROVE AskedInv'
  <2> DEFINE c == IF how = "io" THEN bbt ELSE tab[d[Choice.rd].block].codes
             w == IF how = "flip" THEN Kinds ELSE Choice.write
  <2>1. c \in Codes /\ BadIn(c) \subseteq asked /\ w \in SUBSET Kinds
    BY ZenonT(60), <1>5, ChoiceTyped DEF CheckRead, TypeOK, Tables
  <2>2. victim = None /\ UNCHANGED <<flash, victim, asked>>
        /\ Go(c, w, Max({d["td"].version, d["md"].version}))
    BY Zenon, <1>5 DEF CheckRead, TypeOK
  <2> HIDE DEF c, w
  <2> QED
    BY Zenon, <1>2, <2>1, <2>2
<1>6. ASSUME NEW ok \in BOOLEAN, MarkOob(ok) PROVE AskedInv'
  BY ZenonT(60), <1>6 DEF MarkOob, Return, Writing, TypeOK, Kinds
<1>7. CASE WriteErase
  <2>1. Current \in Kinds /\ Target(Current) \in Blocks
    BY Zenon, <1>7, CurrentTyped, TargetTyped DEF WriteErase, TypeOK, Writing
  <2>2. \A b \in Blocks : BadIn(tab'[b].codes) \subseteq asked
    BY Zenon, <1>7, <2>1, TabBad, SameBad DEF WriteErase
  <2>3. Current' = Current
    BY Zenon, <1>7 DEF WriteErase, Current
  <2>4. \A k : Target(k)' = Target(k)
    BY Zenon, <1>7 DEF WriteErase, Target
  <2> QED
    BY Zenon, <1>7, <2>2, <2>3, <2>4 DEF WriteErase, history, Writing, IsBad
<1>8. CASE WriteNoSpace
  BY Zenon, <1>8, SameBad DEF WriteNoSpace, Return, flash, Writing, TypeOK
<1>9. CASE WriteFails
  <2>1. Current \in Kinds /\ Target(Current) \in Blocks
    BY Zenon, <1>9, CurrentTyped, TargetTyped DEF WriteFails, TypeOK, Writing
  <2>2. PICK t \in Torn(Current, Target(Current)) : tab' = [tab EXCEPT ![Target(Current)] = t]
    BY Zenon, <1>9 DEF WriteFails
  <2>3. BadIn(t.codes) \subseteq asked
    BY <2>1, TornFacts, SameBad
  <2>4. \A b \in Blocks : BadIn(tab'[b].codes) \subseteq asked
    BY Zenon, <2>1, <2>2, <2>3, TabBad
  <2> QED
    BY Zenon, <1>9, <2>4, SameBad DEF WriteFails, Return, Writing, TypeOK
<1>10. CASE WriteTable
  <2>1. Current \in Kinds /\ Target(Current) \in Blocks
    BY Zenon, <1>10, CurrentTyped, TargetTyped DEF WriteTable, TypeOK, Writing
  <2>2. \A b \in Blocks : BadIn(tab'[b].codes) \subseteq asked
    BY <1>10, <2>1, TabBad, SameBad DEF WriteTable, TypeOK
  <2>3. BadIn(bbt') \subseteq asked
    BY Zenon, <1>10, SameBad DEF WriteTable, Return, TypeOK
  <2>4. CASE todo = {Current}
    BY Zenon, <1>10, <2>2, <2>3, <2>4 DEF WriteTable, Return, Writing
  <2>5. CASE todo # {Current}
    BY Zenon, <1>10, <2>2, <2>3, <2>5 DEF WriteTable, Writing
  <2> QED
    BY Zenon, <2>4, <2>5
<1>11. ASSUME NEW b \in Blocks, MarkBegin(b) PROVE AskedInv'
  <2>1. \A c \in Blocks : BadIn(tab'[c].codes) \subseteq asked
    BY Zenon, <1>11, TabBad, SameBad DEF MarkBegin
  <2>2. BadIn(bbt') \subseteq asked \cup {b} /\ bbt'[b] = 1
    BY Zenon, <1>11 DEF MarkBegin, BadIn, Bad, TypeOK, Codes
  <2> QED
    BY ZenonT(60), <1>11, <2>1, <2>2, Constants DEF MarkBegin, Writing
<1>12. ASSUME NEW b \in Blocks, EraseBlock(b) PROVE AskedInv'
  <2>1. \A c \in Blocks : BadIn(tab'[c].codes) \subseteq asked
    BY Zenon, <1>12, TabBad, SameBad DEF EraseBlock
  <2> QED
    BY Zenon, <1>12, <2>1 DEF EraseBlock, Writing, history
<1>13. ASSUME NEW b \in Blocks, Decay(b) PROVE AskedInv'
  <2>1. tab' = [tab EXCEPT ![b] = [tab[b] EXCEPT !.ok = FALSE]]
    BY Zenon, <1>13 DEF Decay, TypeOK
  <2>2. [tab[b] EXCEPT !.ok = FALSE].codes = tab[b].codes
    BY Zenon DEF TypeOK, Tables
  <2>3. \A c \in Blocks : BadIn(tab'[c].codes) \subseteq asked
    BY SMTT(60), <2>1, <2>2, TabBad
  <2> QED
    BY Zenon, <1>13, <2>3 DEF Decay, Writing
<1>14. CASE Cut
  <2>1. \A b \in Blocks : BadIn(tab'[b].codes) \subseteq asked
    <3>1. CASE Writing /\ Target(Current) # None
      <4>1. Current \in Kinds /\ Target(Current) \in Blocks
        BY Zenon, <3>1, CurrentTyped, TargetTyped DEF TypeOK, AskedInv
      <4>2. PICK t \in Torn(Current, Target(Current)) : tab' = [tab EXCEPT ![Target(Current)] = t]
        BY Zenon, <1>14, <3>1 DEF Cut, Writing
      <4>3. BadIn(t.codes) \subseteq asked
        BY <4>1, TornFacts, SameBad
      <4> QED
        BY Zenon, <4>1, <4>2, <4>3, TabBad
    <3>2. CASE ~(Writing /\ Target(Current) # None)
      BY Zenon, <1>14, <3>2 DEF Cut, Writing
    <3> QED
      BY Zenon, <3>1, <3>2
  <2> QED
    BY Zenon, <1>14, <2>1, SameBad DEF Cut, Restart, Writing
<1>15. CASE Reset
  BY Zenon, <1>15, SameBad DEF Reset, Restart, flash, history, Writing
<1>16. CASE UNCHANGED vars
  <2>1. \A k : Target(k)' = Target(k)
    BY Zenon, <1>16 DEF vars, Target
  <2> QED
    BY Zenon, <1>16, <2>1 DEF vars, Writing, Current, IsBad
<1> QED
  BY ZenonT(60), <1>1, <1>3, <1>4, <1>5, <1>6, <1>7, <1>8, <1>9, <1>10, <1>11, <1>12, <1>13,
     <1>14, <1>15, <1>16
  DEF Next, Program

-----------------------------------------------------------------------------
(* The region at the end of the chip                                       *)

(* A scan, an erased block and the table write_bbt stores never say that a *)
(* block of the region is worn or reserved.                                *)
LEMMA CleanCodes ==
  /\ Clean(Scanned) /\ Clean(NoTable.codes)
  /\ TypeOK /\ useFlash /\ RegionInv => Clean(Stored(bbt))
<1>1. Clean(Scanned)
  BY Constants DEF Clean, Scanned
<1>2. Clean(NoTable.codes)
  BY Constants DEF Clean, NoTable
<1>3. ASSUME TypeOK, useFlash, RegionInv PROVE Clean(Stored(bbt))
  <2>1. \A c \in Region : bbt[c] = 0 \/ bbt[c] = 2 \/ bbt[c] = 3
    BY Zenon, <1>3 DEF RegionInv
  <2>2. \A c \in Blocks : Stored(bbt)[c] = IF bbt[c] = 2 THEN 0 ELSE bbt[c]
    BY DEF Stored
  <2>3. ASSUME NEW c \in Region PROVE Stored(bbt)[c] # 1
    BY <2>1, <2>2, Constants
  <2>4. ASSUME NEW c \in Blocks PROVE Stored(bbt)[c] # 2
    BY <2>2
  <2> QED
    BY Zenon, <2>3, <2>4 DEF Clean
<1> QED
  BY Zenon, <1>1, <1>2, <1>3

(* Programming a clean table into one block keeps all of them clean.       *)
LEMMA TabClean ==
  ASSUME TypeOK, \A b \in Blocks : Clean(tab[b].codes),
         NEW c \in Blocks, NEW t, tab' = [tab EXCEPT ![c] = t], Clean(t.codes)
  PROVE  \A b \in Blocks : Clean(tab'[b].codes)
  BY Zenon DEF TypeOK

(* The scan ends, or goes on to write tables.                              *)
LEMMA GoRegion ==
  ASSUME TypeOK, useFlash, RegionInv, UNCHANGED <<flash, victim, asked, acked>>, victim = None,
         NEW c \in Codes, NEW w, NEW v, Go(c, w, v), 
         \A b \in Region : c[b] \in {0, 3}, \A b \in Blocks : c[b] # 2
  PROVE  RegionInv'
<1>1. CASE w = {}
  <2>1. pc' = "idle" /\ bbt' = Reserved(c)
    BY Zenon, <1>1 DEF Go
  <2>2. \A b \in Blocks : bbt'[b] = 2 => b \in Region
    BY Zenon, <2>1 DEF Reserved, Or2
  <2>3. \A b \in Region : bbt'[b] \in {2, 3}
    BY Zenon, <2>1, Constants DEF Reserved, Or2, Bad
  <2> QED
    BY Zenon, <2>1, <2>2, <2>3 DEF RegionInv, InUseNow, flash
<1>2. CASE w # {}
  <2>1. pc' = "erase" /\ bbt' = c
    BY Zenon, <1>2 DEF Go
  <2> QED
    BY Zenon, <2>1 DEF RegionInv, InUseNow, flash
<1> QED
  BY Zenon, <1>1, <1>2

(* nand_update_bbt returns with the region still reserved.                 *)
LEMMA ReturnRegion ==
  ASSUME TypeOK, useFlash, RegionInv, AskedInv, Writing, UNCHANGED <<useFlash, asked>>, NEW ret, Return(ret),
         \A b \in Blocks : Clean(tab'[b].codes)
  PROVE  RegionInv'
<1>1. pc' = "idle" /\ acked \subseteq acked'
  BY Zenon DEF Return
<1>2. CASE victim = None
  <2>1. bbt' = Reserved(bbt)
    BY Zenon, <1>2 DEF Return
  <2>2. \A b \in Region : bbt[b] \in {0, 3}
    BY Zenon, <1>2 DEF RegionInv, InUseNow, Writing
  <2>3. \A b \in Blocks : bbt'[b] = 2 => b \in Region
    BY Zenon, <2>1 DEF Reserved, Or2, RegionInv
  <2>4. \A b \in Region : bbt'[b] \in {2, 3}
    BY Zenon, <2>1, <2>2, Constants DEF Reserved, Or2, Bad
  <2> QED
    BY Zenon, <1>1, <2>3, <2>4 DEF RegionInv, InUseNow
<1>3. CASE victim # None
  <2>1. bbt' = bbt
    BY Zenon, <1>3 DEF Return
  <2> QED
    BY Zenon, <1>1, <1>3, <2>1 DEF RegionInv, InUseNow
<1> QED
  BY Zenon, <1>2, <1>3

(* While tables are being written, there is one to write and its block is  *)
(* on the chip.                                                            *)
LEMMA WriteFacts ==
  ASSUME TypeOK, AskedInv, Writing
  PROVE  /\ Current \in Kinds /\ Current \in todo
         /\ Target(Current) # None => Target(Current) \in Blocks
  BY Zenon, CurrentTyped, TargetTyped DEF TypeOK, AskedInv

(* A power failure can tear no block but the one that is being written.    *)
LEMMA CutTab ==
  ASSUME TypeOK, AskedInv, Cut
  PROVE  \/ UNCHANGED tab
         \/ /\ Writing /\ Current \in Kinds /\ Current \in todo /\ Target(Current) \in Blocks
            /\ \E t \in Torn(Current, Target(Current)) : tab' = [tab EXCEPT ![Target(Current)] = t]
<1>1. CASE Writing /\ Target(Current) # None
  BY Zenon, <1>1, WriteFacts DEF Cut, Writing
<1>2. CASE ~(Writing /\ Target(Current) # None)
  BY Zenon, <1>2 DEF Cut, Writing
<1> QED
  BY Zenon, <1>1, <1>2

(* A torn table is unreadable or holds clean codes.                        *)
LEMMA TornClean ==
  ASSUME TypeOK, AskedInv, useFlash, RegionInv, Current \in Kinds, Target(Current) \in Blocks,
         NEW t \in Torn(Current, Target(Current)), tab' = [tab EXCEPT ![Target(Current)] = t]
  PROVE  \A b \in Blocks : Clean(tab'[b].codes)
<1>1. Clean(t.codes)
  BY TornFacts, CleanCodes DEF RegionInv
<1> QED
  BY Zenon, <1>1, TabClean DEF RegionInv

(* Every step of the driver keeps the codes of the region: reserved, or    *)
(* bad from the factory.                                                   *)
LEMMA RegionNext ==
  ASSUME TypeOK, AskedInv, RegionInv, TypeOK', AskedInv', [Next]_vars
  PROVE  RegionInv'
<1>0. SUFFICES ASSUME useFlash PROVE RegionInv'
  <2>1. UNCHANGED useFlash
    BY Zenon DEF Next, Program, Scan, ScanMemory, CheckCreate, CheckUnreadable, CheckRead,
       MarkOob,
       WriteErase, WriteNoSpace, WriteFails, WriteTable, MarkBegin, EraseBlock, Cut, Reset, Decay,
       flash, vars
  <2> QED
    BY Zenon, <2>1 DEF RegionInv
<1>1. CASE Scan \/ ScanMemory
  BY SMTT(60), <1>0, <1>1, Constants DEF Scan, ScanMemory, flash, history, RegionInv, InUseNow
<1>3. CASE CheckCreate
  <2>1. (\A b \in Region : Scanned[b] \in {0, 3}) /\ \A b \in Blocks : Scanned[b] # 2
    BY SMTT(60), Constants DEF Scanned
  <2> QED
    BY Zenon, <1>0, <1>3, <2>1, GoRegion, CodesTyped DEF CheckCreate, history, AskedInv
<1>4. CASE CheckUnreadable
  BY Zenon, <1>4 DEF CheckUnreadable, flash, history, RegionInv, InUseNow
<1>5. ASSUME NEW how \in {"ok", "flip", "io"}, CheckRead(how) PROVE RegionInv'
  <2> DEFINE c == IF how = "io" THEN bbt ELSE tab[d[Choice.rd].block].codes
             w == IF how = "flip" THEN Kinds ELSE Choice.write
  <2>1. c \in Codes
    BY Zenon, <1>5, ChoiceTyped DEF CheckRead, TypeOK, Tables
  <2>2. victim = None /\ UNCHANGED <<flash, victim, asked, acked>>
        /\ Go(c, w, Max({d["td"].version, d["md"].version}))
    BY ZenonT(60), <1>5 DEF CheckRead, AskedInv
  <2>3. (\A b \in Region : c[b] \in {0, 3}) /\ \A b \in Blocks : c[b] # 2
    <3>1. CASE how = "io"
      BY <1>0, <1>5, <2>2, <3>1 DEF CheckRead, RegionInv, InUseNow
    <3>2. CASE how # "io"
      <4>1. Clean(c)
        BY ZenonT(60), <1>0, <1>5, <3>2, ChoiceTyped DEF CheckRead, RegionInv
      <4>2. \A b \in Blocks : c[b] \in 0..3
        BY Zenon, <2>1 DEF Codes
      <4> HIDE DEF c
      <4> QED
        BY SMTT(60), <4>1, <4>2, Constants DEF Clean
    <3> QED
      BY ZenonT(60), <3>1, <3>2
  <2> HIDE DEF c, w
  <2> QED
    BY Zenon, <1>0, <2>1, <2>2, <2>3, GoRegion
<1>6. ASSUME NEW ok \in BOOLEAN, MarkOob(ok) PROVE RegionInv'
  BY Zenon, <1>0, <1>6 DEF MarkOob, RegionInv, InUseNow, AskedInv
<1>7. CASE WriteErase
  <2>1. \A b \in Blocks : Clean(tab'[b].codes)
    BY ZenonT(60), <1>0, <1>7, WriteFacts, TabClean, CleanCodes DEF WriteErase, RegionInv, Writing
  <2> QED
    BY Zenon, <1>7, <2>1 DEF WriteErase, history, RegionInv, InUseNow
<1>8. CASE WriteNoSpace
  BY Zenon, <1>0, <1>8, ReturnRegion DEF WriteNoSpace, flash, Writing, RegionInv
<1>9. CASE WriteFails
  <2>1. Writing /\ Target(Current) # None
        /\ \E t \in Torn(Current, Target(Current)) : tab' = [tab EXCEPT ![Target(Current)] = t]
    BY Zenon, <1>9 DEF WriteFails, Writing
  <2>2. \A b \in Blocks : Clean(tab'[b].codes)
    BY Zenon, <1>0, <2>1, TornClean, WriteFacts
  <2> QED
    BY Zenon, <1>0, <1>9, <2>1, <2>2, ReturnRegion DEF WriteFails
<1>10. CASE WriteTable
  <2>1. Writing /\ Target(Current) \in Blocks
    BY Zenon, <1>10, WriteFacts DEF WriteTable, Writing, AskedInv
  <2>2. \A b \in Blocks : Clean(tab'[b].codes)
    BY <1>0, <1>10, <2>1, TabClean, CleanCodes DEF WriteTable, RegionInv
  <2>3. CASE todo = {Current}
    BY Zenon, <1>0, <1>10, <2>1, <2>2, <2>3, ReturnRegion DEF WriteTable
  <2>4. CASE todo # {Current}
    BY Zenon, <1>10, <2>2, <2>4 DEF WriteTable, RegionInv, InUseNow
  <2> QED
    BY Zenon, <2>3, <2>4
<1>11. ASSUME NEW b \in Blocks, MarkBegin(b) PROVE RegionInv'
  <2>1. \A c \in Blocks : Clean(tab'[c].codes)
    BY Zenon, <1>0, <1>11, TabClean, CleanCodes DEF MarkBegin, RegionInv
  <2>2. b \notin Region
    BY Zenon, <1>0, <1>11 DEF MarkBegin, RegionInv, InUseNow, IsBad, Bad
  <2>3. bbt' \in Codes /\ \A c \in Blocks : c # b => bbt'[c] = bbt[c]
    BY Zenon, <1>11 DEF MarkBegin, TypeOK, Codes
  <2>4. bbt'[b] = 1 /\ pc' = "oob" /\ pc = "idle" /\ asked' = asked \cup {b} /\ UNCHANGED acked
    BY Zenon, <1>11 DEF MarkBegin, TypeOK, Codes
  <2> QED
    BY SMTT(60), <1>0, <2>1, <2>2, <2>3, <2>4, Constants DEF RegionInv, InUseNow
<1>12. ASSUME NEW b \in Blocks, EraseBlock(b) PROVE RegionInv'
  <2>1. \A c \in Blocks : Clean(tab'[c].codes)
    BY Zenon, <1>0, <1>12, TabClean, CleanCodes DEF EraseBlock, RegionInv
  <2> QED
    BY Zenon, <1>12, <2>1 DEF EraseBlock, history, RegionInv, InUseNow
<1>13. ASSUME NEW b \in Blocks, Decay(b) PROVE RegionInv'
  <2>1. tab' = [tab EXCEPT ![b] = [tab[b] EXCEPT !.ok = FALSE]]
    BY Zenon, <1>13 DEF Decay, TypeOK
  <2>2. [tab[b] EXCEPT !.ok = FALSE].codes = tab[b].codes
    BY Zenon DEF TypeOK, Tables
  <2>3. \A c \in Blocks : Clean(tab'[c].codes)
    BY Zenon, <1>0, <2>1, <2>2, TabClean DEF RegionInv
  <2> QED
    BY Zenon, <1>13, <2>3 DEF Decay, RegionInv, InUseNow
<1>14. CASE Cut
  <2>1. \A b \in Blocks : Clean(tab'[b].codes)
    BY Zenon, <1>0, <1>14, CutTab, TornClean DEF RegionInv
  <2> QED
    BY SMTT(60), <1>14, <2>1, Constants DEF Cut, Restart, RegionInv, InUseNow
<1>15. CASE Reset
  BY SMTT(60), <1>15, Constants DEF Reset, Restart, flash, history, RegionInv, InUseNow
<1>16. CASE UNCHANGED vars
  BY Zenon, <1>16 DEF vars, RegionInv, InUseNow
<1> QED
  BY Zenon, <1>1, <1>3, <1>4, <1>5, <1>6, <1>7, <1>8, <1>9, <1>10, <1>11, <1>12, <1>13, <1>14,
     <1>15, <1>16
  DEF Next, Program

-----------------------------------------------------------------------------
(* Faults only add up, and which step adds which.                          *)
LEMMA FaultStep ==
  ASSUME TypeOK, [Next]_vars
  PROVE  /\ NoIo' => NoIo /\ \A how : CheckRead(how) => how # "io"
         /\ NoFail' => NoFail /\ ~WriteFails /\ ~MarkOob(FALSE)
         /\ OnlyCuts' => OnlyCuts /\ ~CheckRead("flip") /\ \A b : ~Decay(b)
         /\ Faultless' => Faultless /\ ~Cut
         /\ faults'["cut"] < 2 => faults["cut"] < 2 /\ (Cut => faults["cut"] = 0)
<1>1. ASSUME NEW f, Fault(f)
      PROVE  /\ \A g \in FaultKinds : faults'[g] \in Nat /\ faults[g] \in Nat /\ faults[g] <= faults'[g]
             /\ f \in FaultKinds /\ faults'[f] = faults[f] + 1
  <2>1. \A g \in FaultKinds : faults[g] \in Nat
    BY Zenon DEF TypeOK
  <2> QED
    BY <1>1, <2>1, FaultFacts
<1>2. \A g \in FaultKinds : faults'[g] \in Nat /\ faults[g] \in Nat /\ faults[g] <= faults'[g]
  <2>1. UNCHANGED faults => \A g \in FaultKinds : faults'[g] \in Nat /\ faults[g] \in Nat /\ faults[g] <= faults'[g]
    BY SMTT(60) DEF TypeOK
  <2>2. UNCHANGED faults \/ \E f : Fault(f)
    BY Zenon DEF Next, Program, Scan, ScanMemory, CheckCreate, CheckUnreadable, CheckRead,
       MarkOob,
       WriteErase, WriteNoSpace, WriteFails, WriteTable, MarkBegin, EraseBlock, Cut, Reset, Decay,
       history, vars
  <2> QED
    BY Zenon, <1>1, <2>1, <2>2
<1>3. \A f : Fault(f) => faults'[f] # 0 /\ faults'[f] = faults[f] + 1
  BY SMTT(60), <1>1
<1>4. \A how : CheckRead(how) /\ how = "io" => faults'["io"] # 0
  BY Zenon, <1>3 DEF CheckRead
<1>5. CheckRead("flip") => faults'["flip"] # 0
  BY Zenon, <1>3 DEF CheckRead
<1>6. WriteFails \/ MarkOob(FALSE) => faults'["fail"] # 0
  BY Zenon, <1>3 DEF WriteFails, MarkOob
<1>7. \A b : Decay(b) => faults'["ecc"] # 0
  BY Zenon, <1>3 DEF Decay
<1>8. Cut => faults'["cut"] # 0 /\ faults'["cut"] = faults["cut"] + 1
  BY Zenon, <1>3 DEF Cut
<1>9. \A g \in FaultKinds : faults'[g] = 0 => faults[g] = 0
  BY <1>2
<1>10. faults'["cut"] < 2 => faults["cut"] < 2 /\ (Cut => faults["cut"] = 0)
  BY <1>2, <1>8 DEF FaultKinds
<1>11. /\ faults'["io"] = 0 => faults["io"] = 0
       /\ faults'["fail"] = 0 => faults["fail"] = 0
       /\ faults'["ecc"] = 0 => faults["ecc"] = 0
       /\ faults'["flip"] = 0 => faults["flip"] = 0
       /\ faults'["cut"] = 0 => faults["cut"] = 0
  BY Zenon, <1>9 DEF FaultKinds
<1> QED
  BY <1>4, <1>5, <1>6, <1>7, <1>8, <1>10, <1>11, Zenon DEF NoIo, NoFail, OnlyCuts, Faultless

-----------------------------------------------------------------------------
(* The homes of the two tables                                             *)

(* The homes of the main copy and of the mirror are good blocks, and not   *)
(* the same.                                                               *)
LEMMA HomeUnique ==
  ASSUME NEW k \in Kinds, NEW l \in Kinds, NEW b, NEW c, Home(k, b), Home(l, c)
  PROVE  b \in Good /\ b \in Blocks /\ (k = l <=> b = c)
<1>1. \A x \in Good : x \in Nat /\ x \in Blocks
  BY Zenon, Constants DEF Good
<1> QED
  BY <1>1 DEF Home, IsTop, IsNext, Kinds

(* The homes depend on the bad blocks of the region only.                  *)
LEMMA HomeStable ==
  ASSUME asked' \cap Region = asked \cap Region
  PROVE  /\ Good' = Good /\ \A k, b : Home(k, b)' = Home(k, b)
         /\ \A b : IsNext(b)' = IsNext(b)
<1>1. Good' = Good
  BY Zenon DEF Good
<1>2. \A b : IsTop(b)' = IsTop(b)
  BY Zenon, <1>1 DEF IsTop
<1>3. \A b : IsNext(b)' = IsNext(b)
  BY Zenon, <1>1, <1>2 DEF IsNext
<1> QED
  BY Zenon, <1>1, <1>2, <1>3 DEF Home

(* When the tables are used, a block of the region is bad in memory when   *)
(* and only when it was marked.                                            *)
LEMMA RegionBad ==
  ASSUME TypeOK, AskedInv, RegionInv, MarkedInv, useFlash, NoIo, Working
  PROVE  \A b \in Region : Bad(bbt[b]) <=> b \notin Good
  BY Zenon, Constants DEF AskedInv, RegionInv, MarkedInv, BadIn, Good

(* The free blocks write_bbt chooses from, and what it chooses.            *)
LEMMA TargetHome ==
  ASSUME TypeOK, AskedInv, RegionInv, MarkedInv, HomeInv, useFlash, NoIo, Writing
  PROVE  /\ Target(Current) # None => Home(Current, Target(Current)) /\ ~IsBad(Target(Current), TRUE)
         /\ Target(Current) = None => \A b : ~Home(Current, b)
<1>0. Working /\ \A b \in Region : Bad(bbt[b]) <=> b \notin Good
  BY Zenon, RegionBad DEF Writing, Working
<1>1. Current \in Kinds /\ Current \in todo
  BY Zenon, WriteFacts
<1>2. CASE d[Current].block # None
  <2>1. Target(Current) = d[Current].block /\ Home(Current, d[Current].block)
    BY Zenon, <1>1, <1>2 DEF Target, HomeInv
  <2>2. d[Current].block \in Good
    BY Zenon, <1>1, <2>1, HomeUnique
  <2> QED
    BY Zenon, <1>0, <1>2, <2>1, <2>2 DEF IsBad, Good
<1>3. CASE d[Current].block = None
  <2> DEFINE free == {b \in Region : ~Bad(bbt[b]) /\ b # d[Other(Current)].block}
  <2>1. free = Good \ {d[Other(Current)].block}
    BY Zenon, <1>0 DEF Good
  <2>2. Target(Current) = IF free = {} THEN None ELSE Max(free)
    BY Zenon, <1>3 DEF Target
  <2>3. Other(Current) \in Kinds /\ Other(Current) # Current
    BY Zenon, <1>1 DEF Other, Kinds
  <2>4. d[Other(Current)].block # None => Home(Other(Current), d[Other(Current)].block)
    BY Zenon, <2>3 DEF HomeInv
  <2>5. Current = "md" => d["td"].block # None
    BY Zenon, <1>1 DEF HomeInv, Pending, Current
  <2>6. Good \subseteq Blocks /\ Good \subseteq Region
    BY Zenon, Constants DEF Good
  <2>7. free # {} => Max(free) \in free /\ \A c \in free : c <= Max(free)
    BY Zenon, <2>1, <2>6, LastBlock
  <2> HIDE DEF free
  <2>8. free # {} => Max(free) \in Good /\ Max(free) # None /\ ~IsBad(Max(free), TRUE)
    BY Zenon, <1>0, <2>1, <2>6, <2>7, Constants DEF IsBad
  <2>9. CASE Current = "td"
    <3>1. Other(Current) = "md"
      BY Zenon, <2>9 DEF Other
    <3>2. ASSUME NEW t, IsTop(t) PROVE t \in free
      BY Zenon, <2>1, <2>4, <2>6, <3>1, <3>2, Constants, HomeUnique DEF Home, Kinds, IsTop
    <3>3. ASSUME free # {} PROVE IsTop(Max(free))
      <4>1. CASE d["md"].block = None
        BY Zenon, <2>1, <2>6, <2>7, <2>8, <3>1, <3>3, <4>1, Constants DEF IsTop
      <4>2. CASE d["md"].block # None
        <5>1. PICK t : IsTop(t)
          BY Zenon, <2>4, <3>1, <4>2 DEF Home, IsNext
        <5>2. t <= Max(free) /\ Max(free) <= t /\ t \in Nat /\ Max(free) \in Nat
          BY Zenon, <2>6, <2>7, <2>8, <3>2, <3>3, <5>1, Constants DEF IsTop
        <5> QED
          BY <5>1, <5>2
      <4> QED
        BY Zenon, <4>1, <4>2
    <3>4. (\E b : IsTop(b)) => free # {}
      BY Zenon, <3>2
    <3> QED
      BY Zenon, <2>2, <2>8, <2>9, <3>3, <3>4 DEF Home
  <2>10. CASE Current = "md"
    <3>1. Other(Current) = "td" /\ IsTop(d["td"].block)
      BY Zenon, <2>4, <2>5, <2>10 DEF Other, Home
    <3>2. \A c \in Good : c # d["td"].block => c \in free
      BY Zenon, <2>1, <3>1
    <3>3. free # {} => IsNext(Max(free))
      BY Zenon, <2>1, <2>7, <2>8, <3>1, <3>2 DEF IsNext, IsTop
    <3>4. ASSUME NEW b, IsNext(b) PROVE free # {}
      <4>1. b \in Good /\ b # d["td"].block
        BY Zenon, <3>1, <3>4, HomeUnique DEF Home, Kinds
      <4> QED
        BY Zenon, <3>2, <4>1
    <3> QED
      BY ZenonT(60), <2>2, <2>8, <2>10, <3>3, <3>4 DEF Home
  <2> QED
    BY Zenon, <1>1, <2>9, <2>10 DEF Kinds
<1> QED
  BY Zenon, <1>2, <1>3
=============================================================================
