---------------------------- MODULE NandBbtHomes ----------------------------
(***************************************************************************)
(* Each copy of the table stays in one home block, blocks marked bad stay  *)
(* marked, and a table that is not pending is current: the conjuncts of    *)
(* the invariant of NandBbtTables that each write of a table keeps.        *)
(***************************************************************************)
EXTENDS NandBbtTables

(* What scan_write_bbt writes.                                             *)
Written(k) == [kind |-> k, version |-> d[k].version, codes |-> Stored(bbt), ok |-> TRUE]

(* What a step can do to the table a block holds.                          *)
LEMMA TabStep ==
  ASSUME TypeOK, AskedInv, [Next]_vars, NEW b \in Blocks
  PROVE  \/ tab'[b] = tab[b]
         \/ tab'[b] = NoTable
         \/ Decay(b) /\ tab'[b].kind = tab[b].kind /\ ~tab'[b].ok
         \/ /\ Writing /\ b = Target(Current) /\ b # None /\ Current \in Kinds /\ Current \in todo
            /\ \/ (Cut \/ WriteFails) /\ tab'[b].kind = Current /\ ~tab'[b].ok
               \/ WriteTable /\ tab'[b] = Written(Current)
<1>1. CASE UNCHANGED tab
  BY Zenon, <1>1
<1>2. ASSUME NEW c \in Blocks, tab' = [tab EXCEPT ![c] = NoTable] PROVE tab'[b] \in {NoTable, tab[b]}
  BY Zenon, <1>2 DEF TypeOK
<1>3. ASSUME Cut \/ WriteFails, Writing, Target(Current) \in Blocks, Current \in Kinds, Current \in todo,
             \E t \in Torn(Current, Target(Current)) : tab' = [tab EXCEPT ![Target(Current)] = t]
      PROVE  \/ tab'[b] = tab[b]
             \/ tab'[b] = NoTable
             \/ b = Target(Current) /\ tab'[b].kind = Current /\ ~tab'[b].ok
  <2>1. PICK t \in Torn(Current, Target(Current)) : tab' = [tab EXCEPT ![Target(Current)] = t]
    BY Zenon, <1>3
  <2>2. CASE b # Target(Current)
    BY Zenon, <2>1, <2>2 DEF TypeOK
  <2>3. CASE b = Target(Current)
    <3>1. tab'[b] = t
      BY Zenon, <2>1, <2>3 DEF TypeOK
    <3> QED
      BY <1>3, <2>3, <3>1, TornFacts
  <2> QED
    BY Zenon, <2>2, <2>3
<1>4. ASSUME NEW c \in Blocks, Decay(c) PROVE tab'[b] = tab[b] \/ (b = c /\ tab'[b].kind = tab[b].kind /\ ~tab'[b].ok)
  BY Zenon, <1>4 DEF Decay, TypeOK, Tables
<1>5. CASE WriteTable
  <2>1. Writing /\ Target(Current) \in Blocks /\ Target(Current) # None /\ Current \in Kinds /\ Current \in todo
    BY Zenon, <1>5, WriteFacts DEF WriteTable, Writing, AskedInv
  <2>2. tab' = [tab EXCEPT ![Target(Current)] = Written(Current)]
    BY Zenon, <1>5 DEF WriteTable, Written
  <2> QED
    BY <1>5, <2>1, <2>2 DEF TypeOK
<1>6. CASE WriteErase
  <2>1. Target(Current) \in Blocks /\ tab' = [tab EXCEPT ![Target(Current)] = NoTable]
    BY Zenon, <1>6, WriteFacts DEF WriteErase, Writing
  <2> QED
    BY Zenon, <1>2, <2>1
<1>7. CASE \E c \in Blocks : MarkBegin(c) \/ EraseBlock(c)
  BY Zenon, <1>2, <1>7 DEF MarkBegin, EraseBlock
<1>8. CASE WriteFails
  <2>1. Writing /\ Target(Current) # None
        /\ \E t \in Torn(Current, Target(Current)) : tab' = [tab EXCEPT ![Target(Current)] = t]
    BY Zenon, <1>8 DEF WriteFails, Writing
  <2>2. Target(Current) \in Blocks /\ Current \in Kinds /\ Current \in todo
    BY Zenon, <2>1, WriteFacts
  <2> QED
    BY Zenon, <1>3, <1>8, <2>1, <2>2
<1>9. CASE Cut
  BY Zenon, <1>1, <1>3, <1>9, CutTab, Constants
<1>10. UNCHANGED tab \/ WriteTable \/ WriteErase \/ WriteFails \/ Cut
       \/ \E c \in Blocks : MarkBegin(c) \/ EraseBlock(c) \/ Decay(c)
  BY Zenon DEF Next, Program, Scan, ScanMemory, CheckCreate, CheckUnreadable, CheckRead, MarkOob,
     WriteNoSpace, Reset, flash, vars
<1> QED
  BY Zenon, <1>1, <1>4, <1>5, <1>6, <1>7, <1>8, <1>9, <1>10

(* useFlash is fixed, and no block of the region is ever marked.           *)
LEMMA RegionKept ==
  ASSUME TypeOK, RegionInv, [Next]_vars
  PROVE  useFlash' = useFlash /\ (useFlash => asked' \cap Region = asked \cap Region)
<1>1. UNCHANGED <<useFlash, asked>> \/ \E b \in Blocks : MarkBegin(b)
  BY Zenon DEF Next, Program, Scan, ScanMemory, CheckCreate, CheckUnreadable, CheckRead, MarkOob,
     WriteErase, WriteNoSpace, WriteFails, WriteTable, EraseBlock, Cut, Reset, Decay,
     flash, vars, history
<1>2. ASSUME NEW b \in Blocks, MarkBegin(b), useFlash PROVE b \notin Region
  BY Zenon, <1>2 DEF MarkBegin, RegionInv, InUseNow, IsBad, Bad
<1>3. ASSUME NEW b \in Blocks, MarkBegin(b) PROVE useFlash' = useFlash /\ asked' = asked \cup {b}
  BY Zenon, <1>3 DEF MarkBegin
<1> QED
  BY Zenon, <1>1, <1>2, <1>3

(* search_bbt finds the table of a kind, which is in its home.             *)
LEMMA SearchFinds ==
  ASSUME TypeOK, \A b \in Blocks : IsTable(b) => Home(tab[b].kind, b), NEW k \in Kinds
  PROVE  /\ Search(k).block = None => Search(k).version = 0
         /\ Search(k).block # None =>
              /\ Search(k).block \in Blocks /\ Home(k, Search(k).block)
              /\ tab[Search(k).block].kind = k /\ Search(k).version = tab[Search(k).block].version
         /\ \A b \in Blocks : tab[b].kind = k => Search(k).block = b
<1> DEFINE hits == {b \in Region : tab[b].kind = k}
<1>1. hits \subseteq Blocks
  BY Zenon, Constants
<1>2. \A b \in Blocks : tab[b].kind = k => IsTable(b) /\ Home(k, b) /\ b \in Region
  BY HomeUnique DEF IsTable, Kinds, Good
<1>3. CASE hits = {}
  <2>1. Search(k).block = None /\ Search(k).version = 0
    BY Zenon, <1>3 DEF Search
  <2> QED
    BY Zenon, <1>2, <1>3, <2>1
<1>4. CASE hits # {}
  <2>1. Search(k) = [block |-> Max(hits), version |-> tab[Max(hits)].version]
    BY Zenon, <1>4 DEF Search
  <2>2. Max(hits) \in hits
    BY Zenon, <1>1, <1>4, LastBlock
  <2>3. Max(hits) \in Blocks /\ tab[Max(hits)].kind = k
    BY Zenon, <1>1, <2>2
  <2> HIDE DEF hits
  <2>4. \A b \in Blocks : tab[b].kind = k => b = Max(hits)
    BY <1>2, <2>3, HomeUnique
  <2>5. Search(k).block = Max(hits) /\ Search(k).version = tab[Max(hits)].version /\ Max(hits) # None
    BY <2>1, <2>3, Constants
  <2> QED
    BY Zenon, <1>2, <2>3, <2>4, <2>5
<1> QED
  BY Zenon, <1>3, <1>4

(* What a step can do to the block known for a table.                      *)
LEMMA DescrStep ==
  ASSUME TypeOK, AskedInv, [Next]_vars, NEW k \in Kinds
  PROVE  \/ d'[k].block = None
         \/ d'[k].block = d[k].block
         \/ Scan /\ d'[k].block = Search(k).block
         \/ WriteTable /\ k = Current /\ d'[k].block = Target(Current)
<1>1. ASSUME NEW c, NEW w, NEW v, Go(c, w, v) PROVE d'[k].block = d[k].block
  BY Zenon, <1>1 DEF Go, TypeOK, Descr
<1>2. CASE CheckCreate \/ \E how : CheckRead(how)
  BY Zenon, <1>1, <1>2 DEF CheckCreate, CheckRead
<1>3. CASE CheckUnreadable
  BY Zenon, <1>3 DEF CheckUnreadable, TypeOK
<1>4. CASE \E ok \in BOOLEAN : MarkOob(ok)
  BY <1>4 DEF MarkOob, TypeOK, Descr
<1>5. CASE WriteTable
  BY Zenon, <1>5 DEF WriteTable, TypeOK, Descr
<1>6. CASE Cut \/ Reset
  BY <1>6 DEF Cut, Reset, Restart, NoDescr
<1>7. CASE Scan
  BY Zenon, <1>7 DEF Scan
<1>8. UNCHANGED d \/ CheckCreate \/ (\E how : CheckRead(how)) \/ CheckUnreadable
      \/ (\E ok \in BOOLEAN : MarkOob(ok)) \/ WriteTable \/ Cut \/ Reset \/ Scan
  BY Zenon DEF Next, Program, ScanMemory, WriteErase, WriteNoSpace, WriteFails, MarkBegin,
     EraseBlock, Decay, vars
<1> QED
  BY Zenon, <1>2, <1>3, <1>4, <1>5, <1>6, <1>7, <1>8

(* A chip without NAND_BBT_USE_FLASH never has a table.                    *)
LEMMA HomeOff ==
  ASSUME TypeOK, AskedInv, RegionInv, HomeInv, [Next]_vars, ~useFlash
  PROVE  HomeInv'
<1>1. (\A b \in Blocks : ~IsTable(b)) /\ pc \in {"off", "oob", "idle"} /\ ~useFlash'
  BY RegionKept DEF HomeInv
<1>2. \A b \in Blocks : ~IsTable(b)'
  <2>1. \A b \in Blocks : tab'[b] = tab[b] \/ tab'[b] = NoTable
    BY Zenon, <1>1, TabStep DEF Writing, Decay, IsTable
  <2> QED
    BY <1>1, <2>1 DEF IsTable, NoTable
<1>3. pc' \in {"off", "oob", "idle"}
  BY Zenon, <1>1 DEF Next, Program, Scan, ScanMemory, CheckCreate, CheckUnreadable, CheckRead,
     MarkOob, Return,
     WriteErase, WriteNoSpace, WriteFails, WriteTable, MarkBegin, EraseBlock, Cut, Reset,
     Restart, Decay, vars
<1> QED
  BY Zenon, <1>1, <1>2, <1>3 DEF HomeInv

(* The writes still to be made: the mirror alone only with a main copy.    *)
LEMMA PendingStep ==
  ASSUME TypeOK, AskedInv, TypeOK', AskedInv', [Next]_vars,
         Pending("md") /\ ~Pending("td") => d["td"].block # None,
         Pending("md")', ~Pending("td")'
  PROVE  d'["td"].block # None
<1>0. todo' = {"md"} /\ Writing'
  <2>1. Writing' /\ "md" \in todo' /\ "td" \notin todo'
    BY Zenon DEF Pending
  <2>2. todo' \subseteq {"td", "md"}
    BY Zenon DEF TypeOK, Kinds
  <2> QED
    BY Zenon, <2>1, <2>2
<1>1. ASSUME NEW c, NEW w, NEW v, Go(c, w, v), d["td"].block # None PROVE d'["td"].block # None
  BY Zenon, <1>1 DEF Go, TypeOK, Descr, Kinds
<1>2. CASE \E how \in {"ok", "flip", "io"} : CheckRead(how)
  <2>1. PICK how \in {"ok", "flip", "io"} : CheckRead(how)
    BY Zenon, <1>2
  <2>2. Choice.write = {"md"}
    BY Zenon, <1>0, <2>1 DEF CheckRead, Go, Kinds
  <2>3. d["td"].block # None
    BY Zenon, <2>2 DEF Choice
  <2> QED
    BY Zenon, <1>1, <2>1, <2>3 DEF CheckRead
<1>3. CASE CheckCreate
  BY Zenon, <1>0, <1>3 DEF CheckCreate, Go, Kinds
<1>4. CASE \E ok \in BOOLEAN : MarkOob(ok)
  BY <1>0, <1>4 DEF MarkOob, Return, Kinds
<1>5. CASE WriteTable
  <2>1. todo' = todo \ {Current} /\ Writing /\ Target(Current) # None /\ Current \in Kinds
    BY Zenon, <1>0, <1>5, WriteFacts DEF WriteTable, Return, Writing, AskedInv
  <2>2. Current = "td"
    BY Zenon, <1>0, <2>1 DEF Current, Kinds
  <2> QED
    BY <1>5, <2>1, <2>2 DEF WriteTable, TypeOK, Descr
<1>6. CASE WriteErase \/ UNCHANGED vars
  <2>1. todo' = todo /\ d' = d /\ Writing
    BY Zenon, <1>0, <1>6 DEF WriteErase, vars, Writing
  <2> QED
    BY Zenon, <1>0, <2>1 DEF Pending
<1>7. CASE Scan \/ ScanMemory \/ CheckUnreadable \/ WriteNoSpace \/ WriteFails \/ Cut \/ Reset
  BY Zenon, <1>0, <1>7 DEF Scan, ScanMemory, CheckUnreadable, WriteNoSpace, WriteFails, Return,
     Cut, Reset, Restart,
     Writing
<1>8. CASE \E b \in Blocks : MarkBegin(b) \/ EraseBlock(b) \/ Decay(b)
  BY ZenonT(60), <1>0, <1>8 DEF MarkBegin, EraseBlock, Decay, Writing
<1> QED
  BY Zenon, <1>2, <1>3, <1>4, <1>5, <1>6, <1>7, <1>8 DEF Next, Program

(* Every step of the driver leaves the tables, and what the descriptors    *)
(* say of them, at home.                                                   *)
LEMMA HomeNext ==
  ASSUME TypeOK, AskedInv, RegionInv, MarkedInv, HomeInv, TypeOK', AskedInv', [Next]_vars
  PROVE  HomeInv'
<1>0. SUFFICES ASSUME useFlash, NoIo, useFlash' PROVE HomeInv'
  BY Zenon, HomeOff, FaultStep, RegionKept DEF HomeInv
<1>1. \A k, b : Home(k, b)' = Home(k, b)
  BY Zenon, <1>0, RegionKept, HomeStable
<1>2. Writing /\ Target(Current) # None => Home(Current, Target(Current))
  BY Zenon, <1>0, TargetHome
<1>3. \A b \in Blocks : IsTable(b)' => Home(tab'[b].kind, b)
  <2> SUFFICES ASSUME NEW b \in Blocks, IsTable(b)' PROVE Home(tab'[b].kind, b)
    BY Zenon
  <2>1. IsTable(b) => Home(tab[b].kind, b)
    BY Zenon, <1>0 DEF HomeInv
  <2> QED
    BY <1>2, <2>1, TabStep DEF IsTable, NoTable, Written
<1>4. \A k \in Kinds : d'[k].block # None => Home(k, d'[k].block)
  <2> SUFFICES ASSUME NEW k \in Kinds, d'[k].block # None PROVE Home(k, d'[k].block)
    BY Zenon
  <2>1. d[k].block # None => Home(k, d[k].block)
    BY Zenon, <1>0 DEF HomeInv
  <2>2. Search(k).block # None => Home(k, Search(k).block)
    BY Zenon, <1>0, SearchFinds DEF HomeInv
  <2>3. WriteTable => Writing
    BY Zenon DEF WriteTable, Writing
  <2> QED
    BY Zenon, <1>2, <2>1, <2>2, <2>3, DescrStep
<1>5. (Pending("md") /\ ~Pending("td"))' => d'["td"].block # None
  BY Zenon, <1>0, PendingStep DEF HomeInv
<1>6. ASSUME pc' = "check"
      PROVE /\ \A k \in Kinds : d'[k].block # None =>
                 tab'[d'[k].block].kind = k /\ d'[k].version = tab'[d'[k].block].version
            /\ \A k \in Kinds : d'[k].block = None => d'[k].version = 0
            /\ \A b \in Blocks : Readable(b)' => d'[tab'[b].kind].block = b
  <2>1. CASE Scan
    <3>1. tab' = tab /\ \A k \in Kinds : d'[k] = Search(k)
      BY Zenon, <2>1 DEF Scan, flash
    <3>2. \A b \in Blocks : Readable(b)' => tab[b].kind \in Kinds
      BY Zenon, <3>1 DEF Readable, IsTable, TypeOK, Tables, Kinds
    <3> QED
      BY <1>0, <3>1, <3>2, SearchFinds DEF HomeInv
  <2>2. CASE CheckUnreadable
    <3>1. Choice.rd \in Kinds /\ d[Choice.rd].block \in Blocks /\ pc = "check" /\ tab' = tab
          /\ ~tab[d[Choice.rd].block].ok
      BY Zenon, <2>2, ChoiceTyped DEF CheckUnreadable, flash
    <3>2. \A k \in Kinds : d'[k] = IF k = Choice.rd THEN [block |-> None, version |-> 0] ELSE d[k]
      BY Zenon, <2>2, <3>1 DEF CheckUnreadable, TypeOK
    <3>3. \A b \in Blocks : Readable(b) => tab[b].kind \in Kinds
      BY Zenon DEF Readable, IsTable, TypeOK, Tables, Kinds
    <3>4. \A b \in Blocks : Readable(b) => d[tab[b].kind].block = b /\ tab[b].ok
      BY Zenon, <1>0, <3>1 DEF HomeInv, Readable
    <3>5. \A b \in Blocks : Readable(b)' <=> Readable(b)
      BY Zenon, <3>1 DEF Readable, IsTable
    <3>6. \A b \in Blocks : Readable(b) => tab[b].kind # Choice.rd
      BY Zenon, <3>1, <3>4
    <3> QED
      BY SMTT(60), <1>0, <3>1, <3>2, <3>3, <3>4, <3>5, <3>6 DEF HomeInv
  <2>3. CASE UNCHANGED vars
    BY Zenon, <1>0, <1>6, <2>3 DEF vars, HomeInv, Readable, IsTable
  <2> QED
    BY ZenonT(60), <1>6, <2>1, <2>2, <2>3 DEF Next, Program, ScanMemory, CheckCreate, CheckRead,
       Go, MarkOob, Return,
       WriteErase, WriteNoSpace, WriteFails, WriteTable, MarkBegin, EraseBlock, Cut, Reset,
       Restart, Decay
<1> QED
  BY Zenon, <1>0, <1>1, <1>3, <1>4, <1>5, <1>6 DEF HomeInv

-----------------------------------------------------------------------------
(* Marked blocks stay marked                                               *)

(* A table that can be read was there before, or has just been written.    *)
LEMMA ReadableStep ==
  ASSUME TypeOK, AskedInv, [Next]_vars, NEW b \in Blocks, Readable(b)'
  PROVE  \/ tab'[b] = tab[b] /\ Readable(b)
         \/ /\ WriteTable /\ Writing /\ b = Target(Current) /\ Current \in Kinds /\ Current \in todo
            /\ tab'[b] = Written(Current)
  BY TabStep DEF Readable, IsTable, NoTable

(* A marker disappears only with the erase of a block that is not bad.     *)
LEMMA MarkStep ==
  ASSUME TypeOK, AskedInv, [Next]_vars
  PROVE  \/ mark \subseteq mark'
         \/ Working /\ \E b \in Blocks : ~Bad(bbt[b]) /\ mark' = mark \ {b}
<1>1. CASE WriteErase
  BY Zenon, <1>1, WriteFacts DEF WriteErase, Working, Writing, IsBad
<1>2. CASE \E b \in Blocks : MarkBegin(b) \/ EraseBlock(b)
  BY Zenon, <1>2 DEF MarkBegin, EraseBlock, Working, IsBad
<1>3. CASE \E ok \in BOOLEAN : MarkOob(ok)
  BY Zenon, <1>3 DEF MarkOob
<1>4. UNCHANGED mark \/ WriteErase \/ (\E b \in Blocks : MarkBegin(b) \/ EraseBlock(b))
      \/ \E ok \in BOOLEAN : MarkOob(ok)
  BY Zenon DEF Next, Program, Scan, ScanMemory, CheckCreate, CheckUnreadable, CheckRead,
     WriteNoSpace, WriteFails, WriteTable, Cut, Reset, Decay, flash, vars
<1> QED
  BY Zenon, <1>1, <1>2, <1>3, <1>4

(* nand_block_markbad returns 0 when the last table is written, or at once *)
(* when there are no tables.                                               *)
LEMMA AckStep ==
  ASSUME TypeOK, [Next]_vars
  PROVE  \/ acked' = acked
         \/ /\ victim # None /\ ~err /\ acked' = acked \cup {victim}
            /\ (WriteTable /\ todo = {Current}) \/ (MarkOob(TRUE) /\ ~useFlash)
<1>1. ASSUME NEW ret \in BOOLEAN, Return(ret)
      PROVE  acked' = acked \/ (ret /\ victim # None /\ ~err /\ acked' = acked \cup {victim})
  BY <1>1, Zenon DEF Return
<1>2. CASE WriteTable
  BY Zenon, <1>1, <1>2 DEF WriteTable
<1>3. ASSUME NEW ok \in BOOLEAN, MarkOob(ok)
      PROVE  acked' = acked
             \/ (ok /\ ~useFlash /\ victim # None /\ ~err /\ acked' = acked \cup {victim})
  BY <1>1, <1>3, Zenon DEF MarkOob
<1>4. CASE WriteNoSpace \/ WriteFails
  BY Zenon, <1>1, <1>4 DEF WriteNoSpace, WriteFails
<1>5. UNCHANGED acked \/ WriteTable \/ WriteNoSpace \/ WriteFails \/ MarkOob(TRUE) \/ MarkOob(FALSE)
  BY ZenonT(60) DEF Next, Program, Scan, ScanMemory, CheckCreate, CheckUnreadable, CheckRead,
     WriteErase, 
     MarkBegin, EraseBlock, Cut, Reset, Decay, history, vars
<1> QED
  BY Zenon, <1>2, <1>3, <1>4, <1>5

(* The table in memory: kept, with a block more, or built from the markers *)
(* or from a readable table.                                               *)
LEMMA BbtStep ==
  ASSUME TypeOK, AskedInv, HomeInv, [Next]_vars, NoIo', Working'
  PROVE  \/ Working /\ BadIn(bbt) \subseteq BadIn(bbt')
         \/ BadIn(bbt') = mark
         \/ /\ pc = "check" /\ useFlash /\ d[Choice.rd].block \in Blocks /\ Readable(d[Choice.rd].block)
            /\ Choice.rd \in Kinds /\ tab[d[Choice.rd].block].kind = Choice.rd
            /\ ~(d["td"].block = None /\ d["md"].block = None)
            /\ BadIn(bbt') = BadIn(tab[d[Choice.rd].block].codes)
<1>0. NoIo /\ \A how : CheckRead(how) => how # "io"
  BY ZenonT(60), FaultStep
<1>1. ASSUME NEW c \in Codes, NEW w, NEW v, Go(c, w, v) PROVE BadIn(bbt') = BadIn(c)
  BY Zenon, <1>1, SameBad DEF Go
<1>2. CASE ScanMemory \/ CheckCreate
  BY Zenon, <1>1, <1>2, SameBad, CodesTyped DEF ScanMemory, CheckCreate, TypeOK
<1>3. ASSUME NEW how, CheckRead(how) PROVE
            /\ pc = "check" /\ useFlash /\ d[Choice.rd].block \in Blocks /\ Readable(d[Choice.rd].block)
            /\ Choice.rd \in Kinds /\ tab[d[Choice.rd].block].kind = Choice.rd
            /\ ~(d["td"].block = None /\ d["md"].block = None)
            /\ BadIn(bbt') = BadIn(tab[d[Choice.rd].block].codes)
  <2>1. pc = "check" /\ Choice.rd \in Kinds /\ d[Choice.rd].block \in Blocks /\ how # "io"
        /\ tab[d[Choice.rd].block].ok /\ d[Choice.rd].block # None
        /\ ~(d["td"].block = None /\ d["md"].block = None)
    BY Zenon, <1>0, <1>3, ChoiceTyped, Constants DEF CheckRead
  <2>2. useFlash /\ tab[d[Choice.rd].block].kind = Choice.rd
    BY Zenon, <1>0, <2>1 DEF HomeInv
  <2>3. tab[d[Choice.rd].block].codes \in Codes
    BY Zenon, <2>1 DEF TypeOK, Tables
  <2>4. BadIn(bbt') = BadIn(tab[d[Choice.rd].block].codes)
    BY Zenon, <1>1, <1>3, <2>1, <2>3 DEF CheckRead
  <2> QED
    BY Zenon, <2>1, <2>2, <2>4 DEF Readable, IsTable, Kinds
<1>4. ASSUME NEW ret, Return(ret) PROVE BadIn(bbt') = BadIn(bbt)
  BY Zenon, <1>4, SameBad DEF Return, TypeOK
<1>5. CASE WriteNoSpace \/ WriteFails \/ WriteTable
  BY Zenon, <1>4, <1>5 DEF WriteNoSpace, WriteFails, WriteTable, Working
<1>6. CASE \E ok \in BOOLEAN : MarkOob(ok)
  BY Zenon, <1>4, <1>6 DEF MarkOob, Working
<1>7. CASE \E b \in Blocks : MarkBegin(b)
  BY Zenon, <1>7 DEF MarkBegin, Working, BadIn, Bad, TypeOK, Codes
<1>8. CASE WriteErase \/ (\E b \in Blocks : EraseBlock(b) \/ Decay(b)) \/ UNCHANGED vars
  BY Zenon, <1>8 DEF WriteErase, EraseBlock, Decay, vars, Working
<1>9. ~(Scan \/ CheckUnreadable \/ Cut \/ Reset)
  BY Zenon DEF Scan, CheckUnreadable, Cut, Reset, Restart, Working
<1> QED
  BY Zenon, <1>2, <1>3, <1>5, <1>6, <1>7, <1>8, <1>9 DEF Next, Program

(* The block being marked is bad in memory.                                *)
LEMMA VictimBad ==
  ASSUME TypeOK, AskedInv, victim # None
  PROVE  victim \in BadIn(bbt) /\ victim \in Blocks
  BY Zenon DEF TypeOK, AskedInv, BadIn, Bad

(* After a write, every readable table of the kind written is the one just *)
(* written: there is no other place for it.                                *)
LEMMA OnlyWritten ==
  ASSUME TypeOK, AskedInv, RegionInv, MarkedInv, HomeInv, NoIo, [Next]_vars, WriteTable,
         NEW b \in Blocks, Readable(b)', tab'[b].kind = Current
  PROVE  b = Target(Current) /\ tab'[b] = Written(Current) /\ BadIn(tab'[b].codes) = BadIn(bbt)
<1>1. Writing /\ useFlash /\ Target(Current) # None
  BY Zenon DEF WriteTable, Writing, AskedInv, HomeInv
<1>2. Home(Current, Target(Current)) /\ Current \in Kinds /\ Target(Current) \in Blocks
  BY Zenon, <1>1, TargetHome, WriteFacts
<1>3. Readable(b) /\ tab'[b] = tab[b] => b = Target(Current)
  BY <1>1, <1>2, HomeUnique DEF HomeInv, Readable
<1>4. b = Target(Current)
  BY Zenon, <1>3, ReadableStep
<1>5. tab'[b] = Written(Current)
  BY Zenon, <1>2, <1>4 DEF WriteTable, Written, TypeOK
<1> QED
  BY <1>4, <1>5, SameBad DEF Written, TypeOK

(* Every step of the driver keeps an acknowledged mark in the marker, in   *)
(* memory and in every readable table.                                     *)
LEMMA MarkedNext ==
  ASSUME TypeOK, AskedInv, RegionInv, HomeInv, MarkedInv, TypeOK', AskedInv', [Next]_vars
  PROVE  MarkedInv'
<1>0. SUFFICES ASSUME NoIo', NoIo PROVE MarkedInv'
  BY Zenon, FaultStep DEF MarkedInv
<1>a. acked \subseteq mark /\ (Working => acked \subseteq BadIn(bbt))
      /\ \A b \in Blocks : Readable(b) => acked \subseteq BadIn(tab[b].codes)
  BY Zenon, <1>0 DEF MarkedInv
<1>1. acked' \subseteq mark'
  <2>1. CASE acked' = acked
    BY Zenon, <1>a, <2>1, MarkStep DEF BadIn
  <2>2. CASE WriteTable /\ victim # None /\ ~err /\ acked' = acked \cup {victim}
    BY Zenon, <1>0, <1>a, <2>2 DEF WriteTable, Writing, MarkedInv
  <2>3. CASE MarkOob(TRUE) /\ acked' = acked \cup {victim}
    BY Zenon, <1>a, <2>3 DEF MarkOob
  <2> QED
    BY Zenon, <2>1, <2>2, <2>3, AckStep
<1>2. ASSUME Working' PROVE acked' \subseteq BadIn(bbt')
  <2>1. acked \subseteq BadIn(bbt')
    BY Zenon, <1>0, <1>2, <1>a, BbtStep
  <2>2. CASE victim # None /\ acked' = acked \cup {victim} /\ (WriteTable \/ MarkOob(TRUE))
    <3>1. bbt' = bbt \/ \E ret : Return(ret)
      BY Zenon, <2>2 DEF WriteTable, MarkOob
    <3>2. BadIn(bbt') = BadIn(bbt)
      BY Zenon, <3>1, SameBad DEF Return, TypeOK
    <3> QED
      BY Zenon, <2>1, <2>2, <3>2, VictimBad
  <2> QED
    BY Zenon, <2>1, <2>2, AckStep
<1>3. ASSUME NEW b \in Blocks, Readable(b)' PROVE acked' \subseteq BadIn(tab'[b].codes)
  <2>1. CASE acked' = acked
    <3>1. tab'[b] = Written(Current) /\ Writing => BadIn(tab'[b].codes) = BadIn(bbt) /\ Working
      BY SameBad DEF Written, TypeOK, Writing, Working
    <3> QED
      BY Zenon, <1>3, <1>a, <2>1, <3>1, ReadableStep
  <2>2. CASE WriteTable /\ todo = {Current} /\ victim # None /\ acked' = acked \cup {victim}
    <3>1. Working /\ Writing
      BY Zenon, <2>2 DEF WriteTable, Working, Writing
    <3>2. CASE tab'[b].kind = Current
      BY Zenon, <1>0, <1>3, <1>a, <2>2, <3>1, <3>2, OnlyWritten, VictimBad
    <3>3. CASE tab'[b].kind # Current
      <4>1. tab'[b] = tab[b] /\ Readable(b)
        BY SMTT(60), <1>3, <3>3, ReadableStep DEF Written
      <4>2. tab[b].kind \in Kinds /\ ~Pending(tab[b].kind)
        BY Zenon, <2>2, <3>3, <4>1 DEF Pending, Readable, IsTable, TypeOK, Tables, Kinds
      <4>3. victim \in BadIn(tab[b].codes)
        BY Zenon, <1>0, <2>2, <3>1, <4>1, <4>2 DEF MarkedInv
      <4> QED
        BY Zenon, <1>a, <2>2, <4>1, <4>3
    <3> QED
      BY Zenon, <3>2, <3>3
  <2>3. CASE MarkOob(TRUE) /\ ~useFlash
    <3>1. tab' = tab /\ ~IsTable(b)
      BY Zenon, <2>3 DEF MarkOob, HomeInv
    <3> QED
      BY Zenon, <1>3, <3>1 DEF Readable, IsTable
  <2> QED
    BY Zenon, <2>1, <2>2, <2>3, AckStep
<1>4. ASSUME Writing', victim' # None
      PROVE  /\ victim' \in mark' \/ err'
             /\ \A k \in Kinds : ~Pending(k)' => \A b \in Blocks :
                  Readable(b)' /\ tab'[b].kind = k => victim' \in BadIn(tab'[b].codes)
  <2>1. ASSUME NEW ok \in BOOLEAN, MarkOob(ok) PROVE todo' = Kinds /\ victim' = victim /\ (ok => victim \in mark') /\ err' = ~ok
    BY Zenon, <1>4, <2>1 DEF MarkOob, Return, Writing
  <2>2. CASE \E ok \in BOOLEAN : MarkOob(ok)
    BY ZenonT(60), <1>4, <2>1, <2>2 DEF Pending
  <2>3. CASE WriteErase \/ UNCHANGED vars
    <3>1. Writing /\ victim' = victim /\ todo' = todo /\ err' = err
      BY Zenon, <1>4, <2>3 DEF WriteErase, Writing, vars, history
    <3>2. victim \in mark => victim \in mark'
      BY Zenon, <1>4, <2>3, <3>1, VictimBad DEF WriteErase, vars, IsBad, BadIn
    <3>3. \A b \in Blocks : Readable(b)' => tab'[b] = tab[b] /\ Readable(b)
      BY Zenon, <2>3, ReadableStep DEF WriteErase, WriteTable, vars, Readable, IsTable
    <3>4. \A k : Pending(k)' <=> Pending(k)
      BY Zenon, <1>4, <3>1 DEF Pending
    <3> QED
      BY Zenon, <1>0, <1>4, <3>1, <3>2, <3>3, <3>4 DEF MarkedInv
  <2>4. CASE WriteTable
    <3>1. Writing /\ todo' = todo \ {Current} /\ UNCHANGED <<bbt, victim, err, mark>>
      BY Zenon, <1>4, <2>4 DEF WriteTable, Return, Writing
    <3>2. ASSUME NEW k \in Kinds, ~Pending(k)', NEW b \in Blocks, Readable(b)', tab'[b].kind = k
          PROVE  victim \in BadIn(tab'[b].codes)
      <4>1. CASE k = Current
        BY Zenon, <1>0, <1>4, <2>4, <3>1, <3>2, <4>1, OnlyWritten, VictimBad
      <4>2. CASE k # Current
        <5>1. tab'[b] = tab[b] /\ Readable(b)
          BY <3>2, <4>2, ReadableStep DEF Written
        <5>2. ~Pending(k)
          BY Zenon, <1>4, <3>1, <3>2, <4>2 DEF Pending
        <5> QED
          BY Zenon, <1>0, <1>4, <3>1, <3>2, <5>1, <5>2 DEF MarkedInv
      <4> QED
        BY Zenon, <4>1, <4>2
    <3> QED
      BY Zenon, <1>0, <1>4, <3>1, <3>2 DEF MarkedInv
  <2>5. ~(CheckCreate \/ \E how : CheckRead(how))
    BY Zenon, <1>4 DEF CheckCreate, CheckRead, AskedInv, Writing
  <2>6. ~(Scan \/ ScanMemory \/ CheckUnreadable \/ WriteNoSpace \/ WriteFails \/ Cut \/ Reset)
    BY Zenon, <1>4 DEF Scan, ScanMemory, CheckUnreadable, WriteNoSpace, WriteFails, Return, Cut,
       Reset, Restart,
       Writing
  <2>7. \A b \in Blocks : ~(MarkBegin(b) \/ EraseBlock(b) \/ Decay(b))
    BY Zenon, <1>4 DEF MarkBegin, EraseBlock, Decay, Writing
  <2> QED
    BY Zenon, <2>2, <2>3, <2>4, <2>5, <2>6, <2>7 DEF Next, Program
<1> QED
  BY Zenon, <1>1, <1>2, <1>3, <1>4 DEF MarkedInv

-----------------------------------------------------------------------------
(* The main copy is current                                                *)

(* Reserving the region and storing the table undo each other.             *)
LEMMA StoredReserved ==
  ASSUME NEW c \in Codes, \A b \in Region : c[b] \in {0, 3}
  PROVE  Stored(Reserved(c)) = Stored(c) /\ (Clean(c) => Stored(c) = c)
<1>1. \A b \in Blocks : Stored(Reserved(c))[b] = Stored(c)[b]
  BY Zenon DEF Stored, Reserved, Or2, Bad
<1>2. Stored(Reserved(c)) = [b \in Blocks |-> Stored(Reserved(c))[b]] /\ Stored(c) = [b \in Blocks |-> Stored(c)[b]]
  BY Zenon DEF Stored
<1>3. Stored(Reserved(c)) = Stored(c)
  BY Zenon, <1>1, <1>2
<1>4. ASSUME Clean(c) PROVE Stored(c) = c
  <2>1. \A b \in Blocks : Stored(c)[b] = c[b]
    BY Zenon, <1>4 DEF Stored, Clean
  <2>2. c = [b \in Blocks |-> c[b]]
    BY Zenon DEF Codes
  <2> QED
    BY Zenon, <1>2, <2>1, <2>2
<1> QED
  BY Zenon, <1>3, <1>4

(* The two tables never share a block, while one of them is written.       *)
LEMMA OtherPlace ==
  ASSUME TypeOK, AskedInv, RegionInv, MarkedInv, HomeInv, useFlash, NoIo, Writing,
         NEW k \in Kinds, k # Current, d[k].block # None
  PROVE  d[k].block # Target(Current) /\ d[k].block \in Blocks
<1>1. Home(k, d[k].block) /\ (Target(Current) # None => Home(Current, Target(Current))) /\ Current \in Kinds
  BY ZenonT(60), TargetHome, WriteFacts DEF HomeInv
<1> QED
  BY SMTT(60), <1>1, HomeUnique

(* A block of the region is not erased by anyone else.                     *)
LEMMA RegionHeld ==
  ASSUME RegionInv, useFlash, pc = "idle", NEW b \in Blocks, ~IsBad(b, FALSE)
  PROVE  b \notin Region
  BY Zenon DEF RegionInv, InUseNow, IsBad, Bad

(* The table that is being read.                                           *)
LEMMA ReadChoice ==
  ASSUME TypeOK, AskedInv, RegionInv, HomeInv, NoIo, NEW how, CheckRead(how), how # "io"
  PROVE  LET c == tab[d[Choice.rd].block].codes
         IN /\ c \in Codes /\ Clean(c) /\ (\A b \in Region : c[b] \in {0, 3})
            /\ Stored(c) = c /\ Stored(Reserved(c)) = c
            /\ useFlash /\ Choice.rd \in Kinds /\ tab[d[Choice.rd].block].kind = Choice.rd
            /\ d[Choice.rd].block # None /\ d[Choice.rd].block \in Blocks /\ tab[d[Choice.rd].block].ok
            /\ \A k \in Kinds : d[k].block # None => tab[d[k].block].kind = k /\ d[k].block \in Blocks
<1> DEFINE c == tab[d[Choice.rd].block].codes
<1>1. pc = "check" /\ Choice.rd \in Kinds /\ d[Choice.rd].block \in Blocks /\ tab[d[Choice.rd].block].ok
  BY Zenon, ChoiceTyped DEF CheckRead
<1>2. useFlash /\ \A k \in Kinds : d[k].block # None => tab[d[k].block].kind = k /\ d[k].block \in Blocks
  BY Zenon, <1>1 DEF HomeInv, TypeOK, Descr
<1>3. c \in Codes /\ Clean(c)
  BY Zenon, <1>1, <1>2 DEF TypeOK, Tables, RegionInv
<1>4. d[Choice.rd].block # None
  BY Zenon, <1>1, Constants
<1> HIDE DEF c
<1>5. \A b \in Region : c[b] \in {0, 3}
  <2>1. \A b \in Blocks : c[b] \in 0..3
    BY Zenon, <1>3 DEF Codes
  <2> QED
    BY <1>3, <2>1, Constants DEF Clean
<1>6. Stored(c) = c /\ Stored(Reserved(c)) = c
  BY Zenon, <1>3, <1>5, StoredReserved
<1> QED
  BY ZenonT(60), <1>1, <1>2, <1>3, <1>4, <1>5, <1>6 DEF c

(* check_create: what it reads is in the main copy, or the main copy is to *)
(* be written.                                                             *)
LEMMA ReadCurrent ==
  ASSUME TypeOK, AskedInv, RegionInv, HomeInv, NoIo, NEW how, CheckRead(how), how # "io"
  PROVE  CurrentInv'
<1> DEFINE c == tab[d[Choice.rd].block].codes
           w == IF how = "flip" THEN Kinds ELSE Choice.write
           v == Max({d["td"].version, d["md"].version})
<1>1. /\ Stored(c) = c /\ Stored(Reserved(c)) = c /\ tab[d[Choice.rd].block].ok
      /\ d[Choice.rd].block # None
      /\ \A k \in Kinds : d[k].block # None => tab[d[k].block].kind = k
  BY ZenonT(60), ReadChoice
<1>2. Go(c, w, v) /\ tab' = tab
  <2>1. Go(IF how = "io" THEN bbt ELSE c, w, v) /\ UNCHANGED flash
    BY Zenon DEF CheckRead
  <2> QED
    BY Zenon, <2>1 DEF flash
<1>3. \A k \in Kinds : d'[k].block = d[k].block
  BY Zenon, <1>2 DEF Go, TypeOK, Descr
<1>4. \A k \in Kinds : k \notin Choice.write => d[k].block # None
  <2>1. d["td"].block = None => Choice.write = {"td"} /\ d["md"].block # None
    BY Zenon DEF CheckRead, Choice
  <2>2. d["td"].block # None /\ d["md"].block = None => Choice.write = {"md"}
    BY Zenon DEF Choice
  <2> QED
    BY SMTT(60), <2>1, <2>2 DEF Kinds
<1>5. /\ Choice.write = {} => Choice.rd = "td"
      /\ Choice.write # {} => \A k \in Kinds : k \notin Choice.write => k = Choice.rd
  BY Zenon DEF Choice, Kinds
<1>6. CASE w = {}
  <2>1. Choice.write = {}
    BY Zenon, <1>6 DEF Kinds
  <2>2. pc' = "idle" /\ bbt' = Reserved(c)
    BY Zenon, <1>2, <1>6 DEF Go
  <2>3. Choice.rd = "td" /\ \A k \in Kinds : d[k].block # None /\ tab[d[k].block].kind = k
    BY Zenon, <1>1, <1>4, <1>5, <2>1
  <2>4. ~Writing' /\ d'["td"].block = d["td"].block
    BY Zenon, <1>3, <2>2 DEF Writing, Kinds
  <2>5. Stored(bbt') = c
    BY Zenon, <1>1, <2>2
  <2> QED
    BY ZenonT(60), <1>1, <1>2, <1>3, <2>3, <2>4, <2>5 DEF CurrentInv
<1>7. CASE w # {}
  <2>1. Writing' /\ todo' = w /\ bbt' = c /\ pc' = "erase"
    BY Zenon, <1>2, <1>7 DEF Go, Writing
  <2>2. ASSUME NEW k \in Kinds, ~Pending(k)'
        PROVE  /\ d'[k].block # None /\ tab'[d'[k].block].kind = k
               /\ tab'[d'[k].block].ok /\ tab'[d'[k].block].codes = Stored(bbt')
    <3>1. k \notin Choice.write /\ Choice.write # {}
      BY Zenon, <1>7, <2>1, <2>2 DEF Pending
    <3>2. d[k].block # None /\ tab[d[k].block].kind = k /\ k = Choice.rd
      BY Zenon, <1>1, <1>4, <1>5, <3>1
    <3> QED
      BY ZenonT(60), <1>1, <1>2, <1>3, <2>1, <2>2, <3>2
  <2> QED
    BY Zenon, <2>1, <2>2 DEF CurrentInv
<1> QED
  BY Zenon, <1>6, <1>7

(* A table that need not be written any more is not disturbed.             *)
LEMMA WriteCurrent ==
  ASSUME TypeOK, AskedInv, RegionInv, HomeInv, MarkedInv, CurrentInv, useFlash, NoFail, 
         WriteTable, [Next]_vars
  PROVE  CurrentInv'
<1>1. Writing /\ Target(Current) # None /\ NoIo
  BY Zenon DEF WriteTable, Writing, AskedInv, NoFail
<1>2. Current \in Kinds /\ Current \in todo /\ Target(Current) \in Blocks
  BY Zenon, <1>1, WriteFacts
<1>3. tab'[Target(Current)] = Written(Current)
  BY Zenon, <1>2 DEF WriteTable, TypeOK, Written
<1>4. d'[Current].block = Target(Current) /\ \A k \in Kinds : k # Current => d'[k] = d[k]
  BY Zenon, <1>2 DEF WriteTable, TypeOK, Descr
<1>5. ASSUME NEW k \in Kinds, k = Current \/ k \notin todo
      PROVE  /\ d'[k].block # None /\ tab'[d'[k].block].kind = k
             /\ tab'[d'[k].block].ok /\ tab'[d'[k].block].codes = Stored(bbt)
  <2>1. CASE k = Current
    BY SMTT(60), <1>1, <1>3, <1>4, <2>1 DEF Written
  <2>2. CASE k # Current
    <3>1. /\ d[k].block # None /\ tab[d[k].block].kind = k
          /\ tab[d[k].block].ok /\ tab[d[k].block].codes = Stored(bbt)
      BY Zenon, <1>1, <1>5, <2>2 DEF CurrentInv, Pending
    <3>2. d[k].block # Target(Current) /\ d[k].block \in Blocks
      BY Zenon, <1>1, <2>2, <3>1, OtherPlace
    <3>3. tab'[d[k].block] = tab[d[k].block]
      BY Zenon, <3>2 DEF WriteTable, TypeOK
    <3> QED
      BY Zenon, <1>4, <2>2, <3>1, <3>3
  <2> QED
    BY Zenon, <2>1, <2>2
<1>6. CASE todo = {Current}
  <2>1. \A k \in Kinds : d'[k].block # None /\ tab'[d'[k].block].kind = k
    BY Zenon, <1>5, <1>6
  <2>2. tab'[d'["td"].block].ok /\ tab'[d'["td"].block].codes = Stored(bbt)
    BY Zenon, <1>5, <1>6 DEF Kinds
  <2>3. Return(TRUE) /\ pc' = "idle"
    BY Zenon, <1>6 DEF WriteTable, Return
  <2>4. Stored(bbt') = Stored(bbt)
    <3>1. victim = None => \A b \in Region : bbt[b] \in {0, 3}
      BY Zenon, <1>1 DEF RegionInv, InUseNow, Writing
    <3>2. bbt \in Codes
      BY Zenon DEF TypeOK
    <3> QED
      BY Zenon, <2>3, <3>1, <3>2, StoredReserved DEF Return
  <2> QED
    BY Zenon, <2>1, <2>2, <2>3, <2>4 DEF CurrentInv, Writing
<1>7. CASE todo # {Current}
  <2>1. Writing' /\ pc' = "erase" /\ todo' = todo \ {Current} /\ UNCHANGED bbt
    BY Zenon, <1>7 DEF WriteTable, Writing
  <2>2. \A k \in Kinds : ~Pending(k)' => k = Current \/ k \notin todo
    BY Zenon, <2>1 DEF Pending
  <2> QED
    BY Zenon, <1>5, <2>1, <2>2 DEF CurrentInv
<1> QED
  BY Zenon, <1>6, <1>7

(* Every step of the driver keeps the tables that are not pending equal to *)
(* the table in memory.                                                    *)
LEMMA CurrentNext ==
  ASSUME TypeOK, AskedInv, RegionInv, HomeInv, MarkedInv, CurrentInv, TypeOK', AskedInv', [Next]_vars
  PROVE  CurrentInv'
<1>0. SUFFICES ASSUME useFlash, NoFail, NoFail', NoIo', NoIo PROVE CurrentInv'
  BY Zenon, FaultStep, RegionKept DEF CurrentInv, NoFail
<1>1. \A b : IsNext(b)' = IsNext(b)
  BY Zenon, <1>0, RegionKept, HomeStable
<1>2. ASSUME NEW how, CheckRead(how) PROVE CurrentInv'
  BY Zenon, <1>0, <1>2, FaultStep, ReadCurrent
<1>3. CASE CheckCreate
  <2>1. todo' = Kinds /\ pc' = "erase"
    BY Zenon, <1>3 DEF CheckCreate, Go, Kinds
  <2> QED
    BY Zenon, <2>1 DEF CurrentInv, Pending, Writing
<1>4. CASE MarkOob(TRUE)
  BY Zenon, <1>0, <1>4 DEF MarkOob, CurrentInv, Pending, Writing
<1>5. CASE WriteErase
  <2>1. Writing /\ Target(Current) # None /\ Target(Current) \in Blocks /\ Current \in Kinds /\ Current \in todo
    BY Zenon, <1>5, WriteFacts DEF WriteErase, Writing
  <2>2. Writing' /\ UNCHANGED <<d, todo, bbt>> /\ pc' = "write"
    BY Zenon, <1>5 DEF WriteErase, Writing
  <2>3. ASSUME NEW k \in Kinds, ~Pending(k)'
        PROVE  /\ d'[k].block # None /\ tab'[d'[k].block].kind = k
               /\ tab'[d'[k].block].ok /\ tab'[d'[k].block].codes = Stored(bbt')
    <3>1. k # Current /\ ~Pending(k)
      BY Zenon, <2>1, <2>2, <2>3 DEF Pending
    <3>2. /\ d[k].block # None /\ tab[d[k].block].kind = k
          /\ tab[d[k].block].ok /\ tab[d[k].block].codes = Stored(bbt)
      BY Zenon, <1>0, <2>1, <3>1 DEF CurrentInv
    <3>3. d[k].block # Target(Current) /\ d[k].block \in Blocks
      BY Zenon, <1>0, <2>1, <3>1, <3>2, OtherPlace
    <3>4. tab'[d[k].block] = tab[d[k].block]
      BY Zenon, <1>5, <3>3 DEF WriteErase, TypeOK
    <3> QED
      BY Zenon, <2>2, <3>2, <3>4
  <2> QED
    BY ZenonT(60), <2>2, <2>3 DEF CurrentInv
<1>6. CASE WriteNoSpace
  <2>1. Writing /\ (Target(Current) # None => IsBad(Target(Current), TRUE)) /\ pc' = "idle"
    BY Zenon, <1>6 DEF WriteNoSpace, Writing, Return
  <2>2. Current \in Kinds /\ \A b : ~Home(Current, b)
    BY Zenon, <1>0, <2>1, TargetHome, WriteFacts
  <2>3. \A b : ~IsNext(b)
    BY Zenon, <2>2 DEF Home, IsNext, Kinds
  <2> QED
    BY Zenon, <1>1, <2>1, <2>3 DEF CurrentInv, Writing
<1>7. CASE WriteTable
  BY Zenon, <1>0, <1>7, WriteCurrent
<1>8. ASSUME NEW b \in Blocks, MarkBegin(b) \/ EraseBlock(b) PROVE CurrentInv'
  <2>1. pc = "idle" /\ b \notin Region /\ tab' = [tab EXCEPT ![b] = NoTable] /\ UNCHANGED d
        /\ (pc' = "oob" \/ (pc' = "idle" /\ UNCHANGED bbt))
    BY ZenonT(60), <1>0, <1>8, RegionHeld DEF MarkBegin, EraseBlock
  <2>2. \A k \in Kinds : d[k].block # None => d[k].block \in Blocks /\ d[k].block \in Region
    BY Zenon, <1>0, HomeUnique DEF HomeInv, Good
  <2>3. \A k \in Kinds : d[k].block # None => tab'[d[k].block] = tab[d[k].block]
    BY Zenon, <2>1, <2>2 DEF TypeOK
  <2>4. "td" \in Kinds /\ ~Writing'
    BY Zenon, <2>1 DEF Kinds, Writing
  <2> QED
    BY SMTT(60), <1>0, <1>1, <2>1, <2>3, <2>4 DEF CurrentInv
<1>9. CASE Scan \/ ScanMemory \/ CheckUnreadable \/ Cut \/ Reset \/ \E b \in Blocks : Decay(b)
  BY Zenon, <1>0, <1>9 DEF Scan, ScanMemory, CheckUnreadable, Cut, Reset, Restart, Decay,
     CurrentInv, Writing
<1>10. CASE UNCHANGED vars
  BY Zenon, <1>0, <1>1, <1>10 DEF vars, CurrentInv, Pending, Writing
<1>11. ~WriteFails /\ ~MarkOob(FALSE)
  BY Zenon, <1>0, FaultStep
<1> QED
  BY Zenon, <1>2, <1>3, <1>4, <1>5, <1>6, <1>7, <1>8, <1>9, <1>10, <1>11 DEF Next, Program

-----------------------------------------------------------------------------
(* One power failure costs nothing that was written                        *)

(* Steps that leave the tables in flash alone.                             *)
Quiet == /\ \A b \in Blocks : IsTable(b) \/ IsTable(b)' => tab'[b] = tab[b]
         /\ wrote' = wrote

(* No step other than a write, a cut in the middle of one or decay changes *)
(* a table.                                                                *)
LEMMA QuietStep ==
  ASSUME TypeOK, AskedInv, RegionInv, HomeInv, NoIo, [Next]_vars
  PROVE  Quiet \/ WriteErase \/ WriteFails \/ WriteTable \/ (Cut /\ Writing) \/ \E b \in Blocks : Decay(b)
<1>1. CASE UNCHANGED <<tab, wrote>>
  BY Zenon, <1>1 DEF Quiet
<1>2. ASSUME NEW b \in Blocks, MarkBegin(b) \/ EraseBlock(b) PROVE Quiet
  <2>1. pc = "idle" /\ ~IsBad(b, FALSE) /\ tab' = [tab EXCEPT ![b] = NoTable] /\ wrote' = wrote
    BY Zenon, <1>2 DEF MarkBegin, EraseBlock, history
  <2>2. ~IsTable(b)
    <3>1. CASE ~useFlash
      BY Zenon, <3>1 DEF HomeInv
    <3>2. CASE useFlash
      <4>1. b \notin Region
        BY ZenonT(60), <2>1, <3>2, RegionHeld
      <4>2. IsTable(b) => tab[b].kind \in Kinds /\ Home(tab[b].kind, b)
        BY Zenon, <3>2 DEF HomeInv, IsTable, TypeOK, Tables, Kinds
      <4> QED
        BY Zenon, <4>1, <4>2, HomeUnique DEF Good
    <3> QED
      BY Zenon, <3>1, <3>2
  <2>3. \A c \in Blocks : tab'[c] = IF c = b THEN NoTable ELSE tab[c]
    BY Zenon, <2>1 DEF TypeOK
  <2> QED
    BY SMTT(60), <2>1, <2>2, <2>3 DEF Quiet, IsTable, NoTable
<1>3. CASE Cut /\ ~Writing
  BY Zenon, <1>1, <1>3 DEF Cut, Writing
<1> QED
  BY ZenonT(60), <1>1, <1>2, <1>3 DEF Next, Program, Scan, ScanMemory, CheckCreate,
     CheckUnreadable, CheckRead, MarkOob,
     WriteNoSpace, Reset, flash, history, vars

(* A quiet step leaves the tables, and what they hold of the blocks        *)
(* written, as they were.                                                  *)
LEMMA QuietTables ==
  ASSUME Quiet
  PROVE  /\ \A b \in Blocks : /\ IsTable(b)' <=> IsTable(b)
                              /\ Readable(b)' <=> Readable(b)
                              /\ IsTable(b) => tab'[b] = tab[b]
                              /\ IsTable(b) => (Safe(b)' <=> Safe(b)) /\ (Stale(b)' <=> Stale(b))
<1>1. \A b \in Blocks : /\ IsTable(b)' <=> IsTable(b)
                        /\ IsTable(b) => tab'[b] = tab[b]
  BY Zenon DEF Quiet, IsTable
<1>2. \A b \in Blocks : Readable(b)' <=> Readable(b)
  BY Zenon, <1>1 DEF Readable
<1>3. \A b \in Blocks : IsTable(b) => (Safe(b)' <=> Safe(b))
  BY Zenon, <1>1 DEF Safe, Quiet
<1>4. ASSUME NEW b \in Blocks, IsTable(b) PROVE Stale(b)' <=> Stale(b)
  <2>1. \A t \in Blocks : Readable(t) => IsTable(t)
    BY Zenon DEF Readable
  <2> QED
    BY Zenon, <1>1, <1>2, <1>3, <1>4, <2>1 DEF Stale
<1> QED
  BY ZenonT(60), <1>1, <1>2, <1>3, <1>4

(* The two copies carry the same version, whenever they are in use.        *)
LEMMA SameVersion ==
  ASSUME TypeOK, AskedInv, VersionInv, [Next]_vars, Working', useFlash', useFlash
  PROVE  d'["td"].version = d'["md"].version
<1>1. ASSUME NEW c, NEW w, NEW v, Go(c, w, v) PROVE d'["td"].version = d'["md"].version
  BY Zenon, <1>1 DEF Go, TypeOK, Descr, Kinds
<1>2. CASE CheckCreate \/ \E how : CheckRead(how)
  BY Zenon, <1>1, <1>2 DEF CheckCreate, CheckRead
<1>3. CASE Working
  <2>1. d["td"].version = d["md"].version
    BY Zenon, <1>3 DEF VersionInv
  <2>2. ASSUME NEW ok \in BOOLEAN, MarkOob(ok) PROVE d'["td"].version = d'["md"].version
    BY <2>1, <2>2 DEF MarkOob, TypeOK, Descr, Kinds
  <2>3. CASE WriteTable
    BY Zenon, <2>1, <2>3 DEF WriteTable, TypeOK, Descr, Kinds
  <2>4. d' = d \/ WriteTable \/ MarkOob(TRUE) \/ MarkOob(FALSE)
    BY ZenonT(60), <1>3 DEF Working, Next, Program, Scan, ScanMemory, CheckCreate,
       CheckUnreadable, CheckRead,
       WriteErase, WriteNoSpace, WriteFails, MarkBegin, EraseBlock, Cut, Reset, Restart, Decay,
       vars
  <2> QED
    BY ZenonT(60), <2>1, <2>2, <2>3, <2>4
<1>4. CASE ~Working
  BY Zenon, <1>2, <1>4 DEF Working, Next, Program, Scan, ScanMemory, CheckCreate,
     CheckUnreadable, CheckRead, MarkOob,
     WriteErase, WriteNoSpace, WriteFails, WriteTable, MarkBegin, EraseBlock, Cut, Reset,
     Restart, Decay, vars
<1> QED
  BY Zenon, <1>3, <1>4

(* The comparison of versions, across the wrap.                            *)
LEMMA NewerNext ==
  ASSUME NEW v \in 0..(VersionMod - 1)
  PROVE  NextVersion(v) # v /\ Newer(NextVersion(v), v)
<1>1. CASE v = VersionMod - 1
  <2>1. NextVersion(v) = 0
    BY <1>1, Constants DEF NextVersion
  <2>2. (0 - v + VersionMod) % VersionMod = 1
    BY <1>1, Constants
  <2>3. 1 \in 1..((VersionMod - 1) \div 2)
    BY Constants
  <2> QED
    BY <1>1, <2>1, <2>2, <2>3, Constants DEF Newer
<1>2. CASE v # VersionMod - 1
  <2>1. NextVersion(v) = v + 1
    BY <1>2, Constants DEF NextVersion
  <2>2. ((v + 1) - v + VersionMod) % VersionMod = 1
    <3>1. (v + 1) - v + VersionMod = 1 + VersionMod
      BY Constants
    <3>2. (1 + VersionMod) % VersionMod = 1
      BY Constants
    <3> QED
      BY Zenon, <3>1, <3>2
  <2>3. 1 \in 1..((VersionMod - 1) \div 2)
    BY Constants
  <2> QED
    BY <2>1, <2>2, <2>3, Constants DEF Newer
<1> QED
  BY Zenon, <1>1, <1>2
=============================================================================
