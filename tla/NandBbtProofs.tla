---------------------------- MODULE NandBbtProofs ---------------------------
(***************************************************************************)
(* Proofs about NandBbt: blocks marked bad stay bad, one power failure     *)
(* costs nothing that was written, and the main copy of the table is       *)
(* current; for any chip, any number of faults and any version range.      *)
(***************************************************************************)
EXTENDS NandBbtHomes

(* check_create reads a copy with everything that was written.             *)
LEMMA ReadSafe ==
  ASSUME TypeOK, AskedInv, RegionInv, HomeInv, WrittenInv, OnlyCuts, faults["cut"] < 2,
         NEW how, CheckRead(how), how # "io"
  PROVE  Safe(d[Choice.rd].block)
<1> DEFINE b == d[Choice.rd].block
<1>1. NoIo /\ pc = "check" /\ ~Writing
  BY Zenon DEF OnlyCuts, NoFail, CheckRead, Writing
<1>2. useFlash /\ Choice.rd \in Kinds /\ tab[b].kind = Choice.rd /\ b \in Blocks /\ b # None /\ tab[b].ok
  BY Zenon, <1>1, ReadChoice
<1>3. Readable(b)
  BY Zenon, <1>2 DEF Readable, IsTable, Kinds
<1>4. tab[b].kind = "td" => Safe(b)
  BY Zenon, <1>2, <1>3 DEF WrittenInv
<1>5. CASE Choice.rd = "md" /\ Stale(b)
  <2>1. PICK t \in Blocks : Readable(t) /\ tab[t].kind = "td" /\ tab[t].version = NextVersion(tab[b].version)
    BY Zenon, <1>5 DEF Stale
  <2>2. d["td"].block = t /\ d["td"].block # None /\ d["md"].block = b /\ d["md"].block # None
    BY SMTT(60), <1>1, <1>2, <1>5, <2>1, Constants DEF HomeInv
  <2>3. d["td"].version = tab[t].version /\ d["md"].version = tab[b].version
    BY Zenon, <1>1, <1>2, <2>2 DEF HomeInv, Kinds
  <2>4. tab[b].version \in 0..(VersionMod - 1)
    BY Zenon, <1>2 DEF TypeOK, Tables
  <2>5. d["td"].version # d["md"].version /\ Newer(d["td"].version, d["md"].version)
    BY Zenon, <2>1, <2>3, <2>4, NewerNext
  <2>6. Choice.rd = "td"
    BY Zenon, <2>2, <2>5 DEF Choice
  <2> QED
    BY Zenon, <1>5, <2>6
<1>6. Safe(b) \/ Stale(b)
  BY Zenon, <1>1, <1>2, <1>3 DEF WrittenInv
<1> QED
  BY Zenon, <1>2, <1>4, <1>5, <1>6 DEF Kinds

Faultfree == Faultless /\ OnlyCuts /\ NoFail /\ NoIo /\ faults["cut"] < 2

(* A chip without faults is in particular one without a second power       *)
(* failure.                                                                *)
LEMMA Faultfrees ==
  ASSUME TypeOK
  PROVE  Faultless => Faultfree
<1>1. faults["cut"] \in Nat
  BY Zenon DEF TypeOK, FaultKinds
<1> QED
  BY <1>1 DEF Faultless, Faultfree, OnlyCuts, NoFail

(* Without a fault, the scan finds both copies or no mirror.               *)
LEMMA ReadVersion ==
  ASSUME TypeOK, AskedInv, RegionInv, HomeInv, VersionInv, Faultfree, CheckRead("ok")
  PROVE  /\ \A m \in Blocks : tab[m].kind = "md" =>
              /\ todo' = {} /\ pc' = "idle" /\ d'["td"].version = tab[m].version
         /\ Writing' /\ ~Pending("td")' =>
              tab[d["td"].block].version = d'["td"].version /\ d'["td"].block = d["td"].block
<1> DEFINE v == Max({d["td"].version, d["md"].version})
           c == tab[d[Choice.rd].block].codes
<1>0. pc = "check" /\ ~Writing /\ useFlash /\ NoIo
      /\ \A k \in Kinds : d[k].block # None => tab[d[k].block].kind = k
  BY Zenon, ReadChoice DEF CheckRead, Writing, Faultfree
<1>1. Go(c, Choice.write, v)
  BY Zenon DEF CheckRead
<1>2. d'["td"].version = v /\ d'["td"].block = d["td"].block
  BY Zenon, <1>1 DEF Go, TypeOK, Descr, Kinds
<1>3. ASSUME NEW b \in Blocks, IsTable(b) PROVE
        tab[b].kind \in Kinds /\ d[tab[b].kind].block = b /\ b # None /\ d[tab[b].kind].version = tab[b].version
  <2>1. tab[b].kind \in Kinds /\ tab[b].ok /\ b # None
    BY Zenon, <1>3, Constants DEF IsTable, TypeOK, Tables, Kinds, VersionInv, Faultfree
  <2>2. d[tab[b].kind].block = b
    BY Zenon, <1>0, <1>3, <2>1 DEF HomeInv, Readable
  <2> QED
    BY <1>0, <2>1, <2>2 DEF HomeInv
<1>4. ASSUME NEW m \in Blocks, tab[m].kind = "md"
      PROVE  todo' = {} /\ pc' = "idle" /\ d'["td"].version = tab[m].version
  <2>1. PICK t \in Blocks : tab[t].kind = "td" /\ tab[t].version = tab[m].version
    BY Zenon, <1>0, <1>4 DEF VersionInv, Mirror, Faultfree
  <2>2. IsTable(t) /\ IsTable(m)
    BY Zenon, <1>4, <2>1 DEF IsTable
  <2>3. d["td"].block = t /\ d["td"].version = tab[m].version /\ d["td"].block # None
        /\ d["md"].block = m /\ d["md"].version = tab[m].version /\ d["md"].block # None
    BY <1>3, <1>4, <2>1, <2>2
  <2>4. Choice.write = {}
    BY Zenon, <2>3 DEF Choice
  <2>5. v = tab[m].version
    BY Zenon, <2>3, MaxVersion
  <2> QED
    BY Zenon, <1>1, <1>2, <2>4, <2>5 DEF Go
<1>5. ASSUME Writing', ~Pending("td")' PROVE tab[d["td"].block].version = v
  <2>1. Choice.write # {} /\ "td" \notin Choice.write
    BY Zenon, <1>1, <1>5 DEF Go, Writing, Pending
  <2>2. d["td"].block # None
    BY Zenon, <2>1 DEF Choice
  <2>3. d["td"].block \in Blocks /\ d["td"].version = tab[d["td"].block].version
    BY Zenon, <1>0, <2>2 DEF HomeInv, Kinds, TypeOK, Descr
  <2>4. \A m \in Blocks : tab[m].kind # "md"
    BY Zenon, <1>4, <1>5 DEF Writing
  <2>5. d["md"].block = None
    BY Zenon, <1>0, <2>4 DEF HomeInv, Kinds, TypeOK, Descr
  <2>6. d["md"].version = 0 /\ d["td"].version \in 0..(VersionMod - 1)
    BY Zenon, <1>0, <2>5 DEF HomeInv, Kinds, TypeOK, Descr
  <2>7. v = d["td"].version
    <3> DEFINE S == {d["td"].version, 0}
    <3>1. d["td"].version \in S /\ \A y \in S : d["td"].version >= y
      BY <2>6, Constants
    <3>2. \A x \in S : (\A y \in S : x >= y) => x = d["td"].version
      BY <2>6, Constants
    <3>3. Max(S) = d["td"].version
      BY Zenon, <3>1, <3>2 DEF Max
    <3> QED
      BY Zenon, <2>6, <3>3
  <2> QED
    BY Zenon, <2>3, <2>7
<1> QED
  BY Zenon, <1>2, <1>4, <1>5

(* The part of VersionInv that speaks of the flash.                        *)
Versions == /\ \A m \in Blocks : tab[m].kind = "md" => Mirror(m)
            /\ Writing /\ ~Pending("td") => tab[d["td"].block].version = d["td"].version

(* The steps that leave the tables alone.                                  *)
LEMMA QuietVersion ==
  ASSUME TypeOK, AskedInv, RegionInv, HomeInv, MarkedInv, CurrentInv, WrittenInv, VersionInv,
  Faultfree,
         Faultless', [Next]_vars, Quiet, useFlash, ~WriteErase, ~WriteTable
  PROVE  Versions'
<1>0. Versions /\ NoIo /\ OnlyCuts /\ faults["cut"] < 2
  BY Zenon DEF VersionInv, Versions, Faultfree
<1>1. \A b \in Blocks : tab'[b].kind = "md" => tab[b].kind = "md" /\ tab'[b] = tab[b] /\ IsTable(b)
  BY Zenon DEF Quiet, IsTable
<1>2. ASSUME NEW m \in Blocks, tab[m].kind = "md", ~Writing
      PROVE  /\ \E t \in Blocks : tab'[t].kind = "td" /\ tab'[t].version = tab[m].version
             /\ pc \in {"idle", "oob"} => tab[m].version = d["td"].version
  <2>1. Mirror(m)
    BY Zenon, <1>0, <1>2 DEF Versions
  <2>2. PICK t \in Blocks : tab[t].kind = "td" /\ tab[t].version = tab[m].version
    BY Zenon, <1>2, <2>1 DEF Mirror
  <2>3. tab'[t] = tab[t]
    BY Zenon, <2>2 DEF Quiet, IsTable
  <2> QED
    BY Zenon, <2>1, <2>2, <2>3 DEF Mirror
<1>3. CASE pc' \in {"off", "check"} /\ ~Writing
  <2>1. ~Writing' /\ ~Pending("td")' /\ pc' \notin {"idle", "oob"}
    BY Zenon, <1>3 DEF Writing, Pending
  <2> QED
    BY <1>1, <1>2, <1>3, <2>1 DEF Versions, Mirror
<1>4. CASE \E b \in Blocks : MarkBegin(b) \/ EraseBlock(b)
  <2>1. pc = "idle" /\ pc' \in {"idle", "oob"} /\ d' = d
    BY Zenon, <1>4 DEF MarkBegin, EraseBlock
  <2>2. ~Writing' /\ ~Writing /\ ~Pending("td")'
    BY Zenon, <2>1 DEF Writing, Pending
  <2> QED
    BY <1>1, <1>2, <2>1, <2>2 DEF Versions, Mirror
<1>5. CASE MarkOob(TRUE)
  <2>1. pc = "oob" /\ ~Writing /\ Writing' /\ todo' = Kinds /\ pc' = "erase"
        /\ d'["td"].version = NextVersion(d["td"].version)
    BY Zenon, <1>5 DEF MarkOob, Writing, TypeOK, Descr, Kinds
  <2>2. Pending("td")' /\ Pending("md")'
    BY Zenon, <2>1 DEF Pending, Kinds
  <2>3. ASSUME NEW m \in Blocks, tab[m].kind = "md" PROVE Safe(m)' /\ tab[m].version = d["td"].version
    <3>1. Mirror(m) /\ tab[m].ok
      BY Zenon, <1>0, <2>3 DEF Versions, VersionInv, Faultfree
    <3>2. PICK t \in Blocks : tab[t].kind = "td" /\ tab[t].version = tab[m].version
      BY Zenon, <2>1, <3>1 DEF Mirror
    <3>3. Readable(m) /\ IsTable(m) /\ IsTable(t)
      BY Zenon, <2>3, <3>1, <3>2 DEF Readable, IsTable
    <3>4. ~Stale(m)
      <4>1. ASSUME NEW u \in Blocks, Readable(u), tab[u].kind = "td" PROVE u = t
        BY SMTT(60), <1>0, <3>2, <3>3, <4>1, HomeUnique DEF HomeInv, Readable, Kinds
      <4>2. tab[m].version \in 0..(VersionMod - 1)
        BY Zenon DEF TypeOK, Tables
      <4> QED
        BY Zenon, <3>2, <4>1, <4>2, NewerNext DEF Stale
    <3>5. Safe(m)
      BY Zenon, <1>0, <2>1, <3>3, <3>4 DEF WrittenInv
    <3> QED
      BY Zenon, <2>1, <3>1, <3>3, <3>5, QuietTables DEF Mirror
  <2> QED
    BY Zenon, <1>1, <2>1, <2>2, <2>3 DEF Versions, Mirror
<1>6. CASE CheckRead("ok")
  <2>1. ~Writing /\ tab' = tab
    BY Zenon, <1>6 DEF CheckRead, Writing, flash
  <2>2. ASSUME NEW m \in Blocks, tab[m].kind = "md" PROVE Mirror(m)'
    <3>1. todo' = {} /\ pc' = "idle" /\ d'["td"].version = tab[m].version
      BY Zenon, <1>6, <2>2, ReadVersion
    <3>2. ~Writing' /\ ~Pending("td")'
      BY Zenon, <3>1 DEF Writing, Pending
    <3> QED
      BY Zenon, <1>2, <2>1, <2>2, <3>1, <3>2 DEF Mirror
  <2>3. (Writing /\ ~Pending("td"))' => tab'[d'["td"].block].version = d'["td"].version
    BY Zenon, <1>6, <2>1, ReadVersion
  <2> QED
    BY Zenon, <2>1, <2>2, <2>3 DEF Versions
<1>7. CASE CheckCreate
  <2>1. pc = "check" /\ d["td"].block = None /\ d["md"].block = None /\ todo' = Kinds
    BY Zenon, <1>7 DEF CheckCreate, Go
  <2>2. \A m \in Blocks : tab[m].kind # "md"
    <3>1. ASSUME NEW m \in Blocks, tab[m].kind = "md" PROVE FALSE
      <4>1. Readable(m)
        BY Zenon, <3>1 DEF Readable, IsTable, VersionInv, Faultfree
      <4> QED
        BY SMTT(60), <1>0, <2>1, <3>1, <4>1, Constants DEF HomeInv
    <3> QED
      BY Zenon, <3>1
  <2>3. (Writing)' => Pending("td")'
    BY Zenon, <2>1 DEF Pending, Kinds
  <2> QED
    BY Zenon, <1>1, <2>2, <2>3 DEF Versions
<1>8. CASE WriteNoSpace
  <2>1. Writing /\ (Target(Current) # None => IsBad(Target(Current), TRUE)) /\ pc' = "idle"
    BY Zenon, <1>8 DEF WriteNoSpace, Writing, Return
  <2>2. Current \in Kinds /\ \A b : ~Home(Current, b)
    BY Zenon, <1>0, <2>1, TargetHome, WriteFacts
  <2>3. \A b : ~Home("md", b)
    BY Zenon, <2>2 DEF Home, IsNext, Kinds
  <2>4. \A m \in Blocks : tab[m].kind # "md"
    BY Zenon, <1>0, <2>3 DEF HomeInv, IsTable
  <2> QED
    BY Zenon, <1>1, <2>1, <2>4 DEF Versions, Writing
<1>9. CASE UNCHANGED vars
  <2>1. \A m \in Blocks : IsTable(m) => (Safe(m)' <=> Safe(m)) /\ (Stale(m)' <=> Stale(m))
    BY Zenon, QuietTables
  <2>2. tab' = tab /\ d' = d /\ pc' = pc /\ (Writing' <=> Writing) /\ \A k : Pending(k)' <=> Pending(k)
    BY Zenon, <1>9 DEF vars, Writing, Pending
  <2>3. \A m \in Blocks : tab[m].kind = "md" => IsTable(m)
    BY Zenon DEF IsTable
  <2> QED
    BY Zenon, <1>0, <2>1, <2>2, <2>3 DEF Versions, Mirror
<1>10. ~WriteFails /\ ~MarkOob(FALSE) /\ ~Cut /\ (\A b : ~Decay(b)) /\ ~CheckRead("flip") /\ ~CheckRead("io")
  <2>1. OnlyCuts' /\ NoFail' /\ NoIo'
    BY Zenon DEF Faultless, OnlyCuts, NoFail
  <2> QED
    BY Zenon, <2>1, FaultStep
<1>11. ~ScanMemory /\ (Scan \/ CheckUnreadable \/ Reset => pc' \in {"off", "check"} /\ ~Writing)
  BY Zenon DEF ScanMemory, Scan, CheckUnreadable, Reset, Restart, Writing
<1> QED
  BY Zenon, <1>3, <1>4, <1>5, <1>6, <1>7, <1>8, <1>9, <1>10, <1>11 DEF Next, Program

(* Where a write happens, and what it leaves alone.                        *)
LEMMA WritePlace ==
  ASSUME TypeOK, AskedInv, RegionInv, MarkedInv, HomeInv, NoIo, Writing, Target(Current) # None,
         NEW t, tab' = [tab EXCEPT ![Target(Current)] = t]
  PROVE  /\ Current \in Kinds /\ Current \in todo /\ Target(Current) \in Blocks /\ useFlash
         /\ tab'[Target(Current)] = t
         /\ \A b \in Blocks : IsTable(b) /\ tab[b].kind # Current => b # Target(Current)
         /\ \A b \in Blocks : b # Target(Current) => tab'[b] = tab[b] /\ tab[b].kind # Current
<1>1. Current \in Kinds /\ Current \in todo /\ Target(Current) \in Blocks /\ useFlash
  BY Zenon, WriteFacts DEF HomeInv, Writing
<1>2. Home(Current, Target(Current))
  BY Zenon, <1>1, TargetHome
<1>3. \A b \in Blocks : IsTable(b) => tab[b].kind \in Kinds /\ Home(tab[b].kind, b)
  BY Zenon, <1>1 DEF HomeInv, IsTable, TypeOK, Tables, Kinds
<1>4. \A b \in Blocks : IsTable(b) => (tab[b].kind = Current <=> b = Target(Current))
  BY <1>1, <1>2, <1>3, HomeUnique
<1>5. \A b \in Blocks : tab[b].kind = Current => IsTable(b)
  BY Zenon, <1>1 DEF IsTable, Kinds
<1> QED
  BY Zenon, <1>1, <1>4, <1>5 DEF TypeOK

(* Erasing the home of a table keeps the versions of the two copies        *)
(* together.                                                               *)
LEMMA EraseVersion ==
  ASSUME TypeOK, AskedInv, RegionInv, HomeInv, MarkedInv, VersionInv, Faultfree, WriteErase
  PROVE  Versions'
<1>0. Versions /\ NoIo /\ Writing /\ Target(Current) # None /\ tab' = [tab EXCEPT ![Target(Current)] = NoTable]
      /\ Writing' /\ UNCHANGED <<d, todo, wrote>> /\ pc = "erase" /\ pc' = "write"
  BY Zenon DEF VersionInv, Versions, Faultfree, WriteErase, Writing, history
<1>1. /\ Current \in Kinds /\ Current \in todo /\ Target(Current) \in Blocks /\ useFlash
      /\ tab'[Target(Current)] = NoTable
      /\ \A b \in Blocks : IsTable(b) /\ tab[b].kind # Current => b # Target(Current)
      /\ \A b \in Blocks : b # Target(Current) => tab'[b] = tab[b] /\ tab[b].kind # Current
  BY ZenonT(60), <1>0, WritePlace
<1>2. \A k : Pending(k)' <=> Pending(k)
  BY Zenon, <1>0 DEF Pending
<1>3. CASE Current = "td"
  <2>1. Pending("td")
    BY Zenon, <1>0, <1>1, <1>3 DEF Pending
  <2>2. ASSUME NEW m \in Blocks, tab'[m].kind = "md" PROVE Mirror(m)'
    <3>1. tab'[m] = tab[m] /\ tab[m].kind = "md"
      BY SMTT(60), <1>1, <2>2 DEF NoTable
    <3>2. Mirror(m)
      BY Zenon, <1>0, <3>1 DEF Versions
    <3>3. Safe(m)'
      BY Zenon, <1>0, <2>1, <3>1, <3>2 DEF Mirror, Safe
    <3> QED
      BY Zenon, <1>0, <1>2, <2>1, <3>1, <3>2, <3>3 DEF Mirror
  <2> QED
    BY Zenon, <1>2, <2>1, <2>2 DEF Versions
<1>4. CASE Current = "md"
  <2>1. \A m \in Blocks : tab'[m].kind # "md"
    BY <1>1, <1>4 DEF NoTable
  <2>2. Pending("md") /\ ~Pending("td")
    BY Zenon, <1>0, <1>1, <1>4 DEF Pending, Current
  <2>3. d["td"].block # None
    BY Zenon, <1>0, <1>1, <2>2 DEF HomeInv
  <2>4. d["td"].block # Target(Current) /\ d["td"].block \in Blocks
    BY Zenon, <1>0, <1>1, <1>4, <2>3, OtherPlace DEF Kinds
  <2>5. tab'[d["td"].block] = tab[d["td"].block] /\ tab[d["td"].block].version = d["td"].version
    BY Zenon, <1>0, <1>1, <2>2, <2>4 DEF Versions
  <2> QED
    BY Zenon, <1>0, <2>1, <2>5 DEF Versions
<1> QED
  BY Zenon, <1>1, <1>3, <1>4 DEF Kinds

(* Writing a table keeps the versions of the two copies together: the      *)
(* mirror is one behind until its turn.                                    *)
LEMMA TableVersion ==
  ASSUME TypeOK, AskedInv, RegionInv, HomeInv, MarkedInv, CurrentInv, WrittenInv, VersionInv,
  Faultfree,
         WriteTable, TypeOK'
  PROVE  Versions'
<1>0. Versions /\ NoIo /\ Writing /\ Target(Current) # None /\ Working
      /\ tab' = [tab EXCEPT ![Target(Current)] = Written(Current)]
  BY Zenon DEF VersionInv, Versions, Faultfree, WriteTable, Writing, AskedInv, Written, Working
<1>1. /\ Current \in Kinds /\ Current \in todo /\ Target(Current) \in Blocks /\ useFlash
      /\ tab'[Target(Current)] = Written(Current)
      /\ \A b \in Blocks : IsTable(b) /\ tab[b].kind # Current => b # Target(Current)
      /\ \A b \in Blocks : b # Target(Current) => tab'[b] = tab[b] /\ tab[b].kind # Current
  BY ZenonT(60), <1>0, WritePlace
<1>2. /\ d'["td"].version = d["td"].version /\ d["td"].version = d["md"].version
      /\ d'[Current].block = Target(Current) /\ \A k \in Kinds : k # Current => d'[k] = d[k]
  <2>1. d["td"].version = d["md"].version
    BY Zenon, <1>0, <1>1 DEF VersionInv
  <2>2. d \in [Kinds -> Descr] /\ d' = [d EXCEPT ![Current].block = Target(Current)]
    BY Zenon DEF TypeOK, WriteTable
  <2> QED
    BY <1>1, <2>1, <2>2 DEF Descr, Kinds
<1>3. CASE Current = "td"
  <2>1. ASSUME NEW m \in Blocks, tab'[m].kind = "md" PROVE Mirror(m)'
    <3>1. tab'[m] = tab[m] /\ tab[m].kind = "md"
      BY SMTT(60), <1>1, <1>3, <2>1 DEF Written
    <3>2. Mirror(m) /\ Pending("md") /\ Pending("td")
      BY Zenon, <1>0, <1>1, <1>3, <3>1 DEF Versions, Mirror, Pending
    <3>3. Writing' /\ todo' = todo \ {"td"} /\ pc' = "erase"
      <4>1. todo # {Current}
        BY <1>3, <3>2 DEF Pending
      <4> QED
        BY Zenon, <1>3, <4>1 DEF WriteTable, Writing
    <3>4. Pending("md")' /\ ~Pending("td")'
      BY Zenon, <3>2, <3>3 DEF Pending
    <3>5. Stale(m)'
      <4>0. PICK t \in Blocks : t = Target(Current)
        BY Zenon, <1>1
      <4>1. tab'[t].kind = "td" /\ tab'[t].version = d["td"].version /\ tab'[t].ok /\ tab'[t].codes = Stored(bbt)
        BY <1>1, <1>3, <4>0 DEF Written
      <4>2. wrote \subseteq BadIn(bbt) /\ wrote' = wrote \cup BadIn(bbt)
        BY Zenon, <1>0, <1>3 DEF WrittenInv, Faultfree, WriteTable, BadIn
      <4>3. wrote' \subseteq BadIn(tab'[t].codes)
        BY Zenon, <4>1, <4>2, SameBad DEF TypeOK
      <4>4. tab'[t].version = NextVersion(tab'[m].version)
        BY Zenon, <1>0, <3>1, <3>2, <4>1 DEF Mirror
      <4>5. Readable(t)' /\ Safe(t)'
        BY Zenon, <4>1, <4>3 DEF Readable, IsTable, Safe
      <4> QED
        BY Zenon, <4>1, <4>4, <4>5 DEF Stale
    <3> QED
      BY Zenon, <1>0, <1>2, <3>1, <3>2, <3>3, <3>4, <3>5 DEF Mirror
  <2>2. tab'[d'["td"].block].version = d'["td"].version
    BY SMTT(60), <1>1, <1>2, <1>3 DEF Written
  <2> QED
    BY Zenon, <2>1, <2>2 DEF Versions
<1>4. CASE Current = "md"
  <2>1. "td" \notin todo /\ todo = {Current}
    <3>1. "td" \notin todo /\ todo \subseteq {"td", "md"}
      BY Zenon, <1>4 DEF Current, TypeOK, Kinds
    <3> QED
      BY ZenonT(60), <1>1, <1>4, <3>1
  <2>2. pc' = "idle" /\ ~Writing' /\ ~Pending("td") /\ ~Pending("td")'
    BY Zenon, <2>1 DEF WriteTable, Return, Writing, Pending
  <2>3. /\ d["td"].block # None /\ tab[d["td"].block].kind = "td"
        /\ tab[d["td"].block].version = d["td"].version
    BY Zenon, <1>0, <1>1, <2>2 DEF CurrentInv, Versions, Faultfree, Kinds
  <2>4. d["td"].block # Target(Current) /\ d["td"].block \in Blocks
    BY Zenon, <1>0, <1>1, <1>4, <2>3, OtherPlace DEF Kinds
  <2>5. tab'[d["td"].block].kind = "td" /\ tab'[d["td"].block].version = d["td"].version
    BY Zenon, <1>1, <2>3, <2>4
  <2>6. \A m \in Blocks : tab'[m].kind = "md" => tab'[m].version = d["td"].version
    BY SMTT(60), <1>1, <1>2, <1>4 DEF Written
  <2> QED
    BY Zenon, <1>2, <2>2, <2>4, <2>5, <2>6 DEF Versions, Mirror
<1> QED
  BY Zenon, <1>1, <1>3, <1>4 DEF Kinds

(* Every step of the driver keeps the versions of the two copies together. *)
LEMMA VersionNext ==
  ASSUME TypeOK, AskedInv, RegionInv, HomeInv, MarkedInv, CurrentInv, WrittenInv, VersionInv,
         TypeOK', AskedInv', HomeInv', [Next]_vars
  PROVE  VersionInv'
<1>1. Working' /\ useFlash' => d'["td"].version = d'["md"].version
  BY Zenon, SameVersion, RegionKept
<1>2. ASSUME Faultless' PROVE (\A b \in Blocks : tab'[b].ok) /\ Versions'
  <2>1. Faultfree /\ Faultfree' /\ Faultless
    BY Zenon, <1>2, FaultStep, Faultfrees DEF Faultfree, Faultless, OnlyCuts, NoFail
  <2>2. ~WriteFails /\ ~Cut /\ \A b : ~Decay(b)
    BY ZenonT(60), <2>1, FaultStep DEF Faultfree
  <2>3. \A b \in Blocks : tab[b].ok
    BY Zenon, <2>1 DEF VersionInv
  <2>4. \A b \in Blocks : tab'[b].ok
    BY <2>2, <2>3, TabStep DEF NoTable, Written
  <2>5. CASE ~useFlash
    <3>1. (\A b \in Blocks : ~IsTable(b)') /\ ~Writing'
      BY Zenon, <2>5, RegionKept DEF HomeInv, Writing
    <3> QED
      BY Zenon, <2>4, <3>1 DEF Versions, IsTable
  <2>6. CASE useFlash
    <3>1. Quiet \/ WriteErase \/ WriteTable
      BY Zenon, <2>1, <2>2, QuietStep DEF Faultfree
    <3> QED
      BY Zenon, <1>2, <2>1, <2>4, <2>6, <3>1, QuietVersion, EraseVersion, TableVersion
  <2> QED
    BY Zenon, <2>5, <2>6
<1> QED
  BY Zenon, <1>1, <1>2 DEF VersionInv, Versions

OneCut == OnlyCuts /\ NoFail /\ NoIo /\ faults["cut"] < 2

(* What is written is in memory, and in the markers.                       *)
LEMMA WroteStep ==
  ASSUME TypeOK, AskedInv, WrittenInv, OneCut, [Next]_vars
  PROVE  wrote' = wrote \/ (WriteTable /\ Current = "td" /\ wrote' = BadIn(bbt) /\ wrote \subseteq BadIn(bbt))
<1>1. CASE WriteTable
  <2>1. wrote \subseteq BadIn(bbt)
    BY Zenon, <1>1 DEF WriteTable, WrittenInv, OneCut, Working
  <2> QED
    BY Zenon, <1>1, <2>1 DEF WriteTable, BadIn
<1>2. CASE ~WriteTable
  BY ZenonT(60), <1>2 DEF Next, Program, Scan, ScanMemory, CheckCreate, CheckUnreadable,
     CheckRead, MarkOob,
     WriteErase, WriteNoSpace, WriteFails, MarkBegin, EraseBlock, Cut, Reset, Decay, history, vars
<1> QED
  BY Zenon, <1>1, <1>2

(* While the tables are written, the one that is done has the table in     *)
(* memory.                                                                 *)
LEMMA DoneSafe ==
  ASSUME TypeOK, AskedInv, RegionInv, HomeInv, CurrentInv, WrittenInv, OneCut, Writing,
         NEW b \in Blocks, Readable(b), ~Pending(tab[b].kind)
  PROVE  BadIn(tab[b].codes) = BadIn(bbt) /\ Safe(b)
<1>1. useFlash /\ tab[b].kind \in Kinds /\ Home(tab[b].kind, b)
  BY Zenon DEF HomeInv, Writing, Readable, IsTable, TypeOK, Tables, Kinds, OneCut
<1>2. /\ d[tab[b].kind].block # None /\ tab[d[tab[b].kind].block].codes = Stored(bbt)
  BY ZenonT(60), <1>1 DEF CurrentInv, OneCut
<1>3. Home(tab[b].kind, d[tab[b].kind].block)
  BY Zenon, <1>1, <1>2 DEF HomeInv, OneCut
<1>4. d[tab[b].kind].block = b
  BY SMTT(60), <1>1, <1>3, HomeUnique
<1>5. wrote \subseteq BadIn(bbt)
  BY Zenon DEF WrittenInv, OneCut, Writing, Working
<1> QED
  BY Zenon, <1>2, <1>4, <1>5, SameBad DEF Safe, TypeOK

(* The markers cover the table in memory.                                  *)
LEMMA MarkerStep ==
  ASSUME TypeOK, AskedInv, RegionInv, HomeInv, MarkedInv, WrittenInv, OneCut, OneCut', [Next]_vars
  PROVE  /\ pc' # "oob" => BadIn(bbt') \subseteq mark'
         /\ pc' = "oob" => BadIn(bbt') \subseteq mark' \cup {victim'}
<1>0. wrote \subseteq mark /\ acked \subseteq mark /\ (pc # "oob" => BadIn(bbt) \subseteq mark)
      /\ (pc = "oob" => BadIn(bbt) \subseteq mark \cup {victim})
  BY Zenon DEF WrittenInv, MarkedInv, OneCut
<1>1. CASE Scan \/ ScanMemory \/ Cut \/ Reset
  BY ZenonT(60), <1>1, SameBad DEF Scan, ScanMemory, Cut, Reset, Restart, flash, TypeOK
<1>2. CASE CheckUnreadable
  BY Zenon, <1>0, <1>2 DEF CheckUnreadable, flash
<1>3. ASSUME NEW c \in Codes, NEW w, NEW v, Go(c, w, v) PROVE BadIn(bbt') = BadIn(c) /\ pc' # "oob"
  BY Zenon, <1>3, SameBad DEF Go
<1>4. CASE CheckCreate
  BY Zenon, <1>3, <1>4, SameBad, CodesTyped DEF CheckCreate, flash, TypeOK
<1>5. ASSUME NEW how, CheckRead(how) PROVE BadIn(bbt') \subseteq mark' /\ pc' # "oob"
  <2>1. how # "io" /\ mark' = mark
    BY ZenonT(60), <1>5, FaultStep DEF OneCut, CheckRead, flash
  <2> DEFINE b == d[Choice.rd].block
  <2>2. tab[b].codes \in Codes /\ tab[b].kind \in Kinds /\ b \in Blocks /\ tab[b].ok
    BY ZenonT(60), <1>5, <2>1, ReadChoice DEF OneCut
  <2>3. Readable(b)
    BY Zenon, <2>2 DEF Readable, IsTable, Kinds
  <2>4. BadIn(tab[b].codes) \subseteq mark
    BY Zenon, <1>0, <2>2, <2>3 DEF WrittenInv, OneCut
  <2>5. BadIn(bbt') = BadIn(tab[b].codes) /\ pc' # "oob"
    BY Zenon, <1>3, <1>5, <2>1, <2>2 DEF CheckRead
  <2> QED
    BY Zenon, <2>1, <2>4, <2>5
<1>6. ASSUME NEW ret, Return(ret) PROVE BadIn(bbt') = BadIn(bbt) /\ pc' = "idle"
  BY Zenon, <1>6, SameBad DEF Return, TypeOK
<1>7. CASE MarkOob(TRUE)
  BY Zenon, <1>0, <1>6, <1>7 DEF MarkOob
<1>8. CASE WriteErase
  BY Zenon, <1>0, <1>8 DEF WriteErase, IsBad, BadIn
<1>9. CASE WriteNoSpace \/ WriteTable
  BY Zenon, <1>0, <1>6, <1>9 DEF WriteNoSpace, WriteTable, flash
<1>10. ASSUME NEW b \in Blocks, MarkBegin(b) PROVE pc' = "oob" /\ BadIn(bbt') \subseteq mark' \cup {victim'}
  <2>1. BadIn(bbt') \subseteq BadIn(bbt) \cup {b}
    BY Zenon, <1>10 DEF MarkBegin, BadIn, TypeOK, Codes
  <2> QED
    BY ZenonT(60), <1>0, <1>10, <2>1 DEF MarkBegin
<1>11. ASSUME NEW b \in Blocks, EraseBlock(b) PROVE pc' # "oob" /\ BadIn(bbt') \subseteq mark'
  BY Zenon, <1>0, <1>11 DEF EraseBlock, IsBad, BadIn
<1>12. CASE UNCHANGED vars
  BY Zenon, <1>0, <1>12 DEF vars
<1>13. ~WriteFails /\ ~MarkOob(FALSE) /\ \A b : ~Decay(b)
  BY Zenon, FaultStep DEF OneCut
<1> QED
  BY ZenonT(60), <1>1, <1>2, <1>4, <1>5, <1>7, <1>8, <1>9, <1>10, <1>11, <1>12, <1>13 DEF Next,
     Program

(* A power failure while the tables are being written.                     *)
LEMMA CutSafe ==
  ASSUME TypeOK, AskedInv, RegionInv, HomeInv, MarkedInv, CurrentInv, WrittenInv, VersionInv,
  OneCut,
         OneCut', [Next]_vars, Cut, Writing, NEW b \in Blocks, Readable(b)'
  PROVE  Safe(b)' \/ Stale(b)'
<1>1. Faultless /\ wrote' = wrote
  <2>1. faults["cut"] = 0
    BY FaultStep, Zenon DEF OneCut
  <2>2. wrote' = wrote
    BY Zenon DEF Cut
  <2>3. Faultless
    BY <2>1, Zenon DEF OneCut, Faultless
  <2> QED
    BY Zenon, <2>2, <2>3
<1>2. tab'[b] = tab[b] /\ Readable(b)
  <2>1. ~WriteTable
    BY Zenon DEF Cut, Restart, WriteTable, Return
  <2> QED
    BY Zenon, <2>1, ReadableStep
<1>3. tab[b].kind \in Kinds
  BY Zenon, <1>2 DEF Readable, IsTable, TypeOK, Tables, Kinds
<1>4. Safe(b) => Safe(b)'
  BY Zenon, <1>1, <1>2 DEF Safe
<1>5. CASE ~Pending(tab[b].kind)
  BY Zenon, <1>2, <1>4, <1>5, DoneSafe
<1>6. CASE tab[b].kind = "td"
  BY Zenon, <1>2, <1>4, <1>6 DEF WrittenInv, OneCut
<1>7. CASE tab[b].kind = "md" /\ Pending("md")
  <2>1. Mirror(b)
    BY Zenon, <1>1, <1>7 DEF VersionInv
  <2>2. CASE Pending("td")
    BY Zenon, <1>4, <2>1, <2>2 DEF Mirror
  <2>3. CASE ~Pending("td")
    <3>1. PICK t \in Blocks : /\ Readable(t) /\ tab[t].kind = "td" /\ Safe(t)
                              /\ tab[t].version = NextVersion(tab[b].version)
      BY Zenon, <2>1, <2>3 DEF Mirror, Stale
    <3>2. Current = "md"
      BY Zenon, <2>3 DEF Pending, Current
    <3>3. tab'[t] = tab[t]
      <4>1. CASE UNCHANGED tab
        BY Zenon, <4>1
      <4>2. ASSUME NEW x, tab' = [tab EXCEPT ![Target(Current)] = x], Target(Current) # None
            PROVE  tab'[t] = tab[t]
        BY ZenonT(60), <3>1, <3>2, <4>2, WritePlace DEF OneCut, Readable
      <4> QED
        BY Zenon, <4>1, <4>2, CutTab, Constants
    <3>4. Readable(t)' /\ Safe(t)'
      BY Zenon, <1>1, <3>1, <3>3 DEF Readable, IsTable, Safe
    <3> QED
      BY Zenon, <1>2, <3>1, <3>3, <3>4 DEF Stale
  <2> QED
    BY Zenon, <2>2, <2>3
<1> QED
  BY Zenon, <1>3, <1>5, <1>6, <1>7 DEF Kinds

(* Every step of the driver keeps what was written readable through one    *)
(* power failure.                                                          *)
LEMMA WrittenNext ==
  ASSUME TypeOK, AskedInv, RegionInv, HomeInv, MarkedInv, CurrentInv, WrittenInv, VersionInv,
         [Next]_vars
  PROVE  WrittenInv'
<1>0. SUFFICES ASSUME OneCut, OneCut' PROVE WrittenInv'
  BY Zenon, FaultStep DEF WrittenInv, OneCut, OnlyCuts, NoFail
<1>a. NoIo /\ NoIo'
  BY Zenon, <1>0 DEF OneCut
<1>b. /\ wrote \subseteq mark /\ (Working => wrote \subseteq BadIn(bbt))
      /\ \A b \in Blocks : Readable(b) => BadIn(tab[b].codes) \subseteq wrote \cup acked
      /\ \A b \in Blocks : Readable(b) /\ tab[b].kind = "td" => Safe(b)
      /\ ~Writing => \A b \in Blocks : Readable(b) => Safe(b) \/ Stale(b)
  BY Zenon, <1>0 DEF WrittenInv, OneCut
<1>1. wrote' \subseteq mark'
  <2>1. CASE wrote' = wrote
    BY Zenon, <1>b, <2>1, MarkStep DEF BadIn
  <2>2. CASE WriteTable /\ wrote' = BadIn(bbt)
    BY Zenon, <1>0, <2>2 DEF WriteTable, WrittenInv, OneCut
  <2> QED
    BY Zenon, <1>0, <2>1, <2>2, WroteStep
<1>2. ASSUME Working' PROVE wrote' \subseteq BadIn(bbt')
  <2>1. CASE wrote' = wrote
    <3>1. CASE pc = "check" /\ BadIn(bbt') = BadIn(tab[d[Choice.rd].block].codes)
               /\ ~(d["td"].block = None /\ d["md"].block = None)
      <4>1. \E how : CheckRead(how)
        BY Zenon, <1>2, <3>1 DEF Working, Next, Program, Scan, ScanMemory, CheckCreate,
           CheckUnreadable, MarkOob,
           WriteErase, WriteNoSpace, WriteFails, WriteTable, MarkBegin, EraseBlock, Cut, Reset,
           Restart, Decay, vars
      <4>2. Safe(d[Choice.rd].block)
        BY Zenon, <1>0, <1>a, <4>1, FaultStep, ReadSafe DEF OneCut
      <4> QED
        BY Zenon, <2>1, <3>1, <4>2 DEF Safe
    <3> QED
      BY Zenon, <1>a, <1>b, <1>2, <2>1, <3>1, BbtStep
  <2>2. CASE WriteTable /\ wrote' = BadIn(bbt)
    <3>1. bbt' = bbt \/ Return(TRUE)
      BY Zenon, <2>2 DEF WriteTable
    <3> QED
      BY Zenon, <2>2, <3>1, SameBad DEF Return, TypeOK
  <2> QED
    BY Zenon, <1>0, <2>1, <2>2, WroteStep
<1>3. ASSUME NEW b \in Blocks, Readable(b)' PROVE BadIn(tab'[b].codes) \subseteq wrote' \cup acked'
  <2>1. wrote \subseteq wrote' /\ acked \subseteq acked'
    BY ZenonT(60), <1>0, WroteStep, AckStep
  <2>2. CASE tab'[b] = tab[b] /\ Readable(b)
    BY Zenon, <1>b, <2>1, <2>2
  <2>3. CASE WriteTable /\ Writing /\ Current \in Kinds /\ tab'[b] = Written(Current)
    <3>1. BadIn(tab'[b].codes) = BadIn(bbt)
      BY <2>3, SameBad DEF Written, TypeOK
    <3>2. CASE Current = "td"
      BY Zenon, <2>3, <3>1, <3>2 DEF WriteTable, BadIn
    <3>3. CASE Current = "md"
      <4>1. ~Pending("td") /\ useFlash
        BY Zenon, <2>3, <3>3 DEF Pending, Current, HomeInv, Writing
      <4>2. d["td"].block # None /\ tab[d["td"].block].kind = "td" /\ tab[d["td"].block].ok
            /\ tab[d["td"].block].codes = Stored(bbt) /\ d["td"].block \in Blocks
        BY Zenon, <1>0, <2>3, <4>1 DEF CurrentInv, OneCut, Kinds, TypeOK, Descr
      <4>3. Readable(d["td"].block)
        BY Zenon, <4>2 DEF Readable, IsTable
      <4>4. BadIn(bbt) \subseteq wrote \cup acked
        BY Zenon, <1>b, <4>2, <4>3, SameBad DEF TypeOK
      <4> QED
        BY Zenon, <2>1, <3>1, <4>4
    <3> QED
      BY Zenon, <2>3, <3>2, <3>3 DEF Kinds
  <2> QED
    BY Zenon, <1>3, <2>2, <2>3, ReadableStep
<1>4. ASSUME NEW b \in Blocks, Readable(b)', tab'[b].kind = "td" PROVE Safe(b)'
  <2>1. CASE WriteTable /\ Current = "td"
    <3>1. BadIn(tab'[b].codes) = BadIn(bbt)
      BY Zenon, <1>a, <1>4, <2>1, OnlyWritten
    <3>2. wrote' \subseteq BadIn(bbt)
      BY ZenonT(60), <1>0, <1>b, <2>1, WroteStep DEF WriteTable, Working
    <3> QED
      BY Zenon, <3>1, <3>2 DEF Safe
  <2>2. CASE ~(WriteTable /\ Current = "td")
    <3>1. wrote' = wrote
      BY Zenon, <1>0, <2>2, WroteStep
    <3>2. tab'[b] = tab[b] /\ Readable(b)
      BY <1>4, <2>2, ReadableStep DEF Written, Kinds
    <3> QED
      BY Zenon, <1>b, <1>4, <3>1, <3>2 DEF Safe
  <2> QED
    BY Zenon, <2>1, <2>2
<1>5. ASSUME ~Writing', NEW b \in Blocks, Readable(b)' PROVE Safe(b)' \/ Stale(b)'
  <2>1. CASE WriteTable
    <3>1. todo = {Current} /\ Writing
      BY Zenon, <1>5, <2>1 DEF WriteTable, Writing
    <3>2. wrote' \subseteq BadIn(bbt)
      BY ZenonT(60), <1>0, <1>b, <2>1, WroteStep DEF WriteTable, Working
    <3>3. CASE tab'[b].kind = Current
      BY Zenon, <1>a, <1>5, <2>1, <3>2, <3>3, OnlyWritten DEF Safe
    <3>4. CASE tab'[b].kind # Current
      <4>1. tab'[b] = tab[b] /\ Readable(b)
        BY SMTT(60), <1>5, <3>4, ReadableStep DEF Written
      <4>2. ~Pending(tab[b].kind)
        BY Zenon, <3>1, <3>4, <4>1 DEF Pending
      <4>3. BadIn(tab[b].codes) = BadIn(bbt)
        BY Zenon, <1>0, <3>1, <4>1, <4>2, DoneSafe
      <4> QED
        BY Zenon, <3>2, <4>1, <4>3 DEF Safe
    <3> QED
      BY Zenon, <3>3, <3>4
  <2>2. CASE Cut /\ Writing
    BY Zenon, <1>0, <1>5, <2>2, CutSafe
  <2>3. CASE Quiet /\ ~Writing
    <3>1. Readable(b) /\ IsTable(b)
      BY Zenon, <1>5, <2>3, QuietTables DEF Readable
    <3> QED
      BY Zenon, <1>b, <2>3, <3>1, QuietTables
  <2>4. CASE Quiet /\ Writing /\ ~Cut /\ ~WriteTable
    <3>1. WriteNoSpace
      <4>1. ~WriteFails
        BY Zenon, <1>0, FaultStep DEF OneCut
      <4>2. ~UNCHANGED vars /\ ~WriteErase
        BY ZenonT(60), <1>5, <2>4 DEF vars, Writing, WriteErase
      <4>3. pc \in {"erase", "write"}
        BY Zenon, <2>4 DEF Writing
      <4> QED
        BY Zenon, <2>4, <4>1, <4>2, <4>3 DEF Next, Program, Scan, ScanMemory, CheckCreate,
           CheckUnreadable,
           CheckRead, MarkOob, MarkBegin, EraseBlock, Reset, Decay
    <3>2. useFlash /\ Readable(b) /\ tab'[b] = tab[b] /\ Home(tab[b].kind, b) /\ tab[b].kind \in Kinds
      BY Zenon, <1>a, <1>5, <2>4, QuietTables DEF Readable, HomeInv, Writing, IsTable, TypeOK,
         Tables, Kinds
    <3>3. Current \in Kinds /\ \A c : ~Home(Current, c)
      BY Zenon, <1>a, <2>4, <3>1, <3>2, TargetHome, WriteFacts DEF WriteNoSpace
    <3>4. tab'[b].kind = "td"
      BY Zenon, <3>2, <3>3 DEF Home, IsNext, Kinds
    <3> QED
      BY Zenon, <1>4, <1>5, <3>4
  <2>5. ~WriteErase /\ ~WriteFails /\ \A c : ~Decay(c)
    BY Zenon, <1>0, <1>5, FaultStep DEF OneCut, WriteErase, Writing
  <2> QED
    BY Zenon, <1>a, <2>1, <2>2, <2>3, <2>4, <2>5, QuietStep
<1> QED
  BY Zenon, <1>0, <1>1, <1>2, <1>3, <1>4, <1>5, MarkerStep DEF WrittenInv

-----------------------------------------------------------------------------
(* The initial states                                                      *)

INSTANCE FiniteSetTheorems

(* With two good blocks in the region there is a home for both tables.     *)
LEMMA TwoGood ==
  ASSUME NEW S, S \subseteq Good, Cardinality(S) > 1
  PROVE  LET first == Max(Good)
             second == Max(Good \ {first})
         IN /\ first \in Blocks /\ second \in Blocks /\ first # second
            /\ Home("td", first) /\ Home("md", second)
<1> DEFINE first == Max(Good)
           second == Max(Good \ {first})
<1>1. Good \subseteq Blocks
  BY Zenon, Constants DEF Good
<1>2. Good # {} /\ Good \ {first} # {}
  <2>1. S # {} 
    BY FS_EmptySet
  <2>2. ASSUME Good \ {first} = {} PROVE FALSE
    <3>1. S = {first}
      BY Zenon, <2>1, <2>2
    <3>2. Cardinality(S) = 1
      BY Zenon, <3>1, FS_Singleton
    <3> QED
      BY <3>2
  <2> QED
    BY Zenon, <2>1, <2>2
<1>3. first \in Good /\ (\A c \in Good : c <= first)
  BY Zenon, <1>1, <1>2, LastBlock
<1>4. second \in Good /\ second # first /\ \A c \in Good : c # first => c <= second
  <2>1. Good \ {first} \subseteq Blocks
    BY Zenon, <1>1
  <2> HIDE DEF first
  <2>2. second \in Good \ {first} /\ \A c \in Good \ {first} : c <= second
    BY Zenon, <1>2, <2>1, LastBlock
  <2> QED
    BY Zenon, <2>2
<1> HIDE DEF first, second
<1>5. IsTop(first)
  BY Zenon, <1>3 DEF IsTop
<1>6. IsNext(second)
  BY Zenon, <1>3, <1>4, <1>5 DEF IsNext
<1> QED
  BY Zenon, <1>1, <1>3, <1>4, <1>5, <1>6 DEF Home, first, second

(* The tables of a chip in use: the last two good blocks hold them.        *)
LEMMA InUseTables ==
  ASSUME Init, useFlash, Cardinality(Region \ acked) > 1
  PROVE  /\ InUse(acked) \in [Blocks -> Tables]
         /\ \A b \in Blocks :
              \/ InUse(acked)[b] = NoTable
              \/ /\ InUse(acked)[b].kind \in Kinds /\ Home(InUse(acked)[b].kind, b)
                 /\ InUse(acked)[b].version = VersionMod - 1 /\ InUse(acked)[b].ok
                 /\ InUse(acked)[b].codes = [c \in Blocks |-> IF c \in acked THEN 3 ELSE 0]
         /\ \E t \in Blocks : InUse(acked)[t].kind = "td" /\ InUse(acked)[t].version = VersionMod - 1
<1> DEFINE good == Region \ acked
           first == Max(good)
           second == Max(good \ {first})
           codes == [c \in Blocks |-> IF c \in acked THEN 3 ELSE 0]
           table(k) == [kind |-> k, version |-> VersionMod - 1, ok |-> TRUE, codes |-> codes]
<1>1. good = Good /\ acked \subseteq Blocks
  BY Zenon, BbtAssumption DEF Good, Init
<1>5. InUse(acked) = [b \in Blocks |-> CASE b = first -> table("td") [] b = second -> table("md")
                                          [] OTHER -> NoTable]
  BY Zenon DEF InUse
<1>6. /\ Home("td", first) /\ Home("md", second) /\ first \in Blocks /\ second \in Blocks
      /\ first # second
  BY Zenon, <1>1, TwoGood
<1>7. \A k \in Kinds : table(k) \in Tables
  <2>1. codes \in Codes /\ VersionMod - 1 \in 0..(VersionMod - 1)
    BY Constants DEF Codes
  <2> HIDE DEF codes
  <2> QED
    BY Zenon, <2>1 DEF Tables, Kinds
<1>8. \A k : table(k).kind = k /\ table(k).version = VersionMod - 1 /\ table(k).ok /\ table(k).codes = codes
  BY Zenon
<1> HIDE DEF first, second, table, codes
<1>9. \A b \in Blocks : InUse(acked)[b] =
        IF b = first THEN table("td") ELSE IF b = second THEN table("md") ELSE NoTable
  BY Zenon, <1>5, <1>6
<1>10. InUse(acked) \in [Blocks -> Tables]
  <2>1. \A b \in Blocks : InUse(acked)[b] \in Tables
    BY Zenon, <1>7, <1>9, TablesTyped DEF Kinds
  <2>2. InUse(acked) = [b \in Blocks |-> InUse(acked)[b]]
    BY Zenon, <1>5
  <2> QED
    BY Zenon, <2>1, <2>2
<1>11. ASSUME NEW b \in Blocks PROVE
         \/ InUse(acked)[b] = NoTable
         \/ /\ InUse(acked)[b].kind \in Kinds /\ Home(InUse(acked)[b].kind, b)
            /\ InUse(acked)[b].version = VersionMod - 1 /\ InUse(acked)[b].ok
            /\ InUse(acked)[b].codes = codes
  BY Zenon, <1>6, <1>8, <1>9 DEF Kinds
<1>12. InUse(acked)[first].kind = "td" /\ InUse(acked)[first].version = VersionMod - 1
  BY Zenon, <1>6, <1>8, <1>9
<1> QED
  BY Zenon, <1>6, <1>10, <1>11, <1>12 DEF codes

FactoryCodes == [c \in Blocks |-> IF c \in acked THEN 3 ELSE 0]

(* A chip starts without tables, or with the tables an earlier scan has    *)
(* written.                                                                *)
LEMMA InitTables ==
  ASSUME Init
  PROVE  /\ tab \in [Blocks -> Tables]
         /\ \A b \in Blocks :
              \/ tab[b] = NoTable
              \/ /\ useFlash /\ tab[b].kind \in Kinds /\ Home(tab[b].kind, b)
                 /\ tab[b].version = VersionMod - 1 /\ tab[b].ok /\ tab[b].codes = FactoryCodes
         /\ (\E b \in Blocks : tab[b] # NoTable) =>
              \E t \in Blocks : tab[t].kind = "td" /\ tab[t].version = VersionMod - 1
<1>1. CASE tab = [b \in Blocks |-> NoTable]
  BY Zenon, <1>1, TablesTyped
<1>2. CASE useFlash /\ Cardinality(Region \ acked) > 1 /\ tab = InUse(acked)
  BY Zenon, <1>2, InUseTables DEF FactoryCodes
<1> QED
  BY Zenon, <1>1, <1>2 DEF Init

(* A chip fresh from the factory, and one scanned before, satisfy the      *)
(* inductive invariant.                                                    *)
LEMMA InitIInv ==
  ASSUME Init
  PROVE  IInv
<1>0. /\ tab \in [Blocks -> Tables] /\ acked \subseteq Blocks /\ mark = acked /\ asked = acked /\ wrote = {}
      /\ bbt = [b \in Blocks |-> 0] /\ d = NoDescr /\ todo = {} /\ victim = None /\ pc = "off"
      /\ ~Writing /\ ~Working
  BY Zenon, BbtAssumption, InitTables DEF Init, Writing, Working
<1>1. TypeOK
  <2>1. FlagsOK
    BY Zenon DEF Init, FlagsOK
  <2>2. NoDescr \in [Kinds -> Descr] /\ bbt \in Codes
    BY Zenon, <1>0, CodesTyped
  <2>3. faults \in [FaultKinds -> Nat]
    BY Zenon DEF Init
  <2> QED
    BY Zenon, <1>0, <2>1, <2>2, <2>3 DEF TypeOK
<1>2. BadIn(FactoryCodes) = acked /\ Clean(FactoryCodes)
  <2>1. \A b \in Blocks : FactoryCodes[b] = IF b \in acked THEN 3 ELSE 0
    BY Zenon DEF FactoryCodes
  <2>2. \A b \in Blocks : Bad(FactoryCodes[b]) <=> b \in acked
    BY <2>1 DEF Bad
  <2>3. Clean(FactoryCodes)
    BY SMTT(60), <2>1, Constants DEF Clean
  <2> QED
    BY Zenon, <1>0, <2>2, <2>3 DEF BadIn
<1>3. ASSUME NEW b \in Blocks
      PROVE  /\ BadIn(tab[b].codes) \subseteq acked /\ Clean(tab[b].codes) /\ tab[b].ok
             /\ IsTable(b) => /\ tab[b].kind \in Kinds /\ Home(tab[b].kind, b) /\ useFlash
                              /\ BadIn(tab[b].codes) = acked /\ tab[b].version = VersionMod - 1
  <2>1. BadIn(NoTable.codes) = {} /\ Clean(NoTable.codes) /\ NoTable.ok /\ NoTable.kind = "none"
    BY Zenon, SameBad, CleanCodes DEF NoTable
  <2> QED
    BY Zenon, <1>2, <2>1, InitTables DEF IsTable
<1>4. AskedInv
  BY ZenonT(60), <1>0, <1>3, SameBad DEF AskedInv
<1>5. RegionInv
  <2>1. ~InUseNow
    BY Zenon, <1>0 DEF InUseNow
  <2>2. \A c \in Blocks : bbt[c] = 0
    BY Zenon, <1>0
  <2>3. \A c \in Blocks : bbt[c] # 2
    BY <2>2
  <2> QED
    BY Zenon, <1>0, <1>3, <2>1, <2>2, <2>3, Constants DEF RegionInv
<1>6. HomeInv
  BY Zenon, <1>0, <1>3 DEF HomeInv, NoDescr, Pending
<1>7. MarkedInv
  BY ZenonT(60), <1>0, <1>3 DEF MarkedInv, Readable
<1>8. CurrentInv
  BY Zenon, <1>0 DEF CurrentInv
<1>9. WrittenInv
  BY ZenonT(60), <1>0, <1>3, SameBad DEF WrittenInv, Readable, Safe
<1>10. VersionInv
  <2>1. ASSUME NEW m \in Blocks, tab[m].kind = "md" PROVE Mirror(m)
    <3>1. IsTable(m) /\ tab[m] # NoTable
      BY <2>1 DEF IsTable, NoTable
    <3>2. PICK t \in Blocks : tab[t].kind = "td" /\ tab[t].version = VersionMod - 1
      BY Zenon, <3>1, InitTables
    <3>3. tab[m].version = VersionMod - 1
      BY Zenon, <1>3, <3>1
    <3> QED
      BY Zenon, <1>0, <3>2, <3>3 DEF Mirror, Pending
  <2> QED
    BY Zenon, <1>0, <1>3, <2>1 DEF VersionInv
<1> QED
  BY Zenon, <1>1, <1>4, <1>5, <1>6, <1>7, <1>8, <1>9, <1>10 DEF IInv

(* Every step of the driver, every fault and every power failure keeps the *)
(* inductive invariant.                                                    *)
LEMMA NextIInv ==
  ASSUME IInv, [Next]_vars
  PROVE  IInv'
<1> USE DEF IInv
<1>1. TypeOK'
  BY Zenon, TypedNext
<1>2. AskedInv'
  BY Zenon, <1>1, AskedNext
<1>3. RegionInv'
  BY Zenon, <1>1, <1>2, RegionNext
<1>4. HomeInv'
  BY Zenon, <1>1, <1>2, HomeNext
<1>5. MarkedInv'
  BY Zenon, <1>1, <1>2, MarkedNext
<1>6. CurrentInv'
  BY Zenon, <1>1, <1>2, CurrentNext
<1>7. WrittenInv'
  BY Zenon, WrittenNext
<1>8. VersionInv'
  BY Zenon, <1>1, <1>2, <1>4, VersionNext
<1> QED
  BY Zenon, <1>1, <1>2, <1>3, <1>4, <1>5, <1>6, <1>7, <1>8

(* The inductive invariant holds in every state.                           *)
LEMMA Always == Spec => []IInv
<1>1. Init => IInv
  BY Zenon, InitIInv
<1>2. IInv /\ [Next]_vars => IInv'
  BY Zenon, NextIInv
<1> QED
  BY <1>1, <1>2, PTL DEF Spec

-----------------------------------------------------------------------------
(* Types.                                                                  *)
THEOREM TypeCorrect == Spec => []TypeOK
<1>1. IInv => TypeOK
  BY Zenon DEF IInv
<1> QED
  BY <1>1, Always, PTL

(* A block marked by the manufacturer, or whose nand_block_markbad has     *)
(* returned 0, is bad in memory whenever the chip is in use, whatever      *)
(* power failures, resets, unreadable tables and failed writes there were, *)
(* and no block is bad that nobody asked to mark.                          *)
THEOREM MarkedStay == Spec => []MarkedStays
<1>1. IInv => MarkedStays
  <2> SUFFICES ASSUME IInv, pc = "idle" PROVE MarkedStays
    BY Zenon DEF MarkedStays
  <2>1. Only({"cut", "ecc", "flip", "fail"}) => NoIo
    BY Zenon DEF Only, FaultKinds, NoIo
  <2>2. NoIo => \A b \in acked : Bad(bbt[b])
    BY Zenon DEF IInv, MarkedInv, Working, BadIn
  <2>3. \A b \in Blocks : Bad(bbt[b]) => b \in asked
    BY Zenon DEF IInv, AskedInv, BadIn
  <2> QED
    BY Zenon, <2>1, <2>2, <2>3 DEF MarkedStays
<1> QED
  BY <1>1, Always, PTL

(* One power failure, anywhere in nand_update_bbt or in check_create,      *)
(* loses no block that is bad in a completely written main copy, across    *)
(* the wrap of the versions too.                                           *)
THEOREM WrittenStay == Spec => []WrittenStays
<1>1. IInv => WrittenStays
  <2> SUFFICES ASSUME IInv, pc = "idle", Only({"cut"}), faults["cut"] < 2
               PROVE  \A b \in wrote : Bad(bbt[b])
    BY Zenon DEF WrittenStays
  <2>1. OnlyCuts
    BY Zenon DEF Only, FaultKinds, OnlyCuts, NoFail, NoIo
  <2> QED
    BY Zenon, <2>1 DEF IInv, WrittenInv, Working, BadIn
<1> QED
  BY <1>1, Always, PTL

(* While no write fails, a scan or a marking that ends leaves in flash a   *)
(* main copy that can be read and equals the table in memory, and a mirror *)
(* in another block.                                                       *)
THEOREM MainCurrent == Spec => []MainIsCurrent
<1>1. IInv => MainIsCurrent
  <2> DEFINE S == {b \in Region : bbt[b] = 2}
  <2> SUFFICES ASSUME IInv, useFlash, Only({"cut", "ecc", "flip"}), pc = "idle", Cardinality(S) > 1
               PROVE  /\ tab[d["td"].block].ok /\ tab[d["td"].block].codes = Stored(bbt)
                      /\ \A k \in Kinds : tab[d[k].block].kind = k
    BY Zenon DEF MainIsCurrent
  <2>1. NoFail /\ NoIo
    BY Zenon DEF Only, FaultKinds, NoFail, NoIo
  <2>2. \A b \in Region : Bad(bbt[b]) <=> b \notin Good
    BY Zenon, <2>1, RegionBad DEF IInv, Working
  <2>3. S \subseteq Good
    BY SMTT(60), <2>2 DEF Bad
  <2> HIDE DEF S
  <2>4. \E b \in Blocks : IsNext(b)
    BY Zenon, <2>3, TwoGood DEF Home
  <2> QED
    BY ZenonT(60), <2>1, <2>4 DEF IInv, CurrentInv
<1> QED
  BY <1>1, Always, PTL
=============================================================================
