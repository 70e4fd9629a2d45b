---------------------------- MODULE EnvNandCopies ---------------------------
(***************************************************************************)
(* The inductive invariant behind EnvNandProofs, the step of type          *)
(* correctness, the lemmas about one copy of the environment (which blocks *)
(* it uses, when a boot reads it, which of two copies a boot takes), and   *)
(* the steps of saveenv up to a block written.                             *)
(***************************************************************************)
EXTENDS EnvNand, TLAPS

Succ(s) == (s + 1) % SerialMod

(* Copy c, when a boot reads it, is the environment loaded or saved last.  *)
Current(c) == EnvOf(flash, c) \in {0, saved}

(* Between two saveenvs env_valid is the newer copy.                       *)
IdleInv ==
  step = "idle" =>
    /\ Readable(flash, env_valid) =>
         Current(env_valid) /\ (Redundant => Serial(flash, env_valid) = env_flags)
    /\ Redundant /\ Readable(flash, Other(env_valid)) =>
         IF Readable(flash, env_valid)
         THEN Succ(Serial(flash, Other(env_valid))) = env_flags
         ELSE Current(Other(env_valid))

(* The copy saveenv does not work on: the one in use or, when this saveenv *)
(* has failed once, one that cannot be read.                               *)
OtherInv ==
  step # "idle" /\ Redundant =>
    IF second
    THEN copy = env_valid /\ ~Readable(flash, Other(copy))
    ELSE /\ copy = Other(env_valid)
         /\ Readable(flash, env_valid) =>
              Current(env_valid) /\ Succ(Serial(flash, env_valid)) = env_flags

(* Nothing was written to the copy yet.                                    *)
Before == step = "erase" \/ part = 1

(* The copy saveenv works on, when it can be read: what it was before, or  *)
(* the environment that is being saved.                                    *)
CopyInv ==
  step # "idle" /\ Readable(flash, copy) =>
    IF Before
    THEN IF Redundant /\ ~second /\ Readable(flash, env_valid)
         THEN Succ(Serial(flash, copy)) = Serial(flash, env_valid)
         ELSE Current(copy)
    ELSE EnvOf(flash, copy) = ram /\ Serial(flash, copy) = env_flags

(* The progress of nand_erase_opts and of writeenv.                        *)
EraseInv ==
  step = "erase" /\ clean =>
    \A b \in Blocks \ bad[copy] : b < block => flash[copy][b] = Erased

WriteInv ==
  step = "write" =>
    /\ part = PartOf(bad[copy], block - 1) + 1
    /\ \A b \in Blocks \ bad[copy] :
         /\ b < block => flash[copy][b] \in
              {Part(ram, PartOf(bad[copy], b), env_flags)} \cup (IF clean THEN {} ELSE {Junk})
         /\ b >= block /\ clean => flash[copy][b] = Erased

SureInv == sure => step = "idle" /\ Loaded(flash) = saved

IInv == TypeOK /\ IdleInv /\ OtherInv /\ CopyInv /\ EraseInv /\ WriteInv /\ SureInv

(* With two good copies and no failing block, saveenv never reaches for    *)
(* the copy in use.                                                        *)
BackedInv ==
  Backed =>
    /\ clean
    /\ step # "idle" => ~second
    /\ \A c \in Copies : Cardinality(bad[c]) <= MaxBad
    /\ ~Readable(flash, env_valid) =>
         IF step = "idle" THEN ~Readable(flash, Other(env_valid))
         ELSE Before => ~Readable(flash, copy)

(* What the lemmas use of natural numbers and finite sets.  They take it   *)
(* as a hypothesis, which EnvNandProofs discharges from the library.       *)
SetFacts ==
  /\ \A T \in SUBSET Nat : T # {} => \E x \in T : \A y \in T : x <= y
  /\ \A n \in Nat : IsFiniteSet(1..n) /\ Cardinality(1..n) = n
  /\ \A S, T : IsFiniteSet(S) /\ T \subseteq S =>
       IsFiniteSet(T) /\ Cardinality(T) \in Nat /\ Cardinality(T) <= Cardinality(S)
  /\ \A S, x : IsFiniteSet(S) /\ x \notin S => Cardinality(S \cup {x}) = Cardinality(S) + 1
  /\ \A S, T : IsFiniteSet(S) => Cardinality(S \ T) = Cardinality(S) - Cardinality(S \cap T)
  /\ Cardinality({}) = 0

-----------------------------------------------------------------------------
(* Blocks and parts                                                        *)

(* Every non-empty set of naturals has a least element.                    *)
LEMMA Least ==
  ASSUME SetFacts, NEW T, T \subseteq Nat, T # {}
  PROVE  \E x \in T : \A y \in T : x <= y
BY Zenon DEF SetFacts

(* The blocks up to n are n blocks.                                        *)
LEMMA Interval ==
  ASSUME SetFacts, NEW n \in Nat
  PROVE  IsFiniteSet(1..n) /\ Cardinality(1..n) = n
BY Zenon DEF SetFacts

(* A part of a finite set is finite and not larger.                        *)
LEMMA Subset ==
  ASSUME SetFacts, NEW S, NEW T, IsFiniteSet(S), T \subseteq S
  PROVE  IsFiniteSet(T) /\ Cardinality(T) \in Nat /\ Cardinality(T) <= Cardinality(S)
BY Zenon DEF SetFacts

(* A new element adds one.                                                 *)
LEMMA AddOne ==
  ASSUME SetFacts, NEW S, NEW x, IsFiniteSet(S), x \notin S
  PROVE  Cardinality(S \cup {x}) = Cardinality(S) + 1
BY Zenon DEF SetFacts

(* The size of a difference.                                               *)
LEMMA Difference ==
  ASSUME SetFacts, NEW S, NEW T, IsFiniteSet(S)
  PROVE  Cardinality(S \ T) = Cardinality(S) - Cardinality(S \cap T)
BY Zenon DEF SetFacts

(* The empty set has no elements.                                          *)
LEMMA Empty ==
  ASSUME SetFacts
  PROVE  Cardinality({}) = 0
BY Zenon DEF SetFacts

(* PartOf counts the good blocks up to b, one by one.                      *)
LEMMA PartOfStep ==
  ASSUME SetFacts, NEW B, NEW b \in Nat
  PROVE  /\ PartOf(B, b) \in Nat /\ PartOf(B, 0) = 0
         /\ b > 0 => PartOf(B, b) = PartOf(B, b - 1) + (IF b \in B THEN 0 ELSE 1)
<1> DEFINE G(n) == {d \in 1..n : d \notin B}
<1>1. ASSUME NEW n \in Nat PROVE IsFiniteSet(G(n)) /\ Cardinality(G(n)) \in Nat
  <2>1. IsFiniteSet(1..n)
    BY Zenon, Interval
  <2>2. G(n) \in SUBSET (1..n)
    BY Zenon
  <2> QED
    BY Zenon, <2>1, <2>2, Subset
<1>2. G(0) = {}
  OBVIOUS
<1>3. ASSUME b > 0, b \in B PROVE G(b) = G(b - 1)
  BY <1>3
<1>4. ASSUME b > 0, b \notin B
      PROVE  Cardinality(G(b)) = Cardinality(G(b - 1)) + 1
  <2>1. G(b) = G(b - 1) \cup {b} /\ b \notin G(b - 1) /\ b - 1 \in Nat
    BY <1>4
  <2>2. IsFiniteSet(G(b - 1))
    BY Zenon, <1>1, <2>1
  <2>3. Cardinality(G(b - 1) \cup {b}) = Cardinality(G(b - 1)) + 1
    BY Zenon, <2>1, <2>2, AddOne
  <2> QED
    BY Zenon, <2>1, <2>3
<1> QED
  BY <1>1, <1>2, <1>3, <1>4, Empty DEF PartOf

(* ... so it never goes down, and a good block has a part of its own.      *)
LEMMA PartOfMono ==
  ASSUME SetFacts, NEW B, NEW a \in Nat, NEW b \in Nat, a <= b
  PROVE  /\ PartOf(B, a) <= PartOf(B, b)
         /\ a < b /\ b \notin B => PartOf(B, a) < PartOf(B, b)
<1>1. ASSUME NEW n \in Nat, a <= n PROVE PartOf(B, a) <= PartOf(B, n)
  <2> DEFINE G(m) == {d \in 1..m : d \notin B}
  <2>1. IsFiniteSet(1..n) /\ G(n) \in SUBSET (1..n)
    BY Zenon, Interval
  <2>2. IsFiniteSet(G(n))
    BY Zenon, <2>1, Subset
  <2>3. G(a) \in SUBSET G(n)
    BY <1>1
  <2>4. Cardinality(G(a)) <= Cardinality(G(n))
    BY Zenon, <2>2, <2>3, Subset
  <2> QED
    BY Zenon, <2>4 DEF PartOf
<1>2. ASSUME a < b, b \notin B PROVE PartOf(B, a) < PartOf(B, b)
  <2>1. b - 1 \in Nat /\ a <= b - 1 /\ b > 0
    BY <1>2
  <2>2. PartOf(B, a) <= PartOf(B, b - 1)
    BY Zenon, <1>1, <2>1
  <2>3. PartOf(B, b) = PartOf(B, b - 1) + 1
    BY Zenon, <1>2, <2>1, PartOfStep
  <2>4. PartOf(B, a) \in Nat /\ PartOf(B, b - 1) \in Nat
    BY Zenon, <2>1, PartOfStep
  <2> QED
    BY <2>2, <2>3, <2>4
<1> QED
  BY Zenon, <1>1, <1>2

-----------------------------------------------------------------------------
(* Readable copies                                                         *)

Flash == [Copies -> [Blocks -> Content]]

(* The builds the model is about.                                          *)
LEMMA SetupFacts ==
  ASSUME setup \in Setups
  PROVE  /\ EnvBlocks \in Nat \ {0} /\ RangeBlocks \in Nat /\ EnvBlocks <= RangeBlocks
         /\ Copies = {1} \/ Copies = {1, 2}
         /\ Redundant <=> Copies = {1, 2}
         /\ MaxBad \in Nat /\ MaxFaults \in Nat
         /\ SerialMod \in Nat /\ SerialMod > 2 /\ MaxEnv \in Nat
<1>1. /\ setup.copies \in {{1}, {1, 2}}
      /\ setup.env \in Nat \ {0} /\ setup.range \in Nat /\ setup.env <= setup.range
      /\ setup.bad \in Nat /\ setup.faulty \in Nat
      /\ SerialMod \in Nat /\ SerialMod > 2 /\ MaxEnv \in Nat
  BY Zenon, EnvAssumption
<1> QED
  BY Zenon, <1>1 DEF EnvBlocks, RangeBlocks, Copies, Redundant, MaxBad, MaxFaults

(* The build and the bad blocks never change.                              *)
LEMMA SetupKept ==
  ASSUME [Next]_vars
  PROVE  UNCHANGED <<setup, bad>> /\ Backed' = Backed /\ MaxBad' = MaxBad
<1>1. UNCHANGED <<setup, bad>>
  BY Zenon DEF Next, vars, SetEnv, SaveBegin, SaveStep, EraseBlock, EraseDone, WriteBlock,
     WriteFails,
     WriteShort, WriteDone, Reset, PowerCut, PowerOn, Rest
<1> QED
  BY Zenon, <1>1 DEF Backed, MaxBad, Redundant, Faults, EnvBlocks, RangeBlocks, Copies

(* Only setenv and a boot change the environment in memory.                *)
LEMMA RamKept ==
  ASSUME Next, ram' # ram
  PROVE  SetEnv \/ Reset \/ PowerCut
BY Zenon DEF Next, SaveStep, SaveBegin, EraseBlock, EraseDone, WriteBlock, WriteFails, WriteShort,
   WriteDone, Rest

(* The types of the variables, with the facts about the build.             *)
LEMMA Typing ==
  ASSUME TypeOK
  PROVE  /\ setup \in Setups /\ flash \in Flash /\ bad \in [Copies -> SUBSET Blocks]
         /\ ram \in 0..MaxEnv /\ saved \in 0..MaxEnv /\ envs \in 0..MaxEnv
         /\ env_valid \in Copies /\ env_flags \in 0..(SerialMod - 1)
         /\ step \in {"idle", "erase", "write"} /\ copy \in Copies
         /\ block \in 1..(RangeBlocks + 1) /\ part \in 1..(EnvBlocks + 1)
         /\ faults \in 0..MaxFaults
         /\ EnvBlocks \in Nat \ {0} /\ RangeBlocks \in Nat /\ EnvBlocks <= RangeBlocks
         /\ Copies = {1} \/ Copies = {1, 2}
         /\ Redundant <=> Copies = {1, 2}
         /\ MaxBad \in Nat /\ MaxFaults \in Nat
         /\ SerialMod \in Nat /\ SerialMod > 2 /\ MaxEnv \in Nat
<1>1. setup \in Setups
  BY Zenon DEF TypeOK
<1> QED
  BY Zenon, <1>1, SetupFacts DEF TypeOK, Flash

(* setenv makes a new environment.                                         *)
LEMMA SetEnvCounts ==
  ASSUME TypeOK, SetEnv
  PROVE  envs' # envs
<1>1. envs \in Nat
  BY Typing
<1> QED
  BY <1>1 DEF SetEnv

(* The conjuncts of the inductive invariant.                               *)
LEMMA Conjuncts ==
  ASSUME IInv
  PROVE  TypeOK /\ IdleInv /\ OtherInv /\ CopyInv /\ EraseInv /\ WriteInv /\ SureInv
BY Zenon DEF IInv

(* The block with crc and flags is the first good one.                     *)
LEMMA FirstUsed ==
  ASSUME SetFacts, TypeOK, NEW c \in Copies, Used(c) # {}
  PROVE  /\ FirstBlock(Used(c), bad[c]) \in Used(c)
         /\ PartOf(bad[c], FirstBlock(Used(c), bad[c])) = 1
<1> DEFINE B == bad[c]
<1>1. EnvBlocks \in Nat \ {0} /\ RangeBlocks \in Nat
  BY Zenon, Typing
<1>2. Used(c) \subseteq Nat
  BY <1>1 DEF Used, Blocks
<1>3. PICK m \in Used(c) : \A y \in Used(c) : m <= y
  BY Zenon, <1>2, Least
<1>4. m \in 1..RangeBlocks /\ m \notin B /\ PartOf(B, m) <= EnvBlocks
  BY Zenon, <1>3 DEF Used, Blocks
<1>5. ASSUME NEW d \in 1..(m - 1) PROVE d \in B
  <2> SUFFICES ASSUME d \notin B PROVE FALSE
    BY Zenon
  <2>1. d \in Nat /\ m \in Nat /\ d < m /\ d \in 1..RangeBlocks
    BY <1>1, <1>4
  <2>2. PartOf(B, d) < PartOf(B, m) /\ PartOf(B, d) \in Nat /\ PartOf(B, m) \in Nat
    BY SMTT(60), <1>4, <2>1, PartOfMono, PartOfStep
  <2>3. d \in Used(c)
    BY <1>1, <1>4, <2>1, <2>2 DEF Used, Blocks
  <2> QED
    BY <1>3, <2>1, <2>3
<1>6. {d \in 1..(m - 1) : d \notin B} = {}
  BY Zenon, <1>5
<1>7. PartOf(B, m - 1) = 0
  BY Zenon, <1>6, Empty DEF PartOf
<1>8. PartOf(B, m) = 1
  BY <1>1, <1>4, <1>7, PartOfStep
<1> QED
  BY Zenon, <1>3, <1>8 DEF FirstBlock

(* A copy that can be read has its first block, with a serial.             *)
LEMMA ReadableFirst ==
  ASSUME SetFacts, TypeOK, NEW c \in Copies, NEW fl \in Flash, Readable(fl, c)
  PROVE  /\ FirstBlock(Used(c), bad[c]) \in Used(c)
         /\ PartOf(bad[c], FirstBlock(Used(c), bad[c])) = 1
         /\ Serial(fl, c) \in 0..(SerialMod - 1) /\ EnvOf(fl, c) \in 0..MaxEnv
<1>1. Used(c) # {}
  <2> SUFFICES ASSUME Used(c) = {} PROVE FALSE
    BY Zenon
  <2>1. Cardinality(Used(c)) = 0
    BY Zenon, Empty
  <2> QED
    BY Zenon, <2>1, Typing DEF Readable
<1>2. /\ FirstBlock(Used(c), bad[c]) \in Used(c)
      /\ PartOf(bad[c], FirstBlock(Used(c), bad[c])) = 1
  BY Zenon, <1>1, FirstUsed
<1>3. FirstBlock(Used(c), bad[c]) \in Blocks
  BY Zenon, <1>2 DEF Used
<1>4. fl[c][FirstBlock(Used(c), bad[c])] \in Content
  BY Zenon, <1>3 DEF Flash
<1> QED
  BY Zenon, <1>2, <1>4 DEF Serial, EnvOf, Content

(* Only the blocks in use matter.                                          *)
LEMMA SameCopy ==
  ASSUME SetFacts, TypeOK, NEW c \in Copies, NEW fl \in Flash, NEW fl2 \in Flash,
         \A b \in Used(c) : fl2[c][b] = fl[c][b], Readable(fl2, c)
  PROVE  Readable(fl, c) /\ EnvOf(fl2, c) = EnvOf(fl, c) /\ Serial(fl2, c) = Serial(fl, c)
<1>1. FirstBlock(Used(c), bad[c]) \in Used(c)
  BY Zenon, ReadableFirst
<1>2. EnvOf(fl2, c) = EnvOf(fl, c) /\ Serial(fl2, c) = Serial(fl, c)
  BY Zenon, <1>1 DEF EnvOf, Serial
<1> QED
  BY Zenon, <1>2 DEF Readable

(* Block b of copy c was erased, or its write did not complete.            *)
Spoils(fl, c, b) ==
  /\ fl[c][b] \in {Erased, Junk}
  /\ \A d \in Copies, e \in Blocks : d # c \/ e # b => fl[d][e] = flash[d][e]

(* A block that was erased, or cut off in the middle of a write, can make  *)
(* a copy unreadable and does nothing else.                                *)
LEMMA Spoiled ==
  ASSUME SetFacts, TypeOK, NEW c \in Copies, NEW b \in Blocks \ bad[c],
         NEW fl \in Flash, Spoils(fl, c, b), NEW d \in Copies
  PROVE  /\ Readable(fl, d) => /\ Readable(flash, d) /\ EnvOf(fl, d) = EnvOf(flash, d)
                               /\ Serial(fl, d) = Serial(flash, d)
         /\ Readable(flash, d) /\ (d # c \/ b \notin Used(c)) => Readable(fl, d)
         /\ b \in Used(c) => ~Readable(fl, c)
<1>1. flash \in Flash
  BY Zenon, Typing
<1>2. \A e \in Blocks : (d # c \/ e # b) => fl[d][e] = flash[d][e]
  BY Zenon DEF Spoils
<1>3. Used(d) \subseteq Blocks
  BY Zenon DEF Used
<1>4. ASSUME b \in Used(c) PROVE ~Readable(fl, c)
  <2>1. PartOf(bad[c], b) <= EnvBlocks /\ b \in Nat /\ b > 0 /\ b \notin bad[c]
        /\ EnvBlocks \in Nat
    BY <1>4, Typing DEF Used, Blocks
  <2>2. PartOf(bad[c], b) = PartOf(bad[c], b - 1) + 1 /\ PartOf(bad[c], b - 1) \in Nat
    BY <2>1, PartOfStep
  <2>3. fl[c][b].part # PartOf(bad[c], b)
    BY <2>1, <2>2 DEF Spoils, Erased, Junk
  <2> QED
    BY Zenon, <1>4, <2>3 DEF Readable
<1>5. CASE d # c \/ b \notin Used(c)
  <2>1. \A e \in Used(d) : fl[d][e] = flash[d][e]
    BY Zenon, <1>2, <1>3, <1>5
  <2>2. Readable(fl, d) => /\ Readable(flash, d) /\ EnvOf(fl, d) = EnvOf(flash, d)
                           /\ Serial(fl, d) = Serial(flash, d)
    BY Zenon, <1>1, <2>1, SameCopy
  <2>3. Readable(flash, d) => Readable(fl, d)
    BY Zenon, <1>1, <2>1, SameCopy
  <2> QED
    BY Zenon, <1>4, <2>2, <2>3
<1> QED
  BY Zenon, <1>4, <1>5

(* env_relocate_spec takes the copy whose serial is the successor of the   *)
(* other's, also when it has wrapped to 0.                                 *)
LEMMA ChosenNewest ==
  ASSUME SetFacts, TypeOK, NEW fl \in Flash, NEW c \in Copies, Readable(fl, c),
         Redundant /\ Readable(fl, Other(c)) => Succ(Serial(fl, Other(c))) = Serial(fl, c)
  PROVE  Chosen(fl) = c /\ Loaded(fl) = EnvOf(fl, c)
<1>1. SerialMod \in Nat /\ SerialMod > 2 /\ (Copies = {1} \/ Copies = {1, 2})
      /\ (Redundant <=> Copies = {1, 2})
  BY Zenon, Typing
<1>2. Chosen(fl) = c
  <2>1. CASE ~Redundant
    BY <1>1, <2>1 DEF Chosen
  <2>2. CASE Redundant /\ ~Readable(fl, Other(c))
    BY <1>1, <2>2 DEF Chosen, Other
  <2>3. CASE Redundant /\ Readable(fl, Other(c))
    <3>1. 1 \in Copies /\ 2 \in Copies /\ c \in {1, 2} /\ Other(c) = 3 - c
      BY Zenon, <1>1, <2>3 DEF Other
    <3>2. Readable(fl, 1) /\ Readable(fl, 2)
      BY <2>3, <3>1
    <3>3. Serial(fl, 1) \in 0..(SerialMod - 1) /\ Serial(fl, 2) \in 0..(SerialMod - 1)
      BY Zenon, <3>1, <3>2, ReadableFirst
    <3>4. \A t \in 0..(SerialMod - 1) :
            Succ(t) = IF t = SerialMod - 1 THEN 0 ELSE t + 1
      BY <1>1 DEF Succ
    <3>5. CASE c = 1
      <4>1. Succ(Serial(fl, 2)) = Serial(fl, 1)
        BY <2>3, <3>1, <3>5
      <4> QED
        BY <1>1, <2>3, <3>1, <3>2, <3>3, <3>4, <3>5, <4>1 DEF Chosen
    <3>6. CASE c = 2
      <4>1. Succ(Serial(fl, 1)) = Serial(fl, 2)
        BY <2>3, <3>1, <3>6
      <4> QED
        BY <1>1, <2>3, <3>1, <3>2, <3>3, <3>4, <3>6, <4>1 DEF Chosen
    <3> QED
      BY Zenon, <3>1, <3>5, <3>6
  <2> QED
    BY Zenon, <2>1, <2>2, <2>3
<1> QED
  BY <1>1, <1>2 DEF Loaded

(* env_relocate_spec with no readable copy falls back to the default       *)
(* environment.                                                            *)
LEMMA ChosenNone ==
  ASSUME NEW fl, \A c \in Copies : ~Readable(fl, c)
  PROVE  Chosen(fl) = 0 /\ Loaded(fl) = 0
  BY Zenon DEF Chosen, Loaded

(* The bad blocks and the build stay the same, so that what can be read in *)
(* the next state depends on the flash alone.                              *)
LEMMA Stable ==
  ASSUME UNCHANGED <<setup, bad>>
  PROVE  /\ Copies' = Copies /\ EnvBlocks' = EnvBlocks /\ RangeBlocks' = RangeBlocks
         /\ Redundant' = Redundant /\ Blocks' = Blocks /\ Junk' = Junk
         /\ \A c : /\ Readable(flash, c)' = Readable(flash', c)
                   /\ EnvOf(flash, c)' = EnvOf(flash', c)
                   /\ Serial(flash, c)' = Serial(flash', c)
         /\ Chosen(flash)' = Chosen(flash') /\ Loaded(flash)' = Loaded(flash')
<1>1. /\ Copies' = Copies /\ EnvBlocks' = EnvBlocks /\ RangeBlocks' = RangeBlocks
      /\ Redundant' = Redundant /\ Blocks' = Blocks /\ Junk' = Junk
  BY Zenon DEF Copies, EnvBlocks, RangeBlocks, Redundant, Blocks, Junk
<1>2. \A c : Used(c)' = Used(c)
  BY Zenon, <1>1 DEF Used
<1>3. \A c : /\ EnvOf(flash, c)' = EnvOf(flash', c)
             /\ Serial(flash, c)' = Serial(flash', c)
  BY Zenon, <1>2 DEF EnvOf, Serial
<1>4. \A c : Readable(flash, c)' = Readable(flash', c)
  BY Zenon, <1>1, <1>2, <1>3 DEF Readable
<1>5. Chosen(flash)' = Chosen(flash')
  BY <1>1, <1>3, <1>4 DEF Chosen
<1> QED
  BY Zenon, <1>1, <1>3, <1>4, <1>5 DEF Loaded

-----------------------------------------------------------------------------
(* Type correctness                                                        *)

(* The flags of saveenv stay truth values.                                 *)
LEMMA FlagsTyped ==
  ASSUME FlagsOK, [Next]_vars
  PROVE  FlagsOK'
  BY Zenon DEF FlagsOK, Next, vars, saveVars, SetEnv, SaveBegin, SaveStep, EraseBlock,
     EraseDone, WriteBlock, WriteFails, WriteShort, WriteDone, Failed, NextBlock, Reset,
     PowerCut, PowerOn

(* env_relocate_spec loads from a copy that it could read.                 *)
LEMMA ChosenTyped ==
  ASSUME TypeOK, NEW fl \in Flash, Chosen(fl) # 0
  PROVE  /\ Chosen(fl) \in Copies /\ Readable(fl, Chosen(fl))
         /\ Loaded(fl) = EnvOf(fl, Chosen(fl))
<1>1. (Copies = {1} \/ Copies = {1, 2}) /\ (Redundant <=> Copies = {1, 2})
  BY Zenon, Typing
<1>2. Chosen(fl) \in Copies /\ Readable(fl, Chosen(fl))
  BY Zenon, <1>1 DEF Chosen
<1> QED
  BY Zenon, <1>2 DEF Loaded

(* What the step changes is well typed, and so is the rest.                *)
LEMMA TypedNext ==
  ASSUME TypeOK, UNCHANGED <<setup, bad>>, [Next]_vars, flash' \in Flash,
         ram' \in 0..MaxEnv, saved' \in 0..MaxEnv, envs' \in 0..MaxEnv,
         env_valid' \in Copies, env_flags' \in 0..(SerialMod - 1),
         step' \in {"idle", "erase", "write"}, copy' \in Copies,
         block' \in 1..(RangeBlocks + 1), part' \in 1..(EnvBlocks + 1),
         faults' \in 0..MaxFaults
  PROVE  TypeOK'
<1>1. FlagsOK'
  BY Zenon, FlagsTyped DEF TypeOK
<1>2. /\ Copies' = Copies /\ EnvBlocks' = EnvBlocks /\ RangeBlocks' = RangeBlocks
      /\ Blocks' = Blocks
  BY Zenon, Stable
<1>3. MaxFaults' = MaxFaults /\ Content' = Content
  BY Zenon, <1>2 DEF MaxFaults, Content
<1> QED
  BY Zenon, <1>1, <1>2, <1>3 DEF TypeOK, Flash

(* A boot after a cut or a reset leaves a well-typed state.                *)
LEMMA PowerOnTyped ==
  ASSUME SetFacts, TypeOK, [Next]_vars, NEW fl \in Flash, PowerOn(fl), faults' \in 0..MaxFaults
  PROVE  TypeOK'
<1>1. Loaded(fl) \in 0..MaxEnv
  <2>1. CASE Chosen(fl) = 0
    BY <2>1, Typing DEF Loaded
  <2>2. CASE Chosen(fl) # 0
    BY Zenon, <2>2, ChosenTyped, ReadableFirst
  <2> QED
    BY Zenon, <2>1, <2>2
<1>2. env_valid' \in Copies /\ env_flags' \in 0..(SerialMod - 1)
  <2>1. 1 \in Copies /\ 0 \in 0..(SerialMod - 1)
    BY Typing
  <2>2. CASE Redundant /\ Chosen(fl) # 0
    BY Zenon, <2>2, ChosenTyped, ReadableFirst DEF PowerOn
  <2>3. CASE ~(Redundant /\ Chosen(fl) # 0)
    BY Zenon, <2>1, <2>3 DEF PowerOn
  <2> QED
    BY Zenon, <2>2, <2>3
<1>3. /\ UNCHANGED <<setup, bad>> /\ flash' \in Flash /\ ram' \in 0..MaxEnv
      /\ saved' \in 0..MaxEnv /\ envs' \in 0..MaxEnv /\ step' \in {"idle", "erase", "write"}
      /\ copy' \in Copies /\ block' \in 1..(RangeBlocks + 1) /\ part' \in 1..(EnvBlocks + 1)
  BY Zenon, <1>1, Typing DEF PowerOn
<1> QED
  BY Zenon, <1>2, <1>3, TypedNext

(* The state after power-on is well typed.                                 *)
LEMMA TypeInit == Init => TypeOK
<1> SUFFICES ASSUME Init PROVE TypeOK
  BY Zenon
<1>1. /\ EnvBlocks \in Nat \ {0} /\ RangeBlocks \in Nat /\ 1 \in Copies
      /\ MaxFaults \in Nat /\ SerialMod \in Nat /\ SerialMod > 2 /\ MaxEnv \in Nat
  BY Zenon, SetupFacts DEF Init
<1>2. Erased \in Content
  BY <1>1 DEF Erased, Content
<1>3. flash \in [Copies -> [Blocks -> Content]]
  BY Zenon, <1>2 DEF Init
<1>4. FlagsOK
  BY Zenon DEF Init, FlagsOK
<1>5. bad \in [Copies -> SUBSET Blocks]
  BY Zenon DEF Init
<1> QED
  BY <1>1, <1>3, <1>4, <1>5 DEF Init, TypeOK

(* Every step keeps the state well typed: a boot takes only serials and    *)
(* environments that were written, and part never passes EnvBlocks + 1.    *)
LEMMA TypedStep ==
  ASSUME SetFacts, TypeOK, [Next]_vars
  PROVE  TypeOK'
<1>0. /\ EnvBlocks \in Nat \ {0} /\ RangeBlocks \in Nat /\ (Redundant <=> Copies = {1, 2})
      /\ (Copies = {1} \/ Copies = {1, 2})
      /\ MaxFaults \in Nat /\ SerialMod \in Nat /\ SerialMod > 2 /\ MaxEnv \in Nat
  BY Zenon, Typing
<1>1. /\ flash \in Flash /\ ram \in 0..MaxEnv /\ saved \in 0..MaxEnv /\ envs \in 0..MaxEnv
      /\ env_valid \in Copies /\ env_flags \in 0..(SerialMod - 1)
      /\ step \in {"idle", "erase", "write"} /\ copy \in Copies
      /\ block \in 1..(RangeBlocks + 1) /\ part \in 1..(EnvBlocks + 1)
      /\ faults \in 0..MaxFaults
  BY Zenon, Typing
<1>2. Erased \in Content /\ Junk \in Content
  BY <1>0 DEF Erased, Junk, Content
<1>3. ASSUME NEW x \in Content PROVE [flash EXCEPT ![copy][block] = x] \in Flash
  BY Zenon, <1>1 DEF Flash
<1>4. \A c \in Copies : Redundant => Other(c) \in Copies
  BY <1>0 DEF Other
<1>5. ASSUME Failed PROVE /\ copy' \in Copies /\ step' \in {"idle", "erase", "write"}
                          /\ block' \in 1..(RangeBlocks + 1)
                          /\ part' \in 1..(EnvBlocks + 1)
  BY <1>0, <1>1, <1>4, <1>5 DEF Failed
<1>6. CASE SetEnv
  <2>1. envs' \in 0..MaxEnv /\ ram' \in 0..MaxEnv
    BY <1>0, <1>1, <1>6 DEF SetEnv
  <2> QED
    BY Zenon, <1>1, <1>6, <2>1, TypedNext DEF SetEnv, saveVars
<1>7. CASE SaveBegin
  <2>1. /\ env_flags' \in 0..(SerialMod - 1) /\ copy' \in Copies
        /\ block' \in 1..(RangeBlocks + 1) /\ part' \in 1..(EnvBlocks + 1)
    BY <1>0, <1>1, <1>7 DEF SaveBegin
  <2> QED
    BY Zenon, <1>1, <1>7, <2>1, TypedNext DEF SaveBegin
<1>8. CASE EraseBlock
  <2>1. flash' \in Flash /\ block' \in 1..(RangeBlocks + 1)
    BY <1>0, <1>1, <1>2, <1>3, <1>8 DEF EraseBlock, Put, NextBlock
  <2>2. faults' \in 0..MaxFaults
    BY <1>0, <1>1, <1>8 DEF EraseBlock, Fault
  <2>3. UNCHANGED <<setup, bad, ram, env_flags, envs, copy, step, part, env_valid, saved>>
    BY Zenon, <1>8 DEF EraseBlock, NextBlock, Rest
  <2> QED
    BY Zenon, <1>1, <2>1, <2>2, <2>3, TypedNext
<1>9. CASE EraseDone
  <2>1. block' \in 1..(RangeBlocks + 1) /\ part' \in 1..(EnvBlocks + 1)
    BY <1>0, <1>9 DEF EraseDone
  <2> QED
    BY Zenon, <1>1, <1>9, <2>1, TypedNext DEF EraseDone, Rest
<1>10. CASE WriteBlock
  <2>1. Part(ram, part, env_flags) \in Content
    BY <1>0, <1>1 DEF Part, Content
  <2>2. flash' \in Flash
    BY Zenon, <1>1, <1>2, <1>3, <1>10, <2>1 DEF WriteBlock, Put
  <2>3. block' \in 1..(RangeBlocks + 1) /\ part' \in 1..(EnvBlocks + 1)
    BY <1>0, <1>1, <1>10 DEF WriteBlock, Writing, NextBlock
  <2> QED
    BY Zenon, <1>1, <1>10, <2>2, <2>3, TypedNext DEF WriteBlock, NextBlock, Rest
<1>11. CASE WriteFails
  <2>1. flash' \in Flash
    BY Zenon, <1>2, <1>3, <1>11 DEF WriteFails, Put
  <2>2. faults' \in 0..MaxFaults
    BY <1>0, <1>1, <1>11 DEF WriteFails, Fault
  <2> QED
    BY Zenon, <1>1, <1>5, <1>11, <2>1, <2>2, TypedNext DEF WriteFails, Rest
<1>12. CASE WriteShort
  BY Zenon, <1>1, <1>5, <1>12, TypedNext DEF WriteShort, Rest
<1>13. CASE WriteDone
  <2>1. Loaded(flash) \in 0..MaxEnv
    <3>1. CASE Chosen(flash) = 0
      BY <1>0, <3>1 DEF Loaded
    <3>2. CASE Chosen(flash) # 0
      BY Zenon, <1>1, <3>2, ChosenTyped, ReadableFirst
    <3> QED
      BY Zenon, <3>1, <3>2
  <2>2. saved' \in 0..MaxEnv
    BY Zenon, <1>1, <1>13, <2>1 DEF WriteDone
  <2>3. env_valid' \in Copies
    BY Zenon, <1>1, <1>4, <1>13 DEF WriteDone
  <2> QED
    BY Zenon, <1>1, <1>13, <2>2, <2>3, TypedNext DEF WriteDone, Rest
<1>14. CASE Reset
  BY Zenon, <1>1, <1>14, PowerOnTyped DEF Reset
<1>15. CASE PowerCut
  <2>1. faults' \in 0..MaxFaults
    BY <1>0, <1>1, <1>15 DEF PowerCut, Fault
  <2>2. PICK fl \in {flash} \cup {[flash EXCEPT ![copy][b] = Junk] :
                                    b \in {block} \cap (Blocks \ bad[copy])} : PowerOn(fl)
    BY Zenon, <1>15 DEF PowerCut
  <2>3. fl \in Flash
    BY Zenon, <1>1, <1>2, <1>3, <2>2
  <2> QED
    BY Zenon, <2>1, <2>2, <2>3, PowerOnTyped
<1>16. CASE UNCHANGED vars
  BY Zenon, <1>1, <1>16, TypedNext DEF vars, saveVars
<1> QED
  BY Zenon, <1>6, <1>7, <1>8, <1>9, <1>10, <1>11, <1>12, <1>13, <1>14, <1>15, <1>16
     DEF Next, SaveStep

-----------------------------------------------------------------------------
(* What writeenv leaves                                                    *)

(* The serial and the environment of a copy whose first part was written.  *)
LEMMA WrittenCopy ==
  ASSUME SetFacts, TypeOK, NEW c \in Copies, NEW fl \in Flash, NEW n \in Nat \ {0}, NEW e, NEW f,
         \A b \in Blocks \ bad[c] :
           b < n => fl[c][b] \in {Part(e, PartOf(bad[c], b), f), Junk},
         PartOf(bad[c], n - 1) >= 1, Readable(fl, c)
  PROVE  EnvOf(fl, c) = e /\ Serial(fl, c) = f
<1> DEFINE B == bad[c]
           k == FirstBlock(Used(c), B)
<1>1. k \in Used(c) /\ PartOf(B, k) = 1
  BY Zenon, ReadableFirst
<1>2. k \in Blocks \ B /\ k \in Nat /\ k \notin B
  BY SMTT(60), <1>1, Typing DEF Used, Blocks
<1>3. k < n
  <2> SUFFICES ASSUME ~(k < n) PROVE FALSE
    BY Zenon
  <2>1. n - 1 \in Nat /\ n - 1 < k
    BY <1>2
  <2>2. PartOf(B, n - 1) < PartOf(B, k) /\ PartOf(B, n - 1) \in Nat
    BY <1>2, <2>1, PartOfMono, PartOfStep
  <2> QED
    BY <1>1, <2>2
<1>4. fl[c][k] \in {Part(e, 1, f), Junk}
  BY Zenon, <1>1, <1>2, <1>3
<1>5. fl[c][k].part = 1
  BY Zenon, <1>1 DEF Readable
<1>6. Junk.part # 1
  BY Typing DEF Junk
<1>7. fl[c][k] = Part(e, 1, f)
  BY Zenon, <1>4, <1>5, <1>6
<1> QED
  BY <1>7 DEF EnvOf, Serial, Part

(* When EnvBlocks parts have been written, the copy can be read.           *)
LEMMA CompleteCopy ==
  ASSUME SetFacts, TypeOK, NEW c \in Copies, NEW fl \in Flash, NEW n \in 1..(RangeBlocks + 1),
         NEW e, NEW f,
         \A b \in Blocks \ bad[c] : b < n => fl[c][b] = Part(e, PartOf(bad[c], b), f),
         PartOf(bad[c], n - 1) = EnvBlocks
  PROVE  Readable(fl, c)
<1> DEFINE B == bad[c]
<1>0. EnvBlocks \in Nat \ {0} /\ RangeBlocks \in Nat /\ n \in Nat /\ n - 1 \in Nat
  BY Typing
<1>1. ASSUME NEW b \in Used(c) PROVE b < n /\ b \in Blocks \ B
  <2>1. b \in Blocks \ B /\ b \in Nat /\ b \notin B /\ PartOf(B, b) <= EnvBlocks
    BY <1>0 DEF Used, Blocks
  <2> SUFFICES ASSUME ~(b < n) PROVE FALSE
    BY Zenon, <2>1
  <2>2. n - 1 < b
    BY <1>0, <2>1
  <2>3. PartOf(B, n - 1) < PartOf(B, b) /\ PartOf(B, b) \in Nat
    BY SMTT(60), <1>0, <2>1, <2>2, PartOfMono, PartOfStep
  <2> QED
    BY <1>0, <2>1, <2>3
<1>2. ASSUME NEW b \in 1..(n - 1), b \notin B PROVE b \in Used(c)
  <2>1. b \in Nat /\ b <= n - 1 /\ b \in Blocks \ B
    BY <1>0, <1>2 DEF Blocks
  <2>2. PartOf(B, b) <= PartOf(B, n - 1)
    BY Zenon, <1>0, <2>1, PartOfMono
  <2> QED
    BY Zenon, <2>1, <2>2 DEF Used
<1>3. Used(c) = {d \in 1..(n - 1) : d \notin B}
  BY <1>0, <1>1, <1>2 DEF Blocks
<1>4. Cardinality(Used(c)) = EnvBlocks
  BY Zenon, <1>3 DEF PartOf
<1>5. Used(c) # {}
  BY Zenon, <1>0, <1>4, Empty
<1>6. FirstBlock(Used(c), B) \in Used(c)
  BY Zenon, <1>5, FirstUsed
<1>7. \A b \in Used(c) : fl[c][b] = Part(e, PartOf(B, b), f)
  BY Zenon, <1>1
<1> HIDE DEF B
<1>8. ASSUME NEW b \in Used(c) PROVE fl[c][b].env = e /\ fl[c][b].part = PartOf(B, b)
  <2>1. fl[c][b] = Part(e, PartOf(B, b), f)
    BY Zenon, <1>7
  <2> QED
    BY <2>1 DEF Part
<1>9. EnvOf(fl, c) = e
  BY Zenon, <1>6, <1>8 DEF EnvOf, B
<1> QED
  BY Zenon, <1>4, <1>8, <1>9 DEF Readable, B

(* A copy with too few good blocks is never readable.                      *)
LEMMA ShortCopy ==
  ASSUME SetFacts, TypeOK, NEW c \in Copies, NEW fl, PartOf(bad[c], RangeBlocks) < EnvBlocks
  PROVE  ~Readable(fl, c)
<1> DEFINE B == bad[c]
<1>0. EnvBlocks \in Nat \ {0} /\ RangeBlocks \in Nat
  BY Zenon, Typing
<1>1. ASSUME NEW b \in Blocks \ B PROVE b \in Used(c)
  <2>1. b \in Nat /\ b <= RangeBlocks
    BY <1>0 DEF Blocks
  <2>2. /\ PartOf(B, b) <= PartOf(B, RangeBlocks)
        /\ PartOf(B, b) \in Nat /\ PartOf(B, RangeBlocks) \in Nat
    BY Zenon, <1>0, <2>1, PartOfMono, PartOfStep
  <2> QED
    BY <1>0, <2>2 DEF Used
<1>2. Used(c) = {d \in 1..RangeBlocks : d \notin B}
  BY Zenon, <1>1 DEF Used, Blocks
<1>3. Cardinality(Used(c)) = PartOf(B, RangeBlocks)
  BY Zenon, <1>2 DEF PartOf
<1> QED
  BY <1>0, <1>3, PartOfStep DEF Readable

-----------------------------------------------------------------------------
(* The invariant and a boot                                                *)

(* A flash as the running saveenv may leave it when the power fails: the   *)
(* copy in hand may have become unreadable.                                *)
Degraded(fl) ==
  /\ fl \in Flash
  /\ \A d \in Copies :
       /\ Readable(fl, d) => /\ Readable(flash, d) /\ EnvOf(fl, d) = EnvOf(flash, d)
                             /\ Serial(fl, d) = Serial(flash, d)
       /\ Readable(flash, d) /\ (d # copy \/ step = "idle") => Readable(fl, d)

(* With CONFIG_ENV_OFFSET_REDUND there are two copies, and saveenv         *)
(* switches between them.                                                  *)
LEMMA Others ==
  ASSUME TypeOK, Redundant, NEW c \in Copies
  PROVE  /\ Copies = {1, 2} /\ Other(c) \in Copies /\ Other(c) # c /\ Other(Other(c)) = c
         /\ \A d \in Copies : d = c \/ d = Other(c)
<1>1. Copies = {1, 2}
  BY Zenon, Typing
<1> QED
  BY <1>1 DEF Other

(* Without CONFIG_ENV_OFFSET_REDUND there is one copy and saveenv stays    *)
(* with it.                                                                *)
LEMMA Single ==
  ASSUME TypeOK, ~Redundant
  PROVE  Copies = {1} /\ env_valid = 1 /\ copy = 1
  BY Zenon, Typing

(* Two readable copies have consecutive serials.                           *)
LEMMA Adjacent ==
  ASSUME IInv, Redundant, NEW c \in Copies, Readable(flash, c), Readable(flash, Other(c))
  PROVE  \/ Succ(Serial(flash, c)) = Serial(flash, Other(c))
         \/ Succ(Serial(flash, Other(c))) = Serial(flash, c)
<1>1. TypeOK /\ IdleInv /\ OtherInv /\ CopyInv /\ env_valid \in Copies /\ copy \in Copies
  BY Zenon, Conjuncts, Typing
<1>2. /\ Other(c) # c /\ Other(Other(c)) = c /\ env_valid \in {c, Other(c)}
      /\ Other(env_valid) # env_valid /\ Other(Other(env_valid)) = env_valid
  BY Zenon, <1>1, Others
<1>3. Readable(flash, env_valid) /\ Readable(flash, Other(env_valid))
  BY Zenon, <1>2
<1>4. \/ Succ(Serial(flash, env_valid)) = Serial(flash, Other(env_valid))
      \/ Succ(Serial(flash, Other(env_valid))) = Serial(flash, env_valid)
  <2>1. CASE step = "idle"
    BY Zenon, <1>1, <1>3, <2>1 DEF IdleInv
  <2>2. CASE step # "idle" /\ second
    BY Zenon, <1>1, <1>3, <2>2 DEF OtherInv
  <2>3. CASE step # "idle" /\ ~second
    <3>1. copy = Other(env_valid) /\ Succ(Serial(flash, env_valid)) = env_flags
      BY Zenon, <1>1, <1>3, <2>3 DEF OtherInv
    <3>2. IF Before THEN Succ(Serial(flash, copy)) = Serial(flash, env_valid)
          ELSE Serial(flash, copy) = env_flags
      BY Zenon, <1>1, <1>3, <2>3, <3>1 DEF CopyInv
    <3> QED
      BY Zenon, <3>1, <3>2
  <2> QED
    BY Zenon, <2>1, <2>2, <2>3
<1> QED
  BY Zenon, <1>2, <1>4

(* A boot takes none of the copies only when none can be read, and of two  *)
(* the newer.                                                              *)
LEMMA BootChooses ==
  ASSUME SetFacts, IInv, NEW fl, Degraded(fl), NEW d \in Copies, Readable(fl, d)
  PROVE  /\ Chosen(fl) \in Copies /\ Readable(fl, Chosen(fl))
         /\ Loaded(fl) = EnvOf(fl, Chosen(fl))
         /\ Redundant /\ Readable(fl, Other(Chosen(fl))) =>
              Succ(Serial(fl, Other(Chosen(fl)))) = Serial(fl, Chosen(fl))
<1> DEFINE c == Chosen(fl)
<1>1. TypeOK /\ fl \in Flash
  BY Zenon, Conjuncts DEF Degraded
<1>2. c # 0
  <2>1. (Copies = {1} \/ Copies = {1, 2})
    BY Zenon, <1>1, Typing
  <2> QED
    BY <2>1 DEF Chosen
<1>3. c \in Copies /\ Readable(fl, c) /\ Loaded(fl) = EnvOf(fl, c)
  BY Zenon, <1>1, <1>2, ChosenTyped
<1> HIDE DEF c
<1>4. ASSUME Redundant, Readable(fl, Other(c)) PROVE Succ(Serial(fl, Other(c))) = Serial(fl, c)
  <2>1. Other(c) \in Copies /\ Other(c) # c /\ Other(Other(c)) = c
    BY Zenon, <1>1, <1>3, <1>4, Others
  <2>2. \/ Succ(Serial(fl, c)) = Serial(fl, Other(c))
        \/ Succ(Serial(fl, Other(c))) = Serial(fl, c)
    BY Zenon, <1>3, <1>4, <2>1, Adjacent DEF Degraded
  <2>3. CASE Succ(Serial(fl, c)) = Serial(fl, Other(c))
    <3>1. Chosen(fl) = Other(c)
      BY Zenon, <1>1, <1>4, <2>1, <2>3, ChosenNewest
    <3> QED
      BY Zenon, <2>1, <3>1 DEF c
  <2> QED
    BY Zenon, <2>2, <2>3
<1> QED
  BY Zenon, <1>3, <1>4 DEF c

(* Power-on restores what holds between two saveenvs.                      *)
LEMMA PowerOnIInv ==
  ASSUME SetFacts, IInv, TypeOK', NEW fl, Degraded(fl), PowerOn(fl)
  PROVE  IInv'
<1> DEFINE c == Chosen(fl)
<1>1. /\ TypeOK /\ fl \in Flash /\ UNCHANGED <<setup, bad>> /\ flash' = fl
      /\ step' = "idle" /\ saved' = Loaded(fl)
  BY Zenon, Conjuncts DEF Degraded, PowerOn
<1>2. /\ Redundant' = Redundant /\ Loaded(flash)' = Loaded(fl)
      /\ \A d : /\ Readable(flash, d)' = Readable(fl, d)
                /\ EnvOf(flash, d)' = EnvOf(fl, d) /\ Serial(flash, d)' = Serial(fl, d)
  BY Zenon, <1>1, Stable
<1>3. OtherInv' /\ CopyInv' /\ EraseInv' /\ WriteInv' /\ SureInv'
  BY Zenon, <1>1, <1>2 DEF OtherInv, CopyInv, EraseInv, WriteInv, SureInv
<1>4. CASE \A d \in Copies : ~Readable(fl, d)
  <2>0. env_valid' \in Copies
    BY Zenon, <1>1, Stable DEF TypeOK
  <2>1. ~Readable(fl, env_valid') /\ (Redundant => ~Readable(fl, Other(env_valid')))
    BY Zenon, <1>1, <1>4, <2>0, Others
  <2>2. IdleInv'
    BY Zenon, <1>2, <2>1 DEF IdleInv, Other
  <2> QED
    BY Zenon, <1>3, <2>2 DEF IInv
<1>5. CASE \E d \in Copies : Readable(fl, d)
  <2>1. /\ c \in Copies /\ Readable(fl, c) /\ Loaded(fl) = EnvOf(fl, c)
        /\ Redundant /\ Readable(fl, Other(c)) => Succ(Serial(fl, Other(c))) = Serial(fl, c)
    BY Zenon, <1>5, BootChooses
  <2>2. c # 0 /\ env_valid' = c /\ (Redundant => env_flags' = Serial(fl, c))
    BY <1>1, <2>1, Typing DEF PowerOn
  <2> HIDE DEF c
  <2>3. IdleInv'
    BY Zenon, <1>1, <1>2, <2>1, <2>2 DEF IdleInv, Current, Other
  <2> QED
    BY Zenon, <1>3, <2>3 DEF IInv
<1> QED
  BY Zenon, <1>4, <1>5

(* The environment a boot loads is the one loaded or saved last, the one   *)
(* being saved, or the default.                                            *)
LEMMA BootLoads ==
  ASSUME SetFacts, IInv, NEW fl, Degraded(fl)
  PROVE  Loaded(fl) \in {0, saved, ram}
<1> DEFINE c == Chosen(fl)
           V == env_valid
<1>1. /\ TypeOK /\ IdleInv /\ OtherInv /\ CopyInv /\ fl \in Flash
      /\ env_valid \in Copies /\ copy \in Copies
  BY Zenon, Conjuncts, Typing DEF Degraded
<1>2. CASE \A d \in Copies : ~Readable(fl, d)
  BY Zenon, <1>2, ChosenNone
<1>3. CASE \E d \in Copies : Readable(fl, d)
  <2>1. /\ c \in Copies /\ Readable(fl, c) /\ Loaded(fl) = EnvOf(fl, c)
    BY Zenon, <1>3, BootChooses
  <2> HIDE DEF c
  <2>2. Readable(flash, c) /\ Loaded(fl) = EnvOf(flash, c)
    BY Zenon, <2>1 DEF Degraded
  <2>3. CASE ~Redundant
    <3>1. c = V /\ c = copy
      BY <1>1, <2>1, <2>3, Single
    <3> QED
      BY Zenon, <1>1, <2>2, <2>3, <3>1 DEF IdleInv, CopyInv, Current
  <2>4. CASE Redundant /\ step = "idle"
    <3>1. c = V \/ c = Other(V)
      BY Zenon, <1>1, <2>1, <2>4, Others
    <3>2. CASE c = V
      BY Zenon, <1>1, <2>2, <2>4, <3>2 DEF IdleInv, Current
    <3>3. CASE c = Other(V)
      <4>1. CASE Readable(flash, V)
        <5>1. Readable(fl, V) /\ Serial(fl, V) = Serial(flash, V) /\ Serial(fl, c) = Serial(flash, c)
          BY Zenon, <1>1, <2>1, <2>4, <4>1 DEF Degraded
        <5>2. Succ(Serial(fl, Other(V))) = Serial(fl, V)
          BY Zenon, <1>1, <2>2, <2>4, <3>3, <4>1, <5>1 DEF IdleInv
        <5>3. Chosen(fl) = V
          BY Zenon, <1>1, <5>1, <5>2, ChosenNewest
        <5> QED
          BY Zenon, <1>1, <2>4, <3>3, <5>3, Others DEF c
      <4>2. CASE ~Readable(flash, V)
        BY Zenon, <1>1, <2>2, <2>4, <3>3, <4>2 DEF IdleInv, Current
      <4> QED
        BY Zenon, <4>1, <4>2
    <3> QED
      BY Zenon, <3>1, <3>2, <3>3
  <2>5. CASE Redundant /\ step # "idle" /\ second
    <3>1. copy = V /\ ~Readable(flash, Other(copy))
      BY Zenon, <1>1, <2>5 DEF OtherInv
    <3>2. c = copy \/ c = Other(copy)
      BY Zenon, <1>1, <2>1, <2>5, Others
    <3>3. c = copy
      BY Zenon, <2>2, <3>1, <3>2
    <3> QED
      BY Zenon, <1>1, <2>2, <2>5, <3>3 DEF CopyInv, Current
  <2>6. CASE Redundant /\ step # "idle" /\ ~second
    <3>1. /\ copy = Other(V) /\ copy # V /\ (c = V \/ c = copy)
          /\ Readable(flash, V) => Current(V) /\ Succ(Serial(flash, V)) = env_flags
      BY Zenon, <1>1, <2>1, <2>6, Others DEF OtherInv
    <3>2. CASE c = V
      BY Zenon, <2>2, <3>1, <3>2 DEF Current
    <3>3. CASE c = copy /\ Before /\ Readable(flash, V)
      <4>1. Readable(fl, V) /\ Serial(fl, V) = Serial(flash, V) /\ Serial(fl, c) = Serial(flash, c)
        BY Zenon, <1>1, <2>1, <3>1, <3>3 DEF Degraded
      <4>2. Succ(Serial(fl, Other(V))) = Serial(fl, V)
        BY Zenon, <1>1, <2>2, <2>6, <3>1, <3>3, <4>1 DEF CopyInv
      <4>3. Chosen(fl) = V
        BY Zenon, <1>1, <4>1, <4>2, ChosenNewest
      <4> QED
        BY Zenon, <3>1, <3>3, <4>3 DEF c
    <3>4. CASE c = copy /\ ~(Before /\ Readable(flash, V))
      BY Zenon, <1>1, <2>2, <2>6, <3>4 DEF CopyInv, Current
    <3> QED
      BY Zenon, <3>1, <3>2, <3>3, <3>4
  <2> QED
    BY Zenon, <2>3, <2>4, <2>5, <2>6
<1> QED
  BY Zenon, <1>2, <1>3

-----------------------------------------------------------------------------
(* The first steps of saveenv: up to one block written                     *)

(* A step that leaves the flash and what saveenv does alone keeps IInv:    *)
(* setenv between two saveenvs, or nothing at all.                         *)
LEMMA QuietIInv ==
  ASSUME IInv, TypeOK',
         UNCHANGED <<flash, setup, bad, env_valid, env_flags, saveVars, saved, sure, clean>>,
         step = "idle" \/ UNCHANGED ram
  PROVE  IInv'
<1>1. /\ Redundant' = Redundant /\ Blocks' = Blocks /\ Junk' = Junk /\ Loaded(flash)' = Loaded(flash)
      /\ \A d : /\ Readable(flash, d)' = Readable(flash, d)
                /\ EnvOf(flash, d)' = EnvOf(flash, d) /\ Serial(flash, d)' = Serial(flash, d)
  BY Zenon, Stable
<1>2. IdleInv'
  BY Zenon, <1>1, Conjuncts DEF IdleInv, Current, Other, saveVars
<1>3. OtherInv'
  BY Zenon, <1>1, Conjuncts DEF OtherInv, Current, Other, saveVars
<1>4. CopyInv'
  BY Zenon, <1>1, Conjuncts DEF CopyInv, Current, Other, saveVars, Before
<1>5. EraseInv'
  BY Zenon, <1>1, Conjuncts DEF EraseInv, saveVars
<1>6. WriteInv'
  BY <1>1, Conjuncts DEF WriteInv, saveVars, Part, PartOf
<1>7. SureInv'
  BY Zenon, <1>1, Conjuncts DEF SureInv, saveVars
<1> QED
  BY Zenon, <1>2, <1>3, <1>4, <1>5, <1>6, <1>7 DEF IInv

(* saveenv picks the copy that is not in use, with the next serial.        *)
LEMMA SaveBeginIInv ==
  ASSUME IInv, TypeOK', SaveBegin
  PROVE  IInv'
<1>1. /\ UNCHANGED <<setup, bad, flash, env_valid, saved>> /\ step = "idle" /\ step' = "erase"
      /\ second' = FALSE /\ sure' = FALSE /\ block' = 1 /\ TypeOK /\ IdleInv
      /\ env_valid \in Copies /\ (Redundant => env_flags' = Succ(env_flags))
  BY Zenon, Conjuncts, Typing DEF SaveBegin, Succ
<1>2. /\ Redundant' = Redundant /\ Blocks' = Blocks
      /\ \A d : /\ Readable(flash, d)' = Readable(flash, d)
                /\ EnvOf(flash, d)' = EnvOf(flash, d) /\ Serial(flash, d)' = Serial(flash, d)
  BY Zenon, <1>1, Stable
<1>3. IF Redundant THEN copy' = Other(env_valid) /\ copy' # env_valid
      ELSE copy' = 1 /\ copy' = env_valid
  BY Zenon, <1>1, Others, Single, Typing DEF SaveBegin, Other
<1>4. OtherInv'
  BY Zenon, <1>1, <1>2, <1>3 DEF OtherInv, IdleInv, Current, Other
<1>5. CopyInv'
  BY Zenon, <1>1, <1>2, <1>3 DEF CopyInv, IdleInv, Current, Before
<1>6. EraseInv'
  <2>1. \A b \in Blocks : ~(b < 1)
    BY <1>1, Typing DEF Blocks
  <2> QED
    BY Zenon, <1>1, <1>2, <2>1 DEF EraseInv
<1>7. IdleInv' /\ WriteInv' /\ SureInv'
  BY Zenon, <1>1, <1>4, <1>5, <1>6 DEF IdleInv, WriteInv, SureInv
<1> QED
  BY Zenon, <1>1, <1>4, <1>5, <1>6, <1>7 DEF IInv

(* The flash of the next state is a flash of this one.                     *)
LEMMA FlashNext ==
  ASSUME TypeOK', UNCHANGED <<setup, bad>>
  PROVE  flash' \in Flash
<1>1. Copies' = Copies /\ EnvBlocks' = EnvBlocks /\ Blocks' = Blocks
  BY Zenon, Stable
<1>2. Content' = Content
  BY Zenon, <1>1 DEF Content
<1> QED
  BY Zenon, <1>1, <1>2 DEF TypeOK, Flash

(* What one erase may change.                                              *)
LEMMA EraseFlash ==
  ASSUME SetFacts, IInv, TypeOK', EraseBlock
  PROVE  /\ \A d \in Copies :
              /\ Readable(flash', d) => /\ Readable(flash, d) /\ EnvOf(flash', d) = EnvOf(flash, d)
                                        /\ Serial(flash', d) = Serial(flash, d)
              /\ Readable(flash, d) /\ d # copy => Readable(flash', d)
         /\ clean' => \A b \in Blocks \ bad[copy] :
              flash'[copy][b] = IF b = block THEN Erased ELSE flash[copy][b]
<1>1. TypeOK /\ copy \in Copies /\ UNCHANGED <<setup, bad>> /\ flash \in Flash
  BY Zenon, Conjuncts, Typing DEF EraseBlock, Rest
<1> block \in Blocks
  BY Conjuncts, Typing DEF EraseBlock, Blocks
<1>2. CASE block \in bad[copy] /\ UNCHANGED flash
  BY Zenon, <1>2
<1>3. CASE block \notin bad[copy] /\ Put(Erased)
  <2>1. flash' \in Flash
    BY Zenon, <1>1, FlashNext
  <2>2. block \in Blocks \ bad[copy] /\ Spoils(flash', copy, block)
    BY Zenon, <1>1, <1>3 DEF Put, Spoils, Flash
  <2>3. \A b \in Blocks : flash'[copy][b] = IF b = block THEN Erased ELSE flash[copy][b]
    BY Zenon, <1>1, <1>3 DEF Put, Flash
  <2>4. ASSUME NEW d \in Copies
        PROVE  /\ Readable(flash', d) => /\ Readable(flash, d) /\ EnvOf(flash', d) = EnvOf(flash, d)
                                         /\ Serial(flash', d) = Serial(flash, d)
               /\ Readable(flash, d) /\ d # copy => Readable(flash', d)
    BY <1>1, <2>1, <2>2, Spoiled
  <2> QED
    BY Zenon, <2>3, <2>4
<1>4. CASE UNCHANGED flash /\ clean' = FALSE
  BY Zenon, <1>4
<1> QED
  BY Zenon, <1>2, <1>3, <1>4 DEF EraseBlock

(* nand_erase_opts erases one block of the copy to be written, fails or    *)
(* skips a bad block.                                                      *)
LEMMA EraseBlockIInv ==
  ASSUME SetFacts, IInv, TypeOK', EraseBlock
  PROVE  IInv'
<1>1. /\ UNCHANGED <<setup, bad, env_valid, env_flags, saved, copy, second, step, part, sure, ram>>
      /\ step = "erase" /\ block' = block + 1 /\ (clean' => clean)
      /\ TypeOK /\ OtherInv /\ CopyInv /\ EraseInv /\ SureInv /\ env_valid \in Copies
      /\ copy \in Copies /\ block \in Nat
  BY Conjuncts, Typing DEF EraseBlock, NextBlock, Rest
<1>2. /\ Redundant' = Redundant /\ Blocks' = Blocks
      /\ \A d : /\ Readable(flash, d)' = Readable(flash', d)
                /\ EnvOf(flash, d)' = EnvOf(flash', d) /\ Serial(flash, d)' = Serial(flash', d)
  BY Zenon, <1>1, Stable
<1>3. OtherInv'
  <2>1. Redundant => /\ Other(copy) \in Copies /\ Other(copy) # copy
                     /\ Other(env_valid) # env_valid
    BY Zenon, <1>1, Others
  <2> QED
    BY Zenon, <1>1, <1>2, <2>1, EraseFlash DEF OtherInv, Current, Other
<1>4. CopyInv'
  <2>1. Redundant /\ ~second => env_valid # copy
    BY Zenon, <1>1, Others DEF OtherInv
  <2> QED
    BY Zenon, <1>1, <1>2, <2>1, EraseFlash DEF CopyInv, Current, Before
<1>5. EraseInv'
  <2> SUFFICES ASSUME clean', NEW b \in Blocks \ bad[copy], b < block + 1
               PROVE  flash'[copy][b] = Erased
    BY Zenon, <1>1, <1>2 DEF EraseInv
  <2>1. b = block \/ b < block
    BY <1>1, Typing DEF Blocks
  <2> QED
    BY Zenon, <1>1, <2>1, EraseFlash DEF EraseInv
<1>6. ~sure'
  BY Zenon, <1>1 DEF SureInv
<1>7. IdleInv' /\ WriteInv' /\ SureInv'
  BY Zenon, <1>1, <1>3, <1>4, <1>5, <1>6 DEF IdleInv, WriteInv, SureInv
<1> QED
  BY Zenon, <1>1, <1>3, <1>4, <1>5, <1>6, <1>7 DEF IInv

(* saveenv goes on to the write when the range has been erased.            *)
LEMMA EraseDoneIInv ==
  ASSUME SetFacts, IInv, TypeOK', EraseDone
  PROVE  IInv'
<1>1. /\ UNCHANGED <<setup, bad, flash, env_valid, env_flags, saved, copy, second, sure, clean, ram>>
      /\ step = "erase" /\ step' = "write" /\ block' = 1 /\ part' = 1 /\ block > RangeBlocks
      /\ TypeOK /\ OtherInv /\ CopyInv /\ EraseInv /\ SureInv /\ RangeBlocks \in Nat
      /\ block \in Nat
  BY Conjuncts, Typing DEF EraseDone, Rest
<1>2. /\ Redundant' = Redundant /\ Blocks' = Blocks
      /\ \A d : /\ Readable(flash, d)' = Readable(flash, d)
                /\ EnvOf(flash, d)' = EnvOf(flash, d) /\ Serial(flash, d)' = Serial(flash, d)
  BY Zenon, <1>1, Stable
<1>3. OtherInv'
  BY Zenon, <1>1, <1>2 DEF OtherInv, Current, Other
<1>4. CopyInv'
  BY Zenon, <1>1, <1>2 DEF CopyInv, Current, Before
<1>5. WriteInv'
  <2>1. \A b \in Blocks : ~(b < 1) /\ b < block
    BY <1>1 DEF Blocks
  <2>2. PartOf(bad[copy], 1 - 1) + 1 = 1
    BY PartOfStep
  <2>3. clean => \A b \in Blocks \ bad[copy] : flash[copy][b] = Erased
    BY Zenon, <1>1, <2>1 DEF EraseInv
  <2>4. (PartOf(bad[copy], block - 1) + 1)' = PartOf(bad[copy], 1 - 1) + 1
    BY Zenon, <1>1 DEF PartOf
  <2> QED
    BY Zenon, <1>1, <1>2, <2>1, <2>2, <2>3, <2>4 DEF WriteInv
<1>6. ~sure'
  BY Zenon, <1>1 DEF SureInv
<1>7. IdleInv' /\ EraseInv' /\ SureInv'
  BY Zenon, <1>1, <1>3, <1>4, <1>5, <1>6 DEF IdleInv, EraseInv, SureInv
<1> QED
  BY Zenon, <1>1, <1>3, <1>4, <1>5, <1>6, <1>7 DEF IInv

(* The block writeenv works on is one that readenv reads.                  *)
LEMMA WritingUsed ==
  ASSUME SetFacts, IInv, Writing, block \notin bad[copy]
  PROVE  /\ block \in Blocks \ bad[copy] /\ block \in Used(copy)
         /\ part = PartOf(bad[copy], block)
<1>1. /\ TypeOK /\ WriteInv /\ block \in 1..(RangeBlocks + 1) /\ RangeBlocks \in Nat
      /\ part <= EnvBlocks /\ block <= RangeBlocks /\ step = "write" /\ EnvBlocks \in Nat
      /\ part \in Nat
  BY Conjuncts, Typing DEF Writing
<1>2. block \in Blocks \ bad[copy] /\ block \in Nat /\ block > 0
  BY <1>1 DEF Blocks
<1>3. PartOf(bad[copy], block) = PartOf(bad[copy], block - 1) + 1
  BY Zenon, <1>2, PartOfStep
<1>4. part = PartOf(bad[copy], block)
  BY Zenon, <1>1, <1>3 DEF WriteInv
<1> QED
  BY Zenon, <1>1, <1>2, <1>4 DEF Used

(* A write to one copy leaves the other as it was.                         *)
LEMMA OtherKept ==
  ASSUME TypeOK, NEW fl \in Flash, NEW c \in Copies, NEW d \in Copies, d # c,
         \A e \in Copies \ {c} : fl[e] = flash[e]
  PROVE  /\ Readable(fl, d) = Readable(flash, d)
         /\ EnvOf(fl, d) = EnvOf(flash, d) /\ Serial(fl, d) = Serial(flash, d)
<1>1. fl[d] = flash[d]
  BY Zenon
<1> QED
  BY Zenon, <1>1 DEF Readable, EnvOf, Serial

(* writeenv writes one block of the environment.                           *)
LEMMA WriteBlockIInv ==
  ASSUME SetFacts, IInv, TypeOK', WriteBlock
  PROVE  IInv'
<1>1. /\ UNCHANGED <<setup, bad, env_valid, env_flags, saved, copy, second, step, sure, ram, clean>>
      /\ step = "write" /\ block' = block + 1 /\ Writing
      /\ TypeOK /\ OtherInv /\ CopyInv /\ WriteInv /\ SureInv /\ env_valid \in Copies
      /\ copy \in Copies /\ block \in Nat /\ block > 0 /\ part \in Nat /\ part > 0
  BY Conjuncts, Typing DEF WriteBlock, Writing, NextBlock, Rest
<1>2. /\ Redundant' = Redundant /\ Blocks' = Blocks /\ Junk' = Junk
      /\ \A d : /\ Readable(flash, d)' = Readable(flash', d)
                /\ EnvOf(flash, d)' = EnvOf(flash', d) /\ Serial(flash, d)' = Serial(flash', d)
  BY Zenon, <1>1, Stable
<1>3. ~sure'
  BY Zenon, <1>1 DEF SureInv
<1>4. flash \in Flash /\ flash' \in Flash
  BY Zenon, <1>1, FlashNext, Typing
<1>5. part = PartOf(bad[copy], block - 1) + 1
  BY Zenon, <1>1 DEF WriteInv
<1>6. \A b : PartOf(bad[copy], b)' = PartOf(bad[copy], b')
  BY Zenon, <1>1 DEF PartOf
<1>7. CASE block \in bad[copy] /\ UNCHANGED <<flash, part>>
  <2>1. OtherInv'
    BY Zenon, <1>1, <1>2, <1>7 DEF OtherInv, Current, Other
  <2>2. CopyInv'
    BY Zenon, <1>1, <1>2, <1>7 DEF CopyInv, Current, Before
  <2>3. WriteInv'
    <3>1. PartOf(bad[copy], (block + 1) - 1) = PartOf(bad[copy], block - 1)
      BY <1>1, <1>7, PartOfStep
    <3>2. \A b \in Blocks \ bad[copy] : (b < block + 1 <=> b < block) /\ (b >= block + 1 => b >= block)
      <4>1. ASSUME NEW b \in Blocks \ bad[copy] PROVE b \in Nat /\ b # block
        BY <1>1, <1>7, Typing DEF Blocks
      <4> QED
        BY <1>1, <4>1
    <3>3. (PartOf(bad[copy], block - 1) + 1)' = PartOf(bad[copy], (block + 1) - 1) + 1
      BY Zenon, <1>1 DEF PartOf
    <3>4. \A b : Part(ram, PartOf(bad[copy], b), env_flags)' = Part(ram, PartOf(bad[copy], b'), env_flags)
      BY Zenon, <1>1 DEF Part, PartOf
    <3>5. part' = (PartOf(bad[copy], block - 1) + 1)'
      BY Zenon, <1>5, <1>7, <3>1, <3>3
    <3> QED
      BY Zenon, <1>1, <1>2, <1>7, <3>2, <3>4, <3>5 DEF WriteInv
  <2>4. IdleInv' /\ EraseInv' /\ SureInv'
    BY Zenon, <1>1, <1>3, <2>1, <2>2, <2>3 DEF IdleInv, EraseInv, SureInv
  <2> QED
    BY Zenon, <1>1, <1>3, <2>1, <2>2, <2>3, <2>4 DEF IInv
<1>8. CASE /\ block \notin bad[copy] /\ part' = part + 1
           /\ Put(IF flash[copy][block] = Erased THEN Part(ram, part, env_flags) ELSE Junk)
  <2> DEFINE x == IF flash[copy][block] = Erased THEN Part(ram, part, env_flags) ELSE Junk
  <2>1. block \in Blocks \ bad[copy] /\ part = PartOf(bad[copy], block)
    BY Zenon, <1>1, <1>8, WritingUsed
  <2>2. /\ \A e \in Copies \ {copy} : flash'[e] = flash[e]
        /\ \A b \in Blocks : flash'[copy][b] = IF b = block THEN x ELSE flash[copy][b]
    BY Zenon, <1>1, <1>4, <1>8, <2>1 DEF Put, Flash
  <2>3. WriteInv'
    <3>1. PartOf(bad[copy], (block + 1) - 1) = part
      BY <1>1, <2>1
    <3>2. x \in {Part(ram, part, env_flags)} \cup (IF clean THEN {} ELSE {Junk})
      <4>1. clean => flash[copy][block] = Erased
        BY <1>1, <2>1 DEF WriteInv
      <4> QED
        BY Zenon, <4>1
    <3> HIDE DEF x
    <3>3. (PartOf(bad[copy], block - 1) + 1)' = PartOf(bad[copy], (block + 1) - 1) + 1
      BY Zenon, <1>1 DEF PartOf
    <3>4. ASSUME NEW b \in Blocks \ bad[copy], b < block + 1
          PROVE  flash'[copy][b] \in
                   {Part(ram, PartOf(bad[copy], b), env_flags)} \cup (IF clean THEN {} ELSE {Junk})
      <4>1. b = block \/ b < block
        BY SMTT(60), <1>1, <3>4, Typing DEF Blocks
      <4>2. CASE b = block
        BY Zenon, <2>1, <2>2, <3>2, <4>2
      <4>3. CASE b < block
        <5>1. b # block
          BY <1>1, <4>3, Typing DEF Blocks
        <5>2. flash'[copy][b] = flash[copy][b]
          BY Zenon, <2>2, <5>1
        <5> QED
          BY Zenon, <1>1, <4>3, <5>2 DEF WriteInv
      <4> QED
        BY Zenon, <4>1, <4>2, <4>3
    <3>5. ASSUME NEW b \in Blocks \ bad[copy], b >= block + 1, clean
          PROVE  flash'[copy][b] = Erased
      <4>1. b >= block /\ b # block
        BY SMTT(60), <1>1, <3>5, Typing DEF Blocks
      <4> QED
        BY Zenon, <1>1, <2>2, <3>5, <4>1 DEF WriteInv
    <3>6. \A b : Part(ram, PartOf(bad[copy], b), env_flags)' = Part(ram, PartOf(bad[copy], b'), env_flags)
      BY Zenon, <1>1 DEF Part, PartOf
    <3>7. part' = (PartOf(bad[copy], block - 1) + 1)'
      BY Zenon, <1>8, <3>1, <3>3
    <3>8. ASSUME NEW b \in (Blocks \ bad[copy])'
          PROVE  /\ b < block' => flash'[copy'][b] \in
                      {Part(ram, PartOf(bad[copy], b), env_flags)'} \cup (IF clean' THEN {} ELSE {Junk'})
                 /\ b >= block' /\ clean' => flash'[copy'][b] = Erased
      <4>1. /\ b \in Blocks \ bad[copy] /\ block' = block + 1 /\ copy' = copy
            /\ clean' = clean /\ Junk' = Junk
        BY Zenon, <1>1, <1>2, <3>8
      <4>2. Part(ram, PartOf(bad[copy], b), env_flags)' = Part(ram, PartOf(bad[copy], b), env_flags)
        BY Zenon, <1>1 DEF Part, PartOf
      <4>3. b < block + 1 => flash'[copy][b] \in
              {Part(ram, PartOf(bad[copy], b), env_flags)} \cup (IF clean THEN {} ELSE {Junk})
        BY Zenon, <3>4, <4>1
      <4>4. b >= block + 1 /\ clean => flash'[copy][b] = Erased
        BY Zenon, <3>5, <4>1
      <4> QED
        BY <4>1, <4>2, <4>3, <4>4, Zenon
    <3> QED
      BY <3>7, <3>8, Zenon DEF WriteInv, Erased
  <2> HIDE DEF x
  <2>4. ASSUME Readable(flash', copy) PROVE EnvOf(flash', copy) = ram /\ Serial(flash', copy) = env_flags
    <3>1. \A b \in Blocks \ bad[copy] :
            b < block + 1 => flash'[copy][b] \in {Part(ram, PartOf(bad[copy], b), env_flags), Junk}
      <4>1. \A b : Part(ram, PartOf(bad[copy], b), env_flags)' = Part(ram, PartOf(bad[copy], b'), env_flags)
        BY Zenon, <1>1 DEF Part, PartOf
      <4> QED
        BY Zenon, <1>1, <1>2, <2>3, <4>1 DEF WriteInv
    <3>2. block + 1 \in Nat \ {0} /\ PartOf(bad[copy], (block + 1) - 1) >= 1
      BY <1>1, <2>1
    <3> QED
      BY Zenon, <1>1, <1>4, <2>4, <3>1, <3>2, WrittenCopy
  <2>5. CopyInv'
    <3>1. ~Before'
      BY <1>1, <1>8 DEF Before
    <3> QED
      BY Zenon, <1>1, <1>2, <2>4, <3>1 DEF CopyInv
  <2>6. OtherInv'
    <3>1. ASSUME Redundant, NEW d \in Copies, d # copy
          PROVE  /\ Readable(flash', d) = Readable(flash, d)
                 /\ EnvOf(flash', d) = EnvOf(flash, d) /\ Serial(flash', d) = Serial(flash, d)
      BY Zenon, <1>1, <1>4, <2>2, <3>1, OtherKept
    <3>2. Redundant => /\ Other(copy) \in Copies /\ Other(copy) # copy
                       /\ Other(env_valid) # env_valid
      BY Zenon, <1>1, Others
    <3> QED
      BY Zenon, <1>1, <1>2, <3>1, <3>2 DEF OtherInv, Current, Other
  <2>7. IdleInv' /\ EraseInv' /\ SureInv'
    BY Zenon, <1>1, <1>3, <2>3, <2>5, <2>6 DEF IdleInv, EraseInv, SureInv
  <2> QED
    BY Zenon, <1>1, <1>3, <2>3, <2>5, <2>6, <2>7 DEF IInv
<1> QED
  BY Zenon, <1>7, <1>8 DEF WriteBlock
=============================================================================
