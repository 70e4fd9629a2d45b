---------------------------- MODULE EnvNandProofs ---------------------------
(***************************************************************************)
(* Proofs about EnvNand: what saveenv reported as saved is what a boot     *)
(* loads, a boot never loads an older environment, and with a redundant    *)
(* copy saveenv implements EnvStore; for any number and size of blocks,    *)
(* any bad blocks, any serial range and any failures.                      *)
(***************************************************************************)
EXTENDS EnvNandCopies

(* The invariant and the steps of saveenv                                  *)

(* erase_and_write_env returned 1 and the copy cannot be read: saveenv     *)
(* takes the other one, or gives up with none that can be read.            *)
LEMMA FailedIInv ==
  ASSUME IInv, TypeOK', step = "write", Failed, ~Readable(flash', copy),
         \A e \in Copies \ {copy} : flash'[e] = flash[e],
         UNCHANGED <<setup, bad, ram, env_valid, env_flags, saved, sure, clean>>
  PROVE  IInv'
<1>1. /\ TypeOK /\ OtherInv /\ SureInv /\ copy \in Copies /\ env_valid \in Copies /\ flash' \in Flash
      /\ step # "idle"
  BY Zenon, FlashNext, Conjuncts, Typing
<1>2. /\ Redundant' = Redundant /\ Blocks' = Blocks
      /\ \A d : /\ Readable(flash, d)' = Readable(flash', d)
                /\ EnvOf(flash, d)' = EnvOf(flash', d) /\ Serial(flash, d)' = Serial(flash', d)
  BY Zenon, Stable
<1>3. ~sure'
  BY Zenon, <1>1 DEF SureInv
<1>4. ASSUME NEW d \in Copies, d # copy
      PROVE  /\ Readable(flash', d) = Readable(flash, d)
             /\ EnvOf(flash', d) = EnvOf(flash, d) /\ Serial(flash', d) = Serial(flash, d)
  BY Zenon, <1>1, <1>4, OtherKept
<1>5. CASE Redundant /\ ~second
  <2>1. second' = TRUE /\ copy' = Other(copy) /\ step' = "erase" /\ block' = 1
    BY Zenon, <1>5 DEF Failed
  <2>2. /\ copy = Other(env_valid) /\ copy # env_valid /\ copy' = env_valid
        /\ Other(copy') = copy
        /\ Readable(flash, env_valid) => Current(env_valid)
    BY Zenon, <1>1, <1>5, <2>1, Others DEF OtherInv
  <2>3. OtherInv'
    BY Zenon, <1>2, <2>1, <2>2 DEF OtherInv, Other
  <2>4. Readable(flash', env_valid) => EnvOf(flash', env_valid) \in {0, saved}
    BY Zenon, <1>1, <1>4, <2>2 DEF Current
  <2>5. CopyInv'
    BY Zenon, <1>2, <2>1, <2>2, <2>4 DEF CopyInv, Current, Before
  <2>6. EraseInv'
    <3>1. \A b \in Blocks : ~(b < 1)
      BY SMTT(60), <1>1, Typing DEF Blocks
    <3> QED
      BY Zenon, <1>2, <2>1, <3>1 DEF EraseInv
  <2>7. IdleInv' /\ WriteInv' /\ SureInv'
    BY Zenon, <1>3, <2>1, <2>3, <2>5, <2>6 DEF IdleInv, WriteInv, SureInv
  <2> QED
    BY Zenon, <1>3, <2>1, <2>3, <2>5, <2>6, <2>7 DEF IInv
<1>6. CASE ~(Redundant /\ ~second)
  <2>1. step' = "idle"
    BY Zenon, <1>6 DEF Failed
  <2>2. copy = env_valid
    BY Zenon, <1>1, <1>6, Single DEF OtherInv
  <2>3. ASSUME Redundant PROVE ~Readable(flash', Other(env_valid))
    <3>1. second /\ ~Readable(flash, Other(copy)) /\ Other(copy) \in Copies /\ Other(copy) # copy
      BY Zenon, <1>1, <1>6, <2>3, Others DEF OtherInv
    <3> QED
      BY Zenon, <1>4, <2>2, <3>1
  <2>4. IdleInv'
    BY Zenon, <1>2, <2>2, <2>3 DEF IdleInv, Other
  <2> QED
    BY ZenonT(60), <1>3, <2>1, <2>4 DEF IInv, OtherInv, CopyInv, EraseInv, WriteInv, SureInv
<1> QED
  BY Zenon, <1>5, <1>6

(* A failing nand_write ends saveenv and leaves the other copy as it was.  *)
LEMMA WriteFailsIInv ==
  ASSUME SetFacts, IInv, TypeOK', WriteFails
  PROVE  IInv'
<1>1. /\ UNCHANGED <<setup, bad, env_valid, env_flags, saved, sure, ram, clean>>
      /\ step = "write" /\ Writing /\ TypeOK /\ copy \in Copies /\ Failed /\ Put(Junk)
      /\ block \notin bad[copy] /\ flash \in Flash
  BY Zenon, Conjuncts, Typing DEF WriteFails, Writing, Rest
<1>2. block \in Blocks \ bad[copy] /\ block \in Used(copy) /\ flash' \in Flash
  BY Zenon, <1>1, WritingUsed, FlashNext
<1>3. Spoils(flash', copy, block) /\ \A e \in Copies \ {copy} : flash'[e] = flash[e]
  BY Zenon, <1>1, <1>2 DEF Put, Spoils, Flash
<1>4. ~Readable(flash', copy)
  BY Zenon, <1>1, <1>2, <1>3, Spoiled
<1> QED
  BY Zenon, <1>1, <1>3, <1>4, FailedIInv

(* writeenv runs out of good blocks: saveenv fails and the other copy is   *)
(* as it was.                                                              *)
LEMMA WriteShortIInv ==
  ASSUME SetFacts, IInv, TypeOK', WriteShort
  PROVE  IInv'
<1>1. /\ UNCHANGED <<setup, bad, env_valid, env_flags, saved, sure, ram, clean, flash>>
      /\ step = "write" /\ TypeOK /\ copy \in Copies /\ Failed /\ WriteInv
      /\ part <= EnvBlocks /\ part \in Nat /\ EnvBlocks \in Nat
      /\ block > RangeBlocks /\ RangeBlocks \in Nat /\ block \in 1..(RangeBlocks + 1)
  BY Conjuncts, Typing DEF WriteShort, Rest
<1>2. block - 1 = RangeBlocks
  BY <1>1
<1>3. PartOf(bad[copy], RangeBlocks) \in Nat /\ part = PartOf(bad[copy], RangeBlocks) + 1
  BY Zenon, <1>1, <1>2, PartOfStep DEF WriteInv
<1>4. ~Readable(flash', copy)
  BY <1>1, <1>3, ShortCopy
<1> QED
  BY Zenon, <1>1, <1>4, FailedIInv

(* What holds when writeenv has written the whole environment: the copy,   *)
(* if it can be read, is what a boot takes, and a clean one can be read.   *)
LEMMA Finished ==
  ASSUME SetFacts, IInv, step = "write", part > EnvBlocks
  PROVE  /\ clean => Readable(flash, copy)
         /\ Readable(flash, copy) =>
              /\ EnvOf(flash, copy) = ram /\ Serial(flash, copy) = env_flags
              /\ Loaded(flash) = ram
<1>1. /\ TypeOK /\ OtherInv /\ CopyInv /\ WriteInv /\ copy \in Copies /\ env_valid \in Copies
      /\ part \in 1..(EnvBlocks + 1) /\ EnvBlocks \in Nat \ {0} /\ flash \in Flash
      /\ block \in 1..(RangeBlocks + 1) /\ step # "idle" /\ RangeBlocks \in Nat
  BY Zenon, Conjuncts, Typing
<1>2. part = EnvBlocks + 1 /\ part # 1 /\ block - 1 \in Nat
  BY <1>1
<1>3. PartOf(bad[copy], block - 1) = EnvBlocks
  BY <1>1, <1>2, PartOfStep DEF WriteInv
<1>4. ASSUME clean PROVE Readable(flash, copy)
  <2>1. \A b \in Blocks \ bad[copy] :
          b < block => flash[copy][b] = Part(ram, PartOf(bad[copy], b), env_flags)
    BY Zenon, <1>1, <1>4 DEF WriteInv
  <2> QED
    BY Zenon, <1>1, <1>3, <2>1, CompleteCopy
<1>5. ASSUME Readable(flash, copy)
      PROVE  EnvOf(flash, copy) = ram /\ Serial(flash, copy) = env_flags /\ Loaded(flash) = ram
  <2>1. EnvOf(flash, copy) = ram /\ Serial(flash, copy) = env_flags
    BY Zenon, <1>1, <1>2, <1>5 DEF CopyInv, Before
  <2>2. ASSUME Redundant, Readable(flash, Other(copy))
        PROVE  Succ(Serial(flash, Other(copy))) = Serial(flash, copy)
    <3>1. ~second /\ copy = Other(env_valid) /\ Other(copy) = env_valid
      BY Zenon, <1>1, <2>2, Others DEF OtherInv
    <3> QED
      BY Zenon, <1>1, <2>1, <2>2, <3>1 DEF OtherInv
  <2> QED
    BY Zenon, <1>1, <1>5, <2>1, <2>2, ChosenNewest
<1> QED
  BY Zenon, <1>4, <1>5

(* saveenv reports success when every part has been written, and switches  *)
(* copies.                                                                 *)
LEMMA WriteDoneIInv ==
  ASSUME SetFacts, IInv, TypeOK', WriteDone
  PROVE  IInv'
<1>1. /\ UNCHANGED <<setup, bad, env_flags, ram, clean, flash, copy, second>>
      /\ step = "write" /\ step # "idle" /\ part > EnvBlocks /\ step' = "idle"
      /\ saved' = (IF clean THEN ram ELSE Loaded(flash)) /\ sure' = clean
      /\ TypeOK /\ OtherInv /\ copy \in Copies /\ env_valid \in Copies /\ flash \in Flash
  BY Zenon, Conjuncts, Typing DEF WriteDone, Rest
<1>2. /\ Redundant' = Redundant /\ Loaded(flash)' = Loaded(flash)
      /\ \A d : /\ Readable(flash, d)' = Readable(flash, d)
                /\ EnvOf(flash, d)' = EnvOf(flash, d) /\ Serial(flash, d)' = Serial(flash, d)
  BY Zenon, <1>1, Stable
<1>3. env_valid' = copy
  BY Zenon, <1>1, Single DEF OtherInv, WriteDone
<1>4. saved' = Loaded(flash)
  BY Zenon, <1>1, Finished
<1>5. SureInv'
  BY Zenon, <1>1, <1>2, <1>4 DEF SureInv
<1>6. Readable(flash, copy) => EnvOf(flash, copy) = saved' /\ Serial(flash, copy) = env_flags
  BY Zenon, <1>1, <1>4, Finished
<1>7. ASSUME Redundant, Readable(flash, Other(copy))
      PROVE  IF Readable(flash, copy) THEN Succ(Serial(flash, Other(copy))) = env_flags
             ELSE EnvOf(flash, Other(copy)) = saved'
  <2>1. /\ copy = Other(env_valid) /\ Other(copy) = env_valid
        /\ Succ(Serial(flash, env_valid)) = env_flags
    BY Zenon, <1>1, <1>7, Others DEF OtherInv
  <2>2. ASSUME ~Readable(flash, copy) PROVE Loaded(flash) = EnvOf(flash, env_valid)
    BY Zenon, <1>1, <1>7, <2>1, <2>2, ChosenNewest
  <2> QED
    BY Zenon, <1>4, <2>1, <2>2
<1>8. IdleInv'
  BY Zenon, <1>1, <1>2, <1>3, <1>6, <1>7 DEF IdleInv, Current, Other
<1> QED
  BY Zenon, <1>1, <1>5, <1>8 DEF IInv, OtherInv, CopyInv, EraseInv, WriteInv

-----------------------------------------------------------------------------
(* The invariant and the theorems                                          *)

(* A boot finds a flash in which only the copy in hand has suffered.       *)
LEMMA BootDegraded ==
  ASSUME SetFacts, IInv, Reset \/ PowerCut
  PROVE  \E fl : Degraded(fl) /\ PowerOn(fl)
<1>1. TypeOK /\ flash \in Flash /\ copy \in Copies /\ EnvBlocks \in Nat /\ MaxEnv \in Nat
      /\ SerialMod \in Nat /\ SerialMod > 2
  BY Zenon, Conjuncts, Typing
<1>2. Degraded(flash)
  BY Zenon, <1>1 DEF Degraded
<1>3. CASE Reset
  BY Zenon, <1>2, <1>3 DEF Reset
<1>4. CASE PowerCut
  <2>1. PICK fl \in {flash} \cup {[flash EXCEPT ![copy][b] = Junk] :
                                    b \in {block} \cap (Blocks \ bad[copy])} : PowerOn(fl)
    BY Zenon, <1>4 DEF PowerCut
  <2>2. CASE fl = flash
    BY Zenon, <1>2, <2>1, <2>2
  <2>3. CASE block \in Blocks \ bad[copy] /\ fl = [flash EXCEPT ![copy][block] = Junk]
    <3>1. Junk \in Content
      BY <1>1 DEF Junk, Content
    <3>2. fl \in Flash
      BY Zenon, <1>1, <2>3, <3>1 DEF Flash
    <3>3. Spoils(fl, copy, block)
      BY Zenon, <1>1, <2>3 DEF Spoils, Flash
    <3>4. ASSUME NEW d \in Copies
          PROVE  /\ Readable(fl, d) => /\ Readable(flash, d) /\ EnvOf(fl, d) = EnvOf(flash, d)
                                       /\ Serial(fl, d) = Serial(flash, d)
                 /\ Readable(flash, d) /\ d # copy => Readable(fl, d)
      BY <1>1, <2>3, <3>2, <3>3, Spoiled
    <3>5. step # "idle"
      BY Zenon, <1>4 DEF PowerCut
    <3> QED
      BY Zenon, <2>1, <3>2, <3>4, <3>5 DEF Degraded
  <2> QED
    BY Zenon, <2>1, <2>2, <2>3
<1> QED
  BY Zenon, <1>3, <1>4

(* Nothing can be read from a flash that is erased.                        *)
LEMMA InitUnreadable ==
  ASSUME SetFacts, Init, NEW c \in Copies
  PROVE  ~Readable(flash, c)
<1> SUFFICES ASSUME Readable(flash, c) PROVE FALSE
  BY Zenon
<1>1. /\ TypeOK /\ flash \in Flash /\ EnvBlocks \in Nat \ {0}
      /\ \A b \in Blocks : flash[c][b] = Erased
  BY Zenon, TypeInit, SetupFacts DEF Init, TypeOK, Flash
<1> DEFINE k == FirstBlock(Used(c), bad[c])
<1>2. k \in Used(c) /\ PartOf(bad[c], k) = 1
  BY Zenon, <1>1, ReadableFirst
<1>3. flash[c][k].part = 0
  BY SMTT(60), <1>1, <1>2 DEF Used, Erased
<1>4. flash[c][k].part = PartOf(bad[c], k)
  BY Zenon, <1>2 DEF Readable
<1> QED
  BY <1>2, <1>3, <1>4

(* A chip that no saveenv has written satisfies the inductive invariant.   *)
LEMMA InitIInv ==
  ASSUME SetFacts, Init
  PROVE  IInv
<1>0. TypeOK
  BY Zenon, TypeInit
<1>1. /\ flash \in Flash /\ EnvBlocks \in Nat \ {0} /\ step = "idle" /\ saved = 0
      /\ \A c \in Copies, b \in Blocks : flash[c][b] = Erased
  BY Zenon, <1>0, Typing DEF Init
<1>2. \A c \in Copies : ~Readable(flash, c)
  BY Zenon, InitUnreadable
<1>3. ~Readable(flash, env_valid) /\ (Redundant => ~Readable(flash, Other(env_valid)))
  BY Zenon, <1>0, <1>2, Others, Typing
<1>4. Loaded(flash) = saved
  BY Zenon, <1>0, <1>1, <1>2, ChosenNone
<1>5. IdleInv /\ SureInv
  BY Zenon, <1>1, <1>3, <1>4 DEF IdleInv, SureInv
<1>6. OtherInv /\ CopyInv /\ EraseInv /\ WriteInv
  BY Zenon, <1>1 DEF OtherInv, CopyInv, EraseInv, WriteInv
<1> QED
  BY Zenon, <1>0, <1>5, <1>6 DEF IInv

(* Every step of setenv, saveenv and the boot keeps the inductive          *)
(* invariant.                                                              *)
LEMMA NextIInv ==
  ASSUME SetFacts, IInv, [Next]_vars, TypeOK'
  PROVE  IInv'
<1>1. CASE SetEnv
  BY Zenon, <1>1, QuietIInv DEF SetEnv
<1>2. CASE SaveBegin
  BY Zenon, <1>2, SaveBeginIInv
<1>3. CASE EraseBlock
  BY Zenon, <1>3, EraseBlockIInv
<1>4. CASE EraseDone
  BY Zenon, <1>4, EraseDoneIInv
<1>5. CASE WriteBlock
  BY Zenon, <1>5, WriteBlockIInv
<1>6. CASE WriteFails
  BY Zenon, <1>6, WriteFailsIInv
<1>7. CASE WriteShort
  BY Zenon, <1>7, WriteShortIInv
<1>8. CASE WriteDone
  BY Zenon, <1>8, WriteDoneIInv
<1>9. CASE Reset \/ PowerCut
  BY Zenon, <1>9, BootDegraded, PowerOnIInv
<1>10. CASE UNCHANGED vars
  BY Zenon, <1>10, QuietIInv DEF vars
<1> QED
  BY Zenon, <1>1, <1>2, <1>3, <1>4, <1>5, <1>6, <1>7, <1>8, <1>9, <1>10 DEF Next, SaveStep

-----------------------------------------------------------------------------
(* saveenv implements EnvStore                                             *)

(* A flash in which the same copies can be read, with the same contents,   *)
(* loads the same.                                                         *)
LEMMA SameLoaded ==
  ASSUME TypeOK, NEW fl,
         \A d \in Copies : /\ Readable(fl, d) <=> Readable(flash, d)
                           /\ Readable(flash, d) => /\ EnvOf(fl, d) = EnvOf(flash, d)
                                                    /\ Serial(fl, d) = Serial(flash, d)
  PROVE  Loaded(fl) = Loaded(flash)
<1>1. (Copies = {1} \/ Copies = {1, 2}) /\ (Redundant <=> Copies = {1, 2})
  BY Zenon, Typing
<1>2. Chosen(fl) = Chosen(flash)
  BY Zenon, <1>1 DEF Chosen
<1>3. Chosen(flash) # 0 => Chosen(flash) \in Copies /\ Readable(flash, Chosen(flash))
  BY Zenon, ChosenTyped, Typing
<1> QED
  BY Zenon, <1>2, <1>3 DEF Loaded

(* With a backup, neither an erase nor a write that does not complete      *)
(* changes what a boot would load.                                         *)
LEMMA LoadedKept ==
  ASSUME SetFacts, IInv, BackedInv, Backed, step # "idle", NEW fl \in Flash,
         block \in Blocks \ bad[copy], Spoils(fl, copy, block)
  PROVE  Loaded(fl) = Loaded(flash)
<1> DEFINE V == env_valid
<1>1. /\ TypeOK /\ OtherInv /\ CopyInv /\ WriteInv /\ copy \in Copies /\ V \in Copies
      /\ flash \in Flash /\ Redundant /\ clean /\ ~second
      /\ step \in {"idle", "erase", "write"}
  <2>1. TypeOK /\ OtherInv /\ CopyInv /\ WriteInv
    BY Zenon DEF IInv
  <2>2. copy \in Copies /\ V \in Copies /\ flash \in Flash /\ step \in {"idle", "erase", "write"}
    BY <2>1, Zenon DEF TypeOK, Flash
  <2>3. Redundant /\ clean /\ ~second
    BY Zenon DEF BackedInv, Backed
  <2> QED
    BY <2>1, <2>2, <2>3, Zenon
<1>2. /\ copy = Other(V) /\ copy # V /\ \A d \in Copies : d = V \/ d = copy
      /\ Readable(flash, V) => Succ(Serial(flash, V)) = env_flags
  BY Zenon, <1>1, Others DEF OtherInv
<1>3. ASSUME NEW d \in Copies
      PROVE  /\ Readable(fl, d) => /\ Readable(flash, d) /\ EnvOf(fl, d) = EnvOf(flash, d)
                                   /\ Serial(fl, d) = Serial(flash, d)
             /\ Readable(flash, d) /\ (d # copy \/ block \notin Used(copy)) => Readable(fl, d)
  <2>1. /\ TypeOK /\ copy \in Copies /\ block \in Blocks \ bad[copy]
        /\ fl \in Flash /\ Spoils(fl, copy, block) /\ d \in Copies
    BY Zenon, <1>1, <1>3
  <2>2. ASSUME Readable(fl, d)
        PROVE  /\ Readable(flash, d) /\ EnvOf(fl, d) = EnvOf(flash, d)
               /\ Serial(fl, d) = Serial(flash, d)
    BY <2>1, <2>2, Spoiled
  <2>3. ASSUME Readable(flash, d), d # copy \/ block \notin Used(copy)
        PROVE  Readable(fl, d)
    BY Zenon, <2>1, <2>3, Spoiled
  <2> QED
    BY <2>2, <2>3, Zenon
<1>4. CASE Before /\ Readable(flash, V)
  <2>1. Readable(flash, copy) => Succ(Serial(flash, copy)) = Serial(flash, V)
    BY Zenon, <1>1, <1>4 DEF CopyInv
  <2>2. Loaded(flash) = EnvOf(flash, V)
    BY Zenon, <1>1, <1>2, <1>4, <2>1, ChosenNewest
  <2>3. Readable(fl, V) /\ EnvOf(fl, V) = EnvOf(flash, V) /\ Serial(fl, V) = Serial(flash, V)
    <3>1. V \in Copies /\ V # copy /\ Readable(flash, V)
      BY Zenon, <1>1, <1>2, <1>4
    <3>2. Readable(fl, V)
      BY Zenon, <1>3, <3>1
    <3> QED
      BY Zenon, <1>3, <3>1, <3>2
  <2>4. Readable(fl, copy) => Succ(Serial(fl, copy)) = Serial(fl, V)
    <3> SUFFICES ASSUME Readable(fl, copy)
                 PROVE  Succ(Serial(fl, copy)) = Serial(fl, V)
      BY Zenon
    <3>1. Readable(flash, copy) /\ Serial(fl, copy) = Serial(flash, copy)
      BY Zenon, <1>1, <1>3
    <3> QED
      BY Zenon, <2>1, <2>3, <3>1
  <2>5. Loaded(fl) = EnvOf(fl, V)
    <3>1. Redundant /\ Readable(fl, Other(V)) => Succ(Serial(fl, Other(V))) = Serial(fl, V)
      BY Zenon, <1>2, <2>4
    <3> QED
      BY Zenon, <1>1, <2>3, <3>1, ChosenNewest
  <2> QED
    BY Zenon, <2>2, <2>3, <2>5
<1>5. CASE Before /\ ~Readable(flash, V)
  <2>1. ~Readable(flash, copy)
    BY Zenon, <1>5 DEF BackedInv
  <2> QED
    BY ZenonT(60), <1>1, <1>2, <1>3, <1>5, <2>1, SameLoaded
<1>6. CASE ~Before /\ block \in Used(copy)
  <2>1. step = "write"
    BY Zenon, <1>1, <1>6 DEF Before
  <2>2. block >= block
    BY SMTT(60), Conjuncts, Typing
  <2>3. flash[copy][block] = Erased
    BY Zenon, <1>1, <2>1, <2>2 DEF WriteInv
  <2>4. Spoils(flash, copy, block)
    BY Zenon, <2>3 DEF Spoils
  <2>5. ~Readable(flash, copy)
    BY Zenon, <1>1, <1>6, <2>4, Spoiled
  <2> QED
    BY Zenon, <1>1, <1>2, <1>3, <2>5, SameLoaded
<1>7. CASE block \notin Used(copy)
  <2>1. \A d \in Copies : /\ Readable(fl, d) <=> Readable(flash, d)
                          /\ Readable(flash, d) => /\ EnvOf(fl, d) = EnvOf(flash, d)
                                                   /\ Serial(fl, d) = Serial(flash, d)
    BY Zenon, <1>3, <1>7
  <2> QED
    BY Zenon, <1>1, <2>1, SameLoaded
<1> QED
  BY Zenon, <1>4, <1>5, <1>6, <1>7

(* A copy without too many bad blocks holds a whole environment.           *)
LEMMA EnoughBlocks ==
  ASSUME SetFacts, TypeOK, BackedInv, Backed, NEW c \in Copies
  PROVE  PartOf(bad[c], RangeBlocks) >= EnvBlocks
<1> DEFINE B == bad[c]
           S == 1..RangeBlocks
<1>0. B \subseteq S
  BY Zenon, Typing DEF Blocks
<1>1. /\ RangeBlocks \in Nat /\ EnvBlocks \in Nat /\ MaxBad \in Nat
      /\ EnvBlocks + MaxBad <= RangeBlocks /\ Cardinality(B) <= MaxBad
  BY Zenon, Typing DEF Backed, BackedInv
<1>2. IsFiniteSet(S) /\ Cardinality(S) = RangeBlocks
  BY Zenon, <1>1, Interval
<1>3. IsFiniteSet(B) /\ Cardinality(B) \in Nat
  BY Zenon, <1>0, <1>2, Subset
<1>4. Cardinality(S \ B) = Cardinality(S) - Cardinality(S \cap B)
  BY Zenon, <1>2, <1>3, Difference
<1>5. S \cap B = B /\ S \ B = {d \in 1..RangeBlocks : d \notin B}
  BY Zenon, <1>0
<1>6. PartOf(B, RangeBlocks) = Cardinality(S \ B)
  BY Zenon, <1>5 DEF PartOf
<1>7. Cardinality(S \ B) = RangeBlocks - Cardinality(B)
  BY ZenonT(60), <1>2, <1>4, <1>5
<1> HIDE DEF B, S
<1>8. Cardinality(S \ B) >= EnvBlocks
  BY <1>1, <1>3, <1>7
<1> QED
  BY Zenon, <1>6, <1>8 DEF B

(* Without failing blocks no attempt to save fails.                        *)
LEMMA NoFailure ==
  ASSUME SetFacts, IInv, BackedInv, Backed
  PROVE  ~WriteFails /\ ~WriteShort /\ ~Fault("erase")
<1>1. /\ TypeOK /\ WriteInv /\ copy \in Copies /\ RangeBlocks \in Nat /\ EnvBlocks \in Nat
      /\ part \in Nat /\ block \in 1..(RangeBlocks + 1)
  BY Conjuncts, Typing
<1>2. ASSUME WriteShort PROVE FALSE
  <2>1. step = "write" /\ part <= EnvBlocks /\ block - 1 = RangeBlocks
    BY SMTT(60), <1>1, <1>2 DEF WriteShort
  <2>2. part = PartOf(bad[copy], RangeBlocks) + 1 /\ PartOf(bad[copy], RangeBlocks) \in Nat
    BY Zenon, <1>1, <2>1, PartOfStep DEF WriteInv
  <2>3. PartOf(bad[copy], RangeBlocks) >= EnvBlocks
    BY Zenon, <1>1, EnoughBlocks
  <2> QED
    BY <1>1, <2>1, <2>2, <2>3
<1> QED
  BY Zenon, <1>2 DEF Backed, WriteFails, Fault

(* A step of the write loop, with a backup: it skips a bad block, or fills *)
(* an erased one and cannot have been preceded by a copy that is readable. *)
LEMMA WriteBacked ==
  ASSUME SetFacts, IInv, BackedInv, Backed, TypeOK', WriteBlock
  PROVE  \/ UNCHANGED <<flash, part>>
         \/ /\ part' # 1 /\ ~Readable(flash, copy)
            /\ \A d \in Copies : d # copy =>
                 /\ Readable(flash', d) = Readable(flash, d)
                 /\ EnvOf(flash', d) = EnvOf(flash, d) /\ Serial(flash', d) = Serial(flash, d)
<1>1. CASE UNCHANGED <<flash, part>>
  BY Zenon, <1>1
<1>2. CASE /\ block \notin bad[copy] /\ part' = part + 1
           /\ Put(IF flash[copy][block] = Erased THEN Part(ram, part, env_flags) ELSE Junk)
  <2>1. /\ TypeOK /\ Writing /\ clean /\ WriteInv /\ copy \in Copies /\ flash \in Flash
        /\ step = "write" /\ UNCHANGED <<setup, bad>> /\ part \in Nat /\ part > 0
    BY SMTT(60), Conjuncts, Typing DEF WriteBlock, Writing, BackedInv, Rest
  <2>2. block \in Blocks \ bad[copy] /\ block \in Used(copy) /\ flash' \in Flash
    BY ZenonT(60), <1>2, <2>1, WritingUsed, FlashNext
  <2>3. block >= block
    BY SMTT(60), <2>1, Typing
  <2>4. flash[copy][block] = Erased
    BY Zenon, <2>1, <2>2, <2>3 DEF WriteInv
  <2>5. Spoils(flash, copy, block)
    BY Zenon, <2>4 DEF Spoils
  <2>6. ~Readable(flash, copy)
    BY Zenon, <2>1, <2>2, <2>5, Spoiled
  <2>7. \A e \in Copies \ {copy} : flash'[e] = flash[e]
    BY Zenon, <1>2, <2>1 DEF Put, Flash
  <2>8. part' # 1
    BY SMTT(60), <1>2, <2>1
  <2> QED
    BY ZenonT(60), <2>1, <2>2, <2>6, <2>7, <2>8, OtherKept
<1> QED
  BY Zenon, <1>1, <1>2 DEF WriteBlock

(* While the other copy backs saveenv up, every step keeps one copy a boot *)
(* can load.                                                               *)
LEMMA NextBacked ==
  ASSUME SetFacts, IInv, TypeOK', BackedInv, [Next]_vars
  PROVE  BackedInv'
<1> SUFFICES ASSUME Backed
             PROVE  /\ clean' /\ (step' # "idle" => ~second')
                    /\ ~Readable(flash', env_valid') =>
                         IF step' = "idle" THEN ~Readable(flash', Other(env_valid'))
                         ELSE Before' => ~Readable(flash', copy')
  <2>1. UNCHANGED <<setup, bad>> /\ Backed' = Backed /\ MaxBad' = MaxBad
    BY Zenon, SetupKept
  <2>2. Copies' = Copies /\ \A d : Readable(flash, d)' = Readable(flash', d)
    BY Zenon, <2>1, Stable
  <2> QED
    BY Zenon, <2>1, <2>2 DEF BackedInv, Other
<1>1. /\ TypeOK /\ OtherInv /\ Redundant /\ clean /\ (step # "idle" => ~second)
      /\ copy \in Copies /\ env_valid \in Copies
      /\ ~Readable(flash, env_valid) =>
           IF step = "idle" THEN ~Readable(flash, Other(env_valid))
           ELSE Before => ~Readable(flash, copy)
  BY Zenon, Conjuncts, Typing DEF BackedInv, Backed
<1>2. /\ Other(env_valid) \in Copies /\ Other(env_valid) # env_valid
      /\ step # "idle" => copy = Other(env_valid)
  BY Zenon, <1>1, Others DEF OtherInv
<1>3. CASE SetEnv
  BY Zenon, <1>1, <1>3 DEF SetEnv, saveVars
<1>4. CASE SaveBegin
  <2>1. copy' = Other(env_valid)
    BY Zenon, <1>1, <1>4, Others DEF SaveBegin, Other
  <2> QED
    BY Zenon, <1>1, <1>4, <2>1 DEF SaveBegin
<1>5. CASE EraseBlock
  <2>1. clean' /\ step # "idle" /\ UNCHANGED <<step, part, env_valid, copy, second>>
    BY Zenon, <1>1, <1>5, NoFailure DEF EraseBlock, NextBlock
  <2>2. /\ Readable(flash, env_valid) => Readable(flash', env_valid)
        /\ Readable(flash', copy) => Readable(flash, copy)
    BY Zenon, <1>1, <1>2, <1>5, <2>1, EraseFlash
  <2> QED
    BY Zenon, <1>1, <2>1, <2>2 DEF Before
<1>6. CASE EraseDone
  BY Zenon, <1>1, <1>6 DEF EraseDone, Before
<1>7. CASE WriteBlock
  <2>1. clean' /\ step = "write" /\ UNCHANGED <<step, env_valid, copy, second>>
    BY Zenon, <1>1, <1>7 DEF WriteBlock, Writing, NextBlock
  <2> QED
    BY Zenon, <1>1, <1>2, <1>7, <2>1, WriteBacked DEF Before
<1>8. CASE WriteDone
  <2>1. /\ clean' /\ step' = "idle" /\ env_valid' = Other(env_valid) /\ UNCHANGED flash
        /\ step = "write" /\ part > EnvBlocks
    BY Zenon, <1>1, <1>8 DEF WriteDone
  <2>2. Readable(flash, copy) /\ copy = env_valid'
    BY Zenon, <1>1, <1>2, <2>1, Finished
  <2> QED
    BY Zenon, <2>1, <2>2
<1>9. CASE Reset \/ PowerCut
  <2>1. PICK fl : Degraded(fl) /\ PowerOn(fl)
    BY Zenon, <1>9, BootDegraded
  <2>2. clean' /\ step' = "idle" /\ flash' = fl
    BY Zenon, <1>1, <2>1 DEF PowerOn
  <2>3. CASE \A d \in Copies : ~Readable(fl, d)
    <3>1. env_valid' = 1 /\ Other(1) \in Copies
      BY Zenon, <1>1, <2>1, <2>3, ChosenNone, Others DEF PowerOn, Other
    <3> QED
      BY Zenon, <2>2, <2>3, <3>1
  <2>4. CASE \E d \in Copies : Readable(fl, d)
    <3>1. Chosen(fl) \in Copies /\ Readable(fl, Chosen(fl))
      BY Zenon, <2>1, <2>4, BootChooses
    <3>2. Chosen(fl) # 0
      BY <1>1, <3>1, Others
    <3> QED
      BY Zenon, <1>1, <2>1, <2>2, <3>1, <3>2 DEF PowerOn
  <2> QED
    BY Zenon, <2>3, <2>4
<1>10. CASE UNCHANGED vars
  BY Zenon, <1>1, <1>10 DEF vars, saveVars, Before
<1> QED
  BY Zenon, <1>3, <1>4, <1>5, <1>6, <1>7, <1>8, <1>9, <1>10, NoFailure DEF Next, SaveStep

(* What a boot would load, step by step: an erase does not change it, a    *)
(* write leaves it or makes it the environment being saved.                *)
LEMMA EraseLoads ==
  ASSUME SetFacts, IInv, BackedInv, Backed, TypeOK', EraseBlock
  PROVE  Loaded(flash') = Loaded(flash)
<1>1. /\ TypeOK /\ flash \in Flash /\ copy \in Copies /\ UNCHANGED <<setup, bad>> /\ step # "idle"
  BY Zenon, Conjuncts, Typing DEF EraseBlock, Rest
<1>2. block \in Blocks
  BY Conjuncts, Typing DEF EraseBlock, Blocks
<1>3. CASE UNCHANGED flash
  BY Zenon, <1>3
<1>4. CASE block \notin bad[copy] /\ Put(Erased)
  <2>1. Spoils(flash', copy, block)
    BY Zenon, <1>1, <1>2, <1>4 DEF Put, Spoils, Flash
  <2> QED
    BY Zenon, <1>1, <1>2, <1>4, <2>1, FlashNext, LoadedKept
<1> QED
  BY Zenon, <1>3, <1>4 DEF EraseBlock

(* In the middle of writeenv a boot loads what it loaded before, or the    *)
(* new environment.                                                        *)
LEMMA WriteLoads ==
  ASSUME SetFacts, IInv, IInv', BackedInv, Backed, WriteBlock
  PROVE  Loaded(flash') \in {Loaded(flash), ram}
<1>1. /\ TypeOK /\ TypeOK' /\ OtherInv /\ CopyInv' /\ copy \in Copies /\ env_valid \in Copies
      /\ UNCHANGED <<setup, bad, ram, step, env_flags, env_valid, second, copy>> /\ step = "write"
      /\ step # "idle" /\ Redundant /\ ~second
  <2>1. TypeOK' /\ CopyInv'
    BY Zenon DEF IInv
  <2> QED
    BY Zenon, <2>1, Conjuncts, Typing DEF WriteBlock, Writing, NextBlock, Rest, BackedInv, Backed
<1>2. flash' \in Flash
  BY Zenon, <1>1, FlashNext
<1>3. CASE UNCHANGED <<flash, part>>
  BY Zenon, <1>3
<1>4. CASE /\ part' # 1 /\ ~Readable(flash, copy)
           /\ \A d \in Copies : d # copy =>
                /\ Readable(flash', d) = Readable(flash, d)
                /\ EnvOf(flash', d) = EnvOf(flash, d) /\ Serial(flash', d) = Serial(flash, d)
  <2>1. /\ copy = Other(env_valid) /\ Other(copy) = env_valid /\ copy # env_valid
        /\ Readable(flash, env_valid) => Succ(Serial(flash, env_valid)) = env_flags
    BY ZenonT(60), <1>1, Others DEF OtherInv
  <2>2. CASE Readable(flash', copy)
    <3>1. EnvOf(flash', copy) = ram /\ Serial(flash', copy) = env_flags
      BY Zenon, <1>1, <1>4, <2>2, Stable DEF CopyInv, Before
    <3> QED
      BY Zenon, <1>1, <1>2, <1>4, <2>1, <2>2, <3>1, ChosenNewest
  <2>3. CASE ~Readable(flash', copy)
    BY Zenon, <1>1, <1>4, <2>3, SameLoaded
  <2> QED
    BY Zenon, <2>2, <2>3
<1> QED
  BY Zenon, <1>1, <1>3, <1>4, WriteBacked

(* A power failure leaves what a boot would have loaded before it.         *)
LEMMA CutLoads ==
  ASSUME SetFacts, IInv, BackedInv, Backed, Reset \/ PowerCut
  PROVE  Loaded(flash') = Loaded(flash) /\ ram' = Loaded(flash) /\ step' = "idle"
<1>1. /\ TypeOK /\ flash \in Flash /\ copy \in Copies /\ EnvBlocks \in Nat /\ MaxEnv \in Nat
      /\ SerialMod \in Nat /\ SerialMod > 2
  BY Zenon, Conjuncts, Typing
<1>2. CASE Reset
  BY Zenon, <1>2 DEF Reset, PowerOn
<1>3. CASE PowerCut
  <2>1. PICK fl \in {flash} \cup {[flash EXCEPT ![copy][b] = Junk] :
                                    b \in {block} \cap (Blocks \ bad[copy])} : PowerOn(fl)
    BY Zenon, <1>3 DEF PowerCut
  <2>2. CASE block \in Blocks \ bad[copy] /\ fl = [flash EXCEPT ![copy][block] = Junk]
    <3>1. Junk \in Content
      BY <1>1 DEF Junk, Content
    <3>2. fl \in Flash
      BY Zenon, <1>1, <2>2, <3>1 DEF Flash
    <3>3. Spoils(fl, copy, block)
      BY Zenon, <1>1, <2>2 DEF Spoils, Flash
    <3>4. step # "idle"
      BY Zenon, <1>3 DEF PowerCut
    <3>5. Loaded(fl) = Loaded(flash)
      BY Zenon, <2>2, <3>2, <3>3, <3>4, LoadedKept
    <3> QED
      BY Zenon, <2>1, <3>5 DEF PowerOn
  <2>3. CASE fl = flash
    BY Zenon, <2>1, <2>3 DEF PowerOn
  <2> QED
    BY Zenon, <2>1, <2>2, <2>3
<1> QED
  BY Zenon, <1>2, <1>3

(* Every step of saveenv is a step of EnvStore or changes nothing of it.   *)
LEMMA StoreStep ==
  ASSUME SetFacts, IInv, IInv', BackedInv, [Next]_vars
  PROVE  [Store!StoreNext]_(Store!storeVars)
<1>0. UNCHANGED <<setup, bad>> /\ Backed' = Backed /\ Loaded(flash)' = Loaded(flash')
  BY Zenon, SetupKept, Stable
<1>1. CASE ~Backed
  BY Zenon, <1>0, <1>1 DEF Store!storeVars
<1>2. CASE Backed
  <2>1. CASE SetEnv
    <3>1. ram' \in Nat /\ step = "idle" /\ step' = "idle" /\ UNCHANGED flash
      BY <2>1, Conjuncts, Typing DEF SetEnv, saveVars
    <3> QED
      BY Zenon, <1>0, <1>2, <3>1 DEF Store!StoreNext, Store!Change
  <2>2. CASE SaveBegin
    BY Zenon, <1>0, <1>2, <2>2 DEF SaveBegin, Store!StoreNext, Store!Begin
  <2>3. CASE EraseBlock
    <3>1. Loaded(flash') = Loaded(flash) /\ UNCHANGED <<ram, step>>
      BY ZenonT(60), <1>2, <2>3, EraseLoads DEF IInv, EraseBlock, Rest
    <3> QED
      BY Zenon, <1>0, <1>2, <3>1 DEF Store!storeVars
  <2>4. CASE EraseDone
    BY Zenon, <1>0, <1>2, <2>4 DEF EraseDone, Rest, Store!storeVars
  <2>5. CASE WriteBlock
    <3>1. Loaded(flash') \in {Loaded(flash), ram}
      BY Zenon, <1>2, <2>5, WriteLoads
    <3>2. UNCHANGED <<ram, step>> /\ step # "idle"
      BY Zenon, <2>5 DEF WriteBlock, Writing, Rest
    <3> QED
      BY Zenon, <1>0, <1>2, <3>1, <3>2 DEF Store!storeVars, Store!StoreNext, Store!Commit
  <2>6. CASE WriteDone
    BY Zenon, <1>0, <1>2, <2>6 DEF WriteDone, Rest, Store!StoreNext, Store!End
  <2>7. CASE Reset \/ PowerCut
    BY Zenon, <1>0, <1>2, <2>7, CutLoads DEF Store!StoreNext, Store!Boot
  <2>8. CASE UNCHANGED vars
    BY Zenon, <1>0, <2>8 DEF vars, saveVars, Store!storeVars
  <2> QED
    BY Zenon, <1>2, <2>1, <2>2, <2>3, <2>4, <2>5, <2>6, <2>7, <2>8, NoFailure DEF Next, SaveStep
<1> QED
  BY Zenon, <1>1, <1>2

-----------------------------------------------------------------------------
(* The theorems                                                            *)

INSTANCE WellFoundedInduction

INSTANCE FiniteSetTheorems

(* Every non-empty set of naturals has a least element: the library's      *)
(* well-founded minimum, for <.                                            *)
LEMMA LeastOf ==
  ASSUME NEW T, T \subseteq Nat, T # {}
  PROVE  \E x \in T : \A y \in T : x <= y
<1> DEFINE R == {ss \in Nat \X Nat : ss[1] < ss[2]}
<1>1. IsWellFoundedOn(R, Nat)
  BY Zenon, NatLessThanWellFounded DEF OpToRel
<1> HIDE DEF R
<1>2. PICK x \in T : \A y \in T : ~ (<<y, x>> \in R)
  BY <1>1, WFMin, Zenon
<1>3. ASSUME NEW y \in T PROVE x <= y
  <2>1. x \in Nat /\ y \in Nat
    BY Zenon
  <2>2. y < x => <<y, x>> \in R
    BY Zenon, <2>1 DEF R
  <2> QED
    BY <1>2, <2>1, <2>2
<1> QED
  BY Zenon, <1>3

(* The facts the lemmas assume are theorems of the library.                *)
LEMMA Library == SetFacts
<1>1. \A T \in SUBSET Nat : T # {} => \E x \in T : \A y \in T : x <= y
  BY Zenon, LeastOf
<1>2. \A n \in Nat : IsFiniteSet(1..n) /\ Cardinality(1..n) = n
  BY FS_Interval
<1>3. \A S, T : IsFiniteSet(S) /\ T \subseteq S =>
        IsFiniteSet(T) /\ Cardinality(T) \in Nat /\ Cardinality(T) <= Cardinality(S)
  BY Zenon, FS_Subset, FS_CardinalityType
<1>4. \A S, x : IsFiniteSet(S) /\ x \notin S => Cardinality(S \cup {x}) = Cardinality(S) + 1
  BY Zenon, FS_AddElement
<1>5. \A S, T : IsFiniteSet(S) => Cardinality(S \ T) = Cardinality(S) - Cardinality(S \cap T)
  BY Zenon, FS_Difference
<1>6. Cardinality({}) = 0
  BY Zenon, FS_EmptySet
<1> QED
  BY Zenon, <1>1, <1>2, <1>3, <1>4, <1>5, <1>6 DEF SetFacts

(* Every build starts and stays well typed.                                *)
THEOREM TypeCorrect == Spec => []TypeOK
<1>1. TypeOK /\ [Next]_vars => TypeOK'
  BY Zenon, Library, TypedStep
<1> QED
  BY <1>1, TypeInit, PTL DEF Spec

(* The inductive invariant holds in every state.                           *)
LEMMA Always == Spec => []IInv
<1>1. Init => IInv
  BY Zenon, Library, InitIInv
<1>2. IInv /\ TypeOK' /\ [Next]_vars => IInv'
  BY Zenon, Library, NextIInv
<1> QED
  BY <1>1, <1>2, TypeCorrect, PTL DEF Spec

(* What saveenv reported as saved is what the next boot loads, whatever    *)
(* blocks are bad, failed or were cut off, and however often the serial    *)
(* has wrapped.                                                            *)
THEOREM SavedLoads == Spec => []SavedIsLoaded
<1>1. IInv => SavedIsLoaded
  BY Zenon, Conjuncts DEF SureInv, SavedIsLoaded
<1> QED
  BY <1>1, Always, PTL

(* No boot brings back an older environment or a mixture of two.           *)
THEOREM BootIsRecent == Spec => NeverOlder
<1> DEFINE Recent == ram' # ram /\ UNCHANGED envs => ram' \in {0, saved}
<1>1. IInv /\ [Next]_vars => [Recent]_vars
  <2> SUFFICES ASSUME IInv, Next, ram' # ram, UNCHANGED envs PROVE ram' \in {0, saved}
    BY Zenon DEF Recent
  <2>1. ~SetEnv
    BY Zenon, Conjuncts, SetEnvCounts
  <2>2. Reset \/ PowerCut
    BY Zenon, <2>1, RamKept
  <2>3. PICK fl : Degraded(fl) /\ PowerOn(fl)
    BY Zenon, <2>2, Library, BootDegraded
  <2>4. Loaded(fl) \in {0, saved, ram} /\ ram' = Loaded(fl)
    BY Zenon, <2>3, Library, BootLoads DEF PowerOn
  <2> QED
    BY Zenon, <2>4
<1> QED
  BY <1>1, Always, PTL DEF Spec, NeverOlder

(* In a build with a redundant copy, and as long as nothing but the power  *)
(* fails, saveenv replaces the environment at one instant.                 *)
THEOREM SaveIsAtomic == Spec => AtomicSave
<1>1. Init => BackedInv /\ Store!StoreInit
  <2> SUFFICES ASSUME Init PROVE BackedInv /\ Store!StoreInit
    BY Zenon
  <2>1. IInv /\ step = "idle" /\ clean /\ ram = 0
    BY Zenon, Library, InitIInv DEF Init
  <2>2. Loaded(flash) = 0
    BY Zenon, <2>1, Conjuncts DEF Init, SureInv
  <2>3. Store!StoreInit
    BY Zenon, <2>1, <2>2 DEF Store!StoreInit
  <2>4. \A c \in Copies : ~Readable(flash, c)
    BY Zenon, Library, InitUnreadable
  <2>5. Redundant => Other(env_valid) \in Copies
    BY Zenon, <2>1, Others, Conjuncts, Typing
  <2>6. \A c \in Copies : Cardinality(bad[c]) <= MaxBad
    BY Zenon DEF Init
  <2>7. Backed => Redundant
    BY Zenon DEF Backed
  <2>8. BackedInv
    BY Zenon, <2>1, <2>4, <2>5, <2>6, <2>7 DEF BackedInv
  <2> QED
    BY Zenon, <2>3, <2>8
<1>2. IInv /\ TypeOK' /\ BackedInv /\ [Next]_vars => BackedInv'
  BY Zenon, Library, NextBacked
<1>3. IInv /\ IInv' /\ BackedInv /\ [Next]_vars => [Store!StoreNext]_(Store!storeVars)
  BY Zenon, Library, StoreStep
<1> QED
  BY <1>1, <1>2, <1>3, Always, TypeCorrect, PTL DEF Spec, AtomicSave, Store!StoreSpec
=============================================================================
