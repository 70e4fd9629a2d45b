------------------------------ MODULE EnvNand ------------------------------
(***************************************************************************)
(* common/env_nand.c: saveenv and env_relocate_spec on a NAND flash with   *)
(* bad blocks, blocks that fail and power failures, without and with a     *)
(* redundant copy (CONFIG_ENV_OFFSET_REDUND).  One action is one erase     *)
(* block erased or written; power may be cut between and in any of them.   *)
(*                                                                         *)
(* An environment is a number; 0 is the default environment.  A block      *)
(* holds part k of an environment; part 1 also has crc and flags (the      *)
(* serial).  The CRC is right exactly when all parts are of one            *)
(* environment: error detection is taken to be perfect.                    *)
(***************************************************************************)
EXTENDS Naturals, FiniteSets

CONSTANTS
  Setups,        \* builds and conditions: records with the fields named below
  SerialMod,     \* flags is an unsigned char: 256 in the code
  MaxEnv         \* bound on the number of environments

ASSUME EnvAssumption ==
  /\ SerialMod \in Nat /\ SerialMod > 2 /\ MaxEnv \in Nat
  /\ \A s \in Setups :
       /\ s.copies \in {{1}, {1, 2}}
       /\ s.env \in Nat \ {0} /\ s.range \in Nat /\ s.env <= s.range
       /\ s.faults \subseteq {"cut", "write", "erase"}
       /\ s.bad \in Nat /\ s.faulty \in Nat

VARIABLES
  setup,
  flash,         \* flash[c][b]: block b of copy c
  bad,           \* bad[c]: the bad blocks of copy c
  ram,           \* the environment in the hash table
  env_valid,     \* gd->env_valid: the copy that was loaded or saved last
  env_flags,
  step,          \* where saveenv is: "idle", "erase", "write"
  copy,          \* env_idx + 1
  second,        \* the other copy is being written after a failure
  block,         \* offset of the loop, as a block of the copy
  part,          \* amount_saved, as the next part
  saved,         \* history: the environment loaded last, or saved since
  sure,          \* history: no saveenv was begun since
  clean,         \* history: this saveenv has reported no erase failure
  faults, envs

saveVars == <<step, copy, second, block, part>>
vars == <<setup, flash, bad, ram, env_valid, env_flags, saveVars, saved, sure, clean, faults, envs>>

Copies      == setup.copies      \* {1, 2} with CONFIG_ENV_OFFSET_REDUND
EnvBlocks   == setup.env         \* CONFIG_ENV_SIZE, in erase blocks
RangeBlocks == setup.range       \* CONFIG_ENV_RANGE, in erase blocks
MaxBad      == setup.bad         \* bound on the number of bad blocks in one copy
Faults      == setup.faults      \* which of "cut", "write", "erase" may happen
MaxFaults   == setup.faulty      \* bound on the number of faults in a behaviour
Redundant   == 2 \in Copies
Blocks  == 1..RangeBlocks
Erased  == [env |-> 0, part |-> 0, flags |-> 0]
Junk    == [env |-> 0, part |-> EnvBlocks + 1, flags |-> 0]
Other(c) == 3 - c
Part(e, k, f) == [env |-> e, part |-> k, flags |-> IF k = 1 THEN f ELSE 0]

-----------------------------------------------------------------------------
(* Loading *)

(* Which part of the environment readenv takes from good block b, when the *)
(* bad blocks are B.                                                       *)
PartOf(B, b) == Cardinality({d \in 1..b : d \notin B})
Used(c) == {b \in Blocks \ bad[c] : PartOf(bad[c], b) <= EnvBlocks}
FirstBlock(U, B) == CHOOSE b \in U : PartOf(B, b) = 1

EnvOf(fl, c)  == fl[c][FirstBlock(Used(c), bad[c])].env
Serial(fl, c) == fl[c][FirstBlock(Used(c), bad[c])].flags

(* readenv returns 0 and the CRC is right.                                 *)
Readable(fl, c) ==
  /\ Cardinality(Used(c)) = EnvBlocks
  /\ \A b \in Used(c) : /\ fl[c][b].env = EnvOf(fl, c)
                        /\ fl[c][b].part = PartOf(bad[c], b)

(* Mutant: the wrap of the serial is not looked at.                        *)
Chosen_NoWrap(fl) ==
  IF \A c \in Copies : ~Readable(fl, c) THEN 0
  ELSE IF ~Redundant \/ ~Readable(fl, 2) THEN 1
  ELSE IF ~Readable(fl, 1) THEN 2
  ELSE IF Serial(fl, 2) > Serial(fl, 1) THEN 2 ELSE 1

(* The copy env_relocate_spec takes, 0 when there is none.                 *)
Chosen(fl) ==
  IF \A c \in Copies : ~Readable(fl, c) THEN 0
  ELSE IF ~Redundant \/ ~Readable(fl, 2) THEN 1
  ELSE IF ~Readable(fl, 1) THEN 2
  ELSE LET s1 == Serial(fl, 1)
           s2 == Serial(fl, 2)
       IN  IF s1 = SerialMod - 1 /\ s2 = 0 THEN 2
           ELSE IF s2 = SerialMod - 1 /\ s1 = 0 THEN 1
           ELSE IF s2 > s1 THEN 2 ELSE 1

(* The environment a boot finds.                                           *)
Loaded(fl) == LET c == Chosen(fl) IN IF c = 0 THEN 0 ELSE EnvOf(fl, c)

(* Power-on: env_init, then env_relocate_spec with what is in the flash.   *)
PowerOn(fl) ==
  /\ flash' = fl
  /\ ram' = Loaded(fl)
  /\ env_valid' = IF Redundant /\ Chosen(fl) # 0 THEN Chosen(fl) ELSE 1
  /\ env_flags' = IF Redundant /\ Chosen(fl) # 0 THEN Serial(fl, Chosen(fl)) ELSE 0
  /\ step' = "idle" /\ saved' = Loaded(fl) /\ sure' = TRUE
  /\ UNCHANGED <<setup, bad, copy, second, block, part, clean, envs>>

Init ==
  /\ setup \in Setups
  /\ bad \in [Copies -> {s \in SUBSET Blocks : Cardinality(s) <= MaxBad}]
  /\ flash = [c \in Copies |-> [b \in Blocks |-> Erased]]
  /\ ram = 0 /\ env_valid = 1 /\ env_flags = 0
  /\ step = "idle" /\ copy = 1 /\ second = FALSE /\ block = 1 /\ part = 1
  /\ saved = 0 /\ sure = TRUE /\ clean = TRUE /\ faults = 0 /\ envs = 0

-----------------------------------------------------------------------------
(* setenv and saveenv *)

SetEnv ==
  /\ step = "idle" /\ envs < MaxEnv
  /\ envs' = envs + 1 /\ ram' = envs + 1
  /\ UNCHANGED <<flash, setup, bad, env_valid, env_flags, saveVars, saved, sure, clean, faults>>

(* Mutant: the copy that is in use is overwritten.                         *)
SaveBegin_InPlace ==
  /\ step = "idle" /\ sure' = FALSE /\ clean' = TRUE
  /\ env_flags' = (env_flags + 1) % SerialMod
  /\ copy' = IF Redundant /\ env_valid = 2 THEN 2 ELSE 1
  /\ step' = "erase" /\ second' = FALSE /\ block' = 1 /\ part' = 1
  /\ UNCHANGED <<flash, setup, bad, ram, env_valid, saved, faults, envs>>

(* Up to the call of nand_erase_opts.                                      *)
SaveBegin ==
  /\ step = "idle" /\ sure' = FALSE /\ clean' = TRUE
  /\ env_flags' = IF Redundant THEN (env_flags + 1) % SerialMod ELSE env_flags
  /\ copy' = IF Redundant /\ env_valid = 1 THEN 2 ELSE 1
  /\ step' = "erase" /\ second' = FALSE /\ block' = 1 /\ part' = 1
  /\ UNCHANGED <<flash, setup, bad, ram, env_valid, saved, faults, envs>>

NextBlock == block' = block + 1 /\ UNCHANGED <<copy, second>>
Put(x)    == flash' = [flash EXCEPT ![copy][block] = x]
Fault(f)  == f \in Faults /\ faults < MaxFaults /\ faults' = faults + 1
Rest      == UNCHANGED <<setup, bad, ram, env_flags, envs>>

(* nand_erase_opts: bad blocks are skipped and count; an erase that fails  *)
(* is reported on the console and the loop goes on.                        *)
EraseBlock ==
  /\ step = "erase" /\ block <= RangeBlocks
  /\ \/ block \in bad[copy] /\ UNCHANGED <<flash, clean, faults>>
     \/ block \notin bad[copy] /\ Put(Erased) /\ UNCHANGED <<clean, faults>>
     \/ block \notin bad[copy] /\ Fault("erase") /\ clean' = FALSE /\ UNCHANGED flash
  /\ NextBlock /\ UNCHANGED <<step, part, env_valid, saved, sure>> /\ Rest

EraseDone ==
  /\ step = "erase" /\ block > RangeBlocks
  /\ step' = "write" /\ block' = 1 /\ part' = 1
  /\ UNCHANGED <<flash, copy, second, env_valid, saved, sure, clean, faults>> /\ Rest

Writing == step = "write" /\ part <= EnvBlocks /\ block <= RangeBlocks

(* Mutant: writeenv does not look for bad blocks.                          *)
WriteBlock_BadToo ==
  /\ Writing
  /\ Put(IF block \in bad[copy] THEN Junk ELSE Part(ram, part, env_flags))
  /\ part' = part + 1
  /\ NextBlock /\ UNCHANGED <<step, env_valid, saved, sure, clean, faults>> /\ Rest

(* nand_write: on a page that is not erased the bits of both are left.     *)
WriteBlock ==
  /\ Writing
  /\ \/ /\ block \in bad[copy] /\ UNCHANGED <<flash, part>>
     \/ /\ block \notin bad[copy] /\ part' = part + 1
        /\ Put(IF flash[copy][block] = Erased THEN Part(ram, part, env_flags) ELSE Junk)
  /\ NextBlock /\ UNCHANGED <<step, env_valid, saved, sure, clean, faults>> /\ Rest

(* saveenv after erase_and_write_env returned 1.                           *)
Failed ==
  IF Redundant /\ ~second
  THEN /\ second' = TRUE /\ copy' = Other(copy)
       /\ step' = "erase" /\ block' = 1 /\ part' = 1
  ELSE step' = "idle" /\ UNCHANGED <<copy, second, block, part>>

(* nand_write fails: writeenv returns at once.                             *)
WriteFails ==
  /\ Writing /\ block \notin bad[copy] /\ Fault("write")
  /\ Put(Junk)
  /\ Failed /\ UNCHANGED <<env_valid, saved, sure, clean>> /\ Rest

(* Too few good blocks in the range.                                       *)
WriteShort ==
  /\ step = "write" /\ part <= EnvBlocks /\ block > RangeBlocks
  /\ Failed /\ UNCHANGED <<flash, env_valid, saved, sure, clean, faults>> /\ Rest

WriteDone ==
  /\ step = "write" /\ part > EnvBlocks
  /\ step' = "idle" /\ saved' = (IF clean THEN ram ELSE Loaded(flash)) /\ sure' = clean
  /\ env_valid' = IF Redundant /\ ~second THEN Other(env_valid) ELSE env_valid
  /\ UNCHANGED <<flash, copy, second, block, part, clean, faults>> /\ Rest

-----------------------------------------------------------------------------
(* Reset and power failure *)

Reset == step = "idle" /\ PowerOn(flash) /\ UNCHANGED faults

(* In an erase or a write the block in hand is left in between.          *)
PowerCut ==
  /\ Fault("cut") /\ step # "idle"
  /\ \E fl \in {flash} \cup {[flash EXCEPT ![copy][b] = Junk] :
                               b \in {block} \cap (Blocks \ bad[copy])} :
       PowerOn(fl)

SaveStep == EraseBlock \/ EraseDone \/ WriteBlock \/ WriteFails \/ WriteShort \/ WriteDone
Next == SetEnv \/ SaveBegin \/ SaveStep \/ Reset \/ PowerCut

Spec == Init /\ [][Next]_vars
-----------------------------------------------------------------------------
(* Properties *)

Content == [env : 0..MaxEnv, part : 0..(EnvBlocks + 1), flags : 0..(SerialMod - 1)]

FlagsOK == second \in BOOLEAN /\ sure \in BOOLEAN /\ clean \in BOOLEAN

TypeOK ==
  /\ setup \in Setups
  /\ flash \in [Copies -> [Blocks -> Content]]
  /\ bad \in [Copies -> SUBSET Blocks]
  /\ ram \in 0..MaxEnv /\ saved \in 0..MaxEnv /\ envs \in 0..MaxEnv
  /\ env_valid \in Copies /\ env_flags \in 0..(SerialMod - 1)
  /\ step \in {"idle", "erase", "write"} /\ copy \in Copies /\ FlagsOK
  /\ block \in 1..(RangeBlocks + 1) /\ part \in 1..(EnvBlocks + 1)
  /\ faults \in 0..MaxFaults

(* What saveenv returned 0 for, without a failing erase on the console, is *)
(* what the next boot loads: the copy it wrote is complete, is found in    *)
(* spite of bad blocks, and is taken for the newer one although the serial *)
(* has wrapped.                                                            *)
SavedIsLoaded == sure => Loaded(flash) = saved

(* A boot loads the environment saved or loaded last, the one that was     *)
(* being saved, or the default: never an older one and never a mixture.    *)
NeverOlder == [][ram' # ram /\ UNCHANGED envs => ram' \in {0, saved}]_vars

(* Two copies with room for an environment besides the bad blocks, and     *)
(* nothing goes wrong but the power.                                       *)
Backed == Redundant /\ Faults \subseteq {"cut"} /\ EnvBlocks + MaxBad <= RangeBlocks

(* With a redundant copy and no failing block, saveenv is atomic, so that  *)
(* "there is a valid backup copy in case there is a power failure during a *)
(* saveenv operation": in these builds ram, the copy a boot would load and *)
(* whether saveenv runs change as in EnvStore.  The other builds make no   *)
(* promise, and are mapped to a store where nothing happens.               *)
Store == INSTANCE EnvStore WITH
           ram    <- IF Backed THEN ram ELSE 0,
           stored <- IF Backed THEN Loaded(flash) ELSE 0,
           saving <- Backed /\ step # "idle"
AtomicSave == Store!StoreSpec
=============================================================================
