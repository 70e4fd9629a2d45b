------------------------------ MODULE EnvStore ------------------------------
(***************************************************************************)
(* What saveenv with a redundant copy promises (README, on                 *)
(* CONFIG_ENV_OFFSET_REDUND): the environment in the flash is replaced by  *)
(* the one in memory at one instant, so that a power failure at any time   *)
(* leaves the old or the new one.  Environments are numbered; 0 is the     *)
(* default environment.                                                    *)
(***************************************************************************)
EXTENDS Naturals

VARIABLES
  ram,      \* the environment in memory
  saving,   \* a saveenv is running
  stored    \* the environment the next boot would find

storeVars == <<ram, saving, stored>>

StoreInit == ram = 0 /\ saving = FALSE /\ stored = 0

Change == ~saving /\ ram' \in Nat /\ UNCHANGED <<saving, stored>>
Begin  == ~saving /\ saving' = TRUE /\ UNCHANGED <<ram, stored>>
Commit == saving /\ stored' = ram /\ UNCHANGED <<ram, saving>>
End    == saving /\ saving' = FALSE /\ UNCHANGED <<ram, stored>>
Boot   == ram' = stored /\ saving' = FALSE /\ UNCHANGED stored

StoreNext == Change \/ Begin \/ Commit \/ End \/ Boot
StoreSpec == StoreInit /\ [][StoreNext]_storeVars
=============================================================================
