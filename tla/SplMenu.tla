------------------------------ MODULE SplMenu ------------------------------
(***************************************************************************)
(* The SPL from power-on to the jump into U-Boot: the poll loop and the    *)
(* boot menu of spl/board_init_f_spl.c with its countdown, the downloads   *)
(* and the flash test it starts, the copy of BL2 into memory, and what     *)
(* U-Boot then does to the same flash: saveenv to CONFIG_ENV_OFFSET and    *)
(* reset.  Power may be cut at any time.                                   *)
(*                                                                         *)
(* One menu action is one pass of the loop of board_init_f_spl.  A         *)
(* download is abstracted to what it does to the flash (SplXmodem has the  *)
(* protocol): full pages in order, then either EOT, which always programs  *)
(* one page more, or a give-up.  Page p of image v is <<v, p>>.            *)
(***************************************************************************)
EXTENDS SplNand

CONSTANTS
  BL1Pages,           \* BL1_APP_SIZE
  BL2Pages,           \* BL2_APP_MAX_SIZE
  EnvBlock,           \* CONFIG_ENV_OFFSET, in blocks
  FullPages,          \* pages of an image that are full
  Tail,               \* 1 when a last, partly filled page follows them, else 0
  AUTOBOOT_TIMEOUTS,  \* 5 in the code
  SecondTicks,        \* timer ticks in a second: 100 in the code
  MaxWait,            \* where the history variable waited saturates
  Keys,               \* the keys that may be pressed
  MaxCuts,            \* bound on the number of power cuts
  MaxDownloads        \* bound on the number of downloads

ASSUME MenuAssumption ==
  /\ BL1Pages \in Nat \ {0} /\ BL2Pages \in Nat \ {0} /\ EnvBlock \in Nat
  /\ FullPages \in Nat /\ Tail \in {0, 1}
  /\ AUTOBOOT_TIMEOUTS \in Nat /\ SecondTicks \in Nat \ {0}
  /\ MaxWait \in Nat /\ MaxWait >= AUTOBOOT_TIMEOUTS * SecondTicks
  /\ MaxCuts \in Nat /\ MaxDownloads \in Nat

(* The image the board is built with: it is longer than BL1, no longer     *)
(* than what copybl2ToRamAndRun copies, and ends below the environment,    *)
(* with room for the page the EOT of a download programs.  testNandEcc     *)
(* works on block 1, so the environment is elsewhere.                      *)
ASSUME LayoutAssumption ==
  /\ BL1Pages < FullPages + Tail /\ FullPages + Tail <= BL1Pages + BL2Pages
  /\ FullPages < EnvBlock * BlockPages /\ EnvBlock # 1
  /\ (EnvBlock + 1) * BlockPages <= NPages

VARIABLES
  phase,                \* what the CPU runs: "menu", "uboot" or nothing useful
  running,              \* the image U-Boot was copied from
  menu_state, timestamp_auto_boot, auto_boot_timeout,
  g_counter, pending,   \* tim4: the count, and the interrupt status bit
  nand_address,         \* next page the download programs
  flash,
  saving,               \* saveenv has erased the environment and not written it
  waited,               \* history: ticks since the countdown began
  keyed, asked,         \* history: a key stopped the countdown; B was pressed
  installed, intact,    \* history: last complete download; nothing was begun since
  envSaved,             \* history: a saveenv has completed and none is half done
  cuts, downloads

menuVars  == <<menu_state, timestamp_auto_boot, auto_boot_timeout>>
timeVars  == <<g_counter, pending, waited>>
histVars  == <<keyed, asked, installed, intact, envSaved>>
vars == <<phase, running, menuVars, timeVars, nand_address, flash, saving,
          histVars, cuts, downloads>>

ImagePages == FullPages + Tail
BL2Area    == BL1Pages..(BL1Pages + BL2Pages - 1)
EnvArea    == (EnvBlock * BlockPages)..((EnvBlock + 1) * BlockPages - 1)
Env        == <<"env">>
Test       == <<"test">>
Junk       == <<"junk">>

Holds(fl, v, area) == \A p \in area : p < ImagePages => p < NPages /\ fl[p] = <<v, p>>
Versions == 0..MaxDownloads

Init ==
  /\ phase = "menu" /\ running = 0
  /\ menu_state = "ENTRY" /\ timestamp_auto_boot = 0
  /\ auto_boot_timeout = AUTOBOOT_TIMEOUTS
  /\ g_counter = 0 /\ pending = FALSE /\ waited = 0
  /\ nand_address = 0 /\ saving = FALSE
  /\ flash = [p \in 0..(NPages - 1) |-> IF p < ImagePages THEN <<0, p>> ELSE Erased]
  /\ keyed = FALSE /\ asked = FALSE /\ envSaved = FALSE
  /\ installed = 0 /\ intact = TRUE /\ cuts = 0 /\ downloads = 0

-----------------------------------------------------------------------------
(* The timer sets its status bit every 10 ms, however long the loop takes. *)
(* Time is followed only while the menu looks at it.                       *)
Elapse ==
  /\ phase = "menu" /\ menu_state \in {"ENTRY", "AUTO_BOOT"}
  /\ pending' = TRUE
  /\ waited' = IF menu_state = "AUTO_BOOT" /\ waited < MaxWait
               THEN waited + 1 ELSE waited
  /\ UNCHANGED <<phase, running, menuVars, g_counter, nand_address, flash, saving,
                 histVars, cuts, downloads>>

(* tim4_poll: ticks that fell between two polls count once.                *)
tim4_poll == IF pending THEN g_counter + 1 ELSE g_counter
Polled == g_counter' = tim4_poll /\ pending' = FALSE /\ UNCHANGED waited

InMenu(s) == phase = "menu" /\ menu_state = s

(* A key received in this pass is dropped.                                 *)
MenuEntry ==
  /\ InMenu("ENTRY")
  /\ menu_state' = "AUTO_BOOT" /\ timestamp_auto_boot' = 0
  /\ auto_boot_timeout' = AUTOBOOT_TIMEOUTS
  /\ Polled
  /\ UNCHANGED <<phase, running, nand_address, flash, saving, histVars, cuts, downloads>>

(* Mutant: the countdown is looked at before the key.                      *)
AutoBootKey_Late ==
  /\ InMenu("AUTO_BOOT")
  /\ menu_state' = IF auto_boot_timeout <= 0 THEN "BOOT" ELSE "CMD"
  /\ keyed' = TRUE /\ Polled
  /\ UNCHANGED <<phase, running, timestamp_auto_boot, auto_boot_timeout, nand_address,
                 flash, saving, asked, installed, intact, envSaved, cuts, downloads>>

AutoBootKey ==
  /\ InMenu("AUTO_BOOT") /\ Keys # {}
  /\ menu_state' = "CMD" /\ keyed' = TRUE
  /\ Polled
  /\ UNCHANGED <<phase, running, timestamp_auto_boot, auto_boot_timeout, nand_address,
                 flash, saving, asked, installed, intact, envSaved, cuts, downloads>>

(* Mutant: the countdown is over only below 0.                             *)
AutoBootExpired_Below ==
  /\ InMenu("AUTO_BOOT") /\ auto_boot_timeout < 0
  /\ menu_state' = "BOOT"
  /\ Polled
  /\ UNCHANGED <<phase, running, timestamp_auto_boot, auto_boot_timeout, nand_address,
                 flash, saving, histVars, cuts, downloads>>

AutoBootExpired ==
  /\ InMenu("AUTO_BOOT") /\ auto_boot_timeout <= 0
  /\ menu_state' = "BOOT"
  /\ Polled
  /\ UNCHANGED <<phase, running, timestamp_auto_boot, auto_boot_timeout, nand_address,
                 flash, saving, histVars, cuts, downloads>>

(* Mutant: the countdown does not take the time again after a second.      *)
AutoBootCount_NoRestart ==
  /\ InMenu("AUTO_BOOT") /\ auto_boot_timeout > 0
  /\ LET t0 == IF timestamp_auto_boot = 0 THEN tim4_poll ELSE timestamp_auto_boot
         second == tim4_poll - t0 >= SecondTicks
     IN  /\ auto_boot_timeout' = IF second THEN auto_boot_timeout - 1 ELSE auto_boot_timeout
         /\ timestamp_auto_boot' = t0
  /\ Polled
  /\ UNCHANGED <<phase, running, menu_state, nand_address, flash, saving, histVars,
                 cuts, downloads>>

(* timestamp_auto_boot = 0 stands for "not taken yet".                     *)
AutoBootCount ==
  /\ InMenu("AUTO_BOOT") /\ auto_boot_timeout > 0
  /\ LET t0 == IF timestamp_auto_boot = 0 THEN tim4_poll ELSE timestamp_auto_boot
         second == tim4_poll - t0 >= SecondTicks
     IN  /\ auto_boot_timeout' = IF second THEN auto_boot_timeout - 1 ELSE auto_boot_timeout
         /\ timestamp_auto_boot' = IF second THEN tim4_poll ELSE t0
  /\ Polled
  /\ UNCHANGED <<phase, running, menu_state, nand_address, flash, saving, histVars,
                 cuts, downloads>>

-----------------------------------------------------------------------------
(* MENU_CMD *)

CmdDownload ==
  /\ InMenu("CMD") /\ "d" \in Keys /\ downloads < MaxDownloads
  /\ menu_state' = "DOWNLOAD" /\ nand_address' = 0
  /\ downloads' = downloads + 1
  /\ UNCHANGED <<phase, running, timestamp_auto_boot, auto_boot_timeout, timeVars,
                 flash, saving, histVars, cuts>>

CmdBoot ==
  /\ InMenu("CMD") /\ "b" \in Keys
  /\ menu_state' = "BOOT" /\ asked' = TRUE
  /\ UNCHANGED <<phase, running, timestamp_auto_boot, auto_boot_timeout, timeVars,
                 nand_address, flash, saving, keyed, installed, intact, envSaved,
                 cuts, downloads>>

(* Mutant: TEST_BLOCK_ADDR is block 2. *)
testNandEcc_Block2 ==
  /\ InMenu("CMD") /\ "n" \in Keys
  /\ flash' = nand_write_page(nand_erase(flash, 2 * BlockPages), 2 * BlockPages, Junk)
  /\ intact' = FALSE
  /\ UNCHANGED <<phase, running, menuVars, timeVars, nand_address, saving, keyed,
                 asked, installed, envSaved, cuts, downloads>>

(* testNandEcc: erase TEST_BLOCK_ADDR (block 1), write a page, erase, write *)
(* it again with eight bits flipped.                                       *)
testNandEcc ==
  /\ InMenu("CMD") /\ "n" \in Keys
  /\ flash' = LET once == nand_write_page(nand_erase(flash, BlockPages), BlockPages, Test)
              IN  nand_write_page(nand_erase(once, BlockPages), BlockPages, Junk)
  /\ intact' = FALSE
  /\ UNCHANGED <<phase, running, menuVars, timeVars, nand_address, saving, keyed,
                 asked, installed, envSaved, cuts, downloads>>

-----------------------------------------------------------------------------
(* MENU_DOWNLOAD: doXmodemDownloading *)

DownloadPage ==
  /\ InMenu("DOWNLOAD") /\ nand_address < FullPages /\ nand_address < NPages
  /\ flash' = program_tonand(flash, nand_address, <<downloads, nand_address>>)
  /\ nand_address' = nand_address + 1
  /\ intact' = FALSE
  /\ UNCHANGED <<phase, running, menuVars, timeVars, saving, keyed, asked, installed,
                 envSaved, cuts, downloads>>

(* Mutant: a finished image is taken for installed one page too early.     *)
DownloadEot_Early ==
  /\ InMenu("DOWNLOAD") /\ nand_address + 1 >= FullPages
  /\ flash' = program_tonand(flash, nand_address, <<downloads, nand_address>>)
  /\ nand_address' = nand_address + 1 /\ menu_state' = "CMD"
  /\ installed' = downloads /\ intact' = TRUE
  /\ UNCHANGED <<phase, running, timestamp_auto_boot, auto_boot_timeout, timeVars,
                 saving, keyed, asked, envSaved, cuts, downloads>>

(* EOT: the rest of the image or, when there is none, nand_buff once more. *)
DownloadEot ==
  /\ InMenu("DOWNLOAD") /\ nand_address = FullPages
  /\ flash' = program_tonand(flash, nand_address,
                <<downloads, IF Tail = 1 THEN nand_address ELSE nand_address - 1>>)
  /\ nand_address' = nand_address + 1 /\ menu_state' = "CMD"
  /\ installed' = downloads /\ intact' = TRUE
  /\ UNCHANGED <<phase, running, timestamp_auto_boot, auto_boot_timeout, timeVars,
                 saving, keyed, asked, envSaved, cuts, downloads>>

(* The retries of xModemFSM are used up: "program finished!" all the same. *)
DownloadGiveUp ==
  /\ InMenu("DOWNLOAD")
  /\ menu_state' = "CMD"
  /\ UNCHANGED <<phase, running, timestamp_auto_boot, auto_boot_timeout, timeVars,
                 nand_address, flash, saving, histVars, cuts, downloads>>

-----------------------------------------------------------------------------
(* MENU_BOOT and U-Boot *)

(* copybl2ToRamAndRun copies BL2Pages pages, whatever NF8_ReadPage_8ECC    *)
(* returns, and jumps.  It is U-Boot that runs when these are BL2 of one   *)
(* image; the SPL does not look.                                           *)
copybl2ToRamAndRun ==
  /\ InMenu("BOOT")
  /\ IF ImagePages <= BL1Pages + BL2Pages /\ \E v \in Versions : Holds(flash, v, BL2Area)
     THEN /\ phase' = "uboot"
          /\ running' = CHOOSE v \in Versions : Holds(flash, v, BL2Area)
     ELSE phase' = "lost" /\ UNCHANGED running
  /\ UNCHANGED <<menuVars, timeVars, nand_address, flash, saving, histVars, cuts, downloads>>

(* saveenv: erase_and_write_env at CONFIG_ENV_OFFSET.                      *)
SaveEnvErase ==
  /\ phase = "uboot" /\ ~saving
  /\ flash' = nand_erase(flash, EnvBlock * BlockPages)
  /\ saving' = TRUE /\ envSaved' = FALSE
  /\ UNCHANGED <<phase, running, menuVars, timeVars, nand_address, keyed, asked,
                 installed, intact, cuts, downloads>>

SaveEnvWrite ==
  /\ phase = "uboot" /\ saving
  /\ flash' = [p \in 0..(NPages - 1) |-> IF p \in EnvArea THEN Env ELSE flash[p]]
  /\ saving' = FALSE /\ envSaved' = TRUE
  /\ UNCHANGED <<phase, running, menuVars, timeVars, nand_address, keyed, asked,
                 installed, intact, cuts, downloads>>

(* Power-on or reset: the iROM (external) loads BL1 and starts it when it  *)
(* is whole; .bss and .data are initialised again.                         *)
PowerOn(fl) ==
  /\ phase' = IF \E v \in Versions : Holds(fl, v, 0..(BL1Pages - 1)) THEN "menu" ELSE "lost"
  /\ running' = 0 /\ menu_state' = "ENTRY" /\ timestamp_auto_boot' = 0
  /\ auto_boot_timeout' = AUTOBOOT_TIMEOUTS
  /\ g_counter' = 0 /\ pending' = FALSE /\ waited' = 0 /\ nand_address' = 0
  /\ flash' = fl /\ saving' = FALSE /\ keyed' = FALSE /\ asked' = FALSE
  /\ UNCHANGED <<installed, envSaved, downloads>>

Reset == phase = "uboot" /\ ~saving /\ PowerOn(flash) /\ UNCHANGED <<intact, cuts>>

(* A cut in program_tonand leaves the block erased, or the page half       *)
(* written.                                                                *)
PowerCut ==
  /\ phase # "lost" /\ cuts < MaxCuts /\ cuts' = cuts + 1
  /\ \/ PowerOn(flash) /\ UNCHANGED intact
     \/ /\ InMenu("DOWNLOAD") /\ nand_address <= FullPages /\ intact' = FALSE
        /\ \/ PowerOn(nand_erase(flash, nand_address))
           \/ PowerOn(program_tonand(flash, nand_address, Junk))

Poll == MenuEntry \/ AutoBootKey \/ AutoBootExpired \/ AutoBootCount
          \/ CmdDownload \/ CmdBoot \/ testNandEcc
          \/ DownloadPage \/ DownloadEot \/ DownloadGiveUp \/ copybl2ToRamAndRun
Next == Elapse \/ Poll \/ SaveEnvErase \/ SaveEnvWrite \/ Reset \/ PowerCut

(* The timer runs and so does the loop; nobody need press a key.           *)
Unattended == MenuEntry \/ AutoBootExpired \/ AutoBootCount \/ copybl2ToRamAndRun
Fairness == WF_vars(Elapse) /\ WF_vars(Unattended)
Spec     == Init /\ [][Next]_vars
FairSpec == Spec /\ Fairness
-----------------------------------------------------------------------------
(* Properties *)

FlagsOK ==
  /\ pending \in BOOLEAN /\ saving \in BOOLEAN /\ keyed \in BOOLEAN
  /\ asked \in BOOLEAN /\ intact \in BOOLEAN /\ envSaved \in BOOLEAN

TypeOK ==
  /\ FlagsOK /\ phase \in {"menu", "uboot", "lost"} /\ running \in Versions
  /\ menu_state \in {"ENTRY", "AUTO_BOOT", "CMD", "DOWNLOAD", "BOOT"}
  /\ timestamp_auto_boot \in 0..g_counter /\ g_counter \in Nat
  /\ auto_boot_timeout \in 0..AUTOBOOT_TIMEOUTS
  /\ waited \in 0..MaxWait /\ nand_address \in 0..(FullPages + 1)
  /\ flash \in [0..(NPages - 1) ->
                  (Versions \X (0..FullPages)) \cup {Erased, Env, Test, Junk}]
  /\ installed \in Versions /\ cuts \in 0..MaxCuts /\ downloads \in Versions

(* "Auto boot in %d second...": the countdown never starts U-Boot before   *)
(* AUTOBOOT_TIMEOUTS seconds of real time, however the ticks fall between  *)
(* the polls and although tick 0 means "no time taken".                    *)
NotBeforeTimeout ==
  InMenu("BOOT") /\ ~asked => waited >= AUTOBOOT_TIMEOUTS * SecondTicks

(* "press any KEY to cancel!": after a pass of MENU_AUTO_BOOT that took a  *)
(* key, even the last one of the countdown, only B starts U-Boot.          *)
KeyCancels == keyed /\ (InMenu("BOOT") \/ phase = "uboot") => asked

(* While nothing was begun since the last complete download - no download, *)
(* no test - the board starts, and runs that image: saveenv, resets and    *)
(* power cuts do not matter.                                               *)
BootsInstalled ==
  intact => phase # "lost" /\ (phase = "uboot" => running = installed)

(* A saved environment stays in the params partition (128k@0x40000)        *)
(* whatever the SPL does to the bootloader partition before it.            *)
EnvKept == envSaved => \A p \in EnvArea : flash[p] = Env

(* The countdown ends: U-Boot is started or a key has brought the menu.    *)
CountdownEnds == InMenu("AUTO_BOOT") ~> ~InMenu("AUTO_BOOT")
=============================================================================
