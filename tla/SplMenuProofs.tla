--------------------------- MODULE SplMenuProofs ---------------------------
(***************************************************************************)
(* Proofs about SplMenu: the countdown, the keys, the saved environment    *)
(* and the installed image, for every flash geometry, every image that     *)
(* fits the layout, and any number of downloads and power cuts.            *)
(***************************************************************************)
EXTENDS SplMenu, TLAPS

(* The whole seconds counted and the ticks since the last one are ticks    *)
(* that really passed since the countdown began.                           *)
Since == IF timestamp_auto_boot = 0 THEN tim4_poll ELSE timestamp_auto_boot
Counted == (AUTOBOOT_TIMEOUTS - auto_boot_timeout) * SecondTicks
CountInv ==
  InMenu("AUTO_BOOT") => waited = MaxWait \/ Counted + (tim4_poll - Since) <= waited

(* Where a key that stopped the countdown leaves the menu.                 *)
KeyInv ==
  /\ keyed => menu_state \in {"CMD", "DOWNLOAD", "BOOT"}
  /\ keyed /\ menu_state = "BOOT" => asked
  /\ phase = "uboot" => menu_state = "BOOT"

(* A download has programmed the first nand_address pages of its image.    *)
DownloadInv ==
  InMenu("DOWNLOAD") =>
    /\ nand_address <= FullPages
    /\ \A p \in 0..(nand_address - 1) : flash[p] = <<downloads, p>>

(* The installed image is in the flash, page by page.                      *)
ImageInv == intact => \A p \in 0..(ImagePages - 1) : flash[p] = <<installed, p>>

-----------------------------------------------------------------------------
(* The flash operators of SplNand                                          *)

(* nand_erase and program_tonand map a chip to a chip with the same pages  *)
(* or the ones they write.                                                 *)
LEMMA FlashTyped ==
  ASSUME NEW S, Erased \in S, NEW fl \in [0..(NPages - 1) -> S],
         NEW addr \in Nat, NEW page \in S
  PROVE  /\ nand_erase(fl, addr) \in [0..(NPages - 1) -> S]
         /\ nand_write_page(fl, addr, page) \in [0..(NPages - 1) -> S]
         /\ program_tonand(fl, addr, page) \in [0..(NPages - 1) -> S]
  BY Zenon, GeometryAssumption DEF nand_erase, nand_write_page, program_tonand

(* Erasing a block, or programming a page, leaves every page alone that    *)
(* lies below it.                                                          *)
LEMMA EraseKeepsBelow ==
  ASSUME NEW fl, NEW addr \in Nat, NEW p \in 0..(NPages - 1), p < addr
  PROVE  nand_erase(fl, addr)[p] = fl[p]
  BY GeometryAssumption DEF nand_erase

(* program_tonand leaves the pages below its address alone.                *)
LEMMA ProgramKeepsBelow ==
  ASSUME NEW fl, NEW addr \in Nat, NEW page, NEW p \in 0..(NPages - 1), p < addr
  PROVE  program_tonand(fl, addr, page)[p] = fl[p]
  BY GeometryAssumption DEF nand_erase, nand_write_page, program_tonand

(* The page that is programmed is the page that is given.                  *)
LEMMA ProgramStores ==
  ASSUME NEW fl, NEW addr \in 0..(NPages - 1), NEW page
  PROVE  program_tonand(fl, addr, page)[addr] = page
  BY Zenon, GeometryAssumption DEF nand_erase, nand_write_page, program_tonand

(* A block that begins below a block boundary ends there or before it.     *)
LEMMA BlockBelow ==
  ASSUME NEW b \in Nat \ {0}, NEW k \in Nat, NEW a \in Nat, a % b = 0, a < k * b
  PROVE  a + b <= k * b
<1> DEFINE q == a \div b
<1>1. q \in Nat /\ a = q * b
  OBVIOUS
<1> HIDE DEF q
<1>2. q < k
  <2> SUFFICES ASSUME q >= k PROVE FALSE
    BY <1>1
  <2>1. q * b >= k * b
    BY <1>1
  <2> QED
    BY <1>1, <2>1
<1>3. (q + 1) * b <= k * b
  BY <1>1, <1>2
<1> QED
  BY <1>1, <1>3

-----------------------------------------------------------------------------
(* Type correctness                                                        *)

Page == (Versions \X (0..FullPages)) \cup {Erased, Env, Test, Junk}

(* No step makes a flag anything but TRUE or FALSE.                        *)
LEMMA FlagsTyped ==
  ASSUME FlagsOK, [Next]_vars
  PROVE  FlagsOK'
  BY Zenon DEF FlagsOK, Next, Poll, vars, Elapse, MenuEntry, AutoBootKey, AutoBootExpired,
     AutoBootCount, Polled, CmdDownload, CmdBoot, testNandEcc, DownloadPage,
     DownloadEot, DownloadGiveUp, copybl2ToRamAndRun, SaveEnvErase, SaveEnvWrite,
     Reset, PowerCut, PowerOn, menuVars, timeVars, histVars

(* A reset or a power cut with a well-typed flash is a well-typed state.   *)
LEMMA PowerOnTyped ==
  ASSUME TypeOK, NEW fl \in [0..(NPages - 1) -> Page], PowerOn(fl),
         FlagsOK', cuts' \in 0..MaxCuts
  PROVE  TypeOK'
<1>1. phase' \in {"menu", "uboot", "lost"} /\ flash' \in [0..(NPages - 1) -> Page]
  BY Zenon DEF PowerOn
<1>2. 0 \in Versions /\ AUTOBOOT_TIMEOUTS \in 0..AUTOBOOT_TIMEOUTS /\ 0 \in 0..MaxWait
      /\ 0 \in 0..(FullPages + 1)
  BY MenuAssumption DEF Versions
<1> QED
  BY <1>1, <1>2 DEF PowerOn, TypeOK, Page

(* tim4_poll is the count, or the next one.                                *)
LEMMA PollTyped ==
  ASSUME TypeOK
  PROVE  /\ g_counter \in Nat /\ tim4_poll \in g_counter..(g_counter + 1)
         /\ timestamp_auto_boot \in 0..tim4_poll /\ tim4_poll \in Nat
  BY DEF TypeOK, tim4_poll

(* Init and the steps of the menu, of U-Boot and of the power supply keep  *)
(* every variable in its type; the downloads write pages of an image only. *)
THEOREM TypeCorrect == Spec => []TypeOK
<1>1. Init => TypeOK
  <2> SUFFICES ASSUME Init PROVE TypeOK
    BY Zenon
  <2>1. flash \in [0..(NPages - 1) -> Page]
    BY MenuAssumption DEF Init, Page, Versions, ImagePages
  <2>2. 0 \in Versions /\ AUTOBOOT_TIMEOUTS \in 0..AUTOBOOT_TIMEOUTS /\ 0 \in 0..MaxWait
        /\ 0 \in 0..(FullPages + 1) /\ 0 \in 0..MaxCuts
    BY MenuAssumption DEF Versions
  <2>3. FlagsOK
    BY Zenon DEF Init, FlagsOK
  <2> QED
    BY <2>1, <2>2, <2>3 DEF Init, TypeOK, Page
<1>2. TypeOK /\ [Next]_vars => TypeOK'
  <2> SUFFICES ASSUME TypeOK, [Next]_vars PROVE TypeOK'
    BY Zenon
  <2> USE MenuAssumption
  <2>0. /\ flash \in [0..(NPages - 1) -> Page]
        /\ nand_address \in 0..(FullPages + 1) /\ downloads \in Versions
        /\ Erased \in Page /\ Env \in Page /\ Test \in Page /\ Junk \in Page
        /\ FlagsOK'
    BY Zenon, FlagsTyped DEF TypeOK, Page
  <2>1. CASE Elapse
    BY <2>0, <2>1 DEF Elapse, TypeOK, menuVars, histVars
  <2>2. CASE MenuEntry
    BY <2>0, <2>2, PollTyped DEF MenuEntry, Polled, TypeOK, histVars
  <2>3. CASE AutoBootKey
    BY Zenon, <2>0, <2>3, PollTyped DEF AutoBootKey, Polled, TypeOK
  <2>4. CASE AutoBootExpired
    BY Zenon, <2>0, <2>4, PollTyped DEF AutoBootExpired, Polled, TypeOK, histVars
  <2>5. CASE AutoBootCount
    <3>1. /\ auto_boot_timeout' \in 0..AUTOBOOT_TIMEOUTS
          /\ timestamp_auto_boot' \in 0..tim4_poll
      BY <2>0, <2>5, PollTyped DEF AutoBootCount, TypeOK
    <3> QED
      BY Zenon, <2>0, <2>5, <3>1, PollTyped DEF AutoBootCount, Polled, TypeOK, histVars
  <2>6. CASE CmdDownload
    BY <2>0, <2>6 DEF CmdDownload, TypeOK, timeVars, histVars, Versions
  <2>7. CASE CmdBoot
    BY Zenon, <2>0, <2>7 DEF CmdBoot, TypeOK, timeVars
  <2>8. CASE testNandEcc
    <3> DEFINE once == nand_write_page(nand_erase(flash, BlockPages), BlockPages, Test)
    <3>1. BlockPages \in Nat
      BY Zenon, GeometryAssumption
    <3>2. nand_erase(flash, BlockPages) \in [0..(NPages - 1) -> Page]
      BY Zenon, <2>0, <3>1, FlashTyped
    <3>3. once \in [0..(NPages - 1) -> Page]
      BY Zenon, <2>0, <3>1, <3>2, FlashTyped
    <3>4. nand_erase(once, BlockPages) \in [0..(NPages - 1) -> Page]
      BY Zenon, <2>0, <3>1, <3>3, FlashTyped
    <3>5. flash' \in [0..(NPages - 1) -> Page]
      BY Zenon, <2>0, <2>8, <3>1, <3>4, FlashTyped DEF testNandEcc
    <3> QED
      BY Zenon, <2>0, <2>8, <3>5 DEF testNandEcc, TypeOK, Page, menuVars, timeVars
  <2>9. CASE DownloadPage
    <3>1. <<downloads, nand_address>> \in Page /\ nand_address \in Nat
      BY <2>0, <2>9 DEF DownloadPage, Page
    <3>2. flash' \in [0..(NPages - 1) -> Page]
      BY Zenon, <2>0, <2>9, <3>1, FlashTyped DEF DownloadPage
    <3> QED
      BY <2>0, <2>9, <3>2 DEF DownloadPage, TypeOK, Page, menuVars, timeVars
  <2>10. CASE DownloadEot
    <3>1. /\ <<downloads, IF Tail = 1 THEN nand_address ELSE nand_address - 1>> \in Page
          /\ nand_address \in Nat
      BY <2>0, <2>10, LayoutAssumption DEF DownloadEot, Page
    <3>2. flash' \in [0..(NPages - 1) -> Page]
      BY Zenon, <2>0, <2>10, <3>1, FlashTyped DEF DownloadEot
    <3> QED
      BY <2>0, <2>10, <3>2 DEF DownloadEot, TypeOK, Page, timeVars
  <2>11. CASE DownloadGiveUp
    BY Zenon, <2>0, <2>11 DEF DownloadGiveUp, TypeOK, timeVars, histVars
  <2>12. CASE copybl2ToRamAndRun
    <3>1. running' \in Versions /\ phase' \in {"menu", "uboot", "lost"}
      BY Zenon, <2>0, <2>12 DEF copybl2ToRamAndRun, TypeOK
    <3> QED
      BY Zenon, <2>0, <2>12, <3>1 DEF copybl2ToRamAndRun, TypeOK, menuVars, timeVars, histVars
  <2>13. CASE SaveEnvErase
    <3>1. EnvBlock * BlockPages \in Nat
      BY GeometryAssumption
    <3>2. flash' \in [0..(NPages - 1) -> Page]
      BY Zenon, <2>0, <2>13, <3>1, FlashTyped DEF SaveEnvErase
    <3> QED
      BY Zenon, <2>0, <2>13, <3>2 DEF SaveEnvErase, TypeOK, Page, menuVars, timeVars
  <2>14. CASE SaveEnvWrite
    <3>1. flash' \in [0..(NPages - 1) -> Page]
      BY Zenon, <2>0, <2>14 DEF SaveEnvWrite
    <3> QED
      BY Zenon, <2>0, <2>14, <3>1 DEF SaveEnvWrite, TypeOK, Page, menuVars, timeVars
  <2>15. CASE Reset
    <3>1. cuts' \in 0..MaxCuts
      BY Zenon, <2>15 DEF Reset, TypeOK
    <3> QED
      BY Zenon, <2>0, <2>15, <3>1, PowerOnTyped DEF Reset
  <2>16. CASE PowerCut
    <3>1. cuts' \in 0..MaxCuts
      BY <2>16 DEF PowerCut, TypeOK
    <3>2. /\ nand_erase(flash, nand_address) \in [0..(NPages - 1) -> Page]
          /\ program_tonand(flash, nand_address, Junk) \in [0..(NPages - 1) -> Page]
      BY <2>0, FlashTyped
    <3> QED
      BY Zenon, <2>0, <2>16, <3>1, <3>2, PowerOnTyped DEF PowerCut
  <2>17. CASE UNCHANGED vars
    BY Zenon, <2>0, <2>17 DEF vars, TypeOK, menuVars, timeVars, histVars
  <2> QED
    BY Zenon, <2>1, <2>2, <2>3, <2>4, <2>5, <2>6, <2>7, <2>8, <2>9, <2>10, <2>11, <2>12,
       <2>13, <2>14, <2>15, <2>16, <2>17 DEF Next, Poll
<1> QED
  BY <1>1, <1>2, PTL DEF Spec

-----------------------------------------------------------------------------
(* The countdown and the keys                                              *)

CountdownInv == CountInv /\ KeyInv /\ NotBeforeTimeout

(* A second more counted is SecondTicks ticks more.                        *)
LEMMA SecondCounted ==
  ASSUME NEW t \in Int, NEW k \in Int, NEW s \in Int
  PROVE  (t - (k - 1)) * s = (t - k) * s + s
  OBVIOUS

(* A pass of the countdown counts no tick that has not passed: the second  *)
(* that ends takes the ticks since the last one.                           *)
LEMMA CountPass ==
  ASSUME TypeOK, CountInv, AutoBootCount
  PROVE  CountInv'
<1> DEFINE A == AUTOBOOT_TIMEOUTS
           t == tim4_poll
           left == auto_boot_timeout
<1>1. /\ t \in Nat /\ left \in Nat /\ SecondTicks \in Nat \ {0} /\ A \in Nat
      /\ timestamp_auto_boot \in 0..t /\ waited \in Nat
  BY PollTyped, MenuAssumption DEF TypeOK
<1>2. Since \in 0..t
  BY <1>1 DEF Since
<1>3. /\ g_counter' = t /\ pending' = FALSE /\ waited' = waited
      /\ IF t - Since >= SecondTicks
         THEN auto_boot_timeout' = left - 1 /\ timestamp_auto_boot' = t
         ELSE auto_boot_timeout' = left /\ timestamp_auto_boot' = Since
  BY Zenon DEF AutoBootCount, Polled, Since
<1>4. tim4_poll' = t
  BY Zenon, <1>3 DEF tim4_poll
<1>5. waited = MaxWait \/ (A - left) * SecondTicks + (t - Since) <= waited
  BY Zenon DEF CountInv, Counted, AutoBootCount
<1> HIDE DEF t, left
<1>6. CASE t - Since >= SecondTicks
  <2>1. Since' = t
    BY Zenon, <1>3, <1>4, <1>6 DEF Since
  <2>2. Counted' = (A - left) * SecondTicks + SecondTicks
    BY <1>1, <1>3, <1>6, SecondCounted DEF Counted
  <2>3. (A - left) * SecondTicks \in Int
    BY <1>1
  <2> QED
    BY <1>1, <1>2, <1>3, <1>4, <1>5, <1>6, <2>1, <2>2, <2>3 DEF CountInv
<1>7. CASE ~(t - Since >= SecondTicks)
  <2>1. Since' = Since
    BY Zenon, <1>1, <1>2, <1>3, <1>4, <1>7 DEF Since, t
  <2>2. Counted' = (A - left) * SecondTicks
    BY Zenon, <1>3, <1>7 DEF Counted
  <2> QED
    BY Zenon, <1>3, <1>4, <1>5, <2>1, <2>2 DEF CountInv
<1> QED
  BY Zenon, <1>6, <1>7

(* A tick is counted at most once, and it has passed.                      *)
LEMMA CountTick ==
  ASSUME TypeOK, CountInv, Elapse
  PROVE  CountInv'
<1>1. /\ tim4_poll \in Nat /\ timestamp_auto_boot \in 0..tim4_poll
      /\ g_counter \in Nat /\ waited \in 0..MaxWait /\ MaxWait \in Nat
      /\ tim4_poll <= g_counter + 1
  BY PollTyped, MenuAssumption DEF TypeOK
<1>2. tim4_poll' = g_counter + 1
  BY Zenon DEF Elapse, tim4_poll
<1>3. Counted' = Counted /\ Counted \in Int
  BY MenuAssumption DEF Elapse, Counted, menuVars, TypeOK
<1>4. tim4_poll' - Since' <= (tim4_poll - Since) + 1
  BY <1>1, <1>2 DEF Since, Elapse, menuVars, tim4_poll
<1>5. tim4_poll - Since \in Nat
  BY <1>1 DEF Since
<1>6. tim4_poll' - Since' \in Int
  BY <1>1, <1>2 DEF Since, Elapse, menuVars
<1>7. CASE menu_state = "AUTO_BOOT" /\ waited < MaxWait
  <2>1. waited' = waited + 1 /\ waited # MaxWait
    BY <1>1, <1>7 DEF Elapse
  <2>2. Counted + (tim4_poll - Since) <= waited
    BY Zenon, <1>7, <2>1 DEF CountInv, Elapse, InMenu
  <2>3. Counted' + (tim4_poll' - Since') <= waited'
    BY <1>1, <1>3, <1>4, <1>5, <1>6, <2>1, <2>2
  <2> QED
    BY Zenon, <2>3 DEF CountInv
<1>8. CASE menu_state = "AUTO_BOOT" /\ ~(waited < MaxWait)
  <2>1. waited' = MaxWait
    BY <1>1, <1>8 DEF Elapse
  <2> QED
    BY Zenon, <2>1 DEF CountInv
<1>9. CASE menu_state # "AUTO_BOOT"
  BY Zenon, <1>9 DEF CountInv, InMenu, Elapse, menuVars
<1> QED
  BY Zenon, <1>7, <1>8, <1>9

(* The countdown invariant is kept by every step.                          *)
LEMMA CountdownStep ==
  ASSUME TypeOK, CountdownInv, [Next]_vars
  PROVE  CountdownInv'
<1> USE DEF InMenu
<1>0. CountInv /\ KeyInv /\ NotBeforeTimeout
  BY Zenon DEF CountdownInv
<1>1. CASE Elapse
  <2>1. KeyInv' /\ NotBeforeTimeout'
    BY Zenon, <1>0, <1>1 DEF KeyInv, NotBeforeTimeout, Elapse, menuVars, histVars
  <2> QED
    BY Zenon, <1>0, <1>1, <2>1, CountTick DEF CountdownInv
<1>2. CASE MenuEntry
  <2>1. KeyInv' /\ NotBeforeTimeout'
    BY Zenon, <1>0, <1>2 DEF KeyInv, NotBeforeTimeout, MenuEntry, histVars
  <2>2. /\ g_counter' = tim4_poll /\ pending' = FALSE /\ waited' = waited
        /\ timestamp_auto_boot' = 0
    BY Zenon, <1>2 DEF MenuEntry, Polled
  <2>3. tim4_poll' \in Nat /\ waited' \in Nat
    BY <2>2, PollTyped, MenuAssumption DEF tim4_poll, TypeOK
  <2>4. Since' = tim4_poll' /\ Since' \in Nat
    BY Zenon, <2>2, <2>3 DEF Since
  <2>5. Counted' = 0
    BY <1>2, MenuAssumption DEF MenuEntry, Counted
  <2>6. Counted' + (tim4_poll' - Since') <= waited'
    <3>1. \A t, w \in Nat : 0 + (t - t) <= w
      OBVIOUS
    <3> QED
      BY <2>3, <2>4, <2>5, <3>1, Zenon
  <2> QED
    BY Zenon, <2>1, <2>6 DEF CountdownInv, CountInv
<1>3. CASE AutoBootKey
  BY Zenon, <1>0, <1>3 DEF CountdownInv, CountInv, KeyInv, NotBeforeTimeout, AutoBootKey
<1>4. CASE AutoBootExpired
  <2>1. KeyInv' /\ CountInv'
    BY Zenon, <1>0, <1>4 DEF KeyInv, CountInv, AutoBootExpired, histVars
  <2>2. Counted = AUTOBOOT_TIMEOUTS * SecondTicks
    BY <1>4, MenuAssumption DEF Counted, AutoBootExpired, TypeOK
  <2>3. /\ tim4_poll - Since \in Nat /\ Counted \in Int /\ waited \in Nat
        /\ MaxWait \in Nat /\ MaxWait >= Counted
    BY <2>2, PollTyped, MenuAssumption DEF Since, TypeOK
  <2>4. waited = MaxWait \/ Counted + (tim4_poll - Since) <= waited
    BY Zenon, <1>0, <1>4 DEF CountInv, AutoBootExpired
  <2>5. waited >= Counted
    BY <2>3, <2>4
  <2> QED
    BY Zenon, <1>4, <2>1, <2>2, <2>5 DEF CountdownInv, NotBeforeTimeout, AutoBootExpired, Polled
<1>5. CASE AutoBootCount
  <2>1. KeyInv' /\ NotBeforeTimeout'
    BY Zenon, <1>0, <1>5 DEF KeyInv, NotBeforeTimeout, AutoBootCount, histVars
  <2> QED
    BY Zenon, <1>0, <1>5, <2>1, CountPass DEF CountdownInv
<1>6. CASE CmdDownload \/ CmdBoot \/ testNandEcc
  BY Zenon, <1>0, <1>6 DEF CountdownInv, CountInv, KeyInv, NotBeforeTimeout, CmdDownload, CmdBoot,
     testNandEcc, menuVars, timeVars, histVars
<1>7. CASE DownloadPage \/ DownloadEot \/ DownloadGiveUp
  BY Zenon, <1>0, <1>7 DEF CountdownInv, CountInv, KeyInv, NotBeforeTimeout, DownloadPage,
     DownloadEot, DownloadGiveUp, menuVars, timeVars, histVars
<1>8. CASE copybl2ToRamAndRun
  BY Zenon, <1>0, <1>8 DEF CountdownInv, CountInv, KeyInv, NotBeforeTimeout, copybl2ToRamAndRun,
     menuVars, timeVars, histVars
<1>9. CASE SaveEnvErase \/ SaveEnvWrite
  BY <1>0, <1>9 DEF CountdownInv, CountInv, KeyInv, NotBeforeTimeout, SaveEnvErase,
     SaveEnvWrite, menuVars, timeVars, histVars
<1>10. CASE Reset \/ PowerCut
  <2>1. /\ menu_state' = "ENTRY" /\ keyed' = FALSE
        /\ phase' = "menu" \/ phase' = "lost"
    BY Zenon, <1>10 DEF Reset, PowerCut, PowerOn
  <2> QED
    BY Zenon, <2>1 DEF CountdownInv, CountInv, KeyInv, NotBeforeTimeout
<1>11. CASE UNCHANGED vars
  BY Zenon, <1>0, <1>11 DEF vars, menuVars, timeVars, histVars, CountdownInv, CountInv, KeyInv,
     NotBeforeTimeout, Counted, Since, tim4_poll
<1> QED
  BY Zenon, <1>1, <1>2, <1>3, <1>4, <1>5, <1>6, <1>7, <1>8, <1>9, <1>10, <1>11 DEF Next, Poll

(* The countdown invariant holds in every state of the menu.               *)
LEMMA CountdownAlways == Spec => []CountdownInv
<1>1. Init => CountdownInv
  BY Zenon DEF Init, CountdownInv, CountInv, KeyInv, NotBeforeTimeout, InMenu
<1>2. TypeOK /\ CountdownInv /\ [Next]_vars => CountdownInv'
  BY Zenon, CountdownStep
<1> QED
  BY <1>1, <1>2, TypeCorrect, PTL DEF Spec

(* The countdown starts U-Boot only after AUTOBOOT_TIMEOUTS whole seconds, *)
(* whatever ticks tim4_poll loses between two polls of the menu loop.      *)
THEOREM AutoBootWaits == Spec => []NotBeforeTimeout
<1>1. CountdownInv => NotBeforeTimeout
  BY Zenon DEF CountdownInv
<1> QED
  BY <1>1, CountdownAlways, PTL

(* After a key has stopped the countdown only B starts U-Boot.             *)
THEOREM KeyStopsBoot == Spec => []KeyCancels
<1>1. CountdownInv => KeyCancels
  BY Zenon DEF CountdownInv, KeyInv, KeyCancels, InMenu
<1> QED
  BY <1>1, CountdownAlways, PTL

-----------------------------------------------------------------------------
(* The environment and the installed image                                 *)

FlashInv == DownloadInv /\ ImageInv /\ EnvKept /\ BootsInstalled

EnvStart == EnvBlock * BlockPages

(* The image ends where the environment begins, or before.                 *)
LEMMA Layout ==
  /\ EnvStart \in Nat /\ EnvStart % BlockPages = 0 /\ EnvStart >= 2 * BlockPages
  /\ EnvArea = EnvStart..(EnvStart + BlockPages - 1)
  /\ EnvStart + BlockPages <= NPages
  /\ ImagePages \in Nat /\ FullPages < EnvStart /\ ImagePages <= EnvStart
<1> USE MenuAssumption, GeometryAssumption
<1>1. EnvStart \in Nat /\ EnvStart % BlockPages = 0
  BY DEF EnvStart
<1>2. (EnvBlock + 1) * BlockPages = EnvStart + BlockPages
  BY DEF EnvStart
<1>3. EnvBlock >= 2
  <2>1. EnvBlock # 0
    BY LayoutAssumption
  <2> QED
    BY <2>1, LayoutAssumption
<1>4. EnvStart >= 2 * BlockPages
  BY <1>3 DEF EnvStart
<1>5. FullPages < EnvStart /\ EnvStart + BlockPages <= NPages
  BY Zenon, <1>2, LayoutAssumption DEF EnvStart
<1>6. EnvArea = EnvStart..(EnvStart + BlockPages - 1)
  BY <1>2 DEF EnvArea, EnvStart
<1>7. ImagePages \in Nat /\ ImagePages <= EnvStart
  BY <1>1, <1>5 DEF ImagePages
<1> QED
  BY Zenon, <1>1, <1>4, <1>5, <1>6, <1>7

(* What a download does to the flash ends below the environment.           *)
LEMMA DownloadKeepsEnv ==
  ASSUME NEW fl, NEW addr \in 0..FullPages, NEW page, NEW p \in EnvArea
  PROVE  nand_erase(fl, addr)[p] = fl[p] /\ program_tonand(fl, addr, page)[p] = fl[p]
<1> USE GeometryAssumption, MenuAssumption
<1>1. p \in 0..(NPages - 1) /\ p >= EnvStart /\ addr < EnvStart /\ addr \in Nat
  BY Layout
<1>2. CASE addr % BlockPages = 0
  <2>1. addr + BlockPages <= EnvBlock * BlockPages
    BY <1>1, <1>2, BlockBelow, Zenon DEF EnvStart
  <2>2. p >= addr + BlockPages
    <3>1. addr + BlockPages <= EnvStart /\ EnvStart \in Nat
      BY Zenon, <2>1, Layout DEF EnvStart
    <3> QED
      BY <1>1, <3>1
  <2> QED
    BY <1>1, <2>2 DEF nand_erase, nand_write_page, program_tonand
<1>3. CASE addr % BlockPages # 0
  <2>1. p > addr
    BY <1>1, Layout
  <2> QED
    BY <1>1, <1>3, <2>1 DEF nand_erase, nand_write_page, program_tonand
<1> QED
  BY Zenon, <1>2, <1>3

(* testNandEcc keeps to block 1.                                           *)
LEMMA TestKeepsEnv ==
  ASSUME NEW fl, NEW page, NEW p \in EnvArea
  PROVE  nand_write_page(nand_erase(fl, BlockPages), BlockPages, page)[p] = fl[p]
<1>1. p \in 0..(NPages - 1) /\ p >= 2 * BlockPages
  BY Layout, GeometryAssumption
<1> QED
  BY <1>1, GeometryAssumption DEF nand_erase, nand_write_page

(* saveenv keeps to the environment.                                       *)
LEMMA SaveKeepsImage ==
  ASSUME NEW fl, NEW p \in 0..(ImagePages - 1)
  PROVE  p \in 0..(NPages - 1) /\ p \notin EnvArea /\ nand_erase(fl, EnvStart)[p] = fl[p]
<1>1. p \in 0..(NPages - 1) /\ p < EnvStart
  BY Layout, GeometryAssumption
<1>2. p \notin EnvArea
  BY <1>1, Layout
<1> QED
  BY Zenon, <1>1, <1>2, Layout, EraseKeepsBelow

(* A whole image holds in BL1's pages and in BL2's, and in BL2's only one  *)
(* image can.                                                              *)
LEMMA WholeImage ==
  ASSUME NEW fl, NEW v, \A p \in 0..(ImagePages - 1) : fl[p] = <<v, p>>
  PROVE  /\ Holds(fl, v, 0..(BL1Pages - 1)) /\ Holds(fl, v, BL2Area)
         /\ \A w : Holds(fl, w, BL2Area) => w = v
<1>1. ImagePages \in Nat /\ ImagePages <= NPages /\ BL1Pages < ImagePages
  BY Layout, LayoutAssumption, GeometryAssumption DEF ImagePages
<1>2. Holds(fl, v, 0..(BL1Pages - 1)) /\ Holds(fl, v, BL2Area)
  BY <1>1, MenuAssumption, GeometryAssumption DEF Holds, BL2Area
<1>3. ASSUME NEW w, Holds(fl, w, BL2Area) PROVE w = v
  <2>1. BL1Pages \in BL2Area /\ BL1Pages \in 0..(ImagePages - 1)
    BY <1>1, MenuAssumption DEF BL2Area
  <2>2. fl[BL1Pages] = <<w, BL1Pages>>
    BY Zenon, <1>1, <1>3, <2>1 DEF Holds
  <2>3. fl[BL1Pages] = <<v, BL1Pages>>
    BY Zenon, <2>1
  <2> QED
    BY <2>2, <2>3
<1> QED
  BY Zenon, <1>2, <1>3

(* Power-on with a flash that has the image and the environment starts the *)
(* menu.                                                                   *)
LEMMA PowerOnFlash ==
  ASSUME TypeOK, NEW fl, PowerOn(fl),
         intact' => \A p \in 0..(ImagePages - 1) : fl[p] = <<installed, p>>,
         envSaved => \A p \in EnvArea : fl[p] = Env
  PROVE  FlashInv'
<1>1. flash' = fl /\ installed' = installed /\ envSaved' = envSaved /\ menu_state' = "ENTRY"
  BY Zenon DEF PowerOn
<1>2. DownloadInv' /\ ImageInv' /\ EnvKept'
  BY Zenon, <1>1 DEF DownloadInv, InMenu, ImageInv, EnvKept
<1>3. ASSUME intact' PROVE phase' = "menu"
  <2>1. Holds(fl, installed, 0..(BL1Pages - 1))
    BY Zenon, <1>3, WholeImage
  <2> QED
    BY Zenon, <2>1 DEF PowerOn, TypeOK
<1>4. BootsInstalled'
  BY Zenon, <1>3 DEF BootsInstalled
<1> QED
  BY Zenon, <1>2, <1>4 DEF FlashInv

(* Steps that touch neither the flash nor what is known of it.             *)
LEMMA FlashUntouched ==
  ASSUME FlashInv, UNCHANGED <<flash, installed, intact, envSaved>>,
         InMenu("DOWNLOAD")' => InMenu("DOWNLOAD") /\ UNCHANGED <<nand_address, downloads>>,
         phase' # "lost" \/ phase' = phase,
         phase' = "uboot" => phase = "uboot" /\ running' = running
  PROVE  FlashInv'
<1>1. DownloadInv'
  BY Zenon DEF FlashInv, DownloadInv
<1>2. ImageInv' /\ EnvKept'
  BY Zenon DEF FlashInv, ImageInv, EnvKept
<1>3. BootsInstalled'
  BY Zenon DEF FlashInv, BootsInstalled
<1> QED
  BY Zenon, <1>1, <1>2, <1>3 DEF FlashInv

(* One step per action: no menu choice of the loader breaks the invariant  *)
(* about the flash.                                                        *)
LEMMA FlashStep ==
  ASSUME TypeOK, FlashInv, [Next]_vars
  PROVE  FlashInv'
<1>0. /\ DownloadInv /\ ImageInv /\ EnvKept /\ BootsInstalled
      /\ FullPages \in Nat /\ nand_address \in Nat /\ Tail \in {0, 1}
  BY MenuAssumption DEF FlashInv, TypeOK
<1>1. CASE Elapse
  BY Zenon, <1>1, FlashUntouched DEF Elapse, menuVars, histVars, InMenu
<1>2. CASE MenuEntry
  BY Zenon, <1>2, FlashUntouched DEF MenuEntry, histVars, InMenu
<1>3. CASE AutoBootKey
  BY Zenon, <1>3, FlashUntouched DEF AutoBootKey, InMenu
<1>4. CASE AutoBootExpired
  BY Zenon, <1>4, FlashUntouched DEF AutoBootExpired, histVars, InMenu
<1>5. CASE AutoBootCount
  BY Zenon, <1>5, FlashUntouched DEF AutoBootCount, histVars, InMenu
<1>6. CASE CmdDownload
  <2>1. /\ UNCHANGED <<flash, installed, intact, envSaved, phase, running>>
        /\ nand_address' = 0
    BY Zenon, <1>6 DEF CmdDownload, histVars
  <2>2. DownloadInv'
    BY <1>0, <2>1 DEF DownloadInv
  <2>3. ImageInv' /\ EnvKept' /\ BootsInstalled'
    BY Zenon, <1>0, <2>1 DEF ImageInv, EnvKept, BootsInstalled
  <2> QED
    BY Zenon, <2>2, <2>3 DEF FlashInv
<1>7. CASE CmdBoot
  BY Zenon, <1>7, FlashUntouched DEF CmdBoot, InMenu
<1>8. CASE testNandEcc
  <2>1. EnvKept'
    BY <1>0, <1>8, TestKeepsEnv DEF testNandEcc, EnvKept
  <2>2. DownloadInv' /\ ImageInv' /\ BootsInstalled'
    BY Zenon, <1>8 DEF testNandEcc, DownloadInv, ImageInv, BootsInstalled, InMenu, menuVars
  <2> QED
    BY Zenon, <2>1, <2>2 DEF FlashInv
<1>9. CASE DownloadPage
  <2> DEFINE a == nand_address
  <2>1. /\ a \in 0..FullPages /\ a \in 0..(NPages - 1) /\ nand_address' = a + 1
        /\ a < FullPages /\ downloads' = downloads
        /\ flash' = program_tonand(flash, a, <<downloads, a>>)
    BY <1>0, <1>9, GeometryAssumption DEF DownloadPage
  <2>2. EnvKept'
    BY <1>0, <1>9, <2>1, DownloadKeepsEnv DEF DownloadPage, EnvKept
  <2>3. ASSUME NEW p \in 0..a PROVE flash'[p] = <<downloads, p>>
    <3>1. CASE p = a
      BY Zenon, <2>1, <3>1, ProgramStores
    <3>2. CASE p < a
      <4>1. flash[p] = <<downloads, p>>
        BY <1>0, <1>9, <2>1, <3>2 DEF DownloadInv, DownloadPage
      <4>2. p \in 0..(NPages - 1)
        BY <2>1, <3>2, GeometryAssumption
      <4> QED
        BY Zenon, <1>0, <2>1, <3>2, <4>1, <4>2, ProgramKeepsBelow
    <3> QED
      BY <2>1, <3>1, <3>2
  <2>4. DownloadInv'
    BY <1>0, <2>1, <2>3 DEF DownloadInv
  <2>5. ImageInv' /\ BootsInstalled'
    BY Zenon, <1>9 DEF DownloadPage, ImageInv, BootsInstalled
  <2> QED
    BY Zenon, <2>2, <2>4, <2>5 DEF FlashInv
<1>10. CASE DownloadEot
  <2> DEFINE a == nand_address
             page == <<downloads, IF Tail = 1 THEN a ELSE a - 1>>
  <2>1. /\ a = FullPages /\ a \in Nat /\ a \in 0..FullPages /\ a \in 0..(NPages - 1)
        /\ installed' = downloads /\ flash' = program_tonand(flash, a, page)
    BY <1>0, <1>10, Layout, GeometryAssumption DEF DownloadEot
  <2> HIDE DEF a, page
  <2>2. EnvKept'
    <3>1. ASSUME NEW p \in EnvArea PROVE flash'[p] = flash[p]
      BY <2>1, DownloadKeepsEnv
    <3> QED
      BY Zenon, <1>0, <1>10, <3>1 DEF DownloadEot, EnvKept
  <2>3. ASSUME NEW p \in 0..(ImagePages - 1) PROVE flash'[p] = <<downloads, p>>
    <3>1. CASE p = a
      <4>1. Tail = 1
        BY <1>0, <2>1, <3>1 DEF ImagePages
      <4> QED
        BY <2>1, <3>1, <4>1, ProgramStores DEF page
    <3>2. CASE p < a
      <4>1. flash[p] = <<downloads, p>>
        BY <1>0, <1>10, <2>1, <3>2 DEF DownloadInv, DownloadEot, a
      <4>2. p \in 0..(NPages - 1)
        BY <2>1, <3>2, GeometryAssumption
      <4>3. program_tonand(flash, a, page)[p] = flash[p]
        BY ZenonT(60), <2>1, <3>2, <4>2, ProgramKeepsBelow
      <4> QED
        BY Zenon, <2>1, <4>1, <4>3
    <3>3. p <= a
      BY <1>0, <2>1 DEF ImagePages
    <3> QED
      BY <2>1, <3>1, <3>2, <3>3, Layout
  <2>4. ImageInv'
    BY Zenon, <2>1, <2>3 DEF ImageInv
  <2>5. DownloadInv' /\ BootsInstalled'
    BY Zenon, <1>10 DEF DownloadEot, DownloadInv, BootsInstalled, InMenu
  <2> QED
    BY Zenon, <2>2, <2>4, <2>5 DEF FlashInv
<1>11. CASE DownloadGiveUp
  BY Zenon, <1>11, FlashUntouched DEF DownloadGiveUp, histVars, InMenu
<1>12. CASE copybl2ToRamAndRun
  <2>1. ASSUME intact PROVE phase' = "uboot" /\ running' = installed
    <3>1. /\ Holds(flash, installed, BL2Area) /\ installed \in Versions
          /\ \A w : Holds(flash, w, BL2Area) => w = installed
      BY Zenon, <1>0, <2>1, WholeImage DEF ImageInv, TypeOK
    <3>2. ImagePages <= BL1Pages + BL2Pages
      BY Zenon, LayoutAssumption DEF ImagePages
    <3>3. (CHOOSE v \in Versions : Holds(flash, v, BL2Area)) = installed
      BY Zenon, <3>1
    <3> QED
      BY Zenon, <1>12, <3>1, <3>2, <3>3 DEF copybl2ToRamAndRun
  <2>2. BootsInstalled'
    BY Zenon, <1>12, <2>1 DEF BootsInstalled, copybl2ToRamAndRun, histVars
  <2>3. DownloadInv' /\ ImageInv' /\ EnvKept'
    BY Zenon, <1>0, <1>12 DEF copybl2ToRamAndRun, DownloadInv, InMenu, ImageInv, EnvKept,
       menuVars, histVars
  <2> QED
    BY Zenon, <2>2, <2>3 DEF FlashInv
<1>13. CASE SaveEnvErase
  <2>1. ImageInv'
    BY Zenon, <1>0, <1>13, SaveKeepsImage DEF SaveEnvErase, ImageInv, EnvStart
  <2>2. DownloadInv' /\ EnvKept' /\ BootsInstalled'
    BY Zenon, <1>0, <1>13 DEF SaveEnvErase, DownloadInv, EnvKept, BootsInstalled, InMenu
  <2> QED
    BY Zenon, <2>1, <2>2 DEF FlashInv
<1>14. CASE SaveEnvWrite
  <2>1. ImageInv'
    BY Zenon, <1>0, <1>14, SaveKeepsImage DEF SaveEnvWrite, ImageInv
  <2>2. EnvKept'
    BY <1>14, Layout, GeometryAssumption DEF SaveEnvWrite, EnvKept
  <2>3. DownloadInv' /\ BootsInstalled'
    BY Zenon, <1>0, <1>14 DEF SaveEnvWrite, DownloadInv, BootsInstalled, InMenu
  <2> QED
    BY Zenon, <2>1, <2>2, <2>3 DEF FlashInv
<1>15. CASE Reset
  BY Zenon, <1>0, <1>15, PowerOnFlash DEF Reset, ImageInv, EnvKept
<1>16. CASE PowerCut
  <2>1. CASE PowerOn(flash) /\ UNCHANGED intact
    BY Zenon, <1>0, <2>1, PowerOnFlash DEF ImageInv, EnvKept
  <2>2. ASSUME nand_address <= FullPages, intact' = FALSE, NEW fl, PowerOn(fl),
               fl = nand_erase(flash, nand_address)
                 \/ fl = program_tonand(flash, nand_address, Junk)
        PROVE  FlashInv'
    <3>1. nand_address \in 0..FullPages
      BY <1>0, <2>2
    <3>2. envSaved => \A p \in EnvArea : fl[p] = Env
      <4>1. ASSUME NEW p \in EnvArea PROVE fl[p] = flash[p]
        <5>1. /\ nand_erase(flash, nand_address)[p] = flash[p]
              /\ program_tonand(flash, nand_address, Junk)[p] = flash[p]
          BY Zenon, <3>1, DownloadKeepsEnv
        <5> QED
          BY Zenon, <2>2, <5>1
      <4> QED
        BY Zenon, <1>0, <4>1 DEF EnvKept
    <3> QED
      BY Zenon, <2>2, <3>2, PowerOnFlash
  <2> QED
    BY Zenon, <1>16, <2>1, <2>2 DEF PowerCut
<1>17. CASE UNCHANGED vars
  BY Zenon, <1>17, FlashUntouched DEF vars, menuVars, histVars, InMenu
<1> QED
  BY Zenon, <1>1, <1>2, <1>3, <1>4, <1>5, <1>6, <1>7, <1>8, <1>9, <1>10, <1>11, <1>12,
     <1>13, <1>14, <1>15, <1>16, <1>17 DEF Next, Poll

(* The flash invariant holds in every state of the menu.                   *)
LEMMA FlashAlways == Spec => []FlashInv
<1>1. Init => FlashInv
  <2> SUFFICES ASSUME Init PROVE FlashInv
    BY Zenon
  <2>1. \A p \in 0..(ImagePages - 1) : flash[p] = <<0, p>>
    BY Layout, GeometryAssumption DEF Init
  <2> QED
    BY Zenon, <2>1 DEF Init, FlashInv, DownloadInv, ImageInv, EnvKept, BootsInstalled, InMenu
<1>2. TypeOK /\ FlashInv /\ [Next]_vars => FlashInv'
  BY Zenon, FlashStep
<1> QED
  BY <1>1, <1>2, TypeCorrect, PTL DEF Spec

(* A saved environment survives every download, test, reset and power cut. *)
THEOREM EnvSurvives == Spec => []EnvKept
<1>1. FlashInv => EnvKept
  BY Zenon DEF FlashInv
<1> QED
  BY <1>1, FlashAlways, PTL

(* Until the next download or test is begun, the board starts and runs the *)
(* image that was completely downloaded last, after any number of resets,  *)
(* power cuts and saved environments.                                      *)
THEOREM InstalledBoots == Spec => []BootsInstalled
<1>1. FlashInv => BootsInstalled
  BY Zenon DEF FlashInv
<1> QED
  BY <1>1, FlashAlways, PTL
=============================================================================
