# TLA+ models of the S5PV210 boot loader

The repository is U-Boot 2014.04 for a Samsung S5PV210 board (`smdkv210`), with
a secondary program loader (SPL) of its own under
`board/samsung/smdkv210/spl/`. This directory models the parts of it whose
correctness depends on the order of events: downloads over a serial line, flash
that is erased and written in steps while the power may fail, an environment
kept in a hash table and in one or two copies on flash, a bad block table with a
mirror, network and serial transfers with retries, and the placing of images in
memory before a kernel is started. Paths below are
relative to `src/u-boot-2014.04/`; `PROJECT.json` maps every definition to its
lines.

## The system

Power-on: the iROM (external) loads BL1, the SPL, from page 0 of the NAND flash.
The SPL sets up clocks and DDR and runs the poll loop of
`board_init_f_spl.c`: a countdown, then either the copy of BL2 (U-Boot) from
flash to memory and a jump into it, or a menu. From the menu an image can be
downloaded by XMODEM into the flash, the flash can be tested, and U-Boot can be
started. U-Boot loads its environment from a NAND block, offers a command line,
changes and saves the environment, reads and writes flash with bad-block
skipping, loads files by TFTP or over the serial line, and boots a kernel with
`bootm`.

| Part | State | Operations | What makes it hard |
|---|---|---|---|
| SPL XMODEM receiver (`spl/xmodem.c`) with its callbacks (`spl/board_init_f_spl.c`) | receiver state, two retry counters, frame and offset, page buffer and offset, next page | one pass of `xModemFSM`, `try_program`, `doXmodemDownloadInit` | lost bytes and answers, timer against a late answer, second download on the leftovers of the first |
| SPL flash driver (`spl/nand.c`) | pages | erase, page write, page read | erase happens only at block boundaries |
| SPL menu (`spl/board_init_f_spl.c`, `spl/tim4.c`) | menu state, countdown, tick counter, flash | one pass of the loop, commands D, B, N, copy and jump | ticks between polls, key against countdown, power cuts, flash shared with U-Boot's environment |
| Environment in NAND (`common/env_nand.c`, `common/env_common.c`) | blocks of each copy, `env_valid`, `env_flags` | `saveenv`, `env_relocate_spec`, power-on | power cut in any step, bad and failing blocks, serial that wraps |
| NAND utilities (`drivers/mtd/nand/nand_util.c`, ranges from `common/cmd_nand.c`) | flash, bad blocks | write, read, erase with skipping | lengths with bad blocks, limits, failure half way |
| Network loop, ARP, TFTP (`net/net.c`, `net/arp.c`, `net/tftp.c`, `net/eth.c`) | transfer state, block numbers, handlers, timers, device ring, memory | packets received, timeouts, new attempts | loss, delay, reordering, repeated requests, 16-bit numbers that wrap |
| Environment variables (`lib/hashtable.c`, used by `common/cmd_nvedit.c`) | slots of the table, `filled` | enter, delete, import, export | deleted slots, colliding names, refused changes, allocations that fail half way |
| Bad block table (`drivers/mtd/nand/nand_bbt.c`, calls of `nand_base.c`) | markers, table in memory, two tables in flash with versions | scan, choice of a copy, rewriting, marking a block | power cut between the copies, versions that wrap, unreadable copies, failed writes |
| Memory map of a boot (`lib/lmb.c`) | sorted table of reserved regions | reserve, allocate, free | merging and splitting, a full table, results nobody looks at |
| `bootm` (`common/cmd_bootm.c`, `image.c`, `image-fdt.c`, `arch/arm/lib/bootm.c`) | `images`, the memory map, the device tree, memory | the states of `do_bootm_states`, as one command or one by one | sub-commands in any order, images moved once or twice, copies that meet other images |
| `loadx`, `loady` (`common/xyzModem.c`, `common/cmd_load.c`) | `xyz`, retry counters, buffer | one header read and what its callers do | lost and repeated frames, late host, numbers that wrap, retries |

## Modules

Every component module states its state as VARIABLES, one action per handler or
pass of a loop, and its properties at the end. The operators called
`<definition>_<Word>` just before a definition are faulty variants of it. They
are not part of the specification; they serve to show that each property can
fail.

| Module | Models | Interaction |
|---|---|---|
| `SplNand` | erase, page write and `program_tonand` as functions on the flash | extended by the next two |
| `SplXmodem` | receiver, page buffer, serial line, sending host (external) | gives what `SplMenu` assumes of a download: full pages in order, then one page on EOT, or a give-up |
| `SplMenu` | poll loop, countdown, commands, copy of BL2, and U-Boot's `saveenv` and reset on the same flash | composes download, test, boot and environment on one chip |
| `EnvStore` | abstract: an environment replaced at one instant | |
| `EnvNand` | `saveenv` and loading, block by block | implements `EnvStore` (`AtomicSave`) with two copies |
| `NandUtil` | `check_skip_len`, write, read and erase with skipping | what `EnvNand` relies on for its loops |
| `NetTftp` | `NetLoop(TFTPGET)`, ARP, the network and the server (external) | composes `net.c`, `arp.c` and `tftp.c` |
| `EnvMap` | abstract: a map from names to values | |
| `EnvHash` | the hash table | compared with `EnvMap`: step by step in `ExactChanges` and `ImportIsExact`, as a refinement in `ImplementsMap` |
| `NandBbt` | bad block table, scan and marking | what `NandUtil` and `EnvNand` take as a set of bad blocks |
| `LmbTable` | the table of regions as functions | extended by the next two |
| `Lmb` | any sequence of the callers' reservations, allocations and resizes | |
| `Bootm` | `bootm` and its sub-commands | composes loading, relocation, the map and the hand-over on one memory |
| `XyzModem` | `loadx`, `loady`, serial line and sending host (external) | |
| `SplXmodemProofs`, `SplMenuProofs`, `NetTftpProofs` | theorems about the module of that name | |
| `EnvNandCopies`, `EnvNandProofs` | invariant and lemmas, then the theorems about `EnvNand` | `SaveIsAtomic` is the refinement of `EnvStore` |
| `NandBbtTables`, `NandBbtHomes`, `NandBbtProofs` | invariant and lemmas, steps that write tables, then the theorems about `NandBbt` | |
| `MC*` | the instances for TLC | |

How state and actions correspond to the code:

* **SplXmodem.** Variables carry the names of the fields of `xmodem` and of the
  statics of `board_init_f_spl.c`; offsets count 128-byte data fields and
  addresses count pages. A board action is one pass of the poll loop with at
  most one byte. `TransEot`, `TransSoh`, `TransKeep` and `TransLate` are the four branches of
  `XMSTA_TRANSMIT`; `SecondLook` is the second call of `dealExceptionFrame`,
  which finds what the first has left. A byte is a record of what it looks like
  and where in which frame it was sent; checksum and number check accept exactly
  the bytes of one frame. `stream`, `why` and `faults` are history.
* **SplMenu.** A menu action is one pass of `board_init_f_spl`. `Elapse` sets the
  status bit of the timer, `tim4_poll` reads it, so ticks between two polls count
  once. Page `p` of image `v` is `<<v, p>>`, and the jump leads into U-Boot when
  the pages copied are those of one image. `waited`, `keyed`, `asked`,
  `installed`, `intact` and `envSaved` are history.
* **EnvNand.** One action is one erase block erased or written. `setup` is fixed
  at the start and names the copies of the build (`{1}` on this board, `{1, 2}`
  with `CONFIG_ENV_OFFSET_REDUND`), their size and range, and the faults. A power cut leaves the block in hand as it was, as
  it should be, or unreadable. `saved`, `sure` and `clean` are history.
* **NandUtil.** One action is one call. Each unit of flash remembers the call
  and the place in the buffer it was written from. A block that cannot be read
  is an input of a read.
* **NetTftp.** The client is single-threaded: an action is one packet handed to
  its handler, or one timer that has expired. A stored block remembers the
  transfer it comes from. `mem` and `size` are the memory at `load_addr` and
  `NetBootFileXferSize`; `at` is history. `setup` is fixed at the start: the
  file, the network, the server and the devices.
* **EnvHash.** `htab` is `struct hsearch_data`. The hash of each name is chosen
  at the start, so names collide in every way the instance allows. One action is
  one call of `hsearch_r`, `hdelete_r` or `himport_r`, with the verdict of flags,
  callbacks and allocator as an input; in an import, the line at which a copy
  cannot be allocated. A text is a sequence of lines.
* **NandBbt.** `bbt` has the two-bit codes of `this->bbt`, `d` the descriptors
  `td` and `md`. One action is one pass of `check_create`, the write of a
  marker, the erase of a table's block or the write of the table. A power cut
  leaves the block in hand old, empty, torn or complete. `acked`, `wrote` and
  `asked` are history.
* **LmbTable, Lmb.** A region is an area (base, size); the operators follow
  `lmb_add_region`, `lmb_free` and `__lmb_alloc_base` loop by loop. `owned` is
  history: what the callers believe they have reserved. So are `lost`, `shared`
  (an area was reserved over a region of the table) and `mixed` (the table was
  not sorted).
* **Bootm.** `todo` holds the states that one call of `do_bootm_states` still has
  to run; one action is one state. Memory maps each cell to the image and place
  its contents come from. `told` is the ramdisk the kernel is told of; `kernel`,
  `ran` and `boots` are history.
* **XyzModem.** One board action is one return of `xyzModem_get_hdr` and all that
  its callers do until the next call. An item on the line is a frame, EOT or
  CAN; it may be lost, damaged, cut short or lose its first byte. `edge`,
  `misread` and `misled` are history and mark the three cases described below.

## Runs

| Run | Question | Result |
|---|---|---|
| `xmodem_faults` | With lost bytes and answers and a slow or cancelling host, is what was accepted what is programmed, and does every download end? Does a prompt host's file arrive, without overrunning the frame buffer? | holds |
| `xmodem_slow` | Does a finished download hold the file when the host is slow once? | violated |
| `menu_built` | With the image as built, do countdown, keys, downloads, test, `saveenv`, resets and power cuts keep an installed image bootable and a saved environment in place? | holds |
| `nand_skip` | Do all pairs of calls put data where it is found again, inside their range, and report truly? | holds |
| `env_saves` | One or two copies, bad blocks, failing erases and writes, power cuts: is what was saved loaded, and never anything older? With two copies and power cuts, is `saveenv` atomic and a loadable copy always there? | holds |
| `tftp_get` | Loss, delay, reordering, repeated requests, refusals, two devices: is a transfer reported as done complete and of one piece, does the loop return, and does the file arrive when no more is lost than the timeouts tolerate? | holds |
| `hash_room` | Whatever was set, refused, deleted and imported before: is every variable found, does a call change what it names only, and is an exported environment imported as it was? | holds |
| `hash_worn` | Is the table a map without any condition? | violated |
| `bbt_faults` | Do blocks marked bad stay bad through power cuts, unreadable copies and failed writes, is the current copy taken, and does the scan end? | holds |
| `lmb_boot` | Does what was reserved stay reserved and apart, as long as the table is sorted, and is an allocation the highest that fits? | holds |
| `bootm_steps` | By whatever sub-commands, is nothing copied over U-Boot or the kernel, is the kernel given the images it was started with when it is loaded beside them, and do the states run in order and once? | holds |
| `load_xyz` | Over a bad line and with a late host, is what is stored the file from its start, complete after EOT (save for ^Z when no length is known), and does the command return? | holds |

The two violations are described, with the lines they contradict, under
`findings` in `PROJECT.json`:

* `xmodem_slow`: packet numbers are never compared with the last one, so a frame
  asked for twice is stored twice and the rest of the file is shifted.
* `hash_worn`: a deleted slot is reused only when it is the first one a search
  tries, so deletions use up the empty slots. When none is left, a new variable
  may be written over one that is set. A refused setting leaves a deleted slot
  too: four of them in a table of five slots are enough.

Every module with variables has a `TypeOK`. `xmodem_faults` checks the one the proofs start
from. The others describe the state for a reader, and hold in the instances of
the runs; the runs spend their time on the properties above.

Other behaviour met while modelling, without a run of its own. Where it bears on
a property, the condition of the property names the case.

SPL and environment in flash:

* BL2 of the largest size the SPL copies (`myboot_cfg.h:9`, `BL2_APP_MAX_SIZE`
  of "256KB", from 16 KiB on) reaches 16 KiB into the block at
  `CONFIG_ENV_OFFSET`; the first `saveenv` destroys such an image. `menu_built`
  has the image as it is built.
* `copybl2ToRamAndRun` ignores the result of `NF8_ReadPage_8ECC` and jumps to
  whatever was read (`board_init_f_spl.c:120`). The model has no bit errors.
* After a failed write `saveenv` erases the other copy (`env_nand.c:230-231`), the
  only one that can be loaded, although `README:3968-3974` promises a "valid
  backup copy". `AtomicSave` is stated for power cuts only, and for ranges with
  room for the environment besides the bad blocks (`Backed`).
* CAN never ends a transfer: the first `dealExceptionFrame` of a pass discards
  it. The download ends when the retries are used up (`Terminates`).
* When the bytes before a byte that looks like EOT or CAN are lost, that byte is
  the first to arrive and is taken for a control character: a frame without its
  SOH begins with its packet number, and number 4 ends the download. The fault
  kind `misread` marks this case, and `Prompt` excludes it.
* EOT programs one page even when the buffer is empty. With an image of exactly
  256 KiB that page erases the environment.
* Command N erases block 1, part of U-Boot; B then jumps into the test pattern.
* "program finished!" is printed after a give-up too.
* `nand_erase_opts` returns 0 although a block could not be erased, and `saveenv`
  then reports OK. `SavedIsLoaded` is stated for saves without that message.
* A write or read past the end of the chip leaves `*actual` counted up.
* The help of `nand erase` says "With '.spread', erase enough for given file size"
  (`cmd_nand.c:867`). When the good blocks up to the end of the chip are one
  too few, the place behind the last block is asked for too: `mtd_block_isbad`
  refuses only what lies beyond it, and answers from the memory behind the table.
  Taken for good, that place is counted; `mtd_erase` refuses it, which is printed,
  and the call returns 0 one block short. `StaysInside` says how many blocks
  are erased.

Network:

* On a network that reorders, a late copy of the block with number 0 is counted
  as another lap (`tftp.c:278-284`): the count comes before the test for
  repetition, and what follows is stored a lap too far. `WrapMeansWrap` and
  `FileIntact` are checked and proved with wraps on a network that keeps the
  order, and on one that does not without wraps (`OrderAssumption`).
* `TftpOurPort` is `1024 + get_timer(0) % 3072` (`tftp.c:796`): attempts that are a
  multiple of 3072 ms apart share a port. The model gives each a port of its own.
* With "netretry" set to "once" the loop gives up after the first device.
* `ArpTimeoutCheck` gives up without clearing `NetArpWaitPacketIP` (`arp.c:113`).
  `TftpStart` asks again in any case, so that only a following BOOTP or DHCP
  command would notice.

Environment variables:

* When memory runs out half way, a slot in use without a name or without a value
  stays behind; later searches compare with it. The model takes such a slot as
  matching no name.
* An import that meets a line without a name returns 0 and leaves the lines before
  it applied. One whose copy of a name or value cannot be allocated reports the
  line, goes on with the next, and returns 1: `ImportIsExact` is stated for
  imports in which memory does not run out.
* `himport_r` destroys the old table before it creates the new one
  (`hashtable.c:838`); when `calloc` fails in `hcreate_r`, no table is left.
  This failure is not modelled. A failure to copy the text (line 792) comes before
  anything is changed.
* `hmatch_r` stops before the last slot, and a new entry returns 1 instead of its
  index. Neither is modelled.
* The pointers to `.flags` and `.callbacks` are looked up once and kept
  (`env_flags.c:412`, `env_callback.c:53`). The text of these lists is not
  modelled.

Bad block table (this board uses the table in memory only, since
`CONFIG_S3C2410_NAND_BBT` is not set; both kinds are in the run):

* A marking that failed leaves the block bad in memory. Repeating it returns 0
  (`nand_base.c:2457`, "If it was bad already, return success and do nothing"),
  and after a reset the block is good again. `MarkedStays` counts the blocks
  whose own marking returned 0.
* A read error that is not an ECC error is not looked at (`nand_bbt.c:947`): an
  empty table is used and may be written.
* After a failed write of the main table no other block is tried and the mirror is
  skipped. A torn mirror with the right version is not noticed while the main
  copy can be read.
* Versions are compared as a signed difference (line 914) and then with `max`
  (973); with a torn copy a second power cut can lose a block that was in the
  main copy only. `WrittenStays` is stated for one.
* The first access scans through the data buffer while `pagebuf` may name a page
  cached there (`nand_bbt.c:863`). The page cache is not modelled.

Memory map and `bootm`:

* A region split while the table is full loses its tail (`lost`), and nobody looks
  at the result of a reservation. An allocation reserves its size rounded up to
  the alignment, and a resize leaves the rest of it reserved.
* A reservation over another region can make a region grow down past the one
  before it, which leaves the table unsorted (`mixed`). An insertion then may
  overwrite the first region (`lmb.c:165-168`), and what it protected is free.
  `Protected` says that only a reservation over a region leads there (`shared`),
  and that until then nothing reserved is given up.
* `bootm loados` before any `bootm start` finds a table with no regions, and the
  unsigned count minus one runs over memory (`pc = "crash"`), although the help
  says "it's ok to not issue all sub-commands" (`cmd_bootm.c:1039`).
* A kernel executed in place is reserved without its header's 64 bytes, and one
  that was loaded over its own image is not reserved at all. `KernelKept` claims
  what is reserved.
* The map does not know the images still lying where the user loaded them: without
  the room `Roomy` asks for, a copy may land on one that is not yet moved.
* `bootm_load_os` compares the load area with the kernel's own image only. A kernel
  loaded over ramdisk or device tree damages them before they are moved: a
  damaged tree is found out or not, a damaged ramdisk is handed over.
  `HandedOver` is stated for kernels loaded beside both (`Beside`).
* `ramdisk` and `fdt` followed by `prep` copy both images a second time.
  `images.state` takes in a sub-command that failed, so it cannot be repeated.
  After a whole `bootm` that failed to load a kernel only START is left there, since
  `bootm_start` clears `images`; `loados` is then accepted, and fails again. This
  is the one state `InOrder` allows to run twice.
* The tags of ARM name the ramdisk where it was loaded, not the copy, and the area
  of the tags is not reserved.

`loadx` and `loady`:

* A repeated frame in the last round of the retry loop leaves it with `stat = 0`,
  and old data is stored again (`edge`).
* An error with part of a buffer read returns that part with `xyz.len = -1`; the
  next call copies with this length (`pc = "wild"`). The same happens when a frame
  is accepted after the end of the file by its length: what is left of it is then
  less than nothing (`xyz.len -= ...`, `Accept`).
* A frame that lost its SOH begins with its number; number 4 is taken for EOT, and
  the shortened file is reported as complete (`misread`).
* A host that takes the acknowledgement of a repeated frame for the next one's may
  send EOT early (`misled`); nobody compares the total with the length. A host
  that takes such an acknowledgement for that of its EOT goes on to the header that
  closes a YMODEM batch, and this is stored when the board waits for a frame with
  its number, 0. `StoredInOrder` excepts this case.
* Without a length in the header, three or more ^Z at the end of any frame are
  dropped, whether they are padding or the file's, and up to two pad bytes stay.
  `StoredInOrder` and `Complete` compare the other bytes then. With a length, or a
  file without ^Z, `StoredInOrder` compares all bytes; with a length, `Complete`
  also compares the number of them. `AckedStored` counts the bytes other than ^Z.

### Bounds

* `xmodem_faults`: five data fields, two per page, two pages per block: full
  pages, a half page at EOT and a second block. Frames of three bytes with an
  offset that wraps at five keep the order 133 < 256 of the code. Two faults,
  so that a fault can hit the recovery from another; two downloads, the second
  on whatever the first left.
* `menu_built`: nine pages in three blocks of three. The last page of the
  region the SPL copies is the first of the environment block, as 0x40000 is in
  the real layout; the image as built ends before it. Two seconds of two ticks,
  so that a second restarts once; `waited` saturates above the threshold.
* `env_saves`: three setups. One copy, and two, of one block in a range of two,
  with none to both blocks of a copy bad and two faults of three kinds; and two
  copies of two blocks in three, so that a copy can be half written, with a power
  cut. Serials wrap at four, reached by repeated saves.
* `nand_skip`: three blocks of two pages of two units; offsets inside a page, at
  a page and at each block; lengths of nothing, part of a page, a block, a block
  and a bit, and the whole chip; up to two bad blocks and one failing; two calls.
* `tftp_get`: three setups. `late`: four blocks with numbers modulo three (one
  wrap, and a block beyond it), one loss, one refusal, two devices. `reorder`: three
  blocks without a wrap. `prompt`: five blocks, three losses, timeouts only when nothing
  is on its way. Up to four transfers and one repeated packet. A queue of two or
  three packets drops what does not fit, which is a further way to lose packets.
* `hash_room`, `hash_worn`: a table of five slots and three names, or two, with
  eight assignments of hash values: apart, in one chain, crossing chains. One
  allocation that fails. Texts set, delete, repeat a name and lack one.
* `bbt_faults`: five blocks, the last three for tables, versions modulo four, so
  that they wrap; two faults of five kinds. Three faults hold too (792,933
  states).
* `lmb_boot`: four calls in a table of four regions, so that it is full;
  addresses of four bits. Five calls hold too (406,452 states). `bootm_steps`: 32
  cells of half a page, four regions, 532 placings of the images, some with the
  kernel over the ramdisk or the tree, two boots.
* `load_xyz`: files of five and thirteen bytes, one of thirteen with ^Z at the end
  of a frame in its middle and one of nine that ends in ^Z, in frames of four and eight, numbers
  modulo four with 2 as the code of EOT, a buffer of eight; two faults and two
  late answers. That reaches the closing header that is stored and the negative
  length. The invariants hold too for three faults, six late answers and eight
  items on the line, with files of 9 and 12 bytes and, with ^Z, of 11 and 13
  (27,322,703 states).

Symmetry is not used: blocks, pages and versions are ordered.

### Fairness

* `SplXmodem`: weak fairness of the board's poll loop and of the terminal
  program. Nothing is assumed of the line or of the user.
* `SplMenu`: the timer ticks, and the loop makes passes without a key.
* `NetTftp`: the loop polls device and clock for ever (`NetLoop` is a busy loop),
  and the server takes packets that reach it: weak fairness of all these steps
  together. Delivery of any one packet is not assumed.
* `NandBbt`: the steps of a scan or a marking are calls that return.
* `XyzModem`: `xyzModem_get_hdr` returns after its timeout at the latest, and the
  host reacts as long as it has not stopped.

Deadlock is checked for `EnvNand`, `EnvHash` and `NandBbt`; the others come to an
end by nature: the last download has stopped, nothing bootable is left, all calls are
made, `NetLoop` or the load has returned, or the kernel runs.

## Proofs

Each theorem holds for every value of the constants that the named assumptions
of its component admit; a run checks the same definition on a small instance.

| Module | Theorem | Statement |
|---|---|---|
| `SplXmodemProofs` | `TypeCorrect` | `Spec => []TypeOK` |
| | `StreamIsStored` | `Spec => []StreamStored`: the accepted data fields are, in order and once each, the pages programmed followed by the buffer |
| | `OnlyErasedProgrammed` | `Spec => ProgramsErased`: no page is programmed inside a block unless it is erased |
| | `FramesFit` | `Spec => []FrameFits`: with a prompt host no frame runs over `frame[]` |
| | `FileInstalled` | `Spec => []FlashIsFile`: with a prompt host a download ended by EOT has put the file into the flash |
| `SplMenuProofs` | `TypeCorrect` | `Spec => []TypeOK` |
| | `AutoBootWaits` | `Spec => []NotBeforeTimeout`: the countdown takes its full time |
| | `KeyStopsBoot` | `Spec => []KeyCancels`: a key stops the automatic boot |
| | `EnvSurvives` | `Spec => []EnvKept`: nothing the SPL does harms a saved environment |
| | `InstalledBoots` | `Spec => []BootsInstalled`: the image installed is the one that runs |
| `EnvNandProofs` | `TypeCorrect` | `Spec => []TypeOK` |
| | `SavedLoads` | `Spec => []SavedIsLoaded`: a boot loads what was reported as saved |
| | `BootIsRecent` | `Spec => NeverOlder`: no boot brings back an older environment |
| | `SaveIsAtomic` | `Spec => AtomicSave`: with two copies and power cuts `EnvNand` implements `EnvStore` |
| `NandBbtProofs` | `TypeCorrect` | `Spec => []TypeOK` |
| | `MarkedStay` | `Spec => []MarkedStays`: an acknowledged marking lasts, and nothing else is marked |
| | `WrittenStay` | `Spec => []WrittenStays`: one power cut loses nothing a main copy had |
| | `MainCurrent` | `Spec => []MainIsCurrent`: an idle driver's main copy equals the table in memory |
| `NetTftpProofs` | `FileIsIntact` | `Spec => []FileIntact`: a transfer reported as done is the whole file, of one piece |
| | `WrapIsLap` | `Spec => WrapMeansWrap`: the offset moves by a lap only for the first block of that lap |

### Assumptions

* `GeometryAssumption`, `SizeAssumption`, `ValueAssumption`, `FaultsAssumption`,
  `MenuAssumption`, `EnvAssumption`, `BbtAssumption` and `TftpAssumption` give the
  constants their types and the order the code has between them: `frame_offset`
  can pass the frame size before it wraps, and serials and versions have more
  than two values, so that "newer" means something.
* `FileFits`: the file fits the flash. `LayoutAssumption`: BL2 as built ends
  below the environment, with room for the page that EOT programs, and the flash
  test works elsewhere. An image of the largest size the SPL copies violates it, as
  described above.
* `OrderAssumption`: on a network that reorders, the block numbers of the file
  do not wrap. Without it `FileIntact` is false of the code, as described above.
* Every attempt of a transfer has a UDP port of its own. This is not a named
  assumption but part of `Started`; in the code it holds as long as no two
  attempts are a multiple of 3072 ms apart. `FileIntact` and `WrapMeansWrap` rest
  on it.

### Inductive invariants

None of the safety properties is inductive by itself. Each module has an
invariant `IInv` (or a conjunction proved in stages) which was first checked by
TLC; `NextIInv`, or one lemma for each conjunct, has one step per action.

* **SplXmodem.** `RestErased` says that the rest of the block in hand is erased:
  that is why a page in the middle of a block may be programmed, and why erasing
  at a block's first page destroys nothing of the stream. `EntryClean` carries
  the start of a second download, `RunningOrEnded` ties the history to the
  states. For a prompt host, `InStep` lists the five situations receiver, line
  and host can be in together (greeting, sending, answered, ending, cancelled),
  and with them how much of a frame is still on its way.
* **SplMenu.** `CountInv` relates the seconds counted to the ticks that really
  passed; `KeyInv` says where a key leaves the menu; `DownloadInv` and `ImageInv`
  say page by page what a download has programmed and what is installed.
* **EnvNand.** `IdleInv`, `OtherInv` and `CopyInv` say of each copy that a boot
  could read what it holds and how its serial relates to `env_flags`;
  `EraseInv` and `WriteInv` say how far the loops over good blocks have come. The
  refinement needs `BackedInv`: the copy in use is never the one being
  written. Which block holds which part is a count of good blocks, so the lemmas of
  `EnvNandCopies` reason about cardinalities. They take the facts of the library
  they need as one hypothesis, `SetFacts`, which the lemma `Library` discharges.
* **NandBbt.** `HomeInv`: the two copies live in the last two good blocks of the
  region, which the faults do not change. `MarkedInv`, `CurrentInv` and
  `WrittenInv` say which copies contain which blocks while one of them is being
  rewritten, each under the faults its property admits; `VersionInv` (the mirror
  has the version of the main copy or the one before) is what lets one power cut
  be survived although versions wrap. The largest good block is found with
  `WFMin`, the least element of a well-founded relation.
* **NetTftp.** `OwnPort`: every attempt has a port of its own, so packets of an
  earlier one do not count. `Dialogue`: of the transfers that repeated requests
  start, the client acknowledges one for each attempt, and the others never get
  beyond their first packet. Then the invariant divides. Where the network keeps
  the order (`Strict`), client and server move in lockstep: the server is at most
  one block ahead, answers are queued in the order of their blocks, and no old
  acknowledgement follows a new one, so that a number names one block although
  numbers wrap. Where it does not (`Loose`), a weaker fact is enough as long as
  numbers do not wrap: whatever an acknowledgement in the network says, and
  whatever the server takes as received, is in memory. Steps are classed by what
  they do (`Quiet`, `Acknowledges`, `Stores`, `Serves`), and one lemma for each
  class keeps each part of the invariant.

### Model-checked only

* Liveness (`Terminates`, `CountdownEnds`, `ScanEnds`, `Ends`, `Succeeds`,
  `LoadEnds`): outside
  the prover's reach.
* `NandUtil`, `EnvHash`, `Lmb` and `Bootm`: their properties depend on what
  loops over blocks, slots and regions compute, which takes an induction over
  data that the prover does not have.
* `StoredInOrder`, `Complete` and `AckedStored` of `XyzModem`: frames are told
  apart by their numbers modulo 256, so what bounds how far a host that counts
  late answers twice can run ahead is the number of faults and retries. An
  invariant would have to account for each answer on the line, and for general
  constants a host a whole lap ahead would have to be excluded.
* `TypeOK` of `NetTftp`: its bound on the tries of ARP needs
  `ARP_TIMEOUT_COUNT` to be positive; the proofs use `Typed`, which leaves the bound
  out.

## Abstractions and limits

* Error detection is perfect: CRC of XMODEM and of the environment, ECC of pages.
* Flash addresses are counted in pages or blocks, so alignment checks that cannot
  fail there are left out; `NandUtil` has units below the page for that reason.
* The receiver writes behind `frame` when garbage follows a bad frame; the memory
  there is unused, and `frame_offset` wraps. `FrameFits` shows it does not happen
  with a prompt host.
* `NetTftp` ends when `NetLoop` returns; a second command is not modelled.
* `EnvHash` leaves the computation of hash values open, and the escapes and
  separators of a text. `Bootm` measures everything in cells of half a page.
* A download in `SplMenu` is what `SplXmodem` shows of one with a prompt host.

Not modelled:

* clock, DDR and LED set-up, controller drivers and ECC arithmetic: register
  writes without state of their own;
* console multiplexing, the hush parser, the boot menu's line editing and MTD
  partitions: their behaviour is in text;
* `dlmalloc` and FAT: libraries taken over unchanged, the second read-only;
* of `bootm`: FIT images, other operating systems and image types, `verify`, the
  decompressors (external, they succeed or fail), `bootm_low` and `bootm_size`;
* `loadb` and `loads`, BOOTP, DHCP and NFS: see the plan;
* the rest of U-Boot's tree, which is for other boards, processors and devices
  and is not built for this one.

## Plan

1. Proofs: the duplicate test of `XyzModem` for lines whose faults are spaced
   widely enough, and the operators of `LmbTable` once they are stated without
   recursion over the table.
2. BOOTP and DHCP on the network loop, as a second command on the state the first
   leaves.
3. Kermit (`loadb`).
