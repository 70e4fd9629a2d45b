---------------------------------- MODULE Bootm ----------------------------------
(***************************************************************************)
(* The bootm command of common/cmd_bootm.c for a Linux kernel in a legacy    *)
(* image: the whole sequence at once, or its sub-commands one by one, with    *)
(* the relocation of ramdisk and device tree of common/image.c and            *)
(* image-fdt.c in the memory map of lib/lmb.c (LmbTable), and the hand-over   *)
(* of arch/arm/lib/bootm.c.  Memory is a function from cells to what they     *)
(* hold: cell i of an image, or something else.                              *)
(***************************************************************************)
EXTENDS LmbTable

CONSTANTS Setups,       \* where the user has loaded what; records, see below
          Ram,          \* the area of memory
          Stack,        \* its end, from 4 KiB below the stack: U-Boot itself
          Params,       \* bi_boot_params, the area the tags are written to
          Page,         \* 0x1000
          Pad,          \* CONFIG_SYS_FDT_PAD
          Overhead,     \* FDT_RAMDISK_OVERHEAD
          BootmLen,     \* CONFIG_SYS_BOOTM_LEN
          MaxBoots      \* bound: so many times the images are looked for

(* A setup has the fields                                                    *)
(*   libfdt       CONFIG_OF_LIBFDT                                            *)
(*   comp, blob   the kernel image, header included: "none", "gzip", "other"    *)
(*   load, len    where it is loaded to and how long it is then               *)
(*   rd, ft       ramdisk image, header included, and device tree, or NoArea   *)
(*   rsv          areas the device tree says are reserved                    *)
(*   initrd_high, fdt_high   Unset, Here (all ones) or an address             *)
(*   fix          how much the device tree grows by what U-Boot adds to it     *)
NoArea == Area(0, 0)
Here == Word - 1
Unset == Word

(* The user has loaded the images apart from each other, the kernel goes      *)
(* neither over U-Boot nor where the tags go, and there is "space after the    *)
(* existing fdt to use for padding" (image-fdt.c) if it is to stay in place.   *)
(* The kernel may go over the ramdisk or a tree that is to be moved: nothing   *)
(* in bootm_load_os looks for that.                                           *)
Placed(s) ==
    LET grown == Area(s.ft.base, IF s.fdt_high = Here THEN s.ft.size + s.fix ELSE s.ft.size)
        loaded == {s.blob, s.rd, grown, Stack}
    IN /\ \A a, b \in loaded : a # b => ~Overlap(a, b)
       /\ \A a \in {Stack, Params} \union (IF s.fdt_high = Here THEN {grown} ELSE {}) : ~Overlap(Area(s.load, s.len), a)

ASSUME BootmAssumption ==
    /\ Page \in Nat \ {0} /\ Pad \in Nat /\ Overhead \in Nat /\ BootmLen \in Nat /\ MaxBoots \in Nat
    /\ \A s \in Setups : s.fix <= Pad /\ Placed(s)

VARIABLES setup, mem,
          images,       \* bootm_headers_t: state, os, lmb, rd, initrd, ft
          dt,           \* total size and reserved areas of the tree the user loaded
          todo,         \* the states of do_bootm_states that are still to run
          pc,           \* "uboot", "linux", "hang", "reset", or "crash"
          told,         \* the ramdisk the tags or the device tree name
          kernel,       \* history: the area the kernel was loaded to and reserved in
          ran,          \* history: the states that ran since START
          boots         \* history: how often the images were looked for

vars == <<setup, mem, images, dt, todo, pc, told, kernel, ran, boots>>

START      == 1
FINDOS     == 2
FINDOTHER  == 4
LOADOS     == 8
RAMDISK    == 16
FDT        == 32
OS_CMDLINE == 64
OS_PREP    == 256
OS_FAKE_GO == 512
OS_GO      == 1024

-------------------------------------------------------------------------------
(* Memory *)

(* As the user has left it: the images where they were loaded, U-Boot at the  *)
(* end.  An image that is not compressed has the kernel after its header.     *)
Fresh(s) == [c \in Cells(Ram) |->
    IF c \in Cells(Stack) THEN <<"uboot", c>>
    ELSE IF c \in Cells(s.blob)
         THEN <<IF s.comp = "none" /\ c > s.blob.base THEN "kernel" ELSE "blob", c - s.blob.base>>
    ELSE IF c \in Cells(s.rd) THEN <<"rd", c - s.rd.base>>
    ELSE IF c \in Cells(s.ft) THEN <<"ft", c - s.ft.base>>
    ELSE <<"free", c>>]

Holds(m, a, name, first) == \A c \in Cells(a) : m[c] = <<name, c - a.base + first>>
Put(m, a, name, first) ==
    [c \in DOMAIN m |-> IF c \in Cells(a) THEN <<name, c - a.base + first>> ELSE m[c]]
Move(m, from, to, n) ==
    [c \in DOMAIN m |-> IF c \in Cells(Area(to, n)) THEN m[c - to + from] ELSE m[c]]

Data(image) == Area(image.base + 1, image.size - 1)      \* image_get_data
CrcOk(image) == \A c \in Cells(image) : mem[c] = Fresh(setup)[c]

-------------------------------------------------------------------------------
(* Ramdisk and device tree.  s has the parts of the state a call may change   *)
(* and ok, whether all went well so far.                                      *)

Now == [mem |-> mem, images |-> images, dt |-> dt, ok |-> TRUE]
Error(s) == [s EXCEPT !.ok = FALSE]
Reserve(s, a) == [s EXCEPT !.images.lmb = lmb_add_region(@, a).rgn]
Limit(high) == IF high = Unset THEN End(Ram) ELSE high
Allocated(s, size, high) == lmb_alloc_base(<<Ram>>, s.images.lmb, size, Page, Limit(high))

(* Mutant: the copy is not entered in the memory map.                        *)
CopyRamdisk_Unreserved(s, to) ==
    IF to.base = 0 THEN Error([s EXCEPT !.images.initrd = NoArea])
    ELSE [s EXCEPT !.mem = Move(@, s.images.rd.base, to.base, s.images.rd.size),
                   !.images.initrd = Area(to.base, s.images.rd.size)]

(* The ramdisk is copied to the area that was allocated.                     *)
CopyRamdisk(s, to) ==
    IF to.base = 0 THEN Error([s EXCEPT !.images.initrd = NoArea])
    ELSE [s EXCEPT !.mem = Move(@, s.images.rd.base, to.base, s.images.rd.size),
                   !.images.initrd = Area(to.base, s.images.rd.size),
                   !.images.lmb = to.rgn]

boot_ramdisk_high(s) ==
    LET rd == s.images.rd
    IN IF rd = NoArea THEN [s EXCEPT !.images.initrd = NoArea]
       ELSE IF setup.initrd_high = Here
            THEN Reserve([s EXCEPT !.images.initrd = rd], rd)
       ELSE CopyRamdisk(s, Allocated(s, rd.size, setup.initrd_high))

IsFdt(s) == s.images.ft # NoArea /\ s.mem[s.images.ft.base] = <<"ft", 0>>   \* fdt_check_header

boot_fdt_add_mem_rsv_regions(s) ==
    IF IsFdt(s) THEN FoldLeft(Reserve, s, SetToSeq(s.dt.rsv)) ELSE s

(* The tree is copied, or left in place, with room to grow.                  *)
CopyFdt(s, len, to) ==
    IF to.base = 0 THEN Error(s)
    ELSE [s EXCEPT !.mem = Move(@, s.images.ft.base, to.base, s.images.ft.size),
                   !.images.ft = Area(to.base, len),
                   !.images.lmb = to.rgn]

boot_relocate_fdt(s) ==
    LET ft == s.images.ft
        len == ft.size + Pad
    IN IF ~s.ok \/ ft = NoArea THEN s
       ELSE IF ~IsFdt(s) THEN Error(s)
       ELSE IF setup.fdt_high = Here
            THEN Reserve([s EXCEPT !.images.ft.size = len, !.dt.total = len], Area(ft.base, len))
       ELSE CopyFdt(s, len, Allocated(s, len, setup.fdt_high))

(* fdt_resize: what is in use now, up to the end of a page.                   *)
Actual(base) == Up(setup.ft.size + setup.fix + (base % Page), Page) - (base % Page)

(* What U-Boot adds to the tree, and its reservation renewed.  A tree in      *)
(* place is found with the new size and areas by the next boot.               *)
image_setup_libfdt(s) ==
    LET ft == s.images.ft
        initrd == s.images.initrd
        size == Actual(ft.base) + (IF initrd = NoArea THEN 0 ELSE Overhead)
        kept == {r \in s.dt.rsv : r.base \notin {ft.base, initrd.base}}
        added == {Area(ft.base, Actual(ft.base)), initrd} \ {NoArea}
    IN IF ~s.ok THEN s ELSE [s EXCEPT
          !.mem = Put(@, Area(ft.base + setup.ft.size, setup.fix), "ft", setup.ft.size),
          !.images.lmb = lmb_add_region(lmb_free(@, ft).rgn, Area(ft.base, size)).rgn,
          !.dt = IF setup.fdt_high = Here THEN [total |-> size, rsv |-> kept \union added] ELSE @]

(* The new length of the tree stays in a local variable.                     *)
image_setup_linux(s) ==
    LET parts == boot_ramdisk_high(boot_fdt_add_mem_rsv_regions(s))
    IN [image_setup_libfdt(boot_relocate_fdt(parts)) EXCEPT !.images.ft.size = s.images.ft.size]

-------------------------------------------------------------------------------
(* Commands *)

Zero == [state |-> {}, os |-> FALSE, lmb |-> <<>>,
         rd |-> NoArea, initrd |-> NoArea, ft |-> NoArea]

Init == /\ setup \in Setups
        /\ mem = Fresh(setup) /\ images = Zero
        /\ dt = [total |-> setup.ft.size, rsv |-> setup.rsv]
        /\ todo = {} /\ pc = "uboot" /\ told = NoArea /\ kernel = NoArea /\ ran = {} /\ boots = 0

Command(states) ==
    /\ pc = "uboot" /\ todo = {} /\ todo' = states
    /\ boots' = IF START \in states THEN boots + 1 ELSE boots
    /\ boots' <= MaxBoots
    /\ images' = [images EXCEPT !.state = @ \union states]
    /\ UNCHANGED <<setup, mem, dt, pc, told, kernel, ran>>

do_bootm == Command({START, FINDOS, FINDOTHER, LOADOS, OS_PREP, OS_FAKE_GO, OS_GO})

(* The states of the sub-commands; "start" finds the images as well.         *)
Subcommands == {{START, FINDOS, FINDOTHER}, {LOADOS}, {RAMDISK}, {OS_CMDLINE},
                {OS_PREP}, {OS_FAKE_GO}, {OS_GO}} \union {{FDT} : x \in {TRUE} \cap {setup.libfdt}}

(* Mutant: a sub-command is not refused out of order.                        *)
do_bootm_subcommand_Any == \E states \in Subcommands : Command(states)

do_bootm_subcommand == \E states \in Subcommands :
    SumSet(images.state) < SumSet(states) /\ Command(states)

-------------------------------------------------------------------------------
(* do_bootm_states, one state at a time *)

At(f) == pc = "uboot" /\ todo # {} /\ f = First(todo)

(* State f has run; after an error the command ends.                         *)
Ran(f, ok) == ran' = ran \union {f} /\ todo' = IF ok THEN todo \ {f} ELSE {}
Apply(s) == mem' = s.mem /\ images' = s.images /\ dt' = s.dt

bootm_start ==
    /\ At(START) /\ todo' = todo \ {START} /\ ran' = {START}
    /\ images' = [Zero EXCEPT !.state = {START}, !.lmb = lmb_add_region(Empty, Stack).rgn]
    /\ told' = NoArea /\ kernel' = NoArea
    /\ UNCHANGED <<setup, mem, dt, pc, boots>>

bootm_find_os ==
    /\ At(FINDOS) /\ Ran(FINDOS, CrcOk(setup.blob))
    /\ images' = [images EXCEPT !.os = CrcOk(setup.blob)]
    /\ UNCHANGED <<setup, mem, dt, pc, told, kernel, boots>>

(* The ramdisk is checked as a whole, the device tree by its header.         *)
bootm_find_other ==
    LET rdOk == setup.rd = NoArea \/ CrcOk(setup.rd)
        ftOk == setup.ft = NoArea \/ mem[setup.ft.base] = <<"ft", 0>>
    IN /\ At(FINDOTHER) /\ Ran(FINDOTHER, rdOk /\ (setup.libfdt => ftOk))
       /\ images' = [images EXCEPT
            !.rd = IF rdOk /\ setup.rd # NoArea THEN Data(setup.rd) ELSE NoArea,
            !.ft = IF setup.libfdt /\ rdOk /\ ftOk /\ setup.ft # NoArea
                   THEN Area(setup.ft.base, dt.total) ELSE NoArea]
       /\ UNCHANGED <<setup, mem, dt, pc, told, kernel, boots>>

Target == Area(setup.load, setup.len)
Unpacked == IF setup.comp = "none" THEN Move(mem, setup.blob.base + 1, setup.load, setup.len)
            ELSE Put(mem, Target, "kernel", 1)
Xip == setup.comp = "none" /\ setup.load \in {setup.blob.base, setup.blob.base + 1}
(* What is reserved of the kernel.  An image in place may have its header at    *)
(* the load address, and the length that is reserved does not count it.        *)
InPlace == IF setup.load = setup.blob.base THEN Area(setup.load + 1, setup.len - 1) ELSE Target
Overwrites == ~Xip /\ Overlap(Target, setup.blob)       \* BOOTM_ERR_OVERLAP

(* Mutant: the kernel is not reserved.                                       *)
bootm_load_os_Unreserved ==
    /\ At(LOADOS) /\ images.os /\ setup.comp # "other"
    /\ ~(setup.comp = "gzip" /\ setup.len > BootmLen)
    /\ mem' = IF Xip THEN mem ELSE Unpacked
    /\ kernel' = IF Overwrites THEN NoArea ELSE IF Xip THEN InPlace ELSE Target
    /\ Ran(LOADOS, TRUE) /\ UNCHANGED <<setup, images, dt, pc, told, boots>>

(* The kernel is moved or uncompressed to where it runs, and reserved unless  *)
(* it has overwritten its image.                                              *)
bootm_load_os ==
    /\ At(LOADOS) /\ images.os /\ setup.comp # "other"
    /\ ~(setup.comp = "gzip" /\ setup.len > BootmLen)
    /\ mem' = IF Xip THEN mem ELSE Unpacked
    /\ images' = IF Overwrites THEN images
                 ELSE [images EXCEPT !.lmb = lmb_add_region(@, Target).rgn]
    /\ kernel' = IF Overwrites THEN NoArea ELSE IF Xip THEN InPlace ELSE Target
    /\ Ran(LOADOS, TRUE) /\ UNCHANGED <<setup, dt, pc, told, boots>>

(* gunzip runs out of room, or out of an image that it has overwritten.      *)
LoadReset ==
    /\ At(LOADOS) /\ images.os /\ setup.comp = "gzip"
    /\ setup.len > BootmLen \/ Overwrites
    /\ pc' = "reset" /\ Ran(LOADOS, FALSE)
    /\ UNCHANGED <<setup, mem, images, dt, told, kernel, boots>>

(* A compression this build does not know: BOOTM_ERR_UNIMPLEMENTED.          *)
LoadUnimplemented ==
    /\ At(LOADOS) /\ images.os /\ setup.comp = "other"
    /\ Ran(LOADOS, FALSE) /\ UNCHANGED <<setup, mem, images, dt, pc, told, kernel, boots>>

(* No image was found: an empty kernel at 0 is "executed in place".  Without   *)
(* a START the memory map has no region at all, and lmb_add_region runs off    *)
(* the end of it.                                                             *)
LoadNothing ==
    /\ At(LOADOS) /\ ~images.os /\ Ran(LOADOS, TRUE)
    /\ IF images.lmb = <<>> THEN pc' = "crash" /\ UNCHANGED images
       ELSE images' = Reserve(Now, NoArea).images /\ UNCHANGED pc
    /\ UNCHANGED <<setup, mem, dt, told, kernel, boots>>

RelocateRamdisk ==
    /\ At(RAMDISK) /\ UNCHANGED <<setup, pc, told, kernel, boots>>
    /\ \E s \in {boot_ramdisk_high(Now)} : Apply(s) /\ Ran(RAMDISK, s.ok)

RelocateFdt ==
    /\ At(FDT) /\ UNCHANGED <<setup, pc, told, kernel, boots>>
    /\ \E s \in {boot_relocate_fdt(boot_fdt_add_mem_rsv_regions(Now))} : Apply(s) /\ Ran(FDT, s.ok)

(* There is no boot function without an image, and do_bootm_linux of ARM       *)
(* refuses OS_CMDLINE (and OS_BD_T, which is left out).                        *)
Refused == \E f \in {OS_CMDLINE, OS_PREP, OS_FAKE_GO, OS_GO} :
    /\ At(f) /\ (~images.os \/ f = OS_CMDLINE)
    /\ Ran(f, FALSE) /\ UNCHANGED <<setup, mem, images, dt, pc, told, kernel, boots>>

UsesFdt == setup.libfdt /\ images.ft.size # 0

(* boot_prep_linux: the device tree, or tags that name the ramdisk where it    *)
(* was loaded.  Behind its header a tree that is damaged may be found out or    *)
(* not.                                                                       *)
Whole(s) == Holds(s.mem, Area(s.images.ft.base, setup.ft.size), "ft", 0)

PrepFdt ==
    /\ At(OS_PREP) /\ images.os /\ UsesFdt
    /\ \E s \in {image_setup_linux(Now)} :
         /\ Apply(s) /\ told' = s.images.initrd
         /\ \/ s.ok /\ UNCHANGED pc
            \/ ~(s.ok /\ Whole(s)) /\ pc' = "hang"
         /\ Ran(OS_PREP, pc' = pc)
    /\ UNCHANGED <<setup, kernel, boots>>

PrepTags ==
    /\ At(OS_PREP) /\ images.os /\ ~UsesFdt
    /\ mem' = Put(mem, Params, "tags", 0) /\ told' = images.rd
    /\ Ran(OS_PREP, TRUE) /\ UNCHANGED <<setup, images, dt, pc, kernel, boots>>

(* Without CONFIG_TRACE nothing happens.                                     *)
FakeGo ==
    /\ At(OS_FAKE_GO) /\ images.os /\ Ran(OS_FAKE_GO, TRUE)
    /\ UNCHANGED <<setup, mem, images, dt, pc, told, kernel, boots>>

boot_jump_linux ==
    /\ At(OS_GO) /\ images.os /\ pc' = "linux" /\ Ran(OS_GO, TRUE)
    /\ UNCHANGED <<setup, mem, images, dt, told, kernel, boots>>

Next == \/ do_bootm \/ do_bootm_subcommand
        \/ bootm_start \/ bootm_find_os \/ bootm_find_other
        \/ bootm_load_os \/ LoadReset \/ LoadUnimplemented \/ LoadNothing
        \/ RelocateRamdisk \/ RelocateFdt
        \/ Refused \/ PrepFdt \/ PrepTags \/ FakeGo \/ boot_jump_linux

Spec == Init /\ [][Next]_vars

-------------------------------------------------------------------------------
(* Properties *)

Areas == [base : Addrs, size : Addrs]

(* The memory map stays within its table, and areas within a word.           *)
TypeOK ==
    /\ setup \in Setups
    /\ DOMAIN mem = Cells(Ram)
    /\ images.os \in BOOLEAN /\ \A a \in {images.rd, images.initrd, images.ft, told, kernel} : a \in Areas
    /\ Len(images.lmb) <= MAX_LMB_REGIONS /\ \A i \in 1..Len(images.lmb) : images.lmb[i] \in Areas
    /\ dt.total \in Addrs /\ dt.rsv \subseteq Areas
    /\ pc \in {"uboot", "linux", "hang", "reset", "crash"} /\ boots \in 0..MaxBoots

(* Nothing is copied over U-Boot while it runs, nor, once the kernel has been  *)
(* loaded beside its image and reserved, over the kernel: wherever ramdisk     *)
(* and device tree were loaded and are told to go, and whichever sub-commands  *)
(* move them, once or twice.                                                  *)
KernelKept ==
    /\ \A c \in Cells(Stack) : mem[c] = <<"uboot", c>>
    /\ kernel # NoArea => Holds(mem, kernel, "kernel", 1)

(* There is room above everything the user has loaded for two copies of the   *)
(* ramdisk and of the device tree (the states RAMDISK and FDT make the first,  *)
(* OS_PREP makes the second), and nothing keeps them from it.                  *)
Roomy ==
    LET need == 2 * Up(setup.rd.size - 1, Page) + Up(setup.ft.size + Pad, Page)
                + Up(setup.ft.size + 2 * Pad, Page) + Page
    IN /\ \A a \in {setup.blob, Target, setup.rd, setup.ft, Params} \union setup.rsv : End(a) + need <= Stack.base
       /\ {setup.initrd_high, setup.fdt_high} \subseteq {Unset, Here}

(* The kernel is loaded beside the ramdisk and the device tree: bootm_load_os  *)
(* does not check it, and ramdisk and tree are moved only afterwards.          *)
Beside == \A a \in {setup.rd, setup.ft} : ~Overlap(Target, a)

(* With that room, and the kernel beside them, preparing the kernel does not   *)
(* fail, whatever was tried before, and the kernel is given the whole ramdisk  *)
(* and the whole device tree it was started with, whichever sub-commands       *)
(* moved them: no copy lands on an image that is still to be moved or on one   *)
(* that was.                                                                  *)
HandedOver == Roomy /\ Beside =>
    /\ pc # "hang"
    /\ pc = "linux" /\ OS_PREP \in ran =>
         /\ told.size = images.rd.size
         /\ told # NoArea => Holds(mem, told, "rd", 1)
         /\ UsesFdt => Holds(mem, Area(images.ft.base, setup.ft.size + setup.fix), "ft", 0)

(* The states of one boot run in their order: "The sub-commands must be issued *)
(* in the order below (it's ok to not issue all sub-commands)".  None of them   *)
(* runs twice, but for a load that is refused for its compression: a whole     *)
(* bootm has only START in images.state once bootm_start has cleared it, so    *)
(* after its failure loados is accepted, and refused, once more.               *)
InOrder == [][\A f \in todo \ {START} : At(f) /\ todo' # todo =>
    \A g \in ran : g < f \/ (g = f /\ LoadUnimplemented)]_vars
====
