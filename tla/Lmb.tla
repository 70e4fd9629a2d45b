----------------------------------- MODULE Lmb -----------------------------------
(***************************************************************************)
(* The logical memory blocks of bootm, lib/lmb.c: the areas of memory in use *)
(* while an image is booted (stack, kernel, ramdisk, device tree), as a      *)
(* sorted table of MAX_LMB_REGIONS regions, and the allocation of the        *)
(* highest free area.  The callers are common/cmd_bootm.c, image.c and       *)
(* image-fdt.c: they reserve an area, allocate one, and resize the one of    *)
(* the device tree by freeing it and reserving it again.                     *)
(***************************************************************************)
EXTENDS LmbTable

CONSTANTS Memories,         \* the areas of memory of a board, a set of sequences
          Stack,            \* the area arch_lmb_reserve takes, at the end of memory
          Sizes, Aligns,    \* of the areas reserved and allocated
          Limits,           \* max_addr: 0 is LMB_ALLOC_ANYWHERE
          MaxCalls          \* bound: so many calls in one boot

ASSUME LmbAssumption ==
    /\ MaxCalls \in Nat
    /\ Sizes \subseteq Addrs \ {0} /\ Aligns \subseteq Addrs \ {0} /\ Limits \subseteq Addrs

VARIABLES memory, reserved, \* the two tables of struct lmb
          overlap,          \* areas may be reserved that overlap others; none is resized then
          owned,            \* history: the areas the callers count on
          lost,             \* history: a resize has run into the end of the table
          shared,           \* history: an area was reserved over a region of the table
          mixed,            \* history: the table was not sorted
          calls             \* history: calls so far

vars == <<memory, reserved, overlap, owned, lost, shared, mixed, calls>>

Sorted(rgn) == \A i \in 1..(Len(rgn) - 1) : rgn[i].base <= rgn[i + 1].base

(* boot_start_lmb: the memory of the board, and arch_lmb_reserve.           *)
Init == /\ \E mem \in Memories :
              memory = FoldLeft(LAMBDA rgn, a : lmb_add_region(rgn, a).rgn, Empty, mem)
        /\ reserved = lmb_add_region(Empty, Stack).rgn
        /\ overlap \in BOOLEAN
        /\ owned = {Stack} /\ lost = FALSE /\ shared = FALSE /\ mixed = FALSE /\ calls = 0

(* lmb_reserve of the kernel, of a ramdisk or a device tree in place, or of  *)
(* an area of the device tree: nobody looks at the result.                   *)
Reserve(a) ==
    LET add == lmb_add_region(reserved, a)
    IN /\ calls < MaxCalls /\ calls' = calls + 1
       /\ overlap \/ \A b \in owned : ~Overlap(a, b)
       /\ reserved' = add.rgn /\ mixed' = (mixed \/ ~Sorted(add.rgn))
       /\ owned' = IF add.ok THEN owned \union {a} ELSE owned
       /\ shared' = (shared \/ \E i \in 1..Len(reserved) : Overlap(a, reserved[i]))
       /\ UNCHANGED <<memory, overlap, lost>>

(* lmb_alloc_base of a ramdisk or a device tree.                            *)
Alloc(size, align, max_addr) ==
    LET got == lmb_alloc_base(memory, reserved, size, align, max_addr)
    IN /\ calls < MaxCalls /\ calls' = calls + 1
       /\ reserved' = got.rgn /\ mixed' = (mixed \/ ~Sorted(got.rgn))
       /\ owned' = IF got.base = 0 THEN owned ELSE owned \union {Area(got.base, size)}
       /\ UNCHANGED <<memory, overlap, lost, shared>>

(* image_setup_libfdt: the area of the device tree is freed and a smaller    *)
(* one reserved in its place, again without a look at the results.           *)
Resize(a, size) ==
    LET free == lmb_free(reserved, a)
        add == lmb_add_region(free.rgn, Area(a.base, size))
    IN /\ calls < MaxCalls /\ calls' = calls + 1
       /\ ~overlap /\ a # Stack /\ size <= a.size
       /\ reserved' = add.rgn /\ mixed' = (mixed \/ ~Sorted(add.rgn))
       /\ owned' = (owned \ {a}) \union {Area(a.base, size)}
       /\ lost' = (lost \/ ~free.ok \/ ~add.ok)
       /\ UNCHANGED <<memory, overlap, shared>>

Span == 1..(End(Stack) - 1)

Next == \/ \E base \in Span, size \in Sizes : base + size <= End(Stack) /\ Reserve(Area(base, size))
        \/ \E size \in Sizes, align \in Aligns, max_addr \in Limits : Alloc(size, align, max_addr)
        \/ \E a \in owned, size \in Sizes : Resize(a, size)

Spec == Init /\ [][Next]_vars

-------------------------------------------------------------------------------
IsTable(rgn) == Len(rgn) \in 1..MAX_LMB_REGIONS /\ \A i \in 1..Len(rgn) : rgn[i] \in [base : Addrs, size : Addrs]

(* The tables stay within their arrays and addresses within a word.          *)
TypeOK == /\ IsTable(memory) /\ IsTable(reserved)
          /\ overlap \in BOOLEAN /\ lost \in BOOLEAN /\ shared \in BOOLEAN /\ mixed \in BOOLEAN /\ calls \in 0..MaxCalls
          /\ owned \subseteq [base : Addrs, size : Addrs]

(* Every area a caller counts on stays reserved, through the coalescing of   *)
(* neighbours, the insertion of others and the splitting of regions by       *)
(* lmb_free, until a resize finds the table full (see the README), and as    *)
(* long as the table is sorted.  It is sorted while no area is reserved over *)
(* a region of the table; one reserved over a region may make its neighbour   *)
(* grow down past it, and the next insertion or merger may drop a region.    *)
Protected ==
    ~lost => /\ mixed => shared
             /\ ~mixed => \A a \in owned : \A c \in Cells(a) :
                             \E i \in 1..Len(reserved) : c \in Cells(reserved[i])

(* Areas that callers reserve apart from each other stay apart from all that  *)
(* is allocated: a ramdisk or a device tree is never copied over the kernel,  *)
(* the stack or another image; up to the same two cases.                     *)
Apart == ~overlap /\ ~lost /\ ~mixed => \A a, b \in owned : a # b => ~Overlap(a, b)

(* What an allocation may return: an aligned area of one memory region below *)
(* the limit that touches nothing reserved.                                  *)
Fits(base, size, align, max_addr) ==
    /\ base % align = 0
    /\ \E i \in 1..Len(memory) : memory[i].base <= base /\ base + size <= End(memory[i])
    /\ max_addr # 0 => base + size <= max_addr
    /\ \A j \in 1..Len(reserved) : ~Overlap(Area(base, size), reserved[j])

(* __lmb_alloc_base returns the highest area that fits, and fails only when  *)
(* there is none, whatever has been reserved and in whatever order.          *)
AllocIsHighest == \A size \in Sizes, align \in Aligns, max_addr \in Limits :
    LET base == Search(memory, reserved, size, align, max_addr)
        fits == {b \in Span : Fits(b, size, align, max_addr)}
    IN IF base = 0 THEN fits = {} ELSE base \in fits /\ \A b \in fits : b <= base
====
