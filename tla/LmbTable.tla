-------------------------------- MODULE LmbTable --------------------------------
(***************************************************************************)
(* The tables of lib/lmb.c as values: a sorted table of at most              *)
(* MAX_LMB_REGIONS regions, an area added to or freed from it, and the       *)
(* search for the highest free area.                                         *)
(***************************************************************************)
EXTENDS Integers, Sequences, FiniteSets, SequencesExt

CONSTANTS Word,             \* 2^32: addresses are unsigned words
          MAX_LMB_REGIONS   \* 8

Addrs == 0..(Word - 1)

ASSUME TableAssumption == Word \in Nat /\ MAX_LMB_REGIONS \in Nat

Area(base, size) == [base |-> base, size |-> size]
End(a) == a.base + a.size
Cells(a) == a.base..(End(a) - 1)

Overlap(a, b) == a.base < End(b) /\ b.base < End(a)     \* lmb_addrs_overlap
Adjacent(a, b) == b.base = End(a) \/ a.base = End(b)    \* lmb_addrs_adjacent # 0
Down(addr, align) == addr - (addr % align)              \* lmb_align_down
Up(size, align) == Down(size + align - 1, align)        \* lmb_align_up
First(S) == CHOOSE i \in S : \A j \in S : i <= j

-------------------------------------------------------------------------------
(* lmb_coalesce_regions: region i swallows region i + 1.                    *)
Coalesce_Drop(rgn, i) == RemoveAt(rgn, i + 1)

Coalesce(rgn, i) == RemoveAt([rgn EXCEPT ![i].size = @ + rgn[i + 1].size], i + 1)

(* A region with the area next to it.                                       *)
Joined_Up(r, a) == Area(r.base, r.size + a.size)

Joined(r, a) == Area(IF r.base = End(a) THEN a.base ELSE r.base, r.size + a.size)

(* The new area in its place by address: the loop moves regions up from the *)
(* end of the table to the last one that starts no higher.  What starts      *)
(* below the first region is then put in the first place, over the region    *)
(* that is there: in a sorted table the one the loop has already moved.      *)
Insert(rgn, a) ==
    LET below == {i \in 1..Len(rgn) : rgn[i].base <= a.base}
        put == InsertAt(rgn, 1 + (IF below = {} THEN 0 ELSE CHOOSE i \in below : \A j \in below : j <= i), a)
    IN IF a.base < rgn[1].base THEN [put EXCEPT ![1] = a] ELSE put

(* The check for room in the table.                                         *)
Full(rgn) == Len(rgn) >= MAX_LMB_REGIONS

(* lmb_add_region: the table after it, and whether it returns >= 0.         *)
lmb_add_region(rgn, a) ==
    LET hits == {i \in 1..Len(rgn) : rgn[i] = a \/ Adjacent(a, rgn[i])}
        i == First(hits)
        grown == [rgn EXCEPT ![i] = Joined(rgn[i], a)]
    IN IF Len(rgn) = 1 /\ rgn[1].size = 0 THEN [rgn |-> <<a>>, ok |-> TRUE]
       ELSE IF hits # {} /\ rgn[i] = a THEN [rgn |-> rgn, ok |-> TRUE]
       ELSE IF hits # {}
            THEN [rgn |-> IF i < Len(rgn) /\ Adjacent(grown[i], grown[i + 1])
                          THEN Coalesce(grown, i) ELSE grown,
                  ok |-> TRUE]
       ELSE IF Full(rgn) THEN [rgn |-> rgn, ok |-> FALSE]
       ELSE [rgn |-> Insert(rgn, a), ok |-> TRUE]

(* lmb_free: from the first region that holds the area, the whole, the      *)
(* front, the end, or the middle, whose tail becomes a region of its own.    *)
lmb_free(rgn, a) ==
    LET holds == {i \in 1..Len(rgn) : rgn[i].base <= a.base /\ End(a) <= End(rgn[i])}
        i == First(holds)
        r == rgn[i]
    IN IF holds = {} THEN [rgn |-> rgn, ok |-> FALSE]
       ELSE IF r = a THEN [rgn |-> RemoveAt(rgn, i), ok |-> TRUE]
       ELSE IF r.base = a.base
            THEN [rgn |-> [rgn EXCEPT ![i] = Area(End(a), r.size - a.size)], ok |-> TRUE]
       ELSE IF End(r) = End(a)
            THEN [rgn |-> [rgn EXCEPT ![i].size = @ - a.size], ok |-> TRUE]
       ELSE lmb_add_region([rgn EXCEPT ![i].size = a.base - r.base],
                           Area(End(a), End(r) - End(a)))

(* __lmb_alloc_base in one memory region: from base down to below each      *)
(* reserved region that is in the way, as long as it stays at or above low.  *)
SearchDown_Align(rgn, size, align, base, low) ==
    LET from[b \in Addrs] ==
            LET hits == {j \in 1..Len(rgn) : Overlap(Area(b, size), rgn[j])}
            IN IF b = 0 \/ b < low THEN 0
               ELSE IF hits = {} THEN b
               ELSE IF rgn[First(hits)].base < size THEN 0
               ELSE from[Down(rgn[First(hits)].base - size, align) - align]
    IN from[base]

SearchDown(rgn, size, align, base, low) ==
    LET from[b \in Addrs] ==
            LET hits == {j \in 1..Len(rgn) : Overlap(Area(b, size), rgn[j])}
            IN IF b = 0 \/ b < low THEN 0
               ELSE IF hits = {} THEN b
               ELSE IF rgn[First(hits)].base < size THEN 0
               ELSE from[Down(rgn[First(hits)].base - size, align)]
    IN from[base]

(* The base __lmb_alloc_base finds, or 0: the memory regions from the last,  *)
(* each from its end or from max_addr.                                      *)
Search(mem, rgn, size, align, max_addr) ==
    LET top(m) == IF max_addr = 0 \/ End(m) < max_addr THEN End(m) ELSE max_addr
        from[i \in 0..Len(mem)] ==
            IF i = 0 THEN 0
            ELSE LET m == mem[i]
                     base == SearchDown(rgn, size, align, Down((top(m) - size) % Word, align), m.base)
                 IN IF m.size < size \/ (max_addr # 0 /\ m.base >= max_addr) \/ base = 0
                    THEN from[i - 1] ELSE base
    IN from[Len(mem)]

(* lmb_alloc_base: the table after it and the base, 0 when there is no room   *)
(* in memory or in the table.                                                *)
lmb_alloc_base(mem, rgn, size, align, max_addr) ==
    LET take(base, add) == IF base = 0 \/ ~add.ok THEN [base |-> 0, rgn |-> rgn]
                           ELSE [base |-> base, rgn |-> add.rgn]
        enter(base) == take(base, lmb_add_region(rgn, Area(base, Up(size, align))))
    IN enter(Search(mem, rgn, size, align, max_addr))

Empty == <<Area(0, 0)>>      \* lmb_init
================================================================================
