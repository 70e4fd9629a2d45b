------------------------------ MODULE SplNand ------------------------------
(***************************************************************************)
(* The flash operations of the SPL (spl/nand.c) on a chip that is a        *)
(* function from page numbers to page contents.  Addresses are counted in  *)
(* pages, so the page-alignment checks of the code always pass.  The SPL   *)
(* has no bad-block handling and ignores the chip's status: an erase and a *)
(* page write do what they were told.                                      *)
(***************************************************************************)
EXTENDS Integers

CONSTANTS
  BlockPages,    \* PAGE_PER_BLK
  NPages         \* pages of the chip

ASSUME GeometryAssumption == BlockPages \in Nat \ {0} /\ NPages \in Nat

Erased == <<>>

(* An address that is not block aligned is refused.                        *)
nand_erase(fl, addr) ==
  [p \in 0..(NPages - 1) |->
     IF addr % BlockPages = 0 /\ p \in addr..(addr + BlockPages - 1)
     THEN Erased ELSE fl[p]]

nand_write_page(fl, addr, page) ==
  [p \in 0..(NPages - 1) |-> IF p = addr THEN page ELSE fl[p]]

(* Mutant: no erase. *)
program_tonand_NoErase(fl, addr, page) == nand_write_page(fl, addr, page)

(* Mutant: the block is erased before every page. *)
program_tonand_EraseAlways(fl, addr, page) ==
  nand_write_page(nand_erase(fl, addr - (addr % BlockPages)), addr, page)

(* Erase at a block boundary, then write the page.                         *)
program_tonand(fl, addr, page) ==
  nand_write_page(IF addr % BlockPages = 0 THEN nand_erase(fl, addr) ELSE fl,
                  addr, page)
=============================================================================
