----------------------------- MODULE MCSplMenu -----------------------------
(* SplMenu on a chip of three blocks of three pages: BL1 is page 0, BL2    *)
(* pages 1 to 6, the environment block 2, so that the last page of BL2 is  *)
(* the first of the environment, as 0x40000 is in the real layout.         *)
EXTENDS SplMenu
=============================================================================
