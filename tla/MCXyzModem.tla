------------------------------ MODULE MCXyzModem ------------------------------
(* Frames of four or eight bytes, a buffer of eight, numbers that wrap.      *)
EXTENDS XyzModem

(* Two files without ^Z; one with ^Z at the end of a frame in its middle; one *)
(* that ends in ^Z, whose last frame is then nothing but ^Z.                  *)
MCFiles == {[length |-> 5, eofs |-> {}], [length |-> 13, eofs |-> {}],
            [length |-> 13, eofs |-> 6..8], [length |-> 9, eofs |-> {9}]}
===============================================================================
