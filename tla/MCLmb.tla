---------------------------------- MODULE MCLmb ----------------------------------
(* Nine cells of memory from address 4, in one or two regions.               *)
EXTENDS Lmb

MCMemories == {<<Area(4, 9)>>, <<Area(9, 4), Area(4, 4)>>}
MCStack == Area(11, 2)
====
