--------------------------------- MODULE MCBootm ---------------------------------
(* Memory of 32 cells of half a page, the last two for U-Boot.  A kernel      *)
(* image of three cells, a ramdisk of three, a device tree of two, loaded     *)
(* anywhere among a few places, low or high; the kernel goes beside them, over  *)
(* its own image, or (from 9) over ramdisk and tree.                           *)
EXTENDS Bootm

MCRam == Area(2, 32)
MCStack == Area(32, 2)
MCParams == Area(2, 1)

(* Both images are moved as high as can be, stay in place, or one is kept     *)
(* below a limit.                                                             *)
Highs == {<<Unset, Unset>>, <<Here, Here>>, <<20, Unset>>, <<Unset, 20>>}

MCSetups == {s \in
    [libfdt : BOOLEAN, comp : {"none", "gzip", "other"},
     blob : {Area(5, 3), Area(27, 3)}, load : {3, 5, 9, 28, 29}, len : {2, 3, 4},
     rd : {NoArea, Area(8, 3), Area(24, 3)}, ft : {NoArea, Area(11, 2), Area(30, 2)},
     rsv : {{}, {Area(29, 1)}},
     initrd_high : {Unset, Here, 20}, fdt_high : {Unset, Here, 20}, fix : {1}] :
    /\ IF s.comp = "gzip" THEN s.len > 2 ELSE s.len = s.blob.size - 1
    /\ <<s.initrd_high, s.fdt_high>> \in Highs
    /\ s.rd = NoArea \/ s.rsv # {} => s.initrd_high = Unset /\ s.fdt_high = Unset
    /\ s.ft = NoArea => s.fdt_high # 20 /\ s.rsv = {}
    /\ ~s.libfdt => s.ft = NoArea
    /\ s.comp = "other" \/ s.len = 4 => s.load = 3 /\ s.rsv = {} /\ s.initrd_high = Unset /\ s.rd.base # 24
    /\ s.comp = "gzip" => s.blob.base = 5 /\ s.load # 28
    /\ Placed(s)}
====
