------------------------------ MODULE MCNandBbt ------------------------------
(* A chip of five blocks, the last three for tables, and versions modulo 4. *)
EXTENDS NandBbt

MCFactory == {{}, {NBlocks}}
====
