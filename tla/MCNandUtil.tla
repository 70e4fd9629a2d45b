----------------------------- MODULE MCNandUtil -----------------------------
(* NandUtil on three blocks of two pages, a page being two units.           *)
EXTENDS NandUtil
=============================================================================
