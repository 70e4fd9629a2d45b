----------------------------- MODULE MCEnvNand -----------------------------
(* EnvNand with serials that wrap after four.  "small" is one copy, as on  *)
(* this board, or two, of one block with one to spare, and everything may  *)
(* fail; "large" is two copies of two blocks with one to spare, and the    *)
(* power may fail.                                                         *)
EXTENDS EnvNand

small(C) == [copies |-> C, env |-> 1, range |-> 2, bad |-> 2,
             faults |-> {"cut", "write", "erase"}, faulty |-> 2]
large    == [copies |-> {1, 2}, env |-> 2, range |-> 3, bad |-> 1,
             faults |-> {"cut"}, faulty |-> 1]

MCSetups == {small({1}), small({1, 2}), large}
=============================================================================
