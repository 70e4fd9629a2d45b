----------------------------- MODULE MCNetTftp -----------------------------
(* late: a network that keeps the order, a file whose block numbers wrap.  *)
(* reorder: a network that does not, a file whose numbers do not wrap.     *)
(* prompt: three losses, and timeouts only when nothing is on its way.     *)
EXTENDS NetTftp

late == [n |-> 4, numbers |-> 3, timeouts |-> 1, ndev |-> 2, options |-> BOOLEAN,
         prompt |-> FALSE, reorder |-> FALSE, loss |-> 1, queue |-> 2, errors |-> 1, tids |-> 3]
reorder == [n |-> 3, numbers |-> 8, timeouts |-> 1, ndev |-> 1, options |-> {TRUE},
            prompt |-> FALSE, reorder |-> TRUE, loss |-> 0, queue |-> 2, errors |-> 0, tids |-> 2]
prompt == [n |-> 5, numbers |-> 3, timeouts |-> 3, ndev |-> 1, options |-> {TRUE},
           prompt |-> TRUE, reorder |-> FALSE, loss |-> 3, queue |-> 3, errors |-> 0, tids |-> 4]

MCSetups == {late, reorder, prompt}
=============================================================================
