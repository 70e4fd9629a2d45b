---------------------------- MODULE MCSplXmodem ----------------------------
(* SplXmodem on a small file: bytes of a frame that look like nothing, or  *)
(* like EOT where the number of data field 2 is (0x04 for field 4).        *)
EXTENDS SplXmodem

PlainValue == [n \in 1..FileLen |-> [i \in 2..FrameSize |-> "x"]]
NumberIsEot == [n \in 1..FileLen |->
                  [i \in 2..FrameSize |->
                     IF n = 2 /\ i = 2 THEN "EOT" ELSE "x"]]
=============================================================================
