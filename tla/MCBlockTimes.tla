---------------------------- MODULE MCBlockTimes ----------------------------
(* Five blocks in three chunks, the last of one block; two threads.         *)
EXTENDS BlockTimes

MCMiner == [n \in Heights |-> IF n % 3 = 0 THEN "ann" ELSE "bob"]
=============================================================================
