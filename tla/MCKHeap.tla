------------------------------ MODULE MCKHeap ------------------------------
(* A heap of 13 units of 4 bytes with the code's header and minimum block: *)
(* room for four minimal blocks and a rest too small to split.              *)
EXTENDS KHeap

MCRequests == {1, 4, 6, 15}
MCCounts   == {<<2, 5>>, <<0, 3>>}
=============================================================================
