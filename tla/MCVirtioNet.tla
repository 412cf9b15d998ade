---------------------------- MODULE MCVirtioNet ----------------------------
(* Queues of two descriptors, ring indexes that wrap, an inbox of two, and  *)
(* arrivals that overflow it: one asks for an answer, one is a runt.         *)
EXTENDS VirtioNet

MCKind == <<"ask", "plain", "runt", "plain">>
=============================================================================
