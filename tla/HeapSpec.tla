------------------------------ MODULE HeapSpec ------------------------------
(***************************************************************************)
(* What kheap.h promises of kmalloc, kcalloc and kfree: a live pointer     *)
(* owns the units behind it, and no two live pointers share one.  Nothing  *)
(* is said of where a block lies or of when an allocation fails.            *)
(***************************************************************************)
EXTENDS Integers

CONSTANT HeapUnits   \* size of the heap in 16-byte units

VARIABLE live        \* payload units of each live pointer

Payload(p, n) == p .. (p + n - 1)

Init == live = << >>

\* A new block lies in the heap, clear of every live one.
Alloc(p, n) ==
  /\ p \notin DOMAIN live
  /\ Payload(p, n) \subseteq 0 .. (HeapUnits - 1)
  /\ \A q \in DOMAIN live : Payload(q, live[q]) \cap Payload(p, n) = {}
  /\ live' = [q \in DOMAIN live \cup {p} |-> IF q = p THEN n ELSE live[q]]

Free(p) == live' = [q \in DOMAIN live \ {p} |-> live[q]]

Next ==
  \/ \E p \in 0 .. HeapUnits, n \in 0 .. HeapUnits : Alloc(p, n)
  \/ \E p \in DOMAIN live : Free(p)

Spec == Init /\ [][Next]_live
=============================================================================
