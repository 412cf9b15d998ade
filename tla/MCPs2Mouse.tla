----------------------------- MODULE MCPs2Mouse -----------------------------
(* Two packets, with the timer on the master and a PCI line on the slave.   *)
EXTENDS Ps2Mouse

\* Motion within a signed byte: right and down by one; left, button held,
\* with the vertical count overflowed.
MCPackets == {<<8, 1, 1>>, <<153, 255, 7>>}
MCLines   == {0, 11}
=============================================================================
