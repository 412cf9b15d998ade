--------------------------- MODULE MCVirtioInput ---------------------------
(* A keyboard and a mouse with queues of two buffers, and a ring with room  *)
(* for two characters. The right shift key is left out: its bit is lost.    *)
EXTENDS VirtioInput

Act(d, k, c, v) == [dev |-> d, kind |-> k, code |-> c, value |-> v]

MCDevices == {"kbd", "mouse"}
MCInputs  ==
  {Act("kbd", "key", 42, 1), Act("kbd", "key", 42, 0), Act("kbd", "key", 30, 1),
   Act("kbd", "key", 30, 2), Act("mouse", "button", 272, 1),
   Act("mouse", "button", 272, 0), Act("mouse", "rel", 0, 1), Act("mouse", "short", 0, 0)}

\* Seeded is what virtio_queue_add_buffer makes, one buffer after the other.
Added(size) ==
  LET added[n \in 0 .. size] ==
        IF n = 0 THEN QueueInit(size, size) ELSE AddBuffer(added[n - 1], n - 1)
  IN  added[size]
ASSUME SeededByAdding == \A size \in 1 .. (IdxMod - 1) : Seeded(size) = Added(size)
=============================================================================
