----------------------------- MODULE VirtQueue -----------------------------
(***************************************************************************)
(* A split virtqueue, src/kernel/drivers/virtio/virtio.c: the pool of free *)
(* descriptors linked through desc[].next, and the available and used      *)
(* rings with their free-running indexes.  A queue is a record; each        *)
(* operator is the queue after the C function of the same name.             *)
(***************************************************************************)
EXTENDS Integers, FiniteSets

CONSTANT IdxMod   \* ring indexes are uint16_t: modulo 2^16

ASSUME IdxAssumption == IdxMod \in Nat \ {0}

NoBuffer == -1

\* virtio_queue_init_one: the pool is linked for the size asked for, and the
\* device may then accept a smaller one.
QueueInit(size, accepted) ==
  LET ids == 0 .. (size - 1)
  IN  [queue_size |-> accepted,
       next |-> [i \in ids |-> (i + 1) % size],
       addr |-> [i \in ids |-> NoBuffer],
       free_head |-> 0, free_count |-> size,
       avail_idx |-> 0, avail |-> [i \in ids |-> 0], avail_pub |-> 0,
       used_idx |-> 0,  used |-> [i \in ids |-> 0],  used_pub |-> 0]

Step(idx) == (idx + 1) % IdxMod

PoolEmpty(q) == q.free_count = 0
\* Mutant: the head of the pool stays.
AllocDescStuck(q, id) == [q EXCEPT !.free_count = @ - 1]

\* virtio_queue_alloc_desc has read the head of the pool, id, and unlinks it.
AllocDesc(q, id) == [q EXCEPT !.free_head = q.next[id], !.free_count = @ - 1]

\* The functions below return early on an id past the accepted size.
Known(q, id) == id < q.queue_size

DescFill(q, id, addr) ==
  IF Known(q, id) THEN [q EXCEPT !.addr[id] = addr, !.next[id] = 0] ELSE q

\* virtio_queue_submit and virtio_queue_recycle: the ring entry, then the index.
WriteRing(q, id) ==
  IF Known(q, id) THEN [q EXCEPT !.avail[q.avail_idx % q.queue_size] = id] ELSE q
PublishIdx(q, id) ==
  IF Known(q, id)
  THEN [q EXCEPT !.avail_idx = Step(@), !.avail_pub = Step(q.avail_idx)]
  ELSE q

\* Mutant: a completed descriptor is not returned.
FreeDescLost(q, id) == q

FreeDesc(q, id) ==
  IF Known(q, id)
  THEN [q EXCEPT !.next[id] = q.free_head, !.free_head = id, !.free_count = @ + 1]
  ELSE q

HasUsed(q) == q.used_idx # q.used_pub
UsedId(q)  == q.used[q.used_idx % q.queue_size]
PopUsed(q) == [q EXCEPT !.used_idx = Step(@)]

\* virtio_queue_add_buffer.
AddBuffer(q, addr) ==
  LET id == q.free_head
      f  == DescFill(AllocDesc(q, id), id, addr)
  IN  IF PoolEmpty(q) THEN q ELSE PublishIdx(WriteRing(f, id), id)

\* A new queue after a driver has added a buffer size times, each from the
\* head of the pool: all are offered, in descriptor order.
Seeded(size) ==
  LET same == [i \in 0 .. (size - 1) |-> i]
      zero == [i \in 0 .. (size - 1) |-> 0]
  IN  [queue_size |-> size, next |-> zero, addr |-> same,
       free_head |-> 0, free_count |-> 0,
       avail_idx |-> size, avail |-> same, avail_pub |-> size,
       used_idx |-> 0, used |-> zero, used_pub |-> 0]

-----------------------------------------------------------------------------
(* The device's side: it reads the available ring up to the published index *)
(* (seen is how far it got) and writes the used ring.                       *)
Offered(q, seen)   == seen # q.avail_pub
OfferedId(q, seen) == q.avail[seen % q.queue_size]
PushUsed(q, id) ==
  [q EXCEPT !.used[q.used_pub % q.queue_size] = id, !.used_pub = Step(@)]

(* What is where, for the properties.                                       *)
Between(from, to) == (to - from) % IdxMod
OfferedIds(q, seen) ==
  {q.avail[((seen + k) % IdxMod) % q.queue_size] : k \in 0 .. (Between(seen, q.avail_pub) - 1)}
UsedIds(q) ==
  {q.used[((q.used_idx + k) % IdxMod) % q.queue_size] :
     k \in 0 .. (Between(q.used_idx, q.used_pub) - 1)}
FreeIds(q) ==
  LET walk[n \in Nat] == IF n = 0 THEN q.free_head ELSE q.next[walk[n - 1]]
  IN  {walk[n] : n \in 0 .. (q.free_count - 1)}
=============================================================================
