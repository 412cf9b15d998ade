# Sol OS: models, model checks and proofs

TLA+ specifications of the Sol OS kernel (`src/kernel`, x86_64, C), the TLC
configurations that check them on small instances, and TLAPS proofs about the
allocators, the drivers, the internet client, the desktop and the image decoder. Every
definition that models code is mapped to its lines in
`PROJECT.json`; the line numbers below refer to the same commit.

## 1. The system

One CPU. `kmain` boots the parts in a fixed order and then loops: echo a PS/2
key, `desktop_poll`, `net_poll`, `mouse_get_delta`, `hlt`. Interrupt handlers
nest on this loop; every gate is an interrupt gate, so IF is clear while a
handler runs and handlers do not nest on each other. There are no threads, no
locks and no user space: the only concurrency is *main loop × interrupt
handlers × devices*, and the only protection is `cli`/`sti`.

| component | state | operations | interacts with |
|---|---|---|---|
| page allocator `mm/pmm.c` | bitmap, hint, free count | init from the memory map, alloc, free | heap, virtio (pages), drivers |
| heap `mm/kheap.c` | block list in 96 MiB | `kmalloc`, `kcalloc`, `kfree` | desktop, klog |
| PIC and IDT `arch/x86_64/pic.c`, `idt.c` | masks, handler chains per line | remap, unmask, EOI, dispatch | every driver |
| PS/2 mouse `arch/x86_64/mouse.c` | packet position, totals | IRQ12, `mouse_get_delta` | main loop |
| PS/2 keyboard, timer | ring; tick count | IRQ1, IRQ0 | main loop; every timeout |
| virtqueue `drivers/virtio/virtio.c` | descriptor pool, two rings | alloc, fill, submit, recycle, pop, free | device; net and input drivers |
| NIC driver `virtio_net.c` | two queues, inbox | send, receive, poll, interrupt | netstack; answers ARP/ping itself |
| input driver `virtio_input.c` | event queue per device, character ring, shift and button masks, motion | drain from interrupt and poll, read char, get delta | desktop |
| internet client `netstack.c` | one connection record, ARP cache | `ns_http_get`, `ns_abort`, `ns_poll` | NIC driver, desktop (callback), TLS |
| TLS `tls.c`, `crypto.c` | handshake state, record buffers | connect, feed, poll | netstack |
| desktop `desktop.c` | windows, damage, drag state | open, close, raise, minimise, maximise, draw | everything above |
| browser, terminal (`desktop.c`) | page and fetch state; scrollback and command line | navigate, callback; keys, commands | netstack; windows |
| files, Notepad, file manager (`desktop.c`) | 32 file slots; an editor or a list position in each window | New, Open, Save, Save As, select, delete | windows |
| PNG, framebuffer, RTC, PCI, paging | buffers, clip, CMOS, tables | decode, draw, read, scan, map | desktop, boot |

What makes each correct, and where it is hard:

* **pmm / kheap** – no memory has two owners and none is lost, for *any* order
  of allocations and frees, double frees included. The hazards are merges
  through neighbours' headers, stale headers, a cached hint, a count kept apart
  from the bitmap.
* **mouse / PIC** – an interrupt at every point between reading and clearing
  the totals; a packet spread over three interrupts; an early return that sends
  no EOI; priorities of the cascaded chips.
* **virtqueues / NIC** – the same drain runs from the interrupt and from the
  poll, sends answers through `net_send`, which the main loop may be inside,
  while the device moves its ends of rings whose indexes wrap.
* **input** – events handled long after they happened; totals and a ring filled
  in one context and emptied in another.
* **netstack** – loss, duplication, delay and reordering; retries and one
  deadline; one connection record shared by all callers; callbacks.
* **TLS** – one session record under the one connection: records cut anywhere into
  segments, messages a server repeats, a session whose request is gone.
* **windows and drawing** – a press may close, move or cover the window another
  part of the state names; each operation must ask for enough repainting, in two
  pages of which one was not drawn last time.
* **browser** – a callback that comes when the window was closed, reused or sent
  elsewhere.
* **clock, PNG, page tables, terminal** – boundaries: midnight and leap days,
  codes and copies of every length, huge pages and exhausted memory, a ring of lines.
* **files** – windows remember slots, names and list positions of files other
  windows save, rename and delete.

## 2. Modules

| code | specification | abstract specification | instance | proofs |
|---|---|---|---|---|
| pmm.c | `Pmm` | – | `MCPmm` | `MemoryProofs` |
| kheap.c | `KHeap` | `HeapSpec` | `MCKHeap` | `MemoryProofs` |
| mouse.c, pic.c, idt.c | `Ps2Mouse` | – | `MCPs2Mouse` | `InputProofs` |
| virtio.c | `VirtQueue` (operators) | – | – | – |
| virtio_net.c | `VirtioNet` (extends `VirtQueue`) | – | `MCVirtioNet` | `VirtioNetProofs` |
| virtio_input.c | `VirtioInput` (extends `VirtQueue`) | `KeyFifo` | `MCVirtioInput` | `InputProofs` |
| netstack.c | `NetStack` | – | `MCNetStack` | `NetStackProofs` |
| desktop.c, files and editors | `FileApps` | `FileStore` | `MCFileApps` | in `DesktopProofs` |
| desktop.c, framebuffer.c: rectangles | `Scene` (operators) | – | – | in `DesktopProofs` |
| desktop.c, windows and drawing | `Desktop` (extends `Scene`) | – | `MCDesktop` | `DesktopProofs` |
| tls.c | `Tls` (operators) | – | – | in `HttpsProofs` |
| netstack.c with tls.c, desktop.c browser | `Https` (extends `Tls`) | – | `MCHttps` | `HttpsProofs` |
| rtc.c | `Clock` (operators) | – | – | in `KernelsProofs` |
| paging.c | `Paging` (operators) | – | – | in `KernelsProofs` |
| desktop.c, terminal | `Terminal` (operators) | the user's log, in the same module | – | in `KernelsProofs` |
| png.c | `Png` (operators) | `PngEncoder`, `ImageCalls` | – | in `PngProofs` |
| calls of the last four | `Kernels` | – | `MCKernels` | `KernelsProofs`, `PngProofs` (extends it) |

### Pmm
`used` is the bitmap as a set, `hint` and `free_count` the two other statics.
`PmmInit` is all of `pmm_init`, for any memory map in `MemMaps`: which pages the
fill loop reaches (`InitialisedPages`), what the others happen to hold, the
pages reserved. `AllocPage` takes the least free page from the hint up, else
below it; `FreePage` has the four early returns. `owned` and `ret` are history:
the pages callers hold and what the last call returned.

### KHeap, HeapSpec
`hdr` is *what would be read as a `heap_block` at each address*, so headers that
merges leave behind stay readable until what is written over them loses their
magic. A caller may write any words of such a header (`WritePayload`: lose the
magic, keep it, set or clear `free`); `kcalloc` clears those its `memset` reaches.
`Kmalloc`, `Kcalloc` and `Kfree` are whole calls, `Kfree` of any address but one
(`MayFree`): behind a header whose magic a caller kept and whose `free` it cleared
(`spoiled`), `kfree` would accept a block that is none (section 6). `HeapSpec` knows only the live pointers
with their sizes: a grant is disjoint from all of them, a free removes one.

### Ps2Mouse
Each handler is one step (IF is clear throughout). `mouse_get_delta` is four:
`Cli`, `ReadTotals`, `ClearTotals`, `Sti`. `irr` and `isr` are the PIC pair's
registers with its priority rule; `MouseIrq` has the resynchronising early
return, which ends no interrupt. The mouse, the 8042 and other lines are
environment; a byte may be lost (`Lossy`).

### VirtQueue, VirtioNet
A queue is a record with both rings, the descriptor links and both sides'
indexes; each operator is the queue after the C function of its name, including
the early returns on ids past the accepted size. `VirtioNet` runs main loop and
handler over it: `at[c]` is where context `c` is, and the step boundaries are
the accesses the device or the other context can see. An arrival is `plain`,
`ask` (ARP or ping for us, answered from inside the drain) or `runt`. Writing
the available ring and publishing its index are separate steps.

### VirtioInput, KeyFifo
`Emit` is a hand's action written by a device into its next buffer;
`DrainPop`, `Handle`, `Recycle` are the loop of `virtio_input_drain`, whichever
of interrupt and poll runs it (both have interrupts masked). `ReadChar` and
`GetDelta` are atomic in the code (`cli` … `sti`) and here. History: an event
carries whether shift was down when it happened, and each device's hand has
`moved` and the driver has `told` of it. `KeyFifo` is
the promise of `virtio_input.h`: a bounded queue that drops the newest.

### NetStack
One record `ns_conn` as in the code, the ARP cache with its eviction, and for
each request what its peers have heard. The network may at any time deliver
again whatever the heard frames entitle a peer to send: this is loss,
duplication, delay and reordering at once (`Segments`: any piece of the response,
cut anywhere). A FIN without data that overtakes data comes only with `EarlyFin`.
`Poll` tests the timers in the code's order; ticks are counted from the event
they are compared with. A callback is `calls[r]` and `result[r]`.

### FileApps, FileStore
`fs` is the slot array and each window carries its editor (`text`, `fname`,
`dirty`, `file_idx`, `save_as`) or its manager (`sel`, `confirm_idx`). One
action per key or button. A text is a sequence of distinct edits, so losing,
mixing or truncating one is visible. `FileStore` has no slots or positions:
a map from names to contents and the texts of the open editors.

### Scene, Desktop
`Scene` has rectangles, the clip of `bb_clip` with its sums on 64-bit integers,
unions and hit tests. In `Desktop` one step is one `desktop_poll`: input is read,
a press is dispatched through the hit tests in the code's order, a drag or resize
goes on, damage is repainted and the frame is presented, by copying or by
flipping. `desk` is the record of everything the C functions share, and each
function is an operator from desk to desk. A *cell* stands for a block of pixels
painted alike; the damage is the rectangle around all that was asked to be
repainted; `bb` is the backbuffer's cells, `page` the framebuffer's one or two pages.

A cell of the backbuffer has two parts. `paint` is what filled it: the part of a
window (`WinPart`, in the order `win_render` draws: frame, title, `edge` (the last of
the title's rows, which the strip of `redraw_all_titles` leaves out), buttons at their
places with the margin and gaps between them, text, and in information windows the marks of the
grip; a terminal has none), of the taskbar or of the menu, a tile, the background, and whether it
has the colour of the focus. `over` is the windows that drew over it without being
there: the lines of an information window beyond its frame and the caret of the
focused terminal, neither of which is cut to the frame. `SceneCell` is what should fill
a cell, taken from the state alone; `Redraw` paints `SceneCell` and `Over`. The hit
tests (`WinButtonAt`, `OnGrip`, `IconAt`, `TaskbarWinAt`, `PressMenu`) are the
code's comparisons and quotients and know nothing of the painting; `Acts` says what each part that is shown stands for.

### Tls, Https
`g_tls` is the session; its operators are the functions of `tls.c`. A record is
a header unit and body units, so a segment may end anywhere in it; a server says
a sequence of them (`Says`), in any order and some of them wrong or repeated, the
only condition being that they are records one behind the other (`Framed`). A loop
over the records of `rx_buf` is the recursive function in `Left`. `Https` has the
browser windows, the connection record, and the phase order of `ns_poll`. What
`NetStack` models frame by frame (ARP, DNS, TCP, plain http) is one phase here.
`dead` is the machine stopping: `tls.c` stores through the `cid` pointer that its
caller passes as NULL (section 6), and which records lead there is a choice.

### Clock, Paging, Terminal, Kernels; Png, PngEncoder, ImageCalls
Functions of their arguments, three loops, and one window fed keys. `Kernels` begins
in one state per call and set of arguments; `MapTurn` is a turn of
`paging_map_physical`'s loop, which memory for tables may end early; `InflateBlock`,
`InflateLens` and `InflateCodes` are turns of the three loops of `inflate`, and
`DecodeRow` of the loop of `png_decode` over rows. Between two turns `png` holds the
local variables: the position of the next bit, what is written, the codes. A property
compares what is returned with a reference definition: minutes counted from 1
January 2000, the processor's walk through the tables, the log a user of the
terminal has in mind and, in `PngEncoder`, an encoder written from RFC 1951, which
computes the codes, lengths and distances that png.c tabulates. `ImageCalls` says what
is passed, streams cut short and too large for the room included, and what should
come of it.

## 3. Runs

Passing runs (each with every action and disjunct of its `Next` fired, and each
property broken by a mutant of the code in `PROJECT.json`):

| run | bounds | states | shows |
|---|---|---|---|
| `pmm` | 4 maps of ≤ 12 pages, 3-bit bytes, counters mod 16 | 1.3 k | `FreeCountExact`, `NoFreeBelowHint`, `PagesPartitioned` |
| `kheap` | 13 units of 4 bytes, header 2 | 90 k | `ListIsHeap`, `Coalesced`, `StaleHeadersRejected`, `AllFreedIsOneBlock`, `PayloadCoversRequest`, `ImplementsHeapSpec` |
| `mouse` | 2 packets, timer on the master, a PCI line on the slave, lossy | 14 k | `MotionConserved`, `LinesServiced` |
| `virtio_net` | queues of 2, indexes mod 4, inbox 2, 4 arrivals, 1 send | 129 k | `DescConserved`, `AcceptedSentOnce`, `InboxInOrder`, `DrainedInTheEnd` |
| `netstack` | 2 requests, 4 responses, 2 ARP slots for 3 hosts, deadline 4 ticks | 915 k | `CallbackExactlyOnce`, `OkMeansWholeBody`, `AckProvesDelivery`, `MacKnown`, `EveryRequestEnds` |
| `input` | keyboard and mouse, 2 buffers each, ring for 2, 5 inputs | 155 k | `CaseAsTyped`, `PointerExact`, `ImplementsKeyFifo`, `InputConsumed` |
| `files` | 2 windows, 2 slots, 3 names, 1 typed character | 502 k | `ImplementsFileStore`, `RemovedOnlyWhenAsked`, `SavedWhenRoom` |
| `desktop` | 11 × 9 cells, 2 windows, 7 spots, 3 presses, 1 with flipping | 33 k | `HeldWindowIsHeld`, `WindowsInWorkArea`, `BackbufferShowsScene`, `ScreenShowsBackbuffer`, `PressActsOnShown` |
| `https` | 2 browsers, 2 sites, 2 requests, 4 servers, segments of 2 units | 736 k | `PageIsAsked`, `FlightInOrder`, `HandshakeAligned`, `FetchEnds` |
| `kernels` | dates around every carry, all codes of 5 symbols up to 3 bits, every match length, ranges over tables of 2 entries, logs of 4 lines in 3 slots, windows of 2, 3 and 5 rows | 1.2 M | `IstExact`, `PngExact`, `MapExact`, `TerminalExact` |

Runs that end in a counterexample, each a disagreement between the code and
what it says of itself:

| run | property | what happens |
|---|---|---|
| `netstack_replaced` | `CallbackExactlyOnce` | a second `ns_http_get` clears the record (netstack.c:690); the first caller is never called back, `NS_ERR_ABORT` is never used |
| `client_hello` | `HelloWellFormed` | two extensions of the ClientHello declare two bytes more than are written (tls.c:190-191), so that every extension after them is misplaced |

### Why these bounds
They are the smallest at which the cases of interest occur. *pmm*: holes, a
first usable region above the reserve, a hint that moves down, a tail the fill
loop does not reach. *kheap*: four minimal blocks, so a free has free neighbours
on neither, either and both sides, and a rest one unit too small to split.
*mouse*: three bytes are a packet, so two packets show a shift of framing; one
line on each chip shows both directions of priority. *virtio_net*: two
descriptors can be exhausted, four arrivals overflow an inbox of two and wrap
the indexes. *netstack*: two requests show state left by the first; with two slots
for three hosts an answer evicts another host, again and again. *input*: a ring and queues that fill
and wrap, a drain in progress while more arrives. *files*: both slots are taken
at the start, so a new name finds no room until a file is deleted and its slot
reused under another name, and a loaded text with one edit exceeds a file.
*desktop*: an information window and a terminal overlap, may be narrowed until a text or a
caret is outside, and are clamped at the edges; a press may be at any of seven spots, which
between them are on every button, gap, grip, title and body, on an item and the
padding of the menu, on an icon's label and on the taskbar; three presses reach open, raise, minimise,
maximise, drag, restore and close in every order of that length. Keys and the
clock's second change only while the mouse rests. *https*: a window can be
closed, reopened and sent elsewhere while its first request runs, and a second
request finds the session of the first; a record of three units does not fit a
segment. *kernels*: the arguments are the boundaries of each function, listed in
`MCKernels`.

Deadlock is checked in every run.

### Fairness
* Handlers run when their line is deliverable (`SF` on `MouseIrq` and the other
  lines: a pending line is taken again and again between masked sections).
* The main loop runs on: `WF` on a routine it is inside, `SF` on those it
  calls every turn (`NetPoll`, `ReadChar`, `GetDelta`, the drains), which are
  disabled only while it is inside another. The timer wakes it from `hlt`;
  that the timer's line is never starved, even by the lost-byte fault, is
  `LinesServiced`.
* Devices finish what they were given (`TakeTx`, `CompleteTx`). **No** fairness
  is assumed of a NIC interrupt: `DrainedInTheEnd` rests on `net_poll`.
* `NetStack` and `Https` assume only that the clock ticks and `ns_poll` is
  called (in `Https` while the machine runs, and only that its first test, the
  deadline, is reached); nothing of the network or of servers.
* `Desktop`, `FileApps`, the allocators and `Kernels` state safety only.

## 4. Proofs

Checked by TLAPS for every value of the constants that meets the modules'
`ASSUME`s (TLC evaluates them on the runs' values). None uses `RECURSIVE`.

**Page allocator** (`MemoryProofs`; `MemMapAssumption`, `WidthAssumption`: Limine's
usable entries are sorted, the bitmap fits the first one, counts fit their
width). `PmmTypeCorrect`, `FreeCountCorrect`, `HintCorrect`, `OwnershipCorrect`.
The inductive invariant `PmmInv` is the conjunction of all the invariants. None is
inductive alone: the count is exact only because the page given out was free,
which needs the scan to look in the tracked range; out-of-memory is real because
the two passes cover every page; a page freed is not lost because owned pages
keep their bits.

**Heap** (`MemoryProofs`; `HeapAssumption`). `ListCorrect`, `CoalescedCorrect`,
`DoubleFreeCorrect`, `AllFreedCorrect` and the refinement `ImplementsCorrect`.
`IInv` joins tiling, the double linking in address order, coalescing, stale
headers and "blocks in use are the live pointers". `kfree` performs up to two
merges and the list is between well-formed states after the first, so the list
invariants are restated of *any* header function and list (`Struct`), and one
lemma, `AbsorbStruct`, covers each merge; `CoalescedAt(h, x)` is restated of
each block but the one whose neighbour may be free too. `SplitStruct` and `WipeStruct` do
the same for splits and payload writes. `DoubleFreeCorrect` is what makes
`Kfree` of any address safe: it needs that no stale header says "in use". The
refinement follows from tiling and order: payloads of distinct blocks cannot
meet.

**PS/2 mouse** (`InputProofs`). `TypeCorrect` for any packets. `FramingCorrect`,
`MotionCorrect` and `EoiCorrect` under `Small`: every packet has its sync bit and
its deltas fit a signed byte or are flagged as overflowed (section 6 on what
happens otherwise). The invariant counts: bytes of the packet the handler has
taken, plus those still at the controller, are those the mouse has sent; totals
pending, read and told are the motion sent. The interrupt may come between any
two steps of `mouse_get_delta`, so each equation is stated by program counter.

**NIC driver** (`VirtioNetProofs`). `ReentryCorrect`: interrupts stay masked from
the first step of a drain to its last. It needs to know which of the two contexts
masked them and what the flags it saved will restore: inside a drain
`net_send` saves a cleared IF, called by the main loop a set one (`ControlInv`).
`TypeCorrect`: every descriptor, ring index and inbox slot used exists.
`InboxCorrect`, for every queue size and counter width: the reception
descriptors are the disjoint union of those offered, with the device, used and in a
drain's hand, and what waits in them continues the inbox in order (`ReceiveInv`).
`DescCorrect` and `SentCorrect` under `AllAccepted` (the device accepted the
transmission queue it was asked for, section 6): `TransmitInv` adds the pool as a
chain of `free_count` different descriptors, disjoint from those in flight, and the
number each of these carries. That the chain is the whole of `FreeIds` is the one
place with an induction: the smallest index at which two walks differ.

**Input driver** (`InputProofs`). `TypeCorrect`, and `RingCorrect`: the key
ring with its wrapping indexes implements `KeyFifo`. `PointerCorrect`: no motion is
lost or told twice and the buttons are those held; `CaseCorrect`: every key is
handled with shift as it was when pressed, under `LeftShiftOnly` (no right shift
key: its bit 12 does not fit the mask, section 6). Both are about events handled long
after they happened. `HandsInv` has two parts: the buffers a device may write,
those it has written and the one the drain holds are apart (`Kept`), so that an event is
not overwritten before it is handled; and, while no event was lost, a chain of hands
leads from what the driver knows, one unhandled event at a time, to what the hand
does now (`Led`). A device lengthens the chain at one end, `Handle` shortens it at
the other.

**Internet client** (`NetStackProofs`). `TypeCorrect` without a hypothesis. Each
property has the hypothesis under which the code keeps it: `CallbackCorrect`
without `Overlap` (no request made over a running one; the run `netstack_replaced`
is the other case), `OkCorrect` without `EarlyFin` (no bare FIN overtakes data),
`AckCorrect` under `NoWrap` (no sequence number wraps within a request),
`MacCorrect` has none: `Placed` says in which slot each host that answered is. `DeadlineCorrect`,
here and in `HttpsProofs`, is what the end of a request asks of every step: while a
request runs nothing puts its deadline off, a tick brings it nearer, and no poll
lets it go on once it is reached.

**Files** (second part of `DesktopProofs`; `FileAssumption`, in which a file is no longer than an
editor's text, 4096 and 8191 bytes in the code). `TypeCorrect`, `NamesCorrect`,
`RemovalCorrect`, `SaveCorrect` and the refinement `StoreCorrect`: with unique names
the map from names to contents is a function, and each of `fs_find`, `fs_create`
and `fs_delete` changes it at the one name it is about; a stale slot number in a
window is harmless because the name is looked up again.

**Windows and drawing** (`DesktopProofs`; `ScreenAssumption`, `DesktopAssumption`: the
smallest window holds its title bar, buttons and grip, windows fit the work area when they
open, icons do not touch, the menu and the Start button are beside the clock). `ClipCorrect`: `bb_clip` returns
exactly the visible points of a rectangle of any origin, though origin plus size
may wrap. `HoldCorrect`, `AreaCorrect`, `BackbufferCorrect`, `ScreenCorrect` and
`PressCorrect` are for every screen, number of windows and icons, and any
sequence of polls. The state inside a poll passes through a dozen C functions, so the
invariant is about the record they share: each keeps `DeskOK` (windows inside the
work area, an order without repeats, at most one thing held) and `Repaints(d, e)`:
every cell that changed is in the damage, and every cell whose fill in the scene changed was
painted. `Repaints` is transitive, so a poll repaints if its parts do; each part
needs that the rectangles it asks for hold all cells where the scene before and after
differ. `IInv` adds the pages: the one in front is the backbuffer, the other
differs from it only inside the damage of the frame it missed. What is over the fills is
no part of `Repaints`: the code leaves it behind (section 6).
`PressActsOnShown` is proved part by part. In a window (`PartIs`) each part that
`win_render` draws is held against what `win_button_at` and the grip's test answer
there; in the taskbar (`TaskbarShown`) the first slot whose button is hit is the last one drawn,
because no two buttons share a cell (`TaskApart`); in the menu the quotient of the
press is the number of the item drawn there (`QuotientIs`), in the padding some item or none; of icons,
no two areas that `icon_at` hits share a cell (`IconIs`).

**Browser and TLS session** (`HttpsProofs`; `HttpsAssumption`, `TlsAssumption`), for
any windows, requests and servers. `PageCorrect` without `LinkDrops` (no request
is refused for want of a link while another runs; section 6 on what happens
then): a body that has arrived for a request is in the buffer of the
window the request is for, and a request that is over belongs to nobody
(`PageInv`). `FlightCorrect`: what a session has said, its phase and the
connection's `tls_sent` are always at one of three stages (`Stage`); `tls_poll` runs
from two places and each call keeps the stage or goes to the next. `AlignCorrect`
under `RoomForRecords` (a record leaves room in `rx_buf` for a segment more, or all
that follows it has room, which fails only for a server that goes on for longer than
the buffer after a record the client is stuck at; `tls_feed` then drops what does not
fit, and the property does not hold): `rx_buf` is what was received since the end of
some record. The loop over the records is a recursive function,
so that it is defined at all is proved first (`WalkExists`), then that it stops
where a record begins (`WalkStops`); both are inductions over sets of numbers
(`SetInduction`), which need no theorem with an operator parameter.

**Clock, page tables, terminal** (`KernelsProofs`; `ClockAssumption`, `PagingAssumption`,
`RangeAssumption`, `TerminalAssumption`, `CallsAssumption`). `IstCorrect`, for every
date of 2000 to 2099: the registers are read back as what the chip was set to in each
of the three modes handled (`ReadBack`), and the date of the next day has the next
day's number at the end of a month, of February and of a year (`NextDay`). `MapCorrect`, for tables of any
fan-out and any range under the direct map: a huge page met in the range is assumed to be
the bootloader's identity map, as the code's "already covers it" does. A turn adds
tables that map nothing (`Grown`) and one entry; because a page number is its four
indexes (`PathsDiffer`) and at most one entry on a path maps it (`OneMapping`), no
other page moves. `MapInv` says which pages are where after so many turns.
`TerminalCorrect`, for any keys and windows of any size, the rows past the last slot of
the scrollback excepted (section 6): the scrollback holds the last lines of the log
(`Holds`), slots not yet used are blank until a clear or a reopening (`Clean`), and the
command line is what is left and right of the cursor; each key keeps them
(`TermInv`). All three are one invariant, `Inv`.

**Image decoder** (`PngProofs`; `ImageAssumption`: what is written is made of blocks
DEFLATE defines, and a picture's rows have one length). `PngCorrect`: for streams of any
number of blocks of any kind, any codes, any bytes, cut anywhere and into any room, and
for pictures of any size under any filters, a call returns what the encoder meant.
The source is compared with the bits written only as far as it goes (`HasBits`), so
that one argument covers a stream that is whole and one that is cut. Canonical codes are
the first step: fewer bits than a symbol's code has are past every code of that length
(`ShorterPassed`), so `huff_dec` stops at the length of the symbol written and
nowhere before (`Decode`), and the tables of lengths and distances are what the RFC's
definitions compute (`LengthTables`, `DistanceTables`). Then a turn: `CodesStep`,
`LensStep`, `StoredStep` and `RestStep` say that a turn begun where a part begins ends
where it ends, or fails if the part is cut or does not fit. Where the parts of a block
are is `OpsLaid` and `LensLaid`; `BlockGoes` and `StreamGoes` join the turns. The
inductive invariant `PngInv` is that the decoder is at one of those places with the
bytes meant so far, or has ended with the right answer (`StreamState`), and that the rows
restored are the picture's first ones (`RowState`); a match copied byte by byte is
periodic (`CopiedIs`), and what a filter took modulo 256 is put back
(`UnfilterIs`). What a recursive function computes is shown for the least value at
which it would differ (`UpTo`); that it exists at all is shown value by value.

**Only model-checked**: `LinesServiced`, `DrainedInTheEnd`, `InputConsumed`,
`EveryRequestEnds` and `FetchEnds`, which are liveness and out of the prover's reach.
Of the last two, `DeadlineCorrect` proves all but the fairness: that ticks and polls
keep coming.

## 5. Not modelled

| part | why |
|---|---|
| crypto, and what TLS's keys and ciphers compute | numeric algorithms on long integers, served better by test vectors |
| PS/2 keyboard | its ring is only echoed to the serial port |
| boot and main loop | a straight order of calls; the loop is the environment of the models |
| PCI scan, GDT, stubs, log, fonts, wallpaper, panic screen | port I/O, tables and output |
| virtio feature negotiation, driver initialisation | `Init` is the state it leaves |
| page layout, address bar, the shell's answers, what information windows say | text and pixels |

Within the models: the bytes of frames and statistics counters, absolute pointer
axes (only counted), the cursor, scrolling and typing of names in the editors,
the walk over a PNG file's chunks, TLS records larger than `pending_handshake`,
the pixels inside a cell, the labels of icons, what shows of a taskbar button between the
digits of the clock, and browser, notepad and file manager windows among
those drawn.

## 6. Read off the code

Disagreements met while modelling that no run shows; each is one line of code
against a comment or a document, or a boundary the runs keep away from.

* `pmm.c:60`: `bitmap_bytes` is rounded down, so when the page count is one to
  seven above a multiple of 64 the last pages' bits stay as the memory held them, against
  "Start with every tracked page used" (85). The properties of `Pmm` are stated
  for maps the loop covers (`Covered`). The bitmap is also assumed to fit the
  first usable region.
* `kheap.c:47-49`, `123-128`: `align16` and `kcalloc`'s product wrap at the top of
  `size_t`; a request there gets a tiny block. `PayloadCoversRequest` holds below.
* `kheap.c:134-141`: `kfree` trusts `magic` and `free` wherever it looks. A second
  `kfree` of a pointer whose block was merged away is rejected
  (`StaleHeadersRejected`) unless the caller that owns the memory now has written
  the header's `free` and left its `magic`; then it links a block that is none.
  Callers of `KHeap` do not make that one call (`MayFree`).
* `mouse.c:112`: nine-bit deltas are read as `int8_t`; packets of the runs stay
  within a signed byte. `mouse_init` polls the 8042 with IRQ1 unmasked.
* `idt.h:32` says handlers of a shared line are appended; `idt.c` prepends.
* `virtio.c:280`: a device may accept a smaller queue than the pool was linked for;
  ids past it are ignored silently and `net_send` still returns 0. With
  `TxAccepted < TxSize` TLC finds `AcceptedSentOnce` violated.
* `virtio_net.c:183`: the ICMP checksum is computed with the old one in place; an
  echo cut to 256 bytes keeps its IP length.
* `netstack.c:105-106`: a full ARP cache overwrites slot 0. `MacKnown` says who is
  safe from that: the second to the eighth host that answered. The first is not (the
  DNS server, which is asked first), nor is one that first answers a full cache; a query or
  a segment to an evicted host takes its MAC from `NULL` (256, 309).
* `netstack.c:449`: ACKs are compared as integers, wrong across a wrap. `418`: RST
  is ignored in SYN_SENT. `761-796`: the retry counts of DNS and connect are
  cleared on each poll, so their limits are never met and a dead DNS server is
  reported as `NS_ERR_CONN` at the deadline.
* `tls.c:374`, `606`: `tls_decrypt_record` stores the record type through the `cid`
  its caller passes as NULL, and application data is delivered with a capacity of
  0, so no https body ever reaches a browser. ChangeCipherSpec and Finished are
  skipped without waiting for the whole record. The length bytes of the
  ClientKeyExchange stay 0. The hello is built in a 128-byte buffer, which a host
  name of more than 34 characters exceeds; the model's names are shorter.
* `netstack.c:761`, `tls.c`: `NS_DEADLINE` (1500 ticks) is below `TLS_TIMEOUT`
  (2000), so the latter never fires.
* `netstack.c:684-690`, `desktop.c:1414`: with the link down `ns_http_get` returns
  before it clears the old request ("starting a new one aborts the old one",
  netstack.h), and the old body is then shown under the new name. The runs keep
  the link up while a request runs (`LinkDrops = FALSE`).
* `netstack.c:553`: a bare FIN is taken whatever its sequence number: one that
  overtakes data ends the request `NS_OK` with part of the body (`EarlyFin`).
* `netstack.c:773`: `(int)(now - last_send)` is negative for half of every 2^32
  ticks when `last_send` is 0; ARP is then not retried.
* `mouse.c:102`: the resynchronising return sends no EOI, against the comment
  above it: after a lost byte IRQ12 stays in service.
* `virtio_input.c:264`: the right shift key's bit 12 is dropped by the cast to
  `uint8_t`. `327`: an event a device had no buffer for is lost; a lost release
  leaves a key or button held.
* `desktop.c:1884`, `1911`: New and Open ignore that the save before them stored
  nothing (no free slot), and `1864` cuts a text that a file cannot hold, against
  "saved automatically" (README.md:166-167).
* `png.c:301`: the check of a chunk refuses any file with two non-empty IDAT chunks,
  where `png.c:9` says "one or more"; `345`: an Up filter on the first row is
  refused and both buffers are leaked. `PngExact` states the second as it is.
* `png.c:203-216`: the count of a repeat is not tested for missing bits: in a stream
  that ends inside one, -1 makes the repeat one shorter than the shortest, and the bits
  of the count that are there are decoded as further code lengths. `PngExact` leaves such cuts out
  (`CutWell`).
* `rtc.c:65`: in binary 12-hour mode the PM bit is left in the hour; `IstExact` is
  about the other three modes.
* `desktop.c:1149`: the terminal's `clear` leaves old lines to be drawn again, and
  so does a window opened in a used slot; `TerminalExact` says which rows are meant.
* `desktop.c:1258`: a terminal draws as many rows as its window holds, 100 when it is
  maximised at 1920 × 1080, and the scrollback has 80 slots:
  the rows after the 80th are read past `term_lines`. In `TermRender` they have no
  value, and `TerminalExact` is about the rows that have a slot, in windows of every
  size; one of the sizes of `kernels` has more rows than slots.
* `paging.c:59`: out of memory, `paging_map_physical` returns without saying so.
* `desktop.c:918`: `redraw_all_titles` stops one row short, which keeps the old
  focus colour on the last row of a title, against "Repaint every visible title bar"
  (913). `BackbufferShowsScene` excepts the colour of that row.
* `desktop.c:1283`: only the focused terminal draws a caret, and neither `win_raise`, `icon_open`
  nor `win_restore_from_taskbar` repaints the body that loses the focus: its caret stays until
  something else redraws it. At the end of a long line the caret is right of the
  frame (1284), where nothing repaints it.
* `desktop.c:2476-2481`: the lines of an information window are not cut to its frame: in one
  narrowed to 200 pixels they are drawn over what is on its right, and stay
  there when it is moved, minimised or closed (2575). `Desktop` keeps these and the carets
  in the cells (`over`); `BackbufferShowsScene` says nothing of them.
* `desktop.c:680-688`: the margin and the gaps of the title buttons are painted as title and
  act as the button on their left; `2669-2674`: the padding above the items of
  the menu is the first of them, below them it does nothing and leaves the menu open; a frame acts as the title, the
  close button, the grip or the body beside it; a terminal can be sized at a corner
  that shows no grip (2381-2384). `ActsOfPart` and `Acts` say so, and `PressActsOnShown` allows it.
* `desktop.c:2453-2459`: the browser's resize grip is drawn six pixels beyond its frame.
  The clock erases taskbar buttons below it. The notepad's own bar is not repainted on a
  change of focus.
* `framebuffer.c`: when the read-back of the page probe fails its Y offset stays set.
* `crypto.c:44-54`: each of SHA-256's four sigma functions is one rotation where
  the standard combines three.
* Buttons are level-sampled: a click between two reads is lost.
* `desktop.c:1986`: an invalid Save As name closes the prompt, where
  README.md:199 says the editor stays open. `2567`: closing a Notepad saves
  nothing (README.md:172). `2729`: the delete dialog looks its list position up
  again at Yes, so a file another window saved or deleted meanwhile can make it
  delete a different one. Files open by Enter, not by double-click.

## 7. Plan

Order: what holds the system together first. Done: the allocators, interrupts,
virtqueues and both their drivers, the internet client, the files, windows and
drawing, https, the clock, page tables, the terminal and the image decoder, each with
proofs. Every safety property of the runs is proved. What is left, in order of worth:

1. **NetStack × Https**: one module with the handshake over lost and repeated
   segments, instead of the phase boundary between them.
2. **VirtioInput × Desktop**: the level-sampled buttons as the desktop's input.
