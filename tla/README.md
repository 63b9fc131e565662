# gml-vm: a TLA+ model of the kernel's memory and network code

gml-vm is a small 32-bit x86 kernel. It is loaded by a multiboot loader
(`x86/setup.S`), sets up interrupts (`kernel/trap.c`, `kernel/int.S`), its
memory (`kernel/mm.c`, `kernel/malloc.c`) and an NE2000 network card
(`net/ne2k/ne2k.c`), and sends a UDP datagram through its own Ethernet, ARP, IP
and UDP code (`net/*.c`). There is one thread, `cmain`, and one interrupt that
does work, IRQ 3 of the card; the page fault handler runs inside whoever
faulted. Nothing takes a lock; only `neSend` turns interrupts off.

## Inventory

| Part | Source | State | Operations | What makes it correct |
|---|---|---|---|---|
| Kernel heap | `kernel/malloc.c`, `include/vm/malloc.h` | headers (`mlT`) in the heap's pages; the free list `mmList`, sorted by size, doubly linked | `malloc`, `free`; inside them `find`, `add`, `del`, `unite`, `clean` | blocks tile their pages and never overlap; the list has exactly the free blocks; a held block is left alone; `malloc` returns |
| Frames and page tables | `kernel/mm.c`, `page_fault` in `kernel/int.S` | `mmap[]` (a count per frame), `HMEM`, `KMEM`, `cr3`, page directory and tables | `mmap_init`, `mm_init`, `open_pagination`, `get_free_page`, `uget_free_page`, `do_no_page`, `put_page`; `create_mm`, `do_wp_page`, `un_wpte_page`, `un_wp_page`, `free_page` | one owner per frame; only usable RAM is handed out; the identity map stays; a fault maps its own frame; spaces that share tables cannot write each other's pages; a frame in use is never counted free |
| NE2000 driver | `net/ne2k/ne2k.c`, `include/net/ne2k/ne2k.h`, `NCI_int` | `sendQueue`, the handler's locals; the card's registers and ring, the 8259 | `neInit`, `neSend`, `neRecv`, `neISR` | frames go up once and in order; packets go out once; no interrupt is lost; the handler is not re-entered |
| ARP, IP, UDP, Ethernet | `net/arp.c`, `net/ip.c`, `net/udp.c`, `net/ethernet.c` | `arpTable` | `udpSend`, `ipSend`, `ipToMac`, `arpRequest`, `arpReply`, `arpRecv`, `ethSend`, `ethRecv` | datagrams go to the mac the destination claimed; answers in time are found; queries are answered; a send ends; a header's checksum is right |
| Boot and interrupt tables | `x86/setup.S`, `kernel/trap.c`, `kernel/init.c` | IDT, 8259 mask, the interrupt flag; GDT and timer set-up | `cmain`, `trap_init`, `install_int` | a page fault and IRQ 3 reach their handlers |
| Console | `kernel/dg.c` | cursor `x`, `y`; video memory | `write_ch`, `puthex`, `printk`, `clear` | text stays where it was printed until it scrolls out |
| Message queue | `kernel/msg.c` | none: all of it is commented out | | |
| String routines | `c/string.c` | none | `memcpy`, `memset`, `strcpy` | count 0 |
| Older drafts | `net/ARP.c`, `net/802/eth.c`, `net/ne2k/ne2k_dev.c` | not linked by the makefile | | |
| Virtual machine | `vm/vm.c` | a stub | | |
| List library | `include/glib/list.h` | header only | `newList`, `add`, `find` | |

Interactions. `malloc` takes pages from `get_free_page`. The thread calls
`udpSend -> ipSend -> ipToMac -> arpRequest -> ethSend -> neSend`; the
interrupt calls `neISR -> neRecv -> malloc`, then `ethRecv -> arpRecv`, which
allocates, changes `arpTable` and may call `arpReply -> neSend`; after a
transmission it calls `neSend` for the head of `sendQueue`. So the heap, the
frame table, the ARP table, the send queue and the card are shared between the
thread and the interrupt. The page fault handler sits behind a trap gate: it
runs with interrupts on and uses the frame table.

The hard behaviours are `clean`, which edits the list it is walking; the
interrupt between any two instructions of the thread; the card, which receives
and transmits while its registers are being programmed; the edge-triggered
interrupt; and `ipToMac`'s fixed delay for an answer that only the interrupt
can store. `PROJECT.json` lists them as hazards at their lines.

## Modules

**Heap** is what `malloc.c` promises, without its list. `size[p]` maps the
offset of every header in page `p` to the payload size, `busy[p]` has the
offsets of held blocks. `Grow`, `Alloc`, `Release` and `Coalesce` are the page
from `get_free_page`, a block handed out (`Carved` splits it), `free` with the
one `unite` it tries (`Joinable`, `Joined`), and one merge of `clean`.

**Malloc** is the code at the level of its pointers. `hdr` maps the address of
a header to its four fields, `mmList` is the head of the list, `mmap` the frames
taken. `find`, `add`, `del` and `unite` are operators on a header map with the
names of the C functions; `HandOut` is the tail of `malloc`. A `malloc` that
finds a block is one action (`MallocHit`); one that does not starts `clean`,
which is cut into the steps of its loop (`CleanTake`, `CleanUnite`, `CleanPut`,
`CleanDone`), so that each intermediate list is a state, and then takes pages
(`GrowPage`). Swallowed headers stay readable (`absorbed`), because `clean` may
still follow a pointer into one. `get_free_page` without a free frame spins
(`GetFreePageSpins`). `Abstract == INSTANCE Heap` maps the headers to blocks by
page and offset.

**HeapRace** extends Malloc with a second caller. The thread's `malloc` and `free` are
cut at every point where a local pointer lives across an interrupt: at each node
that `find` stands on (`CallMalloc`, `Refind`, `FindNext`, `FindHit`, `FindMiss`,
`RefindMiss`) and that `add` stands on (`AddCall`, `AddNext`, `AddLink`), around `del`
and the store of `state = BUSY` (`Take`, `Return`), around `get_free_page` (`GetPage`), and
in `free` around `unite`, the store of `state = FREE` and `add` (`FreeCall`, `FreeUnite`,
`FreeMark`, `FreeAdd`); `clean` is cut as in Malloc. An interrupt amid the stores of one
step (the links `del` or `AddLink` write, the header of a split, the size `unite`
adds) belongs to the point where that step starts. `Interrupt` saves the thread's
locals, the handler then makes any number of the calls of Malloc (`neRecv`, `arpRecv`,
`arpReply` and `ethSend` allocate, `del` of the send queue frees), `Iret` goes back.
`HalfDone` names nine points: inside `find`, before and after `clean`, `add`, `del`,
`unite`, `clean` itself, and with a block in hand whose header still says FREE. An
interrupt there is recorded in `torn` and not followed. Each of the nine is really
harmful: with any one of them taken out of `HalfDone`, TLC finds a damaged list, a block
handed out twice or a stale pointer. The race inside `get_free_page` is Paging's.

**Ne2k** has the driver, one action per access to the card or the queue that
another actor could see, and the card and the 8259 as environment (marked
external in the map). `send` is the running `neSend`, whoever called it; `pcI`
is where `neISR` is. `IsrReply` is the `neSend` that `arpReply` makes inside the
handler. The status register has the four bits that `imr = 0x1b` lets through.
The request `irr` is latched when the line rises: `setup.S` programs ICW1 as
0x11, edge triggered, although the comment above it (`setup.S:68`) speaks of
level triggering. A frame takes one or two ring pages. A header can be damaged
(`MaxBad`), which takes `neRecv` through its two-step reset. `neRecv`'s branch for an
empty ring has no action: `FrameIsThere` shows that it is not reached. After a
reset `ethRecv` is called with NULL; it finds no ARP frame in the interrupt vectors
at the bottom of memory and does nothing. Two history variables say what an
interrupt did not stand for: `behind` counts the frames stored since the last reset that
raised no PRX of their own, because one was pending or being handled (`Claimed`);
`hidden` has the kinds of completion after which `neISR` did not go on with the queue, a
PTX under a receive interrupt or a transmit error. `IsrExit` is the last `sti` together with the
`iret`: only the pops and the `iret` stand between them, which touch nothing that
is shared.

**Paging** starts with `cmain`: `trap_init` fills the interrupt table (`idt`, for one
vector of each kind that can be raised), then one of the two boot paths
(`mmap_init`, `mm_init`, both of which install the page fault behind a trap gate) or
the return of `-1`. It covers `open_pagination`,
`get_free_page` and `uget_free_page`, and the not-present fault. Addresses are
in frames. Test and set of `mmap[i]` are separate steps (`Pick`, `TakeFrame`)
and `IsrGrow` is the interrupt's allocation, possible once `Sti` has come and,
inside a page fault, because that gate leaves interrupts on. A fault that did not find
`page_fault` in its vector would fault again for ever; `Served` excludes it. No frame is
cleared before it becomes a page table: its entries are then any member of `Leftover`, but
for those `open_pagination` or `put_page` write. `Available` is what is really RAM; the
model computes `mmap[]` from the memory map without the entries' bases, and `HMEM` from kilobytes, as
the code does. `uses` and `raced` are history: what each frame was handed out for, and whether
an interrupt has come between a test and its set (two owners of a frame then spoil its
contents, which the model does not follow). `put_page`'s early return for a free frame
is not reached: `do_no_page` passes it a frame it has just taken.

**Cow** is the rest of `mm.c`: `create_mm` makes an address space that shares the
page tables of the current one read-only, `do_wp_page` is what a write to such a
page runs. Nothing calls `create_mm` yet; `Switch` (external) is the caller that will load
`cr3`. A space is named by the frame of its directory, `dir` and `tab` hold an
address and a write bit per entry. The model keeps what the code does: `memcpy` of
1024 bytes copies the first quarter of the directory (`Q`); `un_wpte_page` copies
from an address with the flag bits still in it, so that no entry of the new table
is present and `un_wp_page` takes bytes of two old entries for a page (`g`); for a
page nobody shares, both return a variable they never assigned, which sets `wild`
and ends the behaviour. `With` sets what a directory or a table frame holds.

The machines are those of `kernel.h`: `KMEM` is all of memory, or 1GB (`Q` slots) where there
is more. Slot `KMEM>>22` (`KD`) then has the identity table `KT`, which `open_pagination` filled
up to `KMEM` (`KernelEntry`) and which user pages share; `create_mm` protects and counts all of
it, the kernel's entries too, and with `KMEM` at 1GB it is the first slot that `memcpy` leaves
out. A write of the kernel to a directory or table is a write through this
identity map: where it would fault on a protected page (`KernelWrites`) the action
is preceded by that page's own `do_wp_page`. New tables and directories are not
cleared: the parameter `zero` says whether they read as empty all the same.
`wild` becomes true when a directory or table comes to hold what nobody put there (leftovers, an
unassigned value, a frame that is `InUse` already); behaviours are followed while `wild` is
false and the identity map is whole (`IdentityKept`), since without it the kernel does not
reach its own tables. How they are lost is the subject of `cow_copy` and of the disagreements below.

**Console** is `dg.c` by cells: `write_ch` on the cursor and video memory, with the
row below the screen as part of it, `printk` cut between its characters (`todo` is
what it has still to print; `Convert` puts the hexadecimal digits in the place of an
`\e`, `Write` is one `write_ch`), and `clear`. `log` is the text itself, as history.

**IpHeader** is the header `ipSend` builds, as the ten words a little-endian
processor sums, and `checkSum`. `ipSend` calls `memset(header, 20, 0)`, value and
length exchanged: the compiler folds a `memset` of length 0 away (the prototype
agrees with the built-in up to the type of the length), so the fields that are
not assigned hold what was in the memory (`Garbage`); the loop of `c/string.c`, taken
literally, would not stop at 0.

**NetStack** follows a datagram from `udpSend` to `ethSend`, with `ethRecv` as
the interrupt between any two of the thread's steps. Addresses, the ARP `op` and
`protocolType` are tuples of bytes, because the code mixes byte orders; `longSwap`
and `shortSwap` are the macros of `in.h`. A lookup that ends with a NULL node
gives the address `"wild"`. A frame carries its header from IpHeader; the UDP header
and the data are left out.

**HeapProofs**, **MallocProofs**, **Ne2kProofs**, **PagingProofs**, **CowProofs**,
**ConsoleProofs** and **NetStackProofs** have the proofs about the modules they are
named after, MallocProofs those about HeapRace too; **Counting** has the facts about sequences, counting and division they
share. The **MC** modules give the constants
that a configuration file cannot write.

Operators named `X_Something` that stand before a definition `X` under the
comment "Seeded fault" are variants of `X` with a plausible mistake; no
specification uses them. Putting one in the place of `X` shows that a property
notices it (`PROJECT.json`, `mutants`).

## Runs

| Run | Bounds | Shows |
|---|---|---|
| `heap` | 2 pages of 80 bytes, requests 1, 6, 44 | `Tiled`, `Disjoint`; `HeldBlockFixed`: no operation touches a held block |
| `malloc` | 2 frames of 80 bytes, requests 1, 26 | `FreeListExact` in every intermediate state of `clean`; `HeldIntact`; `GrowOnlyWhenFull`: a page is taken only if no merge would have helped; `MallocReturns`; `ImplementsHeap` |
| `heap_race` | 2 frames of 60 bytes, requests 1, 6 | `HarmOnlyHalfDone`: the handler's `malloc` and `free` do no harm except at the nine points of `HalfDone`; between calls, after `clean`, around `get_free_page` and after `free`'s `unite` they are harmless |
| `ne2k` | ring of 4 pages, 3 packets, 3 frames, 1 damaged header | `ReceivedInOrder`, `FrameIsThere`, `NoLostEdge`, `DeviceServed`, `NoReentry`; `LoadedOnce`: every packet is copied into the transmit buffer once or is queued once; `RxBacklogExact`: with no receive interrupt on its way, as many frames wait in the ring as raised none of their own; `TxWaitsOnlyIfHidden`: a queue stands still with the card idle only after a completion that fell behind another event |
| `ne2k_busy_queues` | 2 packets, 1 frame | violated: the transmit buffer is rewritten while the card sends |
| `paging` | 16 frames, 8 entries per table, both boot paths, 6 heap pages, 4 user pages, clean and dirty page tables | `SharedOnlyByRace`, `IdentityKept`; `FaultsMapTheirFrame`: a page stays where it was faulted in; `Served`: the boot, a fault and a heap request end, or every kernel frame of RAM is really handed out (`AllTaken`), or `mm_init` left none (`NoKernelFrames`) |
| `paging_race` | the same, memory map | violated: one frame is handed out twice |
| `cow` | 17 frames, `KMEM` inside a table; tables of 5 entries, 6 slots of which the first 5 are copied; up to 5 spaces, counts modulo 5, 6 pages | while the counts suffice, `Isolated`: no space can write a user page another one sees; `ReachedIsCounted`: a frame some space reaches is never free |
| `cow_copy` | the same, 3 pages | violated: a write to a shared page takes the other pages of its table from the writer |
| `console` | 3 rows, 3 columns, strings that wrap, scroll and convert | `TextKept`, `StaleOnlyInFirstColumn`: an empty line at the bottom can show an old character, in its first column only |
| `netstack` | 2 peers, 3 datagrams, 3 frames received | `TableBeforeInterrupts`, `AnswerIsFound`, `QueryFirst`, `SendEnds`; `NotToAnotherHost`: a datagram goes to a mac its destination claimed at some time, or to the wild address of a failed lookup; `HeaderSumsUp`: a receiver accepts the header exactly if the memory it was built in held 0 or all ones in the check field |
| `netstack_null` | 1 datagram | violated: `ipToMac` reads through NULL |

Why the bounds are enough. A page of 80 bytes holds four blocks of 4 bytes, so
there are runs of three free neighbours in any list order, a sweep that
swallows its own predecessor, and (requests of 26 bytes) a block too small to
split; two frames give a first header at the end of another page. Three frames
of one or two pages go round a ring of four pages in every alignment; three
packets make a queue of two, so that the handler's `neSend` can queue its packet
behind another. The paging instance has a `KMEM` inside a table, pages that share
that table and pages that need one of their own, and few enough frames that they
run out. Two peers suffice for an answer to be mistaken for another's, and three
frames for a known sender to come back with another mac; one peer's address and
one memory content make the header's sum carry twice. In `heap_race` a page of 60
bytes holds up to three blocks, so that the handler's `clean` can swallow the block the
thread has found, and the handler can take the last free one. In `cow` five
spaces reach the limit of the code's own counts: `CountsSuffice` is "fewer spaces than a
count has values", 255 of them for the `unsigned char`. It is exact: counts are modulo 5, and with a fifth
space admitted by `CountsSuffice`, TLC finds `ReachedIsCounted` violated. 17 frames let a
table be shared by all, left by one and still be shared, until frames run out. The machine with
`KMEM` at 1GB is left to the theorems, which cover both kinds: there slot `KMEM>>22` is not copied, so
spaces share nothing (`NF = 17`, `K0 = 4`, `KF = 15`, `D = 5`, `Q = 3` is a small one).
A screen of three rows scrolls with text, with line ends and with a full
last line.

Runs without a deadlock check are those whose bounded inputs can be used up
with everything at rest, where `cmain` stays in its final `while(1)`.

What the violations mean. Each states a sentence of the repository and is listed
under `findings` with that sentence. `ne2k_busy_queues` and `paging_race` need an
interleaving, `netstack_null` a peer that is slow or silent. `cow_copy` needs one `create_mm`
and one write: the first write through a shared table loses the rest of the table, so what
`Isolated` shows is that spaces are kept apart, and not that a page is copied on write.
`NoReentry` answers the open entry of `bugList` (`BUG_NO_RE_INT`): the 8259's
in-service bit already keeps the handler's body from being re-entered until its
EOI.

More disagreements follow from single lines and have no run; the models do what the code does.

- `mmap_init` numbers the frames of every entry of the memory map from 0, without its base
  (`mm.c:192` against "initialise the table of available memory", `mm.c:183`). With the usual map of
  a PC this does no harm above 4MB; with a hole there (the ISA hole at 15MB) a later, longer
  entry marks the hole as free and `get_free_page` hands it out.
- `mm_init` takes kilobytes for bytes (`mm.c:216` against `vm/kernel.h:8`): without a memory map
  `KMEM` falls below the 4MB where `get_free_page` starts, and every such boot hangs before its
  first frame. `Served` names this case (`NoKernelFrames`).
- Neither `open_pagination` nor `put_page` clears the frame of a page table (`mm.c:74`, `mm.c:103`):
  on a machine whose memory is not zero at boot, what was left maps pages above `KMEM`, which
  "belong to the virtual machines" (`mm.c:5`), to any frame, the kernel's too. What holds all
  the same is `FaultsMapTheirFrame`.
- `create_mm` starts at slot `KMEM>>22`, whose table has the end of the identity map, so a write through it
  makes `do_wp_page` put a table without the kernel's entries there, against "the part of
  physical memory below 1GB is mapped to itself" (`mm.c:6`). Cow stops following a behaviour where
  this happens (`IdentityKept`).
- `arpRecv` does not update a known entry (`arp.c:83` against the comment at `arp.c:75`): the mac is
  stored through a NULL item, and datagrams go on to the old one, which `NotToAnotherHost` allows.
- `arpRecv` compares this host's address in host order with the frame's in network order, and
  `protocolType` with an opcode (`Replies`, `arp.c:87` against "if it is an ARP query and the address is this
  host's, reply", `arp.c:86`): a query for this host gets no reply.
- `neRecv` stores `next-1` in BNRY, which is the page before the ring when the next frame starts at
  its first page, where `doc/ne2kReg:57` has BNRY point at the last page read; `ReceivedInOrder` holds
  with it.
- `un_wpte_page`, which is to "return the new page" (`mm.c:135`), returns an unassigned variable when
  the table is not shared (`do_wp_page_last`).

## Fairness

The processor executes the code it has begun, and takes a requested interrupt
when interrupts are on: `WF` of the handler, of a running `neSend` and of the
interrupt in Ne2k, of the code's steps in Paging and of a running send in NetStack
(the delay loop of `ipToMac` is finite). In Malloc the same condition is written
out as `Running`, because no other action is enabled while a `malloc` runs.
Nothing is assumed of the card, of the network or of callers: frames may never
come and transmissions may never end.

## Proofs

Each theorem below is proved for every value of its module's constants that the
module's assumption allows, where a run has one instance. TLC evaluates every
assumption on its run. But for those of Malloc and HeapRace and for `Walked` of Ne2k, which quantify over functions, the
invariants named here were checked by TLC on the runs' instances.

**Heap** (`HeapProofs`). `HeapSafe`: `Spec => []HeapInv`, which is type correctness
with `Tiled`, `Disjoint` and `Aligned`; `HeapTypes`, `BlocksDisjoint` and `PagesTiled`
are its conjuncts; `HeldBlocksFixed` is the action property `HeldBlockFixed`.
`Disjoint` is not inductive alone: merging needs to know that the end of a block is
the header of another block (`Tiled`), and that one needs blocks not to overlap;
splitting needs `Aligned` to leave room for the tail. The argument is local to a
page: `PageInv` says the same of one page (`PageForm` shows the equivalence),
`CarvedPage` and `JoinedPage` show that splitting and merging one page preserve it,
and one lemma per action lifts this to the heap. Assumed: a page size that is a multiple of 4 and
larger than a header, requests that fit in a page.

**Malloc** (`MallocProofs`). `MallocImplementsHeap` is the refinement:
`Spec => ImplementsHeap`, with `MallocHit` and `GrowHit` as `Alloc`, `GrowPage` as
`Grow`, `CleanUnite` as `Coalesce`, `Free` as `Release` and the other steps
invisible; so what is proved of Heap holds of the code's own list and headers.
`ListIsExact`, `HeldStayIntact`, `MallocTypes` and the action property
`GrowsOnlyWhenFull` speak of the pointers themselves. All five rest on one inductive
invariant, `Inv` = `Mem` and `Steps`:

- The list behind `mmlist` is a `Chain`: a function from positions to distinct headers,
  sorted by size, whose `next` and `root` links agree with the order. `NodesWalk` shows
  that following the `next` pointers visits exactly these (by the least position
  that would differ), and that the walk is no longer than memory has headers;
  `Found`, `Added` and `Deleted` then show what `find`, `add` (with all the links its
  recursion rewrites) and `del` do to a `Chain`.
- `Geo` says that blocks tile their frames; `GeoSplit`, `GeoJoin` and `GeoPage` show
  that cutting, merging and a fresh page keep it. `Holds` relates the BUSY blocks to
  what callers hold.
- `Steps` has the sweep of `clean`. Blocks before its place in the list have nothing left to merge
  (`Swept`); so at the end no two free neighbours are left, which `GrowsOnlyWhenFull`
  needs. The place survives although `add` moves `mm` to another position
  (before or behind it), and although `nextm`, from which the sweep goes on, may be a
  header `mm` has just swallowed: it was swept, so `mm` ends where it ended and has
  nothing left to merge, and the `next` of the dead header still leads to the place.

Assumed: a page size that is a multiple of 4 and larger than a header, requests that
fit in a page. The invariant quantifies over lists, so TLC checks what follows from it
(the properties above) and not the invariant itself.

**HeapRace** (`MallocProofs`). `OnlyHalfDoneHarms`: `RaceSpec => []HarmOnlyHalfDone`, so
the points at which an interrupt may not come are those of `HalfDone` on every machine, not
only on the two frames of the run. The inductive invariant `RaceInv`: an interrupt has torn the heap, or
there is a set of frames `fr` within `mmap`, those the list knows of, which the blocks of
the list tile (`Mem`), and

- outside the handler the thread is at a step of Malloc (`Steps`) or between two of its own
  (`Halfway`): at a node of the list in `find` or `add`, with a fitting block found, a block taken
  off the list (`Loose`), a marked page that is not in `fr`, or a held block that `unite` is about
  to grow, has just grown, or has marked FREE;
- in the handler the heap is at a step of Malloc, and the context it interrupted `Waits` at
  a point that asks nothing of the list: between calls, before `find` is tried again, with
  its page still outside `fr`, or with its block still BUSY.

`fr` is what makes it inductive: the handler's own `get_free_page` adds frames to
`mmap` while the thread's page is neither a block nor free, and both must come
to lie on the list once. Each handler step is the Malloc step's lemma at this `fr`, with
the addition that it neither takes the waiting page nor frees the waiting block
(`Free` of any other block leaves it BUSY). The proof does not use
that `RaceNext` follows the heap only while it is `Sound`.

**Ne2k** (`Ne2kProofs`). `PacketsAreLoadedOnce`, `EdgesAreLatched`,
`QueueGoesOn` and the action property `HandlerIsNotReentered` rest on `PktInv` and
`TxInv`: `Ctl` fixes, for every point of `neISR` and `neSend`, the interrupt flag, the
in-service bit and the mask register; `Packets` says where the packet in hand is;
`Once` counts each packet in the transmit buffer's history, the queue and the hand,
the queue's head counted out while the handler is sending it; `GoesOn` says that an
idle card with a queue has an interrupt on its way. `NeverReadsAnEmptyRing`,
`FramesArriveInOrder`, `BacklogIsExact` and `Ne2kTypes` rest on `RingInv`: the
distance of a page from the oldest frame, going round the ring, orders the frames;
every stored frame starts where the previous one ends, and the registers never
meet except where the reset takes them. That the frames from BNRY to CURR are the
ones not yet passed up is an induction along the ring, done with the least page that
would break it (`LeastNumber`). `Backlog` is the balance behind `BacklogIsExact`: at every point of the handler
the frames stored are those passed up, those in `behind`, and one that a PRX or the running `neRecv` still
stands for (`Due`). Assumed: a ring of at least three pages.

**Paging** (`PagingProofs`). `PagingTypes`, `KernelStaysMapped` and `FaultsAreMapped`
rest on `PagInv`: `Types`; `Fresh`, nothing is mapped or handed out before
`open_pagination`; `Doing`, what is known while `get_free_page` runs for somebody;
`Tables`, a table's frame is taken and belongs to one slot; `Ident`, a slot of the
kernel's part is absent or maps each page to itself; `Users`, what a fault has mapped.
`OwnersOnlyRace` adds `Single`, one owner per frame while `raced` is false. New page tables hold any
member of `Leftover`, so `Users` cannot say that other entries are empty, only that an entry once
written is not written again: a page faults only while it is not mapped. Assumed: the kernel's part fits in memory and in
the directory, pages that are touched are in the directory, entries of the memory map are
no longer than memory.

**Cow** (`CowProofs`). `CowTypes`, `SpacesAreIsolated` and `ReachedStaysCounted` rest on `CowInv` = `Shape`
and, while `CountsSuffice`, `Held`, `Bound`, `Roles` and `Owned`. These speak of every directory and
table there ever was, also of tables no space reaches any more. `Held`: no count of a frame in use goes back
to 0, so a frame is handed out once. `Bound`: no count exceeds the number of spaces, with one exception
that comes from `create_mm` counting the kernel's own entries: a frame of the last identity table that is also
a table or a user page gets two from one `create_mm`. These frames are the last kernel frames to be
taken, and `create_mm` itself leaves none of them free, so there is no frame for a second one. `Roles`: identity entries stay in
their table, a page stands in one table only, once. `Owned`: a writable directory entry is the only one
for its table. Assumed: `KMEM` is all of memory or 1GB, the directory has more slots than
`create_mm` copies, a count has at least four values.

**Console** (`ConsoleProofs`). `ConsoleTypes`, `TextIsKept` and `StaleColumn`, for every size of the screen and every
text, rest on `ConInv`: the cursor is in the row below the screen only in column 0;
the log's last row is as long as the cursor's column; and `Good`: the rows of the log show at
their places, with blanks behind them and below, the first column excepted. A
`write_ch` is taken apart into a store (`Stored`), a scroll (`ScrolledUp`) that
happens exactly when the cursor started below the screen (`CursorMoves`), and a step
to the next row (`NextRow`); so the row that is brought in uncleared has at most its first cell written.

**NetStack** (`NetStackProofs`). `TableIsUp`, `NoDatagramToAnotherHost`,
`AnswersAreFound`, `QueriesComeFirst`, `HeadersSumUp` and `NetStackTypes` rest on
`NetInv`: what the thread carries from `ipToMac` to `ethSend`, what `arpTable` holds,
and the form of the frames sent. `HeadersSumUp` needs the arithmetic of `checkSum`
(`Carries`): two foldings bring every sum of ten words below 2^16, and the header's
sum is then a multiple of 0xffff less the old check field. Assumed: addresses are four bytes, memory
contents fit their fields.

Where a proof needs induction over data (positions in a sequence, pages of a ring),
it takes the least counterexample (`LeastNumber` in Counting), since the
library's induction schemes cannot be instantiated.

Only model-checked:

- the liveness properties `MallocReturns`, `DeviceServed`, `Served` and `SendEnds`:
  liveness under fairness is out of the proof system's reach;
- the violations, which are single counterexamples.

## Not modelled

- `free_page`: nothing calls it, so frames are never recycled.
- What a torn heap does later (HeapRace), and what the kernel does once a directory or table holds what
  nobody put there (Cow).
- The driver's and the protocols' use of memory: received and sent messages and
  their headers are never freed (`ne2k.c:232`). Nothing in the code says who
  should free a message, so there is no property to state; the consequence, a heap
  that spins in `get_free_page`, is in Malloc and Paging.
- The order of packets on the wire: a packet sent while the card is idle passes
  those in the queue (`ne2k.c:190`); UDP promises no order.
- Bytes: the UDP header, MAC addresses, data, copies.
- `setup.S` beyond the 8259's edge triggering: straight-line code that nothing reads
  back. The timer: `trap.c:57` says it ticks every 10 ms; LATCH is 1193180, which
  does not fit the 16-bit counter, and no timer interrupt is installed.
- `memcpy`, `memset` and `strcpy` (`c/string.c`): inline assembly copies, atomic here.
- The parts listed above as commented out (`msg.c`), not linked (`ARP.c`, `802/eth.c`,
  `ne2k_dev.c`), stubs (`vm.c`) or declarations (`multiboot.h`, `section.h`).

Every part of the kernel that is linked and keeps state has a module now.

## Plan

What the runs check of safety is proved. Left, should the code grow: properties for the
hazards that have none (the endless scan of `get_free_page`, the order of packets, the ownership
of messages), once the code says what it promises there; and, when one of the
disagreements above is mended in the code, the property its comment asks for, as an invariant.
