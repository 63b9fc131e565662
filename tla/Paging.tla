------------------------------- MODULE Paging -------------------------------
(***************************************************************************)
(* Boot (cmain, trap_init in kernel/trap.c), physical frames and the page  *)
(* tables of kernel/mm.c: the interrupt gates, the frame counts            *)
(* mmap[], set up from what the boot loader reports (mmap_init, mm_init),  *)
(* get_free_page and uget_free_page, the identity map open_pagination      *)
(* builds, and the not-present page fault (page_fault in kernel/int.S,     *)
(* do_no_page, put_page).                                                  *)
(*                                                                         *)
(* Addresses are in frames: a virtual page v has directory entry v \div E  *)
(* and table entry v % E.  The fault handler sits behind a trap gate and   *)
(* malloc runs with interrupts on (from the first neSend), so the network  *)
(* interrupt, whose handler allocates too, can come between the test and   *)
(* the set in get_free_page.                                               *)
(* No frame is ever recycled (nothing calls free_page), and none is        *)
(* cleared: a frame that becomes a page table holds what was in memory     *)
(* (Leftover).  What two owners of one frame, or a write through a stale   *)
(* table entry, do to its contents is not followed.  The copy-on-write     *)
(* half of mm.c is in Cow.                                                 *)
(***************************************************************************)
EXTENDS Integers, Sequences, FiniteSets, FiniteSetsExt

CONSTANTS
    NF,         \* frames mmap[] covers (0x100000)
    K0,         \* first frame get_free_page hands out (KERNEL_SPACE>>12)
    KMAX,       \* KER_MM_SIZE>>12
    E,          \* entries of a page table (1024)
    D,          \* entries of the page directory (1024)
    MemMap,     \* the multiboot memory map: sequence of [type, base, len]
    Upper,      \* mem_upper in KB, used when there is no memory map
    Loader,     \* what boot loaders report: "map" (flags & 0x40), "mem" (flags & 1), "none"
    Available,  \* the frames that are usable RAM
    Leftover,   \* what a frame holds, read as a page table, when it becomes one
    Touched,    \* virtual pages the kernel or a virtual machine touches
    MaxHeap     \* bound: pages the heap asks for

None == -1
Frame == 0 .. NF - 1

ASSUME PagingAssumption ==
    /\ {NF, K0, KMAX, E, D, Upper, MaxHeap} \subseteq Nat
    /\ E > 0 /\ K0 < KMAX /\ KMAX <= NF /\ KMAX <= D * E
    /\ MemMap \in Seq([type : Nat, base : Nat, len : 0 .. NF])
    /\ Upper \div 4096 < NF
    /\ Loader \subseteq {"map", "mem", "none"}
    /\ Leftover # {} /\ Leftover \subseteq [0 .. E - 1 -> Frame \cup {None}]
    /\ Touched \subseteq 0 .. D * E - 1

VARIABLES
    idt,        \* vector -> the handler and the gate installed
    intOn,      \* IRQ 3 unmasked and IF set
    mmap,       \* frame -> count (0: free, 100: not usable)
    HMEM, KMEM, \* end of memory and of the identity map, in frames
    cr3,        \* frame of the page directory
    pde,        \* directory entry -> frame of the page table, or None
    pte,        \* frame of a page table -> its entries (frame or None)
    pc,         \* boot: "cmain", "boot", "dir", "table"; then "idle", "pick", "set"
    want,       \* what the frame being taken is for
    pick,       \* the free frame get_free_page has found
    va, pd,     \* do_no_page: faulting page, frame for it
    uses,       \* history: frame -> what it was handed out for
    raced       \* history: an interrupt allocated between a test and its set

space == <<HMEM, KMEM, cr3>>
gates == <<idt, intOn>>
vars  == <<gates, space, mmap, pde, pte, pc, want, pick, va, pd, uses, raced>>

\* Vectors that can be raised here: an exception, the page fault, a stray
\* interrupt, the network card's IRQ 3.
PF   == 14
NIC  == 35
Vectors == {0, PF, 32, NIC}

Init ==
    /\ idt = [v \in Vectors |-> [func |-> "none", gate |-> "none"]]
    /\ intOn = FALSE
    /\ mmap = [f \in Frame |-> 0]
    /\ HMEM = 0
    /\ KMEM = KMAX
    /\ cr3 = None
    /\ pde = [i \in 0 .. D - 1 |-> None]
    /\ pte = [f \in {} |-> None]
    /\ pc = "cmain"
    /\ want = "none"
    /\ pick = None /\ va = None /\ pd = None
    /\ uses = [f \in Frame |-> {}]
    /\ raced = FALSE

-----------------------------------------------------------------------------
install_int(table, v, func, gate) == [table EXCEPT ![v] = [func |-> func, gate |-> gate]]

\* trap_init: null_int everywhere, then the exceptions but 14, and IRQ 3.
trap_init ==
    /\ pc = "cmain"
    /\ idt' = [v \in Vectors |->
                 [func |-> CASE v \in (0 .. 19) \ {PF} -> "print_error"
                             [] v = NIC              -> "NCI_int"
                             [] OTHER                -> "null_int",
                  gate |-> "int"]]
    /\ pc' = "boot"
    /\ UNCHANGED <<intOn, space, mmap, pde, pte, want, pick, va, pd, uses, raced>>

\* cmain returns -1 when the loader reports no memory.
NoMemory ==
    /\ pc = "boot" /\ "none" \in Loader
    /\ pc' = "returned"
    /\ UNCHANGED <<gates, space, mmap, pde, pte, want, pick, va, pd, uses, raced>>

(***************************************************************************)
(* mmap_init: every entry of the memory map marks frames 0 .. len - 1 (its *)
(* base is used for HMEM only, a 32-bit sum), the last entry that reaches  *)
(* a frame wins.                                                           *)
(***************************************************************************)
Reaching(f) == {i \in DOMAIN MemMap : f < MemMap[i].len}

Usable == {i \in DOMAIN MemMap : MemMap[i].type = 1}

mmap_init ==
    /\ pc = "boot" /\ "map" \in Loader
    /\ mmap' = [f \in Frame |->
                  IF Reaching(f) # {} /\ Max(Reaching(f)) \in Usable THEN 0 ELSE 100]
    /\ HMEM' = IF Usable = {} THEN HMEM
               ELSE (MemMap[Max(Usable)].base + MemMap[Max(Usable)].len) % NF
    /\ KMEM' = Min({HMEM', KMEM})
    /\ idt' = install_int(idt, PF, "page_fault", "trap")
    /\ pc' = "dir"
    /\ UNCHANGED <<intOn, cr3, pde, pte, want, pick, va, pd, uses, raced>>

(***************************************************************************)
(* mm_init: upper is in KB.  The frames from 0x10 (here 1, below K0 like   *)
(* it) up to upper>>2 are free; HMEM is set to upper as if it were bytes.  *)
(***************************************************************************)
mm_init ==
    /\ pc = "boot" /\ "mem" \in Loader
    /\ mmap' = [f \in Frame |-> IF f > 0 /\ f < Upper \div 4 THEN 0 ELSE 100]
    /\ HMEM' = Upper \div 4096
    /\ KMEM' = Min({HMEM', KMEM})
    /\ idt' = install_int(idt, PF, "page_fault", "trap")
    /\ pc' = "dir"
    /\ UNCHANGED <<intOn, cr3, pde, pte, want, pick, va, pd, uses, raced>>

KernelZone == {f \in Frame : K0 <= f /\ f < KMEM /\ mmap[f] = 0}
UserZone   == {f \in Frame : KMEM <= f /\ f < HMEM /\ mmap[f] = 0}

\* open_pagination: the directory ...
OpenDir ==
    /\ pc = "dir"
    /\ KernelZone # {}
    /\ LET f == Min(KernelZone) IN
          /\ mmap' = [mmap EXCEPT ![f] = 1]
          /\ uses' = [uses EXCEPT ![f] = @ \cup {<<"dir", 0>>}]
          /\ cr3' = f
    /\ pc' = "table"
    /\ UNCHANGED <<gates, HMEM, KMEM, pde, pte, want, pick, va, pd, raced>>

\* Seeded fault: open_pagination's loop stops one slot early (i < KMEM>>22).
ToOpen_Short == {i \in 0 .. D - 1 : i < KMEM \div E /\ pde[i] = None}

\* The entries of directory slot 0 .. KMEM>>22 that are still missing.
ToOpen == {i \in 0 .. D - 1 : i <= KMEM \div E /\ pde[i] = None}

\* ... and a page table for every slot up to KMEM>>22, identity mapped below
\* KMEM and left as it was from there on.
OpenTable ==
    /\ pc = "table"
    /\ ToOpen # {} /\ KernelZone # {}
    /\ \E old \in Leftover :
       LET f == Min(KernelZone)
           i == Min(ToOpen)
       IN  /\ mmap' = [mmap EXCEPT ![f] = 1]
           /\ uses' = [uses EXCEPT ![f] = @ \cup {<<"table", i>>}]
           /\ pde' = [pde EXCEPT ![i] = f]
           /\ pte' = [t \in DOMAIN pte \cup {f} |->
                        IF t = f
                        THEN [j \in 0 .. E - 1 |-> IF i * E + j < KMEM THEN i * E + j ELSE old[j]]
                        ELSE pte[t]]
    /\ UNCHANGED <<gates, space, pc, want, pick, va, pd, raced>>

OpenDone ==
    /\ pc = "table"
    /\ ToOpen = {}
    /\ pc' = "idle"
    /\ UNCHANGED <<gates, space, mmap, pde, pte, want, pick, va, pd, uses, raced>>

-----------------------------------------------------------------------------
Booted == pc \in {"idle", "pick", "set"}

\* The frame virtual page v is mapped to, or None.
Translate(v) == IF pde[v \div E] = None THEN None ELSE pte[pde[v \div E]][v % E]

HeapPages == {u \in UNION {uses[f] : f \in Frame} : u[1] = "heap"}

\* malloc needs a page: get_free_page.
HeapGrow ==
    /\ pc = "idle"
    /\ Cardinality(HeapPages) < MaxHeap
    /\ pc' = "pick"
    /\ want' = "heap"
    /\ UNCHANGED <<gates, space, mmap, pde, pte, pick, va, pd, uses, raced>>

\* A touched page is not present: page_fault, do_no_page, uget_free_page.  (From
\* any other handler the instruction would be started again, and fault again.)
Fault(v) ==
    /\ pc = "idle"
    /\ Translate(v) = None
    /\ pc' = IF idt[PF].func = "page_fault" THEN "pick" ELSE "faulting"
    /\ want' = "user"
    /\ va' = v
    /\ UNCHANGED <<gates, space, mmap, pde, pte, pick, pd, uses, raced>>

\* The scan of get_free_page or uget_free_page finds a free frame.  (No count
\* goes back to 0, so a frame passed by the scan stays taken.)
Pick ==
    /\ pc = "pick"
    /\ LET zone == IF want = "user" THEN UserZone ELSE KernelZone IN
          /\ zone # {}
          /\ pick' = Min(zone)
    /\ pc' = "set"
    /\ UNCHANGED <<gates, space, mmap, pde, pte, want, va, pd, uses, raced>>

\* Seeded fault: uget_free_page scans its own frames for ever.
PickKernel_Never == FALSE /\ UNCHANGED vars

\* uget_free_page finds none and turns to the kernel's frames.
PickKernel ==
    /\ pc = "pick"
    /\ want = "user" /\ UserZone = {}
    /\ want' = "userk"
    /\ UNCHANGED <<gates, space, mmap, pde, pte, pc, pick, va, pd, uses, raced>>

\* get_free_page finds none and scans again, for ever; also during boot.
OutOfFrames ==
    /\ KernelZone = {}
    /\ \/ pc = "dir"
       \/ pc = "table" /\ ToOpen # {}
       \/ pc = "pick" /\ want # "user"

GetFreePageSpins == OutOfFrames /\ UNCHANGED vars

Use == CASE want = "heap"  -> <<"heap", Cardinality(HeapPages)>>
         [] want = "table" -> <<"table", va \div E>>
         [] OTHER          -> <<"user", va>>

\* Seeded faults: put_page forgets the entry, or writes a frame count over it.
Mapped_Not(tables, dir, v, f) == tables
Mapped_Flags(tables, dir, v, f) == [tables EXCEPT ![dir[v \div E]] = [@ EXCEPT ![v % E] = NF + f]]

\* put_page's last step: the entry of page v now is frame f.
Mapped(tables, dir, v, f) == [tables EXCEPT ![dir[v \div E]] = [@ EXCEPT ![v % E] = f]]

\* Seeded fault: get_free_page does not mark the frame.
TakeFrame_Unmarked ==
    /\ pc = "set"
    /\ uses' = [uses EXCEPT ![pick] = @ \cup {Use}]
    /\ pick' = None
    /\ UNCHANGED mmap

TakeFrame ==
    /\ pc = "set"
    /\ mmap' = [mmap EXCEPT ![pick] = 1]
    /\ uses' = [uses EXCEPT ![pick] = @ \cup {Use}]
    /\ pick' = None

\* mmap[i] = 1, and the frame goes to the heap.
TakeForHeap ==
    /\ want = "heap"
    /\ TakeFrame
    /\ pc' = "idle"
    /\ want' = "none"
    /\ UNCHANGED <<gates, space, pde, pte, va, pd, raced>>

\* mmap[i] = 1, and put_page maps the frame through the table that is there.
TakeAndMap ==
    /\ want \in {"user", "userk"}
    /\ pde[va \div E] # None
    /\ TakeFrame
    /\ pte' = Mapped(pte, pde, va, pick)
    /\ pc' = "idle"
    /\ want' = "none"
    /\ va' = None
    /\ UNCHANGED <<gates, space, pde, pd, raced>>

\* mmap[i] = 1, and put_page has to get a page table first.
TakeNeedTable ==
    /\ want \in {"user", "userk"}
    /\ pde[va \div E] = None
    /\ TakeFrame
    /\ pd' = pick
    /\ pc' = "pick"
    /\ want' = "table"
    /\ UNCHANGED <<gates, space, pde, pte, va, raced>>

\* The page table: its entry and the one of the faulting page are written, the
\* other entries of the new table stay as they were.
TakeForTable ==
    /\ want = "table"
    /\ TakeFrame
    /\ pde' = [pde EXCEPT ![va \div E] = pick]
    /\ \E old \in Leftover :
          pte' = Mapped([t \in DOMAIN pte \cup {pick} |-> IF t = pick THEN old ELSE pte[t]],
                        pde', va, pd)
    /\ pc' = "idle"
    /\ want' = "none"
    /\ va' = None /\ pd' = None
    /\ UNCHANGED <<gates, space, raced>>

\* The first neSend ends with sti (IRQ 3 is unmasked since trap_init).
Sti ==
    /\ pc = "idle" /\ ~intOn
    /\ intOn' = TRUE
    /\ UNCHANGED <<idt, space, mmap, pde, pte, pc, want, pick, va, pd, uses, raced>>

\* A page fault is being handled.
InFault == pc # "idle" /\ want \in {"user", "userk", "table"}

\* neISR allocates (neRecv's malloc) and runs to its end.  An interrupt gate
\* would keep it out of the page fault handler, a trap gate does not.
IsrGrow ==
    /\ Booted /\ intOn /\ idt[NIC].func = "NCI_int"
    /\ InFault => idt[PF].gate = "trap"
    /\ Cardinality(HeapPages) < MaxHeap
    /\ KernelZone # {}
    /\ LET f == Min(KernelZone) IN
          /\ mmap' = [mmap EXCEPT ![f] = 1]
          /\ uses' = [uses EXCEPT ![f] = @ \cup {<<"heap", Cardinality(HeapPages)>>}]
    /\ raced' = (raced \/ pc = "set")
    /\ UNCHANGED <<gates, space, pde, pte, pc, want, pick, va, pd>>

Step ==
    \/ trap_init \/ mmap_init \/ mm_init \/ NoMemory
    \/ OpenDir \/ OpenTable \/ OpenDone
    \/ Pick \/ PickKernel \/ GetFreePageSpins
    \/ TakeForHeap \/ TakeAndMap \/ TakeNeedTable \/ TakeForTable

Next ==
    \/ HeapGrow \/ (\E v \in Touched : Fault(v))
    \/ Sti \/ IsrGrow
    \/ Step

\* The processor goes on with what it has begun.
Spec == Init /\ [][Next]_vars /\ WF_vars(Step)

-----------------------------------------------------------------------------
TypeOK ==
    /\ mmap \in [Frame -> {0, 1, 100}]
    /\ HMEM \in 0 .. NF /\ KMEM \in 0 .. KMAX
    /\ \A i \in 0 .. D - 1 : pde[i] \in DOMAIN pte \cup {None}
    /\ \A t \in DOMAIN pte : pte[t] \in [0 .. E - 1 -> Frame \cup {None}]
    /\ pc \in {"cmain", "boot", "returned", "dir", "table", "idle", "pick", "set", "faulting"}
    /\ want \in {"none", "heap", "user", "userk", "table"}
    /\ pick \in Frame \cup {None} /\ pd \in Frame \cup {None}
    /\ raced \in BOOLEAN

(***************************************************************************)
(* "get a free page" (mm.c:24): no frame is handed out for two purposes.   *)
(***************************************************************************)
SingleOwner == \A f \in Frame : Cardinality(uses[f]) <= 1

(***************************************************************************)
(* Whatever the heap, the faults, their page tables and the interrupt ask  *)
(* for, in any order, no frame has two owners, unless the interrupt came   *)
(* exactly between the test and the set of get_free_page.                  *)
(***************************************************************************)
SharedOnlyByRace == raced \/ SingleOwner

(***************************************************************************)
(* Once paging is on, every frame below KMEM is mapped to itself for good: *)
(* the kernel writes page tables and heap headers through their physical   *)
(* addresses.  Faults share the last, partly filled table with it.         *)
(***************************************************************************)
IdentityKept == Booted => \A f \in 0 .. KMEM - 1 : Translate(f) = f

(***************************************************************************)
(* A page that was faulted in stays mapped to the frame taken for it,      *)
(* whatever later faults, page tables and heap pages are taken, and        *)
(* whatever the new tables hold.                                           *)
(***************************************************************************)
FaultsMapTheirFrame ==
    pc = "idle" /\ ~raced =>
        \A v \in KMEM .. D * E - 1 : \A f \in Frame :
            <<"user", v>> \in uses[f] => Translate(v) = f

\* get_free_page scans for ever because every frame of RAM it may give out,
\* below KER_MM_SIZE and above the first 4MB, is taken.
AllTaken ==
    OutOfFrames /\ \A f \in Available : K0 <= f /\ f < KMAX => uses[f] # {}

\* mm_init has taken KB for bytes (mm.c:216), and the identity map ends below the
\* first frame get_free_page may give out.
NoKernelFrames == pc = "dir" /\ KMEM <= K0

(***************************************************************************)
(* A page fault, a heap request and the boot itself come to their end, or  *)
(* to get_free_page scanning for ever because all kernel frames really are *)
(* taken: a fault reaches the handler mm.c installs, although trap_init    *)
(* fills all vectors, and is served from either zone, by way of a second   *)
(* request when it needs a page table.  (The boot from mem_upper alone     *)
(* hangs before its first frame, NoKernelFrames: kernel.h:8 says that KMEM *)
(* is 1GB or the size of the memory.)                                      *)
(***************************************************************************)
Served ==
    (pc # "idle") ~> (pc \in {"idle", "returned"} \/ AllTaken \/ NoKernelFrames)

=============================================================================
