------------------------------- MODULE Malloc -------------------------------
(***************************************************************************)
(* kernel/malloc.c at the level of its pointers: headers (mlT) in memory,  *)
(* the doubly linked free list sorted by size behind the sentinel mmlist,  *)
(* the sweep clean() that merges adjacent free blocks, and the pages that  *)
(* get_free_page (kernel/mm.c) supplies.                                   *)
(*                                                                         *)
(* malloc and free run to completion here (one caller).  A malloc that     *)
(* finds no block is cut into the steps of clean's loops, so that every    *)
(* intermediate list is a state and termination is a property.             *)
(***************************************************************************)
EXTENDS Integers, FiniteSets, FiniteSetsExt, Functions

CONSTANTS
    Frames,     \* number of frames between KERNEL_SPACE and KMEM
    PAGE,       \* page size (1<<12)
    Requests    \* byte counts callers ask for

HDR   == 16     \* sizeof(mlT)
ALIGN == 4
NULL  == 0
SENTINEL == HDR \* &mmlist: a header outside every heap page (page 0)

Round4(n) == ((n + 3) \div 4) * 4

ASSUME MallocAssumption ==
    /\ Frames \in Nat
    /\ PAGE \in Nat /\ PAGE % ALIGN = 0 /\ PAGE > HDR
    /\ Requests \subseteq Nat \ {0}
    /\ \A n \in Requests : Round4(n) <= PAGE - HDR

VARIABLES
    hdr,        \* address of a header -> [size, next, root, state]
    mmList,     \* head of the free list
    mmap,       \* frames get_free_page has handed out
    pc,         \* where malloc is: "idle", "clean", "unite", "grow"
    req,        \* bytes the running malloc was asked for (0 when idle)
    mm,         \* clean: the block being merged, the next one to take
    nextm,      \* clean: the list predecessor of mm when it was taken
    absorbed,   \* headers swallowed by unite while clean may still read them
    held        \* pointers callers hold -> bytes they asked for

vars == <<hdr, mmList, mmap, pc, req, mm, nextm, absorbed, held>>

\* The headers of the blocks of the heap.
Live == DOMAIN hdr \ (absorbed \cup {SENTINEL})

PageOf(a) == a \div PAGE

End(a) == a + HDR + hdr[a].size

\* A header of n bytes that is FREE and not linked.
FreeHdr(n) == [size |-> n, next |-> NULL, root |-> NULL, state |-> "FREE"]

\* What is in memory, or known, at address a becomes v.
With(h, a, v) == [x \in DOMAIN h \cup {a} |-> IF x = a THEN v ELSE h[x]]

Init ==
    /\ hdr = [a \in {SENTINEL} |-> FreeHdr(0)]
    /\ mmList = SENTINEL
    /\ mmap = {}
    /\ pc = "idle"
    /\ req = 0
    /\ mm = NULL
    /\ nextm = NULL
    /\ absorbed = {}
    /\ held = [p \in {} |-> 0]

-----------------------------------------------------------------------------
(***************************************************************************)
(* The free list.  These operators work on a header map h, so that one     *)
(* call of the code can use several of them in its order.                  *)
(***************************************************************************)

\* The nodes of the list that starts at a, by position; NULL after its end.
Nodes(h, a) ==
    LET succ == [b \in DOMAIN h \cup {a, NULL} \cup {h[x].next : x \in DOMAIN h} |->
                    IF b \in DOMAIN h THEN h[b].next ELSE NULL]
        nx[k \in 0 .. Cardinality(DOMAIN h)] == IF k = 0 THEN a ELSE succ[nx[k - 1]]
    IN  nx

\* The position where the walks of find and add stop: the first node of at
\* least n bytes, or the end of the list.
StopAt(h, nx, n) ==
    Min({k \in DOMAIN nx : nx[k] \notin DOMAIN h \/ h[nx[k]].size >= n})

find(h, ml, n) == LET nx == Nodes(h, ml) IN nx[StopAt(h, nx, n)]

(***************************************************************************)
(* add(): m goes before the first node that is at least as large.  The     *)
(* recursion rewrites next and root of every node it passed on its way     *)
(* back: next as it was but for the last one, root to the node before.     *)
(***************************************************************************)
add(h, ml, m) ==
    LET nx == Nodes(h, ml)
        k  == StopAt(h, nx, h[m].size)
        next(a) == IF a = m THEN nx[k] ELSE IF k > 0 /\ a = nx[k - 1] THEN m ELSE h[a].next
        root(a) ==
            IF a = m THEN (IF k > 0 THEN nx[k - 1] ELSE IF nx[0] = NULL THEN NULL ELSE h[nx[0]].root)
            ELSE IF a = nx[k] THEN m
            ELSE IF \E i \in 1 .. k - 1 : a = nx[i] THEN nx[(CHOOSE i \in 1 .. k - 1 : a = nx[i]) - 1]
            ELSE h[a].root
    IN  [a \in DOMAIN h |-> [h[a] EXCEPT !.next = next(a), !.root = root(a)]]

\* What add() returns: the new head of the list.
addHead(h, ml, m) == IF StopAt(h, Nodes(h, ml), h[m].size) = 0 THEN m ELSE ml

\* Seeded fault: del() without the update of mm->next->root.
del_OneWay(h, m) == [h EXCEPT ![h[m].root].next = h[m].next]

del(h, m) ==
    LET r == h[m].root
        n == h[m].next
    IN  [a \in DOMAIN h |->
            [h[a] EXCEPT !.next = IF a = r THEN n ELSE @,
                         !.root = IF a = n THEN r ELSE @]]

\* Seeded fault: unite() without the test that nextm is FREE.
swallowed_Busy(h, m) ==
    LET e == m + HDR + h[m].size
    IN  IF PageOf(e) = PageOf(m) /\ e \in DOMAIN h THEN {e} ELSE {}

\* Seeded fault: unite() without the test that nextm is in mm's page.
swallowed_AcrossPages(h, m) ==
    LET e == m + HDR + h[m].size
    IN  IF e \in DOMAIN h /\ h[e].state = "FREE" THEN {e} ELSE {}

(***************************************************************************)
(* unite(): the block that m swallows, if any: the header right behind m,  *)
(* in m's page, in state FREE.                                             *)
(***************************************************************************)
swallowed(h, m) ==
    LET e == m + HDR + h[m].size
    IN  IF PageOf(e) = PageOf(m) /\ e \in DOMAIN h /\ h[e].state = "FREE" THEN {e} ELSE {}

unite(h, m) ==
    IF swallowed(h, m) = {} THEN h
    ELSE LET e == m + HDR + h[m].size
         IN  [del(h, e) EXCEPT ![m].size = @ + HDR + h[e].size]

-----------------------------------------------------------------------------
(***************************************************************************)
(* The end of malloc, with m taken off the list in h: cut off m's tail if  *)
(* the tail can hold a header and 4 bytes, and hand m out.  (The links     *)
(* that stay in a BUSY header are never read before add() overwrites them: *)
(* they are NULL here.)                                                    *)
(***************************************************************************)
Split(m, n) == hdr[m].size >= n + 4 + HDR

\* Seeded fault: the tail's size without its own header subtracted.
Remainder_NoHeader(m, n) == FreeHdr(hdr[m].size - n)

Remainder(m, n) == FreeHdr(hdr[m].size - n - HDR)

HandOut(off, m, n) ==
    LET s == Round4(n)
        t == m + HDR + s
        cut == With(off, t, Remainder(m, s))
        h == IF Split(m, s) THEN [add(cut, mmList, t) EXCEPT ![m].size = s] ELSE off
    IN  /\ hdr' = [h EXCEPT ![m] = [@ EXCEPT !.state = "BUSY", !.next = NULL, !.root = NULL]]
        /\ mmList' = IF Split(m, s) THEN addHead(cut, mmList, t) ELSE mmList
        /\ held' = With(held, m + HDR, n)
        /\ pc' = "idle"
        /\ req' = 0
        /\ mm' = NULL
        /\ UNCHANGED <<mmap, nextm, absorbed>>

\* malloc(n) that finds a block at once.
MallocHit(n) ==
    /\ pc = "idle"
    /\ find(hdr, mmList, Round4(n)) # NULL
    /\ LET m == find(hdr, mmList, Round4(n)) IN HandOut(del(hdr, m), m, n)

\* Seeded fault: malloc goes for a fresh page without calling clean().
MallocMiss_NoClean(n) ==
    /\ pc = "idle"
    /\ find(hdr, mmList, Round4(n)) = NULL
    /\ pc' = "grow"
    /\ req' = n
    /\ UNCHANGED <<hdr, mmList, mmap, mm, nextm, absorbed, held>>

\* malloc(n) that does not, and enters clean().
MallocMiss(n) ==
    /\ pc = "idle"
    /\ find(hdr, mmList, Round4(n)) = NULL
    /\ pc' = "clean"
    /\ req' = n
    /\ mm' = hdr[mmList].next
    /\ UNCHANGED <<hdr, mmList, mmap, nextm, absorbed, held>>

\* clean(), outer loop: remember the predecessor and take mm off the list.
CleanTake ==
    /\ pc = "clean"
    /\ mm # NULL
    /\ nextm' = hdr[mm].root
    /\ hdr' = del(hdr, mm)
    /\ pc' = "unite"
    /\ UNCHANGED <<mmList, mmap, req, mm, absorbed, held>>

\* clean(), inner loop: mm grew, so it is tried again.
CleanUnite ==
    /\ pc = "unite"
    /\ swallowed(hdr, mm) # {}
    /\ hdr' = unite(hdr, mm)
    /\ absorbed' = absorbed \cup swallowed(hdr, mm)
    /\ UNCHANGED <<mmList, mmap, pc, req, mm, nextm, held>>

\* Seeded fault: clean() goes on with nextm->next even when that is mm.
CleanPut_Again ==
    /\ pc = "unite"
    /\ swallowed(hdr, mm) = {}
    /\ LET h == add(hdr, mmList, mm)
       IN  /\ hdr' = Restrict(h, DOMAIN h \ absorbed)
           /\ mm' = h[nextm].next
    /\ mmList' = addHead(hdr, mmList, mm)
    /\ absorbed' = {}
    /\ nextm' = NULL
    /\ pc' = "clean"
    /\ UNCHANGED <<mmap, req, held>>

\* clean(): put mm back and go on behind its old predecessor, which may be a
\* header mm has just swallowed.
CleanPut ==
    /\ pc = "unite"
    /\ swallowed(hdr, mm) = {}
    /\ LET h == add(hdr, mmList, mm)
           n == h[nextm].next
       IN  /\ hdr' = Restrict(h, DOMAIN h \ absorbed)
           /\ mm' = IF mm # n THEN n ELSE h[n].next
    /\ mmList' = addHead(hdr, mmList, mm)
    /\ absorbed' = {}
    /\ nextm' = NULL
    /\ pc' = "clean"
    /\ UNCHANGED <<mmap, req, held>>

CleanDone ==
    /\ pc = "clean"
    /\ mm = NULL
    /\ pc' = "grow"
    /\ UNCHANGED <<hdr, mmList, mmap, req, mm, nextm, absorbed, held>>

\* malloc after clean(): a block is large enough now.
GrowHit ==
    /\ pc = "grow"
    /\ find(hdr, mmList, Round4(req)) # NULL
    /\ LET m == find(hdr, mmList, Round4(req)) IN HandOut(del(hdr, m), m, req)

FreeFrames == (1 .. Frames) \ mmap

\* Frame f becomes one free block on the list.
AddPage(f) ==
    LET h == With(hdr, f * PAGE, FreeHdr(PAGE - HDR))
    IN  /\ hdr' = add(h, mmList, f * PAGE)
        /\ mmList' = addHead(h, mmList, f * PAGE)

\* malloc after clean(): get_free_page() takes the lowest free frame.
GrowPage ==
    /\ pc = "grow"
    /\ find(hdr, mmList, Round4(req)) = NULL
    /\ FreeFrames # {}
    /\ mmap' = mmap \cup {Min(FreeFrames)}
    /\ AddPage(Min(FreeFrames))
    /\ UNCHANGED <<pc, req, mm, nextm, absorbed, held>>

\* get_free_page() without a free frame: while(1), for ever.
Stuck ==
    /\ pc = "grow"
    /\ find(hdr, mmList, Round4(req)) = NULL
    /\ FreeFrames = {}

GetFreePageSpins == Stuck /\ UNCHANGED vars

(***************************************************************************)
(* free(p), for a pointer malloc returned: merge with the successor once,  *)
(* mark FREE, put on the list.  (free(NULL) changes nothing.)              *)
(***************************************************************************)
Free(p) ==
    /\ pc = "idle"
    /\ LET m == p - HDR
           h == [unite(hdr, m) EXCEPT ![m].state = "FREE"]
       IN  /\ hdr' = Restrict(add(h, mmList, m), DOMAIN h \ swallowed(hdr, m))
           /\ mmList' = addHead(h, mmList, m)
    /\ held' = Restrict(held, DOMAIN held \ {p})
    /\ UNCHANGED <<mmap, pc, req, mm, nextm, absorbed>>

\* What a malloc does until it returns.
MallocStep ==
    \/ CleanTake \/ CleanUnite \/ CleanPut \/ CleanDone
    \/ GrowHit \/ GrowPage \/ GetFreePageSpins

Next ==
    \/ \E n \in Requests : MallocHit(n) \/ MallocMiss(n)
    \/ \E p \in DOMAIN held : Free(p)
    \/ MallocStep

(***************************************************************************)
(* The processor keeps running the code of a malloc that has been called.  *)
(* This is WF_vars(MallocStep): MallocStep can change the state exactly    *)
(* when a malloc is running and not stuck, and no other action is enabled  *)
(* then.  Written out, TLC need not compute ENABLED.                       *)
(***************************************************************************)
Running == []<>(pc = "idle" \/ Stuck) \/ []<><<pc # "idle">>_vars

Spec == Init /\ [][Next]_vars /\ Running

-----------------------------------------------------------------------------
TypeOK ==
    /\ DOMAIN hdr \subseteq {SENTINEL} \cup (PAGE .. (Frames + 1) * PAGE - 1)
    /\ \A a \in DOMAIN hdr :
          /\ hdr[a].size \in 0 .. PAGE
          /\ {hdr[a].next, hdr[a].root} \subseteq DOMAIN hdr \cup {NULL}
          /\ hdr[a].state \in {"FREE", "BUSY"}
    /\ mmList \in DOMAIN hdr
    /\ mmap \subseteq 1 .. Frames
    /\ pc \in {"idle", "clean", "unite", "grow"}
    /\ req \in Requests \cup {0}
    /\ {mm, nextm} \subseteq DOMAIN hdr \cup {NULL}
    /\ absorbed \subseteq DOMAIN hdr
    /\ \A p \in DOMAIN held : held[p] \in Requests

\* The list behind mmList is exactly the free blocks but those in inHand.
ListExact(inHand) ==
    LET nx  == Nodes(hdr, mmList)
        len == CHOOSE k \in DOMAIN nx : nx[k] = NULL /\ \A j \in 0 .. k - 1 : nx[j] # NULL
    IN  /\ mmList = SENTINEL
        /\ \E k \in DOMAIN nx : nx[k] = NULL
        /\ {nx[k] : k \in 0 .. len - 1} =
              {SENTINEL} \cup {a \in Live \ inHand : hdr[a].state = "FREE"}
        /\ \A k \in 1 .. len - 1 : /\ hdr[nx[k]].root = nx[k - 1]
                                   /\ hdr[nx[k]].size >= hdr[nx[k - 1]].size

(***************************************************************************)
(* Between any two steps of malloc, free and clean the list behind mmList  *)
(* holds exactly the free blocks (without the one clean has in its hand),  *)
(* sorted by size, and its root pointers undo its next pointers.  find     *)
(* relies on the order for best fit, add and del on the links; clean       *)
(* edits the list while it walks it.                                       *)
(***************************************************************************)
FreeListExact == ListExact(IF pc = "unite" THEN {mm} ELSE {})

(***************************************************************************)
(* A pointer malloc returned and free has not taken back is preceded by    *)
(* its own BUSY header, is 4-byte aligned, has the bytes that were asked   *)
(* for inside its page, and shares none with another block; and no block   *)
(* stays BUSY without an owner.                                            *)
(***************************************************************************)
HeldIntact ==
    /\ {a + HDR : a \in {b \in Live : hdr[b].state = "BUSY"}} = DOMAIN held
    /\ \A p \in DOMAIN held :
          /\ p % ALIGN = 0
          /\ held[p] <= hdr[p - HDR].size
          /\ PageOf(p + held[p] - 1) = PageOf(p)
          /\ \A b \in Live : b # p - HDR => End(p - HDR) <= b \/ End(b) <= p - HDR

\* The blocks from a to b, all of one page, are free.
FreeRun(a, b) ==
    /\ a <= b
    /\ PageOf(a) = PageOf(b)
    /\ \A x \in Live : (a <= x /\ x <= b) => hdr[x].state = "FREE"

(***************************************************************************)
(* clean() has done its work when a page is taken: even putting adjacent   *)
(* free blocks of a page together would not have given the request room.   *)
(***************************************************************************)
GrowOnlyWhenFull ==
    [][mmap' # mmap =>
          \A a, b \in Live : FreeRun(a, b) => End(b) - a - HDR < Round4(req)]_vars

(***************************************************************************)
(* A malloc returns, unless no frame is left: the sweep over a list it     *)
(* rearranges itself comes to an end, and one fresh page is enough.        *)
(***************************************************************************)
MallocReturns == (pc # "idle") ~> (pc = "idle" \/ Stuck)

\* The blocks of a page, numbered by their offset, and which of them are BUSY.
PageBlocks(f) == {a \in Live : PageOf(a) = f}

PageSizes ==
    [f \in 1 .. Frames |->
        [o \in {a % PAGE : a \in PageBlocks(f)} |-> hdr[f * PAGE + o].size]]

PageBusy ==
    [f \in 1 .. Frames |-> {a % PAGE : a \in {b \in PageBlocks(f) : hdr[b].state = "BUSY"}}]

Abstract == INSTANCE Heap WITH
    Pages <- 1 .. Frames,
    size  <- PageSizes,
    busy  <- PageBusy

(***************************************************************************)
(* malloc and free implement Heap: forget the list, number blocks by page  *)
(* and offset.                                                             *)
(***************************************************************************)
ImplementsHeap == Abstract!Spec

=============================================================================
