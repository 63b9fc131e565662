-------------------------------- MODULE Heap --------------------------------
(***************************************************************************)
(* What kernel/malloc.c promises, without its free list.                   *)
(*                                                                         *)
(* The kernel heap is a set of pages.  Every page the heap owns is cut     *)
(* into blocks; a block is a header of HDR bytes (mlT) followed by `size'  *)
(* payload bytes.  A block is identified by its page and the offset of its *)
(* header in that page, so that the code's test "nextm lies in the page of *)
(* mm" is "the block does not end at the page end".                        *)
(*                                                                         *)
(* Malloc.tla models the doubly linked, sorted free list and implements    *)
(* this module; HeapProofs.tla proves the invariants below for every page  *)
(* size and every set of pages and requests.                               *)
(***************************************************************************)
EXTENDS Integers

CONSTANTS
    Pages,      \* the frames get_free_page can hand out
    PAGE,       \* the page size (4096 in the code)
    Requests    \* the byte counts callers pass to malloc

HDR   == 16     \* sizeof(mlT) on i386: size, next, root, state
ALIGN == 4      \* malloc rounds sizes up to a multiple of 4

(***************************************************************************)
(* Rounding a request up to a multiple of ALIGN: ((size+3)>>2)<<2.         *)
(***************************************************************************)
Round4(n) == ((n + 3) \div 4) * 4

(***************************************************************************)
(* Callers ask for at least one byte and for at most what one page holds:  *)
(* the largest request in the tree is a received frame, 0x600 bytes.       *)
(***************************************************************************)
ASSUME PageAssumption ==
    /\ PAGE \in Nat
    /\ PAGE % ALIGN = 0
    /\ PAGE > HDR

ASSUME RequestAssumption ==
    /\ Requests \subseteq Nat \ {0}
    /\ \A n \in Requests : Round4(n) <= PAGE - HDR

VARIABLES
    size,       \* size[p]: block offset -> payload bytes; empty if p is not owned
    busy        \* busy[p]: the offsets of the blocks callers hold

vars == <<size, busy>>

Blocks(p) == DOMAIN size[p]

\* Where the block after o starts, or PAGE.
End(p, o) == o + HDR + size[p][o]

TypeOK ==
    /\ DOMAIN size = Pages
    /\ DOMAIN busy = Pages
    /\ \A p \in Pages :
          /\ size[p] \in [Blocks(p) -> Nat \ {0}]
          /\ Blocks(p) \subseteq 0 .. PAGE - 1
          /\ busy[p] \subseteq Blocks(p)

Init ==
    /\ size = [p \in Pages |-> [o \in {} |-> 0]]
    /\ busy = [p \in Pages |-> {}]

-----------------------------------------------------------------------------
(***************************************************************************)
(* malloc takes a fresh page: one free block that fills it.                *)
(***************************************************************************)
Grow(p) ==
    /\ Blocks(p) = {}
    /\ size' = [size EXCEPT ![p] = [o \in {0} |-> PAGE - HDR]]
    /\ UNCHANGED busy

\* Seeded fault: the block that was cut keeps its old size.
Carved_KeepsSize(f, o, n) ==
    IF f[o] >= n + ALIGN + HDR
    THEN LET rest == o + HDR + n IN
         [x \in DOMAIN f \cup {rest} |-> IF x = rest THEN f[o] - n - HDR ELSE f[x]]
    ELSE f

(***************************************************************************)
(* malloc hands a free block to the caller and cuts off the tail when the  *)
(* tail can hold a header and at least ALIGN bytes.                        *)
(***************************************************************************)
Carved(f, o, n) ==
    IF f[o] >= n + ALIGN + HDR
    THEN LET rest == o + HDR + n IN
         [x \in DOMAIN f \cup {rest} |->
             IF x = o THEN n ELSE IF x = rest THEN f[o] - n - HDR ELSE f[x]]
    ELSE f

Alloc(p, o, n) ==
    /\ o \in Blocks(p) \ busy[p]
    /\ size[p][o] >= n
    /\ size' = [size EXCEPT ![p] = Carved(@, o, n)]
    /\ busy' = [busy EXCEPT ![p] = @ \cup {o}]

\* Seeded fault: unite() without the test that the successor is FREE.
Joinable_Busy(p, o) == End(p, o) < PAGE

(***************************************************************************)
(* unite(): block o swallows its successor.                                *)
(***************************************************************************)
Joinable(p, o) == End(p, o) < PAGE /\ End(p, o) \notin busy[p]

\* Seeded fault: the swallowed block's header bytes are not counted.
Joined_NoHeader(f, o, e) ==
    [x \in DOMAIN f \ {e} |-> IF x = o THEN f[o] + f[e] ELSE f[x]]

Joined(f, o, e) ==
    [x \in DOMAIN f \ {e} |-> IF x = o THEN f[o] + HDR + f[e] ELSE f[x]]

(***************************************************************************)
(* free() gives a block back, merged with its successor if that is free.   *)
(***************************************************************************)
Release(p, o) ==
    /\ o \in busy[p]
    /\ busy' = [busy EXCEPT ![p] = @ \ {o}]
    /\ IF Joinable(p, o)
       THEN size' = [size EXCEPT ![p] = Joined(@, o, End(p, o))]
       ELSE UNCHANGED size

(***************************************************************************)
(* One merge of the clean() sweep: both blocks are free.                   *)
(***************************************************************************)
Coalesce(p, o) ==
    /\ o \in Blocks(p) \ busy[p]
    /\ Joinable(p, o)
    /\ size' = [size EXCEPT ![p] = Joined(@, o, End(p, o))]
    /\ UNCHANGED busy

Next ==
    \E p \in Pages :
        \/ Grow(p)
        \/ \E o \in Blocks(p) :
              \/ \E n \in Requests : Alloc(p, o, Round4(n))
              \/ Release(p, o)
              \/ Coalesce(p, o)

Spec == Init /\ [][Next]_vars

-----------------------------------------------------------------------------
(***************************************************************************)
(* Walking a page header by header (unite computes the successor as        *)
(* mm + mm->size + sizeof(mlT)) starts at offset 0, always lands on a      *)
(* header, and ends exactly at the page end.                               *)
(***************************************************************************)
Tiled ==
    \A p \in Pages :
        /\ Blocks(p) # {} => 0 \in Blocks(p)
        /\ \A o \in Blocks(p) : End(p, o) = PAGE \/ End(p, o) \in Blocks(p)

(***************************************************************************)
(* No header or payload byte belongs to two blocks: what malloc returned   *)
(* to one caller is never inside memory it returned to another.            *)
(***************************************************************************)
Disjoint ==
    \A p \in Pages : \A a, b \in Blocks(p) : a < b => End(p, a) <= b

(***************************************************************************)
(* Every header, hence every pointer malloc returns, is 4-byte aligned     *)
(* (the rounding in malloc is what keeps it so).                           *)
(***************************************************************************)
Aligned ==
    \A p \in Pages : \A o \in Blocks(p) : o % ALIGN = 0 /\ size[p][o] % ALIGN = 0

(***************************************************************************)
(* While a caller holds a block, no malloc, free or clean of another block *)
(* moves, resizes or swallows it.                                          *)
(***************************************************************************)
HeldBlockFixed ==
    [][\A p \in Pages : \A o \in busy[p] :
          o \in Blocks(p)' /\ (o \in busy[p]' => size[p]'[o] = size[p][o])]_vars

HeapInv == TypeOK /\ Tiled /\ Disjoint /\ Aligned

=============================================================================
