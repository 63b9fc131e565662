-------------------------------- MODULE Cow ---------------------------------
(***************************************************************************)
(* The second half of kernel/mm.c: create_mm makes a new address space     *)
(* that shares the page tables of the current one, read-only, and          *)
(* do_wp_page (un_wpte_page, un_wp_page) is to undo the sharing when one   *)
(* of them writes.  Nothing in the kernel calls create_mm or loads cr3     *)
(* after boot yet; Switch stands for the caller that will.                 *)
(*                                                                         *)
(* The directory slots below KMEM>>22 hold identity tables, the same in    *)
(* all spaces and left out.  The table of slot KMEM>>22 begins with the    *)
(* last identity entries, up to KMEM, and goes on with user pages;         *)
(* create_mm treats all of it as shared.  An address space is named by the *)
(* frame of its directory.                                                 *)
(*                                                                         *)
(* Two things end what is followed.  wild is set when a directory or table *)
(* holds what nobody put there: a value the code never assigned, leftovers *)
(* of a frame that was not cleared, another use of the same frame.  And    *)
(* when the identity map is lost (IdentityKept), the kernel can no longer  *)
(* reach its own tables.  A kernel write to a page that create_mm has      *)
(* write-protected is itself a do_wp_page, of that page.                   *)
(***************************************************************************)
EXTENDS Integers, FiniteSets, FiniteSetsExt

CONSTANTS
    NF,         \* frames: 0 .. NF - 1
    K0,         \* first frame get_free_page hands out (KERNEL_SPACE>>12)
    KF,         \* KMEM>>12: the frames below it are the kernel's
    E,          \* entries of a page table (1024)
    D,          \* directory entries (1024)
    Q,          \* directory entries memcpy(new_mm, old_mm, 1024) copies (256)
    CW,         \* counts are kept modulo this (256: unsigned char)
    MaxSpaces,  \* bound: address spaces
    Touched     \* pages that are read and written

KD == KF \div E                 \* KMEM>>22: the first slot create_mm visits
KT == K0 + 1 + KD               \* the table open_pagination put there

\* KMEM is all memory, or 1GB where there is more (kernel.h:8), and 1GB is
\* what the Q slots map.
ASSUME CowAssumption ==
    /\ {NF, K0, KF, E, D, Q, CW, MaxSpaces} \subseteq Nat
    /\ E > 0 /\ KT < KF /\ KF <= NF /\ KF <= Q * E /\ Q < D
    /\ KF = NF \/ KF = Q * E
    /\ CW > 3
    /\ Touched \subseteq KD * E .. D * E - 1

VARIABLES
    mmap,       \* frame -> count
    dir,        \* directory frame -> slot -> [at, rw]: a page table
    tab,        \* page table frame -> entry -> [at, rw]: a page
    cr3,        \* directory of the current space
    wild        \* a directory or table holds what nobody put there

vars == <<mmap, dir, tab, cr3, wild>>

Frame  == 0 .. NF - 1
NoRam  == NF           \* any frame beyond memory
Slots  == KD .. D - 1
Absent == [at |-> -1, rw |-> FALSE]
Empty  == [j \in 0 .. E - 1 |-> Absent]

\* Entry j of table t is one of the kernel's identity map.
KernelEntry(t, j) == t = KT /\ KD * E + j < KF

\* After open_pagination: the directory, the tables of the slots up to KD, in
\* the last one the identity map up to KMEM.
Init ==
    /\ mmap = [f \in Frame |-> IF K0 <= f /\ f <= KT THEN 1 ELSE 0]
    /\ dir = [s \in {K0} |->
                [i \in Slots |-> IF i = KD THEN [at |-> KT, rw |-> TRUE] ELSE Absent]]
    /\ tab = [t \in {KT} |->
                [j \in 0 .. E - 1 |->
                   IF KernelEntry(t, j) THEN [at |-> KD * E + j, rw |-> TRUE] ELSE Absent]]
    /\ cr3 = K0
    /\ wild = FALSE

-----------------------------------------------------------------------------
Free(c, zone) == {f \in zone : c[f] = 0}

Kernel == K0 .. KF - 1
User   == KF .. NF - 1

\* get_free_page and uget_free_page on the counts c; they scan for ever when
\* HasFree does not hold.
get_free_page(c)  == Min(Free(c, Kernel))
uget_free_page(c) == IF Free(c, User) # {} THEN Min(Free(c, User)) ELSE get_free_page(c)
HasFree(n) == Cardinality(Free(mmap, Kernel)) >= n

\* Seeded fault: the frame is not marked.
Taken_Not(c, f) == c

Taken(c, f) == [c EXCEPT ![f] = 1]

\* The directories or tables d, and one more in frame f.
With(d, f, entries) == [x \in DOMAIN d \cup {f} |-> IF x = f THEN entries ELSE d[x]]

Pde(s, v) == dir[s][v \div E]
Pte(s, v) == IF Pde(s, v) = Absent THEN Absent ELSE tab[Pde(s, v).at][v % E]

Writable(s, v) == Pde(s, v).rw /\ Pte(s, v).rw

\* The kernel can write to frame f, at its physical address (CR0.WP is set).
KernelWrites(f) == f >= KD * E => Writable(cr3, f)

\* Frame f is a directory, a table, or a page put into a table.
InUse(f) ==
    \/ f \in DOMAIN dir \cup DOMAIN tab
    \/ \E t \in DOMAIN tab : \E j \in 0 .. E - 1 : ~KernelEntry(t, j) /\ tab[t][j].at = f

\* page_fault on a page that is not present: do_no_page, and put_page through
\* the table that is there.
NoPage(v) ==
    /\ Pte(cr3, v) = Absent /\ Pde(cr3, v) # Absent
    /\ HasFree(1)
    /\ KernelWrites(Pde(cr3, v).at)
    /\ LET f == uget_free_page(mmap)
       IN  /\ mmap' = Taken(mmap, f)
           /\ tab' = [tab EXCEPT ![Pde(cr3, v).at][v % E] = [at |-> f, rw |-> TRUE]]
           /\ wild' = InUse(f)
    /\ UNCHANGED <<dir, cr3>>

\* The same with a new page table, which is not cleared: zero tells whether it
\* reads as empty all the same.
NoTable(v, zero) ==
    /\ Pde(cr3, v) = Absent
    /\ HasFree(2)
    /\ LET f == uget_free_page(mmap)
           c == Taken(mmap, f)
           t == get_free_page(c)
       IN  /\ KernelWrites(t) /\ KernelWrites(cr3)
           /\ mmap' = Taken(c, t)
           /\ dir' = [dir EXCEPT ![cr3][v \div E] = [at |-> t, rw |-> TRUE]]
           /\ tab' = With(tab, t, [Empty EXCEPT ![v % E] = [at |-> f, rw |-> TRUE]])
           /\ wild' = (~zero \/ InUse(f) \/ InUse(t))
    /\ UNCHANGED cr3

\* Seeded faults: the directory entries keep their write bit; the mask also
\* clears the address (&= 0xfd).
Protected_PagesOnly(e) == e
Protected_Mask(e) == [at |-> 0, rw |-> FALSE]

\* &= 0xfffffffd
Protected(e) == [e EXCEPT !.rw = FALSE]

(***************************************************************************)
(* create_mm: every table of the current space from slot KMEM>>22 on, and  *)
(* every page in them, the kernel's too, is made read-only and counted     *)
(* once more; the new directory gets the first Q entries only, the others  *)
(* stay as the frame was.                                                  *)
(***************************************************************************)
create_mm(zero) ==
    /\ Cardinality(DOMAIN dir) < MaxSpaces
    /\ HasFree(1)
    /\ LET n      == get_free_page(mmap)
           tables == {dir[cr3][i].at : i \in {k \in Slots : dir[cr3][k] # Absent}}
           pages(f) == {e \in tables \X (0 .. E - 1) : tab[e[1]][e[2]].at = f}
           old    == [i \in Slots |-> IF dir[cr3][i] = Absent THEN Absent ELSE Protected(dir[cr3][i])]
       IN  /\ \A f \in tables \cup {n, cr3} : KernelWrites(f)
           /\ mmap' = [f \in Frame |->
                         (Taken(mmap, n)[f] + Cardinality(pages(f))
                            + (IF f \in tables THEN 1 ELSE 0)) % CW]
           /\ tab' = [t \in DOMAIN tab |->
                        IF t \in tables
                        THEN [j \in 0 .. E - 1 |-> [tab[t][j] EXCEPT !.rw = FALSE]]
                        ELSE tab[t]]
           /\ dir' = With([dir EXCEPT ![cr3] = old],
                          n, [i \in Slots |-> IF i < Q THEN old[i] ELSE Absent])
           /\ wild' = (~zero \/ InUse(n))
    /\ UNCHANGED cr3

\* Seeded fault: the count is lowered also for the last user.
Shared_Always(c, f) == c[f] > 0

\* The test of un_wpte_page and un_wp_page.
Shared(c, f) == c[f] > 1

(***************************************************************************)
(* do_wp_page for a write to a page whose directory entry is read-only (a  *)
(* read-only page never lies behind a writable one, Owned in CowProofs).   *)
(* un_wpte_page is handed the entry with its flag bits and copies 1024     *)
(* bytes from there, so no entry it copies reads as present, and the rest  *)
(* of the new table stays as the frame was; then un_wp_page takes what is  *)
(* in the faulting page's entry, bytes of two old entries or leftovers,    *)
(* for a page (frame g, or one beyond memory, whose count is 100), lowers  *)
(* its count and gives a fresh page, or returns what it never assigned.    *)
(* (A fault its memcpy takes is a NoPage.)                                 *)
(***************************************************************************)
do_wp_page(v, g, zero) ==
    /\ Pte(cr3, v) # Absent /\ ~Pde(cr3, v).rw
    /\ Shared(mmap, Pde(cr3, v).at)
    /\ HasFree(2)
    /\ LET c0 == [mmap EXCEPT ![Pde(cr3, v).at] = @ - 1]
           t  == get_free_page(c0)
           c1 == Taken(c0, t)
           ok == g = NoRam \/ Shared(c1, g)
           c2 == IF g # NoRam /\ ok THEN [c1 EXCEPT ![g] = @ - 1] ELSE c1
           f  == uget_free_page(c2)
       IN  /\ KernelWrites(t) /\ KernelWrites(cr3)
           /\ dir' = [dir EXCEPT ![cr3][v \div E] = [at |-> t, rw |-> TRUE]]
           /\ wild' = (~ok \/ ~zero \/ InUse(t) \/ InUse(f))
           /\ mmap' = IF ok THEN Taken(c2, f) ELSE c1
           /\ tab' = With(tab, t, IF ok THEN [Empty EXCEPT ![v % E] = [at |-> f, rw |-> TRUE]]
                                        ELSE Empty)
    /\ UNCHANGED cr3

\* The same when nobody shares the table any more: un_wpte_page returns a
\* variable it did not assign, which becomes the directory entry.
do_wp_page_last(v) ==
    /\ Pte(cr3, v) # Absent /\ ~Pde(cr3, v).rw
    /\ ~Shared(mmap, Pde(cr3, v).at)
    /\ wild' = TRUE
    /\ UNCHANGED <<mmap, dir, tab, cr3>>

\* The caller of create_mm loads cr3.
Switch(s) == cr3' = s /\ UNCHANGED <<mmap, dir, tab, wild>>

(***************************************************************************)
(* "The part of physical memory below 1GB is mapped to itself" (mm.c:6),   *)
(* here the last, partly filled table of it, in every address space.       *)
(***************************************************************************)
IdentityKept ==
    ~wild => \A s \in DOMAIN dir : \A f \in KD * E .. KF - 1 : Pte(s, f).at = f

Next ==
    /\ ~wild /\ IdentityKept
    /\ \/ \E v \in Touched : NoPage(v) \/ do_wp_page_last(v)
       \/ \E v \in Touched, zero \in BOOLEAN :
             NoTable(v, zero) \/ \E g \in Frame \cup {NoRam} : do_wp_page(v, g, zero)
       \/ \E zero \in BOOLEAN : create_mm(zero)
       \/ \E s \in DOMAIN dir : Switch(s)

Spec == Init /\ [][Next]_vars

-----------------------------------------------------------------------------
TypeOK ==
    /\ mmap \in [Frame -> 0 .. CW - 1]
    /\ DOMAIN dir \subseteq Frame /\ DOMAIN tab \subseteq Frame
    /\ cr3 \in DOMAIN dir
    /\ \A s \in DOMAIN dir : \A i \in Slots : dir[s][i] = Absent \/ dir[s][i].at \in DOMAIN tab
    /\ \A t \in DOMAIN tab : \A j \in 0 .. E - 1 : tab[t][j] = Absent \/ tab[t][j].at \in Frame
    /\ wild \in BOOLEAN

Pages     == KD * E .. D * E - 1
UserPages == KF .. D * E - 1

(***************************************************************************)
(* The counts can hold the sharing: each create_mm adds one, so they wrap  *)
(* with the 256th space.  (Only a frame of the last identity table that is *)
(* also a table or a user page gets two from the first create_mm; it is    *)
(* the last kernel frame to be taken, so there is none for a second one.)  *)
(***************************************************************************)
CountsSuffice == Cardinality(DOMAIN dir) < CW

(***************************************************************************)
(* As long as the counts suffice, no space can write what another can see, *)
(* through whatever shared or half-copied tables: the frame of a user page *)
(* that is writable in one space is a user page of no other one, and at    *)
(* one address only.                                                       *)
(***************************************************************************)
Isolated ==
    ~wild /\ CountsSuffice =>
        \A s, r \in DOMAIN dir : \A v, w \in UserPages :
            (Writable(s, v) /\ Pte(r, w) # Absent /\ <<s, v>> # <<r, w>>)
                => Pte(s, v).at # Pte(r, w).at

\* The directories, and the tables and user pages some space can reach.
Reached ==
    DOMAIN dir \cup {Pde(s, v).at : s \in DOMAIN dir, v \in Pages}
               \cup {Pte(s, v).at : s \in DOMAIN dir, v \in UserPages}

(***************************************************************************)
(* As long as the counts suffice, a frame that some space still reaches    *)
(* never counts as free, so it is not handed out again and no page table   *)
(* is made of a used frame: the counts survive tables that are shared,     *)
(* copied and left, and the kernel's own pages being counted with them.    *)
(***************************************************************************)
ReachedIsCounted ==
    ~wild /\ CountsSuffice => \A f \in Reached \ {-1} : mmap[f] > 0

(***************************************************************************)
(* "If the page table is shared too, undo its sharing" (mm.c:161), for     *)
(* copy-on-write (mm.c:110): a write to a shared page leaves a space the   *)
(* pages it had.                                                           *)
(***************************************************************************)
UnsharingKeepsPages ==
    [][~wild' => \A s \in DOMAIN dir : \A v \in UserPages :
                    Pte(s, v) # Absent => Pte(s, v)' # Absent]_vars

=============================================================================
