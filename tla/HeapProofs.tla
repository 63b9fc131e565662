----------------------------- MODULE HeapProofs -----------------------------
(***************************************************************************)
(* Proofs about Heap, for every page size, set of pages and set of         *)
(* requests that satisfy its assumptions.                                  *)
(*                                                                         *)
(* The inductive invariant is HeapInv itself: the three shape properties   *)
(* need each other (a merge lands on a header because the page is tiled,   *)
(* and swallows nothing else because blocks are disjoint).  It is stated   *)
(* page by page, as PageInv, so that the arithmetic of splitting and       *)
(* merging is done once on one page's block map (LEMMAs CarvedPage and     *)
(* JoinedPage) and the actions only lift it.                               *)
(***************************************************************************)
EXTENDS Heap, TLAPS

\* The end of block o in the block map f.
EndIn(f, o) == o + HDR + f[o]

\* HeapInv for one page with block map f.
PageInv(f) ==
    /\ f \in [DOMAIN f -> Nat \ {0}]
    /\ DOMAIN f \subseteq 0 .. PAGE - 1
    /\ DOMAIN f # {} => 0 \in DOMAIN f
    /\ \A o \in DOMAIN f : EndIn(f, o) = PAGE \/ EndIn(f, o) \in DOMAIN f
    /\ \A a, b \in DOMAIN f : a < b => EndIn(f, a) <= b
    /\ \A o \in DOMAIN f : o % ALIGN = 0 /\ f[o] % ALIGN = 0

\* HeapInv, page by page.
PagesInv ==
    /\ DOMAIN size = Pages
    /\ DOMAIN busy = Pages
    /\ \A p \in Pages : PageInv(size[p]) /\ busy[p] \subseteq DOMAIN size[p]

(***************************************************************************)
(* The page-by-page form says exactly what the properties of Heap say.     *)
(***************************************************************************)
LEMMA PageForm == HeapInv <=> PagesInv
  BY DEF HeapInv, PagesInv, PageInv, EndIn, TypeOK, Tiled, Disjoint, Aligned,
         Blocks, End

(***************************************************************************)
(* ((size+3)>>2)<<2 is a multiple of 4, positive for a positive size and   *)
(* not smaller than it.                                                    *)
(***************************************************************************)
LEMMA RoundUp ==
  ASSUME NEW n \in Nat \ {0}
  PROVE  /\ Round4(n) \in Nat \ {0}
         /\ Round4(n) % ALIGN = 0
         /\ Round4(n) >= n
  BY DEF Round4, ALIGN

(***************************************************************************)
(* Splitting a block in malloc keeps its page well formed and no header    *)
(* disappears.                                                             *)
(***************************************************************************)
LEMMA CarvedPage ==
  ASSUME NEW f, PageInv(f), NEW o \in DOMAIN f, NEW n \in Nat \ {0},
         n % ALIGN = 0, f[o] >= n
  PROVE  /\ PageInv(Carved(f, o, n))
         /\ DOMAIN f \subseteq DOMAIN Carved(f, o, n)
         /\ \A x \in DOMAIN f \ {o} : Carved(f, o, n)[x] = f[x]
<1>1. CASE ~(f[o] >= n + ALIGN + HDR)
  BY <1>1 DEF Carved
<1>2. CASE f[o] >= n + ALIGN + HDR
  <2> DEFINE rest == o + HDR + n
             g == Carved(f, o, n)
  <2>1. /\ DOMAIN f \subseteq 0 .. PAGE - 1
        /\ \A x \in DOMAIN f : x \in Nat /\ f[x] \in Nat \ {0}
        /\ PAGE \in Nat
    BY PageAssumption DEF PageInv
  <2>2. \A x \in DOMAIN f : x < o \/ x = o \/ x >= EndIn(f, o)
    BY <2>1 DEF PageInv, EndIn, HDR
  <2>3. rest \in Nat /\ rest > o /\ rest + HDR + ALIGN <= EndIn(f, o) /\ rest \notin DOMAIN f
    BY <1>2, <2>1, <2>2 DEF EndIn, HDR, ALIGN
  <2>4. EndIn(f, o) <= PAGE
    BY <2>1 DEF PageInv
  <2>5. /\ DOMAIN g = DOMAIN f \cup {rest}
        /\ g[o] = n
        /\ g[rest] = f[o] - n - HDR
        /\ \A x \in DOMAIN f \ {o} : g[x] = f[x]
        /\ g = [x \in DOMAIN g |-> g[x]]
    BY <1>2, <2>3 DEF Carved
  <2>6. g[rest] \in Nat \ {0} /\ EndIn(g, rest) = EndIn(f, o) /\ EndIn(g, o) = rest
    BY <1>2, <2>1, <2>5 DEF EndIn, HDR, ALIGN
  <2>7. \A x \in DOMAIN f \ {o} : EndIn(g, x) = EndIn(f, x)
    BY <2>5 DEF EndIn
  <2>8. g \in [DOMAIN g -> Nat \ {0}]
    BY <2>1, <2>5, <2>6
  <2>9. DOMAIN g \subseteq 0 .. PAGE - 1 /\ 0 \in DOMAIN g
    BY <2>1, <2>3, <2>4, <2>5 DEF PageInv, HDR, ALIGN
  <2>10. \A x \in DOMAIN g : EndIn(g, x) = PAGE \/ EndIn(g, x) \in DOMAIN g
    BY <2>5, <2>6, <2>7 DEF PageInv
  <2>11. \A a, b \in DOMAIN g : a < b => EndIn(g, a) <= b
    <3> SUFFICES ASSUME NEW a \in DOMAIN g, NEW b \in DOMAIN g, a < b
                 PROVE  EndIn(g, a) <= b
      OBVIOUS
    <3>1. CASE a \in DOMAIN f \ {o} /\ b \in DOMAIN f
      BY <3>1, <2>7 DEF PageInv
    <3>2. CASE a \in DOMAIN f \ {o} /\ b = rest
      <4>1. a < o
        BY <3>2, <2>1, <2>2, <2>3 DEF HDR, ALIGN, EndIn
      <4>2. EndIn(f, a) <= o
        BY <3>2, <4>1 DEF PageInv
      <4> QED BY <3>2, <4>2, <2>1, <2>3, <2>7 DEF EndIn, HDR
    <3>3. CASE a = o
      BY <3>3, <2>1, <2>2, <2>3, <2>5, <2>6 DEF EndIn, HDR, ALIGN
    <3>4. CASE a = rest
      BY <3>4, <2>1, <2>2, <2>3, <2>5, <2>6 DEF EndIn, HDR, ALIGN
    <3> QED BY <3>1, <3>2, <3>3, <3>4, <2>5
  <2>12. \A x \in DOMAIN g : x % ALIGN = 0 /\ g[x] % ALIGN = 0
    <3>1. o % 4 = 0 /\ f[o] % 4 = 0
      BY DEF PageInv, ALIGN
    <3>2. rest % 4 = 0 /\ (f[o] - n - HDR) % 4 = 0
      BY <3>1, <2>1 DEF HDR, ALIGN
    <3> QED BY <3>2, <2>5 DEF PageInv, ALIGN
  <2> QED BY <2>5, <2>8, <2>9, <2>10, <2>11, <2>12 DEF PageInv
<1> QED BY <1>1, <1>2

(***************************************************************************)
(* unite(): when block o does not end at the page end, its end is the      *)
(* header of another block of the page, and swallowing it keeps the page   *)
(* well formed and every other block as it was.                            *)
(***************************************************************************)
LEMMA JoinedPage ==
  ASSUME NEW f, PageInv(f), NEW o \in DOMAIN f, EndIn(f, o) < PAGE
  PROVE  /\ EndIn(f, o) \in DOMAIN f \ {o}
         /\ PageInv(Joined(f, o, EndIn(f, o)))
         /\ DOMAIN Joined(f, o, EndIn(f, o)) = DOMAIN f \ {EndIn(f, o)}
         /\ \A x \in DOMAIN f \ {o, EndIn(f, o)} : Joined(f, o, EndIn(f, o))[x] = f[x]
<1> DEFINE e == EndIn(f, o)
           g == Joined(f, o, e)
<1>1. /\ DOMAIN f \subseteq 0 .. PAGE - 1
      /\ \A x \in DOMAIN f : x \in Nat /\ f[x] \in Nat \ {0}
      /\ PAGE \in Nat
  BY PageAssumption DEF PageInv
<1>2. e \in DOMAIN f /\ e > o /\ e \in Nat
  BY <1>1 DEF PageInv, EndIn, HDR
<1>3. /\ DOMAIN g = DOMAIN f \ {e}
      /\ g[o] = f[o] + HDR + f[e]
      /\ \A x \in DOMAIN f \ {o, e} : g[x] = f[x]
      /\ g = [x \in DOMAIN g |-> g[x]]
  BY <1>1, <1>2 DEF Joined
<1>4. EndIn(g, o) = EndIn(f, e)
  BY <1>1, <1>2, <1>3 DEF EndIn, HDR
<1>5. \A x \in DOMAIN f \ {o, e} : EndIn(g, x) = EndIn(f, x)
  BY <1>3 DEF EndIn
<1>6. g \in [DOMAIN g -> Nat \ {0}]
  BY <1>1, <1>2, <1>3 DEF HDR
<1>7. DOMAIN g \subseteq 0 .. PAGE - 1 /\ (DOMAIN g # {} => 0 \in DOMAIN g)
  BY <1>1, <1>2, <1>3 DEF PageInv
<1>8. \A x \in DOMAIN f \ {o, e} : EndIn(f, x) # e
  <2> SUFFICES ASSUME NEW x \in DOMAIN f \ {o, e}, EndIn(f, x) = e
               PROVE  FALSE
    OBVIOUS
  <2>1. CASE x < o
    BY <2>1, <1>1, <1>2 DEF PageInv
  <2>2. CASE x > o
    BY <2>2, <1>1, <1>2 DEF PageInv, EndIn, HDR
  <2> QED BY <2>1, <2>2, <1>1
<1>9. \A x \in DOMAIN g : EndIn(g, x) = PAGE \/ EndIn(g, x) \in DOMAIN g
  <2>1. EndIn(f, e) # e
    BY <1>1, <1>2 DEF EndIn, HDR
  <2> QED BY <2>1, <1>2, <1>3, <1>4, <1>5, <1>8 DEF PageInv
<1>10. \A a, b \in DOMAIN g : a < b => EndIn(g, a) <= b
  <2> SUFFICES ASSUME NEW a \in DOMAIN g, NEW b \in DOMAIN g, a < b
               PROVE  EndIn(g, a) <= b
    OBVIOUS
  <2>1. CASE a = o
    <3>1. e <= b /\ b # e
      BY <2>1, <1>3 DEF PageInv
    <3>2. EndIn(f, e) <= b
      BY <3>1, <1>1, <1>2, <1>3 DEF PageInv
    <3> QED BY <3>2, <2>1, <1>4
  <2>2. CASE a # o
    BY <2>2, <1>3, <1>5 DEF PageInv
  <2> QED BY <2>1, <2>2
<1>11. \A x \in DOMAIN g : x % ALIGN = 0 /\ g[x] % ALIGN = 0
  <2>1. f[o] % 4 = 0 /\ f[e] % 4 = 0
    BY <1>2 DEF PageInv, ALIGN
  <2>2. (f[o] + HDR + f[e]) % 4 = 0
    BY <2>1, <1>1, <1>2 DEF HDR
  <2> QED BY <2>2, <1>3 DEF PageInv, ALIGN
<1> QED BY <1>2, <1>3, <1>6, <1>7, <1>9, <1>10, <1>11 DEF PageInv

-----------------------------------------------------------------------------
(***************************************************************************)
(* The four actions keep every page well formed.  First, the page malloc   *)
(* fetches from get_free_page, which becomes a single free block.          *)
(***************************************************************************)
LEMMA GrowStep ==
  ASSUME PagesInv, NEW p \in Pages, Grow(p)
  PROVE  PagesInv'
<1> DEFINE f == [o \in {0} |-> PAGE - HDR]
<1>1. PageInv(f)
  <2>1. (PAGE - HDR) % 4 = 0
    BY PageAssumption DEF HDR, ALIGN
  <2> QED BY <2>1, PageAssumption DEF PageInv, EndIn, HDR, ALIGN
<1>2. busy[p] = {}
  BY DEF PagesInv, Grow, Blocks
<1> QED BY <1>1, <1>2 DEF PagesInv, Grow

(***************************************************************************)
(* Second, malloc handing out a block, split or whole: every page stays    *)
(* well formed.                                                            *)
(***************************************************************************)
LEMMA AllocStep ==
  ASSUME PagesInv, NEW p \in Pages, NEW o, NEW n \in Requests,
         Alloc(p, o, Round4(n))
  PROVE  PagesInv'
<1>1. n \in Nat \ {0}
  BY RequestAssumption
<1>2. /\ PageInv(Carved(size[p], o, Round4(n)))
      /\ DOMAIN size[p] \subseteq DOMAIN Carved(size[p], o, Round4(n))
  BY <1>1, RoundUp, CarvedPage DEF PagesInv, Alloc, Blocks
<1> QED BY <1>2 DEF PagesInv, Alloc, Blocks

(***************************************************************************)
(* Third, free, with the one unite() it tries: every page stays well       *)
(* formed.                                                                 *)
(***************************************************************************)
LEMMA ReleaseStep ==
  ASSUME PagesInv, NEW p \in Pages, NEW o, Release(p, o)
  PROVE  PagesInv'
<1>1. o \in DOMAIN size[p]
  BY DEF PagesInv, Release
<1>2. CASE Joinable(p, o)
  <2>1. EndIn(size[p], o) < PAGE /\ EndIn(size[p], o) \notin busy[p]
    BY <1>2 DEF Joinable, End, EndIn
  <2>2. /\ PageInv(Joined(size[p], o, EndIn(size[p], o)))
        /\ DOMAIN Joined(size[p], o, EndIn(size[p], o)) = DOMAIN size[p] \ {EndIn(size[p], o)}
    BY <1>1, <2>1, JoinedPage DEF PagesInv
  <2>3. size' = [size EXCEPT ![p] = Joined(size[p], o, EndIn(size[p], o))]
    BY <1>2 DEF Release, End, EndIn
  <2> QED BY <2>1, <2>2, <2>3 DEF PagesInv, Release
<1>3. CASE ~Joinable(p, o)
  BY <1>3 DEF PagesInv, Release
<1> QED BY <1>2, <1>3

(***************************************************************************)
(* Fourth, a merge made by clean: every page stays well formed.            *)
(***************************************************************************)
LEMMA CoalesceStep ==
  ASSUME PagesInv, NEW p \in Pages, NEW o, Coalesce(p, o)
  PROVE  PagesInv'
<1>1. EndIn(size[p], o) < PAGE /\ EndIn(size[p], o) \notin busy[p] /\ o \in DOMAIN size[p]
  BY DEF Coalesce, Joinable, End, EndIn, Blocks
<1>2. /\ PageInv(Joined(size[p], o, EndIn(size[p], o)))
      /\ DOMAIN Joined(size[p], o, EndIn(size[p], o)) = DOMAIN size[p] \ {EndIn(size[p], o)}
  BY <1>1, JoinedPage DEF PagesInv
<1>3. size' = [size EXCEPT ![p] = Joined(size[p], o, EndIn(size[p], o))]
  BY DEF Coalesce, End, EndIn
<1> QED BY <1>1, <1>2, <1>3 DEF PagesInv, Coalesce

(***************************************************************************)
(* The heap is well formed in every reachable state: every page is tiled   *)
(* by disjoint, aligned blocks, whatever malloc, free and clean do.        *)
(***************************************************************************)
THEOREM HeapSafe == Spec => []HeapInv
<1>1. Init => PagesInv
  BY DEF Init, PagesInv, PageInv
<1>2. PagesInv /\ [Next]_vars => PagesInv'
  <2> SUFFICES ASSUME PagesInv, [Next]_vars PROVE PagesInv'
    OBVIOUS
  <2>1. CASE \E p \in Pages : Grow(p)
    BY <2>1, GrowStep
  <2>2. CASE \E p \in Pages : \E o \in Blocks(p) : \E n \in Requests : Alloc(p, o, Round4(n))
    BY <2>2, AllocStep
  <2>3. CASE \E p \in Pages : \E o \in Blocks(p) : Release(p, o)
    BY <2>3, ReleaseStep
  <2>4. CASE \E p \in Pages : \E o \in Blocks(p) : Coalesce(p, o)
    BY <2>4, CoalesceStep
  <2>5. CASE UNCHANGED vars
    BY <2>5 DEF vars, PagesInv
  <2> QED BY <2>1, <2>2, <2>3, <2>4, <2>5 DEF Next
<1>3. PagesInv => HeapInv
  BY PageForm
<1> QED BY <1>1, <1>2, <1>3, PTL DEF Spec

(***************************************************************************)
(* Headers lie inside their pages, no block is empty, and what callers     *)
(* hold are blocks: no split leaves a header outside its page or a tail    *)
(* without room for data.                                                  *)
(***************************************************************************)
THEOREM HeapTypes == Spec => []TypeOK
  BY HeapSafe, PTL DEF HeapInv

(***************************************************************************)
(* Memory handed to one caller never overlaps memory handed to another.    *)
(***************************************************************************)
THEOREM BlocksDisjoint == Spec => []Disjoint
  BY HeapSafe, PTL DEF HeapInv

(***************************************************************************)
(* The successor that unite() computes is always a header of the page or   *)
(* the page end.                                                           *)
(***************************************************************************)
THEOREM PagesTiled == Spec => []Tiled
  BY HeapSafe, PTL DEF HeapInv

(***************************************************************************)
(* A block somebody holds is neither swallowed nor resized by any          *)
(* operation on another block.                                             *)
(***************************************************************************)
THEOREM HeldBlocksFixed == Spec => HeldBlockFixed
<1> DEFINE Fixed == \A p \in Pages : \A o \in busy[p] :
                       o \in Blocks(p)' /\ (o \in busy[p]' => size[p]'[o] = size[p][o])
<1>1. PagesInv /\ [Next]_vars => [Fixed]_vars
  <2> SUFFICES ASSUME PagesInv, Next, NEW q \in Pages, NEW x \in busy[q]
               PROVE  x \in Blocks(q)' /\ (x \in busy[q]' => size[q]'[x] = size[q][x])
    BY DEF vars
  <2>0. x \in DOMAIN size[q] /\ DOMAIN size = Pages /\ DOMAIN busy = Pages
    BY DEF PagesInv
  <2>1. ASSUME NEW p \in Pages, Grow(p)
        PROVE  x \in Blocks(q)' /\ (x \in busy[q]' => size[q]'[x] = size[q][x])
    BY <2>0, <2>1 DEF Grow, Blocks
  <2>2. ASSUME NEW p \in Pages, NEW o \in Blocks(p), NEW n \in Requests,
               Alloc(p, o, Round4(n))
        PROVE  x \in Blocks(q)' /\ (x \in busy[q]' => size[q]'[x] = size[q][x])
    <3>1. n \in Nat \ {0}
      BY RequestAssumption
    <3>2. /\ DOMAIN size[p] \subseteq DOMAIN Carved(size[p], o, Round4(n))
          /\ \A y \in DOMAIN size[p] \ {o} : Carved(size[p], o, Round4(n))[y] = size[p][y]
      BY <2>2, <3>1, RoundUp, CarvedPage DEF PagesInv, Alloc, Blocks
    <3> QED BY <2>0, <2>2, <3>2 DEF Alloc, Blocks
  <2>3. ASSUME NEW p \in Pages, NEW o \in Blocks(p), o \notin busy[p]',
               Joinable(p, o),
               size' = [size EXCEPT ![p] = Joined(size[p], o, End(p, o))],
               busy[q]' \subseteq busy[q]
        PROVE  x \in Blocks(q)' /\ (x \in busy[q]' => size[q]'[x] = size[q][x])
    <3>1. EndIn(size[p], o) = End(p, o)
      BY DEF EndIn, End
    <3>2. End(p, o) < PAGE /\ End(p, o) \notin busy[p]
      BY <2>3 DEF Joinable
    <3>3. PageInv(size[p])
      BY DEF PagesInv
    <3>4. /\ DOMAIN Joined(size[p], o, EndIn(size[p], o)) = DOMAIN size[p] \ {EndIn(size[p], o)}
          /\ \A y \in DOMAIN size[p] \ {o, EndIn(size[p], o)} :
                Joined(size[p], o, EndIn(size[p], o))[y] = size[p][y]
      <4>1. o \in DOMAIN size[p] /\ EndIn(size[p], o) < PAGE
        BY <3>1, <3>2 DEF Blocks
      <4> QED BY <4>1, <3>3, JoinedPage
    <3> QED BY <3>1, <2>0, <2>3, <3>2, <3>4 DEF Blocks
  <2>4. ASSUME NEW p \in Pages, NEW o \in Blocks(p), Release(p, o)
        PROVE  x \in Blocks(q)' /\ (x \in busy[q]' => size[q]'[x] = size[q][x])
    <3>1. busy[q]' \subseteq busy[q] /\ o \notin busy[p]'
      BY <2>0, <2>4 DEF Release
    <3>2. CASE Joinable(p, o)
      BY <2>3, <2>4, <3>1, <3>2 DEF Release
    <3>3. CASE ~Joinable(p, o)
      BY <2>0, <2>4, <3>3 DEF Release, Blocks
    <3> QED BY <3>2, <3>3
  <2>5. ASSUME NEW p \in Pages, NEW o \in Blocks(p), Coalesce(p, o)
        PROVE  x \in Blocks(q)' /\ (x \in busy[q]' => size[q]'[x] = size[q][x])
    <3>1. busy[q]' \subseteq busy[q] /\ o \notin busy[p]'
      BY <2>0, <2>5 DEF Coalesce
    <3> QED BY <2>3, <2>5, <3>1 DEF Coalesce
  <2> QED BY <2>1, <2>2, <2>4, <2>5 DEF Next
<1>2. Spec => []PagesInv
  BY HeapSafe, PageForm, PTL
<1> QED BY <1>1, <1>2, PTL DEF Spec, HeldBlockFixed

=============================================================================
