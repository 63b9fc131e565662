----------------------------- MODULE CowProofs ------------------------------
(***************************************************************************)
(* Proofs about Cow, for every size of memory, of the tables and of the    *)
(* counts, and any number of address spaces.  The invariant is about all   *)
(* tables, also those no space reaches any more: as long as the counts     *)
(* suffice, none goes back to 0, so a frame is handed out once.            *)
(***************************************************************************)
EXTENDS Cow, Counting

Entry == {Absent} \cup [at : Frame, rw : BOOLEAN]
Index == 0 .. E - 1
Top   == KD * E .. KF - 1       \* the frames of the last identity table
Low   == K0 .. KD * E - 1       \* the kernel's frames before them
N     == Cardinality(DOMAIN dir)

\* Entry j of table t holds a page that was put there.
Put(t, j) == t \in DOMAIN tab /\ j \in Index /\ ~KernelEntry(t, j) /\ tab[t][j] # Absent

Shape ==
    /\ mmap \in [Frame -> 0 .. CW - 1]
    /\ DOMAIN dir \subseteq Frame /\ DOMAIN tab \subseteq Frame
    /\ dir \in [DOMAIN dir -> [Slots -> Entry]]
    /\ tab \in [DOMAIN tab -> [Index -> Entry]]
    /\ \A s \in DOMAIN dir : \A i \in Slots : dir[s][i] # Absent => dir[s][i].at \in DOMAIN tab
    /\ cr3 \in DOMAIN dir
    /\ wild \in BOOLEAN

\* A frame that ever became a directory, a table or a page keeps a count.
Held ==
    /\ \A s \in DOMAIN dir : mmap[s] > 0
    /\ \A t \in DOMAIN tab : mmap[t] > 0
    /\ \A t, j : Put(t, j) => mmap[tab[t][j].at] > 0

\* No count exceeds the number of spaces, but for a frame of the last identity
\* table that the first create_mm has counted twice.  These frames are taken
\* last, and create_mm counts them all.
Bound ==
    /\ \A f \in Frame : mmap[f] <= N \/ (N = 2 /\ f \in Top /\ InUse(f) /\ mmap[f] <= 3)
    /\ N >= 2 => \A f \in Top : mmap[f] > 0
    /\ \A f \in Top : InUse(f) => \A g \in Low : mmap[g] > 0

\* The identity entries stay in their table, which stays in its slot; a page is
\* no table, and stands in one table only, once.
Roles ==
    /\ KT \in DOMAIN tab
    /\ \A j \in Index : KernelEntry(KT, j) => tab[KT][j] # Absent /\ tab[KT][j].at = KD * E + j
    /\ \A s \in DOMAIN dir : \A i \in Slots : dir[s][i].at = KT => i = KD
    /\ \A t, j : Put(t, j) =>
          /\ tab[t][j].at \notin DOMAIN tab
          /\ \A u, k : Put(u, k) /\ tab[u][k].at = tab[t][j].at => u = t /\ k = j

\* A writable directory entry is the only one for its table, whose pages are
\* writable.
Owned ==
    \A s \in DOMAIN dir : \A i \in Slots : dir[s][i].rw =>
        /\ \A r \in DOMAIN dir : \A k \in Slots : dir[r][k].at = dir[s][i].at => r = s /\ k = i
        /\ \A j \in Index : tab[dir[s][i].at][j] # Absent => tab[dir[s][i].at][j].rw

Kept == Held /\ Bound /\ Roles /\ Owned

CowInv == Shape /\ (CountsSuffice => Kept)

-----------------------------------------------------------------------------
(***************************************************************************)
(* Slot KMEM>>22 and its table.                                            *)
(***************************************************************************)
LEMMA KernelSlot ==
  /\ KD \in Nat /\ KD * E \in Nat /\ KD * E <= KF /\ KD \in Slots /\ KT \in Frame /\ K0 \in Frame
  /\ Top \subseteq Frame /\ Low \subseteq Kernel /\ Kernel \subseteq Frame /\ User \subseteq Frame
  /\ Frame \subseteq Nat /\ IsFiniteSet(Frame)
<1>0. /\ E \in Nat /\ E > 0 /\ KF \in Nat /\ NF \in Nat /\ Q \in Nat /\ D \in Nat /\ K0 \in Nat
      /\ KT < KF /\ KF <= NF /\ KF <= Q * E /\ Q < D
  BY CowAssumption
<1>1. KD \in Nat /\ KF % E \in 0 .. E - 1 /\ KF = KD * E + (KF % E)
  BY <1>0, Division DEF KD
<1>2. KD < D
  <2>1. D * E >= (Q + 1) * E
    BY <1>0
  <2>2. KF < D * E
    BY <1>0, <2>1
  <2> QED BY <1>0, <2>2, Division DEF KD
<1> HIDE DEF KD
<1>3. KD * E \in Nat /\ KD * E <= KF
  BY <1>0, <1>1
<1>4. KD \in Slots
  BY <1>0, <1>1, <1>2 DEF Slots
<1>5. KT \in Frame /\ K0 \in Frame
  BY <1>0, <1>1 DEF KT, Frame
<1>6. Top \subseteq Frame /\ Low \subseteq Kernel /\ Kernel \subseteq Frame /\ User \subseteq Frame
  BY <1>0, <1>3 DEF Top, Low, Kernel, User, Frame
<1>7. Frame \subseteq Nat /\ IsFiniteSet(Frame)
  BY <1>0, FS_Interval DEF Frame
<1> QED BY <1>1, <1>3, <1>4, <1>5, <1>6, <1>7

(***************************************************************************)
(* What get_free_page and uget_free_page return is free, and it is one of  *)
(* the last identity table only if there is no other kernel frame.         *)
(***************************************************************************)
LEMMA FreeFrame ==
  ASSUME NEW c \in [Frame -> Nat], Free(c, Kernel) # {},
         NEW x \in {get_free_page(c), uget_free_page(c)}
  PROVE  x \in Frame /\ c[x] = 0 /\ (x \in Top => \A g \in Low : c[g] > 0)
<1>1. Free(c, Kernel) \in SUBSET Nat /\ Free(c, User) \in SUBSET Nat
  BY KernelSlot DEF Free
<1>2. /\ get_free_page(c) \in Free(c, Kernel)
      /\ \A g \in Free(c, Kernel) : get_free_page(c) <= g
  <2>1. \E m \in Free(c, Kernel) : \A g \in Free(c, Kernel) : m <= g
    BY <1>1, LeastNumber
  <2> QED BY <2>1 DEF get_free_page, Min
<1>3. uget_free_page(c) = get_free_page(c) \/ uget_free_page(c) \in Free(c, User)
  BY <1>1, MinIn DEF uget_free_page
<1>4. CASE x = get_free_page(c)
  <2>1. x \in Frame /\ c[x] = 0
    BY <1>2, <1>4, KernelSlot DEF Free
  <2>2. ASSUME x \in Top, NEW g \in Low PROVE c[g] > 0
    <3>1. g \in Kernel /\ g \in Frame /\ g < x /\ x \in Nat /\ g \in Nat
      BY <2>1, <2>2, KernelSlot DEF Top, Low
    <3>2. g \notin Free(c, Kernel)
      BY <1>2, <1>4, <3>1
    <3> QED BY <3>1, <3>2 DEF Free
  <2> QED BY <2>1, <2>2
<1>5. CASE x \in Free(c, User)
  <2>1. x \in User /\ c[x] = 0
    BY <1>5 DEF Free
  <2>2. x \notin Top
    BY <2>1, CowAssumption DEF User, Top
  <2> QED BY <2>1, <2>2, KernelSlot
<1> QED BY <1>3, <1>4, <1>5

(***************************************************************************)
(* With two free frames there is one besides any other.                    *)
(***************************************************************************)
LEMMA TwoFree ==
  ASSUME HasFree(2), NEW f
  PROVE  \E g \in Kernel : g # f /\ mmap[g] = 0
<1>1. SUFFICES ASSUME ~ \E g \in Kernel : g # f /\ mmap[g] = 0 PROVE FALSE
  OBVIOUS
<1>2. Free(mmap, Kernel) \subseteq {f}
  BY <1>1 DEF Free
<1>3. Cardinality(Free(mmap, Kernel)) \in {0, 1}
  BY <1>2, AtMostOne
<1> QED BY <1>3 DEF HasFree

LEMMA OneFree == ASSUME HasFree(1) PROVE Free(mmap, Kernel) # {}
<1>1. Cardinality({}) = 0
  BY FS_EmptySet
<1> QED BY <1>1 DEF HasFree

(***************************************************************************)
(* Slot and entry of a page lie in the directory and in the table, and     *)
(* name it; user pages are pages.                                          *)
(***************************************************************************)
LEMMA PageSlot ==
  ASSUME NEW v \in Pages
  PROVE  /\ v \div E \in Slots /\ v % E \in Index /\ v = (v \div E) * E + (v % E)
         /\ \A w \in Pages : w \div E = v \div E /\ w % E = v % E => w = v
<1>0. E \in Nat /\ E > 0 /\ KD \in Nat /\ D \in Nat /\ KD * E \in Nat
  BY CowAssumption, KernelSlot
<1> HIDE DEF KD
<1>1. ASSUME NEW w \in Pages
      PROVE  /\ w \div E \in Slots /\ w % E \in Index
             /\ w = (w \div E) * E + (w % E)
  <2>1. w \in Nat /\ ~(w < KD * E) /\ w < D * E
    BY <1>0 DEF Pages
  <2>2. /\ w \div E \in Nat /\ w % E \in 0 .. E - 1 /\ w = (w \div E) * E + (w % E)
        /\ ~(w \div E < KD) /\ w \div E < D
    BY <1>0, <2>1, Division
  <2> QED BY <1>0, <2>2 DEF Slots, Index
<1> QED BY <1>1

LEMMA UserIsPage == UserPages \subseteq Pages /\ Touched \subseteq Pages
<1>1. KD * E \in Nat /\ KD * E <= KF /\ KF \in Nat /\ D * E \in Nat
  BY CowAssumption, KernelSlot
<1> HIDE DEF KD
<1>2. UserPages \subseteq Pages
  BY <1>1 DEF UserPages, Pages
<1> QED BY <1>2, CowAssumption DEF Pages

(***************************************************************************)
(* The address spaces can be counted.                                      *)
(***************************************************************************)
LEMMA SpacesCounted ==
  ASSUME Shape
  PROVE  IsFiniteSet(DOMAIN dir) /\ N \in Nat /\ N >= 1
<1>1. DOMAIN dir \subseteq Frame /\ cr3 \in DOMAIN dir
  BY DEF Shape
<1>2. IsFiniteSet(DOMAIN dir)
  BY <1>1, KernelSlot, FS_Subset
<1>3. N \in Nat /\ N # 0
  BY <1>1, <1>2, FS_CardinalityType, FS_EmptySet DEF N
<1> QED BY <1>2, <1>3

(***************************************************************************)
(* What is in use is a directory, a table or a page that was put into one. *)
(***************************************************************************)
LEMMA UsedAs ==
  ASSUME NEW f \in Frame
  PROVE  InUse(f) <=> \/ f \in DOMAIN dir \/ f \in DOMAIN tab
                      \/ \E t, j : Put(t, j) /\ tab[t][j].at = f
<1>1. f # Absent.at
  BY DEF Absent, Frame
<1> QED BY <1>1 DEF InUse, Put, Index

LEMMA UsedAsNext ==
  ASSUME NEW f \in Frame
  PROVE  InUse(f)' <=> \/ f \in DOMAIN dir' \/ f \in DOMAIN tab'
                       \/ \E t, j : Put(t, j)' /\ tab'[t][j].at = f
<1>1. f # Absent.at
  BY DEF Absent, Frame
<1> QED BY <1>1 DEF InUse, Put, Index

LEMMA UsedIsHeld == ASSUME Held, NEW f \in Frame, InUse(f) PROVE mmap[f] > 0
  BY UsedAs DEF Held

\* The counts c are at least as safe as mmap: what was held is held, and no
\* count has grown above 1.
Keeps(c) ==
    /\ c \in [Frame -> 0 .. CW - 1]
    /\ \A g \in Frame : mmap[g] > 0 => c[g] > 0
    /\ \A g \in Frame : c[g] <= mmap[g] \/ c[g] <= 1

(***************************************************************************)
(* A count set to 1, or one above 1 lowered, keeps what is held.           *)
(***************************************************************************)
LEMMA TakenKeeps ==
  ASSUME Shape, NEW c, Keeps(c), NEW f \in Frame
  PROVE  Keeps(Taken(c, f)) /\ Taken(c, f)[f] = 1 /\ \A g \in Frame : g # f => Taken(c, f)[g] = c[g]
<1>1. 1 \in 0 .. CW - 1
  BY CowAssumption
<1> QED BY <1>1 DEF Keeps, Taken

LEMMA LoweredKeeps ==
  ASSUME Shape, NEW c, Keeps(c), NEW f \in Frame, Shared(c, f)
  PROVE  /\ Keeps([c EXCEPT ![f] = @ - 1])
         /\ \A g \in Frame : [c EXCEPT ![f] = @ - 1][g] = 0 <=> c[g] = 0
<1>1. /\ c \in [Frame -> 0 .. CW - 1] /\ c[f] > 1 /\ CW \in Nat
      /\ \A g \in Frame : mmap[g] \in Nat
  BY CowAssumption DEF Shape, Keeps, Shared
<1> QED BY <1>1 DEF Keeps

LEMMA MmapKeeps == ASSUME Shape PROVE Keeps(mmap) /\ mmap \in [Frame -> Nat]
<1>1. mmap \in [Frame -> 0 .. CW - 1] /\ CW \in Nat
  BY CowAssumption DEF Shape
<1> QED BY <1>1 DEF Keeps

(***************************************************************************)
(* If frames are put to use in the order of the scan, and the counts keep  *)
(* what is held, the bound on the counts stays.                            *)
(***************************************************************************)
LEMMA BoundStep ==
  ASSUME Shape, Held, Bound, Keeps(mmap'), DOMAIN dir' = DOMAIN dir,
         \A f \in Frame : InUse(f) => InUse(f)',
         \A f \in Top : InUse(f)' => InUse(f) \/ \A g \in Low : mmap'[g] > 0
  PROVE  Bound'
<1>1. N' = N /\ N \in Nat /\ N >= 1
  BY SpacesCounted DEF N
<1>2. /\ mmap' \in [Frame -> 0 .. CW - 1] /\ mmap \in [Frame -> 0 .. CW - 1] /\ CW \in Nat
      /\ \A g \in Frame : mmap[g] > 0 => mmap'[g] > 0
      /\ \A g \in Frame : mmap'[g] <= mmap[g] \/ mmap'[g] <= 1
  BY CowAssumption DEF Keeps, Shape
<1>3. Top \subseteq Frame /\ Low \subseteq Frame
  BY KernelSlot
<1>4. ASSUME NEW f \in Frame
      PROVE  mmap'[f] <= N' \/ (N' = 2 /\ f \in Top /\ InUse(f)' /\ mmap'[f] <= 3)
  <2>1. mmap[f] \in Nat /\ mmap'[f] \in Nat
    BY <1>2
  <2>2. CASE mmap[f] <= N
    BY <1>1, <1>2, <2>1, <2>2
  <2>3. CASE N = 2 /\ f \in Top /\ InUse(f) /\ mmap[f] <= 3
    BY <1>1, <1>2, <2>1, <2>3
  <2> QED BY <2>2, <2>3 DEF Bound
<1>5. N' >= 2 => \A f \in Top : mmap'[f] > 0
  BY <1>1, <1>2, <1>3 DEF Bound
<1>6. \A f \in Top : InUse(f)' => \A g \in Low : mmap'[g] > 0
  BY <1>2, <1>3 DEF Bound
<1> QED BY <1>4, <1>5, <1>6 DEF Bound

-----------------------------------------------------------------------------
\* A table with at most one page, f in entry j.
OnePage(entries, f, j) ==
    /\ entries \in [Index -> Entry]
    /\ \A k \in Index : entries[k] # Absent => k = j /\ entries[k] = [at |-> f, rw |-> TRUE]

\* Frame t, holding the given entries, becomes the table of slot i.
TableAdded(i, t, entries) ==
    /\ dir' = [dir EXCEPT ![cr3][i] = [at |-> t, rw |-> TRUE]]
    /\ tab' = With(tab, t, entries) /\ cr3' = cr3 /\ wild' \in BOOLEAN

\* Frame x is used in the order of the scan.
InOrder(x) == x \in Top => \A g \in Low : mmap'[g] > 0

\* What adding a table comes to, entry by entry.
DirsAfter(i, t) ==
    /\ DOMAIN dir' = DOMAIN dir /\ dir' \in [DOMAIN dir -> [Slots -> Entry]]
    /\ dir'[cr3][i] = [at |-> t, rw |-> TRUE]
    /\ \A s \in DOMAIN dir : \A k \in Slots : ~(s = cr3 /\ k = i) => dir'[s][k] = dir[s][k]

TabsAfter(t, entries) ==
    /\ DOMAIN tab' = DOMAIN tab \cup {t} /\ tab' \in [DOMAIN tab \cup {t} -> [Index -> Entry]]
    /\ tab'[t] = entries /\ \A u \in DOMAIN tab : u # t => tab'[u] = tab[u]

LEMMA TableEntries ==
  ASSUME Shape, NEW i \in Slots, NEW t \in Frame, NEW entries \in [Index -> Entry],
         TableAdded(i, t, entries)
  PROVE  DirsAfter(i, t) /\ TabsAfter(t, entries)
<1> DEFINE new == [at |-> t, rw |-> TRUE]
           row == [dir[cr3] EXCEPT ![i] = new]
<1>0. new \in Entry
  BY DEF Entry
<1>1. /\ dir \in [DOMAIN dir -> [Slots -> Entry]] /\ cr3 \in DOMAIN dir
      /\ tab \in [DOMAIN tab -> [Index -> Entry]]
  BY DEF Shape
<1>2. dir' = [dir EXCEPT ![cr3] = row] /\ dir[cr3] \in [Slots -> Entry]
  BY <1>1 DEF TableAdded
<1>3. row[i] = new
  BY <1>2
<1> HIDE DEF new
<1>4. row \in [Slots -> Entry] /\ \A k \in Slots : k # i => row[k] = dir[cr3][k]
  BY <1>0, <1>2
<1> HIDE DEF row
<1>5. /\ DOMAIN dir' = DOMAIN dir /\ dir' \in [DOMAIN dir -> [Slots -> Entry]]
      /\ dir'[cr3] = row /\ \A s \in DOMAIN dir : s # cr3 => dir'[s] = dir[s]
  BY <1>1, <1>2, <1>4
<1>6. DirsAfter(i, t)
  BY <1>3, <1>4, <1>5 DEF DirsAfter, new
<1>7. TabsAfter(t, entries)
  BY <1>1 DEF TableAdded, With, TabsAfter
<1> QED BY <1>6, <1>7

(***************************************************************************)
(* A new table for slot i of the current space, with at most one new page: *)
(* what do_no_page, put_page and do_wp_page come to.  First the shape,     *)
(* whatever the frame was.                                                 *)
(***************************************************************************)
LEMMA TableShape ==
  ASSUME Shape, NEW i \in Slots, NEW t \in Frame, NEW entries \in [Index -> Entry],
         TableAdded(i, t, entries), mmap' \in [Frame -> 0 .. CW - 1]
  PROVE  Shape'
<1>1. DirsAfter(i, t) /\ TabsAfter(t, entries)
  BY TableEntries
<1>2. [at |-> t, rw |-> TRUE].at = t
  OBVIOUS
<1>3. ASSUME NEW s \in DOMAIN dir, NEW k \in Slots, dir'[s][k] # Absent
      PROVE  dir'[s][k].at \in DOMAIN tab'
  <2>1. CASE s = cr3 /\ k = i
    BY <1>1, <1>2, <2>1 DEF DirsAfter, TabsAfter
  <2>2. CASE ~(s = cr3 /\ k = i)
    BY <1>1, <1>3, <2>2 DEF DirsAfter, TabsAfter, Shape
  <2> QED BY <2>1, <2>2
<1> QED BY <1>1, <1>3 DEF Shape, DirsAfter, TabsAfter, TableAdded

(***************************************************************************)
(* Then, with frames that were free, all the rest.                         *)
(***************************************************************************)
LEMMA TableKept ==
  ASSUME Shape, Kept, NEW i \in Slots, NEW t \in Frame, NEW f \in Frame, t # f,
         mmap[t] = 0, mmap[f] = 0,
         NEW entries, NEW j, OnePage(entries, f, j), TableAdded(i, t, entries),
         Keeps(mmap'), mmap'[t] > 0, InOrder(t),
         entries = Empty \/ (mmap'[f] > 0 /\ InOrder(f))
  PROVE  Kept'
<1>1. DirsAfter(i, t) /\ TabsAfter(t, entries)
  BY TableEntries DEF OnePage
<1>2. Held /\ Bound /\ Roles /\ Owned
  BY DEF Kept
<1>3. t \notin DOMAIN tab /\ t \notin DOMAIN dir /\ f \notin DOMAIN tab /\ t # KT
  BY <1>2 DEF Held, Roles
<1>4. ASSUME NEW k \in Index, entries[k] # Absent
      PROVE  /\ k = j /\ entries[k].at = f /\ entries[k].rw
             /\ mmap'[f] > 0 /\ InOrder(f)
  <2>1. entries # Empty
    BY <1>4 DEF Empty, Index
  <2> QED BY <1>4, <2>1 DEF OnePage
<1>5. ASSUME NEW u, NEW k, Put(u, k)
      PROVE  tab[u][k].at \in Frame /\ mmap[tab[u][k].at] > 0 /\ tab[u][k].at # t /\ tab[u][k].at # f
  <2>1. \A e \in Entry : e # Absent => e.at \in Frame
    BY DEF Entry
  <2>2. tab[u][k] \in Entry /\ tab[u][k] # Absent
    BY <1>5 DEF Shape, Put
  <2> QED BY <1>2, <1>5, <2>1, <2>2 DEF Held
<1>6. ASSUME NEW u, NEW k
      PROVE  Put(u, k)' <=> \/ u # t /\ Put(u, k)
                            \/ u = t /\ k \in Index /\ entries[k] # Absent
  <2>1. ~KernelEntry(t, k)
    BY <1>3 DEF KernelEntry
  <2>2. DOMAIN tab' = DOMAIN tab \cup {t} /\ tab'[t] = entries /\ \A x \in DOMAIN tab : tab'[x] = tab[x]
    BY <1>1, <1>3 DEF TabsAfter
  <2>3. CASE u = t
    BY <2>1, <2>2, <2>3 DEF Put, KernelEntry
  <2>4. CASE u # t
    BY <2>2, <2>4 DEF Put, KernelEntry
  <2> QED BY <2>3, <2>4
<1>7. ASSUME NEW u, NEW k, Put(u, k)'
      PROVE  \/ u # t /\ Put(u, k) /\ tab'[u][k] = tab[u][k]
             \/ u = t /\ k = j /\ tab'[u][k].at = f /\ mmap'[f] > 0 /\ InOrder(f)
  <2>1. CASE u # t
    BY <1>1, <1>6, <1>7, <2>1 DEF TabsAfter, Put
  <2>2. CASE u = t
    <3>1. k \in Index /\ entries[k] # Absent
      BY <1>6, <1>7, <2>2
    <3>2. tab'[u][k] = entries[k]
      BY <1>1, <2>2 DEF TabsAfter
    <3> QED BY <1>4, <2>2, <3>1, <3>2
  <2> QED BY <2>1, <2>2
<1>8. Held'
  <2>1. \A g \in Frame : mmap[g] > 0 => mmap'[g] > 0
    BY DEF Keeps
  <2>2. \A u, k : Put(u, k)' => mmap'[tab'[u][k].at] > 0
    BY <1>5, <1>7, <2>1
  <2>3. \A s \in DOMAIN dir' : mmap'[s] > 0
    BY <1>1, <1>2, <2>1 DEF Held, DirsAfter, Shape
  <2>4. \A u \in DOMAIN tab' : mmap'[u] > 0
    BY <1>1, <1>2, <2>1 DEF Held, TabsAfter, Shape
  <2> QED BY <2>2, <2>3, <2>4 DEF Held
<1>9. Bound'
  <2>1. DOMAIN dir' = DOMAIN dir /\ DOMAIN tab' = DOMAIN tab \cup {t}
    BY <1>1 DEF DirsAfter, TabsAfter
  <2>2. ASSUME NEW g \in Frame, InUse(g) PROVE InUse(g)'
    <3>1. CASE g \in DOMAIN dir \/ g \in DOMAIN tab
      BY <2>1, <3>1, UsedAsNext
    <3>2. CASE \E u, k : Put(u, k) /\ tab[u][k].at = g
      <4>1. PICK u, k : Put(u, k) /\ tab[u][k].at = g
        BY <3>2
      <4>2. u # t /\ u \in DOMAIN tab
        BY <1>3, <4>1 DEF Put
      <4>3. Put(u, k)' /\ tab'[u] = tab[u]
        BY <1>1, <1>6, <4>1, <4>2 DEF TabsAfter
      <4> QED BY <4>1, <4>3, UsedAsNext
    <3> QED BY <2>2, <3>1, <3>2, UsedAs
  <2>3. ASSUME NEW g \in Top, InUse(g)' PROVE InUse(g) \/ \A h \in Low : mmap'[h] > 0
    <3>0. g \in Frame
      BY KernelSlot
    <3>1. CASE g \in DOMAIN dir' \/ g \in DOMAIN tab'
      BY <2>1, <3>0, <3>1, UsedAs DEF InOrder
    <3>2. CASE \E u, k : Put(u, k)' /\ tab'[u][k].at = g
      <4>1. PICK u, k : Put(u, k)' /\ tab'[u][k].at = g
        BY <3>2
      <4>2. CASE Put(u, k) /\ tab'[u][k] = tab[u][k]
        BY <3>0, <4>1, <4>2, UsedAs
      <4>3. CASE tab'[u][k].at = f /\ InOrder(f)
        BY <4>1, <4>3 DEF InOrder
      <4> QED BY <1>7, <4>1, <4>2, <4>3
    <3> QED BY <2>3, <3>0, <3>1, <3>2, UsedAsNext
  <2> QED BY <1>2, <2>1, <2>2, <2>3, BoundStep
<1>10. Roles'
  <2>1. KT \in DOMAIN tab' /\ tab'[KT] = tab[KT]
    BY <1>1, <1>2, <1>3 DEF Roles, TabsAfter
  <2>2. \A s \in DOMAIN dir' : \A k \in Slots : dir'[s][k].at = KT => k = KD
    <3>1. [at |-> t, rw |-> TRUE].at = t
      OBVIOUS
    <3>2. ASSUME NEW s \in DOMAIN dir, NEW k \in Slots, dir'[s][k].at = KT PROVE k = KD
      <4>1. ~(s = cr3 /\ k = i)
        BY <1>1, <1>3, <3>1, <3>2 DEF DirsAfter
      <4> QED BY <1>1, <1>2, <3>2, <4>1 DEF DirsAfter, Roles
    <3> QED BY <1>1, <3>2 DEF DirsAfter
  <2>3. ASSUME NEW u, NEW k, Put(u, k)'
        PROVE  tab'[u][k].at \notin DOMAIN tab'
    BY <1>1, <1>2, <1>3, <1>5, <1>7, <2>3 DEF Roles, TabsAfter
  <2>4. ASSUME NEW u, NEW k, Put(u, k)', NEW w, NEW m, Put(w, m)', tab'[w][m].at = tab'[u][k].at
        PROVE  w = u /\ m = k
    BY <1>2, <1>5, <1>7, <2>4 DEF Roles
  <2> QED BY <1>2, <2>1, <2>2, <2>3, <2>4 DEF Roles
<1>11. Owned'
  <2>0. [at |-> t, rw |-> TRUE].at = t
    OBVIOUS
  <2>1. ASSUME NEW s \in DOMAIN dir, NEW k \in Slots, ~(s = cr3 /\ k = i)
        PROVE  dir'[s][k] = dir[s][k] /\ dir[s][k].at # t
    <3>1. dir[s][k] = Absent => dir[s][k].at = -1
      BY DEF Absent
    <3>2. dir[s][k] # Absent => dir[s][k].at \in DOMAIN tab
      BY DEF Shape
    <3> QED BY <1>1, <1>3, <2>1, <3>1, <3>2 DEF DirsAfter, Frame
  <2>2. ASSUME NEW s \in DOMAIN dir, NEW k \in Slots, dir'[s][k].rw
        PROVE  /\ \A r \in DOMAIN dir : \A m \in Slots : dir'[r][m].at = dir'[s][k].at => r = s /\ m = k
               /\ \A m \in Index : tab'[dir'[s][k].at][m] # Absent => tab'[dir'[s][k].at][m].rw
    <3>1. CASE s = cr3 /\ k = i
      <4>1. dir'[s][k].at = t /\ tab'[t] = entries
        BY <1>1, <2>0, <3>1 DEF DirsAfter, TabsAfter
      <4> QED BY <1>4, <2>1, <3>1, <4>1
    <3>2. CASE ~(s = cr3 /\ k = i)
      <4>1. dir'[s][k] = dir[s][k] /\ dir[s][k].rw /\ dir[s][k].at # t
        BY <2>1, <2>2, <3>2
      <4>2. dir[s][k] # Absent
        BY <4>1 DEF Absent
      <4>3. tab'[dir[s][k].at] = tab[dir[s][k].at]
        BY <1>1, <4>1, <4>2 DEF Shape, TabsAfter
      <4>4. \A r \in DOMAIN dir : \A m \in Slots : dir'[r][m].at = dir[s][k].at => dir[r][m].at = dir[s][k].at
        BY <1>1, <2>0, <2>1, <4>1 DEF DirsAfter
      <4> QED BY <1>2, <4>1, <4>3, <4>4 DEF Owned
    <3> QED BY <3>1, <3>2
  <2> QED BY <1>1, <2>2 DEF Owned, DirsAfter
<1> QED BY <1>8, <1>9, <1>10, <1>11 DEF Kept

-----------------------------------------------------------------------------
(***************************************************************************)
(* The frame do_no_page takes, and a second one for the page table.        *)
(***************************************************************************)
LEMMA PageFrame ==
  ASSUME Shape, HasFree(1), NEW f, f = uget_free_page(mmap)
  PROVE  /\ f \in Frame /\ mmap[f] = 0 /\ Keeps(Taken(mmap, f)) /\ Taken(mmap, f)[f] = 1
         /\ \A g \in Frame : g # f => Taken(mmap, f)[g] = mmap[g]
         /\ f \in Top => \A g \in Low : mmap[g] > 0
<1>1. Free(mmap, Kernel) # {} /\ mmap \in [Frame -> Nat]
  BY OneFree, MmapKeeps
<1>2. f \in Frame /\ mmap[f] = 0 /\ (f \in Top => \A g \in Low : mmap[g] > 0)
  BY <1>1, FreeFrame
<1> QED BY <1>2, MmapKeeps, TakenKeeps

LEMMA TwoIsOne == ASSUME HasFree(2) PROVE HasFree(1)
<1>1. Free(mmap, Kernel) \subseteq Frame
  BY KernelSlot DEF Free
<1>2. Cardinality(Free(mmap, Kernel)) \in Nat
  BY <1>1, KernelSlot, FS_Subset, FS_CardinalityType
<1> QED BY <1>2 DEF HasFree

\* Page f is put into entry j of table w.
PagePut(w, j, f) ==
    /\ DOMAIN tab' = DOMAIN tab /\ tab' \in [DOMAIN tab -> [Index -> Entry]]
    /\ tab'[w][j] = [at |-> f, rw |-> TRUE]
    /\ \A u \in DOMAIN tab : \A k \in Index : ~(u = w /\ k = j) => tab'[u][k] = tab[u][k]

(***************************************************************************)
(* A page that is put into an empty entry of a table keeps the rest.       *)
(***************************************************************************)
LEMMA PageKept ==
  ASSUME Shape, Kept, NEW w \in DOMAIN tab, NEW j \in Index, tab[w][j] = Absent,
         NEW f \in Frame, mmap[f] = 0, PagePut(w, j, f), UNCHANGED <<dir, cr3>>,
         Keeps(mmap'), mmap'[f] > 0, InOrder(f)
  PROVE  Kept'
<1> DEFINE pg == [at |-> f, rw |-> TRUE]
<1>0. pg # Absent /\ pg.at = f /\ pg.rw
  BY DEF Absent, Frame
<1>1. /\ DOMAIN tab' = DOMAIN tab /\ tab' \in [DOMAIN tab -> [Index -> Entry]]
      /\ tab'[w][j] = pg
      /\ \A u \in DOMAIN tab : \A k \in Index : ~(u = w /\ k = j) => tab'[u][k] = tab[u][k]
  BY DEF PagePut
<1> HIDE DEF pg
<1>2. /\ Held /\ Bound /\ Roles /\ Owned /\ dir' = dir
      /\ tab \in [DOMAIN tab -> [Index -> Entry]] /\ DOMAIN tab \subseteq Frame /\ DOMAIN dir \subseteq Frame
  BY DEF Kept, Shape
<1>3. ~KernelEntry(w, j) /\ f \notin DOMAIN tab
  <2>1. KernelEntry(w, j) => w = KT
    BY DEF KernelEntry
  <2> QED BY <1>2, <2>1 DEF Roles, Held
<1>4. ASSUME NEW u, NEW k, Put(u, k)
      PROVE  /\ tab[u][k].at \in Frame /\ mmap[tab[u][k].at] > 0 /\ tab[u][k].at # f
             /\ Put(u, k)' /\ tab'[u][k] = tab[u][k]
  <2>1. \A e \in Entry : e # Absent => e.at \in Frame
    BY DEF Entry
  <2>2. u \in DOMAIN tab /\ k \in Index /\ ~KernelEntry(u, k) /\ tab[u][k] # Absent
    BY <1>4 DEF Put
  <2>3. tab[u][k].at \in Frame /\ mmap[tab[u][k].at] > 0
    BY <1>2, <1>4, <2>1, <2>2 DEF Held
  <2>4. tab'[u][k] = tab[u][k]
    BY <1>1, <2>2
  <2>5. Put(u, k)'
    BY <1>1, <2>2, <2>4 DEF Put, KernelEntry
  <2> QED BY <2>3, <2>4, <2>5
<1>5. ASSUME NEW u, NEW k, Put(u, k)'
      PROVE  \/ Put(u, k) /\ tab'[u][k] = tab[u][k]
             \/ u = w /\ k = j /\ tab'[u][k].at = f
  <2>1. u \in DOMAIN tab' /\ k \in Index /\ ~KernelEntry(u, k) /\ tab'[u][k] # Absent
    BY <1>5 DEF Put, KernelEntry
  <2>2. CASE u = w /\ k = j
    BY <1>0, <1>1, <2>2
  <2>3. CASE ~(u = w /\ k = j)
    BY <1>1, <2>1, <2>3 DEF Put
  <2> QED BY <2>2, <2>3
<1>6. Put(w, j)'
  BY <1>0, <1>1, <1>3 DEF Put, KernelEntry
<1>7. Held'
  <2>1. \A g \in Frame : mmap[g] > 0 => mmap'[g] > 0
    BY DEF Keeps
  <2>2. \A u, k : Put(u, k)' => mmap'[tab'[u][k].at] > 0
    BY <1>4, <1>5, <2>1
  <2>3. (\A s \in DOMAIN dir' : mmap'[s] > 0) /\ (\A u \in DOMAIN tab' : mmap'[u] > 0)
    BY <1>1, <1>2, <2>1 DEF Held
  <2> QED BY <2>2, <2>3 DEF Held
<1>8. Bound'
  <2>1. ASSUME NEW g \in Frame, InUse(g) PROVE InUse(g)'
    <3>1. CASE g \in DOMAIN dir \/ g \in DOMAIN tab
      BY <1>1, <1>2, <3>1, UsedAsNext
    <3>2. CASE \E u, k : Put(u, k) /\ tab[u][k].at = g
      BY <1>4, <3>2, UsedAsNext
    <3> QED BY <2>1, <3>1, <3>2, UsedAs
  <2>2. ASSUME NEW g \in Top, InUse(g)' PROVE InUse(g) \/ \A h \in Low : mmap'[h] > 0
    <3>0. g \in Frame
      BY KernelSlot
    <3>1. CASE g \in DOMAIN dir' \/ g \in DOMAIN tab'
      BY <1>1, <1>2, <3>0, <3>1, UsedAs
    <3>2. CASE \E u, k : Put(u, k)' /\ tab'[u][k].at = g
      <4>1. PICK u, k : Put(u, k)' /\ tab'[u][k].at = g
        BY <3>2
      <4>2. CASE Put(u, k) /\ tab'[u][k] = tab[u][k]
        BY <3>0, <4>1, <4>2, UsedAs
      <4>3. CASE tab'[u][k].at = f
        BY <4>1, <4>3 DEF InOrder
      <4> QED BY <1>5, <4>1, <4>2, <4>3
    <3> QED BY <2>2, <3>0, <3>1, <3>2, UsedAsNext
  <2> QED BY <1>2, <2>1, <2>2, BoundStep
<1>9. Roles'
  <2>1. KT \in DOMAIN tab' /\ \A k \in Index : KernelEntry(KT, k) => tab'[KT][k] = tab[KT][k]
    BY <1>1, <1>2, <1>3 DEF Roles
  <2>2. \A u, k : Put(u, k)' => tab'[u][k].at \notin DOMAIN tab'
    BY <1>1, <1>2, <1>3, <1>5 DEF Roles
  <2>3. ASSUME NEW u, NEW k, Put(u, k)', NEW x, NEW m, Put(x, m)', tab'[x][m].at = tab'[u][k].at
        PROVE  x = u /\ m = k
    BY <1>2, <1>4, <1>5, <2>3 DEF Roles
  <2> QED BY <1>2, <2>1, <2>2, <2>3 DEF Roles
<1>10. Owned'
  <2>1. \A s \in DOMAIN dir : \A k \in Slots : dir[s][k].rw => dir[s][k].at \in DOMAIN tab
    BY DEF Shape, Absent
  <2> QED BY <1>0, <1>1, <1>2, <2>1 DEF Owned
<1> QED BY <1>7, <1>8, <1>9, <1>10 DEF Kept

(***************************************************************************)
(* do_no_page with a page table.                                           *)
(***************************************************************************)
LEMMA NoPageStep == ASSUME CowInv, NEW v \in Touched, NoPage(v) PROVE CowInv'
<1> DEFINE f == uget_free_page(mmap)
           w == Pde(cr3, v).at
           j == v % E
           pg == [at |-> f, rw |-> TRUE]
<1>0. v \in Pages /\ v \div E \in Slots /\ j \in Index
  BY UserIsPage, PageSlot
<1>1. /\ Pte(cr3, v) = Absent /\ Pde(cr3, v) # Absent /\ HasFree(1)
      /\ mmap' = Taken(mmap, f) /\ tab' = [tab EXCEPT ![w][j] = pg]
      /\ dir' = dir /\ cr3' = cr3 /\ wild' = InUse(f)
  BY DEF NoPage
<1>2. Shape /\ tab \in [DOMAIN tab -> [Index -> Entry]]
  BY DEF CowInv, Shape
<1>3. w \in DOMAIN tab /\ tab[w][j] = Absent
  BY <1>0, <1>1, <1>2 DEF Shape, Pde, Pte
<1>4. /\ f \in Frame /\ mmap[f] = 0 /\ Keeps(mmap') /\ mmap'[f] = 1
      /\ \A g \in Frame : g # f => mmap'[g] = mmap[g]
      /\ f \in Top => \A g \in Low : mmap[g] > 0
  BY <1>1, <1>2, PageFrame
<1>5. wild' \in BOOLEAN
  BY <1>1, Zenon DEF InUse
<1> HIDE DEF f, w, j
<1>6. PagePut(w, j, f)
  <2> DEFINE row == [tab[w] EXCEPT ![j] = pg]
  <2>0. pg \in Entry
    BY <1>4 DEF Entry
  <2>1. tab' = [tab EXCEPT ![w] = row] /\ tab[w] \in [Index -> Entry]
    BY <1>1, <1>2, <1>3
  <2> HIDE DEF pg
  <2>2. row \in [Index -> Entry] /\ row[j] = pg /\ \A k \in Index : k # j => row[k] = tab[w][k]
    BY <1>0, <2>0, <2>1
  <2> HIDE DEF row
  <2>3. DOMAIN tab' = DOMAIN tab /\ tab' \in [DOMAIN tab -> [Index -> Entry]]
    BY <1>2, <1>3, <2>1, <2>2
  <2>4. tab'[w] = row /\ \A u \in DOMAIN tab : u # w => tab'[u] = tab[u]
    BY <1>2, <1>3, <2>1
  <2> QED BY <2>2, <2>3, <2>4 DEF PagePut, pg
<1>7. Shape'
  BY <1>1, <1>2, <1>4, <1>5, <1>6 DEF Shape, Keeps, PagePut
<1>8. InOrder(f)
  <2>1. Low \subseteq Frame /\ mmap \in [Frame -> Nat]
    BY <1>2, KernelSlot, MmapKeeps
  <2> QED BY <1>4, <2>1 DEF InOrder, Keeps
<1>9. CountsSuffice' => CountsSuffice
  BY <1>1 DEF CountsSuffice
<1>10. Kept => Kept'
  BY <1>0, <1>1, <1>2, <1>3, <1>4, <1>6, <1>8, PageKept
<1> QED BY <1>7, <1>9, <1>10 DEF CowInv

(***************************************************************************)
(* do_no_page without a page table.                                        *)
(***************************************************************************)
LEMMA NoTableStep ==
  ASSUME CowInv, NEW v \in Touched, NEW zero \in BOOLEAN, NoTable(v, zero) PROVE CowInv'
<1> DEFINE f == uget_free_page(mmap)
           c == Taken(mmap, f)
           t == get_free_page(c)
           pg == [at |-> f, rw |-> TRUE]
           i == v \div E
           j == v % E
           entries == [Empty EXCEPT ![j] = pg]
<1>0. v \in Pages /\ i \in Slots /\ j \in Index
  BY UserIsPage, PageSlot
<1>1. /\ HasFree(2) /\ mmap' = Taken(c, t) /\ cr3' = cr3
      /\ dir' = [dir EXCEPT ![cr3][i] = [at |-> t, rw |-> TRUE]]
      /\ tab' = With(tab, t, entries)
      /\ wild' = (~zero \/ InUse(f) \/ InUse(t))
  BY DEF NoTable
<1>2. wild' \in BOOLEAN
  BY <1>1, Zenon
<1>3. Shape
  BY DEF CowInv
<1>4. /\ f \in Frame /\ mmap[f] = 0 /\ Keeps(c) /\ c[f] = 1
      /\ \A g \in Frame : g # f => c[g] = mmap[g]
      /\ f \in Top => \A g \in Low : mmap[g] > 0
  BY <1>1, <1>3, PageFrame, TwoIsOne
<1> HIDE DEF f
<1>5. /\ t \in Frame /\ t # f /\ mmap[t] = 0
      /\ t \in Top => \A g \in Low : c[g] > 0
  <2>1. PICK g \in Kernel : g # f /\ mmap[g] = 0
    BY <1>1, TwoFree
  <2>2. Free(c, Kernel) # {} /\ c \in [Frame -> Nat]
    BY <1>4, <2>1, KernelSlot, CowAssumption DEF Free, Keeps
  <2>3. t \in Frame /\ c[t] = 0 /\ (t \in Top => \A h \in Low : c[h] > 0)
    BY <2>2, FreeFrame
  <2> QED BY <1>4, <2>3
<1>6. OnePage(entries, f, j)
  <2>1. pg \in Entry
    BY <1>4 DEF Entry
  <2> QED BY <1>0, <2>1 DEF OnePage, Empty, Entry, Index
<1> HIDE DEF c, t, pg, i, j, entries
<1>7. /\ Keeps(mmap') /\ mmap'[t] = 1 /\ mmap'[f] = 1
      /\ \A g \in Frame : g # t => mmap'[g] = c[g]
  BY <1>1, <1>3, <1>4, <1>5, TakenKeeps
<1>8. InOrder(f) /\ InOrder(t)
  <2>1. Low \subseteq Frame
    BY KernelSlot
  <2>2. \A g \in Low : mmap[g] > 0 \/ c[g] > 0 => mmap'[g] > 0
    BY <1>7, <2>1 DEF Keeps
  <2> QED BY <1>4, <1>5, <2>2 DEF InOrder
<1>9. TableAdded(i, t, entries)
  BY <1>1, <1>2 DEF TableAdded
<1>10. Shape'
  BY <1>0, <1>3, <1>5, <1>6, <1>7, <1>9, TableShape DEF OnePage, Keeps
<1>11. DOMAIN dir' = DOMAIN dir
  BY <1>0, <1>3, <1>5, <1>6, <1>9, TableEntries DEF OnePage, DirsAfter
<1>12. CountsSuffice' => CountsSuffice
  BY <1>11 DEF CountsSuffice
<1>13. Kept => Kept'
  BY <1>0, <1>3, <1>4, <1>5, <1>6, <1>7, <1>8, <1>9, TableKept
<1> QED BY <1>10, <1>12, <1>13 DEF CowInv

(***************************************************************************)
(* do_wp_page: un_wpte_page and un_wp_page.                                *)
(***************************************************************************)
LEMMA WpPageStep ==
  ASSUME CowInv, NEW v \in Touched, NEW g \in Frame \cup {NoRam}, NEW zero \in BOOLEAN,
         do_wp_page(v, g, zero)
  PROVE  CowInv'
<1> DEFINE w == Pde(cr3, v).at
           c0 == [mmap EXCEPT ![w] = @ - 1]
           t == get_free_page(c0)
           c1 == Taken(c0, t)
           ok == g = NoRam \/ Shared(c1, g)
           c2 == IF g # NoRam /\ ok THEN [c1 EXCEPT ![g] = @ - 1] ELSE c1
           f == uget_free_page(c2)
           i == v \div E
           j == v % E
           entries == IF ok THEN [Empty EXCEPT ![j] = [at |-> f, rw |-> TRUE]] ELSE Empty
<1>0. v \in Pages /\ i \in Slots /\ j \in Index
  BY UserIsPage, PageSlot
<1>1. /\ Pte(cr3, v) # Absent /\ Shared(mmap, w) /\ HasFree(2)
      /\ dir' = [dir EXCEPT ![cr3][i] = [at |-> t, rw |-> TRUE]]
      /\ wild' = (~ok \/ ~zero \/ InUse(t) \/ InUse(f))
      /\ mmap' = IF ok THEN Taken(c2, f) ELSE c1
      /\ tab' = With(tab, t, entries) /\ cr3' = cr3
  BY DEF do_wp_page
<1>2. Shape /\ w \in Frame /\ Low \subseteq Frame /\ Kernel \subseteq Frame
  BY <1>0, <1>1, KernelSlot DEF CowInv, Shape, Pde, Pte
<1>3. wild' \in BOOLEAN
  BY <1>1, Zenon
<1> HIDE DEF w
<1>4. Keeps(c0) /\ \A h \in Frame : c0[h] = 0 <=> mmap[h] = 0
  BY <1>1, <1>2, MmapKeeps, LoweredKeeps
<1> HIDE DEF c0
<1>5. t \in Frame /\ mmap[t] = 0 /\ (t \in Top => \A h \in Low : c0[h] > 0)
  <2>1. Free(c0, Kernel) # {} /\ c0 \in [Frame -> Nat]
    BY <1>1, <1>2, <1>4, TwoFree, CowAssumption DEF Free, Keeps
  <2>2. t \in Frame /\ c0[t] = 0 /\ (t \in Top => \A h \in Low : c0[h] > 0)
    BY <2>1, FreeFrame
  <2> QED BY <1>4, <2>2
<1> HIDE DEF t
<1>6. /\ Keeps(c1) /\ c1[t] = 1 /\ c1 \in [Frame -> Nat]
      /\ \A h \in Frame : h # t => c1[h] = c0[h]
  <2>1. /\ Keeps(c1) /\ c1[t] = 1 /\ \A h \in Frame : h # t => c1[h] = c0[h]
    BY <1>2, <1>4, <1>5, TakenKeeps
  <2> QED BY <2>1, CowAssumption DEF Keeps
<1> HIDE DEF c1
<1>7. Keeps(c2) /\ c2 \in [Frame -> Nat] /\ \A h \in Frame : c2[h] = 0 <=> c1[h] = 0
  <2>1. CASE g # NoRam /\ ok
    <3>1. g \in Frame /\ Shared(c1, g)
      BY <2>1
    <3> QED BY <1>2, <1>6, <2>1, <3>1, LoweredKeeps, CowAssumption DEF Keeps
  <2>2. CASE ~(g # NoRam /\ ok)
    BY <1>6, <2>2
  <2> QED BY <2>1, <2>2
<1> HIDE DEF c2
<1>8. f \in Frame /\ f # t /\ mmap[f] = 0 /\ (f \in Top => \A h \in Low : c2[h] > 0)
  <2>1. PICK h \in Kernel : h # t /\ mmap[h] = 0
    BY <1>1, TwoFree
  <2>2. c2[h] = 0
    BY <1>2, <1>4, <1>6, <1>7, <2>1
  <2>3. Free(c2, Kernel) # {}
    BY <2>1, <2>2 DEF Free
  <2>4. f \in Frame /\ c2[f] = 0 /\ (f \in Top => \A x \in Low : c2[x] > 0)
    BY <1>7, <2>3, FreeFrame
  <2> QED BY <1>4, <1>5, <1>6, <1>7, <2>4
<1> HIDE DEF f
<1>9. OnePage(entries, f, j) /\ (entries = Empty \/ ok)
  <2>1. [at |-> f, rw |-> TRUE] \in Entry
    BY <1>8 DEF Entry
  <2> QED BY <1>0, <2>1 DEF OnePage, Empty, Entry, Index
<1> HIDE DEF entries, i, j
<1>10. \A h \in Low : c0[h] > 0 => c1[h] > 0 /\ c2[h] > 0
  <2>1. \A h \in Low : c0[h] > 0 => c1[h] > 0 /\ c1[h] # 0
    BY <1>2, <1>5, <1>6
  <2>2. \A h \in Low : c2[h] \in Nat /\ (c2[h] = 0 <=> c1[h] = 0)
    BY <1>2, <1>7
  <2> QED BY <2>1, <2>2
<1>11. /\ Keeps(mmap') /\ mmap'[t] > 0 /\ InOrder(t)
       /\ entries = Empty \/ (mmap'[f] > 0 /\ InOrder(f))
  <2>1. CASE ok
    <3>1. /\ Keeps(Taken(c2, f)) /\ Taken(c2, f)[f] = 1
          /\ \A h \in Frame : h # f => Taken(c2, f)[h] = c2[h]
      BY <1>2, <1>7, <1>8, TakenKeeps
    <3>2. /\ Keeps(mmap') /\ mmap'[f] = 1
          /\ \A h \in Frame : h # f => mmap'[h] = c2[h]
      BY <1>1, <2>1, <3>1
    <3>3. c2[t] # 0 /\ c2[t] \in Nat
      BY <1>5, <1>6, <1>7
    <3>4. \A h \in Low : c2[h] > 0 => mmap'[h] > 0
      BY <1>2, <1>8, <3>2
    <3> QED BY <1>5, <1>8, <1>10, <3>2, <3>3, <3>4 DEF InOrder
  <2>2. CASE ~ok
    BY <1>1, <1>5, <1>6, <1>9, <1>10, <2>2 DEF InOrder
  <2> QED BY <2>1, <2>2
<1>12. TableAdded(i, t, entries)
  BY <1>1, <1>3 DEF TableAdded, i
<1>13. Shape'
  BY <1>0, <1>2, <1>5, <1>9, <1>11, <1>12, TableShape DEF OnePage, Keeps
<1>14. DOMAIN dir' = DOMAIN dir
  BY <1>0, <1>2, <1>5, <1>9, <1>12, TableEntries DEF OnePage, DirsAfter
<1>15. CountsSuffice' => CountsSuffice
  BY <1>14 DEF CountsSuffice
<1>16. Kept => Kept'
  BY <1>0, <1>2, <1>5, <1>8, <1>9, <1>11, <1>12, TableKept
<1> QED BY <1>13, <1>15, <1>16 DEF CowInv

(***************************************************************************)
(* Clearing the write bit changes nothing else, and nothing absent.        *)
(***************************************************************************)
LEMMA ReadOnly ==
  ASSUME NEW e \in Entry
  PROVE  /\ Protected(e) \in Entry /\ Protected(e).at = e.at /\ ~Protected(e).rw
         /\ Protected(e) = [e EXCEPT !.rw = FALSE]
         /\ Protected(e) = Absent <=> e = Absent
<1> DEFINE R(S) == [at : S, rw : BOOLEAN]
<1>1. ASSUME NEW S, NEW r \in R(S)
      PROVE  Protected(r) \in R(S) /\ Protected(r).at = r.at /\ ~Protected(r).rw
  BY DEF Protected
<1>2. ASSUME NEW S, NEW r \in R(S), NEW q \in R(S), r.at = q.at, r.rw = q.rw PROVE r = q
  BY <1>2
<1>3. CASE e = Absent
  <2>1. Absent \in R({-1}) /\ ~Absent.rw
    BY DEF Absent
  <2>2. Protected(e) = Absent
    <3> DEFINE q == Protected(Absent)
    <3>1. q \in R({-1}) /\ q.at = Absent.at /\ ~q.rw
      BY <1>1, <2>1
    <3> HIDE DEF q, R
    <3>2. q.rw = Absent.rw
      BY <2>1, <3>1 DEF R
    <3>3. q = Absent
      BY <1>2, <2>1, <3>1, <3>2
    <3> QED BY <1>3, <3>3 DEF q
  <2> QED BY <1>3, <2>1, <2>2 DEF Entry, Protected
<1>4. CASE e \in R(Frame)
  <2>1. Protected(e) \in R(Frame) /\ Protected(e).at = e.at /\ ~Protected(e).rw
    BY <1>1, <1>4
  <2>2. e # Absent /\ Protected(e) # Absent
    BY <1>4, <2>1 DEF Absent, Frame
  <2> QED BY <2>1, <2>2 DEF Entry, Protected
<1> QED BY <1>3, <1>4 DEF Entry

-----------------------------------------------------------------------------
\* The tables of the current space, the entries that hold frame f, and what
\* create_mm adds to its count.
Tables     == {dir[cr3][i].at : i \in {k \in Slots : dir[cr3][k] # Absent}}
EntryOf(f) == {e \in Tables \X Index : tab[e[1]][e[2]].at = f}
More(f)    == Cardinality(EntryOf(f)) + (IF f \in Tables THEN 1 ELSE 0)

LEMMA MoreIsCounted ==
  ASSUME Shape
  PROVE  Tables \subseteq DOMAIN tab /\ \A f : IsFiniteSet(EntryOf(f)) /\ More(f) \in Nat
<1>1. Tables \subseteq DOMAIN tab /\ DOMAIN tab \subseteq Frame
  BY DEF Shape, Tables
<1>2. IsFiniteSet(Tables)
  BY <1>1, KernelSlot, FS_Subset
<1>3. IsFiniteSet(Index)
  BY FS_Interval, CowAssumption DEF Index
<1>4. IsFiniteSet(Tables \X Index)
  BY <1>2, <1>3, FS_Product
<1>5. ASSUME NEW f PROVE IsFiniteSet(EntryOf(f)) /\ More(f) \in Nat
  <2>1. EntryOf(f) \subseteq Tables \X Index
    BY DEF EntryOf
  <2>2. IsFiniteSet(EntryOf(f)) /\ Cardinality(EntryOf(f)) \in Nat
    BY <1>4, <2>1, FS_Subset, FS_CardinalityType
  <2> QED BY <2>2 DEF More
<1> QED BY <1>1, <1>5

(***************************************************************************)
(* create_mm adds one to a count at most, but two where a frame of the     *)
(* last identity table is in use; and it counts all frames of that table.  *)
(***************************************************************************)
LEMMA CountMore ==
  ASSUME Shape, Kept, ~wild, IdentityKept, NEW f \in Frame
  PROVE  /\ More(f) \in Nat /\ More(f) <= 2
         /\ More(f) = 2 => f \in Top /\ InUse(f)
         /\ f \in Top => More(f) >= 1
<1> DEFINE A == {e \in EntryOf(f) : KernelEntry(e[1], e[2])}
           B == {e \in EntryOf(f) : ~KernelEntry(e[1], e[2])}
<1>1. ASSUME NEW e \in EntryOf(f)
      PROVE  /\ e[1] \in DOMAIN tab /\ e[2] \in Index /\ e = <<e[1], e[2]>>
             /\ tab[e[1]][e[2]] # Absent /\ tab[e[1]][e[2]].at = f
  <2>1. e \in Tables \X Index /\ tab[e[1]][e[2]].at = f
    BY DEF EntryOf
  <2>2. f # Absent.at
    BY DEF Frame, Absent
  <2> QED BY <2>1, <2>2, MoreIsCounted
<1>2. Held /\ Roles
  BY DEF Kept
<1>3. (\E u : A \subseteq {u}) /\ (A # {} => f \in Top)
  <2>1. ASSUME NEW e \in A PROVE e = <<KT, f - KD * E>> /\ f \in Top
    <3>1. e \in EntryOf(f) /\ KernelEntry(e[1], e[2])
      OBVIOUS
    <3>2. e[1] = KT /\ KD * E + e[2] < KF /\ e[2] \in Index /\ e = <<e[1], e[2]>>
      BY <1>1, <3>1 DEF KernelEntry
    <3>3. f = KD * E + e[2]
      BY <1>1, <1>2, <3>1, <3>2 DEF Roles
    <3>4. KD * E \in Nat /\ KF \in Nat /\ e[2] \in Nat /\ f \in Nat
      BY <3>2, KernelSlot, CowAssumption DEF Index
    <3> HIDE DEF KD
    <3>5. e[2] = f - KD * E
      BY <3>3, <3>4
    <3>6. f \in Top
      BY <3>2, <3>3, <3>4 DEF Top
    <3> QED BY <3>2, <3>5, <3>6
  <2> QED BY <2>1
<1>4. (\E u : B \subseteq {u}) /\ (B # {} => InUse(f) /\ f \notin Tables)
  <2>1. ASSUME NEW e \in B PROVE Put(e[1], e[2]) /\ e = <<e[1], e[2]>> /\ tab[e[1]][e[2]].at = f
    BY <1>1, <2>1 DEF Put
  <2>2. ASSUME NEW e \in B, NEW d \in B PROVE e = d
    BY <1>2, <2>1 DEF Roles
  <2>3. B # {} => InUse(f) /\ f \notin DOMAIN tab
    BY <1>2, <2>1, UsedAs DEF Roles
  <2> QED BY <2>2, <2>3, MoreIsCounted
<1>5. f \in Tables => InUse(f)
  BY MoreIsCounted, UsedAs
<1>6. EntryOf(f) = A \cup B /\ A \cap B = {}
  OBVIOUS
<1>7. ASSUME f \in Top PROVE EntryOf(f) # {}
  <2>1. Pte(cr3, f).at = f /\ f \in Pages
    <3>1. cr3 \in DOMAIN dir /\ f \in KD * E .. KF - 1
      BY <1>7 DEF Shape, Top
    <3>2. Pte(cr3, f).at = f
      BY <3>1 DEF IdentityKept
    <3>3. KD * E \in Nat /\ KF \in Nat /\ KF <= D * E /\ D * E \in Nat
      <4>1. Q \in Nat /\ D \in Nat /\ E \in Nat /\ KF \in Nat /\ KF <= Q * E /\ Q < D
        BY CowAssumption
      <4>2. Q * E <= D * E /\ D * E \in Nat /\ Q * E \in Nat
        BY <4>1
      <4> QED BY <4>1, <4>2, KernelSlot
    <3> HIDE DEF KD
    <3>4. f \in Pages
      BY <3>1, <3>3 DEF Pages
    <3> QED BY <3>2, <3>4
  <2>2. f \div E \in Slots /\ f % E \in Index
    BY <2>1, PageSlot
  <2>3. f # Absent.at
    BY DEF Frame, Absent
  <2>4. Pde(cr3, f) # Absent /\ Pte(cr3, f) = tab[Pde(cr3, f).at][f % E]
    BY <2>1, <2>3 DEF Pte
  <2>5. Pde(cr3, f).at \in Tables
    BY <2>2, <2>4 DEF Tables, Pde
  <2>6. <<Pde(cr3, f).at, f % E>> \in EntryOf(f)
    BY <2>1, <2>2, <2>4, <2>5 DEF EntryOf
  <2> QED BY <2>6
<1> HIDE DEF A, B
<1>8. /\ IsFiniteSet(A) /\ Cardinality(A) \in {0, 1} /\ (A = {} => Cardinality(A) = 0)
      /\ IsFiniteSet(B) /\ Cardinality(B) \in {0, 1} /\ (B = {} => Cardinality(B) = 0)
  BY <1>3, <1>4, AtMostOne, FS_EmptySet
<1>9. Cardinality(EntryOf(f)) = Cardinality(A) + Cardinality(B)
  <2>1. Cardinality(A \cup B) = Cardinality(A) + Cardinality(B) - Cardinality(A \cap B)
    BY <1>8, FS_Union
  <2>2. Cardinality(A \cap B) = 0
    BY <1>6, FS_EmptySet
  <2> QED BY <1>6, <1>8, <2>1, <2>2
<1>10. f \in Top => Cardinality(EntryOf(f)) # 0
  BY <1>7, MoreIsCounted, FS_EmptySet
<1>11. More(f) = Cardinality(A) + Cardinality(B) + (IF f \in Tables THEN 1 ELSE 0)
  BY <1>9 DEF More
<1> QED BY <1>3, <1>4, <1>5, <1>8, <1>9, <1>10, <1>11

\* What create_mm makes of the tables and of the directories.
TabsProtected ==
    /\ DOMAIN tab' = DOMAIN tab /\ tab' \in [DOMAIN tab -> [Index -> Entry]]
    /\ \A t \in DOMAIN tab : \A j \in Index :
          /\ tab[t][j] = Absent <=> tab'[t][j] = Absent
          /\ tab'[t][j].at = tab[t][j].at
          /\ t \notin Tables => tab'[t][j] = tab[t][j]

DirsCopied(n) ==
    /\ DOMAIN dir' = DOMAIN dir \cup {n} /\ dir' \in [DOMAIN dir \cup {n} -> [Slots -> Entry]]
    /\ \A s \in DOMAIN dir : s # cr3 /\ s # n => dir'[s] = dir[s]
    /\ \A s \in {cr3, n} : \A i \in Slots :
          /\ ~dir'[s][i].rw
          /\ dir'[s][i] = Absent \/ (dir[cr3][i] # Absent /\ dir'[s][i].at = dir[cr3][i].at)

LEMMA CreateEntries ==
  ASSUME Shape, NEW n \in Frame, n = get_free_page(mmap), NEW zero, create_mm(zero)
  PROVE  TabsProtected /\ DirsCopied(n)
<1> DEFINE old == [i \in Slots |-> IF dir[cr3][i] = Absent THEN Absent ELSE Protected(dir[cr3][i])]
           first == [i \in Slots |-> IF i < Q THEN old[i] ELSE Absent]
<1>1. /\ tab' = [t \in DOMAIN tab |->
                   IF t \in Tables THEN [j \in Index |-> [tab[t][j] EXCEPT !.rw = FALSE]]
                                   ELSE tab[t]]
      /\ dir' = With([dir EXCEPT ![cr3] = old], n, first)
  BY DEF create_mm, Index, Tables
<1>2. /\ dir \in [DOMAIN dir -> [Slots -> Entry]] /\ cr3 \in DOMAIN dir
      /\ tab \in [DOMAIN tab -> [Index -> Entry]]
  BY DEF Shape
<1>3. TabsProtected
  <2>1. \A e \in Entry : /\ [e EXCEPT !.rw = FALSE] \in Entry /\ [e EXCEPT !.rw = FALSE].at = e.at
                         /\ e = Absent <=> [e EXCEPT !.rw = FALSE] = Absent
    BY ReadOnly
  <2> QED BY <1>1, <1>2, <2>1 DEF TabsProtected
<1>4. /\ old \in [Slots -> Entry] /\ first \in [Slots -> Entry]
      /\ \A i \in Slots : /\ ~old[i].rw /\ ~first[i].rw
                          /\ old[i] = Absent \/ (dir[cr3][i] # Absent /\ old[i].at = dir[cr3][i].at)
                          /\ first[i] = Absent \/ (dir[cr3][i] # Absent /\ first[i].at = dir[cr3][i].at)
  <2>1. \A e \in Entry : Protected(e) \in Entry /\ Protected(e).at = e.at /\ ~Protected(e).rw
    BY ReadOnly
  <2>2. Absent \in Entry /\ ~Absent.rw
    BY DEF Entry, Absent
  <2> QED BY <1>2, <2>1, <2>2
<1> HIDE DEF old, first
<1>5. /\ DOMAIN dir' = DOMAIN dir \cup {n} /\ dir' \in [DOMAIN dir \cup {n} -> [Slots -> Entry]]
      /\ dir'[n] = first /\ (cr3 # n => dir'[cr3] = old)
      /\ \A s \in DOMAIN dir : s # cr3 /\ s # n => dir'[s] = dir[s]
  BY <1>1, <1>2, <1>4 DEF With
<1>6. \A s \in {cr3, n} : dir'[s] = first \/ dir'[s] = old
  BY <1>5
<1>7. DirsCopied(n)
  BY <1>4, <1>5, <1>6 DEF DirsCopied
<1> QED BY <1>3, <1>7

(***************************************************************************)
(* create_mm: nobody can write the shared tables any more, and the counts  *)
(* hold what is added.                                                     *)
(***************************************************************************)
LEMMA CreateStep ==
  ASSUME CowInv, ~wild, IdentityKept, NEW zero \in BOOLEAN, create_mm(zero) PROVE CowInv'
<1> DEFINE n == get_free_page(mmap)
<1>1. /\ HasFree(1) /\ cr3' = cr3 /\ wild' = (~zero \/ InUse(n))
      /\ mmap' = [f \in Frame |-> (Taken(mmap, n)[f] + Cardinality(EntryOf(f))
                                     + (IF f \in Tables THEN 1 ELSE 0)) % CW]
  BY DEF create_mm, EntryOf, Tables, Index
<1>2. wild' \in BOOLEAN
  BY <1>1, Zenon
<1>3. /\ Shape /\ dir \in [DOMAIN dir -> [Slots -> Entry]] /\ tab \in [DOMAIN tab -> [Index -> Entry]]
      /\ cr3 \in DOMAIN dir /\ mmap \in [Frame -> Nat]
      /\ DOMAIN dir \subseteq Frame /\ DOMAIN tab \subseteq Frame
  BY MmapKeeps DEF CowInv, Shape
<1>4. n \in Frame /\ mmap[n] = 0 /\ (n \in Top => \A g \in Low : mmap[g] > 0)
  BY <1>1, <1>3, OneFree, FreeFrame
<1>5. TabsProtected /\ DirsCopied(n)
  BY <1>3, <1>4, CreateEntries
<1> HIDE DEF n
<1>6. \A f \in Frame : /\ More(f) \in Nat /\ mmap[f] \in Nat
                       /\ mmap'[f] = ((IF f = n THEN 1 ELSE mmap[f]) + More(f)) % CW
  <2>1. ASSUME NEW f \in Frame
        PROVE  /\ More(f) \in Nat /\ mmap[f] \in Nat
               /\ mmap'[f] = ((IF f = n THEN 1 ELSE mmap[f]) + More(f)) % CW
    <3>1. Cardinality(EntryOf(f)) \in Nat /\ More(f) \in Nat
      BY <1>3, MoreIsCounted, FS_CardinalityType
    <3>2. Taken(mmap, n)[f] = IF f = n THEN 1 ELSE mmap[f]
      BY <1>3, <1>4 DEF Taken
    <3>3. mmap'[f] = (Taken(mmap, n)[f] + Cardinality(EntryOf(f)) + (IF f \in Tables THEN 1 ELSE 0)) % CW
      BY <1>1
    <3>4. Taken(mmap, n)[f] + Cardinality(EntryOf(f)) + (IF f \in Tables THEN 1 ELSE 0)
            = (IF f = n THEN 1 ELSE mmap[f]) + More(f)
      BY <1>3, <3>1, <3>2 DEF More
    <3> QED BY <1>3, <3>1, <3>3, <3>4
  <2> QED BY <2>1
<1>7. Shape'
  <2>1. CW \in Nat /\ CW > 0
    BY CowAssumption
  <2>2. \A f \in Frame : mmap'[f] \in 0 .. CW - 1
    <3>1. \A x \in Nat : x % CW \in 0 .. CW - 1
      BY <2>1
    <3>2. \A f \in Frame : (IF f = n THEN 1 ELSE mmap[f]) + More(f) \in Nat
      BY <1>6
    <3> QED BY <1>6, <3>1, <3>2
  <2>3. mmap' \in [Frame -> 0 .. CW - 1]
    BY <1>1, <2>2
  <2>4. ASSUME NEW s \in DOMAIN dir', NEW i \in Slots, dir'[s][i] # Absent
        PROVE  dir'[s][i].at \in DOMAIN tab
    BY <1>3, <1>5, <2>4 DEF Shape, DirsCopied
  <2> QED BY <1>1, <1>2, <1>3, <1>4, <1>5, <2>3, <2>4 DEF Shape, DirsCopied, TabsProtected
<1>8. SUFFICES ASSUME CountsSuffice' PROVE Kept'
  BY <1>7 DEF CowInv
<1>9. N \in Nat /\ N >= 1 /\ CW \in Nat /\ IsFiniteSet(DOMAIN dir)
  BY <1>3, SpacesCounted, CowAssumption
<1>10. N' = N \/ N' = N + 1
  BY <1>5, <1>9, FS_AddElement DEF N, DirsCopied
<1>11. Kept
  <2>1. N' < CW
    BY <1>8 DEF CountsSuffice, N
  <2>2. N < CW
    BY <1>9, <1>10, <2>1
  <2> QED BY <2>2 DEF CowInv, CountsSuffice, N
<1>12. Held /\ Bound /\ Roles /\ Owned
  BY <1>11 DEF Kept
<1>13. n \notin DOMAIN dir /\ n \notin DOMAIN tab /\ ~InUse(n)
  BY <1>4, <1>12, UsedIsHeld DEF Held
<1>14. N' = N + 1 /\ N + 1 < CW /\ CW > 3
  <2>1. N' = N + 1
    BY <1>5, <1>9, <1>13, FS_AddElement DEF N, DirsCopied
  <2>2. N' < CW
    BY <1>8 DEF CountsSuffice, N
  <2> QED BY <1>9, <2>1, <2>2, CowAssumption
<1>15. \A f \in Frame : /\ More(f) <= 2 /\ (More(f) = 2 => f \in Top /\ InUse(f))
                        /\ f \in Top => More(f) >= 1
  BY <1>3, <1>11, CountMore
<1>16. ASSUME NEW f \in Frame PROVE mmap[f] <= N /\ (f \in Top /\ InUse(f) => N = 1)
  <2>1. SUFFICES ASSUME N >= 2, f \in Top, InUse(f) PROVE FALSE
    BY <1>9, <1>12 DEF Bound
  <2>2. PICK g \in Kernel : mmap[g] = 0
    BY <1>1, OneFree DEF Free
  <2>3. g \in Top \/ g \in Low
    <3>1. KD * E \in Nat /\ KF \in Nat /\ K0 \in Nat
      BY KernelSlot, CowAssumption
    <3> HIDE DEF KD
    <3> QED BY <3>1 DEF Kernel, Top, Low
  <2> QED BY <1>12, <2>1, <2>2, <2>3 DEF Bound
<1>17. ASSUME NEW f \in Frame
       PROVE  mmap'[f] = (IF f = n THEN 1 ELSE mmap[f]) + More(f)
  <2>1. (IF f = n THEN 1 ELSE mmap[f]) + More(f) \in 0 .. CW - 1
    BY <1>6, <1>9, <1>14, <1>15, <1>16
  <2>2. \A x \in 0 .. CW - 1 : x % CW = x
    BY <1>9
  <2> QED BY <1>6, <2>1, <2>2
<1>18. ASSUME NEW f \in Frame
       PROVE  /\ mmap'[f] \in Nat /\ (mmap[f] > 0 \/ f = n \/ f \in Top => mmap'[f] > 0)
              /\ mmap'[f] <= N + 1 \/ (N = 1 /\ f \in Top /\ InUse(f) /\ mmap'[f] <= 3)
  <2>1. CASE f = n
    <3>1. More(f) # 2
      BY <1>13, <1>15, <2>1
    <3>2. More(f) \in Nat /\ More(f) <= 2 /\ mmap'[f] = 1 + More(f)
      BY <1>6, <1>15, <1>17, <2>1
    <3> QED BY <1>9, <3>1, <3>2
  <2>2. CASE f # n
    <3>1. mmap'[f] = mmap[f] + More(f)
      BY <1>17, <2>2
    <3> QED BY <1>6, <1>9, <1>15, <1>16, <2>2, <3>1
  <2> QED BY <2>1, <2>2
\* The tables hold what they held.
<1>19. ASSUME NEW t, NEW j PROVE Put(t, j)' <=> Put(t, j)
  BY <1>5 DEF TabsProtected, Put, KernelEntry
<1>20. ASSUME NEW t, NEW j, Put(t, j)
       PROVE  tab'[t][j].at = tab[t][j].at /\ tab[t][j].at \in Frame
  <2>1. \A e \in Entry : e # Absent => e.at \in Frame
    BY DEF Entry
  <2> QED BY <1>3, <1>5, <1>20, <2>1 DEF TabsProtected, Put
<1>21. ASSUME NEW f \in Frame PROVE InUse(f)' <=> InUse(f) \/ f = n
  <2>1. DOMAIN dir' = DOMAIN dir \cup {n} /\ DOMAIN tab' = DOMAIN tab
    BY <1>5 DEF DirsCopied, TabsProtected
  <2>2. (\E t, j : Put(t, j)' /\ tab'[t][j].at = f) <=> (\E t, j : Put(t, j) /\ tab[t][j].at = f)
    BY <1>19, <1>20
  <2> QED BY <2>1, <2>2, UsedAs, UsedAsNext
<1>22. Held'
  <2>1. \A t, j : Put(t, j)' => mmap'[tab'[t][j].at] > 0
    BY <1>12, <1>18, <1>19, <1>20 DEF Held
  <2>2. \A s \in DOMAIN dir' : mmap'[s] > 0
    BY <1>3, <1>4, <1>5, <1>12, <1>18 DEF Held, DirsCopied
  <2>3. \A t \in DOMAIN tab' : mmap'[t] > 0
    BY <1>3, <1>5, <1>12, <1>18 DEF Held, TabsProtected
  <2> QED BY <2>1, <2>2, <2>3 DEF Held
<1>23. Bound'
  <2>1. ASSUME NEW f \in Frame
        PROVE  mmap'[f] <= N' \/ (N' = 2 /\ f \in Top /\ InUse(f)' /\ mmap'[f] <= 3)
    <3>1. CASE mmap'[f] <= N + 1
      BY <1>14, <3>1
    <3>2. CASE N = 1 /\ f \in Top /\ InUse(f) /\ mmap'[f] <= 3
      BY <1>9, <1>14, <1>21, <3>2
    <3> QED BY <1>18, <3>1, <3>2
  <2>2. \A f \in Top : mmap'[f] > 0
    BY <1>18, KernelSlot
  <2>3. ASSUME NEW f \in Top, InUse(f)', NEW g \in Low PROVE mmap'[g] > 0
    <3>1. f \in Frame /\ g \in Frame
      BY KernelSlot
    <3>2. mmap[g] > 0
      BY <1>4, <1>12, <1>21, <2>3, <3>1 DEF Bound
    <3> QED BY <1>18, <3>1, <3>2
  <2> QED BY <2>1, <2>2, <2>3 DEF Bound
<1>24. Roles'
  <2>1. KT \in DOMAIN tab' /\ \A j \in Index : KernelEntry(KT, j) => tab'[KT][j] # Absent /\ tab'[KT][j].at = KD * E + j
    BY <1>5, <1>12 DEF Roles, TabsProtected
  <2>2. ASSUME NEW s \in DOMAIN dir', NEW i \in Slots, dir'[s][i].at = KT PROVE i = KD
    <3>1. dir'[s][i] # Absent
      BY <2>2, KernelSlot DEF Absent
    <3>2. PICK r \in DOMAIN dir : dir'[s][i].at = dir[r][i].at
      BY <1>3, <1>5, <3>1 DEF DirsCopied
    <3> QED BY <1>12, <2>2, <3>2 DEF Roles
  <2>3. ASSUME NEW t, NEW j, Put(t, j)'
        PROVE  /\ tab'[t][j].at \notin DOMAIN tab'
               /\ \A u, k : Put(u, k)' /\ tab'[u][k].at = tab'[t][j].at => u = t /\ k = j
    BY <1>5, <1>12, <1>19, <1>20, <2>3 DEF Roles, TabsProtected
  <2> QED BY <2>1, <2>2, <2>3 DEF Roles
<1>25. Owned'
  <2>1. ASSUME NEW s \in DOMAIN dir', NEW i \in Slots, dir'[s][i].rw
        PROVE  /\ s \in DOMAIN dir /\ s # cr3 /\ s # n /\ dir'[s][i] = dir[s][i]
               /\ dir[s][i].at \in DOMAIN tab /\ dir[s][i].at \notin Tables
    <3>1. s \in DOMAIN dir /\ s # cr3 /\ s # n /\ dir'[s][i] = dir[s][i]
      BY <1>5, <2>1 DEF DirsCopied
    <3>2. dir[s][i] # Absent
      BY <2>1, <3>1 DEF Absent
    <3>3. dir[s][i].at \in DOMAIN tab
      BY <1>3, <3>1, <3>2 DEF Shape
    <3>4. dir[s][i].at \notin Tables
      BY <1>3, <1>12, <2>1, <3>1 DEF Owned, Tables
    <3> QED BY <3>1, <3>3, <3>4
  <2>2. ASSUME NEW s \in DOMAIN dir', NEW i \in Slots, dir'[s][i].rw,
               NEW r \in DOMAIN dir', NEW k \in Slots, dir'[r][k].at = dir'[s][i].at
        PROVE  r = s /\ k = i
    <3>0. /\ s \in DOMAIN dir /\ s # cr3 /\ s # n /\ dir'[s][i] = dir[s][i]
          /\ dir[s][i].at \in DOMAIN tab
      BY <2>1, <2>2
    <3>1. dir'[r][k] # Absent
      BY <1>3, <2>2, <3>0 DEF Absent, Frame
    <3>2. PICK q \in DOMAIN dir : dir'[r][k].at = dir[q][k].at /\ (q = r \/ q = cr3)
      BY <1>3, <1>5, <3>1 DEF DirsCopied
    <3>3. q = s /\ k = i
      BY <1>12, <2>2, <3>0, <3>2 DEF Owned
    <3> QED BY <3>0, <3>2, <3>3
  <2>3. ASSUME NEW s \in DOMAIN dir', NEW i \in Slots, dir'[s][i].rw,
               NEW j \in Index, tab'[dir'[s][i].at][j] # Absent
        PROVE  tab'[dir'[s][i].at][j].rw
    <3>1. /\ s \in DOMAIN dir /\ dir'[s][i] = dir[s][i] /\ dir[s][i].rw
          /\ dir[s][i].at \in DOMAIN tab /\ dir[s][i].at \notin Tables
      BY <2>1, <2>3
    <3>2. tab'[dir[s][i].at][j] = tab[dir[s][i].at][j]
      BY <1>5, <3>1 DEF TabsProtected
    <3> QED BY <1>12, <2>3, <3>1, <3>2 DEF Owned
  <2> QED BY <2>2, <2>3 DEF Owned
<1> QED BY <1>22, <1>23, <1>24, <1>25 DEF Kept

-----------------------------------------------------------------------------
(***************************************************************************)
(* After open_pagination: one directory, one table with identity entries.  *)
(***************************************************************************)
LEMMA CowInit == ASSUME Init PROVE CowInv
<1> DEFINE one == [at |-> KT, rw |-> TRUE]
           id(j) == [at |-> KD * E + j, rw |-> TRUE]
<1>0. /\ K0 \in Frame /\ KT \in Frame /\ KD \in Slots /\ CW \in Nat /\ CW >= 2
      /\ KD \in Nat /\ KD * E \in Nat /\ KF \in Nat /\ NF \in Nat /\ KF <= NF /\ K0 \in Nat
      /\ K0 <= KT /\ Top \subseteq Frame /\ Frame \subseteq Nat
  BY CowAssumption, KernelSlot DEF KT
<1>1. /\ one \in Entry /\ Absent \in Entry /\ one # Absent /\ one.at = KT /\ one.rw
      /\ ~Absent.rw /\ Absent.at = -1
  BY <1>0 DEF Entry, Absent
<1>2. ASSUME NEW j \in Index, KernelEntry(KT, j)
      PROVE  id(j) \in Entry /\ id(j) # Absent /\ id(j).at = KD * E + j /\ id(j).rw
  <2>1. j \in Nat /\ KD * E + j < KF
    BY <1>2 DEF Index, KernelEntry
  <2> HIDE DEF KD
  <2>2. KD * E + j \in Frame
    BY <1>0, <2>1 DEF Frame
  <2>3. KD * E + j # -1
    BY <1>0, <2>1
  <2> QED BY <2>2, <2>3 DEF Entry, Absent
<1>3. /\ mmap = [f \in Frame |-> IF K0 <= f /\ f <= KT THEN 1 ELSE 0]
      /\ dir = [s \in {K0} |-> [i \in Slots |-> IF i = KD THEN one ELSE Absent]]
      /\ tab = [t \in {KT} |-> [j \in Index |-> IF KernelEntry(t, j) THEN id(j) ELSE Absent]]
      /\ cr3 = K0 /\ wild = FALSE
  BY DEF Init, Index
<1> HIDE DEF one, id
<1>4. /\ DOMAIN dir = {K0} /\ dir \in [{K0} -> [Slots -> Entry]]
      /\ \A i \in Slots : dir[K0][i] = IF i = KD THEN one ELSE Absent
  BY <1>1, <1>3
<1>5. /\ DOMAIN tab = {KT} /\ tab \in [{KT} -> [Index -> Entry]]
      /\ \A j \in Index : tab[KT][j] = IF KernelEntry(KT, j) THEN id(j) ELSE Absent
  BY <1>1, <1>2, <1>3
<1>6. /\ mmap \in [Frame -> 0 .. CW - 1] /\ mmap[K0] = 1 /\ mmap[KT] = 1
      /\ \A f \in Frame : mmap[f] <= 1 /\ (K0 <= f /\ f <= KT => mmap[f] > 0)
  <2>1. KT \in Nat
    BY <1>0
  <2> HIDE DEF KT, KD
  <2> QED BY <1>0, <1>3, <2>1
<1>7. N = 1
  BY <1>4, FS_Singleton DEF N
<1>8. \A t, j : ~Put(t, j)
  BY <1>5 DEF Put
<1>9. Shape
  BY <1>0, <1>1, <1>3, <1>4, <1>5, <1>6 DEF Shape
<1>10. Held
  BY <1>4, <1>5, <1>6, <1>8 DEF Held
<1>11. Bound
  <2>1. ASSUME NEW f \in Top, InUse(f), NEW g \in Low PROVE mmap[g] > 0
    <3>1. f = K0 \/ f = KT
      BY <1>0, <1>4, <1>5, <1>8, <2>1, UsedAs
    <3>2. K0 <= g /\ g < KD * E /\ KD * E <= f /\ g \in Nat /\ g \in Frame /\ f \in Nat
      <4>1. g \in Frame /\ f \in Nat
        BY <1>0, KernelSlot
      <4> QED BY <1>0, <4>1 DEF Low, Top
    <3>3. g <= KT
      <4>1. KT \in Nat
        BY <1>0
      <4> HIDE DEF KT, KD
      <4> QED BY <1>0, <3>1, <3>2, <4>1
    <3> QED BY <1>6, <3>2, <3>3
  <2>2. \A f \in Frame : mmap[f] <= N
    BY <1>6, <1>7
  <2> QED BY <1>7, <2>1, <2>2 DEF Bound
<1>12. Roles
  <2>1. \A s \in DOMAIN dir : \A i \in Slots : dir[s][i].at = KT => i = KD
    BY <1>0, <1>1, <1>4
  <2> QED BY <1>2, <1>5, <1>8, <2>1 DEF Roles
<1>13. Owned
  <2>1. ASSUME NEW s \in DOMAIN dir, NEW i \in Slots, dir[s][i].rw
        PROVE  s = K0 /\ i = KD /\ dir[s][i].at = KT
    BY <1>1, <1>4, <2>1
  <2>2. ASSUME NEW r \in DOMAIN dir, NEW k \in Slots, dir[r][k].at = KT PROVE r = K0 /\ k = KD
    BY <1>0, <1>1, <1>4, <2>2
  <2>3. \A j \in Index : tab[KT][j] # Absent => tab[KT][j].rw
    BY <1>2, <1>5
  <2> QED BY <2>1, <2>2, <2>3 DEF Owned
<1> QED BY <1>9, <1>10, <1>11, <1>12, <1>13 DEF CowInv, Kept

(***************************************************************************)
(* Every step keeps the invariant.                                         *)
(***************************************************************************)
LEMMA CowStep == ASSUME CowInv, [Next]_vars PROVE CowInv'
<1>1. CASE \E v \in Touched : NoPage(v)
  BY <1>1, NoPageStep
<1>2. CASE \E v \in Touched, zero \in BOOLEAN : NoTable(v, zero)
  BY <1>2, NoTableStep
<1>3. CASE \E v \in Touched, zero \in BOOLEAN : \E g \in Frame \cup {NoRam} : do_wp_page(v, g, zero)
  BY <1>3, WpPageStep
<1>4. CASE ~wild /\ IdentityKept /\ \E zero \in BOOLEAN : create_mm(zero)
  BY <1>4, CreateStep
<1>5. CASE \/ \E v \in Touched : do_wp_page_last(v)
           \/ \E s \in DOMAIN dir : Switch(s)
           \/ UNCHANGED vars
  <2>1. UNCHANGED <<mmap, dir, tab>> /\ cr3' \in DOMAIN dir /\ wild' \in BOOLEAN
    BY <1>5 DEF do_wp_page_last, Switch, vars, CowInv, Shape
  <2>2. Shape'
    BY <2>1 DEF CowInv, Shape
  <2>3. (CountsSuffice => Kept)'
    BY <2>1 DEF CowInv, Kept, Held, Bound, Roles, Owned, CountsSuffice, Put, InUse, N, KernelEntry
  <2> QED BY <2>2, <2>3 DEF CowInv
<1> QED BY <1>1, <1>2, <1>3, <1>4, <1>5 DEF Next

LEMMA CowInvariant == Spec => []CowInv
<1>1. Init => CowInv
  BY CowInit
<1>2. CowInv /\ [Next]_vars => CowInv'
  BY CowStep
<1> QED BY <1>1, <1>2, PTL DEF Spec

(***************************************************************************)
(* Counts stay within what an unsigned char holds, and every directory     *)
(* entry names a table and every table entry a frame of memory, however    *)
(* often tables are shared and left.                                       *)
(***************************************************************************)
THEOREM CowTypes == Spec => []TypeOK
<1>1. ASSUME CowInv PROVE TypeOK
  <2>1. \A t \in DOMAIN tab : \A j \in 0 .. E - 1 : tab[t][j] = Absent \/ tab[t][j].at \in Frame
    <3>1. \A e \in Entry : e = Absent \/ e.at \in Frame
      BY DEF Entry
    <3> QED BY <1>1, <3>1 DEF CowInv, Shape, Index
  <2> QED BY <1>1, <2>1 DEF CowInv, Shape, TypeOK
<1> QED BY <1>1, CowInvariant, PTL

(***************************************************************************)
(* A user page is never one of the kernel's identity entries: their table  *)
(* is found in slot KMEM>>22 only.                                         *)
(***************************************************************************)
LEMMA UserEntry ==
  ASSUME Shape, Kept, NEW s \in DOMAIN dir, NEW v \in UserPages, Pte(s, v) # Absent
  PROVE  /\ Put(Pde(s, v).at, v % E) /\ Pte(s, v) = tab[Pde(s, v).at][v % E]
         /\ Pde(s, v) = dir[s][v \div E]
<1>1. v \in Pages /\ v \div E \in Slots /\ v % E \in Index /\ v = (v \div E) * E + (v % E)
  BY UserIsPage, PageSlot
<1>2. /\ Pde(s, v) # Absent /\ Pte(s, v) = tab[Pde(s, v).at][v % E]
      /\ Pde(s, v) = dir[s][v \div E]
  BY DEF Pte, Pde
<1>3. Pde(s, v).at \in DOMAIN tab
  BY <1>1, <1>2 DEF Shape
<1>4. ~KernelEntry(Pde(s, v).at, v % E)
  <2>1. SUFFICES ASSUME Pde(s, v).at = KT, KD * E + (v % E) < KF PROVE FALSE
    BY DEF KernelEntry
  <2>2. v \div E = KD
    BY <1>1, <1>2, <2>1 DEF Kept, Roles
  <2>3. v = KD * E + (v % E)
    BY <1>1, <2>2
  <2> QED BY <2>1, <2>3, CowAssumption DEF UserPages
<1> QED BY <1>1, <1>2, <1>3, <1>4 DEF Put

(***************************************************************************)
(* As long as the counts suffice, no address space can write what another  *)
(* one sees: create_mm takes the write bit from every shared table,        *)
(* do_wp_page makes its new table and page of frames nobody has.           *)
(***************************************************************************)
THEOREM SpacesAreIsolated == Spec => []Isolated
<1>1. ASSUME CowInv, CountsSuffice, NEW s \in DOMAIN dir, NEW r \in DOMAIN dir,
             NEW v \in UserPages, NEW w \in UserPages,
             Writable(s, v), Pte(r, w) # Absent, Pte(s, v).at = Pte(r, w).at
      PROVE  s = r /\ v = w
  <2> DEFINE a == dir[s][v \div E]
             b == dir[r][w \div E]
  <2>0. Shape /\ Kept
    BY <1>1 DEF CowInv
  <2>1. /\ v \div E \in Slots /\ w \div E \in Slots /\ v % E \in Index /\ w % E \in Index
        /\ v \div E = w \div E /\ v % E = w % E => v = w
    BY UserIsPage, PageSlot
  <2>2. Pde(s, v).rw /\ Pte(s, v).rw
    BY <1>1 DEF Writable
  <2>3. Pte(s, v) # Absent
    BY <2>2 DEF Absent
  <2>4. /\ Put(a.at, v % E) /\ Pte(s, v) = tab[a.at][v % E] /\ a.rw
        /\ Put(b.at, w % E) /\ Pte(r, w) = tab[b.at][w % E]
    BY <1>1, <2>0, <2>2, <2>3, UserEntry
  <2>5. a.at = b.at /\ v % E = w % E
    BY <1>1, <2>0, <2>4 DEF Kept, Roles
  <2>6. s = r /\ v \div E = w \div E
    BY <1>1, <2>0, <2>1, <2>4, <2>5 DEF Kept, Owned
  <2> QED BY <2>1, <2>5, <2>6
<1>2. CowInv => Isolated
  BY <1>1 DEF Isolated
<1> QED BY <1>2, CowInvariant, PTL

(***************************************************************************)
(* As long as the counts suffice, a frame some space reaches never counts  *)
(* as free, whatever create_mm, un_wpte_page and un_wp_page do to counts.  *)
(***************************************************************************)
THEOREM ReachedStaysCounted == Spec => []ReachedIsCounted
<1>1. ASSUME CowInv, CountsSuffice, NEW s \in DOMAIN dir, NEW v \in Pages
      PROVE  Pde(s, v).at = -1 \/ mmap[Pde(s, v).at] > 0
  <2>1. v \div E \in Slots
    BY PageSlot
  <2>2. Absent.at = -1
    BY DEF Absent
  <2>3. Pde(s, v) # Absent => Pde(s, v).at \in DOMAIN tab
    BY <1>1, <2>1 DEF CowInv, Shape, Pde
  <2> QED BY <1>1, <2>2, <2>3 DEF CowInv, Kept, Held
<1>2. ASSUME CowInv, CountsSuffice, NEW s \in DOMAIN dir, NEW v \in UserPages
      PROVE  Pte(s, v).at = -1 \/ mmap[Pte(s, v).at] > 0
  <2>1. Absent.at = -1
    BY DEF Absent
  <2>2. Pte(s, v) # Absent => Put(Pde(s, v).at, v % E) /\ Pte(s, v) = tab[Pde(s, v).at][v % E]
    BY <1>2, UserEntry DEF CowInv
  <2> QED BY <1>2, <2>1, <2>2 DEF CowInv, Kept, Held
<1>3. CowInv => ReachedIsCounted
  BY <1>1, <1>2 DEF ReachedIsCounted, Reached, CowInv, Kept, Held
<1> QED BY <1>3, CowInvariant, PTL

=============================================================================
