---------------------------- MODULE PagingProofs ----------------------------
(***************************************************************************)
(* Proofs about Paging, for every size of memory, of the tables and of the *)
(* kernel's part, and any memory map.                                      *)
(***************************************************************************)
EXTENDS Paging, Counting

Taking == pc \in {"pick", "set"}
ForPage == Taking /\ want \in {"user", "userk", "table"}
ForTable == Taking /\ want = "table"

Types ==
    /\ mmap \in [Frame -> {0, 1, 100}]
    /\ HMEM \in 0 .. NF /\ KMEM \in 0 .. KMAX
    /\ pde \in [0 .. D - 1 -> Frame \cup {None}]
    /\ pte \in [DOMAIN pte -> [0 .. E - 1 -> Frame \cup {None}]] /\ DOMAIN pte \subseteq Frame
    /\ \A i \in 0 .. D - 1 : pde[i] \in DOMAIN pte \cup {None}
    /\ uses = [f \in Frame |-> uses[f]]
    /\ pc \in {"cmain", "boot", "returned", "dir", "table", "idle", "pick", "set", "faulting"}
    /\ want \in {"none", "heap", "user", "userk", "table"}
    /\ pick \in Frame \cup {None} /\ pd \in Frame \cup {None}
    /\ raced \in BOOLEAN

\* Before open_pagination nothing is mapped and no frame is handed out.
Fresh ==
    pc \in {"cmain", "boot", "dir"} =>
        /\ DOMAIN pte = {} /\ \A i \in 0 .. D - 1 : pde[i] = None
        /\ \A f \in Frame : uses[f] = {}

\* What is known while get_free_page runs for somebody.
Doing ==
    /\ Taking => want # "none"
    /\ pc = "set" => pick \in Frame /\ pick \notin DOMAIN pte
    /\ ForPage => va \in Touched /\ Translate(va) = None
    /\ ForTable => /\ pd \in Frame /\ pde[va \div E] = None
                   /\ \A f \in Frame : <<"user", va>> \in uses[f] => f = pd

\* Every page table has a frame of its own, which is not free.
Tables ==
    /\ \A t \in DOMAIN pte : mmap[t] # 0
    /\ \A i, k \in 0 .. D - 1 : pde[i] = pde[k] /\ pde[i] # None => i = k

Ident ==
    /\ \A v \in 0 .. KMEM - 1 : pde[v \div E] # None => Translate(v) = v
    /\ pc \in {"idle", "pick", "set"} => \A i \in 0 .. D - 1 : i <= KMEM \div E => pde[i] # None

\* A frame taken for a page is the one the page leads to.
Users ==
    \A v \in KMEM .. D * E - 1 : \A f \in Frame :
        <<"user", v>> \in uses[f] /\ ~(ForTable /\ va = v) => Translate(v) = f

Single ==
    ~raced => /\ \A f \in Frame : mmap[f] = 0 => uses[f] = {}
              /\ \A f \in Frame : \E u : uses[f] \subseteq {u}
              /\ pc = "set" => mmap[pick] = 0

PagInv == Types /\ Fresh /\ Doing /\ Tables /\ Ident /\ Users

-----------------------------------------------------------------------------
(***************************************************************************)
(* Directory slot and table entry of a page: they name it, and lie in the  *)
(* directory and in the table.                                             *)
(***************************************************************************)
LEMMA SlotOf ==
  ASSUME NEW v \in Nat
  PROVE  /\ v \div E \in Nat /\ v % E \in 0 .. E - 1
         /\ v = (v \div E) * E + (v % E)
         /\ v < D * E => v \div E \in 0 .. D - 1
<1>0. E \in Nat /\ E > 0 /\ D \in Nat
  BY PagingAssumption
<1>1. /\ v \div E \in Nat /\ v % E \in 0 .. E - 1 /\ v = (v \div E) * E + (v % E)
      /\ v < D * E => v \div E < D
  BY <1>0, Division
<1> QED BY <1>0, <1>1

(***************************************************************************)
(* A page below KMEM lies in a slot open_pagination fills.                 *)
(***************************************************************************)
LEMMA SlotBelow ==
  ASSUME NEW v \in Nat, NEW m \in Nat, v < m
  PROVE  v \div E <= m \div E
<1>0. E \in Nat /\ E > 0
  BY PagingAssumption
<1>1. v \div E \in Nat /\ m \div E \in Nat /\ (m \div E) + 1 \in Nat
  BY <1>0, Division
<1>2. m < ((m \div E) + 1) * E
  BY <1>0, <1>1, Division
<1>3. v < ((m \div E) + 1) * E
  BY <1>0, <1>1, <1>2
<1>4. v \div E < (m \div E) + 1
  BY <1>0, <1>1, <1>3, Division
<1> QED BY <1>1, <1>4

(***************************************************************************)
(* The last entry of the memory map that has a property is one that has it. *)
(***************************************************************************)
LEMMA MaxIn ==
  ASSUME NEW n \in Nat, NEW S \in SUBSET (1 .. n), S # {} PROVE Max(S) \in S
<1> DEFINE T == {n - x : x \in S}
<1>1. T \in SUBSET Nat /\ T # {}
  <2>1. \A x \in S : n - x \in Nat
    OBVIOUS
  <2>2. T # {}
    OBVIOUS
  <2> QED BY <2>1, <2>2
<1>2. PICK m \in T : \A y \in T : m <= y
  <2> HIDE DEF T
  <2> QED BY <1>1, LeastNumber
<1>3. PICK x \in S : m = n - x
  BY <1>2
<1>4. ASSUME NEW y \in S PROVE x >= y
  <2>1. n - y \in T
    OBVIOUS
  <2>2. n - x <= n - y /\ x \in 1 .. n /\ y \in 1 .. n
    BY <1>2, <1>3, <2>1
  <2> QED BY <2>2
<1> QED BY <1>4 DEF Max

(***************************************************************************)
(* KMEM is lowered to HMEM when it is above.                               *)
(***************************************************************************)
LEMMA MinOfTwo ==
  ASSUME NEW a \in Nat, NEW b \in Nat
  PROVE  Min({a, b}) = IF a <= b THEN a ELSE b
<1>1. Min({a, b}) \in {a, b} /\ \A y \in {a, b} : Min({a, b}) <= y
  <2>1. \E x \in {a, b} : \A y \in {a, b} : x <= y
    OBVIOUS
  <2> QED BY <2>1 DEF Min
<1> QED BY <1>1

Page == 0 .. D * E - 1
Entry == Frame \cup {None}

(***************************************************************************)
(* A page of the address space has its slot and entry.                     *)
(***************************************************************************)
LEMMA PageSlot ==
  ASSUME NEW v \in Page
  PROVE  /\ v \in Nat /\ v \div E \in 0 .. D - 1 /\ v % E \in 0 .. E - 1
         /\ \A w \in Page : w \div E = v \div E /\ w % E = v % E => w = v
<1>1. ASSUME NEW w \in Page
      PROVE  /\ w \in Nat /\ w \div E \in 0 .. D - 1 /\ w % E \in 0 .. E - 1
             /\ w = (w \div E) * E + (w % E)
  <2>1. w \in Nat /\ w < D * E
    BY PagingAssumption DEF Page
  <2> QED BY <2>1, SlotOf
<1> QED BY <1>1

(***************************************************************************)
(* The pages below and above a possible KMEM are pages.                    *)
(***************************************************************************)
LEMMA KernelPages ==
  ASSUME NEW k \in 0 .. KMAX
  PROVE  /\ 0 .. k - 1 \subseteq Page /\ k .. D * E - 1 \subseteq Page
         /\ 0 .. k - 1 \subseteq Frame /\ k \in Nat
  BY PagingAssumption DEF Page, Frame

(***************************************************************************)
(* A translation is a frame or nothing.                                    *)
(***************************************************************************)
LEMMA TranslateType ==
  ASSUME Types, NEW v \in Page PROVE Translate(v) \in Entry
<1>1. v \div E \in 0 .. D - 1 /\ v % E \in 0 .. E - 1
  BY PageSlot
<1>2. /\ pde[v \div E] \in DOMAIN pte \cup {None}
      /\ \A t \in DOMAIN pte : pte[t] \in [0 .. E - 1 -> Entry]
  BY <1>1 DEF Types, Entry
<1> QED BY <1>1, <1>2 DEF Translate, Entry

\* The frame f, holding the given table, is put into slot i of the directory.
TableAdded(i, f, table) ==
    /\ pde' = [pde EXCEPT ![i] = f]
    /\ pte' = [t \in DOMAIN pte \cup {f} |-> IF t = f THEN table ELSE pte[t]]

(***************************************************************************)
(* A new page table in an empty slot changes the pages of that slot only.  *)
(***************************************************************************)
LEMMA NewTable ==
  ASSUME Types, Tables, NEW i \in 0 .. D - 1, pde[i] = None,
         NEW f \in Frame, f \notin DOMAIN pte,
         NEW table \in [0 .. E - 1 -> Entry],
         TableAdded(i, f, table)
  PROVE  /\ pde' \in [0 .. D - 1 -> Entry]
         /\ DOMAIN pte' = DOMAIN pte \cup {f}
         /\ pte' \in [DOMAIN pte \cup {f} -> [0 .. E - 1 -> Entry]]
         /\ \A k \in 0 .. D - 1 : pde'[k] \in DOMAIN pte' \cup {None}
         /\ \A j, k \in 0 .. D - 1 : pde'[j] = pde'[k] /\ pde'[j] # None => j = k
         /\ \A v \in Page : Translate(v)' = IF v \div E = i THEN table[v % E] ELSE Translate(v)
<1>0. /\ pde \in [0 .. D - 1 -> Entry] /\ \A k \in 0 .. D - 1 : pde[k] \in DOMAIN pte \cup {None}
      /\ pte \in [DOMAIN pte -> [0 .. E - 1 -> Entry]]
      /\ f \in Entry /\ f # None
      /\ \A j, k \in 0 .. D - 1 : pde[j] = pde[k] /\ pde[j] # None => j = k
  BY DEF Types, Tables, Entry, Frame, None
<1>1. /\ pde' \in [0 .. D - 1 -> Entry] /\ pde'[i] = f
      /\ \A k \in 0 .. D - 1 : k # i => pde'[k] = pde[k] /\ pde[k] # f
  BY <1>0 DEF TableAdded
<1>2. /\ DOMAIN pte' = DOMAIN pte \cup {f} /\ pte'[f] = table
      /\ \A t \in DOMAIN pte : pte'[t] = pte[t]
  BY DEF TableAdded
<1>3. pte' \in [DOMAIN pte \cup {f} -> [0 .. E - 1 -> Entry]]
  BY <1>0 DEF TableAdded
<1>4. \A k \in 0 .. D - 1 : pde'[k] \in DOMAIN pte' \cup {None}
  BY <1>0, <1>1, <1>2
<1>5. \A j, k \in 0 .. D - 1 : pde'[j] = pde'[k] /\ pde'[j] # None => j = k
  BY <1>0, <1>1
<1>6. ASSUME NEW v \in Page
      PROVE  Translate(v)' = IF v \div E = i THEN table[v % E] ELSE Translate(v)
  <2>1. v \div E \in 0 .. D - 1
    BY PageSlot
  <2> QED BY <1>0, <1>1, <1>2, <2>1 DEF Translate
<1> QED BY <1>1, <1>2, <1>3, <1>4, <1>5, <1>6

(***************************************************************************)
(* put_page through a table that is there changes one page only.           *)
(***************************************************************************)
LEMMA MapOne ==
  ASSUME Types, Tables, NEW w \in Page, pde[w \div E] # None, NEW f \in Frame,
         pte' = Mapped(pte, pde, w, f), pde' = pde
  PROVE  /\ DOMAIN pte' = DOMAIN pte
         /\ pte' \in [DOMAIN pte -> [0 .. E - 1 -> Entry]]
         /\ \A v \in Page : Translate(v)' = IF v = w THEN f ELSE Translate(v)
<1> DEFINE s == w \div E
           j == w % E
<1>0. /\ s \in 0 .. D - 1 /\ j \in 0 .. E - 1 /\ f \in Entry
      /\ \A k \in 0 .. D - 1 : pde[k] \in DOMAIN pte \cup {None}
      /\ pte \in [DOMAIN pte -> [0 .. E - 1 -> Entry]]
      /\ \A i, k \in 0 .. D - 1 : pde[i] = pde[k] /\ pde[i] # None => i = k
      /\ \A v \in Page : v \div E = s /\ v % E = j => v = w
  BY PageSlot DEF Types, Tables, Entry
<1>1. pde[s] \in DOMAIN pte /\ pte[pde[s]] \in [0 .. E - 1 -> Entry]
  BY <1>0
<1>2. pte' = [pte EXCEPT ![pde[s]] = [pte[pde[s]] EXCEPT ![j] = f]]
  BY DEF Mapped
<1>6. \A v \in Page : v \div E \in 0 .. D - 1 /\ v % E \in 0 .. E - 1
  BY PageSlot
<1> HIDE DEF s, j
<1>3. /\ DOMAIN pte' = DOMAIN pte /\ pte'[pde[s]] = [pte[pde[s]] EXCEPT ![j] = f]
      /\ \A t \in DOMAIN pte : t # pde[s] => pte'[t] = pte[t]
  BY <1>0, <1>1, <1>2
<1>4. pte' \in [DOMAIN pte -> [0 .. E - 1 -> Entry]]
  BY <1>0, <1>1, <1>2
<1>5. ASSUME NEW v \in Page PROVE Translate(v)' = IF v = w THEN f ELSE Translate(v)
  <2>0. v \div E \in 0 .. D - 1 /\ v % E \in 0 .. E - 1
    BY <1>6
  <2>1. CASE v \div E = s
    <3>1. Translate(v)' = pte'[pde[s]][v % E] /\ Translate(v) = pte[pde[s]][v % E]
      BY <1>1, <2>1 DEF Translate, s
    <3>2. v = w => v % E = j
      BY DEF j
    <3>3. pte'[pde[s]][v % E] = IF v % E = j THEN f ELSE pte[pde[s]][v % E]
      BY <1>1, <1>3, <2>0
    <3> QED BY <1>0, <2>1, <3>1, <3>2, <3>3
  <2>2. CASE v \div E # s
    <3>1. v # w
      BY <2>2 DEF s
    <3>2. pde[v \div E] # None => pde[v \div E] \in DOMAIN pte /\ pde[v \div E] # pde[s]
      BY <1>0, <2>0, <2>2
    <3> QED BY <1>3, <3>1, <3>2 DEF Translate
  <2> QED BY <2>1, <2>2
<1> QED BY <1>3, <1>4, <1>5

-----------------------------------------------------------------------------
(***************************************************************************)
(* The steps before open_pagination, which only set up counts and gates.   *)
(***************************************************************************)
LEMMA BootStep ==
  ASSUME PagInv, trap_init \/ NoMemory \/ mmap_init \/ mm_init
  PROVE  PagInv'
<1>1. /\ pc \in {"cmain", "boot"} /\ pc' \in {"boot", "returned", "dir"}
      /\ UNCHANGED <<pde, pte, want, pick, va, pd, uses, raced>>
  BY DEF trap_init, NoMemory, mmap_init, mm_init
<1>2. mmap' \in [Frame -> {0, 1, 100}]
  BY DEF trap_init, NoMemory, mmap_init, mm_init, PagInv, Types
<1>3. HMEM' \in 0 .. NF
  <2>1. CASE trap_init \/ NoMemory
    BY <2>1 DEF trap_init, NoMemory, space, PagInv, Types
  <2>2. CASE mm_init
    <3>1. Upper \div 4096 \in Nat /\ Upper \div 4096 < NF /\ NF \in Nat
      BY PagingAssumption
    <3> QED BY <2>2, <3>1 DEF mm_init
  <2>3. CASE mmap_init
    <3>1. CASE Usable = {}
      BY <2>3, <3>1 DEF mmap_init, PagInv, Types
    <3>2. CASE Usable # {}
      <4> DEFINE R == [type : Nat, base : Nat, len : 0 .. NF]
      <4>0. MemMap \in Seq(R)
        BY PagingAssumption
      <4> HIDE DEF R
      <4>1. Len(MemMap) \in Nat /\ DOMAIN MemMap = 1 .. Len(MemMap) /\ Usable \subseteq DOMAIN MemMap
        BY <4>0, LenProperties DEF Usable
      <4>2. Max(Usable) \in Usable
        BY <3>2, <4>1, MaxIn
      <4>3. MemMap[Max(Usable)] \in R
        BY <4>0, <4>1, <4>2, ElementOfSeq
      <4>4. MemMap[Max(Usable)].base + MemMap[Max(Usable)].len \in Nat /\ NF \in Nat /\ NF > 0
        <5>1. \A r \in R : r.base + r.len \in Nat
          BY PagingAssumption DEF R
        <5> QED BY <4>3, <5>1, PagingAssumption
      <4>5. \A x \in Nat : x % NF \in 0 .. NF
        BY <4>4
      <4> QED BY <2>3, <3>2, <4>4, <4>5 DEF mmap_init
    <3> QED BY <3>1, <3>2
  <2> QED BY <2>1, <2>2, <2>3
<1>4. KMEM' \in 0 .. KMAX
  <2>1. KMEM \in 0 .. KMAX /\ KMAX \in Nat /\ HMEM' \in Nat
    BY <1>3, PagingAssumption DEF PagInv, Types
  <2>2. CASE trap_init \/ NoMemory
    BY <2>1, <2>2 DEF trap_init, NoMemory, space
  <2>3. CASE mmap_init \/ mm_init
    <3>1. KMEM' = Min({HMEM', KMEM})
      BY <2>3 DEF mmap_init, mm_init
    <3> QED BY <2>1, <3>1, MinOfTwo
  <2> QED BY <2>2, <2>3
<1>5. Types'
  BY <1>1, <1>2, <1>3, <1>4 DEF PagInv, Types
<1>6. Fresh /\ \A i \in 0 .. D - 1 : pde'[i] = None
  BY <1>1 DEF PagInv, Fresh
<1>7. \A v \in Page : Translate(v)' = None
  BY <1>6, PageSlot DEF Translate
<1>8. Fresh' /\ Doing' /\ Tables'
  BY <1>1, <1>6 DEF Fresh, Doing, Tables, Taking, ForPage, ForTable
<1>9. Ident'
  <2>1. (0 .. KMEM' - 1) \subseteq Page
    BY <1>4, KernelPages
  <2>2. \A v \in Page : pde'[v \div E] = None
    BY <1>6, PageSlot
  <2> QED BY <1>1, <2>1, <2>2 DEF Ident
<1>10. Users'
  <2>1. (KMEM' .. D * E - 1) \subseteq Page
    BY <1>4, KernelPages
  <2> QED BY <1>1, <1>6, <1>7, <2>1 DEF Users, Fresh
<1> QED BY <1>5, <1>8, <1>9, <1>10 DEF PagInv

(***************************************************************************)
(* What handing out frame f for use u does to the counts and the history.  *)
(***************************************************************************)
LEMMA Handed ==
  ASSUME Types, NEW f \in Frame, NEW u,
         mmap' = [mmap EXCEPT ![f] = 1], uses' = [uses EXCEPT ![f] = @ \cup {u}]
  PROVE  /\ mmap' \in [Frame -> {0, 1, 100}] /\ mmap'[f] = 1
         /\ \A g \in Frame : g # f => mmap'[g] = mmap[g] /\ uses'[g] = uses[g]
         /\ uses' = [g \in Frame |-> uses'[g]] /\ uses'[f] = uses[f] \cup {u}
  BY DEF Types

(***************************************************************************)
(* Handing it out for anything but a faulting page leaves the pages alone. *)
(***************************************************************************)
LEMMA HandedOther ==
  ASSUME Types, Tables, Ident, Users, NEW f \in Frame, NEW u, \A v : u # <<"user", v>>,
         mmap' = [mmap EXCEPT ![f] = 1], uses' = [uses EXCEPT ![f] = @ \cup {u}],
         UNCHANGED <<pde, pte, KMEM>>, ForTable => ForTable' /\ va' = va,
         pc' = pc \/ pc' \notin {"idle", "pick", "set"} \/ pc \in {"idle", "pick", "set"}
  PROVE  Tables' /\ Ident' /\ Users'
<1>1. /\ mmap'[f] = 1 /\ \A g \in Frame : g # f => mmap'[g] = mmap[g] /\ uses'[g] = uses[g]
      /\ uses'[f] = uses[f] \cup {u}
  BY Handed
<1>2. \A v : Translate(v)' = Translate(v)
  BY DEF Translate
<1>3. Tables'
  BY <1>1 DEF Tables, Types
<1>4. Ident'
  BY <1>2 DEF Ident
<1>5. Users'
  <2>1. \A v : \A g \in Frame : <<"user", v>> \in uses'[g] <=> <<"user", v>> \in uses[g]
    BY <1>1
  <2>2. \A v \in KMEM .. D * E - 1 : Translate(v) \in Frame \cup {None}
    BY KernelPages, TranslateType DEF Types, Entry
  <2> QED BY <1>2, <2>1, <2>2 DEF Users
<1> QED BY <1>3, <1>4, <1>5

(***************************************************************************)
(* The zones are sets of frames.                                           *)
(***************************************************************************)
LEMMA Zones ==
  /\ KernelZone \in SUBSET Frame /\ UserZone \in SUBSET Frame /\ Frame \subseteq Nat
  /\ \A f \in KernelZone \cup UserZone : mmap[f] = 0
  BY PagingAssumption DEF KernelZone, UserZone, Frame

(***************************************************************************)
(* open_pagination takes the directory's frame.                            *)
(***************************************************************************)
LEMMA OpenDirStep == ASSUME PagInv, OpenDir PROVE PagInv'
<1> DEFINE f == Min(KernelZone)
           u == <<"dir", 0>>
<1>1. /\ pc = "dir" /\ pc' = "table" /\ KernelZone # {}
      /\ mmap' = [mmap EXCEPT ![f] = 1] /\ uses' = [uses EXCEPT ![f] = @ \cup {u}]
      /\ UNCHANGED <<HMEM, KMEM, pde, pte, want, pick, va, pd, raced>>
  BY DEF OpenDir
<1>2. f \in Frame
  BY <1>1, Zones, MinIn
<1>3. \A v : u # <<"user", v>>
  OBVIOUS
<1> HIDE DEF f, u
<1>4. Types /\ Tables /\ Ident /\ Users
  BY DEF PagInv
<1>5. mmap' \in [Frame -> {0, 1, 100}] /\ uses' = [g \in Frame |-> uses'[g]]
  BY <1>1, <1>2, <1>4, Handed
<1>6. Types'
  BY <1>1, <1>5 DEF PagInv, Types
<1>7. ~ForTable
  BY <1>1 DEF ForTable, Taking
<1>8. Tables' /\ Ident' /\ Users'
  BY <1>1, <1>2, <1>3, <1>4, <1>7, HandedOther
<1>9. Fresh' /\ Doing'
  BY <1>1 DEF Fresh, Doing, Taking, ForPage, ForTable
<1> QED BY <1>6, <1>8, <1>9 DEF PagInv

(***************************************************************************)
(* neISR grows the heap, at any point of what it interrupts.               *)
(***************************************************************************)
LEMMA IsrGrowStep == ASSUME PagInv, IsrGrow PROVE PagInv'
<1> DEFINE f == Min(KernelZone)
           u == <<"heap", Cardinality(HeapPages)>>
<1>1. /\ Booted /\ KernelZone # {}
      /\ mmap' = [mmap EXCEPT ![f] = 1] /\ uses' = [uses EXCEPT ![f] = @ \cup {u}]
      /\ raced' = (raced \/ pc = "set")
      /\ UNCHANGED <<HMEM, KMEM, pde, pte, pc, want, pick, va, pd>>
  BY DEF IsrGrow, space
<1>2. f \in Frame
  BY <1>1, Zones, MinIn
<1>3. \A v : u # <<"user", v>>
  OBVIOUS
<1> HIDE DEF f, u
<1>4. Types /\ Tables /\ Ident /\ Users
  BY DEF PagInv
<1>5. /\ mmap' \in [Frame -> {0, 1, 100}] /\ uses' = [g \in Frame |-> uses'[g]]
      /\ \A g \in Frame : g # f => uses'[g] = uses[g]
      /\ uses'[f] = uses[f] \cup {u}
  BY <1>1, <1>2, <1>4, Handed
<1>6. Types'
  <2>1. raced' \in BOOLEAN
    BY <1>1, Zenon
  <2> QED BY <1>1, <1>5, <2>1 DEF PagInv, Types
<1>7. ForTable => ForTable' /\ va' = va
  BY <1>1 DEF ForTable, Taking
<1>8. Tables' /\ Ident' /\ Users'
  BY <1>1, <1>2, <1>3, <1>4, <1>7, HandedOther
<1>9. Fresh'
  BY <1>1 DEF Fresh, Booted
<1>10. Doing'
  <2>1. \A v : \A g \in Frame : <<"user", v>> \in uses'[g] => <<"user", v>> \in uses[g]
    BY <1>2, <1>3, <1>5
  <2>2. Doing /\ \A v : Translate(v)' = Translate(v)
    BY <1>1 DEF PagInv, Translate
  <2>3. (ForTable' => ForTable) /\ (ForPage' => ForPage)
    BY <1>1 DEF ForTable, ForPage, Taking
  <2> QED BY <1>1, <2>1, <2>2, <2>3 DEF Doing, Taking
<1> QED BY <1>6, <1>8, <1>9, <1>10 DEF PagInv

(***************************************************************************)
(* The heap gets the frame it asked for.                                   *)
(***************************************************************************)
LEMMA TakeForHeapStep == ASSUME PagInv, TakeForHeap PROVE PagInv'
<1> DEFINE u == <<"heap", Cardinality(HeapPages)>>
<1>1. /\ pc = "set" /\ want = "heap" /\ pc' = "idle" /\ want' = "none" /\ pick' = None
      /\ mmap' = [mmap EXCEPT ![pick] = 1] /\ uses' = [uses EXCEPT ![pick] = @ \cup {u}]
      /\ UNCHANGED <<HMEM, KMEM, pde, pte, va, pd, raced>>
  BY DEF TakeForHeap, TakeFrame, Use, space
<1>2. pick \in Frame
  BY <1>1 DEF PagInv, Doing
<1>3. \A v : u # <<"user", v>>
  OBVIOUS
<1> HIDE DEF u
<1>4. Types /\ Tables /\ Ident /\ Users
  BY DEF PagInv
<1>5. mmap' \in [Frame -> {0, 1, 100}] /\ uses' = [g \in Frame |-> uses'[g]]
  BY <1>1, <1>2, <1>4, Handed
<1>6. Types'
  BY <1>1, <1>5 DEF PagInv, Types
<1>7. ~ForTable
  BY <1>1 DEF ForTable
<1>8. Tables' /\ Ident' /\ Users'
  BY <1>1, <1>2, <1>3, <1>4, <1>7, HandedOther
<1>9. Fresh' /\ Doing'
  BY <1>1 DEF Fresh, Doing, Taking, ForPage, ForTable
<1> QED BY <1>6, <1>8, <1>9 DEF PagInv

(***************************************************************************)
(* Steps that hand out no frame and write no table.                        *)
(***************************************************************************)
LEMMA QuietStep ==
  ASSUME PagInv,
         \/ OpenDone \/ HeapGrow \/ (\E v \in Touched : Fault(v)) \/ Pick \/ PickKernel
         \/ GetFreePageSpins \/ Sti \/ UNCHANGED vars
  PROVE  PagInv'
<1> USE DEF gates, space
<1>1. UNCHANGED <<mmap, HMEM, KMEM, pde, pte, uses, raced>>
  BY DEF OpenDone, HeapGrow, Fault, Pick, PickKernel, GetFreePageSpins, Sti, vars
<1>2. \A v : Translate(v)' = Translate(v)
  BY <1>1 DEF Translate
<1>3. Tables'
  BY <1>1 DEF PagInv, Tables
<1>4. /\ UNCHANGED <<pc, want, va, pd, pick>>
      \/ /\ pc = "table" /\ pc' = "idle" /\ ToOpen = {} /\ UNCHANGED <<want, va, pd, pick>>
      \/ /\ pc = "idle" /\ pc' = "pick" /\ want' = "heap" /\ UNCHANGED <<va, pd, pick>>
      \/ /\ pc = "idle" /\ pc' \in {"pick", "faulting"} /\ want' = "user" /\ va' \in Touched
         /\ Translate(va') = None /\ UNCHANGED <<pd, pick>>
      \/ /\ pc = "pick" /\ pc' = "set" /\ pick' \in Frame /\ mmap[pick'] = 0
         /\ UNCHANGED <<want, va, pd>>
      \/ /\ pc = "pick" /\ pc' = pc /\ want = "user" /\ want' = "userk" /\ UNCHANGED <<va, pd, pick>>
  <2>1. CASE Pick
    <3> DEFINE zone == IF want = "user" THEN UserZone ELSE KernelZone
    <3>1. zone # {} /\ pick' = Min(zone)
      BY <2>1 DEF Pick
    <3>2. Min(zone) \in zone
      BY <3>1, Zones, MinIn
    <3> QED BY <2>1, <3>1, <3>2, Zones DEF Pick
  <2>2. CASE OpenDone
    BY <2>2 DEF OpenDone
  <2>3. CASE HeapGrow
    BY <2>3 DEF HeapGrow
  <2>4. CASE \E v \in Touched : Fault(v)
    BY <2>4 DEF Fault
  <2>5. CASE PickKernel
    BY <2>5 DEF PickKernel
  <2>6. CASE GetFreePageSpins \/ Sti \/ UNCHANGED vars
    BY <2>6 DEF GetFreePageSpins, Sti, vars
  <2> QED BY <2>1, <2>2, <2>3, <2>4, <2>5, <2>6
<1>5. Types'
  BY <1>1, <1>4 DEF PagInv, Types
<1>6. Fresh'
  BY <1>1, <1>4 DEF PagInv, Fresh
<1>7. Ident'
  <2>1. ToOpen = {} => \A i \in 0 .. D - 1 : i <= KMEM \div E => pde[i] # None
    BY DEF ToOpen
  <2> QED BY <1>1, <1>2, <1>4, <2>1 DEF PagInv, Ident
<1>8. Users'
  BY <1>1, <1>2, <1>4 DEF PagInv, Users, ForTable, Taking
<1>9. Doing'
  <2>1. \A t \in DOMAIN pte : mmap[t] # 0
    BY DEF PagInv, Tables
  <2>2. Doing
    BY DEF PagInv
  <2> QED BY <1>1, <1>4, <2>1, <2>2 DEF Doing, ForTable, ForPage, Taking, Translate
<1> QED BY <1>3, <1>5, <1>6, <1>7, <1>8, <1>9 DEF PagInv

(***************************************************************************)
(* open_pagination fills a slot of the directory with an identity map.     *)
(***************************************************************************)
LEMMA OpenTableStep == ASSUME PagInv, OpenTable PROVE PagInv'
<1> DEFINE f == Min(KernelZone)
           i == Min(ToOpen)
           u == <<"table", i>>
<1>0. PICK old \in Leftover :
          pte' = [t \in DOMAIN pte \cup {f} |->
                    IF t = f THEN [j \in 0 .. E - 1 |-> IF i * E + j < KMEM THEN i * E + j ELSE old[j]]
                    ELSE pte[t]]
  BY DEF OpenTable
<1> DEFINE table == [j \in 0 .. E - 1 |-> IF i * E + j < KMEM THEN i * E + j ELSE old[j]]
<1>1. /\ pc = "table" /\ pc' = "table" /\ KernelZone # {} /\ ToOpen # {}
      /\ mmap' = [mmap EXCEPT ![f] = 1] /\ uses' = [uses EXCEPT ![f] = @ \cup {u}]
      /\ TableAdded(i, f, table)
      /\ UNCHANGED <<HMEM, KMEM, want, pick, va, pd, raced>>
  BY <1>0 DEF OpenTable, space, TableAdded
<1>2. f \in Frame /\ mmap[f] = 0
  BY <1>1, Zones, MinIn
<1>3. i \in 0 .. D - 1 /\ pde[i] = None
  <2>1. ToOpen \in SUBSET Nat
    BY PagingAssumption DEF ToOpen
  <2> QED BY <1>1, <2>1, MinIn DEF ToOpen
<1>4. Types /\ Tables /\ Ident /\ Users /\ KMEM \in 0 .. KMAX
  BY DEF PagInv, Types
<1>5. \A v : u # <<"user", v>>
  OBVIOUS
<1>6. /\ 0 .. KMEM - 1 \subseteq Frame /\ KMEM \in Nat /\ E \in Nat
      /\ old \in [0 .. E - 1 -> Entry]
  BY <1>4, KernelPages, PagingAssumption DEF Entry
<1> HIDE DEF f, i, u
<1>7. table \in [0 .. E - 1 -> Entry]
  <2>1. ASSUME NEW j \in 0 .. E - 1, i * E + j < KMEM PROVE i * E + j \in Frame
    <3>1. i * E \in Nat
      BY <1>3, <1>6
    <3> QED BY <1>6, <2>1, <3>1
  <2> QED BY <1>6, <2>1 DEF Entry
<1>8. ASSUME NEW v \in Page, v \div E = i, v < KMEM
      PROVE  table[v % E] = v
  <2>1. v \in Nat /\ v % E \in 0 .. E - 1 /\ v = (v \div E) * E + (v % E)
    BY PageSlot, SlotOf
  <2> QED BY <1>8, <2>1
<1>9. f \notin DOMAIN pte
  BY <1>2, <1>4 DEF Tables
<1> HIDE DEF table
<1>10. /\ pde' \in [0 .. D - 1 -> Entry]
       /\ DOMAIN pte' = DOMAIN pte \cup {f}
       /\ pte' \in [DOMAIN pte \cup {f} -> [0 .. E - 1 -> Entry]]
       /\ \A k \in 0 .. D - 1 : pde'[k] \in DOMAIN pte' \cup {None}
       /\ \A j, k \in 0 .. D - 1 : pde'[j] = pde'[k] /\ pde'[j] # None => j = k
       /\ \A v \in Page : Translate(v)' = IF v \div E = i THEN table[v % E] ELSE Translate(v)
  BY <1>1, <1>2, <1>3, <1>4, <1>7, <1>9, NewTable
<1>11. /\ mmap' \in [Frame -> {0, 1, 100}] /\ mmap'[f] = 1
       /\ \A g \in Frame : g # f => mmap'[g] = mmap[g] /\ uses'[g] = uses[g]
       /\ uses' = [g \in Frame |-> uses'[g]] /\ uses'[f] = uses[f] \cup {u}
  BY <1>1, <1>2, <1>4, Handed
<1>12. Types'
  BY <1>1, <1>2, <1>4, <1>10, <1>11 DEF Types, Entry
<1>13. Fresh' /\ Doing'
  BY <1>1 DEF Fresh, Doing, Taking, ForPage, ForTable
<1>14. Tables'
  <2>1. \A t \in DOMAIN pte : t \in Frame /\ mmap[t] # 0
    BY <1>4 DEF Types, Tables
  <2> QED BY <1>10, <1>11, <2>1 DEF Tables
<1>15. Ident'
  <2>1. ASSUME NEW v \in 0 .. KMEM - 1, pde'[v \div E] # None PROVE Translate(v)' = v
    <3>1. v \in Page /\ v < KMEM
      BY <1>4, <1>6, KernelPages
    <3>2. v \div E # i => pde'[v \div E] = pde[v \div E]
      BY <1>4, <3>1, PageSlot, <1>1 DEF TableAdded, Types
    <3> QED BY <1>4, <1>8, <1>10, <2>1, <3>1, <3>2 DEF Ident
  <2> QED BY <1>1, <2>1 DEF Ident
<1>16. Users'
  <2>1. ASSUME NEW v \in KMEM .. D * E - 1
        PROVE  /\ v \div E = i => Translate(v) = None
               /\ v \div E # i => Translate(v)' = Translate(v)
    <3>1. v \in Page
      BY <1>4, <1>6, KernelPages
    <3> QED BY <1>3, <1>10, <3>1 DEF Translate
  <2>2. \A v : \A g \in Frame : <<"user", v>> \in uses'[g] <=> <<"user", v>> \in uses[g]
    BY <1>5, <1>11
  <2>3. ~ForTable /\ None \notin Frame
    BY <1>1 DEF ForTable, Taking, Frame, None
  <2> QED BY <1>1, <1>4, <2>1, <2>2, <2>3 DEF Users
<1> QED BY <1>12, <1>13, <1>14, <1>15, <1>16 DEF PagInv

(***************************************************************************)
(* A page that is not mapped lies above KMEM once the tables are filled,   *)
(* and so do all pages of a slot without a table.                          *)
(***************************************************************************)
LEMMA SlotsFilled ==
  ASSUME PagInv, pc \in {"idle", "pick", "set"}, NEW v \in Page, pde[v \div E] = None
  PROVE  v >= KMEM
<1>1. v \in Nat /\ KMEM \in Nat /\ v \div E \in 0 .. D - 1
  BY PageSlot, KernelPages DEF PagInv, Types
<1>2. v < KMEM => v \div E <= KMEM \div E
  BY <1>1, SlotBelow
<1> QED BY <1>1, <1>2 DEF PagInv, Ident

(***************************************************************************)
(* put_page maps the faulting page through a table that is there.          *)
(***************************************************************************)
LEMMA TakeAndMapStep == ASSUME PagInv, TakeAndMap PROVE PagInv'
<1>1. /\ pc = "set" /\ want \in {"user", "userk"} /\ pc' = "idle" /\ want' = "none"
      /\ pick' = None /\ va' = None /\ pde[va \div E] # None
      /\ mmap' = [mmap EXCEPT ![pick] = 1]
      /\ uses' = [uses EXCEPT ![pick] = @ \cup {<<"user", va>>}]
      /\ pte' = Mapped(pte, pde, va, pick)
      /\ UNCHANGED <<HMEM, KMEM, pde, pd, raced>>
  BY DEF TakeAndMap, TakeFrame, Use, space
<1>2. pick \in Frame /\ va \in Page /\ Translate(va) = None
  <2>1. pick \in Frame /\ va \in Touched /\ Translate(va) = None
    BY <1>1 DEF PagInv, Doing, ForPage, Taking
  <2> QED BY <2>1, PagingAssumption DEF Page
<1>3. Types /\ Tables /\ Ident /\ Users /\ KMEM \in 0 .. KMAX
  BY DEF PagInv, Types
<1>4. /\ DOMAIN pte' = DOMAIN pte
      /\ pte' \in [DOMAIN pte -> [0 .. E - 1 -> Entry]]
      /\ \A v \in Page : Translate(v)' = IF v = va THEN pick ELSE Translate(v)
  BY <1>1, <1>2, <1>3, MapOne
<1>5. /\ mmap' \in [Frame -> {0, 1, 100}] /\ mmap'[pick] = 1
      /\ \A g \in Frame : g # pick => mmap'[g] = mmap[g] /\ uses'[g] = uses[g]
      /\ uses' = [g \in Frame |-> uses'[g]] /\ uses'[pick] = uses[pick] \cup {<<"user", va>>}
  BY <1>1, <1>2, <1>3, Handed
<1>6. Types'
  BY <1>1, <1>3, <1>4, <1>5 DEF Types, Entry
<1>7. Fresh' /\ Doing'
  BY <1>1 DEF Fresh, Doing, Taking, ForPage, ForTable
<1>8. Tables'
  <2>1. \A t \in DOMAIN pte : t \in Frame /\ mmap[t] # 0
    BY <1>3 DEF Types, Tables
  <2> QED BY <1>1, <1>3, <1>4, <1>5, <2>1 DEF Tables
<1>9. va \notin 0 .. KMEM - 1
  <2>1. va \in 0 .. KMEM - 1 => va # None
    BY DEF None
  <2> QED BY <1>1, <1>2, <1>3, <2>1 DEF Ident
<1>10. Ident'
  <2>1. \A v \in 0 .. KMEM - 1 : v \in Page /\ v # va
    BY <1>3, <1>9, KernelPages
  <2> QED BY <1>1, <1>3, <1>4, <2>1 DEF Ident
<1>11. Users'
  <2>1. ASSUME NEW v \in KMEM .. D * E - 1
        PROVE  v \in Page /\ Translate(v) \in Entry /\ Translate(v)' = IF v = va THEN pick ELSE Translate(v)
    BY <1>3, <1>4, KernelPages, TranslateType
  <2>2. \A v : \A g \in Frame : <<"user", v>> \in uses'[g] <=>
                                  <<"user", v>> \in uses[g] \/ (v = va /\ g = pick)
    BY <1>2, <1>5
  <2>3. ~ForTable /\ ~ForTable' /\ None \notin Frame
    BY <1>1 DEF ForTable, Taking, Frame, None
  <2> QED BY <1>1, <1>2, <1>3, <2>1, <2>2, <2>3 DEF Users, Entry
<1> QED BY <1>6, <1>7, <1>8, <1>10, <1>11 DEF PagInv

(***************************************************************************)
(* The frame for the page is there, put_page goes on to ask for a table.   *)
(***************************************************************************)
LEMMA TakeNeedTableStep == ASSUME PagInv, TakeNeedTable PROVE PagInv'
<1>1. /\ pc = "set" /\ want \in {"user", "userk"} /\ pc' = "pick" /\ want' = "table"
      /\ pick' = None /\ pd' = pick /\ pde[va \div E] = None
      /\ mmap' = [mmap EXCEPT ![pick] = 1]
      /\ uses' = [uses EXCEPT ![pick] = @ \cup {<<"user", va>>}]
      /\ UNCHANGED <<HMEM, KMEM, pde, pte, va, raced>>
  BY DEF TakeNeedTable, TakeFrame, Use, space
<1>2. pick \in Frame /\ va \in Touched /\ Translate(va) = None
  BY <1>1 DEF PagInv, Doing, ForPage, Taking
<1>3. Types /\ Tables /\ Ident /\ Users /\ KMEM \in 0 .. KMAX
  BY DEF PagInv, Types
<1>4. \A v : Translate(v)' = Translate(v)
  BY <1>1 DEF Translate
<1>5. /\ mmap' \in [Frame -> {0, 1, 100}] /\ mmap'[pick] = 1
      /\ \A g \in Frame : g # pick => mmap'[g] = mmap[g] /\ uses'[g] = uses[g]
      /\ uses' = [g \in Frame |-> uses'[g]] /\ uses'[pick] = uses[pick] \cup {<<"user", va>>}
  BY <1>1, <1>2, <1>3, Handed
<1>6. Types'
  BY <1>1, <1>2, <1>3, <1>5 DEF Types, Entry
<1>7. Fresh' /\ Tables' /\ Ident'
  <2>1. Fresh'
    BY <1>1 DEF Fresh
  <2>2. Tables'
    BY <1>1, <1>3, <1>5 DEF Tables, Types
  <2>3. Ident'
    BY <1>1, <1>3, <1>4 DEF Ident
  <2> QED BY <2>1, <2>2, <2>3
<1>10. \A f \in Frame : <<"user", va>> \notin uses[f]
  <2>1. va \in Page
    BY <1>2, PagingAssumption DEF Page
  <2>2. va >= KMEM /\ va \in Nat /\ va <= D * E - 1
    BY <1>1, <2>1, SlotsFilled, PageSlot, PagingAssumption DEF Page
  <2>3. va \in KMEM .. D * E - 1
    BY <1>3, <2>2, PagingAssumption
  <2>4. ~ForTable /\ None \notin Frame
    BY <1>1 DEF ForTable, Frame, None
  <2> QED BY <1>2, <1>3, <2>3, <2>4 DEF Users
<1>8. Doing'
  BY <1>1, <1>2, <1>5, <1>10 DEF Doing, Taking, ForPage, ForTable, Translate
<1>9. Users'
  <2>1. \A v \in KMEM .. D * E - 1 : Translate(v) \in Entry
    BY <1>3, KernelPages, TranslateType
  <2>2. \A v : \A g \in Frame : <<"user", v>> \in uses'[g] <=>
                                  <<"user", v>> \in uses[g] \/ (v = va /\ g = pick)
    BY <1>2, <1>5
  <2>3. ~ForTable /\ ForTable'
    BY <1>1 DEF ForTable, Taking
  <2> QED BY <1>1, <1>2, <1>3, <1>4, <2>1, <2>2, <2>3 DEF Users, Entry
<1> QED BY <1>6, <1>7, <1>8, <1>9 DEF PagInv

(***************************************************************************)
(* The frame for the table is there: directory entry and page entry.       *)
(***************************************************************************)
LEMMA TakeForTableStep == ASSUME PagInv, TakeForTable PROVE PagInv'
<1> DEFINE i == va \div E
           u == <<"table", i>>
<1>0. PICK old \in Leftover :
          pte' = Mapped([t \in DOMAIN pte \cup {pick} |-> IF t = pick THEN old ELSE pte[t]], pde', va, pd)
  BY DEF TakeForTable
<1> DEFINE table == [old EXCEPT ![va % E] = pd]
           fresh == [t \in DOMAIN pte \cup {pick} |-> IF t = pick THEN old ELSE pte[t]]
<1>1. /\ pc = "set" /\ want = "table" /\ pc' = "idle" /\ want' = "none"
      /\ pick' = None /\ va' = None /\ pd' = None
      /\ mmap' = [mmap EXCEPT ![pick] = 1] /\ uses' = [uses EXCEPT ![pick] = @ \cup {u}]
      /\ pde' = [pde EXCEPT ![i] = pick] /\ pte' = Mapped(fresh, pde', va, pd)
      /\ UNCHANGED <<HMEM, KMEM, raced>>
  BY <1>0 DEF TakeForTable, TakeFrame, Use, space
<1>2. /\ pick \in Frame /\ pick \notin DOMAIN pte /\ va \in Touched /\ pd \in Frame /\ pde[i] = None
      /\ ForTable /\ \A f \in Frame : <<"user", va>> \in uses[f] => f = pd
  BY <1>1 DEF PagInv, Doing, ForPage, ForTable, Taking
<1>3. Types /\ Tables /\ Ident /\ Users /\ KMEM \in 0 .. KMAX
  BY DEF PagInv, Types
<1>4. va \in Page
  BY <1>2, PagingAssumption DEF Page
<1>5. i \in 0 .. D - 1 /\ va % E \in 0 .. E - 1
  BY <1>4, PageSlot
<1>6. \A v : u # <<"user", v>>
  OBVIOUS
<1>7. /\ table \in [0 .. E - 1 -> Entry]
      /\ table[va % E] = pd
  <2>1. old \in [0 .. E - 1 -> Entry]
    BY PagingAssumption DEF Entry
  <2> QED BY <1>2, <1>5, <2>1 DEF Entry
<1> HIDE DEF i
<1>8. TableAdded(i, pick, table)
  <2>1. pde'[i] = pick
    BY <1>1, <1>3, <1>5 DEF Types
  <2>2. pte' = [fresh EXCEPT ![pick] = [fresh[pick] EXCEPT ![va % E] = pd]]
    BY <1>1, <2>1 DEF Mapped, i
  <2>3. pte' = [t \in DOMAIN pte \cup {pick} |-> IF t = pick THEN table ELSE pte[t]]
    BY <2>2
  <2> QED BY <1>1, <2>3 DEF TableAdded
<1> HIDE DEF u, table, fresh
<1>10. /\ pde' \in [0 .. D - 1 -> Entry]
       /\ DOMAIN pte' = DOMAIN pte \cup {pick}
       /\ pte' \in [DOMAIN pte \cup {pick} -> [0 .. E - 1 -> Entry]]
       /\ \A k \in 0 .. D - 1 : pde'[k] \in DOMAIN pte' \cup {None}
       /\ \A j, k \in 0 .. D - 1 : pde'[j] = pde'[k] /\ pde'[j] # None => j = k
       /\ \A v \in Page : Translate(v)' = IF v \div E = i THEN table[v % E] ELSE Translate(v)
  BY <1>2, <1>3, <1>5, <1>7, <1>8, NewTable
<1>11. /\ mmap' \in [Frame -> {0, 1, 100}] /\ mmap'[pick] = 1
       /\ \A g \in Frame : g # pick => mmap'[g] = mmap[g] /\ uses'[g] = uses[g]
       /\ uses' = [g \in Frame |-> uses'[g]] /\ uses'[pick] = uses[pick] \cup {u}
  BY <1>1, <1>2, <1>3, Handed
<1>12. Types'
  BY <1>1, <1>2, <1>3, <1>10, <1>11 DEF Types, Entry
<1>13. Fresh' /\ Doing'
  BY <1>1 DEF Fresh, Doing, Taking, ForPage, ForTable
<1>14. Tables'
  <2>1. \A t \in DOMAIN pte : t \in Frame /\ mmap[t] # 0
    BY <1>3 DEF Types, Tables
  <2> QED BY <1>10, <1>11, <2>1 DEF Tables
<1>15. ASSUME NEW v \in Page
       PROVE  /\ v = va => Translate(v)' = pd
              /\ v \div E = i => Translate(v) = None
              /\ v \div E # i => Translate(v)' = Translate(v)
  <2>1. v \div E = i => Translate(v) = None
    BY <1>2 DEF Translate
  <2>2. v = va => v \div E = i /\ v % E = va % E
    BY DEF i
  <2> QED BY <1>7, <1>10, <2>1, <2>2
<1>16. Ident'
  <2>1. ASSUME NEW v \in 0 .. KMEM - 1 PROVE v \in Page /\ v \div E # i /\ v # va
    <3>1. v \in Page /\ v < KMEM /\ v \in Nat /\ KMEM \in Nat
      BY <1>3, KernelPages
    <3>2. v \div E # i
      BY <1>1, <1>2, <3>1, SlotsFilled
    <3> QED BY <3>1, <3>2 DEF i
  <2>2. \A v \in 0 .. KMEM - 1 : pde'[v \div E] = pde[v \div E] /\ Translate(v)' = Translate(v)
    <3>1. \A v \in Page : v \div E \in 0 .. D - 1
      BY PageSlot
    <3> QED BY <1>1, <1>3, <1>15, <2>1, <3>1 DEF Types
  <2>3. \A k \in 0 .. D - 1 : pde[k] # None => pde'[k] # None
    BY <1>1, <1>2, <1>3 DEF Types, Frame, None
  <2> QED BY <1>1, <1>3, <2>2, <2>3 DEF Ident
<1>17. Users'
  <2>1. \A v \in KMEM .. D * E - 1 : v \in Page /\ Translate(v) \in Entry
    BY <1>3, KernelPages, TranslateType
  <2>2. \A v : \A g \in Frame : <<"user", v>> \in uses'[g] <=> <<"user", v>> \in uses[g]
    BY <1>6, <1>11
  <2>3. ~ForTable' /\ None \notin Frame
    BY <1>1 DEF ForTable, Taking, Frame, None
  <2> QED BY <1>1, <1>2, <1>3, <1>15, <2>1, <2>2, <2>3 DEF Users, Entry
<1> QED BY <1>12, <1>13, <1>14, <1>16, <1>17 DEF PagInv

-----------------------------------------------------------------------------
(***************************************************************************)
(* Before trap_init all is empty.                                          *)
(***************************************************************************)
LEMMA PagingInit == ASSUME Init PROVE PagInv
<1> USE DEF Init
<1>1. Types
  <2>1. /\ mmap \in [Frame -> {0, 1, 100}] /\ pde \in [0 .. D - 1 -> Frame \cup {None}]
        /\ DOMAIN pte = {} /\ uses = [f \in Frame |-> uses[f]]
    OBVIOUS
  <2>2. HMEM \in 0 .. NF /\ KMEM \in 0 .. KMAX
    BY PagingAssumption
  <2> QED BY <2>1, <2>2 DEF Types
<1>2. Fresh /\ Doing /\ Tables
  BY DEF Fresh, Doing, Tables, Taking, ForPage, ForTable
<1>3. \A v \in Page : pde[v \div E] = None /\ Translate(v) = None
  BY PageSlot DEF Translate
<1>4. 0 .. KMEM - 1 \subseteq Page /\ KMEM .. D * E - 1 \subseteq Page
  BY <1>1, KernelPages DEF Types
<1>5. Ident /\ Users
  BY <1>2, <1>3, <1>4 DEF Ident, Users, Fresh
<1> QED BY <1>1, <1>2, <1>5 DEF PagInv

(***************************************************************************)
(* Every step keeps the invariant.                                         *)
(***************************************************************************)
LEMMA PagingStep == ASSUME PagInv, [Next]_vars PROVE PagInv'
<1>1. CASE trap_init \/ NoMemory \/ mmap_init \/ mm_init
  BY <1>1, BootStep
<1>2. CASE OpenDir
  BY <1>2, OpenDirStep
<1>3. CASE OpenTable
  BY <1>3, OpenTableStep
<1>4. CASE IsrGrow
  BY <1>4, IsrGrowStep
<1>5. CASE TakeForHeap
  BY <1>5, TakeForHeapStep
<1>6. CASE TakeAndMap
  BY <1>6, TakeAndMapStep
<1>7. CASE TakeNeedTable
  BY <1>7, TakeNeedTableStep
<1>8. CASE TakeForTable
  BY <1>8, TakeForTableStep
<1>9. CASE \/ OpenDone \/ HeapGrow \/ (\E v \in Touched : Fault(v)) \/ Pick \/ PickKernel
           \/ GetFreePageSpins \/ Sti \/ UNCHANGED vars
  BY <1>9, QuietStep
<1> QED BY <1>1, <1>2, <1>3, <1>4, <1>5, <1>6, <1>7, <1>8, <1>9 DEF Next, Step

LEMMA PagingInvariant == Spec => []PagInv
<1>1. Init => PagInv
  BY PagingInit
<1>2. PagInv /\ [Next]_vars => PagInv'
  BY PagingStep
<1> QED BY <1>1, <1>2, PTL DEF Spec

(***************************************************************************)
(* The model's variables keep their types: no table entry and no count     *)
(* leaves its range, for any memory map the boot loader reports.           *)
(***************************************************************************)
THEOREM PagingTypes == Spec => []TypeOK
<1>1. PagInv => TypeOK
  BY DEF PagInv, Types, TypeOK
<1> QED BY <1>1, PagingInvariant, PTL

(***************************************************************************)
(* Once paging is on, the kernel's frames are mapped to themselves for     *)
(* good, whatever pages fault in beside them.                              *)
(***************************************************************************)
THEOREM KernelStaysMapped == Spec => []IdentityKept
<1>1. ASSUME PagInv, Booted, NEW f \in 0 .. KMEM - 1 PROVE Translate(f) = f
  <2>0. KMEM \in 0 .. KMAX
    BY <1>1 DEF PagInv, Types
  <2>1. f \in Page /\ f \in Nat /\ KMEM \in Nat /\ f < KMEM
    BY <2>0, KernelPages
  <2>2. f \div E \in 0 .. D - 1 /\ f \div E <= KMEM \div E
    BY <2>1, PageSlot, SlotBelow
  <2> QED BY <1>1, <2>2 DEF PagInv, Ident, Booted
<1>2. PagInv => IdentityKept
  BY <1>1 DEF IdentityKept
<1> QED BY <1>2, PagingInvariant, PTL

(***************************************************************************)
(* do_no_page and put_page map a page to the frame taken for it, and no    *)
(* later table, whatever it held, takes the page elsewhere.                *)
(***************************************************************************)
THEOREM FaultsAreMapped == Spec => []FaultsMapTheirFrame
<1>1. PagInv => FaultsMapTheirFrame
  BY DEF PagInv, Users, FaultsMapTheirFrame, ForTable, Taking
<1> QED BY <1>1, PagingInvariant, PTL

-----------------------------------------------------------------------------
(***************************************************************************)
(* Handing out a frame that is free gives it its only owner.               *)
(***************************************************************************)
LEMMA HandedFree ==
  ASSUME Types, Single, NEW f \in Frame, NEW u, raced \/ mmap[f] = 0, raced' = raced,
         mmap' = [mmap EXCEPT ![f] = 1], uses' = [uses EXCEPT ![f] = @ \cup {u}], pc' # "set"
  PROVE  Single'
<1>1. /\ mmap'[f] = 1 /\ \A g \in Frame : g # f => mmap'[g] = mmap[g] /\ uses'[g] = uses[g]
      /\ uses'[f] = uses[f] \cup {u}
  BY Handed
<1>2. SUFFICES ASSUME ~raced
               PROVE  /\ \A g \in Frame : mmap'[g] = 0 => uses'[g] = {}
                      /\ \A g \in Frame : \E w : uses'[g] \subseteq {w}
  BY DEF Single
<1>3. uses'[f] = {u}
  BY <1>1, <1>2 DEF Single
<1>4. ASSUME NEW g \in Frame PROVE \E w : uses'[g] \subseteq {w}
  <2>1. CASE g = f
    BY <1>3, <2>1
  <2>2. CASE g # f
    BY <1>1, <1>2, <2>2 DEF Single
  <2> QED BY <2>1, <2>2
<1> QED BY <1>1, <1>2, <1>4 DEF Single

(***************************************************************************)
(* Every step leaves a frame at most one owner, if no interrupt came       *)
(* between the test and the set of get_free_page.                          *)
(***************************************************************************)
LEMMA SingleStep == ASSUME PagInv, Single, [Next]_vars PROVE Single'
<1> USE DEF gates, space
<1>0. Types
  BY DEF PagInv
<1>1. CASE trap_init \/ NoMemory \/ mmap_init \/ mm_init
  <2>1. pc \in {"cmain", "boot"} /\ pc' # "set" /\ uses' = uses /\ raced' = raced
    BY <1>1 DEF trap_init, NoMemory, mmap_init, mm_init
  <2>2. \A f \in Frame : uses[f] = {}
    BY <2>1 DEF PagInv, Fresh
  <2> QED BY <2>1, <2>2 DEF Single
<1>2. CASE OpenDir \/ OpenTable
  <2> DEFINE f == Min(KernelZone)
  <2>1. f \in Frame /\ mmap[f] = 0
    BY <1>2, Zones, MinIn DEF OpenDir, OpenTable
  <2>2. /\ mmap' = [mmap EXCEPT ![f] = 1] /\ raced' = raced /\ pc' # "set"
        /\ \E u : uses' = [uses EXCEPT ![f] = @ \cup {u}]
    BY <1>2 DEF OpenDir, OpenTable
  <2> HIDE DEF f
  <2> QED BY <1>0, <2>1, <2>2, HandedFree
<1>3. CASE TakeForHeap \/ TakeAndMap \/ TakeNeedTable \/ TakeForTable
  <2>1. /\ mmap' = [mmap EXCEPT ![pick] = 1] /\ raced' = raced /\ pc' # "set" /\ pc = "set"
        /\ uses' = [uses EXCEPT ![pick] = @ \cup {Use}]
    BY <1>3 DEF TakeForHeap, TakeAndMap, TakeNeedTable, TakeForTable, TakeFrame
  <2>2. pick \in Frame /\ (raced \/ mmap[pick] = 0)
    BY <2>1 DEF PagInv, Doing, Single
  <2> QED BY <1>0, <2>1, <2>2, HandedFree
<1>4. CASE IsrGrow
  <2> DEFINE f == Min(KernelZone)
             u == <<"heap", Cardinality(HeapPages)>>
  <2>1. f \in Frame /\ mmap[f] = 0
    BY <1>4, Zones, MinIn DEF IsrGrow
  <2>2. /\ mmap' = [mmap EXCEPT ![f] = 1] /\ raced' = (raced \/ pc = "set") /\ pc' = pc
        /\ uses' = [uses EXCEPT ![f] = @ \cup {u}]
    BY <1>4 DEF IsrGrow
  <2> HIDE DEF f, u
  <2>3. CASE raced'
    BY <2>3 DEF Single
  <2>4. CASE ~raced'
    <3>1. raced' = raced /\ pc' # "set"
      BY <1>0, <2>2, <2>4 DEF Types
    <3> QED BY <1>0, <2>1, <2>2, <3>1, HandedFree
  <2> QED BY <2>3, <2>4
<1>5. CASE Pick
  <2> DEFINE zone == IF want = "user" THEN UserZone ELSE KernelZone
  <2>1. zone # {} /\ pick' = Min(zone) /\ UNCHANGED <<mmap, uses, raced>>
    BY <1>5 DEF Pick
  <2>2. Min(zone) \in zone
    BY <2>1, Zones, MinIn
  <2>3. mmap[Min(zone)] = 0
    <3>1. \A f \in zone : mmap[f] = 0
      BY Zones
    <3> QED BY <2>2, <3>1
  <2> QED BY <2>1, <2>3 DEF Single
<1>6. CASE OpenDone \/ HeapGrow \/ (\E v \in Touched : Fault(v))
  <2>1. pc' # "set" /\ UNCHANGED <<mmap, uses, raced>>
    BY <1>6 DEF OpenDone, HeapGrow, Fault
  <2> QED BY <2>1 DEF Single
<1>7. CASE PickKernel \/ GetFreePageSpins \/ Sti \/ UNCHANGED vars
  <2>1. UNCHANGED <<pc, pick, mmap, uses, raced>>
    BY <1>7 DEF PickKernel, GetFreePageSpins, Sti, vars
  <2> QED BY <2>1 DEF Single
<1> QED BY <1>1, <1>2, <1>3, <1>4, <1>5, <1>6, <1>7 DEF Next, Step

(***************************************************************************)
(* No frame has two owners, unless the network interrupt allocated exactly *)
(* between the test and the set of get_free_page.                          *)
(***************************************************************************)
THEOREM OwnersOnlyRace == Spec => []SharedOnlyByRace
<1>1. Init => Single
  <2>1. ASSUME Init, NEW f \in Frame PROVE uses[f] \subseteq {0} /\ uses[f] = {}
    BY <2>1 DEF Init
  <2> QED BY <2>1 DEF Init, Single
<1>2. Single => SharedOnlyByRace
  <2>1. ASSUME NEW S, NEW u, S \subseteq {u} PROVE Cardinality(S) <= 1
    BY <2>1, AtMostOne
  <2> QED BY <2>1 DEF Single, SharedOnlyByRace, SingleOwner
<1>3. PagInv /\ Single /\ [Next]_vars => Single'
  BY SingleStep
<1> QED BY <1>1, <1>2, <1>3, PagingInvariant, PTL DEF Spec

=============================================================================
