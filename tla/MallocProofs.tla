---------------------------- MODULE MallocProofs ----------------------------
(***************************************************************************)
(* Proofs about Malloc and HeapRace, for every number of frames, page size *)
(* and set of requests that satisfy the assumption of Malloc.              *)
(*                                                                         *)
(* The list that Nodes unrolls is described by a function p from the       *)
(* positions 0 .. n - 1 to headers (Chain); find, add and del are shown to *)
(* search, to insert into and to remove from p (Found, Added, Deleted).    *)
(* Mem says of a memory h, of which the headers in A are swallowed, that   *)
(* its blocks tile the frames fr and that its BUSY blocks are the ones in  *)
(* hd; Steps says where a running malloc is.  Both are stated of any       *)
(* memory, so that each lemma takes one call of the code from one memory   *)
(* to the next, and an action is a chain of such lemmas.  In HeapRace fr   *)
(* is what the list knows of: a frame get_free_page has just marked is in  *)
(* mmap and not yet in fr.                                                 *)
(***************************************************************************)
EXTENDS HeapRace, Counting

\* A header.
Header == [size : Nat, next : Nat, root : Nat, state : {"FREE", "BUSY"}]

\* A memory with finitely many headers, none of them at NULL.
IsHeap(h) ==
    /\ IsFiniteSet(DOMAIN h) /\ DOMAIN h \subseteq Nat \ {NULL}
    /\ h \in [DOMAIN h -> Header]

(***************************************************************************)
(* p has the n nodes of the list behind SENTINEL, in order.                *)
(***************************************************************************)
Chain(h, p, n) ==
    /\ n \in Nat \ {0}
    /\ p \in [0 .. n - 1 -> DOMAIN h]
    /\ p[0] = SENTINEL
    /\ \A i, j \in 0 .. n - 1 : p[i] = p[j] => i = j
    /\ \A i \in 0 .. n - 2 : h[p[i]].next = p[i + 1]
    /\ h[p[n - 1]].next = NULL
    /\ \A i \in 1 .. n - 1 : h[p[i]].root = p[i - 1]
    /\ \A i, j \in 0 .. n - 1 : i <= j => h[p[i]].size <= h[p[j]].size

\* The blocks are the same in h and g: only links differ.
SameBlocks(h, g) ==
    /\ DOMAIN g = DOMAIN h
    /\ \A a \in DOMAIN h : g[a].size = h[a].size /\ g[a].state = h[a].state

\* Every link leads to a header or ends.
Linked(h) ==
    \A a \in DOMAIN h : h[a].next \in DOMAIN h \cup {NULL} /\ h[a].root \in DOMAIN h \cup {NULL}

InsertAt(p, n, k, m) == [i \in 0 .. n |-> IF i < k THEN p[i] ELSE IF i = k THEN m ELSE p[i - 1]]

RemoveAt(p, n, k) == [i \in 0 .. n - 2 |-> IF i < k THEN p[i] ELSE p[i + 1]]

(***************************************************************************)
(* Nodes walks the chain.                                                  *)
(***************************************************************************)
LEMMA NodesWalk ==
  ASSUME NEW h, IsHeap(h), NEW n, NEW p, Chain(h, p, n)
  PROVE  /\ DOMAIN Nodes(h, SENTINEL) = 0 .. Cardinality(DOMAIN h)
         /\ n <= Cardinality(DOMAIN h) /\ Cardinality(DOMAIN h) \in Nat
         /\ \A k \in 0 .. n - 1 : Nodes(h, SENTINEL)[k] = p[k]
         /\ Nodes(h, SENTINEL)[n] = NULL
<1> DEFINE card == Cardinality(DOMAIN h)
           K == 0 .. card
           succ == [b \in DOMAIN h \cup {SENTINEL, NULL} \cup {h[x].next : x \in DOMAIN h} |->
                    IF b \in DOMAIN h THEN h[b].next ELSE NULL]
           w == [k \in K |-> IF k < n THEN p[k] ELSE NULL]
           nx == Nodes(h, SENTINEL)
<1>0. NULL \notin DOMAIN h /\ card \in Nat
  BY FS_CardinalityType DEF IsHeap
<1>1. nx = CHOOSE g : g = [k \in K |-> IF k = 0 THEN SENTINEL ELSE succ[g[k - 1]]]
  BY DEF Nodes
<1>2. n <= card
  <2>1. p \in Injection(0 .. n - 1, DOMAIN h)
    BY DEF Chain, Injection, IsInjective
  <2>2. Cardinality(0 .. n - 1) = n
    BY FS_Interval DEF Chain
  <2> QED BY <2>1, <2>2, FS_Injection DEF IsHeap
<1> HIDE DEF card
<1>3. w = [k \in K |-> IF k = 0 THEN SENTINEL ELSE succ[w[k - 1]]]
  <2> SUFFICES ASSUME NEW k \in K PROVE w[k] = IF k = 0 THEN SENTINEL ELSE succ[w[k - 1]]
    OBVIOUS
  <2>1. CASE k = 0
    BY <1>0, <2>1 DEF Chain
  <2>2. CASE k > 0 /\ k < n
    <3>1. k - 1 \in K /\ k - 1 \in 0 .. n - 2 /\ k - 1 \in 0 .. n - 1 /\ k - 1 + 1 = k /\ k - 1 < n
      BY <1>0, <2>2 DEF Chain
    <3>2. p[k - 1] \in DOMAIN h /\ h[p[k - 1]].next = p[k]
      BY <3>1 DEF Chain
    <3>3. succ[p[k - 1]] = p[k]
      BY <3>2
    <3> QED BY <1>0, <2>2, <3>1, <3>3
  <2>3. CASE k = n
    <3>1. k - 1 \in K /\ k - 1 \in 0 .. n - 1 /\ k - 1 < n /\ ~(k < n) /\ k # 0
      BY <1>0, <2>3 DEF Chain
    <3>2. p[k - 1] \in DOMAIN h /\ h[p[k - 1]].next = NULL
      BY <2>3, <3>1 DEF Chain
    <3>3. succ[p[k - 1]] = NULL
      BY <3>2
    <3> QED BY <3>1, <3>3
  <2>4. CASE k > n
    <3>1. k - 1 \in K /\ ~(k - 1 < n) /\ ~(k < n) /\ k # 0
      BY <1>0, <2>4 DEF Chain
    <3> QED BY <1>0, <3>1
  <2>5. n \in Nat /\ k \in Nat
    BY <1>0 DEF Chain
  <2> QED BY <2>1, <2>2, <2>3, <2>4, <2>5
<1> HIDE DEF succ, w, nx
<1>4. nx = [k \in K |-> IF k = 0 THEN SENTINEL ELSE succ[nx[k - 1]]]
  BY <1>1, <1>3
<1>5. \A k \in 0 .. n : nx[k] = w[k]
  <2> DEFINE S == {k \in 0 .. n : nx[k] # w[k]}
  <2>1. n \in Nat /\ n >= 1
    BY DEF Chain
  <2>2. ASSUME S # {} PROVE FALSE
    <3>0. S \in SUBSET Nat
      BY <2>1
    <3>1. PICK k \in S : \A j \in S : k <= j
      <4> HIDE DEF S
      <4> QED BY <2>2, <3>0, LeastNumber
    <3>2. k \in K /\ k \in 0 .. n
      BY <1>0, <1>2, <2>1
    <3>3. CASE k = 0
      BY <1>3, <1>4, <3>1, <3>2, <3>3
    <3>4. CASE k # 0
      <4>1. k - 1 \in 0 .. n /\ k - 1 \notin S
        <5>1. k \in Nat /\ k - 1 \in 0 .. n /\ ~(k <= k - 1)
          BY <2>1, <3>2, <3>4
        <5> HIDE DEF S
        <5> QED BY <3>1, <5>1
      <4>2. nx[k - 1] = w[k - 1]
        BY <4>1
      <4>3. nx[k] = succ[nx[k - 1]] /\ w[k] = succ[w[k - 1]]
        BY <1>3, <1>4, <3>2, <3>4
      <4> QED BY <3>1, <4>2, <4>3
    <3> QED BY <3>3, <3>4
  <2> QED BY <2>2
<1>6. DOMAIN nx = K
  BY <1>4
<1>7. (\A k \in 0 .. n - 1 : nx[k] = p[k]) /\ nx[n] = NULL
  <2>1. n \in Nat /\ n \in 0 .. n /\ n \in K /\ ~(n < n) /\ \A k \in 0 .. n - 1 : k \in 0 .. n /\ k \in K /\ k < n
    BY <1>0, <1>2 DEF Chain
  <2> QED BY <1>5, <2>1 DEF w
<1> QED BY <1>0, <1>2, <1>6, <1>7 DEF nx, card

(***************************************************************************)
(* Where find and add stop.                                                *)
(***************************************************************************)
LEMMA StopNode ==
  ASSUME NEW h, IsHeap(h), NEW n, NEW p, Chain(h, p, n), NEW b \in Nat
  PROVE  /\ StopAt(h, Nodes(h, SENTINEL), b) \in 0 .. n
         /\ StopAt(h, Nodes(h, SENTINEL), b) < n => h[p[StopAt(h, Nodes(h, SENTINEL), b)]].size >= b
         /\ \A i \in 0 .. StopAt(h, Nodes(h, SENTINEL), b) - 1 : h[p[i]].size < b
<1> DEFINE nx == Nodes(h, SENTINEL)
           S == {k \in DOMAIN nx : nx[k] \notin DOMAIN h \/ h[nx[k]].size >= b}
           k == StopAt(h, nx, b)
<1>0. n \in Nat /\ n >= 1 /\ NULL \notin DOMAIN h /\ \A i \in 0 .. n - 1 : p[i] \in DOMAIN h /\ h[p[i]].size \in Nat
  BY DEF Chain, IsHeap, Header
<1>1. /\ DOMAIN nx = 0 .. Cardinality(DOMAIN h) /\ n <= Cardinality(DOMAIN h)
      /\ Cardinality(DOMAIN h) \in Nat
      /\ \A i \in 0 .. n - 1 : nx[i] = p[i]
      /\ nx[n] = NULL
  BY NodesWalk
<1> HIDE DEF nx
<1>2. n \in S
  BY <1>0, <1>1
<1>3. \A i \in 0 .. n - 1 : i \in DOMAIN nx /\ (i \in S <=> h[p[i]].size >= b)
  BY <1>0, <1>1
<1>4. S \in SUBSET Nat
  BY <1>1
<1>5. k = Min(S)
  BY DEF StopAt
<1> HIDE DEF S, k
<1>6. k \in S /\ \A j \in S : k <= j
  <2>1. \E x \in S : \A y \in S : x <= y
    BY <1>2, <1>4, LeastNumber
  <2> QED BY <1>5, <2>1 DEF Min
<1>7. k \in Nat /\ k <= n
  BY <1>2, <1>4, <1>6
<1>8. ASSUME NEW i \in 0 .. k - 1 PROVE h[p[i]].size < b
  <2>1. i \in 0 .. n - 1 /\ i \notin S
    BY <1>0, <1>6, <1>7
  <2> QED BY <1>0, <1>3, <2>1
<1>9. k < n => h[p[k]].size >= b
  BY <1>0, <1>3, <1>6, <1>7
<1> QED BY <1>0, <1>7, <1>8, <1>9 DEF k, nx

(***************************************************************************)
(* find returns a listed block that is large enough, or there is none.     *)
(***************************************************************************)
LEMMA Found ==
  ASSUME NEW h, IsHeap(h), NEW n, NEW p, Chain(h, p, n), NEW b \in Nat
  PROVE  \/ \E k \in 0 .. n - 1 : find(h, SENTINEL, b) = p[k] /\ h[p[k]].size >= b
         \/ find(h, SENTINEL, b) = NULL /\ \A k \in 0 .. n - 1 : h[p[k]].size < b
<1> DEFINE nx == Nodes(h, SENTINEL)
           k == StopAt(h, nx, b)
<1>1. (\A i \in 0 .. n - 1 : nx[i] = p[i]) /\ nx[n] = NULL
  BY NodesWalk
<1>2. k \in 0 .. n /\ (k < n => h[p[k]].size >= b) /\ \A i \in 0 .. k - 1 : h[p[i]].size < b
  BY StopNode
<1>3. find(h, SENTINEL, b) = nx[k]
  BY DEF find
<1> HIDE DEF nx, k
<1>4. n \in Nat
  BY DEF Chain
<1>5. CASE k < n
  <2>1. k \in 0 .. n - 1
    BY <1>2, <1>4, <1>5
  <2> QED BY <1>1, <1>2, <1>3, <1>5, <2>1
<1>6. CASE k = n
  BY <1>1, <1>2, <1>3, <1>6
<1> QED BY <1>2, <1>4, <1>5, <1>6

\* The header at a once m is linked in at position k.
AddedHdr(h, p, n, k, m, a) ==
    [h[a] EXCEPT !.next = IF a = m THEN IF k < n THEN p[k] ELSE NULL
                          ELSE IF a = p[k - 1] THEN m ELSE h[a].next,
                 !.root = IF a = m THEN p[k - 1]
                          ELSE IF k < n /\ a = p[k] THEN m ELSE h[a].root]

(***************************************************************************)
(* What add writes, in a list that is a chain: m's links and the two that  *)
(* point to it.                                                            *)
(***************************************************************************)
LEMMA AddFields ==
  ASSUME NEW h, IsHeap(h), NEW n, NEW p, Chain(h, p, n),
         NEW m \in DOMAIN h, \A i \in 0 .. n - 1 : p[i] # m, h[SENTINEL].size < h[m].size
  PROVE  \E k \in 1 .. n :
           /\ k < n => h[p[k]].size >= h[m].size
           /\ \A i \in 0 .. k - 1 : h[p[i]].size < h[m].size
           /\ addHead(h, SENTINEL, m) = SENTINEL
           /\ DOMAIN add(h, SENTINEL, m) = DOMAIN h
           /\ \A a \in DOMAIN h :
                add(h, SENTINEL, m)[a] = AddedHdr(h, p, n, k, m, a)
<1> DEFINE nx == Nodes(h, SENTINEL)
           k == StopAt(h, nx, h[m].size)
           next(a) == IF a = m THEN nx[k] ELSE IF k > 0 /\ a = nx[k - 1] THEN m ELSE h[a].next
           root(a) ==
            IF a = m THEN (IF k > 0 THEN nx[k - 1] ELSE IF nx[0] = NULL THEN NULL ELSE h[nx[0]].root)
            ELSE IF a = nx[k] THEN m
            ELSE IF \E i \in 1 .. k - 1 : a = nx[i] THEN nx[(CHOOSE i \in 1 .. k - 1 : a = nx[i]) - 1]
            ELSE h[a].root
<1>0. n \in Nat /\ n >= 1 /\ NULL \notin DOMAIN h /\ h[m].size \in Nat /\ p[0] = SENTINEL
  BY DEF Chain, IsHeap, Header
<1>1. (\A i \in 0 .. n - 1 : nx[i] = p[i]) /\ nx[n] = NULL
  BY NodesWalk
<1>2. k \in 0 .. n /\ (k < n => h[p[k]].size >= h[m].size) /\ \A i \in 0 .. k - 1 : h[p[i]].size < h[m].size
  BY <1>0, StopNode
<1>3. add(h, SENTINEL, m) = [a \in DOMAIN h |-> [h[a] EXCEPT !.next = next(a), !.root = root(a)]]
  BY DEF add
<1>4. addHead(h, SENTINEL, m) = IF k = 0 THEN m ELSE SENTINEL
  BY DEF addHead
<1> HIDE DEF nx, k
<1>5. k \in 1 .. n
  <2>1. SENTINEL \in DOMAIN h /\ h[SENTINEL].size \in Nat
    BY <1>0 DEF Chain, IsHeap, Header
  <2>2. k # 0
    BY <1>0, <1>2, <2>1
  <2> QED BY <1>0, <1>2, <2>2
<1>6. nx[k - 1] = p[k - 1] /\ nx[k] = (IF k < n THEN p[k] ELSE NULL) /\ k > 0
  <2>1. k - 1 \in 0 .. n - 1 /\ (k < n => k \in 0 .. n - 1) /\ (~(k < n) => k = n)
    BY <1>0, <1>5
  <2> QED BY <1>0, <1>1, <1>5, <2>1
<1>7. ASSUME NEW a \in DOMAIN h
      PROVE  /\ next(a) = IF a = m THEN IF k < n THEN p[k] ELSE NULL
                          ELSE IF a = p[k - 1] THEN m ELSE h[a].next
             /\ root(a) = IF a = m THEN p[k - 1]
                          ELSE IF k < n /\ a = p[k] THEN m ELSE h[a].root
  <2>1. a # nx[k] \/ (k < n /\ a = p[k])
    BY <1>0, <1>6
  <2>2. ASSUME \E i \in 1 .. k - 1 : a = nx[i]
        PROVE  nx[(CHOOSE i \in 1 .. k - 1 : a = nx[i]) - 1] = h[a].root
    <3> DEFINE i == CHOOSE j \in 1 .. k - 1 : a = nx[j]
    <3>1. i \in 1 .. k - 1 /\ a = nx[i]
      BY <2>2
    <3> HIDE DEF i
    <3>2. i \in 0 .. n - 1 /\ i - 1 \in 0 .. n - 1 /\ i \in 1 .. n - 1
      BY <1>0, <1>5, <3>1
    <3>3. nx[i - 1] = h[a].root
      BY <1>1, <3>1, <3>2 DEF Chain
    <3> QED BY <3>3 DEF i
  <2>3. root(a) = IF a = m THEN p[k - 1] ELSE IF k < n /\ a = p[k] THEN m ELSE h[a].root
    BY <1>6, <2>1, <2>2
  <2>4. next(a) = IF a = m THEN IF k < n THEN p[k] ELSE NULL
                  ELSE IF a = p[k - 1] THEN m ELSE h[a].next
    BY <1>6
  <2> QED BY <2>3, <2>4
<1> HIDE DEF next, root
<1>8. \A a \in DOMAIN h : add(h, SENTINEL, m)[a] = AddedHdr(h, p, n, k, m, a)
  BY <1>3, <1>7 DEF AddedHdr
<1>9. DOMAIN add(h, SENTINEL, m) = DOMAIN h /\ addHead(h, SENTINEL, m) = SENTINEL
  <2>1. DOMAIN add(h, SENTINEL, m) = DOMAIN h
    BY <1>3
  <2>2. addHead(h, SENTINEL, m) = SENTINEL
    BY <1>4, <1>6
  <2> QED BY <2>1, <2>2
<1> QED BY <1>2, <1>5, <1>8, <1>9

(***************************************************************************)
(* add puts m into the chain, in order, and changes no block.              *)
(***************************************************************************)
LEMMA Added ==
  ASSUME NEW h, IsHeap(h), NEW n, NEW p, Chain(h, p, n),
         NEW m \in DOMAIN h, \A i \in 0 .. n - 1 : p[i] # m, h[SENTINEL].size < h[m].size
  PROVE  /\ IsHeap(add(h, SENTINEL, m))
         /\ SameBlocks(h, add(h, SENTINEL, m))
         /\ addHead(h, SENTINEL, m) = SENTINEL
         /\ \E k \in 1 .. n : Chain(add(h, SENTINEL, m), InsertAt(p, n, k, m), n + 1)
         /\ \A a \in DOMAIN h : (a # m /\ \A i \in 0 .. n - 1 : p[i] # a) =>
                add(h, SENTINEL, m)[a].next = h[a].next /\ add(h, SENTINEL, m)[a].root = h[a].root
         /\ add(h, SENTINEL, m)[SENTINEL].root = h[SENTINEL].root
<1> DEFINE g == add(h, SENTINEL, m)
<1>1. PICK k \in 1 .. n :
           /\ k < n => h[p[k]].size >= h[m].size
           /\ \A i \in 0 .. k - 1 : h[p[i]].size < h[m].size
           /\ addHead(h, SENTINEL, m) = SENTINEL
           /\ DOMAIN g = DOMAIN h
           /\ \A a \in DOMAIN h :
                g[a] = AddedHdr(h, p, n, k, m, a)
  BY AddFields
<1>0. /\ n \in Nat /\ n >= 1 /\ k \in Nat /\ k >= 1 /\ k <= n /\ NULL \in Nat
      /\ DOMAIN h \subseteq Nat /\ \A i \in 0 .. n - 1 : p[i] \in DOMAIN h
      /\ \A a \in DOMAIN h : h[a] \in Header
  BY DEF Chain, IsHeap, Header, NULL
<1>00. (k < n => h[p[k]].size >= h[m].size) /\ \A i \in 0 .. k - 1 : h[p[i]].size < h[m].size
  BY <1>1
<1>01. g = [a \in DOMAIN h |-> g[a]]
  BY DEF add
<1> HIDE DEF g
<1>2. ASSUME NEW a \in DOMAIN h
      PROVE  /\ g[a] \in Header /\ g[a].size = h[a].size /\ g[a].state = h[a].state
             /\ g[a].next = IF a = m THEN IF k < n THEN p[k] ELSE NULL
                            ELSE IF a = p[k - 1] THEN m ELSE h[a].next
             /\ g[a].root = IF a = m THEN p[k - 1]
                            ELSE IF k < n /\ a = p[k] THEN m ELSE h[a].root
  <2> DEFINE nn == IF a = m THEN IF k < n THEN p[k] ELSE NULL
                   ELSE IF a = p[k - 1] THEN m ELSE h[a].next
             rr == IF a = m THEN p[k - 1] ELSE IF k < n /\ a = p[k] THEN m ELSE h[a].root
  <2>1. k - 1 \in 0 .. n - 1 /\ (k < n => k \in 0 .. n - 1)
    BY <1>0
  <2>2. nn \in Nat /\ rr \in Nat /\ h[a] \in Header
    BY <1>0, <2>1 DEF Header
  <2>3. g[a] = [h[a] EXCEPT !.next = nn, !.root = rr]
    BY <1>1 DEF AddedHdr
  <2> HIDE DEF nn, rr
  <2>4. /\ g[a] \in Header /\ g[a].size = h[a].size /\ g[a].state = h[a].state
        /\ g[a].next = nn /\ g[a].root = rr
    BY <2>2, <2>3 DEF Header
  <2> QED BY <2>4 DEF nn, rr
<1>3. IsHeap(g)
  BY <1>01, <1>1, <1>2 DEF IsHeap
<1>4. SameBlocks(h, g)
  BY <1>1, <1>2 DEF SameBlocks
<1>5. Chain(g, InsertAt(p, n, k, m), n + 1)
  <2> DEFINE q == InsertAt(p, n, k, m)
             I == 0 .. n
  <2>1. /\ q = [i \in I |-> q[i]]
        /\ \A i \in I : q[i] = IF i < k THEN p[i] ELSE IF i = k THEN m ELSE p[i - 1]
    BY DEF InsertAt
  <2> HIDE DEF q
  <2>2. ASSUME NEW i \in I
        PROVE  /\ i \in Nat
               /\ i < k => i \in 0 .. n - 1 /\ q[i] = p[i]
               /\ i = k => q[i] = m
               /\ i > k => i - 1 \in 0 .. n - 1 /\ q[i] = p[i - 1]
    BY <1>0, <2>1
  <2>3. ASSUME NEW i \in I PROVE q[i] \in DOMAIN h
    BY <1>0, <2>2
  <2>4. q \in [0 .. n + 1 - 1 -> DOMAIN g] /\ q[0] = SENTINEL
    <3>1. n + 1 - 1 = n /\ 0 \in I /\ 0 < k
      BY <1>0
    <3> QED BY <1>1, <2>1, <2>2, <2>3, <3>1 DEF Chain
  <2>5. ASSUME NEW i \in I, NEW j \in I, q[i] = q[j] PROVE i = j
    <3>1. \A a, b \in 0 .. n - 1 : p[a] = p[b] => a = b
      BY DEF Chain
    <3> QED BY <1>0, <2>2, <2>5, <3>1
  <2>6. ASSUME NEW i \in 0 .. n - 1 PROVE g[q[i]].next = q[i + 1]
    <3>1. i \in I /\ i + 1 \in I /\ i \in Nat
      BY <1>0
    <3>2. CASE i < k - 1
      <4>1. i \in 0 .. n - 2 /\ k - 1 \in 0 .. n - 1 /\ i # k - 1 /\ i < k /\ i + 1 < k
        BY <1>0, <3>1, <3>2
      <4>2. q[i] = p[i] /\ q[i + 1] = p[i + 1] /\ p[i] # m /\ p[i] # p[k - 1]
        BY <2>2, <3>1, <4>1 DEF Chain
      <4> QED BY <1>2, <2>3, <3>1, <4>1, <4>2 DEF Chain
    <3>3. CASE i = k - 1
      <4>1. i < k /\ i + 1 = k
        BY <1>0, <3>3
      <4> QED BY <1>2, <2>2, <2>3, <3>1, <3>3, <4>1
    <3>4. CASE i = k
      <4>1. k < n /\ i + 1 > k /\ i + 1 - 1 = k
        BY <1>0, <3>4
      <4> QED BY <1>2, <2>2, <2>3, <3>1, <3>4, <4>1
    <3>5. CASE i > k
      <4>1. /\ i - 1 \in 0 .. n - 2 /\ i - 1 + 1 = i /\ i + 1 - 1 = i /\ i + 1 > k /\ i - 1 # k - 1
            /\ k - 1 \in 0 .. n - 1 /\ i - 1 \in 0 .. n - 1
        BY <1>0, <3>1, <3>5
      <4>2. q[i] = p[i - 1] /\ q[i + 1] = p[i] /\ p[i - 1] # m /\ p[i - 1] # p[k - 1]
        BY <2>2, <3>1, <3>5, <4>1 DEF Chain
      <4> QED BY <1>2, <2>3, <3>1, <4>1, <4>2 DEF Chain
    <3> QED BY <1>0, <3>1, <3>2, <3>3, <3>4, <3>5
  <2>7. g[q[n]].next = NULL
    <3>1. n \in I
      BY <1>0
    <3>2. CASE k = n
      BY <1>2, <2>2, <3>1, <3>2
    <3>3. CASE k < n
      <4>1. n - 1 \in 0 .. n - 1 /\ n > k /\ k - 1 \in 0 .. n - 1 /\ n - 1 # k - 1
        BY <1>0, <3>3
      <4>2. q[n] = p[n - 1] /\ p[n - 1] # m /\ p[n - 1] # p[k - 1]
        BY <2>2, <3>1, <4>1 DEF Chain
      <4> QED BY <1>2, <2>3, <3>1, <4>2 DEF Chain
    <3> QED BY <1>0, <3>2, <3>3
  <2>8. ASSUME NEW i \in 1 .. n PROVE g[q[i]].root = q[i - 1]
    <3>1. i \in I /\ i - 1 \in I /\ i \in Nat /\ i >= 1
      BY <1>0
    <3>2. CASE i < k
      <4>1. i \in 1 .. n - 1 /\ i \in 0 .. n - 1 /\ i - 1 < k /\ (k < n => k \in 0 .. n - 1) /\ i # k
        BY <1>0, <3>1, <3>2
      <4>2. q[i] = p[i] /\ q[i - 1] = p[i - 1] /\ p[i] # m /\ ~(k < n /\ p[i] = p[k])
        BY <2>2, <3>1, <3>2, <4>1 DEF Chain
      <4> QED BY <1>2, <2>3, <3>1, <4>1, <4>2 DEF Chain
    <3>3. CASE i = k
      <4>1. i - 1 < k
        BY <1>0, <3>3
      <4> QED BY <1>2, <2>2, <2>3, <3>1, <3>3, <4>1
    <3>4. CASE i = k + 1
      <4>1. k < n /\ i > k /\ i - 1 = k /\ k \in 0 .. n - 1
        BY <1>0, <3>1, <3>4
      <4>2. q[i] = p[k] /\ q[i - 1] = m /\ p[k] # m
        BY <2>2, <3>1, <4>1
      <4> QED BY <1>2, <2>3, <3>1, <4>1, <4>2
    <3>5. CASE i > k + 1
      <4>1. /\ i - 1 \in 1 .. n - 1 /\ i - 1 \in 0 .. n - 1 /\ i > k /\ i - 1 > k /\ i - 1 # k
            /\ (k < n => k \in 0 .. n - 1)
        BY <1>0, <3>1, <3>5
      <4>2. q[i] = p[i - 1] /\ q[i - 1] = p[i - 1 - 1] /\ p[i - 1] # m /\ ~(k < n /\ p[i - 1] = p[k])
        BY <2>2, <3>1, <4>1 DEF Chain
      <4> QED BY <1>2, <2>3, <3>1, <4>1, <4>2 DEF Chain
    <3> QED BY <1>0, <3>1, <3>2, <3>3, <3>4, <3>5
  <2>9. ASSUME NEW i \in I, NEW j \in I, i <= j PROVE g[q[i]].size <= g[q[j]].size
    <3>1. g[q[i]].size = h[q[i]].size /\ g[q[j]].size = h[q[j]].size
      BY <1>2, <2>3
    <3>2. \A a, b \in 0 .. n - 1 : a <= b => h[p[a]].size <= h[p[b]].size
      BY DEF Chain
    <3>3. \A a \in 0 .. n - 1 : h[p[a]].size \in Nat
      BY <1>0 DEF Header
    <3>4. h[m].size \in Nat
      BY <1>0 DEF Header
    <3>5. \A a \in 0 .. n - 1 : a < k => h[p[a]].size <= h[m].size
      <4>1. \A a \in 0 .. n - 1 : a < k => a \in 0 .. k - 1
        BY <1>0
      <4> QED BY <1>00, <3>3, <3>4, <4>1
    <3>6. \A a \in 0 .. n - 1 : a >= k => h[m].size <= h[p[a]].size
      <4>1. ASSUME NEW a \in 0 .. n - 1, a >= k PROVE h[m].size <= h[p[a]].size
        <5>1. k \in 0 .. n - 1 /\ k < n
          BY <1>0, <4>1
        <5> QED BY <1>00, <3>2, <3>3, <3>4, <4>1, <5>1
      <4> QED BY <4>1
    <3>7. h[q[i]].size <= h[q[j]].size
      <4>1. CASE j < k
        BY <1>0, <2>2, <2>9, <3>2, <4>1
      <4>2. CASE j = k
        BY <1>0, <2>2, <2>9, <3>4, <3>5, <4>2
      <4>3. CASE j > k
        <5>1. CASE i < k
          BY <1>0, <2>2, <2>9, <3>2, <4>3, <5>1
        <5>2. CASE i = k
          BY <1>0, <2>2, <2>9, <3>6, <4>3, <5>2
        <5>3. CASE i > k
          BY <1>0, <2>2, <2>9, <3>2, <4>3, <5>3
        <5> QED BY <1>0, <2>2, <5>1, <5>2, <5>3
      <4> QED BY <1>0, <2>2, <4>1, <4>2, <4>3
    <3> QED BY <3>1, <3>7
  <2>10. n + 1 \in Nat \ {0} /\ n + 1 - 1 = n /\ n + 1 - 2 = n - 1
    BY <1>0
  <2> QED BY <2>4, <2>5, <2>6, <2>7, <2>8, <2>9, <2>10 DEF Chain, q
<1>6. ASSUME NEW a \in DOMAIN h, a # m, \A i \in 0 .. n - 1 : p[i] # a
      PROVE  g[a].next = h[a].next /\ g[a].root = h[a].root
  <2>1. k - 1 \in 0 .. n - 1 /\ (k < n => k \in 0 .. n - 1)
    BY <1>0
  <2> QED BY <1>2, <1>6, <2>1
<1>7. g[SENTINEL].root = h[SENTINEL].root
  <2>1. 0 \in 0 .. n - 1 /\ (k < n => k \in 0 .. n - 1 /\ k # 0)
    BY <1>0
  <2>2. SENTINEL \in DOMAIN h /\ SENTINEL # m /\ (k < n => SENTINEL # p[k])
    BY <1>0, <2>1 DEF Chain
  <2> QED BY <1>2, <2>2
<1> QED BY <1>1, <1>3, <1>4, <1>5, <1>6, <1>7 DEF g

(***************************************************************************)
(* del takes the node at position k out of the chain and changes no block. *)
(* The links of the node itself stay as they were.                         *)
(***************************************************************************)
LEMMA Deleted ==
  ASSUME NEW h, IsHeap(h), NEW n, NEW p, Chain(h, p, n), NEW k \in 1 .. n - 1
  PROVE  /\ IsHeap(del(h, p[k]))
         /\ SameBlocks(h, del(h, p[k]))
         /\ Chain(del(h, p[k]), RemoveAt(p, n, k), n - 1)
         /\ \A a \in DOMAIN h : (a = p[k] \/ \A i \in 0 .. n - 1 : p[i] # a) =>
                del(h, p[k])[a].next = h[a].next /\ del(h, p[k])[a].root = h[a].root
         /\ del(h, p[k])[SENTINEL].root = h[SENTINEL].root
         /\ Linked(h) => Linked(del(h, p[k]))
<1> DEFINE g == del(h, p[k])
           r == p[k - 1]
           nn == IF k < n - 1 THEN p[k + 1] ELSE NULL
<1>0. /\ n \in Nat /\ k \in Nat /\ k >= 1 /\ k <= n - 1 /\ n >= 2
      /\ DOMAIN h \subseteq Nat /\ NULL \notin DOMAIN h /\ NULL \in Nat
      /\ \A i \in 0 .. n - 1 : p[i] \in DOMAIN h
      /\ \A i, j \in 0 .. n - 1 : p[i] = p[j] => i = j
      /\ \A a \in DOMAIN h : h[a] \in Header
  BY DEF Chain, IsHeap, Header, NULL
<1>1. h[p[k]].root = r /\ h[p[k]].next = nn
  <2>1. k < n - 1 => k \in 0 .. n - 2
    BY <1>0
  <2>2. ~(k < n - 1) => k = n - 1
    BY <1>0
  <2> QED BY <2>1, <2>2 DEF Chain
<1>2. r \in DOMAIN h /\ nn \in Nat
  <2>1. k - 1 \in 0 .. n - 1 /\ (k < n - 1 => k + 1 \in 0 .. n - 1)
    BY <1>0
  <2> QED BY <1>0, <2>1
<1>3. g = [a \in DOMAIN h |->
              [h[a] EXCEPT !.next = IF a = r THEN nn ELSE h[a].next,
                           !.root = IF a = nn THEN r ELSE h[a].root]]
  BY <1>1 DEF del
<1> HIDE DEF g, r, nn
<1>4. ASSUME NEW a \in DOMAIN h
      PROVE  /\ g[a] \in Header /\ g[a].size = h[a].size /\ g[a].state = h[a].state
             /\ g[a].next = IF a = r THEN nn ELSE h[a].next
             /\ g[a].root = IF a = nn THEN r ELSE h[a].root
  <2> DEFINE e == IF a = r THEN nn ELSE h[a].next
             f == IF a = nn THEN r ELSE h[a].root
  <2>1. e \in Nat /\ f \in Nat /\ h[a] \in Header
    BY <1>0, <1>2 DEF Header
  <2>2. g[a] = [h[a] EXCEPT !.next = e, !.root = f]
    BY <1>3
  <2> HIDE DEF e, f
  <2>3. g[a] \in Header /\ g[a].size = h[a].size /\ g[a].state = h[a].state /\ g[a].next = e /\ g[a].root = f
    BY <2>1, <2>2 DEF Header
  <2> QED BY <2>3 DEF e, f
<1>5. DOMAIN g = DOMAIN h /\ g = [a \in DOMAIN h |-> g[a]]
  BY <1>3
<1>6. IsHeap(g) /\ SameBlocks(h, g)
  BY <1>4, <1>5 DEF IsHeap, SameBlocks
<1>7. ASSUME NEW i \in 0 .. n - 1
      PROVE  /\ p[i] = r <=> i = k - 1
             /\ p[i] = nn <=> i = k + 1
  <2>1. k - 1 \in 0 .. n - 1 /\ (k < n - 1 => k + 1 \in 0 .. n - 1) /\ (~(k < n - 1) => i # k + 1)
    BY <1>0
  <2> QED BY <1>0, <2>1 DEF r, nn
<1>8. Chain(g, RemoveAt(p, n, k), n - 1)
  <2> DEFINE q == RemoveAt(p, n, k)
             I == 0 .. n - 2
  <2>1. q = [i \in I |-> q[i]] /\ \A i \in I : q[i] = IF i < k THEN p[i] ELSE p[i + 1]
    BY DEF RemoveAt
  <2> HIDE DEF q
  <2>2. ASSUME NEW i \in I
        PROVE  /\ i \in Nat /\ i \in 0 .. n - 1 /\ i + 1 \in 0 .. n - 1
               /\ i < k => q[i] = p[i]
               /\ i >= k => q[i] = p[i + 1]
               /\ q[i] \in DOMAIN h
    BY <1>0, <2>1
  <2>3. q \in [0 .. n - 1 - 1 -> DOMAIN g] /\ q[0] = SENTINEL
    <3>1. n - 1 - 1 = n - 2 /\ 0 \in I /\ 0 < k
      BY <1>0
    <3> QED BY <1>5, <2>1, <2>2, <3>1 DEF Chain
  <2>4. ASSUME NEW i \in I, NEW j \in I, q[i] = q[j] PROVE i = j
    BY <1>0, <2>2, <2>4
  <2>5. ASSUME NEW i \in 0 .. n - 3 PROVE g[q[i]].next = q[i + 1]
    <3>1. i \in I /\ i + 1 \in I /\ i \in Nat
      BY <1>0
    <3>2. CASE i < k - 1
      <4>1. i < k /\ i + 1 < k /\ i # k - 1 /\ i \in 0 .. n - 2
        BY <1>0, <3>1, <3>2
      <4>2. q[i] = p[i] /\ q[i + 1] = p[i + 1] /\ p[i] # r
        BY <1>7, <2>2, <3>1, <4>1
      <4>3. h[p[i]].next = p[i + 1]
        BY <4>1 DEF Chain
      <4> QED BY <1>4, <2>2, <3>1, <4>2, <4>3
    <3>3. CASE i = k - 1
      <4>1. i < k /\ i + 1 = k /\ k < n - 1
        BY <1>0, <3>1, <3>3
      <4>2. q[i] = r /\ q[i + 1] = p[k + 1]
        BY <1>0, <1>7, <2>2, <3>1, <3>3, <4>1
      <4> QED BY <1>4, <2>2, <3>1, <4>1, <4>2 DEF nn
    <3>4. CASE i > k - 1
      <4>1. i >= k /\ i + 1 >= k /\ i + 1 # k - 1 /\ i + 1 \in 0 .. n - 2
        BY <1>0, <3>1, <3>4
      <4>2. q[i] = p[i + 1] /\ q[i + 1] = p[i + 1 + 1] /\ p[i + 1] # r
        BY <1>7, <2>2, <3>1, <4>1
      <4>3. h[p[i + 1]].next = p[i + 1 + 1]
        BY <4>1 DEF Chain
      <4> QED BY <1>4, <2>2, <3>1, <4>2, <4>3
    <3> QED BY <1>0, <3>1, <3>2, <3>3, <3>4
  <2>6. g[q[n - 2]].next = NULL
    <3>1. n - 2 \in I
      BY <1>0
    <3>2. CASE k = n - 1
      <4>1. n - 2 = k - 1 /\ n - 2 < k /\ ~(k < n - 1)
        BY <1>0, <3>2
      <4>2. q[n - 2] = r
        BY <1>7, <2>2, <3>1, <4>1
      <4> QED BY <1>4, <2>2, <3>1, <4>1, <4>2 DEF nn
    <3>3. CASE k < n - 1
      <4>1. n - 2 >= k /\ n - 2 + 1 = n - 1 /\ n - 1 # k - 1 /\ n - 1 \in 0 .. n - 1
        BY <1>0, <3>3
      <4>2. q[n - 2] = p[n - 1] /\ p[n - 1] # r
        BY <1>7, <2>2, <3>1, <4>1
      <4> QED BY <1>4, <2>2, <3>1, <4>2 DEF Chain
    <3> QED BY <1>0, <3>2, <3>3
  <2>7. ASSUME NEW i \in 1 .. n - 2 PROVE g[q[i]].root = q[i - 1]
    <3>1. i \in I /\ i - 1 \in I /\ i \in Nat /\ i >= 1
      BY <1>0
    <3>2. CASE i < k
      <4>1. i - 1 < k /\ i # k + 1 /\ i \in 1 .. n - 1
        BY <1>0, <3>1, <3>2
      <4>2. q[i] = p[i] /\ q[i - 1] = p[i - 1] /\ p[i] # nn
        BY <1>7, <2>2, <3>1, <3>2, <4>1
      <4> QED BY <1>4, <2>2, <3>1, <4>1, <4>2 DEF Chain
    <3>3. CASE i = k
      <4>1. i >= k /\ i - 1 < k /\ i + 1 = k + 1
        BY <1>0, <3>3
      <4>2. q[i] = nn /\ q[i - 1] = r
        BY <1>7, <2>2, <3>1, <3>3, <4>1
      <4> QED BY <1>4, <2>2, <3>1, <4>2
    <3>4. CASE i > k
      <4>1. i >= k /\ i - 1 >= k /\ i + 1 # k + 1 /\ i + 1 \in 1 .. n - 1 /\ i - 1 + 1 = i /\ i + 1 - 1 = i
        BY <1>0, <3>1, <3>4
      <4>2. q[i] = p[i + 1] /\ q[i - 1] = p[i] /\ p[i + 1] # nn
        BY <1>7, <2>2, <3>1, <4>1
      <4>3. h[p[i + 1]].root = p[i]
        <5>1. \A j \in 1 .. n - 1 : h[p[j]].root = p[j - 1]
          BY DEF Chain
        <5> QED BY <4>1, <5>1
      <4> QED BY <1>4, <2>2, <3>1, <4>2, <4>3
    <3> QED BY <1>0, <3>1, <3>2, <3>3, <3>4
  <2>8. ASSUME NEW i \in I, NEW j \in I, i <= j PROVE g[q[i]].size <= g[q[j]].size
    <3>1. g[q[i]].size = h[q[i]].size /\ g[q[j]].size = h[q[j]].size
      BY <1>4, <2>2
    <3>2. \A a, b \in 0 .. n - 1 : a <= b => h[p[a]].size <= h[p[b]].size
      BY DEF Chain
    <3>3. h[q[i]].size <= h[q[j]].size
      <4>1. CASE j < k
        BY <1>0, <2>2, <2>8, <3>2, <4>1
      <4>2. CASE j >= k /\ i < k
        BY <1>0, <2>2, <2>8, <3>2, <4>2
      <4>3. CASE j >= k /\ i >= k
        BY <1>0, <2>2, <2>8, <3>2, <4>3
      <4> QED BY <1>0, <2>2, <4>1, <4>2, <4>3
    <3> QED BY <3>1, <3>3
  <2>9. n - 1 \in Nat \ {0} /\ n - 1 - 1 = n - 2 /\ n - 1 - 2 = n - 3
    BY <1>0
  <2> QED BY <2>3, <2>4, <2>5, <2>6, <2>7, <2>8, <2>9 DEF Chain, q
<1>9. ASSUME NEW a \in DOMAIN h, a = p[k] \/ \A i \in 0 .. n - 1 : p[i] # a
      PROVE  g[a].next = h[a].next /\ g[a].root = h[a].root
  <2>1. k \in 0 .. n - 1 /\ k # k - 1 /\ k # k + 1 /\ k - 1 \in 0 .. n - 1
    BY <1>0
  <2>2. a # r
    BY <1>7, <1>9, <2>1 DEF r
  <2>3. a # nn
    <3>1. k < n - 1 => k + 1 \in 0 .. n - 1
      BY <1>0
    <3> QED BY <1>0, <1>7, <1>9, <2>1, <3>1 DEF nn
  <2> QED BY <1>4, <2>2, <2>3
<1>10. g[SENTINEL].root = h[SENTINEL].root
  <2>1. 0 \in 0 .. n - 1 /\ 0 # k + 1
    BY <1>0
  <2>2. SENTINEL \in DOMAIN h /\ SENTINEL # nn
    BY <1>0, <1>7, <2>1 DEF Chain
  <2> QED BY <1>4, <2>2
<1>11. ASSUME Linked(h) PROVE Linked(g)
  <2>1. nn \in DOMAIN h \cup {NULL}
    <3>1. k < n - 1 => k + 1 \in 0 .. n - 1
      BY <1>0
    <3> QED BY <1>0, <3>1 DEF nn
  <2> QED BY <1>2, <1>4, <1>5, <1>11, <2>1 DEF Linked
<1> QED BY <1>6, <1>8, <1>9, <1>10, <1>11 DEF g

-----------------------------------------------------------------------------
(***************************************************************************)
(* Pages.  Base is where the page of an address starts.                    *)
(***************************************************************************)
Base(a) == PageOf(a) * PAGE

\* What the arithmetic of pages gives for one address.
LEMMA PageFacts ==
  ASSUME NEW a \in Nat
  PROVE  /\ PageOf(a) \in Nat /\ Base(a) \in Nat /\ PAGE \in Nat /\ PAGE > HDR /\ PAGE > 0
         /\ Base(a) <= a /\ a < Base(a) + PAGE
         /\ a % PAGE \in 0 .. PAGE - 1 /\ a = Base(a) + (a % PAGE)
<1>1. PAGE \in Nat /\ PAGE > HDR /\ PAGE > 0
  BY MallocAssumption DEF HDR
<1>2. PageOf(a) \in Nat /\ a % PAGE \in 0 .. PAGE - 1 /\ a = Base(a) + (a % PAGE)
  BY <1>1, Division DEF PageOf, Base
<1>3. Base(a) \in Nat
  BY <1>1, <1>2 DEF Base
<1> QED BY <1>1, <1>2, <1>3

(***************************************************************************)
(* Pages come one after the other.                                         *)
(***************************************************************************)
LEMMA PageOrder ==
  ASSUME NEW f \in Nat, NEW g \in Nat, f < g
  PROVE  f * PAGE + PAGE <= g * PAGE
<1>1. PAGE \in Nat
  BY MallocAssumption
<1>2. PICK d \in Nat : g = f + 1 + d
  <2>1. g - f - 1 \in Nat /\ g = f + 1 + (g - f - 1)
    OBVIOUS
  <2> QED BY <2>1
<1>3. g * PAGE = f * PAGE + PAGE + d * PAGE /\ d * PAGE \in Nat /\ f * PAGE \in Nat
  BY <1>1, <1>2
<1> QED BY <1>1, <1>3

(***************************************************************************)
(* An address between the start and the end of a page is in that page.     *)
(***************************************************************************)
LEMMA InPage ==
  ASSUME NEW f \in Nat, NEW a \in Nat, f * PAGE <= a, a < f * PAGE + PAGE
  PROVE  PageOf(a) = f
<1>1. PageOf(a) \in Nat /\ Base(a) \in Nat /\ PAGE \in Nat /\ Base(a) <= a /\ a < Base(a) + PAGE
  BY PageFacts
<1>2. f * PAGE \in Nat
  BY <1>1
<1>3. ~(PageOf(a) < f)
  <2>1. PageOf(a) < f => Base(a) + PAGE <= f * PAGE
    BY <1>1, PageOrder DEF Base
  <2> QED BY <1>1, <1>2, <2>1
<1>4. ~(f < PageOf(a))
  <2>1. f < PageOf(a) => f * PAGE + PAGE <= Base(a)
    BY <1>1, PageOrder DEF Base
  <2> QED BY <1>1, <1>2, <2>1
<1> QED BY <1>1, <1>3, <1>4

\* Two addresses share a page exactly if the second lies in the first one's.
LEMMA SamePage ==
  ASSUME NEW a \in Nat, NEW b \in Nat
  PROVE  PageOf(b) = PageOf(a) <=> (Base(a) <= b /\ b < Base(a) + PAGE)
<1>1. PageOf(a) \in Nat
  BY PageFacts
<1>2. (Base(a) <= b /\ b < Base(a) + PAGE) => PageOf(b) = PageOf(a)
  BY <1>1, InPage DEF Base
<1>3. PageOf(b) = PageOf(a) => Base(b) = Base(a)
  BY DEF Base
<1>4. Base(b) <= b /\ b < Base(b) + PAGE
  BY PageFacts
<1> QED BY <1>2, <1>3, <1>4

(***************************************************************************)
(* A frame starts in its own page, at an aligned address.                  *)
(***************************************************************************)
LEMMA FrameStart ==
  ASSUME NEW f \in Nat
  PROVE  /\ f * PAGE \in Nat /\ PageOf(f * PAGE) = f /\ Base(f * PAGE) = f * PAGE
         /\ (f * PAGE) % 4 = 0
<1>1. PAGE \in Nat /\ PAGE % 4 = 0 /\ PAGE > 0
  BY MallocAssumption DEF ALIGN, HDR
<1>2. f * PAGE \in Nat
  BY <1>1
<1>3. PageOf(f * PAGE) = f
  BY <1>1, <1>2, InPage
<1>4. (f * PAGE) % 4 = 0
  <2>1. PICK q \in Nat : PAGE = 4 * q
    <3>1. PAGE \div 4 \in Nat /\ PAGE = 4 * (PAGE \div 4)
      BY <1>1
    <3> QED BY <3>1
  <2>2. f * PAGE = 4 * (f * q) /\ f * q \in Nat
    BY <1>1, <2>1
  <2>3. ASSUME NEW x \in Nat PROVE (4 * x) % 4 = 0
    OBVIOUS
  <2> QED BY <2>2, <2>3
<1> QED BY <1>2, <1>3, <1>4 DEF Base

-----------------------------------------------------------------------------
(***************************************************************************)
(* Geometry.  The blocks L tile the frames fr: block after block from the  *)
(* start of the page to its end, aligned, none empty.                      *)
(***************************************************************************)
Stop(h, a) == a + HDR + h[a].size

Sized(h, L) ==
    \A a \in L : h[a].size \in Nat /\ h[a].size > 0 /\ h[a].size % 4 = 0

Placed(L, fr) ==
    /\ fr \subseteq 1 .. Frames
    /\ \A a \in L : a \in Nat /\ a % 4 = 0 /\ PageOf(a) \in fr
    /\ \A f \in fr : f * PAGE \in L

Tiling(h, L) ==
    /\ \A a \in L : Stop(h, a) <= Base(a) + PAGE
    /\ \A a \in L : Stop(h, a) = Base(a) + PAGE \/ Stop(h, a) \in L

Apart(h, L) == \A a, b \in L : a < b => Stop(h, a) <= b

Geo(h, L, fr) == Sized(h, L) /\ Placed(L, fr) /\ Tiling(h, L) /\ Apart(h, L)

(***************************************************************************)
(* What the lemmas below use of one block.                                 *)
(***************************************************************************)
LEMMA BlockFacts ==
  ASSUME NEW h, NEW L, NEW fr, Geo(h, L, fr), NEW a \in L
  PROVE  /\ a \in Nat /\ a % 4 = 0 /\ PageOf(a) \in fr /\ PageOf(a) \in 1 .. Frames /\ Frames \in Nat
         /\ h[a].size \in Nat /\ h[a].size > 0 /\ h[a].size % 4 = 0
         /\ Stop(h, a) \in Nat /\ Stop(h, a) = a + 16 + h[a].size
         /\ Base(a) \in Nat /\ PAGE \in Nat /\ PAGE > 16
         /\ Base(a) <= a /\ a < Base(a) + PAGE /\ Stop(h, a) <= Base(a) + PAGE
         /\ Stop(h, a) < Base(a) + PAGE => Stop(h, a) \in L
         /\ PAGE <= Base(a) /\ a # SENTINEL /\ a # NULL
         /\ PageOf(Stop(h, a)) = PageOf(a) <=> Stop(h, a) < Base(a) + PAGE
<1>1. a \in Nat /\ a % 4 = 0 /\ PageOf(a) \in fr /\ PageOf(a) \in 1 .. Frames /\ Frames \in Nat
  BY MallocAssumption DEF Geo, Placed
<1>2. h[a].size \in Nat /\ h[a].size > 0 /\ h[a].size % 4 = 0
  BY DEF Geo, Sized
<1>3. Stop(h, a) \in Nat /\ Stop(h, a) = a + 16 + h[a].size
  BY <1>1, <1>2 DEF Stop, HDR
<1>4. Base(a) \in Nat /\ PAGE \in Nat /\ PAGE > 16 /\ Base(a) <= a /\ a < Base(a) + PAGE
  BY <1>1, PageFacts DEF HDR
<1>5. Stop(h, a) <= Base(a) + PAGE /\ (Stop(h, a) = Base(a) + PAGE \/ Stop(h, a) \in L)
  BY DEF Geo, Tiling
<1>6. PAGE <= Base(a)
  <2>1. 0 * PAGE + PAGE <= PageOf(a) * PAGE
    <3>1. PageOf(a) \in Nat /\ 0 < PageOf(a)
      BY <1>1
    <3> QED BY <3>1, PageOrder
  <2> QED BY <1>4, <2>1 DEF Base
<1>7. a # SENTINEL /\ a # NULL
  BY <1>1, <1>4, <1>6 DEF SENTINEL, NULL, HDR
<1>8. PageOf(Stop(h, a)) = PageOf(a) <=> Stop(h, a) < Base(a) + PAGE
  <2>1. Base(a) <= Stop(h, a)
    BY <1>1, <1>2, <1>3, <1>4
  <2> QED BY <1>1, <1>3, <2>1, SamePage
<1>9. Stop(h, a) < Base(a) + PAGE => Stop(h, a) \in L
  BY <1>3, <1>4, <1>5
<1> QED BY <1>1, <1>2, <1>3, <1>4, <1>5, <1>6, <1>7, <1>8, <1>9

(***************************************************************************)
(* Links do not matter.                                                    *)
(***************************************************************************)
LEMMA GeoSame ==
  ASSUME NEW h, NEW g, NEW L, NEW fr, Geo(h, L, fr), \A a \in L : g[a].size = h[a].size
  PROVE  Geo(g, L, fr) /\ \A a \in L : Stop(g, a) = Stop(h, a)
<1>1. \A a \in L : Stop(g, a) = Stop(h, a)
  BY DEF Stop
<1>2. Sized(g, L)
  BY DEF Geo, Sized
<1>3. Tiling(g, L) /\ Apart(g, L)
  BY <1>1 DEF Geo, Tiling, Apart
<1> QED BY <1>1, <1>2, <1>3 DEF Geo

(***************************************************************************)
(* malloc cuts a block in two.                                             *)
(***************************************************************************)
LEMMA GeoSplit ==
  ASSUME NEW h, NEW g, NEW L, NEW fr, Geo(h, L, fr), NEW m \in L,
         NEW s \in Nat, s > 0, s % 4 = 0, h[m].size >= s + 4 + HDR,
         NEW t, t = m + HDR + s,
         g[m].size = s, g[t].size = h[m].size - s - HDR,
         \A a \in L : a # m => g[a].size = h[a].size
  PROVE  Geo(g, L \cup {t}, fr) /\ t \notin L /\ t \in Nat /\ t > m /\ PageOf(t) = PageOf(m)
<1>1. /\ m \in Nat /\ m % 4 = 0 /\ PageOf(m) \in fr
      /\ h[m].size \in Nat /\ h[m].size > 0 /\ h[m].size % 4 = 0
      /\ Stop(h, m) \in Nat /\ Stop(h, m) = m + 16 + h[m].size
      /\ Base(m) \in Nat /\ PAGE \in Nat /\ PAGE > 16
      /\ Base(m) <= m /\ m < Base(m) + PAGE /\ Stop(h, m) <= Base(m) + PAGE
  BY BlockFacts
<1>2. t \in Nat /\ t > m /\ t = m + 16 + s /\ t < Stop(h, m) /\ t % 4 = 0
  BY <1>1 DEF HDR
<1>3. t \notin L
  <2>1. t \in L => Stop(h, m) <= t
    BY <1>2 DEF Geo, Apart
  <2> QED BY <1>1, <1>2, <2>1
<1>4. PageOf(t) = PageOf(m) /\ Base(t) = Base(m)
  <2>1. PageOf(t) = PageOf(m)
    BY <1>1, <1>2, SamePage
  <2> QED BY <2>1 DEF Base
<1>5. /\ Stop(g, m) = t
      /\ g[t].size \in Nat /\ g[t].size > 0 /\ g[t].size % 4 = 0
      /\ Stop(g, t) = Stop(h, m)
  BY <1>1, <1>2 DEF Stop, HDR
<1>6. \A a \in L : a # m => Stop(g, a) = Stop(h, a)
  BY DEF Stop
<1>7. Sized(g, L \cup {t})
  BY <1>5 DEF Geo, Sized
<1>8. Placed(L \cup {t}, fr)
  BY <1>1, <1>2, <1>4 DEF Geo, Placed
<1>9. Tiling(g, L \cup {t})
  <2>1. ASSUME NEW a \in L, a # m
        PROVE  Stop(g, a) <= Base(a) + PAGE /\ (Stop(g, a) = Base(a) + PAGE \/ Stop(g, a) \in L)
    BY <1>6, <2>1 DEF Geo, Tiling
  <2>2. Stop(g, m) <= Base(m) + PAGE /\ Stop(g, m) \in L \cup {t}
    BY <1>1, <1>2, <1>5
  <2>3. Stop(g, t) <= Base(t) + PAGE /\ (Stop(g, t) = Base(t) + PAGE \/ Stop(g, t) \in L)
    BY <1>4, <1>5 DEF Geo, Tiling
  <2> QED BY <2>1, <2>2, <2>3 DEF Tiling
<1>10. Apart(g, L \cup {t})
  <2> SUFFICES ASSUME NEW a \in L \cup {t}, NEW b \in L \cup {t}, a < b
               PROVE  Stop(g, a) <= b
    BY DEF Apart
  <2>0. \A x \in L : x \in Nat /\ Stop(h, x) \in Nat
    BY BlockFacts
  <2>1. CASE a \in L /\ a # m /\ b \in L
    BY <1>6, <2>1 DEF Geo, Apart
  <2>2. CASE a \in L /\ a # m /\ b = t
    <3>1. a < m
      <4>1. m < a => Stop(h, m) <= a
        BY <2>2 DEF Geo, Apart
      <4> QED BY <1>1, <1>2, <2>0, <2>2, <4>1
    <3>2. Stop(h, a) <= m
      BY <2>2, <3>1 DEF Geo, Apart
    <3>3. Stop(g, a) = Stop(h, a)
      BY <1>6, <2>2
    <3> QED BY <1>1, <1>2, <2>0, <2>2, <3>2, <3>3
  <2>3. CASE a = m /\ b \in L
    <3>1. Stop(h, m) <= b
      BY <2>3 DEF Geo, Apart
    <3> QED BY <1>1, <1>2, <1>5, <2>0, <2>3, <3>1
  <2>4. CASE a = m /\ b = t
    BY <1>2, <1>5, <2>4
  <2>5. CASE a = t /\ b \in L
    <3>0. b \in Nat /\ t < b
      BY <2>0, <2>5
    <3>1. m < b
      BY <1>1, <1>2, <3>0
    <3> QED BY <1>5, <2>5, <3>1 DEF Geo, Apart
  <2>6. ~(a = t /\ b = t)
    BY <1>2
  <2> QED BY <2>1, <2>2, <2>3, <2>4, <2>5, <2>6
<1> QED BY <1>2, <1>3, <1>4, <1>7, <1>8, <1>9, <1>10 DEF Geo

(***************************************************************************)
(* unite makes one block of two.                                           *)
(***************************************************************************)
LEMMA GeoJoin ==
  ASSUME NEW h, NEW g, NEW L, NEW fr, Geo(h, L, fr), NEW m \in L,
         NEW e, e = Stop(h, m), PageOf(e) = PageOf(m),
         g[m].size = h[m].size + HDR + h[e].size,
         \A a \in L \ {e} : a # m => g[a].size = h[a].size
  PROVE  Geo(g, L \ {e}, fr) /\ e \in L /\ e > m /\ Stop(g, m) = Stop(h, e)
<1>1. /\ m \in Nat /\ m % 4 = 0 /\ PageOf(m) \in fr
      /\ h[m].size \in Nat /\ h[m].size > 0 /\ h[m].size % 4 = 0
      /\ Stop(h, m) \in Nat /\ Stop(h, m) = m + 16 + h[m].size
      /\ Base(m) \in Nat /\ PAGE \in Nat /\ PAGE > 16
      /\ Base(m) <= m /\ m < Base(m) + PAGE /\ Stop(h, m) <= Base(m) + PAGE
      /\ e \in L
  BY BlockFacts
<1>2. /\ e \in Nat /\ h[e].size \in Nat /\ h[e].size > 0 /\ h[e].size % 4 = 0
      /\ Stop(h, e) \in Nat /\ Stop(h, e) = e + 16 + h[e].size
  BY <1>1, BlockFacts
<1>3. e > m /\ Stop(g, m) = Stop(h, e) /\ g[m].size \in Nat /\ g[m].size > 0 /\ g[m].size % 4 = 0
  BY <1>1, <1>2 DEF Stop, HDR
<1>4. \A a \in L \ {e} : a # m => Stop(g, a) = Stop(h, a)
  BY DEF Stop
<1>5. Sized(g, L \ {e})
  BY <1>3 DEF Geo, Sized
<1>6. Placed(L \ {e}, fr)
  <2>1. ASSUME NEW f \in fr PROVE f * PAGE # e
    <3>0. f \in 1 .. Frames /\ Frames \in Nat
      BY MallocAssumption DEF Geo, Placed
    <3>1. f \in Nat
      BY <3>0
    <3>2. Base(f * PAGE) = f * PAGE
      BY <3>1, FrameStart
    <3>3. Base(e) = Base(m)
      BY DEF Base
    <3> QED BY <1>1, <1>2, <1>3, <3>2, <3>3
  <2> QED BY <2>1 DEF Geo, Placed
<1>7. Base(e) = Base(m)
  BY DEF Base
<1>8. Tiling(g, L \ {e})
  <2>1. Stop(h, e) <= Base(e) + PAGE /\ (Stop(h, e) = Base(e) + PAGE \/ Stop(h, e) \in L)
    BY <1>1 DEF Geo, Tiling
  <2>2. Stop(g, m) <= Base(m) + PAGE /\ (Stop(g, m) = Base(m) + PAGE \/ Stop(g, m) \in L \ {e})
    BY <1>2, <1>3, <1>7, <2>1
  <2>3. ASSUME NEW a \in L \ {e}, a # m
        PROVE  Stop(g, a) <= Base(a) + PAGE /\ (Stop(g, a) = Base(a) + PAGE \/ Stop(g, a) \in L \ {e})
    <3>1. Stop(h, a) <= Base(a) + PAGE /\ (Stop(h, a) = Base(a) + PAGE \/ Stop(h, a) \in L)
      BY DEF Geo, Tiling
    <3>2. Stop(h, a) # e
      <4>1. a \in Nat /\ Stop(h, a) \in Nat /\ Stop(h, a) > a
        BY BlockFacts
      <4>2. (a < m => Stop(h, a) <= m) /\ (m < a => e <= a)
        BY DEF Geo, Apart
      <4> QED BY <1>1, <1>2, <1>3, <2>3, <4>1, <4>2
    <3> QED BY <1>4, <2>3, <3>1, <3>2
  <2> QED BY <2>2, <2>3 DEF Tiling
<1>9. Apart(g, L \ {e})
  <2> SUFFICES ASSUME NEW a \in L \ {e}, NEW b \in L \ {e}, a < b
               PROVE  Stop(g, a) <= b
    BY DEF Apart
  <2>1. CASE a # m
    BY <1>4, <2>1 DEF Geo, Apart
  <2>2. CASE a = m
    <3>1. e <= b /\ e # b /\ b \in Nat
      <4>1. Stop(h, m) <= b
        BY <2>2 DEF Geo, Apart
      <4> QED BY <4>1, BlockFacts
    <3>2. e < b
      BY <1>2, <3>1
    <3> QED BY <1>1, <1>3, <2>2, <3>2 DEF Geo, Apart
  <2> QED BY <2>1, <2>2
<1> QED BY <1>1, <1>3, <1>5, <1>6, <1>8, <1>9 DEF Geo

(***************************************************************************)
(* A fresh frame is one block.                                             *)
(***************************************************************************)
LEMMA GeoPage ==
  ASSUME NEW h, NEW g, NEW L, NEW fr, Geo(h, L, fr), NEW f \in 1 .. Frames, f \notin fr,
         g[f * PAGE].size = PAGE - HDR, \A a \in L : g[a].size = h[a].size
  PROVE  /\ Geo(g, L \cup {f * PAGE}, fr \cup {f}) /\ f * PAGE \notin L
         /\ Stop(g, f * PAGE) = f * PAGE + PAGE
<1> DEFINE m == f * PAGE
<1>0. f \in Nat /\ f > 0
  BY MallocAssumption
<1>1. m \in Nat /\ PageOf(m) = f /\ Base(m) = m /\ m % 4 = 0
  BY <1>0, FrameStart
<1>2. PAGE \in Nat /\ PAGE > 16 /\ PAGE % 4 = 0
  BY MallocAssumption DEF HDR, ALIGN
<1> HIDE DEF m
<1>3. m \notin L
  BY <1>1 DEF Geo, Placed
<1>4. g[m].size \in Nat /\ g[m].size > 0 /\ g[m].size % 4 = 0 /\ Stop(g, m) = m + PAGE
  BY <1>1, <1>2 DEF Stop, HDR, m
<1>5. \A a \in L : Stop(g, a) = Stop(h, a)
  BY DEF Stop
<1>6. Sized(g, L \cup {m})
  BY <1>4 DEF Geo, Sized
<1>7. Placed(L \cup {m}, fr \cup {f})
  BY <1>1 DEF Geo, Placed, m
<1>8. Tiling(g, L \cup {m})
  BY <1>1, <1>2, <1>4, <1>5 DEF Geo, Tiling
<1>9. Apart(g, L \cup {m})
  <2> SUFFICES ASSUME NEW a \in L \cup {m}, NEW b \in L \cup {m}, a < b
               PROVE  Stop(g, a) <= b
    BY DEF Apart
  <2>1. CASE a \in L /\ b \in L
    BY <1>5, <2>1 DEF Geo, Apart
  <2>2. ASSUME NEW x \in L
        PROVE  /\ x \in Nat /\ Stop(h, x) \in Nat /\ (x < m => Stop(h, x) <= m)
               /\ (m < x => m + PAGE <= x)
    <3>1. x \in Nat /\ PageOf(x) \in Nat /\ PageOf(x) \in fr /\ Base(x) \in Nat /\ Base(x) <= x
          /\ x < Base(x) + PAGE /\ Stop(h, x) <= Base(x) + PAGE /\ Stop(h, x) \in Nat
      BY BlockFacts, PageFacts
    <3>2. PageOf(x) < f => Base(x) + PAGE <= m
      BY <1>0, <3>1, PageOrder DEF Base, m
    <3>3. f < PageOf(x) => m + PAGE <= Base(x)
      BY <1>0, <3>1, PageOrder DEF Base, m
    <3>4. PageOf(x) < f \/ f < PageOf(x)
      BY <1>0, <3>1
    <3> QED BY <1>1, <1>2, <3>1, <3>2, <3>3, <3>4
  <2>3. CASE a \in L /\ b = m
    BY <1>5, <2>2, <2>3
  <2>4. CASE a = m /\ b \in L
    BY <1>4, <2>2, <2>4
  <2>5. ~(a = m /\ b = m)
    BY <1>1
  <2> QED BY <2>1, <2>3, <2>4, <2>5
<1> QED BY <1>3, <1>4, <1>6, <1>7, <1>8, <1>9 DEF Geo, m

-----------------------------------------------------------------------------
(***************************************************************************)
(* Edits of single headers.                                                *)
(***************************************************************************)
LEMMA Edited ==
  ASSUME NEW h, IsHeap(h), NEW m \in DOMAIN h, NEW v \in Header, NEW g, g = [h EXCEPT ![m] = v]
  PROVE  IsHeap(g) /\ DOMAIN g = DOMAIN h /\ g[m] = v /\ \A a \in DOMAIN h : a # m => g[a] = h[a]
  BY DEF IsHeap

\* Writing one header keeps the rest of memory.
LEMMA Stored ==
  ASSUME NEW h, IsHeap(h), NEW m \in Nat \ {0}, NEW v \in Header
  PROVE  /\ IsHeap(With(h, m, v)) /\ DOMAIN With(h, m, v) = DOMAIN h \cup {m}
         /\ With(h, m, v)[m] = v /\ \A a \in DOMAIN h : a # m => With(h, m, v)[a] = h[a]
<1> DEFINE g == With(h, m, v)
<1>1. DOMAIN g = DOMAIN h \cup {m} /\ g[m] = v /\ \A a \in DOMAIN h : a # m => g[a] = h[a]
  BY DEF With
<1>2. g = [a \in DOMAIN h \cup {m} |-> g[a]]
  BY DEF With
<1>3. IsFiniteSet(DOMAIN h \cup {m}) /\ DOMAIN h \cup {m} \subseteq Nat \ {NULL}
  <2>1. IsFiniteSet(DOMAIN h) /\ DOMAIN h \subseteq Nat \ {NULL}
    BY DEF IsHeap
  <2> QED BY <2>1, FS_AddElement DEF NULL
<1>4. \A a \in DOMAIN h : h[a] \in Header
  BY DEF IsHeap
<1> HIDE DEF g
<1>5. \A a \in DOMAIN h \cup {m} : g[a] \in Header
  BY <1>1, <1>4
<1>6. IsHeap(g)
  BY <1>1, <1>2, <1>3, <1>5 DEF IsHeap
<1> QED BY <1>1, <1>6 DEF g

\* Forgetting headers keeps the others.
LEMMA Restricted ==
  ASSUME NEW h, IsHeap(h), NEW D \in SUBSET DOMAIN h
  PROVE  /\ IsHeap(Restrict(h, D)) /\ DOMAIN Restrict(h, D) = D
         /\ \A a \in D : Restrict(h, D)[a] = h[a]
<1>1. DOMAIN Restrict(h, D) = D /\ \A a \in D : Restrict(h, D)[a] = h[a]
  BY DEF Restrict
<1>2. IsFiniteSet(D) /\ D \subseteq Nat \ {NULL}
  BY FS_Subset DEF IsHeap
<1>3. Restrict(h, D) \in [D -> Header]
  BY DEF Restrict, IsHeap
<1> QED BY <1>1, <1>2, <1>3 DEF IsHeap

\* The records that the code's assignments build.
LEMMA Fields ==
  ASSUME NEW r \in Header, NEW x \in Nat
  PROVE  /\ [r EXCEPT !.size = x] \in Header /\ [r EXCEPT !.size = x].size = x
         /\ [r EXCEPT !.size = x].next = r.next /\ [r EXCEPT !.size = x].root = r.root
         /\ [r EXCEPT !.size = x].state = r.state
         /\ [r EXCEPT !.state = "FREE"] \in Header /\ [r EXCEPT !.state = "FREE"].size = r.size
         /\ [r EXCEPT !.state = "FREE"].state = "FREE"
         /\ [r EXCEPT !.state = "BUSY", !.next = NULL, !.root = NULL] \in Header
         /\ [r EXCEPT !.state = "BUSY", !.next = NULL, !.root = NULL].size = r.size
         /\ [r EXCEPT !.state = "BUSY", !.next = NULL, !.root = NULL].state = "BUSY"
         /\ [r EXCEPT !.state = "BUSY", !.next = NULL, !.root = NULL].next = NULL
         /\ [r EXCEPT !.state = "BUSY", !.next = NULL, !.root = NULL].root = NULL
         /\ FreeHdr(x) \in Header /\ FreeHdr(x).size = x /\ FreeHdr(x).state = "FREE"
         /\ FreeHdr(x).next = NULL /\ FreeHdr(x).root = NULL
  BY DEF Header, NULL, FreeHdr

-----------------------------------------------------------------------------
(***************************************************************************)
(* The list and the set of blocks on it.                                   *)
(***************************************************************************)
OnList(h, p, n, S) ==
    /\ Chain(h, p, n)
    /\ \A i \in 0 .. n - 1 : p[i] \in S
    /\ \A a \in S : \E i \in 0 .. n - 1 : p[i] = a

\* Memory that agrees on the nodes has the same list.
LEMMA ChainSame ==
  ASSUME NEW h, NEW g, NEW n, NEW p, Chain(h, p, n),
         \A i \in 0 .. n - 1 : /\ p[i] \in DOMAIN g /\ g[p[i]].size = h[p[i]].size
                               /\ g[p[i]].next = h[p[i]].next /\ g[p[i]].root = h[p[i]].root
  PROVE  Chain(g, p, n)
<1>1. n \in Nat \ {0} /\ p \in [0 .. n - 1 -> DOMAIN h]
  BY DEF Chain
<1>2. p \in [0 .. n - 1 -> DOMAIN g]
  BY <1>1
<1>3. n - 1 \in 0 .. n - 1 /\ (\A i \in 0 .. n - 2 : i \in 0 .. n - 1) /\ \A i \in 1 .. n - 1 : i \in 0 .. n - 1
  BY <1>1
<1>4. p[0] = SENTINEL /\ \A i, j \in 0 .. n - 1 : p[i] = p[j] => i = j
  BY DEF Chain
<1>5. \A i \in 0 .. n - 2 : g[p[i]].next = p[i + 1]
  BY <1>3 DEF Chain
<1>6. g[p[n - 1]].next = NULL /\ \A i \in 1 .. n - 1 : g[p[i]].root = p[i - 1]
  BY <1>3 DEF Chain
<1>7. \A i, j \in 0 .. n - 1 : i <= j => g[p[i]].size <= g[p[j]].size
  BY DEF Chain
<1> QED BY <1>1, <1>2, <1>4, <1>5, <1>6, <1>7 DEF Chain

\* The positions of a list with one more node.
LEMMA InsertFacts ==
  ASSUME NEW n \in Nat \ {0}, NEW p, NEW k \in 1 .. n, NEW m
  PROVE  /\ \A i \in 0 .. k - 1 : i \in 0 .. n - 1 /\ i \in 0 .. n /\ InsertAt(p, n, k, m)[i] = p[i]
         /\ k \in 0 .. n /\ InsertAt(p, n, k, m)[k] = m
         /\ \A i \in k .. n - 1 : i \in 0 .. n - 1 /\ i + 1 \in 0 .. n /\ InsertAt(p, n, k, m)[i + 1] = p[i]
         /\ \A i \in 0 .. n : i \in 0 .. k - 1 \/ i = k \/ (i - 1 \in k .. n - 1 /\ i = (i - 1) + 1)
         /\ \A i \in 0 .. n - 1 : i \in 0 .. k - 1 \/ i \in k .. n - 1
<1> DEFINE q == InsertAt(p, n, k, m)
<1>1. \A i \in 0 .. n : q[i] = IF i < k THEN p[i] ELSE IF i = k THEN m ELSE p[i - 1]
  BY DEF InsertAt
<1> HIDE DEF q
<1>2. ASSUME NEW i \in 0 .. k - 1 PROVE i \in 0 .. n - 1 /\ i \in 0 .. n /\ q[i] = p[i]
  BY <1>1
<1>3. k \in 0 .. n /\ q[k] = m
  BY <1>1
<1>4. ASSUME NEW i \in k .. n - 1 PROVE i \in 0 .. n - 1 /\ i + 1 \in 0 .. n /\ q[i + 1] = p[i]
  <2>1. i \in 0 .. n - 1 /\ i + 1 \in 0 .. n /\ ~(i + 1 < k) /\ i + 1 # k /\ i + 1 - 1 = i
    OBVIOUS
  <2> QED BY <1>1, <2>1
<1>5. \A i \in 0 .. n : i \in 0 .. k - 1 \/ i = k \/ (i - 1 \in k .. n - 1 /\ i = (i - 1) + 1)
  OBVIOUS
<1>6. \A i \in 0 .. n - 1 : i \in 0 .. k - 1 \/ i \in k .. n - 1
  OBVIOUS
<1> QED BY <1>2, <1>3, <1>4, <1>5, <1>6 DEF q

\* The positions of a list with one node less.
LEMMA RemoveFacts ==
  ASSUME NEW n \in Nat \ {0}, NEW p, NEW k \in 1 .. n - 1
  PROVE  /\ \A i \in 0 .. k - 1 : i \in 0 .. n - 1 /\ i \in 0 .. n - 2 /\ RemoveAt(p, n, k)[i] = p[i]
         /\ \A i \in k .. n - 2 : i + 1 \in 0 .. n - 1 /\ i + 1 # k /\ i \in 0 .. n - 2
                                  /\ RemoveAt(p, n, k)[i] = p[i + 1]
         /\ \A i \in 0 .. n - 2 : i \in 0 .. k - 1 \/ i \in k .. n - 2
         /\ \A i \in 0 .. n - 1 : i \in 0 .. k - 1 \/ i = k \/ (i - 1 \in k .. n - 2 /\ i = (i - 1) + 1)
<1> DEFINE q == RemoveAt(p, n, k)
<1>1. \A i \in 0 .. n - 2 : q[i] = IF i < k THEN p[i] ELSE p[i + 1]
  BY DEF RemoveAt
<1> HIDE DEF q
<1>2. ASSUME NEW i \in 0 .. k - 1 PROVE i \in 0 .. n - 1 /\ i \in 0 .. n - 2 /\ q[i] = p[i]
  <2>1. i \in 0 .. n - 1 /\ i \in 0 .. n - 2 /\ i < k
    OBVIOUS
  <2> QED BY <1>1, <2>1
<1>3. ASSUME NEW i \in k .. n - 2
      PROVE  i + 1 \in 0 .. n - 1 /\ i + 1 # k /\ i \in 0 .. n - 2 /\ q[i] = p[i + 1]
  <2>1. i + 1 \in 0 .. n - 1 /\ i + 1 # k /\ i \in 0 .. n - 2 /\ ~(i < k)
    OBVIOUS
  <2> QED BY <1>1, <2>1
<1>4. \A i \in 0 .. n - 2 : i \in 0 .. k - 1 \/ i \in k .. n - 2
  OBVIOUS
<1>5. \A i \in 0 .. n - 1 : i \in 0 .. k - 1 \/ i = k \/ (i - 1 \in k .. n - 2 /\ i = (i - 1) + 1)
  OBVIOUS
<1> QED BY <1>2, <1>3, <1>4, <1>5 DEF q

(***************************************************************************)
(* add and del change the list by one block.                               *)
(***************************************************************************)
LEMMA AddedTo ==
  ASSUME NEW h, IsHeap(h), NEW n, NEW p, NEW S, OnList(h, p, n, S),
         NEW m \in DOMAIN h, m \notin S, h[SENTINEL].size < h[m].size
  PROVE  \E k \in 1 .. n : OnList(add(h, SENTINEL, m), InsertAt(p, n, k, m), n + 1, S \cup {m})
<1>1. Chain(h, p, n) /\ n \in Nat \ {0} /\ \A i \in 0 .. n - 1 : p[i] # m
  BY DEF OnList, Chain
<1>2. PICK k \in 1 .. n : Chain(add(h, SENTINEL, m), InsertAt(p, n, k, m), n + 1)
  BY <1>1, Added
<1> DEFINE q == InsertAt(p, n, k, m)
<1>3. /\ \A i \in 0 .. k - 1 : i \in 0 .. n - 1 /\ i \in 0 .. n /\ q[i] = p[i]
      /\ k \in 0 .. n /\ q[k] = m
      /\ \A i \in k .. n - 1 : i \in 0 .. n - 1 /\ i + 1 \in 0 .. n /\ q[i + 1] = p[i]
      /\ \A i \in 0 .. n : i \in 0 .. k - 1 \/ i = k \/ (i - 1 \in k .. n - 1 /\ i = (i - 1) + 1)
      /\ \A i \in 0 .. n - 1 : i \in 0 .. k - 1 \/ i \in k .. n - 1
  BY <1>1, InsertFacts
<1> HIDE DEF q
<1>4. ASSUME NEW i \in 0 .. n PROVE q[i] \in S \cup {m}
  BY <1>3 DEF OnList
<1>5. ASSUME NEW a \in S \cup {m} PROVE \E i \in 0 .. n : q[i] = a
  <2>1. CASE a = m
    BY <1>3, <2>1
  <2>2. CASE a \in S
    <3>1. PICK i \in 0 .. n - 1 : p[i] = a
      BY <2>2 DEF OnList
    <3> QED BY <1>3, <3>1
  <2> QED BY <2>1, <2>2
<1>6. (n + 1) - 1 = n
  BY <1>1
<1>7. Chain(add(h, SENTINEL, m), q, n + 1)
  BY <1>2 DEF q
<1>8. 0 .. (n + 1) - 1 = 0 .. n
  BY <1>6
<1>9. OnList(add(h, SENTINEL, m), q, n + 1, S \cup {m})
  <2>1. \A i \in 0 .. (n + 1) - 1 : q[i] \in S \cup {m}
    BY <1>4, <1>8
  <2>2. \A a \in S \cup {m} : \E i \in 0 .. (n + 1) - 1 : q[i] = a
    BY <1>5, <1>8
  <2> QED BY <1>7, <2>1, <2>2 DEF OnList
<1> QED BY <1>9 DEF q

\* del() takes the block at position k out of the set.
LEMMA DeletedFrom ==
  ASSUME NEW h, IsHeap(h), NEW n, NEW p, NEW S, OnList(h, p, n, S), NEW k \in 1 .. n - 1
  PROVE  OnList(del(h, p[k]), RemoveAt(p, n, k), n - 1, S \ {p[k]})
<1>1. Chain(h, p, n) /\ n \in Nat \ {0} /\ \A i, j \in 0 .. n - 1 : p[i] = p[j] => i = j
  BY DEF OnList, Chain
<1>2. Chain(del(h, p[k]), RemoveAt(p, n, k), n - 1)
  BY <1>1, Deleted
<1> DEFINE q == RemoveAt(p, n, k)
<1>3. /\ \A i \in 0 .. k - 1 : i \in 0 .. n - 1 /\ i \in 0 .. n - 2 /\ q[i] = p[i]
      /\ \A i \in k .. n - 2 : i + 1 \in 0 .. n - 1 /\ i + 1 # k /\ i \in 0 .. n - 2 /\ q[i] = p[i + 1]
      /\ \A i \in 0 .. n - 2 : i \in 0 .. k - 1 \/ i \in k .. n - 2
      /\ \A i \in 0 .. n - 1 : i \in 0 .. k - 1 \/ i = k \/ (i - 1 \in k .. n - 2 /\ i = (i - 1) + 1)
  BY <1>1, RemoveFacts
<1> HIDE DEF q
<1>4. k \in 0 .. n - 1 /\ \A i \in 0 .. k - 1 : i # k
  BY <1>1
<1>5. ASSUME NEW i \in 0 .. n - 2 PROVE q[i] \in S \ {p[k]}
  BY <1>1, <1>3, <1>4 DEF OnList
<1>6. ASSUME NEW a \in S \ {p[k]} PROVE \E i \in 0 .. n - 2 : q[i] = a
  <2>1. PICK i \in 0 .. n - 1 : p[i] = a
    BY DEF OnList
  <2> QED BY <1>3, <2>1
<1>7. n - 1 - 1 = n - 2
  BY <1>1
<1> QED BY <1>2, <1>5, <1>6, <1>7 DEF OnList, q

(***************************************************************************)
(* Where every header is listed or BUSY, no link dangles.                  *)
(***************************************************************************)
LEMMA Relinked ==
  ASSUME NEW h, NEW n, NEW p, NEW S, OnList(h, p, n, S), h[SENTINEL].root = NULL,
         \A a \in DOMAIN h : a \in S \/ (h[a].next = NULL /\ h[a].root = NULL)
  PROVE  Linked(h)
<1> SUFFICES ASSUME NEW a \in DOMAIN h, a \in S
             PROVE  h[a].next \in DOMAIN h \cup {NULL} /\ h[a].root \in DOMAIN h \cup {NULL}
  BY DEF Linked
<1>1. PICK i \in 0 .. n - 1 : p[i] = a
  BY DEF OnList
<1>2. n \in Nat \ {0} /\ \A j \in 0 .. n - 1 : p[j] \in DOMAIN h
  BY DEF OnList, Chain
<1>3. h[a].next \in DOMAIN h \cup {NULL}
  <2>1. CASE i = n - 1
    BY <1>1, <2>1 DEF OnList, Chain
  <2>2. CASE i # n - 1
    <3>1. i \in 0 .. n - 2 /\ i + 1 \in 0 .. n - 1
      BY <1>2, <2>2
    <3>2. h[a].next = p[i + 1]
      BY <1>1, <3>1 DEF OnList, Chain
    <3> QED BY <1>2, <3>1, <3>2
  <2> QED BY <2>1, <2>2
<1>4. h[a].root \in DOMAIN h \cup {NULL}
  <2>1. CASE i = 0
    BY <1>1, <2>1 DEF OnList, Chain
  <2>2. CASE i # 0
    <3>1. i \in 1 .. n - 1 /\ i - 1 \in 0 .. n - 1
      BY <1>2, <2>2
    <3>2. h[a].root = p[i - 1]
      BY <1>1, <3>1 DEF OnList, Chain
    <3> QED BY <1>2, <3>1, <3>2
  <2> QED BY <2>1, <2>2
<1> QED BY <1>3, <1>4

-----------------------------------------------------------------------------
(***************************************************************************)
(* Memory.  h has the blocks Blocks(h, A): its headers but the sentinel    *)
(* and the ones in A, which clean has swallowed and may still read.  Every *)
(* BUSY block has an owner in hd, who asked for no more than it holds.     *)
(***************************************************************************)
Blocks(h, A) == DOMAIN h \ (A \cup {SENTINEL})

FreeIn(h, A) == {a \in Blocks(h, A) : h[a].state = "FREE"}
BusyIn(h, A) == {a \in Blocks(h, A) : h[a].state = "BUSY"}

\* unite has nothing to swallow behind a.
Closed(h, A, a) == ~(PageOf(Stop(h, a)) = PageOf(a) /\ Stop(h, a) \in FreeIn(h, A))

Bounded(h) == \A a \in DOMAIN h \ {SENTINEL} : PageOf(a) \in 1 .. Frames /\ h[a].size <= PAGE

Unlinked(h, A) == \A a \in BusyIn(h, A) : h[a].next = NULL /\ h[a].root = NULL

Holds(h, A, hd) ==
    /\ \A a \in BusyIn(h, A) : a + HDR \in DOMAIN hd
    /\ \A q \in DOMAIN hd :
          q \in Nat /\ q - HDR \in BusyIn(h, A) /\ hd[q] \in Requests /\ hd[q] <= h[q - HDR].size

Anchored(h) == SENTINEL \in DOMAIN h /\ h[SENTINEL].size = 0 /\ h[SENTINEL].root = NULL

Mem(h, A, fr, hd) ==
    /\ IsHeap(h) /\ Anchored(h) /\ Linked(h) /\ Bounded(h)
    /\ A \subseteq DOMAIN h \ {SENTINEL}
    /\ Geo(h, Blocks(h, A), fr)
    /\ Unlinked(h, A)
    /\ Holds(h, A, hd)

\* malloc rounds a request up, and it still fits into a page.
LEMMA Rounded ==
  ASSUME NEW r \in Requests
  PROVE  /\ r \in Nat /\ r > 0 /\ Round4(r) \in Nat /\ Round4(r) >= r /\ Round4(r) > 0
         /\ Round4(r) % 4 = 0 /\ Round4(r) <= PAGE - HDR
<1>1. r \in Nat /\ r > 0 /\ Round4(r) <= PAGE - HDR
  BY MallocAssumption
<1>2. Round4(r) \in Nat /\ Round4(r) >= r /\ Round4(r) % 4 = 0
  BY <1>1 DEF Round4
<1> QED BY <1>1, <1>2

(***************************************************************************)
(* With nothing swallowed, every header is the sentinel, free or BUSY.     *)
(***************************************************************************)
LEMMA Settled ==
  ASSUME NEW g, NEW fr, NEW hd, IsHeap(g), Anchored(g), Geo(g, Blocks(g, {}), fr),
         Unlinked(g, {}), Holds(g, {}, hd),
         NEW q, NEW l, OnList(g, q, l, {SENTINEL} \cup FreeIn(g, {}))
  PROVE  Mem(g, {}, fr, hd)
<1>1. ASSUME NEW a \in DOMAIN g, a # SENTINEL
      PROVE  a \in Blocks(g, {}) /\ (a \in FreeIn(g, {}) \/ a \in BusyIn(g, {}))
  <2>1. a \in Blocks(g, {})
    BY <1>1 DEF Blocks
  <2>2. g[a].state \in {"FREE", "BUSY"}
    BY DEF IsHeap, Header
  <2> QED BY <2>1, <2>2 DEF FreeIn, BusyIn
<1>2. Linked(g)
  <2>1. \A a \in DOMAIN g : a \in {SENTINEL} \cup FreeIn(g, {}) \/ (g[a].next = NULL /\ g[a].root = NULL)
    BY <1>1 DEF Unlinked
  <2>2. g[SENTINEL].root = NULL
    BY DEF Anchored
  <2> QED BY <2>1, <2>2, Relinked
<1>3. Bounded(g)
  <2>1. ASSUME NEW a \in Blocks(g, {}) PROVE PageOf(a) \in 1 .. Frames /\ g[a].size <= PAGE
    <3>1. /\ a \in Nat /\ PageOf(a) \in 1 .. Frames /\ g[a].size \in Nat
          /\ Stop(g, a) \in Nat /\ Stop(g, a) = a + 16 + g[a].size
          /\ Base(a) \in Nat /\ PAGE \in Nat /\ Base(a) <= a /\ Stop(g, a) <= Base(a) + PAGE
      BY BlockFacts
    <3> QED BY <3>1
  <2> QED BY <1>1, <2>1 DEF Bounded
<1> QED BY <1>2, <1>3 DEF Mem, Anchored

(***************************************************************************)
(* A caller more.                                                          *)
(***************************************************************************)
LEMMA HoldsMore ==
  ASSUME NEW h, NEW g, NEW hd, Holds(h, {}, hd), NEW m \in Nat, NEW r \in Requests,
         BusyIn(g, {}) = BusyIn(h, {}) \cup {m}, \A a \in BusyIn(h, {}) : g[a].size = h[a].size,
         r <= g[m].size
  PROVE  Holds(g, {}, With(hd, m + HDR, r))
<1> DEFINE d == With(hd, m + HDR, r)
<1>1. /\ DOMAIN d = DOMAIN hd \cup {m + HDR} /\ d[m + HDR] = r
      /\ \A q \in DOMAIN hd : q # m + HDR => d[q] = hd[q]
  BY DEF With
<1> HIDE DEF d
<1>2. m + HDR \in Nat /\ (m + HDR) - HDR = m
  BY DEF HDR
<1>3. \A a \in BusyIn(g, {}) : a + HDR \in DOMAIN d
  BY <1>1 DEF Holds
<1>4. ASSUME NEW q \in DOMAIN d
      PROVE  q \in Nat /\ q - HDR \in BusyIn(g, {}) /\ d[q] \in Requests /\ d[q] <= g[q - HDR].size
  <2>1. CASE q = m + HDR
    BY <1>1, <1>2, <2>1
  <2>2. CASE q # m + HDR
    BY <1>1, <2>2 DEF Holds
  <2> QED BY <2>1, <2>2
<1> QED BY <1>3, <1>4 DEF Holds, d

(***************************************************************************)
(* del: the blocks stay, and the list loses one.                           *)
(***************************************************************************)
LEMMA SameSets ==
  ASSUME NEW h, NEW g, NEW A, SameBlocks(h, g)
  PROVE  /\ Blocks(g, A) = Blocks(h, A) /\ FreeIn(g, A) = FreeIn(h, A) /\ BusyIn(g, A) = BusyIn(h, A)
         /\ \A a \in DOMAIN h : Stop(g, a) = Stop(h, a)
<1>1. Blocks(g, A) = Blocks(h, A)
  BY DEF SameBlocks, Blocks
<1>2. \A a \in Blocks(h, A) : g[a].state = h[a].state
  BY DEF SameBlocks, Blocks
<1>3. FreeIn(g, A) = FreeIn(h, A) /\ BusyIn(g, A) = BusyIn(h, A)
  BY <1>1, <1>2 DEF FreeIn, BusyIn
<1>4. \A a \in DOMAIN h : Stop(g, a) = Stop(h, a)
  BY DEF SameBlocks, Stop
<1> QED BY <1>1, <1>3, <1>4

\* A block that del() takes off the list stays a free block.
LEMMA TakenOff ==
  ASSUME NEW h, NEW A, NEW fr, NEW hd, Mem(h, A, fr, hd),
         NEW S, S \subseteq {SENTINEL} \cup FreeIn(h, A),
         NEW p, NEW n, OnList(h, p, n, S), NEW k \in 1 .. n - 1
  PROVE  /\ p[k] \in FreeIn(h, A) /\ p[k] \in S /\ p[k] \in Blocks(h, A)
         /\ Mem(del(h, p[k]), A, fr, hd)
         /\ SameBlocks(h, del(h, p[k]))
         /\ OnList(del(h, p[k]), RemoveAt(p, n, k), n - 1, S \ {p[k]})
         /\ h[p[k]].root = p[k - 1]
<1> DEFINE g == del(h, p[k])
<1>1. Chain(h, p, n) /\ IsHeap(h) /\ n \in Nat /\ 0 \in 0 .. n - 1 /\ k \in 0 .. n - 1 /\ k # 0
  BY DEF OnList, Chain, Mem
<1>2. p[k] \in S /\ p[k] # SENTINEL /\ p[0] = SENTINEL /\ h[p[k]].root = p[k - 1]
  BY <1>1 DEF OnList, Chain
<1>3. p[k] \in FreeIn(h, A) /\ p[k] \in Blocks(h, A)
  BY <1>2 DEF FreeIn
<1>4. /\ IsHeap(g) /\ SameBlocks(h, g) /\ g[SENTINEL].root = h[SENTINEL].root /\ (Linked(h) => Linked(g))
      /\ \A a \in DOMAIN h : (a = p[k] \/ \A i \in 0 .. n - 1 : p[i] # a) =>
             g[a].next = h[a].next /\ g[a].root = h[a].root
  BY <1>1, Deleted
<1>5. OnList(g, RemoveAt(p, n, k), n - 1, S \ {p[k]})
  BY <1>1, DeletedFrom
<1> HIDE DEF g
<1>6. Blocks(g, A) = Blocks(h, A) /\ FreeIn(g, A) = FreeIn(h, A) /\ BusyIn(g, A) = BusyIn(h, A)
  BY <1>4, SameSets
<1>7. Anchored(g) /\ Linked(g) /\ Bounded(g) /\ A \subseteq DOMAIN g \ {SENTINEL}
  BY <1>4 DEF Mem, Anchored, SameBlocks, Bounded
<1>8. Geo(g, Blocks(g, A), fr)
  <2>1. \A a \in Blocks(h, A) : g[a].size = h[a].size
    BY <1>4 DEF SameBlocks, Blocks
  <2>2. Geo(h, Blocks(h, A), fr)
    BY DEF Mem
  <2> QED BY <1>6, <2>1, <2>2, GeoSame
<1>9. Unlinked(g, A)
  <2>1. ASSUME NEW a \in BusyIn(h, A) PROVE a \in DOMAIN h /\ \A i \in 0 .. n - 1 : p[i] # a
    <3>1. a \in DOMAIN h /\ a # SENTINEL /\ a \notin FreeIn(h, A)
      BY DEF BusyIn, FreeIn, Blocks
    <3> QED BY <3>1 DEF OnList
  <2>2. Unlinked(h, A)
    BY DEF Mem
  <2> QED BY <1>4, <1>6, <2>1, <2>2 DEF Unlinked
<1>10. Holds(g, A, hd)
  <2>1. \A a \in BusyIn(h, A) : g[a].size = h[a].size
    BY <1>4 DEF SameBlocks, BusyIn, Blocks
  <2>2. Holds(h, A, hd)
    BY DEF Mem
  <2> QED BY <1>6, <2>1, <2>2 DEF Holds
<1>11. Mem(g, A, fr, hd)
  BY <1>4, <1>7, <1>8, <1>9, <1>10 DEF Mem
<1> QED BY <1>2, <1>3, <1>4, <1>5, <1>11 DEF g

-----------------------------------------------------------------------------
(***************************************************************************)
(* What HandOut makes of block m of h, without and with a cut.             *)
(***************************************************************************)
Given(h, m) == [h EXCEPT ![m] = [@ EXCEPT !.state = "BUSY", !.next = NULL, !.root = NULL]]

Behind(m, s) == m + HDR + s

Parted(h, d, m, s) == With(d, Behind(m, s), FreeHdr(h[m].size - s - HDR))

Sizing(h, m, x) == [h EXCEPT ![m].size = x]

Cut(h, d, m, s) == Sizing(add(Parted(h, d, m, s), SENTINEL, Behind(m, s)), m, s)

\* mm->state = BUSY, with the links forgotten.
LEMMA GivenFacts ==
  ASSUME NEW h, IsHeap(h), NEW m \in DOMAIN h
  PROVE  /\ IsHeap(Given(h, m)) /\ DOMAIN Given(h, m) = DOMAIN h
         /\ Given(h, m)[m].size = h[m].size /\ Given(h, m)[m].state = "BUSY"
         /\ Given(h, m)[m].next = NULL /\ Given(h, m)[m].root = NULL
         /\ \A a \in DOMAIN h : a # m => Given(h, m)[a] = h[a]
<1> DEFINE v == [h[m] EXCEPT !.state = "BUSY", !.next = NULL, !.root = NULL]
           g == Given(h, m)
<1>1. v \in Header /\ v.size = h[m].size /\ v.state = "BUSY" /\ v.next = NULL /\ v.root = NULL
  BY Fields DEF IsHeap
<1>2. g = [h EXCEPT ![m] = v]
  BY DEF Given
<1> HIDE DEF v, g
<1>3. IsHeap(g) /\ DOMAIN g = DOMAIN h /\ g[m] = v /\ \A a \in DOMAIN h : a # m => g[a] = h[a]
  BY <1>1, <1>2, Edited
<1> QED BY <1>1, <1>3 DEF g

\* g is h but for the size of block m, which is x.
ResizedTo(h, m, x, g) ==
    /\ IsHeap(g) /\ DOMAIN g = DOMAIN h /\ g[m].size = x
    /\ g[m].state = h[m].state /\ g[m].next = h[m].next /\ g[m].root = h[m].root
    /\ \A a \in DOMAIN h : a # m => g[a] = h[a]

\* An assignment to mm->size.
LEMMA Resized ==
  ASSUME NEW h, IsHeap(h), NEW m \in DOMAIN h, NEW x \in Nat
  PROVE  ResizedTo(h, m, x, Sizing(h, m, x))
<1> DEFINE r == h[m]
           v == [r EXCEPT !.size = x]
           g == Sizing(h, m, x)
<1>0. r \in Header
  BY DEF IsHeap
<1>1. g = [h EXCEPT ![m] = v]
  BY DEF Sizing
<1> HIDE DEF r, g
<1>2. v \in Header /\ v.size = x /\ v.state = r.state /\ v.next = r.next /\ v.root = r.root
  BY <1>0 DEF Header
<1> HIDE DEF v
<1>3. IsHeap(g) /\ DOMAIN g = DOMAIN h /\ g[m] = v /\ \A a \in DOMAIN h : a # m => g[a] = h[a]
  BY <1>1, <1>2, Edited
<1> QED BY <1>2, <1>3 DEF g, r, ResizedTo

\* There is a list of exactly the free blocks.
ListOf(h) == \E p, n : OnList(h, p, n, {SENTINEL} \cup FreeIn(h, {}))

(***************************************************************************)
(* g is h once m, of s bytes, is handed out, whole or cut.                 *)
(***************************************************************************)
HandedTo(h, g, m, s) ==
    /\ m \in FreeIn(h, {}) /\ s <= h[m].size
    /\ BusyIn(g, {}) = BusyIn(h, {}) \cup {m}
    /\ \A a \in Blocks(h, {}) : a # m => g[a].size = h[a].size
    /\ IF h[m].size >= s + 4 + HDR
       THEN /\ Blocks(g, {}) = Blocks(h, {}) \cup {Behind(m, s)}
            /\ g[m].size = s /\ g[Behind(m, s)].size = h[m].size - s - HDR
            /\ Behind(m, s) \notin Blocks(h, {}) /\ PageOf(Behind(m, s)) = PageOf(m)
       ELSE Blocks(g, {}) = Blocks(h, {}) /\ g[m].size = h[m].size

Handed(h, fr, hd, m, r, s, g) ==
    Mem(g, {}, fr, With(hd, m + HDR, r)) /\ ListOf(g) /\ HandedTo(h, g, m, s)

\* d is h with the free block m off the list, which has the l nodes of q now.
OffList(h, d, fr, hd, m, q, l) ==
    /\ m \in FreeIn(h, {}) /\ Mem(h, {}, fr, hd) /\ Mem(d, {}, fr, hd) /\ SameBlocks(h, d)
    /\ OnList(d, q, l, ({SENTINEL} \cup FreeIn(h, {})) \ {m})

(***************************************************************************)
(* del() takes a free block off the list.                                  *)
(***************************************************************************)
LEMMA TakeOff ==
  ASSUME NEW h, NEW fr, NEW hd, Mem(h, {}, fr, hd), ListOf(h), NEW m \in FreeIn(h, {})
  PROVE  \E q, l : OffList(h, del(h, m), fr, hd, m, q, l)
<1> DEFINE S == {SENTINEL} \cup FreeIn(h, {})
<1>1. PICK p, n : OnList(h, p, n, S)
  BY DEF ListOf
<1>2. PICK k \in 0 .. n - 1 : p[k] = m
  BY <1>1 DEF OnList
<1>3. k \in 1 .. n - 1
  <2>1. p[0] = SENTINEL /\ n \in Nat
    BY <1>1 DEF OnList, Chain
  <2>2. k # 0
    BY <1>2, <2>1 DEF FreeIn, Blocks
  <2> QED BY <1>2, <2>1, <2>2
<1>4. S \subseteq {SENTINEL} \cup FreeIn(h, {})
  OBVIOUS
<1>5. /\ Mem(del(h, p[k]), {}, fr, hd) /\ SameBlocks(h, del(h, p[k]))
      /\ OnList(del(h, p[k]), RemoveAt(p, n, k), n - 1, S \ {p[k]})
  BY <1>1, <1>3, <1>4, TakenOff
<1>6. OffList(h, del(h, m), fr, hd, m, RemoveAt(p, n, k), n - 1)
  BY <1>2, <1>5 DEF OffList
<1> QED BY <1>6

(***************************************************************************)
(* malloc hands out the block it has taken as it is.                       *)
(***************************************************************************)
LEMMA HandedWhole ==
  ASSUME NEW h, NEW d, NEW fr, NEW hd, NEW m, NEW q, NEW l, OffList(h, d, fr, hd, m, q, l),
         NEW r \in Requests,
         NEW s \in Nat, r <= s, s <= h[m].size, ~(h[m].size >= s + 4 + HDR),
         NEW g, g = Given(d, m)
  PROVE  Handed(h, fr, hd, m, r, s, g)
<1> DEFINE S == {SENTINEL} \cup FreeIn(h, {})
<1>0. Mem(h, {}, fr, hd)
  BY DEF OffList
<1>1. /\ m \in FreeIn(h, {}) /\ m \in S /\ m \in Blocks(h, {})
      /\ Mem(d, {}, fr, hd) /\ SameBlocks(h, d) /\ OnList(d, q, l, S \ {m})
  BY DEF OffList, FreeIn
<1>2. /\ Blocks(d, {}) = Blocks(h, {}) /\ FreeIn(d, {}) = FreeIn(h, {}) /\ BusyIn(d, {}) = BusyIn(h, {})
      /\ DOMAIN d = DOMAIN h
  BY <1>1, SameSets DEF SameBlocks
<1>3. IsHeap(d) /\ Anchored(d) /\ Geo(d, Blocks(d, {}), fr) /\ Unlinked(d, {}) /\ Holds(d, {}, hd)
  BY <1>1 DEF Mem
<1>4. m \in DOMAIN d /\ m # SENTINEL /\ d[m] \in Header /\ m \in Nat
  BY <1>1, <1>2, <1>3 DEF Blocks, IsHeap
<1>7. /\ IsHeap(g) /\ DOMAIN g = DOMAIN d /\ g[m].size = d[m].size /\ g[m].state = "BUSY"
      /\ g[m].next = NULL /\ g[m].root = NULL
      /\ \A a \in DOMAIN d : a # m => g[a] = d[a]
  BY <1>3, <1>4, GivenFacts
<1>8. /\ Blocks(g, {}) = Blocks(h, {})
      /\ FreeIn(g, {}) = FreeIn(h, {}) \ {m}
      /\ BusyIn(g, {}) = BusyIn(h, {}) \cup {m}
  <2>1. Blocks(g, {}) = Blocks(h, {})
    BY <1>2, <1>7 DEF Blocks
  <2>2. \A a \in Blocks(h, {}) : g[a].state = IF a = m THEN "BUSY" ELSE h[a].state
    BY <1>1, <1>2, <1>7 DEF Blocks, SameBlocks
  <2> QED BY <1>1, <2>1, <2>2 DEF FreeIn, BusyIn
<1>9. \A a \in Blocks(h, {}) : g[a].size = h[a].size /\ g[a].size = d[a].size
  BY <1>1, <1>2, <1>7 DEF Blocks, SameBlocks
<1>10. Geo(g, Blocks(g, {}), fr)
  BY <1>2, <1>3, <1>8, <1>9, GeoSame
<1>11. Anchored(g)
  BY <1>3, <1>4, <1>7 DEF Anchored
<1>12. Unlinked(g, {})
  <2>1. \A a \in BusyIn(h, {}) : a \in DOMAIN d
    BY <1>2 DEF BusyIn, Blocks
  <2> QED BY <1>2, <1>3, <1>7, <1>8, <2>1 DEF Unlinked
<1>13. OnList(g, q, l, {SENTINEL} \cup FreeIn(g, {}))
  <2>1. S \ {m} = {SENTINEL} \cup FreeIn(g, {})
    BY <1>4, <1>8
  <2>2. Chain(d, q, l) /\ \A i \in 0 .. l - 1 : q[i] \in DOMAIN d /\ q[i] # m
    BY <1>1 DEF OnList, Chain
  <2>3. Chain(g, q, l)
    BY <1>7, <2>2, ChainSame
  <2> QED BY <1>1, <2>1, <2>3 DEF OnList
<1>14. Holds(g, {}, With(hd, m + HDR, r))
  <2>1. r <= g[m].size
    <3>1. r \in Nat /\ h[m].size \in Nat
      BY <1>0, <1>1, Rounded DEF Mem, IsHeap, Header, Blocks
    <3>2. g[m].size = h[m].size
      BY <1>1, <1>9
    <3> QED BY <3>1, <3>2
  <2>2. Holds(h, {}, hd)
    BY <1>0 DEF Mem
  <2>3. \A a \in BusyIn(h, {}) : g[a].size = h[a].size
    BY <1>9 DEF BusyIn
  <2> QED BY <1>4, <1>8, <2>1, <2>2, <2>3, HoldsMore
<1>15. Mem(g, {}, fr, With(hd, m + HDR, r))
  BY <1>7, <1>10, <1>11, <1>12, <1>13, <1>14, Settled
<1>16. HandedTo(h, g, m, s)
  BY <1>1, <1>8, <1>9 DEF HandedTo
<1> QED BY <1>13, <1>15, <1>16 DEF Handed, ListOf

(***************************************************************************)
(* malloc cuts the tail t off it first, and lists the tail.                *)
(***************************************************************************)
LEMMA HandedCut ==
  ASSUME NEW h, NEW d, NEW fr, NEW hd, NEW m, NEW q, NEW l, OffList(h, d, fr, hd, m, q, l),
         NEW r \in Requests,
         NEW s \in Nat, s > 0, s % 4 = 0, r <= s, h[m].size >= s + 4 + HDR,
         NEW t, t = Behind(m, s), NEW c, c = Parted(h, d, m, s), NEW g, g = Given(Cut(h, d, m, s), m)
  PROVE  Handed(h, fr, hd, m, r, s, g) /\ addHead(c, SENTINEL, t) = SENTINEL
<1> DEFINE S == {SENTINEL} \cup FreeIn(h, {})
           z == h[m].size - s - HDR
           f == add(c, SENTINEL, t)
           u == Cut(h, d, m, s)
<1>0. Mem(h, {}, fr, hd)
  BY DEF OffList
<1>1. /\ m \in FreeIn(h, {}) /\ m \in S /\ m \in Blocks(h, {})
      /\ Mem(d, {}, fr, hd) /\ SameBlocks(h, d) /\ OnList(d, q, l, S \ {m})
  BY DEF OffList, FreeIn
<1>2. /\ Blocks(d, {}) = Blocks(h, {}) /\ FreeIn(d, {}) = FreeIn(h, {}) /\ BusyIn(d, {}) = BusyIn(h, {})
      /\ DOMAIN d = DOMAIN h
  BY <1>1, SameSets DEF SameBlocks
<1>3. IsHeap(d) /\ Anchored(d) /\ Geo(d, Blocks(d, {}), fr) /\ Unlinked(d, {}) /\ Holds(d, {}, hd)
  BY <1>1 DEF Mem
<1>4. m \in DOMAIN d /\ m # SENTINEL /\ d[m] \in Header /\ d[m].size = h[m].size
  BY <1>1, <1>2, <1>3 DEF Blocks, IsHeap, SameBlocks
<1>5. s \in Nat /\ s > 0 /\ s % 4 = 0 /\ r <= s /\ r \in Nat
  BY Rounded DEF Round4
<1>6. /\ m \in Nat /\ PAGE > 16 /\ Base(m) <= m /\ PAGE <= Base(m) /\ PAGE \in Nat /\ Base(m) \in Nat
      /\ h[m].size \in Nat
  BY <1>0, <1>1, BlockFacts DEF Mem
<1>7. /\ t \in Nat \ {0} /\ t # SENTINEL /\ z \in Nat /\ z > 0
  BY <1>5, <1>6 DEF HDR, SENTINEL, Behind
<1> HIDE DEF z
<1>8. FreeHdr(z) \in Header /\ FreeHdr(z).size = z /\ FreeHdr(z).state = "FREE"
  BY <1>7 DEF FreeHdr, Header, NULL
<1> DEFINE w == FreeHdr(z)
<1> HIDE DEF w
<1>9. c = With(d, t, w)
  BY DEF z, w, Parted
<1>10. /\ IsHeap(c) /\ DOMAIN c = DOMAIN d \cup {t}
       /\ c[t].size = z /\ c[t].state = "FREE" /\ \A a \in DOMAIN d : a # t => c[a] = d[a]
  <2>1. w \in Header /\ w.size = z /\ w.state = "FREE"
    BY <1>8 DEF w
  <2>2. /\ IsHeap(With(d, t, w)) /\ DOMAIN With(d, t, w) = DOMAIN d \cup {t}
        /\ With(d, t, w)[t] = w /\ \A a \in DOMAIN d : a # t => With(d, t, w)[a] = d[a]
    BY <1>3, <1>7, <2>1, Stored
  <2> QED BY <1>9, <2>1, <2>2
\* The geometry, which also says that t is not a header yet.
<1>11. ASSUME NEW x, x[m].size = s, x[t].size = z, \A a \in Blocks(h, {}) : a # m => x[a].size = h[a].size
       PROVE  Geo(x, Blocks(h, {}) \cup {t}, fr) /\ t \notin Blocks(h, {}) /\ t > m /\ PageOf(t) = PageOf(m)
  <2>1. Geo(h, Blocks(h, {}), fr)
    BY <1>0 DEF Mem
  <2>2. x[t].size = h[m].size - s - HDR
    BY <1>11 DEF z
  <2>3. t = m + HDR + s
    BY DEF Behind
  <2> QED BY <1>1, <1>5, <1>11, <2>1, <2>2, <2>3, GeoSplit
<1>12. t \notin Blocks(h, {}) /\ t > m /\ PageOf(t) = PageOf(m)
  <2> DEFINE x == [a \in Blocks(h, {}) \cup {t, m} |->
                      [size |-> IF a = m THEN s ELSE IF a = t THEN z ELSE h[a].size]]
  <2>1. t # m
    BY <1>5, <1>6 DEF HDR, Behind
  <2>2. t \notin Blocks(h, {})
    <3> SUFFICES ASSUME t \in Blocks(h, {}) PROVE FALSE
      OBVIOUS
    <3>1. Stop(h, m) <= t
      <4>1. m < t /\ Apart(h, Blocks(h, {}))
        BY <1>0, <1>5, <1>6 DEF Mem, Geo, HDR, Behind
      <4> QED BY <1>1, <4>1 DEF Apart
    <3> QED BY <1>5, <1>6, <3>1 DEF Stop, HDR, Behind
  <2>3. x[m].size = s /\ x[t].size = z /\ \A a \in Blocks(h, {}) : a # m => x[a].size = h[a].size
    BY <1>1, <2>1, <2>2
  <2> HIDE DEF x
  <2> QED BY <1>11, <2>3
<1>13. t \notin DOMAIN d /\ t # m
  BY <1>2, <1>4, <1>7, <1>12 DEF Blocks
<1>14. OnList(c, q, l, S \ {m}) /\ t \notin S \ {m} /\ c[SENTINEL].size < c[t].size
  <2>1. Chain(d, q, l) /\ \A i \in 0 .. l - 1 : q[i] \in DOMAIN d
    BY <1>1 DEF OnList, Chain
  <2>2. Chain(c, q, l)
    BY <1>10, <1>13, <2>1, ChainSame
  <2>3. t \notin S \ {m}
    BY <1>7, <1>12 DEF FreeIn
  <2>4. c[SENTINEL].size < c[t].size
    BY <1>3, <1>7, <1>10 DEF Anchored
  <2> QED BY <1>1, <2>2, <2>3, <2>4 DEF OnList
<1>15. PICK k2 \in 1 .. l : OnList(f, InsertAt(q, l, k2, t), l + 1, (S \ {m}) \cup {t})
  BY <1>10, <1>14, AddedTo
<1>16. /\ IsHeap(f) /\ SameBlocks(c, f) /\ addHead(c, SENTINEL, t) = SENTINEL
       /\ f[SENTINEL].root = c[SENTINEL].root
       /\ \A a \in DOMAIN c : (a # t /\ \A i \in 0 .. l - 1 : q[i] # a) =>
              f[a].next = c[a].next /\ f[a].root = c[a].root
  <2>1. Chain(c, q, l) /\ t \in DOMAIN c /\ \A i \in 0 .. l - 1 : q[i] # t
    BY <1>10, <1>14 DEF OnList
  <2> QED BY <1>10, <1>14, <2>1, Added
<1> DEFINE q2 == InsertAt(q, l, k2, t)
           l2 == l + 1
<1> HIDE DEF q2, l2, f
<1>17. DOMAIN f = DOMAIN h \cup {t} /\ m \in DOMAIN f /\ f[m] \in Header
  BY <1>2, <1>4, <1>10, <1>16 DEF SameBlocks, IsHeap
<1>18. u = Sizing(f, m, s)
  BY DEF f, Cut
<1> HIDE DEF u
<1>19. /\ IsHeap(u) /\ DOMAIN u = DOMAIN f /\ u[m].size = s
       /\ \A a \in DOMAIN f : a # m => u[a] = f[a]
  <2>0. IsHeap(f) /\ m \in DOMAIN f /\ s \in Nat
    BY <1>5, <1>16, <1>17
  <2>1. ResizedTo(f, m, s, Sizing(f, m, s))
    BY <2>0, Resized
  <2> QED BY <1>18, <2>1 DEF ResizedTo
<1>20. g = Given(u, m)
  BY DEF u
<1>21. /\ IsHeap(g) /\ DOMAIN g = DOMAIN h \cup {t} /\ g[m].size = s /\ g[m].state = "BUSY"
       /\ g[m].next = NULL /\ g[m].root = NULL
       /\ \A a \in DOMAIN f : a # m => g[a] = f[a]
  BY <1>17, <1>19, <1>20, GivenFacts
<1>22. /\ g[m].size = s /\ g[m].state = "BUSY"
       /\ g[t].size = z /\ g[t].state = "FREE"
       /\ \A a \in Blocks(h, {}) : a # m => g[a].size = h[a].size /\ g[a].state = h[a].state
  <2>1. g[t].size = z /\ g[t].state = "FREE"
    BY <1>10, <1>13, <1>16, <1>17, <1>21 DEF SameBlocks
  <2>2. ASSUME NEW a \in Blocks(h, {}), a # m PROVE g[a].size = h[a].size /\ g[a].state = h[a].state
    <3>1. a \in DOMAIN h /\ a \in DOMAIN d /\ a # t /\ a \in DOMAIN c /\ a \in DOMAIN f
      BY <1>2, <1>10, <1>12, <1>17 DEF Blocks
    <3>2. g[a] = f[a] /\ f[a].size = c[a].size /\ f[a].state = c[a].state /\ c[a] = d[a]
      BY <1>10, <1>16, <1>21, <2>2, <3>1 DEF SameBlocks
    <3> QED BY <1>1, <3>1, <3>2 DEF SameBlocks
  <2> QED BY <1>21, <2>1, <2>2
<1>23. /\ Blocks(g, {}) = Blocks(h, {}) \cup {t}
       /\ FreeIn(g, {}) = (FreeIn(h, {}) \ {m}) \cup {t}
       /\ BusyIn(g, {}) = BusyIn(h, {}) \cup {m}
  <2>1. Blocks(g, {}) = Blocks(h, {}) \cup {t}
    BY <1>7, <1>21 DEF Blocks
  <2>2. h[m].state = "FREE"
    BY <1>1 DEF FreeIn
  <2> QED BY <1>1, <1>12, <1>22, <2>1, <2>2 DEF FreeIn, BusyIn
<1>24. Geo(g, Blocks(g, {}), fr)
  BY <1>11, <1>22, <1>23
<1>25. SENTINEL \in DOMAIN d /\ SENTINEL \in DOMAIN c /\ SENTINEL \in DOMAIN f /\ SENTINEL # t /\ SENTINEL # m
  BY <1>2, <1>3, <1>4, <1>7, <1>10, <1>17 DEF Anchored
<1>26. Anchored(g)
  <2>1. g[SENTINEL] = f[SENTINEL] /\ c[SENTINEL] = d[SENTINEL] /\ SENTINEL \in DOMAIN g
    BY <1>10, <1>17, <1>21, <1>25
  <2>2. f[SENTINEL].size = c[SENTINEL].size
    BY <1>16, <1>25 DEF SameBlocks
  <2> QED BY <1>3, <1>16, <2>1, <2>2 DEF Anchored
<1>27. Unlinked(g, {})
  <2> SUFFICES ASSUME NEW a \in BusyIn(h, {}), a # m PROVE g[a].next = NULL /\ g[a].root = NULL
    BY <1>21, <1>23 DEF Unlinked
  <2>1. /\ a \in DOMAIN d /\ a \in DOMAIN c /\ a \in DOMAIN f /\ a # t /\ a # SENTINEL
        /\ a \notin FreeIn(h, {})
    BY <1>2, <1>10, <1>13, <1>17 DEF BusyIn, FreeIn, Blocks
  <2>2. \A i \in 0 .. l - 1 : q[i] # a
    BY <1>14, <2>1 DEF OnList
  <2>3. g[a].next = d[a].next /\ g[a].root = d[a].root
    BY <1>10, <1>16, <1>21, <2>1, <2>2
  <2> QED BY <1>2, <1>3, <2>3 DEF Unlinked
<1>28. OnList(g, q2, l2, {SENTINEL} \cup FreeIn(g, {}))
  <2>0. OnList(f, q2, l2, (S \ {m}) \cup {t})
    BY <1>15 DEF q2, l2
  <2>1. (S \ {m}) \cup {t} = {SENTINEL} \cup FreeIn(g, {})
    BY <1>4, <1>23
  <2>2. Chain(f, q2, l2) /\ \A i \in 0 .. l2 - 1 : q2[i] \in DOMAIN f /\ q2[i] # m
    BY <1>13, <2>0 DEF OnList, Chain
  <2>3. Chain(g, q2, l2)
    <3>1. \A i \in 0 .. l2 - 1 : g[q2[i]] = f[q2[i]] /\ q2[i] \in DOMAIN g
      BY <1>17, <1>21, <2>2
    <3> QED BY <2>2, <3>1, ChainSame
  <2> QED BY <2>0, <2>1, <2>3 DEF OnList
<1>29. Holds(g, {}, With(hd, m + HDR, r))
  <2>1. r <= g[m].size
    BY <1>5, <1>22
  <2>2. Holds(h, {}, hd)
    BY <1>0 DEF Mem
  <2>3. \A a \in BusyIn(h, {}) : g[a].size = h[a].size
    <3>1. m \notin BusyIn(h, {})
      BY <1>1 DEF BusyIn, FreeIn
    <3> QED BY <1>22, <3>1 DEF BusyIn
  <2> QED BY <1>6, <1>23, <2>1, <2>2, <2>3, HoldsMore
<1>30. Mem(g, {}, fr, With(hd, m + HDR, r))
  BY <1>21, <1>24, <1>26, <1>27, <1>28, <1>29, Settled
<1>31. HandedTo(h, g, m, s)
  <2>1. t = Behind(m, s) /\ s <= h[m].size
    BY <1>5, <1>6 DEF HDR
  <2> QED BY <1>1, <1>12, <1>22, <1>23, <2>1 DEF HandedTo, z
<1> QED BY <1>16, <1>28, <1>30, <1>31 DEF Handed, ListOf

-----------------------------------------------------------------------------
\* What is known of g when m is back on the list, at position k.
PutTo(x, A, fr, hd, m, p, n, k, y, g) ==
    /\ Mem(g, {}, fr, hd)
    /\ addHead(x, SENTINEL, m) = SENTINEL
    /\ Chain(y, InsertAt(p, n, k, m), n + 1)
    /\ OnList(g, InsertAt(p, n, k, m), n + 1, {SENTINEL} \cup FreeIn(g, {}))
    /\ \A a \in A : y[a].next = x[a].next
    /\ DOMAIN y = DOMAIN x
    /\ Blocks(g, {}) = Blocks(x, A) /\ FreeIn(g, {}) = FreeIn(x, A) /\ BusyIn(g, {}) = BusyIn(x, A)
    /\ \A a \in Blocks(x, A) : g[a].size = x[a].size

(***************************************************************************)
(* clean and free put block m on the list and forget the swallowed headers.*)
(***************************************************************************)
LEMMA PutBack ==
  ASSUME NEW x, NEW A, NEW fr, NEW hd, Mem(x, A, fr, hd), NEW m \in FreeIn(x, A),
         NEW p, NEW n, OnList(x, p, n, {SENTINEL} \cup (FreeIn(x, A) \ {m})),
         NEW y, y = add(x, SENTINEL, m), NEW g, g = Restrict(y, DOMAIN x \ A)
  PROVE  \E k \in 1 .. n : PutTo(x, A, fr, hd, m, p, n, k, y, g)
<1> DEFINE S == {SENTINEL} \cup (FreeIn(x, A) \ {m})
           T == {SENTINEL} \cup FreeIn(x, A)
<1>1. IsHeap(x) /\ Anchored(x) /\ A \subseteq DOMAIN x \ {SENTINEL} /\ Geo(x, Blocks(x, A), fr)
      /\ Unlinked(x, A) /\ Holds(x, A, hd)
  BY DEF Mem
<1>2. m \in Blocks(x, A) /\ m \in DOMAIN x /\ m # SENTINEL /\ m \notin A /\ m \notin S
  BY DEF FreeIn, Blocks
<1>3. x[SENTINEL].size < x[m].size /\ n \in Nat
  <2>1. x[m].size \in Nat /\ x[m].size > 0
    BY <1>1, <1>2 DEF Geo, Sized
  <2> QED BY <1>1, <2>1 DEF Anchored, OnList, Chain
<1>4. Chain(x, p, n) /\ \A i \in 0 .. n - 1 : p[i] # m /\ p[i] \in S
  BY <1>2 DEF OnList
<1>5. /\ IsHeap(y) /\ SameBlocks(x, y) /\ addHead(x, SENTINEL, m) = SENTINEL
      /\ y[SENTINEL].root = x[SENTINEL].root
      /\ \A a \in DOMAIN x : (a # m /\ \A i \in 0 .. n - 1 : p[i] # a) =>
             y[a].next = x[a].next /\ y[a].root = x[a].root
  BY <1>1, <1>2, <1>3, <1>4, Added
<1>6. PICK k \in 1 .. n : OnList(y, InsertAt(p, n, k, m), n + 1, S \cup {m})
  BY <1>1, <1>2, <1>3, AddedTo
<1> DEFINE q == InsertAt(p, n, k, m)
           l == n + 1
           D == DOMAIN x \ A
<1> HIDE DEF q, l, D
<1>7. D \in SUBSET DOMAIN y /\ DOMAIN y = DOMAIN x
  BY <1>5 DEF D, SameBlocks
<1>8. IsHeap(g) /\ DOMAIN g = D /\ \A a \in D : g[a] = y[a]
  BY <1>5, <1>7, Restricted DEF D
<1>9. S \cup {m} = T
  OBVIOUS
<1>10. Blocks(y, A) = Blocks(x, A) /\ FreeIn(y, A) = FreeIn(x, A) /\ BusyIn(y, A) = BusyIn(x, A)
  BY <1>5, SameSets
<1>11. Blocks(g, {}) = Blocks(x, A) /\ \A a \in Blocks(x, A) : a \in D /\ a \in DOMAIN x
  BY <1>8 DEF Blocks, D
<1>12. \A a \in Blocks(x, A) : g[a] = y[a] /\ g[a].size = x[a].size /\ g[a].state = x[a].state
  BY <1>5, <1>8, <1>11 DEF SameBlocks
<1>13. FreeIn(g, {}) = FreeIn(x, A) /\ BusyIn(g, {}) = BusyIn(x, A)
  BY <1>11, <1>12 DEF FreeIn, BusyIn
<1>14. OnList(g, q, l, {SENTINEL} \cup FreeIn(g, {}))
  <2>1. OnList(y, q, l, T)
    BY <1>6, <1>9 DEF q, l
  <2>2. T \subseteq D
    BY <1>1, <1>11 DEF FreeIn, D, Anchored
  <2>3. Chain(y, q, l) /\ \A i \in 0 .. l - 1 : q[i] \in D
    BY <2>1, <2>2 DEF OnList
  <2>4. Chain(g, q, l)
    <3>1. \A i \in 0 .. l - 1 : q[i] \in DOMAIN g /\ g[q[i]] = y[q[i]]
      BY <1>8, <2>3
    <3> QED BY <2>3, <3>1, ChainSame
  <2> QED BY <1>13, <2>1, <2>4 DEF OnList
<1>15. Anchored(g)
  <2>1. SENTINEL \in D
    BY <1>1 DEF D, Anchored
  <2> QED BY <1>1, <1>5, <1>8, <2>1 DEF Anchored, SameBlocks
<1>16. Geo(g, Blocks(g, {}), fr)
  BY <1>1, <1>11, <1>12, GeoSame
<1>17. Unlinked(g, {})
  <2> SUFFICES ASSUME NEW a \in BusyIn(x, A) PROVE g[a].next = NULL /\ g[a].root = NULL
    BY <1>13 DEF Unlinked
  <2>1. a \in Blocks(x, A) /\ a # m /\ a \notin S
    BY DEF BusyIn, FreeIn, Blocks
  <2>2. y[a].next = x[a].next /\ y[a].root = x[a].root
    BY <1>4, <1>5, <1>11, <2>1
  <2> QED BY <1>1, <1>12, <2>1, <2>2 DEF Unlinked
<1>18. Holds(g, {}, hd)
  <2>1. \A a \in BusyIn(x, A) : g[a].size = x[a].size
    BY <1>12 DEF BusyIn
  <2> QED BY <1>1, <1>13, <2>1 DEF Holds
<1>19. Mem(g, {}, fr, hd)
  BY <1>8, <1>14, <1>15, <1>16, <1>17, <1>18, Settled
<1>20. \A a \in A : y[a].next = x[a].next
  <2> SUFFICES ASSUME NEW a \in A PROVE a \in DOMAIN x /\ a # m /\ a \notin S
    BY <1>4, <1>5
  <2> QED BY <1>1, <1>2 DEF FreeIn, Blocks
<1>21. Chain(y, q, l)
  BY <1>6 DEF OnList, q, l
<1>22. PutTo(x, A, fr, hd, m, p, n, k, y, g)
  BY <1>5, <1>7, <1>11, <1>12, <1>13, <1>14, <1>19, <1>20, <1>21 DEF q, l, PutTo
<1> QED BY <1>22

(***************************************************************************)
(* free marks a block FREE: its owner is gone.                             *)
(***************************************************************************)
Freeing(h, m) == [h EXCEPT ![m].state = "FREE"]

\* mm->state = FREE.
LEMMA FreeingFacts ==
  ASSUME NEW h, IsHeap(h), NEW m \in DOMAIN h
  PROVE  /\ IsHeap(Freeing(h, m)) /\ DOMAIN Freeing(h, m) = DOMAIN h
         /\ Freeing(h, m)[m].size = h[m].size /\ Freeing(h, m)[m].state = "FREE"
         /\ Freeing(h, m)[m].next = h[m].next /\ Freeing(h, m)[m].root = h[m].root
         /\ \A a \in DOMAIN h : a # m => Freeing(h, m)[a] = h[a]
<1> DEFINE r == h[m]
           v == [r EXCEPT !.state = "FREE"]
           g == Freeing(h, m)
<1>0. r \in Header
  BY DEF IsHeap
<1>1. g = [h EXCEPT ![m] = v]
  BY DEF Freeing
<1> HIDE DEF r, g
<1>2. v \in Header /\ v.size = r.size /\ v.state = "FREE" /\ v.next = r.next /\ v.root = r.root
  BY <1>0 DEF Header
<1> HIDE DEF v
<1>3. IsHeap(g) /\ DOMAIN g = DOMAIN h /\ g[m] = v /\ \A a \in DOMAIN h : a # m => g[a] = h[a]
  BY <1>1, <1>2, Edited
<1> QED BY <1>2, <1>3 DEF g, r

\* free() marks a held block: it is free, and nobody's.
LEMMA Marked ==
  ASSUME NEW h, NEW A, NEW fr, NEW hd, Mem(h, A, fr, hd), NEW m \in BusyIn(h, A),
         NEW p, NEW n, NEW S, S \subseteq {SENTINEL} \cup FreeIn(h, A), OnList(h, p, n, S),
         NEW x, x = Freeing(h, m)
  PROVE  /\ Mem(x, A, fr, Restrict(hd, DOMAIN hd \ {m + HDR}))
         /\ OnList(x, p, n, S)
         /\ Blocks(x, A) = Blocks(h, A) /\ FreeIn(x, A) = FreeIn(h, A) \cup {m}
         /\ BusyIn(x, A) = BusyIn(h, A) \ {m} /\ DOMAIN x = DOMAIN h
         /\ \A a \in Blocks(h, A) : x[a].size = h[a].size
         /\ m \notin S /\ m \notin FreeIn(h, A)
<1>1. /\ IsHeap(h) /\ Anchored(h) /\ Linked(h) /\ Bounded(h) /\ A \subseteq DOMAIN h \ {SENTINEL}
      /\ Geo(h, Blocks(h, A), fr) /\ Unlinked(h, A) /\ Holds(h, A, hd)
  BY DEF Mem
<1>2. m \in Blocks(h, A) /\ m \in DOMAIN h /\ m # SENTINEL /\ m \notin FreeIn(h, A) /\ m \notin S
  BY DEF BusyIn, FreeIn, Blocks
<1>3. /\ IsHeap(x) /\ DOMAIN x = DOMAIN h /\ x[m].size = h[m].size /\ x[m].state = "FREE"
      /\ x[m].next = h[m].next /\ x[m].root = h[m].root
      /\ \A a \in DOMAIN h : a # m => x[a] = h[a]
  BY <1>1, <1>2, FreeingFacts
<1>4. \A a \in DOMAIN h : x[a].size = h[a].size /\ x[a].next = h[a].next /\ x[a].root = h[a].root
  BY <1>3
<1>5. /\ Blocks(x, A) = Blocks(h, A) /\ FreeIn(x, A) = FreeIn(h, A) \cup {m}
      /\ BusyIn(x, A) = BusyIn(h, A) \ {m}
  <2>1. Blocks(x, A) = Blocks(h, A) /\ \A a \in Blocks(h, A) : a \in DOMAIN h
    BY <1>3 DEF Blocks
  <2>2. \A a \in Blocks(h, A) : x[a].state = IF a = m THEN "FREE" ELSE h[a].state
    BY <1>3, <2>1
  <2> QED BY <1>2, <2>1, <2>2 DEF FreeIn, BusyIn
<1>6. Anchored(x) /\ Linked(x) /\ Bounded(x) /\ A \subseteq DOMAIN x \ {SENTINEL}
  BY <1>1, <1>3, <1>4 DEF Anchored, Linked, Bounded
<1>7. (\A a \in Blocks(h, A) : x[a].size = h[a].size) /\ Geo(x, Blocks(x, A), fr)
  <2>1. \A a \in Blocks(h, A) : x[a].size = h[a].size
    BY <1>4 DEF Blocks
  <2> QED BY <1>1, <1>5, <2>1, GeoSame
<1>8. Unlinked(x, A)
  <2>1. \A a \in BusyIn(h, A) : a \in DOMAIN h
    BY DEF BusyIn, Blocks
  <2> QED BY <1>1, <1>4, <1>5, <2>1 DEF Unlinked
<1>9. Holds(x, A, Restrict(hd, DOMAIN hd \ {m + HDR}))
  <2> DEFINE D == DOMAIN hd \ {m + HDR}
             d == Restrict(hd, D)
  <2>1. DOMAIN d = D /\ \A q \in D : d[q] = hd[q]
    BY DEF Restrict
  <2> HIDE DEF d
  <2>2. \A a \in BusyIn(h, A) : a \in Nat /\ x[a].size = h[a].size
    BY <1>7, <1>1, BlockFacts DEF BusyIn
  <2>3. ASSUME NEW a \in BusyIn(x, A) PROVE a + HDR \in DOMAIN d
    <3>1. a + HDR \in DOMAIN hd /\ a \in Nat /\ m \in Nat /\ a # m
      BY <1>1, <1>5, <2>2 DEF Holds
    <3>2. a + HDR # m + HDR
      BY <3>1 DEF HDR
    <3> QED BY <2>1, <3>1, <3>2
  <2>4. ASSUME NEW q \in DOMAIN d
        PROVE  q \in Nat /\ q - HDR \in BusyIn(x, A) /\ d[q] \in Requests /\ d[q] <= x[q - HDR].size
    <3>1. q \in DOMAIN hd /\ q # m + HDR /\ d[q] = hd[q]
      BY <2>1
    <3>2. q \in Nat /\ q - HDR \in BusyIn(h, A) /\ hd[q] \in Requests /\ hd[q] <= h[q - HDR].size
      BY <1>1, <3>1 DEF Holds
    <3>3. q - HDR # m
      BY <2>2, <3>1, <3>2 DEF HDR
    <3> QED BY <1>5, <2>2, <3>1, <3>2, <3>3
  <2> QED BY <2>3, <2>4 DEF Holds, d
<1>10. OnList(x, p, n, S)
  <2>1. Chain(h, p, n) /\ \A i \in 0 .. n - 1 : p[i] \in DOMAIN h
    BY DEF OnList, Chain
  <2>2. Chain(x, p, n)
    BY <1>3, <1>4, <2>1, ChainSame
  <2> QED BY <2>2 DEF OnList
<1>11. Mem(x, A, fr, Restrict(hd, DOMAIN hd \ {m + HDR}))
  BY <1>3, <1>6, <1>7, <1>8, <1>9 DEF Mem
<1> QED BY <1>2, <1>3, <1>5, <1>7, <1>10, <1>11

-----------------------------------------------------------------------------
\* The header at e, in m's page, is the one right behind block m.
Adjacent(h, m, e) == e = Stop(h, m) /\ PageOf(e) = PageOf(m)

\* m swallows the block at e.
Uniting(h, m, e) == [del(h, e) EXCEPT ![m].size = @ + HDR + h[e].size]

(***************************************************************************)
(* unite finds a block to swallow exactly if the one behind m is free.     *)
(***************************************************************************)
LEMMA Swallows ==
  ASSUME NEW h, NEW A, NEW fr, NEW hd, Mem(h, A, fr, hd), NEW m \in Blocks(h, A), Stop(h, m) \notin A
  PROVE  /\ Closed(h, A, m) => swallowed(h, m) = {} /\ unite(h, m) = h
         /\ ~Closed(h, A, m) =>
                /\ swallowed(h, m) = {Stop(h, m)}
                /\ unite(h, m) = Uniting(h, m, Stop(h, m))
<1> DEFINE e == Stop(h, m)
<1>1. swallowed(h, m) = IF PageOf(e) = PageOf(m) /\ e \in DOMAIN h /\ h[e].state = "FREE" THEN {e} ELSE {}
  BY DEF swallowed, Stop
<1>2. unite(h, m) = IF swallowed(h, m) = {} THEN h ELSE Uniting(h, m, e)
  BY DEF unite, Stop, Uniting
<1>3. PageOf(e) = PageOf(m) => e # SENTINEL
  <2>1. Geo(h, Blocks(h, A), fr)
    BY DEF Mem
  <2>2. /\ e \in Nat /\ e = m + 16 + h[m].size /\ h[m].size \in Nat /\ m \in Nat
        /\ Base(m) <= m /\ PAGE <= Base(m) /\ PAGE \in Nat /\ PAGE > 16 /\ Base(m) \in Nat
    BY <2>1, BlockFacts
  <2> HIDE DEF e
  <2> QED BY <2>2 DEF SENTINEL, HDR
<1>4. ~Closed(h, A, m) <=> (PageOf(e) = PageOf(m) /\ e \in DOMAIN h /\ h[e].state = "FREE")
  BY <1>3 DEF Closed, FreeIn, Blocks
<1> QED BY <1>1, <1>2, <1>4

\* What is known of g when m has swallowed the node at position j.
UnitedTo(h, A, fr, hd, m, S, p, n, j, e, g) ==
    /\ Mem(g, A \cup {e}, fr, hd)
    /\ OnList(g, RemoveAt(p, n, j), n - 1, S \ {e})
    /\ e \in FreeIn(h, A) /\ e > m
    /\ Blocks(g, A \cup {e}) = Blocks(h, A) \ {e}
    /\ FreeIn(g, A \cup {e}) = FreeIn(h, A) \ {e} /\ BusyIn(g, A \cup {e}) = BusyIn(h, A)
    /\ DOMAIN g = DOMAIN h
    /\ g[m].size = h[m].size + HDR + h[e].size /\ Stop(g, m) = Stop(h, e)
    /\ \A a \in DOMAIN h : a # m => g[a].size = h[a].size
    /\ \A a \in A \cup {e} : g[a].next = h[a].next

\* unite() on m, whose successor e is the node at position j.
LEMMA United ==
  ASSUME NEW h, NEW A, NEW fr, NEW hd, Mem(h, A, fr, hd), NEW m \in Blocks(h, A),
         NEW S, S \subseteq {SENTINEL} \cup FreeIn(h, A), m \notin S,
         NEW p, NEW n, OnList(h, p, n, S), NEW j \in 1 .. n - 1, NEW e, e = p[j],
         Adjacent(h, m, e), NEW g, g = Uniting(h, m, e)
  PROVE  UnitedTo(h, A, fr, hd, m, S, p, n, j, e, g)
<1> DEFINE d == del(h, e)
           x == h[m].size + HDR + h[e].size
           u == Sizing(d, m, x)
           q == RemoveAt(p, n, j)
           l == n - 1
           L == Blocks(h, A)
           B == A \cup {e}
<1>1. /\ IsHeap(h) /\ Anchored(h) /\ Linked(h) /\ Bounded(h) /\ A \subseteq DOMAIN h \ {SENTINEL}
      /\ Geo(h, L, fr) /\ Unlinked(h, A) /\ Holds(h, A, hd)
  BY DEF Mem
<1>2. /\ e \in FreeIn(h, A) /\ e \in S /\ e \in L /\ Mem(d, A, fr, hd) /\ SameBlocks(h, d)
      /\ OnList(d, q, l, S \ {e})
  BY TakenOff
<1>3. m \in DOMAIN h /\ m # SENTINEL /\ e \in DOMAIN h /\ e # m /\ m \notin A /\ e \notin A /\ e # SENTINEL
  BY <1>2 DEF Blocks
<1>4. x \in Nat /\ h[m].size \in Nat /\ h[e].size \in Nat
  BY <1>1, <1>3 DEF IsHeap, Header, HDR
<1>5. IsHeap(d) /\ m \in DOMAIN d /\ d[m].size = h[m].size /\ DOMAIN d = DOMAIN h
  BY <1>2, <1>3 DEF Mem, SameBlocks
<1>6. g = u
  BY <1>5 DEF Sizing, Uniting
<1> HIDE DEF d, u, x, q, l, L, B
<1>7. ResizedTo(d, m, x, u)
  BY <1>4, <1>5, Resized DEF u
<1>8. /\ IsHeap(g) /\ DOMAIN g = DOMAIN h /\ g[m].size = x /\ g[m].state = d[m].state
      /\ g[m].next = d[m].next /\ g[m].root = d[m].root
      /\ \A a \in DOMAIN h : a # m => g[a] = d[a]
  BY <1>5, <1>6, <1>7 DEF ResizedTo
<1>9. ASSUME NEW a \in DOMAIN h
      PROVE  /\ g[a].state = h[a].state /\ g[a].next = d[a].next /\ g[a].root = d[a].root
             /\ a # m => g[a].size = h[a].size
  BY <1>2, <1>8 DEF SameBlocks
<1>10. Blocks(g, B) = L \ {e} /\ \A a \in L : a \in DOMAIN h
  BY <1>8 DEF Blocks, L, B
<1>11. FreeIn(g, B) = FreeIn(h, A) \ {e} /\ BusyIn(g, B) = BusyIn(h, A)
  <2>1. h[e].state = "FREE"
    BY <1>2 DEF FreeIn
  <2> QED BY <1>9, <1>10, <2>1 DEF FreeIn, BusyIn, L
<1>12. Geo(g, Blocks(g, B), fr) /\ e > m /\ Stop(g, m) = Stop(h, e)
  <2>1. g[m].size = h[m].size + HDR + h[e].size
    BY <1>8 DEF x
  <2>2. \A a \in L \ {e} : a # m => g[a].size = h[a].size
    BY <1>9, <1>10
  <2>3. m \in L
    BY DEF L
  <2>4. e = Stop(h, m) /\ PageOf(e) = PageOf(m)
    BY DEF Adjacent
  <2> QED BY <1>1, <1>10, <2>1, <2>2, <2>3, <2>4, GeoJoin
<1>13. Anchored(g) /\ Linked(g) /\ B \subseteq DOMAIN g \ {SENTINEL}
  <2>1. Anchored(d) /\ Linked(d)
    BY <1>2 DEF Mem
  <2>2. Anchored(g)
    BY <1>1, <1>3, <1>8, <1>9, <2>1 DEF Anchored
  <2>3. Linked(g)
    BY <1>5, <1>8, <1>9, <2>1 DEF Linked
  <2> QED BY <1>1, <1>3, <1>8, <2>2, <2>3 DEF B
<1>14. Bounded(g)
  <2>1. m \in Blocks(g, B)
    BY <1>3, <1>10 DEF L
  <2>2. /\ m \in Nat /\ g[m].size \in Nat
        /\ Stop(g, m) \in Nat /\ Stop(g, m) = m + 16 + g[m].size
        /\ Base(m) \in Nat /\ PAGE \in Nat /\ Base(m) <= m /\ Stop(g, m) <= Base(m) + PAGE
    BY <1>12, <2>1, BlockFacts
  <2>3. g[m].size <= PAGE
    BY <2>2
  <2> QED BY <1>1, <1>8, <1>9, <2>3 DEF Bounded
<1>15. \A a \in BusyIn(h, A) : a \in DOMAIN h /\ a # e
  BY <1>2 DEF BusyIn, FreeIn, Blocks
<1>16. Unlinked(g, B)
  <2>1. Unlinked(d, A) /\ BusyIn(d, A) = BusyIn(h, A)
    BY <1>2, SameSets DEF Mem
  <2> QED BY <1>9, <1>11, <1>15, <2>1 DEF Unlinked
<1>17. Holds(g, B, hd)
  <2>1. ASSUME NEW a \in BusyIn(h, A) PROVE h[a].size \in Nat /\ g[a].size \in Nat /\ h[a].size <= g[a].size
    <3>1. h[a].size \in Nat
      BY <1>1, <1>15 DEF IsHeap, Header
    <3>2. CASE a = m
      BY <1>4, <1>8, <3>1, <3>2 DEF x, HDR
    <3>3. CASE a # m
      BY <1>9, <1>15, <3>1, <3>3
    <3> QED BY <3>2, <3>3
  <2>2. ASSUME NEW r \in DOMAIN hd
        PROVE  r \in Nat /\ r - HDR \in BusyIn(g, B) /\ hd[r] \in Requests /\ hd[r] <= g[r - HDR].size
    <3>1. r \in Nat /\ r - HDR \in BusyIn(h, A) /\ hd[r] \in Requests /\ hd[r] <= h[r - HDR].size
      BY <1>1 DEF Holds
    <3>2. hd[r] \in Nat
      BY <3>1, Rounded
    <3>3. hd[r] <= g[r - HDR].size
      BY <2>1, <3>1, <3>2
    <3> QED BY <1>11, <3>1, <3>3
  <2>3. \A a \in BusyIn(g, B) : a + HDR \in DOMAIN hd
    BY <1>1, <1>11 DEF Holds
  <2> QED BY <2>2, <2>3 DEF Holds
<1>18. Mem(g, B, fr, hd)
  BY <1>8, <1>12, <1>13, <1>14, <1>16, <1>17 DEF Mem
<1>19. OnList(g, q, l, S \ {e})
  <2>1. Chain(d, q, l) /\ \A i \in 0 .. l - 1 : q[i] \in DOMAIN d /\ q[i] # m
    BY <1>2 DEF OnList, Chain
  <2>2. Chain(g, q, l)
    <3>1. \A i \in 0 .. l - 1 : q[i] \in DOMAIN g /\ g[q[i]] = d[q[i]]
      BY <1>5, <1>8, <2>1
    <3> QED BY <2>1, <3>1, ChainSame
  <2> QED BY <1>2, <2>2 DEF OnList
<1>20. \A a \in B : g[a].next = h[a].next
  <2> SUFFICES ASSUME NEW a \in B PROVE d[a].next = h[a].next /\ a \in DOMAIN h
    BY <1>9
  <2>1. a \in DOMAIN h
    BY <1>1, <1>3 DEF B
  <2>2. a = p[j] \/ \A i \in 0 .. n - 1 : p[i] # a
    <3>1. CASE a = e
      BY <3>1
    <3>2. CASE a \in A
      <4>1. a \notin S
        BY <1>1, <3>2 DEF FreeIn, Blocks
      <4> QED BY <4>1 DEF OnList
    <3> QED BY <3>1, <3>2 DEF B
  <2>3. Chain(h, p, n)
    BY DEF OnList
  <2>4. \A b \in DOMAIN h : (b = p[j] \/ \A i \in 0 .. n - 1 : p[i] # b) =>
                del(h, p[j])[b].next = h[b].next /\ del(h, p[j])[b].root = h[b].root
    BY <1>1, <2>3, Deleted
  <2> QED BY <2>1, <2>2, <2>4 DEF d
<1> QED BY <1>2, <1>8, <1>9, <1>10, <1>11, <1>12, <1>18, <1>19, <1>20 DEF q, l, L, B, x, UnitedTo

-----------------------------------------------------------------------------
(***************************************************************************)
(* malloc puts a fresh frame on the list as one block.                     *)
(***************************************************************************)
Paged(h, m) == With(h, m, FreeHdr(PAGE - HDR))

\* h with frame f, one free block at m, on the list is g.
PagedTo(h, fr, hd, f, m, g) ==
    /\ Mem(g, {}, fr \cup {f}, hd) /\ ListOf(g)
    /\ Blocks(g, {}) = Blocks(h, {}) \cup {m} /\ m \notin Blocks(h, {})
    /\ FreeIn(g, {}) = FreeIn(h, {}) \cup {m} /\ BusyIn(g, {}) = BusyIn(h, {})
    /\ g[m].size = PAGE - HDR /\ Stop(g, m) = m + PAGE
    /\ \A a \in Blocks(h, {}) : g[a].size = h[a].size

\* c is h with the header of a page at m, which lies beside blocks and list.
Beside(h, p, n, m, c) ==
    /\ IsHeap(c) /\ DOMAIN c = DOMAIN h \cup {m} /\ m \notin DOMAIN h
    /\ m \in Nat \ {0} /\ m # SENTINEL
    /\ c[m] = FreeHdr(PAGE - HDR) /\ \A a \in DOMAIN h : a # m => c[a] = h[a]
    /\ OnList(c, p, n, {SENTINEL} \cup FreeIn(h, {})) /\ m \notin {SENTINEL} \cup FreeIn(h, {})
    /\ m \in DOMAIN c /\ c[SENTINEL].size < c[m].size /\ Anchored(c)

\* A fresh frame is such a page.
LEMMA PageBeside ==
  ASSUME NEW h, NEW fr, NEW hd, Mem(h, {}, fr, hd),
         NEW p, NEW n, OnList(h, p, n, {SENTINEL} \cup FreeIn(h, {})),
         NEW f \in 1 .. Frames, f \notin fr, NEW m, m = f * PAGE,
         NEW c, c = Paged(h, m)
  PROVE  Beside(h, p, n, m, c)
<1> DEFINE L == Blocks(h, {})
           S == {SENTINEL} \cup FreeIn(h, {})
           w == FreeHdr(PAGE - HDR)
<1>1. /\ IsHeap(h) /\ Anchored(h) /\ Geo(h, L, fr) /\ Unlinked(h, {}) /\ Holds(h, {}, hd)
  BY DEF Mem
<1>2. PAGE \in Nat /\ PAGE > 16 /\ PAGE - HDR \in Nat /\ PAGE - HDR > 0 /\ f \in Nat /\ f > 0
  BY MallocAssumption DEF HDR
<1>3. w \in Header /\ w.size = PAGE - HDR /\ w.state = "FREE"
  BY <1>2 DEF FreeHdr, Header, NULL
<1>4. m \in Nat \ {0} /\ m # SENTINEL
  <2>1. 0 * PAGE + PAGE <= f * PAGE
    BY <1>2, PageOrder
  <2>2. m \in Nat
    BY <1>2, FrameStart
  <2> QED BY <1>2, <2>1, <2>2 DEF SENTINEL, HDR
<1> HIDE DEF L, w
<1>5. /\ IsHeap(c) /\ DOMAIN c = DOMAIN h \cup {m}
      /\ c[m] = w /\ \A a \in DOMAIN h : a # m => c[a] = h[a]
  <2>1. /\ IsHeap(With(h, m, w)) /\ DOMAIN With(h, m, w) = DOMAIN h \cup {m}
        /\ With(h, m, w)[m] = w /\ \A a \in DOMAIN h : a # m => With(h, m, w)[a] = h[a]
    BY <1>1, <1>3, <1>4, Stored
  <2>2. c = With(h, m, w)
    BY DEF w, Paged
  <2> QED BY <2>1, <2>2
<1>6. m \notin L /\ m \notin DOMAIN h
  <2>1. PageOf(m) = f
    BY <1>2, FrameStart
  <2>2. m \notin L
    BY <1>1, <2>1 DEF Geo, Placed
  <2> QED BY <1>4, <2>2 DEF L, Blocks
<1>7. OnList(c, p, n, S) /\ m \notin S /\ m \in DOMAIN c /\ c[SENTINEL].size < c[m].size /\ Anchored(c)
  <2>1. Chain(h, p, n) /\ \A i \in 0 .. n - 1 : p[i] \in DOMAIN h
    BY DEF OnList, Chain
  <2>2. Chain(c, p, n)
    <3>1. \A i \in 0 .. n - 1 : p[i] \in DOMAIN c /\ c[p[i]] = h[p[i]]
      BY <1>5, <1>6, <2>1
    <3> QED BY <2>1, <3>1, ChainSame
  <2>3. m \notin S /\ m \in DOMAIN c
    BY <1>4, <1>5, <1>6 DEF FreeIn, L
  <2>4. Anchored(c)
    BY <1>1, <1>4, <1>5 DEF Anchored
  <2>5. c[SENTINEL].size < c[m].size
    BY <1>2, <1>3, <1>5, <2>4 DEF Anchored
  <2>6. OnList(c, p, n, S)
    BY <2>2 DEF OnList
  <2> QED BY <2>3, <2>4, <2>5, <2>6
<1> QED BY <1>4, <1>5, <1>6, <1>7 DEF w, Beside

\* A fresh frame becomes one free block on the list.
LEMMA PageAdded ==
  ASSUME NEW h, NEW fr, NEW hd, Mem(h, {}, fr, hd),
         NEW p, NEW n, OnList(h, p, n, {SENTINEL} \cup FreeIn(h, {})),
         NEW f \in 1 .. Frames, f \notin fr, NEW m, m = f * PAGE,
         NEW c, c = Paged(h, m), NEW g, g = add(c, SENTINEL, m)
  PROVE  PagedTo(h, fr, hd, f, m, g) /\ addHead(c, SENTINEL, m) = SENTINEL
<1> DEFINE L == Blocks(h, {})
           S == {SENTINEL} \cup FreeIn(h, {})
           w == FreeHdr(PAGE - HDR)
<1>1. /\ IsHeap(h) /\ Anchored(h) /\ Geo(h, L, fr) /\ Unlinked(h, {}) /\ Holds(h, {}, hd)
  BY DEF Mem
<1>2. PAGE \in Nat /\ PAGE > 16 /\ PAGE - HDR \in Nat /\ PAGE - HDR > 0 /\ f \in Nat /\ f > 0
  BY MallocAssumption DEF HDR
<1>3. w \in Header /\ w.size = PAGE - HDR /\ w.state = "FREE"
  BY <1>2 DEF FreeHdr, Header, NULL
<1>b. Beside(h, p, n, m, c)
  BY PageBeside
<1>a. /\ IsHeap(c) /\ DOMAIN c = DOMAIN h \cup {m} /\ m \notin DOMAIN h
      /\ m \in Nat \ {0} /\ m # SENTINEL
      /\ c[m] = w /\ \A a \in DOMAIN h : a # m => c[a] = h[a]
      /\ OnList(c, p, n, S) /\ m \notin S
      /\ m \in DOMAIN c /\ c[SENTINEL].size < c[m].size /\ Anchored(c)
  BY <1>b DEF Beside
<1>4. m \in Nat \ {0} /\ m # SENTINEL
  BY <1>a
<1> HIDE DEF L, w
<1>5. /\ IsHeap(c) /\ DOMAIN c = DOMAIN h \cup {m}
      /\ c[m] = w /\ \A a \in DOMAIN h : a # m => c[a] = h[a]
  BY <1>a
<1>6. m \notin L /\ m \notin DOMAIN h
  BY <1>a DEF L, Blocks
<1>7. OnList(c, p, n, S) /\ m \notin S /\ m \in DOMAIN c /\ c[SENTINEL].size < c[m].size /\ Anchored(c)
  BY <1>a
<1>8. PICK k \in 1 .. n : OnList(g, InsertAt(p, n, k, m), n + 1, S \cup {m})
  BY <1>5, <1>7, AddedTo
<1>9. /\ IsHeap(g) /\ SameBlocks(c, g) /\ addHead(c, SENTINEL, m) = SENTINEL
      /\ g[SENTINEL].root = c[SENTINEL].root
      /\ \A a \in DOMAIN c : (a # m /\ \A i \in 0 .. n - 1 : p[i] # a) =>
             g[a].next = c[a].next /\ g[a].root = c[a].root
  <2>1. Chain(c, p, n) /\ \A i \in 0 .. n - 1 : p[i] # m
    BY <1>7 DEF OnList
  <2> QED BY <1>5, <1>7, <2>1, Added
<1> DEFINE q == InsertAt(p, n, k, m)
           l == n + 1
<1> HIDE DEF q, l
<1>10. /\ DOMAIN g = DOMAIN h \cup {m} /\ g[m].size = PAGE - HDR /\ g[m].state = "FREE"
       /\ \A a \in DOMAIN h : g[a].size = h[a].size /\ g[a].state = h[a].state /\ a # m
  BY <1>3, <1>5, <1>6, <1>9 DEF SameBlocks
<1>11. /\ Blocks(g, {}) = L \cup {m}
       /\ FreeIn(g, {}) = FreeIn(h, {}) \cup {m} /\ BusyIn(g, {}) = BusyIn(h, {})
  <2>1. Blocks(g, {}) = L \cup {m} /\ \A a \in L : a \in DOMAIN h
    BY <1>4, <1>10 DEF Blocks, L
  <2> QED BY <1>10, <2>1 DEF FreeIn, BusyIn, L
<1>12. \A a \in L : g[a].size = h[a].size
  BY <1>10 DEF L, Blocks
<1>13. Geo(g, Blocks(g, {}), fr \cup {f}) /\ Stop(g, m) = m + PAGE
  BY <1>1, <1>10, <1>11, <1>12, GeoPage
<1>14. Anchored(g)
  BY <1>7, <1>9 DEF Anchored, SameBlocks
<1>15. Unlinked(g, {})
  <2> SUFFICES ASSUME NEW a \in BusyIn(h, {}) PROVE g[a].next = NULL /\ g[a].root = NULL
    BY <1>11 DEF Unlinked
  <2>1. a \in DOMAIN h /\ a # m /\ a \in DOMAIN c /\ a # SENTINEL /\ a \notin FreeIn(h, {})
    BY <1>5, <1>6 DEF BusyIn, FreeIn, Blocks
  <2>2. \A i \in 0 .. n - 1 : p[i] # a
    BY <2>1 DEF OnList
  <2>3. g[a].next = h[a].next /\ g[a].root = h[a].root
    BY <1>5, <1>9, <2>1, <2>2
  <2> QED BY <1>1, <2>3 DEF Unlinked
<1>16. Holds(g, {}, hd)
  <2>1. \A a \in BusyIn(h, {}) : g[a].size = h[a].size
    BY <1>12 DEF BusyIn, L
  <2> QED BY <1>1, <1>11, <2>1 DEF Holds
<1>17. OnList(g, q, l, {SENTINEL} \cup FreeIn(g, {}))
  <2>1. S \cup {m} = {SENTINEL} \cup FreeIn(g, {})
    BY <1>11
  <2> QED BY <1>8, <2>1 DEF q, l
<1>18. Mem(g, {}, fr \cup {f}, hd)
  BY <1>9, <1>13, <1>14, <1>15, <1>16, <1>17, Settled
<1>19. ListOf(g)
  BY <1>17 DEF ListOf
<1> QED BY <1>6, <1>9, <1>10, <1>11, <1>12, <1>13, <1>18, <1>19 DEF L, PagedTo

-----------------------------------------------------------------------------
(***************************************************************************)
(* Where malloc is.  The blocks before position c of the list have been    *)
(* merged with what is behind them; the sweep goes on at position c, even  *)
(* where x, the predecessor it remembers, has been swallowed.              *)
(***************************************************************************)
NodeAt(p, n, c) == IF c < n THEN p[c] ELSE NULL

Swept(h, A, p, c) == \A i \in 1 .. c - 1 : Closed(h, A, p[i])

CleanPos(h, m, p, n, c) ==
    /\ OnList(h, p, n, {SENTINEL} \cup FreeIn(h, {}))
    /\ c \in 1 .. n /\ m = NodeAt(p, n, c) /\ Swept(h, {}, p, c)

CleanAt(h, m) == \E p, n, c : CleanPos(h, m, p, n, c)

UnitePos(h, A, m, x, p, n, c) ==
    /\ OnList(h, p, n, {SENTINEL} \cup (FreeIn(h, A) \ {m}))
    /\ c \in 1 .. n /\ Swept(h, A, p, c)
    /\ x = p[c - 1] \/ (x \in A /\ h[x].next = NodeAt(p, n, c) /\ Closed(h, A, m))

UniteAt(h, A, m, x) ==
    /\ m \in FreeIn(h, A)
    /\ \A a \in A : m < a /\ a < Stop(h, m)
    /\ \E p, n, c : UnitePos(h, A, m, x, p, n, c)

AllClosed(h) == \A a \in FreeIn(h, {}) : Closed(h, {}, a)

(***************************************************************************)
(* clean takes the block at position c.                                    *)
(***************************************************************************)
LEMMA CleanTaken ==
  ASSUME NEW h, NEW fr, NEW hd, Mem(h, {}, fr, hd), NEW m, CleanAt(h, m), m # NULL
  PROVE  /\ Mem(del(h, m), {}, fr, hd) /\ UniteAt(del(h, m), {}, m, h[m].root)
         /\ SameBlocks(h, del(h, m))
<1> DEFINE S == {SENTINEL} \cup FreeIn(h, {})
           g == del(h, m)
<1>1. PICK p, n, c : CleanPos(h, m, p, n, c)
  BY DEF CleanAt
<1>2. n \in Nat \ {0} /\ c \in Nat /\ c >= 1 /\ c <= n /\ OnList(h, p, n, S)
  <2>1. OnList(h, p, n, S) /\ c \in 1 .. n
    BY <1>1 DEF CleanPos
  <2>2. n \in Nat \ {0}
    BY <2>1 DEF OnList, Chain
  <2> QED BY <2>1, <2>2
<1>3. c < n /\ m = p[c]
  BY <1>1 DEF CleanPos, NodeAt
<1>4. c \in 1 .. n - 1 /\ c \in 1 .. n /\ c - 1 \in 0 .. c - 1
  BY <1>2, <1>3
<1> DEFINE q == RemoveAt(p, n, c)
           l == n - 1
<1>5. /\ m \in FreeIn(h, {}) /\ m \in S /\ m \in Blocks(h, {})
      /\ Mem(g, {}, fr, hd) /\ SameBlocks(h, g) /\ OnList(g, q, l, S \ {m}) /\ h[m].root = p[c - 1]
  <2>1. S \subseteq {SENTINEL} \cup FreeIn(h, {})
    OBVIOUS
  <2> HIDE DEF S
  <2>2. OnList(h, p, n, S) /\ c \in 1 .. n - 1
    BY <1>2, <1>4
  <2>3. /\ p[c] \in FreeIn(h, {}) /\ p[c] \in S /\ p[c] \in Blocks(h, {})
        /\ Mem(del(h, p[c]), {}, fr, hd) /\ SameBlocks(h, del(h, p[c]))
        /\ OnList(del(h, p[c]), RemoveAt(p, n, c), n - 1, S \ {p[c]})
        /\ h[p[c]].root = p[c - 1]
    BY <2>1, <2>2, TakenOff
  <2> QED BY <1>3, <2>3
<1>6. \A i \in 0 .. c - 1 : q[i] = p[i]
  BY <1>2, <1>4, RemoveFacts
<1> HIDE DEF g, q, l
<1>7. FreeIn(g, {}) = FreeIn(h, {}) /\ \A a \in DOMAIN h : Stop(g, a) = Stop(h, a)
  BY <1>5, SameSets
<1>8. S \ {m} = {SENTINEL} \cup (FreeIn(g, {}) \ {m})
  BY <1>5, <1>7 DEF Blocks
<1>9. Swept(g, {}, q, c)
  <2> SUFFICES ASSUME NEW i \in 1 .. c - 1 PROVE Closed(g, {}, q[i])
    BY DEF Swept
  <2>1. i \in 0 .. c - 1 /\ i \in 0 .. n - 1
    BY <1>2
  <2>2. p[i] \in DOMAIN h /\ q[i] = p[i]
    BY <1>2, <1>6, <2>1 DEF OnList, Chain
  <2>3. Closed(h, {}, p[i])
    BY <1>1 DEF CleanPos, Swept
  <2> QED BY <1>7, <2>2, <2>3 DEF Closed
<1>10. UnitePos(g, {}, m, h[m].root, q, l, c)
  <2>1. c \in 1 .. l
    BY <1>2, <1>3 DEF l
  <2>2. h[m].root = q[c - 1]
    BY <1>4, <1>5, <1>6
  <2> QED BY <1>5, <1>8, <1>9, <2>1, <2>2 DEF UnitePos
<1>11. UniteAt(g, {}, m, h[m].root)
  BY <1>5, <1>7, <1>10 DEF UniteAt
<1> QED BY <1>5, <1>11 DEF g

(***************************************************************************)
(* The block clean has in its hand swallows the one behind it: h becomes g.*)
(***************************************************************************)
Merged(h, A, fr, hd, m, x, e, g) ==
    /\ Mem(g, A \cup {e}, fr, hd) /\ UniteAt(g, A \cup {e}, m, x)
    /\ Blocks(g, A \cup {e}) = Blocks(h, A) \ {e} /\ BusyIn(g, A \cup {e}) = BusyIn(h, A)
    /\ e \in FreeIn(h, A) /\ m \in FreeIn(h, A) /\ PageOf(e) = PageOf(m)
    /\ g[m].size = h[m].size + HDR + h[e].size
    /\ \A a \in DOMAIN h : a # m => g[a].size = h[a].size

\* clean() stays on its way when mm swallows its successor.
LEMMA CleanUnited ==
  ASSUME NEW h, NEW A, NEW fr, NEW hd, Mem(h, A, fr, hd), NEW m, NEW x, UniteAt(h, A, m, x),
         ~Closed(h, A, m), NEW e, Adjacent(h, m, e), NEW g, g = Uniting(h, m, e)
  PROVE  Merged(h, A, fr, hd, m, x, e, g)
<1> DEFINE S == {SENTINEL} \cup (FreeIn(h, A) \ {m})
           B == A \cup {e}
<1>1. PICK p, n, c : UnitePos(h, A, m, x, p, n, c)
  BY DEF UniteAt
<1>2. n \in Nat /\ c \in Nat /\ c >= 1 /\ c <= n /\ OnList(h, p, n, S) /\ x = p[c - 1]
  <2>1. OnList(h, p, n, S) /\ c \in 1 .. n /\ x = p[c - 1]
    BY <1>1 DEF UnitePos
  <2>2. n \in Nat
    BY <2>1 DEF OnList, Chain
  <2> HIDE DEF S
  <2> QED BY <2>1, <2>2
<1>3. m \in FreeIn(h, A) /\ m \in Blocks(h, A) /\ m \notin S /\ m # SENTINEL /\ Geo(h, Blocks(h, A), fr)
  BY DEF UniteAt, FreeIn, Blocks, Mem
<1>4. e \in FreeIn(h, A) /\ PageOf(e) = PageOf(m)
  BY DEF Closed, Adjacent
<1>5. e \in S /\ e # SENTINEL /\ e # m
  <2>1. m \in Nat /\ h[m].size \in Nat /\ Stop(h, m) = m + 16 + h[m].size
    BY <1>3, BlockFacts
  <2>2. e # m
    BY <2>1 DEF Adjacent
  <2> QED BY <1>4, <2>2 DEF FreeIn, Blocks
<1>6. PICK j \in 0 .. n - 1 : p[j] = e
  BY <1>2, <1>5 DEF OnList
<1>7. j \in 1 .. n - 1
  <2>1. j # 0
    BY <1>2, <1>5, <1>6 DEF OnList, Chain
  <2> QED BY <1>2, <1>6, <2>1
<1> DEFINE q == RemoveAt(p, n, j)
           l == n - 1
<1>8. /\ Mem(g, B, fr, hd) /\ OnList(g, q, l, S \ {e}) /\ e > m
      /\ Blocks(g, B) = Blocks(h, A) \ {e}
      /\ FreeIn(g, B) = FreeIn(h, A) \ {e} /\ BusyIn(g, B) = BusyIn(h, A)
      /\ g[m].size = h[m].size + HDR + h[e].size /\ Stop(g, m) = Stop(h, e)
      /\ \A a \in DOMAIN h : a # m => g[a].size = h[a].size
      /\ \A a \in B : g[a].next = h[a].next
  <2>1. S \subseteq {SENTINEL} \cup FreeIn(h, A)
    OBVIOUS
  <2> HIDE DEF S
  <2>2. e = p[j] /\ m \notin S /\ OnList(h, p, n, S)
    BY <1>2, <1>3, <1>6
  <2>3. UnitedTo(h, A, fr, hd, m, S, p, n, j, e, g)
    BY <1>3, <1>7, <2>1, <2>2, United
  <2> QED BY <2>3 DEF UnitedTo
<1>9. /\ \A i \in 0 .. j - 1 : i \in 0 .. n - 1 /\ q[i] = p[i]
      /\ \A i \in j .. n - 2 : i + 1 \in 0 .. n - 1 /\ q[i] = p[i + 1]
  BY <1>2, <1>7, RemoveFacts
<1> HIDE DEF q, l
<1>10. S \ {e} = {SENTINEL} \cup (FreeIn(g, B) \ {m})
  BY <1>5, <1>8
<1>11. ASSUME NEW a \in S, a # SENTINEL, Closed(h, A, a) PROVE Closed(g, B, a)
  <2>1. a \in DOMAIN h /\ a # m
    BY <1>11 DEF FreeIn, Blocks
  <2>2. Stop(g, a) = Stop(h, a)
    BY <1>8, <2>1 DEF Stop
  <2> QED BY <1>8, <1>11, <2>2 DEF Closed
<1>12. ASSUME NEW i \in 1 .. n - 1 PROVE p[i] \in S /\ p[i] # SENTINEL
  <2>1. i \in 0 .. n - 1 /\ i # 0 /\ 0 \in 0 .. n - 1
    BY <1>2
  <2> QED BY <1>2, <2>1 DEF OnList, Chain
<1>13. ASSUME NEW i \in 1 .. c - 1 PROVE i \in 1 .. n - 1 /\ Closed(g, B, p[i])
  <2>1. i \in 1 .. n - 1
    BY <1>2
  <2>2. Closed(h, A, p[i])
    BY <1>1 DEF UnitePos, Swept
  <2> QED BY <1>11, <1>12, <2>1, <2>2
<1>14. m \in FreeIn(g, B)
  BY <1>3, <1>5, <1>8
<1>15. \A a \in B : m < a /\ a < Stop(g, m)
  <2>1. /\ m \in Nat /\ e \in Nat /\ Stop(h, e) \in Nat /\ h[e].size \in Nat
        /\ Stop(h, e) = e + 16 + h[e].size
    BY <1>3, <1>4, BlockFacts DEF FreeIn
  <2>2. e < Stop(g, m) /\ m < e
    BY <1>8, <2>1
  <2>3. ASSUME NEW a \in A PROVE m < a /\ a < Stop(g, m)
    <3>1. m < a /\ a < e
      BY DEF UniteAt, Adjacent
    <3>2. a \in Nat
      BY DEF Mem, IsHeap
    <3> QED BY <1>8, <2>1, <2>2, <3>1, <3>2
  <2> QED BY <2>2, <2>3
<1>16. \E d : UnitePos(g, B, m, x, q, l, d)
  <2>1. CASE c <= j
    <3>1. c \in 1 .. l /\ c - 1 \in 0 .. j - 1
      BY <1>2, <1>7, <2>1 DEF l
    <3>2. Swept(g, B, q, c)
      <4> SUFFICES ASSUME NEW i \in 1 .. c - 1 PROVE Closed(g, B, q[i])
        BY DEF Swept
      <4>1. i \in 0 .. j - 1
        BY <1>2, <1>7, <2>1
      <4> QED BY <1>9, <1>13, <4>1
    <3>3. x = q[c - 1]
      BY <1>2, <1>9, <3>1
    <3> QED BY <1>8, <1>10, <3>1, <3>2, <3>3 DEF UnitePos
  <2>2. CASE j < c
    <3> DEFINE d == c - 1
    <3>1. d \in 1 .. l /\ d \in Nat
      BY <1>2, <1>7, <2>2 DEF l
    <3>2. Swept(g, B, q, d)
      <4> SUFFICES ASSUME NEW i \in 1 .. d - 1 PROVE Closed(g, B, q[i])
        BY DEF Swept
      <4>1. i \in 1 .. c - 1 /\ i + 1 \in 1 .. c - 1 /\ (i \in 0 .. j - 1 \/ i \in j .. n - 2)
        BY <1>2, <1>7
      <4> QED BY <1>9, <1>13, <4>1
    <3>3. CASE j = d
      <4>1. x = e /\ x \in B
        BY <1>2, <1>6, <3>3
      <4>2. Closed(g, B, m)
        <5>1. Closed(h, A, e)
          <6>1. j \in 1 .. c - 1
            BY <1>7, <3>3
          <6> QED BY <1>1, <1>6, <6>1 DEF UnitePos, Swept
        <5> QED BY <1>4, <1>8, <5>1 DEF Closed
      <4>3. g[x].next = NodeAt(q, l, d)
        <5>1. g[x].next = h[p[j]].next
          BY <1>6, <1>8, <4>1
        <5>2. CASE c < n
          <6>1. j \in 0 .. n - 2 /\ d \in j .. n - 2 /\ d + 1 = c /\ j + 1 = c /\ d < l
            BY <1>2, <1>7, <3>3, <5>2 DEF l
          <6>2. h[p[j]].next = p[c]
            BY <1>2, <6>1 DEF OnList, Chain
          <6>3. q[d] = p[c]
            BY <1>9, <6>1
          <6> QED BY <5>1, <6>1, <6>2, <6>3 DEF NodeAt
        <5>3. CASE c = n
          <6>1. j = n - 1 /\ ~(d < l)
            BY <1>2, <3>3, <5>3 DEF l
          <6>2. h[p[j]].next = NULL
            BY <1>2, <6>1 DEF OnList, Chain
          <6> QED BY <5>1, <6>1, <6>2 DEF NodeAt
        <5> QED BY <1>2, <5>2, <5>3
      <4> QED BY <1>8, <1>10, <3>1, <3>2, <4>1, <4>2, <4>3 DEF UnitePos
    <3>4. CASE j # d
      <4>1. d - 1 \in j .. n - 2 /\ (d - 1) + 1 = c - 1
        BY <1>2, <1>7, <2>2, <3>4
      <4>2. x = q[d - 1]
        BY <1>2, <1>9, <4>1
      <4> HIDE DEF d
      <4>3. UnitePos(g, B, m, x, q, l, d)
        BY <1>8, <1>10, <3>1, <3>2, <4>2 DEF UnitePos
      <4> QED BY <4>3
    <3> QED BY <3>3, <3>4
  <2>3. j \in Nat
    BY <1>2, <1>7
  <2>4. c <= j \/ j < c
    BY <1>2, <2>3
  <2> QED BY <2>1, <2>2, <2>4
<1>17. UniteAt(g, B, m, x)
  BY <1>14, <1>15, <1>16 DEF UniteAt
<1> QED BY <1>3, <1>4, <1>8, <1>17 DEF Merged

(***************************************************************************)
(* clean puts the block back, at position k, and goes on behind x.         *)
(***************************************************************************)
GoOn(y, m, x) == IF m # y[x].next THEN y[x].next ELSE y[y[x].next].next

\* h with m put back and the headers of A gone is g, and clean is at m2.
PutDone(h, A, fr, hd, g, m2) ==
    /\ Mem(g, {}, fr, hd) /\ CleanAt(g, m2)
    /\ Blocks(g, {}) = Blocks(h, A) /\ BusyIn(g, {}) = BusyIn(h, A)
    /\ \A a \in Blocks(h, A) : g[a].size = h[a].size

\* clean() stays on its way when it puts mm back.
LEMMA CleanPutBack ==
  ASSUME NEW h, NEW A, NEW fr, NEW hd, Mem(h, A, fr, hd), NEW m, NEW x, UniteAt(h, A, m, x),
         Closed(h, A, m), NEW y, y = add(h, SENTINEL, m), NEW g, g = Restrict(y, DOMAIN h \ A),
         NEW m2, m2 = GoOn(y, m, x)
  PROVE  PutDone(h, A, fr, hd, g, m2) /\ addHead(h, SENTINEL, m) = SENTINEL
<1> DEFINE S == {SENTINEL} \cup (FreeIn(h, A) \ {m})
<1>1. PICK p, n, c : UnitePos(h, A, m, x, p, n, c)
  BY DEF UniteAt
<1>2. n \in Nat \ {0} /\ c \in Nat /\ c >= 1 /\ c <= n /\ OnList(h, p, n, S)
  <2>1. OnList(h, p, n, S) /\ c \in 1 .. n
    BY <1>1 DEF UnitePos
  <2>2. n \in Nat \ {0}
    BY <2>1 DEF OnList, Chain
  <2> QED BY <2>1, <2>2
<1>3. m \in FreeIn(h, A) /\ m \in Blocks(h, A) /\ m # SENTINEL /\ m # NULL
  <2>1. m \in FreeIn(h, A) /\ m \in Blocks(h, A) /\ m # SENTINEL /\ m \in DOMAIN h
    BY DEF UniteAt, FreeIn, Blocks
  <2> QED BY <2>1 DEF Mem, IsHeap
<1>4. PICK k \in 1 .. n : PutTo(h, A, fr, hd, m, p, n, k, y, g)
  BY <1>2, <1>3, PutBack
<1> DEFINE q == InsertAt(p, n, k, m)
           l == n + 1
           c2 == IF c < k THEN c ELSE c + 1
<1>5. /\ \A i \in 0 .. k - 1 : i \in 0 .. n - 1 /\ i \in 0 .. n /\ q[i] = p[i]
      /\ k \in 0 .. n /\ q[k] = m
      /\ \A i \in k .. n - 1 : i \in 0 .. n - 1 /\ i + 1 \in 0 .. n /\ q[i + 1] = p[i]
      /\ \A i \in 0 .. n : i \in 0 .. k - 1 \/ i = k \/ (i - 1 \in k .. n - 1 /\ i = (i - 1) + 1)
  BY <1>2, InsertFacts
<1>6. /\ Mem(g, {}, fr, hd) /\ addHead(h, SENTINEL, m) = SENTINEL /\ DOMAIN y = DOMAIN h
      /\ Chain(y, q, l) /\ OnList(g, q, l, {SENTINEL} \cup FreeIn(g, {}))
      /\ \A a \in A : y[a].next = h[a].next
      /\ Blocks(g, {}) = Blocks(h, A) /\ FreeIn(g, {}) = FreeIn(h, A) /\ BusyIn(g, {}) = BusyIn(h, A)
      /\ \A a \in Blocks(h, A) : g[a].size = h[a].size
  BY <1>4 DEF PutTo
<1>7. l = n + 1 /\ k \in Nat /\ k >= 1 /\ k <= n /\ c2 \in 1 .. l /\ c2 = IF c < k THEN c ELSE c + 1
  BY <1>2
<1> HIDE DEF q, l, c2
\* The links of the new list.
<1>8. ASSUME NEW i \in 0 .. n PROVE y[q[i]].next = NodeAt(q, l, i + 1)
  <2>1. CASE i < n
    <3>1. i \in 0 .. l - 2 /\ i + 1 < l
      BY <1>2, <1>7, <2>1
    <3> QED BY <1>6, <3>1 DEF Chain, NodeAt
  <2>2. CASE i = n
    <3>1. i = l - 1 /\ ~(i + 1 < l)
      BY <1>2, <1>7, <2>2
    <3> QED BY <1>6, <3>1 DEF Chain, NodeAt
  <2> QED BY <1>2, <2>1, <2>2
<1>9. ASSUME NEW i \in 0 .. n, i # k PROVE q[i] # m
  <2>1. i \in 0 .. l - 1 /\ k \in 0 .. l - 1
    BY <1>2, <1>7
  <2> QED BY <1>5, <1>6, <1>9, <2>1 DEF Chain
<1>10. ASSUME NEW i \in 0 .. l, i # k PROVE NodeAt(q, l, i) # m
  <2>1. i < l => i \in 0 .. n
    BY <1>2, <1>7
  <2> QED BY <1>3, <1>9, <1>10, <2>1 DEF NodeAt
\* The next node of the old list, in the new one.
<1>11. NodeAt(p, n, c) = IF c < k THEN NodeAt(q, l, c) ELSE NodeAt(q, l, c + 1)
  <2>1. CASE c < k
    <3>1. c \in 0 .. k - 1 /\ c < n /\ c < l
      BY <1>2, <1>7, <2>1
    <3> QED BY <1>5, <2>1, <3>1 DEF NodeAt
  <2>2. CASE ~(c < k) /\ c < n
    <3>1. c \in k .. n - 1 /\ c + 1 < l
      BY <1>2, <1>7, <2>2
    <3> QED BY <1>5, <2>2, <3>1 DEF NodeAt
  <2>3. CASE ~(c < k) /\ ~(c < n)
    <3>1. ~(c + 1 < l)
      BY <1>2, <1>7, <2>3
    <3> QED BY <2>3, <3>1 DEF NodeAt
  <2> QED BY <2>1, <2>2, <2>3
<1>12. m2 = NodeAt(q, l, c2)
  <2>0. m2 = IF m # y[x].next THEN y[x].next ELSE y[y[x].next].next
    BY DEF GoOn
  <2>1. CASE x = p[c - 1]
    <3>1. CASE c < k
      <4>1. c - 1 \in 0 .. k - 1 /\ c - 1 \in 0 .. n /\ (c - 1) + 1 = c /\ c \in 0 .. l /\ c # k
        BY <1>2, <1>7, <3>1
      <4>2. y[x].next = NodeAt(q, l, c)
        BY <1>5, <1>8, <2>1, <4>1
      <4> QED BY <2>0, <1>7, <1>10, <3>1, <4>1, <4>2
    <3>2. CASE c = k
      <4>1. c - 1 \in 0 .. k - 1 /\ c - 1 \in 0 .. n /\ (c - 1) + 1 = k /\ k < l /\ k \in 0 .. n /\ ~(c < k)
        BY <1>2, <1>7, <3>2
      <4>2. y[x].next = m
        BY <1>5, <1>8, <2>1, <4>1 DEF NodeAt
      <4>3. y[m].next = NodeAt(q, l, k + 1)
        BY <1>5, <1>8, <4>1
      <4> QED BY <2>0, <1>7, <3>2, <4>1, <4>2, <4>3
    <3>3. CASE c > k
      <4>1. c - 1 \in k .. n - 1 /\ (c - 1) + 1 = c /\ c \in 0 .. n /\ c + 1 \in 0 .. l /\ c + 1 # k /\ ~(c < k)
        BY <1>2, <1>7, <3>3
      <4>2. x = q[c]
        BY <1>5, <2>1, <4>1
      <4>3. y[x].next = NodeAt(q, l, c + 1)
        BY <1>8, <4>1, <4>2
      <4> QED BY <2>0, <1>7, <1>10, <4>1, <4>3
    <3> QED BY <1>2, <1>7, <3>1, <3>2, <3>3
  <2>2. CASE x \in A /\ h[x].next = NodeAt(p, n, c)
    <3>1. y[x].next = NodeAt(q, l, c2)
      BY <1>6, <1>7, <1>11, <2>2
    <3>2. c2 \in 0 .. l /\ c2 # k
      BY <1>2, <1>7
    <3> QED BY <2>0, <1>10, <3>1, <3>2
  <2> QED BY <1>1, <2>1, <2>2 DEF UnitePos
<1>13. ASSUME NEW a \in Blocks(h, A), Closed(h, A, a) PROVE Closed(g, {}, a)
  <2>1. Stop(g, a) = Stop(h, a)
    BY <1>6 DEF Stop
  <2> QED BY <1>6, <1>13, <2>1 DEF Closed
<1>14. ASSUME NEW i \in 1 .. c - 1 PROVE p[i] \in Blocks(h, A) /\ Closed(h, A, p[i])
  <2>1. i \in 0 .. n - 1 /\ 0 \in 0 .. n - 1 /\ i # 0
    BY <1>2
  <2>2. p[i] \in S /\ p[i] # SENTINEL
    BY <1>2, <2>1 DEF OnList, Chain
  <2> QED BY <1>1, <2>2 DEF UnitePos, Swept, FreeIn
<1>15. Swept(g, {}, q, c2)
  <2> SUFFICES ASSUME NEW i \in 1 .. c2 - 1 PROVE q[i] \in Blocks(h, A) /\ Closed(h, A, q[i])
    BY <1>13 DEF Swept
  <2>1. CASE i = k
    BY <1>3, <1>5, <2>1
  <2>2. CASE i < k
    <3>1. i \in 0 .. k - 1 /\ i \in 1 .. c - 1
      BY <1>2, <1>7, <2>2
    <3> QED BY <1>5, <1>14, <3>1
  <2>3. CASE i > k
    <3>1. i - 1 \in k .. n - 1 /\ (i - 1) + 1 = i /\ i - 1 \in 1 .. c - 1
      BY <1>2, <1>7, <2>3
    <3> QED BY <1>5, <1>14, <3>1
  <2> QED BY <1>7, <2>1, <2>2, <2>3
<1>16. CleanPos(g, m2, q, l, c2)
  BY <1>6, <1>7, <1>12, <1>15 DEF CleanPos
<1>17. CleanAt(g, m2)
  BY <1>16 DEF CleanAt
<1> QED BY <1>6, <1>17 DEF PutDone

-----------------------------------------------------------------------------
(***************************************************************************)
(* The inductive invariant.  While clean runs, the blocks before its place *)
(* in the list have nothing left to merge (Swept): merging mm can free no  *)
(* block for them, since only mm's end moves, and add() puts mm, which has *)
(* nothing left to merge either, before or behind that place.  When mm has *)
(* swallowed nextm, the links in that dead header still lead to the place. *)
(***************************************************************************)
Steps(h, A, p, r, m, x) ==
    /\ p \in {"idle", "clean", "unite", "grow"}
    /\ IF p = "idle" THEN r = 0 ELSE r \in Requests
    /\ p # "unite" => A = {} /\ x = NULL /\ ListOf(h)
    /\ p \in {"idle", "grow"} => m = NULL
    /\ p = "clean" => CleanAt(h, m)
    /\ p = "unite" => UniteAt(h, A, m, x)

\* The calls of one caller, now and after a step, on a heap of the frames fr.
Going(fr) ==
    /\ Mem(hdr, absorbed, fr, held) /\ mmList = SENTINEL
    /\ Steps(hdr, absorbed, pc, req, mm, nextm)

GoesOn(fr) ==
    /\ Mem(hdr', absorbed', fr, held') /\ mmList' = SENTINEL
    /\ Steps(hdr', absorbed', pc', req', mm', nextm')

\* The BUSY blocks stay the same.
SameBusy == BusyIn(hdr', absorbed') = BusyIn(hdr, absorbed)

Inv == Going(mmap) /\ (pc = "grow" => AllClosed(hdr))

(***************************************************************************)
(* malloc finds a block and hands it out.                                  *)
(***************************************************************************)
Chosen(m, r) == m = find(hdr, mmList, Round4(r)) /\ m # NULL

\* What find returns is a free block that is large enough.
LEMMA FoundBlock ==
  ASSUME NEW fr, Mem(hdr, {}, fr, held), mmList = SENTINEL, ListOf(hdr), NEW r \in Requests,
         NEW m, Chosen(m, r)
  PROVE  m \in FreeIn(hdr, {}) /\ Round4(r) <= hdr[m].size /\ hdr[m].size \in Nat
<1> DEFINE s == Round4(r)
           S == {SENTINEL} \cup FreeIn(hdr, {})
<1>1. PICK p, n : OnList(hdr, p, n, S)
  BY DEF ListOf
<1>2. s \in Nat /\ s > 0
  BY Rounded
<1> HIDE DEF s
<1>3. Chain(hdr, p, n) /\ n \in Nat \ {0} /\ p[0] = SENTINEL /\ IsHeap(hdr) /\ hdr[SENTINEL].size = 0
  BY <1>1 DEF OnList, Chain, Mem, Anchored
<1>4. PICK k \in 0 .. n - 1 : m = p[k] /\ hdr[p[k]].size >= s
  <2>1. \/ \E k \in 0 .. n - 1 : find(hdr, SENTINEL, s) = p[k] /\ hdr[p[k]].size >= s
        \/ find(hdr, SENTINEL, s) = NULL /\ \A k \in 0 .. n - 1 : hdr[p[k]].size < s
    BY <1>2, <1>3, Found
  <2>2. m = find(hdr, SENTINEL, s) /\ m # NULL
    BY DEF s, Chosen
  <2> QED BY <2>1, <2>2
<1>5. m # SENTINEL /\ hdr[m].size \in Nat /\ s <= hdr[m].size
  <2>1. m # SENTINEL
    BY <1>2, <1>3, <1>4
  <2>2. hdr[m].size \in Nat
    BY <1>3, <1>4 DEF Chain, IsHeap, Header
  <2> QED BY <1>2, <1>4, <2>1, <2>2
<1>6. m \in FreeIn(hdr, {})
  BY <1>1, <1>4, <1>5 DEF OnList
<1> QED BY <1>5, <1>6 DEF s

\* HandOut on a block that is off the list in d.
LEMMA HandOutStep ==
  ASSUME NEW d, NEW fr, NEW m, NEW q, NEW l, OffList(hdr, d, fr, held, m, q, l), mmList = SENTINEL,
         NEW r \in Requests, Round4(r) <= hdr[m].size, HandOut(d, m, r)
  PROVE  /\ Mem(hdr', {}, fr, held') /\ mmList' = SENTINEL /\ ListOf(hdr')
         /\ HandedTo(hdr, hdr', m, Round4(r))
<1> DEFINE s == Round4(r)
           t == Behind(m, s)
           c == Parted(hdr, d, m, s)
<1>1. s \in Nat /\ s > 0 /\ s % 4 = 0 /\ r <= s /\ s <= hdr[m].size
  BY Rounded
<1> HIDE DEF s
<1>2. held' = With(held, m + HDR, r)
  BY DEF HandOut
<1>3. CASE Split(m, s)
  <2>1. hdr[m].size >= s + 4 + HDR
    BY <1>3 DEF Split
  <2>2. hdr' = Given(Cut(hdr, d, m, s), m) /\ mmList' = addHead(c, SENTINEL, t)
    BY <1>3 DEF HandOut, Given, Cut, Sizing, Parted, Behind, Remainder, s
  <2> DEFINE g == Given(Cut(hdr, d, m, s), m)
  <2>3. Handed(hdr, fr, held, m, r, s, g) /\ addHead(c, SENTINEL, t) = SENTINEL
    BY <1>1, <2>1, HandedCut
  <2> QED BY <1>2, <2>2, <2>3 DEF Handed, s
<1>4. CASE ~Split(m, s)
  <2>1. ~(hdr[m].size >= s + 4 + HDR)
    BY <1>4 DEF Split
  <2>2. hdr' = Given(d, m) /\ mmList' = SENTINEL
    BY <1>4 DEF HandOut, Given, s
  <2>3. Handed(hdr, fr, held, m, r, s, Given(d, m))
    BY <1>1, <2>1, HandedWhole
  <2> QED BY <1>2, <2>2, <2>3 DEF Handed, s
<1> QED BY <1>3, <1>4

\* What a malloc that returns block m leaves.
GaveOut(fr, m, r) ==
    /\ GoesOn(fr) /\ pc' = "idle" /\ mmap' = mmap
    /\ Mem(hdr, {}, fr, held) /\ Mem(hdr', {}, fr, held') /\ absorbed = {} /\ absorbed' = {}
    /\ HandedTo(hdr, hdr', m, Round4(r))

\* malloc hands out the block that find returned.
LEMMA GiveStep ==
  ASSUME NEW fr, Going(fr), pc # "unite", NEW r \in Requests,
         NEW m, Chosen(m, r), HandOut(del(hdr, m), m, r)
  PROVE  GaveOut(fr, m, r)
<1>1. Mem(hdr, {}, fr, held) /\ mmList = SENTINEL /\ ListOf(hdr) /\ absorbed = {} /\ nextm = NULL
  BY DEF Going, Steps
<1>2. m \in FreeIn(hdr, {}) /\ Round4(r) <= hdr[m].size
  BY <1>1, FoundBlock
<1>3. PICK q, l : OffList(hdr, del(hdr, m), fr, held, m, q, l)
  BY <1>1, <1>2, TakeOff
<1>4. /\ Mem(hdr', {}, fr, held') /\ mmList' = SENTINEL /\ ListOf(hdr')
      /\ HandedTo(hdr, hdr', m, Round4(r))
  BY <1>1, <1>2, <1>3, HandOutStep
<1>5. pc' = "idle" /\ req' = 0 /\ mm' = NULL /\ mmap' = mmap /\ nextm' = NULL /\ absorbed' = {}
  BY <1>1 DEF HandOut
<1>6. GoesOn(fr)
  BY <1>4, <1>5 DEF GoesOn, Steps
<1> QED BY <1>1, <1>4, <1>5, <1>6 DEF GaveOut

\* The invariant holds with nothing but the sentinel in memory.
LEMMA InitInv == Init => Inv
<1> SUFFICES ASSUME Init PROVE Inv
  OBVIOUS
<1> DEFINE v == FreeHdr(0)
           q == [i \in 0 .. 0 |-> SENTINEL]
<1>1. /\ hdr = [a \in {SENTINEL} |-> v] /\ mmList = SENTINEL /\ mmap = {} /\ pc = "idle" /\ req = 0
      /\ mm = NULL /\ nextm = NULL /\ absorbed = {} /\ held = [p \in {} |-> 0]
  BY DEF Init
<1>2. v \in Header /\ v.size = 0 /\ v.next = NULL /\ v.root = NULL
  BY DEF FreeHdr, Header, NULL
<1> HIDE DEF v
<1>3. DOMAIN hdr = {SENTINEL} /\ hdr[SENTINEL] = v /\ hdr \in [DOMAIN hdr -> Header]
  BY <1>1, <1>2
<1>4. SENTINEL \in Nat \ {NULL} /\ IsFiniteSet({SENTINEL})
  <2>1. SENTINEL \in Nat \ {NULL}
    BY DEF SENTINEL, HDR, NULL
  <2>2. IsFiniteSet({SENTINEL})
    BY FS_Singleton
  <2> QED BY <2>1, <2>2
<1>5. IsHeap(hdr)
  BY <1>3, <1>4 DEF IsHeap
<1>6. Blocks(hdr, {}) = {} /\ FreeIn(hdr, {}) = {} /\ BusyIn(hdr, {}) = {}
  BY <1>3 DEF Blocks, FreeIn, BusyIn
<1>7. Anchored(hdr) /\ Unlinked(hdr, {}) /\ Holds(hdr, {}, held)
  BY <1>1, <1>2, <1>3, <1>6 DEF Anchored, Unlinked, Holds
<1>8. Geo(hdr, Blocks(hdr, {}), mmap)
  BY <1>1, <1>6 DEF Geo, Sized, Placed, Tiling, Apart
<1>9. OnList(hdr, q, 1, {SENTINEL} \cup FreeIn(hdr, {}))
  <2>1. q \in [0 .. 0 -> {SENTINEL}] /\ q[0] = SENTINEL
    OBVIOUS
  <2> HIDE DEF q
  <2>2. \A i \in 0 .. 0 : i = 0
    OBVIOUS
  <2>3. 1 - 1 = 0 /\ 0 .. 1 - 2 = {} /\ 1 .. 1 - 1 = {} /\ 1 \in Nat \ {0}
    OBVIOUS
  <2>4. Chain(hdr, q, 1)
    BY <1>2, <1>3, <2>1, <2>2, <2>3 DEF Chain
  <2> QED BY <1>6, <2>1, <2>2, <2>3, <2>4 DEF OnList
<1>10. Mem(hdr, {}, mmap, held)
  BY <1>5, <1>7, <1>8, <1>9, Settled
<1> HIDE DEF q
<1>11. ListOf(hdr)
  BY <1>9 DEF ListOf
<1> QED BY <1>1, <1>10, <1>11 DEF Inv, Going, Steps

\* One lemma per action: malloc finds a block at once;
LEMMA StepHit ==
  ASSUME NEW fr, Going(fr), NEW r \in Requests, MallocHit(r)
  PROVE  \E m : GaveOut(fr, m, r)
<1> DEFINE m == find(hdr, mmList, Round4(r))
<1>1. pc = "idle" /\ Chosen(m, r) /\ HandOut(del(hdr, m), m, r)
  BY DEF MallocHit, Chosen
<1> HIDE DEF m
<1> QED BY <1>1, GiveStep

\* malloc finds a block after clean() or with a fresh page;
LEMMA StepGrowHit ==
  ASSUME NEW fr, Going(fr), GrowHit
  PROVE  req \in Requests /\ \E m : GaveOut(fr, m, req)
<1> DEFINE m == find(hdr, mmList, Round4(req))
<1>1. pc = "grow" /\ Chosen(m, req) /\ HandOut(del(hdr, m), m, req)
  BY DEF GrowHit, Chosen
<1> HIDE DEF m
<1>2. req \in Requests
  BY <1>1 DEF Going, Steps
<1> QED BY <1>1, <1>2, GiveStep

\* clean() starts behind the sentinel.
LEMMA CleanStart ==
  ASSUME NEW fr, Mem(hdr, {}, fr, held), ListOf(hdr) PROVE CleanAt(hdr, hdr[SENTINEL].next)
<1>3. PICK p, n : OnList(hdr, p, n, {SENTINEL} \cup FreeIn(hdr, {}))
  BY DEF ListOf
<1>4. n \in Nat \ {0} /\ p[0] = SENTINEL /\ Chain(hdr, p, n)
  BY <1>3 DEF OnList, Chain
<1>5. hdr[SENTINEL].next = NodeAt(p, n, 1)
  <2>1. CASE 1 < n
    <3>1. 0 \in 0 .. n - 2 /\ 0 + 1 = 1
      BY <1>4, <2>1
    <3>2. hdr[p[0]].next = p[0 + 1]
      BY <1>4, <3>1 DEF Chain
    <3> QED BY <1>4, <2>1, <3>1, <3>2 DEF NodeAt
  <2>2. CASE ~(1 < n)
    <3>1. n - 1 = 0
      BY <1>4, <2>2
    <3>2. hdr[p[n - 1]].next = NULL
      BY <1>4 DEF Chain
    <3> QED BY <1>4, <2>2, <3>1, <3>2 DEF NodeAt
  <2> QED BY <2>1, <2>2
<1>6. CleanPos(hdr, hdr[SENTINEL].next, p, n, 1)
  <2>1. 1 \in 1 .. n /\ 1 .. 1 - 1 = {}
    BY <1>4
  <2>2. Swept(hdr, {}, p, 1)
    BY <2>1 DEF Swept
  <2> QED BY <1>3, <1>5, <2>1, <2>2 DEF CleanPos
<1> QED BY <1>6 DEF CleanAt

\* malloc enters clean();
LEMMA StepMiss ==
  ASSUME NEW fr, Going(fr), NEW r \in Requests, MallocMiss(r) PROVE GoesOn(fr) /\ SameBusy
<1>1. /\ pc = "idle" /\ pc' = "clean" /\ req' = r /\ mm' = hdr[mmList].next
      /\ hdr' = hdr /\ mmList' = mmList /\ mmap' = mmap /\ nextm' = nextm /\ absorbed' = absorbed
      /\ held' = held
  BY DEF MallocMiss
<1>2. Mem(hdr, {}, fr, held) /\ mmList = SENTINEL /\ ListOf(hdr) /\ absorbed = {} /\ nextm = NULL
  BY <1>1 DEF Going, Steps
<1>3. CleanAt(hdr, mm')
  BY <1>1, <1>2, CleanStart
<1> QED BY <1>1, <1>2, <1>3 DEF GoesOn, Steps, SameBusy

\* clean() takes mm off the list;
LEMMA StepTake ==
  ASSUME NEW fr, Going(fr), CleanTake PROVE GoesOn(fr) /\ SameBusy
<1>1. /\ pc = "clean" /\ mm # NULL /\ nextm' = hdr[mm].root /\ hdr' = del(hdr, mm) /\ pc' = "unite"
      /\ mmList' = mmList /\ mmap' = mmap /\ req' = req /\ mm' = mm /\ absorbed' = absorbed /\ held' = held
  BY DEF CleanTake
<1>2. Mem(hdr, {}, fr, held) /\ mmList = SENTINEL /\ CleanAt(hdr, mm) /\ absorbed = {} /\ req \in Requests
  BY <1>1 DEF Going, Steps
<1>3. Mem(hdr', {}, fr, held) /\ UniteAt(hdr', {}, mm, nextm') /\ SameBlocks(hdr, hdr')
  BY <1>1, <1>2, CleanTaken
<1>4. BusyIn(hdr', {}) = BusyIn(hdr, {})
  BY <1>3, SameSets
<1> QED BY <1>1, <1>2, <1>3, <1>4 DEF GoesOn, Steps, SameBusy

(***************************************************************************)
(* While clean has mm in its hand, unite looks behind mm, where no         *)
(* swallowed header lies.                                                  *)
(***************************************************************************)
LEMMA HandFacts ==
  ASSUME NEW fr, Going(fr), pc = "unite"
  PROVE  /\ Mem(hdr, absorbed, fr, held) /\ mmList = SENTINEL /\ req \in Requests
         /\ UniteAt(hdr, absorbed, mm, nextm)
         /\ mm \in Blocks(hdr, absorbed) /\ Stop(hdr, mm) \notin absorbed
<1>1. /\ Mem(hdr, absorbed, fr, held) /\ mmList = SENTINEL /\ req \in Requests
      /\ UniteAt(hdr, absorbed, mm, nextm)
  BY DEF Going, Steps
<1>2. mm \in Blocks(hdr, absorbed)
  BY <1>1 DEF UniteAt, FreeIn
<1>3. Stop(hdr, mm) \in Nat
  BY <1>1, <1>2, BlockFacts DEF Mem
<1>4. Stop(hdr, mm) \notin absorbed
  BY <1>1, <1>3 DEF UniteAt
<1> QED BY <1>1, <1>2, <1>4

\* mm swallows its successor;
LEMMA StepUnite ==
  ASSUME NEW fr, Going(fr), CleanUnite PROVE GoesOn(fr) /\ SameBusy
<1>1. /\ pc = "unite" /\ swallowed(hdr, mm) # {} /\ hdr' = unite(hdr, mm)
      /\ absorbed' = absorbed \cup swallowed(hdr, mm)
      /\ mmList' = mmList /\ mmap' = mmap /\ pc' = pc /\ req' = req /\ mm' = mm /\ nextm' = nextm
      /\ held' = held
  BY DEF CleanUnite
<1>2. /\ Mem(hdr, absorbed, fr, held) /\ mmList = SENTINEL /\ req \in Requests
      /\ UniteAt(hdr, absorbed, mm, nextm)
      /\ mm \in Blocks(hdr, absorbed) /\ Stop(hdr, mm) \notin absorbed
  BY <1>1, HandFacts
<1> DEFINE e == Stop(hdr, mm)
<1>3. ~Closed(hdr, absorbed, mm) /\ swallowed(hdr, mm) = {e} /\ unite(hdr, mm) = Uniting(hdr, mm, e)
  BY <1>1, <1>2, Swallows
<1>4. Adjacent(hdr, mm, e)
  BY <1>3 DEF Adjacent, Closed
<1> HIDE DEF e
<1>5. Merged(hdr, absorbed, fr, held, mm, nextm, e, Uniting(hdr, mm, e))
  BY <1>2, <1>3, <1>4, CleanUnited
<1>6. /\ Mem(Uniting(hdr, mm, e), absorbed \cup {e}, fr, held)
      /\ UniteAt(Uniting(hdr, mm, e), absorbed \cup {e}, mm, nextm)
      /\ BusyIn(Uniting(hdr, mm, e), absorbed \cup {e}) = BusyIn(hdr, absorbed)
  BY <1>5 DEF Merged
<1> QED BY <1>1, <1>2, <1>3, <1>6 DEF GoesOn, Steps, SameBusy

\* clean() puts mm back and goes on;
LEMMA PutStep ==
  ASSUME NEW fr, Going(fr), CleanPut
  PROVE  PutDone(hdr, absorbed, fr, held, hdr', mm') /\ mmList' = SENTINEL /\ absorbed' = {}
<1> DEFINE y == add(hdr, mmList, mm)
<1>1. /\ pc = "unite" /\ swallowed(hdr, mm) = {} /\ hdr' = Restrict(y, DOMAIN y \ absorbed)
      /\ mm' = GoOn(y, mm, nextm)
      /\ mmList' = addHead(hdr, mmList, mm) /\ absorbed' = {} /\ nextm' = NULL /\ pc' = "clean"
      /\ mmap' = mmap /\ req' = req /\ held' = held
  BY DEF CleanPut, GoOn
<1>2. /\ Mem(hdr, absorbed, fr, held) /\ mmList = SENTINEL /\ req \in Requests
      /\ UniteAt(hdr, absorbed, mm, nextm)
      /\ mm \in Blocks(hdr, absorbed) /\ Stop(hdr, mm) \notin absorbed
  BY <1>1, HandFacts
<1>3. Closed(hdr, absorbed, mm)
  BY <1>1, <1>2, Swallows
<1>4. y = add(hdr, SENTINEL, mm) /\ DOMAIN y = DOMAIN hdr
  BY <1>2 DEF add
<1> HIDE DEF y
<1> DEFINE g == Restrict(y, DOMAIN hdr \ absorbed)
           m2 == GoOn(y, mm, nextm)
<1>a. hdr' = g /\ mm' = m2
  BY <1>1, <1>4
<1>b. PutDone(hdr, absorbed, fr, held, g, m2) /\ addHead(hdr, SENTINEL, mm) = SENTINEL
  BY <1>2, <1>3, <1>4, CleanPutBack
<1> HIDE DEF g, m2
<1> QED BY <1>1, <1>2, <1>a, <1>b

\* so the invariant is kept;
LEMMA StepPut ==
  ASSUME NEW fr, Going(fr), CleanPut PROVE GoesOn(fr) /\ SameBusy
<1>1. /\ pc = "unite" /\ absorbed' = {} /\ nextm' = NULL /\ pc' = "clean"
      /\ mmap' = mmap /\ req' = req /\ held' = held
  BY DEF CleanPut
<1>2. PutDone(hdr, absorbed, fr, held, hdr', mm') /\ mmList' = SENTINEL
  BY PutStep
<1>3. /\ Mem(hdr', {}, fr, held) /\ CleanAt(hdr', mm') /\ req \in Requests
      /\ BusyIn(hdr', {}) = BusyIn(hdr, absorbed)
  BY <1>1, <1>2 DEF PutDone, Going, Steps
<1>4. ListOf(hdr')
  BY <1>3 DEF ListOf, CleanAt, CleanPos
<1> QED BY <1>1, <1>2, <1>3, <1>4 DEF GoesOn, Steps, SameBusy

\* clean() has passed the whole list, so nothing is left to merge;
LEMMA StepDone ==
  ASSUME NEW fr, Going(fr), CleanDone PROVE GoesOn(fr) /\ SameBusy /\ AllClosed(hdr')
<1>1. /\ pc = "clean" /\ mm = NULL /\ pc' = "grow" /\ hdr' = hdr /\ mmList' = mmList /\ mmap' = mmap
      /\ req' = req /\ mm' = mm /\ nextm' = nextm /\ absorbed' = absorbed /\ held' = held
  BY DEF CleanDone
<1>2. /\ Mem(hdr, {}, fr, held) /\ mmList = SENTINEL /\ CleanAt(hdr, mm) /\ absorbed = {}
      /\ req \in Requests /\ ListOf(hdr) /\ nextm = NULL
  BY <1>1 DEF Going, Steps
<1>3. PICK p, n, c : CleanPos(hdr, mm, p, n, c)
  BY <1>2 DEF CleanAt
<1>4. OnList(hdr, p, n, {SENTINEL} \cup FreeIn(hdr, {})) /\ Chain(hdr, p, n) /\ n \in Nat \ {0} /\ c \in 1 .. n
  BY <1>3 DEF CleanPos, OnList, Chain
<1>5. c = n
  <2>1. c < n => c \in 0 .. n - 1
    BY <1>4
  <2>2. \A i \in 0 .. n - 1 : p[i] # NULL
    BY <1>2, <1>4 DEF Mem, IsHeap, Chain
  <2>3. ~(c < n)
    BY <1>1, <1>3, <2>1, <2>2 DEF CleanPos, NodeAt
  <2> QED BY <1>4, <2>3
<1>6. AllClosed(hdr)
  <2> SUFFICES ASSUME NEW a \in FreeIn(hdr, {}) PROVE Closed(hdr, {}, a)
    BY DEF AllClosed
  <2>1. PICK i \in 0 .. n - 1 : p[i] = a
    BY <1>4 DEF OnList
  <2>2. a # SENTINEL
    BY DEF FreeIn, Blocks
  <2>3. i # 0
    BY <1>4, <2>1, <2>2 DEF Chain
  <2>4. i \in 1 .. c - 1
    BY <1>4, <1>5, <2>1, <2>3
  <2> QED BY <1>3, <2>1, <2>4 DEF CleanPos, Swept
<1> QED BY <1>1, <1>2, <1>6 DEF GoesOn, Steps, SameBusy

(***************************************************************************)
(* get_free_page gives a frame that is not in use.                         *)
(***************************************************************************)
LEMMA PageStep ==
  ASSUME NEW fr, Going(fr), fr \subseteq mmap, GrowPage
  PROVE  \E f \in 1 .. Frames :
           /\ f \notin mmap /\ mmap' = mmap \cup {f} /\ mmList' = SENTINEL
           /\ PagedTo(hdr, fr, held, f, f * PAGE, hdr')
<1> DEFINE F == FreeFrames
           f == Min(F)
           m == f * PAGE
           c == Paged(hdr, m)
           g == add(c, SENTINEL, m)
<1>1. pc = "grow" /\ F # {} /\ mmap' = mmap \cup {f} /\ AddPage(f)
  BY DEF GrowPage
<1>2. Mem(hdr, {}, fr, held) /\ mmList = SENTINEL /\ ListOf(hdr)
  BY <1>1 DEF Going, Steps
<1>3. f \in 1 .. Frames /\ f \notin mmap
  <2>1. F \in SUBSET Nat
    BY MallocAssumption DEF FreeFrames
  <2> HIDE DEF F
  <2>2. f \in F
    BY <1>1, <2>1, MinIn
  <2> QED BY <2>2 DEF F, FreeFrames
<1> HIDE DEF f
<1>4. hdr' = g /\ mmList' = addHead(c, SENTINEL, m)
  BY <1>1, <1>2 DEF AddPage, Paged
<1>5. PICK p, n : OnList(hdr, p, n, {SENTINEL} \cup FreeIn(hdr, {}))
  BY <1>2 DEF ListOf
<1> HIDE DEF m, c, g
<1>6. PagedTo(hdr, fr, held, f, m, g) /\ addHead(c, SENTINEL, m) = SENTINEL
  <2>1. f \notin fr
    BY <1>3
  <2> QED BY <1>2, <1>3, <1>5, <2>1, PageAdded DEF m, c, g
<1> QED BY <1>1, <1>3, <1>4, <1>6 DEF m

\* a fresh page has no free neighbour;
LEMMA StepPage ==
  ASSUME NEW fr, Going(fr), fr \subseteq mmap, GrowPage
  PROVE  /\ \E f \in 1 .. Frames : f \notin mmap /\ mmap' = mmap \cup {f} /\ GoesOn(fr \cup {f})
         /\ SameBusy /\ (AllClosed(hdr) => AllClosed(hdr'))
<1>1. PICK f \in 1 .. Frames :
           /\ f \notin mmap /\ mmap' = mmap \cup {f} /\ mmList' = SENTINEL
           /\ PagedTo(hdr, fr, held, f, f * PAGE, hdr')
  BY PageStep
<1>2. pc = "grow" /\ pc' = pc /\ req' = req /\ mm' = mm /\ nextm' = nextm /\ absorbed' = absorbed /\ held' = held
  BY DEF GrowPage
<1>3. /\ Mem(hdr, {}, fr, held) /\ absorbed = {} /\ req \in Requests
      /\ nextm = NULL /\ mm = NULL
  BY <1>2 DEF Going, Steps
<1> DEFINE m == f * PAGE
           g == hdr'
           X == fr \cup {f}
<1>4. /\ Mem(g, {}, X, held) /\ ListOf(g)
      /\ Blocks(g, {}) = Blocks(hdr, {}) \cup {m} /\ m \notin Blocks(hdr, {})
      /\ FreeIn(g, {}) = FreeIn(hdr, {}) \cup {m} /\ BusyIn(g, {}) = BusyIn(hdr, {}) /\ Stop(g, m) = m + PAGE
      /\ \A a \in Blocks(hdr, {}) : g[a].size = hdr[a].size
  BY <1>1 DEF PagedTo
<1>5. f \in Nat /\ PAGE \in Nat
  <2>1. f \in 1 .. Frames /\ Frames \in Nat /\ PAGE \in Nat
    BY MallocAssumption
  <2> QED BY <2>1
<1>6. PageOf(m) = f /\ Base(m) = m /\ m \in Nat
  BY <1>5, FrameStart
<1> HIDE DEF m, g, X
<1>7. Geo(g, Blocks(g, {}), X) /\ Geo(hdr, Blocks(hdr, {}), fr)
  BY <1>3, <1>4 DEF Mem
<1>8. ASSUME AllClosed(hdr) PROVE AllClosed(g)
  <2> SUFFICES ASSUME NEW a \in FreeIn(g, {}) PROVE Closed(g, {}, a)
    BY DEF AllClosed
  <2>1. CASE a = m
    <3>1. m \in Blocks(g, {})
      BY <1>4
    <3>2. PageOf(Stop(g, m)) = PageOf(m) <=> Stop(g, m) < Base(m) + PAGE
      BY <1>7, <3>1, BlockFacts
    <3>3. ~(PageOf(Stop(g, m)) = PageOf(m))
      BY <1>4, <1>5, <1>6, <3>2
    <3> QED BY <2>1, <3>3 DEF Closed
  <2>2. CASE a # m
    <3>1. a \in FreeIn(hdr, {}) /\ a \in Blocks(hdr, {})
      BY <1>4, <2>2 DEF FreeIn
    <3>2. Stop(g, a) = Stop(hdr, a)
      BY <1>4, <3>1 DEF Stop
    <3>3. Closed(hdr, {}, a) /\ PageOf(a) \in fr
      BY <1>7, <1>8, <3>1, BlockFacts DEF AllClosed
    <3>4. Stop(hdr, a) = m => ~(PageOf(Stop(g, a)) = PageOf(a))
      BY <1>1, <1>6, <3>2, <3>3
    <3> QED BY <1>4, <3>2, <3>3, <3>4 DEF Closed
  <2> QED BY <2>1, <2>2
<1>9. GoesOn(fr \cup {f})
  BY <1>1, <1>2, <1>3, <1>4 DEF g, X, GoesOn, Steps
<1>10. SameBusy
  BY <1>2, <1>3, <1>4 DEF g, SameBusy
<1> QED BY <1>1, <1>8, <1>9, <1>10 DEF g

(***************************************************************************)
(* free marks block m and puts it on the list.                             *)
(***************************************************************************)
PutFreed(u, A, fr, hd, m, g) ==
    /\ Mem(g, {}, fr, Restrict(hd, DOMAIN hd \ {m + HDR})) /\ ListOf(g)
    /\ Blocks(g, {}) = Blocks(u, A) /\ BusyIn(g, {}) = BusyIn(u, A) \ {m}
    /\ \A a \in Blocks(u, A) : g[a].size = u[a].size

\* The end of free(): mark, then add().
LEMMA FreedPut ==
  ASSUME NEW u, NEW A, NEW fr, NEW hd, Mem(u, A, fr, hd), NEW m \in BusyIn(u, A),
         NEW q, NEW l, OnList(u, q, l, {SENTINEL} \cup FreeIn(u, A)),
         NEW x, x = Freeing(u, m), NEW g, g = Restrict(add(x, SENTINEL, m), DOMAIN x \ A)
  PROVE  PutFreed(u, A, fr, hd, m, g) /\ addHead(x, SENTINEL, m) = SENTINEL
<1> DEFINE S == {SENTINEL} \cup FreeIn(u, A)
           hd2 == Restrict(hd, DOMAIN hd \ {m + HDR})
           y == add(x, SENTINEL, m)
<1>1. /\ Mem(x, A, fr, hd2) /\ OnList(x, q, l, S)
      /\ Blocks(x, A) = Blocks(u, A) /\ FreeIn(x, A) = FreeIn(u, A) \cup {m}
      /\ BusyIn(x, A) = BusyIn(u, A) \ {m} /\ DOMAIN x = DOMAIN u
      /\ \A a \in Blocks(u, A) : x[a].size = u[a].size
      /\ m \notin S /\ m \notin FreeIn(u, A)
  BY Marked
<1>2. S = {SENTINEL} \cup (FreeIn(x, A) \ {m})
  BY <1>1
<1>3. OnList(x, q, l, {SENTINEL} \cup (FreeIn(x, A) \ {m})) /\ m \in FreeIn(x, A)
  BY <1>1, <1>2
<1> HIDE DEF S, hd2
<1>4. PICK k \in 1 .. l : PutTo(x, A, fr, hd2, m, q, l, k, y, g)
  BY <1>1, <1>3, PutBack
<1>5. /\ Mem(g, {}, fr, hd2) /\ addHead(x, SENTINEL, m) = SENTINEL
      /\ Blocks(g, {}) = Blocks(x, A) /\ BusyIn(g, {}) = BusyIn(x, A)
      /\ \A a \in Blocks(x, A) : g[a].size = x[a].size
      /\ OnList(g, InsertAt(q, l, k, m), l + 1, {SENTINEL} \cup FreeIn(g, {}))
  BY <1>4 DEF PutTo
<1>6. ListOf(g)
  BY <1>5 DEF ListOf
<1> QED BY <1>1, <1>5, <1>6 DEF PutFreed, hd2

\* g is h once m, merged with its successor if that is free, is given back.
FreedTo(h, g, m) ==
    /\ m \in BusyIn(h, {})
    /\ BusyIn(g, {}) = BusyIn(h, {}) \ {m}
    /\ IF Closed(h, {}, m)
       THEN Blocks(g, {}) = Blocks(h, {}) /\ \A a \in Blocks(h, {}) : g[a].size = h[a].size
       ELSE /\ Blocks(g, {}) = Blocks(h, {}) \ {Stop(h, m)}
            /\ g[m].size = h[m].size + HDR + h[Stop(h, m)].size
            /\ \A a \in Blocks(h, {}) : a # m /\ a # Stop(h, m) => g[a].size = h[a].size

\* free(p) gives p's block back.
LEMMA FreeStep ==
  ASSUME NEW fr, Going(fr), NEW p \in DOMAIN held, Free(p)
  PROVE  /\ Mem(hdr', {}, fr, held') /\ mmList' = SENTINEL /\ ListOf(hdr')
         /\ FreedTo(hdr, hdr', p - HDR)
<1> DEFINE m == p - HDR
           u == unite(hdr, m)
           A == swallowed(hdr, m)
           x == Freeing(u, m)
           g == Restrict(add(x, SENTINEL, m), DOMAIN x \ A)
           e == Stop(hdr, m)
           S == {SENTINEL} \cup FreeIn(hdr, {})
<1>1. pc = "idle"
  BY DEF Free
<1>2. Mem(hdr, {}, fr, held) /\ mmList = SENTINEL /\ ListOf(hdr)
  BY <1>1 DEF Going, Steps
<1>3. hdr' = g /\ mmList' = addHead(x, SENTINEL, m) /\ held' = Restrict(held, DOMAIN held \ {p})
  BY <1>2 DEF Free, Freeing
<1>4. m \in BusyIn(hdr, {}) /\ p = m + HDR
  <2>1. p \in Nat /\ m \in BusyIn(hdr, {})
    BY <1>2 DEF Mem, Holds
  <2>2. p = m + HDR
    BY <2>1 DEF HDR
  <2> QED BY <2>1, <2>2
<1> HIDE DEF m
<1>5. m \in Blocks(hdr, {}) /\ m \notin S
  BY <1>4 DEF BusyIn, FreeIn, Blocks
<1>6. PICK q, l : OnList(hdr, q, l, S)
  BY <1>2 DEF ListOf
<1>7. CASE Closed(hdr, {}, m)
  <2>1. A = {} /\ u = hdr
    BY <1>2, <1>5, <1>7, Swallows
  <2> HIDE DEF u, A, x, g, S
  <2>2. g = Restrict(add(x, SENTINEL, m), DOMAIN x \ {}) /\ x = Freeing(hdr, m)
    BY <2>1 DEF g, x
  <2>3. OnList(hdr, q, l, {SENTINEL} \cup FreeIn(hdr, {}))
    BY <1>6 DEF S
  <2>4. PutFreed(hdr, {}, fr, held, m, g) /\ addHead(x, SENTINEL, m) = SENTINEL
    BY <1>2, <1>4, <2>2, <2>3, FreedPut
  <2>5. FreedTo(hdr, g, m) /\ Mem(g, {}, fr, held') /\ ListOf(g)
    BY <1>3, <1>4, <1>7, <2>4 DEF PutFreed, FreedTo
  <2> QED BY <1>3, <2>4, <2>5 DEF m
<1>8. CASE ~Closed(hdr, {}, m)
  <2>1. A = {e} /\ u = Uniting(hdr, m, e)
    BY <1>2, <1>5, <1>8, Swallows
  <2>2. Adjacent(hdr, m, e) /\ e \in FreeIn(hdr, {})
    BY <1>8 DEF Closed, Adjacent
  <2> HIDE DEF e
  <2>3. PICK j \in 0 .. l - 1 : q[j] = e
    BY <1>6, <2>2 DEF OnList
  <2>4. j \in 1 .. l - 1
    <3>1. q[0] = SENTINEL /\ l \in Nat
      BY <1>6 DEF OnList, Chain
    <3>2. j # 0
      BY <2>2, <2>3, <3>1 DEF FreeIn, Blocks
    <3> QED BY <2>3, <3>1, <3>2
  <2> HIDE DEF u, A, x, g, S
  <2>5. S \subseteq {SENTINEL} \cup FreeIn(hdr, {})
    BY DEF S
  <2>6. UnitedTo(hdr, {}, fr, held, m, S, q, l, j, e, u)
    BY <1>2, <1>5, <1>6, <2>1, <2>2, <2>3, <2>4, <2>5, United
  <2>7. {} \cup {e} = A
    BY <2>1
  <2>8. /\ Mem(u, A, fr, held) /\ OnList(u, RemoveAt(q, l, j), l - 1, S \ {e})
        /\ Blocks(u, A) = Blocks(hdr, {}) \ {e}
        /\ FreeIn(u, A) = FreeIn(hdr, {}) \ {e} /\ BusyIn(u, A) = BusyIn(hdr, {})
        /\ u[m].size = hdr[m].size + HDR + hdr[e].size
        /\ \A a \in DOMAIN hdr : a # m => u[a].size = hdr[a].size
    BY <2>6, <2>7 DEF UnitedTo
  <2>9. S \ {e} = {SENTINEL} \cup FreeIn(u, A)
    <3>1. e # SENTINEL
      BY <2>2 DEF FreeIn, Blocks
    <3> QED BY <2>8, <3>1 DEF S
  <2>10. OnList(u, RemoveAt(q, l, j), l - 1, {SENTINEL} \cup FreeIn(u, A)) /\ m \in BusyIn(u, A)
    BY <1>4, <2>8, <2>9
  <2>11. PutFreed(u, A, fr, held, m, g) /\ addHead(x, SENTINEL, m) = SENTINEL
    BY <2>8, <2>10, FreedPut DEF x, g
  <2>12. /\ Mem(g, {}, fr, held') /\ ListOf(g) /\ Blocks(g, {}) = Blocks(hdr, {}) \ {e}
         /\ BusyIn(g, {}) = BusyIn(hdr, {}) \ {m} /\ \A a \in Blocks(u, A) : g[a].size = u[a].size
    BY <1>3, <1>4, <2>8, <2>11 DEF PutFreed
  <2>13. m # e
    BY <1>4, <2>2 DEF BusyIn, FreeIn
  <2>14. /\ g[m].size = hdr[m].size + HDR + hdr[e].size
         /\ \A a \in Blocks(hdr, {}) : a # m /\ a # e => g[a].size = hdr[a].size
    BY <1>5, <2>8, <2>12, <2>13 DEF Blocks
  <2>15. FreedTo(hdr, g, m)
    BY <1>4, <1>8, <2>12, <2>14 DEF FreedTo, e
  <2> QED BY <1>3, <2>11, <2>12, <2>15 DEF m
<1> QED BY <1>7, <1>8

\* free keeps the invariant;
LEMMA StepFree ==
  ASSUME NEW fr, Going(fr), NEW p \in DOMAIN held, Free(p)
  PROVE  GoesOn(fr) /\ BusyIn(hdr', absorbed') = BusyIn(hdr, absorbed) \ {p - HDR}
<1>1. /\ Mem(hdr', {}, fr, held') /\ mmList' = SENTINEL /\ ListOf(hdr')
      /\ FreedTo(hdr, hdr', p - HDR)
  BY FreeStep
<1>2. /\ pc = "idle" /\ pc' = pc /\ req' = req /\ mm' = mm /\ nextm' = nextm /\ absorbed' = absorbed
      /\ mmap' = mmap
  BY DEF Free
<1>3. absorbed = {} /\ nextm = NULL /\ req = 0 /\ mm = NULL
  BY <1>2 DEF Going, Steps
<1> QED BY <1>1, <1>2, <1>3 DEF GoesOn, Steps, FreedTo

\* and so does doing nothing.
LEMMA StepIdle ==
  ASSUME NEW fr, Going(fr), UNCHANGED vars PROVE GoesOn(fr) /\ SameBusy
<1>1. /\ hdr' = hdr /\ mmList' = mmList /\ mmap' = mmap /\ pc' = pc /\ req' = req /\ mm' = mm
      /\ nextm' = nextm /\ absorbed' = absorbed /\ held' = held
  BY DEF vars
<1> QED BY <1>1 DEF Going, GoesOn, Steps, SameBusy

\* Every step of malloc, free and clean keeps the invariant.
LEMMA NextInv == Inv /\ [Next]_vars => Inv'
<1> SUFFICES ASSUME Inv, [Next]_vars PROVE Inv'
  OBVIOUS
<1>0. Going(mmap) /\ mmap \subseteq mmap
  BY DEF Inv
<1>a. ASSUME GoesOn(mmap), mmap' = mmap, pc' # "grow" PROVE Inv'
  BY <1>a DEF Inv, Going, GoesOn
<1>1. ASSUME NEW r \in Requests, MallocHit(r) PROVE Inv'
  <2>1. GoesOn(mmap) /\ mmap' = mmap /\ pc' = "idle"
    BY <1>0, <1>1, StepHit DEF GaveOut
  <2> QED BY <1>a, <2>1
<1>2. ASSUME NEW r \in Requests, MallocMiss(r) PROVE Inv'
  <2>1. GoesOn(mmap)
    BY <1>0, <1>2, StepMiss
  <2> QED BY <1>a, <1>2, <2>1 DEF MallocMiss
<1>3. ASSUME NEW p \in DOMAIN held, Free(p) PROVE Inv'
  <2>1. GoesOn(mmap)
    BY <1>0, <1>3, StepFree
  <2> QED BY <1>a, <1>3, <2>1 DEF Free
<1>4. CASE CleanTake
  <2>1. GoesOn(mmap)
    BY <1>0, <1>4, StepTake
  <2> QED BY <1>a, <1>4, <2>1 DEF CleanTake
<1>5. CASE CleanUnite
  <2>1. GoesOn(mmap)
    BY <1>0, <1>5, StepUnite
  <2> QED BY <1>a, <1>5, <2>1 DEF CleanUnite
<1>6. CASE CleanPut
  <2>1. GoesOn(mmap)
    BY <1>0, <1>6, StepPut
  <2> QED BY <1>a, <1>6, <2>1 DEF CleanPut
<1>7. CASE CleanDone
  <2>1. GoesOn(mmap) /\ AllClosed(hdr')
    BY <1>0, <1>7, StepDone
  <2>2. mmap' = mmap
    BY <1>7 DEF CleanDone
  <2> QED BY <2>1, <2>2 DEF Inv, Going, GoesOn
<1>8. CASE GrowHit
  <2>1. GoesOn(mmap) /\ mmap' = mmap /\ pc' = "idle"
    BY <1>0, <1>8, StepGrowHit DEF GaveOut
  <2> QED BY <1>a, <2>1
<1>9. CASE GrowPage
  <2>1. AllClosed(hdr)
    BY <1>9 DEF GrowPage, Inv
  <2>2. (\E f \in 1 .. Frames : mmap' = mmap \cup {f} /\ GoesOn(mmap \cup {f})) /\ AllClosed(hdr')
    BY <1>0, <1>9, <2>1, StepPage
  <2>3. GoesOn(mmap')
    BY <2>2
  <2> QED BY <2>2, <2>3 DEF Inv, Going, GoesOn
<1>10. CASE UNCHANGED vars
  <2>1. GoesOn(mmap)
    BY <1>0, <1>10, StepIdle
  <2>2. mmap' = mmap /\ pc' = pc /\ hdr' = hdr
    BY <1>10 DEF vars
  <2>3. (pc = "grow" => AllClosed(hdr))'
    BY <2>2 DEF Inv
  <2> QED BY <2>1, <2>2, <2>3 DEF Inv, Going, GoesOn
<1> QED BY <1>1, <1>2, <1>3, <1>4, <1>5, <1>6, <1>7, <1>8, <1>9, <1>10
        DEF Next, MallocStep, GetFreePageSpins

\* The inductive invariant holds in every state of every behaviour.
LEMMA SpecInv == Spec => []Inv
  BY InitInv, NextInv, PTL DEF Spec

-----------------------------------------------------------------------------
(***************************************************************************)
(* Where the headers lie: in the pages behind KERNEL_SPACE, but for the    *)
(* sentinel.                                                               *)
(***************************************************************************)
LEMMA InRange ==
  ASSUME NEW a \in Nat, PageOf(a) \in 1 .. Frames
  PROVE  a \in PAGE .. (Frames + 1) * PAGE - 1
<1> DEFINE f == PageOf(a)
           k == Frames + 1
<1>1. /\ f \in Nat /\ f >= 1 /\ f < k /\ k \in Nat /\ 0 < f
  <2>1. f \in 1 .. Frames /\ Frames \in Nat
    BY MallocAssumption
  <2> QED BY <2>1
<1>2. f * PAGE \in Nat /\ f * PAGE <= a /\ a < f * PAGE + PAGE /\ PAGE \in Nat
  BY PageFacts DEF Base
<1>3. f * PAGE + PAGE <= k * PAGE
  <2> HIDE DEF f, k
  <2> QED BY <1>1, PageOrder
<1>4. 0 * PAGE + PAGE <= f * PAGE
  <2> HIDE DEF f, k
  <2> QED BY <1>1, PageOrder
<1>5. 0 * PAGE = 0 /\ k * PAGE \in Nat
  BY <1>1, <1>2
<1> HIDE DEF f
<1>6. PAGE <= a /\ a <= k * PAGE - 1
  <2> DEFINE fp == f * PAGE
             kp == k * PAGE
             zp == 0 * PAGE
  <2>1. fp \in Nat /\ fp <= a /\ a < fp + PAGE /\ fp + PAGE <= kp /\ zp + PAGE <= fp /\ zp = 0 /\ kp \in Nat
    BY <1>2, <1>3, <1>4, <1>5
  <2> HIDE DEF fp, kp, zp
  <2>2. PAGE <= a /\ a <= kp - 1
    BY <1>2, <2>1
  <2> QED BY <2>2 DEF kp
<1> DEFINE kp == k * PAGE
<1>7. kp \in Nat /\ a <= kp - 1
  BY <1>5, <1>6
<1> HIDE DEF kp
<1>8. a \in PAGE .. kp - 1
  BY <1>2, <1>6, <1>7
<1> QED BY <1>8 DEF kp

\* The invariant gives the types.
LEMMA TypesHold == Inv => TypeOK
<1> SUFFICES ASSUME Inv PROVE TypeOK
  OBVIOUS
<1>1. /\ IsHeap(hdr) /\ Anchored(hdr) /\ Linked(hdr) /\ Bounded(hdr)
      /\ absorbed \subseteq DOMAIN hdr \ {SENTINEL} /\ Geo(hdr, Blocks(hdr, absorbed), mmap)
      /\ Holds(hdr, absorbed, held) /\ mmList = SENTINEL
      /\ Steps(hdr, absorbed, pc, req, mm, nextm)
  BY DEF Inv, Going, Mem
<1>2. DOMAIN hdr \subseteq {SENTINEL} \cup (PAGE .. (Frames + 1) * PAGE - 1)
  <2> SUFFICES ASSUME NEW a \in DOMAIN hdr, a # SENTINEL PROVE a \in PAGE .. (Frames + 1) * PAGE - 1
    OBVIOUS
  <2>1. a \in Nat /\ PageOf(a) \in 1 .. Frames
    BY <1>1 DEF IsHeap, Bounded
  <2> QED BY <2>1, InRange
<1>3. ASSUME NEW a \in DOMAIN hdr
      PROVE  /\ hdr[a].size \in 0 .. PAGE
             /\ {hdr[a].next, hdr[a].root} \subseteq DOMAIN hdr \cup {NULL}
             /\ hdr[a].state \in {"FREE", "BUSY"}
  <2>1. hdr[a] \in Header
    BY <1>1 DEF IsHeap
  <2>2. hdr[a].size \in Nat /\ hdr[a].state \in {"FREE", "BUSY"}
    BY <2>1 DEF Header
  <2>3. hdr[a].size <= PAGE
    <3>1. PAGE \in Nat
      BY MallocAssumption
    <3>2. CASE a = SENTINEL
      BY <1>1, <3>1, <3>2 DEF Anchored
    <3>3. CASE a # SENTINEL
      BY <1>1, <3>3 DEF Bounded
    <3> QED BY <3>2, <3>3
  <2>4. PAGE \in Nat
    BY MallocAssumption
  <2>5. hdr[a].size \in 0 .. PAGE
    BY <2>2, <2>3, <2>4
  <2> QED BY <1>1, <2>2, <2>5 DEF Linked
<1>4. mmList \in DOMAIN hdr
  BY <1>1 DEF Anchored
<1>5. mmap \subseteq 1 .. Frames
  BY <1>1 DEF Geo, Placed
<1>6. pc \in {"idle", "clean", "unite", "grow"} /\ req \in Requests \cup {0}
  BY <1>1 DEF Steps
<1>7. mm \in DOMAIN hdr \cup {NULL} /\ nextm \in DOMAIN hdr \cup {NULL}
  <2>1. CASE pc = "unite"
    <3>1. UniteAt(hdr, absorbed, mm, nextm)
      BY <1>1, <2>1 DEF Steps
    <3>2. mm \in DOMAIN hdr
      BY <3>1 DEF UniteAt, FreeIn, Blocks
    <3>3. PICK p, n, c : UnitePos(hdr, absorbed, mm, nextm, p, n, c)
      BY <3>1 DEF UniteAt
    <3>4. Chain(hdr, p, n) /\ c \in 1 .. n
      BY <3>3 DEF UnitePos, OnList
    <3>5. c - 1 \in 0 .. n - 1 /\ p \in [0 .. n - 1 -> DOMAIN hdr]
      BY <3>4 DEF Chain
    <3>6. nextm \in DOMAIN hdr
      BY <1>1, <3>3, <3>5 DEF UnitePos
    <3> QED BY <3>2, <3>6
  <2>2. CASE pc = "clean"
    <3>1. PICK p, n, c : CleanPos(hdr, mm, p, n, c)
      BY <1>1, <2>2 DEF Steps, CleanAt
    <3>2. Chain(hdr, p, n) /\ c \in 1 .. n /\ mm = NodeAt(p, n, c)
      BY <3>1 DEF CleanPos, OnList
    <3>3. c < n => c \in 0 .. n - 1
      BY <3>2 DEF Chain
    <3>4. mm \in DOMAIN hdr \cup {NULL}
      BY <3>2, <3>3 DEF Chain, NodeAt
    <3> QED BY <1>1, <2>2, <3>4 DEF Steps
  <2>3. CASE pc \in {"idle", "grow"}
    BY <1>1, <2>3 DEF Steps
  <2> QED BY <1>6, <2>1, <2>2, <2>3
<1>8. \A p \in DOMAIN held : held[p] \in Requests
  BY <1>1 DEF Holds
<1> QED BY <1>1, <1>2, <1>3, <1>4, <1>5, <1>6, <1>7, <1>8 DEF TypeOK

(***************************************************************************)
(* Type correctness of kernel/malloc.c at the level of its pointers: every *)
(* header lies in a frame of the heap (or is mmlist), every next, root,    *)
(* mm and nextm leads to a header or is NULL, and sizes stay in a page,    *)
(* for every number of frames, page size and set of requests.              *)
(***************************************************************************)
THEOREM MallocTypes == Spec => []TypeOK
  BY SpecInv, TypesHold, PTL

(***************************************************************************)
(* The list in the words of the model's property.                          *)
(***************************************************************************)
LEMMA ExactList ==
  ASSUME IsHeap(hdr), mmList = SENTINEL, NEW H, NEW p, NEW n,
         OnList(hdr, p, n, {SENTINEL} \cup (FreeIn(hdr, absorbed) \ H))
  PROVE  ListExact(H)
<1> DEFINE S == {SENTINEL} \cup (FreeIn(hdr, absorbed) \ H)
           nx == Nodes(hdr, mmList)
           len == CHOOSE k \in DOMAIN nx : nx[k] = NULL /\ \A j \in 0 .. k - 1 : nx[j] # NULL
<1>2. OnList(hdr, p, n, S) /\ mmList = SENTINEL /\ IsHeap(hdr)
  OBVIOUS
<1> HIDE DEF S
<1>3. Chain(hdr, p, n) /\ n \in Nat \ {0}
  BY <1>2 DEF OnList, Chain
<1>4. /\ DOMAIN nx = 0 .. Cardinality(DOMAIN hdr)
      /\ n <= Cardinality(DOMAIN hdr) /\ Cardinality(DOMAIN hdr) \in Nat
      /\ \A k \in 0 .. n - 1 : nx[k] = p[k]
      /\ nx[n] = NULL
  BY <1>2, <1>3, NodesWalk
<1>5. \A k \in 0 .. n - 1 : nx[k] # NULL
  BY <1>2, <1>3, <1>4 DEF Chain, IsHeap
<1> HIDE DEF nx
<1>6. n \in DOMAIN nx
  BY <1>3, <1>4
<1>7. len = n
  <2>1. n \in DOMAIN nx /\ nx[n] = NULL /\ \A j \in 0 .. n - 1 : nx[j] # NULL
    BY <1>4, <1>5, <1>6
  <2>2. len \in DOMAIN nx /\ nx[len] = NULL /\ \A j \in 0 .. len - 1 : nx[j] # NULL
    BY <2>1
  <2> HIDE DEF len
  <2>3. len \in Nat
    BY <1>4, <2>2
  <2>4. len < n => len \in 0 .. n - 1
    BY <1>3, <2>3
  <2>5. n < len => n \in 0 .. len - 1
    BY <1>3, <2>3
  <2>6. ~(len < n) /\ ~(n < len)
    BY <2>1, <2>2, <2>4, <2>5
  <2> QED BY <1>3, <2>3, <2>6
<1> HIDE DEF len
<1>8. {nx[k] : k \in 0 .. len - 1} = {SENTINEL} \cup {a \in Live \ H : hdr[a].state = "FREE"}
  <2>1. S = {SENTINEL} \cup {a \in Live \ H : hdr[a].state = "FREE"}
    BY DEF S, Live, FreeIn, Blocks
  <2>2. {nx[k] : k \in 0 .. n - 1} = S
    <3>1. \A k \in 0 .. n - 1 : nx[k] \in S
      BY <1>2, <1>4 DEF OnList
    <3>2. \A a \in S : \E k \in 0 .. n - 1 : nx[k] = a
      BY <1>2, <1>4 DEF OnList
    <3> QED BY <3>1, <3>2
  <2> QED BY <1>7, <2>1, <2>2
<1>9. ASSUME NEW k \in 1 .. len - 1
      PROVE  hdr[nx[k]].root = nx[k - 1] /\ hdr[nx[k]].size >= hdr[nx[k - 1]].size
  <2>1. k \in 1 .. n - 1
    BY <1>7
  <2>2. k \in 0 .. n - 1 /\ k - 1 \in 0 .. n - 1 /\ k - 1 <= k
    BY <1>3, <2>1
  <2>3. nx[k] = p[k] /\ nx[k - 1] = p[k - 1]
    BY <1>4, <2>2
  <2>4. hdr[p[k]].root = p[k - 1] /\ hdr[p[k - 1]].size <= hdr[p[k]].size
    BY <1>3, <2>1, <2>2 DEF Chain
  <2>5. p[k] \in DOMAIN hdr /\ p[k - 1] \in DOMAIN hdr
    BY <1>3, <2>2 DEF Chain
  <2>6. hdr[p[k]].size \in Nat /\ hdr[p[k - 1]].size \in Nat
    BY <1>2, <2>5 DEF IsHeap, Header
  <2> QED BY <2>3, <2>4, <2>6
<1> QED BY <1>2, <1>4, <1>6, <1>8, <1>9 DEF ListExact, nx, len

\* What the calls of one caller have off the list.
LEMMA ExactHolds ==
  ASSUME NEW fr, Going(fr)
  PROVE  ListExact(IF pc = "unite" THEN {mm} ELSE {})
<1>1. IsHeap(hdr) /\ mmList = SENTINEL /\ Steps(hdr, absorbed, pc, req, mm, nextm)
  BY DEF Going, Mem
<1>2. CASE pc = "unite"
  <2>1. PICK p, n, c : UnitePos(hdr, absorbed, mm, nextm, p, n, c)
    BY <1>1, <1>2 DEF Steps, UniteAt
  <2>2. OnList(hdr, p, n, {SENTINEL} \cup (FreeIn(hdr, absorbed) \ {mm}))
    BY <2>1 DEF UnitePos
  <2>3. ListExact({mm})
    BY <1>1, <2>2, ExactList
  <2> QED BY <1>2, <2>3
<1>3. CASE pc # "unite"
  <2>1. ListOf(hdr) /\ absorbed = {}
    BY <1>1, <1>3 DEF Steps
  <2>2. PICK p, n : OnList(hdr, p, n, {SENTINEL} \cup FreeIn(hdr, {}))
    BY <2>1 DEF ListOf
  <2>3. OnList(hdr, p, n, {SENTINEL} \cup (FreeIn(hdr, absorbed) \ {}))
    BY <2>1, <2>2
  <2>4. ListExact({})
    BY <1>1, <2>3, ExactList
  <2> QED BY <1>3, <2>4
<1> QED BY <1>2, <1>3

(***************************************************************************)
(* The free list of malloc, free and clean() is exact between any two      *)
(* steps: the free blocks but the one in clean's hand, sorted by size,     *)
(* each root undoing the next before it.  For every number of frames,      *)
(* page size and set of requests, however long the list is.                *)
(***************************************************************************)
THEOREM ListIsExact == Spec => []FreeListExact
<1>1. Inv => FreeListExact
  BY ExactHolds DEF Inv, FreeListExact
<1> QED BY <1>1, SpecInv, PTL

\* The invariant gives what HeldIntact says of held pointers.
LEMMA HeldHolds ==
  ASSUME NEW fr, Mem(hdr, absorbed, fr, held)
  PROVE  HeldIntact
<1> DEFINE L == Blocks(hdr, absorbed)
           B == BusyIn(hdr, absorbed)
<1>1. Geo(hdr, L, fr) /\ Holds(hdr, absorbed, held) /\ \A a, b \in L : a < b => Stop(hdr, a) <= b
  BY DEF Mem, Geo, Apart
<1>2. Live = L /\ {b \in Live : hdr[b].state = "BUSY"} = B /\ B \subseteq L
  BY DEF Live, Blocks, BusyIn
<1> HIDE DEF L, B
<1>3. /\ \A a \in B : a + HDR \in DOMAIN held
      /\ \A p \in DOMAIN held : p \in Nat /\ p - HDR \in B /\ held[p] \in Requests
                                  /\ held[p] <= hdr[p - HDR].size /\ (p - HDR) + HDR = p
  <2>1. /\ \A a \in B : a + HDR \in DOMAIN held
        /\ \A p \in DOMAIN held : p \in Nat /\ p - HDR \in B /\ held[p] \in Requests
                                    /\ held[p] <= hdr[p - HDR].size
    BY <1>1 DEF Holds, B
  <2>2. \A p \in Nat : (p - HDR) + HDR = p
    BY DEF HDR
  <2> QED BY <2>1, <2>2
<1>4. {a + HDR : a \in B} = DOMAIN held
  BY <1>3
<1>5. ASSUME NEW p \in DOMAIN held
      PROVE  /\ p % ALIGN = 0
             /\ held[p] <= hdr[p - HDR].size
             /\ PageOf(p + held[p] - 1) = PageOf(p)
             /\ \A b \in L : b # p - HDR => End(p - HDR) <= b \/ End(b) <= p - HDR
  <2> DEFINE a == p - HDR
             z == p + held[p] - 1
  <2>1. a \in L /\ p \in Nat /\ held[p] \in Requests /\ held[p] <= hdr[a].size
    BY <1>2, <1>3
  <2>2. held[p] \in Nat /\ held[p] > 0
    BY <2>1, Rounded
  <2>3. p = a + 16 /\ a = p - 16
    BY <2>1 DEF HDR
  <2> HIDE DEF a
  <2>4. /\ a \in Nat /\ a % 4 = 0 /\ hdr[a].size \in Nat /\ hdr[a].size > 0
        /\ Stop(hdr, a) \in Nat /\ Stop(hdr, a) = a + 16 + hdr[a].size
        /\ Base(a) \in Nat /\ PAGE \in Nat /\ Base(a) <= a /\ Stop(hdr, a) <= Base(a) + PAGE
    BY <1>1, <2>1, BlockFacts
  <2>5. p % 4 = 0
    BY <2>3, <2>4
  <2>6. z \in Nat /\ Base(a) <= z /\ z < Base(a) + PAGE /\ Base(a) <= p /\ p < Base(a) + PAGE
    BY <2>1, <2>2, <2>3, <2>4
  <2> HIDE DEF z
  <2>7. PageOf(z) = PageOf(a) /\ PageOf(p) = PageOf(a)
    BY <2>1, <2>4, <2>6, SamePage
  <2>8. ASSUME NEW b \in L, b # a PROVE End(a) <= b \/ End(b) <= a
    <3>1. b \in Nat
      BY <1>1, BlockFacts
    <3>2. a < b \/ b < a
      BY <2>4, <2>8, <3>1
    <3> QED BY <1>1, <2>1, <3>2 DEF End, Stop
  <2> QED BY <2>1, <2>5, <2>7, <2>8 DEF a, z, ALIGN
<1> QED BY <1>2, <1>4, <1>5 DEF HeldIntact

(***************************************************************************)
(* What malloc returned stays with its owner: between any two steps a held *)
(* pointer is aligned, has its BUSY header and its bytes inside one page,  *)
(* and shares no byte with another block; and every BUSY block has an      *)
(* owner.  For every number of frames, page size and set of requests.      *)
(***************************************************************************)
THEOREM HeldStayIntact == Spec => []HeldIntact
<1>1. Inv => HeldIntact
  BY HeldHolds DEF Inv, Going
<1> QED BY <1>1, SpecInv, PTL

(***************************************************************************)
(* With nothing left to merge, a run of free blocks is one block.          *)
(***************************************************************************)
LEMMA RunIsOne ==
  ASSUME Mem(hdr, {}, mmap, held), absorbed = {}, AllClosed(hdr),
         NEW a \in Live, NEW b \in Live, FreeRun(a, b)
  PROVE  a = b /\ a \in FreeIn(hdr, {}) /\ a \in Nat /\ hdr[a].size \in Nat
<1> DEFINE L == Blocks(hdr, {})
<1>1. Live = L /\ Geo(hdr, L, mmap) /\ \A x, y \in L : x < y => Stop(hdr, x) <= y
  BY DEF Live, Blocks, Mem, Geo, Apart
<1> HIDE DEF L
<1>2. a \in L /\ b \in L /\ a <= b /\ PageOf(a) = PageOf(b)
  BY <1>1 DEF FreeRun
<1>3. /\ a \in Nat /\ hdr[a].size \in Nat /\ Stop(hdr, a) \in Nat /\ Stop(hdr, a) = a + 16 + hdr[a].size
      /\ Base(a) \in Nat /\ PAGE \in Nat
      /\ Stop(hdr, a) < Base(a) + PAGE => Stop(hdr, a) \in L
      /\ PageOf(Stop(hdr, a)) = PageOf(a) <=> Stop(hdr, a) < Base(a) + PAGE
  BY <1>1, <1>2, BlockFacts
<1>4. b \in Nat /\ b < Base(b) + PAGE /\ Base(b) = Base(a)
  BY <1>1, <1>2, BlockFacts DEF Base
<1>5. a \in FreeIn(hdr, {})
  <2>1. a <= a
    BY <1>3
  <2> QED BY <1>1, <1>2, <2>1 DEF FreeRun, FreeIn, L
<1>6. ~(a < b)
  <2> SUFFICES ASSUME a < b PROVE FALSE
    OBVIOUS
  <2>1. Stop(hdr, a) <= b
    BY <1>1, <1>2
  <2>2. Stop(hdr, a) < Base(a) + PAGE /\ a <= Stop(hdr, a)
    BY <1>3, <1>4, <2>1
  <2>3. Stop(hdr, a) \in L /\ PageOf(Stop(hdr, a)) = PageOf(a)
    BY <1>3, <2>2
  <2>4. Stop(hdr, a) \in FreeIn(hdr, {})
    BY <1>1, <2>1, <2>2, <2>3 DEF FreeRun, FreeIn, L
  <2> QED BY <1>5, <2>3, <2>4 DEF AllClosed, Closed
<1> QED BY <1>2, <1>3, <1>4, <1>5, <1>6

\* A step that takes a frame finds no run of free blocks that would do.
LEMMA GrowStep ==
  ASSUME Inv, [Next]_vars, mmap' # mmap, NEW a \in Live, NEW b \in Live, FreeRun(a, b)
  PROVE  End(b) - a - HDR < Round4(req)
<1>1. GrowPage
  BY DEF Next, MallocStep, GetFreePageSpins, MallocHit, MallocMiss, Free, CleanTake, CleanUnite,
         CleanPut, CleanDone, GrowHit, HandOut, vars
<1>2. pc = "grow" /\ find(hdr, mmList, Round4(req)) = NULL
  BY <1>1 DEF GrowPage
<1>3. /\ Mem(hdr, {}, mmap, held) /\ mmList = SENTINEL /\ ListOf(hdr) /\ absorbed = {}
      /\ AllClosed(hdr) /\ req \in Requests
  BY <1>2 DEF Inv, Going, Steps
<1> DEFINE s == Round4(req)
<1>4. s \in Nat
  BY <1>3, Rounded
<1>5. a = b /\ a \in FreeIn(hdr, {}) /\ a \in Nat /\ hdr[a].size \in Nat
  BY <1>3, RunIsOne
<1>6. PICK p, n : OnList(hdr, p, n, {SENTINEL} \cup FreeIn(hdr, {}))
  BY <1>3 DEF ListOf
<1>7. Chain(hdr, p, n) /\ IsHeap(hdr)
  BY <1>3, <1>6 DEF OnList, Mem
<1>8. find(hdr, SENTINEL, s) = NULL
  BY <1>2, <1>3
<1> HIDE DEF s
<1>9. \/ \E k \in 0 .. n - 1 : find(hdr, SENTINEL, s) = p[k] /\ hdr[p[k]].size >= s
      \/ find(hdr, SENTINEL, s) = NULL /\ \A k \in 0 .. n - 1 : hdr[p[k]].size < s
  BY <1>4, <1>7, Found
<1>10. \A k \in 0 .. n - 1 : p[k] # NULL
  BY <1>7 DEF Chain, IsHeap
<1>11. PICK k \in 0 .. n - 1 : p[k] = a
  BY <1>5, <1>6 DEF OnList
<1>12. hdr[a].size < s
  BY <1>8, <1>9, <1>10, <1>11
<1>13. End(b) - a - HDR = hdr[a].size
  BY <1>5 DEF End, HDR
<1> QED BY <1>12, <1>13 DEF s

(***************************************************************************)
(* malloc asks get_free_page for a frame only when clean() has done all it *)
(* can: even the bytes of a whole run of adjacent free blocks would not    *)
(* have held the request.  This needs that the sweep, which edits the list *)
(* it walks and may go on from a header it has swallowed, misses no block. *)
(***************************************************************************)
THEOREM GrowsOnlyWhenFull == Spec => GrowOnlyWhenFull
<1> DEFINE P == mmap' # mmap =>
                  \A a, b \in Live : FreeRun(a, b) => End(b) - a - HDR < Round4(req)
<1>1. Inv /\ [Next]_vars => [P]_vars
  BY GrowStep
<1> QED BY <1>1, SpecInv, PTL DEF Spec, GrowOnlyWhenFull

-----------------------------------------------------------------------------
(***************************************************************************)
(* The refinement of Heap.  A block at address a of page f is the block at *)
(* offset a % PAGE of that page.                                           *)
(***************************************************************************)
OffIn(L, f) == {a % PAGE : a \in {b \in L : PageOf(b) = f}}

SizesIn(h, L, f) == [o \in OffIn(L, f) |-> h[f * PAGE + o].size]

SizesOf(h, L) == [f \in 1 .. Frames |-> SizesIn(h, L, f)]

OffsOf(B) == [f \in 1 .. Frames |-> OffIn(B, f)]

\* What Heap sees of a state ...
LEMMA Mapped ==
  /\ PageSizes = SizesOf(hdr, Blocks(hdr, absorbed))
  /\ PageBusy = OffsOf(BusyIn(hdr, absorbed))
<1>1. Live = Blocks(hdr, absorbed)
  BY DEF Live, Blocks
<1>2. \A f : PageBlocks(f) = {b \in Blocks(hdr, absorbed) : PageOf(b) = f}
  BY <1>1 DEF PageBlocks
<1>3. \A f : {b \in PageBlocks(f) : hdr[b].state = "BUSY"} = {b \in BusyIn(hdr, absorbed) : PageOf(b) = f}
  BY <1>2 DEF BusyIn
<1>4. PageSizes = SizesOf(hdr, Blocks(hdr, absorbed))
  BY <1>2 DEF PageSizes, SizesOf, SizesIn, OffIn
<1>5. PageBusy = OffsOf(BusyIn(hdr, absorbed))
  BY <1>3 DEF PageBusy, OffsOf, OffIn
<1> QED BY <1>4, <1>5

\* ... and of the next one.
LEMMA MappedNext ==
  /\ PageSizes' = SizesOf(hdr', Blocks(hdr', absorbed'))
  /\ PageBusy' = OffsOf(BusyIn(hdr', absorbed'))
<1>1. Live' = Blocks(hdr', absorbed')
  BY DEF Live, Blocks
<1>2. \A f : PageBlocks(f)' = {b \in Blocks(hdr', absorbed') : PageOf(b) = f}
  BY <1>1 DEF PageBlocks
<1>3. \A f : {b \in PageBlocks(f)' : hdr'[b].state = "BUSY"} = {b \in BusyIn(hdr', absorbed') : PageOf(b) = f}
  BY <1>2 DEF BusyIn
<1>4. PageSizes' = SizesOf(hdr', Blocks(hdr', absorbed'))
  BY <1>2 DEF PageSizes, SizesOf, SizesIn, OffIn
<1>5. PageBusy' = OffsOf(BusyIn(hdr', absorbed'))
  BY <1>3 DEF PageBusy, OffsOf, OffIn
<1> QED BY <1>4, <1>5

(***************************************************************************)
(* An address is its page and its offset.                                  *)
(***************************************************************************)
LEMMA Address ==
  ASSUME NEW f \in Nat, NEW o \in 0 .. PAGE - 1
  PROVE  f * PAGE + o \in Nat /\ PageOf(f * PAGE + o) = f /\ (f * PAGE + o) % PAGE = o
<1> DEFINE fp == f * PAGE
           a == fp + o
<1>1. PAGE \in Nat
  BY MallocAssumption
<1>2. fp \in Nat
  BY <1>1
<1>3. o \in Nat /\ o < PAGE
  BY <1>1
<1>4. a \in Nat /\ fp <= a /\ a < fp + PAGE
  <2> HIDE DEF fp
  <2> QED BY <1>1, <1>2, <1>3
<1> HIDE DEF a
<1>5. PageOf(a) = f
  BY <1>4, InPage
<1>6. a = PageOf(a) * PAGE + (a % PAGE) /\ a % PAGE \in 0 .. PAGE - 1
  BY <1>4, PageFacts DEF Base
<1>7. a % PAGE = o
  <2> DEFINE x == a % PAGE
  <2>1. a = fp + x /\ x \in Nat
    BY <1>1, <1>5, <1>6
  <2>2. a = fp + o
    BY DEF a
  <2> HIDE DEF x, fp
  <2>3. x = o
    BY <1>2, <1>3, <2>1, <2>2
  <2> QED BY <2>3 DEF x
<1> QED BY <1>4, <1>5, <1>7 DEF a

\* A block of page f has offset o exactly if it lies there.
LEMMA Offsets ==
  ASSUME NEW L \in SUBSET Nat, NEW f \in Nat, NEW o
  PROVE  o \in OffIn(L, f) <=> (o \in 0 .. PAGE - 1 /\ f * PAGE + o \in L)
<1>1. ASSUME o \in OffIn(L, f) PROVE o \in 0 .. PAGE - 1 /\ f * PAGE + o \in L
  <2>1. PICK a \in L : PageOf(a) = f /\ a % PAGE = o
    BY <1>1 DEF OffIn
  <2>2. a \in Nat
    OBVIOUS
  <2>3. a % PAGE \in 0 .. PAGE - 1 /\ a = PageOf(a) * PAGE + (a % PAGE)
    BY <2>2, PageFacts DEF Base
  <2> QED BY <2>1, <2>3
<1>2. ASSUME o \in 0 .. PAGE - 1, f * PAGE + o \in L PROVE o \in OffIn(L, f)
  <2>1. PageOf(f * PAGE + o) = f /\ (f * PAGE + o) % PAGE = o
    BY <1>2, Address
  <2> QED BY <1>2, <2>1 DEF OffIn
<1> QED BY <1>1, <1>2

\* What a step of Heap does to one page.
Upd(s, f, w) == [s EXCEPT ![f] = w]

(***************************************************************************)
(* A step that changes blocks of page F only, so that w describes them.    *)
(***************************************************************************)
LEMMA PageChange ==
  ASSUME NEW h, NEW g, NEW L \in SUBSET Nat, NEW M \in SUBSET Nat, NEW F \in 1 .. Frames,
         \A a \in Nat : PageOf(a) # F => (a \in M <=> a \in L) /\ (a \in L => g[a].size = h[a].size),
         NEW w, w \in [OffIn(M, F) -> Nat], \A o \in OffIn(M, F) : w[o] = g[F * PAGE + o].size
  PROVE  SizesOf(g, M) = Upd(SizesOf(h, L), F, w)
<1>1. \A f \in 1 .. Frames : f \in Nat
  <2>1. Frames \in Nat
    BY MallocAssumption
  <2> QED BY <2>1
<1>2. ASSUME NEW f \in 1 .. Frames, f # F PROVE SizesIn(g, M, f) = SizesIn(h, L, f)
  <2>1. f \in Nat
    BY <1>1
  <2>2. ASSUME NEW o \in 0 .. PAGE - 1
        PROVE  (f * PAGE + o \in M <=> f * PAGE + o \in L)
               /\ (f * PAGE + o \in L => g[f * PAGE + o].size = h[f * PAGE + o].size)
    <3>1. f * PAGE + o \in Nat /\ PageOf(f * PAGE + o) = f
      BY <2>1, Address
    <3> QED BY <1>2, <3>1
  <2>3. OffIn(M, f) = OffIn(L, f)
    <3>1. \A o : o \in OffIn(M, f) <=> o \in OffIn(L, f)
      BY <2>1, <2>2, Offsets
    <3> QED BY <3>1
  <2>4. \A o \in OffIn(L, f) : g[f * PAGE + o].size = h[f * PAGE + o].size
    BY <2>1, <2>2, Offsets
  <2> QED BY <2>3, <2>4 DEF SizesIn
<1>3. SizesIn(g, M, F) = w
  <2>1. w = [o \in OffIn(M, F) |-> w[o]]
    OBVIOUS
  <2>2. SizesIn(g, M, F) = [o \in OffIn(M, F) |-> w[o]]
    BY DEF SizesIn
  <2> QED BY <2>1, <2>2
<1> QED BY <1>2, <1>3 DEF SizesOf, Upd

\* One more, or one less, held block.
LEMMA BusyMore ==
  ASSUME NEW B \in SUBSET Nat, NEW m \in Nat, PageOf(m) \in 1 .. Frames
  PROVE  /\ OffsOf(B \cup {m}) = Upd(OffsOf(B), PageOf(m), OffsOf(B)[PageOf(m)] \cup {m % PAGE})
         /\ m \in B => OffsOf(B \ {m}) = Upd(OffsOf(B), PageOf(m), OffsOf(B)[PageOf(m)] \ {m % PAGE})
<1> DEFINE F == PageOf(m)
           o == m % PAGE
<1>1. ASSUME NEW f \in 1 .. Frames
      PROVE  /\ OffIn(B \cup {m}, f) = IF f = F THEN OffIn(B, f) \cup {o} ELSE OffIn(B, f)
             /\ OffIn(B \ {m}, f) = IF f = F THEN OffIn(B, f) \ {o} ELSE OffIn(B, f)
  <2>1. f \in Nat /\ F \in Nat
    <3>1. Frames \in Nat
      BY MallocAssumption
    <3> QED BY <3>1
  <2>2. m = F * PAGE + o /\ o \in 0 .. PAGE - 1
    BY PageFacts DEF Base
  <2>3. B \cup {m} \in SUBSET Nat /\ B \ {m} \in SUBSET Nat
    OBVIOUS
  <2>4. ASSUME NEW x \in 0 .. PAGE - 1 PROVE f * PAGE + x = m <=> (f = F /\ x = o)
    <3>1. PageOf(f * PAGE + x) = f /\ (f * PAGE + x) % PAGE = x
      BY <2>1, Address
    <3> HIDE DEF o, F
    <3>2. f * PAGE + x = m => f = F /\ x = o
      BY <3>1 DEF o, F
    <3> QED BY <2>2, <3>2
  <2> HIDE DEF F, o
  <2>5. \A x : x \in OffIn(B \cup {m}, f) <=> (x \in OffIn(B, f) \/ (f = F /\ x = o))
    BY <2>1, <2>2, <2>3, <2>4, Offsets
  <2>6. \A x : x \in OffIn(B \ {m}, f) <=> (x \in OffIn(B, f) /\ ~(f = F /\ x = o))
    BY <2>1, <2>2, <2>3, <2>4, Offsets
  <2> QED BY <2>5, <2>6
<1> QED BY <1>1 DEF OffsOf, Upd

\* The block at m in the eyes of Heap.
Seen(h, A, m) ==
    /\ Blocks(h, A) \in SUBSET Nat /\ BusyIn(h, A) \in SUBSET Nat /\ BusyIn(h, A) \subseteq Blocks(h, A)
    /\ m \in Nat /\ PAGE \in Nat /\ h[m].size \in Nat /\ h[m].size > 0
    /\ PageOf(m) \in 1 .. Frames /\ PageOf(m) \in Nat /\ PageOf(m) * PAGE \in Nat
    /\ m % PAGE \in 0 .. PAGE - 1 /\ m = PageOf(m) * PAGE + (m % PAGE)
    /\ SizesOf(h, Blocks(h, A))[PageOf(m)] = SizesIn(h, Blocks(h, A), PageOf(m))
    /\ DOMAIN SizesOf(h, Blocks(h, A))[PageOf(m)] = OffIn(Blocks(h, A), PageOf(m))
    /\ OffsOf(BusyIn(h, A))[PageOf(m)] = OffIn(BusyIn(h, A), PageOf(m))
    /\ m % PAGE \in OffIn(Blocks(h, A), PageOf(m))
    /\ SizesIn(h, Blocks(h, A), PageOf(m))[m % PAGE] = h[m].size
    /\ m % PAGE \in OffIn(BusyIn(h, A), PageOf(m)) <=> m \in BusyIn(h, A)

\* What Heap sees of one block.
LEMMA SeenBlock ==
  ASSUME NEW h, NEW A, NEW fr, NEW hd, Mem(h, A, fr, hd), NEW m \in Blocks(h, A)
  PROVE  Seen(h, A, m)
<1> DEFINE L == Blocks(h, A)
           B == BusyIn(h, A)
           F == PageOf(m)
           o == m % PAGE
<1>1. Geo(h, L, fr)
  BY DEF Mem
<1>2. L \in SUBSET Nat
  BY <1>1 DEF Geo, Placed
<1>3. B \subseteq L
  BY DEF BusyIn
<1>4. m \in Nat /\ PAGE \in Nat /\ h[m].size \in Nat /\ h[m].size > 0 /\ F \in 1 .. Frames
  BY <1>1, BlockFacts
<1>5. F \in Nat /\ F * PAGE \in Nat /\ o \in 0 .. PAGE - 1 /\ m = F * PAGE + o
  BY <1>4, PageFacts DEF Base
<1>6. /\ SizesOf(h, L)[F] = SizesIn(h, L, F) /\ DOMAIN SizesIn(h, L, F) = OffIn(L, F)
      /\ OffsOf(B)[F] = OffIn(B, F)
  BY <1>4 DEF SizesOf, SizesIn, OffsOf
<1>7. B \in SUBSET Nat
  BY <1>2, <1>3
<1> HIDE DEF L, B, F, o
<1>8. o \in OffIn(L, F)
  <2>1. F * PAGE + o \in L
    BY <1>5 DEF L
  <2> QED BY <1>2, <1>5, <2>1, Offsets
<1>9. SizesIn(h, L, F)[o] = h[m].size
  <2>1. SizesIn(h, L, F)[o] = h[F * PAGE + o].size
    BY <1>8 DEF SizesIn
  <2> QED BY <1>5, <2>1
<1>10. o \in OffIn(B, F) <=> m \in B
  <2>1. o \in OffIn(B, F) <=> (o \in 0 .. PAGE - 1 /\ F * PAGE + o \in B)
    BY <1>5, <1>7, Offsets
  <2> QED BY <1>5, <2>1
<1> QED BY <1>2, <1>3, <1>4, <1>5, <1>6, <1>7, <1>8, <1>9, <1>10 DEF Seen, L, B, F, o

(***************************************************************************)
(* Blocks that keep their sizes look the same.                             *)
(***************************************************************************)
LEMMA LooksSame ==
  ASSUME NEW h, NEW g, NEW L \in SUBSET Nat, \A a \in L : g[a].size = h[a].size
  PROVE  SizesOf(g, L) = SizesOf(h, L)
<1>1. ASSUME NEW f \in 1 .. Frames, NEW o \in OffIn(L, f) PROVE g[f * PAGE + o].size = h[f * PAGE + o].size
  <2>1. f \in Nat
    <3>1. f \in 1 .. Frames /\ Frames \in Nat
      BY MallocAssumption
    <3> QED BY <3>1
  <2>2. f * PAGE + o \in L
    BY <1>1, <2>1, Offsets
  <2> QED BY <2>2
<1> QED BY <1>1 DEF SizesOf, SizesIn

(***************************************************************************)
(* malloc hands out m.                                                     *)
(***************************************************************************)
LEMMA HandedSeen ==
  ASSUME NEW h, NEW g, NEW fr, NEW hd, NEW fr2, NEW hd2, Mem(h, {}, fr, hd), Mem(g, {}, fr2, hd2),
         NEW m, NEW s \in Nat, HandedTo(h, g, m, s)
  PROVE  /\ SizesOf(g, Blocks(g, {})) =
                Upd(SizesOf(h, Blocks(h, {})), PageOf(m),
                    Abstract!Carved(SizesOf(h, Blocks(h, {}))[PageOf(m)], m % PAGE, s))
         /\ OffsOf(BusyIn(g, {})) =
                Upd(OffsOf(BusyIn(h, {})), PageOf(m), OffsOf(BusyIn(h, {}))[PageOf(m)] \cup {m % PAGE})
<1> DEFINE L == Blocks(h, {})
           M == Blocks(g, {})
           F == PageOf(m)
           o == m % PAGE
           z == SizesIn(h, L, F)
           w == Abstract!Carved(z, o, s)
           t == Behind(m, s)
           r == o + 16 + s
<1>1. m \in FreeIn(h, {}) /\ s <= h[m].size
  BY DEF HandedTo
<1>2. m \in L
  BY <1>1 DEF FreeIn
<1>3. Seen(h, {}, m)
  BY <1>2, SeenBlock
<1>4. /\ L \in SUBSET Nat /\ BusyIn(h, {}) \in SUBSET Nat /\ m \in Nat /\ PAGE \in Nat /\ h[m].size \in Nat
      /\ F \in 1 .. Frames /\ F \in Nat /\ F * PAGE \in Nat /\ o \in 0 .. PAGE - 1 /\ m = F * PAGE + o
      /\ SizesOf(h, L)[F] = z /\ o \in OffIn(L, F) /\ z[o] = h[m].size
  BY <1>3 DEF Seen
<1>5. OffsOf(BusyIn(g, {})) = Upd(OffsOf(BusyIn(h, {})), F, OffsOf(BusyIn(h, {}))[F] \cup {o})
  BY <1>4, BusyMore DEF HandedTo
<1>6. M \in SUBSET Nat
  BY DEF Mem, Geo, Placed
<1>7. DOMAIN z = OffIn(L, F) /\ \A x \in OffIn(L, F) : z[x] = h[F * PAGE + x].size
  BY DEF SizesIn
<1>8. \A a \in L : h[a].size \in Nat
  BY DEF Mem, Geo, Sized
<1>9. \A x \in OffIn(L, F) : x \in 0 .. PAGE - 1 /\ F * PAGE + x \in L
  BY <1>4, Offsets
<1>10. \A x \in 0 .. PAGE - 1 : F * PAGE + x = m <=> x = o
  <2> DEFINE fp == F * PAGE
  <2>1. fp \in Nat /\ m = fp + o /\ o \in 0 .. PAGE - 1
    BY <1>4
  <2> HIDE DEF fp, F, o
  <2>2. \A x \in 0 .. PAGE - 1 : fp + x = m <=> x = o
    BY <1>4, <2>1
  <2> QED BY <2>2 DEF fp
<1> HIDE DEF L, M, F, o, z
<1>11. CASE h[m].size >= s + 4 + HDR
  <2>1. /\ M = L \cup {t} /\ g[m].size = s /\ g[t].size = h[m].size - s - HDR
        /\ t \notin L /\ PageOf(t) = F /\ \A a \in L : a # m => g[a].size = h[a].size
    BY <1>11 DEF HandedTo, L, M, F
  <2>2. t = m + 16 + s /\ t \in Nat
    BY <1>4 DEF Behind, HDR
  <2>3. r \in 0 .. PAGE - 1 /\ t = F * PAGE + r
    <3>1. t % PAGE \in 0 .. PAGE - 1 /\ t = PageOf(t) * PAGE + (t % PAGE)
      BY <2>2, PageFacts DEF Base
    <3> DEFINE fp == F * PAGE
               y == t % PAGE
    <3>2. t = fp + y /\ y \in 0 .. PAGE - 1 /\ fp \in Nat /\ m = fp + o /\ o \in 0 .. PAGE - 1
      BY <1>4, <2>1, <3>1
    <3> HIDE DEF fp, y, t
    <3>3. r = y
      BY <1>4, <2>2, <3>2
    <3> QED BY <3>2, <3>3 DEF fp
  <2>4. w = [x \in DOMAIN z \cup {r} |-> IF x = o THEN s ELSE IF x = r THEN z[o] - s - 16 ELSE z[x]]
    BY <1>4, <1>11 DEF Abstract!Carved, Abstract!HDR, Abstract!ALIGN, HDR
  <2> HIDE DEF w, t, r
  <2>5. OffIn(M, F) = OffIn(L, F) \cup {r}
    <3>1. \A x \in 0 .. PAGE - 1 : F * PAGE + x = t <=> x = r
      <4> DEFINE fp == F * PAGE
      <4>1. fp \in Nat /\ t = fp + r /\ r \in 0 .. PAGE - 1
        BY <1>4, <2>3
      <4> HIDE DEF fp
      <4>2. \A x \in 0 .. PAGE - 1 : fp + x = t <=> x = r
        BY <1>4, <4>1
      <4> QED BY <4>2 DEF fp
    <3>2. \A x : x \in OffIn(M, F) <=> (x \in OffIn(L, F) \/ x = r)
      BY <1>4, <1>6, <2>1, <2>3, <3>1, Offsets
    <3> QED BY <3>2
  <2>6. DOMAIN w = OffIn(M, F)
    BY <1>7, <2>4, <2>5
  <2>7. r # o
    BY <1>4, <2>1, <2>3, <1>2 DEF L
  <2>8. ASSUME NEW x \in OffIn(M, F) PROVE w[x] = g[F * PAGE + x].size /\ w[x] \in Nat
    <3>1. CASE x = o
      <4>1. w[x] = s /\ F * PAGE + x = m
        BY <1>4, <2>4, <2>6, <3>1
      <4> QED BY <2>1, <4>1
    <3>2. CASE x = r
      <4>1. w[x] = h[m].size - s - 16 /\ F * PAGE + x = t
        BY <1>4, <2>3, <2>4, <2>6, <2>7, <3>2
      <4>2. h[m].size - s - 16 \in Nat
        BY <1>4, <1>11 DEF HDR
      <4> QED BY <2>1, <4>1, <4>2 DEF HDR
    <3>3. CASE x # o /\ x # r
      <4>1. x \in OffIn(L, F)
        BY <2>5, <3>3
      <4>2. w[x] = h[F * PAGE + x].size /\ F * PAGE + x \in L /\ F * PAGE + x # m
        BY <1>7, <1>9, <1>10, <2>4, <2>6, <3>3, <4>1
      <4> QED BY <1>8, <2>1, <4>2
    <3> QED BY <3>1, <3>2, <3>3
  <2>9. w \in [OffIn(M, F) -> Nat]
    <3>1. w = [x \in DOMAIN w |-> w[x]]
      BY <2>4
    <3> QED BY <2>6, <2>8, <3>1
  <2>10. \A a \in Nat : PageOf(a) # F => (a \in M <=> a \in L) /\ (a \in L => g[a].size = h[a].size)
    BY <2>1 DEF F
  <2>11. SizesOf(g, M) = Upd(SizesOf(h, L), F, w)
    BY <1>4, <1>6, <2>8, <2>9, <2>10, PageChange
  <2> QED BY <1>4, <1>5, <2>11 DEF w, L, M, F, o
<1>12. CASE ~(h[m].size >= s + 4 + HDR)
  <2>1. M = L /\ \A a \in L : g[a].size = h[a].size
    BY <1>12 DEF HandedTo, L, M
  <2>2. w = z
    BY <1>4, <1>12 DEF Abstract!Carved, Abstract!HDR, Abstract!ALIGN, HDR
  <2>3. SizesOf(g, M) = SizesOf(h, L)
    BY <1>4, <2>1, LooksSame
  <2>4. SizesOf(h, L) = Upd(SizesOf(h, L), F, SizesOf(h, L)[F])
    BY DEF Upd, SizesOf
  <2>5. SizesOf(g, M) = Upd(SizesOf(h, L), F, w)
    BY <1>4, <2>2, <2>3, <2>4
  <2> HIDE DEF w
  <2> QED BY <1>4, <1>5, <2>5 DEF w, L, M, F, o
<1> QED BY <1>11, <1>12

(***************************************************************************)
(* unite's test is Heap's: the successor is in the page and free.          *)
(***************************************************************************)
LEMMA JoinSeen ==
  ASSUME NEW h, NEW A, NEW fr, NEW hd, Mem(h, A, fr, hd), NEW m \in Blocks(h, A), NEW r, r = (m % PAGE) + 16 + h[m].size
  PROVE  /\ (r < PAGE /\ r \notin OffIn(BusyIn(h, A), PageOf(m))) <=> ~Closed(h, A, m)
         /\ ~Closed(h, A, m) => /\ Stop(h, m) \in Blocks(h, A) /\ r \in 0 .. PAGE - 1
                                /\ Stop(h, m) = PageOf(m) * PAGE + r
<1> DEFINE L == Blocks(h, A)
           B == BusyIn(h, A)
           F == PageOf(m)
           o == m % PAGE
           e == Stop(h, m)
           fp == F * PAGE
<1>1. /\ e \in Nat /\ e = m + 16 + h[m].size /\ fp + PAGE \in Nat
      /\ e < fp + PAGE => e \in L
      /\ PageOf(e) = F <=> e < fp + PAGE
  BY BlockFacts DEF Mem, Base
<1>2. /\ L \in SUBSET Nat /\ B \in SUBSET Nat /\ m \in Nat /\ PAGE \in Nat /\ h[m].size \in Nat
      /\ F \in Nat /\ fp \in Nat /\ o \in 0 .. PAGE - 1 /\ m = fp + o
  BY SeenBlock DEF Seen
<1> HIDE DEF fp, o, F, L, B, e
<1>3. r = o + 16 + h[m].size
  BY DEF o
<1>4. e = fp + r /\ r \in Nat /\ (r < PAGE <=> e < fp + PAGE) /\ (r < PAGE => r \in 0 .. PAGE - 1)
  BY <1>1, <1>2, <1>3
<1>5. r < PAGE => (r \in OffIn(B, F) <=> e \in B)
  BY <1>2, <1>4, Offsets DEF fp
<1>6. e \in L => (e \in B <=> e \notin FreeIn(h, A))
  <2>1. e \in L => e \in DOMAIN h
    BY DEF L, Blocks
  <2>2. e \in DOMAIN h => h[e].state \in {"FREE", "BUSY"}
    BY DEF Mem, IsHeap, Header
  <2> QED BY <2>1, <2>2 DEF B, FreeIn, BusyIn, L
<1>7. Closed(h, A, m) <=> ~(PageOf(e) = F /\ e \in FreeIn(h, A))
  BY DEF Closed, e, F
<1> QED BY <1>1, <1>4, <1>5, <1>6, <1>7 DEF fp, F, e, L, B

(***************************************************************************)
(* m swallows its successor.                                               *)
(***************************************************************************)
JoinedTo(h, A, g, A2, m) ==
    SizesOf(g, Blocks(g, A2)) =
        Upd(SizesOf(h, Blocks(h, A)), PageOf(m),
            Abstract!Joined(SizesOf(h, Blocks(h, A))[PageOf(m)], m % PAGE, (m % PAGE) + 16 + h[m].size))

\* unite() is Heap's Joined.
LEMMA UnitedSeen ==
  ASSUME NEW h, NEW A, NEW fr, NEW hd, Mem(h, A, fr, hd), NEW g, NEW A2, NEW fr2, NEW hd2, Mem(g, A2, fr2, hd2),
         NEW m \in Blocks(h, A), ~Closed(h, A, m),
         NEW e, Adjacent(h, m, e),
         Blocks(g, A2) = Blocks(h, A) \ {e}, g[m].size = h[m].size + HDR + h[e].size,
         \A a \in Blocks(h, A) : a # m /\ a # e => g[a].size = h[a].size
  PROVE  JoinedTo(h, A, g, A2, m)
<1> DEFINE L == Blocks(h, A)
           M == Blocks(g, A2)
           F == PageOf(m)
           o == m % PAGE
           r == o + 16 + h[m].size
           z == SizesIn(h, L, F)
           w == Abstract!Joined(z, o, r)
<1>1. e \in L /\ r \in 0 .. PAGE - 1 /\ e = F * PAGE + r
  BY JoinSeen DEF Adjacent
<1>2. /\ L \in SUBSET Nat /\ m \in Nat /\ PAGE \in Nat /\ h[m].size \in Nat /\ h[m].size > 0
      /\ F \in 1 .. Frames /\ F \in Nat /\ F * PAGE \in Nat /\ o \in 0 .. PAGE - 1 /\ m = F * PAGE + o
      /\ SizesOf(h, L)[F] = z /\ o \in OffIn(L, F) /\ z[o] = h[m].size
  BY SeenBlock DEF Seen
<1>3. M \in SUBSET Nat
  BY DEF Mem, Geo, Placed
<1>4. DOMAIN z = OffIn(L, F) /\ \A x \in OffIn(L, F) : z[x] = h[F * PAGE + x].size
  BY DEF SizesIn
<1>5. \A a \in L : h[a].size \in Nat
  BY DEF Mem, Geo, Sized
<1>6. \A x \in OffIn(L, F) : x \in 0 .. PAGE - 1 /\ F * PAGE + x \in L
  BY <1>2, Offsets
<1> HIDE DEF L, M, F, o, z
<1>7. r # o
  BY <1>2
<1>8. w = [x \in DOMAIN z \ {r} |-> IF x = o THEN z[o] + 16 + z[r] ELSE z[x]]
  BY DEF Abstract!Joined, Abstract!HDR
<1> HIDE DEF r, w
<1>9. \A x \in 0 .. PAGE - 1 : (F * PAGE + x = m <=> x = o) /\ (F * PAGE + x = e <=> x = r)
  <2> DEFINE fp == F * PAGE
  <2>1. fp \in Nat /\ m = fp + o /\ o \in 0 .. PAGE - 1 /\ e = fp + r /\ r \in 0 .. PAGE - 1
    BY <1>1, <1>2
  <2> HIDE DEF fp
  <2>2. \A x \in 0 .. PAGE - 1 : (fp + x = m <=> x = o) /\ (fp + x = e <=> x = r)
    BY <1>2, <2>1
  <2> QED BY <2>2 DEF fp
<1>10. M = L \ {e} /\ \A a \in L : a # m /\ a # e => g[a].size = h[a].size
  BY DEF L, M
<1>11. OffIn(M, F) = OffIn(L, F) \ {r}
  <2>1. \A x : x \in OffIn(M, F) <=> (x \in OffIn(L, F) /\ x # r)
    BY <1>2, <1>3, <1>9, <1>10, Offsets
  <2> QED BY <2>1
<1>12. DOMAIN w = OffIn(M, F)
  BY <1>4, <1>8, <1>11
<1>13. z[r] = h[e].size
  <2>1. r \in OffIn(L, F)
    BY <1>1, <1>2, Offsets
  <2> QED BY <1>1, <1>4, <2>1
<1>14. ASSUME NEW x \in OffIn(M, F) PROVE w[x] = g[F * PAGE + x].size /\ w[x] \in Nat
  <2>1. CASE x = o
    <3>1. w[x] = h[m].size + 16 + h[e].size /\ F * PAGE + x = m
      BY <1>2, <1>8, <1>12, <1>13, <2>1
    <3>2. h[m].size + 16 + h[e].size \in Nat
      BY <1>1, <1>2, <1>5
    <3> QED BY <3>1, <3>2 DEF HDR
  <2>2. CASE x # o
    <3>1. x \in OffIn(L, F) /\ x # r
      BY <1>11
    <3>2. F * PAGE + x \in L /\ F * PAGE + x # m /\ F * PAGE + x # e
      BY <1>6, <1>9, <2>2, <3>1
    <3>3. w[x] = h[F * PAGE + x].size
      BY <1>4, <1>8, <1>12, <2>2, <3>1
    <3> QED BY <1>5, <1>10, <3>2, <3>3
  <2> QED BY <2>1, <2>2
<1>15. w \in [OffIn(M, F) -> Nat]
  <2>1. w = [x \in DOMAIN w |-> w[x]]
    BY <1>8
  <2> QED BY <1>12, <1>14, <2>1
<1>16. PageOf(e) = F
  BY DEF Adjacent, F
<1>17. \A a \in Nat : PageOf(a) # F => (a \in M <=> a \in L) /\ (a \in L => g[a].size = h[a].size)
  BY <1>10, <1>16 DEF F
<1>18. SizesOf(g, M) = Upd(SizesOf(h, L), F, w)
  BY <1>2, <1>3, <1>14, <1>15, <1>17, PageChange
<1> QED BY <1>2, <1>18 DEF JoinedTo, w, r, L, M, F, o

(***************************************************************************)
(* A fresh page is one block.                                              *)
(***************************************************************************)
LEMMA PageSeen ==
  ASSUME NEW h, NEW g, NEW fr, NEW hd, Mem(h, {}, fr, hd), NEW f \in 1 .. Frames, f \notin fr,
         PagedTo(h, fr, hd, f, f * PAGE, g)
  PROVE  /\ DOMAIN SizesOf(h, Blocks(h, {}))[f] = {}
         /\ SizesOf(g, Blocks(g, {})) = Upd(SizesOf(h, Blocks(h, {})), f, [o \in {0} |-> PAGE - 16])
<1> DEFINE L == Blocks(h, {})
           M == Blocks(g, {})
           m == f * PAGE
           w == [o \in {0} |-> PAGE - 16]
<1>1. /\ M = L \cup {m} /\ m \notin L /\ g[m].size = PAGE - HDR
      /\ \A a \in L : g[a].size = h[a].size /\ Mem(g, {}, fr \cup {f}, hd)
  BY DEF PagedTo
<1>2. f \in Nat /\ PAGE \in Nat /\ PAGE > 16
  <2>1. f \in 1 .. Frames /\ Frames \in Nat /\ PAGE \in Nat /\ PAGE > HDR
    BY MallocAssumption
  <2> QED BY <2>1 DEF HDR
<1>3. L \in SUBSET Nat /\ \A a \in L : PageOf(a) \in fr
  BY DEF Mem, Geo, Placed
<1>4. m \in Nat /\ PageOf(m) = f
  BY <1>2, FrameStart
<1> HIDE DEF m, L, M
<1>5. M \in SUBSET Nat
  BY <1>1, <1>3, <1>4
<1>6. OffIn(L, f) = {}
  BY <1>3 DEF OffIn
<1>7. DOMAIN SizesOf(h, L)[f] = {}
  BY <1>6 DEF SizesOf, SizesIn
<1>8. OffIn(M, f) = {0}
  <2>1. m % PAGE = 0
    <3>1. 0 \in 0 .. PAGE - 1
      BY <1>2
    <3>2. (f * PAGE + 0) % PAGE = 0
      BY <1>2, <3>1, Address
    <3>3. f * PAGE + 0 = f * PAGE
      BY <1>2
    <3> QED BY <3>2, <3>3 DEF m
  <2>2. {b \in M : PageOf(b) = f} = {m}
    BY <1>1, <1>3, <1>4
  <2> QED BY <2>1, <2>2 DEF OffIn
<1>9. w \in [OffIn(M, f) -> Nat] /\ \A o \in OffIn(M, f) : w[o] = g[f * PAGE + o].size
  <2>1. PAGE - 16 \in Nat /\ f * PAGE + 0 = m
    BY <1>2, <1>4 DEF m
  <2>2. w[0] = g[f * PAGE + 0].size
    BY <1>1, <2>1 DEF HDR
  <2>3. w \in [{0} -> Nat]
    BY <2>1
  <2> HIDE DEF w
  <2> QED BY <1>8, <2>2, <2>3
<1> HIDE DEF w
<1>10. \A a \in Nat : PageOf(a) # f => (a \in M <=> a \in L) /\ (a \in L => g[a].size = h[a].size)
  BY <1>1, <1>4
<1>11. SizesOf(g, M) = Upd(SizesOf(h, L), f, w)
  <2>1. L \in SUBSET Nat /\ M \in SUBSET Nat /\ f \in 1 .. Frames
    BY <1>3, <1>5
  <2>2. w \in [OffIn(M, f) -> Nat]
    BY <1>9
  <2>3. \A o \in OffIn(M, f) : w[o] = g[f * PAGE + o].size
    BY <1>9
  <2> QED BY <2>1, <2>2, <2>3, <1>10, PageChange
<1> QED BY <1>7, <1>11 DEF L, M, w

\* Handing out is Alloc.
LEMMA AllocMaps ==
  ASSUME Mem(hdr, {}, mmap, held), Mem(hdr', {}, mmap, held'), absorbed = {}, absorbed' = {},
         NEW r \in Requests, NEW m, HandedTo(hdr, hdr', m, Round4(r))
  PROVE  Abstract!Next
<1> DEFINE s == Round4(r)
           F == PageOf(m)
           o == m % PAGE
<1>1. s \in Nat
  BY Rounded
<1>2. m \in FreeIn(hdr, {}) /\ s <= hdr[m].size
  BY DEF HandedTo
<1>3. m \in Blocks(hdr, {}) /\ m \notin BusyIn(hdr, {})
  BY <1>2 DEF FreeIn, BusyIn
<1>4. Seen(hdr, {}, m)
  BY <1>3, SeenBlock
<1>5. PageSizes = SizesOf(hdr, Blocks(hdr, {})) /\ PageBusy = OffsOf(BusyIn(hdr, {}))
  BY Mapped
<1>6. PageSizes' = SizesOf(hdr', Blocks(hdr', {})) /\ PageBusy' = OffsOf(BusyIn(hdr', {}))
  BY MappedNext
<1>7. HandedTo(hdr, hdr', m, s)
  OBVIOUS
<1> HIDE DEF s
<1>8. /\ SizesOf(hdr', Blocks(hdr', {})) =
            Upd(SizesOf(hdr, Blocks(hdr, {})), F, Abstract!Carved(SizesOf(hdr, Blocks(hdr, {}))[F], o, s))
      /\ OffsOf(BusyIn(hdr', {})) =
            Upd(OffsOf(BusyIn(hdr, {})), F, OffsOf(BusyIn(hdr, {}))[F] \cup {o})
  BY <1>1, <1>7, HandedSeen
<1>9. /\ F \in 1 .. Frames /\ o \in DOMAIN PageSizes[F] /\ o \notin PageBusy[F]
      /\ PageSizes[F][o] = hdr[m].size /\ hdr[m].size \in Nat
  BY <1>3, <1>4, <1>5 DEF Seen
<1>10. PageSizes[F][o] >= s
  BY <1>1, <1>2, <1>9 DEF s
<1> HIDE DEF F, o
<1>11. Abstract!Alloc(F, o, s)
  BY <1>5, <1>6, <1>8, <1>9, <1>10 DEF Abstract!Alloc, Abstract!Blocks, Upd
<1>12. s = Abstract!Round4(r)
  BY DEF s, Round4, Abstract!Round4
<1> QED BY <1>9, <1>11, <1>12 DEF Abstract!Next, Abstract!Blocks

\* One unite of the sweep is Coalesce.
LEMMA UniteMaps == ASSUME Inv, CleanUnite PROVE Abstract!Next
<1>1. /\ pc = "unite" /\ swallowed(hdr, mm) # {} /\ hdr' = unite(hdr, mm)
      /\ absorbed' = absorbed \cup swallowed(hdr, mm)
  BY DEF CleanUnite
<1>2. /\ Mem(hdr, absorbed, mmap, held) /\ UniteAt(hdr, absorbed, mm, nextm)
      /\ mm \in Blocks(hdr, absorbed) /\ Stop(hdr, mm) \notin absorbed
  BY <1>1, HandFacts DEF Inv
<1> DEFINE e == Stop(hdr, mm)
           g == Uniting(hdr, mm, e)
           A2 == absorbed \cup {e}
           F == PageOf(mm)
           o == mm % PAGE
           r == o + 16 + hdr[mm].size
           L == Blocks(hdr, absorbed)
<1>3. ~Closed(hdr, absorbed, mm) /\ swallowed(hdr, mm) = {e} /\ unite(hdr, mm) = g
  BY <1>1, <1>2, Swallows
<1>4. Adjacent(hdr, mm, e)
  BY <1>3 DEF Adjacent, Closed
<1>5. hdr' = g /\ absorbed' = A2
  BY <1>1, <1>3
<1> HIDE DEF g, e
<1>a. Merged(hdr, absorbed, mmap, held, mm, nextm, e, g)
  BY <1>2, <1>3, <1>4, CleanUnited DEF g
<1>6. /\ Mem(g, A2, mmap, held)
      /\ Blocks(g, A2) = L \ {e} /\ BusyIn(g, A2) = BusyIn(hdr, absorbed)
      /\ mm \in FreeIn(hdr, absorbed)
      /\ g[mm].size = hdr[mm].size + HDR + hdr[e].size
      /\ \A a \in DOMAIN hdr : a # mm => g[a].size = hdr[a].size
  BY <1>a DEF Merged
<1>7. \A a \in L : a # mm /\ a # e => g[a].size = hdr[a].size
  BY <1>6 DEF Blocks
<1> HIDE DEF A2
<1>9. SizesOf(g, Blocks(g, A2)) =
        Upd(SizesOf(hdr, L), F, Abstract!Joined(SizesOf(hdr, L)[F], o, r))
  <2>1. JoinedTo(hdr, absorbed, g, A2, mm)
    BY <1>2, <1>3, <1>4, <1>6, <1>7, UnitedSeen
  <2> QED BY <2>1 DEF JoinedTo
<1> HIDE DEF L
<1>10. Seen(hdr, absorbed, mm)
  BY <1>2, SeenBlock
<1>11. r < PAGE /\ r \notin OffIn(BusyIn(hdr, absorbed), F)
  BY <1>2, <1>3, JoinSeen
<1>12. PageSizes = SizesOf(hdr, L) /\ PageBusy = OffsOf(BusyIn(hdr, absorbed))
  BY Mapped DEF L
<1>13. PageSizes' = SizesOf(g, Blocks(g, A2)) /\ PageBusy' = OffsOf(BusyIn(g, A2))
  BY <1>5, MappedNext
<1>14. mm \notin BusyIn(hdr, absorbed)
  BY <1>6 DEF FreeIn, BusyIn
<1>15. /\ F \in 1 .. Frames /\ o \in DOMAIN PageSizes[F] /\ o \notin PageBusy[F] /\ r \notin PageBusy[F]
       /\ PageSizes[F][o] = hdr[mm].size
  BY <1>10, <1>11, <1>12, <1>14 DEF Seen, L
<1> HIDE DEF F, o
<1>16. Abstract!End(F, o) = r
  BY <1>15 DEF Abstract!End, Abstract!HDR
<1> HIDE DEF r
<1>17. Abstract!Coalesce(F, o)
  BY <1>6, <1>9, <1>11, <1>12, <1>13, <1>15, <1>16
     DEF Abstract!Coalesce, Abstract!Joinable, Abstract!Blocks, Upd
<1> QED BY <1>15, <1>17 DEF Abstract!Next, Abstract!Blocks

\* A fresh page is Grow.
LEMMA PageMaps == ASSUME Inv, GrowPage PROVE Abstract!Next
<1>1. PICK f \in 1 .. Frames : f \notin mmap /\ PagedTo(hdr, mmap, held, f, f * PAGE, hdr')
  <2>1. Going(mmap) /\ mmap \subseteq mmap
    BY DEF Inv
  <2> QED BY <2>1, PageStep
<1>2. pc = "grow" /\ absorbed' = absorbed
  BY DEF GrowPage
<1>3. Mem(hdr, {}, mmap, held) /\ absorbed = {}
  BY <1>2 DEF Inv, Going, Steps
<1>4. /\ DOMAIN SizesOf(hdr, Blocks(hdr, {}))[f] = {}
      /\ SizesOf(hdr', Blocks(hdr', {})) = Upd(SizesOf(hdr, Blocks(hdr, {})), f, [o \in {0} |-> PAGE - 16])
  BY <1>1, <1>3, PageSeen
<1>5. BusyIn(hdr', {}) = BusyIn(hdr, {})
  BY <1>1 DEF PagedTo
<1>6. PageSizes = SizesOf(hdr, Blocks(hdr, {})) /\ PageBusy = OffsOf(BusyIn(hdr, {}))
  BY <1>3, Mapped
<1>7. PageSizes' = SizesOf(hdr', Blocks(hdr', {})) /\ PageBusy' = OffsOf(BusyIn(hdr', {}))
  BY <1>2, <1>3, MappedNext
<1>8. Abstract!Grow(f)
  BY <1>4, <1>5, <1>6, <1>7 DEF Abstract!Grow, Abstract!Blocks, Abstract!HDR, Upd
<1> QED BY <1>8 DEF Abstract!Next

\* free is Release.
LEMMA FreeMaps == ASSUME Inv, NEW p \in DOMAIN held, Free(p) PROVE Abstract!Next
<1> DEFINE m == p - HDR
           g == hdr'
           F == PageOf(m)
           o == m % PAGE
           r == o + 16 + hdr[m].size
           L == Blocks(hdr, {})
           e == Stop(hdr, m)
<1>1. Mem(g, {}, mmap, held') /\ FreedTo(hdr, g, m)
  BY FreeStep DEF Inv
<1>2. pc = "idle" /\ absorbed' = absorbed
  BY DEF Free
<1>3. Mem(hdr, {}, mmap, held) /\ absorbed = {}
  BY <1>2 DEF Inv, Going, Steps
<1>4. PageSizes = SizesOf(hdr, L) /\ PageBusy = OffsOf(BusyIn(hdr, {}))
  BY <1>3, Mapped
<1>5. PageSizes' = SizesOf(g, Blocks(g, {})) /\ PageBusy' = OffsOf(BusyIn(g, {}))
  BY <1>2, <1>3, MappedNext
<1> HIDE DEF m
<1>6. m \in BusyIn(hdr, {}) /\ m \in L /\ BusyIn(g, {}) = BusyIn(hdr, {}) \ {m}
  BY <1>1 DEF FreedTo, BusyIn
<1>7. Seen(hdr, {}, m)
  BY <1>3, <1>6, SeenBlock
<1>8. /\ F \in 1 .. Frames /\ o \in DOMAIN PageSizes[F] /\ o \in PageBusy[F]
      /\ PageSizes[F][o] = hdr[m].size /\ m \in Nat /\ BusyIn(hdr, {}) \in SUBSET Nat
      /\ PageBusy[F] = OffIn(BusyIn(hdr, {}), F) /\ L \in SUBSET Nat
  BY <1>4, <1>6, <1>7 DEF Seen
<1>9. OffsOf(BusyIn(g, {})) = Upd(OffsOf(BusyIn(hdr, {})), F, OffsOf(BusyIn(hdr, {}))[F] \ {o})
  BY <1>6, <1>8, BusyMore
<1>10. (r < PAGE /\ r \notin OffIn(BusyIn(hdr, {}), F)) <=> ~Closed(hdr, {}, m)
  BY <1>3, <1>6, JoinSeen
<1>11. Abstract!End(F, o) = r
  BY <1>8 DEF Abstract!End, Abstract!HDR
<1>12. Abstract!Joinable(F, o) <=> ~Closed(hdr, {}, m)
  BY <1>8, <1>10, <1>11 DEF Abstract!Joinable
<1>13. CASE Closed(hdr, {}, m)
  <2>1. Blocks(g, {}) = L /\ \A a \in L : g[a].size = hdr[a].size
    BY <1>1, <1>13 DEF FreedTo
  <2>2. SizesOf(g, L) = SizesOf(hdr, L)
    BY <1>8, <2>1, LooksSame
  <2>3. PageSizes' = PageSizes
    BY <1>4, <1>5, <2>1, <2>2
  <2> HIDE DEF F, o, g
  <2>4. Abstract!Release(F, o)
    BY <1>4, <1>5, <1>8, <1>9, <1>12, <1>13, <2>3 DEF Abstract!Release, Upd
  <2> QED BY <1>8, <2>4 DEF Abstract!Next, Abstract!Blocks
<1>14. CASE ~Closed(hdr, {}, m)
  <2>1. /\ Blocks(g, {}) = L \ {e} /\ g[m].size = hdr[m].size + HDR + hdr[e].size
        /\ \A a \in L : a # m /\ a # e => g[a].size = hdr[a].size
    BY <1>1, <1>14 DEF FreedTo
  <2> HIDE DEF g
  <2>2. SizesOf(g, Blocks(g, {})) = Upd(SizesOf(hdr, L), F, Abstract!Joined(SizesOf(hdr, L)[F], o, r))
    <3>1. Adjacent(hdr, m, e)
      BY <1>14 DEF Adjacent, Closed
    <3> HIDE DEF e
    <3>2. JoinedTo(hdr, {}, g, {}, m)
      BY <1>1, <1>3, <1>6, <1>14, <2>1, <3>1, UnitedSeen
    <3> QED BY <3>2 DEF JoinedTo
  <2> HIDE DEF F, o, r, L
  <2>3. Abstract!Release(F, o)
    BY <1>4, <1>5, <1>8, <1>9, <1>11, <1>12, <1>14, <2>2 DEF Abstract!Release, Upd
  <2> QED BY <1>8, <2>3 DEF Abstract!Next, Abstract!Blocks
<1> QED BY <1>13, <1>14

\* Every step is a step of Heap or changes nothing there.
LEMMA StepMaps == ASSUME Inv, [Next]_vars PROVE [Abstract!Next]_(Abstract!vars)
<1>0. ASSUME NEW r \in Requests, NEW m, GaveOut(mmap, m, r) PROVE Abstract!Next
  BY <1>0, AllocMaps DEF GaveOut
<1>1. ASSUME NEW r \in Requests, MallocHit(r) PROVE Abstract!Next
  BY <1>0, <1>1, StepHit DEF Inv
<1>2. ASSUME GrowHit PROVE Abstract!Next
  BY <1>0, <1>2, StepGrowHit DEF Inv
<1>3. ASSUME hdr' = hdr, absorbed' = absorbed PROVE UNCHANGED Abstract!vars
  BY <1>3, Mapped, MappedNext DEF Abstract!vars
<1>4. ASSUME CleanTake PROVE UNCHANGED Abstract!vars
  <2>1. pc = "clean" /\ mm # NULL /\ hdr' = del(hdr, mm) /\ absorbed' = absorbed
    BY <1>4 DEF CleanTake
  <2>2. Mem(hdr, {}, mmap, held) /\ CleanAt(hdr, mm) /\ absorbed = {}
    BY <2>1 DEF Inv, Going, Steps
  <2>3. SameBlocks(hdr, hdr')
    BY <2>1, <2>2, CleanTaken
  <2>4. Blocks(hdr', {}) = Blocks(hdr, {}) /\ BusyIn(hdr', {}) = BusyIn(hdr, {})
    BY <2>3, SameSets
  <2>5. Blocks(hdr, {}) \in SUBSET Nat /\ \A a \in Blocks(hdr, {}) : hdr'[a].size = hdr[a].size
    BY <2>2, <2>3 DEF Mem, IsHeap, SameBlocks, Blocks
  <2>6. SizesOf(hdr', Blocks(hdr, {})) = SizesOf(hdr, Blocks(hdr, {}))
    BY <2>5, LooksSame
  <2> QED BY <2>1, <2>2, <2>4, <2>6, Mapped, MappedNext DEF Abstract!vars
<1>5. ASSUME CleanPut PROVE UNCHANGED Abstract!vars
  <2>1. PutDone(hdr, absorbed, mmap, held, hdr', mm') /\ absorbed' = {}
    BY <1>5, PutStep DEF Inv
  <2>2. Blocks(hdr, absorbed) \in SUBSET Nat
    BY DEF Inv, Going, Mem, IsHeap, Blocks
  <2>3. /\ Blocks(hdr', {}) = Blocks(hdr, absorbed) /\ BusyIn(hdr', {}) = BusyIn(hdr, absorbed)
        /\ \A a \in Blocks(hdr, absorbed) : hdr'[a].size = hdr[a].size
    BY <2>1 DEF PutDone
  <2>4. SizesOf(hdr', Blocks(hdr, absorbed)) = SizesOf(hdr, Blocks(hdr, absorbed))
    BY <2>2, <2>3, LooksSame
  <2> QED BY <2>1, <2>3, <2>4, Mapped, MappedNext DEF Abstract!vars
<1>6. ASSUME NEW r \in Requests, MallocMiss(r) PROVE UNCHANGED Abstract!vars
  BY <1>3, <1>6 DEF MallocMiss
<1>7. ASSUME CleanDone PROVE UNCHANGED Abstract!vars
  BY <1>3, <1>7 DEF CleanDone
<1>8. ASSUME UNCHANGED vars PROVE UNCHANGED Abstract!vars
  BY <1>3, <1>8 DEF vars
<1> QED BY <1>1, <1>2, <1>4, <1>5, <1>6, <1>7, <1>8, UniteMaps, PageMaps, FreeMaps
        DEF Next, MallocStep, GetFreePageSpins

\* An empty heap is Heap's initial state.
LEMMA InitMaps == Init => Abstract!Init
<1> SUFFICES ASSUME Init PROVE Abstract!Init
  OBVIOUS
<1>1. Blocks(hdr, absorbed) = {} /\ BusyIn(hdr, absorbed) = {}
  BY DEF Init, Blocks, BusyIn
<1>2. \A f : OffIn({}, f) = {}
  BY DEF OffIn
<1>3. PageSizes = [f \in 1 .. Frames |-> [o \in {} |-> 0]]
  <2>1. \A f : SizesIn(hdr, {}, f) = [o \in {} |-> 0]
    BY <1>2 DEF SizesIn
  <2> QED BY <1>1, <2>1, Mapped DEF SizesOf
<1>4. PageBusy = [f \in 1 .. Frames |-> {}]
  BY <1>1, <1>2, Mapped DEF OffsOf
<1> QED BY <1>3, <1>4 DEF Abstract!Init

(***************************************************************************)
(* malloc, free and clean() with their sorted, doubly linked list          *)
(* implement Heap, for every number of frames, page size and set of        *)
(* requests: a malloc that returns is Alloc, a page from get_free_page is  *)
(* Grow, one unite of the sweep is Coalesce, free is Release, and taking a *)
(* block off the list or putting it back is invisible.  So what HeapProofs *)
(* shows of Heap holds of the code's own data structure.                   *)
(***************************************************************************)
THEOREM MallocImplementsHeap == Spec => ImplementsHeap
<1>1. Inv /\ [Next]_vars => [Abstract!Next]_(Abstract!vars)
  BY StepMaps
<1> QED BY <1>1, InitMaps, SpecInv, PTL DEF Spec, ImplementsHeap, Abstract!Spec

-----------------------------------------------------------------------------
(***************************************************************************)
(* HeapRace: the thread's calls, cut where an interrupt may come.  c is    *)
(* where an interrupt does no harm: between calls, after clean, without a  *)
(* large enough block, with a page of M that is not yet in the heap of     *)
(* frames fr, or in free with a block of B, the BUSY ones, that unite has  *)
(* seen.                                                                   *)
(***************************************************************************)
Fresh(M, fr, m) == \E f \in 1 .. Frames : f \in M /\ f \notin fr /\ m = f * PAGE

Waits(c, M, fr, B) ==
    /\ c.nextm = NULL
    /\ \/ c.pc = "idle" /\ c.req = 0 /\ c.mm = NULL
       \/ c.pc \in {"grow", "full"} /\ c.req \in Requests /\ c.mm = NULL
       \/ c.pc = "page" /\ c.req \in Requests /\ Fresh(M, fr, c.mm)
       \/ c.pc = "merged" /\ c.req = 0 /\ c.mm \in B

\* Block m is free and off the list, where everything else free is.
Loose(h, fr, hd, m) == \E q, l : OffList(h, h, fr, hd, m, q, l)

\* The blocks that unite(m), having looked behind m, is going to swallow.
Meant(x) == IF x = NULL THEN {} ELSE {x}

\* The thread's points that Malloc does not have.
Halfway(M, fr, h, hd, p, r, m, x) ==
    \/ /\ p \in {"find", "refind"} /\ r \in Requests /\ ListOf(h) /\ x = NULL
       /\ m \in FreeIn(h, {}) \cup {SENTINEL, NULL}
    \/ /\ p = "found" /\ r \in Requests /\ ListOf(h) /\ x = NULL
       /\ m \in FreeIn(h, {}) /\ Round4(r) <= h[m].size
    \/ /\ p = "taken" /\ r \in Requests /\ x = NULL
       /\ Loose(h, fr, hd, m) /\ Round4(r) <= h[m].size
    \/ p = "full" /\ r \in Requests /\ ListOf(h) /\ x = NULL /\ m = NULL
    \/ p = "page" /\ r \in Requests /\ ListOf(h) /\ x = NULL /\ Fresh(M, fr, m)
    \/ /\ p = "adding" /\ r \in Requests /\ ListOf(h) /\ Fresh(M, fr, m)
       /\ x \in FreeIn(h, {}) \cup {SENTINEL} /\ h[x].size < PAGE - HDR
    \/ p = "uniting" /\ r = 0 /\ ListOf(h) /\ m \in BusyIn(h, {}) /\ swallowed(h, m) = Meant(x)
    \/ p = "merged" /\ r = 0 /\ ListOf(h) /\ x = NULL /\ m \in BusyIn(h, {})
    \/ p = "freeing" /\ r = 0 /\ x = NULL /\ Loose(h, fr, hd, m)

Race(fr, M, h, A, hd, ml, p, r, m, x, c) ==
    /\ fr \subseteq M /\ Mem(h, A, fr, hd) /\ ml = SENTINEL
    /\ IF c = NoContext
       THEN Steps(h, A, p, r, m, x) \/ (A = {} /\ Halfway(M, fr, h, hd, p, r, m, x))
       ELSE Steps(h, A, p, r, m, x) /\ Waits(c, M, fr, BusyIn(h, A))

\* The calls of the thread and of the handler, now and after a step.
Racing(fr) == Race(fr, mmap, hdr, absorbed, held, mmList, pc, req, mm, nextm, saved)

RacesOn(fr) ==
    Race(fr, mmap', hdr', absorbed', held', mmList', pc', req', mm', nextm', saved')

(***************************************************************************)
(* The inductive invariant of HeapRace.                                    *)
(***************************************************************************)
RaceInv == torn \/ \E fr : Racing(fr)

\* A caller of Malloc's own steps is on its way in HeapRace too.
LEMMA Onward ==
  ASSUME NEW fr, fr \subseteq mmap', GoesOn(fr), saved' = NoContext
  PROVE  RacesOn(fr)
  BY DEF RacesOn, Race, GoesOn

\* What one of Malloc's steps leaves to the thread.
LEMMA ThreadGoes ==
  ASSUME NEW fr, Racing(fr), pc \in {"idle", "clean", "unite", "grow"}
  PROVE  Going(fr) /\ fr \subseteq mmap
  BY DEF Racing, Race, Going, Halfway

\* What follows a node of the list is the next one, or nothing.
LEMMA NextNode ==
  ASSUME NEW h, IsHeap(h), NEW S, NEW p, NEW n, OnList(h, p, n, {SENTINEL} \cup S),
         NEW a \in {SENTINEL} \cup S
  PROVE  h[a].next = NULL \/ h[a].next \in S
<1>1. Chain(h, p, n) /\ n \in Nat /\ p[0] = SENTINEL
  BY DEF OnList, Chain
<1>2. PICK i \in 0 .. n - 1 : p[i] = a
  BY DEF OnList
<1>3. CASE i = n - 1
  <2>1. h[p[n - 1]].next = NULL
    BY <1>1 DEF Chain
  <2> QED BY <1>2, <1>3, <2>1
<1>4. CASE i # n - 1
  <2>1. i \in 0 .. n - 2 /\ i + 1 \in 0 .. n - 1 /\ 0 \in 0 .. n - 1 /\ i + 1 # 0
    BY <1>1, <1>4
  <2>2. h[a].next = p[i + 1]
    BY <1>1, <1>2, <2>1 DEF Chain
  <2>3. p[i + 1] # p[0]
    BY <1>1, <2>1 DEF Chain
  <2>4. p[i + 1] \in {SENTINEL} \cup S
    BY <2>1 DEF OnList
  <2> QED BY <1>1, <2>2, <2>3, <2>4
<1> QED BY <1>3, <1>4

\* The thread goes on between two points of its own.
LEMMA OnHalfway ==
  ASSUME NEW fr, Mem(hdr, {}, fr, held), mmList = SENTINEL, fr \subseteq mmap, absorbed = {},
         saved = NoContext, saved' = saved, hdr' = hdr, mmList' = mmList, mmap' = mmap,
         absorbed' = absorbed, held' = held,
         Halfway(mmap, fr, hdr, held, pc', req', mm', nextm')
  PROVE  RacesOn(fr)
  BY DEF RacesOn, Race

\* malloc calls find, the first time or again.
LEMMA RaceCall ==
  ASSUME NEW fr, Racing(fr), saved = NoContext, saved' = saved,
         Refind \/ \E r \in Requests : CallMalloc(r)
  PROVE  RacesOn(fr)
<1>1. /\ pc \in {"idle", "grow"} /\ mm' = mmList /\ pc' \in {"find", "refind"}
      /\ (pc = "grow" /\ req' = req) \/ req' \in Requests
      /\ hdr' = hdr /\ mmList' = mmList /\ mmap' = mmap /\ nextm' = nextm /\ absorbed' = absorbed
      /\ held' = held
  BY DEF Refind, CallMalloc
<1>2. Going(fr) /\ fr \subseteq mmap
  BY <1>1, ThreadGoes
<1>3. /\ Mem(hdr, {}, fr, held) /\ mmList = SENTINEL /\ ListOf(hdr) /\ absorbed = {} /\ nextm = NULL
      /\ pc = "grow" => req \in Requests
  BY <1>1, <1>2 DEF Going, Steps
<1>4. Halfway(mmap, fr, hdr, held, pc', req', mm', nextm')
  BY <1>1, <1>3 DEF Halfway
<1> QED BY <1>1, <1>2, <1>3, <1>4, OnHalfway

\* What is known while find walks.
LEMMA Finding ==
  ASSUME NEW fr, Racing(fr), saved = NoContext, pc \in {"find", "refind"}
  PROVE  /\ Mem(hdr, {}, fr, held) /\ mmList = SENTINEL /\ absorbed = {} /\ nextm = NULL
         /\ fr \subseteq mmap /\ req \in Requests /\ ListOf(hdr)
         /\ mm \in FreeIn(hdr, {}) \cup {SENTINEL, NULL}
  BY DEF Racing, Race, Steps, Halfway

\* find goes on to the next block.
LEMMA RaceFindNext ==
  ASSUME NEW fr, Racing(fr), saved = NoContext, saved' = saved, FindNext
  PROVE  RacesOn(fr)
<1>1. /\ pc \in {"find", "refind"} /\ mm # NULL /\ mm' = hdr[mm].next /\ pc' = pc /\ req' = req
      /\ hdr' = hdr /\ mmList' = mmList /\ mmap' = mmap /\ nextm' = nextm /\ absorbed' = absorbed
      /\ held' = held
  BY DEF FindNext
<1>2. /\ Mem(hdr, {}, fr, held) /\ mmList = SENTINEL /\ absorbed = {} /\ nextm = NULL
      /\ fr \subseteq mmap /\ req \in Requests /\ ListOf(hdr)
      /\ mm \in FreeIn(hdr, {}) \cup {SENTINEL, NULL}
  BY <1>1, Finding
<1>3. PICK p, n : OnList(hdr, p, n, {SENTINEL} \cup FreeIn(hdr, {}))
  BY <1>2 DEF ListOf
<1>4. mm \in {SENTINEL} \cup FreeIn(hdr, {}) /\ IsHeap(hdr)
  BY <1>1, <1>2 DEF Mem
<1>5. hdr[mm].next = NULL \/ hdr[mm].next \in FreeIn(hdr, {})
  BY <1>3, <1>4, NextNode
<1>6. Halfway(mmap, fr, hdr, held, pc', req', mm', nextm')
  BY <1>1, <1>2, <1>5 DEF Halfway
<1> QED BY <1>1, <1>2, <1>6, OnHalfway

\* find: the thread has a free block that is large enough.
LEMMA RaceFindHit ==
  ASSUME NEW fr, Racing(fr), saved = NoContext, saved' = saved, FindHit
  PROVE  RacesOn(fr)
<1>1. /\ pc \in {"find", "refind"} /\ mm # NULL /\ hdr[mm].size >= Round4(req)
      /\ pc' = "found" /\ mm' = mm /\ req' = req
      /\ hdr' = hdr /\ mmList' = mmList /\ mmap' = mmap /\ nextm' = nextm /\ absorbed' = absorbed
      /\ held' = held
  BY DEF FindHit
<1>2. /\ Mem(hdr, {}, fr, held) /\ mmList = SENTINEL /\ absorbed = {} /\ nextm = NULL
      /\ fr \subseteq mmap /\ req \in Requests /\ ListOf(hdr)
      /\ mm \in FreeIn(hdr, {}) \cup {SENTINEL, NULL}
  BY <1>1, Finding
<1>3. Round4(req) \in Nat /\ Round4(req) > 0
  BY <1>2, Rounded
<1>4. mm # SENTINEL
  <2>1. hdr[SENTINEL].size = 0
    BY <1>2 DEF Mem, Anchored
  <2> QED BY <1>1, <1>3, <2>1
<1>5. mm \in FreeIn(hdr, {}) /\ Round4(req) <= hdr[mm].size
  <2>1. mm \in FreeIn(hdr, {}) /\ mm \in DOMAIN hdr
    BY <1>1, <1>2, <1>4 DEF FreeIn, Blocks
  <2>2. hdr[mm].size \in Nat
    BY <1>2, <2>1 DEF Mem, IsHeap, Header
  <2> QED BY <1>1, <1>3, <2>1, <2>2
<1>6. Halfway(mmap, fr, hdr, held, pc', req', mm', nextm')
  BY <1>1, <1>2, <1>5 DEF Halfway
<1> QED BY <1>1, <1>2, <1>6, OnHalfway

\* find has come to the end of the list.
LEMMA RaceFindMiss ==
  ASSUME NEW fr, Racing(fr), saved = NoContext, saved' = saved, FindMiss \/ RefindMiss
  PROVE  RacesOn(fr)
<1>1. /\ pc \in {"find", "refind"} /\ mm = NULL /\ req' = req
      /\ (pc' = "clean" /\ mm' = hdr[mmList].next) \/ (pc' = "full" /\ mm' = mm)
      /\ hdr' = hdr /\ mmList' = mmList /\ mmap' = mmap /\ nextm' = nextm /\ absorbed' = absorbed
      /\ held' = held
  BY DEF FindMiss, RefindMiss
<1>2. /\ Mem(hdr, {}, fr, held) /\ mmList = SENTINEL /\ absorbed = {} /\ nextm = NULL
      /\ fr \subseteq mmap /\ req \in Requests /\ ListOf(hdr)
      /\ mm \in FreeIn(hdr, {}) \cup {SENTINEL, NULL}
  BY <1>1, Finding
<1>3. CASE pc' = "clean" /\ mm' = hdr[mmList].next
  <2>1. CleanAt(hdr, mm')
    BY <1>2, <1>3, CleanStart
  <2>2. GoesOn(fr)
    BY <1>1, <1>2, <1>3, <2>1 DEF GoesOn, Steps
  <2> QED BY <1>1, <1>2, <2>2, Onward
<1>4. CASE pc' = "full" /\ mm' = mm
  <2>1. Halfway(mmap, fr, hdr, held, pc', req', mm', nextm')
    BY <1>1, <1>2, <1>4 DEF Halfway
  <2> QED BY <1>1, <1>2, <2>1, OnHalfway
<1> QED BY <1>1, <1>3, <1>4

\* del: the block is off the list, still FREE.
LEMMA RaceTake ==
  ASSUME NEW fr, Racing(fr), saved = NoContext, saved' = saved, Take
  PROVE  RacesOn(fr)
<1>1. /\ pc = "found" /\ hdr' = del(hdr, mm) /\ pc' = "taken"
      /\ mmList' = mmList /\ mmap' = mmap /\ req' = req /\ mm' = mm /\ nextm' = nextm
      /\ absorbed' = absorbed /\ held' = held
  BY DEF Take
<1>2. /\ Mem(hdr, {}, fr, held) /\ mmList = SENTINEL /\ absorbed = {} /\ nextm = NULL /\ fr \subseteq mmap
      /\ req \in Requests /\ ListOf(hdr) /\ mm \in FreeIn(hdr, {}) /\ Round4(req) <= hdr[mm].size
  BY <1>1 DEF Racing, Race, Steps, Halfway
<1> DEFINE d == del(hdr, mm)
<1>3. PICK q, l : OffList(hdr, d, fr, held, mm, q, l)
  BY <1>2, TakeOff
<1> HIDE DEF d
<1>4. Mem(d, {}, fr, held) /\ SameBlocks(hdr, d) /\ mm \in DOMAIN hdr
  BY <1>2, <1>3 DEF OffList, FreeIn, Blocks
<1>5. FreeIn(d, {}) = FreeIn(hdr, {}) /\ d[mm].size = hdr[mm].size
  BY <1>4, SameSets DEF SameBlocks
<1>6. SameBlocks(d, d)
  BY DEF SameBlocks
<1>7. OffList(d, d, fr, held, mm, q, l)
  BY <1>2, <1>3, <1>4, <1>5, <1>6 DEF OffList
<1>8. Loose(d, fr, held, mm)
  BY <1>7 DEF Loose
<1>9. Halfway(mmap, fr, d, held, "taken", req, mm, NULL)
  BY <1>2, <1>5, <1>8 DEF Halfway
<1>10. hdr' = d
  BY <1>1 DEF d
<1> QED BY <1>1, <1>2, <1>4, <1>9, <1>10 DEF RacesOn, Race

\* The rest of malloc.
LEMMA RaceReturn ==
  ASSUME NEW fr, Racing(fr), saved = NoContext, saved' = saved, Return
  PROVE  RacesOn(fr)
<1>1. pc = "taken" /\ HandOut(hdr, mm, req)
  BY DEF Return
<1>2. /\ mmList = SENTINEL /\ absorbed = {} /\ nextm = NULL /\ fr \subseteq mmap
      /\ req \in Requests /\ Loose(hdr, fr, held, mm) /\ Round4(req) <= hdr[mm].size
  BY <1>1 DEF Racing, Race, Steps, Halfway
<1>3. PICK q, l : OffList(hdr, hdr, fr, held, mm, q, l)
  BY <1>2 DEF Loose
<1>4. Mem(hdr', {}, fr, held') /\ mmList' = SENTINEL /\ ListOf(hdr')
  BY <1>1, <1>2, <1>3, HandOutStep
<1>5. pc' = "idle" /\ req' = 0 /\ mm' = NULL /\ mmap' = mmap /\ nextm' = NULL /\ absorbed' = {}
  BY <1>1, <1>2 DEF HandOut
<1>6. GoesOn(fr)
  BY <1>4, <1>5 DEF GoesOn, Steps
<1> QED BY <1>2, <1>5, <1>6, Onward

\* get_free_page: the frame is taken, and not yet in the heap.
LEMMA RaceGetPage ==
  ASSUME NEW fr, Racing(fr), saved = NoContext, saved' = saved, GetPage
  PROVE  RacesOn(fr)
<1> DEFINE F == FreeFrames
           f == Min(F)
<1>1. /\ pc = "full" /\ F # {} /\ mmap' = mmap \cup {f} /\ mm' = f * PAGE /\ pc' = "page"
      /\ hdr' = hdr /\ mmList' = mmList /\ req' = req /\ nextm' = nextm /\ absorbed' = absorbed
      /\ held' = held
  BY DEF GetPage
<1>2. f \in 1 .. Frames /\ f \notin mmap
  <2>1. F \in SUBSET Nat
    BY MallocAssumption DEF FreeFrames
  <2> HIDE DEF F
  <2>2. f \in F
    BY <1>1, <2>1, MinIn
  <2> QED BY <2>2 DEF F, FreeFrames
<1> HIDE DEF f
<1>4. /\ Mem(hdr, {}, fr, held) /\ mmList = SENTINEL /\ ListOf(hdr) /\ absorbed = {} /\ nextm = NULL
      /\ req \in Requests /\ fr \subseteq mmap
  BY <1>1 DEF Racing, Race, Steps, Halfway
<1>5. Fresh(mmap', fr, mm')
  BY <1>1, <1>2, <1>4 DEF Fresh
<1>6. Halfway(mmap', fr, hdr', held', pc', req', mm', nextm')
  BY <1>1, <1>4, <1>5 DEF Halfway
<1> QED BY <1>1, <1>4, <1>6 DEF RacesOn, Race

\* add is called for the page.
LEMMA RaceAddCall ==
  ASSUME NEW fr, Racing(fr), saved = NoContext, saved' = saved, AddCall
  PROVE  RacesOn(fr)
<1>1. /\ pc = "page" /\ nextm' = mmList /\ pc' = "adding" /\ mm' = mm /\ req' = req
      /\ hdr' = hdr /\ mmList' = mmList /\ mmap' = mmap /\ absorbed' = absorbed /\ held' = held
  BY DEF AddCall
<1>2. /\ Mem(hdr, {}, fr, held) /\ mmList = SENTINEL /\ absorbed = {} /\ fr \subseteq mmap
      /\ req \in Requests /\ ListOf(hdr) /\ Fresh(mmap, fr, mm)
  BY <1>1 DEF Racing, Race, Steps, Halfway
<1>3. hdr[SENTINEL].size < PAGE - HDR
  <2>1. hdr[SENTINEL].size = 0
    BY <1>2 DEF Mem, Anchored
  <2> QED BY <2>1, MallocAssumption DEF HDR
<1>4. Halfway(mmap, fr, hdr, held, pc', req', mm', nextm')
  BY <1>1, <1>2, <1>3 DEF Halfway
<1> QED BY <1>1, <1>2, <1>4, OnHalfway

\* What is known while add walks.
LEMMA Adding ==
  ASSUME NEW fr, Racing(fr), saved = NoContext, pc = "adding"
  PROVE  /\ Mem(hdr, {}, fr, held) /\ mmList = SENTINEL /\ absorbed = {} /\ fr \subseteq mmap
         /\ req \in Requests /\ ListOf(hdr) /\ Fresh(mmap, fr, mm)
         /\ nextm \in FreeIn(hdr, {}) \cup {SENTINEL} /\ hdr[nextm].size < PAGE - HDR
  BY DEF Racing, Race, Steps, Halfway

\* add goes on to the next block, which is smaller than a page.
LEMMA RaceAddNext ==
  ASSUME NEW fr, Racing(fr), saved = NoContext, saved' = saved, AddNext
  PROVE  RacesOn(fr)
<1>1. /\ pc = "adding" /\ ~AddStops /\ nextm' = hdr[nextm].next /\ pc' = pc /\ mm' = mm /\ req' = req
      /\ hdr' = hdr /\ mmList' = mmList /\ mmap' = mmap /\ absorbed' = absorbed /\ held' = held
  BY DEF AddNext
<1>2. /\ Mem(hdr, {}, fr, held) /\ mmList = SENTINEL /\ absorbed = {} /\ fr \subseteq mmap
      /\ req \in Requests /\ ListOf(hdr) /\ Fresh(mmap, fr, mm)
      /\ nextm \in FreeIn(hdr, {}) \cup {SENTINEL} /\ hdr[nextm].size < PAGE - HDR
  BY <1>1, Adding
<1>3. PICK p, n : OnList(hdr, p, n, {SENTINEL} \cup FreeIn(hdr, {}))
  BY <1>2 DEF ListOf
<1>4. nextm \in {SENTINEL} \cup FreeIn(hdr, {}) /\ IsHeap(hdr)
  BY <1>2 DEF Mem
<1>5. nextm' # NULL /\ ~(hdr[nextm'].size >= PAGE - HDR)
  BY <1>1 DEF AddStops
<1>6. nextm' \in FreeIn(hdr, {})
  BY <1>1, <1>3, <1>4, <1>5, NextNode
<1>7. hdr[nextm'].size < PAGE - HDR
  <2>1. nextm' \in DOMAIN hdr
    BY <1>6 DEF FreeIn, Blocks
  <2>2. hdr[nextm'].size \in Nat
    BY <1>4, <2>1 DEF IsHeap, Header
  <2> QED BY <1>5, <2>2, MallocAssumption DEF HDR
<1>8. Halfway(mmap, fr, hdr, held, pc', req', mm', nextm')
  BY <1>1, <1>2, <1>6, <1>7 DEF Halfway
<1> QED BY <1>1, <1>2, <1>8, OnHalfway

(***************************************************************************)
(* Where the walk stops, linking the page in is what add does at once.     *)
(***************************************************************************)
LEMMA LinkIsAdd ==
  ASSUME NEW h, NEW fr, NEW hd, Mem(h, {}, fr, hd),
         NEW p, NEW n, OnList(h, p, n, {SENTINEL} \cup FreeIn(h, {})),
         NEW f \in 1 .. Frames, f \notin fr, NEW m, m = f * PAGE,
         NEW c, c = Paged(h, m),
         NEW x \in FreeIn(h, {}) \cup {SENTINEL}, h[x].size < PAGE - HDR,
         h[x].next # NULL => h[h[x].next].size >= PAGE - HDR
  PROVE  LinkBehind(h, x, m, FreeHdr(PAGE - HDR)) = add(c, SENTINEL, m)
<1> DEFINE w == FreeHdr(PAGE - HDR)
           s == PAGE - HDR
<1>0. Beside(h, p, n, m, c)
  BY PageBeside
<1>1. /\ IsHeap(c) /\ DOMAIN c = DOMAIN h \cup {m} /\ m \notin DOMAIN h
      /\ c[m] = w /\ \A a \in DOMAIN h : a # m => c[a] = h[a]
      /\ OnList(c, p, n, {SENTINEL} \cup FreeIn(h, {})) /\ m \notin {SENTINEL} \cup FreeIn(h, {})
      /\ m \in DOMAIN c /\ c[SENTINEL].size < c[m].size
  BY <1>0 DEF Beside
<1>2. s \in Nat /\ w.size = s
  BY MallocAssumption DEF HDR, FreeHdr
<1>3. IsHeap(h) /\ Chain(h, p, n) /\ Chain(c, p, n) /\ n \in Nat /\ NULL \notin DOMAIN h
  BY <1>1 DEF Mem, OnList, Chain, IsHeap
<1>4. /\ \A i \in 0 .. n - 1 : p[i] \in DOMAIN h /\ p[i] # m
      /\ \A i, j \in 0 .. n - 1 : i <= j => h[p[i]].size <= h[p[j]].size
      /\ h[p[n - 1]].next = NULL /\ \A i \in 0 .. n - 2 : h[p[i]].next = p[i + 1]
  BY <1>1, <1>3 DEF Chain, OnList
<1>5. \A i \in 0 .. n - 1 : c[p[i]] = h[p[i]] /\ h[p[i]].size \in Nat
  BY <1>1, <1>3, <1>4 DEF IsHeap, Header
<1> HIDE DEF w
<1>6. PICK k \in 1 .. n :
           /\ k < n => c[p[k]].size >= c[m].size
           /\ \A i \in 0 .. k - 1 : c[p[i]].size < c[m].size
           /\ DOMAIN add(c, SENTINEL, m) = DOMAIN c
           /\ \A a \in DOMAIN c : add(c, SENTINEL, m)[a] = AddedHdr(c, p, n, k, m, a)
  BY <1>1, <1>3, <1>4, AddFields
<1>7. PICK j \in 0 .. n - 1 : p[j] = x
  BY DEF OnList
<1>8. j <= k - 1
  <2> SUFFICES ASSUME j >= k PROVE FALSE
    BY <1>3, <1>6, <1>7
  <2>1. k \in 0 .. n - 1 /\ k < n /\ k <= j
    BY <1>3, <1>6, <1>7
  <2>2. h[p[k]].size >= s
    BY <1>1, <1>2, <1>5, <1>6, <2>1
  <2>3. h[p[k]].size <= h[x].size
    BY <1>4, <1>7, <2>1
  <2> QED BY <1>2, <1>5, <1>7, <2>1, <2>2, <2>3
<1>9. j >= k - 1
  <2> SUFFICES ASSUME j < k - 1 PROVE FALSE
    BY <1>3, <1>6, <1>7
  <2>1. j \in 0 .. n - 2 /\ j + 1 \in 0 .. n - 1 /\ j + 1 \in 0 .. k - 1
    BY <1>3, <1>6, <1>7
  <2>2. h[x].next = p[j + 1] /\ p[j + 1] # NULL
    BY <1>3, <1>4, <1>7, <2>1
  <2>3. h[p[j + 1]].size >= s
    BY <2>2
  <2>4. h[p[j + 1]].size < s
    BY <1>1, <1>2, <1>5, <1>6, <2>1
  <2> QED BY <1>2, <1>5, <2>1, <2>3, <2>4
<1>10. j = k - 1 /\ x = p[k - 1]
  BY <1>3, <1>6, <1>7, <1>8, <1>9
<1>11. h[x].next = IF k < n THEN p[k] ELSE NULL
  <2>1. CASE k < n
    <3>1. k - 1 \in 0 .. n - 2 /\ (k - 1) + 1 = k
      BY <1>3, <1>6, <2>1
    <3> QED BY <1>4, <1>10, <2>1, <3>1
  <2>2. CASE ~(k < n)
    <3>1. k = n
      BY <1>3, <1>6, <2>2
    <3> QED BY <1>4, <1>10, <2>2, <3>1
  <2> QED BY <2>1, <2>2
<1> DEFINE g == LinkBehind(h, x, m, w)
<1>12. /\ DOMAIN g = DOMAIN h \cup {m} /\ g = [a \in DOMAIN g |-> g[a]]
       /\ g[m] = [w EXCEPT !.next = h[x].next, !.root = x]
       /\ \A a \in DOMAIN h : a # m =>
             g[a] = [h[a] EXCEPT !.next = IF a = x THEN m ELSE h[a].next,
                                 !.root = IF a = h[x].next THEN m ELSE h[a].root]
  BY DEF LinkBehind
<1> HIDE DEF g
<1>13. ASSUME NEW a \in DOMAIN c PROVE g[a] = AddedHdr(c, p, n, k, m, a)
  <2>1. CASE a = m
    BY <1>1, <1>10, <1>11, <1>12, <2>1 DEF AddedHdr
  <2>2. CASE a # m
    <3>1. a \in DOMAIN h /\ c[a] = h[a] /\ a # NULL
      BY <1>1, <1>3, <2>2
    <3>2. g[a] = [h[a] EXCEPT !.next = IF a = x THEN m ELSE h[a].next,
                              !.root = IF a = h[x].next THEN m ELSE h[a].root]
      BY <1>12, <2>2, <3>1
    <3>3. (a = h[x].next) <=> (k < n /\ a = p[k])
      BY <1>11, <3>1
    <3> QED BY <1>10, <2>2, <3>1, <3>2, <3>3 DEF AddedHdr
  <2> QED BY <2>1, <2>2
<1> DEFINE y == add(c, SENTINEL, m)
<1>14. y = [a \in DOMAIN y |-> y[a]]
  BY DEF add
<1> HIDE DEF y
<1>15. DOMAIN y = DOMAIN c /\ \A a \in DOMAIN c : y[a] = g[a]
  BY <1>6, <1>13 DEF y
<1>16. g = y
  <2>1. DOMAIN g = DOMAIN y /\ \A a \in DOMAIN y : y[a] = g[a]
    BY <1>1, <1>12, <1>15
  <2>2. [a \in DOMAIN g |-> g[a]] = [a \in DOMAIN y |-> y[a]]
    BY <2>1
  <2>3. g = [a \in DOMAIN g |-> g[a]]
    BY <1>12
  <2> QED BY <1>14, <2>2, <2>3
<1> QED BY <1>16 DEF g, y, w

\* The page is put on the list.
LEMMA RaceAddLink ==
  ASSUME NEW fr, Racing(fr), saved = NoContext, saved' = saved, AddLink
  PROVE  \E x : RacesOn(x)
<1>1. /\ pc = "adding" /\ AddStops /\ hdr' = LinkBehind(hdr, nextm, mm, FreeHdr(PAGE - HDR))
      /\ mm' = NULL /\ nextm' = NULL /\ pc' = "grow"
      /\ mmList' = mmList /\ mmap' = mmap /\ req' = req /\ absorbed' = absorbed /\ held' = held
  BY DEF AddLink
<1>2. /\ Mem(hdr, {}, fr, held) /\ mmList = SENTINEL /\ absorbed = {} /\ fr \subseteq mmap
      /\ req \in Requests /\ ListOf(hdr) /\ Fresh(mmap, fr, mm)
      /\ nextm \in FreeIn(hdr, {}) \cup {SENTINEL} /\ hdr[nextm].size < PAGE - HDR
  BY <1>1, Adding
<1>3. PICK f \in 1 .. Frames : f \in mmap /\ f \notin fr /\ mm = f * PAGE
  BY <1>2 DEF Fresh
<1>4. hdr[nextm].next # NULL => hdr[hdr[nextm].next].size >= PAGE - HDR
  BY <1>1 DEF AddStops
<1> DEFINE m == f * PAGE
           c == Paged(hdr, m)
           g == add(c, SENTINEL, m)
<1>5. m = f * PAGE /\ c = Paged(hdr, m) /\ g = add(c, SENTINEL, m) /\ mm = m
  BY <1>3
<1>7. PICK p, n : OnList(hdr, p, n, {SENTINEL} \cup FreeIn(hdr, {}))
  BY <1>2 DEF ListOf
<1> HIDE DEF m, c, g
<1>6. hdr' = g
  BY <1>1, <1>2, <1>3, <1>4, <1>5, <1>7, LinkIsAdd
<1>8. PagedTo(hdr, fr, held, f, m, g)
  BY <1>2, <1>3, <1>5, <1>7, PageAdded
<1>9. GoesOn(fr \cup {f})
  BY <1>1, <1>2, <1>6, <1>8 DEF PagedTo, GoesOn, Steps
<1>10. fr \cup {f} \subseteq mmap'
  BY <1>1, <1>2, <1>3
<1>11. RacesOn(fr \cup {f})
  BY <1>9, <1>10, Onward
<1> QED BY <1>11

(***************************************************************************)
(* Forgetting the swallowed headers keeps the blocks and the list.         *)
(***************************************************************************)
LEMMA Forgotten ==
  ASSUME NEW u, NEW A, NEW fr, NEW hd, Mem(u, A, fr, hd),
         NEW q, NEW l, OnList(u, q, l, {SENTINEL} \cup FreeIn(u, A)),
         NEW g, g = Restrict(u, DOMAIN u \ A)
  PROVE  Mem(g, {}, fr, hd) /\ ListOf(g) /\ BusyIn(g, {}) = BusyIn(u, A)
<1> DEFINE D == DOMAIN u \ A
<1>1. /\ IsHeap(u) /\ Anchored(u) /\ A \subseteq DOMAIN u \ {SENTINEL} /\ Geo(u, Blocks(u, A), fr)
      /\ Unlinked(u, A) /\ Holds(u, A, hd)
  BY DEF Mem
<1>2. IsHeap(g) /\ DOMAIN g = D /\ \A a \in D : g[a] = u[a]
  <2>1. D \in SUBSET DOMAIN u
    OBVIOUS
  <2> QED BY <1>1, <2>1, Restricted
<1>3. Blocks(g, {}) = Blocks(u, A) /\ \A a \in Blocks(u, A) : a \in D /\ g[a] = u[a]
  <2>1. \A a \in Blocks(u, A) : a \in D
    BY DEF Blocks
  <2>2. Blocks(g, {}) = Blocks(u, A)
    BY <1>2 DEF Blocks
  <2> QED BY <1>2, <2>1, <2>2
<1>4. FreeIn(g, {}) = FreeIn(u, A) /\ BusyIn(g, {}) = BusyIn(u, A)
  BY <1>3 DEF FreeIn, BusyIn
<1>5. SENTINEL \in D /\ \A a \in FreeIn(u, A) : a \in D
  BY <1>1, <1>3 DEF Anchored, FreeIn
<1> HIDE DEF D
<1>6. OnList(g, q, l, {SENTINEL} \cup FreeIn(g, {}))
  <2>1. Chain(u, q, l) /\ \A i \in 0 .. l - 1 : q[i] \in D
    BY <1>5 DEF OnList
  <2>2. \A i \in 0 .. l - 1 : q[i] \in DOMAIN g /\ g[q[i]] = u[q[i]]
    BY <1>2, <2>1
  <2>3. Chain(g, q, l)
    BY <2>1, <2>2, ChainSame
  <2> QED BY <1>4, <2>3 DEF OnList
<1>7. Anchored(g)
  BY <1>1, <1>2, <1>5 DEF Anchored
<1>8. Geo(g, Blocks(g, {}), fr)
  <2>1. \A a \in Blocks(u, A) : g[a].size = u[a].size
    BY <1>3
  <2> QED BY <1>1, <1>3, <2>1, GeoSame
<1>9. \A a \in BusyIn(u, A) : g[a] = u[a]
  BY <1>3 DEF BusyIn
<1>10. Unlinked(g, {}) /\ Holds(g, {}, hd)
  <2>1. Unlinked(g, {})
    BY <1>1, <1>4, <1>9 DEF Unlinked
  <2>2. Holds(g, {}, hd)
    BY <1>1, <1>4, <1>9 DEF Holds
  <2> QED BY <2>1, <2>2
<1>11. Mem(g, {}, fr, hd)
  BY <1>2, <1>6, <1>7, <1>8, <1>10, Settled
<1> QED BY <1>4, <1>6, <1>11 DEF ListOf

\* What unite() makes of the heap when free() calls it on a BUSY block.
LEMMA UniteBusy ==
  ASSUME NEW h, NEW fr, NEW hd, Mem(h, {}, fr, hd), ListOf(h), NEW m \in BusyIn(h, {}),
         NEW u, u = unite(h, m), NEW A, A = swallowed(h, m)
  PROVE  /\ Mem(u, A, fr, hd) /\ BusyIn(u, A) = BusyIn(h, {}) /\ DOMAIN u = DOMAIN h
         /\ \E q, l : OnList(u, q, l, {SENTINEL} \cup FreeIn(u, A))
<1> DEFINE S == {SENTINEL} \cup FreeIn(h, {})
           e == Stop(h, m)
<1>1. m \in Blocks(h, {}) /\ m \notin S
  BY DEF BusyIn, FreeIn, Blocks
<1>2. PICK q, l : OnList(h, q, l, S)
  BY DEF ListOf
<1>3. CASE Closed(h, {}, m)
  <2>1. A = {} /\ u = h
    BY <1>1, <1>3, Swallows
  <2> QED BY <1>2, <2>1
<1>4. CASE ~Closed(h, {}, m)
  <2>1. A = {e} /\ u = Uniting(h, m, e)
    BY <1>1, <1>4, Swallows
  <2>2. Adjacent(h, m, e) /\ e \in FreeIn(h, {}) /\ e # SENTINEL
    BY <1>4 DEF Closed, Adjacent, FreeIn, Blocks
  <2> HIDE DEF e, S
  <2>3. PICK j \in 0 .. l - 1 : q[j] = e
    BY <1>2, <2>2 DEF OnList, S
  <2>4. j \in 1 .. l - 1
    <3>1. q[0] = SENTINEL /\ l \in Nat
      BY <1>2 DEF OnList, Chain
    <3>2. j # 0
      BY <2>2, <2>3, <3>1
    <3> QED BY <2>3, <3>1, <3>2
  <2>5. S \subseteq {SENTINEL} \cup FreeIn(h, {})
    BY DEF S
  <2>6. UnitedTo(h, {}, fr, hd, m, S, q, l, j, e, u)
    BY <1>1, <1>2, <2>1, <2>2, <2>3, <2>4, <2>5, United
  <2>7. {} \cup {e} = A
    BY <2>1
  <2>8. /\ Mem(u, A, fr, hd) /\ OnList(u, RemoveAt(q, l, j), l - 1, S \ {e}) /\ DOMAIN u = DOMAIN h
        /\ FreeIn(u, A) = FreeIn(h, {}) \ {e} /\ BusyIn(u, A) = BusyIn(h, {})
    BY <2>6, <2>7 DEF UnitedTo
  <2>9. S \ {e} = {SENTINEL} \cup FreeIn(u, A)
    BY <2>2, <2>8 DEF S
  <2>10. OnList(u, RemoveAt(q, l, j), l - 1, {SENTINEL} \cup FreeIn(u, A))
    BY <2>8, <2>9
  <2> QED BY <2>8, <2>10
<1> QED BY <1>3, <1>4

\* free: unite has looked behind the block.
LEMMA RaceFreeCall ==
  ASSUME NEW fr, Racing(fr), saved = NoContext, saved' = saved, NEW p \in DOMAIN held, FreeCall(p)
  PROVE  RacesOn(fr)
<1> DEFINE m == p - HDR
           e == m + HDR + hdr[m].size
<1>1. /\ pc = "idle" /\ mm' = m /\ pc' = "uniting"
      /\ nextm' = IF swallowed(hdr, m) = {} THEN NULL ELSE p + hdr[m].size
      /\ hdr' = hdr /\ mmList' = mmList /\ mmap' = mmap /\ req' = req /\ absorbed' = absorbed
      /\ held' = held
  BY DEF FreeCall
<1>2. Going(fr) /\ fr \subseteq mmap
  BY <1>1, ThreadGoes
<1>3. /\ Mem(hdr, {}, fr, held) /\ mmList = SENTINEL /\ ListOf(hdr) /\ absorbed = {} /\ req = 0
  BY <1>1, <1>2 DEF Going, Steps
<1>4. m \in BusyIn(hdr, {}) /\ p \in Nat
  BY <1>3 DEF Mem, Holds
<1>5. hdr[m].size \in Nat /\ NULL \notin DOMAIN hdr
  BY <1>3, <1>4 DEF Mem, IsHeap, Header, BusyIn, Blocks
<1>6. p + hdr[m].size = e
  BY <1>4, <1>5 DEF HDR
<1>7. swallowed(hdr, m) = {} \/ (swallowed(hdr, m) = {e} /\ e \in DOMAIN hdr)
  BY DEF swallowed
<1> HIDE DEF e, m
<1>8. swallowed(hdr, m) = Meant(nextm')
  BY <1>1, <1>5, <1>6, <1>7 DEF Meant
<1>9. Halfway(mmap, fr, hdr, held, pc', req', mm', nextm')
  BY <1>1, <1>3, <1>4, <1>8 DEF Halfway
<1> QED BY <1>1, <1>2, <1>3, <1>9, OnHalfway

\* After unite the block is still its owner's.
LEMMA RaceUnite ==
  ASSUME NEW fr, Racing(fr), saved = NoContext, saved' = saved, FreeUnite
  PROVE  RacesOn(fr)
<1> DEFINE u == unite(hdr, mm)
           A == swallowed(hdr, mm)
           g == Restrict(u, DOMAIN u \ A)
<1>1. /\ pc = "uniting" /\ mm' = mm /\ nextm' = NULL /\ pc' = "merged"
      /\ mmList' = mmList /\ mmap' = mmap /\ req' = req /\ absorbed' = absorbed
      /\ held' = held
  BY DEF FreeUnite
<1>2. /\ Mem(hdr, {}, fr, held) /\ mmList = SENTINEL /\ ListOf(hdr) /\ absorbed = {}
      /\ fr \subseteq mmap /\ req = 0 /\ mm \in BusyIn(hdr, {}) /\ A = Meant(nextm)
  BY <1>1 DEF Racing, Race, Steps, Halfway
<1>3. CASE nextm = NULL
  <2>1. hdr' = hdr
    BY <1>3 DEF FreeUnite
  <2>2. Halfway(mmap, fr, hdr, held, pc', req', mm', nextm')
    BY <1>1, <1>2 DEF Halfway
  <2> QED BY <1>1, <1>2, <2>1, <2>2, OnHalfway
<1>4. CASE nextm # NULL
  <2>1. A = {nextm} /\ nextm = mm + HDR + hdr[mm].size
    BY <1>2, <1>4 DEF Meant, swallowed
  <2>2. u = [del(hdr, nextm) EXCEPT ![mm].size = @ + HDR + hdr[nextm].size]
    BY <2>1 DEF unite
  <2>3. hdr' = g
    BY <1>4, <2>1, <2>2 DEF FreeUnite
  <2>5. /\ Mem(u, A, fr, held) /\ BusyIn(u, A) = BusyIn(hdr, {})
        /\ \E q, l : OnList(u, q, l, {SENTINEL} \cup FreeIn(u, A))
    BY <1>2, UniteBusy
  <2>4. g = Restrict(u, DOMAIN u \ A)
    OBVIOUS
  <2> HIDE DEF u, A, g
  <2>6. PICK q, l : OnList(u, q, l, {SENTINEL} \cup FreeIn(u, A))
    BY <2>5
  <2>7. Mem(g, {}, fr, held) /\ ListOf(g) /\ BusyIn(g, {}) = BusyIn(u, A)
    BY <2>4, <2>5, <2>6, Forgotten
  <2>8. Halfway(mmap, fr, g, held, "merged", 0, mm, NULL)
    BY <1>2, <2>5, <2>7 DEF Halfway
  <2> QED BY <1>1, <1>2, <2>3, <2>7, <2>8 DEF RacesOn, Race
<1> QED BY <1>3, <1>4

\* state = FREE: nobody's block, and not on the list.
LEMMA RaceMark ==
  ASSUME NEW fr, Racing(fr), saved = NoContext, saved' = saved, FreeMark
  PROVE  RacesOn(fr)
<1> DEFINE x == Freeing(hdr, mm)
           hd == Restrict(held, DOMAIN held \ {mm + HDR})
           S == {SENTINEL} \cup FreeIn(hdr, {})
<1>1. /\ pc = "merged" /\ hdr' = x /\ held' = hd /\ pc' = "freeing"
      /\ mmList' = mmList /\ mmap' = mmap /\ req' = req /\ mm' = mm /\ nextm' = nextm
      /\ absorbed' = absorbed
  BY DEF FreeMark, Freeing
<1>2. /\ Mem(hdr, {}, fr, held) /\ mmList = SENTINEL /\ absorbed = {} /\ nextm = NULL /\ fr \subseteq mmap
      /\ req = 0 /\ ListOf(hdr) /\ mm \in BusyIn(hdr, {})
  BY <1>1 DEF Racing, Race, Steps, Halfway
<1>3. PICK p, n : OnList(hdr, p, n, S)
  BY <1>2 DEF ListOf
<1>4. S \subseteq {SENTINEL} \cup FreeIn(hdr, {})
  OBVIOUS
<1>5. x = Freeing(hdr, mm)
  OBVIOUS
<1> HIDE DEF x, S
<1>a. /\ Mem(x, {}, fr, hd) /\ OnList(x, p, n, S) /\ FreeIn(x, {}) = FreeIn(hdr, {}) \cup {mm}
      /\ mm \notin S
  BY <1>2, <1>3, <1>4, <1>5, Marked
<1> HIDE DEF hd
<1>6. S = ({SENTINEL} \cup FreeIn(x, {})) \ {mm}
  BY <1>a DEF S
<1>7. SameBlocks(x, x)
  BY DEF SameBlocks
<1>8. OffList(x, x, fr, hd, mm, p, n)
  BY <1>a, <1>6, <1>7 DEF OffList
<1>9. Loose(x, fr, hd, mm)
  BY <1>8 DEF Loose
<1>10. Halfway(mmap, fr, x, hd, "freeing", 0, mm, NULL)
  BY <1>9 DEF Halfway
<1> QED BY <1>1, <1>2, <1>a, <1>10 DEF RacesOn, Race

\* add: the block is on the list again.
LEMMA RaceAdd ==
  ASSUME NEW fr, Racing(fr), saved = NoContext, saved' = saved, FreeAdd
  PROVE  RacesOn(fr)
<1> DEFINE y == add(hdr, SENTINEL, mm)
           g == Restrict(y, DOMAIN hdr \ {})
<1>1. /\ pc = "freeing" /\ hdr' = add(hdr, mmList, mm) /\ mmList' = addHead(hdr, mmList, mm)
      /\ mm' = NULL /\ pc' = "idle" /\ mmap' = mmap /\ req' = req /\ nextm' = nextm
      /\ absorbed' = absorbed /\ held' = held
  BY DEF FreeAdd
<1>2. /\ Mem(hdr, {}, fr, held) /\ mmList = SENTINEL /\ absorbed = {} /\ nextm = NULL /\ fr \subseteq mmap
      /\ req = 0 /\ Loose(hdr, fr, held, mm)
  BY <1>1 DEF Racing, Race, Steps, Halfway
<1>3. PICK q, l : OffList(hdr, hdr, fr, held, mm, q, l)
  BY <1>2 DEF Loose
<1>4. mm \in FreeIn(hdr, {}) /\ OnList(hdr, q, l, {SENTINEL} \cup (FreeIn(hdr, {}) \ {mm}))
  <2>1. mm \in FreeIn(hdr, {}) /\ OnList(hdr, q, l, ({SENTINEL} \cup FreeIn(hdr, {})) \ {mm})
    BY <1>3 DEF OffList
  <2>2. ({SENTINEL} \cup FreeIn(hdr, {})) \ {mm} = {SENTINEL} \cup (FreeIn(hdr, {}) \ {mm})
    BY <2>1 DEF FreeIn, Blocks
  <2> QED BY <2>1, <2>2
<1>5. DOMAIN y = DOMAIN hdr /\ y = [a \in DOMAIN y |-> y[a]]
  BY DEF add
<1> HIDE DEF y
<1>6. g = y
  <2>1. DOMAIN hdr \ {} = DOMAIN y
    BY <1>5
  <2>2. Restrict(y, DOMAIN y) = [a \in DOMAIN y |-> y[a]]
    BY DEF Restrict
  <2> QED BY <1>5, <2>1, <2>2
<1> HIDE DEF g
<1>7. PICK k \in 1 .. l : PutTo(hdr, {}, fr, held, mm, q, l, k, y, g)
  BY <1>2, <1>4, PutBack DEF y, g
<1>8. Mem(y, {}, fr, held) /\ ListOf(y) /\ addHead(hdr, SENTINEL, mm) = SENTINEL
  BY <1>6, <1>7 DEF PutTo, ListOf
<1>9. hdr' = y /\ mmList' = SENTINEL
  BY <1>1, <1>2, <1>8 DEF y
<1>10. GoesOn(fr)
  BY <1>1, <1>2, <1>8, <1>9 DEF GoesOn, Steps
<1> QED BY <1>1, <1>2, <1>10, Onward

\* A step of the thread.
LEMMA RaceThread ==
  ASSUME NEW fr, Racing(fr), saved = NoContext, ThreadStep, saved' = saved
  PROVE  \E x : RacesOn(x)
<1>0. saved' = NoContext
  OBVIOUS
<1>4. ASSUME CleanTake \/ CleanUnite \/ CleanPut \/ CleanDone PROVE RacesOn(fr)
  <2>1. pc \in {"clean", "unite"} /\ mmap' = mmap
    BY <1>4 DEF CleanTake, CleanUnite, CleanPut, CleanDone
  <2>2. Going(fr) /\ fr \subseteq mmap'
    BY <2>1, ThreadGoes
  <2>3. GoesOn(fr)
    BY <1>4, <2>2, StepTake, StepUnite, StepPut, StepDone
  <2> QED BY <1>0, <2>2, <2>3, Onward
<1>5. ASSUME NEW p \in DOMAIN held, FreeCall(p) PROVE RacesOn(fr)
  BY <1>5, RaceFreeCall
<1>6. ASSUME Refind \/ (\E r \in Requests : CallMalloc(r)) PROVE RacesOn(fr)
  BY <1>6, RaceCall
<1>7. ASSUME FindNext \/ FindHit \/ FindMiss \/ RefindMiss PROVE RacesOn(fr)
  BY <1>7, RaceFindNext, RaceFindHit, RaceFindMiss
<1>8. ASSUME GetPage \/ AddCall \/ AddNext PROVE RacesOn(fr)
  BY <1>8, RaceGetPage, RaceAddCall, RaceAddNext
<1>9. ASSUME Take \/ Return \/ FreeUnite \/ FreeMark \/ FreeAdd PROVE RacesOn(fr)
  BY <1>9, RaceTake, RaceReturn, RaceUnite, RaceMark, RaceAdd
<1> QED BY <1>4, <1>5, <1>6, <1>7, <1>8, <1>9, RaceAddLink DEF ThreadStep

\* The interrupt comes where it does no harm.
LEMMA RaceInterrupt ==
  ASSUME NEW fr, Racing(fr), Interrupt, pc \notin HalfDone
  PROVE  RacesOn(fr)
<1>1. /\ saved = NoContext /\ saved' = Context /\ pc' = "idle" /\ req' = 0 /\ mm' = NULL /\ nextm' = NULL
      /\ hdr' = hdr /\ mmList' = mmList /\ mmap' = mmap /\ absorbed' = absorbed /\ held' = held
  BY DEF Interrupt, InIsr
<1>2. pc \notin {"find", "refind", "found", "taken", "clean", "unite", "adding", "uniting", "freeing"}
  BY DEF HalfDone
<1>3. /\ fr \subseteq mmap /\ Mem(hdr, absorbed, fr, held) /\ mmList = SENTINEL
      /\ \/ Steps(hdr, absorbed, pc, req, mm, nextm)
         \/ absorbed = {} /\ Halfway(mmap, fr, hdr, held, pc, req, mm, nextm)
  BY <1>1 DEF Racing, Race
<1>4. absorbed = {} /\ nextm = NULL /\ ListOf(hdr)
  BY <1>2, <1>3 DEF Steps, Halfway
<1> DEFINE c == Context
<1>5. c.pc = pc /\ c.req = req /\ c.mm = mm /\ c.nextm = nextm
  BY DEF Context
<1>6. c # NoContext
  BY <1>3, <1>5 DEF NoContext, Steps, Halfway
<1>7. \/ pc = "idle" /\ req = 0 /\ mm = NULL
      \/ pc \in {"grow", "full"} /\ req \in Requests /\ mm = NULL
      \/ pc = "page" /\ req \in Requests /\ Fresh(mmap, fr, mm)
      \/ pc = "merged" /\ req = 0 /\ mm \in BusyIn(hdr, absorbed)
  BY <1>2, <1>3, <1>4 DEF Steps, Halfway
<1> HIDE DEF c
<1>8. Waits(c, mmap, fr, BusyIn(hdr, absorbed))
  BY <1>4, <1>5, <1>7 DEF Waits
<1>9. Steps(hdr, absorbed, "idle", 0, NULL, NULL)
  BY <1>4 DEF Steps
<1>10. saved' = c
  BY <1>1 DEF c
<1> QED BY <1>1, <1>3, <1>6, <1>8, <1>9, <1>10 DEF RacesOn, Race

\* The interrupted context is as good as it was, where no block it needs was freed.
LEMMA StillWaits ==
  ASSUME NEW c, NEW M, NEW N, NEW fr, NEW B, NEW C, Waits(c, M, fr, B), M \subseteq N,
         c.pc = "merged" /\ c.mm \in B => c.mm \in C
  PROVE  Waits(c, N, fr, C)
<1>1. ASSUME Fresh(M, fr, c.mm) PROVE Fresh(N, fr, c.mm)
  BY <1>1 DEF Fresh
<1> QED BY <1>1 DEF Waits

\* The handler goes on.
LEMMA IsrOnward ==
  ASSUME NEW fr, Racing(fr), InIsr, saved' = saved, mmap' = mmap, GoesOn(fr),
         saved.pc = "merged" /\ saved.mm \in BusyIn(hdr, absorbed) => saved.mm \in BusyIn(hdr', absorbed')
  PROVE  RacesOn(fr)
<1>1. fr \subseteq mmap /\ Waits(saved, mmap, fr, BusyIn(hdr, absorbed)) /\ saved # NoContext
  BY DEF Racing, Race, InIsr
<1>2. mmap \subseteq mmap
  OBVIOUS
<1>3. Waits(saved, mmap, fr, BusyIn(hdr', absorbed'))
  BY <1>1, <1>2, StillWaits
<1> QED BY <1>1, <1>3 DEF RacesOn, Race, GoesOn

\* A step of the handler.
LEMMA RaceIsr ==
  ASSUME NEW fr, Racing(fr), IsrStep
  PROVE  \E x : RacesOn(x)
<1>0. /\ InIsr /\ saved' = saved /\ Going(fr) /\ fr \subseteq mmap /\ saved # NoContext
      /\ Waits(saved, mmap, fr, BusyIn(hdr, absorbed))
  BY DEF IsrStep, Racing, Race, Going, InIsr
<1>a. ASSUME GoesOn(fr), SameBusy, mmap' = mmap PROVE RacesOn(fr)
  BY <1>0, <1>a, IsrOnward DEF SameBusy
<1>b. ASSUME NEW m, NEW r, GaveOut(fr, m, r) PROVE RacesOn(fr)
  <2>1. /\ GoesOn(fr) /\ mmap' = mmap /\ absorbed = {} /\ absorbed' = {}
        /\ BusyIn(hdr', {}) = BusyIn(hdr, {}) \cup {m}
    BY <1>b DEF GaveOut, HandedTo
  <2>2. saved.mm \in BusyIn(hdr, absorbed) => saved.mm \in BusyIn(hdr', absorbed')
    BY <2>1
  <2> QED BY <1>0, <2>1, <2>2, IsrOnward
<1>1. ASSUME NEW r \in Requests, MallocHit(r) PROVE RacesOn(fr)
  BY <1>0, <1>1, <1>b, StepHit
<1>2. ASSUME NEW r \in Requests, MallocMiss(r) PROVE RacesOn(fr)
  <2>1. GoesOn(fr) /\ SameBusy
    BY <1>0, <1>2, StepMiss
  <2>2. mmap' = mmap
    BY <1>2 DEF MallocMiss
  <2> QED BY <1>a, <2>1, <2>2
<1>3. ASSUME NEW p \in DOMAIN held \ {saved.mm + HDR}, Free(p) PROVE RacesOn(fr)
  <2>1. GoesOn(fr) /\ BusyIn(hdr', absorbed') = BusyIn(hdr, absorbed) \ {p - HDR}
    BY <1>0, <1>3, StepFree
  <2>2. mmap' = mmap
    BY <1>3 DEF Free
  <2>3. p \in Nat /\ p # saved.mm + HDR
    BY <1>0 DEF Going, Mem, Holds
  <2>4. saved.mm # p - HDR
    BY <2>3 DEF HDR
  <2>5. saved.mm \in BusyIn(hdr, absorbed) => saved.mm \in BusyIn(hdr', absorbed')
    BY <2>1, <2>4
  <2> QED BY <1>0, <2>1, <2>2, <2>5, IsrOnward
<1>4. ASSUME CleanTake \/ CleanUnite \/ CleanPut \/ CleanDone PROVE RacesOn(fr)
  <2>1. GoesOn(fr) /\ SameBusy
    BY <1>0, <1>4, StepTake, StepUnite, StepPut, StepDone
  <2>2. mmap' = mmap
    BY <1>4 DEF CleanTake, CleanUnite, CleanPut, CleanDone
  <2> QED BY <1>a, <2>1, <2>2
<1>5. ASSUME GrowHit PROVE RacesOn(fr)
  BY <1>0, <1>5, <1>b, StepGrowHit
<1>6. ASSUME GrowPage PROVE \E x : RacesOn(x)
  <2>1. PICK f \in 1 .. Frames : f \notin mmap /\ mmap' = mmap \cup {f} /\ GoesOn(fr \cup {f})
    BY <1>0, <1>6, StepPage
  <2>2. BusyIn(hdr', absorbed') = BusyIn(hdr, absorbed)
    BY <1>0, <1>6, StepPage DEF SameBusy
  <2>3. ASSUME Fresh(mmap, fr, saved.mm) PROVE Fresh(mmap', fr \cup {f}, saved.mm)
    BY <2>1, <2>3 DEF Fresh
  <2>4. Waits(saved, mmap', fr \cup {f}, BusyIn(hdr', absorbed'))
    BY <1>0, <2>2, <2>3 DEF Waits
  <2>5. fr \cup {f} \subseteq mmap'
    BY <1>0, <2>1
  <2>6. RacesOn(fr \cup {f})
    BY <1>0, <2>1, <2>4, <2>5 DEF RacesOn, Race, GoesOn
  <2> QED BY <2>6
<1>7. ASSUME GetFreePageSpins PROVE RacesOn(fr)
  <2>1. UNCHANGED vars
    BY <1>7 DEF GetFreePageSpins
  <2>2. GoesOn(fr) /\ SameBusy
    BY <1>0, <2>1, StepIdle
  <2>3. mmap' = mmap
    BY <2>1 DEF vars
  <2> QED BY <1>a, <2>2, <2>3
<1> QED BY <1>1, <1>2, <1>3, <1>4, <1>5, <1>6, <1>7 DEF IsrStep, MallocStep

\* The handler returns: the thread is where it was.
LEMMA RaceIret ==
  ASSUME NEW fr, Racing(fr), Iret
  PROVE  RacesOn(fr)
<1>1. /\ saved # NoContext /\ pc = "idle" /\ pc' = saved.pc /\ req' = saved.req /\ mm' = saved.mm
      /\ nextm' = saved.nextm /\ saved' = NoContext
      /\ hdr' = hdr /\ mmList' = mmList /\ mmap' = mmap /\ absorbed' = absorbed /\ held' = held
  BY DEF Iret, InIsr
<1>2. /\ fr \subseteq mmap /\ Mem(hdr, absorbed, fr, held) /\ mmList = SENTINEL
      /\ absorbed = {} /\ ListOf(hdr) /\ Waits(saved, mmap, fr, BusyIn(hdr, absorbed))
  BY <1>1 DEF Racing, Race, Steps
<1>3. saved.nextm = NULL
  BY <1>2 DEF Waits
<1>4. CASE saved.pc \in {"idle", "grow"}
  <2>1. Steps(hdr, absorbed, saved.pc, saved.req, saved.mm, NULL)
    BY <1>2, <1>4 DEF Steps, Waits
  <2> QED BY <1>1, <1>2, <1>3, <2>1 DEF RacesOn, Race
<1>5. CASE saved.pc \in {"full", "page", "merged"}
  <2>1. Halfway(mmap, fr, hdr, held, saved.pc, saved.req, saved.mm, NULL)
    BY <1>2, <1>5 DEF Halfway, Waits
  <2> QED BY <1>1, <1>2, <1>3, <2>1 DEF RacesOn, Race
<1> QED BY <1>2, <1>4, <1>5 DEF Waits

\* Every step keeps the invariant.
LEMMA RaceNextInv == RaceInv /\ [RaceNext]_allvars => RaceInv'
<1> SUFFICES ASSUME RaceInv, [RaceNext]_allvars PROVE RaceInv'
  OBVIOUS
<1>0. ASSUME \E x : RacesOn(x) PROVE RaceInv'
  BY <1>0 DEF RaceInv, RacesOn, Racing
<1>1. CASE UNCHANGED allvars
  <2>1. /\ hdr' = hdr /\ mmList' = mmList /\ mmap' = mmap /\ pc' = pc /\ req' = req /\ mm' = mm
        /\ nextm' = nextm /\ absorbed' = absorbed /\ held' = held /\ saved' = saved /\ torn' = torn
    BY <1>1 DEF allvars, vars
  <2>2. CASE torn
    BY <2>1, <2>2 DEF RaceInv
  <2>3. CASE ~torn
    <3>1. PICK fr : Racing(fr)
      BY <2>3 DEF RaceInv
    <3>2. RacesOn(fr)
      BY <2>1, <3>1 DEF RacesOn, Racing
    <3> QED BY <1>0, <3>2
  <2> QED BY <2>2, <2>3
<1>2. CASE RaceNext
  <2>1. ~torn
    BY <1>2 DEF RaceNext
  <2>2. PICK fr : Racing(fr)
    BY <2>1 DEF RaceInv
  <2>3. CASE ~InIsr /\ ThreadStep /\ UNCHANGED <<saved, torn>>
    BY <1>0, <2>2, <2>3, RaceThread DEF InIsr
  <2>4. CASE Interrupt
    <3>1. CASE pc \in HalfDone
      <4>1. torn'
        BY <2>4, <3>1 DEF Interrupt
      <4> QED BY <4>1 DEF RaceInv
    <3>2. CASE pc \notin HalfDone
      BY <1>0, <2>2, <2>4, <3>2, RaceInterrupt
    <3> QED BY <3>1, <3>2
  <2>5. CASE IsrStep
    BY <1>0, <2>2, <2>5, RaceIsr
  <2>6. CASE Iret
    BY <1>0, <2>2, <2>6, RaceIret
  <2> QED BY <1>2, <2>3, <2>4, <2>5, <2>6 DEF RaceNext
<1> QED BY <1>1, <1>2

\* The invariant gives what HarmOnlyHalfDone says.
LEMMA SoundHolds ==
  ASSUME NEW fr, Racing(fr)
  PROVE  Sound
<1> DEFINE F == FreeIn(hdr, absorbed)
           H == InHand(Context) \cup InHand(saved)
<1>1. /\ Mem(hdr, absorbed, fr, held) /\ mmList = SENTINEL /\ IsHeap(hdr)
      /\ IF saved = NoContext
         THEN \/ Steps(hdr, absorbed, pc, req, mm, nextm)
              \/ absorbed = {} /\ Halfway(mmap, fr, hdr, held, pc, req, mm, nextm)
         ELSE /\ Steps(hdr, absorbed, pc, req, mm, nextm)
              /\ Waits(saved, mmap, fr, BusyIn(hdr, absorbed))
  BY DEF Racing, Race, Mem
<1>2. /\ {a \in Live : hdr[a].state = "FREE"} = F /\ Live = Blocks(hdr, absorbed)
      /\ \A a \in BusyIn(hdr, absorbed) : a \in Live /\ hdr[a].state = "BUSY"
  BY DEF Live, FreeIn, BusyIn, Blocks
<1>3. /\ Context.pc = pc /\ Context.req = req /\ Context.mm = mm /\ Context.nextm = nextm
  BY DEF Context
<1>4. /\ saved.pc \notin {"find", "refind", "found", "taken", "clean", "unite", "adding", "uniting", "freeing"}
      /\ saved.pc = "merged" => saved.mm \in BusyIn(hdr, absorbed)
  <2>1. CASE saved = NoContext
    BY <2>1 DEF NoContext
  <2>2. CASE saved # NoContext
    BY <1>1, <2>2 DEF Waits
  <2> QED BY <2>1, <2>2
<1>5. PointersGood(saved)
  BY <1>2, <1>4 DEF PointersGood
<1>6. InHand(saved) = {} /\ InHand(Context) = IF pc \in {"taken", "unite", "freeing"} THEN {mm} ELSE {}
  BY <1>3, <1>4 DEF InHand
<1>7. H = IF pc \in {"taken", "unite", "freeing"} THEN {mm} ELSE {}
  BY <1>6
<1> HIDE DEF H
<1>8. HeldIntact
  BY <1>1, HeldHolds
<1>9. CASE Steps(hdr, absorbed, pc, req, mm, nextm)
  <2>1. Going(fr)
    BY <1>1, <1>9 DEF Going
  <2>2. pc \in {"idle", "clean", "unite", "grow"}
    BY <1>9 DEF Steps
  <2>3. ListExact(H)
    BY <1>7, <2>1, <2>2, ExactHolds
  <2>4. pc = "unite" => mm \in F /\ nextm \in F \cup absorbed \cup {SENTINEL}
    <3> SUFFICES ASSUME pc = "unite" PROVE mm \in F /\ nextm \in F \cup absorbed \cup {SENTINEL}
      OBVIOUS
    <3>1. UniteAt(hdr, absorbed, mm, nextm)
      BY <1>9 DEF Steps
    <3>2. PICK p, n, c : UnitePos(hdr, absorbed, mm, nextm, p, n, c)
      BY <3>1 DEF UniteAt
    <3>3. OnList(hdr, p, n, {SENTINEL} \cup (F \ {mm})) /\ n \in Nat /\ c \in 1 .. n
      BY <3>2 DEF UnitePos, OnList, Chain
    <3>4. c - 1 \in 0 .. n - 1
      BY <3>3
    <3>5. p[c - 1] \in F \cup {SENTINEL}
      BY <3>3, <3>4 DEF OnList
    <3> QED BY <3>1, <3>2, <3>5 DEF UniteAt, UnitePos
  <2>5. pc = "clean" => mm \in F \cup {NULL}
    <3> SUFFICES ASSUME pc = "clean" PROVE mm \in F \cup {NULL}
      OBVIOUS
    <3>1. CleanAt(hdr, mm) /\ absorbed = {}
      BY <1>9 DEF Steps
    <3>2. PICK p, n, c : CleanPos(hdr, mm, p, n, c)
      BY <3>1 DEF CleanAt
    <3>3. OnList(hdr, p, n, {SENTINEL} \cup F) /\ n \in Nat /\ c \in 1 .. n /\ mm = NodeAt(p, n, c)
      BY <3>1, <3>2 DEF CleanPos, OnList, Chain
    <3>4. c < n => c \in 0 .. n - 1 /\ 0 \in 0 .. n - 1 /\ c # 0
      BY <3>3
    <3>5. c < n => p[c] \in F
      BY <3>3, <3>4 DEF OnList, Chain
    <3> QED BY <3>3, <3>5 DEF NodeAt
  <2>6. PointersGood(Context)
    BY <1>2, <1>3, <2>2, <2>4, <2>5 DEF PointersGood
  <2> QED BY <1>5, <1>8, <2>3, <2>6 DEF Sound, H
<1>10. CASE absorbed = {} /\ Halfway(mmap, fr, hdr, held, pc, req, mm, nextm)
  <2>1. /\ pc \in {"find", "refind", "found", "taken", "full", "page", "adding", "uniting", "merged", "freeing"}
        /\ pc \notin {"taken", "freeing"} => ListOf(hdr)
        /\ pc \in {"find", "refind"} => mm \in F \cup {SENTINEL, NULL}
        /\ pc = "adding" => nextm \in F \cup {SENTINEL} /\ hdr[nextm].size < PAGE - HDR
        /\ pc = "uniting" => mm \in BusyIn(hdr, absorbed) /\ swallowed(hdr, mm) = Meant(nextm)
        /\ pc \in {"taken", "freeing"} => Loose(hdr, fr, held, mm)
        /\ pc = "found" => mm \in F /\ Round4(req) <= hdr[mm].size /\ req \in Requests
        /\ pc = "merged" => mm \in BusyIn(hdr, absorbed)
    BY <1>10 DEF Halfway
  <2>2. CASE pc \in {"taken", "freeing"}
    <3>1. PICK q, l : OffList(hdr, hdr, fr, held, mm, q, l)
      BY <2>1, <2>2 DEF Loose
    <3>2. mm \in F /\ OnList(hdr, q, l, ({SENTINEL} \cup F) \ {mm})
      BY <1>10, <3>1 DEF OffList
    <3>3. ({SENTINEL} \cup F) \ {mm} = {SENTINEL} \cup (F \ {mm})
      BY <3>2 DEF FreeIn, Blocks
    <3>4. OnList(hdr, q, l, {SENTINEL} \cup (F \ {mm}))
      BY <3>2, <3>3
    <3>5. ListExact({mm})
      BY <1>1, <3>4, ExactList
    <3>6. PointersGood(Context)
      BY <1>2, <1>3, <2>2, <3>2 DEF PointersGood
    <3>7. ListExact(H)
      BY <1>7, <2>2, <3>5
    <3> QED BY <1>5, <1>8, <3>6, <3>7 DEF Sound, H
  <2>3. CASE pc \notin {"taken", "freeing"}
    <3>1. PICK p, n : OnList(hdr, p, n, {SENTINEL} \cup FreeIn(hdr, {}))
      BY <2>1, <2>3 DEF ListOf
    <3>2. OnList(hdr, p, n, {SENTINEL} \cup (FreeIn(hdr, absorbed) \ {}))
      BY <1>10, <3>1
    <3>3. ListExact({})
      BY <1>1, <3>2, ExactList
    <3>4. ListExact(H)
      BY <1>7, <2>1, <2>3, <3>3
    <3>5. pc = "found" => hdr[mm].size >= Round4(req)
      <4> SUFFICES ASSUME pc = "found" PROVE hdr[mm].size >= Round4(req)
        OBVIOUS
      <4>1. mm \in DOMAIN hdr /\ Round4(req) <= hdr[mm].size /\ Round4(req) \in Nat
        BY <2>1, Rounded DEF FreeIn, Blocks
      <4>2. hdr[mm].size \in Nat
        BY <1>1, <4>1 DEF IsHeap, Header
      <4> QED BY <4>1, <4>2
    <3>7. pc = "uniting" => nextm \in F \cup {NULL}
      <4> SUFFICES ASSUME pc = "uniting", nextm # NULL PROVE nextm \in F
        OBVIOUS
      <4>1. swallowed(hdr, mm) = {nextm} /\ mm \in BusyIn(hdr, {})
        BY <1>10, <2>1 DEF Meant
      <4>2. mm \in Blocks(hdr, {}) /\ Mem(hdr, {}, fr, held) /\ Stop(hdr, mm) \notin {}
        BY <1>1, <1>10, <4>1 DEF BusyIn
      <4>3. ~Closed(hdr, {}, mm) /\ nextm = Stop(hdr, mm)
        BY <4>1, <4>2, Swallows
      <4> QED BY <1>10, <4>3 DEF Closed, FreeIn
    <3>6. PointersGood(Context)
      BY <1>2, <1>3, <2>1, <2>3, <3>5, <3>7 DEF PointersGood
    <3> QED BY <1>5, <1>8, <3>4, <3>6 DEF Sound, H
  <2> QED BY <2>1, <2>2, <2>3
<1> QED BY <1>1, <1>9, <1>10

\* Between calls, with nothing in memory, the invariant holds.
LEMMA RaceInitInv == RaceInit => RaceInv
<1> SUFFICES ASSUME RaceInit PROVE \E fr : Racing(fr)
  BY DEF RaceInv
<1>1. Going(mmap) /\ saved = NoContext /\ mmap \subseteq mmap
  BY InitInv DEF RaceInit, Inv
<1>2. Racing(mmap)
  BY <1>1 DEF Racing, Race, Going
<1> QED BY <1>2

(***************************************************************************)
(* What the interrupt handler's malloc and free may do to the thread's:    *)
(* an interrupt between calls, after clean(), after find has failed again, *)
(* with a page that is taken and add not yet called for it, or in free     *)
(* after unite leaves the free list exact, every held block intact and     *)
(* every pointer the thread goes on with good; so damage needs an          *)
(* interrupt at a point of HalfDone.  For every number of frames, page     *)
(* size and set of requests, and however many interrupts come.             *)
(***************************************************************************)
THEOREM OnlyHalfDoneHarms == RaceSpec => []HarmOnlyHalfDone
<1>1. RaceInv => HarmOnlyHalfDone
  BY SoundHolds DEF RaceInv, HarmOnlyHalfDone
<1> QED BY <1>1, RaceInitInv, RaceNextInv, PTL DEF RaceSpec

=============================================================================
