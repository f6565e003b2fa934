----------------------------- MODULE MmHeapProofs -----------------------------
(* The allocator's heap is well formed, for every heap size, number of lists *)
(* and request: its blocks follow one another with equal tags at both ends,  *)
(* no two free ones touch, and each of them is in the ring of its size.      *)
EXTENDS MmHeap, FiniteSetTheorems, WellFoundedInduction, TLAPS

Mem == [0..(MaxHeap - 1) -> Int]

Start == 2 * LIST_NUM + 4

Heads == {2 * i : i \in 0..(LIST_NUM - 1)}

(* The blocks S with the sizes z lie one behind the other from Start to b.   *)
Tiled(S, z, b) ==
  /\ b \in Nat /\ b <= MaxHeap /\ b % 2 = 0 /\ Start <= b
  /\ z \in [S -> Nat]
  /\ \A p \in S : p \in Nat /\ p % 2 = 0 /\ Start <= p /\ z[p] % 2 = 0 /\ z[p] >= 4 /\ p + z[p] <= b
  /\ \A p \in S : p + z[p] = b \/ p + z[p] \in S
  /\ \A p \in S \cup {b} : p = Start \/ \E q \in S : q + z[q] = p
  /\ \A p, q \in S : p < q => p + z[p] <= q

TagOf(z, F, p) == PACK(z[p], IF p \in F THEN FREE ELSE ALLOC)

(* Each block has its tag at both ends, F being the free ones.               *)
Tagged(M, S, z, F, b) ==
  /\ \A p \in S : M[p - 1] = TagOf(z, F, p) /\ M[p + z[p] - 2] = TagOf(z, F, p)
  /\ M[Start - 3] = PACK(2, ALLOC) /\ M[Start - 2] = PACK(2, ALLOC) /\ M[b - 1] = PACK(0, ALLOC)

(* The list a node belongs to: a head, or a block of the size z[x].          *)
ListOf(z, x) == IF x \in Heads THEN x \div 2 ELSE list_index(z[x])

(* The nodes N are linked in rings, both ways, each within one list.         *)
Rings(M, N, list) ==
  \A x \in N : /\ M[x] \in N /\ M[x + 1] \in N
               /\ M[M[x] + 1] = x /\ M[M[x + 1]] = x
               /\ list[M[x]] = list[x]

(* Every ring goes through a head: following the links leads out of L.       *)
NoLoops(M, L) == \A C \in SUBSET L : (\A x \in C : M[x] \in C) => C = {}

(* No two blocks of L touch.                                                 *)
Apart(L, z) == \A p \in L : p + z[p] \notin L

Linked(M, L, z) ==
  Rings(M, L \cup Heads, [x \in L \cup Heads |-> ListOf(z, x)]) /\ NoLoops(M, L) /\ Apart(L, z)

(* The whole: S are the blocks with the sizes z, F the free ones, and L those *)
(* of them that are linked.                                                  *)
Work(M, S, z, F, L, b) ==
  M \in Mem /\ F \subseteq S /\ L \subseteq F /\ Tiled(S, z, b) /\ Tagged(M, S, z, F, b) /\ Linked(M, L, z)

Enough(n, size) == 4 * (size - 2) >= n

(* The caller holds the blocks that are not free, each with room for what it *)
(* asked for.                                                                *)
Owns(H, h, S, z, F) ==
  /\ Work(H.mem, S, z, F, F, H.brk) /\ DOMAIN h = S \ F
  /\ \A p \in DOMAIN h : h[p] \in Requests /\ Enough(h[p], z[p])

IsHeap(H) == H = [mem |-> H.mem, brk |-> H.brk]

HeapInv ==
  /\ IsHeap(heap) /\ held = [p \in DOMAIN held |-> held[p]]
  /\ \E S, z, F : Owns(heap, held, S, z, F)

-------------------------------------------------------------------------------
(* Numbers.                                                                  *)

\* What GET_SIZE and GET_ALLOC take from a packed word.
LEMMA Unpacks ==
  ASSUME NEW n \in Nat, n % 2 = 0, NEW a \in {FREE, ALLOC}
  PROVE  PACK(n, a) \in Nat /\ PACK(n, a) % 2 = a /\ PACK(n, a) - (PACK(n, a) % 2) = n
BY DEF PACK, FREE, ALLOC

\* Steps of two.
LEMMA Evens ==
  ASSUME NEW m \in Int, NEW n \in Int, m % 2 = 0, n % 2 = 0
  PROVE  (m + n) % 2 = 0 /\ (m - n) % 2 = 0 /\ m + 1 # n
OBVIOUS

\* The list of a size is one of the table.
LEMMA ListInTable ==
  ASSUME NEW size
  PROVE  list_index(size) \in 0..(LIST_NUM - 1)
<1>1. LIST_NUM \in Nat \ {0}
  BY MmHeapAssumption
<1> DEFINE I == 0..(LIST_NUM - 2)
           S == {i \in I : size >= 4 * 2^i}
<1>2. IsFiniteSet(I) /\ Cardinality(I) = LIST_NUM - 1
  <2>1. CASE LIST_NUM = 1
    <3>1. I = {}
      BY <2>1
    <3> QED
      BY <2>1, <3>1, FS_EmptySet
  <2>2. CASE LIST_NUM # 1
    <3>1. IsFiniteSet(0..(LIST_NUM - 2)) /\ Cardinality(0..(LIST_NUM - 2)) = (LIST_NUM - 2) - 0 + 1
      BY <1>1, <2>2, FS_Interval
    <3> QED
      BY <1>1, <3>1
  <2> QED
    BY <2>1, <2>2
<1>3. S \subseteq I
  OBVIOUS
<1> HIDE DEF I, S
<1>4. IsFiniteSet(S) /\ Cardinality(S) <= Cardinality(I)
  BY <1>2, <1>3, FS_Subset
<1>5. Cardinality(S) \in Nat
  BY <1>4, FS_CardinalityType
<1>6. list_index(size) = Cardinality(S)
  BY DEF list_index, S, I
<1> QED
  BY <1>1, <1>2, <1>4, <1>5, <1>6

\* The heads are even words below the first block.
LEMMA HeadsAre ==
  /\ Start \in Nat /\ Start % 2 = 0 /\ Start >= 6
  /\ \A h \in Heads : h \in Nat /\ h % 2 = 0 /\ h + 2 <= Start - 4 /\ h \div 2 \in 0..(LIST_NUM - 1)
                     /\ h = ListHead(h \div 2)
  /\ \A i \in 0..(LIST_NUM - 1) : ListHead(i) \in Heads /\ ListHead(i) \div 2 = i
BY MmHeapAssumption DEF Start, Heads, ListHead
-------------------------------------------------------------------------------
(* The links.                                                                *)

\* Only words of W differ.
Same(M, D, W) == \A a \in 0..(MaxHeap - 1) : a \notin W => D[a] = M[a]

\* Places for links: an even word and the next one, in the heap.
Nodes(N) == \A x \in N : x \in Nat /\ x % 2 = 0 /\ x + 1 < MaxHeap

\* The words of some nodes.
Pairs(N) == N \cup {x + 1 : x \in N}

\* ins_free_blk writes four words.
LEMMA InsWrites ==
  ASSUME NEW M \in Mem, NEW N, Nodes(N), NEW list, Rings(M, N, list),
         NEW bp, bp \notin N, Nodes({bp}), NEW index, ListHead(index) \in N
  PROVE  \E D \in Mem : \E nx \in N :
           /\ D = ins_free_blk(M, bp, index) /\ nx = M[ListHead(index)]
           /\ D[bp] = nx /\ D[bp + 1] = ListHead(index) /\ D[ListHead(index)] = bp /\ D[nx + 1] = bp
           /\ Same(M, D, {bp, bp + 1, ListHead(index), nx + 1})
<1> DEFINE h == ListHead(index)
           nx == M[h]
           A == PUT(M, NEXT_SECT(bp), M[h])
           B == PUT(A, PREV_SECT(bp), A[PREV_SECT(A[NEXT_SECT(bp)])])
           C == PUT(B, h, bp)
           D == PUT(C, PREV_SECT(C[NEXT_SECT(bp)]), bp)
<1>0. D = ins_free_blk(M, bp, index)
  BY DEF ins_free_blk
<1>1. h \in N /\ nx \in N /\ M[nx + 1] = h
  BY DEF Rings
<1>2. /\ h \in Nat /\ nx \in Nat /\ bp \in Nat /\ h % 2 = 0 /\ nx % 2 = 0 /\ bp % 2 = 0
      /\ h + 1 < MaxHeap /\ nx + 1 < MaxHeap /\ bp + 1 < MaxHeap /\ bp # h /\ bp # nx
  BY <1>1 DEF Nodes
<1>3. /\ {h, h + 1, nx, nx + 1, bp, bp + 1} \subseteq 0..(MaxHeap - 1)
      /\ bp # nx + 1 /\ bp + 1 # nx + 1 /\ bp + 1 # h /\ h # nx + 1
  BY <1>2, MmHeapAssumption
<1> HIDE DEF h, nx
<1>4. A \in Mem /\ \A a \in 0..(MaxHeap - 1) : A[a] = IF a = bp THEN nx ELSE M[a]
  BY <1>2, <1>3 DEF PUT, NEXT_SECT, Mem, nx
<1> HIDE DEF A
<1>5. B \in Mem /\ \A a \in 0..(MaxHeap - 1) : B[a] = IF a = bp + 1 THEN h ELSE A[a]
  <2>1. A[PREV_SECT(A[NEXT_SECT(bp)])] = h
    BY <1>1, <1>3, <1>4 DEF PREV_SECT, NEXT_SECT
  <2> QED
    BY <1>2, <1>3, <1>4, <2>1 DEF PUT, PREV_SECT, Mem
<1> HIDE DEF B
<1>6. C \in Mem /\ \A a \in 0..(MaxHeap - 1) : C[a] = IF a = h THEN bp ELSE B[a]
  BY <1>2, <1>3, <1>5 DEF PUT, Mem
<1> HIDE DEF C
<1>7. D \in Mem /\ \A a \in 0..(MaxHeap - 1) : D[a] = IF a = nx + 1 THEN bp ELSE C[a]
  <2>1. C[NEXT_SECT(bp)] = nx
    BY <1>2, <1>3, <1>4, <1>5, <1>6 DEF NEXT_SECT
  <2> QED
    BY <1>2, <1>3, <1>6, <2>1 DEF PUT, PREV_SECT, Mem
<1> HIDE DEF D
<1>8. D[bp] = nx /\ D[bp + 1] = h /\ D[h] = bp /\ D[nx + 1] = bp
  BY <1>2, <1>3, <1>4, <1>5, <1>6, <1>7
<1>9. Same(M, D, {bp, bp + 1, h, nx + 1})
  BY <1>4, <1>5, <1>6, <1>7 DEF Same
<1>10. nx = M[h]
  BY DEF nx
<1> QED
  BY <1>0, <1>1, <1>7, <1>8, <1>9, <1>10 DEF h

\* A block at the front of the ring with the head h; and one that is passed by.
Inserted(M, D, N, bp, h) == D[bp] = M[h] /\ \A x \in N : D[x] = IF x = h THEN bp ELSE M[x]
Bypassed(M, D, N, bp) == \A x \in N : D[x] = IF M[x] = bp THEN M[bp] ELSE M[x]

\* ins_free_blk puts a block into the ring of its list.
LEMMA InsLinks ==
  ASSUME NEW M \in Mem, NEW N, Nodes(N), NEW list, Rings(M, N, list),
         NEW bp, bp \notin N, Nodes({bp}), NEW index, ListHead(index) \in N,
         list[bp] = list[ListHead(index)]
  PROVE  /\ ins_free_blk(M, bp, index) \in Mem
         /\ Rings(ins_free_blk(M, bp, index), N \cup {bp}, list)
         /\ Same(M, ins_free_blk(M, bp, index), Pairs(N \cup {bp}))
         /\ Inserted(M, ins_free_blk(M, bp, index), N, bp, ListHead(index))
<1>1. PICK D \in Mem, nx \in N :
           /\ D = ins_free_blk(M, bp, index) /\ nx = M[ListHead(index)]
           /\ D[bp] = nx /\ D[bp + 1] = ListHead(index) /\ D[ListHead(index)] = bp /\ D[nx + 1] = bp
           /\ Same(M, D, {bp, bp + 1, ListHead(index), nx + 1})
  BY InsWrites
<1>2. PICK h \in N : h = ListHead(index)
  OBVIOUS
<1>3. \A x \in N \cup {bp} : x \in Nat /\ x % 2 = 0 /\ x \in 0..(MaxHeap - 1) /\ x + 1 \in 0..(MaxHeap - 1)
  BY MmHeapAssumption DEF Nodes
<1>4. \A x \in N \cup {bp}, y \in N \cup {bp} : x # y + 1 /\ (x + 1 = y + 1 => x = y)
  <2> TAKE x \in N \cup {bp}, y \in N \cup {bp}
  <2>1. x \in Int /\ y \in Int /\ x % 2 = 0 /\ y % 2 = 0
    BY <1>3
  <2> QED
    BY <2>1, Evens
<1>5. \A x \in N : /\ D[x] = IF x = h THEN bp ELSE M[x]
                   /\ D[x + 1] = IF x = nx THEN bp ELSE M[x + 1]
  BY <1>1, <1>2, <1>3, <1>4 DEF Same
<1>6. /\ M[nx + 1] = h /\ M[h] = nx /\ list[nx] = list[h]
      /\ \A x \in N : /\ M[x] \in N /\ M[x + 1] \in N /\ M[M[x] + 1] = x /\ M[M[x + 1]] = x
                      /\ list[M[x]] = list[x]
  BY <1>1, <1>2 DEF Rings
<1>7. ASSUME NEW x \in N \cup {bp}
      PROVE  /\ D[x] \in N \cup {bp} /\ D[x + 1] \in N \cup {bp}
             /\ D[D[x] + 1] = x /\ D[D[x + 1]] = x /\ list[D[x]] = list[x]
  <2>1. CASE x = bp
    BY <1>1, <1>2, <1>6, <2>1
  <2>2. CASE x \in N
    <3>1. D[x] \in N \cup {bp} /\ D[D[x] + 1] = x /\ list[D[x]] = list[x]
      <4>1. CASE x = h
        BY <1>1, <1>2, <4>1
      <4>2. CASE x # h
        <5>1. D[x] = M[x] /\ M[x] \in N /\ M[M[x] + 1] = x
          BY <1>5, <1>6, <2>2, <4>2
        <5>2. M[x] # nx
          BY <1>6, <4>2, <5>1
        <5> QED
          BY <1>5, <1>6, <2>2, <5>1, <5>2
      <4> QED
        BY <4>1, <4>2
    <3>2. D[x + 1] \in N \cup {bp} /\ D[D[x + 1]] = x
      <4>1. CASE x = nx
        BY <1>1, <1>5, <4>1
      <4>2. CASE x # nx
        <5>1. D[x + 1] = M[x + 1] /\ M[x + 1] \in N /\ M[M[x + 1]] = x
          BY <1>5, <1>6, <2>2, <4>2
        <5>2. M[x + 1] # h
          BY <1>6, <4>2, <5>1
        <5> QED
          BY <1>5, <1>6, <2>2, <5>1, <5>2
      <4> QED
        BY <4>1, <4>2
    <3> QED
      BY <3>1, <3>2
  <2> QED
    BY <2>1, <2>2
<1>8. Same(M, D, Pairs(N \cup {bp}))
  <2>1. {bp, bp + 1, h, nx + 1} \subseteq Pairs(N \cup {bp})
    BY <1>1, <1>2 DEF Pairs
  <2> QED
    BY <1>1, <1>2, <2>1 DEF Same
<1>9. Rings(D, N \cup {bp}, list)
  BY <1>7 DEF Rings
<1>10. Inserted(M, D, N, bp, ListHead(index))
  BY <1>1, <1>2, <1>5, <1>6 DEF Inserted
<1> QED
  BY <1>1, <1>8, <1>9, <1>10

\* A ring with one more block still goes through its head.
LEMMA LoopsNotIn ==
  ASSUME NEW M, NEW D, NEW N, NEW L, NEW bp, NEW h, Inserted(M, D, N, bp, h), L \subseteq N, h \notin L, h \in N,
         bp \notin N, \A x \in N : M[x] \in N, NoLoops(M, L)
  PROVE  NoLoops(D, L \cup {bp})
<1> SUFFICES ASSUME NEW C \in SUBSET (L \cup {bp}), \A x \in C : D[x] \in C PROVE C = {}
  BY DEF NoLoops
<1> DEFINE B == C \ {bp}
<1>1. \A x \in B : M[x] \in B
  BY DEF Inserted
<1>2. B \in SUBSET L
  OBVIOUS
<1> HIDE DEF B
<1>3. B = {}
  BY <1>1, <1>2 DEF NoLoops
<1>4. bp \notin C
  BY <1>3 DEF B, Inserted
<1> QED
  BY <1>3, <1>4 DEF B

\* So does one with a block less.
LEMMA LoopsNotOut ==
  ASSUME NEW M, NEW D, NEW N, NEW L, NEW bp \in L, Bypassed(M, D, N, bp), L \subseteq N, NoLoops(M, L)
  PROVE  NoLoops(D, L \ {bp})
<1> SUFFICES ASSUME NEW C \in SUBSET (L \ {bp}), \A x \in C : D[x] \in C PROVE C = {}
  BY DEF NoLoops
<1>1. CASE \A x \in C : M[x] # bp
  <2>1. \A x \in C : M[x] \in C
    BY <1>1 DEF Bypassed
  <2> QED
    BY <2>1 DEF NoLoops
<1>2. CASE \E x \in C : M[x] = bp
  <2> DEFINE B == C \cup {bp}
  <2>1. M[bp] \in C
    BY <1>2 DEF Bypassed
  <2>2. \A x \in B : M[x] \in B
    BY <2>1 DEF Bypassed
  <2>3. B \in SUBSET L /\ B # {}
    OBVIOUS
  <2> HIDE DEF B
  <2> QED
    BY <2>2, <2>3 DEF NoLoops
<1> QED
  BY <1>1, <1>2

\* del_free_blk takes one out of it.
LEMMA DelLinks ==
  ASSUME NEW M \in Mem, NEW N, Nodes(N), NEW list, Rings(M, N, list), NEW bp \in N
  PROVE  /\ del_free_blk(M, bp) \in Mem
         /\ Rings(del_free_blk(M, bp), N \ {bp}, list)
         /\ Same(M, del_free_blk(M, bp), Pairs(N))
         /\ Bypassed(M, del_free_blk(M, bp), N, bp)
<1>1. PICK nx \in N : nx = M[bp]
  BY DEF Rings
<1>2. PICK pv \in N : pv = M[bp + 1]
  BY DEF Rings
<1>3. \A x \in N : x \in Nat /\ x % 2 = 0 /\ x \in 0..(MaxHeap - 1) /\ x + 1 \in 0..(MaxHeap - 1)
  BY MmHeapAssumption DEF Nodes
<1>4. \A x \in N, y \in N : x # y + 1 /\ (x + 1 = y + 1 => x = y)
  <2> TAKE x \in N, y \in N
  <2>1. x \in Int /\ y \in Int /\ x % 2 = 0 /\ y % 2 = 0
    BY <1>3
  <2> QED
    BY <2>1, Evens
<1> DEFINE A == PUT(M, nx + 1, pv)
           D == PUT(A, pv, nx)
<1>5. A \in Mem /\ \A a \in 0..(MaxHeap - 1) : A[a] = IF a = nx + 1 THEN pv ELSE M[a]
  BY <1>3 DEF PUT, Mem
<1> HIDE DEF A
<1>6. D \in Mem /\ \A a \in 0..(MaxHeap - 1) : D[a] = IF a = pv THEN nx ELSE A[a]
  BY <1>3, <1>5 DEF PUT, Mem
<1>7. D = del_free_blk(M, bp)
  <2>1. A[bp] = nx /\ A[bp + 1] = pv
    BY <1>1, <1>2, <1>3, <1>4, <1>5
  <2>2. A = PUT(M, PREV_SECT(M[NEXT_SECT(bp)]), M[PREV_SECT(bp)])
    BY <1>1, <1>2 DEF A, PREV_SECT, NEXT_SECT
  <2> QED
    BY <2>1, <2>2 DEF del_free_blk, PREV_SECT, NEXT_SECT
<1> HIDE DEF D
<1>8. \A x \in N : /\ D[x] = IF x = pv THEN nx ELSE M[x]
                   /\ D[x + 1] = IF x = nx THEN pv ELSE M[x + 1]
  BY <1>3, <1>4, <1>5, <1>6
<1>9. /\ M[nx + 1] = bp /\ M[pv] = bp /\ list[nx] = list[bp] /\ list[bp] = list[pv]
      /\ \A x \in N : /\ M[x] \in N /\ M[x + 1] \in N /\ M[M[x] + 1] = x /\ M[M[x + 1]] = x
                      /\ list[M[x]] = list[x]
  BY <1>1, <1>2 DEF Rings
<1>10. ASSUME NEW x \in N \ {bp}
       PROVE  /\ D[x] \in N \ {bp} /\ D[x + 1] \in N \ {bp}
              /\ D[D[x] + 1] = x /\ D[D[x + 1]] = x /\ list[D[x]] = list[x]
  <2>1. D[x] \in N \ {bp} /\ D[D[x] + 1] = x /\ list[D[x]] = list[x]
    <3>1. CASE x = pv
      <4>1. D[x] = nx /\ nx # bp
        BY <1>1, <1>2, <1>8, <1>9, <3>1
      <4> QED
        BY <1>8, <1>9, <3>1, <4>1
    <3>2. CASE x # pv
      <4>1. D[x] = M[x] /\ M[x] \in N /\ M[M[x] + 1] = x
        BY <1>8, <1>9, <3>2
      <4>2. M[x] # bp /\ M[x] # nx
        BY <1>2, <1>9, <3>2, <4>1
      <4> QED
        BY <1>8, <1>9, <4>1, <4>2
    <3> QED
      BY <3>1, <3>2
  <2>2. D[x + 1] \in N \ {bp} /\ D[D[x + 1]] = x
    <3>1. CASE x = nx
      <4>1. D[x + 1] = pv /\ pv # bp
        BY <1>1, <1>2, <1>8, <1>9, <3>1
      <4> QED
        BY <1>8, <1>9, <3>1, <4>1
    <3>2. CASE x # nx
      <4>1. D[x + 1] = M[x + 1] /\ M[x + 1] \in N /\ M[M[x + 1]] = x
        BY <1>8, <1>9, <3>2
      <4>2. M[x + 1] # bp /\ M[x + 1] # pv
        BY <1>1, <1>9, <3>2, <4>1
      <4> QED
        BY <1>8, <1>9, <4>1, <4>2
    <3> QED
      BY <3>1, <3>2
  <2> QED
    BY <2>1, <2>2
<1>11. Same(M, D, Pairs(N))
  <2>1. {pv, nx + 1} \subseteq Pairs(N)
    BY DEF Pairs
  <2> QED
    BY <1>5, <1>6, <2>1 DEF Same
<1>12. Rings(D, N \ {bp}, list)
  BY <1>10 DEF Rings
<1>13. Bypassed(M, D, N, bp)
  <2>1. ASSUME NEW x \in N PROVE D[x] = IF M[x] = bp THEN M[bp] ELSE M[x]
    <3>1. x = pv <=> M[x] = bp
      BY <1>2, <1>9, <2>1
    <3> QED
      BY <1>1, <1>8, <2>1, <3>1
  <2> QED
    BY <2>1 DEF Bypassed
<1> QED
  BY <1>6, <1>7, <1>11, <1>12, <1>13
-------------------------------------------------------------------------------
(* The blocks.                                                               *)

\* What Tiled says of one block.
LEMMA TileOf ==
  ASSUME NEW S, NEW z, NEW b, Tiled(S, z, b), NEW p \in S
  PROVE  /\ p \in Nat /\ p % 2 = 0 /\ Start <= p
         /\ z[p] \in Nat /\ z[p] % 2 = 0 /\ z[p] >= 4 /\ p + z[p] <= b
         /\ b \in Nat /\ b % 2 = 0 /\ b <= MaxHeap
         /\ p + z[p] = b \/ p + z[p] \in S
BY DEF Tiled

\* Two blocks do not overlap.
LEMMA TilesApart ==
  ASSUME NEW S, NEW z, NEW b, Tiled(S, z, b), NEW p \in S, NEW q \in S, p # q
  PROVE  p + z[p] <= q \/ q + z[q] <= p
<1>1. p \in Nat /\ q \in Nat
  BY DEF Tiled
<1>2. \A x, y \in S : x < y => x + z[x] <= y
  BY DEF Tiled
<1>3. CASE p < q
  BY <1>2, <1>3
<1>4. CASE q < p
  BY <1>2, <1>4
<1> QED
  BY <1>1, <1>3, <1>4

\* The words of blocks and heads that hold links.
LinkWords(L) == Pairs(L \cup Heads)

\* They are in the heap, two for each.
LEMMA LinksInHeap ==
  ASSUME NEW S, NEW z, NEW b, Tiled(S, z, b), NEW L \in SUBSET S
  PROVE  /\ Nodes(L \cup Heads)
         /\ \A x \in L \cup Heads : x \in LinkWords(L) /\ x + 1 \in LinkWords(L)
<1>1. b \in Nat /\ b <= MaxHeap /\ Start <= b
  BY DEF Tiled
<1>2. Nodes(L)
  <2> SUFFICES ASSUME NEW x \in L
               PROVE  x \in Nat /\ x % 2 = 0 /\ x + 1 < MaxHeap
    BY DEF Nodes
  <2>1. x \in Nat /\ x % 2 = 0 /\ z[x] \in Nat /\ z[x] >= 4 /\ x + z[x] <= b
    BY TileOf
  <2> QED
    BY <1>1, <2>1, MmHeapAssumption
<1>3. Nodes(Heads)
  <2> SUFFICES ASSUME NEW x \in Heads
               PROVE  x \in Nat /\ x % 2 = 0 /\ x + 1 < MaxHeap
    BY DEF Nodes
  <2>1. x \in Nat /\ x % 2 = 0 /\ x + 2 <= Start - 4 /\ Start \in Nat
    BY HeadsAre
  <2> QED
    BY <1>1, <2>1, MmHeapAssumption
<1> QED
  BY <1>2, <1>3 DEF Nodes, LinkWords, Pairs

\* The words of the tags of p and the words from p on up to its tag hold no link of another.
LEMMA LinksOutside ==
  ASSUME NEW S, NEW z, NEW b, Tiled(S, z, b), NEW p \in S, NEW L \in SUBSET S, p \notin L
  PROVE  \A a \in LinkWords(L) : a \notin (p - 1)..(p + z[p] - 2)
<1>1. /\ p \in Nat /\ p % 2 = 0 /\ Start <= p /\ Start \in Nat /\ z[p] \in Nat /\ z[p] >= 4
  BY TileOf, HeadsAre
<1>2. ASSUME NEW x \in L PROVE x \in Nat /\ (x + 2 <= p - 2 \/ x >= p + z[p])
  <2>1. x \in S /\ x # p
    OBVIOUS
  <2>2. x \in Nat /\ z[x] \in Nat /\ z[x] >= 4
    BY <2>1, TileOf
  <2>3. p + z[p] <= x \/ x + z[x] <= p
    BY <2>1, TilesApart
  <2> QED
    BY <1>1, <2>2, <2>3
<1>3. ASSUME NEW x \in Heads PROVE x \in Nat /\ x + 2 <= p - 2
  <2>1. x \in Nat /\ x + 2 <= Start - 4
    BY HeadsAre
  <2> QED
    BY <1>1, <2>1
<1>4. ASSUME NEW a \in LinkWords(L) PROVE a \notin (p - 1)..(p + z[p] - 2)
  <2>1. PICK x \in L \cup Heads : a = x \/ a = x + 1
    BY DEF LinkWords, Pairs
  <2>2. x \in Nat /\ (x + 2 <= p - 2 \/ x >= p + z[p])
    BY <1>2, <1>3
  <2> QED
    BY <1>1, <2>1, <2>2
<1> QED
  BY <1>4

\* No tag is a link.
LEMMA TagsNoLinks ==
  ASSUME NEW S, NEW z, NEW b, Tiled(S, z, b), NEW L \in SUBSET S
  PROVE  /\ \A p \in S : p - 1 \notin LinkWords(L) /\ p + z[p] - 2 \notin LinkWords(L)
         /\ {Start - 3, Start - 2, b - 1} \cap LinkWords(L) = {}
<1>1. Start \in Nat /\ b \in Nat /\ Start <= b
  BY HeadsAre DEF Tiled
<1>2. ASSUME NEW a \in LinkWords(L)
      PROVE  a \in Nat /\ \E x \in L \cup Heads : x \in Nat /\ x % 2 = 0 /\ (a = x \/ a = x + 1)
                                       /\ (x \in Heads => x + 2 <= Start - 4)
  <2>1. PICK x \in L \cup Heads : a = x \/ a = x + 1
    BY DEF LinkWords, Pairs
  <2>2. x \in Nat /\ x % 2 = 0
    BY LinksInHeap DEF Nodes
  <2>3. x \in Heads => x + 2 <= Start - 4
    BY HeadsAre
  <2> QED
    BY <2>1, <2>2, <2>3
<1>3. ASSUME NEW p \in S, NEW a \in LinkWords(L) PROVE a # p - 1 /\ a # p + z[p] - 2
  <2>1. PICK x \in L \cup Heads : x \in Nat /\ (a = x \/ a = x + 1) /\ (x \in Heads => x + 2 <= Start - 4)
    BY <1>2
  <2>2. p \in Nat /\ Start <= p /\ z[p] \in Nat /\ z[p] >= 4
    BY TileOf
  <2>3. CASE x \in Heads
    BY <1>1, <2>1, <2>2, <2>3
  <2>4. CASE x \in L /\ x # p
    <3>1. x \in S
      BY <2>4
    <3>2. z[x] \in Nat /\ z[x] >= 4
      BY <3>1, TileOf
    <3>3. p + z[p] <= x \/ x + z[x] <= p
      BY <2>4, <3>1, TilesApart
    <3> QED
      BY <2>1, <2>2, <3>2, <3>3
  <2>5. CASE x = p
    BY <2>1, <2>2, <2>5
  <2> QED
    BY <2>3, <2>4, <2>5
<1>4. ASSUME NEW a \in LinkWords(L) PROVE a # Start - 3 /\ a # Start - 2 /\ a # b - 1
  <2>1. PICK x \in L \cup Heads : x \in Nat /\ (a = x \/ a = x + 1) /\ (x \in Heads => x + 2 <= Start - 4)
    BY <1>2
  <2>2. CASE x \in Heads
    BY <1>1, <2>1, <2>2
  <2>3. CASE x \in L
    <3>1. x \in S
      BY <2>3
    <3>2. z[x] \in Nat /\ z[x] >= 4 /\ x + z[x] <= b /\ Start <= x
      BY <3>1, TileOf
    <3> QED
      BY <1>1, <2>1, <3>2
  <2> QED
    BY <2>2, <2>3
<1> QED
  BY <1>3, <1>4
\* A block and the one behind it make a block.
LEMMA TilesMerged ==
  ASSUME NEW S, NEW z, NEW b, Tiled(S, z, b), NEW p \in S, NEW q \in S, q = p + z[p],
         NEW w \in [S \ {q} -> Nat], w[p] = z[p] + z[q], \A r \in S \ {p, q} : w[r] = z[r]
  PROVE  Tiled(S \ {q}, w, b)
<1> DEFINE T == S \ {q}
<1>1. /\ p \in Nat /\ p % 2 = 0 /\ Start <= p /\ z[p] \in Nat /\ z[p] % 2 = 0 /\ z[p] >= 4
      /\ z[q] \in Nat /\ z[q] % 2 = 0 /\ z[q] >= 4 /\ q + z[q] <= b /\ b \in Nat
  BY TileOf
<1>2. q # p /\ p \in T /\ w[p] \in Nat /\ w[p] % 2 = 0 /\ w[p] >= 4 /\ p + w[p] = q + z[q]
  <2>1. (z[p] + z[q]) % 2 = 0
    <3>1. z[p] \in Int /\ z[q] \in Int /\ z[p] % 2 = 0 /\ z[q] % 2 = 0
      BY <1>1
    <3> QED
      BY <3>1, Evens
  <2>2. w[p] % 2 = 0
    BY <2>1
  <2>3. q # p /\ p \in T
    BY <1>1
  <2>4. w[p] \in Nat /\ w[p] >= 4 /\ p + w[p] = q + z[q]
    BY <1>1
  <2> QED
    BY <2>2, <2>3, <2>4
<1>3. \A r \in T : r # p => w[r] = z[r]
  OBVIOUS
<1>4. \A r \in T : /\ r \in Nat /\ r % 2 = 0 /\ Start <= r /\ w[r] % 2 = 0 /\ w[r] >= 4 /\ r + w[r] <= b
  <2> TAKE r \in T
  <2>1. CASE r = p
    BY <1>1, <1>2, <2>1
  <2>2. CASE r # p
    BY <1>3, <2>2, TileOf
  <2> QED
    BY <2>1, <2>2
<1>5. \A r \in T : r + w[r] = b \/ r + w[r] \in T
  <2> TAKE r \in T
  <2>1. CASE r = p
    <3>1. q + z[q] = b \/ q + z[q] \in S
      BY TileOf
    <3>2. q + z[q] # q
      BY <1>1
    <3> QED
      BY <1>2, <2>1, <3>1, <3>2
  <2>2. CASE r # p
    <3>1. r \in S /\ w[r] = z[r]
      BY <1>3, <2>2
    <3>2. r + z[r] = b \/ r + z[r] \in S
      BY <3>1, TileOf
    <3>3. r \in Nat /\ z[r] \in Nat /\ z[r] >= 4
      BY <3>1, TileOf
    <3>4. p + z[p] <= r \/ r + z[r] <= p
      BY <2>2, <3>1, TilesApart
    <3>5. r + z[r] # q
      BY <1>1, <3>3, <3>4
    <3> QED
      BY <3>1, <3>2, <3>5
  <2> QED
    BY <2>1, <2>2
<1>6. \A r \in T \cup {b} : r = Start \/ \E x \in T : x + w[x] = r
  <2> TAKE r \in T \cup {b}
  <2>1. r = Start \/ \E x \in S : x + z[x] = r
    BY DEF Tiled
  <2>2. ASSUME NEW x \in S, x + z[x] = r PROVE \E y \in T : y + w[y] = r
    <3>1. CASE x = q
      BY <1>2, <2>2, <3>1
    <3>2. CASE x = p
      BY <1>1, <2>2, <3>2
    <3>3. CASE x # p /\ x # q
      BY <2>2, <3>3
    <3> QED
      BY <3>1, <3>2, <3>3
  <2> QED
    BY <2>1, <2>2
<1>7. \A r, x \in T : r < x => r + w[r] <= x
  <2> TAKE r, x \in T
  <2>1. CASE r = p
    <3>1. x \in S /\ x # q /\ x \in Nat /\ z[x] \in Nat /\ z[x] >= 4
      BY TileOf
    <3>2. q + z[q] <= x \/ x + z[x] <= q
      BY <3>1, TilesApart
    <3>3. x # p => p + z[p] <= x \/ x + z[x] <= p
      BY <3>1, TilesApart
    <3> QED
      BY <1>1, <1>2, <2>1, <3>1, <3>2, <3>3
  <2>2. CASE r # p
    <3>1. r < x => r + z[r] <= x
      BY DEF Tiled
    <3> QED
      BY <1>3, <2>2, <3>1
  <2> QED
    BY <2>1, <2>2
<1>8. b \in Nat /\ b <= MaxHeap /\ b % 2 = 0 /\ Start <= b
  BY DEF Tiled
<1> QED
  BY <1>4, <1>5, <1>6, <1>7, <1>8 DEF Tiled

\* A block is split in two.
LEMMA TilesSplit ==
  ASSUME NEW S, NEW z, NEW b, Tiled(S, z, b), NEW p \in S,
         NEW n \in Nat, n % 2 = 0, n >= 4, z[p] - n >= 4,
         NEW w \in [S \cup {p + n} -> Nat], w[p] = n, w[p + n] = z[p] - n,
         \A r \in S \ {p} : w[r] = z[r]
  PROVE  Tiled(S \cup {p + n}, w, b) /\ p + n \notin S
<1> DEFINE q == p + n
           T == S \cup {q}
<1>1. /\ p \in Nat /\ p % 2 = 0 /\ Start <= p /\ Start \in Nat /\ z[p] \in Nat /\ z[p] % 2 = 0 /\ z[p] >= 4
      /\ p + z[p] <= b /\ b \in Nat
  BY TileOf, HeadsAre
<1>2. ASSUME NEW r \in S, r # p PROVE r \in Nat /\ z[r] \in Nat /\ z[r] >= 4 /\ (p + z[p] <= r \/ r + z[r] <= p)
  BY <1>2, TileOf, TilesApart
<1>3. q \notin S
  <2> SUFFICES ASSUME q \in S PROVE FALSE
    OBVIOUS
  <2>1. q # p
    BY <1>1
  <2> QED
    BY <1>1, <1>2, <2>1
<1>4. /\ q \in Nat /\ q % 2 = 0 /\ Start <= q /\ w[q] \in Nat /\ w[q] % 2 = 0 /\ w[q] >= 4 /\ q + w[q] = p + z[p]
      /\ p + w[p] = q /\ q # p
  <2>1. (p + n) % 2 = 0 /\ (z[p] - n) % 2 = 0
    <3>1. p \in Int /\ z[p] \in Int /\ n \in Int /\ p % 2 = 0 /\ z[p] % 2 = 0 /\ n % 2 = 0
      BY <1>1
    <3> QED
      BY <3>1, Evens
  <2>2. q % 2 = 0 /\ w[q] % 2 = 0
    BY <2>1
  <2>3. q \in Nat /\ Start <= q /\ q # p /\ p + w[p] = q
    BY <1>1
  <2>4. w[q] \in Nat /\ w[q] >= 4 /\ q + w[q] = p + z[p]
    BY <1>1
  <2> QED
    BY <2>2, <2>3, <2>4
<1> HIDE DEF q
<1>5. \A r \in S : r # p => w[r] = z[r]
  OBVIOUS
<1>6. \A r \in T : /\ r \in Nat /\ r % 2 = 0 /\ Start <= r /\ w[r] % 2 = 0 /\ w[r] >= 4 /\ r + w[r] <= b
  <2> TAKE r \in T
  <2>1. CASE r = p
    BY <1>1, <1>4, <2>1
  <2>2. CASE r = q
    BY <1>1, <1>4, <2>2
  <2>3. CASE r # p /\ r # q
    BY <1>5, <2>3, TileOf
  <2> QED
    BY <2>1, <2>2, <2>3
<1>7. \A r \in T : r + w[r] = b \/ r + w[r] \in T
  <2> TAKE r \in T
  <2>1. CASE r = p
    BY <1>4, <2>1
  <2>2. CASE r = q
    BY <1>4, <2>2, TileOf
  <2>3. CASE r # p /\ r # q
    BY <1>5, <2>3, TileOf
  <2> QED
    BY <2>1, <2>2, <2>3
<1>8. \A r \in T \cup {b} : r = Start \/ \E x \in T : x + w[x] = r
  <2> TAKE r \in T \cup {b}
  <2>1. CASE r = q
    BY <1>4, <2>1
  <2>2. CASE r # q
    <3>1. r = Start \/ \E x \in S : x + z[x] = r
      BY <2>2 DEF Tiled
    <3>2. ASSUME NEW x \in S, x + z[x] = r PROVE \E y \in T : y + w[y] = r
      <4>1. CASE x = p
        BY <1>4, <3>2, <4>1
      <4>2. CASE x # p
        BY <1>5, <3>2, <4>2
      <4> QED
        BY <4>1, <4>2
    <3> QED
      BY <3>1, <3>2
  <2> QED
    BY <2>1, <2>2
<1>9. \A r, x \in T : r < x => r + w[r] <= x
  <2> TAKE r, x \in T
  <2>1. CASE r \in {p, q}
    <3>1. CASE x \in {p, q}
      BY <1>1, <1>4, <2>1, <3>1
    <3>2. CASE x \notin {p, q}
      <4>1. x \in Nat /\ z[x] \in Nat /\ z[x] >= 4 /\ (p + z[p] <= x \/ x + z[x] <= p)
        BY <1>2, <3>2
      <4> QED
        BY <1>1, <1>4, <2>1, <4>1
    <3> QED
      BY <3>1, <3>2
  <2>2. CASE r \notin {p, q}
    <3>1. r \in Nat /\ z[r] \in Nat /\ z[r] >= 4 /\ (p + z[p] <= r \/ r + z[r] <= p) /\ w[r] = z[r]
      BY <1>2, <1>5, <2>2
    <3>2. CASE x \in {p, q}
      BY <1>1, <1>4, <3>1, <3>2
    <3>3. CASE x \notin {p, q}
      BY <2>2, <3>1, <3>3 DEF Tiled
    <3> QED
      BY <3>2, <3>3
  <2> QED
    BY <2>1, <2>2
<1>10. b \in Nat /\ b <= MaxHeap /\ b % 2 = 0 /\ Start <= b
  BY DEF Tiled
<1> QED
  BY <1>3, <1>6, <1>7, <1>8, <1>9, <1>10 DEF Tiled, q

\* A block is added at the end.
LEMMA TilesExtended ==
  ASSUME NEW S, NEW z, NEW b, Tiled(S, z, b), NEW n \in Nat, n % 2 = 0, n >= 4, b + n <= MaxHeap,
         NEW w \in [S \cup {b} -> Nat], w[b] = n, \A r \in S : w[r] = z[r]
  PROVE  Tiled(S \cup {b}, w, b + n) /\ b \notin S
<1> DEFINE T == S \cup {b}
<1>1. b \in Nat /\ b <= MaxHeap /\ b % 2 = 0 /\ Start <= b
  BY DEF Tiled
<1>2. ASSUME NEW r \in S
      PROVE  /\ r \in Nat /\ r % 2 = 0 /\ Start <= r /\ w[r] = z[r] /\ z[r] \in Nat /\ z[r] % 2 = 0 /\ z[r] >= 4
             /\ r + z[r] <= b /\ (r + z[r] = b \/ r + z[r] \in S)
  BY TileOf
<1>3. b \notin S
  BY <1>1, <1>2
<1>4. \A r \in T : /\ r \in Nat /\ r % 2 = 0 /\ Start <= r /\ w[r] % 2 = 0 /\ w[r] >= 4 /\ r + w[r] <= b + n
  BY <1>1, <1>2
<1>5. \A r \in T : r + w[r] = b + n \/ r + w[r] \in T
  BY <1>2
<1>6. \A r \in T \cup {b + n} : r = Start \/ \E x \in T : x + w[x] = r
  <2> TAKE r \in T \cup {b + n}
  <2>1. CASE r = b + n
    BY <2>1
  <2>2. CASE r # b + n
    <3>1. r \in S \cup {b}
      BY <2>2
    <3>2. r = Start \/ \E x \in S : x + z[x] = r
      BY <3>1 DEF Tiled
    <3> QED
      BY <1>2, <3>2
  <2> QED
    BY <2>1, <2>2
<1>7. \A r, x \in T : r < x => r + w[r] <= x
  <2> TAKE r, x \in T
  <2>1. CASE r = b
    BY <1>1, <1>2, <2>1
  <2>2. CASE r \in S /\ x = b
    BY <1>2, <2>2
  <2>3. CASE r \in S /\ x \in S
    BY <1>2, <2>3 DEF Tiled
  <2> QED
    BY <2>1, <2>2, <2>3
<1>8. b + n \in Nat /\ (b + n) % 2 = 0 /\ Start <= b + n
  BY <1>1, Evens, HeadsAre
<1> QED
  BY <1>3, <1>4, <1>5, <1>6, <1>7, <1>8 DEF Tiled
-------------------------------------------------------------------------------
(* The tags.                                                                 *)

\* What is read of a tag.
LEMMA TagReads ==
  ASSUME NEW S, NEW z, NEW b, Tiled(S, z, b), NEW p \in S, NEW F
  PROVE  /\ TagOf(z, F, p) \in Nat
         /\ TagOf(z, F, p) % 2 = (IF p \in F THEN FREE ELSE ALLOC)
         /\ TagOf(z, F, p) - (TagOf(z, F, p) % 2) = z[p]
<1>1. z[p] \in Nat /\ z[p] % 2 = 0
  BY TileOf
<1>2. PICK n \in Nat : n = z[p]
  BY <1>1
<1>3. PICK a \in {FREE, ALLOC} : a = IF p \in F THEN FREE ELSE ALLOC
  OBVIOUS
<1>4. PACK(n, a) \in Nat /\ PACK(n, a) % 2 = a /\ PACK(n, a) - (PACK(n, a) % 2) = n
  BY <1>1, <1>2, Unpacks
<1>5. TagOf(z, F, p) = PACK(n, a)
  BY <1>2, <1>3 DEF TagOf
<1> QED
  BY <1>2, <1>3, <1>4, <1>5

\* The macros on a block.
LEMMA BlockReads ==
  ASSUME NEW M, NEW S, NEW z, NEW b, Tiled(S, z, b), NEW F, Tagged(M, S, z, F, b), NEW p \in S
  PROVE  /\ GET_SIZE(M, HDRP(p)) = z[p]
         /\ GET_ALLOC(M, HDRP(p)) = IF p \in F THEN FREE ELSE ALLOC
         /\ FTRP(M, p) = p + z[p] - 2 /\ NEXT_BLKP(M, p) = p + z[p]
         /\ GET_SIZE(M, FTRP(M, p)) = z[p]
         /\ GET_ALLOC(M, FTRP(M, p)) = IF p \in F THEN FREE ELSE ALLOC
<1>1. M[p - 1] = TagOf(z, F, p) /\ M[p + z[p] - 2] = TagOf(z, F, p)
  BY DEF Tagged
<1>2. GET_SIZE(M, p - 1) = z[p] /\ GET_ALLOC(M, p - 1) = IF p \in F THEN FREE ELSE ALLOC
  BY <1>1, TagReads DEF GET_SIZE, GET_ALLOC
<1>3. FTRP(M, p) = p + z[p] - 2 /\ NEXT_BLKP(M, p) = p + z[p]
  BY <1>2 DEF FTRP, NEXT_BLKP, HDRP
<1>4. GET_SIZE(M, p + z[p] - 2) = z[p] /\ GET_ALLOC(M, p + z[p] - 2) = IF p \in F THEN FREE ELSE ALLOC
  BY <1>1, TagReads DEF GET_SIZE, GET_ALLOC
<1> QED
  BY <1>2, <1>3, <1>4 DEF HDRP

\* The block before a block is free, or the prologue or a block in use.
LEMMA PrevReads ==
  ASSUME NEW M, NEW S, NEW z, NEW b, Tiled(S, z, b), NEW F \in SUBSET S, Tagged(M, S, z, F, b), NEW p \in S
  PROVE  \/ /\ GET_ALLOC(M, FTRP(M, PREV_BLKP(M, p))) = ALLOC
            /\ \A r \in F : r + z[r] # p
         \/ /\ GET_ALLOC(M, FTRP(M, PREV_BLKP(M, p))) # ALLOC
            /\ PREV_BLKP(M, p) \in F /\ PREV_BLKP(M, p) + z[PREV_BLKP(M, p)] = p
<1>1. p \in Nat /\ Start \in Nat
  BY TileOf, HeadsAre
<1>2. CASE p = Start
  <2>1. M[p - 2] = 3 /\ M[p - 3] = 3
    BY <1>2 DEF Tagged, PACK, ALLOC
  <2>2. PREV_BLKP(M, p) = p - 2
    BY <1>1, <2>1 DEF PREV_BLKP, GET_SIZE
  <2>3. FTRP(M, p - 2) = p - 2
    <3>1. p - 2 - 1 = p - 3
      BY <1>1
    <3> QED
      BY <1>1, <2>1, <3>1 DEF FTRP, GET_SIZE, HDRP
  <2>4. ASSUME NEW r \in F PROVE r + z[r] # p
    <3>1. r \in Nat /\ Start <= r /\ z[r] \in Nat /\ z[r] >= 4
      BY <2>4, TileOf
    <3> QED
      BY <1>1, <1>2, <3>1
  <2> QED
    BY <2>1, <2>2, <2>3, <2>4 DEF GET_ALLOC, ALLOC
<1>3. CASE p # Start
  <2>1. PICK q \in S : q + z[q] = p
    BY <1>3 DEF Tiled
  <2>2. /\ GET_SIZE(M, FTRP(M, q)) = z[q] /\ FTRP(M, q) = q + z[q] - 2
        /\ GET_ALLOC(M, FTRP(M, q)) = IF q \in F THEN FREE ELSE ALLOC
    BY BlockReads
  <2>3. q \in Nat /\ z[q] \in Nat
    BY TileOf
  <2>4. PREV_BLKP(M, p) = q
    BY <2>1, <2>2, <2>3 DEF PREV_BLKP
  <2>5. ASSUME NEW r \in F, r + z[r] = p PROVE r = q
    <3>1. r \in S /\ r # q => r + z[r] <= q \/ q + z[q] <= r
      BY <2>5, TilesApart
    <3>2. r \in S /\ r \in Nat /\ z[r] \in Nat /\ z[r] >= 4 /\ z[q] >= 4
      BY <2>5, TileOf
    <3> QED
      BY <2>1, <2>3, <2>5, <3>1, <3>2
  <2> QED
    BY <2>1, <2>2, <2>4, <2>5 DEF FREE, ALLOC
<1> QED
  BY <1>2, <1>3

\* And the block behind it, or the epilogue.
LEMMA NextReads ==
  ASSUME NEW M, NEW S, NEW z, NEW b, Tiled(S, z, b), NEW F \in SUBSET S, Tagged(M, S, z, F, b), NEW p \in S
  PROVE  /\ NEXT_BLKP(M, p) = p + z[p]
         /\ \/ GET_ALLOC(M, HDRP(NEXT_BLKP(M, p))) = ALLOC /\ NEXT_BLKP(M, p) \notin F
            \/ GET_ALLOC(M, HDRP(NEXT_BLKP(M, p))) # ALLOC /\ NEXT_BLKP(M, p) \in F
<1>1. NEXT_BLKP(M, p) = p + z[p] /\ (p + z[p] = b \/ p + z[p] \in S)
  BY BlockReads, TileOf
<1>2. CASE p + z[p] = b
  <2>1. b \notin F
    <3> SUFFICES ASSUME b \in F PROVE FALSE
      OBVIOUS
    <3>1. b \in Nat /\ z[b] \in Nat /\ z[b] >= 4 /\ b + z[b] <= b
      BY TileOf
    <3> QED
      BY <3>1
  <2> QED
    BY <1>1, <1>2, <2>1 DEF Tagged, HDRP, PACK, ALLOC, GET_ALLOC
<1>3. CASE p + z[p] \in S
  <2>1. GET_ALLOC(M, HDRP(p + z[p])) = IF p + z[p] \in F THEN FREE ELSE ALLOC
    BY <1>3, BlockReads
  <2> QED
    BY <1>1, <2>1 DEF FREE, ALLOC
<1> QED
  BY <1>1, <1>2, <1>3

\* The words of a block, with its tags; and those the caller gets.
Extent(z, p) == (p - 1)..(p + z[p] - 2)
Body(z, p) == p..(p + z[p] - 3)

\* They are in the heap.
LEMMA ExtentInHeap ==
  ASSUME NEW S, NEW z, NEW b, Tiled(S, z, b), NEW p \in S
  PROVE  /\ Extent(z, p) \subseteq 0..(MaxHeap - 1) /\ Extent(z, p) \subseteq Start - 1 .. b - 2
         /\ p - 1 \in Extent(z, p) /\ p + z[p] - 2 \in Extent(z, p) /\ p - 1 # p + z[p] - 2
         /\ Body(z, p) \subseteq Extent(z, p) /\ p - 1 \notin Body(z, p) /\ p + z[p] - 2 \notin Body(z, p)
         /\ p \in 0..(MaxHeap - 1)
<1>1. p \in Nat /\ Start <= p /\ Start >= 6 /\ Start \in Nat /\ z[p] \in Nat /\ z[p] >= 4 /\ p + z[p] <= b /\ b \in Nat /\ b <= MaxHeap
  BY TileOf, HeadsAre
<1>2. PICK n \in Nat : n = z[p]
  BY <1>1
<1> QED
  BY <1>1, <1>2, MmHeapAssumption DEF Extent, Body

\* No two blocks share a word.
LEMMA ExtentsApart ==
  ASSUME NEW S, NEW z, NEW b, Tiled(S, z, b), NEW p \in S, NEW q \in S, p # q
  PROVE  \A a \in Extent(z, p) : a \notin Extent(z, q)
<1>1. /\ p \in Nat /\ z[p] \in Nat /\ z[p] >= 4 /\ q \in Nat /\ z[q] \in Nat /\ z[q] >= 4
      /\ p + z[p] <= q \/ q + z[q] <= p
  BY TileOf, TilesApart
<1> QED
  BY <1>1 DEF Extent

\* Tags written to a block do not touch those of the others.
LEMMA Retagged ==
  ASSUME NEW S, NEW z, NEW b, Tiled(S, z, b), NEW R \in SUBSET S, NEW p \in S, p \notin R, NEW F,
         NEW M \in Mem, NEW D \in Mem, Tagged(M, R, z, F, b), Same(M, D, Extent(z, p)),
         D[p - 1] = TagOf(z, F, p), D[p + z[p] - 2] = TagOf(z, F, p)
  PROVE  Tagged(D, R \cup {p}, z, F, b)
<1>1. ASSUME NEW r \in R PROVE D[r - 1] = M[r - 1] /\ D[r + z[r] - 2] = M[r + z[r] - 2]
  <2>1. r \in S /\ r # p
    OBVIOUS
  <2>2. /\ r - 1 \in Extent(z, r) /\ r + z[r] - 2 \in Extent(z, r) /\ Extent(z, r) \subseteq 0..(MaxHeap - 1)
        /\ \A a \in Extent(z, r) : a \notin Extent(z, p)
    BY <2>1, ExtentInHeap, ExtentsApart
  <2> QED
    BY <2>2 DEF Same
<1>2. D[Start - 3] = M[Start - 3] /\ D[Start - 2] = M[Start - 2] /\ D[b - 1] = M[b - 1]
  <2>1. Start \in Nat /\ Start >= 6 /\ b \in Nat /\ Start <= b /\ b <= MaxHeap /\ MaxHeap \in Nat
    BY HeadsAre, MmHeapAssumption DEF Tiled
  <2>2. Extent(z, p) \subseteq Start - 1 .. b - 2
    BY ExtentInHeap
  <2>3. Start - 3 \notin Extent(z, p) /\ Start - 2 \notin Extent(z, p) /\ b - 1 \notin Extent(z, p)
    BY <2>1, <2>2
  <2> QED
    BY <2>1, <2>3 DEF Same
<1>3. \A r \in R : M[r - 1] = TagOf(z, F, r) /\ M[r + z[r] - 2] = TagOf(z, F, r)
  BY DEF Tagged
<1>4. M[Start - 3] = PACK(2, ALLOC) /\ M[Start - 2] = PACK(2, ALLOC) /\ M[b - 1] = PACK(0, ALLOC)
  BY DEF Tagged
<1> QED
  BY <1>1, <1>2, <1>3, <1>4 DEF Tagged

\* Nor do links.
LEMMA TagsStay ==
  ASSUME NEW S, NEW z, NEW b, Tiled(S, z, b), NEW L \in SUBSET S, NEW F,
         NEW M \in Mem, NEW D \in Mem, Tagged(M, S, z, F, b), Same(M, D, LinkWords(L))
  PROVE  Tagged(D, S, z, F, b)
<1>1. ASSUME NEW r \in S PROVE D[r - 1] = M[r - 1] /\ D[r + z[r] - 2] = M[r + z[r] - 2]
  <2>1. r - 1 \in 0..(MaxHeap - 1) /\ r + z[r] - 2 \in 0..(MaxHeap - 1)
    BY ExtentInHeap
  <2> QED
    BY <2>1, TagsNoLinks DEF Same
<1>2. D[Start - 3] = M[Start - 3] /\ D[Start - 2] = M[Start - 2] /\ D[b - 1] = M[b - 1]
  <2>1. Start \in Nat /\ Start >= 6 /\ b \in Nat /\ Start <= b /\ b <= MaxHeap /\ MaxHeap \in Nat
    BY HeadsAre, MmHeapAssumption DEF Tiled
  <2>2. {Start - 3, Start - 2, b - 1} \subseteq 0..(MaxHeap - 1)
    BY <2>1
  <2> QED
    BY <2>2, TagsNoLinks DEF Same
<1>3. \A r \in S : M[r - 1] = TagOf(z, F, r) /\ M[r + z[r] - 2] = TagOf(z, F, r)
  BY DEF Tagged
<1>4. M[Start - 3] = PACK(2, ALLOC) /\ M[Start - 2] = PACK(2, ALLOC) /\ M[b - 1] = PACK(0, ALLOC)
  BY DEF Tagged
<1> QED
  BY <1>1, <1>2, <1>3, <1>4 DEF Tagged

\* Links of other blocks stay when a block is written.
LEMMA LinksStay ==
  ASSUME NEW S, NEW z, NEW b, Tiled(S, z, b), NEW L \in SUBSET S, NEW y, \A x \in L : y[x] = z[x],
         NEW M \in Mem, NEW D \in Mem, Linked(M, L, y),
         \A a \in LinkWords(L) : D[a] = M[a]
  PROVE  Linked(D, L, z)
<1> DEFINE N == L \cup Heads
           f == [x \in N |-> ListOf(y, x)]
           g == [x \in N |-> ListOf(z, x)]
<1>1. f = g
  <2>1. L \cap Heads = {}
    <3> SUFFICES ASSUME NEW x \in L, x \in Heads PROVE FALSE
      OBVIOUS
    <3>1. x \in Nat /\ Start <= x /\ x + 2 <= Start - 4 /\ Start \in Nat
      BY TileOf, HeadsAre
    <3> QED
      BY <3>1
  <2>2. \A x \in N : ListOf(y, x) = ListOf(z, x)
    BY <2>1 DEF ListOf
  <2> QED
    BY <2>2
<1>2. \A x \in N : D[x] = M[x] /\ D[x + 1] = M[x + 1]
  BY LinksInHeap
<1> HIDE DEF N, f, g
<1>3. Rings(M, N, f)
  BY DEF Linked, N, f
<1>4. Rings(D, N, f)
  BY <1>2, <1>3 DEF Rings
<1>5. NoLoops(D, L)
  <2>1. \A x \in L : D[x] = M[x]
    BY <1>2 DEF N
  <2>2. NoLoops(M, L)
    BY DEF Linked
  <2> QED
    BY <2>1, <2>2 DEF NoLoops
<1>6. Apart(L, z)
  BY DEF Linked, Apart
<1> QED
  BY <1>1, <1>4, <1>5, <1>6 DEF Linked, N, g
-------------------------------------------------------------------------------
(* The heap while a function works on it: of the free blocks F those of L    *)
(* are in the lists.                                                         *)

\* What the callers of the blocks U see does not change.
Kept(M, D, z, U) == \A p \in U : \A a \in Body(z, p) : D[a] = M[a]

\* Links are not in the blocks in use.
LEMMA BodiesKept ==
  ASSUME NEW S, NEW z, NEW b, Tiled(S, z, b), NEW L \in SUBSET S, NEW U \in SUBSET (S \ L),
         NEW M, NEW D, Same(M, D, LinkWords(L))
  PROVE  Kept(M, D, z, U)
<1> SUFFICES ASSUME NEW p \in U, NEW a \in Body(z, p) PROVE D[a] = M[a]
  BY DEF Kept
<1>1. p \in S /\ p \notin L
  OBVIOUS
<1>2. a \in Extent(z, p) /\ a \in 0..(MaxHeap - 1)
  BY <1>1, ExtentInHeap
<1>3. \A x \in LinkWords(L) : x \notin (p - 1)..(p + z[p] - 2)
  BY <1>1, LinksOutside
<1> QED
  BY <1>2, <1>3 DEF Same, Extent

\* Blocks are not heads.
LEMMA NoHeads ==
  ASSUME NEW S, NEW z, NEW b, Tiled(S, z, b)
  PROVE  \A x \in S : x \notin Heads
<1> SUFFICES ASSUME NEW x \in S, x \in Heads PROVE FALSE
  OBVIOUS
<1>1. x \in Nat /\ Start <= x /\ x + 2 <= Start - 4 /\ Start \in Nat
  BY TileOf, HeadsAre
<1> QED
  BY <1>1

\* A block is taken out of its list.
LEMMA Unlinks ==
  ASSUME NEW M, NEW S, NEW z, NEW b, NEW F, NEW L, Work(M, S, z, F, L, b), NEW q \in L
  PROVE  /\ Work(del_free_blk(M, q), S, z, F, L \ {q}, b)
         /\ Same(M, del_free_blk(M, q), LinkWords(L))
<1> DEFINE N == L \cup Heads
           f == [x \in N |-> ListOf(z, x)]
           K == (L \ {q}) \cup Heads
           g == [x \in K |-> ListOf(z, x)]
<1>1. /\ M \in Mem /\ F \subseteq S /\ L \subseteq F /\ L \in SUBSET S /\ Tiled(S, z, b)
      /\ Tagged(M, S, z, F, b)
  BY DEF Work
<1>2. Nodes(N) /\ LinkWords(L) = Pairs(N)
  BY <1>1, LinksInHeap DEF LinkWords
<1>3. Rings(M, N, f)
  BY DEF Work, Linked
<1>4. K = N \ {q}
  BY <1>1, NoHeads
<1>5. \A x \in K : g[x] = f[x]
  OBVIOUS
<1>6. q \in N
  OBVIOUS
<1> HIDE DEF N, f, K, g
<1> DEFINE D == del_free_blk(M, q)
<1>7. D \in Mem /\ Rings(D, N \ {q}, f) /\ Same(M, D, Pairs(N)) /\ Bypassed(M, D, N, q)
  <2>1. M \in Mem /\ Nodes(N) /\ Rings(M, N, f) /\ q \in N
    BY <1>1, <1>2, <1>3, <1>6
  <2> QED
    BY <2>1, DelLinks
<1> HIDE DEF D
<1>8. Same(M, D, LinkWords(L))
  BY <1>2, <1>7
<1>9. Tagged(D, S, z, F, b)
  BY <1>1, <1>7, <1>8, TagsStay
<1>10. Rings(D, K, g)
  <2>1. Rings(D, K, f)
    BY <1>4, <1>7
  <2> QED
    BY <1>5, <2>1 DEF Rings
<1>11. NoLoops(D, L \ {q}) /\ Apart(L \ {q}, z)
  <2>1. NoLoops(M, L) /\ Apart(L, z)
    BY DEF Work, Linked
  <2>2. L \subseteq N
    BY DEF N
  <2>3. Apart(L \ {q}, z)
    BY <2>1 DEF Apart
  <2> QED
    BY <1>7, <2>1, <2>2, <2>3, LoopsNotOut
<1>12. Linked(D, L \ {q}, z)
  BY <1>10, <1>11 DEF Linked, K, g
<1> QED
  BY <1>1, <1>7, <1>8, <1>9, <1>12 DEF Work, D

\* No block of L touches the n words from p on.
Lone(L, z, p, n) == \A r \in L : r + z[r] # p /\ r # p + n

\* A block is put into the list of its size.
LEMMA Links ==
  ASSUME NEW M, NEW S, NEW z, NEW b, NEW F, NEW L, Work(M, S, z, F, L, b), NEW p \in F, p \notin L,
         Lone(L, z, p, z[p])
  PROVE  /\ Work(ins_free_blk(M, p, list_index(z[p])), S, z, F, L \cup {p}, b)
         /\ Same(M, ins_free_blk(M, p, list_index(z[p])), LinkWords(L \cup {p}))
<1> DEFINE N == L \cup Heads
           f == [x \in N |-> ListOf(z, x)]
           K == (L \cup {p}) \cup Heads
           g == [x \in K |-> ListOf(z, x)]
           i == list_index(z[p])
<1>1. /\ M \in Mem /\ F \subseteq S /\ L \subseteq F /\ L \cup {p} \in SUBSET S /\ L \in SUBSET S
      /\ Tiled(S, z, b) /\ Tagged(M, S, z, F, b) /\ p \notin Heads
  BY NoHeads DEF Work
<1>2. Nodes(K) /\ LinkWords(L \cup {p}) = Pairs(K)
  BY <1>1, LinksInHeap DEF LinkWords
<1>3. Rings(M, N, f)
  BY DEF Work, Linked
<1>4. K = N \cup {p} /\ p \notin N /\ \A x \in N : g[x] = f[x]
  BY <1>1
<1>5. i \in 0..(LIST_NUM - 1)
  BY ListInTable
<1>6. ListHead(i) \in N /\ ListHead(i) \in Heads /\ ListHead(i) \div 2 = i
  BY <1>5, HeadsAre
<1>7. g[p] = g[ListHead(i)]
  BY <1>1, <1>6 DEF ListOf
<1> HIDE DEF N, f, K, g, i
<1>8. Rings(M, N, g)
  BY <1>3, <1>4 DEF Rings
<1>9. Nodes(N) /\ Nodes({p})
  BY <1>2, <1>4 DEF Nodes
<1> DEFINE D == ins_free_blk(M, p, i)
<1>10. D \in Mem /\ Rings(D, N \cup {p}, g) /\ Same(M, D, Pairs(N \cup {p})) /\ Inserted(M, D, N, p, ListHead(i))
  <2>1. /\ M \in Mem /\ Nodes(N) /\ Rings(M, N, g) /\ p \notin N /\ Nodes({p})
        /\ ListHead(i) \in N /\ g[p] = g[ListHead(i)]
    BY <1>1, <1>4, <1>6, <1>7, <1>8, <1>9
  <2> QED
    BY <2>1, InsLinks
<1> HIDE DEF D
<1>11. Same(M, D, LinkWords(L \cup {p}))
  BY <1>2, <1>4, <1>10
<1>12. Tagged(D, S, z, F, b)
  BY <1>1, <1>10, <1>11, TagsStay
<1>13. NoLoops(D, L \cup {p})
  <2>1. NoLoops(M, L)
    BY DEF Work, Linked
  <2>2. L \subseteq N /\ ListHead(i) \notin L
    <3>1. \A x \in L : x \notin Heads
      BY <1>1, NoHeads
    <3> QED
      BY <1>6, <3>1 DEF N
  <2>3. \A x \in N : M[x] \in N
    BY <1>3 DEF Rings
  <2> QED
    BY <1>4, <1>6, <1>10, <2>1, <2>2, <2>3, LoopsNotIn
<1>14. Apart(L \cup {p}, z)
  <2>1. p + z[p] # p
    <3>1. p \in S
      BY <1>1
    <3>2. p \in Nat /\ z[p] \in Nat /\ z[p] >= 4
      BY <1>1, <3>1, TileOf
    <3> QED
      BY <3>2
  <2>2. Apart(L, z)
    BY DEF Work, Linked
  <2> QED
    BY <2>1, <2>2 DEF Apart, Lone
<1>15. Linked(D, L \cup {p}, z)
  BY <1>4, <1>10, <1>13, <1>14 DEF Linked, K, g
<1> QED
  BY <1>1, <1>10, <1>11, <1>12, <1>15 DEF Work, i, D

\* Tag writes two words.
LEMMA TagWrites ==
  ASSUME NEW M \in Mem, NEW p \in Nat, NEW n \in Nat, n >= 4, p >= 1, p + n <= MaxHeap, NEW a \in {FREE, ALLOC}
  PROVE  /\ Tag(M, p, n, a) \in Mem
         /\ Tag(M, p, n, a)[p - 1] = PACK(n, a) /\ Tag(M, p, n, a)[p + n - 2] = PACK(n, a)
         /\ Same(M, Tag(M, p, n, a), {p - 1, p + n - 2})
<1>1. PACK(n, a) \in Int
  BY DEF PACK, FREE, ALLOC
<1>2. p - 1 \in 0..(MaxHeap - 1) /\ p + n - 2 \in 0..(MaxHeap - 1) /\ p - 1 # p + n - 2
  BY MmHeapAssumption
<1> QED
  BY <1>1, <1>2 DEF Tag, HDRP, Mem, Same

\* What is kept twice is kept.
LEMMA KeptOn ==
  ASSUME NEW A, NEW B, NEW C, NEW z, NEW y, NEW U, Kept(A, B, z, U), Kept(B, C, y, U), \A p \in U : y[p] = z[p]
  PROVE  Kept(A, C, z, U)
<1>1. \A p \in U : Body(y, p) = Body(z, p)
  BY DEF Body
<1> QED
  BY <1>1 DEF Kept

\* On the way through coalesce: the block first of the blocks T with the sizes y stands for
\* bp and for what was merged with it; the tags are still those of S.
Merging(M, A, S, z, F, U, b, T, y, L, first) ==
  /\ U = S \ F /\ L = (F \cap T) \ {first} /\ Work(A, S, z, F, L, b)
  /\ y \in [T -> Nat] /\ Tiled(T, y, b) /\ T \subseteq S /\ S \ T \subseteq F /\ first \in F /\ first \in T
  /\ \A r \in T : r # first => y[r] = z[r]
  /\ Kept(M, A, z, U)

Merged(M, A, S, z, F, U, b, first, size) ==
  \E T, y, L : Merging(M, A, S, z, F, U, b, T, y, L, first) /\ y[first] = size

\* A free block before bp takes it in.
LEMMA MergesBefore ==
  ASSUME NEW M, NEW S, NEW z, NEW b, NEW F, NEW U, U = S \ F,
         NEW bp \in F, NEW K, K = F \ {bp}, Work(M, S, z, F, K, b),
         NEW prev \in F, prev + z[prev] = bp, NEW size, size = z[prev] + z[bp]
  PROVE  Merged(M, del_free_blk(M, prev), S, z, F, U, b, prev, size)
<1> DEFINE T == S \ {bp}
           y == [r \in T |-> IF r = prev THEN z[prev] + z[bp] ELSE z[r]]
           L == K \ {prev}
           A == del_free_blk(M, prev)
<1>1. F \subseteq S /\ Tiled(S, z, b) /\ prev \in S /\ bp \in S
  BY DEF Work
<1>2. prev \in Nat /\ z[prev] \in Nat /\ z[prev] >= 4 /\ z[bp] \in Nat /\ \A r \in S : z[r] \in Nat
  BY <1>1, TileOf
<1>3. prev # bp
  BY <1>2
<1>4. y \in [T -> Nat] /\ prev \in T /\ y[prev] = z[prev] + z[bp] /\ \A r \in T : r # prev => y[r] = z[r]
  BY <1>1, <1>2, <1>3
<1> HIDE DEF y
<1>5. Tiled(T, y, b)
  BY <1>1, <1>4, TilesMerged
<1>6. Work(A, S, z, F, L, b) /\ Same(M, A, LinkWords(K))
  <2>1. prev \in K
    BY <1>3
  <2> QED
    BY <2>1, Unlinks
<1>7. L = (F \cap T) \ {prev}
  BY <1>1
<1>8. Kept(M, A, z, U)
  <2>1. K \in SUBSET S /\ U \in SUBSET (S \ K)
    BY <1>1
  <2> QED
    BY <1>1, <1>6, <2>1, BodiesKept
<1>9. T \subseteq S /\ S \ T \subseteq F
  OBVIOUS
<1> HIDE DEF T, L, A
<1>10. Merging(M, A, S, z, F, U, b, T, y, L, prev)
  BY <1>4, <1>5, <1>6, <1>7, <1>8, <1>9 DEF Merging
<1> QED
  BY <1>4, <1>10 DEF Merged, A

\* And takes in a free block behind it.
LEMMA MergesBehind ==
  ASSUME NEW M, NEW A, NEW S, NEW z, NEW b, NEW F, NEW U, NEW first, NEW size,
         Merged(M, A, S, z, F, U, b, first, size), NEW next \in F, first + size = next,
         NEW total, total = size + z[next]
  PROVE  Merged(M, del_free_blk(A, next), S, z, F, U, b, first, total)
<1>0. PICK T, y, L : Merging(M, A, S, z, F, U, b, T, y, L, first) /\ y[first] = size
  BY DEF Merged
<1> DEFINE R == T \ {next}
           w == [r \in R |-> IF r = first THEN y[first] + y[next] ELSE y[r]]
           B == del_free_blk(A, next)
           K == L \ {next}
<1>1. /\ Tiled(T, y, b) /\ T \subseteq S /\ S \ T \subseteq F /\ first \in F /\ first \in T
      /\ \A r \in T : r # first => y[r] = z[r]
      /\ Kept(M, A, z, U) /\ Work(A, S, z, F, L, b) /\ F \subseteq S /\ Tiled(S, z, b)
      /\ U = S \ F /\ L = (F \cap T) \ {first} /\ y \in [T -> Nat] /\ y[first] = size
  BY <1>0 DEF Merging, Work
<1>2. next # b
  <2>1. next \in S
    BY <1>1
  <2>2. next \in Nat /\ z[next] \in Nat /\ z[next] >= 4 /\ next + z[next] <= b
    BY <1>1, <2>1, TileOf
  <2> QED
    BY <2>2
<1>3. first \in Nat /\ y[first] \in Nat /\ y[first] >= 4 /\ (first + y[first] = b \/ first + y[first] \in T)
  BY <1>1, TileOf
<1>4. next \in T /\ next # first
  BY <1>1, <1>2, <1>3
<1>5. y[next] = z[next] /\ y[next] \in Nat /\ \A r \in T : y[r] \in Nat
  BY <1>1, <1>4
<1>6. w \in [R -> Nat] /\ first \in R /\ w[first] = y[first] + y[next] /\ \A r \in R : r # first => w[r] = y[r]
  BY <1>1, <1>3, <1>4, <1>5
<1> HIDE DEF w
<1>7. Tiled(R, w, b)
  <2>1. next = first + y[first]
    BY <1>1
  <2> QED
    BY <1>1, <1>4, <1>6, <2>1, TilesMerged
<1>8. Work(B, S, z, F, K, b) /\ Same(A, B, LinkWords(L))
  <2>1. next \in L
    BY <1>1, <1>4
  <2> QED
    BY <1>1, <2>1, Unlinks
<1>9. K = (F \cap R) \ {first}
  BY <1>1
<1>10. Kept(A, B, z, U)
  <2>1. L \in SUBSET S /\ U \in SUBSET (S \ L)
    BY <1>1
  <2> QED
    BY <1>1, <1>8, <2>1, BodiesKept
<1>11. Kept(M, B, z, U)
  BY <1>1, <1>10, KeptOn
<1>12. \A r \in R : r # first => w[r] = z[r]
  BY <1>1, <1>6
<1>13. R \subseteq S /\ S \ R \subseteq F
  BY <1>1
<1> HIDE DEF R, B, K
<1>14. Merging(M, B, S, z, F, U, b, R, w, K, first)
  BY <1>1, <1>6, <1>7, <1>8, <1>9, <1>11, <1>12, <1>13 DEF Merging
<1>15. w[first] = total
  BY <1>1, <1>5, <1>6
<1> QED
  BY <1>14, <1>15 DEF Merged, B

\* A well-formed heap in which the blocks U, with the sizes z, are still in use as in M,
\* and p is a free one of n words.
Settled(M, D, z, U, b, p, n) ==
  \E T, G, y : /\ Work(D, T, y, G, G, b) /\ T \ G = U /\ \A q \in U : y[q] = z[q]
               /\ Kept(M, D, z, U) /\ p \in G /\ y[p] = n

\* A block p that takes in free neighbours, with new tags: the others are as they were.
LEMMA Merges ==
  ASSUME NEW O, NEW M, NEW S, NEW z, NEW b, NEW F, NEW U, NEW T, NEW y, NEW L, NEW p,
         Merging(O, M, S, z, F, U, b, T, y, L, p),
         NEW D \in Mem, Same(M, D, Extent(y, p)), NEW G, G = F \cap T,
         D[p - 1] = PACK(y[p], FREE), D[p + y[p] - 2] = PACK(y[p], FREE)
  PROVE  Work(D, T, y, G, L, b) /\ Kept(M, D, z, U)
<1>0. /\ Work(M, S, z, F, L, b) /\ T \in SUBSET S /\ y \in [T -> Nat] /\ Tiled(T, y, b)
      /\ \A r \in S : r \notin T => r \in F
      /\ p \in F /\ p \in T /\ p \notin L /\ L \subseteq T
      /\ U = S \ F /\ \A r \in T : r # p => y[r] = z[r]
  BY DEF Merging
<1> DEFINE R == T \ {p}
<1>1. /\ M \in Mem /\ F \subseteq S /\ L \subseteq F /\ Tiled(S, z, b) /\ Tagged(M, S, z, F, b) /\ Linked(M, L, z)
  BY <1>0 DEF Work
<1>2. Tagged(M, R, y, G, b)
  <2>1. \A r \in S : M[r - 1] = TagOf(z, F, r) /\ M[r + z[r] - 2] = TagOf(z, F, r)
    BY <1>1 DEF Tagged
  <2>2. \A r \in R : r \in S /\ y[r] = z[r] /\ TagOf(y, G, r) = TagOf(z, F, r)
    BY <1>0 DEF TagOf
  <2>3. M[Start - 3] = PACK(2, ALLOC) /\ M[Start - 2] = PACK(2, ALLOC) /\ M[b - 1] = PACK(0, ALLOC)
    BY <1>1 DEF Tagged
  <2> HIDE DEF R
  <2> QED
    BY <2>1, <2>2, <2>3 DEF Tagged
<1>3. D[p - 1] = TagOf(y, G, p) /\ D[p + y[p] - 2] = TagOf(y, G, p)
  BY <1>0 DEF TagOf
<1>4. R \in SUBSET T /\ p \notin R /\ R \cup {p} = T
  BY <1>0
<1> HIDE DEF R
<1>5. Tagged(D, T, y, G, b)
  <2>1. Tagged(D, R \cup {p}, y, G, b)
    BY <1>0, <1>1, <1>2, <1>3, <1>4, Retagged
  <2> QED
    BY <1>4, <2>1
<1>6. Linked(D, L, y)
  <2>1. L \in SUBSET T /\ \A x \in L : z[x] = y[x]
    BY <1>0
  <2>2. \A a \in LinkWords(L) : a \notin Extent(y, p)
    BY <1>0, <2>1, LinksOutside DEF Extent
  <2>3. \A a \in LinkWords(L) : a \in 0..(MaxHeap - 1)
    <3>1. Nodes(L \cup Heads)
      BY <1>0, <2>1, LinksInHeap
    <3> QED
      BY <3>1, MmHeapAssumption DEF Nodes, LinkWords, Pairs
  <2>4. \A a \in LinkWords(L) : D[a] = M[a]
    BY <2>2, <2>3 DEF Same
  <2> QED
    BY <1>0, <1>1, <2>1, <2>4, LinksStay
<1>8. Kept(M, D, z, U)
  <2> SUFFICES ASSUME NEW r \in U, NEW a \in Body(z, r) PROVE D[a] = M[a]
    BY DEF Kept
  <2>1. r \in T /\ r # p /\ y[r] = z[r]
    BY <1>0
  <2>2. Body(y, r) = Body(z, r)
    BY <2>1 DEF Body
  <2>3. Body(y, r) \subseteq Extent(y, r) /\ Extent(y, r) \subseteq 0..(MaxHeap - 1)
    BY <1>0, <2>1, ExtentInHeap
  <2>4. a \notin Extent(y, p) /\ a \in 0..(MaxHeap - 1)
    BY <1>0, <2>1, <2>2, <2>3, ExtentsApart
  <2> QED
    BY <2>4 DEF Same
<1> QED
  BY <1>0, <1>1, <1>5, <1>6, <1>8 DEF Work

\* The merged block gets its tags and goes into its list.
LEMMA MergedLinks ==
  ASSUME NEW M, NEW B, NEW S, NEW z, NEW b, NEW F, NEW U, NEW first, NEW size \in Nat,
         Merged(M, B, S, z, F, U, b, first, size), Lone(F, z, first, size),
         NEW E, E = ins_free_blk(Tag(Forget(B, first .. (first + size - 3)), first, size, FREE), first, list_index(size))
  PROVE  Settled(M, E, z, U, b, first, size)
<1>0. PICK T, y, L : Merging(M, B, S, z, F, U, b, T, y, L, first) /\ y[first] = size
  BY DEF Merged
<1> DEFINE N == Forget(B, first .. (first + size - 3))
           D == Tag(N, first, size, FREE)
           G == F \cap T
<1>1. /\ Tiled(T, y, b) /\ T \subseteq S /\ S \ T \subseteq F /\ first \in F /\ first \in T
      /\ \A r \in T : r # first => y[r] = z[r]
      /\ Kept(M, B, z, U) /\ Work(B, S, z, F, L, b) /\ F \subseteq S /\ Tiled(S, z, b) /\ B \in Mem
      /\ U = S \ F /\ L = (F \cap T) \ {first} /\ y \in [T -> Nat] /\ y[first] = size
  BY <1>0 DEF Merging, Work
<1>2. /\ first \in Nat /\ first >= 1 /\ size >= 4 /\ first + size <= b /\ b <= MaxHeap /\ b \in Nat
      /\ first + size <= MaxHeap
  <2>1. first \in Nat /\ Start <= first /\ Start >= 6 /\ Start \in Nat /\ y[first] >= 4 /\ first + y[first] <= b
        /\ b <= MaxHeap /\ b \in Nat
    BY <1>1, TileOf, HeadsAre
  <2> QED
    BY <1>1, <2>1, MmHeapAssumption
<1>3. N \in Mem /\ Same(B, N, Body(y, first))
  <2>1. DOMAIN B = 0..(MaxHeap - 1) /\ \A a \in 0..(MaxHeap - 1) : B[a] \in Int
    BY <1>1 DEF Mem
  <2>2. Junk \in Int
    BY DEF Junk
  <2>3. Body(y, first) = first .. (first + size - 3)
    BY <1>1 DEF Body
  <2> QED
    BY <2>1, <2>2, <2>3 DEF Forget, Mem, Same
<1> HIDE DEF N
<1>4. /\ D \in Mem /\ D[first - 1] = PACK(size, FREE) /\ D[first + size - 2] = PACK(size, FREE)
      /\ Same(N, D, {first - 1, first + size - 2})
  <2>1. FREE \in {FREE, ALLOC}
    OBVIOUS
  <2> QED
    BY <1>2, <1>3, <2>1, TagWrites
<1> HIDE DEF D
<1>5. Same(B, D, Extent(y, first))
  <2>1. first - 1 \in Extent(y, first) /\ first + size - 2 \in Extent(y, first) /\ Body(y, first) \subseteq Extent(y, first)
    BY <1>1, ExtentInHeap
  <2> QED
    BY <1>3, <1>4, <2>1 DEF Same
<1> HIDE DEF G
<1>6. Work(D, T, y, G, L, b) /\ T \ G = U /\ Kept(B, D, z, U)
  <2>1. G = F \cap T /\ T \ G = U
    BY <1>1 DEF G
  <2>2. Merging(M, B, S, z, F, U, b, T, y, L, first)
    BY <1>0
  <2>3. /\ D \in Mem /\ Same(B, D, Extent(y, first))
        /\ D[first - 1] = PACK(y[first], FREE) /\ D[first + y[first] - 2] = PACK(y[first], FREE)
    BY <1>1, <1>4, <1>5
  <2>4. Work(D, T, y, G, L, b) /\ Kept(B, D, z, U)
    BY <2>1, <2>2, <2>3, Merges
  <2> QED
    BY <2>1, <2>4
<1>7. first \in G /\ first \notin L /\ L \cup {first} = G
  BY <1>1 DEF G
<1>8. Work(E, T, y, G, G, b) /\ Same(D, E, LinkWords(G))
  <2>1. E = ins_free_blk(D, first, list_index(y[first]))
    BY <1>1 DEF D, N
  <2>2. /\ Work(ins_free_blk(D, first, list_index(y[first])), T, y, G, L \cup {first}, b)
        /\ Same(D, ins_free_blk(D, first, list_index(y[first])), LinkWords(L \cup {first}))
    <3>1. Lone(L, y, first, y[first])
      <4>1. \A r \in L : r \in F /\ y[r] = z[r]
        BY <1>1
      <4> QED
        BY <1>1, <4>1 DEF Lone
    <3> QED
      BY <1>6, <1>7, <3>1, Links
  <2> QED
    BY <1>7, <2>1, <2>2
<1>9. Kept(D, E, y, U)
  <2>1. G \in SUBSET T /\ U \in SUBSET (T \ G)
    BY <1>6 DEF G
  <2> QED
    BY <1>1, <1>8, <2>1, BodiesKept
<1>10. \A p \in U : y[p] = z[p]
  BY <1>1
<1>11. Kept(M, D, z, U)
  BY <1>1, <1>6, KeptOn
<1>12. Kept(M, E, z, U)
  BY <1>9, <1>10, <1>11, KeptOn
<1>13. y[first] = size
  BY <1>1
<1> QED
  BY <1>6, <1>7, <1>8, <1>10, <1>12, <1>13 DEF Settled

\* coalesce leaves a heap with all free blocks in their lists.
LEMMA Coalesces ==
  ASSUME NEW M, NEW S, NEW z, NEW b, NEW F, NEW U, U = S \ F,
         NEW bp \in F, NEW K, K = F \ {bp}, Work(M, S, z, F, K, b)
  PROVE  \E n \in Nat : /\ n >= z[bp]
                        /\ Settled(M, coalesce(M, bp).mem, z, U, b, coalesce(M, bp).bp, n)
<1> DEFINE prev == PREV_BLKP(M, bp)
           next == NEXT_BLKP(M, bp)
           pa == GET_ALLOC(M, FTRP(M, prev)) = ALLOC
           na == GET_ALLOC(M, HDRP(next)) = ALLOC
           first == IF pa THEN bp ELSE prev
           A == IF pa THEN M ELSE del_free_blk(M, prev)
           B == IF na THEN A ELSE del_free_blk(A, next)
           size == GET_SIZE(M, HDRP(bp)) + (IF pa THEN 0 ELSE GET_SIZE(M, HDRP(prev)))
                     + (IF na THEN 0 ELSE GET_SIZE(M, HDRP(next)))
           E == ins_free_blk(Tag(Forget(B, first .. (first + size - 3)), first, size, FREE), first, list_index(size))
<1>1. F \in SUBSET S /\ bp \in S /\ Tiled(S, z, b) /\ Tagged(M, S, z, F, b)
  BY DEF Work
<1>2. (pa /\ \A r \in F : r + z[r] # bp) \/ (~pa /\ prev \in F /\ prev + z[prev] = bp)
  BY <1>1, PrevReads
<1>3. next = bp + z[bp] /\ ((na /\ next \notin F) \/ (~na /\ next \in F))
  BY <1>1, NextReads
<1>4. GET_SIZE(M, HDRP(bp)) = z[bp] /\ (~pa => GET_SIZE(M, HDRP(prev)) = z[prev])
      /\ (~na => GET_SIZE(M, HDRP(next)) = z[next])
  BY <1>1, <1>2, <1>3, BlockReads
<1>5. bp \in Nat /\ z[bp] \in Nat /\ (prev \in F => prev \in Nat /\ z[prev] \in Nat)
      /\ (next \in F => z[next] \in Nat)
  BY <1>1, TileOf
<1>6. coalesce(M, bp) = [mem |-> E, bp |-> first]
  BY DEF coalesce
<1> HIDE DEF prev, next, pa, na
<1> DEFINE one == z[bp] + (IF pa THEN 0 ELSE z[prev])
           two == one + (IF na THEN 0 ELSE z[next])
<1>7. one \in Nat /\ two \in Nat /\ two >= z[bp] /\ first + one = next /\ size = two
  BY <1>2, <1>3, <1>4, <1>5
<1>12. Lone(F, z, first, two)
  <2>1. \A r \in F : r \in S /\ r \in Nat /\ z[r] \in Nat /\ z[r] >= 4
    BY <1>1, TileOf
  <2>2. \A r \in K : \A q \in K : r + z[r] # q
    BY DEF Work, Linked, Apart
  <2>3. ASSUME NEW r \in F PROVE r + z[r] # first
    <3>1. CASE pa
      BY <1>2, <3>1
    <3>2. CASE ~pa
      <4>1. prev \in K /\ first = prev /\ prev \in Nat /\ prev + z[prev] = bp /\ z[prev] >= 4 /\ z[prev] \in Nat
        BY <1>2, <1>5, <2>1, <3>2
      <4>2. r = bp => r + z[r] # prev
        BY <1>5, <4>1
      <4>3. r # bp => r \in K
        BY <2>3
      <4> HIDE DEF first
      <4> QED
        BY <2>2, <4>1, <4>2, <4>3
    <3> QED
      BY <3>1, <3>2
  <2>4. ASSUME NEW r \in F PROVE r # first + two
    <3>1. CASE na
      <4>1. first + two = next
        BY <1>5, <1>7, <3>1
      <4> HIDE DEF first, two
      <4> QED
        BY <1>3, <3>1, <4>1
    <3>2. CASE ~na
      <4>1. next \in F /\ next \in Nat /\ z[next] \in Nat /\ next = bp + z[bp] /\ z[bp] >= 4 /\ z[next] >= 4
        BY <1>3, <2>1, <3>2
      <4>2. first + two = next + z[next]
        <5>1. two = one + z[next]
          BY <3>2
        <5>2. first \in Nat
          BY <1>2, <1>5
        <5> HIDE DEF one, two, first
        <5> QED
          BY <1>7, <4>1, <5>1, <5>2
      <4>3. next \in K /\ bp # next + z[next]
        BY <1>5, <4>1
      <4>4. r # bp => r \in K
        BY <2>4
      <4> HIDE DEF first, two
      <4> QED
        BY <2>2, <4>2, <4>3, <4>4
    <3> QED
      BY <3>1, <3>2
  <2> HIDE DEF first, two
  <2> QED
    BY <2>3, <2>4 DEF Lone
<1> HIDE DEF size
<1>8. Merged(M, A, S, z, F, U, b, first, one)
  <2>1. CASE pa
    <3>1. z \in [S -> Nat] /\ Kept(M, M, z, U) /\ K = (F \cap S) \ {bp}
      BY <1>1 DEF Tiled, Kept
    <3>2. Merging(M, M, S, z, F, U, b, S, z, K, bp)
      BY <1>1, <3>1 DEF Merging
    <3>3. one = z[bp] /\ A = M /\ first = bp
      BY <1>5, <2>1
    <3> HIDE DEF one, A, first
    <3> QED
      BY <3>2, <3>3 DEF Merged
  <2>2. CASE ~pa
    <3>1. prev \in F /\ prev + z[prev] = bp /\ one = z[prev] + z[bp]
      BY <1>2, <1>5, <2>2
    <3>2. A = del_free_blk(M, prev) /\ first = prev
      BY <2>2
    <3> HIDE DEF one, A, first
    <3>3. Merged(M, del_free_blk(M, prev), S, z, F, U, b, prev, one)
      BY <3>1, MergesBefore
    <3> QED
      BY <3>2, <3>3
  <2> QED
    BY <2>1, <2>2
<1> HIDE DEF one, A, first
<1>9. Merged(M, B, S, z, F, U, b, first, two)
  <2>1. CASE na
    <3>1. B = A /\ two = one
      BY <1>7, <2>1
    <3> QED
      BY <1>8, <3>1
  <2>2. CASE ~na
    <3>1. B = del_free_blk(A, next) /\ two = one + z[next] /\ next \in F /\ first + one = next
      BY <1>3, <1>7, <2>2
    <3> HIDE DEF B, two
    <3>2. Merged(M, del_free_blk(A, next), S, z, F, U, b, first, two)
      BY <1>8, <3>1, MergesBehind
    <3> QED
      BY <3>1, <3>2
  <2> QED
    BY <2>1, <2>2
<1> HIDE DEF B, two
<1>10. Settled(M, E, z, U, b, first, two)
  <2>1. E = ins_free_blk(Tag(Forget(B, first .. (first + two - 3)), first, two, FREE), first, list_index(two))
    BY <1>7
  <2> HIDE DEF E
  <2> QED
    BY <1>7, <1>9, <1>12, <2>1, MergedLinks
<1> HIDE DEF E
<1>11. coalesce(M, bp).mem = E /\ coalesce(M, bp).bp = first
  BY <1>6
<1> QED
  BY <1>7, <1>10, <1>11
-------------------------------------------------------------------------------
(* place and free.                                                           *)

\* Tag on a block of the size z[p].
LEMMA TagsBlock ==
  ASSUME NEW M \in Mem, NEW S, NEW z, NEW b, Tiled(S, z, b), NEW p \in S, NEW a \in {FREE, ALLOC},
         NEW D, D = Tag(M, p, z[p], a)
  PROVE  /\ D \in Mem /\ D[p - 1] = PACK(z[p], a) /\ D[p + z[p] - 2] = PACK(z[p], a)
         /\ Same(M, D, Extent(z, p))
<1>1. p \in Nat /\ z[p] \in Nat /\ z[p] >= 4 /\ Start <= p /\ p + z[p] <= b /\ b <= MaxHeap /\ b \in Nat
  BY TileOf
<1>2. PACK(z[p], a) \in Int
  BY <1>1 DEF PACK, FREE, ALLOC
<1>3. p - 1 \in 0..(MaxHeap - 1) /\ p + z[p] - 2 \in 0..(MaxHeap - 1) /\ p - 1 # p + z[p] - 2
  BY <1>1, HeadsAre, MmHeapAssumption
<1>4. p - 1 \in Extent(z, p) /\ p + z[p] - 2 \in Extent(z, p)
  BY <1>1 DEF Extent
<1>5. D = [M EXCEPT ![p - 1] = PACK(z[p], a), ![p + z[p] - 2] = PACK(z[p], a)]
  BY DEF Tag, HDRP
<1> QED
  BY <1>2, <1>3, <1>4, <1>5 DEF Mem, Same

\* What is written inside the extent of p leaves the other blocks and the links alone.
LEMMA OthersKept ==
  ASSUME NEW S, NEW z, NEW b, Tiled(S, z, b), NEW p \in S, NEW M \in Mem, NEW D \in Mem,
         Same(M, D, Extent(z, p)), NEW L \in SUBSET S, p \notin L, NEW U \in SUBSET S, p \notin U
  PROVE  /\ Kept(M, D, z, U)
         /\ \A a \in LinkWords(L) : D[a] = M[a]
<1>1. Kept(M, D, z, U)
  <2> SUFFICES ASSUME NEW r \in U, NEW a \in Body(z, r) PROVE D[a] = M[a]
    BY DEF Kept
  <2>1. r \in S /\ r # p
    OBVIOUS
  <2>2. Body(z, r) \subseteq Extent(z, r) /\ Extent(z, r) \subseteq 0..(MaxHeap - 1)
    BY <2>1, ExtentInHeap
  <2>3. a \notin Extent(z, p) /\ a \in 0..(MaxHeap - 1)
    BY <2>1, <2>2, ExtentsApart
  <2> QED
    BY <2>3 DEF Same
<1>2. \A a \in LinkWords(L) : a \notin Extent(z, p)
  BY LinksOutside DEF Extent
<1>3. \A a \in LinkWords(L) : a \in 0..(MaxHeap - 1)
  <2>1. Nodes(L \cup Heads)
    BY LinksInHeap
  <2> QED
    BY <2>1, MmHeapAssumption DEF Nodes, LinkWords, Pairs
<1>4. \A a \in LinkWords(L) : D[a] = M[a]
  BY <1>2, <1>3 DEF Same
<1> QED
  BY <1>1, <1>4

\* A block p in no list gets its tags anew, free or allocated: G are the free ones then.
LEMMA Flips ==
  ASSUME NEW M, NEW S, NEW z, NEW b, NEW F, NEW L, Work(M, S, z, F, L, b), NEW p \in S, p \notin L,
         NEW G \in SUBSET S, \A r \in S : r # p => (r \in F <=> r \in G), L \subseteq G,
         NEW a \in {FREE, ALLOC}, a = (IF p \in G THEN FREE ELSE ALLOC),
         NEW U \in SUBSET S, p \notin U, NEW D, D = Tag(M, p, z[p], a)
  PROVE  Work(D, S, z, G, L, b) /\ Kept(M, D, z, U)
<1>1. M \in Mem /\ L \subseteq S /\ Tiled(S, z, b) /\ Tagged(M, S, z, F, b) /\ Linked(M, L, z)
  BY DEF Work
<1>3. /\ D \in Mem /\ D[p - 1] = PACK(z[p], a) /\ D[p + z[p] - 2] = PACK(z[p], a)
      /\ Same(M, D, Extent(z, p))
  BY <1>1, TagsBlock
<1>4. Same(M, D, Extent(z, p))
  BY <1>3
<1> DEFINE R == S \ {p}
<1>5. Tagged(M, R, z, G, b)
  <2>1. \A r \in S : M[r - 1] = TagOf(z, F, r) /\ M[r + z[r] - 2] = TagOf(z, F, r)
    BY <1>1 DEF Tagged
  <2>2. \A r \in R : r \in S /\ TagOf(z, G, r) = TagOf(z, F, r)
    BY DEF TagOf
  <2>3. M[Start - 3] = PACK(2, ALLOC) /\ M[Start - 2] = PACK(2, ALLOC) /\ M[b - 1] = PACK(0, ALLOC)
    BY <1>1 DEF Tagged
  <2> HIDE DEF R
  <2> QED
    BY <2>1, <2>2, <2>3 DEF Tagged
<1>6. R \in SUBSET S /\ p \notin R /\ R \cup {p} = S
  OBVIOUS
<1> HIDE DEF R
<1>7. D[p - 1] = TagOf(z, G, p) /\ D[p + z[p] - 2] = TagOf(z, G, p)
  BY <1>3 DEF TagOf
<1>8. Tagged(D, S, z, G, b)
  <2>1. Tagged(D, R \cup {p}, z, G, b)
    BY <1>1, <1>3, <1>4, <1>5, <1>6, <1>7, Retagged
  <2> QED
    BY <1>6, <2>1
<1>9. L \in SUBSET S
  BY <1>1
<1>10. Kept(M, D, z, U) /\ \A c \in LinkWords(L) : D[c] = M[c]
  BY <1>1, <1>3, <1>4, <1>9, OthersKept
<1>11. Linked(D, L, z)
  BY <1>1, <1>3, <1>9, <1>10, LinksStay
<1> QED
  BY <1>1, <1>3, <1>8, <1>10, <1>11 DEF Work

\* A well-formed heap in which the blocks U, with the sizes z, are still in use as in M,
\* and so is one more, p, of at least n words.
Taken(M, D, z, U, b, p, n) ==
  \E T, G, y : /\ Work(D, T, y, G, G, b) /\ T \ G = U \cup {p} /\ p \notin U
               /\ \A q \in U : y[q] = z[q]
               /\ Kept(M, D, z, U) /\ y[p] >= n

\* The free block p is split in two, p itself and q, of the sizes y: T are the blocks
\* then, q and the L are free.
Halves(S, z, F, L, p, q, T, y, G) ==
  /\ L = F \ {p} /\ T = S \cup {q} /\ y \in [T -> Nat] /\ \A r \in S : r # p => y[r] = z[r]
  /\ y[p] % 2 = 0 /\ y[p] >= 4 /\ y[q] >= 4 /\ y[p] + y[q] = z[p] /\ q = p + y[p]
  /\ G = L \cup {q}

\* The two parts of a block, the first allocated and the second free but in no list.
LEMMA Splits ==
  ASSUME NEW M, NEW S, NEW z, NEW b, NEW F, NEW L, Work(M, S, z, F, L, b), NEW p \in F,
         NEW q, NEW T, NEW y, NEW G, Halves(S, z, F, L, p, q, T, y, G),
         NEW D, D = Tag(Tag(M, p, y[p], ALLOC), q, y[q], FREE), NEW U, \A r \in U : r \in S /\ r \notin F
  PROVE  Work(D, T, y, G, L, b) /\ Kept(M, D, z, U)
<1>1. /\ M \in Mem /\ F \subseteq S /\ L \subseteq S /\ Tiled(S, z, b) /\ Tagged(M, S, z, F, b) /\ Linked(M, L, z)
      /\ p \in S
  BY DEF Work
<1>5. Tiled(T, y, b) /\ q \notin S /\ q # p
  <2>1. y \in [T -> Nat] /\ p \in T /\ q \in T /\ y[p] + y[q] = z[p] /\ y[p] % 2 = 0 /\ y[p] >= 4 /\ y[q] >= 4
        /\ q = p + y[p] /\ T = S \cup {q} /\ \A r \in S \ {p} : y[r] = z[r]
    BY <1>1 DEF Halves
  <2>2. y[p] \in Nat /\ y[q] \in Nat /\ z[p] \in Nat /\ p \in Nat
    BY <1>1, <2>1, TileOf
  <2>3. PICK n \in Nat : n = y[p]
    BY <2>2
  <2>4. n % 2 = 0 /\ n >= 4 /\ z[p] - n >= 4 /\ y \in [S \cup {p + n} -> Nat] /\ y[p] = n /\ y[p + n] = z[p] - n
    BY <2>1, <2>2, <2>3
  <2>5. \A r \in S \ {p} : y[r] = z[r]
    BY <2>1
  <2>6. Tiled(S \cup {p + n}, y, b) /\ p + n \notin S
    BY <1>1, <2>4, <2>5, TilesSplit
  <2> QED
    BY <1>1, <2>1, <2>3, <2>6
<1>6. \A r \in S : r # p => y[r] = z[r]
  BY DEF Halves
<1>9. p \in T /\ q \in T
  BY <1>1 DEF Halves
<1> DEFINE A == Tag(M, p, y[p], ALLOC)
<1>7. /\ A \in Mem /\ A[p - 1] = PACK(y[p], ALLOC) /\ A[p + y[p] - 2] = PACK(y[p], ALLOC)
      /\ Same(M, A, Extent(y, p))
  <2>1. ALLOC \in {FREE, ALLOC} /\ M \in Mem /\ Tiled(T, y, b) /\ p \in T
    BY <1>1, <1>5, <1>9
  <2>2. A = Tag(M, p, y[p], ALLOC)
    OBVIOUS
  <2> HIDE DEF A
  <2> QED
    BY <2>1, <2>2, TagsBlock
<1>8. /\ D \in Mem /\ D[q - 1] = PACK(y[q], FREE) /\ D[q + y[q] - 2] = PACK(y[q], FREE)
      /\ Same(A, D, Extent(y, q))
  <2>1. FREE \in {FREE, ALLOC}
    OBVIOUS
  <2>2. D = Tag(A, q, y[q], FREE)
    OBVIOUS
  <2> HIDE DEF A
  <2> QED
    BY <1>5, <1>7, <1>9, <2>1, <2>2, TagsBlock
<1> HIDE DEF A
<1>10. Same(M, A, Extent(y, p)) /\ Same(A, D, Extent(y, q))
  BY <1>7, <1>8
<1> DEFINE R == S \ {p}
<1>11. R \in SUBSET T /\ p \notin R /\ R \cup {p} = S /\ S \in SUBSET T /\ S \cup {q} = T /\ L \in SUBSET T
       /\ p \notin L /\ q \notin L /\ U \in SUBSET T /\ p \notin U /\ q \notin U /\ U \subseteq S
       /\ q \in G /\ p \notin G /\ L \subseteq G /\ G \subseteq T /\ \A r \in S : r # p => (r \in G <=> r \in F)
  BY <1>1, <1>5 DEF Halves
<1>12. Tagged(M, R, y, G, b)
  <2>1. \A r \in S : M[r - 1] = TagOf(z, F, r) /\ M[r + z[r] - 2] = TagOf(z, F, r)
    BY <1>1 DEF Tagged
  <2>2. \A r \in R : r \in S /\ r # p /\ y[r] = z[r] /\ (r \in G <=> r \in F)
    BY <1>6, <1>11
  <2>3. M[Start - 3] = PACK(2, ALLOC) /\ M[Start - 2] = PACK(2, ALLOC) /\ M[b - 1] = PACK(0, ALLOC)
    BY <1>1 DEF Tagged
  <2> HIDE DEF R
  <2>4. \A r \in R : TagOf(y, G, r) = TagOf(z, F, r)
    BY <2>2 DEF TagOf
  <2> QED
    BY <2>1, <2>2, <2>3, <2>4 DEF Tagged
<1> HIDE DEF R
<1>13. Tagged(A, S, y, G, b)
  <2>1. p \notin G
    BY <1>11
  <2>2. A[p - 1] = TagOf(y, G, p) /\ A[p + y[p] - 2] = TagOf(y, G, p)
    BY <1>7, <2>1 DEF TagOf
  <2>3. Tagged(A, R \cup {p}, y, G, b)
    BY <1>1, <1>5, <1>7, <1>9, <1>10, <1>11, <1>12, <2>2, Retagged
  <2> QED
    BY <1>11, <2>3
<1>14. Tagged(D, T, y, G, b)
  <2>1. q \in G
    BY <1>11
  <2>2. D[q - 1] = TagOf(y, G, q) /\ D[q + y[q] - 2] = TagOf(y, G, q)
    BY <1>8, <2>1 DEF TagOf
  <2>3. Tagged(D, S \cup {q}, y, G, b)
    BY <1>5, <1>7, <1>8, <1>9, <1>10, <1>11, <1>13, <2>2, Retagged
  <2> QED
    BY <1>11, <2>3
<1>15. Kept(M, A, y, U) /\ \A a \in LinkWords(L) : A[a] = M[a]
  <2>1. /\ Tiled(T, y, b) /\ p \in T /\ M \in Mem /\ A \in Mem /\ Same(M, A, Extent(y, p))
        /\ L \in SUBSET T /\ p \notin L /\ U \in SUBSET T /\ p \notin U
    BY <1>1, <1>5, <1>7, <1>9, <1>10, <1>11
  <2> QED
    BY <2>1, OthersKept
<1>16. Kept(A, D, y, U) /\ \A a \in LinkWords(L) : D[a] = A[a]
  <2>1. /\ Tiled(T, y, b) /\ q \in T /\ A \in Mem /\ D \in Mem /\ Same(A, D, Extent(y, q))
        /\ L \in SUBSET T /\ q \notin L /\ U \in SUBSET T /\ q \notin U
    BY <1>5, <1>7, <1>8, <1>9, <1>10, <1>11
  <2> QED
    BY <2>1, OthersKept
<1>17. Linked(D, L, y)
  <2>1. \A x \in L : z[x] = y[x]
    BY <1>1, <1>6, <1>11
  <2>2. \A a \in LinkWords(L) : D[a] = M[a]
    BY <1>15, <1>16
  <2> QED
    BY <1>1, <1>5, <1>8, <1>11, <2>1, <2>2, LinksStay
<1>18. Kept(M, D, z, U)
  <2>1. \A r \in U : Body(y, r) = Body(z, r)
    BY <1>6, <1>11 DEF Body
  <2> QED
    BY <1>15, <1>16, <2>1 DEF Kept
<1>4. G \subseteq T /\ L \subseteq G
  BY <1>11
<1> QED
  BY <1>4, <1>5, <1>8, <1>14, <1>17, <1>18 DEF Work

\* place allocates the block, or as much of it as is needed.
LEMMA Places ==
  ASSUME NEW M, NEW S, NEW z, NEW b, NEW F, Work(M, S, z, F, F, b), NEW U, U = S \ F,
         NEW p \in F, NEW n \in Nat, n % 2 = 0, n >= 4, n <= z[p]
  PROVE  Taken(M, place(M, p, n), z, U, b, p, n)
<1>1. F \in SUBSET S /\ p \in S /\ p \notin U /\ Tiled(S, z, b) /\ Tagged(M, S, z, F, b)
  BY DEF Work
<1>2. GET_SIZE(M, HDRP(p)) = z[p]
  BY <1>1, BlockReads
<1>3. z[p] \in Nat /\ z[p] >= 4 /\ p \in Nat
  BY <1>1, TileOf
<1> DEFINE L == F \ {p}
           A == del_free_blk(M, p)
<1>4. Work(A, S, z, F, L, b) /\ Same(M, A, LinkWords(F))
  BY Unlinks
<1>5. Kept(M, A, z, U)
  <2>1. U \in SUBSET (S \ F)
    OBVIOUS
  <2> QED
    BY <1>1, <1>4, <2>1, BodiesKept
<1> DEFINE q == p + n
           m == z[p] - n
           D == Tag(Tag(A, p, n, ALLOC), q, m, FREE)
           W == Tag(A, p, z[p], ALLOC)
           E == ins_free_blk(D, q, list_index(m))
<1>6. place(M, p, n) = IF z[p] - n >= 4 THEN E ELSE W
  BY <1>2 DEF place
<1> HIDE DEF A
<1>7. CASE z[p] - n >= 4
  <2> DEFINE T == S \cup {q}
             y == [r \in T |-> IF r = p THEN n ELSE IF r = q THEN m ELSE z[r]]
             G == L \cup {q}
  <2>0. /\ q \in Nat /\ m \in Nat /\ q # p /\ q \notin S
    <3>1. q \in Nat /\ m \in Nat /\ q # p /\ p < q /\ q < p + z[p]
      BY <1>3, <1>7
    <3>2. \A r \in S : r # p => r \in Nat /\ z[r] \in Nat /\ z[r] >= 4 /\ (p + z[p] <= r \/ r + z[r] <= p)
      BY <1>1, TilesApart, TileOf
    <3> HIDE DEF q
    <3> QED
      BY <1>3, <3>1, <3>2
  <2>1. y \in [T -> Nat] /\ y[p] = n /\ y[q] = m /\ \A r \in S : r # p => y[r] = z[r]
    <3>1. \A r \in S : z[r] \in Nat
      BY <1>1, TileOf
    <3> HIDE DEF q, m
    <3> QED
      BY <1>1, <2>0, <3>1
  <2>12. D = Tag(Tag(A, p, y[p], ALLOC), q, y[q], FREE)
    BY <2>1
  <2>15. q + y[q] = p + z[p] /\ q # b
    <3>1. p + z[p] <= b /\ b \in Nat
      BY <1>1, TileOf
    <3>2. y[q] = m
      BY <2>1
    <3> HIDE DEF y
    <3> QED
      BY <1>3, <1>7, <3>1, <3>2
  <2>16. Lone(L, y, q, y[q])
    <3>1. Apart(F, z)
      BY DEF Work, Linked
    <3>2. ASSUME NEW r \in L PROVE r + y[r] # q /\ r # q + y[q]
      <4>1. r \in S /\ r # p /\ r \in F /\ y[r] = z[r]
        BY <1>1, <2>1, <3>2
      <4>2. r + z[r] = b \/ r + z[r] \in S
        BY <1>1, <4>1, TileOf
      <4>3. r # p + z[p]
        BY <3>1, <4>1 DEF Apart
      <4> HIDE DEF q, y
      <4> QED
        BY <2>0, <2>15, <4>1, <4>2, <4>3
    <3> HIDE DEF q, y, L
    <3> QED
      BY <3>2 DEF Lone
  <2>13. q = p + n /\ m = z[p] - n /\ z[p] \in Nat /\ T = S \cup {q} /\ G = L \cup {q} /\ L = F \ {p} /\ Work(A, S, z, F, L, b)
    BY <1>3, <1>4
  <2>14. Halves(S, z, F, L, p, q, T, y, G) /\ Work(A, S, z, F, L, b) /\ \A r \in U : r \in S /\ r \notin F
    <3> HIDE DEF D, q, m, T, y, G, L
    <3>1. /\ y[p] % 2 = 0 /\ y[p] >= 4 /\ y[q] >= 4 /\ y[p] + y[q] = z[p] /\ q = p + y[p]
          /\ T = S \cup {q} /\ G = L \cup {q} /\ L = F \ {p} /\ Work(A, S, z, F, L, b) /\ y \in [T -> Nat]
      BY <1>7, <2>0, <2>1, <2>13
    <3> QED
      BY <2>1, <3>1 DEF Halves
  <2>10. Work(D, T, y, G, L, b) /\ Kept(A, D, z, U)
    <3> HIDE DEF D, q, m, T, y, G, L
    <3> QED
      BY <2>12, <2>14, Splits
  <2> HIDE DEF q, m, y
  <2>2. q \in G /\ q \notin L /\ L \cup {q} = G
    BY <1>1, <2>0
  <2>3. T \ G = U \cup {p} /\ G \in SUBSET T /\ U \in SUBSET (T \ G)
    BY <1>1, <2>0
  <2>4. \A r \in U : y[r] = z[r]
    BY <1>1, <2>1
  <2> HIDE DEF L, D
  <2>5. Work(E, T, y, G, G, b) /\ Same(D, E, LinkWords(G))
    <3>1. E = ins_free_blk(D, q, list_index(y[q]))
      BY <2>1
    <3> HIDE DEF E, G, T, q
    <3>2. /\ Work(ins_free_blk(D, q, list_index(y[q])), T, y, G, L \cup {q}, b)
          /\ Same(D, ins_free_blk(D, q, list_index(y[q])), LinkWords(L \cup {q}))
      <4>1. Lone(L, y, q, y[q])
        BY <2>16
      <4> QED
        BY <2>10, <2>2, <4>1, Links
    <3> QED
      BY <2>2, <3>1, <3>2
  <2>6. place(M, p, n) = E
    BY <1>6, <1>7
  <2> HIDE DEF E, G, T, q
  <2>7. Kept(D, E, y, U)
    <3>1. Tiled(T, y, b)
      BY <2>10 DEF Work
    <3> QED
      BY <2>3, <2>5, <3>1, BodiesKept
  <2>8. Kept(M, E, z, U)
    BY <1>5, <2>10, <2>4, <2>7, KeptOn
  <2>9. Taken(M, E, z, U, b, p, n)
    BY <1>1, <1>3, <2>1, <2>3, <2>4, <2>5, <2>8 DEF Taken
  <2> QED
    BY <2>6, <2>9
<1>8. CASE ~(z[p] - n >= 4)
  <2>1. L \in SUBSET S /\ p \notin L /\ L \subseteq L /\ ALLOC \in {FREE, ALLOC} /\ U \in SUBSET S
        /\ \A r \in S : r # p => (r \in F <=> r \in L)
    BY <1>1
  <2>2. S \ L = U \cup {p}
    BY <1>1
  <2> HIDE DEF L
  <2>3. ALLOC = (IF p \in L THEN FREE ELSE ALLOC)
    BY <2>1
  <2>4. W = Tag(A, p, z[p], ALLOC)
    OBVIOUS
  <2> HIDE DEF W
  <2>5. Work(W, S, z, L, L, b) /\ Kept(A, W, z, U)
    BY <1>1, <1>3, <1>4, <2>1, <2>3, <2>4, Flips
  <2>6. Kept(M, W, z, U)
    BY <1>5, <2>5, KeptOn
  <2>7. Taken(M, W, z, U, b, p, n)
    BY <1>1, <1>3, <2>2, <2>5, <2>6 DEF Taken
  <2>8. place(M, p, n) = W
    BY <1>6, <1>8 DEF W
  <2> QED
    BY <2>7, <2>8
<1> QED
  BY <1>7, <1>8

\* A well-formed heap in which the blocks U, with the sizes z, are still in use as in M.
Left(M, D, z, U, b) ==
  \E T, G, y : /\ Work(D, T, y, G, G, b) /\ T \ G = U /\ \A q \in U : y[q] = z[q]
               /\ Kept(M, D, z, U)

\* free gives the block back and leaves all others alone.
LEMMA Frees ==
  ASSUME NEW M, NEW S, NEW z, NEW b, NEW F, Work(M, S, z, F, F, b), NEW p \in S, p \notin F,
         NEW U, \A r : r \in U <=> r \in S /\ r \notin F /\ r # p
  PROVE  Left(M, coalesce(Tag(M, p, GET_SIZE(M, HDRP(p)), FREE), p).mem, z, U, b)
<1> DEFINE D == Tag(M, p, GET_SIZE(M, HDRP(p)), FREE)
           G == F \cup {p}
           E == coalesce(D, p).mem
<1>1. F \in SUBSET S /\ Tiled(S, z, b) /\ Tagged(M, S, z, F, b)
  BY DEF Work
<1>2. D = Tag(M, p, z[p], FREE)
  <2>1. GET_SIZE(M, HDRP(p)) = z[p]
    BY <1>1, BlockReads
  <2> QED
    BY <2>1
<1>3. /\ p \in S /\ p \notin F /\ G \in SUBSET S /\ \A r \in S : r # p => (r \in F <=> r \in G)
      /\ F \subseteq G /\ U \in SUBSET S /\ p \notin U /\ p \in G /\ F = G \ {p} /\ U = S \ G
  BY <1>1
<1> HIDE DEF D, G, E
<1>4. FREE \in {FREE, ALLOC} /\ FREE = (IF p \in G THEN FREE ELSE ALLOC)
  BY <1>3
<1>5. Work(D, S, z, G, F, b) /\ Kept(M, D, z, U)
  <2>1. /\ p \in S /\ p \notin F /\ G \in SUBSET S /\ \A r \in S : r # p => (r \in F <=> r \in G)
        /\ F \subseteq G /\ U \in SUBSET S /\ p \notin U
    BY <1>3
  <2> QED
    BY <1>2, <1>4, <2>1, Flips
<1>6. PICK n \in Nat : n >= z[p] /\ Settled(D, coalesce(D, p).mem, z, U, b, coalesce(D, p).bp, n)
  BY <1>3, <1>5, Coalesces
<1>7. PICK T, L, y : /\ Work(E, T, y, L, L, b) /\ T \ L = U /\ \A q \in U : y[q] = z[q]
                     /\ Kept(D, E, z, U)
  BY <1>6 DEF Settled, E
<1>8. Kept(M, E, z, U)
  BY <1>5, <1>7, KeptOn
<1>9. Left(M, E, z, U, b)
  BY <1>7, <1>8 DEF Left
<1> QED
  BY <1>9 DEF D, E
-------------------------------------------------------------------------------
(* extend_heap.                                                              *)

\* A block at the old end b makes the heap longer: it ends at c, with T and G for the
\* blocks and the free ones.
Longer(S, z, F, b, T, y, G, c) ==
  /\ T = S \cup {b} /\ y \in [T -> Nat] /\ \A r \in S : y[r] = z[r]
  /\ y[b] % 2 = 0 /\ y[b] >= 4 /\ c = b + y[b] /\ c <= MaxHeap
  /\ G = F \cup {b}

\* The new block gets its tags, in place of the epilogue, and the heap a new epilogue.
LEMMA Lengthens ==
  ASSUME NEW M, NEW S, NEW z, NEW b, NEW F, Work(M, S, z, F, F, b),
         NEW T, NEW y, NEW G, NEW c, Longer(S, z, F, b, T, y, G, c),
         NEW D, D = PUT(Tag(M, b, y[b], FREE), c - 1, PACK(0, ALLOC)),
         NEW U, \A r \in U : r \in S /\ r \notin F
  PROVE  Work(D, T, y, G, F, c) /\ Kept(M, D, z, U)
<1>1. /\ M \in Mem /\ F \subseteq S /\ Tiled(S, z, b) /\ Tagged(M, S, z, F, b) /\ Linked(M, F, z)
  BY DEF Work
<1>2. /\ b \in T /\ y[b] \in Nat /\ y[b] >= 4 /\ c = b + y[b] /\ c <= MaxHeap
      /\ \A r \in S : y[r] = z[r] /\ r \in T
      /\ \A r \in T : r \in S \/ r = b
  BY DEF Longer
<1>3. b \in Nat /\ b % 2 = 0 /\ b <= MaxHeap /\ Start <= b
  BY <1>1 DEF Tiled
<1>4. Tiled(T, y, c) /\ b \notin S
  <2>1. PICK n \in Nat : n = y[b]
    BY <1>2
  <2>2. n % 2 = 0 /\ n >= 4 /\ b + n <= MaxHeap /\ y \in [S \cup {b} -> Nat] /\ y[b] = n /\ \A r \in S : y[r] = z[r]
    BY <2>1 DEF Longer
  <2>3. Tiled(S \cup {b}, y, b + n) /\ b \notin S
    BY <1>1, <2>2, TilesExtended
  <2> QED
    BY <2>1, <2>3 DEF Longer
<1> DEFINE A == Tag(M, b, y[b], FREE)
<1>5. /\ A \in Mem /\ A[b - 1] = PACK(y[b], FREE) /\ A[b + y[b] - 2] = PACK(y[b], FREE)
      /\ Same(M, A, Extent(y, b))
  <2>1. FREE \in {FREE, ALLOC} /\ M \in Mem /\ Tiled(T, y, c) /\ b \in T
    BY <1>1, <1>2, <1>4
  <2>2. A = Tag(M, b, y[b], FREE)
    OBVIOUS
  <2> HIDE DEF A
  <2> QED
    BY <2>1, <2>2, TagsBlock
<1>6. D = PUT(A, c - 1, PACK(0, ALLOC))
  OBVIOUS
<1> HIDE DEF A
<1>7. c \in Nat /\ c - 1 \in 0..(MaxHeap - 1) /\ PACK(0, ALLOC) \in Int /\ Start \in Nat /\ Start >= 6
  <2>1. Start \in Nat /\ Start >= 6 /\ MaxHeap \in Nat
    BY HeadsAre, MmHeapAssumption
  <2>2. c \in Nat /\ c >= 1
    BY <1>2, <1>3
  <2>3. c - 1 \in 0..(MaxHeap - 1)
    BY <1>2, <2>1, <2>2
  <2>4. PACK(0, ALLOC) \in Int
    BY DEF PACK, ALLOC
  <2> QED
    BY <2>1, <2>2, <2>3, <2>4
<1>8. D \in Mem /\ D[c - 1] = PACK(0, ALLOC) /\ \A a \in 0..(MaxHeap - 1) : a # c - 1 => D[a] = A[a]
  BY <1>5, <1>6, <1>7 DEF PUT, Mem
<1>9. \A a \in 0..(MaxHeap - 1) : a < b - 1 => D[a] = M[a]
  <2> SUFFICES ASSUME NEW a \in 0..(MaxHeap - 1), a < b - 1 PROVE D[a] = M[a]
    OBVIOUS
  <2>1. a \in Int /\ a # c - 1 /\ a \notin Extent(y, b)
    BY <1>2, <1>3, <1>7, MmHeapAssumption DEF Extent
  <2> QED
    BY <1>5, <1>8, <2>1 DEF Same
<1>10. D[b - 1] = PACK(y[b], FREE) /\ D[b + y[b] - 2] = PACK(y[b], FREE)
  <2>1. b - 1 \in 0..(MaxHeap - 1) /\ b + y[b] - 2 \in 0..(MaxHeap - 1) /\ b - 1 # c - 1 /\ b + y[b] - 2 # c - 1
    BY <1>2, <1>3, <1>7, MmHeapAssumption
  <2> QED
    BY <1>5, <1>8, <2>1
<1>11. Tagged(D, T, y, G, c)
  <2>1. \A r \in S : M[r - 1] = TagOf(z, F, r) /\ M[r + z[r] - 2] = TagOf(z, F, r)
    BY <1>1 DEF Tagged
  <2>2. M[Start - 3] = PACK(2, ALLOC) /\ M[Start - 2] = PACK(2, ALLOC)
    BY <1>1 DEF Tagged
  <2>3. D[Start - 3] = PACK(2, ALLOC) /\ D[Start - 2] = PACK(2, ALLOC)
    <3>1. Start - 3 \in 0..(MaxHeap - 1) /\ Start - 2 \in 0..(MaxHeap - 1) /\ Start - 3 < b - 1 /\ Start - 2 < b - 1
      BY <1>3, <1>7, MmHeapAssumption
    <3> QED
      BY <1>9, <2>2, <3>1
  <2>4. ASSUME NEW r \in S PROVE D[r - 1] = TagOf(y, G, r) /\ D[r + y[r] - 2] = TagOf(y, G, r)
    <3>1. r \in Nat /\ z[r] \in Nat /\ z[r] >= 4 /\ Start <= r /\ r + z[r] <= b
      BY <1>1, <2>4, TileOf
    <3>2. r - 1 \in 0..(MaxHeap - 1) /\ r + z[r] - 2 \in 0..(MaxHeap - 1) /\ r - 1 < b - 1 /\ r + z[r] - 2 < b - 1
      BY <1>3, <1>7, <3>1, MmHeapAssumption
    <3>3. D[r - 1] = TagOf(z, F, r) /\ D[r + z[r] - 2] = TagOf(z, F, r)
      BY <1>9, <2>1, <2>4, <3>2
    <3>4. y[r] = z[r] /\ (r \in G <=> r \in F)
      BY <1>2, <1>4, <2>4 DEF Longer
    <3> QED
      BY <3>3, <3>4 DEF TagOf
  <2>5. D[b - 1] = TagOf(y, G, b) /\ D[b + y[b] - 2] = TagOf(y, G, b)
    <3>1. b \in G
      BY DEF Longer
    <3> QED
      BY <1>10, <3>1 DEF TagOf
  <2>6. \A r \in T : D[r - 1] = TagOf(y, G, r) /\ D[r + y[r] - 2] = TagOf(y, G, r)
    BY <1>2, <2>4, <2>5
  <2> QED
    BY <1>8, <2>3, <2>6 DEF Tagged
<1>12. F \in SUBSET T /\ F \subseteq G /\ G \subseteq T /\ \A x \in F : z[x] = y[x]
  BY <1>1, <1>2 DEF Longer
<1>13. \A a \in LinkWords(F) : D[a] = M[a]
  <2>1. ASSUME NEW x \in F \cup Heads PROVE x \in Nat /\ x + 1 < b - 1
    <3>1. CASE x \in F
      <4>1. x \in S
        BY <1>1, <3>1
      <4>2. x \in Nat /\ z[x] \in Nat /\ z[x] >= 4 /\ x + z[x] <= b
        BY <1>1, <4>1, TileOf
      <4> QED
        BY <1>3, <4>2
    <3>2. CASE x \in Heads
      <4>1. x \in Nat /\ x + 2 <= Start - 4
        BY <3>2, HeadsAre
      <4> QED
        BY <1>3, <1>7, <4>1
    <3> QED
      BY <2>1, <3>1, <3>2
  <2>2. ASSUME NEW a \in LinkWords(F) PROVE a \in 0..(MaxHeap - 1) /\ a < b - 1
    <3>1. PICK x \in F \cup Heads : a = x \/ a = x + 1
      BY <2>2 DEF LinkWords, Pairs
    <3>2. x \in Nat /\ x + 1 < b - 1
      BY <2>1
    <3> QED
      BY <1>3, <3>1, <3>2, MmHeapAssumption
  <2> QED
    BY <1>9, <2>2
<1>14. Linked(D, F, y)
  BY <1>1, <1>4, <1>8, <1>12, <1>13, LinksStay
<1>15. Kept(M, D, z, U)
  <2> SUFFICES ASSUME NEW r \in U, NEW a \in Body(z, r) PROVE D[a] = M[a]
    BY DEF Kept
  <2>1. r \in S
    OBVIOUS
  <2>2. r \in Nat /\ z[r] \in Nat /\ r + z[r] <= b
    BY <1>1, <2>1, TileOf
  <2>3. a \in 0..(MaxHeap - 1) /\ a < b - 1
    BY <1>3, <2>2, MmHeapAssumption DEF Body
  <2> QED
    BY <1>9, <2>3
<1> QED
  BY <1>4, <1>8, <1>11, <1>12, <1>14, <1>15 DEF Work

\* A heap that has grown by n words has a free block of that size at least at its end,
\* merged with the one before it.
LEMMA Grows ==
  ASSUME NEW M, NEW S, NEW z, NEW b, NEW F, Work(M, S, z, F, F, b), NEW U, U = S \ F,
         NEW n \in Nat, n % 2 = 0, n >= 4, NEW c, c = b + n, c <= MaxHeap,
         NEW D, D = PUT(Tag(M, b, n, FREE), b + n - 1, PACK(0, ALLOC))
  PROVE  \E k \in Nat : k >= n /\ Settled(M, coalesce(D, b).mem, z, U, c, coalesce(D, b).bp, k)
<1> DEFINE T == S \cup {b}
           y == [r \in T |-> IF r = b THEN n ELSE z[r]]
           G == F \cup {b}
           E == coalesce(D, b).mem
           bp == coalesce(D, b).bp
<1>1. F \subseteq S /\ Tiled(S, z, b) /\ z \in [S -> Nat] /\ b \notin S /\ b \in Nat
  <2>1. F \subseteq S /\ Tiled(S, z, b)
    BY DEF Work
  <2>2. z \in [S -> Nat] /\ b \in Nat
    BY <2>1 DEF Tiled
  <2>3. b \notin S
    <3> SUFFICES ASSUME b \in S PROVE FALSE
      OBVIOUS
    <3>1. z[b] \in Nat /\ z[b] >= 4 /\ b + z[b] <= b
      BY <2>1, TileOf
    <3> QED
      BY <2>2, <3>1
  <2> QED
    BY <2>1, <2>2, <2>3
<1>2. y \in [T -> Nat] /\ y[b] = n /\ \A r \in S : y[r] = z[r]
  BY <1>1
<1>3. b \in G /\ F = G \ {b} /\ U = T \ G /\ b \notin U /\ \A r \in U : r \in S /\ r \notin F
  BY <1>1
<1>4. Longer(S, z, F, b, T, y, G, c)
  BY <1>1, <1>2 DEF Longer
<1>5. D = PUT(Tag(M, b, y[b], FREE), c - 1, PACK(0, ALLOC))
  BY <1>1, <1>2
<1> HIDE DEF T, y, G
<1>6. Work(D, T, y, G, F, c) /\ Kept(M, D, z, U)
  BY <1>3, <1>4, <1>5, Lengthens
<1>7. PICK k \in Nat : k >= y[b] /\ Settled(D, coalesce(D, b).mem, y, U, c, coalesce(D, b).bp, k)
  BY <1>3, <1>6, Coalesces
<1> HIDE DEF E, bp
<1>8. PICK X, L, w : /\ Work(E, X, w, L, L, c) /\ X \ L = U /\ \A q \in U : w[q] = y[q]
                     /\ Kept(D, E, y, U) /\ bp \in L /\ w[bp] = k
  BY <1>7 DEF Settled, E, bp
<1>9. \A q \in U : y[q] = z[q]
  BY <1>2, <1>3
<1>10. Kept(M, E, z, U)
  BY <1>6, <1>8, <1>9, KeptOn
<1>11. \A q \in U : w[q] = z[q]
  BY <1>8, <1>9
<1>12. Settled(M, E, z, U, c, bp, k)
  BY <1>8, <1>10, <1>11 DEF Settled
<1> QED
  BY <1>2, <1>7, <1>12 DEF E, bp
-------------------------------------------------------------------------------
(* find_fit.                                                                 *)

\* A set of numbers has a smallest one.
LEMMA Smallest ==
  ASSUME NEW S \in SUBSET Nat, S # {}
  PROVE  Min(S) \in S /\ \A m \in S : Min(S) <= m
<1>1. PICK n \in S : \A m \in S : ~ (<<m, n>> \in OpToRel(<, Nat))
  <2>1. IsWellFoundedOn(OpToRel(<, Nat), Nat)
    BY NatLessThanWellFounded
  <2> QED
    BY <2>1, WFMin
<1>2. \A m \in S : ~ (m < n)
  BY <1>1 DEF OpToRel
<1>3. \A m \in S : n <= m
  BY <1>2
<1> QED
  BY <1>3 DEF Min

Runs(f, n, c, step) == f[0] = c /\ \A i \in 1..n : f[i] = step[i][f[i - 1]]

\* A function of the numbers up to n can be defined step by step.
LEMMA RunsExist ==
  ASSUME NEW X, NEW c \in X, NEW step \in [Nat -> [X -> X]]
  PROVE  \A n \in Nat : \E f \in [0..n -> X] : Runs(f, n, c, step)
<1> DEFINE Bad == {n \in Nat : ~ \E f \in [0..n -> X] : Runs(f, n, c, step)}
<1> SUFFICES ASSUME Bad # {} PROVE FALSE
  OBVIOUS
<1>1. PICK n \in Bad : \A m \in Bad : n <= m
  <2>1. Bad \in SUBSET Nat
    OBVIOUS
  <2> QED
    BY <2>1, Smallest
<1>2. n \in Nat
  BY <1>1
<1>3. CASE n = 0
  <2> DEFINE f == [i \in 0..0 |-> c]
  <2>1. f \in [0..0 -> X] /\ Runs(f, 0, c, step)
    BY DEF Runs
  <2> QED
    BY <1>1, <1>3, <2>1
<1>4. CASE n > 0
  <2>1. n - 1 \in Nat /\ n - 1 \notin Bad
    BY <1>1, <1>2, <1>4
  <2>2. PICK f \in [0..(n - 1) -> X] : Runs(f, n - 1, c, step)
    BY <2>1
  <2> DEFINE g == [i \in 0..n |-> IF i = n THEN step[n][f[n - 1]] ELSE f[i]]
  <2>3. step[n][f[n - 1]] \in X
    BY <1>2, <2>1, <2>2
  <2>4. g \in [0..n -> X]
    BY <1>2, <1>4, <2>2, <2>3
  <2>5. g[0] = c
    BY <1>2, <1>4, <2>2 DEF Runs
  <2>6. ASSUME NEW i \in 1..n PROVE g[i] = step[i][g[i - 1]]
    <3>1. g[i - 1] = f[i - 1]
      BY <1>2, <1>4, <2>6
    <3>2. CASE i = n
      BY <1>2, <3>1, <3>2
    <3>3. CASE i # n
      <4>1. i \in 1..(n - 1) /\ g[i] = f[i]
        BY <1>2, <3>3
      <4> QED
        BY <2>2, <3>1, <4>1 DEF Runs
    <3> QED
      BY <3>2, <3>3
  <2> HIDE DEF g
  <2>7. Runs(g, n, c, step)
    BY <2>5, <2>6 DEF Runs
  <2> QED
    BY <1>1, <2>4, <2>7
<1> QED
  BY <1>2, <1>3, <1>4

ListWalk(w, M, index) ==
  w = [n \in 0..(MaxHeap \div 4) |->
        LET seen == w[n - 1]
            at   == M[IF seen = <<>> THEN ListHead(index) ELSE Last(seen)]
        IN  IF n = 0 THEN <<>>
            ELSE IF at = ListHead(index) \/ at \notin DOMAIN M THEN seen
            ELSE Append(seen, at)]

In(x, s) == \E i \in 1..Len(s) : s[i] = x
OneByOne(s) == \A i, j \in 1..Len(s) : s[i] = s[j] => i = j

\* FreeList is what a walk gathers.
LEMMA WalkOfList ==
  ASSUME NEW M, NEW index, NEW f, ListWalk(f, M, index)
  PROVE  \E w : ListWalk(w, M, index) /\ FreeList(M, index) = w[MaxHeap \div 4]
<1> DEFINE w == CHOOSE v : ListWalk(v, M, index)
<1>1. ListWalk(w, M, index)
  OBVIOUS
<1>2. FreeList(M, index) = w[MaxHeap \div 4]
  BY DEF FreeList, ListWalk
<1> QED
  BY <1>1, <1>2

\* The node a walk of a list stands at.
Where(index, seen) == IF seen = <<>> THEN ListHead(index) ELSE Last(seen)

\* A walk has seen blocks of the list only, each linked from the one before, and none twice.
Trail(M, F, z, index, seen) ==
  /\ seen \in Seq(F) /\ OneByOne(seen)
  /\ \A i \in 1..Len(seen) : /\ ListOf(z, seen[i]) = index
                             /\ seen[i] = M[IF i = 1 THEN ListHead(index) ELSE seen[i - 1]]

\* The rings seen from a node.
LEMMA RingOf ==
  ASSUME NEW M, NEW F, NEW z, Linked(M, F, z), NEW x \in F \cup Heads
  PROVE  /\ M[x] \in F \cup Heads /\ M[x + 1] \in F \cup Heads
         /\ M[M[x] + 1] = x /\ M[M[x + 1]] = x /\ ListOf(z, M[x]) = ListOf(z, x)
BY DEF Linked, Rings

\* A list has one head.
LEMMA OneHead ==
  ASSUME NEW z, NEW index \in 0..(LIST_NUM - 1)
  PROVE  /\ ListHead(index) \in Heads /\ ListOf(z, ListHead(index)) = index
         /\ \A x \in Heads : ListOf(z, x) = index => x = ListHead(index)
<1>1. ListHead(index) \in Heads /\ ListHead(index) \div 2 = index
  BY HeadsAre
<1>2. ASSUME NEW x \in Heads, ListOf(z, x) = index PROVE x = ListHead(index)
  <2>1. x \div 2 = index /\ x = ListHead(x \div 2)
    BY <1>2, HeadsAre DEF ListOf
  <2> QED
    BY <2>1
<1> QED
  BY <1>1, <1>2 DEF ListOf

\* Where a walk stands is a node of its list.
LEMMA StandsInList ==
  ASSUME NEW M, NEW F, NEW z, NEW index \in 0..(LIST_NUM - 1), NEW seen, Trail(M, F, z, index, seen)
  PROVE  Where(index, seen) \in F \cup Heads /\ ListOf(z, Where(index, seen)) = index
<1>1. CASE seen = <<>>
  BY <1>1, OneHead DEF Where
<1>2. CASE seen # <<>>
  <2>1. seen \in Seq(F) /\ \A i \in 1..Len(seen) : ListOf(z, seen[i]) = index
    BY DEF Trail
  <2>2. Len(seen) \in 1..Len(seen) /\ Where(index, seen) = seen[Len(seen)] /\ seen[Len(seen)] \in F
    BY <1>2, <2>1 DEF Last, Where
  <2> QED
    BY <2>1, <2>2
<1> QED
  BY <1>1, <1>2

\* A walk that is not back at the head meets a block it has not seen.
LEMMA TrailOn ==
  ASSUME NEW M \in Mem, NEW S, NEW z, NEW b, Tiled(S, z, b), NEW F \in SUBSET S, Linked(M, F, z),
         NEW index \in 0..(LIST_NUM - 1), NEW seen, Trail(M, F, z, index, seen),
         NEW at, at = M[Where(index, seen)], at # ListHead(index)
  PROVE  at \in DOMAIN M /\ Trail(M, F, z, index, Append(seen, at))
<1> DEFINE h == ListHead(index)
           new == Append(seen, at)
<1>1. PICK cur : cur = Where(index, seen) /\ cur \in F \cup Heads /\ ListOf(z, cur) = index
  BY StandsInList
<1>2. at = M[cur] /\ M[at + 1] = cur /\ at \in F \cup Heads /\ ListOf(z, at) = index
  BY <1>1, RingOf
<1>3. at \in F
  BY <1>2, OneHead
<1>4. at \in DOMAIN M
  <2>1. at \in S
    BY <1>3
  <2> QED
    BY <2>1, ExtentInHeap DEF Mem
<1>5. /\ seen \in Seq(F) /\ OneByOne(seen)
      /\ \A i \in 1..Len(seen) : ListOf(z, seen[i]) = index /\ seen[i] = M[IF i = 1 THEN h ELSE seen[i - 1]]
  BY DEF Trail
<1>6. h \in Heads /\ M[M[h] + 1] = h
  <2>1. h \in Heads
    BY OneHead
  <2>2. h \in F \cup Heads
    BY <2>1
  <2> QED
    BY <2>1, <2>2, RingOf
<1>7. Len(seen) \in Nat /\ (seen = <<>> => cur = h) /\ (seen # <<>> => Len(seen) \in 1..Len(seen) /\ cur = seen[Len(seen)])
  BY <1>1, <1>5 DEF Where, Last
<1> HIDE DEF h
<1>8. \A x \in F : x # h
  BY <1>6, NoHeads
<1>9. ASSUME NEW i \in 1..Len(seen) PROVE seen[i] # at
  <2> SUFFICES ASSUME seen[i] = at PROVE FALSE
    OBVIOUS
  <2>1. seen # <<>> /\ cur = seen[Len(seen)] /\ Len(seen) \in 1..Len(seen) /\ cur \in F
    BY <1>5, <1>7, <1>9
  <2>2. CASE i = 1
    <3>1. at = M[h]
      BY <1>5, <2>2
    <3>2. cur = h
      BY <1>2, <1>6, <3>1
    <3> QED
      BY <1>8, <2>1, <3>2
  <2>3. CASE i # 1
    <3>1. i - 1 \in 1..Len(seen) /\ i \in Nat
      BY <1>7, <1>9, <2>3
    <3>2. PICK q \in F : q = seen[i - 1]
      BY <1>5, <3>1
    <3>3. at = M[q]
      BY <1>5, <2>3, <3>2
    <3>4. q = cur
      <4>1. q \in F \cup Heads
        OBVIOUS
      <4>2. M[M[q] + 1] = q
        BY <4>1, RingOf
      <4> QED
        BY <1>2, <3>3, <4>2
    <3>5. i - 1 = Len(seen)
      BY <1>5, <2>1, <3>1, <3>2, <3>4 DEF OneByOne
    <3> QED
      BY <1>7, <3>1, <3>5
  <2> QED
    BY <2>2, <2>3
<1>10. /\ new \in Seq(F) /\ Len(new) = Len(seen) + 1 /\ new[Len(new)] = at
       /\ \A i \in 1..Len(seen) : new[i] = seen[i]
  BY <1>3, <1>5
<1> HIDE DEF new
<1>11. OneByOne(new)
  <2> SUFFICES ASSUME NEW i \in 1..Len(new), NEW j \in 1..Len(new), new[i] = new[j] PROVE i = j
    BY DEF OneByOne
  <2>1. (i \in 1..Len(seen) \/ i = Len(new)) /\ (j \in 1..Len(seen) \/ j = Len(new))
    BY <1>7, <1>10
  <2> QED
    BY <1>5, <1>9, <1>10, <2>1 DEF OneByOne
<1>12. ASSUME NEW i \in 1..Len(new)
       PROVE  ListOf(z, new[i]) = index /\ new[i] = M[IF i = 1 THEN h ELSE new[i - 1]]
  <2>1. CASE i \in 1..Len(seen)
    <3>1. i # 1 => i - 1 \in 1..Len(seen)
      BY <1>7, <2>1
    <3>2. i # 1 => new[i - 1] = seen[i - 1]
      BY <1>10, <3>1
    <3> QED
      BY <1>5, <1>10, <2>1, <3>2
  <2>2. CASE i = Len(new)
    <3>1. i # 1 => Len(seen) \in 1..Len(seen) /\ i - 1 = Len(seen) /\ seen # <<>>
      BY <1>7, <1>10, <2>2
    <3>2. i = 1 => seen = <<>>
      BY <1>5, <1>7, <1>10, <2>2
    <3>3. i # 1 => new[i - 1] = cur
      BY <1>7, <1>10, <3>1
    <3> QED
      BY <1>2, <1>7, <1>10, <2>2, <3>2, <3>3
  <2> QED
    BY <1>7, <1>10, <2>1, <2>2
<1>13. Trail(M, F, z, index, new)
  BY <1>10, <1>11, <1>12 DEF Trail, h
<1> QED
  BY <1>4, <1>13 DEF new

\* A walk that is back at the head has seen the whole list: what it had not seen would be
\* a ring of its own.
LEMMA TrailEnds ==
  ASSUME NEW M, NEW S, NEW z, NEW b, Tiled(S, z, b), NEW F \in SUBSET S, Linked(M, F, z),
         NEW index \in 0..(LIST_NUM - 1), NEW seen, Trail(M, F, z, index, seen),
         M[Where(index, seen)] = ListHead(index)
  PROVE  \A x \in F : ListOf(z, x) = index => In(x, seen)
<1> DEFINE h == ListHead(index)
           C == {x \in F : ListOf(z, x) = index /\ ~In(x, seen)}
<1>1. PICK cur : cur = Where(index, seen) /\ cur \in F \cup Heads /\ M[cur] = h
  BY StandsInList
<1>2. M[h + 1] = cur
  BY <1>1, RingOf
<1>3. h \in Heads /\ \A x \in F : x # h
  BY OneHead, NoHeads
<1>4. /\ seen \in Seq(F)
      /\ \A i \in 1..Len(seen) : seen[i] = M[IF i = 1 THEN h ELSE seen[i - 1]]
  BY DEF Trail
<1>5. cur = h \/ In(cur, seen)
  BY <1>1, <1>4 DEF Where, Last, In
<1>6. M[M[h] + 1] = h
  <2>1. h \in F \cup Heads
    BY <1>3
  <2> QED
    BY <2>1, RingOf
<1> HIDE DEF h
<1>7. ASSUME NEW x \in C PROVE M[x] \in C
  <2>1. x \in F /\ ListOf(z, x) = index /\ ~In(x, seen) /\ x \in F \cup Heads
    OBVIOUS
  <2>2. PICK y : y = M[x] /\ y \in F \cup Heads /\ M[y + 1] = x /\ ListOf(z, y) = index
    BY <2>1, RingOf
  <2>3. y # h
    BY <1>2, <1>3, <1>5, <2>1, <2>2
  <2>4. y \in F
    BY <2>2, <2>3, OneHead DEF h
  <2>5. ASSUME NEW i \in 1..Len(seen), seen[i] = y PROVE FALSE
    <3>1. CASE i = 1
      BY <1>3, <1>4, <1>6, <2>1, <2>2, <2>5, <3>1
    <3>2. CASE i # 1
      <4>1. i - 1 \in 1..Len(seen)
        BY <1>4, <3>2
      <4>2. PICK q \in F : q = seen[i - 1]
        BY <1>4, <4>1
      <4>3. q \in F \cup Heads /\ M[q] = y
        BY <1>4, <2>5, <3>2, <4>2
      <4>4. q = x
        BY <2>2, <4>3, RingOf
      <4> QED
        BY <2>1, <4>1, <4>2, <4>4 DEF In
    <3> QED
      BY <3>1, <3>2
  <2>6. ~In(y, seen)
    BY <2>5 DEF In
  <2> QED
    BY <2>2, <2>4, <2>6
<1>8. C \in SUBSET F
  OBVIOUS
<1> HIDE DEF C
<1>9. C = {}
  BY <1>7, <1>8 DEF Linked, NoLoops
<1> QED
  BY <1>9 DEF C

\* There are fewer blocks than steps in a walk.
LEMMA FewBlocks ==
  ASSUME NEW S, NEW z, NEW b, Tiled(S, z, b), NEW seen \in Seq(S), OneByOne(seen)
  PROVE  Len(seen) < MaxHeap \div 4
<1> DEFINE K == MaxHeap \div 4
           n == Len(seen)
           f == [i \in 1..n |-> seen[i] \div 4]
<1>1. n \in Nat /\ K \in Nat /\ MaxHeap \in Nat
  BY MmHeapAssumption
<1>2. ASSUME NEW i \in 1..n PROVE seen[i] \in S /\ seen[i] \div 4 \in 1..(K - 1)
  <2>1. seen[i] \in S
    OBVIOUS
  <2>2. PICK p \in Nat : p = seen[i] /\ p >= 6 /\ p + 4 <= MaxHeap
    <3>1. seen[i] \in Nat /\ Start <= seen[i] /\ z[seen[i]] \in Nat /\ z[seen[i]] >= 4 /\ seen[i] + z[seen[i]] <= b
          /\ b \in Nat /\ b <= MaxHeap
      BY <2>1, TileOf
    <3> QED
      BY <1>1, <3>1, HeadsAre
  <2>3. p \div 4 >= 1 /\ p \div 4 <= K - 1 /\ p \div 4 \in Int
    BY <1>1, <2>2
  <2> QED
    BY <1>1, <2>1, <2>2, <2>3
<1>3. ASSUME NEW i \in 1..n, NEW j \in 1..n, f[i] = f[j] PROVE i = j
  <2>1. PICK p \in S : p = seen[i]
    BY <1>2
  <2>2. PICK q \in S : q = seen[j]
    BY <1>2
  <2>3. p \div 4 = q \div 4
    BY <1>3, <2>1, <2>2
  <2>4. p \in Nat /\ q \in Nat /\ z[p] \in Nat /\ z[p] >= 4 /\ z[q] \in Nat /\ z[q] >= 4
        /\ (p # q => p + z[p] <= q \/ q + z[q] <= p)
    BY TileOf, TilesApart
  <2>5. p = q
    BY <2>3, <2>4
  <2> QED
    BY <2>1, <2>2, <2>5 DEF OneByOne
<1> SUFFICES ASSUME ~(n < K) PROVE FALSE
  BY DEF n, K
<1>4. f \in [1..n -> 1..(K - 1)]
  BY <1>2
<1> HIDE DEF f, n, K
<1>5. n >= K /\ (K = 0 \/ K >= 1)
  BY <1>1
<1>6. IsFiniteSet(1..n) /\ Cardinality(1..n) = n
  BY <1>1, FS_Interval
<1>7. CASE K = 0
  <2>1. 1..(K - 1) = {}
    BY <1>7
  <2>2. n = 0 \/ 1 \in 1..n
    BY <1>1
  <2>3. MaxHeap >= 4
    BY MmHeapAssumption
  <2> QED
    BY <1>7, <2>3, MmHeapAssumption DEF K
<1>8. CASE K >= 1
  <2>1. IsFiniteSet(1..(K - 1)) /\ Cardinality(1..(K - 1)) = K - 1
    BY <1>1, <1>8, FS_Interval
  <2>2. Cardinality(1..(K - 1)) < Cardinality(1..n)
    BY <1>1, <1>5, <1>6, <2>1
  <2>3. \E i, j \in 1..n : i # j /\ f[i] = f[j]
    BY <1>4, <1>6, <2>1, <2>2, FS_PigeonHole
  <2> QED
    BY <1>3, <2>3
<1> QED
  BY <1>5, <1>7, <1>8

\* A sequence of all blocks of a list, each once.
WholeList(F, z, index, s) ==
  /\ s \in Seq(F) /\ OneByOne(s)
  /\ \A x \in F : In(x, s) <=> ListOf(z, x) = index

\* The walk of a list from its head meets all its blocks.
LEMMA ListsAreWhole ==
  ASSUME NEW M \in Mem, NEW S, NEW z, NEW b, Tiled(S, z, b), NEW F \in SUBSET S, Linked(M, F, z),
         NEW index \in 0..(LIST_NUM - 1)
  PROVE  WholeList(F, z, index, FreeList(M, index))
<1> DEFINE K == MaxHeap \div 4
           h == ListHead(index)
           X == {seen \in Seq(F) : Trail(M, F, z, index, seen)}
           next(seen) == M[IF seen = <<>> THEN h ELSE Last(seen)]
           more(seen) == IF next(seen) = h \/ next(seen) \notin DOMAIN M THEN seen
                         ELSE Append(seen, next(seen))
           step == [n \in Nat |-> [seen \in X |-> more(seen)]]
<1>1. K \in Nat
  BY MmHeapAssumption
<1>2. \A seen \in X : seen \in Seq(F) /\ Trail(M, F, z, index, seen)
  OBVIOUS
<1>3. <<>> \in X
  BY DEF Trail, OneByOne
<1>4. ASSUME NEW seen \in X
      PROVE  more(seen) \in X /\ (next(seen) = h => more(seen) = seen)
             /\ (next(seen) # h => Len(more(seen)) = Len(seen) + 1)
  <2>1. seen \in Seq(F) /\ Trail(M, F, z, index, seen)
    BY <1>4
  <2>2. PICK at : at = next(seen) /\ at = M[Where(index, seen)]
    BY DEF Where
  <2>3. more(seen) = IF at = h \/ at \notin DOMAIN M THEN seen ELSE Append(seen, at)
    BY <2>2
  <2> HIDE DEF next, more
  <2>4. CASE at = h
    BY <1>4, <2>2, <2>3, <2>4
  <2>5. CASE at # h
    <3>1. at \in DOMAIN M /\ Trail(M, F, z, index, Append(seen, at))
      BY <2>1, <2>2, <2>5, TrailOn
    <3>2. Append(seen, at) \in Seq(F)
      BY <3>1 DEF Trail
    <3>3. at \in F
      BY <2>1, <3>2
    <3>4. more(seen) = Append(seen, at)
      BY <2>3, <2>5, <3>1
    <3>5. Len(Append(seen, at)) = Len(seen) + 1
      BY <2>1, <3>3
    <3> QED
      BY <2>2, <2>5, <3>1, <3>2, <3>4, <3>5
  <2> QED
    BY <2>4, <2>5
<1> HIDE DEF X
<1>9. step \in [Nat -> [X -> X]]
  BY <1>4
<1>10. PICK f \in [0..K -> X] : Runs(f, K, <<>>, step)
  BY <1>1, <1>3, <1>9, RunsExist
<1>11. f[0] = <<>> /\ \A n \in 1..K : f[n] = more(f[n - 1])
  <2>1. \A n \in Nat : \A seen \in X : step[n][seen] = more(seen)
    OBVIOUS
  <2> HIDE DEF step, more, K
  <2>2. f[0] = <<>> /\ \A n \in 1..K : f[n] = step[n][f[n - 1]]
    BY <1>10 DEF Runs
  <2> SUFFICES ASSUME NEW n \in 1..K PROVE f[n] = more(f[n - 1])
    BY <2>2
  <2>3. n \in Nat /\ n - 1 \in 0..K
    BY <1>1
  <2>4. f[n - 1] \in X
    BY <1>10, <2>3
  <2> QED
    BY <2>1, <2>2, <2>3, <2>4
<1> HIDE DEF step
<1>12. ListWalk(f, M, index)
  <2>1. \A n \in 0..K : f[n] = IF n = 0 THEN <<>> ELSE more(f[n - 1])
    <3> HIDE DEF more, K
    <3> QED
      BY <1>1, <1>11
  <2>2. f = [n \in 0..K |-> f[n]]
    OBVIOUS
  <2>3. f = [n \in 0..K |-> IF n = 0 THEN <<>> ELSE more(f[n - 1])]
    BY <2>1, <2>2
  <2> QED
    BY <2>3 DEF ListWalk
<1>13. PICK w : ListWalk(w, M, index) /\ FreeList(M, index) = w[K]
  BY <1>12, WalkOfList
<1>14. \A n \in 0..K : w[n] = IF n = 0 THEN <<>> ELSE more(w[n - 1])
  BY <1>13 DEF ListWalk
<1> HIDE DEF more, next, K, h
<1> DEFINE Bad == {n \in Nat : n <= K /\ ~(w[n] \in X /\ (next(w[n]) = h \/ Len(w[n]) = n))}
<1>15. Bad = {}
  <2> SUFFICES ASSUME Bad # {} PROVE FALSE
    OBVIOUS
  <2>1. PICK n \in Bad : \A m \in Bad : n <= m
    <3>1. Bad \in SUBSET Nat
      OBVIOUS
    <3> QED
      BY <3>1, Smallest
  <2>2. n \in 0..K /\ ~(w[n] \in X /\ (next(w[n]) = h \/ Len(w[n]) = n))
    BY <1>1, <2>1
  <2>3. n # 0
    BY <1>3, <1>14, <2>2
  <2>4. n - 1 \in Nat /\ n - 1 <= K /\ n - 1 \notin Bad
    BY <1>1, <2>1, <2>2, <2>3
  <2>5. w[n - 1] \in X /\ (next(w[n - 1]) = h \/ Len(w[n - 1]) = n - 1)
    BY <2>4
  <2>6. w[n] = more(w[n - 1])
    BY <1>14, <2>2, <2>3
  <2>7. CASE next(w[n - 1]) = h
    <3>1. w[n] = w[n - 1]
      BY <1>4, <2>5, <2>6, <2>7
    <3> QED
      BY <2>2, <2>5, <2>7, <3>1
  <2>8. CASE next(w[n - 1]) # h
    <3>1. w[n] \in X /\ Len(w[n]) = Len(w[n - 1]) + 1
      BY <1>4, <2>5, <2>6, <2>8
    <3> QED
      BY <2>2, <2>4, <2>5, <2>8, <3>1
  <2> QED
    BY <2>7, <2>8
<1>16. w[K] \in X /\ (next(w[K]) = h \/ Len(w[K]) = K)
  BY <1>1, <1>15
<1> DEFINE s == FreeList(M, index)
<1>17. s \in Seq(F) /\ Trail(M, F, z, index, s) /\ (next(s) = h \/ Len(s) = K)
  BY <1>2, <1>13, <1>16
<1> HIDE DEF s
<1>18. OneByOne(s) /\ \A i \in 1..Len(s) : ListOf(z, s[i]) = index
  BY <1>17 DEF Trail
<1>19. next(s) = h
  <2>1. s \in Seq(S)
    BY <1>17
  <2>2. Len(s) < K
    BY <1>18, <2>1, FewBlocks DEF K
  <2> QED
    BY <1>1, <1>17, <2>2
<1>20. \A x \in F : ListOf(z, x) = index => In(x, s)
  <2>1. M[Where(index, s)] = ListHead(index)
    BY <1>19 DEF next, h, Where
  <2> QED
    BY <1>17, <2>1, TrailEnds
<1> QED
  BY <1>17, <1>18, <1>20 DEF WholeList, In, s

Flattening(w, seqs) ==
  w = [i \in 1..Len(seqs) |-> IF i = 1 THEN seqs[i] ELSE w[i - 1] \o seqs[i]]

\* FlattenSeq is what a concatenation from left to right gathers.
LEMMA FlattenIs ==
  ASSUME NEW seqs, Len(seqs) # 0, NEW f, Flattening(f, seqs)
  PROVE  \E w : Flattening(w, seqs) /\ FlattenSeq(seqs) = w[Len(seqs)]
<1> DEFINE w == CHOOSE v : Flattening(v, seqs)
<1>1. Flattening(w, seqs)
  OBVIOUS
<1>2. FlattenSeq(seqs) = w[Len(seqs)]
  BY DEF FlattenSeq, Flattening
<1> QED
  BY <1>1, <1>2

\* The elements of the first n sequences, each once.
Gathers(s, F, seqs, n) ==
  s \in Seq(F) /\ OneByOne(s) /\ \A x : In(x, s) <=> \E i \in 1..n : In(x, seqs[i])

\* Sequences over F without repetition, and no two with a common element.
Separate(F, seqs, m) ==
  /\ \A i \in 1..m : seqs[i] \in Seq(F) /\ OneByOne(seqs[i])
  /\ \A i, j \in 1..m : \A x : In(x, seqs[i]) /\ In(x, seqs[j]) => i = j

\* What is in a concatenation.
LEMMA Concatenation ==
  ASSUME NEW F, NEW s \in Seq(F), NEW t \in Seq(F)
  PROVE  s \o t \in Seq(F) /\ \A x : In(x, s \o t) <=> In(x, s) \/ In(x, t)
<1>1. /\ Len(s) \in Nat /\ Len(t) \in Nat /\ s \o t \in Seq(F) /\ Len(s \o t) = Len(s) + Len(t)
      /\ \A i \in 1..(Len(s) + Len(t)) : (s \o t)[i] = IF i <= Len(s) THEN s[i] ELSE t[i - Len(s)]
  OBVIOUS
<1> SUFFICES ASSUME NEW x PROVE In(x, s \o t) <=> In(x, s) \/ In(x, t)
  BY <1>1
<1>2. ASSUME In(x, s \o t) PROVE In(x, s) \/ In(x, t)
  <2>1. PICK i \in 1..(Len(s) + Len(t)) : (s \o t)[i] = x
    BY <1>1, <1>2 DEF In
  <2>2. CASE i <= Len(s)
    <3>1. i \in 1..Len(s) /\ s[i] = x
      BY <1>1, <2>1, <2>2
    <3> QED
      BY <3>1 DEF In
  <2>3. CASE ~(i <= Len(s))
    <3>1. i - Len(s) \in 1..Len(t) /\ t[i - Len(s)] = x
      BY <1>1, <2>1, <2>3
    <3> QED
      BY <3>1 DEF In
  <2> QED
    BY <2>2, <2>3
<1>3. ASSUME In(x, s) PROVE In(x, s \o t)
  <2>1. PICK i \in 1..Len(s) : s[i] = x
    BY <1>3 DEF In
  <2>2. i \in 1..(Len(s) + Len(t)) /\ (s \o t)[i] = x
    BY <1>1, <2>1
  <2> QED
    BY <1>1, <2>2 DEF In
<1>4. ASSUME In(x, t) PROVE In(x, s \o t)
  <2>1. PICK i \in 1..Len(t) : t[i] = x
    BY <1>4 DEF In
  <2>2. PICK k : k = i + Len(s)
    OBVIOUS
  <2>3. k \in 1..(Len(s) + Len(t)) /\ ~(k <= Len(s)) /\ k - Len(s) = i
    BY <1>1, <2>2
  <2>4. (s \o t)[k] = x
    BY <1>1, <2>1, <2>3
  <2> QED
    BY <1>1, <2>3, <2>4 DEF In
<1> QED
  BY <1>2, <1>3, <1>4

\* Two sequences without repetition and common elements make one without repetition.
LEMMA NoneTwice ==
  ASSUME NEW F, NEW s \in Seq(F), NEW t \in Seq(F), OneByOne(s), OneByOne(t), \A x : ~(In(x, s) /\ In(x, t))
  PROVE  OneByOne(s \o t)
<1>1. /\ Len(s) \in Nat /\ Len(t) \in Nat /\ Len(s \o t) = Len(s) + Len(t)
      /\ \A i \in 1..(Len(s) + Len(t)) : (s \o t)[i] = IF i <= Len(s) THEN s[i] ELSE t[i - Len(s)]
  OBVIOUS
<1>2. \A i \in 1..(Len(s) + Len(t)) : \/ i <= Len(s) /\ i \in 1..Len(s) /\ (s \o t)[i] = s[i]
                                      \/ ~(i <= Len(s)) /\ i - Len(s) \in 1..Len(t) /\ (s \o t)[i] = t[i - Len(s)]
  BY <1>1
<1> SUFFICES ASSUME NEW i \in 1..(Len(s) + Len(t)), NEW j \in 1..(Len(s) + Len(t)), (s \o t)[i] = (s \o t)[j]
             PROVE  i = j
  BY <1>1 DEF OneByOne
<1>3. PICK u : u = s \o t
  OBVIOUS
<1>4. \A k \in 1..Len(s) : In(s[k], s)
  BY DEF In
<1>5. \A k \in 1..Len(t) : In(t[k], t)
  BY DEF In
<1>6. CASE i <= Len(s) /\ j <= Len(s)
  BY <1>2, <1>6 DEF OneByOne
<1>7. CASE ~(i <= Len(s)) /\ ~(j <= Len(s))
  <2>1. i - Len(s) \in 1..Len(t) /\ j - Len(s) \in 1..Len(t) /\ t[i - Len(s)] = t[j - Len(s)]
    BY <1>2, <1>7
  <2>2. i - Len(s) = j - Len(s)
    BY <2>1 DEF OneByOne
  <2> QED
    BY <1>1, <2>2
<1>8. CASE i <= Len(s) /\ ~(j <= Len(s))
  BY <1>2, <1>4, <1>5, <1>8
<1>9. CASE ~(i <= Len(s)) /\ j <= Len(s)
  BY <1>2, <1>4, <1>5, <1>9
<1> QED
  BY <1>6, <1>7, <1>8, <1>9

\* One sequence more.
LEMMA GathersOne ==
  ASSUME NEW F, NEW seqs, NEW m \in Nat, Separate(F, seqs, m), NEW n \in 1..m,
         NEW s, Gathers(s, F, seqs, n - 1)
  PROVE  Gathers(s \o seqs[n], F, seqs, n)
<1>1. s \in Seq(F) /\ OneByOne(s) /\ \A x : In(x, s) <=> \E i \in 1..(n - 1) : In(x, seqs[i])
  BY DEF Gathers
<1>2. PICK t : t = seqs[n] /\ t \in Seq(F) /\ OneByOne(t)
  BY DEF Separate
<1>3. \A x : ~(In(x, s) /\ In(x, t))
  <2> SUFFICES ASSUME NEW x, In(x, s), In(x, t) PROVE FALSE
    OBVIOUS
  <2>1. PICK i \in 1..(n - 1) : In(x, seqs[i])
    BY <1>1
  <2>2. i \in 1..m /\ i # n
    BY <2>1
  <2> QED
    BY <1>2, <2>1, <2>2 DEF Separate
<1>4. s \o t \in Seq(F) /\ OneByOne(s \o t) /\ \A x : In(x, s \o t) <=> In(x, s) \/ In(x, t)
  BY <1>1, <1>2, <1>3, Concatenation, NoneTwice
<1>5. ASSUME NEW x PROVE In(x, s \o t) <=> \E i \in 1..n : In(x, seqs[i])
  <2>1. \A i \in 1..n : i \in 1..(n - 1) \/ i = n
    OBVIOUS
  <2>2. n \in 1..n /\ \A i \in 1..(n - 1) : i \in 1..n
    OBVIOUS
  <2>3. In(x, t) => \E i \in 1..n : In(x, seqs[i])
    BY <1>2, <2>2
  <2>4. In(x, s) => \E i \in 1..n : In(x, seqs[i])
    BY <1>1, <2>2
  <2>5. (\E i \in 1..n : In(x, seqs[i])) => In(x, s) \/ In(x, t)
    BY <1>1, <1>2, <2>1
  <2> QED
    BY <1>4, <2>3, <2>4, <2>5
<1> QED
  BY <1>2, <1>4, <1>5 DEF Gathers

\* FlattenSeq gathers sequences.
LEMMA FlattenGathers ==
  ASSUME NEW F, NEW seqs, NEW m \in Nat, m # 0, Len(seqs) = m, Separate(F, seqs, m)
  PROVE  Gathers(FlattenSeq(seqs), F, seqs, m)
<1> DEFINE X == Seq(F)
           step == [n \in Nat |-> [s \in X |-> IF n \in 1..m THEN s \o seqs[n] ELSE s]]
<1>0. \A i \in 1..m : seqs[i] \in Seq(F)
  BY DEF Separate
<1>1. step \in [Nat -> [X -> X]]
  BY <1>0
<1>2. \A n \in 1..m : \A s \in X : step[n][s] = s \o seqs[n]
  OBVIOUS
<1>3. <<>> \in X
  OBVIOUS
<1>4. \A i \in 1..m : seqs[i] \in X /\ <<>> \o seqs[i] = seqs[i]
  BY <1>0
<1> HIDE DEF X, step
<1>6. PICK g \in [0..m -> X] : Runs(g, m, <<>>, step)
  BY <1>1, <1>3, RunsExist
<1> DEFINE f == [i \in 1..m |-> g[i]]
<1>7. g[0] = <<>> /\ \A i \in 1..m : g[i] = step[i][g[i - 1]] /\ g[i - 1] \in X
  BY <1>6 DEF Runs
<1>8. \A i \in 1..m : f[i] = IF i = 1 THEN seqs[i] ELSE f[i - 1] \o seqs[i]
  <2> SUFFICES ASSUME NEW i \in 1..m PROVE f[i] = IF i = 1 THEN seqs[i] ELSE f[i - 1] \o seqs[i]
    OBVIOUS
  <2>1. f[i] = g[i - 1] \o seqs[i]
    BY <1>2, <1>7
  <2>2. CASE i = 1
    <3>1. g[i - 1] = <<>> /\ <<>> \o seqs[i] = seqs[i]
      BY <1>4, <1>7, <2>2
    <3> HIDE DEF f
    <3> QED
      BY <2>1, <2>2, <3>1, Zenon
  <2>3. CASE i # 1
    <3>1. f[i - 1] = g[i - 1]
      BY <2>3
    <3> HIDE DEF f
    <3>2. f[i] = f[i - 1] \o seqs[i]
      BY <2>1, <3>1, Zenon
    <3> QED
      BY <2>3, <3>2, Zenon
  <2> QED
    BY <2>2, <2>3
<1>9. f = [i \in 1..m |-> f[i]]
  OBVIOUS
<1> HIDE DEF f
<1>10. Flattening(f, seqs)
  <2>1. f = [i \in 1..m |-> IF i = 1 THEN seqs[i] ELSE f[i - 1] \o seqs[i]]
    BY <1>8, <1>9
  <2> QED
    BY <2>1 DEF Flattening
<1>11. PICK w : Flattening(w, seqs) /\ FlattenSeq(seqs) = w[m]
  BY <1>10, FlattenIs
<1>12. \A i \in 1..m : w[i] = IF i = 1 THEN <<>> \o seqs[i] ELSE w[i - 1] \o seqs[i]
  BY <1>4, <1>11 DEF Flattening
<1>5. Gathers(<<>>, F, seqs, 0)
  BY DEF Gathers, OneByOne, In
<1> DEFINE Bad == {n \in Nat : n \in 1..m /\ ~Gathers(w[n], F, seqs, n)}
<1>13. Bad = {}
  <2> SUFFICES ASSUME Bad # {} PROVE FALSE
    OBVIOUS
  <2>1. PICK n \in Bad : \A k \in Bad : n <= k
    <3>1. Bad \in SUBSET Nat
      OBVIOUS
    <3> QED
      BY <3>1, Smallest
  <2>2. n \in 1..m /\ ~Gathers(w[n], F, seqs, n)
    BY <2>1
  <2>3. CASE n = 1
    <3>1. n - 1 = 0 /\ w[n] = <<>> \o seqs[n]
      BY <1>12, <2>2, <2>3
    <3>2. Gathers(<<>>, F, seqs, n - 1)
      BY <1>5, <3>1
    <3> QED
      BY <2>2, <3>1, <3>2, GathersOne
  <2>4. CASE n # 1
    <3>1. n - 1 \in Nat /\ n - 1 \in 1..m /\ n - 1 \notin Bad
      BY <2>1, <2>2, <2>4
    <3>2. Gathers(w[n - 1], F, seqs, n - 1) /\ w[n] = w[n - 1] \o seqs[n]
      BY <1>12, <2>2, <2>4, <3>1
    <3> QED
      BY <2>2, <3>2, GathersOne
  <2> QED
    BY <2>3, <2>4
<1>14. m \in 1..m
  OBVIOUS
<1> QED
  BY <1>11, <1>13, <1>14

\* A sequence of all free blocks of the lists from i on, each once.
AllFrom(F, z, i, s) ==
  s \in Seq(F) /\ OneByOne(s) /\ \A x \in F : In(x, s) <=> list_index(z[x]) >= i

\* The lists from one on, one behind the other, hold all blocks of their sizes.
LEMMA ListsFrom ==
  ASSUME NEW M \in Mem, NEW S, NEW z, NEW b, Tiled(S, z, b), NEW F \in SUBSET S, Linked(M, F, z),
         NEW i \in 0..(LIST_NUM - 1)
  PROVE  AllFrom(F, z, i, FlattenSeq([k \in 1..(LIST_NUM - i) |-> FreeList(M, i + k - 1)]))
<1> DEFINE m == LIST_NUM - i
           seqs == [k \in 1..m |-> FreeList(M, i + k - 1)]
<1>1. LIST_NUM \in Nat /\ i \in Nat /\ m \in Nat /\ m # 0
  BY MmHeapAssumption
<1>2. ASSUME NEW k \in 1..m PROVE WholeList(F, z, i + k - 1, FreeList(M, i + k - 1)) /\ i + k - 1 \in 0..(LIST_NUM - 1)
  <2>1. i + k - 1 \in 0..(LIST_NUM - 1)
    BY <1>1
  <2> QED
    BY <2>1, ListsAreWhole
<1>3. \A k \in 1..m : WholeList(F, z, i + k - 1, seqs[k])
  BY <1>2
<1>4. Len(seqs) = m
  <2>1. \A k \in 1..m : seqs[k] \in Seq(F)
    BY <1>3 DEF WholeList
  <2>2. seqs \in Seq(Seq(F)) /\ Len(seqs) = m
    BY <1>1, <2>1
  <2> QED
    BY <2>2
<1>5. \A x \in F : ListOf(z, x) = list_index(z[x])
  <2>1. \A x \in F : x \notin Heads
    BY NoHeads
  <2> QED
    BY <2>1 DEF ListOf
<1> HIDE DEF seqs, m
<1>6. \A k \in 1..m : seqs[k] \in Seq(F) /\ OneByOne(seqs[k])
  BY <1>3 DEF WholeList
<1>7. ASSUME NEW k \in 1..m, NEW x PROVE In(x, seqs[k]) <=> x \in F /\ list_index(z[x]) = i + k - 1
  <2>1. In(x, seqs[k]) => x \in F
    BY <1>6 DEF In
  <2>2. x \in F => (In(x, seqs[k]) <=> ListOf(z, x) = i + k - 1)
    BY <1>3 DEF WholeList
  <2> QED
    BY <1>5, <2>1, <2>2
<1>8. Separate(F, seqs, m)
  <2>1. ASSUME NEW j \in 1..m, NEW k \in 1..m, NEW x, In(x, seqs[j]), In(x, seqs[k]) PROVE j = k
    <3>1. i + j - 1 = i + k - 1
      BY <1>7, <2>1
    <3> QED
      BY <1>1, <3>1
  <2> QED
    BY <1>6, <2>1 DEF Separate
<1>9. Gathers(FlattenSeq(seqs), F, seqs, m)
  BY <1>1, <1>4, <1>8, FlattenGathers
<1> DEFINE s == FlattenSeq(seqs)
<1> HIDE DEF s
<1>10. s \in Seq(F) /\ OneByOne(s) /\ \A x : In(x, s) <=> \E k \in 1..m : In(x, seqs[k])
  BY <1>9 DEF Gathers, s
<1>11. ASSUME NEW x \in F PROVE In(x, s) <=> list_index(z[x]) >= i
  <2>1. PICK l \in 0..(LIST_NUM - 1) : l = list_index(z[x])
    BY ListInTable
  <2>2. (\E k \in 1..m : In(x, seqs[k])) <=> \E k \in 1..m : l = i + k - 1
    BY <1>7, <2>1
  <2>3. (\E k \in 1..m : l = i + k - 1) => l >= i
    BY <1>1
  <2>4. l >= i => l - i + 1 \in 1..m /\ l = i + (l - i + 1) - 1
    BY <1>1 DEF m
  <2> QED
    BY <1>10, <2>1, <2>2, <2>3, <2>4
<1>12. AllFrom(F, z, i, s)
  BY <1>10, <1>11 DEF AllFrom
<1> QED
  BY <1>12 DEF s, seqs, m

\* What find_fit comes across are the free blocks of the lists from the size's list on.
LEMMA SearchedAreFree ==
  ASSUME NEW M \in Mem, NEW S, NEW z, NEW b, Tiled(S, z, b), NEW F \in SUBSET S, Linked(M, F, z), NEW asize
  PROVE  AllFrom(F, z, list_index(asize), Searched(M, asize))
<1>1. PICK i \in 0..(LIST_NUM - 1) : i = list_index(asize)
  BY ListInTable
<1>2. Searched(M, asize) = FlattenSeq([k \in 1..(LIST_NUM - i) |-> FreeList(M, i + k - 1)])
  BY <1>1 DEF Searched
<1>3. AllFrom(F, z, i, FlattenSeq([k \in 1..(LIST_NUM - i) |-> FreeList(M, i + k - 1)]))
  BY ListsFrom
<1> QED
  BY <1>1, <1>2, <1>3

\* Powers of two are numbers: they count subsets.
LEMMA Powers == \A i \in Nat : 2^i \in Nat
<1> SUFFICES ASSUME NEW i \in Nat PROVE 2^i \in Nat
  OBVIOUS
<1>1. IsFiniteSet(1..i) /\ Cardinality(1..i) = i
  <2>1. CASE i = 0
    <3>1. 1..i = {}
      BY <2>1
    <3> QED
      BY <2>1, <3>1, FS_EmptySet
  <2>2. CASE i # 0
    <3>1. IsFiniteSet(1..i) /\ Cardinality(1..i) = i - 1 + 1
      BY <2>2, FS_Interval
    <3> QED
      BY <3>1
  <2> QED
    BY <2>1, <2>2
<1>2. IsFiniteSet(SUBSET (1..i)) /\ Cardinality(SUBSET (1..i)) = 2^(Cardinality(1..i))
  BY <1>1, FS_SUBSET
<1>3. Cardinality(SUBSET (1..i)) \in Nat
  BY <1>2, FS_CardinalityType
<1> QED
  BY <1>1, <1>2, <1>3, Zenon

\* The sizes at which the lists begin.
Unit(i) == 4 * 2^i

\* They are numbers.
LEMMA UnitIsNat == \A i \in Nat : Unit(i) \in Nat
<1> SUFFICES ASSUME NEW i \in Nat PROVE Unit(i) \in Nat
  OBVIOUS
<1>1. PICK k \in Nat : k = 2^i
  BY Powers, Zenon
<1>2. Unit(i) = 4 * k
  BY <1>1, Zenon DEF Unit
<1> QED
  BY <1>2

\* A larger size has no earlier list.
LEMMA LaterLists ==
  ASSUME NEW m \in Nat, NEW n \in Nat, m <= n
  PROVE  list_index(m) <= list_index(n)
<1> DEFINE I == 0..(LIST_NUM - 2)
           A == {i \in I : m >= Unit(i)}
           B == {i \in I : n >= Unit(i)}
<1>1. list_index(m) = Cardinality(A) /\ list_index(n) = Cardinality(B)
  BY Zenon DEF list_index, Unit
<1>2. IsFiniteSet(I)
  BY MmHeapAssumption, FS_Interval
<1>3. A \subseteq B /\ B \subseteq I
  <2>1. \A i \in I : i \in Nat
    BY MmHeapAssumption
  <2> QED
    BY <2>1, UnitIsNat
<1> HIDE DEF A, B, I
<1>4. IsFiniteSet(B)
  BY <1>2, <1>3, FS_Subset
<1>5. Cardinality(A) <= Cardinality(B)
  BY <1>3, <1>4, FS_Subset
<1> QED
  BY <1>1, <1>5

\* find_fit answers NULL, if no free block is large enough, or with one that is.
LEMMA FindsFree ==
  ASSUME NEW M, NEW S, NEW z, NEW b, NEW F, Work(M, S, z, F, F, b), NEW n
  PROVE  \/ find_fit(M, n) = NULL /\ (n \in Nat => \A p \in F : z[p] < n)
         \/ find_fit(M, n) \in F /\ z[find_fit(M, n)] >= n
<1> DEFINE blocks == Searched(M, n)
           fits == Fitting(M, blocks, n)
           best == {i \in fits : \A j \in fits :
                      GET_SIZE(M, HDRP(blocks[i])) <= GET_SIZE(M, HDRP(blocks[j]))}
<1>1. M \in Mem /\ F \in SUBSET S /\ Tiled(S, z, b) /\ Tagged(M, S, z, F, b) /\ Linked(M, F, z)
  BY DEF Work
<1>2. blocks \in Seq(F) /\ \A x \in F : list_index(z[x]) >= list_index(n) => In(x, blocks)
  BY <1>1, SearchedAreFree DEF AllFrom
<1>3. find_fit(M, n) = IF fits = {} THEN NULL
                       ELSE IF list_index(n) < LIST_THR THEN blocks[Min(fits)] ELSE blocks[Min(best)]
  BY DEF find_fit
<1> HIDE DEF blocks
<1>4. ASSUME NEW i \in fits PROVE i \in Nat /\ i \in DOMAIN blocks /\ blocks[i] \in F /\ z[blocks[i]] >= n
  <2>1. i \in DOMAIN blocks /\ GET_SIZE(M, HDRP(blocks[i])) >= n
    BY <1>4 DEF Fitting
  <2>2. blocks[i] \in F /\ i \in Nat
    BY <1>2, <2>1
  <2>3. GET_SIZE(M, HDRP(blocks[i])) = z[blocks[i]]
    BY <1>1, <2>2, BlockReads
  <2> QED
    BY <2>1, <2>2, <2>3
<1>5. \A i \in fits : GET_SIZE(M, HDRP(blocks[i])) \in Nat
  <2> SUFFICES ASSUME NEW i \in fits PROVE GET_SIZE(M, HDRP(blocks[i])) \in Nat
    OBVIOUS
  <2>1. blocks[i] \in S
    BY <1>1, <1>4
  <2>2. GET_SIZE(M, HDRP(blocks[i])) = z[blocks[i]] /\ z[blocks[i]] \in Nat
    BY <1>1, <2>1, BlockReads, TileOf
  <2> QED
    BY <2>2
<1>6. fits \in SUBSET Nat
  BY <1>4
<1> HIDE DEF fits
<1>7. ASSUME fits # {} PROVE best # {}
  <2> DEFINE sizes == {GET_SIZE(M, HDRP(blocks[i])) : i \in fits}
  <2>1. sizes \in SUBSET Nat /\ sizes # {}
    BY <1>5, <1>7
  <2> HIDE DEF sizes
  <2>2. Min(sizes) \in sizes /\ \A k \in sizes : Min(sizes) <= k
    BY <2>1, Smallest
  <2>3. PICK i \in fits : Min(sizes) = GET_SIZE(M, HDRP(blocks[i]))
    BY <2>2 DEF sizes
  <2>4. \A j \in fits : GET_SIZE(M, HDRP(blocks[i])) <= GET_SIZE(M, HDRP(blocks[j]))
    BY <2>2, <2>3 DEF sizes
  <2> QED
    BY <2>4
<1>8. best \in SUBSET Nat /\ best \subseteq fits
  BY <1>6
<1> HIDE DEF best
<1>9. CASE fits = {}
  <2>1. ASSUME n \in Nat, NEW p \in F PROVE z[p] < n
    <3>1. p \in S /\ z[p] \in Nat
      BY <1>1, TileOf
    <3> SUFFICES ASSUME n <= z[p] PROVE FALSE
      BY <2>1, <3>1
    <3>2. list_index(n) <= list_index(z[p])
      BY <2>1, <3>1, LaterLists
    <3>3. In(p, blocks)
      <4>1. list_index(n) \in 0..(LIST_NUM - 1) /\ list_index(z[p]) \in 0..(LIST_NUM - 1)
        BY ListInTable
      <4>2. list_index(z[p]) >= list_index(n)
        BY <3>2, <4>1
      <4> QED
        BY <1>2, <4>2
    <3>4. PICK i \in 1..Len(blocks) : blocks[i] = p
      BY <3>3 DEF In
    <3>5. i \in DOMAIN blocks
      BY <1>2
    <3>6. GET_SIZE(M, HDRP(p)) = z[p] /\ GET_ALLOC(M, HDRP(p)) = FREE
      BY <1>1, <3>1, BlockReads
    <3>7. i \in fits
      BY <2>1, <3>1, <3>4, <3>5, <3>6 DEF fits, Fitting
    <3> QED
      BY <1>9, <3>7
  <2> QED
    BY <1>3, <1>9, <2>1
<1>10. CASE fits # {}
  <2>1. Min(fits) \in fits /\ Min(best) \in fits
    BY <1>6, <1>7, <1>8, <1>10, Smallest
  <2>2. find_fit(M, n) = blocks[Min(fits)] \/ find_fit(M, n) = blocks[Min(best)]
    BY <1>3, <1>10
  <2> QED
    BY <1>4, <2>1, <2>2
<1> QED
  BY <1>9, <1>10
-------------------------------------------------------------------------------
(* malloc.                                                                   *)

\* No request is within 15 bytes of the largest size: adding the tags does not wrap.
NoWrap == \A n \in Requests : n + 15 < SizeMax

\* The larger of two numbers.
LEMMA MaxOfTwo ==
  ASSUME NEW i \in Int, NEW j \in Int
  PROVE  Max({i, j}) \in {i, j} /\ Max({i, j}) >= i /\ Max({i, j}) >= j
<1>1. \E x \in {i, j} : \A y \in {i, j} : x >= y
  <2>1. CASE i >= j
    BY <2>1
  <2>2. CASE j >= i
    BY <2>2
  <2> QED
    BY <2>1, <2>2
<1> QED
  BY <1>1 DEF Max

\* The words malloc gives a request: an even number, with room for it and the tags.
LEMMA Adjusted ==
  ASSUME NEW n \in Nat, n + 15 < SizeMax
  PROVE  LET a == adjustsize(n) IN a \in Nat /\ a % 2 = 0 /\ a >= 4 /\ Enough(n, a)
<1>1. (n + 15) % SizeMax = n + 15
  BY MmHeapAssumption
<1>2. CASE n <= 8
  <2>1. adjustsize(n) = 4
    BY <1>2 DEF adjustsize
  <2> QED
    BY <1>2, <2>1 DEF Enough
<1>3. CASE ~(n <= 8)
  <2>1. PICK d \in Nat : d = (n + 15) \div 8
    OBVIOUS
  <2>2. adjustsize(n) = 2 * d
    BY <1>1, <1>3, <2>1 DEF adjustsize
  <2>3. 8 * d <= n + 15 /\ n + 15 <= 8 * d + 7
    BY <2>1
  <2>4. d >= 2 /\ 4 * (2 * d - 2) >= n
    BY <1>3, <2>3
  <2>5. (2 * d) % 2 = 0
    OBVIOUS
  <2> QED
    BY <2>2, <2>4, <2>5 DEF Enough
<1> QED
  BY <1>2, <1>3

\* Requests are sizes of something.
LEMMA RequestsAre ==
  ASSUME NEW n \in Requests
  PROVE  n \in Nat /\ n > 0 /\ n < SizeMax
<1>1. \A c \in Counts, s \in Sizes : (c * s) % SizeMax \in 0..(SizeMax - 1)
  <2> SUFFICES ASSUME NEW c \in Counts, NEW s \in Sizes PROVE (c * s) % SizeMax \in 0..(SizeMax - 1)
    OBVIOUS
  <2>1. c \in Nat /\ s \in Nat /\ SizeMax \in Nat \ {0}
    BY MmHeapAssumption
  <2>2. PICK k \in Nat : k = c * s
    BY <2>1
  <2> QED
    BY <2>1, <2>2
<1> QED
  BY <1>1, MmHeapAssumption DEF Requests

\* What a taken block's heap kept, it kept of the heap before it, too.
LEMMA TakenOn ==
  ASSUME NEW M, NEW E, NEW D, NEW z, NEW y, NEW U, NEW b, NEW p, NEW n,
         Kept(M, E, z, U), \A q \in U : y[q] = z[q], Taken(E, D, y, U, b, p, n)
  PROVE  Taken(M, D, z, U, b, p, n)
<1>1. PICK T, G, w : /\ Work(D, T, w, G, G, b) /\ T \ G = U \cup {p} /\ p \notin U
                     /\ \A q \in U : w[q] = y[q]
                     /\ Kept(E, D, y, U) /\ w[p] >= n
  BY DEF Taken
<1>2. Kept(M, D, z, U)
  BY <1>1, KeptOn
<1>3. \A q \in U : w[q] = z[q]
  BY <1>1
<1> QED
  BY <1>1, <1>2, <1>3 DEF Taken

\* malloc answers NULL and leaves the heap alone, or takes a block that is large enough.
LEMMA Mallocs ==
  ASSUME NEW H, IsHeap(H), NEW S, NEW z, NEW F, Work(H.mem, S, z, F, F, H.brk), NEW U, U = S \ F,
         NEW n \in Nat, n > 0, n + 15 < SizeMax, NEW got, got = malloc(H, n)
  PROVE  \/ got.bp = NULL /\ got.heap = H
         \/ /\ got.bp # NULL /\ IsHeap(got.heap)
            /\ Taken(H.mem, got.heap.mem, z, U, got.heap.brk, got.bp, adjustsize(n))
<1> DEFINE M == H.mem
           b == H.brk
           a == adjustsize(n)
           fit == find_fit(M, a)
           grown == extend_heap(H, Max({a, CHUNKSIZE \div 4}))
<1>1. a \in Nat /\ a % 2 = 0 /\ a >= 4
  BY Adjusted
<1>2. got = IF fit # NULL THEN [heap |-> [H EXCEPT !.mem = place(@, fit, a)], bp |-> fit]
            ELSE IF grown.bp # NULL
            THEN [heap |-> [grown.heap EXCEPT !.mem = place(@, grown.bp, a)], bp |-> grown.bp]
            ELSE [heap |-> H, bp |-> NULL]
  BY DEF malloc
<1>3. Work(M, S, z, F, F, b) /\ H = [mem |-> M, brk |-> b]
  BY DEF IsHeap
<1>4. Tiled(S, z, b) /\ F \subseteq S /\ b \in Nat
  BY <1>3 DEF Work, Tiled
<1> HIDE DEF M, b, a, fit
<1>5. CASE fit # NULL
  <2>1. fit \in F /\ z[fit] >= a
    BY <1>3, <1>5, FindsFree DEF fit
  <2>2. z[fit] \in Nat
    BY <1>4, <2>1, TileOf
  <2>3. a <= z[fit]
    BY <1>1, <2>1, <2>2
  <2>4. Taken(M, place(M, fit, a), z, U, b, fit, a)
    BY <1>1, <1>3, <2>1, <2>3, Places
  <2>5. got = [heap |-> [mem |-> place(M, fit, a), brk |-> b], bp |-> fit]
    BY <1>2, <1>3, <1>5
  <2>6. got.bp = fit /\ got.heap.mem = place(M, fit, a) /\ got.heap.brk = b /\ got.heap = [mem |-> place(M, fit, a), brk |-> b]
    BY <2>5
  <2> QED
    BY <1>5, <2>4, <2>6 DEF IsHeap, M, a
<1>6. CASE fit = NULL
  <2> DEFINE w == Max({a, CHUNKSIZE \div 4})
             D == PUT(Tag(M, b, w, FREE), b + w - 1, PACK(0, ALLOC))
             E == coalesce(D, b).mem
             bp == coalesce(D, b).bp
  <2>1. w \in Nat /\ w % 2 = 0 /\ w >= 4 /\ w >= a
    <3>1. PICK c \in Nat : c = CHUNKSIZE \div 4 /\ c % 2 = 0
      BY MmHeapAssumption
    <3>2. w \in {a, c} /\ w >= a
      <4>1. c \in Int /\ a \in Int
        BY <1>1, <3>1
      <4>2. Max({a, c}) \in {a, c} /\ Max({a, c}) >= a
        BY <4>1, MaxOfTwo
      <4>3. w = Max({a, c})
        BY <3>1
      <4> HIDE DEF w
      <4> QED
        BY <4>2, <4>3
    <3> HIDE DEF w
    <3> QED
      BY <1>1, <3>1, <3>2
  <2>2. grown = IF b + w > MaxHeap THEN [heap |-> H, bp |-> NULL]
                ELSE [heap |-> [mem |-> E, brk |-> b + w], bp |-> bp]
    <3>1. w + (w % 2) = w
      BY <2>1
    <3> HIDE DEF w
    <3> QED
      BY <3>1 DEF extend_heap, M, b, w
  <2> HIDE DEF w, E, bp, grown
  <2>3. CASE b + w > MaxHeap
    <3>1. grown = [heap |-> H, bp |-> NULL]
      BY <2>2, <2>3
    <3>2. got = [heap |-> H, bp |-> NULL]
      BY <1>2, <1>6, <3>1
    <3> QED
      BY <3>2
  <2>4. CASE b + w <= MaxHeap
    <3>1. PICK k \in Nat : k >= w /\ Settled(M, E, z, U, b + w, bp, k)
      <4>1. PICK c : c = b + w
        OBVIOUS
      <4>2. D = PUT(Tag(M, b, w, FREE), b + w - 1, PACK(0, ALLOC))
        OBVIOUS
      <4> HIDE DEF D
      <4>3. \E k \in Nat : k >= w /\ Settled(M, coalesce(D, b).mem, z, U, c, coalesce(D, b).bp, k)
        BY <1>3, <2>1, <2>4, <4>1, <4>2, Grows
      <4> QED
        BY <4>1, <4>3 DEF E, bp
    <3> HIDE DEF D
    <3>2. PICK T, G, y : /\ Work(E, T, y, G, G, b + w) /\ T \ G = U /\ \A q \in U : y[q] = z[q]
                         /\ Kept(M, E, z, U) /\ bp \in G /\ y[bp] = k
      BY <3>1 DEF Settled
    <3>3. PICK c : c = b + w
      OBVIOUS
    <3>4. Work(E, T, y, G, G, c) /\ U = T \ G /\ a <= y[bp] /\ bp \in G
      BY <1>1, <2>1, <3>1, <3>2, <3>3
    <3>5. Taken(E, place(E, bp, a), y, U, c, bp, a)
      BY <1>1, <3>4, Places
    <3>6. Taken(M, place(E, bp, a), z, U, c, bp, a)
      BY <3>2, <3>5, TakenOn
    <3>7. bp # NULL
      <4>1. Tiled(T, y, c) /\ bp \in T
        BY <3>4 DEF Work
      <4>2. Start <= bp /\ Start \in Nat /\ Start >= 6 /\ bp \in Nat
        BY <4>1, TileOf, HeadsAre
      <4> QED
        BY <4>2 DEF NULL
    <3>8. grown = [heap |-> [mem |-> E, brk |-> c], bp |-> bp]
      <4>1. ~(b + w > MaxHeap)
        BY <1>4, <2>1, <2>4, MmHeapAssumption
      <4> QED
        BY <2>2, <3>3, <4>1
    <3>9. got = [heap |-> [mem |-> place(E, bp, a), brk |-> c], bp |-> bp]
      BY <1>2, <1>6, <3>7, <3>8
    <3>10. got.bp = bp /\ got.heap.mem = place(E, bp, a) /\ got.heap.brk = c /\ got.heap = [mem |-> place(E, bp, a), brk |-> c]
      BY <3>9
    <3> QED
      BY <3>6, <3>7, <3>10 DEF IsHeap, M, a
  <2> QED
    BY <1>4, <2>1, <2>3, <2>4, MmHeapAssumption
<1> QED
  BY <1>5, <1>6

Ints(data) == Len(data) \in Nat /\ \A k \in 1..Len(data) : data[k] \in Int

\* The n words at q begin with data.
Begins(D, q, n, data) == \A k \in Nat : k < Len(data) /\ k < n => D[q + k] = data[k + 1]

\* The caller gets the block p with data in it that fits: nothing else changes.
LEMMA Fills ==
  ASSUME NEW H, IsHeap(H), NEW S, NEW z, NEW F, Work(H.mem, S, z, F, F, H.brk), NEW p \in S, p \notin F,
         NEW U \in SUBSET (S \ F), p \notin U, NEW data, Ints(data), Len(data) <= z[p] - 2
  PROVE  /\ IsHeap(Filled(H, p, data)) /\ Filled(H, p, data).brk = H.brk
         /\ Work(Filled(H, p, data).mem, S, z, F, F, H.brk)
         /\ Kept(H.mem, Filled(H, p, data).mem, z, U)
         /\ Begins(Filled(H, p, data).mem, p, z[p] - 2, data)
<1> DEFINE M == H.mem
           b == H.brk
           D == [a \in DOMAIN M |-> IF a - p \in 0..(Len(data) - 1) THEN data[a - p + 1]
                                    ELSE IF a \in Payload(M, p) THEN Junk ELSE M[a]]
<1>1. /\ M \in Mem /\ F \in SUBSET S /\ Tiled(S, z, b) /\ Tagged(M, S, z, F, b) /\ Linked(M, F, z)
      /\ H = [mem |-> M, brk |-> b]
  BY DEF Work, IsHeap
<1>2. Filled(H, p, data) = [mem |-> D, brk |-> b]
  <2>1. Filled(H, p, data) = [H EXCEPT !.mem = D]
    BY DEF Filled
  <2> HIDE DEF D, M, b
  <2> QED
    BY <1>1, <2>1
<1> HIDE DEF M, b
<1>3. p \in Nat /\ z[p] \in Nat /\ z[p] >= 4 /\ DOMAIN M = 0..(MaxHeap - 1) /\ \A a \in 0..(MaxHeap - 1) : M[a] \in Int
  BY <1>1, TileOf DEF Mem
<1>4. Payload(M, p) = Body(z, p)
  <2>1. FTRP(M, p) = p + z[p] - 2
    BY <1>1, BlockReads
  <2> QED
    BY <1>3, <2>1 DEF Payload, Body
<1>5. D \in Mem
  <2>1. Junk \in Int
    BY DEF Junk
  <2>2. ASSUME NEW a \in DOMAIN M, a - p \in 0..(Len(data) - 1) PROVE data[a - p + 1] \in Int
    <3>1. a \in Int
      BY <1>3, <2>2
    <3>2. a - p + 1 \in 1..Len(data)
      BY <1>3, <2>2, <3>1 DEF Ints
    <3> QED
      BY <3>2 DEF Ints
  <2> QED
    BY <1>3, <2>1, <2>2 DEF Mem
<1>6. \A a \in 0..(MaxHeap - 1) : a \notin Body(z, p) => D[a] = M[a]
  <2> SUFFICES ASSUME NEW a \in 0..(MaxHeap - 1), a \notin Body(z, p) PROVE D[a] = M[a]
    OBVIOUS
  <2>1. MaxHeap \in Nat /\ Len(data) \in Nat
    BY MmHeapAssumption DEF Ints
  <2>2. a - p \notin 0..(Len(data) - 1)
    BY <1>3, <2>1 DEF Body
  <2> QED
    BY <1>3, <1>4, <2>2
<1>7. Begins(D, p, z[p] - 2, data)
  <2> SUFFICES ASSUME NEW k \in Nat, k < Len(data), k < z[p] - 2 PROVE D[p + k] = data[k + 1]
    BY DEF Begins
  <2>1. p + k \in Body(z, p) /\ (p + k) - p = k /\ k \in 0..(Len(data) - 1)
    BY <1>3 DEF Body, Ints
  <2>2. Body(z, p) \subseteq Extent(z, p) /\ Extent(z, p) \subseteq 0..(MaxHeap - 1)
    BY <1>1, ExtentInHeap
  <2> QED
    BY <1>3, <1>4, <2>1, <2>2
<1> HIDE DEF D
<1>8. Body(z, p) \subseteq Extent(z, p) /\ p - 1 \notin Body(z, p) /\ p + z[p] - 2 \notin Body(z, p)
      /\ Extent(z, p) \subseteq 0..(MaxHeap - 1) /\ p - 1 \in Extent(z, p) /\ p + z[p] - 2 \in Extent(z, p)
  BY <1>1, ExtentInHeap
<1>9. Same(M, D, Extent(z, p))
  BY <1>6, <1>8 DEF Same
<1>10. D[p - 1] = TagOf(z, F, p) /\ D[p + z[p] - 2] = TagOf(z, F, p)
  <2>1. M[p - 1] = TagOf(z, F, p) /\ M[p + z[p] - 2] = TagOf(z, F, p)
    BY <1>1 DEF Tagged
  <2> QED
    BY <1>6, <1>8, <2>1
<1>11. Tagged(D, S, z, F, b)
  <2>1. S \in SUBSET S /\ S \ {p} \in SUBSET S /\ p \notin S \ {p} /\ (S \ {p}) \cup {p} = S
    OBVIOUS
  <2>2. PICK R \in SUBSET S : R = S \ {p}
    OBVIOUS
  <2>3. p \notin R /\ R \cup {p} = S
    BY <2>2
  <2>4. Tagged(M, R, z, F, b)
    BY <1>1, <2>2 DEF Tagged
  <2>5. Tagged(D, R \cup {p}, z, F, b)
    BY <1>1, <1>5, <1>9, <1>10, <2>3, <2>4, Retagged
  <2> QED
    BY <2>3, <2>5
<1>12. Kept(M, D, z, U) /\ \A a \in LinkWords(F) : D[a] = M[a]
  <2>1. U \in SUBSET S
    OBVIOUS
  <2> QED
    BY <1>1, <1>5, <1>9, <2>1, OthersKept
<1>13. Linked(D, F, z)
  BY <1>1, <1>5, <1>12, LinksStay
<1>14. Work(D, S, z, F, F, b)
  BY <1>1, <1>5, <1>11, <1>13 DEF Work
<1>15. Filled(H, p, data).mem = D /\ Filled(H, p, data).brk = b
  BY <1>2
<1> QED
  BY <1>2, <1>7, <1>12, <1>14, <1>15 DEF M, b, IsHeap

\* malloc and what the caller writes to the block at once: q is a new block, of the size
\* asked for, that starts with data; all others are as before.
Served(M, D, b, S, z, F, U, q, n, data) ==
  /\ Work(D, S, z, F, F, b) /\ S \ F = U \cup {q} /\ q \notin U
  /\ Kept(M, D, z, U) /\ Enough(n, z[q])
  /\ Begins(D, q, z[q] - 2, data)

ServedIn(M, D, z, U, q, n, data) ==
  /\ IsHeap(D)
  /\ \E T, G, y : Served(M, D.mem, D.brk, T, y, G, U, q, n, data) /\ \A p \in U : y[p] = z[p]

\* The words of n bytes fit a block that is large enough for n.
LEMMA FitsIn ==
  ASSUME NEW n \in Nat, NEW w \in Nat, 4 * (w - 2) >= n, NEW m \in Nat, m <= Words(n)
  PROVE  m <= w - 2
BY DEF Words

\* Filling a block just taken.
LEMMA Serves ==
  ASSUME NEW M, NEW z, NEW U, NEW H, IsHeap(H), NEW q, NEW n \in Nat, NEW a \in Nat, Enough(n, a),
         Taken(M, H.mem, z, U, H.brk, q, a), NEW data, Ints(data), Len(data) <= Words(n)
  PROVE  ServedIn(M, Filled(H, q, data), z, U, q, n, data)
<1>1. PICK T, G, y : /\ Work(H.mem, T, y, G, G, H.brk) /\ T \ G = U \cup {q} /\ q \notin U
                     /\ \A p \in U : y[p] = z[p]
                     /\ Kept(M, H.mem, z, U) /\ y[q] >= a
  BY DEF Taken
<1>2. q \in T
  BY <1>1
<1>3. Enough(n, y[q]) /\ y[q] \in Nat
  <2>1. Tiled(T, y, H.brk)
    BY <1>1 DEF Work
  <2>2. y[q] \in Nat
    BY <1>2, <2>1, TileOf
  <2>3. 4 * (a - 2) >= n
    BY DEF Enough
  <2> QED
    BY <1>1, <2>2, <2>3 DEF Enough
<1> DEFINE E == Filled(H, q, data)
<1>4. /\ IsHeap(E) /\ E.brk = H.brk
      /\ Work(E.mem, T, y, G, G, H.brk)
      /\ Kept(H.mem, E.mem, y, U)
      /\ Begins(E.mem, q, y[q] - 2, data)
  <2>1. Work(H.mem, T, y, G, G, H.brk) /\ q \in T /\ q \notin G /\ U \in SUBSET (T \ G) /\ q \notin U
    BY <1>1
  <2>2. Len(data) <= y[q] - 2
    BY <1>3, FitsIn DEF Enough, Ints
  <2> QED
    BY <2>1, <2>2, Fills
<1> HIDE DEF E
<1>5. Kept(M, E.mem, y, U)
  <2>1. \A p \in U : z[p] = y[p] /\ Body(z, p) = Body(y, p)
    BY <1>1 DEF Body
  <2>2. Kept(M, H.mem, y, U)
    BY <1>1, <2>1 DEF Kept
  <2> QED
    BY <1>4, <2>2 DEF Kept
<1>6. Served(M, E.mem, E.brk, T, y, G, U, q, n, data)
  BY <1>1, <1>3, <1>4, <1>5 DEF Served
<1>7. ServedIn(M, E, z, U, q, n, data)
  BY <1>1, <1>4, <1>6 DEF ServedIn
<1> QED
  BY <1>7 DEF E
-------------------------------------------------------------------------------
(* The functions of the interface.                                           *)

\* free on a heap.
Freed(H, E, z, U) == IsHeap(E) /\ Left(H.mem, E.mem, z, U, E.brk)

LEMMA FreesHeap ==
  ASSUME NEW H, IsHeap(H), NEW S, NEW z, NEW F, Work(H.mem, S, z, F, F, H.brk), NEW p \in S, p \notin F,
         NEW U, \A r : r \in U <=> r \in S /\ r \notin F /\ r # p
  PROVE  Freed(H, free(H, p), z, U)
<1> DEFINE M == H.mem
           b == H.brk
           E == coalesce(Tag(M, p, GET_SIZE(M, HDRP(p)), FREE), p).mem
<1>1. Left(M, E, z, U, b)
  BY Frees
<1>2. H = [mem |-> M, brk |-> b]
  BY DEF IsHeap
<1>3. free(H, p) = [H EXCEPT !.mem = E]
  BY DEF free
<1> HIDE DEF E, M, b
<1>4. free(H, p) = [mem |-> E, brk |-> b]
  BY <1>2, <1>3
<1>5. free(H, p).mem = E /\ free(H, p).brk = b
  BY <1>4
<1>6. IsHeap(free(H, p))
  BY <1>4, <1>5 DEF IsHeap
<1> QED
  BY <1>1, <1>5, <1>6 DEF Freed, M

\* g is h with the block q of n bytes; g is h without the block p.
With(g, h, q, n) == DOMAIN g = DOMAIN h \cup {q} /\ g[q] = n /\ \A p \in DOMAIN h : p # q => g[p] = h[p]

Less(g, h, p) == DOMAIN g = DOMAIN h \ {p} /\ \A r \in DOMAIN g : g[r] = h[r]

Agree(y, z, U) == \A p \in U : y[p] = z[p]

\* What is kept of a block is at least what its holder asked for.
LEMMA KeptContents ==
  ASSUME NEW M, NEW D, NEW H, NEW h, NEW S, NEW z, NEW F, Owns(H, h, S, z, F),
         NEW U \in SUBSET (DOMAIN h), Kept(M, D, z, U)
  PROVE  \A p \in U : \A k \in 0..(Words(h[p]) - 1) : D[p + k] = M[p + k]
<1> SUFFICES ASSUME NEW p \in U, NEW k \in 0..(Words(h[p]) - 1) PROVE D[p + k] = M[p + k]
  OBVIOUS
<1>1. p \in S /\ Tiled(S, z, H.brk) /\ h[p] \in Requests /\ Enough(h[p], z[p])
  BY DEF Owns, Work
<1>2. h[p] \in Nat
  BY <1>1, RequestsAre
<1>3. p \in Nat /\ z[p] \in Nat
  BY <1>1, TileOf
<1>4. (h[p] + 3) \div 4 <= z[p] - 2
  BY <1>1, <1>2, <1>3 DEF Enough
<1>5. p + k \in Body(z, p)
  BY <1>2, <1>3, <1>4 DEF Words, Body
<1> QED
  BY <1>5 DEF Kept

\* A new block for the caller.
LEMMA ServedOwns ==
  ASSUME NEW H, NEW h, NEW S, NEW z, NEW F, Owns(H, h, S, z, F),
         NEW D, NEW T, NEW y, NEW G, NEW q, NEW n, n \in Requests, NEW data,
         Served(H.mem, D.mem, D.brk, T, y, G, DOMAIN h, q, n, data), Agree(y, z, DOMAIN h),
         NEW g, With(g, h, q, n)
  PROVE  Owns(D, g, T, y, G)
<1>1. Work(D.mem, T, y, G, G, D.brk) /\ T \ G = DOMAIN h \cup {q} /\ q \notin DOMAIN h /\ Enough(n, y[q])
  BY DEF Served
<1>2. \A p \in DOMAIN h : h[p] \in Requests /\ Enough(h[p], z[p]) /\ y[p] = z[p]
  BY DEF Owns, Agree
<1>3. DOMAIN g = DOMAIN h \cup {q} /\ g[q] = n /\ \A p \in DOMAIN h : p # q => g[p] = h[p]
  BY DEF With
<1>4. \A p \in DOMAIN g : g[p] \in Requests /\ Enough(g[p], y[p])
  BY <1>1, <1>2, <1>3
<1> QED
  BY <1>1, <1>3, <1>4 DEF Owns

\* The caller gives one back: p is gone, and the others are as before.
Lost(H, h, D, g, z, p) ==
  /\ \E T, y, G : Owns(D, g, T, y, G)
  /\ Kept(H.mem, D.mem, z, DOMAIN g)

LEMMA LeftOwns ==
  ASSUME NEW H, NEW h, NEW S, NEW z, NEW F, Owns(H, h, S, z, F), NEW p,
         NEW D, NEW g, Left(H.mem, D.mem, z, DOMAIN g, D.brk), Less(g, h, p)
  PROVE  Lost(H, h, D, g, z, p)
<1>1. PICK T, G, y : /\ Work(D.mem, T, y, G, G, D.brk) /\ T \ G = DOMAIN g /\ \A q \in DOMAIN g : y[q] = z[q]
                     /\ Kept(H.mem, D.mem, z, DOMAIN g)
  BY DEF Left
<1>2. \A r \in DOMAIN h : h[r] \in Requests /\ Enough(h[r], z[r])
  BY DEF Owns
<1>3. \A r \in DOMAIN g : r \in DOMAIN h /\ g[r] = h[r]
  BY DEF Less
<1>4. \A r \in DOMAIN g : g[r] \in Requests /\ Enough(g[r], y[r])
  BY <1>1, <1>2, <1>3
<1>5. Owns(D, g, T, y, G)
  BY <1>1, <1>4 DEF Owns
<1> QED
  BY <1>1, <1>5 DEF Lost

\* From H with the blocks h to E with the blocks g the caller gains q, of n bytes, with data in it.
Gains(H, h, E, g, q, n, data) ==
  /\ IsHeap(E) /\ q \notin DOMAIN h
  /\ \A p \in DOMAIN h : \A k \in 0..(Words(h[p]) - 1) : E.mem[p + k] = H.mem[p + k]
  /\ \E T, y, G : Owns(E, g, T, y, G) /\ Begins(E.mem, q, y[q] - 2, data)

LEMMA GainsOne ==
  ASSUME NEW H, NEW h, NEW S, NEW z, NEW F, Owns(H, h, S, z, F), NEW n, n \in Requests, NEW data,
         NEW q, NEW E, ServedIn(H.mem, E, z, DOMAIN h, q, n, data),
         NEW g, With(g, h, q, n)
  PROVE  Gains(H, h, E, g, q, n, data)
<1>1. PICK T, G, y : /\ Served(H.mem, E.mem, E.brk, T, y, G, DOMAIN h, q, n, data)
                     /\ \A p \in DOMAIN h : y[p] = z[p]
  BY DEF ServedIn
<1>2. IsHeap(E)
  BY DEF ServedIn
<1>3. Agree(y, z, DOMAIN h)
  BY <1>1 DEF Agree
<1>4. Owns(E, g, T, y, G)
  BY <1>1, <1>3, ServedOwns
<1>5. q \notin DOMAIN h /\ Kept(H.mem, E.mem, z, DOMAIN h) /\ Begins(E.mem, q, y[q] - 2, data)
  <2>1. \A p \in DOMAIN h : Body(y, p) = Body(z, p)
    BY <1>1 DEF Body
  <2>2. q \notin DOMAIN h /\ Kept(H.mem, E.mem, y, DOMAIN h) /\ Begins(E.mem, q, y[q] - 2, data)
    BY <1>1 DEF Served
  <2> QED
    BY <2>1, <2>2 DEF Kept
<1>6. DOMAIN h \in SUBSET DOMAIN h
  OBVIOUS
<1>7. \A p \in DOMAIN h : \A k \in 0..(Words(h[p]) - 1) : E.mem[p + k] = H.mem[p + k]
  BY <1>5, <1>6, KeptContents
<1> QED
  BY <1>2, <1>4, <1>5, <1>7 DEF Gains

\* From H with the blocks h to E with the blocks g the caller loses p.
Loses(H, h, E, g, p) ==
  /\ IsHeap(E) /\ p \in DOMAIN h
  /\ \A r \in DOMAIN g : \A k \in 0..(Words(h[r]) - 1) : E.mem[r + k] = H.mem[r + k]
  /\ \E T, y, G : Owns(E, g, T, y, G)

LEMMA LosesOne ==
  ASSUME NEW H, IsHeap(H), NEW h, NEW S, NEW z, NEW F, Owns(H, h, S, z, F), NEW p, p \in DOMAIN h,
         NEW g, Less(g, h, p)
  PROVE  Loses(H, h, free(H, p), g, p)
<1>1. DOMAIN g = DOMAIN h \ {p}
  BY DEF Less
<1>2. DOMAIN h = S \ F /\ Work(H.mem, S, z, F, F, H.brk) /\ p \in S /\ p \notin F
  BY DEF Owns
<1>3. \A r : r \in DOMAIN g <=> r \in S /\ r \notin F /\ r # p
  BY <1>1, <1>2
<1>4. IsHeap(free(H, p)) /\ Left(H.mem, free(H, p).mem, z, DOMAIN g, free(H, p).brk)
  BY <1>2, <1>3, FreesHeap DEF Freed
<1>5. PICK E : E = free(H, p)
  OBVIOUS
<1>6. IsHeap(E) /\ Left(H.mem, E.mem, z, DOMAIN g, E.brk)
  BY <1>4, <1>5
<1>7. Lost(H, h, E, g, z, p)
  BY <1>6, LeftOwns
<1>8. \A r \in DOMAIN g : \A k \in 0..(Words(h[r]) - 1) : E.mem[r + k] = H.mem[r + k]
  <2>1. DOMAIN g \in SUBSET (DOMAIN h)
    BY <1>1
  <2>2. Kept(H.mem, E.mem, z, DOMAIN g)
    BY <1>7 DEF Lost
  <2> QED
    BY <2>1, <2>2, KeptContents
<1>9. Loses(H, h, E, g, p)
  BY <1>6, <1>7, <1>8 DEF Loses, Lost
<1> QED
  BY <1>5, <1>9

\* malloc and what the caller writes at once, on a heap.
LEMMA MallocServes ==
  ASSUME NoWrap, NEW H, IsHeap(H), NEW h, NEW S, NEW z, NEW F, Owns(H, h, S, z, F), NEW n, n \in Requests,
         malloc(H, n).bp # NULL, NEW data, Ints(data), Len(data) <= Words(n)
  PROVE  ServedIn(H.mem, Filled(malloc(H, n).heap, malloc(H, n).bp, data), z, DOMAIN h,
                  malloc(H, n).bp, n, data)
<1>1. Work(H.mem, S, z, F, F, H.brk) /\ DOMAIN h = S \ F
  BY DEF Owns
<1>2. n \in Nat /\ n > 0 /\ n + 15 < SizeMax
  BY RequestsAre DEF NoWrap
<1>3. PICK got : got = malloc(H, n)
  OBVIOUS
<1>4. /\ IsHeap(got.heap)
      /\ Taken(H.mem, got.heap.mem, z, DOMAIN h, got.heap.brk, got.bp, adjustsize(n))
  BY <1>1, <1>2, <1>3, Mallocs
<1>5. PICK a \in Nat : a = adjustsize(n) /\ Enough(n, a)
  BY <1>2, Adjusted
<1>6. PICK q, K : q = got.bp /\ K = got.heap
  OBVIOUS
<1>7. IsHeap(K) /\ Taken(H.mem, K.mem, z, DOMAIN h, K.brk, q, a)
  BY <1>4, <1>5, <1>6
<1>8. ServedIn(H.mem, Filled(K, q, data), z, DOMAIN h, q, n, data)
  BY <1>2, <1>5, <1>7, Serves
<1> QED
  BY <1>3, <1>6, <1>8
-------------------------------------------------------------------------------
(* The allocator's promise.                                                  *)

\* The blocks by their addresses in bytes.
Bar(h) == [a \in {4 * p : p \in DOMAIN h} |-> h[a \div 4]]

\* Its domain and its values.
LEMMA BarIs ==
  ASSUME NEW h, \A p \in DOMAIN h : p \in Nat
  PROVE  /\ DOMAIN Bar(h) = {4 * p : p \in DOMAIN h}
         /\ \A p \in DOMAIN h : 4 * p \in DOMAIN Bar(h) /\ Bar(h)[4 * p] = h[p]
<1>1. DOMAIN Bar(h) = {4 * p : p \in DOMAIN h}
  BY DEF Bar
<1>2. ASSUME NEW p \in DOMAIN h PROVE 4 * p \in DOMAIN Bar(h) /\ Bar(h)[4 * p] = h[p]
  <2>1. p \in Nat
    BY <1>2
  <2>2. (4 * p) \div 4 = p
    BY <2>1
  <2> QED
    BY <1>2, <2>2 DEF Bar
<1> QED
  BY <1>1, <1>2

\* One block more.
LEMMA BarGiven ==
  ASSUME NEW h, \A p \in DOMAIN h : p \in Nat, NEW q, q \in Nat, NEW n, NEW g, With(g, h, q, n)
  PROVE  Bar(g) = promised!Given(Bar(h), 4 * q, n)
<1>1. DOMAIN g = DOMAIN h \cup {q} /\ \A p \in DOMAIN g : g[p] = IF p = q THEN n ELSE h[p]
  BY DEF With
<1>2. DOMAIN Bar(h) = {4 * p : p \in DOMAIN h} /\ \A p \in DOMAIN h : Bar(h)[4 * p] = h[p]
  BY BarIs
<1>3. {4 * p : p \in DOMAIN g} = {4 * p : p \in DOMAIN h} \cup {4 * q}
  BY <1>1
<1>4. ASSUME NEW a \in {4 * p : p \in DOMAIN g}
      PROVE  g[a \div 4] = IF a = 4 * q THEN n ELSE Bar(h)[a]
  <2>1. PICK p \in DOMAIN g : a = 4 * p
    BY <1>4
  <2>2. p \in Nat /\ a \div 4 = p /\ (a = 4 * q <=> p = q)
    BY <1>1, <2>1
  <2>3. p # q => Bar(h)[a] = h[p]
    BY <1>1, <1>2, <2>1
  <2> QED
    BY <1>1, <2>2, <2>3
<1> HIDE DEF Bar
<1>5. Bar(g) = [a \in {4 * p : p \in DOMAIN g} |-> IF a = 4 * q THEN n ELSE Bar(h)[a]]
  BY <1>4 DEF Bar
<1>6. promised!Given(Bar(h), 4 * q, n) = [a \in DOMAIN Bar(h) \cup {4 * q} |-> IF a = 4 * q THEN n ELSE Bar(h)[a]]
  BY DEF promised!Given
<1> QED
  BY <1>2, <1>3, <1>5, <1>6

\* One block less.
LEMMA BarWithout ==
  ASSUME NEW h, \A p \in DOMAIN h : p \in Nat, NEW p \in DOMAIN h, NEW g, Less(g, h, p)
  PROVE  Bar(g) = promised!Without(Bar(h), 4 * p)
<1>1. DOMAIN g = DOMAIN h \ {p} /\ \A r \in DOMAIN g : g[r] = h[r]
  BY DEF Less
<1>2. DOMAIN Bar(h) = {4 * r : r \in DOMAIN h} /\ \A r \in DOMAIN h : Bar(h)[4 * r] = h[r]
  BY BarIs
<1>3. {4 * r : r \in DOMAIN g} = {4 * r : r \in DOMAIN h} \ {4 * p}
  <2>1. \A r \in DOMAIN h : 4 * r = 4 * p => r = p
    OBVIOUS
  <2> QED
    BY <1>1, <2>1
<1>4. ASSUME NEW a \in {4 * r : r \in DOMAIN g} PROVE g[a \div 4] = Bar(h)[a]
  <2>1. PICK r \in DOMAIN g : a = 4 * r
    BY <1>4
  <2>2. r \in Nat /\ a \div 4 = r
    BY <1>1, <2>1
  <2> QED
    BY <1>1, <1>2, <2>1, <2>2
<1>5. Bar(g) = [a \in {4 * r : r \in DOMAIN g} |-> Bar(h)[a]]
  BY <1>4 DEF Bar
<1>6. promised!Without(Bar(h), 4 * p) = [a \in DOMAIN Bar(h) \ {4 * p} |-> Bar(h)[a]]
  BY DEF promised!Without, promised!Restrict
<1> QED
  BY <1>2, <1>3, <1>5, <1>6

\* A block the caller got fits among the others.
LEMMA BlockFits ==
  ASSUME NEW H, NEW g, NEW S, NEW z, NEW F, Owns(H, g, S, z, F), NEW q \in DOMAIN g, NEW h, Less(h, g, q)
  PROVE  4 * q \in promised!Addresses /\ promised!Fits(Bar(h), 4 * q, g[q]) /\ \A r \in DOMAIN g : r \in Nat
<1>1. /\ Tiled(S, z, H.brk) /\ \A r \in DOMAIN g : r \in S /\ g[r] \in Requests /\ Enough(g[r], z[r])
  BY DEF Owns, Work
<1>2. ASSUME NEW r \in DOMAIN g
      PROVE  /\ r \in Nat /\ r % 2 = 0 /\ r >= 6 /\ z[r] \in Nat /\ z[r] >= 4 /\ r + z[r] <= MaxHeap
             /\ g[r] \in Nat /\ g[r] <= 4 * (z[r] - 2)
  <2>1. r \in S /\ g[r] \in Requests /\ Enough(g[r], z[r])
    BY <1>1, <1>2
  <2>2. r \in Nat /\ r % 2 = 0 /\ Start <= r /\ z[r] \in Nat /\ z[r] >= 4 /\ r + z[r] <= H.brk
        /\ H.brk \in Nat /\ H.brk <= MaxHeap
    BY <1>1, <2>1, TileOf
  <2>3. g[r] \in Nat
    BY <2>1, RequestsAre
  <2>4. g[r] <= 4 * (z[r] - 2)
    BY <2>1, <2>2, <2>3 DEF Enough
  <2>5. r >= 6 /\ r + z[r] <= MaxHeap
    BY <2>2, HeadsAre, MmHeapAssumption
  <2> QED
    BY <2>2, <2>3, <2>4, <2>5
<1>3. 4 * q \in promised!Addresses
  <2>1. q \in Nat /\ q % 2 = 0 /\ q >= 6 /\ q <= MaxHeap /\ MaxHeap \in Nat
    BY <1>2, MmHeapAssumption
  <2>2. (4 * q) % 8 = 0 /\ 4 * q \in 1..(4 * MaxHeap)
    BY <2>1
  <2> QED
    BY <2>2 DEF promised!Addresses
<1>4. 4 * q + g[q] <= 4 * MaxHeap
  BY <1>2, MmHeapAssumption
<1>0. DOMAIN h = DOMAIN g \ {q} /\ \A r \in DOMAIN h : h[r] = g[r]
  BY DEF Less
<1>5. DOMAIN Bar(h) = {4 * r : r \in DOMAIN h} /\ \A r \in DOMAIN h : Bar(h)[4 * r] = h[r]
  <2>1. \A r \in DOMAIN h : r \in Nat
    BY <1>0, <1>2
  <2> QED
    BY <2>1, BarIs
<1>6. ASSUME NEW a \in DOMAIN Bar(h)
      PROVE  promised!Bytes(4 * q, g[q]) \cap promised!Bytes(a, Bar(h)[a]) = {}
  <2>1. PICK r \in DOMAIN h : a = 4 * r /\ Bar(h)[a] = g[r]
    BY <1>0, <1>5, <1>6
  <2>2. r \in DOMAIN g /\ r # q
    BY <1>0, <2>1
  <2>3. q + z[q] <= r \/ r + z[r] <= q
    BY <1>1, <2>2, TilesApart
  <2>4. 4 * q + g[q] <= 4 * r \/ 4 * r + g[r] <= 4 * q
    BY <1>2, <2>2, <2>3
  <2>5. q \in Nat /\ g[q] \in Nat /\ r \in Nat /\ g[r] \in Nat
    BY <1>2, <2>2
  <2> QED
    BY <2>1, <2>4, <2>5 DEF promised!Bytes
<1>7. promised!Fits(Bar(h), 4 * q, g[q])
  BY <1>4, <1>6 DEF promised!Fits
<1> QED
  BY <1>2, <1>3, <1>7

\* So the caller's new block is one the promise allows.
LEMMA Allowed ==
  ASSUME NEW H, NEW g, NEW S, NEW z, NEW F, Owns(H, g, S, z, F), NEW h, NEW q, q \notin DOMAIN h,
         NEW n, With(g, h, q, n)
  PROVE  /\ 4 * q \in promised!Addresses /\ promised!Fits(Bar(h), 4 * q, n)
         /\ Bar(g) = promised!Given(Bar(h), 4 * q, n)
<1>1. q \in DOMAIN g /\ g[q] = n /\ Less(h, g, q)
  BY DEF With, Less
<1>2. 4 * q \in promised!Addresses /\ promised!Fits(Bar(h), 4 * q, g[q]) /\ \A r \in DOMAIN g : r \in Nat
  BY <1>1, BlockFits
<1>3. q \in Nat /\ \A r \in DOMAIN h : r \in Nat
  BY <1>1, <1>2 DEF Less
<1>4. Bar(g) = promised!Given(Bar(h), 4 * q, n)
  BY <1>3, BarGiven
<1> QED
  BY <1>1, <1>2, <1>4
-------------------------------------------------------------------------------
(* The steps.                                                                *)

\* What ContentsKept says of a step.
Unspoilt ==
  LET kept == DOMAIN held \cap DOMAIN held' IN
  /\ \A p \in kept : SameWords(p, p, Words(held[p]))
  /\ \A p \in DOMAIN held \ kept, q \in DOMAIN held' \ kept :
       SameWords(p, q, Words(Min({held[p], held'[q]})))

\* What a call does: the heap stays well formed, the promise is kept, and so are the contents.
Good == HeapInv' /\ (promised!Next \/ UNCHANGED Bar(held)) /\ Unspoilt

\* A call that changes nothing.
LEMMA NothingHappens ==
  ASSUME HeapInv, heap' = heap, held' = held
  PROVE  Good
<1>1. HeapInv'
  BY DEF HeapInv
<1>2. UNCHANGED Bar(held)
  BY DEF Bar
<1>3. Unspoilt
  BY DEF Unspoilt, SameWords
<1> QED
  BY <1>1, <1>2, <1>3 DEF Good

\* The caller gets a block with data in it.
LEMMA Grants ==
  ASSUME HeapInv, NoWrap, NEW n, n \in Requests, NEW data, Ints(data), Len(data) <= Words(n), malloc(heap, n).bp # NULL,
         heap' = Filled(malloc(heap, n).heap, malloc(heap, n).bp, data), held' = Hold(malloc(heap, n).bp, n)
  PROVE  Good
<1>1. PICK q : q = malloc(heap, n).bp
  OBVIOUS
<1>2. PICK S, z, F : Owns(heap, held, S, z, F)
  BY DEF HeapInv
<1>3. ServedIn(heap.mem, heap', z, DOMAIN held, q, n, data)
  <2>1. ServedIn(heap.mem, Filled(malloc(heap, n).heap, malloc(heap, n).bp, data), z, DOMAIN held,
                 malloc(heap, n).bp, n, data)
    BY <1>2, MallocServes DEF HeapInv
  <2> QED
    BY <1>1, <2>1
<1>4. With(held', held, q, n) /\ held' = [p \in DOMAIN held' |-> held'[p]]
  BY <1>1 DEF Hold, With
<1>5. Gains(heap, held, heap', held', q, n, data)
  <2>1. PICK E, g : E = heap' /\ g = held'
    OBVIOUS
  <2>2. ServedIn(heap.mem, E, z, DOMAIN held, q, n, data) /\ With(g, held, q, n)
    BY <1>3, <1>4, <2>1
  <2>3. Gains(heap, held, E, g, q, n, data)
    BY <1>2, <2>2, GainsOne
  <2> QED
    BY <2>1, <2>3
<1>6. PICK T, y, G : Owns(heap', held', T, y, G)
  BY <1>5 DEF Gains
<1>7. /\ IsHeap(heap') /\ q \notin DOMAIN held
      /\ \A p \in DOMAIN held : \A k \in 0..(Words(held[p]) - 1) : heap'.mem[p + k] = heap.mem[p + k]
  BY <1>5 DEF Gains
<1>8. HeapInv'
  BY <1>4, <1>6, <1>7 DEF HeapInv
<1>9. promised!Next
  <2>1. PICK E, g : E = heap' /\ g = held'
    OBVIOUS
  <2>2. Owns(E, g, T, y, G) /\ With(g, held, q, n)
    BY <1>4, <1>6, <2>1
  <2>3. /\ 4 * q \in promised!Addresses /\ promised!Fits(Bar(held), 4 * q, n)
        /\ Bar(g) = promised!Given(Bar(held), 4 * q, n)
    BY <1>7, <2>2, Allowed
  <2>4. Bar(held)' = Bar(g)
    BY <2>1 DEF Bar
  <2>5. Bar(held)' = promised!Given(Bar(held), 4 * q, n)
    BY <2>3, <2>4
  <2> QED
    BY <2>3, <2>5 DEF promised!Next, promised!Malloc, Bar
<1>10. Unspoilt
  <2>1. DOMAIN held \cap DOMAIN held' = DOMAIN held
    BY <1>4 DEF With
  <2> QED
    BY <1>7, <2>1 DEF Unspoilt, SameWords
<1> QED
  BY <1>8, <1>9, <1>10 DEF Good

\* The caller gives a block back.
LEMMA Returns ==
  ASSUME HeapInv, NEW p \in DOMAIN held, heap' = free(heap, p), held' = [r \in DOMAIN held \ {p} |-> held[r]]
  PROVE  Good
<1>1. IsHeap(heap)
  BY DEF HeapInv
<1>2. PICK S, z, F : Owns(heap, held, S, z, F)
  BY DEF HeapInv
<1>0. /\ DOMAIN held' = DOMAIN held \ {p} /\ \A r \in DOMAIN held' : held'[r] = held[r]
      /\ Less(held', held, p)
  BY DEF Less
<1>3. Loses(heap, held, heap', held', p)
  <2>1. PICK g : g = held'
    OBVIOUS
  <2>2. Less(g, held, p)
    BY <1>0, <2>1
  <2>3. Loses(heap, held, free(heap, p), g, p)
    BY <1>1, <1>2, <2>2, LosesOne
  <2> QED
    BY <2>1, <2>3
<1>4. /\ IsHeap(heap')
      /\ \A r \in DOMAIN held' : \A k \in 0..(Words(held[r]) - 1) : heap'.mem[r + k] = heap.mem[r + k]
  BY <1>3 DEF Loses
<1>5. HeapInv'
  <2>1. held' = [r \in DOMAIN held' |-> held'[r]]
    BY <1>0
  <2>2. \E T, y, G : Owns(heap', held', T, y, G)
    BY <1>3 DEF Loses
  <2> QED
    BY <1>4, <2>1, <2>2 DEF HeapInv
<1>6. promised!Next
  <2>1. \A r \in DOMAIN held : r \in Nat
    <3>1. Tiled(S, z, heap.brk) /\ \A r \in DOMAIN held : r \in S
      BY <1>2 DEF Owns, Work
    <3> QED
      BY <3>1, TileOf
  <2>2. Bar(held') = promised!Without(Bar(held), 4 * p)
    BY <1>0, <2>1, BarWithout
  <2>3. 4 * p \in DOMAIN Bar(held)
    BY <2>1, BarIs
  <2> QED
    BY <2>2, <2>3 DEF promised!Next, promised!Free, Bar
<1>7. Unspoilt
  <2>1. DOMAIN held \cap DOMAIN held' = DOMAIN held' /\ DOMAIN held' \ DOMAIN held' = {}
    BY <1>0
  <2> QED
    BY <1>4, <2>1 DEF Unspoilt, SameWords
<1> QED
  BY <1>5, <1>6, <1>7 DEF Good

\* What realloc copies: words of the block p, after malloc has taken another for n bytes.
Copied(H, p, n) ==
  [k \in 1..Words(Min({4 * GET_SIZE(H.mem, HDRP(p)), n})) |-> malloc(H, n).heap.mem[p + k - 1]]

\* The smaller of two numbers.
LEMMA MinOfTwo ==
  ASSUME NEW i \in Int, NEW j \in Int
  PROVE  Min({i, j}) \in {i, j} /\ Min({i, j}) <= i /\ Min({i, j}) <= j
<1>1. \E x \in {i, j} : \A y \in {i, j} : x <= y
  <2>1. CASE i <= j
    BY <2>1
  <2>2. CASE j <= i
    BY <2>2
  <2> QED
    BY <2>1, <2>2
<1> QED
  BY <1>1 DEF Min

\* old is what p had, at least as far as its holder asked for it and n bytes go.
Copy(old, M, h, p, n) ==
  /\ Ints(old) /\ Len(old) <= Words(n)
  /\ \A k \in 0..(Words(Min({h[p], n})) - 1) : k < Len(old) /\ old[k + 1] = M[p + k]

\* So is what realloc copies.
LEMMA Copies ==
  ASSUME NoWrap, NEW H, IsHeap(H), NEW h, NEW S, NEW z, NEW F, Owns(H, h, S, z, F), NEW p, p \in DOMAIN h,
         NEW n, n \in Requests, malloc(H, n).bp # NULL
  PROVE  Copy(Copied(H, p, n), H.mem, h, p, n)
<1> DEFINE D == malloc(H, n).heap.mem
           a == 4 * GET_SIZE(H.mem, HDRP(p))
           m == Words(Min({a, n}))
<1>1. /\ Work(H.mem, S, z, F, F, H.brk) /\ DOMAIN h = S \ F /\ h[p] \in Requests /\ Enough(h[p], z[p])
      /\ Tiled(S, z, H.brk) /\ Tagged(H.mem, S, z, F, H.brk) /\ p \in S
  BY DEF Owns, Work
<1>2. n \in Nat /\ n > 0 /\ n + 15 < SizeMax /\ h[p] \in Nat
  BY <1>1, RequestsAre DEF NoWrap
<1>3. /\ p \in Nat /\ z[p] \in Nat /\ z[p] >= 4 /\ p + z[p] <= MaxHeap /\ MaxHeap \in Nat /\ a = 4 * z[p]
      /\ (h[p] + 3) \div 4 <= z[p] - 2 /\ h[p] <= a
  <2>1. p \in Nat /\ z[p] \in Nat /\ z[p] >= 4 /\ p + z[p] <= MaxHeap /\ MaxHeap \in Nat
    <3>1. p \in Nat /\ z[p] \in Nat /\ z[p] >= 4 /\ p + z[p] <= H.brk /\ H.brk \in Nat /\ H.brk <= MaxHeap
      BY <1>1, TileOf
    <3> QED
      BY <3>1, MmHeapAssumption
  <2>2. a = 4 * z[p]
    BY <1>1, BlockReads
  <2>3. 4 * (z[p] - 2) >= h[p]
    BY <1>1 DEF Enough
  <2> QED
    BY <1>2, <2>1, <2>2, <2>3
<1>4. D \in Mem /\ Kept(H.mem, D, z, DOMAIN h)
  <2>1. PICK got : got = malloc(H, n)
    OBVIOUS
  <2>2. Taken(H.mem, got.heap.mem, z, DOMAIN h, got.heap.brk, got.bp, adjustsize(n))
    BY <1>1, <1>2, <2>1, Mallocs
  <2>3. got.heap.mem \in Mem /\ Kept(H.mem, got.heap.mem, z, DOMAIN h)
    BY <2>2 DEF Taken, Work
  <2> QED
    BY <2>1, <2>3
<1>5. Copied(H, p, n) = [k \in 1..m |-> D[p + k - 1]]
  BY DEF Copied
<1> HIDE DEF D, a
<1>6. /\ Min({a, n}) \in Nat /\ Min({a, n}) <= a
      /\ Min({h[p], n}) \in Nat /\ Min({h[p], n}) <= h[p] /\ Min({h[p], n}) <= Min({a, n})
  <2>1. a \in Int /\ n \in Int /\ h[p] \in Int
    BY <1>2, <1>3
  <2>2. Min({a, n}) \in {a, n} /\ Min({a, n}) <= a
    BY <2>1, MinOfTwo
  <2>3. Min({h[p], n}) \in {h[p], n} /\ Min({h[p], n}) <= h[p] /\ Min({h[p], n}) <= n
    BY <2>1, MinOfTwo
  <2> QED
    BY <1>2, <1>3, <2>2, <2>3
<1>7. m \in Nat /\ m <= z[p]
  BY <1>3, <1>6 DEF Words
<1>8. Len(Copied(H, p, n)) = m /\ \A k \in 1..m : Copied(H, p, n)[k] = D[p + k - 1]
  <2> HIDE DEF m
  <2> QED
    BY <1>5, <1>7
<1>9. Ints(Copied(H, p, n))
  <2> HIDE DEF m
  <2>1. \A k \in 1..m : p + k - 1 \in 0..(MaxHeap - 1)
    BY <1>3, <1>7
  <2>2. \A k \in 1..m : D[p + k - 1] \in Int
    BY <1>4, <2>1 DEF Mem
  <2> QED
    BY <1>7, <1>8, <2>2 DEF Ints
<1>10. ASSUME NEW k \in 0..(Words(Min({h[p], n})) - 1)
       PROVE  k < m /\ D[p + k] = H.mem[p + k]
  <2>1. k \in Nat /\ k < Words(Min({h[p], n})) /\ Words(Min({h[p], n})) <= m
        /\ Words(Min({h[p], n})) <= (h[p] + 3) \div 4
    BY <1>2, <1>3, <1>6 DEF Words
  <2>2. p + k \in Body(z, p)
    <3>1. k < z[p] - 2
      BY <1>2, <1>3, <1>6, <1>7, <2>1 DEF Words
    <3> QED
      BY <1>3, <2>1, <3>1 DEF Body
  <2> QED
    BY <1>4, <1>6, <1>7, <2>1, <2>2 DEF Kept, Words
<1>11. ASSUME NEW k \in 0..(Words(Min({h[p], n})) - 1)
       PROVE  k < Len(Copied(H, p, n)) /\ Copied(H, p, n)[k + 1] = H.mem[p + k]
  <2>1. k \in Nat /\ k + 1 \in 1..m /\ p + (k + 1) - 1 = p + k
    BY <1>3, <1>6, <1>7, <1>10 DEF Words
  <2> HIDE DEF m
  <2> QED
    BY <1>7, <1>8, <1>10, <2>1
<1>12. Len(Copied(H, p, n)) <= Words(n)
  <2>1. PICK x : x = Min({a, n})
    OBVIOUS
  <2>2. x \in Nat /\ x <= n
    BY <1>2, <1>3, <1>6, <2>1, MinOfTwo
  <2>3. m = Words(x)
    BY <2>1
  <2>4. m <= Words(n)
    <3>1. (x + 3) \div 4 <= (n + 3) \div 4
      BY <1>2, <2>2
    <3> HIDE DEF m
    <3> QED
      BY <2>3, <3>1 DEF Words
  <2> HIDE DEF m
  <2> QED
    BY <1>8, <2>4
<1> QED
  BY <1>9, <1>11, <1>12 DEF Copy

\* The caller gets a block with what is in its block p, and gives p back.
LEMMA Moves ==
  ASSUME HeapInv, NoWrap, NEW p \in DOMAIN held, NEW n, n \in Requests, malloc(heap, n).bp # NULL,
         heap' = free(Filled(malloc(heap, n).heap, malloc(heap, n).bp, Copied(heap, p, n)), p),
         held' = [q \in (DOMAIN held \cup {malloc(heap, n).bp}) \ {p} |->
                    IF q = malloc(heap, n).bp THEN n ELSE held[q]]
  PROVE  Good
<1>1. PICK q, E, old : /\ q = malloc(heap, n).bp /\ old = Copied(heap, p, n)
                       /\ E = Filled(malloc(heap, n).heap, malloc(heap, n).bp, Copied(heap, p, n))
  OBVIOUS
<1>2. PICK S, z, F : Owns(heap, held, S, z, F)
  BY DEF HeapInv
<1>3. /\ Ints(old) /\ Len(old) <= Words(n)
      /\ \A k \in 0..(Words(Min({held[p], n})) - 1) : k < Len(old) /\ old[k + 1] = heap.mem[p + k]
  <2>1. IsHeap(heap)
    BY DEF HeapInv
  <2>2. Copy(Copied(heap, p, n), heap.mem, held, p, n)
    BY <1>2, <2>1, Copies
  <2>3. Copy(old, heap.mem, held, p, n)
    BY <1>1, <2>2
  <2> QED
    BY <2>3 DEF Copy
<1>4. ServedIn(heap.mem, E, z, DOMAIN held, q, n, old)
  <2>1. Ints(Copied(heap, p, n)) /\ Len(Copied(heap, p, n)) <= Words(n)
    BY <1>1, <1>3
  <2>2. ServedIn(heap.mem, Filled(malloc(heap, n).heap, malloc(heap, n).bp, Copied(heap, p, n)), z, DOMAIN held,
                 malloc(heap, n).bp, n, Copied(heap, p, n))
    BY <1>2, <2>1, MallocServes DEF HeapInv
  <2> QED
    BY <1>1, <2>2
<1>5. PICK g : With(g, held, q, n)
  <2> DEFINE f == [r \in DOMAIN held \cup {q} |-> IF r = q THEN n ELSE held[r]]
  <2>1. With(f, held, q, n)
    BY DEF With
  <2> QED
    BY <2>1
<1>6. Gains(heap, held, E, g, q, n, old)
  BY <1>2, <1>4, <1>5, GainsOne
<1>7. PICK T, y, G : Owns(E, g, T, y, G) /\ Begins(E.mem, q, y[q] - 2, old)
  BY <1>6 DEF Gains
<1>8. /\ IsHeap(E) /\ q \notin DOMAIN held
      /\ \A r \in DOMAIN held : \A k \in 0..(Words(held[r]) - 1) : E.mem[r + k] = heap.mem[r + k]
  BY <1>6 DEF Gains
<1>9. DOMAIN g = DOMAIN held \cup {q} /\ g[q] = n /\ (\A r \in DOMAIN held : g[r] = held[r]) /\ p # q
  BY <1>5, <1>8 DEF With
<1>10. /\ DOMAIN held' = (DOMAIN held \cup {q}) \ {p} /\ held'[q] = n
       /\ \A r \in DOMAIN held' : r # q => held'[r] = held[r]
       /\ held' = [r \in DOMAIN held' |-> held'[r]]
  BY <1>1, <1>9
<1>11. Less(held', g, p)
  <2>1. \A r \in DOMAIN held' : held'[r] = g[r]
    BY <1>9, <1>10
  <2> QED
    BY <1>9, <1>10, <2>1 DEF Less
<1>12. heap' = free(E, p)
  BY <1>1
<1>13. Loses(E, g, heap', held', p)
  <2>1. PICK e : e = held'
    OBVIOUS
  <2>2. Less(e, g, p) /\ p \in DOMAIN g
    BY <1>9, <1>11, <2>1
  <2>3. Loses(E, g, free(E, p), e, p)
    BY <1>7, <1>8, <2>2, LosesOne
  <2> QED
    BY <1>12, <2>1, <2>3
<1>14. PICK X, x, Y : Owns(heap', held', X, x, Y)
  BY <1>13 DEF Loses
<1>15. /\ IsHeap(heap')
       /\ \A r \in DOMAIN held' : \A k \in 0..(Words(g[r]) - 1) : heap'.mem[r + k] = E.mem[r + k]
  BY <1>13 DEF Loses
<1>16. HeapInv'
  BY <1>10, <1>14, <1>15 DEF HeapInv
<1>17. promised!Next
  <2>1. PICK h : Less(h, held, p)
    <3> DEFINE f == [r \in DOMAIN held \ {p} |-> held[r]]
    <3>1. Less(f, held, p)
      BY DEF Less
    <3> QED
      BY <3>1
  <2>2. PICK K, e : K = heap' /\ e = held'
    OBVIOUS
  <2>3. q \notin DOMAIN h /\ With(e, h, q, n)
    BY <1>8, <1>9, <1>10, <2>1, <2>2 DEF Less, With
  <2>4. Owns(K, e, X, x, Y)
    BY <1>14, <2>2
  <2>5. 4 * q \in promised!Addresses /\ promised!Fits(Bar(h), 4 * q, n) /\ Bar(e) = promised!Given(Bar(h), 4 * q, n)
    BY <2>3, <2>4, Allowed
  <2>6. \A r \in DOMAIN held : r \in Nat
    <3>1. Tiled(S, z, heap.brk) /\ \A r \in DOMAIN held : r \in S
      BY <1>2 DEF Owns, Work
    <3> QED
      BY <3>1, TileOf
  <2>7. Bar(h) = promised!Without(Bar(held), 4 * p) /\ 4 * p \in DOMAIN Bar(held)
    BY <2>1, <2>6, BarIs, BarWithout
  <2>8. Bar(held)' = Bar(e)
    BY <2>2 DEF Bar
  <2>9. /\ 4 * p \in DOMAIN Bar(held) /\ 4 * q \in promised!Addresses
        /\ promised!Fits(promised!Without(Bar(held), 4 * p), 4 * q, n)
        /\ Bar(held)' = promised!Given(promised!Without(Bar(held), 4 * p), 4 * q, n)
    BY <2>5, <2>7, <2>8
  <2> QED
    BY <2>9 DEF promised!Next, promised!Realloc, Bar
<1>18. Unspoilt
  <2>1. DOMAIN held \cap DOMAIN held' = DOMAIN held \ {p}
    BY <1>8, <1>9, <1>10
  <2>2. ASSUME NEW r \in DOMAIN held \ {p} PROVE SameWords(r, r, Words(held[r]))
    BY <1>8, <1>9, <1>10, <1>15, <2>2 DEF SameWords
  <2>3. ASSUME NEW k \in 0..(Words(Min({held[p], n})) - 1) PROVE heap'.mem[q + k] = heap.mem[p + k]
    <3>1. held[p] \in Nat /\ n \in Nat
      BY <1>2, RequestsAre DEF Owns
    <3>2. Min({held[p], n}) \in Nat /\ Min({held[p], n}) <= n
      <4>1. held[p] \in Int /\ n \in Int
        BY <3>1
      <4>2. Min({held[p], n}) \in {held[p], n} /\ Min({held[p], n}) <= n
        BY <4>1, MinOfTwo
      <4> QED
        BY <3>1, <4>2
    <3>3. k \in Nat /\ k \in 0..(Words(n) - 1)
      BY <3>1, <3>2 DEF Words
    <3>4. k < y[q] - 2
      <4>1. Enough(n, y[q]) /\ y[q] \in Nat
        <5>1. q \in T /\ Tiled(T, y, E.brk) /\ Enough(g[q], y[q])
          BY <1>7, <1>9 DEF Owns, Work
        <5> QED
          BY <1>9, <5>1, TileOf
      <4> QED
        BY <3>1, <3>3, <4>1 DEF Enough, Words
    <3>5. E.mem[q + k] = heap.mem[p + k]
      BY <1>3, <1>7, <2>3, <3>3, <3>4 DEF Begins
    <3>6. heap'.mem[q + k] = E.mem[q + k]
      BY <1>9, <1>10, <1>15, <3>3
    <3> QED
      BY <3>5, <3>6
  <2>4. SameWords(p, q, Words(Min({held[p], held'[q]})))
    BY <1>10, <2>3 DEF SameWords
  <2>5. \A r \in DOMAIN held \ (DOMAIN held \ {p}), s \in DOMAIN held' \ (DOMAIN held \ {p}) : r = p /\ s = q
    BY <1>10
  <2> QED
    BY <2>1, <2>2, <2>4, <2>5 DEF Unspoilt
<1> QED
  BY <1>16, <1>17, <1>18 DEF Good

\* Where malloc finds no block nothing has changed.
LEMMA FindsNone ==
  ASSUME HeapInv, NoWrap, NEW n, n = 0 \/ n \in Requests, malloc(heap, n).bp = NULL
  PROVE  malloc(heap, n).heap = heap
<1>1. CASE n = 0
  BY <1>1 DEF malloc
<1>2. CASE n \in Requests
  <2>1. n \in Nat /\ n > 0 /\ n + 15 < SizeMax
    BY <1>2, RequestsAre DEF NoWrap
  <2>2. PICK S, z, F : Work(heap.mem, S, z, F, F, heap.brk)
    BY DEF HeapInv, Owns
  <2>3. IsHeap(heap)
    BY DEF HeapInv
  <2>4. PICK got, U : got = malloc(heap, n) /\ U = S \ F
    OBVIOUS
  <2>5. (got.bp = NULL /\ got.heap = heap) \/ got.bp # NULL
    BY <2>1, <2>2, <2>3, <2>4, Mallocs
  <2> QED
    BY <2>4, <2>5
<1> QED
  BY <1>1, <1>2

\* The caller's request for 0 bytes finds none.
LEMMA NothingForNothing == ASSUME NEW H PROVE malloc(H, 0).bp = NULL /\ malloc(H, 0).heap = H
BY DEF malloc

\* malloc.
LEMMA MallocIsGood == ASSUME HeapInv, NoWrap, NEW n \in Sizes, Malloc(n) PROVE Good
<1>1. n = 0 \/ n \in Requests
  BY DEF Requests
<1>2. CASE malloc(heap, n).bp = NULL
  <2>1. heap' = heap /\ held' = held
    BY <1>1, <1>2, FindsNone DEF Malloc
  <2> QED
    BY <2>1, NothingHappens
<1>3. CASE malloc(heap, n).bp # NULL
  <2>1. n \in Requests
    BY <1>1, <1>3, NothingForNothing
  <2>2. Ints(Data(n)) /\ Len(Data(n)) <= Words(n)
    <3>1. n \in Nat
      BY <2>1, RequestsAre
    <3>2. Words(n) \in Nat
      BY <3>1 DEF Words
    <3> QED
      BY <3>2 DEF Ints, Data
  <2>3. /\ heap' = Filled(malloc(heap, n).heap, malloc(heap, n).bp, Data(n))
        /\ held' = Hold(malloc(heap, n).bp, n)
    BY <1>3 DEF Malloc
  <2> QED
    BY <1>3, <2>1, <2>2, <2>3, Grants
<1> QED
  BY <1>2, <1>3

\* calloc.
LEMMA CallocIsGood == ASSUME HeapInv, NoWrap, NEW count \in Counts, NEW n \in Sizes, Calloc(count, n) PROVE Good
<1>1. PICK total : total = (count * n) % SizeMax
  OBVIOUS
<1>2. total = 0 \/ total \in Requests
  BY <1>1 DEF Requests
<1>3. CASE malloc(heap, total).bp = NULL
  <2>1. heap' = heap /\ held' = held
    BY <1>1, <1>2, <1>3, FindsNone DEF Calloc
  <2> QED
    BY <2>1, NothingHappens
<1>4. CASE malloc(heap, total).bp # NULL
  <2>1. total \in Requests
    BY <1>2, <1>4, NothingForNothing
  <2>2. PICK data : data = [k \in 1..Words(total) |-> 0]
    OBVIOUS
  <2>3. Ints(data) /\ Len(data) <= Words(total)
    <3>1. total \in Nat
      BY <2>1, RequestsAre
    <3>2. Words(total) \in Nat
      BY <3>1 DEF Words
    <3> QED
      BY <2>2, <3>2 DEF Ints
  <2>4. /\ heap' = Filled(malloc(heap, total).heap, malloc(heap, total).bp, data)
        /\ held' = Hold(malloc(heap, total).bp, total)
    BY <1>1, <1>4, <2>2 DEF Calloc
  <2> QED
    BY <1>4, <2>1, <2>3, <2>4, Grants
<1> QED
  BY <1>3, <1>4

\* free.
LEMMA FreeIsGood == ASSUME HeapInv, NEW p \in DOMAIN held, Free(p) PROVE Good
BY Returns DEF Free

\* realloc.
LEMMA ReallocIsGood == ASSUME HeapInv, NoWrap, NEW p \in DOMAIN held, NEW n \in Sizes, Realloc(p, n) PROVE Good
<1>1. n = 0 \/ n \in Requests
  BY DEF Requests
<1>2. CASE n = 0
  <2>1. heap' = free(heap, p) /\ held' = [q \in DOMAIN held \ {p} |-> held[q]]
    BY <1>2 DEF Realloc
  <2> QED
    BY <2>1, Returns
<1>3. CASE n # 0 /\ malloc(heap, n).bp = NULL
  <2>1. heap' = heap /\ held' = held
    BY <1>1, <1>3, FindsNone DEF Realloc
  <2> QED
    BY <2>1, NothingHappens
<1>4. CASE n # 0 /\ malloc(heap, n).bp # NULL
  <2>1. n \in Requests
    BY <1>1, <1>4
  <2>2. /\ heap' = free(Filled(malloc(heap, n).heap, malloc(heap, n).bp, Copied(heap, p, n)), p)
        /\ held' = [q \in (DOMAIN held \cup {malloc(heap, n).bp}) \ {p} |->
                      IF q = malloc(heap, n).bp THEN n ELSE held[q]]
    BY <1>4 DEF Realloc, Copied
  <2> QED
    BY <1>4, <2>1, <2>2, Moves
<1> QED
  BY <1>2, <1>3, <1>4

\* Every call does well.
LEMMA StepIsGood == ASSUME HeapInv, NoWrap, [Next]_vars PROVE Good
<1>1. ASSUME NEW n \in Sizes, Malloc(n) PROVE Good
  BY <1>1, MallocIsGood
<1>2. ASSUME NEW p \in DOMAIN held, Free(p) PROVE Good
  BY <1>2, FreeIsGood
<1>3. ASSUME NEW p \in DOMAIN held, NEW n \in Sizes, Realloc(p, n) PROVE Good
  BY <1>3, ReallocIsGood
<1>4. ASSUME NEW count \in Counts, NEW n \in Sizes, Calloc(count, n) PROVE Good
  BY <1>4, CallocIsGood
<1>5. CASE UNCHANGED vars
  BY <1>5, NothingHappens DEF vars
<1> QED
  BY <1>1, <1>2, <1>3, <1>4, <1>5 DEF Next
-------------------------------------------------------------------------------
(* The start.                                                                *)

\* The words mm_init writes before the heap grows.
Table ==
  [a \in 0..(MaxHeap - 1) |->
     CASE a < 2 * LIST_NUM                               -> a - (a % 2)
       [] a = 2 * LIST_NUM                               -> 0
       [] a \in {2 * LIST_NUM + 1, 2 * LIST_NUM + 2}     -> PACK(2, ALLOC)
       [] a = 2 * LIST_NUM + 3                           -> PACK(0, ALLOC)
       [] OTHER                                          -> Junk]

\* They are a heap without blocks: the heads point to themselves.
LEMMA TableWorks == \E z : Work(Table, {}, z, {}, {}, Start)
<1> DEFINE z == [p \in {} |-> 4]
           B == 2 * LIST_NUM
<1>1. B \in Nat /\ B % 2 = 0 /\ B >= 2 /\ Start = B + 4 /\ Start \in Nat /\ Start % 2 = 0 /\ Start <= MaxHeap /\ MaxHeap \in Nat
  BY MmHeapAssumption DEF Start
<1> HIDE DEF B
<1>2. ASSUME NEW a \in 0..(MaxHeap - 1)
      PROVE  /\ Table[a] \in Int /\ (a < B => Table[a] = a - (a % 2))
             /\ (a = B + 1 \/ a = B + 2 => Table[a] = PACK(2, ALLOC))
             /\ (a = B + 3 => Table[a] = PACK(0, ALLOC))
  BY <1>1 DEF Table, PACK, ALLOC, Junk, B
<1>3. Table \in Mem
  <2>1. Table = [a \in 0..(MaxHeap - 1) |-> Table[a]]
    BY DEF Table
  <2> QED
    BY <1>2, <2>1 DEF Mem
<1>4. Tiled({}, z, Start)
  BY <1>1 DEF Tiled
<1>5. Tagged(Table, {}, z, {}, Start)
  <2>1. Start - 3 = B + 1 /\ Start - 2 = B + 2 /\ Start - 1 = B + 3
    BY <1>1
  <2>2. B + 1 \in 0..(MaxHeap - 1) /\ B + 2 \in 0..(MaxHeap - 1) /\ B + 3 \in 0..(MaxHeap - 1)
    BY <1>1
  <2>3. Table[B + 1] = PACK(2, ALLOC) /\ Table[B + 2] = PACK(2, ALLOC) /\ Table[B + 3] = PACK(0, ALLOC)
    BY <1>2, <2>2
  <2> QED
    BY <2>1, <2>3 DEF Tagged
<1>6. Linked(Table, {}, z)
  <2>1. ASSUME NEW x \in Heads PROVE Table[x] = x /\ Table[x + 1] = x
    <3>1. x \in Nat /\ x % 2 = 0 /\ x + 2 <= B
      BY <1>1, HeadsAre
    <3>2. x \in 0..(MaxHeap - 1) /\ x + 1 \in 0..(MaxHeap - 1) /\ x < B /\ x + 1 < B /\ (x + 1) % 2 = 1
      BY <1>1, <3>1
    <3>3. Table[x] = x - (x % 2) /\ Table[x + 1] = (x + 1) - ((x + 1) % 2)
      BY <1>2, <3>2
    <3> QED
      BY <3>1, <3>2, <3>3
  <2>2. {} \cup Heads = Heads
    OBVIOUS
  <2>3. NoLoops(Table, {}) /\ Apart({}, z)
    BY DEF NoLoops, Apart
  <2> QED
    BY <2>1, <2>2, <2>3 DEF Linked, Rings
<1> QED
  BY <1>3, <1>4, <1>5, <1>6 DEF Work

\* mm_init makes a heap, with one free block.
LEMMA InitHeap == Init => HeapInv
<1> SUFFICES ASSUME Init PROVE HeapInv
  OBVIOUS
<1> DEFINE n == INISIZE \div 4
           c == Start + n
           D == PUT(Tag(Table, Start, n, FREE), Start + n - 1, PACK(0, ALLOC))
           E == coalesce(D, Start).mem
<1>1. n \in Nat /\ n % 2 = 0 /\ n >= 4 /\ c <= MaxHeap /\ MaxHeap \in Nat /\ Start \in Nat /\ n + (n % 2) = n
  BY MmHeapAssumption DEF Start
<1>2. heap = extend_heap([mem |-> Table, brk |-> Start], n).heap /\ held = << >>
  BY DEF Init, Table, Start
<1>3. heap = [mem |-> E, brk |-> c]
  <2> HIDE DEF n
  <2>1. ~(Start + n > MaxHeap)
    BY <1>1
  <2> QED
    BY <1>1, <1>2, <2>1 DEF extend_heap
<1>4. PICK z : Work(Table, {}, z, {}, {}, Start)
  BY TableWorks
<1>5. PICK U, S : S = {} /\ U = S \ S
  OBVIOUS
<1> HIDE DEF n
<1>6. \E k \in Nat : k >= n /\ Settled(Table, E, z, U, c, coalesce(D, Start).bp, k)
  <2>1. D = PUT(Tag(Table, Start, n, FREE), Start + n - 1, PACK(0, ALLOC)) /\ c = Start + n
    OBVIOUS
  <2> HIDE DEF D, c
  <2> QED
    BY <1>1, <1>4, <1>5, <2>1, Grows DEF E
<1> HIDE DEF E, c
<1>7. PICK T, G, y : Work(E, T, y, G, G, c) /\ T \ G = U
  BY <1>6 DEF Settled
<1>8. heap.mem = E /\ heap.brk = c /\ IsHeap(heap)
  BY <1>3 DEF IsHeap
<1>9. DOMAIN held = {} /\ held = [p \in DOMAIN held |-> held[p]]
  BY <1>2
<1>10. Owns(heap, held, T, y, G)
  BY <1>5, <1>7, <1>8, <1>9 DEF Owns
<1> QED
  BY <1>8, <1>9, <1>10 DEF HeapInv

\* At the start the caller holds nothing.
LEMMA InitPromised == Init => promised!Init
<1> SUFFICES ASSUME Init PROVE promised!Init
  OBVIOUS
<1>1. held = << >>
  BY DEF Init
<1>2. {4 * p : p \in DOMAIN held} = {}
  BY <1>1
<1> QED
  BY <1>2 DEF promised!Init
-------------------------------------------------------------------------------
(* The theorems.                                                             *)

\* The heap is always well formed: its blocks lie one behind the other from the prologue
\* to the epilogue with equal tags at both ends, the free ones are linked both ways in
\* rings, each within one list, and the others are the ones the caller holds, each with
\* room for what was asked for (mm.c's heap between two calls).
THEOREM HeapIsWellFormed == ASSUME NoWrap PROVE Spec => []HeapInv
<1>1. Init => HeapInv
  BY InitHeap
<1>2. HeapInv /\ [Next]_vars => HeapInv'
  BY StepIsGood DEF Good
<1> QED
  BY <1>1, <1>2, PTL DEF Spec

\* malloc, free, realloc and calloc keep the promise of Allocator: every block is
\* aligned, inside the heap, and overlaps none the caller still holds.
THEOREM KeepsThePromise == ASSUME NoWrap PROVE Spec => ImplementsAllocator
<1>1. Spec => []HeapInv
  BY HeapIsWellFormed
<1>2. Init => promised!Init
  BY InitPromised
<1>3. HeapInv /\ [Next]_vars => [promised!Next]_([a \in {4 * p : p \in DOMAIN held} |-> held[a \div 4]])
  BY StepIsGood DEF Good, Bar
<1> QED
  BY <1>1, <1>2, <1>3, PTL DEF Spec, ImplementsAllocator, promised!Spec

\* No call writes into a block the caller keeps, and what realloc returns begins with
\* the words of the block it replaces.
THEOREM KeepsTheContents == ASSUME NoWrap PROVE Spec => ContentsKept
<1>1. Spec => []HeapInv
  BY HeapIsWellFormed
<1>2. HeapInv /\ [Next]_vars =>
        [LET kept == DOMAIN held \cap DOMAIN held' IN
         /\ \A p \in kept : SameWords(p, p, Words(held[p]))
         /\ \A p \in DOMAIN held \ kept, q \in DOMAIN held' \ kept :
              SameWords(p, q, Words(Min({held[p], held'[q]})))]_vars
  BY StepIsGood DEF Good, Unspoilt
<1> QED
  BY <1>1, <1>2, PTL DEF Spec, ContentsKept
-------------------------------------------------------------------------------
(* The walk from block to block.                                             *)

BlockWalk(w, H) ==
  w = [n \in 0..(MaxHeap \div 4) |->
        LET seen == w[n - 1]
            bp   == IF seen = <<>> THEN 2 * LIST_NUM + 4 ELSE NEXT_BLKP(H.mem, Last(seen))
        IN  IF n = 0 THEN <<>>
            ELSE IF HDRP(bp) \notin DOMAIN H.mem \/ H.mem[HDRP(bp)] = PACK(0, ALLOC) THEN seen
            ELSE Append(seen, bp)]

\* Blocks is what a walk gathers.
LEMMA WalkOfBlocks ==
  ASSUME NEW H, NEW f, BlockWalk(f, H)
  PROVE  \E w : BlockWalk(w, H) /\ Blocks(H) = w[MaxHeap \div 4]
<1> DEFINE w == CHOOSE v : BlockWalk(v, H)
<1>1. BlockWalk(w, H)
  OBVIOUS
<1>2. Blocks(H) = w[MaxHeap \div 4]
  BY DEF Blocks, BlockWalk
<1> QED
  BY <1>1, <1>2

\* Where a walk that has seen some blocks stands.
At(z, seen) == IF seen = <<>> THEN Start ELSE Last(seen) + z[Last(seen)]

\* It has seen the blocks below that, and nothing else.
Passed(S, z, b, seen) ==
  /\ seen \in Seq(S) /\ At(z, seen) \in S \cup {b} /\ At(z, seen) >= Start + 4 * Len(seen)
  /\ \A r \in S : r < At(z, seen) <=> \E i \in 1..Len(seen) : seen[i] = r

\* The first block is at the start, if there is one.
LEMMA FirstBlock ==
  ASSUME NEW S, NEW z, NEW b, Tiled(S, z, b)
  PROVE  Start \in S \cup {b}
<1>1. b \in Nat /\ (\A p \in S : p \in Nat /\ z[p] \in Nat /\ z[p] >= 4)
      /\ \A p \in S \cup {b} : p = Start \/ \E q \in S : q + z[q] = p
  BY DEF Tiled
<1>2. PICK p \in S \cup {b} : \A q \in S \cup {b} : p <= q
  <2> DEFINE N == S \cup {b}
  <2>1. N \in SUBSET Nat /\ N # {}
    BY <1>1
  <2> HIDE DEF N
  <2>2. Min(N) \in N /\ \A q \in N : Min(N) <= q
    BY <2>1, Smallest
  <2> QED
    BY <2>2 DEF N
<1>3. ASSUME NEW q \in S, q + z[q] = p PROVE FALSE
  BY <1>1, <1>2, <1>3
<1> QED
  BY <1>1, <1>2, <1>3

\* One block further.
LEMMA PassesOne ==
  ASSUME NEW S, NEW z, NEW b, Tiled(S, z, b), NEW seen, Passed(S, z, b, seen), At(z, seen) \in S
  PROVE  Passed(S, z, b, Append(seen, At(z, seen)))
<1> DEFINE p == At(z, seen)
           new == Append(seen, p)
<1>1. p \in S /\ seen \in Seq(S) /\ p >= Start + 4 * Len(seen)
  BY DEF Passed
<1>2. \A r \in S : r < p <=> \E i \in 1..Len(seen) : seen[i] = r
  BY DEF Passed
<1> HIDE DEF p
<1>3. /\ new \in Seq(S) /\ new # <<>> /\ Len(new) = Len(seen) + 1 /\ Last(new) = p
      /\ new[Len(new)] = p /\ \A i \in 1..Len(seen) : new[i] = seen[i]
  BY <1>1 DEF Last
<1>4. At(z, new) = p + z[p]
  BY <1>3 DEF At
<1> HIDE DEF new
<1>5. p \in Nat /\ z[p] \in Nat /\ z[p] >= 4 /\ p + z[p] \in S \cup {b} /\ Len(seen) \in Nat /\ Start \in Nat
  BY <1>1, TileOf, HeadsAre
<1>6. p + z[p] >= Start + 4 * Len(new)
  BY <1>1, <1>3, <1>5
<1>7. ASSUME NEW r \in S PROVE r < p + z[p] <=> r < p \/ r = p
  <2>1. r # p => r + z[r] <= p \/ p + z[p] <= r
    BY <1>1, TilesApart
  <2>2. r \in Nat /\ z[r] \in Nat /\ z[r] >= 4
    BY TileOf
  <2> QED
    BY <1>5, <2>1, <2>2
<1>8. ASSUME NEW r \in S PROVE r < p + z[p] <=> \E i \in 1..Len(new) : new[i] = r
  <2>1. (\E i \in 1..Len(new) : new[i] = r) <=> (\E i \in 1..Len(seen) : seen[i] = r) \/ r = p
    BY <1>3, <1>5
  <2> QED
    BY <1>2, <1>7, <2>1
<1> QED
  BY <1>3, <1>4, <1>5, <1>6, <1>8 DEF Passed, p, new

\* The header of a block is in the heap, and not the epilogue's.
LEMMA NoEnd ==
  ASSUME NEW M, NEW S, NEW z, NEW F, NEW b, Work(M, S, z, F, F, b), NEW p \in S
  PROVE  HDRP(p) \in DOMAIN M /\ M[HDRP(p)] # PACK(0, ALLOC) /\ p # b
<1>1. M \in Mem /\ Tiled(S, z, b) /\ Tagged(M, S, z, F, b)
  BY DEF Work
<1>2. p \in Nat /\ Start <= p /\ z[p] \in Nat /\ z[p] >= 4 /\ p + z[p] <= b /\ b \in Nat /\ b <= MaxHeap
  BY <1>1, TileOf
<1>3. Start >= 6 /\ Start \in Nat /\ MaxHeap \in Nat
  BY HeadsAre, MmHeapAssumption
<1>4. M[p - 1] = TagOf(z, F, p)
  BY <1>1 DEF Tagged
<1>5. p - 1 \in DOMAIN M /\ p # b
  BY <1>1, <1>2, <1>3 DEF Mem
<1>6. TagOf(z, F, p) # PACK(0, ALLOC)
  BY <1>2 DEF TagOf, PACK, FREE, ALLOC
<1> QED
  BY <1>4, <1>5, <1>6 DEF HDRP

\* What the walk reads where it stands.
LEMMA WalkReads ==
  ASSUME NEW M, NEW S, NEW z, NEW F, NEW b, Work(M, S, z, F, F, b), NEW seen, Passed(S, z, b, seen)
  PROVE  /\ (IF seen = <<>> THEN 2 * LIST_NUM + 4 ELSE NEXT_BLKP(M, Last(seen))) = At(z, seen)
         /\ (HDRP(At(z, seen)) \notin DOMAIN M \/ M[HDRP(At(z, seen))] = PACK(0, ALLOC)) <=> At(z, seen) = b
<1>1. /\ M \in Mem /\ F \subseteq S /\ Tiled(S, z, b) /\ Tagged(M, S, z, F, b)
      /\ seen \in Seq(S) /\ At(z, seen) \in S \cup {b}
  BY DEF Work, Passed
<1>2. seen # <<>> => Last(seen) \in S
  BY <1>1 DEF Last
<1>3. seen # <<>> => NEXT_BLKP(M, Last(seen)) = Last(seen) + z[Last(seen)]
  BY <1>1, <1>2, BlockReads
<1>4. (IF seen = <<>> THEN 2 * LIST_NUM + 4 ELSE NEXT_BLKP(M, Last(seen))) = At(z, seen)
  BY <1>3 DEF At, Start
<1>5. b \in Nat /\ b <= MaxHeap /\ b >= 6 /\ MaxHeap \in Nat
  BY <1>1, HeadsAre, MmHeapAssumption DEF Tiled
<1>6. At(z, seen) = b => M[HDRP(At(z, seen))] = PACK(0, ALLOC)
  BY <1>1, <1>5 DEF HDRP, Tagged
<1>7. (HDRP(At(z, seen)) \notin DOMAIN M \/ M[HDRP(At(z, seen))] = PACK(0, ALLOC)) <=> At(z, seen) = b
  <2>1. PICK p : p = At(z, seen)
    OBVIOUS
  <2>2. p = b => M[HDRP(p)] = PACK(0, ALLOC)
    BY <1>6, <2>1
  <2>3. p \in S => HDRP(p) \in DOMAIN M /\ M[HDRP(p)] # PACK(0, ALLOC) /\ p # b
    BY NoEnd
  <2> QED
    BY <1>1, <2>1, <2>2, <2>3
<1> QED
  BY <1>4, <1>7

\* Walking the heap by its headers finds all its blocks, and those alone.
LEMMA WalkFindsAll ==
  ASSUME NEW H, NEW S, NEW z, NEW F, Work(H.mem, S, z, F, F, H.brk)
  PROVE  ToSet(Blocks(H)) = S
<1> DEFINE K == MaxHeap \div 4
           M == H.mem
           b == H.brk
           X == {seen \in Seq(S) : Passed(S, z, b, seen)}
           pos(seen) == IF seen = <<>> THEN 2 * LIST_NUM + 4 ELSE NEXT_BLKP(M, Last(seen))
           more(seen) == IF HDRP(pos(seen)) \notin DOMAIN M \/ M[HDRP(pos(seen))] = PACK(0, ALLOC) THEN seen
                         ELSE Append(seen, pos(seen))
           step == [n \in Nat |-> [seen \in X |-> more(seen)]]
<1>1. K \in Nat
  BY MmHeapAssumption
<1>2. Tiled(S, z, b)
  BY DEF Work
<1>3. ASSUME NEW seen \in X
      PROVE  more(seen) = IF At(z, seen) = b THEN seen ELSE Append(seen, At(z, seen))
  <2>1. Passed(S, z, b, seen)
    OBVIOUS
  <2>2. pos(seen) = At(z, seen)
        /\ ((HDRP(At(z, seen)) \notin DOMAIN M \/ M[HDRP(At(z, seen))] = PACK(0, ALLOC)) <=> At(z, seen) = b)
    BY <2>1, WalkReads
  <2> HIDE DEF pos
  <2> QED
    BY <2>2
<1> HIDE DEF more
<1>4. <<>> \in X
  <2>1. At(z, <<>>) = Start /\ Start \in S \cup {b} /\ Start \in Nat
    BY <1>2, FirstBlock, HeadsAre DEF At
  <2>2. <<>> \in Seq(S) /\ Len(<<>>) = 0 /\ ~ \E i \in 1..Len(<<>>) : TRUE
    OBVIOUS
  <2>3. \A r \in S : r \in Nat /\ Start <= r
    BY <1>2, TileOf
  <2> QED
    BY <2>1, <2>2, <2>3 DEF Passed
<1>5. ASSUME NEW seen \in X PROVE more(seen) \in X /\ (At(z, seen) # b => Len(more(seen)) = Len(seen) + 1)
  <2>1. Passed(S, z, b, seen) /\ seen \in Seq(S)
    OBVIOUS
  <2>2. CASE At(z, seen) = b
    BY <1>3, <2>2
  <2>3. CASE At(z, seen) # b
    <3>1. At(z, seen) \in S
      BY <2>1, <2>3 DEF Passed
    <3>2. Passed(S, z, b, Append(seen, At(z, seen)))
      BY <1>2, <2>1, <3>1, PassesOne
    <3>3. Append(seen, At(z, seen)) \in Seq(S) /\ Len(Append(seen, At(z, seen))) = Len(seen) + 1
      BY <2>1, <3>1
    <3> QED
      BY <1>3, <2>3, <3>2, <3>3
  <2> QED
    BY <2>2, <2>3
<1>6. \A seen \in X : seen \in Seq(S) /\ Passed(S, z, b, seen)
  OBVIOUS
<1> HIDE DEF X
<1>7. step \in [Nat -> [X -> X]]
  BY <1>5
<1>8. PICK f \in [0..K -> X] : Runs(f, K, <<>>, step)
  BY <1>1, <1>4, <1>7, RunsExist
<1>9. f[0] = <<>> /\ \A n \in 1..K : f[n] = more(f[n - 1])
  <2>1. \A n \in Nat : \A seen \in X : step[n][seen] = more(seen)
    OBVIOUS
  <2> HIDE DEF step, K
  <2>2. f[0] = <<>> /\ \A n \in 1..K : f[n] = step[n][f[n - 1]]
    BY <1>8 DEF Runs
  <2> SUFFICES ASSUME NEW n \in 1..K PROVE f[n] = more(f[n - 1])
    BY <2>2
  <2>3. n \in Nat /\ n - 1 \in 0..K
    BY <1>1
  <2>4. f[n - 1] \in X
    BY <1>8, <2>3
  <2> QED
    BY <2>1, <2>2, <2>3, <2>4
<1> HIDE DEF step
<1>10. BlockWalk(f, H)
  <2>1. \A n \in 0..K : f[n] = IF n = 0 THEN <<>> ELSE more(f[n - 1])
    <3> HIDE DEF K
    <3> QED
      BY <1>1, <1>9
  <2>2. f = [n \in 0..K |-> f[n]]
    OBVIOUS
  <2>3. f = [n \in 0..K |-> IF n = 0 THEN <<>> ELSE more(f[n - 1])]
    BY <2>1, <2>2
  <2> QED
    BY <2>3 DEF BlockWalk, more
<1>11. PICK w : BlockWalk(w, H) /\ Blocks(H) = w[K]
  BY <1>10, WalkOfBlocks
<1>12. \A n \in 0..K : w[n] = IF n = 0 THEN <<>> ELSE more(w[n - 1])
  BY <1>11 DEF BlockWalk, more
<1> HIDE DEF K
<1> DEFINE Bad == {n \in Nat : n <= K /\ ~(w[n] \in X /\ (At(z, w[n]) = b \/ Len(w[n]) = n))}
<1>13. Bad = {}
  <2> SUFFICES ASSUME Bad # {} PROVE FALSE
    OBVIOUS
  <2>1. PICK n \in Bad : \A m \in Bad : n <= m
    <3>1. Bad \in SUBSET Nat
      OBVIOUS
    <3> QED
      BY <3>1, Smallest
  <2>2. n \in 0..K /\ ~(w[n] \in X /\ (At(z, w[n]) = b \/ Len(w[n]) = n))
    BY <1>1, <2>1
  <2>3. n # 0
    BY <1>4, <1>12, <2>2
  <2>4. n - 1 \in Nat /\ n - 1 <= K /\ n - 1 \notin Bad
    BY <1>1, <2>1, <2>2, <2>3
  <2>5. w[n - 1] \in X /\ (At(z, w[n - 1]) = b \/ Len(w[n - 1]) = n - 1)
    BY <2>4
  <2>6. w[n] = more(w[n - 1])
    BY <1>12, <2>2, <2>3
  <2>7. CASE At(z, w[n - 1]) = b
    BY <1>3, <2>2, <2>5, <2>6, <2>7
  <2>8. CASE At(z, w[n - 1]) # b
    <3>1. w[n] \in X /\ Len(w[n]) = Len(w[n - 1]) + 1
      BY <1>5, <2>5, <2>6, <2>8
    <3> QED
      BY <2>2, <2>4, <2>5, <2>8, <3>1
  <2> QED
    BY <2>7, <2>8
<1>14. w[K] \in X /\ (At(z, w[K]) = b \/ Len(w[K]) = K)
  BY <1>1, <1>13
<1>15. Blocks(H) \in Seq(S) /\ Passed(S, z, b, Blocks(H)) /\ (At(z, Blocks(H)) = b \/ Len(Blocks(H)) = K)
  BY <1>6, <1>11, <1>14
<1>16. At(z, Blocks(H)) = b
  <2>1. At(z, Blocks(H)) >= Start + 4 * Len(Blocks(H)) /\ At(z, Blocks(H)) \in S \cup {b}
    BY <1>15 DEF Passed
  <2>2. \A p \in S : p \in Nat /\ p < b
    <3> SUFFICES ASSUME NEW p \in S PROVE p \in Nat /\ p < b
      OBVIOUS
    <3>1. p \in Nat /\ z[p] \in Nat /\ z[p] >= 4 /\ p + z[p] <= b /\ b \in Nat
      BY <1>2, TileOf
    <3> QED
      BY <3>1
  <2>3. b \in Nat /\ b <= MaxHeap /\ Start >= 6 /\ Start \in Nat /\ MaxHeap \in Nat
    BY <1>2, HeadsAre, MmHeapAssumption DEF Tiled
  <2>4. 4 * K >= MaxHeap - 3
    BY <2>3 DEF K
  <2>5. Len(Blocks(H)) # K \/ At(z, Blocks(H)) > b
    BY <1>1, <2>1, <2>2, <2>3, <2>4
  <2> QED
    BY <1>15, <2>1, <2>2, <2>3, <2>5
<1>17. \A r \in S : \E i \in 1..Len(Blocks(H)) : Blocks(H)[i] = r
  <2> SUFFICES ASSUME NEW r \in S PROVE \E i \in 1..Len(Blocks(H)) : Blocks(H)[i] = r
    OBVIOUS
  <2>1. r < b
    <3>1. r \in Nat /\ z[r] \in Nat /\ z[r] >= 4 /\ r + z[r] <= b /\ b \in Nat
      BY <1>2, TileOf
    <3> QED
      BY <3>1
  <2> QED
    BY <1>15, <1>16, <2>1 DEF Passed
<1> QED
  BY <1>15, <1>17 DEF ToSet

\* Walking the heap by its headers finds exactly the blocks the caller holds, each with
\* room for what was asked for, and free blocks.
THEOREM BlocksAreHeld == ASSUME NoWrap PROVE Spec => []BlocksHeld
<1>1. Spec => []HeapInv
  BY HeapIsWellFormed
<1>2. HeapInv => BlocksHeld
  <2> SUFFICES ASSUME HeapInv PROVE BlocksHeld
    OBVIOUS
  <2>1. PICK S, z, F : Owns(heap, held, S, z, F)
    BY DEF HeapInv
  <2>2. /\ Work(heap.mem, S, z, F, F, heap.brk) /\ DOMAIN held = S \ F
        /\ Tiled(S, z, heap.brk) /\ Tagged(heap.mem, S, z, F, heap.brk) /\ F \subseteq S
    BY <2>1 DEF Owns, Work
  <2>3. ToSet(Blocks(heap)) = S
    BY <2>2, WalkFindsAll
  <2>4. FreeBlocks(heap) = F
    <3>1. \A p \in S : GET_ALLOC(heap.mem, HDRP(p)) = FREE <=> p \in F
      <4> SUFFICES ASSUME NEW p \in S PROVE GET_ALLOC(heap.mem, HDRP(p)) = FREE <=> p \in F
        OBVIOUS
      <4>1. GET_ALLOC(heap.mem, HDRP(p)) = IF p \in F THEN FREE ELSE ALLOC
        BY <2>2, BlockReads
      <4> QED
        BY <4>1 DEF FREE, ALLOC
    <3> QED
      BY <2>2, <2>3, <3>1 DEF FreeBlocks
  <2>5. ASSUME NEW p \in DOMAIN held PROVE 4 * Cardinality(Payload(heap.mem, p)) >= held[p]
    <3>1. p \in S /\ Enough(held[p], z[p])
      BY <2>1, <2>2 DEF Owns
    <3>2. p \in Nat /\ z[p] \in Nat /\ z[p] >= 4
      BY <2>2, <3>1, TileOf
    <3>3. FTRP(heap.mem, p) = p + z[p] - 2
      BY <2>2, <3>1, BlockReads
    <3>4. PICK last \in Nat : last = p + z[p] - 3 /\ p <= last
      BY <3>2
    <3>5. Payload(heap.mem, p) = p..last
      BY <3>2, <3>3, <3>4 DEF Payload
    <3>6. Cardinality(p..last) = last - p + 1
      <4>1. p \in Int /\ last \in Int /\ p <= last
        BY <3>2, <3>4
      <4> QED
        BY <3>2, <4>1, FS_Interval
    <3> QED
      BY <3>1, <3>2, <3>4, <3>5, <3>6 DEF Enough
  <2> QED
    BY <2>2, <2>3, <2>4, <2>5 DEF BlocksHeld
<1> QED
  BY <1>1, <1>2, PTL
-------------------------------------------------------------------------------
(* mm_checkheap.                                                             *)

\* A sequence of all elements, each once, is as long as their number.
LEMMA Counted ==
  ASSUME NEW F, NEW s \in Seq(F), OneByOne(s), \A x \in F : In(x, s)
  PROVE  Cardinality(F) = Len(s)
<1>1. Len(s) \in Nat /\ s \in [1..Len(s) -> F]
  OBVIOUS
<1>2. s \in Injection(1..Len(s), F)
  BY <1>1 DEF Injection, OneByOne, IsInjective
<1>3. s \in Surjection(1..Len(s), F)
  BY <1>1 DEF Surjection, In
<1>4. ExistsBijection(1..Len(s), F)
  BY <1>2, <1>3 DEF ExistsBijection, Bijection
<1> QED
  BY <1>1, <1>4, FS_CountingElements

\* The blocks whose headers say free are the free ones.
LEMMA FreeOnes ==
  ASSUME NEW H, NEW S, NEW z, NEW F, Work(H.mem, S, z, F, F, H.brk)
  PROVE  FreeBlocks(H) = F
<1>1. Tiled(S, z, H.brk) /\ Tagged(H.mem, S, z, F, H.brk) /\ F \subseteq S
  BY DEF Work
<1>2. ToSet(Blocks(H)) = S
  BY WalkFindsAll
<1>3. ASSUME NEW p \in S PROVE GET_ALLOC(H.mem, HDRP(p)) = FREE <=> p \in F
  <2>1. GET_ALLOC(H.mem, HDRP(p)) = IF p \in F THEN FREE ELSE ALLOC
    BY <1>1, BlockReads
  <2> QED
    BY <2>1 DEF FREE, ALLOC
<1> QED
  BY <1>1, <1>2, <1>3 DEF FreeBlocks

\* Nothing to print about a block.
LEMMA EachBlockRight ==
  ASSUME NEW H, NEW S, NEW z, NEW F, Work(H.mem, S, z, F, F, H.brk)
  PROVE  check_each_block(H)
<1>1. Tiled(S, z, H.brk) /\ Tagged(H.mem, S, z, F, H.brk) /\ F \in SUBSET S /\ Apart(F, z)
  BY DEF Work, Linked
<1>2. ToSet(Blocks(H)) = S
  BY WalkFindsAll
<1>3. ASSUME NEW bp \in S
      PROVE  /\ bp % 2 = 0 /\ H.mem[HDRP(bp)] = H.mem[FTRP(H.mem, bp)]
             /\ GET_ALLOC(H.mem, HDRP(bp)) = FREE => GET_ALLOC(H.mem, HDRP(NEXT_BLKP(H.mem, bp))) = ALLOC
  <2>1. bp % 2 = 0
    BY <1>1, TileOf
  <2>2. H.mem[bp - 1] = TagOf(z, F, bp) /\ H.mem[bp + z[bp] - 2] = TagOf(z, F, bp)
    BY <1>1 DEF Tagged
  <2>3. /\ FTRP(H.mem, bp) = bp + z[bp] - 2 /\ NEXT_BLKP(H.mem, bp) = bp + z[bp]
        /\ GET_ALLOC(H.mem, HDRP(bp)) = IF bp \in F THEN FREE ELSE ALLOC
    BY <1>1, BlockReads
  <2>4. H.mem[HDRP(bp)] = H.mem[FTRP(H.mem, bp)]
    BY <2>2, <2>3 DEF HDRP
  <2>5. GET_ALLOC(H.mem, HDRP(NEXT_BLKP(H.mem, bp))) = ALLOC \/ NEXT_BLKP(H.mem, bp) \in F
    BY <1>1, NextReads
  <2>6. GET_ALLOC(H.mem, HDRP(bp)) = FREE => bp \in F
    BY <2>3 DEF FREE, ALLOC
  <2>7. bp \in F => bp + z[bp] \notin F
    BY <1>1 DEF Apart
  <2> QED
    BY <2>1, <2>3, <2>4, <2>5, <2>6, <2>7
<1> QED
  BY <1>2, <1>3 DEF check_each_block

\* Nor about a list.
LEMMA EachListRight ==
  ASSUME NEW H, NEW S, NEW z, NEW F, Work(H.mem, S, z, F, F, H.brk)
  PROVE  check_free_list(H)
<1>1. /\ H.mem \in Mem /\ Tiled(S, z, H.brk) /\ Tagged(H.mem, S, z, F, H.brk) /\ F \in SUBSET S
      /\ Linked(H.mem, F, z)
  BY DEF Work
<1>2. ASSUME NEW index \in 0..(LIST_NUM - 1), NEW bp \in ToSet(FreeList(H.mem, index))
      PROVE  /\ bp \in 0..(H.brk - 1) /\ list_index(GET_SIZE(H.mem, HDRP(bp))) = index
             /\ H.mem[PREV_SECT(H.mem[NEXT_SECT(bp)])] = bp
  <2>1. WholeList(F, z, index, FreeList(H.mem, index))
    BY <1>1, ListsAreWhole
  <2>2. bp \in F /\ In(bp, FreeList(H.mem, index))
    BY <2>1 DEF WholeList, ToSet, In
  <2>3. bp \in S /\ ListOf(z, bp) = index
    BY <1>1, <2>1, <2>2 DEF WholeList
  <2>4. list_index(z[bp]) = index
    <3>1. bp \notin Heads
      BY <1>1, <2>3, NoHeads
    <3> QED
      BY <2>3, <3>1 DEF ListOf
  <2>5. GET_SIZE(H.mem, HDRP(bp)) = z[bp]
    BY <1>1, <2>3, BlockReads
  <2>6. bp \in 0..(H.brk - 1)
    <3>1. bp \in Nat /\ z[bp] \in Nat /\ z[bp] >= 4 /\ bp + z[bp] <= H.brk /\ H.brk \in Nat
      BY <1>1, <2>3, TileOf
    <3>2. PICK b \in Nat : b = H.brk
      BY <3>1
    <3> QED
      BY <3>1, <3>2
  <2>7. H.mem[H.mem[bp] + 1] = bp
    <3>1. bp \in F \cup Heads
      BY <2>2
    <3> QED
      BY <1>1, <3>1, RingOf
  <2> QED
    BY <2>4, <2>5, <2>6, <2>7 DEF PREV_SECT, NEXT_SECT
<1> QED
  BY <1>2 DEF check_free_list

\* The lists hold all free blocks.
LEMMA AllListed ==
  ASSUME NEW H, NEW S, NEW z, NEW F, Work(H.mem, S, z, F, F, H.brk)
  PROVE  Len(Listed(H)) = Cardinality(F)
<1>1. H.mem \in Mem /\ Tiled(S, z, H.brk) /\ F \in SUBSET S /\ Linked(H.mem, F, z)
  BY DEF Work
<1>2. PICK i \in 0..(LIST_NUM - 1) : i = 0
  BY MmHeapAssumption
<1>3. AllFrom(F, z, i, FlattenSeq([k \in 1..(LIST_NUM - i) |-> FreeList(H.mem, i + k - 1)]))
  BY <1>1, ListsFrom
<1>4. [k \in 1..(LIST_NUM - i) |-> FreeList(H.mem, i + k - 1)] = [k \in 1..LIST_NUM |-> FreeList(H.mem, k - 1)]
  <2>1. LIST_NUM - i = LIST_NUM
    BY <1>2, MmHeapAssumption
  <2>2. \A k \in 1..LIST_NUM : i + k - 1 = k - 1
    BY <1>2
  <2> QED
    BY <2>1, <2>2
<1>5. AllFrom(F, z, i, Listed(H))
  BY <1>3, <1>4 DEF Listed
<1>6. \A x \in F : In(x, Listed(H))
  <2> SUFFICES ASSUME NEW x \in F PROVE In(x, Listed(H))
    OBVIOUS
  <2>1. PICK l \in Nat : l = list_index(z[x])
    BY ListInTable, MmHeapAssumption
  <2>2. list_index(z[x]) >= i
    BY <1>2, <2>1
  <2> QED
    BY <1>5, <2>2 DEF AllFrom
<1> QED
  BY <1>5, <1>6, Counted DEF AllFrom

\* mm_checkheap never prints: after every call the tags of a block agree, no two free
\* blocks touch, and the lists are rings that hold every free block once, in the list of
\* its size.
THEOREM ChecksFindNothing == ASSUME NoWrap PROVE Spec => []CheckheapSilent
<1>1. Spec => []HeapInv
  BY HeapIsWellFormed
<1>2. HeapInv => CheckheapSilent
  <2> SUFFICES ASSUME HeapInv PROVE CheckheapSilent
    OBVIOUS
  <2>1. PICK S, z, F : Work(heap.mem, S, z, F, F, heap.brk)
    BY DEF HeapInv, Owns
  <2>2. check_epi_and_pro(heap)
    <3>1. Tagged(heap.mem, S, z, F, heap.brk)
      BY <2>1 DEF Work
    <3>2. Start - 3 = 2 * LIST_NUM + 1 /\ Start - 2 = 2 * LIST_NUM + 2
      BY MmHeapAssumption DEF Start
    <3> QED
      BY <3>1, <3>2 DEF Tagged, check_epi_and_pro
  <2>3. check_each_block(heap) /\ check_free_list(heap) /\ FreeBlocks(heap) = F /\ Len(Listed(heap)) = Cardinality(F)
    BY <2>1, EachBlockRight, EachListRight, FreeOnes, AllListed
  <2>4. check_heap_init(heap)
    <3>1. Start <= heap.brk /\ heap.brk \in Nat
      BY <2>1, TileOf DEF Work, Tiled
    <3>2. LIST_NUM \in Nat /\ Start = 2 * LIST_NUM + 4
      BY MmHeapAssumption DEF Start
    <3>3. (2 * LIST_NUM + 2) % 2 = 0 /\ 2 * LIST_NUM + 2 \in 0..(heap.brk - 1)
      BY <3>1, <3>2
    <3> QED
      BY <3>3 DEF check_heap_init
  <2> QED
    BY <2>2, <2>3, <2>4 DEF CheckheapSilent, mm_checkheap
<1> QED
  BY <1>1, <1>2, PTL
-------------------------------------------------------------------------------
(* When the heap grows.                                                      *)

EndsAt(H, b) == \E X : H = [mem |-> X, brk |-> b]

\* Neither what is written to a block nor a block given back moves the end of the heap.
LEMMA EndStays ==
  ASSUME NEW H, NEW b, EndsAt(H, b), NEW p, NEW data
  PROVE  EndsAt(Filled(H, p, data), b) /\ EndsAt(free(H, p), b)
<1>1. PICK X : H = [mem |-> X, brk |-> b]
  BY DEF EndsAt
<1>2. PICK Y : Filled(H, p, data) = [H EXCEPT !.mem = Y]
  BY DEF Filled
<1>3. PICK Z : free(H, p) = [H EXCEPT !.mem = Z]
  BY DEF free
<1>4. Filled(H, p, data) = [mem |-> Y, brk |-> b] /\ free(H, p) = [mem |-> Z, brk |-> b]
  BY <1>1, <1>2, <1>3
<1> QED
  BY <1>4 DEF EndsAt

\* No free block is large enough for n bytes.
NoneFor(n) == \A bp \in FreeBlocks(heap) : GET_SIZE(heap.mem, HDRP(bp)) < adjustsize(n)

\* malloc moves the end of the heap only where no free block would do.
LEMMA GrowsForNone ==
  ASSUME HeapInv, NoWrap, NEW n \in Requests, malloc(heap, n).bp # NULL
  PROVE  EndsAt(malloc(heap, n).heap, heap.brk) \/ NoneFor(n)
<1>1. PICK S, z, F : Work(heap.mem, S, z, F, F, heap.brk)
  BY DEF HeapInv, Owns
<1>2. n \in Nat /\ n > 0 /\ n + 15 < SizeMax
  BY RequestsAre DEF NoWrap
<1>3. PICK a \in Nat : a = adjustsize(n)
  BY <1>2, Adjusted
<1>4. PICK fit : fit = find_fit(heap.mem, a)
  OBVIOUS
<1>5. (fit = NULL /\ (\A p \in F : z[p] < a)) \/ fit \in F
  BY <1>1, <1>3, <1>4, FindsFree
<1>6. CASE fit = NULL
  <2>1. Tiled(S, z, heap.brk) /\ Tagged(heap.mem, S, z, F, heap.brk) /\ F \subseteq S
    BY <1>1 DEF Work
  <2>2. \A p \in F : p # NULL
    <3> SUFFICES ASSUME NEW p \in F PROVE p # NULL
      OBVIOUS
    <3>1. p \in Nat /\ Start <= p /\ Start >= 6 /\ Start \in Nat
      BY <2>1, TileOf, HeadsAre
    <3> QED
      BY <3>1 DEF NULL
  <2>3. \A p \in F : z[p] < a
    BY <1>5, <1>6, <2>2
  <2>4. \A p \in F : GET_SIZE(heap.mem, HDRP(p)) = z[p]
    BY <2>1, BlockReads
  <2>5. FreeBlocks(heap) = F
    BY <1>1, FreeOnes
  <2> QED
    BY <1>3, <2>3, <2>4, <2>5 DEF NoneFor
<1>7. CASE fit # NULL
  <2>1. n # 0
    BY <1>2
  <2>2. malloc(heap, n).heap = [heap EXCEPT !.mem = place(heap.mem, fit, a)]
    BY <1>3, <1>4, <1>7, <2>1 DEF malloc
  <2>3. heap = [mem |-> heap.mem, brk |-> heap.brk]
    BY DEF HeapInv, IsHeap
  <2>4. PICK X : X = place(heap.mem, fit, a)
    OBVIOUS
  <2>5. malloc(heap, n).heap = [mem |-> X, brk |-> heap.brk]
    BY <2>2, <2>3, <2>4
  <2> QED
    BY <2>5 DEF EndsAt
<1> QED
  BY <1>6, <1>7

\* The heap has grown only where it had to.
Thrifty ==
  heap'.brk > heap.brk =>
    \A q \in DOMAIN held' \ DOMAIN held, bp \in FreeBlocks(heap) :
      GET_SIZE(heap.mem, HDRP(bp)) < adjustsize(held'[q])

\* A call that gives nothing new is thrifty, and so is one that grants n bytes to a block
\* and leaves the end of the heap or has no free block for them.
LEMMA ThriftyIf ==
  ASSUME HeapInv,
         \/ DOMAIN held' \subseteq DOMAIN held
         \/ \E n : /\ EndsAt(heap', heap.brk) \/ NoneFor(n)
                   /\ \A q \in DOMAIN held' : q \notin DOMAIN held => held'[q] = n
  PROVE  Thrifty
<1>1. CASE DOMAIN held' \subseteq DOMAIN held
  BY <1>1 DEF Thrifty
<1>2. ASSUME EndsAt(heap', heap.brk) PROVE Thrifty
  <2>1. heap'.brk = heap.brk
    BY <1>2 DEF EndsAt
  <2>2. heap.brk \in Nat
    BY DEF HeapInv, Owns, Work, Tiled
  <2> QED
    BY <2>1, <2>2 DEF Thrifty
<1>3. ASSUME NEW n, NoneFor(n), \A q \in DOMAIN held' : q \notin DOMAIN held => held'[q] = n PROVE Thrifty
  BY <1>3 DEF Thrifty, NoneFor
<1> QED
  BY <1>1, <1>2, <1>3

\* Every call is.
LEMMA StepIsThrifty == ASSUME HeapInv, NoWrap, [Next]_vars PROVE Thrifty
<1>1. ASSUME NEW n \in Sizes, Malloc(n) PROVE Thrifty
  <2>1. CASE malloc(heap, n).bp = NULL
    BY <1>1, <2>1, ThriftyIf DEF Malloc
  <2>2. CASE malloc(heap, n).bp # NULL
    <3>1. n \in Requests
      BY <2>2, NothingForNothing DEF Requests
    <3>2. EndsAt(malloc(heap, n).heap, heap.brk) \/ NoneFor(n)
      BY <2>2, <3>1, GrowsForNone
    <3>3. heap' = Filled(malloc(heap, n).heap, malloc(heap, n).bp, Data(n)) /\ held' = Hold(malloc(heap, n).bp, n)
      BY <1>1, <2>2 DEF Malloc
    <3>4. EndsAt(heap', heap.brk) \/ NoneFor(n)
      BY <3>2, <3>3, EndStays
    <3>5. \A q \in DOMAIN held' : q \notin DOMAIN held => held'[q] = n
      BY <3>3 DEF Hold
    <3> QED
      BY <3>4, <3>5, ThriftyIf
  <2> QED
    BY <2>1, <2>2
<1>2. ASSUME NEW p \in DOMAIN held, Free(p) PROVE Thrifty
  <2>1. DOMAIN held' \subseteq DOMAIN held
    BY <1>2 DEF Free
  <2> QED
    BY <2>1, ThriftyIf
<1>3. ASSUME NEW p \in DOMAIN held, NEW n \in Sizes, Realloc(p, n) PROVE Thrifty
  <2>1. CASE n = 0 \/ malloc(heap, n).bp = NULL
    <3>1. DOMAIN held' \subseteq DOMAIN held
      BY <1>3, <2>1 DEF Realloc
    <3> QED
      BY <3>1, ThriftyIf
  <2>2. CASE n # 0 /\ malloc(heap, n).bp # NULL
    <3>1. n \in Requests
      BY <2>2 DEF Requests
    <3>2. EndsAt(malloc(heap, n).heap, heap.brk) \/ NoneFor(n)
      BY <2>2, <3>1, GrowsForNone
    <3>3. /\ heap' = free(Filled(malloc(heap, n).heap, malloc(heap, n).bp, Copied(heap, p, n)), p)
          /\ held' = [q \in (DOMAIN held \cup {malloc(heap, n).bp}) \ {p} |->
                        IF q = malloc(heap, n).bp THEN n ELSE held[q]]
      BY <1>3, <2>2 DEF Realloc, Copied
    <3>4. EndsAt(heap', heap.brk) \/ NoneFor(n)
      BY <3>2, <3>3, EndStays
    <3>5. \A q \in DOMAIN held' : q \notin DOMAIN held => held'[q] = n
      BY <3>3
    <3> QED
      BY <3>4, <3>5, ThriftyIf
  <2> QED
    BY <2>1, <2>2
<1>4. ASSUME NEW count \in Counts, NEW n \in Sizes, Calloc(count, n) PROVE Thrifty
  <2>1. PICK total : total = (count * n) % SizeMax
    OBVIOUS
  <2>2. CASE malloc(heap, total).bp = NULL
    <3>1. held' = held
      BY <1>4, <2>1, <2>2 DEF Calloc
    <3> QED
      BY <3>1, ThriftyIf
  <2>3. CASE malloc(heap, total).bp # NULL
    <3>1. total \in Requests
      BY <2>1, <2>3, NothingForNothing DEF Requests
    <3>2. EndsAt(malloc(heap, total).heap, heap.brk) \/ NoneFor(total)
      BY <2>3, <3>1, GrowsForNone
    <3>3. PICK data : /\ heap' = Filled(malloc(heap, total).heap, malloc(heap, total).bp, data)
                      /\ held' = Hold(malloc(heap, total).bp, total)
      BY <1>4, <2>1, <2>3 DEF Calloc
    <3>4. EndsAt(heap', heap.brk) \/ NoneFor(total)
      BY <3>2, <3>3, EndStays
    <3>5. \A q \in DOMAIN held' : q \notin DOMAIN held => held'[q] = total
      BY <3>3 DEF Hold
    <3> QED
      BY <3>4, <3>5, ThriftyIf
  <2> QED
    BY <2>2, <2>3
<1>5. CASE UNCHANGED vars
  <2>1. DOMAIN held' \subseteq DOMAIN held
    BY <1>5 DEF vars
  <2> QED
    BY <2>1, ThriftyIf
<1> QED
  BY <1>1, <1>2, <1>3, <1>4, <1>5 DEF Next

\* The heap grows only for a request no free block is large enough for: find_fit, which
\* begins at the list of the request's size, passes over no block that would do.
THEOREM GrowsForNeed == ASSUME NoWrap PROVE Spec => NoNeedlessGrowth
<1>1. Spec => []HeapInv
  BY HeapIsWellFormed
<1>2. HeapInv /\ [Next]_vars =>
        [heap'.brk > heap.brk =>
           \A q \in DOMAIN held' \ DOMAIN held, bp \in FreeBlocks(heap) :
             GET_SIZE(heap.mem, HDRP(bp)) < adjustsize(held'[q])]_vars
  BY StepIsThrifty DEF Thrifty
<1> QED
  BY <1>1, <1>2, PTL DEF Spec, NoNeedlessGrowth
=============================================================================
