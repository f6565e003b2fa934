------------------------------- MODULE MmHeap -------------------------------
(* The memory allocator (mm.c): a heap of words with boundary tags and       *)
(* segregated free lists, and malloc, free, realloc and calloc on it.        *)
(* Addresses count words from the start of the heap and block sizes count    *)
(* words too, so that 0 is NULL's address and a header is size + alloc bit.  *)
(* A word nothing may rely on (free memory, a payload not yet written) is    *)
(* Junk.                                                                     *)
EXTENDS Integers, FiniteSets, FiniteSetsExt, SequencesExt

CONSTANTS LIST_NUM, LIST_THR,   \* number of free lists; the first one for best fit
          INISIZE, CHUNKSIZE,   \* bytes the heap starts with, and grows by
          MaxHeap,              \* words mem_sbrk grants in all
          SizeMax,              \* size_t counts modulo SizeMax
          Sizes, Counts         \* sizes asked for; counts given to calloc

ASSUME MmHeapAssumption ==
  /\ LIST_NUM \in Nat \ {0} /\ LIST_THR \in Nat
  /\ INISIZE \in Nat /\ INISIZE >= 16 /\ INISIZE % 8 = 0 /\ CHUNKSIZE \in Nat /\ CHUNKSIZE % 8 = 0
  /\ MaxHeap \in Nat /\ 2 * LIST_NUM + 4 + INISIZE \div 4 <= MaxHeap
  /\ SizeMax \in Nat \ {0} /\ Sizes \subseteq 0..(SizeMax - 1) /\ Counts \subseteq Nat

VARIABLES heap,      \* the words, and the end mem_sbrk has reached
          held,      \* the blocks the caller holds: address -> bytes asked for
          crashed    \* the process has used NULL

vars == <<heap, held, crashed>>

Junk == -1
NULL == 0

FREE  == 0
ALLOC == 1

PACK(size, alloc) == size + alloc
GET_SIZE(M, a)    == M[a] - (M[a] % 2)
GET_ALLOC(M, a)   == M[a] % 2
PUT(M, a, v)      == [M EXCEPT ![a] = v]

HDRP(bp)         == bp - 1
FTRP(M, bp)      == bp + GET_SIZE(M, HDRP(bp)) - 2
NEXT_BLKP(M, bp) == bp + GET_SIZE(M, bp - 1)
PREV_BLKP(M, bp) == bp - GET_SIZE(M, bp - 2)
NEXT_SECT(bp)    == bp
PREV_SECT(bp)    == bp + 1

\* The header and the footer of a block.
Tag(M, bp, size, alloc) ==
  [M EXCEPT ![HDRP(bp)] = PACK(size, alloc), ![bp + size - 2] = PACK(size, alloc)]

\* The words S hold nothing anyone may rely on.
Forget(M, S) == [a \in DOMAIN M |-> IF a \in S THEN Junk ELSE M[a]]
-----------------------------------------------------------------------------
(* The free lists: circular, each with its head in the table at the start.   *)

ListHead(index) == 2 * index

ins_free_blk(M, bp, index) ==
  LET A == PUT(M, NEXT_SECT(bp), M[ListHead(index)])
      B == PUT(A, PREV_SECT(bp), A[PREV_SECT(A[NEXT_SECT(bp)])])
      C == PUT(B, ListHead(index), bp)
  IN  PUT(C, PREV_SECT(C[NEXT_SECT(bp)]), bp)

del_free_blk(M, bp) ==
  LET A == PUT(M, PREV_SECT(M[NEXT_SECT(bp)]), M[PREV_SECT(bp)])
  IN  PUT(A, NEXT_SECT(A[PREV_SECT(bp)]), A[NEXT_SECT(bp)])

\* 1 + the highest set bit of the size in units of 16 bytes, up to the last list.
list_index(size) == Cardinality({i \in 0..(LIST_NUM - 2) : size >= 4 * 2^i})

\* The blocks of a list in the order of its next links.
FreeList(M, index) ==
  LET walk[n \in 0..(MaxHeap \div 4)] ==
        LET seen == walk[n - 1]
            at   == M[IF seen = <<>> THEN ListHead(index) ELSE Last(seen)]
        IN  IF n = 0 THEN <<>>
            ELSE IF at = ListHead(index) \/ at \notin DOMAIN M THEN seen
            ELSE Append(seen, at)
  IN  walk[MaxHeap \div 4]

\* Mutant: the search starts one list too far.
searched_next_list(M, asize) ==
  LET idx == list_index(asize) + 1
  IN  FlattenSeq([k \in 1..(LIST_NUM - idx) |-> FreeList(M, idx + k - 1)])

\* The blocks find_fit comes across, in the order it meets them.
Searched(M, asize) ==
  LET idx == list_index(asize)
  IN  FlattenSeq([k \in 1..(LIST_NUM - idx) |-> FreeList(M, idx + k - 1)])

\* Mutant: the size of the block is not compared.
fitting_any_size(M, blocks, asize) == DOMAIN blocks

\* Where in blocks those are that it takes into account.
Fitting(M, blocks, asize) ==
  {n \in DOMAIN blocks : /\ GET_ALLOC(M, HDRP(blocks[n])) = FREE
                         /\ GET_SIZE(M, HDRP(blocks[n])) >= asize}

\* First fit for small sizes; for large ones the first of the smallest that fit.
find_fit(M, asize) ==
  LET blocks == Searched(M, asize)
      fits   == Fitting(M, blocks, asize)
      best   == {n \in fits : \A m \in fits :
                   GET_SIZE(M, HDRP(blocks[n])) <= GET_SIZE(M, HDRP(blocks[m]))}
  IN  IF fits = {} THEN NULL
      ELSE IF list_index(asize) < LIST_THR THEN blocks[Min(fits)]
      ELSE blocks[Min(best)]

\* Take asize words of the free block bp; what is left of it stays free.
place(M, bp, asize) ==
  LET bsize == GET_SIZE(M, HDRP(bp))
      taken == del_free_blk(M, bp)
      rest  == Tag(Tag(taken, bp, asize, ALLOC), bp + asize, bsize - asize, FREE)
  IN  IF bsize - asize >= 4
      THEN ins_free_blk(rest, bp + asize, list_index(bsize - asize))
      ELSE Tag(taken, bp, bsize, ALLOC)

\* Mutant: the next block is not looked at.
coalesce_backward(M, bp) ==
  LET prev       == PREV_BLKP(M, bp)
      prev_alloc == GET_ALLOC(M, FTRP(M, prev)) = ALLOC
      first      == IF prev_alloc THEN bp ELSE prev
      size       == GET_SIZE(M, HDRP(bp))
                      + (IF prev_alloc THEN 0 ELSE GET_SIZE(M, HDRP(prev)))
      A          == IF prev_alloc THEN M ELSE del_free_blk(M, prev)
  IN  [mem |-> ins_free_blk(Tag(A, first, size, FREE), first, list_index(size)), bp |-> first]

\* Merge the block bp, tagged free but in no list, with its free neighbours.
coalesce(M, bp) ==
  LET prev       == PREV_BLKP(M, bp)
      next       == NEXT_BLKP(M, bp)
      prev_alloc == GET_ALLOC(M, FTRP(M, prev)) = ALLOC
      next_alloc == GET_ALLOC(M, HDRP(next)) = ALLOC
      first      == IF prev_alloc THEN bp ELSE prev
      size       == GET_SIZE(M, HDRP(bp))
                      + (IF prev_alloc THEN 0 ELSE GET_SIZE(M, HDRP(prev)))
                      + (IF next_alloc THEN 0 ELSE GET_SIZE(M, HDRP(next)))
      A          == IF prev_alloc THEN M ELSE del_free_blk(M, prev)
      B          == IF next_alloc THEN A ELSE del_free_blk(A, next)
      merged     == Forget(B, first .. (first + size - 3))
  IN  [mem |-> ins_free_blk(Tag(merged, first, size, FREE), first, list_index(size)),
       bp  |-> first]

\* The heap after growing, and the free block at its end; or NULL.
extend_heap(H, words) ==
  LET size   == words + (words % 2)
      bp     == H.brk
      merged == coalesce(PUT(Tag(H.mem, bp, size, FREE), bp + size - 1, PACK(0, ALLOC)), bp)
  IN  IF H.brk + size > MaxHeap THEN [heap |-> H, bp |-> NULL]
      ELSE [heap |-> [mem |-> merged.mem, brk |-> H.brk + size], bp |-> merged.bp]
-----------------------------------------------------------------------------
(* The functions of the interface.                                           *)

\* Mutant: no room for header and footer.
adjustsize_no_tags(n) == IF n <= 8 THEN 4 ELSE 2 * (((n + 7) % SizeMax) \div 8)

\* In words, the size malloc gives a request: header, footer, alignment.
adjustsize(n) == IF n <= 8 THEN 4 ELSE 2 * (((n + 15) % SizeMax) \div 8)

malloc(H, n) ==
  LET asize == adjustsize(n)
      fit   == find_fit(H.mem, asize)
      grown == extend_heap(H, Max({asize, CHUNKSIZE \div 4}))
  IN  IF n = 0 THEN [heap |-> H, bp |-> NULL]
      ELSE IF fit # NULL THEN [heap |-> [H EXCEPT !.mem = place(@, fit, asize)], bp |-> fit]
      ELSE IF grown.bp # NULL
      THEN [heap |-> [grown.heap EXCEPT !.mem = place(@, grown.bp, asize)], bp |-> grown.bp]
      ELSE [heap |-> H, bp |-> NULL]

free(H, p) ==
  LET tagged == Tag(H.mem, p, GET_SIZE(H.mem, HDRP(p)), FREE)
  IN  [H EXCEPT !.mem = coalesce(tagged, p).mem]

\* The words of n bytes.
Words(n) == (n + 3) \div 4

Payload(M, p) == p .. FTRP(M, p) - 1

\* The block p as the caller gets it, and data written from its first word on, wherever
\* the block ends.
Filled(H, p, data) ==
  [H EXCEPT !.mem = [a \in DOMAIN @ |-> IF a - p \in 0..(Len(data) - 1) THEN data[a - p + 1]
                                       ELSE IF a \in Payload(@, p) THEN Junk
                                       ELSE @[a]]]

\* What the caller writes to a block of n bytes at once: a different value in each word.
Data(n) == [k \in 1..Words(n) |-> -1 - k]

Hold(p, n) == [q \in DOMAIN held \cup {p} |-> IF q = p THEN n ELSE held[q]]

Holds(p) == ~crashed /\ p \in DOMAIN held

\* mm_init: the table of empty lists, prologue, epilogue and the first free block.
Init ==
  LET base  == 2 * LIST_NUM
      words == [a \in 0..(MaxHeap - 1) |->
                  CASE a < base                     -> a - (a % 2)
                    [] a = base                     -> 0
                    [] a \in {base + 1, base + 2}   -> PACK(2, ALLOC)
                    [] a = base + 3                 -> PACK(0, ALLOC)
                    [] OTHER                        -> Junk]
  IN  /\ heap = extend_heap([mem |-> words, brk |-> base + 4], INISIZE \div 4).heap
      /\ held = << >> /\ crashed = FALSE

Malloc(n) ==
  LET got == malloc(heap, n) IN
  /\ ~crashed
  /\ IF got.bp = NULL THEN heap' = got.heap /\ UNCHANGED held
     ELSE heap' = Filled(got.heap, got.bp, Data(n)) /\ held' = Hold(got.bp, n)
  /\ UNCHANGED crashed

Free(p) ==
  /\ Holds(p)
  /\ heap' = free(heap, p) /\ held' = [q \in DOMAIN held \ {p} |-> held[q]]
  /\ UNCHANGED crashed

\* Mutant: all of the old block is copied, header and footer included.
ReallocCopiesBlock(p, n) ==
  LET got    == malloc(heap, n)
      copied == Words(4 * GET_SIZE(heap.mem, HDRP(p)))
      old    == [k \in 1..copied |-> got.heap.mem[p + k - 1]]
  IN
  /\ Holds(p) /\ n # 0 /\ got.bp # NULL
  /\ heap' = free(Filled(got.heap, got.bp, old), p)
  /\ held' = [q \in (DOMAIN held \cup {got.bp}) \ {p} |-> IF q = got.bp THEN n ELSE held[q]]
  /\ UNCHANGED crashed

\* The new block gets a copy of the old one, no further than the old block or the new size.
Realloc(p, n) ==
  LET got     == malloc(heap, n)
      oldsize == 4 * GET_SIZE(heap.mem, HDRP(p))
      copied  == Words(Min({oldsize, n}))
      old     == [k \in 1..copied |-> got.heap.mem[p + k - 1]]
  IN
  /\ Holds(p)
  /\ IF n = 0
     THEN heap' = free(heap, p) /\ held' = [q \in DOMAIN held \ {p} |-> held[q]]
     ELSE IF got.bp = NULL THEN heap' = got.heap /\ UNCHANGED held
     ELSE /\ heap' = free(Filled(got.heap, got.bp, old), p)
          /\ held' = [q \in (DOMAIN held \cup {got.bp}) \ {p} |-> IF q = got.bp THEN n ELSE held[q]]
  /\ UNCHANGED crashed

\* memset follows, on NULL if there was no block.
Calloc(count, n) ==
  LET total == (count * n) % SizeMax
      got   == malloc(heap, total)
  IN
  /\ ~crashed
  /\ IF got.bp = NULL
     THEN heap' = got.heap /\ UNCHANGED held /\ crashed' = (total > 0)
     ELSE /\ heap' = Filled(got.heap, got.bp, [k \in 1..Words(total) |-> 0])
          /\ held' = Hold(got.bp, total) /\ UNCHANGED crashed

Next ==
  \/ \E n \in Sizes : Malloc(n)
  \/ \E p \in DOMAIN held : Free(p) \/ \E n \in Sizes : Realloc(p, n)
  \/ \E count \in Counts, n \in Sizes : Calloc(count, n)

Spec == Init /\ [][Next]_vars
-----------------------------------------------------------------------------
(* mm_checkheap.                                                             *)

\* The blocks after the prologue in the order of their addresses, up to the epilogue.
Blocks(H) ==
  LET M == H.mem
      walk[n \in 0..(MaxHeap \div 4)] ==
        LET seen == walk[n - 1]
            bp   == IF seen = <<>> THEN 2 * LIST_NUM + 4 ELSE NEXT_BLKP(M, Last(seen))
        IN  IF n = 0 THEN <<>>
            ELSE IF HDRP(bp) \notin DOMAIN M \/ M[HDRP(bp)] = PACK(0, ALLOC) THEN seen
            ELSE Append(seen, bp)
  IN  walk[MaxHeap \div 4]

FreeBlocks(H) == {bp \in ToSet(Blocks(H)) : GET_ALLOC(H.mem, HDRP(bp)) = FREE}

\* heap_basep is the word of the prologue's footer.
check_heap_init(H) ==
  LET heap_basep == 2 * LIST_NUM + 2 IN heap_basep % 2 = 0 /\ heap_basep \in 0..(H.brk - 1)

check_epi_and_pro(H) ==
  /\ H.mem[2 * LIST_NUM + 1] = PACK(2, ALLOC) /\ H.mem[2 * LIST_NUM + 2] = PACK(2, ALLOC)
  /\ H.mem[H.brk - 1] = PACK(0, ALLOC)

check_each_block(H) ==
  \A bp \in ToSet(Blocks(H)) :
    /\ bp % 2 = 0
    /\ H.mem[HDRP(bp)] = H.mem[FTRP(H.mem, bp)]
    /\ GET_ALLOC(H.mem, HDRP(bp)) = FREE
         => GET_ALLOC(H.mem, HDRP(NEXT_BLKP(H.mem, bp))) = ALLOC

check_free_list(H) ==
  \A index \in 0..(LIST_NUM - 1) : \A bp \in ToSet(FreeList(H.mem, index)) :
    /\ bp \in 0..(H.brk - 1)
    /\ list_index(GET_SIZE(H.mem, HDRP(bp))) = index
    /\ H.mem[PREV_SECT(H.mem[NEXT_SECT(bp)])] = bp

Listed(H) == FlattenSeq([k \in 1..LIST_NUM |-> FreeList(H.mem, k - 1)])

mm_checkheap(H) ==
  /\ check_heap_init(H) /\ check_epi_and_pro(H) /\ check_each_block(H) /\ check_free_list(H)
  /\ Len(Listed(H)) = Cardinality(FreeBlocks(H))
-----------------------------------------------------------------------------
(* Properties.                                                               *)

\* mm_checkheap never prints: after every call boundary tags agree, no two free
\* blocks touch, and the free lists are circular and hold every free block once,
\* in the list of its size.
CheckheapSilent == mm_checkheap(heap)

\* Walking the heap by its headers finds exactly the blocks the caller holds, each
\* with room for what was asked for, and free blocks: nothing is lost or shared.
BlocksHeld ==
  LET allocated == ToSet(Blocks(heap)) \ FreeBlocks(heap) IN
  /\ allocated = DOMAIN held
  /\ \A p \in allocated : 4 * Cardinality(Payload(heap.mem, p)) >= held[p]

SameWords(p, q, words) ==
  \A k \in 0..(words - 1) : heap'.mem[q + k] = heap.mem[p + k]

\* No call writes into a block the caller keeps, and the block realloc returns starts
\* with the words of the one it replaces, as far as both go: splitting, merging and
\* linking write only to memory nobody holds.
ContentsKept ==
  [][LET kept == DOMAIN held \cap DOMAIN held' IN
     /\ \A p \in kept : SameWords(p, p, Words(held[p]))
     /\ \A p \in DOMAIN held \ kept, q \in DOMAIN held' \ kept :
          SameWords(p, q, Words(Min({held[p], held'[q]})))]_vars

\* The heap grows only for a request no free block is large enough for: starting the
\* search at the list of the request's size passes over no block that fits.
NoNeedlessGrowth ==
  [][heap'.brk > heap.brk =>
       \A q \in DOMAIN held' \ DOMAIN held, bp \in FreeBlocks(heap) :
         GET_SIZE(heap.mem, HDRP(bp)) < adjustsize(held'[q])]_vars

Requests == (Sizes \cup {(count * n) % SizeMax : count \in Counts, n \in Sizes}) \ {0}

promised == INSTANCE Allocator
  WITH HeapEnd <- 4 * MaxHeap, Alignment <- 8, Sizes <- Requests,
       held <- [a \in {4 * p : p \in DOMAIN held} |-> held[a \div 4]]

\* malloc, free, realloc and calloc keep the promise of Allocator: aligned blocks
\* inside the heap that never overlap one the caller still holds.
ImplementsAllocator == promised!Spec
=============================================================================
