-------------------------- MODULE ProxyCacheProofs --------------------------
(* The proxy cache, for any number of threads, lines and objects and any     *)
(* sizes: its locking, whatever the requests; and, when ctrl-c finds no       *)
(* request open and no object that is kept is asked for more than twice, its  *)
(* list, its space, its shutdown and that it is an LRU cache.                *)
EXTENDS ProxyCache, FiniteSetTheorems, SequenceTheorems, WellFoundedInduction, TLAPS

(* The list operators return lists: what insert_cache_line and               *)
(* remove_cache_line write are lines or NULL.                                *)
LEMMA ListTypes ==
  ASSUME NEW L \in List, NEW l \in Lines
  PROVE  /\ insert_cache_line(L, l) \in List
         /\ remove_cache_line(L, l) \in List
         /\ FreedLinks(L, l) \in List
<1>1. \A f \in [Lines -> Lines \cup {Null}], p, v \in Lines \cup {Null} :
        SetAt(f, p, v) \in [Lines -> Lines \cup {Null}]
  BY DEF SetAt
<1>2. /\ L.head \in Lines \cup {Null} /\ L.tail \in Lines \cup {Null}
      /\ L.prev \in [Lines -> Lines \cup {Null}] /\ L.next \in [Lines -> Lines \cup {Null}]
  BY DEF List
<1>3. L.prev[l] \in Lines \cup {Null} /\ L.next[l] \in Lines \cup {Null}
  BY <1>2
<1>4. insert_cache_line(L, l) \in List
  BY <1>1, <1>2 DEF insert_cache_line, List
<1>5. remove_cache_line(L, l) \in List
  <2>1. /\ SetAt(L.next, L.prev[l], L.next[l]) \in [Lines -> Lines \cup {Null}]
        /\ SetAt(L.prev, L.next[l], L.prev[l]) \in [Lines -> Lines \cup {Null}]
    BY <1>1, <1>2, <1>3
  <2>. QED
    BY <2>1, <1>2, <1>3 DEF remove_cache_line, List
<1>6. FreedLinks(L, l) \in List
  BY <1>1, <1>2 DEF FreedLinks, List
<1>. QED
  BY <1>4, <1>5, <1>6

(* The same for the new line of add_object, which may still be NULL here.    *)
LEMMA NullInserted ==
  ASSUME NEW L \in List, NEW p \in Lines \cup {Null}
  PROVE  insert_cache_line(L, p) \in List
  BY DEF insert_cache_line, SetAt, List

(* At the start no thread holds a lock and nothing is cached.                *)
LEMMA InitInv == Init => LockInv
<1>. SUFFICES ASSUME Init PROVE LockInv
  OBVIOUS
<1>1. ThreadTypes
  <2>1. list \in List
    BY DEF Init, List, EmptyList
  <2>. QED
    BY <2>1 DEF Init, ThreadTypes, PCs
<1>2. LocksHeld /\ WritersAlone /\ FoundStays
  BY DEF Init, LocksHeld, WritersAlone, FoundStays, WithRI
<1>. QED
  BY <1>1, <1>2 DEF Init, LockInv

(* Undefined behaviour only records that it happened.                        *)
LEMMA UndefinedInv ==
  ASSUME LockInv, NEW use, Undefined(use)
  PROVE  LockInv'
<1>. /\ UNCHANGED <<list, live, tag>> /\ UNCHANGED <<rdI, wrI, rdU, wrU>>
     /\ UNCHANGED <<pc, uri, cursor, main>>
  BY DEF Undefined, heap, locks
<1>1. ThreadTypes'
  BY DEF LockInv, ThreadTypes
<1>2. LocksHeld' /\ WritersAlone' /\ FoundStays'
  BY DEF LockInv, LocksHeld, WritersAlone, FoundStays
<1>. QED
  BY <1>1, <1>2 DEF LockInv

(* A step that goes from one point to another, where the same locks are held, *)
(* takes and lets go of none, leaves the lines alone and finds nothing.      *)
LEMMA SameLocksInv ==
  ASSUME LockInv, NEW t \in Threads, NEW there \in PCs,
         pc' = [pc EXCEPT ![t] = there], UNCHANGED locks,
         uri' \in [Threads -> Uris \cup {NoUri}],
         cursor' \in [Threads -> Lines \cup {Null}],
         \A s \in Threads \ {t} : uri'[s] = uri[s] /\ cursor'[s] = cursor[s],
         UNCHANGED <<list, live, tag, main>>,
         pc[t] \in WithRI <=> there \in WithRI,
         pc[t] \in {"alloc", "evict", "unlockWI"} <=> there \in {"alloc", "evict", "unlockWI"},
         pc[t] \in {"walk", "unlockRU"} <=> there \in {"walk", "unlockRU"},
         pc[t] \in {"remove", "insert", "unlockWU"} <=> there \in {"remove", "insert", "unlockWU"},
         there \in {"unlockRU", "lockWU", "remove", "insert"} /\ cursor'[t] # Null
           => cursor'[t] \in live /\ tag[cursor'[t]] = uri'[t]
  PROVE  LockInv'
<1>. pc \in [Threads -> PCs] /\ UNCHANGED <<rdI, wrI, rdU, wrU>>
  BY DEF LockInv, ThreadTypes, locks
<1>1. ThreadTypes'
  BY DEF LockInv, ThreadTypes
<1>2. LocksHeld'
  BY DEF LockInv, LocksHeld
<1>3. WritersAlone'
  BY DEF LockInv, WritersAlone
<1>4. FoundStays'
  BY DEF LockInv, FoundStays
<1>. QED
  BY <1>1, <1>2, <1>3, <1>4 DEF LockInv

(* A step that only takes or lets go of a lock, and goes to where it is or   *)
(* is not held: what is left to show is who holds which lock.                *)
LEMMA LockStepInv ==
  ASSUME LockInv, NEW t \in Threads, NEW there \in PCs,
         pc' = [pc EXCEPT ![t] = there],
         UNCHANGED heap, Keep(t), LocksHeld', WritersAlone',
         there \in {"unlockRU", "lockWU", "remove", "insert"} /\ cursor[t] # Null
           => pc[t] \in {"unlockRU", "lockWU", "remove", "insert"}
  PROVE  LockInv'
<1>. /\ pc \in [Threads -> PCs]
     /\ UNCHANGED <<list, live, tag, uri, cursor, main>>
  BY DEF LockInv, ThreadTypes, heap, Keep, others
<1>1. ThreadTypes'
  BY DEF LockInv, ThreadTypes
<1>2. FoundStays'
  BY DEF LockInv, FoundStays
<1>. QED
  BY <1>1, <1>2 DEF LockInv

(* A request comes in: the thread holds nothing and has found nothing.       *)
LEMMA RequestInv ==
  ASSUME LockInv, NEW t \in Threads, NEW u \in Uris, Request(t, u)
  PROVE  LockInv'
<1>1. /\ pc[t] = "idle" /\ pc' = [pc EXCEPT ![t] = "lockRI"] /\ UNCHANGED locks
      /\ UNCHANGED <<list, live, tag, main>>
      /\ uri' = [uri EXCEPT ![t] = u] /\ cursor' = [cursor EXCEPT ![t] = list.head]
  BY DEF Request, At, Goto, heap
<1>2. uri \in [Threads -> Uris \cup {NoUri}] /\ cursor \in [Threads -> Lines \cup {Null}]
      /\ list.head \in Lines \cup {Null}
  BY DEF LockInv, ThreadTypes, List
<1>. QED
  BY <1>1, <1>2, SameLocksInv DEF WithRI, PCs

(* The search takes both read locks, walks, and lets go of the second.       *)
LEMMA SearchInv ==
  ASSUME LockInv, NEW t \in Threads, Search(t)
  PROVE  LockInv'
<1>. /\ pc \in [Threads -> PCs] /\ LocksHeld /\ WritersAlone
     /\ cursor \in [Threads -> Lines \cup {Null}]
     /\ uri \in [Threads -> Uris \cup {NoUri}]
  BY DEF LockInv, ThreadTypes
<1>1. CASE LockRI(t)
  <2>1. LocksHeld'
    BY <1>1 DEF LockRI, RdLock, At, Goto, LocksHeld, WithRI, PCs
  <2>2. WritersAlone'
    BY <1>1 DEF LockRI, RdLock, WritersAlone
  <2>. QED
    BY <1>1, <2>1, <2>2, LockStepInv DEF LockRI, Goto, At, PCs, heap
<1>2. CASE LockRU(t)
  <2>1. LocksHeld'
    BY <1>2 DEF LockRU, RdLock, At, Goto, LocksHeld, WithRI, PCs
  <2>2. WritersAlone'
    BY <1>2 DEF LockRU, RdLock, WritersAlone
  <2>. QED
    BY <1>2, <2>1, <2>2, LockStepInv DEF LockRU, Goto, At, PCs, heap
<1>3. CASE Walk(t)
  <2>1. CASE /\ cursor[t] = Null \/ (cursor[t] \in live /\ tag[cursor[t]] = uri[t])
             /\ Goto(t, "unlockRU") /\ UNCHANGED <<heap, locks>> /\ Keep(t)
    <3>1. /\ pc[t] = "walk" /\ pc' = [pc EXCEPT ![t] = "unlockRU"] /\ UNCHANGED locks
          /\ UNCHANGED <<list, live, tag, main, uri, cursor>>
      BY <1>3, <2>1 DEF Walk, At, Goto, heap, Keep, others
    <3>. QED
      BY <2>1, <3>1, SameLocksInv DEF WithRI, PCs
  <2>2. CASE /\ cursor[t] \in live /\ tag[cursor[t]] # uri[t]
             /\ cursor' = [cursor EXCEPT ![t] = list.next[cursor[t]]]
             /\ UNCHANGED <<heap, locks, pc, uri, others>>
    <3>1. /\ pc[t] = "walk" /\ pc' = [pc EXCEPT ![t] = "walk"] /\ UNCHANGED locks
          /\ UNCHANGED <<list, live, tag, main, uri>>
      BY <1>3, <2>2 DEF Walk, At, heap, others
    <3>2. cursor' \in [Threads -> Lines \cup {Null}]
      <4>1. cursor[t] \in Lines /\ list.next \in [Lines -> Lines \cup {Null}]
        BY <2>2 DEF LockInv, ThreadTypes, List
      <4>. QED
        BY <2>2, <4>1
    <3>3. \A s \in Threads \ {t} : uri'[s] = uri[s] /\ cursor'[s] = cursor[s]
      BY <2>2, <3>1
    <3>4. uri' \in [Threads -> Uris \cup {NoUri}] /\ "walk" \in PCs
      BY <3>1 DEF PCs
    <3>. QED
      BY <3>1, <3>2, <3>3, <3>4, SameLocksInv
  <2>. QED
    BY <1>3, <2>1, <2>2, UndefinedInv DEF Walk
<1>4. CASE UnlockRU(t)
  <2>1. LocksHeld'
    BY <1>4 DEF UnlockRU, At, Goto, LocksHeld, WithRI, PCs
  <2>2. WritersAlone'
    BY <1>4 DEF UnlockRU, WritersAlone
  <2>. QED
    BY <1>4, <2>1, <2>2, LockStepInv DEF UnlockRU, Goto, At, PCs, heap
<1>. QED
  BY <1>1, <1>2, <1>3, <1>4 DEF Search

(* A hit holds the insert lock for reading until the line is in front.       *)
LEMMA HitInv ==
  ASSUME LockInv, NEW t \in Threads, Hit(t)
  PROVE  LockInv'
<1>. /\ pc \in [Threads -> PCs] /\ LocksHeld /\ WritersAlone /\ live \subseteq Lines
     /\ cursor \in [Threads -> Lines \cup {Null}] /\ list \in List
     /\ uri \in [Threads -> Uris \cup {NoUri}]
  BY DEF LockInv, ThreadTypes
<1>1. CASE LockWU(t)
  <2>1. LocksHeld'
    BY <1>1 DEF LockWU, WrLock, At, Goto, LocksHeld, WithRI, PCs
  <2>2. WritersAlone'
    BY <1>1 DEF LockWU, WrLock, WritersAlone
  <2>. QED
    BY <1>1, <2>1, <2>2, LockStepInv DEF LockWU, Goto, At, PCs, heap
<1>2. CASE MoveOut(t) \/ MoveIn(t)
  <2>1. \/ Undefined("links")
        \/ /\ cursor[t] \in live
           /\ list' = remove_cache_line(list, cursor[t]) \/ list' = insert_cache_line(list, cursor[t])
           /\ pc[t] \in {"remove", "insert"}
           /\ pc' = [pc EXCEPT ![t] = "insert"] \/ pc' = [pc EXCEPT ![t] = "unlockWU"]
           /\ UNCHANGED <<live, tag, remain_size, locks>> /\ Keep(t)
    BY <1>2 DEF MoveOut, MoveIn, Allocated, At, Goto
  <2>2. CASE ~Undefined("links")
    <3>1. list' \in List
      BY <2>1, <2>2, ListTypes
    <3>2. UNCHANGED <<rdI, wrI, rdU, wrU, uri, cursor, main>>
      BY <2>1, <2>2 DEF locks, Keep, others
    <3>3. ThreadTypes'
      BY <2>1, <2>2, <3>1, <3>2 DEF LockInv, ThreadTypes, PCs
    <3>4. LocksHeld'
      BY <2>1, <2>2, <3>2 DEF LocksHeld, WithRI
    <3>5. WritersAlone'
      BY <3>2 DEF WritersAlone
    <3>6. FoundStays'
      BY <2>1, <2>2, <3>2 DEF LockInv, FoundStays
    <3>. QED
      BY <3>2, <3>3, <3>4, <3>5, <3>6 DEF LockInv
  <2>. QED
    BY <2>2, UndefinedInv
<1>3. CASE UnlockWU(t)
  <2>1. LocksHeld'
    BY <1>3 DEF UnlockWU, At, Goto, LocksHeld, WithRI, PCs
  <2>2. WritersAlone'
    BY <1>3 DEF UnlockWU, WritersAlone
  <2>. QED
    BY <1>3, <2>1, <2>2, LockStepInv DEF UnlockWU, Goto, At, PCs, heap
<1>4. CASE UnlockRI(t)
  <2>1. LocksHeld'
    BY <1>4 DEF UnlockRI, At, Goto, LocksHeld, WithRI, PCs
  <2>2. WritersAlone'
    BY <1>4 DEF UnlockRI, WritersAlone
  <2>. QED
    BY <1>4, <2>1, <2>2, LockStepInv DEF UnlockRI, Goto, At, PCs, heap
<1>5. CASE Send(t)
  <2>1. CASE Finish(t) /\ UNCHANGED <<heap, locks, others>>
    <3>1. /\ pc[t] = "send" /\ pc' = [pc EXCEPT ![t] = "idle"] /\ UNCHANGED locks
          /\ UNCHANGED <<list, live, tag, main>>
          /\ uri' = [uri EXCEPT ![t] = NoUri] /\ cursor' = [cursor EXCEPT ![t] = Null]
      BY <1>5, <2>1 DEF Send, At, Finish, heap, others
    <3>. QED
      BY <3>1, SameLocksInv DEF WithRI, PCs
  <2>. QED
    BY <1>5, <2>1, UndefinedInv DEF Send
<1>. QED
  BY <1>1, <1>2, <1>3, <1>4, <1>5 DEF Hit

(* A miss adds its line with the insert lock held for writing, so nobody is  *)
(* between finding a line and moving it while lines come and go.             *)
LEMMA MissInv ==
  ASSUME LockInv, NEW t \in Threads, Miss(t)
  PROVE  LockInv'
<1>. /\ pc \in [Threads -> PCs] /\ LocksHeld /\ WritersAlone /\ live \subseteq Lines
     /\ cursor \in [Threads -> Lines \cup {Null}] /\ list \in List
     /\ uri \in [Threads -> Uris \cup {NoUri}] /\ tag \in [Lines -> Uris \cup {NoUri}]
  BY DEF LockInv, ThreadTypes
<1>1. CASE UnlockMiss(t)
  <2>1. LocksHeld'
    BY <1>1 DEF UnlockMiss, At, Goto, LocksHeld, WithRI, PCs
  <2>2. WritersAlone'
    BY <1>1 DEF UnlockMiss, WritersAlone
  <2>. QED
    BY <1>1, <2>1, <2>2, LockStepInv DEF UnlockMiss, Goto, At, PCs, heap
<1>2. CASE Fetch(t)
  <2>1. /\ pc[t] = "fetch" /\ UNCHANGED locks /\ UNCHANGED <<list, live, tag, main>>
        /\ \/ pc' = [pc EXCEPT ![t] = "lockWI"] /\ UNCHANGED <<uri, cursor>>
           \/ /\ pc' = [pc EXCEPT ![t] = "idle"]
              /\ uri' = [uri EXCEPT ![t] = NoUri] /\ cursor' = [cursor EXCEPT ![t] = Null]
    BY <1>2 DEF Fetch, At, Goto, Finish, Keep, heap, others
  <2>2. CASE pc' = [pc EXCEPT ![t] = "lockWI"] /\ UNCHANGED <<uri, cursor>>
    BY <2>1, <2>2, SameLocksInv DEF WithRI, PCs
  <2>3. CASE /\ pc' = [pc EXCEPT ![t] = "idle"]
             /\ uri' = [uri EXCEPT ![t] = NoUri] /\ cursor' = [cursor EXCEPT ![t] = Null]
    BY <2>1, <2>3, SameLocksInv DEF WithRI, PCs
  <2>. QED
    BY <2>1, <2>2, <2>3
<1>3. CASE LockWI(t)
  <2>1. LocksHeld'
    BY <1>3 DEF LockWI, WrLock, At, Goto, LocksHeld, WithRI, PCs
  <2>2. WritersAlone'
    BY <1>3 DEF LockWI, WrLock, WritersAlone
  <2>. QED
    BY <1>3, <2>1, <2>2, LockStepInv DEF LockWI, Goto, At, PCs, heap
<1>4. ASSUME pc[t] \in {"alloc", "evict"}, list' \in List, live' \subseteq Lines,
             tag' \in [Lines -> Uris \cup {NoUri}], cursor' \in [Threads -> Lines \cup {Null}],
             UNCHANGED locks, UNCHANGED <<uri, main>>,
             NEW there \in {"evict", "unlockWI"}, pc' = [pc EXCEPT ![t] = there]
      PROVE  LockInv'
  <2>1. UNCHANGED <<rdI, wrI, rdU, wrU>>
    BY <1>4 DEF locks
  <2>2. ThreadTypes'
    BY <1>4 DEF ThreadTypes, PCs
  <2>3. LocksHeld' /\ WritersAlone'
    BY <1>4, <2>1 DEF LocksHeld, WritersAlone, WithRI
  <2>4. \A s \in Threads : pc'[s] \notin {"unlockRU", "lockWU", "remove", "insert"}
    BY <1>4 DEF LocksHeld, WritersAlone, WithRI
  <2>. QED
    BY <1>4, <2>2, <2>3, <2>4 DEF LockInv, FoundStays
<1>5. CASE Alloc(t)
  <2>1. PICK l \in Lines \ live : /\ live' = live \cup {l} /\ tag' = [tag EXCEPT ![l] = uri[t]]
                                  /\ cursor' = [cursor EXCEPT ![t] = l]
    BY <1>5 DEF Alloc
  <2>2. /\ pc[t] = "alloc" /\ pc' = [pc EXCEPT ![t] = "evict"]
        /\ UNCHANGED locks /\ UNCHANGED <<list, uri, main>>
    BY <1>5 DEF Alloc, At, Goto, others
  <2>. QED
    BY <1>4, <2>1, <2>2
<1>6. CASE Evict(t)
  <2>1. CASE ~Undefined("links")
    <3>1. /\ pc[t] = "evict" /\ list.tail \in live
          /\ list' = FreedLinks(remove_cache_line(list, list.tail), list.tail)
          /\ live' = live \ {list.tail} /\ tag' = [tag EXCEPT ![list.tail] = NoUri]
          /\ UNCHANGED <<pc, uri, cursor, main>> /\ UNCHANGED locks
      BY <1>6, <2>1 DEF Evict, Allocated, At, FreedTag, Keep, others
    <3>2. list' \in List
      BY <3>1, ListTypes
    <3>3. pc' = [pc EXCEPT ![t] = "evict"]
      BY <3>1
    <3>. QED
      BY <1>4, <3>1, <3>2, <3>3
  <2>. QED
    BY <2>1, UndefinedInv
<1>7. CASE Place(t)
  <2>1. CASE ~Undefined("links")
    <3>1. /\ pc[t] = "evict" /\ pc' = [pc EXCEPT ![t] = "unlockWI"]
          /\ list' = insert_cache_line(list, cursor[t])
          /\ UNCHANGED <<live, tag, uri, cursor, main>> /\ UNCHANGED locks
      BY <1>7, <2>1 DEF Place, At, Goto, Keep, others
    <3>2. list' \in List
      BY <3>1, NullInserted, ListTypes
    <3>. QED
      BY <1>4, <3>1, <3>2
  <2>. QED
    BY <2>1, UndefinedInv
<1>8. CASE UnlockWI(t)
  <2>1. /\ pc[t] = "unlockWI" /\ pc' = [pc EXCEPT ![t] = "idle"] /\ wrI' = wrI \ {t}
        /\ uri' = [uri EXCEPT ![t] = NoUri] /\ cursor' = [cursor EXCEPT ![t] = Null]
        /\ UNCHANGED <<list, live, tag, main, rdI, rdU, wrU>>
    BY <1>8 DEF UnlockWI, At, Finish, heap, others
  <2>2. ThreadTypes'
    BY <2>1 DEF ThreadTypes, PCs
  <2>3. LocksHeld' /\ WritersAlone'
    BY <2>1 DEF LocksHeld, WritersAlone, WithRI
  <2>4. FoundStays'
    BY <2>1 DEF LockInv, FoundStays
  <2>. QED
    BY <2>1, <2>2, <2>3, <2>4 DEF LockInv
<1>. QED
  BY <1>1, <1>2, <1>3, <1>5, <1>6, <1>7, <1>8 DEF Miss

(* A proxy that is shutting down at rest has no thread left to take a step.  *)
LEMMA AtRestKept ==
  ASSUME AtRest, NEW t \in Threads, Serve(t) \/ \E u \in Uris : Request(t, u)
  PROVE  AtRest'
<1>1. pc[t] # "idle" \/ \E u \in Uris : left[u] > 0
  BY DEF Serve, Search, Hit, Miss, Request, LockRI, LockRU, Walk, UnlockRU, UnlockMiss, LockWU,
    MoveOut, MoveIn, UnlockWU, UnlockRI, Send, Fetch, LockWI, Alloc, Evict, Place, UnlockWI, At
<1>2. UNCHANGED main
  BY DEF Serve, Search, Hit, Miss, Request, LockRI, LockRU, Walk, UnlockRU, UnlockMiss, LockWU,
    MoveOut, MoveIn, UnlockWU, UnlockRI, Send, Fetch, LockWI, Alloc, Evict, Place, UnlockWI,
    Undefined, Keep, others
<1>3. ~(\E u \in Uris : left[u] = 0 /\ left[u] > 0)
  OBVIOUS
<1>. QED
  BY <1>1, <1>2, <1>3 DEF AtRest

(* A shutdown at rest touches no line a thread has found: there is none.     *)
LEMMA ShutdownInv ==
  ASSUME Interrupted # "any time", IInv, Interrupt \/ FreeLine \/ ExitProcess
  PROVE  IInv'
<1>1. /\ UNCHANGED <<rdI, wrI, rdU, wrU>> /\ UNCHANGED <<pc, uri, cursor, left>>
  BY DEF Interrupt, FreeLine, ExitProcess, Undefined, heap, locks
<1>2. (\A t \in Threads : pc[t] = "idle") /\ (\A u \in Uris : left[u] = 0)
  BY ProxyCacheAssumption DEF Interrupt, FreeLine, ExitProcess, IInv, AtRest
<1>3. list' \in List /\ live' \subseteq Lines /\ tag' \in [Lines -> Uris \cup {NoUri}]
  <2>. list \in List /\ live \subseteq Lines /\ tag \in [Lines -> Uris \cup {NoUri}]
    BY DEF IInv, LockInv, ThreadTypes
  <2>1. CASE UNCHANGED <<list, live, tag>>
    BY <2>1
  <2>2. CASE FreeLine /\ Allocated({doomed, list.head})
    <3>1. doomed \in Lines /\ list.head \in Lines
      BY <2>2 DEF Allocated
    <3>2. [list EXCEPT !.head = list.next[list.head]] \in List
      BY <3>1 DEF List
    <3>3. FreedLinks([list EXCEPT !.head = list.next[list.head]], doomed) \in List
      BY <3>1, <3>2, ListTypes
    <3>. QED
      BY <2>2, <3>1, <3>3 DEF FreeLine, FreedTag
  <2>3. CASE ExitProcess
    BY <2>3 DEF ExitProcess, List
  <2>. QED
    BY <2>1, <2>2, <2>3 DEF Interrupt, FreeLine, Undefined, heap
<1>4. ThreadTypes'
  BY <1>1, <1>3 DEF IInv, LockInv, ThreadTypes
<1>5. LocksHeld' /\ WritersAlone' /\ FoundStays'
  BY <1>1, <1>2 DEF IInv, LockInv, LocksHeld, WritersAlone, FoundStays
<1>6. AtRest'
  BY <1>1, <1>2 DEF AtRest
<1>. QED
  BY <1>4, <1>5, <1>6 DEF IInv, LockInv

(* Every step of a proxy that is shut down at rest, if at all, keeps it.     *)
LEMMA NextInv ==
  ASSUME Interrupted # "any time", IInv, [Next]_vars
  PROVE  IInv'
<1>1. ASSUME NEW t \in Threads, Serve(t) \/ \E u \in Uris : Request(t, u)
      PROVE  IInv'
  BY <1>1, SearchInv, HitInv, MissInv, RequestInv, AtRestKept DEF Serve, IInv
<1>2. CASE Interrupt \/ FreeLine \/ ExitProcess
  BY <1>2, ShutdownInv
<1>3. CASE UNCHANGED vars
  <2>1. /\ UNCHANGED <<list, live, tag>> /\ UNCHANGED <<rdI, wrI, rdU, wrU>>
        /\ UNCHANGED <<pc, uri, cursor, main, left>>
    BY <1>3 DEF vars
  <2>2. ThreadTypes'
    BY <2>1 DEF IInv, LockInv, ThreadTypes
  <2>3. LocksHeld' /\ WritersAlone' /\ FoundStays' /\ AtRest'
    BY <2>1 DEF IInv, LockInv, LocksHeld, WritersAlone, FoundStays, AtRest
  <2>. QED
    BY <2>2, <2>3 DEF IInv, LockInv
<1>. QED
  BY <1>1, <1>2, <1>3 DEF Next

(* Who holds which lock is known at every point of get_object and            *)
(* add_object, and no reader and no second writer is beside a writer.        *)
THEOREM Locking ==
  ASSUME Interrupted # "any time"
  PROVE  Spec => []IInv
<1>1. IInv /\ [Next]_vars => IInv'
  BY NextInv
<1>2. Init => IInv
  BY InitInv DEF IInv, Init, AtRest
<1>. QED
  BY <1>1, <1>2, PTL DEF Spec

(* get_object gives up read_update_lock before it takes it for writing: the  *)
(* line it found is still there and still that of its uri when it moves it.  *)
THEOREM FoundLineStays ==
  ASSUME Interrupted # "any time"
  PROVE  Spec => []FoundStays
<1>1. IInv => FoundStays
  BY DEF IInv, LockInv
<1>. QED
  BY <1>1, Locking, PTL

(* What get_object's comment says of its locks: no other thread moves or     *)
(* adds a line, or frees one, while the list is searched.                    *)
THEOREM SearchUndisturbed ==
  ASSUME Interrupted # "any time"
  PROVE  Spec => TraversalFrozen
<1>1. ASSUME IInv, [Next]_vars, NEW t \in Threads, pc[t] = "walk", pc'[t] = "walk"
      PROVE  UNCHANGED <<list, live, tag>>
  <2>1. t \in rdI /\ t \in rdU
    BY <1>1 DEF IInv, LockInv, LocksHeld, WithRI
  <2>2. \A s \in Threads :
          pc[s] \notin {"alloc", "evict", "unlockWI", "remove", "insert", "unlockWU"}
    BY <1>1, <2>1 DEF IInv, LockInv, LocksHeld, WritersAlone
  <2>3. ASSUME NEW s \in Threads, Search(s) \/ \E u \in Uris : Request(s, u)
        PROVE  UNCHANGED <<list, live, tag>>
    BY <2>3 DEF Search, Request, LockRI, LockRU, Walk, UnlockRU, Undefined, heap
  <2>4. ASSUME NEW s \in Threads, Hit(s)
        PROVE  UNCHANGED <<list, live, tag>>
    BY <2>2, <2>4 DEF Hit, LockWU, MoveOut, MoveIn, UnlockWU, UnlockRI, Send, At, Undefined, heap
  <2>5. ASSUME NEW s \in Threads, Miss(s)
        PROVE  UNCHANGED <<list, live, tag>>
    BY <2>2, <2>5 DEF Miss, UnlockMiss, Fetch, LockWI, Alloc, Evict, Place, UnlockWI, At, heap
  <2>6. CASE Interrupt \/ FreeLine \/ ExitProcess
    BY <1>1, <2>6, ProxyCacheAssumption DEF Interrupt, FreeLine, ExitProcess, IInv, AtRest
  <2>7. CASE UNCHANGED vars
    BY <2>7 DEF vars
  <2>. QED
    BY <1>1, <2>3, <2>4, <2>5, <2>6, <2>7 DEF Next, Serve
<1>2. IInv /\ [Next]_vars
        => [\A t \in Threads : pc[t] = "walk" /\ pc'[t] = "walk" => UNCHANGED <<list, live, tag>>]_vars
  BY <1>1
<1>. QED
  BY <1>2, Locking, PTL DEF Spec, TraversalFrozen

-----------------------------------------------------------------------------
(* The list and the space.                                                   *)

\* No search finds the line in front once a hit has moved it there: its prev is stale then,
\* since insert_cache_line leaves it as it was (cache.c:103), and taking it out follows it.
\* That it is so is proved of objects asked for twice.
FrontIsFresh ==
  \A t \in Threads :
    pc[t] = "remove" /\ cursor[t] = list.head => list.prev[list.head] = Null

\* The list L leads from its head through the n lines of q, and back except for the front.
Queue(L, n, q) ==
  /\ n \in Nat /\ q \in [1..n -> Lines] /\ \A i, j \in 1..n : q[i] = q[j] => i = j
  /\ L.head = IF n = 0 THEN Null ELSE q[1]
  /\ L.tail = IF n = 0 THEN Null ELSE q[n]
  /\ \A i \in 1..n : L.next[q[i]] = IF i = n THEN Null ELSE q[i + 1]
  /\ \A i \in 2..n : L.prev[q[i]] = q[i - 1]

\* Those lines are the ones of S.
Holds(n, q, S) == \A l \in Lines : l \in S <=> \E i \in 1..n : q[i] = l

\* What is allocated is of an object to be kept, and what is not leads nowhere.
LinesKept ==
  /\ IsFiniteSet(live) /\ \A l \in live : tag[l] \in Uris /\ SizeOf[tag[l]] < MAX_OBJECT_SIZE
  /\ \A l \in Lines \ live : list.next[l] = Null

\* What a thread has in hand.
InHand(t) ==
  /\ pc[t] # "idle" => uri[t] \in Uris
  /\ pc[t] \in {"lockWI", "alloc", "evict"} => SizeOf[uri[t]] < MAX_OBJECT_SIZE
  /\ pc[t] = "evict" => /\ cursor[t] \in live /\ tag[cursor[t]] = uri[t]
                        /\ list.next[cursor[t]] = Null
  /\ pc[t] \in {"lockWU", "remove", "insert"} => cursor[t] # Null
  /\ pc[t] = "insert" /\ list.head = Null => list.next[cursor[t]] = Null

\* What the lines of S take, if each is as large as the object it is tagged with.
SpaceOf(tags, S) == MapThenSumSet(LAMBDA l : SizeOf[tags[l]], S)

\* What is resident and not just being moved is in the list.
Linked == \E n, q : Queue(list, n, q) /\ Holds(n, q, Resident \ Moving)

Accounted == remain_size = MAX_CACHE_SIZE - SpaceOf(tag, Resident)

\* The cache while the proxy serves; only searching and sending may meet a freed line.
ServingInv ==
  main = "accepting" =>
    /\ Linked /\ LinesKept /\ Accounted /\ \A t \in Threads : InHand(t)
    /\ ub \in {"none", "walk", "send"}

\* What free_cache has still to free.
Chained(L, n, q) ==
  /\ n \in Nat /\ q \in [1..n -> Lines] /\ \A i, j \in 1..n : q[i] = q[j] => i = j
  /\ L.head = IF n = 0 THEN Null ELSE q[1]
  /\ \A i \in 1..n : L.next[q[i]] = IF i = n THEN Null ELSE q[i + 1]

ClosingInv ==
  main # "accepting" =>
    /\ ub = "none" /\ doomed = list.head
    /\ main = "exited" => live = {}
    /\ \E n, q : Chained(list, n, q) /\ Holds(n, q, live)

-----------------------------------------------------------------------------
(* Sums over a set.                                                          *)

\* A set of numbers has a least element.
LEMMA HasLeast ==
  ASSUME NEW S \in SUBSET Nat, S # {}
  PROVE  \E i \in S : \A j \in S : i <= j
<1>1. PICK i \in S : \A j \in S : ~ (<<j, i>> \in OpToRel(<, Nat))
  <2>1. IsWellFoundedOn(OpToRel(<, Nat), Nat)
    BY NatLessThanWellFounded
  <2> QED
    BY <2>1, WFMin
<1>2. \A j \in S : ~ (j < i)
  BY <1>1 DEF OpToRel
<1> QED
  BY <1>2

\* G says of each part of S what the numbers w of its elements add up to.
Adding(G, w, S) ==
  \A s \in SUBSET S :
    /\ G[s] \in Nat /\ (s = {} => G[s] = 0)
    /\ \A x \in s : G[s] = w[x] + G[s \ {x}]

\* The same from element to element, as the fold takes them.
Totals(f, w, S) ==
  \A s \in SUBSET S :
    f[s] = IF s = {} THEN 0 ELSE w[CHOOSE x \in s : TRUE] + f[s \ {CHOOSE x \in s : TRUE}]

\* The numbers of a finite set can be added up.
LEMMA AddingExists ==
  ASSUME NEW S, IsFiniteSet(S), NEW w, \A x \in S : w[x] \in Nat
  PROVE  \E G : Adding(G, w, S)
<1> DEFINE Sized(T, n) == IsFiniteSet(T) /\ Cardinality(T) = n
           Bad == {n \in Nat : \E T \in SUBSET S : Sized(T, n) /\ ~ \E G : Adding(G, w, T)}
<1>1. ASSUME Bad # {} PROVE FALSE
  <2>1. PICK n \in Bad : \A m \in Bad : n <= m
    <3>1. Bad \in SUBSET Nat
      OBVIOUS
    <3> HIDE DEF Bad
    <3> QED
      BY <1>1, <3>1, HasLeast
  <2>2. PICK T \in SUBSET S : Sized(T, n) /\ ~ \E G : Adding(G, w, T)
    BY <2>1
  <2>3. T # {}
    <3> SUFFICES ASSUME T = {} PROVE FALSE
      OBVIOUS
    <3> DEFINE G == [s \in SUBSET T |-> 0]
    <3>1. Adding(G, w, T)
      BY DEF Adding
    <3> QED
      BY <2>2, <3>1
  <2>4. PICK z \in T : TRUE
    BY <2>3
  <2>5. n \in Nat /\ IsFiniteSet(T \ {z}) /\ Cardinality(T \ {z}) = n - 1 /\ n - 1 \in Nat
    <3>1. IsFiniteSet(T \ {z}) /\ Cardinality(T \ {z}) = n - 1
      BY <2>2, <2>4, FS_RemoveElement
    <3>2. Cardinality(T \ {z}) \in Nat
      BY <3>1, FS_CardinalityType
    <3> QED
      BY <2>1, <3>1, <3>2
  <2>6. n - 1 \notin Bad
    BY <2>1, <2>5
  <2>7. PICK H : Adding(H, w, T \ {z})
    <3>1. T \ {z} \in SUBSET S /\ Sized(T \ {z}, n - 1)
      BY <2>5
    <3> QED
      BY <2>5, <2>6, <3>1
  <2> DEFINE G == [s \in SUBSET T |-> IF z \in s THEN w[z] + H[s \ {z}] ELSE H[s]]
  <2>8. ASSUME NEW s \in SUBSET T
        PROVE  /\ G[s] \in Nat /\ (s = {} => G[s] = 0)
               /\ \A x \in s : G[s] = w[x] + G[s \ {x}]
    <3>1. w[z] \in Nat /\ \A x \in s : w[x] \in Nat
      OBVIOUS
    <3>2. s \ {z} \in SUBSET (T \ {z}) /\ H[s \ {z}] \in Nat
      BY <2>7 DEF Adding
    <3>3. z \notin s => s \in SUBSET (T \ {z}) /\ H[s] \in Nat /\ (s = {} => H[s] = 0)
      BY <2>7 DEF Adding
    <3>4. ASSUME NEW x \in s PROVE G[s] = w[x] + G[s \ {x}]
      <4>1. s \ {x} \in SUBSET T
        OBVIOUS
      <4>2. CASE x = z
        BY <3>4, <4>1, <4>2
      <4>3. CASE x # z /\ z \in s
        <5>1. x \in s \ {z} /\ z \in s \ {x} /\ (s \ {z}) \ {x} = (s \ {x}) \ {z}
          BY <3>4, <4>3
        <5>2. H[s \ {z}] = w[x] + H[(s \ {x}) \ {z}]
          <6>1. H[s \ {z}] = w[x] + H[(s \ {z}) \ {x}]
            BY <2>7, <3>2, <5>1 DEF Adding
          <6> QED
            BY <5>1, <6>1
        <5>3. (s \ {x}) \ {z} \in SUBSET (T \ {z})
          OBVIOUS
        <5>4. PICK rest : rest = H[(s \ {x}) \ {z}] /\ rest \in Nat
          BY <2>7, <5>3 DEF Adding
        <5>5. G[s] = w[z] + (w[x] + rest) /\ G[s \ {x}] = w[z] + rest
          BY <4>1, <4>3, <5>1, <5>2, <5>4
        <5>6. w[z] \in Nat /\ w[x] \in Nat
          BY <3>1, <3>4
        <5> HIDE DEF G
        <5> QED
          BY <5>4, <5>5, <5>6
      <4>4. CASE z \notin s
        <5>1. H[s] = w[x] + H[s \ {x}]
          BY <2>7, <3>3, <3>4, <4>4 DEF Adding
        <5> QED
          BY <4>1, <4>4, <5>1
      <4> QED
        BY <4>2, <4>3, <4>4
    <3>5. G[s] \in Nat /\ (s = {} => G[s] = 0)
      BY <3>1, <3>2, <3>3
    <3> HIDE DEF G
    <3> QED
      BY <3>4, <3>5
  <2> HIDE DEF G
  <2>9. Adding(G, w, T)
    BY <2>8 DEF Adding
  <2> QED
    BY <2>2, <2>9
<1>2. Cardinality(S) \in Nat /\ Sized(S, Cardinality(S)) /\ S \in SUBSET S
  BY FS_CardinalityType
<1> QED
  BY <1>1, <1>2

\* The fold over a finite set is the sum of its numbers.
LEMMA TotalsAgree ==
  ASSUME NEW S, IsFiniteSet(S), NEW w, NEW G, Adding(G, w, S), NEW f, Totals(f, w, S)
  PROVE  f[S] = G[S]
<1> DEFINE Bad == {n \in Nat : \E s \in SUBSET S : Cardinality(s) = n /\ f[s] # G[s]}
<1>1. ASSUME Bad # {} PROVE FALSE
  <2>1. PICK n \in Bad : \A m \in Bad : n <= m
    <3>1. Bad \in SUBSET Nat
      OBVIOUS
    <3> HIDE DEF Bad
    <3> QED
      BY <1>1, <3>1, HasLeast
  <2>2. PICK s \in SUBSET S : Cardinality(s) = n /\ f[s] # G[s]
    BY <2>1
  <2>3. s # {}
    BY <2>2 DEF Adding, Totals
  <2>4. PICK x : x = CHOOSE y \in s : TRUE
    OBVIOUS
  <2>5. x \in s
    BY <2>3, <2>4
  <2>6. IsFiniteSet(s) /\ IsFiniteSet(s \ {x}) /\ Cardinality(s \ {x}) = n - 1
    <3>1. IsFiniteSet(s)
      BY FS_Subset
    <3> QED
      BY <2>2, <2>5, <3>1, FS_RemoveElement
  <2>7. n \in Nat /\ n - 1 \in Nat
    BY <2>1, <2>6, FS_CardinalityType
  <2>8. n - 1 \notin Bad
    BY <2>1, <2>7
  <2>9. s \ {x} \in SUBSET S
    OBVIOUS
  <2>10. f[s \ {x}] = G[s \ {x}]
    BY <2>6, <2>7, <2>8, <2>9
  <2>11. f[s] = w[x] + f[s \ {x}]
    BY <2>3, <2>4 DEF Totals
  <2>12. G[s] = w[x] + G[s \ {x}]
    BY <2>5 DEF Adding
  <2> QED
    BY <2>2, <2>10, <2>11, <2>12
<1>2. Cardinality(S) \in Nat /\ S \in SUBSET S
  BY FS_CardinalityType
<1> QED
  BY <1>1, <1>2

\* The sizes of the objects the lines of S are tagged with.
Sizes(tags, S) == [l \in S |-> SizeOf[tags[l]]]

\* The fold that SpaceOf is.
LEMMA SpaceIs ==
  ASSUME NEW S, IsFiniteSet(S), NEW tags, NEW G, Adding(G, Sizes(tags, S), S)
  PROVE  SpaceOf(tags, S) = G[S]
<1> DEFINE Pick(s) == CHOOSE x \in s : TRUE
           Sum(f, s) == IF s = {} THEN 0 ELSE SizeOf[tags[Pick(s)]] + f[s \ {Pick(s)}]
           Folds(f) == f = [s \in SUBSET S |-> Sum(f, s)]
<1>1. SpaceOf(tags, S) = (CHOOSE f : Folds(f))[S]
  BY DEF SpaceOf, MapThenSumSet, MapThenFoldSet
<1>2. ASSUME NEW s \in SUBSET S, s # {}
      PROVE  Pick(s) \in s /\ Sizes(tags, S)[Pick(s)] = SizeOf[tags[Pick(s)]]
  <2>1. Pick(s) \in s
    BY <1>2
  <2> QED
    BY <2>1 DEF Sizes
<1>3. Folds([s \in SUBSET S |-> G[s]])
  <2> DEFINE F == [s \in SUBSET S |-> G[s]]
  <2>1. ASSUME NEW s \in SUBSET S PROVE F[s] = Sum(F, s)
    <3>1. CASE s = {}
      BY <3>1 DEF Adding
    <3>2. CASE s # {}
      <4>1. PICK x : x = Pick(s) /\ x \in s /\ Sizes(tags, S)[x] = SizeOf[tags[x]]
        BY <1>2, <3>2
      <4>2. s \ {x} \in SUBSET S
        OBVIOUS
      <4>3. F[s] = Sizes(tags, S)[x] + F[s \ {x}]
        BY <4>1, <4>2 DEF Adding
      <4> HIDE DEF F, Pick
      <4> QED
        BY <3>2, <4>1, <4>3
    <3> QED
      BY <3>1, <3>2
  <2>2. F = [s \in SUBSET S |-> F[s]]
    OBVIOUS
  <2> HIDE DEF F, Sum
  <2>3. [s \in SUBSET S |-> F[s]] = [s \in SUBSET S |-> Sum(F, s)]
    BY <2>1
  <2> QED
    BY <2>2, <2>3 DEF F
<1>4. PICK f : f = (CHOOSE g : Folds(g)) /\ Folds(f)
  <2> HIDE DEF Folds
  <2> QED
    BY <1>3
<1>5. Totals(f, Sizes(tags, S), S)
  <2> SUFFICES ASSUME NEW s \in SUBSET S
               PROVE  f[s] = IF s = {} THEN 0 ELSE Sizes(tags, S)[Pick(s)] + f[s \ {Pick(s)}]
    BY DEF Totals
  <2>1. f[s] = Sum(f, s)
    <3>1. Folds(f)
      BY <1>4
    <3> HIDE DEF Sum
    <3> QED
      BY <3>1
  <2> HIDE DEF Pick
  <2> QED
    BY <1>2, <2>1
<1>6. f[S] = G[S]
  BY <1>5, TotalsAgree
<1> HIDE DEF Folds
<1> QED
  BY <1>1, <1>4, <1>6

\* The sizes of lines of objects are numbers.
LEMMA SizesAre ==
  ASSUME NEW S, NEW tags, \A l \in S : tags[l] \in Uris
  PROVE  \A l \in S : Sizes(tags, S)[l] \in Nat /\ Sizes(tags, S)[l] = SizeOf[tags[l]]
BY ProxyCacheAssumption DEF Sizes

\* No lines take no space.
LEMMA NoSpace == ASSUME NEW tags PROVE SpaceOf(tags, {}) = 0
<1> DEFINE G == [s \in SUBSET {} |-> 0]
<1>1. Adding(G, Sizes(tags, {}), {})
  BY DEF Adding
<1> HIDE DEF G
<1>2. SpaceOf(tags, {}) = G[{}]
  BY <1>1, FS_EmptySet, SpaceIs
<1> QED
  BY <1>2 DEF G

\* The lines of S have tags, and the same in tags as in old.
Tagged(tags, S) == \A l \in S : tags[l] \in Uris

SameTags(old, tags, S) == \A l \in S : old[l] = tags[l]

\* One more line takes its own size, whatever is written to other tags.
LEMMA MoreSpace ==
  ASSUME NEW S, IsFiniteSet(S), NEW z, z \notin S, NEW tags, NEW old,
         Tagged(tags, S \cup {z}), SameTags(old, tags, S)
  PROVE  /\ SpaceOf(tags, S \cup {z}) = SizeOf[tags[z]] + SpaceOf(old, S)
         /\ SpaceOf(old, S) \in Nat /\ SizeOf[tags[z]] \in Nat
<1> DEFINE T == S \cup {z}
<1>1. IsFiniteSet(T)
  BY FS_AddElement
<1>2. \A l \in T : Sizes(tags, T)[l] \in Nat /\ Sizes(tags, T)[l] = SizeOf[tags[l]]
  BY SizesAre DEF Tagged
<1>3. \A l \in S : Sizes(old, S)[l] = Sizes(tags, T)[l]
  BY DEF Sizes, SameTags
<1> HIDE DEF T
<1>4. PICK G : Adding(G, Sizes(tags, T), T)
  BY <1>1, <1>2, AddingExists
<1>5. SpaceOf(tags, T) = G[T]
  BY <1>1, <1>4, SpaceIs
<1>6. S \in SUBSET T /\ z \in T /\ T \ {z} = S
  BY DEF T
<1>7. Adding(G, Sizes(old, S), S)
  <2> SUFFICES ASSUME NEW s \in SUBSET S
               PROVE  /\ G[s] \in Nat /\ (s = {} => G[s] = 0)
                      /\ \A x \in s : G[s] = Sizes(old, S)[x] + G[s \ {x}]
    BY DEF Adding
  <2>1. s \in SUBSET T
    BY <1>6
  <2> QED
    BY <1>3, <1>4, <2>1 DEF Adding
<1>8. SpaceOf(old, S) = G[S]
  BY <1>7, SpaceIs
<1>9. G[T] = Sizes(tags, T)[z] + G[S] /\ G[S] \in Nat
  BY <1>4, <1>6 DEF Adding
<1> QED
  BY <1>2, <1>5, <1>6, <1>8, <1>9 DEF T

\* Space does not depend on the tags of other lines.
LEMMA SameSpace ==
  ASSUME NEW S, IsFiniteSet(S), NEW tags, NEW old,
         \A l \in S : tags[l] \in Uris /\ old[l] = tags[l]
  PROVE  SpaceOf(tags, S) = SpaceOf(old, S) /\ SpaceOf(tags, S) \in Nat
<1>1. \A l \in S : Sizes(tags, S)[l] \in Nat
  BY SizesAre
<1>2. PICK G : Adding(G, Sizes(tags, S), S)
  BY <1>1, AddingExists
<1>3. Sizes(tags, S) = Sizes(old, S)
  BY DEF Sizes
<1>4. SpaceOf(tags, S) = G[S] /\ SpaceOf(old, S) = G[S]
  BY <1>2, <1>3, SpaceIs
<1>5. G[S] \in Nat
  BY <1>2 DEF Adding
<1> QED
  BY <1>4, <1>5

-----------------------------------------------------------------------------
(* What the list operators make of a list.                                   *)

\* The lines of q behind a new one, and without the k-th.
Put(l, n, q)  == [i \in 1..(n + 1) |-> IF i = 1 THEN l ELSE q[i - 1]]
Drop(k, n, q) == [i \in 1..(n - 1) |-> IF i < k THEN q[i] ELSE q[i + 1]]

\* insert_cache_line puts a line in front that was not in the list.
LEMMA Inserted ==
  ASSUME NEW L \in List, NEW n, NEW q, Queue(L, n, q), NEW l \in Lines, \A i \in 1..n : q[i] # l,
         L.head = Null => L.next[l] = Null
  PROVE  Queue(insert_cache_line(L, l), n + 1, Put(l, n, q))
<1> DEFINE I == insert_cache_line(L, l)
           p == Put(l, n, q)
<1>1. n \in Nat /\ q \in [1..n -> Lines] /\ Null \notin Lines
  BY CacheListAssumption DEF Queue
<1>2. /\ p \in [1..(n + 1) -> Lines] /\ p[1] = l
      /\ \A i \in 2..(n + 1) : p[i] = q[i - 1] /\ i - 1 \in 1..n
  BY <1>1 DEF Put
<1>3. \A i, j \in 1..(n + 1) : p[i] = p[j] => i = j
  <2> SUFFICES ASSUME NEW i \in 1..(n + 1), NEW j \in 1..(n + 1), p[i] = p[j] PROVE i = j
    OBVIOUS
  <2> HIDE DEF p
  <2>1. CASE i = 1 \/ j = 1
    BY <1>1, <1>2, <2>1
  <2>2. CASE i # 1 /\ j # 1
    <3>1. i - 1 \in 1..n /\ j - 1 \in 1..n /\ q[i - 1] = q[j - 1]
      BY <1>1, <1>2, <2>2
    <3>2. i - 1 = j - 1
      BY <3>1 DEF Queue
    <3> QED
      BY <1>1, <3>2
  <2> QED
    BY <2>1, <2>2
<1>4. CASE n = 0
  <2>1. L.head = Null /\ L.next[l] = Null
    BY <1>4 DEF Queue
  <2>2. I.head = l /\ I.tail = l /\ I.next = L.next /\ I.prev = L.prev
    BY <2>1 DEF insert_cache_line, List
  <2> HIDE DEF I, p
  <2>3. \A i \in 1..(n + 1) : i = 1
    BY <1>4
  <2> QED
    BY <1>2, <1>3, <1>4, <2>1, <2>2, <2>3 DEF Queue, I, p
<1>5. CASE n > 0
  <2>1. L.head = q[1] /\ L.tail = q[n] /\ q[1] \in Lines /\ L.head # Null
    BY <1>1, <1>5 DEF Queue
  <2>2. /\ I.head = l /\ I.tail = L.tail
        /\ I.next = SetAt(L.next, l, q[1]) /\ I.prev = SetAt(L.prev, q[1], l)
    BY <2>1 DEF insert_cache_line, List
  <2>3. \A x \in Lines : /\ I.next[x] = IF x = l THEN q[1] ELSE L.next[x]
                         /\ I.prev[x] = IF x = q[1] THEN l ELSE L.prev[x]
    BY <2>2 DEF SetAt
  <2> HIDE DEF I, p
  <2>4. I.tail = p[n + 1] /\ n + 1 # 0 /\ n + 1 \in Nat
    BY <1>1, <1>2, <1>5, <2>1, <2>2
  <2>5. ASSUME NEW i \in 1..(n + 1)
        PROVE  I.next[p[i]] = IF i = n + 1 THEN Null ELSE p[i + 1]
    <3>1. CASE i = 1
      BY <1>1, <1>2, <1>5, <2>3, <3>1
    <3>2. CASE i # 1
      <4>1. PICK j \in 1..n : j = i - 1
        BY <1>1, <3>2
      <4>2. p[i] = q[j] /\ q[j] \in Lines /\ q[j] # l
        BY <1>1, <1>2, <3>2, <4>1
      <4>3. I.next[q[j]] = IF j = n THEN Null ELSE q[j + 1]
        BY <2>3, <4>1, <4>2 DEF Queue
      <4>4. i # n + 1 => p[i + 1] = q[j + 1]
        BY <1>1, <1>2, <3>2, <4>1
      <4> QED
        BY <1>1, <4>1, <4>2, <4>3, <4>4
    <3> QED
      BY <3>1, <3>2
  <2>6. ASSUME NEW i \in 2..(n + 1)
        PROVE  I.prev[p[i]] = p[i - 1]
    <3>1. PICK j \in 1..n : j = i - 1 /\ p[i] = q[j] /\ q[j] \in Lines
      BY <1>1, <1>2
    <3>2. CASE j = 1
      BY <1>1, <1>2, <2>3, <3>1, <3>2
    <3>3. CASE j # 1
      <4>1. q[j] # q[1]
        BY <1>5, <3>3 DEF Queue
      <4>2. L.prev[q[j]] = q[j - 1]
        BY <1>1, <3>3 DEF Queue
      <4>3. p[i - 1] = q[j - 1]
        BY <1>1, <1>2, <3>1, <3>3
      <4> QED
        BY <2>3, <3>1, <4>1, <4>2, <4>3
    <3> QED
      BY <3>2, <3>3
  <2> QED
    BY <1>2, <1>3, <2>2, <2>4, <2>5, <2>6 DEF Queue, I, p
<1> QED
  BY <1>1, <1>4, <1>5

\* remove_cache_line takes a line out, from the front only if its prev is not stale, and
\* leaves the next of the line and of all outside the list as they were.
LEMMA Removed ==
  ASSUME NEW L \in List, NEW n, NEW q, Queue(L, n, q), NEW k \in 1..n,
         k = 1 => L.prev[q[1]] = Null
  PROVE  /\ Queue(remove_cache_line(L, q[k]), n - 1, Drop(k, n, q))
         /\ remove_cache_line(L, q[k]).next[q[k]] = L.next[q[k]]
         /\ \A x \in Lines : (\A i \in 1..n : q[i] # x) => remove_cache_line(L, q[k]).next[x] = L.next[x]
         /\ RemoveWrites(L, q[k]) \subseteq {q[i] : i \in 1..n}
<1> DEFINE R == remove_cache_line(L, q[k])
           p == Drop(k, n, q)
<1>1. /\ n \in Nat /\ k \in Nat /\ 1 <= k /\ k <= n
      /\ q \in [1..n -> Lines] /\ Null \notin Lines /\ q[k] \in Lines
      /\ n - 1 \in Nat
  BY CacheListAssumption DEF Queue
<1>2. \A i, j \in 1..n : q[i] = q[j] => i = j
  BY DEF Queue
<1>3. L.prev[q[k]] = IF k = 1 THEN Null ELSE q[k - 1]
  BY <1>1 DEF Queue
<1>4. L.next[q[k]] = IF k = n THEN Null ELSE q[k + 1]
  BY DEF Queue
<1>5. L.head = q[1] /\ L.tail = q[n]
  BY <1>1 DEF Queue
<1>6. \A x \in Lines :
        /\ R.next[x] = IF k # 1 /\ x = q[k - 1] THEN L.next[q[k]] ELSE L.next[x]
        /\ R.prev[x] = IF k # n /\ x = q[k + 1] THEN L.prev[q[k]] ELSE L.prev[x]
  BY <1>1, <1>3, <1>4 DEF remove_cache_line, SetAt
<1>7. /\ R.head = IF k = 1 THEN L.next[q[k]] ELSE L.head
      /\ R.tail = IF k = n THEN L.prev[q[k]] ELSE L.tail
  <2>1. (L.head = q[k] <=> k = 1) /\ (L.tail = q[k] <=> k = n)
    BY <1>1, <1>2, <1>5
  <2> QED
    BY <2>1 DEF remove_cache_line
<1> HIDE DEF R
<1>8. /\ p \in [1..(n - 1) -> Lines]
      /\ \A i \in 1..(n - 1) : p[i] = IF i < k THEN q[i] ELSE q[i + 1]
  BY <1>1 DEF Drop
<1> HIDE DEF p
<1>9. \A i, j \in 1..(n - 1) : p[i] = p[j] => i = j
  <2> SUFFICES ASSUME NEW i \in 1..(n - 1), NEW j \in 1..(n - 1), p[i] = p[j] PROVE i = j
    OBVIOUS
  <2> DEFINE a == IF i < k THEN i ELSE i + 1
             b == IF j < k THEN j ELSE j + 1
  <2>1. a \in 1..n /\ b \in 1..n /\ q[a] = q[b]
    BY <1>1, <1>8
  <2>2. a = b
    BY <1>2, <2>1
  <2> QED
    BY <1>1, <2>2
<1>10. R.head = IF n - 1 = 0 THEN Null ELSE p[1]
  BY <1>1, <1>4, <1>5, <1>7, <1>8
<1>11. R.tail = IF n - 1 = 0 THEN Null ELSE p[n - 1]
  BY <1>1, <1>3, <1>5, <1>7, <1>8
<1>12. ASSUME NEW i \in 1..(n - 1)
       PROVE  R.next[p[i]] = IF i = n - 1 THEN Null ELSE p[i + 1]
  <2>1. CASE i < k - 1
    <3>1. p[i] = q[i] /\ p[i + 1] = q[i + 1] /\ q[i] # q[k - 1] /\ i \in 1..n /\ i # n
      BY <1>1, <1>2, <1>8, <2>1
    <3>2. L.next[q[i]] = q[i + 1] /\ q[i] \in Lines
      BY <1>1, <3>1 DEF Queue
    <3> QED
      BY <1>1, <1>6, <2>1, <3>1, <3>2
  <2>2. CASE i = k - 1
    <3>1. p[i] = q[i] /\ q[i] \in Lines /\ k # 1
      BY <1>1, <1>8, <2>2
    <3>2. R.next[p[i]] = L.next[q[k]]
      BY <1>6, <2>2, <3>1
    <3>3. i # n - 1 => p[i + 1] = q[k + 1]
      BY <1>1, <1>8, <2>2
    <3> QED
      BY <1>1, <1>4, <2>2, <3>2, <3>3
  <2>3. CASE i >= k
    <3>1. p[i] = q[i + 1] /\ i + 1 \in 1..n /\ (k # 1 => q[i + 1] # q[k - 1]) /\ q[i + 1] \in Lines
      BY <1>1, <1>2, <1>8, <2>3
    <3>2. L.next[q[i + 1]] = IF i + 1 = n THEN Null ELSE q[i + 2]
      BY <1>1, <3>1 DEF Queue
    <3>3. i # n - 1 => p[i + 1] = q[i + 2]
      BY <1>1, <1>8, <2>3
    <3> QED
      BY <1>1, <1>6, <3>1, <3>2, <3>3
  <2> QED
    BY <1>1, <2>1, <2>2, <2>3
<1>13. ASSUME NEW i \in 2..(n - 1)
       PROVE  R.prev[p[i]] = p[i - 1]
  <2>1. CASE i < k
    <3>1. /\ p[i] = q[i] /\ p[i - 1] = q[i - 1] /\ i \in 2..n /\ q[i] \in Lines
          /\ (k # n => q[i] # q[k + 1])
      BY <1>1, <1>2, <1>8, <2>1
    <3>2. L.prev[q[i]] = q[i - 1]
      BY <3>1 DEF Queue
    <3> QED
      BY <1>6, <3>1, <3>2
  <2>2. CASE i = k
    <3>1. p[i] = q[k + 1] /\ k # n /\ k # 1 /\ q[k + 1] \in Lines /\ p[i - 1] = q[k - 1]
      BY <1>1, <1>8, <2>2
    <3> QED
      BY <1>3, <1>6, <3>1
  <2>3. CASE i > k
    <3>1. /\ p[i] = q[i + 1] /\ p[i - 1] = q[i] /\ i + 1 \in 2..n /\ q[i + 1] \in Lines
          /\ (k # n => q[i + 1] # q[k + 1])
      BY <1>1, <1>2, <1>8, <2>3
    <3>2. L.prev[q[i + 1]] = q[i]
      BY <1>1, <3>1 DEF Queue
    <3> QED
      BY <1>6, <3>1, <3>2
  <2> QED
    BY <1>1, <2>1, <2>2, <2>3
<1>14. Queue(R, n - 1, p)
  BY <1>1, <1>8, <1>9, <1>10, <1>11, <1>12, <1>13 DEF Queue
<1>15. R.next[q[k]] = L.next[q[k]]
  <2>1. k # 1 => q[k] # q[k - 1]
    BY <1>1, <1>2
  <2> QED
    BY <1>1, <1>6, <2>1
<1>16. ASSUME NEW x \in Lines, \A i \in 1..n : q[i] # x PROVE R.next[x] = L.next[x]
  <2>1. k # 1 => x # q[k - 1]
    BY <1>1, <1>16
  <2> QED
    BY <1>6, <2>1
<1>17. RemoveWrites(L, q[k]) \subseteq {q[i] : i \in 1..n}
  BY <1>1, <1>3, <1>4 DEF RemoveWrites
<1> QED
  BY <1>14, <1>15, <1>16, <1>17 DEF R, p

\* Freeing a line that is not in the list leaves it alone.
LEMMA FreedBeside ==
  ASSUME NEW L \in List, NEW n, NEW q, Queue(L, n, q), NEW l \in Lines, \A i \in 1..n : q[i] # l
  PROVE  /\ Queue(FreedLinks(L, l), n, q)
         /\ \A x \in Lines : FreedLinks(L, l).next[x] = IF x = l THEN Null ELSE L.next[x]
<1> DEFINE R == FreedLinks(L, l)
<1>1. /\ n \in Nat /\ q \in [1..n -> Lines]
      /\ \A i, j \in 1..n : q[i] = q[j] => i = j
  BY DEF Queue
<1>2. /\ R.head = L.head /\ R.tail = L.tail
      /\ \A x \in Lines : /\ R.next[x] = IF x = l THEN Null ELSE L.next[x]
                          /\ R.prev[x] = IF x = l THEN Null ELSE L.prev[x]
  BY DEF FreedLinks, SetAt, List
<1> HIDE DEF R
<1>3. \A i \in 1..n : R.next[q[i]] = L.next[q[i]] /\ R.prev[q[i]] = L.prev[q[i]]
  BY <1>1, <1>2
<1>4. Queue(R, n, q)
  BY <1>2, <1>3 DEF Queue
<1> QED
  BY <1>2, <1>4 DEF R

-----------------------------------------------------------------------------
(* Which lines threads have in hand.                                         *)

ResidentOf(lines, places, cursors) ==
  lines \ {cursors[t] : t \in {t \in Threads : places[t] = "evict"}}

MovingOf(places, cursors) == {cursors[t] : t \in {t \in Threads : places[t] = "insert"}}

\* Resident and Moving, before a step and after it.
LEMMA HandsNow ==
  /\ Resident = ResidentOf(live, pc, cursor) /\ Moving = MovingOf(pc, cursor)
  /\ Resident' = ResidentOf(live', pc', cursor') /\ Moving' = MovingOf(pc', cursor')
BY DEF Resident, Moving, ResidentOf, MovingOf

\* If at most one thread adds or moves a line, these are of that thread.
LEMMA HandOf ==
  ASSUME NEW lines, NEW places, NEW cursors, NEW t \in Threads,
         \A u \in Threads \ {t} : places[u] \notin {"evict", "insert"}
  PROVE  /\ places[t] = "evict" => /\ ResidentOf(lines, places, cursors) = lines \ {cursors[t]}
                                   /\ MovingOf(places, cursors) = {}
         /\ places[t] = "insert" => /\ ResidentOf(lines, places, cursors) = lines
                                    /\ MovingOf(places, cursors) = {cursors[t]}
         /\ places[t] \notin {"evict", "insert"} => /\ ResidentOf(lines, places, cursors) = lines
                                                   /\ MovingOf(places, cursors) = {}
BY DEF ResidentOf, MovingOf

\* A thread that changes the list is alone with it.
LEMMA AloneWithList ==
  ASSUME IInv, NEW t \in Threads, pc[t] \in {"alloc", "evict", "remove", "insert"}
  PROVE  \A u \in Threads \ {t} : pc[u] \notin {"evict", "insert"}
BY DEF IInv, LockInv, LocksHeld, WritersAlone, WithRI

\* A step of a thread that neither adds nor moves a line leaves these as they are.
LEMMA HandsSame ==
  ASSUME NEW t \in Threads, UNCHANGED live, pc[t] \notin {"evict", "insert"},
         pc'[t] \notin {"evict", "insert"},
         \A u \in Threads \ {t} : pc'[u] = pc[u] /\ cursor'[u] = cursor[u]
  PROVE  Resident' = Resident /\ Moving' = Moving
<1>1. /\ {u \in Threads : pc'[u] = "evict"} = {u \in Threads : pc[u] = "evict"}
      /\ {u \in Threads : pc'[u] = "insert"} = {u \in Threads : pc[u] = "insert"}
  OBVIOUS
<1>2. /\ \A u \in {u \in Threads : pc[u] = "evict"} : cursor'[u] = cursor[u]
      /\ \A u \in {u \in Threads : pc[u] = "insert"} : cursor'[u] = cursor[u]
  OBVIOUS
<1>3. /\ {cursor'[u] : u \in {u \in Threads : pc'[u] = "evict"}}
           = {cursor[u] : u \in {u \in Threads : pc[u] = "evict"}}
      /\ {cursor'[u] : u \in {u \in Threads : pc'[u] = "insert"}}
           = {cursor[u] : u \in {u \in Threads : pc[u] = "insert"}}
  BY <1>1, <1>2
<1> QED
  BY <1>3, HandsNow DEF ResidentOf, MovingOf

\* A list that is as it was, with the same threads adding and moving, is linked as before.
LEMMA LinkedSame ==
  ASSUME Linked, Accounted, UNCHANGED <<list, tag, remain_size>>,
         Resident' = Resident, Moving' = Moving
  PROVE  Linked' /\ Accounted'
<1>1. Linked'
  <2>1. PICK n, q : Queue(list, n, q) /\ Holds(n, q, Resident \ Moving)
    BY DEF Linked
  <2>2. PICK L : L = list /\ list' = L
    OBVIOUS
  <2>3. Queue(L, n, q) /\ Holds(n, q, Resident' \ Moving')
    BY <2>1, <2>2
  <2> QED
    BY <2>2, <2>3 DEF Linked
<1>2. Accounted'
  <2>1. PICK R, g : R = Resident /\ Resident' = R /\ g = tag /\ tag' = g
    OBVIOUS
  <2>2. remain_size' = MAX_CACHE_SIZE - SpaceOf(g, R)
    BY <2>1 DEF Accounted
  <2> QED
    BY <2>1, <2>2 DEF Accounted
<1> QED
  BY <1>1, <1>2

\* A step that touches no line.
LEMMA QuietStep ==
  ASSUME main = "accepting", ServingInv, NEW t \in Threads, NEW there,
         pc \in [Threads -> PCs], pc' = [pc EXCEPT ![t] = there],
         pc[t] \notin {"evict", "insert"}, there \notin {"evict", "insert"},
         UNCHANGED heap, UNCHANGED <<main, ub>>,
         \A u \in Threads \ {t} : uri'[u] = uri[u] /\ cursor'[u] = cursor[u],
         there # "idle" => uri'[t] \in Uris,
         there \in {"lockWI", "alloc"} => SizeOf[uri'[t]] < MAX_OBJECT_SIZE,
         there \in {"lockWU", "remove"} => cursor'[t] # Null
  PROVE  ServingInv'
<1>1. UNCHANGED <<list, live, tag, remain_size>>
  BY DEF heap
<1>2. Resident' = Resident /\ Moving' = Moving
  BY <1>1, HandsSame
<1>3. Linked' /\ Accounted'
  BY <1>1, <1>2, LinkedSame DEF ServingInv
<1>4. LinesKept'
  BY <1>1 DEF ServingInv, LinesKept
<1>5. ASSUME NEW u \in Threads PROVE InHand(u)'
  <2>1. CASE u = t
    BY <2>1 DEF InHand
  <2>2. CASE u # t
    <3>1. InHand(u)
      BY DEF ServingInv
    <3> QED
      BY <1>1, <2>2, <3>1 DEF InHand
  <2> QED
    BY <2>1, <2>2
<1> QED
  BY <1>3, <1>4, <1>5 DEF ServingInv

\* Nothing but the note that it happened.
LEMMA UndefinedStep ==
  ASSUME ServingInv, NEW use \in {"walk", "send"}, Undefined(use)
  PROVE  ServingInv'
<1>1. UNCHANGED <<list, live, tag, remain_size>> /\ UNCHANGED <<pc, uri, cursor, main>> /\ ub' = use
  BY DEF Undefined, heap
<1>2. Resident' = Resident /\ Moving' = Moving
  BY <1>1 DEF Resident, Moving
<1>3. main = "accepting" => Linked' /\ Accounted'
  BY <1>1, <1>2, LinkedSame DEF ServingInv
<1>4. main = "accepting" => LinesKept' /\ \A u \in Threads : InHand(u)'
  BY <1>1 DEF ServingInv, LinesKept, InHand
<1> QED
  BY <1>1, <1>3, <1>4 DEF ServingInv

\* All steps of a thread but those that add, move or evict a line.
LEMMA QuietSteps ==
  ASSUME main = "accepting", IInv, ServingInv, NEW t \in Threads,
         \/ \E u \in Uris : Request(t, u)
         \/ Search(t) \/ LockWU(t) \/ UnlockWU(t) \/ UnlockRI(t) \/ Send(t)
         \/ UnlockMiss(t) \/ Fetch(t) \/ LockWI(t) \/ UnlockWI(t)
  PROVE  ServingInv'
<1>1. /\ pc \in [Threads -> PCs] /\ uri \in [Threads -> Uris \cup {NoUri}]
      /\ cursor \in [Threads -> Lines \cup {Null}]
  BY DEF IInv, LockInv, ThreadTypes
<1>2. InHand(t)
  BY DEF ServingInv
<1>3. ASSUME NEW u \in Uris, Request(t, u) PROVE ServingInv'
  <2>1. /\ pc[t] = "idle" /\ pc' = [pc EXCEPT ![t] = "lockRI"] /\ UNCHANGED heap
        /\ UNCHANGED <<main, ub>>
        /\ uri' = [uri EXCEPT ![t] = u] /\ cursor' = [cursor EXCEPT ![t] = list.head]
    BY <1>3 DEF Request, At, Goto
  <2> QED
    BY <1>1, <2>1, QuietStep
<1> DEFINE Goes(there) == /\ pc[t] \notin {"idle", "evict", "insert"}
                          /\ Goto(t, there) /\ UNCHANGED heap /\ Keep(t)
           Ends == pc[t] \notin {"evict", "insert"} /\ Finish(t) /\ UNCHANGED <<heap, main, ub>>
<1>4. ASSUME NEW there \in PCs \ {"evict", "insert"}, Goes(there),
             there \in {"lockWI", "alloc"} => SizeOf[uri[t]] < MAX_OBJECT_SIZE,
             there \in {"lockWU", "remove"} => cursor[t] # Null
      PROVE  ServingInv'
  <2>1. UNCHANGED <<uri, cursor, main, ub>> /\ pc' = [pc EXCEPT ![t] = there]
    BY <1>4 DEF Keep, others, Goto
  <2>2. uri[t] \in Uris
    BY <1>2, <1>4 DEF InHand
  <2> QED
    BY <1>1, <1>4, <2>1, <2>2, QuietStep
<1>5. ASSUME Ends PROVE ServingInv'
  <2>1. /\ pc' = [pc EXCEPT ![t] = "idle"]
        /\ uri' = [uri EXCEPT ![t] = NoUri] /\ cursor' = [cursor EXCEPT ![t] = Null]
        /\ pc[t] \notin {"evict", "insert"} /\ UNCHANGED heap /\ UNCHANGED <<main, ub>>
    BY <1>5 DEF Finish
  <2> QED
    BY <1>1, <2>1, QuietStep
<1>6. /\ LockRI(t) => Goes("lockRU")
      /\ LockRU(t) => Goes("walk")
      /\ UnlockRU(t) => Goes(IF cursor[t] = Null THEN "unlockMiss" ELSE "lockWU")
      /\ LockWU(t) => Goes("remove")
      /\ UnlockWU(t) => Goes("unlockRI")
  BY DEF LockRI, LockRU, UnlockRU, LockWU, UnlockWU, At, heap
<1>7. /\ UnlockRI(t) => Goes("send")
      /\ UnlockMiss(t) => Goes("fetch")
      /\ LockWI(t) => Goes("alloc")
      /\ UnlockWI(t) => Ends
  BY DEF UnlockRI, UnlockMiss, LockWI, UnlockWI, At, heap, others
<1>8. CASE Walk(t)
  <2>1. CASE Goto(t, "unlockRU") /\ UNCHANGED <<heap, locks>> /\ Keep(t)
    <3>1. Goes("unlockRU")
      BY <1>8, <2>1 DEF Walk, At
    <3> HIDE DEF Goes
    <3> QED
      BY <1>4, <3>1 DEF PCs
  <2>2. CASE /\ cursor[t] \in live /\ tag[cursor[t]] # uri[t]
             /\ cursor' = [cursor EXCEPT ![t] = list.next[cursor[t]]]
             /\ UNCHANGED <<heap, locks, pc, uri, others>>
    <3>1. /\ pc[t] = "walk" /\ pc' = [pc EXCEPT ![t] = "walk"] /\ UNCHANGED heap
          /\ UNCHANGED <<main, ub, uri>>
      BY <1>1, <1>8, <2>2 DEF Walk, At, others
    <3>2. uri[t] \in Uris
      BY <1>2, <3>1 DEF InHand
    <3> QED
      BY <1>1, <2>2, <3>1, <3>2, QuietStep
  <2> QED
    BY <1>8, <2>1, <2>2, UndefinedStep DEF Walk
<1>9. CASE UnlockRU(t)
  <2> HIDE DEF Goes
  <2>1. CASE cursor[t] = Null
    BY <1>4, <1>6, <1>9, <2>1 DEF PCs
  <2>2. CASE cursor[t] # Null
    BY <1>4, <1>6, <1>9, <2>2 DEF PCs
  <2> QED
    BY <2>1, <2>2
<1>10. CASE LockWU(t)
  <2>1. cursor[t] # Null
    BY <1>2, <1>10 DEF LockWU, At, InHand
  <2> HIDE DEF Goes
  <2> QED
    BY <1>4, <1>6, <1>10, <2>1 DEF PCs
<1>11. CASE Send(t)
  <2>1. CASE Finish(t) /\ UNCHANGED <<heap, locks, others>>
    <3>1. Ends
      BY <1>11, <2>1 DEF Send, At, others
    <3> QED
      BY <1>5, <3>1
  <2> QED
    BY <1>11, <2>1, UndefinedStep DEF Send
<1>12. CASE Fetch(t)
  <2>1. CASE SizeOf[uri[t]] < MAX_OBJECT_SIZE
    <3>1. Goes("lockWI")
      BY <1>12, <2>1 DEF Fetch, At
    <3> HIDE DEF Goes
    <3> QED
      BY <1>4, <2>1, <3>1 DEF PCs
  <2>2. CASE ~(SizeOf[uri[t]] < MAX_OBJECT_SIZE)
    <3>1. Ends
      BY <1>12, <2>2 DEF Fetch, At, others
    <3> QED
      BY <1>5, <3>1
  <2> QED
    BY <2>1, <2>2
<1>13. CASE LockWI(t)
  <2>1. SizeOf[uri[t]] < MAX_OBJECT_SIZE
    BY <1>2, <1>13 DEF LockWI, At, InHand
  <2> HIDE DEF Goes
  <2> QED
    BY <1>4, <1>7, <1>13, <2>1 DEF PCs
<1> HIDE DEF Goes, Ends
<1>14. CASE LockRI(t) \/ LockRU(t) \/ UnlockWU(t)
  BY <1>4, <1>6, <1>14 DEF PCs
<1>15. CASE UnlockRI(t) \/ UnlockMiss(t) \/ UnlockWI(t)
  BY <1>4, <1>5, <1>7, <1>15 DEF PCs
<1> QED
  BY <1>3, <1>8, <1>9, <1>10, <1>11, <1>12, <1>13, <1>14, <1>15 DEF Search

-----------------------------------------------------------------------------
(* The steps that change the list.                                           *)

\* No line is twice in q.
Distinct(n, q) == n \in Nat /\ \A i, j \in 1..n : q[i] = q[j] => i = j

\* No line of a list is twice in it.
LEMMA QueueIsDistinct == ASSUME NEW L, NEW n, NEW q, Queue(L, n, q) PROVE Distinct(n, q)
BY DEF Queue, Distinct

\* The lines of a list without its k-th, and with a new one.
LEMMA DropHolds ==
  ASSUME NEW n, NEW q, Distinct(n, q), NEW S, Holds(n, q, S), NEW k \in 1..n
  PROVE  Holds(n - 1, Drop(k, n, q), S \ {q[k]})
<1>1. n \in Nat /\ \A i, j \in 1..n : q[i] = q[j] => i = j
  BY DEF Distinct
<1> DEFINE p == Drop(k, n, q)
<1>2. \A i \in 1..(n - 1) : p[i] = IF i < k THEN q[i] ELSE q[i + 1]
  BY <1>1 DEF Drop
<1> HIDE DEF p
<1>3. ASSUME NEW l \in Lines, l \in S, l # q[k] PROVE \E i \in 1..(n - 1) : p[i] = l
  <2>1. PICK j \in 1..n : q[j] = l
    BY <1>3 DEF Holds
  <2>2. CASE j < k
    BY <1>1, <1>2, <2>1, <2>2
  <2>3. CASE j > k
    <3>1. j - 1 \in 1..(n - 1) /\ ~(j - 1 < k) /\ j - 1 + 1 = j
      BY <1>1, <2>3
    <3>2. p[j - 1] = q[j]
      BY <1>2, <3>1
    <3> QED
      BY <2>1, <3>1, <3>2
  <2> QED
    BY <1>3, <2>1, <2>2, <2>3
<1>4. ASSUME NEW l \in Lines, NEW i \in 1..(n - 1), p[i] = l PROVE l \in S /\ l # q[k]
  <2>1. CASE i < k
    BY <1>1, <1>2, <1>4, <2>1 DEF Holds
  <2>2. CASE ~(i < k)
    <3>1. i + 1 \in 1..n /\ i + 1 # k /\ q[i + 1] = l
      BY <1>1, <1>2, <1>4, <2>2
    <3> QED
      BY <1>1, <3>1 DEF Holds
  <2> QED
    BY <2>1, <2>2
<1> QED
  BY <1>3, <1>4 DEF Holds, p

\* Put holds one line more.
LEMMA PutHolds ==
  ASSUME NEW n \in Nat, NEW q, NEW S, Holds(n, q, S), NEW l \in Lines
  PROVE  Holds(n + 1, Put(l, n, q), S \cup {l})
<1> DEFINE p == Put(l, n, q)
<1>1. p[1] = l /\ \A i \in 2..(n + 1) : p[i] = q[i - 1] /\ i - 1 \in 1..n
  BY DEF Put
<1> HIDE DEF p
<1>2. ASSUME NEW x \in Lines, x \in S PROVE \E i \in 1..(n + 1) : p[i] = x
  <2>1. PICK j \in 1..n : q[j] = x
    BY <1>2 DEF Holds
  <2>2. j + 1 \in 2..(n + 1) /\ j + 1 \in 1..(n + 1) /\ j + 1 - 1 = j
    OBVIOUS
  <2> QED
    BY <1>1, <2>1, <2>2
<1>3. ASSUME NEW x \in Lines, NEW i \in 1..(n + 1), p[i] = x PROVE x \in S \cup {l}
  <2>1. CASE i = 1
    BY <1>1, <1>3, <2>1
  <2>2. CASE i # 1
    BY <1>1, <1>3, <2>2 DEF Holds
  <2> QED
    BY <2>1, <2>2
<1>4. 1 \in 1..(n + 1)
  OBVIOUS
<1> QED
  BY <1>1, <1>2, <1>3, <1>4 DEF Holds, p

\* What a hit does when it takes its line, the k-th, out.
TakenOut(t, n, q, k) ==
  /\ Queue(list, n, q) /\ Holds(n, q, live) /\ Resident = live /\ Moving = {}
  /\ k \in 1..n /\ cursor[t] = q[k]
  /\ Queue(list', n - 1, Drop(k, n, q)) /\ Resident' = live /\ Moving' = {q[k]}
  /\ list'.next[q[k]] = list.next[q[k]] /\ \A x \in Lines \ live : list'.next[x] = list.next[x]
  /\ UNCHANGED <<live, tag, remain_size, uri, cursor, main, ub>>
  /\ pc[t] = "remove" /\ pc' = [pc EXCEPT ![t] = "insert"]

\* MoveOut does that: it never meets a line that is not allocated.
LEMMA TakesOut ==
  ASSUME main = "accepting", IInv, ServingInv, FrontIsFresh, NEW t \in Threads, MoveOut(t)
  PROVE  \E n, q : \E k \in 1..n : TakenOut(t, n, q, k)
<1>1. /\ pc[t] = "remove" /\ pc \in [Threads -> PCs] /\ list \in List /\ live \subseteq Lines
      /\ cursor[t] # Null
  BY DEF MoveOut, At, IInv, LockInv, ThreadTypes, ServingInv, InHand
<1>2. cursor[t] \in live /\ cursor[t] \in Lines
  BY <1>1 DEF IInv, LockInv, FoundStays
<1>3. \A u \in Threads \ {t} : pc[u] \notin {"evict", "insert"}
  BY <1>1, AloneWithList
<1>4. Resident = live /\ Moving = {}
  BY <1>1, <1>3, HandOf, HandsNow
<1>5. PICK n, q : Queue(list, n, q) /\ Holds(n, q, live)
  <2>1. PICK n, q : Queue(list, n, q) /\ Holds(n, q, Resident \ Moving)
    BY DEF ServingInv, Linked
  <2>2. Resident \ Moving = live
    BY <1>4
  <2> QED
    BY <2>1, <2>2
<1>6. PICK k \in 1..n : q[k] = cursor[t]
  BY <1>2, <1>5 DEF Holds
<1>7. k = 1 => list.prev[q[1]] = Null
  <2> SUFFICES ASSUME k = 1 PROVE list.prev[q[1]] = Null
    OBVIOUS
  <2>1. list.head = q[1]
    BY <1>5 DEF Queue
  <2> QED
    BY <1>1, <1>6, <2>1 DEF FrontIsFresh
<1> DEFINE R == remove_cache_line(list, cursor[t])
<1>8. /\ Queue(R, n - 1, Drop(k, n, q)) /\ R.next[q[k]] = list.next[q[k]]
      /\ \A x \in Lines : (\A i \in 1..n : q[i] # x) => R.next[x] = list.next[x]
      /\ RemoveWrites(list, cursor[t]) \subseteq {q[i] : i \in 1..n}
  BY <1>1, <1>5, <1>6, <1>7, Removed
<1>9. {q[i] : i \in 1..n} \subseteq live
  BY <1>5 DEF Queue, Holds
<1>10. Allocated({cursor[t]} \cup RemoveWrites(list, cursor[t]))
  BY <1>2, <1>8, <1>9 DEF Allocated
<1>11. /\ list' = R /\ pc' = [pc EXCEPT ![t] = "insert"]
       /\ UNCHANGED <<live, tag, remain_size, uri, cursor, main, ub>>
  BY <1>10 DEF MoveOut, Goto, Keep, others
<1>12. pc'[t] = "insert" /\ \A u \in Threads \ {t} : pc'[u] \notin {"evict", "insert"}
  BY <1>1, <1>3, <1>11
<1>13. Resident' = live /\ Moving' = {q[k]}
  <2>1. Resident' = live' /\ Moving' = {cursor'[t]}
    BY <1>12, HandOf, HandsNow
  <2> QED
    BY <1>6, <1>11, <2>1
<1>14. ASSUME NEW x \in Lines \ live PROVE list'.next[x] = list.next[x]
  <2>1. \A i \in 1..n : q[i] # x
    BY <1>9
  <2> QED
    BY <1>8, <1>11, <2>1
<1> HIDE DEF R
<1> QED
  BY <1>1, <1>4, <1>5, <1>6, <1>8, <1>11, <1>13, <1>14 DEF TakenOut

\* What it does when it puts the line, l, in front.
PutBack(t, n, q, l) ==
  /\ Queue(list, n, q) /\ Holds(n, q, live \ {l}) /\ Resident = live /\ Moving = {l}
  /\ l \in live /\ cursor[t] = l
  /\ Queue(list', n + 1, Put(l, n, q)) /\ Resident' = live /\ Moving' = {}
  /\ list'.head # Null /\ \A x \in Lines \ live : list'.next[x] = list.next[x]
  /\ UNCHANGED <<live, tag, remain_size, uri, cursor, main, ub>>
  /\ pc[t] = "insert" /\ pc' = [pc EXCEPT ![t] = "unlockWU"]

\* What insert_cache_line writes to, next of the line and prev of the head.
LEMMA InsertedNext ==
  ASSUME NEW L \in List, NEW l \in Lines
  PROVE  \A x \in Lines : x # l => insert_cache_line(L, l).next[x] = L.next[x]
BY DEF insert_cache_line, SetAt, List

\* MoveIn does that, and the lines it writes to are allocated.
LEMMA PutsBack ==
  ASSUME main = "accepting", IInv, ServingInv, NEW t \in Threads, MoveIn(t)
  PROVE  \E n, q, l : PutBack(t, n, q, l)
<1>1. /\ pc[t] = "insert" /\ pc \in [Threads -> PCs] /\ list \in List /\ live \subseteq Lines
      /\ cursor[t] # Null /\ (list.head = Null => list.next[cursor[t]] = Null)
  BY DEF MoveIn, At, IInv, LockInv, ThreadTypes, ServingInv, InHand
<1>2. PICK l : l = cursor[t] /\ l \in live /\ l \in Lines
  BY <1>1 DEF IInv, LockInv, FoundStays
<1>3. \A u \in Threads \ {t} : pc[u] \notin {"evict", "insert"}
  BY <1>1, AloneWithList
<1>4. Resident = live /\ Moving = {l}
  BY <1>1, <1>2, <1>3, HandOf, HandsNow
<1>5. PICK n, q : Queue(list, n, q) /\ Holds(n, q, live \ {l})
  <2>1. PICK n, q : Queue(list, n, q) /\ Holds(n, q, Resident \ Moving)
    BY DEF ServingInv, Linked
  <2>2. Resident \ Moving = live \ {l}
    BY <1>4
  <2> QED
    BY <2>1, <2>2
<1>6. \A i \in 1..n : q[i] # l /\ q[i] \in live
  BY <1>2, <1>5 DEF Queue, Holds
<1> DEFINE I == insert_cache_line(list, l)
<1>7. Queue(I, n + 1, Put(l, n, q))
  BY <1>1, <1>2, <1>5, <1>6, Inserted
<1>8. \A x \in Lines \ live : I.next[x] = list.next[x]
  BY <1>1, <1>2, InsertedNext
<1>9. I.head # Null
  BY <1>1, <1>2, CacheListAssumption DEF insert_cache_line, List
<1>10. Allocated({cursor[t]} \cup InsertWrites(list, cursor[t]))
  <2>1. list.head # Null => list.head \in live
    BY <1>5, <1>6 DEF Queue
  <2> QED
    BY <1>2, <2>1 DEF Allocated, InsertWrites
<1>11. /\ list' = I /\ pc' = [pc EXCEPT ![t] = "unlockWU"]
       /\ UNCHANGED <<live, tag, remain_size, uri, cursor, main, ub>>
  BY <1>2, <1>10 DEF MoveIn, Goto, Keep, others
<1> HIDE DEF I
<1>12. pc'[t] = "unlockWU" /\ \A u \in Threads \ {t} : pc'[u] \notin {"evict", "insert"}
  BY <1>1, <1>3, <1>11
<1>13. Resident' = live /\ Moving' = {}
  <2>1. Resident' = live' /\ Moving' = {}
    BY <1>12, HandOf, HandsNow
  <2> QED
    BY <1>11, <2>1
<1>14. PutBack(t, n, q, l)
  BY <1>1, <1>2, <1>4, <1>5, <1>7, <1>8, <1>9, <1>11, <1>13 DEF PutBack
<1> QED
  BY <1>14

\* A new line is allocated, not yet in the list.
Allotted(t, l) ==
  /\ l \in Lines \ live /\ live' = live \cup {l} /\ tag' = [tag EXCEPT ![l] = uri[t]]
  /\ Resident = live /\ Moving = {} /\ Resident' = live /\ Moving' = {}
  /\ cursor' = [cursor EXCEPT ![t] = l] /\ pc[t] = "alloc" /\ pc' = [pc EXCEPT ![t] = "evict"]
  /\ UNCHANGED <<list, remain_size, uri, main, ub>>

\* Alloc does that.
LEMMA Allots ==
  ASSUME main = "accepting", IInv, ServingInv, NEW t \in Threads, Alloc(t)
  PROVE  \E l : Allotted(t, l)
<1>1. pc[t] = "alloc" /\ pc \in [Threads -> PCs] /\ cursor \in [Threads -> Lines \cup {Null}]
  BY DEF Alloc, At, IInv, LockInv, ThreadTypes
<1>2. PICK l \in Lines \ live : /\ live' = live \cup {l} /\ tag' = [tag EXCEPT ![l] = uri[t]]
                                /\ cursor' = [cursor EXCEPT ![t] = l]
  BY DEF Alloc
<1>3. pc' = [pc EXCEPT ![t] = "evict"] /\ UNCHANGED <<list, remain_size, uri, main, ub>>
  BY DEF Alloc, Goto, others
<1>4. \A u \in Threads \ {t} : pc[u] \notin {"evict", "insert"}
  BY <1>1, AloneWithList
<1>5. pc'[t] = "evict" /\ cursor'[t] = l /\ \A u \in Threads \ {t} : pc'[u] \notin {"evict", "insert"}
  BY <1>1, <1>2, <1>3, <1>4
<1>6. Resident = live /\ Moving = {}
  BY <1>1, <1>4, HandOf, HandsNow
<1>7. Resident' = live' \ {l} /\ Moving' = {}
  <2>1. Resident' = live' \ {cursor'[t]} /\ Moving' = {}
    <3>1. PICK lines, places, cursors : lines = live' /\ places = pc' /\ cursors = cursor'
      OBVIOUS
    <3>2. places[t] = "evict" /\ \A u \in Threads \ {t} : places[u] \notin {"evict", "insert"}
      BY <1>5, <3>1
    <3>3. /\ ResidentOf(lines, places, cursors) = lines \ {cursors[t]}
          /\ MovingOf(places, cursors) = {}
      BY <3>2 DEF ResidentOf, MovingOf
    <3> QED
      BY <3>1, <3>3, HandsNow
  <2> QED
    BY <1>5, <2>1
<1>8. live' \ {l} = live
  BY <1>2
<1> QED
  BY <1>1, <1>2, <1>3, <1>6, <1>7, <1>8 DEF Allotted

\* What a thread that adds the line c finds.
Adder(t, n, q, c) ==
  /\ Queue(list, n, q) /\ Holds(n, q, live \ {c}) /\ Resident = live \ {c} /\ Moving = {}
  /\ c \in live /\ cursor[t] = c /\ tag[c] = uri[t] /\ list.next[c] = Null
  /\ pc[t] = "evict" /\ remain_size = MAX_CACHE_SIZE - SpaceOf(tag, live \ {c})
  /\ uri[t] \in Uris /\ SizeOf[uri[t]] \in Nat /\ SizeOf[uri[t]] < MAX_OBJECT_SIZE

\* A thread at evict_cache_line finds that.
LEMMA Adds ==
  ASSUME main = "accepting", IInv, ServingInv, NEW t \in Threads, pc[t] = "evict"
  PROVE  \E n, q, c : Adder(t, n, q, c)
<1>1. PICK c : c = cursor[t]
  OBVIOUS
<1>2. /\ c \in live /\ tag[c] = uri[t] /\ list.next[c] = Null
      /\ uri[t] \in Uris /\ SizeOf[uri[t]] < MAX_OBJECT_SIZE
  BY <1>1 DEF ServingInv, InHand
<1>3. \A u \in Threads \ {t} : pc[u] \notin {"evict", "insert"}
  BY AloneWithList
<1>4. Resident = live \ {c} /\ Moving = {}
  <2>1. ResidentOf(live, pc, cursor) = live \ {cursor[t]} /\ MovingOf(pc, cursor) = {}
    BY <1>3 DEF ResidentOf, MovingOf
  <2> QED
    BY <1>1, <2>1, HandsNow
<1>5. PICK n, q : Queue(list, n, q) /\ Holds(n, q, live \ {c})
  <2>1. PICK n, q : Queue(list, n, q) /\ Holds(n, q, Resident \ Moving)
    BY DEF ServingInv, Linked
  <2>2. Resident \ Moving = live \ {c}
    BY <1>4
  <2> QED
    BY <2>1, <2>2
<1>6. remain_size = MAX_CACHE_SIZE - SpaceOf(tag, live \ {c})
  BY <1>4 DEF ServingInv, Accounted
<1>7. SizeOf[uri[t]] \in Nat
  BY <1>2, ProxyCacheAssumption
<1>8. Adder(t, n, q, c)
  BY <1>1, <1>2, <1>4, <1>5, <1>6, <1>7 DEF Adder
<1> QED
  BY <1>8

\* As two objects fit into the cache, the only line is never evicted for another.
LEMMA TwoFit ==
  ASSUME live \subseteq Lines, LinesKept, NEW t \in Threads, NEW n, NEW q, NEW c, Adder(t, n, q, c),
         remain_size < SizeOf[uri[t]]
  PROVE  n > 1
<1>1. n \in Nat /\ \A l \in live \ {c} : l \in Lines /\ \E i \in 1..n : q[i] = l
  BY DEF Adder, Queue, Holds
<1>2. /\ MAX_CACHE_SIZE \in Nat /\ MAX_OBJECT_SIZE \in Nat
      /\ 2 * (MAX_OBJECT_SIZE - 1) <= MAX_CACHE_SIZE
  BY ProxyCacheAssumption
<1>3. PICK size : size = SizeOf[uri[t]] /\ size \in Nat /\ size < MAX_OBJECT_SIZE
  BY DEF Adder
<1>4. ASSUME n = 0 PROVE FALSE
  <2>1. live \ {c} = {}
    BY <1>1, <1>4
  <2>2. remain_size = MAX_CACHE_SIZE - SpaceOf(tag, {})
    BY <2>1 DEF Adder
  <2>3. remain_size = MAX_CACHE_SIZE
    BY <1>2, <2>2, NoSpace
  <2> QED
    BY <1>2, <1>3, <2>3
<1>5. ASSUME n = 1 PROVE FALSE
  <2>1. PICK z : z = q[1]
    OBVIOUS
  <2>2. z \in live \ {c} /\ live \ {c} = {z}
    <3>1. z \in Lines
      BY <1>5, <2>1 DEF Adder, Queue
    <3>2. z \in live \ {c}
      BY <1>5, <2>1, <3>1 DEF Adder, Holds
    <3> QED
      BY <1>1, <1>5, <2>1, <3>2
  <2>3. tag[z] \in Uris /\ SizeOf[tag[z]] < MAX_OBJECT_SIZE
    BY <2>2 DEF LinesKept
  <2>4. PICK S : S = {}
    OBVIOUS
  <2>5. z \notin S /\ IsFiniteSet(S) /\ Tagged(tag, S \cup {z}) /\ SameTags(tag, tag, S)
    BY <2>2, <2>3, <2>4, FS_EmptySet DEF Tagged, SameTags
  <2>6. /\ SpaceOf(tag, S \cup {z}) = SizeOf[tag[z]] + SpaceOf(tag, S) /\ SizeOf[tag[z]] \in Nat
        /\ remain_size = MAX_CACHE_SIZE - SpaceOf(tag, S \cup {z})
    <3>1. SpaceOf(tag, S \cup {z}) = SizeOf[tag[z]] + SpaceOf(tag, S) /\ SizeOf[tag[z]] \in Nat
      BY <2>5, MoreSpace
    <3>2. S \cup {z} = live \ {c}
      BY <2>2, <2>4
    <3>3. remain_size = MAX_CACHE_SIZE - SpaceOf(tag, live \ {c})
      BY DEF Adder
    <3> QED
      BY <3>1, <3>2, <3>3
  <2>7. PICK other : other = SizeOf[tag[z]] /\ other \in Nat /\ other < MAX_OBJECT_SIZE
    BY <2>3, <2>6
  <2>8. remain_size = MAX_CACHE_SIZE - other
    BY <2>4, <2>6, <2>7, NoSpace
  <2> QED
    BY <1>2, <1>3, <2>7, <2>8
<1> QED
  BY <1>1, <1>4, <1>5

\* The last line goes.
Evicted(t, n, q, c) ==
  /\ Adder(t, n, q, c) /\ n > 1 /\ q[n] \in live \ {c} /\ remain_size < SizeOf[uri[t]]
  /\ Queue(list', n - 1, Drop(n, n, q)) /\ live' = live \ {q[n]}
  /\ Resident' = live' \ {c} /\ Moving' = {}
  /\ tag' = FreedTag(q[n]) /\ remain_size' = remain_size + SizeOf[tag[q[n]]]
  /\ \A x \in Lines \ live' : list'.next[x] = Null
  /\ list'.next[c] = Null
  /\ UNCHANGED <<pc, uri, cursor, main, ub>>

\* Evict does that: the tail and its neighbour are allocated.
LEMMA Evicts ==
  ASSUME main = "accepting", IInv, ServingInv, NEW t \in Threads, Evict(t)
  PROVE  \E n, q, c : Evicted(t, n, q, c)
<1>1. /\ pc[t] = "evict" /\ list \in List /\ live \subseteq Lines
      /\ remain_size < SizeOf[uri[t]] /\ LinesKept
  BY DEF Evict, At, IInv, LockInv, ThreadTypes, ServingInv
<1>2. PICK n, q, c : Adder(t, n, q, c)
  BY <1>1, Adds
<1>3. n > 1 /\ n \in Nat
  BY <1>1, <1>2, TwoFit DEF Adder, Queue
<1>4. Queue(list, n, q) /\ Holds(n, q, live \ {c}) /\ n \in 1..n /\ c \in live
  BY <1>2, <1>3 DEF Adder
<1>5. PICK z : z = q[n] /\ z = list.tail
  BY <1>3, <1>4 DEF Queue
<1>6. z \in Lines /\ z \in live \ {c} /\ \A i \in 1..n : q[i] \in live \ {c}
  BY <1>4, <1>5 DEF Queue, Holds
<1> DEFINE R == remove_cache_line(list, z)
<1>7. /\ Queue(R, n - 1, Drop(n, n, q))
      /\ R.next[z] = list.next[z]
      /\ \A x \in Lines : (\A i \in 1..n : q[i] # x) => R.next[x] = list.next[x]
      /\ RemoveWrites(list, z) \subseteq {q[i] : i \in 1..n}
  <2>1. n # 1
    BY <1>3
  <2>2. /\ Queue(remove_cache_line(list, q[n]), n - 1, Drop(n, n, q))
        /\ remove_cache_line(list, q[n]).next[q[n]] = list.next[q[n]]
        /\ \A x \in Lines : (\A i \in 1..n : q[i] # x)
                               => remove_cache_line(list, q[n]).next[x] = list.next[x]
        /\ RemoveWrites(list, q[n]) \subseteq {q[i] : i \in 1..n}
    BY <1>1, <1>4, <2>1, Removed
  <2> QED
    BY <1>5, <2>2
<1>8. Allocated({list.tail} \cup RemoveWrites(list, list.tail))
  BY <1>5, <1>6, <1>7 DEF Allocated
<1>9. R \in List
  BY <1>1, <1>6, ListTypes
<1>10. \A i \in 1..(n - 1) : Drop(n, n, q)[i] # z
  <2> SUFFICES ASSUME NEW i \in 1..(n - 1) PROVE Drop(n, n, q)[i] # z
    OBVIOUS
  <2>1. Drop(n, n, q)[i] = q[i] /\ i \in 1..n /\ i # n
    BY <1>3 DEF Drop
  <2> QED
    BY <1>4, <1>5, <2>1 DEF Queue
<1> HIDE DEF R
<1>11. /\ Queue(FreedLinks(R, z), n - 1, Drop(n, n, q))
       /\ \A x \in Lines : FreedLinks(R, z).next[x] = IF x = z THEN Null ELSE R.next[x]
  BY <1>6, <1>7, <1>9, <1>10, FreedBeside
<1>12. /\ list' = FreedLinks(R, z) /\ live' = live \ {z} /\ tag' = FreedTag(z)
       /\ remain_size' = remain_size + SizeOf[tag[z]]
       /\ UNCHANGED <<pc, uri, cursor, main, ub>>
  BY <1>5, <1>8 DEF Evict, Keep, others, R
<1>13. ASSUME NEW x \in Lines, x \notin live \/ x = c PROVE list'.next[x] = Null
  <2>1. x # z /\ \A i \in 1..n : q[i] # x
    BY <1>6, <1>13
  <2>2. list.next[x] = Null
    BY <1>1, <1>2, <1>13 DEF LinesKept, Adder
  <2> QED
    BY <1>7, <1>11, <1>12, <2>1, <2>2
<1>14. list'.next[c] = Null /\ \A x \in Lines \ live' : list'.next[x] = Null
  BY <1>1, <1>4, <1>6, <1>11, <1>12, <1>13
<1>15. Resident' = live' \ {c} /\ Moving' = {}
  <2>1. \A u \in Threads \ {t} : pc'[u] \notin {"evict", "insert"}
    BY <1>1, <1>12, AloneWithList
  <2>2. pc'[t] = "evict" /\ cursor'[t] = c
    BY <1>1, <1>2, <1>12 DEF Adder
  <2>3. Resident' = live' \ {cursor'[t]} /\ Moving' = {}
    <3>1. PICK lines, places, cursors : lines = live' /\ places = pc' /\ cursors = cursor'
      OBVIOUS
    <3>2. places[t] = "evict" /\ \A u \in Threads \ {t} : places[u] \notin {"evict", "insert"}
      BY <2>1, <2>2, <3>1
    <3>3. /\ ResidentOf(lines, places, cursors) = lines \ {cursors[t]}
          /\ MovingOf(places, cursors) = {}
      BY <3>2 DEF ResidentOf, MovingOf
    <3> QED
      BY <3>1, <3>3, HandsNow
  <2> QED
    BY <2>2, <2>3
<1>16. Queue(list', n - 1, Drop(n, n, q))
  BY <1>11, <1>12
<1>17. Evicted(t, n, q, c)
  BY <1>1, <1>2, <1>3, <1>5, <1>6, <1>12, <1>14, <1>15, <1>16 DEF Evicted
<1> QED
  BY <1>17

\* The new line comes to the front, and there is room for it.
Placed(t, n, q, c) ==
  /\ Adder(t, n, q, c) /\ SizeOf[uri[t]] <= remain_size
  /\ Queue(list', n + 1, Put(c, n, q)) /\ Resident' = live /\ Moving' = {}
  /\ remain_size' = remain_size - SizeOf[uri[t]]
  /\ \A x \in Lines \ live : list'.next[x] = list.next[x]
  /\ UNCHANGED <<live, tag, uri, cursor, main, ub>>
  /\ pc' = [pc EXCEPT ![t] = "unlockWI"]

\* Place does that; were nothing left to evict, the line would fit all the same.
LEMMA Places ==
  ASSUME main = "accepting", IInv, ServingInv, NEW t \in Threads, Place(t)
  PROVE  \E n, q, c : Placed(t, n, q, c)
<1>1. /\ pc[t] = "evict" /\ pc \in [Threads -> PCs] /\ list \in List /\ live \subseteq Lines
      /\ LinesKept
  BY DEF Place, At, IInv, LockInv, ThreadTypes, ServingInv
<1>2. PICK n, q, c : Adder(t, n, q, c)
  BY <1>1, Adds
<1>3. /\ Queue(list, n, q) /\ Holds(n, q, live \ {c}) /\ c \in live /\ c \in Lines
      /\ list.next[c] = Null /\ cursor[t] = c /\ n \in Nat
  BY <1>1, <1>2 DEF Adder, Queue
<1>4. \A i \in 1..n : q[i] \in live \ {c}
  BY <1>3 DEF Queue, Holds
<1>5. SizeOf[uri[t]] <= remain_size
  <2>1. CASE remain_size >= SizeOf[uri[t]]
    <3>1. remain_size \in Int /\ SizeOf[uri[t]] \in Int
      <4>1. IsFiniteSet(live \ {c}) /\ \A l \in live \ {c} : tag[l] \in Uris /\ tag[l] = tag[l]
        BY <1>1, FS_RemoveElement DEF LinesKept
      <4>2. SpaceOf(tag, live \ {c}) \in Nat
        BY <4>1, SameSpace
      <4> QED
        <5>1. remain_size = MAX_CACHE_SIZE - SpaceOf(tag, live \ {c}) /\ SizeOf[uri[t]] \in Nat
          BY <1>2 DEF Adder
        <5>2. MAX_CACHE_SIZE \in Nat
          BY ProxyCacheAssumption
        <5> HIDE DEF SpaceOf
        <5> QED
          BY <4>2, <5>1, <5>2
    <3> QED
      BY <2>1, <3>1
  <2>2. CASE list.tail = Null
    <3>1. n = 0
      BY <1>3, <2>2, CacheListAssumption DEF Queue
    <3>2. live \ {c} = {}
      BY <1>1, <1>3, <3>1 DEF Holds
    <3>3. remain_size = MAX_CACHE_SIZE - SpaceOf(tag, {})
      BY <1>2, <3>2 DEF Adder
    <3>4. remain_size = MAX_CACHE_SIZE /\ MAX_CACHE_SIZE \in Nat /\ MAX_OBJECT_SIZE \in Nat
          /\ 2 * (MAX_OBJECT_SIZE - 1) <= MAX_CACHE_SIZE
      <4>1. /\ MAX_CACHE_SIZE \in Nat /\ MAX_OBJECT_SIZE \in Nat
            /\ 2 * (MAX_OBJECT_SIZE - 1) <= MAX_CACHE_SIZE
        BY ProxyCacheAssumption
      <4>2. remain_size = MAX_CACHE_SIZE - 0
        BY <3>3, NoSpace
      <4> QED
        BY <4>1, <4>2
    <3>5. PICK size : size = SizeOf[uri[t]] /\ size \in Nat /\ size < MAX_OBJECT_SIZE
      BY <1>2 DEF Adder
    <3> QED
      BY <3>4, <3>5
  <2> QED
    BY <2>1, <2>2 DEF Place
<1> DEFINE I == insert_cache_line(list, c)
<1>6. Queue(I, n + 1, Put(c, n, q))
  BY <1>1, <1>3, <1>4, Inserted
<1>7. \A x \in Lines \ live : I.next[x] = list.next[x]
  BY <1>1, <1>3, InsertedNext
<1>8. Allocated(InsertWrites(list, cursor[t]))
  <2>1. list.head # Null => list.head \in live
    BY <1>3, <1>4 DEF Queue
  <2> QED
    BY <2>1 DEF Allocated, InsertWrites
<1>9. /\ list' = I /\ remain_size' = remain_size - SizeOf[uri[t]]
      /\ pc' = [pc EXCEPT ![t] = "unlockWI"] /\ UNCHANGED <<live, tag, uri, cursor, main, ub>>
  BY <1>3, <1>8 DEF Place, Goto, Keep, others
<1> HIDE DEF I
<1>10. Resident' = live /\ Moving' = {}
  <2>1. pc'[t] = "unlockWI" /\ \A u \in Threads \ {t} : pc'[u] \notin {"evict", "insert"}
    BY <1>1, <1>9, AloneWithList
  <2>2. Resident' = live' /\ Moving' = {}
    BY <2>1, HandOf, HandsNow
  <2> QED
    BY <1>9, <2>2
<1>11. Placed(t, n, q, c)
  BY <1>2, <1>5, <1>6, <1>7, <1>9, <1>10 DEF Placed
<1> QED
  BY <1>11

\* The other threads have in hand what they had.
LEMMA OtherHands ==
  ASSUME main = "accepting", ServingInv, NEW t \in Threads, NEW u \in Threads \ {t},
         pc[u] \notin {"evict", "insert"}, pc'[u] = pc[u], uri'[u] = uri[u], cursor'[u] = cursor[u]
  PROVE  InHand(u)'
<1>1. InHand(u)
  BY DEF ServingInv
<1> QED
  BY <1>1 DEF InHand

\* What is to be shown of a step that changes the list.
LEMMA ServesOn ==
  ASSUME main = "accepting", IInv, ServingInv, NEW t \in Threads, main' = main, ub' = ub,
         pc[t] \in {"alloc", "evict", "remove", "insert"},
         \A u \in Threads \ {t} : pc'[u] = pc[u] /\ uri'[u] = uri[u] /\ cursor'[u] = cursor[u],
         NEW n, NEW q, NEW S, Queue(list', n, q), Holds(n, q, S), S = Resident' \ Moving',
         LinesKept', Accounted', InHand(t)'
  PROVE  ServingInv'
<1>1. Linked'
  BY DEF Linked
<1>2. ASSUME NEW u \in Threads PROVE InHand(u)'
  <2>1. CASE u # t
    <3>1. pc[u] \notin {"evict", "insert"}
      BY <2>1, AloneWithList
    <3> QED
      BY <2>1, <3>1, OtherHands
  <2> QED
    BY <2>1
<1> QED
  BY <1>1, <1>2 DEF ServingInv

\* A line taken out leaves the rest linked.
LEMMA MoveOutServes ==
  ASSUME main = "accepting", IInv, ServingInv, FrontIsFresh, NEW t \in Threads, MoveOut(t)
  PROVE  ServingInv'
<1>1. PICK n, q : \E k \in 1..n : TakenOut(t, n, q, k)
  BY TakesOut
<1>2. PICK k \in 1..n : TakenOut(t, n, q, k)
  BY <1>1
<1>3. /\ Queue(list, n, q) /\ Holds(n, q, live) /\ Queue(list', n - 1, Drop(k, n, q))
      /\ Resident' \ Moving' = live \ {q[k]} /\ Resident' = live /\ Resident = live
      /\ cursor[t] = q[k]
  BY <1>2 DEF TakenOut
<1>4. Holds(n - 1, Drop(k, n, q), live \ {q[k]})
  BY <1>3, DropHolds, QueueIsDistinct
<1>5. /\ UNCHANGED <<live, tag, remain_size, uri, cursor, main, ub>>
      /\ list'.next[q[k]] = list.next[q[k]] /\ \A x \in Lines \ live : list'.next[x] = list.next[x]
      /\ pc[t] = "remove" /\ pc' = [pc EXCEPT ![t] = "insert"] /\ pc \in [Threads -> PCs]
  BY <1>2 DEF TakenOut, IInv, LockInv, ThreadTypes
<1>6. LinesKept'
  BY <1>5 DEF LinesKept, ServingInv
<1>7. Accounted'
  <2>1. PICK g, S, r : g = tag /\ S = live /\ r = remain_size
    OBVIOUS
  <2>2. r = MAX_CACHE_SIZE - SpaceOf(g, S)
    BY <1>3, <2>1 DEF Accounted, ServingInv
  <2> QED
    BY <1>3, <1>5, <2>1, <2>2 DEF Accounted
<1>8. InHand(t)'
  <2>1. InHand(t)
    BY DEF ServingInv
  <2>2. pc'[t] = "insert" /\ uri'[t] \in Uris /\ cursor'[t] # Null /\ cursor'[t] = q[k]
    BY <1>3, <1>5, <2>1 DEF InHand
  <2>3. ASSUME list'.head = Null PROVE list'.next[q[k]] = Null
    <3>1. n \in Nat /\ k \in Nat /\ 1 <= k /\ k <= n
      BY <1>3 DEF Queue
    <3>2. n = 1
      <4> SUFFICES ASSUME n - 1 # 0 PROVE FALSE
        BY <3>1
      <4>1. PICK p : p = Drop(k, n, q) /\ list'.head = p[1] /\ p \in [1..(n - 1) -> Lines]
        BY <1>3 DEF Queue
      <4>2. p[1] \in Lines
        BY <3>1, <4>1
      <4> QED
        BY <2>3, <4>1, <4>2, CacheListAssumption
    <3>3. list.next[q[k]] = Null
      BY <1>3, <3>1, <3>2 DEF Queue
    <3> QED
      BY <1>5, <3>3
  <2> QED
    BY <2>2, <2>3 DEF InHand
<1>9. \A u \in Threads \ {t} : pc'[u] = pc[u] /\ uri'[u] = uri[u] /\ cursor'[u] = cursor[u]
  BY <1>5
<1> QED
  BY <1>3, <1>4, <1>5, <1>6, <1>7, <1>8, <1>9, ServesOn

\* Put back, it is the first of all.
LEMMA MoveInServes ==
  ASSUME main = "accepting", IInv, ServingInv, NEW t \in Threads, MoveIn(t)
  PROVE  ServingInv'
<1>1. PICK n, q, l : PutBack(t, n, q, l)
  BY PutsBack
<1>2. /\ Queue(list, n, q) /\ Holds(n, q, live \ {l}) /\ Queue(list', n + 1, Put(l, n, q))
      /\ Resident' = live /\ Resident = live /\ Moving' = {} /\ l \in live /\ n \in Nat
      /\ live \subseteq Lines
  BY <1>1 DEF PutBack, Queue, IInv, LockInv, ThreadTypes
<1>3. Holds(n + 1, Put(l, n, q), live)
  <2>1. (live \ {l}) \cup {l} = live /\ l \in Lines
    BY <1>2
  <2>2. Holds(n + 1, Put(l, n, q), (live \ {l}) \cup {l})
    BY <1>2, <2>1, PutHolds
  <2> QED
    BY <2>1, <2>2
<1>4. /\ UNCHANGED <<live, tag, remain_size, uri, cursor, main, ub>>
      /\ \A x \in Lines \ live : list'.next[x] = list.next[x]
      /\ pc[t] = "insert" /\ pc' = [pc EXCEPT ![t] = "unlockWU"] /\ pc \in [Threads -> PCs]
  BY <1>1 DEF PutBack, IInv, LockInv, ThreadTypes
<1>5. LinesKept'
  BY <1>4 DEF LinesKept, ServingInv
<1>6. Accounted'
  <2>1. PICK g, S, r : g = tag /\ S = live /\ r = remain_size
    OBVIOUS
  <2>2. r = MAX_CACHE_SIZE - SpaceOf(g, S)
    BY <1>2, <2>1 DEF Accounted, ServingInv
  <2> QED
    BY <1>2, <1>4, <2>1, <2>2 DEF Accounted
<1>7. InHand(t)'
  <2>1. InHand(t)
    BY DEF ServingInv
  <2> QED
    BY <1>4, <2>1 DEF InHand
<1>8. \A u \in Threads \ {t} : pc'[u] = pc[u] /\ uri'[u] = uri[u] /\ cursor'[u] = cursor[u]
  BY <1>4
<1>9. live = Resident' \ Moving'
  BY <1>2
<1> QED
  BY <1>2, <1>3, <1>4, <1>5, <1>6, <1>7, <1>8, <1>9, ServesOn

\* A new line changes neither the list nor the space.
LEMMA AllocServes ==
  ASSUME main = "accepting", IInv, ServingInv, NEW t \in Threads, Alloc(t)
  PROVE  ServingInv'
<1>1. PICK l : Allotted(t, l)
  BY Allots
<1>2. /\ l \in Lines \ live /\ live' = live \cup {l} /\ tag' = [tag EXCEPT ![l] = uri[t]]
      /\ Resident = live /\ Moving = {} /\ Resident' = live /\ Moving' = {}
      /\ cursor' = [cursor EXCEPT ![t] = l] /\ pc[t] = "alloc" /\ pc' = [pc EXCEPT ![t] = "evict"]
      /\ UNCHANGED <<list, remain_size, uri, main, ub>>
  BY <1>1 DEF Allotted
<1>3. /\ pc \in [Threads -> PCs] /\ tag \in [Lines -> Uris \cup {NoUri}] /\ live \subseteq Lines
      /\ cursor \in [Threads -> Lines \cup {Null}]
  BY DEF IInv, LockInv, ThreadTypes
<1>4. LinesKept /\ Linked /\ Accounted /\ InHand(t)
  BY DEF ServingInv
<1>5. uri[t] \in Uris /\ SizeOf[uri[t]] < MAX_OBJECT_SIZE
  BY <1>2, <1>4 DEF InHand
<1>6. tag'[l] = uri[t] /\ \A x \in live : tag'[x] = tag[x]
  BY <1>2, <1>3
<1>7. PICK n, q : Queue(list, n, q) /\ Holds(n, q, live)
  <2>1. PICK n, q : Queue(list, n, q) /\ Holds(n, q, Resident \ Moving)
    BY <1>4 DEF Linked
  <2>2. Resident \ Moving = live
    BY <1>2
  <2> QED
    BY <2>1, <2>2
<1>8. LinesKept'
  <2>1. IsFiniteSet(live \cup {l})
    BY <1>4, FS_AddElement DEF LinesKept
  <2> QED
    BY <1>2, <1>4, <1>5, <1>6, <2>1 DEF LinesKept
<1>9. Accounted'
  <2>1. PICK g, h, S, r : g = tag /\ h = tag' /\ S = live /\ r = remain_size
    OBVIOUS
  <2>2. r = MAX_CACHE_SIZE - SpaceOf(g, S)
    BY <1>2, <1>4, <2>1 DEF Accounted
  <2>3. IsFiniteSet(S) /\ \A x \in S : g[x] \in Uris /\ h[x] = g[x]
    BY <1>4, <1>6, <2>1 DEF LinesKept
  <2>4. SpaceOf(g, S) = SpaceOf(h, S)
    BY <2>3, SameSpace
  <2> QED
    BY <1>2, <2>1, <2>2, <2>4 DEF Accounted
<1>10. InHand(t)'
  <2>1. list.next[l] = Null
    BY <1>2, <1>4 DEF LinesKept
  <2>2. pc'[t] = "evict" /\ cursor'[t] = l /\ uri'[t] = uri[t] /\ l \in live'
    BY <1>2, <1>3
  <2> QED
    BY <1>2, <1>5, <1>6, <2>1, <2>2 DEF InHand
<1>11. \A u \in Threads \ {t} : pc'[u] = pc[u] /\ uri'[u] = uri[u] /\ cursor'[u] = cursor[u]
  BY <1>2, <1>3
<1>12. live = Resident' \ Moving' /\ Queue(list', n, q)
  BY <1>2, <1>7
<1> QED
  BY <1>2, <1>7, <1>8, <1>9, <1>10, <1>11, <1>12, ServesOn

\* An evicted line gives back its space.
LEMMA EvictServes ==
  ASSUME main = "accepting", IInv, ServingInv, NEW t \in Threads, Evict(t)
  PROVE  ServingInv'
<1>1. PICK n, q, c : Evicted(t, n, q, c)
  BY Evicts
<1>2. PICK z : z = q[n]
  OBVIOUS
<1>3. /\ Queue(list, n, q) /\ Holds(n, q, live \ {c}) /\ n \in Nat /\ n > 1 /\ n \in 1..n
      /\ c \in live /\ cursor[t] = c /\ tag[c] = uri[t] /\ pc[t] = "evict" /\ z \in live \ {c}
      /\ uri[t] \in Uris /\ SizeOf[uri[t]] < MAX_OBJECT_SIZE
      /\ remain_size = MAX_CACHE_SIZE - SpaceOf(tag, live \ {c})
  BY <1>1, <1>2 DEF Evicted, Adder, Queue
<1>4. /\ Queue(list', n - 1, Drop(n, n, q)) /\ live' = live \ {z}
      /\ Resident' = live' \ {c} /\ Moving' = {}
      /\ tag' = FreedTag(z) /\ remain_size' = remain_size + SizeOf[tag[z]]
      /\ \A x \in Lines \ live' : list'.next[x] = Null
      /\ list'.next[c] = Null
      /\ UNCHANGED <<pc, uri, cursor, main, ub>>
  BY <1>1, <1>2 DEF Evicted
<1>5. LinesKept /\ live \subseteq Lines /\ tag \in [Lines -> Uris \cup {NoUri}]
  BY DEF ServingInv, IInv, LockInv, ThreadTypes
<1>6. \A x \in live \ {z} : tag'[x] = tag[x]
  BY <1>4, <1>5 DEF FreedTag
<1>7. PICK S : S = live' \ {c} /\ S \cup {z} = live \ {c} /\ z \notin S /\ S = (live \ {c}) \ {z}
  BY <1>3, <1>4
<1>8. Holds(n - 1, Drop(n, n, q), S)
  BY <1>2, <1>3, <1>7, DropHolds, QueueIsDistinct
<1>9. IsFiniteSet(live') /\ IsFiniteSet(S)
  BY <1>4, <1>5, <1>7, FS_RemoveElement DEF LinesKept
<1>10. LinesKept'
  BY <1>4, <1>5, <1>6, <1>9 DEF LinesKept
<1>11. Accounted'
  <2>1. PICK g, h, r : g = tag /\ h = tag' /\ r = remain_size
    OBVIOUS
  <2>2. Tagged(g, S \cup {z}) /\ SameTags(h, g, S)
    BY <1>5, <1>6, <1>7, <2>1 DEF LinesKept, Tagged, SameTags
  <2>3. /\ SpaceOf(g, S \cup {z}) = SizeOf[g[z]] + SpaceOf(h, S)
        /\ SpaceOf(h, S) \in Nat /\ SizeOf[g[z]] \in Nat
    BY <1>7, <1>9, <2>2, MoreSpace
  <2>4. r = MAX_CACHE_SIZE - SpaceOf(g, S \cup {z})
    BY <1>3, <1>7, <2>1
  <2>5. PICK size, sum : size = SizeOf[g[z]] /\ sum = SpaceOf(h, S) /\ size \in Nat /\ sum \in Nat
    BY <2>3
  <2>6. MAX_CACHE_SIZE \in Nat
    BY ProxyCacheAssumption
  <2>7. r + size = MAX_CACHE_SIZE - sum
    BY <2>3, <2>4, <2>5, <2>6
  <2>8. remain_size' = r + size
    BY <1>4, <2>1, <2>5
  <2>9. Resident' = S /\ tag' = h
    BY <1>4, <1>7, <2>1
  <2> QED
    BY <2>5, <2>7, <2>8, <2>9 DEF Accounted
<1>12. InHand(t)'
  BY <1>3, <1>4, <1>6 DEF InHand
<1>13. S = Resident' \ Moving'
  BY <1>4, <1>7
<1> QED
  BY <1>3, <1>4, <1>8, <1>10, <1>11, <1>12, <1>13, ServesOn

\* A line that comes in takes its space.
LEMMA PlaceServes ==
  ASSUME main = "accepting", IInv, ServingInv, NEW t \in Threads, Place(t)
  PROVE  ServingInv'
<1>1. PICK n, q, c : Placed(t, n, q, c)
  BY Places
<1>2. /\ Queue(list, n, q) /\ Holds(n, q, live \ {c}) /\ n \in Nat
      /\ c \in live /\ cursor[t] = c /\ tag[c] = uri[t] /\ pc[t] = "evict"
      /\ uri[t] \in Uris /\ remain_size = MAX_CACHE_SIZE - SpaceOf(tag, live \ {c})
  BY <1>1 DEF Placed, Adder, Queue
<1>3. /\ Queue(list', n + 1, Put(c, n, q)) /\ Resident' = live /\ Moving' = {}
      /\ remain_size' = remain_size - SizeOf[uri[t]]
      /\ \A x \in Lines \ live : list'.next[x] = list.next[x]
      /\ UNCHANGED <<live, tag, uri, cursor, main, ub>>
      /\ pc' = [pc EXCEPT ![t] = "unlockWI"]
  BY <1>1 DEF Placed
<1>4. LinesKept /\ live \subseteq Lines /\ pc \in [Threads -> PCs]
  BY DEF ServingInv, IInv, LockInv, ThreadTypes
<1>5. PICK S : S = live \ {c} /\ S \cup {c} = live /\ c \notin S
  BY <1>2
<1>6. Holds(n + 1, Put(c, n, q), live)
  <2>1. c \in Lines /\ Holds(n, q, S)
    BY <1>2, <1>4, <1>5
  <2>2. Holds(n + 1, Put(c, n, q), S \cup {c})
    BY <1>2, <2>1, PutHolds
  <2> QED
    BY <1>5, <2>2
<1>7. LinesKept'
  BY <1>3, <1>4 DEF LinesKept
<1>8. Accounted'
  <2>1. PICK g, r : g = tag /\ r = remain_size
    OBVIOUS
  <2>2. IsFiniteSet(S) /\ Tagged(g, S \cup {c}) /\ SameTags(g, g, S)
    BY <1>4, <1>5, <2>1, FS_RemoveElement DEF LinesKept, Tagged, SameTags
  <2>3. /\ SpaceOf(g, S \cup {c}) = SizeOf[g[c]] + SpaceOf(g, S)
        /\ SpaceOf(g, S) \in Nat /\ SizeOf[g[c]] \in Nat
    BY <1>5, <2>2, MoreSpace
  <2>4. r = MAX_CACHE_SIZE - SpaceOf(g, S)
    BY <1>2, <1>5, <2>1
  <2>5. PICK size, sum : size = SizeOf[g[c]] /\ sum = SpaceOf(g, S) /\ size \in Nat /\ sum \in Nat
    BY <2>3
  <2>6. MAX_CACHE_SIZE \in Nat
    BY ProxyCacheAssumption
  <2>7. r - size = MAX_CACHE_SIZE - (size + sum)
    BY <2>4, <2>5, <2>6
  <2>8. remain_size' = r - size
    BY <1>2, <1>3, <2>1, <2>5
  <2>9. SpaceOf(g, live) = size + sum
    BY <1>5, <2>3, <2>5
  <2>10. Resident' = live /\ tag' = g
    BY <1>3, <2>1
  <2> QED
    BY <2>7, <2>8, <2>9, <2>10 DEF Accounted
<1>9. InHand(t)'
  BY <1>2, <1>3, <1>4 DEF InHand
<1>10. live = Resident' \ Moving'
  BY <1>3
<1>11. \A u \in Threads \ {t} : pc'[u] = pc[u] /\ uri'[u] = uri[u] /\ cursor'[u] = cursor[u]
  BY <1>3, <1>4
<1> QED
  BY <1>2, <1>3, <1>6, <1>7, <1>8, <1>9, <1>10, <1>11, ServesOn

-----------------------------------------------------------------------------
(* The shutdown.                                                             *)

\* It begins with the whole cache in the list.
LEMMA InterruptCloses ==
  ASSUME Interrupted # "any time", IInv, ServingInv, Interrupt
  PROVE  ClosingInv'
<1>1. /\ main = "accepting" /\ ub = "none" /\ main' = "freeing" /\ doomed' = list.head
      /\ UNCHANGED <<list, live, ub>> /\ \A t \in Threads : pc[t] = "idle"
  BY ProxyCacheAssumption DEF Interrupt, Up, heap
<1>2. Resident = live /\ Moving = {}
  BY <1>1 DEF Resident, Moving
<1>3. PICK n, q : Queue(list, n, q) /\ Holds(n, q, Resident \ Moving)
  BY <1>1 DEF ServingInv, Linked
<1>4. Holds(n, q, live)
  <2>1. Resident \ Moving = live
    BY <1>2
  <2> QED
    BY <1>3, <2>1
<1>5. Chained(list, n, q)
  BY <1>3 DEF Queue, Chained
<1>6. PICK L, S : L = list /\ list' = L /\ S = live /\ live' = S
  BY <1>1
<1>7. Chained(L, n, q) /\ Holds(n, q, S)
  BY <1>4, <1>5, <1>6
<1> QED
  BY <1>1, <1>6, <1>7 DEF ClosingInv

\* Each line that is left is freed in its turn, and not used afterwards.
LEMMA FreeLineCloses ==
  ASSUME IInv, ClosingInv, FreeLine
  PROVE  ClosingInv'
<1>1. main = "freeing" /\ doomed # Null /\ doomed = list.head /\ ub = "none"
  BY DEF FreeLine, ClosingInv
<1>2. PICK n, q : Chained(list, n, q) /\ Holds(n, q, live)
  BY <1>1 DEF ClosingInv
<1>3. /\ n \in Nat /\ n > 0 /\ list.head = q[1] /\ q \in [1..n -> Lines] /\ 1 \in 1..n
      /\ \A i, j \in 1..n : q[i] = q[j] => i = j
      /\ \A i \in 1..n : list.next[q[i]] = IF i = n THEN Null ELSE q[i + 1]
  BY <1>1, <1>2 DEF Chained
<1>4. q[1] \in live /\ q[1] \in Lines /\ list \in List /\ live \subseteq Lines
  BY <1>2, <1>3 DEF Holds, IInv, LockInv, ThreadTypes
<1>5. Allocated({doomed, list.head})
  BY <1>1, <1>3, <1>4 DEF Allocated
<1> DEFINE rest == [list EXCEPT !.head = list.next[list.head]]
           R == FreedLinks(rest, q[1])
<1>6. /\ list' = R /\ doomed' = rest.head /\ live' = live \ {q[1]} /\ UNCHANGED <<ub, main>>
  BY <1>1, <1>3, <1>5 DEF FreeLine
<1>7. /\ R.head = list.next[q[1]] /\ rest.head = list.next[q[1]]
      /\ \A x \in Lines : R.next[x] = IF x = q[1] THEN Null ELSE list.next[x]
  BY <1>3, <1>4 DEF FreedLinks, SetAt, List
<1> HIDE DEF R, rest
<1> DEFINE p == Drop(1, n, q)
<1>8. p \in [1..(n - 1) -> Lines] /\ \A i \in 1..(n - 1) : p[i] = q[i + 1] /\ i + 1 \in 1..n
  BY <1>3 DEF Drop
<1>9. Holds(n - 1, p, live \ {q[1]})
  BY <1>2, <1>3, DropHolds DEF Distinct
<1> HIDE DEF p
<1>10. \A i, j \in 1..(n - 1) : p[i] = p[j] => i = j
  <2> SUFFICES ASSUME NEW i \in 1..(n - 1), NEW j \in 1..(n - 1), p[i] = p[j] PROVE i = j
    OBVIOUS
  <2>1. i + 1 = j + 1
    BY <1>3, <1>8
  <2> QED
    BY <1>3, <2>1
<1>11. R.head = IF n - 1 = 0 THEN Null ELSE p[1]
  BY <1>3, <1>7, <1>8
<1>12. ASSUME NEW i \in 1..(n - 1)
       PROVE  R.next[p[i]] = IF i = n - 1 THEN Null ELSE p[i + 1]
  <2>1. PICK j : j = i + 1 /\ j \in 1..n /\ j # 1 /\ p[i] = q[j] /\ q[j] \in Lines
    BY <1>3, <1>8
  <2>2. q[j] # q[1]
    BY <1>3, <2>1
  <2>3. R.next[q[j]] = IF j = n THEN Null ELSE q[j + 1]
    BY <1>3, <1>7, <2>1, <2>2
  <2>4. i # n - 1 => p[i + 1] = q[j + 1]
    BY <1>3, <1>8, <2>1
  <2> QED
    BY <1>3, <2>1, <2>3, <2>4
<1>13. Chained(R, n - 1, p)
  <2>1. n - 1 \in Nat
    BY <1>3
  <2> QED
    BY <1>8, <1>10, <1>11, <1>12, <2>1 DEF Chained
<1>14. PICK L, S : L = list' /\ S = live' /\ Chained(L, n - 1, p) /\ Holds(n - 1, p, S)
  BY <1>6, <1>9, <1>13
<1>15. \E m, o : Chained(list', m, o) /\ Holds(m, o, live')
  BY <1>14
<1>16. doomed' = list'.head
  BY <1>6, <1>7
<1> QED
  BY <1>1, <1>6, <1>15, <1>16 DEF ClosingInv

\* Nothing is left in the end.
LEMMA ExitCloses ==
  ASSUME IInv, ClosingInv, ExitProcess
  PROVE  ClosingInv'
<1>1. /\ main = "freeing" /\ doomed = Null /\ doomed = list.head /\ ub = "none"
      /\ list' = [list EXCEPT !.tail = Null] /\ UNCHANGED <<live, doomed, ub>>
  BY DEF ExitProcess, ClosingInv
<1>2. PICK n, q : Chained(list, n, q) /\ Holds(n, q, live)
  BY <1>1 DEF ClosingInv
<1>3. n = 0
  <2> SUFFICES ASSUME n # 0 PROVE FALSE
    OBVIOUS
  <2>1. list.head = q[1] /\ 1 \in 1..n /\ q \in [1..n -> Lines]
    BY <1>2 DEF Chained
  <2> QED
    BY <1>1, <2>1, CacheListAssumption
<1>4. live = {}
  BY <1>2, <1>3 DEF Holds, IInv, LockInv, ThreadTypes
<1>5. list \in List /\ list'.head = list.head /\ list'.next = list.next
  BY <1>1 DEF IInv, LockInv, ThreadTypes, List
<1>6. Chained(list', n, q)
  BY <1>2, <1>5 DEF Chained
<1>7. PICK S : S = live /\ live' = S /\ Holds(n, q, S)
  BY <1>1, <1>2
<1>8. \E m, o : Chained(list', m, o) /\ Holds(m, o, live')
  BY <1>6, <1>7
<1> QED
  BY <1>1, <1>4, <1>5, <1>8 DEF ClosingInv

CacheInv == IInv /\ ServingInv /\ ClosingInv

\* At the start the cache is empty.
LEMMA InitCache == Init => CacheInv
<1> SUFFICES ASSUME Init PROVE CacheInv
  OBVIOUS
<1>1. IInv
  BY InitInv DEF IInv, Init, AtRest
<1>2. Resident = {} /\ Moving = {}
  BY DEF Init, Resident, Moving
<1> DEFINE q == [i \in 1..0 |-> Null]
<1>3. Queue(list, 0, q)
  BY DEF Init, EmptyList, Queue
<1>4. Holds(0, q, Resident \ Moving)
  BY <1>2 DEF Holds
<1>5. Linked
  BY <1>3, <1>4 DEF Linked
<1>6. LinesKept
  BY FS_EmptySet DEF LinesKept, Init, EmptyList
<1>7. Accounted
  <2>1. SpaceOf(tag, Resident) = 0
    BY <1>2, NoSpace
  <2>2. remain_size = MAX_CACHE_SIZE /\ MAX_CACHE_SIZE \in Nat
    BY ProxyCacheAssumption DEF Init
  <2> QED
    BY <2>1, <2>2 DEF Accounted
<1>8. \A t \in Threads : InHand(t)
  BY DEF Init, InHand
<1>9. ServingInv
  BY <1>5, <1>6, <1>7, <1>8 DEF ServingInv, Init
<1>10. ClosingInv
  BY DEF ClosingInv, Init
<1> QED
  BY <1>1, <1>9, <1>10 DEF CacheInv

\* No object is asked for again that is asked for no more.
LEMMA NoneLeft == ~ \E u \in Uris : left[u] = 0 /\ left[u] > 0
OBVIOUS

\* A thread takes no step once a shutdown at rest has begun.
LEMMA NobodyServes ==
  ASSUME Interrupted # "any time", IInv, main # "accepting", NEW t \in Threads
  PROVE  ~Serve(t) /\ ~ \E u \in Uris : Request(t, u)
<1>1. pc[t] = "idle" /\ \A u \in Uris : left[u] = 0
  BY DEF IInv, AtRest
<1>2. ~Serve(t)
  BY <1>1 DEF Serve, Search, Hit, Miss, LockRI, LockRU, Walk, UnlockRU, UnlockMiss, LockWU,
    MoveOut, MoveIn, UnlockWU, UnlockRI, Send, Fetch, LockWI, Alloc, Evict, Place, UnlockWI, At
<1>3. ~ \E u \in Uris : left[u] = 0 /\ left[u] > 0
  BY NoneLeft
<1>4. ~ \E u \in Uris : Request(t, u)
  BY <1>1, <1>3 DEF Request
<1> QED
  BY <1>2, <1>4

\* The main thread goes on accepting.
LEMMA StillAccepting ==
  ASSUME NEW t \in Threads, Serve(t) \/ \E u \in Uris : Request(t, u)
  PROVE  main' = main
BY DEF Serve, Search, Hit, Miss, Request, LockRI, LockRU, Walk, UnlockRU, UnlockMiss, LockWU,
    MoveOut, MoveIn, UnlockWU, UnlockRI, Send, Fetch, LockWI, Alloc, Evict, Place, UnlockWI,
    Undefined, Keep, others

\* All steps, as long as no stale prev is followed.
LEMMA CacheKept ==
  ASSUME Interrupted # "any time", CacheInv, FrontIsFresh, [Next]_vars
  PROVE  CacheInv'
<1>1. IInv'
  BY NextInv DEF CacheInv
<1>2. ASSUME NEW t \in Threads, Serve(t) \/ \E u \in Uris : Request(t, u)
      PROVE  ServingInv' /\ ClosingInv'
  <2>1. main = "accepting" /\ main' = main
    BY <1>2, NobodyServes, StillAccepting DEF CacheInv
  <2>2. ServingInv'
    BY <1>2, <2>1, QuietSteps, MoveOutServes, MoveInServes, AllocServes, EvictServes, PlaceServes
       DEF CacheInv, Serve, Hit, Miss
  <2>3. ClosingInv'
    BY <2>1 DEF ClosingInv
  <2> QED
    BY <2>2, <2>3
<1>3. CASE Interrupt \/ FreeLine \/ ExitProcess
  <2>1. ClosingInv'
    BY <1>3, InterruptCloses, FreeLineCloses, ExitCloses DEF CacheInv
  <2>2. main' # "accepting"
    BY <1>3 DEF Interrupt, FreeLine, ExitProcess, Undefined
  <2> QED
    BY <1>1, <2>1, <2>2 DEF CacheInv, ServingInv
<1>4. CASE UNCHANGED vars
  <2>1. UNCHANGED <<list, live, tag, remain_size, pc, uri, cursor, main, doomed, ub>>
    BY <1>4 DEF vars
  <2>2. ClosingInv'
    BY <2>1 DEF CacheInv, ClosingInv
  <2>3. Resident' = Resident /\ Moving' = Moving
    BY <2>1 DEF Resident, Moving
  <2>4. main = "accepting" => Linked' /\ Accounted'
    BY <2>1, <2>3, LinkedSame DEF CacheInv, ServingInv
  <2>5. ServingInv'
    BY <2>1, <2>4 DEF CacheInv, ServingInv, LinesKept, InHand
  <2> QED
    BY <1>1, <2>2, <2>5 DEF CacheInv
<1> QED
  BY <1>1, <1>2, <1>3, <1>4 DEF CacheInv, Next

-----------------------------------------------------------------------------
(* Why the front is fresh.  Of an object that is asked for twice, one request *)
(* brings the line, so that one at most finds it: the line in front that has  *)
(* been moved there has no request left to be taken out for.                 *)

\* No object that is kept is asked for a third time: a third use of a line is what breaks
\* the list (ProxyCache_cycle).
TwoUses == \A u \in Uris : SizeOf[u] < MAX_OBJECT_SIZE => Requests[u] <= 2

\* n and the number of elements of S make at most one, or at most two.
AtMostOne(n, S) == n <= 1 /\ (n = 1 => S = {}) /\ \A s, t \in S : s = t

AtMostTwo(n, S) ==
  /\ n <= 2 /\ (n = 2 => S = {}) /\ (n = 1 => \A s, t \in S : s = t)
  /\ \A r, s, t \in S : r = s \/ s = t \/ r = t

\* The threads on requests for u, and those of them that have not brought the line l.
Asking(u) == {t \in Threads : uri[t] = u}

Brings(t, l) == pc[t] \in {"evict", "unlockWI"} /\ cursor[t] = l

Hitting(l) == {t \in Threads : uri[t] = tag[l] /\ ~Brings(t, l)}

Hunting == {"lockRI", "lockRU", "walk", "unlockRU", "lockWU", "remove"}

FewAsk == \A u \in Uris : SizeOf[u] < MAX_OBJECT_SIZE => AtMostTwo(left[u], Asking(u))

OneMore == \A l \in live : AtMostOne(left[tag[l]], Hitting(l))

\* A line with a stale prev in front is that of an object no request will find any more.
FrontSpent ==
  list.head # Null /\ list.prev[list.head] # Null =>
    /\ left[tag[list.head]] = 0
    /\ \A t \in Threads : uri[t] = tag[list.head] => pc[t] \notin Hunting

\* What is not in the list yet, or not any more, has no prev.
OutsideBare ==
  \A l \in Lines : (l \notin live \/ \E t \in Threads : pc[t] = "evict" /\ cursor[t] = l)
    => list.prev[l] = Null

FreshInv ==
  /\ left \in [Uris -> Nat]
  /\ main = "accepting" => FewAsk /\ OneMore /\ FrontSpent /\ OutsideBare

\* Fewer elements.
LEMMA FewerAtMost ==
  ASSUME NEW n \in Nat, NEW S, NEW T, T \subseteq S
  PROVE  /\ AtMostOne(n, S) => AtMostOne(n, T)
         /\ AtMostTwo(n, S) => AtMostTwo(n, T)
<1>1. AtMostOne(n, S) => AtMostOne(n, T)
  BY DEF AtMostOne
<1>2. AtMostTwo(n, S) => AtMostTwo(n, T)
  BY DEF AtMostTwo
<1> QED
  BY <1>1, <1>2

\* One element more, that n counted until now.
LEMMA OneTaken ==
  ASSUME NEW n \in Nat, n > 0, NEW S, NEW T, NEW t, T \subseteq S \cup {t}
  PROVE  /\ AtMostOne(n, S) => AtMostOne(n - 1, T)
         /\ AtMostTwo(n, S) => AtMostTwo(n - 1, T)
<1>1. AtMostOne(n, S) => AtMostOne(n - 1, T)
  <2> SUFFICES ASSUME AtMostOne(n, S) PROVE AtMostOne(n - 1, T)
    OBVIOUS
  <2>1. n = 1 /\ S = {}
    BY DEF AtMostOne
  <2> QED
    BY <2>1 DEF AtMostOne
<1>2. AtMostTwo(n, S) => AtMostTwo(n - 1, T)
  <2> SUFFICES ASSUME AtMostTwo(n, S) PROVE AtMostTwo(n - 1, T)
    OBVIOUS
  <2>1. (n = 1 \/ n = 2) /\ (n = 2 => S = {}) /\ (n = 1 => \A r, s \in S : r = s)
    BY DEF AtMostTwo
  <2>2. CASE n = 1
    <3>1. \A r, s, u \in T : r = s \/ s = u \/ r = u
      BY <2>1, <2>2
    <3> QED
      BY <2>2, <3>1 DEF AtMostTwo
  <2>3. CASE n = 2
    <3>1. \A r, s \in T : r = s
      BY <2>1, <2>3
    <3> QED
      BY <2>3, <3>1 DEF AtMostTwo
  <2> QED
    BY <2>1, <2>2, <2>3
<1> QED
  BY <1>1, <1>2

\* All but one element of two.
LEMMA OneOfTwo ==
  ASSUME NEW n \in Nat, NEW S, AtMostTwo(n, S), NEW t \in S, NEW T, T \subseteq S \ {t}
  PROVE  AtMostOne(n, T)
<1>1. n = 0 \/ n = 1
  BY DEF AtMostTwo
<1>2. n = 1 => T = {}
  BY DEF AtMostTwo
<1>3. \A r, s \in T : r = s
  BY DEF AtMostTwo
<1> QED
  BY <1>1, <1>2, <1>3 DEF AtMostOne

\* So the front is fresh.
LEMMA Fronts ==
  ASSUME Interrupted # "any time", CacheInv, FreshInv
  PROVE  FrontIsFresh
<1> SUFFICES ASSUME NEW t \in Threads, pc[t] = "remove", cursor[t] = list.head,
                    list.prev[list.head] # Null
             PROVE  FALSE
  BY DEF FrontIsFresh
<1>1. main = "accepting"
  BY DEF CacheInv, IInv, AtRest
<1>2. cursor[t] # Null
  BY <1>1 DEF CacheInv, ServingInv, InHand
<1>3. tag[list.head] = uri[t]
  BY <1>2 DEF CacheInv, IInv, LockInv, FoundStays
<1>4. pc[t] \notin Hunting
  BY <1>1, <1>2, <1>3 DEF FreshInv, FrontSpent
<1> QED
  BY <1>4 DEF Hunting

\* The head of the list is one of the lines allocated.
LEMMA HeadIsLive ==
  ASSUME main = "accepting", CacheInv, list.head # Null
  PROVE  list.head \in live
<1>1. PICK n, q : Queue(list, n, q) /\ Holds(n, q, Resident \ Moving)
  BY DEF CacheInv, ServingInv, Linked
<1>2. n # 0 /\ n \in Nat /\ list.head = q[1] /\ q[1] \in Lines
  BY <1>1 DEF Queue
<1>3. 1 \in 1..n
  BY <1>2
<1>4. q[1] \in Resident
  BY <1>1, <1>2, <1>3 DEF Holds
<1> QED
  BY <1>2, <1>4 DEF Resident

\* A step that leaves the list as it is, and whose thread goes on with its request, without
\* turning back to the search and without a line it brings, or is done with it.
LEMMA QuietFresh ==
  ASSUME main = "accepting", FreshInv, CacheInv, NEW t \in Threads,
         UNCHANGED <<list, live, tag, left>>,
         \A u \in Threads \ {t} : pc'[u] = pc[u] /\ uri'[u] = uri[u] /\ cursor'[u] = cursor[u],
         pc'[t] # "evict",
         \/ uri'[t] = NoUri
         \/ /\ uri'[t] = uri[t] /\ pc[t] \notin {"evict", "unlockWI"}
            /\ pc'[t] \in Hunting => pc[t] \in Hunting
  PROVE  FreshInv'
<1>1. NoUri \notin Uris /\ \A l \in live : tag[l] \in Uris
  BY ProxyCacheAssumption DEF CacheInv, ServingInv, LinesKept
<1>2. FewAsk'
  <2> SUFFICES ASSUME NEW u \in Uris, SizeOf[u] < MAX_OBJECT_SIZE
               PROVE  AtMostTwo(left[u], {s \in Threads : uri'[s] = u})
    BY DEF FewAsk, Asking
  <2>1. {s \in Threads : uri'[s] = u} \subseteq {s \in Threads : uri[s] = u}
    BY <1>1
  <2>2. AtMostTwo(left[u], {s \in Threads : uri[s] = u}) /\ left[u] \in Nat
    BY DEF FreshInv, FewAsk, Asking
  <2> QED
    BY <2>1, <2>2, FewerAtMost
<1>3. OneMore'
  <2> SUFFICES ASSUME NEW l \in live
               PROVE  AtMostOne(left[tag[l]], Hitting(l)')
    BY DEF OneMore
  <2>1. Hitting(l)' \subseteq Hitting(l)
    BY <1>1 DEF Hitting, Brings
  <2>2. AtMostOne(left[tag[l]], Hitting(l)) /\ left[tag[l]] \in Nat
    BY <1>1 DEF FreshInv, OneMore
  <2> QED
    BY <2>1, <2>2, FewerAtMost
<1>4. FrontSpent'
  <2> SUFFICES ASSUME list.head # Null, list.prev[list.head] # Null
               PROVE  /\ left[tag[list.head]] = 0
                      /\ \A s \in Threads : uri'[s] = tag[list.head] => pc'[s] \notin Hunting
    BY DEF FrontSpent
  <2>1. /\ left[tag[list.head]] = 0
        /\ \A s \in Threads : uri[s] = tag[list.head] => pc[s] \notin Hunting
    BY DEF FreshInv, FrontSpent
  <2>2. tag[list.head] # NoUri
    <3>1. list.head \in live
      BY HeadIsLive
    <3> QED
      BY <1>1, <3>1
  <2> QED
    BY <2>1, <2>2
<1>5. OutsideBare'
  <2> SUFFICES ASSUME NEW l \in Lines, l \notin live \/ \E s \in Threads : pc'[s] = "evict" /\ cursor'[s] = l
               PROVE  list.prev[l] = Null
    BY DEF OutsideBare
  <2>1. l \notin live \/ \E s \in Threads : pc[s] = "evict" /\ cursor[s] = l
    OBVIOUS
  <2> QED
    BY <2>1 DEF FreshInv, OutsideBare
<1> QED
  BY <1>2, <1>3, <1>4, <1>5 DEF FreshInv

\* A request is one less to come.
LEMMA RequestFresh ==
  ASSUME main = "accepting", FreshInv, CacheInv, NEW t \in Threads, NEW u \in Uris, Request(t, u)
  PROVE  FreshInv'
<1>1. /\ pc[t] = "idle" /\ left[u] > 0 /\ left' = [left EXCEPT ![u] = @ - 1]
      /\ uri' = [uri EXCEPT ![t] = u] /\ cursor' = [cursor EXCEPT ![t] = list.head]
      /\ pc' = [pc EXCEPT ![t] = "lockRI"] /\ UNCHANGED <<list, live, tag, main>>
  BY DEF Request, At, Goto, heap
<1>2. /\ left \in [Uris -> Nat] /\ left' \in [Uris -> Nat] /\ left[u] \in Nat
      /\ left'[u] = left[u] - 1 /\ \A v \in Uris \ {u} : left'[v] = left[v]
  BY <1>1 DEF FreshInv
<1>3. /\ pc'[t] = "lockRI" /\ uri'[t] = u
      /\ \A s \in Threads \ {t} : pc'[s] = pc[s] /\ uri'[s] = uri[s] /\ cursor'[s] = cursor[s]
  BY <1>1 DEF CacheInv, IInv, LockInv, ThreadTypes
<1>4. \A l \in live : tag[l] \in Uris
  BY DEF CacheInv, ServingInv, LinesKept
<1>5. FewAsk'
  <2> SUFFICES ASSUME NEW v \in Uris, SizeOf[v] < MAX_OBJECT_SIZE
               PROVE  AtMostTwo(left'[v], Asking(v)')
    BY DEF FewAsk
  <2>1. AtMostTwo(left[v], Asking(v)) /\ left[v] \in Nat
    BY <1>2 DEF FreshInv, FewAsk
  <2>2. CASE v = u
    <3>1. Asking(v)' \subseteq Asking(v) \cup {t}
      BY <1>3 DEF Asking
    <3> QED
      BY <1>1, <1>2, <2>1, <2>2, <3>1, OneTaken
  <2>3. CASE v # u
    <3>1. Asking(v)' \subseteq Asking(v)
      BY <1>3, <2>3 DEF Asking
    <3> QED
      BY <1>2, <2>1, <2>3, <3>1, FewerAtMost
  <2> QED
    BY <2>2, <2>3
<1>6. OneMore'
  <2> SUFFICES ASSUME NEW l \in live
               PROVE  AtMostOne(left'[tag[l]], Hitting(l)')
    BY <1>1 DEF OneMore
  <2>1. AtMostOne(left[tag[l]], Hitting(l)) /\ left[tag[l]] \in Nat /\ tag[l] \in Uris
    BY <1>2, <1>4 DEF FreshInv, OneMore
  <2>2. CASE tag[l] = u
    <3>1. Hitting(l)' \subseteq Hitting(l) \cup {t}
      BY <1>1, <1>3 DEF Hitting, Brings
    <3> QED
      BY <1>1, <1>2, <2>1, <2>2, <3>1, OneTaken
  <2>3. CASE tag[l] # u
    <3>1. Hitting(l)' \subseteq Hitting(l)
      BY <1>1, <1>3, <2>3 DEF Hitting, Brings
    <3> QED
      BY <1>2, <2>1, <2>3, <3>1, FewerAtMost
  <2> QED
    BY <2>2, <2>3
<1>7. FrontSpent'
  <2> SUFFICES ASSUME list.head # Null, list.prev[list.head] # Null
               PROVE  /\ left'[tag[list.head]] = 0
                      /\ \A s \in Threads : uri'[s] = tag[list.head] => pc'[s] \notin Hunting
    BY <1>1 DEF FrontSpent
  <2>1. /\ left[tag[list.head]] = 0 /\ tag[list.head] \in Uris
        /\ \A s \in Threads : uri[s] = tag[list.head] => pc[s] \notin Hunting
    BY <1>4, HeadIsLive DEF FreshInv, FrontSpent
  <2>2. tag[list.head] # u
    BY <1>1, <2>1
  <2> QED
    BY <1>2, <1>3, <2>1, <2>2
<1>8. OutsideBare'
  <2> SUFFICES ASSUME NEW l \in Lines, l \notin live \/ \E s \in Threads : pc'[s] = "evict" /\ cursor'[s] = l
               PROVE  list.prev[l] = Null
    BY <1>1 DEF OutsideBare
  <2>1. l \notin live \/ \E s \in Threads : pc[s] = "evict" /\ cursor[s] = l
    BY <1>3
  <2> QED
    BY <2>1 DEF FreshInv, OutsideBare
<1> QED
  BY <1>2, <1>5, <1>6, <1>7, <1>8 DEF FreshInv

\* What a step of t that is on with its request keeps, whatever it does to the list.
LEMMA CountsKept ==
  ASSUME main = "accepting", FreshInv, CacheInv, NEW t \in Threads, UNCHANGED <<uri, left>>,
         \A u \in Threads \ {t} : pc'[u] = pc[u] /\ cursor'[u] = cursor[u]
  PROVE  /\ left' \in [Uris -> Nat] /\ FewAsk'
         /\ \A l \in live : tag'[l] = tag[l] /\ (Brings(t, l) => Brings(t, l)')
              => AtMostOne(left'[tag'[l]], Hitting(l)')
<1>1. FewAsk' /\ left' \in [Uris -> Nat]
  <2>1. FewAsk /\ left \in [Uris -> Nat]
    BY DEF FreshInv
  <2> QED
    BY <2>1 DEF FewAsk, Asking
<1>2. ASSUME NEW l \in live, tag'[l] = tag[l], Brings(t, l) => Brings(t, l)'
      PROVE  AtMostOne(left'[tag'[l]], Hitting(l)')
  <2>1. Hitting(l)' \subseteq Hitting(l)
    BY <1>2 DEF Hitting, Brings
  <2>2. tag[l] \in Uris
    BY DEF CacheInv, ServingInv, LinesKept
  <2>3. AtMostOne(left[tag[l]], Hitting(l)) /\ left[tag[l]] \in Nat
    BY <2>2 DEF FreshInv, OneMore
  <2> QED
    BY <1>2, <2>1, <2>3, FewerAtMost
<1> QED
  BY <1>1, <1>2

\* Taking a line out leaves the front without a prev, or the same line there as before.
LEMMA MoveOutFresh ==
  ASSUME main = "accepting", FreshInv, CacheInv, FrontIsFresh, NEW t \in Threads, MoveOut(t)
  PROVE  FreshInv'
<1>1. PICK n, q : \E k \in 1..n : TakenOut(t, n, q, k)
  BY TakesOut DEF CacheInv
<1>2. PICK k \in 1..n : TakenOut(t, n, q, k)
  BY <1>1
<1>3. /\ Queue(list, n, q) /\ Holds(n, q, live) /\ cursor[t] = q[k] /\ n \in Nat /\ k \in Nat
      /\ UNCHANGED <<live, tag, uri, cursor, main>>
      /\ pc[t] = "remove" /\ pc' = [pc EXCEPT ![t] = "insert"] /\ pc \in [Threads -> PCs]
      /\ list \in List
  BY <1>2 DEF TakenOut, Queue, CacheInv, IInv, LockInv, ThreadTypes
<1>4. left' = left /\ list' = remove_cache_line(list, cursor[t])
  <2>1. RemoveWrites(list, cursor[t]) \cup {cursor[t]} \subseteq live
    <3>1. ub' = ub
      BY <1>2 DEF TakenOut
    <3> QED
      BY <3>1 DEF MoveOut, At, Up, Undefined, Allocated
  <2> QED
    BY <2>1 DEF MoveOut, Allocated, Keep, others
<1>5. pc'[t] = "insert" /\ \A s \in Threads \ {t} : pc'[s] = pc[s] /\ cursor'[s] = cursor[s]
  BY <1>3
<1>6. FewAsk' /\ left' \in [Uris -> Nat]
  BY <1>3, <1>4, <1>5, CountsKept
<1>7. OneMore'
  <2>1. \A l \in live : ~Brings(t, l)
    BY <1>3 DEF Brings
  <2> QED
    BY <1>3, <1>4, <1>5, <2>1, CountsKept DEF OneMore
<1>8. /\ list'.head = IF list.head = q[k] THEN list.next[q[k]] ELSE list.head
      /\ \A l \in Lines : list'.prev[l] = IF l = list.next[q[k]] THEN list.prev[q[k]] ELSE list.prev[l]
  BY <1>3, <1>4 DEF remove_cache_line, SetAt
<1>9. FrontSpent'
  <2> SUFFICES ASSUME list'.head # Null, list'.prev[list'.head] # Null
               PROVE  /\ left[tag[list'.head]] = 0
                      /\ \A s \in Threads : uri[s] = tag[list'.head] => pc'[s] \notin Hunting
    BY <1>3, <1>4 DEF FrontSpent
  <2>1. list'.head \in Lines /\ list.head # Null
    <3>1. list'.head \in Lines \cup {Null}
      BY <1>3, <1>8 DEF Queue, List
    <3>2. list.head = q[1]
      BY <1>3 DEF Queue
    <3>3. 1 \in 1..n
      BY <1>3
    <3>4. q[1] \in Lines
      BY <1>3, <3>3 DEF Queue
    <3> QED
      BY <3>1, <3>2, <3>4, CacheListAssumption
  <2>2. list.head # q[k]
    <3> SUFFICES ASSUME list.head = q[k] PROVE FALSE
      OBVIOUS
    <3>1. list.prev[q[k]] = Null
      BY <1>3 DEF FrontIsFresh
    <3> QED
      BY <1>8, <2>1, <3>1
  <2>3. list'.head = list.head /\ list.head # list.next[q[k]]
    <3>1. list.next[q[k]] = IF k = n THEN Null ELSE q[k + 1]
      BY <1>3 DEF Queue
    <3>2. list.head = q[1] /\ 1 \in 1..n
      BY <1>3 DEF Queue
    <3>3. k # n => k + 1 \in 1..n /\ k + 1 # 1
      BY <1>3
    <3>4. k # n => q[k + 1] # q[1]
      BY <1>3, <3>2, <3>3 DEF Queue
    <3> QED
      BY <1>8, <2>1, <2>2, <3>1, <3>2, <3>4
  <2>4. list.prev[list.head] # Null
    BY <1>8, <2>1, <2>3
  <2>5. /\ left[tag[list.head]] = 0
        /\ \A s \in Threads : uri[s] = tag[list.head] => pc[s] \notin Hunting
    BY <2>1, <2>4 DEF FreshInv, FrontSpent
  <2> QED
    BY <1>5, <2>3, <2>5 DEF Hunting
<1>10. OutsideBare'
  <2> SUFFICES ASSUME NEW l \in Lines,
                      l \notin live \/ \E s \in Threads : pc'[s] = "evict" /\ cursor'[s] = l
               PROVE  list'.prev[l] = Null
    BY <1>3 DEF OutsideBare
  <2>1. l \notin live
    <3>1. \A s \in Threads \ {t} : pc[s] # "evict"
      BY <1>3, AloneWithList DEF CacheInv
    <3> QED
      BY <1>5, <3>1
  <2>2. list.prev[l] = Null
    BY <2>1 DEF FreshInv, OutsideBare
  <2>3. l # list.next[q[k]]
    <3>1. list.next[q[k]] = IF k = n THEN Null ELSE q[k + 1]
      BY <1>3 DEF Queue
    <3>2. k # n => k + 1 \in 1..n
      BY <1>3
    <3>3. k # n => q[k + 1] \in live
      BY <1>3, <3>2 DEF Holds, Queue
    <3> QED
      BY <2>1, <3>1, <3>3, CacheListAssumption
  <2> QED
    BY <1>8, <2>2, <2>3
<1> QED
  BY <1>6, <1>7, <1>9, <1>10 DEF FreshInv

\* Put back in front, the line has nobody left to find it.
LEMMA MoveInFresh ==
  ASSUME main = "accepting", FreshInv, CacheInv, NEW t \in Threads, MoveIn(t)
  PROVE  FreshInv'
<1>1. PICK n, q, c : PutBack(t, n, q, c)
  BY PutsBack DEF CacheInv
<1>2. /\ Queue(list, n, q) /\ Holds(n, q, live \ {c}) /\ c \in live /\ cursor[t] = c
      /\ UNCHANGED <<live, tag, uri, cursor, main>> /\ ub' = ub
      /\ pc[t] = "insert" /\ pc' = [pc EXCEPT ![t] = "unlockWU"] /\ pc \in [Threads -> PCs]
      /\ list \in List /\ live \subseteq Lines
  BY <1>1 DEF PutBack, CacheInv, IInv, LockInv, ThreadTypes
<1>3. left' = left /\ list' = insert_cache_line(list, c)
  <2>1. InsertWrites(list, cursor[t]) \cup {cursor[t]} \subseteq live
    BY <1>2 DEF MoveIn, At, Up, Undefined, Allocated
  <2> QED
    BY <1>2, <2>1 DEF MoveIn, Allocated, Keep, others
<1>4. pc'[t] = "unlockWU" /\ \A s \in Threads \ {t} : pc'[s] = pc[s] /\ cursor'[s] = cursor[s]
  BY <1>2
<1>5. FewAsk' /\ left' \in [Uris -> Nat]
  BY <1>2, <1>3, <1>4, CountsKept
<1>6. \A l \in live : ~Brings(t, l)
  BY <1>2 DEF Brings
<1>7. OneMore'
  BY <1>2, <1>3, <1>4, <1>6, CountsKept DEF OneMore
<1>8. list'.head = c /\ \A l \in Lines : l # list.head => list'.prev[l] = list.prev[l]
  BY <1>2, <1>3 DEF insert_cache_line, SetAt, List
<1>9. FrontSpent'
  <2>1. uri[t] = tag[c] /\ tag[c] \in Uris
    BY <1>2, CacheListAssumption DEF CacheInv, IInv, LockInv, FoundStays, ServingInv, LinesKept
  <2>2. AtMostOne(left[tag[c]], Hitting(c)) /\ left[tag[c]] \in Nat /\ t \in Hitting(c)
    BY <1>2, <1>6, <2>1 DEF FreshInv, OneMore, Hitting
  <2>3. left[tag[c]] = 0 /\ \A s \in Hitting(c) : s = t
    BY <2>2 DEF AtMostOne
  <2>4. ASSUME NEW s \in Threads, uri[s] = tag[c] PROVE pc'[s] \notin Hunting
    BY <1>4, <2>3, <2>4 DEF Hitting, Brings, Hunting
  <2> QED
    BY <1>2, <1>3, <1>8, <2>3, <2>4 DEF FrontSpent
<1>10. OutsideBare'
  <2> SUFFICES ASSUME NEW l \in Lines,
                      l \notin live \/ \E s \in Threads : pc'[s] = "evict" /\ cursor'[s] = l
               PROVE  list'.prev[l] = Null
    BY <1>2 DEF OutsideBare
  <2>1. l \notin live
    <3>1. \A s \in Threads \ {t} : pc[s] # "evict"
      BY <1>2, AloneWithList DEF CacheInv
    <3> QED
      BY <1>4, <3>1
  <2>2. list.prev[l] = Null
    BY <2>1 DEF FreshInv, OutsideBare
  <2>3. l # list.head
    BY <2>1, HeadIsLive, CacheListAssumption
  <2> QED
    BY <1>8, <2>2, <2>3
<1> QED
  BY <1>5, <1>7, <1>9, <1>10 DEF FreshInv

\* The request that brings a new line is one of the two.
LEMMA AllocFresh ==
  ASSUME main = "accepting", FreshInv, CacheInv, NEW t \in Threads, Alloc(t)
  PROVE  FreshInv'
<1>1. PICK c : Allotted(t, c)
  BY Allots DEF CacheInv
<1>2. /\ c \in Lines \ live /\ live' = live \cup {c} /\ tag' = [tag EXCEPT ![c] = uri[t]]
      /\ cursor' = [cursor EXCEPT ![t] = c] /\ pc[t] = "alloc" /\ pc' = [pc EXCEPT ![t] = "evict"]
      /\ UNCHANGED <<list, uri, main>> /\ pc \in [Threads -> PCs]
      /\ tag \in [Lines -> Uris \cup {NoUri}] /\ cursor \in [Threads -> Lines \cup {Null}]
      /\ live \subseteq Lines
  BY <1>1 DEF Allotted, CacheInv, IInv, LockInv, ThreadTypes
<1>3. left' = left
  BY DEF Alloc, others
<1>4. /\ pc'[t] = "evict" /\ cursor'[t] = c /\ tag'[c] = uri[t] /\ \A l \in live : tag'[l] = tag[l]
      /\ \A s \in Threads \ {t} : pc'[s] = pc[s] /\ cursor'[s] = cursor[s]
  BY <1>2
<1>5. FewAsk' /\ left' \in [Uris -> Nat]
  BY <1>2, <1>3, <1>4, CountsKept
<1>6. uri[t] \in Uris /\ SizeOf[uri[t]] < MAX_OBJECT_SIZE
  BY <1>2 DEF CacheInv, ServingInv, InHand
<1>7. OneMore'
  <2> SUFFICES ASSUME NEW l \in live' PROVE AtMostOne(left'[tag'[l]], Hitting(l)')
    BY DEF OneMore
  <2>1. CASE l = c
    <3>1. AtMostTwo(left[uri[t]], Asking(uri[t])) /\ left[uri[t]] \in Nat /\ t \in Asking(uri[t])
      BY <1>6 DEF FreshInv, FewAsk, Asking
    <3>2. Hitting(l)' \subseteq Asking(uri[t]) \ {t}
      BY <1>2, <1>4, <2>1 DEF Hitting, Brings, Asking
    <3>3. AtMostOne(left[uri[t]], Hitting(l)')
      BY <3>1, <3>2, OneOfTwo
    <3> QED
      BY <1>3, <1>4, <2>1, <3>3
  <2>2. CASE l \in live
    <3>1. ~Brings(t, l)
      BY <1>2 DEF Brings
    <3> QED
      BY <1>2, <1>3, <1>4, <2>2, <3>1, CountsKept
  <2> QED
    BY <1>2, <2>1, <2>2
<1>8. FrontSpent'
  <2> SUFFICES ASSUME list.head # Null, list.prev[list.head] # Null
               PROVE  /\ left[tag'[list.head]] = 0
                      /\ \A s \in Threads : uri[s] = tag'[list.head] => pc'[s] \notin Hunting
    BY <1>2, <1>3 DEF FrontSpent
  <2>1. /\ left[tag[list.head]] = 0 /\ tag'[list.head] = tag[list.head]
        /\ \A s \in Threads : uri[s] = tag[list.head] => pc[s] \notin Hunting
    BY <1>4, HeadIsLive DEF FreshInv, FrontSpent
  <2> QED
    BY <1>4, <2>1 DEF Hunting
<1>9. OutsideBare'
  <2> SUFFICES ASSUME NEW l \in Lines,
                      l \notin live' \/ \E s \in Threads : pc'[s] = "evict" /\ cursor'[s] = l
               PROVE  list.prev[l] = Null
    BY <1>2 DEF OutsideBare
  <2>1. l \notin live \/ \E s \in Threads : pc[s] = "evict" /\ cursor[s] = l
    BY <1>2, <1>4
  <2> QED
    BY <2>1 DEF FreshInv, OutsideBare
<1> QED
  BY <1>5, <1>7, <1>8, <1>9 DEF FreshInv

\* The front is not evicted, and what is evicted has no prev.
LEMMA EvictFresh ==
  ASSUME main = "accepting", FreshInv, CacheInv, NEW t \in Threads, Evict(t)
  PROVE  FreshInv'
<1>1. PICK n, q, c : Evicted(t, n, q, c)
  BY Evicts DEF CacheInv
<1>2. PICK z : z = q[n]
  OBVIOUS
<1>3. /\ Queue(list, n, q) /\ n \in Nat /\ n > 1 /\ z \in live /\ live' = live \ {z} /\ tag' = FreedTag(z)
      /\ UNCHANGED <<pc, uri, cursor, main>> /\ ub' = ub
      /\ list \in List /\ live \subseteq Lines /\ tag \in [Lines -> Uris \cup {NoUri}]
  BY <1>1, <1>2 DEF Evicted, Adder, Queue, CacheInv, IInv, LockInv, ThreadTypes
<1>4. list.tail = z /\ list.next[z] = Null /\ list.head # z /\ list.head # Null
  <2>1. list.tail = q[n] /\ list.head = q[1] /\ n \in 1..n /\ 1 \in 1..n /\ n # 1
    BY <1>3 DEF Queue
  <2>2. list.next[q[n]] = Null /\ q[1] # q[n] /\ q[1] \in Lines
    BY <1>3, <2>1 DEF Queue
  <2> QED
    BY <1>2, <2>1, <2>2, CacheListAssumption
<1>5. left' = left /\ list' = FreedLinks(remove_cache_line(list, z), z)
  <2>1. {list.tail} \cup RemoveWrites(list, list.tail) \subseteq live
    BY <1>3 DEF Evict, At, Up, Undefined, Allocated
  <2> QED
    BY <1>4, <2>1 DEF Evict, Allocated, Keep, others
<1>6. /\ list'.head = list.head
      /\ \A l \in Lines : list'.prev[l] = IF l = z THEN Null ELSE list.prev[l]
  BY <1>3, <1>4, <1>5, CacheListAssumption DEF FreedLinks, remove_cache_line, SetAt, List
<1>7. \A l \in live \ {z} : tag'[l] = tag[l]
  BY <1>3 DEF FreedTag
<1>8. FewAsk' /\ left' \in [Uris -> Nat]
  BY <1>3, <1>5, CountsKept
<1>9. OneMore'
  <2> SUFFICES ASSUME NEW l \in live \ {z} PROVE AtMostOne(left'[tag'[l]], Hitting(l)')
    BY <1>3 DEF OneMore
  <2>1. Brings(t, l) => Brings(t, l)'
    BY <1>3 DEF Brings
  <2> QED
    BY <1>3, <1>5, <1>7, <2>1, CountsKept
<1>10. FrontSpent'
  <2> SUFFICES ASSUME list.head # Null, list.prev[list.head] # Null
               PROVE  /\ left[tag'[list.head]] = 0
                      /\ \A s \in Threads : uri[s] = tag'[list.head] => pc[s] \notin Hunting
    <3>1. list.head \in Lines
      BY <1>3, <1>4, HeadIsLive
    <3>2. list'.prev[list'.head] = list.prev[list.head]
      BY <1>4, <1>6, <3>1
    <3> QED
      BY <1>3, <1>5, <1>6, <3>2 DEF FrontSpent
  <2>1. tag'[list.head] = tag[list.head]
    BY <1>4, <1>7, HeadIsLive
  <2> QED
    BY <2>1 DEF FreshInv, FrontSpent
<1>11. OutsideBare'
  <2> SUFFICES ASSUME NEW l \in Lines,
                      l \notin live' \/ \E s \in Threads : pc[s] = "evict" /\ cursor[s] = l
               PROVE  list'.prev[l] = Null
    BY <1>3 DEF OutsideBare
  <2>1. l = z \/ l \notin live \/ \E s \in Threads : pc[s] = "evict" /\ cursor[s] = l
    BY <1>3
  <2>2. l = z \/ list.prev[l] = Null
    BY <2>1 DEF FreshInv, OutsideBare
  <2> QED
    BY <1>6, <2>2
<1> QED
  BY <1>8, <1>9, <1>10, <1>11 DEF FreshInv

\* A line that comes in has no prev.
LEMMA PlaceFresh ==
  ASSUME main = "accepting", FreshInv, CacheInv, NEW t \in Threads, Place(t)
  PROVE  FreshInv'
<1>1. PICK n, q, c : Placed(t, n, q, c)
  BY Places DEF CacheInv
<1>2. /\ Queue(list, n, q) /\ Holds(n, q, live \ {c}) /\ c \in live /\ cursor[t] = c
      /\ UNCHANGED <<live, tag, uri, cursor, main>> /\ ub' = ub
      /\ pc[t] = "evict" /\ pc' = [pc EXCEPT ![t] = "unlockWI"] /\ pc \in [Threads -> PCs]
      /\ list \in List /\ live \subseteq Lines
  BY <1>1 DEF Placed, Adder, CacheInv, IInv, LockInv, ThreadTypes
<1>3. left' = left /\ list' = insert_cache_line(list, c)
  <2>1. InsertWrites(list, cursor[t]) \subseteq live
    BY <1>2 DEF Place, At, Up, Undefined, Allocated
  <2> QED
    BY <1>2, <2>1 DEF Place, Allocated, Keep, others
<1>4. pc'[t] = "unlockWI" /\ \A s \in Threads \ {t} : pc'[s] = pc[s] /\ cursor'[s] = cursor[s]
  BY <1>2
<1>5. FewAsk' /\ left' \in [Uris -> Nat]
  BY <1>2, <1>3, <1>4, CountsKept
<1>6. OneMore'
  <2> SUFFICES ASSUME NEW l \in live PROVE AtMostOne(left'[tag'[l]], Hitting(l)')
    BY <1>2 DEF OneMore
  <2>1. Brings(t, l) => Brings(t, l)'
    BY <1>2, <1>4 DEF Brings
  <2> QED
    BY <1>2, <1>3, <1>4, <2>1, CountsKept
<1>7. list'.head = c /\ \A l \in Lines : l # list.head => list'.prev[l] = list.prev[l]
  BY <1>2, <1>3 DEF insert_cache_line, SetAt, List
<1>8. c # list.head
  <2>1. ASSUME c = list.head PROVE FALSE
    <3>1. n # 0 /\ list.head = q[1] /\ n \in Nat
      BY <1>2, <2>1, CacheListAssumption DEF Queue
    <3>2. 1 \in 1..n
      BY <3>1
    <3> QED
      BY <1>2, <2>1, <3>1, <3>2 DEF Holds
  <2> QED
    BY <2>1
<1>9. list.prev[c] = Null
  BY <1>2 DEF FreshInv, OutsideBare
<1>10. FrontSpent'
  BY <1>2, <1>7, <1>8, <1>9 DEF FrontSpent
<1>11. OutsideBare'
  <2> SUFFICES ASSUME NEW l \in Lines,
                      l \notin live \/ \E s \in Threads : pc'[s] = "evict" /\ cursor'[s] = l
               PROVE  list'.prev[l] = Null
    BY <1>2 DEF OutsideBare
  <2>1. l \notin live
    <3>1. \A s \in Threads \ {t} : pc[s] # "evict"
      BY <1>2, AloneWithList DEF CacheInv
    <3> QED
      BY <1>4, <3>1
  <2>2. list.prev[l] = Null /\ l # list.head
    BY <2>1, HeadIsLive, CacheListAssumption DEF FreshInv, OutsideBare
  <2> QED
    BY <1>7, <2>2
<1> QED
  BY <1>5, <1>6, <1>10, <1>11 DEF FreshInv

\* The other steps of a thread.
LEMMA QuietStepsFresh ==
  ASSUME main = "accepting", FreshInv, CacheInv, NEW t \in Threads,
         \/ Search(t) \/ LockWU(t) \/ UnlockWU(t) \/ UnlockRI(t) \/ Send(t)
         \/ UnlockMiss(t) \/ Fetch(t) \/ LockWI(t) \/ UnlockWI(t)
  PROVE  FreshInv'
<1>1. /\ pc \in [Threads -> PCs] /\ uri \in [Threads -> Uris \cup {NoUri}]
      /\ cursor \in [Threads -> Lines \cup {Null}]
  BY DEF CacheInv, IInv, LockInv, ThreadTypes
<1> DEFINE Onward == /\ UNCHANGED <<list, live, tag, left>>
                     /\ \A u \in Threads \ {t} :
                          pc'[u] = pc[u] /\ uri'[u] = uri[u] /\ cursor'[u] = cursor[u]
                     /\ pc'[t] # "evict" /\ uri'[t] = uri[t] /\ pc[t] \notin {"evict", "unlockWI"}
                     /\ pc'[t] \in Hunting => pc[t] \in Hunting
           Done == /\ UNCHANGED <<list, live, tag, left>>
                   /\ \A u \in Threads \ {t} :
                        pc'[u] = pc[u] /\ uri'[u] = uri[u] /\ cursor'[u] = cursor[u]
                   /\ pc'[t] # "evict" /\ uri'[t] = NoUri
<1>2. LockRI(t) \/ LockRU(t) \/ LockWU(t) \/ LockWI(t) => Onward
  BY <1>1 DEF LockRI, LockRU, LockWU, LockWI, At, Goto, Keep, others, heap, Hunting
<1>3. UnlockRU(t) \/ UnlockWU(t) \/ UnlockRI(t) \/ UnlockMiss(t) => Onward
  BY <1>1 DEF UnlockRU, UnlockWU, UnlockRI, UnlockMiss, At, Goto, Keep, others, heap, Hunting
<1>4. Walk(t) => Onward
  BY <1>1 DEF Walk, At, Goto, Keep, others, heap, Undefined, Hunting
<1>5. UnlockWI(t) => Done
  BY <1>1 DEF UnlockWI, At, Finish, others, heap
<1>6. Send(t) => Done \/ Onward
  BY <1>1 DEF Send, At, Finish, others, heap, Undefined, Hunting
<1>7. Fetch(t) => Done \/ Onward
  BY <1>1 DEF Fetch, At, Finish, Goto, Keep, others, heap, Hunting
<1>8. Onward \/ Done
  <2> HIDE DEF Onward, Done
  <2> QED
    BY <1>2, <1>3, <1>4, <1>5, <1>6, <1>7 DEF Search
<1> QED
  BY <1>8, QuietFresh

\* At the start nobody asks, and every request is to come.
LEMMA InitFresh == TwoUses /\ Init => FreshInv
<1> SUFFICES ASSUME TwoUses, Init PROVE FreshInv
  OBVIOUS
<1>1. left \in [Uris -> Nat] /\ NoUri \notin Uris
  BY ProxyCacheAssumption DEF Init
<1>2. FewAsk
  <2> SUFFICES ASSUME NEW u \in Uris, SizeOf[u] < MAX_OBJECT_SIZE
               PROVE  AtMostTwo(left[u], Asking(u))
    BY DEF FewAsk
  <2>1. left[u] <= 2 /\ Asking(u) = {}
    BY <1>1 DEF Init, TwoUses, Asking
  <2> QED
    BY <2>1 DEF AtMostTwo
<1>3. OneMore /\ FrontSpent /\ OutsideBare
  BY DEF Init, EmptyList, OneMore, FrontSpent, OutsideBare
<1> QED
  BY <1>1, <1>2, <1>3 DEF FreshInv

\* All steps.
LEMMA FreshKept ==
  ASSUME Interrupted # "any time", CacheInv, FreshInv, [Next]_vars
  PROVE  FreshInv'
<1>1. ASSUME NEW t \in Threads, Serve(t) \/ \E u \in Uris : Request(t, u)
      PROVE  FreshInv'
  <2>1. main = "accepting"
    BY <1>1, NobodyServes DEF CacheInv
  <2>2. FrontIsFresh
    BY Fronts
  <2> QED
    BY <1>1, <2>1, <2>2, QuietStepsFresh, RequestFresh, MoveOutFresh, MoveInFresh, AllocFresh,
       EvictFresh, PlaceFresh DEF Serve, Hit, Miss
<1>2. CASE Interrupt \/ FreeLine \/ ExitProcess
  BY <1>2 DEF Interrupt, FreeLine, ExitProcess, Undefined, FreshInv
<1>3. CASE UNCHANGED vars
  BY <1>3 DEF vars, FreshInv, FewAsk, OneMore, FrontSpent, OutsideBare, Asking, Hitting, Brings
<1> QED
  BY <1>1, <1>2, <1>3 DEF Next

(* The invariant of the list and the space: the list leads through every     *)
(* resident line but one that is being moved, remain_size is what these leave *)
(* of the cache, and a shutdown frees line by line what is left of the list;  *)
(* no stale prev is followed (cache.c:58-60, cache.c:103), as long as no      *)
(* object that is kept is asked for a third time.                            *)
THEOREM CacheSound ==
  ASSUME Interrupted # "any time", TwoUses
  PROVE  Spec => [](CacheInv /\ FreshInv)
<1>1. Init => CacheInv /\ FreshInv
  BY InitCache, InitFresh
<1>2. CacheInv /\ FreshInv /\ [Next]_vars => (CacheInv /\ FreshInv)'
  <2>1. CacheInv /\ FreshInv /\ [Next]_vars => CacheInv'
    BY Fronts, CacheKept
  <2> QED
    BY <2>1, FreshKept
<1> QED
  BY <1>1, <1>2, PTL DEF Spec

-----------------------------------------------------------------------------
(* Types.                                                                    *)

\* The types that are not part of IInv.
LockTypes == rdI \subseteq Threads /\ wrI \subseteq Threads /\ rdU \subseteq Threads /\ wrU \subseteq Threads

TypeRest ==
  /\ LockTypes /\ left \in [Uris -> Nat] /\ remain_size \in 0..MAX_CACHE_SIZE
  /\ main \in {"accepting", "freeing", "exited"} /\ doomed \in Lines \cup {Null}

\* The locks are held by threads.
LEMMA LockTypesKept ==
  ASSUME LockTypes, NEW t \in Threads, Serve(t) \/ \E u \in Uris : Request(t, u)
  PROVE  LockTypes'
<1>1. CASE Search(t)
  BY <1>1 DEF LockTypes, Search, LockRI, LockRU, Walk, UnlockRU, RdLock, Undefined, locks
<1>2. CASE Hit(t)
  BY <1>2 DEF LockTypes, Hit, LockWU, MoveOut, MoveIn, UnlockWU, UnlockRI, Send, WrLock,
    Undefined, locks
<1>3. CASE Miss(t)
  BY <1>3 DEF LockTypes, Miss, UnlockMiss, Fetch, LockWI, Alloc, Evict, Place, UnlockWI, WrLock,
    Undefined, locks
<1>4. CASE \E u \in Uris : Request(t, u)
  BY <1>4 DEF LockTypes, Request, locks
<1> QED
  BY <1>1, <1>2, <1>3, <1>4 DEF Serve

\* Only adding a line takes space, and only evicting one gives it back.
LEMMA SpaceStays ==
  ASSUME NEW t \in Threads, Serve(t) \/ \E u \in Uris : Request(t, u), ~Evict(t), ~Place(t)
  PROVE  remain_size' = remain_size
BY DEF Serve, Search, Hit, Miss, Request, LockRI, LockRU, Walk, UnlockRU, UnlockMiss, LockWU,
    MoveOut, MoveIn, UnlockWU, UnlockRI, Send, Fetch, LockWI, Alloc, UnlockWI, Undefined, heap

\* The requests still to come, and the cursor of free_cache.
LEMMA OthersStay ==
  ASSUME left \in [Uris -> Nat], NEW t \in Threads, Serve(t) \/ \E u \in Uris : Request(t, u)
  PROVE  left' \in [Uris -> Nat] /\ doomed' = doomed
<1>1. CASE Serve(t)
  <2>1. left' = left /\ doomed' = doomed
    BY <1>1 DEF Serve, Search, Hit, Miss, LockRI, LockRU, Walk, UnlockRU, UnlockMiss, LockWU,
      MoveOut, MoveIn, UnlockWU, UnlockRI, Send, Fetch, LockWI, Alloc, Evict, Place, UnlockWI,
      Undefined, Keep, others
  <2> QED
    BY <2>1
<1>2. ASSUME NEW u \in Uris, Request(t, u) PROVE left' \in [Uris -> Nat] /\ doomed' = doomed
  <2>1. left' = [left EXCEPT ![u] = @ - 1] /\ left[u] > 0 /\ left[u] \in Nat /\ doomed' = doomed
    BY <1>2 DEF Request
  <2> QED
    BY <2>1
<1> QED
  BY <1>1, <1>2

\* What is resident takes a number of bytes.
LEMMA SpaceIsNat ==
  ASSUME LinesKept, NEW S, S \subseteq live
  PROVE  SpaceOf(tag, S) \in Nat
<1>1. IsFiniteSet(S) /\ \A l \in S : tag[l] \in Uris /\ tag[l] = tag[l]
  BY FS_Subset DEF LinesKept
<1> QED
  BY <1>1, SameSpace

\* What remains of the cache is never below nothing nor above the whole of it.
LEMMA SpaceBounded ==
  ASSUME main = "accepting", IInv, ServingInv, ServingInv', main' = main,
         remain_size \in 0..MAX_CACHE_SIZE, NEW t \in Threads, Evict(t) \/ Place(t)
  PROVE  remain_size' \in 0..MAX_CACHE_SIZE
<1>1. MAX_CACHE_SIZE \in Nat /\ remain_size \in Int /\ remain_size >= 0
  <2>1. MAX_CACHE_SIZE \in Nat
    BY ProxyCacheAssumption
  <2> QED
    BY <2>1
<1>2. PICK space : space \in Nat /\ remain_size' = MAX_CACHE_SIZE - space
  <2>1. LinesKept' /\ Accounted'
    BY DEF ServingInv
  <2>2. SpaceOf(tag, Resident)' \in Nat
    <3>1. Resident' \subseteq live'
      BY DEF Resident
    <3>2. IsFiniteSet(Resident') /\ \A l \in Resident' : tag'[l] \in Uris /\ tag'[l] = tag'[l]
      BY <2>1, <3>1, FS_Subset DEF LinesKept
    <3>3. PICK S, tags : S = Resident' /\ tags = tag'
      OBVIOUS
    <3>4. SpaceOf(tags, S) \in Nat
      BY <3>2, <3>3, SameSpace
    <3> QED
      BY <3>3, <3>4
  <2> QED
    BY <2>1, <2>2 DEF Accounted
<1>3. CASE Evict(t)
  <2>1. PICK n, q, c : Evicted(t, n, q, c)
    BY <1>3, Evicts
  <2>2. PICK z : z = q[n]
    OBVIOUS
  <2>3. z \in live /\ remain_size' = remain_size + SizeOf[tag[z]]
    BY <2>1, <2>2 DEF Evicted
  <2>4. tag[z] \in Uris
    BY <2>3 DEF ServingInv, LinesKept
  <2>5. PICK size : size = SizeOf[tag[z]] /\ size \in Nat
    BY <2>4, ProxyCacheAssumption
  <2> QED
    BY <1>1, <1>2, <2>3, <2>5
<1>4. CASE Place(t)
  <2>1. PICK n, q, c : Placed(t, n, q, c)
    BY <1>4, Places
  <2>2. PICK size : size = SizeOf[uri[t]] /\ size \in Nat
    BY <2>1 DEF Placed, Adder
  <2>3. size <= remain_size /\ remain_size' = remain_size - size
    BY <2>1, <2>2 DEF Placed
  <2> QED
    BY <1>1, <2>2, <2>3
<1> QED
  BY <1>3, <1>4

\* All steps keep the types.
LEMMA TypesKept ==
  ASSUME Interrupted # "any time", CacheInv, FrontIsFresh, TypeRest, [Next]_vars
  PROVE  TypeRest'
<1>1. CacheInv'
  BY CacheKept
<1>2. ASSUME NEW t \in Threads, Serve(t) \/ \E u \in Uris : Request(t, u)
      PROVE  TypeRest'
  <2>1. main = "accepting" /\ main' = main
    BY <1>2, NobodyServes, StillAccepting DEF CacheInv
  <2>2. LockTypes'
    BY <1>2, LockTypesKept DEF TypeRest
  <2>3. left' \in [Uris -> Nat] /\ doomed' = doomed
    BY <1>2, OthersStay DEF TypeRest
  <2>4. remain_size' \in 0..MAX_CACHE_SIZE
    <3>1. CASE Evict(t) \/ Place(t)
      BY <1>1, <2>1, <3>1, SpaceBounded DEF CacheInv, TypeRest
    <3>2. CASE ~Evict(t) /\ ~Place(t)
      <4>1. remain_size' = remain_size
        BY <1>2, <3>2, SpaceStays
      <4> QED
        BY <4>1 DEF TypeRest
    <3> QED
      BY <3>1, <3>2
  <2> QED
    BY <2>1, <2>2, <2>3, <2>4 DEF TypeRest
<1>3. CASE Interrupt \/ FreeLine \/ ExitProcess
  <2>1. UNCHANGED <<rdI, wrI, rdU, wrU>> /\ UNCHANGED <<left, remain_size>>
    BY <1>3 DEF Interrupt, FreeLine, ExitProcess, Undefined, heap, locks
  <2>2. main' \in {"accepting", "freeing", "exited"}
    BY <1>3 DEF TypeRest, Interrupt, FreeLine, ExitProcess, Undefined
  <2>3. doomed' \in Lines \cup {Null}
    <3>1. list \in List
      BY DEF CacheInv, IInv, LockInv, ThreadTypes
    <3>2. CASE Interrupt \/ ExitProcess
      BY <3>1, <3>2 DEF Interrupt, ExitProcess, TypeRest, List
    <3>3. CASE FreeLine
      <4>1. CASE Allocated({doomed, list.head})
        <5>1. doomed' = list.next[list.head] /\ list.head \in Lines
          <6>1. live \subseteq Lines
            BY DEF CacheInv, IInv, LockInv, ThreadTypes
          <6> QED
            BY <3>1, <3>3, <4>1, <6>1 DEF FreeLine, Allocated, List
        <5> QED
          BY <3>1, <5>1 DEF List
      <4>2. CASE ~Allocated({doomed, list.head})
        BY <3>3, <4>2 DEF FreeLine, Undefined, TypeRest
      <4> QED
        BY <4>1, <4>2
    <3> QED
      BY <1>3, <3>2, <3>3
  <2>4. LockTypes'
    BY <2>1 DEF TypeRest, LockTypes
  <2> QED
    BY <2>1, <2>2, <2>3, <2>4 DEF TypeRest
<1>4. CASE UNCHANGED vars
  BY <1>4 DEF vars, TypeRest, LockTypes
<1> QED
  BY <1>2, <1>3, <1>4 DEF Next

\* They hold at the start.
LEMMA InitTypes == Init => TypeRest
<1> SUFFICES ASSUME Init PROVE TypeRest
  OBVIOUS
<1>1. LockTypes
  BY DEF Init, LockTypes
<1>2. left \in [Uris -> Nat]
  BY ProxyCacheAssumption DEF Init
<1>3. remain_size \in 0..MAX_CACHE_SIZE
  <2>1. remain_size = MAX_CACHE_SIZE /\ MAX_CACHE_SIZE \in Nat
    BY ProxyCacheAssumption DEF Init
  <2> QED
    BY <2>1
<1> QED
  BY <1>1, <1>2, <1>3 DEF Init, TypeRest

(* All of the cache's state has its type: remain_size above all, which is    *)
(* unsigned, never goes below zero (cache.c:89) nor above MAX_CACHE_SIZE.     *)
THEOREM TypesHold ==
  ASSUME Interrupted # "any time", TwoUses
  PROVE  Spec => []TypeOK
<1>1. CacheInv /\ FreshInv /\ TypeRest /\ [Next]_vars => TypeRest'
  BY Fronts, TypesKept
<1>2. Init => TypeRest
  BY InitTypes
<1>3. CacheInv /\ TypeRest => TypeOK
  <2> SUFFICES ASSUME CacheInv, TypeRest PROVE TypeOK
    OBVIOUS
  <2>1. ub \in {"none", "walk", "send", "links", "free"}
    BY DEF CacheInv, ServingInv, ClosingInv
  <2> QED
    BY <2>1 DEF CacheInv, IInv, LockInv, ThreadTypes, TypeRest, LockTypes, TypeOK
<1>4. Spec => [](CacheInv /\ FreshInv)
  BY CacheSound
<1> QED
  BY <1>1, <1>2, <1>3, <1>4, PTL DEF Spec

-----------------------------------------------------------------------------
(* The list as the properties read it.                                       *)

\* What at of Chain is to satisfy: the line that is reached from the head of L in k - 1 steps.
Leads(L, f, m) ==
  f = [k \in 1..m |-> IF k = 1 THEN L.head
                      ELSE IF f[k - 1] = Null THEN Null ELSE L.next[f[k - 1]]]

ChainOf(L) ==
  LET f == CHOOSE g : Leads(L, g, Cardinality(Lines) + 1)
  IN  [k \in 1..Cardinality({k \in 1..Cardinality(Lines) : f[k] # Null}) |-> f[k]]

\* Chain is that of the list, before a step and after it.
LEMMA ChainNow == Chain = ChainOf(list) /\ Chain' = ChainOf(list')
BY DEF Chain, ChainOf, Leads

\* The lines of q, and nothing behind them.
Padded(n, q, m) == [k \in 1..m |-> IF k <= n THEN q[k] ELSE Null]

\* A function that leads through the list is that of its lines.
LEMMA LeadsThrough ==
  ASSUME NEW L, NEW n, NEW q, Queue(L, n, q), NEW m \in Nat, NEW f, Leads(L, f, m)
  PROVE  \A k \in 1..m : f[k] = Padded(n, q, m)[k]
<1> DEFINE w == Padded(n, q, m)
           Bad == {k \in 1..m : f[k] # w[k]}
<1>1. /\ n \in Nat /\ q \in [1..n -> Lines] /\ Null \notin Lines
      /\ L.head = IF n = 0 THEN Null ELSE q[1]
      /\ \A i \in 1..n : L.next[q[i]] = IF i = n THEN Null ELSE q[i + 1]
  BY CacheListAssumption DEF Queue
<1>2. \A k \in 1..m : w[k] = IF k <= n THEN q[k] ELSE Null
  BY DEF Padded
<1>3. ASSUME NEW k \in 1..m
      PROVE  f[k] = IF k = 1 THEN L.head
                    ELSE IF f[k - 1] = Null THEN Null ELSE L.next[f[k - 1]]
  BY DEF Leads
<1> HIDE DEF w
<1>4. ASSUME Bad # {} PROVE FALSE
  <2>1. PICK k \in Bad : \A j \in Bad : k <= j
    <3>1. Bad \in SUBSET Nat
      OBVIOUS
    <3> HIDE DEF Bad
    <3> QED
      BY <1>4, <3>1, HasLeast
  <2>2. k \in 1..m /\ f[k] # w[k]
    BY <2>1
  <2>3. k # 1
    <3> SUFFICES ASSUME k = 1 PROVE FALSE
      OBVIOUS
    <3>1. f[k] = L.head
      BY <1>3, <2>2
    <3> QED
      BY <1>1, <1>2, <2>2, <3>1
  <2>4. PICK j : j = k - 1 /\ j \in 1..m /\ j < k /\ k = j + 1
    BY <2>2, <2>3
  <2>5. f[j] = w[j]
    BY <2>1, <2>2, <2>4
  <2>6. f[k] = IF w[j] = Null THEN Null ELSE L.next[w[j]]
    BY <1>3, <2>2, <2>3, <2>4, <2>5
  <2>7. CASE j < n
    <3>1. w[j] = q[j] /\ j \in 1..n /\ q[j] \in Lines /\ L.next[q[j]] = q[k] /\ w[k] = q[k]
      BY <1>1, <1>2, <2>2, <2>4, <2>7
    <3> QED
      BY <1>1, <2>2, <2>6, <3>1
  <2>8. CASE j = n
    <3>1. w[j] = q[j] /\ j \in 1..n /\ q[j] \in Lines /\ L.next[q[j]] = Null /\ w[k] = Null
      BY <1>1, <1>2, <2>2, <2>4, <2>8
    <3> QED
      BY <1>1, <2>2, <2>6, <3>1
  <2>9. CASE j > n
    <3>1. w[j] = Null /\ w[k] = Null
      BY <1>1, <1>2, <2>2, <2>4, <2>9
    <3> QED
      BY <2>2, <2>6, <3>1
  <2> QED
    BY <1>1, <2>4, <2>7, <2>8, <2>9
<1> QED
  BY <1>4 DEF w

\* And there is one.
LEMMA LeadsExists ==
  ASSUME NEW L, NEW n, NEW q, Queue(L, n, q), NEW m \in Nat
  PROVE  Leads(L, Padded(n, q, m), m)
<1> DEFINE w == Padded(n, q, m)
<1>1. /\ n \in Nat /\ q \in [1..n -> Lines] /\ Null \notin Lines
      /\ L.head = IF n = 0 THEN Null ELSE q[1]
      /\ \A i \in 1..n : L.next[q[i]] = IF i = n THEN Null ELSE q[i + 1]
  BY CacheListAssumption DEF Queue
<1>2. w = [k \in 1..m |-> w[k]] /\ \A k \in 1..m : w[k] = IF k <= n THEN q[k] ELSE Null
  BY DEF Padded
<1> HIDE DEF w
<1>3. ASSUME NEW k \in 1..m
      PROVE  w[k] = IF k = 1 THEN L.head ELSE IF w[k - 1] = Null THEN Null ELSE L.next[w[k - 1]]
  <2>1. CASE k = 1
    BY <1>1, <1>2, <2>1
  <2>2. CASE k # 1
    <3>1. PICK j : j = k - 1 /\ j \in 1..m /\ k = j + 1
      BY <2>2
    <3>2. CASE j < n
      <4>1. w[j] = q[j] /\ j \in 1..n /\ q[j] \in Lines /\ L.next[q[j]] = q[k] /\ w[k] = q[k]
        BY <1>1, <1>2, <3>1, <3>2
      <4> QED
        BY <1>1, <2>2, <3>1, <4>1
    <3>3. CASE j = n
      <4>1. w[j] = q[j] /\ j \in 1..n /\ q[j] \in Lines /\ L.next[q[j]] = Null /\ w[k] = Null
        BY <1>1, <1>2, <3>1, <3>3
      <4> QED
        BY <1>1, <2>2, <3>1, <4>1
    <3>4. CASE j > n
      <4>1. w[j] = Null /\ w[k] = Null
        BY <1>1, <1>2, <3>1, <3>4
      <4> QED
        BY <2>2, <3>1, <4>1
    <3> QED
      BY <1>1, <3>1, <3>2, <3>3, <3>4
  <2> QED
    BY <2>1, <2>2
<1> DEFINE v == [k \in 1..m |-> IF k = 1 THEN L.head
                               ELSE IF w[k - 1] = Null THEN Null ELSE L.next[w[k - 1]]]
<1>4. [k \in 1..m |-> w[k]] = v
  BY <1>3
<1>5. w = v
  BY <1>2, <1>4
<1> QED
  BY <1>5 DEF Leads, w

\* The lines of a list are no more than there are lines.
LEMMA NotTooLong ==
  ASSUME IsFiniteSet(Lines), NEW L, NEW n, NEW q, Queue(L, n, q)
  PROVE  n \in Nat /\ n <= Cardinality(Lines) /\ Cardinality(Lines) \in Nat
<1>1. n \in Nat /\ q \in [1..n -> Lines] /\ \A i, j \in 1..n : q[i] = q[j] => i = j
  BY DEF Queue
<1>2. q \in Injection(1..n, Lines)
  BY <1>1 DEF Injection, IsInjective
<1>3. Cardinality(1..n) <= Cardinality(Lines)
  BY <1>2, FS_Injection
<1>4. Cardinality(1..n) = n
  BY <1>1, FS_Interval
<1> QED
  BY <1>1, <1>3, <1>4, FS_CardinalityType

\* The chain of a list is the sequence of its lines.
LEMMA ChainIs ==
  ASSUME IsFiniteSet(Lines), NEW L, NEW n, NEW q, Queue(L, n, q)
  PROVE  ChainOf(L) = q
<1>1. PICK c : c = Cardinality(Lines) /\ c \in Nat /\ n <= c /\ n \in Nat
  BY NotTooLong
<1>2. c + 1 \in Nat
  BY <1>1
<1>3. PICK f : f = (CHOOSE g : Leads(L, g, c + 1)) /\ Leads(L, f, c + 1)
  BY <1>2, LeadsExists
<1>4. \A k \in 1..(c + 1) : f[k] = Padded(n, q, c + 1)[k]
  BY <1>2, <1>3, LeadsThrough
<1>5. \A k \in 1..(c + 1) : f[k] = IF k <= n THEN q[k] ELSE Null
  BY <1>4 DEF Padded
<1>6. q \in [1..n -> Lines] /\ Null \notin Lines
  BY CacheListAssumption DEF Queue
<1>7. {k \in 1..c : f[k] # Null} = 1..n
  BY <1>1, <1>5, <1>6
<1>8. Cardinality({k \in 1..c : f[k] # Null}) = n
  <2>1. Cardinality(1..n) = n
    BY <1>1, FS_Interval
  <2> QED
    BY <1>7, <2>1
<1>9. ChainOf(L) = [k \in 1..n |-> f[k]]
  BY <1>1, <1>3, <1>8 DEF ChainOf
<1>10. \A k \in 1..n : f[k] = q[k]
  BY <1>1, <1>5
<1> QED
  BY <1>6, <1>9, <1>10

\* It is as long as the set it holds is large.
LEMMA LongAsLarge ==
  ASSUME NEW L, NEW n, NEW q, Queue(L, n, q), NEW S \in SUBSET Lines, Holds(n, q, S)
  PROVE  Len(q) = n /\ DOMAIN q = 1..n /\ Cardinality(S) = n /\ {q[k] : k \in 1..n} = S
<1>1. n \in Nat /\ q \in [1..n -> Lines] /\ \A i, j \in 1..n : q[i] = q[j] => i = j
  BY DEF Queue
<1>2. {q[k] : k \in 1..n} = S
  BY <1>1 DEF Holds
<1>3. q \in [1..n -> S]
  BY <1>1, <1>2
<1>4. q \in Injection(1..n, S) /\ q \in Surjection(1..n, S)
  BY <1>1, <1>2, <1>3 DEF Injection, IsInjective, Surjection
<1>5. IsFiniteSet(1..n) /\ Cardinality(1..n) = n
  BY <1>1, FS_Interval
<1>6. Cardinality(S) = n
  BY <1>4, <1>5, FS_Surjection
<1>7. Len(q) = n
  BY <1>1
<1> QED
  BY <1>1, <1>2, <1>6, <1>7

\* What the invariant says of the list while the proxy serves.
LEMMA ShapeOfServing ==
  ASSUME IsFiniteSet(Lines), ServingInv, IInv, main = "accepting"
  PROVE  \E n, q : /\ Queue(list, n, q) /\ Holds(n, q, Resident \ Moving) /\ Chain = q
                   /\ Len(Chain) = n /\ DOMAIN Chain = 1..n
                   /\ Cardinality(Resident \ Moving) = n
                   /\ {Chain[k] : k \in 1..n} = Resident \ Moving
<1>1. PICK n, q : Queue(list, n, q) /\ Holds(n, q, Resident \ Moving)
  BY DEF ServingInv, Linked
<1>2. PICK S : S = Resident \ Moving /\ S \in SUBSET Lines
  BY DEF Resident, IInv, LockInv, ThreadTypes
<1>3. Len(q) = n /\ DOMAIN q = 1..n /\ Cardinality(S) = n /\ {q[k] : k \in 1..n} = S
  BY <1>1, <1>2, LongAsLarge
<1>4. Chain = q
  BY <1>1, ChainIs, ChainNow
<1> QED
  BY <1>1, <1>2, <1>3, <1>4

\* The list has its shape.
LEMMA ShapeServes ==
  ASSUME IsFiniteSet(Lines), ServingInv, IInv
  PROVE  ListShape
<1> SUFFICES ASSUME main = "accepting", ub = "none"
    PROVE  /\ Len(Chain) = Cardinality(Resident \ Moving)
           /\ {Chain[n] : n \in DOMAIN Chain} = Resident \ Moving
           /\ \A n \in DOMAIN Chain : n > 1 => list.prev[Chain[n]] = Chain[n - 1]
           /\ Chain # <<>> => list.tail = Chain[Len(Chain)]
           /\ Chain = <<>> => list.head = Null
  BY DEF ListShape
<1>1. PICK n, q : /\ Queue(list, n, q) /\ Chain = q /\ Len(Chain) = n /\ DOMAIN Chain = 1..n
                  /\ Cardinality(Resident \ Moving) = n
                  /\ {Chain[k] : k \in 1..n} = Resident \ Moving
  BY ShapeOfServing
<1>2. n \in Nat /\ \A k \in 2..n : list.prev[q[k]] = q[k - 1]
  BY <1>1 DEF Queue
<1>3. ASSUME NEW k \in DOMAIN Chain, k > 1 PROVE list.prev[Chain[k]] = Chain[k - 1]
  <2>1. k \in 2..n
    BY <1>1, <1>2, <1>3
  <2> QED
    BY <1>1, <1>2, <2>1
<1>4. ASSUME Chain # <<>> PROVE list.tail = Chain[Len(Chain)]
  <2>1. n # 0
    <3> SUFFICES ASSUME n = 0 PROVE FALSE
      OBVIOUS
    <3>1. q \in [1..0 -> Lines]
      BY <1>1 DEF Queue
    <3>2. q = <<>>
      BY <3>1
    <3> QED
      BY <1>1, <1>4, <3>2
  <2> QED
    BY <1>1, <2>1 DEF Queue
<1>5. ASSUME Chain = <<>> PROVE list.head = Null
  <2>1. n = 0
    BY <1>1, <1>5
  <2> QED
    BY <1>1, <2>1 DEF Queue
<1> QED
  BY <1>1, <1>3, <1>4, <1>5

(* c_head and next lead once through every resident line, c_tail is the last *)
(* and prev leads back (cache.c:95-146), however the steps of the threads     *)
(* fall, when each object is asked for twice at most: that is as far as the   *)
(* code's list goes, since a third request may follow a stale prev.          *)
THEOREM ListHasShape ==
  ASSUME Interrupted # "any time", TwoUses, IsFiniteSet(Lines)
  PROVE  Spec => []ListShape
<1>1. Spec => [](CacheInv /\ FreshInv)
  BY CacheSound
<1>2. CacheInv => ListShape
  BY ShapeServes DEF CacheInv
<1> QED
  BY <1>1, <1>2, PTL

(* remain_size is what the resident lines leave of the cache (cache.c:86-90,  *)
(* cache.c:126), at every step of an eviction and of an insertion.            *)
THEOREM SpaceIsAccounted ==
  ASSUME Interrupted # "any time", TwoUses
  PROVE  Spec => []SpaceAccounted
<1>1. Spec => [](CacheInv /\ FreshInv)
  BY CacheSound
<1>2. CacheInv => SpaceAccounted
  BY DEF CacheInv, ServingInv, Accounted, SpaceOf, SpaceAccounted
<1> QED
  BY <1>1, <1>2, PTL

(* A shutdown that finds no request open, after any requests the cache has    *)
(* served, uses no line it has freed, and leaves none (cache.c:151-160).      *)
THEOREM ShutdownFreesAll ==
  ASSUME Interrupted # "any time", TwoUses
  PROVE  Spec => []FreesAll
<1>1. Spec => [](CacheInv /\ FreshInv)
  BY CacheSound
<1>2. CacheInv => FreesAll
  BY DEF CacheInv, ClosingInv, FreesAll
<1> QED
  BY <1>1, <1>2, PTL

-----------------------------------------------------------------------------
(* The LRU cache.                                                            *)

\* The object that is to come in, before a step and after it.
IncomingOf(places, uris) == {uris[t] : t \in {t \in Threads : places[t] = "evict"}}

LEMMA IncomingNow ==
  incomingOf = IncomingOf(pc, uri) /\ incomingOf' = IncomingOf(pc', uri')
BY DEF incomingOf, IncomingOf

\* Of a thread that is alone in evicting.
LEMMA IncomingIs ==
  ASSUME NEW places, NEW uris, NEW t \in Threads, \A u \in Threads \ {t} : places[u] # "evict"
  PROVE  IncomingOf(places, uris) = IF places[t] = "evict" THEN {uris[t]} ELSE {}
BY DEF IncomingOf

\* So it is for the thread that changes the list.
LEMMA IncomingHere ==
  ASSUME IInv, NEW t \in Threads, pc[t] \in {"alloc", "evict", "remove", "insert"},
         \A u \in Threads \ {t} : pc'[u] = pc[u]
  PROVE  /\ incomingOf = IF pc[t] = "evict" THEN {uri[t]} ELSE {}
         /\ incomingOf' = IF pc'[t] = "evict" THEN {uri'[t]} ELSE {}
<1>1. PICK places, uris : places = pc' /\ uris = uri'
  OBVIOUS
<1>2. /\ \A u \in Threads \ {t} : pc[u] # "evict"
      /\ \A u \in Threads \ {t} : places[u] # "evict"
  BY <1>1, AloneWithList
<1>3. IncomingOf(pc, uri) = IF pc[t] = "evict" THEN {uri[t]} ELSE {}
  BY <1>2, IncomingIs
<1>4. IncomingOf(places, uris) = IF places[t] = "evict" THEN {uris[t]} ELSE {}
  BY <1>2, IncomingIs
<1> QED
  BY <1>1, <1>3, <1>4, IncomingNow

\* The entries of the lines of q.
Entries(tags, n, q) == [i \in 1..n |-> [slot |-> q[i], object |-> tags[q[i]]]]

EntriesOf(chain, tags, moving) ==
  LET entry(l) == [slot |-> l, object |-> tags[l]]
  IN  [i \in 1..Cardinality(moving) |-> entry(CHOOSE l \in moving : TRUE)]
      \o [i \in DOMAIN chain |-> entry(chain[i])]

\* orderOf, before a step and after it.
LEMMA OrderNow ==
  /\ orderOf = IF main # "accepting" THEN <<>> ELSE EntriesOf(Chain, tag, Moving)
  /\ orderOf' = IF main' # "accepting" THEN <<>> ELSE EntriesOf(Chain', tag', Moving')
BY DEF orderOf, EntriesOf

\* The entries when no line is being moved ...
LEMMA EntriesInList ==
  ASSUME NEW n \in Nat, NEW q, q \in [1..n -> Lines], NEW tags
  PROVE  EntriesOf(q, tags, {}) = Entries(tags, n, q)
<1> DEFINE front == [i \in 1..Cardinality({}) |-> [slot |-> CHOOSE l \in {} : TRUE,
                                                   object |-> tags[CHOOSE l \in {} : TRUE]]]
           rest == [i \in DOMAIN q |-> [slot |-> q[i], object |-> tags[q[i]]]]
<1>1. EntriesOf(q, tags, {}) = front \o rest
  BY DEF EntriesOf
<1>2. front = <<>>
  <2>1. Cardinality({}) = 0
    BY FS_EmptySet
  <2> QED
    BY <2>1
<1>3. rest = Entries(tags, n, q)
  BY DEF Entries
<1> HIDE DEF front, rest
<1>4. <<>> \o Entries(tags, n, q) = Entries(tags, n, q)
  <2>1. PICK T : \A i \in 1..n : Entries(tags, n, q)[i] \in T
    <3> DEFINE T == {Entries(tags, n, q)[i] : i \in 1..n}
    <3>1. \A i \in 1..n : Entries(tags, n, q)[i] \in T
      OBVIOUS
    <3> QED
      BY <3>1
  <2>2. Entries(tags, n, q) \in Seq(T)
    BY <2>1 DEF Entries
  <2> QED
    BY <2>2, ConcatEmptySeq
<1> QED
  BY <1>1, <1>2, <1>3, <1>4

\* ... and when l is, which counts as in front.
LEMMA EntriesMoving ==
  ASSUME NEW n \in Nat, NEW q, q \in [1..n -> Lines], NEW tags, NEW l
  PROVE  EntriesOf(q, tags, {l}) = Entries(tags, n + 1, Put(l, n, q))
<1> DEFINE entry(x) == [slot |-> x, object |-> tags[x]]
           front == [i \in 1..Cardinality({l}) |-> entry(CHOOSE x \in {l} : TRUE)]
           rest == [i \in DOMAIN q |-> entry(q[i])]
<1>1. EntriesOf(q, tags, {l}) = front \o rest
  BY DEF EntriesOf
<1>2. front = [i \in 1..1 |-> entry(l)]
  <2>1. Cardinality({l}) = 1
    BY FS_Singleton
  <2>2. (CHOOSE x \in {l} : TRUE) = l
    OBVIOUS
  <2> QED
    BY <2>1, <2>2
<1>3. rest = [i \in 1..n |-> entry(q[i])]
  OBVIOUS
<1> HIDE DEF front, rest
<1>4. [i \in 1..1 |-> entry(l)] \o [i \in 1..n |-> entry(q[i])]
        = [i \in 1..(n + 1) |-> IF i = 1 THEN entry(l) ELSE entry(q[i - 1])]
  OBVIOUS
<1>5. \A i \in 1..(n + 1) : entry(Put(l, n, q)[i]) = IF i = 1 THEN entry(l) ELSE entry(q[i - 1])
  BY DEF Put
<1>6. Entries(tags, n + 1, Put(l, n, q))
        = [i \in 1..(n + 1) |-> IF i = 1 THEN entry(l) ELSE entry(q[i - 1])]
  BY <1>5 DEF Entries
<1> QED
  BY <1>1, <1>2, <1>3, <1>4, <1>6

\* Lines of the same tags make the same entries.
LEMMA SameEntries ==
  ASSUME NEW n \in Nat, NEW q, NEW tags, NEW old, \A i \in 1..n : tags[q[i]] = old[q[i]]
  PROVE  Entries(tags, n, q) = Entries(old, n, q)
BY DEF Entries

\* The entries are those of o with the k-th moved to the front.
Fronted(new, o, k) ==
  k \in DOMAIN o /\ new = <<o[k]>> \o (SubSeq(o, 1, k - 1) \o SubSeq(o, k + 1, Len(o)))

\* Taking the k-th line out and putting it in front moves its entry to the front.
LEMMA MovedToFront ==
  ASSUME NEW n \in Nat, NEW q, q \in [1..n -> Lines], NEW k \in 1..n, NEW tags,
         NEW o, o = Entries(tags, n, q)
  PROVE  Fronted(Entries(tags, n, Put(q[k], n - 1, Drop(k, n, q))), o, k)
<1>1. DOMAIN o = 1..n /\ o = [i \in 1..n |-> o[i]]
  BY DEF Entries
<1>2. Len(o) = n
  BY <1>1
<1>3. SubSeq(o, 1, k - 1) = [i \in 1..(k - 1) |-> o[i]]
  BY <1>1, <1>2
<1>4. SubSeq(o, k + 1, Len(o)) = [i \in 1..(n - k) |-> o[i + k]]
  BY <1>1, <1>2
<1>5. [i \in 1..(k - 1) |-> o[i]] \o [i \in 1..(n - k) |-> o[i + k]]
        = [i \in 1..(n - 1) |-> IF i < k THEN o[i] ELSE o[i + 1]]
  OBVIOUS
<1>6. <<o[k]>> \o [i \in 1..(n - 1) |-> IF i < k THEN o[i] ELSE o[i + 1]]
        = [i \in 1..n |-> IF i = 1 THEN o[k] ELSE IF i - 1 < k THEN o[i - 1] ELSE o[i]]
  OBVIOUS
<1>7. ASSUME NEW i \in 1..n
      PROVE  Put(q[k], n - 1, Drop(k, n, q))[i]
               = IF i = 1 THEN q[k] ELSE IF i - 1 < k THEN q[i - 1] ELSE q[i]
  BY DEF Put, Drop
<1>8. \A i \in 1..n : o[i] = [slot |-> q[i], object |-> tags[q[i]]]
  BY DEF Entries
<1>9. Entries(tags, n, Put(q[k], n - 1, Drop(k, n, q)))
        = [i \in 1..n |-> IF i = 1 THEN o[k] ELSE IF i - 1 < k THEN o[i - 1] ELSE o[i]]
  <2> DEFINE p == Put(q[k], n - 1, Drop(k, n, q))
  <2>1. ASSUME NEW i \in 1..n
        PROVE  [slot |-> p[i], object |-> tags[p[i]]]
                 = IF i = 1 THEN o[k] ELSE IF i - 1 < k THEN o[i - 1] ELSE o[i]
    <3> HIDE DEF p
    <3>1. CASE i = 1
      BY <1>7, <1>8, <3>1 DEF p
    <3>2. CASE i # 1
      <4>1. i - 1 \in 1..n
        BY <3>2
      <4> QED
        BY <1>7, <1>8, <3>2, <4>1 DEF p
    <3> QED
      BY <3>1, <3>2
  <2> HIDE DEF p
  <2>2. Entries(tags, n, p)
          = [i \in 1..n |-> IF i = 1 THEN o[k] ELSE IF i - 1 < k THEN o[i - 1] ELSE o[i]]
    BY <2>1 DEF Entries
  <2> QED
    BY <2>2 DEF p
<1>10. <<o[k]>> \o (SubSeq(o, 1, k - 1) \o SubSeq(o, k + 1, Len(o)))
         = [i \in 1..n |-> IF i = 1 THEN o[k] ELSE IF i - 1 < k THEN o[i - 1] ELSE o[i]]
  BY <1>3, <1>4, <1>5, <1>6
<1> QED
  BY <1>1, <1>9, <1>10 DEF Fronted

\* Taking the last line out drops the last entry.
LEMMA LastDropped ==
  ASSUME NEW n \in Nat, n > 0, NEW q, q \in [1..n -> Lines], NEW tags, NEW o, o = Entries(tags, n, q)
  PROVE  Entries(tags, n - 1, Drop(n, n, q)) = SubSeq(o, 1, Len(o) - 1) /\ o # <<>>
<1>1. DOMAIN o = 1..n /\ o = [i \in 1..n |-> o[i]]
  BY DEF Entries
<1>2. Len(o) = n
  BY <1>1
<1>3. SubSeq(o, 1, n - 1) = [i \in 1..(n - 1) |-> o[i]]
  BY <1>1, <1>2
<1>4. \A i \in 1..(n - 1) : Drop(n, n, q)[i] = q[i]
  BY DEF Drop
<1>5. \A i \in 1..(n - 1) : o[i] = [slot |-> q[i], object |-> tags[q[i]]]
  BY DEF Entries
<1>6. Entries(tags, n - 1, Drop(n, n, q)) = [i \in 1..(n - 1) |-> o[i]]
  BY <1>4, <1>5 DEF Entries
<1> QED
  BY <1>2, <1>3, <1>6

\* A new line in front is a new entry in front.
LEMMA NewInFront ==
  ASSUME NEW n \in Nat, NEW q, q \in [1..n -> Lines], NEW tags, NEW c, NEW o, o = Entries(tags, n, q)
  PROVE  Entries(tags, n + 1, Put(c, n, q)) = <<[slot |-> c, object |-> tags[c]]>> \o o
<1>1. DOMAIN o = 1..n /\ o = [i \in 1..n |-> o[i]]
  BY DEF Entries
<1>2. PICK e : e = [slot |-> c, object |-> tags[c]]
  OBVIOUS
<1>3. <<e>> \o [i \in 1..n |-> o[i]] = [i \in 1..(n + 1) |-> IF i = 1 THEN e ELSE o[i - 1]]
  OBVIOUS
<1>4. \A i \in 1..(n + 1) : [slot |-> Put(c, n, q)[i], object |-> tags[Put(c, n, q)[i]]]
                              = IF i = 1 THEN e ELSE o[i - 1]
  <2> SUFFICES ASSUME NEW i \in 1..(n + 1)
      PROVE [slot |-> Put(c, n, q)[i], object |-> tags[Put(c, n, q)[i]]]
              = IF i = 1 THEN e ELSE o[i - 1]
    OBVIOUS
  <2>1. CASE i = 1
    BY <1>2, <2>1 DEF Put
  <2>2. CASE i # 1
    <3>1. i - 1 \in 1..n /\ Put(c, n, q)[i] = q[i - 1]
      BY <2>2 DEF Put
    <3>2. o[i - 1] = [slot |-> q[i - 1], object |-> tags[q[i - 1]]]
      BY <3>1 DEF Entries
    <3> QED
      BY <2>2, <3>1, <3>2
  <2> QED
    BY <2>1, <2>2
<1>5. Entries(tags, n + 1, Put(c, n, q)) = [i \in 1..(n + 1) |-> IF i = 1 THEN e ELSE o[i - 1]]
  BY <1>4 DEF Entries
<1> QED
  BY <1>1, <1>2, <1>3, <1>5

\* The sizes of the objects of entries.
Weights(o) == [i \in DOMAIN o |-> SizeOf[o[i].object]]

\* The fold that Used is.
LEMMA UsedIs ==
  ASSUME NEW o, o = orderOf, IsFiniteSet(DOMAIN o), NEW G, Adding(G, Weights(o), DOMAIN o)
  PROVE  LRU!Used = G[DOMAIN o]
<1> DEFINE Pick(s) == CHOOSE x \in s : TRUE
           Sum(f, s) == IF s = {} THEN 0 ELSE SizeOf[o[Pick(s)].object] + f[s \ {Pick(s)}]
           Folds(f) == f = [s \in SUBSET DOMAIN o |-> Sum(f, s)]
<1>1. LRU!Used = (CHOOSE f : Folds(f))[DOMAIN o]
  BY DEF LRU!Used, LRU!FoldFunction, LRU!FoldFunctionOnSet, LRU!MapThenFoldSet
<1>2. PICK S : S = DOMAIN o
  OBVIOUS
<1>3. ASSUME NEW s \in SUBSET S, s # {}
      PROVE  Pick(s) \in s /\ Weights(o)[Pick(s)] = SizeOf[o[Pick(s)].object]
  <2>1. Pick(s) \in s
    BY <1>3
  <2> QED
    BY <1>2, <2>1 DEF Weights
<1>4. Folds([s \in SUBSET S |-> G[s]])
  <2> DEFINE F == [s \in SUBSET S |-> G[s]]
  <2>1. ASSUME NEW s \in SUBSET S PROVE F[s] = Sum(F, s)
    <3>1. CASE s = {}
      BY <1>2, <3>1 DEF Adding
    <3>2. CASE s # {}
      <4>1. PICK x : x = Pick(s) /\ x \in s /\ Weights(o)[x] = SizeOf[o[x].object]
        BY <1>3, <3>2
      <4>2. s \ {x} \in SUBSET S
        OBVIOUS
      <4>3. F[s] = Weights(o)[x] + F[s \ {x}]
        BY <1>2, <4>1, <4>2 DEF Adding
      <4> HIDE DEF F, Pick
      <4> QED
        BY <3>2, <4>1, <4>3
    <3> QED
      BY <3>1, <3>2
  <2>2. F = [s \in SUBSET S |-> F[s]]
    OBVIOUS
  <2> HIDE DEF F, Sum
  <2>3. [s \in SUBSET S |-> F[s]] = [s \in SUBSET S |-> Sum(F, s)]
    BY <2>1
  <2> QED
    BY <1>2, <2>2, <2>3 DEF F
<1>5. PICK f : f = (CHOOSE g : Folds(g)) /\ Folds(f)
  <2> HIDE DEF Folds
  <2> QED
    BY <1>4
<1>6. Totals(f, Weights(o), S)
  <2> SUFFICES ASSUME NEW s \in SUBSET S
               PROVE  f[s] = IF s = {} THEN 0 ELSE Weights(o)[Pick(s)] + f[s \ {Pick(s)}]
    BY DEF Totals
  <2>1. f[s] = Sum(f, s)
    <3>1. Folds(f)
      BY <1>5
    <3> HIDE DEF Sum
    <3> QED
      BY <1>2, <3>1
  <2> HIDE DEF Pick
  <2> QED
    BY <1>3, <2>1
<1>7. f[S] = G[S]
  BY <1>2, <1>6, TotalsAgree
<1> HIDE DEF Folds
<1> QED
  BY <1>1, <1>2, <1>5, <1>7

\* The entries of all resident lines use the space of these.
LEMMA UsedSpace ==
  ASSUME NEW n \in Nat, NEW q, q \in [1..n -> Lines], Distinct(n, q), NEW S \in SUBSET Lines,
         Holds(n, q, S), IsFiniteSet(S), Tagged(tag, S), orderOf = Entries(tag, n, q)
  PROVE  LRU!Used = SpaceOf(tag, S) /\ SpaceOf(tag, S) \in Nat
<1>1. PICK o : o = orderOf /\ o = Entries(tag, n, q)
  OBVIOUS
<1>2. DOMAIN o = 1..n /\ \A i \in 1..n : o[i] = [slot |-> q[i], object |-> tag[q[i]]]
  BY <1>1 DEF Entries
<1>3. \A i \in 1..n : Weights(o)[i] = SizeOf[tag[q[i]]]
  BY <1>2 DEF Weights
<1>4. \A l \in S : tag[l] \in Uris
  BY DEF Tagged
<1>5. \A l \in S : Sizes(tag, S)[l] \in Nat /\ Sizes(tag, S)[l] = SizeOf[tag[l]]
  BY <1>4, SizesAre
<1>6. PICK H : Adding(H, Sizes(tag, S), S)
  BY <1>5, AddingExists
<1> DEFINE On(I) == {q[i] : i \in I}
           G == [I \in SUBSET (1..n) |-> H[On(I)]]
<1>7. \A i \in 1..n : q[i] \in S
  BY DEF Holds
<1>8. ASSUME NEW I \in SUBSET (1..n) PROVE On(I) \in SUBSET S
  BY <1>7
<1>9. Adding(G, Weights(o), 1..n)
  <2> SUFFICES ASSUME NEW I \in SUBSET (1..n)
               PROVE  /\ G[I] \in Nat /\ (I = {} => G[I] = 0)
                      /\ \A i \in I : G[I] = Weights(o)[i] + G[I \ {i}]
    <3> HIDE DEF G
    <3> QED
      BY DEF Adding
  <2>1. G[I] = H[On(I)]
    OBVIOUS
  <2>2. H[On(I)] \in Nat /\ (On(I) = {} => H[On(I)] = 0)
    <3> HIDE DEF On
    <3> QED
      BY <1>6, <1>8 DEF Adding
  <2>3. I = {} => On(I) = {}
    OBVIOUS
  <2>4. ASSUME NEW i \in I PROVE G[I] = Weights(o)[i] + G[I \ {i}]
    <3>1. On(I \ {i}) = On(I) \ {q[i]}
      BY DEF Distinct
    <3>2. q[i] \in On(I)
      OBVIOUS
    <3>3. G[I \ {i}] = H[On(I \ {i})]
      OBVIOUS
    <3> HIDE DEF On, G
    <3>4. H[On(I)] = Sizes(tag, S)[q[i]] + H[On(I) \ {q[i]}]
      BY <1>6, <1>8, <3>2 DEF Adding
    <3>5. Sizes(tag, S)[q[i]] = Weights(o)[i]
      BY <1>3, <1>5, <1>7
    <3> QED
      BY <2>1, <3>1, <3>3, <3>4, <3>5
  <2> HIDE DEF On, G
  <2> QED
    BY <2>1, <2>2, <2>3, <2>4
<1>10. On(1..n) = S
  BY DEF Holds
<1>11. G[1..n] = H[S]
  BY <1>10
<1> HIDE DEF G, On
<1>12. LRU!Used = G[1..n]
  <2>1. IsFiniteSet(1..n)
    BY FS_Interval
  <2> QED
    BY <1>1, <1>2, <1>9, <2>1, UsedIs
<1>13. SpaceOf(tag, S) = H[S]
  BY <1>6, SpaceIs
<1>14. H[S] \in Nat
  BY <1>6 DEF Adding
<1> QED
  BY <1>11, <1>12, <1>13, <1>14

\* The entries, before a step and after it, of the lines that are in the list.
LEMMA OrderIs ==
  ASSUME IsFiniteSet(Lines), NEW n, NEW q, Queue(list, n, q), main = "accepting"
  PROVE  /\ Moving = {} => orderOf = Entries(tag, n, q)
         /\ \A l : Moving = {l} => orderOf = Entries(tag, n + 1, Put(l, n, q))
<1>1. n \in Nat /\ q \in [1..n -> Lines] /\ Chain = q
  <2>1. ChainOf(list) = q
    BY ChainIs
  <2> QED
    BY <2>1, ChainNow DEF Queue
<1>2. orderOf = EntriesOf(q, tag, Moving)
  BY <1>1, OrderNow
<1>3. PICK M, g : M = Moving /\ g = tag
  OBVIOUS
<1>4. ASSUME M = {} PROVE EntriesOf(q, g, M) = Entries(g, n, q)
  BY <1>1, <1>4, EntriesInList
<1>5. ASSUME NEW l, M = {l} PROVE EntriesOf(q, g, M) = Entries(g, n + 1, Put(l, n, q))
  BY <1>1, <1>5, EntriesMoving
<1> QED
  BY <1>2, <1>3, <1>4, <1>5

\* The same after a step.
LEMMA OrderIsNext ==
  ASSUME IsFiniteSet(Lines), NEW n, NEW q, Queue(list', n, q), main' = "accepting"
  PROVE  /\ Moving' = {} => orderOf' = Entries(tag', n, q)
         /\ \A l : Moving' = {l} => orderOf' = Entries(tag', n + 1, Put(l, n, q))
<1>0. PICK L : L = list'
  OBVIOUS
<1>1. n \in Nat /\ q \in [1..n -> Lines] /\ Chain' = q
  <2>1. Queue(L, n, q)
    BY <1>0
  <2>2. ChainOf(L) = q
    BY <2>1, ChainIs
  <2> QED
    BY <1>0, <2>1, <2>2, ChainNow DEF Queue
<1>2. orderOf' = EntriesOf(q, tag', Moving')
  BY <1>1, OrderNow
<1>3. PICK M, g : M = Moving' /\ g = tag'
  OBVIOUS
<1>4. ASSUME M = {} PROVE EntriesOf(q, g, M) = Entries(g, n, q)
  BY <1>1, <1>4, EntriesInList
<1>5. ASSUME NEW l, M = {l} PROVE EntriesOf(q, g, M) = Entries(g, n + 1, Put(l, n, q))
  BY <1>1, <1>5, EntriesMoving
<1> QED
  BY <1>2, <1>3, <1>4, <1>5

\* Taking a line out to be moved is the hit.
LEMMA MoveOutIsHit ==
  ASSUME IsFiniteSet(Lines), main = "accepting", IInv, ServingInv, FrontIsFresh,
         NEW t \in Threads, MoveOut(t)
  PROVE  LRU!Hit
<1>1. PICK n, q : \E k \in 1..n : TakenOut(t, n, q, k)
  BY TakesOut
<1>2. PICK k \in 1..n : TakenOut(t, n, q, k)
  BY <1>1
<1>3. /\ Queue(list, n, q) /\ Moving = {} /\ Queue(list', n - 1, Drop(k, n, q))
      /\ Moving' = {q[k]} /\ UNCHANGED <<tag, main>>
      /\ n \in Nat /\ q \in [1..n -> Lines] /\ n - 1 + 1 = n
  BY <1>2 DEF TakenOut, Queue
<1>4. PICK o, g : o = orderOf /\ g = tag
  OBVIOUS
<1>5. o = Entries(g, n, q)
  BY <1>3, <1>4, OrderIs
<1>6. orderOf' = Entries(g, n, Put(q[k], n - 1, Drop(k, n, q)))
  BY <1>3, <1>4, OrderIsNext
<1>7. Fronted(Entries(g, n, Put(q[k], n - 1, Drop(k, n, q))), o, k)
  BY <1>3, <1>5, MovedToFront
<1>8. /\ k \in DOMAIN o
      /\ orderOf' = <<o[k]>> \o (SubSeq(o, 1, k - 1) \o SubSeq(o, k + 1, Len(o)))
  BY <1>6, <1>7 DEF Fronted
<1>9. incomingOf = {} /\ incomingOf' = {}
  <2>1. pc[t] = "remove" /\ pc'[t] = "insert" /\ \A u \in Threads \ {t} : pc'[u] = pc[u]
    BY <1>2 DEF TakenOut, IInv, LockInv, ThreadTypes
  <2> QED
    BY <2>1, IncomingHere
<1> QED
  BY <1>3, <1>4, <1>8, <1>9 DEF LRU!Hit, LRU!RemoveAt

\* Putting it in front, where it counted as before, changes no entry.
LEMMA MoveInStutters ==
  ASSUME IsFiniteSet(Lines), main = "accepting", IInv, ServingInv, NEW t \in Threads, MoveIn(t)
  PROVE  UNCHANGED <<orderOf, incomingOf, main>>
<1>1. PICK n, q, l : PutBack(t, n, q, l)
  BY PutsBack
<1>2. /\ Queue(list, n, q) /\ Moving = {l} /\ Queue(list', n + 1, Put(l, n, q))
      /\ Moving' = {} /\ UNCHANGED <<tag, main>>
  BY <1>1 DEF PutBack
<1>3. incomingOf = {} /\ incomingOf' = {}
  <2>1. pc[t] = "insert" /\ pc'[t] = "unlockWU" /\ \A u \in Threads \ {t} : pc'[u] = pc[u]
    BY <1>1 DEF PutBack, IInv, LockInv, ThreadTypes
  <2> QED
    BY <2>1, IncomingHere
<1> QED
  BY <1>2, <1>3, OrderIs, OrderIsNext

\* A line that is only allocated is no entry yet; its object is to come in.
LEMMA AllocIsBring ==
  ASSUME IsFiniteSet(Lines), main = "accepting", IInv, ServingInv, NEW t \in Threads, Alloc(t)
  PROVE  LRU!Bring
<1>1. PICK l : Allotted(t, l)
  BY Allots
<1>2. /\ l \in Lines \ live /\ tag' = [tag EXCEPT ![l] = uri[t]]
      /\ Resident = live /\ Moving = {} /\ Moving' = {} /\ UNCHANGED <<list, main>>
  BY <1>1 DEF Allotted
<1>3. PICK n, q : Queue(list, n, q) /\ Holds(n, q, Resident \ Moving)
  BY DEF ServingInv, Linked
<1>4. n \in Nat /\ q \in [1..n -> Lines] /\ \A i \in 1..n : q[i] \in live
  BY <1>2, <1>3 DEF Queue, Holds
<1>5. PICK g, h : g = tag /\ h = tag'
  OBVIOUS
<1>6. \A i \in 1..n : h[q[i]] = g[q[i]]
  <2>1. tag \in [Lines -> Uris \cup {NoUri}]
    BY DEF IInv, LockInv, ThreadTypes
  <2>2. \A x \in Lines : x # l => h[x] = g[x]
    BY <1>2, <1>5, <2>1
  <2> QED
    BY <1>2, <1>4, <2>2
<1>7. Entries(h, n, q) = Entries(g, n, q)
  BY <1>4, <1>6, SameEntries
<1>8. Queue(list', n, q)
  <2>1. PICK L : L = list /\ list' = L
    BY <1>2
  <2> QED
    BY <1>3, <2>1
<1>9. orderOf = Entries(g, n, q)
  BY <1>2, <1>3, <1>5, OrderIs
<1>10. orderOf' = Entries(h, n, q)
  BY <1>2, <1>5, <1>8, OrderIsNext
<1>11. incomingOf = {} /\ incomingOf' = {uri[t]}
  <2>1. pc[t] = "alloc" /\ pc'[t] = "evict" /\ uri' = uri /\ \A u \in Threads \ {t} : pc'[u] = pc[u]
    BY <1>1 DEF Allotted, IInv, LockInv, ThreadTypes
  <2> QED
    BY <2>1, IncomingHere
<1>12. uri[t] \in Uris
  BY <1>1 DEF Allotted, ServingInv, InHand
<1> QED
  BY <1>2, <1>7, <1>9, <1>10, <1>11, <1>12 DEF LRU!Bring

\* What a thread that adds a line finds, in the terms of the LRU cache.
LEMMA AdderUses ==
  ASSUME IsFiniteSet(Lines), main = "accepting", IInv, ServingInv, NEW t \in Threads,
         NEW n, NEW q, NEW c, Adder(t, n, q, c)
  PROVE  /\ orderOf = Entries(tag, n, q) /\ n \in Nat /\ q \in [1..n -> Lines]
         /\ \A i \in 1..n : q[i] # c
         /\ LRU!Used \in Nat /\ remain_size = MAX_CACHE_SIZE - LRU!Used
<1>1. /\ Queue(list, n, q) /\ Holds(n, q, live \ {c}) /\ Moving = {}
      /\ remain_size = MAX_CACHE_SIZE - SpaceOf(tag, live \ {c})
  BY DEF Adder
<1>2. n \in Nat /\ q \in [1..n -> Lines] /\ Distinct(n, q)
  <2>1. Distinct(n, q)
    BY <1>1, QueueIsDistinct
  <2> QED
    BY <1>1, <2>1 DEF Queue
<1>3. orderOf = Entries(tag, n, q)
  BY <1>1, OrderIs
<1>4. PICK S : S = live \ {c}
  OBVIOUS
<1>5. S \in SUBSET Lines /\ IsFiniteSet(S) /\ Tagged(tag, S)
  <2>1. live \subseteq Lines
    BY DEF IInv, LockInv, ThreadTypes
  <2>2. IsFiniteSet(S)
    BY <1>4, FS_RemoveElement DEF ServingInv, LinesKept
  <2>3. Tagged(tag, S)
    BY <1>4 DEF ServingInv, LinesKept, Tagged
  <2> QED
    BY <1>4, <2>1, <2>2, <2>3
<1>6. Holds(n, q, S) /\ remain_size = MAX_CACHE_SIZE - SpaceOf(tag, S)
  BY <1>1, <1>4
<1>7. LRU!Used = SpaceOf(tag, S) /\ SpaceOf(tag, S) \in Nat
  BY <1>2, <1>3, <1>5, <1>6, UsedSpace
<1>8. \A i \in 1..n : q[i] # c
  BY <1>2, <1>4, <1>6 DEF Holds
<1> QED
  BY <1>2, <1>3, <1>6, <1>7, <1>8

\* An eviction takes the last entry, for want of room.
LEMMA EvictIsEvict ==
  ASSUME IsFiniteSet(Lines), main = "accepting", IInv, ServingInv, NEW t \in Threads, Evict(t)
  PROVE  LRU!Evict
<1>1. PICK n, q, c : Evicted(t, n, q, c)
  BY Evicts
<1>2. /\ Adder(t, n, q, c) /\ n > 1 /\ remain_size < SizeOf[uri[t]]
      /\ uri[t] \in Uris /\ SizeOf[uri[t]] \in Nat
      /\ Queue(list', n - 1, Drop(n, n, q)) /\ Moving' = {} /\ tag' = FreedTag(q[n]) /\ main' = main
  BY <1>1 DEF Evicted, Adder
<1>3. PICK o, g, h, used : o = orderOf /\ g = tag /\ h = tag' /\ used = LRU!Used
  OBVIOUS
<1>4. /\ o = Entries(g, n, q) /\ n \in Nat /\ q \in [1..n -> Lines]
      /\ used \in Nat /\ remain_size = MAX_CACHE_SIZE - used
  BY <1>2, <1>3, AdderUses
<1>5. used + SizeOf[uri[t]] > MAX_CACHE_SIZE
  <2>1. PICK size, room : size = SizeOf[uri[t]] /\ size \in Nat /\ room = remain_size
    BY <1>2
  <2>2. MAX_CACHE_SIZE \in Nat /\ room < size /\ room = MAX_CACHE_SIZE - used
    BY <1>2, <1>4, <2>1, ProxyCacheAssumption
  <2>3. used + size > MAX_CACHE_SIZE
    BY <1>4, <2>1, <2>2
  <2> QED
    BY <2>1, <2>3
<1>6. PICK p : p = Drop(n, n, q)
  OBVIOUS
<1>7. orderOf' = Entries(h, n - 1, p)
  BY <1>2, <1>3, <1>6, OrderIsNext
<1>8. \A i \in 1..(n - 1) : p[i] = q[i] /\ q[i] \in Lines /\ q[i] # q[n]
  <2>1. \A i \in 1..(n - 1) : p[i] = q[i] /\ i \in 1..n /\ i # n
    BY <1>4, <1>6 DEF Drop
  <2>2. \A i, j \in 1..n : q[i] = q[j] => i = j
    BY <1>2 DEF Adder, Queue
  <2>3. n \in 1..n
    BY <1>2, <1>4
  <2> QED
    BY <1>4, <2>1, <2>2, <2>3
<1>9. \A i \in 1..(n - 1) : h[p[i]] = g[p[i]]
  <2>1. g \in [Lines -> Uris \cup {NoUri}]
    BY <1>3 DEF IInv, LockInv, ThreadTypes
  <2>2. \A x \in Lines : x # q[n] => h[x] = g[x]
    BY <1>2, <1>3, <2>1 DEF FreedTag
  <2> QED
    BY <1>8, <2>2
<1>10. Entries(h, n - 1, p) = Entries(g, n - 1, p)
  <2>1. n - 1 \in Nat
    BY <1>2, <1>4
  <2> QED
    BY <1>9, <2>1, SameEntries
<1>11. Entries(g, n - 1, p) = SubSeq(o, 1, Len(o) - 1) /\ o # <<>>
  BY <1>2, <1>4, <1>6, LastDropped
<1>12. orderOf' = SubSeq(o, 1, Len(o) - 1) /\ o # <<>>
  BY <1>7, <1>10, <1>11
<1>13. incomingOf = {uri[t]} /\ incomingOf' = {uri[t]}
  <2>1. pc[t] = "evict" /\ pc' = pc /\ uri' = uri
    BY <1>1 DEF Evicted, Adder
  <2> QED
    BY <2>1, IncomingHere
<1> QED
  BY <1>2, <1>3, <1>5, <1>12, <1>13 DEF LRU!Evict, LRU!Front

\* A new line comes in front, with room for it.
LEMMA PlaceIsAdd ==
  ASSUME IsFiniteSet(Lines), main = "accepting", IInv, ServingInv, NEW t \in Threads, Place(t)
  PROVE  LRU!Add
<1>1. PICK n, q, c : Placed(t, n, q, c)
  BY Places
<1>2. /\ Adder(t, n, q, c) /\ SizeOf[uri[t]] <= remain_size
      /\ uri[t] \in Uris /\ SizeOf[uri[t]] \in Nat /\ c \in live /\ tag[c] = uri[t]
      /\ Queue(list', n + 1, Put(c, n, q)) /\ Moving' = {} /\ UNCHANGED <<tag, main>>
  BY <1>1 DEF Placed, Adder
<1>3. PICK o, g, used : o = orderOf /\ g = tag /\ used = LRU!Used
  OBVIOUS
<1>4. /\ o = Entries(g, n, q) /\ n \in Nat /\ q \in [1..n -> Lines] /\ \A i \in 1..n : q[i] # c
      /\ used \in Nat /\ remain_size = MAX_CACHE_SIZE - used
  BY <1>2, <1>3, AdderUses
<1>5. used + SizeOf[uri[t]] <= MAX_CACHE_SIZE
  <2>1. PICK size, room : size = SizeOf[uri[t]] /\ size \in Nat /\ room = remain_size
    BY <1>2
  <2>2. MAX_CACHE_SIZE \in Nat /\ size <= room /\ room = MAX_CACHE_SIZE - used
    BY <1>2, <1>4, <2>1, ProxyCacheAssumption
  <2>3. used + size <= MAX_CACHE_SIZE
    BY <1>4, <2>1, <2>2
  <2> QED
    BY <2>1, <2>3
<1>6. orderOf' = Entries(g, n + 1, Put(c, n, q))
  BY <1>2, <1>3, OrderIsNext
<1>7. orderOf' = <<[slot |-> c, object |-> uri[t]]>> \o o
  <2>1. Entries(g, n + 1, Put(c, n, q)) = <<[slot |-> c, object |-> g[c]]>> \o o
    BY <1>4, NewInFront
  <2> QED
    BY <1>2, <1>3, <1>6, <2>1
<1>8. c \notin {e.slot : e \in LRU!ToSet(o)}
  <2>1. DOMAIN o = 1..n /\ \A i \in 1..n : o[i].slot = q[i]
    BY <1>4 DEF Entries
  <2> QED
    BY <1>4, <2>1 DEF LRU!ToSet
<1>9. c \in Lines
  BY <1>2 DEF IInv, LockInv, ThreadTypes
<1>10. incomingOf = {uri[t]} /\ incomingOf' = {}
  <2>1. pc[t] = "evict" /\ pc'[t] = "unlockWI" /\ \A u \in Threads \ {t} : pc'[u] = pc[u]
    BY <1>1 DEF Placed, Adder, IInv, LockInv, ThreadTypes
  <2> QED
    BY <2>1, IncomingHere
<1> QED
  BY <1>2, <1>3, <1>5, <1>7, <1>8, <1>9, <1>10 DEF LRU!Add

\* No other step of a thread touches a line, nor one that another thread moves.
LEMMA QuietHands ==
  ASSUME IInv, NEW t \in Threads,
         \/ \E u \in Uris : Request(t, u)
         \/ Search(t) \/ LockWU(t) \/ UnlockWU(t) \/ UnlockRI(t) \/ Send(t)
         \/ UnlockMiss(t) \/ Fetch(t) \/ LockWI(t) \/ UnlockWI(t)
  PROVE  UNCHANGED <<list, live, tag, main, incomingOf>> /\ Moving' = Moving
<1>1. /\ pc \in [Threads -> PCs] /\ cursor \in [Threads -> Lines \cup {Null}]
      /\ uri \in [Threads -> Uris \cup {NoUri}]
  BY DEF IInv, LockInv, ThreadTypes
<1>2. UNCHANGED heap /\ main' = main
  BY DEF Search, Request, LockRI, LockRU, Walk, UnlockRU, UnlockMiss, LockWU, UnlockWU, UnlockRI,
    Send, Fetch, LockWI, UnlockWI, Undefined, Keep, others, heap
<1>3. \/ UNCHANGED <<pc, cursor, uri>>
      \/ /\ pc[t] \notin {"evict", "insert"} /\ pc'[t] \notin {"evict", "insert"}
         /\ \A u \in Threads \ {t} :
              pc'[u] = pc[u] /\ cursor'[u] = cursor[u] /\ uri'[u] = uri[u]
  <2>1. CASE \E u \in Uris : Request(t, u)
    BY <1>1, <2>1 DEF Request, At, Goto
  <2>2. CASE Search(t)
    <3>1. CASE LockRI(t) \/ LockRU(t)
      BY <1>1, <3>1 DEF LockRI, LockRU, At, Goto, Keep
    <3>2. CASE Walk(t)
      BY <1>1, <3>2 DEF Walk, At, Goto, Keep, Undefined
    <3>3. CASE UnlockRU(t)
      BY <1>1, <3>3 DEF UnlockRU, At, Goto, Keep
    <3> QED
      BY <2>2, <3>1, <3>2, <3>3 DEF Search
  <2>3. CASE LockWU(t) \/ UnlockWU(t) \/ UnlockRI(t) \/ UnlockMiss(t) \/ LockWI(t)
    BY <1>1, <2>3 DEF LockWU, UnlockWU, UnlockRI, UnlockMiss, LockWI, At, Goto, Keep
  <2>4. CASE Send(t) \/ Fetch(t) \/ UnlockWI(t)
    BY <1>1, <2>4 DEF Send, Fetch, UnlockWI, Finish, At, Goto, Keep, Undefined
  <2> QED
    BY <2>1, <2>2, <2>3, <2>4
<1>4. UNCHANGED <<list, live, tag>>
  BY <1>2 DEF heap
<1>5. CASE UNCHANGED <<pc, cursor, uri>>
  BY <1>2, <1>4, <1>5 DEF Moving, incomingOf
<1>6. CASE /\ pc[t] \notin {"evict", "insert"} /\ pc'[t] \notin {"evict", "insert"}
           /\ \A u \in Threads \ {t} :
              pc'[u] = pc[u] /\ cursor'[u] = cursor[u] /\ uri'[u] = uri[u]
  <2>1. Moving' = Moving
    BY <1>2, <1>4, <1>6, HandsSame
  <2>2. incomingOf' = incomingOf
    BY <1>6 DEF incomingOf
  <2> QED
    BY <1>2, <1>4, <2>1, <2>2
<1> QED
  BY <1>3, <1>5, <1>6

\* So they change no entry.
LEMMA QuietStutters ==
  ASSUME UNCHANGED <<list, tag, main>>, Moving' = Moving
  PROVE  UNCHANGED <<orderOf, main>>
<1>1. Chain' = Chain
  <2>1. PICK L : L = list /\ list' = L
    OBVIOUS
  <2> QED
    BY <2>1, ChainNow
<1>2. PICK c, g, M, m : /\ c = Chain /\ g = tag /\ M = Moving /\ m = main
                        /\ Chain' = c /\ tag' = g /\ Moving' = M /\ main' = m
  BY <1>1
<1>3. /\ orderOf = IF m # "accepting" THEN <<>> ELSE EntriesOf(c, g, M)
      /\ orderOf' = IF m # "accepting" THEN <<>> ELSE EntriesOf(c, g, M)
  BY <1>2, OrderNow
<1> QED
  BY <1>2, <1>3

\* All steps.
LEMMA StepIsLRU ==
  ASSUME Interrupted # "any time", IsFiniteSet(Lines), CacheInv, FrontIsFresh, [Next]_vars
  PROVE  LRU!Next \/ UNCHANGED <<orderOf, incomingOf, main # "accepting">>
<1>1. ASSUME NEW t \in Threads, Serve(t) \/ \E u \in Uris : Request(t, u)
      PROVE  LRU!Next \/ UNCHANGED <<orderOf, incomingOf, main # "accepting">>
  <2>1. main = "accepting" /\ main' = main /\ IInv /\ ServingInv
    BY <1>1, NobodyServes, StillAccepting DEF CacheInv
  <2>2. CASE MoveOut(t)
    BY <2>1, <2>2, MoveOutIsHit DEF LRU!Next
  <2>3. CASE MoveIn(t)
    BY <2>1, <2>3, MoveInStutters
  <2>4. CASE Alloc(t)
    BY <2>1, <2>4, AllocIsBring DEF LRU!Next
  <2>5. CASE Evict(t)
    BY <2>1, <2>5, EvictIsEvict DEF LRU!Next
  <2>6. CASE Place(t)
    BY <2>1, <2>6, PlaceIsAdd DEF LRU!Next
  <2>7. CASE ~MoveOut(t) /\ ~MoveIn(t) /\ ~Alloc(t) /\ ~Evict(t) /\ ~Place(t)
    <3>1. \/ \E u \in Uris : Request(t, u)
          \/ Search(t) \/ LockWU(t) \/ UnlockWU(t) \/ UnlockRI(t) \/ Send(t)
          \/ UnlockMiss(t) \/ Fetch(t) \/ LockWI(t) \/ UnlockWI(t)
      BY <1>1, <2>7 DEF Serve, Hit, Miss
    <3>2. UNCHANGED <<list, live, tag, main, incomingOf>> /\ Moving' = Moving
      BY <2>1, <3>1, QuietHands
    <3> QED
      BY <3>2, QuietStutters
  <2> QED
    BY <2>2, <2>3, <2>4, <2>5, <2>6, <2>7
<1>2. CASE Interrupt
  <2>1. main = "accepting" /\ main' # "accepting"
    BY <1>2 DEF Interrupt
  <2>2. orderOf' = <<>>
    BY <2>1, OrderNow
  <2>3. incomingOf = {} /\ incomingOf' = {}
    <3>1. pc' = pc /\ \A t \in Threads : pc[t] = "idle"
      <4>1. Interrupted = "at rest"
        BY <1>2, ProxyCacheAssumption DEF Interrupt
      <4> QED
        BY <1>2, <4>1 DEF Interrupt
    <3> QED
      BY <3>1 DEF incomingOf
  <2> QED
    BY <2>1, <2>2, <2>3 DEF LRU!Next, LRU!Close
<1>3. CASE FreeLine \/ ExitProcess
  <2>1. main # "accepting" /\ main' # "accepting"
    BY <1>3 DEF FreeLine, ExitProcess, Undefined
  <2>2. orderOf = <<>> /\ orderOf' = <<>>
    BY <2>1, OrderNow
  <2>3. incomingOf' = incomingOf
    <3>1. UNCHANGED <<pc, uri>>
      BY <1>3 DEF FreeLine, ExitProcess, Undefined
    <3> QED
      BY <3>1 DEF incomingOf
  <2> QED
    BY <2>1, <2>2, <2>3
<1>4. CASE UNCHANGED vars
  <2>1. UNCHANGED <<list, tag, main, incomingOf>> /\ Moving' = Moving
    BY <1>4 DEF vars, Moving, incomingOf
  <2> QED
    BY <2>1, QuietStutters
<1> QED
  BY <1>1, <1>2, <1>3, <1>4 DEF Next

\* At the start there are no entries.
LEMMA InitLRU == ASSUME IsFiniteSet(Lines), Init PROVE LRU!Init
<1>1. main = "accepting" /\ list = EmptyList /\ Moving = {}
  BY DEF Init, Moving
<1> DEFINE q == [i \in 1..0 |-> Null]
<1>2. Queue(list, 0, q)
  BY <1>1 DEF EmptyList, Queue
<1> HIDE DEF q
<1>3. orderOf = Entries(tag, 0, q)
  BY <1>1, <1>2, OrderIs
<1>4. Entries(tag, 0, q) = <<>>
  BY DEF Entries
<1>5. incomingOf = {}
  BY DEF Init, incomingOf
<1> QED
  BY <1>1, <1>3, <1>4, <1>5 DEF LRU!Init

(* The cache is an LRU cache of MAX_CACHE_SIZE bytes, for any number of       *)
(* threads, lines and objects of any sizes, each asked for twice at most: a   *)
(* hit, however its steps come between those of others, moves one entry to    *)
(* the front; only the last entry is evicted, and only as long as the object  *)
(* that is to come in does not fit (cache.c:58, cache.c:115).                *)
THEOREM CacheImplementsLRU ==
  ASSUME Interrupted # "any time", TwoUses, IsFiniteSet(Lines)
  PROVE  Spec => ImplementsLRU
<1>1. Spec => [](CacheInv /\ FreshInv)
  BY CacheSound
<1>2. CacheInv /\ FreshInv /\ [Next]_vars
        => [LRU!Next]_<<orderOf, incomingOf, main # "accepting">>
  BY Fronts, StepIsLRU
<1>3. Init => LRU!Init
  BY InitLRU
<1> QED
  BY <1>1, <1>2, <1>3, PTL DEF Spec, ImplementsLRU, LRU!Spec
=============================================================================
