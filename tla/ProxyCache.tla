----------------------------- MODULE ProxyCache -----------------------------
(* The proxy's threads on its cache: each serves one request after another,  *)
(* calling get_object, and add_object for what it had to fetch (proxy.c,     *)
(* cache.c).  Two readers-writer locks guard the list: read_insert_lock (I)  *)
(* and read_update_lock (U).  A freed line may be handed out again by malloc; *)
(* the first use of a line that is not allocated ends the behaviour, since   *)
(* the code's is undefined from there.                                       *)
EXTENDS CacheList, Integers, Sequences, FiniteSets, FiniteSetsExt

CONSTANTS Threads,          \* threads serving a connection
          Uris,             \* the objects clients ask for
          NoUri,
          SizeOf,            \* the size of each object
          MAX_CACHE_SIZE, MAX_OBJECT_SIZE,
          Requests,         \* bound of this model: how often each object is asked for
          Interrupted       \* when the user may type ctrl-c

ASSUME ProxyCacheAssumption ==
  /\ NoUri \notin Uris
  /\ SizeOf \in [Uris -> Nat] /\ Requests \in [Uris -> Nat]
  /\ MAX_CACHE_SIZE \in Nat /\ MAX_OBJECT_SIZE \in Nat
  /\ 2 * (MAX_OBJECT_SIZE - 1) <= MAX_CACHE_SIZE   \* the code's fits ten objects
  /\ Interrupted \in {"never", "at rest", "any time"}

VARIABLES
  list,             \* c_head, c_tail and the links
  live,             \* the lines that are allocated
  tag,              \* tag[l]: the uri stored in line l
  remain_size,
  rdI, wrI,         \* holders of read_insert_lock for reading, for writing
  rdU, wrU,         \* holders of read_update_lock
  pc, uri, cursor,  \* each thread's position, request, and cursor or new_line
  left,             \* requests still to come
  main, doomed,     \* what the main thread does; free_cache's cursor
  ub                \* the use of a freed line that happened, or "none"

locks  == <<rdI, wrI, rdU, wrU>>
heap   == <<list, live, tag, remain_size>>
others == <<left, main, doomed, ub>>
vars == <<list, live, tag, remain_size, rdI, wrI, rdU, wrU, pc, uri, cursor, left, main, doomed, ub>>

PCs == {"idle", "lockRI", "lockRU", "walk", "unlockRU", "unlockMiss", "fetch",
        "lockWU", "remove", "insert", "unlockWU", "unlockRI", "send",
        "lockWI", "alloc", "evict", "unlockWI"}

Init ==
  /\ list = EmptyList /\ live = {} /\ tag = [l \in Lines |-> NoUri]
  /\ remain_size = MAX_CACHE_SIZE
  /\ rdI = {} /\ wrI = {} /\ rdU = {} /\ wrU = {}
  /\ pc = [t \in Threads |-> "idle"] /\ uri = [t \in Threads |-> NoUri]
  /\ cursor = [t \in Threads |-> Null]
  /\ left = Requests /\ main = "accepting" /\ doomed = Null /\ ub = "none"

\* The process goes on: it has not exited and has done nothing undefined.
Up == main # "exited" /\ ub = "none"

At(t, here) == Up /\ pc[t] = here

Goto(t, there) == pc' = [pc EXCEPT ![t] = there]

Keep(t) == UNCHANGED <<uri, cursor, others>>

\* The thread is done with its request and its connection.
Finish(t) ==
  /\ pc' = [pc EXCEPT ![t] = "idle"]
  /\ uri' = [uri EXCEPT ![t] = NoUri] /\ cursor' = [cursor EXCEPT ![t] = Null]

\* Undefined behaviour: what was used through a dangling pointer.
Undefined(use) ==
  /\ ub' = use
  /\ UNCHANGED <<heap, locks, pc, uri, cursor, left, main, doomed>>

\* The C library's locks: readers share, a writer is alone, readers go first.
RdLock(rd, wr, t) == wr = {} /\ rd' = rd \cup {t}
WrLock(rd, wr, t) == wr = {} /\ rd = {} /\ wr' = {t}

Allocated(S) == S \subseteq live

\* free: the line's fields are garbage from here on.
FreedTag(l) == [tag EXCEPT ![l] = NoUri]

FreedLinks(L, l) == [L EXCEPT !.prev = SetAt(@, l, Null), !.next = SetAt(@, l, Null)]
-----------------------------------------------------------------------------
(* get_object and send_from_cache.                                           *)

\* The cursor is set to c_head before any lock is taken.
Request(t, u) ==
  /\ At(t, "idle") /\ left[u] > 0
  /\ left' = [left EXCEPT ![u] = @ - 1]
  /\ uri' = [uri EXCEPT ![t] = u] /\ cursor' = [cursor EXCEPT ![t] = list.head]
  /\ Goto(t, "lockRI")
  /\ UNCHANGED <<heap, locks, main, doomed, ub>>

LockRI(t) ==
  /\ At(t, "lockRI") /\ RdLock(rdI, wrI, t) /\ Goto(t, "lockRU")
  /\ UNCHANGED <<heap, wrI, rdU, wrU>> /\ Keep(t)

LockRU(t) ==
  /\ At(t, "lockRU") /\ RdLock(rdU, wrU, t) /\ Goto(t, "walk")
  /\ UNCHANGED <<heap, rdI, wrI, wrU>> /\ Keep(t)

\* One turn of the search: stop at the end or at the line of the uri, or go on.
Walk(t) ==
  /\ At(t, "walk")
  /\ \/ /\ cursor[t] = Null \/ (cursor[t] \in live /\ tag[cursor[t]] = uri[t])
        /\ Goto(t, "unlockRU") /\ UNCHANGED <<heap, locks>> /\ Keep(t)
     \/ /\ cursor[t] \in live /\ tag[cursor[t]] # uri[t]
        /\ cursor' = [cursor EXCEPT ![t] = list.next[cursor[t]]]
        /\ UNCHANGED <<heap, locks, pc, uri, others>>
     \/ cursor[t] # Null /\ cursor[t] \notin live /\ Undefined("walk")

\* Mutants: both locks are given up after the search; or none is, and
\* the thread waits for itself.
UnlockBoth(t) ==
  /\ At(t, "unlockRU") /\ rdU' = rdU \ {t} /\ rdI' = rdI \ {t}
  /\ Goto(t, IF cursor[t] = Null THEN "unlockMiss" ELSE "lockWU")
  /\ UNCHANGED <<heap, wrI, wrU>> /\ Keep(t)

UnlockNone(t) ==
  /\ At(t, "unlockRU")
  /\ Goto(t, IF cursor[t] = Null THEN "unlockMiss" ELSE "lockWU")
  /\ UNCHANGED <<heap, locks>> /\ Keep(t)

UnlockRU(t) ==
  /\ At(t, "unlockRU") /\ rdU' = rdU \ {t}
  /\ Goto(t, IF cursor[t] = Null THEN "unlockMiss" ELSE "lockWU")
  /\ UNCHANGED <<heap, rdI, wrI, wrU>> /\ Keep(t)

UnlockMiss(t) ==
  /\ At(t, "unlockMiss") /\ rdI' = rdI \ {t} /\ Goto(t, "fetch")
  /\ UNCHANGED <<heap, wrI, rdU, wrU>> /\ Keep(t)

\* Mutant: the line is moved under a read lock.
LockWUAsReader(t) ==
  /\ At(t, "lockWU") /\ RdLock(rdU, wrU, t) /\ Goto(t, "remove")
  /\ UNCHANGED <<heap, rdI, wrI, wrU>> /\ Keep(t)

LockWU(t) ==
  /\ At(t, "lockWU") /\ WrLock(rdU, wrU, t) /\ Goto(t, "remove")
  /\ UNCHANGED <<heap, rdI, wrI, rdU>> /\ Keep(t)

\* A hit moves the line to the head: taken out first ...
MoveOut(t) ==
  /\ At(t, "remove")
  /\ IF Allocated({cursor[t]} \cup RemoveWrites(list, cursor[t]))
     THEN /\ list' = remove_cache_line(list, cursor[t]) /\ Goto(t, "insert")
          /\ UNCHANGED <<live, tag, remain_size, locks>> /\ Keep(t)
     ELSE Undefined("links")

\* ... then put back in front.
MoveIn(t) ==
  /\ At(t, "insert")
  /\ IF Allocated({cursor[t]} \cup InsertWrites(list, cursor[t]))
     THEN /\ list' = insert_cache_line(list, cursor[t]) /\ Goto(t, "unlockWU")
          /\ UNCHANGED <<live, tag, remain_size, locks>> /\ Keep(t)
     ELSE Undefined("links")

UnlockWU(t) ==
  /\ At(t, "unlockWU") /\ wrU' = wrU \ {t} /\ Goto(t, "unlockRI")
  /\ UNCHANGED <<heap, rdI, wrI, rdU>> /\ Keep(t)

UnlockRI(t) ==
  /\ At(t, "unlockRI") /\ rdI' = rdI \ {t} /\ Goto(t, "send")
  /\ UNCHANGED <<heap, wrI, rdU, wrU>> /\ Keep(t)

\* The line is read again, with no lock held.
Send(t) ==
  /\ At(t, "send")
  /\ IF cursor[t] \in live
     THEN Finish(t) /\ UNCHANGED <<heap, locks, others>>
     ELSE Undefined("send")
-----------------------------------------------------------------------------
(* forward_request and add_object.                                           *)

\* The server has answered: an object below MAX_OBJECT_SIZE goes to the cache.
Fetch(t) ==
  /\ At(t, "fetch") /\ UNCHANGED <<heap, locks>>
  /\ IF SizeOf[uri[t]] < MAX_OBJECT_SIZE
     THEN Goto(t, "lockWI") /\ Keep(t)
     ELSE Finish(t) /\ UNCHANGED others

\* Mutant: a writer does not wait for the readers.
LockWIAmongReaders(t) ==
  /\ At(t, "lockWI") /\ wrI = {} /\ wrI' = {t} /\ Goto(t, "alloc")
  /\ UNCHANGED <<heap, rdI, rdU, wrU>> /\ Keep(t)

LockWI(t) ==
  /\ At(t, "lockWI") /\ WrLock(rdI, wrI, t) /\ Goto(t, "alloc")
  /\ UNCHANGED <<heap, rdI, rdU, wrU>> /\ Keep(t)

\* Any line that is not allocated, a freed one included; its links are NULL.
Alloc(t) ==
  /\ At(t, "alloc")
  /\ \E l \in Lines \ live :
       /\ live' = live \cup {l} /\ tag' = [tag EXCEPT ![l] = uri[t]]
       /\ cursor' = [cursor EXCEPT ![t] = l]
  /\ Goto(t, "evict")
  /\ UNCHANGED <<list, remain_size, locks, uri, others>>

\* Mutants: the head is evicted; the size of the evicted line is not given back.
EvictHead(t) ==
  /\ At(t, "evict") /\ remain_size < SizeOf[uri[t]] /\ list.head # Null
  /\ remain_size' = remain_size + SizeOf[tag[list.head]]
  /\ list' = FreedLinks(remove_cache_line(list, list.head), list.head)
  /\ live' = live \ {list.head} /\ tag' = FreedTag(list.head)
  /\ UNCHANGED <<locks, pc>> /\ Keep(t)

EvictForNothing(t) ==
  /\ At(t, "evict") /\ remain_size < SizeOf[uri[t]] /\ list.tail # Null
  /\ list' = FreedLinks(remove_cache_line(list, list.tail), list.tail)
  /\ live' = live \ {list.tail} /\ tag' = FreedTag(list.tail)
  /\ UNCHANGED <<remain_size, locks, pc>> /\ Keep(t)

\* One turn of evict_cache_line: the tail goes while the new line does not fit.
Evict(t) ==
  /\ At(t, "evict") /\ remain_size < SizeOf[uri[t]] /\ list.tail # Null
  /\ IF Allocated({list.tail} \cup RemoveWrites(list, list.tail))
     THEN /\ remain_size' = remain_size + SizeOf[tag[list.tail]]
          /\ list' = FreedLinks(remove_cache_line(list, list.tail), list.tail)
          /\ live' = live \ {list.tail} /\ tag' = FreedTag(list.tail)
          /\ UNCHANGED <<locks, pc>> /\ Keep(t)
     ELSE Undefined("links")

\* Mutant: the line is placed without making room.
PlaceWithoutRoom(t) ==
  /\ At(t, "evict")
  /\ remain_size' = remain_size - SizeOf[uri[t]]
  /\ list' = insert_cache_line(list, cursor[t]) /\ Goto(t, "unlockWI")
  /\ UNCHANGED <<live, tag, locks>> /\ Keep(t)

\* Room was made, or nothing is left to evict.
Place(t) ==
  /\ At(t, "evict") /\ (remain_size >= SizeOf[uri[t]] \/ list.tail = Null)
  /\ IF Allocated(InsertWrites(list, cursor[t]))
     THEN /\ remain_size' = remain_size - SizeOf[uri[t]]
          /\ list' = insert_cache_line(list, cursor[t]) /\ Goto(t, "unlockWI")
          /\ UNCHANGED <<live, tag, locks>> /\ Keep(t)
     ELSE Undefined("links")

UnlockWI(t) ==
  /\ At(t, "unlockWI") /\ wrI' = wrI \ {t} /\ Finish(t)
  /\ UNCHANGED <<heap, rdI, rdU, wrU, others>>
-----------------------------------------------------------------------------
(* sigint_handler, on the main thread: free_cache without a lock, then exit. *)

Interrupt ==
  /\ Up /\ main = "accepting" /\ Interrupted # "never"
  /\ Interrupted = "at rest" => /\ \A t \in Threads : pc[t] = "idle"
                               /\ \A u \in Uris : left[u] = 0
  /\ main' = "freeing" /\ doomed' = list.head
  /\ UNCHANGED <<heap, locks, pc, uri, cursor, left, ub>>

\* One turn of free_cache, which reads c_head again after its cursor.
FreeLine ==
  /\ Up /\ main = "freeing" /\ doomed # Null
  /\ IF Allocated({doomed, list.head})
     THEN LET rest == [list EXCEPT !.head = list.next[list.head]] IN
          /\ list' = FreedLinks(rest, doomed) /\ doomed' = rest.head
          /\ live' = live \ {doomed} /\ tag' = FreedTag(doomed)
          /\ UNCHANGED <<remain_size, locks, pc, uri, cursor, left, main, ub>>
     ELSE Undefined("free")

ExitProcess ==
  /\ Up /\ main = "freeing" /\ doomed = Null
  /\ main' = "exited" /\ list' = [list EXCEPT !.tail = Null]
  /\ UNCHANGED <<live, tag, remain_size, locks, pc, uri, cursor, left, doomed, ub>>
-----------------------------------------------------------------------------
Hit(t) == LockWU(t) \/ MoveOut(t) \/ MoveIn(t) \/ UnlockWU(t) \/ UnlockRI(t) \/ Send(t)

Search(t) == LockRI(t) \/ LockRU(t) \/ Walk(t) \/ UnlockRU(t)

Miss(t) == UnlockMiss(t) \/ Fetch(t) \/ LockWI(t) \/ Alloc(t) \/ Evict(t) \/ Place(t) \/ UnlockWI(t)

Serve(t) == Search(t) \/ Hit(t) \/ Miss(t)

Next ==
  \/ \E t \in Threads : Serve(t) \/ \E u \in Uris : Request(t, u)
  \/ Interrupt \/ FreeLine \/ ExitProcess

Spec == Init /\ [][Next]_vars

(* The scheduler runs every thread that can go on.                           *)
FairSpec == Spec /\ \A t \in Threads : WF_vars(Serve(t))
-----------------------------------------------------------------------------
(* Correctness.                                                              *)

TypeOK ==
  /\ list \in List /\ live \subseteq Lines /\ tag \in [Lines -> Uris \cup {NoUri}]
  /\ remain_size \in 0..MAX_CACHE_SIZE
  /\ rdI \subseteq Threads /\ wrI \subseteq Threads /\ rdU \subseteq Threads /\ wrU \subseteq Threads
  /\ pc \in [Threads -> PCs] /\ uri \in [Threads -> Uris \cup {NoUri}]
  /\ cursor \in [Threads -> Lines \cup {Null}] /\ left \in [Uris -> Nat]
  /\ main \in {"accepting", "freeing", "exited"} /\ doomed \in Lines \cup {Null}
  /\ ub \in {"none", "walk", "send", "links", "free"}

(* While a thread searches the list, holding both read locks, no other       *)
(* thread moves, adds or frees a line.                                       *)
TraversalFrozen ==
  [][\A t \in Threads : pc[t] = "walk" /\ pc'[t] = "walk"
       => UNCHANGED <<list, live, tag>>]_vars

(* The line a search has found is still allocated, and still the line of its *)
(* uri, when the thread comes to move it, although it gave up one lock and   *)
(* waited for another in between.                                            *)
FoundStays ==
  \A t \in Threads :
    pc[t] \in {"unlockRU", "lockWU", "remove", "insert"} /\ cursor[t] # Null
      => cursor[t] \in live /\ tag[cursor[t]] = uri[t]

(* The inductive invariant behind those two: who holds which lock at each    *)
(* point of get_object and add_object, and that a writer is alone.           *)
WithRI == {"lockRU", "walk", "unlockRU", "unlockMiss", "lockWU", "remove", "insert",
           "unlockWU", "unlockRI"}

LocksHeld ==
  \A t \in Threads :
    /\ (t \in rdI) <=> (pc[t] \in WithRI)
    /\ (t \in wrI) <=> (pc[t] \in {"alloc", "evict", "unlockWI"})
    /\ (t \in rdU) <=> (pc[t] \in {"walk", "unlockRU"})
    /\ (t \in wrU) <=> (pc[t] \in {"remove", "insert", "unlockWU"})

WritersAlone ==
  \A t, u \in Threads :
    /\ t \in wrI => u \notin rdI /\ (u \in wrI => u = t)
    /\ t \in wrU => u \notin rdU /\ (u \in wrU => u = t)

ThreadTypes ==
  /\ pc \in [Threads -> PCs] /\ uri \in [Threads -> Uris \cup {NoUri}]
  /\ cursor \in [Threads -> Lines \cup {Null}] /\ tag \in [Lines -> Uris \cup {NoUri}]
  /\ list \in List /\ live \subseteq Lines

AtRest ==
  Interrupted # "any time" /\ main # "accepting" =>
    /\ \A t \in Threads : pc[t] = "idle"
    /\ \A u \in Uris : left[u] = 0

LockInv == ThreadTypes /\ LocksHeld /\ WritersAlone /\ FoundStays

IInv == LockInv /\ AtRest

\* The new line of a thread inside add_object is not in the cache yet.
Resident == live \ {cursor[t] : t \in {t \in Threads : pc[t] = "evict"}}

\* remain_size is what the resident lines leave of the cache, whoever moves or evicts.
SpaceAccounted ==
  main = "accepting" => remain_size = MAX_CACHE_SIZE - MapThenSumSet(LAMBDA l : SizeOf[tag[l]], Resident)

\* The lines from c_head on, in order; as many as there are lines, if it is cyclic.
Chain ==
  LET at[n \in 1..(Cardinality(Lines) + 1)] ==
        IF n = 1 THEN list.head
        ELSE IF at[n - 1] = Null THEN Null ELSE list.next[at[n - 1]]
  IN  [n \in 1..Cardinality({n \in 1..Cardinality(Lines) : at[n] # Null}) |-> at[n]]

\* A line being moved, out of the list for the moment.
Moving == {cursor[t] : t \in {t \in Threads : pc[t] = "insert"}}

(* c_head and next lead through every resident line once, c_tail is the last *)
(* of them, and below the head prev leads back.                              *)
ListShape ==
  main = "accepting" /\ ub = "none" =>
    /\ Len(Chain) = Cardinality(Resident \ Moving)
    /\ {Chain[n] : n \in DOMAIN Chain} = Resident \ Moving
    /\ \A n \in DOMAIN Chain : n > 1 => list.prev[Chain[n]] = Chain[n - 1]
    /\ Chain # <<>> => list.tail = Chain[Len(Chain)]
    /\ Chain = <<>> => list.head = Null

\* The search never reads a line that has been freed.
WalkSafe == ub # "walk"

\* A shutdown at rest frees every line once, and leaves none.
FreesAll == main # "accepting" => ub = "none" /\ (main = "exited" => live = {})

\* Every request is answered: the locks never block all threads, and the search ends.
RequestsComplete == \A t \in Threads : pc[t] # "idle" ~> pc[t] = "idle" \/ ~Up

(* The cache is an LRU cache: a line taken out to be moved counts as in front *)
(* already, and a shutdown gives up all of it at once.                       *)
orderOf ==
  LET entry(l) == [slot |-> l, object |-> tag[l]]
  IN  IF main # "accepting" THEN <<>>
      ELSE [n \in 1..Cardinality(Moving) |-> entry(CHOOSE l \in Moving : TRUE)]
           \o [n \in DOMAIN Chain |-> entry(Chain[n])]

\* The object for which a thread is making room.
incomingOf == {uri[t] : t \in {t \in Threads : pc[t] = "evict"}}

LRU == INSTANCE LRUCache WITH Slots <- Lines, Objects <- Uris, Size <- SizeOf,
                              Capacity <- MAX_CACHE_SIZE, order <- orderOf,
                              incoming <- incomingOf, closed <- (main # "accepting")

ImplementsLRU == LRU!Spec
=============================================================================
