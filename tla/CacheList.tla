----------------------------- MODULE CacheList -----------------------------
(* The proxy cache's doubly linked list (cache.c) as operators on a record:  *)
(* c_head, c_tail and the prev and next fields of every cache line.          *)

CONSTANTS Lines,   \* the cache lines malloc may hand out
          Null     \* the null pointer

ASSUME CacheListAssumption == Null \notin Lines

List == [head : Lines \cup {Null}, tail : Lines \cup {Null},
         prev : [Lines -> Lines \cup {Null}], next : [Lines -> Lines \cup {Null}]]

EmptyList == [head |-> Null, tail |-> Null,
              prev |-> [l \in Lines |-> Null], next |-> [l \in Lines |-> Null]]

\* f with pointer p's entry set to v; writing through a null pointer is skipped.
SetAt(f, p, v) == [l \in Lines |-> IF l = p THEN v ELSE f[l]]

\* Mutants: the old head does not learn its new neighbour, or the target its.
InsertWithoutPrev(L, t) ==
  IF L.head = Null THEN [L EXCEPT !.head = t, !.tail = t]
  ELSE [L EXCEPT !.head = t, !.next = SetAt(@, t, L.head)]

InsertWithoutNext(L, t) ==
  IF L.head = Null THEN [L EXCEPT !.head = t, !.tail = t]
  ELSE [L EXCEPT !.head = t, !.prev = SetAt(@, L.head, t)]

\* insert_cache_line: the target's stale prev stays, and its next in an empty list.
insert_cache_line(L, t) ==
  IF L.head = Null THEN [L EXCEPT !.head = t, !.tail = t]
  ELSE [L EXCEPT !.head = t, !.next = SetAt(@, t, L.head), !.prev = SetAt(@, L.head, t)]

\* remove_cache_line: the target's own prev and next stay as they were.
remove_cache_line(L, t) ==
  [head |-> IF L.head = t THEN L.next[t] ELSE L.head,
   tail |-> IF L.tail = t THEN L.prev[t] ELSE L.tail,
   next |-> SetAt(L.next, L.prev[t], L.next[t]),
   prev |-> SetAt(L.prev, L.next[t], L.prev[t])]

\* The lines whose fields these two write to, besides the target's own.
InsertWrites(L, t) == {L.head} \ {Null}

RemoveWrites(L, t) == {L.prev[t], L.next[t]} \ {Null}
=============================================================================
