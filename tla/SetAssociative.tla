--------------------------- MODULE SetAssociative ---------------------------
(* What a set-associative cache of S sets of E blocks promises, whichever    *)
(* places its blocks are in: a block that is there hits and stays, one that  *)
(* is not comes in above all others of its set, and if the set is full one   *)
(* of the lowest rank leaves it.  A hit raises a block by one rank.  A       *)
(* modify accesses its block twice.                                          *)
EXTENDS Integers, FiniteSetsExt

CONSTANTS Addresses, Kinds

VARIABLES geometry,    \* [S, E, B], B the bytes of a block
          resident,    \* the blocks in the cache
          rank,        \* of each of them
          hits, misses, evictions

vars == <<geometry, resident, rank, hits, misses, evictions>>

SameSet(block) == {other \in resident : (other - block) % geometry.S = 0}

Init ==
  /\ resident = {} /\ rank = [block \in {} |-> 0]
  /\ hits = 0 /\ misses = 0 /\ evictions = 0

Again(kind) == IF kind = "M" THEN 1 ELSE 0

Hit(block, kind) ==
  /\ block \in resident /\ hits' = hits + 1 + Again(kind)
  /\ rank' = [rank EXCEPT ![block] = @ + 1]
  /\ UNCHANGED <<geometry, resident, misses, evictions>>

\* The rank of a block that comes in among others.
Top(others) == Max({0} \cup {rank[other] : other \in others}) + 1

Lowest(others) == {victim \in others : \A other \in others : rank[victim] <= rank[other]}

Miss(block, kind) ==
  /\ block \notin resident
  /\ hits' = hits + Again(kind) /\ misses' = misses + 1
  /\ IF Cardinality(SameSet(block)) < geometry.E
     THEN resident' = resident \cup {block} /\ UNCHANGED evictions
     ELSE /\ evictions' = evictions + 1
          /\ \E victim \in Lowest(SameSet(block)) : resident' = (resident \ {victim}) \cup {block}
  /\ rank' = [b \in resident' |-> IF b = block THEN Top(SameSet(block)) ELSE rank[b]]
  /\ UNCHANGED geometry

Access(addr, kind) ==
  LET block == addr \div geometry.B IN Hit(block, kind) \/ Miss(block, kind)

Next == \E addr \in Addresses, kind \in Kinds : Access(addr, kind)

Spec == Init /\ [][Next]_vars
=============================================================================
