------------------------------ MODULE LRUCache ------------------------------
(* What a least-recently-used cache of bounded size promises: a sequence of  *)
(* entries, the most recently used first, each in the place of its last use; *)
(* entries leave only from the other end, and only as long as there is no    *)
(* room for the object that is to come in.                                   *)
EXTENDS Integers, SequencesExt

CONSTANTS Slots,      \* names of entries
          Objects, Size, Capacity

VARIABLES order,      \* sequence of [slot, object]
          incoming,   \* the object that is to come in, if any
          closed      \* the cache has been given up

Used == FoldFunction(LAMBDA e, sum : Size[e.object] + sum, 0, order)

Init == order = <<>> /\ incoming = {} /\ closed = FALSE

Hit ==
  /\ ~closed /\ closed' = closed /\ incoming = {} /\ incoming' = incoming
  /\ \E n \in DOMAIN order : order' = <<order[n]>> \o RemoveAt(order, n)

Bring ==
  /\ ~closed /\ closed' = closed /\ incoming = {} /\ order' = order
  /\ \E o \in Objects : incoming' = {o}

Evict ==
  /\ ~closed /\ closed' = closed /\ incoming' = incoming
  /\ order # <<>> /\ \E o \in incoming : Used + Size[o] > Capacity
  /\ order' = Front(order)

Add ==
  /\ ~closed /\ closed' = closed /\ incoming' = {}
  /\ \E s \in Slots, o \in incoming :
       /\ Used + Size[o] <= Capacity
       /\ s \notin {e.slot : e \in ToSet(order)}
       /\ order' = <<[slot |-> s, object |-> o]>> \o order

Close ==
  /\ ~closed /\ closed' = TRUE /\ incoming = {} /\ incoming' = incoming
  /\ order' = <<>>

Next == Hit \/ Bring \/ Evict \/ Add \/ Close

Spec == Init /\ [][Next]_<<order, incoming, closed>>
=============================================================================
