----------------------------- MODULE Allocator -----------------------------
(* What malloc, free and realloc promise their caller: blocks inside the     *)
(* heap, aligned, that hold what was asked for and do not overlap.           *)
EXTENDS Integers, Functions

CONSTANTS HeapEnd,     \* the heap never grows past this address (bytes)
          Alignment,
          Sizes        \* sizes the caller asks for

VARIABLE held          \* the caller's blocks: address -> size

Addresses == {a \in 1..HeapEnd : a % Alignment = 0}

Bytes(a, n) == a .. (a + n - 1)

Fits(h, a, n) ==
  /\ a + n <= HeapEnd
  /\ \A b \in DOMAIN h : Bytes(a, n) \cap Bytes(b, h[b]) = {}

Given(h, a, n) == [b \in DOMAIN h \cup {a} |-> IF b = a THEN n ELSE h[b]]

Without(h, a) == Restrict(h, DOMAIN h \ {a})

Init == held = << >>

Malloc == \E n \in Sizes, a \in Addresses : Fits(held, a, n) /\ held' = Given(held, a, n)

Free == \E a \in DOMAIN held : held' = Without(held, a)

Realloc ==
  \E a \in DOMAIN held, n \in Sizes, b \in Addresses :
    Fits(Without(held, a), b, n) /\ held' = Given(Without(held, a), b, n)

Next == Malloc \/ Free \/ Realloc

Spec == Init /\ [][Next]_held
=============================================================================
