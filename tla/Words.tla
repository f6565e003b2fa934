-------------------------------- MODULE Words --------------------------------
(* Words of W bits as C computes with them (bits.c): a word is the set of the *)
(* positions of its ones, so &, | and ~ are \cap, \cup and Not.  Sums wrap.   *)
EXTENDS Integers, FiniteSetsExt

CONSTANT W

Bit == 0..(W - 1)
Word == SUBSET Bit
SignBit == {W - 1}

\* As unsigned.
Num(x) == LET Weight(i) == 2^i IN MapThenSumSet(Weight, x)

\* As int: 2s complement.
Int2s(x) == Num(x) - (IF SignBit \subseteq x THEN 2^W ELSE 0)

\* The word that holds a number, modulo 2^W.
AsWord(n) == {i \in Bit : (n \div 2^i) % 2 = 1}

Not(x) == Bit \ x
Xor(x, y) == (x \cup y) \ (x \cap y)
Plus(x, y) == AsWord(Num(x) + Num(y))

ShiftLeft(x, n) == {i \in Bit : i - n \in x}

\* Of an unsigned, and of an int: then the sign bit fills up.
ShiftRight(x, n) == {i \in Bit : i + n \in x}
ShiftInt(x, n) == ShiftRight(x, n) \cup (IF SignBit \subseteq x THEN {i \in Bit : i + n >= W} ELSE {})

One == {0}

\* The operator !.
Bang(x) == IF x = {} THEN One ELSE {}

TMin == SignBit
TMax == Not(SignBit)
=============================================================================
