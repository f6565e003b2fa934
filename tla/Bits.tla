-------------------------------- MODULE Bits --------------------------------
(* The bit puzzles (bits.c) for words of W bits and floats of one sign bit, E *)
(* exponent bits and F fraction bits: 32, 8 and 23 in the source, whose       *)
(* constants scale with them.  A behaviour is one call.  float_i2f runs step  *)
(* by step; the others have no loop.                                          *)
EXTENDS Words, Sequences, SequencesExt

CONSTANTS E, F,
          Others     \* bound of this model: the y and z conditional chooses from

ASSUME BitsAssumption ==
  /\ W = 1 + E + F /\ E \in Nat \ {0} /\ F \in Nat \ {0}
  /\ W \in {8, 16, 32} /\ Others \subseteq Word

VARIABLES call,     \* [puzzle, x, y, z]
          pc,       \* "called", "normalise", "done", or "endless"
          i2f,      \* copy, order and sign of float_i2f
          result

vars == <<call, pc, i2f, result>>

Single == {"tmin", "isTmax", "allOddBits", "negate", "isAsciiDigit", "logicalNeg", "howManyBits",
           "float_twice", "float_i2f", "float_f2i"}

Calls ==
  [puzzle : Single, x : Word, y : {{}}, z : {{}}]
  \cup [puzzle : {"bitXor", "isLessOrEqual"}, x : Word, y : Word, z : {{}}]
  \cup [puzzle : {"conditional"}, x : Word, y : Others, z : Others]
-----------------------------------------------------------------------------
(* The integer puzzles.                                                      *)

bitXor(x, y) == Not(x \cap y) \cap Not(Not(x) \cap Not(y))

tmin == ShiftLeft(One, W - 1)

isTmax(x) == Bang(Plus(Plus(x, x), AsWord(2)) \cup Bang(Not(x)))

\* 0xAA and the two doublings of it that fill the word, from a quarter of the word here.
allOddBits(x) ==
  LET quarter == {i \in 0..(W \div 4 - 1) : i % 2 = 1}
      temp1   == Plus(ShiftLeft(quarter, W \div 4), quarter)
      temp2   == Plus(ShiftLeft(temp1, W \div 2), temp1)
  IN  Bang(Xor(x \cap temp2, temp2))

negate(x) == Plus(Not(x), One)

isAsciiDigit(x) ==
  Bang(ShiftInt(Xor(x, AsWord(48)) \cup Plus(AsWord(10), Not(x \cap AsWord(15))), 4))

conditional(x, y, z) ==
  LET X == Plus(Bang(x), Not({})) IN (X \cap y) \cup (Not(X) \cap z)

isLessOrEqual(x, y) ==
  LET diffSign == x \cap Not(y)
      sameSign == Not(Xor(x, y) \cup Plus(Plus(y, Not(x)), One))
  IN  ShiftInt(diffSign \cup sameSign, W - 1) \cap One

logicalNeg(x) == ShiftInt(Not(x \cup negate(x)), W - 1) \cap One

\* The shifts tried: 16, 8, 4, 2 and 1 for 32 bits.
Halves == [n \in {k \in 1..5 : 2^k <= W} |-> W \div 2^n]

howManyBits(x) ==
  LET positive == Xor(x, ShiftInt(x, W - 1))
      Try(shift, half) == IF ShiftInt(positive, half + shift) = {} THEN shift ELSE shift + half
  IN  AsWord(FoldLeft(Try, 0, Halves) + Num(Bang(Bang(positive))) + 1)
-----------------------------------------------------------------------------
(* The floating-point puzzles.                                               *)

Exponent == F..(W - 2)
Fraction == 0..(F - 1)
Bias == 2^(E - 1) - 1

float_twice(uf) ==
  IF uf \cap Exponent = Exponent THEN uf
  ELSE IF uf \cap Exponent = {} THEN ShiftLeft(uf, 1) \cup (uf \cap SignBit)
  ELSE LET twice == Plus(uf, {F})
       IN  IF twice \cap Exponent = Exponent THEN twice \ Fraction ELSE twice

float_f2i(uf) ==
  LET order    == Num(ShiftRight(uf \cap Exponent, F)) - Bias
      fraction == uf \cap Fraction
      shifted  == IF order > F THEN ShiftLeft(fraction, order - F) ELSE ShiftInt(fraction, F - order)
      absolute == shifted \cup ShiftLeft(One, order)
  IN  IF order > W - 2 THEN TMin
      ELSE IF order < 0 THEN {}
      ELSE IF SignBit \subseteq uf THEN negate(absolute) ELSE absolute

Answer ==
  LET x == call.x  y == call.y  z == call.z
  IN  CASE call.puzzle = "bitXor"        -> bitXor(x, y)
        [] call.puzzle = "tmin"          -> tmin
        [] call.puzzle = "isTmax"        -> isTmax(x)
        [] call.puzzle = "allOddBits"    -> allOddBits(x)
        [] call.puzzle = "negate"        -> negate(x)
        [] call.puzzle = "isAsciiDigit"  -> isAsciiDigit(x)
        [] call.puzzle = "conditional"   -> conditional(x, y, z)
        [] call.puzzle = "isLessOrEqual" -> isLessOrEqual(x, y)
        [] call.puzzle = "logicalNeg"    -> logicalNeg(x)
        [] call.puzzle = "howManyBits"   -> howManyBits(x)
        [] call.puzzle = "float_twice"   -> float_twice(x)
        [] call.puzzle = "float_f2i"     -> float_f2i(x)
-----------------------------------------------------------------------------
Init ==
  /\ call \in Calls /\ pc = "called" /\ result = {}
  /\ i2f = [copy |-> {}, order |-> 0, sign |-> {}]

Return(value) == pc' = "done" /\ result' = value /\ UNCHANGED call

\* A puzzle without a loop.
Compute ==
  /\ pc = "called" /\ call.puzzle # "float_i2f"
  /\ Return(Answer) /\ UNCHANGED i2f

\* To the loop, with the absolute value.
Normalise(copy, sign) ==
  /\ pc' = "normalise" /\ i2f' = [copy |-> copy, order |-> Bias + W - 1, sign |-> sign]
  /\ UNCHANGED <<call, result>>

\* Mutant: 0 has no bit to find.
Begin_with_zero ==
  /\ pc = "called" /\ call.puzzle = "float_i2f"
  /\ IF SignBit \subseteq call.x THEN Normalise(negate(call.x), SignBit) ELSE Normalise(call.x, {})

Begin ==
  /\ pc = "called" /\ call.puzzle = "float_i2f"
  /\ \/ call.x = {} /\ Return(call.x) /\ UNCHANGED i2f
     \/ call.x # {} /\ SignBit \subseteq call.x /\ Normalise(negate(call.x), SignBit)
     \/ call.x # {} /\ ~(SignBit \subseteq call.x) /\ Normalise(call.x, {})

\* -copy overflows for the least int: undefined.  A compiler that takes copy for positive
\* then drops the test of the sign bit, and the loop has no end.
Overflow ==
  /\ pc = "called" /\ call.puzzle = "float_i2f" /\ call.x = TMin
  /\ pc' = "endless" /\ UNCHANGED <<call, i2f, result>>

Shift ==
  /\ pc = "normalise" /\ ~(SignBit \subseteq i2f.copy)
  /\ i2f' = [i2f EXCEPT !.copy = ShiftLeft(@, 1), !.order = (@ - 1) % 2^W]
  /\ UNCHANGED <<call, pc, result>>

\* Mutant: halves are always rounded down.
RoundsUp_past_half(fraction, cut) == Num(cut) > 2^(E - 1)

\* Is the fraction rounded up?  E bits are cut off, a half to the even neighbour.
RoundsUp(fraction, cut) == Num(cut) > 2^(E - 1) - Num(fraction \cap One)

Round ==
  LET fraction == ShiftInt(i2f.copy, E)
      cut      == i2f.copy \cap 0..(E - 1)
      rounded  == IF RoundsUp(fraction, cut) THEN Plus(fraction, One) ELSE fraction
      order    == IF RoundsUp(fraction, cut) /\ rounded = {} THEN i2f.order + 1 ELSE i2f.order
  IN  /\ pc = "normalise" /\ SignBit \subseteq i2f.copy
      /\ Return((rounded \cap Fraction) \cup ShiftLeft(AsWord(order), F) \cup i2f.sign)
      /\ UNCHANGED i2f

Loop == Begin \/ Shift \/ Round

Next == Compute \/ Loop \/ Overflow

Spec == Init /\ [][Next]_vars

(* A function that is called runs; only float_i2f can take long.             *)
FairSpec == Spec /\ WF_vars(Loop)
-----------------------------------------------------------------------------
(* What the header comments promise, in numbers.                             *)

Truth(claim) == IF claim THEN One ELSE {}

\* The floats that are not NaN, and their values as multiples of the least positive one;
\* infinity counts as the number that would come next.
Finite(uf) == ~(Exponent \subseteq uf)
NaN(uf) == Exponent \subseteq uf /\ uf \cap Fraction # {}

Magnitude ==
  [uf \in Word |->
     LET e == Num(ShiftRight(uf \cap Exponent, F))
     IN  IF e = 0 THEN Num(uf \cap Fraction) ELSE (2^F + Num(uf \cap Fraction)) * 2^(e - 1)]

Unit == 2^(Bias + F - 1)    \* the value of 1.0

Distance(a, b) == IF a < b THEN b - a ELSE a - b

\* The float nearest to a magnitude, of two the even one.
IsNearest(uf, magnitude, sign) ==
  /\ ~NaN(uf) /\ uf \cap SignBit = sign
  /\ \A other \in SUBSET TMax :
       ~NaN(other) =>
         LET here  == Distance(Magnitude[uf], magnitude)
             there == Distance(Magnitude[other], magnitude)
         IN  here < there \/ (here = there /\ (uf \ SignBit = other \/ ~(One \subseteq uf)))

Absolute(n) == IF n < 0 THEN -n ELSE n

Sign(x) == x \cap SignBit

Truncated(uf) ==
  IF Sign(uf) = {} THEN Magnitude[uf] \div Unit ELSE -(Magnitude[uf] \div Unit)

\* The number of bits that hold n in 2s complement.
Enough(bits, n) == -(2^(bits - 1)) <= n /\ n < 2^(bits - 1)

Means(c, r) ==
  LET x == Int2s(c.x)  y == Int2s(c.y)
  IN  CASE c.puzzle = "bitXor"        -> \A i \in Bit : i \in r <=> ((i \in c.x) # (i \in c.y))
        [] c.puzzle = "tmin"          -> \A w \in Word : Int2s(r) <= Int2s(w)
        [] c.puzzle = "isTmax"        -> r = Truth(\A w \in Word : Int2s(w) <= x)
        [] c.puzzle = "allOddBits"    -> r = Truth(\A i \in Bit : i % 2 = 1 => i \in c.x)
        [] c.puzzle = "negate"        -> r = AsWord(-x)
        [] c.puzzle = "isAsciiDigit"  -> r = Truth(x \in 48..57)
        [] c.puzzle = "conditional"   -> r = IF x # 0 THEN c.y ELSE c.z
        [] c.puzzle = "isLessOrEqual" -> r = Truth(x <= y)
        [] c.puzzle = "logicalNeg"    -> r = Truth(x = 0)
        [] c.puzzle = "howManyBits"   -> Int2s(r) = Min({bits \in 1..W : Enough(bits, x)})
        [] c.puzzle = "float_twice"   ->
             IF NaN(c.x) \/ ~Finite(c.x) THEN r = c.x ELSE IsNearest(r, 2 * Magnitude[c.x], Sign(c.x))
        [] c.puzzle = "float_i2f"     -> IsNearest(r, Absolute(x) * Unit, Sign(c.x))
        [] c.puzzle = "float_f2i"     ->
             r = IF Finite(c.x) /\ Enough(W, Truncated(c.x)) THEN AsWord(Truncated(c.x)) ELSE TMin

\* Every puzzle gives what its header comment says, for every argument: the integer ones
\* where sums overflow too, the floats for subnormal numbers, infinities, numbers half way
\* between two floats and numbers out of range.
AnswersRight == pc = "done" => Means(call, result)

\* float_i2f finds a sign bit to stop at, whatever its argument but the least int.
Returns == pc = "called" /\ call.puzzle = "float_i2f" /\ call.x # TMin ~> pc = "done"
=============================================================================
