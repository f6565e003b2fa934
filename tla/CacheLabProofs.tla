--------------------------- MODULE CacheLabProofs ---------------------------
(* The simulator is a set-associative cache, for every shape and trace, and   *)
(* the transposes end with the transpose and stay inside their matrices.      *)
EXTENDS CacheLab, FiniteSetTheorems, WellFoundedInduction, TLAPS

-----------------------------------------------------------------------------
(* Numbers.                                                                  *)

\* The least element of a set of numbers.
LEMMA LeastIs ==
  ASSUME NEW S \in SUBSET Nat, S # {}
  PROVE  Least(S) \in S /\ \A i \in S : Least(S) <= i
<1>1. PICK i \in S : \A j \in S : ~ (<<j, i>> \in OpToRel(<, Nat))
  <2>1. IsWellFoundedOn(OpToRel(<, Nat), Nat)
    BY NatLessThanWellFounded
  <2> QED
    BY <2>1, WFMin
<1>2. \A j \in S : ~ (j < i)
  BY <1>1 DEF OpToRel
<1>3. \A j \in S : i <= j
  BY <1>2
<1> QED
  BY <1>3 DEF Least

Doubling(f, n) == \A i \in 0..n : f[i] = IF i = 0 THEN 1 ELSE 2 * f[i - 1]

\* Powers of two up to any number.
LEMMA DoublesExist == \A n \in Nat : \E f \in [0..n -> Nat] : Doubling(f, n)
<1> DEFINE Bad == {n \in Nat : ~ \E f \in [0..n -> Nat] : Doubling(f, n)}
<1> SUFFICES ASSUME Bad # {} PROVE FALSE
  OBVIOUS
<1>1. PICK n \in Bad : \A m \in Bad : n <= m
  <2>1. Bad \in SUBSET Nat
    OBVIOUS
  <2> QED
    BY <2>1, LeastIs
<1>2. n \in Nat
  BY <1>1
<1>3. CASE n = 0
  <2>1. [i \in 0..0 |-> 1] \in [0..0 -> Nat] /\ Doubling([i \in 0..0 |-> 1], 0)
    BY DEF Doubling
  <2> QED
    BY <1>1, <1>3, <2>1
<1>4. CASE n > 0
  <2>1. n - 1 \in Nat /\ n - 1 \notin Bad
    BY <1>1, <1>2, <1>4
  <2>2. PICK f \in [0..(n - 1) -> Nat] : Doubling(f, n - 1)
    BY <2>1
  <2> DEFINE g == [i \in 0..n |-> IF i = n THEN 2 * f[n - 1] ELSE f[i]]
  <2>3. g \in [0..n -> Nat]
    BY <1>2, <1>4, <2>2
  <2>4. Doubling(g, n)
    BY <1>2, <1>4, <2>2 DEF Doubling
  <2> QED
    BY <1>1, <2>3, <2>4
<1> QED
  BY <1>2, <1>3, <1>4

\* There is one way to double.
LEMMA DoublesAgree ==
  ASSUME NEW m \in Nat, NEW n \in Nat, NEW f, NEW g, Doubling(f, m), Doubling(g, n)
  PROVE  \A i \in Nat : i <= m /\ i <= n => f[i] = g[i]
<1> DEFINE Bad == {i \in Nat : i <= m /\ i <= n /\ f[i] # g[i]}
<1> SUFFICES ASSUME Bad # {} PROVE FALSE
  OBVIOUS
<1>1. PICK i \in Bad : \A j \in Bad : i <= j
  <2>1. Bad \in SUBSET Nat
    OBVIOUS
  <2> QED
    BY <2>1, LeastIs
<1>2. i \in Nat /\ i <= m /\ i <= n /\ f[i] # g[i]
  BY <1>1
<1>3. i \in 0..m /\ i \in 0..n
  BY <1>2
<1>4. i # 0
  BY <1>2, <1>3 DEF Doubling
<1>5. i - 1 \in Nat /\ i - 1 \notin Bad
  BY <1>1, <1>2, <1>4
<1>6. f[i - 1] = g[i - 1]
  BY <1>2, <1>5
<1> QED
  BY <1>2, <1>3, <1>4, <1>6 DEF Doubling

IsPow2(f) == f = [n \in Nat |-> IF n = 0 THEN 1 ELSE 2 * f[n - 1]]

\* pow2 is the function its definition describes.
LEMMA Pow2Is == \A n \in Nat : pow2[n] \in Nat /\ pow2[n] = IF n = 0 THEN 1 ELSE 2 * pow2[n - 1]
<1> DEFINE d(n) == CHOOSE f \in [0..n -> Nat] : Doubling(f, n)
           p == [n \in Nat |-> d(n)[n]]
<1>1. \A n \in Nat : d(n) \in [0..n -> Nat] /\ Doubling(d(n), n)
  BY DoublesExist
<1> HIDE DEF d
<1>2. \A n \in Nat : p[n] \in Nat
  BY <1>1
<1>3. \A n \in Nat : p[n] = IF n = 0 THEN 1 ELSE 2 * p[n - 1]
  <2> SUFFICES ASSUME NEW n \in Nat PROVE p[n] = IF n = 0 THEN 1 ELSE 2 * p[n - 1]
    OBVIOUS
  <2>1. d(n)[n] = IF n = 0 THEN 1 ELSE 2 * d(n)[n - 1]
    BY <1>1 DEF Doubling
  <2>2. CASE n # 0
    <3>1. n - 1 \in Nat /\ n - 1 <= n
      BY <2>2
    <3>2. d(n)[n - 1] = d(n - 1)[n - 1]
      BY <1>1, <3>1, DoublesAgree
    <3> QED
      BY <2>1, <2>2, <3>1, <3>2
  <2> QED
    BY <2>1, <2>2
<1> HIDE DEF p
<1>4. \E f : IsPow2(f)
  <2>1. p = [n \in Nat |-> p[n]]
    BY DEF p
  <2>2. [n \in Nat |-> p[n]] = [n \in Nat |-> IF n = 0 THEN 1 ELSE 2 * p[n - 1]]
    BY <1>3
  <2>3. IsPow2(p)
    BY <2>1, <2>2 DEF IsPow2
  <2> QED
    BY <2>3
<1>5. IsPow2(pow2)
  BY <1>4 DEF pow2, IsPow2
<1>6. \A n \in Nat : pow2[n] = IF n = 0 THEN 1 ELSE 2 * pow2[n - 1]
  BY <1>5 DEF IsPow2
<1>7. \A n \in Nat : pow2[n] = p[n]
  <2> SUFFICES ASSUME NEW n \in Nat PROVE pow2[n] = p[n]
    OBVIOUS
  <2>1. Doubling(pow2, n) /\ Doubling(p, n)
    BY <1>3, <1>6 DEF Doubling
  <2> QED
    BY <2>1, DoublesAgree
<1> QED
  BY <1>2, <1>6, <1>7

\* Powers of two are positive.
LEMMA Pow2Positive == \A n \in Nat : pow2[n] \in Nat \ {0}
<1> DEFINE Bad == {n \in Nat : pow2[n] = 0}
<1> SUFFICES ASSUME Bad # {} PROVE FALSE
  BY Pow2Is
<1>1. PICK n \in Bad : \A m \in Bad : n <= m
  <2>1. Bad \in SUBSET Nat
    OBVIOUS
  <2> QED
    BY <2>1, LeastIs
<1>2. n \in Nat /\ pow2[n] = 0 /\ n # 0
  BY <1>1, Pow2Is
<1>3. n - 1 \in Nat /\ n - 1 \notin Bad
  BY <1>1, <1>2
<1> QED
  BY <1>2, <1>3, Pow2Is

\* The exponents of a product add up.
LEMMA Pow2Sum == \A m, n \in Nat : pow2[m + n] = pow2[m] * pow2[n]
<1> SUFFICES ASSUME NEW m \in Nat PROVE \A n \in Nat : pow2[m + n] = pow2[m] * pow2[n]
  OBVIOUS
<1> DEFINE Bad == {n \in Nat : pow2[m + n] # pow2[m] * pow2[n]}
<1> SUFFICES ASSUME Bad # {} PROVE FALSE
  OBVIOUS
<1>1. PICK n \in Bad : \A k \in Bad : n <= k
  <2>1. Bad \in SUBSET Nat
    OBVIOUS
  <2> QED
    BY <2>1, LeastIs
<1>2. n \in Nat /\ pow2[m + n] # pow2[m] * pow2[n]
  BY <1>1
<1>3. n # 0
  <2>1. pow2[0] = 1 /\ pow2[m] \in Nat
    BY Pow2Is
  <2> QED
    BY <1>2, <2>1
<1>4. n - 1 \in Nat /\ n - 1 \notin Bad
  BY <1>1, <1>2, <1>3
<1>5. pow2[m + (n - 1)] = pow2[m] * pow2[n - 1]
  BY <1>4
<1>6. pow2[m + n] = 2 * pow2[m + (n - 1)]
  <2>1. m + n \in Nat /\ m + n # 0 /\ (m + n) - 1 = m + (n - 1)
    BY <1>2, <1>3
  <2> QED
    BY <2>1, Pow2Is
<1>7. pow2[n] = 2 * pow2[n - 1]
  BY <1>2, <1>3, Pow2Is
<1>8. \A x, y \in Nat : x * (2 * y) = 2 * (x * y)
  OBVIOUS
<1>9. pow2[m] \in Nat /\ pow2[n - 1] \in Nat
  BY <1>4, Pow2Is
<1> QED
  BY <1>2, <1>5, <1>6, <1>7, <1>8, <1>9

\* What division leaves.
LEMMA Division ==
  ASSUME NEW a \in Int, NEW d \in Nat \ {0}
  PROVE  /\ a \div d \in Int /\ a % d \in 0..(d - 1) /\ a = d * (a \div d) + (a % d)
         /\ a \in Nat => a \div d \in Nat
OBVIOUS

\* The same for numbers that are not negative.
LEMMA NatDivision ==
  \A a \in Nat, d \in Nat \ {0} :
     a \div d \in Nat /\ a % d \in 0..(d - 1) /\ a = d * (a \div d) + (a % d)
<1> SUFFICES ASSUME NEW a \in Nat, NEW d \in Nat \ {0}
             PROVE  a \div d \in Nat /\ a % d \in 0..(d - 1) /\ a = d * (a \div d) + (a % d)
  OBVIOUS
<1>1. a \in Int
  OBVIOUS
<1> QED
  BY <1>1, Division, Zenon

\* A number has one quotient and one remainder.
LEMMA OneQuotient ==
  ASSUME NEW d \in Nat \ {0}, NEW q \in Int, NEW p \in Int, NEW r \in 0..(d - 1), NEW t \in 0..(d - 1),
         d * q + r = d * p + t
  PROVE  q = p /\ r = t
<1>1. \A x, y \in Int : x < y => d * y >= d * x + d
  <2> SUFFICES ASSUME NEW x \in Int, NEW y \in Int, x < y PROVE d * y >= d * x + d
    OBVIOUS
  <2>1. y - x - 1 \in Nat /\ d \in Nat
    OBVIOUS
  <2>2. d * (y - x - 1) \in Nat
    BY <2>1
  <2>3. d * (y - x - 1) = d * y - d * x - d
    BY <2>1
  <2> QED
    BY <2>2, <2>3
<1>2. ~(q < p)
  <2> SUFFICES ASSUME q < p PROVE FALSE
    OBVIOUS
  <2>1. d * p >= d * q + d
    BY <1>1
  <2>2. d * p \in Int /\ d * q \in Int
    OBVIOUS
  <2> QED
    BY <2>1, <2>2
<1>3. ~(p < q)
  <2> SUFFICES ASSUME p < q PROVE FALSE
    OBVIOUS
  <2>1. d * q >= d * p + d
    BY <1>1
  <2>2. d * p \in Int /\ d * q \in Int
    OBVIOUS
  <2> QED
    BY <2>1, <2>2
<1>4. q = p
  BY <1>2, <1>3
<1> QED
  BY <1>4

\* The quotient is known from a decomposition.
LEMMA QuotientIs ==
  ASSUME NEW a \in Int, NEW d \in Nat \ {0}, NEW q \in Int, NEW r \in 0..(d - 1), a = d * q + r
  PROVE  a \div d = q /\ a % d = r
BY Division, OneQuotient

\* Tag and set index are the two halves of the block an address lies in.
LEMMA BlockParts ==
  ASSUME NEW p, NEW addr \in Nat, p.s \in Nat, p.b \in Nat
  PROVE  /\ tag(p, addr) \in Nat /\ setIdx(p, addr) \in 0..(pow2[p.s] - 1)
         /\ addr \div pow2[p.b] = tag(p, addr) * pow2[p.s] + setIdx(p, addr)
<1> DEFINE S == pow2[p.s]
           D == pow2[p.b]
           q == tag(p, addr)
           r == addr % (D * S)
           x == setIdx(p, addr)
<1>1. S \in Nat \ {0} /\ D \in Nat \ {0}
  BY Pow2Positive
<1>2. pow2[p.s + p.b] = D * S
  <2>1. pow2[p.s + p.b] = S * D
    BY Pow2Sum
  <2> QED
    BY <1>1, <2>1
<1>3. q = addr \div (D * S) /\ x = r \div D
  BY <1>2 DEF tag, setIdx
<1> HIDE DEF S, D, q, x, r
<1>4. D * S \in Nat \ {0}
  BY <1>1
<1>5. q \in Nat /\ r \in 0..(D * S - 1) /\ addr = (D * S) * q + r
  <2>1. addr \div (D * S) \in Nat /\ addr % (D * S) \in 0..((D * S) - 1)
        /\ addr = (D * S) * (addr \div (D * S)) + (addr % (D * S))
    BY <1>4, NatDivision, Zenon
  <2> QED
    BY <1>3, <2>1 DEF r
<1>6. r \in Nat
  BY <1>1, <1>4, <1>5
<1>7. x \in Nat /\ r % D \in 0..(D - 1) /\ r = D * x + (r % D)
  <2>1. r \div D \in Nat /\ r % D \in 0..(D - 1) /\ r = D * (r \div D) + (r % D)
    BY <1>1, <1>6, NatDivision, Zenon
  <2> QED
    BY <1>3, <2>1
<1>8. x < S
  <2> SUFFICES ASSUME x >= S PROVE FALSE
    BY <1>1, <1>7
  <2>1. x - S \in Nat /\ D * (x - S) \in Nat /\ D * (x - S) = D * x - D * S
    BY <1>1, <1>7
  <2>2. D * x \in Nat /\ D * S \in Nat
    BY <1>1, <1>7
  <2> QED
    BY <1>5, <1>6, <1>7, <2>1, <2>2
<1>9. addr = D * (q * S + x) + (r % D)
  <2>1. (D * S) * q = D * (q * S)
    BY <1>1, <1>5
  <2>2. D * (q * S + x) = D * (q * S) + D * x
    BY <1>1, <1>5, <1>7
  <2>3. (D * S) * q \in Nat /\ D * (q * S) \in Nat /\ D * x \in Nat
    BY <1>1, <1>5, <1>7
  <2> QED
    BY <1>5, <1>6, <1>7, <2>1, <2>2, <2>3
<1>10. addr \div D = q * S + x
  <2>1. q * S + x \in Int
    BY <1>1, <1>5, <1>7
  <2> QED
    BY <1>1, <1>7, <1>9, <2>1, QuotientIs
<1> QED
  BY <1>1, <1>5, <1>7, <1>8, <1>10 DEF S, D, q, x

\* The number of the block of a tag in set x, of S sets.
Number(t, S, x) == t * S + x

\* The numbers of two blocks differ by a multiple of the number of sets.
Congruent(block, other, S) == (other - block) % S = 0

\* A block has one tag and one set.
LEMMA OneSet ==
  ASSUME NEW S \in Nat \ {0}, NEW t \in Nat, NEW u \in Nat, NEW x \in 0..(S - 1), NEW y \in 0..(S - 1),
         Number(t, S, x) = Number(u, S, y)
  PROVE  t = u /\ x = y
<1>1. t * S \in Nat /\ u * S \in Nat /\ t * S = S * t /\ u * S = S * u
  OBVIOUS
<1> QED
  BY <1>1, OneQuotient DEF Number

\* Blocks of one set are those whose numbers differ so.
LEMMA SetOfBlock ==
  ASSUME NEW S \in Nat \ {0}, NEW t \in Nat, NEW u \in Nat, NEW x \in 0..(S - 1), NEW y \in 0..(S - 1)
  PROVE  Congruent(Number(u, S, y), Number(t, S, x), S) <=> x = y
<1> DEFINE m == (t * S + x) - (u * S + y)
<1>1. t * S \in Nat /\ u * S \in Nat /\ t * S = S * t /\ u * S = S * u
  OBVIOUS
<1>2. m \in Int /\ S * (t - u) = S * t - S * u
  BY <1>1
<1>3. m = S * (t - u) + (x - y)
  BY <1>1, <1>2
<1>4. Congruent(Number(u, S, y), Number(t, S, x), S) <=> m % S = 0
  BY DEF Congruent, Number
<1> HIDE DEF m
<1>5. CASE x >= y
  <2>1. x - y \in 0..(S - 1) /\ t - u \in Int
    BY <1>5
  <2>2. m % S = x - y
    BY <1>2, <1>3, <2>1, QuotientIs
  <2>3. x - y = 0 <=> x = y
    OBVIOUS
  <2> QED
    BY <1>4, <2>2, <2>3
<1>6. CASE x < y
  <2>1. S + (x - y) \in 0..(S - 1) /\ S * (t - u - 1) = S * (t - u) - S
    BY <1>6
  <2>2. m = S * (t - u - 1) + (S + (x - y))
    BY <1>2, <1>3, <2>1
  <2>3. m % S = S + (x - y)
    BY <1>2, <2>1, <2>2, QuotientIs
  <2>4. S + (x - y) # 0 /\ x # y
    BY <1>6, <2>1
  <2> QED
    BY <1>4, <2>3, <2>4
<1> QED
  BY <1>5, <1>6

-----------------------------------------------------------------------------
(* The lines of a set.                                                       *)

\* A line that was never used has no stamp.
Line == {line \in [valid : BOOLEAN, tag : Nat, accessed : Nat] : line.valid \/ line.accessed = 0}

\* No block is in two lines.
TagsDiffer(lines) ==
  \A i, j \in DOMAIN lines :
    lines[i].valid /\ lines[j].valid /\ lines[i].tag = lines[j].tag => i = j

\* The pass finds the largest stamp.
LEMMA MaxStamp ==
  ASSUME NEW E \in Nat \ {0}, NEW lines \in [0..(E - 1) -> Line]
  PROVE  /\ maxAccess(lines) \in Nat
         /\ \E i \in 0..(E - 1) : maxAccess(lines) = lines[i].accessed
         /\ \A i \in 0..(E - 1) : lines[i].accessed <= maxAccess(lines)
<1> DEFINE HasLargest(m) ==
             \E i \in 0..m : \A j \in 0..m : lines[j].accessed <= lines[i].accessed
           Bad == {m \in 0..(E - 1) : ~HasLargest(m)}
<1>1. \A i \in 0..(E - 1) : lines[i].accessed \in Nat
  BY DEF Line
<1>2. Bad = {}
  <2> SUFFICES ASSUME Bad # {} PROVE FALSE
    OBVIOUS
  <2>1. PICK m \in Bad : \A k \in Bad : m <= k
    <3>1. Bad \in SUBSET Nat
      OBVIOUS
    <3> HIDE DEF Bad
    <3> QED
      BY <3>1, LeastIs
  <2>2. m \in 0..(E - 1) /\ ~HasLargest(m)
    BY <2>1
  <2>3. m # 0
    <3> SUFFICES ASSUME m = 0 PROVE FALSE
      OBVIOUS
    <3>1. 0 \in 0..0 /\ \A j \in 0..0 : lines[j].accessed <= lines[0].accessed
      BY <1>1
    <3> QED
      BY <2>2, <3>1
  <2>4. m - 1 \in 0..(E - 1) /\ HasLargest(m - 1)
    <3>1. m - 1 \in 0..(E - 1) /\ ~(m <= m - 1)
      BY <2>2, <2>3
    <3> HIDE DEF HasLargest
    <3> QED
      BY <2>1, <3>1
  <2>5. PICK i \in 0..(m - 1) : \A j \in 0..(m - 1) : lines[j].accessed <= lines[i].accessed
    BY <2>4
  <2>6. i \in 0..(E - 1)
    BY <2>2, <2>5
  <2>7. CASE lines[m].accessed <= lines[i].accessed
    <3>1. i \in 0..m /\ \A j \in 0..m : lines[j].accessed <= lines[i].accessed
      BY <2>2, <2>5, <2>7
    <3> QED
      BY <2>2, <3>1
  <2>8. CASE ~(lines[m].accessed <= lines[i].accessed)
    <3>1. \A j \in 0..(E - 1) : lines[j].accessed \in Nat /\ lines[i].accessed \in Nat
                               /\ lines[m].accessed \in Nat
      BY <1>1, <2>2, <2>6
    <3>2. ASSUME NEW j \in 0..m
          PROVE  lines[j].accessed <= lines[m].accessed
      <4>1. j \in 0..(E - 1) /\ (j = m \/ j \in 0..(m - 1))
        BY <2>2
      <4>2. j = m \/ lines[j].accessed <= lines[i].accessed
        BY <2>5, <4>1
      <4> QED
        BY <2>8, <3>1, <4>1, <4>2
    <3> QED
      BY <2>2, <3>2
  <2> QED
    BY <2>7, <2>8
<1>3. E - 1 \in 0..(E - 1)
  OBVIOUS
<1>4. PICK i \in 0..(E - 1) : \A j \in 0..(E - 1) : lines[j].accessed <= lines[i].accessed
  BY <1>2, <1>3
<1> DEFINE stamps == {lines[k].accessed : k \in DOMAIN lines}
<1>5. lines[i].accessed \in stamps /\ \A y \in stamps : lines[i].accessed >= y
  BY <1>1, <1>4
<1>6. maxAccess(lines) \in stamps /\ \A y \in stamps : maxAccess(lines) >= y
  BY <1>5 DEF maxAccess, Max
<1> QED
  BY <1>1, <1>6

\* The line to replace is one of the set, and an empty one if there is one.
LEMMA FillPlace ==
  ASSUME NEW E \in Nat \ {0}, NEW lines \in [0..(E - 1) -> Line]
  PROVE  /\ fillIdx(lines) \in 0..(E - 1)
         /\ Empty(lines) # {} => ~lines[fillIdx(lines)].valid
         /\ Empty(lines) = {} =>
              \A j \in 0..(E - 1) : lines[fillIdx(lines)].accessed <= lines[j].accessed
<1>1. CASE Empty(lines) # {}
  <2>1. Empty(lines) \in SUBSET Nat
    BY DEF Empty
  <2> QED
    BY <1>1, <2>1, LeastIs DEF fillIdx, Empty
<1>2. CASE Empty(lines) = {}
  <2> DEFINE stamps == {lines[k].accessed : k \in 0..(E - 1)}
             oldest == {i \in DOMAIN lines : \A j \in DOMAIN lines :
                          lines[i].accessed <= lines[j].accessed}
  <2>1. 0 \in 0..(E - 1)
    OBVIOUS
  <2>2. stamps \in SUBSET Nat /\ stamps # {}
    BY <2>1 DEF Line
  <2>3. PICK k \in 0..(E - 1) : lines[k].accessed = Least(stamps)
    <3>1. Least(stamps) \in stamps
      <4> HIDE DEF stamps
      <4> QED
        BY <2>2, LeastIs
    <3> QED
      BY <3>1
  <2>4. k \in oldest
    <3>0. \A j \in 0..(E - 1) : lines[j].accessed \in Nat
      BY DEF Line
    <3>1. \A j \in 0..(E - 1) : lines[j].accessed \in stamps
      OBVIOUS
    <3>2. \A y \in stamps : Least(stamps) <= y
      BY <2>2, LeastIs
    <3> HIDE DEF stamps
    <3>3. \A j \in 0..(E - 1) : lines[k].accessed <= lines[j].accessed
      <4> TAKE j \in 0..(E - 1)
      <4>1. Least(stamps) <= lines[j].accessed
        BY <3>1, <3>2
      <4> QED
        BY <2>3, <4>1
    <3>4. DOMAIN lines = 0..(E - 1)
      OBVIOUS
    <3> QED
      BY <3>3, <3>4
  <2>5. oldest \in SUBSET Nat /\ oldest # {}
    BY <2>4
  <2>6. evictIdx(lines) \in oldest
    BY <2>5, LeastIs DEF evictIdx
  <2> QED
    BY <1>2, <2>6 DEF fillIdx
<1> QED
  BY <1>1, <1>2

Valid(lines) == {i \in DOMAIN lines : lines[i].valid}

\* The blocks in the lines of set x, of S sets.
BlocksOf(lines, S, x) == {Number(lines[i].tag, S, x) : i \in Valid(lines)}

\* A set has as many blocks as lines in use.
LEMMA BlocksCounted ==
  ASSUME NEW E \in Nat \ {0}, NEW lines \in [0..(E - 1) -> Line], TagsDiffer(lines),
         NEW S \in Nat \ {0}, NEW x \in 0..(S - 1)
  PROVE  Cardinality(BlocksOf(lines, S, x)) < E <=> Empty(lines) # {}
<1>1. IsFiniteSet(0..(E - 1)) /\ Cardinality(0..(E - 1)) = E
  <2>1. E - 1 \in Int /\ 0 \in Int /\ ~(0 > E - 1) /\ (E - 1) - 0 + 1 = E
    OBVIOUS
  <2> QED
    BY <2>1, FS_Interval
<1>2. Valid(lines) \in SUBSET (0..(E - 1))
  BY DEF Valid
<1>3. /\ IsFiniteSet(Valid(lines)) /\ Cardinality(Valid(lines)) <= E
      /\ Cardinality(Valid(lines)) = E => Valid(lines) = 0..(E - 1)
  BY <1>1, <1>2, FS_Subset
<1>4. Cardinality(Valid(lines)) \in Nat
  BY <1>3, FS_CardinalityType
<1> DEFINE f == [i \in Valid(lines) |-> Number(lines[i].tag, S, x)]
<1>5. f \in Bijection(Valid(lines), BlocksOf(lines, S, x))
  <2>1. \A i, j \in Valid(lines) : f[i] = f[j] => i = j
    <3> SUFFICES ASSUME NEW i \in Valid(lines), NEW j \in Valid(lines), f[i] = f[j] PROVE i = j
      OBVIOUS
    <3>1. lines[i].tag \in Nat /\ lines[j].tag \in Nat
      BY DEF Valid, Line
    <3>2. lines[i].tag = lines[j].tag
      BY <3>1, OneSet
    <3> QED
      BY <3>2 DEF TagsDiffer, Valid
  <2>2. f \in [Valid(lines) -> BlocksOf(lines, S, x)]
    BY DEF BlocksOf
  <2>3. \A y \in BlocksOf(lines, S, x) : \E i \in Valid(lines) : f[i] = y
    BY DEF BlocksOf
  <2> QED
    BY <2>1, <2>2, <2>3 DEF Bijection, Injection, Surjection, IsInjective
<1>6. Cardinality(BlocksOf(lines, S, x)) = Cardinality(Valid(lines))
  <2>1. ExistsBijection(Valid(lines), BlocksOf(lines, S, x))
    BY <1>5 DEF ExistsBijection
  <2> QED
    BY <1>3, <2>1, FS_Bijection
<1>7. Valid(lines) = 0..(E - 1) <=> Empty(lines) = {}
  BY DEF Valid, Empty, Line
<1>8. Valid(lines) = 0..(E - 1) => Cardinality(Valid(lines)) = E
  BY <1>1
<1> QED
  BY <1>3, <1>4, <1>6, <1>7, <1>8

Changed(blocks, gone, new, after) == after = (blocks \ gone) \cup new

\* The block that leaves when line e is filled.
Replaced(lines, e, S, x) == IF lines[e].valid THEN {Number(lines[e].tag, S, x)} ELSE {}

\* The blocks of a set after one of its lines was filled.
LEMMA FilledBlocks ==
  ASSUME NEW E \in Nat \ {0}, NEW lines \in [0..(E - 1) -> Line], TagsDiffer(lines),
         NEW S \in Nat \ {0}, NEW x \in 0..(S - 1),
         NEW e \in 0..(E - 1), NEW t \in Nat, Matching(lines, t) = {}
  PROVE  /\ Filled(lines, e, t) \in [0..(E - 1) -> Line] /\ TagsDiffer(Filled(lines, e, t))
         /\ lines[e].valid => Number(lines[e].tag, S, x) \in BlocksOf(lines, S, x)
         /\ Changed(BlocksOf(lines, S, x), Replaced(lines, e, S, x), {Number(t, S, x)},
                    BlocksOf(Filled(lines, e, t), S, x))
<1> DEFINE after == Filled(lines, e, t)
<1>1. /\ after \in [0..(E - 1) -> Line]
      /\ after[e] = [valid |-> TRUE, tag |-> t, accessed |-> maxAccess(lines) + 1]
      /\ \A i \in (0..(E - 1)) \ {e} : after[i] = lines[i]
  BY MaxStamp DEF Filled, Line
<1> HIDE DEF after
<1>2. \A i \in 0..(E - 1) : lines[i].valid => lines[i].tag # t
  BY DEF Matching
<1>3. TagsDiffer(after)
  BY <1>1, <1>2 DEF TagsDiffer
<1>4. \A i \in 0..(E - 1) : lines[i].tag \in Nat
  BY DEF Line
<1>5. \A i, j \in Valid(lines) : Number(lines[i].tag, S, x) = Number(lines[j].tag, S, x) => i = j
  <2> SUFFICES ASSUME NEW i \in Valid(lines), NEW j \in Valid(lines),
                      Number(lines[i].tag, S, x) = Number(lines[j].tag, S, x)
               PROVE  i = j
    OBVIOUS
  <2>1. lines[i].tag \in Nat /\ lines[j].tag \in Nat
    BY <1>4 DEF Valid
  <2>2. lines[i].tag = lines[j].tag
    BY <2>1, OneSet
  <2> QED
    BY <2>2 DEF TagsDiffer, Valid
<1>6. Valid(after) = Valid(lines) \cup {e}
  BY <1>1 DEF Valid
<1>7. \A i \in Valid(lines) \ {e} : Number(after[i].tag, S, x) = Number(lines[i].tag, S, x)
  BY <1>1 DEF Valid
<1>8. Number(after[e].tag, S, x) = Number(t, S, x)
  BY <1>1
<1>9. BlocksOf(after, S, x)
        = {Number(lines[i].tag, S, x) : i \in Valid(lines) \ {e}} \cup {Number(t, S, x)}
  BY <1>6, <1>7, <1>8 DEF BlocksOf
<1>10. {Number(lines[i].tag, S, x) : i \in Valid(lines) \ {e}}
         = BlocksOf(lines, S, x) \ (IF lines[e].valid THEN {Number(lines[e].tag, S, x)} ELSE {})
  <2>1. e \in Valid(lines) <=> lines[e].valid
    BY DEF Valid
  <2> QED
    BY <1>5, <2>1 DEF BlocksOf
<1>11. lines[e].valid => Number(lines[e].tag, S, x) \in BlocksOf(lines, S, x)
  BY DEF BlocksOf, Valid
<1> QED
  BY <1>1, <1>3, <1>9, <1>10, <1>11 DEF after, Changed, Replaced

\* The blocks of a set after one of its lines was used again.
LEMMA TouchedBlocks ==
  ASSUME NEW E \in Nat \ {0}, NEW lines \in [0..(E - 1) -> Line], TagsDiffer(lines),
         NEW S \in Nat \ {0}, NEW x \in 0..(S - 1), NEW i \in Valid(lines)
  PROVE  /\ Touched(lines, i) \in [0..(E - 1) -> Line] /\ TagsDiffer(Touched(lines, i))
         /\ BlocksOf(Touched(lines, i), S, x) = BlocksOf(lines, S, x)
<1> DEFINE after == Touched(lines, i)
<1>1. /\ after \in [0..(E - 1) -> Line]
      /\ \A j \in 0..(E - 1) : after[j].valid = lines[j].valid /\ after[j].tag = lines[j].tag
  BY DEF Touched, Line, Valid
<1> HIDE DEF after
<1>2. TagsDiffer(after) /\ Valid(after) = Valid(lines)
  BY <1>1 DEF TagsDiffer, Valid
<1>3. BlocksOf(after, S, x) = BlocksOf(lines, S, x)
  BY <1>1, <1>2 DEF BlocksOf, Valid
<1> QED
  BY <1>1, <1>2, <1>3 DEF after

-----------------------------------------------------------------------------
(* The blocks of all sets.                                                   *)

AllBlocks(c, S) == UNION {BlocksOf(c[y], S, y) : y \in 0..(S - 1)}

\* A block is in the cache if the set of its number has a line with its tag.
LEMMA Present ==
  ASSUME NEW E \in Nat \ {0}, NEW S \in Nat \ {0}, NEW c \in [0..(S - 1) -> [0..(E - 1) -> Line]],
         NEW x \in 0..(S - 1), NEW t \in Nat
  PROVE  Number(t, S, x) \in AllBlocks(c, S) <=> Matching(c[x], t) # {}
<1>1. ASSUME Matching(c[x], t) # {}
      PROVE  Number(t, S, x) \in AllBlocks(c, S)
  <2>1. PICK i \in Valid(c[x]) : c[x][i].tag = t
    BY <1>1 DEF Matching, Valid
  <2>2. Number(t, S, x) \in BlocksOf(c[x], S, x)
    BY <2>1 DEF BlocksOf
  <2> QED
    BY <2>2 DEF AllBlocks
<1>2. ASSUME Number(t, S, x) \in AllBlocks(c, S)
      PROVE  Matching(c[x], t) # {}
  <2>1. PICK y \in 0..(S - 1) : Number(t, S, x) \in BlocksOf(c[y], S, y)
    BY <1>2 DEF AllBlocks
  <2>2. PICK i \in Valid(c[y]) : Number(t, S, x) = Number(c[y][i].tag, S, y)
    BY <2>1 DEF BlocksOf
  <2>3. c[y][i].tag \in Nat
    BY <2>2 DEF Valid, Line
  <2>4. t = c[y][i].tag /\ x = y
    BY <2>2, <2>3, OneSet
  <2> QED
    BY <2>2, <2>4 DEF Matching, Valid
<1> QED
  BY <1>1, <1>2

\* The blocks of a cache whose numbers are congruent to a block's.
Near(c, S, block) == {other \in AllBlocks(c, S) : Congruent(block, other, S)}

\* They are those in its set.
LEMMA Neighbours ==
  ASSUME NEW E \in Nat \ {0}, NEW S \in Nat \ {0}, NEW c \in [0..(S - 1) -> [0..(E - 1) -> Line]],
         NEW x \in 0..(S - 1), NEW t \in Nat
  PROVE  Near(c, S, Number(t, S, x)) = BlocksOf(c[x], S, x)
<1>1. ASSUME NEW y \in 0..(S - 1), NEW other \in BlocksOf(c[y], S, y)
      PROVE  Congruent(Number(t, S, x), other, S) <=> y = x
  <2>1. PICK i \in Valid(c[y]) : other = Number(c[y][i].tag, S, y)
    BY DEF BlocksOf
  <2>2. c[y][i].tag \in Nat
    BY <2>1 DEF Valid, Line
  <2>3. Congruent(Number(t, S, x), Number(c[y][i].tag, S, y), S) <=> y = x
    BY <2>2, SetOfBlock
  <2> QED
    BY <2>1, <2>3, Zenon
<1>2. \A other \in AllBlocks(c, S) : \E y \in 0..(S - 1) : other \in BlocksOf(c[y], S, y)
  BY DEF AllBlocks
<1>3. \A other \in BlocksOf(c[x], S, x) : other \in AllBlocks(c, S)
  BY DEF AllBlocks
<1> QED
  BY <1>1, <1>2, <1>3, Zenon DEF Near

Put(c, x, lines) == [c EXCEPT ![x] = lines]

NotElsewhere(c, S, x, gone) == \A y \in 0..(S - 1) : y # x => BlocksOf(c[y], S, y) \cap gone = {}

\* What happens to one set happens to all blocks.
LEMMA SetChanged ==
  ASSUME NEW S \in Nat \ {0}, NEW c, DOMAIN c = 0..(S - 1), NEW x \in 0..(S - 1),
         NEW lines, NEW gone, NEW new,
         NotElsewhere(c, S, x, gone),
         Changed(BlocksOf(c[x], S, x), gone, new, BlocksOf(lines, S, x))
  PROVE  Changed(AllBlocks(c, S), gone, new, AllBlocks(Put(c, x, lines), S))
<1> DEFINE d == Put(c, x, lines)
<1>1. d[x] = lines /\ \A y \in 0..(S - 1) : y # x => d[y] = c[y]
  BY DEF Put
<1> HIDE DEF d
<1>2. \A b : b \in AllBlocks(d, S) <=> \E y \in 0..(S - 1) : b \in BlocksOf(d[y], S, y)
  BY DEF AllBlocks
<1>3. \A b : b \in AllBlocks(c, S) <=> \E y \in 0..(S - 1) : b \in BlocksOf(c[y], S, y)
  BY DEF AllBlocks
<1>4. \A b : b \in AllBlocks(d, S) <=> (b \in AllBlocks(c, S) /\ b \notin gone) \/ b \in new
  <2> SUFFICES ASSUME NEW b
               PROVE  b \in AllBlocks(d, S) <=> (b \in AllBlocks(c, S) /\ b \notin gone) \/ b \in new
    OBVIOUS
  <2>1. b \in BlocksOf(d[x], S, x) <=> (b \in BlocksOf(c[x], S, x) /\ b \notin gone) \/ b \in new
    BY <1>1 DEF Changed
  <2>2. \A y \in 0..(S - 1) : y # x =>
           (b \in BlocksOf(d[y], S, y) <=> b \in BlocksOf(c[y], S, y) /\ b \notin gone)
    BY <1>1 DEF NotElsewhere
  <2> QED
    BY <1>2, <1>3, <2>1, <2>2, Zenon
<1> QED
  BY <1>4 DEF d, Changed

\* All blocks after a line of a set was used again.
LEMMA HitBlocks ==
  ASSUME NEW E \in Nat \ {0}, NEW S \in Nat \ {0}, NEW c \in [0..(S - 1) -> [0..(E - 1) -> Line]],
         NEW x \in 0..(S - 1), TagsDiffer(c[x]), NEW i \in Valid(c[x])
  PROVE  /\ Touched(c[x], i) \in [0..(E - 1) -> Line] /\ TagsDiffer(Touched(c[x], i))
         /\ Changed(AllBlocks(c, S), {}, {}, AllBlocks(Put(c, x, Touched(c[x], i)), S))
<1>1. c[x] \in [0..(E - 1) -> Line] /\ DOMAIN c = 0..(S - 1)
  OBVIOUS
<1>2. /\ Touched(c[x], i) \in [0..(E - 1) -> Line] /\ TagsDiffer(Touched(c[x], i))
      /\ BlocksOf(Touched(c[x], i), S, x) = BlocksOf(c[x], S, x)
  BY <1>1, TouchedBlocks
<1>3. Changed(BlocksOf(c[x], S, x), {}, {}, BlocksOf(Touched(c[x], i), S, x))
  BY <1>2 DEF Changed
<1>4. NotElsewhere(c, S, x, {})
  BY DEF NotElsewhere
<1>5. Changed(AllBlocks(c, S), {}, {}, AllBlocks(Put(c, x, Touched(c[x], i)), S))
  BY <1>1, <1>3, <1>4, SetChanged
<1> QED
  BY <1>2, <1>5

\* All blocks after a line of a set was filled.
LEMMA FillBlocks ==
  ASSUME NEW E \in Nat \ {0}, NEW S \in Nat \ {0}, NEW c \in [0..(S - 1) -> [0..(E - 1) -> Line]],
         NEW x \in 0..(S - 1), TagsDiffer(c[x]), NEW e \in 0..(E - 1),
         NEW t \in Nat, Matching(c[x], t) = {}
  PROVE  /\ Filled(c[x], e, t) \in [0..(E - 1) -> Line] /\ TagsDiffer(Filled(c[x], e, t))
         /\ c[x][e].valid => Number(c[x][e].tag, S, x) \in BlocksOf(c[x], S, x)
         /\ Changed(AllBlocks(c, S), Replaced(c[x], e, S, x), {Number(t, S, x)},
                    AllBlocks(Put(c, x, Filled(c[x], e, t)), S))
<1>1. DOMAIN c = 0..(S - 1) /\ c[x] \in [0..(E - 1) -> Line]
  OBVIOUS
<1>2. /\ Filled(c[x], e, t) \in [0..(E - 1) -> Line] /\ TagsDiffer(Filled(c[x], e, t))
      /\ c[x][e].valid => Number(c[x][e].tag, S, x) \in BlocksOf(c[x], S, x)
      /\ Changed(BlocksOf(c[x], S, x), Replaced(c[x], e, S, x), {Number(t, S, x)},
                 BlocksOf(Filled(c[x], e, t), S, x))
  BY <1>1, FilledBlocks
<1>3. NotElsewhere(c, S, x, Replaced(c[x], e, S, x))
  <2> SUFFICES ASSUME NEW y \in 0..(S - 1), y # x, c[x][e].valid,
                      Number(c[x][e].tag, S, x) \in BlocksOf(c[y], S, y)
               PROVE  FALSE
    BY DEF NotElsewhere, Replaced
  <2>1. PICK i \in Valid(c[y]) : Number(c[x][e].tag, S, x) = Number(c[y][i].tag, S, y)
    BY DEF BlocksOf
  <2>2. c[y][i].tag \in Nat /\ c[x][e].tag \in Nat
    <3>1. i \in 0..(E - 1)
      BY <2>1 DEF Valid
    <3>2. c[y][i] \in Line /\ c[x][e] \in Line
      BY <3>1
    <3> QED
      BY <3>2 DEF Line
  <2> QED
    BY <2>1, <2>2, OneSet
<1>4. Changed(AllBlocks(c, S), Replaced(c[x], e, S, x), {Number(t, S, x)},
              AllBlocks(Put(c, x, Filled(c[x], e, t)), S))
  BY <1>1, <1>2, <1>3, SetChanged
<1> QED
  BY <1>2, <1>4

-----------------------------------------------------------------------------
(* The stamps as ranks of the blocks.                                        *)

\* The stamp on the line of a block, in a cache of S sets of E lines.
StampIn(c, S, E, b) ==
  LET lines == c[b % S]
      way   == CHOOSE i \in 0..(E - 1) : lines[i].valid /\ lines[i].tag = b \div S
  IN  lines[way].accessed

\* Lines of that shape, none of them with the block of another.
Cached(c, S, E) ==
  /\ c \in [0..(S - 1) -> [0..(E - 1) -> Line]]
  /\ \A y \in 0..(S - 1) : TagsDiffer(c[y])

\* The block of line i of set y has the stamp of that line.
Stamped(c, S, E, y, i) == StampIn(c, S, E, Number(c[y][i].tag, S, y)) = c[y][i].accessed

\* A block is in one line only, and has that one's stamp.
LEMMA StampIs ==
  ASSUME NEW E \in Nat \ {0}, NEW S \in Nat \ {0}, NEW c, Cached(c, S, E),
         NEW y \in 0..(S - 1), NEW i \in Valid(c[y])
  PROVE  Stamped(c, S, E, y, i)
<1>0. c \in [0..(S - 1) -> [0..(E - 1) -> Line]] /\ TagsDiffer(c[y])
  BY DEF Cached
<1>1. PICK t \in Nat : t = c[y][i].tag
  BY <1>0 DEF Valid, Line
<1>2. Number(t, S, y) \div S = t /\ Number(t, S, y) % S = y
  <2>1. PICK n \in Int : n = Number(t, S, y)
    BY DEF Number
  <2>2. t \in Int /\ n = S * t + y
    BY <2>1 DEF Number
  <2>3. n \div S = t /\ n % S = y
    BY <2>2, QuotientIs
  <2> QED
    BY <2>1, <2>3, Zenon
<1>3. i \in 0..(E - 1) /\ c[y][i].valid
  BY <1>0 DEF Valid
<1>4. \A j \in 0..(E - 1) : c[y][j].valid /\ c[y][j].tag = t => j = i
  BY <1>0, <1>1, <1>3 DEF TagsDiffer
<1>5. (CHOOSE j \in 0..(E - 1) : c[y][j].valid /\ c[y][j].tag = t) = i
  BY <1>1, <1>3, <1>4
<1> QED
  BY <1>1, <1>2, <1>5, Zenon DEF Stamped, StampIn

\* A block has one stamp in both.
Keeps(c, d, S, E, b) == StampIn(d, S, E, b) = StampIn(c, S, E, b)

\* Line i of set y is the same in both.
SameLine(c, d, y, i) == d[y][i] = c[y][i]

\* The lines of two caches that hold the same block with the same stamp.
LEMMA SameStamp ==
  ASSUME NEW E \in Nat \ {0}, NEW S \in Nat \ {0}, NEW c, NEW d, Cached(c, S, E), Cached(d, S, E),
         NEW y \in 0..(S - 1), NEW i \in Valid(c[y]), SameLine(c, d, y, i)
  PROVE  Keeps(c, d, S, E, Number(c[y][i].tag, S, y))
<1>1. i \in Valid(d[y])
  BY DEF Cached, Valid, SameLine
<1>2. Stamped(c, S, E, y, i) /\ Stamped(d, S, E, y, i)
  BY <1>1, StampIs
<1> QED
  BY <1>2, Zenon DEF SameLine, Stamped, Keeps

\* A cache after set x got new lines.
Becomes(c, x, lines, d) == d = Put(c, x, lines)

\* A block and no other is one up, or has a new stamp.
Raised(c, d, S, E, b, block) ==
  StampIn(d, S, E, b) = IF b = block THEN StampIn(c, S, E, b) + 1 ELSE StampIn(c, S, E, b)
Renewed(c, d, S, E, b, block, stamp) ==
  StampIn(d, S, E, b) = IF b = block THEN stamp ELSE StampIn(c, S, E, b)

\* Using a line again raises its block by one and no other.
LEMMA HitRanks ==
  ASSUME NEW E \in Nat \ {0}, NEW S \in Nat \ {0}, NEW c \in [0..(S - 1) -> [0..(E - 1) -> Line]],
         \A y \in 0..(S - 1) : TagsDiffer(c[y]),
         NEW x \in 0..(S - 1), NEW i \in Valid(c[x]),
         NEW d, Becomes(c, x, Touched(c[x], i), d), NEW b \in AllBlocks(c, S)
  PROVE  Raised(c, d, S, E, b, Number(c[x][i].tag, S, x))
<1>1. Touched(c[x], i) \in [0..(E - 1) -> Line] /\ TagsDiffer(Touched(c[x], i))
  BY HitBlocks
<1>2. /\ d \in [0..(S - 1) -> [0..(E - 1) -> Line]] /\ \A y \in 0..(S - 1) : TagsDiffer(d[y])
      /\ d[x] = Touched(c[x], i) /\ \A y \in 0..(S - 1) : y # x => d[y] = c[y]
  BY <1>1 DEF Becomes, Put
<1>3. i \in 0..(E - 1) /\ c[x][i] \in Line
  BY DEF Valid
<1>4. /\ d[x][i].valid /\ d[x][i].tag = c[x][i].tag /\ d[x][i].accessed = c[x][i].accessed + 1
      /\ \A j \in 0..(E - 1) : j # i => d[x][j] = c[x][j]
  <2>1. c[x][i].valid
    BY DEF Valid
  <2>2. c[x] \in [0..(E - 1) -> Line] /\ d[x] = [c[x] EXCEPT ![i].accessed = @ + 1]
    BY <1>2, Zenon DEF Touched
  <2> QED
    BY <1>3, <2>1, <2>2 DEF Line
<1>5. PICK y \in 0..(S - 1) : b \in BlocksOf(c[y], S, y)
  BY DEF AllBlocks
<1>6. PICK j \in Valid(c[y]) : b = Number(c[y][j].tag, S, y)
  BY <1>5 DEF BlocksOf
<1>7. TagsDiffer(c[x]) /\ Cached(c, S, E) /\ Cached(d, S, E)
  BY <1>2 DEF Cached
<1>8. CASE y = x /\ j = i
  <2>1. i \in Valid(d[x])
    BY <1>2, <1>3, <1>4 DEF Valid
  <2>2. Stamped(c, S, E, x, i) /\ Stamped(d, S, E, x, i)
    BY <1>7, <2>1, StampIs
  <2> QED
    BY <1>4, <1>6, <1>8, <2>2 DEF Stamped, Raised
<1>9. CASE ~(y = x /\ j = i)
  <2>1. j \in 0..(E - 1)
    BY DEF Valid
  <2>2. SameLine(c, d, y, j)
    BY <1>2, <1>4, <1>9, <2>1 DEF SameLine
  <2>3. StampIn(d, S, E, b) = StampIn(c, S, E, b)
    <3>1. Keeps(c, d, S, E, Number(c[y][j].tag, S, y))
      BY <1>7, <2>2, SameStamp
    <3> QED
      BY <1>6, <3>1, Zenon DEF Keeps
  <2>4. b # Number(c[x][i].tag, S, x)
    <3> SUFFICES ASSUME b = Number(c[x][i].tag, S, x) PROVE FALSE
      OBVIOUS
    <3>1. PICK t \in Nat, u \in Nat : t = c[x][i].tag /\ u = c[y][j].tag
      BY <1>3, <2>1 DEF Line
    <3>2. Number(t, S, x) = Number(u, S, y)
      BY <1>6, <3>1
    <3>3. t = u /\ x = y
      BY <3>2, OneSet
    <3>4. i = j
      BY <1>6, <1>7, <3>1, <3>3 DEF TagsDiffer, Valid
    <3> QED
      BY <1>9, <3>3, <3>4
  <2> QED
    BY <2>3, <2>4 DEF Raised
<1> QED
  BY <1>8, <1>9

\* Filling a line gives its block the stamp above all of its set and changes no other's.
LEMMA FillRanks ==
  ASSUME NEW E \in Nat \ {0}, NEW S \in Nat \ {0}, NEW c \in [0..(S - 1) -> [0..(E - 1) -> Line]],
         \A y \in 0..(S - 1) : TagsDiffer(c[y]),
         NEW x \in 0..(S - 1), NEW e \in 0..(E - 1), NEW t \in Nat, Matching(c[x], t) = {},
         NEW d, Becomes(c, x, Filled(c[x], e, t), d), NEW b \in AllBlocks(d, S)
  PROVE  Renewed(c, d, S, E, b, Number(t, S, x), maxAccess(c[x]) + 1)
<1>1. Filled(c[x], e, t) \in [0..(E - 1) -> Line] /\ TagsDiffer(Filled(c[x], e, t))
  BY FillBlocks
<1>2. /\ d \in [0..(S - 1) -> [0..(E - 1) -> Line]] /\ \A y \in 0..(S - 1) : TagsDiffer(d[y])
      /\ d[x] = Filled(c[x], e, t) /\ \A y \in 0..(S - 1) : y # x => d[y] = c[y]
  BY <1>1 DEF Becomes, Put
<1>3. /\ d[x][e].valid /\ d[x][e].tag = t /\ d[x][e].accessed = maxAccess(c[x]) + 1
      /\ \A j \in 0..(E - 1) : j # e => d[x][j] = c[x][j]
  <2>1. c[x] \in [0..(E - 1) -> Line]
    OBVIOUS
  <2>2. d[x] = [c[x] EXCEPT ![e] = [valid |-> TRUE, tag |-> t, accessed |-> maxAccess(c[x]) + 1]]
    BY <1>2, Zenon DEF Filled
  <2> QED
    BY <2>1, <2>2
<1>4. PICK y \in 0..(S - 1) : b \in BlocksOf(d[y], S, y)
  BY DEF AllBlocks
<1>5. PICK j \in Valid(d[y]) : b = Number(d[y][j].tag, S, y)
  BY <1>4 DEF BlocksOf
<1>6. Cached(c, S, E) /\ Cached(d, S, E)
  BY <1>2 DEF Cached
<1>7. j \in 0..(E - 1)
  BY <1>2 DEF Valid
<1>8. CASE y = x /\ j = e
  <2>1. Stamped(d, S, E, y, j)
    BY <1>6, StampIs
  <2> QED
    BY <1>3, <1>5, <1>8, <2>1 DEF Stamped, Renewed
<1>9. CASE ~(y = x /\ j = e)
  <2>1. c[y][j] = d[y][j] /\ j \in Valid(c[y])
    BY <1>2, <1>3, <1>7, <1>9 DEF Valid
  <2>2. Keeps(c, d, S, E, Number(c[y][j].tag, S, y))
    <3>1. SameLine(c, d, y, j)
      BY <2>1 DEF SameLine
    <3> QED
      BY <1>6, <2>1, <3>1, SameStamp
  <2>3. b # Number(t, S, x)
    <3> SUFFICES ASSUME b = Number(t, S, x) PROVE FALSE
      OBVIOUS
    <3>1. PICK u \in Nat : u = c[y][j].tag
      BY <1>7 DEF Line
    <3>2. Number(t, S, x) = Number(u, S, y)
      BY <1>5, <2>1, <3>1
    <3>3. t = u /\ x = y
      BY <3>2, OneSet
    <3>4. j \in Matching(c[x], t)
      BY <2>1, <3>1, <3>3 DEF Matching, Valid
    <3> QED
      BY <3>4
  <2>4. b = Number(c[y][j].tag, S, y)
    BY <1>5, <2>1
  <2> QED
    BY <2>2, <2>3, <2>4, Zenon DEF Keeps, Renewed
<1> QED
  BY <1>8, <1>9

\* The ranks of all blocks.
Ranks(c, S, E) == [b \in AllBlocks(c, S) |-> StampIn(c, S, E, b)]

\* The rank above those of some blocks.
OnTop(rank, others) == Max({0} \cup {rank[other] : other \in others}) + 1

\* The largest stamp of a set's lines is the highest rank of its blocks.
LEMMA AboveIs ==
  ASSUME NEW E \in Nat \ {0}, NEW S \in Nat \ {0}, NEW c, Cached(c, S, E),
         NEW x \in 0..(S - 1)
  PROVE  OnTop(Ranks(c, S, E), BlocksOf(c[x], S, x)) = maxAccess(c[x]) + 1
<1> DEFINE lines == c[x]
           blocks == BlocksOf(lines, S, x)
           ranks == {0} \cup {Ranks(c, S, E)[other] : other \in blocks}
           top == maxAccess(lines)
<1>1. lines \in [0..(E - 1) -> Line]
  BY DEF Cached
<1>2. /\ top \in Nat /\ \E i \in 0..(E - 1) : top = lines[i].accessed
      /\ \A i \in 0..(E - 1) : lines[i].accessed <= top
  BY <1>1, MaxStamp
<1>3. ASSUME NEW i \in Valid(lines)
      PROVE  /\ Number(lines[i].tag, S, x) \in blocks
             /\ Ranks(c, S, E)[Number(lines[i].tag, S, x)] = lines[i].accessed
  <2>1. Number(lines[i].tag, S, x) \in blocks
    BY DEF BlocksOf
  <2>2. Number(lines[i].tag, S, x) \in AllBlocks(c, S)
    BY <2>1 DEF AllBlocks
  <2>3. Stamped(c, S, E, x, i)
    BY StampIs
  <2> QED
    BY <2>1, <2>2, <2>3 DEF Ranks, Stamped
<1> HIDE DEF top
<1>4. \A n \in ranks : n = 0 \/ \E i \in Valid(lines) : n = lines[i].accessed
  <2> SUFFICES ASSUME NEW other \in blocks
               PROVE  \E i \in Valid(lines) : Ranks(c, S, E)[other] = lines[i].accessed
    OBVIOUS
  <2>1. PICK i \in Valid(lines) : other = Number(lines[i].tag, S, x)
    BY DEF BlocksOf
  <2> QED
    BY <1>3, <2>1
<1>5. \A n \in ranks : top >= n
  <2>1. \A i \in Valid(lines) : i \in 0..(E - 1) /\ lines[i].accessed \in Nat
    BY <1>1 DEF Valid, Line
  <2> HIDE DEF ranks, lines
  <2> QED
    BY <1>2, <1>4, <2>1
<1>6. top \in ranks
  <2>1. PICK i \in 0..(E - 1) : top = lines[i].accessed
    BY <1>2
  <2>2. CASE i \in Valid(lines)
    BY <1>3, <2>1, <2>2
  <2>3. CASE i \notin Valid(lines)
    BY <1>1, <2>1, <2>3 DEF Valid, Line
  <2> QED
    BY <2>2, <2>3
<1>7. ranks \in SUBSET Nat
  <2>1. \A i \in Valid(lines) : lines[i].accessed \in Nat
    BY <1>1 DEF Valid, Line
  <2> HIDE DEF ranks, lines
  <2> QED
    BY <1>4, <2>1
<1> HIDE DEF ranks
<1>8. Max(ranks) = top
  <2>1. \A m \in ranks : (\A n \in ranks : m >= n) => m = top
    BY <1>2, <1>5, <1>6, <1>7
  <2> QED
    BY <1>5, <1>6, <2>1, Zenon DEF Max
<1> QED
  BY <1>8 DEF OnTop, ranks, top

-----------------------------------------------------------------------------
(* One access.                                                               *)

Params == [s : Nat, E : Nat \ {0}, b : Nat, hits : Nat, misses : Nat, evicts : Nat]

\* A cache of the shape of its parameters, with no block twice.
Sound(p, c) ==
  /\ p \in Params /\ c \in [0..(pow2[p.s] - 1) -> [0..(p.E - 1) -> Line]]
  /\ \A x \in 0..(pow2[p.s] - 1) : TagsDiffer(c[x])

Twice(opt) == IF opt = "M" THEN 1 ELSE 0

\* What an access promises of the parameters and the cache before and behind it.
Served(p, c, q, d, opt, block) ==
  LET S      == pow2[p.s]
      before == AllBlocks(c, S)
      after  == AllBlocks(d, S)
      near   == Near(c, S, block)
      rank   == Ranks(c, S, p.E)
  IN  \/ /\ block \in before /\ after = before
         /\ Ranks(d, S, p.E) = [rank EXCEPT ![block] = @ + 1]
         /\ q.hits = p.hits + 1 + Twice(opt) /\ q.misses = p.misses /\ q.evicts = p.evicts
      \/ /\ block \notin before /\ q.hits = p.hits + Twice(opt) /\ q.misses = p.misses + 1
         /\ Ranks(d, S, p.E) = [b \in after |-> IF b = block THEN OnTop(rank, near) ELSE rank[b]]
         /\ \/ Cardinality(near) < p.E /\ after = before \cup {block} /\ q.evicts = p.evicts
            \/ /\ ~(Cardinality(near) < p.E) /\ q.evicts = p.evicts + 1
               /\ \E victim \in near : /\ \A other \in near : rank[victim] <= rank[other]
                                       /\ after = (before \ {victim}) \cup {block}

\* The counters are what the code makes of them.
LEMMA CountedIs ==
  ASSUME NEW p \in Params, NEW lines, NEW opt, NEW hit \in BOOLEAN
  PROVE  LET q == Counted(p, lines, opt, hit)
         IN  /\ q \in Params /\ q.s = p.s /\ q.E = p.E /\ q.b = p.b
             /\ hit => /\ q.hits = p.hits + 1 + Twice(opt) /\ q.misses = p.misses
                       /\ q.evicts = p.evicts
             /\ ~hit => q.hits = p.hits + Twice(opt) /\ q.misses = p.misses + 1
             /\ ~hit /\ Empty(lines) # {} => q.evicts = p.evicts
             /\ ~hit /\ Empty(lines) = {} => q.evicts = p.evicts + 1
<1> DEFINE q == Counted(p, lines, opt, hit)
           m == Twice(opt)
           more == IF hit \/ Empty(lines) # {} THEN 0 ELSE 1
           miss == IF hit THEN 0 ELSE 1
           right == IF hit THEN 1 ELSE 0
<1>1. /\ p.s \in Nat /\ p.E \in Nat \ {0} /\ p.b \in Nat
      /\ p.hits \in Nat /\ p.misses \in Nat /\ p.evicts \in Nat
      /\ p = [s |-> p.s, E |-> p.E, b |-> p.b, hits |-> p.hits, misses |-> p.misses, evicts |-> p.evicts]
  BY DEF Params
<1>2. m \in Nat /\ right \in Nat /\ miss \in Nat /\ more \in Nat
  BY DEF Twice
<1>3. q = [p EXCEPT !.hits = p.hits + m + right, !.misses = p.misses + miss, !.evicts = p.evicts + more]
  BY DEF Counted, Twice
<1>4. /\ hit => right = 1 /\ miss = 0 /\ more = 0
      /\ ~hit => right = 0 /\ miss = 1
      /\ ~hit /\ Empty(lines) # {} => more = 0
      /\ ~hit /\ Empty(lines) = {} => more = 1
  OBVIOUS
<1> HIDE DEF q, m, more, miss, right
<1>5. q = [s |-> p.s, E |-> p.E, b |-> p.b, hits |-> p.hits + m + right,
           misses |-> p.misses + miss, evicts |-> p.evicts + more]
  BY <1>1, <1>3
<1>6. /\ q.s = p.s /\ q.E = p.E /\ q.b = p.b /\ q.hits = p.hits + m + right
      /\ q.misses = p.misses + miss /\ q.evicts = p.evicts + more
  BY <1>5
<1>7. q \in Params
  BY <1>1, <1>2, <1>5 DEF Params
<1>8. /\ hit => q.hits = p.hits + 1 + m /\ q.misses = p.misses /\ q.evicts = p.evicts
      /\ ~hit => q.hits = p.hits + m /\ q.misses = p.misses + 1
      /\ ~hit /\ Empty(lines) # {} => q.evicts = p.evicts
      /\ ~hit /\ Empty(lines) = {} => q.evicts = p.evicts + 1
  BY <1>1, <1>2, <1>4, <1>6
<1> QED
  BY <1>6, <1>7, <1>8 DEF q, m

\* executeInst does what a set-associative cache promises, and leaves its cache sound.
LEMMA ExecuteServes ==
  ASSUME NEW p, NEW c, Sound(p, c), NEW addr \in Nat, NEW opt,
         NEW q, NEW d, executeInst(p, c, opt, addr) = [param |-> q, cache |-> d]
  PROVE  /\ Sound(q, d) /\ q.s = p.s /\ q.E = p.E /\ q.b = p.b
         /\ Served(p, c, q, d, opt, addr \div pow2[p.b])
<1> DEFINE S == pow2[p.s]
           E == p.E
           x == setIdx(p, addr)
           t == tag(p, addr)
           block == addr \div pow2[p.b]
           lines == c[x]
           found == Matching(lines, t)
           near == Near(c, S, block)
<1>1. /\ p \in Params /\ S \in Nat \ {0} /\ E \in Nat \ {0} /\ p.s \in Nat /\ p.b \in Nat
      /\ c \in [0..(S - 1) -> [0..(E - 1) -> Line]]
      /\ \A y \in 0..(S - 1) : TagsDiffer(c[y])
  BY Pow2Positive DEF Sound, Params
<1>2. t \in Nat /\ x \in 0..(S - 1) /\ block = Number(t, S, x)
  BY <1>1, BlockParts DEF Number
<1>3. /\ q = Counted(p, lines, opt, found # {})
      /\ d = Put(c, x, IF found # {} THEN Touched(lines, Least(found))
                       ELSE Filled(lines, fillIdx(lines), t))
  BY DEF executeInst, Put
<1> HIDE DEF S, E, x, t, block
<1>4. lines \in [0..(E - 1) -> Line] /\ TagsDiffer(lines)
  BY <1>1, <1>2
<1>5. block \in AllBlocks(c, S) <=> found # {}
  BY <1>1, <1>2, Present
<1>6. near = BlocksOf(lines, S, x)
  <2>1. Near(c, S, Number(t, S, x)) = BlocksOf(c[x], S, x)
    <3>1. /\ S \in Nat \ {0} /\ E \in Nat \ {0} /\ x \in 0..(S - 1) /\ t \in Nat
          /\ c \in [0..(S - 1) -> [0..(E - 1) -> Line]]
      BY <1>1, <1>2
    <3>2. PICK nS \in Nat \ {0} : nS = S
      BY <3>1
    <3>3. PICK nE \in Nat \ {0} : nE = E
      BY <3>1
    <3>4. c \in [0..(nS - 1) -> [0..(nE - 1) -> Line]] /\ x \in 0..(nS - 1) /\ t \in Nat
      BY <3>1, <3>2, <3>3
    <3>5. Near(c, nS, Number(t, nS, x)) = BlocksOf(c[x], nS, x)
      BY <3>4, Neighbours
    <3> QED
      BY <3>2, <3>5, Zenon
  <2> QED
    BY <1>2, <2>1
<1>7. Cardinality(near) < E <=> Empty(lines) # {}
  BY <1>1, <1>2, <1>4, <1>6, BlocksCounted
<1> HIDE DEF near, lines, found
<1>8. /\ q \in Params /\ q.s = p.s /\ q.E = p.E /\ q.b = p.b
      /\ found # {} => /\ q.hits = p.hits + 1 + Twice(opt) /\ q.misses = p.misses
                       /\ q.evicts = p.evicts
      /\ found = {} => q.hits = p.hits + Twice(opt) /\ q.misses = p.misses + 1
      /\ found = {} /\ Empty(lines) # {} => q.evicts = p.evicts
      /\ found = {} /\ Empty(lines) = {} => q.evicts = p.evicts + 1
  <2> DEFINE hit == found # {}
  <2>1. hit \in BOOLEAN /\ p \in Params /\ q = Counted(p, lines, opt, hit)
    BY <1>1, <1>3
  <2>2. hit <=> found # {}
    OBVIOUS
  <2> HIDE DEF hit
  <2>3. /\ q \in Params /\ q.s = p.s /\ q.E = p.E /\ q.b = p.b
        /\ hit => /\ q.hits = p.hits + 1 + Twice(opt) /\ q.misses = p.misses
                  /\ q.evicts = p.evicts
        /\ ~hit => q.hits = p.hits + Twice(opt) /\ q.misses = p.misses + 1
        /\ ~hit /\ Empty(lines) # {} => q.evicts = p.evicts
        /\ ~hit /\ Empty(lines) = {} => q.evicts = p.evicts + 1
    BY <2>1, CountedIs
  <2> QED
    BY <2>2, <2>3, Zenon
<1>9. ASSUME NEW new \in [0..(E - 1) -> Line], TagsDiffer(new), d = Put(c, x, new)
      PROVE  Sound(q, d)
  <2>1. d \in [0..(S - 1) -> [0..(E - 1) -> Line]] /\ \A y \in 0..(S - 1) : TagsDiffer(d[y])
    BY <1>1, <1>2, <1>9 DEF Put
  <2> QED
    BY <1>8, <2>1 DEF Sound, S, E
<1>10. CASE found # {}
  <2> DEFINE i == Least(found)
  <2>1. i \in found /\ i \in Valid(c[x]) /\ Number(c[x][i].tag, S, x) = block
    <3>1. found \in SUBSET (0..(E - 1))
      BY <1>4 DEF found, Matching
    <3>2. found \in SUBSET Nat
      BY <1>1, <3>1
    <3>3. i \in found
      BY <1>10, <3>2, LeastIs
    <3> QED
      BY <1>2, <3>3 DEF found, lines, Matching, Valid
  <2>2. d = Put(c, x, Touched(c[x], i))
    BY <1>3, <1>10 DEF lines
  <2> HIDE DEF i
  <2>3. /\ Touched(c[x], i) \in [0..(E - 1) -> Line] /\ TagsDiffer(Touched(c[x], i))
        /\ Changed(AllBlocks(c, S), {}, {}, AllBlocks(Put(c, x, Touched(c[x], i)), S))
    <3>1. S \in Nat \ {0} /\ E \in Nat \ {0} /\ x \in 0..(S - 1) /\ TagsDiffer(c[x])
          /\ c \in [0..(S - 1) -> [0..(E - 1) -> Line]]
      BY <1>1, <1>2
    <3> QED
      BY <2>1, <3>1, HitBlocks
  <2>4. AllBlocks(d, S) = AllBlocks(c, S)
    BY <2>2, <2>3 DEF Changed
  <2>5. Sound(q, d)
    BY <1>9, <2>2, <2>3
  <2>6. block \in AllBlocks(c, S)
    BY <1>5, <1>10
  <2>7. Ranks(d, S, E) = [Ranks(c, S, E) EXCEPT ![block] = @ + 1]
    <3>1. ASSUME NEW b \in AllBlocks(c, S)
          PROVE  Raised(c, d, S, E, b, block)
      <4>1. Becomes(c, x, Touched(c[x], i), d)
        BY <2>2 DEF Becomes
      <4>2. Raised(c, d, S, E, b, Number(c[x][i].tag, S, x))
        BY <1>1, <1>2, <2>1, <4>1, HitRanks
      <4> QED
        BY <2>1, <4>2
    <3> QED
      BY <2>4, <2>6, <3>1, Zenon DEF Ranks, Raised
  <2> QED
    BY <1>8, <1>10, <2>4, <2>5, <2>6, <2>7 DEF Served, S, E, block
<1>11. CASE found = {}
  <2> DEFINE e == fillIdx(lines)
             gone == Replaced(c[x], e, S, x)
  <2>1. /\ e \in 0..(E - 1) /\ (Empty(lines) # {} => ~lines[e].valid)
        /\ Empty(lines) = {} => \A n \in 0..(E - 1) : lines[e].accessed <= lines[n].accessed
    BY <1>1, <1>4, FillPlace
  <2>2. Empty(lines) = {} => lines[e].valid
    BY <1>4, <2>1 DEF Empty
  <2>3. d = Put(c, x, Filled(c[x], e, t))
    BY <1>3, <1>11 DEF lines
  <2> HIDE DEF e
  <2>4. /\ Filled(c[x], e, t) \in [0..(E - 1) -> Line] /\ TagsDiffer(Filled(c[x], e, t))
        /\ c[x][e].valid => Number(c[x][e].tag, S, x) \in BlocksOf(c[x], S, x)
        /\ Changed(AllBlocks(c, S), Replaced(c[x], e, S, x), {Number(t, S, x)},
                   AllBlocks(Put(c, x, Filled(c[x], e, t)), S))
    <3>1. /\ S \in Nat \ {0} /\ E \in Nat \ {0} /\ x \in 0..(S - 1) /\ TagsDiffer(c[x])
          /\ c \in [0..(S - 1) -> [0..(E - 1) -> Line]]
      BY <1>1, <1>2
    <3>2. Matching(c[x], t) = {} /\ t \in Nat
      BY <1>2, <1>11 DEF found, lines
    <3> QED
      BY <2>1, <3>1, <3>2, FillBlocks
  <2>5. lines[e].valid => Number(lines[e].tag, S, x) \in BlocksOf(lines, S, x)
    BY <2>4 DEF lines
  <2>6. Changed(AllBlocks(c, S), gone, {block}, AllBlocks(d, S))
    BY <1>2, <2>3, <2>4
  <2>7. Sound(q, d)
    BY <1>9, <2>3, <2>4
  <2>8. block \notin AllBlocks(c, S)
    BY <1>5, <1>11
  <2> DEFINE rank == Ranks(c, S, E)
  <2>9. Cached(c, S, E)
    BY <1>1 DEF Cached
  <2>10. Ranks(d, S, E)
           = [b \in AllBlocks(d, S) |-> IF b = block THEN OnTop(rank, near) ELSE rank[b]]
    <3>1. OnTop(rank, near) = maxAccess(c[x]) + 1
      BY <1>1, <1>2, <1>6, <2>9, AboveIs DEF lines
    <3> DEFINE top == maxAccess(c[x]) + 1
    <3>2. ASSUME NEW b \in AllBlocks(d, S)
          PROVE  Renewed(c, d, S, E, b, block, top)
      <4>1. Becomes(c, x, Filled(c[x], e, t), d) /\ Matching(c[x], t) = {}
        BY <1>11, <2>3 DEF Becomes, found, lines
      <4> QED
        BY <1>1, <1>2, <2>1, <4>1, FillRanks
    <3>3. \A b \in AllBlocks(d, S) : b # block => b \in AllBlocks(c, S)
      BY <2>6 DEF Changed
    <3>4. \A b \in AllBlocks(d, S) : b # block => rank[b] = StampIn(c, S, E, b)
      BY <3>3 DEF Ranks
    <3> HIDE DEF top, rank
    <3> QED
      BY <3>1, <3>2, <3>4, Zenon DEF Ranks, Renewed, top
  <2> HIDE DEF rank
  <2>11. CASE Empty(lines) # {}
    <3>1. AllBlocks(d, S) = AllBlocks(c, S) \cup {block}
      BY <2>1, <2>6, <2>11 DEF gone, Replaced, Changed, lines
    <3>2. Cardinality(near) < E /\ q.evicts = p.evicts
      BY <1>7, <1>8, <1>11, <2>11
    <3> QED
      BY <1>8, <1>11, <2>7, <2>8, <2>10, <3>1, <3>2 DEF Served, S, E, block, near, rank
  <2>12. CASE Empty(lines) = {}
    <3> DEFINE victim == Number(lines[e].tag, S, x)
    <3>1. victim \in near /\ gone = {victim}
      BY <1>6, <2>2, <2>5, <2>12 DEF gone, Replaced, lines
    <3> HIDE DEF victim
    <3>2. AllBlocks(d, S) = (AllBlocks(c, S) \ {victim}) \cup {block}
      BY <2>6, <3>1 DEF Changed
    <3>3. ~(Cardinality(near) < E) /\ q.evicts = p.evicts + 1
      BY <1>7, <1>8, <1>11, <2>12
    <3>4. \A other \in near : rank[victim] <= rank[other]
      <4>1. ASSUME NEW n \in Valid(lines)
            PROVE  rank[Number(lines[n].tag, S, x)] = lines[n].accessed
        <5>1. Stamped(c, S, E, x, n)
          BY <1>1, <1>2, <2>9, StampIs DEF lines
        <5>2. Number(lines[n].tag, S, x) \in AllBlocks(c, S)
          BY <1>2 DEF AllBlocks, BlocksOf, lines
        <5> QED
          BY <5>1, <5>2, Zenon DEF Stamped, rank, Ranks, lines
      <4>2. e \in Valid(lines) /\ rank[victim] = lines[e].accessed
        BY <1>4, <2>1, <2>2, <2>12, <4>1 DEF Valid, victim
      <4>3. ASSUME NEW other \in near
            PROVE  \E n \in Valid(lines) : other = Number(lines[n].tag, S, x)
        BY <1>6 DEF BlocksOf
      <4>4. \A n \in Valid(lines) : lines[e].accessed <= lines[n].accessed
        BY <1>4, <2>1, <2>12 DEF Valid
      <4> QED
        BY <4>1, <4>2, <4>3, <4>4, Zenon
    <3> QED
      BY <1>8, <1>11, <2>7, <2>8, <2>10, <3>1, <3>2, <3>3, <3>4
         DEF Served, S, E, block, near, rank
  <2> QED
    BY <2>11, <2>12
<1> QED
  BY <1>10, <1>11

-----------------------------------------------------------------------------
(* The instance of the simulator that reads traces has the same operators.   *)

\* It shifts as this module does.
LEMMA SimPow2 == Sim!pow2 = pow2
BY DEF Sim!pow2, pow2

\* It executes an access as this module does.
LEMMA SimExecute ==
  ASSUME NEW p, NEW c, NEW opt, NEW addr
  PROVE  Sim!executeInst(p, c, opt, addr) = executeInst(p, c, opt, addr)
<1>1. \A t, lines : Sim!Matching(lines, t) = Matching(lines, t)
  BY DEF Sim!Matching, Matching
<1>2. \A lines : Sim!Empty(lines) = Empty(lines)
  BY DEF Sim!Empty, Empty
<1>3. \A S : Sim!Least(S) = Least(S)
  BY DEF Sim!Least, Least
<1>4. \A S : Sim!Max(S) = Max(S)
  BY DEF Sim!Max, Max
<1>5. \A lines : Sim!maxAccess(lines) = maxAccess(lines)
  BY <1>4 DEF Sim!maxAccess, maxAccess
<1>6. \A lines : Sim!fillIdx(lines) = fillIdx(lines)
  BY <1>2, <1>3 DEF Sim!fillIdx, fillIdx, Sim!evictIdx, evictIdx
<1>7. \A lines, i : Sim!Touched(lines, i) = Touched(lines, i)
  BY DEF Sim!Touched, Touched
<1>8. \A lines, i, t : Sim!Filled(lines, i, t) = Filled(lines, i, t)
  BY <1>5 DEF Sim!Filled, Filled
<1>9. \A lines, hit : Sim!Counted(p, lines, opt, hit) = Counted(p, lines, opt, hit)
  BY <1>2, Zenon DEF Sim!Counted, Counted
<1>10. Sim!tag(p, addr) = tag(p, addr) /\ Sim!setIdx(p, addr) = setIdx(p, addr)
  BY SimPow2 DEF Sim!tag, tag, Sim!setIdx, setIdx
<1> QED
  BY <1>1, <1>3, <1>6, <1>7, <1>8, <1>9, <1>10 DEF Sim!executeInst, executeInst

\* The blocks of a cache as Csim states them.
Blocks(p, c) ==
  UNION {{c[set][i].tag * pow2[p.s] + set : i \in {i \in 0..(p.E - 1) : c[set][i].valid}} :
            set \in 0..(pow2[p.s] - 1)}

\* In a sound cache they are those of all its sets.
LEMMA BlocksAre ==
  ASSUME NEW p, NEW c, Sound(p, c)
  PROVE  Blocks(p, c) = AllBlocks(c, pow2[p.s])
<1> DEFINE Part(set) ==
             {c[set][i].tag * pow2[p.s] + set : i \in {i \in 0..(p.E - 1) : c[set][i].valid}}
<1>1. ASSUME NEW set \in 0..(pow2[p.s] - 1)
      PROVE  BlocksOf(c[set], pow2[p.s], set) = Part(set)
  <2>1. Valid(c[set]) = {i \in 0..(p.E - 1) : c[set][i].valid}
    BY DEF Sound, Valid
  <2> QED
    BY <2>1, Zenon DEF BlocksOf, Number
<1>2. Blocks(p, c) = UNION {Part(set) : set \in 0..(pow2[p.s] - 1)}
  BY Zenon DEF Blocks
<1> HIDE DEF Part
<1>3. \A b : b \in UNION {Part(set) : set \in 0..(pow2[p.s] - 1)} <=> b \in AllBlocks(c, pow2[p.s])
  BY <1>1, Zenon DEF AllBlocks
<1> QED
  BY <1>2, <1>3, Zenon

\* What Csim calls resident, before and after a step.
LEMMA ResidentIs ==
  /\ Sim!Resident = Blocks(param, cache)
  /\ Sim!Resident' = Blocks(param', cache')
BY SimPow2 DEF Sim!Resident, Sim!InSet, Sim!Sets, Sim!Ways, Blocks

\* The stamps of a cache as Csim states them.
BlockStamps(p, c) == [block \in Blocks(p, c) |-> StampIn(c, pow2[p.s], p.E, block)]

\* What Csim calls the stamps, before and after a step.
LEMMA StampsAre ==
  /\ Sim!Stamps = BlockStamps(param, cache)
  /\ Sim!Stamps' = BlockStamps(param', cache')
  /\ \A p, c : Sound(p, c) => BlockStamps(p, c) = Ranks(c, pow2[p.s], p.E)
<1>1. Sim!Stamps = BlockStamps(param, cache)
  BY SimPow2, ResidentIs DEF Sim!Stamps, Sim!StampOf, Sim!Ways, BlockStamps, StampIn
<1>2. Sim!Stamps' = BlockStamps(param', cache')
  BY SimPow2, ResidentIs DEF Sim!Stamps, Sim!StampOf, Sim!Ways, BlockStamps, StampIn
<1>3. \A p, c : Sound(p, c) => BlockStamps(p, c) = Ranks(c, pow2[p.s], p.E)
  BY BlocksAre DEF BlockStamps, Ranks
<1> QED
  BY <1>1, <1>2, <1>3

-----------------------------------------------------------------------------
(* The simulator's steps are those of a set-associative cache.               *)

\* What csim keeps sound on a trace: its parameters are counters of a shape of the
\* command line, and no block is in two lines.
SimInv == OnTrace => Sound(param, cache)

\* parseArg and createCache leave an empty cache.
LEMMA StartsSound ==
  ASSUME Sim!Init
  PROVE  Sound(param, cache) /\ AllBlocks(cache, pow2[param.s]) = {}
           /\ param.hits = 0 /\ param.misses = 0 /\ param.evicts = 0
<1>1. PICK shape \in Shapes : param = [s |-> shape.s, E |-> shape.E, b |-> shape.b,
                                       hits |-> 0, misses |-> 0, evicts |-> 0]
  BY DEF Sim!Init, Sim!NewParam
<1>2. shape.s \in Nat /\ shape.E \in Nat \ {0} /\ shape.b \in Nat
  BY TraceAssumption
<1>3. param \in Params
  BY <1>1, <1>2 DEF Params
<1>4. cache = [set \in 0..(pow2[param.s] - 1) |-> [i \in 0..(param.E - 1) |-> EmptyLine]]
  BY SimPow2 DEF Sim!Init, Sim!createCache, Sim!EmptyLine, EmptyLine
<1>5. Sound(param, cache)
  BY <1>3, <1>4 DEF Sound, TagsDiffer, EmptyLine, Line
<1>6. \A y \in 0..(pow2[param.s] - 1) : BlocksOf(cache[y], pow2[param.s], y) = {}
  BY <1>4 DEF BlocksOf, Valid, EmptyLine
<1> QED
  BY <1>1, <1>5, <1>6 DEF AllBlocks

\* One line of the trace.
LEMMA Instructed ==
  ASSUME Sound(param, cache), NEW opt, NEW addr \in Addresses, Sim!Instruction(opt, addr)
  PROVE  /\ Sound(param', cache')
         /\ param'.s = param.s /\ param'.E = param.E /\ param'.b = param.b
         /\ Served(param, cache, param', cache', opt, addr \div pow2[param.b])
<1>1. addr \in Nat
  BY TraceAssumption
<1>2. PICK q, d : executeInst(param, cache, opt, addr) = [param |-> q, cache |-> d]
  BY DEF executeInst
<1>3. q = param' /\ d = cache'
  BY <1>2, SimExecute DEF Sim!Instruction
<1> QED
  BY <1>1, <1>2, <1>3, ExecuteServes

\* What the abstract cache sees of a trace.
LEMMA Seen ==
  ASSUME OnTrace, Sound(param, cache)
  PROVE  /\ OfTrace(Geometry(pow2[param.s], param.E, pow2[param.b]), Geometry(1, 1, 1))
              = Geometry(pow2[param.s], param.E, pow2[param.b])
         /\ OfTrace(Sim!Resident, {}) = AllBlocks(cache, pow2[param.s])
         /\ OfTrace(Sim!Stamps, [block \in {} |-> 0])
              = Ranks(cache, pow2[param.s], param.E)
         /\ OfTrace(param.hits, 0) = param.hits /\ OfTrace(param.misses, 0) = param.misses
         /\ OfTrace(param.evicts, 0) = param.evicts
BY ResidentIs, BlocksAre, StampsAre DEF OfTrace

\* A transpose never becomes a trace.
LEMMA StaysOff ==
  ASSUME ~OnTrace, Next
  PROVE  ~OnTrace'
BY Zenon DEF Next, MoveStrip32, MoveFirst64, MoveSecond64, MoveThird64, MoveElement67, MoveElement,
      Go, OnTrace

\* Soundness is inductive.
LEMMA SoundInductive ==
  /\ LabInit => SimInv
  /\ SimInv /\ [LabNext]_vars => SimInv'
<1>1. LabInit => SimInv
  <2>1. Init => ~OnTrace
    BY DEF Init, OnTrace, Entered
  <2> QED
    BY <2>1, StartsSound DEF LabInit, TraceInit, SimInv
<1>2. ASSUME SimInv, Next PROVE SimInv'
  <2>1. OnTrace => FALSE
    BY <1>2 DEF Next, MoveStrip32, MoveFirst64, MoveSecond64, MoveThird64, MoveElement67,
                MoveElement, OnTrace
  <2> QED
    BY <1>2, <2>1, StaysOff DEF SimInv
<1>3. ASSUME SimInv, Trace PROVE SimInv'
  <2>1. PICK opt \in Sim!Kinds, addr \in Addresses : Sim!Instruction(opt, addr)
    BY <1>3 DEF Trace, Sim!Next
  <2>2. Sound(param, cache)
    BY <1>3 DEF Trace, SimInv
  <2> QED
    BY <2>1, <2>2, Instructed DEF SimInv
<1>4. ASSUME SimInv, UNCHANGED vars PROVE SimInv'
  BY <1>4 DEF vars, SimInv, OnTrace
<1> QED
  BY <1>1, <1>2, <1>3, <1>4 DEF LabNext

\* A line of the trace is an access of the abstract cache.
LEMMA TraceIsAccess ==
  ASSUME SimInv, Trace
  PROVE  SA!Next
<1>1. PICK opt \in Sim!Kinds, addr \in Addresses : Sim!Instruction(opt, addr)
  BY DEF Trace, Sim!Next
<1>2. /\ OnTrace /\ OnTrace'
      /\ Sound(param, cache) /\ Sound(param', cache')
      /\ param'.s = param.s /\ param'.E = param.E /\ param'.b = param.b
      /\ Served(param, cache, param', cache', opt, addr \div pow2[param.b])
  BY <1>1, Instructed DEF Trace, SimInv, OnTrace
<1> DEFINE S == pow2[param.s]
           shape == Geometry(S, param.E, pow2[param.b])
           before == AllBlocks(cache, S)
           after == AllBlocks(cache', S)
           rank == Ranks(cache, S, param.E)
           block == addr \div pow2[param.b]
<1>3. /\ OfTrace(Geometry(pow2[param.s], param.E, pow2[param.b]), Geometry(1, 1, 1)) = shape
      /\ OfTrace(Sim!Resident, {}) = before
      /\ OfTrace(Sim!Stamps, [b \in {} |-> 0]) = rank
      /\ OfTrace(param.hits, 0) = param.hits /\ OfTrace(param.misses, 0) = param.misses
      /\ OfTrace(param.evicts, 0) = param.evicts
  BY <1>2, Seen
<1>4. /\ OfTrace(Geometry(pow2[param.s], param.E, pow2[param.b]), Geometry(1, 1, 1))' = shape
      /\ OfTrace(Sim!Resident, {})' = after
      /\ OfTrace(Sim!Stamps, [b \in {} |-> 0])' = Ranks(cache', S, param.E)
      /\ OfTrace(param.hits, 0)' = param'.hits /\ OfTrace(param.misses, 0)' = param'.misses
      /\ OfTrace(param.evicts, 0)' = param'.evicts
  BY <1>2, ResidentIs, BlocksAre, StampsAre DEF OfTrace, Geometry
<1>5. shape.S = S /\ shape.E = param.E /\ shape.B = pow2[param.b]
  BY DEF Geometry
<1>6. SA!SameSet(block) = Near(cache, S, block)
  BY <1>3, <1>5 DEF SA!SameSet, Near, Congruent
<1>7. SA!Again(opt) = Twice(opt)
  BY DEF SA!Again, Twice
<1>8. \/ /\ block \in before /\ after = before
         /\ Ranks(cache', S, param.E) = [rank EXCEPT ![block] = @ + 1]
         /\ param'.hits = param.hits + 1 + Twice(opt) /\ param'.misses = param.misses
         /\ param'.evicts = param.evicts
      \/ /\ block \notin before /\ param'.hits = param.hits + Twice(opt)
         /\ param'.misses = param.misses + 1
         /\ Ranks(cache', S, param.E)
              = [b \in after |-> IF b = block THEN OnTop(rank, Near(cache, S, block)) ELSE rank[b]]
         /\ \/ /\ Cardinality(Near(cache, S, block)) < param.E /\ after = before \cup {block}
               /\ param'.evicts = param.evicts
            \/ /\ ~(Cardinality(Near(cache, S, block)) < param.E)
               /\ param'.evicts = param.evicts + 1
               /\ \E victim \in Near(cache, S, block) :
                    /\ \A other \in Near(cache, S, block) : rank[victim] <= rank[other]
                    /\ after = (before \ {victim}) \cup {block}
  BY <1>2 DEF Served
<1>9. SA!Top(Near(cache, S, block)) = OnTop(rank, Near(cache, S, block))
  BY <1>3 DEF SA!Top, OnTop, SA!Max, Max
<1> HIDE DEF S, shape, before, after, rank
<1>10. SA!Lowest(Near(cache, S, block))
         = {victim \in Near(cache, S, block) :
              \A other \in Near(cache, S, block) : rank[victim] <= rank[other]}
  BY <1>3 DEF SA!Lowest
<1>11. SA!Hit(block, opt) \/ SA!Miss(block, opt)
  <2> HIDE DEF block
  <2>1. CASE block \in before
    BY <1>3, <1>4, <1>7, <1>8, <2>1 DEF SA!Hit
  <2>2. CASE block \notin before
    <3>1. SA!Cardinality(Near(cache, S, block)) = Cardinality(Near(cache, S, block))
      BY DEF SA!Cardinality, Cardinality
    <3> QED
      BY <1>3, <1>4, <1>5, <1>6, <1>7, <1>8, <1>9, <1>10, <2>2, <3>1 DEF SA!Miss
  <2> QED
    BY <2>1, <2>2
<1>12. SA!Access(addr, opt)
  BY <1>3, <1>5, <1>11 DEF SA!Access
<1> QED
  BY <1>12 DEF SA!Next

\* The simulator on a trace of csim.c is a set-associative cache of the shape it was given,
\* for all shapes and traces: a block in the cache hits and stays, a block that is missing
\* comes in above all others of its set, and one of the lowest rank leaves when the set is
\* full; the counters of hits, misses and evictions count that.
THEOREM SimulatesSetAssociative == LabSpec => ImplementsSetAssociative
<1>1. LabInit => SA!Init
  <2>1. Init => SA!Init
    BY DEF Init, Entered, SA!Init, OfTrace, OnTrace
  <2>2. TraceInit => SA!Init
    <3> SUFFICES ASSUME TraceInit PROVE SA!Init
      OBVIOUS
    <3>1. OnTrace /\ Sim!Init
      BY DEF TraceInit, OnTrace
    <3>2. Ranks(cache, pow2[param.s], param.E) = [block \in {} |-> 0]
      BY <3>1, StartsSound DEF Ranks
    <3> QED
      BY <3>1, <3>2, StartsSound, Seen DEF SA!Init
  <2> QED
    BY <2>1, <2>2 DEF LabInit
<1>2. SimInv /\ [LabNext]_vars => [SA!Next]_SA!vars
  <2>1. ASSUME Next PROVE UNCHANGED SA!vars
    <3>1. ~OnTrace
      BY <2>1 DEF Next, MoveStrip32, MoveFirst64, MoveSecond64, MoveThird64, MoveElement67,
                  MoveElement, OnTrace
    <3>2. ~OnTrace'
      BY <2>1, <3>1, StaysOff
    <3> QED
      BY <3>1, <3>2 DEF SA!vars, OfTrace, Geometry
  <2>2. ASSUME UNCHANGED vars PROVE UNCHANGED SA!vars
    BY <2>2, ResidentIs, StampsAre DEF vars, SA!vars, OfTrace, OnTrace, Geometry
  <2> QED
    BY <2>1, <2>2, TraceIsAccess DEF LabNext
<1> QED
  BY <1>1, <1>2, SoundInductive, PTL DEF LabSpec, ImplementsSetAssociative, SA!Spec

-----------------------------------------------------------------------------
(* A loop body: its accesses and its moves, one after the other.             *)

\* A move writes into B; the other kinds are accesses of the simulator.
OneStep(kind, x, y) ==
  IF kind = "B" THEN Write(x, y) ELSE executeInst(x.param, x.cache, kind, Address(y))

\* The function FoldLeft chooses: the last step of a set is made last.
Folding(f, kind, base, seq, K) ==
  f = [s \in SUBSET (1..K) |->
         IF s = {} THEN base ELSE OneStep(kind, f[s \ {Max(s)}], seq[Max(s)])]

\* A set of numbers has a greatest one.
LEMMA MaxIs ==
  ASSUME NEW K \in Nat, NEW s \in SUBSET (1..K), s # {}
  PROVE  Max(s) \in s /\ \A x \in s : x <= Max(s)
<1> DEFINE Above == {x \in Nat : \A y \in s : y <= x}
<1>1. Above \in SUBSET Nat /\ K \in Above
  OBVIOUS
<1>2. PICK x \in Above : \A y \in Above : x <= y
  BY <1>1, LeastIs
<1>3. x \in Nat /\ \A y \in s : y <= x
  BY <1>2
<1>4. x \in s
  <2> SUFFICES ASSUME x \notin s PROVE FALSE
    OBVIOUS
  <2>1. \A y \in s : y \in Nat /\ 1 <= y /\ y <= x - 1
    BY <1>3
  <2>2. x - 1 \in Nat
    <3>1. PICK y \in s : TRUE
      OBVIOUS
    <3> QED
      BY <1>3, <2>1, <3>1
  <2>3. x - 1 \in Above
    BY <2>1, <2>2
  <2> QED
    BY <1>2, <1>3, <2>3
<1> QED
  BY <1>3, <1>4 DEF Max

\* The greatest of the first numbers is the last one.
LEMMA MaxOfAll == ASSUME NEW n \in Nat, n > 0 PROVE Max(1..n) = n
<1>1. 1..n \in SUBSET (1..n) /\ 1..n # {} /\ n \in 1..n
  OBVIOUS
<1>2. Max(1..n) \in 1..n /\ n <= Max(1..n)
  BY <1>1, MaxIs
<1> QED
  BY <1>2

\* FoldLeft has a function to choose.
LEMMA FoldingExists ==
  ASSUME NEW kind, NEW base, NEW seq
  PROVE  \A K \in Nat : \E f : Folding(f, kind, base, seq, K)
<1> DEFINE Bad == {n \in Nat : ~ \E f : Folding(f, kind, base, seq, n)}
<1> SUFFICES ASSUME Bad # {} PROVE FALSE
  OBVIOUS
<1>1. PICK n \in Bad : \A m \in Bad : n <= m
  <2>1. Bad \in SUBSET Nat
    OBVIOUS
  <2> QED
    BY <2>1, LeastIs
<1>2. n \in Nat /\ ~ \E f : Folding(f, kind, base, seq, n)
  BY <1>1
<1>3. CASE n = 0
  <2> DEFINE g == [s \in SUBSET (1..0) |-> base]
  <2>1. Folding(g, kind, base, seq, 0)
    BY DEF Folding
  <2> QED
    BY <1>2, <1>3, <2>1
<1>4. CASE n > 0
  <2>1. n - 1 \in Nat /\ n - 1 \notin Bad
    BY <1>1, <1>2, <1>4
  <2>2. PICK f : Folding(f, kind, base, seq, n - 1)
    BY <2>1
  <2> DEFINE g == [s \in SUBSET (1..n) |-> IF n \in s THEN OneStep(kind, f[s \ {n}], seq[n]) ELSE f[s]]
  <2>3. ASSUME NEW s \in SUBSET (1..n)
        PROVE  g[s] = IF s = {} THEN base ELSE OneStep(kind, g[s \ {Max(s)}], seq[Max(s)])
    <3>1. CASE s = {}
      BY <2>1, <2>2, <3>1 DEF Folding
    <3>2. CASE n \in s
      <4>1. Max(s) = n
        <5>1. Max(s) \in s /\ n <= Max(s)
          BY <1>2, <3>2, MaxIs
        <5>2. Max(s) \in 1..n
          BY <5>1
        <5> QED
          BY <1>2, <5>1, <5>2
      <4>2. s \ {n} \in SUBSET (1..n) /\ n \notin s \ {n}
        OBVIOUS
      <4>3. g[s \ {n}] = f[s \ {n}]
        BY <4>2
      <4>4. g[s] = OneStep(kind, f[s \ {n}], seq[n])
        BY <3>2
      <4> QED
        BY <3>2, <4>1, <4>3, <4>4
    <3>3. CASE s # {} /\ n \notin s
      <4>1. s \in SUBSET (1..(n - 1)) /\ s \in SUBSET (1..n)
        BY <1>2, <3>3
      <4>2. PICK x : x = Max(s)
        OBVIOUS
      <4>3. s \ {x} \in SUBSET (1..n) /\ n \notin s \ {x}
        BY <3>3
      <4>4. g[s \ {x}] = f[s \ {x}] /\ g[s] = f[s]
        BY <3>3, <4>3
      <4>5. f[s] = OneStep(kind, f[s \ {x}], seq[x])
        BY <2>2, <3>3, <4>1, <4>2 DEF Folding
      <4> QED
        BY <3>3, <4>2, <4>4, <4>5
    <3> QED
      BY <3>1, <3>2, <3>3
  <2> HIDE DEF g
  <2>4. g = [s \in SUBSET (1..n) |-> g[s]]
    BY DEF g
  <2>5. Folding(g, kind, base, seq, n)
    BY <2>3, <2>4 DEF Folding
  <2> QED
    BY <1>2, <2>5
<1> QED
  BY <1>2, <1>3, <1>4

\* What the steps make, one by one.
Stages(W, kind, base, seq, K) ==
  /\ W[0] = base
  /\ \A n \in 1..K : W[n] = OneStep(kind, W[n - 1], seq[n])

\* The steps are made one after the other.
LEMMA InTurn ==
  ASSUME NEW K \in Nat, NEW kind, NEW base, NEW seq, NEW f, Folding(f, kind, base, seq, K)
  PROVE  \E W : Stages(W, kind, base, seq, K) /\ f[1..K] = W[K]
<1> DEFINE W == [n \in 0..K |-> f[1..n]]
<1>1. W[0] = base
  <2>1. {} \in SUBSET (1..K) /\ 1..0 = {}
    OBVIOUS
  <2> QED
    BY <2>1 DEF Folding
<1>2. ASSUME NEW n \in 1..K PROVE W[n] = OneStep(kind, W[n - 1], seq[n])
  <2>1. 1..n \in SUBSET (1..K) /\ 1..n # {} /\ n \in Nat /\ n > 0 /\ (1..n) \ {n} = 1..(n - 1)
    <3>1. n \in Nat /\ n > 0 /\ n <= K
      OBVIOUS
    <3>2. \A x \in 1..n : x \in 1..K
      BY <3>1
    <3>3. \A x : x \in (1..n) \ {n} <=> x \in 1..(n - 1)
      BY <3>1
    <3> QED
      BY <3>1, <3>2, <3>3
  <2>2. f[1..n] = OneStep(kind, f[(1..n) \ {n}], seq[n])
    BY <2>1, MaxOfAll DEF Folding
  <2>3. W[n] = f[1..n] /\ W[n - 1] = f[1..(n - 1)]
    OBVIOUS
  <2> QED
    BY <2>1, <2>2, <2>3
<1>3. W[K] = f[1..K]
  OBVIOUS
<1> HIDE DEF W
<1>4. Stages(W, kind, base, seq, K)
  BY <1>1, <1>2 DEF Stages
<1> QED
  BY <1>3, <1>4

\* The moves of a loop body.
LEMMA MovesInTurn ==
  ASSUME NEW K \in Nat, NEW moves, DOMAIN moves = 1..K
  PROVE  \E W : Stages(W, "B", B, moves, K) /\ FoldLeft(Write, B, moves) = W[K]
<1> DEFINE Is(f) == f = [s \in SUBSET (1..K) |->
                           IF s = {} THEN B ELSE Write(f[s \ {Max(s)}], moves[Max(s)])]
<1>1. PICK g : g = CHOOSE f : Is(f)
  OBVIOUS
<1>2. FoldLeft(Write, B, moves) = g[1..K]
  BY <1>1 DEF FoldLeft, MapThenFoldSet
<1>3. \A f : Is(f) <=> Folding(f, "B", B, moves, K)
  BY DEF Folding, OneStep
<1>4. \E f : Is(f)
  BY <1>3, FoldingExists
<1> HIDE DEF Is
<1>5. Is(g)
  BY <1>1, <1>4
<1> QED
  BY <1>2, <1>3, <1>5, InTurn

\* The accesses of a loop body.
LEMMA AccessesInTurn ==
  ASSUME NEW K \in Nat, NEW sim, NEW opt, opt # "B", NEW cells, DOMAIN cells = 1..K
  PROVE  \E W : Stages(W, opt, sim, cells, K) /\ Simulated(sim, opt, cells) = W[K]
<1> DEFINE Is(f) == f = [s \in SUBSET (1..K) |->
                           IF s = {} THEN sim
                           ELSE executeInst(f[s \ {Max(s)}].param, f[s \ {Max(s)}].cache, opt,
                                            Address(cells[Max(s)]))]
<1>1. PICK g : g = CHOOSE f : Is(f)
  OBVIOUS
<1>2. Simulated(sim, opt, cells) = g[1..K]
  BY <1>1 DEF Simulated, FoldLeft, MapThenFoldSet
<1>3. \A f : Is(f) <=> Folding(f, opt, sim, cells, K)
  BY DEF Folding, OneStep
<1>4. \E f : Is(f)
  BY <1>3, FoldingExists
<1> HIDE DEF Is
<1>5. Is(g)
  BY <1>1, <1>4
<1> QED
  BY <1>2, <1>3, <1>5, InTurn

\* The simulator's cache stays sound.
LEMMA StaysSound ==
  ASSUME NEW K \in Nat, NEW sim, NEW opt, opt # "B", NEW cells, DOMAIN cells = 1..K,
         Sound(sim.param, sim.cache), \A n \in 1..K : Address(cells[n]) \in Nat
  PROVE  Sound(Simulated(sim, opt, cells).param, Simulated(sim, opt, cells).cache)
<1>1. PICK W : Stages(W, opt, sim, cells, K) /\ Simulated(sim, opt, cells) = W[K]
  BY AccessesInTurn
<1> DEFINE Bad == {n \in Nat : n <= K /\ ~Sound(W[n].param, W[n].cache)}
<1>2. Bad = {}
  <2> SUFFICES ASSUME Bad # {} PROVE FALSE
    OBVIOUS
  <2>1. PICK n \in Bad : \A m \in Bad : n <= m
    <3>1. Bad \in SUBSET Nat
      OBVIOUS
    <3> QED
      BY <3>1, LeastIs
  <2>2. n \in Nat /\ n <= K /\ ~Sound(W[n].param, W[n].cache)
    BY <2>1
  <2>3. n # 0
    BY <1>1, <2>2 DEF Stages
  <2>4. n - 1 \in Nat /\ n - 1 <= K /\ n - 1 \notin Bad /\ n \in 1..K
    BY <2>1, <2>2, <2>3
  <2>5. Sound(W[n - 1].param, W[n - 1].cache)
    BY <2>4
  <2>6. PICK addr \in Nat : addr = Address(cells[n])
    BY <2>4
  <2>7. W[n] = executeInst(W[n - 1].param, W[n - 1].cache, opt, addr)
    BY <1>1, <2>4, <2>6 DEF Stages, OneStep
  <2>8. PICK q, d : executeInst(W[n - 1].param, W[n - 1].cache, opt, addr) = [param |-> q, cache |-> d]
    BY DEF executeInst
  <2>9. Sound(q, d)
    BY <2>5, <2>8, ExecuteServes
  <2> QED
    BY <2>2, <2>7, <2>8, <2>9
<1> QED
  BY <1>1, <1>2

IsMatrix(X) == X \in [0..(M - 1) -> [0..(N - 1) -> Nat \cup {Unset}]]

To(move, row, col) == move[2].row = row /\ move[2].col = col

\* Moves of numbers to different cells of B.
Movable(moves, K) ==
  /\ \A n \in 1..K : /\ moves[n][2].row \in 0..(M - 1) /\ moves[n][2].col \in 0..(N - 1)
                    /\ Value(moves[n][1]) \in Nat
  /\ \A m, n \in 1..K : m # n => ~To(moves[m], moves[n][2].row, moves[n][2].col)

\* X is B but for the first K moves.
Moved(X, moves, K) ==
  \A row \in 0..(M - 1), col \in 0..(N - 1) :
    /\ \A n \in 1..K : To(moves[n], row, col) => X[row][col] = Value(moves[n][1])
    /\ (\A n \in 1..K : ~To(moves[n], row, col)) => X[row][col] = B[row][col]

\* One more move.
LEMMA OneMove ==
  ASSUME NEW K \in Nat, NEW moves, NEW n \in 1..K, NEW X, NEW Y, Movable(moves, K),
         IsMatrix(X), Moved(X, moves, n - 1), Y = Write(X, moves[n])
  PROVE  IsMatrix(Y) /\ Moved(Y, moves, n)
<1>1. PICK r, c : r = moves[n][2].row /\ c = moves[n][2].col
  OBVIOUS
<1>2. PICK v : v = Value(moves[n][1])
  OBVIOUS
<1>3. Y = [X EXCEPT ![r][c] = v]
  BY <1>1, <1>2 DEF Write
<1>4. r \in 0..(M - 1) /\ c \in 0..(N - 1) /\ v \in Nat
  BY <1>1, <1>2 DEF Movable
<1>5. IsMatrix(Y)
  BY <1>3, <1>4 DEF IsMatrix
<1>6. /\ Y[r][c] = v
      /\ \A row \in 0..(M - 1), col \in 0..(N - 1) : row # r \/ col # c => Y[row][col] = X[row][col]
  BY <1>3, <1>4 DEF IsMatrix
<1>7. \A m \in 1..K : m # n => ~To(moves[m], r, c)
  BY <1>1 DEF Movable
<1>8. \A m : m \in 1..n <=> m = n \/ m \in 1..(n - 1)
  OBVIOUS
<1>9. \A m \in 1..(n - 1) : m \in 1..K /\ m # n
  OBVIOUS
<1>10. \A row, col : To(moves[n], row, col) <=> row = r /\ col = c
  BY <1>1 DEF To
<1>11. Moved(Y, moves, n)
  <2> SUFFICES ASSUME NEW row \in 0..(M - 1), NEW col \in 0..(N - 1)
               PROVE  /\ \A m \in 1..n : To(moves[m], row, col) => Y[row][col] = Value(moves[m][1])
                      /\ (\A m \in 1..n : ~To(moves[m], row, col)) => Y[row][col] = B[row][col]
    BY DEF Moved
  <2>1. /\ \A m \in 1..(n - 1) : To(moves[m], row, col) => X[row][col] = Value(moves[m][1])
        /\ (\A m \in 1..(n - 1) : ~To(moves[m], row, col)) => X[row][col] = B[row][col]
    BY DEF Moved
  <2>2. CASE row = r /\ col = c
    BY <1>2, <1>6, <1>7, <1>8, <1>9, <1>10, <2>2
  <2>3. CASE row # r \/ col # c
    <3>1. Y[row][col] = X[row][col] /\ ~To(moves[n], row, col)
      BY <1>6, <1>10, <2>3
    <3> QED
      BY <1>8, <2>1, <3>1
  <2> QED
    BY <2>2, <2>3
<1> QED
  BY <1>5, <1>11

\* A loop body leaves what its moves wrote, and the rest as it was.
LEMMA Bodies ==
  ASSUME NEW K \in Nat, NEW moves, DOMAIN moves = 1..K, Movable(moves, K), IsMatrix(B)
  PROVE  IsMatrix(FoldLeft(Write, B, moves)) /\ Moved(FoldLeft(Write, B, moves), moves, K)
<1>1. PICK W : Stages(W, "B", B, moves, K) /\ FoldLeft(Write, B, moves) = W[K]
  BY MovesInTurn
<1> DEFINE Bad == {n \in Nat : n <= K /\ ~(IsMatrix(W[n]) /\ Moved(W[n], moves, n))}
<1>2. Bad = {}
  <2> SUFFICES ASSUME Bad # {} PROVE FALSE
    OBVIOUS
  <2>1. PICK n \in Bad : \A m \in Bad : n <= m
    <3>1. Bad \in SUBSET Nat
      OBVIOUS
    <3> QED
      BY <3>1, LeastIs
  <2>2. n \in Nat /\ n <= K /\ ~(IsMatrix(W[n]) /\ Moved(W[n], moves, n))
    BY <2>1
  <2>3. CASE n = 0
    <3>1. IsMatrix(W[0])
      BY <1>1 DEF Stages
    <3>2. Moved(W[0], moves, 0)
      BY <1>1 DEF Stages, Moved
    <3> QED
      BY <2>2, <2>3, <3>1, <3>2
  <2>4. CASE n > 0
    <3>1. n - 1 \in Nat /\ n - 1 <= K /\ n - 1 \notin Bad /\ n \in 1..K
      BY <2>1, <2>2, <2>4
    <3>2. IsMatrix(W[n - 1]) /\ Moved(W[n - 1], moves, n - 1)
      BY <3>1
    <3>3. W[n] = Write(W[n - 1], moves[n])
      BY <1>1, <3>1 DEF Stages, OneStep
    <3> QED
      BY <2>2, <3>1, <3>2, <3>3, OneMove
  <2> QED
    BY <2>2, <2>3, <2>4
<1> QED
  BY <1>1, <1>2
-----------------------------------------------------------------------------
(* The loops of the transposes, for the sizes they are written for.          *)

Tiles == {0, 8, 16, 24, 32, 40, 48, 56}
Strips67 == {0, 17, 34, 51}

\* Element (row, col) of A is where it belongs.
Right(row, col) == B[col][row] = A(row, col)

\* It is in sub block 2 of B, where it waits for the other half of its block.
Parked(row, col) == B[col - 4][row + 4] = A(row, col)

Area(rows, cols, P(_, _)) == \A row \in rows, col \in cols : P(row, col)

\* The blocks before the present one.
BlocksDone(last) ==
  \A row \in 0..last, col \in 0..last :
    row < loop.i \/ (row < loop.i + 8 /\ col < loop.j) => Right(row, col)

In32 == M = 32 /\ N = 32 /\ loop.i \in {0, 8, 16, 24} /\ loop.j \in 0..31 /\ BlocksDone(31)

In64 == M = 64 /\ N = 64 /\ loop.i \in Tiles /\ loop.j \in Tiles /\ loop.k \in Nat /\ BlocksDone(63)

InFirst64 ==
  LET i == loop.i
      j == loop.j
      k == loop.k
  IN  /\ In64 /\ i <= k /\ k < i + 4
      /\ Area(i..(k - 1), j..(j + 3), Right) /\ Area(i..(k - 1), (j + 4)..(j + 7), Parked)

InSecond64 ==
  LET i == loop.i
      j == loop.j
      k == loop.k
  IN  /\ In64 /\ j <= k /\ k < j + 4
      /\ Area(i..(i + 3), j..(k + 3), Right) /\ Area(i..(i + 3), (k + 4)..(j + 7), Parked)
      /\ Area((i + 4)..(i + 7), j..(k - 1), Right)

InThird64 ==
  LET i == loop.i
      j == loop.j
      k == loop.k
  IN  /\ In64 /\ j + 4 <= k /\ k < j + 8
      /\ Area(i..(i + 3), j..(j + 7), Right) /\ Area((i + 4)..(i + 7), j..(k - 1), Right)

In67 ==
  LET i == loop.i
      k == loop.k
      l == loop.l
  IN  /\ M = 61 /\ N = 67 /\ i \in Strips67 /\ loop.j \in Strips67 /\ k \in Nat /\ l \in Nat
      /\ loop.j <= k /\ k < ColumnEnd67 /\ i <= l /\ l < RowEnd67
      /\ \A row \in 0..66, col \in 0..60 :
           col < i \/ (col < i + 17 /\ row < k) \/ (row = k /\ col < l) => Right(row, col)

InTrans ==
  /\ loop.i \in 0..(N - 1) /\ loop.j \in 0..(M - 1)
  /\ \A row \in 0..(N - 1), col \in 0..(M - 1) :
       row < loop.i \/ (row = loop.i /\ col < loop.j) => Right(row, col)

\* The evaluations whose loops the size of the matrix is right for.
Fits(e) == e.func = "trans" \/ e \in Graded \/ e.N \notin {32, 64, 67}

\* What B holds in each loop.
LoopInv ==
  /\ M \in 1..256 /\ N \in 1..256 /\ IsMatrix(B)
  /\ loop \in [i : Nat, j : Nat, k : Nat, l : Nat] /\ Sound(param, cache)
  /\ \/ phase = "32" /\ In32
     \/ phase = "first64" /\ InFirst64
     \/ phase = "second64" /\ InSecond64
     \/ phase = "third64" /\ InThird64
     \/ phase = "67" /\ In67
     \/ phase = "trans" /\ InTrans
     \/ phase = "done" /\ (eval \in Graded \/ eval.func = "trans" => is_transpose)
-----------------------------------------------------------------------------
(* What the loop bodies read and write.                                      *)

\* What a move reads, and where it goes.
LEMMA Cells ==
  ASSUME NEW r, NEW c
  PROVE  /\ Value(InA(r, c)) = A(r, c) /\ Value(InB(r, c)) = B[r][c]
         /\ InB(r, c).row = r /\ InB(r, c).col = c
         /\ r \in 0..(N - 1) /\ c \in 0..(M - 1) => Inside(InA(r, c))
         /\ r \in 0..(M - 1) /\ c \in 0..(N - 1) => Inside(InB(r, c))
BY DEF Value, InA, InB, Inside

\* The elements of A are numbers.
LEMMA ElementIsNat == ASSUME M \in Nat, NEW r \in Nat, NEW c \in Nat PROVE A(r, c) \in Nat
<1>1. \A x, y \in Nat : x * y \in Nat
  OBVIOUS
<1>2. r * M \in Nat
  BY <1>1
<1> QED
  BY <1>2 DEF A

\* So are the addresses of the cells.
LEMMA AddressIsNat == ASSUME M \in Nat, N \in Nat, NEW cell, Inside(cell) PROVE Address(cell) \in Nat
<1>1. \A x, y \in Nat : x * y \in Nat
  OBVIOUS
<1>2. cell.row \in Nat /\ cell.col \in Nat
  BY DEF Inside
<1>3. cell.row * M \in Nat /\ cell.row * N \in Nat
  BY <1>1, <1>2
<1> QED
  BY <1>2, <1>3 DEF Address

\* The moves of a body lie in the matrices and do not meet.
Sane(moves, K) ==
  /\ K \in Nat /\ DOMAIN moves = 1..K /\ Movable(moves, K)
  /\ \A n \in 1..K : Inside(moves[n][1]) /\ Inside(moves[n][2])

\* What a body does to B and to the simulator.
LEMMA RunIs ==
  ASSUME NEW K, NEW moves, Sane(moves, K), M \in Nat, N \in Nat, IsMatrix(B), Sound(param, cache),
         Run(moves)
  PROVE  IsMatrix(B') /\ Moved(B', moves, K) /\ Sound(param', cache')
<1> DEFINE loads == [n \in DOMAIN moves |-> moves[n][1]]
           stores == [n \in DOMAIN moves |-> moves[n][2]]
           loaded == Simulated([param |-> param, cache |-> cache], "L", loads)
           stored == Simulated(loaded, "S", stores)
<1>1. B' = FoldLeft(Write, B, moves) /\ param' = stored.param /\ cache' = stored.cache
  BY DEF Run
<1>2. IsMatrix(B') /\ Moved(B', moves, K)
  BY <1>1, Bodies DEF Sane
<1>3. /\ DOMAIN loads = 1..K /\ DOMAIN stores = 1..K
      /\ \A n \in 1..K : Address(loads[n]) \in Nat /\ Address(stores[n]) \in Nat
  BY AddressIsNat DEF Sane
<1> HIDE DEF loads, stores
<1>4. K \in Nat
  BY DEF Sane
<1>5. Sound(loaded.param, loaded.cache)
  <2> DEFINE sim == [param |-> param, cache |-> cache]
  <2>1. Sound(sim.param, sim.cache)
    OBVIOUS
  <2> HIDE DEF sim
  <2>2. Sound(Simulated(sim, "L", loads).param, Simulated(sim, "L", loads).cache)
    BY <1>3, <1>4, <2>1, StaysSound
  <2> QED
    BY <2>2 DEF sim
<1> HIDE DEF loaded
<1>6. Sound(stored.param, stored.cache)
  BY <1>3, <1>4, <1>5, StaysSound
<1> QED
  BY <1>1, <1>2, <1>6

\* Where the elements of A are after a step.
LEMMA Later ==
  ASSUME eval' = eval
  PROVE  /\ M' = M /\ N' = N
         /\ \A row, col : Right(row, col)' <=> B'[col][row] = A(row, col)
         /\ \A row, col : Parked(row, col)' <=> B'[col - 4][row + 4] = A(row, col)
BY DEF M, N, Right, Parked, A

\* The corners of the blocks.
LEMMA Corners ==
  /\ \A i \in Tiles : i \in Nat /\ i + 8 <= 64 /\ (i + 8 < 64 => i + 8 \in Tiles)
  /\ \A i \in {0, 8, 16, 24} : i \in Nat /\ i + 8 <= 32 /\ (i + 8 < 32 => i + 8 \in {0, 8, 16, 24})
  /\ \A i \in Strips67 : i \in Nat /\ i <= 51 /\ (i + 17 < 67 => i + 17 \in Strips67)
BY DEF Tiles, Strips67

\* The moves go to cell (R[n], C[n]) of B with V[n], each to its own.
Plan(moves, K, R, C, V) ==
  /\ K \in Nat /\ DOMAIN moves = 1..K
  /\ \A n \in 1..K : /\ Inside(moves[n][1]) /\ Value(moves[n][1]) = V[n] /\ V[n] \in Nat
                    /\ moves[n][2] = InB(R[n], C[n])
                    /\ R[n] \in 0..(M - 1) /\ C[n] \in 0..(N - 1)
  /\ \A m, n \in 1..K : m # n => R[m] # R[n] \/ C[m] # C[n]

\* Such moves are sane.
LEMMA PlanSane ==
  ASSUME NEW moves, NEW K, NEW R, NEW C, NEW V, Plan(moves, K, R, C, V)
  PROVE  Sane(moves, K)
<1>1. \A n \in 1..K : moves[n][2].row = R[n] /\ moves[n][2].col = C[n] /\ Inside(moves[n][2])
  BY Cells DEF Plan
<1>2. Movable(moves, K)
  BY <1>1 DEF Plan, Movable, To
<1> QED
  BY <1>1, <1>2 DEF Plan, Sane

\* What they make of B.
LEMMA PlanMade ==
  ASSUME NEW moves, NEW K, NEW R, NEW C, NEW V, Plan(moves, K, R, C, V),
         NEW X, Moved(X, moves, K), NEW row \in 0..(M - 1), NEW col \in 0..(N - 1)
  PROVE  /\ \A n \in 1..K : row = R[n] /\ col = C[n] => X[row][col] = V[n]
         /\ (\A n \in 1..K : row # R[n] \/ col # C[n]) => X[row][col] = B[row][col]
<1>1. \A n \in 1..K : To(moves[n], row, col) <=> row = R[n] /\ col = C[n]
  BY Cells DEF Plan, To
<1>2. /\ \A n \in 1..K : To(moves[n], row, col) => X[row][col] = Value(moves[n][1])
      /\ (\A n \in 1..K : ~To(moves[n], row, col)) => X[row][col] = B[row][col]
  BY DEF Moved
<1>3. \A n \in 1..K : Value(moves[n][1]) = V[n]
  BY DEF Plan
<1> QED
  BY <1>1, <1>2, <1>3

\* The strip of eight rows of the submission for 32 by 32.
LEMMA Strip32Plan ==
  ASSUME phase = "32", In32
  PROVE  Plan(Moves, 8, [n \in 1..8 |-> loop.j], [n \in 1..8 |-> loop.i + (n - 1)],
              [n \in 1..8 |-> A(loop.i + (n - 1), loop.j)])
<1>1. PICK i, j : i = loop.i /\ j = loop.j
  OBVIOUS
<1>2. M = 32 /\ N = 32 /\ i \in Nat /\ i + 8 <= 32 /\ j \in 0..31
  BY <1>1, Corners DEF In32
<1>3. Moves = [n \in 1..8 |-> <<InA(i + (n - 1), j), InB(j, i + (n - 1))>>]
  BY <1>1 DEF Moves, Strip32, Eight
<1> DEFINE C == [n \in 1..8 |-> i + (n - 1)]
           R == [n \in 1..8 |-> j]
           V == [n \in 1..8 |-> A(i + (n - 1), j)]
<1>4. ASSUME NEW n \in 1..8
      PROVE  /\ Inside(Moves[n][1]) /\ Value(Moves[n][1]) = V[n] /\ V[n] \in Nat
             /\ Moves[n][2] = InB(R[n], C[n]) /\ R[n] \in 0..(M - 1) /\ C[n] \in 0..(N - 1)
  <2>1. PICK r : r = i + (n - 1)
    OBVIOUS
  <2>2. r \in 0..(N - 1) /\ j \in 0..(M - 1) /\ r \in Nat /\ j \in Nat /\ M \in Nat
    BY <1>2, <2>1
  <2>3. Moves[n][1] = InA(r, j) /\ Moves[n][2] = InB(j, r) /\ C[n] = r /\ R[n] = j /\ V[n] = A(r, j)
    BY <1>3, <2>1
  <2>4. Inside(InA(r, j)) /\ Value(InA(r, j)) = A(r, j) /\ A(r, j) \in Nat
    BY <2>2, Cells, ElementIsNat
  <2> HIDE DEF C, R, V
  <2> QED
    BY <2>2, <2>3, <2>4
<1>5. \A m, n \in 1..8 : m # n => C[m] # C[n]
  BY <1>2
<1>6. DOMAIN Moves = 1..8
  BY <1>3
<1> HIDE DEF C, R, V
<1>7. Plan(Moves, 8, R, C, V)
  BY <1>4, <1>5, <1>6 DEF Plan
<1> QED
  BY <1>1, <1>7 DEF C, R, V

\* It puts its elements right, and moves none that is.
LEMMA Strip32Moves ==
  ASSUME phase = "32", In32, Moved(B', Moves, 8), eval' = eval,
         NEW row \in 0..31, NEW col \in 0..31
  PROVE  /\ col = loop.j /\ loop.i <= row /\ row < loop.i + 8 => Right(row, col)'
         /\ Right(row, col) => Right(row, col)'
<1>1. PICK i, j : i = loop.i /\ j = loop.j
  OBVIOUS
<1>2. M = 32 /\ N = 32 /\ i \in Nat /\ i + 8 <= 32 /\ j \in 0..31
  BY <1>1, Corners DEF In32
<1>3. col \in 0..(M - 1) /\ row \in 0..(N - 1)
  BY <1>2
<1>4. /\ \A n \in 1..8 : col = j /\ row = i + (n - 1) => B'[col][row] = A(i + (n - 1), j)
      /\ (\A n \in 1..8 : col # j \/ row # i + (n - 1)) => B'[col][row] = B[col][row]
  BY <1>1, <1>3, Strip32Plan, PlanMade
<1>5. CASE col = j /\ i <= row /\ row < i + 8
  <2>1. PICK n \in 1..8 : row = i + (n - 1)
    <3>1. (row - i) + 1 \in 1..8 /\ row = i + (((row - i) + 1) - 1)
      BY <1>2, <1>5
    <3> QED
      BY <3>1
  <2>2. B'[col][row] = A(row, col)
    BY <1>4, <1>5, <2>1
  <2> QED
    BY <2>2, Later
<1>6. CASE ~(col = j /\ i <= row /\ row < i + 8)
  <2>1. \A n \in 1..8 : col # j \/ row # i + (n - 1)
    BY <1>2, <1>6
  <2>2. B'[col][row] = B[col][row]
    BY <1>4, <2>1
  <2> QED
    BY <1>1, <1>6, <2>2, Later DEF Right
<1> QED
  BY <1>1, <1>5, <1>6

\* Rows of the upper half of a block, for 64 by 64.
LEMMA First64Plan ==
  ASSUME phase = "first64", InFirst64
  PROVE  Plan(Moves, 8,
              [n \in 1..8 |-> IF n <= 4 THEN loop.j + (n - 1) ELSE loop.j + (n - 5)],
              [n \in 1..8 |-> IF n <= 4 THEN loop.k ELSE loop.k + 4],
              [n \in 1..8 |-> A(loop.k, loop.j + (n - 1))])
<1>1. PICK i, j, k : i = loop.i /\ j = loop.j /\ k = loop.k
  OBVIOUS
<1>2. /\ M = 64 /\ N = 64 /\ i \in Nat /\ i + 8 <= 64 /\ j \in Nat /\ j + 8 <= 64
      /\ k \in Nat /\ i <= k /\ k < i + 4
  BY <1>1, Corners DEF InFirst64, In64
<1>3. Moves = [n \in 1..8 |-> <<InA(k, j + (n - 1)),
                                IF n - 1 < 4 THEN InB(j + (n - 1), k) ELSE InB(j + (n - 1) - 4, k + 4)>>]
  BY <1>1 DEF Moves, First64, Eight
<1> DEFINE R == [n \in 1..8 |-> IF n <= 4 THEN j + (n - 1) ELSE j + (n - 5)]
           C == [n \in 1..8 |-> IF n <= 4 THEN k ELSE k + 4]
           V == [n \in 1..8 |-> A(k, j + (n - 1))]
<1>4. ASSUME NEW n \in 1..8
      PROVE  /\ Inside(Moves[n][1]) /\ Value(Moves[n][1]) = V[n] /\ V[n] \in Nat
             /\ Moves[n][2] = InB(R[n], C[n]) /\ R[n] \in 0..(M - 1) /\ C[n] \in 0..(N - 1)
  <2>1. PICK c : c = j + (n - 1)
    OBVIOUS
  <2>2. k \in 0..(N - 1) /\ c \in 0..(M - 1) /\ c \in Nat /\ M \in Nat
    BY <1>2, <2>1
  <2>3. Moves[n][1] = InA(k, c) /\ V[n] = A(k, c)
    BY <1>3, <2>1
  <2>4. Inside(InA(k, c)) /\ Value(InA(k, c)) = A(k, c) /\ A(k, c) \in Nat
    BY <1>2, <2>2, Cells, ElementIsNat
  <2>5. R[n] \in 0..(M - 1) /\ C[n] \in 0..(N - 1)
    BY <1>2
  <2>6. Moves[n][2] = InB(R[n], C[n])
    <3>1. CASE n <= 4
      BY <1>3, <3>1
    <3>2. CASE ~(n <= 4)
      <4>1. j + (n - 1) - 4 = j + (n - 5) /\ ~(n - 1 < 4)
        BY <1>2, <3>2
      <4>2. Moves[n][2] = InB(j + (n - 1) - 4, k + 4)
        BY <1>3, <4>1
      <4> QED
        BY <3>2, <4>1, <4>2
    <3> QED
      BY <3>1, <3>2
  <2> HIDE DEF C, R, V
  <2> QED
    BY <2>3, <2>4, <2>5, <2>6
<1>5. \A m, n \in 1..8 : m # n => R[m] # R[n] \/ C[m] # C[n]
  BY <1>2
<1>6. DOMAIN Moves = 1..8
  BY <1>3
<1> HIDE DEF C, R, V
<1>7. Plan(Moves, 8, R, C, V)
  BY <1>4, <1>5, <1>6 DEF Plan
<1> QED
  BY <1>1, <1>7 DEF C, R, V

\* The left half of the row is right then, and the other half parked.
LEMMA First64Moves ==
  ASSUME phase = "first64", InFirst64, Moved(B', Moves, 8), eval' = eval,
         NEW row \in 0..63, NEW col \in 0..63
  PROVE  /\ row = loop.k /\ loop.j <= col /\ col < loop.j + 4 => Right(row, col)'
         /\ row = loop.k /\ loop.j + 4 <= col /\ col < loop.j + 8 => Parked(row, col)'
         /\ Right(row, col) /\ ~(loop.j <= col /\ col < loop.j + 4 /\ row >= loop.k) => Right(row, col)'
         /\ Parked(row, col) /\ loop.i <= row /\ row < loop.k /\ loop.j + 4 <= col /\ col < loop.j + 8
              => Parked(row, col)'
<1>1. PICK i, j, k : i = loop.i /\ j = loop.j /\ k = loop.k
  OBVIOUS
<1>2. /\ M = 64 /\ N = 64 /\ i \in Nat /\ i + 8 <= 64 /\ j \in Nat /\ j + 8 <= 64
      /\ k \in Nat /\ i <= k /\ k < i + 4
  BY <1>1, Corners DEF InFirst64, In64
<1>3. ASSUME NEW r \in 0..63, NEW c \in 0..63
      PROVE  /\ c = k /\ j <= r /\ r < j + 4 => B'[r][c] = A(k, r)
             /\ c = k + 4 /\ j <= r /\ r < j + 4 => B'[r][c] = A(k, r + 4)
             /\ ~(j <= r /\ r < j + 4 /\ (c = k \/ c = k + 4)) => B'[r][c] = B[r][c]
  <2>1. r \in 0..(M - 1) /\ c \in 0..(N - 1)
    BY <1>2
  <2>2. /\ \A n \in 1..8 : /\ r = (IF n <= 4 THEN j + (n - 1) ELSE j + (n - 5))
                           /\ c = (IF n <= 4 THEN k ELSE k + 4)
                          => B'[r][c] = A(k, j + (n - 1))
        /\ (\A n \in 1..8 : \/ r # (IF n <= 4 THEN j + (n - 1) ELSE j + (n - 5))
                            \/ c # (IF n <= 4 THEN k ELSE k + 4))
             => B'[r][c] = B[r][c]
    BY <1>1, <2>1, First64Plan, PlanMade
  <2>3. ASSUME c = k, j <= r, r < j + 4 PROVE B'[r][c] = A(k, r)
    <3>1. PICK n \in 1..8 : n <= 4 /\ r = j + (n - 1)
      <4>1. (r - j) + 1 \in 1..8 /\ (r - j) + 1 <= 4 /\ r = j + (((r - j) + 1) - 1)
        BY <1>2, <2>3
      <4> QED
        BY <4>1
    <3> QED
      BY <2>2, <2>3, <3>1
  <2>4. ASSUME c = k + 4, j <= r, r < j + 4 PROVE B'[r][c] = A(k, r + 4)
    <3>1. PICK n \in 1..8 : ~(n <= 4) /\ r = j + (n - 5) /\ r + 4 = j + (n - 1)
      <4>1. /\ (r - j) + 5 \in 1..8 /\ ~((r - j) + 5 <= 4) /\ r = j + (((r - j) + 5) - 5)
            /\ r + 4 = j + (((r - j) + 5) - 1)
        BY <1>2, <2>4
      <4> QED
        BY <4>1
    <3> QED
      BY <2>2, <2>4, <3>1
  <2>5. ASSUME ~(j <= r /\ r < j + 4 /\ (c = k \/ c = k + 4)) PROVE B'[r][c] = B[r][c]
    <3>1. \A n \in 1..8 : \/ r # (IF n <= 4 THEN j + (n - 1) ELSE j + (n - 5))
                          \/ c # (IF n <= 4 THEN k ELSE k + 4)
      BY <1>2, <2>5
    <3> QED
      BY <2>2, <3>1
  <2> QED
    BY <2>3, <2>4, <2>5
<1>4. ASSUME row = k, j <= col, col < j + 4 PROVE Right(row, col)'
  BY <1>3, <1>4, Later
<1>5. ASSUME row = k, j + 4 <= col, col < j + 8 PROVE Parked(row, col)'
  <2>1. PICK c : c = col - 4
    OBVIOUS
  <2>2. c \in 0..63 /\ row + 4 \in 0..63 /\ j <= c /\ c < j + 4 /\ c + 4 = col
    BY <1>2, <1>5, <2>1
  <2>3. B'[c][row + 4] = A(row, col)
    BY <1>3, <1>5, <2>2
  <2> QED
    BY <2>1, <2>3, Later
<1>6. ASSUME Right(row, col), ~(j <= col /\ col < j + 4 /\ row >= k) PROVE Right(row, col)'
  <2>1. ~(j <= col /\ col < j + 4 /\ (row = k \/ row = k + 4))
    BY <1>2, <1>6
  <2>2. B'[col][row] = B[col][row]
    BY <1>3, <2>1
  <2> QED
    BY <1>6, <2>2, Later DEF Right
<1>7. ASSUME Parked(row, col), i <= row, row < k, j + 4 <= col, col < j + 8
      PROVE  Parked(row, col)'
  <2>1. PICK r, c : r = col - 4 /\ c = row + 4
    OBVIOUS
  <2>2. r \in 0..63 /\ c \in 0..63 /\ c # k /\ c # k + 4
    BY <1>2, <1>7, <2>1
  <2>3. B'[r][c] = B[r][c]
    BY <1>3, <2>2
  <2> QED
    BY <1>7, <2>1, <2>3, Later DEF Parked
<1> QED
  BY <1>1, <1>4, <1>5, <1>6, <1>7

\* Columns of the lower half of a block, and what is parked in them.
LEMMA Second64Plan ==
  ASSUME phase = "second64", InSecond64
  PROVE  Plan(Moves, 8,
              [n \in 1..8 |-> IF n <= 4 THEN loop.k ELSE loop.k + 4],
              [n \in 1..8 |-> IF n <= 4 THEN loop.i + (n + 3) ELSE loop.i + (n - 5)],
              [n \in 1..8 |-> IF n <= 4 THEN A(loop.i + (n + 3), loop.k)
                              ELSE A(loop.i + (n - 5), loop.k + 4)])
<1>1. PICK i, j, k : i = loop.i /\ j = loop.j /\ k = loop.k
  OBVIOUS
<1>2. /\ M = 64 /\ N = 64 /\ i \in Nat /\ i + 8 <= 64 /\ j \in Nat /\ j + 8 <= 64
      /\ k \in Nat /\ j <= k /\ k < j + 4
  BY <1>1, Corners DEF InSecond64, In64
<1>3. Moves = [n \in 1..8 |->
                 <<IF n - 1 < 4 THEN InA(i + 4 + (n - 1), k) ELSE InB(k, i + (n - 1)),
                   IF n - 1 < 4 THEN InB(k, i + 4 + (n - 1)) ELSE InB(k + 4, i + (n - 1) - 4)>>]
  BY <1>1 DEF Moves, Second64, Eight
<1> DEFINE R == [n \in 1..8 |-> IF n <= 4 THEN k ELSE k + 4]
           C == [n \in 1..8 |-> IF n <= 4 THEN i + (n + 3) ELSE i + (n - 5)]
           V == [n \in 1..8 |-> IF n <= 4 THEN A(i + (n + 3), k) ELSE A(i + (n - 5), k + 4)]
<1>4. ASSUME NEW n \in 1..8
      PROVE  /\ Inside(Moves[n][1]) /\ Value(Moves[n][1]) = V[n] /\ V[n] \in Nat
             /\ Moves[n][2] = InB(R[n], C[n]) /\ R[n] \in 0..(M - 1) /\ C[n] \in 0..(N - 1)
  <2>1. R[n] \in 0..(M - 1) /\ C[n] \in 0..(N - 1)
    BY <1>2
  <2>2. CASE n <= 4
    <3>1. PICK r : r = i + (n + 3)
      OBVIOUS
    <3>2. /\ r \in 0..(N - 1) /\ k \in 0..(M - 1) /\ r \in Nat /\ M \in Nat
          /\ i + 4 + (n - 1) = r /\ n - 1 < 4
      BY <1>2, <2>2, <3>1
    <3>3. Moves[n][1] = InA(r, k) /\ Moves[n][2] = InB(k, r)
      BY <1>3, <3>2
    <3>4. R[n] = k /\ C[n] = r /\ V[n] = A(r, k)
      BY <2>2, <3>1
    <3>5. Inside(InA(r, k)) /\ Value(InA(r, k)) = A(r, k) /\ A(r, k) \in Nat
      BY <1>2, <3>2, Cells, ElementIsNat
    <3> HIDE DEF C, R, V
    <3> QED
      BY <2>1, <3>3, <3>4, <3>5
  <2>3. CASE ~(n <= 4)
    <3>1. PICK r, c : r = i + (n - 5) /\ c = k + 4
      OBVIOUS
    <3>2. /\ r \in i..(i + 3) /\ c \in (k + 4)..(j + 7) /\ r \in Nat /\ c \in Nat /\ M \in Nat
          /\ k \in 0..(M - 1) /\ r + 4 \in 0..(N - 1) /\ c - 4 = k
          /\ i + (n - 1) = r + 4 /\ i + (n - 1) - 4 = r /\ ~(n - 1 < 4)
      BY <1>2, <2>3, <3>1
    <3>3. Moves[n][1] = InB(k, r + 4) /\ Moves[n][2] = InB(c, r)
      BY <1>3, <3>1, <3>2
    <3>4. R[n] = c /\ C[n] = r /\ V[n] = A(r, c)
      BY <2>3, <3>1
    <3>5. B[k][r + 4] = A(r, c)
      <4>1. Parked(r, c)
        BY <1>1, <3>2 DEF InSecond64, Area
      <4> QED
        BY <3>2, <4>1 DEF Parked
    <3>6. Inside(InB(k, r + 4)) /\ Value(InB(k, r + 4)) = A(r, c) /\ A(r, c) \in Nat
      <4>1. A(r, c) \in Nat
        BY <3>2, ElementIsNat
      <4>2. Value(InB(k, r + 4)) = A(r, c)
        BY <3>5, Cells
      <4> QED
        BY <3>2, <4>1, <4>2, Cells
    <3> HIDE DEF C, R, V
    <3> QED
      BY <2>1, <3>3, <3>4, <3>6
  <2> QED
    BY <2>2, <2>3
<1>5. \A m, n \in 1..8 : m # n => R[m] # R[n] \/ C[m] # C[n]
  BY <1>2
<1>6. DOMAIN Moves = 1..8
  BY <1>3
<1> HIDE DEF C, R, V
<1>7. Plan(Moves, 8, R, C, V)
  BY <1>4, <1>5, <1>6 DEF Plan
<1> QED
  BY <1>1, <1>7 DEF C, R, V

\* All they move is right then.
LEMMA Second64Moves ==
  ASSUME phase = "second64", InSecond64, Moved(B', Moves, 8), eval' = eval,
         NEW row \in 0..63, NEW col \in 0..63
  PROVE  /\ col = loop.k /\ loop.i + 4 <= row /\ row < loop.i + 8 => Right(row, col)'
         /\ col = loop.k + 4 /\ loop.i <= row /\ row < loop.i + 4 => Right(row, col)'
         /\ Right(row, col) => Right(row, col)'
         /\ Parked(row, col) /\ loop.i <= row /\ row < loop.i + 4 /\ loop.k + 5 <= col /\ col < loop.j + 8
              => Parked(row, col)'
<1>1. PICK i, j, k : i = loop.i /\ j = loop.j /\ k = loop.k
  OBVIOUS
<1>2. /\ M = 64 /\ N = 64 /\ i \in Nat /\ i + 8 <= 64 /\ j \in Nat /\ j + 8 <= 64
      /\ k \in Nat /\ j <= k /\ k < j + 4
  BY <1>1, Corners DEF InSecond64, In64
<1>3. ASSUME NEW r \in 0..63, NEW c \in 0..63
      PROVE  /\ r = k /\ i + 4 <= c /\ c < i + 8 => B'[r][c] = A(c, k)
             /\ r = k + 4 /\ i <= c /\ c < i + 4 => B'[r][c] = A(c, k + 4)
             /\ ~(r = k /\ i + 4 <= c /\ c < i + 8) /\ ~(r = k + 4 /\ i <= c /\ c < i + 4)
                  => B'[r][c] = B[r][c]
  <2>1. r \in 0..(M - 1) /\ c \in 0..(N - 1)
    BY <1>2
  <2>2. /\ \A n \in 1..8 : /\ r = (IF n <= 4 THEN k ELSE k + 4)
                           /\ c = (IF n <= 4 THEN i + (n + 3) ELSE i + (n - 5))
                          => B'[r][c] = IF n <= 4 THEN A(i + (n + 3), k) ELSE A(i + (n - 5), k + 4)
        /\ (\A n \in 1..8 : \/ r # (IF n <= 4 THEN k ELSE k + 4)
                            \/ c # (IF n <= 4 THEN i + (n + 3) ELSE i + (n - 5)))
             => B'[r][c] = B[r][c]
    BY <1>1, <2>1, Second64Plan, PlanMade
  <2>3. ASSUME r = k, i + 4 <= c, c < i + 8 PROVE B'[r][c] = A(c, k)
    <3>1. PICK n \in 1..8 : n <= 4 /\ c = i + (n + 3)
      <4>1. (c - i) - 3 \in 1..8 /\ (c - i) - 3 <= 4 /\ c = i + (((c - i) - 3) + 3)
        BY <1>2, <2>3
      <4> QED
        BY <4>1
    <3> QED
      BY <2>2, <2>3, <3>1
  <2>4. ASSUME r = k + 4, i <= c, c < i + 4 PROVE B'[r][c] = A(c, k + 4)
    <3>1. PICK n \in 1..8 : ~(n <= 4) /\ c = i + (n - 5)
      <4>1. (c - i) + 5 \in 1..8 /\ ~((c - i) + 5 <= 4) /\ c = i + (((c - i) + 5) - 5)
        BY <1>2, <2>4
      <4> QED
        BY <4>1
    <3> QED
      BY <2>2, <2>4, <3>1
  <2>5. ASSUME ~(r = k /\ i + 4 <= c /\ c < i + 8), ~(r = k + 4 /\ i <= c /\ c < i + 4)
        PROVE  B'[r][c] = B[r][c]
    <3>1. \A n \in 1..8 : \/ r # (IF n <= 4 THEN k ELSE k + 4)
                          \/ c # (IF n <= 4 THEN i + (n + 3) ELSE i + (n - 5))
      BY <1>2, <2>5
    <3> QED
      BY <2>2, <3>1
  <2> QED
    BY <2>3, <2>4, <2>5
<1>4. ASSUME col = k, i + 4 <= row, row < i + 8 PROVE Right(row, col)'
  BY <1>3, <1>4, Later
<1>5. ASSUME col = k + 4, i <= row, row < i + 4 PROVE Right(row, col)'
  BY <1>3, <1>5, Later
<1>6. ASSUME Right(row, col), ~(col = k /\ i + 4 <= row /\ row < i + 8),
             ~(col = k + 4 /\ i <= row /\ row < i + 4)
      PROVE  Right(row, col)'
  <2>1. B'[col][row] = B[col][row]
    BY <1>3, <1>6
  <2> QED
    BY <1>6, <2>1, Later DEF Right
<1>7. ASSUME Parked(row, col), i <= row, row < i + 4, k + 5 <= col, col < j + 8
      PROVE  Parked(row, col)'
  <2>1. PICK r, c : r = col - 4 /\ c = row + 4
    OBVIOUS
  <2>2. r \in 0..63 /\ c \in 0..63 /\ r # k /\ r # k + 4
    BY <1>2, <1>7, <2>1
  <2>3. B'[r][c] = B[r][c]
    BY <1>3, <2>2
  <2> QED
    BY <1>7, <2>1, <2>3, Later DEF Parked
<1> QED
  BY <1>1, <1>4, <1>5, <1>6, <1>7

\* Columns of the last quarter of a block.
LEMMA Third64Plan ==
  ASSUME phase = "third64", InThird64
  PROVE  Plan(Moves, 4, [n \in 1..4 |-> loop.k], [n \in 1..4 |-> loop.i + (n + 3)],
              [n \in 1..4 |-> A(loop.i + (n + 3), loop.k)])
<1>1. PICK i, j, k : i = loop.i /\ j = loop.j /\ k = loop.k
  OBVIOUS
<1>2. /\ M = 64 /\ N = 64 /\ i \in Nat /\ i + 8 <= 64 /\ j \in Nat /\ j + 8 <= 64
      /\ k \in Nat /\ k < j + 8
  BY <1>1, Corners DEF InThird64, In64
<1>3. Moves = [n \in 1..4 |-> <<InA(i + 4 + (n - 1), k), InB(k, i + 4 + (n - 1))>>]
  BY <1>1 DEF Moves, Third64, Four
<1> DEFINE R == [n \in 1..4 |-> k]
           C == [n \in 1..4 |-> i + (n + 3)]
           V == [n \in 1..4 |-> A(i + (n + 3), k)]
<1>4. ASSUME NEW n \in 1..4
      PROVE  /\ Inside(Moves[n][1]) /\ Value(Moves[n][1]) = V[n] /\ V[n] \in Nat
             /\ Moves[n][2] = InB(R[n], C[n]) /\ R[n] \in 0..(M - 1) /\ C[n] \in 0..(N - 1)
  <2>1. PICK r : r = i + (n + 3)
    OBVIOUS
  <2>2. /\ r \in 0..(N - 1) /\ k \in 0..(M - 1) /\ r \in Nat /\ M \in Nat
        /\ i + 4 + (n - 1) = r
    BY <1>2, <2>1
  <2>3. Moves[n][1] = InA(r, k) /\ Moves[n][2] = InB(k, r)
    BY <1>3, <2>2
  <2>4. R[n] = k /\ C[n] = r /\ V[n] = A(r, k)
    BY <2>1
  <2>5. Inside(InA(r, k)) /\ Value(InA(r, k)) = A(r, k) /\ A(r, k) \in Nat
    BY <1>2, <2>2, Cells, ElementIsNat
  <2> HIDE DEF C, R, V
  <2> QED
    BY <2>2, <2>3, <2>4, <2>5
<1>5. \A m, n \in 1..4 : m # n => C[m] # C[n]
  BY <1>2
<1>6. DOMAIN Moves = 1..4
  BY <1>3
<1> HIDE DEF C, R, V
<1>7. Plan(Moves, 4, R, C, V)
  BY <1>4, <1>5, <1>6 DEF Plan
<1> QED
  BY <1>1, <1>7 DEF C, R, V

\* They are right then.
LEMMA Third64Moves ==
  ASSUME phase = "third64", InThird64, Moved(B', Moves, 4), eval' = eval,
         NEW row \in 0..63, NEW col \in 0..63
  PROVE  /\ col = loop.k /\ loop.i + 4 <= row /\ row < loop.i + 8 => Right(row, col)'
         /\ Right(row, col) => Right(row, col)'
<1>1. PICK i, j, k : i = loop.i /\ j = loop.j /\ k = loop.k
  OBVIOUS
<1>2. /\ M = 64 /\ N = 64 /\ i \in Nat /\ i + 8 <= 64 /\ j \in Nat /\ j + 8 <= 64
      /\ k \in Nat /\ k < j + 8
  BY <1>1, Corners DEF InThird64, In64
<1>3. col \in 0..(M - 1) /\ row \in 0..(N - 1)
  BY <1>2
<1>4. /\ \A n \in 1..4 : col = k /\ row = i + (n + 3) => B'[col][row] = A(i + (n + 3), k)
      /\ (\A n \in 1..4 : col # k \/ row # i + (n + 3)) => B'[col][row] = B[col][row]
  BY <1>1, <1>3, Third64Plan, PlanMade
<1>5. CASE col = k /\ i + 4 <= row /\ row < i + 8
  <2>1. PICK n \in 1..4 : row = i + (n + 3)
    <3>1. (row - i) - 3 \in 1..4 /\ row = i + (((row - i) - 3) + 3)
      BY <1>2, <1>5
    <3> QED
      BY <3>1
  <2>2. B'[col][row] = A(row, col)
    BY <1>4, <1>5, <2>1
  <2> QED
    BY <2>2, Later
<1>6. CASE ~(col = k /\ i + 4 <= row /\ row < i + 8)
  <2>1. \A n \in 1..4 : col # k \/ row # i + (n + 3)
    BY <1>2, <1>6
  <2>2. B'[col][row] = B[col][row]
    BY <1>4, <2>1
  <2> QED
    BY <1>1, <1>6, <2>2, Later DEF Right
<1> QED
  BY <1>1, <1>5, <1>6

\* One element of A.
LEMMA ElementPlan ==
  ASSUME NEW r, NEW c, r \in 0..(N - 1), c \in 0..(M - 1), M \in Nat, N \in Nat,
         Moves = << <<InA(r, c), InB(c, r)>> >>
  PROVE  Plan(Moves, 1, [n \in 1..1 |-> c], [n \in 1..1 |-> r], [n \in 1..1 |-> A(r, c)])
<1> DEFINE R == [n \in 1..1 |-> c]
           C == [n \in 1..1 |-> r]
           V == [n \in 1..1 |-> A(r, c)]
<1>1. r \in Nat /\ c \in Nat
  OBVIOUS
<1>2. Inside(InA(r, c)) /\ Value(InA(r, c)) = A(r, c) /\ A(r, c) \in Nat
  BY <1>1, Cells, ElementIsNat
<1>3. DOMAIN Moves = 1..1 /\ Moves[1][1] = InA(r, c) /\ Moves[1][2] = InB(c, r)
  OBVIOUS
<1>4. R[1] = c /\ C[1] = r /\ V[1] = A(r, c) /\ \A n \in 1..1 : n = 1
  OBVIOUS
<1> HIDE DEF R, C, V
<1>5. Plan(Moves, 1, R, C, V)
  BY <1>2, <1>3, <1>4 DEF Plan
<1> QED
  BY <1>5 DEF R, C, V

\* Its move is sane.
LEMMA ElementSane ==
  ASSUME NEW r, NEW c, r \in 0..(N - 1), c \in 0..(M - 1), M \in Nat, N \in Nat,
         Moves = << <<InA(r, c), InB(c, r)>> >>
  PROVE  Sane(Moves, 1)
<1>1. PICK R, C, V : Plan(Moves, 1, R, C, V)
  BY ElementPlan
<1> QED
  BY <1>1, PlanSane

\* It is right then.
LEMMA ElementMoves ==
  ASSUME NEW r, NEW c, r \in 0..(N - 1), c \in 0..(M - 1), M \in Nat, N \in Nat,
         Moves = << <<InA(r, c), InB(c, r)>> >>, Moved(B', Moves, 1), eval' = eval,
         NEW row \in 0..(N - 1), NEW col \in 0..(M - 1)
  PROVE  (row = r /\ col = c => Right(row, col)') /\ (Right(row, col) => Right(row, col)')
<1> DEFINE R == [n \in 1..1 |-> c]
           C == [n \in 1..1 |-> r]
           V == [n \in 1..1 |-> A(r, c)]
<1>1. R[1] = c /\ C[1] = r /\ V[1] = A(r, c) /\ 1 \in 1..1 /\ \A n \in 1..1 : n = 1
  OBVIOUS
<1>2. Plan(Moves, 1, R, C, V)
  BY ElementPlan
<1> HIDE DEF R, C, V
<1>3. /\ \A n \in 1..1 : col = R[n] /\ row = C[n] => B'[col][row] = V[n]
      /\ (\A n \in 1..1 : col # R[n] \/ row # C[n]) => B'[col][row] = B[col][row]
  BY <1>2, PlanMade
<1>4. /\ col = c /\ row = r => B'[col][row] = A(r, c)
      /\ col # c \/ row # r => B'[col][row] = B[col][row]
  BY <1>1, <1>3
<1> QED
  BY <1>4, Later DEF Right

-----------------------------------------------------------------------------
(* Each pass through a loop.                                                 *)

\* What all passes keep.
LEMMA PassIs ==
  ASSUME LoopInv, NEW K, Sane(Moves, K), Run(Moves), eval' = eval
  PROVE  /\ Moved(B', Moves, K) /\ Sound(param', cache')
         /\ M' = M /\ N' = N /\ M' \in 1..256 /\ N' \in 1..256 /\ IsMatrix(B)'
<1>1. M \in 1..256 /\ N \in 1..256 /\ IsMatrix(B) /\ Sound(param, cache)
  BY DEF LoopInv
<1>2. M \in Nat /\ N \in Nat
  BY <1>1
<1>3. IsMatrix(B') /\ Moved(B', Moves, K) /\ Sound(param', cache')
  BY <1>1, <1>2, RunIs
<1>4. M' = M /\ N' = N
  BY DEF M, N
<1>5. IsMatrix(B)'
  BY <1>3, <1>4 DEF IsMatrix
<1> QED
  BY <1>1, <1>3, <1>4, <1>5

\* Every element is right: B is the transpose.
LEMMA AllRight ==
  ASSUME eval' = eval, M \in Nat, N \in Nat,
         \A row \in 0..(N - 1), col \in 0..(M - 1) : Right(row, col)'
  PROVE  is_transpose'
<1>1. M' = M /\ N' = N
  BY Later
<1>2. \A row \in 0..(N - 1), col \in 0..(M - 1) : A(row, col)' = B'[col][row]
  BY <1>1 DEF Right, A
<1> QED
  BY <1>1, <1>2 DEF is_transpose, A

\* The submission for 32 by 32.
LEMMA Strip32Step == ASSUME LoopInv, MoveStrip32 PROVE LoopInv'
<1>1. PICK i, j : i = loop.i /\ j = loop.j
  OBVIOUS
<1>2. phase = "32" /\ Run(Moves) /\ eval' = eval
  BY DEF MoveStrip32, Go
<1>3. In32 /\ loop \in [i : Nat, j : Nat, k : Nat, l : Nat]
  BY <1>2 DEF LoopInv
<1>4. M = 32 /\ N = 32 /\ i \in {0, 8, 16, 24} /\ j \in 0..31 /\ i \in Nat /\ i + 8 <= 32
  BY <1>1, <1>3, Corners DEF In32
<1>5. Sane(Moves, 8)
  BY <1>2, <1>3, Strip32Plan, PlanSane
<1>6. /\ Moved(B', Moves, 8) /\ Sound(param', cache') /\ M' = M /\ N' = N
      /\ M' \in 1..256 /\ N' \in 1..256 /\ IsMatrix(B)'
  BY <1>2, <1>5, PassIs
<1>7. \A row \in 0..31, col \in 0..31 :
        /\ col = j /\ i <= row /\ row < i + 8 => Right(row, col)'
        /\ row < i \/ (row < i + 8 /\ col < j) => Right(row, col)'
  <2>1. \A row \in 0..31, col \in 0..31 : row < i \/ (row < i + 8 /\ col < j) => Right(row, col)
    BY <1>1, <1>3 DEF In32, BlocksDone
  <2> QED
    BY <1>1, <1>2, <1>3, <1>6, <2>1, Strip32Moves
<1>8. CASE j + 1 < 32
  <2>1. phase' = "32" /\ loop' = [loop EXCEPT !.j = j + 1]
    BY <1>1, <1>8 DEF MoveStrip32, Go
  <2>2. loop'.i = i /\ loop'.j = j + 1 /\ loop' \in [i : Nat, j : Nat, k : Nat, l : Nat]
    BY <1>1, <1>3, <1>4, <2>1
  <2>3. \A row \in 0..31, col \in 0..31 : row < i \/ (row < i + 8 /\ col < j + 1) => Right(row, col)'
    <3>1. \A row \in 0..31, col \in 0..31 : row < i \/ (row < i + 8 /\ col < j + 1)
            => row < i \/ (row < i + 8 /\ col < j) \/ (col = j /\ i <= row /\ row < i + 8)
      BY <1>4
    <3> QED
      BY <1>7, <3>1
  <2>4. BlocksDone(31)'
    BY <2>2, <2>3 DEF BlocksDone
  <2>5. In32'
    BY <1>4, <1>6, <1>8, <2>2, <2>4 DEF In32
  <2> QED
    BY <1>6, <2>1, <2>2, <2>5 DEF LoopInv
<1>9. CASE j + 1 = 32 /\ i + 8 < 32
  <2>1. phase' = "32" /\ loop' = [i |-> i + 8, j |-> 0, k |-> 0, l |-> 0]
    BY <1>1, <1>9 DEF MoveStrip32, Go, At
  <2>2. loop'.i = i + 8 /\ loop'.j = 0 /\ loop' \in [i : Nat, j : Nat, k : Nat, l : Nat]
    BY <1>4, <2>1
  <2>3. \A row \in 0..31, col \in 0..31 : row < i + 8 => Right(row, col)'
    <3>1. \A row \in 0..31, col \in 0..31 : row < i + 8
            => row < i \/ (row < i + 8 /\ col < j) \/ (col = j /\ i <= row /\ row < i + 8)
      BY <1>4, <1>9
    <3> QED
      BY <1>7, <3>1
  <2>4. BlocksDone(31)'
    BY <2>2, <2>3 DEF BlocksDone
  <2>5. In32'
    BY <1>4, <1>6, <1>9, <2>2, <2>4, Corners DEF In32
  <2> QED
    BY <1>6, <2>1, <2>2, <2>5 DEF LoopInv
<1>10. CASE ~(j + 1 < 32) /\ ~(j + 1 = 32 /\ i + 8 < 32)
  <2>1. phase' = "done" /\ loop' = loop
    BY <1>1, <1>10 DEF MoveStrip32, Go
  <2>2. \A row \in 0..31, col \in 0..31 : Right(row, col)'
    <3>1. \A row \in 0..31, col \in 0..31 :
            row < i \/ (row < i + 8 /\ col < j) \/ (col = j /\ i <= row /\ row < i + 8)
      BY <1>4, <1>10
    <3> QED
      BY <1>7, <3>1
  <2>3. is_transpose'
    <3>1. M \in Nat /\ N \in Nat /\ \A row \in 0..(N - 1), col \in 0..(M - 1) : Right(row, col)'
      <4>1. N - 1 = 31 /\ M - 1 = 31 /\ M \in Nat /\ N \in Nat
        BY <1>4
      <4> QED
        BY <2>2, <4>1
    <3> QED
      BY <1>2, <3>1, AllRight
  <2> QED
    BY <1>3, <1>6, <2>1, <2>3 DEF LoopInv
<1> QED
  BY <1>4, <1>8, <1>9, <1>10

\* The submission for 64 by 64, upper half of a block.
LEMMA First64Step == ASSUME LoopInv, MoveFirst64 PROVE LoopInv'
<1>1. PICK i, j, k : i = loop.i /\ j = loop.j /\ k = loop.k
  OBVIOUS
<1>2. phase = "first64" /\ Run(Moves) /\ eval' = eval
  BY DEF MoveFirst64, Go
<1>3. InFirst64 /\ In64 /\ loop \in [i : Nat, j : Nat, k : Nat, l : Nat]
  BY <1>2 DEF LoopInv, InFirst64
<1>4. /\ M = 64 /\ N = 64 /\ i \in Tiles /\ j \in Tiles /\ i \in Nat /\ i + 8 <= 64 /\ j \in Nat
      /\ j + 8 <= 64 /\ k \in Nat /\ i <= k /\ k < i + 4
  BY <1>1, <1>3, Corners DEF InFirst64, In64
<1>5. Sane(Moves, 8)
  BY <1>2, <1>3, First64Plan, PlanSane
<1>6. /\ Moved(B', Moves, 8) /\ Sound(param', cache') /\ M' = M /\ N' = N
      /\ M' \in 1..256 /\ N' \in 1..256 /\ IsMatrix(B)'
  BY <1>2, <1>5, PassIs
<1>7. \A row \in 0..63, col \in 0..63 :
        /\ row = k /\ j <= col /\ col < j + 4 => Right(row, col)'
        /\ row = k /\ j + 4 <= col /\ col < j + 8 => Parked(row, col)'
        /\ Right(row, col) /\ ~(j <= col /\ col < j + 4 /\ row >= k) => Right(row, col)'
        /\ Parked(row, col) /\ i <= row /\ row < k /\ j + 4 <= col /\ col < j + 8
             => Parked(row, col)'
  BY <1>1, <1>2, <1>3, <1>6, First64Moves
<1>8. \A row \in 0..63, col \in 0..63 : row < i \/ (row < i + 8 /\ col < j) => Right(row, col)'
  <2>1. \A row \in 0..63, col \in 0..63 : row < i \/ (row < i + 8 /\ col < j) => Right(row, col)
    BY <1>1, <1>3 DEF In64, BlocksDone
  <2>2. \A row \in 0..63, col \in 0..63 : row < i \/ (row < i + 8 /\ col < j)
          => ~(j <= col /\ col < j + 4 /\ row >= k)
    BY <1>4
  <2> QED
    BY <1>7, <2>1, <2>2
<1>9. \A row \in i..k, col \in j..(j + 3) : Right(row, col)'
  <2> SUFFICES ASSUME NEW row \in i..k, NEW col \in j..(j + 3) PROVE Right(row, col)'
    OBVIOUS
  <2>1. row \in 0..63 /\ col \in 0..63 /\ j <= col /\ col < j + 4 /\ (row = k \/ row < k)
    BY <1>4
  <2>2. CASE row = k
    BY <1>7, <2>1, <2>2
  <2>3. CASE row < k
    <3>1. row \in i..(k - 1) /\ ~(row >= k)
      BY <1>4, <2>3
    <3>2. Right(row, col)
      BY <1>1, <1>3, <3>1 DEF InFirst64, Area
    <3> QED
      BY <1>7, <2>1, <3>1, <3>2
  <2> QED
    BY <2>1, <2>2, <2>3
<1>10. \A row \in i..k, col \in (j + 4)..(j + 7) : Parked(row, col)'
  <2> SUFFICES ASSUME NEW row \in i..k, NEW col \in (j + 4)..(j + 7) PROVE Parked(row, col)'
    OBVIOUS
  <2>1. /\ row \in 0..63 /\ col \in 0..63 /\ j + 4 <= col /\ col < j + 8 /\ i <= row
        /\ (row = k \/ row < k)
    BY <1>4
  <2>2. CASE row = k
    BY <1>7, <2>1, <2>2
  <2>3. CASE row < k
    <3>1. row \in i..(k - 1)
      BY <1>4, <2>3
    <3>2. Parked(row, col)
      BY <1>1, <1>3, <3>1 DEF InFirst64, Area
    <3> QED
      BY <1>7, <2>1, <2>3, <3>2
  <2> QED
    BY <2>1, <2>2, <2>3
<1>11. CASE k + 1 < i + 4
  <2>1. phase' = "first64" /\ loop' = [loop EXCEPT !.k = k + 1]
    BY <1>1, <1>11 DEF MoveFirst64, Go
  <2>2. /\ loop'.i = i /\ loop'.j = j /\ loop'.k = k + 1
        /\ loop' \in [i : Nat, j : Nat, k : Nat, l : Nat]
    BY <1>1, <1>3, <1>4, <2>1
  <2>3. BlocksDone(63)'
    BY <1>8, <2>2 DEF BlocksDone
  <2>4. In64'
    BY <1>4, <1>6, <2>2, <2>3 DEF In64
  <2>5. (k + 1) - 1 = k
    BY <1>4
  <2>6. InFirst64'
    BY <1>4, <1>9, <1>10, <1>11, <2>2, <2>4, <2>5 DEF InFirst64, Area
  <2> QED
    BY <1>6, <2>1, <2>2, <2>6 DEF LoopInv
<1>12. CASE ~(k + 1 < i + 4)
  <2>1. phase' = "second64" /\ loop' = [loop EXCEPT !.k = j]
    BY <1>1, <1>12 DEF MoveFirst64, Go
  <2>2. /\ loop'.i = i /\ loop'.j = j /\ loop'.k = j
        /\ loop' \in [i : Nat, j : Nat, k : Nat, l : Nat]
    BY <1>1, <1>3, <1>4, <2>1
  <2>3. BlocksDone(63)'
    BY <1>8, <2>2 DEF BlocksDone
  <2>4. In64'
    BY <1>4, <1>6, <2>2, <2>3 DEF In64
  <2>5. k = i + 3
    BY <1>4, <1>12
  <2>6. \A row, col : ~(row \in (i + 4)..(i + 7) /\ col \in j..(j - 1))
    BY <1>4
  <2>7. InSecond64'
    BY <1>4, <1>9, <1>10, <2>2, <2>4, <2>5, <2>6 DEF InSecond64, Area
  <2> QED
    BY <1>6, <2>1, <2>2, <2>7 DEF LoopInv
<1> QED
  BY <1>11, <1>12

\* The lower half of its left half.
LEMMA Second64Step == ASSUME LoopInv, MoveSecond64 PROVE LoopInv'
<1>1. PICK i, j, k : i = loop.i /\ j = loop.j /\ k = loop.k
  OBVIOUS
<1>2. phase = "second64" /\ Run(Moves) /\ eval' = eval
  BY DEF MoveSecond64, Go
<1>3. InSecond64 /\ In64 /\ loop \in [i : Nat, j : Nat, k : Nat, l : Nat]
  BY <1>2 DEF LoopInv, InSecond64
<1>4. /\ M = 64 /\ N = 64 /\ i \in Tiles /\ j \in Tiles /\ i \in Nat /\ i + 8 <= 64 /\ j \in Nat
      /\ j + 8 <= 64 /\ k \in Nat /\ j <= k /\ k < j + 4
  BY <1>1, <1>3, Corners DEF InSecond64, In64
<1>5. Sane(Moves, 8)
  BY <1>2, <1>3, Second64Plan, PlanSane
<1>6. /\ Moved(B', Moves, 8) /\ Sound(param', cache') /\ M' = M /\ N' = N
      /\ M' \in 1..256 /\ N' \in 1..256 /\ IsMatrix(B)'
  BY <1>2, <1>5, PassIs
<1>7. \A row \in 0..63, col \in 0..63 :
        /\ col = k /\ i + 4 <= row /\ row < i + 8 => Right(row, col)'
        /\ col = k + 4 /\ i <= row /\ row < i + 4 => Right(row, col)'
        /\ Right(row, col) => Right(row, col)'
        /\ Parked(row, col) /\ i <= row /\ row < i + 4 /\ k + 5 <= col /\ col < j + 8
             => Parked(row, col)'
  BY <1>1, <1>2, <1>3, <1>6, Second64Moves
<1>8. \A row \in 0..63, col \in 0..63 : row < i \/ (row < i + 8 /\ col < j) => Right(row, col)'
  <2>1. \A row \in 0..63, col \in 0..63 : row < i \/ (row < i + 8 /\ col < j) => Right(row, col)
    BY <1>1, <1>3 DEF In64, BlocksDone
  <2> QED
    BY <1>7, <2>1
<1>9. \A row \in i..(i + 3), col \in j..(k + 4) : Right(row, col)'
  <2> SUFFICES ASSUME NEW row \in i..(i + 3), NEW col \in j..(k + 4) PROVE Right(row, col)'
    OBVIOUS
  <2>1. /\ row \in 0..63 /\ col \in 0..63 /\ i <= row /\ row < i + 4
        /\ (col = k + 4 \/ col \in j..(k + 3))
    BY <1>4
  <2>2. CASE col = k + 4
    BY <1>7, <2>1, <2>2
  <2>3. CASE col \in j..(k + 3)
    <3>1. Right(row, col)
      BY <1>1, <1>3, <2>3 DEF InSecond64, Area
    <3> QED
      BY <1>7, <2>1, <3>1
  <2> QED
    BY <2>1, <2>2, <2>3
<1>10. \A row \in i..(i + 3), col \in (k + 5)..(j + 7) : Parked(row, col)'
  <2> SUFFICES ASSUME NEW row \in i..(i + 3), NEW col \in (k + 5)..(j + 7) PROVE Parked(row, col)'
    OBVIOUS
  <2>1. /\ row \in 0..63 /\ col \in 0..63 /\ i <= row /\ row < i + 4 /\ k + 5 <= col /\ col < j + 8
        /\ col \in (k + 4)..(j + 7)
    BY <1>4
  <2>2. Parked(row, col)
    BY <1>1, <1>3, <2>1 DEF InSecond64, Area
  <2> QED
    BY <1>7, <2>1, <2>2
<1>11. \A row \in (i + 4)..(i + 7), col \in j..k : Right(row, col)'
  <2> SUFFICES ASSUME NEW row \in (i + 4)..(i + 7), NEW col \in j..k PROVE Right(row, col)'
    OBVIOUS
  <2>1. /\ row \in 0..63 /\ col \in 0..63 /\ i + 4 <= row /\ row < i + 8
        /\ (col = k \/ col \in j..(k - 1))
    BY <1>4
  <2>2. CASE col = k
    BY <1>7, <2>1, <2>2
  <2>3. CASE col \in j..(k - 1)
    <3>1. Right(row, col)
      BY <1>1, <1>3, <2>3 DEF InSecond64, Area
    <3> QED
      BY <1>7, <2>1, <3>1
  <2> QED
    BY <2>1, <2>2, <2>3
<1>12. CASE k + 1 < j + 4
  <2>1. phase' = "second64" /\ loop' = [loop EXCEPT !.k = k + 1]
    BY <1>1, <1>12 DEF MoveSecond64, Go
  <2>2. /\ loop'.i = i /\ loop'.j = j /\ loop'.k = k + 1
        /\ loop' \in [i : Nat, j : Nat, k : Nat, l : Nat]
    BY <1>1, <1>3, <1>4, <2>1
  <2>3. BlocksDone(63)'
    BY <1>8, <2>2 DEF BlocksDone
  <2>4. In64'
    BY <1>4, <1>6, <2>2, <2>3 DEF In64
  <2>5. (k + 1) - 1 = k /\ (k + 1) + 3 = k + 4 /\ (k + 1) + 4 = k + 5
    BY <1>4
  <2>6. InSecond64'
    BY <1>4, <1>9, <1>10, <1>11, <1>12, <2>2, <2>4, <2>5 DEF InSecond64, Area
  <2> QED
    BY <1>6, <2>1, <2>2, <2>6 DEF LoopInv
<1>13. CASE ~(k + 1 < j + 4)
  <2>1. phase' = "third64" /\ loop' = [loop EXCEPT !.k = j + 4]
    BY <1>1, <1>13 DEF MoveSecond64, Go
  <2>2. /\ loop'.i = i /\ loop'.j = j /\ loop'.k = j + 4
        /\ loop' \in [i : Nat, j : Nat, k : Nat, l : Nat]
    BY <1>1, <1>3, <1>4, <2>1
  <2>3. BlocksDone(63)'
    BY <1>8, <2>2 DEF BlocksDone
  <2>4. In64'
    BY <1>4, <1>6, <2>2, <2>3 DEF In64
  <2>5. k = j + 3 /\ k + 4 = j + 7 /\ (j + 4) - 1 = k
    BY <1>4, <1>13
  <2>6. InThird64'
    BY <1>4, <1>9, <1>11, <2>2, <2>4, <2>5 DEF InThird64, Area
  <2> QED
    BY <1>6, <2>1, <2>2, <2>6 DEF LoopInv
<1> QED
  BY <1>12, <1>13

\* The last quarter of a block.
LEMMA Third64Step == ASSUME LoopInv, MoveThird64 PROVE LoopInv'
<1>1. PICK i, j, k : i = loop.i /\ j = loop.j /\ k = loop.k
  OBVIOUS
<1>2. phase = "third64" /\ Run(Moves) /\ eval' = eval
  BY DEF MoveThird64, Go
<1>3. InThird64 /\ In64 /\ loop \in [i : Nat, j : Nat, k : Nat, l : Nat]
  BY <1>2 DEF LoopInv, InThird64
<1>4. /\ M = 64 /\ N = 64 /\ i \in Tiles /\ j \in Tiles /\ i \in Nat /\ i + 8 <= 64 /\ j \in Nat
      /\ j + 8 <= 64 /\ k \in Nat /\ j + 4 <= k /\ k < j + 8
  BY <1>1, <1>3, Corners DEF InThird64, In64
<1>5. Sane(Moves, 4)
  BY <1>2, <1>3, Third64Plan, PlanSane
<1>6. /\ Moved(B', Moves, 4) /\ Sound(param', cache') /\ M' = M /\ N' = N
      /\ M' \in 1..256 /\ N' \in 1..256 /\ IsMatrix(B)'
  BY <1>2, <1>5, PassIs
<1>7. \A row \in 0..63, col \in 0..63 :
        /\ col = k /\ i + 4 <= row /\ row < i + 8 => Right(row, col)'
        /\ Right(row, col) => Right(row, col)'
  BY <1>1, <1>2, <1>3, <1>6, Third64Moves
<1>8. \A row \in 0..63, col \in 0..63 : row < i \/ (row < i + 8 /\ col < j) => Right(row, col)'
  <2>1. \A row \in 0..63, col \in 0..63 : row < i \/ (row < i + 8 /\ col < j) => Right(row, col)
    BY <1>1, <1>3 DEF In64, BlocksDone
  <2> QED
    BY <1>7, <2>1
<1>9. \A row \in i..(i + 3), col \in j..(j + 7) : Right(row, col)'
  <2> SUFFICES ASSUME NEW row \in i..(i + 3), NEW col \in j..(j + 7) PROVE Right(row, col)'
    OBVIOUS
  <2>1. row \in 0..63 /\ col \in 0..63
    BY <1>4
  <2>2. Right(row, col)
    BY <1>1, <1>3 DEF InThird64, Area
  <2> QED
    BY <1>7, <2>1, <2>2
<1>10. \A row \in (i + 4)..(i + 7), col \in j..k : Right(row, col)'
  <2> SUFFICES ASSUME NEW row \in (i + 4)..(i + 7), NEW col \in j..k PROVE Right(row, col)'
    OBVIOUS
  <2>1. /\ row \in 0..63 /\ col \in 0..63 /\ i + 4 <= row /\ row < i + 8
        /\ (col = k \/ col \in j..(k - 1))
    BY <1>4
  <2>2. CASE col = k
    BY <1>7, <2>1, <2>2
  <2>3. CASE col \in j..(k - 1)
    <3>1. Right(row, col)
      BY <1>1, <1>3, <2>3 DEF InThird64, Area
    <3> QED
      BY <1>7, <2>1, <3>1
  <2> QED
    BY <2>1, <2>2, <2>3
<1>11. CASE k + 1 < j + 8
  <2>1. phase' = "third64" /\ loop' = [loop EXCEPT !.k = k + 1]
    BY <1>1, <1>4, <1>11 DEF MoveThird64, Go
  <2>2. /\ loop'.i = i /\ loop'.j = j /\ loop'.k = k + 1
        /\ loop' \in [i : Nat, j : Nat, k : Nat, l : Nat]
    BY <1>1, <1>3, <1>4, <2>1
  <2>3. BlocksDone(63)'
    BY <1>8, <2>2 DEF BlocksDone
  <2>4. In64'
    BY <1>4, <1>6, <2>2, <2>3 DEF In64
  <2>5. (k + 1) - 1 = k
    BY <1>4
  <2>6. InThird64'
    BY <1>4, <1>9, <1>10, <1>11, <2>2, <2>4, <2>5 DEF InThird64, Area
  <2> QED
    BY <1>6, <2>1, <2>2, <2>6 DEF LoopInv
<1>12. ASSUME k + 1 = j + 8
       PROVE  \A row \in 0..63, col \in 0..63 : row < i \/ (row < i + 8 /\ col < j + 8) => Right(row, col)'
  <2>1. \A row \in 0..63, col \in 0..63 : row < i \/ (row < i + 8 /\ col < j + 8)
          => \/ row < i \/ (row < i + 8 /\ col < j)
             \/ row \in i..(i + 3) /\ col \in j..(j + 7)
             \/ row \in (i + 4)..(i + 7) /\ col \in j..k
    BY <1>4, <1>12
  <2> QED
    BY <1>8, <1>9, <1>10, <2>1
<1>13. CASE k + 1 = j + 8 /\ j + 8 < 64
  <2>1. phase' = "first64" /\ loop' = [i |-> i, j |-> j + 8, k |-> i, l |-> 0]
    BY <1>1, <1>4, <1>13 DEF MoveThird64, Go, At
  <2>2. /\ loop'.i = i /\ loop'.j = j + 8 /\ loop'.k = i
        /\ loop' \in [i : Nat, j : Nat, k : Nat, l : Nat]
    BY <1>4, <2>1
  <2>3. BlocksDone(63)'
    BY <1>12, <1>13, <2>2 DEF BlocksDone
  <2>4. In64'
    BY <1>4, <1>6, <1>13, <2>2, <2>3, Corners DEF In64
  <2>5. \A row : row \notin i..(i - 1)
    BY <1>4
  <2>6. InFirst64'
    BY <1>4, <2>2, <2>4, <2>5 DEF InFirst64, Area
  <2> QED
    BY <1>6, <2>1, <2>2, <2>6 DEF LoopInv
<1>14. CASE k + 1 = j + 8 /\ ~(j + 8 < 64)
  <2>1. j + 8 = 64 /\ k + 1 = 64
    BY <1>4, <1>14
  <2>2. \A row \in 0..63, col \in 0..63 : row < i + 8 => Right(row, col)'
    <3> SUFFICES ASSUME NEW row \in 0..63, NEW col \in 0..63, row < i + 8
                 PROVE  Right(row, col)'
      OBVIOUS
    <3>1. row < i \/ (row < i + 8 /\ col < j + 8)
      BY <2>1
    <3> QED
      BY <1>12, <1>14, <3>1
  <2>3. CASE i + 8 < 64
    <3>1. phase' = "first64" /\ loop' = [i |-> i + 8, j |-> 0, k |-> i + 8, l |-> 0]
      BY <1>1, <1>4, <1>14, <2>1, <2>3 DEF MoveThird64, Go, At
    <3>2. /\ loop'.i = i + 8 /\ loop'.j = 0 /\ loop'.k = i + 8
          /\ loop' \in [i : Nat, j : Nat, k : Nat, l : Nat]
      BY <1>4, <3>1
    <3>3. BlocksDone(63)'
      <4>1. \A row \in 0..63, col \in 0..63 :
              row < i + 8 \/ (row < (i + 8) + 8 /\ col < 0) => Right(row, col)'
        BY <2>2
      <4> QED
        BY <3>2, <4>1 DEF BlocksDone
    <3>4. In64'
      BY <1>4, <1>6, <2>3, <3>2, <3>3, Corners DEF In64, Tiles
    <3>5. \A row : row \notin (i + 8)..((i + 8) - 1)
      BY <1>4
    <3>6. InFirst64'
      BY <1>4, <3>2, <3>4, <3>5 DEF InFirst64, Area
    <3> QED
      BY <1>6, <3>1, <3>2, <3>6 DEF LoopInv
  <2>4. CASE ~(i + 8 < 64)
    <3>1. phase' = "done" /\ loop' = loop
      BY <1>1, <1>4, <1>14, <2>1, <2>4 DEF MoveThird64, Go
    <3>2. \A row \in 0..63, col \in 0..63 : Right(row, col)'
      BY <1>4, <2>2, <2>4
    <3>3. N - 1 = 63 /\ M - 1 = 63 /\ M \in Nat /\ N \in Nat
      BY <1>4
    <3>4. is_transpose'
      BY <1>2, <3>2, <3>3, AllRight
    <3> QED
      BY <1>3, <1>6, <3>1, <3>4 DEF LoopInv
  <2> QED
    BY <2>3, <2>4
<1>15. k + 1 < j + 8 \/ k + 1 = j + 8
  BY <1>4
<1> QED
  BY <1>11, <1>13, <1>14, <1>15

\* What the bounds of the blocks are for 61 by 67.
LEMMA Ends67 ==
  ASSUME loop.i \in Strips67, loop.j \in Strips67
  PROVE  /\ RowEnd67 \in Nat /\ loop.i < RowEnd67 /\ RowEnd67 <= 61 /\ RowEnd67 <= loop.i + 17
         /\ RowEnd67 = 61 \/ RowEnd67 = loop.i + 17
         /\ ColumnEnd67 \in Nat /\ loop.j < ColumnEnd67 /\ ColumnEnd67 <= 67
         /\ ColumnEnd67 <= loop.j + 17 /\ (ColumnEnd67 = 67 \/ ColumnEnd67 = loop.j + 17)
BY DEF Strips67, RowEnd67, ColumnEnd67, Smaller

\* The loops go on at the element (k, l).
LEMMA At67 ==
  ASSUME NEW i \in Strips67, NEW j \in Strips67, NEW k \in Nat, NEW l \in Nat, NEW R, NEW C,
         loop'.i = i, loop'.j = j, loop'.k = k, loop'.l = l, RowEnd67' = R, ColumnEnd67' = C,
         M' = 61, N' = 67, j <= k, k < C, i <= l, l < R,
         \A row \in 0..66, col \in 0..60 :
           col < i \/ (col < i + 17 /\ row < k) \/ (row = k /\ col < l) => Right(row, col)'
  PROVE  In67'
BY DEF In67

\* The submission for 61 by 67.
LEMMA Element67Step == ASSUME LoopInv, MoveElement67 PROVE LoopInv'
<1>1. PICK i, j, k, l, R, C : /\ i = loop.i /\ j = loop.j /\ k = loop.k /\ l = loop.l
                              /\ R = RowEnd67 /\ C = ColumnEnd67
  OBVIOUS
<1>2. phase = "67" /\ Run(Moves) /\ eval' = eval
  BY DEF MoveElement67, Go
<1>3. In67 /\ loop \in [i : Nat, j : Nat, k : Nat, l : Nat]
  BY <1>2 DEF LoopInv
<1>4. M = 61 /\ N = 67 /\ i \in Strips67 /\ j \in Strips67 /\ k \in Nat /\ l \in Nat
        /\ j <= k /\ k < C /\ i <= l /\ l < R
  BY <1>1, <1>3 DEF In67
<1>5. /\ i \in Nat /\ i <= 51 /\ j \in Nat /\ j <= 51
      /\ R \in Nat /\ i < R /\ R <= 61 /\ R <= i + 17 /\ (R = 61 \/ R = i + 17)
      /\ C \in Nat /\ j < C /\ C <= 67 /\ C <= j + 17 /\ (C = 67 \/ C = j + 17)
  BY <1>1, <1>4, Corners, Ends67
<1>6. k \in 0..(N - 1) /\ l \in 0..(M - 1) /\ M \in Nat /\ N \in Nat /\ N - 1 = 66 /\ M - 1 = 60
  BY <1>4, <1>5
<1>7. Moves = << <<InA(k, l), InB(l, k)>> >>
  BY <1>1, <1>2 DEF Moves, Element67
<1>8. Sane(Moves, 1)
  BY <1>6, <1>7, ElementSane
<1>9. /\ Moved(B', Moves, 1) /\ Sound(param', cache') /\ M' = M /\ N' = N
      /\ M' \in 1..256 /\ N' \in 1..256 /\ IsMatrix(B)'
  BY <1>2, <1>8, PassIs
<1>10. \A row \in 0..66, col \in 0..60 :
         col < i \/ (col < i + 17 /\ row < k) \/ (row = k /\ col < l + 1) => Right(row, col)'
  <2>1. \A row \in 0..66, col \in 0..60 :
          (row = k /\ col = l => Right(row, col)') /\ (Right(row, col) => Right(row, col)')
    BY <1>2, <1>6, <1>7, <1>9, ElementMoves
  <2>2. \A row \in 0..66, col \in 0..60 :
          col < i \/ (col < i + 17 /\ row < k) \/ (row = k /\ col < l) => Right(row, col)
    BY <1>1, <1>3 DEF In67
  <2>3. \A row \in 0..66, col \in 0..60 :
          col < i \/ (col < i + 17 /\ row < k) \/ (row = k /\ col < l + 1)
            => col < i \/ (col < i + 17 /\ row < k) \/ (row = k /\ col < l) \/ (row = k /\ col = l)
    BY <1>4
  <2> QED
    BY <2>1, <2>2, <2>3
<1>11. CASE ~(l + 1 >= R)
  <2>1. phase' = "67" /\ loop' = [loop EXCEPT !.l = l + 1]
    BY <1>1, <1>11 DEF MoveElement67, Go
  <2>2. /\ loop'.i = i /\ loop'.j = j /\ loop'.k = k /\ loop'.l = l + 1
        /\ loop' \in [i : Nat, j : Nat, k : Nat, l : Nat]
    BY <1>1, <1>3, <1>4, <2>1
  <2>3. RowEnd67' = R /\ ColumnEnd67' = C
    BY <1>1, <2>2 DEF RowEnd67, ColumnEnd67
  <2>4. l + 1 \in Nat /\ i <= l + 1 /\ l + 1 < R
    BY <1>4, <1>5, <1>11
  <2>5. In67'
    BY <1>4, <1>9, <1>10, <2>2, <2>3, <2>4 DEF In67
  <2> QED
    BY <1>9, <2>1, <2>2, <2>5 DEF LoopInv
<1>12. CASE l + 1 >= R /\ ~(k + 1 >= C)
  <2>1. phase' = "67" /\ loop' = [i |-> i, j |-> j, k |-> k + 1, l |-> i]
    BY <1>1, <1>12 DEF MoveElement67, Go, At
  <2>2. /\ loop'.i = i /\ loop'.j = j /\ loop'.k = k + 1 /\ loop'.l = i
        /\ loop' \in [i : Nat, j : Nat, k : Nat, l : Nat]
    BY <1>4, <1>5, <2>1
  <2>3. RowEnd67' = R /\ ColumnEnd67' = C
    BY <1>1, <2>2 DEF RowEnd67, ColumnEnd67
  <2>4. \A row \in 0..66, col \in 0..60 :
          col < i \/ (col < i + 17 /\ row < k + 1) \/ (row = k + 1 /\ col < i) => Right(row, col)'
    <3>1. \A row \in 0..66, col \in 0..60 :
            col < i \/ (col < i + 17 /\ row < k + 1) \/ (row = k + 1 /\ col < i)
              => col < i \/ (col < i + 17 /\ row < k) \/ (row = k /\ col < l + 1)
      BY <1>4, <1>5, <1>12
    <3> QED
      BY <1>10, <3>1
  <2>5. k + 1 \in Nat /\ j <= k + 1 /\ k + 1 < C /\ i \in Nat /\ i <= i /\ i < R
    BY <1>4, <1>5, <1>12
  <2>6. In67'
    BY <1>4, <1>9, <2>2, <2>3, <2>4, <2>5, At67
  <2> QED
    BY <1>9, <2>1, <2>2, <2>6 DEF LoopInv
<1>13. ASSUME l + 1 >= R, k + 1 >= C
       PROVE  \A row \in 0..66, col \in 0..60 : col < i \/ (col < i + 17 /\ row < C) => Right(row, col)'
  <2>1. \A row \in 0..66, col \in 0..60 : col < i \/ (col < i + 17 /\ row < C)
          => col < i \/ (col < i + 17 /\ row < k) \/ (row = k /\ col < l + 1)
    BY <1>4, <1>5, <1>13
  <2> QED
    BY <1>10, <2>1
<1>14. CASE l + 1 >= R /\ k + 1 >= C /\ j + 17 < 67
  <2>1. PICK q, D : q = j + 17 /\ D = Smaller(q + 17, 67)
    OBVIOUS
  <2>2. phase' = "67" /\ loop' = [i |-> i, j |-> q, k |-> q, l |-> i]
    BY <1>1, <1>5, <1>14, <2>1 DEF MoveElement67, Go, At
  <2>3. /\ C = q /\ q < D /\ q \in Strips67 /\ q \in Nat /\ q <= q
        /\ i \in Nat /\ i <= i /\ i < R
    BY <1>4, <1>5, <1>14, <2>1, Corners DEF Smaller
  <2>4. /\ loop'.i = i /\ loop'.j = q /\ loop'.k = q /\ loop'.l = i
        /\ loop' \in [i : Nat, j : Nat, k : Nat, l : Nat]
    BY <2>2, <2>3
  <2>5. RowEnd67' = R /\ ColumnEnd67' = D
    BY <1>1, <2>1, <2>4 DEF RowEnd67, ColumnEnd67
  <2>6. \A row \in 0..66, col \in 0..60 :
          col < i \/ (col < i + 17 /\ row < q) \/ (row = q /\ col < i) => Right(row, col)'
    BY <1>13, <1>14, <2>3
  <2>7. In67'
    BY <1>4, <1>9, <2>3, <2>4, <2>5, <2>6, At67
  <2> QED
    BY <1>9, <2>2, <2>4, <2>7 DEF LoopInv
<1>15. CASE l + 1 >= R /\ k + 1 >= C /\ j + 17 >= 67 /\ i + 17 < 61
  <2>1. phase' = "67" /\ loop' = [i |-> i + 17, j |-> 0, k |-> 0, l |-> i + 17]
    BY <1>1, <1>5, <1>15 DEF MoveElement67, Go, At
  <2>2. /\ loop'.i = i + 17 /\ loop'.j = 0 /\ loop'.k = 0 /\ loop'.l = i + 17
        /\ loop' \in [i : Nat, j : Nat, k : Nat, l : Nat]
    BY <1>4, <1>5, <2>1
  <2>3. RowEnd67' = Smaller((i + 17) + 17, 61) /\ ColumnEnd67' = Smaller(0 + 17, 67)
    BY <2>2 DEF RowEnd67, ColumnEnd67
  <2>4. /\ C = 67 /\ i + 17 < Smaller((i + 17) + 17, 61) /\ 0 < Smaller(0 + 17, 67)
        /\ i + 17 \in Nat /\ i + 17 < 67 /\ i + 17 <= i + 17 /\ 0 \in Nat /\ 0 <= 0
    BY <1>5, <1>15 DEF Smaller
  <2>5. i + 17 \in Strips67 /\ 0 \in Strips67
    BY <1>4, <2>4, Corners DEF Strips67
  <2>6. \A row \in 0..66, col \in 0..60 :
          \/ col < i + 17 \/ (col < (i + 17) + 17 /\ row < 0) \/ (row = 0 /\ col < i + 17)
          => Right(row, col)'
    <3>1. \A row \in 0..66, col \in 0..60 :
            \/ col < i + 17 \/ (col < (i + 17) + 17 /\ row < 0) \/ (row = 0 /\ col < i + 17)
            => col < i + 17 /\ row < C
      BY <2>4
    <3> QED
      BY <1>13, <1>15, <3>1
  <2>7. In67'
    BY <1>4, <1>9, <2>2, <2>3, <2>4, <2>5, <2>6, At67
  <2> QED
    BY <1>9, <2>1, <2>2, <2>7 DEF LoopInv
<1>16. CASE l + 1 >= R /\ k + 1 >= C /\ j + 17 >= 67 /\ ~(i + 17 < 61)
  <2>1. phase' = "done" /\ loop' = loop
    BY <1>1, <1>5, <1>16 DEF MoveElement67, Go
  <2>2. \A row \in 0..66, col \in 0..60 : Right(row, col)'
    <3>1. C = 67 /\ \A row \in 0..66, col \in 0..60 : col < i + 17 /\ row < C
      BY <1>5, <1>16
    <3> QED
      BY <1>13, <1>16, <3>1
  <2>3. is_transpose'
    BY <1>2, <1>6, <2>2, AllRight
  <2> QED
    BY <1>3, <1>9, <2>1, <2>3 DEF LoopInv
<1>17. j + 17 < 67 \/ j + 17 >= 67
  BY <1>5
<1> QED
  BY <1>11, <1>12, <1>14, <1>15, <1>16, <1>17

\* The baseline, one element at a time.
LEMMA ElementStep == ASSUME LoopInv, MoveElement PROVE LoopInv'
<1>1. PICK i, j : i = loop.i /\ j = loop.j
  OBVIOUS
<1>2. phase = "trans" /\ Run(Moves) /\ eval' = eval
  BY DEF MoveElement, Go
<1>3. /\ InTrans /\ loop \in [i : Nat, j : Nat, k : Nat, l : Nat]
      /\ M \in 1..256 /\ N \in 1..256
  BY <1>2 DEF LoopInv
<1>4. i \in 0..(N - 1) /\ j \in 0..(M - 1) /\ M \in Nat /\ N \in Nat /\ i \in Nat /\ j \in Nat
  BY <1>1, <1>3 DEF InTrans
<1>5. Moves = << <<InA(i, j), InB(j, i)>> >>
  BY <1>1, <1>2 DEF Moves, Element
<1>6. Sane(Moves, 1)
  BY <1>4, <1>5, ElementSane
<1>7. /\ Moved(B', Moves, 1) /\ Sound(param', cache') /\ M' = M /\ N' = N
      /\ M' \in 1..256 /\ N' \in 1..256 /\ IsMatrix(B)'
  BY <1>2, <1>6, PassIs
<1>8. \A row \in 0..(N - 1), col \in 0..(M - 1) :
        row < i \/ (row = i /\ col < j + 1) => Right(row, col)'
  <2>1. \A row \in 0..(N - 1), col \in 0..(M - 1) :
          (row = i /\ col = j => Right(row, col)') /\ (Right(row, col) => Right(row, col)')
    BY <1>2, <1>4, <1>5, <1>7, ElementMoves
  <2>2. \A row \in 0..(N - 1), col \in 0..(M - 1) :
          row < i \/ (row = i /\ col < j) => Right(row, col)
    BY <1>1, <1>3 DEF InTrans
  <2>3. \A row \in 0..(N - 1), col \in 0..(M - 1) : col < j + 1 => col < j \/ col = j
    BY <1>4
  <2> QED
    BY <2>1, <2>2, <2>3
<1>9. CASE j + 1 < M
  <2>1. phase' = "trans" /\ loop' = [loop EXCEPT !.j = j + 1]
    BY <1>1, <1>4, <1>9 DEF MoveElement, Go
  <2>2. loop'.i = i /\ loop'.j = j + 1 /\ loop' \in [i : Nat, j : Nat, k : Nat, l : Nat]
    BY <1>1, <1>3, <1>4, <2>1
  <2>3. j + 1 \in 0..(M - 1)
    BY <1>4, <1>9
  <2>4. InTrans'
    BY <1>4, <1>7, <1>8, <2>2, <2>3 DEF InTrans
  <2> QED
    BY <1>7, <2>1, <2>2, <2>4 DEF LoopInv
<1>10. CASE j + 1 = M /\ i + 1 < N
  <2>1. phase' = "trans" /\ loop' = [i |-> i + 1, j |-> 0, k |-> 0, l |-> 0]
    BY <1>1, <1>4, <1>10 DEF MoveElement, Go, At
  <2>2. loop'.i = i + 1 /\ loop'.j = 0 /\ loop' \in [i : Nat, j : Nat, k : Nat, l : Nat]
    BY <1>4, <2>1
  <2>3. i + 1 \in 0..(N - 1) /\ 0 \in 0..(M - 1)
    BY <1>4, <1>10
  <2>4. \A row \in 0..(N - 1), col \in 0..(M - 1) :
          row < i + 1 \/ (row = i + 1 /\ col < 0) => Right(row, col)'
    <3>1. \A row \in 0..(N - 1), col \in 0..(M - 1) :
            row < i + 1 \/ (row = i + 1 /\ col < 0) => row < i \/ (row = i /\ col < j + 1)
      BY <1>4, <1>10
    <3> QED
      BY <1>8, <3>1
  <2>5. InTrans'
    BY <1>4, <1>7, <2>2, <2>3, <2>4 DEF InTrans
  <2> QED
    BY <1>7, <2>1, <2>2, <2>5 DEF LoopInv
<1>11. CASE j + 1 = M /\ ~(i + 1 < N)
  <2>1. phase' = "done" /\ loop' = loop
    BY <1>1, <1>4, <1>11 DEF MoveElement, Go
  <2>2. \A row \in 0..(N - 1), col \in 0..(M - 1) : Right(row, col)'
    <3>1. \A row \in 0..(N - 1), col \in 0..(M - 1) : row < i \/ (row = i /\ col < j + 1)
      BY <1>4, <1>11
    <3> QED
      BY <1>8, <3>1
  <2>3. is_transpose'
    BY <1>2, <1>4, <2>2, AllRight
  <2> QED
    BY <1>3, <1>7, <2>1, <2>3 DEF LoopInv
<1>12. j + 1 < M \/ j + 1 = M
  BY <1>4
<1> QED
  BY <1>9, <1>10, <1>11, <1>12

-----------------------------------------------------------------------------
(* What holds of the transposes.                                             *)

\* What an evaluation keeps if its loops fit the matrix, and what csim keeps.
LabInv ==
  /\ SimInv
  /\ OnTrace => eval = [func |-> "csim", M |-> 0, N |-> 0] /\ B = <<>>
  /\ ~OnTrace => eval \in Evaluations /\ (Fits(eval) => LoopInv)

\* An evaluation starts with its first loop and a matrix of which nothing is known.
LEMMA StartsFit == ASSUME Init, Fits(eval) PROVE LoopInv
<1>1. eval \in Evaluations
  BY DEF Init
<1>2. M \in 1..256 /\ N \in 1..256 /\ eval.func \in {"transpose_submit", "trans"}
  BY <1>1, TransAssumption DEF M, N
<1>3. IsMatrix(B)
  BY DEF Init, IsMatrix
<1>4. /\ loop = [i |-> 0, j |-> 0, k |-> 0, l |-> 0]
      /\ loop.i = 0 /\ loop.j = 0 /\ loop.k = 0 /\ loop.l = 0
      /\ loop \in [i : Nat, j : Nat, k : Nat, l : Nat]
  BY DEF Init, At
<1>5. Sound(param, cache)
  <2>1. param = [s |-> 5, E |-> 1, b |-> 5, hits |-> 0, misses |-> 0, evicts |-> 0]
    BY DEF Init, NewParam
  <2>2. param \in Params
    BY <2>1 DEF Params
  <2>3. cache = [set \in 0..(pow2[param.s] - 1) |-> [i \in 0..(param.E - 1) |-> EmptyLine]]
    BY DEF Init, createCache
  <2> QED
    BY <2>2, <2>3 DEF Sound, TagsDiffer, EmptyLine, Line
<1>6. CASE eval.func = "trans"
  <2>1. phase = "trans"
    BY <1>6 DEF Init, Entered
  <2>2. InTrans
    BY <1>2, <1>4 DEF InTrans
  <2> QED
    BY <1>2, <1>3, <1>4, <1>5, <2>1, <2>2 DEF LoopInv
<1>7. CASE eval.func # "trans" /\ N \notin {32, 64, 67}
  <2>1. phase = "done"
    BY <1>7 DEF Init, Entered, N
  <2>2. eval \notin Graded
    BY <1>7 DEF Graded, N
  <2> QED
    BY <1>2, <1>3, <1>4, <1>5, <1>7, <2>1, <2>2 DEF LoopInv
<1>8. CASE eval.func # "trans" /\ N \in {32, 64, 67}
  <2>1. <<M, N>> \in {<<32, 32>>, <<64, 64>>, <<61, 67>>}
    BY <1>8 DEF Fits, Graded, M, N
  <2>2. CASE N = 32
    <3>1. phase = "32" /\ M = 32
      BY <1>8, <2>1, <2>2 DEF Init, Entered, N
    <3>2. BlocksDone(31)
      BY <1>4 DEF BlocksDone
    <3>3. In32
      BY <1>4, <2>2, <3>1, <3>2 DEF In32
    <3> QED
      BY <1>2, <1>3, <1>4, <1>5, <3>1, <3>3 DEF LoopInv
  <2>3. CASE N = 64
    <3>1. phase = "first64" /\ M = 64
      BY <1>8, <2>1, <2>3 DEF Init, Entered, N
    <3>2. BlocksDone(63)
      BY <1>4 DEF BlocksDone
    <3>3. In64
      BY <1>4, <2>3, <3>1, <3>2 DEF In64, Tiles
    <3>4. InFirst64
      BY <1>4, <3>3 DEF InFirst64, Area
    <3> QED
      BY <1>2, <1>3, <1>4, <1>5, <3>1, <3>4 DEF LoopInv
  <2>4. CASE N = 67
    <3>1. phase = "67" /\ M = 61
      BY <1>8, <2>1, <2>4 DEF Init, Entered, N
    <3>2. RowEnd67 = 17 /\ ColumnEnd67 = 17
      BY <1>4 DEF RowEnd67, ColumnEnd67, Smaller
    <3>3. In67
      BY <1>4, <2>4, <3>1, <3>2 DEF In67, Strips67
    <3> QED
      BY <1>2, <1>3, <1>4, <1>5, <3>1, <3>3 DEF LoopInv
  <2> QED
    BY <1>8, <2>2, <2>3, <2>4
<1> QED
  BY <1>6, <1>7, <1>8

\* A step that changes nothing keeps it.
LEMMA LoopStays ==
  ASSUME LoopInv, eval' = eval, phase' = phase, loop' = loop, B' = B, param' = param, cache' = cache
  PROVE  LoopInv'
<1>1. M' = M /\ N' = N
  BY DEF M, N
<1>2. \A row, col : (Right(row, col)' <=> Right(row, col)) /\ (Parked(row, col)' <=> Parked(row, col))
  BY <1>1 DEF Right, Parked, A
<1>3. (BlocksDone(31) => BlocksDone(31)') /\ (BlocksDone(63) => BlocksDone(63)')
  BY <1>2 DEF BlocksDone
<1>4. In32 => In32'
  BY <1>1, <1>3 DEF In32
<1>5. In64 => In64'
  BY <1>1, <1>3 DEF In64
<1>6. InFirst64 => InFirst64'
  BY <1>2, <1>5 DEF InFirst64, Area
<1>7. InSecond64 => InSecond64'
  BY <1>2, <1>5 DEF InSecond64, Area
<1>8. InThird64 => InThird64'
  BY <1>2, <1>5 DEF InThird64, Area
<1>9. In67 => In67'
  <2>1. RowEnd67' = RowEnd67 /\ ColumnEnd67' = ColumnEnd67
    BY DEF RowEnd67, ColumnEnd67
  <2> SUFFICES ASSUME In67 PROVE In67'
    OBVIOUS
  <2>2. \A row \in 0..66, col \in 0..60 :
           col < loop.i \/ (col < loop.i + 17 /\ row < loop.k) \/ (row = loop.k /\ col < loop.l)
             => Right(row, col)'
    BY <1>2 DEF In67
  <2> QED
    BY <1>1, <2>1, <2>2 DEF In67
<1>10. InTrans => InTrans'
  BY <1>1, <1>2 DEF InTrans
<1>11. (is_transpose => is_transpose') /\ (eval \in Graded)' = (eval \in Graded)
  BY <1>1 DEF is_transpose, A, Graded
<1>12. IsMatrix(B)'
  BY <1>1 DEF LoopInv, IsMatrix
<1> QED
  BY <1>1, <1>4, <1>6, <1>7, <1>8, <1>9, <1>10, <1>11, <1>12 DEF LoopInv

\* The invariant of the lab is inductive.
LEMMA LabInductive ==
  /\ LabInit => LabInv
  /\ LabInv /\ [LabNext]_vars => LabInv'
<1>1. LabInit => LabInv
  <2>1. ASSUME Init PROVE ~OnTrace /\ eval \in Evaluations
    BY <2>1 DEF Init, OnTrace, Entered
  <2>2. ASSUME TraceInit PROVE OnTrace /\ eval = [func |-> "csim", M |-> 0, N |-> 0] /\ B = <<>>
    BY <2>2 DEF TraceInit, OnTrace
  <2> QED
    BY <2>1, <2>2, SoundInductive, StartsFit DEF LabInit, LabInv
<1>2. ASSUME LabInv, Next PROVE LabInv'
  <2>1. ~OnTrace
    BY <1>2 DEF Next, MoveStrip32, MoveFirst64, MoveSecond64, MoveThird64, MoveElement67,
                MoveElement, OnTrace
  <2>2. ~OnTrace'
    BY <1>2, <2>1, StaysOff
  <2>3. eval' = eval
    BY <1>2, Zenon DEF Next, MoveStrip32, MoveFirst64, MoveSecond64, MoveThird64, MoveElement67,
                MoveElement, Go
  <2>4. Fits(eval)' => Fits(eval)
    BY <2>3 DEF Fits, Graded
  <2>5. ASSUME Fits(eval) PROVE LoopInv'
    <3>1. LoopInv
      BY <1>2, <2>1, <2>5 DEF LabInv
    <3> QED
      BY <1>2, <3>1, Strip32Step, First64Step, Second64Step, Third64Step, Element67Step,
         ElementStep DEF Next
  <2>6. SimInv'
    BY <2>2 DEF SimInv
  <2> QED
    BY <1>2, <2>1, <2>2, <2>3, <2>4, <2>5, <2>6 DEF LabInv
<1>3. ASSUME LabInv, Trace PROVE LabInv'
  <2>1. SimInv'
    BY <1>3, SoundInductive DEF LabInv, LabNext
  <2>2. OnTrace /\ OnTrace' /\ eval' = eval /\ B' = B
    BY <1>3 DEF Trace, OnTrace
  <2> QED
    BY <1>3, <2>1, <2>2 DEF LabInv
<1>4. ASSUME LabInv, UNCHANGED vars PROVE LabInv'
  <2>1. eval' = eval /\ phase' = phase /\ loop' = loop /\ B' = B /\ param' = param /\ cache' = cache
    BY <1>4 DEF vars
  <2>2. LoopInv => LoopInv'
    BY <2>1, LoopStays
  <2>3. SimInv'
    BY <1>4, <2>1 DEF LabInv, SimInv, OnTrace
  <2>4. Fits(eval)' => Fits(eval)
    BY <2>1 DEF Fits, Graded
  <2> QED
    BY <1>4, <2>1, <2>2, <2>3, <2>4 DEF LabInv, OnTrace
<1> QED
  BY <1>1, <1>2, <1>3, <1>4 DEF LabNext

\* Both functions of trans.c end with B the transpose of A: trans for any matrix of up to
\* 256 by 256, the submission for the three sizes it is graded on.
THEOREM EndsTransposed == LabSpec => []Transposed
<1>1. LabInv => Transposed
  <2> SUFFICES ASSUME LabInv, phase = "done", eval \in Graded \/ eval.func = "trans" PROVE is_transpose
    BY DEF Transposed
  <2>1. ~OnTrace /\ Fits(eval)
    BY DEF OnTrace, Fits
  <2>2. LoopInv
    BY <2>1 DEF LabInv
  <2> QED
    BY <2>2 DEF LoopInv
<1> QED
  BY <1>1, LabInductive, PTL DEF LabSpec

\* Every evaluation is of a matrix its loops are for: the submission has loops of their own
\* for 32, 64 and 67 rows, and looks at the other size in none of them (trans.c:36).
SizesFit == \A e \in Evaluations : Fits(e)

\* The next loop body is sane, in whatever loop that is.
LEMMA NextIsSane == ASSUME LoopInv PROVE \E K : Sane(Moves, K)
<1>1. CASE phase = "32" /\ In32
  BY <1>1, Strip32Plan, PlanSane
<1>2. CASE phase = "first64" /\ InFirst64
  BY <1>2, First64Plan, PlanSane
<1>3. CASE phase = "second64" /\ InSecond64
  BY <1>3, Second64Plan, PlanSane
<1>4. CASE phase = "third64" /\ InThird64
  BY <1>4, Third64Plan, PlanSane
<1>5. CASE phase = "67" /\ In67
  <2>1. PICK k, l : k = loop.k /\ l = loop.l
    OBVIOUS
  <2>2. k \in 0..(N - 1) /\ l \in 0..(M - 1) /\ M \in Nat /\ N \in Nat
    <3>1. /\ M = 61 /\ N = 67 /\ loop.i \in Strips67 /\ loop.j \in Strips67 /\ k \in Nat
          /\ l \in Nat /\ k < ColumnEnd67 /\ l < RowEnd67
      BY <1>5, <2>1 DEF In67
    <3>2. RowEnd67 \in Nat /\ RowEnd67 <= 61 /\ ColumnEnd67 \in Nat /\ ColumnEnd67 <= 67
      BY <3>1, Ends67
    <3> QED
      BY <3>1, <3>2
  <2>3. Moves = << <<InA(k, l), InB(l, k)>> >>
    BY <1>5, <2>1 DEF Moves, Element67
  <2> QED
    BY <2>2, <2>3, ElementSane
<1>6. CASE phase = "trans" /\ InTrans
  <2>1. PICK i, j : i = loop.i /\ j = loop.j
    OBVIOUS
  <2>2. i \in 0..(N - 1) /\ j \in 0..(M - 1) /\ M \in Nat /\ N \in Nat
    BY <1>6, <2>1 DEF InTrans, LoopInv
  <2>3. Moves = << <<InA(i, j), InB(j, i)>> >>
    BY <1>6, <2>1 DEF Moves, Element
  <2> QED
    BY <2>2, <2>3, ElementSane
<1>7. CASE phase = "done"
  <2>1. Moves = <<>>
    BY <1>7 DEF Moves
  <2>2. 0 \in Nat /\ DOMAIN Moves = 1..0 /\ \A n : n \notin 1..0
    BY <2>1
  <2> QED
    BY <2>2 DEF Sane, Movable
<1> QED
  BY <1>1, <1>2, <1>3, <1>4, <1>5, <1>6, <1>7 DEF LoopInv

\* What csim's types say of a sound cache.
LEMMA SoundTypes == ASSUME Sound(param, cache) PROVE Sim!TypeOK
BY SimPow2 DEF Sound, Params, Line, Sim!TypeOK, Sim!Sets, Sim!Ways

\* No loop touches a cell behind the end of its row or reads one of B before it is
\* written, and the simulator's lines and counters keep their types.
THEOREM StaysInside == ASSUME SizesFit PROVE LabSpec => []TypesOK
<1>1. LabInv => TypesOK
  <2> SUFFICES ASSUME LabInv PROVE TypeOK /\ Sim!TypeOK
    BY DEF TypesOK
  <2>1. CASE OnTrace
    <3>1. Sound(param, cache) /\ M = 0 /\ N = 0 /\ B = <<>>
      BY <2>1 DEF LabInv, SimInv, M, N
    <3>2. Moves = <<>>
      BY <2>1 DEF OnTrace, Moves
    <3>3. DOMAIN Moves = {} /\ DOMAIN B = {} /\ 0..(M - 1) = {}
      BY <3>1, <3>2
    <3>4. TypeOK
      BY <3>3 DEF TypeOK
    <3> QED
      BY <3>1, <3>4, SoundTypes
  <2>2. CASE ~OnTrace
    <3>1. LoopInv
      BY <2>2 DEF LabInv, SizesFit
    <3>2. PICK K : Sane(Moves, K)
      BY <3>1, NextIsSane
    <3>3. IsMatrix(B) /\ Sound(param, cache)
      BY <3>1 DEF LoopInv
    <3>4. DOMAIN B = 0..(M - 1) /\ \A row \in DOMAIN B : DOMAIN B[row] = 0..(N - 1)
      BY <3>3 DEF IsMatrix
    <3>5. \A n \in DOMAIN Moves : /\ Inside(Moves[n][1]) /\ Inside(Moves[n][2])
                                  /\ Value(Moves[n][1]) # Unset
      BY <3>2, TransAssumption DEF Sane, Movable
    <3>6. TypeOK
      BY <3>4, <3>5 DEF TypeOK
    <3> QED
      BY <3>3, <3>6, SoundTypes
  <2> QED
    BY <2>1, <2>2
<1> QED
  BY <1>1, LabInductive, PTL DEF LabSpec
=============================================================================
