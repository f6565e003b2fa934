-------------------------------- MODULE Trans --------------------------------
(* The transpose functions (trans.c) as test-trans evaluates them: tracegen  *)
(* runs one on a matrix, valgrind records what it reads and writes, and the  *)
(* simulator counts the misses in a direct-mapped cache of 32 blocks of 32   *)
(* bytes.  An action is one pass through an innermost loop.                  *)
EXTENDS CsimCache, Sequences, SequencesExt

CONSTANTS Evaluations,  \* the [func, M, N] evaluated
          Unset         \* what initMatrix leaves in B: no value of A

ASSUME TransAssumption ==
  /\ \A e \in Evaluations : e.func \in {"transpose_submit", "trans"} /\ {e.M, e.N} \subseteq 1..256
  /\ Unset \notin Nat

VARIABLES eval,   \* the function evaluated and the arguments M, N
          phase,  \* the loop it is in, or "done"
          loop,   \* its loop variables i, j, k, l
          B,      \* the matrix it fills
          param, cache

vars == <<eval, phase, loop, B, param, cache>>

M == eval.M
N == eval.N

At(i, j, k, l) == [i |-> i, j |-> j, k |-> k, l |-> l]

\* Each element of A tells its place.
A(row, col) == row * M + col

Smaller(x, y) == IF x < y THEN x ELSE y
-----------------------------------------------------------------------------
InA(row, col) == [matrix |-> "A", row |-> row, col |-> col]
InB(row, col) == [matrix |-> "B", row |-> row, col |-> col]

\* A[N][M] and B[M][N] overlay the arrays of 256 by 256 that tracegen.c declares.
Address(cell) ==
  IF cell.matrix = "A" THEN 4 * (cell.row * M + cell.col)
  ELSE 4 * 256 * 256 + 4 * (cell.row * N + cell.col)

Value(cell) == IF cell.matrix = "A" THEN A(cell.row, cell.col) ELSE B[cell.row][cell.col]

\* Each loop body reads some cells into var0, var1, ... and then writes these to as
\* many cells: a move is <<read, written>>, in the order of the variables.
Eight(Read(_), Written(_)) == [n \in 1..8 |-> <<Read(n - 1), Written(n - 1)>>]
Four(Read(_), Written(_))  == [n \in 1..4 |-> <<Read(n - 1), Written(n - 1)>>]

Strip32 ==
  LET Read(n)    == InA(loop.i + n, loop.j)
      Written(n) == InB(loop.j, loop.i + n)
  IN  Eight(Read, Written)

\* Mutant: the upper half of the block goes straight to its place.
First64_direct ==
  LET Read(n)    == InA(loop.k, loop.j + n)
      Written(n) == InB(loop.j + n, loop.k)
  IN  Eight(Read, Written)

\* Sub blocks 1 and 2 of A to sub blocks 1 and 2 of B.
First64 ==
  LET Read(n)    == InA(loop.k, loop.j + n)
      Written(n) == IF n < 4 THEN InB(loop.j + n, loop.k) ELSE InB(loop.j + n - 4, loop.k + 4)
  IN  Eight(Read, Written)

\* Sub block 3 of A to sub block 2 of B, and what was there to sub block 3 of B.
Second64 ==
  LET Read(n)    == IF n < 4 THEN InA(loop.i + 4 + n, loop.k) ELSE InB(loop.k, loop.i + n)
      Written(n) == IF n < 4 THEN InB(loop.k, loop.i + 4 + n) ELSE InB(loop.k + 4, loop.i + n - 4)
  IN  Eight(Read, Written)

\* Mutant: sub block 4 goes where sub block 3 is.
Third64_left ==
  LET Read(n)    == InA(loop.i + 4 + n, loop.k)
      Written(n) == InB(loop.k, loop.i + n)
  IN  Four(Read, Written)

\* Sub block 4 of A to sub block 4 of B.
Third64 ==
  LET Read(n)    == InA(loop.i + 4 + n, loop.k)
      Written(n) == InB(loop.k, loop.i + 4 + n)
  IN  Four(Read, Written)

Element67 == << <<InA(loop.k, loop.l), InB(loop.l, loop.k)>> >>

Element == << <<InA(loop.i, loop.j), InB(loop.j, loop.i)>> >>

\* The moves of the loop body that comes next.
Moves ==
  CASE phase = "32"       -> Strip32
    [] phase = "first64"  -> First64
    [] phase = "second64" -> Second64
    [] phase = "third64"  -> Third64
    [] phase = "67"       -> Element67
    [] phase = "trans"    -> Element
    [] OTHER              -> <<>>
-----------------------------------------------------------------------------
(* The trace of one loop body, fed to the simulator. *)
Simulated(sim, opt, cells) ==
  LET Step(s, cell) == executeInst(s.param, s.cache, opt, Address(cell))
  IN  FoldLeft(Step, sim, cells)

Write(matrix, move) == [matrix EXCEPT ![move[2].row][move[2].col] = Value(move[1])]

Run(moves) ==
  LET loads  == [n \in DOMAIN moves |-> moves[n][1]]
      stores == [n \in DOMAIN moves |-> moves[n][2]]
      after  == Simulated(Simulated([param |-> param, cache |-> cache], "L", loads), "S", stores)
  IN  /\ B' = FoldLeft(Write, B, moves)
      /\ param' = after.param /\ cache' = after.cache

Go(next, at) == phase' = next /\ loop' = at /\ UNCHANGED eval
-----------------------------------------------------------------------------
\* The first loop of the function, or none.
Entered(e) ==
  CASE e.func = "trans" -> "trans"
    [] e.func # "trans" /\ e.N = 32 -> "32"
    [] e.func # "trans" /\ e.N = 64 -> "first64"
    [] e.func # "trans" /\ e.N = 67 -> "67"
    [] OTHER -> "done"

\* test-trans evaluates for s = 5, E = 1, b = 5.
Init ==
  /\ eval \in Evaluations
  /\ phase = Entered(eval) /\ loop = At(0, 0, 0, 0)
  /\ B = [row \in 0..(M - 1) |-> [col \in 0..(N - 1) |-> Unset]]
  /\ param = NewParam(5, 1, 5) /\ cache = createCache(param)

MoveStrip32 ==
  /\ phase = "32" /\ Run(Moves)
  /\ CASE loop.j + 1 < 32 -> Go("32", [loop EXCEPT !.j = @ + 1])
       [] loop.j + 1 = 32 /\ loop.i + 8 < 32 -> Go("32", At(loop.i + 8, 0, 0, 0))
       [] OTHER -> Go("done", loop)

MoveFirst64 ==
  /\ phase = "first64" /\ Run(Moves)
  /\ IF loop.k + 1 < loop.i + 4 THEN Go("first64", [loop EXCEPT !.k = @ + 1])
     ELSE Go("second64", [loop EXCEPT !.k = loop.j])

MoveSecond64 ==
  /\ phase = "second64" /\ Run(Moves)
  /\ IF loop.k + 1 < loop.j + 4 THEN Go("second64", [loop EXCEPT !.k = @ + 1])
     ELSE Go("third64", [loop EXCEPT !.k = loop.j + 4])

\* The loops over the blocks go on with the next one of the row of blocks i.
MoveThird64 ==
  /\ phase = "third64" /\ Run(Moves)
  /\ CASE loop.k + 1 < loop.j + 8 -> Go("third64", [loop EXCEPT !.k = @ + 1])
       [] loop.k + 1 = loop.j + 8 /\ loop.j + 8 < 64 -> Go("first64", At(loop.i, loop.j + 8, loop.i, 0))
       [] loop.k + 1 = 64 /\ loop.i + 8 < 64 -> Go("first64", At(loop.i + 8, 0, loop.i + 8, 0))
       [] OTHER -> Go("done", loop)

RowEnd67 == Smaller(loop.i + 17, 61)

\* Mutant: the last blocks are as high as the others.
ColumnEnd67_full == loop.j + 17

ColumnEnd67 == Smaller(loop.j + 17, 67)

MoveElement67 ==
  LET i == loop.i
      j == loop.j
      k == loop.k
      rowOver    == loop.l + 1 >= RowEnd67
      columnOver == rowOver /\ k + 1 >= ColumnEnd67
  IN  /\ phase = "67" /\ Run(Moves)
      /\ CASE ~rowOver -> Go("67", [loop EXCEPT !.l = @ + 1])
           [] rowOver /\ ~columnOver -> Go("67", At(i, j, k + 1, i))
           [] columnOver /\ j + 17 < 67 -> Go("67", At(i, j + 17, j + 17, i))
           [] columnOver /\ j + 17 >= 67 /\ i + 17 < 61 -> Go("67", At(i + 17, 0, 0, i + 17))
           [] OTHER -> Go("done", loop)

MoveElement ==
  /\ phase = "trans" /\ Run(Moves)
  /\ CASE loop.j + 1 < M -> Go("trans", [loop EXCEPT !.j = @ + 1])
       [] loop.j + 1 = M /\ loop.i + 1 < N -> Go("trans", At(loop.i + 1, 0, 0, 0))
       [] OTHER -> Go("done", loop)

Next == \/ MoveStrip32 \/ MoveFirst64 \/ MoveSecond64 \/ MoveThird64
        \/ MoveElement67 \/ MoveElement

Spec == Init /\ [][Next]_vars
-----------------------------------------------------------------------------
Inside(cell) ==
  cell \in [matrix : {"A"}, row : 0..(N - 1), col : 0..(M - 1)]
             \cup [matrix : {"B"}, row : 0..(M - 1), col : 0..(N - 1)]

\* The cells the next loop body touches lie in their matrices, behind whose last column
\* C would go on with the next row, and those it reads have been written.
TypeOK ==
  /\ \A n \in DOMAIN Moves : Inside(Moves[n][1]) /\ Inside(Moves[n][2]) /\ Value(Moves[n][1]) # Unset
  /\ DOMAIN B = 0..(M - 1) /\ \A row \in DOMAIN B : DOMAIN B[row] = 0..(N - 1)

\* What ENSURES states at the end of both functions: B is the transpose of A.
is_transpose == \A i \in 0..(N - 1), j \in 0..(M - 1) : A(i, j) = B[j][i]

\* The sizes driver.py has evaluated, with the misses it gives all points for.
FullScore(e) ==
  CASE e.M = 32 /\ e.N = 32 -> 300
    [] e.M = 64 /\ e.N = 64 -> 1300
    [] e.M = 61 /\ e.N = 67 -> 2000

Graded == {e \in Evaluations : e.func = "transpose_submit" /\ <<e.M, e.N>> \in {<<32, 32>>, <<64, 64>>, <<61, 67>>}}

\* Both functions end with the transpose, the submission for the sizes it is graded on:
\* the detour of a quarter of each block through another quarter of B comes out right.
Transposed == phase = "done" /\ (eval \in Graded \/ eval.func = "trans") => is_transpose

\* The two accesses at the ends of the trace that mark it miss at most.
Markers == 2

\* Each blocking pays off: the misses stay below what driver.py asks for, although A
\* and B share the sets of the cache.
FewMisses == eval \in Graded => param.misses + Markers <= FullScore(eval)
=============================================================================
