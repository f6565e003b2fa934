----------------------------- MODULE MCCacheLab -----------------------------
(* Instances of the cache lab for model checking.                            *)
EXTENDS CacheLab

Submission(m, n) == [func |-> "transpose_submit", M |-> m, N |-> n]

\* The evaluations of driver.py, the baseline function on a matrix that is not square,
\* and the size of test-trans's usage example.
DriverAndBaseline ==
  {Submission(32, 32), Submission(64, 64), Submission(61, 67), Submission(8, 8),
   [func |-> "trans", M |-> 9, N |-> 5]}

\* Direct-mapped, two-way and three-way; blocks of one byte and of two.
SmallShapes == {[s |-> 1, E |-> 1, b |-> 1], [s |-> 1, E |-> 2, b |-> 0], [s |-> 1, E |-> 3, b |-> 0]}

\* Blocks of both sets, several with the same tag, and two bytes of one block.
SomeAddresses == {0, 1, 2, 4, 6, 8}
=============================================================================
