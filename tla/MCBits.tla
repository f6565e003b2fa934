------------------------------- MODULE MCBits -------------------------------
(* Bytes, with floats of four exponent and three fraction bits.             *)
EXTENDS Bits

\* The least, all ones, all zeros, and one in between.
SomeOthers == {AsWord(n) : n \in {-128, -1, 0, 53}}
=============================================================================
