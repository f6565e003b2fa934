--------------------------------- MODULE Rio ---------------------------------
(* The buffered reads of the Rio package (csapp.c) as operators.  A stream is *)
(* a sequence of symbols: words, and LF, at which a line ends.  `buf` is the  *)
(* unread part of rio_buf, `got` what the call has copied to its caller.      *)
EXTENDS Integers, Sequences, FiniteSetsExt

LF == "lf"

\* Mutant: no room is left for the zero byte behind the line.
LineTake_full(buf, got, maxlen) ==
  Min({i \in DOMAIN buf : buf[i] = LF} \cup {Len(buf), maxlen - Len(got)})

\* How much of the buffer goes to the caller of rio_readlineb: up to the end of the line.
LineTake(buf, got, maxlen) ==
  Min({i \in DOMAIN buf : buf[i] = LF} \cup {Len(buf), maxlen - 1 - Len(got)})

\* rio_readlineb returns.
LineDone(got, maxlen) == got # <<>> /\ (got[Len(got)] = LF \/ Len(got) = maxlen - 1)

\* The same for rio_readnb, which stops for nothing but the count.
BlockTake(buf, got, n) == Min({Len(buf), n - Len(got)})

BlockDone(got, n) == Len(got) = n

Taken(s, k) == SubSeq(s, 1, k)
Rest(s, k)  == SubSeq(s, k + 1, Len(s))
=============================================================================
