------------------------------ MODULE CsimCache ------------------------------
(* The cache of the simulator (csim.c) as operators: the parameters with     *)
(* their counters, the cache they describe, and one access.  Addresses are   *)
(* below 2^64 and 1 <= s + b < 64, so the shifts only cut bits off.          *)
EXTENDS Integers, FiniteSetsExt

\* 1 << n.
pow2[n \in Nat] == IF n = 0 THEN 1 ELSE 2 * pow2[n - 1]

\* Param as parseArg leaves it.
NewParam(s, E, b) == [s |-> s, E |-> E, b |-> b, hits |-> 0, misses |-> 0, evicts |-> 0]

EmptyLine == [valid |-> FALSE, tag |-> 0, accessed |-> 0]

createCache(param) == [set \in 0..(pow2[param.s] - 1) |-> [i \in 0..(param.E - 1) |-> EmptyLine]]

tag(param, addr) == addr \div pow2[param.s + param.b]

setIdx(param, addr) == (addr % pow2[param.s + param.b]) \div pow2[param.b]

Least(S) == CHOOSE i \in S : \A j \in S : i <= j

Matching(lines, t) == {i \in DOMAIN lines : lines[i].valid /\ lines[i].tag = t}

Empty(lines) == {i \in DOMAIN lines : ~lines[i].valid}

maxAccess(lines) == Max({lines[i].accessed : i \in DOMAIN lines})

\* Mutant: minAccess is not lowered, so the last line below the first one's stamp goes.
evictIdx_last(lines) == Max({0} \cup {i \in DOMAIN lines : lines[i].accessed < lines[0].accessed})

\* The first line with the least stamp.
evictIdx(lines) ==
  Least({i \in DOMAIN lines : \A j \in DOMAIN lines : lines[i].accessed <= lines[j].accessed})

\* Where a missing block goes.
fillIdx(lines) == IF Empty(lines) = {} THEN evictIdx(lines) ELSE Least(Empty(lines))

Touched(lines, i) == [lines EXCEPT ![i].accessed = @ + 1]

Filled(lines, i, t) ==
  [lines EXCEPT ![i] = [valid |-> TRUE, tag |-> t, accessed |-> maxAccess(lines) + 1]]

\* The counters after an access; a modify is a load that may miss and a store that hits.
Counted(param, lines, opt, hit) ==
  [param EXCEPT !.hits = @ + (IF opt = "M" THEN 1 ELSE 0) + (IF hit THEN 1 ELSE 0),
                !.misses = @ + (IF hit THEN 0 ELSE 1),
                !.evicts = @ + (IF hit \/ Empty(lines) # {} THEN 0 ELSE 1)]

\* executeInst: the parameters and the cache after one access.
executeInst(param, cache, opt, addr) ==
  LET set   == setIdx(param, addr)
      t     == tag(param, addr)
      lines == cache[set]
      hits  == Matching(lines, t)
  IN  [param |-> Counted(param, lines, opt, hits # {}),
       cache |-> [cache EXCEPT ![set] = IF hits # {} THEN Touched(lines, Least(hits))
                                        ELSE Filled(lines, fillIdx(lines), t)]]
=============================================================================
