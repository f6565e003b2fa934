-------------------------------- MODULE Csim --------------------------------
(* The cache simulator on a trace of any accesses, for caches of any shape   *)
(* given on its command line.                                                *)
EXTENDS CsimCache

CONSTANTS Shapes,     \* the shapes [s, E, b] tried
          Addresses,  \* the addresses that occur in traces
          TraceLength \* bound of this model on hits + misses

VARIABLES param, cache

vars == <<param, cache>>

Kinds == {"L", "S", "M"}

Init ==
  /\ \E shape \in Shapes : param = NewParam(shape.s, shape.E, shape.b)
  /\ cache = createCache(param)

\* One line of the trace; lines that start without a blank are passed over.
Instruction(opt, addr) ==
  /\ param.hits + param.misses < TraceLength
  /\ LET after == executeInst(param, cache, opt, addr)
     IN  param' = after.param /\ cache' = after.cache

Next == \E opt \in Kinds, addr \in Addresses : Instruction(opt, addr)

Spec == Init /\ [][Next]_vars
-----------------------------------------------------------------------------
\* The sets, and the lines of a set.
Sets == 0..(pow2[param.s] - 1)
Ways == 0..(param.E - 1)

TypeOK ==
  /\ DOMAIN cache = Sets
  /\ \A set \in Sets : cache[set] \in [Ways -> [valid : BOOLEAN, tag : Nat, accessed : Nat]]
  /\ param.hits \in Nat /\ param.misses \in Nat /\ param.evicts \in Nat

\* The blocks in the cache.
InSet(set) == {cache[set][i].tag * pow2[param.s] + set : i \in {i \in Ways : cache[set][i].valid}}
Resident == UNION {InSet(set) : set \in Sets}

\* The stamp on the line of a block.
StampOf(block) ==
  LET lines == cache[block % pow2[param.s]]
      way   == CHOOSE i \in Ways : lines[i].valid /\ lines[i].tag = block \div pow2[param.s]
  IN  lines[way].accessed

Stamps == [block \in Resident |-> StampOf(block)]
=============================================================================
