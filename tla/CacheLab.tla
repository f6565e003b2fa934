------------------------------- MODULE CacheLab -------------------------------
(* The simulator of the cache lab in its two uses: csim run on a trace, for a *)
(* cache of any shape, and test-trans running it on the accesses of a         *)
(* transpose function.                                                        *)
EXTENDS Trans

CONSTANTS Shapes,     \* the shapes [s, E, b] tried on traces
          Addresses,  \* the addresses that occur in traces
          TraceLength \* bound of this model on hits + misses

ASSUME TraceAssumption ==
  /\ Shapes \subseteq [s : Nat \ {0}, E : Nat \ {0}, b : Nat]
  /\ Addresses \subseteq Nat /\ TraceLength \in Nat

Sim == INSTANCE Csim

\* No function is evaluated: csim reads a trace.
OnTrace == phase = "trace"

TraceInit ==
  /\ eval = [func |-> "csim", M |-> 0, N |-> 0] /\ phase = "trace"
  /\ loop = At(0, 0, 0, 0) /\ B = <<>> /\ Sim!Init

LabInit == Init \/ TraceInit

Trace == OnTrace /\ Sim!Next /\ UNCHANGED <<eval, phase, loop, B>>

LabNext == Next \/ Trace

LabSpec == LabInit /\ [][LabNext]_vars
-----------------------------------------------------------------------------
TypesOK == TypeOK /\ Sim!TypeOK

\* What the abstract cache sees: nothing of the transposes, whose steps are many accesses.
OfTrace(value, otherwise) == IF OnTrace THEN value ELSE otherwise

Geometry(sets, ways, bytes) == [S |-> sets, E |-> ways, B |-> bytes]

SA == INSTANCE SetAssociative
  WITH geometry  <- OfTrace(Geometry(pow2[param.s], param.E, pow2[param.b]), Geometry(1, 1, 1)),
       Kinds     <- Sim!Kinds,
       resident  <- OfTrace(Sim!Resident, {}), rank <- OfTrace(Sim!Stamps, [block \in {} |-> 0]),
       hits      <- OfTrace(param.hits, 0), misses <- OfTrace(param.misses, 0),
       evictions <- OfTrace(param.evicts, 0)

\* The simulator on a trace is a set-associative cache of the shape it was given: the one
\* pass of executeInst finds the block, an empty line, the line with the least stamp and the
\* largest stamp, whatever hits, fills and evictions went before.
ImplementsSetAssociative == SA!Spec
=============================================================================
