---------------------------- MODULE MCLocalTrace ----------------------------
(***************************************************************************)
(* What reading the compressed trace of one rank back gives, for TLC:      *)
(* reading is recursive and stays out of the modules with proofs.          *)
(***************************************************************************)
EXTENDS LocalTrace, TraceReader, ContextReader

CONSTANTS a, b

Arrays == {<<1>>, <<1, 1>>, <<2>>}

\* README.md:50 calls tracing fully lossless: reading the compressed trace
\* back (traverse) gives every recorded event, in order, with its values.
Lossless == Replay(trace) = history

\* Stepping through the trace (Context::next) visits the nodes the recursive
\* traversal visits, in the same order.
ContextAgrees == ContextVisits(trace, rank) = Traverse(trace)

\* The compression this search is for: a program that only repeats a body of
\* distinct operations, twice or more, leaves a trace of one body.
RegularLoopsFold ==
  LET n == Len(history) - 1
      Op(k) == history[k + 1].op
  IN  \A p \in 1..(n \div 2) :
        (/\ p < Window /\ n % p = 0
         /\ \A k \in 1..(n - p) : Op(k) = Op(k + p)
         /\ \A j, k \in 1..p : Op(j) = Op(k) => j = k)
        => Len(trace) = 1 + p
=============================================================================
