--------------------------- MODULE MCTraceReduce ---------------------------
(***************************************************************************)
(* Properties of the reduction for TLC, and the programs its ranks run.    *)
(***************************************************************************)
EXTENDS TraceReduce, TraceReader, ContextReader

CONSTANTS a, b

\* Up to this many ranks get_parent undoes get_child: what the proofs in
\* Reduction_proofs assume of the number of ranks.
ASSUME TreeChecked == Protocol!Tree(4096)

One(op) == [op |-> op, vec |-> <<1>>]
Two(op) == [op |-> op, vec |-> <<2>>]

\* Calls that fold to loops of different depths, bodies and counts, with the
\* same and with other values.
LoopPrograms ==
  { <<>>,
    <<One(a), One(b)>>,
    <<One(b), One(a), Two(a), One(a)>>,
    <<One(a), One(b), One(a), One(b)>>,
    <<One(a), One(a), One(b), One(a), One(a), One(b)>> }

\* The calls rank r has recorded.
History(r) ==
  <<Call(InitOp)>> \o program[r]
    \o IF pc[r] \in {"call", "barrier"} THEN <<>> ELSE <<Call(FinalOp)>>

\* The rank's trace stays as it is, as it was read before.
Sent(r) == pc[r] \in {"size sent", "trace sent", "done"}

\* Tracing is lossless (README.md:50) across ranks too: out of every merged
\* trace each of its ranks reads back its own calls, in order, with its values.
Lossless ==
  \A r \in {x \in Ranks : ~Sent(x)} : \A q \in held[r] :
    (q = r \/ pc[q] \notin {"call", "barrier"}) => Replay(InputTrace(trace[r], q)) = History(q)

\* Stepping through a merged trace as one of its ranks (Context::next), which
\* reads the trace of all ranks, visits that rank's nodes as often and in the
\* order its own reading of the trace (inputTrace, traverse) does.
ContextAgrees ==
  \A r \in Ranks : \A q \in held[r] :
    (~Sent(r) /\ pc[r] \notin {"call", "barrier"} /\ pc[q] \notin {"call", "barrier"}) =>
      LET own == SelectSeq([i \in DOMAIN trace[r] |-> i], LAMBDA i : q \in trace[r][i].ranks)
          visits == Traverse(InputTrace(trace[r], q))
      IN  ContextVisits(trace[r], q) = [k \in DOMAIN visits |-> own[visits[k]]]

\* README.md:82: traces that are fully lossless can be replayed
\* deterministically, each rank reading the file for itself.
ReplayReads == output # <<>> => \A r \in Ranks : ~InputCrashes(output, r)
=============================================================================
