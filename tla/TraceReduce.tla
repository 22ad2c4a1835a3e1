---------------------------- MODULE TraceReduce ----------------------------
(***************************************************************************)
(* Inter-node compression with its traces: the protocol of module          *)
(* Reduction, each of whose steps that touches a trace does here what it   *)
(* does to the trace.  Every rank has called MPI_Init, run a program and   *)
(* compressed its calls into a trace when it calls MPI_Finalize.           *)
(*                                                                         *)
(* A trace does not change once its rank has started to send it, so the    *)
(* trace a message carries is the sender's.                                *)
(***************************************************************************)
EXTENDS LoopFold, TraceMerge

CONSTANTS
  N,         \* my_size
  Programs,  \* sequences of calls a rank may make before MPI_Finalize
  InitOp,    \* the call to MPI_Init
  FinalOp    \* the call to MPI_Finalize

ASSUME SizeAssumption == N \in Nat \ {0}
ASSUME OpsAssumption == InitOp # FinalOp
ASSUME ProgramsAssumption ==
  \A p \in Programs :
    /\ p \in Seq({p[k] : k \in DOMAIN p})
    /\ \A k \in DOMAIN p :
         p[k].op \notin {InitOp, FinalOp} /\ p[k].vec \in Seq(Int) /\ Len(p[k].vec) > 0

VARIABLES
  pc, held, sized, chan, file,  \* the protocol's
  program,  \* rank -> the calls it made
  trace,    \* rank -> its trace, with those merged into it
  output    \* the trace file
protocolVars == <<pc, held, sized, chan, file>>
vars == <<protocolVars, program, trace, output>>

Protocol == INSTANCE Reduction
Ranks == Protocol!Ranks

\* Calls of MPI itself carry no values of interest.
Call(op) == [op |-> op, vec |-> <<0>>]

Recorded(calls, rank) ==
  LET traces[k \in 0..Len(calls)] ==
        IF k = 0 THEN <<Node(InitOp, <<0>>, rank)>>
        ELSE Appended(traces[k - 1], Node(calls[k].op, calls[k].vec, rank))
  IN  traces[Len(calls)]

Init ==
  /\ Protocol!Init
  /\ program \in [Ranks -> Programs]
  /\ trace = [r \in Ranks |-> Recorded(program[r], r)]
  /\ output = <<>>

\* Behind the barrier, the call to MPI_Finalize is appended.
LeaveBarrier(r) ==
  /\ Protocol!LeaveBarrier(r)
  /\ trace' = [trace EXCEPT ![r] = Appended(@, Node(FinalOp, <<0>>, r))]
  /\ UNCHANGED <<program, output>>

ReceiveTrace(r) ==
  /\ Protocol!ReceiveTrace(r)
  /\ trace' = [trace EXCEPT ![r] = LCSMergeTrace(@, trace[Protocol!Child(r)])]
  /\ UNCHANGED <<program, output>>

OutputTrace(r) ==
  /\ Protocol!OutputTrace(r)
  /\ output' = trace[r]
  /\ UNCHANGED <<program, trace>>

\* Steps that leave every trace as it is.
OtherStep(r) ==
  /\ \/ Protocol!EnterBarrier(r) \/ Protocol!NoChild(r) \/ Protocol!ReceiveSize(r)
     \/ Protocol!SendSize(r) \/ Protocol!SendTrace(r) \/ Protocol!SendReturns(r)
  /\ UNCHANGED <<program, trace, output>>

Step(r) == LeaveBarrier(r) \/ ReceiveTrace(r) \/ OutputTrace(r) \/ OtherStep(r)

Terminating == Protocol!AllDone /\ UNCHANGED vars

Next == (\E r \in Ranks : Step(r)) \/ Terminating

Spec == Init /\ [][Next]_vars
-----------------------------------------------------------------------------
\* Type invariant, that of the protocol included: a parameter's value lists are of disjoint sets of ranks,
\* and a node has values of every parameter for each of its ranks.
RanksOf(p) == UNION {p[k].ranks : k \in DOMAIN p}
Disjoint(p) == \A k, l \in DOMAIN p : k # l => p[k].ranks \cap p[l].ranks = {}
IsNode(node) ==
  /\ node.ranks \subseteq Ranks
  /\ RanksOf(node.count) = node.ranks /\ Disjoint(node.count)
  /\ RanksOf(node.values) = node.ranks /\ Disjoint(node.values)
  /\ \A d \in DOMAIN node.loops :
       /\ RanksOf(node.loops[d].mem) = RanksOf(node.loops[d].iter)
       /\ RanksOf(node.loops[d].mem) \subseteq node.ranks
       /\ Disjoint(node.loops[d].mem) /\ Disjoint(node.loops[d].iter)
TypeOK ==
  /\ Protocol!TypeOK
  /\ program \in [Ranks -> Programs]
  /\ \A r \in Ranks : \A i \in DOMAIN trace[r] : IsNode(trace[r][i])

\* What rank r reads of a merged node is what it recorded in its own: its values
\* of every parameter, and the loops it went through.
Holds(p, r, vals) == \E k \in DOMAIN p : r \in p[k].ranks /\ p[k].vals = vals
ReadsAs(node, r, own) ==
  /\ node.op = own.op
  /\ Holds(node.count, r, own.count[1].vals) /\ Holds(node.values, r, own.values[1].vals)
  /\ Len(own.loops) <= Len(node.loops)
  /\ \A d \in DOMAIN node.loops :
       IF d <= Len(own.loops)
       THEN /\ Holds(node.loops[d].mem, r, own.loops[d].mem[1].vals)
            /\ Holds(node.loops[d].iter, r, own.loops[d].iter[1].vals)
       ELSE r \notin RanksOf(node.loops[d].mem)

\* r's nodes among the first i of t, and all of them in the order it recorded.
NodesOf(t, r, i) == Cardinality({j \in 1..i : r \in t[j].ranks})
Keeps(t, r, own) ==
  /\ NodesOf(t, r, Len(t)) = Len(own)
  /\ \A i \in DOMAIN t : r \in t[i].ranks => ReadsAs(t[i], r, own[NodesOf(t, r, i)])

\* The merged traces are of the ranks the protocol collects: MPI_Init's node,
\* and MPI_Finalize's once it is there, are shared by all of them, and each finds
\* in them the nodes of the trace it recorded, all, in order and with its values.
WholeTraces ==
  [calls \in Programs |-> [r \in Ranks |-> Appended(Recorded(calls, r), Node(FinalOp, <<0>>, r))]]
HeldIsMerged ==
  \A r \in Ranks :
    /\ trace[r][1].ranks = held[r] /\ Last(trace[r]).ranks \subseteq held[r]
    /\ pc[r] \notin {"call", "barrier"} =>
         /\ Last(trace[r]).ranks = held[r]
         /\ \A q \in held[r] : Keeps(trace[r], q, WholeTraces[program[q]][q])

\* Ranks that made the same calls leave one trace of them: nothing is added to
\* the trace of the first, whatever the number of ranks.
SameCallsShareNodes ==
  output # <<>> /\ (\A r, q \in Ranks : program[r] = program[q])
    => /\ Len(output) = Len(trace[N - 1])
       /\ \A i \in DOMAIN output : output[i].ranks = Ranks /\ Len(output[i].values) = 1
=============================================================================
