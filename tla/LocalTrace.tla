----------------------------- MODULE LocalTrace -----------------------------
(***************************************************************************)
(* The trace one rank builds while the program runs: MPI_Init's node, then *)
(* every recorded call appended and compressed at once.  history is what   *)
(* was recorded, the yardstick of the properties.                          *)
(***************************************************************************)
EXTENDS VisitOrder

CONSTANTS
  Ops,      \* operations a program calls between MPI_Init and MPI_Finalize
  Vectors,  \* vectors of parameter values an operation may be called with
  MaxLen,   \* bound on the number of events
  MaxMixed, \* the same where calls differ in their vectors
  rank,     \* my_rank
  InitOp    \* the call to MPI_Init

ASSUME OpsAssumption == InitOp \notin Ops
ASSUME VectorsAssumption == \A v \in Vectors : v \in Seq(Int) /\ Len(v) > 0

VARIABLES trace, history
vars == <<trace, history>>

Init ==
  /\ trace = <<Node(InitOp, <<0>>, rank)>>
  /\ history = <<[op |-> InitOp, vec |-> <<0>>]>>

Bound(vec) == IF \A k \in 2..Len(history) : history[k].vec = vec THEN MaxLen ELSE MaxMixed

AppendEvent(op, vec) ==
  /\ Len(history) < Bound(vec)
  /\ trace' = Appended(trace, Node(op, vec, rank))
  /\ history' = Append(history, [op |-> op, vec |-> vec])

Next == \E op \in Ops, vec \in Vectors : AppendEvent(op, vec)

Spec == Init /\ [][Next]_vars
-----------------------------------------------------------------------------
IsParam(p) ==
  /\ Len(p) = 1
  /\ p[1].ranks = {rank}
  /\ p[1].iters \in Nat \ {0}
  /\ p[1].vals \in Seq(Int) \ {<<>>}

IsScalar(p) == IsParam(p) /\ Len(p[1].vals) = 1

IsNode(node) ==
  /\ node.ranks = {rank}
  /\ node.op \in Ops \cup {InitOp}
  /\ IsParam(node.count) /\ IsParam(node.values)
  /\ \A d \in DOMAIN node.loops : IsScalar(node.loops[d].mem) /\ IsScalar(node.loops[d].iter)
  /\ node.member \in BOOLEAN

\* Type invariant: nodes hold one value list per parameter, their rank's; and
\* those of loops hold one value, as incLoopIter (Loop.C:105-114) and loopMatch
\* (Event.C:428-444) rely on: no merge ever leaves two.
TypeOK ==
  /\ \A i \in DOMAIN trace : IsNode(trace[i])
  /\ \A k \in DOMAIN history : history[k] \in [op : Ops \cup {InitOp}, vec : Vectors \cup {<<0>>}]

\* The body of a loop, named by its leader and its place from the outermost in.
Body(t, l) == l[1]..(l[1] + Scalar(t[l[1]].loops[l[2]].mem) - 1)

Nested(t) ==
  \A l, m \in Loops(t) :
    \/ Body(t, l) \cap Body(t, m) = {}
    \/ Body(t, l) \subseteq Body(t, m) /\ (l[1] = m[1] => l[2] >= m[2])
    \/ Body(t, m) \subseteq Body(t, l) /\ (l[1] = m[1] => m[2] >= l[2])

\* Loop bodies lie inside the trace and are nested or disjoint, loops that
\* share a leader from the outermost in; and the nodes flagged MEMBER, which
\* the search must not start a loop at, are those inside a body, leader apart.
WellNested ==
  /\ \A l \in Loops(trace) : Body(trace, l) \subseteq DOMAIN trace
  /\ Nested(trace)
  /\ \A i \in DOMAIN trace :
       trace[i].member <=> \E l \in Loops(trace) : i \in Body(trace, l) \ {l[1]}

\* README.md:50 calls tracing fully lossless: the visits of the folded trace
\* are the recorded calls, in their order and with their values.
StandsForHistory == StandsFor(trace, history)
=============================================================================
