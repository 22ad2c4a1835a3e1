----------------------------- MODULE VisitOrder -----------------------------
(***************************************************************************)
(* What a folded trace stands for, without reading it: a visit of a node   *)
(* is a choice of one iteration of each loop the node is in, and visits    *)
(* are ordered by the iterations of their outermost common loops first,    *)
(* and by their nodes if these are the same.  TraceReader is how the code  *)
(* reads; here is what it has to find.                                     *)
(***************************************************************************)
EXTENDS LoopFold

\* A loop of a trace is named by its leader and a place in the leader's loop
\* stack: from the outermost in (Loops), or from the innermost out (LoopAt),
\* which a loop put around the leader later leaves as it is.
Loops(t) == UNION {{i} \X DOMAIN t[i].loops : i \in DOMAIN t}

LoopAt(t, l) == t[l[1]].loops[Depth(t[l[1]]) + 1 - l[2]]
Times(t, l) == Scalar(LoopAt(t, l).iter)
Around(t, i) == {l \in Loops(t) : i \in l[1]..(l[1] + Scalar(LoopAt(t, l).mem) - 1)}

Visits(t) ==
  LET Turns(i) == {turn \in [Around(t, i) -> UNION {1..Times(t, l) : l \in Around(t, i)}] :
                     \A l \in Around(t, i) : turn[l] \in 1..Times(t, l)}
  IN  UNION {{[node |-> i, turn |-> turn] : turn \in Turns(i)} : i \in DOMAIN t}

\* Of two loops around a node.
Outside(l, m) == l[1] < m[1] \/ (l[1] = m[1] /\ l[2] > m[2])

Before(x, y) ==
  LET differ == {l \in DOMAIN x.turn \cap DOMAIN y.turn : x.turn[l] # y.turn[l]}
  IN  \/ differ = {} /\ x.node < y.node
      \/ \E l \in differ : x.turn[l] < y.turn[l] /\ \A m \in differ \ {l} : Outside(l, m)

\* Where the values of the m-th visit end among those of all visits of a node,
\* from the number of values of each.
Ends(counts) ==
  LET ends[m \in 0..Len(counts)] == IF m = 0 THEN 0 ELSE ends[m - 1] + counts[m]
  IN  ends

\* Trace t is the sequence of calls: as many visits, the k-th of the k-th
\* call's operation, and the parameters of a node are, visit by visit, the
\* numbers of values and the values of its calls.
StandsFor(t, calls) ==
  LET visits == Visits(t)
      Earlier(x) == {y \in visits : Before(y, x)}
      Call(x) == calls[Cardinality(Earlier(x)) + 1]
      Again(x) == Cardinality({y \in Earlier(x) : y.node = x.node}) + 1
      Counts(x) == Expand(t[x.node].count[1])
      Values(x) == Expand(t[x.node].values[1])
  IN  /\ Cardinality(visits) = Len(calls)
      /\ \A x, y \in visits : x = y \/ Before(x, y) \/ Before(y, x)
      /\ \A x \in visits :
           /\ Call(x).op = t[x.node].op
           /\ Len(Counts(x)) = Cardinality({y \in visits : y.node = x.node})
           /\ Counts(x)[Again(x)] = Len(Call(x).vec)
           /\ Len(Values(x)) = Ends(Counts(x))[Len(Counts(x))]
           /\ Call(x).vec =
                SubSeq(Values(x), Ends(Counts(x))[Again(x) - 1] + 1, Ends(Counts(x))[Again(x)])
=============================================================================
