---------------------------- MODULE TraceReader ----------------------------
(***************************************************************************)
(* Reading a compressed trace back, one event at a time                    *)
(* (Trace::traverse, Trace::traverse_recursive).                           *)
(*                                                                         *)
(* Walk returns the sequence of nodes visited, NoNode standing for the     *)
(* exit(1) of a reader that runs off the trace; Events then reads each     *)
(* visit's parameters, which advance cyclically from visit to visit.       *)
(***************************************************************************)
EXTENDS Params

NoNode == 0

\* A loop level is read with its scalar length and iteration count; the
\* trace's first node, when it leads no loop, stands for the whole trace.
RECURSIVE Walk(_, _, _)
Walk(t, head, depth) ==
  LET loops == t[head].loops
      whole == loops = <<>>
      tail  == IF whole THEN Len(t) ELSE head + Scalar(loops[depth].mem) - 1
      iters == IF whole THEN 1 ELSE Scalar(loops[depth].iter)
      \* One element of the body at node i: a node or a loop nested there.
      Inner(i) ==
        IF i = head
        THEN IF Len(loops) > depth THEN depth + 1 ELSE 0
        ELSE IF t[i].loops # <<>> THEN 1 ELSE 0
      Visit(i) == IF Inner(i) = 0 THEN <<i>> ELSE Walk(t, i, Inner(i))
      Length(i) == IF Inner(i) = 0 THEN 1 ELSE Scalar(t[i].loops[Inner(i)].mem)
      RECURSIVE Body(_)
      Body(i) ==
        IF i \notin DOMAIN t THEN <<NoNode>>
        ELSE Visit(i) \o IF i + Length(i) - 1 = tail THEN <<>>
                         ELSE Body(i + Length(i))
      once == Body(head)
  IN  FlattenSeq([k \in 1..iters |-> once])

\* The first node is read as a whole trace when it leads no loop, and as its
\* outermost loop, and nothing else, when it does.
Traverse(t) == Walk(t, 1, 1)

\* The events the visits stand for: the k-th visit of a node reads the k-th
\* count and the values after those its earlier visits have read.
Events(t, visits) ==
  LET Visited(k) == Cardinality({j \in 1..(k - 1) : visits[j] = visits[k]})
      Count(k) == ReadAt(t[visits[k]].count, Visited(k), 1)[1]
      Read(k) == FoldSet(LAMBDA j, n : n + Count(j), 0,
                         {j \in 1..(k - 1) : visits[j] = visits[k]})
  IN  [k \in DOMAIN visits |->
        [op  |-> t[visits[k]].op,
         vec |-> ReadAt(t[visits[k]].values, Read(k), Count(k))]]

\* What a replay of t sees.
Replay(t) ==
  LET visits == Traverse(t)
  IN  IF \E k \in DOMAIN visits : visits[k] = NoNode THEN <<>>
      ELSE Events(t, visits)
=============================================================================
