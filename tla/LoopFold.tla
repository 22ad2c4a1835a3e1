------------------------------ MODULE LoopFold ------------------------------
(***************************************************************************)
(* On-the-fly compression of one rank's trace (Trace::appendEvent and      *)
(* Trace::fastCompressLoop), as operators on traces.                       *)
(*                                                                         *)
(* Each recorded event is appended to the trace as a node.  When the tail  *)
(* of the trace repeats the nodes just before it, the repetition is folded *)
(* into them: the first node of the loop body, its leader, carries the     *)
(* loop's length and iteration count on its loop stack, and every node     *)
(* keeps the parameters of all the events it stands for.  The search is    *)
(* repeated until nothing folds.                                           *)
(*                                                                         *)
(* An event is an operation (an op at a call site: opMatch and sigMatch)   *)
(* and a vector of values, recorded as a count and the values.  A node's   *)
(* loops are ordered outermost first; mem is the number of nodes in the    *)
(* body.                                                                   *)
(***************************************************************************)
EXTENDS Params

CONSTANT Window  \* WINDOW_SIZE: how far back a repetition is searched for

ASSUME WindowAssumption == Window \in Nat

\* The node of one event of a rank: no loops, and the rank's values only.
Node(op, vec, rank) ==
  [op |-> op, ranks |-> {rank}, loops |-> <<>>, member |-> FALSE,
   count |-> Single(<<Len(vec)>>, {rank}), values |-> Single(vec, {rank})]

Depth(node) == Len(node.loops)

\* Mutant of LoopMatch: a body may extend a loop of another length.
LoopMatchAnyLength(merge, target, depth, length) ==
  LET m == Depth(merge)
      t == Depth(target)
  IN  /\ m - t \in {0, 1}
      /\ depth <= t
      /\ \A c \in 0..(depth - 1) :
           /\ Scalar(merge.loops[m - c].mem) = Scalar(target.loops[t - c].mem)
           /\ Scalar(merge.loops[m - c].iter) = Scalar(target.loops[t - c].iter)

\* Event::loopMatch: the innermost depth loops of merge and target agree, and
\* the next loop of merge, if any, has the length of the target.
LoopMatch(merge, target, depth, length) ==
  LET m == Depth(merge)
      t == Depth(target)
  IN  /\ m - t \in {0, 1}
      /\ depth <= t
      /\ \A c \in 0..(depth - 1) :
           /\ Scalar(merge.loops[m - c].mem) = Scalar(target.loops[t - c].mem)
           /\ Scalar(merge.loops[m - c].iter) = Scalar(target.loops[t - c].iter)
      /\ m > depth => Scalar(merge.loops[m - depth].mem) = length

\* Trace::matchLoop: the last length nodes of t repeat the length nodes before
\* them.  The head of the body may already lead the loop being extended.
MatchLoop(t, length) ==
  \A i \in (Len(t) - length + 1)..Len(t) :
    LET merge  == t[i - length]
        target == t[i]
        depth  == IF i = Len(t) - length + 1 THEN Depth(target) ELSE Depth(merge)
    IN  /\ merge.op = target.op
        /\ LoopMatch(merge, target, depth, length)

\* The backward search stops at the window: nodes that cannot be a target head
\* count towards it, candidates do not.
Candidate(t, head) == ~t[head].member /\ t[head - 1].op = t[Len(t)].op
InWindow(t, head) ==
  Window > Cardinality({k \in (head + 1)..Len(t) : ~Candidate(t, k)})

\* Mutant of Foldable: a loop may start in the middle of another one.
FoldableInside(t, head) ==
  LET length == Len(t) - head + 1
  IN  /\ t[head - 1].op = t[Len(t)].op
      /\ InWindow(t, head)
      /\ head - length >= 1
      /\ MatchLoop(t, length)

\* The nodes from head on can be folded into as many nodes before them.
Foldable(t, head) ==
  LET length == Len(t) - head + 1
  IN  /\ Candidate(t, head)
      /\ InWindow(t, head)
      /\ head - length >= 1
      /\ ~t[head - length].member
      /\ MatchLoop(t, length)

\* Loop::mergeLoopStack: the loops of other are merged into the innermost ones.
MergeLoops(loops, other) ==
  LET above == Len(loops) - Len(other)
  IN  [i \in DOMAIN loops |->
        IF i <= above THEN loops[i]
        ELSE [mem  |-> MergeParam(loops[i].mem, other[i - above].mem),
              iter |-> MergeParam(loops[i].iter, other[i - above].iter)]]

\* A loop is inserted for the rank that records, whose nodes these still are.
InsertLoop(loops, mem, iter, ranks) ==
  <<[mem |-> Single(<<mem>>, ranks), iter |-> Single(<<iter>>, ranks)]>> \o loops

\* Trace::mergeLoopEvents and the first half of updateLoopInfo: one node.
MergeNode(merge, target) ==
  [merge EXCEPT !.count  = MergeParam(@, target.count),
                !.values = MergeParam(@, target.values),
                !.loops  = MergeLoops(@, target.loops)]

\* Mutant of HeadLoops: a loop that is found again starts over.
HeadLoopsNested(merge, target, length) ==
  InsertLoop(MergeLoops(merge.loops, target.loops), length, 2, merge.ranks)

\* updateLoopInfo for the head: a new loop of two iterations, or one more
\* iteration of the loop it already leads.
HeadLoops(merge, target, length) ==
  LET loops == MergeLoops(merge.loops, target.loops)
  IN  IF Depth(merge) = Depth(target)
      THEN InsertLoop(loops, length, 2, merge.ranks)
      ELSE [loops EXCEPT ![Depth(merge) - Depth(target)].iter = Increment(@)]

Fold(t, head) ==
  LET length == Len(t) - head + 1
      first  == head - length
      Merged(i) == MergeNode(t[i], t[i + length])
  IN  [i \in 1..(head - 1) |->
        CASE i < first -> t[i]
          [] i = first -> [Merged(i) EXCEPT !.loops = HeadLoops(t[i], t[i + length], length)]
          [] i > first -> [Merged(i) EXCEPT !.member = TRUE]]

\* The shortest repetition is found first.
FoldOnce(t) ==
  LET heads == {h \in 2..Len(t) : Foldable(t, h)}
  IN  IF heads = {} THEN t ELSE Fold(t, Max(heads))

\* Every fold removes a node, so as many folds as nodes reach the fixed point.
FastCompressLoop(t) ==
  LET folded[k \in 0..Len(t)] == IF k = 0 THEN t ELSE FoldOnce(folded[k - 1])
  IN  folded[Len(t)]

\* Trace::appendEvent: the trace with one more event.
Appended(t, node) == FastCompressLoop(Append(t, node))
=============================================================================
