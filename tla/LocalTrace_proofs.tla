-------------------------- MODULE LocalTrace_proofs --------------------------
(***************************************************************************)
(* Proofs about the compression of one rank's trace, for every program,    *)
(* every vector of values and every window: nodes and loops stay of their  *)
(* types through all folds, loops stay well nested, and what the trace     *)
(* stands for stays what was recorded.                                     *)
(***************************************************************************)
EXTENDS LocalTrace, TLAPS, SequenceTheorems, FiniteSetTheorems, WellFoundedInduction

\* What nodes are made of: one parameter value each, the rank's.
Values == [vals : Seq(Int) \ {<<>>}, ranks : {{rank}}, iters : Nat \ {0}]
Parameters == {p \in Seq(Values) : Len(p) = 1}
Scalars == {p \in Parameters : Len(p[1].vals) = 1}
LoopItems == [mem : Scalars, iter : Scalars]
Nodes ==
  [op : Ops \cup {InitOp}, ranks : {{rank}}, loops : Seq(LoopItems), member : BOOLEAN,
   count : Parameters, values : Parameters]

\* The bodies of the loops of a trace are well nested, and mark its members.
Placed(t) ==
  /\ \A l \in Loops(t) : Body(t, l) \subseteq DOMAIN t
  /\ Nested(t)
  /\ \A i \in DOMAIN t : t[i].member <=> \E l \in Loops(t) : i \in Body(t, l) \ {l[1]}
Good(t) == t \in Seq(Nodes) /\ Placed(t)

\* What is recorded, MPI_Init included.
Recorded == Vectors \cup {<<0>>}
Calls == [op : Ops \cup {InitOp}, vec : Recorded]
TInv == Good(trace) /\ history \in Seq(Calls)
-----------------------------------------------------------------------------
(* Numbers. *)

\* A set of natural numbers has a smallest element.
LEMMA Smallest ==
  ASSUME NEW S, S \subseteq Nat, S # {}
  PROVE  Min(S) \in S /\ \A j \in S : Min(S) <= j
<1>1. PICK k \in S : \A j \in S : ~(<<j, k>> \in OpToRel(<, Nat))
  BY NatLessThanWellFounded, WFMin, Zenon
<1>2. ASSUME NEW j \in S PROVE k <= j
  <2>1. k \in Nat /\ j \in Nat
    OBVIOUS
  <2>2. ASSUME j < k PROVE <<j, k>> \in OpToRel(<, Nat)
    BY <2>1, <2>2 DEF OpToRel
  <2>3. ~(j < k)
    BY <1>1, <2>2, Zenon
  <2> QED BY <2>1, <2>3
<1> QED BY <1>2 DEF Min

\* One that is bounded has a largest.
LEMMA Largest ==
  ASSUME NEW n \in Nat, NEW S, S \subseteq 0..n, S # {}
  PROVE  Max(S) \in S
<1> DEFINE T == {n - k : k \in S}
<1>1. T \subseteq Nat /\ T # {}
  <2>1. \A k \in S : k \in 0..n
    OBVIOUS
  <2>2. \A k \in 0..n : n - k \in Nat
    OBVIOUS
  <2> QED BY <2>1, <2>2
<1>2. Min(T) \in T /\ \A j \in T : Min(T) <= j
  <2> HIDE DEF T
  <2> QED BY <1>1, Smallest
<1>3. PICK k \in S : Min(T) = n - k
  BY <1>2
<1>4. \A j \in S : k >= j
  <2> SUFFICES ASSUME NEW j \in S PROVE k >= j
    OBVIOUS
  <2>1. n - k <= n - j
    BY <1>2, <1>3
  <2> QED BY <2>1
<1> QED BY <1>4 DEF Max

\* A remainder, plus one, is an index of a sequence of that length.
LEMMA RemainderRange ==
  ASSUME NEW a \in Nat, NEW n \in Nat \ {0}
  PROVE  (a % n) + 1 \in 1..n
OBVIOUS
-----------------------------------------------------------------------------
(* Parameters. *)

\* A parameter value stands for at least one value.
LEMMA ExpandTyped ==
  ASSUME NEW p \in Values
  PROVE  Expand(p) \in Seq(Int) /\ Expand(p) # <<>> /\ Len(Expand(p)) = p.iters * Len(p.vals)
<1> DEFINE n == Len(p.vals)
           m == p.iters * n
<1>1. p.vals \in Seq(Int) /\ n \in Nat \ {0} /\ p.iters \in Nat \ {0}
  BY DEF Values
<1> HIDE DEF n
<1>2. m \in Nat \ {0}
  BY <1>1
<1>3. \A i \in 1..m : p.vals[((i - 1) % n) + 1] \in Int
  <2> SUFFICES ASSUME NEW i \in 1..m PROVE p.vals[((i - 1) % n) + 1] \in Int
    OBVIOUS
  <2>1. i - 1 \in Nat
    BY <1>2
  <2>2. ((i - 1) % n) + 1 \in 1..n
    BY <1>1, <2>1, RemainderRange
  <2> QED BY <1>1, <2>2 DEF n
<1>4. Expand(p) = [i \in 1..m |-> p.vals[((i - 1) % n) + 1]]
  BY DEF Expand, n
<1>5. m = p.iters * Len(p.vals)
  BY DEF n
<1> HIDE DEF m
<1>6. Expand(p) \in Seq(Int) /\ Len(Expand(p)) = m
  BY <1>2, <1>3, <1>4
<1>7. Expand(p) # <<>>
  BY <1>2, <1>6
<1> QED BY <1>5, <1>6, <1>7

\* A sequence has a period, a divisor of its length.
LEMMA PeriodTyped ==
  ASSUME NEW s \in Seq(Int), s # <<>>
  PROVE  /\ Period(s) \in 1..Len(s)
         /\ Len(s) % Period(s) = 0
         /\ \A i \in 1..Len(s) : s[i] = s[((i - 1) % Period(s)) + 1]
<1> DEFINE Repeats(len) == /\ Len(s) % len = 0
                           /\ \A i \in 1..Len(s) : s[i] = s[((i - 1) % len) + 1]
           n == Len(s)
           S == {len \in 1..(n \div 2) : Repeats(len)} \cup {n}
<1>1. n \in Nat \ {0} /\ n \div 2 \in 0..n
  OBVIOUS
<1>2. S \subseteq Nat /\ S # {} /\ S \subseteq 1..n
  <2> HIDE DEF Repeats, n
  <2> QED BY <1>1
<1>3. Min(S) \in S
  <2> HIDE DEF S
  <2> QED BY <1>2, Smallest
<1>4. Repeats(n)
  <2>1. n % n = 0
    BY <1>1
  <2>2. ASSUME NEW i \in 1..n PROVE ((i - 1) % n) + 1 = i
    BY <1>1
  <2> QED BY <2>1, <2>2
<1>5. Repeats(Min(S))
  <2> HIDE DEF Repeats, n
  <2> QED BY <1>3, <1>4
<1>6. Period(s) = Min(S)
  BY DEF Period
<1> HIDE DEF S
<1> QED BY <1>2, <1>3, <1>5, <1>6

\* Merging in time what a rank saw.
LEMMA ThenTyped ==
  ASSUME NEW p \in Values, NEW q \in Values
  PROVE  Then(p, q) \in Values /\ (p.vals = q.vals => Then(p, q).vals = p.vals)
<1>1. CASE p.vals = q.vals
  <2>1. p.iters + q.iters \in Nat \ {0}
    BY DEF Values
  <2>2. Then(p, q) = [vals |-> p.vals, ranks |-> p.ranks, iters |-> p.iters + q.iters]
    BY <1>1 DEF Then, Values
  <2> QED BY <2>1, <2>2 DEF Values
<1>2. CASE p.vals # q.vals
  <2> DEFINE s == Expand(p) \o Expand(q)
             len == Period(s)
  <2>1. s \in Seq(Int) /\ s # <<>>
    <3>1. Expand(p) \in Seq(Int) /\ Expand(p) # <<>> /\ Expand(q) \in Seq(Int)
      BY ExpandTyped
    <3> HIDE DEF s
    <3>2. s = Expand(p) \o Expand(q)
      BY DEF s
    <3> QED BY <3>1, <3>2
  <2>2. Then(p, q) = [vals |-> SubSeq(s, 1, len), ranks |-> p.ranks, iters |-> Len(s) \div len]
    BY <1>2 DEF Then, Compressed
  <2> HIDE DEF s
  <2>3. len \in 1..Len(s)
    BY <2>1, PeriodTyped
  <2> HIDE DEF len
  <2>4. Len(s) \in Nat /\ Len(s) \div len \in Nat \ {0}
    BY <2>1, <2>3
  <2>5. SubSeq(s, 1, len) \in Seq(Int) /\ Len(SubSeq(s, 1, len)) = len
    BY <2>1, <2>3, <2>4
  <2>6. SubSeq(s, 1, len) # <<>>
    BY <2>3, <2>5
  <2>7. p.ranks \in {{rank}}
    BY DEF Values
  <2> QED BY <1>2, <2>2, <2>4, <2>5, <2>6, <2>7 DEF Values
<1> QED BY <1>1, <1>2

\* What a parameter and a scalar are.
LEMMA ParameterTyped ==
  ASSUME NEW a \in Parameters
  PROVE  /\ a \in Seq(Values) /\ Len(a) = 1 /\ a[1] \in Values /\ a[1].ranks = {rank}
         /\ a[1].vals \in Seq(Int) /\ a[1].vals # <<>> /\ a[1].iters \in Nat \ {0}
         /\ a \in Scalars <=> Len(a[1].vals) = 1
<1>1. a \in Seq(Values) /\ Len(a) = 1
  BY DEF Parameters
<1>2. a[1] \in Values
  BY <1>1
<1>3. a[1].ranks = {rank} /\ a[1].vals \in Seq(Int) /\ a[1].vals # <<>> /\ a[1].iters \in Nat \ {0}
  BY <1>2 DEF Values
<1> QED BY <1>1, <1>2, <1>3 DEF Scalars

\* Merging parameters of one rank leaves one value; equal values stay.
LEMMA MergeTyped ==
  ASSUME NEW a \in Parameters, NEW b \in Parameters
  PROVE  /\ MergeParam(a, b) = <<Then(a[1], b[1])>>
         /\ MergeParam(a, b) \in Parameters
         /\ a[1].vals = b[1].vals => MergeParam(a, b)[1].vals = a[1].vals
<1>1. Len(a) = 1 /\ Len(b) = 1 /\ a[1] \in Values /\ b[1] \in Values
  BY ParameterTyped
<1>2. a[1].ranks = b[1].ranks
  BY ParameterTyped
<1>3. MergeParam(a, b) = <<Then(a[1], b[1])>>
  BY <1>1, <1>2 DEF MergeParam
<1>4. Then(a[1], b[1]) \in Values /\ (a[1].vals = b[1].vals => Then(a[1], b[1]).vals = a[1].vals)
  BY <1>1, ThenTyped
<1> QED BY <1>3, <1>4 DEF Parameters

\* Scalars that agree stay what they are.
LEMMA MergeScalars ==
  ASSUME NEW a \in Scalars, NEW b \in Scalars, Scalar(a) = Scalar(b)
  PROVE  MergeParam(a, b) \in Scalars /\ Scalar(MergeParam(a, b)) = Scalar(a)
<1>1. /\ a \in Parameters /\ b \in Parameters
      /\ a[1].vals \in Seq(Int) /\ b[1].vals \in Seq(Int)
      /\ Len(a[1].vals) = 1 /\ Len(b[1].vals) = 1
  <2>1. a \in Parameters /\ b \in Parameters
    BY DEF Scalars
  <2> QED BY <2>1, ParameterTyped
<1>2. a[1].vals = b[1].vals
  BY <1>1 DEF Scalar
<1>3. MergeParam(a, b) \in Parameters /\ MergeParam(a, b)[1].vals = a[1].vals
  BY <1>1, <1>2, MergeTyped
<1> QED BY <1>1, <1>3 DEF Scalars, Scalar

\* A scalar can be counted up.
LEMMA IncrementTyped == ASSUME NEW a \in Scalars PROVE Increment(a) \in Scalars /\ Scalar(Increment(a)) = Scalar(a) + 1
<1>1. /\ a \in Seq(Values) /\ Len(a) = 1 /\ a[1] \in Values /\ a[1].vals \in Seq(Int) /\ Len(a[1].vals) = 1
      /\ a[1].vals[1] \in Int
  <2>1. a \in Parameters
    BY DEF Scalars
  <2>2. /\ a \in Seq(Values) /\ Len(a) = 1 /\ a[1] \in Values /\ a[1].vals \in Seq(Int) /\ Len(a[1].vals) = 1
    BY <2>1, ParameterTyped
  <2> QED BY <2>2
<1> DEFINE x == [a[1].vals EXCEPT ![1] = @ + 1]
           v == [a[1] EXCEPT !.vals = x]
<1>2. x \in Seq(Int) /\ Len(x) = 1 /\ x[1] = a[1].vals[1] + 1
  BY <1>1
<1>3. Increment(a) = [a EXCEPT ![1] = v]
  BY <1>1 DEF Increment
<1> HIDE DEF x
<1>4. v \in Values /\ v.vals = x
  <2>1. x # <<>>
    BY <1>2, EmptySeq
  <2>2. a[1] \in [vals : Seq(Int) \ {<<>>}, ranks : {{rank}}, iters : Nat \ {0}]
    BY <1>1 DEF Values
  <2>3. v = [vals |-> x, ranks |-> a[1].ranks, iters |-> a[1].iters]
    BY <2>2
  <2> QED BY <1>2, <2>1, <2>2, <2>3 DEF Values
<1> HIDE DEF v
<1>5. Increment(a) \in Seq(Values) /\ Len(Increment(a)) = 1 /\ Increment(a)[1] = v
  BY <1>1, <1>3, <1>4
<1> QED BY <1>2, <1>4, <1>5 DEF Scalars, Parameters, Scalar
-----------------------------------------------------------------------------
(* Loops. *)

\* What the merge of two loop stacks leaves, when the loops merged agree.
LEMMA LoopsMerged ==
  ASSUME NEW loops \in Seq(LoopItems), NEW other \in Seq(LoopItems), Len(other) <= Len(loops),
         \A c \in 0..(Len(other) - 1) :
           /\ Scalar(loops[Len(loops) - c].mem) = Scalar(other[Len(other) - c].mem)
           /\ Scalar(loops[Len(loops) - c].iter) = Scalar(other[Len(other) - c].iter)
  PROVE  /\ MergeLoops(loops, other) \in Seq(LoopItems) /\ Len(MergeLoops(loops, other)) = Len(loops)
         /\ \A d \in 1..Len(loops) : /\ Scalar(MergeLoops(loops, other)[d].mem) = Scalar(loops[d].mem)
                                     /\ Scalar(MergeLoops(loops, other)[d].iter) = Scalar(loops[d].iter)
<1> DEFINE m == Len(loops)
           n == Len(other)
           G(i) == IF i <= m - n THEN loops[i]
                   ELSE [mem  |-> MergeParam(loops[i].mem, other[i - (m - n)].mem),
                         iter |-> MergeParam(loops[i].iter, other[i - (m - n)].iter)]
<1>1. m \in Nat /\ n \in Nat /\ n <= m /\ DOMAIN loops = 1..m
  OBVIOUS
<1>2. MergeLoops(loops, other) = [i \in 1..m |-> G(i)]
  BY DEF MergeLoops
<1>3. ASSUME NEW i \in 1..m
      PROVE  G(i) \in LoopItems /\ Scalar(G(i).mem) = Scalar(loops[i].mem) /\ Scalar(G(i).iter) = Scalar(loops[i].iter)
  <2>1. loops[i] \in LoopItems
    BY <1>1
  <2>2. CASE i <= m - n
    BY <2>1, <2>2
  <2>3. CASE ~(i <= m - n)
    <3> DEFINE k == i - (m - n)
               c == m - i
    <3>1. k \in 1..n /\ c \in 0..(n - 1) /\ m - c = i /\ n - c = k
      BY <1>1, <2>3
    <3>2. other[k] \in LoopItems
      BY <3>1
    <3>3. Scalar(loops[i].mem) = Scalar(other[k].mem) /\ Scalar(loops[i].iter) = Scalar(other[k].iter)
      <4> HIDE DEF k, c
      <4> QED BY <3>1
    <3>4. G(i) = [mem |-> MergeParam(loops[i].mem, other[k].mem), iter |-> MergeParam(loops[i].iter, other[k].iter)]
      BY <2>3
    <3> HIDE DEF k, c, G, m, n
    <3>5. loops[i].mem \in Scalars /\ loops[i].iter \in Scalars /\ other[k].mem \in Scalars /\ other[k].iter \in Scalars
      BY <2>1, <3>2 DEF LoopItems
    <3>6. /\ MergeParam(loops[i].mem, other[k].mem) \in Scalars
          /\ Scalar(MergeParam(loops[i].mem, other[k].mem)) = Scalar(loops[i].mem)
      BY <3>3, <3>5, MergeScalars
    <3>7. /\ MergeParam(loops[i].iter, other[k].iter) \in Scalars
          /\ Scalar(MergeParam(loops[i].iter, other[k].iter)) = Scalar(loops[i].iter)
      BY <3>3, <3>5, MergeScalars
    <3> QED BY <3>4, <3>6, <3>7 DEF LoopItems
  <2> QED BY <2>2, <2>3
<1> HIDE DEF G, m
<1>4. MergeLoops(loops, other) \in Seq(LoopItems) /\ Len(MergeLoops(loops, other)) = m
  BY <1>1, <1>2, <1>3
<1>5. \A d \in 1..m : MergeLoops(loops, other)[d] = G(d)
  BY <1>2
<1> QED BY <1>3, <1>4, <1>5 DEF m

\* A loop of two iterations around what a node leads.
LEMMA LoopInserted ==
  ASSUME NEW loops \in Seq(LoopItems), NEW mem \in Int
  PROVE  LET new == InsertLoop(loops, mem, 2, {rank})
         IN  /\ new \in Seq(LoopItems) /\ Len(new) = Len(loops) + 1 /\ Scalar(new[1].mem) = mem /\ Scalar(new[1].iter) = 2
             /\ \A d \in 1..Len(loops) : new[d + 1] = loops[d]
<1> DEFINE item == [mem |-> Single(<<mem>>, {rank}), iter |-> Single(<<2>>, {rank})]
           new == InsertLoop(loops, mem, 2, {rank})
<1>1. \A x \in Int : Single(<<x>>, {rank}) \in Scalars /\ Scalar(Single(<<x>>, {rank})) = x
  <2> TAKE x \in Int
  <2> DEFINE v == [vals |-> <<x>>, ranks |-> {rank}, iters |-> 1]
  <2>1. <<x>> \in Seq(Int) /\ Len(<<x>>) = 1 /\ <<x>> # <<>> /\ <<x>>[1] = x
    OBVIOUS
  <2>2. v \in Values
    BY <2>1 DEF Values
  <2>3. v.vals = <<x>>
    OBVIOUS
  <2>4. Single(<<x>>, {rank}) = <<v>>
    BY DEF Single
  <2> HIDE DEF v
  <2>5. <<v>> \in Seq(Values) /\ Len(<<v>>) = 1 /\ <<v>>[1] = v
    BY <2>2
  <2> QED BY <2>1, <2>3, <2>4, <2>5 DEF Scalars, Parameters, Scalar
<1>2. item \in LoopItems /\ Scalar(item.mem) = mem /\ Scalar(item.iter) = 2
  <2>1. Single(<<mem>>, {rank}) \in Scalars /\ Scalar(Single(<<mem>>, {rank})) = mem
    BY <1>1
  <2>2. Single(<<2>>, {rank}) \in Scalars /\ Scalar(Single(<<2>>, {rank})) = 2
    <3>1. 2 \in Int
      OBVIOUS
    <3> QED BY <1>1, <3>1, Zenon
  <2> QED BY <2>1, <2>2 DEF LoopItems
<1>3. new = <<item>> \o loops
  BY DEF InsertLoop
<1> HIDE DEF item, new
<1>4. new \in Seq(LoopItems) /\ Len(new) = Len(loops) + 1 /\ new[1] = item /\ \A d \in 1..Len(loops) : new[d + 1] = loops[d]
  BY <1>2, <1>3
<1> QED BY <1>2, <1>4 DEF new

\* What the loops of a node are.
LEMMA NodeTyped ==
  ASSUME NEW node \in Nodes
  PROVE  /\ node.loops \in Seq(LoopItems) /\ Depth(node) = Len(node.loops) /\ Depth(node) \in Nat
         /\ node.count \in Parameters /\ node.values \in Parameters /\ node.ranks = {rank}
         /\ node.op \in Ops \cup {InitOp} /\ node.member \in BOOLEAN
         /\ node = [op |-> node.op, ranks |-> node.ranks, loops |-> node.loops, member |-> node.member,
                    count |-> node.count, values |-> node.values]
<1>1. node.loops \in Seq(LoopItems)
  BY DEF Nodes
<1> QED BY <1>1 DEF Nodes, Depth

\* The loops of the target's node agree with the innermost ones of the node it is
\* merged into.
LEMMA Agreeing ==
  ASSUME NEW merge \in Nodes, NEW target \in Nodes, NEW depth \in Nat, NEW length,
         LoopMatch(merge, target, depth, length), depth >= Depth(target)
  PROVE  /\ MergeLoops(merge.loops, target.loops) \in Seq(LoopItems)
         /\ Len(MergeLoops(merge.loops, target.loops)) = Depth(merge)
         /\ \A d \in 1..Depth(merge) :
              /\ Scalar(MergeLoops(merge.loops, target.loops)[d].mem) = Scalar(merge.loops[d].mem)
              /\ Scalar(MergeLoops(merge.loops, target.loops)[d].iter) = Scalar(merge.loops[d].iter)
         /\ Depth(merge) = Depth(target) \/ Depth(merge) = Depth(target) + 1
<1> DEFINE a == merge.loops
           b == target.loops
<1>1. a \in Seq(LoopItems) /\ b \in Seq(LoopItems) /\ Depth(merge) = Len(a) /\ Depth(target) = Len(b)
      /\ Len(a) \in Nat /\ Len(b) \in Nat
  BY NodeTyped
<1>2. /\ Len(a) - Len(b) \in {0, 1} /\ depth = Len(b)
      /\ \A c \in 0..(depth - 1) : /\ Scalar(a[Len(a) - c].mem) = Scalar(b[Len(b) - c].mem)
                                 /\ Scalar(a[Len(a) - c].iter) = Scalar(b[Len(b) - c].iter)
  BY <1>1 DEF LoopMatch
<1> HIDE DEF a, b
<1>3. Len(b) <= Len(a) /\ (Len(a) = Len(b) \/ Len(a) = Len(b) + 1)
  BY <1>1, <1>2
<1>4. /\ MergeLoops(a, b) \in Seq(LoopItems) /\ Len(MergeLoops(a, b)) = Len(a)
      /\ \A d \in 1..Len(a) : /\ Scalar(MergeLoops(a, b)[d].mem) = Scalar(a[d].mem)
                            /\ Scalar(MergeLoops(a, b)[d].iter) = Scalar(a[d].iter)
  BY <1>1, <1>2, <1>3, LoopsMerged
<1> QED BY <1>1, <1>3, <1>4 DEF a, b

\* A merged node.
LEMMA NodeMerged ==
  ASSUME NEW merge \in Nodes, NEW target \in Nodes, NEW depth \in Nat, NEW length,
         LoopMatch(merge, target, depth, length), depth >= Depth(target)
  PROVE  LET new == MergeNode(merge, target)
         IN  /\ new \in Nodes /\ new.member = merge.member /\ Depth(new) = Depth(merge) /\ new.op = merge.op
             /\ new.count = MergeParam(merge.count, target.count)
             /\ new.values = MergeParam(merge.values, target.values)
             /\ \A d \in 1..Depth(merge) : Scalar(new.loops[d].mem) = Scalar(merge.loops[d].mem)
<1> DEFINE l == MergeLoops(merge.loops, target.loops)
           c == MergeParam(merge.count, target.count)
           v == MergeParam(merge.values, target.values)
           new == MergeNode(merge, target)
<1>1. /\ l \in Seq(LoopItems) /\ Len(l) = Depth(merge)
      /\ \A d \in 1..Depth(merge) : Scalar(l[d].mem) = Scalar(merge.loops[d].mem)
  BY Agreeing
<1>2. c \in Parameters /\ v \in Parameters
  BY NodeTyped, MergeTyped
<1>3. new = [merge EXCEPT !.count = c, !.values = v, !.loops = l]
  BY NodeTyped DEF MergeNode
<1> HIDE DEF l, c, v, new
<1>4. new = [op |-> merge.op, ranks |-> merge.ranks, loops |-> l, member |-> merge.member, count |-> c, values |-> v]
  BY <1>3 DEF Nodes
<1>5. merge.op \in Ops \cup {InitOp} /\ merge.ranks = {rank} /\ merge.member \in BOOLEAN
  BY NodeTyped
<1>6. new \in Nodes
  BY <1>1, <1>2, <1>4, <1>5 DEF Nodes
<1>7. new.member = merge.member /\ new.loops = l /\ new.op = merge.op /\ new.count = c /\ new.values = v
  BY <1>4
<1> QED BY <1>1, <1>6, <1>7 DEF Depth, new, c, v

\* The loops of a body's head: one more, or those it had.
LEMMA HeadMerged ==
  ASSUME NEW merge \in Nodes, NEW target \in Nodes, NEW length \in Int,
         LoopMatch(merge, target, Depth(target), length)
  PROVE  LET new == HeadLoops(merge, target, length)
             old == merge.loops
         IN  /\ new \in Seq(LoopItems) /\ Len(new) >= 1 /\ Scalar(new[1].mem) = length
             /\ \/ Len(new) = Len(old) + 1 /\ \A d \in 1..Len(old) : Scalar(new[d + 1].mem) = Scalar(old[d].mem)
                \/ Len(new) = Len(old) /\ \A d \in 1..Len(old) : Scalar(new[d].mem) = Scalar(old[d].mem)
<1> DEFINE l == MergeLoops(merge.loops, target.loops)
           old == merge.loops
           new == HeadLoops(merge, target, length)
<1>1. /\ old \in Seq(LoopItems) /\ Depth(merge) = Len(old) /\ Len(old) \in Nat /\ merge.ranks = {rank}
      /\ Depth(target) \in Nat
  BY NodeTyped
<1>2. /\ l \in Seq(LoopItems) /\ Len(l) = Len(old)
      /\ \A d \in 1..Len(old) : Scalar(l[d].mem) = Scalar(old[d].mem)
      /\ Len(old) = Depth(target) \/ Len(old) = Depth(target) + 1
  BY <1>1, Agreeing
<1>3. CASE Len(old) = Depth(target)
  <2>1. new = InsertLoop(l, length, 2, {rank})
    BY <1>1, <1>3 DEF HeadLoops
  <2> HIDE DEF l, new, old
  <2>2. /\ new \in Seq(LoopItems) /\ Len(new) = Len(l) + 1 /\ Scalar(new[1].mem) = length
        /\ \A d \in 1..Len(l) : new[d + 1] = l[d]
    BY <1>2, <2>1, LoopInserted
  <2> QED BY <1>1, <1>2, <2>2 DEF new, old
<1>4. CASE Len(old) = Depth(target) + 1
  <2>0. Depth(merge) # Depth(target) /\ Depth(merge) - Depth(target) = 1
    BY <1>1, <1>4
  <2>1. new = [l EXCEPT ![1].iter = Increment(@)]
    BY <2>0 DEF HeadLoops
  <2>2. Scalar(old[1].mem) = length
    BY <1>1, <1>4 DEF LoopMatch
  <2> HIDE DEF l, new, old
  <2>3. 1 \in 1..Len(l) /\ l[1] \in LoopItems /\ l[1].iter \in Scalars /\ l[1].mem \in Scalars
    <3>1. 1 \in 1..Len(l)
      BY <1>1, <1>2, <1>4
    <3>2. l[1] \in LoopItems
      BY <1>2, <3>1
    <3> QED BY <3>1, <3>2 DEF LoopItems
  <2> DEFINE x == [l[1] EXCEPT !.iter = Increment(@)]
  <2>4. x \in LoopItems /\ x.mem = l[1].mem
    <3>1. Increment(l[1].iter) \in Scalars
      BY <2>3, IncrementTyped
    <3> QED BY <2>3, <3>1 DEF LoopItems
  <2>5. new = [l EXCEPT ![1] = x]
    BY <2>1, <2>3
  <2> HIDE DEF x
  <2>6. new \in Seq(LoopItems) /\ Len(new) = Len(l) /\ \A d \in 1..Len(l) : new[d].mem = l[d].mem
    BY <1>2, <2>3, <2>4, <2>5
  <2> QED BY <1>1, <1>2, <2>2, <2>3, <2>6 DEF new, old
<1> QED BY <1>2, <1>3, <1>4
-----------------------------------------------------------------------------
(* Folds. *)

\* The trace u after a fold at head, node by node: the nodes before first stay,
\* those from first on are merged with those from head on, which they match.
ByNode(t, head, u) ==
  LET length == Len(t) - head + 1
      first == head - length
  IN  /\ length \in Nat \ {0} /\ first \in 1..(head - 1) /\ first + length = head /\ Len(t) = head + length - 1
      /\ ~t[head].member /\ ~t[first].member
      /\ u = [i \in 1..(head - 1) |-> u[i]]
      /\ \A i \in 1..(first - 1) : u[i] = t[i]
      /\ u[first] = [MergeNode(t[first], t[head]) EXCEPT !.loops = HeadLoops(t[first], t[head], length)]
      /\ \A i \in (first + 1)..(head - 1) :
           u[i] = [MergeNode(t[i], t[i + length]) EXCEPT !.member = TRUE]
      /\ \A i \in first..(head - 1) : t[i].op = t[i + length].op /\ i \in 1..Len(t) /\ i + length \in head..Len(t)
      /\ LoopMatch(t[first], t[head], Depth(t[head]), length)
      /\ \A i \in (first + 1)..(head - 1) : LoopMatch(t[i], t[i + length], Depth(t[i]), length)

\* Fold leaves such a trace.
LEMMA FoldByNode ==
  ASSUME NEW t \in Seq(Nodes), NEW head \in 2..Len(t), Foldable(t, head)
  PROVE  ByNode(t, head, Fold(t, head))
<1> DEFINE length == Len(t) - head + 1
           first == head - length
           n == Len(t)
           u == Fold(t, head)
           Merged(i) == MergeNode(t[i], t[i + length])
           G(i) == CASE i < first -> t[i]
                     [] i = first -> [Merged(i) EXCEPT !.loops = HeadLoops(t[i], t[i + length], length)]
                     [] i > first -> [Merged(i) EXCEPT !.member = TRUE]
<1>1. n \in Nat /\ head \in Nat /\ length \in Nat /\ length >= 1 /\ first \in Int /\ head <= n
      /\ first + length = head /\ n = head + length - 1
  OBVIOUS
<1>2. first >= 1 /\ first < head /\ ~t[head].member /\ ~t[first].member
  <2>1. first >= 1 /\ ~t[head].member /\ ~t[first].member
    BY DEF Foldable, Candidate
  <2> HIDE DEF length
  <2> QED BY <1>1, <2>1
<1>3. MatchLoop(t, length)
  BY DEF Foldable
<1>4. u = [i \in 1..(head - 1) |-> G(i)]
  BY DEF Fold
<1> HIDE DEF u, n, length, first
<1>5. \A i \in first..(head - 1) :
        LET j == i + length
        IN  /\ j \in (n - length + 1)..n /\ j - length = i /\ i \in 1..n /\ j \in head..n
            /\ j = n - length + 1 <=> i = first
  BY <1>1, <1>2
<1>6. ASSUME NEW i \in first..(head - 1)
      PROVE  LET j == i + length
             IN  t[i].op = t[j].op /\ LoopMatch(t[i], t[j], IF i = first THEN Depth(t[j]) ELSE Depth(t[i]), length)
  <2> DEFINE j == i + length
  <2>1. j \in (n - length + 1)..n /\ j - length = i /\ (j = n - length + 1 <=> i = first)
    BY <1>5
  <2> HIDE DEF j
  <2>2. /\ t[j - length].op = t[j].op
        /\ LoopMatch(t[j - length], t[j], IF j = n - length + 1 THEN Depth(t[j]) ELSE Depth(t[j - length]), length)
    BY <1>3, <2>1 DEF MatchLoop, n
  <2>3. t[i].op = t[j].op /\ LoopMatch(t[i], t[j], IF i = first THEN Depth(t[j]) ELSE Depth(t[i]), length)
    BY <2>1, <2>2
  <2> QED BY <2>3 DEF j
<1>7. LoopMatch(t[first], t[head], Depth(t[head]), length)
  <2>1. first \in first..(head - 1)
    BY <1>1, <1>2
  <2> QED BY <1>1, <1>6, <2>1
<1>8. ASSUME NEW i \in (first + 1)..(head - 1) PROVE LoopMatch(t[i], t[i + length], Depth(t[i]), length)
  <2>1. i \in first..(head - 1) /\ i # first
    BY <1>1, <1>2
  <2> QED BY <1>6, <2>1
<1>9. \A i \in 1..(head - 1) : u[i] = G(i)
  BY <1>4
<1>10. \A i \in 1..(first - 1) : u[i] = t[i]
  <2> TAKE i \in 1..(first - 1)
  <2>1. i < first /\ i # first /\ ~(i > first) /\ i \in 1..(head - 1)
    BY <1>1, <1>2
  <2>2. G(i) = t[i]
    BY <2>1
  <2> HIDE DEF G
  <2> QED BY <1>9, <2>1, <2>2
<1>11. u[first] = [MergeNode(t[first], t[head]) EXCEPT !.loops = HeadLoops(t[first], t[head], length)]
  <2>1. ~(first < first) /\ ~(first > first) /\ first \in 1..(head - 1)
    BY <1>1, <1>2
  <2>2. G(first) = [Merged(first) EXCEPT !.loops = HeadLoops(t[first], t[first + length], length)]
    BY <2>1
  <2> HIDE DEF G
  <2>3. u[first] = G(first)
    BY <1>9, <2>1
  <2> QED BY <1>1, <2>2, <2>3
<1>12. \A i \in (first + 1)..(head - 1) : u[i] = [MergeNode(t[i], t[i + length]) EXCEPT !.member = TRUE]
  <2> TAKE i \in (first + 1)..(head - 1)
  <2>1. i > first /\ i # first /\ ~(i < first) /\ i \in 1..(head - 1)
    BY <1>1, <1>2
  <2>2. G(i) = [MergeNode(t[i], t[i + length]) EXCEPT !.member = TRUE]
    BY <2>1
  <2> HIDE DEF G
  <2> QED BY <1>9, <2>1, <2>2
<1> HIDE DEF G
<1>13. u = [i \in 1..(head - 1) |-> u[i]]
  BY <1>4
<1>14. first \in 1..(head - 1) /\ length \in Nat \ {0}
  BY <1>1, <1>2
<1>15. Len(t) = head + length - 1
  BY <1>1 DEF n
<1>16. \A i \in first..(head - 1) : t[i].op = t[i + length].op /\ i \in 1..Len(t) /\ i + length \in head..Len(t)
  BY <1>5, <1>6 DEF n
<1>17. first + length = head
  BY <1>1
<1> QED BY <1>2, <1>7, <1>8, <1>10, <1>11, <1>12, <1>13, <1>14, <1>15, <1>16, <1>17 DEF ByNode, u, length, first

\* The trace u after a fold at head: the nodes from head on are gone, and as many
\* before them, from first on, are the body of a loop that first leads.
Folded(t, head, u) ==
  LET first == 2 * head - Len(t) - 1
  IN  /\ first \in 1..(head - 1)
      /\ u \in Seq(Nodes) /\ Len(u) = head - 1
      /\ ~t[head].member /\ ~t[first].member
      /\ \A i \in 1..(first - 1) : u[i] = t[i]
      /\ \A i \in (first + 1)..(head - 1) :
           /\ u[i].member /\ Depth(u[i]) = Depth(t[i])
           /\ \A d \in 1..Depth(t[i]) : Scalar(u[i].loops[d].mem) = Scalar(t[i].loops[d].mem)
      /\ ~u[first].member /\ Depth(u[first]) >= 1
      /\ Scalar(u[first].loops[1].mem) = head - first
      /\ \/ /\ Depth(u[first]) = Depth(t[first]) + 1
            /\ \A d \in 1..Depth(t[first]) : Scalar(u[first].loops[d + 1].mem) = Scalar(t[first].loops[d].mem)
         \/ /\ Depth(u[first]) = Depth(t[first])
            /\ \A d \in 1..Depth(t[first]) : Scalar(u[first].loops[d].mem) = Scalar(t[first].loops[d].mem)

\* So it is after Fold: the matched loops have the same lengths.
LEMMA FoldFolds ==
  ASSUME NEW t \in Seq(Nodes), NEW head \in 2..Len(t), Foldable(t, head)
  PROVE  Folded(t, head, Fold(t, head))
<1> DEFINE length == Len(t) - head + 1
           first == head - length
           u == Fold(t, head)
<1>1. /\ length \in Nat \ {0} /\ first \in 1..(head - 1) /\ first + length = head /\ Len(t) = head + length - 1
      /\ ~t[head].member /\ ~t[first].member
      /\ u = [i \in 1..(head - 1) |-> u[i]]
      /\ \A i \in 1..(first - 1) : u[i] = t[i]
      /\ u[first] = [MergeNode(t[first], t[head]) EXCEPT !.loops = HeadLoops(t[first], t[head], length)]
      /\ \A i \in (first + 1)..(head - 1) : u[i] = [MergeNode(t[i], t[i + length]) EXCEPT !.member = TRUE]
      /\ \A i \in first..(head - 1) : i \in 1..Len(t) /\ i + length \in head..Len(t)
      /\ LoopMatch(t[first], t[head], Depth(t[head]), length)
      /\ \A i \in (first + 1)..(head - 1) : LoopMatch(t[i], t[i + length], Depth(t[i]), length)
  <2>1. ByNode(t, head, u)
    BY FoldByNode
  <2> HIDE DEF u
  <2> QED BY <2>1 DEF ByNode
<1>2. \A i \in 1..Len(t) : t[i] \in Nodes
  OBVIOUS
<1>3. head \in Nat /\ head - 1 \in Nat
  OBVIOUS
<1> HIDE DEF u, first, length
<1>4. \A i \in first..(head - 1) : t[i] \in Nodes /\ t[i + length] \in Nodes
  <2> TAKE i \in first..(head - 1)
  <2>1. i \in 1..Len(t) /\ i + length \in head..Len(t)
    BY <1>1
  <2>2. i + length \in 1..Len(t)
    BY <1>3, <2>1
  <2> QED BY <1>2, <2>1, <2>2
<1>5. ASSUME NEW i \in (first + 1)..(head - 1)
      PROVE  /\ u[i] \in Nodes /\ u[i].member /\ Depth(u[i]) = Depth(t[i])
             /\ \A d \in 1..Depth(t[i]) : Scalar(u[i].loops[d].mem) = Scalar(t[i].loops[d].mem)
  <2> DEFINE new == MergeNode(t[i], t[i + length])
  <2>1. i \in first..(head - 1)
    BY <1>1
  <2>2. t[i] \in Nodes /\ t[i + length] \in Nodes
    BY <1>4, <2>1
  <2>3. Depth(t[i]) \in Nat /\ Depth(t[i]) >= Depth(t[i + length])
    <3>1. Depth(t[i]) \in Nat /\ Depth(t[i + length]) \in Nat
      BY <2>2, NodeTyped
    <3>2. LoopMatch(t[i], t[i + length], Depth(t[i]), length)
      BY <1>1
    <3>3. Depth(t[i]) - Depth(t[i + length]) \in {0, 1}
      BY <3>2 DEF LoopMatch
    <3> QED BY <3>1, <3>3
  <2>4. /\ new \in Nodes /\ Depth(new) = Depth(t[i])
        /\ \A d \in 1..Depth(t[i]) : Scalar(new.loops[d].mem) = Scalar(t[i].loops[d].mem)
    BY <1>1, <2>2, <2>3, NodeMerged
  <2>5. u[i] = [new EXCEPT !.member = TRUE]
    BY <1>1
  <2> HIDE DEF new
  <2>6. u[i] \in Nodes /\ u[i].member /\ u[i].loops = new.loops
    BY <2>4, <2>5 DEF Nodes
  <2> QED BY <2>4, <2>6 DEF Depth
<1>6. LET v == u[first]
      IN  /\ v \in Nodes /\ ~v.member /\ Depth(v) >= 1 /\ Scalar(v.loops[1].mem) = length
          /\ \/ /\ Depth(v) = Depth(t[first]) + 1
                /\ \A d \in 1..Depth(t[first]) : Scalar(v.loops[d + 1].mem) = Scalar(t[first].loops[d].mem)
             \/ /\ Depth(v) = Depth(t[first])
                /\ \A d \in 1..Depth(t[first]) : Scalar(v.loops[d].mem) = Scalar(t[first].loops[d].mem)
  <2> DEFINE new == MergeNode(t[first], t[head])
             loops == HeadLoops(t[first], t[head], length)
             v == u[first]
  <2>1. t[first] \in Nodes /\ t[head] \in Nodes /\ length \in Int
    <3>1. first \in first..(head - 1)
      BY <1>1, <1>3
    <3> QED BY <1>1, <1>4, <3>1
  <2>2. Depth(t[head]) \in Nat
    BY <2>1, NodeTyped
  <2>3. new \in Nodes /\ new.member = t[first].member
    BY <1>1, <2>1, <2>2, NodeMerged
  <2>4. v = [new EXCEPT !.loops = loops]
    BY <1>1
  <2>5. /\ loops \in Seq(LoopItems) /\ Len(loops) >= 1 /\ Scalar(loops[1].mem) = length
        /\ \/ Len(loops) = Len(t[first].loops) + 1
              /\ \A d \in 1..Len(t[first].loops) : Scalar(loops[d + 1].mem) = Scalar(t[first].loops[d].mem)
           \/ Len(loops) = Len(t[first].loops)
              /\ \A d \in 1..Len(t[first].loops) : Scalar(loops[d].mem) = Scalar(t[first].loops[d].mem)
    <3>1. LoopMatch(t[first], t[head], Depth(t[head]), length)
      BY <1>1
    <3> QED BY <2>1, <3>1, HeadMerged
  <2> HIDE DEF new, loops, v
  <2>6. v \in Nodes /\ v.loops = loops /\ v.member = new.member
    BY <2>3, <2>4, <2>5 DEF Nodes
  <2> QED BY <1>1, <2>3, <2>5, <2>6 DEF Depth, v
<1>7. u \in Seq(Nodes) /\ Len(u) = head - 1
  <2>1. \A i \in 1..(head - 1) : u[i] \in Nodes
    <3> TAKE i \in 1..(head - 1)
    <3>1. i \in 1..(first - 1) \/ i = first \/ i \in (first + 1)..(head - 1)
      BY <1>1, <1>3
    <3>2. CASE i \in 1..(first - 1)
      <4>1. first \in Int /\ length \in Nat /\ first < head /\ Len(t) >= head
        BY <1>1, <1>3
      <4>2. i \in 1..Len(t)
        BY <1>3, <3>2, <4>1
      <4>3. u[i] = t[i]
        BY <1>1, <3>2
      <4> QED BY <1>2, <4>2, <4>3
    <3>3. CASE i = first
      BY <1>6, <3>3
    <3>4. CASE i \in (first + 1)..(head - 1)
      BY <1>5, <3>4
    <3> QED BY <3>1, <3>2, <3>3, <3>4
  <2>2. u = [i \in 1..(head - 1) |-> u[i]]
    BY <1>1
  <2> QED BY <1>3, <2>1, <2>2
<1>8. first = 2 * head - Len(t) - 1 /\ length = head - first
  BY <1>1, <1>3
<1>9. first \in 1..(head - 1) /\ ~t[head].member /\ ~t[first].member
  BY <1>1
<1>10. \A i \in 1..(first - 1) : u[i] = t[i]
  BY <1>1
<1>11. \A i \in (first + 1)..(head - 1) :
         /\ u[i].member /\ Depth(u[i]) = Depth(t[i])
         /\ \A d \in 1..Depth(t[i]) : Scalar(u[i].loops[d].mem) = Scalar(t[i].loops[d].mem)
  BY <1>5
<1>12. Folded(t, head, u)
  BY <1>6, <1>7, <1>8, <1>9, <1>10, <1>11 DEF Folded
<1> QED BY <1>12 DEF u

\* The body of the loop at place d of node i's stack, and the three parts of
\* Placed in its terms, of the first n nodes.
Mem(t, i, d) == Scalar(t[i].loops[d].mem)
Span(t, i, d) == i..(i + Mem(t, i, d) - 1)
Inside(t, n) == \A i \in 1..n : \A d \in 1..Depth(t[i]) : Span(t, i, d) \subseteq 1..n
Apart(t, n) ==
  \A i, j \in 1..n : \A d \in 1..Depth(t[i]), e \in 1..Depth(t[j]) :
    \/ Span(t, i, d) \cap Span(t, j, e) = {}
    \/ Span(t, i, d) \subseteq Span(t, j, e) /\ (i = j => d >= e)
    \/ Span(t, j, e) \subseteq Span(t, i, d) /\ (i = j => e >= d)
Marked(t, n) ==
  \A i \in 1..n : t[i].member <=> \E j \in 1..n : i # j /\ \E d \in 1..Depth(t[j]) : i \in Span(t, j, d)

\* Placed, node by node.
LEMMA PlacedByNode ==
  ASSUME NEW t \in Seq(Nodes)
  PROVE  Placed(t) <=> Inside(t, Len(t)) /\ Apart(t, Len(t)) /\ Marked(t, Len(t))
<1>1. \A i \in 1..Len(t) : t[i] \in Nodes /\ DOMAIN t[i].loops = 1..Depth(t[i]) /\ Depth(t[i]) \in Nat
  BY NodeTyped
<1>2. DOMAIN t = 1..Len(t)
  OBVIOUS
<1>3. \A i, d : Body(t, <<i, d>>) = Span(t, i, d)
  BY DEF Body, Mem, Span
<1>4. \A l : l \in Loops(t) <=> \E i \in 1..Len(t) : \E d \in 1..Depth(t[i]) : l = <<i, d>>
  BY <1>1, <1>2 DEF Loops
<1> DEFINE n == Len(t)
<1>a. \A i \in 1..n : \A d \in 1..Depth(t[i]) : <<i, d>> \in Loops(t) /\ <<i, d>>[1] = i /\ <<i, d>>[2] = d
  BY <1>4
<1>b. \A l \in Loops(t) : /\ l[1] \in 1..n /\ l[2] \in 1..Depth(t[l[1]]) /\ l = <<l[1], l[2]>>
                          /\ Body(t, l) = Span(t, l[1], l[2])
  BY <1>3, <1>4
<1> HIDE DEF n
<1>5. (\A l \in Loops(t) : Body(t, l) \subseteq DOMAIN t) <=> Inside(t, n)
  <2>1. ASSUME \A l \in Loops(t) : Body(t, l) \subseteq DOMAIN t, NEW i \in 1..n, NEW d \in 1..Depth(t[i])
        PROVE  Span(t, i, d) \subseteq 1..n
    <3>1. <<i, d>> \in Loops(t) /\ Body(t, <<i, d>>) = Span(t, i, d)
      BY <1>a, <1>3
    <3> QED BY <1>2, <2>1, <3>1 DEF n
  <2>2. ASSUME Inside(t, n), NEW l \in Loops(t) PROVE Body(t, l) \subseteq DOMAIN t
    BY <1>2, <1>b, <2>2 DEF Inside, n
  <2> QED BY <2>1, <2>2 DEF Inside
<1>6. Nested(t) <=> Apart(t, n)
  <2>1. ASSUME Nested(t), NEW i \in 1..n, NEW j \in 1..n, NEW d \in 1..Depth(t[i]), NEW e \in 1..Depth(t[j])
        PROVE  \/ Span(t, i, d) \cap Span(t, j, e) = {}
               \/ Span(t, i, d) \subseteq Span(t, j, e) /\ (i = j => d >= e)
               \/ Span(t, j, e) \subseteq Span(t, i, d) /\ (i = j => e >= d)
    <3> DEFINE l == <<i, d>>
               m == <<j, e>>
    <3>1. l \in Loops(t) /\ m \in Loops(t) /\ l[1] = i /\ l[2] = d /\ m[1] = j /\ m[2] = e
      BY <1>a
    <3>2. Body(t, l) = Span(t, i, d) /\ Body(t, m) = Span(t, j, e)
      BY <1>3
    <3> HIDE DEF l, m
    <3>3. \/ Body(t, l) \cap Body(t, m) = {}
          \/ Body(t, l) \subseteq Body(t, m) /\ (l[1] = m[1] => l[2] >= m[2])
          \/ Body(t, m) \subseteq Body(t, l) /\ (l[1] = m[1] => m[2] >= l[2])
      BY <2>1, <3>1 DEF Nested
    <3> QED BY <3>1, <3>2, <3>3
  <2>2. ASSUME Apart(t, n), NEW l \in Loops(t), NEW m \in Loops(t)
        PROVE  \/ Body(t, l) \cap Body(t, m) = {}
               \/ Body(t, l) \subseteq Body(t, m) /\ (l[1] = m[1] => l[2] >= m[2])
               \/ Body(t, m) \subseteq Body(t, l) /\ (l[1] = m[1] => m[2] >= l[2])
    <3>1. PICK i, d, j, e : i = l[1] /\ d = l[2] /\ j = m[1] /\ e = m[2]
      OBVIOUS
    <3>2. i \in 1..n /\ j \in 1..n /\ d \in 1..Depth(t[i]) /\ e \in 1..Depth(t[j])
          /\ Body(t, l) = Span(t, i, d) /\ Body(t, m) = Span(t, j, e)
      BY <1>b, <3>1
    <3>3. \/ Span(t, i, d) \cap Span(t, j, e) = {}
          \/ Span(t, i, d) \subseteq Span(t, j, e) /\ (i = j => d >= e)
          \/ Span(t, j, e) \subseteq Span(t, i, d) /\ (i = j => e >= d)
      BY <2>2, <3>2 DEF Apart
    <3> QED BY <3>1, <3>2, <3>3
  <2> QED BY <2>1, <2>2 DEF Nested, Apart
<1>7. (\A i \in DOMAIN t : t[i].member <=> \E l \in Loops(t) : i \in Body(t, l) \ {l[1]}) <=> Marked(t, n)
  <2>1. ASSUME NEW i \in 1..n
        PROVE  (\E l \in Loops(t) : i \in Body(t, l) \ {l[1]})
               <=> \E j \in 1..n : i # j /\ \E d \in 1..Depth(t[j]) : i \in Span(t, j, d)
    <3>1. ASSUME NEW l \in Loops(t), i \in Body(t, l) \ {l[1]}
          PROVE  \E j \in 1..n : i # j /\ \E d \in 1..Depth(t[j]) : i \in Span(t, j, d)
      BY <1>b, <3>1
    <3>2. ASSUME NEW j \in 1..n, i # j, NEW d \in 1..Depth(t[j]), i \in Span(t, j, d)
          PROVE  \E l \in Loops(t) : i \in Body(t, l) \ {l[1]}
      <4>1. <<j, d>> \in Loops(t) /\ <<j, d>>[1] = j /\ Body(t, <<j, d>>) = Span(t, j, d)
        BY <1>a, <1>3
      <4> QED BY <3>2, <4>1
    <3> QED BY <3>1, <3>2
  <2> QED BY <1>2, <2>1 DEF Marked, n
<1> QED BY <1>5, <1>6, <1>7 DEF Placed, n

\* The number of nodes in a body is a number.
LEMMA MemTyped == ASSUME NEW t \in Seq(Nodes), NEW i \in 1..Len(t), NEW d \in 1..Depth(t[i]) PROVE Mem(t, i, d) \in Int
<1>1. t[i].loops \in Seq(LoopItems) /\ d \in 1..Len(t[i].loops)
  BY NodeTyped
<1>2. t[i].loops[d] \in LoopItems
  BY <1>1
<1>3. PICK x \in Scalars : x = t[i].loops[d].mem
  BY <1>2 DEF LoopItems
<1>4. x \in Parameters /\ Len(x[1].vals) = 1
  BY DEF Scalars
<1>5. x[1].vals \in Seq(Int)
  BY <1>4, ParameterTyped
<1> QED BY <1>3, <1>4, <1>5 DEF Mem, Scalar

\* Bodies stay well nested in a fold: no body reaches over the head of what is
\* folded, nor over the node it is folded into, since neither is a member.
LEMMA FoldPlaced ==
  ASSUME NEW t \in Seq(Nodes), Placed(t), NEW head \in 2..Len(t), NEW u, Folded(t, head, u)
  PROVE  Placed(u)
<1> DEFINE n == Len(t)
           first == 2 * head - n - 1
           shift(i) == IF i = first THEN Depth(u[first]) - Depth(t[first]) ELSE 0
<1>1. n \in Nat /\ head \in Nat /\ first \in 1..(head - 1) /\ head <= n
  BY DEF Folded
<1>2. Inside(t, n) /\ Apart(t, n) /\ Marked(t, n)
  BY PlacedByNode
<1>3. u \in Seq(Nodes) /\ Len(u) = head - 1 /\ ~t[head].member /\ ~t[first].member /\ ~u[first].member
      /\ (\A i \in 1..(first - 1) : u[i] = t[i]) /\ \A i \in (first + 1)..(head - 1) : u[i].member
  BY DEF Folded
<1>4. \A i \in 1..(head - 1) : Depth(u[i]) \in Nat /\ Depth(t[i]) \in Nat
  <2>1. \A i \in 1..(head - 1) : u[i] \in Nodes /\ t[i] \in Nodes
    <3> HIDE DEF first
    <3> QED BY <1>1, <1>3
  <2> HIDE DEF first, n
  <2> QED BY <2>1, NodeTyped
<1>5. 1 \in 1..Depth(u[first]) /\ Span(u, first, 1) = first..(head - 1)
  <2>1. Depth(u[first]) >= 1 /\ Mem(u, first, 1) = head - first
    BY DEF Folded, Mem
  <2>2. Depth(u[first]) \in Nat
    BY <1>1, <1>4
  <2> HIDE DEF first
  <2> QED BY <1>1, <2>1, <2>2 DEF Span
<1>6. shift(first) \in {0, 1}
  <2>1. Depth(u[first]) = Depth(t[first]) + 1 \/ Depth(u[first]) = Depth(t[first])
    BY DEF Folded
  <2>2. Depth(u[first]) \in Nat /\ Depth(t[first]) \in Nat
    BY <1>1, <1>4
  <2> HIDE DEF first
  <2> QED BY <2>1, <2>2
<1>7. \A i \in 1..(head - 1) :
        /\ shift(i) \in {0, 1} /\ Depth(u[i]) = Depth(t[i]) + shift(i)
        /\ \A e \in 1..Depth(t[i]) : Span(u, i, e + shift(i)) = Span(t, i, e)
  <2> SUFFICES ASSUME NEW i \in 1..(head - 1)
               PROVE  /\ shift(i) \in {0, 1} /\ Depth(u[i]) = Depth(t[i]) + shift(i)
                      /\ \A e \in 1..Depth(t[i]) : Mem(u, i, e + shift(i)) = Mem(t, i, e)
    BY DEF Span
  <2>0. Depth(u[i]) \in Nat /\ Depth(t[i]) \in Nat
    BY <1>4
  <2>1. CASE i = first
    <3>1. shift(i) \in {0, 1} /\ Depth(u[i]) = Depth(t[i]) + shift(i)
      BY <1>6, <2>0, <2>1
    <3>2. CASE shift(i) = 0
      <4>1. Depth(u[first]) = Depth(t[first])
        BY <2>0, <2>1, <3>1, <3>2
      <4>2. \A e \in 1..Depth(t[first]) : Mem(u, first, e) = Mem(t, first, e)
        BY <2>0, <2>1, <4>1 DEF Folded, Mem
      <4> QED BY <2>1, <3>1, <3>2, <4>2
    <3>3. CASE shift(i) = 1
      <4>1. Depth(u[first]) = Depth(t[first]) + 1
        BY <2>0, <2>1, <3>1, <3>3
      <4>2. \A e \in 1..Depth(t[first]) : Mem(u, first, e + 1) = Mem(t, first, e)
        BY <2>0, <2>1, <4>1 DEF Folded, Mem
      <4> QED BY <2>1, <3>1, <3>3, <4>2
    <3> QED BY <3>1, <3>2, <3>3
  <2>2. CASE i # first
    <3>1. shift(i) = 0
      BY <2>2
    <3>2. i \in 1..(first - 1) \/ i \in (first + 1)..(head - 1)
      BY <1>1, <2>2
    <3>3. Depth(u[i]) = Depth(t[i]) /\ \A e \in 1..Depth(t[i]) : Mem(u, i, e) = Mem(t, i, e)
      BY <3>2 DEF Folded, Mem, Depth
    <3> HIDE DEF shift
    <3> QED BY <2>0, <3>1, <3>3
  <2> QED BY <2>1, <2>2
<1> HIDE DEF shift
<1>8. \A i \in 1..(head - 1) : \A e \in 1..Depth(t[i]) :
        /\ Mem(t, i, e) \in Int /\ Span(t, i, e) \subseteq 1..(head - 1)
        /\ i < first => Span(t, i, e) \subseteq 1..(first - 1)
  <2> TAKE i \in 1..(head - 1)
  <2> TAKE e \in 1..Depth(t[i])
  <2> HIDE DEF first
  <2>0. i \in 1..n /\ i \in Nat
    BY <1>1
  <2>1. PICK m \in Int : Mem(t, i, e) = m
    BY <2>0, MemTyped DEF n
  <2>2. Span(t, i, e) = i..(i + m - 1)
    BY <2>1 DEF Span
  <2>3. \A x \in 1..n : x # i /\ ~t[x].member => x \notin i..(i + m - 1)
    BY <1>2, <2>0, <2>2 DEF Marked
  <2>4. i..(i + m - 1) \subseteq 1..n
    BY <1>2, <2>0, <2>2 DEF Inside
  <2>5. head \notin i..(i + m - 1) /\ (i < first => first \notin i..(i + m - 1))
    BY <1>1, <1>3, <2>0, <2>3
  <2>6. i..(i + m - 1) \subseteq 1..(head - 1)
    BY <1>1, <2>0, <2>4, <2>5
  <2>7. i < first => i..(i + m - 1) \subseteq 1..(first - 1)
    BY <1>1, <2>0, <2>4, <2>5
  <2> QED BY <2>1, <2>2, <2>6, <2>7
<1>9. \A i \in 1..(head - 1) : \A d \in 1..Depth(u[i]) :
        \/ i = first /\ d = 1 /\ shift(i) = 1
        \/ \E e \in 1..Depth(t[i]) : d = e + shift(i) /\ Span(u, i, d) = Span(t, i, e)
  <2> TAKE i \in 1..(head - 1)
  <2> TAKE d \in 1..Depth(u[i])
  <2>1. /\ shift(i) \in {0, 1} /\ Depth(u[i]) = Depth(t[i]) + shift(i)
        /\ Depth(u[i]) \in Nat /\ Depth(t[i]) \in Nat
        /\ \A e \in 1..Depth(t[i]) : Span(u, i, e + shift(i)) = Span(t, i, e)
    BY <1>4, <1>7
  <2>2. CASE d - shift(i) >= 1
    <3> DEFINE e == d - shift(i)
    <3>1. e \in 1..Depth(t[i]) /\ d = e + shift(i)
      BY <2>1, <2>2
    <3> HIDE DEF e
    <3> QED BY <2>1, <3>1
  <2>3. CASE ~(d - shift(i) >= 1)
    <3>1. d = 1 /\ shift(i) = 1
      BY <2>1, <2>3
    <3>2. i = first
      BY <3>1 DEF shift
    <3> QED BY <3>1, <3>2
  <2> QED BY <2>2, <2>3
<1> HIDE DEF first
<1>10. Inside(u, head - 1)
  <2> SUFFICES ASSUME NEW i \in 1..(head - 1), NEW d \in 1..Depth(u[i])
               PROVE  Span(u, i, d) \subseteq 1..(head - 1)
    BY DEF Inside
  <2>1. CASE i = first /\ d = 1
    BY <1>1, <1>5, <2>1
  <2>2. CASE \E e \in 1..Depth(t[i]) : Span(u, i, d) = Span(t, i, e)
    BY <1>8, <2>2
  <2> QED BY <1>9, <2>1, <2>2
<1>11. ASSUME NEW i \in 1..(head - 1), NEW d \in 1..Depth(u[i])
       PROVE  \/ Span(u, i, d) \cap (first..(head - 1)) = {}
              \/ Span(u, i, d) \subseteq first..(head - 1) /\ (i = first => d >= 1)
  <2>1. CASE i = first /\ d = 1
    BY <1>5, <2>1
  <2>2. CASE \E e \in 1..Depth(t[i]) : Span(u, i, d) = Span(t, i, e)
    <3>1. PICK e \in 1..Depth(t[i]) : Span(u, i, d) = Span(t, i, e)
      BY <2>2
    <3>2. /\ Span(t, i, e) \subseteq 1..(head - 1) /\ Mem(t, i, e) \in Int
          /\ i < first => Span(t, i, e) \subseteq 1..(first - 1)
      BY <1>8
    <3>3. CASE i < first
      BY <1>1, <3>1, <3>2, <3>3
    <3>4. CASE ~(i < first)
      <4>1. \A x \in Span(t, i, e) : x >= i
        BY <1>1, <3>2 DEF Span
      <4> QED BY <1>1, <1>4, <3>1, <3>2, <3>4, <4>1
    <3> QED BY <3>3, <3>4
  <2> QED BY <1>9, <2>1, <2>2
<1>12. Apart(u, head - 1)
  <2> SUFFICES ASSUME NEW i \in 1..(head - 1), NEW j \in 1..(head - 1), NEW d \in 1..Depth(u[i]), NEW e \in 1..Depth(u[j])
               PROVE  \/ Span(u, i, d) \cap Span(u, j, e) = {}
                      \/ Span(u, i, d) \subseteq Span(u, j, e) /\ (i = j => d >= e)
                      \/ Span(u, j, e) \subseteq Span(u, i, d) /\ (i = j => e >= d)
    BY DEF Apart
  <2>1. CASE j = first /\ e = 1
    BY <1>5, <1>11, <2>1
  <2>2. CASE i = first /\ d = 1
    BY <1>5, <1>11, <2>2
  <2>3. CASE /\ \E x \in 1..Depth(t[i]) : d = x + shift(i) /\ Span(u, i, d) = Span(t, i, x)
             /\ \E y \in 1..Depth(t[j]) : e = y + shift(j) /\ Span(u, j, e) = Span(t, j, y)
    <3>1. PICK x \in 1..Depth(t[i]) : d = x + shift(i) /\ Span(u, i, d) = Span(t, i, x)
      BY <2>3
    <3>2. PICK y \in 1..Depth(t[j]) : e = y + shift(j) /\ Span(u, j, e) = Span(t, j, y)
      BY <2>3
    <3>3. i \in 1..n /\ j \in 1..n
      BY <1>1
    <3>4. \/ Span(t, i, x) \cap Span(t, j, y) = {}
          \/ Span(t, i, x) \subseteq Span(t, j, y) /\ (i = j => x >= y)
          \/ Span(t, j, y) \subseteq Span(t, i, x) /\ (i = j => y >= x)
      BY <1>2, <3>3 DEF Apart
    <3>5. i = j => (x >= y => d >= e) /\ (y >= x => e >= d)
      <4>1. Depth(t[i]) \in Nat /\ Depth(t[j]) \in Nat /\ shift(i) \in {0, 1} /\ shift(j) \in {0, 1}
        BY <1>4, <1>7
      <4> QED BY <3>1, <3>2, <4>1
    <3> QED BY <3>1, <3>2, <3>4, <3>5
  <2> QED BY <1>9, <2>1, <2>2, <2>3
<1>13. Marked(u, head - 1)
  <2> SUFFICES ASSUME NEW i \in 1..(head - 1)
               PROVE  u[i].member <=> \E j \in 1..(head - 1) : i # j /\ \E d \in 1..Depth(u[j]) : i \in Span(u, j, d)
    BY DEF Marked
  <2>1. CASE i \in (first + 1)..(head - 1)
    <3>1. i # first /\ i \in Span(u, first, 1) /\ u[i].member
      BY <1>1, <1>3, <1>5, <2>1
    <3> QED BY <1>1, <1>5, <3>1
  <2>2. CASE i = first
    <3>1. ASSUME NEW j \in 1..(head - 1), i # j, NEW d \in 1..Depth(u[j]) PROVE i \notin Span(u, j, d)
      <4>1. PICK e \in 1..Depth(t[j]) : Span(u, j, d) = Span(t, j, e)
        BY <1>9, <2>2, <3>1
      <4>2. /\ Mem(t, j, e) \in Int /\ j < first => Span(t, j, e) \subseteq 1..(first - 1)
        BY <1>8
      <4>3. CASE j < first
        BY <1>1, <1>8, <2>2, <4>1, <4>3
      <4>4. CASE j > first
        BY <1>1, <2>2, <4>1, <4>2, <4>4 DEF Span
      <4> QED BY <1>1, <2>2, <3>1, <4>3, <4>4
    <3> QED BY <1>3, <2>2, <3>1
  <2>3. CASE i \in 1..(first - 1)
    <3>1. u[i] = t[i] /\ i \in 1..n /\ i < first
      BY <1>1, <1>3, <2>3
    <3>2. u[i].member <=> \E j \in 1..n : i # j /\ \E d \in 1..Depth(t[j]) : i \in Span(t, j, d)
      BY <1>2, <3>1 DEF Marked
    <3>3. ASSUME NEW j \in 1..n, i # j, NEW d \in 1..Depth(t[j]), i \in Span(t, j, d)
          PROVE  \E e \in 1..Depth(u[j]) : j \in 1..(head - 1) /\ i \in Span(u, j, e)
      <4>1. j <= i
        <5>1. Mem(t, j, d) \in Int
          BY MemTyped DEF n
        <5> QED BY <1>1, <3>1, <3>3, <5>1 DEF Span
      <4>2. j \in 1..(first - 1) /\ j \in 1..(head - 1)
        BY <1>1, <3>1, <4>1
      <4>3. u[j] = t[j]
        BY <1>3, <4>2
      <4> QED BY <3>3, <4>2, <4>3 DEF Span, Mem, Depth
    <3>4. ASSUME NEW j \in 1..(head - 1), i # j, NEW d \in 1..Depth(u[j]), i \in Span(u, j, d)
          PROVE  \E e \in 1..Depth(t[j]) : i \in Span(t, j, e)
      <4>1. CASE j = first /\ d = 1
        BY <1>1, <1>5, <3>1, <3>4, <4>1
      <4>2. CASE \E e \in 1..Depth(t[j]) : Span(u, j, d) = Span(t, j, e)
        BY <3>4, <4>2
      <4> QED BY <1>9, <4>1, <4>2
    <3>5. \A j \in 1..(head - 1) : j \in 1..n
      BY <1>1
    <3> QED BY <3>2, <3>3, <3>4, <3>5
  <2>4. i \in (first + 1)..(head - 1) \/ i = first \/ i \in 1..(first - 1)
    BY <1>1
  <2> QED BY <2>1, <2>2, <2>3, <2>4
<1> QED BY <1>3, <1>10, <1>12, <1>13, PlacedByNode
-----------------------------------------------------------------------------
(* All folds of an appended node. *)

\* A fold is of a head that can be folded.
LEMMA FoldsOnce ==
  ASSUME NEW t \in Seq(Nodes)
  PROVE  FoldOnce(t) = t \/ \E head \in 2..Len(t) : Foldable(t, head) /\ FoldOnce(t) = Fold(t, head)
<1> DEFINE heads == {h \in 2..Len(t) : Foldable(t, h)}
<1>1. FoldOnce(t) = IF heads = {} THEN t ELSE Fold(t, Max(heads))
  BY DEF FoldOnce
<1>2. Len(t) \in Nat /\ heads \subseteq 0..Len(t)
  OBVIOUS
<1>3. CASE heads # {}
  <2>1. Max(heads) \in heads
    <3> HIDE DEF heads
    <3> QED BY <1>2, <1>3, Largest
  <2> QED BY <1>1, <1>3, <2>1
<1> QED BY <1>1, <1>3

\* What one fold keeps, all folds keep: the recursion has a result, shown for a
\* smallest number of folds without one, and its results are of the set, shown
\* for a smallest number of folds that leave it.
LEMMA FoldsKeep ==
  ASSUME NEW S, NEW t \in S, t \in Seq(Nodes), \A x \in S : FoldOnce(x) \in S
  PROVE  FastCompressLoop(t) \in S
<1> DEFINE L == Len(t)
           Folds(n, f) == f = [k \in 0..n |-> IF k = 0 THEN t ELSE FoldOnce(f[k - 1])]
           Bad == {n \in 0..L : ~ \E f : Folds(n, f)}
<1>1. L \in Nat
  OBVIOUS
<1> HIDE DEF L
<1>2. Bad = {}
  <2>1. SUFFICES ASSUME Bad # {} PROVE FALSE
    OBVIOUS
  <2>2. PICK n \in Bad : \A i \in Bad : n <= i
    <3>1. Bad \subseteq Nat
      OBVIOUS
    <3> HIDE DEF Bad
    <3> QED BY <2>1, <3>1, Smallest
  <2>3. n \in Nat /\ n <= L /\ ~ \E f : Folds(n, f)
    BY <1>1
  <2>4. n # 0
    <3> DEFINE f == [k \in 0..0 |-> t]
    <3>1. Folds(0, f)
      OBVIOUS
    <3> QED BY <2>3, <3>1
  <2>5. PICK f : Folds(n - 1, f)
    <3>1. n - 1 \in Nat /\ n - 1 < n /\ n - 1 \in 0..L
      BY <1>1, <2>3, <2>4
    <3>2. n - 1 \notin Bad
      <4> HIDE DEF Bad
      <4> QED BY <2>2, <2>3, <3>1
    <3> QED BY <3>1, <3>2
  <2> DEFINE g == [k \in 0..n |-> IF k = n THEN FoldOnce(f[n - 1]) ELSE f[k]]
  <2>6. \A k \in 0..(n - 1) : f[k] = IF k = 0 THEN t ELSE FoldOnce(f[k - 1])
    BY <2>5
  <2>7. \A k \in 0..n : g[k] = IF k = 0 THEN t ELSE FoldOnce(g[k - 1])
    <3> TAKE k \in 0..n
    <3>1. CASE k = 0
      BY <2>3, <2>4, <2>6, <3>1
    <3>2. CASE k # 0
      <4>1. k - 1 \in 0..n /\ k - 1 # n /\ g[k - 1] = f[k - 1]
        BY <2>3, <3>2
      <4>2. CASE k = n
        BY <4>1, <4>2, <3>2
      <4>3. CASE k # n
        BY <2>3, <2>6, <3>2, <4>1, <4>3
      <4> QED BY <4>2, <4>3
    <3> QED BY <3>1, <3>2
  <2>8. Folds(n, g)
    <3>1. g = [k \in 0..n |-> g[k]]
      OBVIOUS
    <3> HIDE DEF g
    <3> QED BY <2>7, <3>1
  <2> QED BY <2>3, <2>8
<1>3. \E f : Folds(L, f)
  <2> HIDE DEF Folds
  <2>1. L \in 0..L
    BY <1>1
  <2> QED BY <1>2, <2>1
<1> DEFINE folded == CHOOSE f : Folds(L, f)
<1>4. Folds(L, folded)
  <2> HIDE DEF Folds
  <2> QED BY <1>3, Zenon
<1>5. FastCompressLoop(t) = folded[L]
  BY DEF FastCompressLoop, L
<1> HIDE DEF folded
<1> DEFINE Wrong == {k \in 0..L : folded[k] \notin S}
<1>6. Wrong = {}
  <2>1. SUFFICES ASSUME Wrong # {} PROVE FALSE
    OBVIOUS
  <2>2. PICK k \in Wrong : \A i \in Wrong : k <= i
    <3>1. Wrong \subseteq Nat
      OBVIOUS
    <3> HIDE DEF Wrong
    <3> QED BY <2>1, <3>1, Smallest
  <2>3. k \in Nat /\ k <= L /\ folded[k] \notin S
    BY <1>1
  <2>4. k # 0
    BY <1>1, <1>4, <2>3
  <2>5. k - 1 \in Nat /\ k - 1 \in 0..L /\ k - 1 < k
    BY <1>1, <2>3, <2>4
  <2>6. folded[k - 1] \in S
    <3>1. k - 1 \notin Wrong
      <4> HIDE DEF Wrong
      <4> QED BY <2>2, <2>3, <2>5
    <3> QED BY <2>5, <3>1
  <2>7. folded[k] = FoldOnce(folded[k - 1])
    BY <1>4, <2>3, <2>4
  <2> QED BY <2>3, <2>6, <2>7
<1> QED BY <1>1, <1>5, <1>6

\* The node of an event.
LEMMA NewNode ==
  ASSUME NEW op \in Ops \cup {InitOp}, NEW vec \in Recorded
  PROVE  Node(op, vec, rank) \in Nodes /\ Depth(Node(op, vec, rank)) = 0 /\ ~Node(op, vec, rank).member
<1>1. vec \in Seq(Int) /\ vec # <<>> /\ Len(vec) \in Int
  BY VectorsAssumption, EmptySeq DEF Recorded
<1>2. \A x \in Seq(Int) : x # <<>> => Single(x, {rank}) \in Parameters
  <2> SUFFICES ASSUME NEW x \in Seq(Int), x # <<>> PROVE Single(x, {rank}) \in Parameters
    OBVIOUS
  <2> DEFINE v == [vals |-> x, ranks |-> {rank}, iters |-> 1]
  <2>1. v \in Values
    BY DEF Values
  <2>2. Single(x, {rank}) = <<v>>
    BY DEF Single
  <2> HIDE DEF v
  <2>3. <<v>> \in Seq(Values) /\ Len(<<v>>) = 1
    BY <2>1
  <2> QED BY <2>2, <2>3 DEF Parameters
<1>3. <<Len(vec)>> \in Seq(Int) /\ <<Len(vec)>> # <<>>
  BY <1>1
<1>4. Single(<<Len(vec)>>, {rank}) \in Parameters /\ Single(vec, {rank}) \in Parameters
  BY <1>1, <1>2, <1>3
<1> QED BY <1>4 DEF Node, Nodes, Depth

\* A node appended is in no body.
LEMMA AppendPlaced ==
  ASSUME NEW t \in Seq(Nodes), Placed(t), NEW node \in Nodes, Depth(node) = 0, ~node.member
  PROVE  Good(Append(t, node))
<1> DEFINE u == Append(t, node)
           n == Len(t)
<1>1. n \in Nat /\ u \in Seq(Nodes) /\ Len(u) = n + 1 /\ u[n + 1] = node /\ \A i \in 1..n : u[i] = t[i]
  OBVIOUS
<1>2. Inside(t, n) /\ Apart(t, n) /\ Marked(t, n)
  BY PlacedByNode
<1> HIDE DEF u, n
<1>3. \A i \in 1..n : Depth(u[i]) = Depth(t[i]) /\ \A d : Span(u, i, d) = Span(t, i, d)
  BY <1>1 DEF Depth, Span, Mem
<1>4. \A i \in 1..(n + 1) : \A d \in 1..Depth(u[i]) : i \in 1..n /\ d \in 1..Depth(t[i]) /\ n + 1 \notin Span(u, i, d)
  <2> TAKE i \in 1..(n + 1)
  <2> TAKE d \in 1..Depth(u[i])
  <2>1. i \in 1..n
    BY <1>1
  <2>2. Depth(u[i]) = Depth(t[i]) /\ Span(u, i, d) = Span(t, i, d)
    BY <1>3, <2>1
  <2>3. Span(t, i, d) \subseteq 1..n
    BY <1>2, <2>1, <2>2 DEF Inside
  <2> QED BY <1>1, <2>1, <2>2, <2>3
<1>5. Inside(u, n + 1)
  BY <1>1, <1>2, <1>3, <1>4 DEF Inside
<1>6. Apart(u, n + 1)
  <2> SUFFICES ASSUME NEW i \in 1..(n + 1), NEW j \in 1..(n + 1), NEW d \in 1..Depth(u[i]), NEW e \in 1..Depth(u[j])
               PROVE  \/ Span(u, i, d) \cap Span(u, j, e) = {}
                      \/ Span(u, i, d) \subseteq Span(u, j, e) /\ (i = j => d >= e)
                      \/ Span(u, j, e) \subseteq Span(u, i, d) /\ (i = j => e >= d)
    BY DEF Apart
  <2>1. i \in 1..n /\ j \in 1..n /\ d \in 1..Depth(t[i]) /\ e \in 1..Depth(t[j])
    BY <1>4
  <2>2. Span(u, i, d) = Span(t, i, d) /\ Span(u, j, e) = Span(t, j, e)
    BY <1>3, <2>1
  <2> QED BY <1>2, <2>1, <2>2 DEF Apart
<1>7. Marked(u, n + 1)
  <2> SUFFICES ASSUME NEW i \in 1..(n + 1)
               PROVE  u[i].member <=> \E j \in 1..(n + 1) : i # j /\ \E d \in 1..Depth(u[j]) : i \in Span(u, j, d)
    BY DEF Marked
  <2>1. CASE i = n + 1
    BY <1>1, <1>4, <2>1
  <2>2. CASE i \in 1..n
    <3>1. u[i].member <=> \E j \in 1..n : i # j /\ \E d \in 1..Depth(t[j]) : i \in Span(t, j, d)
      BY <1>1, <1>2, <2>2 DEF Marked
    <3>2. \A j \in 1..n : j \in 1..(n + 1)
      BY <1>1
    <3> QED BY <1>3, <1>4, <3>1, <3>2
  <2> QED BY <1>1, <2>1, <2>2
<1> QED BY <1>1, <1>5, <1>6, <1>7, PlacedByNode DEF Good, u

\* A fold, of whatever head the search finds, leaves a good trace good.
LEMMA FoldOnceGood == ASSUME NEW t, Good(t) PROVE Good(FoldOnce(t))
<1>1. t \in Seq(Nodes) /\ Placed(t)
  BY DEF Good
<1>2. CASE FoldOnce(t) = t
  BY <1>2
<1>3. ASSUME NEW head \in 2..Len(t), Foldable(t, head), FoldOnce(t) = Fold(t, head)
      PROVE  Good(FoldOnce(t))
  <2>1. Folded(t, head, Fold(t, head))
    BY <1>1, <1>3, FoldFolds
  <2>2. Fold(t, head) \in Seq(Nodes)
    BY <2>1 DEF Folded
  <2>3. Placed(Fold(t, head))
    BY <1>1, <2>1, FoldPlaced
  <2> QED BY <1>3, <2>2, <2>3 DEF Good
<1> QED BY <1>1, <1>2, <1>3, FoldsOnce

\* So does the event appended and all the folds it brings about.
LEMMA AppendedGood ==
  ASSUME NEW t, Good(t), NEW op \in Ops \cup {InitOp}, NEW vec \in Recorded
  PROVE  Good(Appended(t, Node(op, vec, rank)))
<1> DEFINE u == Append(t, Node(op, vec, rank))
           S == {x \in Seq(Nodes) : Good(x)}
<1>1. Good(u)
  <2>1. Node(op, vec, rank) \in Nodes /\ Depth(Node(op, vec, rank)) = 0 /\ ~Node(op, vec, rank).member
    BY NewNode
  <2>2. t \in Seq(Nodes) /\ Placed(t)
    BY DEF Good
  <2> QED BY <2>1, <2>2, AppendPlaced
<1>2. Appended(t, Node(op, vec, rank)) = FastCompressLoop(u)
  BY DEF Appended
<1> HIDE DEF u
<1>3. u \in Seq(Nodes) /\ u \in S
  BY <1>1 DEF Good
<1>4. \A x \in S : FoldOnce(x) \in S
  <2> TAKE x \in S
  <2>1. Good(FoldOnce(x))
    BY FoldOnceGood
  <2> QED BY <2>1 DEF Good
<1> HIDE DEF S
<1>5. FastCompressLoop(u) \in S
  BY <1>3, <1>4, FoldsKeep
<1> QED BY <1>2, <1>5 DEF S
-----------------------------------------------------------------------------
(* Calls of merged nodes. *)

\* A sequence is a function of its indices.
LEMMA SeqIsFunction == ASSUME NEW s \in Seq(Int), NEW n, Len(s) = n PROVE s = [i \in 1..n |-> s[i]]
OBVIOUS

\* A remainder is not changed by a multiple of the divisor.
LEMMA ModShift ==
  ASSUME NEW x \in Nat, NEW k \in Nat, NEW n \in Nat \ {0}
  PROVE  (x + k * n) % n = x % n
<1> DEFINE y == x + k * n
           d == (y \div n) - (x \div n) - k
           e == (x % n) - (y % n)
<1>1. y \in Nat
  <2>1. k * n \in Nat
    OBVIOUS
  <2> QED BY <2>1
<1>2. /\ x \div n \in Int /\ y \div n \in Int /\ x % n \in 0..(n - 1) /\ y % n \in 0..(n - 1)
      /\ x = n * (x \div n) + (x % n) /\ y = n * (y \div n) + (y % n)
  <2> HIDE DEF y
  <2> QED BY <1>1
<1>3. d \in Int /\ e \in Int /\ -n < e /\ e < n
  <2> HIDE DEF y
  <2> QED BY <1>2
<1>4. n * d = e
  <2>1. y = x + k * n
    OBVIOUS
  <2> DEFINE X == x \div n
             Y == y \div n
  <2>2. X \in Int /\ Y \in Int /\ x = n * X + (x % n) /\ y = n * Y + (y % n) /\ d = Y - X - k
    BY <1>2
  <2> HIDE DEF y, d, X, Y
  <2>3. n * d = n * Y - n * X - k * n
    BY <2>2
  <2>4. n * X \in Int /\ n * Y \in Int /\ k * n \in Int
    BY <2>2
  <2>5. e = (x % n) - (y % n) /\ x % n \in Int /\ y % n \in Int
    BY <1>2
  <2> HIDE DEF e
  <2>6. PICK nX, nY, kn, r, r2, nd \in Int :
           nX = n * X /\ nY = n * Y /\ kn = k * n /\ r = x % n /\ r2 = y % n /\ nd = n * d
    BY <2>2, <2>4, <2>5
  <2>7. x = nX + r /\ y = nY + r2 /\ y = x + kn /\ nd = nY - nX - kn /\ e = r - r2
    BY <2>1, <2>2, <2>3, <2>5, <2>6
  <2>8. nd = e
    BY <2>7
  <2> QED BY <2>6, <2>8
<1>5. d = 0
  <2> HIDE DEF d, e
  <2>1. ASSUME d >= 1 PROVE FALSE
    <3>1. n * d >= n
      BY <1>3, <2>1
    <3> QED BY <1>3, <1>4, <3>1
  <2>2. ASSUME d <= -1 PROVE FALSE
    <3>1. n * d <= -n
      BY <1>3, <2>2
    <3> QED BY <1>3, <1>4, <3>1
  <2> QED BY <1>3, <2>1, <2>2
<1>6. e = 0
  <2> HIDE DEF d, e
  <2> QED BY <1>4, <1>5
<1> HIDE DEF y
<1>7. x % n = y % n
  BY <1>2, <1>6
<1> QED BY <1>7 DEF y

\* A sequence is what its shortest period, repeated, gives.
LEMMA CompressedExpands ==
  ASSUME NEW s \in Seq(Int), s # <<>>
  PROVE  Expand(Compressed(s, {rank})) = s
<1> DEFINE P == Period(s)
           L == Len(s)
           p == Compressed(s, {rank})
<1>1. P \in 1..L /\ L % P = 0 /\ \A i \in 1..L : s[i] = s[((i - 1) % P) + 1]
  BY PeriodTyped
<1>2. p.vals = SubSeq(s, 1, P) /\ p.iters = L \div P
  BY DEF Compressed
<1> HIDE DEF P, p
<1>3. L \in Nat /\ P \in Nat \ {0}
  BY <1>1
<1>4. (L \div P) * P = L
  <2> HIDE DEF L
  <2>1. L = P * (L \div P) + (L % P) /\ L \div P \in Int
    BY <1>3
  <2>2. P * (L \div P) = (L \div P) * P
    BY <1>3, <2>1
  <2> QED BY <1>1, <1>3, <2>1, <2>2
<1>5. Len(p.vals) = P /\ \A i \in 1..P : p.vals[i] = s[i]
  BY <1>1, <1>2, <1>3
<1>6. Expand(p) = [i \in 1..L |-> p.vals[((i - 1) % P) + 1]]
  BY <1>2, <1>4, <1>5 DEF Expand
<1>7. \A i \in 1..L : p.vals[((i - 1) % P) + 1] = s[i]
  <2> TAKE i \in 1..L
  <2>1. i - 1 \in Nat
    BY <1>3
  <2>2. ((i - 1) % P) + 1 \in 1..P
    BY <1>3, <2>1, RemainderRange
  <2> QED BY <1>1, <1>5, <2>2
<1>8. s = [i \in 1..L |-> s[i]]
  OBVIOUS
<1> QED BY <1>6, <1>7, <1>8 DEF p

\* Merging in time loses nothing and keeps the order: what is read of the merged
\* value is what was read of the first, then what was read of the second.
LEMMA ThenExpands ==
  ASSUME NEW p \in Values, NEW q \in Values
  PROVE  Expand(Then(p, q)) = Expand(p) \o Expand(q)
<1>1. /\ Expand(p) \in Seq(Int) /\ Expand(p) # <<>> /\ Len(Expand(p)) = p.iters * Len(p.vals)
      /\ Expand(q) \in Seq(Int) /\ Expand(q) # <<>> /\ Len(Expand(q)) = q.iters * Len(q.vals)
  BY ExpandTyped
<1>2. CASE p.vals = q.vals
  <2> DEFINE n == Len(p.vals)
             a == p.iters
             b == q.iters
             v == p.vals
             r == Then(p, q)
  <2>1. v \in Seq(Int) /\ n \in Nat \ {0} /\ a \in Nat \ {0} /\ b \in Nat \ {0}
    BY DEF Values
  <2>2. r.vals = v /\ r.iters = a + b
    BY <1>2 DEF Then, Values
  <2>3. /\ Expand(r) = [i \in 1..((a + b) * n) |-> v[((i - 1) % n) + 1]]
        /\ Expand(p) = [i \in 1..(a * n) |-> v[((i - 1) % n) + 1]]
        /\ Expand(q) = [i \in 1..(b * n) |-> v[((i - 1) % n) + 1]]
    BY <1>2, <2>2 DEF Expand
  <2>4. Len(Expand(p)) = a * n /\ Len(Expand(q)) = b * n
    BY <1>1, <1>2
  <2> HIDE DEF n, a, b, v, r
  <2> DEFINE A == a * n
             B == b * n
  <2>5. A \in Nat /\ B \in Nat /\ (a + b) * n = A + B
    BY <2>1
  <2>6. \A i \in 1..(A + B) : v[((i - 1) % n) + 1] = (Expand(p) \o Expand(q))[i]
    <3> TAKE i \in 1..(A + B)
    <3>1. CASE i <= A
      <4>1. i \in 1..A
        BY <2>5, <3>1
      <4>2. (Expand(p) \o Expand(q))[i] = Expand(p)[i]
        BY <1>1, <2>4, <4>1
      <4> QED BY <2>3, <4>1, <4>2
    <3>2. CASE i > A
      <4> DEFINE j == i - A
      <4>1. j \in 1..B /\ j - 1 \in Nat /\ i - 1 = (j - 1) + A
        BY <2>5, <3>2
      <4> HIDE DEF j
      <4>2. (i - 1) % n = (j - 1) % n
        <5>1. ((j - 1) + a * n) % n = (j - 1) % n
          BY <2>1, <4>1, ModShift
        <5> QED BY <4>1, <5>1
      <4>3. (Expand(p) \o Expand(q))[i] = Expand(q)[j]
        <5> HIDE DEF A, B
        <5>1. i = Len(Expand(p)) + j /\ j \in 1..Len(Expand(q))
          BY <2>4, <2>5, <3>2, <4>1 DEF A, B
        <5> QED BY <1>1, <5>1
      <4>4. Expand(q)[j] = v[((j - 1) % n) + 1]
        BY <2>3, <4>1
      <4> QED BY <4>2, <4>3, <4>4
    <3> HIDE DEF A, B
    <3>3. i <= A \/ i > A
      BY <2>5
    <3> QED BY <3>1, <3>2, <3>3, Zenon
  <2>7. Expand(r) = [i \in 1..(A + B) |-> v[((i - 1) % n) + 1]]
    BY <2>3, <2>5
  <2>8. Expand(p) \o Expand(q) = [i \in 1..(A + B) |-> (Expand(p) \o Expand(q))[i]]
    <3> HIDE DEF A, B
    <3>1. Len(Expand(p)) = A /\ Len(Expand(q)) = B
      BY <2>4 DEF A, B
    <3>2. Expand(p) \o Expand(q) \in Seq(Int) /\ Len(Expand(p) \o Expand(q)) = A + B
      BY <1>1, <3>1, ConcatProperties
    <3> QED BY <3>2, SeqIsFunction
  <2> HIDE DEF A, B
  <2> QED BY <2>6, <2>7, <2>8 DEF r
<1>3. CASE p.vals # q.vals
  <2>1. Expand(p) \o Expand(q) \in Seq(Int) /\ Expand(p) \o Expand(q) # <<>>
    BY <1>1
  <2>2. Then(p, q) = Compressed(Expand(p) \o Expand(q), {rank})
    BY <1>3 DEF Then, Values
  <2> QED BY <2>1, <2>2, CompressedExpands
<1> QED BY <1>2, <1>3

\* So for parameters.
LEMMA MergeExpands ==
  ASSUME NEW a \in Parameters, NEW b \in Parameters
  PROVE  Expand(MergeParam(a, b)[1]) = Expand(a[1]) \o Expand(b[1])
<1>1. MergeParam(a, b)[1] = Then(a[1], b[1]) /\ a[1] \in Values /\ b[1] \in Values
  BY MergeTyped, ParameterTyped
<1> QED BY <1>1, ThenExpands

\* The loops a node leads, from the innermost out: LoopAt for one node.
LoopOf(node, h) == node.loops[Depth(node) + 1 - h]
MemOf(node, h) == Scalar(LoopOf(node, h).mem)
IterOf(node, h) == Scalar(LoopOf(node, h).iter)

\* Nodes x and y lead the same loop at height h.
SameLoop(x, y, h) == MemOf(x, h) = MemOf(y, h) /\ IterOf(x, h) = IterOf(y, h)

CountsOf(node) == Expand(node.count[1])
ValuesOf(node) == Expand(node.values[1])

\* Matched nodes lead the same loops, but for one more around the node that is
\* merged into, which is as long as what is folded.
LEMMA MatchedLoops ==
  ASSUME NEW merge \in Nodes, NEW target \in Nodes, NEW depth \in Nat, NEW length,
         LoopMatch(merge, target, depth, length), depth >= Depth(target)
  PROVE  /\ Depth(merge) \in Nat /\ Depth(target) \in Nat
         /\ Depth(merge) = Depth(target) \/ Depth(merge) = Depth(target) + 1
         /\ \A h \in 1..Depth(target) : SameLoop(merge, target, h)
         /\ Depth(merge) = Depth(target) + 1 => MemOf(merge, Depth(target) + 1) = length
<1> DEFINE m == Depth(merge)
           n == Depth(target)
<1>1. m \in Nat /\ n \in Nat
  BY NodeTyped
<1> HIDE DEF m, n
<1>2. /\ m - n \in {0, 1} /\ depth <= n
      /\ \A c \in 0..(depth - 1) : /\ Scalar(merge.loops[m - c].mem) = Scalar(target.loops[n - c].mem)
                                   /\ Scalar(merge.loops[m - c].iter) = Scalar(target.loops[n - c].iter)
      /\ m > depth => Scalar(merge.loops[m - depth].mem) = length
  BY DEF LoopMatch, m, n
<1>3. depth = n /\ (m = n \/ m = n + 1)
  BY <1>1, <1>2 DEF n
<1>4. ASSUME NEW h \in 1..n PROVE SameLoop(merge, target, h)
  <2>1. h - 1 \in 0..(depth - 1) /\ m - (h - 1) = m + 1 - h /\ n - (h - 1) = n + 1 - h
    BY <1>1, <1>3
  <2>2. /\ Scalar(merge.loops[m - (h - 1)].mem) = Scalar(target.loops[n - (h - 1)].mem)
        /\ Scalar(merge.loops[m - (h - 1)].iter) = Scalar(target.loops[n - (h - 1)].iter)
    BY <1>2, <2>1
  <2> QED BY <2>1, <2>2 DEF SameLoop, MemOf, IterOf, LoopOf, m, n
<1>5. ASSUME m = n + 1 PROVE MemOf(merge, n + 1) = length
  <2>1. m > depth /\ m - depth = m + 1 - (n + 1)
    BY <1>1, <1>3, <1>5
  <2> QED BY <1>2, <2>1 DEF MemOf, LoopOf, m, n
<1> QED BY <1>1, <1>3, <1>4, <1>5 DEF m, n

\* The node two nodes are merged into has the calls of the first, then those of
\* the second.
LEMMA NodeRepeats ==
  ASSUME NEW merge \in Nodes, NEW target \in Nodes, NEW depth \in Nat, NEW length,
         LoopMatch(merge, target, depth, length), depth >= Depth(target)
  PROVE  LET new == MergeNode(merge, target)
         IN  /\ new \in Nodes /\ new.op = merge.op /\ Depth(new) = Depth(merge)
             /\ CountsOf(new) = CountsOf(merge) \o CountsOf(target)
             /\ ValuesOf(new) = ValuesOf(merge) \o ValuesOf(target)
             /\ \A h \in 1..Depth(merge) : SameLoop(new, merge, h)
<1> DEFINE new == MergeNode(merge, target)
           l == MergeLoops(merge.loops, target.loops)
<1>1. /\ new \in Nodes /\ new.op = merge.op /\ Depth(new) = Depth(merge)
      /\ new.count = MergeParam(merge.count, target.count)
      /\ new.values = MergeParam(merge.values, target.values)
  BY NodeMerged
<1>2. /\ merge.count \in Parameters /\ merge.values \in Parameters /\ target.count \in Parameters
      /\ target.values \in Parameters /\ Depth(merge) \in Nat
  BY NodeTyped
<1>3. new.loops = l
  BY NodeTyped DEF MergeNode, Nodes
<1>4. \A d \in 1..Depth(merge) : /\ Scalar(l[d].mem) = Scalar(merge.loops[d].mem)
                                 /\ Scalar(l[d].iter) = Scalar(merge.loops[d].iter)
  BY Agreeing
<1> HIDE DEF new, l
<1>5. CountsOf(new) = CountsOf(merge) \o CountsOf(target) /\ ValuesOf(new) = ValuesOf(merge) \o ValuesOf(target)
  BY <1>1, <1>2, MergeExpands DEF CountsOf, ValuesOf
<1>6. ASSUME NEW h \in 1..Depth(merge) PROVE SameLoop(new, merge, h)
  <2>1. Depth(merge) + 1 - h \in 1..Depth(merge)
    BY <1>2
  <2> QED BY <1>1, <1>3, <1>4, <2>1 DEF SameLoop, MemOf, IterOf, LoopOf
<1> QED BY <1>1, <1>5, <1>6 DEF new

\* The head leads one loop more than what was folded, of one more iteration than
\* it led it for.
LEMMA HeadRepeats ==
  ASSUME NEW merge \in Nodes, NEW target \in Nodes, NEW length \in Int,
         LoopMatch(merge, target, Depth(target), length)
  PROVE  LET new == [MergeNode(merge, target) EXCEPT !.loops = HeadLoops(merge, target, length)]
             D == Depth(target)
         IN  /\ new.op = merge.op /\ Depth(new) = D + 1
             /\ CountsOf(new) = CountsOf(merge) \o CountsOf(target)
             /\ ValuesOf(new) = ValuesOf(merge) \o ValuesOf(target)
             /\ \A h \in 1..D : SameLoop(new, merge, h)
             /\ MemOf(new, D + 1) = length
             /\ IterOf(new, D + 1) = IF Depth(merge) = D THEN 2 ELSE IterOf(merge, D + 1) + 1
<1> DEFINE old == MergeNode(merge, target)
           loops == HeadLoops(merge, target, length)
           new == [old EXCEPT !.loops = loops]
           l == MergeLoops(merge.loops, target.loops)
           D == Depth(target)
           m == Depth(merge)
<1>1. D \in Nat /\ m \in Nat /\ D >= D /\ merge.ranks = {rank} /\ m = Len(merge.loops)
  BY NodeTyped
<1>2. (m = D \/ m = D + 1) /\ (m = D + 1 => MemOf(merge, D + 1) = length)
  BY <1>1, MatchedLoops
<1>3. /\ old \in Nodes /\ old.op = merge.op
      /\ CountsOf(old) = CountsOf(merge) \o CountsOf(target)
      /\ ValuesOf(old) = ValuesOf(merge) \o ValuesOf(target)
  BY <1>1, NodeRepeats
<1>4. /\ l \in Seq(LoopItems) /\ Len(l) = m
      /\ \A d \in 1..m : /\ Scalar(l[d].mem) = Scalar(merge.loops[d].mem)
                         /\ Scalar(l[d].iter) = Scalar(merge.loops[d].iter)
  BY <1>1, Agreeing
<1>5. new.op = merge.op /\ new.loops = loops /\ new.count = old.count /\ new.values = old.values
  <2> HIDE DEF loops, old
  <2> QED BY <1>3 DEF Nodes
<1>6. /\ CountsOf(new) = CountsOf(merge) \o CountsOf(target)
      /\ ValuesOf(new) = ValuesOf(merge) \o ValuesOf(target)
  <2> HIDE DEF new, old
  <2> QED BY <1>3, <1>5 DEF CountsOf, ValuesOf
<1>7. Depth(new) = Len(loops)
  BY <1>5 DEF Depth
<1>8. CASE m = D
  <2>1. loops = InsertLoop(l, length, 2, {rank})
    BY <1>1, <1>8 DEF HeadLoops
  <2> HIDE DEF l, loops, new
  <2>2. /\ Len(loops) = D + 1 /\ Scalar(loops[1].mem) = length /\ Scalar(loops[1].iter) = 2
        /\ \A d \in 1..D : loops[d + 1] = l[d]
    <3>1. l \in Seq(LoopItems) /\ Len(l) = D
      BY <1>4, <1>8
    <3>2. /\ Len(loops) = Len(l) + 1 /\ Scalar(loops[1].mem) = length /\ Scalar(loops[1].iter) = 2
          /\ \A d \in 1..Len(l) : loops[d + 1] = l[d]
      BY <2>1, <3>1, LoopInserted
    <3> QED BY <3>1, <3>2
  <2> HIDE DEF D, m
  <2>3. D + 1 + 1 - (D + 1) = 1
    BY <1>1
  <2>4. MemOf(new, D + 1) = length /\ IterOf(new, D + 1) = 2
    BY <1>5, <1>7, <2>2, <2>3 DEF MemOf, IterOf, LoopOf
  <2>5. ASSUME NEW h \in 1..D PROVE SameLoop(new, merge, h)
    <3> DEFINE d == D + 1 - h
    <3>1. d \in 1..D /\ d \in 1..m /\ D + 1 + 1 - h = d + 1
      BY <1>1, <1>8
    <3> HIDE DEF d
    <3>2. loops[D + 1 + 1 - h] = l[d]
      BY <2>2, <3>1
    <3>3. Scalar(l[d].mem) = Scalar(merge.loops[d].mem) /\ Scalar(l[d].iter) = Scalar(merge.loops[d].iter)
      BY <1>4, <3>1
    <3> QED BY <1>5, <1>7, <1>8, <2>2, <3>2, <3>3 DEF SameLoop, MemOf, IterOf, LoopOf, d, m
  <2> QED BY <1>5, <1>6, <1>7, <1>8, <2>2, <2>4, <2>5 DEF new, m, D, old, loops
<1>9. CASE m = D + 1
  <2>1. loops = [l EXCEPT ![1].iter = Increment(@)]
    <3>1. m # D /\ m - D = 1
      BY <1>1, <1>9
    <3> QED BY <3>1 DEF HeadLoops
  <2> HIDE DEF l, loops, new, D, m
  <2>2. 1 \in 1..m /\ l[1] \in LoopItems /\ l[1].iter \in Scalars
    <3>1. 1 \in 1..m
      BY <1>1, <1>9
    <3>2. l[1] \in LoopItems
      BY <1>4, <3>1
    <3> QED BY <3>1, <3>2 DEF LoopItems
  <2>3. /\ Len(loops) = m /\ loops[1].mem = l[1].mem /\ loops[1].iter = Increment(l[1].iter)
        /\ \A d \in 2..m : loops[d] = l[d]
    BY <1>4, <2>1, <2>2 DEF LoopItems
  <2>4. Scalar(loops[1].iter) = Scalar(merge.loops[1].iter) + 1 /\ Scalar(loops[1].mem) = Scalar(merge.loops[1].mem)
    <3>1. Scalar(Increment(l[1].iter)) = Scalar(l[1].iter) + 1
      BY <2>2, IncrementTyped
    <3> QED BY <1>4, <2>2, <2>3, <3>1
  <2>5. D + 1 + 1 - (D + 1) = 1
    BY <1>1
  <2>6. MemOf(new, D + 1) = length /\ IterOf(new, D + 1) = IterOf(merge, D + 1) + 1
    <3>1. MemOf(merge, D + 1) = length
      BY <1>2, <1>9
    <3> QED BY <1>5, <1>7, <1>9, <2>3, <2>4, <2>5, <3>1 DEF MemOf, IterOf, LoopOf, m
  <2>7. ASSUME NEW h \in 1..D PROVE SameLoop(new, merge, h)
    <3> DEFINE d == D + 1 + 1 - h
    <3>1. d \in 2..m /\ d \in 1..m
      BY <1>1, <1>9
    <3> HIDE DEF d
    <3>2. loops[d] = l[d] /\ Scalar(l[d].mem) = Scalar(merge.loops[d].mem) /\ Scalar(l[d].iter) = Scalar(merge.loops[d].iter)
      BY <1>4, <2>3, <3>1
    <3> QED BY <1>5, <1>7, <1>9, <2>3, <3>2 DEF SameLoop, MemOf, IterOf, LoopOf, d, m
  <2>8. m # D /\ Len(loops) = D + 1
    BY <1>1, <1>9, <2>3
  <2> QED BY <1>5, <1>6, <1>7, <2>6, <2>7, <2>8 DEF new, m, D, old, loops
<1> QED BY <1>2, <1>8, <1>9

\* The trace u after a fold at head, in which the nodes from head on repeat those
\* before them: what the calls of both are, and the loops they are in.
Repeated(t, head, u) ==
  LET length == Len(t) - head + 1
      first == head - length
      D == Depth(t[head])
  IN  /\ length \in Nat \ {0} /\ first \in 1..(head - 1) /\ Len(t) = head + length - 1
      /\ ~t[head].member /\ ~t[first].member
      /\ t \in Seq(Nodes) /\ u \in Seq(Nodes) /\ Len(u) = head - 1
      /\ \A i \in 1..(first - 1) : u[i] = t[i]
      /\ \A i \in first..(head - 1) :
           /\ u[i].op = t[i].op /\ u[i].op = t[i + length].op
           /\ CountsOf(u[i]) = CountsOf(t[i]) \o CountsOf(t[i + length])
           /\ ValuesOf(u[i]) = ValuesOf(t[i]) \o ValuesOf(t[i + length])
           /\ \A h \in 1..Depth(t[i + length]) : SameLoop(u[i], t[i], h) /\ SameLoop(u[i], t[i + length], h)
      /\ \A i \in (first + 1)..(head - 1) : Depth(u[i]) = Depth(t[i]) /\ Depth(t[i + length]) = Depth(t[i])
      /\ Depth(u[first]) = D + 1 /\ MemOf(u[first], D + 1) = length
      /\ \/ Depth(t[first]) = D /\ IterOf(u[first], D + 1) = 2
         \/ /\ Depth(t[first]) = D + 1 /\ MemOf(t[first], D + 1) = length
            /\ IterOf(u[first], D + 1) = IterOf(t[first], D + 1) + 1

\* Fold leaves such a trace.
LEMMA FoldRepeats ==
  ASSUME NEW t \in Seq(Nodes), NEW head \in 2..Len(t), Foldable(t, head)
  PROVE  Repeated(t, head, Fold(t, head))
<1> DEFINE length == Len(t) - head + 1
           first == head - length
           D == Depth(t[head])
           u == Fold(t, head)
<1>1. /\ length \in Nat \ {0} /\ first \in 1..(head - 1) /\ first + length = head /\ Len(t) = head + length - 1
      /\ ~t[head].member /\ ~t[first].member
      /\ \A i \in 1..(first - 1) : u[i] = t[i]
      /\ u[first] = [MergeNode(t[first], t[head]) EXCEPT !.loops = HeadLoops(t[first], t[head], length)]
      /\ \A i \in (first + 1)..(head - 1) : u[i] = [MergeNode(t[i], t[i + length]) EXCEPT !.member = TRUE]
      /\ \A i \in first..(head - 1) : t[i].op = t[i + length].op /\ i \in 1..Len(t) /\ i + length \in head..Len(t)
      /\ LoopMatch(t[first], t[head], D, length)
      /\ \A i \in (first + 1)..(head - 1) : LoopMatch(t[i], t[i + length], Depth(t[i]), length)
  <2>1. ByNode(t, head, u)
    BY FoldByNode
  <2> HIDE DEF u
  <2> QED BY <2>1 DEF ByNode
<1>2. u \in Seq(Nodes) /\ Len(u) = head - 1
  BY FoldFolds DEF Folded
<1>3. \A i \in 1..Len(t) : t[i] \in Nodes
  OBVIOUS
<1> HIDE DEF u, first, length, D
<1>4. head \in Nat /\ first \in Nat
  BY <1>1
<1>5. \A i \in first..(head - 1) : t[i] \in Nodes /\ t[i + length] \in Nodes
  <2> TAKE i \in first..(head - 1)
  <2>1. i \in 1..Len(t) /\ i + length \in head..Len(t)
    BY <1>1
  <2>2. i + length \in 1..Len(t)
    BY <1>4, <2>1
  <2> QED BY <1>3, <2>1, <2>2
<1>6. /\ u[first].op = t[first].op /\ u[first].op = t[head].op
      /\ CountsOf(u[first]) = CountsOf(t[first]) \o CountsOf(t[head])
      /\ ValuesOf(u[first]) = ValuesOf(t[first]) \o ValuesOf(t[head])
      /\ \A h \in 1..D : SameLoop(u[first], t[first], h) /\ SameLoop(u[first], t[head], h)
      /\ Depth(u[first]) = D + 1 /\ MemOf(u[first], D + 1) = length
      /\ \/ Depth(t[first]) = D /\ IterOf(u[first], D + 1) = 2
         \/ /\ Depth(t[first]) = D + 1 /\ MemOf(t[first], D + 1) = length
            /\ IterOf(u[first], D + 1) = IterOf(t[first], D + 1) + 1
  <2>1. first \in first..(head - 1)
    BY <1>1, <1>4
  <2>2. t[first] \in Nodes /\ t[head] \in Nodes /\ t[first].op = t[head].op
    BY <1>1, <1>5, <2>1
  <2>3. length \in Int /\ LoopMatch(t[first], t[head], D, length)
    BY <1>1
  <2>4. D \in Nat /\ D >= D
    BY <2>2, NodeTyped DEF D
  <2>5. /\ Depth(t[first]) = D \/ Depth(t[first]) = D + 1
        /\ \A h \in 1..D : SameLoop(t[first], t[head], h)
        /\ Depth(t[first]) = D + 1 => MemOf(t[first], D + 1) = length
    BY <2>2, <2>3, <2>4, MatchedLoops DEF D
  <2>6. /\ u[first].op = t[first].op /\ Depth(u[first]) = D + 1
        /\ CountsOf(u[first]) = CountsOf(t[first]) \o CountsOf(t[head])
        /\ ValuesOf(u[first]) = ValuesOf(t[first]) \o ValuesOf(t[head])
        /\ \A h \in 1..D : SameLoop(u[first], t[first], h)
        /\ MemOf(u[first], D + 1) = length
        /\ IterOf(u[first], D + 1) = IF Depth(t[first]) = D THEN 2 ELSE IterOf(t[first], D + 1) + 1
    <3> DEFINE new == [MergeNode(t[first], t[head]) EXCEPT !.loops = HeadLoops(t[first], t[head], length)]
    <3>1. u[first] = new
      BY <1>1
    <3>2. /\ new.op = t[first].op /\ Depth(new) = D + 1
          /\ CountsOf(new) = CountsOf(t[first]) \o CountsOf(t[head])
          /\ ValuesOf(new) = ValuesOf(t[first]) \o ValuesOf(t[head])
          /\ \A h \in 1..D : SameLoop(new, t[first], h)
          /\ MemOf(new, D + 1) = length
          /\ IterOf(new, D + 1) = IF Depth(t[first]) = D THEN 2 ELSE IterOf(t[first], D + 1) + 1
      <4>1. LoopMatch(t[first], t[head], Depth(t[head]), length)
        BY <2>3 DEF D
      <4> QED BY <2>2, <2>3, <4>1, HeadRepeats, ZenonT(30) DEF D
    <3> HIDE DEF new
    <3> QED BY <3>1, <3>2
  <2>7. \A h \in 1..D : SameLoop(u[first], t[head], h)
    BY <2>5, <2>6 DEF SameLoop
  <2>8. Depth(t[first]) = D + 1 => Depth(t[first]) # D
    BY <2>4
  <2> QED BY <2>2, <2>5, <2>6, <2>7, <2>8
<1>7. ASSUME NEW i \in (first + 1)..(head - 1)
      PROVE  /\ u[i].op = t[i].op /\ u[i].op = t[i + length].op
             /\ CountsOf(u[i]) = CountsOf(t[i]) \o CountsOf(t[i + length])
             /\ ValuesOf(u[i]) = ValuesOf(t[i]) \o ValuesOf(t[i + length])
             /\ \A h \in 1..Depth(t[i + length]) : SameLoop(u[i], t[i], h) /\ SameLoop(u[i], t[i + length], h)
             /\ Depth(u[i]) = Depth(t[i]) /\ Depth(t[i + length]) = Depth(t[i])
  <2> DEFINE j == i + length
             new == MergeNode(t[i], t[j])
  <2>1. i \in first..(head - 1)
    BY <1>4
  <2>2. t[i] \in Nodes /\ t[j] \in Nodes /\ t[i].op = t[j].op
    BY <1>1, <1>5, <2>1
  <2>3. LoopMatch(t[i], t[j], Depth(t[i]), length) /\ u[i] = [new EXCEPT !.member = TRUE]
    BY <1>1
  <2> HIDE DEF j, new
  <2>4. Depth(t[i]) \in Nat /\ Depth(t[j]) \in Nat
    BY <2>2, NodeTyped
  <2>5. Depth(t[j]) = Depth(t[i])
    <3>1. Depth(t[i]) - Depth(t[j]) \in {0, 1} /\ Depth(t[i]) <= Depth(t[j])
      BY <2>3 DEF LoopMatch
    <3> QED BY <2>4, <3>1
  <2>6. Depth(t[i]) >= Depth(t[j])
    BY <2>4, <2>5
  <2>7. \A h \in 1..Depth(t[j]) : SameLoop(t[i], t[j], h)
    BY <2>2, <2>3, <2>4, <2>6, MatchedLoops
  <2>8. /\ new \in Nodes /\ new.op = t[i].op /\ Depth(new) = Depth(t[i])
        /\ CountsOf(new) = CountsOf(t[i]) \o CountsOf(t[j])
        /\ ValuesOf(new) = ValuesOf(t[i]) \o ValuesOf(t[j])
        /\ \A h \in 1..Depth(t[i]) : SameLoop(new, t[i], h)
    BY <2>2, <2>3, <2>4, <2>6, NodeRepeats DEF new
  <2>9. u[i].op = new.op /\ u[i].loops = new.loops /\ u[i].count = new.count /\ u[i].values = new.values
    BY <2>3, <2>8 DEF Nodes
  <2>10. /\ Depth(u[i]) = Depth(new) /\ CountsOf(u[i]) = CountsOf(new) /\ ValuesOf(u[i]) = ValuesOf(new)
         /\ \A h : MemOf(u[i], h) = MemOf(new, h) /\ IterOf(u[i], h) = IterOf(new, h)
    BY <2>9 DEF Depth, CountsOf, ValuesOf, MemOf, IterOf, LoopOf
  <2>11. \A h \in 1..Depth(t[j]) : SameLoop(u[i], t[i], h) /\ SameLoop(u[i], t[j], h)
    BY <2>5, <2>7, <2>8, <2>10 DEF SameLoop
  <2> QED BY <2>2, <2>5, <2>8, <2>9, <2>10, <2>11 DEF j
<1>8. ASSUME NEW i \in first..(head - 1)
      PROVE  /\ u[i].op = t[i].op /\ u[i].op = t[i + length].op
             /\ CountsOf(u[i]) = CountsOf(t[i]) \o CountsOf(t[i + length])
             /\ ValuesOf(u[i]) = ValuesOf(t[i]) \o ValuesOf(t[i + length])
             /\ \A h \in 1..Depth(t[i + length]) : SameLoop(u[i], t[i], h) /\ SameLoop(u[i], t[i + length], h)
  <2>1. CASE i = first
    BY <1>1, <1>6, <2>1 DEF D
  <2>2. CASE i # first
    <3>1. i \in (first + 1)..(head - 1)
      BY <1>4, <2>2
    <3> QED BY <1>7, <3>1
  <2> QED BY <2>1, <2>2
<1> QED BY <1>1, <1>2, <1>6, <1>7, <1>8 DEF Repeated, u, first, length, D
-----------------------------------------------------------------------------
(* Loops around nodes. *)

\* A loop's length and iterations are numbers.
LEMMA LoopTyped ==
  ASSUME NEW node \in Nodes, NEW h \in 1..Depth(node)
  PROVE  MemOf(node, h) \in Int /\ IterOf(node, h) \in Int /\ Depth(node) \in Nat /\ Depth(node) + 1 - h \in 1..Depth(node)
<1> DEFINE d == Depth(node) + 1 - h
<1>1. Depth(node) \in Nat /\ node.loops \in Seq(LoopItems) /\ Depth(node) = Len(node.loops)
  BY NodeTyped
<1>2. d \in 1..Depth(node)
  BY <1>1
<1>3. node.loops[d] \in LoopItems
  BY <1>1, <1>2
<1>4. \A x \in Scalars : Scalar(x) \in Int
  <2> TAKE x \in Scalars
  <2>1. x \in Parameters /\ Len(x[1].vals) = 1
    BY DEF Scalars
  <2>2. x[1].vals \in Seq(Int)
    BY <2>1, ParameterTyped
  <2> QED BY <2>1, <2>2 DEF Scalar
<1> HIDE DEF d
<1>5. node.loops[d].mem \in Scalars /\ node.loops[d].iter \in Scalars
  BY <1>3 DEF LoopItems
<1> QED BY <1>1, <1>2, <1>4, <1>5 DEF MemOf, IterOf, LoopOf, d

\* The loops around a node, leader by leader.
LEMMA AroundByNode ==
  ASSUME NEW t \in Seq(Nodes), NEW i \in Int
  PROVE  /\ \A l \in Around(t, i) :
              /\ l = <<l[1], l[2]>> /\ l[1] \in 1..Len(t) /\ l[2] \in 1..Depth(t[l[1]]) /\ l[2] \in Nat
              /\ l[1] <= i /\ i <= l[1] + MemOf(t[l[1]], l[2]) - 1
         /\ \A j \in 1..Len(t) : \A h \in 1..Depth(t[j]) :
              j <= i /\ i <= j + MemOf(t[j], h) - 1 => <<j, h>> \in Around(t, i)
<1>1. \A j \in 1..Len(t) : t[j] \in Nodes /\ DOMAIN t[j].loops = 1..Depth(t[j]) /\ Depth(t[j]) \in Nat
  BY NodeTyped
<1>2. DOMAIN t = 1..Len(t)
  OBVIOUS
<1>3. \A j, h : Scalar(LoopAt(t, <<j, h>>).mem) = MemOf(t[j], h)
  BY DEF LoopAt, MemOf, LoopOf
<1>4. \A l : l \in Loops(t) <=> \E j \in 1..Len(t) : \E h \in 1..Depth(t[j]) : l = <<j, h>>
  BY <1>1, <1>2 DEF Loops
<1>5. \A j \in 1..Len(t) : \A h \in 1..Depth(t[j]) : MemOf(t[j], h) \in Int
  BY <1>1, LoopTyped
<1>6. ASSUME NEW l \in Around(t, i)
      PROVE  /\ l = <<l[1], l[2]>> /\ l[1] \in 1..Len(t) /\ l[2] \in 1..Depth(t[l[1]]) /\ l[2] \in Nat
             /\ l[1] <= i /\ i <= l[1] + MemOf(t[l[1]], l[2]) - 1
  <2>1. l \in Loops(t) /\ i \in l[1]..(l[1] + Scalar(LoopAt(t, l).mem) - 1)
    BY DEF Around
  <2>2. PICK j \in 1..Len(t) : \E h \in 1..Depth(t[j]) : l = <<j, h>>
    BY <1>4, <2>1
  <2>3. PICK h \in 1..Depth(t[j]) : l = <<j, h>>
    BY <2>2
  <2>4. Scalar(LoopAt(t, l).mem) = MemOf(t[j], h) /\ l[1] = j /\ l[2] = h
    BY <1>3, <2>3
  <2>5. MemOf(t[j], h) \in Int /\ Depth(t[j]) \in Nat
    BY <1>1, <1>5
  <2> QED BY <2>1, <2>3, <2>4, <2>5
<1>7. ASSUME NEW j \in 1..Len(t), NEW h \in 1..Depth(t[j]), j <= i, i <= j + MemOf(t[j], h) - 1
      PROVE  <<j, h>> \in Around(t, i)
  <2>1. <<j, h>> \in Loops(t)
    BY <1>4
  <2>2. Scalar(LoopAt(t, <<j, h>>).mem) = MemOf(t[j], h) /\ <<j, h>>[1] = j
    BY <1>3
  <2>3. MemOf(t[j], h) \in Int
    BY <1>5
  <2>4. i \in j..(j + MemOf(t[j], h) - 1)
    BY <1>7, <2>3
  <2> QED BY <2>1, <2>2, <2>4 DEF Around
<1> QED BY <1>6, <1>7

\* No loop around a node reaches over one before it that is no member.
LEMMA NoneOver ==
  ASSUME NEW t \in Seq(Nodes), Placed(t), NEW i \in 1..Len(t), ~t[i].member, NEW k \in Int, k >= i,
         NEW l \in Around(t, k)
  PROVE  l[1] >= i
<1> DEFINE j == l[1]
           h == l[2]
           d == Depth(t[j]) + 1 - h
<1>1. j \in 1..Len(t) /\ h \in 1..Depth(t[j]) /\ j <= k /\ k <= j + MemOf(t[j], h) - 1
  BY AroundByNode
<1>2. t[j] \in Nodes
  BY <1>1
<1> HIDE DEF j, h
<1>3. MemOf(t[j], h) \in Int /\ Depth(t[j]) \in Nat /\ d \in 1..Depth(t[j])
  BY <1>1, <1>2, LoopTyped
<1>4. Mem(t, j, d) = MemOf(t[j], h)
  BY DEF Mem, MemOf, LoopOf
<1>5. Marked(t, Len(t))
  BY PlacedByNode
<1>6. ASSUME j < i PROVE FALSE
  <2>1. i \in Span(t, j, d) /\ i # j
    BY <1>1, <1>3, <1>4, <1>6 DEF Span
  <2> HIDE DEF d
  <2>2. t[i].member
    BY <1>1, <1>3, <1>5, <2>1 DEF Marked
  <2> QED BY <2>2
<1> QED BY <1>1, <1>6 DEF j

\* A loop of the first repetition, in the second.
Shift(l, length) == <<l[1] + length, l[2]>>
Back(l, length) == <<l[1] - length, l[2]>>

\* The loops around the nodes of the two traces: those of the second repetition
\* are those of the first, and the loop around both has one more iteration.
Alike(t, head, u) ==
  LET length == Len(t) - head + 1
      first == head - length
      z == <<first, Depth(t[head]) + 1>>
  IN  /\ length \in Nat \ {0} /\ first \in 1..(head - 1) /\ Len(t) = head + length - 1 /\ Len(u) = head - 1
      /\ \A i \in 1..(first - 1) :
           /\ Around(u, i) = Around(t, i)
           /\ \A l \in Around(t, i) : Times(u, l) = Times(t, l) /\ l[1] < first
      /\ \A i \in first..(head - 1) :
           /\ z \in Around(u, i)
           /\ \A l \in Around(u, i) \ {z} :
                /\ Outside(z, l)
                /\ l \in Around(t, i) /\ Times(u, l) = Times(t, l)
                /\ Shift(l, length) \in Around(t, i + length) /\ Times(u, l) = Times(t, Shift(l, length))
           /\ \A l \in Around(t, i) : l[1] >= first /\ (l # z => l \in Around(u, i))
           /\ \A l \in Around(t, i + length) :
                l[1] >= head /\ Back(l, length) \in Around(u, i) \ {z} /\ l = Shift(Back(l, length), length)
      /\ \/ (\A i \in first..(head - 1) : z \notin Around(t, i)) /\ Times(u, z) = 2
         \/ (\A i \in first..(head - 1) : z \in Around(t, i)) /\ Times(u, z) = Times(t, z) + 1

\* A fold has made the traces alike.
LEMMA RepeatedAlike ==
  ASSUME NEW t \in Seq(Nodes), Placed(t), NEW head \in 2..Len(t), NEW u, Repeated(t, head, u)
  PROVE  Alike(t, head, u)
<1> DEFINE length == Len(t) - head + 1
           first == head - length
           D == Depth(t[head])
           z == <<first, D + 1>>
<1>1. /\ length \in Nat \ {0} /\ first \in 1..(head - 1) /\ Len(t) = head + length - 1
      /\ ~t[head].member /\ ~t[first].member
      /\ u \in Seq(Nodes) /\ Len(u) = head - 1
      /\ \A i \in 1..(first - 1) : u[i] = t[i]
      /\ \A i \in first..(head - 1) :
           \A h \in 1..Depth(t[i + length]) : SameLoop(u[i], t[i], h) /\ SameLoop(u[i], t[i + length], h)
      /\ \A i \in (first + 1)..(head - 1) : Depth(u[i]) = Depth(t[i]) /\ Depth(t[i + length]) = Depth(t[i])
      /\ Depth(u[first]) = D + 1 /\ MemOf(u[first], D + 1) = length
      /\ \/ Depth(t[first]) = D /\ IterOf(u[first], D + 1) = 2
         \/ /\ Depth(t[first]) = D + 1 /\ MemOf(t[first], D + 1) = length
            /\ IterOf(u[first], D + 1) = IterOf(t[first], D + 1) + 1
  BY DEF Repeated
<1>2. first = head - length
  OBVIOUS
<1> HIDE DEF length, first, D, z
<1>3. first + length = head /\ head \in Nat /\ first \in Nat
  BY <1>1, <1>2
<1>4. \A i \in 1..(head - 1) : t[i] \in Nodes /\ u[i] \in Nodes /\ Depth(u[i]) \in Nat /\ Depth(t[i]) \in Nat
  <2>1. \A i \in 1..(head - 1) : t[i] \in Nodes /\ u[i] \in Nodes
    BY <1>1, <1>3
  <2> QED BY <2>1, NodeTyped
<1>5. D \in Nat
  <2>1. t[head] \in Nodes
    OBVIOUS
  <2> QED BY <2>1, NodeTyped DEF D
<1>6. z[1] = first /\ z[2] = D + 1 /\ z = <<z[1], z[2]>>
  BY DEF z
\* Heights: what loops the nodes of each repetition lead.
<1>7. ASSUME NEW j \in first..(head - 1), NEW h \in Nat
      PROVE  /\ h \in 1..Depth(t[j + length]) <=> h \in 1..Depth(u[j]) /\ <<j, h>> # z
             /\ h \in 1..Depth(t[j + length]) <=> h \in 1..Depth(t[j]) /\ <<j, h>> # z
  <2>1. CASE j = first
    <3>1. j + length = head /\ Depth(t[j + length]) = D /\ (<<j, h>> # z <=> h # D + 1)
      BY <1>3, <1>6, <2>1 DEF D, z
    <3>2. Depth(u[j]) = D + 1 /\ (Depth(t[j]) = D \/ Depth(t[j]) = D + 1)
      BY <1>1, <2>1
    <3> QED BY <1>5, <3>1, <3>2
  <2>2. CASE j # first
    <3>1. j \in (first + 1)..(head - 1) /\ <<j, h>> # z
      BY <1>3, <2>2 DEF z
    <3>2. Depth(u[j]) = Depth(t[j]) /\ Depth(t[j + length]) = Depth(t[j])
      BY <1>1, <3>1
    <3> QED BY <3>1, <3>2
  <2> QED BY <2>1, <2>2
<1>8. ASSUME NEW j \in first..(head - 1), NEW h \in 1..Depth(t[j + length])
      PROVE  /\ MemOf(u[j], h) = MemOf(t[j], h) /\ IterOf(u[j], h) = IterOf(t[j], h)
             /\ MemOf(u[j], h) = MemOf(t[j + length], h) /\ IterOf(u[j], h) = IterOf(t[j + length], h)
  BY <1>1 DEF SameLoop
<1>9. \A x, l : Times(x, l) = IterOf(x[l[1]], l[2])
  BY DEF Times, LoopAt, IterOf, LoopOf
\* Loops around nodes, for each trace.
<1>10. \A i \in Int : /\ \A l \in Around(u, i) :
                          /\ l = <<l[1], l[2]>> /\ l[1] \in 1..(head - 1) /\ l[2] \in 1..Depth(u[l[1]]) /\ l[2] \in Nat
                          /\ l[1] <= i /\ i <= l[1] + MemOf(u[l[1]], l[2]) - 1
                     /\ \A j \in 1..(head - 1) : \A h \in 1..Depth(u[j]) :
                          j <= i /\ i <= j + MemOf(u[j], h) - 1 => <<j, h>> \in Around(u, i)
  BY <1>1, AroundByNode
<1>11. \A i \in Int : /\ \A l \in Around(t, i) :
                           /\ l = <<l[1], l[2]>> /\ l[1] \in 1..Len(t) /\ l[2] \in 1..Depth(t[l[1]]) /\ l[2] \in Nat
                           /\ l[1] <= i /\ i <= l[1] + MemOf(t[l[1]], l[2]) - 1
                      /\ \A j \in 1..Len(t) : \A h \in 1..Depth(t[j]) :
                           j <= i /\ i <= j + MemOf(t[j], h) - 1 => <<j, h>> \in Around(t, i)
  BY AroundByNode
<1>12. \A k \in Int : \A l \in Around(t, k) : k >= first => l[1] >= first
  <2>1. first \in 1..Len(t)
    BY <1>1, <1>3
  <2> QED BY <1>1, <2>1, NoneOver
<1>13. \A k \in Int : \A l \in Around(t, k) : k >= head => l[1] >= head
  <2>1. head \in 1..Len(t)
    OBVIOUS
  <2> QED BY <1>1, <2>1, NoneOver
<1>14. ASSUME NEW i \in 1..(first - 1)
       PROVE  /\ Around(u, i) = Around(t, i)
              /\ \A l \in Around(t, i) : Times(u, l) = Times(t, l) /\ l[1] < first
  <2>1. i \in Int /\ i < first /\ i < head
    BY <1>1, <1>3
  <2>2. ASSUME NEW l \in Around(u, i) PROVE l \in Around(t, i)
    <3>1. l = <<l[1], l[2]>> /\ l[1] \in 1..(head - 1) /\ l[2] \in 1..Depth(u[l[1]]) /\ l[1] <= i /\ i <= l[1] + MemOf(u[l[1]], l[2]) - 1
      BY <1>10, <2>1
    <3>2. l[1] \in 1..(first - 1) /\ l[1] \in 1..Len(t)
      BY <1>1, <1>3, <2>1, <3>1
    <3>3. u[l[1]] = t[l[1]]
      BY <1>1, <3>2
    <3> QED BY <1>11, <2>1, <3>1, <3>2, <3>3
  <2>3. ASSUME NEW l \in Around(t, i) PROVE l \in Around(u, i) /\ Times(u, l) = Times(t, l) /\ l[1] < first
    <3>1. l = <<l[1], l[2]>> /\ l[1] \in 1..Len(t) /\ l[2] \in 1..Depth(t[l[1]]) /\ l[1] <= i /\ i <= l[1] + MemOf(t[l[1]], l[2]) - 1
      BY <1>11, <2>1
    <3>2. l[1] \in 1..(first - 1) /\ l[1] \in 1..(head - 1) /\ l[1] < first
      BY <1>1, <1>3, <2>1, <3>1
    <3>3. u[l[1]] = t[l[1]]
      BY <1>1, <3>2
    <3>4. Times(u, l) = Times(t, l)
      BY <1>9, <3>3
    <3> QED BY <1>10, <2>1, <3>1, <3>2, <3>3, <3>4
  <2> QED BY <2>2, <2>3
<1>15. ASSUME NEW i \in first..(head - 1)
       PROVE  z \in Around(u, i)
  <2>1. first <= i /\ i <= first + length - 1 /\ i \in Int
    BY <1>1, <1>3
  <2>2. D + 1 \in 1..Depth(u[first])
    BY <1>1, <1>5
  <2> QED BY <1>1, <1>6, <1>10, <2>1, <2>2
<1>16. ASSUME NEW i \in first..(head - 1), NEW l \in Around(u, i) \ {z}
       PROVE  /\ Outside(z, l)
              /\ l \in Around(t, i) /\ Times(u, l) = Times(t, l)
              /\ Shift(l, length) \in Around(t, i + length) /\ Times(u, l) = Times(t, Shift(l, length))
  <2> DEFINE j == l[1]
             h == l[2]
  <2>1. l = <<j, h>> /\ j \in 1..(head - 1) /\ h \in 1..Depth(u[j]) /\ h \in Nat /\ j <= i /\ i <= j + MemOf(u[j], h) - 1
        /\ i \in Int /\ i + length \in Int
    BY <1>1, <1>3, <1>10
  <2> HIDE DEF j, h
  <2>2. j >= first
    <3>1. ASSUME j < first PROVE FALSE
      <4>1. j \in 1..(first - 1) /\ j \in 1..Len(t)
        BY <1>1, <1>3, <2>1, <3>1
      <4>2. u[j] = t[j]
        BY <1>1, <4>1
      <4>3. <<j, h>> \in Around(t, i) /\ <<j, h>>[1] = j
        BY <1>11, <2>1, <4>1, <4>2
      <4>4. i >= first
        BY <1>3
      <4>5. <<j, h>>[1] >= first
        BY <1>12, <2>1, <4>3, <4>4
      <4> QED BY <1>3, <2>1, <3>1, <4>3, <4>5
    <3> QED BY <1>3, <2>1, <3>1
  <2>3. j \in first..(head - 1) /\ <<j, h>> # z
    BY <1>3, <2>1, <2>2
  <2>4. h \in 1..Depth(t[j + length]) /\ h \in 1..Depth(t[j])
    BY <1>7, <2>1, <2>3
  <2>5. /\ MemOf(u[j], h) = MemOf(t[j], h) /\ IterOf(u[j], h) = IterOf(t[j], h)
        /\ MemOf(u[j], h) = MemOf(t[j + length], h) /\ IterOf(u[j], h) = IterOf(t[j + length], h)
    BY <1>8, <2>3, <2>4
  <2>6. j \in 1..Len(t) /\ j + length \in 1..Len(t) /\ j + length <= i + length
    BY <1>1, <1>3, <2>1, <2>3, SMTT(30)
  <2>7. MemOf(u[j], h) \in Int
    BY <1>4, <2>1, LoopTyped
  <2>8. i + length <= j + length + MemOf(t[j + length], h) - 1
    BY <1>1, <2>1, <2>3, <2>5, <2>7
  <2>9. <<j, h>> \in Around(t, i) /\ <<j + length, h>> \in Around(t, i + length)
    BY <1>11, <2>1, <2>4, <2>5, <2>6, <2>8
  <2>10. Outside(z, <<j, h>>)
    <3>1. CASE j = first
      <4>1. h # D + 1 /\ h <= D + 1
        BY <1>1, <1>5, <1>6, <2>1, <2>3, <3>1
      <4>2. D + 1 > h
        BY <1>5, <2>1, <4>1
      <4> QED BY <1>6, <3>1, <4>2 DEF Outside
    <3>2. CASE j # first
      <4>1. first < j
        BY <1>3, <2>3, <3>2
      <4> QED BY <1>6, <4>1 DEF Outside
    <3> QED BY <3>1, <3>2
  <2> QED BY <1>9, <2>1, <2>5, <2>9, <2>10 DEF Shift, j, h
<1>17. ASSUME NEW i \in first..(head - 1), NEW l \in Around(t, i) PROVE l[1] >= first /\ (l # z => l \in Around(u, i))
  <2> DEFINE j == l[1]
             h == l[2]
  <2>1. l = <<j, h>> /\ j \in 1..Len(t) /\ h \in 1..Depth(t[j]) /\ h \in Nat /\ j <= i /\ i <= j + MemOf(t[j], h) - 1
        /\ i \in Int /\ i >= first
    BY <1>3, <1>11
  <2>2. j >= first
    BY <1>12, <2>1
  <2> HIDE DEF j, h
  <2>3. j \in first..(head - 1) /\ j \in 1..(head - 1)
    BY <1>1, <1>3, <2>1, <2>2
  <2>4. ASSUME <<j, h>> # z PROVE <<j, h>> \in Around(u, i)
    <3>1. h \in 1..Depth(t[j + length]) /\ h \in 1..Depth(u[j])
      BY <1>7, <2>1, <2>3, <2>4
    <3>2. MemOf(u[j], h) = MemOf(t[j], h)
      BY <1>8, <2>3, <3>1
    <3> QED BY <1>10, <2>1, <2>3, <3>1, <3>2
  <2> QED BY <2>1, <2>2, <2>4 DEF j
<1>18. ASSUME NEW i \in first..(head - 1), NEW l \in Around(t, i + length)
       PROVE  l[1] >= head /\ Back(l, length) \in Around(u, i) \ {z} /\ l = Shift(Back(l, length), length)
  <2> DEFINE j == l[1] - length
             h == l[2]
  <2>1. i + length \in Int /\ i + length >= head /\ i \in Int
    BY <1>1, <1>3
  <2>2. l = <<l[1], h>> /\ l[1] \in 1..Len(t) /\ h \in 1..Depth(t[l[1]]) /\ h \in Nat /\ l[1] <= i + length
        /\ i + length <= l[1] + MemOf(t[l[1]], h) - 1
    BY <1>11, <2>1
  <2>3. l[1] >= head
    BY <1>13, <2>1
  <2> HIDE DEF h
  <2>4. j \in first..(head - 1) /\ j \in 1..(head - 1) /\ j + length = l[1] /\ j <= i
    BY <1>1, <1>3, <2>1, <2>2, <2>3, SMTT(30)
  <2> HIDE DEF j
  <2>5. h \in 1..Depth(t[j + length])
    BY <2>2, <2>4
  <2>6. h \in 1..Depth(u[j]) /\ <<j, h>> # z
    BY <1>7, <2>2, <2>4, <2>5
  <2>7. MemOf(u[j], h) = MemOf(t[j + length], h) /\ MemOf(u[j], h) \in Int
    BY <1>4, <1>8, <2>4, <2>5, <2>6, LoopTyped
  <2>8. i <= j + MemOf(u[j], h) - 1
    <3>1. i + length <= j + length + MemOf(u[j], h) - 1
      BY <2>2, <2>4, <2>7
    <3> QED BY <1>1, <2>1, <2>4, <2>7, <3>1
  <2>9. <<j, h>> \in Around(u, i)
    BY <1>10, <2>1, <2>4, <2>6, <2>8
  <2> QED BY <2>2, <2>3, <2>4, <2>6, <2>9 DEF Shift, Back, j, h
<1>19. \/ (\A i \in first..(head - 1) : z \notin Around(t, i)) /\ Times(u, z) = 2
       \/ (\A i \in first..(head - 1) : z \in Around(t, i)) /\ Times(u, z) = Times(t, z) + 1
  <2>1. CASE Depth(t[first]) = D
    <3>1. IterOf(u[first], D + 1) = 2
      BY <1>1, <1>5, <2>1
    <3>2. ASSUME NEW i \in first..(head - 1), z \in Around(t, i) PROVE FALSE
      <4>1. i \in Int
        BY <1>3
      <4>2. z[2] \in 1..Depth(t[z[1]])
        BY <1>11, <3>2, <4>1
      <4> QED BY <1>5, <1>6, <2>1, <4>2
    <3> QED BY <1>6, <1>9, <3>1, <3>2
  <2>2. CASE Depth(t[first]) = D + 1
    <3>1. MemOf(t[first], D + 1) = length /\ IterOf(u[first], D + 1) = IterOf(t[first], D + 1) + 1
      BY <1>1, <1>5, <2>2
    <3>2. ASSUME NEW i \in first..(head - 1) PROVE z \in Around(t, i)
      <4>1. i \in Int /\ first <= i /\ i <= first + MemOf(t[first], D + 1) - 1 /\ first \in 1..Len(t)
        BY <1>1, <1>3, <3>1
      <4>2. D + 1 \in 1..Depth(t[first])
        BY <1>5, <2>2
      <4>3. <<first, D + 1>> \in Around(t, i)
        BY <1>11, <4>1, <4>2
      <4> QED BY <4>3 DEF z
    <3> QED BY <1>6, <1>9, <3>1, <3>2
  <2> QED BY <1>1, <2>1, <2>2
<1> QED BY <1>1, <1>14, <1>15, <1>16, <1>17, <1>18, <1>19 DEF Alike, length, first, D, z
-----------------------------------------------------------------------------
(* The order of calls. *)

Names == Nat \X Nat

\* Before, of a visit of node i with turns f and one of j with turns g, for the
\* loops of A.
Precedes(A, i, f, j, g) ==
  LET differ == {l \in A : f[l] # g[l]}
  IN  \/ differ = {} /\ i < j
      \/ \E l \in differ : f[l] < g[l] /\ \A m \in differ \ {l} : Outside(l, m)

\* n calls are the visits of trace t in their order: call k is of node w[k] in
\* the turns c[k] of the loops around it.
Ordered(t, n, w, c) ==
  /\ w \in [1..n -> 1..Len(t)] /\ c \in [1..n -> [Names -> Nat]]
  /\ \A i \in 1..Len(t) : \A l \in Around(t, i) : Times(t, l) \in Nat \ {0}
  /\ \A k \in 1..n : \A l \in Around(t, w[k]) : c[k][l] \in 1..Times(t, l)
  /\ \A i \in 1..Len(t) : \A f \in [Names -> Nat] :
       (\A l \in Around(t, i) : f[l] \in 1..Times(t, l))
       => \E k \in 1..n : w[k] = i /\ \A l \in Around(t, i) : c[k][l] = f[l]
  /\ \A j, k \in 1..n : j < k => Precedes(Around(t, w[j]) \cap Around(t, w[k]), w[j], c[j], w[k], c[k])

\* Loops are named by numbers.
LEMMA AroundNames ==
  ASSUME NEW t \in Seq(Nodes), NEW i \in Int, NEW l \in Around(t, i)
  PROVE  l \in Names /\ l = <<l[1], l[2]>> /\ l[1] \in Nat /\ l[2] \in Nat
<1>1. l = <<l[1], l[2]>> /\ l[1] \in 1..Len(t) /\ l[2] \in Nat
  BY AroundByNode
<1>2. l[1] \in Nat
  BY <1>1
<1> QED BY <1>1, <1>2 DEF Names

\* The turns f and g of two visits differ for the loops of A as f2 and g2 do for
\* those of B, whose leaders are d nodes before.
Moved(A, f, g, B, f2, g2, d) ==
  /\ \A l \in B : f2[l] = g2[l] \/ (Shift(l, d) \in A /\ f2[l] = f[Shift(l, d)] /\ g2[l] = g[Shift(l, d)])
  /\ \A m \in A : \/ f[m] = g[m]
                  \/ Back(m, d) \in B /\ m = Shift(Back(m, d), d) /\ f2[Back(m, d)] = f[m] /\ g2[Back(m, d)] = g[m]

\* An order is kept when loops are renamed by moving their leaders.
LEMMA PrecedesMoved ==
  ASSUME NEW A \in SUBSET Names, NEW B \in SUBSET Names, NEW d \in Nat,
         NEW i \in Int, NEW j \in Int, NEW i2 \in Int, NEW j2 \in Int, i < j => i2 < j2,
         NEW f, NEW g, NEW f2, NEW g2, Moved(A, f, g, B, f2, g2, d), Precedes(A, i, f, j, g)
  PROVE  Precedes(B, i2, f2, j2, g2)
<1> DEFINE DA == {l \in A : f[l] # g[l]}
           DB == {l \in B : f2[l] # g2[l]}
<1>1. \A l \in DB : l \in Names /\ Shift(l, d) \in DA
  BY DEF Moved
<1>2. \A m \in DA : /\ m \in Names /\ Back(m, d) \in DB /\ m = Shift(Back(m, d), d)
                    /\ f2[Back(m, d)] = f[m] /\ g2[Back(m, d)] = g[m]
  BY DEF Moved
<1>3. \A l \in Names : l = <<l[1], l[2]>> /\ l[1] \in Nat /\ l[2] \in Nat
  BY DEF Names
<1>4. \/ DA = {} /\ i < j
      \/ \E l \in DA : f[l] < g[l] /\ \A m \in DA \ {l} : Outside(l, m)
  BY DEF Precedes
<1> HIDE DEF DA, DB
<1>5. CASE DA = {}
  <2>1. DB = {}
    BY <1>1, <1>5
  <2>2. i2 < j2
    BY <1>4, <1>5
  <2> QED BY <2>1, <2>2 DEF Precedes, DB
<1>6. ASSUME NEW m \in DA, f[m] < g[m], \A o \in DA \ {m} : Outside(m, o)
      PROVE  Precedes(B, i2, f2, j2, g2)
  <2> DEFINE l == Back(m, d)
  <2>1. l \in DB /\ m = Shift(l, d) /\ f2[l] < g2[l]
    BY <1>2, <1>6
  <2> HIDE DEF l
  <2>2. l \in Names /\ l = <<l[1], l[2]>> /\ l[1] \in Nat /\ l[2] \in Nat
    BY <1>1, <1>3, <2>1
  <2>3. ASSUME NEW o \in DB \ {l} PROVE Outside(l, o)
    <3>1. o \in Names /\ o = <<o[1], o[2]>> /\ o[1] \in Nat /\ o[2] \in Nat
      BY <1>1, <1>3
    <3>2. Shift(o, d) \in DA
      BY <1>1
    <3>3. Shift(o, d) # m
      <4>1. ASSUME Shift(o, d) = m PROVE o = l
        <5>1. o[1] + d = l[1] + d /\ o[2] = l[2]
          BY <2>1, <4>1 DEF Shift
        <5>2. o[1] = l[1]
          BY <2>2, <3>1, <5>1
        <5> QED BY <2>2, <3>1, <5>1, <5>2
      <4> QED BY <4>1
    <3>4. Outside(m, Shift(o, d))
      BY <1>6, <3>2, <3>3
    <3>5. l[1] + d < o[1] + d \/ (l[1] + d = o[1] + d /\ l[2] > o[2])
      BY <2>1, <3>4 DEF Shift, Outside
    <3> QED BY <2>2, <3>1, <3>5 DEF Outside
  <2> QED BY <2>1, <2>3 DEF Precedes, DB
<1> QED BY <1>4, <1>5, <1>6

\* Nodes before a node that is no member are in no loop with those after it.
LEMMA ApartNodes ==
  ASSUME NEW t \in Seq(Nodes), NEW i \in Int, NEW j \in Int, NEW k \in Int, i < k, k <= j,
         \A l \in Around(t, j) : l[1] >= k
  PROVE  Around(t, i) \cap Around(t, j) = {}
<1>1. ASSUME NEW l \in Around(t, i), l \in Around(t, j) PROVE FALSE
  <2>1. l[1] <= i /\ l[1] \in 1..Len(t)
    BY AroundByNode
  <2>2. l[1] >= k
    BY <1>1
  <2> QED BY <2>1, <2>2
<1> QED BY <1>1

\* Visits that share no loop are in the order of their nodes.
LEMMA PrecedesApart ==
  ASSUME NEW i \in Int, NEW j \in Int, NEW f, NEW g, NEW A, A = {}
  PROVE  Precedes(A, i, f, j, g) <=> i < j
BY DEF Precedes

\* The calls of the first repetition and of what is before it come before those
\* of the second.
LEMMA RepetitionsInOrder ==
  ASSUME NEW t \in Seq(Nodes), NEW head \in 2..Len(t), NEW u, Alike(t, head, u),
         NEW n \in Nat, NEW w, NEW c, Ordered(t, n, w, c),
         NEW j \in 1..n, NEW k \in 1..n, j < k
  PROVE  LET first == head - (Len(t) - head + 1)
         IN  /\ w[k] < head => w[j] < head
             /\ w[k] < first => w[j] < first
<1> DEFINE length == Len(t) - head + 1
           first == head - length
<1>1. /\ length \in Nat \ {0} /\ first \in 1..(head - 1) /\ Len(t) = head + length - 1
      /\ \A i \in first..(head - 1) : \A l \in Around(t, i) : l[1] >= first
      /\ \A i \in first..(head - 1) : \A l \in Around(t, i + length) : l[1] >= head
  BY DEF Alike
<1>2. w[j] \in 1..Len(t) /\ w[k] \in 1..Len(t) /\ head \in Nat
      /\ Precedes(Around(t, w[j]) \cap Around(t, w[k]), w[j], c[j], w[k], c[k])
  BY DEF Ordered
<1>3. first = head - length
  OBVIOUS
<1> HIDE DEF length, first
<1>4. w[j] \in Int /\ w[k] \in Int /\ first \in Int /\ first < head /\ first + length = head
  BY <1>1, <1>2, <1>3
<1>5. ASSUME w[j] >= head PROVE \A l \in Around(t, w[j]) : l[1] >= head
  <2>1. w[j] - length \in first..(head - 1) /\ w[j] = (w[j] - length) + length
    BY <1>1, <1>2, <1>4, <1>5
  <2> QED BY <1>1, <2>1
<1>6. ASSUME w[j] >= first PROVE \A l \in Around(t, w[j]) : l[1] >= first
  <2>1. CASE w[j] >= head
    <3> SUFFICES ASSUME NEW l \in Around(t, w[j]) PROVE l[1] >= first
      OBVIOUS
    <3>1. l[1] >= head /\ l[1] \in Nat
      BY <1>2, <1>4, <1>5, <2>1, AroundNames
    <3> QED BY <1>2, <1>4, <3>1
  <2>2. CASE w[j] < head
    <3>1. w[j] \in first..(head - 1)
      BY <1>2, <1>4, <1>6, <2>2
    <3> QED BY <1>1, <3>1
  <2>3. w[j] >= head \/ w[j] < head
    BY <1>2, <1>4
  <2> QED BY <2>1, <2>2, <2>3
<1>7. ASSUME NEW a \in Int, w[k] < a, w[j] >= a, \A l \in Around(t, w[j]) : l[1] >= a PROVE FALSE
  <2>1. Around(t, w[k]) \cap Around(t, w[j]) = {}
    BY <1>4, <1>7, ApartNodes
  <2>2. Around(t, w[j]) \cap Around(t, w[k]) = {}
    BY <2>1
  <2>3. w[j] < w[k]
    BY <1>2, <1>4, <2>2, PrecedesApart
  <2> QED BY <1>4, <1>7, <2>3
<1>8. ASSUME w[k] < head PROVE w[j] < head
  <2>1. ASSUME w[j] >= head PROVE FALSE
    BY <1>2, <1>5, <1>7, <1>8, <2>1
  <2> QED BY <1>2, <1>4, <2>1
<1>9. ASSUME w[k] < first PROVE w[j] < first
  <2>1. ASSUME w[j] >= first PROVE FALSE
    BY <1>4, <1>6, <1>7, <1>9, <2>1
  <2> QED BY <1>4, <2>1
<1> QED BY <1>8, <1>9 DEF first, length

\* A fold keeps what the trace stands for: calls of the second repetition are
\* visits of the first in one more iteration.
LEMMA FoldOrdered ==
  ASSUME NEW t \in Seq(Nodes), NEW u \in Seq(Nodes), NEW head \in 2..Len(t), Alike(t, head, u),
         NEW n \in Nat, NEW w, NEW c, Ordered(t, n, w, c)
  PROVE  LET length == Len(t) - head + 1
         IN  \E c2 : Ordered(u, n, [k \in 1..n |-> IF w[k] < head THEN w[k] ELSE w[k] - length], c2)
<1> DEFINE length == Len(t) - head + 1
           first == head - length
           z == <<first, Depth(t[head]) + 1>>
           old == z \in Around(t, first)
           K == IF old THEN Times(t, z) ELSE 1
           w2 == [k \in 1..n |-> IF w[k] < head THEN w[k] ELSE w[k] - length]
           turn(k, l) == IF w[k] < head THEN IF l = z /\ ~old THEN 1 ELSE c[k][l]
                                        ELSE IF l = z THEN K + 1 ELSE c[k][Shift(l, length)]
           c2 == [k \in 1..n |-> [l \in Names |-> turn(k, l)]]
<1>1. /\ length \in Nat \ {0} /\ first \in 1..(head - 1) /\ Len(t) = head + length - 1 /\ Len(u) = head - 1
      /\ \A i \in 1..(first - 1) :
           /\ Around(u, i) = Around(t, i)
           /\ \A l \in Around(t, i) : Times(u, l) = Times(t, l) /\ l[1] < first
      /\ \A i \in first..(head - 1) :
           /\ z \in Around(u, i)
           /\ \A l \in Around(u, i) \ {z} :
                /\ Outside(z, l)
                /\ l \in Around(t, i) /\ Times(u, l) = Times(t, l)
                /\ Shift(l, length) \in Around(t, i + length) /\ Times(u, l) = Times(t, Shift(l, length))
           /\ \A l \in Around(t, i) : l[1] >= first /\ (l # z => l \in Around(u, i))
           /\ \A l \in Around(t, i + length) :
                l[1] >= head /\ Back(l, length) \in Around(u, i) \ {z} /\ l = Shift(Back(l, length), length)
      /\ \/ (\A i \in first..(head - 1) : z \notin Around(t, i)) /\ Times(u, z) = 2
         \/ (\A i \in first..(head - 1) : z \in Around(t, i)) /\ Times(u, z) = Times(t, z) + 1
  BY DEF Alike
<1>2. /\ w \in [1..n -> 1..Len(t)] /\ c \in [1..n -> [Names -> Nat]]
      /\ \A i \in 1..Len(t) : \A l \in Around(t, i) : Times(t, l) \in Nat \ {0}
      /\ \A k \in 1..n : \A l \in Around(t, w[k]) : c[k][l] \in 1..Times(t, l)
      /\ \A i \in 1..Len(t) : \A f \in [Names -> Nat] :
           (\A l \in Around(t, i) : f[l] \in 1..Times(t, l))
           => \E k \in 1..n : w[k] = i /\ \A l \in Around(t, i) : c[k][l] = f[l]
      /\ \A j, k \in 1..n : j < k => Precedes(Around(t, w[j]) \cap Around(t, w[k]), w[j], c[j], w[k], c[k])
  BY DEF Ordered
<1>3. first = head - length /\ z[1] = first
  OBVIOUS
<1> HIDE DEF length, first, z
<1>4. head \in Nat /\ first \in Nat /\ first + length = head /\ first < head
  BY <1>1, <1>3
<1>5. /\ K \in Nat \ {0} /\ Times(u, z) = K + 1
      /\ \A i \in first..(head - 1) : old <=> z \in Around(t, i)
  <2>1. first \in first..(head - 1) /\ first \in 1..Len(t)
    BY <1>1, <1>4
  <2>2. CASE old
    <3>1. Times(t, z) \in Nat \ {0}
      BY <1>2, <2>1, <2>2
    <3> QED BY <1>1, <2>1, <2>2, <3>1
  <2>3. CASE ~old
    BY <1>1, <2>1, <2>3
  <2> QED BY <2>2, <2>3
<1> HIDE DEF K, old
<1>6. \A i \in Int : /\ \A l \in Around(t, i) : l \in Names /\ l[1] \in Nat
                     /\ \A l \in Around(u, i) : l \in Names /\ l[1] \in Nat
  BY AroundNames
<1>7. \A l \in Names : Shift(l, length) \in Names
  BY <1>1 DEF Names, Shift
<1>8. \A k \in 1..n : w[k] \in 1..Len(t) /\ w[k] \in Int
  BY <1>2
\* The new turns.
<1>9. c2 \in [1..n -> [Names -> Nat]]
  <2>1. \A k \in 1..n : \A l \in Names : turn(k, l) \in Nat
    BY <1>2, <1>5, <1>7
  <2> HIDE DEF turn
  <2> QED BY <2>1
<1>10. \A k \in 1..n : \A l \in Names : c2[k][l] = turn(k, l)
  OBVIOUS
<1> HIDE DEF c2
<1>11. ASSUME NEW k \in 1..n, w[k] < first
       PROVE  w2[k] = w[k] /\ w[k] \in 1..(first - 1) /\ Around(u, w[k]) = Around(t, w[k])
              /\ \A l \in Around(t, w[k]) : c2[k][l] = c[k][l]
  <2>1. w[k] \in 1..(first - 1) /\ w[k] < head
    BY <1>4, <1>8, <1>11
  <2>2. w2[k] = w[k] /\ Around(u, w[k]) = Around(t, w[k])
    BY <1>1, <2>1
  <2>3. ASSUME NEW l \in Around(t, w[k]) PROVE c2[k][l] = c[k][l]
    <3>1. l[1] < first /\ l \in Names /\ l[1] \in Nat
      BY <1>1, <1>6, <1>8, <2>1
    <3>2. l # z
      BY <1>3, <1>4, <3>1
    <3> QED BY <1>10, <2>1, <3>1, <3>2
  <2> QED BY <2>1, <2>2, <2>3
<1>12. ASSUME NEW k \in 1..n, w[k] >= first, w[k] < head
       PROVE  w2[k] = w[k] /\ w[k] \in first..(head - 1)
              /\ (\A l \in Around(u, w[k]) \ {z} : c2[k][l] = c[k][l])
              /\ c2[k][z] = IF old THEN c[k][z] ELSE 1
  <2>1. w[k] \in first..(head - 1) /\ w2[k] = w[k]
    BY <1>4, <1>8, <1>12
  <2>2. \A l \in Around(u, w[k]) : l \in Names
    BY <1>6, <1>8
  <2>3. z \in Names
    BY <1>1, <2>1, <2>2
  <2>4. c2[k][z] = IF old THEN c[k][z] ELSE 1
    BY <1>10, <1>12, <2>3
  <2> QED BY <1>10, <1>12, <2>1, <2>2, <2>4
<1>13. ASSUME NEW k \in 1..n, w[k] >= head
       PROVE  w2[k] = w[k] - length /\ w2[k] \in first..(head - 1) /\ w[k] = w2[k] + length
              /\ (\A l \in Around(u, w2[k]) \ {z} : c2[k][l] = c[k][Shift(l, length)])
              /\ c2[k][z] = K + 1
  <2>1. ~(w[k] < head) /\ w2[k] = w[k] - length
    BY <1>4, <1>8, <1>13
  <2>2. w2[k] \in first..(head - 1) /\ w[k] = w2[k] + length
    BY <1>1, <1>4, <1>8, <1>13, <2>1
  <2>3. \A l \in Around(u, w2[k]) : l \in Names
    <3>1. w2[k] \in Int
      BY <1>4, <2>2
    <3> QED BY <1>6, <3>1
  <2>4. z \in Names
    BY <1>1, <2>2, <2>3
  <2>5. c2[k][z] = K + 1
    BY <1>10, <2>1, <2>4
  <2>6. \A l \in Around(u, w2[k]) \ {z} : c2[k][l] = c[k][Shift(l, length)]
    BY <1>10, <2>1, <2>3
  <2> QED BY <2>1, <2>2, <2>5, <2>6
<1>14. \A k \in 1..n : w[k] < first \/ (w[k] >= first /\ w[k] < head) \/ w[k] >= head
  BY <1>4, <1>8
<1>15. w2 = [k \in 1..n |-> w2[k]]
  OBVIOUS
<1> HIDE DEF w2
<1>16. w2 \in [1..n -> 1..Len(u)]
  <2>1. \A k \in 1..n : w2[k] \in 1..Len(u)
    <3> TAKE k \in 1..n
    <3>1. CASE w[k] < first
      <4>1. w2[k] = w[k] /\ w[k] \in 1..(first - 1)
        BY <1>11, <3>1
      <4> QED BY <1>1, <1>4, <4>1
    <3>2. CASE w[k] >= first /\ w[k] < head
      <4>1. w2[k] = w[k] /\ w[k] \in first..(head - 1)
        BY <1>12, <3>2
      <4> QED BY <1>1, <1>4, <4>1
    <3>3. CASE w[k] >= head
      <4>1. w2[k] \in first..(head - 1)
        BY <1>13, <3>3
      <4> QED BY <1>1, <1>4, <4>1
    <3> QED BY <1>14, <3>1, <3>2, <3>3
  <2> QED BY <1>15, <2>1
<1>17. ASSUME NEW i \in 1..Len(u), NEW l \in Around(u, i) PROVE Times(u, l) \in Nat \ {0}
  <2>1. CASE i < first
    <3>1. i \in 1..(first - 1) /\ i \in 1..Len(t)
      BY <1>1, <1>4, <2>1
    <3> QED BY <1>1, <1>2, <3>1
  <2>2. CASE i >= first
    <3>1. i \in first..(head - 1) /\ i \in 1..Len(t)
      BY <1>1, <1>4, <2>2
    <3>2. CASE l = z
      <4>1. K + 1 \in Nat \ {0}
        BY <1>5
      <4> QED BY <1>5, <3>2, <4>1
    <3>3. CASE l # z
      BY <1>1, <1>2, <3>1, <3>3
    <3> QED BY <3>2, <3>3
  <2> QED BY <1>4, <2>1, <2>2
<1>18. ASSUME NEW k \in 1..n, NEW l \in Around(u, w2[k]) PROVE c2[k][l] \in 1..Times(u, l)
  <2>1. CASE w[k] < first
    <3>1. /\ w2[k] = w[k] /\ w[k] \in 1..(first - 1) /\ Around(u, w[k]) = Around(t, w[k])
          /\ \A m \in Around(t, w[k]) : c2[k][m] = c[k][m]
      BY <1>11, <2>1
    <3>2. l \in Around(t, w[k])
      BY <3>1
    <3>3. c2[k][l] = c[k][l] /\ Times(u, l) = Times(t, l)
      BY <1>1, <3>1, <3>2
    <3> QED BY <1>2, <3>2, <3>3
  <2>2. CASE w[k] >= first /\ w[k] < head
    <3>1. w2[k] = w[k] /\ w[k] \in first..(head - 1)
      BY <1>12, <2>2
    <3>2. CASE l = z
      <4>1. c2[k][l] = IF old THEN c[k][z] ELSE 1
        BY <1>12, <2>2, <3>2
      <4>2. Times(u, l) = K + 1
        BY <1>5, <3>2
      <4>3. CASE old
        <5>1. c[k][z] \in 1..Times(t, z) /\ K = Times(t, z)
          BY <1>2, <1>5, <3>1, <4>3 DEF K
        <5> QED BY <1>5, <4>1, <4>2, <4>3, <5>1
      <4>4. CASE ~old
        BY <1>5, <4>1, <4>2, <4>4
      <4> QED BY <4>3, <4>4
    <3>3. CASE l # z
      <4>1. c2[k][l] = c[k][l] /\ l \in Around(t, w[k]) /\ Times(u, l) = Times(t, l)
        BY <1>1, <1>12, <2>2, <3>1, <3>3
      <4> QED BY <1>2, <4>1
    <3> QED BY <3>2, <3>3
  <2>3. CASE w[k] >= head
    <3>1. w2[k] \in first..(head - 1) /\ w[k] = w2[k] + length
      BY <1>13, <2>3
    <3>2. CASE l = z
      <4>1. c2[k][l] = K + 1 /\ Times(u, l) = K + 1
        BY <1>5, <1>13, <2>3, <3>2
      <4> QED BY <1>5, <4>1
    <3>3. CASE l # z
      <4>1. c2[k][l] = c[k][Shift(l, length)]
        BY <1>13, <2>3, <3>3
      <4>2. Shift(l, length) \in Around(t, w[k]) /\ Times(u, l) = Times(t, Shift(l, length))
        BY <1>1, <3>1, <3>3
      <4> QED BY <1>2, <4>1, <4>2
    <3> QED BY <3>2, <3>3
  <2> QED BY <1>14, <2>1, <2>2, <2>3
<1>19. ASSUME NEW i \in 1..Len(u), NEW f \in [Names -> Nat], \A l \in Around(u, i) : f[l] \in 1..Times(u, l)
       PROVE  \E k \in 1..n : w2[k] = i /\ \A l \in Around(u, i) : c2[k][l] = f[l]
  <2>1. CASE i < first
    <3>1. i \in 1..(first - 1) /\ i \in 1..Len(t)
      BY <1>1, <1>4, <2>1
    <3>2. Around(u, i) = Around(t, i) /\ \A l \in Around(t, i) : f[l] \in 1..Times(t, l)
      BY <1>1, <1>19, <3>1
    <3>3. PICK k \in 1..n : w[k] = i /\ \A l \in Around(t, i) : c[k][l] = f[l]
      BY <1>2, <3>1, <3>2
    <3> QED BY <1>11, <2>1, <3>2, <3>3
  <2>2. CASE i >= first
    <3>1. i \in first..(head - 1) /\ i \in 1..Len(t) /\ i + length \in 1..Len(t) /\ z \in Around(u, i)
          /\ i + length >= head /\ i < head
      BY <1>1, <1>4, <2>2
    <3>2. f[z] \in 1..(K + 1)
      BY <1>5, <1>19, <3>1
    <3>3. CASE f[z] <= K
      <4>1. ASSUME NEW l \in Around(t, i) PROVE f[l] \in 1..Times(t, l)
        <5>1. CASE l = z
          <6>1. old /\ Times(t, l) = K
            BY <1>5, <3>1, <4>1, <5>1 DEF K
          <6> QED BY <1>5, <3>2, <3>3, <5>1, <6>1
        <5>2. CASE l # z
          <6>1. l \in Around(u, i) \ {z} /\ Times(u, l) = Times(t, l)
            BY <1>1, <3>1, <5>2
          <6> QED BY <1>19, <6>1
        <5> QED BY <5>1, <5>2
      <4>2. PICK k \in 1..n : w[k] = i /\ \A l \in Around(t, i) : c[k][l] = f[l]
        BY <1>2, <3>1, <4>1
      <4>3. w[k] >= first /\ w[k] < head
        BY <2>2, <3>1, <4>2
      <4>4. w2[k] = i /\ (\A l \in Around(u, i) \ {z} : c2[k][l] = c[k][l]) /\ c2[k][z] = IF old THEN c[k][z] ELSE 1
        BY <1>12, <4>2, <4>3
      <4>5. \A l \in Around(u, i) \ {z} : c2[k][l] = f[l]
        BY <1>1, <3>1, <4>2, <4>4
      <4>6. c2[k][z] = f[z]
        <5>1. CASE old
          BY <1>5, <3>1, <4>2, <4>4, <5>1
        <5>2. CASE ~old
          <6>1. K = 1
            BY <5>2 DEF K
          <6> QED BY <3>2, <3>3, <4>4, <5>2, <6>1
        <5> QED BY <5>1, <5>2
      <4> QED BY <4>4, <4>5, <4>6
    <3>4. CASE f[z] = K + 1
      <4> DEFINE g == [l \in Names |-> IF Back(l, length) \in Names THEN f[Back(l, length)] ELSE 0]
      <4>1. g \in [Names -> Nat]
        OBVIOUS
      <4>2. ASSUME NEW l \in Around(t, i + length)
            PROVE  g[l] = f[Back(l, length)] /\ g[l] \in 1..Times(t, l)
        <5>1. Back(l, length) \in Around(u, i) \ {z} /\ l = Shift(Back(l, length), length)
          BY <1>1, <3>1
        <5>2. Back(l, length) \in Names /\ l \in Names
          BY <1>6, <3>1, <5>1
        <5>3. g[l] = f[Back(l, length)]
          BY <5>2
        <5>4. f[Back(l, length)] \in 1..Times(u, Back(l, length))
          BY <1>19, <5>1
        <5>5. Times(u, Back(l, length)) = Times(t, l)
          BY <1>1, <3>1, <5>1
        <5> HIDE DEF g
        <5> QED BY <5>3, <5>4, <5>5
      <4> HIDE DEF g
      <4>3. PICK k \in 1..n : w[k] = i + length /\ \A l \in Around(t, i + length) : c[k][l] = g[l]
        BY <1>2, <3>1, <4>1, <4>2
      <4>4. w[k] >= head
        BY <3>1, <4>3
      <4>5. /\ w2[k] = w[k] - length /\ (\A l \in Around(u, w2[k]) \ {z} : c2[k][l] = c[k][Shift(l, length)])
            /\ c2[k][z] = K + 1
        BY <1>13, <4>4
      <4>6. w2[k] = i
        BY <1>1, <3>1, <4>3, <4>5
      <4>7. ASSUME NEW l \in Around(u, i) \ {z} PROVE c2[k][l] = f[l]
        <5>1. Shift(l, length) \in Around(t, i + length)
          BY <1>1, <3>1
        <5>2. Back(Shift(l, length), length) = l
          <6>1. l = <<l[1], l[2]>> /\ l[1] \in Nat /\ l[2] \in Nat
            BY <3>1, AroundNames
          <6>2. l[1] + length - length = l[1]
            BY <1>1, <6>1
          <6>3. Back(Shift(l, length), length) = <<l[1] + length - length, l[2]>>
            BY <1>1, <6>1 DEF Shift, Back
          <6> QED BY <6>1, <6>2, <6>3
        <5>3. c[k][Shift(l, length)] = f[l]
          BY <4>2, <4>3, <5>1, <5>2
        <5> QED BY <4>5, <4>6, <5>3
      <4> QED BY <3>4, <4>5, <4>6, <4>7
    <3>5. f[z] <= K \/ f[z] = K + 1
      BY <1>5, <3>2
    <3> QED BY <3>3, <3>4, <3>5
  <2>3. i < first \/ i >= first
    BY <1>4
  <2> QED BY <2>1, <2>2, <2>3, Zenon
<1>20. ASSUME NEW j \in 1..n, NEW k \in 1..n, j < k
       PROVE  Precedes(Around(u, w2[j]) \cap Around(u, w2[k]), w2[j], c2[j], w2[k], c2[k])
  <2> DEFINE A == Around(t, w[j]) \cap Around(t, w[k])
             B == Around(u, w2[j]) \cap Around(u, w2[k])
  <2>1. /\ w[j] \in Int /\ w[k] \in Int /\ w2[j] \in Int /\ w2[k] \in Int
        /\ Precedes(A, w[j], c[j], w[k], c[k])
    <3>1. w2[j] \in 1..Len(u) /\ w2[k] \in 1..Len(u)
      BY <1>16
    <3> QED BY <1>2, <1>8, <1>20, <3>1
  <2>2. A \in SUBSET Names /\ B \in SUBSET Names
    BY <1>6, <2>1
  <2>3. (w[k] < head => w[j] < head) /\ (w[k] < first => w[j] < first)
    BY <1>20, RepetitionsInOrder DEF first, length
  <2>4. CASE w[k] < first
    <3>1. w[j] < first
      BY <2>3, <2>4
    <3>2. /\ w2[j] = w[j] /\ Around(u, w[j]) = Around(t, w[j]) /\ \A l \in Around(t, w[j]) : c2[j][l] = c[j][l]
          /\ w2[k] = w[k] /\ Around(u, w[k]) = Around(t, w[k]) /\ \A l \in Around(t, w[k]) : c2[k][l] = c[k][l]
      BY <1>11, <2>4, <3>1
    <3>3. A = B /\ \A l \in A : c2[j][l] = c[j][l] /\ c2[k][l] = c[k][l]
      BY <3>2
    <3>4. \A l \in Names : Shift(l, 0) = l /\ Back(l, 0) = l
      BY DEF Names, Shift, Back
    <3>5. Moved(A, c[j], c[k], B, c2[j], c2[k], 0)
      <4> HIDE DEF A, B
      <4> QED BY <2>2, <3>3, <3>4 DEF Moved
    <3>6. 0 \in Nat /\ (w[j] < w[k] => w2[j] < w2[k])
      BY <3>2
    <3> HIDE DEF A, B
    <3>7. Precedes(B, w2[j], c2[j], w2[k], c2[k])
      BY <2>1, <2>2, <3>5, <3>6, PrecedesMoved
    <3> QED BY <3>7 DEF B
  <2>5. CASE w[j] < first /\ w[k] >= first
    <3>1. w2[j] = w[j] /\ w[j] \in 1..(first - 1)
      BY <1>11, <2>5
    <3>2. w2[k] \in first..(head - 1)
      <4>1. CASE w[k] < head
        BY <1>12, <2>5, <4>1
      <4>2. CASE w[k] >= head
        BY <1>13, <4>2
      <4>3. w[k] < head \/ w[k] >= head
        BY <1>4, <2>1
      <4> QED BY <4>1, <4>2, <4>3
    <3>3. \A l \in Around(u, w2[k]) : l[1] >= first
      <4> TAKE l \in Around(u, w2[k])
      <4>1. CASE l = z
        BY <1>3, <1>4, <4>1
      <4>2. CASE l # z
        <5>1. l \in Around(t, w2[k])
          BY <1>1, <3>2, <4>2
        <5> QED BY <1>1, <3>2, <5>1
      <4> QED BY <4>1, <4>2
    <3>4. w2[j] < first /\ first <= w2[k] /\ w2[j] < w2[k]
      BY <1>4, <2>1, <3>1, <3>2
    <3>5. B = {}
      BY <1>4, <2>1, <3>3, <3>4, ApartNodes
    <3> HIDE DEF B
    <3>6. Precedes(B, w2[j], c2[j], w2[k], c2[k])
      BY <2>1, <3>4, <3>5, PrecedesApart
    <3> QED BY <3>6 DEF B
  <2>6. CASE w[j] >= first /\ w[j] < head /\ w[k] >= first /\ w[k] < head
    <3>1. /\ w2[j] = w[j] /\ w[j] \in first..(head - 1)
          /\ (\A l \in Around(u, w[j]) \ {z} : c2[j][l] = c[j][l]) /\ c2[j][z] = IF old THEN c[j][z] ELSE 1
          /\ w2[k] = w[k] /\ w[k] \in first..(head - 1)
          /\ (\A l \in Around(u, w[k]) \ {z} : c2[k][l] = c[k][l]) /\ c2[k][z] = IF old THEN c[k][z] ELSE 1
      BY <1>12, <2>6
    <3>2. \A l \in B : c2[j][l] = c2[k][l] \/ (Shift(l, 0) \in A /\ c2[j][l] = c[j][Shift(l, 0)] /\ c2[k][l] = c[k][Shift(l, 0)])
      <4> TAKE l \in B
      <4>1. Shift(l, 0) = l
        <5>1. l = <<l[1], l[2]>> /\ l[1] \in Nat
          BY <2>1, AroundNames
        <5> QED BY <5>1 DEF Shift
      <4>2. CASE l = z
        <5>1. CASE old
          <6>1. z \in A
            BY <1>5, <3>1, <5>1
          <6> QED BY <3>1, <4>1, <4>2, <5>1, <6>1
        <5>2. CASE ~old
          BY <3>1, <4>2, <5>2
        <5> QED BY <5>1, <5>2
      <4>3. CASE l # z
        <5>1. l \in A
          BY <1>1, <3>1, <4>3
        <5> QED BY <3>1, <4>1, <4>3, <5>1
      <4> QED BY <4>2, <4>3
    <3>3. \A m \in A : c[j][m] = c[k][m] \/ (Back(m, 0) \in B /\ m = Shift(Back(m, 0), 0) /\ c2[j][Back(m, 0)] = c[j][m] /\ c2[k][Back(m, 0)] = c[k][m])
      <4> TAKE m \in A
      <4>1. Back(m, 0) = m /\ Shift(m, 0) = m
        <5>1. m = <<m[1], m[2]>> /\ m[1] \in Nat
          BY <2>1, AroundNames
        <5> QED BY <5>1 DEF Shift, Back
      <4>2. CASE m = z
        <5>1. old
          BY <1>5, <3>1, <4>2
        <5>2. z \in B
          BY <1>1, <3>1
        <5> QED BY <3>1, <4>1, <4>2, <5>1, <5>2
      <4>3. CASE m # z
        <5>1. m \in B
          BY <1>1, <3>1, <4>3
        <5> QED BY <3>1, <4>1, <4>3, <5>1
      <4> QED BY <4>2, <4>3
    <3>4. w[j] < w[k] => w2[j] < w2[k]
      BY <3>1
    <3>5. Moved(A, c[j], c[k], B, c2[j], c2[k], 0)
      <4> HIDE DEF A, B
      <4> QED BY <3>2, <3>3 DEF Moved
    <3>6. 0 \in Nat
      OBVIOUS
    <3> HIDE DEF A, B
    <3>7. Precedes(B, w2[j], c2[j], w2[k], c2[k])
      BY <2>1, <2>2, <3>4, <3>5, <3>6, PrecedesMoved
    <3> QED BY <3>7 DEF B
  <2>7. CASE w[j] >= first /\ w[j] < head /\ w[k] >= head
    <3>1. /\ w2[j] = w[j] /\ w[j] \in first..(head - 1) /\ c2[j][z] = IF old THEN c[j][z] ELSE 1
          /\ w2[k] \in first..(head - 1) /\ c2[k][z] = K + 1
      BY <1>12, <1>13, <2>7
    <3>2. z \in B
      BY <1>1, <3>1
    <3>3. c2[j][z] \in 1..K
      <4>1. CASE old
        <5>1. c[j][z] \in 1..Times(t, z) /\ K = Times(t, z)
          BY <1>2, <1>5, <3>1, <4>1 DEF K
        <5> QED BY <3>1, <4>1, <5>1
      <4>2. CASE ~old
        BY <1>5, <3>1, <4>2
      <4> QED BY <4>1, <4>2
    <3>4. c2[j][z] < c2[k][z]
      BY <1>5, <3>1, <3>3
    <3>5. \A m \in B \ {z} : Outside(z, m)
      BY <1>1, <3>1
    <3> HIDE DEF B
    <3> DEFINE differ == {l \in B : c2[j][l] # c2[k][l]}
    <3>6. c2[j][z] # c2[k][z]
      BY <1>5, <3>1, <3>3
    <3>7. z \in differ /\ \A m \in differ \ {z} : Outside(z, m)
      BY <3>2, <3>5, <3>6
    <3>8. Precedes(B, w2[j], c2[j], w2[k], c2[k]) <=>
            \/ differ = {} /\ w2[j] < w2[k]
            \/ \E l \in differ : c2[j][l] < c2[k][l] /\ \A m \in differ \ {l} : Outside(l, m)
      BY DEF Precedes
    <3> HIDE DEF differ
    <3>9. \E l \in differ : c2[j][l] < c2[k][l] /\ \A m \in differ \ {l} : Outside(l, m)
      BY <3>4, <3>7
    <3>10. Precedes(B, w2[j], c2[j], w2[k], c2[k])
      BY <3>8, <3>9
    <3> QED BY <3>10 DEF B
  <2>8. CASE w[j] >= head /\ w[k] >= head
    <3>1. /\ w2[j] \in first..(head - 1) /\ w[j] = w2[j] + length
          /\ (\A l \in Around(u, w2[j]) \ {z} : c2[j][l] = c[j][Shift(l, length)]) /\ c2[j][z] = K + 1
          /\ w2[k] \in first..(head - 1) /\ w[k] = w2[k] + length
          /\ (\A l \in Around(u, w2[k]) \ {z} : c2[k][l] = c[k][Shift(l, length)]) /\ c2[k][z] = K + 1
      BY <1>13, <2>8
    <3>2. \A l \in B : c2[j][l] = c2[k][l] \/ (Shift(l, length) \in A /\ c2[j][l] = c[j][Shift(l, length)] /\ c2[k][l] = c[k][Shift(l, length)])
      <4> TAKE l \in B
      <4>1. CASE l = z
        BY <3>1, <4>1
      <4>2. CASE l # z
        <5>1. Shift(l, length) \in Around(t, w2[j] + length) /\ Shift(l, length) \in Around(t, w2[k] + length)
          BY <1>1, <3>1, <4>2
        <5> QED BY <3>1, <4>2, <5>1
      <4> QED BY <4>1, <4>2
    <3>3. \A m \in A : \/ c[j][m] = c[k][m]
                       \/ /\ Back(m, length) \in B /\ m = Shift(Back(m, length), length)
                          /\ c2[j][Back(m, length)] = c[j][m] /\ c2[k][Back(m, length)] = c[k][m]
      <4> TAKE m \in A
      <4>1. m \in Around(t, w2[j] + length) /\ m \in Around(t, w2[k] + length)
        BY <3>1
      <4>2. /\ Back(m, length) \in Around(u, w2[j]) \ {z} /\ Back(m, length) \in Around(u, w2[k]) \ {z}
            /\ m = Shift(Back(m, length), length)
        BY <1>1, <3>1, <4>1
      <4> QED BY <3>1, <4>2
    <3>4. w[j] < w[k] => w2[j] < w2[k]
      BY <1>1, <2>1, <3>1, SMTT(30)
    <3>5. length \in Nat
      BY <1>1
    <3>6. Moved(A, c[j], c[k], B, c2[j], c2[k], length)
      <4> HIDE DEF A, B
      <4> QED BY <3>2, <3>3 DEF Moved
    <3> HIDE DEF A, B
    <3>7. Precedes(B, w2[j], c2[j], w2[k], c2[k])
      BY <2>1, <2>2, <3>4, <3>5, <3>6, PrecedesMoved
    <3> QED BY <3>7 DEF B
  <2>9. \/ w[k] < first
        \/ w[j] < first /\ w[k] >= first
        \/ w[j] >= first /\ w[j] < head /\ w[k] >= first /\ w[k] < head
        \/ w[j] >= first /\ w[j] < head /\ w[k] >= head
        \/ w[j] >= head /\ w[k] >= head
    BY <1>14, <2>1, <2>3, <1>4
  <2> QED BY <2>4, <2>5, <2>6, <2>7, <2>8, <2>9
<1>21. Ordered(u, n, w2, c2)
  BY <1>9, <1>16, <1>17, <1>18, <1>19, <1>20 DEF Ordered
<1>22. w2 = [k \in 1..n |-> IF w[k] < head THEN w[k] ELSE w[k] - (Len(t) - head + 1)]
  BY DEF w2, length
<1> QED BY <1>21, <1>22
-----------------------------------------------------------------------------
(* The parameters of calls. *)

\* The parameters of nodes hold the calls: call k is the nth[k]-th of its node
\* w[k], whose values are those after the first off[k].
Carried(t, h, w, nth, off) ==
  LET n == Len(h)
  IN  /\ nth \in [1..n -> Nat \ {0}] /\ off \in [1..n -> Nat]
      /\ \A k \in 1..n :
           /\ h[k].op = t[w[k]].op
           /\ nth[k] <= Len(CountsOf(t[w[k]])) /\ CountsOf(t[w[k]])[nth[k]] = Len(h[k].vec)
           /\ off[k] + Len(h[k].vec) <= Len(ValuesOf(t[w[k]]))
           /\ \A j \in 1..Len(h[k].vec) : ValuesOf(t[w[k]])[off[k] + j] = h[k].vec[j]
           /\ nth[k] = 1 => off[k] = 0
           /\ nth[k] = Len(CountsOf(t[w[k]])) => off[k] + Len(h[k].vec) = Len(ValuesOf(t[w[k]]))
      /\ \A i \in 1..Len(t) : \A m \in 1..Len(CountsOf(t[i])) : \E k \in 1..n : w[k] = i /\ nth[k] = m
      /\ \A j, k \in 1..n : w[j] = w[k] /\ j < k => nth[j] < nth[k]
      /\ \A j, k \in 1..n : w[j] = w[k] /\ nth[k] = nth[j] + 1 => off[k] = off[j] + Len(h[j].vec)

\* Two sequences, one after the other.
LEMMA ConcatAt ==
  ASSUME NEW s \in Seq(Int), NEW r \in Seq(Int)
  PROVE  /\ Len(s \o r) = Len(s) + Len(r) /\ Len(s) \in Nat /\ Len(r) \in Nat
         /\ \A k \in 1..Len(s) : (s \o r)[k] = s[k]
         /\ \A k \in 1..Len(r) : (s \o r)[Len(s) + k] = r[k]
OBVIOUS

\* A place in a part that ends before m.
LEMMA PlaceWithin ==
  ASSUME NEW a \in Nat, NEW b \in Nat, NEW m \in Nat, a + b <= m, NEW j \in 1..b
  PROVE  a + j \in 1..m
OBVIOUS

\* What a node's parameters stand for.
LEMMA CarriedTyped ==
  ASSUME NEW node \in Nodes
  PROVE  /\ CountsOf(node) \in Seq(Int) /\ Len(CountsOf(node)) \in Nat \ {0}
         /\ ValuesOf(node) \in Seq(Int) /\ Len(ValuesOf(node)) \in Nat
<1>1. node.count \in Parameters /\ node.values \in Parameters
  BY NodeTyped
<1>2. node.count[1] \in Values /\ node.values[1] \in Values
  BY <1>1, ParameterTyped
<1>3. CountsOf(node) \in Seq(Int) /\ CountsOf(node) # <<>> /\ ValuesOf(node) \in Seq(Int)
  BY <1>2, ExpandTyped DEF CountsOf, ValuesOf
<1> QED BY <1>3

\* A fold keeps what parameters hold: of the second repetition, behind that of
\* the first.
LEMMA FoldCarried ==
  ASSUME NEW t, NEW u, NEW head \in 2..Len(t), Repeated(t, head, u),
         NEW h \in Seq(Calls), NEW w \in [1..Len(h) -> 1..Len(t)], NEW nth, NEW off, Carried(t, h, w, nth, off),
         \A j, k \in 1..Len(h) : j < k /\ w[k] < head => w[j] < head
  PROVE  LET length == Len(t) - head + 1
         IN  \E nth2, off2 :
               Carried(u, h, [k \in 1..Len(h) |-> IF w[k] < head THEN w[k] ELSE w[k] - length], nth2, off2)
<1> DEFINE length == Len(t) - head + 1
           first == head - length
           n == Len(h)
           w2 == [k \in 1..n |-> IF w[k] < head THEN w[k] ELSE w[k] - length]
           C(i) == CountsOf(t[i])
           V(i) == ValuesOf(t[i])
           nth2 == [k \in 1..n |-> IF w[k] < head THEN nth[k] ELSE nth[k] + Len(C(w[k] - length))]
           off2 == [k \in 1..n |-> IF w[k] < head THEN off[k] ELSE off[k] + Len(V(w[k] - length))]
           L(k) == Len(h[k].vec)
<1>1. /\ length \in Nat \ {0} /\ first \in 1..(head - 1) /\ Len(t) = head + length - 1
      /\ t \in Seq(Nodes) /\ u \in Seq(Nodes) /\ Len(u) = head - 1
      /\ \A i \in 1..(first - 1) : u[i] = t[i]
      /\ \A i \in first..(head - 1) :
           /\ u[i].op = t[i].op /\ u[i].op = t[i + length].op
           /\ CountsOf(u[i]) = C(i) \o C(i + length)
           /\ ValuesOf(u[i]) = V(i) \o V(i + length)
  BY DEF Repeated
<1>2. /\ nth \in [1..n -> Nat \ {0}] /\ off \in [1..n -> Nat]
      /\ \A k \in 1..n :
           /\ h[k].op = t[w[k]].op
           /\ nth[k] <= Len(C(w[k])) /\ C(w[k])[nth[k]] = L(k)
           /\ off[k] + L(k) <= Len(V(w[k]))
           /\ \A j \in 1..L(k) : V(w[k])[off[k] + j] = h[k].vec[j]
           /\ nth[k] = 1 => off[k] = 0
           /\ nth[k] = Len(C(w[k])) => off[k] + L(k) = Len(V(w[k]))
      /\ \A i \in 1..Len(t) : \A m \in 1..Len(C(i)) : \E k \in 1..n : w[k] = i /\ nth[k] = m
      /\ \A j, k \in 1..n : w[j] = w[k] /\ j < k => nth[j] < nth[k]
      /\ \A j, k \in 1..n : w[j] = w[k] /\ nth[k] = nth[j] + 1 => off[k] = off[j] + L(j)
  BY DEF Carried
<1>3. first = head - length /\ n \in Nat
  OBVIOUS
<1> HIDE DEF length, first, C, V
<1>4. head \in Nat /\ first \in Nat /\ first + length = head /\ first < head
  BY <1>1, <1>3
<1>5. \A i \in 1..Len(t) : /\ C(i) \in Seq(Int) /\ Len(C(i)) \in Nat \ {0}
                           /\ V(i) \in Seq(Int) /\ Len(V(i)) \in Nat
  <2>1. \A i \in 1..Len(t) : t[i] \in Nodes
    BY <1>1
  <2> QED BY <2>1, CarriedTyped DEF C, V
<1>6. \A k \in 1..n : w[k] \in 1..Len(t) /\ L(k) \in Nat
  <2>1. \A k \in 1..n : h[k] \in Calls
    OBVIOUS
  <2>2. \A x \in Recorded : x \in Seq(Int)
    <3>1. <<0>> \in Seq(Int)
      OBVIOUS
    <3> QED BY <3>1, VectorsAssumption DEF Recorded
  <2>3. \A k \in 1..n : h[k].vec \in Seq(Int)
    BY <2>1, <2>2 DEF Calls
  <2>4. \A s \in Seq(Int) : Len(s) \in Nat
    OBVIOUS
  <2> QED BY <2>3, <2>4
<1>7. \A j, k \in 1..n : j < k /\ w[k] < head => w[j] < head
  OBVIOUS
<1> HIDE DEF L, n
<1>8. \A i \in 1..Len(t) : \A m \in 1..Len(C(i)) : \E k \in 1..n : w[k] = i /\ nth[k] = m
  BY <1>2
\* The nodes of the new trace: those before first, and those merged of two.
<1>9. ASSUME NEW i \in first..(head - 1)
      PROVE  /\ i \in 1..Len(t) /\ i + length \in 1..Len(t)
             /\ Len(CountsOf(u[i])) = Len(C(i)) + Len(C(i + length))
             /\ (\A m \in 1..Len(C(i)) : CountsOf(u[i])[m] = C(i)[m])
             /\ (\A m \in 1..Len(C(i + length)) : CountsOf(u[i])[Len(C(i)) + m] = C(i + length)[m])
             /\ Len(ValuesOf(u[i])) = Len(V(i)) + Len(V(i + length))
             /\ (\A m \in 1..Len(V(i)) : ValuesOf(u[i])[m] = V(i)[m])
             /\ (\A m \in 1..Len(V(i + length)) : ValuesOf(u[i])[Len(V(i)) + m] = V(i + length)[m])
  <2>1. i \in 1..Len(t) /\ i + length \in 1..Len(t)
    BY <1>1, <1>4
  <2>2. C(i) \in Seq(Int) /\ C(i + length) \in Seq(Int) /\ V(i) \in Seq(Int) /\ V(i + length) \in Seq(Int)
    BY <1>5, <2>1
  <2>3. CountsOf(u[i]) = C(i) \o C(i + length) /\ ValuesOf(u[i]) = V(i) \o V(i + length)
    BY <1>1
  <2>4. /\ Len(CountsOf(u[i])) = Len(C(i)) + Len(C(i + length))
        /\ (\A m \in 1..Len(C(i)) : CountsOf(u[i])[m] = C(i)[m])
        /\ (\A m \in 1..Len(C(i + length)) : CountsOf(u[i])[Len(C(i)) + m] = C(i + length)[m])
    BY <2>2, <2>3, ConcatAt
  <2>5. /\ Len(ValuesOf(u[i])) = Len(V(i)) + Len(V(i + length))
        /\ (\A m \in 1..Len(V(i)) : ValuesOf(u[i])[m] = V(i)[m])
        /\ (\A m \in 1..Len(V(i + length)) : ValuesOf(u[i])[Len(V(i)) + m] = V(i + length)[m])
    BY <2>2, <2>3, ConcatAt
  <2> QED BY <2>1, <2>4, <2>5
<1>10. \A k \in 1..n : w2[k] = IF w[k] < head THEN w[k] ELSE w[k] - length
  OBVIOUS
<1>11. \A k \in 1..n : nth2[k] = IF w[k] < head THEN nth[k] ELSE nth[k] + Len(C(w[k] - length))
  OBVIOUS
<1>12. \A k \in 1..n : off2[k] = IF w[k] < head THEN off[k] ELSE off[k] + Len(V(w[k] - length))
  OBVIOUS
<1>13. ASSUME NEW k \in 1..n, w[k] < head
      PROVE  /\ w2[k] = w[k] /\ nth2[k] = nth[k] /\ off2[k] = off[k]
             /\ w[k] \in 1..(first - 1) \/ w[k] \in first..(head - 1)
  <2>1. w[k] \in 1..(first - 1) \/ w[k] \in first..(head - 1)
    BY <1>4, <1>6, <1>13
  <2> QED BY <1>10, <1>11, <1>12, <1>13, <2>1
<1>14. ASSUME NEW k \in 1..n, w[k] >= head
       PROVE  /\ w2[k] \in first..(head - 1) /\ w[k] = w2[k] + length
              /\ nth2[k] = nth[k] + Len(C(w2[k])) /\ off2[k] = off[k] + Len(V(w2[k]))
  <2>1. ~(w[k] < head) /\ w2[k] = w[k] - length
    <3>1. w[k] \in 1..Len(t)
      BY <1>6
    <3>2. ~(w[k] < head)
      BY <1>4, <1>14, <3>1
    <3> QED BY <1>10, <1>11, <1>12, <3>2
  <2>2. w2[k] \in first..(head - 1) /\ w[k] = w2[k] + length
    <3>1. w[k] \in Int /\ w[k] <= head + length - 1 /\ w[k] >= head
      BY <1>1, <1>6, <1>14
    <3>2. w2[k] \in Int /\ w2[k] = w[k] - length /\ length \in Int /\ first \in Int
      BY <1>1, <1>4, <2>1, <3>1
    <3> QED BY <1>4, <3>1, <3>2
  <2> QED BY <1>10, <1>11, <1>12, <2>1, <2>2
<1>15. \A k \in 1..n : w[k] < head \/ w[k] >= head
  BY <1>4, <1>6
<1>16. nth2 = [k \in 1..n |-> nth2[k]] /\ off2 = [k \in 1..n |-> off2[k]]
  OBVIOUS
<1> HIDE DEF w2, nth2, off2
<1>17. \A k \in 1..n : nth2[k] \in Nat \ {0} /\ off2[k] \in Nat
  <2> TAKE k \in 1..n
  <2>1. CASE w[k] < head
    BY <1>2, <1>13, <2>1
  <2>2. CASE w[k] >= head
    <3>1. w2[k] \in first..(head - 1)
      BY <1>14, <2>2
    <3>2. w2[k] \in 1..Len(t)
      BY <1>9, <3>1
    <3>3. Len(C(w2[k])) \in Nat /\ Len(V(w2[k])) \in Nat /\ nth[k] \in Nat \ {0} /\ off[k] \in Nat
      BY <1>2, <1>5, <3>2
    <3> QED BY <1>14, <2>2, <3>3, SMTT(30)
  <2> QED BY <1>15, <2>1, <2>2
<1>18. nth2 \in [1..n -> Nat \ {0}] /\ off2 \in [1..n -> Nat]
  <2>1. \A f, S, R : f = [k \in S |-> f[k]] /\ (\A k \in S : f[k] \in R) => f \in [S -> R]
    OBVIOUS
  <2>2. \A k \in 1..n : nth2[k] \in Nat \ {0}
    BY <1>17
  <2>3. \A k \in 1..n : off2[k] \in Nat
    BY <1>17
  <2>4. nth2 \in [1..n -> Nat \ {0}]
    BY <1>16, <2>1, <2>2
  <2>5. off2 \in [1..n -> Nat]
    BY <1>16, <2>1, <2>3
  <2> QED BY <2>4, <2>5
<1>19. ASSUME NEW i \in 1..(first - 1)
       PROVE  /\ i \in 1..Len(t) /\ u[i].op = t[i].op
              /\ CountsOf(u[i]) = C(i) /\ ValuesOf(u[i]) = V(i)
  <2>1. i \in 1..Len(t)
    BY <1>1, <1>4
  <2>2. u[i] = t[i]
    BY <1>1
  <2> QED BY <2>1, <2>2 DEF C, V
<1>20. \A k \in 1..n : w2[k] \in 1..Len(u)
  <2> TAKE k \in 1..n
  <2>1. CASE w[k] < head
    <3>1. w[k] \in 1..(head - 1)
      BY <1>4, <1>6, <2>1
    <3> QED BY <1>1, <1>13, <2>1, <3>1
  <2>2. CASE w[k] >= head
    <3>1. w2[k] \in first..(head - 1)
      BY <1>14, <2>2
    <3>2. w2[k] \in 1..(head - 1)
      BY <1>1, <1>4, <3>1
    <3> QED BY <1>1, <3>2
  <2> QED BY <1>15, <2>1, <2>2
\* Each call.
<1> DEFINE Here(k) ==
      /\ h[k].op = u[w2[k]].op
      /\ nth2[k] <= Len(CountsOf(u[w2[k]])) /\ CountsOf(u[w2[k]])[nth2[k]] = L(k)
      /\ off2[k] + L(k) <= Len(ValuesOf(u[w2[k]]))
      /\ \A j \in 1..L(k) : ValuesOf(u[w2[k]])[off2[k] + j] = h[k].vec[j]
      /\ nth2[k] = 1 => off2[k] = 0
      /\ nth2[k] = Len(CountsOf(u[w2[k]])) => off2[k] + L(k) = Len(ValuesOf(u[w2[k]]))
<1>21. ASSUME NEW k \in 1..n, w[k] < head, w[k] \in 1..(first - 1) PROVE Here(k)
  <2>1. w2[k] = w[k] /\ nth2[k] = nth[k] /\ off2[k] = off[k]
    BY <1>13, <1>21
  <2>2. u[w2[k]].op = t[w[k]].op /\ CountsOf(u[w2[k]]) = C(w[k]) /\ ValuesOf(u[w2[k]]) = V(w[k])
    BY <1>19, <1>21, <2>1
  <2> QED BY <1>2, <2>1, <2>2
<1>22. ASSUME NEW k \in 1..n, w[k] < head, w[k] \in first..(head - 1) PROVE Here(k)
  <2> DEFINE i == w[k]
  <2>1. w2[k] = i /\ nth2[k] = nth[k] /\ off2[k] = off[k]
    BY <1>13, <1>22
  <2>2. i \in 1..Len(t) /\ i + length \in 1..Len(t)
    BY <1>9, <1>22
  <2>3. /\ Len(C(i)) \in Nat \ {0} /\ Len(C(i + length)) \in Nat \ {0}
        /\ Len(V(i)) \in Nat /\ Len(V(i + length)) \in Nat
    BY <1>5, <2>2
  <2>4. /\ h[k].op = t[i].op /\ nth[k] <= Len(C(i)) /\ C(i)[nth[k]] = L(k)
        /\ off[k] + L(k) <= Len(V(i)) /\ (\A j \in 1..L(k) : V(i)[off[k] + j] = h[k].vec[j])
        /\ (nth[k] = 1 => off[k] = 0) /\ nth[k] \in Nat \ {0} /\ off[k] \in Nat /\ L(k) \in Nat
    BY <1>2, <1>6
  <2>5. u[i].op = t[i].op
    BY <1>1, <1>22
  <2>6. /\ Len(CountsOf(u[i])) = Len(C(i)) + Len(C(i + length))
        /\ (\A m \in 1..Len(C(i)) : CountsOf(u[i])[m] = C(i)[m])
        /\ Len(ValuesOf(u[i])) = Len(V(i)) + Len(V(i + length))
        /\ (\A m \in 1..Len(V(i)) : ValuesOf(u[i])[m] = V(i)[m])
    BY <1>9, <1>22
  <2> HIDE DEF i
  <2>7. nth[k] \in 1..Len(C(i)) /\ nth[k] < Len(CountsOf(u[i])) /\ off[k] + L(k) <= Len(ValuesOf(u[i]))
    BY <2>3, <2>4, <2>6, SMTT(30)
  <2>8. CountsOf(u[i])[nth[k]] = L(k)
    BY <2>4, <2>6, <2>7
  <2>9. ASSUME NEW j \in 1..L(k) PROVE ValuesOf(u[i])[off[k] + j] = h[k].vec[j]
    <3>1. off[k] + j \in 1..Len(V(i))
      BY <2>3, <2>4, PlaceWithin
    <3> QED BY <2>4, <2>6, <3>1
  <2>10. nth[k] # Len(CountsOf(u[i])) /\ nth[k] <= Len(CountsOf(u[i]))
    BY <2>3, <2>6, <2>7
  <2>11. /\ h[k].op = u[i].op
         /\ nth[k] <= Len(CountsOf(u[i])) /\ CountsOf(u[i])[nth[k]] = L(k)
         /\ off[k] + L(k) <= Len(ValuesOf(u[i]))
         /\ \A j \in 1..L(k) : ValuesOf(u[i])[off[k] + j] = h[k].vec[j]
         /\ nth[k] = 1 => off[k] = 0
         /\ nth[k] = Len(CountsOf(u[i])) => off[k] + L(k) = Len(ValuesOf(u[i]))
    BY <2>4, <2>5, <2>7, <2>8, <2>9, <2>10
  <2> QED BY <2>1, <2>11
<1>23. ASSUME NEW k \in 1..n, w[k] >= head PROVE Here(k)
  <2> DEFINE i == w2[k]
  <2>1. i \in first..(head - 1) /\ w[k] = i + length /\ nth2[k] = nth[k] + Len(C(i)) /\ off2[k] = off[k] + Len(V(i))
    BY <1>14, <1>23
  <2>2. i \in 1..Len(t) /\ i + length \in 1..Len(t)
    BY <1>9, <2>1
  <2>3. /\ Len(C(i)) \in Nat \ {0} /\ Len(C(i + length)) \in Nat \ {0}
        /\ Len(V(i)) \in Nat /\ Len(V(i + length)) \in Nat
    BY <1>5, <2>2
  <2>4. i + length = w[k]
    BY <2>1
  <2>5. /\ h[k].op = t[i + length].op /\ nth[k] <= Len(C(i + length)) /\ C(i + length)[nth[k]] = L(k)
        /\ off[k] + L(k) <= Len(V(i + length)) /\ (\A j \in 1..L(k) : V(i + length)[off[k] + j] = h[k].vec[j])
        /\ (nth[k] = Len(C(i + length)) => off[k] + L(k) = Len(V(i + length)))
        /\ nth[k] \in Nat \ {0} /\ off[k] \in Nat /\ L(k) \in Nat
    <3>1. /\ h[k].op = t[w[k]].op /\ nth[k] <= Len(C(w[k])) /\ C(w[k])[nth[k]] = L(k)
          /\ off[k] + L(k) <= Len(V(w[k])) /\ (\A j \in 1..L(k) : V(w[k])[off[k] + j] = h[k].vec[j])
          /\ (nth[k] = Len(C(w[k])) => off[k] + L(k) = Len(V(w[k])))
          /\ nth[k] \in Nat \ {0} /\ off[k] \in Nat /\ L(k) \in Nat
      BY <1>2, <1>6
    <3> HIDE DEF i
    <3> QED BY <2>4, <3>1
  <2>6. u[i].op = t[i + length].op
    BY <1>1, <2>1
  <2>7. /\ Len(CountsOf(u[i])) = Len(C(i)) + Len(C(i + length))
        /\ (\A m \in 1..Len(C(i + length)) : CountsOf(u[i])[Len(C(i)) + m] = C(i + length)[m])
        /\ Len(ValuesOf(u[i])) = Len(V(i)) + Len(V(i + length))
        /\ (\A m \in 1..Len(V(i + length)) : ValuesOf(u[i])[Len(V(i)) + m] = V(i + length)[m])
    BY <1>9, <2>1
  <2> HIDE DEF i
  <2>8. /\ nth[k] \in 1..Len(C(i + length)) /\ nth2[k] = Len(C(i)) + nth[k] /\ nth2[k] <= Len(CountsOf(u[i]))
        /\ off2[k] + L(k) <= Len(ValuesOf(u[i])) /\ nth2[k] # 1
    <3>1. nth[k] \in 1..Len(C(i + length)) /\ nth2[k] = Len(C(i)) + nth[k] /\ nth2[k] # 1
      BY <2>1, <2>3, <2>5, SMTT(30)
    <3>2. nth2[k] <= Len(CountsOf(u[i]))
      BY <2>3, <2>5, <2>7, <3>1
    <3>3. off2[k] + L(k) <= Len(ValuesOf(u[i]))
      BY <2>1, <2>3, <2>5, <2>7, SMTT(30)
    <3> QED BY <3>1, <3>2, <3>3
  <2>9. CountsOf(u[i])[nth2[k]] = L(k)
    BY <2>5, <2>7, <2>8
  <2>10. ASSUME NEW j \in 1..L(k) PROVE ValuesOf(u[i])[off2[k] + j] = h[k].vec[j]
    <3>1. off[k] + j \in 1..Len(V(i + length))
      BY <2>3, <2>5, PlaceWithin
    <3>2. off2[k] + j = Len(V(i)) + (off[k] + j)
      BY <2>1, <2>3, <2>5
    <3> QED BY <2>5, <2>7, <3>1, <3>2
  <2>11. ASSUME nth2[k] = Len(CountsOf(u[i])) PROVE off2[k] + L(k) = Len(ValuesOf(u[i]))
    <3>1. nth[k] = Len(C(i + length))
      <4>1. Len(C(i)) + nth[k] = Len(C(i)) + Len(C(i + length))
        BY <2>7, <2>8, <2>11
      <4> HIDE DEF C
      <4> QED BY <2>3, <2>5, <4>1
    <3>2. off[k] + L(k) = Len(V(i + length))
      BY <2>5, <3>1
    <3>3. off2[k] + L(k) = Len(V(i)) + (off[k] + L(k))
      BY <2>1, <2>3, <2>5
    <3> QED BY <2>7, <3>2, <3>3
  <2>12. /\ h[k].op = u[i].op
         /\ nth2[k] <= Len(CountsOf(u[i])) /\ CountsOf(u[i])[nth2[k]] = L(k)
         /\ off2[k] + L(k) <= Len(ValuesOf(u[i]))
         /\ \A j \in 1..L(k) : ValuesOf(u[i])[off2[k] + j] = h[k].vec[j]
         /\ nth2[k] = 1 => off2[k] = 0
         /\ nth2[k] = Len(CountsOf(u[i])) => off2[k] + L(k) = Len(ValuesOf(u[i]))
    BY <2>5, <2>6, <2>8, <2>9, <2>10, <2>11
  <2> QED BY <2>12 DEF i
<1> HIDE DEF Here
<1>24. \A k \in 1..n : Here(k)
  <2> TAKE k \in 1..n
  <2>1. ASSUME w[k] < head PROVE Here(k)
    BY <1>13, <1>21, <1>22, <2>1
  <2> QED BY <1>15, <1>23, <2>1
\* Every value is a call's.
<1>25. ASSUME NEW i \in 1..Len(u), NEW m \in 1..Len(CountsOf(u[i]))
       PROVE  \E k \in 1..n : w2[k] = i /\ nth2[k] = m
  <2>1. i \in 1..(first - 1) \/ i \in first..(head - 1)
    BY <1>1, <1>4
  <2>2. i < head /\ i \in 1..Len(t)
    BY <1>1, <1>4
  <2>3. ASSUME m \in 1..Len(C(i)) PROVE \E k \in 1..n : w2[k] = i /\ nth2[k] = m
    <3>1. PICK k \in 1..n : w[k] = i /\ nth[k] = m
      BY <1>8, <2>2, <2>3
    <3> QED BY <1>13, <2>2, <3>1
  <2>4. CASE i \in 1..(first - 1)
    BY <1>19, <2>3, <2>4
  <2>5. ASSUME i \in first..(head - 1), m > Len(C(i))
        PROVE  \E k \in 1..n : w2[k] = i /\ nth2[k] = m
    <3>1. /\ i + length \in 1..Len(t) /\ Len(CountsOf(u[i])) = Len(C(i)) + Len(C(i + length))
          /\ Len(C(i)) \in Nat \ {0} /\ Len(C(i + length)) \in Nat \ {0}
      BY <1>5, <1>9, <2>2, <2>5
    <3>2. m - Len(C(i)) \in 1..Len(C(i + length))
      BY <2>5, <3>1
    <3>3. PICK k \in 1..n : w[k] = i + length /\ nth[k] = m - Len(C(i))
      BY <1>8, <3>1, <3>2
    <3>4. w[k] >= head
      BY <1>1, <1>4, <2>5, <3>3, SMTT(30)
    <3>5. w2[k] = i
      <4>1. w2[k] \in first..(head - 1) /\ w[k] = w2[k] + length
        BY <1>14, <3>4
      <4>2. w2[k] \in Int /\ w2[k] + length = i + length
        BY <3>3, <4>1
      <4> QED BY <1>1, <4>2
    <3>6. nth2[k] = nth[k] + Len(C(i))
      BY <1>14, <3>4, <3>5
    <3>7. nth2[k] = m
      BY <3>1, <3>3, <3>6
    <3> QED BY <3>5, <3>7
  <2>6. Len(C(i)) \in Nat
    BY <1>5, <2>2
  <2>7. m \in 1..Len(C(i)) \/ m > Len(C(i))
    BY <2>6
  <2> QED BY <2>1, <2>3, <2>4, <2>5, <2>7
\* Two calls of a node.
<1>26. ASSUME NEW j \in 1..n, NEW k \in 1..n, w2[j] = w2[k], w[j] < head, w[k] < head
       PROVE  w[j] = w[k] /\ nth2[j] = nth[j] /\ nth2[k] = nth[k] /\ off2[j] = off[j] /\ off2[k] = off[k]
  BY <1>13, <1>26
<1>27. ASSUME NEW j \in 1..n, NEW k \in 1..n, w2[j] = w2[k], w[j] >= head, w[k] >= head
       PROVE  /\ w[j] = w[k] /\ Len(C(w2[k])) \in Nat /\ Len(V(w2[k])) \in Nat
              /\ nth2[j] = nth[j] + Len(C(w2[k])) /\ nth2[k] = nth[k] + Len(C(w2[k]))
              /\ off2[j] = off[j] + Len(V(w2[k])) /\ off2[k] = off[k] + Len(V(w2[k]))
  <2>1. w2[k] \in 1..Len(t)
    BY <1>9, <1>14, <1>27
  <2> QED BY <1>5, <1>14, <1>27, <2>1
<1>28. ASSUME NEW j \in 1..n, NEW k \in 1..n, w2[j] = w2[k], w[j] < head, w[k] >= head
       PROVE  /\ nth2[j] = nth[j] /\ off2[j] = off[j] /\ w2[k] = w[j]
              /\ Len(C(w[j])) \in Nat /\ Len(V(w[j])) \in Nat /\ nth[j] <= Len(C(w[j]))
              /\ nth2[k] = nth[k] + Len(C(w[j])) /\ off2[k] = off[k] + Len(V(w[j]))
              /\ nth[j] = Len(C(w[j])) => off[j] + L(j) = Len(V(w[j]))
              /\ nth[k] = 1 => off[k] = 0
  <2>1. w2[k] = w[j] /\ nth2[j] = nth[j] /\ off2[j] = off[j]
    BY <1>13, <1>28
  <2>2. nth2[k] = nth[k] + Len(C(w[j])) /\ off2[k] = off[k] + Len(V(w[j]))
    BY <1>14, <1>28, <2>1
  <2>3. Len(C(w[j])) \in Nat /\ Len(V(w[j])) \in Nat
    BY <1>5, <1>6
  <2> QED BY <1>2, <2>1, <2>2, <2>3
<1>29. \A k \in 1..n : nth[k] \in Nat \ {0} /\ off[k] \in Nat
  BY <1>2
<1>30. ASSUME NEW j \in 1..n, NEW k \in 1..n, w2[j] = w2[k], j < k PROVE nth2[j] < nth2[k]
  <2>1. CASE w[j] < head /\ w[k] < head
    BY <1>2, <1>26, <1>30, <2>1
  <2>2. CASE w[j] >= head /\ w[k] >= head
    <3>1. nth[j] < nth[k]
      BY <1>2, <1>27, <1>30, <2>2
    <3> QED BY <1>27, <1>29, <1>30, <2>2, <3>1
  <2>3. CASE w[j] < head /\ w[k] >= head
    <3>1. /\ nth2[j] = nth[j] /\ Len(C(w[j])) \in Nat /\ nth[j] <= Len(C(w[j]))
          /\ nth2[k] = nth[k] + Len(C(w[j]))
      BY <1>28, <1>30, <2>3
    <3> QED BY <1>29, <3>1
  <2>4. CASE w[j] >= head /\ w[k] < head
    <3>1. w[j] < head
      BY <1>7, <1>30, <2>4
    <3> QED BY <1>4, <1>6, <2>4, <3>1
  <2> QED BY <1>15, <2>1, <2>2, <2>3, <2>4
<1>31. ASSUME NEW j \in 1..n, NEW k \in 1..n, w2[j] = w2[k], nth2[k] = nth2[j] + 1
       PROVE  off2[k] = off2[j] + L(j)
  <2>1. CASE w[j] < head /\ w[k] < head
    BY <1>2, <1>26, <1>31, <2>1
  <2>2. CASE w[j] >= head /\ w[k] >= head
    <3>1. nth[k] = nth[j] + 1
      BY <1>27, <1>29, <1>31, <2>2, SMTT(30)
    <3>2. off[k] = off[j] + L(j)
      BY <1>2, <1>27, <1>31, <2>2, <3>1
    <3>3. L(j) \in Int
      BY <1>6
    <3>4. off2[k] = off[k] + Len(V(w2[k])) /\ off2[j] = off[j] + Len(V(w2[k])) /\ Len(V(w2[k])) \in Nat
      BY <1>27, <1>31, <2>2
    <3> QED BY <1>29, <3>2, <3>3, <3>4
  <2>3. CASE w[j] < head /\ w[k] >= head
    <3>1. nth[k] = 1 /\ nth[j] = Len(C(w[j]))
      BY <1>28, <1>29, <1>31, <2>3
    <3>2. off[k] = 0 /\ off[j] + L(j) = Len(V(w[j]))
      BY <1>28, <1>31, <2>3, <3>1
    <3> QED BY <1>6, <1>28, <1>29, <1>31, <2>3, <3>2, SMTT(30)
  <2>4. CASE w[j] >= head /\ w[k] < head
    <3>1. /\ nth2[k] = nth[k] /\ Len(C(w[k])) \in Nat /\ nth[k] <= Len(C(w[k]))
          /\ nth2[j] = nth[j] + Len(C(w[k]))
      BY <1>28, <1>31, <2>4
    <3> QED BY <1>29, <1>31, <3>1
  <2> QED BY <1>15, <2>1, <2>2, <2>3, <2>4
<1>32. \A k \in 1..n :
         /\ h[k].op = u[w2[k]].op
         /\ nth2[k] <= Len(CountsOf(u[w2[k]])) /\ CountsOf(u[w2[k]])[nth2[k]] = Len(h[k].vec)
         /\ off2[k] + Len(h[k].vec) <= Len(ValuesOf(u[w2[k]]))
         /\ \A j \in 1..Len(h[k].vec) : ValuesOf(u[w2[k]])[off2[k] + j] = h[k].vec[j]
         /\ nth2[k] = 1 => off2[k] = 0
         /\ nth2[k] = Len(CountsOf(u[w2[k]])) => off2[k] + Len(h[k].vec) = Len(ValuesOf(u[w2[k]]))
  BY <1>24 DEF Here, L
<1>33. \A i \in 1..Len(u) : \A m \in 1..Len(CountsOf(u[i])) : \E k \in 1..n : w2[k] = i /\ nth2[k] = m
  BY <1>25
<1>34. \A j, k \in 1..n : w2[j] = w2[k] /\ j < k => nth2[j] < nth2[k]
  BY <1>30
<1>35. \A j, k \in 1..n : w2[j] = w2[k] /\ nth2[k] = nth2[j] + 1 => off2[k] = off2[j] + Len(h[j].vec)
  BY <1>31 DEF L
<1>36. Carried(u, h, w2, nth2, off2)
  BY <1>18, <1>32, <1>33, <1>34, <1>35, Zenon DEF Carried, n
<1> QED BY <1>36 DEF w2, length, n
-----------------------------------------------------------------------------
(* Calls kept by an event and its folds. *)

\* What the node of an event stands for.
LEMMA NewNodeCarries ==
  ASSUME NEW op \in Ops \cup {InitOp}, NEW vec \in Recorded
  PROVE  LET node == Node(op, vec, rank)
         IN  /\ node.op = op /\ vec \in Seq(Int) /\ Len(vec) \in Nat
             /\ CountsOf(node) = <<Len(vec)>> /\ ValuesOf(node) = vec
<1>1. vec \in Seq(Int) /\ vec # <<>>
  BY VectorsAssumption, EmptySeq DEF Recorded
<1>2. ASSUME NEW s \in Seq(Int), s # <<>> PROVE Expand(Single(s, {rank})[1]) = s
  <2> DEFINE n == Len(s)
  <2>1. n \in Nat
    OBVIOUS
  <2>2. Expand(Single(s, {rank})[1]) = [i \in 1..(1 * n) |-> s[((i - 1) % n) + 1]]
    BY DEF Expand, Single
  <2>3. 1 * n = n
    BY <2>1
  <2>4. \A i \in 1..n : ((i - 1) % n) + 1 = i
    <3> HIDE DEF n
    <3> TAKE i \in 1..n
    <3>1. i - 1 \in 0..(n - 1)
      BY <2>1
    <3> QED BY <2>1, <3>1
  <2>5. s = [i \in 1..n |-> s[i]]
    OBVIOUS
  <2> HIDE DEF n
  <2> QED BY <2>2, <2>3, <2>4, <2>5
<1>3. <<Len(vec)>> \in Seq(Int) /\ <<Len(vec)>> # <<>> /\ Len(vec) \in Nat
  BY <1>1
<1>4. /\ Node(op, vec, rank).op = op
      /\ Node(op, vec, rank).count = Single(<<Len(vec)>>, {rank})
      /\ Node(op, vec, rank).values = Single(vec, {rank})
  BY DEF Node
<1> QED BY <1>1, <1>2, <1>3, <1>4 DEF CountsOf, ValuesOf

\* No loop is around a node just appended, and it changes none.
LEMMA AppendAround ==
  ASSUME NEW t \in Seq(Nodes), Placed(t), NEW node \in Nodes, Depth(node) = 0
  PROVE  LET u == Append(t, node)
         IN  /\ Around(u, Len(t) + 1) = {}
             /\ \A i \in 1..Len(t) : /\ Around(u, i) = Around(t, i)
                                     /\ \A l \in Around(t, i) : Times(u, l) = Times(t, l)
<1> DEFINE u == Append(t, node)
           n == Len(t)
<1>1. n \in Nat /\ u \in Seq(Nodes) /\ Len(u) = n + 1 /\ u[n + 1] = node /\ \A i \in 1..n : u[i] = t[i] /\ t[i] \in Nodes
  OBVIOUS
<1>2. Inside(t, n)
  BY PlacedByNode
<1> HIDE DEF u, n
<1>3. ASSUME NEW i \in Int, NEW l \in Around(u, i)
      PROVE  /\ l = <<l[1], l[2]>> /\ l[1] \in 1..n /\ l[2] \in 1..Depth(t[l[1]])
             /\ l[1] <= i /\ i <= l[1] + MemOf(t[l[1]], l[2]) - 1
  <2>1. /\ l = <<l[1], l[2]>> /\ l[1] \in 1..(n + 1) /\ l[2] \in 1..Depth(u[l[1]]) /\ l[2] \in Nat
        /\ l[1] <= i /\ i <= l[1] + MemOf(u[l[1]], l[2]) - 1
    BY <1>1, AroundByNode
  <2>2. l[1] # n + 1
    BY <1>1, <2>1
  <2>3. l[1] \in 1..n
    BY <1>1, <2>1, <2>2
  <2>4. u[l[1]] = t[l[1]]
    BY <1>1, <2>3
  <2> QED BY <2>1, <2>3, <2>4
<1>4. ASSUME NEW j \in 1..n, NEW h \in 1..Depth(t[j]), n + 1 <= j + MemOf(t[j], h) - 1 PROVE FALSE
  <2> DEFINE d == Depth(t[j]) + 1 - h
  <2>1. t[j] \in Nodes
    BY <1>1
  <2>2. MemOf(t[j], h) \in Int /\ d \in 1..Depth(t[j]) /\ Mem(t, j, d) = MemOf(t[j], h)
    BY <2>1, LoopTyped DEF Mem, MemOf, LoopOf
  <2> HIDE DEF d
  <2>3. Span(t, j, d) \subseteq 1..n
    BY <1>2, <2>2 DEF Inside
  <2>4. n + 1 \in Span(t, j, d)
    BY <1>1, <1>4, <2>2 DEF Span
  <2> QED BY <1>1, <2>3, <2>4
<1>5. Around(u, n + 1) = {}
  <2>1. n + 1 \in Int
    BY <1>1
  <2> QED BY <1>3, <1>4, <2>1
<1>6. ASSUME NEW i \in 1..n PROVE Around(u, i) = Around(t, i)
  <2>1. i \in Int
    BY <1>1
  <2>2. ASSUME NEW l \in Around(u, i) PROVE l \in Around(t, i)
    <3>1. /\ l = <<l[1], l[2]>> /\ l[1] \in 1..n /\ l[2] \in 1..Depth(t[l[1]])
          /\ l[1] <= i /\ i <= l[1] + MemOf(t[l[1]], l[2]) - 1
      BY <1>3, <2>1, <2>2
    <3>2. <<l[1], l[2]>> \in Around(t, i)
      BY <2>1, <3>1, AroundByNode DEF n
    <3> QED BY <3>1, <3>2
  <2>3. ASSUME NEW l \in Around(t, i) PROVE l \in Around(u, i)
    <3>1. /\ l = <<l[1], l[2]>> /\ l[1] \in 1..n /\ l[2] \in 1..Depth(t[l[1]])
          /\ l[1] <= i /\ i <= l[1] + MemOf(t[l[1]], l[2]) - 1
      BY <2>1, AroundByNode DEF n
    <3>2. u[l[1]] = t[l[1]] /\ l[1] \in 1..(n + 1)
      BY <1>1, <3>1
    <3>3. <<l[1], l[2]>> \in Around(u, i)
      BY <1>1, <2>1, <3>1, <3>2, AroundByNode
    <3> QED BY <3>1, <3>3
  <2> QED BY <2>2, <2>3
<1>7. ASSUME NEW i \in 1..n, NEW l \in Around(t, i) PROVE Times(u, l) = Times(t, l)
  <2>1. i \in Int
    BY <1>1
  <2>2. l[1] \in 1..n
    BY <2>1, AroundByNode DEF n
  <2>3. u[l[1]] = t[l[1]]
    BY <1>1, <2>2
  <2> QED BY <2>3 DEF Times, LoopAt
<1> QED BY <1>5, <1>6, <1>7 DEF u, n

\* The last call is the only visit of the node just appended.
LEMMA AppendOrdered ==
  ASSUME NEW t \in Seq(Nodes), Placed(t), NEW node \in Nodes, Depth(node) = 0,
         NEW n \in Nat, NEW w, NEW c, Ordered(t, n, w, c)
  PROVE  \E c2 : Ordered(Append(t, node), n + 1, [k \in 1..(n + 1) |-> IF k <= n THEN w[k] ELSE Len(t) + 1], c2)
<1> DEFINE u == Append(t, node)
           N == Len(t)
           w2 == [k \in 1..(n + 1) |-> IF k <= n THEN w[k] ELSE N + 1]
           none == [l \in Names |-> 0]
           c2 == [k \in 1..(n + 1) |-> IF k <= n THEN c[k] ELSE none]
<1>1. N \in Nat /\ Len(u) = N + 1
  OBVIOUS
<1>2. /\ Around(u, N + 1) = {}
      /\ \A i \in 1..N : Around(u, i) = Around(t, i) /\ \A l \in Around(t, i) : Times(u, l) = Times(t, l)
  BY AppendAround
<1>3. /\ w \in [1..n -> 1..N] /\ c \in [1..n -> [Names -> Nat]]
      /\ \A i \in 1..N : \A l \in Around(t, i) : Times(t, l) \in Nat \ {0}
      /\ \A k \in 1..n : \A l \in Around(t, w[k]) : c[k][l] \in 1..Times(t, l)
      /\ \A j, k \in 1..n : j < k => Precedes(Around(t, w[j]) \cap Around(t, w[k]), w[j], c[j], w[k], c[k])
  BY DEF Ordered
<1>4. \A i \in 1..N : \A f \in [Names -> Nat] :
         (\A l \in Around(t, i) : f[l] \in 1..Times(t, l))
         => \E k \in 1..n : w[k] = i /\ \A l \in Around(t, i) : c[k][l] = f[l]
  BY DEF Ordered
<1> HIDE DEF u, N
<1>5. \A k \in 1..n : k <= n /\ k \in 1..(n + 1) /\ w[k] \in 1..N /\ c[k] \in [Names -> Nat]
  BY <1>3
<1>6. \A k \in 1..n : w2[k] = w[k] /\ c2[k] = c[k]
  BY <1>5
<1>7. w2[n + 1] = N + 1
  OBVIOUS
<1>8. \A k \in 1..(n + 1) : k \in 1..n \/ k = n + 1
  OBVIOUS
<1>9. w2 \in [1..(n + 1) -> 1..Len(u)]
  <2>1. \A k \in 1..(n + 1) : (IF k <= n THEN w[k] ELSE N + 1) \in 1..Len(u)
    BY <1>1, <1>5, <1>8
  <2> QED BY <2>1
<1>10. c2 \in [1..(n + 1) -> [Names -> Nat]]
  <2>1. none \in [Names -> Nat]
    OBVIOUS
  <2>2. \A k \in 1..(n + 1) : (IF k <= n THEN c[k] ELSE none) \in [Names -> Nat]
    <3> HIDE DEF none
    <3> QED BY <1>5, <1>8, <2>1
  <2> HIDE DEF none
  <2> QED BY <2>2
<1> HIDE DEF w2, c2, none
<1>11. \A i \in 1..Len(u) : i \in 1..N \/ i = N + 1
  BY <1>1
<1>12. \A i \in 1..Len(u) : \A l \in Around(u, i) : Times(u, l) \in Nat \ {0}
  BY <1>2, <1>3, <1>11
<1>13. \A k \in 1..(n + 1) : \A l \in Around(u, w2[k]) : c2[k][l] \in 1..Times(u, l)
  <2> TAKE k \in 1..(n + 1)
  <2>1. CASE k \in 1..n
    BY <1>2, <1>3, <1>5, <1>6, <2>1
  <2>2. CASE k = n + 1
    BY <1>2, <1>7, <2>2
  <2> QED BY <1>8, <2>1, <2>2
<1>14. ASSUME NEW i \in 1..Len(u), NEW f \in [Names -> Nat], \A l \in Around(u, i) : f[l] \in 1..Times(u, l)
       PROVE  \E k \in 1..(n + 1) : w2[k] = i /\ \A l \in Around(u, i) : c2[k][l] = f[l]
  <2>1. CASE i \in 1..N
    <3>1. \A l \in Around(t, i) : f[l] \in 1..Times(t, l)
      BY <1>2, <1>14, <2>1
    <3>2. PICK k \in 1..n : w[k] = i /\ \A l \in Around(t, i) : c[k][l] = f[l]
      BY <1>4, <2>1, <3>1
    <3> QED BY <1>2, <1>5, <1>6, <2>1, <3>2
  <2>2. CASE i = N + 1
    <3>1. n + 1 \in 1..(n + 1)
      OBVIOUS
    <3> QED BY <1>2, <1>7, <2>2, <3>1
  <2> QED BY <1>11, <2>1, <2>2
<1>15. ASSUME NEW j \in 1..(n + 1), NEW k \in 1..(n + 1), j < k
       PROVE  Precedes(Around(u, w2[j]) \cap Around(u, w2[k]), w2[j], c2[j], w2[k], c2[k])
  <2>1. j \in 1..n
    BY <1>15
  <2>2. CASE k \in 1..n
    <3>1. Precedes(Around(t, w[j]) \cap Around(t, w[k]), w[j], c[j], w[k], c[k])
      BY <1>3, <1>15, <2>1, <2>2
    <3>2. Around(u, w[j]) = Around(t, w[j]) /\ Around(u, w[k]) = Around(t, w[k])
      BY <1>2, <1>5, <2>1, <2>2
    <3> QED BY <1>6, <2>1, <2>2, <3>1, <3>2
  <2>3. CASE k = n + 1
    <3>1. Around(u, w2[j]) \cap Around(u, w2[k]) = {}
      BY <1>2, <1>7, <2>3
    <3>2. w2[j] \in Int /\ w2[k] \in Int /\ w2[j] < w2[k]
      BY <1>1, <1>5, <1>6, <1>7, <2>1, <2>3
    <3> QED BY <3>1, <3>2, PrecedesApart
  <2> QED BY <1>8, <2>2, <2>3
<1>16. Ordered(u, n + 1, w2, c2)
  BY <1>9, <1>10, <1>12, <1>13, <1>14, <1>15, Zenon DEF Ordered
<1> QED BY <1>16 DEF u, w2, N

\* Its parameters are those of that call.
LEMMA AppendCarried ==
  ASSUME NEW t \in Seq(Nodes), NEW op \in Ops \cup {InitOp}, NEW vec \in Recorded, Node(op, vec, rank) \in Nodes,
         NEW h \in Seq(Calls), NEW w \in [1..Len(h) -> 1..Len(t)], NEW nth, NEW off, Carried(t, h, w, nth, off)
  PROVE  \E nth2, off2 :
           Carried(Append(t, Node(op, vec, rank)), Append(h, [op |-> op, vec |-> vec]),
                   [k \in 1..(Len(h) + 1) |-> IF k <= Len(h) THEN w[k] ELSE Len(t) + 1], nth2, off2)
<1> DEFINE node == Node(op, vec, rank)
           call == [op |-> op, vec |-> vec]
           u == Append(t, node)
           g == Append(h, call)
           N == Len(t)
           n == Len(h)
           w2 == [k \in 1..(n + 1) |-> IF k <= n THEN w[k] ELSE N + 1]
           nth2 == [k \in 1..(n + 1) |-> IF k <= n THEN nth[k] ELSE 1]
           off2 == [k \in 1..(n + 1) |-> IF k <= n THEN off[k] ELSE 0]
<1>1. /\ node.op = op /\ CountsOf(node) = <<Len(vec)>> /\ ValuesOf(node) = vec
      /\ vec \in Seq(Int) /\ Len(vec) \in Nat
  BY NewNodeCarries
<1>2. call.op = op /\ call.vec = vec
  OBVIOUS
<1> HIDE DEF node, call
<1>3. /\ N \in Nat /\ n \in Nat /\ Len(u) = N + 1 /\ Len(g) = n + 1 /\ u[N + 1] = node /\ g[n + 1] = call
      /\ (\A i \in 1..N : u[i] = t[i]) /\ (\A k \in 1..n : g[k] = h[k])
  <2>1. t \in Seq(Nodes) /\ node \in Nodes
    BY DEF node
  <2>2. N \in Nat /\ Len(u) = N + 1 /\ u[N + 1] = node /\ \A i \in 1..N : u[i] = t[i]
    BY <2>1
  <2>3. call \in Calls
    BY DEF call, Calls
  <2>4. n \in Nat /\ Len(g) = n + 1 /\ g[n + 1] = call /\ \A k \in 1..n : g[k] = h[k]
    BY <2>3
  <2> QED BY <2>2, <2>4
<1>4. /\ nth \in [1..n -> Nat \ {0}] /\ off \in [1..n -> Nat]
      /\ \A k \in 1..n :
           /\ h[k].op = t[w[k]].op
           /\ nth[k] <= Len(CountsOf(t[w[k]])) /\ CountsOf(t[w[k]])[nth[k]] = Len(h[k].vec)
           /\ off[k] + Len(h[k].vec) <= Len(ValuesOf(t[w[k]]))
           /\ \A j \in 1..Len(h[k].vec) : ValuesOf(t[w[k]])[off[k] + j] = h[k].vec[j]
           /\ nth[k] = 1 => off[k] = 0
           /\ nth[k] = Len(CountsOf(t[w[k]])) => off[k] + Len(h[k].vec) = Len(ValuesOf(t[w[k]]))
  BY DEF Carried
<1>5. \A i \in 1..N : \A m \in 1..Len(CountsOf(t[i])) : \E k \in 1..n : w[k] = i /\ nth[k] = m
  BY DEF Carried
<1>6. \A j, k \in 1..n : w[j] = w[k] /\ j < k => nth[j] < nth[k]
  BY DEF Carried
<1>7. \A j, k \in 1..n : w[j] = w[k] /\ nth[k] = nth[j] + 1 => off[k] = off[j] + Len(h[j].vec)
  BY DEF Carried
<1>8. \A k \in 1..n : w[k] \in 1..N
  OBVIOUS
<1> HIDE DEF u, g, N, n
<1>9. \A k \in 1..n : k <= n /\ k \in 1..(n + 1) /\ w[k] \in 1..N /\ w[k] # N + 1
  BY <1>3, <1>8
<1>10. \A k \in 1..n : w2[k] = w[k] /\ nth2[k] = nth[k] /\ off2[k] = off[k] /\ g[k] = h[k] /\ u[w2[k]] = t[w[k]]
  BY <1>3, <1>9
<1>11. w2[n + 1] = N + 1 /\ nth2[n + 1] = 1 /\ off2[n + 1] = 0
  BY <1>3
<1>12. \A k \in 1..(n + 1) : k \in 1..n \/ k = n + 1
  BY <1>3
<1>13. nth2 \in [1..(n + 1) -> Nat \ {0}] /\ off2 \in [1..(n + 1) -> Nat]
  <2>1. \A k \in 1..(n + 1) : (IF k <= n THEN nth[k] ELSE 1) \in Nat \ {0} /\ (IF k <= n THEN off[k] ELSE 0) \in Nat
    BY <1>4, <1>12
  <2> QED BY <2>1
<1> HIDE DEF w2, nth2, off2
<1>14. ASSUME NEW k \in 1..(n + 1)
       PROVE  /\ g[k].op = u[w2[k]].op
              /\ nth2[k] <= Len(CountsOf(u[w2[k]])) /\ CountsOf(u[w2[k]])[nth2[k]] = Len(g[k].vec)
              /\ off2[k] + Len(g[k].vec) <= Len(ValuesOf(u[w2[k]]))
              /\ \A j \in 1..Len(g[k].vec) : ValuesOf(u[w2[k]])[off2[k] + j] = g[k].vec[j]
              /\ nth2[k] = 1 => off2[k] = 0
              /\ nth2[k] = Len(CountsOf(u[w2[k]])) => off2[k] + Len(g[k].vec) = Len(ValuesOf(u[w2[k]]))
  <2>1. CASE k \in 1..n
    <3>1. /\ h[k].op = t[w[k]].op
          /\ nth[k] <= Len(CountsOf(t[w[k]])) /\ CountsOf(t[w[k]])[nth[k]] = Len(h[k].vec)
          /\ off[k] + Len(h[k].vec) <= Len(ValuesOf(t[w[k]]))
          /\ \A j \in 1..Len(h[k].vec) : ValuesOf(t[w[k]])[off[k] + j] = h[k].vec[j]
          /\ nth[k] = 1 => off[k] = 0
          /\ nth[k] = Len(CountsOf(t[w[k]])) => off[k] + Len(h[k].vec) = Len(ValuesOf(t[w[k]]))
      BY <1>4, <2>1
    <3>2. nth2[k] = nth[k] /\ off2[k] = off[k] /\ g[k] = h[k] /\ u[w2[k]] = t[w[k]]
      BY <1>10, <2>1
    <3> QED BY <3>1, <3>2, Zenon
  <2>2. CASE k = n + 1
    <3>1. g[k].op = op /\ g[k].vec = vec /\ u[w2[k]] = node /\ nth2[k] = 1 /\ off2[k] = 0
      BY <1>2, <1>3, <1>11, <2>2
    <3>2. Len(CountsOf(node)) = 1 /\ CountsOf(node)[1] = Len(vec)
      BY <1>1
    <3>3. 0 + Len(vec) = Len(vec) /\ 0 + Len(vec) <= Len(vec) /\ \A j \in 1..Len(vec) : 0 + j = j
      BY <1>1
    <3>4. /\ op = node.op
          /\ 1 <= Len(CountsOf(node)) /\ CountsOf(node)[1] = Len(vec)
          /\ 0 + Len(vec) <= Len(ValuesOf(node))
          /\ \A j \in 1..Len(vec) : ValuesOf(node)[0 + j] = vec[j]
          /\ 0 + Len(vec) = Len(ValuesOf(node))
      BY <1>1, <3>2, <3>3
    <3> QED BY <3>1, <3>4
  <2> QED BY <1>12, <2>1, <2>2
<1>15. ASSUME NEW i \in 1..Len(u), NEW m \in 1..Len(CountsOf(u[i]))
       PROVE  \E k \in 1..(n + 1) : w2[k] = i /\ nth2[k] = m
  <2>1. CASE i \in 1..N
    <3>1. u[i] = t[i]
      BY <1>3, <2>1
    <3>2. PICK k \in 1..n : w[k] = i /\ nth[k] = m
      BY <1>5, <2>1, <3>1
    <3> QED BY <1>9, <1>10, <3>2
  <2>2. CASE i = N + 1
    <3>1. m = 1
      <4>1. Len(CountsOf(u[i])) = 1
        BY <1>1, <1>3, <2>2
      <4> QED BY <4>1
    <3>2. n + 1 \in 1..(n + 1)
      BY <1>3
    <3> QED BY <1>11, <2>2, <3>1, <3>2
  <2>3. i \in 1..N \/ i = N + 1
    BY <1>3
  <2> QED BY <2>1, <2>2, <2>3
\* A call of the new node is the last one.
<1>16. \A j, k \in 1..(n + 1) : w2[j] = w2[k] => (j \in 1..n /\ k \in 1..n /\ w[j] = w[k]) \/ (j = n + 1 /\ k = n + 1)
  BY <1>9, <1>10, <1>11, <1>12
<1>17. \A j, k \in 1..(n + 1) : w2[j] = w2[k] /\ j < k => nth2[j] < nth2[k]
  <2> SUFFICES ASSUME NEW j \in 1..(n + 1), NEW k \in 1..(n + 1), w2[j] = w2[k], j < k PROVE nth2[j] < nth2[k]
    OBVIOUS
  <2>1. ~(j = n + 1 /\ k = n + 1)
    BY <1>3
  <2> QED BY <1>6, <1>10, <1>16, <2>1
<1>18. \A j, k \in 1..(n + 1) : w2[j] = w2[k] /\ nth2[k] = nth2[j] + 1 => off2[k] = off2[j] + Len(g[j].vec)
  <2> SUFFICES ASSUME NEW j \in 1..(n + 1), NEW k \in 1..(n + 1), w2[j] = w2[k], nth2[k] = nth2[j] + 1
               PROVE  off2[k] = off2[j] + Len(g[j].vec)
    OBVIOUS
  <2>1. ~(j = n + 1 /\ k = n + 1)
    BY <1>11
  <2>2. j \in 1..n /\ k \in 1..n /\ w[j] = w[k]
    BY <1>16, <2>1
  <2> QED BY <1>7, <1>10, <2>2
<1>19. Carried(u, g, w2, nth2, off2)
  <2>1. Len(g) = n + 1
    BY <1>3
  <2>2. nth2 \in [1..Len(g) -> Nat \ {0}] /\ off2 \in [1..Len(g) -> Nat]
    BY <1>13, <2>1
  <2>3. \A k \in 1..Len(g) :
          /\ g[k].op = u[w2[k]].op
          /\ nth2[k] <= Len(CountsOf(u[w2[k]])) /\ CountsOf(u[w2[k]])[nth2[k]] = Len(g[k].vec)
          /\ off2[k] + Len(g[k].vec) <= Len(ValuesOf(u[w2[k]]))
          /\ \A j \in 1..Len(g[k].vec) : ValuesOf(u[w2[k]])[off2[k] + j] = g[k].vec[j]
          /\ nth2[k] = 1 => off2[k] = 0
          /\ nth2[k] = Len(CountsOf(u[w2[k]])) => off2[k] + Len(g[k].vec) = Len(ValuesOf(u[w2[k]]))
    <3> TAKE k \in 1..Len(g)
    <3>1. k \in 1..(n + 1)
      BY <2>1
    <3> QED BY <1>14, <3>1, Zenon
  <2>4. \A i \in 1..Len(u) : \A m \in 1..Len(CountsOf(u[i])) : \E k \in 1..Len(g) : w2[k] = i /\ nth2[k] = m
    BY <1>15, <2>1
  <2>5. \A j, k \in 1..Len(g) : w2[j] = w2[k] /\ j < k => nth2[j] < nth2[k]
    BY <1>17, <2>1
  <2>6. \A j, k \in 1..Len(g) : w2[j] = w2[k] /\ nth2[k] = nth2[j] + 1 => off2[k] = off2[j] + Len(g[j].vec)
    BY <1>18, <2>1
  <2> QED BY <2>2, <2>3, <2>4, <2>5, <2>6, Zenon DEF Carried
<1> QED BY <1>19 DEF u, g, w2, node, call, n, N

\* The calls of h are what the trace stands for.
Kept(t, h) ==
  \E w \in [1..Len(h) -> 1..Len(t)] : \E c, nth, off : Ordered(t, Len(h), w, c) /\ Carried(t, h, w, nth, off)

\* An empty trace stands for no calls.
LEMMA NoneKept == Kept(<< >>, << >>)
<1> DEFINE f == [k \in 1..0 |-> 0]
<1>1. f \in [1..0 -> 1..0] /\ f \in [1..0 -> [Names -> Nat]] /\ f \in [1..0 -> Nat \ {0}] /\ f \in [1..0 -> Nat]
  OBVIOUS
<1> HIDE DEF f
<1>2. Len(<< >>) = 0 /\ 1..0 = {}
  OBVIOUS
<1>3. Ordered(<< >>, 0, f, f)
  BY <1>1, <1>2 DEF Ordered
<1>4. Carried(<< >>, << >>, f, f, f)
  BY <1>1, <1>2 DEF Carried
<1> QED BY <1>1, <1>2, <1>3, <1>4 DEF Kept

\* An event appended, with the call appended to the history.
LEMMA AppendKept ==
  ASSUME NEW t, Good(t), NEW h \in Seq(Calls), Kept(t, h), NEW op \in Ops \cup {InitOp}, NEW vec \in Recorded
  PROVE  Kept(Append(t, Node(op, vec, rank)), Append(h, [op |-> op, vec |-> vec]))
<1> DEFINE u == Append(t, Node(op, vec, rank))
           g == Append(h, [op |-> op, vec |-> vec])
           n == Len(h)
<1>1. t \in Seq(Nodes) /\ Placed(t)
  BY DEF Good
<1>2. Node(op, vec, rank) \in Nodes /\ Depth(Node(op, vec, rank)) = 0
  BY NewNode
<1>3. PICK w \in [1..n -> 1..Len(t)] : \E c, nth, off : Ordered(t, n, w, c) /\ Carried(t, h, w, nth, off)
  BY DEF Kept
<1>4. PICK c, nth, off : Ordered(t, n, w, c) /\ Carried(t, h, w, nth, off)
  BY <1>3
<1> DEFINE w2 == [k \in 1..(n + 1) |-> IF k <= n THEN w[k] ELSE Len(t) + 1]
<1>5. n \in Nat /\ \E c2 : Ordered(u, n + 1, w2, c2)
  <2>1. n \in Nat
    OBVIOUS
  <2> QED BY <1>1, <1>2, <1>4, <2>1, AppendOrdered, Zenon
<1>6. \E nth2, off2 : Carried(u, g, w2, nth2, off2)
  BY <1>1, <1>2, <1>3, <1>4, AppendCarried, Zenon
<1>7. Len(g) = n + 1
  BY DEF Calls
<1> HIDE DEF u, g, w2, n
<1>8. w2 \in [1..(n + 1) -> 1..Len(u)]
  BY <1>5 DEF Ordered
<1>9. \E w3 \in [1..(n + 1) -> 1..Len(u)] : \E c2, nth2, off2 : Ordered(u, n + 1, w3, c2) /\ Carried(u, g, w3, nth2, off2)
  BY <1>5, <1>6, <1>8
<1>10. Kept(u, g)
  BY <1>7, <1>9 DEF Kept
<1> QED BY <1>10 DEF u, g

\* A fold.
LEMMA FoldKept ==
  ASSUME NEW t, Good(t), NEW h \in Seq(Calls), Kept(t, h), NEW head \in 2..Len(t), Foldable(t, head)
  PROVE  Kept(Fold(t, head), h)
<1> DEFINE u == Fold(t, head)
           n == Len(h)
           length == Len(t) - head + 1
<1>1. t \in Seq(Nodes) /\ Placed(t) /\ n \in Nat
  BY DEF Good
<1>2. Repeated(t, head, u)
  BY <1>1, FoldRepeats
<1>3. PICK w \in [1..n -> 1..Len(t)] : \E c, nth, off : Ordered(t, n, w, c) /\ Carried(t, h, w, nth, off)
  BY DEF Kept
<1>4. PICK c, nth, off : Ordered(t, n, w, c) /\ Carried(t, h, w, nth, off)
  BY <1>3
<1> DEFINE w2 == [k \in 1..n |-> IF w[k] < head THEN w[k] ELSE w[k] - length]
<1> HIDE DEF u
<1>5. Alike(t, head, u)
  BY <1>1, <1>2, RepeatedAlike
<1>6. u \in Seq(Nodes)
  BY <1>2 DEF Repeated
<1>7. \E c2 : Ordered(u, n, w2, c2)
  BY <1>1, <1>4, <1>5, <1>6, FoldOrdered
<1>8. \A j, k \in 1..n : j < k /\ w[k] < head => w[j] < head
  BY <1>1, <1>4, <1>5, RepetitionsInOrder
<1>9. \E nth2, off2 : Carried(u, h, w2, nth2, off2)
  BY <1>2, <1>3, <1>4, <1>8, FoldCarried
<1> HIDE DEF w2
<1>10. w2 \in [1..n -> 1..Len(u)]
  BY <1>7 DEF Ordered
<1>11. Kept(u, h)
  BY <1>7, <1>9, <1>10 DEF Kept
<1> QED BY <1>11 DEF u

\* And all the folds that an event brings about.
LEMMA AppendedKept ==
  ASSUME NEW t, Good(t), NEW h \in Seq(Calls), Kept(t, h), NEW op \in Ops \cup {InitOp}, NEW vec \in Recorded
  PROVE  Kept(Appended(t, Node(op, vec, rank)), Append(h, [op |-> op, vec |-> vec]))
<1> DEFINE u == Append(t, Node(op, vec, rank))
           g == Append(h, [op |-> op, vec |-> vec])
           S == {x \in Seq(Nodes) : Good(x) /\ Kept(x, g)}
<1>1. Kept(u, g)
  BY AppendKept
<1>2. Good(u)
  <2>1. Node(op, vec, rank) \in Nodes /\ Depth(Node(op, vec, rank)) = 0 /\ ~Node(op, vec, rank).member
    BY NewNode
  <2>2. t \in Seq(Nodes) /\ Placed(t)
    BY DEF Good
  <2> QED BY <2>1, <2>2, AppendPlaced
<1>3. g \in Seq(Calls)
  BY DEF Calls
<1>4. Appended(t, Node(op, vec, rank)) = FastCompressLoop(u)
  BY DEF Appended
<1> HIDE DEF u, g
<1>5. u \in Seq(Nodes) /\ u \in S
  BY <1>1, <1>2 DEF Good
<1>6. \A x \in S : FoldOnce(x) \in S
  <2> TAKE x \in S
  <2>1. x \in Seq(Nodes) /\ Good(x) /\ Kept(x, g)
    OBVIOUS
  <2>2. Good(FoldOnce(x))
    BY <2>1, FoldOnceGood
  <2>3. Kept(FoldOnce(x), g)
    <3>1. CASE FoldOnce(x) = x
      BY <2>1, <3>1
    <3>2. ASSUME NEW head \in 2..Len(x), Foldable(x, head), FoldOnce(x) = Fold(x, head)
          PROVE  Kept(FoldOnce(x), g)
      BY <1>3, <2>1, <3>2, FoldKept
    <3> QED BY <2>1, <3>1, <3>2, FoldsOnce
  <2> QED BY <2>2, <2>3 DEF Good
<1> HIDE DEF S
<1>7. FastCompressLoop(u) \in S
  BY <1>5, <1>6, FoldsKeep
<1> QED BY <1>4, <1>7 DEF S, g
-----------------------------------------------------------------------------
(* What a trace stands for. *)

\* The visit a call is.
Visit(t, w, c, k) == [node |-> w[k], turn |-> [l \in Around(t, w[k]) |-> c[k][l]]]

\* The visits of the trace are those of the calls.
LEMMA VisitsOfCalls ==
  ASSUME NEW t \in Seq(Nodes), NEW n \in Nat, NEW w, NEW c, Ordered(t, n, w, c)
  PROVE  Visits(t) = {Visit(t, w, c, k) : k \in 1..n}
<1> DEFINE Turns(i) == {turn \in [Around(t, i) -> UNION {1..Times(t, l) : l \in Around(t, i)}] :
                          \A l \in Around(t, i) : turn[l] \in 1..Times(t, l)}
<1>1. Visits(t) = UNION {{[node |-> i, turn |-> turn] : turn \in Turns(i)} : i \in 1..Len(t)}
  <2>1. DOMAIN t = 1..Len(t)
    OBVIOUS
  <2> QED BY <2>1 DEF Visits
<1>2. /\ w \in [1..n -> 1..Len(t)]
      /\ \A i \in 1..Len(t) : \A l \in Around(t, i) : Times(t, l) \in Nat \ {0}
      /\ \A k \in 1..n : \A l \in Around(t, w[k]) : c[k][l] \in 1..Times(t, l)
  BY DEF Ordered
<1>3. \A i \in 1..Len(t) : \A f \in [Names -> Nat] :
         (\A l \in Around(t, i) : f[l] \in 1..Times(t, l))
         => \E k \in 1..n : w[k] = i /\ \A l \in Around(t, i) : c[k][l] = f[l]
  BY DEF Ordered
<1>4. ASSUME NEW x \in Visits(t) PROVE x \in {Visit(t, w, c, k) : k \in 1..n}
  <2>1. PICK i \in 1..Len(t) : \E turn \in Turns(i) : x = [node |-> i, turn |-> turn]
    <3> HIDE DEF Turns
    <3> QED BY <1>1
  <2>2. PICK turn \in Turns(i) : x = [node |-> i, turn |-> turn]
    BY <2>1
  <2>3. \A l \in Around(t, i) : turn[l] \in 1..Times(t, l) /\ turn[l] \in Nat /\ l \in Names
    <3>1. \A l \in Around(t, i) : turn[l] \in 1..Times(t, l)
      BY <2>2
    <3>2. \A l \in Around(t, i) : l \in Names
      BY AroundNames
    <3> QED BY <3>1, <3>2
  <2>4. turn = [l \in Around(t, i) |-> turn[l]]
    BY <2>2
  <2> HIDE DEF Turns
  <2> DEFINE f == [l \in Names |-> IF l \in Around(t, i) THEN turn[l] ELSE 0]
  <2>5. f \in [Names -> Nat] /\ \A l \in Around(t, i) : f[l] = turn[l]
    BY <2>3
  <2> HIDE DEF f
  <2>6. PICK k \in 1..n : w[k] = i /\ \A l \in Around(t, i) : c[k][l] = f[l]
    BY <1>3, <2>3, <2>5
  <2>7. [l \in Around(t, i) |-> c[k][l]] = turn
    BY <2>4, <2>5, <2>6
  <2>8. x = Visit(t, w, c, k)
    BY <2>6, <2>7, <2>2 DEF Visit
  <2> QED BY <2>8
<1>5. ASSUME NEW k \in 1..n PROVE Visit(t, w, c, k) \in Visits(t)
  <2> DEFINE A == Around(t, w[k])
             turn == [l \in A |-> c[k][l]]
  <2>1. w[k] \in 1..Len(t)
    BY <1>2
  <2>2. \A l \in A : c[k][l] \in 1..Times(t, l)
    BY <1>2
  <2>3. \A l \in A : c[k][l] \in UNION {1..Times(t, m) : m \in A}
    BY <2>2
  <2> HIDE DEF A
  <2>4. turn \in [A -> UNION {1..Times(t, m) : m \in A}] /\ \A l \in A : turn[l] \in 1..Times(t, l)
    BY <2>2, <2>3
  <2> HIDE DEF turn
  <2>5. turn \in Turns(w[k])
    BY <2>4 DEF A
  <2> HIDE DEF Turns
  <2>6. Visit(t, w, c, k) = [node |-> w[k], turn |-> turn]
    BY DEF Visit, turn, A
  <2> QED BY <1>1, <2>1, <2>5, <2>6
<1> QED BY <1>4, <1>5

\* Of two visits of calls, Before is Precedes.
LEMMA VisitsBefore ==
  ASSUME NEW t, NEW w, NEW c, NEW j, NEW k
  PROVE  /\ Before(Visit(t, w, c, j), Visit(t, w, c, k))
            <=> Precedes(Around(t, w[j]) \cap Around(t, w[k]), w[j], c[j], w[k], c[k])
         /\ Visit(t, w, c, k).node = w[k]
<1> DEFINE x == Visit(t, w, c, j)
           y == Visit(t, w, c, k)
           A == Around(t, w[j]) \cap Around(t, w[k])
           D == {l \in DOMAIN x.turn \cap DOMAIN y.turn : x.turn[l] # y.turn[l]}
           E == {l \in A : c[j][l] # c[k][l]}
<1>1. /\ x.node = w[j] /\ y.node = w[k]
      /\ x.turn = [l \in Around(t, w[j]) |-> c[j][l]] /\ y.turn = [l \in Around(t, w[k]) |-> c[k][l]]
  BY DEF Visit
<1>2. /\ DOMAIN x.turn = Around(t, w[j]) /\ DOMAIN y.turn = Around(t, w[k])
      /\ \A l \in A : x.turn[l] = c[j][l] /\ y.turn[l] = c[k][l]
  BY <1>1
<1> HIDE DEF x, y
<1>3. D = E
  BY <1>2
<1>4. Before(x, y) <=> \/ D = {} /\ x.node < y.node
                       \/ \E l \in D : x.turn[l] < y.turn[l] /\ \A m \in D \ {l} : Outside(l, m)
  BY DEF Before
<1>5. Precedes(A, w[j], c[j], w[k], c[k]) <=> \/ E = {} /\ w[j] < w[k]
                                             \/ \E l \in E : c[j][l] < c[k][l] /\ \A m \in E \ {l} : Outside(l, m)
  BY DEF Precedes
<1>6. \A l \in E : l \in A
  OBVIOUS
<1>7. Before(x, y) <=> Precedes(A, w[j], c[j], w[k], c[k])
  <2> HIDE DEF A, D, E
  <2> QED BY <1>1, <1>2, <1>3, <1>4, <1>5, <1>6
<1> QED BY <1>1, <1>7 DEF x, y, A

\* No visit precedes one that precedes it.
LEMMA PrecedesOneWay ==
  ASSUME NEW A \in SUBSET Names, NEW i \in Int, NEW j \in Int, NEW f \in [Names -> Nat], NEW g \in [Names -> Nat],
         Precedes(A, i, f, j, g), Precedes(A, j, g, i, f)
  PROVE  FALSE
<1> DEFINE D == {l \in A : f[l] # g[l]}
           E == {l \in A : g[l] # f[l]}
<1>1. D = E
  OBVIOUS
<1>2. \/ D = {} /\ i < j
      \/ \E l \in D : f[l] < g[l] /\ \A m \in D \ {l} : Outside(l, m)
  BY DEF Precedes
<1>3. \/ E = {} /\ j < i
      \/ \E l \in E : g[l] < f[l] /\ \A m \in E \ {l} : Outside(l, m)
  BY DEF Precedes
<1>4. \A l \in D : l \in Names
  OBVIOUS
<1> HIDE DEF D, E
<1>5. \A l \in D : l[1] \in Nat /\ l[2] \in Nat /\ f[l] \in Nat /\ g[l] \in Nat
  BY <1>4 DEF Names
<1>6. CASE D = {}
  BY <1>1, <1>2, <1>3, <1>6
<1>7. CASE D # {}
  <2>1. PICK l \in D : f[l] < g[l] /\ \A m \in D \ {l} : Outside(l, m)
    BY <1>2, <1>7
  <2>2. PICK o \in D : g[o] < f[o] /\ \A m \in D \ {o} : Outside(o, m)
    BY <1>1, <1>3, <1>7
  <2>3. l # o
    BY <1>5, <2>1, <2>2
  <2>4. Outside(l, o) /\ Outside(o, l)
    BY <2>1, <2>2, <2>3
  <2> QED BY <1>5, <2>4 DEF Outside
<1> QED BY <1>6, <1>7

\* Calls are in the order of their visits, each a visit of its own.
LEMMA VisitsInOrder ==
  ASSUME NEW t \in Seq(Nodes), NEW n \in Nat, NEW w, NEW c, Ordered(t, n, w, c),
         NEW j \in 1..n, NEW k \in 1..n
  PROVE  /\ Before(Visit(t, w, c, j), Visit(t, w, c, k)) <=> j < k
         /\ Visit(t, w, c, j) = Visit(t, w, c, k) => j = k
<1> DEFINE V(m) == Visit(t, w, c, m)
           A(l, m) == Around(t, w[l]) \cap Around(t, w[m])
<1>1. /\ \A m \in 1..n : w[m] \in Int /\ c[m] \in [Names -> Nat]
      /\ \A l, m \in 1..n : l < m => Precedes(A(l, m), w[l], c[l], w[m], c[m])
  BY DEF Ordered
<1>2. \A l, m \in 1..n : A(l, m) = A(m, l) /\ A(l, m) \in SUBSET Names
  <2> TAKE l, m \in 1..n
  <2>1. \A o \in Around(t, w[l]) : o \in Names
    BY <1>1, AroundNames
  <2> QED BY <2>1
<1> HIDE DEF A
<1>3. \A l, m : Before(V(l), V(m)) <=> Precedes(A(l, m), w[l], c[l], w[m], c[m])
  BY VisitsBefore DEF A
<1>4. ASSUME NEW l \in 1..n, NEW m \in 1..n, Precedes(A(l, m), w[l], c[l], w[m], c[m]) PROVE ~(m < l)
  <2>1. ASSUME m < l PROVE FALSE
    <3>1. Precedes(A(l, m), w[m], c[m], w[l], c[l])
      BY <1>1, <1>2, <2>1
    <3> QED BY <1>1, <1>2, <1>4, <3>1, PrecedesOneWay
  <2> QED BY <2>1
<1>5. ASSUME NEW l \in 1..n, Precedes(A(l, l), w[l], c[l], w[l], c[l]) PROVE FALSE
  BY <1>1, <1>2, <1>5, PrecedesOneWay
<1>6. ASSUME NEW l \in 1..n, NEW m \in 1..n, Before(V(l), V(m)) PROVE l < m
  <2>1. ~(m < l)
    BY <1>3, <1>4, <1>6
  <2>2. m # l
    <3>1. ASSUME m = l PROVE FALSE
      <4>1. Precedes(A(l, l), w[l], c[l], w[l], c[l])
        BY <1>3, <1>6, <3>1
      <4> QED BY <1>5, <4>1
    <3> QED BY <3>1
  <2> QED BY <2>1, <2>2
<1>7. ASSUME NEW l \in 1..n, NEW m \in 1..n, l < m PROVE Before(V(l), V(m)) /\ V(l) # V(m)
  <2>1. Before(V(l), V(m))
    BY <1>1, <1>3, <1>7
  <2>2. ASSUME V(l) = V(m) PROVE FALSE
    <3>1. Before(V(l), V(l))
      BY <2>1, <2>2
    <3>2. Precedes(A(l, l), w[l], c[l], w[l], c[l])
      BY <1>3, <3>1
    <3> QED BY <1>5, <3>2
  <2> QED BY <2>1, <2>2
<1> HIDE DEF V
<1>8. V(j) = V(k) => j = k
  <2>1. j < k \/ k < j \/ j = k
    OBVIOUS
  <2> QED BY <1>7, <2>1
<1> QED BY <1>6, <1>7, <1>8 DEF V

\* A set numbered from 1 to n has n elements.
LEMMA Numbered ==
  ASSUME NEW n \in Nat, NEW S, NEW f \in [1..n -> S],
         \A j, k \in 1..n : f[j] = f[k] => j = k, \A x \in S : \E k \in 1..n : f[k] = x
  PROVE  IsFiniteSet(S) /\ Cardinality(S) = n
<1>1. f \in Bijection(1..n, S)
  BY DEF Bijection, Injection, Surjection, IsInjective
<1>2. ExistsBijection(1..n, S)
  BY <1>1 DEF ExistsBijection
<1>3. IsFiniteSet(1..n) /\ Cardinality(1..n) = n
  <2>1. IsFiniteSet(1..n) /\ Cardinality(1..n) = IF 1 > n THEN 0 ELSE n - 1 + 1
    BY FS_Interval
  <2> QED BY <2>1
<1> QED BY <1>2, <1>3, FS_Bijection

\* The ends are the sums that start at 0 and grow by each count.
LEMMA EndsOf ==
  ASSUME NEW counts \in Seq(Int), NEW e \in [0..Len(counts) -> Int], e[0] = 0,
         \A m \in 1..Len(counts) : e[m] = e[m - 1] + counts[m]
  PROVE  \A m \in 0..Len(counts) : Ends(counts)[m] = e[m]
<1> DEFINE L == Len(counts)
           Sums(f) == f = [m \in 0..L |-> IF m = 0 THEN 0 ELSE f[m - 1] + counts[m]]
           ends == CHOOSE f : Sums(f)
<1>1. L \in Nat
  OBVIOUS
<1> HIDE DEF L
<1>2. Sums(e)
  <2>1. e = [m \in 0..L |-> e[m]]
    BY DEF L
  <2>2. \A m \in 0..L : e[m] = IF m = 0 THEN 0 ELSE e[m - 1] + counts[m]
    <3> TAKE m \in 0..L
    <3>1. m # 0 => m \in 1..L
      BY <1>1
    <3> QED BY <3>1 DEF L
  <2> QED BY <2>1, <2>2
<1>3. Ends(counts) = ends
  BY DEF Ends, L
<1>4. Sums(ends)
  <2> HIDE DEF Sums
  <2> QED BY <1>2, Zenon
<1> HIDE DEF ends
<1> DEFINE Wrong == {m \in 0..L : ends[m] # e[m]}
<1>5. Wrong = {}
  <2>1. SUFFICES ASSUME Wrong # {} PROVE FALSE
    OBVIOUS
  <2>2. PICK m \in Wrong : \A i \in Wrong : m <= i
    <3>1. Wrong \subseteq Nat
      OBVIOUS
    <3> HIDE DEF Wrong
    <3> QED BY <2>1, <3>1, Smallest
  <2>3. m \in 0..L /\ ends[m] # e[m]
    OBVIOUS
  <2>4. m # 0
    BY <1>2, <1>4, <2>3
  <2>5. m - 1 \in 0..L /\ m - 1 < m
    BY <1>1, <2>3, <2>4
  <2>6. m - 1 \notin Wrong
    <3> HIDE DEF Wrong
    <3> QED BY <2>2, <2>3, <2>5
  <2>7. ends[m - 1] = e[m - 1]
    BY <2>5, <2>6
  <2>8. ends[m] = ends[m - 1] + counts[m] /\ e[m] = e[m - 1] + counts[m]
    BY <1>2, <1>4, <2>3, <2>4
  <2> QED BY <2>3, <2>7, <2>8
<1> QED BY <1>3, <1>5 DEF L

\* A part of a sequence.
LEMMA PartOf ==
  ASSUME NEW s \in Seq(Int), NEW v \in Seq(Int), NEW o \in Nat, o + Len(v) <= Len(s),
         \A j \in 1..Len(v) : s[o + j] = v[j]
  PROVE  v = SubSeq(s, o + 1, o + Len(v))
<1> DEFINE n == Len(v)
           r == SubSeq(s, o + 1, o + n)
<1>1. n \in Nat /\ v = [i \in 1..n |-> v[i]]
  OBVIOUS
<1>2. \A i \in (o + 1)..(o + n) : s[i] \in Int
  OBVIOUS
<1>3. r \in Seq(Int) /\ Len(r) = (IF o + 1 <= o + n THEN o + n - (o + 1) + 1 ELSE 0)
      /\ \A i \in 1..(o + n - (o + 1) + 1) : r[i] = s[o + 1 + i - 1]
  <2>1. o + 1 \in Int /\ o + n \in Int
    BY <1>1
  <2> QED BY <1>2, <2>1, SubSeqProperties
<1> HIDE DEF r
<1>4. Len(r) = n /\ o + n - (o + 1) + 1 = n
  BY <1>1, <1>3
<1>5. \A i \in 1..n : r[i] = v[i]
  <2> TAKE i \in 1..n
  <2>1. r[i] = s[o + 1 + i - 1]
    BY <1>3, <1>4
  <2>2. o + 1 + i - 1 = o + i
    BY <1>1
  <2> QED BY <2>1, <2>2
<1>6. r = [i \in 1..n |-> r[i]]
  BY <1>3, <1>4, SeqIsFunction
<1> QED BY <1>1, <1>5, <1>6 DEF r, n

\* The ends of a node's calls are where the values of each end.
LEMMA EndsOfCalls ==
  ASSUME NEW t \in Seq(Nodes), NEW h \in Seq(Calls), NEW w \in [1..Len(h) -> 1..Len(t)],
         NEW nth, NEW off, Carried(t, h, w, nth, off), NEW k \in 1..Len(h)
  PROVE  LET C == CountsOf(t[w[k]])
         IN  /\ Ends(C)[nth[k] - 1] = off[k]
             /\ Ends(C)[nth[k]] = off[k] + Len(h[k].vec)
             /\ Ends(C)[Len(C)] = Len(ValuesOf(t[w[k]]))
<1> DEFINE n == Len(h)
           i == w[k]
           C == CountsOf(t[i])
           M == Len(C)
           Vals == Len(ValuesOf(t[i]))
           L(j) == Len(h[j].vec)
           K == [m \in 1..M |-> CHOOSE j \in 1..n : w[j] = i /\ nth[j] = m]
           e == [m \in 0..M |-> IF m = 0 THEN 0 ELSE off[K[m]] + L(K[m])]
<1>1. i \in 1..Len(t) /\ C \in Seq(Int) /\ M \in Nat \ {0}
  <2>1. t[i] \in Nodes
    OBVIOUS
  <2> QED BY <2>1, CarriedTyped
<1>2. /\ nth \in [1..n -> Nat \ {0}] /\ off \in [1..n -> Nat]
      /\ \A j \in 1..n : w[j] = i =>
           /\ nth[j] <= M /\ C[nth[j]] = L(j)
           /\ nth[j] = 1 => off[j] = 0
           /\ nth[j] = M => off[j] + L(j) = Vals
      /\ \A j, l \in 1..n : w[j] = w[l] /\ j < l => nth[j] < nth[l]
      /\ \A j, l \in 1..n : w[j] = w[l] /\ nth[l] = nth[j] + 1 => off[l] = off[j] + L(j)
  BY DEF Carried
<1>3. \A m \in 1..M : \E j \in 1..n : w[j] = i /\ nth[j] = m
  BY <1>1 DEF Carried
<1>4. \A j \in 1..n : L(j) \in Nat
  <2>1. \A j \in 1..n : h[j].vec \in Recorded
    <3>1. \A j \in 1..n : h[j] \in Calls
      OBVIOUS
    <3> QED BY <3>1 DEF Calls
  <2>2. <<0>> \in Seq(Int)
    OBVIOUS
  <2>3. \A v \in Recorded : v \in Seq(Int)
    BY <2>2, VectorsAssumption DEF Recorded
  <2>4. \A s \in Seq(Int) : Len(s) \in Nat
    OBVIOUS
  <2> QED BY <2>1, <2>3, <2>4
<1>5. k \in 1..n /\ w[k] = i
  OBVIOUS
<1> HIDE DEF n, i, C, L, M, Vals
<1>6. \A m \in 1..M : K[m] \in 1..n /\ w[K[m]] = i /\ nth[K[m]] = m
  BY <1>3
<1>7. M = Len(C) /\ M \in 1..M /\ e[0] = 0 /\ \A m \in 1..M : m \in 0..M /\ m # 0 /\ e[m] = off[K[m]] + L(K[m])
  BY <1>1 DEF M
<1>8. e \in [0..M -> Int]
  <2>1. \A m \in 0..M : (IF m = 0 THEN 0 ELSE off[K[m]] + L(K[m])) \in Int
    <3> HIDE DEF K
    <3> TAKE m \in 0..M
    <3>1. m # 0 => m \in 1..M
      BY <1>1
    <3> QED BY <1>2, <1>4, <1>6, <3>1
  <2> HIDE DEF K
  <2> QED BY <2>1
<1> HIDE DEF K, e
<1>9. \A m \in 1..M : e[m - 1] = off[K[m]]
  <2> TAKE m \in 1..M
  <2>1. CASE m = 1
    BY <1>2, <1>5, <1>6, <1>7, <2>1
  <2>2. CASE m # 1
    <3>1. m - 1 \in 1..M /\ m = (m - 1) + 1
      BY <1>1, <2>2
    <3>2. e[m - 1] = off[K[m - 1]] + L(K[m - 1])
      BY <1>7, <3>1
    <3>3. K[m] \in 1..n /\ K[m - 1] \in 1..n /\ w[K[m - 1]] = w[K[m]] /\ nth[K[m]] = nth[K[m - 1]] + 1
      BY <1>6, <3>1
    <3>4. off[K[m]] = off[K[m - 1]] + L(K[m - 1])
      BY <1>2, <3>3
    <3> QED BY <3>2, <3>4
  <2> QED BY <2>1, <2>2
<1>10. \A m \in 1..M : e[m] = e[m - 1] + C[m]
  <2> TAKE m \in 1..M
  <2>1. C[m] = L(K[m])
    BY <1>2, <1>6
  <2> QED BY <1>7, <1>9, <2>1
<1>11. \A m \in 0..M : Ends(C)[m] = e[m]
  BY <1>1, <1>7, <1>8, <1>10, EndsOf
\* Call k is the one numbered nth[k].
<1>12. nth[k] \in 1..M /\ nth[k] - 1 \in 0..M
  BY <1>1, <1>2, <1>5
<1>13. K[nth[k]] = k
  <2> DEFINE j == K[nth[k]]
  <2>1. j \in 1..n /\ w[j] = w[k] /\ nth[j] = nth[k]
    BY <1>5, <1>6, <1>12
  <2> HIDE DEF j
  <2>2. nth[k] \in Int /\ j \in Int /\ k \in Int
    BY <1>5, <1>12, <2>1
  <2>3. ~(j < k) /\ ~(k < j)
    BY <1>2, <1>5, <2>1, <2>2
  <2> QED BY <2>2, <2>3 DEF j
<1>14. Ends(C)[nth[k] - 1] = off[k]
  BY <1>9, <1>11, <1>12, <1>13
<1>15. Ends(C)[nth[k]] = off[k] + L(k)
  BY <1>7, <1>11, <1>12, <1>13
<1>16. Ends(C)[M] = Vals
  <2>1. Ends(C)[M] = off[K[M]] + L(K[M])
    BY <1>7, <1>11
  <2> QED BY <1>2, <1>6, <1>7, <2>1
<1> QED BY <1>14, <1>15, <1>16 DEF L, C, M, i, Vals

\* Visit x of node i is the k-th, and the m-th of its node.
Place(t, x, k, m, i) ==
  LET earlier == {y \in Visits(t) : Before(y, x)}
  IN  /\ Cardinality(earlier) = k - 1
      /\ Cardinality({y \in earlier : y.node = x.node}) = m - 1
      /\ Cardinality({y \in Visits(t) : y.node = x.node}) = Len(CountsOf(t[i]))
      /\ x.node = i

\* The visit of a call.
LEMMA VisitsCounted ==
  ASSUME NEW t \in Seq(Nodes), NEW h \in Seq(Calls), NEW w \in [1..Len(h) -> 1..Len(t)], NEW c, NEW nth, NEW off,
         Ordered(t, Len(h), w, c), Carried(t, h, w, nth, off), NEW k \in 1..Len(h)
  PROVE  Place(t, Visit(t, w, c, k), k, nth[k], w[k])
<1> DEFINE n == Len(h)
           V(j) == Visit(t, w, c, j)
           i == w[k]
           M == Len(CountsOf(t[i]))
           K == [m \in 1..M |-> CHOOSE j \in 1..n : w[j] = i /\ nth[j] = m]
           Earlier == {y \in Visits(t) : Before(y, V(k))}
<1>1. n \in Nat /\ k \in 1..n /\ w[k] = i /\ Visits(t) = {V(j) : j \in 1..n}
  <2>1. n \in Nat /\ k \in 1..n
    OBVIOUS
  <2> QED BY <2>1, VisitsOfCalls
<1>2. \A j, l \in 1..n : (Before(V(j), V(l)) <=> j < l) /\ (V(j) = V(l) => j = l)
  BY <1>1, VisitsInOrder
<1>3. \A j \in 1..n : V(j).node = w[j]
  BY DEF Visit
<1>4. i \in 1..Len(t) /\ M \in Nat \ {0}
  <2>1. t[i] \in Nodes
    OBVIOUS
  <2> QED BY <2>1, CarriedTyped
<1>5. /\ nth \in [1..n -> Nat \ {0}] /\ \A j \in 1..n : w[j] = i => nth[j] <= M
      /\ \A j, l \in 1..n : w[j] = w[l] /\ j < l => nth[j] < nth[l]
  BY DEF Carried
<1>6. \A m \in 1..M : \E j \in 1..n : w[j] = i /\ nth[j] = m
  BY <1>4 DEF Carried
<1> HIDE DEF n, V, i, M
<1>7. \A m \in 1..M : K[m] \in 1..n /\ w[K[m]] = i /\ nth[K[m]] = m
  BY <1>6
<1> HIDE DEF K
<1>8. \A j, l \in 1..n : w[j] = i /\ w[l] = i => (j < l <=> nth[j] < nth[l]) /\ (nth[j] = nth[l] => j = l)
  <2> SUFFICES ASSUME NEW j \in 1..n, NEW l \in 1..n, w[j] = i, w[l] = i
               PROVE  (j < l <=> nth[j] < nth[l]) /\ (nth[j] = nth[l] => j = l)
    OBVIOUS
  <2>1. nth[j] \in Nat /\ nth[l] \in Nat /\ (j < l => nth[j] < nth[l]) /\ (l < j => nth[l] < nth[j])
    BY <1>5
  <2>2. j < l \/ j = l \/ l < j
    OBVIOUS
  <2> QED BY <2>1, <2>2
<1>9. Cardinality(Earlier) = k - 1
  <2> DEFINE f == [j \in 1..(k - 1) |-> V(j)]
  <2>1. k - 1 \in Nat /\ \A j \in 1..(k - 1) : j \in 1..n /\ j < k /\ f[j] = V(j)
    BY <1>1
  <2>2. \A j \in 1..n : j < k => j \in 1..(k - 1)
    BY <1>1
  <2>3. f \in [1..(k - 1) -> Earlier]
    BY <1>1, <1>2, <2>1
  <2>4. \A j, l \in 1..(k - 1) : f[j] = f[l] => j = l
    <3> HIDE DEF f
    <3> QED BY <1>2, <2>1
  <2>5. ASSUME NEW x \in Earlier PROVE \E j \in 1..(k - 1) : f[j] = x
    <3> HIDE DEF f
    <3>1. PICK j \in 1..n : x = V(j)
      BY <1>1
    <3>2. j < k
      BY <1>1, <1>2, <3>1
    <3> QED BY <2>1, <2>2, <3>1, <3>2
  <2> HIDE DEF f, Earlier
  <2> QED BY <2>1, <2>3, <2>4, <2>5, Numbered
<1>10. Cardinality({y \in Earlier : y.node = V(k).node}) = nth[k] - 1
  <2> DEFINE S == {y \in Earlier : y.node = V(k).node}
             p == nth[k] - 1
             f == [m \in 1..p |-> V(K[m])]
  <2>1. nth[k] \in 1..M /\ p \in Nat
    BY <1>1, <1>4, <1>5
  <2>2. \A m \in 1..p : m \in 1..M /\ m < nth[k] /\ f[m] = V(K[m])
    BY <1>4, <2>1
  <2>3. f \in [1..p -> S]
    <3>1. \A m \in 1..p : V(K[m]) \in S
      <4> TAKE m \in 1..p
      <4>1. m \in 1..M /\ m < nth[k]
        BY <2>2
      <4>2. K[m] \in 1..n /\ w[K[m]] = i /\ nth[K[m]] = m
        BY <1>7, <4>1
      <4>3. K[m] < k
        BY <1>1, <1>8, <4>1, <4>2
      <4>4. V(K[m]) \in Visits(t) /\ Before(V(K[m]), V(k)) /\ V(K[m]).node = V(k).node
        BY <1>1, <1>2, <1>3, <4>2, <4>3
      <4> QED BY <4>4
    <3> HIDE DEF S, p
    <3> QED BY <3>1
  <2>4. \A l, m \in 1..p : f[l] = f[m] => l = m
    <3> HIDE DEF f, p
    <3> TAKE l, m \in 1..p
    <3>1. /\ f[l] = V(K[l]) /\ f[m] = V(K[m]) /\ K[l] \in 1..n /\ K[m] \in 1..n
          /\ nth[K[l]] = l /\ nth[K[m]] = m
      BY <1>7, <2>2
    <3> QED BY <1>2, <3>1
  <2>5. ASSUME NEW x \in S PROVE \E m \in 1..p : f[m] = x
    <3>1. PICK j \in 1..n : x = V(j)
      BY <1>1
    <3>2. j < k /\ w[j] = i
      BY <1>1, <1>2, <1>3, <3>1
    <3>3. nth[j] \in Nat \ {0} /\ nth[j] < nth[k] /\ nth[k] \in Nat
      BY <1>1, <1>5, <1>8, <3>2
    <3>4. nth[j] \in 1..p /\ nth[j] \in 1..M
      BY <1>5, <3>2, <3>3, <2>1
    <3>5. K[nth[j]] = j
      BY <1>7, <1>8, <3>2, <3>4
    <3> HIDE DEF f, p
    <3> QED BY <2>2, <3>1, <3>4, <3>5
  <2> HIDE DEF f, S, p
  <2>6. Cardinality(S) = p
    BY <2>1, <2>3, <2>4, <2>5, Numbered
  <2> QED BY <2>6 DEF S, p
<1>11. Cardinality({y \in Visits(t) : y.node = V(k).node}) = M
  <2> DEFINE S == {y \in Visits(t) : y.node = V(k).node}
             f == [m \in 1..M |-> V(K[m])]
  <2>1. \A m \in 1..M : f[m] = V(K[m])
    OBVIOUS
  <2>2. f \in [1..M -> S]
    <3>1. \A m \in 1..M : V(K[m]) \in S
      <4> TAKE m \in 1..M
      <4>1. K[m] \in 1..n /\ w[K[m]] = i
        BY <1>7
      <4>2. V(K[m]) \in Visits(t) /\ V(K[m]).node = V(k).node
        BY <1>1, <1>3, <4>1
      <4> QED BY <4>2
    <3> HIDE DEF S
    <3> QED BY <3>1
  <2> HIDE DEF f
  <2>3. \A l, m \in 1..M : f[l] = f[m] => l = m
    <3> TAKE l, m \in 1..M
    <3>1. /\ f[l] = V(K[l]) /\ f[m] = V(K[m]) /\ K[l] \in 1..n /\ K[m] \in 1..n
          /\ nth[K[l]] = l /\ nth[K[m]] = m
      BY <1>7, <2>1
    <3> QED BY <1>2, <3>1
  <2>4. ASSUME NEW x \in S PROVE \E m \in 1..M : f[m] = x
    <3>1. PICK j \in 1..n : x = V(j)
      BY <1>1
    <3>2. w[j] = i
      BY <1>1, <1>3, <3>1
    <3>3. nth[j] \in 1..M
      BY <1>4, <1>5, <3>2
    <3>4. K[nth[j]] = j
      BY <1>7, <1>8, <3>2, <3>3
    <3> QED BY <2>1, <3>1, <3>3, <3>4
  <2> HIDE DEF S
  <2>5. M \in Nat
    BY <1>4
  <2>6. Cardinality(S) = M
    BY <2>2, <2>3, <2>4, <2>5, Numbered
  <2> QED BY <2>6 DEF S
<1>12. V(k).node = i
  BY <1>1, <1>3
<1> QED BY <1>9, <1>10, <1>11, <1>12 DEF Place, V, M, i, n

\* The calls kept are what the trace stands for.
LEMMA KeptStandsFor ==
  ASSUME NEW t \in Seq(Nodes), NEW h \in Seq(Calls), Kept(t, h)
  PROVE  StandsFor(t, h)
<1> DEFINE n == Len(h)
           visits == Visits(t)
           Earlier(x) == {y \in visits : Before(y, x)}
           Call(x) == h[Cardinality(Earlier(x)) + 1]
           Again(x) == Cardinality({y \in Earlier(x) : y.node = x.node}) + 1
           Counts(x) == Expand(t[x.node].count[1])
           Vals(x) == Expand(t[x.node].values[1])
           V(w, c, k) == Visit(t, w, c, k)
<1>1. PICK w \in [1..n -> 1..Len(t)] : \E c, nth, off : Ordered(t, n, w, c) /\ Carried(t, h, w, nth, off)
  BY DEF Kept
<1>2. PICK c, nth, off : Ordered(t, n, w, c) /\ Carried(t, h, w, nth, off)
  BY <1>1
<1>3. n \in Nat /\ \A s \in Seq(Int) : Len(s) \in Nat
  OBVIOUS
<1>4. visits = {Visit(t, w, c, k) : k \in 1..n}
  BY <1>2, <1>3, VisitsOfCalls
<1>5. \A j, k \in 1..n : /\ Before(Visit(t, w, c, j), Visit(t, w, c, k)) <=> j < k
                         /\ Visit(t, w, c, j) = Visit(t, w, c, k) => j = k
  BY <1>2, <1>3, VisitsInOrder
<1>6. Cardinality(visits) = n
  <2> DEFINE f == [k \in 1..n |-> Visit(t, w, c, k)]
  <2>1. \A k \in 1..n : f[k] = Visit(t, w, c, k)
    OBVIOUS
  <2>2. f \in [1..n -> visits]
    BY <1>4
  <2> HIDE DEF f, visits, n
  <2>3. \A j, k \in 1..n : f[j] = f[k] => j = k
    BY <1>5, <2>1
  <2>4. \A x \in visits : \E k \in 1..n : f[k] = x
    BY <1>4, <2>1
  <2> QED BY <1>3, <2>2, <2>3, <2>4, Numbered
<1>7. \A x, y \in visits : x = y \/ Before(x, y) \/ Before(y, x)
  <2> HIDE DEF visits
  <2> SUFFICES ASSUME NEW x \in visits, NEW y \in visits PROVE x = y \/ Before(x, y) \/ Before(y, x)
    OBVIOUS
  <2>1. PICK j \in 1..n : x = Visit(t, w, c, j)
    BY <1>4
  <2>2. PICK k \in 1..n : y = Visit(t, w, c, k)
    BY <1>4
  <2>3. j < k \/ k < j \/ j = k
    BY <1>3
  <2> QED BY <1>5, <2>1, <2>2, <2>3
<1>8. ASSUME NEW x \in visits
      PROVE  /\ Call(x).op = t[x.node].op
             /\ Len(Counts(x)) = Cardinality({y \in visits : y.node = x.node})
             /\ Counts(x)[Again(x)] = Len(Call(x).vec)
             /\ Len(Vals(x)) = Ends(Counts(x))[Len(Counts(x))]
             /\ Call(x).vec = SubSeq(Vals(x), Ends(Counts(x))[Again(x) - 1] + 1, Ends(Counts(x))[Again(x)])
  <2>1. PICK k \in 1..n : x = Visit(t, w, c, k)
    <3> HIDE DEF visits
    <3> QED BY <1>4
  <2>2. /\ Cardinality(Earlier(x)) = k - 1
        /\ Cardinality({y \in Earlier(x) : y.node = x.node}) = nth[k] - 1
        /\ Cardinality({y \in visits : y.node = x.node}) = Len(CountsOf(t[w[k]]))
        /\ x.node = w[k]
    <3>1. Place(t, Visit(t, w, c, k), k, nth[k], w[k])
      BY <1>1, <1>2, VisitsCounted
    <3> QED BY <2>1, <3>1 DEF Place
  <2>3. Counts(x) = CountsOf(t[w[k]]) /\ Vals(x) = ValuesOf(t[w[k]])
    BY <2>2 DEF CountsOf, ValuesOf
  <2>4. nth \in [1..n -> Nat \ {0}] /\ off \in [1..n -> Nat]
        /\ h[k].op = t[w[k]].op /\ CountsOf(t[w[k]])[nth[k]] = Len(h[k].vec)
        /\ off[k] + Len(h[k].vec) <= Len(ValuesOf(t[w[k]]))
        /\ \A j \in 1..Len(h[k].vec) : ValuesOf(t[w[k]])[off[k] + j] = h[k].vec[j]
    BY <1>2 DEF Carried
  <2>5. k - 1 + 1 = k /\ nth[k] - 1 + 1 = nth[k] /\ off[k] \in Nat
    BY <1>3, <2>4
  <2>6. Call(x) = h[k] /\ Again(x) = nth[k]
    BY <2>2, <2>5
  <2>7. LET C == CountsOf(t[w[k]])
        IN  /\ Ends(C)[nth[k] - 1] = off[k]
            /\ Ends(C)[nth[k]] = off[k] + Len(h[k].vec)
            /\ Ends(C)[Len(C)] = Len(ValuesOf(t[w[k]]))
    BY <1>1, <1>2, EndsOfCalls, SMTT(30)
  <2>8. h[k].vec \in Seq(Int) /\ ValuesOf(t[w[k]]) \in Seq(Int)
    <3>1. w[k] \in 1..Len(t) /\ h[k] \in Calls
      BY <1>1
    <3>2. t[w[k]] \in Nodes /\ h[k].vec \in Recorded
      BY <3>1 DEF Calls
    <3>3. <<0>> \in Seq(Int)
      OBVIOUS
    <3>4. h[k].vec \in Seq(Int)
      BY <3>2, <3>3, VectorsAssumption DEF Recorded
    <3> QED BY <3>2, <3>4, CarriedTyped
  <2>9. h[k].vec = SubSeq(ValuesOf(t[w[k]]), off[k] + 1, off[k] + Len(h[k].vec))
    BY <2>4, <2>5, <2>8, PartOf
  <2> HIDE DEF Call, Again, Counts, Vals, visits
  <2> QED BY <2>2, <2>3, <2>4, <2>6, <2>7, <2>9
<1> QED BY <1>6, <1>7, <1>8, Zenon DEF StandsFor
-----------------------------------------------------------------------------
(* The trace of a rank. *)

\* A node is as its type says.
LEMMA NodesAreNodes == ASSUME NEW node \in Nodes PROVE IsNode(node)
<1>1. /\ node.loops \in Seq(LoopItems) /\ node.count \in Parameters /\ node.values \in Parameters
      /\ node.ranks = {rank} /\ node.op \in Ops \cup {InitOp} /\ node.member \in BOOLEAN
  BY NodeTyped
<1>2. \A p \in Parameters : IsParam(p)
  <2> TAKE p \in Parameters
  <2>1. p \in Seq(Values) /\ Len(p) = 1
    BY DEF Parameters
  <2>2. p[1] \in Values
    BY <2>1
  <2> QED BY <2>1, <2>2 DEF Values, IsParam
<1>3. \A p \in Scalars : IsScalar(p)
  BY <1>2 DEF Scalars, IsScalar
<1>4. \A d \in DOMAIN node.loops : IsScalar(node.loops[d].mem) /\ IsScalar(node.loops[d].iter)
  <2> TAKE d \in DOMAIN node.loops
  <2>1. node.loops[d] \in LoopItems
    BY <1>1
  <2>2. node.loops[d].mem \in Scalars /\ node.loops[d].iter \in Scalars
    BY <2>1 DEF LoopItems
  <2> QED BY <1>3, <2>2
<1> QED BY <1>1, <1>2, <1>4 DEF IsNode

\* The trace that holds MPI_Init alone.
LEMMA FirstTrace == ASSUME Init PROVE TInv
<1> DEFINE node == Node(InitOp, <<0>>, rank)
           call == [op |-> InitOp, vec |-> <<0>>]
<1>1. node \in Nodes /\ Depth(node) = 0 /\ ~node.member
  BY NewNode DEF Recorded
<1>2. trace = <<node>> /\ history = <<call>>
  BY DEF Init
<1>3. call \in Calls
  BY DEF Calls, Recorded
<1> HIDE DEF node, call
<1>4. history \in Seq(Calls)
  BY <1>2, <1>3
<1>5. << >> \in Seq(Nodes) /\ trace = Append(<< >>, node)
  BY <1>2
<1>6. Placed(<< >>)
  BY DEF Placed, Loops, Nested
<1>7. Good(trace)
  BY <1>1, <1>5, <1>6, AppendPlaced
<1> QED BY <1>4, <1>7 DEF TInv

\* An event keeps the trace good.
LEMMA NextTrace == ASSUME TInv, [Next]_vars PROVE TInv'
<1>1. CASE Next
  <2>1. PICK op \in Ops, vec \in Vectors : AppendEvent(op, vec)
    BY <1>1 DEF Next
  <2>2. op \in Ops \cup {InitOp} /\ vec \in Recorded
    BY DEF Recorded
  <2>3. Good(trace) /\ history \in Seq(Calls)
    BY DEF TInv
  <2>4. trace' = Appended(trace, Node(op, vec, rank)) /\ history' = Append(history, [op |-> op, vec |-> vec])
    BY <2>1 DEF AppendEvent
  <2>5. Good(trace')
    BY <2>2, <2>3, <2>4, AppendedGood
  <2>6. [op |-> op, vec |-> vec] \in Calls
    BY <2>2 DEF Calls
  <2>7. history' \in Seq(Calls)
    BY <2>3, <2>4, <2>6
  <2> QED BY <2>5, <2>7 DEF TInv, Good, Placed, Loops, Nested, Body
<1>2. CASE UNCHANGED vars
  BY <1>2 DEF vars, TInv, Good, Placed, Loops, Nested, Body
<1> QED BY <1>1, <1>2

\* Through every program and all folds, the trace is a sequence of nodes with one
\* parameter value each, whose loops are well nested and mark its members.
THEOREM TraceInductive == Spec => []TInv
<1>1. Init => TInv
  BY FirstTrace
<1>2. TInv /\ [Next]_vars => TInv'
  BY NextTrace
<1> QED BY <1>1, <1>2, PTL DEF Spec

\* No fold leaves two values in a loop's length or count, nor two parameter
\* values in a parameter of the rank's own trace.
THEOREM NodesTyped == Spec => []TypeOK
<1>1. TInv => TypeOK
  <2> SUFFICES ASSUME TInv PROVE TypeOK
    OBVIOUS
  <2>1. trace \in Seq(Nodes) /\ history \in Seq(Calls)
    BY DEF TInv, Good
  <2>2. \A i \in DOMAIN trace : IsNode(trace[i])
    BY <2>1, NodesAreNodes
  <2>3. \A k \in DOMAIN history : history[k] \in Calls
    BY <2>1
  <2> QED BY <2>2, <2>3 DEF TypeOK, Calls, Recorded
<1> QED BY <1>1, TraceInductive, PTL

\* Loop bodies lie inside the trace, nested or disjoint, the loops of one leader
\* outermost first, and the members are the nodes in a body other than its leader.
THEOREM LoopsWellNested == Spec => []WellNested
<1>1. TInv => WellNested
  BY DEF TInv, Good, Placed, WellNested
<1> QED BY <1>1, TraceInductive, PTL

\* The trace is well formed, and stands for the history.
KInv == TInv /\ Kept(trace, history)

\* The inductive invariant of losslessness: appendEvent, with all its folds,
\* keeps an assignment of the recorded calls to the visits of the trace.
THEOREM CallsKept == Spec => []KInv
<1>1. Init => KInv
  <2> SUFFICES ASSUME Init PROVE KInv
    OBVIOUS
  <2>1. TInv
    BY FirstTrace
  <2> DEFINE node == Node(InitOp, <<0>>, rank)
             call == [op |-> InitOp, vec |-> <<0>>]
  <2>2. Kept(Append(<< >>, node), Append(<< >>, call))
    <3>1. Good(<< >>)
      BY DEF Good, Placed, Loops, Nested
    <3>2. << >> \in Seq(Calls)
      OBVIOUS
    <3>3. InitOp \in Ops \cup {InitOp} /\ <<0>> \in Recorded
      BY DEF Recorded
    <3> QED BY <3>1, <3>2, <3>3, NoneKept, AppendKept, Zenon
  <2>3. trace = Append(<< >>, node) /\ history = Append(<< >>, call)
    <3>1. trace = <<node>> /\ history = <<call>>
      BY DEF Init
    <3> HIDE DEF node, call
    <3> QED BY <3>1
  <2> HIDE DEF node, call
  <2> QED BY <2>1, <2>2, <2>3 DEF KInv
<1>2. KInv /\ [Next]_vars => KInv'
  <2> SUFFICES ASSUME KInv, [Next]_vars PROVE KInv'
    OBVIOUS
  <2>1. TInv'
    BY NextTrace DEF KInv
  <2>2. CASE Next
    <3>1. PICK op \in Ops, vec \in Vectors : AppendEvent(op, vec)
      BY <2>2 DEF Next
    <3>2. op \in Ops \cup {InitOp} /\ vec \in Recorded
      BY DEF Recorded
    <3>3. Good(trace) /\ history \in Seq(Calls) /\ Kept(trace, history)
      BY DEF KInv, TInv
    <3>4. trace' = Appended(trace, Node(op, vec, rank)) /\ history' = Append(history, [op |-> op, vec |-> vec])
      BY <3>1 DEF AppendEvent
    <3>5. Kept(Appended(trace, Node(op, vec, rank)), Append(history, [op |-> op, vec |-> vec]))
      BY <3>2, <3>3, AppendedKept
    <3>6. Kept(trace', history')
      BY <3>4, <3>5
    <3> QED BY <2>1, <3>6 DEF KInv, Kept, Ordered, Carried, Around, Times, Loops, LoopAt
  <2>3. CASE UNCHANGED vars
    <3>1. trace' = trace /\ history' = history
      BY <2>3 DEF vars
    <3>2. Kept(trace', history')
      BY <3>1 DEF KInv
    <3> QED BY <2>1, <3>2 DEF KInv, Kept, Ordered, Carried, Around, Times, Loops, LoopAt
  <2> QED BY <2>2, <2>3
<1> QED BY <1>1, <1>2, PTL DEF Spec

\* Folding is lossless: through every program, the visits of the folded trace are
\* the recorded calls, in their order and with their values.
THEOREM FoldingLossless == Spec => []StandsForHistory
<1>1. KInv => StandsForHistory
  <2> SUFFICES ASSUME KInv PROVE StandsForHistory
    OBVIOUS
  <2>1. trace \in Seq(Nodes) /\ history \in Seq(Calls) /\ Kept(trace, history)
    BY DEF KInv, TInv, Good
  <2> QED BY <2>1, KeptStandsFor DEF StandsForHistory
<1> QED BY <1>1, CallsKept, PTL
=============================================================================
