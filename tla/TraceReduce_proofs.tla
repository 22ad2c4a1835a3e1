-------------------------- MODULE TraceReduce_proofs --------------------------
(***************************************************************************)
(* Proofs about the reduction with its traces, for every number of ranks   *)
(* that form a tree and for every set of programs.                         *)
(*                                                                         *)
(* The traces' form is an invariant of their own, TraceInv, carried by the *)
(* protocol's (module Reduction_proofs): what a rank records holds one     *)
(* value list per parameter, and what it merges is the trace of ranks none *)
(* of which are its own already.  A longest common subsequence of two      *)
(* whole traces begins with MPI_Init's nodes and ends with MPI_Finalize's, *)
(* so the merge weaves the nodes of both into one (Weave), joining those   *)
(* of a pair and leaving none out, and every rank finds in it the nodes of *)
(* the trace it recorded (KeptInv).  Ranks of equal calls have traces that *)
(* differ in nothing but the ranks (Alike): their subsequence is the       *)
(* diagonal, and the merge is the trace itself with the ranks joined       *)
(* (SharedInv).                                                            *)
(***************************************************************************)
EXTENDS TraceReduce, TLAPS, SequenceTheorems, FiniteSetTheorems, WellFoundedInduction

R == INSTANCE Reduction_proofs

\* What traces are made of, whoever recorded them.
AllOps == {InitOp, FinalOp} \cup UNION {{p[k].op : k \in DOMAIN p} : p \in Programs}
Values == [vals : Seq(Int) \ {<<>>}, ranks : SUBSET Ranks, iters : Nat \ {0}]
Parameters == Seq(Values)
LoopItems == [mem : Parameters, iter : Parameters]
Nodes ==
  [op : AllOps, ranks : SUBSET Ranks, loops : Seq(LoopItems), member : BOOLEAN,
   count : Parameters, values : Parameters]

\* A node all of whose parameters hold one value list, of the same ranks.
One(a, A) == Len(a) = 1 /\ a[1].ranks = A
OneItem(item, A) == One(item.mem, A) /\ One(item.iter, A)
OneNode(node, A) ==
  /\ node.ranks = A /\ One(node.count, A) /\ One(node.values, A)
  /\ \A d \in DOMAIN node.loops : OneItem(node.loops[d], A)
OneTrace(t, A) == t \in Seq(Nodes) /\ t # <<>> /\ \A i \in DOMAIN t : OneNode(t[i], A)

\* u is t as far as it goes, as to the operations.
SameOps(t, u) == Len(u) <= Len(t) /\ \A i \in 1..Len(u) : u[i].op = t[i].op
-----------------------------------------------------------------------------
(* Numbers and recursion. *)

\* A set of natural numbers has a smallest element.
LEMMA Smallest ==
  ASSUME NEW S, S \subseteq Nat, S # {}
  PROVE  Min(S) \in S /\ \A j \in S : Min(S) <= j
<1>1. PICK k \in S : \A j \in S : ~(<<j, k>> \in OpToRel(<, Nat))
  BY NatLessThanWellFounded, WFMin, Zenon
<1>2. ASSUME NEW j \in S PROVE k <= j
  <2>1. k \in Nat /\ j \in Nat
    OBVIOUS
  <2>2. ASSUME j < k PROVE <<j, k>> \in OpToRel(<, Nat)
    BY <2>1, <2>2 DEF OpToRel
  <2>3. ~(j < k)
    BY <1>1, <2>2, Zenon
  <2> QED BY <2>1, <2>3
<1> QED BY <1>2 DEF Min

\* One that is bounded has a largest.
LEMMA Largest ==
  ASSUME NEW n \in Nat, NEW S, S \subseteq 0..n, S # {}
  PROVE  Max(S) \in S /\ \A j \in S : j <= Max(S)
<1> DEFINE T == {n - k : k \in S}
<1>1. T \subseteq Nat /\ T # {}
  <2>1. \A k \in S : k \in 0..n
    OBVIOUS
  <2>2. \A k \in 0..n : n - k \in Nat
    OBVIOUS
  <2> QED BY <2>1, <2>2
<1>2. Min(T) \in T /\ \A j \in T : Min(T) <= j
  <2> HIDE DEF T
  <2> QED BY <1>1, Smallest
<1>3. PICK k \in S : Min(T) = n - k
  BY <1>2
<1>4. \A j \in S : k >= j
  <2> SUFFICES ASSUME NEW j \in S PROVE k >= j
    OBVIOUS
  <2>1. n - k <= n - j
    BY <1>2, <1>3
  <2> QED BY <2>1
<1>5. \E x \in S : \A j \in S : x >= j
  BY <1>4
<1>6. Max(S) \in S /\ \A j \in S : Max(S) >= j
  BY <1>5 DEF Max
<1> QED BY <1>6

\* Induction up to a bound.
LEMMA UpTo ==
  ASSUME NEW n \in Nat, NEW P, 0 \in P, \A k \in 1..n : k - 1 \in P => k \in P
  PROVE  \A k \in 0..n : k \in P
<1> DEFINE Bad == {k \in 0..n : k \notin P}
<1>1. SUFFICES ASSUME Bad # {} PROVE FALSE
  OBVIOUS
<1>2. PICK k \in Bad : \A j \in Bad : k <= j
  <2>1. Bad \subseteq Nat
    OBVIOUS
  <2> HIDE DEF Bad
  <2> QED BY <1>1, <2>1, Smallest
<1>3. k \in 1..n /\ k \notin P
  OBVIOUS
<1>4. k - 1 \in 0..n /\ k - 1 < k
  BY <1>3
<1>5. k - 1 \notin Bad
  <2> HIDE DEF Bad
  <2> QED BY <1>2, <1>3, <1>4
<1> QED BY <1>3, <1>4, <1>5

\* A function defined by recursion on 0..n exists.
Recursive(f, n, S, base, F) == f \in [0..n -> S] /\ f[0] = base /\ \A k \in 1..n : f[k] = F[k][f[k - 1]]

LEMMA Recursion ==
  ASSUME NEW n \in Nat, NEW S, NEW base \in S, NEW F \in [1..n -> [S -> S]]
  PROVE  \E f : Recursive(f, n, S, base, F)
<1> DEFINE Is(f, m) == f \in [0..m -> S] /\ f[0] = base /\ \A k \in 1..m : f[k] = F[k][f[k - 1]]
           P == {m \in 0..n : \E f : Is(f, m)}
<1>1. 0 \in P
  <2>1. Is([k \in 0..0 |-> base], 0)
    OBVIOUS
  <2>2. 0 \in 0..n
    OBVIOUS
  <2> HIDE DEF Is
  <2> QED BY <2>1, <2>2
<1>2. ASSUME NEW m \in 1..n, m - 1 \in P PROVE m \in P
  <2>1. PICK f : Is(f, m - 1)
    BY <1>2
  <2> DEFINE g == [k \in 0..m |-> IF k = m THEN F[m][f[m - 1]] ELSE f[k]]
  <2>2. m - 1 \in 0..(m - 1) /\ f[m - 1] \in S
    BY <2>1
  <2>3. F[m][f[m - 1]] \in S
    BY <2>2
  <2>4. g \in [0..m -> S]
    BY <2>1, <2>3
  <2>5. g[0] = base
    BY <2>1
  <2>6. ASSUME NEW k \in 1..m PROVE g[k] = F[k][g[k - 1]]
    <3>1. k - 1 \in 0..m /\ k - 1 # m /\ g[k - 1] = f[k - 1]
      OBVIOUS
    <3>2. CASE k = m
      BY <3>1, <3>2
    <3>3. CASE k # m
      <4>1. k \in 1..(m - 1) /\ g[k] = f[k]
        BY <3>3
      <4>2. f[k] = F[k][f[k - 1]]
        BY <2>1, <4>1
      <4> HIDE DEF g
      <4> QED BY <3>1, <4>1, <4>2
    <3> QED BY <3>2, <3>3
  <2>7. Is(g, m)
    <3> HIDE DEF g
    <3> QED BY <2>4, <2>5, <2>6
  <2>8. m \in 0..n
    OBVIOUS
  <2> HIDE DEF Is, g
  <2> QED BY <2>7, <2>8
<1>3. n \in P
  <2>1. n \in 0..n
    OBVIOUS
  <2> HIDE DEF P
  <2> QED BY <1>1, <1>2, <2>1, UpTo
<1> QED BY <1>3 DEF Recursive
-----------------------------------------------------------------------------
(* Parameters of one rank, or of ranks with the same values. *)

\* A remainder, plus one, is an index of a sequence of that length.
LEMMA RemainderRange ==
  ASSUME NEW a \in Nat, NEW n \in Nat \ {0}
  PROVE  (a % n) + 1 \in 1..n
OBVIOUS
\* A parameter value stands for at least one value.
LEMMA ExpandTyped ==
  ASSUME NEW p \in Values
  PROVE  Expand(p) \in Seq(Int) /\ Expand(p) # <<>> /\ Len(Expand(p)) = p.iters * Len(p.vals)
<1> DEFINE n == Len(p.vals)
           m == p.iters * n
<1>1. p.vals \in Seq(Int) /\ n \in Nat \ {0} /\ p.iters \in Nat \ {0}
  BY DEF Values
<1> HIDE DEF n
<1>2. m \in Nat \ {0}
  BY <1>1
<1>3. \A i \in 1..m : p.vals[((i - 1) % n) + 1] \in Int
  <2> SUFFICES ASSUME NEW i \in 1..m PROVE p.vals[((i - 1) % n) + 1] \in Int
    OBVIOUS
  <2>1. i - 1 \in Nat
    BY <1>2
  <2>2. ((i - 1) % n) + 1 \in 1..n
    BY <1>1, <2>1, RemainderRange
  <2> QED BY <1>1, <2>2 DEF n
<1>4. Expand(p) = [i \in 1..m |-> p.vals[((i - 1) % n) + 1]]
  BY DEF Expand, n
<1>5. m = p.iters * Len(p.vals)
  BY DEF n
<1> HIDE DEF m
<1>6. Expand(p) \in Seq(Int) /\ Len(Expand(p)) = m
  BY <1>2, <1>3, <1>4
<1>7. Expand(p) # <<>>
  BY <1>2, <1>6
<1> QED BY <1>5, <1>6, <1>7

\* A sequence has a period, a divisor of its length.
LEMMA PeriodTyped ==
  ASSUME NEW s \in Seq(Int), s # <<>>
  PROVE  /\ Period(s) \in 1..Len(s)
         /\ Len(s) % Period(s) = 0
         /\ \A i \in 1..Len(s) : s[i] = s[((i - 1) % Period(s)) + 1]
<1> DEFINE Repeats(len) == /\ Len(s) % len = 0
                           /\ \A i \in 1..Len(s) : s[i] = s[((i - 1) % len) + 1]
           n == Len(s)
           S == {len \in 1..(n \div 2) : Repeats(len)} \cup {n}
<1>1. n \in Nat \ {0} /\ n \div 2 \in 0..n
  OBVIOUS
<1>2. S \subseteq Nat /\ S # {} /\ S \subseteq 1..n
  <2> HIDE DEF Repeats, n
  <2> QED BY <1>1
<1>3. Min(S) \in S
  <2> HIDE DEF S
  <2> QED BY <1>2, Smallest
<1>4. Repeats(n)
  <2>1. n % n = 0
    BY <1>1
  <2>2. ASSUME NEW i \in 1..n PROVE ((i - 1) % n) + 1 = i
    BY <1>1
  <2> QED BY <2>1, <2>2
<1>5. Repeats(Min(S))
  <2> HIDE DEF Repeats, n
  <2> QED BY <1>3, <1>4
<1>6. Period(s) = Min(S)
  BY DEF Period
<1> HIDE DEF S
<1> QED BY <1>2, <1>3, <1>5, <1>6

\* Merging in time what a rank saw.
LEMMA ThenTyped ==
  ASSUME NEW p \in Values, NEW q \in Values
  PROVE  Then(p, q) \in Values /\ Then(p, q).ranks = p.ranks
<1>1. CASE p.vals = q.vals
  <2>1. p.iters + q.iters \in Nat \ {0}
    BY DEF Values
  <2>2. Then(p, q) = [vals |-> p.vals, ranks |-> p.ranks, iters |-> p.iters + q.iters]
    BY <1>1 DEF Then, Values
  <2> QED BY <2>1, <2>2 DEF Values
<1>2. CASE p.vals # q.vals
  <2> DEFINE s == Expand(p) \o Expand(q)
             len == Period(s)
  <2>1. s \in Seq(Int) /\ s # <<>>
    <3>1. Expand(p) \in Seq(Int) /\ Expand(p) # <<>> /\ Expand(q) \in Seq(Int)
      BY ExpandTyped
    <3> HIDE DEF s
    <3>2. s = Expand(p) \o Expand(q)
      BY DEF s
    <3> QED BY <3>1, <3>2
  <2>2. Then(p, q) = [vals |-> SubSeq(s, 1, len), ranks |-> p.ranks, iters |-> Len(s) \div len]
    BY <1>2 DEF Then, Compressed
  <2> HIDE DEF s
  <2>3. len \in 1..Len(s)
    BY <2>1, PeriodTyped
  <2> HIDE DEF len
  <2>4. Len(s) \in Nat /\ Len(s) \div len \in Nat \ {0}
    BY <2>1, <2>3
  <2>5. SubSeq(s, 1, len) \in Seq(Int) /\ Len(SubSeq(s, 1, len)) = len
    BY <2>1, <2>3, <2>4
  <2>6. SubSeq(s, 1, len) # <<>>
    BY <2>3, <2>5
  <2>7. p.ranks \in SUBSET Ranks
    BY DEF Values
  <2> QED BY <1>2, <2>2, <2>4, <2>5, <2>6, <2>7 DEF Values
<1> QED BY <1>1, <1>2
\* What a value is made of.
LEMMA ValueTyped ==
  ASSUME NEW p \in Values
  PROVE  /\ p.vals \in Seq(Int) /\ p.vals # <<>> /\ p.ranks \subseteq Ranks /\ p.iters \in Nat \ {0}
         /\ p = [vals |-> p.vals, ranks |-> p.ranks, iters |-> p.iters]
BY DEF Values

\* Two nodes of the same ranks: their parameters are merged in time.
LEMMA MergeOne ==
  ASSUME NEW A, NEW a \in Parameters, NEW b \in Parameters, One(a, A), One(b, A)
  PROVE  /\ MergeParam(a, b) = <<Then(a[1], b[1])>>
         /\ MergeParam(a, b) \in Parameters /\ One(MergeParam(a, b), A)
<1>1. Len(a) = 1 /\ Len(b) = 1 /\ a[1] \in Values /\ b[1] \in Values /\ a[1].ranks = A /\ b[1].ranks = A
  BY DEF One, Parameters
<1>2. MergeParam(a, b) = <<Then(a[1], b[1])>>
  BY <1>1 DEF MergeParam
<1>3. Then(a[1], b[1]) \in Values /\ Then(a[1], b[1]).ranks = A
  BY <1>1, ThenTyped
<1> QED BY <1>2, <1>3 DEF One, Parameters

\* The value of one event, or of one loop.
LEMMA SingleOne ==
  ASSUME NEW A \in SUBSET Ranks, NEW v \in Seq(Int), v # <<>>
  PROVE  Single(v, A) \in Parameters /\ One(Single(v, A), A)
<1> DEFINE p == [vals |-> v, ranks |-> A, iters |-> 1]
<1>1. p \in Values /\ p.ranks = A
  BY DEF Values
<1>2. Single(v, A) = <<p>>
  BY DEF Single
<1> HIDE DEF p
<1> QED BY <1>1, <1>2 DEF One, Parameters

\* One more iteration.
LEMMA IncrementOne ==
  ASSUME NEW A, NEW a \in Parameters, One(a, A)
  PROVE  Increment(a) \in Parameters /\ One(Increment(a), A)
<1>1. a \in Seq(Values) /\ Len(a) = 1 /\ a[1] \in Values /\ a[1].ranks = A
  <2>1. a \in Seq(Values)
    BY DEF Parameters
  <2>2. Len(a) = 1 /\ a[1].ranks = A
    BY DEF One
  <2> QED BY <2>1, <2>2
<1>2. a[1].vals \in Seq(Int) /\ a[1].vals # <<>> /\ Len(a[1].vals) \in Nat \ {0}
  <2>1. a[1].vals \in Seq(Int) /\ a[1].vals # <<>>
    BY <1>1, ValueTyped
  <2> QED BY <2>1, EmptySeq
<1> DEFINE x == [a[1].vals EXCEPT ![1] = @ + 1]
           v == [a[1] EXCEPT !.vals = x]
<1>3. x \in Seq(Int) /\ x # <<>>
  <2> DEFINE w == a[1].vals
  <2>1. w \in Seq(Int) /\ 1 \in 1..Len(w) /\ w[1] + 1 \in Int
    BY <1>2
  <2> HIDE DEF w
  <2>2. [w EXCEPT ![1] = w[1] + 1] \in Seq(Int) /\ Len([w EXCEPT ![1] = w[1] + 1]) = Len(w)
    BY <2>1, ExceptSeq
  <2>3. [w EXCEPT ![1] = w[1] + 1] # <<>>
    BY <2>1, <2>2
  <2> QED BY <2>2, <2>3 DEF w
<1>4. Increment(a) = [a EXCEPT ![1] = v]
  BY <1>1 DEF Increment
<1> HIDE DEF x
<1>5. v \in Values /\ v.ranks = A
  <2>1. v = [vals |-> x, ranks |-> a[1].ranks, iters |-> a[1].iters]
    BY <1>1, ValueTyped
  <2> QED BY <1>1, <1>3, <2>1, ValueTyped DEF Values
<1> HIDE DEF v
<1> QED BY <1>1, <1>4, <1>5 DEF One, Parameters
-----------------------------------------------------------------------------
(* Loops and nodes of one rank. *)

\* What a node is made of.
LEMMA NodeTyped ==
  ASSUME NEW node \in Nodes
  PROVE  /\ node.op \in AllOps /\ node.ranks \subseteq Ranks /\ node.loops \in Seq(LoopItems) /\ node.member \in BOOLEAN
         /\ node.count \in Parameters /\ node.values \in Parameters
         /\ node = [op |-> node.op, ranks |-> node.ranks, loops |-> node.loops, member |-> node.member,
                    count |-> node.count, values |-> node.values]
         /\ Depth(node) = Len(node.loops) /\ Depth(node) \in Nat /\ DOMAIN node.loops = 1..Depth(node)
         /\ \A d \in DOMAIN node.loops : node.loops[d].mem \in Parameters /\ node.loops[d].iter \in Parameters
<1>1. node.loops \in Seq(LoopItems)
  BY DEF Nodes
<1>2. \A d \in DOMAIN node.loops : node.loops[d] \in LoopItems
  BY <1>1
<1>3. \A d \in DOMAIN node.loops : node.loops[d].mem \in Parameters /\ node.loops[d].iter \in Parameters
  BY <1>2 DEF LoopItems
<1> QED BY <1>1, <1>3 DEF Nodes, Depth

\* Loops of one rank.
OneLoops(loops, A) == loops \in Seq(LoopItems) /\ \A d \in DOMAIN loops : OneItem(loops[d], A)

\* Loops merged into the innermost ones of others.
LEMMA MergeLoopsOne ==
  ASSUME NEW A, NEW loops, NEW other, OneLoops(loops, A), OneLoops(other, A), Len(other) <= Len(loops)
  PROVE  OneLoops(MergeLoops(loops, other), A) /\ Len(MergeLoops(loops, other)) = Len(loops)
<1> DEFINE m == Len(loops)
           n == Len(other)
           G(i) == IF i <= m - n THEN loops[i]
                   ELSE [mem  |-> MergeParam(loops[i].mem, other[i - (m - n)].mem),
                         iter |-> MergeParam(loops[i].iter, other[i - (m - n)].iter)]
<1>1. m \in Nat /\ n \in Nat /\ n <= m /\ DOMAIN loops = 1..m /\ DOMAIN other = 1..n
  BY DEF OneLoops
<1>2. MergeLoops(loops, other) = [i \in 1..m |-> G(i)]
  BY <1>1 DEF MergeLoops
<1>3. ASSUME NEW i \in 1..m PROVE G(i) \in LoopItems /\ OneItem(G(i), A)
  <2>1. loops[i] \in LoopItems /\ OneItem(loops[i], A)
    BY <1>1 DEF OneLoops
  <2>2. CASE i <= m - n
    BY <2>1, <2>2
  <2>3. CASE ~(i <= m - n)
    <3> DEFINE k == i - (m - n)
    <3>1. k \in 1..n
      BY <1>1, <2>3
    <3> HIDE DEF k, m, n
    <3>2. other[k] \in LoopItems /\ OneItem(other[k], A)
      BY <1>1, <3>1 DEF OneLoops
    <3>3. G(i) = [mem |-> MergeParam(loops[i].mem, other[k].mem), iter |-> MergeParam(loops[i].iter, other[k].iter)]
      BY <2>3 DEF k
    <3> HIDE DEF G
    <3>4. loops[i].mem \in Parameters /\ loops[i].iter \in Parameters /\ other[k].mem \in Parameters /\ other[k].iter \in Parameters
      BY <2>1, <3>2 DEF LoopItems
    <3>5. /\ MergeParam(loops[i].mem, other[k].mem) \in Parameters
          /\ One(MergeParam(loops[i].mem, other[k].mem), A)
      BY <2>1, <3>2, <3>4, MergeOne DEF OneItem
    <3>6. /\ MergeParam(loops[i].iter, other[k].iter) \in Parameters
          /\ One(MergeParam(loops[i].iter, other[k].iter), A)
      BY <2>1, <3>2, <3>4, MergeOne DEF OneItem
    <3> QED BY <3>3, <3>5, <3>6 DEF LoopItems, OneItem
  <2> QED BY <2>2, <2>3
<1> HIDE DEF G, m
<1>4. MergeLoops(loops, other) \in Seq(LoopItems) /\ Len(MergeLoops(loops, other)) = m
  BY <1>1, <1>2, <1>3
<1>5. \A d \in 1..m : MergeLoops(loops, other)[d] = G(d)
  BY <1>2
<1>6. DOMAIN MergeLoops(loops, other) = 1..m
  BY <1>2
<1> QED BY <1>3, <1>4, <1>5, <1>6 DEF m, OneLoops

\* Two nodes merged in time.
LEMMA MergeNodeOne ==
  ASSUME NEW A, NEW x \in Nodes, NEW y \in Nodes, OneNode(x, A), OneNode(y, A), Depth(y) <= Depth(x)
  PROVE  MergeNode(x, y) \in Nodes /\ OneNode(MergeNode(x, y), A) /\ MergeNode(x, y).op = x.op
<1> DEFINE l == MergeLoops(x.loops, y.loops)
           c == MergeParam(x.count, y.count)
           v == MergeParam(x.values, y.values)
           new == MergeNode(x, y)
<1>1. OneLoops(l, A)
  <2>1. OneLoops(x.loops, A) /\ OneLoops(y.loops, A) /\ Len(y.loops) <= Len(x.loops)
    BY NodeTyped DEF OneNode, OneLoops
  <2> QED BY <2>1, MergeLoopsOne
<1>2. c \in Parameters /\ One(c, A) /\ v \in Parameters /\ One(v, A)
  BY NodeTyped, MergeOne DEF OneNode
<1>3. new = [x EXCEPT !.count = c, !.values = v, !.loops = l]
  BY NodeTyped DEF MergeNode
<1> HIDE DEF l, c, v, new
<1>4. new = [op |-> x.op, ranks |-> x.ranks, loops |-> l, member |-> x.member, count |-> c, values |-> v]
  BY <1>3 DEF Nodes
<1>5. new \in Nodes
  BY <1>1, <1>2, <1>4, NodeTyped DEF Nodes, OneLoops
<1>6. new.ranks = A /\ new.count = c /\ new.values = v /\ new.loops = l /\ new.op = x.op
  BY <1>4 DEF OneNode
<1> QED BY <1>1, <1>2, <1>5, <1>6 DEF OneNode, OneLoops, new

\* The loops of the head of a body.
LEMMA HeadLoopsOne ==
  ASSUME NEW A \in SUBSET Ranks, NEW x \in Nodes, NEW y \in Nodes, OneNode(x, A), OneNode(y, A), NEW length \in Int,
         Depth(x) = Depth(y) \/ Depth(x) = Depth(y) + 1
  PROVE  OneLoops(HeadLoops(x, y, length), A)
<1> DEFINE l == MergeLoops(x.loops, y.loops)
           new == HeadLoops(x, y, length)
<1>1. OneLoops(x.loops, A) /\ OneLoops(y.loops, A) /\ Len(x.loops) = Depth(x) /\ Len(y.loops) = Depth(y) /\ Depth(y) \in Nat
  BY NodeTyped DEF OneNode, OneLoops
<1>2. OneLoops(l, A) /\ Len(l) = Depth(x)
  BY <1>1, MergeLoopsOne
<1>3. CASE Depth(x) = Depth(y)
  <2> DEFINE item == [mem |-> Single(<<length>>, A), iter |-> Single(<<2>>, A)]
  <2>1. new = <<item>> \o l
    BY <1>3 DEF HeadLoops, InsertLoop, OneNode
  <2>2. item \in LoopItems /\ OneItem(item, A)
    <3>1. <<length>> \in Seq(Int) /\ <<length>> # <<>> /\ <<2>> \in Seq(Int) /\ <<2>> # <<>>
      OBVIOUS
    <3>2. Single(<<length>>, A) \in Parameters /\ One(Single(<<length>>, A), A)
      BY <3>1, SingleOne
    <3>3. Single(<<2>>, A) \in Parameters /\ One(Single(<<2>>, A), A)
      BY <3>1, SingleOne
    <3> QED BY <3>2, <3>3 DEF LoopItems, OneItem
  <2> HIDE DEF item, l
  <2>3. <<item>> \in Seq(LoopItems) /\ Len(<<item>>) = 1 /\ l \in Seq(LoopItems)
    BY <1>2, <2>2 DEF OneLoops
  <2>4. <<item>> \o l \in Seq(LoopItems)
    BY <2>3, ConcatProperties
  <2>5. ASSUME NEW d \in 1..Len(<<item>> \o l) PROVE OneItem((<<item>> \o l)[d], A)
    <3>1. (<<item>> \o l)[d] = item \/ \E e \in 1..Len(l) : (<<item>> \o l)[d] = l[e]
      BY <2>3
    <3>2. \A e \in 1..Len(l) : OneItem(l[e], A)
      BY <1>2, <2>3 DEF OneLoops
    <3> QED BY <2>2, <3>1, <3>2
  <2>6. DOMAIN (<<item>> \o l) = 1..Len(<<item>> \o l)
    BY <2>4
  <2> QED BY <2>1, <2>4, <2>5, <2>6 DEF OneLoops
<1>4. CASE Depth(x) = Depth(y) + 1
  <2>1. new = [l EXCEPT ![1].iter = Increment(@)]
    <3>1. Depth(x) # Depth(y) /\ Depth(x) - Depth(y) = 1
      BY <1>1, <1>4
    <3> QED BY <3>1 DEF HeadLoops
  <2>2. 1 \in DOMAIN l /\ l \in Seq(LoopItems) /\ 1 \in 1..Len(l) /\ l[1] \in LoopItems /\ OneItem(l[1], A)
    <3>1. l \in Seq(LoopItems) /\ Len(l) \in Nat /\ Len(l) >= 1
      BY <1>1, <1>2, <1>4 DEF OneLoops
    <3>2. 1 \in DOMAIN l /\ 1 \in 1..Len(l)
      BY <3>1
    <3> QED BY <1>2, <3>1, <3>2 DEF OneLoops
  <2> DEFINE item == [l[1] EXCEPT !.iter = Increment(@)]
  <2>3. new = [l EXCEPT ![1] = item]
    BY <2>1, <2>2
  <2>4. item \in LoopItems /\ OneItem(item, A)
    <3>1. l[1].mem \in Parameters /\ l[1].iter \in Parameters /\ One(l[1].mem, A) /\ One(l[1].iter, A)
      BY <2>2 DEF LoopItems, OneItem
    <3>2. Increment(l[1].iter) \in Parameters /\ One(Increment(l[1].iter), A)
      BY <3>1, IncrementOne
    <3>3. item = [mem |-> l[1].mem, iter |-> Increment(l[1].iter)]
      BY <2>2 DEF LoopItems
    <3> QED BY <3>1, <3>2, <3>3 DEF LoopItems, OneItem
  <2> HIDE DEF item, l
  <2>5. /\ new \in Seq(LoopItems) /\ Len(new) = Len(l)
        /\ \A d \in 1..Len(l) : new[d] = IF d = 1 THEN item ELSE l[d]
    BY <2>2, <2>3, <2>4, ExceptSeq
  <2>6. DOMAIN new = DOMAIN l /\ DOMAIN l = 1..Len(l)
    BY <2>2, <2>5
  <2> HIDE DEF new
  <2>7. \A d \in DOMAIN l : OneItem(l[d], A)
    BY <1>2 DEF OneLoops
  <2>8. \A d \in DOMAIN new : OneItem(new[d], A)
    BY <2>4, <2>5, <2>6, <2>7
  <2> QED BY <2>5, <2>8 DEF OneLoops, new
<1> QED BY <1>3, <1>4
-----------------------------------------------------------------------------
(* Folds of the trace of one rank. *)

\* The trace u after a fold at head, node by node: the nodes before first stay,
\* those from first on are merged with those from head on, which they match.
ByNode(t, head, u) ==
  LET length == Len(t) - head + 1
      first == head - length
  IN  /\ length \in Nat \ {0} /\ first \in 1..(head - 1) /\ first + length = head /\ Len(t) = head + length - 1
      /\ ~t[head].member /\ ~t[first].member
      /\ u = [i \in 1..(head - 1) |-> u[i]]
      /\ \A i \in 1..(first - 1) : u[i] = t[i]
      /\ u[first] = [MergeNode(t[first], t[head]) EXCEPT !.loops = HeadLoops(t[first], t[head], length)]
      /\ \A i \in (first + 1)..(head - 1) :
           u[i] = [MergeNode(t[i], t[i + length]) EXCEPT !.member = TRUE]
      /\ \A i \in first..(head - 1) : t[i].op = t[i + length].op /\ i \in 1..Len(t) /\ i + length \in head..Len(t)
      /\ LoopMatch(t[first], t[head], Depth(t[head]), length)
      /\ \A i \in (first + 1)..(head - 1) : LoopMatch(t[i], t[i + length], Depth(t[i]), length)

\* Fold leaves such a trace.
LEMMA FoldByNode ==
  ASSUME NEW t \in Seq(Nodes), NEW head \in 2..Len(t), Foldable(t, head)
  PROVE  ByNode(t, head, Fold(t, head))
<1> DEFINE length == Len(t) - head + 1
           first == head - length
           n == Len(t)
           u == Fold(t, head)
           Merged(i) == MergeNode(t[i], t[i + length])
           G(i) == CASE i < first -> t[i]
                     [] i = first -> [Merged(i) EXCEPT !.loops = HeadLoops(t[i], t[i + length], length)]
                     [] i > first -> [Merged(i) EXCEPT !.member = TRUE]
<1>1. n \in Nat /\ head \in Nat /\ length \in Nat /\ length >= 1 /\ first \in Int /\ head <= n
      /\ first + length = head /\ n = head + length - 1
  OBVIOUS
<1>2. first >= 1 /\ first < head /\ ~t[head].member /\ ~t[first].member
  <2>1. first >= 1 /\ ~t[head].member /\ ~t[first].member
    BY DEF Foldable, Candidate
  <2> HIDE DEF length
  <2> QED BY <1>1, <2>1
<1>3. MatchLoop(t, length)
  BY DEF Foldable
<1>4. u = [i \in 1..(head - 1) |-> G(i)]
  BY DEF Fold
<1> HIDE DEF u, n, length, first
<1>5. \A i \in first..(head - 1) :
        LET j == i + length
        IN  /\ j \in (n - length + 1)..n /\ j - length = i /\ i \in 1..n /\ j \in head..n
            /\ j = n - length + 1 <=> i = first
  BY <1>1, <1>2
<1>6. ASSUME NEW i \in first..(head - 1)
      PROVE  LET j == i + length
             IN  t[i].op = t[j].op /\ LoopMatch(t[i], t[j], IF i = first THEN Depth(t[j]) ELSE Depth(t[i]), length)
  <2> DEFINE j == i + length
  <2>1. j \in (n - length + 1)..n /\ j - length = i /\ (j = n - length + 1 <=> i = first)
    BY <1>5
  <2> HIDE DEF j
  <2>2. /\ t[j - length].op = t[j].op
        /\ LoopMatch(t[j - length], t[j], IF j = n - length + 1 THEN Depth(t[j]) ELSE Depth(t[j - length]), length)
    BY <1>3, <2>1 DEF MatchLoop, n
  <2>3. t[i].op = t[j].op /\ LoopMatch(t[i], t[j], IF i = first THEN Depth(t[j]) ELSE Depth(t[i]), length)
    BY <2>1, <2>2
  <2> QED BY <2>3 DEF j
<1>7. LoopMatch(t[first], t[head], Depth(t[head]), length)
  <2>1. first \in first..(head - 1)
    BY <1>1, <1>2
  <2> QED BY <1>1, <1>6, <2>1
<1>8. ASSUME NEW i \in (first + 1)..(head - 1) PROVE LoopMatch(t[i], t[i + length], Depth(t[i]), length)
  <2>1. i \in first..(head - 1) /\ i # first
    BY <1>1, <1>2
  <2> QED BY <1>6, <2>1
<1>9. \A i \in 1..(head - 1) : u[i] = G(i)
  BY <1>4
<1>10. \A i \in 1..(first - 1) : u[i] = t[i]
  <2> TAKE i \in 1..(first - 1)
  <2>1. i < first /\ i # first /\ ~(i > first) /\ i \in 1..(head - 1)
    BY <1>1, <1>2
  <2>2. G(i) = t[i]
    BY <2>1
  <2> HIDE DEF G
  <2> QED BY <1>9, <2>1, <2>2
<1>11. u[first] = [MergeNode(t[first], t[head]) EXCEPT !.loops = HeadLoops(t[first], t[head], length)]
  <2>1. ~(first < first) /\ ~(first > first) /\ first \in 1..(head - 1)
    BY <1>1, <1>2
  <2>2. G(first) = [Merged(first) EXCEPT !.loops = HeadLoops(t[first], t[first + length], length)]
    BY <2>1
  <2> HIDE DEF G
  <2>3. u[first] = G(first)
    BY <1>9, <2>1
  <2> QED BY <1>1, <2>2, <2>3
<1>12. \A i \in (first + 1)..(head - 1) : u[i] = [MergeNode(t[i], t[i + length]) EXCEPT !.member = TRUE]
  <2> TAKE i \in (first + 1)..(head - 1)
  <2>1. i > first /\ i # first /\ ~(i < first) /\ i \in 1..(head - 1)
    BY <1>1, <1>2
  <2>2. G(i) = [MergeNode(t[i], t[i + length]) EXCEPT !.member = TRUE]
    BY <2>1
  <2> HIDE DEF G
  <2> QED BY <1>9, <2>1, <2>2
<1> HIDE DEF G
<1>13. u = [i \in 1..(head - 1) |-> u[i]]
  BY <1>4
<1>14. first \in 1..(head - 1) /\ length \in Nat \ {0}
  BY <1>1, <1>2
<1>15. Len(t) = head + length - 1
  BY <1>1 DEF n
<1>16. \A i \in first..(head - 1) : t[i].op = t[i + length].op /\ i \in 1..Len(t) /\ i + length \in head..Len(t)
  BY <1>5, <1>6 DEF n
<1>17. first + length = head
  BY <1>1
<1> QED BY <1>2, <1>7, <1>8, <1>10, <1>11, <1>12, <1>13, <1>14, <1>15, <1>16, <1>17 DEF ByNode, u, length, first

\* Nodes that are folded have as many loops, or the first has one more.
LEMMA LoopMatchDepths ==
  ASSUME NEW x \in Nodes, NEW y \in Nodes, NEW depth, NEW length, LoopMatch(x, y, depth, length)
  PROVE  Depth(y) <= Depth(x) /\ (Depth(x) = Depth(y) \/ Depth(x) = Depth(y) + 1)
<1>1. Depth(x) \in Nat /\ Depth(y) \in Nat
  BY NodeTyped
<1>2. Depth(x) - Depth(y) \in {0, 1}
  BY DEF LoopMatch
<1> QED BY <1>1, <1>2

\* A fold leaves a trace of the rank, with the first of its operations.
LEMMA FoldOne ==
  ASSUME NEW A \in SUBSET Ranks, NEW t, OneTrace(t, A), NEW head \in 2..Len(t), Foldable(t, head)
  PROVE  OneTrace(Fold(t, head), A) /\ SameOps(t, Fold(t, head))
<1> DEFINE length == Len(t) - head + 1
           first == head - length
           u == Fold(t, head)
<1>1. t \in Seq(Nodes) /\ Len(t) \in Nat /\ DOMAIN t = 1..Len(t) /\ \A i \in 1..Len(t) : t[i] \in Nodes /\ OneNode(t[i], A)
  BY DEF OneTrace
<1>2. ByNode(t, head, u)
  BY <1>1, FoldByNode
<1> HIDE DEF u
<1>3. /\ length \in Nat \ {0} /\ first \in 1..(head - 1) /\ first + length = head /\ Len(t) = head + length - 1
      /\ u = [i \in 1..(head - 1) |-> u[i]]
      /\ \A i \in 1..(first - 1) : u[i] = t[i]
      /\ u[first] = [MergeNode(t[first], t[head]) EXCEPT !.loops = HeadLoops(t[first], t[head], length)]
      /\ \A i \in (first + 1)..(head - 1) :
           u[i] = [MergeNode(t[i], t[i + length]) EXCEPT !.member = TRUE]
      /\ LoopMatch(t[first], t[head], Depth(t[head]), length)
      /\ \A i \in (first + 1)..(head - 1) : LoopMatch(t[i], t[i + length], Depth(t[i]), length)
  BY <1>2 DEF ByNode
<1>0. head \in 2..Len(t) /\ Len(t) \in Nat /\ length \in Nat \ {0} /\ first \in 1..(head - 1) /\ first + length = head
      /\ Len(t) = head + length - 1
  BY <1>1, <1>3
<1> HIDE DEF length, first
<1>4. ASSUME NEW i \in 1..(first - 1) PROVE u[i] \in Nodes /\ OneNode(u[i], A) /\ u[i].op = t[i].op
  <2>1. i \in 1..Len(t)
    BY <1>0
  <2>2. u[i] = t[i]
    BY <1>3
  <2> QED BY <1>1, <2>1, <2>2
<1>5. u[first] \in Nodes /\ OneNode(u[first], A) /\ u[first].op = t[first].op
  <2> DEFINE x == t[first]
             y == t[head]
             l == HeadLoops(x, y, length)
             m == MergeNode(x, y)
  <2>1. x \in Nodes /\ y \in Nodes /\ OneNode(x, A) /\ OneNode(y, A)
    <3>1. first \in 1..Len(t) /\ head \in 1..Len(t)
      BY <1>1, <1>3
    <3> QED BY <1>1, <3>1
  <2>2. Depth(y) <= Depth(x) /\ (Depth(x) = Depth(y) \/ Depth(x) = Depth(y) + 1)
    BY <1>3, <2>1, LoopMatchDepths
  <2>3. u[first] = [m EXCEPT !.loops = l]
    BY <1>3
  <2> HIDE DEF x, y
  <2>4. m \in Nodes /\ OneNode(m, A) /\ m.op = x.op
    BY <2>1, <2>2, MergeNodeOne
  <2>5. l \in Seq(LoopItems) /\ \A d \in DOMAIN l : OneItem(l[d], A)
    <3>1. OneLoops(l, A)
      BY <1>3, <2>1, <2>2, HeadLoopsOne
    <3> QED BY <3>1 DEF OneLoops
  <2> HIDE DEF m, l
  <2>6. u[first] = [op |-> m.op, ranks |-> m.ranks, loops |-> l, member |-> m.member, count |-> m.count, values |-> m.values]
    BY <2>3, <2>4 DEF Nodes
  <2>7. u[first] \in Nodes
    BY <2>4, <2>5, <2>6, NodeTyped DEF Nodes
  <2>8. OneNode(u[first], A)
    BY <2>4, <2>5, <2>6 DEF OneNode
  <2> QED BY <2>4, <2>6, <2>7, <2>8 DEF x
<1>6. ASSUME NEW i \in (first + 1)..(head - 1) PROVE u[i] \in Nodes /\ OneNode(u[i], A) /\ u[i].op = t[i].op
  <2> DEFINE x == t[i]
             y == t[i + length]
             m == MergeNode(x, y)
  <2>1. x \in Nodes /\ y \in Nodes /\ OneNode(x, A) /\ OneNode(y, A)
    <3>1. i \in 1..Len(t) /\ i + length \in 1..Len(t)
      BY <1>0
    <3> QED BY <1>1, <3>1
  <2>2. Depth(y) <= Depth(x)
    BY <1>3, <2>1, LoopMatchDepths
  <2>3. u[i] = [m EXCEPT !.member = TRUE]
    BY <1>3
  <2> HIDE DEF x, y
  <2>4. m \in Nodes /\ OneNode(m, A) /\ m.op = x.op
    BY <2>1, <2>2, MergeNodeOne
  <2> HIDE DEF m
  <2>5. u[i] = [op |-> m.op, ranks |-> m.ranks, loops |-> m.loops, member |-> TRUE, count |-> m.count, values |-> m.values]
    BY <2>3, <2>4 DEF Nodes
  <2>6. u[i] \in Nodes
    BY <2>4, <2>5, NodeTyped DEF Nodes
  <2>7. OneNode(u[i], A)
    BY <2>4, <2>5 DEF OneNode
  <2> QED BY <2>4, <2>5, <2>6, <2>7 DEF x
<1>7. \A i \in 1..(head - 1) : u[i] \in Nodes /\ OneNode(u[i], A) /\ u[i].op = t[i].op
  <2> TAKE i \in 1..(head - 1)
  <2>1. i \in 1..(first - 1) \/ i = first \/ i \in (first + 1)..(head - 1)
    BY <1>3
  <2> QED BY <1>4, <1>5, <1>6, <2>1
<1>8. u \in Seq(Nodes) /\ Len(u) = head - 1 /\ DOMAIN u = 1..(head - 1) /\ u # <<>> /\ head - 1 <= Len(t)
  <2>1. head - 1 \in Nat /\ head - 1 # 0 /\ head - 1 <= Len(t)
    BY <1>1, <1>3
  <2>2. u \in [1..(head - 1) -> Nodes]
    BY <1>3, <1>7
  <2>3. u \in Seq(Nodes) /\ Len(u) = head - 1 /\ DOMAIN u = 1..(head - 1)
    BY <2>1, <2>2
  <2>4. u # <<>>
    BY <2>1, <2>3
  <2> QED BY <2>1, <2>3, <2>4
<1> QED BY <1>7, <1>8 DEF OneTrace, SameOps, u

\* So does the first fold that is found, if any.
LEMMA FoldOnceOne ==
  ASSUME NEW A \in SUBSET Ranks, NEW t, OneTrace(t, A)
  PROVE  OneTrace(FoldOnce(t), A) /\ SameOps(t, FoldOnce(t))
<1> DEFINE heads == {h \in 2..Len(t) : Foldable(t, h)}
<1>1. t \in Seq(Nodes) /\ Len(t) \in Nat
  BY DEF OneTrace
<1>2. FoldOnce(t) = IF heads = {} THEN t ELSE Fold(t, Max(heads))
  BY DEF FoldOnce
<1>3. CASE heads = {}
  BY <1>1, <1>2, <1>3 DEF SameOps
<1>4. CASE heads # {}
  <2>1. heads \subseteq 0..Len(t)
    BY <1>1
  <2>2. Max(heads) \in heads
    <3> HIDE DEF heads
    <3> QED BY <1>1, <1>4, <2>1, Largest
  <2>3. Max(heads) \in 2..Len(t) /\ Foldable(t, Max(heads))
    BY <2>2
  <2> HIDE DEF heads
  <2> QED BY <1>2, <1>4, <2>3, FoldOne
<1> QED BY <1>3, <1>4

\* The folds that fastCompressLoop makes, one after another.
FoldsOf(t, f) == f \in [0..Len(t) -> Seq(Nodes)] /\ f[0] = t /\ \A k \in 1..Len(t) : f[k] = FoldOnce(f[k - 1])

LEMMA FastCompressFolds ==
  ASSUME NEW A \in SUBSET Ranks, NEW t, OneTrace(t, A)
  PROVE  \E f : FoldsOf(t, f) /\ FastCompressLoop(t) = f[Len(t)]
<1> DEFINE S == {x \in Seq(Nodes) : OneTrace(x, A)}
           n == Len(t)
           F == [k \in 1..n |-> [x \in S |-> FoldOnce(x)]]
           G(k, f) == IF k = 0 THEN t ELSE FoldOnce(f[k - 1])
           g == CHOOSE f : f = [k \in 0..n |-> G(k, f)]
<1>1. n \in Nat /\ t \in S
  BY DEF OneTrace
<1>2. F \in [1..n -> [S -> S]]
  <2>1. \A x \in S : FoldOnce(x) \in S
    BY FoldOnceOne DEF OneTrace
  <2> HIDE DEF S
  <2> QED BY <2>1
<1>3. \A k \in 1..n : \A x \in S : F[k][x] = FoldOnce(x)
  <2> HIDE DEF S
  <2> QED OBVIOUS
<1> HIDE DEF F
<1>4. PICK f : f \in [0..n -> S] /\ f[0] = t /\ \A k \in 1..n : f[k] = F[k][f[k - 1]]
  <2> HIDE DEF S, n
  <2>1. \E f : Recursive(f, n, S, t, F)
    BY <1>1, <1>2, Recursion
  <2> QED BY <2>1 DEF Recursive
<1>5. \A k \in 1..n : f[k] = FoldOnce(f[k - 1])
  <2> TAKE k \in 1..n
  <2>1. k - 1 \in 0..n
    BY <1>1
  <2> HIDE DEF S
  <2>2. f[k - 1] \in S
    BY <1>4, <2>1
  <2> QED BY <1>3, <1>4, <2>2
<1>6. f = [k \in 0..n |-> G(k, f)]
  <2>1. \A k \in 0..n : f[k] = G(k, f)
    BY <1>1, <1>4, <1>5
  <2> HIDE DEF G, S
  <2> QED BY <1>4, <2>1
<1>7. g = [k \in 0..n |-> G(k, g)]
  BY <1>6, Zenon
<1>8. FastCompressLoop(t) = g[n]
  BY DEF FastCompressLoop
<1>9. g[0] = t /\ \A k \in 1..n : g[k] = FoldOnce(g[k - 1])
  <2>1. \A k \in 0..n : g[k] = G(k, g)
    <3> HIDE DEF G, g
    <3> QED BY <1>7
  <2> HIDE DEF g
  <2> QED BY <1>1, <2>1
<1>10. g \in [0..n -> Seq(Nodes)]
  <2> DEFINE P == {k \in 0..n : g[k] \in S}
  <2> HIDE DEF g, G
  <2>1. 0 \in P
    BY <1>1, <1>9
  <2>2. ASSUME NEW k \in 1..n, k - 1 \in P PROVE k \in P
    <3>1. g[k - 1] \in S /\ k \in 0..n
      BY <2>2
    <3>2. FoldOnce(g[k - 1]) \in S
      BY <3>1, FoldOnceOne DEF OneTrace
    <3> HIDE DEF S
    <3> QED BY <1>9, <3>1, <3>2
  <2>3. \A k \in 0..n : k \in P
    <3> HIDE DEF P
    <3> QED BY <1>1, <2>1, <2>2, UpTo
  <2>4. \A k \in 0..n : g[k] \in Seq(Nodes)
    BY <2>3
  <2>5. g = [k \in 0..n |-> g[k]]
    BY <1>7
  <2> QED BY <2>4, <2>5
<1> HIDE DEF g, G
<1> QED BY <1>8, <1>9, <1>10 DEF FoldsOf

\* All the folds: a trace of the rank, with the first of its operations.
LEMMA FastCompressOne ==
  ASSUME NEW A \in SUBSET Ranks, NEW t, OneTrace(t, A)
  PROVE  OneTrace(FastCompressLoop(t), A) /\ SameOps(t, FastCompressLoop(t))
<1>1. PICK f : FoldsOf(t, f) /\ FastCompressLoop(t) = f[Len(t)]
  BY FastCompressFolds
<1> DEFINE n == Len(t)
           P == {k \in 0..n : OneTrace(f[k], A) /\ SameOps(t, f[k])}
<1>2. n \in Nat /\ f[0] = t /\ \A k \in 1..n : f[k] = FoldOnce(f[k - 1])
  BY <1>1 DEF FoldsOf, OneTrace
<1> HIDE DEF n
<1>3. 0 \in P
  <2>1. SameOps(t, t)
    BY <1>2 DEF SameOps, n
  <2> QED BY <1>2, <2>1
<1>4. ASSUME NEW k \in 1..n, k - 1 \in P PROVE k \in P
  <2> DEFINE x == f[k - 1]
             y == FoldOnce(x)
  <2>1. OneTrace(x, A) /\ SameOps(t, x) /\ k \in 0..n /\ f[k] = y
    BY <1>2, <1>4
  <2> HIDE DEF x
  <2>2. OneTrace(y, A) /\ SameOps(x, y)
    BY <2>1, FoldOnceOne
  <2> HIDE DEF y
  <2>3. Len(x) \in Nat /\ Len(y) \in Nat /\ Len(t) \in Nat
    BY <2>1, <2>2 DEF OneTrace
  <2>4. SameOps(t, y)
    BY <2>1, <2>2, <2>3 DEF SameOps
  <2> QED BY <2>1, <2>2, <2>4
<1>5. \A k \in 0..n : k \in P
  <2> HIDE DEF P
  <2> QED BY <1>2, <1>3, <1>4, UpTo
<1>6. n \in P
  BY <1>2, <1>5
<1> QED BY <1>1, <1>6 DEF n

\* One event more.
LEMMA AppendOne ==
  ASSUME NEW A \in SUBSET Ranks, NEW t, OneTrace(t, A), NEW node \in Nodes, OneNode(node, A)
  PROVE  /\ OneTrace(Append(t, node), A) /\ Len(Append(t, node)) = Len(t) + 1
         /\ \A i \in 1..Len(t) : Append(t, node)[i] = t[i]
         /\ Append(t, node)[Len(t) + 1] = node
<1> DEFINE s == Append(t, node)
<1>1. t \in Seq(Nodes) /\ Len(t) \in Nat /\ DOMAIN t = 1..Len(t)
  BY DEF OneTrace
<1>2. s \in Seq(Nodes) /\ Len(s) = Len(t) + 1 /\ s[Len(t) + 1] = node /\ \A i \in 1..Len(t) : s[i] = t[i]
  BY <1>1, AppendProperties
<1> HIDE DEF s
<1>3. s # <<>> /\ DOMAIN s = 1..(Len(t) + 1)
  BY <1>1, <1>2
<1>4. ASSUME NEW i \in DOMAIN s PROVE OneNode(s[i], A)
  <2>1. i \in 1..Len(t) \/ i = Len(t) + 1
    BY <1>1, <1>3
  <2>2. \A j \in 1..Len(t) : OneNode(t[j], A)
    BY <1>1 DEF OneTrace
  <2> QED BY <1>2, <2>1, <2>2
<1> QED BY <1>2, <1>3, <1>4 DEF OneTrace, s

\* The node of an event.
LEMMA NewNode ==
  ASSUME NEW op \in AllOps, NEW vec \in Seq(Int), Len(vec) > 0, NEW r \in Ranks
  PROVE  Node(op, vec, r) \in Nodes /\ OneNode(Node(op, vec, r), {r}) /\ Node(op, vec, r).op = op
<1> DEFINE c == Single(<<Len(vec)>>, {r})
           v == Single(vec, {r})
           node == Node(op, vec, r)
<1>1. c \in Parameters /\ One(c, {r}) /\ v \in Parameters /\ One(v, {r})
  <2>1. {r} \in SUBSET Ranks /\ vec # <<>> /\ <<Len(vec)>> \in Seq(Int) /\ <<Len(vec)>> # <<>>
    OBVIOUS
  <2> QED BY <2>1, SingleOne
<1>2. node = [op |-> op, ranks |-> {r}, loops |-> <<>>, member |-> FALSE, count |-> c, values |-> v]
  BY DEF Node
<1> HIDE DEF c, v, node
<1>3. <<>> \in Seq(LoopItems) /\ DOMAIN <<>> = {}
  OBVIOUS
<1>4. node \in Nodes
  BY <1>1, <1>2, <1>3 DEF Nodes
<1>5. OneNode(node, {r})
  BY <1>1, <1>2, <1>3 DEF OneNode
<1> QED BY <1>2, <1>4, <1>5 DEF node
-----------------------------------------------------------------------------
(* The trace a rank records. *)

\* MPI_Init's node comes first and stays alone; so does MPI_Finalize's, last.
Begun(t) == t[1].op = InitOp /\ \A i \in 2..Len(t) : t[i].op \notin {InitOp, FinalOp}
Ended(t) ==
  /\ Len(t) >= 2 /\ t[1].op = InitOp /\ t[Len(t)].op = FinalOp
  /\ \A i \in 2..(Len(t) - 1) : t[i].op \notin {InitOp, FinalOp}

\* The traces of a rank after each of its calls.
EventNode(calls, r, k) == Node(calls[k].op, calls[k].vec, r)
TracesOf(calls, r, f) ==
  /\ f[0] = <<Node(InitOp, <<0>>, r)>>
  /\ \A k \in 1..Len(calls) : f[k] = Appended(f[k - 1], EventNode(calls, r, k))
  /\ \A k \in 0..Len(calls) : OneTrace(f[k], {r}) /\ Begun(f[k])

\* What a program calls.
LEMMA CallTyped ==
  ASSUME NEW calls \in Programs, NEW k \in 1..Len(calls), NEW r \in Ranks
  PROVE  EventNode(calls, r, k) \in Nodes /\ OneNode(EventNode(calls, r, k), {r})
         /\ EventNode(calls, r, k).op = calls[k].op /\ calls[k].op \notin {InitOp, FinalOp}
<1>1. k \in DOMAIN calls
  BY ProgramsAssumption
<1>2. calls[k].op \notin {InitOp, FinalOp} /\ calls[k].vec \in Seq(Int) /\ Len(calls[k].vec) > 0
  BY <1>1, ProgramsAssumption
<1>3. calls[k].op \in AllOps
  BY <1>1 DEF AllOps
<1> QED BY <1>2, <1>3, NewNode DEF EventNode

\* The trace MPI_Init leaves.
LEMMA FirstNode ==
  ASSUME NEW r \in Ranks
  PROVE  OneTrace(<<Node(InitOp, <<0>>, r)>>, {r}) /\ Begun(<<Node(InitOp, <<0>>, r)>>)
<1> DEFINE x == Node(InitOp, <<0>>, r)
<1>1. x \in Nodes /\ OneNode(x, {r}) /\ x.op = InitOp
  <2>1. <<0>> \in Seq(Int) /\ Len(<<0>>) > 0 /\ InitOp \in AllOps
    BY DEF AllOps
  <2> QED BY <2>1, NewNode
<1> HIDE DEF x
<1>2. <<x>> \in Seq(Nodes) /\ Len(<<x>>) = 1 /\ <<x>>[1] = x /\ <<x>> # <<>> /\ DOMAIN <<x>> = 1..1
  BY <1>1
<1>3. \A i \in DOMAIN <<x>> : OneNode(<<x>>[i], {r})
  BY <1>1, <1>2
<1> QED BY <1>1, <1>2, <1>3 DEF OneTrace, Begun, x

\* A call of the program, appended and compressed.
LEMMA AppendedOne ==
  ASSUME NEW r \in Ranks, NEW t, OneTrace(t, {r}), Begun(t),
         NEW node \in Nodes, OneNode(node, {r}), node.op \notin {InitOp, FinalOp}
  PROVE  OneTrace(Appended(t, node), {r}) /\ Begun(Appended(t, node))
<1> DEFINE s == Append(t, node)
           u == Appended(t, node)
<1>1. t \in Seq(Nodes) /\ t # <<>> /\ Len(t) \in Nat /\ Len(t) >= 1
  BY EmptySeq DEF OneTrace
<1>2. /\ OneTrace(s, {r}) /\ Len(s) = Len(t) + 1 /\ \A i \in 1..Len(t) : s[i] = t[i]
      /\ s[Len(t) + 1] = node
  BY AppendOne
<1> HIDE DEF s
<1>3. OneTrace(u, {r}) /\ SameOps(s, u)
  BY <1>2, FastCompressOne DEF Appended, s
<1> HIDE DEF u
<1>4. Len(u) \in Nat /\ Len(u) >= 1 /\ Len(u) <= Len(s)
  BY <1>3, EmptySeq DEF OneTrace, SameOps
<1>5. s[1].op = InitOp /\ \A i \in 2..Len(s) : s[i].op \notin {InitOp, FinalOp}
  <2>1. s[1] = t[1]
    BY <1>1, <1>2
  <2>2. ASSUME NEW i \in 2..Len(s) PROVE s[i].op \notin {InitOp, FinalOp}
    <3>1. i \in 2..Len(t) \/ i = Len(t) + 1
      BY <1>1, <1>2
    <3>2. CASE i \in 2..Len(t)
      BY <1>1, <1>2, <3>2 DEF Begun
    <3> QED BY <1>2, <3>1, <3>2
  <2> QED BY <2>1, <2>2 DEF Begun
<1>6. \A i \in 1..Len(u) : u[i].op = s[i].op
  BY <1>3 DEF SameOps
<1>7. Begun(u)
  <2>1. 1 \in 1..Len(u) /\ \A i \in 2..Len(u) : i \in 1..Len(u) /\ i \in 2..Len(s)
    BY <1>1, <1>2, <1>4
  <2> QED BY <1>5, <1>6, <2>1 DEF Begun
<1> QED BY <1>3, <1>7 DEF u

\* The recorded trace is built call by call.
LEMMA RecordedTraces ==
  ASSUME NEW calls \in Programs, NEW r \in Ranks
  PROVE  \E f : TracesOf(calls, r, f) /\ Recorded(calls, r) = f[Len(calls)]
<1> DEFINE S == {x \in Seq(Nodes) : OneTrace(x, {r}) /\ Begun(x)}
           n == Len(calls)
           t == <<Node(InitOp, <<0>>, r)>>
           X(k) == EventNode(calls, r, k)
           F == [k \in 1..n |-> [x \in S |-> Appended(x, X(k))]]
           G(k, f) == IF k = 0 THEN t ELSE Appended(f[k - 1], X(k))
           g == CHOOSE f : f = [k \in 0..n |-> G(k, f)]
<1>1. n \in Nat /\ t \in S
  <2>1. n \in Nat
    BY ProgramsAssumption
  <2> QED BY <2>1, FirstNode DEF OneTrace
<1>2. \A k \in 1..n : \A x \in S : Appended(x, X(k)) \in S
  BY AppendedOne, CallTyped DEF OneTrace
<1>3. F \in [1..n -> [S -> S]]
  <2> HIDE DEF S, X
  <2> QED BY <1>2
<1>4. \A k \in 1..n : \A x \in S : F[k][x] = Appended(x, X(k))
  <2> HIDE DEF S, X
  <2> QED OBVIOUS
<1> HIDE DEF F
<1>5. PICK f : f \in [0..n -> S] /\ f[0] = t /\ \A k \in 1..n : f[k] = F[k][f[k - 1]]
  <2> HIDE DEF S, n, t
  <2>1. \E f : Recursive(f, n, S, t, F)
    BY <1>1, <1>3, Recursion
  <2> QED BY <2>1 DEF Recursive
<1>6. \A k \in 1..n : f[k] = Appended(f[k - 1], X(k))
  <2> TAKE k \in 1..n
  <2>1. k - 1 \in 0..n
    BY <1>1
  <2> HIDE DEF S, X, t
  <2>2. f[k - 1] \in S
    BY <1>5, <2>1
  <2> QED BY <1>4, <1>5, <2>2
<1>7. f = [k \in 0..n |-> G(k, f)]
  <2> HIDE DEF X, t
  <2>1. \A k \in 0..n : f[k] = G(k, f)
    BY <1>1, <1>5, <1>6
  <2> HIDE DEF G, S
  <2> QED BY <1>5, <2>1
<1>8. g = [k \in 0..n |-> G(k, g)]
  BY <1>7, Zenon
<1>9. Recorded(calls, r) = g[n]
  BY DEF Recorded, EventNode
<1> HIDE DEF X, t
<1>10. g[0] = t /\ \A k \in 1..n : g[k] = Appended(g[k - 1], X(k))
  <2>1. \A k \in 0..n : g[k] = G(k, g)
    <3> HIDE DEF G, g
    <3> QED BY <1>8
  <2> HIDE DEF g
  <2> QED BY <1>1, <2>1
<1>11. \A k \in 0..n : g[k] \in S
  <2> DEFINE P == {k \in 0..n : g[k] \in S}
  <2> HIDE DEF g, G, S
  <2>1. 0 \in P
    BY <1>1, <1>10
  <2>2. ASSUME NEW k \in 1..n, k - 1 \in P PROVE k \in P
    <3>1. g[k - 1] \in S /\ k \in 0..n
      BY <2>2
    <3> QED BY <1>2, <1>10, <3>1
  <2>3. \A k \in 0..n : k \in P
    <3> HIDE DEF P
    <3> QED BY <1>1, <2>1, <2>2, UpTo
  <2> QED BY <2>3
<1>12. \A k \in 0..n : OneTrace(g[k], {r}) /\ Begun(g[k])
  <2> HIDE DEF g
  <2> QED BY <1>11
<1> HIDE DEF g, G
<1> QED BY <1>9, <1>10, <1>12 DEF TracesOf, X, t

\* A program's trace when it calls MPI_Finalize.
LEMMA RecordedOne ==
  ASSUME NEW calls \in Programs, NEW r \in Ranks
  PROVE  OneTrace(Recorded(calls, r), {r}) /\ Begun(Recorded(calls, r))
<1>1. PICK f : TracesOf(calls, r, f) /\ Recorded(calls, r) = f[Len(calls)]
  BY RecordedTraces
<1>2. Len(calls) \in 0..Len(calls)
  BY ProgramsAssumption
<1> QED BY <1>1, <1>2 DEF TracesOf

\* MPI_Finalize's node repeats nothing: it is appended as it is.
LEMMA FinalAppended ==
  ASSUME NEW r \in Ranks, NEW t, OneTrace(t, {r}), Begun(t)
  PROVE  LET node == Node(FinalOp, <<0>>, r)
         IN  /\ Appended(t, node) = Append(t, node)
             /\ OneTrace(Append(t, node), {r}) /\ Ended(Append(t, node))
<1> DEFINE node == Node(FinalOp, <<0>>, r)
           s == Append(t, node)
           n == Len(s)
<1>1. t \in Seq(Nodes) /\ t # <<>> /\ Len(t) \in Nat /\ Len(t) >= 1
  BY EmptySeq DEF OneTrace
<1>2. node \in Nodes /\ OneNode(node, {r}) /\ node.op = FinalOp
  <2>1. <<0>> \in Seq(Int) /\ Len(<<0>>) > 0 /\ FinalOp \in AllOps
    BY DEF AllOps
  <2> QED BY <2>1, NewNode
<1> HIDE DEF node
<1>3. /\ OneTrace(s, {r}) /\ n = Len(t) + 1 /\ \A i \in 1..Len(t) : s[i] = t[i]
      /\ s[n] = node
  BY <1>2, AppendOne
<1> HIDE DEF s
<1>4. \A i \in 1..Len(t) : t[i].op # FinalOp
  <2> TAKE i \in 1..Len(t)
  <2>1. i = 1 \/ i \in 2..Len(t)
    BY <1>1
  <2> QED BY <2>1, OpsAssumption DEF Begun
<1>5. FoldOnce(s) = s
  <2>1. ASSUME NEW h \in 2..n PROVE ~Foldable(s, h)
    <3>1. h - 1 \in 1..Len(t)
      BY <1>1, <1>3
    <3>2. s[h - 1].op # s[Len(s)].op
      BY <1>2, <1>3, <1>4, <3>1
    <3> QED BY <3>2 DEF Foldable, Candidate
  <2>2. {h \in 2..n : Foldable(s, h)} = {}
    BY <2>1
  <2> QED BY <2>2 DEF FoldOnce
<1>6. Appended(t, node) = s
  <2>1. PICK f : FoldsOf(s, f) /\ FastCompressLoop(s) = f[n]
    BY <1>3, FastCompressFolds
  <2> DEFINE P == {k \in 0..n : f[k] = s}
  <2>2. n \in Nat /\ f[0] = s /\ \A k \in 1..n : f[k] = FoldOnce(f[k - 1])
    BY <1>1, <1>3, <2>1 DEF FoldsOf
  <2> HIDE DEF n
  <2>3. 0 \in P
    BY <2>2
  <2>4. ASSUME NEW k \in 1..n, k - 1 \in P PROVE k \in P
    BY <1>5, <2>2, <2>4
  <2>5. \A k \in 0..n : k \in P
    <3> HIDE DEF P
    <3> QED BY <2>2, <2>3, <2>4, UpTo
  <2>6. n \in P
    BY <2>2, <2>5
  <2> QED BY <2>1, <2>6 DEF Appended, s
<1>7. Ended(s)
  <2>1. n >= 2 /\ 1 \in 1..Len(t) /\ s[1].op = InitOp
    BY <1>1, <1>3 DEF Begun
  <2>2. ASSUME NEW i \in 2..(n - 1) PROVE s[i].op \notin {InitOp, FinalOp}
    <3>1. i \in 2..Len(t) /\ i \in 1..Len(t)
      BY <1>1, <1>3
    <3> QED BY <1>3, <3>1 DEF Begun
  <2> QED BY <1>2, <1>3, <2>1, <2>2 DEF Ended
<1> QED BY <1>3, <1>6, <1>7 DEF node, s
-----------------------------------------------------------------------------
(* Parameters of disjoint sets of ranks. *)

\* A parameter that has values for the ranks A, of each from one value list.
ParamOf(a, A) == a \in Parameters /\ RanksOf(a) = A /\ Disjoint(a)

\* A parameter of one value list is one.
LEMMA OneParam == ASSUME NEW A, NEW a \in Parameters, One(a, A) PROVE ParamOf(a, A)
<1>1. Len(a) = 1 /\ DOMAIN a = {1} /\ a[1].ranks = A
  BY DEF One, Parameters
<1>2. RanksOf(a) = A
  BY <1>1 DEF RanksOf
<1>3. Disjoint(a)
  BY <1>1 DEF Disjoint
<1> QED BY <1>2, <1>3 DEF ParamOf

\* A value of other ranks joins one of its values, or is added to them.
LEMMA AbsorbTyped ==
  ASSUME NEW A, NEW a, ParamOf(a, A), NEW q \in Values, A \cap q.ranks = {}
  PROVE  ParamOf(Absorb(a, q), A \cup q.ranks)
<1>1. a \in Seq(Values) /\ Len(a) \in Nat /\ DOMAIN a = 1..Len(a) /\ RanksOf(a) = A /\ Disjoint(a)
  BY DEF ParamOf, Parameters
<1>2. \A k \in 1..Len(a) : a[k] \in Values /\ a[k].ranks \subseteq A
  BY <1>1 DEF RanksOf
<1> DEFINE b == Absorb(a, q)
           T == {k \in DOMAIN a : CanMerge(a[k], q)}
           j == Min(T)
<1>3. CASE \E k \in DOMAIN a : CanMerge(a[k], q)
  <2>1. j \in 1..Len(a)
    <3>1. T \subseteq Nat /\ T # {} /\ T \subseteq 1..Len(a)
      BY <1>1, <1>3
    <3> HIDE DEF T
    <3> QED BY <3>1, Smallest
  <2> DEFINE v == MergeValue(a[j], q)
  <2>2. b = [a EXCEPT ![j] = v]
    BY <1>3 DEF Absorb
  <2> HIDE DEF j
  <2>3. v \in Values /\ v.ranks = a[j].ranks \cup q.ranks
    <3>0. a[j] \in Values /\ a[j].ranks \subseteq A
      BY <1>2, <2>1
    <3>1. CASE a[j].ranks = q.ranks
      <4>1. v = Then(a[j], q)
        BY <3>1 DEF MergeValue
      <4> QED BY <3>0, <3>1, <4>1, ThenTyped
    <3>2. CASE a[j].ranks # q.ranks
      <4>1. v = [a[j] EXCEPT !.ranks = a[j].ranks \cup q.ranks]
        BY <3>2 DEF MergeValue
      <4>2. v = [vals |-> a[j].vals, ranks |-> a[j].ranks \cup q.ranks, iters |-> a[j].iters]
        BY <3>0, <4>1, ValueTyped
      <4>3. a[j].ranks \cup q.ranks \in SUBSET Ranks
        BY <3>0, ValueTyped
      <4> QED BY <3>0, <4>2, <4>3, ValueTyped DEF Values
    <3> QED BY <3>1, <3>2
  <2> HIDE DEF v, b
  <2>4. /\ b \in Seq(Values) /\ Len(b) = Len(a)
        /\ \A k \in 1..Len(a) : b[k] = IF k = j THEN v ELSE a[k]
    BY <1>1, <2>1, <2>2, <2>3, ExceptSeq
  <2>5. DOMAIN b = 1..Len(a)
    BY <1>1, <2>4
  <2>6. RanksOf(b) = A \cup q.ranks
    <3>1. ASSUME NEW x \in RanksOf(b) PROVE x \in A \cup q.ranks
      <4>1. PICK k \in 1..Len(a) : x \in b[k].ranks
        BY <2>5 DEF RanksOf
      <4> QED BY <1>2, <2>1, <2>3, <2>4, <4>1
    <3>2. ASSUME NEW x \in A PROVE x \in RanksOf(b)
      <4>1. PICK k \in 1..Len(a) : x \in a[k].ranks
        BY <1>1 DEF RanksOf
      <4>2. x \in b[k].ranks
        BY <2>3, <2>4, <4>1
      <4> QED BY <2>5, <4>2 DEF RanksOf
    <3>3. ASSUME NEW x \in q.ranks PROVE x \in RanksOf(b)
      <4>1. x \in b[j].ranks
        BY <2>1, <2>3, <2>4
      <4> QED BY <2>1, <2>5, <4>1 DEF RanksOf
    <3> QED BY <3>1, <3>2, <3>3
  <2>7. Disjoint(b)
    <3> SUFFICES ASSUME NEW k \in 1..Len(a), NEW l \in 1..Len(a), k # l PROVE b[k].ranks \cap b[l].ranks = {}
      BY <2>5 DEF Disjoint
    <3>1. a[k].ranks \cap a[l].ranks = {}
      BY <1>1 DEF Disjoint
    <3>2. a[k].ranks \cap q.ranks = {} /\ a[l].ranks \cap q.ranks = {}
      BY <1>2
    <3>3. b[k].ranks = (IF k = j THEN a[k].ranks \cup q.ranks ELSE a[k].ranks)
      BY <2>3, <2>4
    <3>4. b[l].ranks = (IF l = j THEN a[l].ranks \cup q.ranks ELSE a[l].ranks)
      BY <2>3, <2>4
    <3> QED BY <3>1, <3>2, <3>3, <3>4
  <2> QED BY <2>4, <2>6, <2>7 DEF ParamOf, Parameters, b
<1>4. CASE ~ \E k \in DOMAIN a : CanMerge(a[k], q)
  <2>1. b = Append(a, q)
    BY <1>4 DEF Absorb
  <2> HIDE DEF b
  <2>2. /\ b \in Seq(Values) /\ Len(b) = Len(a) + 1 /\ b[Len(a) + 1] = q
        /\ \A k \in 1..Len(a) : b[k] = a[k]
    BY <1>1, <2>1, AppendProperties
  <2>3. DOMAIN b = 1..(Len(a) + 1)
    BY <2>2
  <2>4. \A k \in DOMAIN b : k \in 1..Len(a) \/ k = Len(a) + 1
    BY <1>1, <2>3
  <2>5. Len(a) + 1 \in DOMAIN b /\ \A k \in 1..Len(a) : k \in DOMAIN b
    BY <1>1, <2>3
  <2>6. RanksOf(b) = A \cup q.ranks
    <3>1. ASSUME NEW x \in RanksOf(b) PROVE x \in A \cup q.ranks
      <4>1. PICK k \in DOMAIN b : x \in b[k].ranks
        BY DEF RanksOf
      <4> QED BY <1>2, <2>2, <2>4, <4>1
    <3>2. ASSUME NEW x \in A PROVE x \in RanksOf(b)
      <4>1. PICK k \in 1..Len(a) : x \in a[k].ranks
        BY <1>1 DEF RanksOf
      <4> QED BY <2>2, <2>5, <4>1 DEF RanksOf
    <3>3. ASSUME NEW x \in q.ranks PROVE x \in RanksOf(b)
      BY <2>2, <2>5 DEF RanksOf
    <3> QED BY <3>1, <3>2, <3>3
  <2>7. Disjoint(b)
    <3> SUFFICES ASSUME NEW k \in DOMAIN b, NEW l \in DOMAIN b, k # l PROVE b[k].ranks \cap b[l].ranks = {}
      BY DEF Disjoint
    <3>1. CASE k \in 1..Len(a) /\ l \in 1..Len(a)
      BY <1>1, <2>2, <3>1 DEF Disjoint
    <3>2. CASE k \in 1..Len(a) /\ l = Len(a) + 1
      BY <1>2, <2>2, <3>2
    <3>3. CASE l \in 1..Len(a) /\ k = Len(a) + 1
      BY <1>2, <2>2, <3>3
    <3> QED BY <2>4, <3>1, <3>2, <3>3
  <2> QED BY <2>2, <2>6, <2>7 DEF ParamOf, Parameters, b
<1> QED BY <1>3, <1>4

\* The values of b that were absorbed so far.
Upto(b, k) == UNION {b[i].ranks : i \in 1..k}

LEMMA UptoApart ==
  ASSUME NEW A, NEW B, NEW b, ParamOf(b, B), A \cap B = {}, NEW k \in 1..Len(b)
  PROVE  /\ (A \cup Upto(b, k - 1)) \cap b[k].ranks = {}
         /\ Upto(b, k) = Upto(b, k - 1) \cup b[k].ranks
<1>1. Len(b) \in Nat /\ RanksOf(b) = B /\ DOMAIN b = 1..Len(b)
  BY DEF ParamOf, Parameters
<1>2. b[k].ranks \subseteq B
  BY <1>1 DEF RanksOf
<1>3. \A i \in 1..(k - 1) : b[i].ranks \cap b[k].ranks = {}
  <2> TAKE i \in 1..(k - 1)
  <2>1. i \in DOMAIN b /\ k \in DOMAIN b /\ i # k
    BY <1>1
  <2> QED BY <2>1 DEF ParamOf, Disjoint
<1>4. Upto(b, k - 1) \cap b[k].ranks = {}
  BY <1>3 DEF Upto
<1>5. \A i : i \in 1..k <=> (i \in 1..(k - 1) \/ i = k)
  BY <1>1
<1>6. Upto(b, k) = Upto(b, k - 1) \cup b[k].ranks
  BY <1>5, Zenon DEF Upto
<1> QED BY <1>2, <1>4, <1>6

\* The merge of parameters, value by value.
MergesOf(a, b, f) == f[0] = a /\ \A k \in 1..Len(b) : f[k] = Absorb(f[k - 1], b[k])

LEMMA MergeParamSteps ==
  ASSUME NEW A, NEW B, NEW a, NEW b, ParamOf(a, A), ParamOf(b, B), A \cap B = {},
         ~(Len(a) = 1 /\ Len(b) = 1 /\ a[1].ranks = b[1].ranks)
  PROVE  \E f : /\ MergesOf(a, b, f) /\ MergeParam(a, b) = f[Len(b)]
                /\ \A k \in 0..Len(b) : ParamOf(f[k], A \cup Upto(b, k))
<1> DEFINE n == Len(b)
           S == Parameters
           F == [k \in 1..n |-> [x \in S |-> IF Absorb(x, b[k]) \in S THEN Absorb(x, b[k]) ELSE x]]
           G(k, f) == IF k = 0 THEN a ELSE Absorb(f[k - 1], b[k])
           g == CHOOSE f : f = [k \in 0..n |-> G(k, f)]
<1>1. /\ a \in Parameters /\ b \in Parameters /\ n \in Nat /\ RanksOf(a) = A /\ RanksOf(b) = B /\ DOMAIN b = 1..n
      /\ \A k \in 1..n : b[k] \in Values
  BY DEF ParamOf, Parameters
<1>2. ASSUME NEW k \in 1..n
      PROVE  /\ (A \cup Upto(b, k - 1)) \cap b[k].ranks = {}
             /\ Upto(b, k) = Upto(b, k - 1) \cup b[k].ranks
  BY UptoApart
<1>3. ASSUME NEW k \in 1..n, NEW x, ParamOf(x, A \cup Upto(b, k - 1))
      PROVE  Absorb(x, b[k]) \in Parameters /\ ParamOf(Absorb(x, b[k]), A \cup Upto(b, k))
  <2>1. ParamOf(Absorb(x, b[k]), (A \cup Upto(b, k - 1)) \cup b[k].ranks)
    BY <1>1, <1>2, <1>3, AbsorbTyped
  <2>2. (A \cup Upto(b, k - 1)) \cup b[k].ranks = A \cup Upto(b, k)
    BY <1>2
  <2> QED BY <2>1, <2>2 DEF ParamOf
<1>4. F \in [1..n -> [S -> S]]
  OBVIOUS
<1>5. PICK f : f \in [0..n -> S] /\ f[0] = a /\ \A k \in 1..n : f[k] = F[k][f[k - 1]]
  <2> HIDE DEF S, n, F
  <2>1. a \in S
    BY <1>1 DEF S
  <2>2. \E f : Recursive(f, n, S, a, F)
    BY <1>1, <1>4, <2>1, Recursion
  <2> QED BY <2>2 DEF Recursive
<1>6. \A k \in 1..n : \A x \in S : Absorb(x, b[k]) \in S => F[k][x] = Absorb(x, b[k])
  OBVIOUS
<1> HIDE DEF F, S
<1>7. \A k \in 0..n : ParamOf(f[k], A \cup Upto(b, k))
  <2> DEFINE P == {k \in 0..n : ParamOf(f[k], A \cup Upto(b, k))}
  <2>1. 0 \in P
    <3>1. Upto(b, 0) = {}
      BY DEF Upto
    <3>2. A \cup Upto(b, 0) = A
      BY <3>1
    <3>3. ParamOf(f[0], A \cup Upto(b, 0))
      BY <1>5, <3>2
    <3> QED BY <1>1, <3>3
  <2>2. ASSUME NEW k \in 1..n, k - 1 \in P PROVE k \in P
    <3>1. ParamOf(f[k - 1], A \cup Upto(b, k - 1)) /\ k \in 0..n /\ k - 1 \in 0..n
      BY <1>1, <2>2
    <3>2. f[k - 1] \in S
      BY <1>5, <3>1
    <3>3. Absorb(f[k - 1], b[k]) \in S /\ ParamOf(Absorb(f[k - 1], b[k]), A \cup Upto(b, k))
      BY <1>3, <3>1 DEF S
    <3>4. f[k] = Absorb(f[k - 1], b[k])
      BY <1>5, <1>6, <3>2, <3>3
    <3> QED BY <3>1, <3>3, <3>4
  <2> HIDE DEF P
  <2>3. \A k \in 0..n : k \in P
    BY <1>1, <2>1, <2>2, UpTo
  <2> QED BY <2>3 DEF P
<1>8. \A k \in 1..n : f[k] = Absorb(f[k - 1], b[k])
  <2> TAKE k \in 1..n
  <2>1. k - 1 \in 0..n
    BY <1>1
  <2>2. f[k - 1] \in S /\ Absorb(f[k - 1], b[k]) \in S
    BY <1>3, <1>5, <1>7, <2>1 DEF S
  <2> QED BY <1>5, <1>6, <2>2
<1>9. f = [k \in 0..n |-> G(k, f)]
  <2>1. \A k \in 0..n : f[k] = G(k, f)
    BY <1>1, <1>5, <1>8
  <2> HIDE DEF G
  <2> QED BY <1>5, <2>1
<1>10. g = [k \in 0..n |-> G(k, g)]
  BY <1>9, Zenon
<1>11. MergeParam(a, b) = g[n]
  BY DEF MergeParam
<1>12. g[0] = a /\ \A k \in 1..n : g[k] = Absorb(g[k - 1], b[k])
  <2>1. \A k \in 0..n : g[k] = G(k, g)
    <3> HIDE DEF G, g
    <3> QED BY <1>10
  <2> HIDE DEF g
  <2> QED BY <1>1, <2>1
<1> HIDE DEF g, G
<1>13. \A k \in 0..n : ParamOf(g[k], A \cup Upto(b, k))
  <2> DEFINE P == {k \in 0..n : g[k] = f[k]}
  <2>1. 0 \in P
    BY <1>1, <1>5, <1>12
  <2>2. ASSUME NEW k \in 1..n, k - 1 \in P PROVE k \in P
    BY <1>8, <1>12, <2>2
  <2>3. \A k \in 0..n : k \in P
    <3> HIDE DEF P
    <3> QED BY <1>1, <2>1, <2>2, UpTo
  <2> QED BY <1>7, <2>3
<1> QED BY <1>11, <1>12, <1>13 DEF MergesOf

\* Parameters of disjoint sets of ranks merge into one of both.
LEMMA MergeParamTyped ==
  ASSUME NEW A, NEW B, NEW a, NEW b, ParamOf(a, A), ParamOf(b, B), A \cap B = {}
  PROVE  ParamOf(MergeParam(a, b), A \cup B)
<1>1. a \in Seq(Values) /\ b \in Seq(Values) /\ Len(b) \in Nat /\ DOMAIN a = 1..Len(a) /\ DOMAIN b = 1..Len(b)
      /\ RanksOf(a) = A /\ RanksOf(b) = B
  BY DEF ParamOf, Parameters
<1>2. CASE Len(a) = 1 /\ Len(b) = 1 /\ a[1].ranks = b[1].ranks
  <2>1. a[1].ranks = A /\ b[1].ranks = B
    <3>1. DOMAIN a = {1} /\ DOMAIN b = {1}
      BY <1>1, <1>2
    <3> QED BY <1>1, <3>1 DEF RanksOf
  <2>2. One(a, A) /\ One(b, A) /\ A \cup B = A
    BY <1>2, <2>1 DEF One
  <2>3. MergeParam(a, b) \in Parameters /\ One(MergeParam(a, b), A)
    BY <1>1, <2>2, MergeOne DEF Parameters
  <2> QED BY <2>2, <2>3, OneParam
<1>3. CASE ~(Len(a) = 1 /\ Len(b) = 1 /\ a[1].ranks = b[1].ranks)
  <2>1. PICK f : MergeParam(a, b) = f[Len(b)] /\ \A k \in 0..Len(b) : ParamOf(f[k], A \cup Upto(b, k))
    BY <1>3, MergeParamSteps
  <2>2. Len(b) \in 0..Len(b)
    BY <1>1
  <2>3. Upto(b, Len(b)) = B
    BY <1>1 DEF RanksOf, Upto
  <2> QED BY <2>1, <2>2, <2>3
<1> QED BY <1>2, <1>3
-----------------------------------------------------------------------------
(* Nodes of disjoint sets of ranks. *)

\* A node whose parameters have values for each of its ranks, of loops some of
\* them went through together.
ItemOf(item, A) ==
  \E M \in SUBSET A : ParamOf(item.mem, M) /\ ParamOf(item.iter, M)
NodeOf(node, A) ==
  /\ node \in Nodes /\ node.ranks = A
  /\ ParamOf(node.count, A) /\ ParamOf(node.values, A)
  /\ \A d \in DOMAIN node.loops : ItemOf(node.loops[d], A)

\* It is a node as the type invariant has it.
LEMMA NodeOfIsNode == ASSUME NEW A, NEW node, NodeOf(node, A) PROVE IsNode(node)
<1>1. node.ranks \subseteq Ranks /\ node.ranks = A
  BY NodeTyped DEF NodeOf
<1>2. /\ RanksOf(node.count) = A /\ Disjoint(node.count)
      /\ RanksOf(node.values) = A /\ Disjoint(node.values)
  BY DEF NodeOf, ParamOf
<1>3. ASSUME NEW d \in DOMAIN node.loops
      PROVE  /\ RanksOf(node.loops[d].mem) = RanksOf(node.loops[d].iter)
             /\ RanksOf(node.loops[d].mem) \subseteq A
             /\ Disjoint(node.loops[d].mem) /\ Disjoint(node.loops[d].iter)
  BY DEF NodeOf, ItemOf, ParamOf
<1> QED BY <1>1, <1>2, <1>3 DEF IsNode

\* A node of one rank is one.
LEMMA OneNodeOf == ASSUME NEW A, NEW node \in Nodes, OneNode(node, A) PROVE NodeOf(node, A)
<1>1. ParamOf(node.count, A) /\ ParamOf(node.values, A)
  BY NodeTyped, OneParam DEF OneNode
<1>2. ASSUME NEW d \in DOMAIN node.loops PROVE ItemOf(node.loops[d], A)
  <2>1. /\ node.loops[d].mem \in Parameters /\ node.loops[d].iter \in Parameters
        /\ One(node.loops[d].mem, A) /\ One(node.loops[d].iter, A)
    BY NodeTyped DEF OneNode, OneItem
  <2>2. ParamOf(node.loops[d].mem, A) /\ ParamOf(node.loops[d].iter, A)
    BY <2>1, OneParam
  <2> QED BY <2>2 DEF ItemOf
<1> QED BY <1>1, <1>2 DEF NodeOf, OneNode

\* Loops of both, merged from the outermost in.
LEMMA InterMergeTyped ==
  ASSUME NEW A, NEW B, A \cap B = {}, NEW l \in Seq(LoopItems), NEW o \in Seq(LoopItems),
         \A d \in DOMAIN l : ItemOf(l[d], A), \A d \in DOMAIN o : ItemOf(o[d], B)
  PROVE  /\ InterMergeLoops(l, o) \in Seq(LoopItems)
         /\ \A d \in DOMAIN InterMergeLoops(l, o) : ItemOf(InterMergeLoops(l, o)[d], A \cup B)
<1> DEFINE n == Max({Len(l), Len(o)})
           G(i) == IF i > Len(o) THEN l[i]
                   ELSE IF i > Len(l) THEN o[i]
                   ELSE [mem  |-> MergeParam(l[i].mem, o[i].mem), iter |-> MergeParam(l[i].iter, o[i].iter)]
           u == InterMergeLoops(l, o)
<1>1. Len(l) \in Nat /\ Len(o) \in Nat /\ DOMAIN l = 1..Len(l) /\ DOMAIN o = 1..Len(o)
  OBVIOUS
<1>2. n \in {Len(l), Len(o)}
  <2> DEFINE S == {Len(l), Len(o)}
  <2>1. S \subseteq 0..(Len(l) + Len(o)) /\ S # {} /\ Len(l) + Len(o) \in Nat
    BY <1>1
  <2> HIDE DEF S
  <2>2. Max(S) \in S
    BY <2>1, Largest
  <2> QED BY <2>2 DEF S
<1>3. u = [i \in 1..n |-> G(i)]
  BY DEF InterMergeLoops
<1> HIDE DEF n, u
<1>4. n \in Nat
  BY <1>1, <1>2
<1>5. ASSUME NEW i \in 1..n PROVE G(i) \in LoopItems /\ ItemOf(G(i), A \cup B)
  <2>1. CASE i > Len(o)
    <3>1. i \in DOMAIN l
      BY <1>1, <1>2, <2>1
    <3>2. l[i] \in LoopItems /\ ItemOf(l[i], A)
      BY <3>1
    <3> QED BY <2>1, <3>2 DEF ItemOf
  <2>2. CASE i <= Len(o) /\ i > Len(l)
    <3>1. i \in DOMAIN o /\ ~(i > Len(o))
      BY <1>1, <2>2
    <3>2. o[i] \in LoopItems /\ ItemOf(o[i], B)
      BY <3>1
    <3> QED BY <2>2, <3>1, <3>2 DEF ItemOf
  <2>3. CASE i <= Len(o) /\ i <= Len(l)
    <3> DEFINE mem == MergeParam(l[i].mem, o[i].mem)
               iter == MergeParam(l[i].iter, o[i].iter)
    <3>1. i \in DOMAIN o /\ i \in DOMAIN l /\ ~(i > Len(o)) /\ ~(i > Len(l))
      BY <1>1, <2>3
    <3>2. PICK L \in SUBSET A : ParamOf(l[i].mem, L) /\ ParamOf(l[i].iter, L)
      BY <3>1 DEF ItemOf
    <3>3. PICK O \in SUBSET B : ParamOf(o[i].mem, O) /\ ParamOf(o[i].iter, O)
      BY <3>1 DEF ItemOf
    <3>4. L \cap O = {} /\ L \cup O \in SUBSET (A \cup B)
      BY <3>2, <3>3
    <3>5. ParamOf(mem, L \cup O) /\ ParamOf(iter, L \cup O)
      BY <3>2, <3>3, <3>4, MergeParamTyped
    <3> HIDE DEF mem, iter
    <3>6. G(i) = [mem |-> mem, iter |-> iter]
      BY <3>1 DEF mem, iter
    <3>7. mem \in Parameters /\ iter \in Parameters
      BY <3>5 DEF ParamOf
    <3> HIDE DEF G
    <3> QED BY <3>4, <3>5, <3>6, <3>7 DEF LoopItems, ItemOf
  <2>4. i \in Nat
    BY <1>4
  <2> HIDE DEF G
  <2> QED BY <1>1, <2>1, <2>2, <2>3, <2>4
<1> HIDE DEF G
<1>6. u \in Seq(LoopItems) /\ DOMAIN u = 1..n
  BY <1>3, <1>4, <1>5
<1>7. \A d \in DOMAIN u : ItemOf(u[d], A \cup B)
  BY <1>3, <1>5, <1>6
<1> QED BY <1>6, <1>7 DEF u

\* Two nodes of a pair.
LEMMA MergePairTyped ==
  ASSUME NEW A, NEW B, A \cap B = {}, NEW x, NEW y, NodeOf(x, A), NodeOf(y, B)
  PROVE  NodeOf(MergePair(x, y), A \cup B) /\ MergePair(x, y).op = x.op
<1> DEFINE c == MergeParam(x.count, y.count)
           v == MergeParam(x.values, y.values)
           l == InterMergeLoops(x.loops, y.loops)
           new == MergePair(x, y)
<1>1. x \in Nodes /\ y \in Nodes /\ x.ranks = A /\ y.ranks = B
  BY DEF NodeOf
<1>2. ParamOf(c, A \cup B) /\ ParamOf(v, A \cup B)
  BY MergeParamTyped DEF NodeOf
<1>3. l \in Seq(LoopItems) /\ \A d \in DOMAIN l : ItemOf(l[d], A \cup B)
  <2>1. x.loops \in Seq(LoopItems) /\ y.loops \in Seq(LoopItems)
    BY <1>1, NodeTyped
  <2> QED BY <2>1, InterMergeTyped DEF NodeOf
<1>4. new = [x EXCEPT !.ranks = x.ranks \cup y.ranks, !.count = c, !.values = v, !.loops = l]
  BY <1>1 DEF MergePair, Nodes
<1> HIDE DEF c, v, l, new
<1>5. new = [op |-> x.op, ranks |-> A \cup B, loops |-> l, member |-> x.member, count |-> c, values |-> v]
  BY <1>1, <1>4 DEF Nodes
<1>6. new \in Nodes
  <2>1. A \cup B \in SUBSET Ranks
    BY <1>1, NodeTyped
  <2> QED BY <1>1, <1>2, <1>3, <1>5, <2>1, NodeTyped DEF Nodes, ParamOf
<1>7. new.op = x.op /\ new.ranks = A \cup B /\ new.count = c /\ new.values = v /\ new.loops = l
  BY <1>5
<1>8. NodeOf(new, A \cup B)
  BY <1>2, <1>3, <1>6, <1>7 DEF NodeOf
<1> QED BY <1>7, <1>8 DEF new
-----------------------------------------------------------------------------
(* The longest common subsequence. *)

\* A common subsequence of the first i operations of m and the first j of s:
\* pairs of equal operations, in order in both; MPI_Init's is its first.
Pairs == Seq(Nat \X Nat)
Common(m, s, i, j, c) ==
  /\ c \in Pairs
  /\ \A k \in 1..Len(c) : c[k][1] \in 1..i /\ c[k][2] \in 1..j /\ m[c[k][1]].op = s[c[k][2]].op
  /\ \A k \in 2..Len(c) : c[k - 1][1] < c[k][1] /\ c[k - 1][2] < c[k][2]
  /\ i >= 1 /\ j >= 1 => Len(c) >= 1 /\ c[1] = <<1, 1>>

\* Traces that hold MPI_Init's node first and MPI_Finalize's last.
EndedTraces(m, s) == m \in Seq(Nodes) /\ s \in Seq(Nodes) /\ Ended(m) /\ Ended(s)

\* Nothing is common to an empty prefix.
LEMMA CommonEmpty ==
  ASSUME NEW m, NEW s, NEW i \in Nat, NEW j \in Nat, i = 0 \/ j = 0
  PROVE  Common(m, s, i, j, <<>>) /\ \A c : Common(m, s, i, j, c) => Len(c) = 0
<1>1. <<>> \in Pairs /\ Len(<<>>) = 0
  BY DEF Pairs
<1>2. Common(m, s, i, j, <<>>)
  BY <1>1 DEF Common
<1>3. ASSUME NEW c, Common(m, s, i, j, c) PROVE Len(c) = 0
  <2>1. Len(c) \in Nat
    BY <1>3 DEF Common, Pairs
  <2>2. ~(1 \in 1..Len(c))
    BY <1>3 DEF Common
  <2> QED BY <2>1, <2>2
<1> QED BY <1>2, <1>3

\* The pair of two equal operations behind a subsequence of what is before them.
LEMMA CommonAppend ==
  ASSUME NEW m, NEW s, EndedTraces(m, s), NEW i \in 1..Len(m), NEW j \in 1..Len(s), m[i].op = s[j].op,
         NEW c, Common(m, s, i - 1, j - 1, c)
  PROVE  Common(m, s, i, j, Append(c, <<i, j>>)) /\ Len(Append(c, <<i, j>>)) = Len(c) + 1
<1> DEFINE p == <<i, j>>
           d == Append(c, p)
<1>1. Len(m) \in Nat /\ Len(s) \in Nat /\ i \in Nat /\ j \in Nat /\ c \in Seq(Nat \X Nat) /\ Len(c) \in Nat /\ p \in Nat \X Nat
      /\ p[1] = i /\ p[2] = j
  BY DEF EndedTraces, Common, Pairs
<1>0. i \in Nat /\ j \in Nat /\ Len(c) \in Nat
  BY <1>1
<1>2. \A k \in 1..Len(c) : c[k][1] \in 1..(i - 1) /\ c[k][2] \in 1..(j - 1) /\ m[c[k][1]].op = s[c[k][2]].op
  BY DEF Common
<1> HIDE DEF p
<1>3. d \in Seq(Nat \X Nat) /\ Len(d) = Len(c) + 1 /\ d[Len(c) + 1] = p /\ \A k \in 1..Len(c) : d[k] = c[k]
  BY <1>1, AppendProperties
<1> HIDE DEF d
<1>4. \A k \in 1..Len(d) : d[k][1] \in 1..i /\ d[k][2] \in 1..j /\ m[d[k][1]].op = s[d[k][2]].op
  <2> TAKE k \in 1..Len(d)
  <2>1. k \in 1..Len(c) \/ k = Len(c) + 1
    BY <1>1, <1>3
  <2>2. CASE k \in 1..Len(c)
    <3>1. d[k] = c[k] /\ c[k][1] \in 1..(i - 1) /\ c[k][2] \in 1..(j - 1) /\ m[c[k][1]].op = s[c[k][2]].op
      BY <1>2, <1>3, <2>2
    <3>2. c[k][1] \in 1..i /\ c[k][2] \in 1..j
      <4>1. 1..(i - 1) \subseteq 1..i /\ 1..(j - 1) \subseteq 1..j
        BY <1>0
      <4> QED BY <3>1, <4>1
    <3> QED BY <3>1, <3>2
  <2>3. CASE k = Len(c) + 1
    <3>1. i \in 1..i /\ j \in 1..j
      BY <1>1
    <3> QED BY <1>1, <1>3, <2>3, <3>1
  <2> QED BY <2>1, <2>2, <2>3
<1>5. \A k \in 2..Len(d) : d[k - 1][1] < d[k][1] /\ d[k - 1][2] < d[k][2]
  <2> TAKE k \in 2..Len(d)
  <2>0. Len(d) = Len(c) + 1
    BY <1>3
  <2>1. (k \in 2..Len(c) \/ k = Len(c) + 1) /\ k - 1 \in 1..Len(c)
    BY <1>0, <2>0
  <2>2. d[k - 1] = c[k - 1] /\ c[k - 1][1] \in 1..(i - 1) /\ c[k - 1][2] \in 1..(j - 1)
    BY <1>2, <1>3, <2>1
  <2>3. CASE k \in 2..Len(c)
    <3>1. c[k - 1][1] < c[k][1] /\ c[k - 1][2] < c[k][2]
      BY <2>3 DEF Common
    <3>2. d[k] = c[k]
      BY <1>3, <2>3
    <3> QED BY <2>2, <3>1, <3>2
  <2>4. CASE k = Len(c) + 1
    <3>1. d[k][1] = i /\ d[k][2] = j
      BY <1>1, <1>3, <2>4
    <3>2. c[k - 1][1] < i /\ c[k - 1][2] < j
      BY <1>0, <2>2
    <3> QED BY <2>2, <3>1, <3>2
  <2> QED BY <2>1, <2>3, <2>4
<1>6. Len(d) >= 1 /\ d[1] = <<1, 1>>
  <2>1. CASE i = 1
    <3>1. j = 1
      <4>1. m[1].op = InitOp
        BY DEF EndedTraces, Ended
      <4>2. \A l \in 2..Len(s) : s[l].op # InitOp
        <5> TAKE l \in 2..Len(s)
        <5>1. l \in 2..(Len(s) - 1) \/ l = Len(s)
          BY <1>1
        <5> QED BY <5>1, OpsAssumption DEF EndedTraces, Ended
      <4> QED BY <1>1, <2>1, <4>1, <4>2
    <3>2. Len(c) = 0
      BY <2>1, <3>1, CommonEmpty
    <3> QED BY <1>3, <2>1, <3>1, <3>2 DEF p
  <2>2. CASE i # 1
    <3>1. j # 1
      <4>1. s[1].op = InitOp
        BY DEF EndedTraces, Ended
      <4>2. \A l \in 2..Len(m) : m[l].op # InitOp
        <5> TAKE l \in 2..Len(m)
        <5>1. l \in 2..(Len(m) - 1) \/ l = Len(m)
          BY <1>1
        <5> QED BY <5>1, OpsAssumption DEF EndedTraces, Ended
      <4> QED BY <1>1, <2>2, <4>1, <4>2
    <3>2. Len(c) >= 1 /\ c[1] = <<1, 1>>
      BY <1>1, <2>2, <3>1 DEF Common
    <3>3. 1 \in 1..Len(c) /\ Len(c) + 1 >= 1
      BY <1>0, <3>2
    <3> QED BY <1>3, <3>2, <3>3
  <2> QED BY <2>1, <2>2
<1> QED BY <1>3, <1>4, <1>5, <1>6 DEF Common, Pairs, d, p

\* The cell of row i and column j, of two different operations.
LEMMA CommonEither ==
  ASSUME NEW m, NEW s, EndedTraces(m, s), NEW i \in 1..Len(m), NEW j \in 1..Len(s), m[i].op # s[j].op,
         NEW c, Common(m, s, i - 1, j, c), NEW d, Common(m, s, i, j - 1, d)
  PROVE  Common(m, s, i, j, IF Len(c) >= Len(d) THEN c ELSE d)
<1>1. Len(m) \in Nat /\ Len(s) \in Nat /\ i \in Nat /\ j \in Nat /\ c \in Pairs /\ d \in Pairs /\ Len(c) \in Nat /\ Len(d) \in Nat
  BY DEF EndedTraces, Common, Pairs
<1>2. i # 1 \/ j # 1
  BY DEF EndedTraces, Ended
<1>3. i - 1 >= 1 \/ Len(c) = 0
  BY <1>1, CommonEmpty
<1>4. j - 1 >= 1 \/ Len(d) = 0
  BY <1>1, CommonEmpty
<1>5. CASE Len(c) >= Len(d)
  <2>1. Len(c) >= 1 /\ c[1] = <<1, 1>>
    <3>1. CASE i = 1
      <4>1. j >= 1 /\ j - 1 >= 1 /\ i >= 1
        BY <1>1, <1>2, <3>1
      <4>2. Len(d) >= 1
        BY <4>1 DEF Common
      <4> QED BY <1>1, <1>3, <1>5, <3>1, <4>2
    <3>2. CASE i # 1
      <4>1. i - 1 >= 1 /\ j >= 1
        BY <1>1, <3>2
      <4> QED BY <4>1 DEF Common
    <3> QED BY <3>1, <3>2
  <2>2. \A k \in 1..Len(c) : c[k][1] \in 1..i
    <3> TAKE k \in 1..Len(c)
    <3>1. c[k][1] \in 1..(i - 1)
      BY DEF Common
    <3> QED BY <1>1, <3>1
  <2>3. Common(m, s, i, j, c)
    BY <2>1, <2>2 DEF Common
  <2> QED BY <1>5, <2>3
<1>6. CASE ~(Len(c) >= Len(d))
  <2>1. Len(d) >= 1 /\ d[1] = <<1, 1>>
    <3>1. j - 1 >= 1
      BY <1>1, <1>4, <1>6
    <3> QED BY <1>1, <3>1 DEF Common
  <2>2. \A k \in 1..Len(d) : d[k][2] \in 1..j
    <3> TAKE k \in 1..Len(d)
    <3>1. d[k][2] \in 1..(j - 1)
      BY DEF Common
    <3> QED BY <1>1, <3>1
  <2>3. Common(m, s, i, j, d)
    BY <2>1, <2>2 DEF Common
  <2> QED BY <1>6, <2>3
<1> QED BY <1>5, <1>6

\* The first j + 1 cells of row i, of the row above it.
Row(m, s, i, j, row) ==
  row \in Seq(Pairs) /\ Len(row) = j + 1 /\ \A l \in 0..j : Common(m, s, i, l, row[l + 1])
Paired(m, s, i, j, above, row) ==
  \A l \in 1..j : m[i].op = s[l].op => row[l + 1] = Append(above[l], <<i, l>>)

CellOf(m, s, above, i, row, j) ==
  IF m[i].op = s[j].op THEN Append(above[j], <<i, j>>)
  ELSE IF Len(above[j + 1]) >= Len(row[j]) THEN above[j + 1]
  ELSE row[j]

\* One more cell.
LEMMA CellAppended ==
  ASSUME NEW m, NEW s, EndedTraces(m, s), NEW i \in 1..Len(m), NEW above, Row(m, s, i - 1, Len(s), above),
         NEW j \in 1..Len(s), NEW row, Row(m, s, i, j - 1, row), Paired(m, s, i, j - 1, above, row)
  PROVE  LET new == Append(row, CellOf(m, s, above, i, row, j))
         IN  new \in Seq(Pairs) /\ Row(m, s, i, j, new) /\ Paired(m, s, i, j, above, new)
<1> DEFINE cell == CellOf(m, s, above, i, row, j)
           new == Append(row, cell)
<1>1. Len(s) \in Nat /\ j \in Nat /\ i \in Nat /\ row \in Seq(Pairs) /\ Len(row) = j
  BY DEF EndedTraces, Row
<1>2. Common(m, s, i - 1, j - 1, above[j]) /\ Common(m, s, i - 1, j, above[j + 1]) /\ Common(m, s, i, j - 1, row[j])
  <2>1. j - 1 \in 0..Len(s) /\ j \in 0..Len(s) /\ j - 1 \in 0..(j - 1) /\ (j - 1) + 1 = j
    BY <1>1
  <2>2. Common(m, s, i - 1, j - 1, above[(j - 1) + 1]) /\ Common(m, s, i, j - 1, row[(j - 1) + 1])
    BY <2>1 DEF Row
  <2>3. Common(m, s, i - 1, j, above[j + 1])
    BY <2>1 DEF Row
  <2> QED BY <2>1, <2>2, <2>3
<1>3. Common(m, s, i, j, cell)
  <2>1. CASE m[i].op = s[j].op
    BY <1>2, <2>1, CommonAppend DEF CellOf
  <2>2. CASE m[i].op # s[j].op
    BY <1>2, <2>2, CommonEither DEF CellOf
  <2> QED BY <2>1, <2>2
<1>4. m[i].op = s[j].op => cell = Append(above[j], <<i, j>>)
  BY DEF CellOf
<1> HIDE DEF cell
<1>5. cell \in Pairs
  BY <1>3 DEF Common
<1>6. /\ new \in Seq(Pairs) /\ Len(new) = j + 1 /\ new[j + 1] = cell
      /\ \A l \in 1..j : new[l] = row[l]
  BY <1>1, <1>5, AppendProperties
<1> HIDE DEF new
<1>7. Row(m, s, i, j, new)
  <2>1. ASSUME NEW l \in 0..j PROVE Common(m, s, i, l, new[l + 1])
    <3>1. CASE l = j
      BY <1>3, <1>6, <3>1
    <3>2. CASE l # j
      <4>1. l \in 0..(j - 1) /\ l + 1 \in 1..j
        BY <1>1, <3>2
      <4>2. new[l + 1] = row[l + 1]
        BY <1>6, <4>1
      <4> QED BY <4>1, <4>2 DEF Row
    <3> QED BY <3>1, <3>2
  <2> QED BY <1>6, <2>1 DEF Row
<1>8. Paired(m, s, i, j, above, new)
  <2>1. ASSUME NEW l \in 1..j, m[i].op = s[l].op PROVE new[l + 1] = Append(above[l], <<i, l>>)
    <3>1. CASE l = j
      BY <1>4, <1>6, <2>1, <3>1
    <3>2. CASE l # j
      <4>1. l \in 1..(j - 1) /\ l + 1 \in 1..j
        BY <1>1, <3>2
      <4>2. new[l + 1] = row[l + 1]
        BY <1>6, <4>1
      <4> QED BY <2>1, <4>1, <4>2 DEF Paired
    <3> QED BY <3>1, <3>2
  <2> QED BY <2>1 DEF Paired
<1> QED BY <1>6, <1>7, <1>8 DEF new, cell

\* A row from the row above it.
LEMMA LCSRowTyped ==
  ASSUME NEW m, NEW s, EndedTraces(m, s), NEW i \in 1..Len(m), NEW above, Row(m, s, i - 1, Len(s), above)
  PROVE  Row(m, s, i, Len(s), LCSRow(m, s, above, i)) /\ Paired(m, s, i, Len(s), above, LCSRow(m, s, above, i))
<1> DEFINE n == Len(s)
           S == Seq(Pairs)
           B == << <<>> >>
           X(row, j) == Append(row, CellOf(m, s, above, i, row, j))
           F == [j \in 1..n |-> [x \in S |-> IF X(x, j) \in S THEN X(x, j) ELSE x]]
           G(j, f) == IF j = 0 THEN B ELSE X(f[j - 1], j)
           g == CHOOSE f : f = [j \in 0..n |-> G(j, f)]
           Good(j, row) == row \in S /\ Row(m, s, i, j, row) /\ Paired(m, s, i, j, above, row)
<1>1. n \in Nat
  BY DEF EndedTraces
<1>2. Good(0, B)
  <2>1. <<>> \in Pairs
    BY DEF Pairs
  <2>2. B \in S /\ Len(B) = 1 /\ B[1] = <<>>
    BY <2>1
  <2>3. i \in Nat /\ 0 \in Nat
    BY DEF EndedTraces
  <2>4. Common(m, s, i, 0, <<>>)
    BY <2>3, CommonEmpty
  <2>5. \A l \in 0..0 : Common(m, s, i, l, B[l + 1])
    BY <2>2, <2>4
  <2>6. Paired(m, s, i, 0, above, B)
    BY DEF Paired
  <2> HIDE DEF B
  <2> QED BY <2>2, <2>5, <2>6 DEF Row
<1> HIDE DEF B
<1>3. ASSUME NEW j \in 1..n, NEW row, Good(j - 1, row) PROVE X(row, j) \in S /\ Good(j, X(row, j))
  BY <1>3, CellAppended
<1> HIDE DEF n, X
<1>4. F \in [1..n -> [S -> S]]
  <2> HIDE DEF S
  <2> QED OBVIOUS
<1>5. PICK f : f \in [0..n -> S] /\ f[0] = B /\ \A j \in 1..n : f[j] = F[j][f[j - 1]]
  <2>1. B \in S
    BY <1>2
  <2> HIDE DEF S, F
  <2>2. \E f : Recursive(f, n, S, B, F)
    BY <1>1, <1>4, <2>1, Recursion
  <2> QED BY <2>2 DEF Recursive
<1>6. \A j \in 1..n : \A x \in S : X(x, j) \in S => F[j][x] = X(x, j)
  <2> HIDE DEF S
  <2> QED OBVIOUS
<1> HIDE DEF F
<1>7. \A j \in 0..n : Good(j, f[j])
  <2> DEFINE P == {j \in 0..n : Good(j, f[j])}
  <2>1. 0 \in P
    <3> HIDE DEF Good
    <3> QED BY <1>1, <1>2, <1>5
  <2>2. ASSUME NEW j \in 1..n, j - 1 \in P PROVE j \in P
    <3>1. Good(j - 1, f[j - 1]) /\ j \in 0..n
      BY <1>1, <2>2
    <3>2. f[j - 1] \in S
      BY <3>1
    <3> HIDE DEF Good, S
    <3>3. X(f[j - 1], j) \in S /\ Good(j, X(f[j - 1], j))
      BY <1>3, <3>1
    <3>4. f[j] = X(f[j - 1], j)
      BY <1>5, <1>6, <3>2, <3>3
    <3> QED BY <3>1, <3>3, <3>4
  <2> HIDE DEF P
  <2>3. \A j \in 0..n : j \in P
    BY <1>1, <2>1, <2>2, UpTo
  <2> QED BY <2>3 DEF P
<1> HIDE DEF S
<1>8. \A j \in 1..n : f[j] = X(f[j - 1], j)
  <2> TAKE j \in 1..n
  <2>1. j - 1 \in 0..n
    BY <1>1
  <2>2. Good(j - 1, f[j - 1])
    BY <1>7, <2>1
  <2>3. X(f[j - 1], j) \in S
    <3> HIDE DEF Good
    <3> QED BY <1>3, <2>2
  <2>4. f[j - 1] \in S
    BY <2>2
  <2> QED BY <1>5, <1>6, <2>3, <2>4
<1>9. f = [j \in 0..n |-> G(j, f)]
  <2>1. \A j \in 0..n : f[j] = G(j, f)
    BY <1>1, <1>5, <1>8
  <2> HIDE DEF G
  <2> QED BY <1>5, <2>1
<1>10. g = [j \in 0..n |-> G(j, g)]
  BY <1>9, Zenon
<1>11. LCSRow(m, s, above, i) = g[n]
  BY DEF LCSRow, CellOf, n, B, X
<1>12. g[0] = B /\ \A j \in 1..n : g[j] = X(g[j - 1], j)
  <2>1. \A j \in 0..n : g[j] = G(j, g)
    <3> HIDE DEF G, g
    <3> QED BY <1>10
  <2> HIDE DEF g
  <2> QED BY <1>1, <2>1
<1> HIDE DEF g, G
<1>13. g[n] = f[n]
  <2> DEFINE P == {j \in 0..n : g[j] = f[j]}
  <2>1. 0 \in P
    BY <1>1, <1>5, <1>12
  <2>2. ASSUME NEW j \in 1..n, j - 1 \in P PROVE j \in P
    BY <1>8, <1>12, <2>2
  <2>3. \A j \in 0..n : j \in P
    <3> HIDE DEF P
    <3> QED BY <1>1, <2>1, <2>2, UpTo
  <2> QED BY <1>1, <2>3
<1>14. Good(n, f[n])
  BY <1>1, <1>7
<1> QED BY <1>11, <1>13, <1>14 DEF n

\* The whole table.
TableOf(m, s, f) ==
  /\ \A i \in 0..Len(m) : Row(m, s, i, Len(s), f[i])
  /\ \A i \in 1..Len(m) : Paired(m, s, i, Len(s), f[i - 1], f[i])

LEMMA LCSTable ==
  ASSUME NEW m, NEW s, EndedTraces(m, s)
  PROVE  \E f : TableOf(m, s, f) /\ LCS(m, s) = f[Len(m)][Len(s) + 1]
<1> DEFINE n == Len(m)
           S == Seq(Pairs)
           B == [j \in 1..(Len(s) + 1) |-> <<>>]
           X(row, i) == LCSRow(m, s, row, i)
           F == [i \in 1..n |-> [x \in S |-> IF X(x, i) \in S THEN X(x, i) ELSE x]]
           G(i, f) == IF i = 0 THEN B ELSE X(f[i - 1], i)
           g == CHOOSE f : f = [i \in 0..n |-> G(i, f)]
           Good(i, row) == Row(m, s, i, Len(s), row)
<1>1. n \in Nat /\ Len(s) \in Nat
  BY DEF EndedTraces
<1>2. B \in S /\ Good(0, B)
  <2>1. <<>> \in Pairs
    BY DEF Pairs
  <2>2. B \in S /\ Len(B) = Len(s) + 1
    BY <1>1, <2>1
  <2>3. ASSUME NEW l \in 0..Len(s) PROVE Common(m, s, 0, l, B[l + 1])
    <3>1. l \in Nat /\ B[l + 1] = <<>>
      BY <1>1
    <3> HIDE DEF B
    <3> QED BY <3>1, CommonEmpty
  <2> HIDE DEF B
  <2> QED BY <2>2, <2>3 DEF Row
<1> HIDE DEF B
<1>3. ASSUME NEW i \in 1..n, NEW row, Good(i - 1, row)
      PROVE  X(row, i) \in S /\ Good(i, X(row, i)) /\ Paired(m, s, i, Len(s), row, X(row, i))
  BY <1>3, LCSRowTyped DEF Row
<1> HIDE DEF n, X
<1>4. F \in [1..n -> [S -> S]]
  <2> HIDE DEF S
  <2> QED OBVIOUS
<1>5. PICK f : f \in [0..n -> S] /\ f[0] = B /\ \A i \in 1..n : f[i] = F[i][f[i - 1]]
  <2> HIDE DEF S, F
  <2>2. \E f : Recursive(f, n, S, B, F)
    BY <1>1, <1>2, <1>4, Recursion
  <2> QED BY <2>2 DEF Recursive
<1>6. \A i \in 1..n : \A x \in S : X(x, i) \in S => F[i][x] = X(x, i)
  <2> HIDE DEF S
  <2> QED OBVIOUS
<1> HIDE DEF F
<1>7. \A i \in 0..n : f[i] \in S /\ Good(i, f[i])
  <2> DEFINE P == {i \in 0..n : f[i] \in S /\ Good(i, f[i])}
  <2> HIDE DEF S, Good
  <2>1. 0 \in P
    BY <1>1, <1>2, <1>5
  <2>2. ASSUME NEW i \in 1..n, i - 1 \in P PROVE i \in P
    <3>1. Good(i - 1, f[i - 1]) /\ f[i - 1] \in S /\ i \in 0..n
      BY <1>1, <2>2
    <3>3. X(f[i - 1], i) \in S /\ Good(i, X(f[i - 1], i))
      BY <1>3, <3>1
    <3>4. f[i] = X(f[i - 1], i)
      BY <1>5, <1>6, <3>1, <3>3
    <3> QED BY <3>1, <3>3, <3>4
  <2> HIDE DEF P
  <2>3. \A i \in 0..n : i \in P
    BY <1>1, <2>1, <2>2, UpTo
  <2> QED BY <2>3 DEF P
<1> HIDE DEF S
<1>8. ASSUME NEW i \in 1..n PROVE f[i] = X(f[i - 1], i) /\ Paired(m, s, i, Len(s), f[i - 1], f[i])
  <2>1. i - 1 \in 0..n
    BY <1>1
  <2> HIDE DEF Good
  <2>2. Good(i - 1, f[i - 1]) /\ f[i - 1] \in S
    BY <1>7, <2>1
  <2>3. X(f[i - 1], i) \in S /\ Paired(m, s, i, Len(s), f[i - 1], X(f[i - 1], i))
    BY <1>3, <2>2
  <2>4. f[i] = X(f[i - 1], i)
    BY <1>5, <1>6, <2>2, <2>3
  <2> QED BY <2>3, <2>4
<1>9. f = [i \in 0..n |-> G(i, f)]
  <2>1. \A i \in 0..n : f[i] = G(i, f)
    BY <1>1, <1>5, <1>8
  <2> HIDE DEF G
  <2> QED BY <1>5, <2>1
<1>10. g = [i \in 0..n |-> G(i, g)]
  BY <1>9, Zenon
<1>11. LCS(m, s) = Last(g[n])
  BY DEF LCS, n, B, X
<1>12. g[0] = B /\ \A i \in 1..n : g[i] = X(g[i - 1], i)
  <2>1. \A i \in 0..n : g[i] = G(i, g)
    <3> HIDE DEF G, g
    <3> QED BY <1>10
  <2> HIDE DEF g
  <2> QED BY <1>1, <2>1
<1> HIDE DEF g, G
<1>13. g[n] = f[n]
  <2> DEFINE P == {i \in 0..n : g[i] = f[i]}
  <2>1. 0 \in P
    BY <1>1, <1>5, <1>12
  <2>2. ASSUME NEW i \in 1..n, i - 1 \in P PROVE i \in P
    BY <1>8, <1>12, <2>2
  <2>3. \A i \in 0..n : i \in P
    <3> HIDE DEF P
    <3> QED BY <1>1, <2>1, <2>2, UpTo
  <2> QED BY <1>1, <2>3
<1>14. Last(f[n]) = f[n][Len(s) + 1]
  <2>1. Row(m, s, n, Len(s), f[n])
    BY <1>1, <1>7
  <2> QED BY <2>1 DEF Row, Last
<1>15. TableOf(m, s, f)
  BY <1>7, <1>8 DEF TableOf, n
<1> QED BY <1>11, <1>13, <1>14, <1>15 DEF n

\* The pairs of two traces: the first nodes are the first pair, the last the last.
PairsOf(m, s, c) ==
  /\ c \in Pairs /\ Len(c) >= 2 /\ c[1] = <<1, 1>> /\ c[Len(c)] = <<Len(m), Len(s)>>
  /\ \A k \in 1..Len(c) : c[k][1] \in 1..Len(m) /\ c[k][2] \in 1..Len(s) /\ m[c[k][1]].op = s[c[k][2]].op
  /\ \A k \in 2..Len(c) : c[k - 1][1] < c[k][1] /\ c[k - 1][2] < c[k][2]

LEMMA LCSTyped == ASSUME NEW m, NEW s, EndedTraces(m, s) PROVE PairsOf(m, s, LCS(m, s))
<1> DEFINE c == LCS(m, s)
           a == Len(m)
           b == Len(s)
<1>1. PICK f : TableOf(m, s, f) /\ c = f[a][b + 1]
  BY LCSTable
<1> HIDE DEF c
<1>2. a \in Nat /\ a >= 2 /\ b \in Nat /\ b >= 2 /\ m[a].op = s[b].op /\ a - 1 \in Nat /\ b - 1 \in Nat
  BY DEF EndedTraces, Ended
<1> HIDE DEF a, b
<1>3. a \in 0..a /\ a - 1 \in 0..a /\ a \in 1..a /\ b \in 0..b /\ b - 1 \in 0..b /\ b \in 1..b
  BY <1>2
<1>4. Common(m, s, a, b, c)
  <2>1. Row(m, s, a, b, f[a])
    BY <1>1, <1>3 DEF TableOf, a, b
  <2> QED BY <1>1, <1>3, <2>1 DEF Row
<1>5. c = Append(f[a - 1][b], <<a, b>>)
  <2>1. Paired(m, s, a, b, f[a - 1], f[a])
    BY <1>1, <1>3 DEF TableOf, a, b
  <2> QED BY <1>1, <1>2, <1>3, <2>1 DEF Paired
<1>6. Common(m, s, a - 1, b - 1, f[a - 1][b])
  <2>1. Row(m, s, a - 1, b, f[a - 1])
    BY <1>1, <1>3 DEF TableOf, a, b
  <2>2. (b - 1) + 1 = b
    BY <1>2
  <2>3. Common(m, s, a - 1, b - 1, f[a - 1][(b - 1) + 1])
    BY <1>3, <2>1 DEF Row
  <2> QED BY <2>2, <2>3
<1>7. Len(c) >= 2 /\ c[Len(c)] = <<a, b>>
  <2> DEFINE d == f[a - 1][b]
             p == <<a, b>>
  <2>1. d \in Seq(Nat \X Nat) /\ p \in Nat \X Nat /\ Len(d) >= 1 /\ Len(d) \in Nat
    BY <1>2, <1>6 DEF Common, Pairs
  <2> HIDE DEF d, p
  <2>2. Len(Append(d, p)) = Len(d) + 1 /\ Append(d, p)[Len(d) + 1] = p
    BY <2>1
  <2> QED BY <1>5, <2>1, <2>2 DEF d, p
<1>8. c[1] = <<1, 1>> /\ c \in Pairs
  BY <1>2, <1>4 DEF Common
<1> QED BY <1>4, <1>7, <1>8 DEF PairsOf, Common, a, b, c
-----------------------------------------------------------------------------
(* The merge of two traces. *)

\* Flattening, one sequence after another.
FlatOf(S, seqs, h) ==
  /\ h[0] = <<>> /\ \A k \in 1..Len(seqs) : h[k] = h[k - 1] \o seqs[k]
  /\ \A k \in 0..Len(seqs) : h[k] \in Seq(S)

LEMMA FlattenSteps ==
  ASSUME NEW S, NEW seqs \in Seq(Seq(S)), Len(seqs) # 0
  PROVE  \E h : FlatOf(S, seqs, h) /\ FlattenSeq(seqs) = h[Len(seqs)]
<1> DEFINE n == Len(seqs)
           T == Seq(S)
           F == [k \in 1..n |-> [x \in T |-> x \o seqs[k]]]
           G(i, f) == IF i = 1 THEN seqs[1] ELSE f[i - 1] \o seqs[i]
           g == CHOOSE f : f = [i \in 1..n |-> G(i, f)]
<1>1. n \in Nat /\ n # 0 /\ \A k \in 1..n : seqs[k] \in T
  OBVIOUS
<1>2. \A k \in 1..n : \A x \in T : x \o seqs[k] \in T
  BY <1>1
<1>3. FlattenSeq(seqs) = g[n]
  BY <1>1 DEF FlattenSeq
<1>4. <<>> \in T /\ \A x \in T : <<>> \o x = x
  BY ConcatEmptySeq
<1> HIDE DEF n, T
<1>5. F \in [1..n -> [T -> T]]
  BY <1>2
<1>6. \A k \in 1..n : \A x \in T : F[k][x] = x \o seqs[k]
  OBVIOUS
<1> HIDE DEF F
<1>7. PICK h : h \in [0..n -> T] /\ h[0] = <<>> /\ \A k \in 1..n : h[k] = F[k][h[k - 1]]
  <2>1. \E h : Recursive(h, n, T, <<>>, F)
    BY <1>1, <1>4, <1>5, Recursion
  <2> QED BY <2>1 DEF Recursive
<1>8. \A k \in 1..n : h[k] = h[k - 1] \o seqs[k]
  <2> TAKE k \in 1..n
  <2>1. k - 1 \in 0..n
    BY <1>1
  <2>2. h[k - 1] \in T
    BY <1>7, <2>1
  <2> QED BY <1>6, <1>7, <2>2
<1> DEFINE f == [i \in 1..n |-> h[i]]
<1>9. f = [i \in 1..n |-> G(i, f)]
  <2>1. ASSUME NEW i \in 1..n PROVE h[i] = G(i, f)
    <3>1. CASE i = 1
      <4>1. h[1] = h[0] \o seqs[1]
        <5>1. 1 \in 1..n /\ 1 - 1 = 0
          BY <1>1
        <5> QED BY <1>8, <5>1
      <4>2. h[1] = seqs[1]
        BY <1>1, <1>4, <1>7, <3>1, <4>1
      <4> QED BY <3>1, <4>2
    <3>2. CASE i # 1
      <4>1. i - 1 \in 1..n
        BY <1>1, <3>2
      <4> QED BY <1>8, <3>2, <4>1
    <3> QED BY <3>1, <3>2
  <2> HIDE DEF G
  <2> QED BY <2>1
<1> HIDE DEF f
<1>10. g = [i \in 1..n |-> G(i, g)]
  BY <1>9, Zenon
<1>11. \A i \in 1..n : g[i] = G(i, g)
  <2> HIDE DEF G, g
  <2> QED BY <1>10
<1> HIDE DEF g
<1>12. g[n] = h[n]
  <2> DEFINE P == {k \in 0..n : k = 0 \/ g[k] = h[k]}
  <2>1. 0 \in P
    BY <1>1
  <2>2. ASSUME NEW k \in 1..n, k - 1 \in P PROVE k \in P
    <3>1. CASE k = 1
      <4>0. 1 \in 1..n /\ 1 - 1 = 0
        BY <1>1
      <4>1. h[1] = h[0] \o seqs[1]
        BY <1>8, <4>0
      <4>2. h[1] = seqs[1] /\ g[1] = seqs[1]
        BY <1>1, <1>4, <1>7, <1>11, <3>1, <4>1
      <4> QED BY <3>1, <4>2
    <3>2. CASE k # 1
      <4>1. k - 1 \in 1..n /\ k - 1 # 0
        BY <1>1, <3>2
      <4>2. g[k] = g[k - 1] \o seqs[k]
        BY <1>11, <3>2
      <4>3. g[k - 1] = h[k - 1] /\ k \in 0..n
        BY <1>1, <2>2, <4>1
      <4>4. h[k] = h[k - 1] \o seqs[k]
        BY <1>8
      <4> QED BY <4>2, <4>3, <4>4
    <3> QED BY <3>1, <3>2
  <2>3. \A k \in 0..n : k \in P
    <3> HIDE DEF P
    <3> QED BY <1>1, <2>1, <2>2, UpTo
  <2>4. n \in P
    BY <1>1, <2>3
  <2> QED BY <1>1, <2>4
<1> QED BY <1>3, <1>7, <1>8, <1>12 DEF FlatOf, n, T

\* A trace of MPI_Init's node, MPI_Finalize's, both of the ranks A, and others
\* in between, of some of them.
NodeWithin(node, A) == \E W \in SUBSET A : NodeOf(node, W)
TraceOf(t, A) ==
  /\ t \in Seq(Nodes) /\ Ended(t)
  /\ NodeOf(t[1], A) /\ NodeOf(t[Len(t)], A)
  /\ \A i \in 1..Len(t) : NodeWithin(t[i], A)

\* What the merge puts out for the k-th pair: the nodes before it, and the pair.
PairAt(m, s, c, k) == MergePair(m[c[k][1]], s[c[k][2]])
Before(m, s, c, k) ==
  LET i == IF k = 1 THEN 0 ELSE c[k - 1][1]
      j == IF k = 1 THEN 0 ELSE c[k - 1][2]
  IN  SubSeq(m, i + 1, c[k][1] - 1) \o SubSeq(s, j + 1, c[k][2] - 1)
Chunk(m, s, c, k) == Before(m, s, c, k) \o <<PairAt(m, s, c, k)>>

\* The nodes before a pair are of calls of the programs.
LEMMA BeforeTyped ==
  ASSUME NEW A, NEW B, NEW m, NEW s, TraceOf(m, A), TraceOf(s, B), NEW c, PairsOf(m, s, c), NEW k \in 1..Len(c)
  PROVE  /\ Before(m, s, c, k) \in Seq(Nodes)
         /\ k = 1 => Before(m, s, c, k) = <<>>
         /\ \A i \in 1..Len(Before(m, s, c, k)) :
              /\ Before(m, s, c, k)[i].op \notin {InitOp, FinalOp}
              /\ NodeWithin(Before(m, s, c, k)[i], A) \/ NodeWithin(Before(m, s, c, k)[i], B)
<1> DEFINE i == IF k = 1 THEN 0 ELSE c[k - 1][1]
           j == IF k = 1 THEN 0 ELSE c[k - 1][2]
           x == c[k][1]
           y == c[k][2]
           M == SubSeq(m, i + 1, x - 1)
           S == SubSeq(s, j + 1, y - 1)
           u == Before(m, s, c, k)
<1>0. Len(c) \in Nat /\ k \in Nat /\ Len(m) \in Nat /\ Len(s) \in Nat /\ m \in Seq(Nodes) /\ s \in Seq(Nodes)
  <2>1. m \in Seq(Nodes) /\ s \in Seq(Nodes)
    BY DEF TraceOf
  <2>2. c \in Seq(Nat \X Nat)
    BY DEF PairsOf, Pairs
  <2>3. Len(c) \in Nat /\ k \in Nat
    BY <2>2
  <2> QED BY <2>1, <2>3
<1>1. x \in 1..Len(m) /\ y \in 1..Len(s)
  BY DEF PairsOf
<1>2. u = M \o S
  BY DEF Before
<1>3. CASE k = 1
  <2>1. i = 0 /\ j = 0 /\ x = 1 /\ y = 1
    BY <1>3 DEF PairsOf
  <2>2. M = <<>> /\ S = <<>>
    BY <2>1, SubSeqEmpty
  <2> HIDE DEF M, S, u
  <2>3. u = <<>>
    BY <1>2, <2>2
  <2>4. u \in Seq(Nodes) /\ Len(u) = 0
    BY <2>3
  <2> QED BY <1>3, <2>3, <2>4 DEF u
<1>4. CASE k # 1
  <2>1. k \in 2..Len(c) /\ k - 1 \in 1..Len(c)
    BY <1>0, <1>4
  <2>2. i \in 1..Len(m) /\ j \in 1..Len(s) /\ i < x /\ j < y
    BY <1>4, <2>1 DEF PairsOf
  <2> HIDE DEF i, j, x, y
  <2>3. \A l \in (i + 1)..(x - 1) : l \in 2..(Len(m) - 1) /\ l \in 1..Len(m)
    BY <1>0, <1>1, <2>2
  <2>4. \A l \in (j + 1)..(y - 1) : l \in 2..(Len(s) - 1) /\ l \in 1..Len(s)
    BY <1>0, <1>1, <2>2
  <2>5. \A l \in (i + 1)..(x - 1) : m[l] \in Nodes /\ m[l].op \notin {InitOp, FinalOp} /\ NodeWithin(m[l], A)
    BY <1>0, <2>3 DEF TraceOf, Ended
  <2>6. \A l \in (j + 1)..(y - 1) : s[l] \in Nodes /\ s[l].op \notin {InitOp, FinalOp} /\ NodeWithin(s[l], B)
    BY <1>0, <2>4 DEF TraceOf, Ended
  <2>7. /\ M \in Seq(Nodes)
        /\ \A l \in 1..Len(M) : l + i \in (i + 1)..(x - 1) /\ M[l] = m[l + i]
    <3>0. i + 1 \in Int /\ x - 1 \in Int /\ i \in Nat /\ x \in Nat
      BY <1>0, <1>1, <2>2
    <3>1. /\ M \in Seq(Nodes) /\ Len(M) = IF i + 1 <= x - 1 THEN (x - 1) - (i + 1) + 1 ELSE 0
          /\ \A l \in 1..((x - 1) - (i + 1) + 1) : M[l] = m[(i + 1) + l - 1]
      BY <2>5, <3>0, SubSeqProperties
    <3> HIDE DEF M
    <3>2. ASSUME NEW l \in 1..Len(M) PROVE l + i \in (i + 1)..(x - 1) /\ M[l] = m[l + i]
      <4>1. i + 1 <= x - 1 /\ l \in 1..((x - 1) - (i + 1) + 1)
        BY <3>0, <3>1
      <4>2. (i + 1) + l - 1 = l + i /\ l + i \in (i + 1)..(x - 1)
        BY <3>0, <4>1
      <4> QED BY <3>1, <4>1, <4>2
    <3> QED BY <3>1, <3>2
  <2>8. /\ S \in Seq(Nodes)
        /\ \A l \in 1..Len(S) : l + j \in (j + 1)..(y - 1) /\ S[l] = s[l + j]
    <3>0. j + 1 \in Int /\ y - 1 \in Int /\ j \in Nat /\ y \in Nat
      BY <1>0, <1>1, <2>2
    <3>1. /\ S \in Seq(Nodes) /\ Len(S) = IF j + 1 <= y - 1 THEN (y - 1) - (j + 1) + 1 ELSE 0
          /\ \A l \in 1..((y - 1) - (j + 1) + 1) : S[l] = s[(j + 1) + l - 1]
      BY <2>6, <3>0, SubSeqProperties
    <3> HIDE DEF S
    <3>2. ASSUME NEW l \in 1..Len(S) PROVE l + j \in (j + 1)..(y - 1) /\ S[l] = s[l + j]
      <4>1. j + 1 <= y - 1 /\ l \in 1..((y - 1) - (j + 1) + 1)
        BY <3>0, <3>1
      <4>2. (j + 1) + l - 1 = l + j /\ l + j \in (j + 1)..(y - 1)
        BY <3>0, <4>1
      <4> QED BY <3>1, <4>1, <4>2
    <3> QED BY <3>1, <3>2
  <2> HIDE DEF M, S, u
  <2>9. \A l \in 1..Len(M) : M[l].op \notin {InitOp, FinalOp} /\ NodeWithin(M[l], A)
    BY <2>5, <2>7
  <2>10. \A l \in 1..Len(S) : S[l].op \notin {InitOp, FinalOp} /\ NodeWithin(S[l], B)
    BY <2>6, <2>8
  <2>11. /\ u \in Seq(Nodes) /\ Len(u) = Len(M) + Len(S)
         /\ \A l \in 1..(Len(M) + Len(S)) : u[l] = IF l <= Len(M) THEN M[l] ELSE S[l - Len(M)]
    BY <1>2, <2>7, <2>8, ConcatProperties
  <2>12. ASSUME NEW l \in 1..Len(u)
         PROVE  u[l].op \notin {InitOp, FinalOp} /\ (NodeWithin(u[l], A) \/ NodeWithin(u[l], B))
    <3>0. Len(M) \in Nat /\ Len(S) \in Nat
      BY <2>7, <2>8
    <3>1. CASE l <= Len(M)
      <4>1. l \in 1..Len(M) /\ u[l] = M[l]
        BY <2>11, <3>0, <3>1
      <4> QED BY <2>9, <4>1
    <3>2. CASE ~(l <= Len(M))
      <4>1. l - Len(M) \in 1..Len(S) /\ u[l] = S[l - Len(M)]
        BY <2>11, <3>0, <3>2
      <4> QED BY <2>10, <4>1
    <3> QED BY <3>1, <3>2
  <2> QED BY <1>4, <2>11, <2>12 DEF u
<1> QED BY <1>3, <1>4

\* A pair of nodes, merged.
PairsMerge(m, s, A) ==
  \A i \in 1..Len(m), j \in 1..Len(s) :
    /\ NodeWithin(MergePair(m[i], s[j]), A) /\ MergePair(m[i], s[j]) \in Nodes
    /\ MergePair(m[i], s[j]).op = m[i].op

LEMMA PairTyped ==
  ASSUME NEW A, NEW B, A \cap B = {}, NEW m, NEW s, TraceOf(m, A), TraceOf(s, B)
  PROVE  PairsMerge(m, s, A \cup B)
<1> SUFFICES ASSUME NEW i \in 1..Len(m), NEW j \in 1..Len(s)
             PROVE  /\ NodeWithin(MergePair(m[i], s[j]), A \cup B) /\ MergePair(m[i], s[j]) \in Nodes
                    /\ MergePair(m[i], s[j]).op = m[i].op
  BY DEF PairsMerge
<1>1. PICK X \in SUBSET A : NodeOf(m[i], X)
  BY DEF TraceOf, NodeWithin
<1>2. PICK Y \in SUBSET B : NodeOf(s[j], Y)
  BY DEF TraceOf, NodeWithin
<1>3. X \cap Y = {} /\ X \cup Y \in SUBSET (A \cup B)
  OBVIOUS
<1> DEFINE x == m[i]
           y == s[j]
<1>4. NodeOf(MergePair(x, y), X \cup Y) /\ MergePair(x, y).op = x.op
  <2> HIDE DEF x, y
  <2>1. NodeOf(x, X) /\ NodeOf(y, Y)
    BY <1>1, <1>2 DEF x, y
  <2> QED BY <1>3, <2>1, MergePairTyped
<1> QED BY <1>3, <1>4 DEF NodeWithin, NodeOf

\* The merge, pair by pair.
MergeOf(m, s, c, h) ==
  /\ h[0] = <<>> /\ \A k \in 1..Len(c) : h[k] = h[k - 1] \o Chunk(m, s, c, k)
  /\ \A k \in 0..Len(c) : h[k] \in Seq(Nodes)

LEMMA MergeSteps ==
  ASSUME NEW A, NEW B, A \cap B = {}, NEW m, NEW s, TraceOf(m, A), TraceOf(s, B)
  PROVE  /\ PairsOf(m, s, LCS(m, s))
         /\ \E h : MergeOf(m, s, LCS(m, s), h) /\ LCSMergeTrace(m, s) = h[Len(LCS(m, s))]
<1> DEFINE c == LCS(m, s)
           n == Len(c)
           i(k) == IF k = 0 THEN 0 ELSE c[k][1]
           j(k) == IF k = 0 THEN 0 ELSE c[k][2]
           X(k) == SubSeq(m, i(k - 1) + 1, i(k) - 1) \o SubSeq(s, j(k - 1) + 1, j(k) - 1) \o <<MergePair(m[i(k)], s[j(k)])>>
           seqs == [k \in DOMAIN c |-> X(k)]
<1>1. PairsOf(m, s, c)
  BY LCSTyped DEF TraceOf, EndedTraces
<1> HIDE DEF c
<1>2. n \in Nat /\ n >= 2 /\ DOMAIN c = 1..n /\ c[n] = <<Len(m), Len(s)>> /\ m \in Seq(Nodes) /\ Len(m) \in Nat
  BY <1>1 DEF PairsOf, Pairs, TraceOf
<1>3. LCSMergeTrace(m, s) = FlattenSeq(seqs) \o SubSeq(m, i(n) + 1, Len(m))
  BY DEF LCSMergeTrace, LCSDoMerge, c
<1>4. ASSUME NEW k \in 1..n PROVE X(k) = Chunk(m, s, c, k) /\ Chunk(m, s, c, k) \in Seq(Nodes)
  <2>1. k # 0 /\ (k - 1 = 0 <=> k = 1)
    BY <1>2
  <2>2. X(k) = Chunk(m, s, c, k)
    BY <2>1 DEF Chunk, Before, PairAt
  <2>3. Before(m, s, c, k) \in Seq(Nodes)
    BY <1>1, BeforeTyped
  <2>4. PairAt(m, s, c, k) \in Nodes
    <3>1. c[k][1] \in 1..Len(m) /\ c[k][2] \in 1..Len(s)
      BY <1>1 DEF PairsOf
    <3> QED BY <3>1, PairTyped DEF PairAt, PairsMerge
  <2>5. <<PairAt(m, s, c, k)>> \in Seq(Nodes)
    BY <2>4
  <2>6. Chunk(m, s, c, k) \in Seq(Nodes)
    BY <2>3, <2>5, ConcatProperties DEF Chunk
  <2> QED BY <2>2, <2>6
<1>5. i(n) = Len(m)
  BY <1>2
<1>6. SubSeq(m, i(n) + 1, Len(m)) = <<>>
  <2> DEFINE l == Len(m)
  <2>1. l + 1 \in Int /\ l \in Int /\ l < l + 1 /\ i(n) = l
    BY <1>2, <1>5
  <2> HIDE DEF l, i
  <2>2. SubSeq(m, l + 1, l) = <<>>
    BY <2>1, SubSeqEmpty
  <2>3. SubSeq(m, i(n) + 1, l) = <<>>
    BY <2>1, <2>2
  <2> QED BY <2>3 DEF l
<1> HIDE DEF n, i, j, X
<1>7. seqs \in Seq(Seq(Nodes)) /\ Len(seqs) = n /\ \A k \in 1..n : seqs[k] = Chunk(m, s, c, k)
  BY <1>2, <1>4
<1> HIDE DEF seqs
<1>8. PICK h : FlatOf(Nodes, seqs, h) /\ FlattenSeq(seqs) = h[n]
  <2>1. Len(seqs) # 0
    BY <1>2, <1>7
  <2> QED BY <1>7, <2>1, FlattenSteps
<1>9. MergeOf(m, s, c, h)
  BY <1>7, <1>8 DEF FlatOf, MergeOf, n
<1>10. LCSMergeTrace(m, s) = h[n]
  <2>1. h[n] \in Seq(Nodes)
    BY <1>2, <1>7, <1>8 DEF FlatOf
  <2>2. h[n] \o <<>> = h[n]
    BY <2>1, ConcatEmptySeq
  <2> QED BY <1>3, <1>6, <1>8, <2>2
<1> QED BY <1>1, <1>9, <1>10 DEF c, n

\* The nodes of the merge up to a pair.
Extends(x, y, p, t) ==
  /\ x \in Seq(Nodes) /\ t \in Seq(Nodes) /\ Len(x) \in Nat /\ Len(y) \in Nat
  /\ Len(t) = Len(x) + Len(y) + 1 /\ t[Len(t)] = p
  /\ \A l \in 1..Len(x) : t[l] = x[l]
  /\ \A l \in 1..Len(y) : t[Len(x) + l] = y[l]

LEMMA MergeNodes ==
  ASSUME NEW m, NEW s, NEW c, NEW h, MergeOf(m, s, c, h), Len(c) \in Nat, NEW k \in 1..Len(c),
         Before(m, s, c, k) \in Seq(Nodes), PairAt(m, s, c, k) \in Nodes
  PROVE  Extends(h[k - 1], Before(m, s, c, k), PairAt(m, s, c, k), h[k])
<1> DEFINE x == h[k - 1]
           y == Before(m, s, c, k)
           t == h[k]
           p == PairAt(m, s, c, k)
           z == y \o <<p>>
<1>1. x \in Seq(Nodes) /\ t \in Seq(Nodes) /\ t = x \o z
  <2>1. k - 1 \in 0..Len(c) /\ k \in 0..Len(c)
    OBVIOUS
  <2> QED BY <2>1 DEF MergeOf, Chunk
<1> HIDE DEF x, y, t, p
<1>2. /\ z \in Seq(Nodes) /\ Len(z) = Len(y) + 1 /\ z[Len(y) + 1] = p /\ \A l \in 1..Len(y) : z[l] = y[l]
      /\ Len(y) \in Nat
  <2>1. y \in Seq(Nodes) /\ p \in Nodes
    BY DEF y, p
  <2>2. <<p>> \in Seq(Nodes) /\ Len(<<p>>) = 1 /\ <<p>>[1] = p /\ Len(y) \in Nat
    BY <2>1
  <2>3. /\ z \in Seq(Nodes) /\ Len(z) = Len(y) + 1
        /\ \A l \in 1..(Len(y) + 1) : z[l] = IF l <= Len(y) THEN y[l] ELSE <<p>>[l - Len(y)]
    BY <2>1, <2>2, ConcatProperties
  <2> HIDE DEF z
  <2>4. z[Len(y) + 1] = p
    <3>1. Len(y) + 1 \in 1..(Len(y) + 1) /\ ~(Len(y) + 1 <= Len(y)) /\ (Len(y) + 1) - Len(y) = 1
      BY <2>2
    <3> QED BY <2>2, <2>3, <3>1
  <2>5. \A l \in 1..Len(y) : z[l] = y[l]
    <3> TAKE l \in 1..Len(y)
    <3>1. l \in 1..(Len(y) + 1) /\ l <= Len(y)
      BY <2>2
    <3> QED BY <2>3, <3>1
  <2> QED BY <2>2, <2>3, <2>4, <2>5
<1> HIDE DEF z
<1>3. /\ Len(t) = Len(x) + Len(z) /\ Len(x) \in Nat /\ Len(z) \in Nat
      /\ \A l \in 1..(Len(x) + Len(z)) : t[l] = IF l <= Len(x) THEN x[l] ELSE z[l - Len(x)]
  <2> DEFINE v == x \o z
  <2>1. v = t /\ x \in Seq(Nodes) /\ z \in Seq(Nodes)
    BY <1>1, <1>2
  <2>2. /\ Len(v) = Len(x) + Len(z)
        /\ \A l \in 1..(Len(x) + Len(z)) : v[l] = IF l <= Len(x) THEN x[l] ELSE z[l - Len(x)]
    BY <2>1, ConcatProperties
  <2> HIDE DEF v
  <2>3. Len(x) \in Nat /\ Len(z) \in Nat
    BY <2>1
  <2> QED BY <2>1, <2>2, <2>3
<1>4. Len(t) = Len(x) + Len(y) + 1
  BY <1>2, <1>3
<1>5. t[Len(t)] = p
  <2>1. Len(t) \in 1..(Len(x) + Len(z)) /\ ~(Len(t) <= Len(x)) /\ Len(t) - Len(x) = Len(y) + 1
    BY <1>2, <1>3
  <2> QED BY <1>2, <1>3, <2>1
<1>6. ASSUME NEW l \in 1..Len(x) PROVE t[l] = x[l]
  <2>1. l \in 1..(Len(x) + Len(z)) /\ l <= Len(x)
    BY <1>3
  <2> QED BY <1>3, <2>1
<1>7. ASSUME NEW l \in 1..Len(y) PROVE t[Len(x) + l] = y[l]
  <2>1. Len(x) + l \in 1..(Len(x) + Len(z)) /\ ~(Len(x) + l <= Len(x)) /\ (Len(x) + l) - Len(x) = l
    BY <1>2, <1>3
  <2> QED BY <1>2, <1>3, <2>1
<1> QED BY <1>1, <1>2, <1>3, <1>4, <1>5, <1>6, <1>7 DEF Extends, x, y, t, p

\* The merge up to the k-th pair: MPI_Init's node is its first only, and
\* MPI_Finalize's is there only with the last pair.
MergedTo(m, s, c, k, t, A) ==
  /\ t \in Seq(Nodes)
  /\ \A l \in 1..Len(t) : NodeWithin(t[l], A)
  /\ k >= 1 => Len(t) >= 1 /\ t[1] = PairAt(m, s, c, 1) /\ t[Len(t)] = PairAt(m, s, c, k)
  /\ k = 0 => Len(t) = 0
  /\ \A l \in 2..Len(t) : t[l].op # InitOp
  /\ \A l \in 1..Len(t) : t[l].op = FinalOp => l = Len(t) /\ k = Len(c)

LEMMA MergedPair ==
  ASSUME NEW A, NEW B, A \cap B = {}, NEW m, NEW s, TraceOf(m, A), TraceOf(s, B),
         NEW c, PairsOf(m, s, c), NEW h, MergeOf(m, s, c, h), NEW k \in 1..Len(c),
         MergedTo(m, s, c, k - 1, h[k - 1], A \cup B)
  PROVE  MergedTo(m, s, c, k, h[k], A \cup B)
<1> DEFINE x == h[k - 1]
           y == Before(m, s, c, k)
           t == h[k]
           p == PairAt(m, s, c, k)
           C == A \cup B
<1>0. PairsMerge(m, s, C)
  BY PairTyped
<1>1. Len(c) \in Nat /\ Len(c) >= 2 /\ k \in Nat /\ Len(m) \in Nat /\ Len(m) >= 2
  BY DEF PairsOf, Pairs, TraceOf, Ended
<1>2. /\ y \in Seq(Nodes) /\ (k = 1 => y = <<>>)
      /\ \A i \in 1..Len(y) : y[i].op \notin {InitOp, FinalOp} /\ (NodeWithin(y[i], A) \/ NodeWithin(y[i], B))
  BY BeforeTyped
<1>3. c[k][1] \in 1..Len(m) /\ c[k][2] \in 1..Len(s)
  BY DEF PairsOf
<1>4. NodeWithin(p, C) /\ p \in Nodes /\ p.op = m[c[k][1]].op
  <2> DEFINE i == c[k][1]
             j == c[k][2]
  <2>1. i \in 1..Len(m) /\ j \in 1..Len(s) /\ p = MergePair(m[i], s[j])
    BY <1>3 DEF PairAt
  <2> HIDE DEF i, j, p
  <2>2. NodeWithin(MergePair(m[i], s[j]), C) /\ MergePair(m[i], s[j]) \in Nodes
        /\ MergePair(m[i], s[j]).op = m[i].op
    BY <1>0, <2>1 DEF PairsMerge
  <2> QED BY <2>1, <2>2 DEF i
<1>5. k # 1 => p.op # InitOp
  <2> SUFFICES ASSUME k # 1 PROVE p.op # InitOp
    OBVIOUS
  <2>1. k \in 2..Len(c) /\ k - 1 \in 1..Len(c)
    BY <1>1
  <2>2. c[k - 1][1] < c[k][1] /\ c[k - 1][1] \in 1..Len(m)
    BY <2>1 DEF PairsOf
  <2>3. c[k][1] \in 2..(Len(m) - 1) \/ c[k][1] = Len(m)
    BY <1>1, <1>3, <2>2
  <2> QED BY <1>4, <2>3, OpsAssumption DEF TraceOf, Ended
<1>6. k # Len(c) => p.op # FinalOp
  <2> SUFFICES ASSUME k # Len(c) PROVE p.op # FinalOp
    OBVIOUS
  <2>1. k + 1 \in 2..Len(c) /\ k + 1 \in 1..Len(c) /\ (k + 1) - 1 = k
    BY <1>1
  <2>2. c[(k + 1) - 1][1] < c[k + 1][1] /\ c[k + 1][1] \in 1..Len(m)
    BY <2>1 DEF PairsOf
  <2>3. c[k][1] \in 2..(Len(m) - 1) \/ c[k][1] = 1
    BY <1>1, <1>3, <2>1, <2>2
  <2> QED BY <1>4, <2>3, OpsAssumption DEF TraceOf, Ended
<1>7. /\ x \in Seq(Nodes) /\ t \in Seq(Nodes) /\ Len(x) \in Nat /\ Len(y) \in Nat
      /\ Len(t) = Len(x) + Len(y) + 1 /\ t[Len(t)] = p
      /\ \A l \in 1..Len(x) : t[l] = x[l]
      /\ \A l \in 1..Len(y) : t[Len(x) + l] = y[l]
  <2>1. Extends(x, y, p, t)
    BY <1>1, <1>2, <1>4, MergeNodes
  <2> QED BY <2>1 DEF Extends
<1>8. /\ \A l \in 1..Len(x) : NodeWithin(x[l], C)
      /\ k - 1 >= 1 => Len(x) >= 1 /\ x[1] = PairAt(m, s, c, 1)
      /\ k - 1 = 0 => Len(x) = 0
      /\ \A l \in 2..Len(x) : x[l].op # InitOp
      /\ \A l \in 1..Len(x) : x[l].op = FinalOp => k - 1 = Len(c)
  BY DEF MergedTo
<1> HIDE DEF x, y, t, p
<1>9. \A l \in 1..Len(t) : l \in 1..Len(x) \/ (l - Len(x) \in 1..Len(y) /\ l = Len(x) + (l - Len(x))) \/ l = Len(t)
  <2> TAKE l \in 1..Len(t)
  <2>1. Len(x) \in Nat /\ Len(y) \in Nat /\ Len(t) = Len(x) + Len(y) + 1
    BY <1>7
  <2> QED BY <2>1
<1>10. ASSUME NEW l \in 1..Len(t) PROVE NodeWithin(t[l], C)
  <2>1. CASE l \in 1..Len(x)
    BY <1>7, <1>8, <2>1
  <2>2. CASE l - Len(x) \in 1..Len(y) /\ l = Len(x) + (l - Len(x))
    <3>1. t[l] = y[l - Len(x)]
      BY <1>7, <2>2
    <3>2. NodeWithin(y[l - Len(x)], A) \/ NodeWithin(y[l - Len(x)], B)
      BY <1>2, <2>2
    <3> QED BY <3>1, <3>2 DEF NodeWithin
  <2>3. CASE l = Len(t)
    BY <1>4, <1>7, <2>3
  <2> QED BY <1>9, <2>1, <2>2, <2>3
<1>11. Len(t) >= 1 /\ t[1] = PairAt(m, s, c, 1)
  <2>1. CASE k = 1
    <3>1. Len(x) = 0 /\ Len(y) = 0
      <4>1. y = <<>> /\ k - 1 = 0
        BY <1>2, <2>1
      <4> QED BY <1>8, <4>1
    <3>2. Len(t) = 1
      BY <1>7, <3>1
    <3>3. t[1] = p
      BY <1>7, <3>2
    <3> QED BY <2>1, <3>2, <3>3 DEF p
  <2>2. CASE k # 1
    <3>1. k - 1 >= 1
      BY <1>1, <2>2
    <3>2. 1 \in 1..Len(x) /\ Len(t) >= 1
      BY <1>7, <1>8, <3>1
    <3> QED BY <1>7, <1>8, <3>1, <3>2
  <2> QED BY <2>1, <2>2
<1>12. ASSUME NEW l \in 2..Len(t) PROVE t[l].op # InitOp
  <2>0. l \in 1..Len(t) /\ Len(t) \in Nat
    BY <1>7
  <2>1. CASE l \in 1..Len(x)
    BY <1>7, <1>8, <2>1
  <2>2. CASE l - Len(x) \in 1..Len(y) /\ l = Len(x) + (l - Len(x))
    <3>1. t[l] = y[l - Len(x)]
      BY <1>7, <2>2
    <3> QED BY <1>2, <2>2, <3>1
  <2>3. CASE l = Len(t)
    <3>1. k # 1
      <4>1. ASSUME k = 1 PROVE FALSE
        <5>1. Len(x) = 0 /\ Len(y) = 0
          <6>1. y = <<>> /\ k - 1 = 0
            BY <1>2, <4>1
          <6> QED BY <1>8, <6>1
        <5> QED BY <1>7, <2>3, <5>1
      <4> QED BY <4>1
    <3> QED BY <1>5, <1>7, <2>3, <3>1
  <2> QED BY <1>9, <2>0, <2>1, <2>2, <2>3
<1>13. ASSUME NEW l \in 1..Len(t), t[l].op = FinalOp PROVE l = Len(t) /\ k = Len(c)
  <2>1. CASE l \in 1..Len(x)
    <3>1. k - 1 = Len(c)
      BY <1>7, <1>8, <1>13, <2>1
    <3> QED BY <1>1, <3>1
  <2>2. CASE l - Len(x) \in 1..Len(y) /\ l = Len(x) + (l - Len(x))
    <3>1. t[l] = y[l - Len(x)]
      BY <1>7, <2>2
    <3> QED BY <1>2, <1>13, <2>2, <3>1
  <2>3. CASE l = Len(t)
    BY <1>6, <1>7, <1>13, <2>3
  <2> QED BY <1>9, <2>1, <2>2, <2>3
<1>14. k # 0
  OBVIOUS
<1> QED BY <1>7, <1>10, <1>11, <1>12, <1>13, <1>14 DEF MergedTo, t, p

\* The merge of two traces of disjoint sets of ranks is one of both sets.
LEMMA MergeTraceTyped ==
  ASSUME NEW A, NEW B, A \cap B = {}, NEW m, NEW s, TraceOf(m, A), TraceOf(s, B)
  PROVE  TraceOf(LCSMergeTrace(m, s), A \cup B)
<1> DEFINE c == LCS(m, s)
           n == Len(c)
           u == LCSMergeTrace(m, s)
           C == A \cup B
<1>1. PairsOf(m, s, c)
  BY MergeSteps
<1>2. PICK h : MergeOf(m, s, c, h) /\ u = h[n]
  BY MergeSteps
<1> HIDE DEF c, u
<1>3. n \in Nat /\ n >= 2 /\ c[1] = <<1, 1>> /\ c[n] = <<Len(m), Len(s)>>
  BY <1>1 DEF PairsOf, Pairs
<1> DEFINE P == {k \in 0..n : MergedTo(m, s, c, k, h[k], C)}
<1>4. 0 \in P
  <2>1. h[0] = <<>>
    BY <1>2 DEF MergeOf
  <2>2. <<>> \in Seq(Nodes) /\ Len(<<>>) = 0
    OBVIOUS
  <2>3. MergedTo(m, s, c, 0, h[0], C)
    BY <2>1, <2>2 DEF MergedTo
  <2> QED BY <1>3, <2>3
<1>5. ASSUME NEW k \in 1..n, k - 1 \in P PROVE k \in P
  <2>1. MergedTo(m, s, c, k - 1, h[k - 1], C) /\ k \in 0..n
    BY <1>3, <1>5
  <2> HIDE DEF C
  <2>2. MergedTo(m, s, c, k, h[k], C)
    BY <1>1, <1>2, <2>1, MergedPair DEF C
  <2> QED BY <2>1, <2>2
<1>6. \A k \in 0..n : k \in P
  <2> HIDE DEF P
  <2> QED BY <1>3, <1>4, <1>5, UpTo
<1>7. MergedTo(m, s, c, n, u, C)
  <2>0. n \in 0..n
    BY <1>3
  <2>1. n \in P
    <3> HIDE DEF P
    <3> QED BY <1>6, <2>0
  <2>2. MergedTo(m, s, c, n, h[n], C)
    BY <2>1
  <2> QED BY <1>2, <2>2
<1>8. /\ u \in Seq(Nodes) /\ Len(u) \in Nat /\ Len(u) >= 1
      /\ u[1] = PairAt(m, s, c, 1) /\ u[Len(u)] = PairAt(m, s, c, n)
  BY <1>3, <1>7 DEF MergedTo
<1>9. PairAt(m, s, c, 1) = MergePair(m[1], s[1]) /\ PairAt(m, s, c, n) = MergePair(m[Len(m)], s[Len(s)])
  BY <1>3 DEF PairAt
<1>10. NodeOf(u[1], C) /\ u[1].op = InitOp
  <2> DEFINE x == m[1]
             y == s[1]
  <2>1. NodeOf(x, A) /\ NodeOf(y, B) /\ x.op = InitOp
    BY DEF TraceOf, Ended
  <2> HIDE DEF x, y
  <2>2. NodeOf(MergePair(x, y), C) /\ MergePair(x, y).op = InitOp
    BY <2>1, MergePairTyped
  <2> QED BY <1>8, <1>9, <2>2 DEF x, y
<1>11. NodeOf(u[Len(u)], C) /\ u[Len(u)].op = FinalOp
  <2> DEFINE x == m[Len(m)]
             y == s[Len(s)]
  <2>1. NodeOf(x, A) /\ NodeOf(y, B) /\ x.op = FinalOp
    BY DEF TraceOf, Ended
  <2> HIDE DEF x, y
  <2>2. NodeOf(MergePair(x, y), C) /\ MergePair(x, y).op = FinalOp
    BY <2>1, MergePairTyped
  <2> QED BY <1>8, <1>9, <2>2 DEF x, y
<1>12. Len(u) >= 2
  <2>1. ASSUME Len(u) = 1 PROVE FALSE
    <3>1. u[1] = u[Len(u)]
      BY <2>1
    <3> QED BY <1>10, <1>11, <3>1, OpsAssumption
  <2> DEFINE l == Len(u)
  <2>2. l \in Nat /\ l >= 1 /\ l # 1
    BY <1>8, <2>1
  <2> HIDE DEF l
  <2>3. l >= 2
    BY <2>2
  <2> QED BY <2>3 DEF l
<1>13. ASSUME NEW l \in 2..(Len(u) - 1) PROVE u[l].op \notin {InitOp, FinalOp}
  <2>1. l \in 2..Len(u) /\ l \in 1..Len(u) /\ l # Len(u)
    BY <1>8
  <2> QED BY <1>7, <2>1 DEF MergedTo
<1>14. Ended(u)
  BY <1>10, <1>11, <1>12, <1>13 DEF Ended
<1>15. \A l \in 1..Len(u) : NodeWithin(u[l], C)
  BY <1>7 DEF MergedTo
<1> QED BY <1>8, <1>10, <1>11, <1>14, <1>15 DEF TraceOf, u
-----------------------------------------------------------------------------
(* The traces of the reduction. *)

\* Every step is one of the protocol, or leaves the protocol as it is.
LEMMA StepIsProtocolStep ==
  ASSUME [Next]_vars
  PROVE  [Protocol!Next]_(Protocol!vars)
<1>1. CASE UNCHANGED vars
  BY <1>1 DEF vars, protocolVars, Protocol!vars
<1>2. CASE Terminating
  BY <1>2 DEF Terminating, vars, protocolVars, Protocol!vars
<1>3. ASSUME NEW r \in Ranks, Step(r) PROVE Protocol!Next
  <2>1. CASE LeaveBarrier(r)
    BY <2>1, <1>3 DEF LeaveBarrier, Ranks, Protocol!Step, Protocol!Next
  <2>2. CASE ReceiveTrace(r)
    BY <2>2, <1>3 DEF ReceiveTrace, Ranks, Protocol!Step, Protocol!Next
  <2>3. CASE OutputTrace(r)
    BY <2>3, <1>3 DEF OutputTrace, Ranks, Protocol!Step, Protocol!Next
  <2>4. CASE OtherStep(r)
    BY <2>4, <1>3 DEF OtherStep, Ranks, Protocol!Step, Protocol!Next
  <2> QED BY <1>3, <2>1, <2>2, <2>3, <2>4 DEF Step
<1> QED BY <1>1, <1>2, <1>3 DEF Next

\* The exchange of traces in MPI_Finalize follows the protocol, whatever the
\* traces hold and however they are merged.
THEOREM ImplementsProtocol == Spec => Protocol!SafeSpec
<1>1. Init => Protocol!Init
  BY DEF Init
<1> QED BY <1>1, StepIsProtocolStep, PTL DEF Spec, Protocol!SafeSpec

\* The protocol is the one module Reduction_proofs is about.
LEMMA SameProtocol ==
  /\ Protocol!Init => R!Init
  /\ [Protocol!Next]_(Protocol!vars) => [R!Next]_(R!vars)
<1>1. Protocol!Init => R!Init
  BY DEF Protocol!Init, R!Init, Protocol!Ranks, R!Ranks
<1>2. \A r \in Ranks : Protocol!Step(r) => R!Step(r)
  <2> SUFFICES ASSUME NEW r \in Ranks, Protocol!Step(r) PROVE R!Step(r)
    OBVIOUS
  <2>1. Protocol!EnterBarrier(r) => R!EnterBarrier(r)
    BY DEF Protocol!EnterBarrier, R!EnterBarrier, Protocol!Go, R!Go
  <2>2. Protocol!LeaveBarrier(r) => R!LeaveBarrier(r)
    BY DEF Protocol!LeaveBarrier, R!LeaveBarrier, Protocol!Go, R!Go, Protocol!Ranks, R!Ranks
  <2>3. /\ Protocol!Child(r) = R!Child(r) /\ Protocol!AfterChild(r) = R!AfterChild(r)
        /\ Protocol!Waiting(r) = R!Waiting(r) /\ Protocol!GetParent(r) = R!GetParent(r)
    <3>1. Protocol!Child(r) = R!Child(r)
      BY DEF Protocol!Child, R!Child, Protocol!GetChild, R!GetChild, Protocol!GetMsb, R!GetMsb,
             Protocol!LEFT, R!LEFT, Protocol!RIGHT, R!RIGHT
    <3>2. Protocol!GetParent(r) = R!GetParent(r)
      BY DEF Protocol!GetParent, R!GetParent, Protocol!GetMsb, R!GetMsb
    <3>3. Protocol!AfterChild(r) = R!AfterChild(r)
      BY DEF Protocol!AfterChild, R!AfterChild
    <3>4. Protocol!Waiting(r) = R!Waiting(r)
      BY DEF Protocol!Waiting, R!Waiting
    <3> QED BY <3>1, <3>2, <3>3, <3>4
  <2>4. Protocol!NoChild(r) => R!NoChild(r)
    BY <2>3 DEF Protocol!NoChild, R!NoChild, Protocol!Go, R!Go
  <2>5. \A kind : Protocol!Receive(r, kind) => R!Receive(r, kind)
    BY <2>3 DEF Protocol!Receive, R!Receive
  <2>6. Protocol!ReceiveSize(r) => R!ReceiveSize(r)
    BY <2>5 DEF Protocol!ReceiveSize, R!ReceiveSize
  <2>7. Protocol!ReceiveTrace(r) => R!ReceiveTrace(r)
    BY <2>3, <2>5 DEF Protocol!ReceiveTrace, R!ReceiveTrace, Protocol!Go, R!Go
  <2>8. \A message : Protocol!Send(r, message) => R!Send(r, message)
    BY <2>3 DEF Protocol!Send, R!Send
  <2>9. Protocol!SendSize(r) => R!SendSize(r)
    BY <2>8 DEF Protocol!SendSize, R!SendSize, Protocol!Go, R!Go, Protocol!SizeMessage, R!SizeMessage
  <2>10. Protocol!SendTrace(r) => R!SendTrace(r)
    BY <2>8 DEF Protocol!SendTrace, R!SendTrace, Protocol!Go, R!Go, Protocol!TraceMessage, R!TraceMessage
  <2>11. Protocol!SendReturns(r) => R!SendReturns(r)
    BY DEF Protocol!SendReturns, R!SendReturns, Protocol!Go, R!Go
  <2>12. Protocol!OutputTrace(r) => R!OutputTrace(r)
    BY DEF Protocol!OutputTrace, R!OutputTrace, Protocol!Go, R!Go
  <2> QED BY <2>1, <2>2, <2>4, <2>6, <2>7, <2>9, <2>10, <2>11, <2>12 DEF Protocol!Step, R!Step
<1>3. Protocol!Next => R!Next
  BY <1>2 DEF Protocol!Next, R!Next, Ranks, Protocol!Ranks, R!Ranks
<1> QED BY <1>1, <1>3 DEF Protocol!vars, R!vars

\* What is proved of the protocol holds of the reduction of traces.
LEMMA ProtocolInvariant == ASSUME R!Tree(N) PROVE Spec => []R!PInv
<1>1. R!SafeSpec => []R!PInv
  BY R!ProtocolInductive, SizeAssumption
<1>2. Init => R!Init
  BY SameProtocol DEF Init
<1>3. [Next]_vars => [R!Next]_(R!vars)
  BY StepIsProtocolStep, SameProtocol
<1> QED BY <1>1, <1>2, <1>3, PTL DEF Spec, R!SafeSpec

\* A program's trace is that of its calls until the rank has left the barrier;
\* after that it is a whole trace, of the ranks whose calls it holds.
AtBarrier(r) == pc[r] \in {"call", "barrier"}
TraceInv ==
  /\ program \in [Ranks -> Programs] /\ DOMAIN trace = Ranks
  /\ \A r \in Ranks : AtBarrier(r) => held[r] = {r} /\ trace[r] = Recorded(program[r], r)
  /\ \A r \in Ranks : ~AtBarrier(r) => TraceOf(trace[r], held[r])


\* A trace received is the child's, which has left the barrier, and of none of
\* the ranks whose calls the receiver's own trace holds.
FromChild(r, child) ==
  /\ child \in Ranks /\ child # r /\ held[r] \cap held[child] = {}
  /\ held' = [held EXCEPT ![r] = held[r] \cup held[child]]
  /\ ~AtBarrier(child) /\ ~AtBarrier(r) /\ ~AtBarrier(r)'
  /\ \A q \in Ranks \ {r} : pc'[q] = pc[q]

LEMMA Received ==
  ASSUME R!Tree(N), R!PInv, NEW r \in Ranks, Protocol!ReceiveTrace(r)
  PROVE  FromChild(r, Protocol!Child(r))
<1> DEFINE child == Protocol!Child(r)
           m == Head(chan[child][r])
<1>1. /\ pc[r] \in {"left", "right"} /\ child < N /\ chan[child][r] # <<>> /\ m.kind = "trace"
      /\ held' = [held EXCEPT ![r] = held[r] \cup m.ranks]
      /\ pc' = [pc EXCEPT ![r] = Protocol!AfterChild(r)]
  BY DEF Protocol!ReceiveTrace, Protocol!Receive, Protocol!Waiting, Protocol!Go, R!PInv, R!Types, R!Ranks, Ranks, Protocol!Ranks
<1>2. child \in Ranks
  <2>1. r \in 0..(N - 1)
    BY DEF Ranks, Protocol!Ranks
  <2>2. R!GetChild(r, R!LEFT) \in Nat /\ R!GetChild(r, R!RIGHT) \in Nat
    BY <2>1 DEF R!Tree
  <2>3. child \in {R!GetChild(r, R!LEFT), R!GetChild(r, R!RIGHT)}
    BY DEF Protocol!Child, Protocol!GetChild, R!GetChild, Protocol!GetMsb, R!GetMsb,
           Protocol!LEFT, R!LEFT, Protocol!RIGHT, R!RIGHT
  <2>4. child \in Nat
    BY <2>2, <2>3
  <2> QED BY <1>1, <2>4, SizeAssumption DEF Ranks, Protocol!Ranks
<1> HIDE DEF child
<1>3. /\ chan[child][r] \in R!Shapes(child)
      /\ pc[child] \in R!Early => chan[child][r] = <<>>
      /\ pc[child] \in R!Labels /\ pc[r] \in R!Labels
  BY <1>2 DEF R!PInv, R!Channels, R!Types, Ranks, Protocol!Ranks, R!Ranks
<1>4. R!SizeMessage.kind = "size" /\ R!TheTrace(child).ranks = held[child]
  BY DEF R!SizeMessage, R!TheTrace, R!TraceMessage
<1>5. chan[child][r] = <<R!TheTrace(child)>>
  <2> DEFINE T == R!TheTrace(child)
             S == R!SizeMessage
  <2>1. chan[child][r] \in {<<>>, <<S>>, <<T>>, <<S, T>>}
    BY <1>3 DEF R!Shapes
  <2>2. m.kind # S.kind
    BY <1>1, <1>4
  <2> HIDE DEF T, S
  <2>3. Head(<<S>>) = S /\ Head(<<S, T>>) = S
    OBVIOUS
  <2> QED BY <1>1, <2>1, <2>2, <2>3 DEF T
<1>6. m.ranks = held[child]
  <2> DEFINE T == R!TheTrace(child)
  <2> HIDE DEF T
  <2>1. Head(<<T>>) = T
    OBVIOUS
  <2>2. m = T
    BY <1>5, <2>1 DEF T
  <2> QED BY <1>4, <2>2 DEF T
<1>7. pc[child] \notin R!Early
  BY <1>1, <1>3
<1>8. child # r /\ ~AtBarrier(child) /\ ~AtBarrier(r)
  BY <1>1, <1>7 DEF R!Early, AtBarrier
<1>9. held[r] \cap held[child] = {}
  <2>1. R!Live(r)
    BY <1>1 DEF R!Live, R!Keeps
  <2>2. R!Live(child)
    BY <1>5 DEF R!Live, R!HasTrace, Ranks, Protocol!Ranks, R!Ranks
  <2> QED BY <1>2, <1>8, <2>1, <2>2 DEF R!PInv, R!Apart, Ranks, Protocol!Ranks, R!Ranks
<1>10. pc \in [Ranks -> R!Labels]
  BY DEF R!PInv, R!Types, Ranks, Protocol!Ranks, R!Ranks
<1>11. ~AtBarrier(r)' /\ \A q \in Ranks \ {r} : pc'[q] = pc[q]
  BY <1>1, <1>10 DEF AtBarrier, Protocol!AfterChild
<1> QED BY <1>1, <1>2, <1>6, <1>8, <1>9, <1>11 DEF FromChild, child

LEMMA InitTraceInv == Init => TraceInv
BY DEF Init, Protocol!Init, TraceInv, AtBarrier, Ranks

\* The whole trace of a rank that leaves the barrier.
WholeTrace(calls, r) == Append(Recorded(calls, r), Node(FinalOp, <<0>>, r))

LEMMA WholeTraceOf ==
  ASSUME NEW r \in Ranks, NEW calls \in Programs
  PROVE  /\ Appended(Recorded(calls, r), Node(FinalOp, <<0>>, r)) = WholeTrace(calls, r)
         /\ OneTrace(WholeTrace(calls, r), {r}) /\ Ended(WholeTrace(calls, r))
         /\ TraceOf(WholeTrace(calls, r), {r})
<1> DEFINE t == WholeTrace(calls, r)
<1>1. /\ Appended(Recorded(calls, r), Node(FinalOp, <<0>>, r)) = t
      /\ OneTrace(t, {r}) /\ Ended(t)
  BY RecordedOne, FinalAppended DEF WholeTrace
<1> HIDE DEF t
<1>2. t \in Seq(Nodes) /\ Len(t) \in Nat /\ Len(t) >= 2 /\ DOMAIN t = 1..Len(t)
  BY <1>1 DEF OneTrace, Ended
<1>3. \A i \in 1..Len(t) : NodeOf(t[i], {r})
  <2> TAKE i \in 1..Len(t)
  <2>1. t[i] \in Nodes /\ OneNode(t[i], {r})
    <3>1. i \in DOMAIN t
      BY <1>2
    <3>2. t[i] \in Nodes
      BY <1>2
    <3> QED BY <1>1, <3>1, <3>2 DEF OneTrace
  <2> QED BY <2>1, OneNodeOf
<1>4. 1 \in 1..Len(t) /\ Len(t) \in 1..Len(t)
  BY <1>2
<1>5. TraceOf(t, {r})
  <2>1. \A i \in 1..Len(t) : NodeWithin(t[i], {r})
    BY <1>3 DEF NodeWithin
  <2> QED BY <1>1, <1>2, <1>3, <1>4, <2>1 DEF TraceOf
<1> QED BY <1>1, <1>5 DEF t

\* Every other step leaves traces and the sets of their ranks as they are.
Untouched == UNCHANGED <<held, program, trace>> /\ \A q \in Ranks : AtBarrier(q)' <=> AtBarrier(q)

LEMMA OtherSteps ==
  ASSUME pc \in [Ranks -> R!Labels], NEW r \in Ranks, OutputTrace(r) \/ OtherStep(r)
  PROVE  Untouched
<1>1. UNCHANGED <<held, program, trace>>
  BY DEF OutputTrace, OtherStep, Protocol!OutputTrace, Protocol!EnterBarrier, Protocol!NoChild,
              Protocol!ReceiveSize, Protocol!SendSize, Protocol!SendTrace, Protocol!SendReturns
<1>2. \A q \in Ranks : pc'[q] = pc[q] \/ (q = r /\ (AtBarrier(q)' <=> AtBarrier(q)))
  <2>1. CASE OutputTrace(r)
    BY <2>1 DEF OutputTrace, Protocol!OutputTrace, Protocol!Go, AtBarrier
  <2>2. CASE Protocol!EnterBarrier(r)
    BY <2>2 DEF Protocol!EnterBarrier, Protocol!Go, AtBarrier
  <2>3. CASE Protocol!NoChild(r)
    BY <2>3 DEF Protocol!NoChild, Protocol!Go, Protocol!AfterChild, Protocol!Waiting, AtBarrier
  <2>4. CASE Protocol!ReceiveSize(r)
    BY <2>4 DEF Protocol!ReceiveSize
  <2>5. CASE Protocol!SendSize(r)
    BY <2>5 DEF Protocol!SendSize, Protocol!Go, AtBarrier
  <2>6. CASE Protocol!SendTrace(r)
    BY <2>6 DEF Protocol!SendTrace, Protocol!Go, AtBarrier
  <2>7. CASE Protocol!SendReturns(r)
    BY <2>7 DEF Protocol!SendReturns, Protocol!Go, AtBarrier
  <2> QED BY <2>1, <2>2, <2>3, <2>4, <2>5, <2>6, <2>7 DEF OtherStep
<1>3. \A q \in Ranks : AtBarrier(q)' <=> AtBarrier(q)
  BY <1>2 DEF AtBarrier
<1> QED BY <1>1, <1>3 DEF Untouched

LEMMA StepTraceInv ==
  ASSUME R!Tree(N), R!PInv, TraceInv, [Next]_vars
  PROVE  TraceInv'
<1>0. /\ program \in [Ranks -> Programs] /\ DOMAIN trace = Ranks
      /\ \A r \in Ranks : AtBarrier(r) => held[r] = {r} /\ trace[r] = Recorded(program[r], r)
      /\ \A r \in Ranks : ~AtBarrier(r) => TraceOf(trace[r], held[r])
      /\ pc \in [Ranks -> R!Labels] /\ held \in [Ranks -> SUBSET Ranks]
  BY DEF TraceInv, R!PInv, R!Types, Ranks, Protocol!Ranks, R!Ranks
<1>1. CASE UNCHANGED vars \/ Terminating
  BY <1>0, <1>1 DEF vars, protocolVars, Terminating, TraceInv, AtBarrier
<1>2. ASSUME NEW r \in Ranks, LeaveBarrier(r) PROVE TraceInv'
  <2>1. /\ pc[r] = "barrier" /\ pc' = [pc EXCEPT ![r] = "left"] /\ held' = held
        /\ trace' = [trace EXCEPT ![r] = Appended(trace[r], Node(FinalOp, <<0>>, r))] /\ program' = program
    BY <1>2 DEF LeaveBarrier, Protocol!LeaveBarrier, Protocol!Go
  <2>2. trace[r] = Recorded(program[r], r) /\ held[r] = {r} /\ program[r] \in Programs
    BY <1>0, <2>1 DEF AtBarrier
  <2>3. trace'[r] = WholeTrace(program[r], r)
    BY <1>0, <2>1, <2>2, WholeTraceOf
  <2>4. TraceOf(trace'[r], {r})
    BY <2>2, <2>3, WholeTraceOf
  <2>5. \A q \in Ranks \ {r} : trace'[q] = trace[q] /\ pc'[q] = pc[q]
    BY <1>0, <2>1
  <2>6. pc'[r] = "left"
    BY <1>0, <2>1
  <2>7. ASSUME NEW q \in Ranks, AtBarrier(q)' PROVE held'[q] = {q} /\ trace'[q] = Recorded(program'[q], q)
    BY <1>0, <2>1, <2>5, <2>6, <2>7 DEF AtBarrier
  <2>8. ASSUME NEW q \in Ranks, ~AtBarrier(q)' PROVE TraceOf(trace'[q], held'[q])
    <3>1. CASE q = r
      BY <2>1, <2>2, <2>4, <3>1
    <3>2. CASE q # r
      BY <1>0, <2>1, <2>5, <2>8, <3>2 DEF AtBarrier
    <3> QED BY <3>1, <3>2
  <2> QED BY <1>0, <2>1, <2>7, <2>8 DEF TraceInv
<1>3. ASSUME NEW r \in Ranks, ReceiveTrace(r) PROVE TraceInv'
  <2> DEFINE child == Protocol!Child(r)
  <2>1. trace' = [trace EXCEPT ![r] = LCSMergeTrace(trace[r], trace[child])] /\ program' = program
    BY <1>3 DEF ReceiveTrace
  <2>2. FromChild(r, child)
    BY <1>3, Received DEF ReceiveTrace
  <2> HIDE DEF child
  <2>3. TraceOf(trace[r], held[r]) /\ TraceOf(trace[child], held[child]) /\ held[r] \cap held[child] = {}
    BY <1>0, <2>2 DEF FromChild
  <2>4. trace'[r] = LCSMergeTrace(trace[r], trace[child]) /\ held'[r] = held[r] \cup held[child]
    BY <1>0, <2>1, <2>2 DEF FromChild
  <2>5. TraceOf(trace'[r], held'[r])
    BY <2>3, <2>4, MergeTraceTyped
  <2>6. \A q \in Ranks \ {r} : trace'[q] = trace[q] /\ held'[q] = held[q] /\ pc'[q] = pc[q]
    BY <1>0, <2>1, <2>2 DEF FromChild
  <2>7. ~AtBarrier(r)' /\ \A q \in Ranks \ {r} : (AtBarrier(q)' <=> AtBarrier(q))
    BY <2>2, <2>6 DEF FromChild, AtBarrier
  <2>8. ASSUME NEW q \in Ranks, AtBarrier(q)' PROVE held'[q] = {q} /\ trace'[q] = Recorded(program'[q], q)
    BY <1>0, <2>1, <2>6, <2>7, <2>8
  <2>9. ASSUME NEW q \in Ranks, ~AtBarrier(q)' PROVE TraceOf(trace'[q], held'[q])
    <3>1. CASE q = r
      BY <2>5, <3>1
    <3>2. CASE q # r
      BY <1>0, <2>6, <2>7, <2>9, <3>2
    <3> QED BY <3>1, <3>2
  <2> QED BY <1>0, <2>1, <2>8, <2>9 DEF TraceInv
<1>4. ASSUME NEW r \in Ranks, OutputTrace(r) \/ OtherStep(r) PROVE TraceInv'
  BY <1>0, <1>4, OtherSteps DEF Untouched, TraceInv
<1> QED BY <1>1, <1>2, <1>3, <1>4 DEF Next, Step

\* The traces keep their form.
LEMMA TracesMerge == ASSUME R!Tree(N) PROVE Spec => [](R!PInv /\ TraceInv)
<1>1. R!PInv /\ TraceInv /\ [Next]_vars => TraceInv'
  BY StepTraceInv
<1> QED BY <1>1, InitTraceInv, ProtocolInvariant, PTL DEF Spec

\* Type correctness of the traces of any number of ranks that form a tree, and
\* of any programs: whatever traces are merged, each parameter of a node has
\* values for each of the node's ranks, and for none of them twice.
THEOREM TracesTyped == ASSUME R!Tree(N) PROVE Spec => []TypeOK
<1>1. Spec => []R!TypeOK
  <2>1. R!SafeSpec => []R!TypeOK
    BY R!ProtocolTyped, SizeAssumption
  <2>2. Init => R!Init
    BY SameProtocol DEF Init
  <2>3. [Next]_vars => [R!Next]_(R!vars)
    BY StepIsProtocolStep, SameProtocol
  <2> QED BY <2>1, <2>2, <2>3, PTL DEF Spec, R!SafeSpec
<1>2. R!TypeOK => Protocol!TypeOK
  BY DEF R!TypeOK, Protocol!TypeOK, R!Ranks, Protocol!Ranks, R!Messages, Protocol!Messages,
         R!SizeMessage, Protocol!SizeMessage, R!Waiting, Protocol!Waiting
<1>3. ASSUME TraceInv PROVE \A r \in Ranks : \A i \in DOMAIN trace[r] : IsNode(trace[r][i])
  <2> SUFFICES ASSUME NEW r \in Ranks, NEW i \in DOMAIN trace[r] PROVE IsNode(trace[r][i])
    OBVIOUS
  <2>1. \E A : NodeOf(trace[r][i], A)
    <3>1. CASE AtBarrier(r)
      <4>1. program[r] \in Programs /\ trace[r] = Recorded(program[r], r)
        BY <1>3, <3>1 DEF TraceInv
      <4>2. OneTrace(trace[r], {r})
        BY <4>1, RecordedOne
      <4>3. trace[r][i] \in Nodes /\ OneNode(trace[r][i], {r})
        <5> DEFINE t == trace[r]
        <5>1. t \in Seq(Nodes) /\ \A k \in DOMAIN t : OneNode(t[k], {r})
          BY <4>2 DEF OneTrace
        <5> HIDE DEF t
        <5>2. DOMAIN t = 1..Len(t) /\ \A k \in 1..Len(t) : t[k] \in Nodes
          BY <5>1
        <5> QED BY <5>1, <5>2 DEF t
      <4> QED BY <4>3, OneNodeOf
    <3>2. CASE ~AtBarrier(r)
      <4>1. TraceOf(trace[r], held[r])
        BY <1>3, <3>2 DEF TraceInv
      <4>2. i \in 1..Len(trace[r])
        BY <4>1 DEF TraceOf
      <4>3. NodeWithin(trace[r][i], held[r])
        BY <4>1, <4>2 DEF TraceOf
      <4> QED BY <4>3 DEF NodeWithin
    <3> QED BY <3>1, <3>2
  <2> QED BY <2>1, NodeOfIsNode
<1>4. R!TypeOK /\ TraceInv => TypeOK
  BY <1>2, <1>3 DEF TypeOK, TraceInv
<1> QED BY <1>1, <1>4, TracesMerge, PTL

\* The first and the last node of a trace are of the ranks whose calls it holds.
LEMMA EndsOfTraces ==
  ASSUME TraceInv, NEW r \in Ranks
  PROVE  /\ trace[r][1].ranks = held[r] /\ Last(trace[r]).ranks \subseteq held[r]
         /\ ~AtBarrier(r) => Last(trace[r]).ranks = held[r]
<1>1. CASE AtBarrier(r)
  <2> DEFINE t == trace[r]
  <2>1. program[r] \in Programs /\ t = Recorded(program[r], r) /\ held[r] = {r}
    BY <1>1 DEF TraceInv
  <2>2. OneTrace(t, {r}) /\ Begun(t)
    BY <2>1, RecordedOne
  <2> HIDE DEF t
  <2>3. 1 \in DOMAIN t /\ Len(t) \in DOMAIN t
    BY <2>2, EmptySeq DEF OneTrace
  <2>4. t[1].ranks = {r} /\ Last(t).ranks = {r}
    BY <2>2, <2>3 DEF OneTrace, OneNode, Last
  <2> QED BY <2>1, <2>4, <1>1 DEF AtBarrier, t
<1>2. CASE ~AtBarrier(r)
  <2>1. TraceOf(trace[r], held[r])
    BY <1>2 DEF TraceInv
  <2> QED BY <2>1 DEF TraceOf, NodeOf, Last
<1> QED BY <1>1, <1>2
-----------------------------------------------------------------------------
(* Traces of different ranks that made the same calls. *)

\* What two traces of one value list per parameter have in common when they
\* differ in nothing but the ranks.
AlikeParam(a, b) == a[1].vals = b[1].vals /\ a[1].iters = b[1].iters
AlikeItem(x, y) == AlikeParam(x.mem, y.mem) /\ AlikeParam(x.iter, y.iter)
AlikeLoops(l, o) == Len(l) = Len(o) /\ \A d \in 1..Len(l) : AlikeItem(l[d], o[d])
AlikeNode(x, y) ==
  /\ x.op = y.op /\ x.member = y.member
  /\ AlikeParam(x.count, y.count) /\ AlikeParam(x.values, y.values)
  /\ AlikeLoops(x.loops, y.loops)
Alike(t, u) == Len(t) = Len(u) /\ \A i \in 1..Len(t) : AlikeNode(t[i], u[i])

LEMMA AlikeSymmetric == ASSUME NEW t, NEW u, Alike(t, u) PROVE Alike(u, t)
BY DEF Alike, AlikeNode, AlikeLoops, AlikeItem, AlikeParam

LEMMA AlikeTransitive == ASSUME NEW t, NEW u, NEW v, Alike(t, u), Alike(u, v) PROVE Alike(t, v)
<1>1. \A l, m, o : AlikeLoops(l, m) /\ AlikeLoops(m, o) => AlikeLoops(l, o)
  BY DEF AlikeLoops, AlikeItem, AlikeParam
<1>2. \A x, y, z : AlikeNode(x, y) /\ AlikeNode(y, z) => AlikeNode(x, z)
  BY <1>1 DEF AlikeNode, AlikeParam
<1> QED BY <1>2 DEF Alike

\* What ranks saw after what does not depend on the ranks.
LEMMA ThenAlike ==
  ASSUME NEW p \in Values, NEW q \in Values, NEW v \in Values, NEW w \in Values,
         p.vals = v.vals, p.iters = v.iters, q.vals = w.vals, q.iters = w.iters
  PROVE  Then(p, q).vals = Then(v, w).vals /\ Then(p, q).iters = Then(v, w).iters
<1>1. CASE p.vals = q.vals
  <2>1. Then(p, q) = [p EXCEPT !.iters = p.iters + q.iters] /\ Then(v, w) = [v EXCEPT !.iters = v.iters + w.iters]
    BY <1>1 DEF Then
  <2> QED BY <2>1 DEF Values
<1>2. CASE p.vals # q.vals
  <2>1. Expand(p) = Expand(v) /\ Expand(q) = Expand(w)
    BY DEF Expand
  <2> DEFINE s == Expand(p) \o Expand(q)
  <2>2. Then(p, q) = Compressed(s, p.ranks) /\ Then(v, w) = Compressed(s, v.ranks)
    BY <1>2, <2>1 DEF Then
  <2> HIDE DEF s
  <2>3. \A r : Compressed(s, r).vals = SubSeq(s, 1, Period(s)) /\ Compressed(s, r).iters = Len(s) \div Period(s)
    BY DEF Compressed
  <2> QED BY <2>2, <2>3
<1> QED BY <1>1, <1>2

LEMMA MergeAlike ==
  ASSUME NEW A, NEW a \in Parameters, NEW b \in Parameters, One(a, A), One(b, A),
         NEW B, NEW c \in Parameters, NEW d \in Parameters, One(c, B), One(d, B),
         AlikeParam(a, c), AlikeParam(b, d)
  PROVE  AlikeParam(MergeParam(a, b), MergeParam(c, d))
<1> DEFINE x == Then(a[1], b[1])
           y == Then(c[1], d[1])
<1>1. MergeParam(a, b) = <<x>> /\ MergeParam(c, d) = <<y>>
  BY MergeOne
<1>2. a[1] \in Values /\ b[1] \in Values /\ c[1] \in Values /\ d[1] \in Values
  BY DEF One, Parameters
<1>3. x.vals = y.vals /\ x.iters = y.iters
  BY <1>2, ThenAlike DEF AlikeParam
<1> HIDE DEF x, y
<1> QED BY <1>1, <1>3 DEF AlikeParam

LEMMA IncrementAlike ==
  ASSUME NEW A, NEW a \in Parameters, One(a, A), NEW B, NEW b \in Parameters, One(b, B), AlikeParam(a, b)
  PROVE  AlikeParam(Increment(a), Increment(b))
<1>1. /\ a \in Seq(Values) /\ b \in Seq(Values) /\ a[1] \in Values /\ b[1] \in Values
      /\ 1 \in DOMAIN a /\ 1 \in DOMAIN b
  BY DEF One, Parameters
<1> DEFINE w == [a[1].vals EXCEPT ![1] = a[1].vals[1] + 1]
<1>2. Increment(a) = [a EXCEPT ![1] = [a[1] EXCEPT !.vals = w]]
  BY <1>1 DEF Increment
<1>3. Increment(b) = [b EXCEPT ![1] = [b[1] EXCEPT !.vals = w]]
  BY <1>1 DEF Increment, AlikeParam
<1> HIDE DEF w
<1>4. Increment(a)[1] = [a[1] EXCEPT !.vals = w] /\ Increment(b)[1] = [b[1] EXCEPT !.vals = w]
  BY <1>1, <1>2, <1>3
<1> QED BY <1>1, <1>4 DEF AlikeParam, Values

LEMMA MergeLoopsAlike ==
  ASSUME NEW A, NEW l, NEW o, OneLoops(l, A), OneLoops(o, A), Len(o) <= Len(l),
         NEW B, NEW m, NEW p, OneLoops(m, B), OneLoops(p, B), AlikeLoops(l, m), AlikeLoops(o, p)
  PROVE  AlikeLoops(MergeLoops(l, o), MergeLoops(m, p))
<1>1. /\ Len(l) \in Nat /\ Len(o) \in Nat /\ Len(m) = Len(l) /\ Len(p) = Len(o)
      /\ DOMAIN l = 1..Len(l) /\ DOMAIN m = 1..Len(l) /\ DOMAIN o = 1..Len(o) /\ DOMAIN p = 1..Len(o)
  BY DEF OneLoops, AlikeLoops
<1>2. Len(MergeLoops(l, o)) = Len(l) /\ Len(MergeLoops(m, p)) = Len(l)
  BY <1>1, MergeLoopsOne
<1>3. ASSUME NEW i \in 1..Len(l) PROVE AlikeItem(MergeLoops(l, o)[i], MergeLoops(m, p)[i])
  <2>0. AlikeItem(l[i], m[i]) /\ OneItem(l[i], A) /\ OneItem(m[i], B) /\ l[i] \in LoopItems /\ m[i] \in LoopItems
    BY <1>1 DEF OneLoops, AlikeLoops
  <2> DEFINE k == i - (Len(l) - Len(o))
  <2>1. CASE i <= Len(l) - Len(o)
    <3>1. MergeLoops(l, o)[i] = l[i] /\ MergeLoops(m, p)[i] = m[i]
      BY <1>1, <2>1 DEF MergeLoops
    <3> QED BY <2>0, <3>1
  <2>2. CASE ~(i <= Len(l) - Len(o))
    <3>1. /\ MergeLoops(l, o)[i] = [mem |-> MergeParam(l[i].mem, o[k].mem), iter |-> MergeParam(l[i].iter, o[k].iter)]
          /\ MergeLoops(m, p)[i] = [mem |-> MergeParam(m[i].mem, p[k].mem), iter |-> MergeParam(m[i].iter, p[k].iter)]
      BY <1>1, <2>2 DEF MergeLoops
    <3>2. k \in 1..Len(o)
      BY <1>1, <2>2
    <3> HIDE DEF k
    <3>3. AlikeItem(o[k], p[k]) /\ OneItem(o[k], A) /\ OneItem(p[k], B) /\ o[k] \in LoopItems /\ p[k] \in LoopItems
      BY <1>1, <3>2 DEF OneLoops, AlikeLoops
    <3>4. /\ l[i].mem \in Parameters /\ m[i].mem \in Parameters /\ o[k].mem \in Parameters /\ p[k].mem \in Parameters
          /\ l[i].iter \in Parameters /\ m[i].iter \in Parameters /\ o[k].iter \in Parameters /\ p[k].iter \in Parameters
      BY <2>0, <3>3 DEF LoopItems
    <3>5. AlikeParam(MergeParam(l[i].mem, o[k].mem), MergeParam(m[i].mem, p[k].mem))
      BY <2>0, <3>3, <3>4, MergeAlike DEF AlikeItem, OneItem
    <3>6. AlikeParam(MergeParam(l[i].iter, o[k].iter), MergeParam(m[i].iter, p[k].iter))
      BY <2>0, <3>3, <3>4, MergeAlike DEF AlikeItem, OneItem
    <3> QED BY <3>1, <3>5, <3>6 DEF AlikeItem
  <2> QED BY <2>1, <2>2
<1> QED BY <1>2, <1>3 DEF AlikeLoops

\* A node's own rank does not matter to what it becomes.
LEMMA MergeNodeAlike ==
  ASSUME NEW A, NEW x \in Nodes, NEW y \in Nodes, OneNode(x, A), OneNode(y, A), Depth(y) <= Depth(x),
         NEW B, NEW v \in Nodes, NEW w \in Nodes, OneNode(v, B), OneNode(w, B), AlikeNode(x, v), AlikeNode(y, w)
  PROVE  AlikeNode(MergeNode(x, y), MergeNode(v, w))
<1>1. /\ AlikeParam(MergeParam(x.count, y.count), MergeParam(v.count, w.count))
      /\ AlikeParam(MergeParam(x.values, y.values), MergeParam(v.values, w.values))
  BY NodeTyped, MergeAlike DEF OneNode, AlikeNode
<1>2. AlikeLoops(MergeLoops(x.loops, y.loops), MergeLoops(v.loops, w.loops))
  <2>1. OneLoops(x.loops, A) /\ OneLoops(y.loops, A) /\ OneLoops(v.loops, B) /\ OneLoops(w.loops, B)
        /\ Len(y.loops) <= Len(x.loops) /\ AlikeLoops(x.loops, v.loops) /\ AlikeLoops(y.loops, w.loops)
    BY NodeTyped DEF OneNode, OneLoops, AlikeNode
  <2> QED BY <2>1, MergeLoopsAlike
<1>3. /\ MergeNode(x, y).op = x.op /\ MergeNode(x, y).member = x.member
      /\ MergeNode(x, y).count = MergeParam(x.count, y.count)
      /\ MergeNode(x, y).values = MergeParam(x.values, y.values)
      /\ MergeNode(x, y).loops = MergeLoops(x.loops, y.loops)
  BY DEF MergeNode, Nodes
<1>4. /\ MergeNode(v, w).op = v.op /\ MergeNode(v, w).member = v.member
      /\ MergeNode(v, w).count = MergeParam(v.count, w.count)
      /\ MergeNode(v, w).values = MergeParam(v.values, w.values)
      /\ MergeNode(v, w).loops = MergeLoops(v.loops, w.loops)
  BY DEF MergeNode, Nodes
<1> QED BY <1>1, <1>2, <1>3, <1>4 DEF AlikeNode

LEMMA InFront ==
  ASSUME NEW S, NEW s \in Seq(S), NEW a
  PROVE  Len(<<a>> \o s) = Len(s) + 1 /\ \A d \in 1..(Len(s) + 1) : (<<a>> \o s)[d] = IF d = 1 THEN a ELSE s[d - 1]
<1> DEFINE T == S \cup {a}
           u == <<a>>
<1>1. u \in Seq(T) /\ s \in Seq(T) /\ Len(u) = 1 /\ u[1] = a /\ Len(s) \in Nat
  OBVIOUS
<1> HIDE DEF u, T
<1>2. /\ Len(u \o s) = Len(u) + Len(s)
      /\ \A d \in 1..(Len(u) + Len(s)) : (u \o s)[d] = IF d <= Len(u) THEN u[d] ELSE s[d - Len(u)]
  BY <1>1, ConcatProperties
<1>3. \A d \in 1..(Len(s) + 1) : (u \o s)[d] = IF d = 1 THEN a ELSE s[d - 1]
  <2> TAKE d \in 1..(Len(s) + 1)
  <2>1. d \in 1..(Len(u) + Len(s)) /\ (d <= Len(u) <=> d = 1)
    BY <1>1
  <2> QED BY <1>1, <1>2, <2>1
<1>4. Len(u \o s) = Len(s) + 1
  BY <1>1, <1>2
<1> QED BY <1>3, <1>4 DEF u

LEMMA HeadLoopsAlike ==
  ASSUME NEW A \in SUBSET Ranks, NEW x \in Nodes, NEW y \in Nodes, OneNode(x, A), OneNode(y, A), NEW length \in Int,
         Depth(x) = Depth(y) \/ Depth(x) = Depth(y) + 1,
         NEW B \in SUBSET Ranks, NEW v \in Nodes, NEW w \in Nodes, OneNode(v, B), OneNode(w, B),
         AlikeNode(x, v), AlikeNode(y, w)
  PROVE  AlikeLoops(HeadLoops(x, y, length), HeadLoops(v, w, length))
<1> DEFINE l == MergeLoops(x.loops, y.loops)
           m == MergeLoops(v.loops, w.loops)
<1>1. /\ OneLoops(x.loops, A) /\ OneLoops(y.loops, A) /\ OneLoops(v.loops, B) /\ OneLoops(w.loops, B)
      /\ Depth(x) = Len(x.loops) /\ Depth(y) = Len(y.loops) /\ Depth(v) = Len(v.loops) /\ Depth(w) = Len(w.loops)
      /\ Depth(y) \in Nat /\ Depth(x) \in Nat
      /\ AlikeLoops(x.loops, v.loops) /\ AlikeLoops(y.loops, w.loops)
  BY NodeTyped DEF OneNode, OneLoops, AlikeNode
<1>2. Depth(v) = Depth(x) /\ Depth(w) = Depth(y) /\ Depth(y) <= Depth(x)
  BY <1>1 DEF AlikeLoops
<1>3. OneLoops(l, A) /\ OneLoops(m, B) /\ AlikeLoops(l, m) /\ Len(l) = Depth(x) /\ Len(m) = Depth(x)
  <2>1. Len(y.loops) <= Len(x.loops) /\ Len(w.loops) <= Len(v.loops)
    BY <1>1, <1>2
  <2>2. OneLoops(l, A) /\ Len(l) = Depth(x)
    BY <1>1, <2>1, MergeLoopsOne
  <2>3. OneLoops(m, B) /\ Len(m) = Depth(x)
    BY <1>1, <1>2, <2>1, MergeLoopsOne
  <2>4. AlikeLoops(l, m)
    BY <1>1, <2>1, MergeLoopsAlike
  <2> QED BY <2>2, <2>3, <2>4
<1> HIDE DEF l, m
<1>4. CASE Depth(x) = Depth(y)
  <2> DEFINE a == [mem |-> Single(<<length>>, A), iter |-> Single(<<2>>, A)]
             b == [mem |-> Single(<<length>>, B), iter |-> Single(<<2>>, B)]
  <2>1. HeadLoops(x, y, length) = <<a>> \o l /\ HeadLoops(v, w, length) = <<b>> \o m
    BY <1>2, <1>4 DEF HeadLoops, InsertLoop, OneNode, l, m
  <2>2. AlikeItem(a, b)
    BY DEF AlikeItem, AlikeParam, Single
  <2> HIDE DEF a, b
  <2>3. /\ l \in Seq(LoopItems) /\ m \in Seq(LoopItems) /\ Len(m) = Len(l)
        /\ \A d \in 1..Len(l) : AlikeItem(l[d], m[d])
    BY <1>3 DEF OneLoops, AlikeLoops
  <2>4. /\ Len(<<a>> \o l) = Len(l) + 1 /\ Len(<<b>> \o m) = Len(l) + 1
        /\ \A d \in 1..(Len(l) + 1) : (<<a>> \o l)[d] = IF d = 1 THEN a ELSE l[d - 1]
        /\ \A d \in 1..(Len(l) + 1) : (<<b>> \o m)[d] = IF d = 1 THEN b ELSE m[d - 1]
    <3>1. /\ Len(<<a>> \o l) = Len(l) + 1
          /\ \A d \in 1..(Len(l) + 1) : (<<a>> \o l)[d] = IF d = 1 THEN a ELSE l[d - 1]
      BY <2>3, InFront
    <3>2. /\ Len(<<b>> \o m) = Len(m) + 1
          /\ \A d \in 1..(Len(m) + 1) : (<<b>> \o m)[d] = IF d = 1 THEN b ELSE m[d - 1]
      BY <2>3, InFront
    <3> QED BY <2>3, <3>1, <3>2
  <2>5. \A d \in 1..(Len(l) + 1) : AlikeItem((<<a>> \o l)[d], (<<b>> \o m)[d])
    <3> TAKE d \in 1..(Len(l) + 1)
    <3>1. d = 1 \/ (d # 1 /\ d - 1 \in 1..Len(l))
      BY <2>3
    <3> QED BY <2>2, <2>3, <2>4, <3>1
  <2> QED BY <2>1, <2>4, <2>5 DEF AlikeLoops
<1>5. CASE Depth(x) = Depth(y) + 1
  <2>1. Depth(x) # Depth(y) /\ Depth(x) - Depth(y) = 1
    BY <1>1, <1>5
  <2>2. HeadLoops(x, y, length) = [l EXCEPT ![1].iter = Increment(@)]
    BY <2>1 DEF HeadLoops, l
  <2>3. HeadLoops(v, w, length) = [m EXCEPT ![1].iter = Increment(@)]
    BY <1>2, <2>1 DEF HeadLoops, m
  <2>4. /\ l \in Seq(LoopItems) /\ m \in Seq(LoopItems) /\ Len(m) = Len(l)
        /\ \A d \in 1..Len(l) : AlikeItem(l[d], m[d]) /\ OneItem(l[d], A) /\ OneItem(m[d], B)
    BY <1>3 DEF OneLoops, AlikeLoops
  <2>5. Len(l) \in Nat /\ 1 \in 1..Len(l) /\ DOMAIN l = 1..Len(l) /\ DOMAIN m = 1..Len(l)
        /\ l[1] \in LoopItems /\ m[1] \in LoopItems
    <3>1. Len(l) \in Nat /\ 1 \in 1..Len(l)
      BY <1>1, <1>3, <1>5
    <3> QED BY <2>4, <3>1
  <2> DEFINE a == [l[1] EXCEPT !.iter = Increment(l[1].iter)]
             b == [m[1] EXCEPT !.iter = Increment(m[1].iter)]
  <2>6. AlikeItem(a, b)
    <3>1. /\ l[1].iter \in Parameters /\ m[1].iter \in Parameters /\ One(l[1].iter, A) /\ One(m[1].iter, B)
          /\ AlikeParam(l[1].iter, m[1].iter)
      BY <2>4, <2>5 DEF LoopItems, OneItem, AlikeItem
    <3>2. AlikeParam(Increment(l[1].iter), Increment(m[1].iter))
      BY <3>1, IncrementAlike
    <3>3. a.mem = l[1].mem /\ b.mem = m[1].mem /\ a.iter = Increment(l[1].iter) /\ b.iter = Increment(m[1].iter)
      BY <2>5 DEF LoopItems
    <3> QED BY <2>4, <2>5, <3>2, <3>3 DEF AlikeItem
  <2>7. HeadLoops(x, y, length) = [l EXCEPT ![1] = a] /\ HeadLoops(v, w, length) = [m EXCEPT ![1] = b]
    BY <2>2, <2>3, <2>5
  <2> HIDE DEF a, b
  <2>8. /\ Len([l EXCEPT ![1] = a]) = Len(l) /\ Len([m EXCEPT ![1] = b]) = Len(l)
        /\ \A d \in 1..Len(l) : [l EXCEPT ![1] = a][d] = IF d = 1 THEN a ELSE l[d]
        /\ \A d \in 1..Len(l) : [m EXCEPT ![1] = b][d] = IF d = 1 THEN b ELSE m[d]
    BY <2>4, <2>5
  <2>9. \A d \in 1..Len(l) : AlikeItem([l EXCEPT ![1] = a][d], [m EXCEPT ![1] = b][d])
    BY <2>4, <2>6, <2>8
  <2> QED BY <2>7, <2>8, <2>9 DEF AlikeLoops
<1> QED BY <1>4, <1>5

\* Whether nodes match does not depend on the rank either.
LEMMA LoopMatchAlike ==
  ASSUME NEW x \in Nodes, NEW y \in Nodes, NEW v \in Nodes, NEW w \in Nodes,
         AlikeNode(x, v), AlikeNode(y, w), NEW depth \in Nat, NEW length, LoopMatch(x, y, depth, length)
  PROVE  LoopMatch(v, w, depth, length) /\ Depth(v) = Depth(x) /\ Depth(w) = Depth(y)
<1> DEFINE m == Depth(x)
           t == Depth(y)
<1>1. m \in Nat /\ t \in Nat /\ Depth(v) = m /\ Depth(w) = t
  BY NodeTyped DEF AlikeNode, AlikeLoops
<1>2. m - t \in {0, 1} /\ depth <= t
  BY DEF LoopMatch
<1>3. \A i \in 1..m : /\ Scalar(v.loops[i].mem) = Scalar(x.loops[i].mem)
                       /\ Scalar(v.loops[i].iter) = Scalar(x.loops[i].iter)
  BY NodeTyped DEF AlikeNode, AlikeLoops, AlikeItem, AlikeParam, Scalar
<1>4. \A i \in 1..t : /\ Scalar(w.loops[i].mem) = Scalar(y.loops[i].mem)
                       /\ Scalar(w.loops[i].iter) = Scalar(y.loops[i].iter)
  BY NodeTyped DEF AlikeNode, AlikeLoops, AlikeItem, AlikeParam, Scalar
<1>5. /\ \A c \in 0..(depth - 1) :
           /\ Scalar(x.loops[m - c].mem) = Scalar(y.loops[t - c].mem)
           /\ Scalar(x.loops[m - c].iter) = Scalar(y.loops[t - c].iter)
      /\ m > depth => Scalar(x.loops[m - depth].mem) = length
  BY DEF LoopMatch
<1> HIDE DEF m, t
<1>6. ASSUME NEW c \in 0..(depth - 1)
      PROVE  /\ Scalar(v.loops[m - c].mem) = Scalar(w.loops[t - c].mem)
             /\ Scalar(v.loops[m - c].iter) = Scalar(w.loops[t - c].iter)
  <2>1. m - c \in 1..m /\ t - c \in 1..t
    BY <1>1, <1>2
  <2> QED BY <1>3, <1>4, <1>5, <2>1
<1>7. ASSUME m > depth PROVE Scalar(v.loops[m - depth].mem) = length
  <2>1. m - depth \in 1..m
    BY <1>1, <1>7
  <2> QED BY <1>3, <1>5, <1>7, <2>1
<1>8. LoopMatch(v, w, depth, length)
  BY <1>1, <1>2, <1>6, <1>7 DEF LoopMatch
<1> QED BY <1>1, <1>8 DEF m, t

LEMMA FoldableAlike ==
  ASSUME NEW A, NEW t, OneTrace(t, A), NEW B, NEW u, OneTrace(u, B), Alike(t, u),
         NEW head \in 2..Len(t), Foldable(t, head)
  PROVE  Foldable(u, head)
<1> DEFINE n == Len(t)
           length == n - head + 1
<1>1. /\ n \in Nat /\ Len(u) = n /\ head \in Nat /\ head <= n /\ length \in Nat /\ length >= 1
      /\ \A i \in 1..n : t[i] \in Nodes /\ u[i] \in Nodes /\ AlikeNode(t[i], u[i])
  BY DEF OneTrace, Alike
<1>2. Candidate(t, head) /\ InWindow(t, head) /\ head - length >= 1 /\ ~t[head - length].member /\ MatchLoop(t, length)
  BY DEF Foldable
<1>3. \A i \in 1..n : t[i].op = u[i].op /\ t[i].member = u[i].member
  BY <1>1 DEF AlikeNode
<1>4. \A k \in 2..n : Candidate(t, k) <=> Candidate(u, k)
  <2> SUFFICES ASSUME NEW k \in 2..n PROVE Candidate(t, k) <=> Candidate(u, k)
    OBVIOUS
  <2>1. k \in 1..n /\ k - 1 \in 1..n /\ n \in 1..n
    BY <1>1
  <2> QED BY <1>1, <1>3, <2>1 DEF Candidate
<1>5. InWindow(u, head)
  <2>1. \A k \in (head + 1)..n : k \in 2..n
    BY <1>1
  <2>2. {k \in (head + 1)..n : ~Candidate(t, k)} = {k \in (head + 1)..n : ~Candidate(u, k)}
    BY <1>4, <2>1
  <2> QED BY <1>1, <1>2, <2>2 DEF InWindow
<1>6. MatchLoop(u, length)
  <2> SUFFICES ASSUME NEW i \in (n - length + 1)..n
               PROVE  /\ u[i - length].op = u[i].op
                      /\ LoopMatch(u[i - length], u[i],
                                   IF i = n - length + 1 THEN Depth(u[i]) ELSE Depth(u[i - length]), length)
    BY <1>1 DEF MatchLoop
  <2> DEFINE x == t[i - length]
             y == t[i]
             v == u[i - length]
             w == u[i]
             depth == IF i = n - length + 1 THEN Depth(y) ELSE Depth(x)
  <2>1. i \in 1..n /\ i - length \in 1..n
    BY <1>1, <1>2
  <2>2. x \in Nodes /\ y \in Nodes /\ v \in Nodes /\ w \in Nodes /\ AlikeNode(x, v) /\ AlikeNode(y, w)
    BY <1>1, <2>1
  <2>3. x.op = y.op /\ LoopMatch(x, y, depth, length)
    BY <1>1, <1>2 DEF MatchLoop
  <2> HIDE DEF x, y, v, w, length, n
  <2>4. depth \in Nat
    BY <2>2, NodeTyped
  <2>5. LoopMatch(v, w, depth, length) /\ Depth(v) = Depth(x) /\ Depth(w) = Depth(y)
    <3> HIDE DEF depth
    <3> QED BY <2>2, <2>3, <2>4, LoopMatchAlike
  <2>6. v.op = w.op
    BY <2>2, <2>3 DEF AlikeNode
  <2> QED BY <2>5, <2>6 DEF v, w
<1>7. Candidate(u, head)
  BY <1>1, <1>2, <1>4
<1>8. ~u[head - length].member
  <2>1. head - length \in 1..n
    BY <1>1, <1>2
  <2> QED BY <1>2, <1>3, <2>1
<1> QED BY <1>1, <1>2, <1>5, <1>6, <1>7, <1>8 DEF Foldable

LEMMA FoldAlike ==
  ASSUME NEW A \in SUBSET Ranks, NEW t, OneTrace(t, A), NEW B \in SUBSET Ranks, NEW u, OneTrace(u, B), Alike(t, u),
         NEW head \in 2..Len(t), Foldable(t, head)
  PROVE  Alike(Fold(t, head), Fold(u, head))
<1> DEFINE length == Len(t) - head + 1
           first == head - length
           p == Fold(t, head)
           q == Fold(u, head)
<1>1. /\ t \in Seq(Nodes) /\ u \in Seq(Nodes) /\ Len(t) \in Nat /\ Len(u) = Len(t)
      /\ \A i \in 1..Len(t) : t[i] \in Nodes /\ OneNode(t[i], A) /\ u[i] \in Nodes /\ OneNode(u[i], B) /\ AlikeNode(t[i], u[i])
  <2>1. t \in Seq(Nodes) /\ u \in Seq(Nodes) /\ Len(u) = Len(t) /\ \A i \in 1..Len(t) : AlikeNode(t[i], u[i])
    BY DEF OneTrace, Alike
  <2>2. DOMAIN t = 1..Len(t) /\ DOMAIN u = 1..Len(t) /\ Len(t) \in Nat /\ \A i \in 1..Len(t) : t[i] \in Nodes /\ u[i] \in Nodes
    BY <2>1
  <2> QED BY <2>1, <2>2 DEF OneTrace
<1>2. ByNode(t, head, p)
  BY <1>1, FoldByNode
<1>3. ByNode(u, head, q)
  <2>1. Foldable(u, head) /\ head \in 2..Len(u)
    BY <1>1, FoldableAlike
  <2> QED BY <1>1, <2>1, FoldByNode
<1> HIDE DEF p, q
<1>4. /\ length \in Nat \ {0} /\ first \in 1..(head - 1) /\ first + length = head /\ Len(t) = head + length - 1
      /\ p = [i \in 1..(head - 1) |-> p[i]]
      /\ \A i \in 1..(first - 1) : p[i] = t[i]
      /\ p[first] = [MergeNode(t[first], t[head]) EXCEPT !.loops = HeadLoops(t[first], t[head], length)]
      /\ \A i \in (first + 1)..(head - 1) : p[i] = [MergeNode(t[i], t[i + length]) EXCEPT !.member = TRUE]
      /\ LoopMatch(t[first], t[head], Depth(t[head]), length)
      /\ \A i \in (first + 1)..(head - 1) : LoopMatch(t[i], t[i + length], Depth(t[i]), length)
  BY <1>2 DEF ByNode
<1>5. /\ q = [i \in 1..(head - 1) |-> q[i]]
      /\ \A i \in 1..(first - 1) : q[i] = u[i]
      /\ q[first] = [MergeNode(u[first], u[head]) EXCEPT !.loops = HeadLoops(u[first], u[head], length)]
      /\ \A i \in (first + 1)..(head - 1) : q[i] = [MergeNode(u[i], u[i + length]) EXCEPT !.member = TRUE]
  BY <1>1, <1>3 DEF ByNode
<1>0. head \in 2..Len(t) /\ Len(t) \in Nat /\ length \in Nat \ {0} /\ first \in 1..(head - 1) /\ first + length = head
      /\ Len(t) = head + length - 1
  BY <1>1, <1>4
<1> HIDE DEF length, first
<1>6. ASSUME NEW i \in 1..(first - 1) PROVE AlikeNode(p[i], q[i])
  <2>1. i \in 1..Len(t)
    BY <1>0
  <2>2. p[i] = t[i] /\ q[i] = u[i]
    BY <1>4, <1>5
  <2> QED BY <1>1, <2>1, <2>2
<1>7. AlikeNode(p[first], q[first])
  <2> DEFINE x == t[first]
             y == t[head]
             v == u[first]
             w == u[head]
  <2>1. /\ x \in Nodes /\ y \in Nodes /\ OneNode(x, A) /\ OneNode(y, A)
        /\ v \in Nodes /\ w \in Nodes /\ OneNode(v, B) /\ OneNode(w, B) /\ AlikeNode(x, v) /\ AlikeNode(y, w)
    <3>1. first \in 1..Len(t) /\ head \in 1..Len(t)
      BY <1>0
    <3> QED BY <1>1, <3>1
  <2>2. Depth(y) <= Depth(x) /\ (Depth(x) = Depth(y) \/ Depth(x) = Depth(y) + 1)
    BY <1>4, <2>1, LoopMatchDepths
  <2> DEFINE m == MergeNode(x, y)
             n == MergeNode(v, w)
             l == HeadLoops(x, y, length)
             o == HeadLoops(v, w, length)
  <2>3. p[first] = [m EXCEPT !.loops = l] /\ q[first] = [n EXCEPT !.loops = o]
    BY <1>4, <1>5
  <2> HIDE DEF x, y, v, w
  <2>4. Depth(w) <= Depth(v)
    BY <2>1, <2>2, NodeTyped DEF AlikeNode, AlikeLoops
  <2>5. AlikeNode(m, n) /\ m \in Nodes /\ n \in Nodes
    BY <2>1, <2>2, <2>4, MergeNodeAlike, MergeNodeOne
  <2>6. AlikeLoops(l, o)
    BY <1>0, <2>1, <2>2, HeadLoopsAlike
  <2> HIDE DEF m, n, l, o
  <2>7. /\ p[first].op = m.op /\ p[first].member = m.member /\ p[first].count = m.count
        /\ p[first].values = m.values /\ p[first].loops = l
    BY <2>3, <2>5 DEF Nodes
  <2>8. /\ q[first].op = n.op /\ q[first].member = n.member /\ q[first].count = n.count
        /\ q[first].values = n.values /\ q[first].loops = o
    BY <2>3, <2>5 DEF Nodes
  <2> QED BY <2>5, <2>6, <2>7, <2>8 DEF AlikeNode
<1>8. ASSUME NEW i \in (first + 1)..(head - 1) PROVE AlikeNode(p[i], q[i])
  <2> DEFINE x == t[i]
             y == t[i + length]
             v == u[i]
             w == u[i + length]
             m == MergeNode(x, y)
             n == MergeNode(v, w)
  <2>1. /\ x \in Nodes /\ y \in Nodes /\ OneNode(x, A) /\ OneNode(y, A)
        /\ v \in Nodes /\ w \in Nodes /\ OneNode(v, B) /\ OneNode(w, B) /\ AlikeNode(x, v) /\ AlikeNode(y, w)
    <3>1. i \in 1..Len(t) /\ i + length \in 1..Len(t)
      BY <1>0
    <3> QED BY <1>1, <3>1
  <2>2. Depth(y) <= Depth(x)
    BY <1>4, <2>1, LoopMatchDepths
  <2>3. p[i] = [m EXCEPT !.member = TRUE] /\ q[i] = [n EXCEPT !.member = TRUE]
    BY <1>4, <1>5
  <2> HIDE DEF x, y, v, w
  <2>4. Depth(w) <= Depth(v)
    BY <2>1, <2>2, NodeTyped DEF AlikeNode, AlikeLoops
  <2>5. AlikeNode(m, n) /\ m \in Nodes /\ n \in Nodes
    BY <2>1, <2>2, <2>4, MergeNodeAlike, MergeNodeOne
  <2> HIDE DEF m, n
  <2>6. /\ p[i].op = m.op /\ p[i].member = TRUE /\ p[i].count = m.count
        /\ p[i].values = m.values /\ p[i].loops = m.loops
    BY <2>3, <2>5 DEF Nodes
  <2>7. /\ q[i].op = n.op /\ q[i].member = TRUE /\ q[i].count = n.count
        /\ q[i].values = n.values /\ q[i].loops = n.loops
    BY <2>3, <2>5 DEF Nodes
  <2> QED BY <2>5, <2>6, <2>7 DEF AlikeNode
<1>9. \A i \in 1..(head - 1) : AlikeNode(p[i], q[i])
  <2> TAKE i \in 1..(head - 1)
  <2>1. i \in 1..(first - 1) \/ i = first \/ i \in (first + 1)..(head - 1)
    BY <1>0
  <2> QED BY <1>6, <1>7, <1>8, <2>1
<1>10. Len(p) = head - 1 /\ Len(q) = head - 1
  <2>1. head - 1 \in Nat /\ DOMAIN p = 1..(head - 1) /\ DOMAIN q = 1..(head - 1)
    BY <1>0, <1>4, <1>5
  <2> QED BY <2>1
<1> QED BY <1>9, <1>10 DEF Alike, p, q

LEMMA FoldOnceAlike ==
  ASSUME NEW A \in SUBSET Ranks, NEW t, OneTrace(t, A), NEW B \in SUBSET Ranks, NEW u, OneTrace(u, B), Alike(t, u)
  PROVE  Alike(FoldOnce(t), FoldOnce(u))
<1> DEFINE n == Len(t)
           heads == {h \in 2..n : Foldable(t, h)}
<1>1. n \in Nat /\ Len(u) = n
  BY DEF OneTrace, Alike
<1>2. \A h \in 2..n : Foldable(t, h) <=> Foldable(u, h)
  <2> TAKE h \in 2..n
  <2>1. Foldable(t, h) => Foldable(u, h)
    BY FoldableAlike
  <2>2. Foldable(u, h) => Foldable(t, h)
    BY <1>1, FoldableAlike, AlikeSymmetric
  <2> QED BY <2>1, <2>2
<1>3. heads = {h \in 2..Len(u) : Foldable(u, h)}
  BY <1>1, <1>2
<1>4. /\ FoldOnce(t) = IF heads = {} THEN t ELSE Fold(t, Max(heads))
      /\ FoldOnce(u) = IF heads = {} THEN u ELSE Fold(u, Max(heads))
  BY <1>3 DEF FoldOnce
<1>5. CASE heads = {}
  BY <1>4, <1>5
<1>6. CASE heads # {}
  <2>1. heads \subseteq 0..n
    BY <1>1
  <2>2. Max(heads) \in heads
    <3> HIDE DEF heads
    <3> QED BY <1>1, <1>6, <2>1, Largest
  <2>3. Max(heads) \in 2..Len(t) /\ Foldable(t, Max(heads))
    BY <2>2
  <2> HIDE DEF heads
  <2> QED BY <1>4, <1>6, <2>3, FoldAlike
<1> QED BY <1>5, <1>6

LEMMA FastCompressAlike ==
  ASSUME NEW A \in SUBSET Ranks, NEW t, OneTrace(t, A), NEW B \in SUBSET Ranks, NEW u, OneTrace(u, B), Alike(t, u)
  PROVE  Alike(FastCompressLoop(t), FastCompressLoop(u))
<1> DEFINE n == Len(t)
<1>1. PICK f : FoldsOf(t, f) /\ FastCompressLoop(t) = f[n]
  BY FastCompressFolds
<1>2. PICK g : FoldsOf(u, g) /\ FastCompressLoop(u) = g[Len(u)]
  BY FastCompressFolds
<1>3. n \in Nat /\ Len(u) = n /\ f[0] = t /\ g[0] = u
      /\ \A k \in 1..n : f[k] = FoldOnce(f[k - 1]) /\ g[k] = FoldOnce(g[k - 1])
  BY <1>1, <1>2 DEF FoldsOf, OneTrace, Alike
<1> HIDE DEF n
<1> DEFINE P == {k \in 0..n : OneTrace(f[k], A) /\ OneTrace(g[k], B) /\ Alike(f[k], g[k])}
<1>4. 0 \in P
  BY <1>3
<1>5. ASSUME NEW k \in 1..n, k - 1 \in P PROVE k \in P
  <2>1. OneTrace(f[k - 1], A) /\ OneTrace(g[k - 1], B) /\ Alike(f[k - 1], g[k - 1]) /\ k \in 0..n
    BY <1>3, <1>5
  <2>2. OneTrace(f[k], A) /\ OneTrace(g[k], B) /\ Alike(f[k], g[k])
    BY <1>3, <2>1, FoldOnceOne, FoldOnceAlike
  <2> QED BY <2>1, <2>2
<1>6. \A k \in 0..n : k \in P
  <2> HIDE DEF P
  <2> QED BY <1>3, <1>4, <1>5, UpTo
<1>7. n \in P
  <2>1. n \in 0..n
    BY <1>3
  <2> HIDE DEF P
  <2> QED BY <1>6, <2>1
<1> QED BY <1>1, <1>2, <1>3, <1>7

LEMMA AppendAlike ==
  ASSUME NEW A \in SUBSET Ranks, NEW t, OneTrace(t, A), NEW B \in SUBSET Ranks, NEW u, OneTrace(u, B), Alike(t, u),
         NEW x \in Nodes, OneNode(x, A), NEW y \in Nodes, OneNode(y, B), AlikeNode(x, y)
  PROVE  Alike(Append(t, x), Append(u, y)) /\ Alike(Appended(t, x), Appended(u, y))
<1>1. Len(t) \in Nat /\ Len(u) = Len(t) /\ \A i \in 1..Len(t) : AlikeNode(t[i], u[i])
  BY DEF OneTrace, Alike
<1> DEFINE s == Append(t, x)
           v == Append(u, y)
<1>2. OneTrace(s, A) /\ Len(s) = Len(t) + 1 /\ s[Len(t) + 1] = x /\ \A i \in 1..Len(t) : s[i] = t[i]
  BY AppendOne
<1>3. OneTrace(v, B) /\ Len(v) = Len(t) + 1 /\ v[Len(t) + 1] = y /\ \A i \in 1..Len(t) : v[i] = u[i]
  BY <1>1, AppendOne
<1>4. Alike(s, v)
  <2> HIDE DEF s, v
  <2>1. \A i \in 1..Len(s) : i \in 1..Len(t) \/ i = Len(t) + 1
    BY <1>1, <1>2
  <2> QED BY <1>1, <1>2, <1>3, <2>1 DEF Alike
<1>5. Alike(Appended(t, x), Appended(u, y))
  BY <1>2, <1>3, <1>4, FastCompressAlike DEF Appended
<1> QED BY <1>4, <1>5

\* The nodes of the same call.
LEMMA NodeAlike ==
  ASSUME NEW op, NEW vec, NEW r, NEW q
  PROVE  AlikeNode(Node(op, vec, r), Node(op, vec, q))
BY DEF AlikeNode, AlikeParam, AlikeLoops, Node, Single

\* The same calls leave the same trace, but for its rank.
LEMMA RecordedAlike ==
  ASSUME NEW calls \in Programs, NEW r \in Ranks, NEW q \in Ranks
  PROVE  Alike(Recorded(calls, r), Recorded(calls, q))
<1> DEFINE n == Len(calls)
<1>1. PICK f : TracesOf(calls, r, f) /\ Recorded(calls, r) = f[n]
  BY RecordedTraces
<1>2. PICK g : TracesOf(calls, q, g) /\ Recorded(calls, q) = g[n]
  BY RecordedTraces
<1>3. /\ n \in Nat
      /\ \A k \in 1..n : f[k] = Appended(f[k - 1], EventNode(calls, r, k)) /\ g[k] = Appended(g[k - 1], EventNode(calls, q, k))
      /\ \A k \in 0..n : OneTrace(f[k], {r}) /\ OneTrace(g[k], {q})
  <2>1. n \in Nat
    BY ProgramsAssumption
  <2> HIDE DEF n
  <2>2. /\ \A k \in 1..n : f[k] = Appended(f[k - 1], EventNode(calls, r, k))
        /\ \A k \in 0..n : OneTrace(f[k], {r})
    BY <1>1 DEF TracesOf, n
  <2>3. /\ \A k \in 1..n : g[k] = Appended(g[k - 1], EventNode(calls, q, k))
        /\ \A k \in 0..n : OneTrace(g[k], {q})
    BY <1>2 DEF TracesOf, n
  <2> QED BY <2>1, <2>2, <2>3
<1> DEFINE P == {k \in 0..n : Alike(f[k], g[k])}
<1>4. 0 \in P
  <2> DEFINE x == Node(InitOp, <<0>>, r)
             y == Node(InitOp, <<0>>, q)
  <2>1. f[0] = <<x>> /\ g[0] = <<y>>
    BY <1>1, <1>2 DEF TracesOf
  <2>2. AlikeNode(x, y)
    BY NodeAlike
  <2> HIDE DEF x, y
  <2>3. Alike(<<x>>, <<y>>)
    BY <2>2 DEF Alike
  <2> QED BY <1>3, <2>1, <2>3
<1>5. ASSUME NEW k \in 1..n, k - 1 \in P PROVE k \in P
  <2> DEFINE x == EventNode(calls, r, k)
             y == EventNode(calls, q, k)
  <2>1. Alike(f[k - 1], g[k - 1]) /\ k \in 0..n /\ k - 1 \in 0..n
    BY <1>3, <1>5
  <2>2. x \in Nodes /\ OneNode(x, {r}) /\ y \in Nodes /\ OneNode(y, {q})
    BY CallTyped
  <2>3. AlikeNode(x, y)
    BY NodeAlike DEF EventNode
  <2> HIDE DEF x, y, n
  <2>4. {r} \in SUBSET Ranks /\ {q} \in SUBSET Ranks /\ OneTrace(f[k - 1], {r}) /\ OneTrace(g[k - 1], {q})
    BY <1>3, <2>1
  <2>5. Alike(Appended(f[k - 1], x), Appended(g[k - 1], y))
    BY <2>1, <2>2, <2>3, <2>4, AppendAlike
  <2>6. f[k] = Appended(f[k - 1], x) /\ g[k] = Appended(g[k - 1], y)
    BY <1>3 DEF x, y
  <2> QED BY <2>1, <2>5, <2>6
<1>6. \A k \in 0..n : k \in P
  <2> HIDE DEF P
  <2> QED BY <1>3, <1>4, <1>5, UpTo
<1>7. n \in P
  <2>1. n \in 0..n
    BY <1>3
  <2> HIDE DEF P
  <2> QED BY <1>6, <2>1
<1> QED BY <1>1, <1>2, <1>7

LEMMA WholeAlike ==
  ASSUME NEW calls \in Programs, NEW r \in Ranks, NEW q \in Ranks
  PROVE  Alike(WholeTrace(calls, r), WholeTrace(calls, q))
<1> DEFINE x == Node(FinalOp, <<0>>, r)
           y == Node(FinalOp, <<0>>, q)
<1>1. AlikeNode(x, y)
  BY NodeAlike
<1>2. x \in Nodes /\ OneNode(x, {r}) /\ y \in Nodes /\ OneNode(y, {q})
  <2>1. <<0>> \in Seq(Int) /\ Len(<<0>>) > 0 /\ FinalOp \in AllOps
    BY DEF AllOps
  <2> QED BY <2>1, NewNode
<1>3. OneTrace(Recorded(calls, r), {r}) /\ OneTrace(Recorded(calls, q), {q})
      /\ Alike(Recorded(calls, r), Recorded(calls, q)) /\ {r} \in SUBSET Ranks /\ {q} \in SUBSET Ranks
  BY RecordedOne, RecordedAlike
<1> HIDE DEF x, y
<1>4. Alike(Append(Recorded(calls, r), x), Append(Recorded(calls, q), y))
  BY <1>1, <1>2, <1>3, AppendAlike
<1> QED BY <1>4 DEF WholeTrace, x, y
-----------------------------------------------------------------------------
(* The merge of traces that are alike. *)

\* The subsequence of the first n operations of two traces of the same operations.
Diagonal(c, n) == c \in Pairs /\ Len(c) = n /\ \A k \in 1..n : c[k] = <<k, k>>

LEMMA LCSDiagonal ==
  ASSUME NEW m, NEW s, EndedTraces(m, s), Len(m) = Len(s), \A i \in 1..Len(m) : m[i].op = s[i].op
  PROVE  Diagonal(LCS(m, s), Len(m))
<1> DEFINE n == Len(m)
<1>1. PICK f : TableOf(m, s, f) /\ LCS(m, s) = f[n][n + 1]
  BY LCSTable
<1>2. n \in Nat
  BY DEF EndedTraces
<1>3. /\ \A i \in 0..n : Row(m, s, i, n, f[i])
      /\ \A i \in 1..n : Paired(m, s, i, n, f[i - 1], f[i])
      /\ \A i \in 1..n : m[i].op = s[i].op
  BY <1>1 DEF TableOf
<1> HIDE DEF n
<1> DEFINE P == {i \in 0..n : Diagonal(f[i][i + 1], i)}
<1>4. 0 \in P
  <2>1. 0 \in 0..n /\ 0 \in Nat
    BY <1>2
  <2>2. Common(m, s, 0, 0, f[0][0 + 1])
    BY <1>3, <2>1 DEF Row
  <2>3. Len(f[0][0 + 1]) = 0
    BY <2>1, <2>2, CommonEmpty
  <2>4. f[0][0 + 1] \in Pairs
    BY <2>2 DEF Common
  <2> QED BY <2>1, <2>3, <2>4 DEF Diagonal
<1>5. ASSUME NEW i \in 1..n, i - 1 \in P PROVE i \in P
  <2> DEFINE d == f[i - 1][i]
             p == <<i, i>>
  <2>1. i \in 0..n /\ i \in Nat /\ (i - 1) + 1 = i
    BY <1>2
  <2>2. Diagonal(d, i - 1)
    BY <1>5, <2>1
  <2>3. f[i][i + 1] = Append(d, p)
    BY <1>3 DEF Paired
  <2>4. d \in Seq(Nat \X Nat) /\ p \in Nat \X Nat /\ Len(d) = i - 1 /\ \A k \in 1..(i - 1) : d[k] = <<k, k>>
    BY <2>1, <2>2 DEF Diagonal, Pairs
  <2> HIDE DEF d
  <2> DEFINE e == Append(d, p)
  <2>5. e \in Seq(Nat \X Nat) /\ Len(e) = i /\ e[i] = p /\ \A k \in 1..(i - 1) : e[k] = d[k]
    <3> HIDE DEF p
    <3> QED BY <2>1, <2>4, AppendProperties
  <2> HIDE DEF e
  <2>6. \A k \in 1..i : k = i \/ k \in 1..(i - 1)
    BY <2>1
  <2>7. \A k \in 1..i : e[k] = <<k, k>>
    BY <2>4, <2>5, <2>6
  <2>8. Diagonal(e, i)
    BY <2>5, <2>7 DEF Diagonal, Pairs
  <2> QED BY <2>1, <2>3, <2>8 DEF e
<1> HIDE DEF P
<1>6. \A i \in 0..n : i \in P
  BY <1>2, <1>4, <1>5, UpTo
<1>7. n \in P
  BY <1>2, <1>6
<1>8. Diagonal(f[n][n + 1], n)
  BY <1>7 DEF P
<1> QED BY <1>1, <1>8 DEF n

\* Parameters of the same values are joined.
LEMMA JoinOne ==
  ASSUME NEW A, NEW B, A \cap B = {}, A # B, NEW a \in Parameters, NEW b \in Parameters,
         One(a, A), One(b, B), AlikeParam(a, b)
  PROVE  MergeParam(a, b) \in Parameters /\ One(MergeParam(a, b), A \cup B) /\ AlikeParam(MergeParam(a, b), a)
<1>1. /\ Len(a) = 1 /\ Len(b) = 1 /\ a[1] \in Values /\ b[1] \in Values /\ a[1].ranks = A /\ b[1].ranks = B
      /\ a \in Seq(Values) /\ DOMAIN a = {1} /\ a[1].vals = b[1].vals
  BY DEF One, Parameters, AlikeParam
<1> DEFINE w == [a[1] EXCEPT !.ranks = A \cup B]
<1>2. PICK f : MergesOf(a, b, f) /\ MergeParam(a, b) = f[Len(b)] /\ ParamOf(f[1], A \cup Upto(b, 1))
  <2>1. ~(Len(a) = 1 /\ Len(b) = 1 /\ a[1].ranks = b[1].ranks)
    BY <1>1
  <2>2. ParamOf(a, A) /\ ParamOf(b, B)
    BY OneParam
  <2>3. 1 \in 0..Len(b)
    BY <1>1
  <2> QED BY <2>1, <2>2, <2>3, MergeParamSteps
<1>3. MergeParam(a, b) = Absorb(a, b[1])
  <2>1. 1 \in 1..Len(b) /\ 1 - 1 = 0
    BY <1>1
  <2> QED BY <1>1, <1>2, <2>1 DEF MergesOf
<1>4. Absorb(a, b[1]) = [a EXCEPT ![1] = MergeValue(a[1], b[1])]
  <2> DEFINE T == {k \in DOMAIN a : CanMerge(a[k], b[1])}
  <2>1. CanMerge(a[1], b[1]) /\ T = {1}
    BY <1>1 DEF CanMerge
  <2>2. Min(T) = 1
    <3>1. T \subseteq Nat /\ T # {}
      BY <2>1
    <3> HIDE DEF T
    <3>2. Min(T) \in T
      BY <3>1, Smallest
    <3> QED BY <2>1, <3>2
  <2>3. Absorb(a, b[1]) = LET j == Min(T) IN [a EXCEPT ![j] = MergeValue(a[j], b[1])]
    BY <1>1, <2>1 DEF Absorb
  <2> HIDE DEF T
  <2> QED BY <2>2, <2>3
<1>5. MergeValue(a[1], b[1]) = w
  BY <1>1 DEF MergeValue
<1>6. w.vals = a[1].vals /\ w.iters = a[1].iters /\ w.ranks = A \cup B
  BY <1>1 DEF Values
<1> HIDE DEF w
<1>7. MergeParam(a, b) = [a EXCEPT ![1] = w]
  BY <1>3, <1>4, <1>5
<1>8. Len([a EXCEPT ![1] = w]) = 1 /\ [a EXCEPT ![1] = w][1] = w
  BY <1>1
<1>9. MergeParam(a, b) \in Parameters
  BY <1>1, <1>2 DEF ParamOf
<1> QED BY <1>6, <1>7, <1>8, <1>9 DEF One, AlikeParam

\* Loops of the same depth and lengths are merged level by level.
LEMMA JoinLoops ==
  ASSUME NEW A, NEW B, A \cap B = {}, A # B, NEW l, NEW o, OneLoops(l, A), OneLoops(o, B), AlikeLoops(l, o)
  PROVE  /\ OneLoops(InterMergeLoops(l, o), A \cup B)
         /\ AlikeLoops(InterMergeLoops(l, o), l)
<1> DEFINE n == Len(l)
           u == InterMergeLoops(l, o)
           G(i) == IF i > Len(o) THEN l[i]
                   ELSE IF i > Len(l) THEN o[i]
                   ELSE [mem  |-> MergeParam(l[i].mem, o[i].mem), iter |-> MergeParam(l[i].iter, o[i].iter)]
           J(i) == [mem  |-> MergeParam(l[i].mem, o[i].mem), iter |-> MergeParam(l[i].iter, o[i].iter)]
<1>1. n \in Nat /\ Len(o) = n /\ DOMAIN l = 1..n /\ DOMAIN o = 1..n /\ l \in Seq(LoopItems) /\ o \in Seq(LoopItems)
  BY DEF OneLoops, AlikeLoops
<1>2. Max({Len(l), Len(o)}) = n
  <2> DEFINE S == {Len(l), Len(o)}
  <2>1. S = {n} /\ S \subseteq 0..n /\ S # {}
    BY <1>1
  <2> HIDE DEF S, n
  <2>2. Max(S) \in S
    BY <1>1, <2>1, Largest
  <2> QED BY <2>1, <2>2 DEF S
<1>3. u = [i \in 1..n |-> G(i)]
  BY <1>2 DEF InterMergeLoops
<1>4. \A i \in 1..n : G(i) = J(i)
  BY <1>1
<1> HIDE DEF u, n, G
<1>5. ASSUME NEW i \in 1..n PROVE J(i) \in LoopItems /\ OneItem(J(i), A \cup B) /\ AlikeItem(J(i), l[i])
  <2>1. l[i] \in LoopItems /\ o[i] \in LoopItems /\ OneItem(l[i], A) /\ OneItem(o[i], B) /\ AlikeItem(l[i], o[i])
    BY <1>1 DEF OneLoops, AlikeLoops, n
  <2>2. /\ l[i].mem \in Parameters /\ l[i].iter \in Parameters /\ o[i].mem \in Parameters /\ o[i].iter \in Parameters
        /\ One(l[i].mem, A) /\ One(l[i].iter, A) /\ One(o[i].mem, B) /\ One(o[i].iter, B)
        /\ AlikeParam(l[i].mem, o[i].mem) /\ AlikeParam(l[i].iter, o[i].iter)
    BY <2>1 DEF LoopItems, OneItem, AlikeItem
  <2> DEFINE mem == MergeParam(l[i].mem, o[i].mem)
             iter == MergeParam(l[i].iter, o[i].iter)
  <2>3. mem \in Parameters /\ One(mem, A \cup B) /\ AlikeParam(mem, l[i].mem)
    BY <2>2, JoinOne
  <2>4. iter \in Parameters /\ One(iter, A \cup B) /\ AlikeParam(iter, l[i].iter)
    BY <2>2, JoinOne
  <2>5. J(i) = [mem |-> mem, iter |-> iter]
    OBVIOUS
  <2> HIDE DEF mem, iter, J
  <2> QED BY <2>3, <2>4, <2>5 DEF LoopItems, OneItem, AlikeItem
<1> HIDE DEF J
<1>6. u = [i \in 1..n |-> J(i)]
  BY <1>3, <1>4
<1>7. u \in Seq(LoopItems) /\ Len(u) = n /\ DOMAIN u = 1..n /\ \A i \in 1..n : u[i] = J(i)
  BY <1>1, <1>5, <1>6
<1> QED BY <1>5, <1>7 DEF OneLoops, AlikeLoops, u, n

\* Two nodes that differ in nothing but the ranks.
LEMMA JoinPair ==
  ASSUME NEW A, NEW B, A \cap B = {}, A # B, NEW x \in Nodes, NEW y \in Nodes,
         OneNode(x, A), OneNode(y, B), AlikeNode(x, y)
  PROVE  /\ MergePair(x, y) \in Nodes /\ OneNode(MergePair(x, y), A \cup B)
         /\ AlikeNode(MergePair(x, y), x)
<1> DEFINE c == MergeParam(x.count, y.count)
           v == MergeParam(x.values, y.values)
           l == InterMergeLoops(x.loops, y.loops)
           new == MergePair(x, y)
<1>1. /\ x.count \in Parameters /\ y.count \in Parameters /\ x.values \in Parameters /\ y.values \in Parameters
      /\ One(x.count, A) /\ One(y.count, B) /\ One(x.values, A) /\ One(y.values, B)
      /\ AlikeParam(x.count, y.count) /\ AlikeParam(x.values, y.values)
      /\ x.ranks = A /\ y.ranks = B
  BY NodeTyped DEF OneNode, AlikeNode
<1>2. c \in Parameters /\ One(c, A \cup B) /\ AlikeParam(c, x.count)
  BY <1>1, JoinOne
<1>3. v \in Parameters /\ One(v, A \cup B) /\ AlikeParam(v, x.values)
  BY <1>1, JoinOne
<1>4. OneLoops(l, A \cup B) /\ AlikeLoops(l, x.loops)
  <2>1. OneLoops(x.loops, A) /\ OneLoops(y.loops, B) /\ AlikeLoops(x.loops, y.loops)
    BY NodeTyped DEF OneLoops, OneNode, AlikeNode
  <2> QED BY <2>1, JoinLoops
<1>5. new = [x EXCEPT !.ranks = x.ranks \cup y.ranks, !.count = c, !.values = v, !.loops = l]
  BY DEF MergePair, Nodes
<1> HIDE DEF c, v, l, new
<1>6. new = [op |-> x.op, ranks |-> A \cup B, loops |-> l, member |-> x.member, count |-> c, values |-> v]
  BY <1>1, <1>5 DEF Nodes
<1>7. new \in Nodes
  <2>1. A \cup B \in SUBSET Ranks
    BY <1>1, NodeTyped
  <2> QED BY <1>2, <1>3, <1>4, <1>6, <2>1, NodeTyped DEF Nodes, OneLoops
<1>8. /\ new.op = x.op /\ new.member = x.member /\ new.ranks = A \cup B
      /\ new.count = c /\ new.values = v /\ new.loops = l
  BY <1>6
<1> QED BY <1>2, <1>3, <1>4, <1>7, <1>8 DEF OneNode, OneLoops, AlikeNode, new

\* The merge of traces that differ in nothing but the ranks is the trace of both.
LEMMA JoinTraces ==
  ASSUME NEW A, NEW B, A \cap B = {}, A # B, NEW m, NEW s, OneTrace(m, A), OneTrace(s, B),
         TraceOf(m, A), TraceOf(s, B), Alike(m, s)
  PROVE  OneTrace(LCSMergeTrace(m, s), A \cup B) /\ Alike(LCSMergeTrace(m, s), m)
<1> DEFINE n == Len(m)
           c == LCS(m, s)
           u == LCSMergeTrace(m, s)
           Joined(t, k) == Len(t) = k /\ \A l \in 1..k : t[l] = MergePair(m[l], s[l])
<1>1. /\ n \in Nat /\ n >= 2 /\ Len(s) = n /\ DOMAIN m = 1..n /\ DOMAIN s = 1..n
      /\ m \in Seq(Nodes) /\ s \in Seq(Nodes) /\ EndedTraces(m, s)
      /\ \A i \in 1..n : AlikeNode(m[i], s[i])
  BY DEF TraceOf, Ended, EndedTraces, Alike
<1> HIDE DEF n
<1>2. \A i \in 1..n : m[i] \in Nodes /\ s[i] \in Nodes /\ OneNode(m[i], A) /\ OneNode(s[i], B)
  <2>1. \A i \in 1..n : m[i] \in Nodes /\ s[i] \in Nodes
    BY <1>1
  <2> QED BY <1>1, <2>1 DEF OneTrace
<1>3. ASSUME NEW i \in 1..n
      PROVE  /\ MergePair(m[i], s[i]) \in Nodes /\ OneNode(MergePair(m[i], s[i]), A \cup B)
             /\ AlikeNode(MergePair(m[i], s[i]), m[i])
  BY <1>1, <1>2, JoinPair
<1>4. Diagonal(c, n)
  <2>1. \A i \in 1..n : m[i].op = s[i].op
    BY <1>1 DEF AlikeNode
  <2> QED BY <1>1, <2>1, LCSDiagonal DEF n
<1>5. PICK h : MergeOf(m, s, c, h) /\ u = h[n]
  BY <1>4, MergeSteps DEF Diagonal
<1> HIDE DEF c, u
<1>6. Len(c) = n /\ \A k \in 1..n : c[k] = <<k, k>>
  BY <1>4 DEF Diagonal
<1>7. ASSUME NEW k \in 1..n
      PROVE  Extends(h[k - 1], <<>>, MergePair(m[k], s[k]), h[k])
  <2>1. c[k][1] = k /\ c[k][2] = k /\ k \in Nat
    BY <1>1, <1>6
  <2>2. PairAt(m, s, c, k) = MergePair(m[k], s[k])
    BY <2>1 DEF PairAt
  <2>3. k # 1 => c[k - 1][1] = k - 1 /\ c[k - 1][2] = k - 1
    <3> HAVE k # 1
    <3>1. k - 1 \in 1..n
      BY <1>1
    <3> QED BY <1>6, <3>1
  <2>4. Before(m, s, c, k) = SubSeq(m, k, k - 1) \o SubSeq(s, k, k - 1)
    <3>1. k = 1 => Before(m, s, c, k) = SubSeq(m, 0 + 1, k - 1) \o SubSeq(s, 0 + 1, k - 1)
      BY <2>1 DEF Before
    <3>2. k # 1 => Before(m, s, c, k) = SubSeq(m, (k - 1) + 1, k - 1) \o SubSeq(s, (k - 1) + 1, k - 1)
      BY <2>1, <2>3 DEF Before
    <3>3. 0 + 1 = 1 /\ (k - 1) + 1 = k
      BY <2>1
    <3> QED BY <3>1, <3>2, <3>3
  <2>5. SubSeq(m, k, k - 1) = <<>> /\ SubSeq(s, k, k - 1) = <<>>
    <3>1. k \in Int /\ k - 1 \in Int /\ k - 1 < k
      BY <2>1
    <3> QED BY <3>1, SubSeqEmpty
  <2>6. Before(m, s, c, k) = <<>>
    <3>1. <<>> \in Seq(Nodes)
      OBVIOUS
    <3>2. <<>> \o <<>> = <<>>
      BY <3>1, ConcatEmptySeq
    <3> QED BY <2>4, <2>5, <3>2
  <2>7. PairAt(m, s, c, k) \in Nodes /\ Before(m, s, c, k) \in Seq(Nodes)
    BY <1>3, <2>2, <2>6
  <2>8. Extends(h[k - 1], Before(m, s, c, k), PairAt(m, s, c, k), h[k])
    BY <1>1, <1>5, <1>6, <2>7, MergeNodes
  <2> QED BY <2>2, <2>6, <2>8
<1> DEFINE P == {k \in 0..n : Joined(h[k], k)}
<1>8. 0 \in P
  BY <1>1, <1>5 DEF MergeOf
<1>9. ASSUME NEW k \in 1..n, k - 1 \in P PROVE k \in P
  <2> DEFINE x == h[k - 1]
             t == h[k]
             p == MergePair(m[k], s[k])
  <2>1. Joined(x, k - 1) /\ k \in 0..n /\ k \in Nat
    <3> HIDE DEF Joined
    <3>1. k \in 0..n /\ k \in Nat
      BY <1>1
    <3> QED BY <1>9, <3>1
  <2>2. Len(x) = k - 1 /\ Len(t) = k /\ t[k] = p /\ \A l \in 1..(k - 1) : t[l] = x[l]
    <3>1. Extends(x, <<>>, p, t)
      BY <1>7
    <3> HIDE DEF x, t, p
    <3> QED BY <2>1, <3>1 DEF Extends
  <2>3. \A l \in 1..k : l = k \/ l \in 1..(k - 1)
    BY <2>1
  <2> HIDE DEF x, t
  <2>4. Joined(t, k)
    BY <2>1, <2>2, <2>3
  <2> QED BY <2>1, <2>4 DEF t
<1>10. Joined(h[n], n)
  <2> HIDE DEF P
  <2>1. \A k \in 0..n : k \in P
    BY <1>1, <1>8, <1>9, UpTo
  <2>2. n \in P
    BY <1>1, <2>1
  <2> QED BY <2>2 DEF P
<1>11. u \in Seq(Nodes)
  <2>1. n \in 0..n
    BY <1>1
  <2> QED BY <1>5, <1>6, <2>1 DEF MergeOf
<1>12. Len(u) = n /\ DOMAIN u = 1..n /\ u # <<>> /\ \A l \in 1..n : u[l] = MergePair(m[l], s[l])
  <2>1. Len(u) = n /\ \A l \in 1..n : u[l] = MergePair(m[l], s[l])
    BY <1>5, <1>10
  <2>2. DOMAIN u = 1..n /\ u # <<>>
    BY <1>1, <1>11, <2>1
  <2> QED BY <2>1, <2>2
<1>13. OneTrace(u, A \cup B)
  BY <1>3, <1>11, <1>12 DEF OneTrace
<1>14. Alike(u, m)
  BY <1>3, <1>12 DEF Alike, n
<1> QED BY <1>13, <1>14 DEF u
-----------------------------------------------------------------------------
(* Ranks that made the same calls share the nodes of their trace. *)

\* As long as only ranks that ran r's program have been merged into r's trace,
\* it is the one r recorded, with one value list per parameter, of all of them.
Shared(r) == \A q \in held[r] : program[q] = program[r]
SharedInv ==
  /\ \A r \in Ranks : r \in held[r]
  /\ \A r \in Ranks : \A q \in held[r] : q # r => ~AtBarrier(q)
  /\ \A r \in Ranks : ~AtBarrier(r) /\ Shared(r)
       => OneTrace(trace[r], held[r]) /\ Alike(trace[r], WholeTrace(program[r], r))
  /\ output # <<>> => output = trace[0] /\ pc[0] = "done" /\ file = held[0]

LEMMA InitSharedInv == Init => SharedInv
<1> SUFFICES ASSUME Init PROVE SharedInv
  OBVIOUS
<1>1. \A r \in Ranks : held[r] = {r} /\ pc[r] = "call"
  BY DEF Init, Protocol!Init, Ranks
<1>2. output = <<>>
  BY DEF Init
<1> QED BY <1>1, <1>2 DEF SharedInv, AtBarrier

LEMMA StepSharedInv ==
  ASSUME R!Tree(N), R!PInv, TraceInv, SharedInv, [Next]_vars
  PROVE  SharedInv'
<1>0. /\ program \in [Ranks -> Programs] /\ DOMAIN trace = Ranks
      /\ \A r \in Ranks : AtBarrier(r) => held[r] = {r} /\ trace[r] = Recorded(program[r], r)
      /\ \A r \in Ranks : ~AtBarrier(r) => TraceOf(trace[r], held[r])
      /\ pc \in [Ranks -> R!Labels] /\ held \in [Ranks -> SUBSET Ranks]
      /\ \A r \in Ranks : r \in held[r]
      /\ \A r \in Ranks : \A q \in held[r] : q \in Ranks /\ (q # r => ~AtBarrier(q))
      /\ 0 \in Ranks
  <2>1. 0 \in Ranks
    BY SizeAssumption DEF Ranks, Protocol!Ranks
  <2> QED BY <2>1 DEF TraceInv, SharedInv, R!PInv, R!Types, Ranks, Protocol!Ranks, R!Ranks
<1>1. CASE UNCHANGED vars \/ Terminating
  <2>1. UNCHANGED <<pc, held, file, program, trace, output>>
    BY <1>1 DEF vars, protocolVars, Terminating
  <2> QED BY <2>1 DEF SharedInv, Shared, AtBarrier
<1>2. ASSUME NEW r \in Ranks, LeaveBarrier(r) PROVE SharedInv'
  <2>1. /\ pc[r] = "barrier" /\ pc' = [pc EXCEPT ![r] = "left"] /\ held' = held /\ file' = file /\ output' = output
        /\ trace' = [trace EXCEPT ![r] = Appended(trace[r], Node(FinalOp, <<0>>, r))] /\ program' = program
    BY <1>2 DEF LeaveBarrier, Protocol!LeaveBarrier, Protocol!Go
  <2>2. trace[r] = Recorded(program[r], r) /\ held[r] = {r} /\ program[r] \in Programs
    BY <1>0, <2>1 DEF AtBarrier
  <2>3. trace'[r] = WholeTrace(program[r], r)
    BY <1>0, <2>1, <2>2, WholeTraceOf
  <2>4. \A q \in Ranks \ {r} : trace'[q] = trace[q] /\ pc'[q] = pc[q]
    BY <1>0, <2>1
  <2>5. \A q \in Ranks : ~AtBarrier(q) => ~AtBarrier(q)'
    BY <1>0, <2>1 DEF AtBarrier
  <2>6. ASSUME NEW q \in Ranks, ~AtBarrier(q)', Shared(q)'
        PROVE  OneTrace(trace'[q], held'[q]) /\ Alike(trace'[q], WholeTrace(program'[q], q))
    <3>1. CASE q = r
      <4>1. OneTrace(trace'[r], {r})
        BY <2>2, <2>3, WholeTraceOf
      <4>2. Alike(trace'[r], WholeTrace(program[r], r))
        BY <2>2, <2>3, WholeAlike
      <4> QED BY <2>1, <2>2, <3>1, <4>1, <4>2
    <3>2. CASE q # r
      <4>1. ~AtBarrier(q) /\ Shared(q)
        BY <2>1, <2>4, <2>6, <3>2 DEF AtBarrier, Shared
      <4> QED BY <2>1, <2>4, <3>2, <4>1 DEF SharedInv
    <3> QED BY <3>1, <3>2
  <2>7. output' # <<>> => output' = trace'[0] /\ pc'[0] = "done" /\ file' = held'[0]
    <3>1. output # <<>> => 0 # r
      BY <2>1 DEF SharedInv
    <3> QED BY <1>0, <2>1, <2>4, <3>1 DEF SharedInv
  <2> QED BY <1>0, <2>1, <2>5, <2>6, <2>7 DEF SharedInv
<1>3. ASSUME NEW r \in Ranks, ReceiveTrace(r) PROVE SharedInv'
  <2> DEFINE child == Protocol!Child(r)
  <2>1. /\ trace' = [trace EXCEPT ![r] = LCSMergeTrace(trace[r], trace[child])] /\ program' = program /\ output' = output
        /\ file' = file /\ pc[r] \in {"left", "right"}
    BY <1>3 DEF ReceiveTrace, Protocol!ReceiveTrace, Protocol!Receive, Protocol!Waiting
  <2>2. FromChild(r, child)
    BY <1>3, Received DEF ReceiveTrace
  <2> HIDE DEF child
  <2>3. TraceOf(trace[r], held[r]) /\ TraceOf(trace[child], held[child]) /\ held[r] \cap held[child] = {}
    BY <1>0, <2>2 DEF FromChild
  <2>4. trace'[r] = LCSMergeTrace(trace[r], trace[child]) /\ held'[r] = held[r] \cup held[child]
    BY <1>0, <2>1, <2>2 DEF FromChild
  <2>5. \A q \in Ranks \ {r} : trace'[q] = trace[q] /\ held'[q] = held[q] /\ pc'[q] = pc[q]
    BY <1>0, <2>1, <2>2 DEF FromChild
  <2>6. child \in Ranks /\ ~AtBarrier(child) /\ ~AtBarrier(r) /\ ~AtBarrier(r)'
        /\ \A q \in Ranks \ {r} : (AtBarrier(q)' <=> AtBarrier(q))
    BY <2>2, <2>5 DEF FromChild, AtBarrier
  <2>7. ASSUME Shared(r)'
        PROVE  OneTrace(trace'[r], held'[r]) /\ Alike(trace'[r], WholeTrace(program[r], r))
    <3>1. /\ Shared(r) /\ Shared(child) /\ program[child] = program[r]
          /\ program[r] \in Programs /\ held[r] # held[child]
      BY <1>0, <2>1, <2>3, <2>4, <2>6, <2>7 DEF Shared
    <3>2. /\ OneTrace(trace[r], held[r]) /\ Alike(trace[r], WholeTrace(program[r], r))
          /\ OneTrace(trace[child], held[child]) /\ Alike(trace[child], WholeTrace(program[child], child))
      BY <2>6, <3>1 DEF SharedInv
    <3>3. Alike(trace[r], trace[child])
      <4>1. Alike(WholeTrace(program[r], r), WholeTrace(program[r], child))
        BY <2>6, <3>1, WholeAlike
      <4>2. Alike(trace[r], WholeTrace(program[child], child))
        BY <3>1, <3>2, <4>1, AlikeTransitive
      <4>3. Alike(WholeTrace(program[child], child), trace[child])
        BY <3>2, AlikeSymmetric
      <4> QED BY <4>2, <4>3, AlikeTransitive
    <3>4. OneTrace(trace'[r], held'[r]) /\ Alike(trace'[r], trace[r])
      <4> DEFINE A == held[r]
                 B == held[child]
                 m == trace[r]
                 s == trace[child]
      <4>1. /\ A \cap B = {} /\ A # B /\ OneTrace(m, A) /\ OneTrace(s, B)
            /\ TraceOf(m, A) /\ TraceOf(s, B) /\ Alike(m, s)
        BY <2>3, <3>1, <3>2, <3>3
      <4> HIDE DEF A, B, m, s
      <4>2. OneTrace(LCSMergeTrace(m, s), A \cup B) /\ Alike(LCSMergeTrace(m, s), m)
        BY <4>1, JoinTraces
      <4> QED BY <2>4, <4>2 DEF A, B, m, s
    <3> QED BY <3>2, <3>4, AlikeTransitive
  <2>8. ASSUME NEW q \in Ranks, ~AtBarrier(q)', Shared(q)'
        PROVE  OneTrace(trace'[q], held'[q]) /\ Alike(trace'[q], WholeTrace(program'[q], q))
    <3>1. CASE q = r
      BY <2>1, <2>7, <2>8, <3>1
    <3>2. CASE q # r
      <4>1. ~AtBarrier(q) /\ Shared(q)
        BY <2>1, <2>5, <2>8, <3>2 DEF AtBarrier, Shared
      <4> QED BY <2>1, <2>5, <3>2, <4>1 DEF SharedInv
    <3> QED BY <3>1, <3>2
  <2>9. output' # <<>> => output' = trace'[0] /\ pc'[0] = "done" /\ file' = held'[0]
    <3>1. output # <<>> => 0 # r
      BY <2>1 DEF SharedInv
    <3> QED BY <1>0, <2>1, <2>5, <3>1 DEF SharedInv
  <2>10. ASSUME NEW q \in Ranks PROVE q \in held'[q] /\ \A p \in held'[q] : p # q => ~AtBarrier(p)'
    <3>1. \A p \in Ranks : AtBarrier(p)' => AtBarrier(p)
      BY <2>6
    <3>2. CASE q = r
      BY <1>0, <2>4, <2>6, <3>1, <3>2
    <3>3. CASE q # r
      BY <1>0, <2>5, <3>1, <3>3
    <3> QED BY <3>2, <3>3
  <2> QED BY <2>8, <2>9, <2>10 DEF SharedInv
<1>4. ASSUME NEW r \in Ranks, OutputTrace(r) \/ OtherStep(r) PROVE SharedInv'
  <2>1. /\ UNCHANGED <<held, program, trace>>
        /\ \A q \in Ranks : AtBarrier(q)' <=> AtBarrier(q)
    BY <1>0, <1>4, OtherSteps DEF Untouched
  <2>2. output' # <<>> => output' = trace'[0] /\ pc'[0] = "done" /\ file' = held'[0]
    <3>1. CASE OutputTrace(r)
      BY <1>0, <3>1 DEF OutputTrace, Protocol!OutputTrace, Protocol!Go
    <3>2. CASE OtherStep(r)
      <4>1. output' = output /\ file' = file /\ \A q \in Ranks : pc[q] = "done" => pc'[q] = "done"
        BY <1>0, <3>2 DEF OtherStep, Protocol!EnterBarrier, Protocol!NoChild, Protocol!ReceiveSize, Protocol!SendSize,
                          Protocol!SendTrace, Protocol!SendReturns, Protocol!Go, Protocol!Waiting
      <4> QED BY <1>0, <2>1, <4>1 DEF SharedInv
    <3> QED BY <1>4, <3>1, <3>2
  <2>3. ASSUME NEW q \in Ranks, ~AtBarrier(q)', Shared(q)'
        PROVE  OneTrace(trace'[q], held'[q]) /\ Alike(trace'[q], WholeTrace(program'[q], q))
    <3>1. ~AtBarrier(q) /\ Shared(q)
      BY <2>1, <2>3 DEF Shared
    <3> QED BY <2>1, <3>1 DEF SharedInv
  <2> QED BY <1>0, <2>1, <2>2, <2>3 DEF SharedInv
<1> QED BY <1>1, <1>2, <1>3, <1>4 DEF Next, Step

\* Ranks that made the same calls leave one trace of them, whatever their number:
\* the merge adds no node and no second value list to it.
THEOREM SameCallsOneTrace == ASSUME R!Tree(N) PROVE Spec => []SameCallsShareNodes
<1>1. Spec => []R!NoneLost
  <2>1. R!SafeSpec => []R!NoneLost
    BY R!NothingLost, SizeAssumption
  <2>2. Init => R!Init
    BY SameProtocol DEF Init
  <2>3. [Next]_vars => [R!Next]_(R!vars)
    BY StepIsProtocolStep, SameProtocol
  <2> QED BY <2>1, <2>2, <2>3, PTL DEF Spec, R!SafeSpec
<1>2. Spec => []SharedInv
  <2>1. R!PInv /\ TraceInv /\ SharedInv /\ [Next]_vars => SharedInv'
    BY StepSharedInv
  <2> QED BY <2>1, InitSharedInv, TracesMerge, PTL DEF Spec
<1>3. ASSUME R!PInv, TraceInv, SharedInv, R!NoneLost, output # <<>>, \A r, q \in Ranks : program[r] = program[q]
      PROVE  /\ Len(output) = Len(trace[N - 1])
             /\ \A i \in DOMAIN output : output[i].ranks = Ranks /\ Len(output[i].values) = 1
  <2>1. 0 \in Ranks /\ N - 1 \in Ranks /\ program[0] = program[N - 1] /\ program[0] \in Programs
    BY <1>3, SizeAssumption DEF Ranks, Protocol!Ranks, TraceInv
  <2>2. output = trace[0] /\ pc[0] = "done" /\ held[0] = Ranks
    <3>1. output = trace[0] /\ pc[0] = "done" /\ file = held[0] /\ 0 \in held[0]
      BY <1>3, <2>1 DEF SharedInv
    <3>2. file = Ranks
      BY <1>3, <3>1 DEF R!NoneLost, R!Ranks, Ranks, Protocol!Ranks
    <3> QED BY <3>1, <3>2
  <2>3. /\ OneTrace(trace[0], Ranks) /\ Alike(trace[0], WholeTrace(program[0], 0))
        /\ Alike(trace[N - 1], WholeTrace(program[N - 1], N - 1))
    <3>1. ~AtBarrier(0) /\ ~AtBarrier(N - 1)
      BY <1>3, <2>1, <2>2 DEF SharedInv, AtBarrier
    <3>2. Shared(0) /\ Shared(N - 1)
      <4>1. held[N - 1] \subseteq Ranks
        BY <1>3, <2>1 DEF R!PInv, R!Types, R!Ranks, Ranks, Protocol!Ranks
      <4> QED BY <1>3, <2>1, <2>2, <4>1 DEF Shared
    <3> QED BY <1>3, <2>1, <2>2, <3>1, <3>2 DEF SharedInv
  <2>4. Len(trace[0]) = Len(trace[N - 1])
    <3>1. Alike(WholeTrace(program[0], 0), WholeTrace(program[0], N - 1))
      BY <2>1, WholeAlike
    <3> QED BY <2>1, <2>3, <3>1 DEF Alike
  <2> QED BY <2>2, <2>3, <2>4 DEF OneTrace, OneNode, One
<1>4. R!PInv /\ TraceInv /\ SharedInv /\ R!NoneLost => SameCallsShareNodes
  BY <1>3 DEF SameCallsShareNodes
<1> QED BY <1>1, <1>2, <1>4, TracesMerge, PTL
-----------------------------------------------------------------------------
(* What a rank reads of a merged parameter. *)

\* A value of other ranks changes nothing for the ranks of a, and holds for its own.
LEMMA AbsorbKeeps ==
  ASSUME NEW A, NEW a, ParamOf(a, A), NEW v \in Values, A \cap v.ranks = {}, NEW r, NEW w
  PROVE  /\ Holds(a, r, w) => Holds(Absorb(a, v), r, w)
         /\ r \in v.ranks => Holds(Absorb(a, v), r, v.vals)
<1>1. a \in Seq(Values) /\ Len(a) \in Nat /\ DOMAIN a = 1..Len(a) /\ RanksOf(a) = A
  BY DEF ParamOf, Parameters
<1>2. \A k \in 1..Len(a) : a[k] \in Values /\ a[k].ranks \subseteq A
  BY <1>1 DEF RanksOf
<1> DEFINE b == Absorb(a, v)
           T == {k \in DOMAIN a : CanMerge(a[k], v)}
           j == Min(T)
<1>3. CASE \E k \in DOMAIN a : CanMerge(a[k], v)
  <2> DEFINE z == MergeValue(a[j], v)
  <2>1. j \in 1..Len(a) /\ CanMerge(a[j], v)
    <3>1. T \subseteq Nat /\ T # {}
      BY <1>1, <1>3
    <3>2. Min(T) \in T
      <4> HIDE DEF T
      <4> QED BY <3>1, Smallest
    <3> QED BY <1>1, <3>2
  <2>2. b = [a EXCEPT ![j] = z]
    BY <1>3 DEF Absorb
  <2> HIDE DEF j, b
  <2>3. DOMAIN b = 1..Len(a) /\ b[j] = z /\ \A k \in 1..Len(a) : k # j => b[k] = a[k]
    BY <1>1, <2>1, <2>2
  <2>4. a[j] \in Values /\ a[j].ranks \subseteq A
    BY <1>2, <2>1
  <2>5. CASE a[j].ranks = v.ranks
    <3>1. r \notin v.ranks /\ r \notin a[j].ranks
      BY <2>4, <2>5
    <3>2. ASSUME Holds(a, r, w) PROVE Holds(b, r, w)
      <4>1. PICK k \in 1..Len(a) : r \in a[k].ranks /\ a[k].vals = w
        BY <1>1, <3>2 DEF Holds
      <4>2. b[k] = a[k]
        BY <2>3, <3>1, <4>1
      <4> QED BY <2>3, <4>1, <4>2 DEF Holds
    <3> QED BY <3>1, <3>2 DEF b
  <2>6. CASE a[j].ranks # v.ranks
    <3>1. a[j].vals = v.vals
      BY <2>1, <2>6 DEF CanMerge
    <3>2. z.ranks = a[j].ranks \cup v.ranks /\ z.vals = a[j].vals
      BY <2>4, <2>6 DEF MergeValue, Values
    <3> HIDE DEF z
    <3>3. ASSUME Holds(a, r, w) PROVE Holds(b, r, w)
      <4>1. PICK k \in 1..Len(a) : r \in a[k].ranks /\ a[k].vals = w
        BY <1>1, <3>3 DEF Holds
      <4>2. r \in b[k].ranks /\ b[k].vals = w
        BY <2>3, <3>2, <4>1
      <4> QED BY <2>3, <4>2 DEF Holds
    <3>4. r \in v.ranks => Holds(b, r, v.vals)
      BY <2>1, <2>3, <3>1, <3>2 DEF Holds
    <3> QED BY <3>3, <3>4 DEF b
  <2> QED BY <2>5, <2>6 DEF b
<1>4. CASE ~ \E k \in DOMAIN a : CanMerge(a[k], v)
  <2>1. b = Append(a, v)
    BY <1>4 DEF Absorb
  <2> HIDE DEF b
  <2>2. b \in Seq(Values) /\ Len(b) = Len(a) + 1 /\ b[Len(a) + 1] = v /\ \A k \in 1..Len(a) : b[k] = a[k]
    BY <1>1, <2>1, AppendProperties
  <2>3. Len(a) + 1 \in DOMAIN b /\ \A k \in 1..Len(a) : k \in DOMAIN b
    BY <1>1, <2>2
  <2> QED BY <1>1, <2>2, <2>3 DEF Holds, b
<1> QED BY <1>3, <1>4

\* A merged parameter holds for each rank what it held in its own.
LEMMA MergeParamKeeps ==
  ASSUME NEW A, NEW B, NEW a, NEW b, ParamOf(a, A), ParamOf(b, B), A \cap B = {},
         NEW r, NEW w, Holds(a, r, w) \/ Holds(b, r, w)
  PROVE  Holds(MergeParam(a, b), r, w)
<1> DEFINE n == Len(b)
<1>1. /\ n \in Nat /\ DOMAIN b = 1..n /\ DOMAIN a = 1..Len(a) /\ RanksOf(a) = A /\ RanksOf(b) = B
      /\ \A k \in 1..n : b[k] \in Values
  BY DEF ParamOf, Parameters
<1>2. r \in A \cup B
  BY <1>1 DEF Holds, RanksOf
<1>3. ~(Len(a) = 1 /\ Len(b) = 1 /\ a[1].ranks = b[1].ranks)
  <2> SUFFICES ASSUME Len(a) = 1, Len(b) = 1, a[1].ranks = b[1].ranks PROVE FALSE
    OBVIOUS
  <2>1. DOMAIN a = {1} /\ DOMAIN b = {1}
    BY <1>1
  <2>2. A = B
    BY <1>1, <2>1 DEF RanksOf
  <2> QED BY <1>2, <2>2
<1>4. PICK f : MergesOf(a, b, f) /\ MergeParam(a, b) = f[n] /\ \A k \in 0..n : ParamOf(f[k], A \cup Upto(b, k))
  BY <1>3, MergeParamSteps
<1> DEFINE So(k) == Holds(a, r, w) \/ \E l \in 1..k : r \in b[l].ranks /\ b[l].vals = w
           P == {k \in 0..n : So(k) => Holds(f[k], r, w)}
<1>5. 0 \in P
  <2>1. 0 \in 0..n /\ f[0] = a
    BY <1>1, <1>4 DEF MergesOf
  <2> QED BY <2>1
<1>6. ASSUME NEW k \in 1..n, k - 1 \in P PROVE k \in P
  <2> DEFINE x == f[k - 1]
             v == b[k]
             C == A \cup Upto(b, k - 1)
  <2>1. k \in 0..n /\ k - 1 \in 0..n
    BY <1>1
  <2>2. ParamOf(x, C) /\ C \cap v.ranks = {} /\ v \in Values /\ f[k] = Absorb(x, v)
    BY <1>1, <1>4, <2>1, UptoApart DEF MergesOf
  <2>3. So(k - 1) => Holds(x, r, w)
    BY <1>6
  <2>4. So(k) => So(k - 1) \/ (r \in v.ranks /\ v.vals = w)
    <3>1. \A l \in 1..k : l \in 1..(k - 1) \/ l = k
      BY <1>1
    <3> QED BY <3>1
  <2> HIDE DEF So, x, v, C
  <2>5. So(k) => Holds(f[k], r, w)
    BY <2>2, <2>3, <2>4, AbsorbKeeps
  <2> QED BY <2>1, <2>5
<1>7. So(n) => Holds(f[n], r, w)
  <2> HIDE DEF P
  <2>1. \A k \in 0..n : k \in P
    BY <1>1, <1>5, <1>6, UpTo
  <2>2. n \in P
    BY <1>1, <2>1
  <2> QED BY <2>2 DEF P
<1>8. So(n)
  BY <1>1 DEF Holds
<1> QED BY <1>4, <1>7, <1>8

\* One level of r's loops, or one that is not r's.
LevelReads(item, r, own, d) ==
  IF d <= Len(own)
  THEN Holds(item.mem, r, own[d].mem[1].vals) /\ Holds(item.iter, r, own[d].iter[1].vals)
  ELSE r \notin RanksOf(item.mem)
LoopsRead(loops, r, own) ==
  Len(own) <= Len(loops) /\ \A d \in DOMAIN loops : LevelReads(loops[d], r, own, d)

\* The merge of a level of the loops of both.
LEMMA LevelKeeps ==
  ASSUME NEW A, NEW B, A \cap B = {}, NEW x, NEW y, ItemOf(x, A), ItemOf(y, B), NEW r, NEW own, NEW d,
         (r \in A /\ LevelReads(x, r, own, d)) \/ (r \in B /\ LevelReads(y, r, own, d))
  PROVE  LevelReads([mem |-> MergeParam(x.mem, y.mem), iter |-> MergeParam(x.iter, y.iter)], r, own, d)
<1> DEFINE mem == MergeParam(x.mem, y.mem)
           iter == MergeParam(x.iter, y.iter)
<1>1. PICK L \in SUBSET A : ParamOf(x.mem, L) /\ ParamOf(x.iter, L)
  BY DEF ItemOf
<1>2. PICK O \in SUBSET B : ParamOf(y.mem, O) /\ ParamOf(y.iter, O)
  BY DEF ItemOf
<1>3. L \cap O = {}
  OBVIOUS
<1>4. CASE d <= Len(own)
  <2> DEFINE v == own[d].mem[1].vals
             w == own[d].iter[1].vals
  <2>1. (Holds(x.mem, r, v) /\ Holds(x.iter, r, w)) \/ (Holds(y.mem, r, v) /\ Holds(y.iter, r, w))
    BY <1>4 DEF LevelReads
  <2> HIDE DEF v, w
  <2>2. Holds(mem, r, v) /\ Holds(iter, r, w)
    BY <1>1, <1>2, <1>3, <2>1, MergeParamKeeps
  <2> QED BY <1>4, <2>2 DEF LevelReads, v, w
<1>5. CASE ~(d <= Len(own))
  <2>1. RanksOf(mem) = L \cup O /\ RanksOf(x.mem) = L /\ RanksOf(y.mem) = O
    BY <1>1, <1>2, <1>3, MergeParamTyped DEF ParamOf
  <2>2. r \notin L \cup O
    BY <1>5, <2>1 DEF LevelReads
  <2> QED BY <1>5, <2>1, <2>2 DEF LevelReads
<1> QED BY <1>4, <1>5

\* r's loops stay the outermost, as deep as they were.
LEMMA LoopsKeep ==
  ASSUME NEW A, NEW B, A \cap B = {}, NEW l \in Seq(LoopItems), NEW o \in Seq(LoopItems),
         \A d \in DOMAIN l : ItemOf(l[d], A), \A d \in DOMAIN o : ItemOf(o[d], B),
         NEW r, NEW own, Len(own) \in Nat, (r \in A /\ LoopsRead(l, r, own)) \/ (r \in B /\ LoopsRead(o, r, own))
  PROVE  LoopsRead(InterMergeLoops(l, o), r, own)
<1> DEFINE n == Max({Len(l), Len(o)})
           J(i) == [mem |-> MergeParam(l[i].mem, o[i].mem), iter |-> MergeParam(l[i].iter, o[i].iter)]
           G(i) == IF i > Len(o) THEN l[i] ELSE IF i > Len(l) THEN o[i] ELSE J(i)
           u == InterMergeLoops(l, o)
<1>1. Len(l) \in Nat /\ Len(o) \in Nat /\ DOMAIN l = 1..Len(l) /\ DOMAIN o = 1..Len(o)
  OBVIOUS
<1>2. n \in {Len(l), Len(o)} /\ n >= Len(l) /\ n >= Len(o)
  <2> DEFINE S == {Len(l), Len(o)}
  <2>1. S \subseteq 0..(Len(l) + Len(o)) /\ S # {} /\ Len(l) + Len(o) \in Nat
    BY <1>1
  <2> HIDE DEF S
  <2>2. Max(S) \in S /\ \A x \in S : x <= Max(S)
    BY <2>1, Largest
  <2> QED BY <1>1, <2>2 DEF S
<1>3. u = [i \in 1..n |-> G(i)]
  BY DEF InterMergeLoops
<1> HIDE DEF n, u
<1>4. n \in Nat
  BY <1>1, <1>2
<1>5. Len(u) = n /\ DOMAIN u = 1..n /\ \A i \in 1..n : u[i] = G(i)
  <2> HIDE DEF G
  <2> QED BY <1>3, <1>4
<1>6. ASSUME NEW i \in 1..n PROVE LevelReads(G(i), r, own, i)
  <2>0. i \in Nat /\ i >= 1
    BY <1>4
  <2>1. CASE i > Len(o)
    <3>1. i \in DOMAIN l /\ G(i) = l[i]
      BY <1>1, <1>2, <2>0, <2>1
    <3>2. CASE r \in A /\ LoopsRead(l, r, own)
      BY <3>1, <3>2 DEF LoopsRead
    <3>3. CASE r \in B /\ LoopsRead(o, r, own)
      <4>1. ~(i <= Len(own))
        BY <1>1, <2>0, <2>1, <3>3 DEF LoopsRead
      <4>2. RanksOf(l[i].mem) \subseteq A /\ r \notin A
        BY <3>1, <3>3 DEF ItemOf, ParamOf
      <4> QED BY <3>1, <4>1, <4>2 DEF LevelReads
    <3> QED BY <3>2, <3>3
  <2>2. CASE ~(i > Len(o)) /\ i > Len(l)
    <3>1. i \in DOMAIN o /\ G(i) = o[i]
      BY <1>1, <2>0, <2>2
    <3>2. CASE r \in B /\ LoopsRead(o, r, own)
      BY <3>1, <3>2 DEF LoopsRead
    <3>3. CASE r \in A /\ LoopsRead(l, r, own)
      <4>1. ~(i <= Len(own))
        BY <1>1, <2>0, <2>2, <3>3 DEF LoopsRead
      <4>2. RanksOf(o[i].mem) \subseteq B /\ r \notin B
        BY <3>1, <3>3 DEF ItemOf, ParamOf
      <4> QED BY <3>1, <4>1, <4>2 DEF LevelReads
    <3> QED BY <3>2, <3>3
  <2>3. CASE ~(i > Len(o)) /\ ~(i > Len(l))
    <3>1. i \in DOMAIN l /\ i \in DOMAIN o /\ G(i) = J(i)
      BY <1>1, <2>0, <2>3
    <3>2. (r \in A /\ LevelReads(l[i], r, own, i)) \/ (r \in B /\ LevelReads(o[i], r, own, i))
      BY <3>1 DEF LoopsRead
    <3>3. ItemOf(l[i], A) /\ ItemOf(o[i], B)
      BY <3>1
    <3> DEFINE x == l[i]
               y == o[i]
               z == [mem |-> MergeParam(x.mem, y.mem), iter |-> MergeParam(x.iter, y.iter)]
    <3>4. LevelReads(z, r, own, i)
      <4> HIDE DEF x, y
      <4>1. /\ ItemOf(x, A) /\ ItemOf(y, B)
            /\ (r \in A /\ LevelReads(x, r, own, i)) \/ (r \in B /\ LevelReads(y, r, own, i))
        BY <3>2, <3>3 DEF x, y
      <4> QED BY <4>1, LevelKeeps
    <3>5. G(i) = z
      BY <3>1
    <3> QED BY <3>4, <3>5
  <2> QED BY <2>1, <2>2, <2>3
<1>7. Len(own) <= n
  <2>1. Len(own) <= Len(l) \/ Len(own) <= Len(o)
    BY DEF LoopsRead
  <2>2. \A i, j, k \in Nat : i <= j /\ j <= k => i <= k
    OBVIOUS
  <2>3. Len(own) \in Nat /\ Len(l) \in Nat /\ Len(o) \in Nat /\ Len(l) <= n /\ Len(o) <= n
    BY <1>1, <1>2
  <2> QED BY <1>4, <2>1, <2>2, <2>3
<1> HIDE DEF G
<1> QED BY <1>5, <1>6, <1>7 DEF LoopsRead, u

\* A merged pair reads for each rank as its own node did.
LEMMA PairKeeps ==
  ASSUME NEW A, NEW B, A \cap B = {}, NEW x, NEW y, NodeOf(x, A), NodeOf(y, B), x.op = y.op,
         NEW r, NEW own \in Nodes, (r \in A /\ ReadsAs(x, r, own)) \/ (r \in B /\ ReadsAs(y, r, own))
  PROVE  ReadsAs(MergePair(x, y), r, own)
<1> DEFINE c == MergeParam(x.count, y.count)
           v == MergeParam(x.values, y.values)
           l == InterMergeLoops(x.loops, y.loops)
           new == MergePair(x, y)
<1>1. /\ x \in Nodes /\ y \in Nodes /\ x.loops \in Seq(LoopItems) /\ y.loops \in Seq(LoopItems)
      /\ own.loops \in Seq(LoopItems) /\ Len(own.loops) \in Nat
  BY NodeTyped DEF NodeOf
<1>2. new = [x EXCEPT !.ranks = x.ranks \cup y.ranks, !.count = c, !.values = v, !.loops = l]
  BY <1>1 DEF MergePair, Nodes
<1>3. Holds(c, r, own.count[1].vals)
  BY MergeParamKeeps DEF NodeOf, ReadsAs
<1>4. Holds(v, r, own.values[1].vals)
  BY MergeParamKeeps DEF NodeOf, ReadsAs
<1>5. LoopsRead(l, r, own.loops)
  <2>1. (r \in A /\ LoopsRead(x.loops, r, own.loops)) \/ (r \in B /\ LoopsRead(y.loops, r, own.loops))
    BY DEF ReadsAs, LoopsRead, LevelReads
  <2>2. (\A d \in DOMAIN x.loops : ItemOf(x.loops[d], A)) /\ (\A d \in DOMAIN y.loops : ItemOf(y.loops[d], B))
    BY DEF NodeOf
  <2> QED BY <1>1, <2>1, <2>2, LoopsKeep
<1> HIDE DEF c, v, l, new
<1>6. new.op = x.op /\ new.count = c /\ new.values = v /\ new.loops = l
  BY <1>1, <1>2 DEF Nodes
<1>7. x.op = own.op
  BY DEF ReadsAs
<1> QED BY <1>3, <1>4, <1>5, <1>6, <1>7 DEF ReadsAs, LoopsRead, LevelReads, new
-----------------------------------------------------------------------------
(* A merged trace is an interleaving of the two, some of whose nodes are joined. *)

\* How a node of the merge comes about, from the f-th node of m on and the g-th of s.
Woven(m, s, node, f, f2, g, g2) ==
  \/ f2 = f + 1 /\ g2 = g /\ f2 \in 1..Len(m) /\ node = m[f2]
  \/ f2 = f /\ g2 = g + 1 /\ g2 \in 1..Len(s) /\ node = s[g2]
  \/ /\ f2 = f + 1 /\ g2 = g + 1 /\ f2 \in 1..Len(m) /\ g2 \in 1..Len(s)
     /\ m[f2].op = s[g2].op /\ node = MergePair(m[f2], s[g2])

\* t is woven of the first i nodes of m and the first j of s; F and G count them.
Weave(m, s, t, F, G, i, j) ==
  /\ t \in Seq(Nodes) /\ Len(t) \in Nat
  /\ F \in [0..Len(t) -> Nat] /\ G \in [0..Len(t) -> Nat]
  /\ F[0] = 0 /\ G[0] = 0 /\ F[Len(t)] = i /\ G[Len(t)] = j
  /\ \A p \in 1..Len(t) : Woven(m, s, t[p], F[p - 1], F[p], G[p - 1], G[p])

\* The nodes in front of a pair: those of m, then those of s.
Between(u, m, s, i, j, x, y) ==
  /\ u \in Seq(Nodes) /\ Len(u) = (x - 1 - i) + (y - 1 - j)
  /\ \A l \in 1..(x - 1 - i) : u[l] = m[i + l]
  /\ \A l \in 1..(y - 1 - j) : u[(x - 1 - i) + l] = s[j + l]

LEMMA Segment ==
  ASSUME NEW v \in Seq(Nodes), NEW i \in Nat, NEW x \in 1..Len(v), i < x
  PROVE  /\ SubSeq(v, i + 1, x - 1) \in Seq(Nodes) /\ Len(SubSeq(v, i + 1, x - 1)) = x - 1 - i
         /\ \A l \in 1..(x - 1 - i) : SubSeq(v, i + 1, x - 1)[l] = v[i + l]
<1> DEFINE M == SubSeq(v, i + 1, x - 1)
<1>1. Len(v) \in Nat /\ x \in Nat /\ i + 1 \in Int /\ x - 1 \in Int
  OBVIOUS
<1>2. \A l \in (i + 1)..(x - 1) : v[l] \in Nodes
  <2> TAKE l \in (i + 1)..(x - 1)
  <2>1. l \in 1..Len(v)
    BY <1>1
  <2> QED BY <2>1
<1>3. /\ M \in Seq(Nodes) /\ Len(M) = IF i + 1 <= x - 1 THEN (x - 1) - (i + 1) + 1 ELSE 0
      /\ \A l \in 1..((x - 1) - (i + 1) + 1) : M[l] = v[(i + 1) + l - 1]
  BY <1>1, <1>2, SubSeqProperties
<1> HIDE DEF M
<1>4. Len(M) = x - 1 - i
  BY <1>1, <1>3
<1>5. ASSUME NEW l \in 1..(x - 1 - i) PROVE M[l] = v[i + l]
  <2>1. l \in 1..((x - 1) - (i + 1) + 1) /\ (i + 1) + l - 1 = i + l
    BY <1>1
  <2> QED BY <1>3, <2>1
<1> QED BY <1>3, <1>4, <1>5 DEF M

LEMMA BetweenPairs ==
  ASSUME NEW m \in Seq(Nodes), NEW s \in Seq(Nodes), NEW i \in Nat, NEW j \in Nat,
         NEW x \in 1..Len(m), NEW y \in 1..Len(s), i < x, j < y
  PROVE  Between(SubSeq(m, i + 1, x - 1) \o SubSeq(s, j + 1, y - 1), m, s, i, j, x, y)
<1> DEFINE M == SubSeq(m, i + 1, x - 1)
           S == SubSeq(s, j + 1, y - 1)
           u == M \o S
           a == x - 1 - i
           e == y - 1 - j
<1>1. /\ M \in Seq(Nodes) /\ Len(M) = a /\ \A l \in 1..a : M[l] = m[i + l]
      /\ S \in Seq(Nodes) /\ Len(S) = e /\ \A l \in 1..e : S[l] = s[j + l]
  BY Segment
<1>2. a \in Nat /\ e \in Nat
  OBVIOUS
<1> HIDE DEF M, S, a, e
<1>3. /\ u \in Seq(Nodes) /\ Len(u) = Len(M) + Len(S)
      /\ \A l \in 1..(Len(M) + Len(S)) : u[l] = IF l <= Len(M) THEN M[l] ELSE S[l - Len(M)]
  BY <1>1, ConcatProperties
<1> HIDE DEF u
<1>4. ASSUME NEW l \in 1..a PROVE u[l] = m[i + l]
  <2>1. l \in 1..(Len(M) + Len(S)) /\ l <= Len(M)
    BY <1>1, <1>2
  <2> QED BY <1>1, <1>3, <2>1
<1>5. ASSUME NEW l \in 1..e PROVE u[a + l] = s[j + l]
  <2>1. a + l \in 1..(Len(M) + Len(S)) /\ ~(a + l <= Len(M)) /\ (a + l) - Len(M) = l
    BY <1>1, <1>2
  <2> QED BY <1>1, <1>3, <2>1
<1> QED BY <1>1, <1>3, <1>4, <1>5 DEF Between, a, e, u, M, S

LEMMA PlacesBehind ==
  ASSUME NEW p \in Nat, NEW a \in Nat, NEW b \in Nat, NEW i \in Nat, NEW j \in Nat
  PROVE  (~(p <= b) => i + (p - b) \in Nat) /\ (~(p <= b + a) => j + (p - (b + a)) \in Nat)
OBVIOUS

\* A pair, and the nodes in front of it, woven on.
LEMMA WeaveOn ==
  ASSUME NEW m \in Seq(Nodes), NEW s \in Seq(Nodes), NEW i \in Nat, NEW j \in Nat,
         NEW x \in 1..Len(m), NEW y \in 1..Len(s), i < x, j < y, m[x].op = s[y].op,
         NEW t0, NEW F0, NEW G0, Weave(m, s, t0, F0, G0, i, j),
         NEW u, Between(u, m, s, i, j, x, y), NEW t, Extends(t0, u, MergePair(m[x], s[y]), t)
  PROVE  \E F, G : Weave(m, s, t, F, G, x, y)
<1> DEFINE n == Len(t)
           b == Len(t0)
           a == x - 1 - i
           e == y - 1 - j
           F == [p \in 0..n |-> IF p <= b THEN F0[p] ELSE IF p <= b + a THEN i + (p - b) ELSE IF p < n THEN x - 1 ELSE x]
           G == [p \in 0..n |-> IF p <= b THEN G0[p] ELSE IF p <= b + a THEN j ELSE IF p < n THEN j + (p - (b + a)) ELSE y]
<1>1. /\ a \in Nat /\ e \in Nat /\ b \in Nat /\ n = b + a + e + 1 /\ n \in Nat /\ x \in Nat /\ y \in Nat
      /\ x = i + a + 1 /\ y = j + e + 1
  <2>1. a \in Nat /\ e \in Nat /\ x \in Nat /\ y \in Nat /\ x = i + a + 1 /\ y = j + e + 1
    OBVIOUS
  <2>2. b \in Nat /\ n = b + (a + e) + 1
    BY DEF Extends, Between, Weave
  <2> QED BY <2>1, <2>2
<1>2. /\ t \in Seq(Nodes) /\ t[n] = MergePair(m[x], s[y]) /\ \A l \in 1..b : t[l] = t0[l]
      /\ \A l \in 1..(a + e) : t[b + l] = u[l]
  BY DEF Extends, Between
<1>3. (\A l \in 1..a : u[l] = m[i + l]) /\ (\A l \in 1..e : u[a + l] = s[j + l])
  BY DEF Between
<1>4. /\ F0 \in [0..b -> Nat] /\ G0 \in [0..b -> Nat] /\ F0[0] = 0 /\ G0[0] = 0 /\ F0[b] = i /\ G0[b] = j
      /\ \A p \in 1..b : Woven(m, s, t0[p], F0[p - 1], F0[p], G0[p - 1], G0[p])
  BY DEF Weave
<1> HIDE DEF n, b, a, e
<1>5. ASSUME NEW p \in 0..n
      PROVE  /\ F[p] = IF p <= b THEN F0[p] ELSE IF p <= b + a THEN i + (p - b) ELSE IF p < n THEN x - 1 ELSE x
             /\ G[p] = IF p <= b THEN G0[p] ELSE IF p <= b + a THEN j ELSE IF p < n THEN j + (p - (b + a)) ELSE y
  OBVIOUS
<1>6. F \in [0..n -> Nat] /\ G \in [0..n -> Nat]
  <2>1. ASSUME NEW p \in 0..n PROVE F[p] \in Nat /\ G[p] \in Nat
    <3>1. p \in Nat /\ (p <= b => F0[p] \in Nat /\ G0[p] \in Nat)
      BY <1>1, <1>4
    <3> HIDE DEF F, G
    <3>2. /\ ~(p <= b) => i + (p - b) \in Nat
          /\ ~(p <= b + a) => j + (p - (b + a)) \in Nat
      BY <1>1, <3>1, PlacesBehind
    <3>5. x - 1 \in Nat /\ x \in Nat /\ y \in Nat
      BY <1>1
    <3>3. F[p] \in Nat
      BY <1>5, <3>1, <3>2, <3>5
    <3>4. G[p] \in Nat
      BY <1>5, <3>1, <3>2, <3>5
    <3> QED BY <3>3, <3>4
  <2>2. DOMAIN F = 0..n /\ DOMAIN G = 0..n
    OBVIOUS
  <2> QED BY <2>1
<1> HIDE DEF F, G
<1>7. \A p \in 0..b : F[p] = F0[p] /\ G[p] = G0[p]
  <2> TAKE p \in 0..b
  <2>1. p \in 0..n /\ p <= b
    BY <1>1
  <2> QED BY <1>5, <2>1
<1>8. \A l \in 0..a : F[b + l] = i + l /\ G[b + l] = j
  <2> TAKE l \in 0..a
  <2>1. b + l \in 0..n /\ b + l <= b + a /\ (b + l <= b <=> l = 0) /\ (b + l) - b = l /\ l \in Nat
    BY <1>1
  <2>2. CASE l = 0
    BY <1>1, <1>4, <1>5, <2>1, <2>2
  <2>3. CASE l # 0
    BY <1>5, <2>1, <2>3
  <2> QED BY <2>2, <2>3
<1>9. \A l \in 0..e : F[b + a + l] = x - 1 /\ G[b + a + l] = j + l
  <2> TAKE l \in 0..e
  <2>1. CASE l = 0
    <3>1. a \in 0..a /\ b + a + l = b + a /\ i + a = x - 1 /\ j + l = j
      BY <1>1, <2>1
    <3> QED BY <1>8, <3>1
  <2>2. CASE l # 0
    <3>1. /\ b + a + l \in 0..n /\ ~(b + a + l <= b) /\ ~(b + a + l <= b + a) /\ b + a + l < n
          /\ (b + a + l) - (b + a) = l
      BY <1>1, <2>2
    <3> QED BY <1>5, <3>1
  <2> QED BY <2>1, <2>2
<1>10. F[n] = x /\ G[n] = y
  <2>1. n \in 0..n /\ ~(n <= b) /\ ~(n <= b + a) /\ ~(n < n)
    BY <1>1
  <2> QED BY <1>5, <2>1
<1>11. ASSUME NEW p \in 1..n PROVE Woven(m, s, t[p], F[p - 1], F[p], G[p - 1], G[p])
  <2>0. p \in Nat /\ p >= 1 /\ p <= n
    BY <1>1
  <2>1. CASE p <= b
    <3>1. p \in 1..b /\ p \in 0..b /\ p - 1 \in 0..b
      BY <1>1, <2>0, <2>1
    <3>2. t[p] = t0[p] /\ F[p] = F0[p] /\ G[p] = G0[p] /\ F[p - 1] = F0[p - 1] /\ G[p - 1] = G0[p - 1]
      BY <1>2, <1>7, <3>1
    <3> QED BY <1>4, <3>1, <3>2
  <2>2. CASE b < p /\ p <= b + a
    <3> DEFINE l == p - b
    <3>1. l \in 1..a /\ l \in 0..a /\ l - 1 \in 0..a /\ l \in 1..(a + e) /\ b + l = p /\ b + (l - 1) = p - 1
      BY <1>1, <2>0, <2>2
    <3>2. i + l \in 1..Len(m) /\ i + l = (i + (l - 1)) + 1
      BY <1>1, <3>1
    <3> HIDE DEF l
    <3>3. t[b + l] = m[i + l] /\ F[b + l] = i + l /\ F[b + (l - 1)] = i + (l - 1) /\ G[b + l] = j /\ G[b + (l - 1)] = j
      BY <1>2, <1>3, <1>8, <3>1
    <3>4. t[p] = m[i + l] /\ F[p] = i + l /\ F[p - 1] = i + (l - 1) /\ G[p] = j /\ G[p - 1] = j
      BY <3>1, <3>3
    <3> QED BY <3>2, <3>4 DEF Woven
  <2>3. CASE b + a < p /\ p < n
    <3> DEFINE l == p - (b + a)
    <3>1. /\ l \in 1..e /\ l \in 0..e /\ l - 1 \in 0..e /\ a + l \in 1..(a + e) /\ b + a + l = p /\ b + a + (l - 1) = p - 1
          /\ b + (a + l) = p
      BY <1>1, <2>0, <2>3
    <3>2. j + l \in 1..Len(s) /\ j + l = (j + (l - 1)) + 1
      BY <1>1, <3>1
    <3> HIDE DEF l
    <3>3. /\ t[b + (a + l)] = s[j + l] /\ F[b + a + l] = x - 1 /\ F[b + a + (l - 1)] = x - 1
          /\ G[b + a + l] = j + l /\ G[b + a + (l - 1)] = j + (l - 1)
      BY <1>2, <1>3, <1>9, <3>1
    <3>4. t[p] = s[j + l] /\ F[p] = x - 1 /\ F[p - 1] = x - 1 /\ G[p] = j + l /\ G[p - 1] = j + (l - 1)
      BY <3>1, <3>3
    <3> QED BY <3>2, <3>4 DEF Woven
  <2>4. CASE p = n
    <3>1. e \in 0..e /\ b + a + e = p - 1
      BY <1>1, <2>4
    <3>2. F[p - 1] = x - 1 /\ G[p - 1] = j + e
      BY <1>9, <3>1
    <3>3. x = (x - 1) + 1 /\ y = (j + e) + 1
      BY <1>1
    <3> QED BY <1>2, <1>10, <2>4, <3>2, <3>3 DEF Woven
  <2> QED BY <1>1, <2>0, <2>1, <2>2, <2>3, <2>4
<1>12. F[0] = 0 /\ G[0] = 0
  <2>1. 0 \in 0..b
    BY <1>1
  <2> QED BY <1>4, <1>7, <2>1
<1>13. Weave(m, s, t, F, G, x, y)
  BY <1>1, <1>2, <1>6, <1>10, <1>11, <1>12 DEF Weave, n
<1> QED BY <1>13

\* The merge is woven of all of both.
LEMMA MergeWeaves ==
  ASSUME NEW A, NEW B, A \cap B = {}, NEW m, NEW s, TraceOf(m, A), TraceOf(s, B)
  PROVE  \E F, G : Weave(m, s, LCSMergeTrace(m, s), F, G, Len(m), Len(s))
<1> DEFINE c == LCS(m, s)
           n == Len(c)
           i(k) == IF k = 0 THEN 0 ELSE c[k][1]
           j(k) == IF k = 0 THEN 0 ELSE c[k][2]
<1>1. PICK h : PairsOf(m, s, c) /\ MergeOf(m, s, c, h) /\ LCSMergeTrace(m, s) = h[n]
  BY MergeSteps
<1> HIDE DEF c
<1>2. n \in Nat /\ n >= 2 /\ m \in Seq(Nodes) /\ s \in Seq(Nodes) /\ Len(m) \in Nat /\ Len(s) \in Nat
  BY <1>1 DEF PairsOf, Pairs, TraceOf
<1>3. ASSUME NEW k \in 1..n
      PROVE  /\ c[k][1] \in 1..Len(m) /\ c[k][2] \in 1..Len(s) /\ m[c[k][1]].op = s[c[k][2]].op
             /\ i(k - 1) \in Nat /\ j(k - 1) \in Nat /\ i(k - 1) < c[k][1] /\ j(k - 1) < c[k][2]
             /\ i(k) = c[k][1] /\ j(k) = c[k][2]
  <2>1. c[k][1] \in 1..Len(m) /\ c[k][2] \in 1..Len(s) /\ m[c[k][1]].op = s[c[k][2]].op
    BY <1>1 DEF PairsOf
  <2>2. CASE k = 1
    BY <1>2, <2>1, <2>2
  <2>3. CASE k # 1
    <3>1. k \in 2..n /\ k - 1 \in 1..n /\ k - 1 # 0
      BY <1>2, <2>3
    <3>2. c[k - 1][1] \in 1..Len(m) /\ c[k - 1][2] \in 1..Len(s) /\ c[k - 1][1] < c[k][1] /\ c[k - 1][2] < c[k][2]
      BY <1>1, <3>1 DEF PairsOf
    <3> QED BY <1>2, <2>1, <3>1, <3>2
  <2> QED BY <2>2, <2>3
<1>4. i(0) = 0 /\ j(0) = 0 /\ i(n) = Len(m) /\ j(n) = Len(s)
  BY <1>1, <1>2 DEF PairsOf
<1>5. ASSUME NEW k \in 1..n
      PROVE  Before(m, s, c, k) = SubSeq(m, i(k - 1) + 1, c[k][1] - 1) \o SubSeq(s, j(k - 1) + 1, c[k][2] - 1)
  <2>1. k - 1 = 0 <=> k = 1
    BY <1>2
  <2> QED BY <2>1 DEF Before
<1> HIDE DEF n, i, j
<1> DEFINE P == {k \in 0..n : \E F, G : Weave(m, s, h[k], F, G, i(k), j(k))}
<1>6. 0 \in P
  <2> DEFINE Z == [p \in 0..0 |-> 0]
  <2>1. Z \in [0..0 -> Nat] /\ Z[0] = 0
    OBVIOUS
  <2> HIDE DEF Z
  <2>2. h[0] = <<>> /\ <<>> \in Seq(Nodes) /\ Len(<<>>) = 0
    BY <1>1 DEF MergeOf
  <2>3. Weave(m, s, <<>>, Z, Z, 0, 0)
    BY <2>1, <2>2 DEF Weave
  <2>4. \E F, G : Weave(m, s, h[0], F, G, i(0), j(0))
    BY <1>4, <2>2, <2>3
  <2> QED BY <1>2, <2>4
<1>7. ASSUME NEW k \in 1..n, k - 1 \in P PROVE k \in P
  <2> DEFINE x == c[k][1]
             y == c[k][2]
             a == i(k - 1)
             e == j(k - 1)
             u == Before(m, s, c, k)
             t0 == h[k - 1]
             t == h[k]
             p == PairAt(m, s, c, k)
  <2>1. PICK F0, G0 : Weave(m, s, t0, F0, G0, a, e)
    BY <1>7
  <2>2. /\ x \in 1..Len(m) /\ y \in 1..Len(s) /\ m[x].op = s[y].op /\ a \in Nat /\ e \in Nat /\ a < x /\ e < y
        /\ i(k) = x /\ j(k) = y
    BY <1>3
  <2>3. u = SubSeq(m, a + 1, x - 1) \o SubSeq(s, e + 1, y - 1)
    BY <1>5
  <2>4. p = MergePair(m[x], s[y])
    BY DEF PairAt
  <2>5. p \in Nodes
    <3>1. PairsMerge(m, s, A \cup B)
      BY PairTyped
    <3> HIDE DEF x, y
    <3> QED BY <2>2, <2>4, <3>1 DEF PairsMerge
  <2>6. Extends(t0, u, p, t)
    <3>1. u \in Seq(Nodes)
      BY <1>1, BeforeTyped DEF n
    <3> HIDE DEF x, y, a, e
    <3> QED BY <1>1, <1>2, <2>5, <3>1, MergeNodes DEF n
  <2> HIDE DEF x, y, a, e, u, t0, t, p
  <2>7. Between(u, m, s, a, e, x, y)
    BY <1>2, <2>2, <2>3, BetweenPairs
  <2>8. \E F, G : Weave(m, s, t, F, G, x, y)
    BY <1>2, <2>1, <2>2, <2>4, <2>6, <2>7, WeaveOn
  <2>9. \E F, G : Weave(m, s, h[k], F, G, i(k), j(k))
    BY <2>2, <2>8 DEF t
  <2> QED BY <1>2, <2>9
<1> HIDE DEF P
<1>8. \A k \in 0..n : k \in P
  BY <1>2, <1>6, <1>7, UpTo
<1>9. n \in P
  BY <1>2, <1>8
<1> QED BY <1>1, <1>4, <1>9 DEF P, n

\* The nodes of a rank, counted one by one.
LEMMA CountNodes ==
  ASSUME NEW t, NEW r
  PROVE  /\ NodesOf(t, r, 0) = 0
         /\ \A i \in Nat : NodesOf(t, r, i) \in Nat
         /\ \A i \in Nat \ {0} :
              NodesOf(t, r, i) = IF r \in t[i].ranks THEN NodesOf(t, r, i - 1) + 1 ELSE NodesOf(t, r, i - 1)
<1> DEFINE S(i) == {j \in 1..i : r \in t[j].ranks}
<1>1. ASSUME NEW i \in Nat PROVE IsFiniteSet(S(i)) /\ NodesOf(t, r, i) = Cardinality(S(i)) /\ Cardinality(S(i)) \in Nat
  <2>1. IsFiniteSet(1..i)
    BY FS_Interval
  <2>2. S(i) \in SUBSET (1..i)
    OBVIOUS
  <2>3. IsFiniteSet(S(i))
    <3> HIDE DEF S
    <3> QED BY <2>1, <2>2, FS_Subset
  <2>4. NodesOf(t, r, i) = Cardinality(S(i))
    BY DEF NodesOf
  <2> HIDE DEF S
  <2> QED BY <2>3, <2>4, FS_CardinalityType
<1>2. S(0) = {}
  OBVIOUS
<1>3. ASSUME NEW i \in Nat \ {0}
      PROVE  /\ r \in t[i].ranks => S(i) = S(i - 1) \cup {i}
             /\ r \notin t[i].ranks => S(i) = S(i - 1)
             /\ i \notin S(i - 1)
  <2>1. \A j : j \in 1..i <=> (j \in 1..(i - 1) \/ j = i)
    OBVIOUS
  <2> QED BY <2>1
<1> HIDE DEF S
<1>4. NodesOf(t, r, 0) = 0
  BY <1>1, <1>2, FS_EmptySet
<1>5. ASSUME NEW i \in Nat \ {0}
      PROVE  NodesOf(t, r, i) = IF r \in t[i].ranks THEN NodesOf(t, r, i - 1) + 1 ELSE NodesOf(t, r, i - 1)
  <2>1. i \in Nat /\ i - 1 \in Nat
    OBVIOUS
  <2>2. IsFiniteSet(S(i - 1)) /\ NodesOf(t, r, i - 1) = Cardinality(S(i - 1)) /\ NodesOf(t, r, i) = Cardinality(S(i))
    BY <1>1, <2>1
  <2>3. CASE r \in t[i].ranks
    <3>1. Cardinality(S(i - 1) \cup {i}) = Cardinality(S(i - 1)) + 1
      BY <1>3, <2>2, FS_AddElement
    <3> QED BY <1>3, <2>2, <2>3, <3>1
  <2>4. CASE r \notin t[i].ranks
    BY <1>3, <2>2, <2>4
  <2> QED BY <2>3, <2>4
<1> QED BY <1>1, <1>4, <1>5

\* r's nodes up to one of its own are of r's nodes.
LEMMA NodesWithin ==
  ASSUME NEW t, NEW r, NEW n \in Nat, NEW i \in 1..n, r \in t[i].ranks
  PROVE  NodesOf(t, r, i) \in 1..NodesOf(t, r, n)
<1> DEFINE S(k) == {j \in 1..k : r \in t[j].ranks}
<1>1. i \in Nat \ {0} /\ i - 1 \in Nat /\ i <= n
  OBVIOUS
<1>2. NodesOf(t, r, i) = NodesOf(t, r, i - 1) + 1 /\ NodesOf(t, r, i - 1) \in Nat /\ NodesOf(t, r, n) \in Nat
  BY <1>1, CountNodes
<1>3. IsFiniteSet(1..n)
  BY FS_Interval
<1>4. S(n) \in SUBSET (1..n) /\ S(i) \in SUBSET S(n)
  <2>1. \A j \in 1..i : j \in 1..n
    BY <1>1
  <2> QED BY <2>1
<1>5. NodesOf(t, r, i) = Cardinality(S(i)) /\ NodesOf(t, r, n) = Cardinality(S(n))
  BY DEF NodesOf
<1> HIDE DEF S
<1>6. IsFiniteSet(S(n))
  BY <1>3, <1>4, FS_Subset
<1>7. Cardinality(S(i)) <= Cardinality(S(n))
  BY <1>4, <1>6, FS_Subset
<1> QED BY <1>2, <1>5, <1>7

\* t goes along m as far as r is concerned: F counts the nodes of m it has passed.
Follows(t, F, m, r) ==
  \A p \in 1..Len(t) :
    \/ F[p] = F[p - 1] /\ r \notin t[p].ranks
    \/ /\ F[p] = F[p - 1] + 1 /\ F[p] \in 1..Len(m) /\ (r \in t[p].ranks <=> r \in m[F[p]].ranks)
       /\ \A o \in Nodes : (r \in m[F[p]].ranks /\ ReadsAs(m[F[p]], r, o)) => ReadsAs(t[p], r, o)

\* Such a trace keeps r's nodes.
LEMMA CountedAlong ==
  ASSUME NEW t, NEW m, NEW n \in Nat, Len(t) = n, DOMAIN t = 1..n, Len(m) \in Nat, DOMAIN m = 1..Len(m),
         NEW F \in [0..n -> Nat], F[0] = 0, F[n] = Len(m), NEW r, Follows(t, F, m, r),
         NEW own \in Seq(Nodes), Keeps(m, r, own)
  PROVE  Keeps(t, r, own)
<1>1. NodesOf(m, r, Len(m)) = Len(own) /\ \A f \in 1..Len(m) : r \in m[f].ranks => ReadsAs(m[f], r, own[NodesOf(m, r, f)])
  BY DEF Keeps
<1> DEFINE P == {p \in 0..n : NodesOf(t, r, p) = NodesOf(m, r, F[p])}
<1>2. 0 \in P
  <2>1. NodesOf(t, r, 0) = 0
    BY CountNodes
  <2>2. NodesOf(m, r, 0) = 0
    BY CountNodes
  <2> QED BY <2>1, <2>2
<1>3. ASSUME NEW p \in 1..n, p - 1 \in P PROVE p \in P
  <2> DEFINE f == F[p]
             f0 == F[p - 1]
  <2>1. p \in Nat \ {0} /\ p \in 0..n /\ p - 1 \in 0..n /\ f \in Nat /\ f0 \in Nat /\ NodesOf(t, r, p - 1) = NodesOf(m, r, f0)
    BY <1>3
  <2>2. NodesOf(t, r, p) = IF r \in t[p].ranks THEN NodesOf(t, r, p - 1) + 1 ELSE NodesOf(t, r, p - 1)
    BY <2>1, CountNodes
  <2>3. (f = f0 /\ r \notin t[p].ranks) \/ (f = f0 + 1 /\ f \in 1..Len(m) /\ (r \in t[p].ranks <=> r \in m[f].ranks))
    BY DEF Follows
  <2> HIDE DEF f, f0
  <2>4. CASE f = f0 /\ r \notin t[p].ranks
    BY <2>1, <2>2, <2>4 DEF f
  <2>5. CASE f = f0 + 1 /\ f \in 1..Len(m) /\ (r \in t[p].ranks <=> r \in m[f].ranks)
    <3>1. f \in Nat \ {0} /\ f - 1 = f0
      <4>1. \A a \in Nat : a + 1 \in Nat \ {0} /\ (a + 1) - 1 = a
        OBVIOUS
      <4>2. f0 \in Nat /\ f = f0 + 1
        BY <2>1, <2>5
      <4> QED BY <4>1, <4>2
    <3>2. NodesOf(m, r, f) = IF r \in m[f].ranks THEN NodesOf(m, r, f - 1) + 1 ELSE NodesOf(m, r, f - 1)
      BY <3>1, CountNodes
    <3>3. NodesOf(m, r, f) = IF r \in m[f].ranks THEN NodesOf(m, r, f0) + 1 ELSE NodesOf(m, r, f0)
      BY <3>1, <3>2
    <3>4. NodesOf(t, r, p) = NodesOf(m, r, f)
      BY <2>1, <2>2, <2>5, <3>3
    <3> QED BY <2>1, <3>4 DEF f
  <2> QED BY <2>3, <2>4, <2>5
<1>4. \A p \in 0..n : NodesOf(t, r, p) = NodesOf(m, r, F[p])
  <2> HIDE DEF P
  <2>1. \A p \in 0..n : p \in P
    BY <1>2, <1>3, UpTo
  <2> QED BY <2>1 DEF P
<1>5. NodesOf(t, r, n) = Len(own)
  BY <1>1, <1>4
<1>6. ASSUME NEW p \in 1..n, r \in t[p].ranks PROVE ReadsAs(t[p], r, own[NodesOf(t, r, p)])
  <2> DEFINE f == F[p]
             o == own[NodesOf(m, r, f)]
  <2>1. /\ f \in 1..Len(m) /\ r \in m[f].ranks
        /\ \A e \in Nodes : (r \in m[f].ranks /\ ReadsAs(m[f], r, e)) => ReadsAs(t[p], r, e)
    BY <1>6 DEF Follows
  <2>2. NodesOf(t, r, p) = NodesOf(m, r, f)
    BY <1>4
  <2> HIDE DEF f
  <2>3. NodesOf(m, r, f) \in 1..NodesOf(m, r, Len(m))
    BY <2>1, NodesWithin
  <2>4. o \in Nodes
    BY <1>1, <2>3
  <2>5. ReadsAs(m[f], r, o)
    BY <1>1, <2>1
  <2> HIDE DEF o
  <2>6. ReadsAs(t[p], r, o)
    BY <2>1, <2>4, <2>5
  <2> QED BY <2>2, <2>6 DEF o
<1> QED BY <1>5, <1>6 DEF Keeps

\* The merge keeps the nodes of each rank of either trace, in order.
LEMMA MergeKeeps ==
  ASSUME NEW A, NEW B, A \cap B = {}, NEW m, NEW s, TraceOf(m, A), TraceOf(s, B), NEW r, NEW own \in Seq(Nodes),
         (r \in A /\ Keeps(m, r, own)) \/ (r \in B /\ Keeps(s, r, own))
  PROVE  Keeps(LCSMergeTrace(m, s), r, own)
<1> DEFINE t == LCSMergeTrace(m, s)
           n == Len(t)
<1>1. PICK F, G : Weave(m, s, t, F, G, Len(m), Len(s))
  BY MergeWeaves
<1> HIDE DEF t
<1>2. /\ n \in Nat /\ DOMAIN t = 1..n /\ F \in [0..n -> Nat] /\ G \in [0..n -> Nat] /\ F[0] = 0 /\ G[0] = 0
      /\ F[n] = Len(m) /\ G[n] = Len(s)
      /\ \A p \in 1..n : Woven(m, s, t[p], F[p - 1], F[p], G[p - 1], G[p])
  BY <1>1 DEF Weave
<1> HIDE DEF n
<1>3. ASSUME NEW f \in 1..Len(m)
      PROVE  /\ m[f].ranks \subseteq A /\ \E W \in SUBSET A : NodeOf(m[f], W)
             /\ f \in Nat \ {0} /\ f \in DOMAIN m
  <2>1. PICK W \in SUBSET A : NodeOf(m[f], W)
    BY DEF TraceOf, NodeWithin
  <2>2. f \in Nat \ {0} /\ f \in DOMAIN m
    BY DEF TraceOf
  <2> QED BY <2>1, <2>2 DEF NodeOf
<1>4. ASSUME NEW g \in 1..Len(s)
      PROVE  /\ s[g].ranks \subseteq B /\ \E W \in SUBSET B : NodeOf(s[g], W)
             /\ g \in Nat \ {0} /\ g \in DOMAIN s
  <2>1. PICK W \in SUBSET B : NodeOf(s[g], W)
    BY DEF TraceOf, NodeWithin
  <2>2. g \in Nat \ {0} /\ g \in DOMAIN s
    BY DEF TraceOf
  <2> QED BY <2>1, <2>2 DEF NodeOf
<1>5. ASSUME NEW f \in 1..Len(m), NEW g \in 1..Len(s), m[f].op = s[g].op, NEW o \in Nodes,
             (r \in m[f].ranks /\ ReadsAs(m[f], r, o)) \/ (r \in s[g].ranks /\ ReadsAs(s[g], r, o))
      PROVE  ReadsAs(MergePair(m[f], s[g]), r, o)
  <2> DEFINE x == m[f]
             y == s[g]
  <2>1. PICK V \in SUBSET A : NodeOf(x, V)
    BY <1>3
  <2>2. PICK W \in SUBSET B : NodeOf(y, W)
    BY <1>4
  <2> HIDE DEF x, y
  <2>3. V \cap W = {} /\ x.ranks = V /\ y.ranks = W
    BY <2>1, <2>2 DEF NodeOf
  <2>4. x.op = y.op /\ ((r \in V /\ ReadsAs(x, r, o)) \/ (r \in W /\ ReadsAs(y, r, o)))
    BY <1>5, <2>3 DEF x, y
  <2>5. ReadsAs(MergePair(x, y), r, o)
    BY <2>1, <2>2, <2>3, <2>4, PairKeeps
  <2> QED BY <2>5 DEF x, y
<1>6. ASSUME NEW f \in 1..Len(m), NEW g \in 1..Len(s) PROVE MergePair(m[f], s[g]).ranks = m[f].ranks \cup s[g].ranks
  <2>1. m[f] \in Nodes
    BY <1>3 DEF NodeOf
  <2> QED BY <2>1 DEF MergePair, Nodes
<1>7. CASE r \in A /\ Keeps(m, r, own)
  <2>1. r \notin B
    BY <1>7
  <2>2. ASSUME NEW p \in 1..n
        PROVE  \/ F[p] = F[p - 1] /\ r \notin t[p].ranks
               \/ /\ F[p] = F[p - 1] + 1 /\ F[p] \in 1..Len(m) /\ (r \in t[p].ranks <=> r \in m[F[p]].ranks)
                  /\ \A o \in Nodes : (r \in m[F[p]].ranks /\ ReadsAs(m[F[p]], r, o)) => ReadsAs(t[p], r, o)
    <3> DEFINE f == F[p]
               g == G[p]
               f0 == F[p - 1]
               g0 == G[p - 1]
               x == t[p]
    <3>1. Woven(m, s, x, f0, f, g0, g)
      BY <1>2
    <3> HIDE DEF f, g, f0, g0, x
    <3>2. CASE f = f0 + 1 /\ g = g0 /\ f \in 1..Len(m) /\ x = m[f]
      BY <3>2 DEF f, f0, x
    <3>3. CASE f = f0 /\ g = g0 + 1 /\ g \in 1..Len(s) /\ x = s[g]
      <4>1. r \notin x.ranks
        BY <1>4, <2>1, <3>3
      <4> QED BY <3>3, <4>1 DEF f, f0, x
    <3>4. CASE /\ f = f0 + 1 /\ g = g0 + 1 /\ f \in 1..Len(m) /\ g \in 1..Len(s)
               /\ m[f].op = s[g].op /\ x = MergePair(m[f], s[g])
      <4>1. r \in x.ranks <=> r \in m[f].ranks
        BY <1>4, <1>6, <2>1, <3>4
      <4>2. \A o \in Nodes : (r \in m[f].ranks /\ ReadsAs(m[f], r, o)) => ReadsAs(x, r, o)
        BY <1>5, <3>4
      <4> QED BY <3>4, <4>1, <4>2 DEF f, f0, x
    <3> QED BY <3>1, <3>2, <3>3, <3>4 DEF Woven
  <2>3. Follows(t, F, m, r) /\ Len(t) = n
    BY <2>2 DEF Follows, n
  <2>4. Len(m) \in Nat /\ DOMAIN m = 1..Len(m)
    BY DEF TraceOf
  <2>5. DOMAIN t = 1..n /\ n \in Nat /\ F \in [0..n -> Nat] /\ F[0] = 0 /\ F[n] = Len(m)
    BY <1>2
  <2> QED BY <1>7, <2>3, <2>4, <2>5, CountedAlong
<1>8. CASE r \in B /\ Keeps(s, r, own)
  <2>1. r \notin A
    BY <1>8
  <2>2. ASSUME NEW p \in 1..n
        PROVE  \/ G[p] = G[p - 1] /\ r \notin t[p].ranks
               \/ /\ G[p] = G[p - 1] + 1 /\ G[p] \in 1..Len(s) /\ (r \in t[p].ranks <=> r \in s[G[p]].ranks)
                  /\ \A o \in Nodes : (r \in s[G[p]].ranks /\ ReadsAs(s[G[p]], r, o)) => ReadsAs(t[p], r, o)
    <3> DEFINE g == G[p]
               f == F[p]
               g0 == G[p - 1]
               f0 == F[p - 1]
               x == t[p]
    <3>1. Woven(m, s, x, f0, f, g0, g)
      BY <1>2
    <3> HIDE DEF g, f, g0, f0, x
    <3>2. CASE g = g0 + 1 /\ f = f0 /\ g \in 1..Len(s) /\ x = s[g]
      BY <3>2 DEF g, g0, x
    <3>3. CASE g = g0 /\ f = f0 + 1 /\ f \in 1..Len(m) /\ x = m[f]
      <4>1. r \notin x.ranks
        BY <1>3, <2>1, <3>3
      <4> QED BY <3>3, <4>1 DEF g, g0, x
    <3>4. CASE /\ g = g0 + 1 /\ f = f0 + 1 /\ g \in 1..Len(s) /\ f \in 1..Len(m)
               /\ m[f].op = s[g].op /\ x = MergePair(m[f], s[g])
      <4>1. r \in x.ranks <=> r \in s[g].ranks
        BY <1>3, <1>6, <2>1, <3>4
      <4>2. \A o \in Nodes : (r \in s[g].ranks /\ ReadsAs(s[g], r, o)) => ReadsAs(x, r, o)
        BY <1>5, <3>4
      <4> QED BY <3>4, <4>1, <4>2 DEF g, g0, x
    <3> QED BY <3>1, <3>2, <3>3, <3>4 DEF Woven
  <2>3. Follows(t, G, s, r) /\ Len(t) = n
    BY <2>2 DEF Follows, n
  <2>4. Len(s) \in Nat /\ DOMAIN s = 1..Len(s)
    BY DEF TraceOf
  <2>5. DOMAIN t = 1..n /\ n \in Nat /\ G \in [0..n -> Nat] /\ G[0] = 0 /\ G[n] = Len(s)
    BY <1>2
  <2> QED BY <1>8, <2>3, <2>4, <2>5, CountedAlong
<1> QED BY <1>7, <1>8 DEF t

\* Each rank's trace is its own to begin with.
LEMMA OwnKept == ASSUME NEW r, NEW t, OneTrace(t, {r}) PROVE Keeps(t, r, t)
<1> DEFINE n == Len(t)
<1>1. n \in Nat /\ DOMAIN t = 1..n /\ \A i \in 1..n : t[i] \in Nodes
  BY DEF OneTrace
<1>2. \A i \in 1..n : OneNode(t[i], {r})
  BY <1>1 DEF OneTrace
<1> DEFINE P == {i \in 0..n : NodesOf(t, r, i) = i}
<1>3. 0 \in P
  BY <1>1, CountNodes
<1>4. ASSUME NEW i \in 1..n, i - 1 \in P PROVE i \in P
  <2>1. i \in Nat \ {0} /\ i \in 0..n /\ NodesOf(t, r, i - 1) = i - 1
    BY <1>1, <1>4
  <2>2. NodesOf(t, r, i) = IF r \in t[i].ranks THEN NodesOf(t, r, i - 1) + 1 ELSE NodesOf(t, r, i - 1)
    BY <2>1, CountNodes
  <2>3. r \in t[i].ranks
    BY <1>2 DEF OneNode
  <2> QED BY <2>1, <2>2, <2>3
<1>5. \A i \in 0..n : NodesOf(t, r, i) = i
  <2> HIDE DEF P
  <2>1. \A i \in 0..n : i \in P
    BY <1>1, <1>3, <1>4, UpTo
  <2> QED BY <2>1 DEF P
<1>6. ASSUME NEW i \in 1..n PROVE ReadsAs(t[i], r, t[i])
  <2> DEFINE x == t[i]
  <2>1. x \in Nodes /\ OneNode(x, {r})
    BY <1>1, <1>2
  <2> HIDE DEF x
  <2>2. ASSUME NEW p \in Parameters, One(p, {r}) PROVE Holds(p, r, p[1].vals)
    <3>1. 1 \in DOMAIN p /\ r \in p[1].ranks
      BY <2>2 DEF Parameters, One
    <3> QED BY <3>1 DEF Holds
  <2>3. Holds(x.count, r, x.count[1].vals) /\ Holds(x.values, r, x.values[1].vals)
    BY <2>1, <2>2, NodeTyped DEF OneNode
  <2>4. ASSUME NEW d \in DOMAIN x.loops
        PROVE  /\ d <= Len(x.loops) /\ Holds(x.loops[d].mem, r, x.loops[d].mem[1].vals)
               /\ Holds(x.loops[d].iter, r, x.loops[d].iter[1].vals)
    <3>1. x.loops[d].mem \in Parameters /\ x.loops[d].iter \in Parameters /\ d \in 1..Len(x.loops) /\ Len(x.loops) \in Nat
      BY <2>1, NodeTyped
    <3>2. One(x.loops[d].mem, {r}) /\ One(x.loops[d].iter, {r})
      BY <2>1 DEF OneNode, OneItem
    <3>3. d <= Len(x.loops)
      BY <3>1
    <3>4. Holds(x.loops[d].mem, r, x.loops[d].mem[1].vals)
      BY <2>2, <3>1, <3>2
    <3>5. Holds(x.loops[d].iter, r, x.loops[d].iter[1].vals)
      BY <2>2, <3>1, <3>2
    <3> QED BY <3>3, <3>4, <3>5
  <2>5. Len(x.loops) <= Len(x.loops)
    <3>1. Len(x.loops) \in Nat
      BY <2>1, NodeTyped
    <3> QED BY <3>1
  <2>6. ReadsAs(x, r, x)
    BY <2>3, <2>4, <2>5 DEF ReadsAs
  <2> QED BY <2>6 DEF x
<1>7. NodesOf(t, r, n) = n /\ \A i \in 1..n : NodesOf(t, r, i) = i
  BY <1>1, <1>5
<1> QED BY <1>1, <1>6, <1>7 DEF Keeps

\* Every rank whose trace has been merged finds in the merge the nodes it recorded.
KeptInv ==
  /\ \A r \in Ranks : \A q \in held[r] : q \in Ranks
  /\ \A r \in Ranks : ~AtBarrier(r) => \A q \in held[r] : Keeps(trace[r], q, WholeTrace(program[q], q))

LEMMA InitKeptInv == Init => KeptInv
<1> SUFFICES ASSUME Init PROVE KeptInv
  OBVIOUS
<1>1. \A r \in Ranks : held[r] = {r} /\ pc[r] = "call"
  BY DEF Init, Protocol!Init, Ranks
<1> QED BY <1>1 DEF KeptInv, AtBarrier

LEMMA StepKeptInv ==
  ASSUME R!Tree(N), R!PInv, TraceInv, KeptInv, [Next]_vars
  PROVE  KeptInv'
<1>0. /\ program \in [Ranks -> Programs] /\ DOMAIN trace = Ranks
      /\ \A r \in Ranks : AtBarrier(r) => held[r] = {r} /\ trace[r] = Recorded(program[r], r)
      /\ \A r \in Ranks : ~AtBarrier(r) => TraceOf(trace[r], held[r])
      /\ pc \in [Ranks -> R!Labels] /\ held \in [Ranks -> SUBSET Ranks]
  BY DEF TraceInv, R!PInv, R!Types, Ranks, Protocol!Ranks, R!Ranks
<1>1. CASE UNCHANGED vars \/ Terminating
  <2>1. UNCHANGED <<pc, held, program, trace>>
    BY <1>1 DEF vars, protocolVars, Terminating
  <2> QED BY <2>1 DEF KeptInv, AtBarrier
<1>2. ASSUME NEW r \in Ranks, LeaveBarrier(r) PROVE KeptInv'
  <2>1. /\ pc[r] = "barrier" /\ pc' = [pc EXCEPT ![r] = "left"] /\ held' = held
        /\ trace' = [trace EXCEPT ![r] = Appended(trace[r], Node(FinalOp, <<0>>, r))] /\ program' = program
    BY <1>2 DEF LeaveBarrier, Protocol!LeaveBarrier, Protocol!Go
  <2>2. trace[r] = Recorded(program[r], r) /\ held[r] = {r} /\ program[r] \in Programs
    BY <1>0, <2>1 DEF AtBarrier
  <2>3. trace'[r] = WholeTrace(program[r], r)
    BY <1>0, <2>1, <2>2, WholeTraceOf
  <2>4. Keeps(WholeTrace(program[r], r), r, WholeTrace(program[r], r))
    <3>1. OneTrace(WholeTrace(program[r], r), {r})
      BY <2>2, WholeTraceOf
    <3> QED BY <3>1, OwnKept
  <2>5. ASSUME NEW q \in Ranks, ~AtBarrier(q)', NEW p \in held'[q]
        PROVE  Keeps(trace'[q], p, WholeTrace(program'[p], p))
    <3>1. CASE q = r
      BY <2>1, <2>2, <2>3, <2>4, <2>5, <3>1
    <3>2. CASE q # r
      <4>1. trace'[q] = trace[q] /\ ~AtBarrier(q)
        BY <1>0, <2>1, <2>5, <3>2 DEF AtBarrier
      <4> QED BY <2>1, <2>5, <4>1 DEF KeptInv
    <3> QED BY <3>1, <3>2
  <2> QED BY <1>0, <2>1, <2>5 DEF KeptInv
<1>3. ASSUME NEW r \in Ranks, ReceiveTrace(r) PROVE KeptInv'
  <2> DEFINE child == Protocol!Child(r)
  <2>1. trace' = [trace EXCEPT ![r] = LCSMergeTrace(trace[r], trace[child])] /\ program' = program
    BY <1>3 DEF ReceiveTrace
  <2>2. FromChild(r, child)
    BY <1>3, Received DEF ReceiveTrace
  <2> HIDE DEF child
  <2>3. /\ child \in Ranks /\ ~AtBarrier(child) /\ ~AtBarrier(r)
        /\ TraceOf(trace[r], held[r]) /\ TraceOf(trace[child], held[child]) /\ held[r] \cap held[child] = {}
    BY <1>0, <2>2 DEF FromChild
  <2>4. trace'[r] = LCSMergeTrace(trace[r], trace[child]) /\ held'[r] = held[r] \cup held[child]
    BY <1>0, <2>1, <2>2 DEF FromChild
  <2>5. \A q \in Ranks \ {r} : trace'[q] = trace[q] /\ held'[q] = held[q] /\ pc'[q] = pc[q]
    BY <1>0, <2>1, <2>2 DEF FromChild
  <2>6. ASSUME NEW q \in held'[r] PROVE Keeps(trace'[r], q, WholeTrace(program[q], q))
    <3> DEFINE A == held[r]
               B == held[child]
               m == trace[r]
               s == trace[child]
               own == WholeTrace(program[q], q)
    <3>1. q \in A \/ q \in B
      BY <2>4
    <3>2. q \in Ranks
      BY <1>0, <2>3, <3>1
    <3>3. own \in Seq(Nodes)
      <4>1. program[q] \in Programs
        BY <1>0, <3>2
      <4> QED BY <3>2, <4>1, WholeTraceOf DEF OneTrace
    <3>4. (q \in A /\ Keeps(m, q, own)) \/ (q \in B /\ Keeps(s, q, own))
      BY <2>3, <3>1 DEF KeptInv
    <3>5. A \cap B = {} /\ TraceOf(m, A) /\ TraceOf(s, B)
      BY <2>3
    <3> HIDE DEF A, B, m, s, own
    <3>6. Keeps(LCSMergeTrace(m, s), q, own)
      BY <3>3, <3>4, <3>5, MergeKeeps
    <3> QED BY <2>4, <3>6 DEF m, s, own
  <2>7. ASSUME NEW q \in Ranks, ~AtBarrier(q)', NEW p \in held'[q]
        PROVE  Keeps(trace'[q], p, WholeTrace(program'[p], p))
    <3>1. CASE q = r
      BY <2>1, <2>6, <2>7, <3>1
    <3>2. CASE q # r
      <4>1. trace'[q] = trace[q] /\ held'[q] = held[q] /\ ~AtBarrier(q)
        BY <2>5, <2>7, <3>2 DEF AtBarrier
      <4> QED BY <2>1, <2>7, <4>1 DEF KeptInv
    <3> QED BY <3>1, <3>2
  <2>8. ASSUME NEW q \in Ranks PROVE \A p \in held'[q] : p \in Ranks
    <3>1. CASE q = r
      BY <1>0, <2>3, <2>4, <3>1
    <3>2. CASE q # r
      BY <1>0, <2>5, <3>2
    <3> QED BY <3>1, <3>2
  <2> QED BY <2>7, <2>8 DEF KeptInv
<1>4. ASSUME NEW r \in Ranks, OutputTrace(r) \/ OtherStep(r) PROVE KeptInv'
  <2>1. UNCHANGED <<held, program, trace>> /\ \A q \in Ranks : AtBarrier(q)' <=> AtBarrier(q)
    BY <1>0, <1>4, OtherSteps DEF Untouched
  <2> QED BY <2>1 DEF KeptInv
<1> QED BY <1>1, <1>2, <1>3, <1>4 DEF Next, Step

\* The merge loses, reorders and changes nothing of what a rank recorded: for any
\* number of ranks that form a tree and any programs, each rank whose trace a
\* merged one holds finds in it the nodes of its own trace, all, in order and with
\* its values, and MPI_Init's and MPI_Finalize's are shared by all of them.
THEOREM TraceHoldsRanks == ASSUME R!Tree(N) PROVE Spec => []HeldIsMerged
<1>1. Spec => []KeptInv
  <2>1. R!PInv /\ TraceInv /\ KeptInv /\ [Next]_vars => KeptInv'
    BY StepKeptInv
  <2> QED BY <2>1, InitKeptInv, TracesMerge, PTL DEF Spec
<1>2. ASSUME R!PInv, TraceInv, KeptInv, NEW r \in Ranks, pc[r] \notin {"call", "barrier"}, NEW q \in held[r]
      PROVE  Keeps(trace[r], q, WholeTraces[program[q]][q])
  <2>1. ~AtBarrier(r) /\ q \in Ranks /\ program[q] \in Programs
    BY <1>2 DEF AtBarrier, KeptInv, TraceInv
  <2>2. WholeTraces[program[q]][q] = WholeTrace(program[q], q)
    BY <2>1, WholeTraceOf DEF WholeTraces
  <2> QED BY <1>2, <2>1, <2>2 DEF KeptInv
<1>3. R!PInv /\ TraceInv /\ KeptInv => HeldIsMerged
  <2> SUFFICES ASSUME R!PInv, TraceInv, KeptInv, NEW r \in Ranks
               PROVE  /\ trace[r][1].ranks = held[r] /\ Last(trace[r]).ranks \subseteq held[r]
                      /\ pc[r] \notin {"call", "barrier"} =>
                           /\ Last(trace[r]).ranks = held[r]
                           /\ \A q \in held[r] : Keeps(trace[r], q, WholeTraces[program[q]][q])
    BY DEF HeldIsMerged
  <2>1. /\ trace[r][1].ranks = held[r] /\ Last(trace[r]).ranks \subseteq held[r]
        /\ ~AtBarrier(r) => Last(trace[r]).ranks = held[r]
    BY EndsOfTraces
  <2> QED BY <1>2, <2>1 DEF AtBarrier
<1> QED BY <1>1, <1>3, TracesMerge, PTL
=============================================================================
