--------------------------- MODULE ContextReader ---------------------------
(***************************************************************************)
(* Reading a merged trace as one of its ranks without recursion (class     *)
(* Context, which probabilistic replay steps through for the rank itself   *)
(* and for each of its peers).  A context is the node to read next and a   *)
(* stack of the loops it is in, each with its head, its tail, the loop of  *)
(* the head's loop stack it stands for and the iterations left.            *)
(***************************************************************************)
EXTENDS Params

Nowhere == 0

\* Mutant of NextMember: events of other ranks are not skipped.
NextMemberAny(t, rank, i) == IF i < Len(t) THEN i + 1 ELSE Nowhere

NextMember(t, rank, i) ==
  LET after == {j \in (i + 1)..Len(t) : rank \in t[j].ranks}
  IN  IF after = {} THEN Nowhere ELSE Min(after)

\* getMemForRank and getIterForRank: zero for a rank the loop is not of.
ScalarForRank(param, rank) ==
  LET own == ForRank(param, rank) IN IF own = <<>> THEN 0 ELSE Scalar(own)

\* The node mem - 1 members behind the head.
TailOf(t, rank, head, mem) ==
  FoldLeft(LAMBDA i, k : NextMember(t, rank, i), head, [k \in 1..(mem - 1) |-> k])

\* buildLoopcontext: the loops e leads are entered, outermost first, those
\* inside the present one if e leads that; the first the rank is not in ends it.
BuildLoopContext(t, rank, e, lps) ==
  LET loops == t[e].loops
      mine(i) == ScalarForRank(loops[i].mem, rank)
      present == IF Last(lps).item \in {e} \X DOMAIN loops THEN Last(lps).item[2] ELSE 0
      entered == {i \in (present + 1)..Len(loops) : \A j \in (present + 1)..i : mine(j) # 0}
      Level(i) == [head |-> e, tail |-> TailOf(t, rank, e, mine(i)), item |-> <<e, i>>,
                   left |-> ScalarForRank(loops[i].iter, rank)]
  IN  lps \o [k \in 1..Cardinality(entered) |-> Level(present + k)]

At(t, rank, i, lps) ==
  [iter |-> i, lps |-> IF i = Nowhere THEN lps ELSE BuildLoopContext(t, rank, i, lps)]

Spend(lps) == [lps EXCEPT ![Len(lps)].left = @ - 1]

\* Mutant of Leave: a loop that ends where the one inside it does is not seen
\* to end.
LeaveOne(t, rank, i, lps) ==
  LET outer == Front(lps)
  IN  IF outer = <<>> THEN [iter |-> Nowhere, lps |-> <<>>]
      ELSE At(t, rank, NextMember(t, rank, i), outer)

\* The innermost loop is over: what follows it is a node of the loop around
\* it, or that loop's next iteration, or the end of that loop too.
RECURSIVE Leave(_, _, _, _)
Leave(t, rank, i, lps) ==
  LET outer == Front(lps)
      spent == Spend(outer)
  IN  IF outer = <<>> THEN [iter |-> Nowhere, lps |-> <<>>]
      ELSE IF i # Last(outer).tail THEN At(t, rank, NextMember(t, rank, i), outer)
      ELSE IF Last(spent).left # 0 THEN At(t, rank, Last(spent).head, spent)
      ELSE Leave(t, rank, i, spent)

\* next_helper: from one node to the next.
Advance(t, rank, c) ==
  LET spent == Spend(c.lps)
  IN  IF c.iter # Last(c.lps).tail THEN At(t, rank, NextMember(t, rank, c.iter), c.lps)
      ELSE IF Last(spent).left > 0 THEN At(t, rank, Last(spent).head, spent)
      ELSE Leave(t, rank, c.iter, spent)

\* A loop of no iterations is passed over without reading its node.
Read(c) == IF Last(c.lps).left <= 0 THEN <<>> ELSE <<c.iter>>

Start(t) ==
  [iter |-> 1,
   lps  |-> <<[head |-> 1, tail |-> Len(t), item |-> <<Nowhere, Nowhere>>, left |-> 1]>>]

\* The nodes that calls of next() return, to the end of the trace.
RECURSIVE ReadFrom(_, _, _)
ReadFrom(t, rank, c) ==
  IF c.iter = Nowhere THEN <<>> ELSE Read(c) \o ReadFrom(t, rank, Advance(t, rank, c))

ContextVisits(t, rank) == ReadFrom(t, rank, Start(t))
=============================================================================
