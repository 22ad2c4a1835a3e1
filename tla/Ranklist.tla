------------------------------ MODULE Ranklist ------------------------------
(***************************************************************************)
(* Compressed lists of ranks (Ranklist.C).                                 *)
(*                                                                         *)
(* A list is a sequence of PRSDs (power regular section descriptors): a    *)
(* start rank and, outermost first, the iterations and strides of the      *)
(* sections it generates.  Merging two lists expands both, merges the      *)
(* ranks in ascending order and builds the list again one rank at a time.  *)
(* Lists of disjoint sets of ranks are merged, in any order, as the traces *)
(* of their ranks are: every rank starts with a list of its own, and a     *)
(* merge takes the list of the absorbed one.                               *)
(***************************************************************************)
EXTENDS Integers, Sequences, SequencesExt, FiniteSetsExt

CONSTANT Ranks

ASSUME RanksAssumption == Ranks \subseteq Nat /\ IsFiniteSet(Ranks)

VARIABLES
  list,      \* rank -> the list it holds, empty once it was absorbed
  numRanks,  \* rank -> the counter kept beside the list
  members    \* rank -> the ranks merged into its list
vars == <<list, numRanks, members>>

Ascending(S) ==
  [i \in 1..Cardinality(S) |-> CHOOSE r \in S : Cardinality({q \in S : q < r}) = i - 1]

Prsd(start, rsds) == [start |-> start, rsds |-> rsds]
Section(iters, stride) == [iters |-> iters, stride |-> stride]
Singleton(r) == Prsd(r, <<Section(1, 0)>>)

\* A section repeats the ranks of those before it.
Repeat(s, rsd) ==
  [j \in 1..(Len(s) * rsd.iters) |->
    s[((j - 1) % Len(s)) + 1] + rsd.stride * ((j - 1) \div Len(s))]

\* The ranks that sections make of some.
Sweep(s, rsds) ==
  LET swept[d \in 0..Len(rsds)] == IF d = 0 THEN s ELSE Repeat(swept[d - 1], rsds[d])
  IN  swept[Len(rsds)]

\* The ranks of a PRSD.
Unroll(p) == Sweep(<<p.start>>, p.rsds)

\* The ranks of a list, one PRSD after another.
Unrolled(l) ==
  LET ranks[i \in 0..Len(l)] == IF i = 0 THEN <<>> ELSE ranks[i - 1] \o Unroll(l[i])
  IN  ranks[Len(l)]

\* The i-th of the sorted numbers is preceded by fewer than i smaller ones.
Sorted(s) ==
  LET Smaller(v) == Cardinality({j \in DOMAIN s : s[j] < v})
      NotLarger(v) == Cardinality({j \in DOMAIN s : s[j] <= v})
  IN  [i \in DOMAIN s |-> CHOOSE v \in ToSet(s) : Smaller(v) < i /\ i <= NotLarger(v)]

Decompress(l) == Sorted(Unrolled(l))

\* Mutant of AddSingle: any rank extends the last PRSD.
AddSingleAnyStride(r, l) ==
  LET last == Last(l)
      rsd  == last.rsds[1]
  IN  IF Len(last.rsds) = 1
      THEN [l EXCEPT ![Len(l)].rsds =
              <<Section(rsd.iters + 1, r - (last.start + (rsd.iters - 1) * rsd.stride))>>]
      ELSE Append(l, Singleton(r))

\* r extends the last PRSD if it continues its only section, or is the second
\* rank of it, which sets the stride.
AddSingle(r, l) ==
  LET last == Last(l)
      rsd  == last.rsds[1]
      next == last.start + rsd.iters * rsd.stride
  IN  IF Len(last.rsds) = 1 /\ next \in {r, last.start}
      THEN [l EXCEPT ![Len(l)].rsds =
              <<Section(rsd.iters + 1, rsd.stride + r - next)>>]
      ELSE Append(l, Singleton(r))

\* last repeats prev, or is one more repetition of the sections under prev's
\* outermost one.
Repeats(prev, last) == prev.rsds = last.rsds
Continues(prev, last) ==
  /\ Tail(prev.rsds) = last.rsds
  /\ prev.start + prev.rsds[1].iters * prev.rsds[1].stride = last.start

DoCompress(prev, last) ==
  IF Repeats(prev, last)
  THEN Prsd(prev.start, <<Section(2, last.start - prev.start)>> \o prev.rsds)
  ELSE [prev EXCEPT !.rsds[1].iters = @ + 1]

\* The last PRSD is compressed into the nearest earlier one it can be.
MergeCompress(l) ==
  LET last  == Last(l)
      prevs == {i \in 1..(Len(l) - 1) : Repeats(l[i], last) \/ Continues(l[i], last)}
  IN  IF prevs = {} THEN l
      ELSE [Front(l) EXCEPT ![Max(prevs)] = DoCompress(@, last)]

\* Every compression removes a PRSD.
MergeSingle(l, r) ==
  LET added == AddSingle(r, l)
      merged[i \in 0..Len(added)] == IF i = 0 THEN added ELSE MergeCompress(merged[i - 1])
  IN  merged[Len(added)]

Build(s) ==
  LET built[i \in 1..Len(s)] ==
        IF i = 1 THEN <<Singleton(s[1])>> ELSE MergeSingle(built[i - 1], s[i])
  IN  built[Len(s)]

MergeLists(l1, l2) ==
  Build(Ascending(ToSet(Decompress(l1)) \cup ToSet(Decompress(l2))))

\* The product of the iterations of each PRSD, added up.
PrsdCount(p) ==
  LET count[d \in 0..Len(p.rsds)] == IF d = 0 THEN 1 ELSE count[d - 1] * p.rsds[d].iters
  IN  count[Len(p.rsds)]

MemberCount(l) ==
  LET total[i \in 0..Len(l)] == IF i = 0 THEN 0 ELSE total[i - 1] + PrsdCount(l[i])
  IN  total[Len(l)]

\* The list as it is stored: the number of PRSDs, then, for each, minus its
\* depth, its start, and its sections' iterations and strides.
StoredPrsd(p) ==
  [j \in 1..(2 + 2 * Len(p.rsds)) |->
    CASE j = 1 -> -Len(p.rsds)
      [] j = 2 -> p.start
      [] j > 2 /\ j % 2 = 1 -> p.rsds[(j - 1) \div 2].iters
      [] j > 2 /\ j % 2 = 0 -> p.rsds[(j - 2) \div 2].stride]

Stored(l) ==
  LET stored[i \in 0..Len(l)] == IF i = 0 THEN <<Len(l)>> ELSE stored[i - 1] \o StoredPrsd(l[i])
  IN  stored[Len(l)]

\* hasMember scans the stored list for the next PRSD: past the first stride
\* of the current one, to the first number that is not positive.
NextPrsd(s, head) == Min({i \in (head + 3)..Len(s) : s[i] <= 0})
Heads(s) ==
  LET heads[k \in 1..s[1]] == IF k = 1 THEN 2 ELSE NextPrsd(s, heads[k - 1])
  IN  heads

\* The PRSD stored from an index on.
PrsdAt(s, head) ==
  Prsd(s[head + 1], [d \in 1..(-s[head]) |-> Section(s[head + 2 * d], s[head + 2 * d + 1])])

HasMember(r, l) ==
  LET s == Stored(l)
  IN  \E k \in DOMAIN Heads(s) : r \in ToSet(Unroll(PrsdAt(s, Heads(s)[k])))

Init ==
  /\ list = [r \in Ranks |-> <<Singleton(r)>>]
  /\ numRanks = [r \in Ranks |-> 1]
  /\ members = [r \in Ranks |-> {r}]

Merge(x, y) ==
  /\ list[x] # <<>> /\ list[y] # <<>>
  /\ list' = [list EXCEPT ![x] = MergeLists(@, list[y]), ![y] = <<>>]
  /\ numRanks' = [numRanks EXCEPT ![x] = @ + numRanks[y], ![y] = 0]
  /\ members' = [members EXCEPT ![x] = @ \cup members[y], ![y] = {}]

Next == \E x, y \in Ranks : x # y /\ Merge(x, y)

Spec == Init /\ [][Next]_vars
-----------------------------------------------------------------------------
Holders == {r \in Ranks : list[r] # <<>>}

\* Type invariant: sections repeat, in ascending order, except in a singleton.
TypeOK ==
  /\ numRanks \in [Ranks -> 0..Cardinality(Ranks)]
  /\ members \in [Ranks -> SUBSET Ranks]
  /\ \A x \in Holders : \A p \in ToSet(list[x]) :
       /\ p.start \in Ranks
       /\ \/ p = Singleton(p.start)
          \/ \A d \in DOMAIN p.rsds : p.rsds[d].iters >= 2 /\ p.rsds[d].stride >= 1

\* However the merges were ordered, a list expands to the ranks merged into
\* it, each once, in ascending order (decompress_rl).
ExpandsToMembers ==
  \A x \in Holders : Decompress(list[x]) = Ascending(members[x])

\* The replay's membership test, which scans the stored numbers, agrees with
\* the ranks of the list (hasMember decides what a rank replays).
MembershipExact ==
  \A x \in Holders, r \in Ranks : HasMember(r, list[x]) <=> r \in members[x]

\* The counter kept beside the list, which sizes decompress_rl's buffer, and
\* the count recomputed from the list (input) are the number of ranks in it.
CountsExact ==
  \A x \in Holders : /\ numRanks[x] = Cardinality(members[x])
                     /\ MemberCount(list[x]) = numRanks[x]
=============================================================================
