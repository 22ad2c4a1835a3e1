----------------------------- MODULE TraceMerge -----------------------------
(***************************************************************************)
(* Merging the trace of other ranks, the slave, into a trace, the master   *)
(* (Trace::LCSMergeTrace).  A longest common subsequence of operations is  *)
(* computed; the nodes it pairs are merged, and the slave's other nodes    *)
(* are moved to the master, in front of the next pair.                     *)
(***************************************************************************)
EXTENDS Params

\* getLCS: the pairs <<i, j>> of the longest common subsequence of m and s,
\* row i of the table from row i - 1.  Equal operations are always paired,
\* and of two subsequences as long the one without m's node is taken.
LCSRow(m, s, above, i) ==
  LET Cell(row, j) ==
        IF m[i].op = s[j].op THEN Append(above[j], <<i, j>>)
        ELSE IF Len(above[j + 1]) >= Len(row[j]) THEN above[j + 1]
        ELSE row[j]
      cells[j \in 0..Len(s)] ==
        IF j = 0 THEN << <<>> >> ELSE LET row == cells[j - 1] IN Append(row, Cell(row, j))
  IN  cells[Len(s)]

LCS(m, s) ==
  LET rows[i \in 0..Len(m)] ==
        IF i = 0 THEN [j \in 1..(Len(s) + 1) |-> <<>>] ELSE LCSRow(m, s, rows[i - 1], i)
  IN  Last(rows[Len(m)])

\* Loop::interMergeLoopStack: loops are merged from the outermost, and those
\* only the other has are added inside.
InterMergeLoops(l, o) ==
  [i \in 1..Max({Len(l), Len(o)}) |->
     IF i > Len(o) THEN l[i]
     ELSE IF i > Len(l) THEN o[i]
     ELSE [mem  |-> MergeParam(l[i].mem, o[i].mem),
           iter |-> MergeParam(l[i].iter, o[i].iter)]]

\* Mutant of MergePair: the ranks of the slave's event are not added.
MergePairOwnRanks(m, s) ==
  [m EXCEPT !.count  = MergeParam(@, s.count),
            !.values = MergeParam(@, s.values),
            !.loops  = InterMergeLoops(@, s.loops)]

\* Mutant of MergePair: the slave's values are not added.
MergePairOwnValues(m, s) ==
  [m EXCEPT !.ranks  = @ \cup s.ranks,
            !.count  = MergeParam(@, s.count),
            !.loops  = InterMergeLoops(@, s.loops)]

MergePair(m, s) ==
  [m EXCEPT !.ranks  = @ \cup s.ranks,
            !.count  = MergeParam(@, s.count),
            !.values = MergeParam(@, s.values),
            !.loops  = InterMergeLoops(@, s.loops)]

\* Mutant of LCSDoMerge: the slave's nodes go behind the pair they precede.
LCSDoMergeBehind(pairs, m, s) ==
  LET i(k) == IF k = 0 THEN 0 ELSE pairs[k][1]
      j(k) == IF k = 0 THEN 0 ELSE pairs[k][2]
      Chunk(k) == SubSeq(m, i(k - 1) + 1, i(k) - 1)
                    \o <<MergePair(m[i(k)], s[j(k)])>>
                    \o SubSeq(s, j(k - 1) + 1, j(k) - 1)
      last == i(Len(pairs))
  IN  FlattenSeq([k \in DOMAIN pairs |-> Chunk(k)]) \o SubSeq(m, last + 1, Len(m))

\* The slave's nodes behind the last pair are left out: the last node of both,
\* MPI_Finalize's, is that pair.
LCSDoMerge(pairs, m, s) ==
  LET i(k) == IF k = 0 THEN 0 ELSE pairs[k][1]
      j(k) == IF k = 0 THEN 0 ELSE pairs[k][2]
      Chunk(k) == SubSeq(m, i(k - 1) + 1, i(k) - 1)
                    \o SubSeq(s, j(k - 1) + 1, j(k) - 1)
                    \o <<MergePair(m[i(k)], s[j(k)])>>
      last == i(Len(pairs))
  IN  FlattenSeq([k \in DOMAIN pairs |-> Chunk(k)]) \o SubSeq(m, last + 1, Len(m))

LCSMergeTrace(m, s) == LCSDoMerge(LCS(m, s), m, s)

\* What a replay of one rank reads of a merged trace (inputTrace, mode
\* INPUT_NODE): the rank's nodes, its values of their parameters, and the loops
\* that are its own.
InputLoops(loops, rank) ==
  LET own == [i \in DOMAIN loops |-> [mem  |-> ForRank(loops[i].mem, rank),
                                      iter |-> ForRank(loops[i].iter, rank)]]
  IN  SelectSeq(own, LAMBDA l : l.mem # <<>> /\ l.iter # <<>>)

InputNode(node, rank) ==
  [node EXCEPT !.count  = ForRank(@, rank),
               !.values = ForRank(@, rank),
               !.loops  = InputLoops(@, rank)]

InputTrace(t, rank) ==
  LET own == SelectSeq(t, LAMBDA node : rank \in node.ranks)
  IN  [i \in DOMAIN own |-> InputNode(own[i], rank)]

\* inputEvent returns NULL for a node the rank is not in, which inputTrace
\* then dereferences (setId).
InputCrashes(t, rank) == \E i \in DOMAIN t : rank \notin t[i].ranks
=============================================================================
