------------------------------- MODULE Params -------------------------------
(***************************************************************************)
(* Lossless parameters of a trace event (ParamValue.C, Param.C).           *)
(*                                                                         *)
(* A parameter value, ParamValue, is a period of values, the number of     *)
(* times the period was seen, and the ranks that saw it.  A parameter,     *)
(* Param, is a list of parameter values whose rank lists are disjoint.     *)
(* Merging with the same rank list appends in time (loop compression);     *)
(* merging with the same values joins the ranks (inter-node compression).  *)
(* Histograms, which replace these values in probabilistic traces, are not *)
(* part of this module, nor is the counter cnt, which only they read.      *)
(***************************************************************************)
EXTENDS Integers, Sequences, SequencesExt, FiniteSetsExt

Single(vals, ranks) == <<[vals |-> vals, ranks |-> ranks, iters |-> 1]>>

\* The values a parameter value stands for: its period, repeated.
Expand(p) ==
  [i \in 1..(p.iters * Len(p.vals)) |-> p.vals[((i - 1) % Len(p.vals)) + 1]]

\* The smallest length, at most half of s, whose repetition is s, or Len(s).
Period(s) ==
  LET Repeats(len) == /\ Len(s) % len = 0
                      /\ \A i \in 1..Len(s) : s[i] = s[((i - 1) % len) + 1]
  IN  Min({len \in 1..(Len(s) \div 2) : Repeats(len)} \cup {Len(s)})

Compressed(s, ranks) ==
  LET len == Period(s)
  IN  [vals |-> SubSeq(s, 1, len), ranks |-> ranks, iters |-> Len(s) \div len]

\* Mutant of Then: values equal to the period count as one repetition of it.
ThenOnce(p, q) ==
  IF p.vals = q.vals
  THEN [p EXCEPT !.iters = @ + 1]
  ELSE Compressed(Expand(p) \o Expand(q), p.ranks)

\* What p's ranks saw, followed by what the same ranks saw in q.
Then(p, q) ==
  IF p.vals = q.vals
  THEN [p EXCEPT !.iters = @ + q.iters]
  ELSE Compressed(Expand(p) \o Expand(q), p.ranks)

\* Mutant of CanMerge: ranks with the same values are not joined.
CanMergeSameRanks(p, q) == p.ranks = q.ranks

CanMerge(p, q) == p.ranks = q.ranks \/ p.vals = q.vals

MergeValue(p, q) ==
  IF p.ranks = q.ranks THEN Then(p, q)
                       ELSE [p EXCEPT !.ranks = @ \cup q.ranks]

\* One value of another node joins the first value it can merge with.
Absorb(a, q) ==
  IF \E j \in DOMAIN a : CanMerge(a[j], q)
  THEN LET j == Min({k \in DOMAIN a : CanMerge(a[k], q)})
       IN  [a EXCEPT ![j] = MergeValue(@, q)]
  ELSE Append(a, q)

\* Mutant of MergeParam: values that differ are kept apart, whoever saw them.
MergeParamByValue(a, b) ==
  IF Len(a) = 1 /\ Len(b) = 1 /\ a[1].vals = b[1].vals
  THEN <<Then(a[1], b[1])>>
  ELSE a \o b

MergeParam(a, b) ==
  IF Len(a) = 1 /\ Len(b) = 1 /\ a[1].ranks = b[1].ranks
  THEN <<Then(a[1], b[1])>>
  ELSE LET merged[k \in 0..Len(b)] == IF k = 0 THEN a ELSE Absorb(merged[k - 1], b[k])
       IN  merged[Len(b)]

Increment(a) == [a EXCEPT ![1].vals[1] = @ + 1]

\* The part of a parameter a replay reads for one rank (mode INPUT_NODE).
ForRank(a, rank) == SelectSeq(a, LAMBDA p : rank \in p.ranks)

\* The scalar a one-valued parameter holds (getCurrentValue, getParamValueAt).
Scalar(a) == a[1].vals[1]

\* count values read from position pos, the values consumed so far, of a
\* parameter that holds one value list (getCurrentValue, getCurrentValues).
ReadAt(a, pos, count) ==
  [k \in 1..count |-> a[1].vals[((pos + k - 1) % Len(a[1].vals)) + 1]]
=============================================================================
