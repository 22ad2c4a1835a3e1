----------------------------- MODULE Histogram -----------------------------
(***************************************************************************)
(* The histograms that stand for timing deltas and lossy parameters        *)
(* (classes Histogram and HistoBin).  Each rank adds values to its own     *)
(* histogram; inter-node compression merges one rank's into another's by   *)
(* adding, for every bin, values that keep its extremes and its mean.      *)
(*                                                                         *)
(* Values are integers, of which Unit make 1.0; multiples of five and few  *)
(* enough in a bin that the divisions below are exact.  A bin keeps the    *)
(* sum of its values, of which the code keeps the average.                 *)
(***************************************************************************)
EXTENDS Integers, Sequences, FiniteSets, FiniteSetsExt, SequencesExt, Functions

CONSTANTS
  Ranks,     \* MPI ranks
  Values,    \* values added
  Unit,      \* the value 1.0
  MaxElems   \* bound on the values added by all ranks together

\* What a user of this module assumes of the constants.
ConstantsOK ==
  /\ Values \subseteq Nat /\ \A v \in Values : v % 5 = 0
  /\ Unit \in Nat \ {0}

NUM_BINS == 5

VARIABLES
  histogram,  \* rank -> its histogram
  alive,      \* the ranks whose histograms are not merged into another
  added       \* rank -> what its histogram stands for: how many values, their
              \* sum, and which rank added which value
vars == <<histogram, alive, added>>

-----------------------------------------------------------------------------
\* HistoBin

EmptyBin(start, end) ==
  [start |-> start, end |-> end, min |-> 0, max |-> 0, sum |-> 0, freq |-> 0]

BinAdd(bin, v) ==
  [bin EXCEPT !.min = IF bin.freq = 0 \/ v < @ THEN v ELSE @,
              !.max = IF bin.freq = 0 \/ v > @ THEN v ELSE @,
              !.sum = @ + v,
              !.freq = @ + 1]

\* Mutant of BinMerge: the upper bin's maximum is not taken.
BinMergeKeepMax(bin, other) ==
  [bin EXCEPT !.end = other.end,
              !.min = IF bin.freq = 0 THEN other.min ELSE @,
              !.sum = @ + other.sum,
              !.freq = @ + other.freq]

BinMerge(bin, other) ==
  [bin EXCEPT !.end = other.end,
              !.min = IF bin.freq = 0 /\ other.freq > 0 THEN other.min ELSE @,
              !.max = IF other.freq > 0 THEN other.max ELSE @,
              !.sum = @ + other.sum,
              !.freq = @ + other.freq]

-----------------------------------------------------------------------------
\* Histogram

Empty ==
  [num_elems |-> 0, bins |-> <<>>, min_value |-> 0, min_rank |-> -1,
   max_value |-> 0, max_rank |-> -1, avg |-> [num |-> 0, den |-> 1]]

\* The first value sets the bins, with the value at the centre of their range.
FirstBins(v) ==
  LET size == IF v # 0 THEN (2 * v) \div NUM_BINS ELSE Unit
  IN  [i \in 1..NUM_BINS |-> EmptyBin((i - 1) * size, i * size)]

\* Averages of bins as fractions; an empty bin's average is 0.
Weight(bin) == IF bin.freq = 0 THEN 1 ELSE bin.freq
Closer(bins, i, j) ==
  LET Gap(k) == bins[k + 1].sum * Weight(bins[k]) - bins[k].sum * Weight(bins[k + 1])
      Den(k) == Weight(bins[k]) * Weight(bins[k + 1])
  IN  Gap(i) * Den(j) < Gap(j) * Den(i)

\* smooth: the first two neighbours whose averages are closest become one bin.
Smooth(bins) ==
  LET pairs == 1..(Len(bins) - 1)
      at == CHOOSE i \in pairs :
              \A j \in pairs : ~Closer(bins, j, i) /\ (j < i => Closer(bins, i, j))
  IN  [i \in pairs |->
        CASE i < at -> bins[i]
          [] i = at -> BinMerge(bins[i], bins[i + 1])
          [] i > at -> bins[i + 1]]

FindBin(bins, v) == {i \in DOMAIN bins : bins[i].start <= v /\ v <= bins[i].end}

\* A value above every bin gets a tail bin of its own, centred on it.
PutInBin(bins, v) ==
  LET found == FindBin(bins, v)
      end == Last(bins).end
  IN  IF found # {} THEN [bins EXCEPT ![Min(found)] = BinAdd(@, v)]
      ELSE Smooth(Append(bins, BinAdd(EmptyBin(end, 2 * v - end), v)))

\* update_avg(v, 1), called when num_elems already counts the value.
UpdateAvg(avg, n, v) ==
  IF n = 1 THEN [num |-> v, den |-> 1]
  ELSE [num |-> avg.num * n + v * avg.den, den |-> avg.den * (n + 1)]

Add(h, v, rank) ==
  LET n    == h.num_elems + 1
      low  == n = 1 \/ v < h.min_value
      high == n = 1 \/ v > h.max_value
  IN  [num_elems |-> n,
       bins      |-> PutInBin(IF n = 1 THEN FirstBins(v) ELSE h.bins, v),
       min_value |-> IF low THEN v ELSE h.min_value,
       min_rank  |-> IF low THEN rank ELSE h.min_rank,
       max_value |-> IF high THEN v ELSE h.max_value,
       max_rank  |-> IF high THEN rank ELSE h.max_rank,
       avg       |-> UpdateAvg(h.avg, n, v)]

\* Mutant of BinValues: every value of a bin is its mean.
BinValuesMean(bin, upper) == [i \in 1..bin.freq |-> bin.sum \div bin.freq]

\* Mutant of BinValues: the mean is that of the whole bin.
BinValuesWholeMean(bin, upper) ==
  CASE bin.freq = 1 -> <<bin.min>>
    [] bin.freq > 1 ->
         <<bin.min, bin.max>> \o [i \in 1..(bin.freq - 2) |-> bin.sum \div bin.freq]

\* What merge adds for a bin: its extremes, the one that matters first, and
\* for the other values the mean that is left.
BinValues(bin, upper) ==
  LET first == IF upper THEN bin.max ELSE bin.min
      second == IF upper THEN bin.min ELSE bin.max
      mean == (bin.sum - bin.min - bin.max) \div (bin.freq - 2)
  IN  CASE bin.freq = 1 -> <<first>>
        [] bin.freq > 1 -> <<first, second>> \o [i \in 1..(bin.freq - 2) |-> mean]

AddAll(h, values, rank) ==
  LET with[j \in 0..Len(values)] == IF j = 0 THEN h ELSE Add(with[j - 1], values[j], rank)
  IN  with[Len(values)]

\* The values of a bin are added as the minimum's rank's; those of the last one
\* that holds values, unless it is also the first, as the maximum's rank's.
AddBin(h, other, i) ==
  LET full == {k \in DOMAIN other.bins : other.bins[k].freq > 0}
      upper == i = Max(full) /\ i # Min(full)
  IN  IF i \notin full THEN h
      ELSE AddAll(h, BinValues(other.bins[i], upper),
                  IF upper THEN other.max_rank ELSE other.min_rank)

\* The bins are added in order.
Merge(h, other) ==
  LET with[i \in 0..Len(other.bins)] == IF i = 0 THEN h ELSE AddBin(with[i - 1], other, i)
  IN  with[Len(other.bins)]

\* Mutant of Spread: the steps between a bin's extremes are too short.
SpreadShort(bin) ==
  [j \in 1..bin.freq |->
    [num |-> bin.min * bin.freq + (bin.max - bin.min) * (j - 1), den |-> bin.freq]]

\* The values randomValue draws from: those of a bin spread evenly between its
\* extremes, as fractions, and one bin after another.
Spread(bin) ==
  [j \in 1..bin.freq |->
    IF bin.freq = 1 THEN [num |-> bin.sum, den |-> 1]
    ELSE [num |-> bin.min * (bin.freq - 1) + (bin.max - bin.min) * (j - 1), den |-> bin.freq - 1]]

RandomValues(h) ==
  LET drawn[i \in 0..Len(h.bins)] == IF i = 0 THEN <<>> ELSE drawn[i - 1] \o Spread(h.bins[i])
  IN  drawn[Len(h.bins)]

-----------------------------------------------------------------------------
Nothing == [count |-> 0, sum |-> 0, by |-> {}]

Init ==
  /\ histogram = [r \in Ranks |-> Empty]
  /\ alive = Ranks
  /\ added = [r \in Ranks |-> Nothing]

Total == SumFunctionOnSet([r \in Ranks |-> added[r].count], alive)

\* Stat::recordStat and Param::histogramize add a value of the rank's own.
AddValue(r, v) ==
  /\ r \in alive
  /\ Total < MaxElems
  /\ histogram' = [histogram EXCEPT ![r] = Add(@, v, r)]
  /\ added' = [added EXCEPT ![r] = [count |-> @.count + 1, sum |-> @.sum + v,
                                    by |-> @.by \cup {<<v, r>>}]]
  /\ UNCHANGED alive

\* Stat::merge and Param::merge: the other histogram is used up.
MergeInto(r, q) ==
  /\ {r, q} \subseteq alive /\ r # q
  /\ histogram[r].num_elems > 0 /\ histogram[q].num_elems > 0
  /\ histogram' = [histogram EXCEPT ![r] = Merge(@, histogram[q]), ![q] = Empty]
  /\ added' = [added EXCEPT ![r] = [count |-> @.count + added[q].count,
                                    sum |-> @.sum + added[q].sum,
                                    by |-> @.by \cup added[q].by],
                          ![q] = Nothing]
  /\ alive' = alive \ {q}

Next ==
  \/ \E r \in Ranks, v \in Values : AddValue(r, v)
  \/ \E r, q \in Ranks : MergeInto(r, q)

Spec == Init /\ [][Next]_vars
-----------------------------------------------------------------------------
Bins == [start : Nat, end : Nat, min : Nat, max : Nat, sum : Nat, freq : Nat]

\* Type invariant: a histogram in use has NUM_BINS bins, each beginning where
\* the one before ends, the first at zero.
TypeOK ==
  /\ alive \subseteq Ranks
  /\ \A r \in Ranks :
       LET bins == histogram[r].bins
       IN  /\ bins \in Seq(Bins)
           /\ Len(bins) = IF histogram[r].num_elems = 0 THEN 0 ELSE NUM_BINS
           /\ \A i \in DOMAIN bins :
                /\ bins[i].start = IF i = 1 THEN 0 ELSE bins[i - 1].end
                /\ bins[i].start <= bins[i].end

\* Every value counts once and the sum of the values is kept, through tails,
\* smoothing and merging: the number of elements is the number of values added
\* on all ranks merged, and the bins hold that number and that sum.
ValuesKept ==
  \A r \in alive :
    LET h == histogram[r]
        Of(field) == FoldLeft(LAMBDA n, bin : n + bin[field], 0, h.bins)
    IN  /\ h.num_elems = added[r].count
        /\ Of("freq") = added[r].count
        /\ Of("sum") = added[r].sum

\* The bins stay five and contiguous, and a bin's values lie within it, so that
\* values of different bins keep their order however often bins are merged.
BinsHoldTheirValues ==
  /\ TypeOK
  /\ \A r \in alive : \A i \in DOMAIN histogram[r].bins :
       LET bin == histogram[r].bins[i]
       IN  bin.freq > 0 =>
             /\ bin.start <= bin.min /\ bin.min <= bin.max /\ bin.max <= bin.end
             /\ bin.min * bin.freq <= bin.sum /\ bin.sum <= bin.max * bin.freq

\* The smallest and the largest value survive, and the smallest one's rank is a
\* rank that added it.
ExtremesKept ==
  \A r \in alive :
    LET h == histogram[r]
        values == {p[1] : p \in added[r].by}
    IN  values # {} =>
          /\ h.min_value = Min(values) /\ h.max_value = Max(values)
          /\ <<h.min_value, h.min_rank>> \in added[r].by

\* Histogram::randomValue always finds a bin, and what it may return reaches
\* from the smallest to the largest value, no further and no less.
DrawsSpanTheValues ==
  \A r \in alive :
    LET h == histogram[r]
        drawn == RandomValues(h)
    IN  /\ Len(drawn) = h.num_elems
        /\ \A k \in DOMAIN drawn :
             /\ h.min_value * drawn[k].den <= drawn[k].num
             /\ drawn[k].num <= h.max_value * drawn[k].den
        /\ drawn # <<>> =>
             /\ \E k \in DOMAIN drawn : drawn[k].num = h.min_value * drawn[k].den
             /\ \E k \in DOMAIN drawn : drawn[k].num = h.max_value * drawn[k].den

\* What Histogram.h says of avg: "average value of this histogram".
AverageTrue ==
  \A r \in alive :
    LET avg == histogram[r].avg
    IN  avg.num * added[r].count = added[r].sum * avg.den
=============================================================================
