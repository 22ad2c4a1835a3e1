------------------------- MODULE Encodings_proofs -------------------------
(***************************************************************************)
(* Proofs about lists of ranks, peers and histograms, for any ranks.       *)
(*                                                                         *)
(* Lists of ranks: adding a rank larger than those of a list, folding      *)
(* PRSDs, and building a list of ascending ranks keep a list "under        *)
(* construction" (ListOK) that expands to the ranks added, each once.      *)
(* Expanded and sorted it is those ranks, ascending; the scan of the       *)
(* stored numbers finds one PRSD after another.  ListsInv says so of the   *)
(* list of every rank.                                                     *)
(*                                                                         *)
(* Peers: a distance added to the rank it was taken from leads back to a   *)
(* rank, and to nothing else.                                              *)
(*                                                                         *)
(* Histograms: a bin holds its values between its bounds and bounds their  *)
(* sum, which adding and smoothing keep (GoodBin).  Bins are a chain in    *)
(* ascending order.  Smoothing always finds two closest neighbours, since  *)
(* "closer" is the order of fractions.  What a merge adds for a bin lies   *)
(* between its extremes.  HistogramsInv says so of the histogram of every  *)
(* rank, for any values.                                                   *)
(***************************************************************************)
EXTENDS Encodings, TLAPS, FiniteSetTheorems, WellFoundedInduction

\* What lists of ranks are made of.
Sections == [iters : Nat \ {0}, stride : Nat]
Prsds == [start : Nat, rsds : Seq(Sections)]
-----------------------------------------------------------------------------
(* Numbers and recursion. *)

\* A set of natural numbers has a smallest element.
LEMMA Smallest ==
  ASSUME NEW S, S \subseteq Nat, S # {}
  PROVE  Min(S) \in S /\ \A j \in S : Min(S) <= j
<1>1. PICK k \in S : \A j \in S : ~(<<j, k>> \in OpToRel(<, Nat))
  BY NatLessThanWellFounded, WFMin, Zenon
<1>2. ASSUME NEW j \in S PROVE k <= j
  <2>1. k \in Nat /\ j \in Nat
    OBVIOUS
  <2>2. ASSUME j < k PROVE <<j, k>> \in OpToRel(<, Nat)
    BY <2>1, <2>2 DEF OpToRel
  <2>3. ~(j < k)
    BY <1>1, <2>2, Zenon
  <2> QED BY <2>1, <2>3
<1> QED BY <1>2 DEF Min

\* One that is bounded has a largest.
LEMMA Largest ==
  ASSUME NEW n \in Nat, NEW S, S \subseteq 0..n, S # {}
  PROVE  Max(S) \in S /\ \A j \in S : j <= Max(S)
<1> DEFINE T == {n - k : k \in S}
<1>1. T \subseteq Nat /\ T # {}
  <2>1. \A k \in S : k \in 0..n
    OBVIOUS
  <2>2. \A k \in 0..n : n - k \in Nat
    OBVIOUS
  <2> QED BY <2>1, <2>2
<1>2. Min(T) \in T /\ \A j \in T : Min(T) <= j
  <2> HIDE DEF T
  <2> QED BY <1>1, Smallest
<1>3. PICK k \in S : Min(T) = n - k
  BY <1>2
<1>4. \A j \in S : k >= j
  <2> SUFFICES ASSUME NEW j \in S PROVE k >= j
    OBVIOUS
  <2>1. n - k <= n - j
    BY <1>2, <1>3
  <2> QED BY <2>1
<1>5. \E x \in S : \A j \in S : x >= j
  BY <1>4
<1>6. Max(S) \in S /\ \A j \in S : Max(S) >= j
  BY <1>5 DEF Max
<1> QED BY <1>6

\* Induction up to a bound.
LEMMA UpTo ==
  ASSUME NEW n \in Nat, NEW P, 0 \in P, \A k \in 1..n : k - 1 \in P => k \in P
  PROVE  \A k \in 0..n : k \in P
<1> DEFINE Bad == {k \in 0..n : k \notin P}
<1>1. SUFFICES ASSUME Bad # {} PROVE FALSE
  OBVIOUS
<1>2. PICK k \in Bad : \A j \in Bad : k <= j
  <2>1. Bad \subseteq Nat
    OBVIOUS
  <2> HIDE DEF Bad
  <2> QED BY <1>1, <2>1, Smallest
<1>3. k \in 1..n /\ k \notin P
  OBVIOUS
<1>4. k - 1 \in 0..n /\ k - 1 < k
  BY <1>3
<1>5. k - 1 \notin Bad
  <2> HIDE DEF Bad
  <2> QED BY <1>2, <1>3, <1>4
<1> QED BY <1>3, <1>4, <1>5

\* A function defined by recursion on 0..n exists.
Recursive(f, n, S, base, F) == f \in [0..n -> S] /\ f[0] = base /\ \A k \in 1..n : f[k] = F[k][f[k - 1]]

\* Whatever its steps F do to values in S.
LEMMA Recursion ==
  ASSUME NEW n \in Nat, NEW S, NEW base \in S, NEW F \in [1..n -> [S -> S]]
  PROVE  \E f : Recursive(f, n, S, base, F)
<1> DEFINE Is(f, m) == f \in [0..m -> S] /\ f[0] = base /\ \A k \in 1..m : f[k] = F[k][f[k - 1]]
           P == {m \in 0..n : \E f : Is(f, m)}
<1>1. 0 \in P
  <2>1. Is([k \in 0..0 |-> base], 0)
    OBVIOUS
  <2>2. 0 \in 0..n
    OBVIOUS
  <2> HIDE DEF Is
  <2> QED BY <2>1, <2>2
<1>2. ASSUME NEW m \in 1..n, m - 1 \in P PROVE m \in P
  <2>1. PICK f : Is(f, m - 1)
    BY <1>2
  <2> DEFINE g == [k \in 0..m |-> IF k = m THEN F[m][f[m - 1]] ELSE f[k]]
  <2>2. m - 1 \in 0..(m - 1) /\ f[m - 1] \in S
    BY <2>1
  <2>3. F[m][f[m - 1]] \in S
    BY <2>2
  <2>4. g \in [0..m -> S]
    BY <2>1, <2>3
  <2>5. g[0] = base
    BY <2>1
  <2>6. ASSUME NEW k \in 1..m PROVE g[k] = F[k][g[k - 1]]
    <3>1. k - 1 \in 0..m /\ k - 1 # m /\ g[k - 1] = f[k - 1]
      OBVIOUS
    <3>2. CASE k = m
      BY <3>1, <3>2
    <3>3. CASE k # m
      <4>1. k \in 1..(m - 1) /\ g[k] = f[k]
        BY <3>3
      <4>2. f[k] = F[k][f[k - 1]]
        BY <2>1, <4>1
      <4> HIDE DEF g
      <4> QED BY <3>1, <4>1, <4>2
    <3> QED BY <3>2, <3>3
  <2>7. Is(g, m)
    <3> HIDE DEF g
    <3> QED BY <2>4, <2>5, <2>6
  <2>8. m \in 0..n
    OBVIOUS
  <2> HIDE DEF Is, g
  <2> QED BY <2>7, <2>8
<1>3. n \in P
  <2>1. n \in 0..n
    OBVIOUS
  <2> HIDE DEF P
  <2> QED BY <1>1, <1>2, <2>1, UpTo
<1> QED BY <1>3 DEF Recursive

\* Quotient and remainder.
LEMMA DivMod ==
  ASSUME NEW a \in Nat, NEW n \in Nat \ {0}
  PROVE  /\ a \div n \in Nat /\ a % n \in 0..(n - 1)
         /\ a = n * (a \div n) + (a % n)
<1>1. a \div n \in Int /\ a \div n >= 0
  OBVIOUS
<1>2. a % n \in 0..(n - 1)
  OBVIOUS
<1>3. a = n * (a \div n) + (a % n)
  OBVIOUS
<1> QED BY <1>1, <1>2, <1>3

\* A larger multiple is larger by one step at least.
LEMMA Steps ==
  ASSUME NEW a \in Nat, NEW b \in Nat, NEW n \in Nat, a < b
  PROVE  n * a + n <= n * b
<1>1. PICK c \in Nat : b = a + 1 + c
  <2>1. b - a - 1 \in Nat /\ b = a + 1 + (b - a - 1)
    OBVIOUS
  <2> QED BY <2>1
<1>2. n * b = n * a + n + n * c
  BY <1>1
<1>3. n * c >= 0 /\ n * c \in Int
  OBVIOUS
<1>4. n * a \in Int
  OBVIOUS
<1> QED BY <1>2, <1>3, <1>4

\* A number has one quotient and one remainder.
LEMMA DivModUnique ==
  ASSUME NEW n \in Nat \ {0}, NEW q \in Nat, NEW k \in Nat,
         NEW r \in 0..(n - 1), NEW m \in 0..(n - 1), n * q + r = n * k + m
  PROVE  q = k /\ r = m
<1>1. n * q \in Nat /\ n * k \in Nat
  OBVIOUS
<1>2. CASE q < k
  BY <1>1, <1>2, Steps
<1>3. CASE k < q
  BY <1>1, <1>3, Steps
<1> QED BY <1>1, <1>2, <1>3

\* The indices of k repetitions of n numbers are those of a number and a
\* repetition.
LEMMA Indices ==
  ASSUME NEW n \in Nat \ {0}, NEW k \in Nat \ {0}
  PROVE  /\ n * k \in Nat \ {0}
         /\ \A j \in 1..(n * k) : ((j - 1) % n) + 1 \in 1..n /\ (j - 1) \div n \in 0..(k - 1)
         /\ \A i \in 1..n, m \in 0..(k - 1) :
              /\ n * m + i \in 1..(n * k)
              /\ (((n * m + i) - 1) % n) + 1 = i /\ ((n * m + i) - 1) \div n = m
<1>1. n * k \in Nat \ {0}
  OBVIOUS
<1>2. ASSUME NEW j \in 1..(n * k)
      PROVE  ((j - 1) % n) + 1 \in 1..n /\ (j - 1) \div n \in 0..(k - 1)
  <2>1. j - 1 \in Nat /\ j - 1 < n * k
    BY <1>1
  <2> DEFINE q == (j - 1) \div n
             r == (j - 1) % n
  <2>2. q \in Nat /\ r \in 0..(n - 1) /\ j - 1 = n * q + r
    BY <2>1, DivMod
  <2> HIDE DEF q, r
  <2>3. n * q \in Nat
    BY <2>2
  <2>4. ~(k < q) /\ q # k
    <3>1. CASE k < q
      <4>1. n * k + n <= n * q
        BY <2>2, <3>1, Steps
      <4> QED BY <1>1, <2>1, <2>2, <2>3, <4>1
    <3>2. CASE q = k
      BY <1>1, <2>1, <2>2, <2>3, <3>2
    <3> QED BY <3>1, <3>2, <1>1, <2>1, <2>2, <2>3
  <2>5. r + 1 \in 1..n /\ q \in 0..(k - 1)
    BY <2>2, <2>4
  <2> QED BY <2>5 DEF q, r
<1>3. ASSUME NEW i \in 1..n, NEW m \in 0..(k - 1)
      PROVE  /\ n * m + i \in 1..(n * k)
             /\ (((n * m + i) - 1) % n) + 1 = i /\ ((n * m + i) - 1) \div n = m
  <2>1. n * m \in Nat /\ n * m + n <= n * k
    BY Steps
  <2>2. n * m + i \in 1..(n * k) /\ (n * m + i) - 1 \in Nat
    BY <1>1, <2>1
  <2> DEFINE a == (n * m + i) - 1
             q == a \div n
             r == a % n
  <2>3. q \in Nat /\ r \in 0..(n - 1) /\ a = n * q + r
    <3> HIDE DEF a
    <3>1. a \in Nat
      BY <2>2 DEF a
    <3> QED BY <3>1, DivMod
  <2>4. a = n * m + (i - 1) /\ i - 1 \in 0..(n - 1)
    BY <2>1
  <2> HIDE DEF a, q, r
  <2>5. q = m /\ r = i - 1
    <3>1. n * q + r = n * m + (i - 1)
      BY <2>3, <2>4
    <3> QED BY <2>3, <2>4, <3>1, DivModUnique
  <2>6. q = m /\ r + 1 = i
    BY <2>5
  <2> QED BY <2>2, <2>6 DEF a, q, r
<1> QED BY <1>1, <1>2, <1>3
-----------------------------------------------------------------------------
(* The ranks of sections. *)

\* At least one rank.
Some == Seq(Nat) \ {<<>>}

\* A section repeats every rank as often as it says, a stride further each.
LEMMA RepeatIs ==
  ASSUME NEW s \in Some, NEW rsd \in Sections
  PROVE  /\ Repeat(s, rsd) \in Some
         /\ Len(Repeat(s, rsd)) = Len(s) * rsd.iters
         /\ \A v : v \in ToSet(Repeat(s, rsd)) <=>
              \E i \in 1..Len(s), m \in 0..(rsd.iters - 1) : v = s[i] + rsd.stride * m
<1> DEFINE n == Len(s)
           k == rsd.iters
           t == Repeat(s, rsd)
<1>1. n \in Nat \ {0} /\ k \in Nat \ {0} /\ rsd.stride \in Nat /\ \A i \in 1..n : s[i] \in Nat
  BY DEF Some, Sections
<1>2. t = [j \in 1..(n * k) |-> s[((j - 1) % n) + 1] + rsd.stride * ((j - 1) \div n)]
  BY DEF Repeat
<1> HIDE DEF n, k, t
<1>3. /\ n * k \in Nat \ {0}
      /\ \A j \in 1..(n * k) : ((j - 1) % n) + 1 \in 1..n /\ (j - 1) \div n \in 0..(k - 1)
      /\ \A i \in 1..n, m \in 0..(k - 1) :
           /\ n * m + i \in 1..(n * k)
           /\ (((n * m + i) - 1) % n) + 1 = i /\ ((n * m + i) - 1) \div n = m
  BY <1>1, Indices
<1>4. \A m \in 0..(k - 1) : rsd.stride * m \in Nat
  BY <1>1
<1>5. \A j \in 1..(n * k) : t[j] \in Nat
  <2> SUFFICES ASSUME NEW j \in 1..(n * k) PROVE t[j] \in Nat
    OBVIOUS
  <2>1. s[((j - 1) % n) + 1] \in Nat
    BY <1>1, <1>3
  <2>2. rsd.stride * ((j - 1) \div n) \in Nat
    BY <1>3, <1>4
  <2>3. t[j] = s[((j - 1) % n) + 1] + rsd.stride * ((j - 1) \div n)
    BY <1>2
  <2> QED BY <2>1, <2>2, <2>3
<1>6. t \in Some /\ Len(t) = n * k
  <2> DEFINE N == n * k
  <2>1. N \in Nat \ {0} /\ t \in [1..N -> Nat]
    BY <1>2, <1>3, <1>5
  <2> HIDE DEF N
  <2>2. t \in Seq(Nat) /\ Len(t) = N
    BY <2>1
  <2> QED BY <2>1, <2>2 DEF Some, N
<1>7. ASSUME NEW v
      PROVE  v \in ToSet(t) <=> \E i \in 1..n, m \in 0..(k - 1) : v = s[i] + rsd.stride * m
  <2>1. DOMAIN t = 1..(n * k)
    BY <1>2
  <2>2. ASSUME NEW j \in 1..(n * k), v = t[j]
        PROVE  \E i \in 1..n, m \in 0..(k - 1) : v = s[i] + rsd.stride * m
    <3>1. t[j] = s[((j - 1) % n) + 1] + rsd.stride * ((j - 1) \div n)
      BY <1>2
    <3> QED BY <1>3, <2>2, <3>1
  <2>3. ASSUME NEW i \in 1..n, NEW m \in 0..(k - 1), v = s[i] + rsd.stride * m
        PROVE  \E j \in 1..(n * k) : v = t[j]
    <3> DEFINE j == n * m + i
    <3>1. j \in 1..(n * k) /\ ((j - 1) % n) + 1 = i /\ (j - 1) \div n = m
      BY <1>3
    <3> HIDE DEF j
    <3>2. t[j] = s[((j - 1) % n) + 1] + rsd.stride * ((j - 1) \div n)
      BY <1>2, <3>1
    <3> QED BY <2>3, <3>1, <3>2
  <2> QED BY <2>1, <2>2, <2>3 DEF ToSet
<1> QED BY <1>6, <1>7 DEF n, k, t

\* The ranks after each section.
Sweeps(u, s, rsds) ==
  /\ u \in [0..Len(rsds) -> Some] /\ u[0] = s
  /\ \A d \in 1..Len(rsds) : u[d] = Repeat(u[d - 1], rsds[d])
  /\ Sweep(s, rsds) = u[Len(rsds)]

\* Sections make ranks, one section after another.
LEMMA SweepIs ==
  ASSUME NEW s \in Some, NEW rsds \in Seq(Sections)
  PROVE  \E u : Sweeps(u, s, rsds)
<1> DEFINE n == Len(rsds)
           Is(u) == u = [d \in 0..n |-> IF d = 0 THEN s ELSE Repeat(u[d - 1], rsds[d])]
           F == [d \in 1..n |-> [t \in Some |-> Repeat(t, rsds[d])]]
<1>1. n \in Nat /\ \A d \in 1..n : rsds[d] \in Sections
  OBVIOUS
<1>2. F \in [1..n -> [Some -> Some]]
  BY <1>1, RepeatIs
<1>3. PICK g : Recursive(g, n, Some, s, F)
  <2> HIDE DEF F, n
  <2> QED BY <1>1, <1>2, Recursion
<1>4. g \in [0..n -> Some] /\ g[0] = s /\ \A d \in 1..n : g[d] = Repeat(g[d - 1], rsds[d])
  <2>1. \A d \in 1..n : d - 1 \in 0..n
    BY <1>1
  <2> QED BY <1>3, <2>1 DEF Recursive
<1>5. Is(g)
  <2>1. \A d \in 0..n : d # 0 => d \in 1..n
    BY <1>1
  <2> QED BY <1>4, <2>1
<1>6. Sweep(s, rsds) = (CHOOSE u : Is(u))[n]
  BY DEF Sweep
<1>7. PICK u : u = CHOOSE v : Is(v)
  OBVIOUS
<1>8. Is(u)
  <2> HIDE DEF Is
  <2> QED BY <1>5, <1>7, Zenon
<1>9. u[0] = s /\ \A d \in 1..n : u[d] = Repeat(u[d - 1], rsds[d])
  <2>1. \A d \in 1..n : d # 0 /\ d \in 0..n
    BY <1>1
  <2> QED BY <1>1, <1>8, <2>1
<1>10. \A d \in 0..n : d \in {e \in 0..n : u[e] \in Some}
  <2> DEFINE P == {e \in 0..n : u[e] \in Some}
  <2>1. 0 \in P
    BY <1>1, <1>9
  <2>2. ASSUME NEW d \in 1..n, d - 1 \in P PROVE d \in P
    <3>1. u[d - 1] \in Some /\ rsds[d] \in Sections /\ d \in 0..n
      BY <1>1, <2>2
    <3>2. Repeat(u[d - 1], rsds[d]) \in Some
      BY <3>1, RepeatIs
    <3> QED BY <1>9, <3>1, <3>2
  <2>3. \A d \in 0..n : d \in P
    <3> HIDE DEF P, n
    <3> QED BY <1>1, <2>1, <2>2, UpTo
  <2> QED BY <2>3
<1>11. Sweeps(u, s, rsds)
  BY <1>6, <1>7, <1>8, <1>9, <1>10 DEF Sweeps
<1> QED BY <1>11

\* Sections make of two sets of ranks what they make of each.
Joined(c, a, b) ==
  /\ {a, b, c} \subseteq Some
  /\ ToSet(c) = ToSet(a) \cup ToSet(b) /\ Len(c) = Len(a) + Len(b)

\* The repetitions of two lists of ranks are those of each, so many of both.
LEMMA RepeatJoined ==
  ASSUME NEW a, NEW b, NEW c, NEW rsd \in Sections, Joined(c, a, b)
  PROVE  Joined(Repeat(c, rsd), Repeat(a, rsd), Repeat(b, rsd))
<1>1. {a, b, c} \subseteq Some /\ ToSet(c) = ToSet(a) \cup ToSet(b) /\ Len(c) = Len(a) + Len(b)
  BY DEF Joined
<1>2. \A s \in Some : \A v : v \in ToSet(Repeat(s, rsd)) <=>
        \E w \in ToSet(s), m \in 0..(rsd.iters - 1) : v = w + rsd.stride * m
  <2> SUFFICES ASSUME NEW s \in Some, NEW v
               PROVE  v \in ToSet(Repeat(s, rsd)) <=>
                        \E w \in ToSet(s), m \in 0..(rsd.iters - 1) : v = w + rsd.stride * m
    OBVIOUS
  <2>1. v \in ToSet(Repeat(s, rsd)) <=>
          \E i \in 1..Len(s), m \in 0..(rsd.iters - 1) : v = s[i] + rsd.stride * m
    BY RepeatIs
  <2>2. ToSet(s) = {s[i] : i \in 1..Len(s)}
    BY DEF ToSet, Some
  <2> QED BY <2>1, <2>2
<1>3. ToSet(Repeat(c, rsd)) = ToSet(Repeat(a, rsd)) \cup ToSet(Repeat(b, rsd))
  BY <1>1, <1>2
<1>4. /\ {Repeat(a, rsd), Repeat(b, rsd), Repeat(c, rsd)} \subseteq Some
      /\ Len(Repeat(a, rsd)) = Len(a) * rsd.iters /\ Len(Repeat(b, rsd)) = Len(b) * rsd.iters
      /\ Len(Repeat(c, rsd)) = Len(c) * rsd.iters
  BY <1>1, RepeatIs
<1>5. Len(c) * rsd.iters = Len(a) * rsd.iters + Len(b) * rsd.iters
  <2>1. \A x \in Nat, y \in Nat, z \in Nat : (x + y) * z = x * z + y * z
    OBVIOUS
  <2>2. Len(a) \in Nat /\ Len(b) \in Nat /\ rsd.iters \in Nat
    BY <1>1 DEF Some, Sections
  <2> QED BY <1>1, <2>1, <2>2
<1> QED BY <1>3, <1>4, <1>5 DEF Joined

\* So are the ranks that several sections make.
LEMMA SweepJoined ==
  ASSUME NEW a, NEW b, NEW c, NEW rsds \in Seq(Sections), Joined(c, a, b)
  PROVE  Joined(Sweep(c, rsds), Sweep(a, rsds), Sweep(b, rsds))
<1> DEFINE n == Len(rsds)
<1>1. n \in Nat /\ \A d \in 1..n : rsds[d] \in Sections
  OBVIOUS
<1>2. {a, b, c} \subseteq Some
  BY DEF Joined
<1>3. PICK u : Sweeps(u, a, rsds)
  BY <1>2, SweepIs
<1>4. PICK v : Sweeps(v, b, rsds)
  BY <1>2, SweepIs
<1>5. PICK w : Sweeps(w, c, rsds)
  BY <1>2, SweepIs
<1> DEFINE P == {d \in 0..n : Joined(w[d], u[d], v[d])}
<1>6. 0 \in P
  BY <1>1, <1>3, <1>4, <1>5 DEF Sweeps
<1>7. ASSUME NEW d \in 1..n, d - 1 \in P PROVE d \in P
  <2>1. u[d] = Repeat(u[d - 1], rsds[d]) /\ v[d] = Repeat(v[d - 1], rsds[d]) /\ w[d] = Repeat(w[d - 1], rsds[d])
    BY <1>3, <1>4, <1>5 DEF Sweeps
  <2>2. Joined(w[d], u[d], v[d])
    BY <1>1, <1>7, <2>1, RepeatJoined
  <2> QED BY <1>1, <2>2
<1>8. n \in P
  <2>1. n \in 0..n
    BY <1>1
  <2> HIDE DEF P, n
  <2> QED BY <1>1, <1>6, <1>7, <2>1, UpTo
<1> QED BY <1>3, <1>4, <1>5, <1>8 DEF Sweeps

\* An outermost section comes first.
LEMMA SweepFirst ==
  ASSUME NEW s \in Some, NEW rsd \in Sections, NEW rsds \in Seq(Sections)
  PROVE  /\ Sweep(s, <<rsd>> \o rsds) = Sweep(Repeat(s, rsd), rsds)
         /\ Sweep(s, <<rsd>> \o rsds) \in Some
<1> DEFINE n == Len(rsds)
           all == <<rsd>> \o rsds
           t == Repeat(s, rsd)
<1>1. n \in Nat /\ all \in Seq(Sections) /\ Len(all) = n + 1 /\ t \in Some
  BY RepeatIs
<1>2. all[1] = rsd /\ \A d \in 1..n : all[d + 1] = rsds[d]
  OBVIOUS
<1>3. PICK u : Sweeps(u, s, all)
  BY <1>1, SweepIs
<1>4. PICK v : Sweeps(v, t, rsds)
  BY <1>1, SweepIs
<1> DEFINE P == {d \in 0..n : u[d + 1] = v[d]}
<1> HIDE DEF n, all, t
<1>5. \A d \in 1..(n + 1) : u[d] = Repeat(u[d - 1], all[d])
  BY <1>1, <1>3 DEF Sweeps
<1>6. 0 \in P
  <2>1. 1 \in 1..(n + 1) /\ 1 - 1 = 0 /\ 0 + 1 = 1
    BY <1>1
  <2>2. u[0] = s /\ v[0] = t
    BY <1>3, <1>4 DEF Sweeps
  <2>3. u[1] = Repeat(u[0], all[1])
    BY <1>5, <2>1
  <2> QED BY <1>1, <1>2, <2>1, <2>2, <2>3 DEF t
<1>7. ASSUME NEW d \in 1..n, d - 1 \in P PROVE d \in P
  <2>1. d + 1 \in 1..(n + 1) /\ (d + 1) - 1 = d /\ (d - 1) + 1 = d /\ d \in 0..n
    BY <1>1
  <2>2. u[d + 1] = Repeat(u[d], all[d + 1])
    BY <1>5, <2>1
  <2>3. v[d] = Repeat(v[d - 1], rsds[d])
    BY <1>4 DEF Sweeps, n
  <2>4. u[d] = v[d - 1]
    BY <1>7, <2>1
  <2> QED BY <1>2, <2>1, <2>2, <2>3, <2>4
<1>8. n \in P
  <2>1. n \in 0..n
    BY <1>1
  <2> HIDE DEF P
  <2> QED BY <1>1, <1>6, <1>7, <2>1, UpTo
<1>9. Sweep(s, all) = u[n + 1] /\ Sweep(t, rsds) = v[n] /\ v[n] \in Some
  BY <1>1, <1>3, <1>4 DEF Sweeps, n
<1> QED BY <1>8, <1>9 DEF all, t

\* The ranks of one section of one rank.
LEMMA SweepOne ==
  ASSUME NEW x \in Nat, NEW rsd \in Sections
  PROVE  /\ Sweep(<<x>>, <<rsd>>) = Repeat(<<x>>, rsd) /\ Repeat(<<x>>, rsd) \in Some
         /\ Len(Repeat(<<x>>, rsd)) = rsd.iters
         /\ \A v : v \in ToSet(Repeat(<<x>>, rsd)) <=>
              \E m \in 0..(rsd.iters - 1) : v = x + rsd.stride * m
<1>1. <<x>> \in Some /\ Len(<<x>>) = 1 /\ <<x>>[1] = x
  BY DEF Some
<1>2. Sweep(<<x>>, <<rsd>>) = Repeat(<<x>>, rsd)
  <2>1. Repeat(<<x>>, rsd) \in Some
    BY <1>1, RepeatIs
  <2>2. PICK u : Sweeps(u, Repeat(<<x>>, rsd), <<>>)
    <3>1. <<>> \in Seq(Sections)
      OBVIOUS
    <3> QED BY <2>1, <3>1, SweepIs
  <2>3. Sweep(Repeat(<<x>>, rsd), <<>>) = Repeat(<<x>>, rsd)
    BY <2>2 DEF Sweeps
  <2>4. <<rsd>> \o <<>> = <<rsd>> /\ <<>> \in Seq(Sections)
    OBVIOUS
  <2>5. Sweep(<<x>>, <<rsd>> \o <<>>) = Sweep(Repeat(<<x>>, rsd), <<>>)
    BY <1>1, <2>4, SweepFirst
  <2> QED BY <2>3, <2>4, <2>5
<1>3. Repeat(<<x>>, rsd) \in Some /\ Len(Repeat(<<x>>, rsd)) = Len(<<x>>) * rsd.iters
  BY <1>1, RepeatIs
<1>4. rsd.iters \in Nat
  BY DEF Sections
<1>5. ASSUME NEW v
      PROVE  v \in ToSet(Repeat(<<x>>, rsd)) <=> \E m \in 0..(rsd.iters - 1) : v = x + rsd.stride * m
  <2>1. v \in ToSet(Repeat(<<x>>, rsd)) <=>
          \E i \in 1..Len(<<x>>), m \in 0..(rsd.iters - 1) : v = <<x>>[i] + rsd.stride * m
    BY <1>1, RepeatIs
  <2>2. \A i \in 1..Len(<<x>>) : i = 1
    BY <1>1
  <2>3. 1 \in 1..Len(<<x>>)
    BY <1>1
  <2> QED BY <1>1, <2>1, <2>2, <2>3
<1> QED BY <1>1, <1>2, <1>3, <1>4, <1>5
-----------------------------------------------------------------------------
(* The ranks of lists. *)

Lists == Seq(Prsds)

\* A rank is among those the sections make of it.
LEMMA SweepKeeps ==
  ASSUME NEW s \in Some, NEW rsds \in Seq(Sections), NEW x \in ToSet(s)
  PROVE  Sweep(s, rsds) \in Some /\ x \in ToSet(Sweep(s, rsds))
<1> DEFINE n == Len(rsds)
<1>1. n \in Nat /\ \A d \in 1..n : rsds[d] \in Sections
  OBVIOUS
<1>2. PICK u : Sweeps(u, s, rsds)
  BY SweepIs
<1> DEFINE P == {d \in 0..n : x \in ToSet(u[d])}
<1>3. 0 \in P
  BY <1>1, <1>2 DEF Sweeps
<1>4. ASSUME NEW d \in 1..n, d - 1 \in P PROVE d \in P
  <2>1. u[d] = Repeat(u[d - 1], rsds[d]) /\ u[d - 1] \in Some /\ rsds[d] \in Sections
    BY <1>1, <1>2 DEF Sweeps
  <2>2. PICK i \in 1..Len(u[d - 1]) : x = u[d - 1][i]
    BY <1>4, <2>1 DEF ToSet, Some
  <2>3. 0 \in 0..(rsds[d].iters - 1) /\ rsds[d].stride * 0 = 0 /\ x \in Nat
    <3>1. rsds[d].iters \in Nat \ {0} /\ rsds[d].stride \in Nat
      BY <2>1 DEF Sections
    <3>2. x \in Nat
      BY <2>1, <2>2 DEF Some
    <3> QED BY <3>1, <3>2
  <2>4. x = u[d - 1][i] + rsds[d].stride * 0
    BY <2>2, <2>3
  <2>5. x \in ToSet(Repeat(u[d - 1], rsds[d]))
    BY <2>1, <2>3, <2>4, RepeatIs
  <2> QED BY <1>1, <2>1, <2>5
<1>5. n \in P
  <2>1. n \in 0..n
    BY <1>1
  <2> HIDE DEF P, n
  <2> QED BY <1>1, <1>3, <1>4, <2>1, UpTo
<1> QED BY <1>1, <1>2, <1>5 DEF Sweeps

\* A PRSD has ranks, its start among them.
LEMMA UnrollIs ==
  ASSUME NEW p \in Prsds
  PROVE  Unroll(p) \in Some /\ p.start \in ToSet(Unroll(p))
<1>1. <<p.start>> \in Some /\ p.start \in ToSet(<<p.start>>) /\ p.rsds \in Seq(Sections)
  BY DEF Prsds, Some, ToSet
<1> QED BY <1>1, SweepKeeps DEF Unroll

\* Two lists of ranks, one after the other, have the ranks of both.
LEMMA Concatenation ==
  ASSUME NEW s \in Seq(Nat), NEW t \in Seq(Nat)
  PROVE  /\ s \o t \in Seq(Nat) /\ Len(s \o t) = Len(s) + Len(t)
         /\ ToSet(s \o t) = ToSet(s) \cup ToSet(t)
<1>1. s \o t \in Seq(Nat) /\ Len(s \o t) = Len(s) + Len(t)
  OBVIOUS
<1>2. /\ ToSet(s) = {s[i] : i \in 1..Len(s)} /\ ToSet(t) = {t[i] : i \in 1..Len(t)}
      /\ ToSet(s \o t) = {(s \o t)[i] : i \in 1..(Len(s) + Len(t))}
  BY DEF ToSet
<1>3. \A i \in 1..Len(s) : (s \o t)[i] = s[i] /\ i \in 1..(Len(s) + Len(t))
  OBVIOUS
<1>4. \A i \in 1..Len(t) : (s \o t)[Len(s) + i] = t[i] /\ Len(s) + i \in 1..(Len(s) + Len(t))
  OBVIOUS
<1>5. \A i \in 1..(Len(s) + Len(t)) :
        i \in 1..Len(s) \/ (i - Len(s) \in 1..Len(t) /\ Len(s) + (i - Len(s)) = i)
  OBVIOUS
<1>6. ASSUME NEW v \in ToSet(s \o t) PROVE v \in ToSet(s) \/ v \in ToSet(t)
  <2>1. PICK i \in 1..(Len(s) + Len(t)) : v = (s \o t)[i]
    BY <1>2
  <2>2. CASE i \in 1..Len(s)
    BY <1>2, <1>3, <2>1, <2>2
  <2>3. CASE i - Len(s) \in 1..Len(t) /\ Len(s) + (i - Len(s)) = i
    <3>1. v = t[i - Len(s)]
      BY <1>4, <2>1, <2>3
    <3> QED BY <1>2, <2>3, <3>1
  <2> QED BY <1>5, <2>2, <2>3
<1>7. ToSet(s) \subseteq ToSet(s \o t)
  BY <1>2, <1>3
<1>8. ToSet(t) \subseteq ToSet(s \o t)
  BY <1>2, <1>4
<1> QED BY <1>1, <1>6, <1>7, <1>8

\* The ranks up to each PRSD.
Unrolls(a, l) ==
  /\ a \in [0..Len(l) -> Seq(Nat)] /\ a[0] = <<>>
  /\ \A i \in 1..Len(l) : a[i] = a[i - 1] \o Unroll(l[i])
  /\ Unrolled(l) = a[Len(l)]

\* A list has ranks, PRSD after PRSD.
LEMMA UnrolledIs ==
  ASSUME NEW l \in Lists
  PROVE  \E a : Unrolls(a, l)
<1> DEFINE n == Len(l)
           Is(a) == a = [i \in 0..n |-> IF i = 0 THEN <<>> ELSE a[i - 1] \o Unroll(l[i])]
           F == [i \in 1..n |-> [t \in Seq(Nat) |-> t \o Unroll(l[i])]]
<1>1. n \in Nat /\ \A i \in 1..n : Unroll(l[i]) \in Seq(Nat)
  <2>1. \A i \in 1..n : l[i] \in Prsds
    BY DEF Lists
  <2> QED BY <2>1, UnrollIs DEF Lists, Some
<1>2. F \in [1..n -> [Seq(Nat) -> Seq(Nat)]]
  BY <1>1
<1>3. PICK g : Recursive(g, n, Seq(Nat), <<>>, F)
  <2>1. <<>> \in Seq(Nat)
    OBVIOUS
  <2> HIDE DEF F, n
  <2> QED BY <1>1, <1>2, <2>1, Recursion
<1>4. g \in [0..n -> Seq(Nat)] /\ g[0] = <<>> /\ \A i \in 1..n : g[i] = g[i - 1] \o Unroll(l[i])
  <2>1. \A i \in 1..n : i - 1 \in 0..n
    BY <1>1
  <2> QED BY <1>3, <2>1 DEF Recursive
<1>5. Is(g)
  <2>1. \A i \in 0..n : i # 0 => i \in 1..n
    BY <1>1
  <2> QED BY <1>4, <2>1
<1>6. Unrolled(l) = (CHOOSE a : Is(a))[n]
  BY DEF Unrolled
<1>7. PICK a : a = CHOOSE b : Is(b)
  OBVIOUS
<1>8. Is(a)
  <2> HIDE DEF Is
  <2> QED BY <1>5, <1>7, Zenon
<1>9. a[0] = <<>> /\ \A i \in 1..n : a[i] = a[i - 1] \o Unroll(l[i])
  <2>1. 0 \in 0..n /\ \A i \in 1..n : i # 0 /\ i \in 0..n
    BY <1>1
  <2> HIDE DEF n
  <2>2. \A i \in 0..n : a[i] = IF i = 0 THEN <<>> ELSE a[i - 1] \o Unroll(l[i])
    BY <1>8
  <2>3. a[0] = <<>>
    BY <2>1, <2>2
  <2>4. \A i \in 1..n : a[i] = a[i - 1] \o Unroll(l[i])
    BY <2>1, <2>2
  <2> QED BY <2>3, <2>4
<1>10. \A i \in 0..n : a[i] \in Seq(Nat)
  <2> DEFINE P == {i \in 0..n : a[i] \in Seq(Nat)}
  <2>1. 0 \in P
    <3>1. 0 \in 0..n /\ <<>> \in Seq(Nat)
      BY <1>1
    <3> QED BY <1>9, <3>1
  <2>2. ASSUME NEW i \in 1..n, i - 1 \in P PROVE i \in P
    <3>1. a[i - 1] \in Seq(Nat) /\ i \in 0..n /\ Unroll(l[i]) \in Seq(Nat)
      BY <1>1, <2>2
    <3>2. a[i - 1] \o Unroll(l[i]) \in Seq(Nat)
      BY <3>1, Concatenation
    <3>3. a[i] = a[i - 1] \o Unroll(l[i])
      BY <1>9
    <3> QED BY <3>1, <3>2, <3>3
  <2>3. \A i \in 0..n : i \in P
    <3> HIDE DEF P, n
    <3> QED BY <1>1, <2>1, <2>2, UpTo
  <2> QED BY <2>3
<1>11. Unrolls(a, l)
  BY <1>6, <1>7, <1>8, <1>9, <1>10 DEF Unrolls
<1> QED BY <1>11

\* A rank is in the list if it is in one of its PRSDs.
LEMMA UnrolledSet ==
  ASSUME NEW l \in Lists
  PROVE  /\ Unrolled(l) \in Seq(Nat)
         /\ \A v : v \in ToSet(Unrolled(l)) <=> \E i \in 1..Len(l) : v \in ToSet(Unroll(l[i]))
<1> DEFINE n == Len(l)
<1>1. n \in Nat /\ \A i \in 1..n : Unroll(l[i]) \in Seq(Nat)
  <2>1. \A i \in 1..n : l[i] \in Prsds
    BY DEF Lists
  <2> QED BY <2>1, UnrollIs DEF Lists, Some
<1>2. PICK a : Unrolls(a, l)
  BY UnrolledIs
<1>3. a \in [0..n -> Seq(Nat)] /\ a[0] = <<>> /\ \A i \in 1..n : a[i] = a[i - 1] \o Unroll(l[i])
  BY <1>2 DEF Unrolls
<1> HIDE DEF n
<1> SUFFICES ASSUME NEW v
             PROVE  v \in ToSet(a[n]) <=> \E i \in 1..n : v \in ToSet(Unroll(l[i]))
  <2>1. Unrolled(l) = a[n] /\ a[n] \in Seq(Nat)
    BY <1>1, <1>2, <1>3 DEF Unrolls, n
  <2> QED BY <2>1 DEF n
<1> DEFINE P == {k \in 0..n : v \in ToSet(a[k]) <=> \E i \in 1..k : v \in ToSet(Unroll(l[i]))}
<1>4. 0 \in P
  <2>1. DOMAIN <<>> = {}
    OBVIOUS
  <2>2. ToSet(a[0]) = {}
    BY <1>3, <2>1 DEF ToSet
  <2>3. 0 \in 0..n /\ 1..0 = {}
    BY <1>1
  <2> QED BY <2>2, <2>3
<1>5. ASSUME NEW k \in 1..n, k - 1 \in P PROVE k \in P
  <2>1. a[k] = a[k - 1] \o Unroll(l[k]) /\ a[k - 1] \in Seq(Nat) /\ Unroll(l[k]) \in Seq(Nat)
    <3>1. k - 1 \in 0..n
      BY <1>1
    <3>2. a[k - 1] \in Seq(Nat)
      BY <1>3, <3>1
    <3>3. a[k] = a[k - 1] \o Unroll(l[k])
      BY <1>3
    <3> QED BY <1>1, <3>2, <3>3
  <2>2. ToSet(a[k]) = ToSet(a[k - 1]) \cup ToSet(Unroll(l[k]))
    BY <2>1, Concatenation
  <2>3. v \in ToSet(a[k - 1]) <=> \E i \in 1..(k - 1) : v \in ToSet(Unroll(l[i]))
    BY <1>5
  <2>4. \A i \in 1..k : i = k \/ i \in 1..(k - 1)
    OBVIOUS
  <2>5. \A i \in 1..(k - 1) : i \in 1..k
    OBVIOUS
  <2>6. k \in 0..n /\ k \in 1..k
    OBVIOUS
  <2> QED BY <2>2, <2>3, <2>4, <2>5, <2>6
<1>6. n \in P
  <2>1. n \in 0..n
    BY <1>1
  <2> HIDE DEF P
  <2> QED BY <1>1, <1>4, <1>5, <2>1, UpTo
<1> QED BY <1>6

\* Another PRSD adds its ranks at the end.
LEMMA UnrolledAppend ==
  ASSUME NEW l \in Lists, NEW p \in Prsds
  PROVE  Len(Unrolled(Append(l, p))) = Len(Unrolled(l)) + Len(Unroll(p))
<1> DEFINE n == Len(l)
           k == Append(l, p)
<1>1. /\ n \in Nat /\ k \in Lists /\ Len(k) = n + 1 /\ k[n + 1] = p
      /\ \A i \in 1..n : k[i] = l[i]
  BY DEF Lists
<1>2. PICK a : Unrolls(a, l)
  BY UnrolledIs
<1>3. PICK b : Unrolls(b, k)
  BY <1>1, UnrolledIs
<1> HIDE DEF n, k
<1>4. \A i \in 0..n : a[i] = b[i]
  <2> DEFINE P == {i \in 0..n : a[i] = b[i]}
  <2>1. 0 \in P
    BY <1>1, <1>2, <1>3 DEF Unrolls
  <2>2. ASSUME NEW i \in 1..n, i - 1 \in P PROVE i \in P
    <3>1. i \in 1..(n + 1) /\ i \in 0..n
      BY <1>1
    <3>2. a[i] = a[i - 1] \o Unroll(l[i]) /\ b[i] = b[i - 1] \o Unroll(k[i])
      BY <1>1, <1>2, <1>3, <3>1 DEF Unrolls, n
    <3> QED BY <1>1, <2>2, <3>1, <3>2
  <2>3. \A i \in 0..n : i \in P
    <3> HIDE DEF P
    <3> QED BY <1>1, <2>1, <2>2, UpTo
  <2> QED BY <2>3
<1>5. n + 1 \in 1..(n + 1) /\ (n + 1) - 1 = n /\ n \in 0..n
  BY <1>1
<1>6. b[n + 1] = b[n] \o Unroll(p)
  BY <1>1, <1>3, <1>5 DEF Unrolls
<1>7. Unrolled(k) = a[n] \o Unroll(p) /\ Unrolled(l) = a[n] /\ a[n] \in Seq(Nat)
  BY <1>1, <1>2, <1>3, <1>4, <1>5, <1>6 DEF Unrolls, n
<1>8. Unroll(p) \in Seq(Nat)
  BY UnrollIs DEF Some
<1> QED BY <1>7, <1>8 DEF k

\* A changed PRSD makes the difference it makes itself.
LEMMA UnrolledChanged ==
  ASSUME NEW l \in Lists, NEW j \in 1..Len(l), NEW q \in Prsds
  PROVE  Len(Unrolled([l EXCEPT ![j] = q])) + Len(Unroll(l[j])) = Len(Unrolled(l)) + Len(Unroll(q))
<1> DEFINE n == Len(l)
           k == [l EXCEPT ![j] = q]
<1>1. /\ n \in Nat /\ k \in Lists /\ Len(k) = n /\ k[j] = q
      /\ \A i \in 1..n : i # j => k[i] = l[i]
  BY DEF Lists
<1>2. PICK a : Unrolls(a, l)
  BY UnrolledIs
<1>3. PICK b : Unrolls(b, k)
  BY <1>1, UnrolledIs
<1>4. j \in 1..n /\ j \in Nat
  OBVIOUS
<1> HIDE DEF n, k
<1>5. /\ a \in [0..n -> Seq(Nat)] /\ a[0] = <<>> /\ b \in [0..n -> Seq(Nat)] /\ b[0] = <<>>
      /\ \A i \in 1..n : a[i] = a[i - 1] \o Unroll(l[i])
      /\ \A i \in 1..n : b[i] = b[i - 1] \o Unroll(k[i])
  BY <1>1, <1>2, <1>3 DEF Unrolls, n
<1>6. /\ \A i \in 1..n : Unroll(l[i]) \in Seq(Nat) /\ Unroll(k[i]) \in Seq(Nat)
      /\ Unroll(q) \in Seq(Nat)
  <2>1. \A i \in 1..n : l[i] \in Prsds /\ k[i] \in Prsds
    BY <1>1 DEF Lists, n
  <2> QED BY <2>1, UnrollIs DEF Some
<1>7. \A i \in 1..n : /\ Len(a[i]) = Len(a[i - 1]) + Len(Unroll(l[i]))
                      /\ Len(b[i]) = Len(b[i - 1]) + Len(Unroll(k[i]))
  <2> SUFFICES ASSUME NEW i \in 1..n
               PROVE  /\ Len(a[i]) = Len(a[i - 1]) + Len(Unroll(l[i]))
                      /\ Len(b[i]) = Len(b[i - 1]) + Len(Unroll(k[i]))
    OBVIOUS
  <2>1. i - 1 \in 0..n
    BY <1>1
  <2>2. a[i - 1] \in Seq(Nat) /\ b[i - 1] \in Seq(Nat)
    BY <1>5, <2>1
  <2>3. a[i] = a[i - 1] \o Unroll(l[i]) /\ b[i] = b[i - 1] \o Unroll(k[i])
    BY <1>5
  <2> QED BY <1>6, <2>2, <2>3, Concatenation
<1> DEFINE P == {i \in 0..n : IF i < j THEN Len(b[i]) = Len(a[i])
                             ELSE Len(b[i]) + Len(Unroll(l[j])) = Len(a[i]) + Len(Unroll(q))}
<1>8. 0 \in P
  BY <1>1, <1>4, <1>5
<1>9. ASSUME NEW i \in 1..n, i - 1 \in P PROVE i \in P
  <2>1. i - 1 \in 0..n /\ i \in 0..n
    BY <1>1
  <2>2. /\ Len(a[i - 1]) \in Nat /\ Len(b[i - 1]) \in Nat
        /\ Len(Unroll(l[i])) \in Nat /\ Len(Unroll(k[i])) \in Nat
        /\ Len(Unroll(l[j])) \in Nat /\ Len(Unroll(q)) \in Nat
    BY <1>4, <1>5, <1>6, <2>1
  <2> DEFINE x0 == Len(a[i - 1])
             x1 == Len(a[i])
             y0 == Len(b[i - 1])
             y1 == Len(b[i])
             ul == Len(Unroll(l[i]))
             uk == Len(Unroll(k[i]))
             vj == Len(Unroll(l[j]))
             vq == Len(Unroll(q))
  <2>3. x1 = x0 + ul /\ y1 = y0 + uk
    BY <1>7
  <2>4. IF i - 1 < j THEN y0 = x0 ELSE y0 + vj = x0 + vq
    BY <1>9
  <2>5. i # j => uk = ul
    BY <1>1
  <2>6. i = j => uk = vq /\ ul = vj
    BY <1>1
  <2>7. i \in Nat /\ {x0, y0, ul, uk, vj, vq} \subseteq Nat
    BY <2>2
  <2>8. IF i < j THEN y1 = x1 ELSE y1 + vj = x1 + vq
    <3> HIDE DEF x0, x1, y0, y1, ul, uk, vj, vq
    <3>1. {x0, y0, ul, uk, vj, vq, i, j} \subseteq Nat
      BY <1>4, <2>7
    <3>2. CASE i < j
      <4>1. i - 1 < j /\ i # j
        BY <3>1, <3>2
      <4> QED BY <2>3, <2>4, <2>5, <3>1, <3>2, <4>1
    <3>3. CASE i = j
      <4>1. i - 1 < j /\ ~(i < j)
        BY <3>1, <3>3
      <4> QED BY <2>3, <2>4, <2>6, <3>1, <3>3, <4>1
    <3>4. CASE i > j
      <4>1. ~(i - 1 < j) /\ i # j /\ ~(i < j)
        BY <3>1, <3>4
      <4> QED BY <2>3, <2>4, <2>5, <3>1, <4>1
    <3> QED BY <3>1, <3>2, <3>3, <3>4
  <2> QED BY <2>1, <2>8
<1>10. n \in P
  <2>1. n \in 0..n
    BY <1>1
  <2> HIDE DEF P
  <2> QED BY <1>1, <1>8, <1>9, <2>1, UpTo
<1>11. Unrolled(l) = a[n] /\ Unrolled(k) = b[n] /\ ~(n < j)
  BY <1>1, <1>2, <1>3, <1>4 DEF Unrolls, n
<1> QED BY <1>10, <1>11 DEF k
-----------------------------------------------------------------------------
(* Building a list. *)

\* A PRSD of several ranks: its sections repeat, ascending.
Grown(p) ==
  /\ p.rsds # <<>>
  /\ \A d \in DOMAIN p.rsds : p.rsds[d].iters >= 2 /\ p.rsds[d].stride >= 1

\* A list under construction: sections repeat, only the last PRSD may be of a
\* rank by itself, and later PRSDs start at larger ranks.
ListOK(l) ==
  /\ l \in Lists /\ l # <<>>
  /\ \A i \in 1..Len(l) : Grown(l[i]) \/ (i = Len(l) /\ l[i] = Singleton(l[i].start))
  /\ \A i, j \in 1..Len(l) : i < j => l[i].start < l[j].start

\* It expands to the ranks in S, n of them.
Holds(l, S, n) == ListOK(l) /\ ToSet(Unrolled(l)) = S /\ Len(Unrolled(l)) = n

\* What a PRSD stands for when it is made of others.
Stands(p, S, n) == p \in Prsds /\ ToSet(Unroll(p)) = S /\ Len(Unroll(p)) = n

\* The PRSD of one rank.
LEMMA SingletonStands ==
  ASSUME NEW r \in Nat
  PROVE  /\ Stands(Singleton(r), {r}, 1)
         /\ Singleton(r).start = r /\ Singleton(r).rsds = <<[iters |-> 1, stride |-> 0]>>
<1> DEFINE rsd == [iters |-> 1, stride |-> 0]
<1>1. Singleton(r) = [start |-> r, rsds |-> <<rsd>>]
  BY DEF Singleton, Prsd, Section
<1>2. rsd \in Sections /\ rsd.iters = 1 /\ rsd.stride = 0
  BY DEF Sections
<1>3. Singleton(r) \in Prsds /\ Unroll(Singleton(r)) = Sweep(<<r>>, <<rsd>>)
  BY <1>1, <1>2 DEF Prsds, Unroll
<1> HIDE DEF rsd
<1>4. \A m \in 0..(rsd.iters - 1) : r + rsd.stride * m = r
  BY <1>2
<1>5. 0 \in 0..(rsd.iters - 1)
  BY <1>2
<1>6. /\ Sweep(<<r>>, <<rsd>>) = Repeat(<<r>>, rsd) /\ Len(Repeat(<<r>>, rsd)) = rsd.iters
      /\ \A v : v \in ToSet(Repeat(<<r>>, rsd)) <=> \E m \in 0..(rsd.iters - 1) : v = r + rsd.stride * m
  BY <1>2, SweepOne
<1>7. ToSet(Repeat(<<r>>, rsd)) = {r}
  BY <1>4, <1>5, <1>6
<1> QED BY <1>1, <1>2, <1>3, <1>6, <1>7 DEF Stands, rsd

\* One more repetition of a section, or the second rank of it.
LEMMA ExtendedStands ==
  ASSUME NEW x \in Nat, NEW rsd \in Sections, NEW r \in Nat,
         \/ rsd.iters = 1 /\ rsd.stride = 0 /\ r > x
         \/ rsd.iters >= 2 /\ rsd.stride >= 1 /\ r = x + rsd.iters * rsd.stride
  PROVE  LET more == Section(rsd.iters + 1, rsd.stride + r - (x + rsd.iters * rsd.stride))
             q == [start |-> x, rsds |-> <<more>>]
         IN  /\ Grown(q)
             /\ Stands(q, ToSet(Sweep(<<x>>, <<rsd>>)) \cup {r}, Len(Sweep(<<x>>, <<rsd>>)) + 1)
<1> DEFINE n == rsd.iters
           st == rsd.stride
           step == rsd.stride + r - (x + rsd.iters * rsd.stride)
           more == Section(rsd.iters + 1, step)
           q == [start |-> x, rsds |-> <<more>>]
<1>1. n \in Nat \ {0} /\ st \in Nat
  BY DEF Sections
<1>2. n * st \in Nat
  BY <1>1
<1>3. step \in Nat \ {0} /\ (n >= 2 => step = st) /\ (n = 1 => step = r - x)
  <2>1. CASE n = 1 /\ st = 0 /\ r > x
    BY <2>1
  <2>2. CASE n >= 2 /\ st >= 1 /\ r = x + n * st
    <3>1. step = st
      BY <1>1, <1>2, <2>2
    <3>2. st \in Nat \ {0} /\ n # 1
      BY <1>1, <2>2
    <3> HIDE DEF n, st, step
    <3> QED BY <3>1, <3>2
  <2> QED BY <2>1, <2>2
<1> HIDE DEF n, st, step
<1>4. more = [iters |-> n + 1, stride |-> step] /\ more \in Sections
  BY <1>1, <1>3 DEF Section, Sections, n
<1>5. more.iters = n + 1 /\ more.stride = step
  BY <1>4
<1> HIDE DEF more
<1>6. q \in Prsds /\ Unroll(q) = Sweep(<<x>>, <<more>>) /\ Grown(q)
  BY <1>1, <1>3, <1>4, <1>5 DEF Prsds, Unroll, Grown
<1>7. /\ Sweep(<<x>>, <<rsd>>) = Repeat(<<x>>, rsd) /\ Len(Repeat(<<x>>, rsd)) = n
      /\ \A v : v \in ToSet(Repeat(<<x>>, rsd)) <=> \E m \in 0..(n - 1) : v = x + st * m
  BY SweepOne DEF n, st
<1>8. /\ Sweep(<<x>>, <<more>>) = Repeat(<<x>>, more) /\ Len(Repeat(<<x>>, more)) = n + 1
      /\ \A v : v \in ToSet(Repeat(<<x>>, more)) <=> \E m \in 0..((n + 1) - 1) : v = x + step * m
  <2>1. /\ Sweep(<<x>>, <<more>>) = Repeat(<<x>>, more) /\ Len(Repeat(<<x>>, more)) = more.iters
        /\ \A v : v \in ToSet(Repeat(<<x>>, more)) <=>
             \E m \in 0..(more.iters - 1) : v = x + more.stride * m
    BY <1>4, SweepOne
  <2> QED BY <1>5, <2>1
<1>9. \A m \in 0..((n + 1) - 1) : m = n \/ m \in 0..(n - 1)
  BY <1>1
<1>10. n \in 0..((n + 1) - 1) /\ \A m \in 0..(n - 1) : m \in 0..((n + 1) - 1)
  BY <1>1
<1>11. r = x + step * n /\ \A m \in 0..(n - 1) : x + st * m = x + step * m
  <2>1. CASE n = 1 /\ st = 0 /\ r > x
    <3>1. step = r - x /\ \A m \in 0..(n - 1) : m = 0
      BY <1>3, <2>1
    <3>2. step * n = r - x
      BY <1>3, <2>1, <3>1
    <3>3. \A m \in 0..(n - 1) : st * m = 0 /\ step * m = 0
      BY <1>1, <1>3, <3>1
    <3> QED BY <3>2, <3>3
  <2>2. CASE n >= 2 /\ st >= 1 /\ r = x + n * st
    <3>1. step = st /\ step * n = n * st
      BY <1>1, <1>3, <2>2
    <3> QED BY <2>2, <3>1
  <2> QED BY <2>1, <2>2 DEF n, st
<1>12. ToSet(Repeat(<<x>>, more)) = ToSet(Repeat(<<x>>, rsd)) \cup {r}
  <2>1. ASSUME NEW v \in ToSet(Repeat(<<x>>, more)) PROVE v \in ToSet(Repeat(<<x>>, rsd)) \cup {r}
    <3>1. PICK m \in 0..((n + 1) - 1) : v = x + step * m
      BY <1>8
    <3> QED BY <1>7, <1>9, <1>11, <3>1
  <2>2. ASSUME NEW v \in ToSet(Repeat(<<x>>, rsd)) PROVE v \in ToSet(Repeat(<<x>>, more))
    <3>1. PICK m \in 0..(n - 1) : v = x + st * m
      BY <1>7
    <3> QED BY <1>8, <1>10, <1>11, <3>1
  <2>3. r \in ToSet(Repeat(<<x>>, more))
    BY <1>8, <1>10, <1>11
  <2> QED BY <2>1, <2>2, <2>3
<1>13. Stands(q, ToSet(Sweep(<<x>>, <<rsd>>)) \cup {r}, Len(Sweep(<<x>>, <<rsd>>)) + 1)
  BY <1>6, <1>7, <1>8, <1>12 DEF Stands
<1> HIDE DEF q
<1>14. Grown(q) /\ Stands(q, ToSet(Sweep(<<x>>, <<rsd>>)) \cup {r}, Len(Sweep(<<x>>, <<rsd>>)) + 1)
  BY <1>6, <1>13
<1> QED BY <1>14 DEF q, more, step

\* One rank is a list of ranks.
LEMMA OneRank ==
  ASSUME NEW r \in Nat
  PROVE  <<r>> \in Some /\ ToSet(<<r>>) = {r} /\ Len(<<r>>) = 1
<1>1. <<r>> \in Some /\ Len(<<r>>) = 1 /\ DOMAIN <<r>> = 1..1 /\ <<r>>[1] = r
  BY DEF Some
<1>2. \A i \in 1..1 : i = 1
  OBVIOUS
<1>3. 1 \in 1..1
  OBVIOUS
<1> QED BY <1>1, <1>2, <1>3 DEF ToSet

\* Two PRSDs that differ in their start only, or one that is a repetition more
\* of another's outermost section.
LEMMA CompressedStands ==
  ASSUME NEW prev \in Prsds, NEW last \in Prsds, Grown(prev), Grown(last), prev.start < last.start,
         Repeats(prev, last) \/ Continues(prev, last)
  PROVE  LET q == DoCompress(prev, last)
         IN  /\ Grown(q) /\ q.start = prev.start
             /\ Stands(q, ToSet(Unroll(prev)) \cup ToSet(Unroll(last)),
                       Len(Unroll(prev)) + Len(Unroll(last)))
<1> DEFINE q == DoCompress(prev, last)
           x == prev.start
           y == last.start
           rsds == last.rsds
<1>1. x \in Nat /\ y \in Nat /\ x < y /\ rsds \in Seq(Sections) /\ prev.rsds \in Seq(Sections)
  BY DEF Prsds
<1>2. rsds # <<>> /\ \A d \in DOMAIN rsds : rsds[d].iters >= 2 /\ rsds[d].stride >= 1
  BY DEF Grown
<1>3. Unroll(last) = Sweep(<<y>>, rsds) /\ Unroll(prev) = Sweep(<<x>>, prev.rsds)
  BY DEF Unroll
<1> SUFFICES /\ Grown(q) /\ q.start = x
             /\ Stands(q, ToSet(Unroll(prev)) \cup ToSet(Unroll(last)),
                       Len(Unroll(prev)) + Len(Unroll(last)))
  OBVIOUS
<1>4. ASSUME NEW sec \in Sections, sec.iters >= 2, sec.stride >= 1,
             q = [start |-> x, rsds |-> <<sec>> \o rsds]
      PROVE  /\ q \in Prsds /\ Grown(q) /\ q.start = x
             /\ Unroll(q) = Sweep(Repeat(<<x>>, sec), rsds)
  <2>1. <<sec>> \o rsds \in Seq(Sections) /\ q.rsds = <<sec>> \o rsds /\ q.start = x
    BY <1>1, <1>4
  <2>2. q \in Prsds
    BY <1>1, <1>4, <2>1 DEF Prsds
  <2>3. /\ <<sec>> \o rsds # <<>> /\ DOMAIN (<<sec>> \o rsds) = 1..(Len(rsds) + 1)
        /\ (<<sec>> \o rsds)[1] = sec
        /\ \A d \in 1..Len(rsds) : (<<sec>> \o rsds)[d + 1] = rsds[d]
    BY <1>1
  <2>4. \A d \in 1..(Len(rsds) + 1) : d = 1 \/ (d - 1 \in 1..Len(rsds) /\ (d - 1) + 1 = d)
    BY <1>1
  <2>5. Grown(q)
    <3> SUFFICES ASSUME NEW d \in 1..(Len(rsds) + 1)
                 PROVE  (<<sec>> \o rsds)[d].iters >= 2 /\ (<<sec>> \o rsds)[d].stride >= 1
      BY <2>1, <2>3 DEF Grown
    <3>1. CASE d = 1
      BY <1>4, <2>3, <3>1
    <3>2. CASE d - 1 \in 1..Len(rsds) /\ (d - 1) + 1 = d
      <4>1. (<<sec>> \o rsds)[d] = rsds[d - 1]
        BY <2>3, <3>2
      <4>2. d - 1 \in DOMAIN rsds
        BY <1>1, <3>2
      <4> QED BY <1>2, <4>1, <4>2
    <3> QED BY <2>4, <3>1, <3>2
  <2>6. <<x>> \in Some
    BY <1>1 DEF Some
  <2>7. Unroll(q) = Sweep(<<x>>, <<sec>> \o rsds)
    BY <2>1 DEF Unroll
  <2>8. Sweep(<<x>>, <<sec>> \o rsds) = Sweep(Repeat(<<x>>, sec), rsds)
    BY <1>1, <2>6, SweepFirst
  <2> QED BY <2>1, <2>2, <2>5, <2>7, <2>8
<1>5. CASE Repeats(prev, last)
  <2> DEFINE sec == [iters |-> 2, stride |-> y - x]
  <2>1. sec \in Sections /\ sec.iters = 2 /\ sec.stride = y - x /\ y - x >= 1 /\ y - x \in Nat
    BY <1>1 DEF Sections
  <2>2. prev.rsds = rsds /\ q = [start |-> x, rsds |-> <<sec>> \o rsds]
    BY <1>5 DEF Repeats, DoCompress, Prsd, Section
  <2> HIDE DEF sec, q, x, y, rsds
  <2>3. /\ q \in Prsds /\ Grown(q) /\ q.start = x
        /\ Unroll(q) = Sweep(Repeat(<<x>>, sec), rsds)
    <3>1. sec.iters >= 2 /\ sec.stride >= 1
      BY <2>1
    <3> QED BY <1>4, <2>1, <2>2, <3>1
  <2>4. /\ Repeat(<<x>>, sec) \in Some /\ Len(Repeat(<<x>>, sec)) = 2
        /\ \A v : v \in ToSet(Repeat(<<x>>, sec)) <=> \E m \in 0..(2 - 1) : v = x + (y - x) * m
    <3>1. /\ Repeat(<<x>>, sec) \in Some /\ Len(Repeat(<<x>>, sec)) = sec.iters
          /\ \A v : v \in ToSet(Repeat(<<x>>, sec)) <=>
               \E m \in 0..(sec.iters - 1) : v = x + sec.stride * m
      BY <1>1, <2>1, SweepOne
    <3> QED BY <2>1, <3>1
  <2>5. /\ \A m \in 0..(2 - 1) : m = 0 \/ m = 1
        /\ 0 \in 0..(2 - 1) /\ 1 \in 0..(2 - 1) /\ x + (y - x) * 0 = x /\ x + (y - x) * 1 = y
    BY <1>1
  <2>6. ToSet(Repeat(<<x>>, sec)) = {x, y}
    BY <2>4, <2>5
  <2>7. /\ <<x>> \in Some /\ <<y>> \in Some /\ ToSet(<<x>>) = {x} /\ ToSet(<<y>>) = {y}
        /\ Len(<<x>>) = 1 /\ Len(<<y>>) = 1
    BY <1>1, OneRank
  <2>8. Joined(Repeat(<<x>>, sec), <<x>>, <<y>>)
    <3>1. {x, y} = {x} \cup {y} /\ 2 = 1 + 1
      OBVIOUS
    <3>2. Len(Repeat(<<x>>, sec)) = Len(<<x>>) + Len(<<y>>)
      BY <2>4, <2>7
    <3>3. ToSet(Repeat(<<x>>, sec)) = ToSet(<<x>>) \cup ToSet(<<y>>)
      BY <2>6, <2>7, <3>1
    <3> QED BY <2>4, <2>7, <3>2, <3>3 DEF Joined
  <2>9. Joined(Sweep(Repeat(<<x>>, sec), rsds), Sweep(<<x>>, rsds), Sweep(<<y>>, rsds))
    BY <1>1, <2>8, SweepJoined
  <2> QED BY <1>3, <2>2, <2>3, <2>9 DEF Stands, Joined
<1>6. CASE ~Repeats(prev, last)
  <2> DEFINE fst == prev.rsds[1]
             sec == [iters |-> fst.iters + 1, stride |-> fst.stride]
  <2>1. prev.rsds # <<>> /\ \A d \in DOMAIN prev.rsds : prev.rsds[d].iters >= 2 /\ prev.rsds[d].stride >= 1
    BY DEF Grown
  <2>2. Len(prev.rsds) \in Nat \ {0} /\ 1 \in DOMAIN prev.rsds
    BY <1>1, <2>1
  <2>3. fst \in Sections /\ fst.iters >= 2 /\ fst.stride >= 1 /\ fst.iters \in Nat \ {0} /\ fst.stride \in Nat
    <3>1. fst \in Sections
      BY <1>1, <2>2
    <3>2. fst.iters >= 2 /\ fst.stride >= 1
      BY <2>1, <2>2
    <3> HIDE DEF fst
    <3> QED BY <3>1, <3>2 DEF Sections
  <2>4. sec \in Sections /\ sec.iters = fst.iters + 1 /\ sec.stride = fst.stride /\ sec.iters >= 2 /\ sec.stride >= 1
    BY <2>3 DEF Sections
  <2>5. Tail(prev.rsds) = rsds /\ x + fst.iters * fst.stride = y
    BY <1>6 DEF Continues
  <2>6. prev.rsds = <<fst>> \o rsds
    <3>1. \A s \in Seq(Sections) : s # <<>> => s = <<s[1]>> \o Tail(s)
      OBVIOUS
    <3> QED BY <1>1, <2>1, <2>5, <3>1
  <2>7. q = [start |-> x, rsds |-> <<sec>> \o rsds]
    <3>1. q = [prev EXCEPT !.rsds = [prev.rsds EXCEPT ![1] = [fst EXCEPT !.iters = fst.iters + 1]]]
      BY <1>6 DEF DoCompress
    <3>2. [fst EXCEPT !.iters = fst.iters + 1] = sec
      BY <2>3 DEF Sections
    <3> HIDE DEF fst, sec
    <3>3. [prev.rsds EXCEPT ![1] = sec] = <<sec>> \o rsds
      <4>1. /\ Len(<<fst>> \o rsds) = Len(<<sec>> \o rsds)
            /\ \A d \in 1..Len(<<sec>> \o rsds) : d # 1 => (<<fst>> \o rsds)[d] = (<<sec>> \o rsds)[d]
            /\ (<<sec>> \o rsds)[1] = sec
        BY <1>1
      <4>2. <<sec>> \o rsds \in Seq(Sections) /\ <<fst>> \o rsds \in Seq(Sections)
        BY <1>1, <2>3, <2>4
      <4> DEFINE N == Len(<<sec>> \o rsds)
                 A == <<fst>> \o rsds
                 B == <<sec>> \o rsds
      <4>3. A \in [1..N -> Sections] /\ B \in [1..N -> Sections] /\ 1 \in 1..N
        <5>1. Len(A) = N /\ N = Len(rsds) + 1 /\ Len(rsds) \in Nat
          BY <1>1, <4>1
        <5>2. 1 \in 1..N
          BY <5>1
        <5>3. A \in Seq(Sections) /\ B \in Seq(Sections) /\ Len(B) = N
          BY <4>2
        <5> HIDE DEF A, B, N
        <5>4. A \in [1..N -> Sections] /\ B \in [1..N -> Sections]
          BY <5>1, <5>3
        <5> QED BY <5>2, <5>4
      <4>4. \A d \in 1..N : [A EXCEPT ![1] = sec][d] = B[d]
        <5> HIDE DEF A, B, N
        <5>1. \A d \in 1..N : d # 1 => A[d] = B[d]
          BY <4>1 DEF A, B, N
        <5>2. B[1] = sec
          BY <4>1 DEF B
        <5> QED BY <4>3, <5>1, <5>2
      <4>5. [A EXCEPT ![1] = sec] = B
        <5> HIDE DEF A, B, N
        <5>1. [A EXCEPT ![1] = sec] \in [1..N -> Sections]
          BY <2>4, <4>3
        <5> QED BY <4>3, <4>4, <5>1
      <4> QED BY <2>6, <4>5
    <3>4. prev = [start |-> x, rsds |-> prev.rsds]
      BY DEF Prsds
    <3> QED BY <3>1, <3>2, <3>3, <3>4
  <2> HIDE DEF sec, fst
  <2>8. /\ q \in Prsds /\ Grown(q) /\ q.start = x
        /\ Unroll(q) = Sweep(Repeat(<<x>>, sec), rsds)
    BY <1>4, <2>4, <2>7
  <2>9. /\ Repeat(<<x>>, sec) \in Some /\ Len(Repeat(<<x>>, sec)) = fst.iters + 1
        /\ \A v : v \in ToSet(Repeat(<<x>>, sec)) <=>
             \E m \in 0..((fst.iters + 1) - 1) : v = x + fst.stride * m
    <3>1. /\ Repeat(<<x>>, sec) \in Some /\ Len(Repeat(<<x>>, sec)) = sec.iters
          /\ \A v : v \in ToSet(Repeat(<<x>>, sec)) <=>
               \E m \in 0..(sec.iters - 1) : v = x + sec.stride * m
      BY <1>1, <2>4, SweepOne
    <3> QED BY <2>4, <3>1
  <2>10. /\ Repeat(<<x>>, fst) \in Some /\ Len(Repeat(<<x>>, fst)) = fst.iters
         /\ \A v : v \in ToSet(Repeat(<<x>>, fst)) <=>
              \E m \in 0..(fst.iters - 1) : v = x + fst.stride * m
    BY <1>1, <2>3, SweepOne
  <2>11. y = x + fst.stride * fst.iters
    <3>1. fst.iters * fst.stride = fst.stride * fst.iters
      BY <2>3
    <3> QED BY <2>5, <3>1
  <2>12. /\ \A m \in 0..((fst.iters + 1) - 1) : m = fst.iters \/ m \in 0..(fst.iters - 1)
         /\ fst.iters \in 0..((fst.iters + 1) - 1)
         /\ \A m \in 0..(fst.iters - 1) : m \in 0..((fst.iters + 1) - 1)
    BY <2>3
  <2>13. ToSet(Repeat(<<x>>, sec)) = ToSet(Repeat(<<x>>, fst)) \cup {y}
    <3>1. ASSUME NEW v \in ToSet(Repeat(<<x>>, sec)) PROVE v \in ToSet(Repeat(<<x>>, fst)) \cup {y}
      <4>1. PICK m \in 0..((fst.iters + 1) - 1) : v = x + fst.stride * m
        BY <2>9
      <4> QED BY <2>10, <2>11, <2>12, <4>1
    <3>2. ASSUME NEW v \in ToSet(Repeat(<<x>>, fst)) PROVE v \in ToSet(Repeat(<<x>>, sec))
      BY <2>9, <2>10, <2>12
    <3>3. y \in ToSet(Repeat(<<x>>, sec))
      BY <2>9, <2>11, <2>12
    <3> QED BY <3>1, <3>2, <3>3
  <2>14. <<y>> \in Some /\ ToSet(<<y>>) = {y} /\ Len(<<y>>) = 1 /\ <<x>> \in Some
    BY <1>1, OneRank
  <2>15. Joined(Repeat(<<x>>, sec), Repeat(<<x>>, fst), <<y>>)
    BY <2>9, <2>10, <2>13, <2>14 DEF Joined
  <2>16. Joined(Sweep(Repeat(<<x>>, sec), rsds), Sweep(Repeat(<<x>>, fst), rsds), Sweep(<<y>>, rsds))
    BY <1>1, <2>15, SweepJoined
  <2>17. Sweep(<<x>>, prev.rsds) = Sweep(Repeat(<<x>>, fst), rsds)
    BY <1>1, <2>3, <2>6, <2>14, SweepFirst
  <2> HIDE DEF q, x, y, rsds
  <2> QED BY <1>3, <2>8, <2>16, <2>17 DEF Stands, Joined
<1> QED BY <1>5, <1>6
-----------------------------------------------------------------------------
(* Adding a rank and compressing the list. *)

\* The starts of a list are among its ranks.
LEMMA StartsIn ==
  ASSUME NEW l \in Lists, NEW i \in 1..Len(l)
  PROVE  l[i] \in Prsds /\ l[i].start \in ToSet(Unrolled(l)) /\ l[i].start \in Nat
<1>1. l[i] \in Prsds
  BY DEF Lists
<1>2. l[i].start \in ToSet(Unroll(l[i]))
  BY <1>1, UnrollIs
<1>3. l[i].start \in ToSet(Unrolled(l))
  BY <1>2, UnrolledSet
<1> QED BY <1>1, <1>3 DEF Prsds

\* A PRSD of a list takes in more ranks.
LEMMA ListReplaced ==
  ASSUME NEW l, ListOK(l), NEW j \in 1..Len(l), NEW q, NEW X, NEW m \in Nat,
         Grown(q), q.start = l[j].start,
         Stands(q, ToSet(Unroll(l[j])) \cup X, Len(Unroll(l[j])) + m)
  PROVE  Holds([l EXCEPT ![j] = q], ToSet(Unrolled(l)) \cup X, Len(Unrolled(l)) + m)
<1> DEFINE k == [l EXCEPT ![j] = q]
           n == Len(l)
<1>1. l \in Lists /\ l # <<>> /\ n \in Nat /\ q \in Prsds
  BY DEF ListOK, Lists, Stands
<1>2. /\ k \in Lists /\ Len(k) = n /\ k[j] = q /\ k # <<>>
      /\ \A i \in 1..n : i # j => k[i] = l[i]
  BY <1>1 DEF Lists
<1> HIDE DEF k
<1>3. ListOK(k)
  <2>1. \A i \in 1..n : k[i].start = l[i].start
    BY <1>2
  <2>2. \A i \in 1..n : Grown(k[i]) \/ (i = n /\ k[i] = Singleton(k[i].start))
    BY <1>2 DEF ListOK
  <2>3. \A i \in 1..n, h \in 1..n : i < h => k[i].start < k[h].start
    BY <2>1 DEF ListOK
  <2> QED BY <1>2, <2>2, <2>3 DEF ListOK
<1>4. ToSet(Unrolled(k)) = ToSet(Unrolled(l)) \cup X
  <2>1. \A v : v \in ToSet(Unrolled(k)) <=> \E i \in 1..n : v \in ToSet(Unroll(k[i]))
    BY <1>2, UnrolledSet
  <2>2. \A v : v \in ToSet(Unrolled(l)) <=> \E i \in 1..n : v \in ToSet(Unroll(l[i]))
    BY <1>1, UnrolledSet
  <2>3. ToSet(Unroll(q)) = ToSet(Unroll(l[j])) \cup X
    BY DEF Stands
  <2>4. \A v, i : i \in 1..n => (v \in ToSet(Unroll(k[i])) <=>
          IF i = j THEN v \in ToSet(Unroll(l[j])) \/ v \in X ELSE v \in ToSet(Unroll(l[i])))
    BY <1>2, <2>3
  <2> HIDE DEF n
  <2>5. j \in 1..n
    BY DEF n
  <2>6. ASSUME NEW v \in ToSet(Unrolled(k)) PROVE v \in ToSet(Unrolled(l)) \cup X
    <3>1. PICK i \in 1..n : v \in ToSet(Unroll(k[i]))
      BY <2>1
    <3>2. v \in X \/ v \in ToSet(Unroll(l[i]))
      BY <2>4, <3>1
    <3> QED BY <2>2, <3>2
  <2>7. ASSUME NEW v \in ToSet(Unrolled(l)) PROVE v \in ToSet(Unrolled(k))
    <3>1. PICK i \in 1..n : v \in ToSet(Unroll(l[i]))
      BY <2>2
    <3>2. v \in ToSet(Unroll(k[i]))
      BY <2>4, <3>1
    <3> QED BY <2>1, <3>2
  <2>8. ASSUME NEW v \in X PROVE v \in ToSet(Unrolled(k))
    BY <2>1, <2>4, <2>5
  <2> QED BY <2>6, <2>7, <2>8
<1>5. Len(Unrolled(k)) = Len(Unrolled(l)) + m
  <2>1. Len(Unrolled(k)) + Len(Unroll(l[j])) = Len(Unrolled(l)) + Len(Unroll(q))
    BY <1>1, UnrolledChanged DEF k
  <2>2. Len(Unroll(q)) = Len(Unroll(l[j])) + m
    BY DEF Stands
  <2>3. Len(Unrolled(k)) \in Nat /\ Len(Unrolled(l)) \in Nat /\ Len(Unroll(l[j])) \in Nat
    <3>1. Unrolled(k) \in Seq(Nat) /\ Unrolled(l) \in Seq(Nat)
      BY <1>1, <1>2, UnrolledSet
    <3>2. l[j] \in Prsds
      BY <1>1 DEF Lists
    <3>3. Unroll(l[j]) \in Seq(Nat)
      BY <3>2, UnrollIs DEF Some
    <3> QED BY <3>1, <3>3
  <2> QED BY <2>1, <2>2, <2>3
<1> QED BY <1>3, <1>4, <1>5 DEF Holds, k

\* A larger rank is appended to a list of sections.
LEMMA ListAppended ==
  ASSUME NEW l, NEW p \in Prsds, l \in Lists
  PROVE  LET k == Append(l, p)
         IN  /\ ToSet(Unrolled(k)) = ToSet(Unrolled(l)) \cup ToSet(Unroll(p))
             /\ Len(Unrolled(k)) = Len(Unrolled(l)) + Len(Unroll(p))
             /\ Len(Unrolled(l)) \in Nat /\ Len(Unroll(p)) \in Nat
<1> DEFINE k == Append(l, p)
           n == Len(l)
<1>1. k \in Lists /\ Len(k) = n + 1 /\ k[n + 1] = p /\ n \in Nat /\ \A i \in 1..n : k[i] = l[i]
  BY DEF Lists
<1> HIDE DEF k, n
<1>2. \A v : v \in ToSet(Unrolled(k)) <=> \E i \in 1..(n + 1) : v \in ToSet(Unroll(k[i]))
  BY <1>1, UnrolledSet
<1>3. \A v : v \in ToSet(Unrolled(l)) <=> \E i \in 1..n : v \in ToSet(Unroll(l[i]))
  BY UnrolledSet DEF n
<1>4. /\ \A i \in 1..(n + 1) : i = n + 1 \/ i \in 1..n
      /\ \A i \in 1..n : i \in 1..(n + 1)
      /\ n + 1 \in 1..(n + 1)
  BY <1>1
<1>5. ASSUME NEW v
      PROVE  v \in ToSet(Unrolled(k)) <=> v \in ToSet(Unrolled(l)) \/ v \in ToSet(Unroll(p))
  <2>1. ASSUME NEW i \in 1..(n + 1), v \in ToSet(Unroll(k[i]))
        PROVE  v \in ToSet(Unrolled(l)) \/ v \in ToSet(Unroll(p))
    BY <1>1, <1>3, <1>4, <2>1
  <2>2. ASSUME NEW i \in 1..n, v \in ToSet(Unroll(l[i]))
        PROVE  \E h \in 1..(n + 1) : v \in ToSet(Unroll(k[h]))
    <3>1. i \in 1..(n + 1) /\ k[i] = l[i]
      BY <1>1, <1>4
    <3> QED BY <2>2, <3>1
  <2> QED BY <1>1, <1>2, <1>3, <1>4, <2>1, <2>2
<1>6. Len(Unrolled(k)) = Len(Unrolled(l)) + Len(Unroll(p))
  BY UnrolledAppend DEF k
<1>7. Unrolled(l) \in Seq(Nat) /\ Unroll(p) \in Seq(Nat)
  BY UnrolledSet, UnrollIs DEF Some
<1> QED BY <1>5, <1>6, <1>7 DEF k

\* Lists without a rank by itself can be extended by one.
LEMMA SingleAppended ==
  ASSUME NEW l, ListOK(l), Grown(l[Len(l)]), NEW r \in Nat, \A v \in ToSet(Unrolled(l)) : v < r
  PROVE  Holds(Append(l, Singleton(r)), ToSet(Unrolled(l)) \cup {r}, Len(Unrolled(l)) + 1)
<1> DEFINE k == Append(l, Singleton(r))
           n == Len(l)
<1>1. Stands(Singleton(r), {r}, 1) /\ Singleton(r).start = r
  BY SingletonStands
<1>2. l \in Lists /\ Singleton(r) \in Prsds
  BY <1>1 DEF ListOK, Stands
<1>3. /\ k \in Lists /\ Len(k) = n + 1 /\ k[n + 1] = Singleton(r) /\ n \in Nat
      /\ k # <<>> /\ \A i \in 1..n : k[i] = l[i]
  BY <1>2 DEF Lists
<1>4. /\ ToSet(Unrolled(k)) = ToSet(Unrolled(l)) \cup {r} /\ Len(Unrolled(k)) = Len(Unrolled(l)) + 1
  BY <1>1, <1>2, ListAppended DEF Stands
<1> HIDE DEF k
<1>5. \A i \in 1..(n + 1) : i = n + 1 \/ i \in 1..n
  BY <1>3
<1>6. ASSUME NEW i \in 1..(n + 1) PROVE Grown(k[i]) \/ (i = n + 1 /\ k[i] = Singleton(k[i].start))
  <2>1. CASE i = n + 1
    BY <1>1, <1>3, <2>1
  <2>2. CASE i \in 1..n
    BY <1>3, <2>2 DEF ListOK
  <2> QED BY <1>5, <2>1, <2>2
<1>7. ASSUME NEW i \in 1..(n + 1), NEW j \in 1..(n + 1), i < j PROVE k[i].start < k[j].start
  <2>1. i \in 1..n
    BY <1>3, <1>7
  <2>2. k[i] = l[i] /\ l[i].start \in ToSet(Unrolled(l))
    BY <1>2, <1>3, <2>1, StartsIn
  <2>3. CASE j = n + 1
    BY <1>1, <1>3, <2>2, <2>3
  <2>4. CASE j \in 1..n
    BY <1>3, <1>7, <2>1, <2>4 DEF ListOK
  <2> QED BY <1>5, <2>3, <2>4
<1>8. ListOK(k)
  BY <1>3, <1>6, <1>7 DEF ListOK
<1> QED BY <1>4, <1>8 DEF Holds, k

\* A rank larger than those of the list is added, once (add_single).
LEMMA AddSingleHolds ==
  ASSUME NEW l, NEW S, NEW n, Holds(l, S, n), NEW r \in Nat, \A v \in S : v < r
  PROVE  Holds(AddSingle(r, l), S \cup {r}, n + 1)
<1> DEFINE last == Last(l)
           rsd == last.rsds[1]
           next == last.start + rsd.iters * rsd.stride
           x == last.start
<1>1. ListOK(l) /\ ToSet(Unrolled(l)) = S /\ Len(Unrolled(l)) = n
  BY DEF Holds
<1>2. l \in Lists /\ l # <<>> /\ Len(l) \in Nat \ {0} /\ last = l[Len(l)] /\ Len(l) \in 1..Len(l)
  BY <1>1 DEF ListOK, Lists, Last
<1>3. last \in Prsds /\ x \in Nat /\ x < r
  BY <1>1, <1>2, StartsIn
<1>4. last.rsds \in Seq(Sections)
  BY <1>3 DEF Prsds
<1>5. Grown(last) \/ last = Singleton(x)
  BY <1>1, <1>2 DEF ListOK
<1>6. last = Singleton(x) => last.rsds = <<[iters |-> 1, stride |-> 0]>>
  BY <1>3, SingletonStands
<1> HIDE DEF last
<1>7. last = Singleton(x) => /\ rsd.iters = 1 /\ rsd.stride = 0 /\ next = x /\ Len(last.rsds) = 1
  <2> SUFFICES ASSUME last = Singleton(x)
               PROVE  /\ rsd.iters = 1 /\ rsd.stride = 0 /\ next = x /\ Len(last.rsds) = 1
    OBVIOUS
  <2>1. last.rsds = <<[iters |-> 1, stride |-> 0]>>
    BY <1>6
  <2>2. rsd = [iters |-> 1, stride |-> 0] /\ Len(last.rsds) = 1
    BY <2>1
  <2>3. rsd.iters = 1 /\ rsd.stride = 0
    BY <2>2
  <2> HIDE DEF rsd, x
  <2>4. x + rsd.iters * rsd.stride = x
    BY <1>3, <2>3
  <2> QED BY <2>2, <2>3, <2>4 DEF x
<1>8. CASE Len(last.rsds) = 1 /\ next \in {r, x}
  <2> DEFINE more == Section(rsd.iters + 1, rsd.stride + r - next)
             q == [start |-> x, rsds |-> <<more>>]
  <2>1. rsd \in Sections /\ last.rsds = <<rsd>>
    BY <1>4, <1>8
  <2>2. rsd.iters \in Nat \ {0} /\ rsd.stride \in Nat
    BY <2>1 DEF Sections
  <2>3. \/ rsd.iters = 1 /\ rsd.stride = 0 /\ r > x
        \/ rsd.iters >= 2 /\ rsd.stride >= 1 /\ r = x + rsd.iters * rsd.stride
    <3>1. CASE last = Singleton(x)
      BY <1>3, <1>7, <3>1
    <3>2. CASE Grown(last)
      <4>1. rsd.iters >= 2 /\ rsd.stride >= 1
        <5>1. 1 \in DOMAIN last.rsds
          BY <1>4, <1>8
        <5> QED BY <3>2, <5>1 DEF Grown
      <4>2. rsd.iters * rsd.stride \in Nat \ {0}
        BY <2>2, <4>1
      <4>3. next # x
        BY <1>3, <4>2
      <4> QED BY <1>8, <4>1, <4>3
    <3> QED BY <1>5, <3>1, <3>2
  <2>4. Grown(q) /\ Stands(q, ToSet(Sweep(<<x>>, <<rsd>>)) \cup {r}, Len(Sweep(<<x>>, <<rsd>>)) + 1)
    BY <1>3, <2>1, <2>3, ExtendedStands
  <2>5. Sweep(<<x>>, <<rsd>>) = Unroll(last) /\ q.start = x
    BY <2>1 DEF Unroll
  <2>6. AddSingle(r, l) = [l EXCEPT ![Len(l)] = q]
    <3>1. [last EXCEPT !.rsds = <<more>>] = q
      BY <1>3 DEF Prsds
    <3>2. AddSingle(r, l) = [l EXCEPT ![Len(l)].rsds = <<more>>]
      BY <1>8 DEF AddSingle, last
    <3>3. [l EXCEPT ![Len(l)].rsds = <<more>>] = [l EXCEPT ![Len(l)] = [l[Len(l)] EXCEPT !.rsds = <<more>>]]
      OBVIOUS
    <3> HIDE DEF q, more
    <3> QED BY <1>2, <3>1, <3>2, <3>3
  <2> HIDE DEF q, x
  <2>7. Holds([l EXCEPT ![Len(l)] = q], ToSet(Unrolled(l)) \cup {r}, Len(Unrolled(l)) + 1)
    <3>1. q.start = l[Len(l)].start
      BY <1>2, <2>5 DEF x
    <3>2. Stands(q, ToSet(Unroll(l[Len(l)])) \cup {r}, Len(Unroll(l[Len(l)])) + 1)
      BY <1>2, <2>4, <2>5
    <3>3. 1 \in Nat
      OBVIOUS
    <3> QED BY <1>1, <1>2, <2>4, <3>1, <3>2, <3>3, ListReplaced
  <2> QED BY <1>1, <2>6, <2>7
<1>9. CASE ~(Len(last.rsds) = 1 /\ next \in {r, x})
  <2>1. AddSingle(r, l) = Append(l, Singleton(r))
    BY <1>9 DEF AddSingle, last
  <2>2. Grown(l[Len(l)])
    BY <1>2, <1>5, <1>7, <1>9
  <2> QED BY <1>1, <2>1, <2>2, SingleAppended
<1> QED BY <1>8, <1>9

\* A compression changes the list, not its ranks (merge_compress).
LEMMA MergeCompressHolds ==
  ASSUME NEW l, NEW S, NEW n, Holds(l, S, n)
  PROVE  Holds(MergeCompress(l), S, n)
<1> DEFINE last == Last(l)
           N == Len(l)
           prevs == {i \in 1..(N - 1) : Repeats(l[i], last) \/ Continues(l[i], last)}
           j == Max(prevs)
           f == Front(l)
<1>1. ListOK(l) /\ ToSet(Unrolled(l)) = S /\ Len(Unrolled(l)) = n
  BY DEF Holds
<1>2. l \in Lists /\ l # <<>> /\ N \in Nat \ {0} /\ last = l[N] /\ N \in 1..N
  BY <1>1 DEF ListOK, Lists, Last
<1>3. CASE prevs = {}
  BY <1>3 DEF MergeCompress
<1>4. CASE prevs # {}
  <2>1. j \in prevs
    <3>1. prevs \subseteq 0..(N - 1) /\ N - 1 \in Nat
      BY <1>2
    <3> HIDE DEF prevs
    <3> QED BY <1>4, <3>1, Largest
  <2> HIDE DEF j
  <2>2. j \in 1..(N - 1) /\ (Repeats(l[j], last) \/ Continues(l[j], last)) /\ N - 1 \in Nat
    BY <1>2, <2>1
  <2> HIDE DEF prevs, last, N, f
  <2>3. l[j] \in Prsds /\ last \in Prsds /\ j \in 1..N /\ j < N /\ j # N
    <3>1. j \in 1..N /\ j < N /\ j # N
      BY <1>2, <2>2
    <3> QED BY <1>2, <3>1, StartsIn DEF N
  <2>4. Grown(l[j]) /\ l[j].start < last.start
    BY <1>1, <1>2, <2>3 DEF ListOK, N
  <2>5. Grown(last)
    <3>1. ASSUME last.rsds = <<[iters |-> 1, stride |-> 0]>> PROVE FALSE
      <4>1. \A d \in DOMAIN l[j].rsds : l[j].rsds[d].iters >= 2
        BY <2>4 DEF Grown
      <4>2. l[j].rsds \in Seq(Sections) /\ l[j].rsds # <<>>
        BY <2>3, <2>4 DEF Prsds, Grown
      <4>3. CASE Repeats(l[j], last)
        <5>1. l[j].rsds = <<[iters |-> 1, stride |-> 0]>>
          BY <3>1, <4>3 DEF Repeats
        <5>2. 1 \in DOMAIN l[j].rsds /\ l[j].rsds[1].iters = 1
          BY <5>1
        <5> QED BY <4>1, <5>2
      <4>4. CASE Continues(l[j], last)
        <5>1. Tail(l[j].rsds) = <<[iters |-> 1, stride |-> 0]>>
          BY <3>1, <4>4 DEF Continues
        <5>2. Len(l[j].rsds) = 2 /\ l[j].rsds[2] = Tail(l[j].rsds)[1]
          <6>1. \A t \in Seq(Sections) : t # <<>> => Len(Tail(t)) = Len(t) - 1 /\ Len(t) \in Nat
            OBVIOUS
          <6>2. Len(Tail(l[j].rsds)) = 1
            <7>1. Len(<<[iters |-> 1, stride |-> 0]>>) = 1
              OBVIOUS
            <7> QED BY <5>1, <7>1, Zenon
          <6>3. \A t \in Seq(Sections) : Len(t) = 2 => t[2] = Tail(t)[1]
            OBVIOUS
          <6>4. Len(l[j].rsds) = 2
            BY <4>2, <6>1, <6>2
          <6> QED BY <4>2, <6>3, <6>4
        <5>3. 2 \in DOMAIN l[j].rsds /\ l[j].rsds[2].iters = 1
          <6>1. Tail(l[j].rsds)[1].iters = 1
            <7>1. <<[iters |-> 1, stride |-> 0]>>[1].iters = 1
              OBVIOUS
            <7> QED BY <5>1, <7>1, Zenon
          <6> QED BY <4>2, <5>2, <6>1
        <5> QED BY <4>1, <5>3
      <4> QED BY <2>2, <4>3, <4>4
    <3>2. last.start \in Nat
      BY <2>3 DEF Prsds
    <3>3. Grown(last) \/ last = Singleton(last.start)
      BY <1>1, <1>2 DEF ListOK, N
    <3> QED BY <3>1, <3>2, <3>3, SingletonStands
  <2> DEFINE q == DoCompress(l[j], last)
  <2>6. /\ Grown(q) /\ q.start = l[j].start
        /\ Stands(q, ToSet(Unroll(l[j])) \cup ToSet(Unroll(last)), Len(Unroll(l[j])) + Len(Unroll(last)))
    BY <2>2, <2>3, <2>4, <2>5, CompressedStands
  <2>7. f \in Lists /\ Len(f) = N - 1 /\ \A i \in 1..(N - 1) : f[i] = l[i]
    <3>1. \A s \in Seq(Prsds), m \in Nat :
            m <= Len(s) => /\ SubSeq(s, 1, m) \in Seq(Prsds) /\ Len(SubSeq(s, 1, m)) = m
                           /\ \A i \in 1..m : SubSeq(s, 1, m)[i] = s[i]
      OBVIOUS
    <3>2. f = SubSeq(l, 1, N - 1) /\ N - 1 \in Nat /\ N - 1 <= N
      BY <1>2 DEF Front, f, N
    <3> QED BY <1>2, <3>1, <3>2 DEF Lists, N
  <2>8. l = Append(f, last)
    <3> DEFINE k == Append(f, last)
    <3>1. k \in Lists /\ Len(k) = N /\ k[N] = last /\ \A i \in 1..(N - 1) : k[i] = f[i]
      BY <1>2, <2>3, <2>7 DEF Lists
    <3> HIDE DEF k
    <3>2. \A i \in 1..N : i = N \/ i \in 1..(N - 1)
      BY <1>2
    <3>3. \A i \in 1..N : k[i] = l[i]
      BY <1>2, <2>7, <3>1, <3>2
    <3>4. \A s, t \in Seq(Prsds) : Len(s) = Len(t) /\ (\A i \in 1..Len(t) : s[i] = t[i]) => s = t
      OBVIOUS
    <3> QED BY <1>2, <3>1, <3>3, <3>4 DEF Lists, N, k
  <2>9. /\ S = ToSet(Unrolled(f)) \cup ToSet(Unroll(last))
        /\ n = Len(Unrolled(f)) + Len(Unroll(last))
        /\ Len(Unroll(last)) \in Nat
    BY <1>1, <2>3, <2>7, <2>8, ListAppended
  <2>10. ListOK(f)
    <3>1. \A i \in 1..(N - 1) : i \in 1..N /\ i # N
      BY <1>2
    <3>2. \A i \in 1..(N - 1) : Grown(f[i])
      BY <1>1, <2>7, <3>1 DEF ListOK, N
    <3>3. \A i, h \in 1..(N - 1) : i < h => f[i].start < f[h].start
      BY <1>1, <2>7, <3>1 DEF ListOK, N
    <3>4. f # <<>>
      BY <2>2, <2>7
    <3> QED BY <2>7, <3>2, <3>3, <3>4 DEF ListOK
  <2>11. MergeCompress(l) = [f EXCEPT ![j] = q]
    <3>1. MergeCompress(l) = [Front(l) EXCEPT ![j] = DoCompress(Front(l)[j], last)]
      BY <1>4 DEF MergeCompress, prevs, last, N, j
    <3> QED BY <2>2, <2>7, <3>1 DEF f
  <2> HIDE DEF q
  <2>12. Holds([f EXCEPT ![j] = q], ToSet(Unrolled(f)) \cup ToSet(Unroll(last)),
               Len(Unrolled(f)) + Len(Unroll(last)))
    <3>1. j \in 1..Len(f) /\ f[j] = l[j]
      BY <2>2, <2>7
    <3> QED BY <2>6, <2>9, <2>10, <3>1, ListReplaced
  <2> QED BY <2>9, <2>11, <2>12
<1> QED BY <1>3, <1>4
-----------------------------------------------------------------------------
(* Numbers in ascending order. *)

\* How many of S are smaller.
Below(S, v) == Cardinality({q \in S : q < v})

\* Each number of a finite set has a place of its own, and each place a number.
LEMMA Ranking ==
  ASSUME NEW S, S \subseteq Nat, IsFiniteSet(S)
  PROVE  /\ Cardinality(S) \in Nat
         /\ \A v \in S : Below(S, v) \in 0..(Cardinality(S) - 1)
         /\ \A v, w \in S : v < w => Below(S, v) < Below(S, w)
         /\ \A i \in 1..Cardinality(S) : \E v \in S : Below(S, v) = i - 1
<1> DEFINE n == Cardinality(S)
           L(v) == {q \in S : q < v}
<1>1. n \in Nat
  BY FS_CardinalityType
<1>2. ASSUME NEW v \in S, NEW T, T \subseteq L(v)
      PROVE  IsFiniteSet(T) /\ v \notin T /\ T \cup {v} \subseteq S
             /\ Cardinality(T \cup {v}) = Cardinality(T) + 1 /\ Cardinality(T) \in Nat
  <2>1. v \notin T /\ T \in SUBSET S /\ T \cup {v} \subseteq S
    BY <1>2
  <2>2. IsFiniteSet(T)
    BY <2>1, FS_Subset
  <2> QED BY <2>1, <2>2, FS_AddElement, FS_CardinalityType
<1>3. ASSUME NEW v \in S PROVE Below(S, v) \in 0..(n - 1)
  <2> DEFINE T == L(v)
  <2>1. Cardinality(T \cup {v}) = Cardinality(T) + 1 /\ Cardinality(T) \in Nat /\ T \cup {v} \in SUBSET S
    <3>1. T \subseteq L(v)
      OBVIOUS
    <3> HIDE DEF T, L
    <3> QED BY <1>2, <3>1
  <2>2. Cardinality(T \cup {v}) <= n
    <3> HIDE DEF T
    <3> QED BY <2>1, FS_Subset
  <2>3. Below(S, v) = Cardinality(T)
    BY DEF Below
  <2> HIDE DEF T, n
  <2> QED BY <1>1, <2>1, <2>2, <2>3
<1>4. ASSUME NEW v \in S, NEW w \in S, v < w PROVE Below(S, v) < Below(S, w)
  <2> DEFINE T == L(v)
  <2>1. Cardinality(T \cup {v}) = Cardinality(T) + 1 /\ Cardinality(T) \in Nat
    <3>1. T \subseteq L(v)
      OBVIOUS
    <3> HIDE DEF T, L
    <3> QED BY <1>2, <3>1
  <2>2. T \cup {v} \in SUBSET L(w)
    <3>1. \A q \in S : q < v => q < w
      <4> SUFFICES ASSUME NEW q \in S, q < v PROVE q < w
        OBVIOUS
      <4>1. q \in Nat /\ v \in Nat /\ w \in Nat
        OBVIOUS
      <4> QED BY <1>4, <4>1
    <3> QED BY <1>4, <3>1
  <2>3. IsFiniteSet(L(w))
    <3>1. L(w) \in SUBSET S
      OBVIOUS
    <3> HIDE DEF L
    <3> QED BY <3>1, FS_Subset
  <2>4. Cardinality(T \cup {v}) <= Cardinality(L(w))
    <3> HIDE DEF T, L
    <3> QED BY <2>2, <2>3, FS_Subset
  <2>5. Below(S, v) = Cardinality(T) /\ Below(S, w) = Cardinality(L(w))
    BY DEF Below
  <2>6. Cardinality(L(w)) \in Nat
    <3> HIDE DEF L
    <3> QED BY <2>3, FS_CardinalityType
  <2> HIDE DEF T, L
  <2> QED BY <2>1, <2>4, <2>5, <2>6
<1>5. \A i \in 1..n : \E v \in S : Below(S, v) = i - 1
  <2> DEFINE f == [v \in S |-> Below(S, v) + 1]
  <2>1. f \in [S -> 1..n]
    <3> HIDE DEF n
    <3>1. \A v \in S : Below(S, v) + 1 \in 1..n
      BY <1>1, <1>3
    <3> QED BY <3>1
  <2>2. \A v, w \in S : f[v] = f[w] => v = w
    <3> SUFFICES ASSUME NEW v \in S, NEW w \in S, f[v] = f[w], v # w PROVE FALSE
      OBVIOUS
    <3>1. v \in Nat /\ w \in Nat
      OBVIOUS
    <3>2. Below(S, v) \in Nat /\ Below(S, w) \in Nat
      <4> HIDE DEF n
      <4> QED BY <1>1, <1>3
    <3>3. Below(S, v) = Below(S, w)
      BY <3>2
    <3>4. v < w \/ w < v
      BY <3>1
    <3> HIDE DEF f
    <3> QED BY <1>4, <3>2, <3>3, <3>4
  <2>3. f \in Injection(S, 1..n)
    <3> HIDE DEF f, n
    <3> QED BY <2>1, <2>2 DEF Injection, IsInjective
  <2>4. IsFiniteSet(1..n) /\ Cardinality(1..n) = n
    <3> HIDE DEF n
    <3> QED BY <1>1, FS_Interval
  <2>5. f \in Surjection(S, 1..n)
    <3> HIDE DEF f
    <3> QED BY <2>3, <2>4, FS_Injection
  <2>6. \A i \in 1..n : \E v \in S : f[v] = i
    <3> HIDE DEF f, n
    <3> QED BY <2>5 DEF Surjection
  <2> SUFFICES ASSUME NEW i \in 1..n PROVE \E v \in S : Below(S, v) = i - 1
    OBVIOUS
  <2>7. PICK v \in S : f[v] = i
    BY <2>6
  <2>8. Below(S, v) \in Nat
    <3> HIDE DEF n
    <3> QED BY <1>1, <1>3
  <2> QED BY <2>7, <2>8
<1> QED BY <1>1, <1>3, <1>4, <1>5

\* Ascending lists every number of a set once, the smaller ones first.
LEMMA AscendingIs ==
  ASSUME NEW S, S \subseteq Nat, IsFiniteSet(S)
  PROVE  /\ Ascending(S) \in Seq(Nat) /\ Len(Ascending(S)) = Cardinality(S)
         /\ ToSet(Ascending(S)) = S
         /\ \A i, j \in 1..Len(Ascending(S)) : i < j => Ascending(S)[i] < Ascending(S)[j]
<1> DEFINE n == Cardinality(S)
           t == Ascending(S)
<1>1. /\ n \in Nat
      /\ \A v \in S : Below(S, v) \in 0..(n - 1)
      /\ \A v, w \in S : v < w => Below(S, v) < Below(S, w)
      /\ \A i \in 1..n : \E v \in S : Below(S, v) = i - 1
  BY Ranking
<1>2. t = [i \in 1..n |-> CHOOSE v \in S : Below(S, v) = i - 1]
  BY DEF Ascending, Below
<1> HIDE DEF t, n
<1>3. ASSUME NEW i \in 1..n PROVE t[i] \in S /\ Below(S, t[i]) = i - 1
  <2>1. t[i] = CHOOSE v \in S : Below(S, v) = i - 1
    BY <1>2
  <2>2. \E v \in S : Below(S, v) = i - 1
    BY <1>1
  <2> QED BY <2>1, <2>2
<1>4. t \in [1..n -> Nat]
  BY <1>2, <1>3
<1>5. t \in Seq(Nat) /\ Len(t) = n /\ DOMAIN t = 1..n
  BY <1>1, <1>4
<1>6. ASSUME NEW v \in S PROVE \E i \in 1..n : t[i] = v
  <2>1. Below(S, v) \in 0..(n - 1)
    BY <1>1
  <2>2. Below(S, v) + 1 \in 1..n /\ (Below(S, v) + 1) - 1 = Below(S, v)
    BY <1>1, <2>1
  <2>3. PICK i \in 1..n : i - 1 = Below(S, v)
    BY <2>2
  <2>4. t[i] \in S /\ Below(S, t[i]) = Below(S, v)
    BY <1>3, <2>3
  <2>5. t[i] \in Nat /\ v \in Nat
    BY <2>4
  <2>6. ~(Below(S, v) < Below(S, v))
    BY <1>1, <2>1
  <2>7. ~(t[i] < v) /\ ~(v < t[i])
    BY <1>1, <2>4, <2>6
  <2> QED BY <2>5, <2>7
<1>7. ToSet(t) = S
  BY <1>3, <1>5, <1>6 DEF ToSet
<1>8. ASSUME NEW i \in 1..n, NEW j \in 1..n, i < j PROVE t[i] < t[j]
  <2>1. /\ t[i] \in S /\ Below(S, t[i]) = i - 1
        /\ t[j] \in S /\ Below(S, t[j]) = j - 1
    BY <1>3
  <2>2. t[i] \in Nat /\ t[j] \in Nat
    BY <2>1
  <2>3. t[i] # t[j]
    BY <1>8, <2>1
  <2>4. ~(t[j] < t[i])
    <3>1. ~(j - 1 < i - 1)
      BY <1>8
    <3> QED BY <1>1, <2>1, <3>1
  <2> QED BY <2>2, <2>3, <2>4
<1> QED BY <1>5, <1>7, <1>8 DEF t, n

\* Sorting numbers none of which is there twice lists the set of them.
LEMMA SortedIs ==
  ASSUME NEW s \in Seq(Nat), Len(s) = Cardinality(ToSet(s))
  PROVE  Sorted(s) = Ascending(ToSet(s))
<1> DEFINE n == Len(s)
           S == ToSet(s)
           Smaller(v) == Cardinality({j \in DOMAIN s : s[j] < v})
           NotLarger(v) == Cardinality({j \in DOMAIN s : s[j] <= v})
<1>1. n \in Nat /\ DOMAIN s = 1..n /\ S = {s[i] : i \in 1..n} /\ S \subseteq Nat
      /\ \A i \in 1..n : s[i] \in Nat
  <2>1. n \in Nat /\ DOMAIN s = 1..n /\ \A i \in 1..n : s[i] \in Nat
    OBVIOUS
  <2>2. S = {s[i] : i \in DOMAIN s}
    BY DEF ToSet
  <2> HIDE DEF n, S
  <2> QED BY <2>1, <2>2
<1>2. IsFiniteSet(1..n) /\ Cardinality(1..n) = n
  <2>1. n \in Nat
    BY <1>1
  <2> HIDE DEF n
  <2>2. n \in Int /\ 1 \in Int /\ (IF 1 > n THEN 0 ELSE n - 1 + 1) = n
    BY <2>1
  <2> QED BY <2>2, FS_Interval
<1>3. s \in Surjection(1..n, S)
  <2>1. s \in [1..n -> S] /\ \A t \in S : \E i \in 1..n : s[i] = t
    <3>1. s = [i \in 1..n |-> s[i]]
      OBVIOUS
    <3> HIDE DEF S, n
    <3> QED BY <1>1, <3>1
  <2> HIDE DEF S, n
  <2> QED BY <2>1 DEF Surjection
<1>4. s \in Injection(1..n, S) /\ IsFiniteSet(S)
  <2> HIDE DEF S
  <2>1. Cardinality(S) = n
    BY DEF S
  <2> HIDE DEF n
  <2> QED BY <1>2, <1>3, <2>1, FS_Surjection
<1>5. \A i, j \in 1..n : s[i] = s[j] => i = j
  <2> HIDE DEF S, n
  <2> QED BY <1>4 DEF Injection, IsInjective
<1>6. ASSUME NEW T, T \subseteq S
      PROVE  LET J == {j \in DOMAIN s : s[j] \in T}
             IN  Cardinality(J) = Cardinality(T) /\ Cardinality(T) \in Nat
  <2> DEFINE J == {j \in DOMAIN s : s[j] \in T}
             g == [j \in J |-> s[j]]
  <2>1. IsFiniteSet(T) /\ Cardinality(T) \in Nat
    <3> HIDE DEF S
    <3> QED BY <1>4, <1>6, FS_Subset, FS_CardinalityType
  <2>2. J \subseteq 1..n /\ IsFiniteSet(J)
    <3>1. J \in SUBSET (1..n)
      BY <1>1
    <3> HIDE DEF J, n
    <3> QED BY <1>2, <3>1, FS_Subset
  <2>3. g \in [J -> T]
    OBVIOUS
  <2>4. \A a, b \in J : g[a] = g[b] => a = b
    <3> SUFFICES ASSUME NEW a \in J, NEW b \in J, g[a] = g[b] PROVE a = b
      OBVIOUS
    <3>1. a \in 1..n /\ b \in 1..n /\ s[a] = s[b]
      BY <2>2
    <3> QED BY <1>5, <3>1
  <2>5. \A v \in T : \E j \in J : g[j] = v
    <3> SUFFICES ASSUME NEW v \in T PROVE \E j \in J : g[j] = v
      OBVIOUS
    <3>1. PICK j \in 1..n : s[j] = v
      BY <1>1, <1>6
    <3> QED BY <1>1, <3>1
  <2>6. g \in Injection(J, T) /\ g \in Surjection(J, T)
    <3> HIDE DEF g, J
    <3> QED BY <2>3, <2>4, <2>5 DEF Injection, Surjection, IsInjective
  <2>7. Cardinality(T) = Cardinality(J)
    <3> HIDE DEF g, J
    <3> QED BY <2>2, <2>6, FS_Surjection
  <2> QED BY <2>1, <2>7
<1>7. ASSUME NEW v \in S
      PROVE  Smaller(v) = Below(S, v) /\ NotLarger(v) = Below(S, v) + 1 /\ Below(S, v) \in Nat
  <2> DEFINE T == {q \in S : q < v}
             U == T \cup {v}
  <2>1. {j \in DOMAIN s : s[j] < v} = {j \in DOMAIN s : s[j] \in T}
    BY <1>1
  <2>2. {j \in DOMAIN s : s[j] <= v} = {j \in DOMAIN s : s[j] \in U}
    <3>1. \A j \in DOMAIN s : s[j] <= v <=> s[j] < v \/ s[j] = v
      <4> SUFFICES ASSUME NEW j \in DOMAIN s PROVE s[j] <= v <=> s[j] < v \/ s[j] = v
        OBVIOUS
      <4>1. s[j] \in Nat /\ v \in Nat
        BY <1>1
      <4> QED BY <4>1
    <3>2. \A j \in DOMAIN s : s[j] \in S
      BY <1>1
    <3> HIDE DEF S
    <3> QED BY <3>1, <3>2
  <2>3. T \subseteq S /\ U \subseteq S /\ v \notin T
    <3>1. v \in Nat
      BY <1>1
    <3> QED BY <3>1
  <2> HIDE DEF T, S
  <2>4. Smaller(v) = Cardinality(T) /\ Cardinality(T) \in Nat
    <3>1. Cardinality({j \in DOMAIN s : s[j] \in T}) = Cardinality(T) /\ Cardinality(T) \in Nat
      BY <1>6, <2>3
    <3> QED BY <2>1, <3>1
  <2>5. NotLarger(v) = Cardinality(U)
    <3> HIDE DEF U
    <3>1. Cardinality({j \in DOMAIN s : s[j] \in U}) = Cardinality(U)
      BY <1>6, <2>3
    <3> QED BY <2>2, <3>1
  <2>6. Cardinality(U) = Cardinality(T) + 1
    <3>1. IsFiniteSet(T)
      BY <1>4, <2>3, FS_Subset
    <3> QED BY <2>3, <3>1, FS_AddElement
  <2>7. Below(S, v) = Cardinality(T)
    BY DEF Below, T
  <2> HIDE DEF U, Smaller, NotLarger
  <2> QED BY <2>4, <2>5, <2>6, <2>7
<1>8. ASSUME NEW i \in 1..n
      PROVE  (CHOOSE v \in S : Smaller(v) < i /\ i <= NotLarger(v)) = (CHOOSE v \in S : Below(S, v) = i - 1)
  <2>1. \A v \in S : (Smaller(v) < i /\ i <= NotLarger(v)) <=> Below(S, v) = i - 1
    <3> SUFFICES ASSUME NEW v \in S
                 PROVE  (Smaller(v) < i /\ i <= NotLarger(v)) <=> Below(S, v) = i - 1
      OBVIOUS
    <3> HIDE DEF Smaller, NotLarger, S, n
    <3>1. Smaller(v) = Below(S, v) /\ NotLarger(v) = Below(S, v) + 1 /\ Below(S, v) \in Nat
      BY <1>7
    <3>2. i \in Nat
      BY <1>1
    <3> QED BY <3>1, <3>2
  <2> HIDE DEF Smaller, NotLarger, S, n
  <2> QED BY <2>1
<1>9. Sorted(s) = [i \in 1..n |-> CHOOSE v \in S : Smaller(v) < i /\ i <= NotLarger(v)]
  BY <1>1 DEF Sorted
<1>10. Ascending(S) = [i \in 1..n |-> CHOOSE v \in S : Below(S, v) = i - 1]
  BY DEF Ascending, Below
<1> HIDE DEF S, n, Smaller, NotLarger
<1> QED BY <1>8, <1>9, <1>10 DEF S
-----------------------------------------------------------------------------
(* Merging. *)

\* Adding a rank and compressing as long as that is possible adds the rank.
LEMMA MergeSingleHolds ==
  ASSUME NEW l, NEW S, NEW n, Holds(l, S, n), NEW r \in Nat, \A v \in S : v < r
  PROVE  Holds(MergeSingle(l, r), S \cup {r}, n + 1)
<1> DEFINE one == AddSingle(r, l)
           N == Len(one)
           Good == {t \in Lists : Holds(t, S \cup {r}, n + 1)}
           Is(m) == m = [i \in 0..N |-> IF i = 0 THEN one ELSE MergeCompress(m[i - 1])]
           F == [i \in 1..N |-> [t \in Good |-> MergeCompress(t)]]
<1>1. one \in Good
  <2>1. Holds(one, S \cup {r}, n + 1)
    BY AddSingleHolds
  <2> QED BY <2>1 DEF Holds, ListOK
<1>2. N \in Nat
  <2>1. one \in Seq(Prsds)
    BY <1>1 DEF Lists
  <2> HIDE DEF one
  <2> QED BY <2>1
<1>3. \A t \in Good : MergeCompress(t) \in Good
  <2> SUFFICES ASSUME NEW t \in Good PROVE MergeCompress(t) \in Good
    OBVIOUS
  <2>1. Holds(MergeCompress(t), S \cup {r}, n + 1)
    BY MergeCompressHolds
  <2> QED BY <2>1 DEF Holds, ListOK
<1> HIDE DEF N, Good, one
<1>4. F \in [1..N -> [Good -> Good]]
  BY <1>3
<1>5. PICK g : Recursive(g, N, Good, one, F)
  <2> HIDE DEF F
  <2> QED BY <1>1, <1>2, <1>4, Recursion
<1>6. Is(g)
  <2>1. g \in [0..N -> Good] /\ g[0] = one /\ \A i \in 1..N : g[i] = MergeCompress(g[i - 1])
    <3>1. \A i \in 1..N : i - 1 \in 0..N
      BY <1>2
    <3> QED BY <1>5, <3>1 DEF Recursive
  <2>2. \A i \in 0..N : i # 0 => i \in 1..N
    BY <1>2
  <2> QED BY <2>1, <2>2
<1>7. MergeSingle(l, r) = (CHOOSE m : Is(m))[N]
  BY DEF MergeSingle, N, one
<1>8. PICK m : m = CHOOSE h : Is(h)
  OBVIOUS
<1>9. Is(m)
  <2> HIDE DEF Is
  <2> QED BY <1>6, <1>8, Zenon
<1>10. m[0] = one /\ \A i \in 1..N : m[i] = MergeCompress(m[i - 1])
  <2>1. 0 \in 0..N /\ \A i \in 1..N : i # 0 /\ i \in 0..N
    BY <1>2
  <2>2. \A i \in 0..N : m[i] = IF i = 0 THEN one ELSE MergeCompress(m[i - 1])
    BY <1>9
  <2>3. m[0] = one
    BY <2>1, <2>2
  <2>4. \A i \in 1..N : m[i] = MergeCompress(m[i - 1])
    BY <2>1, <2>2
  <2> QED BY <2>3, <2>4
<1> DEFINE P == {i \in 0..N : m[i] \in Good}
<1>11. 0 \in P
  BY <1>1, <1>2, <1>10
<1>12. ASSUME NEW i \in 1..N, i - 1 \in P PROVE i \in P
  <2>1. i \in 0..N
    BY <1>2
  <2> QED BY <1>3, <1>10, <1>12, <2>1
<1>13. N \in P
  <2>1. N \in 0..N
    BY <1>2
  <2> HIDE DEF P
  <2> QED BY <1>2, <1>11, <1>12, <2>1, UpTo
<1> QED BY <1>7, <1>8, <1>13 DEF Good

\* A list of one rank, as every rank starts with.
LEMMA OneHolds ==
  ASSUME NEW r \in Nat
  PROVE  Holds(<<Singleton(r)>>, {r}, 1)
<1> DEFINE l == <<Singleton(r)>>
<1>1. Stands(Singleton(r), {r}, 1) /\ Singleton(r).start = r /\ Singleton(r) \in Prsds
  BY SingletonStands DEF Stands
<1>2. l \in Lists /\ Len(l) = 1 /\ l[1] = Singleton(r) /\ l # <<>>
  BY <1>1 DEF Lists
<1> HIDE DEF l
<1>3. 1 \in 1..1 /\ 1 - 1 = 0 /\ \A i \in 1..1 : i = 1
  OBVIOUS
<1>4. ListOK(l)
  <2>1. \A i \in 1..1 : l[i] = Singleton(l[i].start)
    BY <1>1, <1>2, <1>3
  <2>2. \A i, j \in 1..1 : ~(i < j)
    OBVIOUS
  <2> QED BY <1>2, <1>3, <2>1, <2>2 DEF ListOK
<1>5. ToSet(Unrolled(l)) = {r}
  <2>1. \A v : v \in ToSet(Unrolled(l)) <=> \E i \in 1..1 : v \in ToSet(Unroll(l[i]))
    BY <1>2, UnrolledSet
  <2> QED BY <1>1, <1>2, <1>3, <2>1 DEF Stands
<1>6. Len(Unrolled(l)) = 1
  <2>1. PICK a : Unrolls(a, l)
    BY <1>2, UnrolledIs
  <2>2. a[0] = <<>> /\ a[1] = a[0] \o Unroll(l[1]) /\ Unrolled(l) = a[1]
    BY <1>2, <1>3, <2>1 DEF Unrolls
  <2>3. Unroll(l[1]) \in Seq(Nat) /\ Len(Unroll(l[1])) = 1
    BY <1>1, <1>2, UnrollIs DEF Stands, Some
  <2>4. <<>> \o Unroll(l[1]) = Unroll(l[1])
    BY <2>3
  <2> QED BY <2>2, <2>3, <2>4
<1> QED BY <1>4, <1>5, <1>6 DEF Holds, l

\* A list built of ascending ranks expands to them, each once.
LEMMA BuildHolds ==
  ASSUME NEW s \in Seq(Nat), s # <<>>, \A i, j \in 1..Len(s) : i < j => s[i] < s[j]
  PROVE  Holds(Build(s), ToSet(s), Len(s))
<1> DEFINE n == Len(s)
           Up(k) == {s[h] : h \in 1..k}
           Is(b) == b = [i \in 1..n |-> IF i = 1 THEN <<Singleton(s[1])>> ELSE MergeSingle(b[i - 1], s[i])]
           F == [k \in 1..(n - 1) |-> [t \in Lists |->
                  IF Holds(t, Up(k), k) THEN MergeSingle(t, s[k + 1]) ELSE t]]
           first == <<Singleton(s[1])>>
<1>1. n \in Nat \ {0} /\ \A i \in 1..n : s[i] \in Nat
  OBVIOUS
<1>2. ASSUME NEW k \in 1..(n - 1), NEW t, Holds(t, Up(k), k)
      PROVE  Holds(MergeSingle(t, s[k + 1]), Up(k + 1), k + 1)
  <2>1. s[k + 1] \in Nat /\ k + 1 \in 1..n /\ k \in Nat
    BY <1>1
  <2>2. \A v \in Up(k) : v < s[k + 1]
    <3> SUFFICES ASSUME NEW h \in 1..k PROVE s[h] < s[k + 1]
      OBVIOUS
    <3>1. h \in 1..n /\ h < k + 1
      BY <1>1
    <3> QED BY <2>1, <3>1
  <2>3. Up(k + 1) = Up(k) \cup {s[k + 1]}
    <3>1. \A h \in 1..(k + 1) : h = k + 1 \/ h \in 1..k
      BY <2>1
    <3>2. \A h \in 1..k : h \in 1..(k + 1)
      BY <2>1
    <3>3. k + 1 \in 1..(k + 1)
      BY <2>1
    <3> QED BY <3>1, <3>2, <3>3
  <2> HIDE DEF Up
  <2>4. Holds(MergeSingle(t, s[k + 1]), Up(k) \cup {s[k + 1]}, k + 1)
    BY <1>2, <2>1, <2>2, MergeSingleHolds
  <2> QED BY <2>3, <2>4
<1>3. Holds(first, Up(1), 1)
  <2>1. s[1] \in Nat
    BY <1>1
  <2>2. Holds(first, {s[1]}, 1)
    BY <2>1, OneHolds
  <2>3. Up(1) = {s[1]}
    <3>1. 1 \in 1..1 /\ \A i \in 1..1 : i = 1
      OBVIOUS
    <3> QED BY <3>1
  <2> HIDE DEF Up, first
  <2> QED BY <2>2, <2>3
<1>4. \A t : \A k : Holds(t, Up(k), k) => t \in Lists
  BY DEF Holds, ListOK
<1> HIDE DEF Up, n, first
<1>5. F \in [1..(n - 1) -> [Lists -> Lists]]
  <2>1. ASSUME NEW k \in 1..(n - 1), NEW t \in Lists, Holds(t, Up(k), k)
        PROVE  MergeSingle(t, s[k + 1]) \in Lists
    BY <1>2, <1>4, <2>1
  <2> QED BY <2>1
<1>6. PICK g : Recursive(g, n - 1, Lists, first, F)
  <2>1. n - 1 \in Nat /\ first \in Lists
    BY <1>1, <1>3, <1>4
  <2> HIDE DEF F
  <2> QED BY <1>5, <2>1, Recursion
<1>7. g[0] = first /\ \A k \in 1..(n - 1) : g[k] = IF Holds(g[k - 1], Up(k), k) THEN MergeSingle(g[k - 1], s[k + 1])
                                                   ELSE g[k - 1]
  <2>1. \A k \in 1..(n - 1) : k - 1 \in 0..(n - 1)
    BY <1>1
  <2>2. \A k \in 1..(n - 1) : g[k - 1] \in Lists
    BY <1>6, <2>1 DEF Recursive
  <2> QED BY <1>6, <2>2 DEF Recursive
<1>8. \A k \in 0..(n - 1) : Holds(g[k], Up(k + 1), k + 1)
  <2> DEFINE P == {k \in 0..(n - 1) : Holds(g[k], Up(k + 1), k + 1)}
  <2>1. 0 \in P
    <3>1. 0 + 1 = 1 /\ 0 \in 0..(n - 1)
      BY <1>1
    <3> QED BY <1>3, <1>7, <3>1
  <2>2. ASSUME NEW k \in 1..(n - 1), k - 1 \in P PROVE k \in P
    <3>1. k \in 0..(n - 1) /\ (k - 1) + 1 = k
      BY <1>1
    <3>2. Holds(g[k - 1], Up(k), k)
      BY <2>2, <3>1
    <3>3. g[k] = MergeSingle(g[k - 1], s[k + 1])
      BY <1>7, <3>2
    <3> QED BY <1>2, <3>1, <3>2, <3>3
  <2>3. \A k \in 0..(n - 1) : k \in P
    <3>1. n - 1 \in Nat
      BY <1>1
    <3> HIDE DEF P
    <3> QED BY <2>1, <2>2, <3>1, UpTo
  <2> QED BY <2>3
<1> DEFINE f == [i \in 1..n |-> g[i - 1]]
<1>9. Is(f)
  <2> SUFFICES ASSUME NEW i \in 1..n
               PROVE  g[i - 1] = IF i = 1 THEN <<Singleton(s[1])>> ELSE MergeSingle(f[i - 1], s[i])
    OBVIOUS
  <2>1. CASE i = 1
    BY <1>7, <2>1 DEF first
  <2>2. CASE i # 1
    <3>1. i - 1 \in 1..(n - 1) /\ i - 1 \in 1..n /\ (i - 1) - 1 \in 0..(n - 1) /\ (i - 1) + 1 = i
          /\ ((i - 1) - 1) + 1 = i - 1
      BY <1>1, <2>2
    <3>2. Holds(g[(i - 1) - 1], Up(i - 1), i - 1)
      BY <1>8, <3>1
    <3>3. g[i - 1] = MergeSingle(g[(i - 1) - 1], s[i])
      BY <1>7, <3>1, <3>2
    <3>4. f[i - 1] = g[(i - 1) - 1]
      BY <3>1
    <3> QED BY <2>2, <3>3, <3>4
  <2> QED BY <2>1, <2>2
<1>10. Build(s) = (CHOOSE b : Is(b))[n]
  BY DEF Build, n
<1>11. PICK b : b = CHOOSE h : Is(h)
  OBVIOUS
<1>12. Is(b)
  <2> HIDE DEF Is, f
  <2> QED BY <1>9, <1>11, Zenon
<1>13. \A i \in 1..n : Holds(b[i], Up(i), i)
  <2> DEFINE P == {k \in 0..(n - 1) : Holds(b[k + 1], Up(k + 1), k + 1)}
  <2>1. \A i \in 1..n : b[i] = IF i = 1 THEN first ELSE MergeSingle(b[i - 1], s[i])
    BY <1>12 DEF first
  <2>2. 0 \in P
    <3>1. 0 + 1 = 1 /\ 0 \in 0..(n - 1) /\ 1 \in 1..n
      BY <1>1
    <3> QED BY <1>3, <2>1, <3>1
  <2>3. ASSUME NEW k \in 1..(n - 1), k - 1 \in P PROVE k \in P
    <3>1. k \in 0..(n - 1) /\ (k - 1) + 1 = k /\ k + 1 \in 1..n /\ (k + 1) - 1 = k /\ k + 1 # 1
      BY <1>1
    <3>2. Holds(b[k], Up(k), k)
      BY <2>3, <3>1
    <3>3. b[k + 1] = MergeSingle(b[k], s[k + 1])
      BY <2>1, <3>1
    <3> QED BY <1>2, <3>1, <3>2, <3>3
  <2>4. \A k \in 0..(n - 1) : k \in P
    <3>1. n - 1 \in Nat
      BY <1>1
    <3> HIDE DEF P
    <3> QED BY <2>2, <2>3, <3>1, UpTo
  <2>5. \A i \in 1..n : i - 1 \in 0..(n - 1) /\ (i - 1) + 1 = i
    BY <1>1
  <2> QED BY <2>4, <2>5
<1>14. ToSet(s) = Up(n)
  BY DEF ToSet, Up, n
<1>15. Holds(b[n], Up(n), n)
  BY <1>1, <1>13
<1> QED BY <1>10, <1>11, <1>14, <1>15 DEF n
-----------------------------------------------------------------------------
(* Counting the ranks and looking for one. *)

\* The product of the iterations is the number of ranks of a PRSD.
LEMMA PrsdCountIs ==
  ASSUME NEW p \in Prsds
  PROVE  PrsdCount(p) = Len(Unroll(p))
<1> DEFINE n == Len(p.rsds)
           Is(c) == c = [d \in 0..n |-> IF d = 0 THEN 1 ELSE c[d - 1] * p.rsds[d].iters]
           F == [d \in 1..n |-> [t \in Nat |-> t * p.rsds[d].iters]]
<1>1. p.rsds \in Seq(Sections) /\ n \in Nat /\ <<p.start>> \in Some
  BY OneRank DEF Prsds
<1>2. \A d \in 1..n : p.rsds[d] \in Sections /\ p.rsds[d].iters \in Nat
  <2>1. \A d \in 1..n : p.rsds[d] \in Sections
    BY <1>1
  <2>2. \A r \in Sections : r.iters \in Nat
    BY DEF Sections
  <2> QED BY <2>1, <2>2
<1> HIDE DEF n
<1>3. F \in [1..n -> [Nat -> Nat]]
  BY <1>2
<1>4. PICK g : Recursive(g, n, Nat, 1, F)
  <2> HIDE DEF F
  <2> QED BY <1>1, <1>3, Recursion
<1>5. g \in [0..n -> Nat] /\ g[0] = 1 /\ \A d \in 1..n : g[d] = g[d - 1] * p.rsds[d].iters
  <2>1. \A d \in 1..n : d - 1 \in 0..n
    BY <1>1
  <2> QED BY <1>4, <2>1 DEF Recursive
<1>6. Is(g)
  <2>1. \A d \in 0..n : d # 0 => d \in 1..n
    BY <1>1
  <2> QED BY <1>5, <2>1
<1>7. PrsdCount(p) = (CHOOSE c : Is(c))[n]
  BY DEF PrsdCount, n
<1>8. PICK c : c = CHOOSE h : Is(h)
  OBVIOUS
<1>9. Is(c)
  <2> HIDE DEF Is
  <2> QED BY <1>6, <1>8, Zenon
<1>10. c[0] = 1 /\ \A d \in 1..n : c[d] = c[d - 1] * p.rsds[d].iters
  <2>1. 0 \in 0..n /\ \A d \in 1..n : d # 0 /\ d \in 0..n
    BY <1>1
  <2>2. \A d \in 0..n : c[d] = IF d = 0 THEN 1 ELSE c[d - 1] * p.rsds[d].iters
    BY <1>9
  <2>3. c[0] = 1
    BY <2>1, <2>2
  <2>4. \A d \in 1..n : c[d] = c[d - 1] * p.rsds[d].iters
    BY <2>1, <2>2
  <2> QED BY <2>3, <2>4
<1>11. PICK u : Sweeps(u, <<p.start>>, p.rsds)
  BY <1>1, SweepIs
<1> DEFINE P == {d \in 0..n : c[d] = Len(u[d])}
<1>12. 0 \in P
  <2>1. u[0] = <<p.start>> /\ Len(<<p.start>>) = 1 /\ 0 \in 0..n
    BY <1>1, <1>11 DEF Sweeps
  <2> QED BY <1>10, <2>1
<1>13. ASSUME NEW d \in 1..n, d - 1 \in P PROVE d \in P
  <2>1. d \in 0..n /\ d - 1 \in 0..n
    BY <1>1
  <2>2. u[d] = Repeat(u[d - 1], p.rsds[d]) /\ u[d - 1] \in Some
    BY <1>11, <2>1 DEF Sweeps, n
  <2>3. Len(u[d]) = Len(u[d - 1]) * p.rsds[d].iters
    BY <1>2, <2>2, RepeatIs
  <2> QED BY <1>10, <1>13, <2>1, <2>3
<1>14. n \in P
  <2>1. n \in 0..n
    BY <1>1
  <2> HIDE DEF P
  <2> QED BY <1>1, <1>12, <1>13, <2>1, UpTo
<1>15. Unroll(p) = u[n]
  BY <1>11 DEF Sweeps, Unroll, n
<1> QED BY <1>7, <1>8, <1>14, <1>15

\* memberCount counts the ranks of a list.
LEMMA MemberCountIs ==
  ASSUME NEW l \in Lists
  PROVE  MemberCount(l) = Len(Unrolled(l))
<1> DEFINE n == Len(l)
           Is(c) == c = [i \in 0..n |-> IF i = 0 THEN 0 ELSE c[i - 1] + PrsdCount(l[i])]
           F == [i \in 1..n |-> [t \in Nat |-> t + PrsdCount(l[i])]]
<1>1. n \in Nat /\ \A i \in 1..n : l[i] \in Prsds
  BY DEF Lists
<1>2. \A i \in 1..n : PrsdCount(l[i]) = Len(Unroll(l[i])) /\ Unroll(l[i]) \in Seq(Nat)
  BY <1>1, PrsdCountIs, UnrollIs DEF Some
<1>3. \A i \in 1..n : PrsdCount(l[i]) \in Nat
  BY <1>2
<1> HIDE DEF n
<1>4. F \in [1..n -> [Nat -> Nat]]
  BY <1>3
<1>5. PICK g : Recursive(g, n, Nat, 0, F)
  <2> HIDE DEF F
  <2> QED BY <1>1, <1>4, Recursion
<1>6. g \in [0..n -> Nat] /\ g[0] = 0 /\ \A i \in 1..n : g[i] = g[i - 1] + PrsdCount(l[i])
  <2>1. \A i \in 1..n : i - 1 \in 0..n
    BY <1>1
  <2> QED BY <1>5, <2>1 DEF Recursive
<1>7. Is(g)
  <2>1. \A i \in 0..n : i # 0 => i \in 1..n
    BY <1>1
  <2> QED BY <1>6, <2>1
<1>8. MemberCount(l) = (CHOOSE c : Is(c))[n]
  BY DEF MemberCount, n
<1>9. PICK c : c = CHOOSE h : Is(h)
  OBVIOUS
<1>10. Is(c)
  <2> HIDE DEF Is
  <2> QED BY <1>7, <1>9, Zenon
<1>11. c[0] = 0 /\ \A i \in 1..n : c[i] = c[i - 1] + PrsdCount(l[i])
  <2>1. 0 \in 0..n /\ \A i \in 1..n : i # 0 /\ i \in 0..n
    BY <1>1
  <2>2. \A i \in 0..n : c[i] = IF i = 0 THEN 0 ELSE c[i - 1] + PrsdCount(l[i])
    BY <1>10
  <2>3. c[0] = 0
    BY <2>1, <2>2
  <2>4. \A i \in 1..n : c[i] = c[i - 1] + PrsdCount(l[i])
    BY <2>1, <2>2
  <2> QED BY <2>3, <2>4
<1>12. PICK a : Unrolls(a, l)
  BY UnrolledIs
<1> DEFINE P == {i \in 0..n : c[i] = Len(a[i])}
<1>13. 0 \in P
  <2>1. a[0] = <<>> /\ Len(<<>>) = 0 /\ 0 \in 0..n
    BY <1>1, <1>12 DEF Unrolls
  <2> QED BY <1>11, <2>1
<1>14. ASSUME NEW i \in 1..n, i - 1 \in P PROVE i \in P
  <2>1. i \in 0..n /\ i - 1 \in 0..n
    BY <1>1
  <2>2. a[i] = a[i - 1] \o Unroll(l[i]) /\ a[i - 1] \in Seq(Nat)
    BY <1>12, <2>1 DEF Unrolls, n
  <2>3. Len(a[i]) = Len(a[i - 1]) + Len(Unroll(l[i]))
    BY <1>2, <2>2, Concatenation
  <2>4. c[i] = c[i - 1] + PrsdCount(l[i]) /\ PrsdCount(l[i]) = Len(Unroll(l[i])) /\ c[i - 1] = Len(a[i - 1])
    BY <1>2, <1>11, <1>14
  <2> QED BY <2>1, <2>3, <2>4
<1>15. n \in P
  <2>1. n \in 0..n
    BY <1>1
  <2> HIDE DEF P
  <2> QED BY <1>1, <1>13, <1>14, <2>1, UpTo
<1>16. Unrolled(l) = a[n]
  BY <1>12 DEF Unrolls, n
<1> QED BY <1>8, <1>9, <1>15, <1>16

\* The numbers of a PRSD as they are stored.
LEMMA StoredPrsdIs ==
  ASSUME NEW p \in Prsds
  PROVE  LET n == Len(p.rsds)
             s == StoredPrsd(p)
         IN  /\ n \in Nat /\ s \in Seq(Int) /\ Len(s) = 2 + 2 * n
             /\ s[1] = -n /\ s[2] = p.start
             /\ \A d \in 1..n : s[1 + 2 * d] = p.rsds[d].iters /\ s[2 + 2 * d] = p.rsds[d].stride
<1> DEFINE n == Len(p.rsds)
           s == StoredPrsd(p)
<1>1. p.rsds \in Seq(Sections) /\ n \in Nat /\ p.start \in Nat
  BY DEF Prsds
<1>2. \A d \in 1..n : p.rsds[d] \in Sections /\ p.rsds[d].iters \in Int /\ p.rsds[d].stride \in Int
  <2>1. \A d \in 1..n : p.rsds[d] \in Sections
    BY <1>1
  <2>2. \A r \in Sections : r.iters \in Int /\ r.stride \in Int
    BY DEF Sections
  <2> QED BY <2>1, <2>2
<1> HIDE DEF n
<1>3. s = [j \in 1..(2 + 2 * n) |->
            CASE j = 1 -> -n
              [] j = 2 -> p.start
              [] j > 2 /\ j % 2 = 1 -> p.rsds[(j - 1) \div 2].iters
              [] j > 2 /\ j % 2 = 0 -> p.rsds[(j - 2) \div 2].stride]
  BY DEF StoredPrsd, n
<1> HIDE DEF s
<1>4. 2 + 2 * n \in Nat /\ 1 \in 1..(2 + 2 * n) /\ 2 \in 1..(2 + 2 * n)
  BY <1>1
<1>5. s[1] = -n
  BY <1>3, <1>4
<1>6. s[2] = p.start
  BY <1>3, <1>4
<1>7. ASSUME NEW d \in 1..n
      PROVE  s[1 + 2 * d] = p.rsds[d].iters /\ s[2 + 2 * d] = p.rsds[d].stride
  <2>1. /\ 1 + 2 * d \in 1..(2 + 2 * n) /\ 1 + 2 * d > 2 /\ (1 + 2 * d) % 2 = 1 /\ ((1 + 2 * d) - 1) \div 2 = d
        /\ 1 + 2 * d # 1 /\ 1 + 2 * d # 2
    BY <1>1
  <2>2. /\ 2 + 2 * d \in 1..(2 + 2 * n) /\ 2 + 2 * d > 2 /\ (2 + 2 * d) % 2 = 0 /\ ((2 + 2 * d) - 2) \div 2 = d
        /\ 2 + 2 * d # 1 /\ 2 + 2 * d # 2
    BY <1>1
  <2>3. s[1 + 2 * d] = p.rsds[d].iters
    BY <1>3, <2>1
  <2>4. s[2 + 2 * d] = p.rsds[d].stride
    BY <1>3, <2>2
  <2> QED BY <2>3, <2>4
<1>8. \A j \in 1..(2 + 2 * n) : s[j] \in Int
  <2> SUFFICES ASSUME NEW j \in 1..(2 + 2 * n) PROVE s[j] \in Int
    OBVIOUS
  <2>1. CASE j = 1
    BY <1>1, <1>5, <2>1
  <2>2. CASE j = 2
    BY <1>1, <1>6, <2>2
  <2>3. CASE j > 2 /\ j % 2 = 1
    <3>1. (j - 1) \div 2 \in 1..n /\ 1 + 2 * ((j - 1) \div 2) = j
      BY <1>1, <2>3
    <3> QED BY <1>2, <1>7, <3>1
  <2>4. CASE j > 2 /\ j % 2 = 0
    <3>1. (j - 2) \div 2 \in 1..n /\ 2 + 2 * ((j - 2) \div 2) = j
      BY <1>1, <2>4
    <3> QED BY <1>2, <1>7, <3>1
  <2>5. j \in Nat /\ j >= 1 /\ (j % 2 = 0 \/ j % 2 = 1)
    BY <1>4
  <2> QED BY <2>1, <2>2, <2>3, <2>4, <2>5
<1>9. s \in Seq(Int) /\ Len(s) = 2 + 2 * n
  <2> DEFINE N == 2 + 2 * n
  <2>1. N \in Nat /\ s = [j \in 1..N |-> s[j]] /\ \A j \in 1..N : s[j] \in Int
    BY <1>3, <1>4, <1>8
  <2> HIDE DEF N
  <2>2. s \in [1..N -> Int]
    BY <2>1
  <2>3. s \in Seq(Int) /\ Len(s) = N
    BY <2>1, <2>2
  <2> QED BY <2>3 DEF N
<1> QED BY <1>1, <1>5, <1>6, <1>7, <1>9 DEF n, s
-----------------------------------------------------------------------------
(* Looking for a rank. *)

\* Numbers of a list, and of one appended to it.
LEMMA Appended ==
  ASSUME NEW S, NEW s \in Seq(S), NEW t \in Seq(S)
  PROVE  /\ s \o t \in Seq(S) /\ Len(s \o t) = Len(s) + Len(t)
         /\ \A j \in 1..Len(s) : (s \o t)[j] = s[j]
         /\ \A j \in 1..Len(t) : (s \o t)[Len(s) + j] = t[j]
<1>1. s \o t \in Seq(S) /\ Len(s \o t) = Len(s) + Len(t)
  OBVIOUS
<1>2. \A j \in 1..(Len(s) + Len(t)) : (s \o t)[j] = IF j <= Len(s) THEN s[j] ELSE t[j - Len(s)]
  OBVIOUS
<1>3. Len(s) \in Nat /\ Len(t) \in Nat
  OBVIOUS
<1>4. \A j \in 1..Len(s) : j \in 1..(Len(s) + Len(t)) /\ j <= Len(s)
  BY <1>3
<1>5. \A j \in 1..Len(t) :
        Len(s) + j \in 1..(Len(s) + Len(t)) /\ ~(Len(s) + j <= Len(s)) /\ (Len(s) + j) - Len(s) = j
  BY <1>3
<1>6. \A j \in 1..Len(t) : (s \o t)[Len(s) + j] = t[j]
  BY <1>2, <1>5
<1>7. \A j \in 1..Len(s) : (s \o t)[j] = s[j]
  BY <1>2, <1>4
<1> QED BY <1>1, <1>6, <1>7

\* The numbers of p are in s after the first o.
StoredAt(s, o, p) ==
  /\ o \in Nat \ {0} /\ o + 2 + 2 * Len(p.rsds) <= Len(s)
  /\ \A j \in 1..(2 + 2 * Len(p.rsds)) : s[o + j] = StoredPrsd(p)[j]

\* A list is stored behind its number of PRSDs, one PRSD behind another.
Placed(s, o, l) ==
  /\ s \in Seq(Int) /\ s[1] = Len(l) /\ o[1] = 1
  /\ \A i \in 1..Len(l) : StoredAt(s, o[i], l[i])
  /\ \A i \in 1..Len(l) : i + 1 \in 1..Len(l) => o[i + 1] = o[i] + 2 + 2 * Len(l[i].rsds)

\* The numbers of each PRSD are found where those before it end.
LEMMA StoredIs ==
  ASSUME NEW l \in Lists, l # <<>>
  PROVE  \E o : Placed(Stored(l), o, l)
<1> DEFINE n == Len(l)
           B(i) == StoredPrsd(l[i])
           W(i) == 2 + 2 * Len(l[i].rsds)
           Is(a) == a = [i \in 0..n |-> IF i = 0 THEN <<n>> ELSE a[i - 1] \o B(i)]
           F == [i \in 1..n |-> [t \in Seq(Int) |-> t \o B(i)]]
<1>1. n \in Nat /\ n # 0 /\ \A i \in 1..n : l[i] \in Prsds
  BY DEF Lists
<1>2. \A i \in 1..n : B(i) \in Seq(Int) /\ Len(B(i)) = W(i) /\ W(i) \in Nat
  <2> SUFFICES ASSUME NEW i \in 1..n PROVE B(i) \in Seq(Int) /\ Len(B(i)) = W(i) /\ W(i) \in Nat
    OBVIOUS
  <2>1. Len(l[i].rsds) \in Nat /\ B(i) \in Seq(Int) /\ Len(B(i)) = W(i)
    BY <1>1, StoredPrsdIs
  <2> QED BY <2>1
<1>3. Stored(l) = (CHOOSE a : Is(a))[n]
  BY DEF Stored
<1> HIDE DEF n, B, W
<1>4. F \in [1..n -> [Seq(Int) -> Seq(Int)]]
  BY <1>2
<1>5. <<n>> \in Seq(Int) /\ Len(<<n>>) = 1 /\ <<n>>[1] = n
  BY <1>1
<1>6. PICK g : Recursive(g, n, Seq(Int), <<n>>, F)
  <2> HIDE DEF F
  <2> QED BY <1>1, <1>4, <1>5, Recursion
<1>7. g \in [0..n -> Seq(Int)] /\ g[0] = <<n>> /\ \A i \in 1..n : g[i] = g[i - 1] \o B(i)
  <2>1. \A i \in 1..n : i - 1 \in 0..n
    BY <1>1
  <2> QED BY <1>6, <2>1 DEF Recursive
<1>8. Is(g)
  <2>1. \A i \in 0..n : i # 0 => i \in 1..n
    BY <1>1
  <2> QED BY <1>7, <2>1
<1>9. PICK a : a = CHOOSE h : Is(h)
  OBVIOUS
<1>10. Is(a)
  <2> HIDE DEF Is
  <2> QED BY <1>8, <1>9, Zenon
<1>11. a[0] = <<n>> /\ \A i \in 1..n : a[i] = a[i - 1] \o B(i)
  <2>1. 0 \in 0..n /\ \A i \in 1..n : i # 0 /\ i \in 0..n
    BY <1>1
  <2>2. \A i \in 0..n : a[i] = IF i = 0 THEN <<n>> ELSE a[i - 1] \o B(i)
    BY <1>10
  <2>3. a[0] = <<n>>
    BY <2>1, <2>2
  <2>4. \A i \in 1..n : a[i] = a[i - 1] \o B(i)
    BY <2>1, <2>2
  <2> QED BY <2>3, <2>4
<1> DEFINE o(i) == Len(a[i - 1])
           In(i) == /\ a[i] \in Seq(Int) /\ Len(a[i]) >= 1 /\ a[i][1] = n
                    /\ \A k \in 1..i : /\ o(k) \in Nat \ {0} /\ o(k) + W(k) <= Len(a[i])
                                       /\ \A j \in 1..W(k) : a[i][o(k) + j] = B(k)[j]
           P == {i \in 0..n : In(i)}
<1>12. 0 \in P
  <2>1. 0 \in 0..n /\ \A k \in 1..0 : FALSE
    BY <1>1
  <2>2. a[0] \in Seq(Int) /\ Len(a[0]) >= 1 /\ a[0][1] = n
    BY <1>5, <1>11
  <2>3. In(0)
    <3> HIDE DEF o
    <3> QED BY <2>1, <2>2
  <2> HIDE DEF In
  <2> QED BY <2>1, <2>3
<1>13. ASSUME NEW i \in 1..n, i - 1 \in P PROVE i \in P /\ Len(a[i]) = o(i) + W(i)
  <2> DEFINE s == a[i - 1]
  <2>1. In(i - 1) /\ i \in 0..n
    BY <1>1, <1>13
  <2>2. s \in Seq(Int) /\ Len(s) >= 1 /\ Len(s) \in Nat /\ s[1] = n /\ B(i) \in Seq(Int) /\ Len(B(i)) = W(i)
        /\ W(i) \in Nat
    BY <1>2, <2>1
  <2>3. a[i] = s \o B(i)
    BY <1>11
  <2> HIDE DEF s
  <2>4. /\ a[i] \in Seq(Int) /\ Len(a[i]) = Len(s) + W(i)
        /\ \A j \in 1..Len(s) : a[i][j] = s[j]
        /\ \A j \in 1..W(i) : a[i][Len(s) + j] = B(i)[j]
    <3>1. /\ s \o B(i) \in Seq(Int) /\ Len(s \o B(i)) = Len(s) + Len(B(i))
          /\ \A j \in 1..Len(s) : (s \o B(i))[j] = s[j]
          /\ \A j \in 1..Len(B(i)) : (s \o B(i))[Len(s) + j] = B(i)[j]
      <4> DEFINE t == B(i)
      <4>1. s \in Seq(Int) /\ t \in Seq(Int)
        BY <2>2
      <4> HIDE DEF t
      <4>2. /\ s \o t \in Seq(Int) /\ Len(s \o t) = Len(s) + Len(t)
            /\ \A j \in 1..Len(s) : (s \o t)[j] = s[j]
            /\ \A j \in 1..Len(t) : (s \o t)[Len(s) + j] = t[j]
        BY <4>1, Appended
      <4> QED BY <4>2 DEF t
    <3> QED BY <2>2, <2>3, <3>1
  <2>5. a[i][1] = n /\ Len(a[i]) >= 1
    <3>1. 1 \in 1..Len(s)
      BY <2>2
    <3> QED BY <2>2, <2>4, <3>1
  <2>6. ASSUME NEW k \in 1..i
        PROVE  /\ o(k) \in Nat \ {0} /\ o(k) + W(k) <= Len(a[i])
               /\ \A j \in 1..W(k) : a[i][o(k) + j] = B(k)[j]
    <3>1. CASE k = i
      <4>1. o(k) = Len(s)
        BY <3>1 DEF s
      <4>2. Len(s) \in Nat \ {0} /\ Len(s) + W(i) <= Len(a[i])
        BY <2>2, <2>4
      <4> HIDE DEF o
      <4> QED BY <2>4, <3>1, <4>1, <4>2
    <3>2. CASE k # i
      <4>1. k \in 1..(i - 1) /\ k \in 1..n
        BY <1>1, <3>2
      <4>2. /\ o(k) \in Nat \ {0} /\ o(k) + W(k) <= Len(s)
            /\ \A j \in 1..W(k) : s[o(k) + j] = B(k)[j]
        BY <2>1, <4>1 DEF s
      <4>3. W(k) \in Nat
        BY <1>2, <4>1
      <4> HIDE DEF o
      <4>4. \A j \in 1..W(k) : o(k) + j \in 1..Len(s)
        BY <2>2, <4>2, <4>3
      <4>5. o(k) + W(k) <= Len(a[i])
        BY <2>2, <2>4, <4>2, <4>3
      <4> QED BY <2>4, <4>2, <4>4, <4>5
    <3> QED BY <3>1, <3>2
  <2>7. Len(a[i]) = o(i) + W(i)
    BY <2>4 DEF s
  <2>8. In(i)
    <3> HIDE DEF o
    <3> QED BY <2>4, <2>5, <2>6
  <2> HIDE DEF In, o
  <2> QED BY <2>1, <2>7, <2>8
<1>14. \A i \in 0..n : i \in P
  <2>1. \A i \in 1..n : i - 1 \in P => i \in P
    BY <1>13
  <2> HIDE DEF P
  <2> QED BY <1>1, <1>12, <2>1, UpTo
<1>15. \A i \in 1..n : Len(a[i]) = o(i) + W(i)
  <2>1. \A i \in 1..n : i - 1 \in 0..n
    BY <1>1
  <2> HIDE DEF P, o
  <2> QED BY <1>13, <1>14, <2>1
<1>16. In(n)
  <2>1. n \in 0..n
    BY <1>1
  <2>2. n \in P
    BY <1>14, <2>1
  <2> HIDE DEF In
  <2> QED BY <2>2
<1> DEFINE q == [i \in 1..n |-> o(i)]
<1>17. q[1] = 1
  <2>1. 1 \in 1..n /\ 1 - 1 = 0
    BY <1>1
  <2> QED BY <1>5, <1>11, <2>1
<1>18. \A i \in 1..n : StoredAt(a[n], q[i], l[i])
  <2> SUFFICES ASSUME NEW i \in 1..n PROVE StoredAt(a[n], q[i], l[i])
    OBVIOUS
  <2>1. /\ o(i) \in Nat \ {0} /\ o(i) + W(i) <= Len(a[n])
        /\ \A j \in 1..W(i) : a[n][o(i) + j] = B(i)[j]
    BY <1>16
  <2>2. q[i] = o(i)
    OBVIOUS
  <2> HIDE DEF q, o
  <2>3. W(i) = 2 + 2 * Len(l[i].rsds) /\ B(i) = StoredPrsd(l[i]) /\ Len(l[i].rsds) \in Nat
    BY <1>1, StoredPrsdIs DEF W, B
  <2>4. o(i) + 2 + 2 * Len(l[i].rsds) <= Len(a[n])
    <3> DEFINE z == 2 * Len(l[i].rsds)
    <3>1. z \in Nat /\ W(i) = 2 + z /\ Len(a[n]) \in Nat
      BY <1>16, <2>3
    <3> HIDE DEF z
    <3>2. o(i) + 2 + z <= Len(a[n])
      BY <2>1, <3>1
    <3> QED BY <3>2 DEF z
  <2> QED BY <2>1, <2>2, <2>3, <2>4 DEF StoredAt
<1>19. ASSUME NEW i \in 1..n, i + 1 \in 1..n PROVE q[i + 1] = q[i] + 2 + 2 * Len(l[i].rsds)
  <2>1. q[i + 1] = Len(a[i]) /\ q[i] = o(i)
    <3>1. (i + 1) - 1 = i
      BY <1>1
    <3> QED BY <1>19, <3>1
  <2>2. Len(a[i]) = o(i) + W(i) /\ o(i) \in Nat
    BY <1>15, <1>16
  <2>3. W(i) = 2 + 2 * Len(l[i].rsds) /\ Len(l[i].rsds) \in Nat
    BY <1>1, StoredPrsdIs DEF W
  <2> HIDE DEF q, o
  <2>4. o(i) + W(i) = o(i) + 2 + 2 * Len(l[i].rsds)
    BY <2>2, <2>3
  <2> QED BY <2>1, <2>2, <2>4
<1>20. Placed(a[n], q, l)
  <2> HIDE DEF q
  <2> QED BY <1>16, <1>17, <1>18, <1>19 DEF Placed, n
<1> QED BY <1>3, <1>9, <1>20
-----------------------------------------------------------------------------
\* Where the depth, the start, the iterations and the strides of a PRSD are.
LEMMA StoredNumbers ==
  ASSUME NEW s \in Seq(Int), NEW o, NEW p \in Prsds, StoredAt(s, o, p)
  PROVE  LET n == Len(p.rsds)
         IN  /\ n \in Nat /\ s[o + 1] = -n /\ s[o + 2] = p.start
             /\ \A d \in 1..n : s[o + 1 + 2 * d] = p.rsds[d].iters /\ s[o + 2 + 2 * d] = p.rsds[d].stride
<1> DEFINE n == Len(p.rsds)
           b == StoredPrsd(p)
<1>1. /\ n \in Nat /\ b[1] = -n /\ b[2] = p.start
      /\ \A d \in 1..n : b[1 + 2 * d] = p.rsds[d].iters /\ b[2 + 2 * d] = p.rsds[d].stride
  BY StoredPrsdIs
<1>2. o \in Nat /\ \A j \in 1..(2 + 2 * n) : s[o + j] = b[j]
  BY DEF StoredAt
<1> HIDE DEF n, b
<1>3. s[o + 1] = -n
  <2>1. 1 \in 1..(2 + 2 * n)
    BY <1>1
  <2> QED BY <1>1, <1>2, <2>1
<1>4. s[o + 2] = p.start
  <2>1. 2 \in 1..(2 + 2 * n)
    BY <1>1
  <2> QED BY <1>1, <1>2, <2>1
<1>5. ASSUME NEW d \in 1..n
      PROVE  s[o + 1 + 2 * d] = p.rsds[d].iters /\ s[o + 2 + 2 * d] = p.rsds[d].stride
  <2>1. /\ 1 + 2 * d \in 1..(2 + 2 * n) /\ 2 + 2 * d \in 1..(2 + 2 * n)
        /\ o + (1 + 2 * d) = o + 1 + 2 * d /\ o + (2 + 2 * d) = o + 2 + 2 * d
    BY <1>1, <1>2
  <2>2. s[o + (1 + 2 * d)] = p.rsds[d].iters
    BY <1>1, <1>2, <2>1
  <2>3. s[o + (2 + 2 * d)] = p.rsds[d].stride
    BY <1>1, <1>2, <2>1
  <2> QED BY <2>1, <2>2, <2>3
<1> QED BY <1>1, <1>3, <1>4, <1>5 DEF n

\* hasMember comes from each PRSD of a list but the last to the next one.
LEMMA NextPrsdIs ==
  ASSUME NEW s \in Seq(Int), NEW o, NEW p \in Prsds, StoredAt(s, o, p), Grown(p),
         NEW q \in Prsds, StoredAt(s, o + 2 + 2 * Len(p.rsds), q), q.rsds # <<>>
  PROVE  NextPrsd(s, o + 1) = o + 2 + 2 * Len(p.rsds) + 1
<1> DEFINE n == Len(p.rsds)
           S == {i \in ((o + 1) + 3)..Len(s) : s[i] <= 0}
           t == o + 2 + 2 * n
<1>1. n \in Nat \ {0} /\ o \in Nat
  <2>1. p.rsds \in Seq(Sections) /\ p.rsds # <<>>
    BY DEF Prsds, Grown
  <2>2. o \in Nat
    BY DEF StoredAt
  <2> QED BY <2>1, <2>2
<1>2. \A d \in 1..n : p.rsds[d].iters >= 2 /\ p.rsds[d].stride >= 1
  BY <1>1 DEF Grown, Prsds
<1>3. \A d \in 1..n : s[o + 1 + 2 * d] = p.rsds[d].iters /\ s[o + 2 + 2 * d] = p.rsds[d].stride
  BY StoredNumbers
<1>4. Len(q.rsds) \in Nat \ {0} /\ t \in Nat /\ t + 2 + 2 * Len(q.rsds) <= Len(s) /\ s[t + 1] = -Len(q.rsds)
  <2>1. q.rsds \in Seq(Sections)
    BY DEF Prsds
  <2>2. Len(q.rsds) \in Nat \ {0}
    BY <2>1
  <2>3. t \in Nat /\ t + 2 + 2 * Len(q.rsds) <= Len(s)
    BY DEF StoredAt
  <2>4. s[t + 1] = -Len(q.rsds)
    <3> HIDE DEF t
    <3>1. StoredAt(s, t, q)
      BY DEF t
    <3> QED BY <3>1, StoredNumbers
  <2> QED BY <2>2, <2>3, <2>4
<1>5. t + 1 \in S
  <2> DEFINE z == Len(q.rsds)
  <2>1. z \in Nat \ {0} /\ t \in Nat /\ t + 2 + 2 * z <= Len(s) /\ s[t + 1] = -z /\ Len(s) \in Nat
    BY <1>4
  <2> HIDE DEF z
  <2>2. t + 1 <= Len(s) /\ -z <= 0
    <3> HIDE DEF t
    <3> QED BY <2>1
  <2>3. t + 1 >= (o + 1) + 3
    <3> HIDE DEF n
    <3> QED BY <1>1
  <2>4. t + 1 \in ((o + 1) + 3)..Len(s)
    <3> HIDE DEF t
    <3> QED BY <1>1, <2>1, <2>2, <2>3
  <2> QED BY <2>1, <2>2, <2>4
<1>6. ASSUME NEW i \in S PROVE t + 1 <= i
  <2>1. i \in Nat /\ i >= o + 4 /\ s[i] <= 0
    BY <1>1
  <2>2. SUFFICES ASSUME i < t + 1 PROVE FALSE
    BY <1>4, <2>1
  <2> DEFINE c == (i - o) - 2
  <2>3. c \in Nat /\ c >= 2 /\ c <= 2 * n /\ i = o + 2 + c
    <3> HIDE DEF n, S
    <3> QED BY <1>1, <2>1, <2>2
  <2> HIDE DEF c
  <2>4. PICK d \in 1..n : c = 2 * d \/ c = 2 * d - 1
    <3> DEFINE e == (c + 1) \div 2
    <3>1. e \in 1..n /\ (c = 2 * e \/ c = 2 * e - 1)
      BY <1>1, <2>3
    <3> HIDE DEF e
    <3> QED BY <3>1
  <2>5. i = o + 2 + 2 * d \/ i = o + 1 + 2 * d
    BY <1>1, <2>3, <2>4
  <2>6. p.rsds[d] \in Sections
    BY DEF Prsds
  <2>7. p.rsds[d].iters \in Nat /\ p.rsds[d].stride \in Nat
    BY <2>6 DEF Sections
  <2>8. s[i] = p.rsds[d].stride \/ s[i] = p.rsds[d].iters
    BY <1>3, <2>5
  <2>9. p.rsds[d].iters >= 2 /\ p.rsds[d].stride >= 1
    BY <1>2
  <2> QED BY <2>1, <2>7, <2>8, <2>9
<1>7. S \subseteq Nat
  BY <1>1
<1> HIDE DEF S, t
<1>8. Min(S) = t + 1
  <2>1. S # {}
    BY <1>5
  <2>2. Min(S) \in S /\ \A j \in S : Min(S) <= j
    BY <1>7, <2>1, Smallest
  <2>3. Min(S) \in Nat /\ t \in Nat
    BY <1>4, <1>7, <2>2
  <2>4. Min(S) <= t + 1 /\ t + 1 <= Min(S)
    BY <1>5, <1>6, <2>2
  <2> QED BY <2>3, <2>4
<1>9. NextPrsd(s, o + 1) = Min(S)
  BY DEF NextPrsd, S
<1> QED BY <1>8, <1>9 DEF t, n

\* A PRSD is read as it was stored.
LEMMA PrsdAtIs ==
  ASSUME NEW s \in Seq(Int), NEW o, NEW p \in Prsds, StoredAt(s, o, p)
  PROVE  PrsdAt(s, o + 1) = p
<1> DEFINE n == Len(p.rsds)
           h == o + 1
<1>1. /\ n \in Nat /\ s[o + 1] = -n /\ s[o + 2] = p.start /\ o \in Nat
      /\ \A d \in 1..n : s[o + 1 + 2 * d] = p.rsds[d].iters /\ s[o + 2 + 2 * d] = p.rsds[d].stride
  BY StoredNumbers DEF StoredAt
<1>2. p.rsds \in Seq(Sections) /\ p = [start |-> p.start, rsds |-> p.rsds]
  BY DEF Prsds
<1>3. \A d \in 1..n : p.rsds[d] = Section(p.rsds[d].iters, p.rsds[d].stride)
  <2>1. \A d \in 1..n : p.rsds[d] \in Sections
    BY <1>2
  <2>2. \A r \in Sections : r = Section(r.iters, r.stride)
    BY DEF Sections, Section
  <2> QED BY <2>1, <2>2
<1> HIDE DEF n
<1>4. -s[h] = n /\ s[h + 1] = p.start
  BY <1>1
<1>5. ASSUME NEW d \in 1..n PROVE Section(s[h + 2 * d], s[h + 2 * d + 1]) = p.rsds[d]
  <2>1. h + 2 * d = o + 1 + 2 * d /\ h + 2 * d + 1 = o + 2 + 2 * d
    BY <1>1
  <2>2. s[h + 2 * d] = p.rsds[d].iters /\ s[h + 2 * d + 1] = p.rsds[d].stride
    BY <1>1, <2>1
  <2> HIDE DEF h
  <2> QED BY <1>3, <2>2
<1>6. [d \in 1..n |-> Section(s[h + 2 * d], s[h + 2 * d + 1])] = p.rsds
  <2>1. p.rsds = [d \in 1..n |-> p.rsds[d]]
    BY <1>2 DEF n
  <2> HIDE DEF h
  <2> QED BY <1>5, <2>1
<1>7. PrsdAt(s, h) = Prsd(s[h + 1], [d \in 1..(-s[h]) |-> Section(s[h + 2 * d], s[h + 2 * d + 1])])
  BY DEF PrsdAt
<1> HIDE DEF h
<1>8. PrsdAt(s, h) = Prsd(p.start, p.rsds)
  BY <1>4, <1>6, <1>7
<1> QED BY <1>2, <1>8 DEF h, Prsd
-----------------------------------------------------------------------------
\* hasMember finds a rank just if it is among those of the list.
LEMMA HasMemberIs ==
  ASSUME NEW l, ListOK(l), NEW r
  PROVE  HasMember(r, l) <=> r \in ToSet(Unrolled(l))
<1> DEFINE n == Len(l)
           s == Stored(l)
           Is(h) == h = [k \in 1..s[1] |-> IF k = 1 THEN 2 ELSE NextPrsd(s, h[k - 1])]
<1>1. /\ l \in Lists /\ l # <<>> /\ n \in Nat \ {0} /\ \A i \in 1..n : l[i] \in Prsds
      /\ \A i \in 1..n : Grown(l[i]) \/ (i = n /\ l[i] = Singleton(l[i].start))
  BY DEF ListOK, Lists
<1>2. PICK o : Placed(s, o, l)
  BY <1>1, StoredIs
<1> HIDE DEF s
<1>3. /\ s \in Seq(Int) /\ s[1] = n /\ o[1] = 1 /\ \A i \in 1..n : StoredAt(s, o[i], l[i])
      /\ \A i \in 1..n : i + 1 \in 1..n => o[i + 1] = o[i] + 2 + 2 * Len(l[i].rsds)
  BY <1>2 DEF Placed
<1> HIDE DEF n
<1>4. \A i \in 1..n : l[i].rsds # <<>>
  <2> SUFFICES ASSUME NEW i \in 1..n PROVE l[i].rsds # <<>>
    OBVIOUS
  <2>1. CASE Grown(l[i])
    BY <2>1 DEF Grown
  <2>2. CASE l[i] = Singleton(l[i].start)
    <3>1. l[i].rsds = <<Section(1, 0)>>
      BY <2>2 DEF Singleton, Prsd
    <3> QED BY <3>1
  <2> QED BY <1>1, <2>1, <2>2
<1>5. \A i \in 1..n : i + 1 \in 1..n => NextPrsd(s, o[i] + 1) = o[i + 1] + 1
  <2> SUFFICES ASSUME NEW i \in 1..n, i + 1 \in 1..n PROVE NextPrsd(s, o[i] + 1) = o[i + 1] + 1
    OBVIOUS
  <2>1. i # n
    BY <1>1
  <2>2. Grown(l[i]) /\ l[i] \in Prsds /\ l[i + 1] \in Prsds /\ l[i + 1].rsds # <<>>
    BY <1>1, <1>4, <2>1
  <2>3. StoredAt(s, o[i], l[i]) /\ StoredAt(s, o[i + 1], l[i + 1]) /\ o[i + 1] = o[i] + 2 + 2 * Len(l[i].rsds)
    BY <1>3
  <2>4. NextPrsd(s, o[i] + 1) = o[i] + 2 + 2 * Len(l[i].rsds) + 1
    BY <1>3, <2>2, <2>3, NextPrsdIs
  <2> QED BY <2>3, <2>4
<1> DEFINE g == [k \in 1..n |-> o[k] + 1]
<1>6. Is(g)
  <2>1. \A k \in 1..n : g[k] = IF k = 1 THEN 2 ELSE NextPrsd(s, g[k - 1])
    <3> SUFFICES ASSUME NEW k \in 1..n PROVE g[k] = IF k = 1 THEN 2 ELSE NextPrsd(s, g[k - 1])
      OBVIOUS
    <3>1. CASE k = 1
      BY <1>3, <3>1
    <3>2. CASE k # 1
      <4>1. k - 1 \in 1..n /\ (k - 1) + 1 = k
        BY <1>1, <3>2
      <4>2. NextPrsd(s, o[k - 1] + 1) = o[k] + 1
        BY <1>5, <4>1
      <4> QED BY <3>2, <4>1, <4>2
    <3> QED BY <3>1, <3>2
  <2>2. g = [k \in 1..n |-> g[k]]
    OBVIOUS
  <2> HIDE DEF g
  <2> QED BY <1>3, <2>1, <2>2
<1>7. PICK h : h = CHOOSE f : Is(f)
  OBVIOUS
<1>8. Is(h)
  <2> HIDE DEF Is, g
  <2> QED BY <1>6, <1>7, Zenon
<1>9. \A k \in 1..n : h[k] = IF k = 1 THEN 2 ELSE NextPrsd(s, h[k - 1])
  BY <1>3, <1>8
<1>10. DOMAIN h = 1..n
  BY <1>3, <1>8
<1>11. \A k \in 1..n : h[k] = o[k] + 1
  <2> DEFINE P == {m \in 0..(n - 1) : h[m + 1] = o[m + 1] + 1}
  <2>1. 0 \in P
    <3>1. 0 + 1 = 1 /\ 0 \in 0..(n - 1) /\ 1 \in 1..n
      BY <1>1
    <3>2. h[1] = 2 /\ o[1] + 1 = 2
      BY <1>3, <1>9, <3>1
    <3> QED BY <3>1, <3>2
  <2>2. ASSUME NEW m \in 1..(n - 1), m - 1 \in P PROVE m \in P
    <3>1. m \in 0..(n - 1) /\ (m - 1) + 1 = m /\ m + 1 \in 1..n /\ m \in 1..n /\ (m + 1) - 1 = m /\ m + 1 # 1
      BY <1>1
    <3>2. h[m] = o[m] + 1
      BY <2>2, <3>1
    <3>3. h[m + 1] = NextPrsd(s, h[m])
      BY <1>9, <3>1
    <3>4. h[m + 1] = o[m + 1] + 1
      BY <1>5, <3>1, <3>2, <3>3
    <3> QED BY <3>1, <3>4
  <2>3. \A m \in 0..(n - 1) : m \in P
    <3>1. n - 1 \in Nat
      BY <1>1
    <3> HIDE DEF P
    <3> QED BY <2>1, <2>2, <3>1, UpTo
  <2>4. \A k \in 1..n : k - 1 \in 0..(n - 1) /\ (k - 1) + 1 = k
    BY <1>1
  <2> QED BY <2>3, <2>4
<1>12. Heads(s) = h
  BY <1>7 DEF Heads
<1>13. \A k \in 1..n : PrsdAt(s, Heads(s)[k]) = l[k]
  BY <1>1, <1>3, <1>11, <1>12, PrsdAtIs
<1>14. r \in ToSet(Unrolled(l)) <=> \E i \in 1..n : r \in ToSet(Unroll(l[i]))
  BY <1>1, UnrolledSet DEF n
<1>15. HasMember(r, l) <=> \E k \in DOMAIN Heads(s) : r \in ToSet(Unroll(PrsdAt(s, Heads(s)[k])))
  BY DEF HasMember, s
<1>16. DOMAIN Heads(s) = 1..n
  BY <1>10, <1>12
<1> QED BY <1>13, <1>14, <1>15, <1>16
-----------------------------------------------------------------------------
(* The lists of the ranks. *)

\* A rank holds a list of the ranks merged into it, or none any more.
Held(l, S, n) ==
  \/ S # {} /\ n = Cardinality(S) /\ Holds(l, S, n)
  \/ S = {} /\ n = 0 /\ l = <<>>

\* The strengthening of ListsExact that every merge preserves: what a rank
\* holds, and that no rank is in two lists.
ListsInv ==
  /\ list \in [Ranks -> Lists] /\ numRanks \in [Ranks -> Nat] /\ members \in [Ranks -> SUBSET Ranks]
  /\ \A x \in Ranks : Held(list[x], members[x], numRanks[x])
  /\ \A x, y \in Ranks : x # y => members[x] \cap members[y] = {}

\* The ranks of a list come out ascending, whatever the order of its PRSDs.
LEMMA HoldsSorted ==
  ASSUME NEW l, NEW S, S \subseteq Ranks, Holds(l, S, Cardinality(S))
  PROVE  Decompress(l) = Ascending(S)
<1>1. Unrolled(l) \in Seq(Nat) /\ ToSet(Unrolled(l)) = S /\ Len(Unrolled(l)) = Cardinality(S)
  BY UnrolledSet DEF Holds, ListOK
<1> QED BY <1>1, SortedIs DEF Decompress

\* The merge of two lists holds the ranks of both.
LEMMA MergeListsHolds ==
  ASSUME NEW l1, NEW S1, NEW l2, NEW S2, S1 \subseteq Ranks, S2 \subseteq Ranks, S1 \cap S2 = {}, S1 # {},
         Holds(l1, S1, Cardinality(S1)), Holds(l2, S2, Cardinality(S2))
  PROVE  /\ Holds(MergeLists(l1, l2), S1 \cup S2, Cardinality(S1 \cup S2))
         /\ Cardinality(S1 \cup S2) = Cardinality(S1) + Cardinality(S2)
<1> DEFINE S == S1 \cup S2
           s == Ascending(S)
<1>1. IsFiniteSet(S1) /\ IsFiniteSet(S2) /\ IsFiniteSet(S) /\ {S1, S2, S} \subseteq SUBSET Nat
  BY RanksAssumption, FS_Subset
<1>2. ToSet(Decompress(l1)) = S1 /\ ToSet(Decompress(l2)) = S2
  BY <1>1, HoldsSorted, AscendingIs
<1>3. MergeLists(l1, l2) = Build(s)
  BY <1>2 DEF MergeLists
<1>4. Cardinality(S) = Cardinality(S1) + Cardinality(S2) /\ Cardinality(S) \in Nat
  <2>1. Cardinality(S) = Cardinality(S1) + Cardinality(S2) - Cardinality(S1 \cap S2)
    BY <1>1, FS_Union
  <2>2. Cardinality(S1 \cap S2) = 0
    BY FS_EmptySet
  <2>3. Cardinality(S1) \in Nat /\ Cardinality(S2) \in Nat
    BY <1>1, FS_CardinalityType
  <2> HIDE DEF S
  <2> QED BY <2>1, <2>2, <2>3
<1>5. /\ s \in Seq(Nat) /\ Len(s) = Cardinality(S) /\ ToSet(s) = S
      /\ \A i, j \in 1..Len(s) : i < j => s[i] < s[j]
  <2> HIDE DEF S
  <2> QED BY <1>1, AscendingIs
<1> HIDE DEF s
<1>6. s # <<>>
  <2>1. S # {}
    OBVIOUS
  <2>2. Cardinality(S) # 0
    <3> HIDE DEF S
    <3> QED BY <1>1, <2>1, FS_EmptySet
  <2>3. Len(<<>>) = 0
    OBVIOUS
  <2> HIDE DEF S
  <2> QED BY <1>5, <2>2, <2>3
<1>7. Holds(Build(s), S, Cardinality(S))
  <2> HIDE DEF S
  <2>1. Holds(Build(s), ToSet(s), Len(s))
    BY <1>5, <1>6, BuildHolds
  <2> QED BY <1>5, <2>1
<1> QED BY <1>3, <1>4, <1>7

\* Every rank starts with a list of its own.
LEMMA ListsInit == Init => ListsInv
<1> SUFFICES ASSUME Init PROVE ListsInv
  OBVIOUS
<1>1. \A r \in Ranks : r \in Nat /\ Cardinality({r}) = 1 /\ Holds(<<Singleton(r)>>, {r}, 1)
  BY RanksAssumption, OneHolds, FS_Singleton
<1>2. \A r \in Ranks : <<Singleton(r)>> \in Lists
  BY <1>1 DEF Holds, ListOK
<1>3. list = [r \in Ranks |-> <<Singleton(r)>>] /\ numRanks = [r \in Ranks |-> 1] /\ members = [r \in Ranks |-> {r}]
  BY DEF Init
<1>4. list \in [Ranks -> Lists] /\ numRanks \in [Ranks -> Nat] /\ members \in [Ranks -> SUBSET Ranks]
  BY <1>2, <1>3
<1>5. \A r \in Ranks : Held(list[r], members[r], numRanks[r])
  BY <1>1, <1>3 DEF Held
<1>6. \A x, y \in Ranks : x # y => members[x] \cap members[y] = {}
  BY <1>3
<1> QED BY <1>4, <1>5, <1>6 DEF ListsInv

\* A merge hands the ranks of one list to the other (Ranklist::merge).
LEMMA ListsStep == ListsInv /\ [Next]_vars => ListsInv'
<1> SUFFICES ASSUME ListsInv, [Next]_vars PROVE ListsInv'
  OBVIOUS
<1>1. /\ list \in [Ranks -> Lists] /\ numRanks \in [Ranks -> Nat] /\ members \in [Ranks -> SUBSET Ranks]
      /\ \A x \in Ranks : Held(list[x], members[x], numRanks[x])
      /\ \A x, y \in Ranks : x # y => members[x] \cap members[y] = {}
  BY DEF ListsInv
<1>2. ASSUME NEW x \in Ranks, NEW y \in Ranks, x # y, Merge(x, y) PROVE ListsInv'
  <2> DEFINE merged == MergeLists(list[x], list[y])
             S == members[x] \cup members[y]
             n == numRanks[x] + numRanks[y]
  <2>1. /\ list[x] # <<>> /\ list[y] # <<>>
        /\ list' = [list EXCEPT ![x] = merged, ![y] = <<>>]
        /\ numRanks' = [numRanks EXCEPT ![x] = n, ![y] = 0]
        /\ members' = [members EXCEPT ![x] = S, ![y] = {}]
    BY <1>1, <1>2 DEF Merge
  <2>2. /\ members[x] # {} /\ numRanks[x] = Cardinality(members[x]) /\ Holds(list[x], members[x], numRanks[x])
        /\ members[y] # {} /\ numRanks[y] = Cardinality(members[y]) /\ Holds(list[y], members[y], numRanks[y])
    BY <1>1, <2>1 DEF Held
  <2>3. Holds(merged, S, Cardinality(S)) /\ Cardinality(S) = n
    <3>1. members[x] \subseteq Ranks /\ members[y] \subseteq Ranks /\ members[x] \cap members[y] = {}
      BY <1>1, <1>2
    <3> QED BY <2>2, <3>1, MergeListsHolds
  <2>4. S \subseteq Ranks /\ S # {} /\ n \in Nat /\ merged \in Lists /\ <<>> \in Lists /\ {} \subseteq Ranks
    <3>1. merged \in Lists
      BY <2>3 DEF Holds, ListOK
    <3>2. S \subseteq Ranks /\ S # {} /\ n \in Nat
      BY <1>1, <2>2
    <3>3. <<>> \in Lists
      BY DEF Lists
    <3> QED BY <3>1, <3>2, <3>3
  <2>5. \A z \in Ranks : z # x /\ z # y => members[z] \cap S = {}
    BY <1>1
  <2> HIDE DEF merged, S, n
  <2>6. list' \in [Ranks -> Lists] /\ numRanks' \in [Ranks -> Nat] /\ members' \in [Ranks -> SUBSET Ranks]
    BY <1>1, <2>1, <2>4
  <2>7. /\ list'[x] = merged /\ members'[x] = S /\ numRanks'[x] = n
        /\ list'[y] = <<>> /\ members'[y] = {} /\ numRanks'[y] = 0
        /\ \A z \in Ranks : z # x /\ z # y =>
             list'[z] = list[z] /\ members'[z] = members[z] /\ numRanks'[z] = numRanks[z]
    BY <1>1, <1>2, <2>1
  <2>8. ASSUME NEW z \in Ranks PROVE Held(list'[z], members'[z], numRanks'[z])
    <3>1. CASE z = x
      BY <2>3, <2>4, <2>7, <3>1 DEF Held
    <3>2. CASE z = y
      BY <2>7, <3>2 DEF Held
    <3>3. CASE z # x /\ z # y
      BY <1>1, <2>7, <3>3
    <3> QED BY <3>1, <3>2, <3>3
  <2>9. ASSUME NEW z \in Ranks, NEW w \in Ranks, z # w PROVE members'[z] \cap members'[w] = {}
    <3>1. CASE z = y \/ w = y
      BY <2>7, <3>1
    <3>2. CASE z = x /\ w # y
      BY <2>5, <2>7, <2>9, <3>2
    <3>3. CASE w = x /\ z # y
      BY <2>5, <2>7, <2>9, <3>3
    <3>4. CASE z # x /\ z # y /\ w # x /\ w # y
      BY <1>1, <2>7, <2>9, <3>4
    <3> QED BY <3>1, <3>2, <3>3, <3>4
  <2> QED BY <2>6, <2>8, <2>9 DEF ListsInv
<1>3. CASE UNCHANGED vars
  BY <1>1, <1>3 DEF vars, ListsInv
<1> QED BY <1>2, <1>3 DEF Next

\* What the lists of every state give.
LEMMA ListsGive == ListsInv => TypeOK /\ ExpandsToMembers /\ MembershipExact /\ CountsExact
<1> SUFFICES ASSUME ListsInv PROVE TypeOK /\ ExpandsToMembers /\ MembershipExact /\ CountsExact
  OBVIOUS
<1>1. /\ list \in [Ranks -> Lists] /\ numRanks \in [Ranks -> Nat] /\ members \in [Ranks -> SUBSET Ranks]
      /\ \A x \in Ranks : Held(list[x], members[x], numRanks[x])
  BY DEF ListsInv
<1>2. ASSUME NEW x \in Holders
      PROVE  /\ x \in Ranks /\ members[x] \subseteq Ranks /\ numRanks[x] = Cardinality(members[x])
             /\ Holds(list[x], members[x], Cardinality(members[x]))
             /\ ListOK(list[x]) /\ list[x] \in Lists
  <2>1. x \in Ranks /\ list[x] # <<>> /\ members[x] \subseteq Ranks
    BY <1>1 DEF Holders
  <2>2. numRanks[x] = Cardinality(members[x]) /\ Holds(list[x], members[x], Cardinality(members[x]))
    BY <1>1, <2>1 DEF Held
  <2> QED BY <2>1, <2>2 DEF Holds, ListOK
<1>3. TypeOK
  <2>1. numRanks \in [Ranks -> 0..Cardinality(Ranks)]
    <3> SUFFICES ASSUME NEW x \in Ranks PROVE numRanks[x] \in 0..Cardinality(Ranks)
      BY <1>1
    <3>1. numRanks[x] \in Nat /\ members[x] \subseteq Ranks
      BY <1>1
    <3>2. Cardinality(Ranks) \in Nat /\ Cardinality(members[x]) <= Cardinality(Ranks)
      BY <3>1, RanksAssumption, FS_Subset, FS_CardinalityType
    <3>3. numRanks[x] = Cardinality(members[x]) \/ numRanks[x] = 0
      BY <1>1 DEF Held
    <3> QED BY <3>1, <3>2, <3>3
  <2>2. ASSUME NEW x \in Holders, NEW p \in ToSet(list[x])
        PROVE  /\ p.start \in Ranks
               /\ \/ p = Singleton(p.start)
                  \/ \A d \in DOMAIN p.rsds : p.rsds[d].iters >= 2 /\ p.rsds[d].stride >= 1
    <3>1. ListOK(list[x]) /\ list[x] \in Lists /\ ToSet(Unrolled(list[x])) \subseteq Ranks
      BY <1>2 DEF Holds
    <3>2. PICK i \in 1..Len(list[x]) : p = list[x][i]
      <4>1. DOMAIN list[x] = 1..Len(list[x])
        BY <3>1 DEF Lists
      <4> QED BY <2>2, <4>1 DEF ToSet
    <3>3. p.start \in Ranks
      BY <3>1, <3>2, StartsIn
    <3>4. Grown(p) \/ p = Singleton(p.start)
      BY <3>1, <3>2 DEF ListOK
    <3> QED BY <3>3, <3>4 DEF Grown
  <2> QED BY <1>1, <2>1, <2>2 DEF TypeOK
<1>4. ExpandsToMembers
  BY <1>2, HoldsSorted DEF ExpandsToMembers
<1>5. MembershipExact
  <2> SUFFICES ASSUME NEW x \in Holders, NEW r \in Ranks PROVE HasMember(r, list[x]) <=> r \in members[x]
    BY DEF MembershipExact
  <2>1. ListOK(list[x]) /\ ToSet(Unrolled(list[x])) = members[x]
    BY <1>2 DEF Holds
  <2> QED BY <2>1, HasMemberIs
<1>6. CountsExact
  <2> SUFFICES ASSUME NEW x \in Holders
               PROVE  numRanks[x] = Cardinality(members[x]) /\ MemberCount(list[x]) = numRanks[x]
    BY DEF CountsExact
  <2>1. list[x] \in Lists /\ Len(Unrolled(list[x])) = Cardinality(members[x])
    BY <1>2 DEF Holds
  <2> QED BY <1>2, <2>1, MemberCountIs
<1> QED BY <1>3, <1>4, <1>5, <1>6

\* However the merges of the traces are ordered, a list expands to the ranks
\* merged into it, each once and ascending, and hasMember, the counter and
\* memberCount agree with it (Ranklist.C).
THEOREM ListsStayExact == EncSpec => []ListsExact
<1> DEFINE I == which = "Ranklist" => ListsInv
<1>1. EncInit => I
  BY ListsInit DEF EncInit
<1>2. I /\ [EncNext]_<<which, ranklistVars, endpointVars, packingVars, histogramVars>> => I'
  <2> SUFFICES ASSUME I, [EncNext]_<<which, ranklistVars, endpointVars, packingVars, histogramVars>>,
                      which' = "Ranklist"
               PROVE  ListsInv'
    OBVIOUS
  <2>1. which = "Ranklist" /\ [Next]_vars
    BY DEF EncNext, ranklistVars
  <2> QED BY <2>1, ListsStep
<1>3. I => ListsExact
  BY ListsGive DEF ListsExact
<1> QED BY <1>1, <1>2, <1>3, PTL DEF EncSpec
-----------------------------------------------------------------------------
(* The peers of messages. *)

\* The remainder is that of the nearest multiple.
LEMMA RemSmall ==
  ASSUME NEW a \in Int, NEW size \in Nat \ {0}
  PROVE  /\ E!Rem(a, size) \in Int
         /\ a >= 0 /\ a < size => E!Rem(a, size) = a
         /\ a >= size /\ a < 2 * size => E!Rem(a, size) = a - size
         /\ a >= 0 => E!Rem(a, size) >= 0 /\ E!Rem(a, size) < size
         /\ a < 0 => E!Rem(a, size) <= 0 /\ E!Rem(a, size) > -size
BY DEF E!Rem

\* The remainder of the mathematicians does not change with the modulus added.
LEMMA ModPeriodic ==
  ASSUME NEW a \in Int, NEW size \in Nat \ {0}, a > -size, a < size
  PROVE  (a + size) % size = a % size
<1>1. a % size = IF a >= 0 THEN a ELSE a + size
  OBVIOUS
<1>2. (a + size) % size = IF a >= 0 THEN a ELSE a + size
  OBVIOUS
<1> QED BY <1>1, <1>2

\* A distance added to the rank it was taken from leads back to a rank
\* (ENCODE_DEST, DECODE_DEST).
LEMMA RankKept ==
  ASSUME NEW size \in Nat \ {0}, NEW rank \in 0..(size - 1), NEW value \in 0..(size - 1)
  PROVE  /\ E!Distance(value, rank, size) \in 0..(size - 1)
         /\ E!FromDistance(E!Distance(value, rank, size), rank, size) = value
<1>1. CASE value >= rank
  <2>1. E!Distance(value, rank, size) = value - rank
    BY <1>1, RemSmall DEF E!Distance
  <2> QED BY <1>1, <2>1, RemSmall DEF E!FromDistance
<1>2. CASE value < rank
  <2>1. E!Distance(value, rank, size) = value - rank + size
    BY <1>2, RemSmall DEF E!Distance
  <2> QED BY <1>2, <2>1, RemSmall DEF E!FromDistance
<1> QED BY <1>1, <1>2

\* A value that is no rank never comes back: what comes back is a rank, or
\* nearer to zero than the value was.
LEMMA OthersChanged ==
  ASSUME NEW size \in Nat \ {0}, NEW rank \in 0..(size - 1), NEW value \in Int,
         value \notin 0..(size - 1)
  PROVE  /\ E!Distance(value, rank, size) \in Int /\ E!Distance(value, rank, size) < size
         /\ E!FromDistance(E!Distance(value, rank, size), rank, size) # value
<1> DEFINE d == E!Distance(value, rank, size)
<1>1. CASE value - rank + size >= 0
  <2>1. d >= 0 /\ d < size /\ d \in Int
    BY <1>1, RemSmall DEF E!Distance
  <2>2. E!FromDistance(d, rank, size) >= 0 /\ E!FromDistance(d, rank, size) < size
    BY <2>1, RemSmall DEF E!FromDistance
  <2> QED BY <2>1, <2>2
<1>2. CASE value - rank + size < 0
  <2>1. d <= 0 /\ d > -size /\ d \in Int
    BY <1>2, RemSmall DEF E!Distance
  <2>2. CASE d + rank >= 0
    BY <2>1, <2>2, <1>2, RemSmall DEF E!FromDistance
  <2>3. CASE d + rank < 0
    <3>1. -(d + rank) \in 0..(size - 1)
      BY <2>1, <2>3
    <3>2. E!FromDistance(d, rank, size) = d + rank
      BY <2>1, <2>3, <3>1, RemSmall DEF E!FromDistance, E!Rem
    <3> QED BY <2>1, <3>2, <1>2
  <2> QED BY <2>1, <2>2, <2>3
<1> QED BY <1>1, <1>2
-----------------------------------------------------------------------------
\* What is known of a call once it is recorded, and once it is replayed.
CallInv ==
  /\ my_size \in Sizes
  /\ kind \in {"source", "dest", "key"}
  /\ peers \in [E!AllRanks -> E!Passed(kind, my_size)]
  /\ recorded # <<>> => recorded = [r \in E!AllRanks |-> E!Encode(kind, peers[r], r, my_size)]
  /\ replayed # <<>> => replayed = [r \in E!AllRanks |->
       E!Decode(kind, E!Encode(kind, peers[r], r, my_size), r, my_size)]

\* Recording and replaying a call give it.
LEMMA CallStep == CallInv /\ (E!Next \/ UNCHANGED endpointVars) => CallInv'
<1> SUFFICES ASSUME CallInv, E!Next \/ UNCHANGED endpointVars PROVE CallInv'
  OBVIOUS
<1> USE DEF CallInv, E!AllRanks
<1>1. CASE E!Record
  BY <1>1 DEF E!Record
<1>2. CASE E!Replay
  BY <1>2 DEF E!Replay
<1>3. CASE UNCHANGED endpointVars
  BY <1>3 DEF endpointVars
<1> QED BY <1>1, <1>2, <1>3 DEF E!Next

\* Ranks and MPI_ANY_SOURCE come back to the rank that passed them, and only
\* they do.
LEMMA RanksComeBack == CallInv => E!OwnPeerBack
<1> SUFFICES ASSUME CallInv, replayed # <<>>, NEW r \in E!AllRanks
             PROVE  (peers[r] \in E!AllRanks \/ (kind = "source" /\ peers[r] = AnySource))
                      <=> replayed[r] = peers[r]
  BY DEF E!OwnPeerBack
<1> DEFINE v == peers[r]
<1>1. /\ my_size \in Nat \ {0} /\ my_size < IntMax
      /\ r \in 0..(my_size - 1) /\ E!AllRanks = 0..(my_size - 1)
      /\ v \in Int
      /\ {AnySource, ProcNull, IntMax} \subseteq Int /\ AnySource < 0
  BY EncodingsAssumption DEF CallInv, E!ConstantsOK, E!WildcardsOK, E!AllRanks, E!Passed
<1>2. replayed[r] = E!Decode(kind, E!Encode(kind, v, r, my_size), r, my_size)
  BY DEF CallInv
<1>3. CASE kind = "source" /\ v = AnySource
  BY <1>2, <1>3 DEF E!Encode, E!Decode
<1>4. CASE ~(kind = "source" /\ v = AnySource)
  <2>1. E!Encode(kind, v, r, my_size) = E!Distance(v, r, my_size)
    BY <1>4 DEF E!Encode
  <2>2. E!Distance(v, r, my_size) \in Int /\ E!Distance(v, r, my_size) < my_size
    <3>1. CASE v \in 0..(my_size - 1)
      <4>1. E!Distance(v, r, my_size) \in 0..(my_size - 1)
        BY <1>1, <3>1, RankKept
      <4> QED BY <1>1, <4>1
    <3>2. CASE v \notin 0..(my_size - 1)
      BY <1>1, <3>2, OthersChanged
    <3> QED BY <3>1, <3>2
  <2>3. replayed[r] = E!FromDistance(E!Distance(v, r, my_size), r, my_size)
    BY <1>1, <1>2, <2>1, <2>2 DEF E!Decode, E!OP_ANY_SOURCE
  <2>4. v \in E!AllRanks => replayed[r] = v
    BY <1>1, <2>3, RankKept
  <2>5. v \notin E!AllRanks => replayed[r] # v
    BY <1>1, <2>3, OthersChanged
  <2> QED BY <1>4, <2>4, <2>5
<1> QED BY <1>3, <1>4

\* Ranks whose peers are at the same distance record the same.
LEMMA SamePatternRecordsSame == CallInv => E!SamePatternSameValue
<1> SUFFICES ASSUME CallInv, recorded # <<>>, NEW r \in E!AllRanks, NEW q \in E!AllRanks,
                    peers[r] \in E!AllRanks, peers[q] \in E!AllRanks,
                    (peers[r] - r) % my_size = (peers[q] - q) % my_size
             PROVE  recorded[r] = recorded[q]
  BY DEF E!SamePatternSameValue
<1>1. my_size \in Nat \ {0} /\ E!AllRanks = 0..(my_size - 1) /\ AnySource \in Int /\ AnySource < 0
  BY EncodingsAssumption DEF CallInv, E!ConstantsOK, E!WildcardsOK, E!AllRanks
<1>2. \A x \in 0..(my_size - 1), y \in 0..(my_size - 1) :
        E!Distance(y, x, my_size) = (y - x) % my_size
  <2> SUFFICES ASSUME NEW x \in 0..(my_size - 1), NEW y \in 0..(my_size - 1)
               PROVE  E!Distance(y, x, my_size) = (y - x) % my_size
    OBVIOUS
  <2>1. E!Distance(y, x, my_size) = (y - x + my_size) % my_size
    BY <1>1 DEF E!Distance, E!Rem
  <2>2. y - x \in Int /\ y - x > -my_size /\ y - x < my_size
    BY <1>1
  <2> QED BY <1>1, <2>1, <2>2, ModPeriodic
<1>3. /\ recorded[r] = E!Distance(peers[r], r, my_size)
      /\ recorded[q] = E!Distance(peers[q], q, my_size)
  BY <1>1 DEF CallInv, E!Encode
<1> QED BY <1>1, <1>2, <1>3

\* Each rank's own peer or MPI_ANY_SOURCE comes back, and only those, whatever
\* the number of ranks; ranks with peers at the same distance record one value
\* (ENCODE_SOURCE, DECODE_SOURCE, ENCODE_DEST, DECODE_DEST in Event.h).
THEOREM PeersStayKept == EncSpec => []PeersKept
<1> DEFINE I == which = "Endpoints" => CallInv
<1>1. EncInit => I
  BY DEF EncInit, E!Init, CallInv
<1>2. I /\ [EncNext]_<<which, ranklistVars, endpointVars, packingVars, histogramVars>> => I'
  <2> SUFFICES ASSUME I, [EncNext]_<<which, ranklistVars, endpointVars, packingVars, histogramVars>>,
                      which' = "Endpoints"
               PROVE  CallInv'
    OBVIOUS
  <2>1. which = "Endpoints" /\ (E!Next \/ UNCHANGED endpointVars)
    BY DEF EncNext
  <2> QED BY <2>1, CallStep
<1>3. I => PeersKept
  BY RanksComeBack, SamePatternRecordsSame DEF PeersKept, E!PeersKept
<1> QED BY <1>1, <1>2, <1>3, PTL DEF EncSpec
-----------------------------------------------------------------------------
(* The bins of a histogram. *)

\* A bin holds its values: what is known of their sum is what a bin of these
\* extremes may have.
GoodBin(b) ==
  /\ b \in H!Bins /\ b.start <= b.end
  /\ b.freq = 0 => b.sum = 0
  /\ b.freq > 0 => /\ b.start <= b.min /\ b.min <= b.max /\ b.max <= b.end
                   /\ b.min * (b.freq - 1) + b.max <= b.sum
                   /\ b.sum <= b.min + b.max * (b.freq - 1)

\* The two forms of a product that the bounds of a sum need.
LEMMA OneMore ==
  ASSUME NEW x \in Nat, NEW n \in Nat, n > 0
  PROVE  x * n = x * (n - 1) + x /\ x * n \in Nat /\ x * (n - 1) \in Nat
<1>1. \A k \in Nat : x * (k + 1) = x * k + x
  OBVIOUS
<1>2. n - 1 \in Nat /\ (n - 1) + 1 = n
  OBVIOUS
<1>3. x * ((n - 1) + 1) = x * (n - 1) + x
  BY <1>1, <1>2
<1>4. \A k \in Nat : x * k \in Nat
  OBVIOUS
<1> QED BY <1>2, <1>3, <1>4

\* Products keep the order.
LEMMA LessTimes ==
  ASSUME NEW x \in Nat, NEW y \in Nat, x <= y, NEW n \in Nat
  PROVE  x * n <= y * n
<1>1. PICK d \in Nat : y = x + d
  <2>1. y - x \in Nat /\ y = x + (y - x)
    OBVIOUS
  <2> QED BY <2>1
<1>2. y * n = x * n + d * n
  BY <1>1
<1>3. d * n \in Nat /\ x * n \in Nat
  OBVIOUS
<1> QED BY <1>2, <1>3

\* The fields of a bin after a value is added.
LEMMA BinAddFields ==
  ASSUME NEW b \in H!Bins, NEW v
  PROVE  H!BinAdd(b, v) =
           [start |-> b.start, end |-> b.end,
            min |-> IF b.freq = 0 \/ v < b.min THEN v ELSE b.min,
            max |-> IF b.freq = 0 \/ v > b.max THEN v ELSE b.max,
            sum |-> b.sum + v, freq |-> b.freq + 1]
<1> DEFINE lo == IF b.freq = 0 \/ v < b.min THEN v ELSE b.min
           hi == IF b.freq = 0 \/ v > b.max THEN v ELSE b.max
           total == b.sum + v
           count == b.freq + 1
<1>1. H!BinAdd(b, v) = [b EXCEPT !.min = lo, !.max = hi, !.sum = total, !.freq = count]
  BY DEF H!BinAdd
<1> HIDE DEF lo, hi, total, count
<1>2. H!BinAdd(b, v) =
        [start |-> b.start, end |-> b.end, min |-> lo, max |-> hi, sum |-> total, freq |-> count]
  BY <1>1 DEF H!Bins
<1> QED BY <1>2 DEF lo, hi, total, count

\* And of two bins in one.
LEMMA BinMergeFields ==
  ASSUME NEW b \in H!Bins, NEW o
  PROVE  H!BinMerge(b, o) =
           [start |-> b.start, end |-> o.end,
            min |-> IF b.freq = 0 /\ o.freq > 0 THEN o.min ELSE b.min,
            max |-> IF o.freq > 0 THEN o.max ELSE b.max,
            sum |-> b.sum + o.sum, freq |-> b.freq + o.freq]
<1> DEFINE last == o.end
           lo == IF b.freq = 0 /\ o.freq > 0 THEN o.min ELSE b.min
           hi == IF o.freq > 0 THEN o.max ELSE b.max
           total == b.sum + o.sum
           count == b.freq + o.freq
<1>1. H!BinMerge(b, o) = [b EXCEPT !.end = last, !.min = lo, !.max = hi, !.sum = total, !.freq = count]
  BY DEF H!BinMerge
<1> HIDE DEF last, lo, hi, total, count
<1>2. H!BinMerge(b, o) =
        [start |-> b.start, end |-> last, min |-> lo, max |-> hi, sum |-> total, freq |-> count]
  BY <1>1 DEF H!Bins
<1> QED BY <1>2 DEF last, lo, hi, total, count

\* A value is added within its bin (HistoBin::add).
LEMMA BinAddIs ==
  ASSUME NEW b, GoodBin(b), NEW v \in Nat, b.start <= v, v <= b.end
  PROVE  LET c == H!BinAdd(b, v)
         IN  /\ GoodBin(c) /\ c.start = b.start /\ c.end = b.end /\ c.freq = b.freq + 1
             /\ c.min = IF b.freq = 0 \/ v < b.min THEN v ELSE b.min
             /\ c.max = IF b.freq = 0 \/ v > b.max THEN v ELSE b.max
<1> DEFINE c == H!BinAdd(b, v)
           lo == IF b.freq = 0 \/ v < b.min THEN v ELSE b.min
           hi == IF b.freq = 0 \/ v > b.max THEN v ELSE b.max
<1>1. /\ b \in H!Bins /\ b.start <= b.end
      /\ b.freq = 0 => b.sum = 0
      /\ b.freq > 0 => /\ b.start <= b.min /\ b.min <= b.max /\ b.max <= b.end
                       /\ b.min * (b.freq - 1) + b.max <= b.sum
                       /\ b.sum <= b.min + b.max * (b.freq - 1)
  BY DEF GoodBin
<1>2. b.start \in Nat /\ b.end \in Nat /\ b.min \in Nat /\ b.max \in Nat /\ b.sum \in Nat /\ b.freq \in Nat
  BY <1>1 DEF H!Bins
<1>3. lo \in Nat /\ hi \in Nat
  BY <1>2
<1>4. c = [start |-> b.start, end |-> b.end, min |-> lo, max |-> hi, sum |-> b.sum + v, freq |-> b.freq + 1]
  BY <1>1, BinAddFields DEF c
<1> HIDE DEF c
<1>5. c \in H!Bins
  <2>1. b.sum + v \in Nat /\ b.freq + 1 \in Nat
    BY <1>2
  <2> HIDE DEF lo, hi
  <2> QED BY <1>2, <1>3, <1>4, <2>1 DEF H!Bins
<1>6. /\ c.start = b.start /\ c.end = b.end /\ c.min = lo /\ c.max = hi
      /\ c.sum = b.sum + v /\ c.freq = b.freq + 1
  BY <1>4
<1>7. b.start <= lo /\ lo <= hi /\ hi <= b.end /\ lo <= v /\ v <= hi
  BY <1>1, <1>2
<1>8. lo * b.freq + hi <= b.sum + v /\ b.sum + v <= lo + hi * b.freq
  <2>1. CASE b.freq = 0
    <3>1. lo = v /\ hi = v /\ b.sum = 0
      BY <1>1, <2>1
    <3> QED BY <1>2, <2>1, <3>1
  <2>2. CASE b.freq > 0
    <3>1. /\ b.min * b.freq = b.min * (b.freq - 1) + b.min
          /\ b.max * b.freq = b.max * (b.freq - 1) + b.max
          /\ b.min * (b.freq - 1) \in Nat /\ b.max * (b.freq - 1) \in Nat
      BY <1>2, <2>2, OneMore
    <3>2. lo <= b.min /\ b.max <= hi
      BY <1>2, <2>2
    <3>3. lo * b.freq <= b.min * b.freq /\ b.max * b.freq <= hi * b.freq /\ lo * b.freq \in Nat /\ hi * b.freq \in Nat
      <4>1. \A x \in Nat, y \in Nat : x * y \in Nat
        OBVIOUS
      <4> HIDE DEF lo, hi
      <4> QED BY <1>2, <1>3, <3>2, <4>1, LessTimes
    <3>4. b.min * (b.freq - 1) + b.max <= b.sum /\ b.sum <= b.min + b.max * (b.freq - 1)
      BY <1>1, <2>2
    <3> DEFINE A == b.min * (b.freq - 1)
               B == b.max * (b.freq - 1)
               C == b.min * b.freq
               D == b.max * b.freq
               L == lo * b.freq
               U == hi * b.freq
    <3>5. /\ A \in Nat /\ B \in Nat /\ C \in Nat /\ D \in Nat /\ L \in Nat /\ U \in Nat
          /\ C = A + b.min /\ D = B + b.max /\ L <= C /\ D <= U
          /\ A + b.max <= b.sum /\ b.sum <= b.min + B
      <4> HIDE DEF lo, hi
      <4>1. A \in Nat /\ B \in Nat /\ L \in Nat /\ U \in Nat
        BY <3>1, <3>3
      <4>2. C = A + b.min /\ D = B + b.max /\ L <= C /\ D <= U
        BY <3>1, <3>3
      <4>3. A + b.max <= b.sum /\ b.sum <= b.min + B
        BY <3>4
      <4>4. C \in Nat /\ D \in Nat
        <5> HIDE DEF A, B, C, D
        <5> QED BY <1>2, <4>1, <4>2
      <4> HIDE DEF A, B, C, D, L, U
      <4> QED BY <4>1, <4>2, <4>3, <4>4
    <3> HIDE DEF A, B, C, D, L, U
    <3>6. L + hi <= b.sum + v
      <4>1. CASE v > b.max
        <5>1. hi = v
          BY <4>1, <2>2
        <5>2. L <= b.sum
          <6> HIDE DEF lo, hi
          <6> QED BY <1>1, <1>2, <2>2, <3>5
        <5> HIDE DEF lo, hi
        <5> QED BY <1>2, <1>3, <3>5, <5>1, <5>2
      <4>2. CASE ~(v > b.max) /\ v < b.min
        <5>1. hi = b.max /\ lo = v
          BY <4>2, <2>2
        <5>2. L = v * (b.freq - 1) + v /\ v * (b.freq - 1) <= A
          <6>1. v * b.freq = v * (b.freq - 1) + v
            BY <1>2, <2>2, OneMore
          <6>2. v <= b.min /\ b.freq - 1 \in Nat
            BY <1>2, <2>2, <4>2
          <6>3. v * (b.freq - 1) <= b.min * (b.freq - 1)
            BY <1>2, <6>2, LessTimes
          <6> HIDE DEF lo, hi
          <6> QED BY <5>1, <6>1, <6>3 DEF L, A
        <5>3. v * (b.freq - 1) \in Nat
          BY <1>2, <2>2, OneMore
        <5> HIDE DEF lo, hi
        <5> QED BY <1>2, <3>5, <5>1, <5>2, <5>3
      <4>3. CASE ~(v > b.max) /\ ~(v < b.min)
        <5>1. hi = b.max /\ lo = b.min
          BY <4>3, <2>2
        <5> HIDE DEF lo, hi
        <5> QED BY <1>2, <3>5, <4>3, <5>1
      <4> QED BY <4>1, <4>2, <4>3
    <3>7. b.sum + v <= lo + U
      <4>1. CASE v < b.min
        <5>1. lo = v
          BY <4>1, <2>2
        <5> HIDE DEF lo, hi
        <5>2. b.sum <= U
          BY <1>1, <1>2, <2>2, <3>5
        <5> QED BY <1>2, <1>3, <3>5, <5>1, <5>2
      <4>2. CASE ~(v < b.min) /\ v > b.max
        <5>1. hi = v /\ lo = b.min
          BY <4>2, <2>2
        <5>2. U = v * (b.freq - 1) + v /\ B <= v * (b.freq - 1)
          <6>1. v * b.freq = v * (b.freq - 1) + v
            BY <1>2, <2>2, OneMore
          <6>2. b.max <= v /\ b.freq - 1 \in Nat
            BY <1>2, <2>2, <4>2
          <6>3. b.max * (b.freq - 1) <= v * (b.freq - 1)
            BY <1>2, <6>2, LessTimes
          <6> HIDE DEF lo, hi
          <6> QED BY <5>1, <6>1, <6>3 DEF U, B
        <5>3. v * (b.freq - 1) \in Nat
          BY <1>2, <2>2, OneMore
        <5> HIDE DEF lo, hi
        <5> QED BY <1>2, <3>5, <5>1, <5>2, <5>3
      <4>3. CASE ~(v < b.min) /\ ~(v > b.max)
        <5>1. hi = b.max /\ lo = b.min
          BY <4>3, <2>2
        <5> HIDE DEF lo, hi
        <5> QED BY <1>2, <3>5, <4>3, <5>1
      <4> QED BY <4>1, <4>2, <4>3
    <3> QED BY <3>6, <3>7 DEF L, U
  <2> QED BY <1>2, <2>1, <2>2
<1>9. GoodBin(c)
  <2>1. c.freq - 1 = b.freq /\ c.freq > 0
    BY <1>2, <1>6
  <2> HIDE DEF lo, hi
  <2>2. c.min * (c.freq - 1) + c.max <= c.sum /\ c.sum <= c.min + c.max * (c.freq - 1)
    BY <1>6, <1>8, <2>1
  <2> QED BY <1>1, <1>2, <1>5, <1>6, <1>7, <2>1, <2>2 DEF GoodBin
<1> QED BY <1>6, <1>9 DEF c

\* Two neighbours become one bin (HistoBin::merge).
LEMMA BinMergeIs ==
  ASSUME NEW b, GoodBin(b), NEW o, GoodBin(o), b.end = o.start
  PROVE  LET c == H!BinMerge(b, o)
         IN  /\ GoodBin(c) /\ c.start = b.start /\ c.end = o.end /\ c.freq = b.freq + o.freq
             /\ c.min = IF b.freq = 0 /\ o.freq > 0 THEN o.min ELSE b.min
             /\ c.max = IF o.freq > 0 THEN o.max ELSE b.max
<1> DEFINE c == H!BinMerge(b, o)
           lo == IF b.freq = 0 /\ o.freq > 0 THEN o.min ELSE b.min
           hi == IF o.freq > 0 THEN o.max ELSE b.max
<1>1. \A p \in {b, o} :
        /\ p \in H!Bins /\ p.start <= p.end
        /\ p.freq = 0 => p.sum = 0
        /\ p.freq > 0 => /\ p.start <= p.min /\ p.min <= p.max /\ p.max <= p.end
                         /\ p.min * (p.freq - 1) + p.max <= p.sum
                         /\ p.sum <= p.min + p.max * (p.freq - 1)
  BY DEF GoodBin
<1>2. /\ b.start \in Nat /\ b.end \in Nat /\ b.min \in Nat /\ b.max \in Nat /\ b.sum \in Nat /\ b.freq \in Nat
      /\ o.start \in Nat /\ o.end \in Nat /\ o.min \in Nat /\ o.max \in Nat /\ o.sum \in Nat /\ o.freq \in Nat
  BY <1>1 DEF H!Bins
<1>3. lo \in Nat /\ hi \in Nat
  BY <1>2
<1>4. c = [start |-> b.start, end |-> o.end, min |-> lo, max |-> hi, sum |-> b.sum + o.sum, freq |-> b.freq + o.freq]
  BY <1>1, BinMergeFields DEF c
<1> HIDE DEF c
<1>5. c \in H!Bins
  <2>1. b.sum + o.sum \in Nat /\ b.freq + o.freq \in Nat
    BY <1>2
  <2> HIDE DEF lo, hi
  <2> QED BY <1>2, <1>3, <1>4, <2>1 DEF H!Bins
<1>6. /\ c.start = b.start /\ c.end = o.end /\ c.min = lo /\ c.max = hi
      /\ c.sum = b.sum + o.sum /\ c.freq = b.freq + o.freq
  BY <1>4
<1>7. b.start <= o.end
  BY <1>1, <1>2
<1>8. CASE b.freq = 0 /\ o.freq = 0
  <2>1. c.freq = 0 /\ c.sum = 0
    BY <1>1, <1>6, <1>8
  <2> QED BY <1>5, <1>6, <1>7, <2>1 DEF GoodBin, c
<1>9. CASE b.freq = 0 /\ o.freq > 0
  <2>1. c.freq = o.freq /\ c.sum = o.sum /\ c.min = o.min /\ c.max = o.max /\ b.start <= o.start
    BY <1>1, <1>2, <1>6, <1>9
  <2>2. b.start <= o.min
    BY <1>1, <1>2, <1>9, <2>1
  <2> QED BY <1>1, <1>5, <1>6, <1>7, <1>9, <2>1, <2>2 DEF GoodBin, c
<1>10. CASE b.freq > 0 /\ o.freq = 0
  <2>1. c.freq = b.freq /\ c.sum = b.sum /\ c.min = b.min /\ c.max = b.max /\ b.end <= o.end
    BY <1>1, <1>2, <1>6, <1>10
  <2>2. b.max <= o.end
    BY <1>1, <1>2, <1>10, <2>1
  <2> QED BY <1>1, <1>5, <1>6, <1>7, <1>10, <2>1, <2>2 DEF GoodBin, c
<1>11. CASE b.freq > 0 /\ o.freq > 0
  <2>1. lo = b.min /\ hi = o.max
    BY <1>11, <1>2
  <2>2. b.min <= o.min /\ b.max <= o.max /\ b.min <= o.max /\ b.max <= o.min
    BY <1>1, <1>2, <1>11
  <2>3. /\ b.min * (b.freq - 1) + b.max <= b.sum /\ b.sum <= b.min + b.max * (b.freq - 1)
        /\ o.min * (o.freq - 1) + o.max <= o.sum /\ o.sum <= o.min + o.max * (o.freq - 1)
    BY <1>1, <1>11
  <2> DEFINE f == b.freq - 1
             g == o.freq - 1
  <2>4. f \in Nat /\ g \in Nat /\ (b.freq + o.freq) - 1 = f + g + 1
    BY <1>2, <1>11
  <2> HIDE DEF f, g
  <2>5. /\ b.min * (f + g + 1) = b.min * f + b.min * g + b.min
        /\ o.max * (f + g + 1) = o.max * f + o.max * g + o.max
    BY <1>2, <2>4
  <2>6. b.min * g <= o.min * g /\ b.max * f <= o.max * f
    BY <1>2, <2>2, <2>4, LessTimes
  <2>7. /\ b.min * f \in Nat /\ b.min * g \in Nat /\ o.min * g \in Nat
        /\ o.max * f \in Nat /\ o.max * g \in Nat /\ b.max * f \in Nat
    <3>1. \A x \in Nat, y \in Nat : x * y \in Nat
      OBVIOUS
    <3> QED BY <1>2, <2>4, <3>1
  <2>8. b.min * (f + g + 1) + o.max <= b.sum + o.sum
    <3>1. b.min * f + b.max <= b.sum /\ o.min * g + o.max <= o.sum
      BY <2>3 DEF f, g
    <3>2. b.min <= b.max
      BY <1>1, <1>11
    <3> QED BY <1>2, <2>2, <2>5, <2>6, <2>7, <3>1, <3>2
  <2>9. b.sum + o.sum <= b.min + o.max * (f + g + 1)
    <3>1. b.sum <= b.min + b.max * f /\ o.sum <= o.min + o.max * g
      BY <2>3 DEF f, g
    <3>2. o.min <= o.max
      BY <1>1, <1>11
    <3> QED BY <1>2, <2>2, <2>5, <2>6, <2>7, <3>1, <3>2
  <2>10. b.start <= b.min /\ o.max <= o.end
    BY <1>1, <1>11
  <2>11. c.freq > 0 /\ c.freq # 0
    BY <1>2, <1>6, <1>11
  <2>12. c.freq - 1 = f + g + 1
    BY <1>6, <2>4
  <2>13. c.min = b.min /\ c.max = o.max
    BY <1>6, <2>1
  <2>14. GoodBin(c)
    <3>1. c.min * (c.freq - 1) + c.max <= c.sum /\ c.sum <= c.min + c.max * (c.freq - 1)
      BY <1>6, <2>8, <2>9, <2>12, <2>13
    <3> QED BY <1>5, <1>6, <1>7, <2>2, <2>10, <2>11, <2>13, <3>1 DEF GoodBin
  <2> QED BY <1>6, <2>14 DEF c
<1> QED BY <1>2, <1>8, <1>9, <1>10, <1>11

\* n bins, each beginning where the one before ends.
Chain(bins, n) ==
  /\ bins \in Seq(H!Bins) /\ Len(bins) = n
  /\ \A i \in 1..n : GoodBin(bins[i]) /\ bins[i].start = IF i = 1 THEN 0 ELSE bins[i - 1].end

\* The numbers of a good bin.
LEMMA BinNumbers ==
  ASSUME NEW b, GoodBin(b)
  PROVE  /\ b \in H!Bins
         /\ b.start \in Nat /\ b.end \in Nat /\ b.min \in Nat /\ b.max \in Nat
         /\ b.sum \in Nat /\ b.freq \in Nat
         /\ b.start <= b.end
         /\ b.freq > 0 => b.start <= b.min /\ b.min <= b.max /\ b.max <= b.end
BY DEF GoodBin, H!Bins

\* Bins are in ascending order.
LEMMA ChainOrder ==
  ASSUME NEW n \in Nat, NEW bins, Chain(bins, n), NEW i \in 1..n, NEW k \in 1..n, i < k
  PROVE  bins[i].end <= bins[k].start
<1> DEFINE P == {d \in 0..n : i + d + 1 <= n => bins[i].end <= bins[i + d + 1].start}
<1>1. \A j \in 1..n : /\ bins[j].start \in Nat /\ bins[j].end \in Nat /\ bins[j].start <= bins[j].end
                      /\ bins[j].start = IF j = 1 THEN 0 ELSE bins[j - 1].end
  <2> SUFFICES ASSUME NEW j \in 1..n
               PROVE  /\ bins[j].start \in Nat /\ bins[j].end \in Nat /\ bins[j].start <= bins[j].end
                      /\ bins[j].start = IF j = 1 THEN 0 ELSE bins[j - 1].end
    OBVIOUS
  <2>1. GoodBin(bins[j]) /\ bins[j].start = IF j = 1 THEN 0 ELSE bins[j - 1].end
    BY DEF Chain
  <2> QED BY <2>1, BinNumbers
<1>2. 0 \in P
  <2> SUFFICES ASSUME i + 0 + 1 <= n PROVE bins[i].end <= bins[i + 0 + 1].start
    OBVIOUS
  <2>1. i + 0 + 1 = i + 1 /\ i + 1 \in 1..n /\ i + 1 # 1 /\ (i + 1) - 1 = i
    OBVIOUS
  <2>2. bins[i + 1].start = bins[i].end
    BY <1>1, <2>1
  <2> QED BY <1>1, <2>1, <2>2
<1>3. ASSUME NEW d \in 1..n, d - 1 \in P PROVE d \in P
  <2> SUFFICES ASSUME i + d + 1 <= n PROVE bins[i].end <= bins[i + d + 1].start
    OBVIOUS
  <2>1. /\ i + d \in 1..n /\ i + d + 1 \in 1..n /\ i + d + 1 # 1 /\ (i + d + 1) - 1 = i + d
        /\ i + (d - 1) + 1 = i + d
    OBVIOUS
  <2>2. bins[i].end <= bins[i + d].start
    BY <1>3, <2>1
  <2>3. bins[i + d + 1].start = bins[i + d].end
    BY <1>1, <2>1
  <2> QED BY <1>1, <2>1, <2>2, <2>3
<1>4. PICK d \in 0..n : i + d + 1 = k
  <2>1. k - i - 1 \in 0..n /\ i + (k - i - 1) + 1 = k
    OBVIOUS
  <2> QED BY <2>1
<1>5. d \in P
  <2> HIDE DEF P
  <2> QED BY <1>2, <1>3, UpTo
<1>6. i + d + 1 <= n => bins[i].end <= bins[i + d + 1].start
  BY <1>5
<1> QED BY <1>4, <1>6

\* A value that no bin takes is above them all (Histogram::find_bin).
LEMMA NoBinAbove ==
  ASSUME NEW n \in Nat \ {0}, NEW bins, Chain(bins, n), NEW v \in Nat, H!FindBin(bins, v) = {}
  PROVE  bins[n].end < v
<1> DEFINE P == {k \in 0..n : k > 0 => bins[k].end < v}
<1>1. \A j \in 1..n : /\ bins[j].start \in Nat /\ bins[j].end \in Nat
                      /\ bins[j].start = IF j = 1 THEN 0 ELSE bins[j - 1].end
                      /\ ~(bins[j].start <= v /\ v <= bins[j].end)
  <2> SUFFICES ASSUME NEW j \in 1..n
               PROVE  /\ bins[j].start \in Nat /\ bins[j].end \in Nat
                      /\ bins[j].start = IF j = 1 THEN 0 ELSE bins[j - 1].end
                      /\ ~(bins[j].start <= v /\ v <= bins[j].end)
    OBVIOUS
  <2>1. GoodBin(bins[j]) /\ bins[j].start = IF j = 1 THEN 0 ELSE bins[j - 1].end
    BY DEF Chain
  <2>2. j \in DOMAIN bins
    BY DEF Chain
  <2>3. ~(bins[j].start <= v /\ v <= bins[j].end)
    BY <2>2 DEF H!FindBin
  <2> QED BY <2>1, <2>3, BinNumbers
<1>2. 0 \in P
  OBVIOUS
<1>3. ASSUME NEW k \in 1..n, k - 1 \in P PROVE k \in P
  <2>1. bins[k].start <= v
    <3>1. CASE k = 1
      BY <1>1, <3>1
    <3>2. CASE k # 1
      <4>1. k - 1 \in 1..n /\ k - 1 > 0
        BY <3>2
      <4>2. bins[k - 1].end < v /\ bins[k].start = bins[k - 1].end
        BY <1>1, <1>3, <3>2, <4>1
      <4> QED BY <1>1, <4>1, <4>2
    <3> QED BY <3>1, <3>2
  <2> QED BY <1>1, <2>1
<1>4. \A k \in 0..n : k \in P
  <2> HIDE DEF P
  <2> QED BY <1>2, <1>3, UpTo
<1> QED BY <1>4
-----------------------------------------------------------------------------
(* Smoothing. *)

\* The order of numbers, and that of fractions.
LEMMA StrictTimes ==
  ASSUME NEW x \in Int, NEW y \in Int, NEW n \in Nat \ {0}
  PROVE  x < y <=> x * n < y * n
<1>1. \A a \in Int : \A d \in Int : d > 0 => a * n < (a + d) * n
  <2> SUFFICES ASSUME NEW a \in Int, NEW d \in Int, d > 0 PROVE a * n < (a + d) * n
    OBVIOUS
  <2>1. (a + d) * n = a * n + d * n
    OBVIOUS
  <2>2. d * n > 0 /\ d * n \in Int /\ a * n \in Int
    OBVIOUS
  <2> QED BY <2>1, <2>2
<1>2. ASSUME x < y PROVE x * n < y * n
  <2>1. y - x \in Int /\ y - x > 0 /\ x + (y - x) = y
    BY <1>2
  <2> QED BY <1>1, <2>1
<1>3. ASSUME ~(x < y) PROVE ~(x * n < y * n)
  <2>1. CASE x = y
    BY <2>1
  <2>2. CASE x # y
    <3>1. x - y \in Int /\ x - y > 0 /\ y + (x - y) = x
      BY <1>3, <2>2
    <3>2. y * n < x * n
      BY <1>1, <3>1
    <3>3. y * n \in Int /\ x * n \in Int
      OBVIOUS
    <3> QED BY <3>2, <3>3
  <2> QED BY <2>1, <2>2
<1> QED BY <1>2, <1>3

\* A fraction below another is below what is not below that.
LEMMA FractionOrder ==
  ASSUME NEW a \in Int, NEW b \in Nat \ {0}, NEW c \in Int, NEW d \in Nat \ {0}, NEW e \in Int, NEW f \in Nat \ {0},
         a * d < c * b, ~(e * d < c * f)
  PROVE  a * f < e * b
<1> DEFINE p == a * d
           q == c * b
           r == c * f
           s == e * d
<1>1. p \in Int /\ q \in Int /\ r \in Int /\ s \in Int
  OBVIOUS
<1>2. p * f < q * f
  <2>1. p < q
    OBVIOUS
  <2> HIDE DEF p, q
  <2> QED BY <1>1, <2>1, StrictTimes
<1>3. ~(s * b < r * b)
  <2>1. ~(s < r)
    OBVIOUS
  <2> HIDE DEF r, s
  <2> QED BY <1>1, <2>1, StrictTimes
<1>4. q * f = r * b
  OBVIOUS
<1>5. p * f = (a * f) * d /\ s * b = (e * b) * d
  OBVIOUS
<1>6. p * f \in Int /\ q * f \in Int /\ s * b \in Int /\ r * b \in Int /\ a * f \in Int /\ e * b \in Int
  OBVIOUS
<1>7. (a * f) * d < (e * b) * d
  <2> HIDE DEF p, q, r, s
  <2> QED BY <1>2, <1>3, <1>4, <1>5, <1>6
<1> DEFINE u == a * f
           w == e * b
<1> HIDE DEF u, w
<1> QED BY <1>6, <1>7, StrictTimes DEF u, w

\* How far the averages of two neighbours are apart.
Gap(bins, k) == bins[k + 1].sum * H!Weight(bins[k]) - bins[k].sum * H!Weight(bins[k + 1])
Den(bins, k) == H!Weight(bins[k]) * H!Weight(bins[k + 1])

\* Two neighbours are the first of the closest.
Closest(bins, n, i) == \A j \in 1..n : ~H!Closer(bins, j, i) /\ (j < i => H!Closer(bins, i, j))

\* Some are.
LEMMA ClosestExists ==
  ASSUME NEW n \in Nat \ {0}, NEW bins, Chain(bins, n + 1)
  PROVE  \E i \in 1..n : Closest(bins, n, i)
<1> DEFINE P == {m \in 0..n : m > 0 => \E i \in 1..m : Closest(bins, m, i)}
<1>1. \A k \in 1..n : Gap(bins, k) \in Int /\ Den(bins, k) \in Nat \ {0}
  <2> SUFFICES ASSUME NEW k \in 1..n PROVE Gap(bins, k) \in Int /\ Den(bins, k) \in Nat \ {0}
    OBVIOUS
  <2>1. k \in 1..(n + 1) /\ k + 1 \in 1..(n + 1)
    OBVIOUS
  <2>2. GoodBin(bins[k]) /\ GoodBin(bins[k + 1])
    BY <2>1 DEF Chain
  <2>3. /\ bins[k].sum \in Nat /\ bins[k + 1].sum \in Nat
        /\ H!Weight(bins[k]) \in Nat \ {0} /\ H!Weight(bins[k + 1]) \in Nat \ {0}
    BY <2>2, BinNumbers DEF H!Weight
  <2>4. \A x \in Nat, y \in Nat, v \in Nat \ {0}, w \in Nat \ {0} : x * v - y * w \in Int /\ v * w \in Nat \ {0}
    OBVIOUS
  <2> QED BY <2>3, <2>4 DEF Gap, Den
<1>2. \A i, j : H!Closer(bins, i, j) <=> Gap(bins, i) * Den(bins, j) < Gap(bins, j) * Den(bins, i)
  BY DEF H!Closer, Gap, Den
<1>3. ASSUME NEW i \in 1..n, NEW j \in 1..n, NEW k \in 1..n, H!Closer(bins, i, j), ~H!Closer(bins, k, j)
      PROVE  H!Closer(bins, i, k)
  BY <1>1, <1>2, <1>3, FractionOrder
<1>4. ASSUME NEW i \in 1..n PROVE ~H!Closer(bins, i, i)
  <2>1. Gap(bins, i) * Den(bins, i) \in Int
    BY <1>1
  <2> QED BY <1>2, <2>1
<1>5. ASSUME NEW i \in 1..n, NEW j \in 1..n, H!Closer(bins, i, j) PROVE ~H!Closer(bins, j, i)
  <2>1. Gap(bins, i) * Den(bins, j) \in Int /\ Gap(bins, j) * Den(bins, i) \in Int
    BY <1>1
  <2> QED BY <1>2, <1>5, <2>1
<1>6. 0 \in P
  OBVIOUS
<1>7. ASSUME NEW m \in 1..n, m - 1 \in P PROVE m \in P
  <2>1. CASE m = 1
    <3>1. \A j \in 1..1 : j = 1
      OBVIOUS
    <3>2. Closest(bins, m, m)
      BY <1>4, <2>1, <3>1 DEF Closest
    <3> QED BY <3>2
  <2>2. CASE m # 1
    <3>1. PICK i \in 1..(m - 1) : Closest(bins, m - 1, i)
      BY <1>7, <2>2
    <3>2. i \in 1..n /\ m \in 1..n /\ i \in 1..m /\ m \in 1..m /\ i < m /\ \A j \in 1..m : j = m \/ j \in 1..(m - 1)
      OBVIOUS
    <3>3. \A j \in 1..(m - 1) : j \in 1..n /\ j < m
      OBVIOUS
    <3>4. CASE H!Closer(bins, m, i)
      <4>1. ASSUME NEW j \in 1..(m - 1) PROVE H!Closer(bins, m, j) /\ ~H!Closer(bins, j, m)
        <5>1. ~H!Closer(bins, j, i)
          BY <3>1 DEF Closest
        <5>2. H!Closer(bins, m, j)
          BY <1>3, <3>2, <3>3, <3>4, <5>1
        <5> QED BY <1>5, <3>2, <3>3, <5>2
      <4>2. Closest(bins, m, m)
        BY <1>4, <3>2, <4>1 DEF Closest
      <4> QED BY <3>2, <4>2
    <3>5. CASE ~H!Closer(bins, m, i)
      <4>1. Closest(bins, m, i)
        BY <3>1, <3>2, <3>5 DEF Closest
      <4> QED BY <3>2, <4>1
    <3> QED BY <3>4, <3>5
  <2> QED BY <2>1, <2>2
<1>8. \A m \in 0..n : m \in P
  <2> HIDE DEF P
  <2> QED BY <1>6, <1>7, UpTo
<1> QED BY <1>8

\* Two neighbours are merged (Histogram::smooth).
LEMMA SmoothIs ==
  ASSUME NEW n \in Nat \ {0}, NEW bins, Chain(bins, n + 1)
  PROVE  \E at \in 1..n :
           H!Smooth(bins) = [i \in 1..n |-> IF i < at THEN bins[i]
                                            ELSE IF i = at THEN H!BinMerge(bins[i], bins[i + 1])
                                            ELSE bins[i + 1]]
<1> DEFINE Is(m, i) == \A j \in 1..m : ~H!Closer(bins, j, i) /\ (j < i => H!Closer(bins, i, j))
           Bins(m, at) == [i \in 1..m |-> CASE i < at -> bins[i]
                                            [] i = at -> H!BinMerge(bins[i], bins[i + 1])
                                            [] i > at -> bins[i + 1]]
           m == Len(bins) - 1
<1>1. m = n
  BY DEF Chain
<1>2. H!Smooth(bins) = Bins(m, CHOOSE i \in 1..m : Is(m, i))
  BY DEF H!Smooth
<1> HIDE DEF m
<1>3. PICK at : at = CHOOSE i \in 1..n : Is(n, i)
  OBVIOUS
<1>4. at \in 1..n /\ H!Smooth(bins) = Bins(n, at)
  <2>1. \E i \in 1..n : Is(n, i)
    BY ClosestExists DEF Closest
  <2> HIDE DEF Is
  <2>2. at \in 1..n
    BY <1>3, <2>1, Zenon
  <2> HIDE DEF Bins
  <2> QED BY <1>1, <1>2, <1>3, <2>2
<1>5. ASSUME NEW i \in 1..n
      PROVE  (CASE i < at -> bins[i] [] i = at -> H!BinMerge(bins[i], bins[i + 1]) [] i > at -> bins[i + 1])
             = IF i < at THEN bins[i] ELSE IF i = at THEN H!BinMerge(bins[i], bins[i + 1]) ELSE bins[i + 1]
  BY <1>4
<1>6. H!Smooth(bins) = [i \in 1..n |-> IF i < at THEN bins[i]
                                        ELSE IF i = at THEN H!BinMerge(bins[i], bins[i + 1])
                                        ELSE bins[i + 1]]
  BY <1>4, <1>5
<1> QED BY <1>4, <1>6

\* A function on 1..n is a sequence.
LEMMA IsSequence ==
  ASSUME NEW S, NEW n \in Nat, NEW f \in [1..n -> S]
  PROVE  f \in Seq(S) /\ Len(f) = n
OBVIOUS

\* The values of bins reach from lo to hi.
Spans(bins, n, lo, hi) ==
  /\ \A i \in 1..n : bins[i].freq > 0 => lo <= bins[i].min /\ bins[i].max <= hi
  /\ \E i \in 1..n : bins[i].freq > 0 /\ bins[i].min = lo
  /\ \E i \in 1..n : bins[i].freq > 0 /\ bins[i].max = hi

\* How many values five bins hold.
Count(bins) == bins[1].freq + bins[2].freq + bins[3].freq + bins[4].freq + bins[5].freq

\* Smoothing keeps the values and what they span.
LEMMA SmoothKeeps ==
  ASSUME NEW bins, Chain(bins, 6)
  PROVE  /\ Chain(H!Smooth(bins), 5)
         /\ Count(H!Smooth(bins)) = Count(bins) + bins[6].freq
         /\ \A lo \in Nat, hi \in Nat : Spans(bins, 6, lo, hi) => Spans(H!Smooth(bins), 5, lo, hi)
<1> DEFINE s == H!Smooth(bins)
<1>1. PICK at \in 1..5 : s = [i \in 1..5 |-> IF i < at THEN bins[i]
                                             ELSE IF i = at THEN H!BinMerge(bins[i], bins[i + 1])
                                             ELSE bins[i + 1]]
  <2>1. 5 \in Nat \ {0} /\ 5 + 1 = 6
    OBVIOUS
  <2> QED BY <2>1, SmoothIs
<1> DEFINE b == bins[at]
           o == bins[at + 1]
           c == H!BinMerge(b, o)
<1> HIDE DEF s
<1>2. /\ \A i \in 1..5 : i < at => s[i] = bins[i]
      /\ s[at] = c
      /\ \A i \in 1..5 : i > at => s[i] = bins[i + 1]
  <2> HIDE DEF c
  <2>1. s[at] = c
    BY <1>1 DEF c
  <2> QED BY <1>1, <2>1
<1>3. \A i \in 1..6 : /\ GoodBin(bins[i]) /\ bins[i].freq \in Nat
                      /\ bins[i].min \in Nat /\ bins[i].max \in Nat
                      /\ bins[i].freq > 0 => bins[i].min <= bins[i].max
                      /\ bins[i].start = IF i = 1 THEN 0 ELSE bins[i - 1].end
  <2>1. \A i \in 1..6 : GoodBin(bins[i]) /\ bins[i].start = IF i = 1 THEN 0 ELSE bins[i - 1].end
    BY DEF Chain
  <2> QED BY <2>1, BinNumbers
<1>4. at \in 1..6 /\ at + 1 \in 1..6 /\ at + 1 # 1 /\ (at + 1) - 1 = at
  OBVIOUS
<1>5. /\ GoodBin(c) /\ c.start = b.start /\ c.end = o.end /\ c.freq = b.freq + o.freq
      /\ c.min = IF b.freq = 0 /\ o.freq > 0 THEN o.min ELSE b.min
      /\ c.max = IF o.freq > 0 THEN o.max ELSE b.max
  <2>1. GoodBin(b) /\ GoodBin(o) /\ b.end = o.start
    BY <1>3, <1>4
  <2> HIDE DEF b, o
  <2> QED BY <2>1, BinMergeIs
<1>6. b.freq \in Nat /\ o.freq \in Nat /\ c.freq \in Nat
  BY <1>3, <1>4, <1>5
<1>7. ASSUME b.freq > 0, o.freq > 0 PROVE b.max <= o.min
  <2>1. b.max <= b.end /\ o.start <= o.min /\ b.end = o.start
    BY <1>3, <1>4, <1>7, BinNumbers
  <2>2. b.max \in Nat /\ o.min \in Nat /\ b.end \in Nat
    BY <1>3, <1>4, BinNumbers
  <2> QED BY <2>1, <2>2
<1> HIDE DEF c
<1>8. Chain(s, 5)
  <2>1. ASSUME NEW i \in 1..5 PROVE GoodBin(s[i]) /\ s[i].start = IF i = 1 THEN 0 ELSE s[i - 1].end
    <3>1. /\ i \in 1..6 /\ i + 1 \in 1..6 /\ i + 1 # 1 /\ (i + 1) - 1 = i
          /\ i # 1 => i - 1 \in 1..5 /\ (i - 1) + 1 = i
      OBVIOUS
    <3>2. CASE i < at
      <4>1. s[i] = bins[i] /\ (i # 1 => s[i - 1] = bins[i - 1])
        BY <1>2, <3>1, <3>2
      <4> QED BY <1>3, <3>1, <4>1
    <3>3. CASE i = at
      <4>1. s[i] = c /\ (i # 1 => s[i - 1] = bins[i - 1])
        BY <1>2, <3>1, <3>3
      <4>2. c.start = bins[i].start
        BY <1>5, <3>3
      <4> QED BY <1>3, <1>5, <3>1, <4>1, <4>2
    <3>4. CASE i > at /\ i - 1 = at
      <4>1. s[i] = bins[i + 1] /\ s[i - 1] = c /\ i # 1
        BY <1>2, <3>4
      <4>2. c.end = bins[i].end
        BY <1>5, <3>4, <3>1
      <4> QED BY <1>3, <3>1, <4>1, <4>2
    <3>5. CASE i > at /\ i - 1 # at
      <4>1. i - 1 > at /\ i # 1
        BY <3>5
      <4>2. s[i] = bins[i + 1] /\ s[i - 1] = bins[i]
        BY <1>2, <3>1, <3>5, <4>1
      <4> QED BY <1>3, <3>1, <4>1, <4>2
    <3> QED BY <3>2, <3>3, <3>4, <3>5
  <2>2. \A i \in 1..5 : s[i] \in H!Bins
    BY <2>1, BinNumbers
  <2>3. s \in Seq(H!Bins) /\ Len(s) = 5
    <3>1. s \in [1..5 -> H!Bins]
      BY <1>1, <2>2
    <3>2. 5 \in Nat
      OBVIOUS
    <3> QED BY <3>1, <3>2, IsSequence
  <2> QED BY <2>1, <2>3 DEF Chain
<1>9. Count(s) = Count(bins) + bins[6].freq
  <2>1. /\ bins[1].freq \in Nat /\ bins[2].freq \in Nat /\ bins[3].freq \in Nat
        /\ bins[4].freq \in Nat /\ bins[5].freq \in Nat /\ bins[6].freq \in Nat
    BY <1>3
  <2>2. s[at].freq = bins[at].freq + bins[at + 1].freq
    BY <1>2, <1>5
  <2>3. at = 1 \/ at = 2 \/ at = 3 \/ at = 4 \/ at = 5
    OBVIOUS
  <2>4. \A i \in 1..5 : (i < at => s[i].freq = bins[i].freq) /\ (i > at => s[i].freq = bins[i + 1].freq)
    BY <1>2
  <2>5. CASE at = 1
    <3>1. /\ s[1].freq = bins[1].freq + bins[2].freq /\ s[2].freq = bins[3].freq /\ s[3].freq = bins[4].freq
          /\ s[4].freq = bins[5].freq /\ s[5].freq = bins[6].freq
      BY <2>2, <2>4, <2>5
    <3> QED BY <2>1, <3>1 DEF Count
  <2>6. CASE at = 2
    <3>1. /\ s[1].freq = bins[1].freq /\ s[2].freq = bins[2].freq + bins[3].freq /\ s[3].freq = bins[4].freq
          /\ s[4].freq = bins[5].freq /\ s[5].freq = bins[6].freq
      BY <2>2, <2>4, <2>6
    <3> QED BY <2>1, <3>1 DEF Count
  <2>7. CASE at = 3
    <3>1. /\ s[1].freq = bins[1].freq /\ s[2].freq = bins[2].freq /\ s[3].freq = bins[3].freq + bins[4].freq
          /\ s[4].freq = bins[5].freq /\ s[5].freq = bins[6].freq
      BY <2>2, <2>4, <2>7
    <3> QED BY <2>1, <3>1 DEF Count
  <2>8. CASE at = 4
    <3>1. /\ s[1].freq = bins[1].freq /\ s[2].freq = bins[2].freq /\ s[3].freq = bins[3].freq
          /\ s[4].freq = bins[4].freq + bins[5].freq /\ s[5].freq = bins[6].freq
      BY <2>2, <2>4, <2>8
    <3> QED BY <2>1, <3>1 DEF Count
  <2>9. CASE at = 5
    <3>1. /\ s[1].freq = bins[1].freq /\ s[2].freq = bins[2].freq /\ s[3].freq = bins[3].freq
          /\ s[4].freq = bins[4].freq /\ s[5].freq = bins[5].freq + bins[6].freq
      BY <2>2, <2>4, <2>9
    <3> QED BY <2>1, <3>1 DEF Count
  <2> QED BY <2>3, <2>5, <2>6, <2>7, <2>8, <2>9
<1>10. ASSUME NEW lo \in Nat, NEW hi \in Nat, Spans(bins, 6, lo, hi) PROVE Spans(s, 5, lo, hi)
  <2>1. \A i \in 1..6 : bins[i].freq > 0 => lo <= bins[i].min /\ bins[i].max <= hi
    BY <1>10 DEF Spans
  <2>2. PICK k \in 1..6 : bins[k].freq > 0 /\ bins[k].min = lo
    BY <1>10 DEF Spans
  <2>3. PICK m \in 1..6 : bins[m].freq > 0 /\ bins[m].max = hi
    BY <1>10 DEF Spans
  <2>4. /\ b.freq > 0 => lo <= b.min /\ b.max <= hi
        /\ o.freq > 0 => lo <= o.min /\ o.max <= hi
    BY <1>4, <2>1
  <2>5. ASSUME NEW i \in 1..5, s[i].freq > 0 PROVE lo <= s[i].min /\ s[i].max <= hi
    <3>1. i \in 1..6 /\ i + 1 \in 1..6
      OBVIOUS
    <3>2. CASE i < at
      BY <1>2, <2>1, <2>5, <3>1, <3>2
    <3>3. CASE i > at
      BY <1>2, <2>1, <2>5, <3>1, <3>3
    <3>4. CASE i = at
      <4>1. s[i] = c /\ (b.freq > 0 \/ o.freq > 0)
        BY <1>2, <1>5, <1>6, <2>5, <3>4
      <4> HIDE DEF b, o
      <4> QED BY <1>5, <1>6, <2>4, <4>1
    <3> QED BY <3>2, <3>3, <3>4
  <2>6. b.min \in Nat /\ b.max \in Nat /\ o.min \in Nat /\ o.max \in Nat
        /\ (b.freq > 0 => b.min <= b.max) /\ (o.freq > 0 => o.min <= o.max)
    BY <1>3, <1>4
  <2>7. \E i \in 1..5 : s[i].freq > 0 /\ s[i].min = lo
    <3>1. CASE k < at
      <4>1. k \in 1..5 /\ s[k] = bins[k]
        BY <1>2, <3>1
      <4> QED BY <2>2, <4>1
    <3>2. CASE k > at + 1
      <4>1. k - 1 \in 1..5 /\ k - 1 > at /\ (k - 1) + 1 = k
        BY <3>2
      <4>2. s[k - 1] = bins[k]
        BY <1>2, <4>1
      <4> QED BY <2>2, <4>1, <4>2
    <3>3. CASE k = at
      <4>1. b.freq > 0 /\ b.min = lo
        BY <2>2, <3>3
      <4>2. c.freq > 0 /\ c.min = lo
        <5> HIDE DEF b, o
        <5> QED BY <1>5, <1>6, <4>1
      <4> QED BY <1>2, <4>2
    <3>4. CASE k = at + 1
      <4>1. o.freq > 0 /\ o.min = lo
        BY <2>2, <3>4
      <4>2. c.freq > 0 /\ c.min = lo
        <5> HIDE DEF b, o
        <5> QED BY <1>5, <1>6, <1>7, <2>4, <2>6, <4>1
      <4> QED BY <1>2, <4>2
    <3>5. k < at \/ k > at + 1 \/ k = at \/ k = at + 1
      OBVIOUS
    <3> QED BY <3>1, <3>2, <3>3, <3>4, <3>5
  <2>8. \E i \in 1..5 : s[i].freq > 0 /\ s[i].max = hi
    <3>1. CASE m < at
      <4>1. m \in 1..5 /\ s[m] = bins[m]
        BY <1>2, <3>1
      <4> QED BY <2>3, <4>1
    <3>2. CASE m > at + 1
      <4>1. m - 1 \in 1..5 /\ m - 1 > at /\ (m - 1) + 1 = m
        BY <3>2
      <4>2. s[m - 1] = bins[m]
        BY <1>2, <4>1
      <4> QED BY <2>3, <4>1, <4>2
    <3>3. CASE m = at
      <4>1. b.freq > 0 /\ b.max = hi
        BY <2>3, <3>3
      <4>2. c.freq > 0 /\ c.max = hi
        <5> HIDE DEF b, o
        <5> QED BY <1>5, <1>6, <1>7, <2>4, <2>6, <4>1
      <4> QED BY <1>2, <4>2
    <3>4. CASE m = at + 1
      <4>1. o.freq > 0 /\ o.max = hi
        BY <2>3, <3>4
      <4>2. c.freq > 0 /\ c.max = hi
        <5> HIDE DEF b, o
        <5> QED BY <1>5, <1>6, <4>1
      <4> QED BY <1>2, <4>2
    <3>5. m < at \/ m > at + 1 \/ m = at \/ m = at + 1
      OBVIOUS
    <3> QED BY <3>1, <3>2, <3>3, <3>4, <3>5
  <2> QED BY <2>5, <2>7, <2>8 DEF Spans
<1> QED BY <1>8, <1>9, <1>10 DEF s
-----------------------------------------------------------------------------
(* Adding a value. *)

\* t is s with e behind, and e can be exchanged for f.
Longer(t, s, e, f) ==
  /\ Len(t) = Len(s) + 1 /\ t[Len(s) + 1] = e
  /\ \A k \in 1..Len(s) : t[k] = s[k]
  /\ [t EXCEPT ![Len(s) + 1] = f] = Append(s, f)

\* One more element at the end.
LEMMA AppendIs ==
  ASSUME NEW S, NEW s \in Seq(S), NEW e \in S, NEW f \in S
  PROVE  \E t \in Seq(S) : Longer(t, s, e, f)
<1> DEFINE t == Append(s, e)
           u == [t EXCEPT ![Len(s) + 1] = f]
           n == Len(s)
<1>1. t \in Seq(S) /\ Len(t) = n + 1 /\ n \in Nat
  OBVIOUS
<1>2. t[n + 1] = e /\ \A k \in 1..n : t[k] = s[k]
  OBVIOUS
<1>3. Append(s, f) \in Seq(S) /\ Len(Append(s, f)) = n + 1
  OBVIOUS
<1>4. Append(s, f)[n + 1] = f /\ \A k \in 1..n : Append(s, f)[k] = s[k]
  OBVIOUS
<1>5. DOMAIN t = 1..(n + 1) /\ DOMAIN Append(s, f) = 1..(n + 1)
  OBVIOUS
<1>6. n + 1 \in 1..(n + 1) /\ \A k \in 1..(n + 1) : k = n + 1 \/ k \in 1..n
  BY <1>1
<1>7. \A k \in 1..n : k # n + 1 /\ k \in 1..(n + 1)
  BY <1>1
<1> DEFINE w == Append(s, f)
<1> HIDE DEF t, w, n
<1>8. u = w
  <2>1. DOMAIN u = 1..(n + 1) /\ u[n + 1] = f /\ \A k \in 1..n : u[k] = t[k]
    BY <1>5, <1>6, <1>7 DEF n
  <2>2. \A k \in 1..(n + 1) : u[k] = w[k]
    BY <1>2, <1>4, <1>6, <2>1 DEF w
  <2>3. u = [k \in 1..(n + 1) |-> u[k]]
    BY <2>1 
  <2>4. w = [k \in 1..(n + 1) |-> w[k]]
    <3>1. w \in Seq(S) /\ Len(w) = n + 1
      BY <1>3 DEF w
    <3> QED BY <3>1
  <2> HIDE DEF u
  <2> QED BY <2>2, <2>3, <2>4
<1>9. Longer(t, s, e, f)
  BY <1>1, <1>2, <1>8 DEF n, t, w, Longer
<1> QED BY <1>1, <1>9

\* What a value does to what values span.
Lower(lo, v) == IF v < lo THEN v ELSE lo
Upper(hi, v) == IF v > hi THEN v ELSE hi

\* A value is added to the bin that takes it.
LEMMA PutAt ==
  ASSUME NEW n \in Nat, NEW bins, Chain(bins, n), NEW i \in 1..n, NEW v \in Nat,
         bins[i].start <= v, v <= bins[i].end
  PROVE  LET s == [bins EXCEPT ![i] = H!BinAdd(bins[i], v)]
         IN  /\ Chain(s, n)
             /\ s[i].freq = bins[i].freq + 1 /\ \A k \in 1..n : k # i => s[k] = bins[k]
             /\ (\A k \in 1..n : bins[k].freq = 0) => Spans(s, n, v, v)
             /\ \A lo \in Nat, hi \in Nat :
                  Spans(bins, n, lo, hi) => Spans(s, n, Lower(lo, v), Upper(hi, v))
<1> DEFINE s == [bins EXCEPT ![i] = H!BinAdd(bins[i], v)]
           b == bins[i]
           c == H!BinAdd(b, v)
<1>1. bins \in Seq(H!Bins) /\ Len(bins) = n /\ DOMAIN bins = 1..n
  BY DEF Chain
<1>2. \A k \in 1..n : /\ GoodBin(bins[k]) /\ bins[k].freq \in Nat /\ bins[k].min \in Nat /\ bins[k].max \in Nat
                      /\ bins[k].freq > 0 => bins[k].min <= bins[k].max
                      /\ bins[k].start = IF k = 1 THEN 0 ELSE bins[k - 1].end
  <2>1. \A k \in 1..n : GoodBin(bins[k]) /\ bins[k].start = IF k = 1 THEN 0 ELSE bins[k - 1].end
    BY DEF Chain
  <2> QED BY <2>1, BinNumbers
<1>3. /\ GoodBin(c) /\ c.start = b.start /\ c.end = b.end /\ c.freq = b.freq + 1
      /\ c.min = IF b.freq = 0 \/ v < b.min THEN v ELSE b.min
      /\ c.max = IF b.freq = 0 \/ v > b.max THEN v ELSE b.max
  <2>1. GoodBin(b)
    BY <1>2
  <2> QED BY <2>1, BinAddIs
<1>4. c \in H!Bins
  <2> HIDE DEF c
  <2> QED BY <1>3, BinNumbers
<1>5. s[i] = c /\ \A k \in 1..n : k # i => s[k] = bins[k]
  <2> HIDE DEF c
  <2>1. s = [bins EXCEPT ![i] = c]
    BY DEF c
  <2> QED BY <1>1, <2>1
<1>6. s \in Seq(H!Bins) /\ Len(s) = n
  <2>1. s \in [1..n -> H!Bins]
    <3> HIDE DEF c
    <3>1. s = [bins EXCEPT ![i] = c]
      BY DEF c
    <3> QED BY <1>1, <1>4, <3>1
  <2> QED BY <2>1, IsSequence
<1> HIDE DEF c, s
<1>7. b.freq \in Nat /\ b.min \in Nat /\ b.max \in Nat /\ (b.freq > 0 => b.min <= b.max)
  BY <1>2
<1>8. Chain(s, n)
  <2>1. ASSUME NEW k \in 1..n PROVE GoodBin(s[k]) /\ s[k].start = IF k = 1 THEN 0 ELSE s[k - 1].end
    <3>1. GoodBin(s[k]) /\ s[k].start = bins[k].start
      BY <1>2, <1>3, <1>5
    <3>2. CASE k = 1
      BY <1>2, <3>1, <3>2
    <3>3. CASE k # 1
      <4>1. k - 1 \in 1..n
        BY <3>3
      <4>2. s[k - 1].end = bins[k - 1].end
        BY <1>3, <1>5, <4>1
      <4> QED BY <1>2, <3>1, <3>3, <4>2
    <3> QED BY <3>2, <3>3
  <2> QED BY <1>6, <2>1 DEF Chain
<1>9. s[i].freq = bins[i].freq + 1
  BY <1>3, <1>5
<1>10. ASSUME \A k \in 1..n : bins[k].freq = 0 PROVE Spans(s, n, v, v)
  <2>1. c.min = v /\ c.max = v /\ c.freq > 0
    BY <1>3, <1>7, <1>10
  <2>2. \A k \in 1..n : s[k].freq > 0 => k = i
    BY <1>5, <1>10
  <2> QED BY <1>5, <2>1, <2>2 DEF Spans
<1>11. ASSUME NEW lo \in Nat, NEW hi \in Nat, Spans(bins, n, lo, hi)
       PROVE  Spans(s, n, Lower(lo, v), Upper(hi, v))
  <2>1. \A k \in 1..n : bins[k].freq > 0 => lo <= bins[k].min /\ bins[k].max <= hi
    BY <1>11 DEF Spans
  <2>2. PICK k \in 1..n : bins[k].freq > 0 /\ bins[k].min = lo
    BY <1>11 DEF Spans
  <2>3. PICK m \in 1..n : bins[m].freq > 0 /\ bins[m].max = hi
    BY <1>11 DEF Spans
  <2>4. Lower(lo, v) \in Nat /\ Upper(hi, v) \in Nat /\ Lower(lo, v) <= lo /\ hi <= Upper(hi, v)
        /\ Lower(lo, v) <= v /\ v <= Upper(hi, v)
    BY DEF Lower, Upper
  <2>5. (b.freq > 0 => lo <= b.min /\ b.max <= hi)
    BY <2>1
  <2>6. c.freq > 0 /\ c.min \in Nat /\ c.max \in Nat
    <3> HIDE DEF b
    <3> QED BY <1>3, <1>7
  <2>7. Lower(lo, v) <= c.min /\ c.max <= Upper(hi, v)
    <3> HIDE DEF b
    <3> QED BY <1>3, <1>7, <2>4, <2>5
  <2>8. ASSUME NEW j \in 1..n, s[j].freq > 0 PROVE Lower(lo, v) <= s[j].min /\ s[j].max <= Upper(hi, v)
    <3>1. CASE j = i
      BY <1>5, <2>7, <3>1
    <3>2. CASE j # i
      BY <1>2, <1>5, <2>1, <2>4, <2>8, <3>2
    <3> QED BY <3>1, <3>2
  <2>9. \E j \in 1..n : s[j].freq > 0 /\ s[j].min = Lower(lo, v)
    <3>1. CASE v < lo
      <4>1. c.min = v
        <5> HIDE DEF b
        <5> QED BY <1>3, <1>7, <2>5, <3>1
      <4> QED BY <1>5, <2>6, <3>1, <4>1 DEF Lower
    <3>2. CASE ~(v < lo) /\ k = i
      <4>1. b.freq > 0 /\ b.min = lo
        BY <2>2, <3>2
      <4>2. c.min = lo
        <5> HIDE DEF b
        <5> QED BY <1>3, <1>7, <3>2, <4>1
      <4> QED BY <1>5, <2>6, <3>2, <4>2 DEF Lower
    <3>3. CASE ~(v < lo) /\ k # i
      BY <1>5, <2>2, <3>3 DEF Lower
    <3> QED BY <3>1, <3>2, <3>3
  <2>10. \E j \in 1..n : s[j].freq > 0 /\ s[j].max = Upper(hi, v)
    <3>1. CASE v > hi
      <4>1. c.max = v
        <5> HIDE DEF b
        <5> QED BY <1>3, <1>7, <2>5, <3>1
      <4> QED BY <1>5, <2>6, <3>1, <4>1 DEF Upper
    <3>2. CASE ~(v > hi) /\ m = i
      <4>1. b.freq > 0 /\ b.max = hi
        BY <2>3, <3>2
      <4>2. c.max = hi
        <5> HIDE DEF b
        <5> QED BY <1>3, <1>7, <3>2, <4>1
      <4> QED BY <1>5, <2>6, <3>2, <4>2 DEF Upper
    <3>3. CASE ~(v > hi) /\ m # i
      BY <1>5, <2>3, <3>3 DEF Upper
    <3> QED BY <3>1, <3>2, <3>3
  <2> QED BY <2>8, <2>9, <2>10 DEF Spans
<1> QED BY <1>5, <1>8, <1>9, <1>10, <1>11 DEF s

\* A value is put into its bin, or into a tail bin, and the bins stay five
\* (Histogram::add).
LEMMA PutKeeps ==
  ASSUME NEW bins, Chain(bins, 5), NEW v \in Nat
  PROVE  LET s == H!PutInBin(bins, v)
         IN  /\ Chain(s, 5) /\ Count(s) = Count(bins) + 1
             /\ (\A k \in 1..5 : bins[k].freq = 0) => Spans(s, 5, v, v)
             /\ \A lo \in Nat, hi \in Nat :
                  Spans(bins, 5, lo, hi) => Spans(s, 5, Lower(lo, v), Upper(hi, v))
<1> DEFINE s == H!PutInBin(bins, v)
           found == H!FindBin(bins, v)
<1>1. bins \in Seq(H!Bins) /\ Len(bins) = 5 /\ DOMAIN bins = 1..5
  BY DEF Chain
<1>2. \A k \in 1..5 : /\ GoodBin(bins[k]) /\ bins[k].freq \in Nat /\ bins[k].end \in Nat
                      /\ bins[k].start = IF k = 1 THEN 0 ELSE bins[k - 1].end
  <2>1. \A k \in 1..5 : GoodBin(bins[k]) /\ bins[k].start = IF k = 1 THEN 0 ELSE bins[k - 1].end
    BY DEF Chain
  <2> QED BY <2>1, BinNumbers
<1>3. CASE found # {}
  <2>1. PICK i : i = Min(found)
    OBVIOUS
  <2>2. i \in found
    <3>1. found \subseteq Nat
      BY <1>1 DEF H!FindBin
    <3> HIDE DEF found
    <3> QED BY <1>3, <2>1, <3>1, Smallest
  <2>3. i \in 1..5 /\ bins[i].start <= v /\ v <= bins[i].end
    BY <1>1, <2>2 DEF H!FindBin
  <2>4. s = [bins EXCEPT ![i] = H!BinAdd(bins[i], v)]
    <3>1. H!Min(found) = i
      BY <2>1 DEF H!Min, Min
    <3> QED BY <1>3, <3>1 DEF H!PutInBin
  <2> HIDE DEF s, found
  <2>5. /\ Chain(s, 5)
        /\ s[i].freq = bins[i].freq + 1 /\ \A k \in 1..5 : k # i => s[k] = bins[k]
        /\ (\A k \in 1..5 : bins[k].freq = 0) => Spans(s, 5, v, v)
        /\ \A lo \in Nat, hi \in Nat :
             Spans(bins, 5, lo, hi) => Spans(s, 5, Lower(lo, v), Upper(hi, v))
    <3> DEFINE w == [bins EXCEPT ![i] = H!BinAdd(bins[i], v)]
    <3>1. 5 \in Nat
      OBVIOUS
    <3>2. /\ Chain(w, 5)
          /\ w[i].freq = bins[i].freq + 1 /\ \A k \in 1..5 : k # i => w[k] = bins[k]
          /\ (\A k \in 1..5 : bins[k].freq = 0) => Spans(w, 5, v, v)
          /\ \A lo \in Nat, hi \in Nat :
               Spans(bins, 5, lo, hi) => Spans(w, 5, Lower(lo, v), Upper(hi, v))
      BY <2>3, <3>1, PutAt
    <3>3. s = w
      BY <2>4
    <3> HIDE DEF w
    <3> QED BY <3>2, <3>3
  <2>6. Count(s) = Count(bins) + 1
    <3>1. i = 1 \/ i = 2 \/ i = 3 \/ i = 4 \/ i = 5
      BY <2>3
    <3>2. /\ bins[1].freq \in Nat /\ bins[2].freq \in Nat /\ bins[3].freq \in Nat
          /\ bins[4].freq \in Nat /\ bins[5].freq \in Nat
      BY <1>2
    <3>3. /\ s[1].freq = IF i = 1 THEN bins[1].freq + 1 ELSE bins[1].freq
          /\ s[2].freq = IF i = 2 THEN bins[2].freq + 1 ELSE bins[2].freq
          /\ s[3].freq = IF i = 3 THEN bins[3].freq + 1 ELSE bins[3].freq
          /\ s[4].freq = IF i = 4 THEN bins[4].freq + 1 ELSE bins[4].freq
          /\ s[5].freq = IF i = 5 THEN bins[5].freq + 1 ELSE bins[5].freq
      BY <2>5
    <3> QED BY <3>1, <3>2, <3>3 DEF Count
  <2> QED BY <2>5, <2>6 DEF s
<1>4. CASE found = {}
  <2> DEFINE end == bins[5].end
             e == H!EmptyBin(end, 2 * v - end)
             c == H!BinAdd(e, v)
  <2>1. end < v /\ end \in Nat
    <3>1. 5 \in Nat \ {0}
      OBVIOUS
    <3> QED BY <1>2, <1>4, <3>1, NoBinAbove
  <2>2. end <= 2 * v - end /\ 2 * v - end \in Nat /\ v <= 2 * v - end /\ end <= v
    <3> HIDE DEF end
    <3> QED BY <2>1
  <2>3. GoodBin(e) /\ e.start = end /\ e.end = 2 * v - end /\ e.freq = 0 /\ e \in H!Bins
    <3> HIDE DEF end
    <3> QED BY <2>1, <2>2 DEF H!EmptyBin, GoodBin, H!Bins
  <2> HIDE DEF e, end
  <2>4. bins \in Seq(H!Bins) /\ Len(bins) + 1 = 6 /\ c \in H!Bins
    BY <1>1, <2>2, <2>3, BinAddIs, BinNumbers
  <2> HIDE DEF c
  <2>5. PICK t \in Seq(H!Bins) : /\ Len(t) = 6 /\ t[6] = e /\ \A k \in 1..5 : t[k] = bins[k]
                                  /\ [t EXCEPT ![6] = c] = Append(bins, c)
    <3>1. \E t \in Seq(H!Bins) : Longer(t, bins, e, c)
      BY <2>3, <2>4, AppendIs
    <3> QED BY <1>1, <2>4, <3>1 DEF Longer
  <2> DEFINE u == [t EXCEPT ![6] = H!BinAdd(t[6], v)]
  <2>6. Chain(t, 6)
    <3>1. ASSUME NEW k \in 1..6 PROVE GoodBin(t[k]) /\ t[k].start = IF k = 1 THEN 0 ELSE t[k - 1].end
      <4>1. CASE k = 6
        <5>1. t[k] = e /\ t[k - 1] = bins[5]
          <6>1. k - 1 = 5
            BY <4>1
          <6> QED BY <2>5, <4>1, <6>1
        <5> QED BY <2>3, <4>1, <5>1 DEF end
      <4>2. CASE k # 6
        <5>1. k \in 1..5 /\ (k # 1 => k - 1 \in 1..5)
          BY <4>2
        <5> QED BY <1>2, <2>5, <5>1
      <4> QED BY <4>1, <4>2
    <3> QED BY <2>5, <3>1 DEF Chain
  <2>7. u = Append(bins, H!BinAdd(e, v))
    BY <2>5 DEF c
  <2>8. s = H!Smooth(u)
    <3>1. H!Last(bins).end = end
      BY <1>1 DEF H!Last, end
    <3>2. s = H!Smooth(Append(bins, H!BinAdd(H!EmptyBin(end, 2 * v - end), v)))
      BY <1>4, <3>1 DEF H!PutInBin
    <3> HIDE DEF s, u
    <3> QED BY <2>7, <3>2 DEF e
  <2> HIDE DEF s
  <2>9. /\ Chain(u, 6)
        /\ u[6].freq = 1 /\ \A k \in 1..5 : u[k] = bins[k]
        /\ (\A k \in 1..6 : t[k].freq = 0) => Spans(u, 6, v, v)
        /\ \A lo \in Nat, hi \in Nat :
             Spans(t, 6, lo, hi) => Spans(u, 6, Lower(lo, v), Upper(hi, v))
    <3>1. 6 \in Nat /\ 6 \in 1..6 /\ t[6].start <= v /\ v <= t[6].end /\ t[6].freq = 0
      BY <2>2, <2>3, <2>5
    <3>2. \A k \in 1..5 : k \in 1..6 /\ k # 6
      OBVIOUS
    <3>3. /\ Chain(u, 6)
          /\ u[6].freq = t[6].freq + 1 /\ \A k \in 1..6 : k # 6 => u[k] = t[k]
          /\ (\A k \in 1..6 : t[k].freq = 0) => Spans(u, 6, v, v)
          /\ \A lo \in Nat, hi \in Nat :
               Spans(t, 6, lo, hi) => Spans(u, 6, Lower(lo, v), Upper(hi, v))
      BY <2>6, <3>1, PutAt
    <3> HIDE DEF u
    <3> QED BY <2>5, <3>1, <3>2, <3>3
  <2> HIDE DEF u
  <2>10. \A k \in 1..6 : k = 6 \/ k \in 1..5
    OBVIOUS
  <2>11. /\ Chain(s, 5) /\ Count(s) = Count(u) + u[6].freq
         /\ \A lo \in Nat, hi \in Nat : Spans(u, 6, lo, hi) => Spans(s, 5, lo, hi)
    BY <2>8, <2>9, SmoothKeeps
  <2>12. Count(s) = Count(bins) + 1
    <3>1. 1 \in 1..5 /\ 2 \in 1..5 /\ 3 \in 1..5 /\ 4 \in 1..5 /\ 5 \in 1..5
      OBVIOUS
    <3>2. u[1] = bins[1] /\ u[2] = bins[2] /\ u[3] = bins[3] /\ u[4] = bins[4] /\ u[5] = bins[5]
      BY <2>9, <3>1
    <3>3. Count(u) = Count(bins)
      BY <3>2 DEF Count
    <3> QED BY <2>9, <2>11, <3>3
  <2>13. ASSUME \A k \in 1..5 : bins[k].freq = 0 PROVE Spans(s, 5, v, v)
    <3>1. \A k \in 1..6 : t[k].freq = 0
      BY <2>3, <2>5, <2>10, <2>13
    <3> QED BY <2>9, <2>11, <3>1
  <2>14. ASSUME NEW lo \in Nat, NEW hi \in Nat, Spans(bins, 5, lo, hi)
         PROVE  Spans(s, 5, Lower(lo, v), Upper(hi, v))
    <3>1. \A k \in 1..5 : k \in 1..6
      OBVIOUS
    <3>2. t[6].freq = 0 /\ \A k \in 1..5 : t[k] = bins[k]
      BY <2>3, <2>5
    <3>3. \A k \in 1..6 : t[k].freq > 0 => lo <= t[k].min /\ t[k].max <= hi
      BY <2>10, <2>14, <3>2 DEF Spans
    <3>4. (\E k \in 1..6 : t[k].freq > 0 /\ t[k].min = lo) /\ (\E k \in 1..6 : t[k].freq > 0 /\ t[k].max = hi)
      BY <2>14, <3>1, <3>2 DEF Spans
    <3>5. Spans(t, 6, lo, hi)
      BY <3>3, <3>4 DEF Spans
    <3>6. Lower(lo, v) \in Nat /\ Upper(hi, v) \in Nat
      BY DEF Lower, Upper
    <3> QED BY <2>9, <2>11, <3>5, <3>6
  <2> QED BY <2>11, <2>12, <2>13, <2>14 DEF s
<1> QED BY <1>3, <1>4

\* Whose a histogram's smallest and largest values may be.
Owners == Recorders \cup {-1}
Histograms == [num_elems : Nat, bins : Seq(H!Bins), min_value : Nat, min_rank : Owners,
               max_value : Nat, max_rank : Owners, avg : [num : Int, den : Int]]

\* A histogram with values: they are in its bins, and its extremes are theirs.
HistOK(h) ==
  /\ h \in Histograms /\ Chain(h.bins, 5) /\ Count(h.bins) = h.num_elems
  /\ Spans(h.bins, 5, h.min_value, h.max_value)

\* The first bins are empty.
LEMMA FirstBinsChain ==
  ASSUME NEW v \in Nat
  PROVE  Chain(H!FirstBins(v), 5) /\ \A k \in 1..5 : H!FirstBins(v)[k].freq = 0
<1> DEFINE size == IF v # 0 THEN (2 * v) \div 5 ELSE Unit
           s == H!FirstBins(v)
<1>1. size \in Nat
  <2>1. Unit \in Nat
    BY EncodingsAssumption DEF H!ConstantsOK
  <2>2. 2 * v \in Nat /\ 5 \in Nat \ {0}
    OBVIOUS
  <2>3. (2 * v) \div 5 \in Nat
    BY <2>2, DivMod
  <2> QED BY <2>1, <2>3
<1>2. s = [i \in 1..5 |-> H!EmptyBin((i - 1) * size, i * size)]
  BY DEF H!FirstBins, H!NUM_BINS
<1> HIDE DEF size, s
<1>3. ASSUME NEW i \in 1..5
      PROVE  /\ GoodBin(s[i]) /\ s[i].freq = 0 /\ s[i].start = (i - 1) * size /\ s[i].end = i * size
             /\ s[i] \in H!Bins
  <2> DEFINE a == (i - 1) * size
             z == i * size
  <2>1. s[i] = H!EmptyBin(a, z)
    BY <1>2
  <2>2. a \in Nat /\ z \in Nat /\ a <= z
    <3>1. i = 1 \/ i = 2 \/ i = 3 \/ i = 4 \/ i = 5
      OBVIOUS
    <3> QED BY <1>1, <3>1
  <2> HIDE DEF a, z
  <2>3. s[i] = [start |-> a, end |-> z, min |-> 0, max |-> 0, sum |-> 0, freq |-> 0]
    BY <2>1 DEF H!EmptyBin
  <2>4. s[i] \in H!Bins
    BY <2>2, <2>3 DEF H!Bins
  <2> QED BY <2>2, <2>3, <2>4 DEF GoodBin, a, z
<1>4. s \in Seq(H!Bins) /\ Len(s) = 5
  <2>1. s \in [1..5 -> H!Bins] /\ 5 \in Nat
    BY <1>2, <1>3
  <2> QED BY <2>1, IsSequence
<1>5. \A i \in 1..5 : s[i].start = IF i = 1 THEN 0 ELSE s[i - 1].end
  <2> SUFFICES ASSUME NEW i \in 1..5 PROVE s[i].start = IF i = 1 THEN 0 ELSE s[i - 1].end
    OBVIOUS
  <2>1. CASE i = 1
    <3>1. s[1].start = 0 * size
      BY <1>3
    <3>2. 0 * size = 0
      BY <1>1
    <3> QED BY <2>1, <3>1, <3>2
  <2>2. CASE i # 1
    <3>1. i - 1 \in 1..5
      BY <2>2
    <3> QED BY <1>3, <2>2, <3>1
  <2> QED BY <2>1, <2>2
<1> QED BY <1>3, <1>4, <1>5 DEF Chain, s

\* A histogram that is in use has values.
LEMMA HistNumbers ==
  ASSUME NEW h, HistOK(h)
  PROVE  /\ h.num_elems \in Nat \ {0} /\ h.bins \in Seq(H!Bins)
         /\ h.min_value \in Nat /\ h.min_rank \in Owners /\ h.max_value \in Nat /\ h.max_rank \in Owners
         /\ h.avg.num \in Int /\ h.avg.den \in Int /\ h.min_value <= h.max_value
<1>1. h \in Histograms
  BY DEF HistOK
<1>2. /\ h.num_elems \in Nat /\ h.bins \in Seq(H!Bins)
      /\ h.min_value \in Nat /\ h.min_rank \in Owners /\ h.max_value \in Nat /\ h.max_rank \in Owners
      /\ h.avg \in [num : Int, den : Int]
  BY <1>1 DEF Histograms
<1>3. \A i \in 1..5 : h.bins[i].freq \in Nat /\ h.bins[i].min \in Nat /\ h.bins[i].max \in Nat
                      /\ (h.bins[i].freq > 0 => h.bins[i].min <= h.bins[i].max)
  <2>1. \A i \in 1..5 : GoodBin(h.bins[i])
    BY DEF HistOK, Chain
  <2> QED BY <2>1, BinNumbers
<1>4. PICK i \in 1..5 : h.bins[i].freq > 0 /\ h.bins[i].min = h.min_value
  BY DEF HistOK, Spans
<1>5. h.bins[i].max <= h.max_value
  BY <1>4 DEF HistOK, Spans
<1>6. h.min_value <= h.max_value
  <2>1. /\ h.bins[i].min \in Nat /\ h.bins[i].max \in Nat /\ h.bins[i].min <= h.bins[i].max
        /\ h.bins[i].min = h.min_value
    BY <1>3, <1>4
  <2>2. \A a, b, c, d \in Nat : a = b /\ b <= c /\ c <= d => a <= d
    OBVIOUS
  <2> QED BY <1>2, <1>5, <2>1, <2>2
<1>7. h.num_elems # 0
  <2>1. /\ h.bins[1].freq \in Nat /\ h.bins[2].freq \in Nat /\ h.bins[3].freq \in Nat
        /\ h.bins[4].freq \in Nat /\ h.bins[5].freq \in Nat
    BY <1>3
  <2>2. i = 1 \/ i = 2 \/ i = 3 \/ i = 4 \/ i = 5
    OBVIOUS
  <2>3. h.bins[1].freq > 0 \/ h.bins[2].freq > 0 \/ h.bins[3].freq > 0 \/ h.bins[4].freq > 0 \/ h.bins[5].freq > 0
    BY <1>4, <2>2
  <2>4. h.num_elems = h.bins[1].freq + h.bins[2].freq + h.bins[3].freq + h.bins[4].freq + h.bins[5].freq
    BY DEF HistOK, Count
  <2>5. \A a, b, c, d, e \in Nat : a > 0 \/ b > 0 \/ c > 0 \/ d > 0 \/ e > 0 => a + b + c + d + e # 0
    OBVIOUS
  <2> QED BY <2>1, <2>3, <2>4, <2>5
<1> QED BY <1>2, <1>6, <1>7

\* w is h with one more value, added as rank's.
More(w, h, v, rank) ==
  /\ HistOK(w)
  /\ h = H!Empty => w.min_value = v /\ w.max_value = v /\ w.min_rank = rank
  /\ HistOK(h) => /\ w.min_value = Lower(h.min_value, v)
                  /\ w.max_value = Upper(h.max_value, v)
                  /\ w.min_rank = IF v < h.min_value THEN rank ELSE h.min_rank

\* A histogram after a value is added to it.
LEMMA AddIs ==
  ASSUME NEW h, HistOK(h) \/ h = H!Empty, NEW v \in Nat, NEW rank \in Owners
  PROVE  More(H!Add(h, v, rank), h, v, rank)
<1> DEFINE w == H!Add(h, v, rank)
           n == h.num_elems + 1
           low == n = 1 \/ v < h.min_value
           high == n = 1 \/ v > h.max_value
           before == IF n = 1 THEN H!FirstBins(v) ELSE h.bins
           after == H!PutInBin(before, v)
           least == IF low THEN v ELSE h.min_value
           leastOf == IF low THEN rank ELSE h.min_rank
           most == IF high THEN v ELSE h.max_value
           mostOf == IF high THEN rank ELSE h.max_rank
           mean == H!UpdateAvg(h.avg, n, v)
<1>1. w = [num_elems |-> n, bins |-> after, min_value |-> least, min_rank |-> leastOf,
           max_value |-> most, max_rank |-> mostOf, avg |-> mean]
  BY DEF H!Add
<1>2. /\ h.num_elems \in Nat /\ h.min_value \in Nat /\ h.min_rank \in Owners
      /\ h.max_value \in Nat /\ h.max_rank \in Owners /\ h.avg.num \in Int /\ h.avg.den \in Int
      /\ HistOK(h) => h.num_elems # 0
      /\ h = H!Empty => h.num_elems = 0
  <2>1. CASE HistOK(h)
    <3>1. h = H!Empty => h.num_elems = 0
      BY DEF H!Empty
    <3> QED BY <2>1, <3>1, HistNumbers
  <2>2. CASE h = H!Empty
    <3>1. h.num_elems = 0 /\ h.min_value = 0 /\ h.min_rank = -1 /\ h.max_value = 0 /\ h.max_rank = -1
          /\ h.avg.num = 0 /\ h.avg.den = 1
      BY <2>2 DEF H!Empty
    <3>2. HistOK(h) => h.num_elems # 0
      BY HistNumbers
    <3> QED BY <3>1, <3>2 DEF Owners
  <2> QED BY <2>1, <2>2
<1>3. mean \in [num : Int, den : Int]
  <2>1. n \in Int
    BY <1>2
  <2> HIDE DEF n
  <2>2. h.avg.num * n + v * h.avg.den \in Int /\ h.avg.den * (n + 1) \in Int /\ v \in Int /\ 1 \in Int
    BY <1>2, <2>1
  <2> QED BY <2>2 DEF H!UpdateAvg
<1>4. n \in Nat /\ least \in Nat /\ leastOf \in Owners /\ most \in Nat /\ mostOf \in Owners
  BY <1>2
<1>5. Chain(before, 5) /\ Count(before) = h.num_elems /\ (h = H!Empty => \A k \in 1..5 : before[k].freq = 0)
  <2>1. CASE HistOK(h)
    <3>1. before = h.bins /\ h # H!Empty
      BY <1>2, <2>1
    <3> QED BY <2>1, <3>1 DEF HistOK
  <2>2. CASE h = H!Empty
    <3>1. before = H!FirstBins(v) /\ h.num_elems = 0
      BY <1>2, <2>2
    <3> HIDE DEF before
    <3>2. Chain(before, 5) /\ \A k \in 1..5 : before[k].freq = 0
      BY <3>1, FirstBinsChain
    <3>3. Count(before) = 0
      <4>1. before[1].freq = 0 /\ before[2].freq = 0 /\ before[3].freq = 0 /\ before[4].freq = 0 /\ before[5].freq = 0
        BY <3>2
      <4> QED BY <4>1 DEF Count
    <3> QED BY <3>1, <3>2, <3>3
  <2> QED BY <2>1, <2>2
<1>6. /\ Chain(after, 5) /\ Count(after) = Count(before) + 1
      /\ (\A k \in 1..5 : before[k].freq = 0) => Spans(after, 5, v, v)
      /\ \A lo \in Nat, hi \in Nat :
           Spans(before, 5, lo, hi) => Spans(after, 5, Lower(lo, v), Upper(hi, v))
  <2> HIDE DEF before
  <2> QED BY <1>5, PutKeeps
<1> HIDE DEF after, mean
<1>7. h = H!Empty => least = v /\ most = v /\ leastOf = rank
  BY <1>2
<1>8. HistOK(h) => /\ least = Lower(h.min_value, v) /\ most = Upper(h.max_value, v)
                   /\ leastOf = IF v < h.min_value THEN rank ELSE h.min_rank
                   /\ before = h.bins
  BY <1>2 DEF Lower, Upper
<1> HIDE DEF least, leastOf, most, mostOf, before
<1>9. Spans(after, 5, least, most)
  <2>1. CASE HistOK(h)
    <3>1. Spans(before, 5, h.min_value, h.max_value)
      BY <1>8, <2>1 DEF HistOK
    <3> QED BY <1>2, <1>6, <1>8, <2>1, <3>1
  <2>2. CASE h = H!Empty
    BY <1>5, <1>6, <1>7, <2>2
  <2> QED BY <2>1, <2>2
<1>10. Count(after) = n
  BY <1>5, <1>6
<1>11. after \in Seq(H!Bins)
  BY <1>6 DEF Chain
<1> HIDE DEF n, w
<1>12. w \in Histograms
  BY <1>1, <1>3, <1>4, <1>11 DEF Histograms
<1>13. /\ w.num_elems = n /\ w.bins = after /\ w.min_value = least /\ w.max_value = most
       /\ w.min_rank = leastOf
  BY <1>1
<1>14. HistOK(w)
  BY <1>6, <1>9, <1>10, <1>12, <1>13 DEF HistOK
<1> QED BY <1>7, <1>8, <1>13, <1>14 DEF w, More
-----------------------------------------------------------------------------
(* Merging. *)

\* The values merge adds for a bin lie within its extremes, which are among them.
LEMMA BinValuesAre ==
  ASSUME NEW b, GoodBin(b), b.freq > 0, NEW upper \in BOOLEAN
  PROVE  LET s == H!BinValues(b, upper)
         IN  /\ s \in Seq(Nat) /\ Len(s) = b.freq
             /\ \A k \in 1..Len(s) : b.min <= s[k] /\ s[k] <= b.max
             /\ \E k \in 1..Len(s) : s[k] = b.max
             /\ ~upper => s[1] = b.min
<1> DEFINE s == H!BinValues(b, upper)
           first == IF upper THEN b.max ELSE b.min
           second == IF upper THEN b.min ELSE b.max
           n == b.freq - 2
           mean == (b.sum - b.min - b.max) \div n
           t == [i \in 1..n |-> mean]
<1>1. /\ b.min \in Nat /\ b.max \in Nat /\ b.sum \in Nat /\ b.freq \in Nat /\ b.min <= b.max
      /\ b.min * (b.freq - 1) + b.max <= b.sum /\ b.sum <= b.min + b.max * (b.freq - 1)
  BY BinNumbers DEF GoodBin
<1>2. first \in Nat /\ second \in Nat /\ b.min <= first /\ first <= b.max /\ b.min <= second /\ second <= b.max
      /\ (first = b.max \/ second = b.max) /\ (~upper => first = b.min)
  BY <1>1
<1>3. CASE b.freq = 1
  <2>1. s = <<first>>
    BY <1>3 DEF H!BinValues
  <2>2. b.min = b.max
    <3>1. b.min * (b.freq - 1) = 0 /\ b.max * (b.freq - 1) = 0
      BY <1>1, <1>3
    <3> DEFINE x == b.min * (b.freq - 1)
               y == b.max * (b.freq - 1)
    <3>2. x = 0 /\ y = 0 /\ x + b.max <= b.sum /\ b.sum <= b.min + y
      BY <1>1, <3>1
    <3>3. b.min \in Nat /\ b.max \in Nat /\ b.sum \in Nat /\ b.min <= b.max
      BY <1>1
    <3> HIDE DEF x, y
    <3> QED BY <3>2, <3>3
  <2>3. first = b.max
    BY <2>2
  <2> HIDE DEF s, first
  <2>4. s \in Seq(Nat) /\ Len(s) = 1 /\ s[1] = first
    BY <1>2, <2>1
  <2>5. 1 \in 1..1 /\ \A k \in 1..1 : k = 1
    OBVIOUS
  <2> HIDE DEF second
  <2> QED BY <1>1, <1>2, <1>3, <2>3, <2>4, <2>5 DEF s
<1>4. CASE b.freq > 1
  <2>1. s = <<first, second>> \o t
    <3>1. ~(b.freq = 1)
      BY <1>1, <1>4
    <3> QED BY <1>4, <3>1 DEF H!BinValues
  <2>2. n \in Nat /\ n + 2 = b.freq
    BY <1>1, <1>4
  <2>3. n > 0 => mean \in Nat /\ b.min <= mean /\ mean <= b.max
    <3> SUFFICES ASSUME n > 0 PROVE mean \in Nat /\ b.min <= mean /\ mean <= b.max
      OBVIOUS
    <3> DEFINE rest == b.sum - b.min - b.max
    <3>1. /\ b.min * (b.freq - 1) = b.min * n + b.min /\ b.max * (b.freq - 1) = b.max * n + b.max
          /\ b.min * n \in Nat /\ b.max * n \in Nat
      <4>1. b.freq - 1 \in Nat /\ b.freq - 1 > 0 /\ (b.freq - 1) - 1 = n
        BY <2>2
      <4> HIDE DEF n
      <4> QED BY <1>1, <4>1, OneMore
    <3>2. rest \in Nat /\ b.min * n <= rest /\ rest <= b.max * n
      <4> DEFINE x == b.min * n
                 y == b.max * n
      <4>1. x \in Nat /\ y \in Nat /\ x + b.min + b.max <= b.sum /\ b.sum <= b.min + (y + b.max)
        <5>1. \A p, q, r, u \in Nat : p + q + r <= u <=> (p + q) + r <= u
          OBVIOUS
        <5> HIDE DEF n
        <5> QED BY <1>1, <3>1
      <4> HIDE DEF x, y, n
      <4>2. rest \in Nat /\ x <= rest /\ rest <= y
        BY <1>1, <4>1
      <4> QED BY <4>2 DEF x, y
    <3> HIDE DEF rest, n
    <3> DEFINE r == rest % n
               q == rest \div n
    <3>3. q \in Nat /\ r \in Nat /\ r < n /\ rest = n * q + r
      <4>1. n \in Nat \ {0}
        BY <2>2
      <4>2. rest \div n \in Nat /\ rest % n \in 0..(n - 1) /\ rest = n * (rest \div n) + (rest % n)
        BY <3>2, <4>1, DivMod
      <4> QED BY <4>1, <4>2
    <3> HIDE DEF q, r
    <3>4. b.min <= q
      <4> SUFFICES ASSUME q < b.min PROVE FALSE
        BY <1>1, <3>3
      <4>1. n * q + n <= n * b.min
        BY <1>1, <2>2, <3>3, Steps
      <4>2. n * b.min = b.min * n /\ n * q \in Nat
        BY <1>1, <2>2, <3>3
      <4>3. b.min * n \in Nat
        BY <3>1
      <4> DEFINE x == b.min * n
                 z == n * q
      <4>4. x \in Nat /\ z \in Nat /\ z + n <= x /\ x <= rest /\ rest = z + r
        BY <3>2, <3>3, <4>1, <4>2, <4>3
      <4> HIDE DEF x, z
      <4> QED BY <2>2, <3>2, <3>3, <4>4
    <3>5. q <= b.max
      <4> SUFFICES ASSUME b.max < q PROVE FALSE
        BY <1>1, <3>3
      <4>1. n * b.max + n <= n * q
        BY <1>1, <2>2, <3>3, Steps
      <4>2. n * b.max = b.max * n /\ n * q \in Nat
        BY <1>1, <2>2, <3>3
      <4>3. b.max * n \in Nat
        BY <3>1
      <4> DEFINE y == b.max * n
                 z == n * q
      <4>4. y \in Nat /\ z \in Nat /\ y + n <= z /\ rest <= y /\ rest = z + r
        BY <3>2, <3>3, <4>1, <4>2, <4>3
      <4> HIDE DEF y, z
      <4> QED BY <2>2, <3>2, <3>3, <4>4
    <3> QED BY <3>3, <3>4, <3>5 DEF q, rest
  <2> HIDE DEF n, mean, first, second
  <2>4. t \in Seq(Nat) /\ Len(t) = n /\ \A i \in 1..n : t[i] = mean
    <3>1. \A i \in 1..n : mean \in Nat
      BY <2>2, <2>3
    <3>2. t \in [1..n -> Nat]
      BY <3>1
    <3>3. \A i \in 1..n : t[i] = mean
      OBVIOUS
    <3> HIDE DEF t
    <3> QED BY <2>2, <3>2, <3>3, IsSequence
  <2> HIDE DEF t, s
  <2> DEFINE p == <<first, second>>
  <2>5. p \in Seq(Nat) /\ Len(p) = 2 /\ p[1] = first /\ p[2] = second
    BY <1>2
  <2>6. s = p \o t
    BY <2>1
  <2> HIDE DEF p
  <2>7. /\ s \in Seq(Nat) /\ Len(s) = 2 + n
        /\ \A j \in 1..2 : s[j] = p[j]
        /\ \A j \in 1..n : s[2 + j] = t[j]
    <3>1. /\ p \o t \in Seq(Nat) /\ Len(p \o t) = Len(p) + Len(t)
          /\ \A j \in 1..Len(p) : (p \o t)[j] = p[j]
          /\ \A j \in 1..Len(t) : (p \o t)[Len(p) + j] = t[j]
      <4>1. p \in Seq(Nat) /\ t \in Seq(Nat)
        BY <2>4, <2>5
      <4> QED BY <4>1, Appended
    <3>2. Len(p) = 2 /\ Len(t) = n
      BY <2>4, <2>5
    <3> QED BY <2>6, <3>1, <3>2
  <2>8. s[1] = first /\ s[2] = second /\ \A j \in 1..n : s[2 + j] = mean
    <3>1. 1 \in 1..2 /\ 2 \in 1..2
      OBVIOUS
    <3> QED BY <2>4, <2>5, <2>7, <3>1
  <2>9. Len(s) = b.freq /\ 1 \in 1..Len(s) /\ 2 \in 1..Len(s)
    BY <1>1, <1>4, <2>2, <2>7
  <2>10. ASSUME NEW k \in 1..Len(s) PROVE b.min <= s[k] /\ s[k] <= b.max
    <3>1. k = 1 \/ k = 2 \/ (k - 2 \in 1..n /\ 2 + (k - 2) = k /\ n > 0)
      BY <2>2, <2>7
    <3> QED BY <1>2, <2>3, <2>8, <3>1
  <2> QED BY <1>2, <2>7, <2>8, <2>9, <2>10 DEF s
<1> QED BY <1>1, <1>3, <1>4

\* w is h with the first k of the values s, all between lo and hi, added as rank's.
Took(w, h, s, k, lo, hi, rank) ==
  /\ HistOK(w)
  /\ k = 0 \/ h.min_value <= lo => w.min_value = h.min_value /\ w.min_rank = h.min_rank
  /\ k > 0 /\ s[1] = lo /\ lo < h.min_value => w.min_value = lo /\ w.min_rank = rank
  /\ h.max_value <= w.max_value
  /\ w.max_value = h.max_value \/ w.max_value <= hi
  /\ \A j \in 1..k : s[j] <= w.max_value

\* One more is added.
LEMMA TakesNext ==
  ASSUME NEW h, HistOK(h), NEW s \in Seq(Nat), NEW rank \in Owners, NEW lo \in Nat, NEW hi \in Nat,
         \A k \in 1..Len(s) : lo <= s[k] /\ s[k] <= hi,
         NEW k \in 1..Len(s), NEW w, Took(w, h, s, k - 1, lo, hi, rank)
  PROVE  Took(H!Add(w, s[k], rank), h, s, k, lo, hi, rank)
<1> DEFINE v == s[k]
           u == H!Add(w, v, rank)
<1>1. v \in Nat /\ lo <= v /\ v <= hi
  OBVIOUS
<1>2. HistOK(w) /\ h.max_value <= w.max_value /\ (w.max_value = h.max_value \/ w.max_value <= hi)
      /\ \A j \in 1..(k - 1) : s[j] <= w.max_value
  BY DEF Took
<1> HIDE DEF v
<1>3. /\ HistOK(u)
      /\ u.min_value = Lower(w.min_value, v)
      /\ u.max_value = Upper(w.max_value, v)
      /\ u.min_rank = IF v < w.min_value THEN rank ELSE w.min_rank
  <2>1. More(u, w, v, rank)
    BY <1>1, <1>2, AddIs
  <2> QED BY <1>2, <2>1 DEF More
<1> HIDE DEF u
<1>4. /\ w.min_value \in Nat /\ w.max_value \in Nat /\ h.min_value \in Nat /\ h.max_value \in Nat
  BY <1>2, HistNumbers
<1>5. ASSUME h.min_value <= lo PROVE u.min_value = h.min_value /\ u.min_rank = h.min_rank
  <2>1. w.min_value = h.min_value /\ w.min_rank = h.min_rank
    BY <1>5 DEF Took
  <2>2. ~(v < w.min_value)
    BY <1>1, <1>4, <1>5, <2>1
  <2> QED BY <1>3, <2>1, <2>2 DEF Lower
<1>6. ASSUME s[1] = lo, lo < h.min_value PROVE u.min_value = lo /\ u.min_rank = rank
  <2>1. CASE k = 1
    <3>1. v = lo /\ k - 1 = 0
      BY <1>6, <2>1 DEF v
    <3>2. w.min_value = h.min_value
      BY <3>1 DEF Took
    <3>3. v < w.min_value
      BY <1>6, <3>1, <3>2
    <3> QED BY <1>3, <3>1, <3>3 DEF Lower
  <2>2. CASE k # 1
    <3>1. k - 1 > 0
      BY <2>2
    <3>2. w.min_value = lo /\ w.min_rank = rank
      BY <1>6, <3>1 DEF Took
    <3>3. ~(v < w.min_value)
      BY <1>1, <1>4, <3>2
    <3> QED BY <1>3, <3>2, <3>3 DEF Lower
  <2> QED BY <2>1, <2>2
<1>7. u.max_value \in Nat /\ w.max_value <= u.max_value /\ v <= u.max_value
      /\ (u.max_value = w.max_value \/ u.max_value = v)
  BY <1>1, <1>3, <1>4 DEF Upper
<1>8. h.max_value <= u.max_value /\ (u.max_value = h.max_value \/ u.max_value <= hi)
  <2>1. h.max_value <= u.max_value
    BY <1>2, <1>4, <1>7
  <2>2. CASE u.max_value = w.max_value
    BY <1>2, <2>2
  <2>3. CASE u.max_value = v
    BY <1>1, <2>1, <2>3
  <2> QED BY <1>7, <2>1, <2>2, <2>3
<1>9. ASSUME NEW j \in 1..k PROVE s[j] <= u.max_value
  <2>1. CASE j = k
    BY <1>7, <2>1 DEF v
  <2>2. CASE j # k
    <3>1. j \in 1..(k - 1) /\ j \in 1..Len(s)
      BY <2>2
    <3>2. s[j] <= w.max_value /\ s[j] \in Nat
      BY <1>2, <3>1
    <3> QED BY <1>4, <1>7, <3>2
  <2> QED BY <2>1, <2>2
<1>10. k # 0
  OBVIOUS
<1>11. Took(u, h, s, k, lo, hi, rank)
  BY <1>3, <1>5, <1>6, <1>8, <1>9, <1>10 DEF Took
<1> QED BY <1>11 DEF u, v

\* All of them are.
LEMMA AddAllIs ==
  ASSUME NEW h, HistOK(h), NEW s \in Seq(Nat), NEW rank \in Owners, NEW lo \in Nat, NEW hi \in Nat,
         \A k \in 1..Len(s) : lo <= s[k] /\ s[k] <= hi
  PROVE  Took(H!AddAll(h, s, rank), h, s, Len(s), lo, hi, rank)
<1> DEFINE n == Len(s)
           Is(a) == a = [j \in 0..n |-> IF j = 0 THEN h ELSE H!Add(a[j - 1], s[j], rank)]
           F == [j \in 1..n |-> [t \in Histograms |-> IF HistOK(t) THEN H!Add(t, s[j], rank) ELSE t]]
<1>1. n \in Nat /\ \A j \in 1..n : s[j] \in Nat
  OBVIOUS
<1>2. \A t : HistOK(t) => t \in Histograms
  BY DEF HistOK
<1>3. \A j \in 1..n : \A t : HistOK(t) => HistOK(H!Add(t, s[j], rank))
  BY <1>1, AddIs DEF More
<1>4. F \in [1..n -> [Histograms -> Histograms]]
  BY <1>2, <1>3
<1>5. PICK g : Recursive(g, n, Histograms, h, F)
  <2>1. h \in Histograms
    BY <1>2
  <2> HIDE DEF F, n
  <2> QED BY <1>1, <1>4, <2>1, Recursion
<1>6. g[0] = h /\ \A j \in 1..n : g[j] = IF HistOK(g[j - 1]) THEN H!Add(g[j - 1], s[j], rank) ELSE g[j - 1]
  <2>1. \A j \in 1..n : j - 1 \in 0..n
    BY <1>1
  <2>2. \A j \in 1..n : g[j - 1] \in Histograms
    BY <1>5, <2>1 DEF Recursive
  <2> QED BY <1>5, <2>2 DEF Recursive
<1>7. \A j \in 0..n : HistOK(g[j])
  <2> DEFINE P == {j \in 0..n : HistOK(g[j])}
  <2>1. 0 \in P
    <3>1. 0 \in 0..n
      BY <1>1
    <3> QED BY <1>6, <3>1
  <2>2. ASSUME NEW j \in 1..n, j - 1 \in P PROVE j \in P
    <3>1. j \in 0..n
      BY <1>1
    <3> QED BY <1>3, <1>6, <2>2, <3>1
  <2>3. \A j \in 0..n : j \in P
    <3> HIDE DEF P, n
    <3> QED BY <1>1, <2>1, <2>2, UpTo
  <2> QED BY <2>3
<1>8. Is(g)
  <2>1. g \in [0..n -> Histograms]
    BY <1>5 DEF Recursive
  <2>2. \A j \in 0..n : j # 0 => j \in 1..n /\ j - 1 \in 0..n
    BY <1>1
  <2>3. \A j \in 0..n : g[j] = IF j = 0 THEN h ELSE H!Add(g[j - 1], s[j], rank)
    BY <1>6, <1>7, <2>2
  <2> QED BY <2>1, <2>3
<1>9. H!AddAll(h, s, rank) = (CHOOSE a : Is(a))[n]
  BY DEF H!AddAll
<1>10. PICK a : a = CHOOSE b : Is(b)
  OBVIOUS
<1>11. Is(a)
  <2> HIDE DEF Is
  <2> QED BY <1>8, <1>10, Zenon
<1>12. a[0] = h /\ \A j \in 1..n : a[j] = H!Add(a[j - 1], s[j], rank)
  <2>1. 0 \in 0..n /\ \A j \in 1..n : j # 0 /\ j \in 0..n
    BY <1>1
  <2> HIDE DEF n
  <2>2. \A j \in 0..n : a[j] = IF j = 0 THEN h ELSE H!Add(a[j - 1], s[j], rank)
    BY <1>11
  <2>3. a[0] = h
    BY <2>1, <2>2
  <2>4. \A j \in 1..n : a[j] = H!Add(a[j - 1], s[j], rank)
    BY <2>1, <2>2
  <2> QED BY <2>3, <2>4
<1>13. \A j \in 0..n : Took(a[j], h, s, j, lo, hi, rank)
  <2> DEFINE P == {j \in 0..n : Took(a[j], h, s, j, lo, hi, rank)}
  <2>1. 0 \in P
    <3>1. 0 \in 0..n /\ 1..0 = {} /\ ~(0 > 0)
      BY <1>1
    <3>2. h.max_value <= h.max_value
      BY HistNumbers
    <3>3. Took(h, h, s, 0, lo, hi, rank)
      BY <3>1, <3>2 DEF Took
    <3> QED BY <1>12, <3>1, <3>3
  <2>2. ASSUME NEW j \in 1..n, j - 1 \in P PROVE j \in P
    <3>1. j \in 0..n
      BY <1>1
    <3>2. Took(H!Add(a[j - 1], s[j], rank), h, s, j, lo, hi, rank)
      BY <2>2, TakesNext
    <3> QED BY <1>12, <3>1, <3>2
  <2>3. \A j \in 0..n : j \in P
    <3> HIDE DEF P, n
    <3> QED BY <1>1, <2>1, <2>2, UpTo
  <2> QED BY <2>3
<1>14. n \in 0..n
  BY <1>1
<1> QED BY <1>9, <1>10, <1>13, <1>14

\* m is g with the values of the first i bins of o.
Merging(m, g, o, i) ==
  /\ HistOK(m)
  /\ \/ m.min_value = g.min_value /\ m.min_rank = g.min_rank
     \/ m.min_value = o.min_value /\ m.min_rank = o.min_rank
  /\ m.min_value <= g.min_value
  /\ (\E k \in 1..i : o.bins[k].freq > 0) => m.min_value <= o.min_value
  /\ g.max_value <= m.max_value
  /\ m.max_value = g.max_value \/ m.max_value <= o.max_value
  /\ \A k \in 1..i : o.bins[k].freq > 0 => o.bins[k].max <= m.max_value

\* The values of one more bin are added.
LEMMA MergingNext ==
  ASSUME NEW g, HistOK(g), NEW o, HistOK(o), NEW i \in 1..5, NEW m, Merging(m, g, o, i - 1)
  PROVE  Merging(H!AddBin(m, o, i), g, o, i)
<1> DEFINE full == {k \in DOMAIN o.bins : o.bins[k].freq > 0}
           upper == i = H!Max(full) /\ i # H!Min(full)
           b == o.bins[i]
           w == H!AddBin(m, o, i)
<1>1. /\ o.bins \in Seq(H!Bins) /\ Len(o.bins) = 5 /\ DOMAIN o.bins = 1..5
      /\ \A k \in 1..5 : GoodBin(o.bins[k])
  BY DEF HistOK, Chain
<1>2. \A k \in 1..5 : /\ o.bins[k].freq \in Nat /\ o.bins[k].min \in Nat /\ o.bins[k].max \in Nat
                      /\ (o.bins[k].freq > 0 => o.bins[k].min <= o.bins[k].max)
                      /\ (o.bins[k].freq > 0 => o.min_value <= o.bins[k].min /\ o.bins[k].max <= o.max_value)
  <2>1. \A k \in 1..5 : o.bins[k].freq > 0 => o.min_value <= o.bins[k].min /\ o.bins[k].max <= o.max_value
    BY DEF HistOK, Spans
  <2> QED BY <1>1, <2>1, BinNumbers
<1>3. /\ HistOK(m)
      /\ \/ m.min_value = g.min_value /\ m.min_rank = g.min_rank
         \/ m.min_value = o.min_value /\ m.min_rank = o.min_rank
      /\ m.min_value <= g.min_value
      /\ g.max_value <= m.max_value
      /\ m.max_value = g.max_value \/ m.max_value <= o.max_value
      /\ \A k \in 1..(i - 1) : o.bins[k].freq > 0 => m.min_value <= o.min_value /\ o.bins[k].max <= m.max_value
  BY DEF Merging
<1>4. /\ m.min_value \in Nat /\ m.max_value \in Nat /\ g.min_value \in Nat /\ g.max_value \in Nat
      /\ o.min_value \in Nat /\ o.max_value \in Nat /\ o.min_rank \in Owners /\ o.max_rank \in Owners
  BY <1>3, HistNumbers
<1>5. \A k \in 1..i : k = i \/ k \in 1..(i - 1)
  OBVIOUS
<1>6. CASE b.freq = 0
  <2>1. w = m
    <3>1. i \notin full
      BY <1>6
    <3> QED BY <3>1 DEF H!AddBin
  <2>2. ~(b.freq > 0)
    BY <1>6
  <2>3. \A k \in 1..i : o.bins[k].freq > 0 => k \in 1..(i - 1)
    BY <1>5, <2>2
  <2> HIDE DEF w, b
  <2> QED BY <1>3, <2>1, <2>3 DEF Merging, w
<1>7. CASE b.freq > 0
  <2> DEFINE s == H!BinValues(b, upper)
             rank == IF upper THEN o.max_rank ELSE o.min_rank
  <2>1. w = H!AddAll(m, s, rank)
    <3>1. i \in full
      BY <1>1, <1>7
    <3> QED BY <3>1 DEF H!AddBin
  <2>2. upper \in BOOLEAN
    OBVIOUS
  <2>3. rank \in Owners
    BY <1>4
  <2>4. (\A k \in 1..(i - 1) : ~(o.bins[k].freq > 0)) => ~upper /\ rank = o.min_rank
    <3> SUFFICES ASSUME \A k \in 1..(i - 1) : ~(o.bins[k].freq > 0) PROVE i = H!Min(full)
      OBVIOUS
    <3>1. full \subseteq Nat /\ i \in full
      BY <1>1, <1>7
    <3>2. \A k \in full : k \notin 1..(i - 1) /\ k \in 1..5
      BY <1>1
    <3>3. PICK x : x = Min(full)
      OBVIOUS
    <3> HIDE DEF full
    <3>4. x \in full /\ \A k \in full : x <= k
      BY <3>1, <3>3, Smallest
    <3>5. x \in 1..5 /\ x <= i /\ x \notin 1..(i - 1)
      BY <3>1, <3>2, <3>4
    <3>6. x = i
      BY <3>5
    <3>7. H!Min(full) = x
      BY <3>3 DEF H!Min, Min
    <3> QED BY <3>6, <3>7
  <2> HIDE DEF upper, rank
  <2>5. /\ s \in Seq(Nat) /\ Len(s) = b.freq
        /\ \A k \in 1..Len(s) : b.min <= s[k] /\ s[k] <= b.max
        /\ \E k \in 1..Len(s) : s[k] = b.max
        /\ ~upper => s[1] = b.min
    <3>1. GoodBin(b)
      BY <1>1
    <3> QED BY <1>7, <2>2, <3>1, BinValuesAre
  <2>6. b.min \in Nat /\ b.max \in Nat /\ b.min <= b.max /\ o.min_value <= b.min /\ b.max <= o.max_value
    BY <1>2, <1>7
  <2> HIDE DEF s, w
  <2>7. Took(w, m, s, Len(s), b.min, b.max, rank)
    BY <1>3, <2>1, <2>3, <2>5, <2>6, AddAllIs
  <2>8. HistOK(w) /\ w.min_value \in Nat /\ w.max_value \in Nat
    BY <2>7, HistNumbers DEF Took
  <2>9. PICK k \in 1..Len(s) : s[k] = b.max
    BY <2>5
  <2>10. b.max <= w.max_value /\ m.max_value <= w.max_value /\ (w.max_value = m.max_value \/ w.max_value <= b.max)
    BY <2>7, <2>9 DEF Took
  <2> HIDE DEF b
  <2>11. g.max_value <= w.max_value /\ (w.max_value = g.max_value \/ w.max_value <= o.max_value)
    <3>1. g.max_value <= w.max_value
      BY <1>3, <1>4, <2>8, <2>10
    <3>2. CASE w.max_value = m.max_value
      BY <1>3, <3>1, <3>2
    <3>3. CASE w.max_value <= b.max
      BY <1>4, <2>6, <2>8, <3>1, <3>3
    <3> QED BY <2>10, <3>2, <3>3
  <2>12. \A j \in 1..i : o.bins[j].freq > 0 => o.bins[j].max <= w.max_value
    <3> SUFFICES ASSUME NEW j \in 1..i, o.bins[j].freq > 0 PROVE o.bins[j].max <= w.max_value
      OBVIOUS
    <3>1. CASE j = i
      BY <2>10, <3>1 DEF b
    <3>2. CASE j # i
      <4>1. o.bins[j].max <= m.max_value /\ o.bins[j].max \in Nat
        <5>1. j \in 1..(i - 1) /\ j \in 1..5
          BY <3>2
        <5> QED BY <1>2, <1>3, <5>1
      <4> QED BY <1>4, <2>8, <2>10, <4>1
    <3> QED BY <3>1, <3>2
  <2>13. /\ \/ w.min_value = m.min_value /\ w.min_rank = m.min_rank
            \/ w.min_value = o.min_value /\ w.min_rank = o.min_rank
         /\ w.min_value <= m.min_value /\ w.min_value <= o.min_value
    <3>1. CASE \E j \in 1..(i - 1) : o.bins[j].freq > 0
      <4>1. m.min_value <= o.min_value
        BY <1>3, <3>1
      <4>2. m.min_value <= b.min
        BY <1>4, <2>6, <4>1
      <4>3. w.min_value = m.min_value /\ w.min_rank = m.min_rank
        BY <2>7, <4>2 DEF Took
      <4> QED BY <1>4, <4>1, <4>3
    <3>2. CASE ~\E j \in 1..(i - 1) : o.bins[j].freq > 0
      <4>1. ~upper /\ rank = o.min_rank
        BY <2>4, <3>2
      <4>2. s[1] = b.min /\ Len(s) > 0
        BY <1>7, <2>5, <4>1 DEF b
      <4>3. b.min = o.min_value
        <5>1. PICK j \in 1..5 : o.bins[j].freq > 0 /\ o.bins[j].min = o.min_value
          BY DEF HistOK, Spans
        <5>2. j \notin 1..(i - 1)
          BY <3>2, <5>1
        <5>3. CASE j = i
          BY <5>1, <5>3 DEF b
        <5>4. CASE j # i
          <6>1. i < j
            BY <5>2, <5>4
          <6>2. b.end <= o.bins[j].start
            <7>1. 5 \in Nat /\ Chain(o.bins, 5)
              BY DEF HistOK
            <7> QED BY <6>1, <7>1, ChainOrder DEF b
          <6>3. b.max <= b.end /\ o.bins[j].start <= o.bins[j].min /\ b.end \in Nat /\ o.bins[j].start \in Nat
            BY <1>1, <1>7, <5>1, BinNumbers DEF b
          <6> QED BY <1>4, <2>6, <5>1, <6>2, <6>3
        <5> QED BY <5>3, <5>4
      <4>4. CASE m.min_value <= b.min
        <5>1. w.min_value = m.min_value /\ w.min_rank = m.min_rank
          BY <2>7, <4>4 DEF Took
        <5> QED BY <1>4, <4>3, <4>4, <5>1
      <4>5. CASE ~(m.min_value <= b.min)
        <5>1. b.min < m.min_value
          BY <1>4, <2>6, <4>5
        <5>2. w.min_value = b.min /\ w.min_rank = rank
          BY <2>7, <4>2, <5>1 DEF Took
        <5> QED BY <1>4, <2>6, <4>1, <4>3, <5>1, <5>2
      <4> QED BY <4>4, <4>5
    <3> QED BY <3>1, <3>2
  <2>14. w.min_value <= g.min_value
    BY <1>3, <1>4, <2>8, <2>13
  <2>15. Merging(w, g, o, i)
    BY <1>3, <2>8, <2>11, <2>12, <2>13, <2>14 DEF Merging
  <2> QED BY <2>15 DEF w
<1>8. b.freq = 0 \/ b.freq > 0
  BY <1>2
<1> QED BY <1>6, <1>7, <1>8

\* w has the values of g and of o.
Merged(w, g, o) ==
  /\ HistOK(w)
  /\ \/ w.min_value = g.min_value /\ w.min_rank = g.min_rank
     \/ w.min_value = o.min_value /\ w.min_rank = o.min_rank
  /\ w.min_value <= g.min_value /\ w.min_value <= o.min_value
  /\ g.max_value <= w.max_value /\ o.max_value <= w.max_value
  /\ w.max_value = g.max_value \/ w.max_value = o.max_value

\* Two histograms become one (Histogram::merge).
LEMMA MergeIs ==
  ASSUME NEW g, HistOK(g), NEW o, HistOK(o)
  PROVE  Merged(H!Merge(g, o), g, o)
<1> DEFINE n == Len(o.bins)
           Is(a) == a = [i \in 0..n |-> IF i = 0 THEN g ELSE H!AddBin(a[i - 1], o, i)]
           F == [i \in 1..n |-> [t \in Histograms |-> IF Merging(t, g, o, i - 1) THEN H!AddBin(t, o, i) ELSE t]]
<1>1. n = 5
  BY DEF HistOK, Chain
<1>2. \A t, i : Merging(t, g, o, i) => t \in Histograms
  BY DEF Merging, HistOK
<1>3. \A i \in 1..n : \A t : Merging(t, g, o, i - 1) => Merging(H!AddBin(t, o, i), g, o, i)
  BY <1>1, MergingNext
<1>4. Merging(g, g, o, 0)
  <2>1. 1..0 = {}
    OBVIOUS
  <2>2. g.min_value <= g.min_value /\ g.max_value <= g.max_value
    BY HistNumbers
  <2> QED BY <2>1, <2>2 DEF Merging
<1>5. n \in Nat
  BY <1>1
<1> HIDE DEF n
<1>6. F \in [1..n -> [Histograms -> Histograms]]
  BY <1>2, <1>3
<1>7. PICK f : Recursive(f, n, Histograms, g, F)
  <2>1. g \in Histograms
    BY <1>2, <1>4
  <2> HIDE DEF F
  <2> QED BY <1>5, <1>6, <2>1, Recursion
<1>8. f[0] = g /\ \A i \in 1..n : f[i] = IF Merging(f[i - 1], g, o, i - 1) THEN H!AddBin(f[i - 1], o, i) ELSE f[i - 1]
  <2>1. \A i \in 1..n : i - 1 \in 0..n
    BY <1>5
  <2>2. \A i \in 1..n : f[i - 1] \in Histograms
    BY <1>7, <2>1 DEF Recursive
  <2> QED BY <1>7, <2>2 DEF Recursive
<1>9. \A i \in 0..n : Merging(f[i], g, o, i)
  <2> DEFINE P == {i \in 0..n : Merging(f[i], g, o, i)}
  <2>1. 0 \in P
    <3>1. 0 \in 0..n
      BY <1>5
    <3> QED BY <1>4, <1>8, <3>1
  <2>2. ASSUME NEW i \in 1..n, i - 1 \in P PROVE i \in P
    <3>1. i \in 0..n
      BY <1>5
    <3> QED BY <1>3, <1>8, <2>2, <3>1
  <2>3. \A i \in 0..n : i \in P
    <3> HIDE DEF P
    <3> QED BY <1>5, <2>1, <2>2, UpTo
  <2> QED BY <2>3
<1>10. Is(f)
  <2>1. f \in [0..n -> Histograms]
    BY <1>7 DEF Recursive
  <2>2. \A i \in 0..n : i # 0 => i \in 1..n /\ i - 1 \in 0..n
    BY <1>5
  <2>3. \A i \in 0..n : f[i] = IF i = 0 THEN g ELSE H!AddBin(f[i - 1], o, i)
    BY <1>8, <1>9, <2>2
  <2> QED BY <2>1, <2>3
<1>11. H!Merge(g, o) = (CHOOSE a : Is(a))[n]
  BY DEF H!Merge, n
<1>12. PICK a : a = CHOOSE b : Is(b)
  OBVIOUS
<1>13. Is(a)
  <2> HIDE DEF Is
  <2> QED BY <1>10, <1>12, Zenon
<1>14. a[0] = g /\ \A i \in 1..n : a[i] = H!AddBin(a[i - 1], o, i)
  <2>1. 0 \in 0..n /\ \A i \in 1..n : i # 0 /\ i \in 0..n
    BY <1>5
  <2>2. \A i \in 0..n : a[i] = IF i = 0 THEN g ELSE H!AddBin(a[i - 1], o, i)
    BY <1>13
  <2>3. a[0] = g
    BY <2>1, <2>2
  <2>4. \A i \in 1..n : a[i] = H!AddBin(a[i - 1], o, i)
    BY <2>1, <2>2
  <2> QED BY <2>3, <2>4
<1>15. \A i \in 0..n : Merging(a[i], g, o, i)
  <2> DEFINE P == {i \in 0..n : Merging(a[i], g, o, i)}
  <2>1. 0 \in P
    <3>1. 0 \in 0..n
      BY <1>5
    <3> QED BY <1>4, <1>14, <3>1
  <2>2. ASSUME NEW i \in 1..n, i - 1 \in P PROVE i \in P
    <3>1. i \in 0..n
      BY <1>5
    <3> QED BY <1>3, <1>14, <2>2, <3>1
  <2>3. \A i \in 0..n : i \in P
    <3> HIDE DEF P
    <3> QED BY <1>5, <2>1, <2>2, UpTo
  <2> QED BY <2>3
<1> DEFINE w == H!Merge(g, o)
<1>16. Merging(w, g, o, 5)
  <2>1. 5 \in 0..n
    BY <1>1
  <2> QED BY <1>1, <1>11, <1>12, <1>15, <2>1
<1> HIDE DEF w
<1>17. (\E k \in 1..5 : o.bins[k].freq > 0) /\ \E k \in 1..5 : o.bins[k].freq > 0 /\ o.bins[k].max = o.max_value
  BY DEF HistOK, Spans
<1>18. HistOK(w) /\ w.min_value <= o.min_value /\ o.max_value <= w.max_value
  BY <1>16, <1>17 DEF Merging
<1>19. w.max_value \in Nat /\ o.max_value \in Nat
  BY <1>18, HistNumbers
<1>20. w.max_value = g.max_value \/ w.max_value = o.max_value
  BY <1>16, <1>18, <1>19 DEF Merging
<1>21. Merged(w, g, o)
  BY <1>16, <1>18, <1>20 DEF Merging, Merged
<1> QED BY <1>21 DEF w
-----------------------------------------------------------------------------
(* Drawing values. *)

\* Fractions.
Fractions == [num : Int, den : Int]

\* s are m values between lo and hi, the extremes of the first i bins among them.
Draws(s, bins, i, m, lo, hi) ==
  /\ s \in Seq(Fractions) /\ Len(s) = m
  /\ \A j \in 1..m : lo * s[j].den <= s[j].num /\ s[j].num <= hi * s[j].den
  /\ \A k \in 1..i : bins[k].freq > 0 =>
       /\ \E j \in 1..m : s[j].num = bins[k].min * s[j].den
       /\ \E j \in 1..m : s[j].num = bins[k].max * s[j].den

\* A bin's values are spread between its extremes (HistoBin::randomValue).
LEMMA SpreadIs ==
  ASSUME NEW b, GoodBin(b), NEW lo \in Nat, NEW hi \in Nat, b.freq > 0 => lo <= b.min /\ b.max <= hi
  PROVE  LET t == H!Spread(b)
         IN  /\ t \in Seq(Fractions) /\ Len(t) = b.freq
             /\ \A j \in 1..b.freq : lo * t[j].den <= t[j].num /\ t[j].num <= hi * t[j].den
             /\ b.freq > 0 => /\ \E j \in 1..b.freq : t[j].num = b.min * t[j].den
                              /\ \E j \in 1..b.freq : t[j].num = b.max * t[j].den
<1> DEFINE t == H!Spread(b)
           n == b.freq
           d == n - 1
<1>1. /\ n \in Nat /\ b.min \in Nat /\ b.max \in Nat /\ b.sum \in Nat
      /\ n > 0 => b.min <= b.max /\ lo <= b.min /\ b.max <= hi
  BY BinNumbers
<1>2. n > 0 => b.min * d + b.max <= b.sum /\ b.sum <= b.min + b.max * d
  BY DEF GoodBin
<1>3. t = [j \in 1..n |-> IF n = 1 THEN [num |-> b.sum, den |-> 1]
                          ELSE [num |-> b.min * d + (b.max - b.min) * (j - 1), den |-> d]]
  BY DEF H!Spread
<1> HIDE DEF t
<1>4. ASSUME NEW j \in 1..n
      PROVE  /\ t[j].num \in Int /\ t[j].den \in Int /\ t[j] \in Fractions
             /\ lo * t[j].den <= t[j].num /\ t[j].num <= hi * t[j].den
             /\ j = 1 => t[j].num = b.min * t[j].den
             /\ j = n => t[j].num = b.max * t[j].den
  <2>1. n > 0
    BY <1>1
  <2>2. CASE n = 1
    <3>1. d = 0 /\ b.min * d = 0 /\ b.max * d = 0
      BY <1>1, <2>2
    <3>2. b.sum = b.min /\ b.sum = b.max
      <4> DEFINE x == b.min * d
                 y == b.max * d
      <4>1. x = 0 /\ y = 0 /\ x + b.max <= b.sum /\ b.sum <= b.min + y
        BY <1>2, <2>1, <3>1
      <4> HIDE DEF x, y, n, d
      <4> QED BY <1>1, <2>1, <4>1
    <3>3. t[j] = [num |-> b.sum, den |-> 1]
      BY <1>3, <2>2
    <3>4. t[j].num = b.sum /\ t[j].den = 1 /\ t[j] \in Fractions
      BY <1>1, <3>3 DEF Fractions
    <3> HIDE DEF n, d
    <3> QED BY <1>1, <2>1, <3>2, <3>4
  <2>3. CASE n # 1
    <3> DEFINE w == b.max - b.min
               e == j - 1
    <3>1. d \in Nat /\ d > 0 /\ w \in Nat /\ e \in Nat /\ e <= d /\ b.max = b.min + w
      BY <1>1, <2>1, <2>3
    <3>2. t[j] = [num |-> b.min * d + w * e, den |-> d]
      BY <1>3, <2>3
    <3>3. (j = 1 => e = 0) /\ (j = n => e = d)
      BY <1>1
    <3> HIDE DEF d, w, e, n
    <3>4. e * w <= d * w /\ w * e = e * w /\ w * d = d * w
      BY <3>1, LessTimes
    <3>5. b.max * d = b.min * d + w * d
      BY <1>1, <3>1
    <3>6. lo * d <= b.min * d /\ b.max * d <= hi * d
      BY <1>1, <2>1, <3>1, LessTimes
    <3>7. /\ b.min * d \in Nat /\ w * e \in Nat /\ w * d \in Nat /\ lo * d \in Nat
          /\ hi * d \in Nat /\ b.max * d \in Nat
      <4>1. \A x \in Nat, y \in Nat : x * y \in Nat
        OBVIOUS
      <4> QED BY <1>1, <3>1, <4>1
    <3> DEFINE p == b.min * d
               q == w * e
               r == w * d
               u == b.max * d
               x == lo * d
               y == hi * d
    <3>8. /\ t[j].num = p + q /\ t[j].den = d
      BY <3>2
    <3>9. p + q \in Int
      BY <3>7
    <3>10. t[j] \in Fractions
      <4> HIDE DEF p, q
      <4> QED BY <3>1, <3>2, <3>9 DEF Fractions, p, q
    <3>11. x <= p + q /\ p + q <= y
      <4>1. p \in Nat /\ q \in Nat /\ r \in Nat /\ u \in Nat /\ x \in Nat /\ y \in Nat
            /\ q <= r /\ u = p + r /\ x <= p /\ u <= y
        BY <3>4, <3>5, <3>6, <3>7
      <4> HIDE DEF p, q, r, u, x, y
      <4> QED BY <4>1
    <3>12. j = 1 => p + q = p
      <4>1. e = 0 => w * e = 0
        BY <3>1
      <4>2. j = 1 => q = 0
        BY <3>3, <4>1
      <4> HIDE DEF q
      <4> QED BY <3>7, <4>2
    <3>13. j = n => p + q = u
      BY <3>3, <3>5
    <3>14. lo * t[j].den = x /\ hi * t[j].den = y /\ b.min * t[j].den = p /\ b.max * t[j].den = u
      BY <3>8
    <3> HIDE DEF p, q, r, u, x, y
    <3> QED BY <3>1, <3>8, <3>9, <3>10, <3>11, <3>12, <3>13, <3>14
  <2> QED BY <2>2, <2>3
<1>5. t \in Seq(Fractions) /\ Len(t) = n
  <2>1. t \in [1..n -> Fractions]
    <3> HIDE DEF n, d
    <3> QED BY <1>3, <1>4
  <2> QED BY <1>1, <2>1, IsSequence
<1>6. n > 0 => 1 \in 1..n /\ n \in 1..n
  BY <1>1
<1> HIDE DEF n
<1>7. n > 0 => /\ \E j \in 1..n : t[j].num = b.min * t[j].den
               /\ \E j \in 1..n : t[j].num = b.max * t[j].den
  BY <1>4, <1>6
<1> QED BY <1>4, <1>5, <1>7 DEF t, n

\* The values of one bin come after those of the ones before.
LEMMA DrawsNext ==
  ASSUME NEW bins, Chain(bins, 5), NEW lo \in Nat, NEW hi \in Nat,
         \A k \in 1..5 : bins[k].freq > 0 => lo <= bins[k].min /\ bins[k].max <= hi,
         NEW i \in 1..5, NEW m \in Nat, NEW s, Draws(s, bins, i - 1, m, lo, hi)
  PROVE  Draws(s \o H!Spread(bins[i]), bins, i, m + bins[i].freq, lo, hi)
<1> DEFINE b == bins[i]
           t == H!Spread(b)
           n == b.freq
           u == s \o t
<1>1. GoodBin(b) /\ n \in Nat
  BY BinNumbers DEF Chain
<1>2. /\ t \in Seq(Fractions) /\ Len(t) = n
      /\ \A j \in 1..n : lo * t[j].den <= t[j].num /\ t[j].num <= hi * t[j].den
      /\ n > 0 => /\ \E j \in 1..n : t[j].num = b.min * t[j].den
                  /\ \E j \in 1..n : t[j].num = b.max * t[j].den
  <2> HIDE DEF b
  <2>1. b.freq > 0 => lo <= b.min /\ b.max <= hi
    BY DEF b
  <2> QED BY <1>1, <2>1, SpreadIs
<1>3. /\ s \in Seq(Fractions) /\ Len(s) = m
      /\ \A j \in 1..m : lo * s[j].den <= s[j].num /\ s[j].num <= hi * s[j].den
      /\ \A k \in 1..(i - 1) : bins[k].freq > 0 =>
           /\ \E j \in 1..m : s[j].num = bins[k].min * s[j].den
           /\ \E j \in 1..m : s[j].num = bins[k].max * s[j].den
  BY DEF Draws
<1> HIDE DEF t, n
<1>4. /\ u \in Seq(Fractions) /\ Len(u) = m + n
      /\ \A j \in 1..m : u[j] = s[j]
      /\ \A j \in 1..n : u[m + j] = t[j]
  <2>1. /\ s \o t \in Seq(Fractions) /\ Len(s \o t) = Len(s) + Len(t)
        /\ \A j \in 1..Len(s) : (s \o t)[j] = s[j]
        /\ \A j \in 1..Len(t) : (s \o t)[Len(s) + j] = t[j]
    <3>1. s \in Seq(Fractions) /\ t \in Seq(Fractions)
      BY <1>2, <1>3
    <3> QED BY <3>1, Appended
  <2> QED BY <1>2, <1>3, <2>1
<1> HIDE DEF u
<1>5. /\ \A j \in 1..m : j \in 1..(m + n)
      /\ \A j \in 1..n : m + j \in 1..(m + n)
      /\ \A j \in 1..(m + n) : j \in 1..m \/ (j - m \in 1..n /\ m + (j - m) = j)
  BY <1>1
<1>6. ASSUME NEW j \in 1..(m + n) PROVE lo * u[j].den <= u[j].num /\ u[j].num <= hi * u[j].den
  <2>1. CASE j \in 1..m
    <3>1. u[j] = s[j]
      BY <1>4, <2>1
    <3> QED BY <1>3, <2>1, <3>1
  <2>2. CASE j - m \in 1..n /\ m + (j - m) = j
    <3>1. u[j] = t[j - m]
      BY <1>4, <2>2
    <3> QED BY <1>2, <2>2, <3>1
  <2> QED BY <1>5, <2>1, <2>2
<1>7. ASSUME NEW k \in 1..i, bins[k].freq > 0
      PROVE  /\ \E j \in 1..(m + n) : u[j].num = bins[k].min * u[j].den
             /\ \E j \in 1..(m + n) : u[j].num = bins[k].max * u[j].den
  <2>1. CASE k = i
    <3>1. n > 0
      BY <1>7, <2>1 DEF n
    <3>2. PICK x \in 1..n : t[x].num = b.min * t[x].den
      BY <1>2, <3>1
    <3>3. PICK y \in 1..n : t[y].num = b.max * t[y].den
      BY <1>2, <3>1
    <3>4. u[m + x] = t[x] /\ u[m + y] = t[y] /\ m + x \in 1..(m + n) /\ m + y \in 1..(m + n)
      BY <1>4, <1>5
    <3> QED BY <2>1, <3>2, <3>3, <3>4
  <2>2. CASE k # i
    <3>1. k \in 1..(i - 1)
      BY <2>2
    <3>2. PICK x \in 1..m : s[x].num = bins[k].min * s[x].den
      BY <1>3, <1>7, <3>1
    <3>3. PICK y \in 1..m : s[y].num = bins[k].max * s[y].den
      BY <1>3, <1>7, <3>1
    <3>4. u[x] = s[x] /\ u[y] = s[y] /\ x \in 1..(m + n) /\ y \in 1..(m + n)
      BY <1>4, <1>5
    <3> QED BY <3>2, <3>3, <3>4
  <2> QED BY <2>1, <2>2
<1>8. Draws(u, bins, i, m + n, lo, hi)
  BY <1>4, <1>6, <1>7 DEF Draws
<1> QED BY <1>8 DEF u, t, n

\* Every value is drawn from (Histogram::randomValue).
LEMMA RandomValuesAre ==
  ASSUME NEW h, HistOK(h) \/ h = H!Empty
  PROVE  /\ HistOK(h) => Draws(H!RandomValues(h), h.bins, 5, h.num_elems, h.min_value, h.max_value)
         /\ h = H!Empty => H!RandomValues(h) = <<>>
<1> DEFINE n == Len(h.bins)
           Is(a) == a = [i \in 0..n |-> IF i = 0 THEN <<>> ELSE a[i - 1] \o H!Spread(h.bins[i])]
           F == [i \in 1..n |-> [t \in Seq(Fractions) |-> t \o H!Spread(h.bins[i])]]
<1>1. n \in Nat /\ (HistOK(h) => n = 5) /\ (h = H!Empty => n = 0)
  <2>1. HistOK(h) => n = 5
    BY DEF HistOK, Chain
  <2>2. h = H!Empty => n = 0
    <3>1. h = H!Empty => h.bins = <<>>
      BY DEF H!Empty
    <3> QED BY <3>1
  <2> QED BY <2>1, <2>2
<1>2. \A i \in 1..n : H!Spread(h.bins[i]) \in Seq(Fractions)
  <2> SUFFICES ASSUME NEW i \in 1..n PROVE H!Spread(h.bins[i]) \in Seq(Fractions)
    OBVIOUS
  <2>1. HistOK(h)
    BY <1>1
  <2>2. i \in 1..5
    BY <1>1, <2>1
  <2> DEFINE b == h.bins[i]
  <2>3. GoodBin(b) /\ h.min_value \in Nat /\ h.max_value \in Nat
        /\ (b.freq > 0 => h.min_value <= b.min /\ b.max <= h.max_value)
    BY <2>1, <2>2, HistNumbers DEF HistOK, Chain, Spans
  <2> HIDE DEF b
  <2>4. H!Spread(b) \in Seq(Fractions)
    BY <2>3, SpreadIs
  <2> QED BY <2>4 DEF b
<1> HIDE DEF n
<1>3. F \in [1..n -> [Seq(Fractions) -> Seq(Fractions)]]
  <2>1. \A i \in 1..n : \A t \in Seq(Fractions) : t \o H!Spread(h.bins[i]) \in Seq(Fractions)
    BY <1>2, Appended
  <2> QED BY <2>1
<1>4. PICK g : Recursive(g, n, Seq(Fractions), <<>>, F)
  <2>1. <<>> \in Seq(Fractions)
    OBVIOUS
  <2> HIDE DEF F
  <2> QED BY <1>1, <1>3, <2>1, Recursion
<1>5. g \in [0..n -> Seq(Fractions)] /\ g[0] = <<>> /\ \A i \in 1..n : g[i] = g[i - 1] \o H!Spread(h.bins[i])
  <2>1. \A i \in 1..n : i - 1 \in 0..n
    BY <1>1
  <2> QED BY <1>4, <2>1 DEF Recursive
<1>6. Is(g)
  <2>1. \A i \in 0..n : i # 0 => i \in 1..n
    BY <1>1
  <2> QED BY <1>5, <2>1
<1>7. H!RandomValues(h) = (CHOOSE a : Is(a))[n]
  BY DEF H!RandomValues, n
<1>8. PICK a : a = CHOOSE c : Is(c)
  OBVIOUS
<1>9. Is(a)
  <2> HIDE DEF Is
  <2> QED BY <1>6, <1>8, Zenon
<1>10. a[0] = <<>> /\ \A i \in 1..n : a[i] = a[i - 1] \o H!Spread(h.bins[i])
  <2>1. 0 \in 0..n /\ \A i \in 1..n : i # 0 /\ i \in 0..n
    BY <1>1
  <2>2. \A i \in 0..n : a[i] = IF i = 0 THEN <<>> ELSE a[i - 1] \o H!Spread(h.bins[i])
    BY <1>9
  <2>3. a[0] = <<>>
    BY <2>1, <2>2
  <2>4. \A i \in 1..n : a[i] = a[i - 1] \o H!Spread(h.bins[i])
    BY <2>1, <2>2
  <2> QED BY <2>3, <2>4
<1>11. ASSUME h = H!Empty PROVE H!RandomValues(h) = <<>>
  BY <1>1, <1>7, <1>8, <1>10, <1>11
<1>12. ASSUME HistOK(h)
       PROVE  Draws(H!RandomValues(h), h.bins, 5, h.num_elems, h.min_value, h.max_value)
  <2> DEFINE f(i) == h.bins[i].freq
             D(s, i, m) == Draws(s, h.bins, i, m, h.min_value, h.max_value)
  <2>1. n = 5 /\ Chain(h.bins, 5)
    BY <1>1, <1>12 DEF HistOK
  <2>2. h.min_value \in Nat /\ h.max_value \in Nat
    BY <1>12, HistNumbers
  <2>3. \A k \in 1..5 : h.bins[k].freq > 0 => h.min_value <= h.bins[k].min /\ h.bins[k].max <= h.max_value
    BY <1>12 DEF HistOK, Spans
  <2>4. \A k \in 1..5 : f(k) \in Nat
    BY <2>1, BinNumbers DEF Chain
  <2>5. ASSUME NEW i \in 1..5, NEW m \in Nat, D(a[i - 1], i - 1, m) PROVE D(a[i], i, m + f(i))
    <3>1. a[i] = a[i - 1] \o H!Spread(h.bins[i])
      BY <1>10, <2>1
    <3>2. D(a[i - 1] \o H!Spread(h.bins[i]), i, m + f(i))
      BY <2>1, <2>2, <2>3, <2>5, DrawsNext
    <3> QED BY <3>1, <3>2
  <2>6. D(a[0], 0, 0)
    <3>1. <<>> \in Seq(Fractions) /\ Len(<<>>) = 0 /\ 1..0 = {}
      OBVIOUS
    <3> QED BY <1>10, <3>1 DEF Draws
  <2> HIDE DEF D
  <2>7. /\ 1 - 1 = 0 /\ 2 - 1 = 1 /\ 3 - 1 = 2 /\ 4 - 1 = 3 /\ 5 - 1 = 4
        /\ 1 \in 1..5 /\ 2 \in 1..5 /\ 3 \in 1..5 /\ 4 \in 1..5 /\ 5 \in 1..5 /\ 0 \in Nat
    OBVIOUS
  <2>8. f(1) \in Nat /\ f(2) \in Nat /\ f(3) \in Nat /\ f(4) \in Nat /\ f(5) \in Nat
    BY <2>4, <2>7
  <2>9. Count(h.bins) = f(1) + f(2) + f(3) + f(4) + f(5)
    BY DEF Count
  <2> HIDE DEF f
  <2>10. D(a[1], 1, 0 + f(1)) /\ 0 + f(1) \in Nat
    BY <2>5, <2>6, <2>7, <2>8
  <2>11. D(a[2], 2, 0 + f(1) + f(2)) /\ 0 + f(1) + f(2) \in Nat
    BY <2>5, <2>7, <2>8, <2>10
  <2>12. D(a[3], 3, 0 + f(1) + f(2) + f(3)) /\ 0 + f(1) + f(2) + f(3) \in Nat
    BY <2>5, <2>7, <2>8, <2>11
  <2>13. D(a[4], 4, 0 + f(1) + f(2) + f(3) + f(4)) /\ 0 + f(1) + f(2) + f(3) + f(4) \in Nat
    BY <2>5, <2>7, <2>8, <2>12
  <2>14. D(a[5], 5, 0 + f(1) + f(2) + f(3) + f(4) + f(5))
    BY <2>5, <2>7, <2>13
  <2>15. 0 + f(1) + f(2) + f(3) + f(4) + f(5) = h.num_elems
    <3>1. Count(h.bins) = h.num_elems
      BY <1>12 DEF HistOK
    <3> QED BY <2>8, <2>9, <3>1
  <2>16. H!RandomValues(h) = a[5]
    BY <1>7, <1>8, <2>1
  <2> QED BY <2>14, <2>15, <2>16 DEF D
<1> QED BY <1>11, <1>12
-----------------------------------------------------------------------------
(* The histograms of the ranks. *)

\* A histogram represents the values of by, each with a rank that added it.
Represents(h, by) ==
  \/ h = H!Empty /\ by = {}
  \/ /\ HistOK(h) /\ by \subseteq Nat \X Recorders
     /\ \A p \in by : h.min_value <= p[1] /\ p[1] <= h.max_value
     /\ <<h.min_value, h.min_rank>> \in by
     /\ \E p \in by : p[1] = h.max_value

\* The strengthening that every addition and every merge preserves.
HistogramsInv ==
  /\ alive \subseteq Recorders
  /\ histogram \in [Recorders -> Histograms]
  /\ added \in [Recorders -> [count : Nat, sum : Nat, by : SUBSET (Nat \X Recorders)]]
  /\ \A r \in Recorders : Represents(histogram[r], added[r].by)

\* One value more.
LEMMA RepresentsMore ==
  ASSUME NEW h, NEW by, Represents(h, by), NEW v \in Nat, NEW r \in Recorders
  PROVE  Represents(H!Add(h, v, r), by \cup {<<v, r>>})
<1> DEFINE w == H!Add(h, v, r)
           now == by \cup {<<v, r>>}
<1>1. More(w, h, v, r)
  BY AddIs DEF Represents, Owners
<1> HIDE DEF w
<1>2. HistOK(w) /\ <<v, r>> \in Nat \X Recorders /\ <<v, r>>[1] = v
  BY <1>1 DEF More
<1>3. CASE h = H!Empty /\ by = {}
  <2>1. w.min_value = v /\ w.max_value = v /\ w.min_rank = r
    BY <1>1, <1>3 DEF More
  <2>2. now = {<<v, r>>}
    BY <1>3
  <2> QED BY <1>2, <2>1, <2>2 DEF Represents, w
<1>4. CASE ~(h = H!Empty /\ by = {})
  <2>1. /\ HistOK(h) /\ by \subseteq Nat \X Recorders
        /\ \A p \in by : h.min_value <= p[1] /\ p[1] <= h.max_value
        /\ <<h.min_value, h.min_rank>> \in by
        /\ \E p \in by : p[1] = h.max_value
    BY <1>4 DEF Represents
  <2>2. /\ w.min_value = Lower(h.min_value, v)
        /\ w.max_value = Upper(h.max_value, v)
        /\ w.min_rank = IF v < h.min_value THEN r ELSE h.min_rank
    BY <1>1, <2>1 DEF More
  <2>3. h.min_value \in Nat /\ h.max_value \in Nat
    BY <2>1, HistNumbers
  <2>4. /\ w.min_value \in Nat /\ w.max_value \in Nat
        /\ w.min_value <= h.min_value /\ w.min_value <= v /\ h.max_value <= w.max_value /\ v <= w.max_value
    BY <2>2, <2>3 DEF Lower, Upper
  <2>5. \A p \in by : p[1] \in Nat
    BY <2>1
  <2>6. \A p \in now : w.min_value <= p[1] /\ p[1] <= w.max_value
    BY <1>2, <2>1, <2>3, <2>4, <2>5
  <2>7. <<w.min_value, w.min_rank>> \in now
    BY <2>1, <2>2 DEF Lower
  <2>8. \E p \in now : p[1] = w.max_value
    BY <1>2, <2>1, <2>2 DEF Upper
  <2>9. now \subseteq Nat \X Recorders
    BY <1>2, <2>1
  <2> QED BY <1>2, <2>6, <2>7, <2>8, <2>9 DEF Represents, w
<1> QED BY <1>3, <1>4

\* Two histograms in one.
LEMMA RepresentsBoth ==
  ASSUME NEW g, NEW gs, Represents(g, gs), g.num_elems > 0,
         NEW o, NEW os, Represents(o, os), o.num_elems > 0
  PROVE  Represents(H!Merge(g, o), gs \cup os)
<1> DEFINE w == H!Merge(g, o)
           now == gs \cup os
<1>1. g # H!Empty /\ o # H!Empty
  BY DEF H!Empty
<1>2. /\ HistOK(g) /\ gs \subseteq Nat \X Recorders
      /\ \A p \in gs : g.min_value <= p[1] /\ p[1] <= g.max_value
      /\ <<g.min_value, g.min_rank>> \in gs
      /\ \E p \in gs : p[1] = g.max_value
  BY <1>1 DEF Represents
<1>3. /\ HistOK(o) /\ os \subseteq Nat \X Recorders
      /\ \A p \in os : o.min_value <= p[1] /\ p[1] <= o.max_value
      /\ <<o.min_value, o.min_rank>> \in os
      /\ \E p \in os : p[1] = o.max_value
  BY <1>1 DEF Represents
<1>4. Merged(w, g, o)
  BY <1>2, <1>3, MergeIs
<1> HIDE DEF w
<1>5. /\ HistOK(w)
      /\ \/ w.min_value = g.min_value /\ w.min_rank = g.min_rank
         \/ w.min_value = o.min_value /\ w.min_rank = o.min_rank
      /\ w.min_value <= g.min_value /\ w.min_value <= o.min_value
      /\ g.max_value <= w.max_value /\ o.max_value <= w.max_value
      /\ w.max_value = g.max_value \/ w.max_value = o.max_value
  BY <1>4 DEF Merged
<1>6. /\ g.min_value \in Nat /\ g.max_value \in Nat /\ o.min_value \in Nat /\ o.max_value \in Nat
      /\ w.min_value \in Nat /\ w.max_value \in Nat
  BY <1>2, <1>3, <1>5, HistNumbers
<1>7. \A p \in now : w.min_value <= p[1] /\ p[1] <= w.max_value
  <2>1. \A p \in gs : p[1] \in Nat
    BY <1>2
  <2>2. \A p \in os : p[1] \in Nat
    BY <1>3
  <2>3. \A p \in gs : w.min_value <= p[1] /\ p[1] <= w.max_value
    BY <1>2, <1>5, <1>6, <2>1
  <2>4. \A p \in os : w.min_value <= p[1] /\ p[1] <= w.max_value
    BY <1>3, <1>5, <1>6, <2>2
  <2> QED BY <2>3, <2>4
<1>8. <<w.min_value, w.min_rank>> \in now
  BY <1>2, <1>3, <1>5
<1>9. \E p \in now : p[1] = w.max_value
  BY <1>2, <1>3, <1>5
<1>10. now \subseteq Nat \X Recorders
  BY <1>2, <1>3
<1> QED BY <1>5, <1>7, <1>8, <1>9, <1>10 DEF Represents, w

\* Ranks start with nothing.
LEMMA HistogramsInit == H!Init => HistogramsInv
<1> SUFFICES ASSUME H!Init PROVE HistogramsInv
  OBVIOUS
<1>1. histogram = [r \in Recorders |-> H!Empty] /\ alive = Recorders /\ added = [r \in Recorders |-> H!Nothing]
  BY DEF H!Init
<1>2. H!Empty \in Histograms
  <2>1. /\ 0 \in Nat /\ 0 \in Int /\ 1 \in Int /\ -1 \in Owners /\ <<>> \in Seq(H!Bins)
    BY DEF Owners
  <2> QED BY <2>1 DEF H!Empty, Histograms
<1>3. H!Nothing \in [count : Nat, sum : Nat, by : SUBSET (Nat \X Recorders)] /\ H!Nothing.by = {}
  BY DEF H!Nothing
<1> QED BY <1>1, <1>2, <1>3 DEF HistogramsInv, Represents

\* Adding a value and merging two histograms keep what they represent.
LEMMA HistogramsStep == HistogramsInv /\ (H!Next \/ UNCHANGED histogramVars) => HistogramsInv'
<1> SUFFICES ASSUME HistogramsInv, H!Next \/ UNCHANGED histogramVars PROVE HistogramsInv'
  OBVIOUS
<1> DEFINE Sums == [count : Nat, sum : Nat, by : SUBSET (Nat \X Recorders)]
<1>1. /\ alive \subseteq Recorders
      /\ histogram \in [Recorders -> Histograms]
      /\ added \in [Recorders -> Sums]
      /\ \A r \in Recorders : Represents(histogram[r], added[r].by)
  BY DEF HistogramsInv
<1>2. \A r \in Recorders : /\ added[r].count \in Nat /\ added[r].sum \in Nat
                           /\ added[r].by \in SUBSET (Nat \X Recorders)
  BY <1>1
<1>3. \A h, by : Represents(h, by) => h \in Histograms
  <2>1. H!Empty \in Histograms
    <3>1. /\ 0 \in Nat /\ 0 \in Int /\ 1 \in Int /\ -1 \in Owners /\ <<>> \in Seq(H!Bins)
      BY DEF Owners
    <3> QED BY <3>1 DEF H!Empty, Histograms
  <2> QED BY <2>1 DEF Represents, HistOK
<1>4. CASE UNCHANGED histogramVars
  BY <1>1, <1>4 DEF histogramVars, HistogramsInv
<1>5. ASSUME NEW r \in Recorders, NEW v \in Values, H!AddValue(r, v) PROVE HistogramsInv'
  <2> DEFINE h == H!Add(histogram[r], v, r)
             a == [count |-> added[r].count + 1, sum |-> added[r].sum + v, by |-> added[r].by \cup {<<v, r>>}]
  <2>1. /\ histogram' = [histogram EXCEPT ![r] = h]
        /\ added' = [added EXCEPT ![r] = a]
        /\ alive' = alive
    BY <1>5 DEF H!AddValue
  <2>2. v \in Nat
    BY EncodingsAssumption DEF H!ConstantsOK
  <2>3. Represents(h, added[r].by \cup {<<v, r>>})
    BY <1>1, <2>2, RepresentsMore
  <2>4. a \in Sums /\ a.by = added[r].by \cup {<<v, r>>}
    <3>1. <<v, r>> \in Nat \X Recorders
      BY <2>2
    <3> QED BY <1>2, <2>2, <3>1
  <2>5. h \in Histograms
    BY <1>3, <2>3
  <2> HIDE DEF h, a, Sums
  <2>6. /\ histogram' \in [Recorders -> Histograms] /\ histogram'[r] = h
        /\ \A x \in Recorders : x # r => histogram'[x] = histogram[x]
    BY <1>1, <2>1, <2>5
  <2>7. /\ added' \in [Recorders -> Sums] /\ added'[r] = a
        /\ \A x \in Recorders : x # r => added'[x] = added[x]
    BY <1>1, <2>1, <2>4
  <2>8. \A x \in Recorders : Represents(histogram'[x], added'[x].by)
    BY <1>1, <2>3, <2>4, <2>6, <2>7
  <2> QED BY <1>1, <2>1, <2>6, <2>7, <2>8 DEF HistogramsInv, Sums
<1>6. ASSUME NEW r \in Recorders, NEW q \in Recorders, H!MergeInto(r, q) PROVE HistogramsInv'
  <2> DEFINE h == H!Merge(histogram[r], histogram[q])
             a == [count |-> added[r].count + added[q].count, sum |-> added[r].sum + added[q].sum,
                   by |-> added[r].by \cup added[q].by]
  <2>1. /\ r # q /\ histogram[r].num_elems > 0 /\ histogram[q].num_elems > 0
        /\ histogram' = [histogram EXCEPT ![r] = h, ![q] = H!Empty]
        /\ added' = [added EXCEPT ![r] = a, ![q] = H!Nothing]
        /\ alive' = alive \ {q}
    BY <1>6 DEF H!MergeInto
  <2>2. Represents(h, added[r].by \cup added[q].by)
    BY <1>1, <2>1, RepresentsBoth
  <2>3. a \in Sums /\ a.by = added[r].by \cup added[q].by
    <3>1. added[r].by \cup added[q].by \in SUBSET (Nat \X Recorders)
      BY <1>2
    <3>2. added[r].count + added[q].count \in Nat /\ added[r].sum + added[q].sum \in Nat
      BY <1>2
    <3> QED BY <3>1, <3>2
  <2>4. Represents(H!Empty, {}) /\ H!Nothing \in Sums /\ H!Nothing.by = {}
    BY DEF Represents, H!Nothing
  <2>5. h \in Histograms /\ H!Empty \in Histograms
    BY <1>3, <2>2, <2>4
  <2> HIDE DEF h, a, Sums
  <2>6. /\ histogram' \in [Recorders -> Histograms] /\ histogram'[r] = h /\ histogram'[q] = H!Empty
        /\ \A x \in Recorders : x # r /\ x # q => histogram'[x] = histogram[x]
    BY <1>1, <2>1, <2>5
  <2>7. /\ added' \in [Recorders -> Sums] /\ added'[r] = a /\ added'[q] = H!Nothing
        /\ \A x \in Recorders : x # r /\ x # q => added'[x] = added[x]
    BY <1>1, <2>1, <2>3, <2>4
  <2>8. \A x \in Recorders : Represents(histogram'[x], added'[x].by)
    BY <1>1, <2>2, <2>3, <2>4, <2>6, <2>7
  <2> QED BY <1>1, <2>1, <2>6, <2>7, <2>8 DEF HistogramsInv, Sums
<1> QED BY <1>4, <1>5, <1>6 DEF H!Next

\* What the bins hold.
LEMMA BinsGive == HistogramsInv => H!BinsHoldTheirValues
<1> SUFFICES ASSUME HistogramsInv PROVE H!BinsHoldTheirValues
  OBVIOUS
<1>1. ASSUME NEW r \in Recorders
      PROVE  LET bins == histogram[r].bins
             IN  /\ bins \in Seq(H!Bins)
                 /\ Len(bins) = IF histogram[r].num_elems = 0 THEN 0 ELSE 5
                 /\ \A i \in DOMAIN bins :
                      /\ bins[i].start = IF i = 1 THEN 0 ELSE bins[i - 1].end
                      /\ bins[i].start <= bins[i].end
                      /\ bins[i].freq > 0 =>
                           /\ bins[i].start <= bins[i].min /\ bins[i].min <= bins[i].max /\ bins[i].max <= bins[i].end
                           /\ bins[i].min * bins[i].freq <= bins[i].sum /\ bins[i].sum <= bins[i].max * bins[i].freq
  <2> DEFINE h == histogram[r]
             bins == h.bins
  <2>1. h = H!Empty \/ HistOK(h)
    BY DEF HistogramsInv, Represents
  <2>2. CASE h = H!Empty
    <3>1. bins = <<>> /\ h.num_elems = 0
      BY <2>2 DEF H!Empty
    <3>2. <<>> \in Seq(H!Bins) /\ Len(<<>>) = 0 /\ DOMAIN <<>> = {}
      OBVIOUS
    <3> HIDE DEF h, bins
    <3>3. bins \in Seq(H!Bins) /\ Len(bins) = 0 /\ DOMAIN bins = {}
      BY <3>1, <3>2
    <3> QED BY <3>1, <3>3 DEF bins, h
  <2>3. CASE HistOK(h)
    <3> HIDE DEF h
    <3>1. Chain(bins, 5) /\ h.num_elems # 0
      BY <2>3, HistNumbers DEF HistOK
    <3> HIDE DEF bins
    <3>2. bins \in Seq(H!Bins) /\ Len(bins) = 5 /\ DOMAIN bins = 1..5
      BY <3>1 DEF Chain
    <3>3. ASSUME NEW i \in 1..5
          PROVE  /\ bins[i].start = IF i = 1 THEN 0 ELSE bins[i - 1].end
                 /\ bins[i].start <= bins[i].end
                 /\ bins[i].freq > 0 =>
                      /\ bins[i].start <= bins[i].min /\ bins[i].min <= bins[i].max /\ bins[i].max <= bins[i].end
                      /\ bins[i].min * bins[i].freq <= bins[i].sum /\ bins[i].sum <= bins[i].max * bins[i].freq
      <4> DEFINE b == bins[i]
      <4>1. GoodBin(b) /\ b.start = IF i = 1 THEN 0 ELSE bins[i - 1].end
        BY <3>1 DEF Chain
      <4> HIDE DEF b
      <4>2. /\ b.min \in Nat /\ b.max \in Nat /\ b.sum \in Nat /\ b.freq \in Nat /\ b.start <= b.end
            /\ b.freq > 0 => b.start <= b.min /\ b.min <= b.max /\ b.max <= b.end
        BY <4>1, BinNumbers
      <4>3. ASSUME b.freq > 0 PROVE b.min * b.freq <= b.sum /\ b.sum <= b.max * b.freq
        <5>1. b.min * (b.freq - 1) + b.max <= b.sum /\ b.sum <= b.min + b.max * (b.freq - 1)
          BY <4>1, <4>3 DEF GoodBin
        <5>2. /\ b.min * b.freq = b.min * (b.freq - 1) + b.min /\ b.max * b.freq = b.max * (b.freq - 1) + b.max
              /\ b.min * (b.freq - 1) \in Nat /\ b.max * (b.freq - 1) \in Nat
          BY <4>2, <4>3, OneMore
        <5> DEFINE x == b.min * (b.freq - 1)
                   y == b.max * (b.freq - 1)
                   u == b.min * b.freq
                   w == b.max * b.freq
        <5>3. /\ x \in Nat /\ y \in Nat /\ u = x + b.min /\ w = y + b.max
              /\ x + b.max <= b.sum /\ b.sum <= b.min + y /\ b.min <= b.max
          BY <4>2, <4>3, <5>1, <5>2
        <5>4. b.min \in Nat /\ b.max \in Nat /\ b.sum \in Nat
          BY <4>2
        <5> HIDE DEF x, y, u, w
        <5>5. u <= b.sum /\ b.sum <= w
          BY <5>3, <5>4
        <5> QED BY <5>5 DEF u, w
      <4> QED BY <4>1, <4>2, <4>3 DEF b
    <3> QED BY <3>1, <3>2, <3>3 DEF bins, h
  <2> QED BY <2>1, <2>2, <2>3
<1>2. alive \subseteq Recorders
  BY DEF HistogramsInv
<1>3. H!TypeOK
  BY <1>1, <1>2 DEF H!TypeOK, H!NUM_BINS
<1>4. \A r \in alive : r \in Recorders
  BY <1>2
<1> QED BY <1>1, <1>3, <1>4 DEF H!BinsHoldTheirValues

\* The extremes are those of the values.
LEMMA ExtremesGive == HistogramsInv => H!ExtremesKept
<1> SUFFICES ASSUME HistogramsInv, NEW r \in alive, {p[1] : p \in added[r].by} # {}
             PROVE  /\ histogram[r].min_value = H!Min({p[1] : p \in added[r].by})
                    /\ histogram[r].max_value = H!Max({p[1] : p \in added[r].by})
                    /\ <<histogram[r].min_value, histogram[r].min_rank>> \in added[r].by
  BY DEF H!ExtremesKept
<1> DEFINE h == histogram[r]
           by == added[r].by
           values == {p[1] : p \in by}
<1>1. Represents(h, by)
  BY DEF HistogramsInv
<1>2. by # {}
  OBVIOUS
<1> HIDE DEF h, by
<1>3. /\ HistOK(h) /\ by \subseteq Nat \X Recorders
      /\ \A p \in by : h.min_value <= p[1] /\ p[1] <= h.max_value
      /\ <<h.min_value, h.min_rank>> \in by
      /\ \E p \in by : p[1] = h.max_value
  BY <1>1, <1>2 DEF Represents
<1>4. h.min_value \in Nat /\ h.max_value \in Nat
  BY <1>3, HistNumbers
<1>5. \A p \in by : p[1] \in Nat
  BY <1>3
<1>6. values \subseteq Nat /\ values \subseteq 0..h.max_value
  BY <1>3, <1>4, <1>5
<1>7. h.min_value \in values /\ h.max_value \in values
  <2>1. <<h.min_value, h.min_rank>>[1] = h.min_value
    OBVIOUS
  <2> QED BY <1>3, <2>1
<1>8. \A x \in values : h.min_value <= x /\ x <= h.max_value
  BY <1>3
<1> HIDE DEF values
<1>9. Min(values) = h.min_value
  <2>1. Min(values) \in values /\ \A x \in values : Min(values) <= x
    BY <1>6, <1>7, Smallest
  <2>2. Min(values) \in Nat /\ Min(values) <= h.min_value /\ h.min_value <= Min(values)
    BY <1>6, <1>7, <1>8, <2>1
  <2> QED BY <1>4, <2>2
<1>10. Max(values) = h.max_value
  <2>1. Max(values) \in values /\ \A x \in values : x <= Max(values)
    BY <1>4, <1>6, <1>7, Largest
  <2>2. Max(values) \in Nat /\ h.max_value <= Max(values) /\ Max(values) <= h.max_value
    BY <1>6, <1>7, <1>8, <2>1
  <2> QED BY <1>4, <2>2
<1>11. H!Min(values) = Min(values) /\ H!Max(values) = Max(values)
  BY DEF H!Min, H!Max, Min, Max
<1> QED BY <1>3, <1>9, <1>10, <1>11 DEF values, by, h

\* What may be drawn.
LEMMA DrawsGive == HistogramsInv => H!DrawsSpanTheValues
<1> SUFFICES ASSUME HistogramsInv, NEW r \in alive
             PROVE  LET h == histogram[r]
                        drawn == H!RandomValues(h)
                    IN  /\ Len(drawn) = h.num_elems
                        /\ \A k \in DOMAIN drawn :
                             /\ h.min_value * drawn[k].den <= drawn[k].num
                             /\ drawn[k].num <= h.max_value * drawn[k].den
                        /\ drawn # <<>> =>
                             /\ \E k \in DOMAIN drawn : drawn[k].num = h.min_value * drawn[k].den
                             /\ \E k \in DOMAIN drawn : drawn[k].num = h.max_value * drawn[k].den
  BY DEF H!DrawsSpanTheValues
<1> DEFINE h == histogram[r]
           drawn == H!RandomValues(h)
<1>1. h = H!Empty \/ HistOK(h)
  BY DEF HistogramsInv, Represents
<1> HIDE DEF h
<1>2. CASE h = H!Empty
  <2>1. drawn = <<>> /\ h.num_elems = 0
    BY <1>2, RandomValuesAre DEF H!Empty
  <2>2. Len(<<>>) = 0 /\ DOMAIN <<>> = {}
    OBVIOUS
  <2> HIDE DEF drawn
  <2>3. Len(drawn) = 0 /\ DOMAIN drawn = {} /\ drawn = <<>>
    BY <2>1, <2>2
  <2> QED BY <2>1, <2>3 DEF drawn, h
<1>3. CASE HistOK(h)
  <2>1. Draws(drawn, h.bins, 5, h.num_elems, h.min_value, h.max_value)
    BY <1>3, RandomValuesAre
  <2> HIDE DEF drawn
  <2>2. /\ Len(drawn) = h.num_elems /\ DOMAIN drawn = 1..h.num_elems
        /\ \A k \in 1..h.num_elems : h.min_value * drawn[k].den <= drawn[k].num /\ drawn[k].num <= h.max_value * drawn[k].den
        /\ \A i \in 1..5 : h.bins[i].freq > 0 =>
             /\ \E k \in 1..h.num_elems : drawn[k].num = h.bins[i].min * drawn[k].den
             /\ \E k \in 1..h.num_elems : drawn[k].num = h.bins[i].max * drawn[k].den
    BY <2>1 DEF Draws
  <2>3. PICK i \in 1..5 : h.bins[i].freq > 0 /\ h.bins[i].min = h.min_value
    BY <1>3 DEF HistOK, Spans
  <2>4. PICK j \in 1..5 : h.bins[j].freq > 0 /\ h.bins[j].max = h.max_value
    BY <1>3 DEF HistOK, Spans
  <2>5. /\ \E k \in 1..h.num_elems : drawn[k].num = h.min_value * drawn[k].den
        /\ \E k \in 1..h.num_elems : drawn[k].num = h.max_value * drawn[k].den
    BY <2>2, <2>3, <2>4
  <2> QED BY <2>2, <2>5 DEF drawn, h
<1> QED BY <1>1, <1>2, <1>3

\* The invariant in the specification.
HistogramsSound == which = "Histogram" => HistogramsInv

\* It holds at the start.
LEMMA HistogramsStart == EncInit => HistogramsSound
BY HistogramsInit DEF EncInit, HistogramsSound

\* Every step keeps it.
LEMMA HistogramsGoOn ==
  HistogramsSound /\ [EncNext]_<<which, ranklistVars, endpointVars, packingVars, histogramVars>> => HistogramsSound'
<1> SUFFICES ASSUME HistogramsSound,
                    [EncNext]_<<which, ranklistVars, endpointVars, packingVars, histogramVars>>,
                    which' = "Histogram"
             PROVE  HistogramsInv'
  BY DEF HistogramsSound
<1>1. which = "Histogram" /\ (H!Next \/ UNCHANGED histogramVars)
  BY DEF EncNext
<1> QED BY <1>1, HistogramsStep DEF HistogramsSound

\* Through additions, tail bins, smoothing and merges in any order the bins
\* stay five and contiguous and hold their values (Histogram::add, smooth and
\* merge).
THEOREM BinsAlwaysHoldTheirValues == EncSpec => []BinsHoldTheirValues
<1>1. HistogramsSound => BinsHoldTheirValues
  BY BinsGive DEF HistogramsSound, BinsHoldTheirValues
<1> QED BY <1>1, HistogramsStart, HistogramsGoOn, PTL DEF EncSpec

\* The smallest and the largest value survive, and the smallest one's rank is
\* one that added it (Histogram::merge).
THEOREM ExtremesStay == EncSpec => []ExtremesKept
<1>1. HistogramsSound => ExtremesKept
  BY ExtremesGive DEF HistogramsSound, ExtremesKept
<1> QED BY <1>1, HistogramsStart, HistogramsGoOn, PTL DEF EncSpec

\* A draw finds a bin, and draws reach from the smallest to the largest value
\* (Histogram::randomValue).
THEOREM DrawsStaySpanning == EncSpec => []DrawsSpanTheValues
<1>1. HistogramsSound => DrawsSpanTheValues
  BY DrawsGive DEF HistogramsSound, DrawsSpanTheValues
<1> QED BY <1>1, HistogramsStart, HistogramsGoOn, PTL DEF EncSpec
=============================================================================
