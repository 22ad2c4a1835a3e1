------------------------- MODULE HistoReplay_proofs -------------------------
(***************************************************************************)
(* Proofs about the probabilistic replay, for every number of ranks, every *)
(* trace, whatever is drawn and however fast the ranks and MPI are:        *)
(* the handle queue gives back no buffer that is in use; where the ranks   *)
(* agree on the members of communicators, both sides of a pair number its  *)
(* messages alike, the receives that are due are posted, and no rank gives *)
(* up that can translate the destinations it reads.                        *)
(***************************************************************************)
EXTENDS HistoReplay, FiniteSetTheorems, WellFoundedInduction, NaturalsInduction, TLAPS

\* Types, beyond those of TypeOK.
Stages == {"setup", "notify", "init", "ready", "compute", "tested", "busy",
           "posting", "act", "collective", "drain", "done", "exit"}
Infos == [time : -1..MaxTime, src : Ranks, tag : Nat, comm : Nat, event : Nat]
InCall == {"compute", "tested", "busy", "act", "collective"}

PlacesInv ==
  /\ job \in Jobs /\ stage \in [Ranks -> Stages] /\ why \in [Ranks -> {"none", "recv", "handler", "final"}]
  /\ at \in [Ranks -> Nat] /\ \A r \in Ranks : at[r] >= 1 /\ at[r] <= Len(job.calls[r]) + 1
  /\ \A r \in Ranks : stage[r] \in InCall \/ (stage[r] = "posting" /\ why[r] # "final") => at[r] <= Len(job.calls[r])
  /\ dests \in [Ranks -> SUBSET Ranks] /\ peers \in [Ranks -> SUBSET Ranks]
  /\ tag \in [Ranks -> Nat] /\ clock \in [Ranks -> 0..Infinity]
ContextInv ==
  /\ read \in [Ranks -> [Ranks -> Nat]] /\ \A r, s \in Ranks : read[r][s] <= Len(job.calls[s])
  /\ rtags \in [Ranks -> [Ranks -> Nat]] /\ stags \in [Ranks -> [Ranks -> Nat]]
  /\ pending \in [Ranks -> SUBSET Infos]
MPIInv ==
  /\ sent \subseteq Messages /\ posted \subseteq Messages
  /\ matched \subseteq sent \X posted /\ buffered \subseteq sent

\* The two vectors of the handle queue are in step.
VectorsInv ==
  /\ requests \in [Ranks -> Seq(Requests)]
  /\ buffers \in [Ranks -> Seq(Requests \cup {NoBuffer})]
  /\ \A r \in Ranks : /\ Len(buffers[r]) = Len(requests[r])
                      /\ \A i \in 1..Len(requests[r]) : buffers[r][i] \in {NoBuffer, requests[r][i]}
TInv == PlacesInv /\ ContextInv /\ MPIInv /\ VectorsInv

\* What was given to MPI stays in the queue until it is complete, and what is
\* given back was complete, or is the buffer all shared.
Given(r) == {[kind |-> "send", msg |-> m] : m \in {x \in sent : x.src = r}}
              \cup {[kind |-> "recv", msg |-> m] : m \in {x \in posted : x.dst = r}}
HeldInv ==
  \A r \in Ranks : \A q \in Given(r) : Complete(q) \/ \E i \in 1..Len(requests[r]) : requests[r][i] = q
FreedInv ==
  /\ freed \in [Ranks -> SUBSET (Requests \cup {Shared})]
  /\ \A r \in Ranks : /\ \A q \in freed[r] \ {Shared} : Complete(q)
                      /\ Shared \in freed[r] => stage[r] = "done" /\ requests[r] = <<>>
QInv == HeldInv /\ FreedInv
-----------------------------------------------------------------------------
\* How many messages a rank sends to another before a call.
Earlier(d, s, k) == {j \in SendsTo(d, s) : j < k}
Count(d, s, k) == Cardinality(Earlier(d, s, k))

\* All destinations of the rank can be translated by itself,
Sane(s) == \A k \in SendCalls(s) : WorldDest(s, s, k) # {}
SaneInv ==
  /\ \A r \in Ranks : stage[r] = "notify" => Sane(r)
  /\ \A r \in Ranks : stage[r] \notin {"setup", "notify", "exit"} => \A s \in Ranks : Sane(s)

\* A context has counted the sends it has read,
CountsRead(r) ==
  \A s \in Ranks : /\ rtags[r][s] = Count(r, s, read[r][s] + 1)
                   /\ \A k \in SendCalls(s) : k <= read[r][s] => WorldDest(r, s, k) # {}
ReadInv == \A r \in Ranks : stage[r] # "exit" => CountsRead(r)

\* and a rank those it has begun to replay.
Begun(r) == stage[r] \in InCall \cup {"posting"}
Reached(r) == IF Begun(r) THEN at[r] + 1 ELSE at[r]
CountsSent(r) ==
  /\ \A d \in Ranks : stags[r][d] = Count(d, r, Reached(r))
  /\ Begun(r) => \A d \in Ranks : at[r] \in SendsTo(d, r) => tag[r] = Count(d, r, at[r])
StagInv == \A r \in Ranks : stage[r] \notin {"exit", "drain", "done"} => CountsSent(r)

\* Infos, messages and receives have the number of the send they are for.
Numbered(d, s, k, t) == k \in SendsTo(d, s) /\ t = Count(d, s, k)
PendingNumbered(r) ==
  \A i \in pending[r] : i.event # 0 =>
    /\ Numbered(r, i.src, i.event, i.tag) /\ i.comm = job.calls[i.src][i.event].comm
    /\ i.src # r => i.event <= read[r][i.src] /\ i.time = job.calls[i.src][i.event].time
PendInv == \A r \in Ranks : stage[r] # "exit" => PendingNumbered(r)
MsgInv ==
  /\ \A m \in sent : Numbered(m.dst, m.src, m.event, m.tag)
  /\ \A n \in posted : Numbered(n.dst, n.src, n.event, n.tag)

\* and MPI lets a message only into a receive of its number.
MatchInv == \A p \in matched : p[1].src = p[2].src /\ p[1].dst = p[2].dst /\ p[1].tag = p[2].tag
CInv == SaneInv /\ ReadInv /\ StagInv /\ PendInv /\ MsgInv /\ MatchInv
-----------------------------------------------------------------------------
\* Peers are other ranks that send something to the rank; it starts to read their
\* traces once it has them all.
PeersInv ==
  /\ \A s \in Ranks : \A d \in dests[s] : d # s /\ \E k \in SendCalls(s) : d \in WorldDest(s, s, k)
  /\ \A r \in Ranks : \A s \in peers[r] : r \in dests[s]
  /\ \A s \in Ranks : stage[s] = "setup" => dests[s] = {}
  /\ \A r \in Ranks : stage[r] \in {"setup", "notify", "init"} => \A s \in Ranks : read[r][s] = 0

\* A send that was read is pending or posted; except in the handler's loop, a
\* sender that is not read to its end has a send pending.
PostedFor(r, s, k) == \E n \in posted : n.src = s /\ n.dst = r /\ n.event = k
PendingFor(r, s, k) == \E i \in pending[r] : i.src = s /\ i.event = k
ReadEnough(r) ==
  /\ \A i \in pending[r] : i.event # 0
  /\ \A s \in peers[r] : \A k \in SendsTo(r, s) :
       k <= read[r][s] => PostedFor(r, s, k) \/ PendingFor(r, s, k)
  /\ ~(stage[r] = "posting" /\ why[r] = "handler") =>
       \A s \in peers[r] : (\E i \in pending[r] : i.src = s) \/ (\A k \in SendsTo(r, s) : k <= read[r][s])
FoundInv == \A r \in Ranks : stage[r] \notin {"setup", "notify", "init", "exit"} => ReadEnough(r)
DInv == PeersInv /\ FoundInv /\ DuePosted

\* Every rank can translate its own destinations, those of the ranks that send it
\* something, and these ranks.
Translatable ==
  \A v, s \in Ranks : s = v \/ SendsTo(v, s) # {} =>
    \A k \in SendCalls(s) :
      /\ WorldDest(v, s, k) # {}
      /\ WorldDest(v, s, k) = {v} => TranslateRank(v, s, World, job.calls[s][k].comm) # {}
-----------------------------------------------------------------------------
(* Facts about the operators. *)

\* Numbers have a smallest one.
LEMMA Smallest ==
  ASSUME NEW S, S \subseteq Nat, S # {}
  PROVE  \E k \in S : \A j \in S : k <= j
<1>1. PICK k \in S : \A j \in S : ~(<<j, k>> \in OpToRel(<, Nat))
  BY NatLessThanWellFounded, WFMin, Zenon
<1>2. ASSUME NEW j \in S PROVE k <= j
  <2>1. k \in Nat /\ j \in Nat
    OBVIOUS
  <2>2. ASSUME j < k PROVE <<j, k>> \in OpToRel(<, Nat)
    BY <2>1, <2>2 DEF OpToRel
  <2>3. ~(j < k)
    BY <1>1, <2>2, Zenon
  <2> QED BY <2>1, <2>3
<1> QED BY <1>2

\* The job does not change, and with it what is drawn and translated.
LEMMA SameJob ==
  ASSUME job' = job
  PROVE  /\ \A v, s : Drawn(v, s)' = Drawn(v, s)
         /\ \A s : SendCalls(s)' = SendCalls(s)
         /\ \A v, s, k : LocalDest(v, s, k)' = LocalDest(v, s, k)
         /\ \A v, x, c, d : TranslateRank(v, x, c, d)' = TranslateRank(v, x, c, d)
         /\ \A v, s, k : WorldDest(v, s, k)' = WorldDest(v, s, k)
         /\ \A d, s : SendsTo(d, s)' = SendsTo(d, s)
         /\ \A d, s, k : Count(d, s, k)' = Count(d, s, k)
         /\ \A s : Sane(s)' = Sane(s)
<1>1. \A v, s : Drawn(v, s)' = Drawn(v, s)
  BY DEF Drawn, PeerSeed, NextDraw, GetRandomValue
<1>2. \A s : SendCalls(s)' = SendCalls(s)
  BY DEF SendCalls
<1>3. \A v, s, k : LocalDest(v, s, k)' = LocalDest(v, s, k)
  BY <1>1 DEF LocalDest
<1>4. \A v, x, c, d : TranslateRank(v, x, c, d)' = TranslateRank(v, x, c, d)
  BY DEF TranslateRank
<1>5. \A v, s, k : WorldDest(v, s, k)' = WorldDest(v, s, k)
  <2> TAKE v, s, k
  <2> DEFINE x == LocalDest(v, s, k)
             c == job.calls[s][k].comm
  <2>1. x' = x /\ c' = c
    BY <1>3
  <2> QED BY <2>1 DEF WorldDest, TranslateRank
<1>6. \A d, s : SendsTo(d, s)' = SendsTo(d, s)
  BY <1>2, <1>5 DEF SendsTo
<1>7. \A d, s, k : Count(d, s, k)' = Count(d, s, k)
  BY <1>6 DEF Count, Earlier
<1>8. \A s : Sane(s)' = Sane(s)
  BY <1>2, <1>5 DEF Sane
<1> QED BY <1>1, <1>2, <1>3, <1>4, <1>5, <1>6, <1>7, <1>8

\* Calls are what the traces are made of.
LEMMA CallsTyped ==
  ASSUME job \in Jobs, NEW r \in Ranks
  PROVE  /\ job.calls[r] \in Seq(TraceCalls) /\ Len(job.calls[r]) \in Nat
         /\ DOMAIN job.calls[r] = 1..Len(job.calls[r])
         /\ \A k \in 1..Len(job.calls[r]) : job.calls[r][k] \in TraceCalls
         /\ SendCalls(r) \subseteq 1..Len(job.calls[r])
<1>1. job.calls \in [Ranks -> Seq(TraceCalls)]
  BY JobsAssumption
<1>2. job.calls[r] \in Seq(TraceCalls)
  BY <1>1
<1> QED BY <1>2 DEF SendCalls

\* A remainder, plus one, is an index of a sequence of that length.
LEMMA RemainderRange ==
  ASSUME NEW a \in Nat, NEW n \in Nat \ {0}
  PROVE  a % n \in 0..(n - 1) /\ (a % n) + 1 \in 1..n
OBVIOUS

\* What a context has drawn: a destination is a number, and rand_r was asked at
\* most once for every call.
DrawOk(m, s, k) ==
  /\ m \in [seed : Ranks, drawn : Nat, seen : Seq(Int), dest : Int]
  /\ m.seed = s /\ m.drawn <= k

\* The next draw is one, too.
LEMMA NextDrawOk ==
  ASSUME job \in Jobs, NEW s \in Ranks, NEW k \in Nat, k < Len(job.calls[s]),
         NEW m, DrawOk(m, s, k)
  PROVE  DrawOk(NextDraw(m, job.calls[s][k + 1]), s, k + 1)
<1> DEFINE call == job.calls[s][k + 1]
<1>1. call \in TraceCalls
  BY CallsTyped
<1>2. call.dests \in Seq(Int) /\ call.dests # <<>> /\ Len(call.dests) \in Nat \ {0}
  BY <1>1 DEF TraceCalls
<1>3. /\ m = [seed |-> m.seed, drawn |-> m.drawn, seen |-> m.seen, dest |-> m.dest]
      /\ m.seed = s /\ m.drawn \in Nat /\ m.drawn <= k /\ m.seen \in Seq(Int) /\ m.dest \in Int
  BY DEF DrawOk
<1> HIDE DEF call
<1>4. CASE call.op \notin SendOps
  BY <1>3, <1>4 DEF NextDraw, DrawOk, call
<1>5. CASE call.op \in SendOps /\ ~call.lossy
  <2>1. call.dests[1] \in Int
    BY <1>2
  <2>2. NextDraw(m, call) = [m EXCEPT !.dest = call.dests[1]]
    BY <1>5 DEF NextDraw
  <2> QED BY <1>3, <2>1, <2>2 DEF DrawOk, call
<1>6. CASE call.op \in SendOps /\ call.lossy
  <2> DEFINE rd == job.rands[m.seed][m.drawn + 1]
             full == Len(m.seen) >= Limit
             value == IF full THEN m.seen[(rd % Limit) + 1] ELSE call.dests[(rd % Len(call.dests)) + 1]
             seen == IF \E i \in DOMAIN m.seen : m.seen[i] = value THEN m.seen ELSE Append(m.seen, value)
  <2>1. rd \in Nat
    <3>1. job.rands[s] \in Seq(Nat) /\ Len(job.rands[s]) >= Len(job.calls[s]) /\ Len(job.calls[s]) \in Nat
      BY JobsAssumption, CallsTyped
    <3>2. m.drawn + 1 \in 1..Len(job.rands[s])
      <4>1. Len(job.rands[s]) \in Nat
        BY <3>1
      <4> QED BY <1>3, <3>1, <4>1
    <3>3. PICK q : q = job.rands[s]
      OBVIOUS
    <3>4. PICK n : n = m.drawn + 1
      OBVIOUS
    <3>5. q \in Seq(Nat) /\ n \in 1..Len(q)
      BY <3>1, <3>2, <3>3, <3>4
    <3>6. q[n] \in Nat
      BY <3>5
    <3>7. rd = q[n]
      BY <1>3, <3>3, <3>4
    <3> QED BY <3>6, <3>7
  <2> HIDE DEF rd
  <2>2. value \in Int
    <3>1. ASSUME full PROVE m.seen[(rd % Limit) + 1] \in Int
      <4>1. (rd % Limit) + 1 \in 1..Len(m.seen)
        BY <1>3, <2>1, <3>1, BoundsAssumption
      <4> QED BY <1>3, <4>1
    <3>2. call.dests[(rd % Len(call.dests)) + 1] \in Int
      <4>1. (rd % Len(call.dests)) + 1 \in 1..Len(call.dests)
        BY <1>2, <2>1, RemainderRange
      <4> QED BY <1>2, <4>1
    <3> QED BY <3>1, <3>2
  <2> HIDE DEF value
  <2>3. seen \in Seq(Int)
    BY <1>3, <2>2
  <2>4. NextDraw(m, call) = [m EXCEPT !.drawn = m.drawn + 1, !.dest = value, !.seen = seen]
    BY <1>6 DEF NextDraw, GetRandomValue, value, rd
  <2> HIDE DEF seen
  <2>5. NextDraw(m, call) = [seed |-> m.seed, drawn |-> m.drawn + 1, seen |-> seen, dest |-> value]
    BY <1>3, <2>4
  <2> QED BY <1>3, <2>2, <2>3, <2>5 DEF DrawOk, call
<1> QED BY <1>4, <1>5, <1>6 DEF call

\* A context of any viewer draws as the rank does.
LEMMA SameDraws == \A v, s : Drawn(v, s) = Drawn(s, s)
BY DEF Drawn, PeerSeed

\* The draws of a rank: the recursion has a result, shown for its first calls and
\* then for one more (there would be a smallest number of calls for which it has none).
LEMMA DrawsTyped ==
  ASSUME job \in Jobs, NEW v, NEW s \in Ranks
  PROVE  \A k \in 0..Len(job.calls[s]) : Drawn(v, s)[k].dest \in Int
<1> DEFINE L == Len(job.calls[s])
           Start == [seed |-> s, drawn |-> 0, seen |-> <<>>, dest |-> 0]
           Draws(n, f) == f = [k \in 0..n |-> IF k = 0 THEN Start ELSE NextDraw(f[k - 1], job.calls[s][k])]
           Bad == {n \in 0..L : ~ \E f : Draws(n, f)}
<1>1. L \in Nat
  BY CallsTyped
<1> HIDE DEF L
<1>2. Bad = {}
  <2>1. SUFFICES ASSUME Bad # {} PROVE FALSE
    OBVIOUS
  <2>2. PICK n \in Bad : \A i \in Bad : n <= i
    <3>1. Bad \subseteq Nat
      OBVIOUS
    <3> HIDE DEF Bad
    <3> QED BY <2>1, <3>1, Smallest
  <2>3. n \in Nat /\ n <= L /\ ~ \E f : Draws(n, f)
    BY <1>1
  <2>4. n # 0
    <3> DEFINE f == [k \in 0..0 |-> Start]
    <3>1. Draws(0, f)
      OBVIOUS
    <3> QED BY <2>3, <3>1
  <2>5. PICK f : Draws(n - 1, f)
    <3>1. n - 1 \in Nat /\ n - 1 < n /\ n - 1 \in 0..L
      BY <1>1, <2>3, <2>4
    <3>2. n - 1 \notin Bad
      <4> HIDE DEF Bad
      <4> QED BY <2>2, <2>3, <3>1
    <3> QED BY <3>1, <3>2
  <2> DEFINE g == [k \in 0..n |-> IF k = n THEN NextDraw(f[n - 1], job.calls[s][n]) ELSE f[k]]
  <2>6. \A k \in 0..(n - 1) : f[k] = IF k = 0 THEN Start ELSE NextDraw(f[k - 1], job.calls[s][k])
    BY <2>5
  <2>7. \A k \in 0..n : g[k] = IF k = 0 THEN Start ELSE NextDraw(g[k - 1], job.calls[s][k])
    <3> TAKE k \in 0..n
    <3>1. CASE k = 0
      BY <2>3, <2>4, <2>6, <3>1
    <3>2. CASE k # 0
      <4>1. k - 1 \in 0..n /\ k - 1 # n /\ g[k - 1] = f[k - 1]
        BY <2>3, <3>2
      <4>2. CASE k = n
        BY <4>1, <4>2, <3>2
      <4>3. CASE k # n
        BY <2>3, <2>6, <3>2, <4>1, <4>3
      <4> QED BY <4>2, <4>3
    <3> QED BY <3>1, <3>2
  <2>8. Draws(n, g)
    <3>1. g = [k \in 0..n |-> g[k]]
      OBVIOUS
    <3> HIDE DEF g
    <3> QED BY <2>7, <3>1
  <2> QED BY <2>3, <2>8
<1>3. \E f : Draws(L, f)
  <2> HIDE DEF Draws
  <2>1. L \in 0..L
    BY <1>1
  <2> QED BY <1>2, <2>1
<1> DEFINE draw == Drawn(v, s)
<1>4. Draws(L, draw)
  <2>1. draw = CHOOSE f : Draws(L, f)
    BY DEF Drawn, PeerSeed, L
  <2> HIDE DEF Draws, draw
  <2> QED BY <1>3, <2>1, Zenon
<1> HIDE DEF draw
<1> DEFINE Wrong == {k \in 0..L : ~DrawOk(draw[k], s, k)}
<1>5. Wrong = {}
  <2>1. SUFFICES ASSUME Wrong # {} PROVE FALSE
    OBVIOUS
  <2>2. PICK k \in Wrong : \A i \in Wrong : k <= i
    <3>1. Wrong \subseteq Nat
      OBVIOUS
    <3> HIDE DEF Wrong
    <3> QED BY <2>1, <3>1, Smallest
  <2>3. k \in Nat /\ k <= L /\ ~DrawOk(draw[k], s, k)
    BY <1>1
  <2>4. k # 0
    <3>1. DrawOk(Start, s, 0)
      BY DEF DrawOk
    <3>2. 0 \in 0..L
      BY <1>1
    <3> QED BY <1>4, <2>3, <3>1, <3>2
  <2>5. k - 1 \in Nat /\ k - 1 \in 0..L /\ k - 1 < L /\ k - 1 < k /\ (k - 1) + 1 = k
    BY <1>1, <2>3, <2>4
  <2>6. DrawOk(draw[k - 1], s, k - 1)
    <3>1. k - 1 \notin Wrong
      <4> HIDE DEF Wrong
      <4> QED BY <2>2, <2>3, <2>5
    <3> QED BY <2>5, <3>1
  <2>7. draw[k] = NextDraw(draw[k - 1], job.calls[s][k])
    BY <1>4, <2>3, <2>4, <1>1
  <2>8. DrawOk(NextDraw(draw[k - 1], job.calls[s][(k - 1) + 1]), s, (k - 1) + 1)
    BY <2>5, <2>6, NextDrawOk DEF L
  <2> QED BY <2>3, <2>5, <2>7, <2>8
<1>6. \A k \in 0..L : DrawOk(draw[k], s, k)
  BY <1>5
<1> QED BY <1>6 DEF DrawOk, L, draw

\* The subsequence at a set of indices has the elements there, and no others, at
\* the same places in every sequence it is taken of.
LEMMA KeepFacts ==
  ASSUME NEW n \in Nat, NEW kept \in SUBSET (1..n)
  PROVE  /\ Cardinality(kept) \in Nat
         /\ \E e \in [1..Cardinality(kept) -> kept] :
              /\ \A k \in kept : \E i \in 1..Cardinality(kept) : e[i] = k
              /\ \A s : Keep(s, kept) = [i \in 1..Cardinality(kept) |-> s[e[i]]]
<1> DEFINE N == Cardinality(kept)
           Upto(k) == {i \in kept : i <= k}
           place == [k \in kept |-> Cardinality(Upto(k))]
           e == [i \in 1..N |-> CHOOSE k \in kept : Cardinality(Upto(k)) = i]
<1>1. IsFiniteSet(1..n)
  BY FS_Interval
<1>2. IsFiniteSet(kept) /\ N \in Nat
  BY <1>1, FS_Subset, FS_CardinalityType
<1>3. \A k \in kept : IsFiniteSet(Upto(k)) /\ Cardinality(Upto(k)) \in Nat /\ Cardinality(Upto(k)) <= N
  <2> TAKE k \in kept
  <2>1. Upto(k) \in SUBSET kept
    OBVIOUS
  <2> HIDE DEF Upto
  <2> QED BY <1>2, <2>1, FS_Subset, FS_CardinalityType
<1>4. ASSUME NEW k \in kept, NEW l \in kept, k < l
      PROVE  Cardinality(Upto(k)) < Cardinality(Upto(l))
  <2>1. Upto(k) \in SUBSET Upto(l) /\ l \in Upto(l) /\ l \notin Upto(k)
    <3>1. \A i \in kept : i \in Nat
      OBVIOUS
    <3>2. l \in Upto(l) /\ l \notin Upto(k)
      BY <1>4, <3>1
    <3>3. \A i \in kept : i <= k => i <= l
      BY <1>4, <3>1
    <3> QED BY <3>2, <3>3
  <2>2. Upto(k) # Upto(l)
    BY <2>1
  <2> HIDE DEF Upto
  <2>3. Cardinality(Upto(k)) <= Cardinality(Upto(l)) /\ Cardinality(Upto(k)) # Cardinality(Upto(l))
    BY <1>3, <2>1, <2>2, FS_Subset
  <2> QED BY <1>3, <2>3
<1>5. \A k, l \in kept : place[k] = place[l] => k = l
  <2> SUFFICES ASSUME NEW k \in kept, NEW l \in kept, place[k] = place[l], k # l PROVE FALSE
    OBVIOUS
  <2>1. k < l \/ l < k
    OBVIOUS
  <2> HIDE DEF Upto
  <2>2. Cardinality(Upto(k)) = Cardinality(Upto(l)) /\ Cardinality(Upto(k)) \in Nat
    BY <1>3
  <2> QED BY <1>4, <2>1, <2>2
<1>6. \A k \in kept : place[k] \in 1..N
  <2> TAKE k \in kept
  <2>1. k \in Upto(k)
    OBVIOUS
  <2> HIDE DEF Upto
  <2>2. Cardinality(Upto(k)) # 0
    BY <1>3, <2>1, FS_EmptySet
  <2> QED BY <1>2, <1>3, <2>2
<1>7. place \in Injection(kept, 1..N)
  <2>1. place \in [kept -> 1..N]
    BY <1>6
  <2> HIDE DEF place, N
  <2>2. \A a, b \in kept : place[a] = place[b] => a = b
    BY <1>5, Zenon
  <2> QED BY <2>1, <2>2 DEF Injection, IsInjective
<1>8. IsFiniteSet(1..N) /\ Cardinality(1..N) = N
  BY <1>2, FS_Interval
<1>9. place \in Surjection(kept, 1..N)
  <2> HIDE DEF place, N
  <2>1. Cardinality(kept) = Cardinality(1..N)
    BY <1>8 DEF N
  <2> QED BY <1>7, <1>8, <2>1, FS_Injection
<1>10. \A i \in 1..N : \E k \in kept : Cardinality(Upto(k)) = i
  <2> HIDE DEF Upto
  <2> QED BY <1>9 DEF Surjection
<1>11. \A i \in 1..N : e[i] \in kept /\ Cardinality(Upto(e[i])) = i
  <2> HIDE DEF Upto
  <2> QED BY <1>10
<1>12. e \in [1..N -> kept]
  BY <1>11
<1>13. \A k \in kept : \E i \in 1..N : e[i] = k
  <2> TAKE k \in kept
  <2>1. place[k] \in 1..N /\ place[k] = Cardinality(Upto(k))
    BY <1>6
  <2>2. e[place[k]] \in kept /\ place[e[place[k]]] = place[k]
    <3> HIDE DEF e, Upto
    <3> QED BY <1>11, <2>1
  <2>3. e[place[k]] = k
    <3> HIDE DEF e, place
    <3> QED BY <1>5, <2>2
  <2> QED BY <2>1, <2>3
<1>14. \A s : Keep(s, kept) = [i \in 1..N |-> s[e[i]]]
  BY DEF Keep
<1> HIDE DEF e, N
<1> QED BY <1>2, <1>12, <1>13, <1>14 DEF N

\* Messages to a rank are counted one by one.
LEMMA Counting ==
  ASSUME job \in Jobs, NEW d, NEW s \in Ranks
  PROVE  /\ \A k \in Nat : IsFiniteSet(Earlier(d, s, k)) /\ Count(d, s, k) \in Nat
         /\ \A k \in Nat : k \in SendsTo(d, s) => Count(d, s, k + 1) = Count(d, s, k) + 1
         /\ \A k, l \in Nat : k <= l /\ (\A j \in SendsTo(d, s) : j < l => j < k)
                                => Count(d, s, k) = Count(d, s, l)
         /\ \A k, l \in Nat : k <= l => Count(d, s, k) <= Count(d, s, l)
         /\ \A k \in SendsTo(d, s) : k \in Nat
<1>1. SendsTo(d, s) \subseteq 1..Len(job.calls[s]) /\ Len(job.calls[s]) \in Nat
  BY CallsTyped DEF SendsTo
<1>2. ASSUME NEW k \in Nat PROVE IsFiniteSet(Earlier(d, s, k)) /\ Count(d, s, k) \in Nat
  <2>1. Earlier(d, s, k) \in SUBSET (1..Len(job.calls[s]))
    BY <1>1 DEF Earlier
  <2>2. IsFiniteSet(1..Len(job.calls[s]))
    BY <1>1, FS_Interval
  <2> QED BY <2>1, <2>2, FS_Subset, FS_CardinalityType DEF Count
<1>3. ASSUME NEW k \in Nat, k \in SendsTo(d, s) PROVE Count(d, s, k + 1) = Count(d, s, k) + 1
  <2>1. Earlier(d, s, k + 1) = Earlier(d, s, k) \cup {k} /\ k \notin Earlier(d, s, k)
    BY <1>1, <1>3 DEF Earlier
  <2> QED BY <1>2, <2>1, FS_AddElement DEF Count
<1>4. ASSUME NEW k \in Nat, NEW l \in Nat, k <= l, \A j \in SendsTo(d, s) : j < l => j < k
      PROVE  Count(d, s, k) = Count(d, s, l)
  <2>1. Earlier(d, s, k) = Earlier(d, s, l)
    BY <1>1, <1>4 DEF Earlier
  <2> QED BY <2>1 DEF Count
<1>5. ASSUME NEW k \in Nat, NEW l \in Nat, k <= l PROVE Count(d, s, k) <= Count(d, s, l)
  <2>1. Earlier(d, s, k) \in SUBSET Earlier(d, s, l)
    BY <1>1, <1>5 DEF Earlier
  <2> QED BY <1>2, <2>1, FS_Subset DEF Count
<1> QED BY <1>1, <1>2, <1>3, <1>4, <1>5

\* Two messages from one rank to another that have one number are the same.
LEMMA SameNumber ==
  ASSUME job \in Jobs, NEW d, NEW s \in Ranks, NEW k, NEW l, NEW t,
         Numbered(d, s, k, t), Numbered(d, s, l, t)
  PROVE  k = l
<1>1. \A a, b \in SendsTo(d, s) : a < b => Count(d, s, a) < Count(d, s, b)
  <2> SUFFICES ASSUME NEW a \in SendsTo(d, s), NEW b \in SendsTo(d, s), a < b
               PROVE  Count(d, s, a) < Count(d, s, b)
    OBVIOUS
  <2>1. a \in Nat /\ b \in Nat /\ a + 1 \in Nat /\ a + 1 <= b
    BY Counting
  <2>2. Count(d, s, a + 1) = Count(d, s, a) + 1
    BY <2>1, Counting
  <2>3. Count(d, s, a + 1) <= Count(d, s, b) /\ Count(d, s, a) \in Nat /\ Count(d, s, b) \in Nat
    BY <2>1, Counting
  <2> QED BY <2>2, <2>3
<1>2. k \in SendsTo(d, s) /\ l \in SendsTo(d, s) /\ Count(d, s, k) = Count(d, s, l)
  BY DEF Numbered
<1>3. k \in Nat /\ l \in Nat /\ Count(d, s, k) \in Nat
  BY <1>2, Counting
<1> QED BY <1>1, <1>2, <1>3
-----------------------------------------------------------------------------
(* Ranks and their translations. *)

\* A translated rank is that of the same process, and there is only one.
LEMMA Translated ==
  ASSUME job \in Jobs, NEW v \in Ranks, NEW x \in Ranks, NEW c
  PROVE  /\ TranslateRank(v, x, c, World) \subseteq Ranks
         /\ \A q \in TranslateRank(v, x, c, World) : Process(v, c, x) = q
         /\ \A q \in TranslateRank(v, x, World, c) : Process(v, c, q) = x /\ q \in Ranks
         /\ \A q, p \in TranslateRank(v, x, World, c) : q = p
         /\ TranslateRank(v, x, c, World) # {} => c \in DOMAIN job.groups[v]
         /\ TranslateRank(v, x, World, c) # {} => c \in DOMAIN job.groups[v]
<1> DEFINE groups == job.groups[v]
<1>1. /\ Size \in Nat \ {0} /\ World \in DOMAIN groups /\ groups[World] = [i \in 1..Size |-> i - 1]
      /\ \A g \in DOMAIN groups : groups[g] \in Seq(Ranks)
      /\ \A g \in DOMAIN groups : \A i, l \in DOMAIN groups[g] : groups[g][i] = groups[g][l] => i = l
  BY JobsAssumption, SizeAssumption
<1>2. x \in Nat /\ x < Size /\ x + 1 \in 1..Size
  BY <1>1 DEF Ranks
<1>3. groups[World][x + 1] = x /\ Len(groups[World]) = Size
  <2>1. DOMAIN groups[World] = 1..Size
    BY <1>1
  <2>2. groups[World] \in Seq(Ranks)
    BY <1>1
  <2>3. Len(groups[World]) = Size
    BY <1>1, <2>1, <2>2
  <2> QED BY <1>1, <1>2, <2>3
<1>4. \A q \in 0..(Size - 1) : groups[World][q + 1] = q /\ q \in Ranks
  <2> TAKE q \in 0..(Size - 1)
  <2>1. q + 1 \in 1..Size
    BY <1>1
  <2> QED BY <1>1, <2>1 DEF Ranks
<1> HIDE DEF groups
<1>5. CASE c = World
  BY <1>1, <1>3, <1>5 DEF TranslateRank, Process, groups
<1>6. CASE c # World
  <2>1. TranslateRank(v, x, c, World) = {q \in 0..(Size - 1) :
              /\ {c, World} \subseteq DOMAIN groups
              /\ x < Len(groups[c]) /\ q < Len(groups[World])
              /\ groups[World][q + 1] = groups[c][x + 1]}
    BY <1>6 DEF TranslateRank, groups
  <2>2. TranslateRank(v, x, World, c) = {q \in 0..(Size - 1) :
              /\ {World, c} \subseteq DOMAIN groups
              /\ x < Len(groups[World]) /\ q < Len(groups[c])
              /\ groups[c][q + 1] = groups[World][x + 1]}
    BY <1>6 DEF TranslateRank, groups
  <2>3. \A q \in TranslateRank(v, x, c, World) : Process(v, c, x) = q /\ q \in Ranks
    BY <1>4, <2>1 DEF Process, groups
  <2>4. \A q \in TranslateRank(v, x, World, c) : Process(v, c, q) = x /\ q \in Ranks
    BY <1>3, <1>4, <2>2 DEF Process, groups
  <2>5. \A q, p \in TranslateRank(v, x, World, c) : q = p
    <3> SUFFICES ASSUME NEW q \in TranslateRank(v, x, World, c), NEW p \in TranslateRank(v, x, World, c)
                 PROVE  q = p
      OBVIOUS
    <3>1. /\ q \in Nat /\ p \in Nat /\ c \in DOMAIN groups /\ q < Len(groups[c]) /\ p < Len(groups[c])
          /\ groups[c][q + 1] = groups[c][p + 1]
      BY <1>1, <2>2
    <3>2. groups[c] \in Seq(Ranks)
      BY <1>1, <3>1
    <3>3. q + 1 \in DOMAIN groups[c] /\ p + 1 \in DOMAIN groups[c]
      BY <3>1, <3>2
    <3>4. q + 1 = p + 1
      BY <1>1, <3>1, <3>3
    <3> QED BY <3>1, <3>4
  <2> QED BY <2>1, <2>2, <2>3, <2>4, <2>5 DEF groups
<1> QED BY <1>5, <1>6

\* What a translation depends on.
LEMMA SameTranslation ==
  ASSUME AgreeOnGroups, job \in Jobs, NEW v \in Ranks, NEW s \in Ranks, NEW x \in Ranks, NEW c,
         TranslateRank(v, x, c, World) # {}, TranslateRank(s, x, c, World) # {}
  PROVE  TranslateRank(v, x, c, World) = TranslateRank(s, x, c, World)
<1>1. /\ c \in DOMAIN job.groups[v] /\ c \in DOMAIN job.groups[s]
      /\ World \in DOMAIN job.groups[v] /\ World \in DOMAIN job.groups[s]
  BY Translated, JobsAssumption
<1>2. /\ job.groups[v][c] = job.groups[s][c] /\ job.groups[v][World] = job.groups[s][World]
  BY <1>1 DEF AgreeOnGroups
<1> QED BY <1>1, <1>2 DEF TranslateRank

\* A send has one destination, which is the process its message goes to, and
\* every rank that can translate it finds the same.
LEMMA Destinations ==
  ASSUME job \in Jobs, NEW v \in Ranks, NEW s \in Ranks, NEW k \in SendCalls(s)
  PROVE  /\ LocalDest(v, s, k) \in Ranks /\ LocalDest(v, s, k) = LocalDest(s, s, k)
         /\ WorldDest(v, s, k) \subseteq Ranks
         /\ \A d \in WorldDest(s, s, k) :
              /\ WorldDest(s, s, k) = {d} /\ k \in SendsTo(d, s)
              /\ Process(s, job.calls[s][k].comm, LocalDest(s, s, k)) = d
         /\ WorldDest(s, s, k) # {} => job.calls[s][k].comm \in DOMAIN job.groups[s]
         /\ AgreeOnGroups /\ WorldDest(v, s, k) # {} /\ WorldDest(s, s, k) # {} =>
              WorldDest(v, s, k) = WorldDest(s, s, k)
<1>1. k \in 0..Len(job.calls[s])
  BY CallsTyped
<1>2. Drawn(v, s)[k].dest \in Int /\ Drawn(v, s) = Drawn(s, s)
  BY <1>1, DrawsTyped, SameDraws
<1>3. s \in Int /\ Size \in Nat \ {0}
  BY SizeAssumption DEF Ranks
<1>4. LocalDest(v, s, k) \in Ranks /\ LocalDest(v, s, k) = LocalDest(s, s, k)
  <2>1. Drawn(v, s)[k].dest + s \in Int
    BY <1>2, <1>3
  <2>2. \A a \in Int : a % Size \in 0..(Size - 1)
    BY <1>3
  <2> QED BY <1>2, <2>1, <2>2 DEF LocalDest, Ranks
<1> DEFINE x == LocalDest(s, s, k)
           c == job.calls[s][k].comm
<1>5. WorldDest(v, s, k) = TranslateRank(v, x, c, World) /\ WorldDest(s, s, k) = TranslateRank(s, x, c, World)
  BY <1>4 DEF WorldDest
<1>6. x \in Ranks
  BY <1>4
<1> HIDE DEF x, c
<1>7. WorldDest(v, s, k) \subseteq Ranks
  BY <1>5, <1>6, Translated
<1>8. ASSUME NEW d \in WorldDest(s, s, k)
      PROVE  WorldDest(s, s, k) = {d} /\ k \in SendsTo(d, s) /\ Process(s, c, x) = d
  <2>1. \A q \in WorldDest(s, s, k) : Process(s, c, x) = q
    BY <1>5, <1>6, Translated
  <2>2. WorldDest(s, s, k) = {d}
    BY <2>1
  <2> QED BY <2>1, <2>2 DEF SendsTo
<1>9. WorldDest(s, s, k) # {} => c \in DOMAIN job.groups[s]
  BY <1>5, <1>6, Translated
<1>10. AgreeOnGroups /\ WorldDest(v, s, k) # {} /\ WorldDest(s, s, k) # {} =>
         WorldDest(v, s, k) = WorldDest(s, s, k)
  BY <1>5, <1>6, SameTranslation
<1> QED BY <1>4, <1>7, <1>8, <1>9, <1>10 DEF x, c

\* The receive that is posted for an info.
Receive(r, i) ==
  [src |-> i.src, dst |-> r, comm |-> Communicator(r, i.comm), tag |-> i.tag, event |-> i.event]

\* It is one receive, although the translation is a set.
LEMMA OneReceive ==
  ASSUME job \in Jobs, NEW r \in Ranks, NEW i \in Infos, i.event # 0,
         TranslateRank(r, i.src, World, i.comm) # {}
  PROVE  /\ {[src |-> Process(r, i.comm, q), dst |-> r, comm |-> Communicator(r, i.comm),
              tag |-> i.tag, event |-> i.event] : q \in TranslateRank(r, i.src, World, i.comm)}
              = {Receive(r, i)}
         /\ Receive(r, i) \in Messages
<1>1. i.src \in Ranks /\ i.comm \in Nat /\ i.tag \in Nat /\ i.event \in Nat \ {0}
  BY DEF Infos
<1>2. \A q \in TranslateRank(r, i.src, World, i.comm) : Process(r, i.comm, q) = i.src
  BY <1>1, Translated
<1>3. i.comm \in DOMAIN job.groups[r]
  BY <1>1, Translated
<1>4. job.groups[r][i.comm] \in Seq(Ranks)
  BY <1>3, JobsAssumption
<1>5. Receive(r, i) \in Messages
  BY <1>1, <1>4 DEF Receive, Messages, Communicator
<1> QED BY <1>2, <1>5 DEF Receive

\* The message of the send a rank is at.
Message(r) ==
  [src |-> r, dst |-> Process(r, Call(r).comm, LocalDest(r, r, at[r])),
   comm |-> Communicator(r, Call(r).comm), tag |-> tag[r], event |-> at[r]]

\* It goes to the destination as a rank of MPI_COMM_WORLD.
LEMMA OneMessage ==
  ASSUME PlacesInv, NEW r \in Ranks, stage[r] \in InCall, Call(r).op \in SendOps,
         NEW d \in WorldDest(r, r, at[r])
  PROVE  /\ Message(r) \in Messages /\ Message(r).dst = d /\ d \in Ranks
         /\ at[r] \in SendCalls(r) /\ at[r] \in SendsTo(d, r) /\ WorldDest(r, r, at[r]) = {d}
<1>1. job \in Jobs /\ at[r] \in 1..Len(job.calls[r]) /\ at[r] \in Nat \ {0} /\ tag[r] \in Nat
  BY CallsTyped DEF PlacesInv
<1>2. Call(r) \in TraceCalls /\ Call(r) = job.calls[r][at[r]]
  BY <1>1, CallsTyped DEF Call
<1>3. at[r] \in SendCalls(r)
  BY <1>1, <1>2, CallsTyped DEF SendCalls
<1>4. /\ d \in Ranks /\ WorldDest(r, r, at[r]) = {d} /\ at[r] \in SendsTo(d, r)
      /\ Process(r, Call(r).comm, LocalDest(r, r, at[r])) = d
      /\ Call(r).comm \in DOMAIN job.groups[r]
  BY <1>1, <1>2, <1>3, Destinations
<1>5. Communicator(r, Call(r).comm) \in Nat \X Seq(Ranks)
  BY <1>1, <1>2, <1>4, JobsAssumption DEF Communicator, TraceCalls
<1> QED BY <1>1, <1>3, <1>4, <1>5 DEF Message, Messages
-----------------------------------------------------------------------------
(* Scans of traces, and the handle queue. *)

\* A scan stops at one call at most.
LEMMA StopsAtOne ==
  ASSUME job \in Jobs, ContextInv, NEW r \in Ranks, NEW s \in Ranks
  PROVE  /\ \A k \in Stops(r, s) :
              /\ Stops(r, s) = {k} /\ k \in SendCalls(s) /\ k \in Nat \ {0} /\ k > read[r][s]
              /\ k <= Len(job.calls[s])
              /\ WorldDest(r, s, k) \in {{}, {r}}
              /\ \A j \in SendCalls(s) : j > read[r][s] /\ j < k => WorldDest(r, s, j) \notin {{}, {r}}
         /\ Stops(r, s) = {} =>
              \A j \in SendCalls(s) : j > read[r][s] => WorldDest(r, s, j) \notin {{}, {r}}
         /\ NextSends(r, s) \subseteq Infos
<1> DEFINE ahead == {k \in SendCalls(s) : k > read[r][s] /\ WorldDest(r, s, k) \in {{}, {r}}}
<1>1. SendCalls(s) \subseteq 1..Len(job.calls[s]) /\ Len(job.calls[s]) \in Nat /\ read[r][s] \in Nat
  BY CallsTyped DEF ContextInv
<1>2. Stops(r, s) = {k \in ahead : \A j \in ahead : k <= j} /\ ahead \subseteq Nat
  BY <1>1 DEF Stops
<1>3. Stops(r, s) = {} => ahead = {}
  <2> SUFFICES ASSUME ahead # {} PROVE Stops(r, s) # {}
    OBVIOUS
  <2> HIDE DEF ahead
  <2>1. PICK k \in ahead : \A j \in ahead : k <= j
    BY <1>2, Smallest
  <2> QED BY <1>2, <2>1
<1>4. ASSUME NEW k \in Stops(r, s)
      PROVE  /\ Stops(r, s) = {k} /\ k \in SendCalls(s) /\ k \in Nat \ {0} /\ k > read[r][s]
             /\ k <= Len(job.calls[s]) /\ WorldDest(r, s, k) \in {{}, {r}}
             /\ \A j \in SendCalls(s) : j > read[r][s] /\ j < k => WorldDest(r, s, j) \notin {{}, {r}}
  <2>1. k \in ahead /\ \A j \in ahead : k <= j
    BY <1>2
  <2>2. \A l \in Stops(r, s) : l \in Nat /\ l <= k /\ k <= l /\ k \in Nat
    BY <1>2, <2>1
  <2>3. Stops(r, s) = {k}
    BY <2>2
  <2>4. k \in Nat \ {0} /\ k <= Len(job.calls[s])
    BY <1>1, <2>1
  <2>5. \A j \in SendCalls(s) : j > read[r][s] /\ j < k => WorldDest(r, s, j) \notin {{}, {r}}
    BY <1>1, <2>1, <2>4
  <2> QED BY <2>1, <2>3, <2>4, <2>5
<1>5. NextSends(r, s) \subseteq Infos
  <2> SUFFICES ASSUME NEW k \in Stops(r, s)
               PROVE  [time |-> job.calls[s][k].time, src |-> s, tag |-> rtags[r][s],
                       comm |-> job.calls[s][k].comm, event |-> k] \in Infos
    BY DEF NextSends
  <2>1. job.calls[s][k] \in TraceCalls /\ k \in Nat
    BY <1>4, CallsTyped
  <2>2. job.calls[s][k].time \in -1..MaxTime /\ job.calls[s][k].comm \in Nat
    BY <2>1, BoundsAssumption DEF TraceCalls
  <2> QED BY <2>1, <2>2 DEF ContextInv, Infos
<1> QED BY <1>3, <1>4, <1>5

\* What a scan changes.
LEMMA Scanned ==
  ASSUME job \in Jobs, ContextInv, NEW r \in Ranks, NEW ranks \in SUBSET Ranks, Scan(r, ranks)
  PROVE  /\ read' \in [Ranks -> [Ranks -> Nat]] /\ rtags' \in [Ranks -> [Ranks -> Nat]]
         /\ \A q, s \in Ranks : read'[q][s] <= Len(job.calls[s])
         /\ \A q, s \in Ranks : q # r \/ s \notin ranks =>
              read'[q][s] = read[q][s] /\ rtags'[q][s] = rtags[q][s]
         /\ \A s \in ranks : Stops(r, s) = {} =>
              read'[r][s] = Len(job.calls[s]) /\ rtags'[r][s] = rtags[r][s]
         /\ \A s \in ranks : \A k \in Stops(r, s) :
              read'[r][s] = k /\ rtags'[r][s] = rtags[r][s] + 1
<1> DEFINE next(s) == IF s \notin ranks THEN read[r][s]
                      ELSE IF Stops(r, s) = {} THEN Len(job.calls[s])
                      ELSE CHOOSE k \in Stops(r, s) : TRUE
           number(s) == IF s \in ranks /\ Stops(r, s) # {} THEN rtags[r][s] + 1 ELSE rtags[r][s]
<1>1. /\ read \in [Ranks -> [Ranks -> Nat]] /\ rtags \in [Ranks -> [Ranks -> Nat]]
      /\ \A q, s \in Ranks : read[q][s] <= Len(job.calls[s])
      /\ \A s \in Ranks : Len(job.calls[s]) \in Nat
  BY CallsTyped DEF ContextInv
<1>2. /\ read' = [read EXCEPT ![r] = [s \in Ranks |-> next(s)]]
      /\ rtags' = [rtags EXCEPT ![r] = [s \in Ranks |-> number(s)]]
  BY <1>1 DEF Scan
<1>3. \A s \in ranks : \A k \in Stops(r, s) : Stops(r, s) = {k} /\ k \in Nat /\ k <= Len(job.calls[s])
  BY StopsAtOne
<1>4. \A s \in ranks : \A k \in Stops(r, s) : next(s) = k
  BY <1>3
<1>5. \A s \in Ranks : next(s) \in Nat /\ next(s) <= Len(job.calls[s]) /\ number(s) \in Nat
  <2> TAKE s \in Ranks
  <2>1. CASE s \notin ranks
    BY <1>1, <2>1
  <2>2. CASE s \in ranks /\ Stops(r, s) = {}
    BY <1>1, <2>2
  <2>3. CASE s \in ranks /\ Stops(r, s) # {}
    <3>1. PICK k \in Stops(r, s) : TRUE
      BY <2>3
    <3>2. next(s) = k /\ number(s) = rtags[r][s] + 1
      BY <1>4, <2>3, <3>1
    <3> HIDE DEF next, number
    <3> QED BY <1>1, <1>3, <2>3, <3>1, <3>2
  <2> QED BY <2>1, <2>2, <2>3
<1>6. \A s \in ranks : Stops(r, s) = {} => next(s) = Len(job.calls[s]) /\ number(s) = rtags[r][s]
  OBVIOUS
<1>7. \A s \in ranks : \A k \in Stops(r, s) : number(s) = rtags[r][s] + 1
  OBVIOUS
<1>8. \A s \in Ranks : s \notin ranks => next(s) = read[r][s] /\ number(s) = rtags[r][s]
  OBVIOUS
<1> HIDE DEF next, number
<1> QED BY <1>1, <1>2, <1>4, <1>5, <1>6, <1>7, <1>8

\* What HandleQueue::testsingleCompletion leaves in the queue and gives back.
LEMMA Tested ==
  ASSUME VectorsInv, freed \in [Ranks -> SUBSET (Requests \cup {Shared})],
         NEW r \in Ranks, TestCompletion(r)
  PROVE  /\ VectorsInv'
         /\ freed' \in [Ranks -> SUBSET (Requests \cup {Shared})]
         /\ \A q \in Ranks : q # r => requests'[q] = requests[q] /\ freed'[q] = freed[q]
         /\ \A x \in freed'[r] : x \in freed[r] \/ (x \in Requests /\ Complete(x))
         /\ \A i \in 1..Len(requests[r]) :
              Complete(requests[r][i]) \/ \E l \in 1..Len(requests'[r]) : requests'[r][l] = requests[r][i]
         /\ requests[r] = <<>> => requests'[r] = <<>>
<1> DEFINE reqs == requests[r]
           bufs == buffers[r]
           n == Len(reqs)
           kept == {i \in DOMAIN reqs : ~Complete(reqs[i])}
           gone == DOMAIN bufs \ kept
<1>1. /\ reqs \in Seq(Requests) /\ n \in Nat /\ DOMAIN reqs = 1..n
      /\ bufs \in Seq(Requests \cup {NoBuffer}) /\ Len(bufs) = n /\ DOMAIN bufs = 1..n
      /\ \A i \in 1..n : reqs[i] \in Requests /\ bufs[i] \in {NoBuffer, reqs[i]}
  BY DEF VectorsInv
<1>2. /\ requests' = [requests EXCEPT ![r] = Keep(reqs, kept)]
      /\ buffers' = [buffers EXCEPT ![r] = Keep(bufs, kept)]
      /\ freed' = [freed EXCEPT ![r] = freed[r] \cup ({bufs[i] : i \in gone} \ {NoBuffer})]
  BY DEF TestCompletion, VectorsInv
<1>3. kept \in SUBSET (1..n)
  BY <1>1
<1>4. gone = {i \in 1..n : Complete(reqs[i])}
  BY <1>1
<1> HIDE DEF reqs, bufs, n, kept, gone
<1> DEFINE N == Cardinality(kept)
<1>5. N \in Nat
  BY <1>1, <1>3, KeepFacts
<1>6. PICK e \in [1..N -> kept] : /\ \A k \in kept : \E i \in 1..N : e[i] = k
                                  /\ \A s : Keep(s, kept) = [i \in 1..N |-> s[e[i]]]
  BY <1>1, <1>3, KeepFacts
<1> HIDE DEF N
<1> DEFINE reqs1 == [i \in 1..N |-> reqs[e[i]]]
           bufs1 == [i \in 1..N |-> bufs[e[i]]]
<1>7. requests' = [requests EXCEPT ![r] = reqs1] /\ buffers' = [buffers EXCEPT ![r] = bufs1]
  BY <1>2, <1>6
<1>8. \A i \in 1..N : e[i] \in kept /\ e[i] \in 1..n
  BY <1>3, <1>6
<1>9. reqs1 \in Seq(Requests) /\ Len(reqs1) = N /\ \A i \in 1..N : reqs1[i] = reqs[e[i]]
  BY <1>1, <1>5, <1>8
<1>10. bufs1 \in Seq(Requests \cup {NoBuffer}) /\ Len(bufs1) = N /\ \A i \in 1..N : bufs1[i] = bufs[e[i]]
  BY <1>1, <1>5, <1>8
<1> HIDE DEF reqs1, bufs1
<1>11. VectorsInv'
  <2>1. requests' \in [Ranks -> Seq(Requests)] /\ buffers' \in [Ranks -> Seq(Requests \cup {NoBuffer})]
    BY <1>7, <1>9, <1>10 DEF VectorsInv
  <2>2. ASSUME NEW q \in Ranks
        PROVE  /\ Len(buffers'[q]) = Len(requests'[q])
               /\ \A i \in 1..Len(requests'[q]) : buffers'[q][i] \in {NoBuffer, requests'[q][i]}
    <3>1. CASE q = r
      <4>1. requests'[q] = reqs1 /\ buffers'[q] = bufs1
        BY <1>7, <3>1 DEF VectorsInv
      <4> QED BY <1>1, <1>8, <1>9, <1>10, <4>1
    <3>2. CASE q # r
      BY <1>7, <3>2 DEF VectorsInv
    <3> QED BY <3>1, <3>2
  <2> QED BY <2>1, <2>2 DEF VectorsInv
<1>12. \A x \in {bufs[i] : i \in gone} \ {NoBuffer} : x \in Requests /\ Complete(x)
  BY <1>1, <1>4
<1>13. \A i \in 1..n : Complete(reqs[i]) \/ \E l \in 1..N : reqs1[l] = reqs[i]
  <2> TAKE i \in 1..n
  <2>1. ASSUME ~Complete(reqs[i]) PROVE \E l \in 1..N : reqs1[l] = reqs[i]
    <3>1. i \in kept
      BY <1>1, <2>1 DEF kept
    <3>2. PICK l \in 1..N : e[l] = i
      BY <1>6, <3>1
    <3> QED BY <1>9, <3>2
  <2> QED BY <2>1
<1>14. requests'[r] = reqs1
  BY <1>7 DEF VectorsInv
<1>15. requests[r] = <<>> => requests'[r] = <<>>
  <2> SUFFICES ASSUME requests[r] = <<>> PROVE requests'[r] = <<>>
    OBVIOUS
  <2>1. kept = {}
    BY <1>1, <1>3 DEF reqs, n
  <2>2. N = 0
    BY <2>1, FS_EmptySet DEF N
  <2> QED BY <1>9, <1>14, <2>2
<1>16. freed' = [freed EXCEPT ![r] = freed[r] \cup ({bufs[i] : i \in gone} \ {NoBuffer})]
  BY <1>2
<1>17. freed' \in [Ranks -> SUBSET (Requests \cup {Shared})]
  BY <1>12, <1>16
<1>18. \A x \in freed'[r] : x \in freed[r] \/ (x \in Requests /\ Complete(x))
  BY <1>12, <1>16
<1>19. \A q \in Ranks : q # r => requests'[q] = requests[q] /\ freed'[q] = freed[q]
  BY <1>7, <1>16 DEF VectorsInv
<1> QED BY <1>9, <1>11, <1>13, <1>14, <1>15, <1>17, <1>18, <1>19 DEF reqs, n

\* What HandleQueue::add does.
LEMMA Added ==
  ASSUME VectorsInv, NEW r \in Ranks, NEW q \in Requests, AddRequest(r, q)
  PROVE  /\ VectorsInv' /\ freed' = freed
         /\ \A p \in Ranks : p # r => requests'[p] = requests[p]
         /\ Len(requests'[r]) = Len(requests[r]) + 1 /\ Len(requests[r]) \in Nat
         /\ \A i \in 1..Len(requests[r]) : requests'[r][i] = requests[r][i]
         /\ requests'[r][Len(requests[r]) + 1] = q
<1> DEFINE n == Len(requests[r])
           b == IF job.prealloc THEN NoBuffer ELSE q
<1>1. /\ requests[r] \in Seq(Requests) /\ n \in Nat
      /\ buffers[r] \in Seq(Requests \cup {NoBuffer}) /\ Len(buffers[r]) = n
      /\ \A i \in 1..n : buffers[r][i] \in {NoBuffer, requests[r][i]}
      /\ b \in Requests \cup {NoBuffer} /\ b \in {NoBuffer, q}
  BY DEF VectorsInv
<1>2. /\ requests' = [requests EXCEPT ![r] = Append(requests[r], q)]
      /\ buffers' = [buffers EXCEPT ![r] = Append(buffers[r], b)] /\ freed' = freed
  BY DEF AddRequest, VectorsInv
<1> HIDE DEF b, n
<1>3. /\ Append(requests[r], q) \in Seq(Requests) /\ Len(Append(requests[r], q)) = n + 1
      /\ \A i \in 1..n : Append(requests[r], q)[i] = requests[r][i]
      /\ Append(requests[r], q)[n + 1] = q
  BY <1>1 DEF n
<1>4. /\ Append(buffers[r], b) \in Seq(Requests \cup {NoBuffer}) /\ Len(Append(buffers[r], b)) = n + 1
      /\ \A i \in 1..n : Append(buffers[r], b)[i] = buffers[r][i]
      /\ Append(buffers[r], b)[n + 1] = b
  BY <1>1
<1>5. requests'[r] = Append(requests[r], q) /\ buffers'[r] = Append(buffers[r], b)
  BY <1>2 DEF VectorsInv
<1>6. requests' \in [Ranks -> Seq(Requests)] /\ buffers' \in [Ranks -> Seq(Requests \cup {NoBuffer})]
  BY <1>2, <1>3, <1>4 DEF VectorsInv
<1>7. ASSUME NEW p \in Ranks
      PROVE  /\ Len(buffers'[p]) = Len(requests'[p])
             /\ \A i \in 1..Len(requests'[p]) : buffers'[p][i] \in {NoBuffer, requests'[p][i]}
  <2>1. CASE p = r
    <3> SUFFICES ASSUME NEW i \in 1..(n + 1) PROVE buffers'[r][i] \in {NoBuffer, requests'[r][i]}
      BY <1>3, <1>4, <1>5, <2>1
    <3>1. i \in 1..n \/ i = n + 1
      BY <1>1
    <3> QED BY <1>1, <1>3, <1>4, <1>5, <3>1
  <2>2. CASE p # r
    BY <1>2, <2>2 DEF VectorsInv
  <2> QED BY <2>1, <2>2
<1>8. VectorsInv'
  BY <1>6, <1>7 DEF VectorsInv
<1>9. \A p \in Ranks : p # r => requests'[p] = requests[p]
  BY <1>2 DEF VectorsInv
<1> QED BY <1>1, <1>2, <1>3, <1>5, <1>8, <1>9 DEF n
-----------------------------------------------------------------------------
(* What is given back: one lemma for each way a step touches the queue. *)

\* What is complete stays complete.
LEMMA StillComplete ==
  ASSUME matched \subseteq matched', buffered \subseteq buffered'
  PROVE  \A q \in Requests : Complete(q) => Complete(q)'
BY DEF Complete, Requests

\* What is given to MPI are requests.
LEMMA GivenTyped ==
  ASSUME MPIInv
  PROVE  \A r \in Ranks : Given(r) \subseteq Requests
BY DEF MPIInv, Given, Requests

\* Steps that leave the queue and MPI alone,
LEMMA QueueAlone ==
  ASSUME QInv, UNCHANGED <<requests, freed, mpiVars>>,
         \A p \in Ranks : stage[p] = "done" => stage'[p] = "done"
  PROVE  QInv'
<1>1. UNCHANGED <<requests, freed, sent, posted, matched, buffered>>
  BY DEF mpiVars
<1>2. HeldInv'
  <2>1. \A p \in Ranks : Given(p)' = Given(p)
    BY <1>1 DEF Given
  <2>2. \A q : Complete(q)' <=> Complete(q)
    BY <1>1 DEF Complete
  <2> QED BY <1>1, <2>1, <2>2 DEF QInv, HeldInv
<1>3. FreedInv'
  BY <1>1 DEF QInv, FreedInv, Complete
<1> QED BY <1>2, <1>3 DEF QInv

\* tests of its requests: a buffer leaves it only with a complete request,
LEMMA QueueTested ==
  ASSUME TInv, QInv, NEW r \in Ranks, TestCompletion(r), UNCHANGED mpiVars,
         \A p \in Ranks : stage[p] = "done" => stage'[p] = "done"
  PROVE  VectorsInv' /\ QInv'
<1>1. UNCHANGED <<sent, posted, matched, buffered>>
  BY DEF mpiVars
<1>2. \A q : Complete(q)' <=> Complete(q)
  BY <1>1 DEF Complete
<1>3. \A p \in Ranks : Given(p)' = Given(p)
  BY <1>1 DEF Given
<1>4. /\ VectorsInv'
      /\ freed' \in [Ranks -> SUBSET (Requests \cup {Shared})]
      /\ \A q \in Ranks : q # r => requests'[q] = requests[q] /\ freed'[q] = freed[q]
      /\ \A x \in freed'[r] : x \in freed[r] \/ (x \in Requests /\ Complete(x))
      /\ \A i \in 1..Len(requests[r]) :
           Complete(requests[r][i]) \/ \E l \in 1..Len(requests'[r]) : requests'[r][l] = requests[r][i]
      /\ requests[r] = <<>> => requests'[r] = <<>>
  BY Tested DEF TInv, QInv, FreedInv
<1>5. HeldInv'
  <2> SUFFICES ASSUME NEW p \in Ranks, NEW q \in Given(p), ~Complete(q)
               PROVE  \E i \in 1..Len(requests'[p]) : requests'[p][i] = q
    BY <1>2, <1>3 DEF HeldInv
  <2>1. PICK i \in 1..Len(requests[p]) : requests[p][i] = q
    BY DEF QInv, HeldInv
  <2>2. CASE p = r
    BY <1>4, <2>1, <2>2
  <2>3. CASE p # r
    BY <1>4, <2>1, <2>3
  <2> QED BY <2>2, <2>3
<1>6. FreedInv'
  <2>1. ASSUME NEW p \in Ranks, NEW q \in freed'[p] \ {Shared} PROVE Complete(q)
    BY <1>4, <2>1 DEF QInv, FreedInv
  <2>2. ASSUME NEW p \in Ranks, Shared \in freed'[p] PROVE stage'[p] = "done" /\ requests'[p] = <<>>
    <3>1. Shared \notin Requests
      <4>1. \A q \in Requests : q.kind \in {"send", "recv"}
        BY DEF Requests
      <4> QED BY <4>1 DEF Shared
    <3>2. Shared \in freed[p]
      BY <1>4, <2>2, <3>1
    <3> QED BY <1>4, <3>2 DEF QInv, FreedInv
  <2> QED BY <1>2, <1>4, <2>1, <2>2 DEF FreedInv
<1> QED BY <1>4, <1>5, <1>6 DEF QInv

\* what is given to MPI is kept with its request,
LEMMA QueueAdded ==
  ASSUME TInv, QInv, NEW r \in Ranks, NEW q \in Requests, AddRequest(r, q),
         UNCHANGED <<matched, buffered>>, Given(r)' = Given(r) \cup {q},
         \A p \in Ranks : p # r => Given(p)' = Given(p),
         \A p \in Ranks : stage[p] = "done" => stage'[p] = "done", stage[r] # "done"
  PROVE  VectorsInv' /\ QInv'
<1>1. \A p : Complete(p)' <=> Complete(p)
  BY DEF Complete
<1>2. /\ VectorsInv' /\ freed' = freed
      /\ \A p \in Ranks : p # r => requests'[p] = requests[p]
      /\ Len(requests'[r]) = Len(requests[r]) + 1 /\ Len(requests[r]) \in Nat
      /\ \A i \in 1..Len(requests[r]) : requests'[r][i] = requests[r][i]
      /\ requests'[r][Len(requests[r]) + 1] = q
  BY Added DEF TInv
<1>3. HeldInv'
  <2> SUFFICES ASSUME NEW p \in Ranks, NEW x \in Given(p)', ~Complete(x)
               PROVE  \E i \in 1..Len(requests'[p]) : requests'[p][i] = x
    BY <1>1 DEF HeldInv
  <2>1. CASE x \in Given(p)
    <3>1. PICK i \in 1..Len(requests[p]) : requests[p][i] = x
      BY <2>1 DEF QInv, HeldInv
    <3>2. CASE p = r
      <4>1. i \in 1..Len(requests'[p]) /\ requests'[p][i] = x
        BY <1>2, <3>1, <3>2
      <4> QED BY <4>1
    <3>3. CASE p # r
      BY <1>2, <3>1, <3>3
    <3> QED BY <3>2, <3>3
  <2>2. CASE p = r /\ x = q
    <3>1. Len(requests[r]) + 1 \in 1..Len(requests'[r])
      BY <1>2
    <3> QED BY <1>2, <2>2, <3>1
  <2> QED BY <2>1, <2>2
<1>4. FreedInv'
  <2>1. ASSUME NEW p \in Ranks, Shared \in freed[p] PROVE stage'[p] = "done" /\ requests'[p] = <<>>
    BY <1>2, <2>1 DEF QInv, FreedInv
  <2> QED BY <1>1, <1>2, <2>1 DEF QInv, FreedInv
<1> QED BY <1>2, <1>3, <1>4 DEF QInv

\* the shared buffer is freed once the queue is empty,
LEMMA QueueDestroyed ==
  ASSUME TInv, QInv, NEW r \in Ranks, Destroy(r)
  PROVE  QInv'
<1>1. /\ UNCHANGED <<requests, sent, posted, matched, buffered>> /\ requests[r] = <<>>
      /\ stage' = [stage EXCEPT ![r] = "done"] /\ stage \in [Ranks -> Stages]
      /\ \E s \in SUBSET {Shared} : freed' = [freed EXCEPT ![r] = freed[r] \cup s]
      /\ freed \in [Ranks -> SUBSET (Requests \cup {Shared})]
  BY DEF Destroy, QueueEmpty, GoTo, TInv, PlacesInv, QInv, FreedInv, mpiVars
<1>2. HeldInv'
  <2>1. \A p \in Ranks : Given(p)' = Given(p)
    BY <1>1 DEF Given
  <2>2. \A q : Complete(q)' <=> Complete(q)
    BY <1>1 DEF Complete
  <2> QED BY <1>1, <2>1, <2>2 DEF QInv, HeldInv
<1>3. FreedInv'
  BY <1>1 DEF QInv, FreedInv, Complete
<1> QED BY <1>2, <1>3 DEF QInv

\* and MPI only completes requests.
LEMMA QueueDelivers ==
  ASSUME TInv, QInv, UNCHANGED <<requests, freed, stage, sent, posted>>,
         matched \subseteq matched', buffered \subseteq buffered'
  PROVE  QInv'
<1>1. \A r \in Ranks : Given(r)' = Given(r) /\ Given(r) \subseteq Requests
  BY GivenTyped DEF Given, TInv
<1>2. HeldInv'
  BY <1>1, StillComplete DEF QInv, HeldInv
<1>3. FreedInv'
  BY StillComplete DEF QInv, FreedInv
<1> QED BY <1>2, <1>3 DEF QInv
-----------------------------------------------------------------------------
(* Every step keeps the types, and the buffers of incomplete requests. *)

\* The initial states have both.
LEMMA InitTyped == ASSUME Init PROVE TInv /\ QInv
<1>1. PlacesInv
  <2>1. \A r \in Ranks : Len(job.calls[r]) \in Nat
    BY CallsTyped DEF Init
  <2> QED BY <2>1, BoundsAssumption DEF Init, PlacesInv, Stages, InCall, Infinity
<1>2. ContextInv
  <2>1. \A r \in Ranks : Len(job.calls[r]) \in Nat
    BY CallsTyped DEF Init
  <2> QED BY <2>1 DEF Init, ContextInv
<1>3. MPIInv /\ VectorsInv
  BY DEF Init, MPIInv, VectorsInv
<1>4. QInv
  BY DEF Init, QInv, HeldInv, Given, FreedInv
<1> QED BY <1>1, <1>2, <1>3, <1>4 DEF TInv

\* Steps that leave the contexts and what is pending alone.
LEMMA ContextsAlone ==
  ASSUME ContextInv, UNCHANGED <<job, read, rtags, stags, pending>>
  PROVE  ContextInv'
BY DEF ContextInv

\* Steps of a rank that leave the queue and MPI alone.
LEMMA Quiet ==
  ASSUME TInv, QInv, NEW r \in Ranks, stage[r] # "done", \A p \in Ranks : p # r => stage'[p] = stage[p],
         UNCHANGED <<queueVars, mpiVars>>, PlacesInv', ContextInv'
  PROVE  TInv' /\ QInv'
<1>1. UNCHANGED <<requests, buffers, freed, sent, posted, matched, buffered>>
  BY DEF queueVars, mpiVars
<1>2. MPIInv' /\ VectorsInv'
  BY <1>1 DEF TInv, MPIInv, VectorsInv
<1>3. QInv'
  BY <1>1, QueueAlone DEF mpiVars
<1> QED BY <1>2, <1>3 DEF TInv

\* Where a rank goes when only its place changes.
LEMMA Places ==
  ASSUME PlacesInv, NEW r \in Ranks, NEW s \in Stages, UNCHANGED <<job, why, at, dests, peers, tag, clock>>,
         stage' = [stage EXCEPT ![r] = s], s \in InCall => at[r] <= Len(job.calls[r]), s # "posting"
  PROVE  PlacesInv' /\ stage'[r] = s /\ \A p \in Ranks : p # r => stage'[p] = stage[p]
<1>1. \A p \in Ranks : stage'[p] = IF p = r THEN s ELSE stage[p]
  BY DEF PlacesInv
<1>2. stage' \in [Ranks -> Stages]
  BY DEF PlacesInv
<1> QED BY <1>1, <1>2 DEF PlacesInv

\* Posting receives: the clock only grows, and not in a final round.
LEMMA Posting ==
  ASSUME PlacesInv, NEW r \in Ranks, NEW reason \in {"recv", "handler", "final"}, NEW total \in 0..Infinity,
         StartPosting(r, reason, total), UNCHANGED <<job, at, dests, peers, tag>>,
         reason # "final" => at[r] <= Len(job.calls[r])
  PROVE  PlacesInv' /\ \A p \in Ranks : p # r => stage'[p] = stage[p]
<1>1. \A p \in Ranks : stage'[p] = IF p = r THEN "posting" ELSE stage[p]
  BY DEF PlacesInv, StartPosting, GoTo
<1>2. \A p \in Ranks : why'[p] = IF p = r THEN reason ELSE why[p]
  BY DEF PlacesInv, StartPosting
<1>3. stage' \in [Ranks -> Stages] /\ why' \in [Ranks -> {"none", "recv", "handler", "final"}] /\ clock' \in [Ranks -> 0..Infinity]
  BY DEF PlacesInv, StartPosting, GoTo, Stages
<1> QED BY <1>1, <1>2, <1>3 DEF PlacesInv, InCall

\* A rank goes on to its next call.
LEMMA NextCall ==
  ASSUME PlacesInv, NEW r \in Ranks, stage[r] \in InCall, Next1(r), UNCHANGED <<job, why, dests, peers, tag, clock>>
  PROVE  PlacesInv' /\ \A p \in Ranks : p # r => stage'[p] = stage[p] /\ at'[p] = at[p]
<1>1. \A p \in Ranks : stage'[p] = IF p = r THEN "ready" ELSE stage[p]
  BY DEF PlacesInv, Next1, GoTo
<1>2. \A p \in Ranks : at'[p] = IF p = r THEN at[p] + 1 ELSE at[p]
  BY DEF PlacesInv, Next1
<1>3. stage' \in [Ranks -> Stages] /\ at' \in [Ranks -> Nat]
  BY DEF PlacesInv, Next1, GoTo, Stages
<1>4. \A p \in Ranks : Len(job.calls[p]) \in Nat
  BY CallsTyped DEF PlacesInv
<1>5. \A p \in Ranks : at'[p] >= 1 /\ at'[p] <= Len(job.calls[p]) + 1
  <2> TAKE p \in Ranks
  <2>1. at[p] \in Nat /\ at[p] >= 1 /\ at[p] <= Len(job.calls[p]) + 1 /\ Len(job.calls[p]) \in Nat
    BY <1>4 DEF PlacesInv
  <2>2. at[r] <= Len(job.calls[r])
    BY DEF PlacesInv
  <2> QED BY <1>2, <2>1, <2>2
<1> QED BY <1>1, <1>2, <1>3, <1>5 DEF PlacesInv, InCall

\* The steps of a rank that only computes, waits or passes.
LEMMA TypedPlaces ==
  ASSUME TInv, QInv, NEW r \in Ranks,
         \/ BeginRecv(r) \/ BeginOther(r) \/ BusyRound(r) \/ EndCompute(r)
         \/ Pass(r) \/ Enter(r) \/ Leave(r) \/ Finalize(r)
  PROVE  TInv' /\ QInv'
<1>1. UNCHANGED <<job, read, rtags, stags, pending, queueVars, mpiVars>> /\ stage[r] # "done"
  BY DEF BeginRecv, BeginOther, BusyRound, EndCompute, Pass, Enter, Leave, Finalize, Replays,
         callVars, contextVars, recvVars
<1>2. ContextInv'
  BY <1>1, ContextsAlone DEF TInv
<1>3. PlacesInv /\ \A p \in Ranks : Len(job.calls[p]) \in Nat /\ at[p] \in Nat /\ clock[p] \in 0..Infinity
  BY CallsTyped DEF TInv, PlacesInv
<1>4. PlacesInv' /\ \A p \in Ranks : p # r => stage'[p] = stage[p]
  <2>1. CASE BeginRecv(r)
    <3>1. PICK total \in clock[r]..MaxTime : StartPosting(r, "recv", total)
      BY <2>1 DEF BeginRecv
    <3>2. total \in 0..Infinity
      BY <1>3, BoundsAssumption DEF Infinity
    <3>3. at[r] <= Len(job.calls[r]) /\ UNCHANGED <<at, dests, peers, tag>>
      BY <2>1 DEF BeginRecv, Replays, callVars
    <3> QED BY <1>1, <1>3, <3>1, <3>2, <3>3, Posting
  <2>2. CASE BusyRound(r)
    <3>1. PICK total \in clock[r]..MaxTime : StartPosting(r, "handler", total)
      BY <2>2 DEF BusyRound
    <3>2. total \in 0..Infinity
      BY <1>3, BoundsAssumption DEF Infinity
    <3>3. at[r] <= Len(job.calls[r]) /\ UNCHANGED <<at, dests, peers, tag>>
      BY <1>3, <2>2 DEF BusyRound, callVars, PlacesInv, InCall
    <3> QED BY <1>1, <1>3, <3>1, <3>2, <3>3, Posting
  <2>3. CASE Finalize(r)
    <3>1. StartPosting(r, "final", Infinity) /\ Infinity \in 0..Infinity /\ UNCHANGED <<at, dests, peers, tag>>
      BY <2>3, BoundsAssumption DEF Finalize, Infinity, callVars
    <3> QED BY <1>1, <1>3, <3>1, Posting
  <2>4. CASE BeginOther(r) \/ EndCompute(r) \/ Enter(r)
    <3>1. UNCHANGED <<why, at, dests, peers, tag, clock>>
      BY <2>4 DEF BeginOther, EndCompute, Enter, callVars, recvVars
    <3>2. at[r] <= Len(job.calls[r])
      BY <1>3, <2>4 DEF BeginOther, EndCompute, Enter, Replays, PlacesInv, InCall
    <3>3. \E s \in {"compute", "act", "collective"} : stage' = [stage EXCEPT ![r] = s]
      BY <2>4 DEF BeginOther, EndCompute, Enter, GoTo
    <3>4. \A s \in {"compute", "act", "collective"} : s \in Stages /\ s # "posting"
      BY DEF Stages
    <3> QED BY <1>1, <1>3, <3>1, <3>2, <3>3, <3>4, Places
  <2>5. CASE Pass(r) \/ Leave(r)
    <3>1. UNCHANGED <<why, dests, peers, tag, clock>> /\ Next1(r) /\ stage[r] \in InCall
      BY <2>5 DEF Pass, Leave, recvVars, InCall
    <3> QED BY <1>1, <1>3, <3>1, NextCall
  <2> QED BY <2>1, <2>2, <2>3, <2>4, <2>5
<1> QED BY <1>1, <1>2, <1>4, Quiet

\* What the scans of some contexts leave typed.
LEMMA ScansTyped ==
  ASSUME job \in Jobs, ContextInv, NEW r \in Ranks, NEW ranks \in SUBSET Ranks, Scan(r, ranks),
         NEW infos \in SUBSET Infos, pending' = [pending EXCEPT ![r] = infos], UNCHANGED <<job, stags>>
  PROVE  ContextInv'
<1>1. /\ read' \in [Ranks -> [Ranks -> Nat]] /\ rtags' \in [Ranks -> [Ranks -> Nat]]
      /\ \A q, s \in Ranks : read'[q][s] <= Len(job.calls[s])
  BY Scanned
<1> QED BY <1>1 DEF ContextInv

\* MPI_Init and the end of a round of posting read on in the traces.
LEMMA TypedScans ==
  ASSUME TInv, QInv, NEW r \in Ranks, ReplayInit(r) \/ EndPosting(r)
  PROVE  TInv' /\ QInv'
<1>1. /\ UNCHANGED <<job, at, dests, peers, tag, why, clock, stags, queueVars, mpiVars>> /\ stage[r] # "done"
      /\ job \in Jobs /\ PlacesInv /\ ContextInv /\ peers[r] \subseteq Ranks /\ pending[r] \subseteq Infos
  BY DEF ReplayInit, EndPosting, callVars, TInv, PlacesInv, ContextInv
<1>2. \A s \in Ranks : NextSends(r, s) \subseteq Infos /\ NoSend(s) \in Infos
  <2>1. \A s \in Ranks : NextSends(r, s) \subseteq Infos
    BY <1>1, StopsAtOne
  <2> QED BY <2>1, BoundsAssumption DEF NoSend, Infos
<1>3. ContextInv'
  <2>1. CASE ReplayInit(r)
    <3> DEFINE infos == UNION {IF Stops(r, s) = {} THEN {NoSend(s)} ELSE NextSends(r, s) : s \in peers[r]}
    <3>1. infos \in SUBSET Infos
      BY <1>1, <1>2
    <3>2. pending' = [pending EXCEPT ![r] = infos] /\ Scan(r, peers[r])
      BY <2>1 DEF ReplayInit
    <3> HIDE DEF infos
    <3> QED BY <1>1, <3>1, <3>2, ScansTyped
  <2>2. CASE EndPosting(r) /\ why[r] # "handler"
    <3>1. UNCHANGED <<read, rtags, pending>>
      BY <2>2 DEF EndPosting, contextVars
    <3> QED BY <1>1, <3>1, ContextsAlone
  <2>3. CASE EndPosting(r) /\ why[r] = "handler"
    <3> DEFINE infos == pending[r] \cup UNION {NextSends(r, s) : s \in peers[r]}
    <3>1. infos \in SUBSET Infos
      BY <1>1, <1>2
    <3>2. pending' = [pending EXCEPT ![r] = infos] /\ Scan(r, peers[r])
      BY <2>3 DEF EndPosting
    <3> HIDE DEF infos
    <3> QED BY <1>1, <3>1, <3>2, ScansTyped
  <2> QED BY <2>1, <2>2, <2>3
<1>4. PlacesInv' /\ \A p \in Ranks : p # r => stage'[p] = stage[p]
  <2>1. \E s \in {"exit", "ready", "drain", "compute", "busy"} :
          stage' = [stage EXCEPT ![r] = s] /\ (s \in InCall => at[r] <= Len(job.calls[r]))
    <3>1. CASE ReplayInit(r)
      BY <3>1 DEF ReplayInit, GoTo, InCall
    <3>2. CASE EndPosting(r) /\ why[r] = "final"
      BY <3>2 DEF EndPosting, GoTo, InCall
    <3>3. CASE EndPosting(r) /\ why[r] # "final"
      <4>1. at[r] <= Len(job.calls[r])
        BY <1>1, <3>3 DEF EndPosting, PlacesInv
      <4> QED BY <3>3, <4>1 DEF EndPosting, GoTo
    <3> QED BY <3>1, <3>2, <3>3
  <2>2. \A s \in {"exit", "ready", "drain", "compute", "busy"} : s \in Stages /\ s # "posting"
    BY DEF Stages
  <2> QED BY <1>1, <2>1, <2>2, Places
<1> QED BY <1>1, <1>3, <1>4, Quiet

\* The destinations are collected once, and a send takes its tag from its count.
LEMMA TypedSenders ==
  ASSUME TInv, QInv, NEW r \in Ranks, SetupDestSet(r) \/ BeginSend(r)
  PROVE  TInv' /\ QInv'
<1>1. /\ UNCHANGED <<job, at, peers, why, clock, pending, read, rtags, queueVars, mpiVars>> /\ stage[r] # "done"
      /\ job \in Jobs /\ PlacesInv /\ ContextInv
  BY DEF SetupDestSet, BeginSend, Replays, recvVars, contextVars, TInv, PlacesInv
<1>2. CASE SetupDestSet(r)
  <2>1. \A k \in SendCalls(r) : WorldDest(r, r, k) \subseteq Ranks
    BY <1>1, Destinations
  <2>2. (UNION {WorldDest(r, r, k) : k \in SendCalls(r)}) \ {r} \in SUBSET Ranks
    BY <2>1
  <2>3. dests' \in [Ranks -> SUBSET Ranks] /\ UNCHANGED <<stags, tag>>
    BY <1>1, <1>2, <2>2 DEF SetupDestSet, PlacesInv
  <2>4. ContextInv'
    BY <1>1, <2>3, ContextsAlone
  <2>5. \A p \in Ranks : stage'[p] = IF p = r THEN stage'[r] ELSE stage[p]
    BY <1>1, <1>2 DEF SetupDestSet, GoTo, PlacesInv
  <2>6. stage' \in [Ranks -> Stages] /\ stage'[r] \notin InCall \cup {"posting"}
    BY <1>1, <1>2 DEF SetupDestSet, GoTo, PlacesInv, Stages, InCall
  <2>7. PlacesInv'
    BY <1>1, <2>3, <2>5, <2>6 DEF PlacesInv
  <2> QED BY <1>1, <2>4, <2>5, <2>7, Quiet
<1>3. CASE BeginSend(r)
  <2>1. PICK d \in WorldDest(r, r, at[r]) : /\ tag' = [tag EXCEPT ![r] = stags[r][d]]
                                            /\ stags' = [stags EXCEPT ![r][d] = @ + 1]
    BY <1>3 DEF BeginSend
  <2>2. at[r] \in 1..Len(job.calls[r]) /\ Call(r).op \in SendOps /\ dests' = dests
        /\ stage' = [stage EXCEPT ![r] = "compute"]
    BY <1>1, <1>3, CallsTyped DEF BeginSend, Replays, PlacesInv, GoTo
  <2>3. at[r] \in SendCalls(r)
    BY <1>1, <2>2, CallsTyped DEF SendCalls, Call
  <2>4. d \in Ranks
    BY <1>1, <2>1, <2>3, Destinations
  <2>5. stags' \in [Ranks -> [Ranks -> Nat]] /\ tag' \in [Ranks -> Nat]
    <3>1. /\ stags \in [Ranks -> [Ranks -> Nat]] /\ tag \in [Ranks -> Nat]
          /\ stags[r] \in [Ranks -> Nat] /\ d \in Ranks /\ stags[r][d] \in Nat /\ stags[r][d] + 1 \in Nat
      <4>1. stags \in [Ranks -> [Ranks -> Nat]] /\ tag \in [Ranks -> Nat]
        <5>1. stags \in [Ranks -> [Ranks -> Nat]]
          BY <1>1 DEF ContextInv
        <5>2. tag \in [Ranks -> Nat]
          BY <1>1 DEF PlacesInv
        <5> QED BY <5>1, <5>2
      <4>2. stags[r] \in [Ranks -> Nat]
        BY <4>1
      <4>3. stags[r][d] \in Nat
        BY <4>2, <2>4
      <4> QED BY <4>1, <4>2, <4>3, <2>4
    <3>2. [stags[r] EXCEPT ![d] = stags[r][d] + 1] \in [Ranks -> Nat]
      BY <3>1
    <3>3. stags' = [stags EXCEPT ![r] = [stags[r] EXCEPT ![d] = stags[r][d] + 1]]
      BY <2>1, <3>1
    <3>4. stags' \in [Ranks -> [Ranks -> Nat]]
      BY <3>1, <3>2, <3>3
    <3>5. tag' \in [Ranks -> Nat]
      BY <2>1, <3>1
    <3> QED BY <3>4, <3>5
  <2>6. ContextInv'
    BY <1>1, <2>5 DEF ContextInv
  <2>7. \A p \in Ranks : stage'[p] = IF p = r THEN "compute" ELSE stage[p]
    BY <1>1, <2>2 DEF PlacesInv
  <2>8. stage' \in [Ranks -> Stages]
    BY <1>1, <2>2 DEF PlacesInv, Stages
  <2>9. PlacesInv'
    BY <1>1, <2>2, <2>5, <2>7, <2>8 DEF PlacesInv
  <2> QED BY <1>1, <2>6, <2>7, <2>9, Quiet
<1> QED BY <1>2, <1>3

\* Tests of the queue, which a wait may skip.
LEMMA TypedTests ==
  ASSUME TInv, QInv, NEW r \in Ranks, BeginWait(r) \/ TestBefore(r) \/ Drain(r)
  PROVE  TInv' /\ QInv'
<1>1. /\ UNCHANGED <<job, at, dests, peers, tag, stags, why, clock, pending, read, rtags, mpiVars>> /\ stage[r] # "done"
      /\ job \in Jobs /\ PlacesInv /\ ContextInv
      /\ TestCompletion(r) \/ UNCHANGED queueVars
  BY DEF BeginWait, TestBefore, Drain, Replays, callVars, recvVars, contextVars, TInv, PlacesInv
<1>2. PlacesInv' /\ \A p \in Ranks : p # r => stage'[p] = stage[p]
  <2>1. \E s \in {"compute", "tested", "drain"} :
          stage' = [stage EXCEPT ![r] = s] /\ (s \in InCall => at[r] <= Len(job.calls[r]))
    <3>1. CASE BeginWait(r)
      BY <3>1 DEF BeginWait, Replays, GoTo
    <3>2. CASE TestBefore(r)
      BY <1>1, <3>2 DEF TestBefore, GoTo, PlacesInv, InCall
    <3>3. CASE Drain(r)
      <4>1. stage = [stage EXCEPT ![r] = "drain"]
        BY <1>1, <3>3 DEF Drain, PlacesInv
      <4> QED BY <3>3, <4>1 DEF Drain, InCall
    <3> QED BY <3>1, <3>2, <3>3
  <2>2. \A s \in {"compute", "tested", "drain"} : s \in Stages /\ s # "posting"
    BY DEF Stages
  <2> QED BY <1>1, <2>1, <2>2, Places
<1>3. ContextInv' /\ MPIInv'
  <2>1. ContextInv'
    BY <1>1, ContextsAlone
  <2> QED BY <1>1, <2>1 DEF TInv, MPIInv, mpiVars
<1>4. CASE TestCompletion(r)
  <2>1. VectorsInv' /\ QInv'
    BY <1>1, <1>2, <1>4, QueueTested
  <2> QED BY <1>2, <1>3, <2>1 DEF TInv
<1>5. CASE UNCHANGED queueVars
  BY <1>1, <1>2, <1>3, <1>5, Quiet
<1> QED BY <1>1, <1>4, <1>5

\* The end of the destructor.
LEMMA TypedDestroy ==
  ASSUME TInv, QInv, NEW r \in Ranks, Destroy(r)
  PROVE  TInv' /\ QInv'
<1>1. /\ UNCHANGED <<job, at, dests, peers, tag, stags, why, clock, pending, read, rtags>>
      /\ UNCHANGED <<requests, buffers, sent, posted, matched, buffered>>
      /\ stage' = [stage EXCEPT ![r] = "done"] /\ PlacesInv /\ ContextInv
  BY DEF Destroy, GoTo, callVars, recvVars, contextVars, mpiVars, TInv
<1>2. PlacesInv'
  <2>1. "done" \in Stages /\ "done" \notin InCall
    BY DEF Stages, InCall
  <2> QED BY <1>1, <2>1, Places
<1>3. ContextInv' /\ MPIInv' /\ VectorsInv'
  <2>1. ContextInv'
    BY <1>1, ContextsAlone
  <2>2. MPIInv'
    BY <1>1 DEF TInv, MPIInv
  <2>3. VectorsInv'
    BY <1>1 DEF TInv, VectorsInv
  <2> QED BY <2>1, <2>2, <2>3
<1> QED BY <1>2, <1>3, QueueDestroyed DEF TInv

\* The peers of all ranks are set at once.
LEMMA TypedNotify ==
  ASSUME TInv, QInv, NotifyPeers
  PROVE  TInv' /\ QInv'
<1>1. /\ UNCHANGED <<job, at, dests, tag, stags, why, clock, pending, read, rtags>>
      /\ UNCHANGED <<requests, buffers, freed, sent, posted, matched, buffered>>
      /\ stage' = [p \in Ranks |-> "init"] /\ PlacesInv /\ ContextInv
      /\ peers' = [q \in Ranks |-> {s \in Ranks : q \in dests[s]}] /\ \A p \in Ranks : stage[p] = "notify"
  BY DEF NotifyPeers, queueVars, recvVars, contextVars, mpiVars, TInv
<1>2. PlacesInv'
  <2>1. stage' \in [Ranks -> Stages] /\ peers' \in [Ranks -> SUBSET Ranks]
    BY <1>1 DEF Stages
  <2> QED BY <1>1, <2>1 DEF PlacesInv, InCall
<1>3. ContextInv'
  BY <1>1, ContextsAlone
<1>4. MPIInv' /\ VectorsInv'
  BY <1>1 DEF TInv, MPIInv, VectorsInv
<1>5. QInv'
  BY <1>1, QueueAlone DEF mpiVars
<1> QED BY <1>2, <1>3, <1>4, <1>5 DEF TInv

\* MPI delivers only what it was given.
LEMMA TypedMPI ==
  ASSUME TInv, QInv, MPIStep
  PROVE  TInv' /\ QInv'
<1>1. /\ UNCHANGED <<job, at, dests, peers, tag, stags, why, clock, pending, read, rtags, stage>>
      /\ UNCHANGED <<requests, buffers, freed, sent, posted>> /\ PlacesInv /\ ContextInv
      /\ matched \subseteq matched' /\ buffered \subseteq buffered'
      /\ matched' \subseteq sent \X posted /\ buffered' \subseteq sent
  <2>1. CASE \E m \in sent : Copy(m)
    BY <2>1 DEF Copy, queueVars, callVars, recvVars, contextVars, TInv, MPIInv
  <2>2. CASE \E m \in sent, n \in posted : Match(m, n)
    BY <2>2 DEF Match, queueVars, callVars, recvVars, contextVars, TInv, MPIInv
  <2> QED BY <2>1, <2>2 DEF MPIStep
<1>2. PlacesInv' /\ ContextInv'
  <2>1. PlacesInv'
    BY <1>1 DEF PlacesInv
  <2> QED BY <1>1, <2>1, ContextsAlone
<1>3. MPIInv' /\ VectorsInv'
  BY <1>1 DEF TInv, MPIInv, VectorsInv
<1> QED BY <1>1, <1>2, <1>3, QueueDelivers DEF TInv

\* A round of postRecvs posts one receive, or ends the program.
LEMMA TypedPostRecv ==
  ASSUME TInv, QInv, NEW r \in Ranks, PostRecv(r)
  PROVE  TInv' /\ QInv'
<1>1. /\ UNCHANGED <<job, at, dests, peers, tag, stags, why, clock, sent, matched, buffered>>
      /\ stage[r] = "posting" /\ job \in Jobs /\ PlacesInv /\ ContextInv /\ MPIInv
      /\ pending[r] \subseteq Infos
  BY DEF PostRecv, callVars, TInv, PlacesInv, ContextInv
<1>2. PICK i \in Due(r) :
        LET again == Refetched(r, i)
            src == TranslateRank(r, i.src, World, i.comm)
            msgs == {[src |-> Process(r, i.comm, q), dst |-> r, comm |-> Communicator(r, i.comm),
                      tag |-> i.tag, event |-> i.event] : q \in src}
        IN  IF src = {}
            THEN GoTo(r, "exit") /\ UNCHANGED <<contextVars, pending, queueVars, posted>>
            ELSE /\ posted' = posted \cup msgs
                 /\ \E msg \in msgs : AddRequest(r, [kind |-> "recv", msg |-> msg])
                 /\ pending' = [pending EXCEPT
                      ![r] = (@ \ {i}) \cup UNION {NextSends(r, s) : s \in again}]
                 /\ Scan(r, again)
                 /\ GoTo(r, IF (\E s \in again : ScanFails(r, s)) \/ ~Ordered(pending'[r])
                            THEN "exit" ELSE "posting")
  BY DEF PostRecv
<1> DEFINE again == Refetched(r, i)
           src == TranslateRank(r, i.src, World, i.comm)
<1>3. i \in pending[r] /\ i \in Infos /\ i.event # 0 /\ i.src \in Ranks /\ again \in SUBSET Ranks
  BY <1>1 DEF Due, Refetched, Infos
<1>4. CASE src = {}
  <2>1. stage' = [stage EXCEPT ![r] = "exit"] /\ UNCHANGED <<contextVars, pending, queueVars, posted>>
    BY <1>2, <1>4 DEF GoTo
  <2>2. "exit" \in Stages /\ "exit" \notin InCall
    BY DEF Stages, InCall
  <2>3. PlacesInv' /\ \A p \in Ranks : p # r => stage'[p] = stage[p]
    BY <1>1, <2>1, <2>2, Places
  <2>4. ContextInv'
    BY <1>1, <2>1, ContextsAlone DEF contextVars
  <2> QED BY <1>1, <2>1, <2>3, <2>4, Quiet DEF mpiVars
<1>5. CASE src # {}
  <2> DEFINE n == Receive(r, i)
             infos == (pending[r] \ {i}) \cup UNION {NextSends(r, s) : s \in again}
  <2>1. /\ posted' = posted \cup {n} /\ AddRequest(r, [kind |-> "recv", msg |-> n]) /\ n \in Messages
        /\ pending' = [pending EXCEPT ![r] = infos] /\ Scan(r, again)
        /\ stage' = [stage EXCEPT ![r] = IF (\E s \in again : ScanFails(r, s)) \/ ~Ordered(pending'[r])
                                         THEN "exit" ELSE "posting"]
    <3>1. /\ n \in Messages
          /\ {[src |-> Process(r, i.comm, q), dst |-> r, comm |-> Communicator(r, i.comm),
               tag |-> i.tag, event |-> i.event] : q \in src} = {n}
      BY <1>1, <1>3, <1>5, OneReceive
    <3> QED BY <1>2, <1>5, <3>1 DEF GoTo
  <2> DEFINE q == [kind |-> "recv", msg |-> n]
  <2>2. infos \in SUBSET Infos
    <3>1. \A s \in again : NextSends(r, s) \subseteq Infos
      BY <1>1, <1>3, StopsAtOne
    <3> QED BY <1>1, <3>1
  <2>3. n.dst = r /\ q \in Requests
    BY <2>1 DEF Receive, Requests
  <2> HIDE DEF infos, n, again
  <2>4. ContextInv'
    BY <1>1, <1>3, <2>1, <2>2, ScansTyped
  <2>5. PlacesInv'
    <3>1. \A p \in Ranks : stage'[p] = IF p = r THEN stage'[r] ELSE stage[p]
      BY <1>1, <2>1 DEF PlacesInv
    <3>2. stage' \in [Ranks -> Stages] /\ stage'[r] \in {"exit", "posting"}
      BY <1>1, <2>1 DEF PlacesInv, Stages
    <3> QED BY <1>1, <3>1, <3>2 DEF PlacesInv, InCall
  <2>6. MPIInv'
    BY <1>1, <2>1 DEF MPIInv
  <2>7. Given(r)' = Given(r) \cup {q} /\ \A p \in Ranks : p # r => Given(p)' = Given(p)
    BY <1>1, <2>1, <2>3 DEF Given
  <2>8. \A p \in Ranks : stage[p] = "done" => stage'[p] = "done"
    BY <1>1, <2>1 DEF PlacesInv
  <2> HIDE DEF q
  <2>9. VectorsInv' /\ QInv'
    BY <1>1, <2>1, <2>3, <2>7, <2>8, QueueAdded DEF q
  <2> QED BY <2>4, <2>5, <2>6, <2>9 DEF TInv
<1> QED BY <1>4, <1>5

\* A send gives MPI its message, and to itself calls for a receive at once.
LEMMA TypedSend ==
  ASSUME TInv, QInv, NEW r \in Ranks, Send(r)
  PROVE  TInv' /\ QInv'
<1>1. /\ UNCHANGED <<job, dests, peers, tag, stags, why, clock, read, rtags, posted, matched, buffered>>
      /\ stage[r] = "act" /\ job \in Jobs /\ PlacesInv /\ ContextInv /\ MPIInv
      /\ Call(r).op \in SendOps /\ pending[r] \subseteq Infos
  BY DEF Send, contextVars, TInv, PlacesInv, ContextInv
<1>2. PICK d \in WorldDest(r, r, at[r]) :
        /\ sent' = sent \cup {Message(r)} /\ AddRequest(r, [kind |-> "send", msg |-> Message(r)])
        /\ pending' = [pending EXCEPT ![r] = @ \cup IF d # r THEN {} ELSE
             {[time |-> 0, src |-> r, tag |-> tag[r], comm |-> Call(r).comm, event |-> at[r]]}]
  BY DEF Send, Message
<1> DEFINE q == [kind |-> "send", msg |-> Message(r)]
           own == IF d # r THEN {} ELSE
             {[time |-> 0, src |-> r, tag |-> tag[r], comm |-> Call(r).comm, event |-> at[r]]}
<1>3. Message(r) \in Messages /\ Message(r).src = r /\ q \in Requests
  BY <1>1, <1>2, OneMessage DEF InCall, Message, Requests
<1>4. own \subseteq Infos
  <2>1. at[r] \in Nat /\ tag[r] \in Nat /\ at[r] \in 1..Len(job.calls[r])
    BY <1>1, CallsTyped DEF PlacesInv, InCall
  <2>2. Call(r).comm \in Nat
    BY <1>1, <2>1, CallsTyped DEF Call, TraceCalls
  <2> QED BY <2>1, <2>2, BoundsAssumption DEF Infos
<1> HIDE DEF own
<1>5. ContextInv'
  BY <1>1, <1>2, <1>4 DEF ContextInv, own
<1>6. PlacesInv' /\ \A p \in Ranks : p # r => stage'[p] = stage[p]
  <2>1. CASE Next1(r)
    BY <1>1, <2>1, NextCall DEF InCall
  <2>2. CASE stage' = [stage EXCEPT ![r] = "exit"] /\ UNCHANGED at
    <3>1. "exit" \in Stages /\ "exit" \notin InCall
      BY DEF Stages, InCall
    <3> QED BY <1>1, <2>2, <3>1, Places
  <2> QED BY <2>1, <2>2 DEF Send, GoTo
<1>7. MPIInv'
  BY <1>1, <1>2, <1>3 DEF MPIInv
<1>8. Given(r)' = Given(r) \cup {q} /\ \A p \in Ranks : p # r => Given(p)' = Given(p)
  <2> DEFINE m == Message(r)
  <2>1. m.src = r /\ sent' = sent \cup {m} /\ posted' = posted /\ q = [kind |-> "send", msg |-> m]
    BY <1>1, <1>2, <1>3
  <2> HIDE DEF m, q
  <2> QED BY <2>1 DEF Given
<1>9. \A p \in Ranks : stage[p] = "done" => stage'[p] = "done"
  BY <1>1, <1>6
<1>10. AddRequest(r, q)
  BY <1>2
<1> HIDE DEF q
<1>11. VectorsInv' /\ QInv'
  BY <1>1, <1>3, <1>8, <1>9, <1>10, QueueAdded
<1> QED BY <1>5, <1>6, <1>7, <1>11 DEF TInv

\* All steps together.
LEMMA TypedStep ==
  ASSUME TInv, QInv, [Next]_vars
  PROVE  TInv' /\ QInv'
<1>1. CASE UNCHANGED vars
  <2>1. UNCHANGED <<job, at, dests, peers, tag, stags, why, clock, pending, read, rtags, stage>>
        /\ UNCHANGED <<requests, buffers, freed, sent, posted, matched, buffered>>
    BY <1>1 DEF vars, callVars, recvVars, contextVars, queueVars, mpiVars
  <2>2. PlacesInv' /\ ContextInv' /\ MPIInv' /\ VectorsInv'
    BY <2>1 DEF TInv, PlacesInv, ContextInv, MPIInv, VectorsInv
  <2> QED BY <2>1, <2>2, QueueAlone DEF TInv, mpiVars
<1>2. ASSUME NEW r \in Ranks, RankStep(r) PROVE TInv' /\ QInv'
  BY <1>2, TypedPlaces, TypedScans, TypedSenders, TypedTests, TypedDestroy, TypedPostRecv, TypedSend
  DEF RankStep
<1> QED BY <1>1, <1>2, TypedNotify, TypedMPI DEF Next

\* The types and the queue's invariant are inductive.
THEOREM QueueInductive == Spec => [](TInv /\ QInv)
<1>1. Init => TInv /\ QInv
  BY InitTyped
<1>2. TInv /\ QInv /\ [Next]_vars => (TInv /\ QInv)'
  BY TypedStep
<1> QED BY <1>1, <1>2, PTL DEF Spec

\* What the replay works on has its types: above all, a buffer is kept for every
\* request of the handle queue, and none that is another request's.
THEOREM TypesKept == Spec => []TypeOK
<1>1. TInv => TypeOK
  <2> SUFFICES ASSUME TInv PROVE TypeOK
    OBVIOUS
  <2>1. \A p \in Ranks : Len(job.calls[p]) \in Nat
    BY CallsTyped DEF TInv, PlacesInv
  <2>2. /\ \A r \in Ranks : at[r] \in 1..(Len(job.calls[r]) + 1)
        /\ \A r, s \in Ranks : read[r][s] \in 0..Len(job.calls[s])
    BY <2>1 DEF TInv, PlacesInv, ContextInv
  <2>3. \A r \in Ranks : \A i \in pending[r] : i.src \in Ranks
    BY DEF TInv, ContextInv, Infos
  <2>4. \A r \in Ranks : /\ requests[r] \in Seq(Requests)
                         /\ Len(buffers[r]) = Len(requests[r])
                         /\ \A i \in DOMAIN requests[r] : buffers[r][i] \in {NoBuffer, requests[r][i]}
    BY DEF TInv, VectorsInv
  <2>5. stage \in [Ranks -> {"setup", "notify", "init", "ready", "compute", "tested", "busy",
                         "posting", "act", "collective", "drain", "done", "exit"}]
    BY DEF TInv, PlacesInv, Stages
  <2> QED BY <2>2, <2>3, <2>4, <2>5 DEF TypeOK, TInv, PlacesInv, ContextInv, MPIInv
<1> QED BY <1>1, QueueInductive, PTL

\* No buffer is given back while MPI may still read or fill it: neither by a test
\* of the queue nor, when all receives and sends share one, by the destructor.
THEOREM BuffersGivenBackSafely == Spec => []BuffersSafe
<1>1. TInv /\ QInv => BuffersSafe
  <2> SUFFICES ASSUME TInv, QInv, NEW r \in Ranks, NEW q \in Given(r), ~Complete(q)
               PROVE  freed[r] \cap {Shared, q} = {}
    BY DEF BuffersSafe, Given
  <2>1. PICK i \in 1..Len(requests[r]) : requests[r][i] = q
    BY DEF QInv, HeldInv
  <2>2. Shared \notin freed[r]
    <3>1. requests[r] # <<>>
      BY <2>1
    <3> QED BY <3>1 DEF QInv, FreedInv
  <2>3. q # Shared
    <3>1. q \in Requests
      BY GivenTyped DEF TInv
    <3>2. \A x \in Requests : x.kind \in {"send", "recv"}
      BY DEF Requests
    <3> QED BY <3>1, <3>2 DEF Shared
  <2>4. q \notin freed[r]
    BY <2>3 DEF QInv, FreedInv
  <2> QED BY <2>2, <2>4
<1> QED BY <1>1, QueueInductive, PTL
-----------------------------------------------------------------------------
(* Both sides number the messages of a pair alike. *)

\* A step of a rank moves this rank only, and never from its end.
LEMMA Moves ==
  ASSUME PlacesInv, NEW r \in Ranks, RankStep(r)
  PROVE  /\ job' = job /\ stage[r] \notin {"exit", "done", "notify"}
         /\ \A p \in Ranks : p # r => stage'[p] = stage[p]
         /\ SetupDestSet(r) \/ (stage[r] # "setup" /\ stage'[r] \notin {"setup", "notify", "init"})
<1>1. \A s : GoTo(r, s) => (\A p \in Ranks : stage'[p] = IF p = r THEN s ELSE stage[p])
  BY DEF GoTo, PlacesInv
<1>2. CASE SetupDestSet(r)
  BY <1>1, <1>2 DEF SetupDestSet
<1>3. CASE ReplayInit(r)
  BY <1>1, <1>3 DEF ReplayInit, callVars
<1>4. CASE BeginSend(r) \/ BeginOther(r) \/ TestBefore(r) \/ EndCompute(r) \/ Enter(r) \/ BeginWait(r)
  BY <1>1, <1>4 DEF BeginSend, BeginWait, BeginOther, TestBefore, EndCompute, Enter, Replays, callVars
<1>5. CASE BeginRecv(r) \/ BusyRound(r) \/ Finalize(r)
  BY <1>1, <1>5 DEF BeginRecv, BusyRound, Finalize, Replays, StartPosting, callVars
<1>6. CASE PostRecv(r)
  BY <1>1, <1>6 DEF PostRecv, callVars
<1>7. CASE EndPosting(r)
  BY <1>1, <1>7 DEF EndPosting, callVars
<1>8. CASE Send(r)
  BY <1>1, <1>8 DEF Send, Next1, callVars
<1>9. CASE Pass(r) \/ Leave(r)
  BY <1>1, <1>9 DEF Pass, Leave, Next1, callVars
<1>10. CASE Drain(r) \/ Destroy(r)
  BY <1>1, <1>10 DEF Drain, Destroy, callVars
<1> QED BY <1>2, <1>3, <1>4, <1>5, <1>6, <1>7, <1>8, <1>9, <1>10 DEF RankStep

\* Numbers do not change.
LEMMA SameNumbers ==
  ASSUME job' = job
  PROVE  \A d, s, k, t : Numbered(d, s, k, t)' = Numbered(d, s, k, t)
BY SameJob DEF Numbered

\* Every rank translates its own destinations before any reads a trace.
LEMMA SaneStep ==
  ASSUME TInv, SaneInv, Next
  PROVE  SaneInv'
<1>1. CASE NotifyPeers
  <2>1. job' = job /\ (\A p \in Ranks : stage[p] = "notify") /\ \A p \in Ranks : stage'[p] = "init"
    BY <1>1 DEF NotifyPeers
  <2> QED BY <2>1, SameJob DEF SaneInv
<1>2. ASSUME NEW r \in Ranks, RankStep(r) PROVE SaneInv'
  <2>1. /\ job' = job /\ stage[r] \notin {"exit", "done", "notify"}
        /\ \A p \in Ranks : p # r => stage'[p] = stage[p]
        /\ SetupDestSet(r) \/ (stage[r] # "setup" /\ stage'[r] \notin {"setup", "notify", "init"})
    BY <1>2, Moves DEF TInv
  <2>2. \A s : Sane(s)' = Sane(s)
    BY <2>1, SameJob
  <2>3. CASE SetupDestSet(r)
    <3>1. (stage'[r] = "exit") \/ (stage'[r] = "notify" /\ Sane(r))
      BY <2>3 DEF SetupDestSet, GoTo, TInv, PlacesInv, Sane
    <3> QED BY <2>1, <2>2, <3>1 DEF SaneInv
  <2>4. CASE stage[r] # "setup" /\ stage'[r] \notin {"setup", "notify", "init"}
    BY <2>1, <2>2, <2>4 DEF SaneInv
  <2> QED BY <2>1, <2>3, <2>4
<1>3. CASE MPIStep
  <2>1. UNCHANGED <<job, stage>>
    BY <1>3 DEF MPIStep, Copy, Match, callVars
  <2> QED BY <2>1, SameJob DEF SaneInv
<1> QED BY <1>1, <1>2, <1>3 DEF Next

\* The context of a rank counts exactly the sends to the viewer that it reads over,
\* and finds the next of these with its number.
LEMMA ScanCounts ==
  ASSUME AgreeOnGroups, job \in Jobs, ContextInv, NEW r \in Ranks, NEW ranks \in SUBSET Ranks, Scan(r, ranks),
         \A s \in Ranks : Sane(s),
         \A s \in Ranks : /\ rtags[r][s] = Count(r, s, read[r][s] + 1)
                          /\ \A k \in SendCalls(s) : k <= read[r][s] => WorldDest(r, s, k) # {},
         \A s \in ranks : ~ScanFails(r, s)
  PROVE  /\ \A s \in Ranks : /\ rtags'[r][s] = Count(r, s, read'[r][s] + 1)
                             /\ \A k \in SendCalls(s) : k <= read'[r][s] => WorldDest(r, s, k) # {}
                             /\ read[r][s] <= read'[r][s]
         /\ \A s \in ranks : \A i \in NextSends(r, s) :
              /\ Numbered(r, s, i.event, i.tag) /\ i.src = s /\ i.event <= read'[r][s]
              /\ i.time = job.calls[s][i.event].time /\ i.comm = job.calls[s][i.event].comm
<1>1. \A s \in Ranks : /\ read[r][s] \in Nat /\ read[r][s] <= Len(job.calls[s]) /\ Len(job.calls[s]) \in Nat
                       /\ SendCalls(s) \subseteq 1..Len(job.calls[s]) /\ rtags[r][s] \in Nat
  BY CallsTyped DEF ContextInv
<1>2. ASSUME NEW s \in Ranks, NEW k \in SendCalls(s), WorldDest(r, s, k) \notin {{}, {r}}
      PROVE  k \notin SendsTo(r, s)
  <2>1. WorldDest(s, s, k) # {}
    BY DEF Sane
  <2>2. WorldDest(r, s, k) = WorldDest(s, s, k)
    BY <1>2, <2>1, Destinations
  <2> QED BY <1>2, <2>2 DEF SendsTo
<1>3. ASSUME NEW s \in Ranks, s \notin ranks
      PROVE  read'[r][s] = read[r][s] /\ rtags'[r][s] = rtags[r][s]
  BY <1>3, Scanned
<1>4. ASSUME NEW s \in ranks, Stops(r, s) = {}
      PROVE  /\ rtags'[r][s] = Count(r, s, read'[r][s] + 1) /\ read[r][s] <= read'[r][s]
             /\ \A k \in SendCalls(s) : WorldDest(r, s, k) # {}
             /\ NextSends(r, s) = {}
  <2>1. \A j \in SendCalls(s) : j > read[r][s] => WorldDest(r, s, j) \notin {{}, {r}}
    BY <1>4, StopsAtOne
  <2>2. read'[r][s] = Len(job.calls[s]) /\ rtags'[r][s] = rtags[r][s]
    BY <1>4, Scanned
  <2>3. \A j \in SendsTo(r, s) : j \in SendCalls(s) /\ j < read[r][s] + 1
    <3> SUFFICES ASSUME NEW j \in SendsTo(r, s) PROVE j < read[r][s] + 1 /\ j \in SendCalls(s)
      OBVIOUS
    <3>1. j \in SendCalls(s) /\ j \in Nat
      BY <1>1 DEF SendsTo
    <3>2. ~(j > read[r][s])
      BY <1>2, <2>1, <3>1
    <3> QED BY <1>1, <3>1, <3>2
  <2>4. Count(r, s, read[r][s] + 1) = Count(r, s, Len(job.calls[s]) + 1)
    <3>1. read[r][s] + 1 \in Nat /\ Len(job.calls[s]) + 1 \in Nat /\ read[r][s] + 1 <= Len(job.calls[s]) + 1
      BY <1>1
    <3>2. \A j \in SendsTo(r, s) : j < Len(job.calls[s]) + 1 => j < read[r][s] + 1
      BY <2>3
    <3>3. \A k, l \in Nat : k <= l /\ (\A j \in SendsTo(r, s) : j < l => j < k) => Count(r, s, k) = Count(r, s, l)
      BY Counting
    <3> DEFINE a == read[r][s] + 1
               b == Len(job.calls[s]) + 1
    <3>4. a \in Nat /\ b \in Nat /\ a <= b /\ \A j \in SendsTo(r, s) : j < b => j < a
      BY <3>1, <3>2
    <3> HIDE DEF a, b
    <3>5. Count(r, s, a) = Count(r, s, b)
      BY <3>3, <3>4
    <3> QED BY <3>5 DEF a, b
  <2>5. \A k \in SendCalls(s) : WorldDest(r, s, k) # {}
    <3> TAKE k \in SendCalls(s)
    <3>1. k <= read[r][s] \/ k > read[r][s]
      BY <1>1
    <3> QED BY <2>1, <3>1
  <2>6. NextSends(r, s) = {}
    BY <1>4 DEF NextSends
  <2> QED BY <1>1, <2>2, <2>4, <2>5, <2>6
<1>5. ASSUME NEW s \in ranks, NEW k \in Stops(r, s)
      PROVE  /\ rtags'[r][s] = Count(r, s, read'[r][s] + 1) /\ read[r][s] <= read'[r][s] /\ read'[r][s] = k
             /\ \A j \in SendCalls(s) : j <= k => WorldDest(r, s, j) # {}
             /\ Numbered(r, s, k, rtags[r][s])
             /\ NextSends(r, s) = {[time |-> job.calls[s][k].time, src |-> s, tag |-> rtags[r][s],
                                    comm |-> job.calls[s][k].comm, event |-> k]}
  <2>1. /\ Stops(r, s) = {k} /\ k \in SendCalls(s) /\ k \in Nat \ {0} /\ k > read[r][s]
        /\ WorldDest(r, s, k) \in {{}, {r}}
        /\ \A j \in SendCalls(s) : j > read[r][s] /\ j < k => WorldDest(r, s, j) \notin {{}, {r}}
    BY StopsAtOne
  <2>2. WorldDest(r, s, k) = {r}
    BY <2>1 DEF ScanFails
  <2>3. k \in SendsTo(r, s)
    <3>1. WorldDest(s, s, k) # {}
      BY <2>1 DEF Sane
    <3>2. WorldDest(r, s, k) = WorldDest(s, s, k)
      <4>1. s \in Ranks /\ WorldDest(r, s, k) # {}
        BY <2>2
      <4> QED BY <2>1, <3>1, <4>1, Destinations
    <3> QED BY <2>1, <2>2, <3>2 DEF SendsTo
  <2>4. read'[r][s] = k /\ rtags'[r][s] = rtags[r][s] + 1
    BY Scanned
  <2>5. \A j \in SendsTo(r, s) : j < k => j < read[r][s] + 1
    <3> SUFFICES ASSUME NEW j \in SendsTo(r, s), j < k PROVE j < read[r][s] + 1
      OBVIOUS
    <3>1. j \in SendCalls(s) /\ j \in Nat
      BY <1>1 DEF SendsTo
    <3>2. ~(j > read[r][s])
      BY <1>2, <2>1, <3>1
    <3> QED BY <1>1, <3>1, <3>2
  <2>6. Count(r, s, read[r][s] + 1) = Count(r, s, k)
    <3>1. read[r][s] + 1 \in Nat /\ k \in Nat /\ read[r][s] + 1 <= k
      BY <1>1, <2>1
    <3> QED BY <2>5, <3>1, Counting
  <2>7. Count(r, s, k + 1) = Count(r, s, k) + 1
    BY <2>1, <2>3, Counting
  <2>8. \A j \in SendCalls(s) : j <= k => WorldDest(r, s, j) # {}
    <3> TAKE j \in SendCalls(s)
    <3>1. j \in Nat
      BY <1>1
    <3>2. j <= read[r][s] \/ (j > read[r][s] /\ j < k) \/ j = k \/ j > k
      BY <1>1, <2>1, <3>1
    <3> QED BY <2>1, <2>2, <3>1, <3>2
  <2>9. NextSends(r, s) = {[time |-> job.calls[s][k].time, src |-> s, tag |-> rtags[r][s],
                            comm |-> job.calls[s][k].comm, event |-> k]}
    BY <2>1 DEF NextSends
  <2>10. Numbered(r, s, k, rtags[r][s])
    BY <2>3, <2>6 DEF Numbered
  <2> QED BY <1>1, <2>1, <2>4, <2>6, <2>7, <2>8, <2>9, <2>10
<1>6. ASSUME NEW s \in Ranks
      PROVE  /\ rtags'[r][s] = Count(r, s, read'[r][s] + 1)
             /\ \A k \in SendCalls(s) : k <= read'[r][s] => WorldDest(r, s, k) # {}
             /\ read[r][s] <= read'[r][s]
  <2>1. CASE s \notin ranks
    BY <1>1, <1>3, <2>1
  <2>2. CASE s \in ranks /\ Stops(r, s) = {}
    BY <1>4, <2>2
  <2>3. ASSUME s \in ranks, NEW k \in Stops(r, s)
        PROVE  /\ rtags'[r][s] = Count(r, s, read'[r][s] + 1)
               /\ \A j \in SendCalls(s) : j <= read'[r][s] => WorldDest(r, s, j) # {}
               /\ read[r][s] <= read'[r][s]
    BY <1>5, <2>3
  <2> QED BY <2>1, <2>2, <2>3
<1>7. ASSUME NEW s \in ranks, NEW i \in NextSends(r, s)
      PROVE  /\ Numbered(r, s, i.event, i.tag) /\ i.src = s /\ i.event <= read'[r][s]
             /\ i.time = job.calls[s][i.event].time /\ i.comm = job.calls[s][i.event].comm
  <2>1. PICK k \in Stops(r, s) : i = [time |-> job.calls[s][k].time, src |-> s, tag |-> rtags[r][s],
                                    comm |-> job.calls[s][k].comm, event |-> k]
    BY DEF NextSends
  <2>2. k \in Nat
    BY StopsAtOne
  <2> QED BY <1>5, <2>1, <2>2
<1> QED BY <1>6, <1>7

\* Steps that read nothing in other ranks' traces.
LEMMA OthersRead ==
  ASSUME job' = job, ReadInv, PendInv, NEW r \in Ranks,
         \A p \in Ranks : p # r => /\ stage'[p] = stage[p] /\ pending'[p] = pending[p]
                                   /\ read'[p] = read[p] /\ rtags'[p] = rtags[p],
         stage'[r] # "exit" =>
           /\ \A s \in Ranks : /\ rtags'[r][s] = Count(r, s, read'[r][s] + 1)
                               /\ \A k \in SendCalls(s) : k <= read'[r][s] => WorldDest(r, s, k) # {}
           /\ \A i \in pending'[r] : i.event # 0 =>
                /\ Numbered(r, i.src, i.event, i.tag) /\ i.comm = job.calls[i.src][i.event].comm
                /\ i.src # r => i.event <= read'[r][i.src] /\ i.time = job.calls[i.src][i.event].time
  PROVE  ReadInv' /\ PendInv'
<1>1. \A p, s \in Ranks : Count(p, s, read[p][s] + 1)' = Count(p, s, read'[p][s] + 1)
  BY SameJob DEF Count, Earlier
<1>2. ReadInv'
  <2> SUFFICES ASSUME NEW p \in Ranks, stage'[p] # "exit", NEW s \in Ranks
               PROVE  /\ rtags'[p][s] = Count(p, s, read'[p][s] + 1)
                      /\ \A k \in SendCalls(s) : k <= read'[p][s] => WorldDest(p, s, k) # {}
    BY <1>1, SameJob DEF ReadInv, CountsRead
  <2> QED BY DEF ReadInv, CountsRead
<1>3. PendInv'
  <2> SUFFICES ASSUME NEW p \in Ranks, stage'[p] # "exit", NEW i \in pending'[p], i.event # 0
               PROVE  /\ Numbered(p, i.src, i.event, i.tag) /\ i.comm = job.calls[i.src][i.event].comm
                      /\ i.src # p => i.event <= read'[p][i.src] /\ i.time = job.calls[i.src][i.event].time
    BY SameNumbers DEF PendInv, PendingNumbered
  <2> QED BY DEF PendInv, PendingNumbered
<1> QED BY <1>2, <1>3

\* What a rank knows of the messages to it after it has read on in some traces.
LEMMA ReadsOn ==
  ASSUME AgreeOnGroups, TInv, SaneInv, ReadInv, PendInv, NEW r \in Ranks, NEW ranks \in SUBSET Ranks,
         stage[r] \notin {"setup", "notify", "exit"}, Scan(r, ranks), job' = job,
         \A p \in Ranks : p # r => stage'[p] = stage[p],
         NEW infos, pending' = [pending EXCEPT ![r] = infos],
         stage'[r] # "exit" => \A s \in ranks : ~ScanFails(r, s),
         \A i \in infos : i \in pending[r] \/ i.event = 0 \/ \E s \in ranks : i \in NextSends(r, s)
  PROVE  ReadInv' /\ PendInv'
<1>1. /\ job \in Jobs /\ ContextInv /\ read' \in [Ranks -> [Ranks -> Nat]] /\ rtags' \in [Ranks -> [Ranks -> Nat]]
      /\ \A p \in Ranks : p # r => /\ pending'[p] = pending[p]
                                   /\ \A s \in Ranks : read'[p][s] = read[p][s] /\ rtags'[p][s] = rtags[p][s]
      /\ pending'[r] = infos
  <2>1. job \in Jobs /\ ContextInv
    BY DEF TInv, PlacesInv
  <2>2. /\ read' \in [Ranks -> [Ranks -> Nat]] /\ rtags' \in [Ranks -> [Ranks -> Nat]]
        /\ \A q, s \in Ranks : q # r \/ s \notin ranks => read'[q][s] = read[q][s] /\ rtags'[q][s] = rtags[q][s]
    BY <2>1, Scanned
  <2> QED BY <2>1, <2>2 DEF ContextInv
<1>2. \A p \in Ranks : p # r => read'[p] = read[p] /\ rtags'[p] = rtags[p]
  BY <1>1 DEF ContextInv
<1>3. ASSUME stage'[r] # "exit"
      PROVE  /\ \A s \in Ranks : /\ rtags'[r][s] = Count(r, s, read'[r][s] + 1)
                                 /\ \A k \in SendCalls(s) : k <= read'[r][s] => WorldDest(r, s, k) # {}
             /\ \A i \in infos : i.event # 0 =>
                  /\ Numbered(r, i.src, i.event, i.tag) /\ i.comm = job.calls[i.src][i.event].comm
                  /\ i.src # r => i.event <= read'[r][i.src] /\ i.time = job.calls[i.src][i.event].time
  <2>1. /\ \A s \in Ranks : /\ rtags'[r][s] = Count(r, s, read'[r][s] + 1)
                            /\ \A k \in SendCalls(s) : k <= read'[r][s] => WorldDest(r, s, k) # {}
                            /\ read[r][s] <= read'[r][s]
        /\ \A s \in ranks : \A i \in NextSends(r, s) :
             /\ Numbered(r, s, i.event, i.tag) /\ i.src = s /\ i.event <= read'[r][s]
             /\ i.time = job.calls[s][i.event].time /\ i.comm = job.calls[s][i.event].comm
    <3>1. \A s \in Ranks : Sane(s)
      BY DEF SaneInv
    <3>2. \A s \in Ranks : /\ rtags[r][s] = Count(r, s, read[r][s] + 1)
                           /\ \A k \in SendCalls(s) : k <= read[r][s] => WorldDest(r, s, k) # {}
      BY DEF ReadInv, CountsRead
    <3>3. \A s \in ranks : ~ScanFails(r, s)
      BY <1>3
    <3> QED BY <1>1, <3>1, <3>2, <3>3, ScanCounts
  <2>2. ASSUME NEW i \in infos, i.event # 0
        PROVE  /\ Numbered(r, i.src, i.event, i.tag) /\ i.comm = job.calls[i.src][i.event].comm
               /\ i.src # r => i.event <= read'[r][i.src] /\ i.time = job.calls[i.src][i.event].time
    <3>1. CASE i \in pending[r]
      <4>1. i \in Infos
        BY <1>1, <3>1 DEF ContextInv
      <4>2. i.src \in Ranks /\ i.event \in Nat /\ read[r][i.src] \in Nat /\ read'[r][i.src] \in Nat
        BY <1>1, <4>1 DEF ContextInv, Infos
      <4>3. /\ Numbered(r, i.src, i.event, i.tag) /\ i.comm = job.calls[i.src][i.event].comm
            /\ i.src # r => i.event <= read[r][i.src] /\ i.time = job.calls[i.src][i.event].time
        BY <2>2, <3>1 DEF PendInv, PendingNumbered
      <4> QED BY <2>1, <4>2, <4>3
    <3>2. CASE \E s \in ranks : i \in NextSends(r, s)
      BY <2>1, <3>2
    <3> QED BY <2>2, <3>1, <3>2
  <2> QED BY <2>1, <2>2
<1>4. \A p \in Ranks : p # r => /\ stage'[p] = stage[p] /\ pending'[p] = pending[p]
                               /\ read'[p] = read[p] /\ rtags'[p] = rtags[p]
  BY <1>1, <1>2
<1>5. stage'[r] # "exit" =>
        /\ \A s \in Ranks : /\ rtags'[r][s] = Count(r, s, read'[r][s] + 1)
                            /\ \A k \in SendCalls(s) : k <= read'[r][s] => WorldDest(r, s, k) # {}
        /\ \A i \in pending'[r] : i.event # 0 =>
             /\ Numbered(r, i.src, i.event, i.tag) /\ i.comm = job.calls[i.src][i.event].comm
             /\ i.src # r => i.event <= read'[r][i.src] /\ i.time = job.calls[i.src][i.event].time
  <2>1. pending'[r] = infos
    BY <1>1
  <2> QED BY <1>3, <2>1
<1> QED BY <1>4, <1>5, OthersRead

\* Steps that read nothing.
LEMMA ReadsNothing ==
  ASSUME job' = job, ReadInv, PendInv, UNCHANGED <<read, rtags, pending>>,
         \A p \in Ranks : stage'[p] # "exit" => stage[p] # "exit"
  PROVE  ReadInv' /\ PendInv'
<1>1. \A p, s \in Ranks : Count(p, s, read[p][s] + 1)' = Count(p, s, read[p][s] + 1)
  BY SameJob DEF Count, Earlier
<1>2. ReadInv'
  BY <1>1, SameJob DEF ReadInv, CountsRead
<1>3. PendInv'
  BY SameNumbers DEF PendInv, PendingNumbered
<1> QED BY <1>2, <1>3

\* The sends that are pending at a rank are numbered as their senders number them.
LEMMA ReadStep ==
  ASSUME AgreeOnGroups, TInv, CInv, Next
  PROVE  ReadInv' /\ PendInv'
<1>1. SaneInv /\ ReadInv /\ PendInv /\ PlacesInv /\ ContextInv /\ job \in Jobs
  BY DEF CInv, TInv, PlacesInv
<1>2. CASE NotifyPeers
  BY <1>1, <1>2, ReadsNothing DEF NotifyPeers, recvVars, contextVars
<1>3. CASE MPIStep
  BY <1>1, <1>3, ReadsNothing DEF MPIStep, Copy, Match, callVars, recvVars, contextVars
<1>4. ASSUME NEW r \in Ranks, RankStep(r) PROVE ReadInv' /\ PendInv'
  <2>1. job' = job /\ stage[r] # "exit" /\ \A p \in Ranks : p # r => stage'[p] = stage[p]
    BY <1>1, <1>4, Moves
  <2>2. CASE UNCHANGED <<read, rtags, pending>>
    BY <1>1, <2>1, <2>2, ReadsNothing
  <2>3. peers[r] \in SUBSET Ranks /\ pending[r] \subseteq Infos
    BY <1>1 DEF PlacesInv, ContextInv
  <2>4. CASE ReplayInit(r)
    <3> DEFINE infos == UNION {IF Stops(r, s) = {} THEN {NoSend(s)} ELSE NextSends(r, s) : s \in peers[r]}
    <3>1. /\ pending' = [pending EXCEPT ![r] = infos] /\ Scan(r, peers[r]) /\ stage[r] = "init"
          /\ stage' = [stage EXCEPT ![r] = IF (\E s \in peers[r] : ScanFails(r, s)) \/ ~Ordered(pending'[r])
                                           THEN "exit" ELSE "ready"]
      BY <2>4 DEF ReplayInit, GoTo
    <3>2. \A i \in infos : i \in pending[r] \/ i.event = 0 \/ \E s \in peers[r] : i \in NextSends(r, s)
      BY DEF NoSend
    <3> HIDE DEF infos
    <3>3. stage'[r] # "exit" => \A s \in peers[r] : ~ScanFails(r, s)
      BY <1>1, <3>1 DEF PlacesInv
    <3>4. stage[r] \notin {"setup", "notify", "exit"} /\ Scan(r, peers[r]) /\ pending' = [pending EXCEPT ![r] = infos]
      BY <3>1
    <3>5. SaneInv /\ ReadInv /\ PendInv /\ peers[r] \in SUBSET Ranks
      BY <1>1, <2>3
    <3> QED BY <2>1, <3>2, <3>3, <3>4, <3>5, ReadsOn, Zenon
  <2>5. CASE EndPosting(r) /\ why[r] = "handler"
    <3> DEFINE infos == pending[r] \cup UNION {NextSends(r, s) : s \in peers[r]}
    <3>1. /\ pending' = [pending EXCEPT ![r] = infos] /\ Scan(r, peers[r]) /\ stage[r] = "posting"
          /\ stage' = [stage EXCEPT ![r] = IF (\E s \in peers[r] : ScanFails(r, s)) \/ ~Ordered(pending'[r])
                                           THEN "exit" ELSE "busy"]
      BY <2>5 DEF EndPosting, GoTo
    <3>2. \A i \in infos : i \in pending[r] \/ i.event = 0 \/ \E s \in peers[r] : i \in NextSends(r, s)
      OBVIOUS
    <3> HIDE DEF infos
    <3>3. stage'[r] # "exit" => \A s \in peers[r] : ~ScanFails(r, s)
      BY <1>1, <3>1 DEF PlacesInv
    <3>4. stage[r] \notin {"setup", "notify", "exit"} /\ Scan(r, peers[r]) /\ pending' = [pending EXCEPT ![r] = infos]
      BY <3>1
    <3>5. SaneInv /\ ReadInv /\ PendInv /\ peers[r] \in SUBSET Ranks
      BY <1>1, <2>3
    <3> QED BY <2>1, <3>2, <3>3, <3>4, <3>5, ReadsOn, Zenon
  <2>6. CASE PostRecv(r) /\ ~UNCHANGED <<read, rtags, pending>>
    <3>1. PICK i \in Due(r) :
            /\ pending' = [pending EXCEPT ![r] = (@ \ {i}) \cup UNION {NextSends(r, s) : s \in Refetched(r, i)}]
            /\ Scan(r, Refetched(r, i))
            /\ GoTo(r, IF (\E s \in Refetched(r, i) : ScanFails(r, s)) \/ ~Ordered(pending'[r])
                       THEN "exit" ELSE "posting")
      BY <2>6 DEF PostRecv, contextVars
    <3> DEFINE again == Refetched(r, i)
               infos == (pending[r] \ {i}) \cup UNION {NextSends(r, s) : s \in again}
    <3>2. again \in SUBSET Ranks /\ stage[r] = "posting"
      BY <2>3, <2>6 DEF Refetched, Due, Infos, PostRecv
    <3>3. /\ pending' = [pending EXCEPT ![r] = infos] /\ Scan(r, again)
          /\ stage' = [stage EXCEPT ![r] = IF (\E s \in again : ScanFails(r, s)) \/ ~Ordered(pending'[r])
                                           THEN "exit" ELSE "posting"]
      BY <3>1 DEF GoTo
    <3>4. \A j \in infos : j \in pending[r] \/ j.event = 0 \/ \E s \in again : j \in NextSends(r, s)
      OBVIOUS
    <3> HIDE DEF infos, again
    <3>5. stage'[r] # "exit" => \A s \in again : ~ScanFails(r, s)
      BY <1>1, <3>3 DEF PlacesInv
    <3>6. stage[r] \notin {"setup", "notify", "exit"} /\ Scan(r, again) /\ pending' = [pending EXCEPT ![r] = infos]
      BY <3>2, <3>3
    <3>7. SaneInv /\ ReadInv /\ PendInv /\ again \in SUBSET Ranks
      BY <1>1, <3>2
    <3> QED BY <2>1, <3>4, <3>5, <3>6, <3>7, ReadsOn, Zenon
  <2>7. CASE Send(r)
    <3>1. PICK d \in WorldDest(r, r, at[r]) :
            pending' = [pending EXCEPT ![r] = @ \cup IF d # r THEN {} ELSE
              {[time |-> 0, src |-> r, tag |-> tag[r], comm |-> Call(r).comm, event |-> at[r]]}]
      BY <2>7 DEF Send
    <3>2. UNCHANGED <<read, rtags>> /\ stage[r] = "act" /\ Call(r).op \in SendOps
      BY <2>7 DEF Send, contextVars
    <3>3. /\ d \in Ranks /\ at[r] \in SendCalls(r) /\ at[r] \in SendsTo(d, r)
      BY <1>1, <3>1, <3>2, OneMessage DEF InCall
    <3>4. tag[r] = Count(d, r, at[r])
      BY <3>2, <3>3 DEF CInv, StagInv, CountsSent, Begun, InCall
    <3>5. ASSUME NEW i \in pending'[r], i.event # 0
          PROVE  /\ Numbered(r, i.src, i.event, i.tag) /\ i.comm = job.calls[i.src][i.event].comm
                 /\ i.src # r => i.event <= read[r][i.src] /\ i.time = job.calls[i.src][i.event].time
      <4>1. CASE i \in pending[r]
        BY <1>1, <2>1, <3>5, <4>1 DEF PendInv, PendingNumbered
      <4>2. CASE d = r /\ i = [time |-> 0, src |-> r, tag |-> tag[r], comm |-> Call(r).comm, event |-> at[r]]
        BY <3>3, <3>4, <4>2 DEF Numbered, Call
      <4> QED BY <1>1, <3>1, <3>5, <4>1, <4>2 DEF ContextInv
    <3>6. \A p \in Ranks : p # r => pending'[p] = pending[p]
      BY <3>1
    <3>7. \A s \in Ranks : /\ rtags[r][s] = Count(r, s, read[r][s] + 1)
                           /\ \A k \in SendCalls(s) : k <= read[r][s] => WorldDest(r, s, k) # {}
      BY <1>1, <2>1 DEF ReadInv, CountsRead
    <3> QED BY <1>1, <2>1, <3>2, <3>5, <3>6, <3>7, OthersRead
  <2>8. UNCHANGED <<read, rtags, pending>> \/ ReplayInit(r) \/ (EndPosting(r) /\ why[r] = "handler") \/ Send(r)
          \/ PostRecv(r)
    BY <1>4 DEF RankStep, SetupDestSet, BeginSend, BeginRecv, BeginWait, BeginOther, TestBefore, BusyRound,
       EndCompute, EndPosting, Pass, Enter, Leave, Finalize, Drain, Destroy, recvVars, contextVars
  <2> QED BY <2>2, <2>4, <2>5, <2>6, <2>7, <2>8
<1> QED BY <1>2, <1>3, <1>4 DEF Next

\* Steps that send nothing in other ranks' places.
LEMMA OthersSend ==
  ASSUME job' = job, StagInv, NEW r \in Ranks,
         \A p \in Ranks : p # r => /\ stage'[p] = stage[p] /\ at'[p] = at[p]
                                   /\ stags'[p] = stags[p] /\ tag'[p] = tag[p],
         NEW begun \in BOOLEAN, begun <=> stage'[r] \in InCall \cup {"posting"},
         stage'[r] \notin {"exit", "drain", "done"} =>
           /\ \A d \in Ranks : stags'[r][d] = Count(d, r, IF begun THEN at'[r] + 1 ELSE at'[r])
           /\ begun => \A d \in Ranks : at'[r] \in SendsTo(d, r) => tag'[r] = Count(d, r, at'[r])
  PROVE  StagInv'
<1>1. /\ \A d, p : Count(d, p, Reached(p))' = Count(d, p, Reached(p)')
      /\ \A d, p : Count(d, p, at[p])' = Count(d, p, at'[p])
      /\ \A d, p : SendsTo(d, p)' = SendsTo(d, p)
  BY SameJob DEF Count, Earlier
<1>2. ASSUME NEW p \in Ranks, stage'[p] \notin {"exit", "drain", "done"}
      PROVE  /\ \A d \in Ranks : stags'[p][d] = Count(d, p, Reached(p)')
             /\ Begun(p)' => \A d \in Ranks : at'[p] \in SendsTo(d, p) => tag'[p] = Count(d, p, at'[p])
  <2>1. CASE p = r
    BY <1>2, <2>1 DEF Reached, Begun
  <2>2. CASE p # r
    <3>1. Reached(p)' = Reached(p) /\ Begun(p)' = Begun(p)
      BY <2>2 DEF Reached, Begun
    <3> QED BY <1>2, <2>2, <3>1 DEF StagInv, CountsSent
  <2> QED BY <2>1, <2>2
<1> QED BY <1>1, <1>2 DEF StagInv, CountsSent

\* A rank has counted the messages to every other that it has begun to send.
LEMMA StagStep ==
  ASSUME TInv, StagInv, Next
  PROVE  StagInv'
<1>1. PlacesInv /\ ContextInv /\ job \in Jobs
  BY DEF TInv, PlacesInv
<1>2. CASE NotifyPeers \/ MPIStep
  <2>1. /\ UNCHANGED <<job, at, stags, tag>>
        /\ \A p \in Ranks : stage'[p] = stage[p] \/ (stage[p] = "notify" /\ stage'[p] = "init")
    BY <1>1, <1>2 DEF NotifyPeers, MPIStep, Copy, Match, callVars
  <2>2. /\ \A d, p : Count(d, p, Reached(p))' = Count(d, p, Reached(p)')
        /\ \A d, p : Count(d, p, at[p])' = Count(d, p, at'[p])
        /\ \A d, p : SendsTo(d, p)' = SendsTo(d, p)
    BY <2>1, SameJob DEF Count, Earlier
  <2>3. \A p \in Ranks : Begun(p)' = Begun(p) /\ Reached(p)' = Reached(p)
    BY <2>1 DEF Begun, Reached, InCall
  <2> QED BY <2>1, <2>2, <2>3 DEF StagInv, CountsSent
<1>3. ASSUME NEW r \in Ranks, RankStep(r) PROVE StagInv'
  <2>1. job' = job /\ stage[r] # "exit" /\ \A p \in Ranks : p # r => stage'[p] = stage[p]
    BY <1>1, <1>3, Moves
  <2>2. \A s : GoTo(r, s) => stage'[r] = s
    BY <1>1 DEF GoTo, PlacesInv
  <2>3. CASE Drain(r) \/ Destroy(r)
    <3>1. UNCHANGED <<at, stags, tag>> /\ stage'[r] \in {"drain", "done"}
      BY <2>2, <2>3 DEF Drain, Destroy, callVars
    <3> QED BY <2>1, <3>1, OthersSend DEF InCall
  <2>4. CASE SetupDestSet(r) \/ ReplayInit(r) \/ TestBefore(r) \/ BusyRound(r) \/ EndCompute(r)
             \/ Enter(r) \/ PostRecv(r) \/ EndPosting(r)
    <3>1. UNCHANGED <<at, stags, tag>> /\ stage[r] \notin {"drain", "done"}
      BY <2>4 DEF SetupDestSet, ReplayInit, TestBefore, BusyRound, EndCompute, Enter, PostRecv, EndPosting, callVars
    <3>2. stage'[r] \in {"exit", "drain"} \/ (Begun(r) <=> stage'[r] \in InCall \cup {"posting"})
      <4>1. CASE SetupDestSet(r) \/ ReplayInit(r)
        BY <2>2, <4>1 DEF SetupDestSet, ReplayInit, Begun, InCall
      <4>2. CASE TestBefore(r) \/ EndCompute(r) \/ Enter(r)
        BY <2>2, <4>2 DEF TestBefore, EndCompute, Enter, Begun, InCall
      <4>3. CASE BusyRound(r)
        BY <2>2, <4>3 DEF BusyRound, StartPosting, Begun, InCall
      <4>4. CASE PostRecv(r)
        BY <2>2, <4>4 DEF PostRecv, Begun, InCall
      <4>5. CASE EndPosting(r)
        BY <2>2, <4>5 DEF EndPosting, Begun, InCall
      <4> QED BY <2>4, <4>1, <4>2, <4>3, <4>4, <4>5
    <3>3. stage'[r] \notin {"exit", "drain", "done"} =>
            /\ \A d \in Ranks : stags[r][d] = Count(d, r, IF Begun(r) THEN at[r] + 1 ELSE at[r])
            /\ Begun(r) => \A d \in Ranks : at[r] \in SendsTo(d, r) => tag[r] = Count(d, r, at[r])
      BY <2>1, <3>1 DEF StagInv, CountsSent, Reached
    <3>4. PICK begun \in BOOLEAN : begun <=> stage'[r] \in InCall \cup {"posting"}
      OBVIOUS
    <3> QED BY <2>1, <3>1, <3>2, <3>3, <3>4, OthersSend
  <2>5. CASE BeginRecv(r) \/ BeginWait(r) \/ BeginOther(r) \/ Finalize(r)
    <3>1. UNCHANGED <<at, stags, tag>> /\ stage[r] = "ready" /\ at[r] \in Nat
      BY <1>1, <2>5 DEF BeginRecv, BeginWait, BeginOther, Finalize, Replays, callVars, PlacesInv
    <3>2. stage'[r] \in {"posting", "compute"}
      BY <2>2, <2>5 DEF BeginRecv, BeginWait, BeginOther, Finalize, StartPosting
    <3>3. at[r] \notin SendCalls(r)
      <4>1. CASE Finalize(r)
        <5>1. at[r] = Len(job.calls[r]) + 1 /\ SendCalls(r) \subseteq 1..Len(job.calls[r]) /\ Len(job.calls[r]) \in Nat
          BY <1>1, <4>1, CallsTyped DEF Finalize
        <5> QED BY <5>1
      <4>2. CASE ~Finalize(r)
        <5>1. Call(r).op \notin SendOps
          BY <2>5, <4>2 DEF BeginRecv, BeginWait, BeginOther, Replays, SendOps, RecvOps
        <5> QED BY <5>1 DEF SendCalls, Call
      <4> QED BY <4>1, <4>2
    <3>4. \A d \in Ranks : stags[r][d] = Count(d, r, at[r]) /\ at[r] \notin SendsTo(d, r)
      <4>1. Reached(r) = at[r]
        BY <3>1 DEF Reached, Begun, InCall
      <4> QED BY <3>1, <3>3, <4>1 DEF StagInv, CountsSent, SendsTo
    <3>5. \A d \in Ranks : Count(d, r, at[r]) = Count(d, r, at[r] + 1)
      <4> TAKE d \in Ranks
      <4>1. \A k, l \in Nat : k <= l /\ (\A j \in SendsTo(d, r) : j < l => j < k) => Count(d, r, k) = Count(d, r, l)
        BY <1>1, Counting
      <4>2. \A j \in SendsTo(d, r) : j < at[r] + 1 => j < at[r]
        <5>1. \A j \in SendsTo(d, r) : j \in Nat /\ j # at[r]
          BY <1>1, <3>4, Counting
        <5> QED BY <3>1, <5>1
      <4>3. at[r] + 1 \in Nat /\ at[r] <= at[r] + 1
        BY <3>1
      <4> QED BY <3>1, <4>1, <4>2, <4>3
    <3>6. TRUE <=> stage'[r] \in InCall \cup {"posting"}
      BY <3>2 DEF InCall
    <3>7. \A d \in Ranks : stags[r][d] = Count(d, r, IF TRUE THEN at[r] + 1 ELSE at[r])
      BY <3>4, <3>5
    <3> QED BY <2>1, <3>1, <3>4, <3>6, <3>7, OthersSend
  <2>6. CASE BeginSend(r)
    <3>1. PICK d \in WorldDest(r, r, at[r]) :
            tag' = [tag EXCEPT ![r] = stags[r][d]] /\ stags' = [stags EXCEPT ![r][d] = @ + 1]
      BY <2>6 DEF BeginSend
    <3>2. /\ at[r] \in Nat /\ at[r] <= Len(job.calls[r]) /\ at[r] >= 1 /\ at' = at /\ Call(r).op \in SendOps
          /\ stage'[r] = "compute" /\ stage[r] = "ready"
      BY <1>1, <2>2, <2>6 DEF BeginSend, Replays, PlacesInv
    <3>3. at[r] \in SendCalls(r)
      BY <1>1, <3>2, CallsTyped DEF SendCalls, Call
    <3>4. d \in Ranks /\ WorldDest(r, r, at[r]) = {d} /\ at[r] \in SendsTo(d, r)
      BY <1>1, <3>1, <3>3, Destinations
    <3>5. \A q \in Ranks : stags[r][q] = Count(q, r, at[r])
      <4>1. Reached(r) = at[r]
        BY <3>2 DEF Reached, Begun, InCall
      <4> QED BY <3>2, <4>1 DEF StagInv, CountsSent
    <3>6. ASSUME NEW q \in Ranks PROVE stags'[r][q] = Count(q, r, at[r] + 1)
      <4>1. CASE q = d
        <5>1. Count(q, r, at[r] + 1) = Count(q, r, at[r]) + 1
          BY <1>1, <3>2, <3>4, <4>1, Counting
        <5>2. stags'[r][q] = stags[r][q] + 1
          BY <1>1, <3>1, <3>4, <4>1 DEF ContextInv
        <5> QED BY <3>5, <5>1, <5>2
      <4>2. CASE q # d
        <5>1. at[r] \notin SendsTo(q, r)
          BY <3>4, <4>2 DEF SendsTo
        <5>2. \A k, l \in Nat : k <= l /\ (\A j \in SendsTo(q, r) : j < l => j < k) => Count(q, r, k) = Count(q, r, l)
          BY <1>1, Counting
        <5>3. \A j \in SendsTo(q, r) : j < at[r] + 1 => j < at[r]
          <6>1. \A j \in SendsTo(q, r) : j \in Nat /\ j # at[r]
            BY <1>1, <5>1, Counting
          <6> QED BY <3>2, <6>1
        <5>4. at[r] + 1 \in Nat /\ at[r] <= at[r] + 1
          BY <3>2
        <5>5. Count(q, r, at[r]) = Count(q, r, at[r] + 1)
          BY <3>2, <5>2, <5>3, <5>4
        <5>6. stags'[r][q] = stags[r][q]
          BY <1>1, <3>1, <3>4, <4>2 DEF ContextInv
        <5> QED BY <3>5, <5>5, <5>6
      <4> QED BY <4>1, <4>2
    <3>7. \A q \in Ranks : at[r] \in SendsTo(q, r) => tag'[r] = Count(q, r, at[r])
      <4>1. tag'[r] = stags[r][d]
        BY <1>1, <3>1 DEF PlacesInv
      <4>2. \A q \in Ranks : at[r] \in SendsTo(q, r) => q = d
        BY <3>4 DEF SendsTo
      <4> QED BY <3>4, <3>5, <4>1, <4>2
    <3>8. \A p \in Ranks : p # r => stags'[p] = stags[p] /\ tag'[p] = tag[p]
      BY <3>1
    <3>9. TRUE <=> stage'[r] \in InCall \cup {"posting"}
      BY <3>2 DEF InCall
    <3>10. \A q \in Ranks : stags'[r][q] = Count(q, r, IF TRUE THEN at'[r] + 1 ELSE at'[r])
      BY <3>2, <3>6
    <3> QED BY <2>1, <3>2, <3>7, <3>8, <3>9, <3>10, OthersSend
  <2>7. CASE Send(r) \/ Pass(r) \/ Leave(r)
    <3>1. UNCHANGED <<stags, tag>> /\ Begun(r) /\ stage[r] \notin {"exit", "drain", "done"}
      BY <2>7 DEF Send, Pass, Leave, Begun, InCall
    <3>2. CASE stage'[r] = "exit"
      <4>1. \A p \in Ranks : p # r => at'[p] = at[p]
        <5>1. at' = [at EXCEPT ![r] = @ + 1] \/ at' = at
          BY <2>7 DEF Send, Pass, Leave, Next1
        <5> QED BY <1>1, <5>1 DEF PlacesInv
      <4>2. FALSE <=> stage'[r] \in InCall \cup {"posting"}
        BY <3>2 DEF InCall
      <4> QED BY <2>1, <3>1, <3>2, <4>1, <4>2, OthersSend
    <3>3. CASE stage'[r] # "exit"
      <4>1. Next1(r)
        BY <2>2, <2>7, <3>3 DEF Send, Pass, Leave
      <4>2. at'[r] = at[r] + 1 /\ stage'[r] = "ready" /\ \A p \in Ranks : p # r => at'[p] = at[p]
        BY <1>1, <2>2, <4>1 DEF Next1, PlacesInv
      <4>3. \A d \in Ranks : stags[r][d] = Count(d, r, at[r] + 1)
        BY <3>1 DEF StagInv, CountsSent, Reached
      <4>4. FALSE <=> stage'[r] \in InCall \cup {"posting"}
        BY <4>2 DEF InCall
      <4>5. \A d \in Ranks : stags'[r][d] = Count(d, r, IF FALSE THEN at'[r] + 1 ELSE at'[r])
        BY <3>1, <4>2, <4>3
      <4> QED BY <2>1, <3>1, <4>2, <4>4, <4>5, OthersSend
    <3> QED BY <3>2, <3>3
  <2> QED BY <1>3, <2>3, <2>4, <2>5, <2>6, <2>7 DEF RankStep
<1> QED BY <1>2, <1>3 DEF Next

\* What MPI is given, and what it has matched, keeps the numbers.
LEMMA MsgStep ==
  ASSUME TInv, CInv, Next
  PROVE  MsgInv' /\ MatchInv'
<1>1. PlacesInv /\ ContextInv /\ MPIInv /\ StagInv /\ PendInv /\ MsgInv /\ MatchInv
  BY DEF TInv, CInv
<1>2. ASSUME job' = job, UNCHANGED <<sent, posted, matched>> PROVE MsgInv' /\ MatchInv'
  BY <1>1, <1>2, SameNumbers DEF MsgInv, MatchInv
<1>3. CASE NotifyPeers
  BY <1>2, <1>3 DEF NotifyPeers, mpiVars
<1>4. CASE \E m \in sent : Copy(m)
  BY <1>2, <1>4 DEF Copy, callVars
<1>5. CASE \E m \in sent, n \in posted : Match(m, n)
  <2>1. PICK m \in sent, n \in posted : Match(m, n)
    BY <1>5
  <2>2. job' = job /\ UNCHANGED <<sent, posted>> /\ matched' = matched \cup {<<m, n>>}
        /\ m.src = n.src /\ m.dst = n.dst /\ m.tag = n.tag
    BY <2>1 DEF Match, callVars
  <2>3. MsgInv'
    BY <1>1, <2>2, SameNumbers DEF MsgInv
  <2>4. MatchInv'
    BY <1>1, <2>2 DEF MatchInv
  <2> QED BY <2>3, <2>4
<1>6. ASSUME NEW r \in Ranks, RankStep(r) PROVE MsgInv' /\ MatchInv'
  <2>1. job' = job /\ stage[r] # "exit" /\ job \in Jobs
    BY <1>1, <1>6, Moves DEF PlacesInv
  <2>2. CASE PostRecv(r)
    <3>1. UNCHANGED <<sent, matched>> /\ pending[r] \subseteq Infos
      BY <1>1, <2>2 DEF PostRecv, ContextInv
    <3>2. CASE UNCHANGED posted
      BY <1>2, <2>1, <3>1, <3>2
    <3>3. CASE ~UNCHANGED posted
      <4>1. PICK i \in Due(r) :
              /\ TranslateRank(r, i.src, World, i.comm) # {}
              /\ posted' = posted \cup
                   {[src |-> Process(r, i.comm, q), dst |-> r, comm |-> Communicator(r, i.comm),
                     tag |-> i.tag, event |-> i.event] : q \in TranslateRank(r, i.src, World, i.comm)}
        BY <2>2, <3>3 DEF PostRecv
      <4>2. i \in pending[r] /\ i \in Infos /\ i.event # 0
        BY <3>1 DEF Due
      <4>3. posted' = posted \cup {Receive(r, i)}
        BY <2>1, <4>1, <4>2, OneReceive
      <4>4. Numbered(r, i.src, i.event, i.tag)
        BY <1>1, <2>1, <4>2 DEF PendInv, PendingNumbered
      <4> DEFINE n == Receive(r, i)
      <4>5. Numbered(n.dst, n.src, n.event, n.tag)
        BY <4>4 DEF Receive
      <4> HIDE DEF n
      <4>6. posted' = posted \cup {n}
        BY <4>3 DEF n
      <4> QED BY <1>1, <2>1, <3>1, <4>5, <4>6, SameNumbers DEF MsgInv, MatchInv
    <3> QED BY <3>2, <3>3
  <2>3. CASE Send(r)
    <3>1. PICK d \in WorldDest(r, r, at[r]) : sent' = sent \cup {Message(r)}
      BY <2>3 DEF Send, Message
    <3>2. UNCHANGED <<posted, matched>> /\ stage[r] = "act" /\ Call(r).op \in SendOps
      BY <2>3 DEF Send
    <3> DEFINE m == Message(r)
    <3>3. m.dst = d /\ m.src = r /\ m.event = at[r] /\ m.tag = tag[r] /\ d \in Ranks /\ at[r] \in SendsTo(d, r)
      BY <1>1, <3>1, <3>2, OneMessage DEF InCall, Message
    <3>4. tag[r] = Count(d, r, at[r])
      BY <1>1, <3>2, <3>3 DEF StagInv, CountsSent, Begun, InCall
    <3>5. Numbered(m.dst, m.src, m.event, m.tag)
      BY <3>3, <3>4 DEF Numbered
    <3> HIDE DEF m
    <3>6. sent' = sent \cup {m}
      BY <3>1 DEF m
    <3> QED BY <1>1, <2>1, <3>2, <3>5, <3>6, SameNumbers DEF MsgInv, MatchInv
  <2>4. CASE ~PostRecv(r) /\ ~Send(r)
    <3>1. UNCHANGED <<sent, posted, matched>>
      BY <1>6, <2>4 DEF RankStep, SetupDestSet, ReplayInit, BeginSend, BeginRecv, BeginWait, BeginOther, TestBefore,
         BusyRound, EndCompute, EndPosting, Pass, Enter, Leave, Finalize, Drain, Destroy, mpiVars
    <3> QED BY <1>2, <2>1, <3>1
  <2> QED BY <2>2, <2>3, <2>4
<1> QED BY <1>3, <1>4, <1>5, <1>6 DEF Next, MPIStep

\* The initial states count nothing.
LEMMA InitCounts == ASSUME Init PROVE CInv
<1>1. job \in Jobs /\ \A r \in Ranks : stage[r] = "setup"
  BY DEF Init
<1>2. \A d, s \in Ranks : Count(d, s, 1) = 0
  <2> TAKE d, s \in Ranks
  <2>1. SendsTo(d, s) \subseteq 1..Len(job.calls[s]) /\ Len(job.calls[s]) \in Nat
    BY <1>1, CallsTyped DEF SendsTo
  <2>2. Earlier(d, s, 1) = {}
    BY <2>1 DEF Earlier
  <2> QED BY <2>2, FS_EmptySet DEF Count
<1>3. SaneInv
  BY <1>1 DEF SaneInv
<1>4. ReadInv
  <2> SUFFICES ASSUME NEW r \in Ranks PROVE CountsRead(r)
    BY DEF ReadInv
  <2>1. \A s \in Ranks : rtags[r][s] = 0 /\ read[r][s] = 0
    BY DEF Init
  <2>2. \A s \in Ranks : \A k \in SendCalls(s) : ~(k <= 0)
    BY <1>1, CallsTyped
  <2> QED BY <1>2, <2>1, <2>2 DEF CountsRead
<1>5. StagInv
  <2> SUFFICES ASSUME NEW r \in Ranks PROVE CountsSent(r)
    BY DEF StagInv
  <2>1. ~Begun(r) /\ Reached(r) = 1 /\ \A d \in Ranks : stags[r][d] = 0
    BY <1>1 DEF Init, Begun, Reached, InCall
  <2> QED BY <1>2, <2>1 DEF CountsSent
<1>6. PendInv /\ MsgInv /\ MatchInv
  BY DEF Init, PendInv, PendingNumbered, MsgInv, MatchInv
<1> QED BY <1>3, <1>4, <1>5, <1>6 DEF CInv

\* A stuttering step counts nothing.
LEMMA StillCounts == ASSUME CInv, UNCHANGED vars PROVE CInv'
<1>1. UNCHANGED <<job, stage, at, stags, tag, read, rtags, pending, sent, posted, matched>>
  BY DEF vars, callVars, recvVars, contextVars, mpiVars
<1>2. SaneInv'
  BY <1>1, SameJob DEF CInv, SaneInv
<1>3. ReadInv' /\ PendInv'
  BY <1>1, ReadsNothing DEF CInv
<1>4. StagInv'
  <2>1. /\ \A d, p : Count(d, p, Reached(p))' = Count(d, p, Reached(p)')
        /\ \A d, p : Count(d, p, at[p])' = Count(d, p, at'[p])
        /\ \A d, p : SendsTo(d, p)' = SendsTo(d, p)
    BY <1>1, SameJob DEF Count, Earlier
  <2>2. \A p \in Ranks : Begun(p)' = Begun(p) /\ Reached(p)' = Reached(p)
    BY <1>1 DEF Begun, Reached, InCall
  <2> QED BY <1>1, <2>1, <2>2 DEF CInv, StagInv, CountsSent
<1>5. MsgInv' /\ MatchInv'
  BY <1>1, SameNumbers DEF CInv, MsgInv, MatchInv
<1> QED BY <1>2, <1>3, <1>4, <1>5 DEF CInv

\* Where the ranks agree on the members of communicators, the numbers of both
\* sides are those of the sends in the trace.
THEOREM NumbersInductive == ASSUME AgreeOnGroups PROVE Spec => [](TInv /\ CInv)
<1>1. TInv /\ CInv /\ [Next]_vars => CInv'
  <2> SUFFICES ASSUME TInv, CInv, [Next]_vars PROVE CInv'
    OBVIOUS
  <2>1. CASE Next
    <3>1. SaneInv'
      BY <2>1, SaneStep DEF CInv
    <3>2. StagInv'
      BY <2>1, StagStep DEF CInv
    <3> QED BY <2>1, <3>1, <3>2, ReadStep, MsgStep DEF CInv
  <2> QED BY <2>1, StillCounts
<1>2. Init => CInv
  BY InitCounts
<1> QED BY <1>1, <1>2, QueueInductive, PTL DEF Spec

\* A message goes into the receive posted for it: both sides only count messages,
\* the receiver from its reading of the sender's trace and in the order of the
\* simulated times, and still number the messages of a pair alike.
THEOREM ReceivesMatchSends == ASSUME AgreeOnGroups PROVE Spec => []ReceivesMatch
<1>1. TInv /\ CInv => ReceivesMatch
  <2> SUFFICES ASSUME TInv, CInv, NEW p \in matched PROVE p[1].event = p[2].event
    BY DEF ReceivesMatch
  <2>1. p[1] \in sent /\ p[2] \in posted /\ p[1] \in Messages /\ job \in Jobs
    BY DEF TInv, MPIInv, PlacesInv
  <2>2. p[1].src \in Ranks /\ p[1].src = p[2].src /\ p[1].dst = p[2].dst /\ p[1].tag = p[2].tag
    BY <2>1 DEF CInv, MatchInv, Messages
  <2>3. /\ Numbered(p[1].dst, p[1].src, p[1].event, p[1].tag)
        /\ Numbered(p[1].dst, p[1].src, p[2].event, p[1].tag)
    BY <2>1, <2>2 DEF CInv, MsgInv
  <2> QED BY <2>1, <2>2, <2>3, SameNumber
<1> QED BY <1>1, NumbersInductive, PTL
-----------------------------------------------------------------------------
(* The receives that are due are posted. *)

\* A scan passes over no send to the rank: it stops at the first, and only when
\* there is none does it read to the end of the trace.
LEMMA ScanFinds ==
  ASSUME AgreeOnGroups, job \in Jobs, ContextInv, NEW r \in Ranks, NEW ranks \in SUBSET Ranks, Scan(r, ranks),
         \A s \in Ranks : Sane(s)
  PROVE  /\ \A s \in Ranks : \A k \in SendsTo(r, s) : k <= read'[r][s] =>
              k <= read[r][s] \/ (s \in ranks /\ \E i \in NextSends(r, s) : i.src = s /\ i.event = k)
         /\ \A s \in ranks : (\E i \in NextSends(r, s) : i.src = s) \/ (\A k \in SendsTo(r, s) : k <= read'[r][s])
         /\ \A s \in ranks : \A i \in NextSends(r, s) : i.event # 0
<1>1. \A s \in Ranks : /\ read[r][s] \in Nat /\ read[r][s] <= Len(job.calls[s]) /\ Len(job.calls[s]) \in Nat
                       /\ SendCalls(s) \subseteq 1..Len(job.calls[s])
  BY CallsTyped DEF ContextInv
<1>2. ASSUME NEW s \in Ranks, NEW k \in SendsTo(r, s)
      PROVE  k \in SendCalls(s) /\ k \in Nat /\ k <= Len(job.calls[s]) /\ WorldDest(r, s, k) \in {{}, {r}}
  <2>1. k \in SendCalls(s) /\ WorldDest(s, s, k) = {r}
    BY DEF SendsTo
  <2>2. WorldDest(r, s, k) # {} => WorldDest(r, s, k) = WorldDest(s, s, k)
    BY <2>1, Destinations
  <2> QED BY <1>1, <2>1, <2>2
<1>3. ASSUME NEW s \in ranks, NEW k \in Stops(r, s)
      PROVE  \E i \in NextSends(r, s) : i.src = s /\ i.event = k
  <2> DEFINE i == [time |-> job.calls[s][k].time, src |-> s, tag |-> rtags[r][s],
                   comm |-> job.calls[s][k].comm, event |-> k]
  <2>1. i \in NextSends(r, s)
    BY DEF NextSends
  <2> QED BY <2>1
<1>4. ASSUME NEW s \in Ranks, NEW k \in SendsTo(r, s), k <= read'[r][s], k > read[r][s]
      PROVE  s \in ranks /\ k \in Stops(r, s)
  <2>1. s \in ranks
    <3>1. s \notin ranks => read'[r][s] = read[r][s]
      BY Scanned
    <3> QED BY <1>1, <1>2, <1>4, <3>1
  <2>2. PICK l \in Stops(r, s) : TRUE
    <3>1. Stops(r, s) = {} => WorldDest(r, s, k) \notin {{}, {r}}
      BY <1>2, <1>4, StopsAtOne
    <3> QED BY <1>2, <3>1
  <2>3. read'[r][s] = l
    BY <2>1, <2>2, Scanned
  <2>4. /\ l \in Nat
        /\ \A j \in SendCalls(s) : j > read[r][s] /\ j < l => WorldDest(r, s, j) \notin {{}, {r}}
    BY <2>2, StopsAtOne
  <2>5. ~(k < l)
    BY <1>2, <1>4, <2>4
  <2> QED BY <1>2, <1>4, <2>1, <2>2, <2>3, <2>4, <2>5
<1>5. ASSUME NEW s \in ranks, Stops(r, s) = {}
      PROVE  \A k \in SendsTo(r, s) : k <= read'[r][s]
  <2>1. read'[r][s] = Len(job.calls[s])
    BY <1>5, Scanned
  <2> QED BY <1>2, <2>1
<1>6. \A s \in Ranks : \A k \in SendsTo(r, s) : k <= read'[r][s] =>
        k <= read[r][s] \/ (s \in ranks /\ \E i \in NextSends(r, s) : i.src = s /\ i.event = k)
  <2> SUFFICES ASSUME NEW s \in Ranks, NEW k \in SendsTo(r, s), k <= read'[r][s], ~(k <= read[r][s])
               PROVE  s \in ranks /\ \E i \in NextSends(r, s) : i.src = s /\ i.event = k
    OBVIOUS
  <2>1. k > read[r][s]
    BY <1>1, <1>2
  <2> QED BY <1>3, <1>4, <2>1
<1>7. \A s \in ranks : \A i \in NextSends(r, s) : i.event # 0
  <2> SUFFICES ASSUME NEW s \in ranks, NEW k \in Stops(r, s) PROVE k # 0
    BY DEF NextSends
  <2> QED BY StopsAtOne
<1>8. \A s \in ranks : (\E i \in NextSends(r, s) : i.src = s) \/ (\A k \in SendsTo(r, s) : k <= read'[r][s])
  BY <1>3, <1>5
<1> QED BY <1>6, <1>7, <1>8

\* Steps that change nothing for the receives of other ranks.
LEMMA OthersFind ==
  ASSUME job' = job, posted \subseteq posted', FoundInv, NEW r \in Ranks,
         \A p \in Ranks : p # r => /\ stage'[p] = stage[p] /\ why'[p] = why[p] /\ peers'[p] = peers[p]
                                   /\ read'[p] = read[p] /\ pending'[p] = pending[p],
         stage'[r] \notin {"setup", "notify", "init", "exit"} => ReadEnough(r)'
  PROVE  FoundInv'
<1> SUFFICES ASSUME NEW p \in Ranks, p # r, stage[p] \notin {"setup", "notify", "init", "exit"}
             PROVE  ReadEnough(p)'
  BY DEF FoundInv
<1>1. ReadEnough(p)
  BY DEF FoundInv
<1>2. \A s : SendsTo(p, s)' = SendsTo(p, s)
  BY SameJob
<1>3. \A s, k : PostedFor(p, s, k) => PostedFor(p, s, k)'
  BY DEF PostedFor
<1>4. \A s, k : PendingFor(p, s, k) => PendingFor(p, s, k)'
  BY DEF PendingFor
<1> QED BY <1>1, <1>2, <1>3, <1>4 DEF ReadEnough

\* A rank that reads nothing and posts nothing.
LEMMA FindsSame ==
  ASSUME job' = job, posted \subseteq posted', NEW r \in Ranks, ReadEnough(r),
         read'[r] = read[r], peers'[r] = peers[r], pending[r] \subseteq pending'[r],
         \A i \in pending'[r] : i.event # 0,
         stage[r] = "posting" /\ why[r] = "handler" => stage'[r] = "posting" /\ why'[r] = "handler"
  PROVE  ReadEnough(r)'
<1>1. \A s : SendsTo(r, s)' = SendsTo(r, s)
  BY SameJob
<1>2. \A s, k : PostedFor(r, s, k) => PostedFor(r, s, k)'
  BY DEF PostedFor
<1>3. \A s, k : PendingFor(r, s, k) => PendingFor(r, s, k)'
  BY DEF PendingFor
<1> QED BY <1>1, <1>2, <1>3 DEF ReadEnough

\* A rank that reads on: what is pending are old sends, and new ones.
LEMMA FindsOn ==
  ASSUME AgreeOnGroups, job \in Jobs, ContextInv, job' = job, peers' = peers, posted \subseteq posted',
         NEW r \in Ranks, NEW ranks \in SUBSET Ranks, Scan(r, ranks), \A s \in Ranks : Sane(s),
         peers[r] \subseteq Ranks, NEW old, \A i \in old : i.event # 0,
         pending'[r] = old \cup UNION {NextSends(r, s) : s \in ranks},
         \A s \in peers[r] : \A k \in SendsTo(r, s) : k <= read[r][s] =>
           PostedFor(r, s, k)' \/ \E i \in old : i.src = s /\ i.event = k,
         ~(stage'[r] = "posting" /\ why'[r] = "handler") =>
           \A s \in peers[r] \ ranks : (\E i \in old : i.src = s) \/ (\A k \in SendsTo(r, s) : k <= read[r][s])
  PROVE  ReadEnough(r)'
<1>1. /\ \A s \in Ranks : \A k \in SendsTo(r, s) : k <= read'[r][s] =>
           k <= read[r][s] \/ (s \in ranks /\ \E i \in NextSends(r, s) : i.src = s /\ i.event = k)
      /\ \A s \in ranks : (\E i \in NextSends(r, s) : i.src = s) \/ (\A k \in SendsTo(r, s) : k <= read'[r][s])
      /\ \A s \in ranks : \A i \in NextSends(r, s) : i.event # 0
  BY ScanFinds
<1>2. \A s : SendsTo(r, s)' = SendsTo(r, s)
  BY SameJob
<1>3. \A s \in Ranks : s \notin ranks => read'[r][s] = read[r][s]
  BY Scanned
<1>4. \A i \in pending'[r] : i.event # 0
  BY <1>1
<1>5. ASSUME NEW s \in peers[r], NEW k \in SendsTo(r, s), k <= read'[r][s]
      PROVE  PostedFor(r, s, k)' \/ PendingFor(r, s, k)'
  <2>1. CASE k <= read[r][s]
    BY <2>1 DEF PendingFor
  <2>2. CASE s \in ranks /\ \E i \in NextSends(r, s) : i.src = s /\ i.event = k
    BY <2>2 DEF PendingFor
  <2> QED BY <1>1, <1>5, <2>1, <2>2
<1>6. ASSUME ~(stage'[r] = "posting" /\ why'[r] = "handler"), NEW s \in peers[r]
      PROVE  (\E i \in pending'[r] : i.src = s) \/ (\A k \in SendsTo(r, s) : k <= read'[r][s])
  <2>1. CASE s \in ranks
    BY <1>1, <2>1
  <2>2. CASE s \notin ranks
    BY <1>3, <1>6, <2>2
  <2> QED BY <2>1, <2>2
<1> QED BY <1>2, <1>4, <1>5, <1>6 DEF ReadEnough

\* A step of a rank changes nothing of other ranks, and takes no receive back.
LEMMA MovesOnly ==
  ASSUME TInv, NEW r \in Ranks, RankStep(r)
  PROVE  /\ \A p \in Ranks : p # r => /\ read'[p] = read[p] /\ pending'[p] = pending[p] /\ why'[p] = why[p]
                                      /\ clock'[p] = clock[p] /\ at'[p] = at[p]
         /\ posted \subseteq posted' /\ peers' = peers
         /\ SetupDestSet(r) \/ dests' = dests
<1>1. /\ read \in [Ranks -> [Ranks -> Nat]] /\ pending \in [Ranks -> SUBSET Infos]
      /\ DOMAIN why = Ranks /\ DOMAIN clock = Ranks /\ DOMAIN at = Ranks
  BY DEF TInv, ContextInv, PlacesInv
<1>2. \A ranks : Scan(r, ranks) => \A p \in Ranks : p # r => read'[p] = read[p]
  BY <1>1 DEF Scan
<1>3. CASE SetupDestSet(r) \/ BeginSend(r) \/ BeginOther(r) \/ TestBefore(r) \/ EndCompute(r) \/ Enter(r)
           \/ BeginWait(r) \/ Drain(r) \/ Destroy(r)
  BY <1>3 DEF SetupDestSet, BeginSend, BeginWait, BeginOther, TestBefore, EndCompute, Enter, Drain, Destroy,
     callVars, recvVars, contextVars, mpiVars
<1>4. CASE BeginRecv(r) \/ BusyRound(r) \/ Finalize(r)
  BY <1>1, <1>4 DEF BeginRecv, BusyRound, Finalize, StartPosting, callVars, contextVars, mpiVars
<1>5. CASE ReplayInit(r)
  BY <1>1, <1>2, <1>5 DEF ReplayInit, callVars, mpiVars
<1>6. CASE PostRecv(r)
  <2>1. UNCHANGED <<why, clock, at, peers, dests>>
    BY <1>6 DEF PostRecv, callVars
  <2>2. posted \subseteq posted'
    BY <1>6 DEF PostRecv
  <2>3. \A p \in Ranks : p # r => read'[p] = read[p] /\ pending'[p] = pending[p]
    <3>1. CASE UNCHANGED <<read, pending>>
      BY <3>1
    <3>2. CASE ~UNCHANGED <<read, pending>>
      <4>1. /\ \E ranks : Scan(r, ranks)
            /\ \E infos : pending' = [pending EXCEPT ![r] = infos]
        BY <1>6, <3>2 DEF PostRecv, contextVars
      <4> QED BY <1>1, <1>2, <4>1
    <3> QED BY <3>1, <3>2
  <2> QED BY <2>1, <2>2, <2>3
<1>7. CASE EndPosting(r)
  BY <1>1, <1>2, <1>7 DEF EndPosting, callVars, contextVars, mpiVars
<1>8. CASE Send(r)
  BY <1>1, <1>8 DEF Send, Next1, contextVars
<1>9. CASE Pass(r) \/ Leave(r)
  BY <1>1, <1>9 DEF Pass, Leave, Next1, recvVars, contextVars, mpiVars
<1> QED BY <1>3, <1>4, <1>5, <1>6, <1>7, <1>8, <1>9 DEF RankStep

\* Who sends to a rank is known before it reads.
LEMMA PeersStep ==
  ASSUME TInv, PeersInv, Next
  PROVE  PeersInv'
<1>1. PlacesInv
  BY DEF TInv
<1>2. CASE NotifyPeers
  <2>1. /\ UNCHANGED <<job, dests, read>> /\ \A p \in Ranks : stage[p] = "notify" /\ stage'[p] = "init"
        /\ peers' = [q \in Ranks |-> {s \in Ranks : q \in dests[s]}]
    BY <1>2 DEF NotifyPeers, recvVars, contextVars
  <2> QED BY <2>1, SameJob DEF PeersInv
<1>3. CASE MPIStep
  <2>1. UNCHANGED <<job, dests, peers, read, stage>>
    BY <1>3 DEF MPIStep, Copy, Match, callVars, recvVars, contextVars
  <2> QED BY <2>1, SameJob DEF PeersInv
<1>4. ASSUME NEW r \in Ranks, RankStep(r) PROVE PeersInv'
  <2>1. /\ job' = job /\ peers' = peers /\ \A p \in Ranks : p # r => stage'[p] = stage[p] /\ read'[p] = read[p]
        /\ SetupDestSet(r) \/ (dests' = dests /\ stage'[r] \notin {"setup", "notify", "init"})
    BY <1>1, <1>4, Moves, MovesOnly
  <2>2. CASE ~SetupDestSet(r)
    BY <2>1, <2>2, SameJob DEF PeersInv
  <2>3. CASE SetupDestSet(r)
    <3> DEFINE ds == (UNION {WorldDest(r, r, k) : k \in SendCalls(r)}) \ {r}
    <3>1. /\ stage[r] = "setup" /\ UNCHANGED read /\ stage'[r] \in {"exit", "notify"}
          /\ dests' = dests \/ dests' = [dests EXCEPT ![r] = ds]
      BY <1>1, <2>3 DEF SetupDestSet, GoTo, PlacesInv, recvVars, contextVars
    <3>2. \A d \in ds : d # r /\ \E k \in SendCalls(r) : d \in WorldDest(r, r, k)
      OBVIOUS
    <3> HIDE DEF ds
    <3>3. dests[r] = {} /\ \A p \in Ranks : r \notin peers[p]
      BY <3>1 DEF PeersInv
    <3>4. dests'[r] \in {{}, ds} /\ \A s \in Ranks : s # r => dests'[s] = dests[s]
      BY <1>1, <3>1, <3>3 DEF PlacesInv
    <3>5. \A s \in Ranks : \A d \in dests'[s] : d # s /\ \E k \in SendCalls(s) : d \in WorldDest(s, s, k)
      BY <3>2, <3>4 DEF PeersInv
    <3>6. \A p \in Ranks : \A s \in peers'[p] : p \in dests'[s]
      BY <1>1, <2>1, <3>3, <3>4 DEF PeersInv, PlacesInv
    <3>7. \A s \in Ranks : stage'[s] = "setup" => dests'[s] = {}
      BY <2>1, <3>1, <3>4 DEF PeersInv
    <3>8. \A p \in Ranks : stage'[p] \in {"setup", "notify", "init"} => \A s \in Ranks : read'[p][s] = 0
      BY <2>1, <3>1 DEF PeersInv
    <3> QED BY <2>1, <3>5, <3>6, <3>7, <3>8, SameJob DEF PeersInv
  <2> QED BY <2>2, <2>3
<1> QED BY <1>2, <1>3, <1>4 DEF Next

\* When postRecvs finds nothing due, it has posted all receives that are: of each
\* sender the next send is pending, and none of its later sends is earlier in time.
LEMMA CaughtUp ==
  ASSUME TInv, PendInv, PeersInv, NEW r \in Ranks, stage[r] # "exit", ReadEnough(r),
         ~(stage[r] = "posting" /\ why[r] = "handler"), Due(r) = {},
         NEW s \in peers[r], NEW k \in SendsTo(r, s), job.calls[s][k].time <= clock[r]
  PROVE  PostedFor(r, s, k)
<1>1. /\ job \in Jobs /\ pending[r] \subseteq Infos /\ clock[r] \in Nat /\ s \in Ranks
      /\ \A q \in Ranks : read[r][q] \in Nat
  <2>1. clock[r] \in 0..(MaxTime + 1)
    BY DEF TInv, PlacesInv, Infinity
  <2>2. clock[r] \in Nat
    BY <2>1, BoundsAssumption
  <2> QED BY <2>2 DEF TInv, PlacesInv, ContextInv
<1>2. s # r
  BY <1>1 DEF PeersInv
<1>3. k \in Nat /\ k \in DOMAIN job.calls[s] /\ job.calls[s][k].time \in Nat
  <2>1. k \in 1..Len(job.calls[s]) /\ job.calls[s][k] \in TraceCalls /\ DOMAIN job.calls[s] = 1..Len(job.calls[s])
    BY <1>1, CallsTyped DEF SendsTo
  <2> QED BY <2>1 DEF TraceCalls
<1>4. ASSUME NEW i \in pending[r] PROVE i.time > clock[r]
  <2> DEFINE times == {j.time + 1 : j \in pending[r]}
  <2>1. \A j \in pending[r] : j.time \in Int /\ j.time + 1 \in Nat
    <3>1. \A j \in Infos : j.time \in -1..MaxTime
      BY DEF Infos
    <3> QED BY <1>1, <3>1, BoundsAssumption
  <2>2. times \subseteq Nat /\ times # {}
    BY <1>4, <2>1
  <2> HIDE DEF times
  <2>3. PICK t \in times : \A u \in times : t <= u
    BY <2>2, Smallest
  <2>4. PICK m \in pending[r] : t = m.time + 1
    BY <2>3 DEF times
  <2>5. \A j \in pending[r] : j.time + 1 \in times
    BY DEF times
  <2>6. \A j \in pending[r] : m.time <= j.time
    <3> TAKE j \in pending[r]
    <3>1. m.time + 1 <= j.time + 1
      BY <2>3, <2>4, <2>5
    <3> QED BY <2>1, <3>1
  <2>7. m.event # 0
    BY DEF ReadEnough
  <2>8. ~(m.time <= clock[r])
    BY <2>6, <2>7 DEF Due
  <2> QED BY <1>1, <1>4, <2>1, <2>6, <2>8
<1>5. ASSUME NEW i \in pending[r], i.src = s
      PROVE  i.event \in DOMAIN job.calls[s] /\ i.event \in Nat /\ i.event <= read[r][s] /\ i.time = job.calls[s][i.event].time
  <2>1. i.event # 0
    BY DEF ReadEnough
  <2>2. Numbered(r, s, i.event, i.tag) /\ i.event <= read[r][s] /\ i.time = job.calls[s][i.event].time
    BY <1>2, <1>5, <2>1 DEF PendInv, PendingNumbered
  <2>3. i.event \in 1..Len(job.calls[s]) /\ DOMAIN job.calls[s] = 1..Len(job.calls[s])
    BY <1>1, <2>2, CallsTyped DEF Numbered, SendsTo
  <2> QED BY <2>2, <2>3
<1>6. CASE k <= read[r][s]
  <2>1. ASSUME PendingFor(r, s, k) PROVE FALSE
    <3>1. PICK i \in pending[r] : i.src = s /\ i.event = k
      BY <2>1 DEF PendingFor
    <3> QED BY <1>1, <1>3, <1>4, <1>5, <3>1
  <2> QED BY <1>6, <2>1 DEF ReadEnough
<1>7. CASE ~(k <= read[r][s])
  <2>1. PICK i \in pending[r] : i.src = s
    BY <1>7 DEF ReadEnough
  <2>2. i.event <= k
    BY <1>1, <1>3, <1>5, <1>7, <2>1
  <2>3. i.time <= job.calls[s][k].time
    <3>1. \A a, b \in DOMAIN job.calls[s] : a <= b => job.calls[s][a].time <= job.calls[s][b].time
      BY <1>1, JobsAssumption
    <3> QED BY <1>3, <1>5, <2>1, <2>2, <3>1
  <2>4. i.time > clock[r] /\ i.time \in Int
    <3>1. \A j \in Infos : j.time \in -1..MaxTime
      BY DEF Infos
    <3> QED BY <1>1, <1>4, <3>1
  <2> QED BY <1>1, <1>3, <2>3, <2>4
<1> QED BY <1>6, <1>7

\* A context of a peer has a first send to stop at.
LEMMA PeerStops ==
  ASSUME AgreeOnGroups, TInv, PeersInv, NEW r \in Ranks, NEW s \in peers[r], Sane(s), read[r][s] = 0
  PROVE  Stops(r, s) # {}
<1>1. job \in Jobs /\ ContextInv /\ s \in Ranks
  BY DEF TInv, PlacesInv
<1>2. PICK k \in SendCalls(s) : r \in WorldDest(s, s, k)
  BY <1>1 DEF PeersInv
<1>3. WorldDest(s, s, k) = {r}
  BY <1>1, <1>2, Destinations
<1>4. WorldDest(r, s, k) \in {{}, {r}}
  BY <1>1, <1>3, Destinations
<1>5. k > read[r][s]
  BY <1>1, CallsTyped
<1> QED BY <1>1, <1>4, <1>5, StopsAtOne

\* No send to a rank is lost on the way from its sender's trace to MPI.
LEMMA FoundStep ==
  ASSUME AgreeOnGroups, TInv, CInv, PeersInv, FoundInv, Next
  PROVE  FoundInv'
<1>1. PlacesInv /\ ContextInv /\ job \in Jobs /\ SaneInv
  BY DEF TInv, PlacesInv, CInv
<1>2. CASE NotifyPeers
  BY <1>2 DEF NotifyPeers, FoundInv
<1>3. CASE MPIStep
  <2>1. UNCHANGED <<job, stage, why, peers, read, pending, posted>>
    BY <1>3 DEF MPIStep, Copy, Match, callVars, recvVars, contextVars
  <2>2. ASSUME NEW p \in Ranks, stage'[p] \notin {"setup", "notify", "init", "exit"} PROVE ReadEnough(p)'
    <3>1. ReadEnough(p)
      BY <2>1, <2>2 DEF FoundInv
    <3>2. \A i \in pending'[p] : i.event # 0
      BY <2>1, <3>1 DEF ReadEnough
    <3> QED BY <2>1, <3>1, <3>2, FindsSame
  <2> QED BY <2>2 DEF FoundInv
<1>4. ASSUME NEW r \in Ranks, RankStep(r) PROVE FoundInv'
  <2>1. /\ job' = job /\ stage[r] \notin {"exit", "done", "notify"} /\ peers' = peers /\ posted \subseteq posted'
        /\ \A p \in Ranks : p # r => /\ stage'[p] = stage[p] /\ why'[p] = why[p]
                                     /\ read'[p] = read[p] /\ pending'[p] = pending[p]
        /\ SetupDestSet(r) \/ stage[r] # "setup"
    BY <1>1, <1>4, Moves, MovesOnly
  <2>2. \A s : GoTo(r, s) => stage'[r] = s
    BY <1>1 DEF GoTo, PlacesInv
  <2>3. stage[r] \notin {"setup", "init"} => ReadEnough(r)
    BY <2>1 DEF FoundInv
  <2>4. peers[r] \in SUBSET Ranks
    BY <1>1 DEF PlacesInv
  <2>5. stage[r] # "setup" => \A s \in Ranks : Sane(s)
    BY <1>1, <2>1 DEF SaneInv
  <2>6. CASE SetupDestSet(r)
    <3>1. stage'[r] \in {"notify", "exit"}
      BY <2>2, <2>6 DEF SetupDestSet
    <3> QED BY <2>1, <3>1, OthersFind
  <2>7. CASE ReplayInit(r)
    <3> DEFINE none == {i \in pending[r] : FALSE}
    <3>1. stage[r] = "init" /\ Scan(r, peers[r]) /\ \A s \in Ranks : read[r][s] = 0
      BY <2>7 DEF ReplayInit, PeersInv
    <3>2. \A s \in peers[r] : Stops(r, s) # {}
      BY <2>4, <2>5, <3>1, PeerStops
    <3>3. pending'[r] = none \cup UNION {NextSends(r, s) : s \in peers[r]}
      <4>1. pending' = [pending EXCEPT ![r] = UNION {
              IF Stops(r, s) = {} THEN {NoSend(s)} ELSE NextSends(r, s) : s \in peers[r]}]
        BY <2>7 DEF ReplayInit
      <4>2. {IF Stops(r, s) = {} THEN {NoSend(s)} ELSE NextSends(r, s) : s \in peers[r]}
              = {NextSends(r, s) : s \in peers[r]}
        BY <3>2
      <4>3. pending'[r] = UNION {NextSends(r, s) : s \in peers[r]}
        BY <1>1, <4>1, <4>2 DEF ContextInv
      <4> QED BY <4>3
    <3>4. \A s \in peers[r] : \A k \in SendsTo(r, s) : ~(k <= read[r][s])
      <4>1. \A s \in Ranks : \A k \in SendsTo(r, s) : k \in 1..Len(job.calls[s])
        BY <1>1, CallsTyped DEF SendsTo
      <4> QED BY <2>4, <3>1, <4>1
    <3>5. \A s \in peers[r] \ peers[r] : FALSE
      OBVIOUS
    <3>6. \A i \in none : i.event # 0
      OBVIOUS
    <3> HIDE DEF none
    <3>7. ReadEnough(r)'
      BY <1>1, <2>1, <2>4, <2>5, <3>1, <3>3, <3>4, <3>5, <3>6, FindsOn
    <3> QED BY <2>1, <3>7, OthersFind
  <2>8. CASE EndPosting(r) /\ why[r] = "handler"
    <3>1. stage[r] = "posting" /\ Scan(r, peers[r])
          /\ pending'[r] = pending[r] \cup UNION {NextSends(r, s) : s \in peers[r]}
      BY <1>1, <2>8 DEF EndPosting, ContextInv
    <3>2. /\ \A i \in pending[r] : i.event # 0
          /\ \A s \in peers[r] : \A k \in SendsTo(r, s) : k <= read[r][s] =>
               PostedFor(r, s, k)' \/ \E i \in pending[r] : i.src = s /\ i.event = k
      <4>1. ReadEnough(r)
        BY <2>3, <3>1
      <4>2. \A s, k : PostedFor(r, s, k) => PostedFor(r, s, k)'
        BY <2>1 DEF PostedFor
      <4> QED BY <4>1, <4>2 DEF ReadEnough, PendingFor
    <3>3. \A s \in peers[r] \ peers[r] : FALSE
      OBVIOUS
    <3>4. ReadEnough(r)'
      BY <1>1, <2>1, <2>4, <2>5, <3>1, <3>2, <3>3, FindsOn
    <3> QED BY <2>1, <3>4, OthersFind
  <2>9. CASE PostRecv(r) /\ stage'[r] # "exit"
    <3>1. PICK i \in Due(r) :
            /\ posted' = posted \cup
                 {[src |-> Process(r, i.comm, q), dst |-> r, comm |-> Communicator(r, i.comm),
                   tag |-> i.tag, event |-> i.event] : q \in TranslateRank(r, i.src, World, i.comm)}
            /\ TranslateRank(r, i.src, World, i.comm) # {}
            /\ pending' = [pending EXCEPT ![r] = (@ \ {i}) \cup UNION {NextSends(r, s) : s \in Refetched(r, i)}]
            /\ Scan(r, Refetched(r, i))
      BY <2>2, <2>9 DEF PostRecv
    <3> DEFINE again == Refetched(r, i)
               old == pending[r] \ {i}
    <3>2. i \in pending[r] /\ i \in Infos /\ i.event # 0 /\ stage[r] = "posting" /\ UNCHANGED why /\ ReadEnough(r)
      BY <1>1, <2>3, <2>9, <3>1 DEF Due, PostRecv, ContextInv
    <3>3. again \in SUBSET Ranks
      BY <3>2 DEF Refetched, Infos
    <3>4. PostedFor(r, i.src, i.event)'
      <4>1. posted' = posted \cup {Receive(r, i)}
        BY <1>1, <3>1, <3>2, OneReceive
      <4>2. Receive(r, i) \in posted'
        BY <4>1
      <4>3. Receive(r, i).src = i.src /\ Receive(r, i).dst = r /\ Receive(r, i).event = i.event
        BY DEF Receive
      <4> HIDE DEF again, old
      <4> QED BY <4>2, <4>3 DEF PostedFor
    <3>5. pending'[r] = old \cup UNION {NextSends(r, s) : s \in again}
      BY <1>1, <3>1 DEF ContextInv
    <3>6. \A s \in peers[r] : \A k \in SendsTo(r, s) : k <= read[r][s] =>
            PostedFor(r, s, k)' \/ \E j \in old : j.src = s /\ j.event = k
      <4>1. \A s, k : PostedFor(r, s, k) => PostedFor(r, s, k)'
        BY <2>1 DEF PostedFor
      <4>2. ASSUME NEW s \in peers[r], NEW k \in SendsTo(r, s), PendingFor(r, s, k)
            PROVE  PostedFor(r, s, k)' \/ \E j \in old : j.src = s /\ j.event = k
        <5>1. PICK j \in pending[r] : j.src = s /\ j.event = k
          BY <4>2 DEF PendingFor
        <5> QED BY <3>4, <5>1
      <4> QED BY <3>2, <4>1, <4>2 DEF ReadEnough
    <3>7. ~(stage'[r] = "posting" /\ why'[r] = "handler") =>
            \A s \in peers[r] \ again : (\E j \in old : j.src = s) \/ (\A k \in SendsTo(r, s) : k <= read[r][s])
      <4> SUFFICES ASSUME ~(stage'[r] = "posting" /\ why'[r] = "handler"), NEW s \in peers[r] \ again
                   PROVE  (\E j \in old : j.src = s) \/ (\A k \in SendsTo(r, s) : k <= read[r][s])
        OBVIOUS
      <4>1. why[r] # "handler"
        <5>1. stage'[r] = "posting"
          BY <2>2, <2>9 DEF PostRecv
        <5> QED BY <3>2, <5>1
      <4>2. s # i.src
        <5>1. s # r
          BY <2>4 DEF PeersInv
        <5> QED BY <4>1, <5>1 DEF Refetched
      <4>3. (\E j \in pending[r] : j.src = s) \/ (\A k \in SendsTo(r, s) : k <= read[r][s])
        BY <3>2, <4>1 DEF ReadEnough
      <4> QED BY <4>2, <4>3
    <3>8. \A j \in old : j.event # 0
      BY <3>2 DEF ReadEnough
    <3>9. Scan(r, again) /\ \A s \in Ranks : Sane(s)
      BY <2>5, <3>1, <3>2
    <3> HIDE DEF again, old
    <3>10. ReadEnough(r)'
      BY <1>1, <2>1, <2>4, <3>3, <3>5, <3>6, <3>7, <3>8, <3>9, FindsOn
    <3> QED BY <2>1, <3>10, OthersFind
  <2>10. CASE Send(r)
    <3>1. stage[r] = "act" /\ read' = read
      BY <2>10 DEF Send, contextVars
    <3>2. PICK d : pending' = [pending EXCEPT ![r] = @ \cup IF d # r THEN {} ELSE
              {[time |-> 0, src |-> r, tag |-> tag[r], comm |-> Call(r).comm, event |-> at[r]]}]
      BY <2>10 DEF Send
    <3>3. /\ pending[r] \subseteq pending'[r]
          /\ \A i \in pending'[r] : i \in pending[r] \/ i.event = at[r]
      BY <1>1, <3>2 DEF ContextInv
    <3>4. at[r] # 0 /\ ReadEnough(r)
      BY <1>1, <2>3, <3>1 DEF PlacesInv
    <3>5. \A i \in pending'[r] : i.event # 0
      BY <3>3, <3>4 DEF ReadEnough
    <3>6. ReadEnough(r)'
      BY <2>1, <3>1, <3>3, <3>4, <3>5, FindsSame
    <3> QED BY <2>1, <3>6, OthersFind
  <2>11. CASE BeginSend(r) \/ BeginRecv(r) \/ BeginWait(r) \/ BeginOther(r) \/ TestBefore(r) \/ BusyRound(r)
              \/ EndCompute(r) \/ Pass(r) \/ Enter(r) \/ Leave(r) \/ Finalize(r) \/ Drain(r) \/ Destroy(r)
              \/ (EndPosting(r) /\ why[r] # "handler")
    <3>1. UNCHANGED <<read, pending>> /\ stage[r] # "init"
      BY <2>11 DEF BeginSend, BeginRecv, BeginWait, BeginOther, TestBefore, BusyRound, EndCompute, EndPosting,
         Pass, Enter, Leave, Finalize, Drain, Destroy, Replays, recvVars, contextVars
    <3>2. ~(stage[r] = "posting" /\ why[r] = "handler") /\ stage[r] # "setup"
      BY <2>11 DEF BeginSend, BeginRecv, BeginWait, BeginOther, TestBefore, BusyRound, EndCompute, EndPosting,
         Pass, Enter, Leave, Finalize, Drain, Destroy, Replays
    <3>3. ReadEnough(r)
      BY <2>3, <3>1, <3>2
    <3>4. \A i \in pending'[r] : i.event # 0
      BY <3>1, <3>3 DEF ReadEnough
    <3>5. ReadEnough(r)'
      BY <2>1, <3>1, <3>2, <3>3, <3>4, FindsSame
    <3> QED BY <2>1, <3>5, OthersFind
  <2>12. CASE stage'[r] = "exit"
    BY <2>1, <2>12, OthersFind
  <2> QED BY <1>4, <2>6, <2>7, <2>8, <2>9, <2>10, <2>11, <2>12 DEF RankStep
<1> QED BY <1>2, <1>3, <1>4 DEF Next

\* Where DuePosted looks.
Behind(r) == stage[r] \in {"drain", "done"} \/ (stage[r] = "compute" /\ Call(r).op \in RecvOps)

\* The receives that are due are posted where postRecvs ends, and stay posted.
LEMMA DueStep ==
  ASSUME TInv, CInv, DInv, Next
  PROVE  DuePosted'
<1>1. PlacesInv /\ ContextInv /\ job \in Jobs /\ PendInv /\ PeersInv /\ FoundInv
  BY DEF TInv, PlacesInv, CInv, DInv
<1>2. \A r \in Ranks : Behind(r) => \A s \in peers[r] : \A k \in SendsTo(r, s) :
        job.calls[s][k].time <= clock[r] => PostedFor(r, s, k)
  BY DEF DInv, DuePosted, Behind, PostedFor
<1>3. ASSUME job' = job, posted \subseteq posted', peers' = peers, NEW r \in Ranks,
             \A p \in Ranks : p # r => stage'[p] = stage[p] /\ clock'[p] = clock[p] /\ at'[p] = at[p],
             Behind(r)' => \A s \in peers[r] : \A k \in SendsTo(r, s) :
               job.calls[s][k].time <= clock'[r] => PostedFor(r, s, k)'
      PROVE  DuePosted'
  <2>1. \A p, s : SendsTo(p, s)' = SendsTo(p, s)
    BY <1>3, SameJob
  <2>2. \A p, s, k : PostedFor(p, s, k) => PostedFor(p, s, k)'
    BY <1>3 DEF PostedFor
  <2>3. ASSUME NEW p \in Ranks, Behind(p)', NEW s \in peers[p], NEW k \in SendsTo(p, s),
               job.calls[s][k].time <= clock'[p]
        PROVE  PostedFor(p, s, k)'
    <3>1. CASE p = r
      BY <1>3, <2>3, <3>1
    <3>2. CASE p # r
      <4>1. Behind(p)
        BY <1>3, <2>3, <3>2 DEF Behind, Call
      <4>2. PostedFor(p, s, k)
        BY <1>2, <1>3, <2>3, <3>2, <4>1
      <4> QED BY <2>2, <4>2
    <3> QED BY <3>1, <3>2
  <2> QED BY <1>3, <2>1, <2>3 DEF DuePosted, Behind, PostedFor
<1>4. CASE NotifyPeers
  <2>1. \A p \in Ranks : stage'[p] = "init"
    BY <1>4 DEF NotifyPeers
  <2> QED BY <2>1 DEF DuePosted
<1>5. CASE MPIStep
  <2>1. UNCHANGED <<job, stage, clock, at, peers, posted>>
    BY <1>5 DEF MPIStep, Copy, Match, callVars, recvVars
  <2>2. \A p, s : SendsTo(p, s)' = SendsTo(p, s)
    BY <2>1, SameJob
  <2> QED BY <2>1, <2>2 DEF DInv, DuePosted, Call
<1>6. ASSUME NEW r \in Ranks, RankStep(r) PROVE DuePosted'
  <2>1. /\ job' = job /\ stage[r] \notin {"exit", "done", "notify"} /\ peers' = peers /\ posted \subseteq posted'
        /\ \A p \in Ranks : p # r => stage'[p] = stage[p] /\ clock'[p] = clock[p] /\ at'[p] = at[p]
    BY <1>1, <1>6, Moves, MovesOnly
  <2>2. \A s : GoTo(r, s) => stage'[r] = s
    BY <1>1 DEF GoTo, PlacesInv
  <2>3. \A s, k : PostedFor(r, s, k) => PostedFor(r, s, k)'
    BY <2>1 DEF PostedFor
  <2>4. CASE EndPosting(r) /\ why[r] # "handler"
    <3>1. stage[r] = "posting" /\ Due(r) = {} /\ UNCHANGED clock /\ ReadEnough(r)
      BY <1>1, <2>4 DEF EndPosting, FoundInv
    <3>2. ASSUME NEW s \in peers[r], NEW k \in SendsTo(r, s), job.calls[s][k].time <= clock[r]
          PROVE  PostedFor(r, s, k)
      BY <1>1, <2>4, <3>1, <3>2, CaughtUp
    <3>3. \A s \in peers[r] : \A k \in SendsTo(r, s) : job.calls[s][k].time <= clock'[r] => PostedFor(r, s, k)'
      BY <2>3, <3>1, <3>2
    <3> QED BY <1>3, <2>1, <3>3
  <2>5. CASE Drain(r) \/ Destroy(r)
    <3>1. UNCHANGED clock /\ Behind(r)
      BY <2>5 DEF Drain, Destroy, Behind, recvVars
    <3>2. \A s \in peers[r] : \A k \in SendsTo(r, s) : job.calls[s][k].time <= clock'[r] => PostedFor(r, s, k)'
      BY <1>2, <2>3, <3>1
    <3> QED BY <1>3, <2>1, <3>2
  <2>6. CASE ~(EndPosting(r) /\ why[r] # "handler") /\ ~Drain(r) /\ ~Destroy(r)
    <3>1. ~Behind(r)'
      <4>1. CASE BeginSend(r) \/ BeginWait(r) \/ BeginOther(r)
        <5>1. stage'[r] = "compute" /\ Call(r).op \notin RecvOps /\ UNCHANGED <<job, at>>
          BY <2>2, <4>1 DEF BeginSend, BeginWait, BeginOther, Replays, SendOps, RecvOps, callVars
        <5> QED BY <5>1 DEF Behind, Call
      <4>2. CASE BeginRecv(r) \/ BusyRound(r) \/ Finalize(r)
        BY <2>2, <4>2 DEF BeginRecv, BusyRound, Finalize, StartPosting, Behind
      <4>3. CASE SetupDestSet(r) \/ ReplayInit(r) \/ TestBefore(r) \/ EndCompute(r) \/ Enter(r)
        BY <2>2, <4>3 DEF SetupDestSet, ReplayInit, TestBefore, EndCompute, Enter, Behind
      <4>4. CASE PostRecv(r)
        BY <2>2, <4>4 DEF PostRecv, Behind
      <4>5. CASE EndPosting(r) /\ why[r] = "handler"
        BY <2>2, <4>5 DEF EndPosting, Behind
      <4>6. CASE Send(r) \/ Pass(r) \/ Leave(r)
        BY <2>2, <4>6 DEF Send, Pass, Leave, Next1, Behind
      <4> QED BY <1>6, <2>6, <4>1, <4>2, <4>3, <4>4, <4>5, <4>6 DEF RankStep
    <3> QED BY <1>3, <2>1, <3>1
  <2> QED BY <2>4, <2>5, <2>6
<1> QED BY <1>4, <1>5, <1>6 DEF Next

\* The initial states have read nothing, and a stuttering step reads nothing.
LEMMA InitReads == ASSUME Init PROVE DInv
<1>1. PeersInv
  BY DEF Init, PeersInv
<1>2. FoundInv /\ DuePosted
  BY DEF Init, FoundInv, DuePosted
<1> QED BY <1>1, <1>2 DEF DInv

\* Nothing is missed while nothing happens.
LEMMA StillFinds == ASSUME DInv, UNCHANGED vars PROVE DInv'
<1>1. UNCHANGED <<job, stage, why, at, dests, peers, read, clock, pending, posted>>
  BY DEF vars, callVars, recvVars, contextVars, mpiVars
<1>2. PeersInv'
  BY <1>1, SameJob DEF DInv, PeersInv
<1>3. ASSUME NEW p \in Ranks, stage'[p] \notin {"setup", "notify", "init", "exit"} PROVE ReadEnough(p)'
  <2>1. ReadEnough(p)
    BY <1>1, <1>3 DEF DInv, FoundInv
  <2>2. \A i \in pending'[p] : i.event # 0
    BY <1>1, <2>1 DEF ReadEnough
  <2> QED BY <1>1, <2>1, <2>2, FindsSame
<1>4. DuePosted'
  <2>1. \A p, s : SendsTo(p, s)' = SendsTo(p, s)
    BY <1>1, SameJob
  <2> QED BY <1>1, <2>1 DEF DInv, DuePosted, Call
<1> QED BY <1>2, <1>3, <1>4 DEF DInv, FoundInv

\* What a rank has read of its peers is pending or posted, with what is due.
THEOREM ReadingInductive == ASSUME AgreeOnGroups PROVE Spec => [](TInv /\ CInv /\ DInv)
<1>1. TInv /\ CInv /\ DInv /\ [Next]_vars => DInv'
  <2> SUFFICES ASSUME TInv, CInv, DInv, [Next]_vars PROVE DInv'
    OBVIOUS
  <2>1. CASE Next
    <3>1. PeersInv'
      BY <2>1, PeersStep DEF DInv
    <3>2. FoundInv'
      BY <2>1, FoundStep DEF DInv
    <3> QED BY <2>1, <3>1, <3>2, DueStep DEF DInv
  <2> QED BY <2>1, StillFinds
<1>2. Init => DInv
  BY InitReads
<1> QED BY <1>1, <1>2, NumbersInductive, PTL DEF Spec

\* Where postRecvs has caught up with the clock, a receive is posted for every send
\* to this rank whose time has come, and at the end for every send: no sender is
\* forgotten, whichever of the three places posted its receives.
THEOREM DueReceivesPosted == ASSUME AgreeOnGroups PROVE Spec => []DuePosted
<1>1. TInv /\ CInv /\ DInv => DuePosted
  BY DEF DInv
<1> QED BY <1>1, ReadingInductive, PTL
-----------------------------------------------------------------------------
(* No rank gives up. *)

\* Whether the destinations of a trace can be translated does not change.
LEMMA SameTranslatable == ASSUME job' = job PROVE Translatable' = Translatable
<1>1. \A v, s, k : TranslateRank(v, s, World, job.calls[s][k].comm)' = TranslateRank(v, s, World, job.calls[s][k].comm)
  <2> TAKE v, s, k
  <2> DEFINE c == job.calls[s][k].comm
  <2>1. c' = c
    OBVIOUS
  <2> QED BY <2>1 DEF TranslateRank
<1> QED BY <1>1, SameJob DEF Translatable

\* The heap compares infos that all are there.
LEMMA AllThere == ASSUME NEW infos, \A i \in infos : i.event # 0 PROVE Ordered(infos)
BY DEF Ordered

\* A scan fails only at a destination that cannot be translated.
LEMMA ScansSucceed ==
  ASSUME Translatable, job \in Jobs, ContextInv, NEW r \in Ranks, NEW s \in Ranks, SendsTo(r, s) # {}
  PROVE  ~ScanFails(r, s)
<1>1. \A k \in Stops(r, s) : k \in SendCalls(s)
  BY StopsAtOne
<1> QED BY <1>1 DEF ScanFails, Translatable

\* No step ends the program when every destination can be translated.
LEMMA ApplicableStep ==
  ASSUME AgreeOnGroups, TInv, CInv, DInv, Translatable, Applicable, Next
  PROVE  Applicable'
<1>1. PlacesInv /\ ContextInv /\ job \in Jobs /\ PendInv /\ PeersInv /\ FoundInv /\ SaneInv
  BY DEF TInv, PlacesInv, CInv, DInv
<1>2. CASE NotifyPeers
  BY <1>2 DEF NotifyPeers, Applicable
<1>3. CASE MPIStep
  BY <1>3 DEF MPIStep, Copy, Match, Applicable
<1>4. ASSUME NEW r \in Ranks, RankStep(r) PROVE Applicable'
  <2>1. /\ job' = job /\ stage[r] \notin {"exit", "done", "notify"}
        /\ \A p \in Ranks : p # r => stage'[p] = stage[p]
        /\ SetupDestSet(r) \/ stage[r] # "setup"
    BY <1>1, <1>4, Moves
  <2>2. \A s : GoTo(r, s) => stage'[r] = s
    BY <1>1 DEF GoTo, PlacesInv
  <2>3. stage[r] \notin {"setup", "init"} => ReadEnough(r)
    BY <1>1, <2>1 DEF FoundInv
  <2>4. peers[r] \in SUBSET Ranks /\ \A s \in peers[r] : ~ScanFails(r, s)
    <3>1. peers[r] \in SUBSET Ranks
      BY <1>1 DEF PlacesInv
    <3>2. ASSUME NEW s \in peers[r] PROVE SendsTo(r, s) # {}
      <4>1. PICK k \in SendCalls(s) : r \in WorldDest(s, s, k)
        BY <1>1, <3>1 DEF PeersInv
      <4> QED BY <1>1, <3>1, <4>1, Destinations
    <3> QED BY <1>1, <3>1, <3>2, ScansSucceed
  <2>5. stage[r] # "setup" => \A s \in Ranks : Sane(s)
    BY <1>1, <2>1 DEF SaneInv
  <2>6. \A s \in Ranks : \A i \in NextSends(r, s) : i.event # 0
    <3> SUFFICES ASSUME NEW s \in Ranks, NEW k \in Stops(r, s) PROVE k # 0
      BY DEF NextSends
    <3> QED BY <1>1, StopsAtOne
  <2>7. stage'[r] # "exit"
    <3>1. CASE SetupDestSet(r)
      <4>1. \A k \in SendCalls(r) : WorldDest(r, r, k) # {}
        BY DEF Translatable
      <4> QED BY <2>2, <3>1, <4>1 DEF SetupDestSet
    <3>2. CASE ReplayInit(r)
      <4>1. \A s \in peers[r] : Stops(r, s) # {}
        <5>1. \A s \in Ranks : read[r][s] = 0
          BY <1>1, <3>2 DEF ReplayInit, PeersInv
        <5>2. stage[r] # "setup"
          BY <3>2 DEF ReplayInit
        <5> QED BY <1>1, <2>4, <2>5, <5>1, <5>2, PeerStops
      <4> DEFINE infos == UNION {IF Stops(r, s) = {} THEN {NoSend(s)} ELSE NextSends(r, s) : s \in peers[r]}
      <4>2. \A i \in infos : i.event # 0
        BY <2>4, <2>6, <4>1
      <4>3. pending'[r] = infos
        BY <1>1, <3>2 DEF ReplayInit, ContextInv
      <4> HIDE DEF infos
      <4>4. Ordered(pending'[r])
        BY <4>2, <4>3, AllThere
      <4> QED BY <2>2, <2>4, <3>2, <4>4 DEF ReplayInit
    <3>3. CASE PostRecv(r)
      <4>1. PICK i \in Due(r) :
              LET again == Refetched(r, i)
                  src == TranslateRank(r, i.src, World, i.comm)
                  msgs == {[src |-> Process(r, i.comm, q), dst |-> r, comm |-> Communicator(r, i.comm),
                            tag |-> i.tag, event |-> i.event] : q \in src}
              IN  IF src = {}
                  THEN GoTo(r, "exit") /\ UNCHANGED <<contextVars, pending, queueVars, posted>>
                  ELSE /\ posted' = posted \cup msgs
                       /\ \E msg \in msgs : AddRequest(r, [kind |-> "recv", msg |-> msg])
                       /\ pending' = [pending EXCEPT
                            ![r] = (@ \ {i}) \cup UNION {NextSends(r, s) : s \in again}]
                       /\ Scan(r, again)
                       /\ GoTo(r, IF (\E s \in again : ScanFails(r, s)) \/ ~Ordered(pending'[r])
                                  THEN "exit" ELSE "posting")
        BY <3>3 DEF PostRecv
      <4>2. i \in pending[r] /\ i \in Infos /\ i.event # 0 /\ i.src \in Ranks
        BY <1>1 DEF Due, ContextInv, Infos
      <4>3. TranslateRank(r, i.src, World, i.comm) # {}
        <5>1. i.event \in SendsTo(r, i.src) /\ i.comm = job.calls[i.src][i.event].comm
          BY <1>1, <2>1, <4>2 DEF PendInv, PendingNumbered, Numbered
        <5>2. i.event \in SendCalls(i.src) /\ WorldDest(i.src, i.src, i.event) = {r}
          BY <5>1 DEF SendsTo
        <5>3. WorldDest(r, i.src, i.event) # {}
          BY <4>2, <5>1, <5>2 DEF Translatable
        <5>4. WorldDest(r, i.src, i.event) = {r}
          BY <1>1, <4>2, <5>2, <5>3, Destinations
        <5> QED BY <4>2, <5>1, <5>2, <5>4 DEF Translatable
      <4> DEFINE again == Refetched(r, i)
                 infos == (pending[r] \ {i}) \cup UNION {NextSends(r, s) : s \in again}
      <4>4. again \subseteq Ranks /\ ReadEnough(r)
        BY <2>3, <3>3, <4>2 DEF Refetched, PostRecv
      <4>5. \A j \in infos : j.event # 0
        BY <2>6, <4>4 DEF ReadEnough
      <4>6. pending'[r] = infos
        BY <1>1, <4>1, <4>3 DEF ContextInv
      <4>7. GoTo(r, IF (\E s \in again : ScanFails(r, s)) \/ ~Ordered(pending'[r]) THEN "exit" ELSE "posting")
        BY <4>1, <4>3
      <4> HIDE DEF infos, again
      <4>8. Ordered(pending'[r])
        BY <4>5, <4>6, AllThere
      <4>9. ~ \E s \in again : ScanFails(r, s)
        <5>1. i.event \in SendsTo(r, i.src)
          BY <1>1, <2>1, <4>2 DEF PendInv, PendingNumbered, Numbered
        <5>2. ~ScanFails(r, i.src)
          BY <1>1, <4>2, <5>1, ScansSucceed
        <5> QED BY <5>2 DEF again, Refetched
      <4> QED BY <2>2, <4>7, <4>8, <4>9
    <3>4. CASE EndPosting(r) /\ why[r] = "handler"
      <4> DEFINE infos == pending[r] \cup UNION {NextSends(r, s) : s \in peers[r]}
      <4>1. ReadEnough(r)
        BY <2>3, <3>4 DEF EndPosting
      <4>2. \A j \in infos : j.event # 0
        BY <2>4, <2>6, <4>1 DEF ReadEnough
      <4>3. pending'[r] = infos
        BY <1>1, <3>4 DEF EndPosting, ContextInv
      <4> HIDE DEF infos
      <4>4. Ordered(pending'[r])
        BY <4>2, <4>3, AllThere
      <4> QED BY <2>2, <2>4, <3>4, <4>4 DEF EndPosting
    <3>5. CASE EndPosting(r) /\ why[r] # "handler"
      BY <2>2, <3>5 DEF EndPosting
    <3>6. CASE Send(r)
      <4>1. ReadEnough(r) /\ at[r] # 0
        BY <1>1, <2>3, <3>6 DEF Send, PlacesInv
      <4>2. PICK d : pending' = [pending EXCEPT ![r] = @ \cup IF d # r THEN {} ELSE
              {[time |-> 0, src |-> r, tag |-> tag[r], comm |-> Call(r).comm, event |-> at[r]]}]
        BY <3>6 DEF Send
      <4>3. \A i \in pending'[r] : i \in pending[r] \/ i.event = at[r]
        BY <1>1, <4>2 DEF ContextInv
      <4>4. \A i \in pending'[r] : i.event # 0
        BY <4>1, <4>3 DEF ReadEnough
      <4>5. Ordered(pending'[r])
        BY <4>4, AllThere
      <4> QED BY <2>2, <3>6, <4>5 DEF Send, Next1
    <3>7. CASE BeginSend(r) \/ BeginWait(r) \/ BeginOther(r) \/ TestBefore(r) \/ EndCompute(r) \/ Enter(r)
               \/ Pass(r) \/ Leave(r) \/ Destroy(r)
      BY <2>2, <3>7 DEF BeginSend, BeginWait, BeginOther, TestBefore, EndCompute, Enter, Pass, Leave, Destroy, Next1
    <3>8. CASE BeginRecv(r) \/ BusyRound(r) \/ Finalize(r)
      BY <2>2, <3>8 DEF BeginRecv, BusyRound, Finalize, StartPosting
    <3>9. CASE Drain(r)
      BY <3>9 DEF Drain
    <3> QED BY <1>4, <3>1, <3>2, <3>3, <3>4, <3>5, <3>6, <3>7, <3>8, <3>9 DEF RankStep
  <2> QED BY <2>1, <2>7 DEF Applicable
<1> QED BY <1>2, <1>3, <1>4 DEF Next

\* The replay applies to the trace: where the ranks agree on the members of
\* communicators and can translate the destinations in them, no rank gives up
\* because it cannot translate a rank or finds no send of a rank that announced one.
THEOREM ReplayApplies == ASSUME AgreeOnGroups PROVE Spec => [](Translatable => Applicable)
<1>1. ASSUME TInv, CInv, DInv, Translatable => Applicable, [Next]_vars PROVE (Translatable => Applicable)'
  <2>1. CASE Next
    <3>1. job' = job
      <4>1. \A r \in Ranks : RankStep(r) => job' = job
        BY <1>1, Moves DEF TInv
      <4>2. NotifyPeers \/ MPIStep => job' = job
        BY DEF NotifyPeers, MPIStep, Copy, Match, callVars
      <4> QED BY <2>1, <4>1, <4>2 DEF Next
    <3>2. Translatable' = Translatable
      BY <3>1, SameTranslatable
    <3> QED BY <1>1, <2>1, <3>2, ApplicableStep
  <2>2. CASE UNCHANGED vars
    <3>1. UNCHANGED <<job, stage>>
      BY <2>2 DEF vars, callVars
    <3> QED BY <1>1, <3>1, SameTranslatable DEF Applicable
  <2> QED BY <1>1, <2>1, <2>2
<1>2. Init => (Translatable => Applicable)
  BY DEF Init, Applicable
<1> QED BY <1>1, <1>2, ReadingInductive, PTL DEF Spec
=============================================================================
