------------------------ MODULE MessageReplay_proofs ------------------------
(***************************************************************************)
(* Proof that a replay gives every rank that says whom it receives from    *)
(* the messages it received when it was recorded, for every number of      *)
(* ranks, every job and every order in which ranks run and MPI delivers.   *)
(*                                                                         *)
(* Messages of one sender may overtake each other if their tags differ.    *)
(* What is left of the order is in the relation of sends to receives that  *)
(* MPI has built, not in the state of the ranks: MatchInv says of this     *)
(* relation, for the recorded run and for the replay, that neither an       *)
(* earlier message that fits a receive nor an earlier receive that fits a  *)
(* message is left out.  The theorem compares the two relations, receive   *)
(* by receive, and looks at the first one in which they differ.            *)
(***************************************************************************)
EXTENDS MessageReplay, WellFoundedInduction, NaturalsInduction, TLAPS

\* A call of the job, by its rank and its place in the rank's program.
Ids == {x \in [rank : Ranks, n : Nat] : x.n \in DOMAIN job.calls[x.rank]}
Call(x) == job.calls[x.rank][x.n]

\* The tag a call passes to MPI when it is recorded, and when it is replayed.
TagOf(ph, x) == IF ph = "record" THEN Call(x).tag ELSE EncodeTag(Call(x).tag, job.retain)

\* The message of send m fits receive n.
Goes(ph, m, n) ==
  /\ Call(m).op \in SendOps /\ Call(n).op \in RecvOps
  /\ Call(m).peer = n.rank /\ Call(n).peer \in {m.rank, AnySource}
  /\ TagOf(ph, n) \in {TagOf(ph, m), AnyTag}

\* What MPI has matched is a relation of sends to receives they fit,
Paired(ph, M) ==
  /\ M \subseteq Ids \X Ids
  /\ \A p \in M : Goes(ph, p[1], p[2])
  /\ \A p, q \in M : p[1] = q[1] \/ p[2] = q[2] => p = q

\* in which a message that its sender's later one overtook does not fit the
\* receive that one went into,
NotOvertaken(ph, M) ==
  \A p \in M : \A m \in Ids :
    m.rank = p[1].rank /\ m.n < p[1].n /\ Goes(ph, m, p[2]) =>
      \E q \in M : q[1] = m /\ q[2].n < p[2].n

\* and in which a receive that a later one of its rank overtook does not fit
\* the message that one took.
NotPassedOver(ph, M) ==
  \A p \in M : \A n \in Ids :
    n.rank = p[2].rank /\ n.n < p[2].n /\ Goes(ph, p[1], n) =>
      \E q \in M : q[2] = n /\ (Call(n).peer # AnySource => q[1].n < p[1].n)

MatchInv(ph, M) == Paired(ph, M) /\ NotOvertaken(ph, M) /\ NotPassedOver(ph, M)

\* What is posted of a call that its rank has entered.
Begun(x) == x.n < at[x.rank] \/ (x.n = at[x.rank] /\ inside[x.rank])
Post(ph, x) ==
  [rank |-> x.rank, n |-> x.n, op |-> Call(x).op, peer |-> Call(x).peer, tag |-> TagOf(ph, x)]
Messages == {x \in Ids : Call(x).op \in SendOps \cup RecvOps}
PostedInv == posted = {Post(phase, x) : x \in {y \in Messages : Begun(y)}}

\* Where the ranks are, and what their traces hold.
PlacesInv ==
  /\ job \in Jobs /\ phase \in {"record", "replay"}
  /\ at \in [Ranks -> Nat] /\ inside \in [Ranks -> BOOLEAN]
  /\ \A r \in Ranks : 1 <= at[r] /\ at[r] <= Len(job.calls[r]) + 1
                      /\ (inside[r] => at[r] <= Len(job.calls[r]))
Written(r) == IF phase = "record" THEN at[r] - 1 ELSE Len(job.calls[r])
Events == {Event(r, c) : r \in Ranks, c \in Calls}
TraceInv ==
  /\ trace \in [Ranks -> Seq(Events)]
  /\ \A r \in Ranks :
       /\ Len(trace[r]) = Written(r)
       /\ \A n \in 1..Written(r) : trace[r][n] = Event(r, job.calls[r][n])

\* A rank is past a receive, or past the wait for one, when it has its message.
Received(M, x) == \E p \in M : p[2] = x
DoneInv ==
  phase = "record" => \A x \in Ids : x.n < at[x.rank] =>
    /\ Call(x).op = "recv" => Received(matched, x)
    /\ Call(x).op = "wait" => Complete(x.rank, Call(x).req)

\* The replay follows a run that has received all it was to receive.
RecordedInv ==
  phase = "replay" =>
    /\ MatchInv("record", recorded)
    /\ \A x \in Ids : Call(x).op \in RecvOps => Received(recorded, x)

IInv ==
  /\ PlacesInv /\ TraceInv /\ PostedInv
  /\ MatchInv(phase, matched) /\ (\A p \in matched : Begun(p[1]) /\ Begun(p[2]))
  /\ DoneInv /\ RecordedInv
-----------------------------------------------------------------------------
(* Facts about calls and about what MPI has matched. *)

\* Calls are what the job's programs are made of.
LEMMA CallsTyped ==
  ASSUME job \in Jobs
  PROVE  /\ \A r \in Ranks : job.calls[r] \in Seq(Calls) /\ Len(job.calls[r]) \in Nat
         /\ \A r \in Ranks : DOMAIN job.calls[r] = 1..Len(job.calls[r])
         /\ \A r \in Ranks : \A n \in 1..Len(job.calls[r]) : job.calls[r][n] \in Calls
         /\ \A x \in Ids : /\ x.rank \in Ranks /\ x.n \in Nat /\ x.n >= 1
                           /\ x.n <= Len(job.calls[x.rank])
                           /\ Call(x) \in Calls
<1>1. job.calls \in [Ranks -> Seq(Calls)]
  BY JobsAssumption
<1>2. \A r \in Ranks : job.calls[r] \in Seq(Calls)
  BY <1>1
<1>3. \A r \in Ranks : Len(job.calls[r]) \in Nat /\ DOMAIN job.calls[r] = 1..Len(job.calls[r])
  BY <1>2
<1>4. \A r \in Ranks : \A n \in 1..Len(job.calls[r]) : job.calls[r][n] \in Calls
  BY <1>2
<1> QED BY <1>2, <1>3, <1>4 DEF Ids, Call

\* A message that fits a receive fits it when it is replayed: tags are kept,
\* or all are the same.
LEMMA GoesInReplay ==
  ASSUME job \in Jobs, NEW m, NEW n, Goes("record", m, n)
  PROVE  Goes("replay", m, n)
BY JobsAssumption DEF Goes, TagOf, EncodeTag

\* The other way about if tags are retained.
LEMMA GoesAsRecorded ==
  ASSUME job.retain, NEW m, NEW n, Goes("replay", m, n)
  PROVE  Goes("record", m, n)
BY DEF Goes, TagOf, EncodeTag

\* A pair joins the relation: all earlier messages of the sender that fit the
\* receive are in it, and all earlier receives that fit the message.
LEMMA PairJoins ==
  ASSUME NEW ph, NEW M, MatchInv(ph, M), job \in Jobs,
         NEW x \in Ids, NEW y \in Ids, Goes(ph, x, y),
         \A q \in M : q[1] # x /\ q[2] # y,
         \A z \in Ids : z.rank = x.rank /\ z.n < x.n /\ Goes(ph, z, y) => \E q \in M : q[1] = z,
         \A z \in Ids : z.rank = y.rank /\ z.n < y.n /\ Goes(ph, x, z) => \E q \in M : q[2] = z
  PROVE  MatchInv(ph, M \cup {<<x, y>>})
<1> DEFINE N == M \cup {<<x, y>>}
<1>1. Paired(ph, N)
  BY DEF MatchInv, Paired
<1>2. \A p \in M : p[1] \in Ids /\ p[2] \in Ids /\ Goes(ph, p[1], p[2])
  BY DEF MatchInv, Paired
<1>3. \A z \in Ids : z.rank \in Ranks /\ z.n \in Nat /\ z = [rank |-> z.rank, n |-> z.n]
  BY DEF Ids
<1>4. \A z \in Ids : Goes(ph, z, y) => Call(z).peer = y.rank
  BY DEF Goes
<1>5. ASSUME NEW m \in Ids, m.rank = x.rank, m.n < x.n, Goes(ph, m, y)
      PROVE  \E q \in N : q[1] = m /\ q[2].n < y.n
  <2>1. PICK q \in M : q[1] = m
    BY <1>5
  <2>2. q[2].rank = y.rank /\ q[2] # y /\ q[2] \in Ids
    BY <1>2, <1>4, <1>5, <2>1 DEF Goes
  <2>3. q[2].n # y.n
    BY <1>3, <2>2
  <2>4. ~(y.n < q[2].n)
    BY <1>2, <1>5, <2>1, <2>2 DEF MatchInv, NotPassedOver
  <2>5. q[2].n < y.n
    BY <1>3, <2>2, <2>3, <2>4
  <2> QED BY <2>1, <2>5
<1>6. NotOvertaken(ph, N)
  <2> SUFFICES ASSUME NEW p \in N, NEW m \in Ids,
                      m.rank = p[1].rank, m.n < p[1].n, Goes(ph, m, p[2])
               PROVE  \E q \in N : q[1] = m /\ q[2].n < p[2].n
    BY DEF NotOvertaken
  <2>1. CASE p \in M
    BY <2>1 DEF MatchInv, NotOvertaken
  <2>2. CASE p = <<x, y>>
    BY <1>5, <2>2
  <2> QED BY <2>1, <2>2
<1>7. ASSUME NEW n \in Ids, n.rank = y.rank, n.n < y.n, Goes(ph, x, n)
      PROVE  \E q \in N : q[2] = n /\ (Call(n).peer # AnySource => q[1].n < x.n)
  <2>1. PICK q \in M : q[2] = n
    BY <1>7
  <2>2. q[1] # x /\ q[1] \in Ids /\ Goes(ph, q[1], n)
    BY <1>2, <2>1
  <2>3. ASSUME Call(n).peer # AnySource PROVE q[1].n < x.n
    <3>1. q[1].rank = x.rank
      BY <1>7, <2>2, <2>3 DEF Goes
    <3>2. q[1].n # x.n
      BY <1>3, <2>2, <3>1
    <3>3. ~(x.n < q[1].n)
      BY <1>7, <2>1, <3>1 DEF MatchInv, NotOvertaken
    <3> QED BY <1>3, <2>2, <3>2, <3>3
  <2> QED BY <2>1, <2>3
<1>8. NotPassedOver(ph, N)
  <2> SUFFICES ASSUME NEW p \in N, NEW n \in Ids,
                      n.rank = p[2].rank, n.n < p[2].n, Goes(ph, p[1], n)
               PROVE  \E q \in N : q[2] = n /\ (Call(n).peer # AnySource => q[1].n < p[1].n)
    BY DEF NotPassedOver
  <2>1. CASE p \in M
    BY <2>1 DEF MatchInv, NotPassedOver
  <2>2. CASE p = <<x, y>>
    BY <1>7, <2>2
  <2> QED BY <2>1, <2>2
<1> QED BY <1>1, <1>6, <1>8 DEF MatchInv
-----------------------------------------------------------------------------
(* The replay compared with the recorded run. *)

\* What is matched in the record and in the replay agrees on a determined rank:
\* the first receive of the rank in which they differ would be one that took a
\* message sent before or after the recorded one, and neither was free for it.
LEMMA SameAsRecorded ==
  ASSUME job \in Jobs, NEW M, MatchInv("record", recorded), MatchInv("replay", M),
         \A x \in Ids : Call(x).op \in RecvOps => Received(recorded, x),
         NEW p \in M, Determined(p[2].rank)
  PROVE  p \in recorded
<1> DEFINE r == p[2].rank
           Diff == {k \in Nat : \E q \in M : q \notin recorded /\ q[2].rank = r /\ q[2].n = k}
<1>1. SUFFICES ASSUME Diff # {} PROVE FALSE
  <2>1. p[2].n \in Nat
    BY DEF MatchInv, Paired, Ids
  <2> QED BY <2>1
<1>2. PICK k \in Diff : \A j \in Diff : ~(<<j, k>> \in OpToRel(<, Nat))
  <2> HIDE DEF Diff
  <2>1. Diff \subseteq Nat
    BY DEF Diff
  <2> QED BY <1>1, <2>1, NatLessThanWellFounded, WFMin, Zenon
<1>3. PICK q \in M : q \notin recorded /\ q[2].rank = r /\ q[2].n = k
  OBVIOUS
<1>4. \A u \in M : u[2].rank = r /\ u[2].n < k => u \in recorded
  <2> SUFFICES ASSUME NEW u \in M, u[2].rank = r, u[2].n < k, u \notin recorded PROVE FALSE
    OBVIOUS
  <2>1. u[2].n \in Nat /\ k \in Nat
    BY DEF MatchInv, Paired, Ids
  <2>2. u[2].n \in Diff
    BY <2>1
  <2> QED BY <1>2, <2>1, <2>2 DEF OpToRel
<1> DEFINE m == q[1]
           n == q[2]
<1>5. /\ m \in Ids /\ n \in Ids /\ q = <<m, n>> /\ Goes("replay", m, n)
      /\ r \in Ranks /\ n.rank = r /\ n.n = k
  <2>1. m \in Ids /\ n \in Ids /\ q = <<m, n>> /\ Goes("replay", m, n)
    BY DEF MatchInv, Paired
  <2> QED BY <1>3, <2>1 DEF Ids
<1>6. \A x \in Ids : x.rank \in Ranks /\ x.n \in Nat /\ x = [rank |-> x.rank, n |-> x.n]
  BY DEF Ids
<1>7. \A x \in Ids : x.rank = r /\ Call(x).op \in RecvOps => Call(x).peer # AnySource
  BY DEF Determined, Receives, Call, Ids
<1>8. PICK u \in recorded : u[2] = n
  BY <1>5 DEF Goes, Received
<1> DEFINE m1 == u[1]
<1>9. m1 \in Ids /\ u = <<m1, n>> /\ Goes("record", m1, n)
  BY <1>8 DEF MatchInv, Paired
<1>10. Goes("replay", m1, n)
  BY <1>9, GoesInReplay
<1> HIDE DEF Diff, m, n, m1, r
<1>11. m1.rank = m.rank
  BY <1>5, <1>7, <1>10 DEF Goes
<1>12. m1.n # m.n
  BY <1>3, <1>5, <1>6, <1>8, <1>9, <1>11
<1>13. CASE m1.n < m.n
  <2>1. PICK w \in M : w[1] = m1 /\ w[2].n < n.n
    BY <1>5, <1>9, <1>10, <1>11, <1>13 DEF MatchInv, NotOvertaken, m, n
  <2>2. w[2].rank = r
    BY <1>5, <1>10, <2>1 DEF MatchInv, Paired, Goes
  <2>3. w \in recorded
    BY <1>4, <1>5, <2>1, <2>2
  <2>4. w = u
    BY <2>1, <2>3 DEF MatchInv, Paired, m1
  <2>5. n.n \in Nat
    BY <1>5, <1>6
  <2> QED BY <1>8, <2>1, <2>4, <2>5
<1>14. CASE m.n < m1.n
  <2>1. PICK w \in recorded : w[1] = m /\ w[2].n < n.n /\ w[2].rank = r
    <3>1. CASE job.retain
      <4>1. Goes("record", m, n)
        BY <1>5, <3>1, GoesAsRecorded
      <4>2. PICK w \in recorded : w[1] = m /\ w[2].n < n.n
        BY <1>5, <1>8, <1>9, <1>11, <1>14, <4>1 DEF MatchInv, NotOvertaken, m1
      <4>3. w[2].rank = r
        BY <1>5, <4>2 DEF MatchInv, Paired, Goes
      <4> QED BY <4>2, <4>3
    <3>2. CASE ~job.retain
      <4>1. InOrder(r)
        BY <3>2 DEF Determined, r
      <4>2. Call(m).op \in SendOps /\ Call(m).peer = r
        BY <1>5 DEF Goes
      <4>3. PICK w \in recorded : w[1] = [rank |-> m.rank, n |-> m.n]
        BY <1>5, <1>6, <4>1, <4>2 DEF InOrder, Call, Ids
      <4>4. w[1] = m
        BY <1>5, <1>6, <4>3
      <4>5. w[2].rank = r
        BY <4>2, <4>4 DEF MatchInv, Paired, Goes
      <4>6. u[2].rank = r /\ u[1].rank = w[1].rank /\ w[1].n < u[1].n
        BY <1>5, <1>8, <1>11, <1>14, <4>4 DEF m1
      <4>7. w[2].n < u[2].n
        BY <4>1, <4>5, <4>6 DEF InOrder
      <4> QED BY <1>8, <4>4, <4>5, <4>7
    <3> QED BY <3>1, <3>2
  <2> DEFINE n1 == w[2]
  <2>2. n1 \in Ids /\ w = <<m, n1>> /\ Goes("replay", m, n1)
    BY <2>1, GoesInReplay DEF MatchInv, Paired
  <2>3. PICK v \in M : v[2] = n1 /\ (Call(n1).peer # AnySource => v[1].n < m.n)
    BY <1>5, <2>1, <2>2 DEF MatchInv, NotPassedOver, m, n
  <2>4. v[1].n < m.n
    BY <1>7, <2>1, <2>2, <2>3 DEF Goes
  <2>5. v \in recorded
    BY <1>4, <1>5, <2>1, <2>3
  <2>6. v = w
    BY <2>3, <2>5 DEF MatchInv, Paired
  <2>7. m.n \in Nat
    BY <1>5, <1>6
  <2> QED BY <2>1, <2>4, <2>6, <2>7
<1>15. m1.n \in Nat /\ m.n \in Nat
  BY <1>5, <1>6, <1>9
<1> QED BY <1>12, <1>13, <1>14, <1>15
-----------------------------------------------------------------------------
(* Steps. *)

\* The job does not change, and with it the calls and what fits what.
LEMMA SameJob ==
  ASSUME job' = job
  PROVE  /\ Ids' = Ids
         /\ \A x : Call(x)' = Call(x)
         /\ \A ph, x : TagOf(ph, x)' = TagOf(ph, x)
         /\ \A ph, m, n : Goes(ph, m, n)' <=> Goes(ph, m, n)
BY DEF Ids, Call, TagOf, Goes

\* What is known of a relation is known of it after the step.
LEMMA MatchedCarried ==
  ASSUME job' = job, NEW ph, ph = phase', NEW M, M = matched', MatchInv(ph, M)
  PROVE  MatchInv(phase, matched)'
<1>1. Paired(phase, matched)'
  <2>1. M \subseteq Ids' \X Ids'
    BY SameJob DEF MatchInv, Paired
  <2>2. ASSUME NEW p \in M PROVE Goes(phase, p[1], p[2])'
    <3>1. Goes(ph, p[1], p[2])
      BY DEF MatchInv, Paired
    <3> QED BY <3>1 DEF Goes, TagOf, Call
  <2>3. \A p, q \in M : p[1] = q[1] \/ p[2] = q[2] => p = q
    BY DEF MatchInv, Paired
  <2> QED BY <2>1, <2>2, <2>3 DEF Paired
<1>2. NotOvertaken(phase, matched)'
  <2>1. \A p \in M : \A m \in Ids :
          m.rank = p[1].rank /\ m.n < p[1].n /\ Goes(ph, m, p[2]) =>
            \E q \in M : q[1] = m /\ q[2].n < p[2].n
    BY DEF MatchInv, NotOvertaken
  <2> SUFFICES ASSUME NEW p \in matched', NEW m \in Ids',
                      m.rank = p[1].rank, m.n < p[1].n, Goes(phase, m, p[2])'
               PROVE  \E q \in matched' : q[1] = m /\ q[2].n < p[2].n
    BY DEF NotOvertaken
  <2>2. Goes(ph, m, p[2]) /\ m \in Ids
    BY SameJob DEF Goes, TagOf, Call
  <2> QED BY <2>1, <2>2
<1>3. NotPassedOver(phase, matched)'
  <2>1. \A p \in M : \A n \in Ids :
          n.rank = p[2].rank /\ n.n < p[2].n /\ Goes(ph, p[1], n) =>
            \E q \in M : q[2] = n /\ (Call(n).peer # AnySource => q[1].n < p[1].n)
    BY DEF MatchInv, NotPassedOver
  <2> SUFFICES ASSUME NEW p \in matched', NEW n \in Ids',
                      n.rank = p[2].rank, n.n < p[2].n, Goes(phase, p[1], n)'
               PROVE  \E q \in matched' : q[2] = n /\ (Call(n)'.peer # AnySource => q[1].n < p[1].n)
    BY DEF NotPassedOver
  <2>2. Goes(ph, p[1], n) /\ Call(n)' = Call(n) /\ n \in Ids
    BY SameJob DEF Goes, TagOf, Call
  <2> QED BY <2>1, <2>2
<1> QED BY <1>1, <1>2, <1>3 DEF MatchInv

\* The same of the relation of the recorded run.
LEMMA RecordedCarried ==
  ASSUME job' = job, NEW M, M = recorded', MatchInv("record", M)
  PROVE  MatchInv("record", recorded)'
<1>1. Paired("record", recorded)'
  <2>1. M \subseteq Ids' \X Ids'
    BY SameJob DEF MatchInv, Paired
  <2>2. ASSUME NEW p \in M PROVE Goes("record", p[1], p[2])'
    <3>1. Goes("record", p[1], p[2])
      BY DEF MatchInv, Paired
    <3> QED BY <3>1 DEF Goes, TagOf, Call
  <2>3. \A p, q \in M : p[1] = q[1] \/ p[2] = q[2] => p = q
    BY DEF MatchInv, Paired
  <2> QED BY <2>1, <2>2, <2>3 DEF Paired
<1>2. NotOvertaken("record", recorded)'
  <2>1. \A p \in M : \A m \in Ids :
          m.rank = p[1].rank /\ m.n < p[1].n /\ Goes("record", m, p[2]) =>
            \E q \in M : q[1] = m /\ q[2].n < p[2].n
    BY DEF MatchInv, NotOvertaken
  <2> SUFFICES ASSUME NEW p \in recorded', NEW m \in Ids',
                      m.rank = p[1].rank, m.n < p[1].n, Goes("record", m, p[2])'
               PROVE  \E q \in recorded' : q[1] = m /\ q[2].n < p[2].n
    BY DEF NotOvertaken
  <2>2. Goes("record", m, p[2]) /\ m \in Ids
    BY SameJob DEF Goes, TagOf, Call
  <2> QED BY <2>1, <2>2
<1>3. NotPassedOver("record", recorded)'
  <2>1. \A p \in M : \A n \in Ids :
          n.rank = p[2].rank /\ n.n < p[2].n /\ Goes("record", p[1], n) =>
            \E q \in M : q[2] = n /\ (Call(n).peer # AnySource => q[1].n < p[1].n)
    BY DEF MatchInv, NotPassedOver
  <2> SUFFICES ASSUME NEW p \in recorded', NEW n \in Ids',
                      n.rank = p[2].rank, n.n < p[2].n, Goes("record", p[1], n)'
               PROVE  \E q \in recorded' : q[2] = n /\ (Call(n)'.peer # AnySource => q[1].n < p[1].n)
    BY DEF NotPassedOver
  <2>2. Goes("record", p[1], n) /\ Call(n)' = Call(n) /\ n \in Ids
    BY SameJob DEF Goes, TagOf, Call
  <2> QED BY <2>1, <2>2
<1> QED BY <1>1, <1>2, <1>3 DEF MatchInv

\* What the replay knows of the recorded run does not change once it runs.
LEMMA RecordedInvCarried ==
  ASSUME RecordedInv, UNCHANGED <<job, phase, recorded>>
  PROVE  RecordedInv'
<1> SUFFICES ASSUME phase = "replay" PROVE RecordedInv'
  BY DEF RecordedInv
<1>1. MatchInv("record", recorded)'
  BY RecordedCarried DEF RecordedInv
<1>2. \A x \in Ids : Call(x).op \in RecvOps => Received(recorded, x)
  BY DEF RecordedInv
<1>3. (\A x \in Ids : Call(x).op \in RecvOps => Received(recorded, x))'
  BY <1>2 DEF Ids, Call, Received
<1> QED BY <1>1, <1>3 DEF RecordedInv

\* The call a rank is at.
Here(r) == [rank |-> r, n |-> at[r]]
LEMMA HereTyped ==
  ASSUME PlacesInv, NEW r \in Ranks, ~Over(r)
  PROVE  /\ at[r] \in Nat /\ at[r] >= 1 /\ at[r] <= Len(job.calls[r]) /\ at[r] + 1 \in Nat
         /\ Here(r) \in Ids /\ Call(Here(r)) = job.calls[r][at[r]]
<1>1. at[r] \in Nat /\ at[r] >= 1 /\ at[r] <= Len(job.calls[r]) + 1
  BY DEF PlacesInv
<1>2. Len(job.calls[r]) \in Nat /\ DOMAIN job.calls[r] = 1..Len(job.calls[r])
  BY CallsTyped DEF PlacesInv
<1>3. at[r] <= Len(job.calls[r])
  BY <1>1, <1>2 DEF Over
<1> QED BY <1>1, <1>2, <1>3 DEF Here, Ids, Call

\* The call that is made, c, is the one the job has there, with the tag of the phase.
Made(r, c) ==
  LET x == Here(r)
  IN  /\ c.op = Call(x).op /\ c.req = Call(x).req /\ c.tag = TagOf(phase, x)
      /\ c.op \in SendOps \cup RecvOps => c.peer = Call(x).peer

\* A call that enters MPI posts what its phase posts of it.
LEMMA EnterKeeps ==
  ASSUME IInv, NEW r \in Ranks, ~Over(r), NEW c, Made(r, c),
         Enter(r, c), UNCHANGED <<job, phase, trace, recorded>>
  PROVE  IInv'
<1> DEFINE x == Here(r)
<1>1. at[r] \in Nat /\ at[r] >= 1 /\ at[r] <= Len(job.calls[r]) /\ x \in Ids
  BY HereTyped DEF IInv
<1>2. PlacesInv'
  BY <1>1 DEF IInv, PlacesInv, Enter
<1>3. TraceInv'
  <2>1. Events' = Events /\ \A q \in Ranks : Written(q)' = Written(q)
    BY DEF Events, Event, Written, Enter
  <2>2. (trace \in [Ranks -> Seq(Events)])'
    BY <2>1 DEF IInv, TraceInv
  <2>3. ASSUME NEW q \in Ranks
        PROVE  /\ Len(trace'[q]) = Written(q)'
               /\ \A n \in 1..Written(q)' : trace'[q][n] = Event(q, job.calls[q][n])'
    BY <2>1 DEF IInv, TraceInv, Event
  <2> QED BY <2>2, <2>3 DEF TraceInv
<1>4. \A y \in Ids : Begun(y)' <=> Begun(y) \/ y = x
  <2>1. \A y \in Ids : y.rank \in Ranks /\ y.n \in Nat /\ y = [rank |-> y.rank, n |-> y.n]
    BY DEF Ids
  <2>2. inside' = [inside EXCEPT ![r] = TRUE] /\ at' = at /\ inside \in [Ranks -> BOOLEAN] /\ ~inside[r]
    BY DEF Enter, IInv, PlacesInv
  <2> QED BY <1>1, <2>1, <2>2 DEF Begun, Here
<1>5. PostedInv'
  <2>1. Ids' = Ids /\ \A y \in Ids : Post(phase, y)' = Post(phase, y) /\ Call(y)' = Call(y)
    BY DEF Ids, Call, Post, TagOf
  <2>2. Messages' = Messages
    BY <2>1, SameJob DEF Messages
  <2>3. posted' = {Post(phase, y) : y \in {z \in Messages : Begun(z) \/ z = x}}
    <3>1. c.op \in SendOps \cup RecvOps <=> x \in Messages
      BY <1>1 DEF Made, Messages
    <3>2. CASE x \in Messages
      <4>1. [rank |-> r, n |-> at[r], op |-> c.op, peer |-> c.peer, tag |-> c.tag] = Post(phase, x)
        BY <3>1, <3>2 DEF Made, Post, Here
      <4>2. posted' = {Post(phase, y) : y \in {z \in Messages : Begun(z)}} \cup {Post(phase, x)}
        BY <3>1, <3>2, <4>1 DEF Enter, IInv, PostedInv
      <4> QED BY <3>2, <4>2
    <3>3. CASE x \notin Messages
      <4>1. posted' = {Post(phase, y) : y \in {z \in Messages : Begun(z)}}
        BY <3>1, <3>3 DEF Enter, IInv, PostedInv
      <4> QED BY <3>3, <4>1
    <3> QED BY <3>2, <3>3
  <2>4. {z \in Messages : Begun(z) \/ z = x} = {z \in Messages' : Begun(z)'}
    BY <1>4, <2>2 DEF Messages
  <2>5. {Post(phase, y)' : y \in {z \in Messages' : Begun(z)'}} = {Post(phase, y) : y \in {z \in Messages' : Begun(z)'}}
    BY <2>1, <2>2 DEF Messages
  <2> QED BY <2>3, <2>4, <2>5 DEF PostedInv
<1>6. MatchInv(phase, matched)'
  BY MatchedCarried DEF IInv, Enter
<1>7. (\A p \in matched : Begun(p[1]) /\ Begun(p[2]))'
  <2>1. \A p \in matched : p[1] \in Ids /\ p[2] \in Ids /\ Begun(p[1]) /\ Begun(p[2])
    BY DEF IInv, MatchInv, Paired
  <2> QED BY <1>4, <2>1 DEF Enter
<1>8. DoneInv'
  BY DEF IInv, DoneInv, Enter, Ids, Call, Received, Complete
<1>9. RecordedInv'
  BY RecordedInvCarried DEF IInv
<1> QED BY <1>2, <1>3, <1>5, <1>6, <1>7, <1>8, <1>9 DEF IInv

\* MPI matches what is posted and unmatched only if nothing before it fits.
LEMMA MatchKeeps ==
  ASSUME IInv, NEW m \in Unmatched, NEW n \in Unmatched, Match(m, n)
  PROVE  IInv'
<1>1. PICK x \in Messages : Begun(x) /\ m = Post(phase, x)
  BY DEF Unmatched, IInv, PostedInv
<1>2. PICK y \in Messages : Begun(y) /\ n = Post(phase, y)
  BY DEF Unmatched, IInv, PostedInv
<1>3. \A z \in Ids : z.rank \in Ranks /\ z.n \in Nat /\ z = [rank |-> z.rank, n |-> z.n]
  BY DEF Ids
<1>4. x \in Ids /\ y \in Ids
  BY DEF Messages
<1>5. \A z \in Ids : Id(Post(phase, z)) = z
  BY <1>3 DEF Id, Post
<1>6. \A u, v \in Ids : Fits(Post(phase, u), Post(phase, v)) <=> Goes(phase, u, v)
  BY DEF Fits, Post, Goes
<1>7. \A q \in matched : q[1] \in Ids /\ q[2] \in Ids /\ Call(q[1]).op \in SendOps /\ Call(q[2]).op \in RecvOps
  BY DEF IInv, MatchInv, Paired, Goes
<1>8. \A z \in Messages : Begun(z) => (\E q \in matched : z \in {q[1], q[2]}) \/ Post(phase, z) \in Unmatched
  BY <1>5 DEF IInv, PostedInv, Unmatched, Messages
<1>9. \A z \in Messages : /\ Call(z).op \in SendOps => Call(z).op \notin RecvOps
                          /\ z \in Ids
  BY DEF Messages, SendOps, RecvOps
<1>10. ASSUME NEW z \in Ids, NEW w \in Ids, Begun(w), z.rank = w.rank, z.n < w.n PROVE Begun(z)
  BY <1>3, <1>10 DEF Begun, IInv, PlacesInv
<1>11. \A q \in matched : q[1] # x /\ q[2] # y
  BY <1>1, <1>2, <1>4, <1>5 DEF Unmatched
<1>12. ASSUME NEW z \in Ids, z.rank = x.rank, z.n < x.n, Goes(phase, z, y)
       PROVE  \E q \in matched : q[1] = z
  <2>1. z \in Messages /\ Begun(z) /\ Call(z).op \in SendOps
    BY <1>1, <1>4, <1>10, <1>12 DEF Goes, Messages
  <2>2. Post(phase, z) \notin Unmatched
    BY <1>1, <1>2, <1>4, <1>6, <1>12 DEF Match, Post
  <2> QED BY <1>7, <1>8, <1>9, <2>1, <2>2
<1>13. ASSUME NEW z \in Ids, z.rank = y.rank, z.n < y.n, Goes(phase, x, z)
       PROVE  \E q \in matched : q[2] = z
  <2>1. z \in Messages /\ Begun(z) /\ Call(z).op \in RecvOps
    BY <1>2, <1>4, <1>10, <1>13 DEF Goes, Messages
  <2>2. Post(phase, z) \notin Unmatched
    BY <1>1, <1>2, <1>4, <1>6, <1>13 DEF Match, Post
  <2> QED BY <1>7, <1>8, <1>9, <2>1, <2>2
<1>14. Goes(phase, x, y) /\ matched' = matched \cup {<<x, y>>}
  BY <1>1, <1>2, <1>4, <1>5, <1>6 DEF Match
<1>15. UNCHANGED <<job, phase, trace, at, inside, posted, recorded>>
  BY DEF Match
<1>16. MatchInv(phase, matched \cup {<<x, y>>})
  BY <1>4, <1>11, <1>12, <1>13, <1>14, PairJoins DEF IInv, PlacesInv
<1>17. MatchInv(phase, matched)'
  BY <1>14, <1>15, <1>16, MatchedCarried
<1>18. PlacesInv' /\ PostedInv'
  BY <1>15 DEF IInv, PlacesInv, PostedInv, Messages, Ids, Call, Begun, Post, TagOf
<1>19. TraceInv'
  BY <1>15 DEF IInv, TraceInv, Events, Event, Written
<1>20. (\A p \in matched : Begun(p[1]) /\ Begun(p[2]))'
  BY <1>1, <1>2, <1>14, <1>15 DEF IInv, Begun
<1>21. DoneInv'
  BY <1>14, <1>15 DEF IInv, DoneInv, Ids, Call, Received, Complete
<1>22. RecordedInv'
  BY <1>15, RecordedInvCarried DEF IInv
<1> QED BY <1>17, <1>18, <1>19, <1>20, <1>21, <1>22 DEF IInv

\* A rank that leaves a call has what it waited for, and in the recorded run
\* its trace has the call.
LEMMA LeaveKeeps ==
  ASSUME IInv, NEW r \in Ranks, ~Over(r), NEW c, Made(r, c),
         Leave(r, c), UNCHANGED <<job, phase, recorded>>,
         trace' = IF phase = "record"
                  THEN [trace EXCEPT ![r] = Append(@, Event(r, job.calls[r][at[r]]))] ELSE trace
  PROVE  IInv'
<1> DEFINE x == Here(r)
<1>1. /\ at[r] \in Nat /\ at[r] >= 1 /\ at[r] <= Len(job.calls[r]) /\ at[r] + 1 \in Nat
      /\ x \in Ids /\ Call(x) = job.calls[r][at[r]]
  BY HereTyped DEF IInv
<1>2. /\ at' = [at EXCEPT ![r] = @ + 1] /\ inside' = [inside EXCEPT ![r] = FALSE] /\ inside[r]
      /\ UNCHANGED <<posted, matched>>
      /\ at \in [Ranks -> Nat] /\ inside \in [Ranks -> BOOLEAN]
  BY DEF Leave, IInv, PlacesInv
<1>3. \A q \in Ranks : job.calls[q] \in Seq(Calls) /\ Len(job.calls[q]) \in Nat
                       /\ \A n \in 1..Len(job.calls[q]) : job.calls[q][n] \in Calls
  BY CallsTyped DEF IInv, PlacesInv
<1>4. PlacesInv'
  BY <1>1, <1>2, <1>3 DEF IInv, PlacesInv
<1>5. TraceInv'
  <2>1. Events' = Events
    BY DEF Events, Event
  <2>2. \A q \in Ranks : trace[q] \in Seq(Events) /\ Len(trace[q]) = Written(q)
                         /\ \A n \in 1..Written(q) : trace[q][n] = Event(q, job.calls[q][n])
    BY DEF IInv, TraceInv
  <2>3. CASE phase = "record"
    <3> DEFINE e == Event(r, job.calls[r][at[r]])
    <3>1. e \in Events
      BY <1>1, <1>3 DEF Events
    <3>2. trace \in [Ranks -> Seq(Events)] /\ trace' = [trace EXCEPT ![r] = Append(trace[r], e)]
      BY <2>3 DEF IInv, TraceInv
    <3>3. Written(r) = at[r] - 1 /\ Written(r)' = at[r]
      BY <1>1, <1>2, <2>3 DEF Written
    <3> HIDE DEF e
    <3>4. Append(trace[r], e) \in Seq(Events) /\ Len(Append(trace[r], e)) = at[r]
      BY <1>1, <2>2, <3>1, <3>3
    <3>5. \A n \in 1..at[r] : Append(trace[r], e)[n] = IF n = at[r] THEN e ELSE trace[r][n]
      BY <1>1, <2>2, <3>1, <3>3
    <3>6. trace' \in [Ranks -> Seq(Events)]
      BY <3>2, <3>4
    <3>7. ASSUME NEW q \in Ranks
          PROVE  /\ Len(trace'[q]) = Written(q)'
                 /\ \A n \in 1..Written(q)' : trace'[q][n] = Event(q, job.calls[q][n])
      <4>1. CASE q = r
        <5>1. trace'[q] = Append(trace[r], e) /\ Written(q)' = at[r]
          BY <3>2, <3>3, <4>1
        <5>2. \A n \in 1..at[r] : n # at[r] => n \in 1..Written(r)
          BY <1>1, <3>3
        <5> QED BY <2>2, <3>4, <3>5, <4>1, <5>1, <5>2 DEF e
      <4>2. CASE q # r
        <5>1. trace'[q] = trace[q] /\ Written(q)' = Written(q)
          BY <1>2, <2>3, <3>2, <4>2 DEF Written
        <5> QED BY <2>2, <5>1
      <4> QED BY <4>1, <4>2
    <3> QED BY <2>1, <3>6, <3>7 DEF TraceInv, Event
  <2>4. CASE phase # "record"
    <3>1. trace' = trace /\ \A q \in Ranks : Written(q)' = Written(q)
      BY <2>4 DEF Written
    <3> QED BY <2>1, <2>2, <3>1 DEF IInv, TraceInv, Event
  <2> QED BY <2>3, <2>4
<1>6. \A z \in Ids : z.rank \in Ranks /\ z.n \in Nat /\ z = [rank |-> z.rank, n |-> z.n]
  BY DEF Ids
<1>7. \A y \in Ids : Begun(y)' <=> Begun(y)
  BY <1>1, <1>2, <1>6 DEF Begun
<1>8. PostedInv'
  <2>1. Ids' = Ids /\ \A y \in Ids : Post(phase, y)' = Post(phase, y) /\ Call(y)' = Call(y)
    BY DEF Ids, Call, Post, TagOf
  <2>2. Messages' = Messages
    BY <2>1, SameJob DEF Messages
  <2>3. {z \in Messages : Begun(z)} = {z \in Messages' : Begun(z)'}
    BY <1>7, <2>2 DEF Messages
  <2>4. {Post(phase, y)' : y \in {z \in Messages' : Begun(z)'}} = {Post(phase, y) : y \in {z \in Messages' : Begun(z)'}}
    BY <2>1, <2>2 DEF Messages
  <2> QED BY <1>2, <2>3, <2>4 DEF PostedInv, IInv
<1>9. MatchInv(phase, matched)'
  BY <1>2, MatchedCarried DEF IInv
<1>10. (\A p \in matched : Begun(p[1]) /\ Begun(p[2]))'
  <2>1. \A p \in matched : p[1] \in Ids /\ p[2] \in Ids /\ Begun(p[1]) /\ Begun(p[2])
    BY DEF IInv, MatchInv, Paired
  <2> QED BY <1>2, <1>7, <2>1
<1>11. DoneInv'
  <2> SUFFICES ASSUME phase = "record", NEW y \in Ids, y.n < at'[y.rank]
               PROVE  /\ Call(y).op = "recv" => Received(matched, y)
                      /\ Call(y).op = "wait" => Complete(y.rank, Call(y).req)
    BY <1>2 DEF DoneInv, Ids, Call, Received, Complete
  <2>1. CASE y.n < at[y.rank]
    BY <2>1 DEF IInv, DoneInv
  <2>2. CASE ~(y.n < at[y.rank])
    <3>1. y = x
      BY <1>1, <1>2, <1>6, <2>2 DEF Here
    <3>2. ASSUME Call(y).op = "recv" PROVE Received(matched, y)
      <4>1. Complete(r, at[r])
        BY <3>1, <3>2 DEF Leave, Made
      <4>2. PICK p \in matched : x \in {p[1], p[2]}
        BY <1>1, <3>1, <3>2, <4>1 DEF Complete, Here, SendOps
      <4>3. p[1] # x
        BY <3>1, <3>2 DEF IInv, MatchInv, Paired, Goes, SendOps
      <4> QED BY <3>1, <4>2, <4>3 DEF Received
    <3>3. ASSUME Call(y).op = "wait" PROVE Complete(y.rank, Call(y).req)
      BY <3>1, <3>3 DEF Leave, Made, Here
    <3> QED BY <3>2, <3>3
  <2> QED BY <2>1, <2>2
<1>12. RecordedInv'
  BY RecordedInvCarried DEF IInv
<1> QED BY <1>4, <1>5, <1>8, <1>9, <1>10, <1>11, <1>12 DEF IInv

\* When all programs are over all their receives have a message: a blocking one
\* waits for it, and for the others the program does.
LEMMA StartKeeps ==
  ASSUME IInv, StartReplay
  PROVE  IInv'
<1>1. /\ phase = "record" /\ phase' = "replay" /\ recorded' = matched
      /\ posted' = {} /\ matched' = {} /\ UNCHANGED <<job, trace, inside>>
      /\ at' = [r \in Ranks |-> 1]
  BY DEF StartReplay
<1>2. \A r \in Ranks : Len(job.calls[r]) \in Nat /\ DOMAIN job.calls[r] = 1..Len(job.calls[r])
  BY CallsTyped DEF IInv, PlacesInv
<1>3. \A r \in Ranks : at[r] = Len(job.calls[r]) + 1 /\ inside[r] = FALSE /\ at[r] \in Nat
  <2> SUFFICES ASSUME NEW r \in Ranks
               PROVE  at[r] = Len(job.calls[r]) + 1 /\ inside[r] = FALSE /\ at[r] \in Nat
    OBVIOUS
  <2>1. /\ at[r] \in Nat /\ at[r] <= Len(job.calls[r]) + 1 /\ at[r] > Len(job.calls[r])
        /\ inside[r] \in BOOLEAN /\ (inside[r] => at[r] <= Len(job.calls[r]))
    BY DEF StartReplay, AllOver, Over, IInv, PlacesInv
  <2>2. Len(job.calls[r]) \in Nat
    BY <1>2
  <2> QED BY <2>1, <2>2
<1>4. \A x \in Ids : /\ x.rank \in Ranks /\ x.n \in Nat /\ x.n >= 1 /\ x.n <= Len(job.calls[x.rank])
                     /\ x = [rank |-> x.rank, n |-> x.n]
  BY <1>2 DEF Ids
<1>5. PlacesInv'
  <2>1. \A r \in Ranks : at'[r] = 1 /\ 1 <= Len(job.calls[r]) + 1 /\ ~inside'[r]
    BY <1>1, <1>2, <1>3
  <2> QED BY <1>1, <2>1 DEF IInv, PlacesInv
<1>6. TraceInv'
  <2>1. Events' = Events
    BY <1>1 DEF Events, Event
  <2>2. \A r \in Ranks : Written(r)' = Written(r)
    BY <1>1, <1>2, <1>3 DEF Written
  <2> QED BY <1>1, <2>1, <2>2 DEF IInv, TraceInv, Event
<1>7. \A x \in Ids : ~Begun(x)'
  BY <1>1, <1>3, <1>4 DEF Begun
<1>8. PostedInv'
  BY <1>1, <1>7, SameJob DEF PostedInv, Messages
<1>9. MatchInv(phase, matched)'
  BY <1>1 DEF MatchInv, Paired, NotOvertaken, NotPassedOver
<1>10. DoneInv' /\ (\A p \in matched : Begun(p[1]) /\ Begun(p[2]))'
  BY <1>1 DEF DoneInv
<1>11. MatchInv("record", recorded)'
  BY <1>1, RecordedCarried DEF IInv
<1>12. ASSUME NEW x \in Ids, Call(x).op \in RecvOps PROVE Received(matched, x)
  <2>1. \A y \in Ids : y.n < at[y.rank]
    BY <1>3, <1>4
  <2>2. CASE Call(x).op = "recv"
    BY <1>1, <2>1, <2>2 DEF IInv, DoneInv
  <2>3. CASE Call(x).op = "irecv"
    <3>1. PICK k \in DOMAIN job.calls[x.rank] : /\ job.calls[x.rank][k].op = "wait"
                                                /\ job.calls[x.rank][k].req = x.n
      <4>1. job \in Jobs /\ x.rank \in Ranks /\ x.n \in DOMAIN job.calls[x.rank]
        BY <1>4 DEF IInv, PlacesInv, Ids
      <4>2. job.calls[x.rank][x.n].op = "irecv"
        BY <2>3 DEF Call
      <4> QED BY <4>1, <4>2, JobsAssumption
    <3> DEFINE y == [rank |-> x.rank, n |-> k]
    <3>2. y \in Ids /\ Call(y).op = "wait" /\ Call(y).req = x.n /\ y.rank = x.rank
      BY <1>2, <1>4, <3>1 DEF Ids, Call
    <3>3. Complete(x.rank, x.n)
      BY <1>1, <2>1, <3>2 DEF IInv, DoneInv
    <3>4. PICK p \in matched : x \in {p[1], p[2]}
      BY <1>4, <2>3, <3>3 DEF Complete, Call, SendOps
    <3>5. p[1] # x
      BY <2>3 DEF IInv, MatchInv, Paired, Goes, SendOps
    <3> QED BY <3>4, <3>5 DEF Received
  <2> QED BY <1>12, <2>2, <2>3 DEF RecvOps
<1>13. RecordedInv'
  <2>1. (\A x \in Ids : Call(x).op \in RecvOps => Received(recorded, x))'
    BY <1>1, <1>12, SameJob DEF Received
  <2> QED BY <1>11, <2>1 DEF RecordedInv
<1> QED BY <1>5, <1>6, <1>8, <1>9, <1>10, <1>13 DEF IInv

\* The remainder of what is not negative and less than twice the modulus.
LEMMA RemNear ==
  ASSUME NEW a \in Nat, NEW size \in Nat \ {0}
  PROVE  /\ a < size => Rem(a, size) = a
         /\ a >= size /\ a < 2 * size => Rem(a, size) = a - size
BY DEF Rem

\* The peer a trace names is the one that was called.
LEMMA PeerKept ==
  ASSUME NEW r \in Ranks, NEW what \in {"source", "dest"},
         NEW peer, peer \in Ranks \/ (what = "source" /\ peer = AnySource)
  PROVE  Decode(what, Encode(what, peer, r, Size), r, Size) = peer
<1>1. Size \in Nat \ {0} /\ Size < IntMax /\ IntMax \in Int /\ AnySource \in Int /\ AnySource < 0
  BY ConstantsAssumption DEF WildcardsOK
<1>2. CASE peer \notin Ranks
  BY <1>2 DEF Encode, Decode
<1>3. CASE peer \in Ranks
  <2>1. peer \in Nat /\ r \in Nat /\ peer < Size /\ r < Size /\ peer # AnySource
    BY <1>1, <1>3 DEF Ranks
  <2> DEFINE d == Distance(peer, r, Size)
  <2>2. d = IF peer >= r THEN peer - r ELSE peer - r + Size
    BY <1>1, <2>1, RemNear DEF Distance
  <2>3. d \in Nat /\ d < Size
    BY <1>1, <2>1, <2>2
  <2>4. FromDistance(d, r, Size) = peer
    BY <1>1, <2>1, <2>2, <2>3, RemNear DEF FromDistance
  <2>5. Encode(what, peer, r, Size) = d /\ d # IntMax
    BY <1>1, <2>1, <2>3 DEF Encode
  <2> QED BY <2>4, <2>5 DEF Decode, OP_ANY_SOURCE
<1> QED BY <1>2, <1>3

\* The call of the program in the recorded run, and in the replay the call of
\* its event, is the one the job has there.
LEMMA CallMade ==
  ASSUME IInv, NEW r \in Ranks, ~Over(r)
  PROVE  /\ phase = "record" => Made(r, job.calls[r][at[r]])
         /\ phase = "replay" => Made(r, ReplayedCall(r, trace[r][at[r]]))
<1> DEFINE x == Here(r)
           c == Call(x)
<1>1. /\ at[r] \in Nat /\ at[r] >= 1 /\ at[r] <= Len(job.calls[r]) /\ Len(job.calls[r]) \in Nat
      /\ x \in Ids /\ c = job.calls[r][at[r]] /\ x.rank = r /\ x.n = at[r]
  BY HereTyped, CallsTyped DEF IInv, PlacesInv, Here
<1>2. phase = "record" => Made(r, c)
  BY DEF Made, TagOf
<1>3. ASSUME phase = "replay" PROVE Made(r, ReplayedCall(r, trace[r][at[r]]))
  <2>1. trace[r][at[r]] = Event(r, c)
    BY <1>1, <1>3 DEF IInv, TraceInv, Written
  <2>2. c.op \in SendOps => c.peer \in Ranks /\ c.op \notin RecvOps
    BY <1>1, JobsAssumption DEF IInv, PlacesInv, Ids, SendOps, RecvOps
  <2>3. c.op \in RecvOps => c.peer \in Ranks \cup {AnySource}
    BY <1>1, JobsAssumption DEF IInv, PlacesInv, Ids
  <2>4. c.op \in SendOps \cup RecvOps => ReplayedCall(r, Event(r, c)).peer = c.peer
    BY <2>2, <2>3, PeerKept DEF ReplayedCall, Event
  <2> HIDE DEF c, x
  <2>5. LET e == ReplayedCall(r, Event(r, c))
        IN  e.op = c.op /\ e.req = c.req /\ e.tag = EncodeTag(c.tag, job.retain)
    BY DEF ReplayedCall, Event
  <2> QED BY <1>3, <2>1, <2>4, <2>5 DEF Made, TagOf, c, x
<1> QED BY <1>1, <1>2, <1>3

\* No step of a rank or of MPI leaves the invariant.
LEMMA StepKeeps ==
  ASSUME IInv, [Next]_vars
  PROVE  IInv'
<1>1. CASE StartReplay
  BY <1>1, StartKeeps
<1>2. CASE MPIStep
  BY <1>2, MatchKeeps DEF MPIStep
<1>3. ASSUME NEW r \in Ranks, RecordEnter(r) PROVE IInv'
  BY <1>3, EnterKeeps, CallMade DEF RecordEnter
<1>4. ASSUME NEW r \in Ranks, RecordLeave(r) PROVE IInv'
  BY <1>4, LeaveKeeps, CallMade DEF RecordLeave
<1>5. ASSUME NEW r \in Ranks, ReplayEnter(r) PROVE IInv'
  BY <1>5, EnterKeeps, CallMade DEF ReplayEnter
<1>6. ASSUME NEW r \in Ranks, ReplayLeave(r) PROVE IInv'
  BY <1>6, LeaveKeeps, CallMade DEF ReplayLeave
<1>7. CASE UNCHANGED vars
  <2>1. UNCHANGED <<job, phase, trace, at, inside, posted, matched, recorded>>
    BY <1>7 DEF vars
  <2>2. PlacesInv' /\ PostedInv'
    BY <2>1 DEF IInv, PlacesInv, PostedInv, Messages, Ids, Call, Begun, Post, TagOf
  <2>3. TraceInv'
    <3>1. Events' = Events /\ \A q \in Ranks : Written(q)' = Written(q)
      BY <2>1 DEF Events, Event, Written
    <3> QED BY <2>1, <3>1 DEF IInv, TraceInv, Event
  <2>4. DoneInv' /\ (\A p \in matched : Begun(p[1]) /\ Begun(p[2]))'
    BY <2>1 DEF IInv, DoneInv, Ids, Call, Received, Complete, Begun
  <2>5. MatchInv(phase, matched)' /\ RecordedInv'
    BY <2>1, MatchedCarried, RecordedInvCarried DEF IInv
  <2> QED BY <2>2, <2>3, <2>4, <2>5 DEF IInv
<1> QED BY <1>1, <1>2, <1>3, <1>4, <1>5, <1>6, <1>7 DEF Next, RankStep

\* A job starts with nothing called and nothing matched.
LEMMA InitInvariant == Init => IInv
<1> SUFFICES ASSUME Init PROVE IInv
  OBVIOUS
<1>1. /\ job \in Jobs /\ phase = "record" /\ at = [r \in Ranks |-> 1]
      /\ inside = [r \in Ranks |-> FALSE] /\ trace = [r \in Ranks |-> <<>>]
      /\ posted = {} /\ matched = {}
  BY DEF Init
<1>2. \A r \in Ranks : Len(job.calls[r]) \in Nat /\ DOMAIN job.calls[r] = 1..Len(job.calls[r])
  BY <1>1, CallsTyped
<1>3. \A x \in Ids : x.rank \in Ranks /\ x.n \in Nat /\ x.n >= 1
  BY <1>2 DEF Ids
<1>4. PlacesInv
  <2>1. \A r \in Ranks : at[r] = 1 /\ 1 <= Len(job.calls[r]) + 1 /\ ~inside[r]
    BY <1>1, <1>2
  <2> QED BY <1>1, <2>1 DEF PlacesInv
<1>5. TraceInv
  BY <1>1 DEF TraceInv, Written
<1>6. \A x \in Ids : ~Begun(x) /\ ~(x.n < at[x.rank])
  BY <1>1, <1>3 DEF Begun
<1>7. PostedInv /\ DoneInv
  BY <1>1, <1>6 DEF PostedInv, Messages, DoneInv
<1>8. MatchInv(phase, matched) /\ RecordedInv /\ \A p \in matched : Begun(p[1]) /\ Begun(p[2])
  BY <1>1 DEF MatchInv, Paired, NotOvertaken, NotPassedOver, RecordedInv
<1> QED BY <1>4, <1>5, <1>7, <1>8 DEF IInv

\* The inductive invariant of jobs, their recorded runs and their replays.
THEOREM MessagesInductive == Spec => []IInv
BY InitInvariant, StepKeeps, PTL DEF Spec

\* A rank that names its senders, and whose tags are retained or never mattered,
\* receives in a replay what it received when it was recorded, whatever the
\* number of ranks, the job, and the order in which ranks run and messages arrive.
THEOREM SameMessagesReceived == Spec => []SameMessages
<1>1. IInv => SameMessages
  <2> SUFFICES ASSUME IInv, phase = "replay", NEW p \in matched, Determined(p[2].rank)
               PROVE  p \in recorded
    BY DEF SameMessages
  <2>1. MatchInv("replay", matched) /\ MatchInv("record", recorded) /\ job \in Jobs
    BY DEF IInv, RecordedInv, PlacesInv
  <2>2. \A x \in Ids : Call(x).op \in RecvOps => Received(recorded, x)
    BY DEF IInv, RecordedInv
  <2> QED BY <2>1, <2>2, SameAsRecorded
<1> QED BY <1>1, MessagesInductive, PTL
=============================================================================
