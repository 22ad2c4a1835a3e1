------------------------ MODULE RecordReplay_proofs ------------------------
(***************************************************************************)
(* Proofs about RecordReplay: the trace a recording leaves names every     *)
(* request by an offset the replay resolves to the same request, and the   *)
(* replay's buffers are freed once and not before their requests are done; *)
(* and the tracer's ring loses a request, which ends the recorded run when *)
(* it is waited for, only to Size requests posted after it.                *)
(***************************************************************************)
EXTENDS RecordReplay, TLAPS, FiniteSetTheorems

-----------------------------------------------------------------------------
(* The arithmetic of the ring (ReqHandler.C). *)

\* A number below the size is its own remainder.
LEMMA SmallMod ==
  ASSUME NEW x \in Slots PROVE x % Size = x /\ (x + Size) % Size = x
BY SizeAssumption DEF Slots

\* The cursor advances to a slot (REQ_BUFFER_SIZE, modulo).
LEMMA AdvanceType == ASSUME NEW c \in Slots PROVE Advance(c) \in Slots
BY SizeAssumption DEF Slots, Advance

\* The offset computed when a request is waited for leads back to its slot
\* (lookup_offset against lookup_request and reset_offset).
LEMMA OffsetRoundTrip ==
  ASSUME NEW ring, NEW s \in Slots, ring.cur \in Slots
  PROVE  OffsetOf(ring, s) \in Slots /\ SlotOf(ring, OffsetOf(ring, s)) = s
<1> DEFINE c == ring.cur
<1>1. CASE s >= c
  <2>1. s - c \in Slots
    BY <1>1, SizeAssumption DEF Slots
  <2>2. OffsetOf(ring, s) = s - c
    BY <2>1, SmallMod, SizeAssumption DEF OffsetOf, Slots
  <2> QED BY <2>1, <2>2, SmallMod, SizeAssumption DEF SlotOf, Slots
<1>2. CASE s < c
  <2>1. s - c + Size \in Slots
    BY <1>2, SizeAssumption DEF Slots
  <2>2. OffsetOf(ring, s) = s - c + Size
    BY <2>1, SmallMod, SizeAssumption DEF OffsetOf, Slots
  <2> QED BY <2>1, <2>2, SmallMod, SizeAssumption DEF SlotOf, Slots
<1> QED BY <1>1, <1>2, SizeAssumption DEF Slots

\* A request that is in one slot only is found there by both scans.
LEMMA LookupUnique ==
  ASSUME NEW ring, NEW r, r # NullReq, NEW s \in Slots, ring.buf[s] = r,
         ring.cur \in Slots, \A t \in Slots : ring.buf[t] = r => t = s
  PROVE  LookupOffset(ring, r) = OffsetOf(ring, s) /\ LookupOffsetBack(ring, r) = OffsetOf(ring, s)
<1> DEFINE back(t) == (ring.cur - t + Size) % Size
           First(x) == x \in Slots /\ ring.buf[x] = r /\ \A t \in Slots : ring.buf[t] = r => x <= t
           Near(x) == x \in Slots /\ ring.buf[x] = r /\ \A t \in Slots : ring.buf[t] = r => back(x) <= back(t)
<1>1. s <= s /\ back(s) <= back(s)
  BY SizeAssumption DEF Slots
<1>2. First(s) /\ Near(s)
  BY <1>1
<1>3. \A x : First(x) => x = s
  OBVIOUS
<1>4. \A x : Near(x) => x = s
  OBVIOUS
<1> HIDE DEF First, Near
<1>5. (CHOOSE x : First(x)) = s /\ (CHOOSE x : Near(x)) = s
  BY <1>2, <1>3, <1>4
<1> QED BY <1>5 DEF LookupOffset, LookupOffsetBack, First, Near
-----------------------------------------------------------------------------
(* The recording steps. *)

\* The invariant holds before the first call.
LEMMA InitIInv == Init => IInv
<1> SUFFICES ASSUME Init PROVE IInv
  OBVIOUS
<1> USE DEF Init
<1>1. 0 \in Slots
  BY SizeAssumption DEF Slots
<1>2. TypeOK
  BY <1>1, HandlesAssumption DEF TypeOK, Phases, EmptyRing, Events
<1>3. RecordInv
  BY DEF RecordInv, CursorChain, Cursor, EventShape, LiveRequests, RingOfLive, WaitedOnce,
         NoneForgotten, OffsetsNameTheirRequest, EmptyRing
<1>4. PhaseInv
  BY DEF PhaseInv
<1>5. ReplayInv
  BY DEF ReplayInv, Cursor, EmptyRing
<1> QED BY <1>2, <1>3, <1>4, <1>5 DEF IInv

\* While the replay has not begun its state does not depend on the trace.
LEMMA ReplayIdle ==
  ASSUME ReplayInv, CursorChain, CursorChain', pos = 0, UNCHANGED repVars
  PROVE  ReplayInv'
<1>1. Cursor(0)' = 0 /\ Cursor(0) = 0 /\ pos' = 0
  BY DEF CursorChain, repVars
<1>2. rep'.cur = Cursor(pos)' /\ mem'.cur = Cursor(pos)'
  BY <1>1 DEF ReplayInv, repVars
<1>3. inflight' = {} /\ freed' = {} /\ \A s \in Slots : mem'.buf[s] = NullReq
  BY DEF ReplayInv, repVars
<1>4. repLog' = [i \in 1..0 |-> [op |-> trace'[i].op, tgt |-> trace'[i].tgt]]
  BY DEF ReplayInv, repVars
<1> QED BY <1>1, <1>2, <1>3, <1>4 DEF ReplayInv

\* MPI_Isend and MPI_Irecv recorded: add_handle puts the request behind the cursor.
LEMMA RecordPostStep ==
  ASSUME IInv, NEW h \in Handles, RecordPost(h)
  PROVE  IInv'
<1> DEFINE e == Event("post", <<>>, <<>>)
<1> USE DEF IInv
<1>0. PICK n \in Nat : n = Len(trace)
  BY DEF TypeOK
<1>1. /\ n = Len(trace) /\ trace \in Seq(Events) /\ rec.cur \in Slots
      /\ rec.buf \in [Slots -> Handles \cup {NullReq}] /\ live \in [Handles -> Nat]
  BY <1>0 DEF TypeOK
<1>2. /\ e \in Events
      /\ e.op = "post" /\ e.offs = <<>> /\ e.tgt = <<>> /\ e.at = rec.cur
  BY <1>1 DEF Event, Events, Ops
<1> HIDE DEF e
<1>3. /\ trace' = Append(trace, e) /\ trace' \in Seq(Events) /\ Len(trace') = n + 1
      /\ trace'[n+1] = e /\ \A i \in 1..n : trace'[i] = trace[i]
  BY <1>1, <1>2 DEF RecordPost, e
<1>4. /\ rec' = [buf |-> [rec.buf EXCEPT ![rec.cur] = h], cur |-> Advance(rec.cur)]
      /\ h # NullReq
  BY HandlesAssumption DEF RecordPost, AddEntry
<1>5. TypeOK'
  BY <1>1, <1>3, <1>4, AdvanceType DEF TypeOK, RecordPost, repVars
<1>6. CursorChain'
  BY <1>1, <1>2, <1>3, <1>4 DEF RecordInv, CursorChain, Cursor, IsPost
<1>7. EventShape'
  BY <1>1, <1>2, <1>3 DEF RecordInv, EventShape
<1>8. \A j : Waited(j, n+1)' <=> Waited(j, n)
  BY <1>1, <1>2, <1>3 DEF Waited
<1>9. LiveRequests'
  <2>1. \A j \in 1..n : IsPost(j)' <=> IsPost(j)
    BY <1>3 DEF IsPost
  <2>2. IsPost(n+1)'
    BY <1>2, <1>3 DEF IsPost
  <2>3. ~ Waited(n+1, n)
    BY <1>1 DEF RecordInv, OffsetsNameTheirRequest, NamesRequest, Waited
  <2> QED BY <1>1, <1>3, <1>8, <2>1, <2>2, <2>3 DEF RecordInv, LiveRequests, RecordPost
<1>10. RingOfLive'
  <2> SUFFICES ASSUME NEW s \in Slots, rec'.buf[s] # NullReq
               PROVE  LET j == live'[rec'.buf[s]] IN
                        /\ j # 0 /\ trace'[j].at = s
                        /\ \A m \in j+1 .. n+1 : trace'[m].op = "post" => trace'[m].at # s
    BY <1>3 DEF RingOfLive, IsPost
  <2>1. CASE s = rec.cur
    BY <2>1, <1>1, <1>2, <1>3, <1>4 DEF RecordPost
  <2>2. CASE s # rec.cur
    <3>1. rec'.buf[s] = rec.buf[s] /\ rec.buf[s] \in Handles
      BY <2>2, <1>1, <1>4
    <3>2. live[rec.buf[s]] # 0 /\ live[rec.buf[s]] \in 1..n
      BY <3>1, <1>1 DEF RecordInv, RingOfLive, LiveRequests
    <3>3. rec.buf[s] # h
      BY <3>2 DEF RecordPost
    <3> QED BY <2>2, <3>1, <3>2, <3>3, <1>1, <1>2, <1>3 DEF RecordInv, RingOfLive, RecordPost, IsPost
  <2> QED BY <2>1, <2>2
<1>11. WaitedOnce'
  BY <1>1, <1>2, <1>3 DEF RecordInv, WaitedOnce
<1>12. NoneForgotten'
  <2> SUFFICES ASSUME NEW j \in 1..(n+1), IsPost(j)'
               PROVE  Waited(j, n+1)' \/ \E g \in Handles : live'[g] = j
    BY <1>3 DEF NoneForgotten
  <2>1. CASE j = n+1
    BY <2>1, <1>1 DEF RecordPost
  <2>2. CASE j # n+1
    <3>1. j \in 1..n /\ IsPost(j)
      BY <2>2, <1>1, <1>3 DEF IsPost
    <3> QED BY <3>1, <1>1, <1>8 DEF RecordInv, NoneForgotten, RecordPost
  <2> QED BY <2>1, <2>2
<1>13. OffsetsNameTheirRequest'
  <2> SUFFICES ASSUME NEW i \in 1..(n+1), NEW k \in DOMAIN trace'[i].tgt,
                      NEW j, j = trace'[i].tgt[k]
               PROVE  NamesRequest(i, k, j)'
    BY <1>3, <1>1 DEF OffsetsNameTheirRequest, NamesRequest, IsPost
  <2>1. i \in 1..n /\ trace'[i] = trace[i] /\ trace[i] \in Events
    BY <1>1, <1>2, <1>3
  <2>2. j = trace[i].tgt[k] /\ j \in Nat
    BY <2>1 DEF Events
  <2>3. NamesRequest(i, k, j)
    BY <2>1, <2>2, <1>1 DEF RecordInv, OffsetsNameTheirRequest
  <2> QED BY <2>1, <2>2, <2>3, <1>1, <1>3 DEF NamesRequest, IsPost
<1>14. PhaseInv' /\ pos = 0
  BY <1>5 DEF PhaseInv, RecordPost, repVars, TypeOK
<1>15. ReplayInv'
  BY <1>6, <1>14, ReplayIdle DEF RecordPost, RecordInv
<1> QED BY <1>5, <1>6, <1>7, <1>9, <1>10, <1>11, <1>12, <1>13, <1>14, <1>15 DEF RecordInv

\* Where the offset of an outstanding request leads, by either of the two scans.
LEMMA LookupsResolve ==
  ASSUME TypeOK, RecordInv, NEW h \in Handles, Holds(rec, h)
  PROVE  LET s == trace[live[h]].at IN
           /\ live[h] # 0 /\ s \in Slots /\ rec.buf[s] = h
           /\ LookupOffset(rec, h) = OffsetOf(rec, s)
           /\ LookupOffsetBack(rec, h) = OffsetOf(rec, s)
<1>1. PICK s \in Slots : rec.buf[s] = h
  BY DEF Holds
<1>2. h # NullReq /\ rec.cur \in Slots
  BY HandlesAssumption DEF TypeOK
<1>3. \A t \in Slots : rec.buf[t] = h => t = trace[live[h]].at /\ live[h] # 0
  BY <1>2 DEF RecordInv, RingOfLive
<1>4. \A t \in Slots : rec.buf[t] = h => t = s
  BY <1>1, <1>3
<1>5. LookupOffset(rec, h) = OffsetOf(rec, s) /\ LookupOffsetBack(rec, h) = OffsetOf(rec, s)
  BY <1>1, <1>2, <1>4, LookupUnique
<1> QED BY <1>1, <1>3, <1>5

\* What the offsets of a wait on arr must be for the trace to name its requests.
Resolved(arr, offs) ==
  \A i \in DOMAIN arr :
    IF arr[i] = NullReq THEN offs[i] = NoOffset
    ELSE LET s == trace[live[arr[i]]].at IN
           s \in Slots /\ rec.buf[s] = arr[i] /\ offs[i] = OffsetOf(rec, s)

\* A wait recorded: each offset found names the request waited for.
LEMMA RecordCompletionStep ==
  ASSUME IInv, NEW op \in {"wait", "waitall"}, NEW N \in Nat,
         NEW arr \in [1..N -> Handles \cup {NullReq}], op = "wait" => N = 1,
         NEW offs \in [1..N -> Slots \cup {NoOffset}],
         Waitable(arr), Resolved(arr, offs), RecordEffect(op, arr, offs),
         phase = "record", UNCHANGED <<phase, repVars>>
  PROVE  IInv'
<1> DEFINE e == Event(op, offs, Targets(arr))
<1> USE DEF IInv
<1>0. PICK n \in Nat : n = Len(trace)
  BY DEF TypeOK
<1>1. /\ n = Len(trace) /\ trace \in Seq(Events) /\ rec.cur \in Slots
      /\ rec.buf \in [Slots -> Handles \cup {NullReq}] /\ live \in [Handles -> Nat]
      /\ rec = [buf |-> rec.buf, cur |-> rec.cur] /\ Slots \subseteq Nat
  <2>1. TypeOK
    OBVIOUS
  <2> HIDE DEF IInv
  <2>2. /\ trace \in Seq(Events) /\ live \in [Handles -> Nat]
        /\ rec \in [buf : [Slots -> Handles \cup {NullReq}], cur : Slots]
    BY <2>1 DEF TypeOK
  <2>3. Slots \subseteq Nat
    BY SizeAssumption DEF Slots
  <2> QED BY <1>0, <2>2, <2>3
<1>2. /\ rec' = ResetOffsets(rec, {offs[i] : i \in 1..N})
      /\ live' = [h \in Handles |-> IF \E i \in 1..N : arr[i] = h THEN 0 ELSE live[h]]
      /\ DOMAIN arr = 1..N /\ \A i \in 1..N : arr[i] \in Handles \cup {NullReq}
  BY DEF RecordEffect
<1>3. offs \in Seq(Slots \cup {NoOffset}) /\ Len(offs) = N
  OBVIOUS
<1>4. /\ Targets(arr) \in Seq(Nat) /\ Len(Targets(arr)) = N /\ DOMAIN Targets(arr) = 1..N
      /\ \A i \in 1..N : Targets(arr)[i] = IF arr[i] = NullReq THEN 0 ELSE live[arr[i]]
  <2>1. Targets(arr) = [i \in 1..N |-> IF arr[i] = NullReq THEN 0 ELSE live[arr[i]]]
    BY <1>2 DEF Targets
  <2>2. \A i \in 1..N : (IF arr[i] = NullReq THEN 0 ELSE live[arr[i]]) \in Nat
    BY <1>1, <1>2
  <2> QED BY <2>1, <2>2
<1>5. /\ e \in Events
      /\ e.op = op /\ e.offs = offs /\ e.tgt = Targets(arr) /\ e.at = rec.cur
  BY <1>1, <1>3, <1>4 DEF Event, Events, Ops
<1> HIDE DEF e
<1>6. /\ trace' = Append(trace, e) /\ trace' \in Seq(Events) /\ Len(trace') = n + 1
      /\ trace'[n+1] = e /\ \A i \in 1..n : trace'[i] = trace[i]
  BY <1>1, <1>5 DEF e, RecordEffect
<1> DEFINE Among(r) == \E i \in 1..N : arr[i] = r /\ r # NullReq
<1>7. \A s \in Slots : rec'.buf[s] = IF Among(rec.buf[s]) THEN NullReq ELSE rec.buf[s]
  <2> SUFFICES ASSUME NEW s \in Slots
               PROVE  (\E o \in {offs[i] : i \in 1..N} : o >= 0 /\ SlotOf(rec, o) = s)
                        <=> Among(rec.buf[s])
    BY <1>1, <1>2 DEF ResetOffsets
  <2>1. ASSUME NEW i \in 1..N, offs[i] >= 0, SlotOf(rec, offs[i]) = s
        PROVE  Among(rec.buf[s])
    <3>1. arr[i] # NullReq
      BY <2>1 DEF Resolved, NoOffset
    <3>2. rec.buf[trace[live[arr[i]]].at] = arr[i] /\ trace[live[arr[i]]].at \in Slots
          /\ offs[i] = OffsetOf(rec, trace[live[arr[i]]].at)
      BY <3>1, <1>2 DEF Resolved
    <3>3. s = trace[live[arr[i]]].at
      BY <3>2, <2>1, <1>1, OffsetRoundTrip
    <3> QED BY <3>1, <3>2, <3>3
  <2>2. ASSUME NEW i \in 1..N, arr[i] = rec.buf[s], arr[i] # NullReq
        PROVE  offs[i] >= 0 /\ SlotOf(rec, offs[i]) = s
    <3>1. s = trace[live[arr[i]]].at
      BY <2>2 DEF RecordInv, RingOfLive
    <3>2. offs[i] = OffsetOf(rec, s)
      BY <2>2, <3>1, <1>2 DEF Resolved
    <3>3. offs[i] \in Slots /\ SlotOf(rec, offs[i]) = s
      BY <3>2, <1>1, OffsetRoundTrip
    <3>4. offs[i] \in Nat
      BY <3>3, <1>1
    <3> QED BY <3>3, <3>4
  <2> QED BY <2>1, <2>2
<1>8. /\ rec'.cur = rec.cur
      /\ rec' \in [buf : [Slots -> Handles \cup {NullReq}], cur : Slots]
  <2>1. \A s \in Slots : rec'.buf[s] \in Handles \cup {NullReq}
    BY <1>1, <1>7
  <2> HIDE DEF IInv
  <2>2. rec' = [buf |-> [s \in Slots |-> rec'.buf[s]], cur |-> rec.cur]
    BY <1>2 DEF ResetOffsets
  <2>3. [s \in Slots |-> rec'.buf[s]] \in [Slots -> Handles \cup {NullReq}]
    BY <2>1
  <2> QED BY <1>1, <2>2, <2>3
<1>9. TypeOK'
  <2>1. live' \in [Handles -> Nat]
    BY <1>1, <1>2
  <2> QED BY <2>1, <1>1, <1>6, <1>8, SMTT(30) DEF TypeOK, repVars
<1>10. CursorChain'
  BY <1>1, <1>5, <1>6, <1>8 DEF RecordInv, CursorChain, Cursor, IsPost
<1>11. EventShape'
  <2> SUFFICES ASSUME NEW i \in 1..n+1
               PROVE  /\ trace'[i].op = "post" => trace'[i].tgt = <<>>
                      /\ trace'[i].op = "wait" => Len(trace'[i].tgt) = 1
                      /\ Len(trace'[i].offs) = Len(trace'[i].tgt)
    BY <1>6 DEF EventShape
  <2>1. CASE i \in 1..n
    BY <2>1, <1>1, <1>6 DEF RecordInv, EventShape
  <2>2. CASE i = n+1
    BY <2>2, <1>3, <1>4, <1>5, <1>6
  <2> QED BY <2>1, <2>2
<1>12. ASSUME NEW j PROVE Waited(j, n+1)' <=> Waited(j, n) \/ \E i \in 1..N : Targets(arr)[i] = j
  <2>1. \A i \in 1..n : trace'[i].tgt = trace[i].tgt
    BY <1>6
  <2>2. trace'[n+1].tgt = Targets(arr) /\ DOMAIN Targets(arr) = 1..N
    BY <1>4, <1>5, <1>6
  <2>3. Waited(j, n+1)' <=> \E i \in 1..n+1 : \E k \in DOMAIN trace'[i].tgt : trace'[i].tgt[k] = j
    BY DEF Waited
  <2> HIDE DEF e
  <2> QED BY <2>1, <2>2, <2>3 DEF Waited
<1>13. \A i \in 1..n+1 : IsPost(i)' <=> i \in 1..n /\ IsPost(i)
  BY <1>1, <1>5, <1>6 DEF IsPost
<1>14. ASSUME NEW h \in Handles, live'[h] # 0
       PROVE  live'[h] = live[h] /\ \A i \in 1..N : arr[i] # h
  BY <1>2, <1>14
<1>15. ASSUME NEW h \in Handles, live[h] # 0
       PROVE  /\ live[h] \in 1..n /\ IsPost(live[h]) /\ ~ Waited(live[h], n)
              /\ \A g \in Handles : live[g] = live[h] => g = h
  <2>1. LiveRequests
    BY DEF RecordInv
  <2> HIDE DEF IInv
  <2> QED BY <2>1, <1>15, <1>1 DEF LiveRequests
<1>16. LiveRequests'
  <2> SUFFICES ASSUME NEW h \in Handles, NEW j, j = live'[h], j # 0
               PROVE  /\ j \in 1..n+1 /\ trace'[j].op = "post"
                      /\ ~ \E i \in 1..n+1 : \E k \in DOMAIN trace'[i].tgt : trace'[i].tgt[k] = j
                      /\ \A g \in Handles : live'[g] = j => g = h
    BY <1>6 DEF LiveRequests, IsPost, Waited
  <2>1. /\ j = live[h] /\ \A i \in 1..N : arr[i] # h
        /\ j \in 1..n /\ IsPost(j) /\ ~ Waited(j, n)
        /\ \A g \in Handles : live[g] = j => g = h
    BY <1>14, <1>15
  <2>2. \A i \in 1..N : Targets(arr)[i] # j
    BY <2>1, <1>2, <1>4
  <2>3. ~ Waited(j, n+1)'
    BY <2>1, <2>2, <1>12
  <2>4. \A g \in Handles : live'[g] = j => g = h
    BY <2>1, <1>14
  <2>5. trace'[j].op = "post"
    BY <2>1, <1>6 DEF IsPost
  <2> QED BY <2>1, <2>3, <2>4, <2>5 DEF Waited
<1>17. RingOfLive'
  <2> SUFFICES ASSUME NEW s \in Slots, rec'.buf[s] # NullReq
               PROVE  LET j == live'[rec'.buf[s]] IN
                        /\ j # 0 /\ trace'[j].at = s
                        /\ \A m \in j+1 .. n+1 : trace'[m].op = "post" => trace'[m].at # s
    BY <1>6 DEF RingOfLive, IsPost
  <2>1. rec'.buf[s] = rec.buf[s] /\ rec.buf[s] \in Handles /\ ~ Among(rec.buf[s])
    BY <1>1, <1>7
  <2>2. live[rec.buf[s]] # 0 /\ live'[rec.buf[s]] = live[rec.buf[s]]
    BY <2>1, <1>1, <1>2, HandlesAssumption DEF RecordInv, RingOfLive
  <2>3. live[rec.buf[s]] \in 1..n
    BY <2>1, <2>2, <1>15
  <2> QED BY <2>1, <2>2, <2>3, <1>1, <1>5, <1>6 DEF RecordInv, RingOfLive, IsPost
<1>18. WaitedOnce'
  <2> SUFFICES ASSUME NEW i \in 1..n+1, NEW m \in 1..n+1,
                      NEW k \in DOMAIN trace'[i].tgt, NEW l \in DOMAIN trace'[m].tgt,
                      trace'[i].tgt[k] = trace'[m].tgt[l], trace'[i].tgt[k] # 0
               PROVE  i = m /\ k = l
    BY <1>6 DEF WaitedOnce
  <2>1. CASE i \in 1..n /\ m \in 1..n
    BY <2>1, <1>1, <1>6 DEF RecordInv, WaitedOnce
  <2>2. ASSUME NEW a \in 1..n, NEW b \in DOMAIN trace[a].tgt, NEW c \in 1..N,
               trace[a].tgt[b] = Targets(arr)[c], Targets(arr)[c] # 0
        PROVE  FALSE
    BY <2>2, <1>1, <1>4, <1>15 DEF Waited
  <2>3. CASE i \in 1..n /\ m = n+1
    BY <2>2, <2>3, <1>4, <1>5, <1>6
  <2>4. CASE i = n+1 /\ m \in 1..n
    BY <2>2, <2>4, <1>4, <1>5, <1>6
  <2>5. CASE i = n+1 /\ m = n+1
    <3>1. k \in 1..N /\ l \in 1..N /\ live[arr[k]] = live[arr[l]] /\ live[arr[k]] # 0
          /\ arr[k] \in Handles /\ arr[l] \in Handles /\ arr[k] # NullReq
      BY <2>5, <1>4, <1>5, <1>6
    <3>2. arr[k] = arr[l]
      BY <3>1, <1>15
    <3> QED BY <3>1, <3>2, <2>5 DEF Waitable
  <2> QED BY <2>1, <2>3, <2>4, <2>5
<1>19. NoneForgotten'
  <2> SUFFICES ASSUME NEW j \in 1..n+1, IsPost(j)'
               PROVE  Waited(j, n+1)' \/ \E h \in Handles : live'[h] = j
    BY <1>6 DEF NoneForgotten, Waited
  <2>1. j \in 1..n /\ IsPost(j)
    BY <1>13
  <2>2. Waited(j, n) \/ \E h \in Handles : live[h] = j
    BY <2>1, <1>1 DEF RecordInv, NoneForgotten
  <2>3. CASE Waited(j, n)
    BY <2>3, <1>12
  <2>4. ASSUME NEW h \in Handles, live[h] = j
        PROVE  Waited(j, n+1)' \/ \E g \in Handles : live'[g] = j
    <3>1. CASE \E i \in 1..N : arr[i] = h
      <4>1. PICK i \in 1..N : arr[i] = h
        BY <3>1
      <4>2. Targets(arr)[i] = j
        BY <4>1, <2>4, <1>4, HandlesAssumption
      <4> QED BY <4>2, <1>12
    <3>2. CASE \A i \in 1..N : arr[i] # h
      BY <3>2, <2>4, <1>2
    <3> QED BY <3>1, <3>2
  <2> QED BY <2>2, <2>3, <2>4
<1>20. OffsetsNameTheirRequest'
  <2> SUFFICES ASSUME NEW i \in 1..(n+1), NEW k \in DOMAIN trace'[i].tgt,
                      NEW j, j = trace'[i].tgt[k]
               PROVE  NamesRequest(i, k, j)'
    BY <1>6 DEF OffsetsNameTheirRequest, NamesRequest, IsPost
  <2>1. CASE i \in 1..n
    <3>1. trace'[i] = trace[i] /\ trace[i] \in Events
      BY <2>1, <1>1, <1>6
    <3>2. trace[i].tgt \in Seq(Nat)
      BY <3>1 DEF Events
    <3>3. j = trace[i].tgt[k] /\ j \in Nat
      <4> HIDE DEF IInv
      <4>1. k \in DOMAIN trace[i].tgt /\ j = trace[i].tgt[k]
        BY <3>1
      <4> QED BY <3>2, <4>1, SMTT(30)
    <3>4. NamesRequest(i, k, j)
      <4>1. OffsetsNameTheirRequest
        BY DEF RecordInv
      <4> HIDE DEF IInv
      <4>2. i \in 1..Len(trace) /\ k \in DOMAIN trace[i].tgt
        BY <2>1, <3>1, <1>1
      <4> QED BY <4>1, <4>2, <3>3 DEF OffsetsNameTheirRequest
    <3> QED BY <2>1, <3>1, <3>3, <3>4, <1>1, <1>6 DEF NamesRequest, IsPost
  <2>2. CASE i = n+1 /\ arr[k] = NullReq
    <3>1. j = 0 /\ offs[k] = NoOffset
      BY <2>2, <1>4, <1>5, <1>6 DEF Resolved
    <3> QED BY <3>1, <2>2, <1>5, <1>6 DEF NamesRequest
  <2>3. CASE i = n+1 /\ arr[k] # NullReq
    <3>1. k \in 1..N /\ arr[k] \in Handles /\ j = live[arr[k]] /\ live[arr[k]] # 0
      BY <2>3, <1>4, <1>5, <1>6 DEF Waitable
    <3>2. j \in 1..n /\ IsPost(j)
      BY <3>1, <1>15
    <3> DEFINE s == trace[j].at
    <3>3. s \in Slots /\ rec.buf[s] = arr[k] /\ offs[k] = OffsetOf(rec, s)
      BY <3>1, <2>3 DEF Resolved
    <3>4. offs[k] # NoOffset /\ (rec.cur + offs[k]) % Size = s
      BY <3>3, <1>1, OffsetRoundTrip DEF SlotOf, NoOffset
    <3>5. \A m \in j+1 .. n : IsPost(m) => trace[m].at # s
      BY <3>1, <3>3, <1>1, <2>3 DEF RecordInv, RingOfLive
    <3> QED BY <2>3, <3>2, <3>4, <3>5, <1>1, <1>5, <1>6 DEF NamesRequest, IsPost
  <2> QED BY <2>1, <2>2, <2>3, <1>1
<1>21. PhaseInv' /\ pos = 0
  BY DEF PhaseInv, repVars, TypeOK
<1>22. ReplayInv'
  BY <1>10, <1>21, ReplayIdle DEF RecordInv
<1> QED
  BY <1>9, <1>10, <1>11, <1>16, <1>17, <1>18, <1>19, <1>20, <1>21, <1>22 DEF RecordInv

\* A step that leaves the tracer's variables alone keeps what is known of them.
LEMMA RecordIdle == ASSUME RecordInv, UNCHANGED recVars PROVE RecordInv'
<1>1. rec' = rec /\ live' = live /\ trace' = trace
  BY DEF recVars
<1>2. CursorChain' /\ EventShape'
  BY <1>1 DEF RecordInv, CursorChain, EventShape, Cursor, IsPost
<1>3. LiveRequests' /\ NoneForgotten'
  BY <1>1 DEF RecordInv, LiveRequests, NoneForgotten, Waited, IsPost
<1>4. RingOfLive' /\ WaitedOnce'
  BY <1>1 DEF RecordInv, RingOfLive, WaitedOnce, IsPost
<1>5. OffsetsNameTheirRequest'
  BY <1>1 DEF RecordInv, OffsetsNameTheirRequest, NamesRequest, IsPost
<1> QED BY <1>2, <1>3, <1>4, <1>5 DEF RecordInv

\* Neither the exit of a wrapper nor MPI_Finalize touches anything but the phase.
LEMMA PhaseStep ==
  ASSUME IInv, phase = "record", phase' \in Phases \ {"done"},
         phase' = "replay" => \A h \in Handles : live[h] = 0,
         UNCHANGED <<recVars, repVars>>
  PROVE  IInv'
<1> USE DEF IInv
<1>1. TypeOK'
  BY DEF TypeOK, recVars, repVars
<1>2. RecordInv'
  BY RecordIdle
<1>3. PhaseInv' /\ pos = 0
  BY DEF PhaseInv, recVars, repVars, Phases
<1>4. ReplayInv'
  BY <1>2, <1>3, ReplayIdle DEF RecordInv
<1> QED BY <1>1, <1>2, <1>3, <1>4

\* A wait recorded keeps the invariant.
LEMMA RecordCompletionInv ==
  ASSUME IInv, NEW op \in {"wait", "waitall"}, NEW N \in Nat,
         NEW arr \in [1..N -> Handles \cup {NullReq}], op = "wait" => N = 1,
         NEW offs, DOMAIN offs = 1..N, offs = [i \in 1..N |-> offs[i]],
         \A i \in 1..N : \/ offs[i] = LookupOffset(rec, arr[i])
                         \/ offs[i] = LookupOffsetBack(rec, arr[i]),
         RecordCompletion(op, arr, offs)
  PROVE  IInv'
<1>1. CASE \E i \in DOMAIN arr : arr[i] # NullReq /\ ~ Holds(rec, arr[i])
  BY <1>1, PhaseStep DEF RecordCompletion, Phases
<1>2. CASE \A i \in DOMAIN arr : arr[i] # NullReq => Holds(rec, arr[i])
  <2>1. TypeOK /\ RecordInv /\ DOMAIN arr = 1..N /\ rec.cur \in Slots
    BY DEF IInv, TypeOK
  <2>2. ASSUME NEW i \in 1..N, arr[i] = NullReq PROVE offs[i] = NoOffset
    BY <2>2 DEF LookupOffset, LookupOffsetBack
  <2>3. ASSUME NEW i \in 1..N, arr[i] # NullReq
        PROVE  LET s == trace[live[arr[i]]].at IN
                 s \in Slots /\ rec.buf[s] = arr[i] /\ offs[i] = OffsetOf(rec, s)
    <3>1. arr[i] \in Handles /\ Holds(rec, arr[i])
      BY <2>1, <2>3, <1>2
    <3> QED BY <3>1, <2>1, LookupsResolve
  <2>4. Resolved(arr, offs)
    BY <2>1, <2>2, <2>3 DEF Resolved
  <2>5. \A i \in 1..N : offs[i] \in Slots \cup {NoOffset}
    BY <2>1, <2>2, <2>3, OffsetRoundTrip
  <2>6. offs \in [1..N -> Slots \cup {NoOffset}]
    BY <2>5
  <2>7. /\ Waitable(arr) /\ RecordEffect(op, arr, offs) /\ phase = "record"
        /\ UNCHANGED <<phase, repVars>>
    BY <1>2 DEF RecordCompletion
  <2> QED BY <2>4, <2>6, <2>7, RecordCompletionStep
<1> QED BY <1>1, <1>2

\* Every recorded call keeps the invariant.
LEMMA RecordStep == ASSUME IInv, Record PROVE IInv'
<1>1. ASSUME NEW h \in Handles, RecordPost(h) PROVE IInv'
  BY <1>1, RecordPostStep
<1>2. ASSUME NEW h \in Handles \cup {NullReq}, RecordWait(h) PROVE IInv'
  <2> DEFINE arr == <<h>>
             offs == <<LookupOffset(rec, h)>>
  <2>1. /\ arr \in [1..1 -> Handles \cup {NullReq}] /\ DOMAIN offs = 1..1
        /\ offs = [i \in 1..1 |-> offs[i]] /\ offs[1] = LookupOffset(rec, arr[1])
    OBVIOUS
  <2>2. RecordCompletion("wait", arr, offs)
    BY <1>2 DEF RecordWait
  <2>3. \A i \in 1..1 : offs[i] = LookupOffset(rec, arr[i])
    BY <2>1
  <2> HIDE DEF arr, offs
  <2> QED BY <2>1, <2>2, <2>3, RecordCompletionInv
<1>3. ASSUME NEW arr \in Arrays, RecordWaitall(arr) PROVE IInv'
  <2>1. PICK N \in 1..MaxList : arr \in [1..N -> Handles \cup {NullReq}]
    BY <1>3 DEF Arrays
  <2> DEFINE offs == [i \in DOMAIN arr |-> LookupOffsetBack(rec, arr[i])]
  <2>2. /\ DOMAIN offs = 1..N /\ offs = [i \in 1..N |-> offs[i]]
        /\ \A i \in 1..N : offs[i] = LookupOffsetBack(rec, arr[i])
    BY <2>1
  <2>3. RecordCompletion("waitall", arr, offs)
    BY <1>3 DEF RecordWaitall
  <2>4. N \in Nat
    BY BoundsAssumption
  <2> HIDE DEF offs
  <2> QED BY <2>1, <2>2, <2>3, <2>4, RecordCompletionInv
<1>4. ASSUME RecordFinalize PROVE IInv'
  BY <1>4, PhaseStep DEF RecordFinalize, Phases
<1> QED BY <1>1, <1>2, <1>3, <1>4 DEF Record

-----------------------------------------------------------------------------
(* The replaying steps. *)

\* What a state of the replay before event p = pos + 1 offers its steps.
LEMMA Replaying1 ==
  ASSUME IInv, phase = "replay", pos < Len(trace)
  PROVE  /\ pos \in Nat /\ pos + 1 \in 1..Len(trace) /\ Len(trace) \in Nat
         /\ trace \in Seq(Events) /\ Current \in Events
         /\ \A i \in 1..Len(trace) : trace[i] \in Events /\ trace[i].at \in Slots
         /\ rep.cur = Current.at /\ mem.cur = Current.at /\ Current.at \in Slots
         /\ Cursor(pos + 1) = IF IsPost(pos + 1) THEN Advance(Current.at) ELSE Current.at
         /\ \A j \in 1..Len(trace) : IsPost(j) => Waited(j, Len(trace))
<1> USE DEF IInv
<1>0. PICK n \in Nat : n = Len(trace)
  BY DEF TypeOK
<1>1. /\ pos \in Nat /\ pos + 1 \in 1..n /\ trace \in Seq(Events)
      /\ \A i \in 1..n : trace[i] \in Events
  BY <1>0 DEF TypeOK
<1>2. \A i \in 1..n : trace[i].at \in Slots
  BY <1>1 DEF Events
<1>3. /\ Cursor(pos) = Current.at
      /\ Cursor(pos + 1) = IF IsPost(pos + 1) THEN Advance(Current.at) ELSE Current.at
  BY <1>0, <1>1 DEF Cursor, Current, RecordInv, CursorChain
<1>4. \A j \in 1..n : IsPost(j) => Waited(j, n)
  <2> SUFFICES ASSUME NEW j \in 1..n, IsPost(j) PROVE Waited(j, n)
    OBVIOUS
  <2>1. Waited(j, n) \/ \E h \in Handles : live[h] = j
    BY <1>0 DEF RecordInv, NoneForgotten
  <2>2. \A h \in Handles : live[h] = 0
    BY DEF PhaseInv
  <2> QED BY <2>1, <2>2
<1> QED BY <1>0, <1>1, <1>2, <1>3, <1>4 DEF Current, ReplayInv

\* The slot of a request that is still to be waited for is not taken over.
LEMMA SlotKept ==
  ASSUME IInv, phase = "replay", pos < Len(trace), NEW j \in inflight,
         NEW m \in j+1 .. pos+1, IsPost(m)
  PROVE  trace[m].at # trace[j].at
<1> USE DEF IInv
<1>0. PICK n \in Nat : n = Len(trace)
  BY Replaying1
<1>1. j \in 1..pos /\ IsPost(j) /\ ~ Waited(j, pos) /\ pos \in Nat /\ pos + 1 \in 1..n
  BY <1>0, Replaying1 DEF ReplayInv
<1>2. PICK i \in 1..n : \E k \in DOMAIN trace[i].tgt : trace[i].tgt[k] = j
  BY <1>0, <1>1, Replaying1 DEF Waited
<1>3. PICK k \in DOMAIN trace[i].tgt : trace[i].tgt[k] = j
  BY <1>2
<1>4. i \in pos+1 .. n
  BY <1>1, <1>2 DEF Waited
<1>5. NamesRequest(i, k, j)
  BY <1>0, <1>3 DEF RecordInv, OffsetsNameTheirRequest
<1>6. \A l \in j+1 .. i-1 : IsPost(l) => trace[l].at # trace[j].at
  BY <1>1, <1>5 DEF NamesRequest
<1>7. ~ IsPost(i)
  BY <1>0, <1>3 DEF RecordInv, EventShape, IsPost
<1>8. m # i
  BY <1>7
<1>9. m \in j+1 .. i-1
  BY <1>1, <1>4, <1>8
<1> QED BY <1>6, <1>9

\* A nonblocking call replayed: both rings take it at the same slot, over nothing in flight.
LEMMA ReplayPostStep == ASSUME IInv, ReplayPost PROVE IInv'
<1> USE DEF IInv
<1>0. PICK n \in Nat : n = Len(trace)
  BY DEF TypeOK
<1>01. PICK p \in Nat : p = pos + 1
  BY DEF TypeOK
<1>1. /\ phase = "replay" /\ pos < n /\ IsPost(p) /\ pos' = p
      /\ phase' = phase /\ rec' = rec /\ live' = live /\ trace' = trace
  BY <1>0, <1>01 DEF ReplayPost, Replaying, Current, IsPost, recVars
<1>2. PICK a \in Slots : a = trace[p].at /\ a = rep.cur /\ a = mem.cur
  BY <1>0, <1>01, <1>1, Replaying1 DEF Current
<1>3. /\ pos \in Nat /\ p = pos + 1 /\ p \in 1..n /\ p # NullReq
      /\ \A i \in 1..n : trace[i].at \in Slots
      /\ Cursor(p) = Advance(a) /\ Advance(a) \in Slots
  BY <1>0, <1>01, <1>1, <1>2, Replaying1, HandlesAssumption, AdvanceType DEF Current
<1>02. ASSUME NEW j \in inflight PROVE trace[j].at # a
  <2>1. p \in j+1 .. pos+1
    BY <1>3 DEF ReplayInv
  <2> QED BY <2>1, <1>0, <1>1, <1>2, SlotKept
<1>4. mem.buf[a] = NullReq
  BY <1>2, <1>02 DEF ReplayInv
<1>5. /\ rep.buf \in [Slots -> Nat \cup {NullReq}] /\ mem.buf \in [Slots -> Nat \cup {NullReq}]
      /\ inflight \subseteq Nat /\ freed \subseteq Nat
      /\ repLog \in Seq([op : Ops, tgt : Seq(Nat)])
  BY DEF TypeOK
<1>6. /\ freed' = freed /\ inflight' = inflight \cup {p}
      /\ rep' = [buf |-> [rep.buf EXCEPT ![a] = p], cur |-> Advance(a)]
      /\ mem' = [buf |-> [mem.buf EXCEPT ![a] = p], cur |-> Advance(a)]
      /\ repLog' = Append(repLog, [op |-> "post", tgt |-> <<>>])
  BY <1>01, <1>2, <1>3, <1>4 DEF ReplayPost, FreedByAdd, AddMem, AddEntry
<1>7. TypeOK'
  <2>1. [op |-> "post", tgt |-> <<>>] \in [op : Ops, tgt : Seq(Nat)]
    BY DEF Ops
  <2>2. repLog' \in Seq([op : Ops, tgt : Seq(Nat)])
    BY <1>5, <1>6, <2>1
  <2> QED BY <1>0, <1>1, <1>3, <1>5, <1>6, <2>2 DEF TypeOK
<1>8. RecordInv'
  BY <1>1, RecordIdle DEF recVars
<1>9. PhaseInv'
  BY <1>1 DEF PhaseInv
<1>10. ReplayInv'
  <2>1. Cursor(p)' = Advance(a)
    BY <1>0, <1>1, <1>3 DEF Cursor
  <2>2. trace[p].tgt = <<>> /\ trace[p].op = "post"
    BY <1>0, <1>1, <1>3 DEF RecordInv, EventShape, IsPost
  <2>3. \A j : Waited(j, p) <=> Waited(j, pos)
    BY <2>2, <1>3 DEF Waited
  <2>4. ~ Waited(p, pos)
    BY <1>0, <1>3 DEF RecordInv, OffsetsNameTheirRequest, NamesRequest, Waited
  <2>5. inflight' = {j \in 1..p : IsPost(j) /\ ~ Waited(j, p)}
    BY <2>3, <2>4, <1>1, <1>3, <1>6 DEF ReplayInv
  <2>6. freed' = {j \in 1..p : IsPost(j) /\ Waited(j, p)}
    BY <2>3, <2>4, <1>1, <1>3, <1>6 DEF ReplayInv
  <2>7. \A s \in Slots : mem'.buf[s] # NullReq =>
          mem'.buf[s] \in inflight' /\ trace[mem'.buf[s]].at = s
    BY <1>2, <1>5, <1>6 DEF ReplayInv
  <2>8. ASSUME NEW j \in inflight'
        PROVE  mem'.buf[trace[j].at] = j /\ rep'.buf[trace[j].at] = j
    <3>1. CASE j = p
      BY <3>1, <1>2, <1>5, <1>6
    <3>2. CASE j # p
      <4>1. j \in inflight /\ j \in 1..pos
        BY <3>2, <1>6 DEF ReplayInv
      <4>2. trace[j].at # a
        BY <4>1, <1>02
      <4>3. trace[j].at \in Slots
        BY <4>1, <1>0, <1>3, <1>1
      <4> QED BY <4>1, <4>2, <4>3, <1>5, <1>6 DEF ReplayInv
    <3> QED BY <3>1, <3>2
  <2>9. repLog' = [i \in 1..p |-> [op |-> trace[i].op, tgt |-> trace[i].tgt]]
    <3>1. repLog = [i \in 1..pos |-> [op |-> trace[i].op, tgt |-> trace[i].tgt]]
      BY DEF ReplayInv
    <3> QED BY <3>1, <2>2, <1>3, <1>6
  <2>10. trace' = trace /\ pos' = p /\ rep'.cur = Advance(a) /\ mem'.cur = Advance(a)
    BY <1>1, <1>6
  <2>11. rep'.cur = Cursor(pos)' /\ mem'.cur = Cursor(pos)'
    BY <2>1, <2>10 DEF Cursor
  <2>12. ASSUME NEW j PROVE (IsPost(j)' <=> IsPost(j)) /\ (Waited(j, pos)' <=> Waited(j, p))
    BY <2>10 DEF IsPost, Waited
  <2>13. /\ inflight' = {j \in 1..pos' : IsPost(j)' /\ ~ Waited(j, pos)'}
         /\ freed' = {j \in 1..pos' : IsPost(j)' /\ Waited(j, pos)'}
    BY <2>5, <2>6, <2>10, <2>12
  <2> QED BY <2>7, <2>8, <2>9, <2>10, <2>11, <2>13 DEF ReplayInv
<1> QED BY <1>7, <1>8, <1>9, <1>10

\* Where the offsets of the current event lead in the replayer's two rings.
LEMMA ReplayResolves ==
  ASSUME IInv, phase = "replay", pos < Len(trace), NEW k \in DOMAIN Current.tgt
  PROVE  IF Current.tgt[k] = 0 THEN Current.offs[k] = NoOffset
         ELSE LET j == Current.tgt[k]
                  s == trace[j].at
              IN  /\ j \in inflight /\ s \in Slots
                  /\ Current.offs[k] # NoOffset
                  /\ SlotOf(rep, Current.offs[k]) = s /\ SlotOf(mem, Current.offs[k]) = s
                  /\ rep.buf[s] = j /\ mem.buf[s] = j
<1> USE DEF IInv
<1>0. PICK n \in Nat : n = Len(trace)
  BY Replaying1
<1>1. PICK p \in 1..n : p = pos + 1
  BY <1>0, Replaying1
<1>2. Current = trace[p] /\ NamesRequest(p, k, Current.tgt[k])
  BY <1>0, <1>1 DEF Current, RecordInv, OffsetsNameTheirRequest
<1>3. CASE Current.tgt[k] = 0
  BY <1>2, <1>3 DEF NamesRequest
<1>4. CASE Current.tgt[k] # 0
  <2>1. PICK j : j = Current.tgt[k]
    OBVIOUS
  <2>2. Current.tgt \in Seq(Nat) /\ k \in DOMAIN Current.tgt
    BY Replaying1 DEF Events
  <2>3. j \in Nat /\ j # 0
    BY <2>1, <2>2, <1>4
  <2>4. /\ j < p /\ IsPost(j) /\ Current.offs[k] # NoOffset
        /\ (Current.at + Current.offs[k]) % Size = trace[j].at
    BY <1>2, <2>1, <2>3 DEF NamesRequest
  <2>5. j \in 1..pos /\ pos \in Nat
    BY <2>3, <2>4, <1>1, Replaying1
  <2>6. ~ Waited(j, pos)
    <3> SUFFICES ASSUME NEW i \in 1..pos, NEW l \in DOMAIN trace[i].tgt, trace[i].tgt[l] = j
                 PROVE  FALSE
      BY DEF Waited
    <3>1. i \in 1..n /\ i # p
      BY <1>0, <1>1, <2>5
    <3> QED BY <3>1, <1>0, <1>1, <1>2, <2>1, <2>3 DEF RecordInv, WaitedOnce
  <2>7. j \in inflight
    BY <2>4, <2>5, <2>6 DEF ReplayInv
  <2>8. j \in 1..n
    BY <2>5, <1>0, <1>1
  <2>9. trace[j].at \in Slots /\ rep.cur = Current.at /\ mem.cur = Current.at
    BY <2>8, <1>0, Replaying1
  <2>10. rep.buf[trace[j].at] = j /\ mem.buf[trace[j].at] = j
    BY <2>7 DEF ReplayInv
  <2> QED BY <2>1, <2>4, <2>7, <2>9, <2>10, <1>4 DEF SlotOf
<1> QED BY <1>3, <1>4

\* The requests an event of the trace names are those its call completes.
CurrentTargets == {Current.tgt[k] : k \in DOMAIN Current.tgt} \ {0}

\* What each element of the event's arrays names (ReplayResolves, element by element).
LEMMA ReplayTargets ==
  ASSUME IInv, phase = "replay", pos < Len(trace), NEW N \in Nat, DOMAIN Current.tgt = 1..N
  PROVE  /\ CurrentTargets \subseteq inflight
         /\ \A k \in 1..N : Current.tgt[k] # 0 =>
              /\ SlotOf(mem, Current.offs[k]) = trace[Current.tgt[k]].at
              /\ mem.buf[SlotOf(mem, Current.offs[k])] = Current.tgt[k]
              /\ Current.offs[k] # NoOffset
         /\ \A k \in 1..N : Current.tgt[k] = 0 <=> Current.offs[k] = NoOffset
<1>1. ASSUME NEW k \in 1..N
      PROVE  IF Current.tgt[k] = 0 THEN Current.offs[k] = NoOffset
             ELSE /\ Current.tgt[k] \in inflight
                  /\ SlotOf(mem, Current.offs[k]) = trace[Current.tgt[k]].at
                  /\ mem.buf[trace[Current.tgt[k]].at] = Current.tgt[k]
                  /\ Current.offs[k] # NoOffset
  <2>1. k \in DOMAIN Current.tgt
    OBVIOUS
  <2> QED BY <2>1, ReplayResolves
<1>2. \A k \in 1..N : Current.tgt[k] # 0 =>
              /\ SlotOf(mem, Current.offs[k]) = trace[Current.tgt[k]].at
              /\ mem.buf[SlotOf(mem, Current.offs[k])] = Current.tgt[k]
              /\ Current.offs[k] # NoOffset
  BY <1>1
<1>3. \A k \in 1..N : Current.tgt[k] = 0 <=> Current.offs[k] = NoOffset
  BY <1>1
<1>4. \A k \in 1..N : Current.tgt[k] # 0 => Current.tgt[k] \in inflight
  BY <1>1
<1>5. CurrentTargets \subseteq inflight
  BY <1>4 DEF CurrentTargets
<1> QED BY <1>2, <1>3, <1>5

\* A wait replayed: the offsets find the requests, and their buffers are freed.
LEMMA ReplayCompletionStep ==
  ASSUME IInv, NEW op \in {"wait", "waitall"}, NEW requests, NEW ring,
         ReplayCompletion(op, requests, ring),
         requests = [k \in DOMAIN Current.tgt |->
                       IF Current.tgt[k] = 0 THEN NullReq ELSE Current.tgt[k]],
         ring.cur = rep.cur, ring \in [buf : [Slots -> Nat \cup {NullReq}], cur : Slots],
         \A j \in inflight \ CurrentTargets : ring.buf[trace[j].at] = j
  PROVE  IInv' /\ phase' = phase
<1> USE DEF IInv
<1>00. trace \in Seq(Events) /\ pos \in Nat
  BY DEF TypeOK
<1>0. PICK n \in Nat : n = Len(trace)
  BY <1>00
<1>1. PICK p \in Nat : p = pos + 1
  BY <1>00
<1>2. PICK N \in Nat : N = Len(Current.tgt)
  BY <1>0, Replaying1 DEF Events, ReplayCompletion, Replaying
<1>3. /\ phase = "replay" /\ pos < n /\ Current.op = op /\ ~ IsPost(p) /\ Current = trace[p]
      /\ rec' = rec /\ live' = live /\ trace' = trace
  BY <1>0, <1>1 DEF ReplayCompletion, Replaying, Current, IsPost, recVars
<1>4. /\ Current \in Events /\ pos \in Nat /\ p \in 1..n /\ p = pos + 1 /\ Cursor(p) = rep.cur
      /\ mem.cur = rep.cur /\ \A i \in 1..n : trace[i].at \in Slots
  BY <1>0, <1>1, <1>3, Replaying1 DEF Current
<1>5. /\ Current.tgt \in Seq(Nat) /\ DOMAIN Current.tgt = 1..N
      /\ Current.offs \in Seq(Slots \cup {NoOffset}) /\ DOMAIN Current.offs = 1..N
      /\ \A k \in 1..N : Current.tgt[k] \in Nat
  <2>1. Current.tgt \in Seq(Nat) /\ Current.offs \in Seq(Slots \cup {NoOffset})
    BY <1>4 DEF Events
  <2>2. Len(Current.offs) = N
    BY <1>0, <1>2, <1>3, <1>4 DEF RecordInv, EventShape
  <2> QED BY <2>1, <2>2, <1>2
<1>6. /\ DOMAIN requests = 1..N /\ NullReq \notin Nat
      /\ \A k \in 1..N : requests[k] = IF Current.tgt[k] = 0 THEN NullReq ELSE Current.tgt[k]
      /\ Used(requests) = CurrentTargets
  <2> HIDE DEF IInv
  <2>1. DOMAIN requests = 1..N
    BY <1>5
  <2>2. ASSUME NEW k \in 1..N
        PROVE  requests[k] = IF Current.tgt[k] = 0 THEN NullReq ELSE Current.tgt[k]
    BY <1>5
  <2>3. NullReq \notin Nat
    BY HandlesAssumption
  <2>4. ASSUME NEW r PROVE r \in Used(requests) <=> r \in CurrentTargets
    <3>1. r \in Used(requests) <=> \E k \in 1..N : r = requests[k] /\ r # NullReq
      BY <2>1 DEF Used
    <3>2. r \in CurrentTargets <=> \E k \in 1..N : r = Current.tgt[k] /\ r # 0
      BY <1>5 DEF CurrentTargets
    <3>3. \A k \in 1..N : (r = requests[k] /\ r # NullReq) <=> (r = Current.tgt[k] /\ r # 0)
      BY <1>5, <2>2, <2>3
    <3> QED BY <3>1, <3>2, <3>3
  <2>5. Used(requests) = CurrentTargets
    <3> HIDE DEF CurrentTargets
    <3> QED BY <2>4, Zenon DEF Used, CurrentTargets
  <2>6. \A k \in 1..N : requests[k] = IF Current.tgt[k] = 0 THEN NullReq ELSE Current.tgt[k]
    BY <2>2, Zenon
  <2> QED BY <2>1, <2>3, <2>5, <2>6
<1>07. /\ CurrentTargets \subseteq inflight
       /\ \A k \in 1..N : Current.tgt[k] # 0 =>
            /\ SlotOf(mem, Current.offs[k]) = trace[Current.tgt[k]].at
            /\ mem.buf[SlotOf(mem, Current.offs[k])] = Current.tgt[k]
            /\ Current.offs[k] # NoOffset
       /\ \A k \in 1..N : Current.tgt[k] = 0 <=> Current.offs[k] = NoOffset
  BY <1>0, <1>3, <1>5, ReplayTargets
<1> HIDE DEF IInv
<1>7. \A k \in 1..N : Current.offs[k] = NoOffset <=> requests[k] = NullReq
  BY <1>5, <1>6, <1>07
<1> USE DEF IInv
<1> DEFINE offsets == {Current.offs[k] : k \in 1..N}
<1>8. /\ freed' = freed \cup FreedByEntries(mem, offsets)
      /\ mem' = FreeEntries(mem, offsets)
      /\ rep' = ring
      /\ inflight' = inflight \ Used(requests)
      /\ repLog' = Append(repLog, [op |-> op, tgt |->
           [k \in DOMAIN requests |-> IF requests[k] = NullReq THEN 0 ELSE requests[k]]])
      /\ pos' = p /\ phase' = phase
  <2> HIDE DEF IInv
  <2>1. ~ \E k \in DOMAIN Current.offs : Current.offs[k] # NoOffset /\ requests[k] = NullReq
    BY <1>5, <1>7
  <2>2. {Current.offs[k] : k \in DOMAIN Current.offs} = offsets
    BY <1>5
  <2> QED BY <2>1, <2>2, <1>1 DEF ReplayCompletion
<1> HIDE DEF IInv
<1>9. Used(requests) = CurrentTargets
  BY <1>6
<1>10. CurrentTargets \subseteq inflight
  BY <1>07
<1>11. \A k \in 1..N : Current.tgt[k] # 0 =>
         /\ SlotOf(mem, Current.offs[k]) = trace[Current.tgt[k]].at
         /\ mem.buf[SlotOf(mem, Current.offs[k])] = Current.tgt[k]
         /\ Current.offs[k] # NoOffset
  BY <1>07
<1>12. \A k \in 1..N : Current.tgt[k] = 0 <=> Current.offs[k] = NoOffset
  BY <1>07
<1>13. FreedByEntries(mem, offsets) = CurrentTargets
  <2>1. ASSUME NEW b \in FreedByEntries(mem, offsets) PROVE b \in CurrentTargets
    <3>1. PICK k \in 1..N : /\ Current.offs[k] # NoOffset
                           /\ b = mem.buf[SlotOf(mem, Current.offs[k])]
      BY DEF FreedByEntries
    <3>2. Current.tgt[k] # 0 /\ b = Current.tgt[k]
      BY <3>1, <1>11, <1>12
    <3> QED BY <3>2, <1>5 DEF CurrentTargets
  <2>2. ASSUME NEW b \in CurrentTargets PROVE b \in FreedByEntries(mem, offsets)
    <3>1. PICK k \in 1..N : b = Current.tgt[k] /\ b # 0
      BY <1>5 DEF CurrentTargets
    <3>2. b = mem.buf[SlotOf(mem, Current.offs[k])] /\ Current.offs[k] # NoOffset /\ b # NullReq
      BY <3>1, <1>5, <1>6, <1>11
    <3> QED BY <3>2 DEF FreedByEntries
  <2> QED BY <2>1, <2>2
<1>14. /\ mem'.cur = rep.cur
       /\ mem'.buf = [s \in Slots |-> IF \E j \in CurrentTargets : trace[j].at = s
                                      THEN NullReq ELSE mem.buf[s]]
  <2>1. ASSUME NEW s \in Slots
        PROVE  (\E o \in offsets \ {NoOffset} : SlotOf(mem, o) = s)
                 <=> \E j \in CurrentTargets : trace[j].at = s
    <3>1. (\E o \in offsets \ {NoOffset} : SlotOf(mem, o) = s)
            <=> \E k \in 1..N : Current.tgt[k] # 0 /\ trace[Current.tgt[k]].at = s
      BY <1>11, <1>12
    <3>2. (\E j \in CurrentTargets : trace[j].at = s)
            <=> \E k \in 1..N : Current.tgt[k] # 0 /\ trace[Current.tgt[k]].at = s
      BY <1>5 DEF CurrentTargets
    <3> QED BY <3>1, <3>2
  <2> QED BY <2>1, <1>4, <1>8 DEF FreeEntries
<1>15. /\ mem.buf \in [Slots -> Nat \cup {NullReq}] /\ inflight \subseteq Nat /\ freed \subseteq Nat
       /\ repLog \in Seq([op : Ops, tgt : Seq(Nat)]) /\ rep.cur \in Slots
  BY DEF IInv, TypeOK
<1>16. [k \in DOMAIN requests |-> IF requests[k] = NullReq THEN 0 ELSE requests[k]] = Current.tgt
  <2>1. ASSUME NEW k \in 1..N
        PROVE  (IF requests[k] = NullReq THEN 0 ELSE requests[k]) = Current.tgt[k]
    BY <1>5, <1>6, SMTT(30)
  <2>2. Current.tgt = [k \in 1..N |-> Current.tgt[k]]
    BY <1>5
  <2> QED BY <2>1, <2>2, <1>6
<1> USE DEF IInv
<1>17. TypeOK'
  <2>1. mem' \in [buf : [Slots -> Nat \cup {NullReq}], cur : Slots]
    BY <1>8, <1>14, <1>15 DEF FreeEntries
  <2>2. [op |-> op, tgt |-> Current.tgt] \in [op : Ops, tgt : Seq(Nat)]
    BY <1>5 DEF Ops
  <2>3. repLog' \in Seq([op : Ops, tgt : Seq(Nat)])
    BY <2>2, <1>8, <1>15, <1>16
  <2>4. freed' \subseteq Nat /\ inflight' \subseteq Nat
    BY <1>8, <1>10, <1>13, <1>15
  <2>5. pos' \in 0..Len(trace') /\ trace' \in Seq(Events) /\ phase' \in Phases
    <3>1. pos' \in 0..Len(trace')
      BY <1>0, <1>3, <1>4, <1>8
    <3>2. trace' \in Seq(Events) /\ phase' \in Phases
      BY <1>3, <1>8 DEF TypeOK
    <3> QED BY <3>1, <3>2
  <2>6. /\ rec' \in [buf : [Slots -> Handles \cup {NullReq}], cur : Slots]
        /\ live' \in [Handles -> Nat]
    BY <1>3 DEF TypeOK
  <2>7. rep' \in [buf : [Slots -> Nat \cup {NullReq}], cur : Slots]
    BY <1>8
  <2> QED BY <2>1, <2>3, <2>4, <2>5, <2>6, <2>7 DEF TypeOK
<1>18. RecordInv'
  BY <1>3, RecordIdle DEF recVars
<1>19. PhaseInv'
  BY <1>3, <1>8 DEF PhaseInv
<1>20. ReplayInv'
  <2>1. Cursor(p)' = Cursor(p)
    BY <1>3 DEF Cursor
  <2>2. rep'.cur = Cursor(pos)' /\ mem'.cur = Cursor(pos)'
    BY <2>1, <1>4, <1>8, <1>14
  <2>3. ASSUME NEW j, j # 0 PROVE Waited(j, p) <=> Waited(j, pos) \/ j \in CurrentTargets
    <3>1. Waited(j, p) <=> \E i \in 1..p : \E k \in DOMAIN trace[i].tgt : trace[i].tgt[k] = j
      BY DEF Waited
    <3>2. Waited(j, pos) <=> \E i \in 1..pos : \E k \in DOMAIN trace[i].tgt : trace[i].tgt[k] = j
      BY DEF Waited
    <3>3. j \in CurrentTargets <=> \E k \in DOMAIN trace[p].tgt : trace[p].tgt[k] = j
      BY <2>3, <1>3 DEF CurrentTargets
    <3>4. \A i : i \in 1..p <=> i \in 1..pos \/ i = p
      BY <1>4
    <3> HIDE DEF CurrentTargets
    <3> QED BY <3>1, <3>2, <3>3, <3>4
  <2>01. \A j : j \in 1..p /\ IsPost(j) <=> j \in 1..pos /\ j # 0 /\ IsPost(j)
    BY <1>3, <1>4
  <2>02. /\ inflight = {j \in 1..pos : IsPost(j) /\ ~ Waited(j, pos)}
        /\ freed = {j \in 1..pos : IsPost(j) /\ Waited(j, pos)}
    BY DEF ReplayInv
  <2>4. inflight' = {j \in 1..p : IsPost(j) /\ ~ Waited(j, p)}
    BY <2>3, <2>01, <2>02, <1>8, <1>9
  <2>5. freed' = {j \in 1..p : IsPost(j) /\ Waited(j, p)}
    <3>1. \A j \in CurrentTargets : j \in 1..pos /\ IsPost(j)
      BY <2>02, <1>10
    <3> QED BY <3>1, <2>3, <2>01, <2>02, <1>8, <1>13
  <2>6. ASSUME NEW j PROVE (IsPost(j)' <=> IsPost(j)) /\ (Waited(j, pos)' <=> Waited(j, p))
    BY <1>3, <1>8 DEF IsPost, Waited
  <2>7. /\ inflight' = {j \in 1..pos' : IsPost(j)' /\ ~ Waited(j, pos)'}
        /\ freed' = {j \in 1..pos' : IsPost(j)' /\ Waited(j, pos)'}
    BY <2>4, <2>5, <2>6, <1>8
  <2>8. ASSUME NEW s \in Slots, mem'.buf[s] # NullReq
        PROVE  mem'.buf[s] \in inflight' /\ trace[mem'.buf[s]].at = s
    <3>1. mem'.buf[s] = mem.buf[s] /\ \A j \in CurrentTargets : trace[j].at # s
      BY <2>8, <1>14
    <3>2. mem.buf[s] \in inflight /\ trace[mem.buf[s]].at = s
      BY <2>8, <3>1 DEF ReplayInv
    <3> QED BY <3>1, <3>2, <1>8, <1>9
  <2>9. ASSUME NEW j \in inflight'
        PROVE  mem'.buf[trace[j].at] = j /\ rep'.buf[trace[j].at] = j
    <3>1. j \in inflight \ CurrentTargets
      BY <1>8, <1>9
    <3>2. mem.buf[trace[j].at] = j /\ j # NullReq /\ j \in 1..n
      BY <3>1, <1>4, <1>6, <1>15 DEF ReplayInv
    <3>3. trace[j].at \in Slots
      BY <3>2, <1>4
    <3>4. \A l \in CurrentTargets : trace[l].at # trace[j].at
      BY <3>1, <3>2, <1>10 DEF ReplayInv
    <3> QED BY <3>1, <3>2, <3>3, <3>4, <1>8, <1>14
  <2>10. repLog' = [i \in 1..p |-> [op |-> trace[i].op, tgt |-> trace[i].tgt]]
    <3>1. repLog = [i \in 1..pos |-> [op |-> trace[i].op, tgt |-> trace[i].tgt]]
      BY DEF ReplayInv
    <3>2. repLog' = Append(repLog, [op |-> trace[p].op, tgt |-> trace[p].tgt])
      BY <1>3, <1>8, <1>16
    <3> QED BY <3>1, <3>2, <1>4
  <2>11. \A s \in Slots : mem'.buf[s] # NullReq =>
                            mem'.buf[s] \in inflight' /\ trace'[mem'.buf[s]].at = s
    BY <2>8, <1>3
  <2>12. \A j \in inflight' : mem'.buf[trace'[j].at] = j /\ rep'.buf[trace'[j].at] = j
    BY <2>9, <1>3
  <2>13. repLog' = [i \in 1..pos' |-> [op |-> trace'[i].op, tgt |-> trace'[i].tgt]]
    BY <2>10, <1>3, <1>8
  <2> HIDE DEF IInv, offsets
  <2> QED BY <2>2, <2>7, <2>11, <2>12, <2>13 DEF ReplayInv
<1> QED BY <1>8, <1>17, <1>18, <1>19, <1>20

\* MPI_Wait replayed, which does not abort.
LEMMA ReplayWaitStep == ASSUME IInv, ReplayWait PROVE IInv' /\ phase' = phase
<1> DEFINE requests == <<LookupRequest(rep, Current.offs[1])>>
<1>1. phase = "replay" /\ pos < Len(trace) /\ Current.op = "wait"
  BY DEF ReplayWait, ReplayCompletion, Replaying
<1>2. Current.tgt \in Seq(Nat) /\ Len(Current.tgt) = 1
  BY <1>1, Replaying1 DEF IInv, RecordInv, EventShape, Current, Events
<1>3. DOMAIN Current.tgt = 1..1 /\ Current.tgt[1] \in Nat
  BY <1>2
<1>4. requests[1] = IF Current.tgt[1] = 0 THEN NullReq ELSE Current.tgt[1]
  BY <1>1, <1>3, ReplayResolves DEF LookupRequest
<1>5. requests = [k \in DOMAIN Current.tgt |->
                    IF Current.tgt[k] = 0 THEN NullReq ELSE Current.tgt[k]]
  BY <1>3, <1>4
<1>6. \A j \in inflight \ CurrentTargets : rep.buf[trace[j].at] = j
  BY DEF IInv, ReplayInv
<1>7. rep \in [buf : [Slots -> Nat \cup {NullReq}], cur : Slots]
  BY DEF IInv, TypeOK
<1>8. ReplayCompletion("wait", requests, rep)
  BY DEF ReplayWait
<1> HIDE DEF requests
<1> QED BY <1>5, <1>6, <1>7, <1>8, ReplayCompletionStep

\* MPI_Waitall replayed, which does not abort.
LEMMA ReplayWaitallStep == ASSUME IInv, ReplayWaitall PROVE IInv' /\ phase' = phase
<1> DEFINE requests == LookupRequestList(rep, Current.offs)
           offsets == {Current.offs[i] : i \in DOMAIN Current.offs}
           ring == ResetOffsets(rep, offsets)
<1>1. phase = "replay" /\ pos < Len(trace) /\ Current.op = "waitall"
  BY DEF ReplayWaitall, ReplayCompletion, Replaying
<1>2. PICK N \in Nat : N = Len(Current.tgt)
  BY <1>1, Replaying1 DEF Events
<1>3. /\ Current.tgt \in Seq(Nat) /\ DOMAIN Current.tgt = 1..N
      /\ Current.offs \in Seq(Slots \cup {NoOffset}) /\ DOMAIN Current.offs = 1..N
      /\ \A k \in 1..N : Current.tgt[k] \in Nat
  <2>1. Current.tgt \in Seq(Nat) /\ Current.offs \in Seq(Slots \cup {NoOffset})
    BY <1>1, Replaying1 DEF Events
  <2>2. Len(Current.offs) = N
    BY <1>1, <1>2, Replaying1 DEF IInv, RecordInv, EventShape, Current
  <2> QED BY <2>1, <2>2, <1>2
<1>4. ASSUME NEW k \in 1..N
      PROVE  requests[k] = IF Current.tgt[k] = 0 THEN NullReq ELSE Current.tgt[k]
  <2>1. requests[k] = IF \E l \in 1..N : l < k /\ Current.offs[l] = Current.offs[k]
                      THEN NullReq ELSE LookupRequest(rep, Current.offs[k])
    BY <1>3 DEF LookupRequestList
  <2>2. CASE Current.tgt[k] = 0
    BY <2>1, <2>2, <1>1, <1>3, ReplayResolves DEF LookupRequest
  <2>3. CASE Current.tgt[k] # 0
    <3>1. /\ Current.offs[k] # NoOffset
          /\ rep.buf[SlotOf(rep, Current.offs[k])] = Current.tgt[k]
      BY <2>3, <1>1, <1>3, ReplayResolves
    <3>2. ASSUME NEW l \in 1..N, Current.offs[l] = Current.offs[k] PROVE l = k
      <4>1. Current.tgt[l] = Current.tgt[k]
        BY <3>1, <3>2, <1>1, <1>3, ReplayResolves
      <4>2. WaitedOnce /\ Current = trace[pos+1] /\ pos + 1 \in 1..Len(trace)
        BY <1>1, Replaying1 DEF IInv, RecordInv, Current
      <4>3. k \in DOMAIN Current.tgt /\ l \in DOMAIN Current.tgt
        BY <1>3
      <4> HIDE DEF requests, ring, offsets
      <4> QED BY <4>1, <4>2, <4>3, <2>3, SMTT(30) DEF WaitedOnce
    <3> QED BY <2>1, <2>3, <3>1, <3>2 DEF LookupRequest
  <2> QED BY <2>2, <2>3
<1>5. requests = [k \in DOMAIN Current.tgt |->
                    IF Current.tgt[k] = 0 THEN NullReq ELSE Current.tgt[k]]
  BY <1>3, <1>4 DEF LookupRequestList
<1>6. rep \in [buf : [Slots -> Nat \cup {NullReq}], cur : Slots]
  BY DEF IInv, TypeOK
<1>7. ring.cur = rep.cur /\ ring \in [buf : [Slots -> Nat \cup {NullReq}], cur : Slots]
  BY <1>6 DEF ResetOffsets
<1>8. ASSUME NEW j \in inflight \ CurrentTargets PROVE ring.buf[trace[j].at] = j
  <2>1. rep.buf[trace[j].at] = j /\ j \in 1..Len(trace)
    BY Replaying1, <1>1 DEF IInv, ReplayInv
  <2>2. trace[j].at \in Slots
    BY <2>1, <1>1, Replaying1
  <2>3. ASSUME NEW k \in 1..N, Current.offs[k] >= 0, SlotOf(rep, Current.offs[k]) = trace[j].at
        PROVE  FALSE
    <3>1. Current.tgt[k] # 0
      <4>1. Current.offs[k] # NoOffset
        BY <2>3 DEF NoOffset
      <4> QED BY <4>1, <1>1, <1>3, ReplayResolves
    <3>2. Current.tgt[k] = j
      BY <2>1, <2>3, <3>1, <1>1, <1>3, ReplayResolves
    <3> QED BY <3>1, <3>2, <1>3 DEF CurrentTargets
  <2> QED BY <2>1, <2>2, <2>3, <1>3 DEF ResetOffsets
<1>9. ReplayCompletion("waitall", requests, ring)
  BY DEF ReplayWaitall
<1> HIDE DEF requests, ring
<1> QED BY <1>5, <1>7, <1>8, <1>9, ReplayCompletionStep

\* MPI_Finalize replayed frees what is left.
LEMMA ReplayFinalizeStep == ASSUME IInv, ReplayFinalize PROVE IInv'
<1> USE DEF IInv
<1>1. phase = "replay" /\ phase' = "done" /\ pos = Len(trace)
      /\ UNCHANGED <<rec, live, trace, pos, rep, inflight, repLog>>
  BY DEF ReplayFinalize, recVars
<1>2. inflight = {}
  BY <1>1 DEF ReplayInv, PhaseInv, RecordInv, NoneForgotten
<1>3. \A s \in Slots : mem.buf[s] = NullReq
  BY <1>2 DEF ReplayInv
<1>4. mem' = [buf |-> [s \in Slots |-> NullReq], cur |-> mem.cur] /\ freed' = freed
  BY <1>3 DEF ReplayFinalize, FreedAtEnd, EmptyRing
<1>5. TypeOK'
  BY <1>1, <1>4 DEF TypeOK, Phases
<1>6. RecordInv'
  BY <1>1, RecordIdle DEF recVars
<1>7. PhaseInv'
  BY <1>1 DEF PhaseInv
<1>8. ReplayInv'
  <2>1. ASSUME NEW j PROVE (IsPost(j)' <=> IsPost(j)) /\ (Waited(j, pos)' <=> Waited(j, pos))
    BY <1>1 DEF IsPost, Waited
  <2>2. Cursor(pos)' = Cursor(pos)
    BY <1>1 DEF Cursor
  <2>3. /\ inflight' = {j \in 1..pos' : IsPost(j)' /\ ~ Waited(j, pos)'}
        /\ freed' = {j \in 1..pos' : IsPost(j)' /\ Waited(j, pos)'}
    BY <2>1, <1>1, <1>4 DEF ReplayInv
  <2>4. rep'.cur = Cursor(pos)' /\ mem'.cur = Cursor(pos)'
    BY <2>2, <1>1, <1>4 DEF ReplayInv
  <2>5. repLog' = [i \in 1..pos' |-> [op |-> trace'[i].op, tgt |-> trace'[i].tgt]]
    BY <1>1 DEF ReplayInv
  <2> QED BY <2>3, <2>4, <2>5, <1>1, <1>2, <1>4 DEF ReplayInv
<1> QED BY <1>5, <1>6, <1>7, <1>8

\* Stuttering keeps the invariant.
LEMMA IdleStep == ASSUME IInv, UNCHANGED vars PROVE IInv'
<1> USE DEF IInv
<1>1. UNCHANGED <<phase, rec, live, trace, pos, rep, mem, inflight, freed, repLog>>
  BY DEF vars
<1>2. TypeOK'
  BY <1>1 DEF TypeOK
<1>3. RecordInv'
  BY <1>1, RecordIdle DEF recVars
<1>4. PhaseInv'
  BY <1>1 DEF PhaseInv
<1>5. ReplayInv'
  BY <1>1 DEF ReplayInv, IsPost, Waited, Cursor
<1> QED BY <1>2, <1>3, <1>4, <1>5

\* Every step keeps the invariant.
LEMMA NextStep == ASSUME IInv, [Next]_vars PROVE IInv'
<1>1. CASE Record
  BY <1>1, RecordStep
<1>2. CASE Replay
  BY <1>2, ReplayPostStep, ReplayWaitStep, ReplayWaitallStep, ReplayFinalizeStep DEF Replay
<1>3. CASE Ended \/ UNCHANGED vars
  BY <1>3, IdleStep DEF Ended
<1> QED BY <1>1, <1>2, <1>3 DEF Next

-----------------------------------------------------------------------------
(* The theorems. *)

\* The inductive invariant holds of every reachable state.
THEOREM Inductive == Spec => []IInv
BY InitIInv, NextStep, PTL DEF Spec

\* Types of all variables.
THEOREM TypeCorrect == Spec => []TypeOK
BY Inductive, PTL DEF IInv

\* Every offset the tracer writes names the request the application waited for,
\* for every ring size, and whatever handles MPI reuses.
THEOREM TraceNamesRequests == Spec => []OffsetsNameTheirRequest
BY Inductive, PTL DEF IInv, RecordInv

\* The replayer's two rings keep the tracer's cursor.
THEOREM RingsInStep == Spec => []CursorsInStep
<1>1. IInv => CursorsInStep
  <2> SUFFICES ASSUME IInv PROVE CursorsInStep
    OBVIOUS
  <2>1. pos \in 0..Len(trace) /\ Len(trace) \in Nat
    BY DEF IInv, TypeOK
  <2> QED BY <2>1 DEF IInv, ReplayInv, CursorsInStep, Cursor, Current
<1> QED BY <1>1, Inductive, PTL

\* No buffer is freed while the request it was given to is outstanding.
THEOREM BuffersSafe == Spec => []NoBufferFreedInFlight
<1>1. IInv => NoBufferFreedInFlight
  BY DEF IInv, ReplayInv, NoBufferFreedInFlight
<1> QED BY <1>1, Inductive, PTL

\* No buffer is freed twice.
THEOREM FreedOnce == Spec => []NoDoubleFree
<1>1. IInv => NoDoubleFree
  BY DEF IInv, ReplayInv, NoDoubleFree
<1> QED BY <1>1, Inductive, PTL

\* No offset of a written trace makes the replay exit.
THEOREM ReplayNeverExits == Spec => NoReplayExit
<1>1. ASSUME IInv, [Next]_vars PROVE [phase = "replay" => phase' # "aborted"]_vars
  <2> SUFFICES ASSUME phase = "replay" PROVE phase' # "aborted"
    OBVIOUS
  <2>1. CASE Record
    BY <2>1 DEF Record, RecordPost, RecordWait, RecordWaitall, RecordCompletion, RecordFinalize
  <2>2. CASE ReplayWait \/ ReplayWaitall
    BY <2>2, <1>1, ReplayWaitStep, ReplayWaitallStep
  <2>3. CASE ReplayPost \/ ReplayFinalize \/ Ended \/ UNCHANGED vars
    BY <2>3 DEF ReplayPost, ReplayFinalize, Ended, vars
  <2> QED BY <2>1, <2>2, <2>3, <1>1 DEF Next, Replay
<1> QED BY <1>1, Inductive, PTL DEF Spec, NoReplayExit

\* A replay that ended has completed every request and freed every buffer.
THEOREM Reclaimed == Spec => []AllReclaimed
<1>1. IInv => AllReclaimed
  <2> SUFFICES ASSUME IInv, phase = "done"
               PROVE  inflight = {} /\ freed = {j \in DOMAIN trace : IsPost(j)}
    BY DEF AllReclaimed
  <2>1. DOMAIN trace = 1..Len(trace) /\ pos = Len(trace)
    BY DEF IInv, TypeOK, PhaseInv
  <2>2. \A j \in 1..pos : IsPost(j) => Waited(j, pos)
    BY <2>1 DEF IInv, PhaseInv, RecordInv, NoneForgotten
  <2> QED BY <2>1, <2>2 DEF IInv, ReplayInv
<1> QED BY <1>1, Inductive, PTL

-----------------------------------------------------------------------------
(* The replay implements CallLog. *)

\* Only the first MaxCalls events can post a request.
LiveBounded == \A h \in Handles : live[h] \in 0 .. MaxCalls

\* An outstanding request is the number of a call made.
LEMMA Bounded == Spec => []LiveBounded
<1>1. Init => LiveBounded
  BY BoundsAssumption DEF Init, LiveBounded
<1>2. ASSUME IInv, LiveBounded, [Next]_vars PROVE LiveBounded'
  <2>1. Len(trace) \in Nat /\ live \in [Handles -> Nat]
    BY <1>2 DEF IInv, TypeOK
  <2>2. ASSUME NEW h \in Handles, RecordPost(h) PROVE LiveBounded'
    BY <2>1, <2>2, <1>2, BoundsAssumption DEF RecordPost, LiveBounded
  <2>3. ASSUME NEW op, NEW arr, NEW offs, RecordCompletion(op, arr, offs) PROVE LiveBounded'
    BY <2>3, <1>2, BoundsAssumption
       DEF RecordCompletion, RecordEffect, LiveBounded, recVars
  <2>4. CASE Record
    BY <2>4, <2>2, <2>3, <1>2 DEF Record, RecordWait, RecordWaitall, RecordFinalize, LiveBounded, recVars
  <2>5. CASE Replay \/ Ended \/ UNCHANGED vars
    BY <2>5, <1>2 DEF Replay, ReplayPost, ReplayWait, ReplayWaitall, ReplayCompletion,
                      ReplayFinalize, Ended, LiveBounded, recVars, vars
  <2> QED BY <2>4, <2>5, <1>2 DEF Next
<1> QED BY <1>1, <1>2, Inductive, PTL DEF Spec

\* The calls of the application, as CallLog sees them.
Recorded == [i \in DOMAIN trace |-> [op |-> trace[i].op, tgt |-> trace[i].tgt]]

\* A call appended to the trace is a call appended to the log recorded.
LEMMA AppendCall ==
  ASSUME IInv, NEW e, trace' = Append(trace, e), repLog' = repLog, phase = "record",
         [op |-> e.op, tgt |-> e.tgt] \in Calls
  PROVE  Log!Next
<1> DEFINE c == [op |-> e.op, tgt |-> e.tgt]
<1>1. trace \in Seq(Events) /\ Len(trace) \in Nat
  BY DEF IInv, TypeOK
<1>2. repLog = <<>>
  BY DEF IInv, PhaseInv, ReplayInv
<1>3. Recorded' = Append(Recorded, c)
  BY <1>1 DEF Recorded
<1> QED BY <1>2, <1>3 DEF Log!Next, Log!Record, Recorded

\* A wait recorded appends its call to the log, or leaves it as it is.
LEMMA CompletionCall ==
  ASSUME IInv, LiveBounded, NEW op \in {"wait", "waitall"}, NEW N \in 1..MaxList,
         NEW arr \in [1..N -> Handles \cup {NullReq}], NEW offs,
         RecordCompletion(op, arr, offs)
  PROVE  [Log!Next]_Log!vars
<1>1. CASE RecordEffect(op, arr, offs)
  <2> DEFINE e == Event(op, offs, Targets(arr))
  <2>1. trace' = Append(trace, e) /\ repLog' = repLog /\ phase = "record"
    BY <1>1 DEF RecordCompletion, RecordEffect, repVars
  <2>2. Targets(arr) \in [1..N -> 0..MaxCalls]
    BY BoundsAssumption DEF Targets, LiveBounded
  <2>3. N \in 0..MaxList
    BY BoundsAssumption
  <2>4. [op |-> e.op, tgt |-> e.tgt] \in Calls
    BY <2>2, <2>3 DEF Calls, Event, Ops
  <2> HIDE DEF e
  <2> QED BY <2>1, <2>4, AppendCall
<1>2. CASE trace' = trace /\ repLog' = repLog
  BY <1>2 DEF Log!vars
<1> QED BY <1>1, <1>2 DEF RecordCompletion, recVars, repVars

\* A call replayed is the next of the log.
LEMMA ReplayCall ==
  ASSUME IInv, IInv', trace' = trace, pos < Len(trace), pos' = pos + 1
  PROVE  Log!Next
<1>0. PICK n \in Nat : n = Len(trace) /\ DOMAIN trace = 1..n
  BY DEF IInv, TypeOK
<1>1. PICK p \in Nat : p = pos
  BY DEF IInv, TypeOK
<1>2. DOMAIN Recorded = 1..n /\ Len(Recorded) = n
      /\ \A i \in 1..n : Recorded[i] = [op |-> trace[i].op, tgt |-> trace[i].tgt]
  BY <1>0 DEF Recorded
<1>3. /\ repLog = [i \in 1..p |-> [op |-> trace[i].op, tgt |-> trace[i].tgt]]
      /\ repLog' = [i \in 1..(p+1) |-> [op |-> trace[i].op, tgt |-> trace[i].tgt]]
  BY <1>1 DEF IInv, ReplayInv
<1>4. Len(repLog) = p /\ p + 1 \in 1..n
  BY <1>0, <1>1, <1>3
<1>5. repLog' = Append(repLog, [op |-> trace[p+1].op, tgt |-> trace[p+1].tgt])
  BY <1>1, <1>3, <1>4
<1>6. Recorded' = Recorded
  BY DEF Recorded
<1> QED BY <1>2, <1>4, <1>5, <1>6, <1>0 DEF Log!Next, Log!Replay, Recorded

\* The replay makes the calls the application made, on the same requests and in
\* the same order.
THEOREM ReplayRefinesCallLog == Spec => ReplayMakesRecordedCalls
<1>1. Init => Log!Init
  BY DEF Init, Log!Init
<1>2. ASSUME IInv, IInv', LiveBounded, [Next]_vars PROVE [Log!Next]_Log!vars
  <2>1. ASSUME NEW h \in Handles, RecordPost(h) PROVE [Log!Next]_Log!vars
    <3> DEFINE e == Event("post", <<>>, <<>>)
    <3>1. trace' = Append(trace, e) /\ repLog' = repLog /\ phase = "record"
      BY <2>1 DEF RecordPost, repVars
    <3>2. e.op = "post" /\ e.tgt = <<>>
      BY DEF Event
    <3>3. <<>> \in [1..0 -> 0..MaxCalls] /\ 0 \in 0..MaxList
      BY BoundsAssumption
    <3>4. [op |-> e.op, tgt |-> e.tgt] \in Calls
      BY <3>2, <3>3 DEF Calls, Ops
    <3> HIDE DEF e
    <3> QED BY <3>1, <3>4, <1>2, AppendCall
  <2>2. ASSUME NEW h \in Handles \cup {NullReq}, RecordWait(h) PROVE [Log!Next]_Log!vars
    <3> DEFINE arr == <<h>>
               offs == <<LookupOffset(rec, h)>>
    <3>1. arr \in [1..1 -> Handles \cup {NullReq}] /\ 1 \in 1..MaxList
      BY BoundsAssumption
    <3>2. RecordCompletion("wait", arr, offs)
      BY <2>2 DEF RecordWait
    <3> HIDE DEF arr, offs
    <3> QED BY <3>1, <3>2, <1>2, CompletionCall
  <2>3. ASSUME NEW arr \in Arrays, RecordWaitall(arr) PROVE [Log!Next]_Log!vars
    <3>1. PICK N \in 1..MaxList : arr \in [1..N -> Handles \cup {NullReq}]
      BY <2>3 DEF Arrays
    <3> DEFINE offs == [i \in DOMAIN arr |-> LookupOffsetBack(rec, arr[i])]
    <3>2. RecordCompletion("waitall", arr, offs)
      BY <2>3 DEF RecordWaitall
    <3> HIDE DEF offs
    <3> QED BY <3>1, <3>2, <1>2, CompletionCall
  <2>4. CASE ReplayPost
    BY <2>4, <1>2, ReplayCall DEF ReplayPost, Replaying, recVars
  <2>5. ASSUME NEW op, NEW requests, NEW ring, ReplayCompletion(op, requests, ring)
        PROVE  [Log!Next]_Log!vars
    <3>1. CASE pos' = pos + 1
      BY <2>5, <3>1, <1>2, ReplayCall DEF ReplayCompletion, Replaying, recVars
    <3>2. CASE trace' = trace /\ repLog' = repLog
      BY <3>2 DEF Log!vars
    <3> QED BY <2>5, <3>1, <3>2 DEF ReplayCompletion, recVars, repVars
  <2>6. CASE RecordFinalize \/ ReplayFinalize \/ Ended \/ UNCHANGED vars
    BY <2>6 DEF RecordFinalize, ReplayFinalize, Ended, vars, recVars, repVars, Log!vars
  <2> QED BY <2>1, <2>2, <2>3, <2>4, <2>5, <2>6, <1>2
          DEF Next, Record, Replay, ReplayWait, ReplayWaitall
<1> QED BY <1>1, <1>2, Inductive, Bounded, PTL DEF Spec, ReplayMakesRecordedCalls, Log!Spec
-----------------------------------------------------------------------------
(* What the ring loses.  The cursor moves on by one slot per request       *)
(* posted and by none for the rest of the calls, so a request is as far    *)
(* behind it as there are requests posted since, until it is back.         *)

\* The events of trace t after event n that posted requests.
PostedSince(t, n) == {m \in n+1 .. Len(t) : t[m].op = "post"}

\* How many slots the cursor has moved on from slot s.
Age(ring, s) == IF ring.cur > s THEN ring.cur - s - 1 ELSE ring.cur + Size - s - 1

\* A request is in the slot it was put in, as far back as there are requests
\* posted since, or those are as many as there are slots.
InPlace(h, n) ==
  \/ Cardinality(PostedSince(trace, n)) >= Size
  \/ \E s \in Slots : rec.buf[s] = h /\ Age(rec, s) = Cardinality(PostedSince(trace, n))
AllInPlace == \A h \in Handles : live[h] # 0 => InPlace(h, live[h])

LossInv == IInv /\ AllInPlace

\* One more event, and what it adds to the requests posted since.
LEMMA PostedGrows ==
  ASSUME NEW t \in Seq(Events), NEW e \in Events, NEW n \in 0..Len(t)
  PROVE  /\ IsFiniteSet(PostedSince(t, n)) /\ Cardinality(PostedSince(t, n)) \in Nat
         /\ e.op # "post" => PostedSince(Append(t, e), n) = PostedSince(t, n)
         /\ e.op = "post" =>
              Cardinality(PostedSince(Append(t, e), n)) = Cardinality(PostedSince(t, n)) + 1
         /\ Cardinality(PostedSince(Append(t, e), Len(t) + 1)) = 0
<1> DEFINE u == Append(t, e)
<1>1. PICK k \in Nat : k = Len(t)
  OBVIOUS
<1>2. Len(u) = k + 1 /\ u[k + 1] = e /\ \A j \in 1..k : u[j] = t[j]
  BY <1>1
<1> HIDE DEF u
<1>3. IsFiniteSet(PostedSince(t, n)) /\ Cardinality(PostedSince(t, n)) \in Nat
  <2>1. IsFiniteSet(1..k)
    BY FS_Interval
  <2>2. PostedSince(t, n) \subseteq 1..k
    BY <1>1 DEF PostedSince
  <2>3. IsFiniteSet(PostedSince(t, n))
    BY <2>1, <2>2, FS_Subset
  <2> QED BY <2>3, FS_CardinalityType
<1>4. ASSUME e.op # "post" PROVE PostedSince(u, n) = PostedSince(t, n)
  <2>1. \A j : j \in n+1 .. k + 1 <=> j \in n+1 .. k \/ j = k + 1
    BY <1>1
  <2>2. \A j \in n+1 .. k : j \in 1..k
    BY <1>1
  <2> QED BY <1>1, <1>2, <1>4, <2>1, <2>2 DEF PostedSince
<1>5. ASSUME e.op = "post"
      PROVE  Cardinality(PostedSince(u, n)) = Cardinality(PostedSince(t, n)) + 1
  <2>1. \A j : j \in n+1 .. k + 1 <=> j \in n+1 .. k \/ j = k + 1
    BY <1>1
  <2>2. k + 1 \notin n+1 .. k /\ \A j \in n+1 .. k : j \in 1..k
    BY <1>1
  <2>3. PostedSince(u, n) = PostedSince(t, n) \cup {k + 1}
    BY <1>1, <1>2, <1>5, <2>1, <2>2 DEF PostedSince
  <2>4. k + 1 \notin PostedSince(t, n)
    BY <1>1, <2>2 DEF PostedSince
  <2> QED BY <1>3, <2>3, <2>4, FS_AddElement
<1>6. Cardinality(PostedSince(u, Len(t) + 1)) = 0
  <2>1. PostedSince(u, k + 1) = {}
    BY <1>2 DEF PostedSince
  <2> QED BY <1>1, <2>1, FS_EmptySet
<1> QED BY <1>3, <1>4, <1>5, <1>6 DEF u

\* The cursor moves on by one slot, and takes the slot furthest behind.
LEMMA AgeGrows ==
  ASSUME NEW c \in Slots, NEW s \in Slots, NEW old, old.cur = c, NEW new, new.cur = Advance(c)
  PROVE  /\ Age(old, s) \in 0 .. Size - 1
         /\ Age(old, c) = Size - 1
         /\ Age(new, c) = 0
         /\ s # c => Age(new, s) = Age(old, s) + 1
<1>1. Size \in Nat /\ Size >= 1 /\ c \in 0 .. Size - 1 /\ s \in 0 .. Size - 1
  BY SizeAssumption DEF Slots
<1>2. Advance(c) = IF c = Size - 1 THEN 0 ELSE c + 1
  BY <1>1 DEF Advance
<1> QED BY <1>1, <1>2 DEF Age

\* In place, request by request.
LEMMA AllByOne ==
  ASSUME \A h \in Handles : live'[h] # 0 => \E n : n = live'[h] /\ InPlace(h, n)'
  PROVE  AllInPlace'
BY DEF AllInPlace, InPlace

\* MPI_Isend and MPI_Irecv put their request in place; the one whose slot it
\* takes has Size requests behind it.
LEMMA PostInPlace == ASSUME LossInv, NEW h \in Handles, RecordPost(h) PROVE AllInPlace'
<1> DEFINE e == Event("post", <<>>, <<>>)
<1>1. /\ trace \in Seq(Events) /\ Len(trace) \in Nat /\ live \in [Handles -> Nat]
      /\ rec.cur \in Slots /\ rec.buf \in [Slots -> Handles \cup {NullReq}]
  BY DEF LossInv, IInv, TypeOK
<1>2. e \in Events /\ e.op = "post"
  BY <1>1 DEF Event, Events, Ops
<1>3. /\ trace' = Append(trace, e) /\ live' = [live EXCEPT ![h] = Len(trace) + 1]
      /\ rec' = [buf |-> [rec.buf EXCEPT ![rec.cur] = h], cur |-> Advance(rec.cur)]
  BY HandlesAssumption DEF RecordPost, AddEntry
<1> HIDE DEF e
<1>4. Size \in Nat
  BY SizeAssumption
<1>5. ASSUME NEW g \in Handles, live'[g] # 0 PROVE \E n : n = live'[g] /\ InPlace(g, n)'
  <2>1. PICK n : n = live'[g]
    OBVIOUS
  <2>2. CASE g = h
    <3>1. n = Len(trace) + 1
      BY <1>1, <1>3, <2>1, <2>2
    <3>2. Cardinality(PostedSince(trace', n)) = 0
      BY <1>1, <1>2, <1>3, <3>1, PostedGrows
    <3>3. Age(rec', rec.cur) = 0
      BY <1>1, <1>3, AgeGrows
    <3>4. rec'.buf[rec.cur] = g
      BY <1>1, <1>3, <2>2
    <3>5. \E s \in Slots : rec'.buf[s] = g /\ Age(rec', s) = Cardinality(PostedSince(trace', n))
      BY <1>1, <3>2, <3>3, <3>4
    <3> QED BY <2>1, <3>5 DEF InPlace
  <2>3. CASE g # h
    <3>1. n = live[g] /\ n # 0
      BY <1>1, <1>3, <1>5, <2>1, <2>3
    <3>2. n \in 1..Len(trace)
      BY <3>1 DEF LossInv, IInv, RecordInv, LiveRequests
    <3>3. PICK c : c = Cardinality(PostedSince(trace, n))
      OBVIOUS
    <3>4. c \in Nat /\ Cardinality(PostedSince(trace', n)) = c + 1
      <4>1. n \in 0..Len(trace)
        BY <1>1, <3>2
      <4> QED BY <1>1, <1>2, <1>3, <3>3, <4>1, PostedGrows
    <3>5. InPlace(g, n)
      BY <3>1 DEF LossInv, AllInPlace
    <3>6. CASE c >= Size
      <4>1. Cardinality(PostedSince(trace', n)) >= Size
        BY <1>4, <3>4, <3>6
      <4> QED BY <2>1, <4>1 DEF InPlace
    <3>7. CASE \E s \in Slots : rec.buf[s] = g /\ Age(rec, s) = c
      <4>1. PICK s \in Slots : rec.buf[s] = g /\ Age(rec, s) = c
        BY <3>7
      <4>2. CASE s = rec.cur
        <5>1. c = Size - 1
          BY <1>1, <1>3, <4>1, <4>2, AgeGrows
        <5>2. Cardinality(PostedSince(trace', n)) >= Size
          BY <1>4, <3>4, <5>1
        <5> QED BY <2>1, <5>2 DEF InPlace
      <4>3. CASE s # rec.cur
        <5>1. Age(rec', s) = c + 1
          BY <1>1, <1>3, <4>1, <4>3, AgeGrows
        <5>2. rec'.buf[s] = g
          BY <1>1, <1>3, <4>1, <4>3
        <5> QED BY <2>1, <3>4, <4>1, <5>1, <5>2 DEF InPlace
      <4> QED BY <4>2, <4>3
    <3> QED BY <3>3, <3>5, <3>6, <3>7 DEF InPlace
  <2> QED BY <2>2, <2>3
<1> QED BY <1>5, AllByOne

\* A wait takes out of the ring the requests it is for and no others.
LEMMA WaitInPlace ==
  ASSUME LossInv, NEW op \in {"wait", "waitall"}, NEW N \in Nat,
         NEW arr \in [1..N -> Handles \cup {NullReq}],
         NEW offs, DOMAIN offs = 1..N,
         \A i \in 1..N : \/ offs[i] = LookupOffset(rec, arr[i])
                         \/ offs[i] = LookupOffsetBack(rec, arr[i]),
         RecordCompletion(op, arr, offs)
  PROVE  AllInPlace'
<1>1. /\ trace \in Seq(Events) /\ Len(trace) \in Nat /\ live \in [Handles -> Nat]
      /\ rec.cur \in Slots /\ rec.buf \in [Slots -> Handles \cup {NullReq}]
      /\ TypeOK /\ RecordInv /\ AllInPlace
  BY DEF LossInv, IInv, TypeOK
<1>2. CASE \E i \in DOMAIN arr : arr[i] # NullReq /\ ~ Holds(rec, arr[i])
  <2>1. rec' = rec /\ trace' = trace /\ live' = live
    BY <1>2 DEF RecordCompletion, recVars
  <2> QED BY <1>1, <2>1 DEF AllInPlace, InPlace, Age
<1>3. CASE \A i \in 1..N : arr[i] # NullReq => Holds(rec, arr[i])
  <2>1. RecordEffect(op, arr, offs)
    BY <1>3 DEF RecordCompletion
  <2> DEFINE e == Event(op, offs, Targets(arr))
  <2>2. e.op # "post" /\ trace' = Append(trace, e)
    BY <2>1 DEF Event, RecordEffect
  <2> HIDE DEF e
  <2>3. ASSUME NEW n \in Nat PROVE PostedSince(trace', n) = PostedSince(trace, n)
    <3>1. PICK k \in Nat : k = Len(trace) /\ trace \in Seq(Events)
      BY <1>1
    <3>2. Len(trace') = k + 1 /\ trace'[k + 1] = e /\ \A j \in 1..k : trace'[j] = trace[j]
      BY <2>2, <3>1
    <3>3. \A j : j \in n+1 .. k + 1 <=> j \in n+1 .. k \/ (j = k + 1 /\ n <= k)
      BY <3>1
    <3>4. \A j \in n+1 .. k : j \in 1..k
      BY <3>1
    <3> QED BY <2>2, <3>1, <3>2, <3>3, <3>4 DEF PostedSince
  <2>4. ASSUME NEW g \in Handles, live'[g] # 0
        PROVE  live'[g] = live[g] /\ \A i \in 1..N : arr[i] # g
    BY <2>1, <2>4 DEF RecordEffect
  <2>5. ASSUME NEW i \in 1..N, NEW s \in Slots, offs[i] >= 0, SlotOf(rec, offs[i]) = s
        PROVE  rec.buf[s] = arr[i]
    <3>1. arr[i] # NullReq
      <4>1. arr[i] = NullReq => offs[i] = NoOffset
        BY DEF LookupOffset, LookupOffsetBack
      <4>2. ~ NoOffset >= 0
        BY DEF NoOffset
      <4> QED BY <2>5, <4>1, <4>2
    <3>2. arr[i] \in Handles /\ Holds(rec, arr[i])
      BY <1>3, <3>1
    <3>3. PICK t \in Slots : rec.buf[t] = arr[i] /\ offs[i] = OffsetOf(rec, t)
      BY <1>1, <3>2, LookupsResolve
    <3>4. s = t
      BY <1>1, <2>5, <3>3, OffsetRoundTrip
    <3> QED BY <3>3, <3>4
  <2>6. /\ rec'.cur = rec.cur
        /\ \A s \in Slots : rec'.buf[s] = rec.buf[s] \/ \E i \in 1..N : rec.buf[s] = arr[i]
    BY <2>1, <2>5 DEF RecordEffect, ResetOffsets
  <2>7. ASSUME NEW g \in Handles, live'[g] # 0 PROVE \E n : n = live'[g] /\ InPlace(g, n)'
    <3>1. PICK n : n = live'[g]
      OBVIOUS
    <3>2. n = live[g] /\ n # 0 /\ n \in Nat /\ \A i \in 1..N : arr[i] # g
      BY <1>1, <2>4, <2>7, <3>1
    <3>3. PostedSince(trace', n) = PostedSince(trace, n)
      BY <2>3, <3>2
    <3>4. \A s \in Slots : rec.buf[s] = g => rec'.buf[s] = g
      BY <2>6, <3>2
    <3>5. \A s : Age(rec', s) = Age(rec, s)
      BY <2>6 DEF Age
    <3>6. InPlace(g, n)
      BY <1>1, <3>2 DEF AllInPlace
    <3>7. InPlace(g, n)'
      BY <3>3, <3>4, <3>5, <3>6 DEF InPlace
    <3> QED BY <3>1, <3>7
  <2> QED BY <2>7, AllByOne
<1> QED BY <1>2, <1>3

\* Every step keeps the invariant.
LEMMA StepLoss == ASSUME LossInv, [Next]_vars PROVE LossInv'
<1>1. IInv' /\ IInv /\ rec.cur \in Slots /\ AllInPlace
  BY NextStep DEF LossInv, IInv, TypeOK
<1>2. ASSUME UNCHANGED recVars PROVE AllInPlace'
  BY <1>1, <1>2 DEF recVars, AllInPlace, InPlace
<1>3. CASE \E h \in Handles : RecordPost(h)
  BY <1>1, <1>3, PostInPlace DEF LossInv
<1>4. ASSUME NEW h \in Handles \cup {NullReq}, RecordWait(h) PROVE AllInPlace'
  <2> DEFINE arr == <<h>>
             offs == <<LookupOffset(rec, h)>>
  <2>1. /\ arr \in [1..1 -> Handles \cup {NullReq}] /\ DOMAIN offs = 1..1
        /\ \A i \in 1..1 : offs[i] = LookupOffset(rec, arr[i])
    OBVIOUS
  <2>2. RecordCompletion("wait", arr, offs)
    BY <1>4 DEF RecordWait
  <2> QED BY <2>1, <2>2, WaitInPlace
<1>5. ASSUME NEW arr \in Arrays, RecordWaitall(arr) PROVE AllInPlace'
  <2>1. PICK N \in 1..MaxList : arr \in [1..N -> Handles \cup {NullReq}]
    BY <1>5 DEF Arrays
  <2> DEFINE offs == [i \in DOMAIN arr |-> LookupOffsetBack(rec, arr[i])]
  <2>2. DOMAIN offs = 1..N /\ \A i \in 1..N : offs[i] = LookupOffsetBack(rec, arr[i])
    BY <2>1
  <2>3. RecordCompletion("waitall", arr, offs)
    BY <1>5 DEF RecordWaitall
  <2>4. N \in Nat
    BY BoundsAssumption
  <2> HIDE DEF offs
  <2> QED BY <2>1, <2>2, <2>3, <2>4, WaitInPlace
<1>6. CASE RecordFinalize \/ Ended \/ UNCHANGED vars
  <2>1. UNCHANGED recVars
    BY <1>6 DEF RecordFinalize, Ended, vars, recVars
  <2> QED BY <1>1, <1>2, <2>1 DEF LossInv
<1>7. CASE Replay
  <2>1. UNCHANGED recVars
    BY <1>7 DEF Replay, ReplayPost, ReplayWait, ReplayWaitall, ReplayCompletion, ReplayFinalize
  <2> QED BY <1>1, <1>2, <2>1 DEF LossInv
<1> QED BY <1>1, <1>3, <1>4, <1>5, <1>6, <1>7 DEF LossInv, Next, Record

\* A request is lost to the trace only when as many others as the ring has
\* slots (REQ_BUF_SIZE) were posted after it, for every ring size and whatever
\* handles MPI reuses.
THEOREM RequestsLostByOverflowOnly == Spec => []LostOnlyByOverflow
<1>1. Init => LossInv
  BY InitIInv DEF Init, LossInv, AllInPlace
<1>2. LossInv => LostOnlyByOverflow
  BY DEF LossInv, AllInPlace, InPlace, LostOnlyByOverflow, Holds, PostedSince, IsPost
<1> QED BY <1>1, <1>2, StepLoss, PTL DEF Spec
=============================================================================
