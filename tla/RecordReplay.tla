---------------------------- MODULE RecordReplay ----------------------------
(***************************************************************************)
(* One rank of a traced run and the deterministic replay of its trace, as  *)
(* far as requests go.  The recording wrappers of MPI_Isend, MPI_Irecv,    *)
(* MPI_Wait and MPI_Waitall (record/libsrc/mpi-spec.umpi.extract) keep the *)
(* handles MPI returns in a RequestRing and write offsets into the trace;  *)
(* replay_Isend, replay_Irecv, replay_Wait and replay_Waitall              *)
(* (replay/op_exec.C) rebuild the ring from the trace, resolve the offsets *)
(* in it, and manage a BufferRing alongside.                               *)
(*                                                                         *)
(* MPI is external: it gives a posted request any handle that names no     *)
(* outstanding request, so handles are reused; a wait returns when the     *)
(* requests are complete and sets the application's variables to           *)
(* MPI_REQUEST_NULL.  The handles of the replaying library are identified  *)
(* with the number, in the trace, of the event that posted them.           *)
(***************************************************************************)
EXTENDS BufferRing, Naturals, Sequences, FiniteSets

CONSTANTS
  Handles,    \* the values MPI_Request can have in the recorded run
  MaxCalls,   \* bound: events after which only outstanding requests are waited for
  MaxList     \* bound: length of the array given to MPI_Waitall

ASSUME HandlesAssumption == NullReq \notin Handles \cup Nat
ASSUME BoundsAssumption == MaxCalls \in Nat /\ MaxList \in Nat \ {0}

VARIABLES
  phase,     \* "record", "replay", "done"; "aborted" is an exit() of the tracer or replayer
  rec,       \* record_req, the tracer's ring
  live,      \* external: handle |-> number of the event that posted it, 0 if unused
  trace,     \* the events of the rank, in order
  pos,       \* how many of them have been replayed
  rep,       \* replay_req, the replayer's ring
  mem,       \* mem_array, the replayer's buffers
  inflight,  \* external: requests of the replay that MPI has not completed
  freed,     \* buffers given back to free()
  repLog     \* history: the calls the replay made, with the requests it passed

vars == <<phase, rec, live, trace, pos, rep, mem, inflight, freed, repLog>>
recVars == <<rec, live, trace>>
repVars == <<pos, rep, mem, inflight, freed, repLog>>

(***************************************************************************)
(* An event of the trace.  The trace file has op and offs; at (the ring    *)
(* cursor when the event began) and tgt (the numbers of the posting events *)
(* of the requests waited for, 0 for MPI_REQUEST_NULL) are history.        *)
(***************************************************************************)
Event(op, offs, tgt) == [op |-> op, offs |-> offs, at |-> rec.cur, tgt |-> tgt]

Init ==
  /\ phase = "record"
  /\ rec = EmptyRing
  /\ live = [h \in Handles |-> 0]
  /\ trace = <<>>
  /\ pos = 0
  /\ rep = EmptyRing
  /\ mem = EmptyRing
  /\ inflight = {}
  /\ freed = {}
  /\ repLog = <<>>

-----------------------------------------------------------------------------
(***************************************************************************)
(* The recorded application.                                               *)
(***************************************************************************)

\* MPI_Isend, MPI_Irecv: the event is appended, then the handle is stored.
RecordPost(h) ==
  /\ phase = "record" /\ Len(trace) < MaxCalls
  /\ live[h] = 0
  /\ trace' = Append(trace, Event("post", <<>>, <<>>))
  /\ rec' = AddEntry(rec, h)
  /\ live' = [live EXCEPT ![h] = Len(trace) + 1]
  /\ UNCHANGED <<phase, repVars>>

\* What a program may hand to a wait: request variables that are MPI_REQUEST_NULL
\* or hold distinct outstanding requests.
Waitable(arr) ==
  /\ \A i \in DOMAIN arr : arr[i] # NullReq => live[arr[i]] # 0
  /\ \A i, k \in DOMAIN arr : arr[i] = arr[k] /\ arr[i] # NullReq => i = k
  /\ Len(trace) < MaxCalls \/ \E i \in DOMAIN arr : arr[i] # NullReq

Targets(arr) == [i \in DOMAIN arr |-> IF arr[i] = NullReq THEN 0 ELSE live[arr[i]]]

\* What the wrapper of a wait on arr leaves: the event with the offsets it looked
\* up, the slots of the completed requests reset.
RecordEffect(op, arr, offs) ==
  /\ trace' = Append(trace, Event(op, offs, Targets(arr)))
  /\ rec' = ResetOffsets(rec, {offs[i] : i \in DOMAIN offs})
  /\ live' = [h \in Handles |-> IF \E i \in DOMAIN arr : arr[i] = h THEN 0 ELSE live[h]]

\* The wrapper looks the offsets up before the call: a handle that is not in the
\* ring ends the run.
RecordCompletion(op, arr, offs) ==
  /\ phase = "record" /\ Waitable(arr)
  /\ IF \E i \in DOMAIN arr : arr[i] # NullReq /\ ~ Holds(rec, arr[i])
     THEN phase' = "aborted" /\ UNCHANGED recVars
     ELSE RecordEffect(op, arr, offs) /\ UNCHANGED phase
  /\ UNCHANGED repVars

RecordWait(h) == RecordCompletion("wait", <<h>>, <<LookupOffset(rec, h)>>)

RecordWaitall(arr) ==
  RecordCompletion("waitall", arr, [i \in DOMAIN arr |-> LookupOffsetBack(rec, arr[i])])

\* MPI_Finalize, which a program calls when all its requests are complete.
RecordFinalize ==
  /\ phase = "record"
  /\ \A h \in Handles : live[h] = 0
  /\ phase' = "replay"
  /\ UNCHANGED <<recVars, repVars>>

\* MPI_Waitany, MPI_Waitsome, MPI_Test, ... and MPI_Request_free complete a request
\* too, but the bodies of their wrappers are commented out: nothing is recorded.
UntracedCompletion(h) ==
  /\ phase = "record"
  /\ live[h] # 0
  /\ live' = [live EXCEPT ![h] = 0]
  /\ UNCHANGED <<phase, rec, trace, repVars>>

-----------------------------------------------------------------------------
(***************************************************************************)
(* The replay of the trace, event by event.                                *)
(***************************************************************************)
Current == trace[pos + 1]

Replaying(op) == phase = "replay" /\ pos < Len(trace) /\ Current.op = op

\* replay_Isend, replay_Irecv
ReplayPost ==
  /\ Replaying("post")
  /\ freed' = freed \cup FreedByAdd(mem)
  /\ mem' = AddMem(mem, pos + 1)
  /\ rep' = AddEntry(rep, pos + 1)
  /\ inflight' = inflight \cup {pos + 1}
  /\ repLog' = Append(repLog, [op |-> "post", tgt |-> <<>>])
  /\ pos' = pos + 1
  /\ UNCHANGED <<phase, recVars>>

Used(requests) == {requests[i] : i \in DOMAIN requests} \ {NullReq}

\* The common part of replay_Wait and replay_Waitall: an offset that names an
\* empty slot ends the replay; else the call completes its requests and their
\* buffers are freed.
ReplayCompletion(op, requests, ring) ==
  LET offs == Current.offs
      offsets == {offs[i] : i \in DOMAIN offs}
  IN  /\ Replaying(op)
      /\ IF \E i \in DOMAIN offs : offs[i] # NoOffset /\ requests[i] = NullReq
         THEN phase' = "aborted" /\ UNCHANGED repVars
         ELSE /\ freed' = freed \cup FreedByEntries(mem, offsets)
              /\ mem' = FreeEntries(mem, offsets)
              /\ rep' = ring
              /\ inflight' = inflight \ Used(requests)
              /\ repLog' = Append(repLog, [op |-> op, tgt |->
                   [i \in DOMAIN requests |->
                      IF requests[i] = NullReq THEN 0 ELSE requests[i]]])
              /\ pos' = pos + 1
              /\ UNCHANGED phase
      /\ UNCHANGED recVars

\* replay_Wait leaves the entry in the ring.
ReplayWait == ReplayCompletion("wait", <<LookupRequest(rep, Current.offs[1])>>, rep)

\* replay_Waitall takes the entries out (lookup_requestlist).
ReplayWaitall ==
  ReplayCompletion("waitall", LookupRequestList(rep, Current.offs),
    ResetOffsets(rep, {Current.offs[i] : i \in DOMAIN Current.offs}))

\* The MPI_Finalize at the end of the trace: finalize_mem frees what is left.
ReplayFinalize ==
  /\ phase = "replay" /\ pos = Len(trace)
  /\ freed' = freed \cup FreedAtEnd(mem)
  /\ mem' = [buf |-> EmptyRing.buf, cur |-> mem.cur]
  /\ phase' = "done"
  /\ UNCHANGED <<recVars, pos, rep, inflight, repLog>>

Ended == phase \in {"done", "aborted"} /\ UNCHANGED vars

-----------------------------------------------------------------------------
Arrays == UNION {[1..n -> Handles \cup {NullReq}] : n \in 1..MaxList}

Record ==
  \/ \E h \in Handles : RecordPost(h)
  \/ \E h \in Handles \cup {NullReq} : RecordWait(h)
  \/ \E arr \in Arrays : RecordWaitall(arr)
  \/ RecordFinalize

Replay == ReplayPost \/ ReplayWait \/ ReplayWaitall \/ ReplayFinalize

Next == Record \/ Replay \/ Ended

\* The replayer is a sequential program that MPI lets proceed (its waits return).
Spec == Init /\ [][Next]_vars /\ WF_vars(Replay)

\* The same with completion calls the tracer does not record.
NextUntraced == Next \/ \E h \in Handles : UntracedCompletion(h)
SpecUntraced == Init /\ [][NextUntraced]_vars /\ WF_vars(Replay)

-----------------------------------------------------------------------------
Phases == {"record", "replay", "done", "aborted"}
Ops == {"post", "wait", "waitall"}
Events == [op : Ops, offs : Seq(Slots \cup {NoOffset}), at : Slots, tgt : Seq(Nat)]

\* Types of all variables.
TypeOK ==
  /\ phase \in Phases
  /\ rec \in [buf : [Slots -> Handles \cup {NullReq}], cur : Slots]
  /\ live \in [Handles -> Nat]
  /\ trace \in Seq(Events)
  /\ pos \in 0 .. Len(trace)
  /\ rep \in [buf : [Slots -> Nat \cup {NullReq}], cur : Slots]
  /\ mem \in [buf : [Slots -> Nat \cup {NullReq}], cur : Slots]
  /\ inflight \subseteq Nat
  /\ freed \subseteq Nat
  /\ repLog \in Seq([op : Ops, tgt : Seq(Nat)])

IsPost(i) == trace[i].op = "post"

\* The k-th offset of event i names request j: the slot of j, relative to the
\* cursor of event i, which no request posted between j and i took over.
NamesRequest(i, k, j) ==
  IF j = 0 THEN trace[i].offs[k] = NoOffset
  ELSE /\ j < i /\ IsPost(j)
       /\ trace[i].offs[k] # NoOffset
       /\ (trace[i].at + trace[i].offs[k]) % Size = trace[j].at
       /\ \A m \in j+1 .. i-1 : IsPost(m) => trace[m].at # trace[j].at

(***************************************************************************)
(* Every offset of the trace names the request the application waited for, *)
(* and still does when that slot was reused before or after: when the ring *)
(* is too small for what a program keeps outstanding the tracer exits, it  *)
(* never records a wrong offset (lookup_offset, lookup_offsetlist,         *)
(* reset_offset).                                                          *)
(***************************************************************************)
OffsetsNameTheirRequest ==
  \A i \in 1..Len(trace) : \A k \in DOMAIN trace[i].tgt :
    NamesRequest(i, k, trace[i].tgt[k])

\* The ring and the buffer array of the replayer stay in step with each other
\* and with the ring the tracer had at the same point of the trace.
CursorsInStep ==
  /\ rep.cur = mem.cur
  /\ pos < Len(trace) => rep.cur = Current.at

\* A message buffer is never freed while MPI may still use it: not by
\* add_mem_entry when the array wraps, not by the wait of another request.
NoBufferFreedInFlight == freed \cap inflight = {}

\* free() is never called twice on a buffer: what the array still holds was not
\* freed, and it holds no buffer twice.
NoDoubleFree ==
  \A s \in Slots : mem.buf[s] # NullReq =>
    /\ mem.buf[s] \notin freed
    /\ \A t \in Slots : mem.buf[t] = mem.buf[s] => t = s

\* When the replay is over every request it posted is complete and every buffer freed.
AllReclaimed ==
  phase = "done" => inflight = {} /\ freed = {j \in DOMAIN trace : IsPost(j)}

\* The tracer loses an outstanding request, and exits when it is waited for, only
\* when Size requests were posted after it (add_request_entry wraps onto its slot).
LostOnlyByOverflow ==
  \A h \in Handles : live[h] # 0 /\ ~ Holds(rec, h) =>
    Cardinality({m \in live[h]+1 .. Len(trace) : IsPost(m)}) >= Size

\* No offset of a trace that was written makes lookup_request or
\* lookup_requestlist exit.
NoReplayExit == [][phase = "replay" => phase' # "aborted"]_vars

\* A trace that was written can be replayed to its end.
ReplayCompletes == (phase = "replay") ~> (phase = "done")

(***************************************************************************)
(* The replay makes the calls of the application on the same requests.     *)
(***************************************************************************)
Calls == [op : Ops, tgt : UNION {[1..n -> 0..MaxCalls] : n \in 0..MaxList}]

Log == INSTANCE CallLog WITH
  Calls <- Calls,
  recorded <- [i \in DOMAIN trace |-> [op |-> trace[i].op, tgt |-> trace[i].tgt]],
  replayed <- repLog

ReplayMakesRecordedCalls == Log!Spec

-----------------------------------------------------------------------------
(***************************************************************************)
(* The inductive invariant behind the safety properties above.             *)
(***************************************************************************)
Waited(j, n) == \E i \in 1..n : \E k \in DOMAIN trace[i].tgt : trace[i].tgt[k] = j

\* The ring cursor of the tracer after the first n events.
Cursor(n) == IF n = Len(trace) THEN rec.cur ELSE trace[n+1].at

CursorChain ==
  /\ Cursor(0) = 0
  /\ \A i \in 1..Len(trace) :
       Cursor(i) = IF IsPost(i) THEN Advance(trace[i].at) ELSE trace[i].at

EventShape ==
  \A i \in 1..Len(trace) :
    /\ trace[i].op = "post" => trace[i].tgt = <<>>
    /\ trace[i].op = "wait" => Len(trace[i].tgt) = 1
    /\ Len(trace[i].offs) = Len(trace[i].tgt)

\* Outstanding requests have events of their own and were not waited for.
LiveRequests ==
  \A h \in Handles : live[h] # 0 =>
    /\ live[h] \in 1..Len(trace) /\ IsPost(live[h])
    /\ ~ Waited(live[h], Len(trace))
    /\ \A g \in Handles : live[g] = live[h] => g = h

\* The ring holds outstanding requests only, each in the slot of its event.
RingOfLive ==
  \A s \in Slots : rec.buf[s] # NullReq =>
    LET j == live[rec.buf[s]] IN
      /\ j # 0
      /\ trace[j].at = s
      /\ \A m \in j+1 .. Len(trace) : IsPost(m) => trace[m].at # s

WaitedOnce ==
  \A i, m \in 1..Len(trace) : \A k \in DOMAIN trace[i].tgt, l \in DOMAIN trace[m].tgt :
    trace[i].tgt[k] = trace[m].tgt[l] /\ trace[i].tgt[k] # 0 => i = m /\ k = l

NoneForgotten ==
  \A j \in 1..Len(trace) : IsPost(j) =>
    Waited(j, Len(trace)) \/ \E h \in Handles : live[h] = j

RecordInv ==
  /\ CursorChain /\ EventShape /\ LiveRequests /\ RingOfLive
  /\ WaitedOnce /\ NoneForgotten /\ OffsetsNameTheirRequest

\* The replay has not begun, or the recording is complete; it never aborts.
PhaseInv ==
  /\ phase \in {"record", "aborted"} => pos = 0
  /\ phase \in {"replay", "done"} => \A h \in Handles : live[h] = 0
  /\ phase = "done" => pos = Len(trace)

\* What the replayer holds after pos events is a function of the trace.
ReplayInv ==
  /\ rep.cur = Cursor(pos) /\ mem.cur = Cursor(pos)
  /\ inflight = {j \in 1..pos : IsPost(j) /\ ~ Waited(j, pos)}
  /\ freed = {j \in 1..pos : IsPost(j) /\ Waited(j, pos)}
  /\ \A s \in Slots : mem.buf[s] # NullReq =>
       mem.buf[s] \in inflight /\ trace[mem.buf[s]].at = s
  /\ \A j \in inflight : mem.buf[trace[j].at] = j /\ rep.buf[trace[j].at] = j
  /\ repLog = [i \in 1..pos |-> [op |-> trace[i].op, tgt |-> trace[i].tgt]]

IInv == TypeOK /\ RecordInv /\ PhaseInv /\ ReplayInv
=============================================================================
