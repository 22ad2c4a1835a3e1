---------------------------- MODULE HistoReplay ----------------------------
(***************************************************************************)
(* The probabilistic replay (HISTO_REPLAY=y).  Every rank reads the whole   *)
(* merged trace.  It replays its own sends; the receives it makes are not   *)
(* those of the trace but those the traces of the other ranks call for: a   *)
(* context per sender finds the next send to this rank, draws random        *)
(* destinations as the sender does, and a queue ordered by the simulated    *)
(* time of the sends says when to post the receive.  Receives are posted    *)
(* at receive calls, inside the busy wait that simulates computation, and   *)
(* at the end.  Tags count the messages of a pair of ranks on both sides.   *)
(***************************************************************************)
EXTENDS Integers, Sequences, FiniteSets

CONSTANTS
  Size,       \* my_size
  Jobs,       \* the traces replayed, with what MPI and rand_r will do
  Limit,      \* dest_limit, RAND_DEST of the Makefile
  TestEvery,  \* how many waits there are for one test of the queue
  MaxTime     \* bound on the time that is read

Ranks == 0..(Size - 1)
World == 1
SendOps == {"send", "isend"}
RecvOps == {"recv", "irecv"}
TestedOps == {"send", "recv", "wait"}
Infinity == MaxTime + 1
NoBuffer == [kind |-> "none"]
Shared == [kind |-> "shared"]

ASSUME SizeAssumption == Size \in Nat \ {0}
ASSUME BoundsAssumption == Limit \in Nat \ {0} /\ TestEvery \in Nat \ {0} /\ MaxTime \in Nat

TraceCalls ==
  [op : SendOps \cup RecvOps \cup {"wait", "comm", "collective"}, comm : Nat,
   dests : Seq(Int) \ {<<>>}, lossy : BOOLEAN, time : 0..MaxTime, computes : BOOLEAN]

\* A trace has a time for every call, never one before the last; no rank is
\* twice in a communicator; rand_r always has another number.
ASSUME JobsAssumption ==
  \A j \in Jobs :
    /\ j.calls \in [Ranks -> Seq(TraceCalls)] /\ j.eager \in BOOLEAN /\ j.prealloc \in BOOLEAN
    /\ \A r \in Ranks :
         /\ \A k, l \in DOMAIN j.calls[r] : k <= l => j.calls[r][k].time <= j.calls[r][l].time
         /\ World \in DOMAIN j.groups[r] /\ j.groups[r][World] = [i \in 1..Size |-> i - 1]
         /\ \A c \in DOMAIN j.groups[r] : /\ j.groups[r][c] \in Seq(Ranks)
                                           /\ \A i, l \in DOMAIN j.groups[r][c] :
                                                j.groups[r][c][i] = j.groups[r][c][l] => i = l
         /\ j.rands[r] \in Seq(Nat) /\ Len(j.rands[r]) >= Len(j.calls[r])

\* Communicators that two ranks have under one index have the same members: no
\* assumption, since MPI_Comm_split into several communicators breaks it.
AgreeOnGroups ==
  \A j \in Jobs : \A r, q \in Ranks : \A c \in DOMAIN j.groups[r] \cap DOMAIN j.groups[q] :
    j.groups[r][c] = j.groups[q][c]

VARIABLES
  job,       \* calls, groups and random numbers of every rank; what MPI does
  stage,     \* what the rank is doing
  why,       \* what a rank in postRecvs posts receives for
  at,        \* the call of its own trace a rank replays
  dests,     \* destSet
  peers,     \* srcSet, the ranks it has contexts of
  read,      \* how many calls each of these contexts has read
  rtags, stags,
  tag,       \* the tag of the send being replayed
  clock,     \* the time read last, Infinity once the timer is reset
  pending,   \* pending_recvs
  requests,  \* HandleQueue::requests
  buffers,   \* HandleQueue::buffers
  freed,     \* the buffers given back, for each rank
  sent,      \* messages given to MPI
  posted,    \* receives given to MPI
  matched,   \* pairs of a message and the receive it went into
  buffered   \* messages MPI has taken a copy of
callVars == <<job, at, dests, peers, stags, tag>>
contextVars == <<read, rtags>>
recvVars == <<why, clock, pending, contextVars>>
queueVars == <<requests, buffers, freed>>
mpiVars == <<sent, posted, matched, buffered>>
vars == <<callVars, stage, recvVars, queueVars, mpiVars>>

-----------------------------------------------------------------------------
\* Mutant of TranslateRank: rank 0 is taken for none.
TranslateNoZero(viewer, rank, in, out) ==
  LET groups == job.groups[viewer]
  IN  IF in = out THEN {rank}
      ELSE {q \in 0..(Size - 1) :
              /\ {in, out} \subseteq DOMAIN groups
              /\ rank \in 1..(Len(groups[in]) - 1) /\ q < Len(groups[out])
              /\ groups[out][q + 1] = groups[in][rank + 1]}

\* MPI_Group_translate_ranks, in the groups the viewer has under these
\* indices: the result as a set, empty when there is none.
TranslateRank(viewer, rank, in, out) ==
  LET groups == job.groups[viewer]
  IN  IF in = out THEN {rank}
      ELSE {q \in 0..(Size - 1) :
              /\ {in, out} \subseteq DOMAIN groups
              /\ rank < Len(groups[in]) /\ q < Len(groups[out])
              /\ groups[out][q + 1] = groups[in][rank + 1]}

\* RandMnger::getRandomValue: a value of the histogram, or once Limit of them
\* were drawn one of these.
GetRandomValue(m, values) ==
  LET r == job.rands[m.seed][m.drawn + 1]
      full == Len(m.seen) >= Limit
      value == IF full THEN m.seen[(r % Limit) + 1] ELSE values[(r % Len(values)) + 1]
  IN  [m EXCEPT !.drawn = @ + 1,
                !.dest = value,
                !.seen = IF \E i \in DOMAIN @ : @[i] = value THEN @ ELSE Append(@, value)]

\* Mutant of PeerSeed: contexts draw as the rank they belong to.
PeerSeedOwn(viewer, rank) == viewer

\* setupPeerContexts: the seed of the context that the viewer has of a rank.
PeerSeed(viewer, rank) == rank

\* The destination of the next call, if it is a send.
NextDraw(m, call) ==
  IF call.op \notin SendOps THEN m
  ELSE IF call.lossy THEN GetRandomValue(m, call.dests)
  ELSE [m EXCEPT !.dest = call.dests[1]]

\* What the context of a rank has drawn after each of its calls.
Drawn(viewer, rank) ==
  LET draw[k \in 0..Len(job.calls[rank])] ==
        IF k = 0
        THEN [seed |-> PeerSeed(viewer, rank), drawn |-> 0, seen |-> <<>>, dest |-> 0]
        ELSE NextDraw(draw[k - 1], job.calls[rank][k])
  IN  draw

SendCalls(rank) == {k \in DOMAIN job.calls[rank] : job.calls[rank][k].op \in SendOps}

\* The destination of a send, decoded, in the send's communicator.
LocalDest(viewer, rank, k) == (Drawn(viewer, rank)[k].dest + rank) % Size

\* The destination as a rank of MPI_COMM_WORLD, as the viewer sees it.
WorldDest(viewer, rank, k) ==
  TranslateRank(viewer, LocalDest(viewer, rank, k), job.calls[rank][k].comm, World)

-----------------------------------------------------------------------------
\* getNextSendForRank: the call at which the scan of the rank's trace stops, a
\* send to the viewer or one whose destination cannot be translated.
Stops(viewer, rank) ==
  LET ahead == {k \in SendCalls(rank) : /\ k > read[viewer][rank]
                                        /\ WorldDest(viewer, rank, k) \in {{}, {viewer}}}
  IN  {k \in ahead : \A j \in ahead : k <= j}

ScanFails(viewer, rank) == \E k \in Stops(viewer, rank) : WorldDest(viewer, rank, k) = {}

NextSends(viewer, rank) ==
  {[time |-> job.calls[rank][k].time, src |-> rank, tag |-> rtags[viewer][rank],
    comm |-> job.calls[rank][k].comm, event |-> k] : k \in Stops(viewer, rank)}

\* Mutant of Scan: the tags of a sender are not counted.
ScanSameTag(viewer, ranks) ==
  /\ read' = [read EXCEPT ![viewer] = [s \in DOMAIN @ |->
        IF s \notin ranks THEN @[s]
        ELSE IF Stops(viewer, s) = {} THEN Len(job.calls[s])
        ELSE CHOOSE k \in Stops(viewer, s) : TRUE]]
  /\ UNCHANGED rtags

\* The contexts of these ranks each look for their next send.
Scan(viewer, ranks) ==
  /\ read' = [read EXCEPT ![viewer] = [s \in DOMAIN @ |->
        IF s \notin ranks THEN @[s]
        ELSE IF Stops(viewer, s) = {} THEN Len(job.calls[s])
        ELSE CHOOSE k \in Stops(viewer, s) : TRUE]]
  /\ rtags' = [rtags EXCEPT ![viewer] = [s \in DOMAIN @ |->
        IF s \in ranks /\ Stops(viewer, s) # {} THEN @[s] + 1 ELSE @[s]]]

NoSend(rank) == [time |-> -1, src |-> rank, tag |-> 0, comm |-> 0, event |-> 0]

\* CompareSendinfo reads both infos it compares: a NULL may only be alone.
Ordered(infos) == Cardinality(infos) > 1 => \A i \in infos : i.event # 0

GoTo(r, s) == stage' = [stage EXCEPT ![r] = s]

-----------------------------------------------------------------------------
Init ==
  /\ job \in Jobs
  /\ stage = [r \in Ranks |-> "setup"]
  /\ why = [r \in Ranks |-> "none"]
  /\ at = [r \in Ranks |-> 1]
  /\ dests = [r \in Ranks |-> {}]
  /\ peers = [r \in Ranks |-> {}]
  /\ read = [r \in Ranks |-> [s \in Ranks |-> 0]]
  /\ rtags = [r \in Ranks |-> [s \in Ranks |-> 0]]
  /\ stags = [r \in Ranks |-> [s \in Ranks |-> 0]]
  /\ tag = [r \in Ranks |-> 0]
  /\ clock = [r \in Ranks |-> 0]
  /\ pending = [r \in Ranks |-> {}]
  /\ requests = [r \in Ranks |-> <<>>]
  /\ buffers = [r \in Ranks |-> <<>>]
  /\ freed = [r \in Ranks |-> {}]
  /\ sent = {}
  /\ posted = {}
  /\ matched = {}
  /\ buffered = {}

\* setupDestSet.
SetupDestSet(r) ==
  /\ stage[r] = "setup"
  /\ IF \E k \in SendCalls(r) : WorldDest(r, r, k) = {}
     THEN GoTo(r, "exit") /\ UNCHANGED dests
     ELSE /\ GoTo(r, "notify")
          /\ dests' = [dests EXCEPT ![r] = (UNION {WorldDest(r, r, k) : k \in SendCalls(r)}) \ {r}]
  /\ UNCHANGED <<recvVars, job, at, peers, stags, tag, queueVars, mpiVars>>

\* notifyPeers, setupPeerContexts and the barrier after them.
NotifyPeers ==
  /\ \A r \in Ranks : stage[r] = "notify"
  /\ stage' = [r \in Ranks |-> "init"]
  /\ peers' = [r \in Ranks |-> {s \in Ranks : r \in dests[s]}]
  /\ UNCHANGED <<recvVars, job, at, dests, stags, tag, queueVars, mpiVars>>

\* MPI_Init of the trace.
ReplayInit(r) ==
  /\ stage[r] = "init"
  /\ pending' = [pending EXCEPT ![r] = UNION {
        IF Stops(r, s) = {} THEN {NoSend(s)} ELSE NextSends(r, s) : s \in peers[r]}]
  /\ Scan(r, peers[r])
  /\ GoTo(r, IF (\E s \in peers[r] : ScanFails(r, s)) \/ ~Ordered(pending'[r])
             THEN "exit" ELSE "ready")
  /\ UNCHANGED <<callVars, why, clock, queueVars, mpiVars>>

-----------------------------------------------------------------------------
\* The rank is about to replay a call of one of these kinds.
Call(r) == job.calls[r][at[r]]
Replays(r, ops) == stage[r] = "ready" /\ at[r] <= Len(job.calls[r]) /\ Call(r).op \in ops

\* postRecvs reads the time once, before its loop.
StartPosting(r, reason, total) ==
  /\ GoTo(r, "posting")
  /\ why' = [why EXCEPT ![r] = reason]
  /\ clock' = [clock EXCEPT ![r] = total]

\* MPI_Send, MPI_Isend: the tag is taken before the computation.
BeginSend(r) ==
  /\ Replays(r, SendOps)
  /\ \E d \in WorldDest(r, r, at[r]) :
       /\ tag' = [tag EXCEPT ![r] = stags[r][d]]
       /\ stags' = [stags EXCEPT ![r][d] = @ + 1]
  /\ GoTo(r, "compute")
  /\ UNCHANGED <<recvVars, job, at, dests, peers, queueVars, mpiVars>>

\* MPI_Recv, MPI_Irecv.
BeginRecv(r) ==
  /\ Replays(r, RecvOps)
  /\ \E total \in clock[r]..MaxTime : StartPosting(r, "recv", total)
  /\ UNCHANGED <<callVars, contextVars, pending, queueVars, mpiVars>>

\* Requests that MPI_Test finds complete.
Complete(q) ==
  CASE q.kind = "send" -> q.msg \in buffered \/ \E m \in matched : m[1] = q.msg
    [] q.kind = "recv" -> \E m \in matched : m[2] = q.msg

\* The subsequence at the indices of a set.
Keep(s, kept) ==
  LET place(k) == Cardinality({i \in kept : i <= k})
  IN  [n \in 1..Cardinality(kept) |-> s[CHOOSE k \in kept : place(k) = n]]

\* Mutant of TestCompletion: the buffer stays in its vector.
TestRequestsOnly(r) ==
  LET incomplete == {i \in DOMAIN requests[r] : ~Complete(requests[r][i])}
  IN  /\ requests' = [requests EXCEPT ![r] = Keep(@, incomplete)]
      /\ freed' = [freed EXCEPT ![r] =
           @ \cup ({buffers[r][i] : i \in DOMAIN buffers[r] \ incomplete} \ {NoBuffer})]
      /\ UNCHANGED buffers

\* Mutant of TestCompletion: every request is taken out, its buffer freed.
TestAll(r) ==
  /\ requests' = [requests EXCEPT ![r] = <<>>]
  /\ buffers' = [buffers EXCEPT ![r] = <<>>]
  /\ freed' = [freed EXCEPT ![r] = @ \cup ({buffers[r][i] : i \in DOMAIN buffers[r]} \ {NoBuffer})]

\* HandleQueue::testsingleCompletion.
TestCompletion(r) ==
  LET incomplete == {i \in DOMAIN requests[r] : ~Complete(requests[r][i])}
  IN  /\ requests' = [requests EXCEPT ![r] = Keep(@, incomplete)]
      /\ buffers' = [buffers EXCEPT ![r] = Keep(@, incomplete)]
      /\ freed' = [freed EXCEPT ![r] =
           @ \cup ({buffers[r][i] : i \in DOMAIN buffers[r] \ incomplete} \ {NoBuffer})]

\* MPI_Wait, MPI_Waitall: only the computation before them, and now and then
\* a test of the queue.
BeginWait(r) ==
  /\ Replays(r, {"wait"})
  /\ IF Cardinality({k \in 1..(at[r] - 1) : job.calls[r][k].op = "wait"}) % TestEvery = 0
     THEN TestCompletion(r)
     ELSE UNCHANGED queueVars
  /\ GoTo(r, "compute")
  /\ UNCHANGED <<callVars, recvVars, mpiVars>>

\* Communicator operations and collectives.
BeginOther(r) ==
  /\ Replays(r, {"comm", "collective"})
  /\ GoTo(r, "compute")
  /\ UNCHANGED <<callVars, recvVars, queueVars, mpiVars>>

-----------------------------------------------------------------------------
\* Timer::simulateComputeTime.  Time may remain only before a call with a
\* computation: what is left over from earlier ones is never positive.  Then
\* the tester comes first,
TestBefore(r) ==
  /\ stage[r] = "compute"
  /\ Call(r).computes /\ Call(r).op \in TestedOps
  /\ TestCompletion(r)
  /\ GoTo(r, "tested")
  /\ UNCHANGED <<callVars, recvVars, mpiVars>>

\* then busyWait, whose rounds call recvHandler.
BusyRound(r) ==
  /\ \/ stage[r] \in {"tested", "busy"}
     \/ stage[r] = "compute" /\ Call(r).computes /\ Call(r).op \notin TestedOps
  /\ \E total \in clock[r]..MaxTime : StartPosting(r, "handler", total)
  /\ UNCHANGED <<callVars, contextVars, pending, queueVars, mpiVars>>

\* No time remains.
EndCompute(r) ==
  /\ stage[r] \in {"compute", "tested", "busy"}
  /\ GoTo(r, "act")
  /\ UNCHANGED <<callVars, recvVars, queueVars, mpiVars>>

-----------------------------------------------------------------------------
\* HandleQueue::add.
AddRequest(r, q) ==
  /\ requests' = [requests EXCEPT ![r] = Append(@, q)]
  /\ buffers' = [buffers EXCEPT ![r] = Append(@, IF job.prealloc THEN NoBuffer ELSE q)]
  /\ UNCHANGED freed

\* The communicator a rank has under an index; the one it is the same as on
\* another rank has the same members.
Communicator(r, index) == <<index, job.groups[r][index]>>

\* The process with a rank in that communicator.
Process(r, index, rank) == job.groups[r][index][rank + 1]

\* Mutant of Due: the heap's comparison is turned round.
DueLatest(r) ==
  {i \in pending[r] : /\ \A j \in pending[r] : i.time >= j.time
                      /\ i.time <= clock[r] /\ i.event # 0}

\* What postRecvs finds on top of the queue, when its time has come.
Due(r) ==
  {i \in pending[r] : /\ \A j \in pending[r] : i.time <= j.time
                      /\ i.time <= clock[r] /\ i.event # 0}

\* Mutant of Refetched: the handler's way is taken everywhere.
RefetchedNone(r, i) == {}

\* The contexts postRecvs asks for another send after it posted a receive.
Refetched(r, i) == IF why[r] # "handler" /\ i.src # r THEN {i.src} ELSE {}

\* One round of the loop of postRecvs.
PostRecv(r) ==
  /\ stage[r] = "posting"
  /\ \E i \in Due(r) :
       LET again == Refetched(r, i)
           src == TranslateRank(r, i.src, World, i.comm)
           msgs == {[src |-> Process(r, i.comm, q), dst |-> r, comm |-> Communicator(r, i.comm),
                     tag |-> i.tag, event |-> i.event] : q \in src}
       IN  IF src = {}
           THEN GoTo(r, "exit") /\ UNCHANGED <<contextVars, pending, queueVars, posted>>
           ELSE /\ posted' = posted \cup msgs
                /\ \E msg \in msgs : AddRequest(r, [kind |-> "recv", msg |-> msg])
                /\ pending' = [pending EXCEPT
                     ![r] = (@ \ {i}) \cup UNION {NextSends(r, s) : s \in again}]
                /\ Scan(r, again)
                /\ GoTo(r, IF (\E s \in again : ScanFails(r, s)) \/ ~Ordered(pending'[r])
                           THEN "exit" ELSE "posting")
  /\ UNCHANGED <<callVars, why, clock, sent, matched, buffered>>

\* The loop ends; recvHandler then has every context look for a send
\* (prepareRecvs).
EndPosting(r) ==
  /\ stage[r] = "posting"
  /\ Due(r) = {}
  /\ IF why[r] # "handler"
     THEN /\ GoTo(r, IF why[r] = "final" THEN "drain" ELSE "compute")
          /\ UNCHANGED <<contextVars, pending>>
     ELSE /\ pending' = [pending EXCEPT ![r] = @ \cup UNION {NextSends(r, s) : s \in peers[r]}]
          /\ Scan(r, peers[r])
          /\ GoTo(r, IF (\E s \in peers[r] : ScanFails(r, s)) \/ ~Ordered(pending'[r])
                     THEN "exit" ELSE "busy")
  /\ UNCHANGED <<callVars, why, clock, queueVars, mpiVars>>

-----------------------------------------------------------------------------
Next1(r) == at' = [at EXCEPT ![r] = @ + 1] /\ GoTo(r, "ready")

\* MPI_Isend, for both kinds of sends; a send to itself is received at once.
Send(r) ==
  /\ stage[r] = "act" /\ Call(r).op \in SendOps
  /\ \E d \in WorldDest(r, r, at[r]) :
       LET comm == Call(r).comm
           msg == [src |-> r, dst |-> Process(r, comm, LocalDest(r, r, at[r])),
                   comm |-> Communicator(r, comm), tag |-> tag[r], event |-> at[r]]
       IN  /\ sent' = sent \cup {msg}
           /\ AddRequest(r, [kind |-> "send", msg |-> msg])
           /\ pending' = [pending EXCEPT ![r] = @ \cup IF d # r THEN {} ELSE
                {[time |-> 0, src |-> r, tag |-> tag[r], comm |-> comm, event |-> at[r]]}]
  /\ IF Ordered(pending'[r]) THEN Next1(r) ELSE GoTo(r, "exit") /\ UNCHANGED at
  /\ UNCHANGED <<job, why, dests, peers, contextVars, stags, tag, clock, posted, matched, buffered>>

\* Receives, waits and communicator operations are not replayed themselves.
Pass(r) ==
  /\ stage[r] = "act" /\ Call(r).op \in RecvOps \cup {"wait", "comm"}
  /\ Next1(r)
  /\ UNCHANGED <<recvVars, job, dests, peers, stags, tag, queueVars, mpiVars>>

\* switch_event: a collective every rank takes part in.
Enter(r) ==
  /\ stage[r] = "act" /\ Call(r).op = "collective"
  /\ GoTo(r, "collective")
  /\ UNCHANGED <<callVars, recvVars, queueVars, mpiVars>>

Entered(r) ==
  Cardinality({k \in DOMAIN job.calls[r] : /\ job.calls[r][k].op = "collective"
                                           /\ k < at[r] \/ (k = at[r] /\ stage[r] = "collective")})

Leave(r) ==
  /\ stage[r] = "collective"
  /\ \A q \in Ranks : Entered(q) >= Entered(r)
  /\ Next1(r)
  /\ UNCHANGED <<recvVars, job, dests, peers, stags, tag, queueVars, mpiVars>>

\* MPI_Finalize of the trace: with the timer reset, every receive is due.
Finalize(r) ==
  /\ stage[r] = "ready" /\ at[r] = Len(job.calls[r]) + 1
  /\ StartPosting(r, "final", Infinity)
  /\ UNCHANGED <<callVars, contextVars, pending, queueVars, mpiVars>>

\* HandleQueue::~HandleQueue, one round of its loop that finds a request complete.
Drain(r) ==
  /\ stage[r] = "drain"
  /\ \E i \in DOMAIN requests[r] : Complete(requests[r][i])
  /\ TestCompletion(r)
  /\ UNCHANGED <<callVars, recvVars, stage, mpiVars>>

QueueEmpty(r) == requests[r] = <<>>

\* The end of the destructor.
Destroy(r) ==
  /\ stage[r] = "drain"
  /\ QueueEmpty(r)
  /\ freed' = [freed EXCEPT ![r] = @ \cup IF job.prealloc THEN {Shared} ELSE {}]
  /\ GoTo(r, "done")
  /\ UNCHANGED <<callVars, recvVars, requests, buffers, mpiVars>>

-----------------------------------------------------------------------------
\* MPI: a message goes into a receive with its envelope,
Match(m, n) ==
  /\ <<m.src, m.dst, m.comm, m.tag>> = <<n.src, n.dst, n.comm, n.tag>>
  /\ \A p \in matched : p[1] # m /\ p[2] # n
  /\ matched' = matched \cup {<<m, n>>}
  /\ UNCHANGED <<callVars, recvVars, stage, queueVars, sent, posted, buffered>>

\* or is copied first when MPI sends eagerly.
Copy(m) ==
  /\ job.eager
  /\ m \notin buffered
  /\ buffered' = buffered \cup {m}
  /\ UNCHANGED <<callVars, recvVars, stage, queueVars, sent, posted, matched>>

RankStep(r) ==
  \/ SetupDestSet(r) \/ ReplayInit(r)
  \/ BeginSend(r) \/ BeginRecv(r) \/ BeginWait(r) \/ BeginOther(r)
  \/ TestBefore(r) \/ BusyRound(r) \/ EndCompute(r)
  \/ PostRecv(r) \/ EndPosting(r)
  \/ Send(r) \/ Pass(r) \/ Enter(r) \/ Leave(r)
  \/ Finalize(r) \/ Drain(r) \/ Destroy(r)

MPIStep ==
  \/ \E m \in sent : Copy(m)
  \/ \E m \in sent, n \in posted : Match(m, n)

Next == NotifyPeers \/ (\E r \in Ranks : RankStep(r)) \/ MPIStep

\* Every process runs, MPI delivers, and a busy wait ends because the time it
\* waits for passes.
Fairness ==
  /\ WF_vars(NotifyPeers)
  /\ \A r \in Ranks : WF_vars(RankStep(r)) /\ SF_vars(EndCompute(r))
  /\ WF_vars(MPIStep)

Spec == Init /\ [][Next]_vars
FairSpec == Spec /\ Fairness
-----------------------------------------------------------------------------
(***************************************************************************)
(* Properties.                                                             *)
(***************************************************************************)

Messages == [src : Ranks, dst : Ranks, comm : Nat \X Seq(Ranks), tag : Nat, event : Nat \ {0}]
Requests == [kind : {"send", "recv"}, msg : Messages]

\* The state has its types, and a buffer is kept for every request: the two
\* vectors of the handle queue are erased in step.
TypeOK ==
  /\ stage \in [Ranks -> {"setup", "notify", "init", "ready", "compute", "tested", "busy",
                         "posting", "act", "collective", "drain", "done", "exit"}]
  /\ why \in [Ranks -> {"none", "recv", "handler", "final"}]
  /\ \A r \in Ranks : at[r] \in 1..(Len(job.calls[r]) + 1)
  /\ dests \in [Ranks -> SUBSET Ranks] /\ peers \in [Ranks -> SUBSET Ranks]
  /\ \A r, s \in Ranks : read[r][s] \in 0..Len(job.calls[s])
  /\ rtags \in [Ranks -> [Ranks -> Nat]] /\ stags \in [Ranks -> [Ranks -> Nat]]
  /\ tag \in [Ranks -> Nat] /\ clock \in [Ranks -> 0..Infinity]
  /\ \A r \in Ranks : \A i \in pending[r] : i.src \in Ranks
  /\ sent \subseteq Messages /\ posted \subseteq Messages
  /\ matched \subseteq sent \X posted /\ buffered \subseteq sent
  /\ \A r \in Ranks : /\ requests[r] \in Seq(Requests)
                      /\ Len(buffers[r]) = Len(requests[r])
                      /\ \A i \in DOMAIN requests[r] : buffers[r][i] \in {NoBuffer, requests[r][i]}

\* The sends to a rank that a context of it has to find.
SendsTo(viewer, rank) ==
  {k \in SendCalls(rank) : WorldDest(rank, rank, k) = {viewer}}

\* Where postRecvs has caught up with the clock, a receive is posted for every
\* send to this rank whose time has come, and at the end for every send: no
\* sender is forgotten, whichever of the three places posted its receives.
DuePosted ==
  \A r \in Ranks :
    \/ stage[r] \in {"drain", "done"}
    \/ stage[r] = "compute" /\ Call(r).op \in RecvOps
    => \A s \in peers[r] : \A k \in SendsTo(r, s) :
         job.calls[s][k].time <= clock[r] =>
           \E n \in posted : n.src = s /\ n.dst = r /\ n.event = k

\* A message goes into the receive posted for it.  Both sides only count
\* messages to number them, the receiver from its reading of the sender's
\* trace and in the order of simulated times.
ReceivesMatch == \A p \in matched : p[1].event = p[2].event

\* No buffer is given back while MPI may still read or fill it.
BuffersSafe ==
  \A r \in Ranks :
    LET given == {[kind |-> "send", msg |-> m] : m \in {x \in sent : x.src = r}}
             \cup {[kind |-> "recv", msg |-> m] : m \in {x \in posted : x.dst = r}}
    IN  \A q \in given : Complete(q) \/ (freed[r] \cap {Shared, q}) = {}

\* The replay applies to the trace: no rank gives up because it cannot
\* translate a rank or finds no send of a rank that announced one.
Applicable == \A r \in Ranks : stage[r] # "exit"

\* Every rank ends its replay, the destructor of the handle queue included,
\* which tests until the last request is complete.
ReplayEnds == <>(\A r \in Ranks : stage[r] = "done")
=============================================================================
