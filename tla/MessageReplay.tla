--------------------------- MODULE MessageReplay ---------------------------
(***************************************************************************)
(* All ranks of a job exchange messages while they are recorded, and again  *)
(* when the deterministic replay makes the calls of their traces.           *)
(*                                                                         *)
(* A call is [op, peer, tag, req]: "send", "isend", "recv" and "irecv" have *)
(* a peer and a tag, "wait" the number of the call whose request it waits   *)
(* for (module RecordReplay shows that a trace names it), a "collective"    *)
(* is one of all ranks.  Programs are as recorded: their control flow does  *)
(* not depend on what they receive.                                         *)
(***************************************************************************)
EXTENDS PeerCode, Sequences, FiniteSets

CONSTANTS
  Size,    \* number of ranks, my_size
  Jobs,    \* [calls: rank -> sequence, retain: BOOLEAN, eager: BOOLEAN]
  AnyTag   \* MPI_ANY_TAG

ASSUME ConstantsAssumption ==
  WildcardsOK /\ AnyTag \in Int /\ AnyTag < 0 /\ Size \in Nat \ {0} /\ Size < IntMax

Ranks == 0..(Size - 1)
SendOps == {"send", "isend"}
RecvOps == {"recv", "irecv"}
Calls == [op : SendOps \cup RecvOps \cup {"wait", "collective"}, peer : Int, tag : Int, req : Nat]

\* Programs name ranks or MPI_ANY_SOURCE, and wait for every receive they post.
ASSUME JobsAssumption ==
  \A j \in Jobs :
    /\ j.calls \in [Ranks -> Seq(Calls)] /\ j.retain \in BOOLEAN /\ j.eager \in BOOLEAN
    /\ \A r \in Ranks : \A n \in DOMAIN j.calls[r] :
         LET call == j.calls[r][n]
         IN  /\ call.op \in SendOps => call.peer \in Ranks
             /\ call.op \in RecvOps => call.peer \in Ranks \cup {AnySource}
             /\ call.op = "irecv" =>
                  \E k \in DOMAIN j.calls[r] : j.calls[r][k].op = "wait" /\ j.calls[r][k].req = n

VARIABLES
  job,       \* the programs; are tags retained, are sends eager
  phase,     \* "record" or "replay"
  trace,     \* rank -> events recorded
  at,        \* rank -> number of its next or current call
  inside,    \* rank -> it is in that call
  posted,    \* sends and receives posted
  matched,   \* pairs of a send and the receive its message went into
  recorded   \* the pairs of the recorded run
vars == <<job, phase, trace, at, inside, posted, matched, recorded>>

Init ==
  /\ job \in Jobs
  /\ phase = "record"
  /\ trace = [r \in Ranks |-> <<>>]
  /\ at = [r \in Ranks |-> 1]
  /\ inside = [r \in Ranks |-> FALSE]
  /\ posted = {}
  /\ matched = {}
  /\ recorded = {}

-----------------------------------------------------------------------------
(***************************************************************************)
(* MPI: messages of one sender to one receiver do not overtake each other.  *)
(***************************************************************************)

Id(p) == [rank |-> p.rank, n |-> p.n]
Fits(m, n) ==
  /\ m.op \in SendOps /\ n.op \in RecvOps
  /\ m.peer = n.rank /\ n.peer \in {m.rank, AnySource}
  /\ n.tag \in {m.tag, AnyTag}
Unmatched == {p \in posted : \A pair \in matched : Id(p) \notin {pair[1], pair[2]}}

\* A message goes into a receive it fits: no earlier message of its sender fits
\* that receive, and no earlier receive of the receiver fits the message.
Match(m, n) ==
  /\ Fits(m, n)
  /\ ~ \E p \in Unmatched : p.rank = m.rank /\ p.n < m.n /\ Fits(p, n)
  /\ ~ \E p \in Unmatched : p.rank = n.rank /\ p.n < n.n /\ Fits(m, p)
  /\ matched' = matched \cup {<<Id(m), Id(n)>>}
  /\ UNCHANGED <<job, phase, trace, at, inside, posted, recorded>>

Complete(r, n) ==
  \/ \E pair \in matched : [rank |-> r, n |-> n] \in {pair[1], pair[2]}
  \/ job.eager /\ job.calls[r][n].op \in SendOps

Collectives(r, limit) ==
  Cardinality({n \in DOMAIN job.calls[r] : n < limit /\ job.calls[r][n].op = "collective"})

\* A rank enters a call, and leaves it: a nonblocking one at once, a collective
\* when all ranks are in it.
Enter(r, call) ==
  /\ ~inside[r]
  /\ inside' = [inside EXCEPT ![r] = TRUE]
  /\ posted' = posted \cup
       IF call.op \in SendOps \cup RecvOps
       THEN {[rank |-> r, n |-> at[r], op |-> call.op, peer |-> call.peer, tag |-> call.tag]}
       ELSE {}
  /\ UNCHANGED <<at, matched>>

Leave(r, call) ==
  /\ inside[r]
  /\ CASE call.op \in {"isend", "irecv"} -> TRUE
       [] call.op \in {"send", "recv"} -> Complete(r, at[r])
       [] call.op = "wait" -> Complete(r, call.req)
       [] call.op = "collective" ->
            \A q \in Ranks :
              Collectives(q, IF inside[q] THEN at[q] + 1 ELSE at[q]) >= Collectives(r, at[r] + 1)
  /\ inside' = [inside EXCEPT ![r] = FALSE]
  /\ at' = [at EXCEPT ![r] = @ + 1]
  /\ UNCHANGED <<posted, matched>>

Over(r) == at[r] > Len(job.calls[r])
AllOver == \A r \in Ranks : Over(r)

-----------------------------------------------------------------------------
\* What the wrapper of a call records of it.
Event(r, call) ==
  [op |-> call.op, req |-> call.req,
   peer |-> Encode(IF call.op \in RecvOps THEN "source" ELSE "dest", call.peer, r, Size),
   tag |-> EncodeTag(call.tag, job.retain)]

\* A wrapper makes the call and then records it.
RecordEnter(r) ==
  /\ phase = "record" /\ ~Over(r)
  /\ Enter(r, job.calls[r][at[r]])
  /\ UNCHANGED <<job, phase, trace, recorded>>

RecordLeave(r) ==
  /\ phase = "record" /\ ~Over(r)
  /\ Leave(r, job.calls[r][at[r]])
  /\ trace' = [trace EXCEPT ![r] = Append(@, Event(r, job.calls[r][at[r]]))]
  /\ UNCHANGED <<job, phase, recorded>>

\* The program has ended; the replay starts.
StartReplay ==
  /\ phase = "record" /\ AllOver
  /\ phase' = "replay"
  /\ recorded' = matched
  /\ at' = [r \in Ranks |-> 1]
  /\ posted' = {} /\ matched' = {}
  /\ UNCHANGED <<job, trace, inside>>

\* The call the replay makes of an event.
ReplayedCall(r, e) ==
  [op |-> e.op, req |-> e.req,
   peer |-> Decode(IF e.op \in RecvOps THEN "source" ELSE "dest", e.peer, r, Size),
   tag |-> e.tag]

ReplayEnter(r) ==
  /\ phase = "replay" /\ ~Over(r)
  /\ Enter(r, ReplayedCall(r, trace[r][at[r]]))
  /\ UNCHANGED <<job, phase, trace, recorded>>

ReplayLeave(r) ==
  /\ phase = "replay" /\ ~Over(r)
  /\ Leave(r, ReplayedCall(r, trace[r][at[r]]))
  /\ UNCHANGED <<job, phase, trace, recorded>>

RankStep(r) == RecordEnter(r) \/ RecordLeave(r) \/ ReplayEnter(r) \/ ReplayLeave(r)
MPIStep == \E m, n \in Unmatched : Match(m, n)

Next == StartReplay \/ MPIStep \/ \E r \in Ranks : RankStep(r)

\* Every process runs and MPI delivers.
Fairness ==
  /\ WF_vars(StartReplay) /\ WF_vars(MPIStep)
  /\ \A r \in Ranks : WF_vars(RankStep(r))

Spec == Init /\ [][Next]_vars /\ Fairness
-----------------------------------------------------------------------------
Receives(r) == {c \in {job.calls[r][n] : n \in DOMAIN job.calls[r]} : c.op \in RecvOps}

\* The recorded run received all messages to the rank, and those of each sender
\* in the order in which they were sent.
InOrder(r) ==
  /\ \A s \in Ranks : \A n \in DOMAIN job.calls[s] :
       job.calls[s][n].op \in SendOps /\ job.calls[s][n].peer = r =>
         \E p \in recorded : p[1] = [rank |-> s, n |-> n]
  /\ \A p, q \in recorded :
       p[2].rank = r /\ q[2].rank = r /\ p[1].rank = q[1].rank =>
         (p[1].n < q[1].n <=> p[2].n < q[2].n)

\* A rank that says whom it receives from, and whose tags are retained or never
\* made a difference;
Determined(r) ==
  /\ \A c \in Receives(r) : c.peer # AnySource
  /\ job.retain \/ InOrder(r)

\* one that takes any message at any time, and whose senders do not wait for it.
TakesAny(r) ==
  /\ job.eager
  /\ \A c \in Receives(r) : c.peer = AnySource /\ (c.tag = AnyTag \/ ~job.retain)

\* In a replay, however fast the ranks are, every message a determined rank
\* receives goes into the receive it went into when it was recorded, though the
\* other ranks' receives may take other messages.
SameMessages ==
  phase = "replay" =>
    \A pair \in matched : Determined(pair[2].rank) => pair \in recorded

\* The replay of a program that ended ends, if every rank is determined or
\* takes any message: no rank waits for a message another receive took.
ReplayEnds ==
  (phase = "replay" /\ \A r \in Ranks : Determined(r) \/ TakesAny(r)) ~> (phase = "replay" /\ AllOver)
=============================================================================
