-------------------------- MODULE MCMessageReplay --------------------------
(***************************************************************************)
(* Jobs of three ranks: every way rank 0 sends two messages to rank 1 with *)
(* two tags and rank 1 receives two, and jobs with wildcards, collectives, *)
(* rings and messages to oneself.                                          *)
(***************************************************************************)
EXTENDS MessageReplay, SequencesExt

MinusOne == -1
MinusTwo == -2
Do(op, peer, tag) == [op |-> op, peer |-> peer, tag |-> tag, req |-> 0]
WaitFor(n) == [op |-> "wait", peer |-> 0, tag |-> 0, req |-> n]
Barrier == Do("collective", 0, 0)
Programs(p, q, r) == (0 :> p) @@ (1 :> q) @@ (2 :> r)

\* Calls and then the waits for their requests, the last first.
Waited(calls) ==
  LET waits == {n \in DOMAIN calls : calls[n].op \in {"isend", "irecv"}}
  IN  calls \o Reverse([k \in 1..Cardinality(waits) |-> WaitFor(SetToSortSeq(waits, <)[k])])

Tags == {1, 2}
Pairs ==
  {Programs(Waited(<<Do(sop, 1, s), Do(sop, 1, t)>>), Waited(<<Do(rop1, 0, u), Do(rop2, 0, v)>>), <<>>) :
     sop \in SendOps, rop1 \in RecvOps, rop2 \in RecvOps, s \in Tags, t \in Tags, u \in Tags \cup {AnyTag}, v \in Tags \cup {AnyTag}}

Others == {
  \* Any sender's message first, then a certain one's.
  Programs(<<Do("send", 1, 1)>>, <<Do("recv", AnySource, 1), Do("recv", 0, 1)>>, <<Do("send", 1, 1)>>),
  Programs(<<Do("send", 1, 2)>>, <<Do("recv", AnySource, 1), Do("recv", 0, 2)>>, <<Do("send", 1, 1)>>),
  \* A master that takes requests as they come and answers.
  Programs(<<Do("recv", AnySource, AnyTag), Do("recv", AnySource, AnyTag), Do("send", 1, 2), Do("isend", 2, 2), WaitFor(4)>>,
           <<Do("send", 0, 1), Do("recv", 0, 2)>>, <<Do("isend", 0, 1), Do("recv", 0, 2), WaitFor(1)>>),
  \* A ring, posted ahead and with a barrier.
  Programs(<<Do("irecv", 2, 1), Barrier, Do("send", 1, 1), WaitFor(1)>>,
           <<Do("irecv", 0, 1), Barrier, Do("send", 2, 1), WaitFor(1)>>,
           <<Do("irecv", 1, 1), Barrier, Do("send", 0, 1), WaitFor(1)>>),
  \* A ring that needs buffered sends.
  Programs(<<Do("send", 1, 1), Do("recv", 2, 1)>>, <<Do("send", 2, 1), Do("recv", 0, 1)>>,
           <<Do("send", 0, 1), Do("recv", 1, 1)>>),
  \* Messages to oneself between others.
  Programs(<<Do("isend", 0, 1), Do("isend", 0, 2), Do("recv", 0, 2), Do("recv", 0, 1), WaitFor(1), Barrier, WaitFor(2)>>,
           <<Do("send", 2, 1), Barrier>>, <<Do("recv", 1, 1), Barrier>>),
  \* A message that no one receives before one that is.
  Programs(<<Do("send", 1, 1), Do("send", 1, 2)>>, <<Do("recv", 0, 2)>>, <<>>),
  \* Two collectives with a message between.
  Programs(<<Barrier, Do("send", 2, 1), Barrier>>, <<Barrier, Barrier>>, <<Barrier, Do("recv", 0, 1), Barrier>>)}

MCJobs == {[calls |-> c, retain |-> k, eager |-> e] : c \in Pairs \cup Others, k \in BOOLEAN, e \in BOOLEAN}
=============================================================================
