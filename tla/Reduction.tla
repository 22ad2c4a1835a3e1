----------------------------- MODULE Reduction -----------------------------
(***************************************************************************)
(* The protocol of inter-node compression, run by the wrapper of           *)
(* MPI_Finalize: every rank passes a barrier, receives and merges the      *)
(* traces of its left and right children in the radix tree, and sends the  *)
(* result to its parent; the root writes the trace file.  A trace travels  *)
(* as two messages, its size and its nodes.  A trace is here the set of    *)
(* ranks whose calls it holds; module TraceReduce has the traces.          *)
(*                                                                         *)
(* MPI does not reorder messages of one sender to one receiver.  A send    *)
(* may return as soon as it is posted or only when it was received; both   *)
(* are behaviours, and only the second may be relied on to happen.         *)
(***************************************************************************)
EXTENDS RadixTree, Sequences

CONSTANT N  \* my_size

ASSUME NAssumption == N \in Nat \ {0}

Ranks == 0..(N - 1)

VARIABLES
  pc,     \* rank -> where it is in MPI_Finalize
  held,   \* rank -> the ranks whose calls its trace holds
  sized,  \* rank -> whether it received the size of the trace it waits for
  chan,   \* sender -> receiver -> messages sent and not yet received
  file    \* the ranks whose calls the trace file holds
vars == <<pc, held, sized, chan, file>>

SizeMessage == [kind |-> "size"]
TraceMessage(ranks) == [kind |-> "trace", ranks |-> ranks]

Init ==
  /\ pc = [r \in Ranks |-> "call"]
  /\ held = [r \in Ranks |-> {r}]
  /\ sized = [r \in Ranks |-> FALSE]
  /\ chan = [r \in Ranks |-> [q \in Ranks |-> <<>>]]
  /\ file = {}

Go(r, label) == pc' = [pc EXCEPT ![r] = label]

\* PMPI_Barrier: entered by each rank, left when all have entered.
EnterBarrier(r) ==
  /\ pc[r] = "call"
  /\ Go(r, "barrier")
  /\ UNCHANGED <<held, sized, chan, file>>

\* Mutant of LeaveBarrier: there is no barrier.
LeaveBarrierAlone(r) ==
  /\ pc[r] = "barrier"
  /\ Go(r, "left")
  /\ UNCHANGED <<held, sized, chan, file>>

LeaveBarrier(r) ==
  /\ pc[r] = "barrier"
  /\ \A q \in Ranks : pc[q] # "call"
  /\ Go(r, "left")
  /\ UNCHANGED <<held, sized, chan, file>>

Child(r) == GetChild(r, IF pc[r] = "left" THEN LEFT ELSE RIGHT)

\* Mutant of AfterChild: a rank with one child received does not wait for another.
AfterFirstChild(r) == "send"

AfterChild(r) == IF pc[r] = "left" THEN "right" ELSE "send"

Waiting(r) == pc[r] \in {"left", "right"}

NoChild(r) ==
  /\ Waiting(r)
  /\ Child(r) >= N
  /\ Go(r, AfterChild(r))
  /\ UNCHANGED <<held, sized, chan, file>>

\* A blocking receive from the child takes the first message it sent.
Receive(r, kind) ==
  LET child == Child(r)
  IN  /\ Waiting(r)
      /\ child < N
      /\ chan[child][r] # <<>>
      /\ Head(chan[child][r]).kind = kind
      /\ chan' = [chan EXCEPT ![child][r] = Tail(@)]

ReceiveSize(r) ==
  /\ ~sized[r]
  /\ Receive(r, "size")
  /\ sized' = [sized EXCEPT ![r] = TRUE]
  /\ UNCHANGED <<pc, held, file>>

\* recvTrace and mergeTrace: the trace received is merged into the rank's own.
ReceiveTrace(r) ==
  /\ sized[r]
  /\ Receive(r, "trace")
  /\ held' = [held EXCEPT ![r] = @ \cup Head(chan[Child(r)][r]).ranks]
  /\ sized' = [sized EXCEPT ![r] = FALSE]
  /\ Go(r, AfterChild(r))
  /\ UNCHANGED file

Send(r, message) == chan' = [chan EXCEPT ![r][GetParent(r)] = Append(@, message)]

\* sendTrace: the size is posted, and, when that send has returned, the nodes.
SendSize(r) ==
  /\ pc[r] = "send"
  /\ r # 0
  /\ Send(r, SizeMessage)
  /\ Go(r, "size sent")
  /\ UNCHANGED <<held, sized, file>>

\* Mutant of SendTrace: the trace is posted a second time.
SendTraceTwice(r) ==
  /\ pc[r] = "size sent"
  /\ chan' = [chan EXCEPT ![r][GetParent(r)] = @ \o <<TraceMessage(held[r]), TraceMessage(held[r])>>]
  /\ Go(r, "trace sent")
  /\ UNCHANGED <<held, sized, file>>

SendTrace(r) ==
  /\ pc[r] = "size sent"
  /\ Send(r, TraceMessage(held[r]))
  /\ Go(r, "trace sent")
  /\ UNCHANGED <<held, sized, file>>

SendReturns(r) ==
  /\ pc[r] = "trace sent"
  /\ Go(r, "done")
  /\ UNCHANGED <<held, sized, chan, file>>

OutputTrace(r) ==
  /\ pc[r] = "send"
  /\ r = 0
  /\ file' = held[r]
  /\ Go(r, "done")
  /\ UNCHANGED <<held, sized, chan>>

Step(r) ==
  \/ EnterBarrier(r) \/ LeaveBarrier(r) \/ NoChild(r)
  \/ ReceiveSize(r) \/ ReceiveTrace(r)
  \/ SendSize(r) \/ SendTrace(r) \/ SendReturns(r) \/ OutputTrace(r)

AllDone == \A r \in Ranks : pc[r] = "done"

Next == \E r \in Ranks : Step(r)

\* A rank runs until it blocks, and a posted send may be relied on to return
\* only when it was received.
Received(r) == \A q \in Ranks : chan[r][q] = <<>>
Progress(r) ==
  \/ EnterBarrier(r) \/ LeaveBarrier(r) \/ NoChild(r)
  \/ ReceiveSize(r) \/ ReceiveTrace(r) \/ SendSize(r) \/ OutputTrace(r)
  \/ Received(r) /\ (SendTrace(r) \/ SendReturns(r))

SafeSpec == Init /\ [][Next]_vars
Spec == SafeSpec /\ \A r \in Ranks : WF_vars(Progress(r))
-----------------------------------------------------------------------------
Messages == {SizeMessage} \cup [kind : {"trace"}, ranks : SUBSET Ranks]

\* Type invariant: a size is kept only while the trace is waited for.
TypeOK ==
  /\ pc \in [Ranks -> {"call", "barrier", "left", "right", "send",
                       "size sent", "trace sent", "done"}]
  /\ held \in [Ranks -> SUBSET Ranks]
  /\ sized \in [Ranks -> BOOLEAN]
  /\ \A r \in Ranks : sized[r] => Waiting(r)
  /\ chan \in [Ranks -> [Ranks -> Seq(Messages)]]
  /\ file \in SUBSET Ranks

\* A rank's trace counts until it is on its way, its copy in the channel until
\* it is received.
Keeps(r) == pc[r] \notin {"trace sent", "done"}
OnItsWay(r, q) == {m \in {chan[r][q][k] : k \in DOMAIN chan[r][q]} : m.kind = "trace"}

\* No rank's calls are in two places on the way to the root, to be merged
\* twice: not in two traces still kept, on their way, or written.
NoneTwice ==
  /\ \A r, q \in Ranks : r # q /\ Keeps(r) /\ Keeps(q) => held[r] \cap held[q] = {}
  /\ \A r, q, p \in Ranks : \A m \in OnItsWay(r, q) : Keeps(p) => m.ranks \cap held[p] = {}
  /\ \A r, q, p, s \in Ranks : \A m \in OnItsWay(r, q), n \in OnItsWay(p, s) :
       r # p => m.ranks \cap n.ranks = {}

\* Nothing is lost: the calls of every rank are in a trace that is kept or on
\* its way, or in the file; and the file, once written, is complete.
NoneLost ==
  /\ \A x \in Ranks :
       \/ \E r \in Ranks : Keeps(r) /\ x \in held[r]
       \/ \E r, q \in Ranks : \E m \in OnItsWay(r, q) : x \in m.ranks
       \/ x \in file
  /\ file # {} => file = Ranks

\* No rank starts to merge while another still runs the program, whose own
\* messages the reduction's could be taken for.
AfterTheProgram ==
  \A r, q \in Ranks : pc[r] = "call" => pc[q] \in {"call", "barrier"} /\ chan[q][r] = <<>>

\* Every rank leaves MPI_Finalize and the file is written, even if no send
\* returns before it was received: no two ranks wait for each other.
Completes == <>(AllDone /\ file = Ranks)
=============================================================================
