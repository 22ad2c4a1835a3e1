--------------------------- MODULE MCHistoReplay ---------------------------
(***************************************************************************)
(* Three ranks: a trace with lossy destinations, one with messages on a    *)
(* communicator of rotated ranks, one with a collective, and one           *)
(* whose MPI_Comm_split makes two communicators.                           *)
(***************************************************************************)
EXTENDS HistoReplay, TLC

CONSTANTS Traces  \* which of the traces below

Ev(op, comm, offsets, time) ==
  [op |-> op, comm |-> comm, dests |-> offsets, lossy |-> Len(offsets) > 1, time |-> time,
   computes |-> FALSE]
Do(op, time) == Ev(op, World, <<0>>, time)
After(call) == [call EXCEPT !.computes = TRUE]

WorldOnly == [r \in 0..2 |-> World :> <<0, 1, 2>>]
Rotated == [r \in 0..2 |-> (World :> <<0, 1, 2>>) @@ (5 :> <<1, 2, 0>>)]
Split == [r \in 0..2 |-> (World :> <<0, 1, 2>>) @@ (5 :> IF r = 0 THEN <<0>> ELSE <<1, 2>>)]

Calls == [
  \* Rank 0 draws destinations among all ranks, itself included.
  lossy |-> (0 :> <<Ev("send", World, <<1, 2, 0>>, 0), Ev("isend", World, <<1, 2, 0>>, 1),
                    Ev("send", World, <<1, 2, 0>>, 1)>>)
         @@ (1 :> <<Do("recv", 0)>>) @@ (2 :> <<>>),
  \* Two senders, one of them on the other communicator.
  comms |-> (0 :> <<Do("comm", 0), Ev("isend", 5, <<1>>, 1)>>)
         @@ (1 :> <<Do("comm", 0), Ev("send", World, <<1>>, 0)>>)
         @@ (2 :> <<After(Do("comm", 0)), Do("irecv", 1)>>),
  exchange |-> (0 :> <<Ev("isend", World, <<1>>, 0), Do("collective", 1), After(Do("wait", 1))>>)
            @@ (1 :> <<Ev("isend", World, <<2>>, 0), Do("collective", 1), Do("wait", 1)>>)
            @@ (2 :> <<Do("collective", 0)>>),
  split |-> (0 :> <<Do("comm", 0)>>) @@ (1 :> <<Do("comm", 0)>>)
         @@ (2 :> <<Do("comm", 0), Ev("send", 5, <<1>>, 0), Ev("send", World, <<1>>, 1)>>)]

Groups == [lossy |-> WorldOnly, comms |-> Rotated, exchange |-> WorldOnly, split |-> Split]

NoDraws == {<<0, 0, 0>>}
Draws == [lossy |-> {<<0, 2, 4>>}, comms |-> NoDraws, exchange |-> NoDraws, split |-> NoDraws]

MCJobs == UNION {{[calls |-> Calls[t], groups |-> Groups[t],
            rands |-> [r \in 0..2 |-> [k \in DOMAIN d |-> IF r = 0 THEN d[k] ELSE 1]],
            eager |-> e, prealloc |-> ~e] : d \in Draws[t], e \in BOOLEAN} : t \in Traces}

\* What the proofs take as a hypothesis, which the split breaks.
ASSUME GroupsAgree == AgreeOnGroups <=> "split" \notin Traces
=============================================================================
