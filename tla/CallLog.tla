------------------------------ MODULE CallLog ------------------------------
(***************************************************************************)
(* What recording and replaying the request calls of one rank promises: an *)
(* application makes calls, each on the requests it names, and a replay    *)
(* makes the same calls on the same requests in the same order.  How a     *)
(* trace names a request (RequestRing) is invisible here.                  *)
(***************************************************************************)
EXTENDS Naturals, Sequences

CONSTANT Calls   \* the calls there can be, each with the requests it is about

VARIABLES
  recorded,   \* the calls the application made
  replayed    \* the calls the replay has made

vars == <<recorded, replayed>>

Init == recorded = <<>> /\ replayed = <<>>

Record(c) ==
  /\ replayed = <<>>
  /\ recorded' = Append(recorded, c)
  /\ UNCHANGED replayed

Replay ==
  /\ Len(replayed) < Len(recorded)
  /\ replayed' = Append(replayed, recorded[Len(replayed) + 1])
  /\ UNCHANGED recorded

Next == Replay \/ \E c \in Calls : Record(c)

Spec == Init /\ [][Next]_vars
=============================================================================
