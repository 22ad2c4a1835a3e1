----------------------------- MODULE Endpoints -----------------------------
(***************************************************************************)
(* How a trace names the peers of messages and the keys of MPI_Comm_split: *)
(* by their distance from the calling rank, so that ranks that do the same *)
(* record the same.  All ranks of a job make one call, each with a source, *)
(* a destination or a key of its own; the calls are recorded and replayed. *)
(***************************************************************************)
EXTENDS PeerCode, FiniteSets

CONSTANTS
  Sizes,       \* numbers of ranks
  Keys         \* keys that are no ranks, passed to MPI_Comm_split

\* What a user of this module assumes of the constants.
ConstantsOK ==
  /\ Sizes \subseteq Nat \ {0} /\ \A n \in Sizes : n < IntMax
  /\ Keys \subseteq Int
  /\ WildcardsOK

VARIABLES
  my_size,   \* number of ranks
  kind,      \* what the call takes: "source", "dest" or "key"
  given,     \* rank -> the value the program passes
  recorded,  \* rank -> the value in its trace
  replayed   \* rank -> the value the replay passes
vars == <<my_size, kind, given, recorded, replayed>>

AllRanks == 0..(my_size - 1)

Passed(what, size) ==
  0..(size - 1) \cup
    CASE what = "key" -> Keys
      [] what = "dest" -> {ProcNull}
      [] what = "source" -> {AnySource, ProcNull}

Init ==
  /\ my_size \in Sizes
  /\ kind \in {"source", "dest", "key"}
  /\ given \in [AllRanks -> Passed(kind, my_size)]
  /\ recorded = <<>>
  /\ replayed = <<>>

Record ==
  /\ recorded = <<>>
  /\ recorded' = [r \in AllRanks |-> Encode(kind, given[r], r, my_size)]
  /\ UNCHANGED <<my_size, kind, given, replayed>>

Replay ==
  /\ recorded # <<>> /\ replayed = <<>>
  /\ replayed' = [r \in AllRanks |-> Decode(kind, recorded[r], r, my_size)]
  /\ UNCHANGED <<my_size, kind, given, recorded>>

Next == Record \/ Replay

Spec == Init /\ [][Next]_vars
-----------------------------------------------------------------------------
\* Each rank's own peer, wildcard or key comes back, whatever the others pass:
\* what is a rank or MPI_ANY_SOURCE.  MPI_PROC_NULL and other keys do not.
OwnPeerBack ==
  replayed # <<>> =>
    \A r \in AllRanks :
      (given[r] \in AllRanks \/ (kind = "source" /\ given[r] = AnySource)) <=> replayed[r] = given[r]

\* Ranks whose peers are at the same distance, around the end too, record one
\* value, which lets their events share a node.
SamePatternSameValue ==
  recorded # <<>> =>
    \A r, q \in AllRanks :
      (given[r] \in AllRanks /\ given[q] \in AllRanks /\ (given[r] - r) % my_size = (given[q] - q) % my_size)
        => recorded[r] = recorded[q]

\* Naming peers by their distance loses no rank's peer and makes equal what is
\* the same pattern.
PeersKept == OwnPeerBack /\ SamePatternSameValue
=============================================================================
