----------------------------- MODULE Encodings -----------------------------
(***************************************************************************)
(* The encodings of the data of a trace, which share nothing: a behaviour  *)
(* is one of module Ranklist, of Endpoints, of OpPacking or of Histogram.  *)
(***************************************************************************)
EXTENDS Ranklist

CONSTANTS
  Sizes, Keys,                        \* of Endpoints
  AnySource, ProcNull, IntMax,        \* of PeerCode
  Width, MaxMsgBytes, Lengths,        \* of OpPacking
  Recorders, Values, Unit, MaxElems   \* of Histogram; Recorders are its ranks

VARIABLES
  which,  \* the module
  my_size, kind, peers, recorded, replayed,  \* of Endpoints
  op, buf, got, phase,                       \* of OpPacking
  histogram, alive, added                    \* of Histogram
ranklistVars == vars
endpointVars == <<my_size, kind, peers, recorded, replayed>>
packingVars == <<op, buf, got, phase>>
histogramVars == <<histogram, alive, added>>

E == INSTANCE Endpoints WITH given <- peers
Op == INSTANCE OpPacking
H == INSTANCE Histogram WITH Ranks <- Recorders

ASSUME EncodingsAssumption == E!ConstantsOK /\ Op!ConstantsOK /\ H!ConstantsOK

NoLists == list = <<>> /\ numRanks = <<>> /\ members = <<>>
NoCall == my_size = 0 /\ kind = "none" /\ peers = <<>> /\ recorded = <<>> /\ replayed = <<>>
NoPacking ==
  /\ op = Op!NoOp /\ got = Op!NoOp /\ buf = <<>> /\ phase = "none"
NoHistograms == histogram = <<>> /\ alive = {} /\ added = <<>>

EncInit ==
  \/ which = "Ranklist" /\ Init /\ NoCall /\ NoPacking /\ NoHistograms
  \/ which = "Endpoints" /\ E!Init /\ NoLists /\ NoPacking /\ NoHistograms
  \/ which = "OpPacking" /\ Op!Init /\ NoLists /\ NoCall /\ NoHistograms
  \/ which = "Histogram" /\ H!Init /\ NoLists /\ NoCall /\ NoPacking

EncNext ==
  \/ which = "Ranklist" /\ Next /\ UNCHANGED <<which, endpointVars, packingVars, histogramVars>>
  \/ which = "Endpoints" /\ E!Next /\ UNCHANGED <<which, ranklistVars, packingVars, histogramVars>>
  \/ which = "OpPacking" /\ Op!Next /\ UNCHANGED <<which, ranklistVars, endpointVars, histogramVars>>
  \/ which = "Histogram" /\ H!Next /\ UNCHANGED <<which, ranklistVars, endpointVars, packingVars>>

EncSpec == EncInit /\ [][EncNext]_<<which, ranklistVars, endpointVars, packingVars, histogramVars>>
-----------------------------------------------------------------------------
\* However the merges were ordered, a list expands to the ranks merged into
\* it, each once, in ascending order (Ranklist::decompress_rl); sections
\* repeat.  hasMember, which scans the stored numbers and decides what a rank
\* replays, agrees with it; so do the counter kept and memberCount.
ListsExact == which = "Ranklist" => TypeOK /\ ExpandsToMembers /\ MembershipExact /\ CountsExact

\* Each rank's own peer or MPI_ANY_SOURCE comes back, and only those (the
\* macros of Event.h); ranks with peers at the same distance, around the end
\* too, record one value.
PeersKept == which = "Endpoints" => E!PeersKept

\* What the generic unpack function gives is the operation recorded, every
\* field and array of it, and no assertion of the generated functions fails.
RoundTrip == which = "OpPacking" => Op!RoundTrip

\* Number and sum of the values of all ranks survive tail bins, smoothing and
\* merging in any order (Histogram::add, Histogram::merge).
ValuesKept == which = "Histogram" => H!ValuesKept

\* Bins stay contiguous and hold their values.
BinsHoldTheirValues == which = "Histogram" => H!BinsHoldTheirValues

\* Smallest and largest value survive, the smallest with a rank that added it.
ExtremesKept == which = "Histogram" => H!ExtremesKept

\* Histogram::randomValue finds a bin and draws from the smallest to the
\* largest value.
DrawsSpanTheValues == which = "Histogram" => H!DrawsSpanTheValues
=============================================================================
