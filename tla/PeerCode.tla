------------------------------ MODULE PeerCode ------------------------------
(***************************************************************************)
(* The macros of Event.h for the peers and tags of messages.  Peers are     *)
(* named by their distance from the calling rank, so that ranks that do     *)
(* the same record the same; tags are dropped unless they are retained.     *)
(***************************************************************************)
EXTENDS Integers

CONSTANTS
  AnySource,   \* MPI_ANY_SOURCE
  ProcNull,    \* MPI_PROC_NULL
  IntMax       \* INT_MAX

WildcardsOK ==
  /\ {AnySource, ProcNull, IntMax} \subseteq Int
  /\ AnySource < 0 /\ ProcNull < 0 /\ AnySource # ProcNull

OP_ANY_SOURCE == IntMax

\* The remainder of C, whose sign is the dividend's.
Rem(a, b) == IF a < 0 THEN -((-a) % b) ELSE a % b

Distance(value, rank, size) == Rem(value - rank + size, size)

\* Mutant of FromDistance: ranks do not wrap around.
FromDistanceStraight(value, rank, size) == value + rank

FromDistance(value, rank, size) == Rem(value + rank, size)

\* Mutant of Encode: MPI_ANY_SOURCE is encoded like a rank.
EncodeSourceAsRank(what, value, rank, size) == Distance(value, rank, size)

Encode(what, value, rank, size) ==
  IF what = "source" /\ value = AnySource THEN OP_ANY_SOURCE
  ELSE Distance(value, rank, size)

Decode(what, value, rank, size) ==
  IF what = "source" /\ value = OP_ANY_SOURCE THEN AnySource
  ELSE FromDistance(value, rank, size)

\* Mutant of EncodeTag: a tag is dropped where it is to be retained.
EncodeTagNever(tag, retain) == 0

EncodeTag(tag, retain) == IF retain THEN tag ELSE 0
=============================================================================
