---------------------------- MODULE RequestRing ----------------------------
(***************************************************************************)
(* The circular request buffer of record/common/src/ReqHandler.C.  A       *)
(* tracer (and the replayer) keeps the request handles of its last Size    *)
(* non-blocking calls in it; a trace names a request by the distance, in   *)
(* slots, from the cursor of the moment the request is waited for.         *)
(*                                                                         *)
(* A ring is a record: buf holds one entry per slot (NullReq stands for    *)
(* MPI_REQUEST_NULL), cur is the slot the next request goes to.            *)
(***************************************************************************)
EXTENDS Integers

CONSTANTS
  Size,     \* REQ_BUF_SIZE, the number of slots
  NullReq   \* MPI_REQUEST_NULL

ASSUME SizeAssumption == Size \in Nat \ {0}

Slots == 0 .. Size - 1

NoOffset == -1   \* the offset recorded for MPI_REQUEST_NULL

\* init_req
EmptyRing == [buf |-> [s \in Slots |-> NullReq], cur |-> 0]

\* Mutant of Advance: the last slot is never used.
AdvanceEarly(cur) == IF cur + 1 >= Size - 1 THEN 0 ELSE cur + 1

\* The cursor after one more entry.
Advance(cur) == IF cur + 1 >= Size THEN 0 ELSE cur + 1

\* add_request_entry: a null request is reported and not stored.
AddEntry(ring, r) ==
  IF r # NullReq
  THEN [buf |-> [ring.buf EXCEPT ![ring.cur] = r], cur |-> Advance(ring.cur)]
  ELSE ring

\* The slot a recorded offset names, and the offset that names a slot.
SlotOf(ring, offset) == (ring.cur + offset) % Size
OffsetOf(ring, slot) == (slot - ring.cur + Size) % Size

Holds(ring, r) == \E s \in Slots : ring.buf[s] = r

\* Mutant of LookupOffset: the slot is recorded, not its distance from the cursor.
LookupSlot(ring, r) ==
  IF r = NullReq THEN NoOffset ELSE CHOOSE s \in Slots : ring.buf[s] = r

\* lookup_offset: the scan starts at slot 0.
LookupOffset(ring, r) ==
  IF r = NullReq THEN NoOffset
  ELSE OffsetOf(ring, CHOOSE s \in Slots :
                        /\ ring.buf[s] = r
                        /\ \A t \in Slots : ring.buf[t] = r => s <= t)

\* lookup_offsetlist, one element, reset = 0: the scan walks back from the cursor.
LookupOffsetBack(ring, r) ==
  LET back(s) == (ring.cur - s + Size) % Size
  IN  IF r = NullReq THEN NoOffset
      ELSE OffsetOf(ring, CHOOSE s \in Slots :
                            /\ ring.buf[s] = r
                            /\ \A t \in Slots : ring.buf[t] = r => back(s) <= back(t))

\* Mutant of ResetOffsets: completed requests stay in the ring.
ResetNothing(ring, offsets) == ring

\* reset_offset for every element of a set of offsets (negative ones are ignored).
ResetOffsets(ring, offsets) ==
  [buf |-> [s \in Slots |->
     IF \E o \in offsets : o >= 0 /\ SlotOf(ring, o) = s THEN NullReq ELSE ring.buf[s]],
   cur |-> ring.cur]

\* Mutant of LookupRequest: the offset taken for a slot.
RequestAtOffset(ring, offset) == IF offset = NoOffset THEN NullReq ELSE ring.buf[offset]

\* lookup_request; NullReq for an offset other than NoOffset is its exit(1).
LookupRequest(ring, offset) ==
  IF offset = NoOffset THEN NullReq ELSE ring.buf[SlotOf(ring, offset)]

\* lookup_requestlist takes each request out of its slot, so the second of two
\* equal offsets finds MPI_REQUEST_NULL.
LookupRequestList(ring, offsets) ==
  [i \in DOMAIN offsets |->
     IF \E k \in DOMAIN offsets : k < i /\ offsets[k] = offsets[i]
     THEN NullReq ELSE LookupRequest(ring, offsets[i])]
=============================================================================
