----------------------------- MODULE BufferRing -----------------------------
(***************************************************************************)
(* The circular array of message buffers of replay/mem_handler.C.  The     *)
(* replayer allocates one buffer per non-blocking call it makes and keeps  *)
(* it here until the request is waited for; the array has REQ_BUF_SIZE     *)
(* slots too and its cursor is meant to move with the request ring's, so   *)
(* that one recorded offset names a request there and its buffer here.     *)
(* NullReq stands for the NULL pointer.                                    *)
(***************************************************************************)
EXTENDS RequestRing

\* add_mem_entry: what is still in the slot of the cursor is freed, then overwritten.
FreedByAdd(mem) == {mem.buf[mem.cur]} \ {NullReq}

\* The pointer takes the slot of the cursor.
AddMem(mem, b) ==
  [buf |-> [mem.buf EXCEPT ![mem.cur] = b], cur |-> Advance(mem.cur)]

\* Mutants of FreedByEntries: the offset taken for a slot; nothing given back.
FreedAtOffsets(mem, offsets) == {mem.buf[o] : o \in offsets \ {NoOffset}} \ {NullReq}
FreedNothing(mem, offsets) == {}

\* free_mem_entry for every element of a set of offsets.
FreedByEntries(mem, offsets) ==
  {mem.buf[SlotOf(mem, o)] : o \in offsets \ {NoOffset}} \ {NullReq}

FreeEntries(mem, offsets) ==
  [buf |-> [s \in Slots |->
     IF \E o \in offsets \ {NoOffset} : SlotOf(mem, o) = s THEN NullReq ELSE mem.buf[s]],
   cur |-> mem.cur]

\* finalize_mem
FreedAtEnd(mem) == {mem.buf[s] : s \in Slots} \ {NullReq}
=============================================================================
