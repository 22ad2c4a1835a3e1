---------------------------- MODULE HandleMapper ----------------------------
(***************************************************************************)
(* HandleMapper: the table that turns MPI's opaque handles into small      *)
(* integers a trace can hold, and back.  Built-in handles have fixed       *)
(* indices; user-defined ones live in a ring of Size slots and have the    *)
(* index of their slot plus Size.                                          *)
(***************************************************************************)
EXTENDS Integers, Sequences, FiniteSets, FiniteSetsExt

CONSTANTS
  Size,        \* PTR_HANDLER_SZ
  Handles,     \* values MPI gives to handles of user-defined objects
  NullHandle,  \* MPI_COMM_NULL
  Self,        \* MPI_COMM_SELF
  World        \* MPI_COMM_WORLD

Builtins == <<NullHandle, Self, World>>

\* Built-in indices must not reach those of user-defined handles.
ASSUME SizeAssumption == Size \in Nat /\ Size >= Len(Builtins)
ASSUME HandlesAssumption ==
  /\ {NullHandle, Self, World} \cap Handles = {}
  /\ Cardinality({NullHandle, Self, World}) = 3

Slots == 0..(Size - 1)

EmptyMapper == [current |-> 0, buffer |-> [i \in Slots |-> NullHandle]]

\* lookup_handle: the first slot that holds the handle.
SlotsOf(m, handle) == {i \in Slots : m.buffer[i] = handle}

HandleToIndex(m, handle) ==
  LET slots == SlotsOf(m, handle)
      builtin == {i \in DOMAIN Builtins : Builtins[i] = handle}
  IN  CASE builtin # {} -> Min(builtin) - 1
        [] builtin = {} /\ slots # {} -> Min(slots) + Size
        [] builtin = {} /\ slots = {} -> -1

\* index_to_handle: what it may return.  For the index -1 the slot before the
\* first one is read, which may hold anything.
IndexToHandles(m, index) ==
  CASE index \in {1, 2} -> {Builtins[index + 1]}
    [] index = 0 \/ index > 2 -> {m.buffer[index % Size]}
    [] index < 0 -> Handles \cup {NullHandle, Self, World}

\* Mutant of AddHandle: the last slot is never used.
AddHandleEarly(m, handle) ==
  [current |-> (m.current + 1) % (Size - 1), buffer |-> [m.buffer EXCEPT ![m.current] = handle]]

AddHandle(m, handle) ==
  [current |-> (m.current + 1) % Size, buffer |-> [m.buffer EXCEPT ![m.current] = handle]]

\* Mutant of RemoveHandle: the slot keeps the handle.
RemoveNothing(m, handle) == m

RemoveHandle(m, handle) ==
  LET slots == SlotsOf(m, handle)
  IN  IF slots = {} THEN m ELSE [m EXCEPT !.buffer[Min(slots)] = NullHandle]
=============================================================================
