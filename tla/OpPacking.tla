----------------------------- MODULE OpPacking -----------------------------
(***************************************************************************)
(* An MPI operation as the generated functions pack it into a buffer and    *)
(* unpack it, byte by byte.  Its arrays are in the record, a NULL pointer   *)
(* being <<>>.                                                              *)
(***************************************************************************)
EXTENDS OpLookup, Integers, SequencesExt

CONSTANTS
  Width,       \* field -> bytes of it, or of one element of the array it points to
  MaxMsgBytes, \* UMPI_MAX_MSG_BYTES
  Lengths      \* lengths of arrays

VARIABLES
  op,      \* the operation recorded
  buf,     \* the bytes packed
  got,     \* the operation unpacked
  phase    \* "new", "packed", "unpacked", "oversized" or "abort"
vars == <<op, buf, got, phase>>

BASE_OPCODE == 1000
START == 8532985
END == 5329872
END_SPLIT == 7659839
Garbage == -1  \* what bytes that are no value are read as
Counts == {"count", "size", "edgecount", "addrcount", "dtypecount"}
IntBytes == Width["count"]
PointerBytes == Width["buf"]
HeaderWidths == <<IntBytes, IntBytes, IntBytes, PointerBytes, IntBytes>>  \* op, order, rank, pc, seq_num
\* Where the i-th of them is, the bytes of those before it.
HeaderAt(i) == FoldLeft(LAMBDA sum, width : sum + width, 0, SubSeq(HeaderWidths, 1, i - 1))
NoOp == [header |-> <<>>, scalars |-> <<>>, arrays |-> <<>>]

Items(layout) == {layout[i] : i \in DOMAIN layout}
ScalarsOf(layout) == {i.field : i \in {j \in Items(layout) : j.many = "one"}}
ArraysOf(layout) == {i.field : i \in {j \in Items(layout) : j.many # "one"}}

\* What a user of this module assumes of the constants.
ConstantsOK ==
  /\ Width \in [PackedFields -> Nat \ {0}]
  /\ \A f \in Counts \cup {"array_of_degrees"} : Width[f] = IntBytes
  /\ MaxMsgBytes \in Nat /\ Lengths \subseteq Nat

Name(o) == Names[o.header[1] - BASE_OPCODE + 1]

-----------------------------------------------------------------------------
\* How long an array of the operation is, and the field that says it.
Length(o, many) ==
  CASE many \in Counts -> o.scalars[many]
    [] many = "three" -> 3 * o.scalars["count"]
    [] many = "degree" -> o.arrays["array_of_degrees"][o.scalars["count"]]

LengthField(many) ==
  CASE many \in Counts -> many
    [] many = "three" -> "count"
    [] many = "degree" -> "array_of_degrees"

\* umpi_pack_op_size: three words of the frame, the operation's header, and for
\* an array its length besides its elements.
Size(o, layout) ==
  LET Bytes(item) ==
        IF item.many = "one" THEN Width[item.field]
        ELSE Width[LengthField(item.many)] + Length(o, item.many) * Width[item.field]
  IN  3 * IntBytes + HeaderAt(6) + FoldLeft(LAMBDA sum, item : sum + Bytes(item), 0, layout)

\* Values of the same width one behind the other: which value a byte is of,
\* which byte of it, and how wide it is.
InBytes(values, width) ==
  [k \in 1..(width * Len(values)) |->
     <<values[((k - 1) \div width) + 1], (k - 1) % width, width>>]
IntWord(n) == InBytes(<<n>>, IntBytes)

\* Mutant of Pack: as many ints as the array has elements, which is what the
\* generated copy functions duplicate.
PackInts(o, layout) ==
  LET Bytes(item) ==
        IF item.many = "one" THEN InBytes(<<o.scalars[item.field]>>, Width[item.field])
        ELSE LET n == Length(o, item.many)
             IN  IntWord(n) \o SubSeq(InBytes(o.arrays[item.field], Width[item.field]), 1, n * IntBytes)
  IN  FoldLeft(LAMBDA bytes, item : bytes \o Bytes(item), <<>>, layout)

Pack(o, layout) ==
  LET Bytes(item) ==
        IF item.many = "one" THEN InBytes(<<o.scalars[item.field]>>, Width[item.field])
        ELSE LET n == Length(o, item.many)
             IN  IntWord(n) \o InBytes(SubSeq(o.arrays[item.field], 1, n), Width[item.field])
  IN  FoldLeft(LAMBDA bytes, item : bytes \o Bytes(item), <<>>, layout)

\* The value of a width at an index into the buffer, from 0.
Read(index, width) ==
  LET first == buf[index + 1][1]
  IN  IF index + width <= Len(buf) /\ SubSeq(buf, index + 1, index + width) = InBytes(<<first>>, width)
      THEN first ELSE Garbage

\* Reading one item: a field, or a length and that many elements put into an
\* array of their own.
ReadItem(s, item) ==
  LET w == Width[item.field]
      n == Read(s.index, IntBytes)
  IN  IF item.many = "one"
      THEN [s EXCEPT !.index = @ + w, !.scalars = (item.field :> Read(s.index, w)) @@ @]
      ELSE [s EXCEPT !.index = @ + IntBytes + n * w,
                     !.arrays = (item.field :>
                       [k \in 1..n |-> Read(s.index + IntBytes + (k - 1) * w, w)]) @@ @]

Unpack(layout, index) ==
  FoldLeft(ReadItem, [index |-> index, scalars |-> <<>>, arrays |-> <<>>], layout)

-----------------------------------------------------------------------------
\* The k-th scalar is a number of its own, a degree its own position.
Element(array, place, i) == IF array = "array_of_degrees" THEN i ELSE 1000 * place + i

\* Operations a wrapper may record: all lengths they name in Lengths; a graph
\* has nodes.
Recorded(i, lengths) ==
  LET layout == PackOp[Names[i]]
      places == [f \in ArraysOf(layout) \cup ScalarsOf(layout) |->
                   CHOOSE k \in DOMAIN layout : layout[k].field = f]
      many(f) == layout[places[f]].many
      long(f) == CASE many(f) = "degree" -> lengths["count"]
                   [] many(f) = "three" -> 3 * lengths["count"]
                   [] OTHER -> lengths[many(f)]
  IN  [header |-> <<BASE_OPCODE + i - 1, 1, 2, 3, 4>>,
       scalars |-> [f \in ScalarsOf(layout) |-> IF f \in Counts THEN lengths[f] ELSE 100 + places[f]],
       arrays |-> [f \in ArraysOf(layout) |-> [k \in 1..long(f) |-> Element(f, places[f], k)]]]

Init ==
  /\ \E i \in DOMAIN Names :
       \E lengths \in [Counts \cap ScalarsOf(PackOp[Names[i]]) -> Lengths] :
         /\ (\E j \in Items(PackOp[Names[i]]) : j.many = "degree") => lengths["count"] > 0
         /\ op = Recorded(i, lengths)
  /\ buf = <<>>
  /\ got = NoOp
  /\ phase = "new"

-----------------------------------------------------------------------------
\* umpi_pack_op: an error when the buffer is too short; and the size computed
\* beforehand must be what was written.
PackIt ==
  LET size == Size(op, PackOpSize[Name(op)])
      Header(i) == InBytes(<<op.header[i]>>, HeaderWidths[i])
  IN  /\ phase = "new"
      /\ \E maxlen \in {size - 1, size} :
           IF maxlen < size THEN UNCHANGED <<buf, phase>>
           ELSE /\ buf' = IntWord(START) \o IntWord(size)
                          \o Header(1) \o Header(2) \o Header(3) \o Header(4) \o Header(5)
                          \o Pack(op, PackOp[Name(op)]) \o IntWord(END)
                /\ phase' = IF Len(buf') = size THEN "packed" ELSE "abort"
      /\ UNCHANGED <<op, got>>

\* The generic unpack function, with its assertions.  An operation larger than
\* a message must have been split, which no pack function does.
UnpackIt ==
  LET At(i) == 2 * IntBytes + HeaderAt(i)
      header == [i \in DOMAIN HeaderWidths |-> Read(At(i), HeaderWidths[i])]
      size == Read(IntBytes, IntBytes)
      name == Names[header[1] - BASE_OPCODE + 1]
      s == Unpack(UnpackOp[name], At(6))
  IN  /\ phase = "packed" /\ name \in DOMAIN UnpackOp
      /\ IF size > MaxMsgBytes /\ Read(2 * IntBytes, IntBytes) # END_SPLIT
         THEN phase' = "oversized" /\ UNCHANGED got
         ELSE IF Read(0, IntBytes) = START /\ Read(size - IntBytes, IntBytes) = END
                 /\ s.index = size - IntBytes
         THEN /\ got' = [header |-> header, scalars |-> s.scalars, arrays |-> s.arrays]
              /\ phase' = "unpacked"
         ELSE phase' = "abort" /\ UNCHANGED got
      /\ UNCHANGED <<op, buf>>

Next == PackIt \/ UnpackIt

Spec == Init /\ [][Next]_vars
-----------------------------------------------------------------------------
\* What is unpacked is what was recorded, every field and every element whatever
\* its width: the functions that compute the size, pack and unpack were printed
\* for the same fields in the same order and widths.  No assertion of theirs
\* fails on the way; only an operation larger than a message is refused.
RoundTrip ==
  /\ phase # "abort"
  /\ phase = "unpacked" => got = op
=============================================================================
