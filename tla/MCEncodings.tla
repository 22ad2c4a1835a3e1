---------------------------- MODULE MCEncodings ----------------------------
(***************************************************************************)
(* For TLC: the encodings with the wildcards of Open MPI and keys that are  *)
(* no ranks.                                                                *)
(***************************************************************************)
EXTENDS Encodings, TLC

OtherKeys == {-3, -2, -1, 4, 5}
MinusOne == -1
MinusTwo == -2
MaxInt == 2147483647

L == INSTANCE OpLookup

\* The bytes of fields with Open MPI on 64 bits, where handles are pointers.
Chars == {"name", "namep", "string", "value"}
Pointers ==
  {"buf", "recvbuf", "inbuf", "outbuf", "bufptr", "location", "attr_value", "extra_state", "argv",
   "function", "copy_function", "delete_function"}
Addresses == {"address", "displacement", "extent", "stride", "the_addresses"}
Handles ==
  {"comm", "comm_out", "comm1", "comm2", "commp", "peer_comm", "group", "group1", "group2", "group_out",
   "datatype", "recvtype", "newtype", "old_type", "top_type", "array_of_types", "the_datatypes",
   "request", "array_of_requests", "c_request", "op", "info", "newinfo", "errhandler",
   "errhandler_notptr"}
OpenMPIWidth ==
  [f \in L!PackedFields |->
     CASE f \in Chars -> 1
       [] f \in Pointers \cup Addresses \cup Handles -> 8
       [] f = "c_status" -> 24
       [] OTHER -> 4]

\* The operations of histograms never compare ranks.
Symmetry == Permutations(Recorders)
=============================================================================
