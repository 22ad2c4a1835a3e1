------------------------------ MODULE OpLayout ------------------------------
(***************************************************************************)
(* Notation for the layout of a packed operation: a sequence of items, each *)
(* a field or an array.  "many" says where an array's length is found.      *)
(***************************************************************************)
EXTENDS Naturals, Sequences

Fields(names) == [i \in DOMAIN names |-> [field |-> names[i], many |-> "one"]]

\* An array as long as the field says; "three" is thrice the field count,
\* "degree" the last element of array_of_degrees.
Array(name, length) == <<[field |-> name, many |-> length]>>

\* An array as long as the word before it says.
Counted(name) == Array(name, "word")
=============================================================================
