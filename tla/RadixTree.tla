------------------------------ MODULE RadixTree ------------------------------
(***************************************************************************)
(* The tree along which traces are reduced (radix_tree.c).  Ranks are      *)
(* numbered from one level to the next; a child's number is its parent's   *)
(* with one more leading bit, so the left and right children of a rank are *)
(* a whole level apart.                                                    *)
(***************************************************************************)
EXTENDS Integers

LEFT == 0
RIGHT == 1

\* get_msb: the position of the most significant bit of n > 0.
GetMsb(n) == CHOOSE msb \in 0..30 : 2^msb <= n /\ n < 2^(msb + 1)

\* Mutant of GetChild: the heap numbering of a binary tree.
GetChildHeap(rank, child) == 2 * rank + 1 + child

GetChild(rank, child) ==
  LET msb == GetMsb(rank + 1)
  IN  2^(msb + 1) + child * 2^msb + ((rank + 1) % 2^msb) - 1

\* The parent drops the bit below the leading one.
GetParent(rank) ==
  LET msb == GetMsb(rank + 1)
  IN  2^(msb - 1) + ((rank + 1) % 2^(msb - 1)) - 1

\* A tree of n ranks: every rank has two children, whose parent it is, as far
\* as there are as many ranks; and every rank but 0 is a child, of a rank before it.
Tree(n) ==
  /\ \A r \in 0..(n - 1) :
       /\ {GetChild(r, LEFT), GetChild(r, RIGHT)} \subseteq Nat \ {0}
       /\ GetChild(r, LEFT) # GetChild(r, RIGHT)
       /\ \A child \in {GetChild(r, LEFT), GetChild(r, RIGHT)} : child < n => GetParent(child) = r
  /\ \A r \in 1..(n - 1) :
       /\ GetParent(r) \in 0..(r - 1)
       /\ r \in {GetChild(GetParent(r), LEFT), GetChild(GetParent(r), RIGHT)}
=============================================================================
