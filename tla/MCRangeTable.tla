---------------------------- MODULE MCRangeTable ----------------------------
(* RangeTable, and with it TestPolicy, with up to 4 ranges of 1 to 11 pages of *)
(* 4 bytes: fewer pages than cores, as many, and more, with and without a      *)
(* remainder; a table of 3 rows of 3 slices and up to 5 cores, so that slices  *)
(* overwrite the row's trailer, the next row and what follows the table.  Ints *)
(* have 3 bits, so that addresses exceed one.                                  *)
EXTENDS RangeTable

MCRange(first, pages) == [start |-> first * MIN_BLOCK_SIZE, end |-> (first + pages) * MIN_BLOCK_SIZE]

MCRWLists ==
  {<<>>} \cup {<<MCRange(1, a)>> : a \in 1..11}
         \cup {<<MCRange(0, a), MCRange(20, b)>> : a, b \in {1, 2, 3, 5, 7, 8, 11}}
         \cup {<<MCRange(1, a), MCRange(9, b), MCRange(17, c)>> : a, b, c \in {1, 2, 3, 5, 7}}
         \cup {[i \in 1..4 |-> MCRange(9 * i, a)] : a \in {1, 5}}

MCCpus == {-1, 0, 1, 2}
=============================================================================
