-------------------------- MODULE MCBootmemRegions --------------------------
(* BootmemRegions with 16 pages of 2 bytes: RAM with and without holes and    *)
(* pages that are RAM in part; up to three blocks of three proximity domains, *)
(* in any order, apart, adjacent or overlapping; limits that cut a page, a    *)
(* range, or nothing.                                                         *)
EXTENDS BootmemRegions

F(s, e, t) == [start |-> s, end |-> e, type |-> t]

MCFirmwares ==
  {<<F(0, 31, "RAM")>>,
   <<F(0, 8, "RAM"), F(9, 12, "RESERVED"), F(13, 31, "RAM")>>,
   <<F(1, 6, "RAM"), F(8, 14, "RAM"), F(16, 17, "NVS"), F(18, 31, "RAM"), F(32, 33, "ACPI")>>,
   <<F(18, 31, "RAM"), F(0, 3, "RAM"), F(4, 17, "RAM")>>,
   <<F(0, 8, "RAM"), F(9, 9, "NVS"), F(10, 31, "RAM")>>,
   <<F(10, 15, "RAM"), F(0, 31, "RAM")>>}

Block(b, e, p, on) == [base |-> b, length |-> e - b, pxm |-> p, enabled |-> on]

MCBlocks ==
  {Block(0, 10, 0, TRUE), Block(10, 15, 0, TRUE), Block(15, 32, 0, TRUE), Block(20, 32, 1, TRUE),
   Block(4, 24, 1, TRUE), Block(0, 32, 0, TRUE), Block(12, 20, 2, TRUE), Block(0, 32, 2, FALSE), Block(10, 11, 0, TRUE)}

MCCpus == {<<>>, <<[pxm |-> 1, enabled |-> TRUE], [pxm |-> 0, enabled |-> FALSE]>>}

MCSrats == [cpu : MCCpus, mem : UNION {[1..k -> MCBlocks] : k \in 0..3}]
=============================================================================
