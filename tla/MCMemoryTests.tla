--------------------------- MODULE MCMemoryTests ---------------------------
(* Words of 4 bits in pages of 4 words.                                       *)
EXTENDS MemoryTests

MCAddresses == 15..64
\* Less than a chunk, a chunk that is not aligned, a chunk and a half; for the walking
\* ones a slice without a bank's first word, and two with one or two of the words at
\* distance UL_BYTES * BankWords; for the block move half a chunk, a chunk and a half;
\* for the cache tests two banks and a half.
MCSlices ==
  [i \in Items \cup CacheItems |->
                   IF i = MEM_ADD_WALK_ONES THEN {<<20, 4>>, <<16, 8>>, <<16, 20>>}
                   ELSE IF i = MEM_BLOCK_MOVE THEN {<<16, 16>>, <<16, 48>>}
                   ELSE IF i = CPU_CACHE_RANDOM_DATA THEN {<<20, 4>>, <<20, 1>>}
                   ELSE IF i = CPU_CACHE_WALKING THEN {<<20, 20>>}
                   ELSE IF i \in CacheItems THEN {<<16, 20>>}
                   ELSE {<<16, 4>>, <<20, 8>>, <<16, 12>>}]
MCIterations == [i \in Items |-> IF i = MEM_MODULO THEN 1 ELSE 2]
MCDraws == [n \in 0..6 |-> [b \in Bits |-> (n + b) % 2]]
Mixed4(a) == (7 * a + 3) % 16
MCmix_random == [a \in MCAddresses |-> AddressWord(Mixed4(a))]
MCg_pat == <<Filled(1), Filled(0), [b \in Bits |-> b % 2]>>
MCContents == {Filled(0)}
MCCells == {20, 27}
MCBits == {0, 3}
MCFaults ==
  {NoFault} \cup StuckFaults(MCCells, MCBits) \cup TransitionFaults(MCCells, {3})
    \cup CouplingFaults(MCCells, {0}) \cup LineFaults({2, 8})
=============================================================================
