----------------------------- MODULE LoopTests -----------------------------
(***************************************************************************)
(* The tests with a loop of their own.  Two aim at address lines:          *)
(* addr_walk_ones() watches one word while it writes its complement to     *)
(* words whose address differs in one bit, test_cache_randaddr()           *)
(* complements words chosen at random.                                     *)
(*                                                                         *)
(* addr_walk_ones() goes through the slice in four passes (sweep): two     *)
(* over the first page, two over the banks of 1 MB.  `p += bank' counts    *)
(* words, not bytes, so it goes on eight banks.                            *)
(*                                                                         *)
(* test_block_move() fills the slice with blocks of 64 bytes, moves the    *)
(* first half of each chunk up and back again, 32 bytes further, iter      *)
(* times, then compares.  The loop that compared the whole chunk is        *)
(* compiled out: of each chunk one block is looked at, and p only advances *)
(* by that block, so it stays in the lower half of the first chunk.  movsl *)
(* moves half words; here it moves words.                                  *)
(***************************************************************************)
EXTENDS TestFunction

CONSTANTS
  PageWords,       \* 4 KB
  BankWords,       \* 1 MB
  UL_BYTES,        \* sizeof(UL)
  Rounds,          \* how often the lines are walked: 100 and 50 times
  RandBankWords,   \* MEM_BANK_SIZE: a bank of the random address test
  RandCount,       \* bound on the words complemented in a bank: 128 K
  mix_random,      \* word written to each address
  MoveChunk        \* words of a chunk of the block move: 4 * SPINSZ

ASSUME AddressAssumption ==
  /\ {PageWords, BankWords, UL_BYTES, Rounds, RandBankWords, MoveChunk} \subseteq Nat \ {0}
  /\ RandCount \in Nat
  /\ mix_random \in [Addresses -> Words]

RoundUp(a, n) == n * ((a + n - 1) \div n)

----------------------------------------------------------------------------
Passes == 4
Global == sweep <= 2

\* A pass begins: *p = p1; p1 = ~p1.
WatchWord(a, word) ==
  /\ p' = a
  /\ mem' = Store(mem, fault, a, word)
  /\ pat' = Not(word)
  /\ k' = 1 /\ mask' = 1
  /\ pc' = "walk"

Continue == UNCHANGED <<arguments, call, pe, done>>

WalkPass(s, word) ==
  /\ sweep' = s
  /\ LET first == RoundUp(start_p, IF s <= 2 THEN PageWords ELSE BankWords) IN
     IF s <= 2 \/ first < end
       THEN WatchWord(first, word)
       ELSE pc' = "bank" /\ p' = first /\ pat' = word /\ UNCHANGED <<mem, k, mask>>

LineIsSet == Line(p, mask) = 1

\* Mutant: `continue' without the shift.
SkipLineInPlace ==
  /\ item = MEM_ADD_WALK_ONES /\ pc = "walk"
  /\ LineIsSet
  /\ UNCHANGED vars

\* p | mask equals p.
SkipLine ==
  /\ item = MEM_ADD_WALK_ONES /\ pc = "walk"
  /\ LineIsSet
  /\ mask' = 2 * mask
  /\ UNCHANGED <<arguments, mem, pc, call, sweep, p, pe, done, k, pat, ret>>

\* An error ends the rounds (i = 1000, i = 200), not the walk it was found in.
WalkLine ==
  /\ item = MEM_ADD_WALK_ONES /\ pc = "walk"
  /\ ~LineIsSet /\ p + mask < end
  /\ mem' = Store(mem, fault, p + mask, pat)
  /\ LET bad == Compares /\ Load(mem', fault, p) # Not(pat) IN
     /\ ret' = IF bad THEN ERR_FAIL ELSE ret
     /\ k' = IF bad THEN Rounds ELSE k
  /\ mask' = 2 * mask
  /\ UNCHANGED <<arguments, pc, call, sweep, p, pe, done, pat>>

EndWalk ==
  /\ item = MEM_ADD_WALK_ONES /\ pc = "walk"
  /\ ~LineIsSet /\ p + mask >= end
  /\ IF k < Rounds
       THEN k' = k + 1 /\ mask' = 1 /\ UNCHANGED <<mem, pc, sweep, p, pat, ret>>
     ELSE IF Global
       THEN CASE ret # ERR_SUCCESS -> Return(ret) /\ UNCHANGED mem
              [] sweep = 1 -> WalkPass(2, pat) /\ UNCHANGED ret
              [] OTHER -> WalkPass(3, Filled(0)) /\ UNCHANGED ret
     ELSE IF p + UL_BYTES * BankWords < end
       THEN WatchWord(p + UL_BYTES * BankWords, Not(pat)) /\ UNCHANGED <<sweep, ret>>
     ELSE /\ pc' = "bank" /\ p' = p + UL_BYTES * BankWords /\ pat' = Not(pat)
          /\ UNCHANGED <<mem, sweep, k, mask, ret>>
  /\ Continue

\* The passes begin, or one over the banks is over: p1 = ~p1.
EndBanks ==
  /\ item = MEM_ADD_WALK_ONES /\ pc = "bank"
  /\ IF ret # ERR_SUCCESS \/ sweep = Passes
       THEN Return(ret) /\ UNCHANGED mem
       ELSE WalkPass(sweep + 1, Not(pat)) /\ UNCHANGED ret
  /\ Continue

----------------------------------------------------------------------------
(* test_cache_randaddr(): fill, complement words bank by bank, verify.      *)

RandBanks == cnt \div RandBankWords
Remain == cnt - RandBanks * RandBankWords
BankSize == IF sweep <= RandBanks THEN RandBankWords ELSE Remain

randaddr_fillup ==
  /\ item = MEM_RANDOM_ADDRESS /\ pc = "fillup"
  /\ IF p < end
       THEN /\ mem' = Store(mem, fault, p, mix_random[p])
            /\ p' = p + 1
            /\ UNCHANGED <<pc, sweep, k>>
       ELSE pc' = "flip" /\ p' = start_p /\ sweep' = 1 /\ k' = 0 /\ UNCHANGED mem
  /\ UNCHANGED <<arguments, call, pe, done, pat, mask, ret>>

\* (float)rand / (RAND_MAX + 1.0) can be rounded up to 1: the last choice is the
\* word behind the bank.
randaddr_test ==
  /\ item = MEM_RANDOM_ADDRESS /\ pc = "flip"
  /\ k < RandCount /\ BankSize > 0
  /\ \E rand_val \in 0..BankSize :
       mem' = Store(mem, fault, p + rand_val, Not(Load(mem, fault, p + rand_val)))
  /\ k' = k + 1
  /\ UNCHANGED <<arguments, pc, call, sweep, p, pe, done, pat, mask, ret>>

EndRandBank ==
  /\ item = MEM_RANDOM_ADDRESS /\ pc = "flip"
  /\ IF sweep <= RandBanks
       THEN sweep' = sweep + 1 /\ p' = p + RandBankWords /\ k' = 0 /\ UNCHANGED pc
       ELSE pc' = "verify" /\ p' = start_p /\ UNCHANGED <<sweep, k>>
  /\ UNCHANGED <<arguments, mem, call, pe, done, pat, mask, ret>>

\* This file compares unless no_comp is NO_COMPARISION, which has the value of
\* HAS_COMPARISION.
NO_COMPARISION == 1

Mixed(a) == Load(mem, fault, a) \in {mix_random[a], Not(mix_random[a])}

randaddr_verify ==
  /\ item = MEM_RANDOM_ADDRESS /\ pc = "verify"
  /\ IF p < end /\ (no_comp = NO_COMPARISION \/ Mixed(p))
       THEN p' = p + 1 /\ UNCHANGED <<pc, call, sweep, pe, done, k, pat, mask, ret>>
       ELSE Return(IF p < end THEN ERR_FAIL ELSE ERR_SUCCESS)
  /\ UNCHANGED <<arguments, mem>>

AddressNext ==
  \/ SkipLine \/ WalkLine \/ EndWalk \/ EndBanks
  \/ randaddr_fillup \/ randaddr_test \/ EndRandBank \/ randaddr_verify

-----------------------------------------------------------------------------
(* Block move                                                              *)

BlockWords == 8
HalfBlock == 4

\* A chunk is whole pairs of blocks.
ASSUME ChunkAssumption == MoveChunk % (2 * BlockWords) = 0

\* The words of a block that hold the complement of its pattern.
Complemented == {2, 5, 7}
BlockWord(w, n) == IF n \in Complemented THEN Not(w) ELSE w

ChunkEnd(a) == IF a + MoveChunk >= end THEN end ELSE a + MoveChunk
Half == (pe - p) \div 2

\* rcl rotates the pattern of the next block through the carry (mask), which nothing
\* sets before the first block of a chunk.
FillBlockWord ==
  /\ item = MEM_BLOCK_MOVE /\ pc = "blocks"
  /\ p < end
  /\ LET w == IF p = pe THEN OneBit(0) ELSE pat
         last == k = BlockWords - 1 IN
     \E carry \in IF p = pe THEN {0, 1} ELSE {mask} :
       /\ mem' = Store(mem, fault, p, BlockWord(w, k))
       /\ pat' = IF last THEN ShiftLeft(w, 1, carry) ELSE w
       /\ mask' = IF last THEN w[UL_SIZE - 1] ELSE carry
  /\ p' = p + 1
  /\ k' = (k + 1) % BlockWords
  /\ pe' = IF p = pe THEN ChunkEnd(p) ELSE pe
  /\ UNCHANGED <<arguments, pc, call, sweep, done, ret>>

StartMoving ==
  /\ item = MEM_BLOCK_MOVE /\ pc = "blocks"
  /\ p = end
  /\ pc' = "move" /\ p' = start_p /\ pe' = ChunkEnd(start_p)
  /\ call' = 1 /\ sweep' = 1 /\ k' = 0
  /\ UNCHANGED <<arguments, mem, done, pat, mask, ret>>

\* The three copies of an iteration: up by half a chunk, back to 32 bytes behind
\* its start, and the rest to its start.
Source == IF sweep = 1 THEN p + k ELSE p + Half + k
Dest ==
  CASE sweep = 1 -> p + Half + k
    [] sweep = 2 /\ k < Half - HalfBlock -> p + HalfBlock + k
    [] sweep = 2 /\ k >= Half - HalfBlock -> p + k - (Half - HalfBlock)

MoveWord ==
  /\ item = MEM_BLOCK_MOVE /\ pc = "move"
  /\ k < Half
  /\ mem' = Store(mem, fault, Dest, Load(mem, fault, Source))
  /\ k' = k + 1
  /\ UNCHANGED <<arguments, pc, call, sweep, p, pe, done, pat, mask, ret>>

EndMove ==
  /\ item = MEM_BLOCK_MOVE /\ pc = "move"
  /\ k = Half
  /\ k' = 0
  /\ CASE sweep = 1 -> sweep' = 2 /\ UNCHANGED <<pc, call, p, pe>>
       [] sweep = 2 /\ call < Iterations[item] ->
            sweep' = 1 /\ call' = call + 1 /\ UNCHANGED <<pc, p, pe>>
       [] sweep = 2 /\ call = Iterations[item] /\ pe < end ->
            sweep' = 1 /\ call' = 1 /\ p' = pe /\ pe' = ChunkEnd(pe) /\ UNCHANGED pc
       [] OTHER ->
            pc' = "check" /\ p' = start_p /\ pe' = ChunkEnd(start_p) /\ UNCHANGED <<sweep, call>>
  /\ UNCHANGED <<arguments, mem, done, pat, mask, ret>>

BlockIsRight(a) ==
  LET w(n) == Load(mem, fault, a + n) IN
  /\ w(1) = w(0) /\ w(6) = w(0)
  /\ w(0) \in {w(3), w(4)}
  /\ \A n \in Complemented : w(n) = Not(w(0))

CheckBlock ==
  /\ item = MEM_BLOCK_MOVE /\ pc = "check"
  /\ IF Compares /\ ~BlockIsRight(p) THEN Return(ERR_FAIL)
     ELSE IF pe = end THEN Return(ERR_SUCCESS)
     ELSE /\ p' = p + BlockWords
          /\ pe' = ChunkEnd(pe)
          /\ UNCHANGED <<pc, call, sweep, done, k, pat, mask, ret>>
  /\ UNCHANGED <<arguments, mem>>

BlockMoveNext == FillBlockWord \/ StartMoving \/ MoveWord \/ EndMove \/ CheckBlock
=============================================================================
