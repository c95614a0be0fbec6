---------------------------- MODULE MemoryTests ----------------------------
(***************************************************************************)
(* run_test_slice()'s choice of a test function, and what the functions    *)
(* promise: a faulty memory is reported, a good one is not.                *)
(***************************************************************************)
EXTENDS PatternTests, LoopTests, CacheTests

CONSTANTS
  Slices,    \* for each item, the slices <<first word, words>> given to a thread
  NoComps,   \* the values of no_comp
  Faults,    \* the faults of the memory
  Contents   \* what the slice may be filled with before the test

\* test_policy() gives whole pages, 512 words each.  The block move needs whole
\* pairs of blocks, and so many chunks at most that the blocks it looks at, one for
\* each chunk, lie in the lower half of the first.
ASSUME SliceAssumption ==
  \A i \in Items \cup CacheItems : \A s \in Slices[i] :
    /\ s[1] \in Nat /\ s[2] \in Nat \ {0} /\ s[1] % PageWords = 0
    /\ s[1] .. (s[1] + s[2] - 1) \subseteq Addresses
    /\ i \in PatternItems => s[2] % PageWords = 0
    /\ i = MEM_BLOCK_MOVE =>
         s[2] % (2 * BlockWords) = 0 /\ s[2] <= MoveChunk * (MoveChunk \div (2 * BlockWords))

\* Chunks are whole pages: a sweep down would leave out the first word of a slice if
\* its last chunk began right behind it.  The block move turns halves of blocks around
\* in each iteration, there are 80.
ASSUME SweepAssumption ==
  /\ PageWords > 2 /\ SPINSZ % PageWords = 0 /\ MOD_SZ <= SPINSZ
  /\ Iterations[MEM_BLOCK_MOVE] % 2 = 0

\* The line of a dead address line is a power of two, and one of a word's bits.
ASSUME FaultAssumption ==
  /\ \A f \in Faults :
       \/ f = NoFault
       \/ f \in StuckFaults(Addresses, Bits) \cup TransitionFaults(Addresses, Bits)
       \/ f \in CouplingFaults(Addresses, Bits)
       \/ /\ f \in LineFaults(Nat \ {0})
          /\ \A q \in 2 .. f.line : f.line % q = 0 => q % 2 = 0
          /\ \A a \in Addresses : Line(a, f.line) = 1 => AddressWord(a) # AddressWord(a - f.line)
  /\ \A a \in Addresses : AddressWord(a) \in Words
  /\ Contents \subseteq Words /\ HAS_COMPARISION \in NoComps

\* The cells a fault concerns are cells of the slice.
FaultIn(f, cells) ==
  /\ f.kind \in {"stuck", "transition", "coupling"} => f.at \in cells
  /\ f.kind = "coupling" => f.from \in cells
  /\ f.kind = "line" => \A a \in cells : CellOf(f, a) \in cells

\* Where the function for an item begins.
Started ==
  CASE item \in PatternItems ->
         /\ call = 1 /\ sweep = 1 /\ pc = "chunk"
         /\ p = start_p + (IF Sweep(Call(1), 1).which = "nth" THEN Call(1).off ELSE 0)
         /\ k = (IF item = MEM_MOVE_INVER_32BIT THEN Call(1).off ELSE 0)
         /\ pat = Call(1).p1
    [] item = MEM_ADD_WALK_ONES ->
         /\ call = 1 /\ sweep = 0 /\ pc = "bank" /\ p = start_p /\ k = 0 /\ pat = Filled(1)
    [] item = MEM_RANDOM_ADDRESS ->
         /\ call = 1 /\ sweep = 0 /\ pc = "fillup" /\ p = start_p /\ k = 0 /\ pat = Filled(0)
    [] item = MEM_BLOCK_MOVE ->
         /\ call = 1 /\ sweep = 0 /\ pc = "blocks" /\ p = start_p /\ k = 0 /\ pat = Filled(0)
    [] item \in CacheItems ->
         /\ call = 1 /\ sweep = 0 /\ p = start_p /\ k = 0 /\ pat = Filled(0)
         /\ pc = (CASE item = CPU_CACHE_RDWR -> "rdwr_fill"
                    [] item = CPU_CACHE_RANDOM_DATA -> "rand_fill"
                    [] OTHER -> "memset")

Init ==
  /\ item \in Items \cup CacheItems
  /\ \E s \in Slices[item] : start_p = s[1] /\ cnt = s[2]
  /\ no_comp \in (IF item \in CacheItems THEN {HAS_COMPARISION} ELSE NoComps)
  /\ fault \in {f \in Faults : FaultIn(f, Slice)}
  /\ \E w \in Contents : mem = [a \in Addresses |-> w]
  /\ Started
  /\ pe = start_p /\ done = FALSE /\ mask = 0 /\ ret = ERR_SUCCESS

Next == PatternNext \/ AddressNext \/ BlockMoveNext \/ CacheNext

Spec == Init /\ [][Next]_vars
FairSpec == Spec /\ WF_vars(Next)

----------------------------------------------------------------------------
TypeOK ==
  /\ item \in Items \cup CacheItems /\ start_p \in Nat /\ cnt \in Nat /\ fault \in Faults /\ no_comp \in NoComps
  /\ mem \in [Addresses -> Words]
  /\ pc \in {"chunk", "words", "walk", "bank", "fillup", "flip", "verify", "blocks", "move",
             "check", "memset", "carry", "rdwr_fill", "rdwr", "rand_fill", "comp", "returned"}
  /\ {call, sweep, k, mask} \subseteq Nat /\ {p, pe} \subseteq Int
  /\ done \in BOOLEAN /\ pat \in Words /\ ret \in ERR_SUCCESS..(IF item \in CacheItems THEN ERR_CACHE_RAND_DATA ELSE ERR_FAIL)

\* A good memory passes every test, whatever the size of the slice and of the chunks:
\* each sweep finds in every word exactly what the sweep before it wrote there, also
\* where it goes back and has to rebuild the pattern of the other direction.
NoFalseAlarm == Returned /\ fault = NoFault => ret = ERR_SUCCESS

Verifies == Compares \/ item = MEM_MARCH_C_TEST

\* The tests that write both values of every bit and read them back report a bit that
\* is stuck, in every word of the slice.
StuckBitReported ==
  /\ Returned /\ fault.kind = "stuck" /\ Verifies
  /\ item \in {MEM_MOVE_INVER_ONES_ZERO, MEM_MOVE_INVER_8BIT, MEM_MOVE_INVER_RANDOM,
               MEM_MOVE_INVER_32BIT, MEM_RANDOM_NUM_SEQUENCE, MEM_MODULO, MEM_MARCH_C_TEST}
  => ret # ERR_SUCCESS

\* March C reports a bit that cannot change in one direction, and any coupling of two
\* words, although march_c() forgets the result of its last sweep in all but the last
\* iteration.
MarchCComplete ==
  Returned /\ item = MEM_MARCH_C_TEST /\ fault.kind \in {"transition", "coupling"} => ret # ERR_SUCCESS

\* Two words that share a cell because an address line is dead are reported by the own
\* address test and March C, and by the walking ones if the line's weight is within the
\* slice, as it is seen from the slice's first page.
DeadLineReported ==
  /\ Returned /\ fault.kind = "line" /\ Verifies
  /\ \E a \in Slice : CellOf(fault, a) # a
  /\ \/ item \in {MEM_ADD_OWN_ADDRESS, MEM_MARCH_C_TEST}
     \/ item = MEM_ADD_WALK_ONES /\ start_p + fault.line < end /\ Line(start_p, fault.line) = 0
  => ret # ERR_SUCCESS

\* The walking and the stuck cache test look at a few words only, and they merge two
\* words with | (cache_stuck.c:82), which over ones hides a zero: still a stuck bit of
\* a word they look at is reported, by the store of the pattern to that word.
WatchedBitReported ==
  /\ Returned /\ fault.kind = "stuck" /\ item \in {CPU_CACHE_WALKING, CPU_CACHE_STUCK}
  /\ fault.at \in WatchedWords
  => ret # ERR_SUCCESS

\* What run_test_slice() returns of a test is true of the memory: good memory
\* passes, and the faults a test is made for do not (mem_controller.c:319-423).
VerdictRight ==
  TypeOK /\ NoFalseAlarm /\ StuckBitReported /\ MarchCComplete /\ DeadLineReported
    /\ WatchedBitReported

\* No test writes a word of another slice, but the random address test may complement
\* the first word behind its own, in whatever cell a dead line makes of it.
OwnSliceOnly ==
  [][\A a \in Addresses \ Slice :
       mem'[a] # mem[a] => item = MEM_RANDOM_ADDRESS /\ a = CellOf(fault, end)]_vars

\* Every test ends.
Returns == <>Returned

\* "-s       slow test mode, do data verification during algorithm test" (mem_main.c:193):
\* with -s the random address test does not succeed on words that read wrong.
SlowModeVerifies ==
  Returned /\ item = MEM_RANDOM_ADDRESS /\ Compares /\ ret = ERR_SUCCESS => \A a \in Slice : Mixed(a)
=============================================================================
