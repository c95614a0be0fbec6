----------------------------- MODULE CacheTests -----------------------------
(***************************************************************************)
(* The cache tests that work on a slice: a walking bit, a stuck bit, mixed *)
(* reads and writes, random data.  The walking and the stuck test carry a  *)
(* pattern through a bank, word by word and bit by bit, and look after     *)
(* every store at a few words of each half of the bank only; they do it    *)
(* over zeros (call 1) and over ones (call 2).  The random address test is *)
(* in LoopTests, the spill and tag test in AbsDiag.                     *)
(***************************************************************************)
EXTENDS PatternTests, Sequences

CONSTANTS
  CNT_PER_BANK,  \* words of a bank of 8 KB
  WalkWatched,   \* words looked at in each half by cache_walking.c: 3
  StuckWatched,  \* and by cache_stuck.c: 16
  CNT_PER_STEP,  \* words of a step of 16 MB in cache_rdwr.c
  g_pat          \* the patterns of cache_randdata.c

\* The words of module CPU_CACHE; 100 keeps its items apart from those of memory.
CPU_CACHE_WALKING == 101
CPU_CACHE_STUCK == 102
CPU_CACHE_RDWR == 103
CPU_CACHE_RANDOM_DATA == 104

CacheItems == CPU_CACHE_WALKING..CPU_CACHE_RANDOM_DATA

ERR_CACHE_WALK_1 == 2
ERR_CACHE_WALK_0 == 3
ERR_CACHE_STUCK == 4
ERR_CACHE_RDWR == 5
ERR_CACHE_RAND_DATA == 6

ASSUME CacheAssumption ==
  /\ {CNT_PER_BANK, CNT_PER_STEP} \subseteq Nat \ {0} /\ CNT_PER_BANK % 2 = 0
  /\ {WalkWatched, StuckWatched} \subseteq Nat
  /\ 2 * WalkWatched <= CNT_PER_BANK /\ 2 * StuckWatched <= CNT_PER_BANK
  /\ g_pat \in Seq(Words) /\ UL_SIZE % BYTE_BITS = 0

CacheStay == UNCHANGED <<arguments, call, pe, done>>

----------------------------------------------------------------------------
(* test_cache_walking(), test_cache_stuck()                                 *)

CacheBanks == cnt \div CNT_PER_BANK
LastBank == sweep = CacheBanks
pbank == start_p + (sweep - 1) * CNT_PER_BANK
Walking == item = CPU_CACHE_WALKING

\* cnt_cur: the walking test takes two banks together, but for the last.
cnt_cur == IF Walking /\ ~LastBank THEN 2 * CNT_PER_BANK ELSE CNT_PER_BANK
Watched == IF Walking THEN WalkWatched ELSE StuckWatched

Pad == Filled(call - 1)
WalkPattern == IF call = 1 THEN OneBit(mask) ELSE Not(OneBit(mask))

Or(v, w) == [b \in Bits |-> IF v[b] = 1 THEN 1 ELSE w[b]]

\* verify(): the word of a pair that has the pattern, if one has, and the other
\* one; two words without it are merged with |.
verify(m, idx, pattern, pad) ==
  \A i \in 0..(Watched - 1) :
    LET vpat == Load(m, fault, pbank + i)
        vpad == Load(m, fault, pbank + i + cnt_cur \div 2) IN
    CASE i = idx -> vpat = pattern /\ vpad = pad
      [] i + cnt_cur \div 2 = idx -> vpad = pattern /\ vpat = pad
      [] OTHER -> Or(vpad, vpat) = pad

\* memset(p_start, 0x00 or 0xff, block_bytes)
CacheMemset ==
  /\ item \in {CPU_CACHE_WALKING, CPU_CACHE_STUCK} /\ pc = "memset"
  /\ IF p < end
       THEN mem' = Store(mem, fault, p, Pad) /\ p' = p + 1
            /\ UNCHANGED <<pc, sweep, k, mask>>
       ELSE pc' = "carry" /\ sweep' = 1 /\ k' = 0 /\ mask' = 0
            /\ UNCHANGED <<mem, p>>
  /\ CacheStay /\ UNCHANGED <<pat, ret>>

\* fillup(): the stuck test clears the word before, the walking test the word
\* itself, after the look (clean_pat()).
Filled1 ==
  LET cleared == IF ~Walking /\ k > 0 THEN Store(mem, fault, pbank + k - 1, Pad)
                 ELSE mem
  IN Store(cleared, fault, pbank + k, WalkPattern)

\* A failure of the stuck test over zeros is returned as ERR_FAIL.
CacheError == CASE Walking /\ call = 1 -> ERR_CACHE_WALK_1
                [] Walking /\ call = 2 -> ERR_CACHE_WALK_0
                [] ~Walking /\ call = 1 -> ERR_FAIL
                [] OTHER -> ERR_CACHE_STUCK

CacheCarry ==
  /\ item \in {CPU_CACHE_WALKING, CPU_CACHE_STUCK} /\ pc = "carry"
  /\ sweep <= CacheBanks
  /\ IF verify(Filled1, k, WalkPattern, Pad)
       THEN /\ mem' = IF Walking THEN Store(Filled1, fault, pbank + k, Pad)
                                 ELSE Filled1
            /\ mask' = (mask + 1) % UL_SIZE
            /\ k' = IF mask + 1 < UL_SIZE THEN k
                    ELSE IF k + 1 < cnt_cur THEN k + 1 ELSE 0
            /\ sweep' = IF mask + 1 = UL_SIZE /\ k + 1 = cnt_cur THEN sweep + 1
                                                                 ELSE sweep
            /\ UNCHANGED <<pc, call, p, pe, done, pat, ret>>
       ELSE Return(CacheError) /\ mem' = Filled1
  /\ UNCHANGED arguments

CachePhaseEnds ==
  /\ item \in {CPU_CACHE_WALKING, CPU_CACHE_STUCK} /\ pc = "carry"
  /\ sweep > CacheBanks
  /\ IF call = 1
       THEN call' = 2 /\ pc' = "memset" /\ p' = start_p
            /\ UNCHANGED <<sweep, pe, done, k, pat, mask, ret>>
       ELSE Return(ERR_SUCCESS)
  /\ UNCHANGED <<arguments, mem>>

----------------------------------------------------------------------------
(* test_cache_rdwr(): every word holds the complement of its address; a     *)
(* word of a whole step is read or written again.                           *)

MKPAT(a) == Not(AddressWord(a))
RdwrEnd == start_p + (cnt \div CNT_PER_STEP) * CNT_PER_STEP

RdwrFillup ==
  /\ item = CPU_CACHE_RDWR /\ pc = "rdwr_fill"
  /\ IF p < end
       THEN mem' = Store(mem, fault, p, MKPAT(p)) /\ p' = p + 1 /\ UNCHANGED pc
       ELSE pc' = "rdwr" /\ p' = start_p /\ UNCHANGED mem
  /\ CacheStay /\ UNCHANGED <<sweep, k, pat, mask, ret>>

RdwrTest ==
  /\ item = CPU_CACHE_RDWR /\ pc = "rdwr"
  /\ \/ /\ p < RdwrEnd /\ Load(mem, fault, p) = MKPAT(p)
        /\ p' = p + 1
        /\ UNCHANGED <<mem, pc, call, sweep, pe, done, k, pat, mask, ret>>
     \/ /\ p < RdwrEnd /\ Load(mem, fault, p) # MKPAT(p)
        /\ Return(ERR_CACHE_RDWR) /\ UNCHANGED mem
     \/ /\ p < RdwrEnd
        /\ mem' = Store(mem, fault, p, MKPAT(p)) /\ p' = p + 1
        /\ UNCHANGED <<pc, call, sweep, pe, done, k, pat, mask, ret>>
     \/ p = RdwrEnd /\ Return(ERR_SUCCESS) /\ UNCHANGED mem
  /\ UNCHANGED arguments

----------------------------------------------------------------------------
(* test_cache_randdata(): two halves with the same random data.             *)

WordBytes == UL_SIZE \div BYTE_BITS
RandHalf == cnt \div 2

\* rand_function_a(): the offset counts bytes of g_pat, not patterns.
rand_function_a(n) ==
  [b \in Bits |->
     LET byte == n + b \div BYTE_BITS
     IN g_pat[1 + byte \div WordBytes][(byte % WordBytes) * BYTE_BITS
                                       + (b % BYTE_BITS)]]

\* *pa = ...; *pb = *pa
randdata_fillup ==
  /\ item = CPU_CACHE_RANDOM_DATA /\ pc = "rand_fill"
  /\ IF k < RandHalf
       THEN /\ \E n \in 0..(Len(g_pat) - 1) :
                 LET m == Store(mem, fault, start_p + k, rand_function_a(n))
                 IN mem' = Store(m, fault, start_p + RandHalf + k,
                                 Load(m, fault, start_p + k))
            /\ k' = k + 1 /\ UNCHANGED pc
       ELSE pc' = "comp" /\ k' = 0 /\ UNCHANGED mem
  /\ CacheStay /\ UNCHANGED <<sweep, p, pat, mask, ret>>

comp_long ==
  /\ item = CPU_CACHE_RANDOM_DATA /\ pc = "comp"
  /\ \/ /\ k < RandHalf
        /\ Load(mem, fault, start_p + k) = Load(mem, fault, start_p + RandHalf + k)
        /\ k' = k + 1
        /\ UNCHANGED <<pc, call, sweep, p, pe, done, pat, mask, ret>>
     \/ /\ k < RandHalf
        /\ Load(mem, fault, start_p + k) # Load(mem, fault, start_p + RandHalf + k)
        /\ Return(ERR_CACHE_RAND_DATA)
     \/ k = RandHalf /\ Return(ERR_SUCCESS)
  /\ UNCHANGED <<arguments, mem>>

CacheNext == CacheMemset \/ CacheCarry \/ CachePhaseEnds \/ RdwrFillup
             \/ RdwrTest \/ randdata_fillup \/ comp_long

\* The words the walking and the stuck test look at, bank by bank.
WatchedWords ==
  UNION {LET base == start_p + (b - 1) * CNT_PER_BANK
             half == IF Walking /\ b < CacheBanks THEN CNT_PER_BANK
                                                  ELSE CNT_PER_BANK \div 2
             near == base..(base + Watched - 1)
         IN near \cup {w + half : w \in near} : b \in 1..CacheBanks}
=============================================================================
