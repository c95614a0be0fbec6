---------------------------- MODULE PatternTests ----------------------------
(***************************************************************************)
(* The tests that sweep the slice with a pattern: own address, the moving  *)
(* inversions, the random sequence, modulo 20, March C and bit fade.  A    *)
(* test item is a series of calls of an inner function with different      *)
(* patterns, a call is a series of sweeps, a sweep visits words one after  *)
(* the other: it compares a word with one of the two patterns p1 and p2,   *)
(* writes one of them, or both.                                            *)
(*                                                                         *)
(* The inner loops of most functions run over chunks of SPINSZ words.      *)
(* movinv32() carries its pattern from word to word, and modtst() a count. *)
(* Pointers do not wrap around, so the tests for overflow are left out.    *)
(***************************************************************************)
EXTENDS TestFunction

CONSTANTS
  SPINSZ,     \* words of a chunk: 32 M
  MOD_SZ,     \* stride of modtst(): 20
  BYTE_BITS,  \* bits of a byte: 8
  Period,     \* of the random number generator
  Draws       \* its numbers after a seed

ASSUME PatternAssumption ==
  /\ SPINSZ \in Nat \ {0} /\ MOD_SZ \in Nat \ {0}
  /\ BYTE_BITS \in 1..UL_SIZE
  /\ Period \in Nat \ {0} /\ Draws \in [0..(Period - 1) -> Words]

\* The 64-bit version ends in << 32: the lower half of every number is 0.
rand_function(n) == [b \in Bits |-> IF b < UL_SIZE \div 2 THEN 0 ELSE Draws[n % Period][b]]

----------------------------------------------------------------------------
(* The calls a test item makes, numbered from 1.                            *)

Iter == Iterations[item]

SimpleCall(fn, pattern, n) ==
  [fn |-> fn, p1 |-> pattern, p2 |-> Not(pattern), iter |-> n, off |-> 0, lb |-> pattern, hb |-> pattern, sval |-> 0]

\* 0x80, 0x40, ... in every byte.
BytePattern(j) == [b \in Bits |-> IF b % BYTE_BITS = BYTE_BITS - 1 - j THEN 1 ELSE 0]

WalkingCall(j, inverted) ==
  LET Maybe(w) == IF inverted THEN Not(w) ELSE w IN
  [fn |-> "movinv32", p1 |-> Maybe(OneBit(j)), p2 |-> Maybe(Not(OneBit(j))), iter |-> Iter, off |-> j,
   lb |-> Maybe(OneBit(0)), hb |-> Maybe(OneBit(UL_SIZE - 1)), sval |-> IF inverted THEN 1 ELSE 0]

\* The pattern is switched after every call and left switched for the next offset.
ModuloCall(n) ==
  LET drawn == rand_function((n - 1) \div (2 * MOD_SZ))
      pattern == IF ((((n - 1) % (2 * MOD_SZ)) + 1) \div 2) % 2 = 0 THEN drawn ELSE Not(drawn) IN
  [SimpleCall("modtst", pattern, 2) EXCEPT !.off = ((n - 1) \div 2) % MOD_SZ]

Switched(n, pattern) == IF n % 2 = 1 THEN pattern ELSE Not(pattern)

Calls ==
  CASE item = MEM_ADD_OWN_ADDRESS -> 1
    [] item = MEM_MOVE_INVER_ONES_ZERO -> 2
    [] item = MEM_MOVE_INVER_8BIT -> 2 * BYTE_BITS
    [] item = MEM_MOVE_INVER_RANDOM -> Iter
    [] item = MEM_MOVE_INVER_32BIT -> 2 * UL_SIZE
    [] item = MEM_RANDOM_NUM_SEQUENCE -> 1
    [] item = MEM_MODULO -> 2 * MOD_SZ * Iter
    [] item = MEM_MARCH_C_TEST -> 1
    [] item = MEM_BIT_FADE_TEST -> 1

Call(n) ==
  CASE item = MEM_ADD_OWN_ADDRESS -> SimpleCall("addr_walk_own", Filled(0), 1)
    [] item = MEM_MOVE_INVER_ONES_ZERO -> SimpleCall("movinv1", Switched(n, Filled(0)), Iter)
    [] item = MEM_MOVE_INVER_8BIT -> SimpleCall("movinv1", Switched(n, BytePattern((n - 1) \div 2)), Iter)
    [] item = MEM_MOVE_INVER_RANDOM -> SimpleCall("movinv1", rand_function(n - 1), 2)
    [] item = MEM_MOVE_INVER_32BIT -> WalkingCall((n - 1) \div 2, n % 2 = 0)
    [] item = MEM_RANDOM_NUM_SEQUENCE -> SimpleCall("movinvr", Filled(0), 1)
    [] item = MEM_MODULO -> ModuloCall(n)
    [] item = MEM_MARCH_C_TEST -> SimpleCall("march_c", Filled(0), Iter)
    [] item = MEM_BIT_FADE_TEST -> SimpleCall("bit_fade", Filled(0), 1)

PatternItems ==
  {MEM_ADD_OWN_ADDRESS, MEM_MOVE_INVER_ONES_ZERO, MEM_MOVE_INVER_8BIT, MEM_MOVE_INVER_RANDOM,
   MEM_MOVE_INVER_32BIT, MEM_RANDOM_NUM_SEQUENCE, MEM_MODULO, MEM_MARCH_C_TEST, MEM_BIT_FADE_TEST}

----------------------------------------------------------------------------
(* The sweeps of a call.  check and write name a pattern or "none"; which   *)
(* is "all" words, each MOD_SZ-"nth", or the "rest".                        *)

Up(check, write) == [down |-> FALSE, check |-> check, write |-> write, which |-> "all"]
Down(check, write) == [Up(check, write) EXCEPT !.down = TRUE]
Nth(check, write) == [Up(check, write) EXCEPT !.which = "nth"]
Rest(check, write) == [Up(check, write) EXCEPT !.which = "rest"]
Fill == Up("none", "p1")

movinv1(s) ==
  IF s = 1 THEN Fill ELSE IF s % 2 = 0 THEN Up("p1", "p2") ELSE Down("p2", "p1")
movinvr(s) ==
  CASE s = 1 -> Fill [] s = 2 -> Up("p1", "p2") [] s = 3 -> Up("p2", "p1")
modtst(s, sweeps) ==
  IF s = 1 THEN Nth("none", "p1") ELSE IF s < sweeps THEN Rest("none", "p2") ELSE Nth("p1", "none")
\* Mutant: both halves of the march go up.
march_c_up(s) ==
  IF s = 1 THEN Fill
  ELSE LET step == (s - 2) % 3 IN
       CASE step = 0 -> Up("p1", "p2") [] step = 1 -> Up("p2", "p1") [] step = 2 -> Up("p1", "none")
march_c(s) ==
  IF s = 1 THEN Fill
  ELSE LET step == (s - 2) % 6 IN
       CASE step = 0 -> Up("p1", "p2")
         [] step = 1 -> Up("p2", "p1")
         [] step = 2 -> Up("p1", "none")
         [] step = 3 -> Down("p1", "p2")
         [] step = 4 -> Down("p2", "p1")
         [] step = 5 -> Down("p1", "none")

Sweeps(c) ==
  CASE c.fn \in {"movinv1", "movinv32"} -> 1 + 2 * c.iter
    [] c.fn = "movinvr" -> 3
    [] c.fn = "modtst" -> 2 + c.iter
    [] c.fn = "march_c" -> 1 + 6 * c.iter
    [] c.fn \in {"bit_fade", "addr_walk_own"} -> 2

Sweep(c, s) ==
  CASE c.fn \in {"movinv1", "movinv32"} -> movinv1(s)
    [] c.fn = "movinvr" -> movinvr(s)
    [] c.fn = "modtst" -> modtst(s, Sweeps(c))
    [] c.fn = "march_c" -> march_c(s)
    [] c.fn \in {"bit_fade", "addr_walk_own"} -> IF s = 1 THEN Fill ELSE Up("p1", "none")

Chunked(c) == c.fn \in {"movinv1", "movinv32", "movinvr", "modtst"}
Checks(c) == Compares \/ c.fn = "march_c"   \* March C looks at no_comp no more
\* What an error does: movinv1() notes it and goes on, movinv32() returns at the
\* end of the chunk, the others return at once.
StopsAtOnce(c) == c.fn \notin {"movinv1", "movinv32"}
StopsAtChunk(c) == c.fn = "movinv32"
\* march_c() does not look at the result of its last sweep before it goes on.
Unchecked(c) == c.fn = "march_c" /\ sweep > 1 /\ (sweep - 2) % 6 = 5

----------------------------------------------------------------------------
(* The pattern of movinv32().                                               *)

RestartPattern(c, s) ==
  IF Sweep(c, s).down
    \* The sweep before went one step too far: back up.
    THEN LET n == (k - 1) % UL_SIZE IN
         /\ k' = n + 1
         /\ pat' = ShiftLeft(c.lb, n, c.sval)
    ELSE k' = (IF c.fn = "movinv32" THEN c.off ELSE 0) /\ pat' = c.p1

NextPattern(c, s) ==
  IF c.fn # "movinv32" THEN UNCHANGED <<k, pat>>
  ELSE IF s.down
    THEN IF k - 1 <= 0 THEN k' = UL_SIZE /\ pat' = c.hb
                       ELSE k' = k - 1 /\ pat' = ShiftRight(pat, c.sval)
    ELSE IF k + 1 >= UL_SIZE THEN k' = 0 /\ pat' = c.lb
                             ELSE k' = k + 1 /\ pat' = ShiftLeft(pat, 1, c.sval)

\* The value of p1 or p2 for the current word.
Pattern(c, name) ==
  LET first == CASE c.fn = "movinv32" -> pat
                 [] c.fn = "movinvr" -> rand_function(p - start_p)
                 [] c.fn = "addr_walk_own" -> AddressWord(p)
                 [] OTHER -> c.p1 IN
  IF name = "p1" THEN first ELSE Not(first)

----------------------------------------------------------------------------
StartSweep(n, s) ==
  LET c == Call(n)
      first == CASE Sweep(c, s).down -> end - 1
                 [] Sweep(c, s).which = "nth" -> start_p + c.off
                 [] OTHER -> start_p IN
  /\ call' = n /\ sweep' = s
  /\ p' = first
  /\ pe' = IF Sweep(c, s).down THEN end - 1 ELSE start_p
  /\ done' = FALSE
  /\ RestartPattern(c, s)
  /\ pc' = "chunk"
  /\ UNCHANGED mask

\* The end of a sweep is that of a call after the last one, and that of the item
\* after the last call, or after one with an error.
EndSweep ==
  CASE sweep < Sweeps(Call(call)) ->
         /\ StartSweep(call, sweep + 1)
         /\ ret' = IF Call(call).fn = "march_c" THEN ERR_SUCCESS ELSE ret
    [] sweep = Sweeps(Call(call)) /\ ret = ERR_SUCCESS /\ call < Calls ->
         StartSweep(call + 1, 1) /\ UNCHANGED ret
    [] OTHER -> Return(ret)

NextChunk ==
  /\ item \in PatternItems /\ pc = "chunk"
  /\ LET c == Call(call)
         s == Sweep(c, sweep)
         span == IF Chunked(c) THEN SPINSZ ELSE cnt
         next == IF s.down THEN (IF pe - span <= start_p THEN start_p ELSE pe - span)
                           ELSE (IF pe + span >= end THEN end ELSE pe + span) IN
     IF done \/ (Chunked(c) /\ p = next)
       THEN EndSweep
       ELSE /\ pe' = next
            /\ done' = (next = IF s.down THEN start_p ELSE end)
            /\ pc' = "words"
            /\ UNCHANGED <<call, sweep, p, k, pat, mask, ret>>
  /\ UNCHANGED <<arguments, mem>>

\* modtst() counts the words of a "rest" sweep modulo MOD_SZ and skips its own.
Skipped(c, s) == s.which = "rest" /\ k = c.off

\* Mutant: one word too many.
InChunkClosed(s) == IF s.down THEN p >= pe ELSE p <= pe
InChunk(s) == IF s.down THEN p >= pe ELSE p < pe

VisitWord ==
  /\ item \in PatternItems /\ pc = "words"
  /\ LET c == Call(call)
         s == Sweep(c, sweep)
         bad == s.check # "none" /\ Checks(c) /\ Load(mem, fault, p) # Pattern(c, s.check) IN
     /\ InChunk(s)
     /\ CASE bad /\ Unchecked(c) ->
               /\ pc' = "chunk" /\ done' = TRUE /\ ret' = ERR_FAIL
               /\ UNCHANGED <<mem, call, sweep, p, pe, k, pat, mask>>
          [] bad /\ StopsAtOnce(c) /\ ~Unchecked(c) -> Return(ERR_FAIL) /\ UNCHANGED mem
          [] OTHER ->
               /\ ret' = IF bad THEN ERR_FAIL ELSE ret
               /\ mem' = IF s.write = "none" \/ Skipped(c, s) THEN mem
                         ELSE Store(mem, fault, p, Pattern(c, s.write))
               /\ p' = IF s.down THEN p - 1 ELSE IF s.which = "nth" THEN p + MOD_SZ ELSE p + 1
               /\ IF s.which = "rest" THEN k' = (k + 1) % MOD_SZ /\ UNCHANGED pat
                                      ELSE NextPattern(c, s)
               /\ UNCHANGED <<pc, call, sweep, pe, done, mask>>
  /\ UNCHANGED arguments

EndChunk ==
  /\ item \in PatternItems /\ pc = "words"
  /\ LET c == Call(call) IN
     /\ ~InChunk(Sweep(c, sweep))
     /\ IF StopsAtChunk(c) /\ sweep > 1 /\ ret # ERR_SUCCESS
          THEN Return(ret)
          ELSE pc' = "chunk" /\ UNCHANGED <<call, sweep, p, pe, done, k, pat, mask, ret>>
  /\ UNCHANGED <<arguments, mem>>

PatternNext == NextChunk \/ VisitWord \/ EndChunk
=============================================================================
