---------------------------- MODULE TestFunction ----------------------------
(***************************************************************************)
(* What the functions of testlib share: the arguments run_test_slice()     *)
(* gives them, the memory they work on, their local variables and their    *)
(* return.  A thread runs one function at a time on a slice that is its    *)
(* own (see TestPolicy), so no other thread appears here.                  *)
(*                                                                         *)
(* The memory under test: words of bits, at most one fault in the cells or *)
(* in the address lines.  This is hardware; src/ only knows it through its *)
(* loads and stores.  A word is a function from bits, which keeps ~, <<    *)
(* and >> free of arithmetic.  An address counts words (ULV), not bytes.   *)
(***************************************************************************)
EXTENDS Integers

CONSTANTS
  UL_SIZE,   \* bits of a word: 64
  Addresses  \* the addresses of the words that exist

Bits == 0..(UL_SIZE - 1)

ASSUME WordAssumption ==
  /\ UL_SIZE \in Nat \ {0}
  /\ Addresses \subseteq Nat

Words == [Bits -> {0, 1}]

Filled(v) == [b \in Bits |-> v]
Not(w) == [b \in Bits |-> 1 - w[b]]
OneBit(n) == [b \in Bits |-> IF b = n THEN 1 ELSE 0]
\* w << n, with the n new bits equal to fill.
ShiftLeft(w, n, fill) == [b \in Bits |-> IF b < n THEN fill ELSE w[b - n]]
\* w >> 1, with the new top bit equal to fill.
ShiftRight(w, fill) == [b \in Bits |-> IF b = UL_SIZE - 1 THEN fill ELSE w[b + 1]]
\* (UL)p: the low bits of an address.
AddressWord(a) == [b \in Bits |-> (a \div 2^b) % 2]

(***************************************************************************)
(* Faults:                                                                 *)
(*   stuck       bit b of cell at always reads as v                        *)
(*   transition  bit b of cell at cannot be changed to v                   *)
(*   coupling    when bit fb of cell from changes to fv, bit b of cell at  *)
(*               becomes v, or flips if v = 2                              *)
(*   line        the address line of weight `line' is 0: a word with it    *)
(*               shares the cell of the word without it                    *)
(***************************************************************************)
NoFault == [kind |-> "none"]
StuckFaults(cells, bits) ==
  [kind: {"stuck"}, at: cells, b: bits, v: {0, 1}]
TransitionFaults(cells, bits) ==
  [kind: {"transition"}, at: cells, b: bits, v: {0, 1}]
CouplingFaults(cells, bits) ==
  {f \in [kind: {"coupling"}, from: cells, fb: bits, fv: {0, 1}, at: cells, b: bits, v: 0..2] :
     f.from # f.at}
LineFaults(lines) == [kind: {"line"}, line: lines]

Line(a, l) == (a \div l) % 2
CellOf(f, a) == IF f.kind = "line" /\ Line(a, f.line) = 1 THEN a - f.line ELSE a

Load(m, f, a) ==
  LET c == CellOf(f, a) IN
  IF f.kind = "stuck" /\ f.at = c THEN [m[c] EXCEPT ![f.b] = f.v] ELSE m[c]

\* What cell c keeps of word w.
Kept(m, f, c, w) ==
  IF f.kind = "transition" /\ f.at = c /\ m[c][f.b] # f.v
    THEN [w EXCEPT ![f.b] = 1 - f.v] ELSE w

Disturbs(m, f, c, w) ==
  f.kind = "coupling" /\ f.from = c /\ w[f.fb] = f.fv /\ m[c][f.fb] # f.fv

Store(m, f, a, w) ==
  LET c == CellOf(f, a)
      stored == [m EXCEPT ![c] = Kept(m, f, c, w)] IN
  IF Disturbs(m, f, c, w)
    THEN [stored EXCEPT ![f.at][f.b] = IF f.v = 2 THEN 1 - @ ELSE f.v]
    ELSE stored

-----------------------------------------------------------------------------
(* The functions                                                           *)

CONSTANTS
  HAS_COMPARISION,  \* the value of no_comp with -s
  Iterations        \* tseq[item].iter

ERR_SUCCESS == 0
ERR_FAIL == 1

MEM_ADD_WALK_ONES == 0
MEM_ADD_OWN_ADDRESS == 1
MEM_RANDOM_ADDRESS == 2
MEM_MOVE_INVER_ONES_ZERO == 3
MEM_MOVE_INVER_8BIT == 4
MEM_MOVE_INVER_RANDOM == 5
MEM_BLOCK_MOVE == 6
MEM_MOVE_INVER_32BIT == 7
MEM_RANDOM_NUM_SEQUENCE == 8
MEM_MODULO == 9
MEM_MARCH_C_TEST == 10
MEM_BIT_FADE_TEST == 11

Items == MEM_ADD_WALK_ONES..MEM_BIT_FADE_TEST

ASSUME IterationAssumption == Iterations \in [Items -> Nat \ {0}]

VARIABLES
  item,            \* the test item
  start_p, cnt,    \* the slice: first word, number of words
  no_comp,         \* compare or only write
  fault, mem,      \* the hardware
  pc,              \* where the function is
  call,            \* number of the call of the inner function (movinv1, modtst, ...)
  sweep,           \* number of the loop over the slice in that call
  p, pe, done,     \* current word, end of the current chunk, last chunk
  k, pat,          \* counter and pattern carried along the loop
  mask,            \* address bit that is walked, or carry of a rotation
  ret              \* result so far

arguments == <<item, start_p, cnt, no_comp, fault>>
vars == <<item, start_p, cnt, no_comp, fault, mem, pc, call, sweep, p, pe, done, k, pat, mask, ret>>

end == start_p + cnt
Slice == start_p..(end - 1)

Compares == no_comp = HAS_COMPARISION
Returned == pc = "returned"

\* The function ends; its caller only looks whether the result is 0.
Return(r) ==
  /\ pc' = "returned"
  /\ ret' = r
  /\ UNCHANGED <<call, sweep, p, pe, done, k, pat, mask>>
=============================================================================
