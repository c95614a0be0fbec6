----------------------------- MODULE ErrorCodes -----------------------------
(***************************************************************************)
(* The 32-bit error codes of the program and what happens to one on its    *)
(* way out: exit() keeps its low byte, the parent rebuilds a code from the *)
(* byte, main() translates it to a command-line code, and the shell again  *)
(* sees one byte.  A code is the pair <<high 16 bits, low 16 bits>>,       *)
(* because 0xA0000000 and above do not fit TLC's integers.                 *)
(***************************************************************************)
EXTENDS Integers

Word == 0..65535

Code == Word \X Word

Byte == 0..255

ERR_SUCCESS == <<0, 0>>

\* A value of errno used as a return code.
Errno(e) == <<0, e>>

\* mem_err.h: the codes of the program itself, 0xA000____.
AppErr(n) == <<40960, n>>
ERR_BIND_CPU == AppErr(9)
ERR_CREATE_THREAD == AppErr(10)
ERR_MCE_MSG == AppErr(13)
ERR_READ_RAND_PATTERN == AppErr(14)
ERR_MCE_TERMINATE == <<43690, 43690>>

\* memory_err.h: the codes of the test library, 0x1020____; the algorithm
\* errors are 0x10 (address walking ones) to 0x1A (March C).
LibErr(n) == <<4128, n>>
AlgorithmErrors == {LibErr(n) : n \in 16..26}

\* A failed test child: module_test adds 0xA1000000 to the byte it exited with.
ChildErr(b) == <<41216, b>>

\* exit(ret) and WEXITSTATUS: the low byte is all that is kept.
LowByte(c) == c[2] % 256

\* code_map[]: the command-line code of each module error code.
code_map ==
  [c \in {AppErr(n) : n \in 1..15} \cup {ChildErr(n) : n \in 16..25}
           \cup {ChildErr(n) : n \in 32..38} \cup {ChildErr(10), ERR_MCE_TERMINATE} |->
     IF c = ERR_MCE_TERMINATE THEN 555
     ELSE IF c[1] = 41216
          THEN IF c[2] = 10 THEN 537 ELSE IF c[2] < 32 THEN 504 + c[2] ELSE 498 + c[2]
          ELSE CASE c[2] = 1 -> 1
                 [] c[2] = 3 -> 22
                 [] c[2] = 6 -> 6
                 [] OTHER -> 500 + c[2]]

\* Codes below 0xA0000000 are returned as they are; a code that the table does
\* not hold becomes -1.
return_cli_error_code(c) ==
  IF c[1] < 40960 THEN c[1] * 65536 + c[2]
  ELSE IF c \in DOMAIN code_map THEN code_map[c] ELSE -1

\* The byte the shell sees when main() returns the command-line code.
ExitStatus(c) == return_cli_error_code(c) % 256
=============================================================================
