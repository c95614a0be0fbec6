---------------------------- MODULE CommandLine ----------------------------
(***************************************************************************)
(* main() up to init_module(), and parse(), which fills test_parm from the *)
(* options.  An option is a record of its letter and its argument.  The    *)
(* argument is what the checks of parse() tell apart; ok is FALSE for one  *)
(* with letters or a length that the option does not allow:                *)
(*   -d, -p, -m   a number                                                 *)
(*   -t           the items between commas: <<a>>, <<a, b>> for a~b, <<>>  *)
(*                for "~~~"                                                *)
(*   -r           the strings between commas (at most two matter)          *)
(* The locals of parse() live through all options, so what an earlier -r   *)
(* or -t left is still there when a later one is read.                     *)
(***************************************************************************)
EXTENDS Integers, Sequences, SequencesExt, ErrorCodes

CONSTANTS ITEM_COUNT,   \* number of test items, and rows of test_parm.test_item
          CORE_COUNT,   \* the most cores the program accepts
          DEFAULT_END,  \* test_p.end if there is no -r
          Argvs         \* the command lines

ASSUME CountAssumption ==
  ITEM_COUNT \in Nat \ {0} /\ CORE_COUNT \in Nat \ {0} /\ DEFAULT_END \in Nat

ERR_NO_PRIV == AppErr(1)
ERR_USE == AppErr(2)
ERR_PARAM == AppErr(3)

NO_SPECIFY_CPU == -1
UNSET == -1             \* an element of test_item that memset() left
NOT_HEX == 16           \* a letter that is no hex digit

Item == 1..ITEM_COUNT

\* What an option that is well formed has for its argument.
Numbers == {"d", "p", "m"}
Strings == [hex : BOOLEAN, digits : Seq(0..NOT_HEX)]

ASSUME ArgvsAssumption ==
  \A line \in Argvs :
    /\ DOMAIN line = 1..Len(line) /\ Len(line) \in Nat
    /\ \A k \in DOMAIN line : line[k].ok \in BOOLEAN
    /\ \A k \in DOMAIN line : line[k].ok =>
         /\ line[k].opt \in Numbers => line[k].arg \in Nat
         /\ line[k].opt = "t" => /\ line[k].arg \in Seq(Seq(Nat))
                                 /\ \A j \in DOMAIN line[k].arg : Len(line[k].arg[j]) <= 2
         /\ line[k].opt = "r" => line[k].arg \in Seq(Strings)

VARIABLES
  argv,                 \* the options
  n,                    \* how many of them are parsed
  p,                    \* test_parm
  start_str, end_str,   \* the two strings of -r
  pc,
  code                  \* what the program ends with

parser == <<n, start_str, end_str>>

Exit(c) == pc' = "exit" /\ code' = c

\* A string of -r: 0x or not, and digits.
EmptyString == [hex |-> FALSE, digits |-> <<>>]

ValidHex(str) == str.hex /\ NOT_HEX \notin ToSet(str.digits)

\* The value is put together digit by digit, each shifted four bits more than
\* the one on its right (there are 16 at most: a shift of 64 bits or more is
\* undefined).
get_hex_address(str) ==
  LET upto[k \in 0..Len(str.digits)] ==
        IF k = 0 THEN 0 ELSE 16 * upto[k - 1] + str.digits[k]
  IN  upto[Len(str.digits)]

\* One row of test_item from one item of -t; a row no number is given for stays.
Row(old, item) ==
  CASE Len(item) = 0 -> old
    [] Len(item) = 1 -> [old EXCEPT ![1] = item[1]]
    [] OTHER -> [old EXCEPT ![1] = item[1], ![2] = item[2]]

LegalItem(item) == \A i \in DOMAIN item : item[i] < ITEM_COUNT

-----------------------------------------------------------------------------
\* The next option is o and its argument is, or is not, well formed.
Option(o, ok) == pc = "parse" /\ n < Len(argv) /\ argv[n + 1].opt = o /\ argv[n + 1].ok = ok

Arg == argv[n + 1].arg

\* The option is accepted and parm is what test_parm becomes.
Accept(parm) == p' = parm /\ n' = n + 1 /\ UNCHANGED <<argv, pc, code>>

Refuse(c) == Exit(c) /\ UNCHANGED <<argv, parser, p>>

\* The checks of letters and lengths: "cpu" and digits, digits, ~ and commas.
MalformedOption == \E o \in {"d", "t", "r", "p", "m"} : Option(o, FALSE) /\ Refuse(ERR_PARAM)

\* -d cpuN
CpuOption ==
  /\ Option("d", TRUE)
  /\ IF Arg >= CORE_COUNT THEN Refuse(ERR_PARAM)
     ELSE Accept([p EXCEPT !.cpu = Arg]) /\ UNCHANGED <<start_str, end_str>>

\* -t: item i goes to row i, rows beyond the last item keep what they had.  The
\* code bounds no index: a list is of at most ITEM_COUNT items here.
ItemOption ==
  /\ Option("t", TRUE)
  /\ IF \E i \in DOMAIN Arg : ~LegalItem(Arg[i]) THEN Refuse(ERR_PARAM)
     ELSE /\ Accept([p EXCEPT !.test_item =
                       [i \in Item |-> IF i \in DOMAIN Arg THEN Row(@[i], Arg[i]) ELSE @[i]]])
          /\ UNCHANGED <<start_str, end_str>>

\* -r start,end: a string that is missing is the one of an earlier -r.
RangeOption ==
  /\ Option("r", TRUE)
  /\ LET s == IF Len(Arg) >= 1 THEN Arg[1] ELSE start_str
         e == IF Len(Arg) >= 2 THEN Arg[2] ELSE end_str
     IN IF ~ValidHex(s) \/ ~ValidHex(e) THEN Refuse(ERR_PARAM)
        ELSE /\ Accept([p EXCEPT !.start = get_hex_address(s), !.end = get_hex_address(e)])
             /\ start_str' = s /\ end_str' = e

\* -p level
VerboseOption ==
  /\ Option("p", TRUE)
  /\ IF Arg \notin 0..2 THEN Refuse(ERR_PARAM)
     ELSE Accept([p EXCEPT !.verbose = Arg]) /\ UNCHANGED <<start_str, end_str>>

\* -m mode: LOCAL, REMOTE or SPECIFIC
ModeOption ==
  /\ Option("m", TRUE)
  /\ IF Arg \notin 0..2 THEN Refuse(ERR_PARAM)
     ELSE Accept([p EXCEPT !.mode = Arg]) /\ UNCHANGED <<start_str, end_str>>

\* -e, -l, -c and -s set one field each.
FlagOption(o, field) ==
  /\ Option(o, TRUE)
  /\ Accept([p EXCEPT ![field] = TRUE])
  /\ UNCHANGED <<start_str, end_str>>

\* -v and -list print and exit.
VersionOption == Option("v", TRUE) /\ Refuse(ERR_SUCCESS)

\* An unknown option, a missing argument.
UnknownOption ==
  /\ Option("?", TRUE)
  /\ Exit(ERR_USE)
  /\ p' = [p EXCEPT !.cpu = NO_SPECIFY_CPU, !.mode = 0]
  /\ UNCHANGED <<argv, parser>>

\* getopt_long() moves what is no option to the end.
Operand == Option("operand", TRUE) /\ Accept(p) /\ UNCHANGED <<start_str, end_str>>

\* All options are read; what is no option is refused now.
ParseDone ==
  /\ pc = "parse" /\ n = Len(argv)
  /\ IF \E i \in DOMAIN argv : argv[i].opt = "operand" THEN Exit(ERR_USE)
     ELSE pc' = "root" /\ UNCHANGED code
  /\ UNCHANGED <<argv, parser, p>>

Parse ==
  \/ MalformedOption \/ CpuOption \/ ItemOption \/ RangeOption \/ VerboseOption \/ ModeOption
  \/ FlagOption("e", "exit_error") \/ FlagOption("l", "list_info")
  \/ FlagOption("c", "clear_ecc") \/ FlagOption("s", "no_comp")
  \/ VersionOption \/ UnknownOption \/ Operand \/ ParseDone

\* CheckInstance() counts the lines of ps(1) with the program's name.
CheckInstance ==
  /\ pc = "instance"
  /\ \/ Exit(<<65535, 65535>>)
     \/ pc' = "parse" /\ UNCHANGED code
  /\ UNCHANGED <<argv, parser, p>>

\* getuid()
CheckRoot ==
  /\ pc = "root"
  /\ \/ Exit(ERR_NO_PRIV)
     \/ pc' = "install" /\ UNCHANGED code
  /\ UNCHANGED <<argv, parser, p>>

\* What main() sets before it calls parse().
DefaultParm ==
  [cpu |-> NO_SPECIFY_CPU, test_item |-> [i \in Item |-> <<UNSET, UNSET>>],
   start |-> 0, end |-> DEFAULT_END, verbose |-> 0, mode |-> 0,
   exit_error |-> FALSE, list_info |-> FALSE, clear_ecc |-> FALSE, no_comp |-> FALSE]

CommandLineInit ==
  /\ argv \in Argvs
  /\ n = 0
  /\ p = DefaultParm
  /\ start_str = EmptyString /\ end_str = EmptyString
  /\ pc = "instance"
  /\ code = ERR_SUCCESS
=============================================================================
