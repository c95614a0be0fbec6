--------------------------- MODULE StartUpProofs ---------------------------
(***************************************************************************)
(* For all command lines, all regions of the driver and any page size: the *)
(* items and the bytes that will be tested are the ones asked for, and the *)
(* shell sees 0 only where the program did what it was asked to.           *)
(***************************************************************************)
EXTENDS StartUp, SequenceTheorems, FiniteSetTheorems, WellFoundedInduction, TLAPS

(* The inductive invariant. *)

TestRow == [1..2 -> {UNSET} \cup 0..(ITEM_COUNT - 1)]

Parm ==
  [cpu : {NO_SPECIFY_CPU} \cup 0..(CORE_COUNT - 1), test_item : [Item -> TestRow],
   start : Nat, end : Nat, verbose : 0..2, mode : 0..2,
   exit_error : BOOLEAN, list_info : BOOLEAN, clear_ecc : BOOLEAN, no_comp : BOOLEAN]

\* Before the regions are read, and where the options are all parsed.
Early == {"instance", "parse", "root", "install", "items", "mem_info", "open"}
Parsed == {"root", "install", "items", "mem_info", "open", "regions", "ready", "undefined"}

ParserType ==
  /\ argv \in Argvs /\ n \in 0..Len(argv) /\ p \in Parm
  /\ start_str \in Strings /\ end_str \in Strings
  /\ pc \in Early \cup {"regions", "ready", "exit", "undefined"}

RangesType ==
  /\ regions \in RegionLists /\ i \in 0..Len(regions)
  /\ test_item \in Seq(0..(ITEM_COUNT - 1))
  /\ RW_list \in Seq(ByteRange) /\ RD_list \in Seq(ByteRange) /\ raw_reg \in Seq(ByteRange)
  /\ max_phy_addr \in Nat /\ gaps \subseteq ByteRange

\* How far the parser is, and what is still empty before the regions are read.
Stages ==
  /\ pc = "instance" => n = 0
  /\ pc \in Parsed => n = Len(argv)
  /\ pc \in {"open", "regions"} => p.start <= p.end
  /\ pc \in Early => i = 0 /\ RW_list = <<>> /\ RD_list = <<>> /\ raw_reg = <<>> /\ max_phy_addr = 0

\* The codes that are no success.
Failures ==
  {ERR_PARAM, ERR_USE, ERR_NO_PRIV, <<65535, 65535>>, Errno(22), Errno(2), Errno(12),
   ERR_GET_MEM_INFO, ERR_INPUT_ADDRESS, ERR_TEST_POLICY, ERR_MCE_MSG}

CodeSound ==
  pc = "exit" =>
    \/ code \in Failures
    \/ p.list_info \/ p.clear_ecc \/ \E k \in DOMAIN argv : argv[k].opt = "v"

\* What the one -t that is well formed leaves in test_parm, once it is parsed.
Given(arg) == [j \in Item |-> IF j \in DOMAIN arg THEN Row(<<UNSET, UNSET>>, arg[j]) ELSE <<UNSET, UNSET>>]

ItemsGiven ==
  \A k \in DOMAIN argv :
    {j \in DOMAIN argv : argv[j].opt = "t"} = {k} =>
      /\ n < k => p.test_item = [j \in Item |-> <<UNSET, UNSET>>]
      /\ n >= k /\ argv[k].ok => p.test_item = Given(argv[k].arg)

ItemsExpanded ==
  /\ pc \in {"mem_info", "open", "regions", "ready"} /\ RowsUsed # 0 => test_item = Expanded
  /\ pc = "undefined" => RowsUsed # 0 /\ (RowsUsed = ITEM_COUNT \/ Len(Expanded) >= 2 * ITEM_COUNT)

First(m) == regions[m].start_pfn * PAGE_SIZE
After(m) == regions[m].end_pfn * PAGE_SIZE

\* A range lies in a region, one of those already looked at.
Within(r, m) == First(m) <= r.start /\ r.end <= After(m)

Scanned == {m \in DOMAIN regions : m > i}

\* Ranges in ascending order and apart, each in one of the regions ms.
AscendingIn(list, ms) ==
  \A k \in DOMAIN list :
    /\ list[k].start < list[k].end
    /\ \E m \in ms : Within(list[k], m)
    /\ k > 1 => list[k - 1].end <= list[k].start

WholePages(list) == \A k \in DOMAIN list : list[k].start % PAGE_SIZE = 0 /\ list[k].end % PAGE_SIZE = 0

\* raw_reg is descending, and a range of it may be empty.
DescendingIn(list, ms) ==
  \A k \in DOMAIN list :
    /\ list[k].start <= list[k].end
    /\ \E m \in ms : Within(list[k], m)
    /\ \A l \in DOMAIN list : l < k => list[k].end <= list[l].start

RangesPlaced ==
  /\ AscendingIn(RW_list, Scanned) /\ WholePages(RW_list)
  /\ AscendingIn(RD_list, Scanned)
  /\ DescendingIn(raw_reg, Scanned)

\* What the regions of type t have in common with the window, and the pages that have.
InWindow(b) == p.start <= b /\ b < p.end
RegionsOf(t) == UNION {First(m)..(After(m) - 1) : m \in {m \in Scanned : regions[m].type = t}}
PageInWindow(b) == \E c \in p.start..(p.end - 1) : c \div PAGE_SIZE = b \div PAGE_SIZE

WindowScanned ==
  pc = "regions" /\ ~p.list_info =>
    /\ Tested(RD_list) = {b \in RegionsOf("RD") : InWindow(b)}
    /\ Tested(RW_list) = {b \in RegionsOf("RW") : PageInWindow(b)}
    /\ Tested(raw_reg) = Tested(RW_list) \cup Tested(RD_list)
    /\ \A m \in Scanned : After(m) <= max_phy_addr

IInv ==
  /\ ParserType /\ RangesType /\ Stages /\ CodeSound /\ ItemsGiven /\ ItemsExpanded
  /\ RangesPlaced /\ WindowScanned /\ WindowTested /\ GapsAreTheRest

-----------------------------------------------------------------------------
(* Functions that are defined by recursion *)

\* A set of numbers that has one has a least one.
LEMMA LeastNat ==
  ASSUME NEW T, T \subseteq Nat, T # {}
  PROVE  \E x \in T : \A y \in T : x <= y
<1> DEFINE R == OpToRel(<, Nat)
<1>1. IsWellFoundedOn(R, Nat)
  BY NatLessThanWellFounded
<1>2. \A x, y \in Nat : <<x, y>> \in R <=> x < y
  BY DEF OpToRel
<1> HIDE DEF R
<1>3. PICK x \in T : \A y \in T : <<y, x>> \notin R
  BY <1>1, WFMin
<1>4. ASSUME NEW y \in T PROVE x <= y
  <2>1. <<y, x>> \notin R /\ x \in Nat /\ y \in Nat
    BY <1>3
  <2>2. ~(y < x)
    BY <1>2, <2>1
  <2> QED BY <2>1, <2>2
<1> QED BY <1>4

\* What holds of 0 and of the successor holds of all.
LEMMA UpTo ==
  ASSUME NEW L \in Nat, NEW P, 0 \in P, \A k \in 1..L : k - 1 \in P => k \in P
  PROVE  \A k \in 0..L : k \in P
<1> DEFINE Bad == {k \in 0..L : k \notin P}
<1> SUFFICES ASSUME Bad # {} PROVE FALSE
  OBVIOUS
<1>1. PICK m \in Bad : \A k \in Bad : m <= k
  <2>1. Bad \subseteq Nat
    OBVIOUS
  <2> HIDE DEF Bad
  <2> QED BY <2>1, LeastNat
<1>2. m \in 1..L /\ m \notin P /\ m - 1 \in 0..L
  <2>1. m \in 0..L /\ m \notin P
    BY <1>1
  <2>2. m # 0
    BY <2>1
  <2> QED BY <2>1, <2>2
<1>3. m - 1 \notin Bad
  <2> HIDE DEF Bad
  <2>1. m - 1 \in Bad => m <= m - 1
    BY <1>1
  <2> QED BY <1>2, <2>1
<1>4. m - 1 \in P
  BY <1>2, <1>3
<1> QED BY <1>2, <1>4

\* The values of a loop that starts with base and makes step[k] the k-th time.
Steps(S, L) == [1..L -> [S -> S]]
Looped(g, S, L, base, step) ==
  g \in [0..L -> S] /\ g[0] = base /\ \A k \in 1..L : g[k] = step[k][g[k - 1]]

\* A loop has its values: a recursive function on 0..L exists.
LEMMA Recursion ==
  ASSUME NEW L \in Nat, NEW S, NEW base \in S, NEW step \in Steps(S, L)
  PROVE  \E g : Looped(g, S, L, base, step)
<1> DEFINE P == {m \in 0..L : \E g : Looped(g, S, m, base, step)}
<1>1. 0 \in P
  <2>1. Looped([k \in 0..0 |-> base], S, 0, base, step)
    BY DEF Looped
  <2>2. 0 \in 0..L
    OBVIOUS
  <2> QED BY <2>1, <2>2
<1>2. ASSUME NEW m \in 1..L, m - 1 \in P PROVE m \in P
  <2>1. PICK g : Looped(g, S, m - 1, base, step)
    BY <1>2
  <2> DEFINE h == [k \in 0..m |-> IF k = m THEN step[m][g[m - 1]] ELSE g[k]]
  <2>2. \A k \in 0..m : k = m \/ k \in 0..(m - 1)
    OBVIOUS
  <2>3. g[m - 1] \in S /\ step[m] \in [S -> S]
    BY <2>1 DEF Looped, Steps
  <2>4. h \in [0..m -> S] /\ h[0] = base
    BY <2>1, <2>2, <2>3 DEF Looped
  <2>5. ASSUME NEW k \in 1..m PROVE h[k] = step[k][h[k - 1]]
    <3>1. h[k - 1] = g[k - 1]
      OBVIOUS
    <3>2. CASE k = m
      BY <3>1, <3>2
    <3>3. CASE k # m
      <4>1. k \in 1..(m - 1) /\ h[k] = g[k]
        BY <3>3
      <4> QED BY <2>1, <3>1, <4>1 DEF Looped
    <3> QED BY <3>2, <3>3
  <2> HIDE DEF h
  <2>6. Looped(h, S, m, base, step)
    BY <2>4, <2>5 DEF Looped
  <2>7. m \in 0..L
    OBVIOUS
  <2> QED BY <2>6, <2>7
<1> HIDE DEF P
<1>3. L \in P
  <2>1. \A k \in 0..L : k \in P
    BY <1>1, <1>2, UpTo
  <2> QED BY <2>1
<1> QED BY <1>3 DEF P

\* The value of a string of -r is a number.
LEMMA HexNat ==
  ASSUME NEW str \in Strings
  PROVE  get_hex_address(str) \in Nat
<1> DEFINE L == Len(str.digits)
           step == [k \in 1..L |-> [x \in Nat |-> 16 * x + str.digits[k]]]
           Hex(f) == [k \in 0..L |-> IF k = 0 THEN 0 ELSE 16 * f[k - 1] + str.digits[k]]
           upto == CHOOSE f : f = Hex(f)
<1>1. str.digits \in Seq(0..16) /\ L \in Nat
  BY DEF Strings, NOT_HEX
<1>2. \A k \in 1..L : str.digits[k] \in Nat
  <2>1. \A k \in 1..L : str.digits[k] \in 0..16
    BY <1>1
  <2> QED BY <2>1
<1>3. \A k \in 1..L : \A x \in Nat : 16 * x + str.digits[k] \in Nat
  BY <1>2
<1>4. step \in Steps(Nat, L)
  BY <1>3 DEF Steps
<1>5. PICK g : Looped(g, Nat, L, 0, step)
  <2> HIDE DEF L, step
  <2>1. \E g : Looped(g, Nat, L, 0, step)
    BY <1>1, <1>4, Recursion
  <2> QED BY <2>1
<1>6. g = Hex(g)
  <2>1. \A k \in 1..L : g[k - 1] \in Nat
    BY <1>1, <1>5 DEF Looped
  <2>2. \A k \in 1..L : g[k] = 16 * g[k - 1] + str.digits[k]
    BY <1>5, <2>1 DEF Looped
  <2> QED BY <1>1, <1>5, <2>2 DEF Looped
<1>7. upto = Hex(upto)
  <2> HIDE DEF Hex
  <2> QED BY <1>6
<1> HIDE DEF upto
<1> DEFINE P == {k \in 0..L : upto[k] \in Nat}
<1>8. 0 \in P
  BY <1>1, <1>7
<1>9. ASSUME NEW k \in 1..L, k - 1 \in P PROVE k \in P
  <2>1. upto[k - 1] \in Nat /\ k \in 0..L /\ k # 0
    BY <1>1, <1>9
  <2>2. upto[k] = 16 * upto[k - 1] + str.digits[k]
    BY <1>7, <2>1
  <2> QED BY <1>2, <2>1, <2>2
<1>10. L \in P
  <2> HIDE DEF P, L
  <2>1. L \in 0..L
    BY <1>1
  <2> QED BY <1>1, <1>8, <1>9, <2>1, UpTo
<1>11. get_hex_address(str) = upto[L]
  BY Zenon DEF get_hex_address, upto
<1> QED BY <1>10, <1>11

\* Sequences of elements of S, one behind the other, are one.
LEMMA JoinedSeq ==
  ASSUME NEW S, NEW s \in Seq(Seq(S))
  PROVE  Joined(s) \in Seq(S)
<1> DEFINE L == Len(s)
           T == Seq(S)
           step == [k \in 1..L |-> [x \in T |-> x \o s[k]]]
           Join(f) == [k \in 0..L |-> IF k = 0 THEN <<>> ELSE f[k - 1] \o s[k]]
           upto == CHOOSE f : f = Join(f)
<1>1. L \in Nat /\ <<>> \in T
  OBVIOUS
<1>2. \A k \in 1..L : s[k] \in T
  OBVIOUS
<1>3. \A k \in 1..L : \A x \in T : x \o s[k] \in T
  BY <1>2
<1> HIDE DEF T, L
<1>4. step \in Steps(T, L)
  BY <1>3 DEF Steps
<1>5. PICK g : Looped(g, T, L, <<>>, step)
  <2> HIDE DEF step
  <2>1. \E g : Looped(g, T, L, <<>>, step)
    BY <1>1, <1>4, Recursion
  <2> QED BY <2>1
<1>6. g = Join(g)
  <2>1. \A k \in 1..L : g[k - 1] \in T
    BY <1>1, <1>5 DEF Looped
  <2>2. \A k \in 1..L : g[k] = g[k - 1] \o s[k]
    BY <1>5, <2>1 DEF Looped
  <2>3. g = [k \in 0..L |-> g[k]] /\ g[0] = <<>>
    BY <1>5 DEF Looped
  <2>4. \A k \in 0..L : k = 0 \/ k \in 1..L
    BY <1>1
  <2>5. \A k \in 0..L : g[k] = IF k = 0 THEN <<>> ELSE g[k - 1] \o s[k]
    BY <2>2, <2>3, <2>4, Zenon
  <2> QED BY <2>3, <2>5, Zenon
<1>7. upto = Join(upto)
  <2> HIDE DEF Join
  <2> QED BY <1>6
<1> HIDE DEF upto
<1> DEFINE P == {k \in 0..L : upto[k] \in T}
<1>8. 0 \in P
  BY <1>1, <1>7
<1>9. ASSUME NEW k \in 1..L, k - 1 \in P PROVE k \in P
  <2>1. upto[k - 1] \in T /\ k \in 0..L /\ k # 0
    BY <1>1, <1>9
  <2>2. upto[k] = upto[k - 1] \o s[k]
    BY <1>7, <2>1
  <2> QED BY <1>3, <2>1, <2>2
<1>10. L \in P
  <2> HIDE DEF P
  <2>1. L \in 0..L
    BY <1>1
  <2> QED BY <1>1, <1>8, <1>9, <2>1, UpTo
<1>11. Joined(s) = upto[L]
  BY Zenon DEF Joined, upto, L
<1> QED BY <1>10, <1>11 DEF T

-----------------------------------------------------------------------------
(* Types *)

\* The fields of test_parm that a step sets.
LEMMA ParmFields ==
  ASSUME NEW x \in Parm
  PROVE  /\ \A v \in {NO_SPECIFY_CPU} \cup 0..(CORE_COUNT - 1) : [x EXCEPT !.cpu = v] \in Parm
         /\ \A v \in [Item -> TestRow] : [x EXCEPT !.test_item = v] \in Parm
         /\ \A v, w \in Nat : [x EXCEPT !.start = v, !.end = w] \in Parm
         /\ \A v \in 0..2 : [x EXCEPT !.verbose = v] \in Parm /\ [x EXCEPT !.mode = v] \in Parm
         /\ [x EXCEPT !.cpu = NO_SPECIFY_CPU, !.mode = 0] \in Parm
         /\ \A v \in Nat : [x EXCEPT !.end = v] \in Parm
         /\ \A f \in {"exit_error", "list_info", "clear_ecc", "no_comp"}, v \in BOOLEAN :
              [x EXCEPT ![f] = v] \in Parm
<1>1. \A v \in {NO_SPECIFY_CPU} \cup 0..(CORE_COUNT - 1) : [x EXCEPT !.cpu = v] \in Parm
  BY DEF Parm
<1>2. \A v \in [Item -> TestRow] : [x EXCEPT !.test_item = v] \in Parm
  BY DEF Parm
<1>3. \A v, w \in Nat : [x EXCEPT !.start = v, !.end = w] \in Parm
  BY DEF Parm
<1>4. \A v \in 0..2 : [x EXCEPT !.verbose = v] \in Parm
  BY DEF Parm
<1>5. \A v \in 0..2 : [x EXCEPT !.mode = v] \in Parm
  BY DEF Parm
<1>6. [x EXCEPT !.cpu = NO_SPECIFY_CPU, !.mode = 0] \in Parm
  <2>1. \A v \in {NO_SPECIFY_CPU} \cup 0..(CORE_COUNT - 1), w \in 0..2 : [x EXCEPT !.cpu = v, !.mode = w] \in Parm
    BY DEF Parm
  <2>2. 0 \in 0..2
    OBVIOUS
  <2> QED BY <2>1, <2>2, Zenon
<1>7. \A v \in Nat : [x EXCEPT !.end = v] \in Parm
  BY DEF Parm
<1>8. \A v \in BOOLEAN : /\ [x EXCEPT !["exit_error"] = v] \in Parm
                         /\ [x EXCEPT !["list_info"] = v] \in Parm
  BY DEF Parm
<1>9. \A v \in BOOLEAN : /\ [x EXCEPT !["clear_ecc"] = v] \in Parm
                         /\ [x EXCEPT !["no_comp"] = v] \in Parm
  BY DEF Parm
<1>10. \A f \in {"exit_error", "list_info", "clear_ecc", "no_comp"}, v \in BOOLEAN :
         [x EXCEPT ![f] = v] \in Parm
  BY <1>8, <1>9, Zenon
<1> QED BY <1>1, <1>2, <1>3, <1>4, <1>5, <1>6, <1>7, <1>10, Zenon

\* What main() sets.
LEMMA DefaultTyped == DefaultParm \in Parm /\ EmptyString \in Strings
<1>1. <<UNSET, UNSET>> \in TestRow
  BY DEF TestRow
<1>2. [j \in Item |-> <<UNSET, UNSET>>] \in [Item -> TestRow]
  BY <1>1
<1>3. EmptyString \in Strings
  BY DEF EmptyString, Strings
<1> QED BY <1>2, <1>3, CountAssumption DEF DefaultParm, Parm

\* A row that an item of -t is written to.
LEMMA RowTyped ==
  ASSUME NEW old \in TestRow, NEW item \in Seq(Nat), Len(item) <= 2, LegalItem(item)
  PROVE  Row(old, item) \in TestRow
<1>1. \A k \in 1..Len(item) : item[k] \in 0..(ITEM_COUNT - 1)
  BY CountAssumption DEF LegalItem
<1>2. CASE Len(item) = 0
  BY <1>2 DEF Row
<1>3. CASE Len(item) = 1
  <2>1. Row(old, item) = [old EXCEPT ![1] = item[1]]
    BY <1>3 DEF Row
  <2>2. item[1] \in 0..(ITEM_COUNT - 1)
    BY <1>1, <1>3
  <2> QED BY <2>1, <2>2 DEF TestRow
<1>4. CASE Len(item) = 2
  <2>1. Row(old, item) = [old EXCEPT ![1] = item[1], ![2] = item[2]]
    BY <1>4 DEF Row
  <2>2. item[1] \in 0..(ITEM_COUNT - 1) /\ item[2] \in 0..(ITEM_COUNT - 1)
    BY <1>1, <1>4
  <2> QED BY <2>1, <2>2 DEF TestRow
<1>5. Len(item) = 0 \/ Len(item) = 1 \/ Len(item) = 2
  <2> DEFINE l == Len(item)
  <2>1. l \in Nat /\ l <= 2
    OBVIOUS
  <2> HIDE DEF l
  <2>2. l = 0 \/ l = 1 \/ l = 2
    BY <2>1
  <2> QED BY <2>2 DEF l
<1> QED BY <1>2, <1>3, <1>4, <1>5

\* The argument of the next option.
LEMMA ArgTyped ==
  ASSUME argv \in Argvs, n \in 0..Len(argv), NEW o, Option(o, TRUE)
  PROVE  /\ n + 1 \in DOMAIN argv /\ n + 1 \in 0..Len(argv) /\ pc = "parse"
         /\ argv[n + 1].opt = o /\ argv[n + 1].ok
         /\ o \in Numbers => Arg \in Nat
         /\ o = "t" => Arg \in Seq(Seq(Nat)) /\ \A j \in DOMAIN Arg : Len(Arg[j]) <= 2
         /\ o = "r" => Arg \in Seq(Strings)
<1>1. DOMAIN argv = 1..Len(argv) /\ Len(argv) \in Nat
  BY ArgvsAssumption
<1>2. n < Len(argv) /\ argv[n + 1].opt = o /\ argv[n + 1].ok = TRUE /\ pc = "parse"
  BY DEF Option
<1>3. n + 1 \in DOMAIN argv /\ n + 1 \in 0..Len(argv)
  BY <1>1, <1>2
<1> QED BY <1>2, <1>3, ArgvsAssumption DEF Arg

\* A step of the parser that goes on.
LEMMA AcceptTyped ==
  ASSUME ParserType, Stages, NEW o, Option(o, TRUE), NEW x \in Parm, Accept(x),
         start_str' \in Strings, end_str' \in Strings
  PROVE  ParserType' /\ n' = n + 1 /\ pc' = "parse" /\ argv' = argv /\ code' = code
<1>1. n + 1 \in 0..Len(argv) /\ pc = "parse"
  BY ArgTyped DEF ParserType
<1> QED BY <1>1 DEF ParserType, Accept

\* main() and parse() keep the types.
LEMMA ParserKeepsTypes ==
  ASSUME ParserType, Stages, Main
  PROVE  ParserType'
<1>1. p \in Parm /\ start_str \in Strings /\ end_str \in Strings /\ argv \in Argvs /\ n \in 0..Len(argv)
  BY DEF ParserType
<1>2. CASE CheckInstance \/ CheckRoot \/ ParseDone
  BY <1>2 DEF CheckInstance, CheckRoot, ParseDone, ParserType, Exit, Early, parser
<1>3. CASE MalformedOption \/ VersionOption
  BY <1>3 DEF MalformedOption, VersionOption, Refuse, Exit, ParserType, Early, parser
<1>4. CASE CpuOption
  <2>1. CASE Arg >= CORE_COUNT
    BY <1>4, <2>1 DEF CpuOption, Refuse, Exit, ParserType, Early, parser
  <2>2. CASE ~(Arg >= CORE_COUNT)
    <3>1. Arg \in Nat
      BY <1>1, <1>4, ArgTyped DEF CpuOption, Numbers
    <3>2. Arg \in 0..(CORE_COUNT - 1)
      BY <2>2, <3>1, CountAssumption
    <3>3. [p EXCEPT !.cpu = Arg] \in Parm
      BY <1>1, <3>2, ParmFields
    <3> QED BY <1>1, <1>4, <2>2, <3>3, AcceptTyped DEF CpuOption
  <2> QED BY <2>1, <2>2
<1>5. CASE ItemOption
  <2>1. CASE \E j \in DOMAIN Arg : ~LegalItem(Arg[j])
    BY <1>5, <2>1 DEF ItemOption, Refuse, Exit, ParserType, Early, parser
  <2>2. CASE ~\E j \in DOMAIN Arg : ~LegalItem(Arg[j])
    <3> DEFINE rows == [j \in Item |-> IF j \in DOMAIN Arg THEN Row(p.test_item[j], Arg[j])
                                         ELSE p.test_item[j]]
    <3>1. Arg \in Seq(Seq(Nat)) /\ \A j \in DOMAIN Arg : Len(Arg[j]) <= 2
      BY <1>1, <1>5, ArgTyped DEF ItemOption
    <3>2. p.test_item \in [Item -> TestRow]
      BY <1>1 DEF Parm
    <3>3. \A j \in DOMAIN Arg : Arg[j] \in Seq(Nat) /\ LegalItem(Arg[j])
      BY <2>2, <3>1
    <3>4. rows \in [Item -> TestRow]
      BY <3>1, <3>2, <3>3, RowTyped
    <3>5. [p EXCEPT !.test_item = rows] \in Parm
      BY <1>1, <3>4, ParmFields
    <3>6. Accept([p EXCEPT !.test_item = rows]) /\ UNCHANGED <<start_str, end_str>>
      BY <1>5, <2>2 DEF ItemOption
    <3> HIDE DEF rows
    <3> QED BY <1>1, <1>5, <3>5, <3>6, AcceptTyped DEF ItemOption
  <2> QED BY <2>1, <2>2
<1>6. CASE RangeOption
  <2> DEFINE s == IF Len(Arg) >= 1 THEN Arg[1] ELSE start_str
             e == IF Len(Arg) >= 2 THEN Arg[2] ELSE end_str
  <2>1. CASE ~ValidHex(s) \/ ~ValidHex(e)
    BY <1>6, <2>1 DEF RangeOption, Refuse, Exit, ParserType, Early, parser
  <2>2. CASE ~(~ValidHex(s) \/ ~ValidHex(e))
    <3>1. Arg \in Seq(Strings)
      BY <1>1, <1>6, ArgTyped DEF RangeOption
    <3>2. s \in Strings /\ e \in Strings
      BY <1>1, <3>1
    <3> DEFINE a == get_hex_address(s)
               b == get_hex_address(e)
    <3>3. Accept([p EXCEPT !.start = a, !.end = b]) /\ start_str' = s /\ end_str' = e
      BY <1>6, <2>2 DEF RangeOption
    <3> HIDE DEF s, e
    <3>4. a \in Nat /\ b \in Nat
      BY <3>2, HexNat
    <3> HIDE DEF a, b
    <3>5. [p EXCEPT !.start = a, !.end = b] \in Parm
      BY <1>1, <3>4, ParmFields
    <3> QED BY <1>6, <3>2, <3>3, <3>5, AcceptTyped DEF RangeOption
  <2> QED BY <2>1, <2>2
<1>7. CASE VerboseOption
  <2>1. CASE Arg \notin 0..2
    BY <1>7, <2>1 DEF VerboseOption, Refuse, Exit, ParserType, Early, parser
  <2>2. CASE Arg \in 0..2
    <3>1. [p EXCEPT !.verbose = Arg] \in Parm
      BY <1>1, <2>2, ParmFields
    <3> QED BY <1>1, <1>7, <2>2, <3>1, AcceptTyped DEF VerboseOption
  <2> QED BY <2>1, <2>2
<1>8. CASE ModeOption
  <2>1. CASE Arg \notin 0..2
    BY <1>8, <2>1 DEF ModeOption, Refuse, Exit, ParserType, Early, parser
  <2>2. CASE Arg \in 0..2
    <3>1. [p EXCEPT !.mode = Arg] \in Parm
      BY <1>1, <2>2, ParmFields
    <3> QED BY <1>1, <1>8, <2>2, <3>1, AcceptTyped DEF ModeOption
  <2> QED BY <2>1, <2>2
<1>9. ASSUME NEW o, NEW field \in {"exit_error", "list_info", "clear_ecc", "no_comp"}, FlagOption(o, field)
      PROVE  ParserType'
  <2>1. \A v \in BOOLEAN : [p EXCEPT ![field] = v] \in Parm
    BY <1>1, ParmFields
  <2>2. [p EXCEPT ![field] = TRUE] \in Parm
    BY <2>1, Zenon
  <2> QED BY <1>1, <1>9, <2>2, AcceptTyped DEF FlagOption
<1>10. CASE UnknownOption
  BY <1>1, <1>10, ParmFields DEF UnknownOption, Exit, ParserType, Early, parser
<1>11. CASE Operand
  BY <1>1, <1>11, AcceptTyped DEF Operand
<1> QED BY <1>2, <1>3, <1>4, <1>5, <1>6, <1>7, <1>8, <1>9, <1>10, <1>11 DEF Main, Parse

-----------------------------------------------------------------------------
(* Pages *)

\* What division with remainder gives.
LEMMA DivMod ==
  ASSUME NEW a \in Nat, NEW b \in Nat \ {0}
  PROVE  a \div b \in Nat /\ a % b \in 0..(b - 1) /\ a = b * (a \div b) + (a % b)
OBVIOUS

\* Multiplication is monotonic.
LEMMA Mono ==
  ASSUME NEW a \in Nat, NEW b \in Nat, NEW c \in Nat, a <= b
  PROVE  a * c <= b * c
OBVIOUS

\* A multiple leaves nothing, and its quotient is the factor.
LEMMA Multiple ==
  ASSUME NEW q \in Nat, NEW b \in Nat \ {0}
  PROVE  q * b \in Nat /\ (q * b) % b = 0 /\ (q * b) \div b = q
<1> DEFINE a == q * b
           d == a \div b
           r == a % b
<1>1. a \in Nat
  OBVIOUS
<1>2. d \in Nat /\ r \in 0..(b - 1) /\ a = b * d + r
  <2> HIDE DEF a
  <2> QED BY <1>1, DivMod
<1>3. b * d = d * b /\ b * d \in Nat
  BY <1>2
<1> HIDE DEF d, r
<1>4. ~(d + 1 <= q)
  <2>1. ASSUME d + 1 <= q PROVE FALSE
    <3>1. (d + 1) * b <= q * b
      BY <1>2, <2>1, Mono
    <3>2. (d + 1) * b = d * b + b
      BY <1>2
    <3> QED BY <1>2, <1>3, <3>1, <3>2
  <2> QED BY <2>1
<1>5. ~(q + 1 <= d)
  <2>1. ASSUME q + 1 <= d PROVE FALSE
    <3>1. (q + 1) * b <= d * b
      BY <1>2, <2>1, Mono
    <3>2. (q + 1) * b = q * b + b
      OBVIOUS
    <3> QED BY <1>2, <1>3, <3>1, <3>2
  <2> QED BY <2>1
<1>6. d = q
  BY <1>2, <1>4, <1>5
<1>7. r = 0
  BY <1>2, <1>3, <1>6
<1> QED BY <1>1, <1>6, <1>7 DEF d, r

\* The page of a byte begins at a multiple of PAGE_SIZE and is PAGE_SIZE long.
LEMMA Floor ==
  ASSUME NEW a \in Nat
  PROVE  /\ pfn_start_roundup(a) \in Nat /\ pfn_start_roundup(a) % PAGE_SIZE = 0
         /\ pfn_start_roundup(a) <= a /\ a < pfn_start_roundup(a) + PAGE_SIZE
         /\ pfn_start_roundup(a) = (a \div PAGE_SIZE) * PAGE_SIZE
<1> DEFINE q == a \div PAGE_SIZE
           r == a % PAGE_SIZE
<1>1. q \in Nat /\ r \in 0..(PAGE_SIZE - 1) /\ a = PAGE_SIZE * q + r
  BY PageAssumption, DivMod
<1>2. pfn_start_roundup(a) = a - r
  BY DEF pfn_start_roundup
<1> HIDE DEF q, r
<1>3. PAGE_SIZE * q = q * PAGE_SIZE /\ PAGE_SIZE * q \in Nat
  BY <1>1, PageAssumption
<1>4. (q * PAGE_SIZE) % PAGE_SIZE = 0
  BY <1>1, PageAssumption, Multiple
<1>5. a - r = q * PAGE_SIZE
  BY <1>1, <1>3
<1>6. a - r <= a /\ a < (a - r) + PAGE_SIZE
  BY <1>1, <1>3, PageAssumption
<1> QED BY <1>2, <1>3, <1>4, <1>5, <1>6 DEF q

\* Two multiples of PAGE_SIZE are a page apart.
LEMMA MultiplesApart ==
  ASSUME NEW a \in Nat, NEW b \in Nat, a % PAGE_SIZE = 0, b % PAGE_SIZE = 0, a < b
  PROVE  a + PAGE_SIZE <= b
<1> DEFINE q == a \div PAGE_SIZE
           d == b \div PAGE_SIZE
<1>1. q \in Nat /\ d \in Nat /\ a = PAGE_SIZE * q /\ b = PAGE_SIZE * d
  BY PageAssumption, DivMod
<1> HIDE DEF q, d
<1>2. a = q * PAGE_SIZE /\ b = d * PAGE_SIZE /\ PAGE_SIZE \in Nat
  BY <1>1, PageAssumption
<1>3. ~(d <= q)
  <2>1. ASSUME d <= q PROVE FALSE
    <3>1. d * PAGE_SIZE <= q * PAGE_SIZE
      BY <1>1, <1>2, <2>1, Mono
    <3> QED BY <1>2, <3>1
  <2> QED BY <2>1
<1>4. (q + 1) * PAGE_SIZE <= d * PAGE_SIZE
  <2>1. q + 1 <= d /\ q + 1 \in Nat
    BY <1>1, <1>3
  <2> QED BY <1>1, <1>2, <2>1, Mono
<1>5. (q + 1) * PAGE_SIZE = q * PAGE_SIZE + PAGE_SIZE
  BY <1>1, <1>2
<1> QED BY <1>2, <1>4, <1>5

\* A multiple up to a byte is up to the byte's page, one behind it behind the page.
LEMMA FloorBetween ==
  ASSUME NEW a \in Nat, NEW m \in Nat, m % PAGE_SIZE = 0
  PROVE  /\ m <= a => m <= pfn_start_roundup(a)
         /\ a < m => pfn_start_roundup(a) + PAGE_SIZE <= m
<1> DEFINE f == pfn_start_roundup(a)
<1>1. f \in Nat /\ f % PAGE_SIZE = 0 /\ f <= a /\ a < f + PAGE_SIZE
  BY Floor
<1> HIDE DEF f
<1>2. f < m => f + PAGE_SIZE <= m
  BY <1>1, MultiplesApart
<1>3. m <= a => m <= f
  BY <1>1, <1>2, PageAssumption
<1>4. a < m => f + PAGE_SIZE <= m
  BY <1>1, <1>2
<1> QED BY <1>3, <1>4 DEF f

\* Two bytes are in the same page if it begins at the same byte.
LEMMA SamePage ==
  ASSUME NEW a \in Nat, NEW b \in Nat
  PROVE  a \div PAGE_SIZE = b \div PAGE_SIZE <=> pfn_start_roundup(a) = pfn_start_roundup(b)
<1> DEFINE q == a \div PAGE_SIZE
           d == b \div PAGE_SIZE
<1>1. q \in Nat /\ d \in Nat
  BY PageAssumption, DivMod
<1>2. pfn_start_roundup(a) = q * PAGE_SIZE /\ pfn_start_roundup(b) = d * PAGE_SIZE
  BY Floor
<1> HIDE DEF q, d
<1>3. q * PAGE_SIZE = d * PAGE_SIZE => q = d
  <2>1. (q * PAGE_SIZE) \div PAGE_SIZE = q /\ (d * PAGE_SIZE) \div PAGE_SIZE = d
    BY <1>1, PageAssumption, Multiple
  <2> QED BY <2>1
<1> QED BY <1>2, <1>3 DEF q, d

\* The end of a range is rounded to the next multiple.
LEMMA Ceil ==
  ASSUME NEW a \in Nat
  PROVE  /\ pfn_end_roundup(a) \in Nat /\ pfn_end_roundup(a) % PAGE_SIZE = 0
         /\ a <= pfn_end_roundup(a)
         /\ \A m \in Nat : m % PAGE_SIZE = 0 /\ a <= m => pfn_end_roundup(a) <= m
<1> DEFINE b == a + PAGE_SIZE - 1
           c == pfn_start_roundup(b)
<1>1. b \in Nat
  BY PageAssumption
<1>2. pfn_end_roundup(a) = c
  BY DEF pfn_end_roundup
<1>3. c \in Nat /\ c % PAGE_SIZE = 0 /\ c <= b /\ b < c + PAGE_SIZE
  <2> HIDE DEF b
  <2> QED BY <1>1, Floor
<1> HIDE DEF c
<1>4. ASSUME NEW m \in Nat, m % PAGE_SIZE = 0, a <= m PROVE c <= m
  <2>1. m < c => m + PAGE_SIZE <= c
    BY <1>3, <1>4, MultiplesApart
  <2> QED BY <1>3, <1>4, <2>1, PageAssumption
<1>5. a <= c
  BY <1>3, PageAssumption
<1> QED BY <1>2, <1>3, <1>4, <1>5

\* A range of bytes, enlarged to pages, is the pages that its bytes are in.
LEMMA PagesOf ==
  ASSUME NEW s \in Nat, NEW e \in Nat, s < e, NEW b \in Nat
  PROVE  (pfn_start_roundup(s) <= b /\ b < pfn_end_roundup(e))
           <=> \E c \in s..(e - 1) : c \div PAGE_SIZE = b \div PAGE_SIZE
<1> DEFINE f(a) == pfn_start_roundup(a)
           g == pfn_end_roundup(e)
<1>1. \A a \in Nat : f(a) \in Nat /\ f(a) % PAGE_SIZE = 0 /\ f(a) <= a /\ a < f(a) + PAGE_SIZE
  BY Floor
<1>2. \A a, m \in Nat : m % PAGE_SIZE = 0 =>
        (m <= a => m <= f(a)) /\ (a < m => f(a) + PAGE_SIZE <= m)
  BY FloorBetween
<1>3. g \in Nat /\ g % PAGE_SIZE = 0 /\ e <= g /\ \A m \in Nat : m % PAGE_SIZE = 0 /\ e <= m => g <= m
  BY Ceil
<1>4. \A a \in Nat : a \div PAGE_SIZE = b \div PAGE_SIZE <=> f(a) = f(b)
  BY SamePage
<1> HIDE DEF f, g
<1>5. ASSUME f(s) <= b, b < g PROVE \E c \in s..(e - 1) : f(c) = f(b)
  <2>1. CASE s <= b /\ b < e
    BY <2>1
  <2>2. CASE b < s
    <3>1. f(s) <= f(b)
      BY <1>1, <1>2, <1>5
    <3>2. f(b) <= f(s)
      <4>1. f(b) \in Nat /\ f(b) % PAGE_SIZE = 0 /\ f(b) <= s
        BY <1>1, <2>2
      <4> QED BY <1>2, <4>1
    <3>3. f(s) = f(b)
      <4>1. f(s) \in Nat /\ f(b) \in Nat
        BY <1>1
      <4> QED BY <3>1, <3>2, <4>1
    <3> QED BY <3>3
  <2>3. CASE e <= b
    <3>1. f(b) \in Nat /\ f(b) % PAGE_SIZE = 0 /\ f(b) <= b
      BY <1>1
    <3>2. f(b) < e
      BY <1>3, <1>5, <3>1
    <3>3. e - 1 \in Nat /\ f(b) <= e - 1
      BY <3>1, <3>2
    <3>4. f(b) <= f(e - 1)
      BY <1>2, <3>1, <3>3
    <3>5. f(e - 1) \in Nat /\ f(e - 1) % PAGE_SIZE = 0 /\ f(e - 1) <= b
      <4>1. f(e - 1) \in Nat /\ f(e - 1) % PAGE_SIZE = 0 /\ f(e - 1) <= e - 1
        BY <1>1, <3>3
      <4> QED BY <2>3, <4>1
    <3>6. f(e - 1) <= f(b)
      BY <1>2, <3>5
    <3>7. f(e - 1) = f(b) /\ e - 1 \in s..(e - 1)
      BY <3>1, <3>3, <3>4, <3>5, <3>6
    <3> QED BY <3>7
  <2> QED BY <2>1, <2>2, <2>3
<1>6. ASSUME NEW c \in s..(e - 1), f(c) = f(b) PROVE f(s) <= b /\ b < g
  <2>1. c \in Nat /\ s <= c /\ c < e /\ c < g
    BY <1>3
  <2>2. f(s) \in Nat /\ f(s) % PAGE_SIZE = 0 /\ f(s) <= c
    <3>1. f(s) \in Nat /\ f(s) % PAGE_SIZE = 0 /\ f(s) <= s
      BY <1>1
    <3> QED BY <2>1, <3>1
  <2>3. f(s) <= f(c)
    BY <1>2, <2>1, <2>2
  <2>4. f(c) + PAGE_SIZE <= g
    BY <1>2, <1>3, <2>1
  <2>5. f(b) \in Nat /\ f(b) <= b /\ b < f(b) + PAGE_SIZE
    BY <1>1
  <2> QED BY <1>3, <1>6, <2>2, <2>3, <2>4, <2>5, PageAssumption
<1>7. \A c \in s..(e - 1) : c \div PAGE_SIZE = b \div PAGE_SIZE <=> f(c) = f(b)
  BY <1>4
<1> QED BY <1>5, <1>6, <1>7 DEF f, g

-----------------------------------------------------------------------------
(* Regions, and what they have in common with the window *)

\* The bounds of a region are bounds of pages.
LEMMA RegionBounds ==
  ASSUME RangesType
  PROVE  /\ Len(regions) \in Nat /\ DOMAIN regions = 1..Len(regions) /\ Scanned \subseteq 1..Len(regions)
         /\ \A m \in 1..Len(regions) :
              /\ First(m) \in Nat /\ First(m) % PAGE_SIZE = 0
              /\ After(m) \in Nat /\ After(m) % PAGE_SIZE = 0
              /\ First(m) < After(m) /\ regions[m].type \in {"RW", "RD"}
<1>1. /\ regions \in Seq([start_pfn : Nat, end_pfn : Nat, type : {"RW", "RD"}])
      /\ \A m \in 1..Len(regions) : /\ regions[m].start_pfn < regions[m].end_pfn
                                    /\ m > 1 => regions[m - 1].end_pfn <= regions[m].start_pfn
  BY RegionAssumption DEF RangesType
<1>2. Len(regions) \in Nat /\ DOMAIN regions = 1..Len(regions)
  BY <1>1
<1>3. ASSUME NEW m \in 1..Len(regions)
      PROVE  /\ First(m) \in Nat /\ First(m) % PAGE_SIZE = 0
             /\ After(m) \in Nat /\ After(m) % PAGE_SIZE = 0
             /\ First(m) < After(m) /\ regions[m].type \in {"RW", "RD"}
  <2> DEFINE a == regions[m].start_pfn
             b == regions[m].end_pfn
  <2>1. a \in Nat /\ b \in Nat /\ a < b /\ regions[m].type \in {"RW", "RD"}
    <3> DEFINE R == [start_pfn : Nat, end_pfn : Nat, type : {"RW", "RD"}]
    <3>1. regions[m] \in R
      <4>1. regions \in Seq(R)
        BY <1>1
      <4> HIDE DEF R
      <4> QED BY <4>1
    <3>2. a < b
      BY <1>1
    <3> QED BY <3>1, <3>2
  <2>2. First(m) = a * PAGE_SIZE /\ After(m) = b * PAGE_SIZE
    BY DEF First, After
  <2> HIDE DEF a, b
  <2>3. a * PAGE_SIZE \in Nat /\ (a * PAGE_SIZE) % PAGE_SIZE = 0
    BY <2>1, PageAssumption, Multiple
  <2>4. b * PAGE_SIZE \in Nat /\ (b * PAGE_SIZE) % PAGE_SIZE = 0
    BY <2>1, PageAssumption, Multiple
  <2>5. a * PAGE_SIZE < b * PAGE_SIZE
    <3>1. (a + 1) * PAGE_SIZE <= b * PAGE_SIZE
      <4>1. a + 1 \in Nat /\ a + 1 <= b /\ PAGE_SIZE \in Nat
        BY <2>1, PageAssumption
      <4> QED BY <2>1, <4>1, Mono
    <3>2. (a + 1) * PAGE_SIZE = a * PAGE_SIZE + PAGE_SIZE
      BY <2>1, PageAssumption
    <3> QED BY <2>3, <2>4, <3>1, <3>2, PageAssumption
  <2> QED BY <2>1, <2>2, <2>3, <2>4, <2>5
<1> QED BY <1>2, <1>3 DEF Scanned

\* A region ends before a later one begins.
LEMMA RegionsApart ==
  ASSUME RangesType, NEW l \in 1..Len(regions), NEW m \in 1..Len(regions), l < m
  PROVE  After(l) <= First(m)
<1> DEFINE K == Len(regions)
<1>1. K \in Nat /\ \A k \in 1..K : First(k) \in Nat /\ After(k) \in Nat /\ First(k) < After(k)
  BY RegionBounds
<1>2. ASSUME NEW k \in 2..K PROVE After(k - 1) <= First(k)
  <2> DEFINE a == regions[k - 1].end_pfn
             b == regions[k].start_pfn
  <2>1. k \in 1..Len(regions) /\ k - 1 \in 1..Len(regions) /\ k > 1
    BY <1>1
  <2>2. a \in Nat /\ b \in Nat /\ a <= b
    <3> DEFINE R == [start_pfn : Nat, end_pfn : Nat, type : {"RW", "RD"}]
    <3>1. regions \in Seq(R) /\ \A j \in 1..Len(regions) : j > 1 => regions[j - 1].end_pfn <= regions[j].start_pfn
      BY RegionAssumption DEF RangesType
    <3>2. regions[k] \in R /\ regions[k - 1] \in R
      <4> HIDE DEF R
      <4> QED BY <2>1, <3>1
    <3>3. a <= b
      BY <2>1, <3>1
    <3> QED BY <3>2, <3>3
  <2>3. After(k - 1) = a * PAGE_SIZE /\ First(k) = b * PAGE_SIZE
    BY DEF First, After
  <2> HIDE DEF a, b
  <2> QED BY <2>2, <2>3, PageAssumption, Mono
<1> HIDE DEF K
<1> DEFINE P == {k \in 0..K : \A x \in 1..K, y \in 1..K : x < y /\ y <= k => After(x) <= First(y)}
<1>3. 0 \in P
  BY <1>1
<1>4. ASSUME NEW k \in 1..K, k - 1 \in P PROVE k \in P
  <2>1. ASSUME NEW x \in 1..K, NEW y \in 1..K, x < y, y <= k PROVE After(x) <= First(y)
    <3>1. CASE y <= k - 1
      BY <1>4, <2>1, <3>1
    <3>2. CASE y = k /\ x = k - 1
      <4>1. k \in 2..K
        BY <2>1, <3>2
      <4> QED BY <1>2, <3>2, <4>1
    <3>3. CASE y = k /\ x < k - 1
      <4>1. k - 1 \in 1..K /\ k \in 2..K
        BY <1>1, <3>3
      <4>2. After(x) <= First(k - 1)
        BY <1>1, <1>4, <3>3, <4>1
      <4>3. First(k - 1) < After(k - 1) /\ After(k - 1) <= First(k)
        BY <1>1, <1>2, <4>1
      <4> QED BY <1>1, <3>3, <4>1, <4>2, <4>3
    <3> QED BY <1>1, <2>1, <3>1, <3>2, <3>3
  <2>2. k \in 0..K
    BY <1>1
  <2> QED BY <2>1, <2>2
<1>5. m \in P
  <2> HIDE DEF P
  <2>1. m \in 0..K
    BY <1>1 DEF K
  <2> QED BY <1>1, <1>3, <1>4, <2>1, UpTo
<1> QED BY <1>1, <1>5 DEF K

\* The five cases: without -l the range is what region and window have in common.
LEMMA WindowFacts ==
  ASSUME ParserType, RangesType, Stages, AtRegion, ~Outside
  PROVE  /\ WindowRange.start \in Nat /\ WindowRange.end \in Nat /\ WindowRange.start <= WindowRange.end
         /\ WindowRange = [start |-> WindowRange.start, end |-> WindowRange.end]
         /\ First(i) <= WindowRange.start /\ WindowRange.end <= After(i)
         /\ p.list_info => WindowRange.start # WindowRange.end
         /\ ~p.list_info => \A b \in Nat :
              (WindowRange.start <= b /\ b < WindowRange.end) <=> (First(i) <= b /\ b < After(i) /\ InWindow(b))
<1> DEFINE f == First(i)
           a == After(i)
           s == p.start
           e == p.end
<1>1. i \in 1..Len(regions)
  BY RegionBounds DEF AtRegion, RangesType
<1>2. f \in Nat /\ a \in Nat /\ f < a
  BY <1>1, RegionBounds
<1>3. s \in Nat /\ e \in Nat /\ s <= e
  BY DEF ParserType, Parm, Stages, AtRegion
<1>4. offset = f /\ offset_len = a
  BY DEF offset, offset_len, First, After
<1> HIDE DEF f, a
<1>5. CASE p.list_info
  <2>1. WindowRange = [start |-> f, end |-> a]
    BY <1>4, <1>5 DEF WindowRange
  <2> QED BY <1>2, <1>5, <2>1 DEF f, a
<1>6. CASE ~p.list_info
  <2>1. ~(a < s) /\ ~(f > e)
    BY <1>4, <1>6 DEF Outside
  <2> DEFINE w == IF f <= s THEN s ELSE f
             x == IF a <= e THEN a ELSE e
  <2>2. WindowRange = [start |-> w, end |-> x]
    <3>1. CASE f <= s /\ a <= e
      BY <1>4, <1>6, <3>1 DEF WindowRange
    <3>2. CASE f > s /\ a < e
      BY <1>2, <1>3, <1>4, <1>6, <3>2 DEF WindowRange
    <3>3. CASE f <= s /\ a > e
      BY <1>2, <1>3, <1>4, <1>6, <3>3 DEF WindowRange
    <3>4. CASE f > s /\ a >= e
      <4>1. x = e
        BY <1>2, <1>3, <3>4
      <4> QED BY <1>2, <1>3, <1>4, <1>6, <2>1, <3>4, <4>1 DEF WindowRange
    <3> QED BY <1>2, <1>3, <3>1, <3>2, <3>3, <3>4
  <2>3. w \in Nat /\ x \in Nat /\ w <= x /\ f <= w /\ x <= a
    BY <1>2, <1>3, <2>1
  <2>4. \A b \in Nat : (w <= b /\ b < x) <=> (f <= b /\ b < a /\ s <= b /\ b < e)
    BY <1>2, <1>3
  <2> HIDE DEF w, x
  <2> QED BY <1>6, <2>2, <2>3, <2>4 DEF f, a, InWindow
<1> QED BY <1>5, <1>6

-----------------------------------------------------------------------------
(* The items *)

\* Rows are used up to a row that is not set; there is one such number of rows.
LEMMA RowsUsedFacts ==
  ASSUME ParserType
  PROVE  /\ RowsUsed \in 0..ITEM_COUNT
         /\ \A j \in 1..RowsUsed : p.test_item[j][1] # UNSET
         /\ \A k \in 0..ITEM_COUNT :
              /\ \A j \in 1..k : p.test_item[j][1] # UNSET
              /\ k < ITEM_COUNT => p.test_item[k + 1][1] = UNSET
              => RowsUsed = k
<1> DEFINE Used(k) == /\ \A j \in 1..k : p.test_item[j][1] # UNSET
                      /\ k < ITEM_COUNT => p.test_item[k + 1][1] = UNSET
           T == {k \in 0..ITEM_COUNT : k < ITEM_COUNT => p.test_item[k + 1][1] = UNSET}
<1>1. ITEM_COUNT \in Nat
  BY CountAssumption
<1>2. PICK u \in T : \A k \in T : u <= k
  <2>1. T \subseteq Nat /\ ITEM_COUNT \in T
    BY <1>1
  <2> HIDE DEF T
  <2> QED BY <2>1, LeastNat
<1>3. Used(u)
  <2>1. ASSUME NEW j \in 1..u, p.test_item[j][1] = UNSET PROVE FALSE
    <3>1. u \in 0..ITEM_COUNT
      BY <1>2
    <3>2. j - 1 \in 0..ITEM_COUNT /\ (j - 1) + 1 = j /\ ~(u <= j - 1)
      BY <1>1, <3>1
    <3>3. j - 1 \in T
      BY <2>1, <3>2
    <3> QED BY <1>2, <3>2, <3>3
  <2> QED BY <1>2, <2>1
<1>4. RowsUsed = CHOOSE k \in 0..ITEM_COUNT : Used(k)
  BY DEF RowsUsed
<1>5. RowsUsed \in 0..ITEM_COUNT /\ Used(RowsUsed)
  <2> HIDE DEF Used
  <2>1. u \in 0..ITEM_COUNT
    BY <1>2
  <2> QED BY <1>3, <1>4, <2>1
<1>6. ASSUME NEW k \in 0..ITEM_COUNT, Used(k) PROVE RowsUsed = k
  <2> DEFINE r == RowsUsed
  <2>1. r \in 0..ITEM_COUNT /\ Used(r)
    BY <1>5
  <2> HIDE DEF r
  <2>2. ~(r < k)
    <3>1. ASSUME r < k PROVE FALSE
      <4>1. r + 1 \in 1..k /\ r < ITEM_COUNT
        BY <1>1, <2>1, <3>1
      <4> QED BY <1>6, <2>1, <4>1
    <3> QED BY <3>1
  <2>3. ~(k < r)
    <3>1. ASSUME k < r PROVE FALSE
      <4>1. k + 1 \in 1..r /\ k < ITEM_COUNT
        BY <1>1, <2>1, <3>1
      <4> QED BY <1>6, <2>1, <4>1
    <3> QED BY <3>1
  <2> QED BY <1>1, <2>1, <2>2, <2>3 DEF r
<1> QED BY <1>5, <1>6

\* A function on 1..m is a sequence of m elements.
LEMMA FunctionIsSeq ==
  ASSUME NEW m \in Nat, NEW S, NEW f \in [1..m -> S]
  PROVE  f \in Seq(S) /\ Len(f) = m /\ DOMAIN f = 1..m
<1>1. f \in Seq(S)
  BY SeqDef
<1>2. Len(f) \in Nat /\ DOMAIN f = 1..Len(f)
  BY <1>1, LenProperties
<1>3. DOMAIN f = 1..m
  OBVIOUS
<1> DEFINE l == Len(f)
<1>4. 1..l = 1..m /\ l \in Nat
  BY <1>2, <1>3
<1> HIDE DEF l
<1>5. l = m
  <2>1. l \in 1..l => l \in 1..m
    BY <1>4
  <2>2. m \in 1..m => m \in 1..l
    BY <1>4
  <2> QED BY <1>4, <2>1, <2>2
<1> QED BY <1>1, <1>3, <1>5 DEF l

\* A row gives items.
LEMMA ExpandTyped ==
  ASSUME NEW row \in TestRow, row[1] # UNSET
  PROVE  Expand(row) \in Seq(0..(ITEM_COUNT - 1))
<1> DEFINE a == row[1]
           b == row[2]
           M == ITEM_COUNT - 1
<1>1. M \in Nat /\ a \in 0..M /\ b \in {UNSET} \cup 0..M
  BY CountAssumption DEF TestRow
<1>2. Expand(row) = IF b = UNSET THEN <<a>>
                    ELSE IF a <= b THEN [k \in 1..(b - a + 1) |-> a + k - 1]
                    ELSE [k \in 1..(a - b + 1) |-> a - k + 1]
  BY DEF Expand
<1> HIDE DEF a, b, M
<1>3. CASE b = UNSET
  BY <1>1, <1>2, <1>3 DEF M
<1>4. CASE b # UNSET /\ a <= b
  <2>1. b - a + 1 \in Nat /\ \A k \in 1..(b - a + 1) : a + k - 1 \in 0..M
    BY <1>1, <1>4
  <2> DEFINE m == b - a + 1
             f == [k \in 1..m |-> a + k - 1]
  <2>2. f \in [1..m -> 0..M]
    BY <2>1
  <2>3. Expand(row) = f
    BY <1>2, <1>4
  <2> HIDE DEF f, m
  <2>4. f \in Seq(0..M)
    BY <2>1, <2>2, FunctionIsSeq DEF m
  <2> QED BY <2>3, <2>4 DEF M
<1>5. CASE b # UNSET /\ ~(a <= b)
  <2>1. a - b + 1 \in Nat /\ \A k \in 1..(a - b + 1) : a - k + 1 \in 0..M
    BY <1>1, <1>5
  <2> DEFINE m == a - b + 1
             f == [k \in 1..m |-> a - k + 1]
  <2>2. f \in [1..m -> 0..M]
    BY <2>1
  <2>3. Expand(row) = f
    BY <1>2, <1>5
  <2> HIDE DEF f, m
  <2>4. f \in Seq(0..M)
    BY <2>1, <2>2, FunctionIsSeq DEF m
  <2> QED BY <2>3, <2>4 DEF M
<1> QED BY <1>3, <1>4, <1>5

\* The rows give items.
LEMMA ExpandedTyped ==
  ASSUME ParserType
  PROVE  Expanded \in Seq(0..(ITEM_COUNT - 1))
<1> DEFINE I == Seq(0..(ITEM_COUNT - 1))
           r == RowsUsed
           s == [j \in 1..r |-> Expand(p.test_item[j])]
<1>1. r \in Nat /\ r <= ITEM_COUNT /\ \A j \in 1..r : p.test_item[j][1] # UNSET
  BY RowsUsedFacts, CountAssumption
<1> HIDE DEF r
<1>2. ASSUME NEW j \in 1..r PROVE Expand(p.test_item[j]) \in I
  <2>1. j \in Item
    BY <1>1, CountAssumption DEF Item
  <2>2. p.test_item[j] \in TestRow
    BY <2>1 DEF ParserType, Parm
  <2> QED BY <1>1, <2>2, ExpandTyped
<1> HIDE DEF I
<1>3. s \in [1..r -> I]
  BY <1>2
<1> HIDE DEF s
<1>4. s \in Seq(I)
  BY <1>1, <1>3, SeqDef
<1>5. Joined(s) \in I
  BY <1>4, JoinedSeq DEF I
<1> QED BY <1>5 DEF I, Expanded, s, r

\* TestItems keeps the types.
LEMMA ItemsTyped ==
  ASSUME ParserType, TestItems
  PROVE  test_item' \in Seq(0..(ITEM_COUNT - 1))
<1> DEFINE all == [k \in Item |-> k - 1]
<1>1. ITEM_COUNT \in Nat
  BY CountAssumption
<1>2. all \in [1..ITEM_COUNT -> 0..(ITEM_COUNT - 1)]
  BY <1>1 DEF Item
<1>3. all \in Seq(0..(ITEM_COUNT - 1))
  <2> HIDE DEF all
  <2> QED BY <1>1, <1>2, SeqDef
<1> HIDE DEF all
<1>4. test_item' = all \/ test_item' = <<>> \/ test_item' = Expanded
  BY DEF TestItems, all
<1> QED BY <1>3, <1>4, ExpandedTyped, EmptySeq

-----------------------------------------------------------------------------
(* The ranges *)

\* A range in front of a list.
LEMMA InFront ==
  ASSUME NEW S, NEW s \in Seq(S), NEW r \in S
  PROVE  /\ <<r>> \o s \in Seq(S) /\ Len(<<r>> \o s) = Len(s) + 1 /\ Len(s) \in Nat
         /\ DOMAIN (<<r>> \o s) = 1..(Len(s) + 1) /\ DOMAIN s = 1..Len(s)
         /\ (<<r>> \o s)[1] = r
         /\ \A k \in 2..(Len(s) + 1) : (<<r>> \o s)[k] = s[k - 1]
<1>1. <<r>> \in Seq(S) /\ Len(<<r>>) = 1 /\ <<r>>[1] = r
  OBVIOUS
<1>2. Len(s) \in Nat /\ DOMAIN s = 1..Len(s)
  BY LenProperties
<1> DEFINE t == <<r>> \o s
           u == <<r>>
<1>3. t \in Seq(S) /\ Len(t) = 1 + Len(s) /\ \A k \in 1..(1 + Len(s)) : t[k] = IF k <= 1 THEN u[k] ELSE s[k - 1]
  BY <1>1, ConcatProperties
<1>4. DOMAIN t = 1..Len(t)
  BY <1>3, LenProperties
<1>5. u[1] = r
  OBVIOUS
<1> HIDE DEF t, u
<1>6. t[1] = r
  <2>1. 1 \in 1..(1 + Len(s))
    BY <1>2
  <2> QED BY <1>3, <1>5, <2>1
<1>7. \A k \in 2..(Len(s) + 1) : t[k] = s[k - 1]
  <2>1. \A k \in 2..(Len(s) + 1) : k \in 1..(1 + Len(s)) /\ ~(k <= 1)
    BY <1>2
  <2> QED BY <1>3, <2>1
<1>8. Len(t) = Len(s) + 1
  BY <1>2, <1>3
<1> QED BY <1>2, <1>3, <1>4, <1>6, <1>7, <1>8 DEF t

\* What is tested with a range more, in front or at the end.
LEMMA TestedMore ==
  ASSUME NEW s \in Seq(ByteRange), NEW r \in ByteRange
  PROVE  Tested(<<r>> \o s) = Tested(s) \cup Bytes(r) /\ Tested(Append(s, r)) = Tested(s) \cup Bytes(r)
<1> DEFINE L == Len(s)
           t == <<r>> \o s
           u == Append(s, r)
<1>1. /\ L \in Nat /\ DOMAIN s = 1..L /\ DOMAIN t = 1..(L + 1) /\ t[1] = r
      /\ \A k \in 2..(L + 1) : t[k] = s[k - 1]
  BY InFront
<1>2. u \in Seq(ByteRange) /\ Len(u) = L + 1 /\ u[L + 1] = r /\ \A k \in 1..L : u[k] = s[k]
  BY AppendProperties
<1>3. DOMAIN u = 1..(L + 1)
  BY <1>2, LenProperties
<1> HIDE DEF L, t, u
<1>4. ToSet(t) = ToSet(s) \cup {r}
  <2>1. ASSUME NEW k \in 1..(L + 1) PROVE t[k] \in ToSet(s) \cup {r}
    <3>1. CASE k = 1
      BY <1>1, <3>1
    <3>2. CASE k # 1
      <4>1. k \in 2..(L + 1) /\ k - 1 \in 1..L
        BY <1>1, <3>2
      <4> QED BY <1>1, <4>1 DEF ToSet
    <3> QED BY <3>1, <3>2
  <2>2. ASSUME NEW k \in 1..L PROVE s[k] \in ToSet(t)
    <3>1. k + 1 \in 2..(L + 1) /\ k + 1 \in 1..(L + 1) /\ (k + 1) - 1 = k
      BY <1>1
    <3>2. t[k + 1] = s[k]
      BY <1>1, <3>1
    <3> QED BY <1>1, <3>1, <3>2 DEF ToSet
  <2>3. r \in ToSet(t)
    <3>1. 1 \in 1..(L + 1)
      BY <1>1
    <3> QED BY <1>1, <3>1 DEF ToSet
  <2> QED BY <1>1, <2>1, <2>2, <2>3 DEF ToSet
<1>5. ToSet(u) = ToSet(s) \cup {r}
  <2>1. ASSUME NEW k \in 1..(L + 1) PROVE u[k] \in ToSet(s) \cup {r}
    <3>1. CASE k = L + 1
      BY <1>2, <3>1
    <3>2. CASE k # L + 1
      <4>1. k \in 1..L
        BY <1>1, <3>2
      <4> QED BY <1>1, <1>2, <4>1 DEF ToSet
    <3> QED BY <3>1, <3>2
  <2>2. ASSUME NEW k \in 1..L PROVE s[k] \in ToSet(u)
    <3>1. k \in 1..(L + 1)
      BY <1>1
    <3> QED BY <1>2, <1>3, <3>1 DEF ToSet
  <2>3. r \in ToSet(u)
    <3>1. L + 1 \in 1..(L + 1)
      BY <1>1
    <3> QED BY <1>2, <1>3, <3>1 DEF ToSet
  <2> QED BY <1>1, <1>3, <2>1, <2>2, <2>3 DEF ToSet
<1>6. Tested(t) = Tested(s) \cup Bytes(r)
  BY <1>4 DEF Tested
<1>7. Tested(u) = Tested(s) \cup Bytes(r)
  BY <1>5 DEF Tested
<1> QED BY <1>6, <1>7 DEF t, u

\* A range that is not empty, enlarged to pages.
LEMMA PagesFacts ==
  ASSUME ParserType, RangesType, Stages, AtRegion, ~Outside, WindowRange.start # WindowRange.end
  PROVE  /\ Pages(WindowRange) \in ByteRange
         /\ Pages(WindowRange).start < Pages(WindowRange).end
         /\ Pages(WindowRange).start % PAGE_SIZE = 0 /\ Pages(WindowRange).end % PAGE_SIZE = 0
         /\ Within(Pages(WindowRange), i)
         /\ \A b \in Nat : b \in Bytes(Pages(WindowRange)) <=>
              \E c \in WindowRange.start..(WindowRange.end - 1) : c \div PAGE_SIZE = b \div PAGE_SIZE
<1> DEFINE s == WindowRange.start
           e == WindowRange.end
           f == pfn_start_roundup(s)
           c == pfn_end_roundup(e)
<1>1. s \in Nat /\ e \in Nat /\ s < e /\ First(i) <= s /\ e <= After(i)
  <2>1. s \in Nat /\ e \in Nat /\ s <= e /\ s # e /\ First(i) <= s /\ e <= After(i)
    BY WindowFacts
  <2> HIDE DEF s, e
  <2> QED BY <2>1
<1>2. Pages(WindowRange) = [start |-> f, end |-> c]
  BY DEF Pages
<1>3. First(i) \in Nat /\ First(i) % PAGE_SIZE = 0 /\ After(i) \in Nat /\ After(i) % PAGE_SIZE = 0
  <2>1. i \in 1..Len(regions)
    BY RegionBounds DEF AtRegion, RangesType
  <2> QED BY <2>1, RegionBounds
<1> HIDE DEF s, e
<1>4. f \in Nat /\ f % PAGE_SIZE = 0 /\ f <= s
  BY <1>1, Floor
<1>5. c \in Nat /\ c % PAGE_SIZE = 0 /\ e <= c /\ c <= After(i)
  BY <1>1, <1>3, Ceil
<1>6. First(i) <= f
  BY <1>1, <1>3, FloorBetween
<1>7. \A b \in Nat : (f <= b /\ b < c) <=> \E x \in s..(e - 1) : x \div PAGE_SIZE = b \div PAGE_SIZE
  BY <1>1, PagesOf
<1> HIDE DEF f, c
<1>8. \A b \in Nat : b \in Bytes(Pages(WindowRange)) <=> (f <= b /\ b < c)
  BY <1>2, <1>4, <1>5 DEF Bytes
<1>9. f < c
  BY <1>1, <1>4, <1>5
<1> QED BY <1>2, <1>4, <1>5, <1>6, <1>7, <1>8, <1>9 DEF ByteRange, Within, s, e

\* A read/write range is noted and listed: the check of its size never drops it.
LEMMA ReadWriteStep ==
  ASSUME ParserType, RangesType, Stages, ReadWriteRange
  PROVE  /\ AtRegion /\ ~Outside /\ WindowRange.start # WindowRange.end /\ regions[i].type = "RW"
         /\ raw_reg' = Append(raw_reg, Pages(WindowRange)) /\ RW_list' = <<Pages(WindowRange)>> \o RW_list
         /\ RD_list' = RD_list /\ NextRegion
<1> DEFINE r == Pages(WindowRange)
<1>1. AtRegion /\ ~Outside /\ WindowRange.start # WindowRange.end /\ regions[i].type = "RW"
  BY DEF ReadWriteRange
<1>2. r \in ByteRange /\ r.start < r.end /\ r.start % PAGE_SIZE = 0 /\ r.end % PAGE_SIZE = 0
  BY <1>1, PagesFacts
<1>3. RW_list' = IF ~p.list_info /\ r.end < r.start + PAGE_SIZE THEN RW_list ELSE <<r>> \o RW_list
  BY DEF ReadWriteRange
<1>4. raw_reg' = Append(raw_reg, r) /\ RD_list' = RD_list /\ NextRegion
  BY DEF ReadWriteRange
<1> HIDE DEF r
<1>5. r.start \in Nat /\ r.end \in Nat
  BY <1>2 DEF ByteRange
<1>6. ~(r.end < r.start + PAGE_SIZE)
  <2>1. r.start + PAGE_SIZE <= r.end
    BY <1>2, <1>5, MultiplesApart
  <2> QED BY <1>5, <2>1, PageAssumption
<1> QED BY <1>1, <1>3, <1>4, <1>6 DEF r

\* What the four steps of the loop over the regions have in common.
Scan == SkipRegion \/ EmptyRange \/ ReadWriteRange \/ ReadOnlyRange

\* What the four steps of the loop have in common: nothing but the lists changes.
LEMMA ScanCommon ==
  ASSUME ParserType, RangesType, Stages, Scan
  PROVE  /\ AtRegion /\ pc = "regions" /\ i \in 1..Len(regions) /\ i' = i - 1 /\ i' \in 0..Len(regions)
         /\ UNCHANGED <<argv, n, start_str, end_str, p, pc, code, test_item, regions, gaps>>
         /\ max_phy_addr' \in Nat /\ max_phy_addr <= max_phy_addr' /\ After(i) <= max_phy_addr'
<1>1. AtRegion /\ NextRegion
  BY DEF Scan, SkipRegion, EmptyRange, ReadWriteRange, ReadOnlyRange
<1>2. pc = "regions" /\ i \in 1..Len(regions) /\ Len(regions) \in Nat
  BY <1>1, RegionBounds DEF AtRegion, RangesType
<1>3. i' = i - 1 /\ i' \in 0..Len(regions)
  BY <1>1, <1>2 DEF NextRegion
<1>4. UNCHANGED <<argv, n, start_str, end_str, p, pc, code, test_item, regions, gaps>>
  BY <1>1 DEF NextRegion, parser
<1>5. offset_len = After(i) /\ After(i) \in Nat /\ max_phy_addr \in Nat
  BY <1>2, RegionBounds DEF offset_len, After, RangesType
<1>6. max_phy_addr' = IF offset_len > max_phy_addr THEN offset_len ELSE max_phy_addr
  BY <1>1 DEF NextRegion
<1>7. max_phy_addr' \in Nat /\ max_phy_addr <= max_phy_addr' /\ After(i) <= max_phy_addr'
  BY <1>5, <1>6
<1> QED BY <1>1, <1>2, <1>3, <1>4, <1>7

\* The loop over the regions keeps the types.
LEMMA ScanKeepsTypes ==
  ASSUME ParserType, RangesType, Stages, Scan
  PROVE  ParserType' /\ RangesType' /\ Stages'
<1>1. /\ pc = "regions" /\ i' \in 0..Len(regions)
      /\ UNCHANGED <<argv, n, start_str, end_str, p, pc, code, test_item, regions, gaps>>
      /\ max_phy_addr' \in Nat
  BY ScanCommon
<1>2. RW_list \in Seq(ByteRange) /\ RD_list \in Seq(ByteRange) /\ raw_reg \in Seq(ByteRange)
  BY DEF RangesType
<1>3. AtRegion /\ ~Outside => WindowRange \in ByteRange
  BY WindowFacts DEF ByteRange
<1>4. RW_list' \in Seq(ByteRange) /\ RD_list' \in Seq(ByteRange) /\ raw_reg' \in Seq(ByteRange)
  <2>1. CASE SkipRegion
    BY <1>2, <2>1 DEF SkipRegion
  <2>2. CASE EmptyRange
    <3>1. raw_reg' = Append(raw_reg, WindowRange) /\ AtRegion /\ ~Outside /\ UNCHANGED <<RW_list, RD_list>>
      BY <2>2 DEF EmptyRange
    <3> QED BY <1>2, <1>3, <3>1, AppendProperties
  <2>3. CASE ReadWriteRange
    <3> DEFINE r == Pages(WindowRange)
    <3>1. r \in ByteRange
      BY <2>3, PagesFacts, ReadWriteStep
    <3>2. raw_reg' = Append(raw_reg, r) /\ RW_list' = <<r>> \o RW_list /\ RD_list' = RD_list
      BY <2>3, ReadWriteStep
    <3> HIDE DEF r
    <3> QED BY <1>2, <3>1, <3>2, AppendProperties, InFront
  <2>4. CASE ReadOnlyRange
    <3> DEFINE r == WindowRange
    <3>1. raw_reg' = Append(raw_reg, r) /\ RD_list' = <<r>> \o RD_list /\ RW_list' = RW_list
      BY <2>4 DEF ReadOnlyRange
    <3>2. r \in ByteRange
      BY <1>3, <2>4 DEF ReadOnlyRange
    <3> HIDE DEF r
    <3> QED BY <1>2, <3>1, <3>2, AppendProperties, InFront
  <2> QED BY <2>1, <2>2, <2>3, <2>4 DEF Scan
<1>5. ParserType'
  BY <1>1 DEF ParserType
<1>6. RangesType'
  BY <1>1, <1>4 DEF RangesType
<1>7. Stages'
  BY <1>1 DEF Stages, Early, Parsed
<1> QED BY <1>5, <1>6, <1>7

\* The ranges listed as non-testable.
LEMMA GapsTyped ==
  ASSUME RangesType, p \in Parm, raw_reg # <<>>, NEW end \in Nat
  PROVE  Gaps(end) \subseteq ByteRange
<1>1. /\ Len(raw_reg) \in Nat /\ Len(raw_reg) >= 1
      /\ \A k \in 1..Len(raw_reg) : raw_reg[k].start \in Nat /\ raw_reg[k].end \in Nat
  <2>1. raw_reg \in Seq(ByteRange)
    BY DEF RangesType
  <2>2. Len(raw_reg) \in Nat /\ \A k \in 1..Len(raw_reg) : raw_reg[k] \in ByteRange
    BY <2>1
  <2>3. Len(raw_reg) # 0
    BY <2>1, EmptySeq
  <2> QED BY <2>2, <2>3 DEF ByteRange
<1>2. p.start \in Nat
  BY DEF Parm
<1> DEFINE L == Len(raw_reg)
           G1 == {r \in {[start |-> p.start, end |-> raw_reg[L].start]} : r.start < r.end}
           G2 == {[start |-> raw_reg[k].end, end |-> raw_reg[k - 1].start] :
                    k \in {k \in 2..L : raw_reg[k - 1].start > raw_reg[k].end}}
           G3 == {r \in {[start |-> raw_reg[1].end, end |-> end]} : r.start < r.end}
<1>3. L \in 1..L /\ 1 \in 1..L
  BY <1>1
<1>4. G1 \subseteq ByteRange
  BY <1>1, <1>2, <1>3 DEF ByteRange
<1>5. G3 \subseteq ByteRange
  BY <1>1, <1>3 DEF ByteRange
<1>6. G2 \subseteq ByteRange
  <2>1. \A k \in 2..L : k \in 1..L /\ k - 1 \in 1..L
    BY <1>1
  <2> QED BY <1>1, <2>1 DEF ByteRange
<1>7. Gaps(end) = G1 \cup G2 \cup G3
  BY DEF Gaps
<1> QED BY <1>4, <1>5, <1>6, <1>7

\* The steps before and after that loop keep the types, too.
LEMMA OthersKeepTypes ==
  ASSUME ParserType, RangesType, Stages,
         \/ Install \/ TestItems \/ CheckWindow \/ OpenDevice \/ RegionFails \/ RegionsDone \/ Finished
         \/ Main /\ UNCHANGED <<test_item, device>>
         \/ UNCHANGED vars
  PROVE  ParserType' /\ RangesType' /\ Stages'
<1>1. p \in Parm /\ p.end \in Nat /\ p.start \in Nat
  BY DEF ParserType, Parm
<1>2. Len(regions) \in Nat
  BY RegionBounds
<1>3. CASE Install \/ RegionFails
  BY <1>3 DEF Install, RegionFails, AtRegion, Exit, ParserType, RangesType, Stages, Early, Parsed, parser, device
<1>4. CASE TestItems
  <2>1. test_item' \in Seq(0..(ITEM_COUNT - 1))
    BY <1>4, ItemsTyped
  <2>2. pc = "items" /\ pc' \in {"mem_info", "undefined"} /\ UNCHANGED <<argv, parser, p, code, device>>
    BY <1>4 DEF TestItems
  <2> QED BY <2>1, <2>2 DEF ParserType, RangesType, Stages, Early, Parsed, parser, device
<1>5. CASE CheckWindow
  <2>1. p' = p \/ (p.list_info /\ p' = [p EXCEPT !.start = 0, !.end = LIST_END])
    BY <1>5 DEF CheckWindow
  <2>2. [p EXCEPT !.start = 0, !.end = LIST_END] \in Parm
    BY <1>1, ParmFields, PageAssumption
  <2>3. p' \in Parm
    BY <1>1, <2>1, <2>2
  <2>4. pc = "mem_info" /\ (pc' = "exit" \/ (pc' = "open" /\ p.end >= p.start)) /\ UNCHANGED <<argv, parser, test_item, device>>
    BY <1>5 DEF CheckWindow, Exit
  <2>5. pc' = "open" => p'.start <= p'.end
    <3>1. p' = [p EXCEPT !.start = 0, !.end = LIST_END] => p'.start = 0 /\ p'.end = LIST_END
      BY <1>1 DEF Parm
    <3> QED BY <1>1, <2>1, <2>4, <3>1, PageAssumption
  <2> QED BY <2>3, <2>4, <2>5 DEF ParserType, RangesType, Stages, Early, Parsed, parser, device
<1>6. CASE OpenDevice
  <2>1. pc = "open" /\ UNCHANGED <<argv, n, start_str, end_str, p, test_item, regions, RW_list, RD_list, raw_reg, max_phy_addr, gaps>>
    BY <1>6 DEF OpenDevice, parser
  <2>2. (pc' = "exit" /\ i' = i) \/ (pc' = "regions" /\ i' = Len(regions))
    BY <1>6 DEF OpenDevice, Exit
  <2>3. i' \in 0..Len(regions)
    BY <1>2, <2>2 DEF RangesType
  <2> QED BY <2>1, <2>2, <2>3 DEF ParserType, RangesType, Stages, Early, Parsed
<1>7. CASE RegionsDone
  <2> DEFINE end == IF p.end > max_phy_addr THEN max_phy_addr ELSE p.end
  <2>1. end \in Nat
    BY <1>1 DEF RangesType
  <2>2. p' = [p EXCEPT !.end = end] /\ gaps' = IF raw_reg = <<>> THEN {} ELSE Gaps(end)
    BY <1>7 DEF RegionsDone
  <2> HIDE DEF end
  <2>3. p' \in Parm /\ gaps' \subseteq ByteRange
    BY <1>1, <2>1, <2>2, ParmFields, GapsTyped
  <2>4. pc = "regions" /\ pc' \in {"exit", "ready"}
        /\ UNCHANGED <<argv, parser, test_item, regions, i, RW_list, RD_list, raw_reg, max_phy_addr>>
    BY <1>7 DEF RegionsDone, Exit
  <2> QED BY <2>3, <2>4 DEF ParserType, RangesType, Stages, Early, Parsed, parser
<1>8. CASE Finished \/ UNCHANGED vars
  BY <1>8 DEF Finished, vars, ParserType, RangesType, Stages, parser, device
<1>9. CASE Main /\ UNCHANGED <<test_item, device>>
  <2>1. ParserType'
    BY <1>9, ParserKeepsTypes
  <2>2. RangesType'
    BY <1>9 DEF RangesType, device
  <2>3. pc \in Early /\ pc' \in {"parse", "root", "install", "exit"}
    BY <1>9 DEF Main, CheckInstance, CheckRoot, Parse, MalformedOption, CpuOption, ItemOption, RangeOption,
                VerboseOption, ModeOption, FlagOption, VersionOption, UnknownOption, Operand, ParseDone,
                Option, Refuse, Accept, Exit, Early
  <2>4. pc' \in {"root", "install"} => n' = Len(argv')
    <3>1. pc' = "install" => pc = "root" /\ UNCHANGED <<argv, n>>
      BY <1>9 DEF Main, CheckInstance, CheckRoot, Parse, MalformedOption, CpuOption, ItemOption, RangeOption,
                VerboseOption, ModeOption, FlagOption, VersionOption, UnknownOption, Operand, ParseDone,
                Option, Refuse, Accept, Exit, parser
    <3>2. pc' = "root" => n = Len(argv) /\ UNCHANGED <<argv, n>>
      BY <1>9 DEF Main, CheckInstance, CheckRoot, Parse, MalformedOption, CpuOption, ItemOption, RangeOption,
                VerboseOption, ModeOption, FlagOption, VersionOption, UnknownOption, Operand, ParseDone,
                Option, Refuse, Accept, Exit, parser
    <3> QED BY <3>1, <3>2 DEF Stages, Parsed
  <2>5. UNCHANGED <<i, RW_list, RD_list, raw_reg, max_phy_addr>>
    BY <1>9 DEF device
  <2> QED BY <2>1, <2>2, <2>3, <2>4, <2>5 DEF Stages, Early, Parsed
<1> QED BY <1>3, <1>4, <1>5, <1>6, <1>7, <1>8, <1>9

-----------------------------------------------------------------------------
(* The shell's verdict *)

\* No failure looks like a success.
LEMMA FailuresShow == \A c \in Failures : ExitStatus(c) # 0
<1>1. \A k \in 1..15 : AppErr(k) \in DOMAIN code_map
  BY DEF code_map
<1>2. \A k \in 1..15 : code_map[AppErr(k)] = CASE k = 1 -> 1 [] k = 3 -> 22 [] k = 6 -> 6 [] OTHER -> 500 + k
  <2>1. ASSUME NEW k \in 1..15
        PROVE  code_map[AppErr(k)] = CASE k = 1 -> 1 [] k = 3 -> 22 [] k = 6 -> 6 [] OTHER -> 500 + k
    BY <1>1 DEF code_map, AppErr, ERR_MCE_TERMINATE
  <2> QED BY <2>1
<1>3. \A k \in 1..15 : return_cli_error_code(AppErr(k)) = CASE k = 1 -> 1 [] k = 3 -> 22 [] k = 6 -> 6 [] OTHER -> 500 + k
  BY <1>1, <1>2 DEF return_cli_error_code, AppErr
<1>4. \A k \in {1, 2, 3, 6, 8, 11, 13} : ExitStatus(AppErr(k)) # 0
  <2>1. return_cli_error_code(AppErr(1)) = 1 /\ return_cli_error_code(AppErr(3)) = 22 /\ return_cli_error_code(AppErr(6)) = 6
    BY <1>3
  <2>2. return_cli_error_code(AppErr(2)) = 502 /\ return_cli_error_code(AppErr(8)) = 508
    BY <1>3
  <2>3. return_cli_error_code(AppErr(11)) = 511 /\ return_cli_error_code(AppErr(13)) = 513
    BY <1>3
  <2> QED BY <2>1, <2>2, <2>3 DEF ExitStatus
<1>5. \A e \in {22, 2, 12} : ExitStatus(Errno(e)) # 0
  <2>1. ASSUME NEW e \in {22, 2, 12} PROVE return_cli_error_code(Errno(e)) = e
    BY DEF return_cli_error_code, Errno
  <2> QED BY <2>1 DEF ExitStatus
<1>6. ExitStatus(<<65535, 65535>>) # 0
  <2>1. <<65535, 65535>> \notin DOMAIN code_map
    BY DEF code_map, AppErr, ChildErr, ERR_MCE_TERMINATE
  <2>2. return_cli_error_code(<<65535, 65535>>) = -1
    BY <2>1 DEF return_cli_error_code
  <2> QED BY <2>2 DEF ExitStatus
<1> QED BY <1>4, <1>5, <1>6 DEF Failures, ERR_PARAM, ERR_USE, ERR_NO_PRIV, ERR_GET_MEM_INFO, ERR_INPUT_ADDRESS,
            ERR_TEST_POLICY, ERR_MCE_MSG

\* Every exit has the code of a failure or is one that -l, -c or -v asked for.
LEMMA CodeStep ==
  ASSUME ParserType, RangesType, Stages, CodeSound, [Next]_vars
  PROVE  CodeSound'
<1>1. p \in Parm
  BY DEF ParserType
<1>2. CASE CheckInstance
  BY <1>2 DEF CheckInstance, CodeSound, Exit, Failures
<1>3. CASE CheckRoot
  BY <1>3 DEF CheckRoot, CodeSound, Exit, Failures
<1>4. CASE MalformedOption
  BY <1>4 DEF MalformedOption, CodeSound, Refuse, Exit, Failures
<1>5. CASE CpuOption \/ ItemOption \/ VerboseOption \/ ModeOption
  BY <1>5 DEF CpuOption, ItemOption, VerboseOption, ModeOption, CodeSound, Accept, Refuse, Exit, Failures, Option
<1>6. CASE RangeOption
  BY <1>6 DEF RangeOption, CodeSound, Accept, Refuse, Exit, Failures, Option
<1>7. ASSUME NEW o, NEW field, FlagOption(o, field) PROVE CodeSound'
  BY <1>7 DEF FlagOption, CodeSound, Accept, Option
<1>8. CASE VersionOption
  <2>1. n + 1 \in DOMAIN argv /\ argv[n + 1].opt = "v"
    BY <1>8, ArgTyped DEF ParserType, VersionOption
  <2>2. UNCHANGED argv
    BY <1>8 DEF VersionOption, Refuse
  <2> QED BY <2>1, <2>2 DEF CodeSound
<1>9. CASE UnknownOption
  BY <1>9 DEF UnknownOption, CodeSound, Exit, Failures
<1>10. CASE Operand
  BY <1>10 DEF Operand, CodeSound, Accept, Option
<1>11. CASE ParseDone
  BY <1>11 DEF ParseDone, CodeSound, Exit, Failures
<1>12. CASE Install
  BY <1>12 DEF Install, CodeSound, Exit, Failures
<1>13. CASE TestItems
  BY <1>13 DEF TestItems, CodeSound
<1>14. CASE CheckWindow
  BY <1>14 DEF CheckWindow, CodeSound, Exit, Failures
<1>15. CASE OpenDevice
  BY <1>15 DEF OpenDevice, CodeSound, Exit, Failures
<1>16. CASE Scan
  <2>1. pc = "regions" /\ pc' = pc
    BY <1>16, ScanCommon
  <2> QED BY <2>1 DEF CodeSound
<1>17. CASE RegionFails
  BY <1>17 DEF RegionFails, CodeSound, Exit, Failures
<1>18. CASE RegionsDone
  <2> DEFINE end == IF p.end > max_phy_addr THEN max_phy_addr ELSE p.end
  <2>1. p' = [p EXCEPT !.end = end]
    BY <1>18 DEF RegionsDone
  <2> HIDE DEF end
  <2>2. p'.list_info = p.list_info /\ p'.clear_ecc = p.clear_ecc
    BY <1>1, <2>1 DEF Parm
  <2>3. pc' = "exit" => p.list_info \/ p.clear_ecc \/ code' \in {ERR_INPUT_ADDRESS, ERR_TEST_POLICY}
    BY <1>18 DEF RegionsDone, Exit
  <2> QED BY <2>2, <2>3 DEF CodeSound, Failures
<1>19. CASE Finished \/ UNCHANGED vars
  BY <1>19 DEF Finished, vars, CodeSound
<1> QED BY <1>2, <1>3, <1>4, <1>5, <1>6, <1>7, <1>8, <1>9, <1>10, <1>11, <1>12, <1>13, <1>14, <1>15,
           <1>16, <1>17, <1>18, <1>19 DEF Next, Main, Parse, Scan

-----------------------------------------------------------------------------
(* The items that run are the items asked for *)

\* RowsUsed and Expanded depend on the rows only.
RowsOf(rows) == CHOOSE k \in 0..ITEM_COUNT :
  /\ \A j \in 1..k : rows[j][1] # UNSET
  /\ k < ITEM_COUNT => rows[k + 1][1] = UNSET

ExpandedOf(rows) == Joined([j \in 1..RowsOf(rows) |-> Expand(rows[j])])

\* The items depend on the rows of test_parm alone.
LEMMA RowsOnly ==
  /\ RowsUsed = RowsOf(p.test_item) /\ Expanded = ExpandedOf(p.test_item)
  /\ RowsUsed' = RowsOf(p'.test_item) /\ Expanded' = ExpandedOf(p'.test_item)
BY DEF RowsUsed, RowsOf, Expanded, ExpandedOf

\* The steps that set another field leave the rows.
LEMMA RowsKept ==
  ASSUME NEW x \in Parm
  PROVE  /\ \A v : [x EXCEPT !.cpu = v].test_item = x.test_item
         /\ \A v, w : [x EXCEPT !.start = v, !.end = w].test_item = x.test_item
         /\ \A v : [x EXCEPT !.verbose = v].test_item = x.test_item
         /\ \A v : [x EXCEPT !.mode = v].test_item = x.test_item
         /\ \A v, w : [x EXCEPT !.cpu = v, !.mode = w].test_item = x.test_item
         /\ \A v : [x EXCEPT !.end = v].test_item = x.test_item
         /\ \A v : \A f \in {"exit_error", "list_info", "clear_ecc", "no_comp"} : [x EXCEPT ![f] = v].test_item = x.test_item
         /\ \A v : [x EXCEPT !.test_item = v].test_item = v
<1>1. x = [f \in DOMAIN x |-> x[f]] /\ "test_item" \in DOMAIN x
  BY DEF Parm
<1> QED BY <1>1

\* An option that is no -t.
LEMMA OtherOption ==
  ASSUME ParserType, ItemsGiven, NEW o, o # "t", Option(o, TRUE), NEW x, Accept(x), x.test_item = p.test_item
  PROVE  ItemsGiven'
<1>1. n \in 0..Len(argv) /\ argv \in Argvs /\ n + 1 \in DOMAIN argv /\ argv[n + 1].opt = o
  BY ArgTyped DEF ParserType
<1>2. n' = n + 1 /\ p' = x /\ argv' = argv
  BY DEF Accept
<1>3. n \in Nat /\ DOMAIN argv = 1..Len(argv)
  BY <1>1, ArgvsAssumption
<1>4. ASSUME NEW k \in DOMAIN argv, {j \in DOMAIN argv : argv[j].opt = "t"} = {k}
      PROVE  k \in Nat /\ k # n + 1
  BY <1>1, <1>3, <1>4
<1>5. ASSUME NEW k \in DOMAIN argv, {j \in DOMAIN argv : argv[j].opt = "t"} = {k}
      PROVE  (n' < k => n < k) /\ (n' >= k => n >= k)
  BY <1>2, <1>3, <1>4, <1>5
<1> QED BY <1>2, <1>5 DEF ItemsGiven

\* The -t option itself.
LEMMA TheItemOption ==
  ASSUME ParserType, ItemsGiven, ItemOption
  PROVE  ItemsGiven'
<1>1. Option("t", TRUE) /\ argv \in Argvs /\ n \in 0..Len(argv) /\ p \in Parm
  BY DEF ItemOption, ParserType
<1>2. /\ n + 1 \in DOMAIN argv /\ argv[n + 1].opt = "t" /\ argv[n + 1].ok
      /\ n \in Nat /\ DOMAIN argv = 1..Len(argv)
  <2>1. n + 1 \in DOMAIN argv /\ argv[n + 1].opt = "t" /\ argv[n + 1].ok
    BY <1>1, ArgTyped
  <2>2. n \in Nat /\ DOMAIN argv = 1..Len(argv)
    BY <1>1, ArgvsAssumption
  <2> QED BY <2>1, <2>2
<1>3. CASE \E j \in DOMAIN Arg : ~LegalItem(Arg[j])
  BY <1>3 DEF ItemOption, ItemsGiven, Refuse, parser
<1>4. CASE ~\E j \in DOMAIN Arg : ~LegalItem(Arg[j])
  <2> DEFINE rows == [j \in Item |-> IF j \in DOMAIN Arg THEN Row(p.test_item[j], Arg[j]) ELSE p.test_item[j]]
  <2>1. p' = [p EXCEPT !.test_item = rows] /\ n' = n + 1 /\ argv' = argv
    BY <1>4 DEF ItemOption, Accept
  <2>2. p'.test_item = rows
    <3> HIDE DEF rows
    <3> QED BY <1>1, <2>1, RowsKept
  <2>3. ASSUME NEW k \in DOMAIN argv, {j \in DOMAIN argv : argv[j].opt = "t"} = {k}
        PROVE  k = n + 1 /\ rows = Given(argv[k].arg)
    <3>1. k = n + 1 /\ n < k
      BY <1>2, <2>3
    <3>2. p.test_item = [j \in Item |-> <<UNSET, UNSET>>]
      BY <2>3, <3>1 DEF ItemsGiven
    <3>3. \A j \in Item : p.test_item[j] = <<UNSET, UNSET>>
      BY <3>2
    <3>4. Arg = argv[k].arg
      BY <3>1 DEF Arg
    <3>5. rows = Given(Arg)
      BY <3>3, Zenon DEF Given
    <3> QED BY <3>1, <3>4, <3>5
  <2> HIDE DEF rows
  <2> QED BY <1>2, <2>1, <2>2, <2>3 DEF ItemsGiven
<1> QED BY <1>3, <1>4

\* The rows after each step.
LEMMA ItemsGivenStep ==
  ASSUME ParserType, RangesType, Stages, ItemsGiven, [Next]_vars
  PROVE  ItemsGiven' /\ (pc # "parse" => p'.test_item = p.test_item)
<1>1. p \in Parm
  BY DEF ParserType
<1>2. \A x : (n' = n /\ argv' = argv /\ p' = x /\ x.test_item = p.test_item) => ItemsGiven'
  BY DEF ItemsGiven
<1>3. CASE CheckInstance \/ CheckRoot \/ ParseDone \/ Install \/ TestItems \/ RegionFails \/ Finished \/ UNCHANGED vars
  <2>1. n' = n /\ argv' = argv /\ p' = p
    BY <1>3 DEF CheckInstance, CheckRoot, ParseDone, Install, TestItems, RegionFails, Finished, vars, parser, device
  <2> QED BY <1>2, <2>1
<1>4. CASE MalformedOption \/ VersionOption
  <2>1. n' = n /\ argv' = argv /\ p' = p
    BY <1>4 DEF MalformedOption, VersionOption, Refuse, parser
  <2> QED BY <1>2, <2>1
<1>5. CASE CpuOption \/ VerboseOption \/ ModeOption
  <2>1. pc = "parse"
    BY <1>5 DEF CpuOption, VerboseOption, ModeOption, Option
  <2>2. CASE n' = n /\ argv' = argv /\ p' = p
    BY <1>2, <2>1, <2>2
  <2>3. CASE CpuOption /\ Accept([p EXCEPT !.cpu = Arg])
    <3>1. [p EXCEPT !.cpu = Arg].test_item = p.test_item
      BY <1>1, RowsKept
    <3> QED BY <2>1, <2>3, <3>1, OtherOption DEF CpuOption
  <2>4. CASE VerboseOption /\ Accept([p EXCEPT !.verbose = Arg])
    <3>1. [p EXCEPT !.verbose = Arg].test_item = p.test_item
      BY <1>1, RowsKept
    <3> QED BY <2>1, <2>4, <3>1, OtherOption DEF VerboseOption
  <2>5. CASE ModeOption /\ Accept([p EXCEPT !.mode = Arg])
    <3>1. [p EXCEPT !.mode = Arg].test_item = p.test_item
      BY <1>1, RowsKept
    <3> QED BY <2>1, <2>5, <3>1, OtherOption DEF ModeOption
  <2> QED BY <1>5, <2>2, <2>3, <2>4, <2>5 DEF CpuOption, VerboseOption, ModeOption, Refuse, parser
<1>6. CASE ItemOption
  BY <1>6, TheItemOption DEF ItemOption, Option
<1>7. CASE RangeOption
  <2> DEFINE s == IF Len(Arg) >= 1 THEN Arg[1] ELSE start_str
             e == IF Len(Arg) >= 2 THEN Arg[2] ELSE end_str
             x == [p EXCEPT !.start = get_hex_address(s), !.end = get_hex_address(e)]
  <2>1. Refuse(ERR_PARAM) \/ Accept(x)
    BY <1>7 DEF RangeOption
  <2>2. x.test_item = p.test_item
    BY <1>1, RowsKept
  <2> HIDE DEF x
  <2>3. Option("r", TRUE) /\ pc = "parse"
    BY <1>7 DEF RangeOption, Option
  <2>4. CASE Refuse(ERR_PARAM)
    BY <1>2, <2>3, <2>4 DEF Refuse, parser
  <2> QED BY <2>1, <2>2, <2>3, <2>4, OtherOption
<1>8. ASSUME NEW o, o # "t", NEW field \in {"exit_error", "list_info", "clear_ecc", "no_comp"}, FlagOption(o, field)
      PROVE  ItemsGiven' /\ pc = "parse"
  <2> DEFINE x == [p EXCEPT ![field] = TRUE]
  <2>1. \A v : [p EXCEPT ![field] = v].test_item = p.test_item
    BY <1>1, RowsKept
  <2>2. x.test_item = p.test_item
    BY <2>1, Zenon
  <2>3. Option(o, TRUE) /\ Accept(x)
    BY <1>8, Zenon DEF FlagOption
  <2> HIDE DEF x
  <2>4. pc = "parse"
    BY <2>3 DEF Option
  <2> QED BY <1>8, <2>2, <2>3, <2>4, OtherOption
<1>9. CASE UnknownOption
  <2>1. n' = n /\ argv' = argv /\ p' = [p EXCEPT !.cpu = NO_SPECIFY_CPU, !.mode = 0] /\ pc = "parse"
    BY <1>9 DEF UnknownOption, Option, parser
  <2>2. [p EXCEPT !.cpu = NO_SPECIFY_CPU, !.mode = 0].test_item = p.test_item
    BY <1>1, RowsKept
  <2> QED BY <1>2, <2>1, <2>2
<1>10. CASE Operand
  BY <1>10, OtherOption DEF Operand, Option
<1>11. CASE CheckWindow
  <2>1. n' = n /\ argv' = argv /\ (p' = p \/ p' = [p EXCEPT !.start = 0, !.end = LIST_END])
    BY <1>11 DEF CheckWindow, parser
  <2>2. [p EXCEPT !.start = 0, !.end = LIST_END].test_item = p.test_item
    BY <1>1, RowsKept
  <2> QED BY <1>2, <2>1, <2>2
<1>12. CASE OpenDevice
  <2>1. n' = n /\ argv' = argv /\ p' = p
    BY <1>12 DEF OpenDevice, parser
  <2> QED BY <1>2, <2>1
<1>13. CASE Scan
  <2>1. n' = n /\ argv' = argv /\ p' = p
    BY <1>13, ScanCommon
  <2> QED BY <1>2, <2>1
<1>14. CASE RegionsDone
  <2> DEFINE end == IF p.end > max_phy_addr THEN max_phy_addr ELSE p.end
  <2>1. n' = n /\ argv' = argv /\ p' = [p EXCEPT !.end = end]
    BY <1>14 DEF RegionsDone, parser
  <2> HIDE DEF end
  <2>2. [p EXCEPT !.end = end].test_item = p.test_item
    BY <1>1, RowsKept
  <2> QED BY <1>2, <2>1, <2>2
<1> QED BY <1>3, <1>4, <1>5, <1>6, <1>7, <1>8, <1>9, <1>10, <1>11, <1>12, <1>13, <1>14 DEF Next, Main, Parse, Scan

\* test_config.test_item after each step.
LEMMA ItemsExpandedStep ==
  ASSUME ParserType, RangesType, Stages, ItemsGiven, ItemsExpanded, [Next]_vars
  PROVE  ItemsExpanded'
<1>1. pc # "parse" => p'.test_item = p.test_item
  BY ItemsGivenStep
<1>2. pc # "parse" => RowsUsed' = RowsUsed /\ Expanded' = Expanded
  BY <1>1, RowsOnly
<1>3. CASE TestItems
  <2>1. pc = "items"
    BY <1>3 DEF TestItems
  <2> QED BY <1>2, <1>3, <2>1 DEF TestItems, ItemsExpanded
<1>4. CASE ~TestItems /\ pc = "parse"
  <2>1. pc' \notin {"mem_info", "open", "regions", "ready", "undefined"}
    BY <1>4 DEF Next, Main, Parse, MalformedOption, CpuOption, ItemOption, RangeOption, CheckInstance, CheckRoot,
                VerboseOption, ModeOption, FlagOption, VersionOption, UnknownOption, Operand, ParseDone,
                Option, Refuse, Accept, Exit, vars, Install, CheckWindow, OpenDevice, Finished,
                SkipRegion, EmptyRange, ReadWriteRange, ReadOnlyRange, RegionFails, RegionsDone, AtRegion
  <2> QED BY <2>1 DEF ItemsExpanded
<1>5. CASE ~TestItems /\ pc # "parse"
  <2>1. test_item' = test_item
    <3>1. CASE Scan
      BY <3>1, ScanCommon
    <3>2. CASE ~Scan
      BY <1>5, <3>2 DEF Next, Main, Scan, vars, Install, CheckWindow, OpenDevice, Finished, RegionFails, RegionsDone
    <3> QED BY <3>1, <3>2
  <2>2. pc' \in {"mem_info", "open", "regions", "ready", "undefined"} =>
          /\ pc' = "undefined" => pc = "undefined"
          /\ pc' # "undefined" => pc \in {"mem_info", "open", "regions", "ready"}
    <3>1. CASE Scan
      BY <3>1, ScanCommon
    <3>2. CASE ~Scan
      BY <1>5, <3>2 DEF Next, Main, Parse, MalformedOption, CpuOption, ItemOption, RangeOption, CheckInstance, CheckRoot,
                VerboseOption, ModeOption, FlagOption, VersionOption, UnknownOption, Operand, ParseDone,
                Option, Refuse, Accept, Exit, Scan, vars, Install, CheckWindow, OpenDevice, Finished,
                RegionFails, RegionsDone, AtRegion
    <3> QED BY <3>1, <3>2
  <2> QED BY <1>2, <1>5, <2>1, <2>2 DEF ItemsExpanded
<1> QED BY <1>3, <1>4, <1>5

\* One of several items of -t, expanded from its row and written without loops.
LEMMA PieceAsked ==
  ASSUME NEW item \in Seq(Nat), Len(item) <= 2, item # <<>>
  PROVE  LET a == item[1]  b == item[Len(item)]  row == Row(<<UNSET, UNSET>>, item)
         IN /\ row[1] # UNSET
            /\ Expand(row) = [j \in 1..(IF a <= b THEN b - a + 1 ELSE a - b + 1) |->
                                IF a <= b THEN a + j - 1 ELSE a - j + 1]
<1> DEFINE a == item[1]
           b == item[Len(item)]
           row == Row(<<UNSET, UNSET>>, item)
           m == IF a <= b THEN b - a + 1 ELSE a - b + 1
           piece == [j \in 1..m |-> IF a <= b THEN a + j - 1 ELSE a - j + 1]
<1>1. Len(item) = 1 \/ Len(item) = 2
  <2> DEFINE l == Len(item)
  <2>1. l \in Nat /\ l <= 2 /\ l # 0
    BY EmptySeq
  <2> HIDE DEF l
  <2>2. l = 1 \/ l = 2
    BY <2>1
  <2> QED BY <2>2 DEF l
<1>2. CASE Len(item) = 1
  <2>1. a \in Nat /\ b = a
    BY <1>2
  <2>2. row = <<a, UNSET>>
    BY <1>2 DEF Row
  <2> HIDE DEF a, b, row
  <2>3. Expand(row) = <<a>> /\ row[1] = a
    BY <2>2 DEF Expand
  <2>4. m = 1
    BY <2>1
  <2>5. piece = [j \in 1..1 |-> a]
    <3> HIDE DEF m
    <3>1. \A j \in 1..1 : a + j - 1 = a
      BY <2>1
    <3> QED BY <2>1, <2>4, <3>1
  <2>6. [j \in 1..1 |-> a] = <<a>>
    OBVIOUS
  <2> QED BY <2>1, <2>3, <2>5, <2>6 DEF UNSET, a, b, row
<1>3. CASE Len(item) = 2
  <2>1. a \in Nat /\ b \in Nat /\ b = item[2]
    <3>1. \A k \in 1..2 : item[k] \in Nat
      BY <1>3, ElementOfSeq
    <3> QED BY <1>3, <3>1
  <2>2. row = <<a, b>>
    BY <1>3, <2>1 DEF Row
  <2> HIDE DEF a, b, row
  <2>3. Expand(row) = (IF a <= b THEN [k \in 1..(b - a + 1) |-> a + k - 1] ELSE [k \in 1..(a - b + 1) |-> a - k + 1])
        /\ row[1] = a /\ a # UNSET
    BY <2>1, <2>2 DEF Expand, UNSET
  <2>4. Expand(row) = piece
    <3>1. CASE a <= b
      BY <2>3, <3>1
    <3>2. CASE ~(a <= b)
      BY <2>3, <3>2
    <3> QED BY <3>1, <3>2
  <2> QED BY <2>3, <2>4 DEF a, b, row
<1> QED BY <1>1, <1>2, <1>3

\* With -t parsed, and a row left, the rows used are the items and give what is asked for.
LEMMA GivenAsked ==
  ASSUME ParserType, NEW arg \in Seq(Seq(Nat)), \A j \in DOMAIN arg : Len(arg[j]) <= 2 /\ arg[j] # <<>>,
         Len(arg) \in 1..(ITEM_COUNT - 1), p.test_item = Given(arg)
  PROVE  RowsUsed = Len(arg) /\ Expanded = Asked(arg)
<1> DEFINE L == Len(arg)
           a(k) == arg[k][1]
           b(k) == arg[k][Len(arg[k])]
           piece(k) == [j \in 1..(IF a(k) <= b(k) THEN b(k) - a(k) + 1 ELSE a(k) - b(k) + 1) |->
                          IF a(k) <= b(k) THEN a(k) + j - 1 ELSE a(k) - j + 1]
<1>1. L \in 1..(ITEM_COUNT - 1) /\ DOMAIN arg = 1..L /\ ITEM_COUNT \in Nat /\ Item = 1..ITEM_COUNT
  BY CountAssumption DEF Item
<1>2. \A k \in 1..L : arg[k] \in Seq(Nat) /\ Len(arg[k]) <= 2 /\ arg[k] # <<>>
  <2>1. \A k \in 1..L : arg[k] \in Seq(Nat)
    BY ElementOfSeq
  <2>2. \A k \in 1..L : Len(arg[k]) <= 2 /\ arg[k] # <<>>
    BY <1>1
  <2> QED BY <2>1, <2>2
<1>3. Asked(arg) = Joined([k \in 1..L |-> piece(k)])
  BY Zenon DEF Asked
<1> HIDE DEF L
<1>4. ASSUME NEW k \in 1..L
      PROVE  p.test_item[k] = Row(<<UNSET, UNSET>>, arg[k]) /\ p.test_item[k][1] # UNSET
             /\ Expand(p.test_item[k]) = piece(k)
  <2>1. k \in Item /\ k \in DOMAIN arg
    BY <1>1
  <2>2. p.test_item[k] = Row(<<UNSET, UNSET>>, arg[k])
    BY <2>1 DEF Given
  <2>3. Row(<<UNSET, UNSET>>, arg[k])[1] # UNSET /\ Expand(Row(<<UNSET, UNSET>>, arg[k])) = piece(k)
    BY <1>2, PieceAsked, Zenon
  <2> QED BY <2>2, <2>3
<1> HIDE DEF piece
<1>5. RowsUsed = L
  <2>1. L \in 0..ITEM_COUNT /\ L + 1 \in Item /\ L + 1 \notin DOMAIN arg
    BY <1>1
  <2>2. p.test_item[L + 1] = <<UNSET, UNSET>>
    BY <2>1 DEF Given
  <2>3. p.test_item[L + 1][1] = UNSET
    BY <2>2
  <2> QED BY <1>4, <2>1, <2>3, RowsUsedFacts
<1>6. [j \in 1..RowsUsed |-> Expand(p.test_item[j])] = [k \in 1..L |-> piece(k)]
  BY <1>4, <1>5
<1>7. Expanded = Joined([k \in 1..L |-> piece(k)])
  BY <1>6, Zenon DEF Expanded
<1> QED BY <1>3, <1>5, <1>7 DEF L

\* The invariant makes the items right.
LEMMA ItemsRight ==
  ASSUME ParserType, Stages, ItemsGiven, ItemsExpanded
  PROVE  ItemsAsAsked
<1> DEFINE T == {j \in DOMAIN argv : argv[j].opt = "t"}
<1> SUFFICES ASSUME NEW arg \in ItemArgs, Cardinality(T) = 1, \A k \in DOMAIN arg : arg[k] # <<>>,
                    Len(arg) \in 1..(ITEM_COUNT - 1), Len(Asked(arg)) < 2 * ITEM_COUNT
             PROVE  /\ pc # "undefined"
                    /\ pc \in {"mem_info", "open", "regions", "ready"} => test_item = Asked(arg)
  BY DEF ItemsAsAsked
<1>1. argv \in Argvs /\ DOMAIN argv = 1..Len(argv) /\ Len(argv) \in Nat
  BY ArgvsAssumption DEF ParserType
<1>2. PICK k \in DOMAIN argv : argv[k].opt = "t" /\ argv[k].ok /\ arg = argv[k].arg
  BY DEF ItemArgs
<1>3. T = {k}
  <2>1. IsFiniteSet(T)
    <3>1. IsFiniteSet(1..Len(argv)) /\ T \in SUBSET (1..Len(argv))
      BY <1>1, FS_Interval
    <3> HIDE DEF T
    <3> QED BY <3>1, FS_Subset
  <2>2. \E x : T = {x}
    <3> HIDE DEF T
    <3> QED BY <2>1, FS_Singleton
  <2>3. k \in T
    BY <1>2
  <2> HIDE DEF T
  <2> QED BY <2>2, <2>3
<1>4. arg \in Seq(Seq(Nat)) /\ \A j \in DOMAIN arg : Len(arg[j]) <= 2
  BY <1>1, <1>2, ArgvsAssumption
<1>5. pc \in {"mem_info", "open", "regions", "ready", "undefined"} => RowsUsed = Len(arg) /\ Expanded = Asked(arg)
  <2> SUFFICES ASSUME pc \in {"mem_info", "open", "regions", "ready", "undefined"}
               PROVE  RowsUsed = Len(arg) /\ Expanded = Asked(arg)
    OBVIOUS
  <2>1. n = Len(argv) /\ n >= k
    BY <1>1, <1>2 DEF Stages, Parsed
  <2>2. p.test_item = Given(arg)
    BY <1>2, <1>3, <2>1 DEF ItemsGiven
  <2> QED BY <1>4, <2>2, GivenAsked
<1>6. Len(arg) # 0 /\ Len(arg) # ITEM_COUNT
  BY CountAssumption
<1>7. ASSUME pc = "undefined" PROVE FALSE
  <2>1. Len(Expanded) >= 2 * ITEM_COUNT
    BY <1>5, <1>6, <1>7 DEF ItemsExpanded
  <2>2. Len(Expanded) < 2 * ITEM_COUNT
    BY <1>5, <1>7
  <2>3. Len(Expanded) \in Nat /\ ITEM_COUNT \in Nat
    <3>1. Expanded \in Seq(0..(ITEM_COUNT - 1))
      BY ExpandedTyped
    <3> QED BY <3>1, LenProperties, CountAssumption
  <2> DEFINE l == Len(Expanded)
  <2> HIDE DEF l
  <2> QED BY <2>1, <2>2, <2>3
<1>8. pc \in {"mem_info", "open", "regions", "ready"} => test_item = Asked(arg)
  BY <1>5, <1>6 DEF ItemsExpanded
<1> QED BY <1>7, <1>8

-----------------------------------------------------------------------------
(* The ranges are in order *)

\* The region that is looked at now comes before those already looked at.
LEMMA ScannedMore ==
  ASSUME ParserType, RangesType, Stages, Scan
  PROVE  /\ Scanned' = Scanned \cup {i} /\ Scanned \subseteq 1..Len(regions)
         /\ \A m \in Scanned : m \in 1..Len(regions) /\ i < m
<1>1. i \in 1..Len(regions) /\ i' = i - 1 /\ regions' = regions
  BY ScanCommon
<1>2. DOMAIN regions = 1..Len(regions) /\ Len(regions) \in Nat
  BY RegionBounds
<1> QED BY <1>1, <1>2 DEF Scanned

\* A range of region m is in front of the ranges of later ones.
LEMMA FrontPlaced ==
  ASSUME RangesType, NEW m \in 1..Len(regions), NEW ms, \A l \in ms : l \in 1..Len(regions) /\ m < l,
         NEW list \in Seq(ByteRange), AscendingIn(list, ms),
         NEW r \in ByteRange, r.start < r.end, Within(r, m)
  PROVE  AscendingIn(<<r>> \o list, ms \cup {m})
<1> DEFINE t == <<r>> \o list
           L == Len(list)
<1>1. /\ L \in Nat /\ DOMAIN t = 1..(L + 1) /\ DOMAIN list = 1..L
      /\ t[1] = r /\ \A k \in 2..(L + 1) : t[k] = list[k - 1]
  BY InFront
<1>2. \A k \in 1..L : list[k] \in ByteRange
  BY ElementOfSeq
<1> HIDE DEF t, L
<1>3. ASSUME NEW k \in 1..(L + 1)
      PROVE  /\ t[k].start < t[k].end
             /\ \E l \in ms \cup {m} : Within(t[k], l)
             /\ k > 1 => t[k - 1].end <= t[k].start
  <2>1. CASE k = 1
    BY <1>1, <2>1
  <2>2. CASE k = 2
    <3>1. 1 \in 1..L /\ t[2] = list[1] /\ t[1] = r
      BY <1>1, <2>2
    <3>2. PICK l \in ms : Within(list[1], l)
      BY <1>1, <3>1 DEF AscendingIn
    <3>3. After(m) <= First(l) /\ After(m) \in Nat /\ First(l) \in Nat
      BY RegionsApart, RegionBounds
    <3>4. r.end <= After(m) /\ First(l) <= list[1].start /\ list[1].start < list[1].end
      BY <1>1, <3>1, <3>2 DEF Within, AscendingIn
    <3>5. r.end \in Nat /\ list[1].start \in Nat
      BY <1>2, <3>1 DEF ByteRange
    <3>6. r.end <= list[1].start
      BY <3>3, <3>4, <3>5
    <3> QED BY <2>2, <3>1, <3>2, <3>4, <3>6
  <2>3. CASE k > 2
    <3>1. k - 1 \in 1..L /\ k - 1 > 1 /\ k \in 2..(L + 1) /\ k - 1 \in 2..(L + 1)
      BY <1>1, <2>3
    <3>2. t[k] = list[k - 1] /\ t[k - 1] = list[(k - 1) - 1]
      BY <1>1, <3>1
    <3> QED BY <1>1, <3>1, <3>2 DEF AscendingIn
  <2> QED BY <1>1, <2>1, <2>2, <2>3
<1> QED BY <1>1, <1>3 DEF AscendingIn, t

\* It is behind the ranges of later ones in raw_reg.
LEMMA BehindPlaced ==
  ASSUME RangesType, NEW m \in 1..Len(regions), NEW ms, \A l \in ms : l \in 1..Len(regions) /\ m < l,
         NEW list \in Seq(ByteRange), DescendingIn(list, ms),
         NEW r \in ByteRange, r.start <= r.end, Within(r, m)
  PROVE  DescendingIn(Append(list, r), ms \cup {m})
<1> DEFINE u == Append(list, r)
           L == Len(list)
<1>1. u \in Seq(ByteRange) /\ Len(u) = L + 1 /\ u[L + 1] = r /\ \A k \in 1..L : u[k] = list[k]
  BY AppendProperties
<1>2. L \in Nat /\ DOMAIN list = 1..L /\ DOMAIN u = 1..(L + 1)
  BY <1>1, LenProperties
<1>3. \A k \in 1..L : list[k] \in ByteRange
  BY ElementOfSeq
<1> HIDE DEF u, L
<1>4. ASSUME NEW k \in 1..L PROVE r.end <= list[k].start
  <2>1. PICK l \in ms : Within(list[k], l)
    BY <1>2 DEF DescendingIn
  <2>2. After(m) <= First(l) /\ After(m) \in Nat /\ First(l) \in Nat
    BY RegionsApart, RegionBounds
  <2>3. r.end <= After(m) /\ First(l) <= list[k].start
    BY <2>1 DEF Within
  <2>4. r.end \in Nat /\ list[k].start \in Nat
    BY <1>3 DEF ByteRange
  <2> QED BY <2>2, <2>3, <2>4
<1>5. ASSUME NEW k \in 1..(L + 1)
      PROVE  /\ u[k].start <= u[k].end
             /\ \E l \in ms \cup {m} : Within(u[k], l)
             /\ \A l \in 1..(L + 1) : l < k => u[k].end <= u[l].start
  <2>1. CASE k = L + 1
    <3>1. \A l \in 1..(L + 1) : l < k => l \in 1..L /\ u[l] = list[l]
      BY <1>1, <1>2, <2>1
    <3> QED BY <1>1, <1>4, <2>1, <3>1
  <2>2. CASE k # L + 1
    <3>1. k \in 1..L /\ \A l \in 1..(L + 1) : l < k => l \in 1..L
      BY <1>2, <2>2
    <3> QED BY <1>1, <1>2, <3>1 DEF DescendingIn
  <2> QED BY <2>1, <2>2
<1> QED BY <1>2, <1>5 DEF DescendingIn, u

\* More regions can only help.
LEMMA PlacedMore ==
  ASSUME NEW list, NEW ms, NEW m
  PROVE  /\ AscendingIn(list, ms) => AscendingIn(list, ms \cup {m})
         /\ DescendingIn(list, ms) => DescendingIn(list, ms \cup {m})
BY DEF AscendingIn, DescendingIn

\* The ranges are in order after each step of the loop.
LEMMA ScanKeepsOrder ==
  ASSUME ParserType, RangesType, Stages, RangesPlaced, Scan
  PROVE  RangesPlaced'
<1> DEFINE ms == Scanned \cup {i}
<1>1. /\ RW_list \in Seq(ByteRange) /\ RD_list \in Seq(ByteRange) /\ raw_reg \in Seq(ByteRange)
      /\ i \in 1..Len(regions) /\ \A l \in Scanned : l \in 1..Len(regions) /\ i < l
      /\ AtRegion /\ regions' = regions /\ Scanned' = ms
  BY ScanCommon, ScannedMore DEF RangesType
<1>2. ~Outside => WindowRange \in ByteRange /\ WindowRange.start <= WindowRange.end /\ Within(WindowRange, i)
  BY <1>1, WindowFacts DEF ByteRange, Within
<1> HIDE DEF ms
<1>3. ms = Scanned \cup {i}
  BY DEF ms
<1>4. /\ AscendingIn(RW_list, ms) /\ WholePages(RW_list)
      /\ AscendingIn(RD_list, ms) /\ DescendingIn(raw_reg, ms)
  BY <1>3, PlacedMore DEF RangesPlaced
<1>5. /\ AscendingIn(RW_list', ms) /\ WholePages(RW_list')
      /\ AscendingIn(RD_list', ms) /\ DescendingIn(raw_reg', ms)
  <2>1. CASE SkipRegion
    BY <1>4, <2>1 DEF SkipRegion
  <2>2. CASE EmptyRange
    <3> DEFINE r == WindowRange
    <3>1. ~Outside /\ raw_reg' = Append(raw_reg, r) /\ UNCHANGED <<RW_list, RD_list>>
      BY <2>2 DEF EmptyRange
    <3>2. r \in ByteRange /\ r.start <= r.end /\ Within(r, i)
      BY <1>2, <3>1
    <3> HIDE DEF r
    <3>3. DescendingIn(raw_reg', ms)
      BY <1>1, <1>3, <3>1, <3>2, BehindPlaced DEF RangesPlaced
    <3> QED BY <1>4, <3>1, <3>3
  <2>3. CASE ReadWriteRange
    <3> DEFINE r == Pages(WindowRange)
    <3>1. r \in ByteRange /\ r.start < r.end /\ Within(r, i) /\ r.start % PAGE_SIZE = 0 /\ r.end % PAGE_SIZE = 0
      BY <2>3, PagesFacts, ReadWriteStep
    <3>2. raw_reg' = Append(raw_reg, r) /\ RW_list' = <<r>> \o RW_list /\ RD_list' = RD_list
      BY <2>3, ReadWriteStep
    <3> HIDE DEF r
    <3>3. r.start <= r.end
      BY <3>1 DEF ByteRange
    <3>4. DescendingIn(raw_reg', ms)
      BY <1>1, <1>3, <3>1, <3>2, <3>3, BehindPlaced DEF RangesPlaced
    <3>5. AscendingIn(RW_list', ms)
      BY <1>1, <1>3, <3>1, <3>2, FrontPlaced DEF RangesPlaced
    <3>6. WholePages(RW_list')
      <4> DEFINE t == <<r>> \o RW_list
                 L == Len(RW_list)
      <4>1. /\ L \in Nat /\ DOMAIN t = 1..(L + 1) /\ DOMAIN RW_list = 1..L
            /\ t[1] = r /\ \A k \in 2..(L + 1) : t[k] = RW_list[k - 1]
        BY <1>1, <3>1, InFront
      <4> HIDE DEF t, L
      <4>2. ASSUME NEW k \in 1..(L + 1) PROVE t[k].start % PAGE_SIZE = 0 /\ t[k].end % PAGE_SIZE = 0
        <5>1. CASE k = 1
          BY <3>1, <4>1, <5>1
        <5>2. CASE k # 1
          <6>1. k \in 2..(L + 1) /\ k - 1 \in 1..L
            BY <4>1, <5>2
          <6> QED BY <1>4, <4>1, <6>1 DEF WholePages
        <5> QED BY <5>1, <5>2
      <4>3. RW_list' = t
        BY <3>2 DEF t
      <4> QED BY <4>1, <4>2, <4>3 DEF WholePages
    <3> QED BY <1>4, <3>2, <3>4, <3>5, <3>6
  <2>4. CASE ReadOnlyRange
    <3> DEFINE r == WindowRange
    <3>1. ~Outside /\ raw_reg' = Append(raw_reg, r) /\ RD_list' = <<r>> \o RD_list /\ RW_list' = RW_list /\ r.start # r.end
      BY <2>4 DEF ReadOnlyRange
    <3>2. r \in ByteRange /\ r.start <= r.end /\ Within(r, i)
      BY <1>2, <3>1
    <3> HIDE DEF r
    <3>3. r.start < r.end
      BY <3>1, <3>2 DEF ByteRange
    <3>4. DescendingIn(raw_reg', ms)
      BY <1>1, <1>3, <3>1, <3>2, BehindPlaced DEF RangesPlaced
    <3>5. AscendingIn(RD_list', ms)
      BY <1>1, <1>3, <3>1, <3>2, <3>3, FrontPlaced DEF RangesPlaced
    <3> QED BY <1>4, <3>1, <3>4, <3>5
  <2> QED BY <2>1, <2>2, <2>3, <2>4 DEF Scan
<1>6. /\ AscendingIn(RW_list, Scanned)' /\ WholePages(RW_list)'
      /\ AscendingIn(RD_list, Scanned)' /\ DescendingIn(raw_reg, Scanned)'
  <2>1. AscendingIn(RW_list, Scanned)' /\ WholePages(RW_list)'
    BY <1>1, <1>5 DEF AscendingIn, WholePages, Within, First, After
  <2>2. AscendingIn(RD_list, Scanned)'
    BY <1>1, <1>5 DEF AscendingIn, Within, First, After
  <2>3. DescendingIn(raw_reg, Scanned)'
    BY <1>1, <1>5 DEF DescendingIn, Within, First, After
  <2> QED BY <2>1, <2>2, <2>3
<1> QED BY <1>6 DEF RangesPlaced

\* The other steps leave the lists as they are.
Others ==
  \/ Install \/ TestItems \/ CheckWindow \/ OpenDevice \/ RegionFails \/ RegionsDone \/ Finished
  \/ Main /\ UNCHANGED <<test_item, device>>
  \/ UNCHANGED vars

\* No step outside the loop touches the lists before the gaps are listed.
LEMMA OthersKeepLists ==
  ASSUME ParserType, RangesType, Stages, Others
  PROVE  /\ UNCHANGED <<regions, RW_list, RD_list, raw_reg, max_phy_addr>>
         /\ i' # i => OpenDevice /\ RW_list = <<>> /\ RD_list = <<>> /\ raw_reg = <<>>
<1>1. CASE OpenDevice
  <2>1. pc \in Early
    BY <1>1 DEF OpenDevice, Early
  <2>2. UNCHANGED <<regions, RW_list, RD_list, raw_reg, max_phy_addr>>
    BY <1>1 DEF OpenDevice
  <2> QED BY <1>1, <2>1, <2>2 DEF Stages
<1>2. CASE ~OpenDevice
  BY <1>2 DEF Others, Install, TestItems, CheckWindow, RegionFails, RegionsDone, Finished, vars, device
<1> QED BY <1>1, <1>2

\* ... so that their order stays.
LEMMA OthersKeepOrder ==
  ASSUME ParserType, RangesType, Stages, RangesPlaced, Others
  PROVE  RangesPlaced'
<1>1. UNCHANGED <<regions, RW_list, RD_list, raw_reg>>
  BY OthersKeepLists
<1>2. CASE i' = i
  BY <1>1, <1>2 DEF RangesPlaced, AscendingIn, WholePages, DescendingIn, Within, First, After, Scanned
<1>3. CASE i' # i
  <2>1. RW_list' = <<>> /\ RD_list' = <<>> /\ raw_reg' = <<>>
    BY <1>1, <1>3, OthersKeepLists
  <2> QED BY <2>1 DEF RangesPlaced, AscendingIn, WholePages, DescendingIn
<1> QED BY <1>2, <1>3

\* What the later components assume of the lists.
LEMMA OrderRight ==
  ASSUME ParserType, RangesType, RangesPlaced
  PROVE  RangesOrdered
<1>1. \A list : AscendingIn(list, Scanned) =>
        \A k \in DOMAIN list :
          /\ list[k].start < list[k].end
          /\ k > 1 => list[k - 1].end <= list[k].start
          /\ \E r \in ToSet(regions) :
               r.start_pfn * PAGE_SIZE <= list[k].start /\ list[k].end <= r.end_pfn * PAGE_SIZE
  <2> SUFFICES ASSUME NEW list, AscendingIn(list, Scanned), NEW k \in DOMAIN list
               PROVE  /\ list[k].start < list[k].end
                      /\ k > 1 => list[k - 1].end <= list[k].start
                      /\ \E r \in ToSet(regions) :
                           r.start_pfn * PAGE_SIZE <= list[k].start /\ list[k].end <= r.end_pfn * PAGE_SIZE
    OBVIOUS
  <2>1. PICK m \in Scanned : Within(list[k], m)
    BY DEF AscendingIn
  <2>2. regions[m] \in ToSet(regions)
    BY <2>1 DEF Scanned, ToSet
  <2>3. regions[m].start_pfn * PAGE_SIZE <= list[k].start /\ list[k].end <= regions[m].end_pfn * PAGE_SIZE
    BY <2>1 DEF Within, First, After
  <2> QED BY <2>2, <2>3 DEF AscendingIn
<1>2. WholePages(RW_list) /\ AscendingIn(RW_list, Scanned) /\ AscendingIn(RD_list, Scanned)
  BY DEF RangesPlaced
<1>3. ASSUME NEW list \in {RW_list, RD_list}, NEW k \in DOMAIN list
      PROVE  list = RW_list => list[k].start % PAGE_SIZE = 0 /\ list[k].end % PAGE_SIZE = 0
  BY <1>2 DEF WholePages
<1>4. ASSUME NEW list \in {RW_list, RD_list}, NEW k \in DOMAIN list
      PROVE  /\ list[k].start < list[k].end
             /\ k > 1 => list[k - 1].end <= list[k].start
             /\ \E r \in ToSet(regions) :
                  r.start_pfn * PAGE_SIZE <= list[k].start /\ list[k].end <= r.end_pfn * PAGE_SIZE
  BY <1>1, <1>2
<1> QED BY <1>3, <1>4 DEF RangesOrdered

-----------------------------------------------------------------------------
(* What is tested is the window *)

\* Bytes of one page are in the same regions.
LEMMA RegionHasPages ==
  ASSUME RangesType, NEW m \in 1..Len(regions), NEW b \in Nat, NEW c \in Nat,
         b \div PAGE_SIZE = c \div PAGE_SIZE, First(m) <= b, b < After(m)
  PROVE  First(m) <= c /\ c < After(m)
<1> DEFINE f == pfn_start_roundup(b)
<1>1. First(m) \in Nat /\ First(m) % PAGE_SIZE = 0 /\ After(m) \in Nat /\ After(m) % PAGE_SIZE = 0
  BY RegionBounds
<1>2. f = pfn_start_roundup(c)
  BY SamePage
<1>3. f \in Nat /\ f <= c /\ c < f + PAGE_SIZE
  BY <1>2, Floor
<1>4. First(m) <= f /\ f + PAGE_SIZE <= After(m)
  BY <1>1, FloorBetween
<1> HIDE DEF f
<1> QED BY <1>1, <1>3, <1>4, PageAssumption

\* The part of the region that is looked at now: a byte of it in the window, or in a page of it.
Part(b) == First(i) <= b /\ b < After(i) /\ InWindow(b)
PagePart(b) == First(i) <= b /\ b < After(i) /\ PageInWindow(b)

\* A byte is in the page of a byte of the region's part, or is not in the part at all.
LEMMA PagePartIs ==
  ASSUME ParserType, RangesType, i \in 1..Len(regions), NEW b \in Nat
  PROVE  PagePart(b) <=> \E c \in Nat : Part(c) /\ c \div PAGE_SIZE = b \div PAGE_SIZE
<1>1. p.start \in Nat /\ p.end \in Nat
  BY DEF ParserType, Parm
<1>2. PageInWindow(b) <=> \E c \in Nat : InWindow(c) /\ c \div PAGE_SIZE = b \div PAGE_SIZE
  <2>1. \A c : c \in p.start..(p.end - 1) <=> c \in Nat /\ InWindow(c)
    BY <1>1 DEF InWindow
  <2> QED BY <2>1 DEF PageInWindow
<1>3. ASSUME PagePart(b) PROVE \E c \in Nat : Part(c) /\ c \div PAGE_SIZE = b \div PAGE_SIZE
  <2>1. PICK c \in Nat : InWindow(c) /\ c \div PAGE_SIZE = b \div PAGE_SIZE
    BY <1>2, <1>3 DEF PagePart
  <2>2. First(i) <= c /\ c < After(i)
    BY <1>3, <2>1, RegionHasPages DEF PagePart
  <2> QED BY <2>1, <2>2 DEF Part
<1>4. ASSUME NEW c \in Nat, Part(c), c \div PAGE_SIZE = b \div PAGE_SIZE PROVE PagePart(b)
  <2>1. First(i) <= b /\ b < After(i)
    BY <1>4, RegionHasPages DEF Part
  <2> QED BY <1>2, <1>4, <2>1 DEF Part, PagePart
<1> QED BY <1>3, <1>4

\* The regions looked at after a step.
LEMMA RegionsOfMore ==
  ASSUME ParserType, RangesType, Stages, Scan
  PROVE  /\ RegionsOf("RD")' = IF regions[i].type = "RD" THEN RegionsOf("RD") \cup First(i)..(After(i) - 1)
                               ELSE RegionsOf("RD")
         /\ RegionsOf("RW")' = IF regions[i].type = "RW" THEN RegionsOf("RW") \cup First(i)..(After(i) - 1)
                               ELSE RegionsOf("RW")
<1>1. Scanned' = Scanned \cup {i} /\ regions' = regions
  BY ScannedMore, ScanCommon
<1> DEFINE In(m) == First(m)..(After(m) - 1)
           U(t, ms) == UNION {In(m) : m \in {m \in ms : regions[m].type = t}}
<1>2. RegionsOf("RD") = U("RD", Scanned) /\ RegionsOf("RW") = U("RW", Scanned)
  BY DEF RegionsOf
<1>3. RegionsOf("RD")' = U("RD", Scanned \cup {i})
  BY <1>1 DEF RegionsOf, First, After
<1>4. RegionsOf("RW")' = U("RW", Scanned \cup {i})
  BY <1>1 DEF RegionsOf, First, After
<1> HIDE DEF In
<1>5. U(regions[i].type, Scanned \cup {i}) = U(regions[i].type, Scanned) \cup In(i)
  OBVIOUS
<1>6. \A t : t # regions[i].type => U(t, Scanned \cup {i}) = U(t, Scanned)
  OBVIOUS
<1> HIDE DEF U
<1> QED BY <1>2, <1>3, <1>4, <1>5, <1>6 DEF In

\* What the lists hold after a step of the loop over the regions.
LEMMA ScanKeepsWindow ==
  ASSUME ParserType, RangesType, Stages, WindowScanned, Scan
  PROVE  WindowScanned'
<1> SUFFICES ASSUME ~p.list_info PROVE WindowScanned'
  <2>1. p' = p
    BY ScanCommon
  <2> QED BY <2>1 DEF WindowScanned
<1> DEFINE P == {b \in Nat : Part(b)}
           Q == {b \in Nat : PagePart(b)}
           RDs == {b \in RegionsOf("RD") : InWindow(b)}
           RWs == {b \in RegionsOf("RW") : PageInWindow(b)}
           t == regions[i].type
<1>1. /\ pc = "regions" /\ i \in 1..Len(regions) /\ p' = p /\ regions' = regions /\ AtRegion
      /\ max_phy_addr \in Nat /\ max_phy_addr' \in Nat /\ max_phy_addr <= max_phy_addr' /\ After(i) <= max_phy_addr'
  BY ScanCommon DEF RangesType
<1>2. First(i) \in Nat /\ After(i) \in Nat /\ t \in {"RW", "RD"}
  BY <1>1, RegionBounds
<1>3. p.start \in Nat /\ p.end \in Nat /\ p.start <= p.end
  BY <1>1 DEF ParserType, Parm, Stages
<1>4. /\ Tested(RD_list) = RDs /\ Tested(RW_list) = RWs
      /\ Tested(raw_reg) = Tested(RW_list) \cup Tested(RD_list)
      /\ \A m \in Scanned : After(m) <= max_phy_addr
  BY <1>1 DEF WindowScanned
<1>5. /\ RW_list \in Seq(ByteRange) /\ RD_list \in Seq(ByteRange) /\ raw_reg \in Seq(ByteRange)
  BY DEF RangesType
<1>6. \A b \in First(i)..(After(i) - 1) : (InWindow(b) <=> b \in P) /\ (PageInWindow(b) <=> b \in Q)
  BY <1>2 DEF Part, PagePart
<1>7. P \subseteq First(i)..(After(i) - 1) /\ Q \subseteq First(i)..(After(i) - 1)
  BY <1>2 DEF Part, PagePart
<1>8. \A b : InWindow(b)' = InWindow(b) /\ PageInWindow(b)' = PageInWindow(b)
  BY <1>1 DEF InWindow, PageInWindow
<1>9. RDs' = IF t = "RD" THEN RDs \cup P ELSE RDs
  <2> HIDE DEF P, Q
  <2>1. RegionsOf("RD")' = IF t = "RD" THEN RegionsOf("RD") \cup First(i)..(After(i) - 1) ELSE RegionsOf("RD")
    BY RegionsOfMore DEF t
  <2>2. RDs' = {b \in RegionsOf("RD")' : InWindow(b)}
    BY <1>1 DEF InWindow
  <2>3. {b \in First(i)..(After(i) - 1) : InWindow(b)} = P
    BY <1>6, <1>7, Zenon
  <2> QED BY <2>1, <2>2, <2>3
<1>10. RWs' = IF t = "RW" THEN RWs \cup Q ELSE RWs
  <2> HIDE DEF P, Q
  <2>1. RegionsOf("RW")' = IF t = "RW" THEN RegionsOf("RW") \cup First(i)..(After(i) - 1) ELSE RegionsOf("RW")
    BY RegionsOfMore DEF t
  <2>2. RWs' = {b \in RegionsOf("RW")' : PageInWindow(b)}
    BY <1>1 DEF PageInWindow
  <2>3. {b \in First(i)..(After(i) - 1) : PageInWindow(b)} = Q
    BY <1>6, <1>7, Zenon
  <2> QED BY <2>1, <2>2, <2>3
<1>11. P = {} => Q = {}
  BY <1>1, PagePartIs
<1>12. ~Outside => P = Bytes(WindowRange)
  <2> SUFFICES ASSUME ~Outside PROVE P = Bytes(WindowRange)
    OBVIOUS
  <2>1. \A b \in Nat : Part(b) <=> (WindowRange.start <= b /\ b < WindowRange.end)
    BY <1>1, WindowFacts DEF Part
  <2>2. WindowRange.start \in Nat /\ WindowRange.end \in Nat
    BY <1>1, WindowFacts
  <2>3. \A b : b \in Bytes(WindowRange) <=> b \in Nat /\ WindowRange.start <= b /\ b < WindowRange.end
    BY <2>2 DEF Bytes
  <2> HIDE DEF WindowRange
  <2> QED BY <2>1, <2>3
<1> HIDE DEF P, Q, RDs, RWs, t
<1>13. ~Outside /\ WindowRange.start = WindowRange.end => P = {}
  <2> SUFFICES ASSUME ~Outside, WindowRange.start = WindowRange.end PROVE P = {}
    OBVIOUS
  <2>1. WindowRange.start \in Nat
    BY <1>1, WindowFacts
  <2>2. Bytes(WindowRange) = {}
    BY <2>1 DEF Bytes
  <2> QED BY <1>12, <2>2
<1>14. Outside => P = {}
  BY <1>1, <1>2, <1>3 DEF Outside, offset, offset_len, First, After, Part, InWindow, P
<1>15. /\ Tested(RD_list') = (IF t = "RD" THEN RDs \cup P ELSE RDs)
       /\ Tested(RW_list') = (IF t = "RW" THEN RWs \cup Q ELSE RWs)
       /\ Tested(raw_reg') = Tested(RW_list') \cup Tested(RD_list')
  <2>1. CASE SkipRegion
    <3>1. P = {} /\ Q = {} /\ UNCHANGED <<RW_list, RD_list, raw_reg>>
      BY <1>11, <1>14, <2>1 DEF SkipRegion
    <3> QED BY <1>4, <3>1
  <2>2. CASE EmptyRange
    <3> DEFINE r == WindowRange
    <3>1. ~Outside /\ r.start = r.end /\ raw_reg' = Append(raw_reg, r) /\ UNCHANGED <<RW_list, RD_list>>
      BY <2>2 DEF EmptyRange
    <3>2. P = {} /\ Q = {} /\ Bytes(r) = {}
      BY <1>11, <1>12, <1>13, <3>1
    <3>3. r \in ByteRange
      BY <1>1, <3>1, WindowFacts DEF ByteRange
    <3> HIDE DEF r
    <3>4. Tested(raw_reg') = Tested(raw_reg) \cup Bytes(r)
      BY <1>5, <3>1, <3>3, TestedMore
    <3> QED BY <1>4, <3>1, <3>2, <3>4
  <2>3. CASE ReadWriteRange
    <3> DEFINE r == Pages(WindowRange)
    <3>1. ~Outside /\ WindowRange.start # WindowRange.end /\ regions[i].type = "RW"
          /\ raw_reg' = Append(raw_reg, r) /\ RW_list' = <<r>> \o RW_list /\ RD_list' = RD_list
      BY <2>3, ReadWriteStep
    <3>2. r \in ByteRange
      BY <1>1, <3>1, PagesFacts
    <3>3. Bytes(r) = Q
      <4>1. \A b \in Nat : b \in Bytes(r) <=>
              \E c \in WindowRange.start..(WindowRange.end - 1) : c \div PAGE_SIZE = b \div PAGE_SIZE
        BY <1>1, <3>1, PagesFacts
      <4>2. \A c : c \in WindowRange.start..(WindowRange.end - 1) <=> c \in Nat /\ Part(c)
        BY <1>12, <3>1 DEF P, Bytes
      <4>3. \A b \in Nat : b \in Bytes(r) <=> PagePart(b)
        BY <1>1, <4>1, <4>2, PagePartIs
      <4>4. Bytes(r) \subseteq Nat
        BY <3>2 DEF Bytes, ByteRange
      <4> HIDE DEF r
      <4> QED BY <4>3, <4>4 DEF Q
    <3> HIDE DEF r
    <3>4. Tested(raw_reg') = Tested(raw_reg) \cup Q /\ Tested(RW_list') = Tested(RW_list) \cup Q
      BY <1>5, <3>1, <3>2, <3>3, TestedMore
    <3>5. t = "RW" /\ t # "RD"
      BY <3>1 DEF t
    <3> QED BY <1>4, <3>1, <3>4, <3>5
  <2>4. CASE ReadOnlyRange
    <3> DEFINE r == WindowRange
    <3>1. ~Outside /\ r.start # r.end /\ regions[i].type = "RD"
          /\ raw_reg' = Append(raw_reg, r) /\ RD_list' = <<r>> \o RD_list /\ RW_list' = RW_list
      BY <2>4 DEF ReadOnlyRange
    <3>2. r \in ByteRange
      BY <1>1, <3>1, WindowFacts DEF ByteRange
    <3>3. Bytes(r) = P
      BY <1>12, <3>1
    <3> HIDE DEF r
    <3>4. Tested(raw_reg') = Tested(raw_reg) \cup P /\ Tested(RD_list') = Tested(RD_list) \cup P
      BY <1>5, <3>1, <3>2, <3>3, TestedMore
    <3>5. t = "RD" /\ t # "RW"
      BY <3>1 DEF t
    <3> QED BY <1>4, <3>1, <3>4, <3>5
  <2> QED BY <2>1, <2>2, <2>3, <2>4 DEF Scan
<1>16. ASSUME NEW m \in Scanned' PROVE After(m)' <= max_phy_addr'
  <2>1. After(m)' = After(m)
    BY <1>1 DEF After
  <2>2. m \in Scanned \/ m = i
    BY <1>16, ScannedMore
  <2>3. CASE m \in Scanned
    <3>1. After(m) \in Nat /\ After(m) <= max_phy_addr
      BY <1>4, <2>3, ScannedMore, RegionBounds
    <3> QED BY <1>1, <2>1, <3>1
  <2>4. CASE m = i
    BY <1>1, <2>1, <2>4
  <2> QED BY <2>2, <2>3, <2>4
<1>17. /\ Tested(RD_list)' = RDs' /\ Tested(RW_list)' = RWs'
       /\ Tested(raw_reg)' = Tested(RW_list)' \cup Tested(RD_list)'
  <2>1. Tested(RD_list)' = Tested(RD_list') /\ Tested(RW_list)' = Tested(RW_list') /\ Tested(raw_reg)' = Tested(raw_reg')
    BY DEF Tested, Bytes, ToSet
  <2> QED BY <1>9, <1>10, <1>15, <2>1
<1>18. /\ RDs' = {b \in RegionsOf("RD") : InWindow(b)}'
       /\ RWs' = {b \in RegionsOf("RW") : PageInWindow(b)}'
  BY DEF RDs, RWs
<1> QED BY <1>16, <1>17, <1>18 DEF WindowScanned

\* Nothing is tested before the first region is looked at.
LEMMA OthersKeepWindow ==
  ASSUME ParserType, RangesType, Stages, WindowScanned, Others
  PROVE  WindowScanned'
<1>1. UNCHANGED <<regions, RW_list, RD_list, raw_reg, max_phy_addr>>
  BY OthersKeepLists
<1>2. CASE OpenDevice
  <2>1. RW_list = <<>> /\ RD_list = <<>> /\ raw_reg = <<>> /\ (pc' = "exit" \/ i' = Len(regions))
    BY <1>2 DEF OpenDevice, Exit, Stages, Early
  <2>2. CASE pc' = "exit"
    BY <2>2 DEF WindowScanned
  <2>3. CASE i' = Len(regions)
    <3>1. regions' = regions /\ DOMAIN regions = 1..Len(regions) /\ Len(regions) \in Nat
      BY <1>1, RegionBounds
    <3>2. Scanned' = {}
      BY <2>3, <3>1 DEF Scanned
    <3>3. RegionsOf("RD")' = {} /\ RegionsOf("RW")' = {}
      BY <3>2 DEF RegionsOf
    <3>4. RW_list' = <<>> /\ RD_list' = <<>> /\ raw_reg' = <<>>
      BY <1>1, <2>1
    <3>5. Tested(RW_list)' = {} /\ Tested(RD_list)' = {} /\ Tested(raw_reg)' = {}
      BY <3>4 DEF Tested, ToSet
    <3> QED BY <3>2, <3>3, <3>5 DEF WindowScanned
  <2> QED BY <2>1, <2>2, <2>3
<1>3. CASE RegionsDone \/ RegionFails \/ CheckWindow \/ Install \/ TestItems
  <2>1. pc' # "regions"
    BY <1>3 DEF RegionsDone, RegionFails, CheckWindow, Install, TestItems, Exit
  <2> QED BY <2>1 DEF WindowScanned
<1>4. CASE Main /\ UNCHANGED <<test_item, device>>
  <2>1. pc' # "regions"
    BY <1>4 DEF Main, CheckInstance, CheckRoot, Parse, MalformedOption, CpuOption, ItemOption, RangeOption,
                VerboseOption, ModeOption, FlagOption, VersionOption, UnknownOption, Operand, ParseDone,
                Option, Refuse, Accept, Exit
  <2> QED BY <2>1 DEF WindowScanned
<1>5. CASE Finished \/ UNCHANGED vars
  <2>1. pc' = pc /\ p' = p /\ UNCHANGED <<regions, i, RW_list, RD_list, raw_reg, max_phy_addr>>
    BY <1>5 DEF Finished, vars, device
  <2>2. Scanned' = Scanned /\ Tested(RD_list)' = Tested(RD_list) /\ Tested(RW_list)' = Tested(RW_list)
        /\ Tested(raw_reg)' = Tested(raw_reg)
    BY <2>1 DEF Scanned, Tested, Bytes, ToSet
  <2>3. {b \in RegionsOf("RD") : InWindow(b)}' = {b \in RegionsOf("RD") : InWindow(b)}
    BY <2>1 DEF Scanned, RegionsOf, First, After, InWindow
  <2>4. {b \in RegionsOf("RW") : PageInWindow(b)}' = {b \in RegionsOf("RW") : PageInWindow(b)}
    BY <2>1 DEF Scanned, RegionsOf, First, After, PageInWindow
  <2>5. \A m : After(m)' = After(m)
    BY <2>1 DEF After
  <2> QED BY <2>1, <2>2, <2>3, <2>4, <2>5 DEF WindowScanned
<1> QED BY <1>2, <1>3, <1>4, <1>5 DEF Others

\* Only RegionsDone makes the program ready, without -l; the window then ends with the last region.
LEMMA WhenReady ==
  ASSUME ParserType, RangesType, Stages, [Next]_vars, pc' = "ready", ~(pc = "ready" /\ UNCHANGED vars)
  PROVE  /\ RegionsDone /\ ~p.list_info /\ pc = "regions" /\ i = 0 /\ (RW_list # <<>> \/ RD_list # <<>>)
         /\ UNCHANGED <<regions, i, RW_list, RD_list, raw_reg, max_phy_addr>>
         /\ p'.start = p.start /\ gaps' = IF raw_reg = <<>> THEN {} ELSE Gaps(p'.end)
         /\ p'.end = IF p.end > max_phy_addr THEN max_phy_addr ELSE p.end
<1>1. ~Scan
  <2>1. Scan => pc = "regions" /\ pc' = pc
    BY ScanCommon
  <2> QED BY <2>1
<1>2. ~Main
  <2>1. Main => pc' # "ready"
    BY DEF Main, CheckInstance, CheckRoot, Parse, MalformedOption, CpuOption, ItemOption, RangeOption,
                VerboseOption, ModeOption, FlagOption, VersionOption, UnknownOption, Operand, ParseDone,
                Option, Refuse, Accept, Exit
  <2> QED BY <2>1
<1>3. RegionsDone
  BY <1>1, <1>2 DEF Next, Scan, Install, TestItems, CheckWindow, OpenDevice, RegionFails, Finished, Exit, vars
<1>4. /\ ~p.list_info /\ pc = "regions" /\ i = 0 /\ (RW_list # <<>> \/ RD_list # <<>>)
      /\ UNCHANGED <<regions, i, RW_list, RD_list, raw_reg, max_phy_addr>>
  BY <1>3 DEF RegionsDone, Exit
<1> DEFINE end == IF p.end > max_phy_addr THEN max_phy_addr ELSE p.end
<1>5. p' = [p EXCEPT !.end = end] /\ gaps' = IF raw_reg = <<>> THEN {} ELSE Gaps(end)
  BY <1>3 DEF RegionsDone
<1> HIDE DEF end
<1>6. p'.start = p.start /\ p'.end = end
  BY <1>5 DEF ParserType, Parm
<1> QED BY <1>3, <1>4, <1>5, <1>6 DEF end

\* What is tested when the loop is done: no region ends behind max_phy_addr.
LEMMA WindowTestedStep ==
  ASSUME ParserType, RangesType, Stages, WindowScanned, WindowTested, [Next]_vars
  PROVE  WindowTested'
<1> SUFFICES ASSUME pc' = "ready", ~(pc = "ready" /\ UNCHANGED vars) PROVE WindowTested'
  <2>1. CASE pc = "ready" /\ UNCHANGED vars
    BY <2>1 DEF WindowTested, vars, device, Tested, Bytes, ToSet, RegionBytes
  <2> QED BY <2>1 DEF WindowTested
<1>1. /\ ~p.list_info /\ pc = "regions" /\ i = 0
      /\ UNCHANGED <<regions, i, RW_list, RD_list, raw_reg, max_phy_addr>>
      /\ p'.start = p.start
      /\ p'.end = IF p.end > max_phy_addr THEN max_phy_addr ELSE p.end
  BY WhenReady
<1> DEFINE e == p'.end
           RDs == RegionBytes("RD")
           RWs == RegionBytes("RW")
<1>2. p.start \in Nat /\ p.end \in Nat /\ max_phy_addr \in Nat /\ e \in Nat
      /\ (e = p.end \/ (e = max_phy_addr /\ e <= p.end)) /\ e <= p.end
  BY <1>1 DEF ParserType, Parm, RangesType
<1>3. e = p.end \/ e = max_phy_addr
  BY <1>1
<1> HIDE DEF e
<1>4. DOMAIN regions = 1..Len(regions) /\ Len(regions) \in Nat /\ Scanned = 1..Len(regions)
  BY <1>1, RegionBounds DEF Scanned
<1>5. RegionsOf("RD") = RDs /\ RegionsOf("RW") = RWs
  BY <1>4 DEF RegionsOf, RegionBytes, First, After
<1>6. RDs' = RDs /\ RWs' = RWs
  BY <1>1 DEF RegionBytes
<1>7. Tested(RD_list)' = Tested(RD_list) /\ Tested(RW_list)' = Tested(RW_list)
  BY <1>1 DEF Tested, Bytes, ToSet
<1>8. Tested(RD_list) = {b \in RDs : InWindow(b)} /\ Tested(RW_list) = {b \in RWs : PageInWindow(b)}
  BY <1>1, <1>5 DEF WindowScanned
<1>9. \A b \in RDs \cup RWs : \E m \in 1..Len(regions) : First(m) <= b /\ b < After(m) /\ b \in Nat
  <2>1. ASSUME NEW m \in 1..Len(regions), NEW b \in First(m)..(After(m) - 1)
        PROVE  First(m) <= b /\ b < After(m) /\ b \in Nat
    <3>1. First(m) \in Nat /\ After(m) \in Nat
      BY RegionBounds
    <3> QED BY <3>1
  <2>2. \A b \in RDs \cup RWs : \E m \in 1..Len(regions) : b \in First(m)..(After(m) - 1)
    BY <1>4 DEF RegionBytes, First, After
  <2> HIDE DEF RDs, RWs
  <2> QED BY <2>1, <2>2
<1>10. ASSUME NEW m \in 1..Len(regions), NEW c \in Nat, c < After(m), c < p.end PROVE c < e
  <2>1. After(m) <= max_phy_addr
    BY <1>1, <1>4 DEF WindowScanned
  <2>2. After(m) \in Nat
    BY RegionBounds
  <2> QED BY <1>2, <1>3, <1>10, <2>1, <2>2
<1> HIDE DEF RDs, RWs
<1>11. \A b \in RDs : InWindow(b) <=> b \in p.start..(e - 1)
  <2> SUFFICES ASSUME NEW b \in RDs PROVE InWindow(b) <=> b \in p.start..(e - 1)
    OBVIOUS
  <2>1. PICK m \in 1..Len(regions) : First(m) <= b /\ b < After(m) /\ b \in Nat
    BY <1>9
  <2>2. b < p.end => b < e
    BY <1>10, <2>1
  <2>3. b < e => b < p.end
    BY <1>2, <2>1
  <2> QED BY <1>2, <2>1, <2>2, <2>3 DEF InWindow
<1>12. \A b \in RWs : PageInWindow(b) <=> \E c \in p.start..(e - 1) : c \div PAGE_SIZE = b \div PAGE_SIZE
  <2> SUFFICES ASSUME NEW b \in RWs
               PROVE  PageInWindow(b) <=> \E c \in p.start..(e - 1) : c \div PAGE_SIZE = b \div PAGE_SIZE
    OBVIOUS
  <2>1. PICK m \in 1..Len(regions) : First(m) <= b /\ b < After(m) /\ b \in Nat
    BY <1>9
  <2>2. ASSUME NEW c \in p.start..(p.end - 1), c \div PAGE_SIZE = b \div PAGE_SIZE PROVE c \in p.start..(e - 1)
    <3>1. c \in Nat /\ p.start <= c /\ c < p.end
      BY <1>2
    <3>2. c < After(m)
      BY <2>1, <2>2, <3>1, RegionHasPages
    <3>3. c < e
      BY <1>10, <3>1, <3>2
    <3> QED BY <1>2, <3>1, <3>3
  <2>3. p.start..(e - 1) \subseteq p.start..(p.end - 1)
    BY <1>2
  <2> QED BY <2>2, <2>3 DEF PageInWindow
<1>13. Tested(RD_list) = RDs \cap (p.start..(e - 1))
  BY <1>8, <1>11
<1>14. Tested(RW_list) = {b \in RWs : \E c \in p.start..(e - 1) : c \div PAGE_SIZE = b \div PAGE_SIZE}
  BY <1>8, <1>12
<1> QED BY <1>1, <1>6, <1>7, <1>13, <1>14 DEF WindowTested, e, RDs, RWs

-----------------------------------------------------------------------------
(* The gaps are the rest of the window *)

\* The bytes of a set of ranges.
BytesOf(s) == UNION {Bytes(r) : r \in s}

\* A byte of a gap is in no range, and one of the window that is in no range is in a gap.
LEMMA GapsTile ==
  ASSUME RangesType, p \in Parm, RangesPlaced, raw_reg # <<>>, NEW e \in Nat
  PROVE  /\ \A b \in BytesOf(Gaps(e)) : b \notin Tested(raw_reg)
         /\ \A b \in p.start..(e - 1) : b \notin Tested(raw_reg) => b \in BytesOf(Gaps(e))
<1> DEFINE L == Len(raw_reg)
           s == p.start
           a(k) == raw_reg[k].start
           z(k) == raw_reg[k].end
           rest == BytesOf(Gaps(e))
<1>1. L \in Nat /\ L >= 1 /\ DOMAIN raw_reg = 1..L /\ s \in Nat
  <2>1. raw_reg \in Seq(ByteRange)
    BY DEF RangesType
  <2>2. L \in Nat /\ L # 0 /\ DOMAIN raw_reg = 1..L
    BY <2>1, EmptySeq
  <2> HIDE DEF L
  <2>3. s \in Nat
    BY DEF Parm
  <2> QED BY <2>2, <2>3
<1>2. \A k \in 1..L : a(k) \in Nat /\ z(k) \in Nat /\ a(k) <= z(k)
  <2>1. \A k \in 1..L : raw_reg[k] \in ByteRange
    BY ElementOfSeq DEF RangesType
  <2> QED BY <1>1, <2>1 DEF ByteRange, RangesPlaced, DescendingIn
<1>3. \A k, l \in 1..L : l < k => z(k) <= a(l)
  BY <1>1 DEF RangesPlaced, DescendingIn
<1>4. \A b : b \in Tested(raw_reg) <=> \E k \in 1..L : b \in a(k)..(z(k) - 1)
  BY <1>1 DEF Tested, ToSet, Bytes
<1>5. \A g : g \in Gaps(e) <=>
        \/ g = [start |-> s, end |-> a(L)] /\ s < a(L)
        \/ \E k \in 2..L : g = [start |-> z(k), end |-> a(k - 1)] /\ a(k - 1) > z(k)
        \/ g = [start |-> z(1), end |-> e] /\ z(1) < e
  BY DEF Gaps
<1>6. \A b : b \in rest <=> \E g \in Gaps(e) : b \in g.start..(g.end - 1)
  BY DEF Bytes, BytesOf
<1> HIDE DEF L, s, a, z, rest
<1>7. ASSUME NEW b \in rest PROVE
        \/ s < a(L) /\ b \in s..(a(L) - 1)
        \/ \E k \in 2..L : b \in z(k)..(a(k - 1) - 1)
        \/ z(1) < e /\ b \in z(1)..(e - 1)
  <2>1. PICK g \in Gaps(e) : b \in g.start..(g.end - 1)
    BY <1>6
  <2> QED BY <1>5, <2>1
<1>8. ASSUME NEW b \in Nat,
             \/ s <= b /\ b < a(L)
             \/ \E k \in 2..L : z(k) <= b /\ b < a(k - 1)
             \/ z(1) <= b /\ b < e
      PROVE  b \in rest
  <2>1. 1 \in 1..L /\ L \in 1..L
    BY <1>1
  <2>2. CASE s <= b /\ b < a(L)
    <3> DEFINE g == [start |-> s, end |-> a(L)]
    <3>1. s < a(L) /\ b \in s..(a(L) - 1)
      BY <1>1, <1>2, <2>1, <2>2
    <3>2. g \in Gaps(e) /\ g.start = s /\ g.end = a(L)
      BY <1>5, <3>1
    <3> QED BY <1>6, <3>1, <3>2
  <2>3. ASSUME NEW k \in 2..L, z(k) <= b, b < a(k - 1) PROVE b \in rest
    <3> DEFINE g == [start |-> z(k), end |-> a(k - 1)]
    <3>1. k \in 1..L /\ k - 1 \in 1..L
      BY <1>1
    <3>2. a(k - 1) > z(k) /\ b \in z(k)..(a(k - 1) - 1)
      BY <1>2, <2>3, <3>1
    <3>3. g \in Gaps(e) /\ g.start = z(k) /\ g.end = a(k - 1)
      BY <1>5, <3>2
    <3> QED BY <1>6, <3>2, <3>3
  <2>4. CASE z(1) <= b /\ b < e
    <3> DEFINE g == [start |-> z(1), end |-> e]
    <3>1. z(1) < e /\ b \in z(1)..(e - 1)
      BY <1>2, <2>1, <2>4
    <3>2. g \in Gaps(e) /\ g.start = z(1) /\ g.end = e
      BY <1>5, <3>1
    <3> QED BY <1>6, <3>1, <3>2
  <2> QED BY <1>8, <2>2, <2>3, <2>4
<1>9. ASSUME NEW b \in rest, b \in Tested(raw_reg) PROVE FALSE
  <2>1. PICK k \in 1..L : b \in a(k)..(z(k) - 1)
    BY <1>4, <1>9
  <2>2. a(k) \in Nat /\ z(k) \in Nat /\ b \in Nat /\ a(k) <= b /\ b < z(k)
    BY <1>2, <2>1
  <2>3. 1 \in 1..L /\ L \in 1..L
    BY <1>1
  <2>4. a(L) <= a(k)
    <3>1. CASE k = L
      BY <2>2, <3>1
    <3>2. CASE k # L
      <4>1. k < L
        BY <1>1, <3>2
      <4>2. z(L) <= a(k)
        BY <1>3, <2>3, <4>1
      <4> QED BY <1>2, <2>2, <2>3, <4>2
    <3> QED BY <3>1, <3>2
  <2>5. z(k) <= z(1)
    <3>1. CASE k = 1
      BY <2>2, <3>1
    <3>2. CASE k # 1
      <4>1. 1 < k
        BY <1>1, <3>2
      <4>2. z(k) <= a(1)
        BY <1>3, <2>3, <4>1
      <4> QED BY <1>2, <2>2, <2>3, <4>2
    <3> QED BY <3>1, <3>2
  <2>6. CASE s < a(L) /\ b \in s..(a(L) - 1)
    <3>1. b < a(L) /\ a(L) \in Nat
      BY <1>1, <1>2, <2>3, <2>6
    <3> QED BY <2>2, <2>4, <3>1
  <2>7. ASSUME NEW l \in 2..L, b \in z(l)..(a(l - 1) - 1) PROVE FALSE
    <3>1. l \in 1..L /\ l - 1 \in 1..L
      BY <1>1
    <3>2. z(l) \in Nat /\ a(l - 1) \in Nat /\ z(l) <= b /\ b < a(l - 1) /\ a(l) \in Nat /\ a(l) <= z(l)
          /\ a(l - 1) <= z(l - 1) /\ z(l - 1) \in Nat
      BY <1>2, <2>7, <3>1
    <3>3. k = l \/ l < k \/ k = l - 1 \/ k < l - 1
      BY <1>1
    <3>4. CASE k = l
      BY <2>2, <3>2, <3>4
    <3>5. CASE l < k
      <4>1. z(k) <= a(l)
        BY <1>3, <3>1, <3>5
      <4> QED BY <2>2, <3>2, <4>1
    <3>6. CASE k = l - 1
      BY <2>2, <3>2, <3>6
    <3>7. CASE k < l - 1
      <4>1. z(l - 1) <= a(k)
        BY <1>3, <3>1, <3>7
      <4> QED BY <2>2, <3>2, <4>1
    <3> QED BY <3>3, <3>4, <3>5, <3>6, <3>7
  <2>8. CASE z(1) < e /\ b \in z(1)..(e - 1)
    <3>1. z(1) <= b /\ z(1) \in Nat
      BY <1>2, <2>3, <2>8
    <3> QED BY <2>2, <2>5, <3>1
  <2> QED BY <1>7, <2>6, <2>7, <2>8
<1>10. ASSUME NEW b \in s..(e - 1), b \notin Tested(raw_reg) PROVE b \in rest
  <2>1. b \in Nat /\ s <= b /\ b < e /\ 1 \in 1..L /\ L \in 1..L
    BY <1>1
  <2>2. CASE b < a(L)
    BY <1>8, <2>1, <2>2
  <2>3. CASE ~(b < a(L))
    <3> DEFINE S == {k \in 1..L : a(k) <= b}
    <3>1. L \in S
      BY <1>2, <2>1, <2>3
    <3>2. PICK k \in S : \A l \in S : k <= l
      <4>1. S \subseteq Nat /\ S # {}
        BY <3>1
      <4> HIDE DEF S
      <4> QED BY <4>1, LeastNat
    <3>3. k \in 1..L /\ a(k) <= b /\ a(k) \in Nat /\ z(k) \in Nat
      BY <1>2, <3>2
    <3>4. z(k) <= b
      <4>1. ~(b \in a(k)..(z(k) - 1))
        BY <1>4, <1>10, <3>3
      <4> QED BY <2>1, <3>3, <4>1
    <3>5. CASE k = 1
      BY <1>8, <2>1, <3>4, <3>5
    <3>6. CASE k # 1
      <4>1. k \in 2..L /\ k - 1 \in 1..L
        BY <1>1, <3>3, <3>6
      <4>2. b < a(k - 1)
        <5>1. ~(k <= k - 1)
          BY <3>3
        <5>2. k - 1 \notin S
          <6> HIDE DEF S
          <6> QED BY <3>2, <5>1
        <5>3. a(k - 1) \in Nat
          BY <1>2, <4>1
        <5> QED BY <2>1, <4>1, <5>2, <5>3
      <4> QED BY <1>8, <2>1, <3>4, <4>1, <4>2
    <3> QED BY <3>5, <3>6
  <2> QED BY <2>2, <2>3
<1>11. \A b \in rest : b \notin Tested(raw_reg)
  BY <1>9
<1>12. \A b \in s..(e - 1) : b \notin Tested(raw_reg) => b \in rest
  BY <1>10
<1> QED BY <1>11, <1>12, Zenon DEF rest, s

\* When the loop is done and something is tested, raw_reg holds what is tested.
LEMMA GapsStep ==
  ASSUME ParserType, RangesType, Stages, RangesPlaced, WindowScanned, GapsAreTheRest, [Next]_vars
  PROVE  GapsAreTheRest'
<1> SUFFICES ASSUME pc' = "ready", ~(pc = "ready" /\ UNCHANGED vars) PROVE GapsAreTheRest'
  <2>1. CASE pc = "ready" /\ UNCHANGED vars
    BY <2>1 DEF GapsAreTheRest, vars, device, Tested, Bytes, ToSet
  <2> QED BY <2>1 DEF GapsAreTheRest
<1>1. /\ ~p.list_info /\ pc = "regions" /\ (RW_list # <<>> \/ RD_list # <<>>)
      /\ UNCHANGED <<regions, i, RW_list, RD_list, raw_reg, max_phy_addr>>
      /\ p'.start = p.start /\ gaps' = IF raw_reg = <<>> THEN {} ELSE Gaps(p'.end)
      /\ p'.end = IF p.end > max_phy_addr THEN max_phy_addr ELSE p.end
  BY WhenReady
<1>2. p'.end \in Nat /\ p \in Parm
  BY <1>1 DEF ParserType, Parm, RangesType
<1>3. Tested(raw_reg) = Tested(RW_list) \cup Tested(RD_list)
  BY <1>1 DEF WindowScanned
<1>4. raw_reg # <<>>
  <2>1. ASSUME NEW list \in Seq(ByteRange), AscendingIn(list, Scanned), list # <<>> PROVE Tested(list) # {}
    <3>1. 1 \in DOMAIN list /\ list[1] \in ByteRange
      <4> DEFINE l == Len(list)
      <4>1. l \in Nat /\ l # 0 /\ DOMAIN list = 1..l
        BY <2>1, EmptySeq
      <4> HIDE DEF l
      <4>2. 1 \in 1..l
        BY <4>1
      <4> QED BY <4>1, <4>2, ElementOfSeq DEF l
    <3>2. list[1].start < list[1].end /\ list[1] \in ToSet(list)
      BY <2>1, <3>1 DEF AscendingIn, ToSet
    <3>3. list[1].start \in Bytes(list[1])
      BY <3>1, <3>2 DEF Bytes, ByteRange
    <3> QED BY <3>2, <3>3 DEF Tested
  <2>2. Tested(RW_list) # {} \/ Tested(RD_list) # {}
    BY <1>1, <2>1 DEF RangesPlaced, RangesType
  <2>3. raw_reg = <<>> => Tested(raw_reg) = {}
    BY DEF Tested, ToSet
  <2> QED BY <1>3, <2>2, <2>3
<1> DEFINE e == p'.end
<1>5. gaps' = Gaps(e)
  BY <1>1, <1>4
<1>6. /\ \A b \in BytesOf(Gaps(e)) : b \notin Tested(raw_reg)
      /\ \A b \in p.start..(e - 1) : b \notin Tested(raw_reg) => b \in BytesOf(Gaps(e))
  <2>1. e \in Nat
    BY <1>2
  <2> HIDE DEF e
  <2> QED BY <1>2, <1>4, <2>1, GapsTile
<1>7. p'.start = p.start
  BY <1>1
<1>8. Tested(RW_list)' = Tested(RW_list) /\ Tested(RD_list)' = Tested(RD_list)
  BY <1>1 DEF Tested, Bytes, ToSet
<1> HIDE DEF e
<1>9. /\ \A b \in BytesOf(gaps') : b \notin Tested(RW_list)' /\ b \notin Tested(RD_list)'
      /\ \A b \in p'.start..(e - 1) :
           b \notin Tested(RW_list)' /\ b \notin Tested(RD_list)' => b \in BytesOf(gaps')
  BY <1>3, <1>5, <1>6, <1>7, <1>8
<1>10. BytesOf(gaps') \cap (Tested(RW_list)' \cup Tested(RD_list)') = {}
  BY <1>9
<1>11. p'.start..(e - 1) \subseteq BytesOf(gaps') \cup Tested(RW_list)' \cup Tested(RD_list)'
  BY <1>9
<1>12. BytesOf(gaps') = UNION {Bytes(r) : r \in gaps'}
  BY Zenon DEF BytesOf
<1>13. (UNION {Bytes(r) : r \in gaps})' = UNION {Bytes(r) : r \in gaps'}
  BY DEF Bytes
<1> QED BY <1>10, <1>11, <1>12, <1>13, Zenon DEF GapsAreTheRest, e

-----------------------------------------------------------------------------
(* The theorems *)

\* The parts of the invariant hold before the first option is read.
LEMMA InitIInv == Init => IInv
<1> SUFFICES ASSUME Init PROVE IInv
  OBVIOUS
<1>1. /\ argv \in Argvs /\ n = 0 /\ p = DefaultParm /\ start_str = EmptyString /\ end_str = EmptyString
      /\ pc = "instance" /\ regions \in RegionLists /\ test_item = <<>> /\ i = 0
      /\ RW_list = <<>> /\ RD_list = <<>> /\ raw_reg = <<>> /\ max_phy_addr = 0 /\ gaps = {}
  BY DEF Init, CommandLineInit
<1>2. Len(argv) \in Nat
  BY <1>1, ArgvsAssumption
<1>3. Len(regions) \in Nat
  BY <1>1, RegionAssumption
<1>4. ParserType
  BY <1>1, <1>2, DefaultTyped DEF ParserType, Early
<1>5. RangesType
  BY <1>1, <1>3, EmptySeq DEF RangesType
<1>6. Stages /\ CodeSound
  BY <1>1 DEF Stages, CodeSound, Parsed
<1>7. ItemsGiven
  <2>1. p.test_item = [j \in Item |-> <<UNSET, UNSET>>]
    BY <1>1 DEF DefaultParm
  <2>2. \A k \in DOMAIN argv : ~(n >= k)
    <3>1. DOMAIN argv = 1..Len(argv)
      BY <1>1, ArgvsAssumption
    <3> QED BY <1>1, <1>2, <3>1
  <2> QED BY <2>1, <2>2 DEF ItemsGiven
<1>8. ItemsExpanded /\ WindowScanned /\ WindowTested /\ GapsAreTheRest
  BY <1>1 DEF ItemsExpanded, WindowScanned, WindowTested, GapsAreTheRest
<1>9. RangesPlaced
  BY <1>1 DEF RangesPlaced, AscendingIn, WholePages, DescendingIn
<1> QED BY <1>4, <1>5, <1>6, <1>7, <1>8, <1>9 DEF IInv

\* Each step of init_module() and of parse() keeps all of them.
LEMMA NextIInv == IInv /\ [Next]_vars => IInv'
<1> SUFFICES ASSUME IInv, [Next]_vars PROVE IInv'
  OBVIOUS
<1>1. /\ ParserType /\ RangesType /\ Stages /\ CodeSound /\ ItemsGiven /\ ItemsExpanded
      /\ RangesPlaced /\ WindowScanned /\ WindowTested /\ GapsAreTheRest
  BY DEF IInv
<1>2. Scan \/ Others
  BY DEF Next, Scan, Others
<1>3. ParserType' /\ RangesType' /\ Stages'
  BY <1>1, <1>2, ScanKeepsTypes, OthersKeepTypes DEF Others
<1>4. CodeSound' /\ ItemsGiven' /\ ItemsExpanded'
  BY <1>1, CodeStep, ItemsGivenStep, ItemsExpandedStep
<1>5. RangesPlaced' /\ WindowScanned'
  BY <1>1, <1>2, ScanKeepsOrder, ScanKeepsWindow, OthersKeepOrder, OthersKeepWindow
<1>6. WindowTested' /\ GapsAreTheRest'
  BY <1>1, WindowTestedStep, GapsStep
<1> QED BY <1>3, <1>4, <1>5, <1>6 DEF IInv

\* The inductive invariant holds from the command line to the end.
THEOREM StartUpRight == Spec => []IInv
<1>1. Init => IInv
  BY InitIInv
<1>2. IInv /\ [Next]_vars => IInv'
  BY NextIInv
<1> QED BY <1>1, <1>2, PTL DEF Spec

\* Before the tests the shell sees 0 only for -v, -l and -c.
THEOREM ZeroEarned == Spec => []ZeroIsEarned
<1>1. IInv => ZeroIsEarned
  BY FailuresShow DEF IInv, CodeSound, ZeroIsEarned
<1> QED BY <1>1, StartUpRight, PTL

\* One -t that leaves room in both tables: its items run, all of them, in that order.
THEOREM ItemsFollowOptions == Spec => []ItemsAsAsked
<1>1. IInv => ItemsAsAsked
  BY ItemsRight DEF IInv
<1> QED BY <1>1, StartUpRight, PTL

\* The lists hold the window's bytes and no other, in the order and the shape that
\* the later components assume, and the gaps that are listed are the rest.
THEOREM WindowFollowsOptions == Spec => []WindowRight
<1>1. IInv => TypeOK
  <2> SUFFICES ASSUME IInv PROVE TypeOK
    OBVIOUS
  <2>1. ParserType /\ RangesType
    BY DEF IInv
  <2>2. pc \in {"instance", "parse", "root", "install", "items", "mem_info", "open",
                "regions", "ready", "exit", "undefined"} /\ n \in 0..Len(argv) /\ i \in 0..Len(regions)
    BY <2>1 DEF ParserType, RangesType, Early
  <2>3. p.cpu \in {NO_SPECIFY_CPU} \cup 0..(CORE_COUNT - 1) /\ p.mode \in 0..2
    BY <2>1 DEF ParserType, Parm
  <2>4. \A list : list \in Seq(ByteRange) => ToSet(list) \subseteq ByteRange
    BY DEF ToSet
  <2>5. \A r \in ToSet(RW_list) \cup ToSet(RD_list) \cup ToSet(raw_reg) \cup gaps : r \in ByteRange
    BY <2>1, <2>4 DEF RangesType
  <2>6. \A k \in DOMAIN test_item : test_item[k] \in 0..(ITEM_COUNT - 1)
    <3>1. test_item \in Seq(0..(ITEM_COUNT - 1))
      BY <2>1 DEF RangesType
    <3> DEFINE S == 0..(ITEM_COUNT - 1)
    <3> HIDE DEF S
    <3>2. \A k \in DOMAIN test_item : test_item[k] \in S
      <4>1. test_item \in Seq(S)
        BY <3>1 DEF S
      <4> QED BY <4>1, ElementOfSeq, LenProperties
    <3> QED BY <3>2 DEF S
  <2> QED BY <2>2, <2>3, <2>5, <2>6 DEF TypeOK
<1>2. IInv => RangesOrdered
  BY OrderRight DEF IInv
<1>3. IInv => WindowRight
  BY <1>1, <1>2 DEF IInv, WindowRight
<1> QED BY <1>3, StartUpRight, PTL
=============================================================================
