------------------------------ MODULE StartUp ------------------------------
(***************************************************************************)
(* From the command line to the ranges that will be tested: init_module()  *)
(* expands the test items and cuts every region of the driver with the     *)
(* window [start, end) of -r.  Read/write ranges are enlarged to pages and *)
(* mapped, read-only ones stay as they are.  Addresses are bytes.          *)
(***************************************************************************)
EXTENDS CommandLine, FiniteSets

CONSTANTS PAGE_SIZE,
          LIST_END,    \* the end of the window for -l
          RegionLists  \* what the driver may hold, by index

ASSUME PageAssumption == PAGE_SIZE \in Nat \ {0} /\ LIST_END \in Nat

\* The driver's regions are page frames in ascending order and do not overlap;
\* none is empty (see BootmemRegions).
ASSUME RegionAssumption ==
  \A l \in RegionLists :
    /\ l \in Seq([start_pfn : Nat, end_pfn : Nat, type : {"RW", "RD"}])
    /\ \A k \in 1..Len(l) : /\ l[k].start_pfn < l[k].end_pfn
                            /\ k > 1 => l[k - 1].end_pfn <= l[k].start_pfn

ERR_INPUT_ADDRESS == AppErr(6)
ERR_GET_MEM_INFO == AppErr(8)
ERR_TEST_POLICY == AppErr(11)

ByteRange == [start : Nat, end : Nat]

VARIABLES
  regions,           \* the driver's regions
  test_item,         \* test_config.test_item up to its first -1
  i,                 \* regions still to look at
  RW_list, RD_list,  \* ranges; list_add() puts a new one in front
  raw_reg,           \* what each region left of the window, for the message
  max_phy_addr,
  gaps               \* the ranges that are listed as non-testable

device == <<regions, i, RW_list, RD_list, raw_reg, max_phy_addr, gaps>>
vars == <<argv, parser, p, pc, code, test_item, device>>

-----------------------------------------------------------------------------
\* Variant: a falling range stops before its last item.
ExpandShort(row) ==
  IF row[2] = UNSET THEN <<row[1]>>
  ELSE IF row[1] <= row[2] THEN [k \in 1..(row[2] - row[1] + 1) |-> row[1] + k - 1]
  ELSE [k \in 1..(row[1] - row[2]) |-> row[1] - k + 1]

\* a~b counts up or down from a to b.
Expand(row) ==
  IF row[2] = UNSET THEN <<row[1]>>
  ELSE IF row[1] <= row[2] THEN [k \in 1..(row[2] - row[1] + 1) |-> row[1] + k - 1]
  ELSE [k \in 1..(row[1] - row[2] + 1) |-> row[1] - k + 1]

\* Rows are read up to the first one that is not set.
RowsUsed == CHOOSE k \in 0..ITEM_COUNT :
  /\ \A j \in 1..k : p.test_item[j][1] # UNSET
  /\ k < ITEM_COUNT => p.test_item[k + 1][1] = UNSET

\* Sequences, one behind the other.
Joined(s) ==
  LET upto[k \in 0..Len(s)] == IF k = 0 THEN <<>> ELSE upto[k - 1] \o s[k]
  IN  upto[Len(s)]

Expanded == Joined([j \in 1..RowsUsed |-> Expand(p.test_item[j])])

\* Without -t all items run.  If no row is unset, the loop reads on behind the
\* array; if the items need more than the 2 * ITEM_COUNT elements of
\* test_config.test_item, it writes behind it; if they need all, no -1 is left.
TestItems ==
  /\ pc = "items"
  /\ IF RowsUsed = 0
     THEN test_item' = [k \in Item |-> k - 1] /\ pc' = "mem_info"
     ELSE IF RowsUsed = ITEM_COUNT \/ Len(Expanded) >= 2 * ITEM_COUNT
     THEN test_item' = <<>> /\ pc' = "undefined"
     ELSE test_item' = Expanded /\ pc' = "mem_info"
  /\ UNCHANGED <<argv, parser, p, code, device>>

\* signal_a(), then the e820 map and the NUMA tables
Install ==
  /\ pc = "install"
  /\ \/ Exit(Errno(22))
     \/ Exit(<<65535, 65535>>)
     \/ pc' = "items" /\ UNCHANGED code
  /\ UNCHANGED <<argv, parser, p, test_item, device>>

\* get_mem_info() twice, and the check of the window; -l makes it unlimited.
CheckWindow ==
  /\ pc = "mem_info"
  /\ \/ Exit(ERR_GET_MEM_INFO) /\ UNCHANGED p
     \/ p.end < p.start /\ Exit(ERR_INPUT_ADDRESS) /\ UNCHANGED p
     \/ /\ p.end >= p.start
        /\ p' = IF p.list_info THEN [p EXCEPT !.start = 0, !.end = LIST_END] ELSE p
        /\ pc' = "open" /\ UNCHANGED code
  /\ UNCHANGED <<argv, parser, test_item, device>>

\* open() and GET_BREGION_NUM
OpenDevice ==
  /\ pc = "open"
  /\ \/ Exit(Errno(2)) /\ UNCHANGED i
     \/ pc' = "regions" /\ i' = Len(regions) /\ UNCHANGED code
  /\ UNCHANGED <<argv, parser, p, test_item, regions, RW_list, RD_list, raw_reg, max_phy_addr, gaps>>

-----------------------------------------------------------------------------
pfn_start_roundup(a) == a - (a % PAGE_SIZE)

pfn_end_roundup(a) == pfn_start_roundup(a + PAGE_SIZE - 1)

offset == regions[i].start_pfn * PAGE_SIZE
offset_len == regions[i].end_pfn * PAGE_SIZE  \* offset + len

\* The region is skipped before anything is noted of it.
Outside == ~p.list_info /\ (offset_len < p.start \/ offset > p.end)

\* What the region and the window have in common; [0, 0) if no case fits.
WindowRange ==
  IF p.list_info THEN [start |-> offset, end |-> offset_len]
  ELSE IF offset <= p.start /\ offset_len <= p.end THEN [start |-> p.start, end |-> offset_len]
  ELSE IF offset > p.start /\ offset_len < p.end THEN [start |-> offset, end |-> offset_len]
  ELSE IF offset <= p.start /\ offset_len >= p.end THEN [start |-> p.start, end |-> p.end]
  ELSE IF p.start <= offset /\ offset <= p.end /\ offset_len >= p.end THEN [start |-> offset, end |-> p.end]
  ELSE [start |-> 0, end |-> 0]

Pages(r) == [start |-> pfn_start_roundup(r.start), end |-> pfn_end_roundup(r.end)]

AtRegion == pc = "regions" /\ i > 0

\* GET_BREGION comes first, the greatest address is noted for every region.
NextRegion ==
  /\ i' = i - 1
  /\ max_phy_addr' = IF offset_len > max_phy_addr THEN offset_len ELSE max_phy_addr
  /\ UNCHANGED <<argv, parser, p, pc, code, test_item, regions, gaps>>

SkipRegion == AtRegion /\ Outside /\ NextRegion /\ UNCHANGED <<RW_list, RD_list, raw_reg>>

EmptyRange ==
  /\ AtRegion /\ ~Outside /\ WindowRange.start = WindowRange.end
  /\ raw_reg' = Append(raw_reg, WindowRange)
  /\ NextRegion /\ UNCHANGED <<RW_list, RD_list>>

\* The check against MIN_BLOCK_SIZE, a page, comes after the rounding.
ReadWriteRange ==
  /\ AtRegion /\ ~Outside /\ WindowRange.start # WindowRange.end /\ regions[i].type = "RW"
  /\ LET r == Pages(WindowRange)
     IN /\ raw_reg' = Append(raw_reg, r)
        /\ RW_list' = IF ~p.list_info /\ r.end < r.start + PAGE_SIZE THEN RW_list ELSE <<r>> \o RW_list
  /\ NextRegion /\ UNCHANGED RD_list

ReadOnlyRange ==
  /\ AtRegion /\ ~Outside /\ WindowRange.start # WindowRange.end /\ regions[i].type = "RD"
  /\ raw_reg' = Append(raw_reg, WindowRange)
  /\ RD_list' = <<WindowRange>> \o RD_list
  /\ NextRegion /\ UNCHANGED RW_list

\* Variant: errno is read after close() succeeded.
RegionFailsQuietly ==
  /\ AtRegion
  /\ Exit(Errno(0))
  /\ UNCHANGED <<argv, parser, p, test_item, device>>

\* An ioctl() or the mmap() of a read/write range fails.
RegionFails ==
  /\ AtRegion
  /\ Exit(Errno(12))
  /\ UNCHANGED <<argv, parser, p, test_item, device>>

-----------------------------------------------------------------------------
\* Variant: the gap in front of the first range is forgotten.
GapsBetween(end) ==
  {[start |-> raw_reg[k].end, end |-> raw_reg[k - 1].start] :
     k \in {k \in 2..Len(raw_reg) : raw_reg[k - 1].start > raw_reg[k].end}}
  \cup {r \in {[start |-> raw_reg[1].end, end |-> end]} : r.start < r.end}

\* raw_reg holds the ranges from the last to the first.  The comparison of the
\* last range with what is in front of the array (i - 1 = -1) is left out.
Gaps(end) ==
  {r \in {[start |-> p.start, end |-> raw_reg[Len(raw_reg)].start]} : r.start < r.end}
  \cup {[start |-> raw_reg[k].end, end |-> raw_reg[k - 1].start] :
          k \in {k \in 2..Len(raw_reg) : raw_reg[k - 1].start > raw_reg[k].end}}
  \cup {r \in {[start |-> raw_reg[1].end, end |-> end]} : r.start < r.end}

\* The non-testable ranges are listed and the window ends at the last region.
\* -l exits with the lists, -c after it has read the machine-check log.
RegionsDone ==
  /\ pc = "regions" /\ i = 0
  /\ LET end == IF p.end > max_phy_addr THEN max_phy_addr ELSE p.end
     IN /\ p' = [p EXCEPT !.end = end]
        /\ gaps' = IF raw_reg = <<>> THEN {} ELSE Gaps(end)
  /\ IF p.list_info THEN Exit(ERR_SUCCESS)
     ELSE IF RW_list = <<>> /\ RD_list = <<>> THEN Exit(ERR_INPUT_ADDRESS)
     ELSE IF p.clear_ecc THEN \E c \in {ERR_SUCCESS, ERR_MCE_MSG} : Exit(c)
     ELSE Exit(ERR_TEST_POLICY) \/ (pc' = "ready" /\ UNCHANGED code)
  /\ UNCHANGED <<argv, parser, test_item, regions, i, RW_list, RD_list, raw_reg, max_phy_addr>>

Finished == pc \in {"exit", "ready", "undefined"} /\ UNCHANGED vars

Init ==
  /\ CommandLineInit
  /\ regions \in RegionLists
  /\ test_item = <<>>
  /\ i = 0
  /\ RW_list = <<>> /\ RD_list = <<>> /\ raw_reg = <<>>
  /\ max_phy_addr = 0
  /\ gaps = {}

Main == CheckInstance \/ Parse \/ CheckRoot

Next ==
  \/ Main /\ UNCHANGED <<test_item, device>>
  \/ Install \/ TestItems \/ CheckWindow \/ OpenDevice
  \/ SkipRegion \/ EmptyRange \/ ReadWriteRange \/ ReadOnlyRange \/ RegionFails
  \/ RegionsDone \/ Finished

Spec == Init /\ [][Next]_vars

-----------------------------------------------------------------------------
\* Types; at the end the ranges are what test_policy() and the threads rely on.
TypeOK ==
  /\ pc \in {"instance", "parse", "root", "install", "items", "mem_info", "open",
             "regions", "ready", "exit", "undefined"}
  /\ n \in 0..Len(argv) /\ i \in 0..Len(regions)
  /\ p.cpu \in {NO_SPECIFY_CPU} \cup 0..(CORE_COUNT - 1) /\ p.mode \in 0..2
  /\ \A r \in ToSet(RW_list) \cup ToSet(RD_list) \cup ToSet(raw_reg) \cup gaps : r \in ByteRange
  /\ \A k \in DOMAIN test_item : test_item[k] \in 0..(ITEM_COUNT - 1)

\* The -t options of the command line.
ItemArgs == {argv[k].arg : k \in {k \in DOMAIN argv : argv[k].opt = "t" /\ argv[k].ok}}

\* What one -t asks for, written without loops.
Asked(arg) == Joined([k \in 1..Len(arg) |->
  LET a == arg[k][1]  b == arg[k][Len(arg[k])]
  IN [j \in 1..(IF a <= b THEN b - a + 1 ELSE a - b + 1) |-> IF a <= b THEN a + j - 1 ELSE a - j + 1]])

\* With one -t whose items leave a row of test_parm and an element of
\* test_config.test_item free, exactly the items asked for run, in that order.
ItemsAsAsked ==
  \A arg \in ItemArgs :
    (/\ Cardinality({k \in DOMAIN argv : argv[k].opt = "t"}) = 1
     /\ \A k \in DOMAIN arg : arg[k] # <<>>
     /\ Len(arg) \in 1..(ITEM_COUNT - 1)
     /\ Len(Asked(arg)) < 2 * ITEM_COUNT)
    => /\ pc # "undefined"
       /\ pc \in {"mem_info", "open", "regions", "ready"} => test_item = Asked(arg)

Bytes(r) == r.start..(r.end - 1)

Tested(list) == UNION {Bytes(r) : r \in ToSet(list)}

RegionBytes(t) == UNION {regions[k].start_pfn * PAGE_SIZE..(regions[k].end_pfn * PAGE_SIZE - 1) :
                           k \in {k \in DOMAIN regions : regions[k].type = t}}

\* The ranges hold every byte of the window that the driver lists and nothing
\* else, but for the rest of a page that a read/write range begins or ends in.
WindowTested ==
  pc = "ready" =>
    /\ Tested(RD_list) = RegionBytes("RD") \cap (p.start..(p.end - 1))
    /\ Tested(RW_list) =
         {b \in RegionBytes("RW") : \E c \in p.start..(p.end - 1) : c \div PAGE_SIZE = b \div PAGE_SIZE}

\* Read/write ranges are whole pages of one region, in ascending order and apart:
\* what TestPolicy and RangeTable assume of them.
RangesOrdered ==
  \A list \in {RW_list, RD_list} : \A k \in DOMAIN list :
    /\ list[k].start < list[k].end
    /\ k > 1 => list[k - 1].end <= list[k].start
    /\ list = RW_list => list[k].start % PAGE_SIZE = 0 /\ list[k].end % PAGE_SIZE = 0
    /\ \E r \in ToSet(regions) :
         r.start_pfn * PAGE_SIZE <= list[k].start /\ list[k].end <= r.end_pfn * PAGE_SIZE

\* The ranges listed as non-testable and the ranges under test are the window:
\* no byte of it is in both or in none.
GapsAreTheRest ==
  pc = "ready" =>
    LET rest == UNION {Bytes(r) : r \in gaps}
    IN /\ rest \cap (Tested(RW_list) \cup Tested(RD_list)) = {}
       /\ p.start..(p.end - 1) \subseteq rest \cup Tested(RW_list) \cup Tested(RD_list)

\* From the options -r and the driver's regions to the lists (task_generator.c:
\* 524-719): what is tested is the window, in ranges that the later components
\* can take, and the message on what is not tested is about the rest.
WindowRight == TypeOK /\ WindowTested /\ RangesOrdered /\ GapsAreTheRest

\* Before the tests the shell sees 0 only for -v, -l and -c.
ZeroIsEarned ==
  pc = "exit" /\ ExitStatus(code) = 0 =>
    p.list_info \/ p.clear_ecc \/ \E k \in DOMAIN argv : argv[k].opt = "v"
=============================================================================
