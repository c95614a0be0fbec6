----------------------------- MODULE RangeTable -----------------------------
(***************************************************************************)
(* How the slices of test_policy() reach the threads: read_write_test()    *)
(* copies the lists to the table istr, frees them and sorts the rows of    *)
(* the table by size.                                                      *)
(*                                                                         *)
(* A row (RW_range_info) is an array sinfo of HALF_CORE_COUNT slices of    *)
(* three words, followed by three words that hold slice_num, start and     *)
(* end.  Nothing in the code bounds the index into sinfo, so the table is  *)
(* modelled as the slots of three words it consists of: slot HALF_CORE_COUNT *)
(* of a row is its slice_num, start and end, and the slot after that is    *)
(* sinfo[0] of the next row.  cpuid and slice_num are ints: a write to one *)
(* leaves the high half of its word alone.                                 *)
(***************************************************************************)
EXTENDS TestPolicy

CONSTANTS HALF_CORE_COUNT, RANGE_COUNT,
          UINT  \* number of values of an unsigned int

\* An int holds the number of a core and of the slices of a row.
ASSUME TableAssumption ==
  /\ HALF_CORE_COUNT \in Nat \ {0} /\ RANGE_COUNT \in Nat \ {0} /\ UINT \in Nat \ {0}
  /\ HALF_CORE_COUNT < UINT /\ CORE_COUNT <= UINT

VARIABLES
  istr,       \* the slots of the table
  range_num,  \* its rows in use
  step,       \* "copy", "sort" or "test"
  m, n,       \* loop counters of the sort
  overrun     \* a slice was written behind the end of the table

tvars == <<istr, range_num, step, m, n, overrun>>

ROW == HALF_CORE_COUNT + 1
Slots == 0..(RANGE_COUNT * ROW - 1)

\* A write to the int in the low half of word w.
SetInt(w, i) == (w \div UINT) * UINT + i

\* The fields of row k of table t.
Sinfo(t, k, j) ==
  LET slot == t[k * ROW + j]
  IN [start |-> slot.start, end |-> slot.end, cpuid |-> slot.word % UINT]
Trailer(k) == k * ROW + HALF_CORE_COUNT
slice_num(t, k) == t[Trailer(k)].start % UINT
RowStart(t, k) == t[Trailer(k)].end
RowEnd(t, k) == t[Trailer(k)].word

\* The size of a row as the sort computes it, in unsigned longs.
Block(t, k) == (RowEnd(t, k) - RowStart(t, k)) % (UINT * UINT)

-----------------------------------------------------------------------------
\* The table after range r with slice list s is copied to row k: start and end
\* first, then the slices, then their number.  A slot behind the table is lost.
CopiedRow(t, k, r, s) ==
  LET bounds == [t EXCEPT ![Trailer(k)].end = r.start, ![Trailer(k)].word = r.end]
      slices == [i \in Slots |->
                   IF i \in k * ROW..(k * ROW + Len(s) - 1)
                   THEN LET e == s[i - k * ROW + 1]
                        IN [start |-> e.start, end |-> e.end,
                            word |-> SetInt(bounds[i].word, e.cpuid)]
                   ELSE bounds[i]]
  IN [slices EXCEPT ![Trailer(k)].start = SetInt(@, Len(s))]

CopyRange ==
  /\ step = "copy" /\ ret = ERR_SUCCESS
  /\ range_num < Len(RW_list)
  /\ range_num' = range_num + 1
  /\ LET s == RW_slice[range_num + 1]
     IN IF range_num < RANGE_COUNT
        THEN /\ istr' = CopiedRow(istr, range_num, RW_list[range_num + 1], s)
             /\ overrun' = (overrun \/ range_num * ROW + Len(s) - 1 \notin Slots)
        ELSE /\ overrun' = TRUE
             /\ UNCHANGED istr
  /\ UNCHANGED <<vars, step, m, n>>

\* release_list_resource(): the lists are empty from here on.
ReleaseLists ==
  /\ step = "copy" /\ ret = ERR_SUCCESS
  /\ range_num = Len(RW_list)
  /\ step' = "sort"
  /\ UNCHANGED <<vars, istr, range_num, m, n, overrun>>

\* Variant: the saved row is not copied back.
SwappedHalf(t, k) == [i \in Slots |-> IF i \div ROW = k THEN t[i + ROW] ELSE t[i]]

Swapped(t, k) ==
  [i \in Slots |-> IF i \div ROW = k THEN t[i + ROW]
                   ELSE IF i \div ROW = k + 1 THEN t[i - ROW] ELSE t[i]]

\* One comparison of the bubble sort.  The rows behind the table are not looked
\* at in the model.
SortStep ==
  /\ step = "sort" /\ ~overrun
  /\ n < range_num - 1
  /\ istr' = IF Block(istr, m) < Block(istr, m + 1) THEN Swapped(istr, m) ELSE istr
  /\ IF m < range_num - 2 THEN m' = m + 1 /\ n' = n ELSE m' = 0 /\ n' = n + 1
  /\ UNCHANGED <<vars, range_num, step, overrun>>

Sorted ==
  /\ step = "sort"
  /\ n >= range_num - 1 \/ overrun
  /\ step' = "test"
  /\ UNCHANGED <<vars, istr, range_num, m, n, overrun>>

TableInit ==
  /\ Init
  /\ istr = [i \in Slots |-> [start |-> 0, end |-> 0, word |-> 0]]
  /\ range_num = 0 /\ step = "copy" /\ m = 0 /\ n = 0 /\ overrun = FALSE

TableNext ==
  \/ Next /\ UNCHANGED tvars
  \/ CopyRange \/ ReleaseLists \/ SortStep \/ Sorted

TableSpec == TableInit /\ [][TableNext]_<<vars, tvars>>

-----------------------------------------------------------------------------
TableTypeOK ==
  /\ istr \in [Slots -> [start : Nat, end : Nat, word : Nat]]
  /\ range_num \in 0..Len(RW_list)
  /\ step \in {"copy", "sort", "test"}
  /\ m \in Nat /\ n \in Nat /\ overrun \in BOOLEAN

\* The table has a row for every range and a row has room for its slices.
TableFits ==
  /\ Len(RW_list) <= RANGE_COUNT
  /\ \A i \in DOMAIN RW_slice : Len(RW_slice[i]) <= HALF_CORE_COUNT

\* What the threads of row k of table t will test.
RowSlices(t, k) == {Sinfo(t, k, j) : j \in 0..(slice_num(t, k) - 1)}

\* Row k of table t is range i, with the bounds and the slices that test_policy() gave it.
RowHolds(t, k, i) ==
  /\ RowStart(t, k) = RW_list[i].start /\ RowEnd(t, k) = RW_list[i].end
  /\ slice_num(t, k) = Len(RW_slice[i])
  /\ RowSlices(t, k) = {RW_slice[i][j] : j \in DOMAIN RW_slice[i]}

\* No slice is lost or moved to another range on its way from the lists to the
\* threads: when the tests start, each range is in a row and each row is a range,
\* unless the lists overrun the table.
EverySliceTested ==
  step = "test" /\ TableFits =>
    /\ ~overrun /\ range_num = Len(RW_list)
    /\ \A i \in DOMAIN RW_list : \E k \in 0..(range_num - 1) : RowHolds(istr, k, i)
    /\ \A k \in 0..(range_num - 1) : \E i \in DOMAIN RW_list : RowHolds(istr, k, i)

\* The largest range is tested first: the bubble sort, which compares unsigned
\* differences of fields that sinfo can overlay, ends sorted.
LargestFirst ==
  step = "test" /\ ~overrun =>
    \A k \in 0..(range_num - 2) : Block(istr, k) >= Block(istr, k + 1)

\* The table the threads are started from (mem_controller.c:555-660): typed, with
\* every slice of every range in it, and the largest range first.
TableHandsOver == TableTypeOK /\ EverySliceTested /\ LargestFirst
-----------------------------------------------------------------------------
(* The inductive invariant behind TableHandsOver. *)

\* The lists are complete when the first range is copied, and all of them are in the
\* table when the sort begins, which stays within it.
Progress ==
  /\ ret = ERR_SUCCESS => Len(RW_slice) = Len(RW_list) /\ core_num <= CORE_COUNT
  /\ step # "copy" \/ range_num > 0 \/ overrun => ret = ERR_SUCCESS
  /\ step # "copy" => range_num = Len(RW_list)
  /\ step = "copy" => m = 0 /\ n = 0
  /\ step # "test" /\ n < range_num - 1 => m <= range_num - 2
  /\ n > 0 => n <= range_num - 1
  /\ ~overrun => range_num <= RANGE_COUNT
  /\ TableFits /\ ret = ERR_SUCCESS => ~overrun

\* The ranges copied so far and the rows in use are the same, wherever the sort put them.
RowsAreRanges ==
  TableFits /\ ret = ERR_SUCCESS =>
    /\ \A i \in 1..range_num : \E k \in 0..(range_num - 1) : RowHolds(istr, k, i)
    /\ \A k \in 0..(range_num - 1) : \E i \in 1..range_num : RowHolds(istr, k, i)

\* No row before row b is smaller than a row from there on.
SortedFrom(b) ==
  \A i, k \in 0..(range_num - 1) : i < k /\ b <= k => Block(istr, i) >= Block(istr, k)

\* Each pass of the sort moves the smallest of the rows still unsorted to their end:
\* the last n rows are in their place, row m is the smallest up to it, and a pass that has come
\* to the rows in their place has put one more there.
PassesSort ==
  ~overrun =>
    /\ step # "copy" => SortedFrom(range_num - n)
    /\ step = "sort" => \A k \in 0..(m - 1) : Block(istr, k) >= Block(istr, m)
    /\ step = "sort" /\ m >= range_num - n - 1 => SortedFrom(range_num - n - 1)
    /\ step = "test" => n >= range_num - 1

TableIInv == IInv /\ TableTypeOK /\ Progress /\ RowsAreRanges /\ PassesSort
=============================================================================
