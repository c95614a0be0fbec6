----------------------------- MODULE TestPolicy -----------------------------
(***************************************************************************)
(* test_policy(): splits every read/write range into slices, one thread    *)
(* and one core each.  A slice list is built by head insertion, so it      *)
(* holds the last slice first.  Sizes are numbers of bytes; NODE_COUNT and *)
(* SOCKET_COUNT are 1.                                                     *)
(***************************************************************************)
EXTENDS Integers, Sequences

CONSTANTS MIN_BLOCK_SIZE,  \* a page
          CORE_COUNT,      \* the most cores the program accepts
          CoreNums,        \* what sysconf() may return
          Cpus,            \* what -d may ask for, NO_SPECIFY_CPU if absent
          RWLists          \* the lists of ranges init_module() may have built

ASSUME BlockAssumption == MIN_BLOCK_SIZE \in Nat \ {0}

ASSUME CoreAssumption == CORE_COUNT \in Nat \ {0} /\ CoreNums \subseteq Nat

NO_SPECIFY_CPU == -1

\* parse() takes "cpu" followed by digits and refuses CORE_COUNT and above.
ASSUME CpuAssumption == Cpus \subseteq {NO_SPECIFY_CPU} \cup 0..(CORE_COUNT - 1)

Range == [start : Nat, end : Nat]

\* init_module() aligns a range to pages and skips one below MIN_BLOCK_SIZE;
\* mmap() returns a page address.
PageRange(r) ==
  /\ r \in Range
  /\ r.start % MIN_BLOCK_SIZE = 0
  /\ r.end % MIN_BLOCK_SIZE = 0
  /\ r.start < r.end

ASSUME RangeAssumption ==
  \A l \in RWLists : l \in Seq(Range) /\ \A i \in DOMAIN l : PageRange(l[i])

LOCAL_MODE == 0
REMOTE_MODE == 1
SPECIFIC == 2
Mode == {LOCAL_MODE, REMOTE_MODE, SPECIFIC}  \* parse() never sets ALL

ERR_CORE_NUM == "ERR_CORE_NUM"
ERR_SUCCESS == "ERR_SUCCESS"

VARIABLES
  core_num,   \* _SC_NPROCESSORS_CONF
  cpu, mode,  \* the test parameters
  RW_list,    \* the ranges
  RW_slice,   \* the slice list of each range done so far
  remain,     \* survives from one range to the next
  ret         \* "none" until test_policy() returns

params == <<core_num, cpu, RW_list>>
vars == <<params, mode, RW_slice, remain, ret>>

-----------------------------------------------------------------------------
\* (a + b) & ~b for a mask b of low bits
pfn_end_roundup(a, b) == (a + b) - ((a + b) % (b + 1))

\* a & ~b
pfn_start_roundup(a, b) == a - (a % (b + 1))

\* Number of slices, their step and what the last slice has beyond its step.
SliceNum(size, cores, m) ==
  IF m = SPECIFIC THEN 1
  ELSE IF size \div MIN_BLOCK_SIZE > cores THEN cores
  ELSE size \div MIN_BLOCK_SIZE

StepSize(size, cores, m) ==
  IF m = SPECIFIC THEN size
  ELSE IF size \div MIN_BLOCK_SIZE > cores
       THEN pfn_start_roundup(size \div cores, MIN_BLOCK_SIZE - 1)
  ELSE MIN_BLOCK_SIZE

\* Variant: the rest is not computed again for the larger step.
RemainOfPages(size, cores, m, old) == IF m = SPECIFIC THEN old ELSE size % MIN_BLOCK_SIZE

Remain(size, cores, m, old) ==
  IF m = SPECIFIC THEN old
  ELSE IF size \div MIN_BLOCK_SIZE > cores THEN size - StepSize(size, cores, m) * cores
  ELSE size % MIN_BLOCK_SIZE

\* Row num - 1 of the table of the mode: core j for slice j, or always the
\* core of -d (0 without -d).
cpuid_table(m, c, num) ==
  [j \in 0..(num - 1) |-> IF m # SPECIFIC THEN j ELSE IF c = NO_SPECIFY_CPU THEN 0 ELSE c]

\* The slice list of range r: element i of the list is slice num - i.
SliceList(r, cores, m, c, rem) ==
  LET size == r.end - r.start
      num == SliceNum(size, cores, m)
      step == StepSize(size, cores, m)
  IN [i \in 1..num |->
        [start |-> r.start + (num - i) * step,
         end |-> r.start + (num - i) * step + step + (IF i = 1 THEN rem ELSE 0),
         cpuid |-> cpuid_table(m, c, num)[num - i]]]

-----------------------------------------------------------------------------
Refused == core_num = 0 \/ core_num > CORE_COUNT \/ cpu >= core_num

\* ERR_CORE_NUM: too many cores, or -d names a core that does not exist.
Refuse ==
  /\ ret = "none" /\ RW_slice = <<>>
  /\ Refused
  /\ ret' = ERR_CORE_NUM
  /\ UNCHANGED <<params, mode, RW_slice, remain>>

\* -d makes the mode SPECIFIC.
SelectTable ==
  /\ ret = "none" /\ RW_slice = <<>>
  /\ ~Refused /\ cpu # NO_SPECIFY_CPU /\ mode # SPECIFIC
  /\ mode' = SPECIFIC
  /\ UNCHANGED <<params, RW_slice, remain, ret>>

\* One range of the list.
SplitRange ==
  /\ ret = "none" /\ ~Refused
  /\ cpu # NO_SPECIFY_CPU => mode = SPECIFIC
  /\ Len(RW_slice) < Len(RW_list)
  /\ LET r == RW_list[Len(RW_slice) + 1]
         rem == Remain(r.end - r.start, core_num, mode, remain)
     IN /\ remain' = rem
        /\ RW_slice' = Append(RW_slice, SliceList(r, core_num, mode, cpu, rem))
  /\ UNCHANGED <<params, mode, ret>>

Return ==
  /\ ret = "none" /\ ~Refused
  /\ Len(RW_slice) = Len(RW_list)
  /\ ret' = ERR_SUCCESS
  /\ UNCHANGED <<params, mode, RW_slice, remain>>

Init ==
  /\ core_num \in CoreNums /\ cpu \in Cpus /\ mode \in Mode
  /\ RW_list \in RWLists
  /\ RW_slice = <<>> /\ remain = 0 /\ ret = "none"

Next == Refuse \/ SelectTable \/ SplitRange \/ Return

Spec == Init /\ [][Next]_vars

-----------------------------------------------------------------------------
Slice == [start : Nat, end : Nat, cpuid : Nat]

TypeOK ==
  /\ core_num \in CoreNums /\ cpu \in Cpus /\ mode \in Mode /\ RW_list \in RWLists
  /\ RW_slice \in Seq(Seq(Slice)) /\ Len(RW_slice) <= Len(RW_list)
  /\ remain \in Nat
  /\ ret \in {"none", ERR_SUCCESS, ERR_CORE_NUM}

\* The slices of a range, read from the tail of the list, follow each other
\* without a gap or an overlap from its start to its end; none is empty.
Partition(s, r) ==
  /\ Len(s) > 0
  /\ s[Len(s)].start = r.start /\ s[1].end = r.end
  /\ \A i \in 1..(Len(s) - 1) : s[i + 1].end = s[i].start
  /\ \A i \in DOMAIN s : s[i].start < s[i].end

\* Every byte of every range belongs to exactly one slice, whatever the size of
\* the range, the number of cores and the ranges split before: the rounding of
\* the step never loses the tail of a range, and `remain` of an earlier range never
\* leaks into a later one.
RangesPartitioned == \A i \in DOMAIN RW_slice : Partition(RW_slice[i], RW_list[i])

\* Every slice gets a core that exists; with -d it is the core asked for, and
\* without, no two threads of a range share a core.
CoresAssigned ==
  \A i \in DOMAIN RW_slice :
    LET s == RW_slice[i] IN
      /\ Len(s) <= core_num
      /\ \A j \in DOMAIN s : s[j].cpuid \in 0..(core_num - 1)
      /\ cpu # NO_SPECIFY_CPU => \A j \in DOMAIN s : s[j].cpuid = cpu
      /\ \A j, k \in DOMAIN s : s[j].cpuid = s[k].cpuid => j = k

\* Threads test whole pages.
PageSlices ==
  \A i \in DOMAIN RW_slice : \A j \in DOMAIN RW_slice[i] :
    RW_slice[i][j].start % MIN_BLOCK_SIZE = 0 /\ RW_slice[i][j].end % MIN_BLOCK_SIZE = 0

\* What test_policy() hands to the threads: each range partitioned, every slice
\* with its core and on page bounds, for all ranges of the list one after the
\* other although the tables and `remain` are shared by them
\* (task_generator.c:273-310).
SlicesRight == RangesPartitioned /\ CoresAssigned /\ PageSlices
-----------------------------------------------------------------------------
\* Why `remain` of an earlier range cannot leak: where test_policy() does not
\* assign it, it still is 0.
RemainClean == mode = SPECIFIC \/ RW_slice = <<>> => remain = 0

IInv == TypeOK /\ RangesPartitioned /\ CoresAssigned /\ PageSlices /\ RemainClean
=============================================================================
