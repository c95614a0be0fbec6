-------------------------- MODULE TestPolicyProofs --------------------------
(***************************************************************************)
(* For every page size, every number of cores and every list of ranges:    *)
(* test_policy() partitions each range into whole pages, one core each, and *)
(* the table the threads are started from has them all, largest range first, *)
(* as long as it has room for them.                                        *)
(***************************************************************************)
EXTENDS RangeTable, TLAPS

(* Division and multiples. *)

LEMMA DivMod ==
  ASSUME NEW a \in Nat, NEW b \in Nat \ {0}
  PROVE  /\ a \div b \in Nat /\ a % b \in 0..(b - 1)
         /\ a = b * (a \div b) + (a % b)
OBVIOUS

LEMMA Multiple ==
  ASSUME NEW b \in Nat \ {0}, NEW k \in Nat
  PROVE  /\ (b * k) % b = 0
         /\ (b * k) \div b = k
OBVIOUS

LEMMA Mono ==
  ASSUME NEW a \in Nat, NEW b \in Nat, NEW c \in Nat, a <= b
  PROVE  c * a <= c * b
OBVIOUS

LEMMA ModSum ==
  ASSUME NEW b \in Nat \ {0}, NEW x \in Nat, NEW y \in Nat, x % b = 0, y % b = 0
  PROVE  (x + y) % b = 0
<1>1. x = b * (x \div b) /\ y = b * (y \div b)
  BY DivMod
<1>2. x + y = b * ((x \div b) + (y \div b)) /\ (x \div b) + (y \div b) \in Nat
  BY <1>1, DivMod
<1> QED BY <1>2, Multiple

LEMMA ModProduct ==
  ASSUME NEW b \in Nat \ {0}, NEW x \in Nat, NEW f \in Nat, x % b = 0
  PROVE  (f * x) % b = 0
<1>0. x = b * (x \div b) /\ x \div b \in Nat
  BY DivMod
<1>1. PICK k \in Nat : x = b * k
  BY <1>0, Zenon
<1>2. f * k \in Nat /\ f * (b * k) = b * (f * k)
  OBVIOUS
<1> QED BY <1>1, <1>2, Multiple

LEMMA StepFacts ==
  ASSUME NEW size \in Nat \ {0}, size % MIN_BLOCK_SIZE = 0,
         NEW cores \in Nat \ {0}, size \div MIN_BLOCK_SIZE > cores
  PROVE  LET stride == pfn_start_roundup(size \div cores, MIN_BLOCK_SIZE - 1)
         IN  /\ stride \in Nat \ {0}
             /\ stride % MIN_BLOCK_SIZE = 0
             /\ cores * stride <= size
<1> DEFINE B == MIN_BLOCK_SIZE
           q == size \div cores
           stride == q - (q % B)
<1>1. B \in Nat \ {0}
  BY BlockAssumption
<1>2. q \in Nat /\ cores * q <= size /\ size < cores * (q + 1)
  BY DivMod
<1>3. q \div B \in Nat /\ q % B \in 0..(B - 1) /\ q = B * (q \div B) + (q % B)
  <2> HIDE DEF q
  <2> QED BY <1>1, <1>2, DivMod
<1>4. stride = B * (q \div B)
  BY <1>1, <1>2, <1>3
<1>5. q >= B
  <2>1. B * cores <= size
    <3> DEFINE p == size \div B
    <3>1. p \in Nat /\ size = B * p /\ cores <= p
      BY <1>1, DivMod
    <3> HIDE DEF p
    <3>2. B * cores <= B * p
      BY <1>1, <3>1, Mono
    <3> QED BY <3>1, <3>2
  <2>2. SUFFICES ASSUME q + 1 <= B PROVE FALSE
    BY <1>1, <1>2
  <2>3. cores * (q + 1) <= cores * B
    BY <1>1, <1>2, <2>2, Mono
  <2> HIDE DEF q
  <2>4. cores * B = B * cores
    BY <1>1
  <2> QED BY <1>1, <1>2, <2>1, <2>3, <2>4
<1>6. stride \in Nat /\ stride <= q /\ stride # 0
  BY <1>1, <1>2, <1>3, <1>5
<1>7. stride % B = 0
  BY <1>1, <1>3, <1>4, Multiple
<1>8. cores * stride <= size
  <2>1. cores * stride <= cores * q
    BY <1>2, <1>6, Mono
  <2> QED BY <1>2, <1>6, <2>1
<1> QED BY <1>1, <1>6, <1>7, <1>8 DEF pfn_start_roundup

LEMMA ModDifference ==
  ASSUME NEW b \in Nat \ {0}, NEW x \in Nat, NEW y \in Nat, x % b = 0, y % b = 0, x <= y
  PROVE  (y - x) % b = 0
<1>1. x = b * (x \div b) /\ y = b * (y \div b) /\ x \div b \in Nat /\ y \div b \in Nat
  BY DivMod
<1> DEFINE p == x \div b
           q == y \div b
<1>2. p \in Nat /\ q \in Nat /\ x = b * p /\ y = b * q
  BY <1>1
<1> HIDE DEF p, q
<1>3. p <= q
  <2>1. SUFFICES ASSUME q + 1 <= p PROVE FALSE
    BY <1>2
  <2>2. b * (q + 1) <= b * p
    BY <1>2, <2>1, Mono
  <2> QED BY <1>2, <2>2
<1>4. y - x = b * (q - p) /\ q - p \in Nat
  BY <1>2, <1>3
<1> QED BY <1>4, Multiple

\* The arithmetic of one range: the slices and the rest make up the range, and
\* the step and the rest are whole pages.
SplitOK(size, cores, how, old) ==
  LET num == SliceNum(size, cores, how)
      stride == StepSize(size, cores, how)
      rem == Remain(size, cores, how, old)
  IN  /\ num \in 1..cores /\ (how = SPECIFIC => num = 1)
      /\ stride \in Nat \ {0} /\ stride % MIN_BLOCK_SIZE = 0
      /\ rem \in Nat /\ rem % MIN_BLOCK_SIZE = 0
      /\ (how = SPECIFIC => rem = 0)
      /\ num * stride + rem = size

LEMMA SplitFacts ==
  ASSUME NEW size \in Nat \ {0}, size % MIN_BLOCK_SIZE = 0,
         NEW cores \in Nat \ {0}, NEW how \in Mode,
         NEW old \in Nat, how = SPECIFIC => old = 0
  PROVE  SplitOK(size, cores, how, old)
<1> DEFINE B == MIN_BLOCK_SIZE
<1>0. B \in Nat \ {0} /\ 0 % B = 0
  BY BlockAssumption
<1>1. CASE how = SPECIFIC
  BY <1>0, <1>1 DEF SplitOK, SliceNum, StepSize, Remain
<1>2. CASE how # SPECIFIC /\ size \div B > cores
  <2> DEFINE stride == StepSize(size, cores, how)
  <2>1. stride \in Nat \ {0} /\ stride % B = 0 /\ cores * stride <= size
    BY <1>2, StepFacts DEF StepSize
  <2>2. SliceNum(size, cores, how) = cores /\ Remain(size, cores, how, old) = size - stride * cores
    BY <1>2 DEF SliceNum, Remain
  <2> HIDE DEF stride
  <2>3. cores * stride \in Nat /\ stride * cores = cores * stride
    BY <2>1
  <2>4. (cores * stride) % B = 0
    BY <1>0, <2>1, ModProduct
  <2>5. (size - cores * stride) % B = 0
    BY <1>0, <2>1, <2>3, <2>4, ModDifference
  <2> QED BY <1>2, <2>1, <2>2, <2>3, <2>5 DEF SplitOK, stride
<1>3. CASE how # SPECIFIC /\ ~(size \div B > cores)
  <2> DEFINE num == size \div B
  <2>1. num \in Nat /\ size = B * num /\ num <= cores
    BY <1>0, <1>3, DivMod
  <2>2. /\ SliceNum(size, cores, how) = num /\ StepSize(size, cores, how) = B
        /\ Remain(size, cores, how, old) = 0
    BY <1>3 DEF SliceNum, StepSize, Remain
  <2> HIDE DEF num
  <2>3. num # 0 /\ num * B = size
    BY <1>0, <2>1
  <2>4. B % B = 0
    BY <1>0
  <2> QED BY <1>0, <1>3, <2>1, <2>2, <2>3, <2>4 DEF SplitOK
<1> QED BY <1>1, <1>2, <1>3

-----------------------------------------------------------------------------
(* One slice list. *)

WellAssigned(s, cores, c) ==
  /\ Len(s) <= cores
  /\ \A j \in DOMAIN s : s[j].cpuid \in 0..(cores - 1)
  /\ c # NO_SPECIFY_CPU => \A j \in DOMAIN s : s[j].cpuid = c
  /\ \A j, k \in DOMAIN s : s[j].cpuid = s[k].cpuid => j = k

WholePages(s) ==
  \A j \in DOMAIN s : s[j].start % MIN_BLOCK_SIZE = 0 /\ s[j].end % MIN_BLOCK_SIZE = 0

LEMMA SliceListFacts ==
  ASSUME NEW r, PageRange(r), NEW cores \in Nat \ {0}, NEW how \in Mode,
         NEW c \in Cpus, c < cores, c # NO_SPECIFY_CPU => how = SPECIFIC,
         NEW old \in Nat, how = SPECIFIC => old = 0
  PROVE  LET rem == Remain(r.end - r.start, cores, how, old)
             s == SliceList(r, cores, how, c, rem)
         IN  /\ rem \in Nat /\ (how = SPECIFIC => rem = 0)
             /\ s \in Seq(Slice)
             /\ Partition(s, r)
             /\ WellAssigned(s, cores, c)
             /\ WholePages(s)
<1> DEFINE B == MIN_BLOCK_SIZE
           size == r.end - r.start
           num == SliceNum(size, cores, how)
           stride == StepSize(size, cores, how)
           rem == Remain(size, cores, how, old)
           s == SliceList(r, cores, how, c, rem)
           cpuid == cpuid_table(how, c, num)
<1>1. /\ B \in Nat \ {0} /\ r.start \in Nat /\ r.end \in Nat /\ r.start % B = 0 /\ r.end % B = 0
      /\ r.start < r.end /\ size \in Nat \ {0}
  BY BlockAssumption DEF PageRange, Range
<1>2. size % B = 0
  BY <1>1, ModDifference
<1>3. /\ num \in 1..cores /\ (how = SPECIFIC => num = 1)
      /\ stride \in Nat \ {0} /\ stride % B = 0
      /\ rem \in Nat /\ rem % B = 0 /\ (how = SPECIFIC => rem = 0)
      /\ num * stride + rem = size
  <2>1. SplitOK(size, cores, how, old)
    <3> HIDE DEF size
    <3> QED BY <1>1, <1>2, SplitFacts
  <2> QED BY <2>1 DEF SplitOK
<1>4. s = [i \in 1..num |->
             [start |-> r.start + (num - i) * stride,
              end |-> r.start + (num - i) * stride + stride + (IF i = 1 THEN rem ELSE 0),
              cpuid |-> cpuid[num - i]]]
  BY DEF SliceList
<1>5. r.end = r.start + (num * stride + rem)
  BY <1>1, <1>3
<1>6. \A j \in 0..(num - 1) : cpuid[j] = IF how # SPECIFIC THEN j ELSE IF c = NO_SPECIFY_CPU THEN 0 ELSE c
  BY <1>3 DEF cpuid_table
<1>7. \A j \in 0..(num - 1) : cpuid[j] \in 0..(cores - 1)
  <2>1. c = NO_SPECIFY_CPU \/ c \in Nat
    BY CpuAssumption, CoreAssumption DEF NO_SPECIFY_CPU
  <2> HIDE DEF num, cpuid
  <2> QED BY <1>3, <1>6, <2>1
<1> HIDE DEF size, num, stride, rem, s, cpuid
<1>8. \A k \in 0..num : k * stride \in Nat /\ (k * stride) % B = 0
  <2> SUFFICES ASSUME NEW k \in 0..num PROVE k * stride \in Nat /\ (k * stride) % B = 0
    OBVIOUS
  <2>1. k \in Nat /\ stride \in Nat /\ k * stride \in Nat
    BY <1>3
  <2> QED BY <1>1, <1>3, <2>1, ModProduct
<1>9. DOMAIN s = 1..num /\ Len(s) = num
  <2>1. num \in Nat
    BY <1>3
  <2> QED BY <1>4, <2>1
<1>10. \A i \in 1..num :
         /\ s[i].start = r.start + (num - i) * stride
         /\ s[i].end = r.start + (num - i) * stride + stride + (IF i = 1 THEN rem ELSE 0)
         /\ s[i].cpuid = cpuid[num - i]
         /\ s[i] = [start |-> s[i].start, end |-> s[i].end, cpuid |-> s[i].cpuid]
         /\ num - i \in 0..(num - 1)
  BY <1>3, <1>4
<1>11. s \in Seq(Slice)
  <2>2. ASSUME NEW i \in 1..num PROVE s[i] \in Slice
    <3>1. num - i \in 0..(num - 1) /\ num - i \in 0..num
      BY <1>3
    <3>2. (num - i) * stride \in Nat /\ cpuid[num - i] \in Nat
      BY <1>3, <1>7, <1>8, <3>1
    <3> DEFINE a == (num - i) * stride
               e == IF i = 1 THEN rem ELSE 0
    <3>3. a \in Nat /\ e \in Nat
      BY <1>3, <3>2
    <3>4. s[i] = [start |-> r.start + a, end |-> r.start + a + stride + e, cpuid |-> cpuid[num - i]]
      BY <1>4
    <3> HIDE DEF a, e
    <3>5. r.start + a \in Nat /\ r.start + a + stride + e \in Nat
      BY <1>1, <1>3, <3>3
    <3> QED BY <3>2, <3>4, <3>5 DEF Slice
  <2>3. s = [i \in 1..num |-> s[i]]
    BY <1>4, <1>9
  <2>4. num \in Nat
    BY <1>3
  <2> QED BY <2>2, <2>3, <2>4
<1>12. Partition(s, r)
  <2>1. Len(s) > 0 /\ s[Len(s)].start = r.start
    BY <1>1, <1>3, <1>9, <1>10
  <2>2. s[1].end = r.end
    <3>1. 1 \in 1..num /\ (num - 1) * stride + stride = num * stride
      BY <1>3
    <3>2. s[1].end = r.start + (num - 1) * stride + stride + rem
      BY <1>10, <3>1
    <3>3. num * stride \in Nat /\ (num - 1) * stride \in Nat
      BY <1>3
    <3> QED BY <1>1, <1>3, <1>5, <3>1, <3>2, <3>3
  <2>3. \A i \in 1..(Len(s) - 1) : s[i + 1].end = s[i].start
    <3> SUFFICES ASSUME NEW i \in 1..(num - 1) PROVE s[i + 1].end = s[i].start
      BY <1>9
    <3>1. i \in 1..num /\ i + 1 \in 1..num /\ i + 1 # 1
      BY <1>3
    <3>2. (num - (i + 1)) * stride + stride = (num - i) * stride
      BY <1>3
    <3>3. s[i + 1].end = r.start + (num - (i + 1)) * stride + stride + 0
      BY <1>10, <3>1
    <3>4. s[i].start = r.start + (num - i) * stride
      BY <1>10, <3>1
    <3> QED BY <1>1, <1>3, <3>2, <3>3, <3>4
  <2>4. \A i \in DOMAIN s : s[i].start < s[i].end
    <3> SUFFICES ASSUME NEW i \in 1..num PROVE s[i].start < s[i].end
      BY <1>9
    <3>1. num - i \in 0..num
      BY <1>3
    <3>2. (num - i) * stride \in Nat
      BY <1>8, <3>1
    <3>3. s[i].start = r.start + (num - i) * stride /\ s[i].end = s[i].start + stride + (IF i = 1 THEN rem ELSE 0)
      BY <1>10
    <3> QED BY <1>1, <1>3, <3>2, <3>3
  <2> QED BY <2>1, <2>2, <2>3, <2>4 DEF Partition
<1>13. WellAssigned(s, cores, c)
  <2>1. \A i \in 1..num : s[i].cpuid \in 0..(cores - 1)
    BY <1>7, <1>10
  <2>2. c # NO_SPECIFY_CPU => \A i \in 1..num : s[i].cpuid = c
    BY <1>6, <1>10
  <2>3. \A i, k \in 1..num : s[i].cpuid = s[k].cpuid => i = k
    <3>1. CASE how = SPECIFIC
      BY <1>3, <3>1
    <3>2. CASE how # SPECIFIC
      <4>1. ASSUME NEW i \in 1..num PROVE s[i].cpuid = num - i
        BY <1>6, <1>10, <3>2
      <4> QED BY <1>3, <4>1
    <3> QED BY <3>1, <3>2
  <2>4. num <= cores
    BY <1>3
  <2> QED BY <1>9, <2>1, <2>2, <2>3, <2>4 DEF WellAssigned
<1>14. WholePages(s)
  <2> SUFFICES ASSUME NEW i \in 1..num PROVE s[i].start % B = 0 /\ s[i].end % B = 0
    BY <1>9 DEF WholePages
  <2> DEFINE a == (num - i) * stride
             e == IF i = 1 THEN rem ELSE 0
  <2>1. a \in Nat /\ a % B = 0 /\ e \in Nat /\ e % B = 0
    BY <1>1, <1>3, <1>8
  <2>2. s[i].start = r.start + a /\ s[i].end = ((r.start + a) + stride) + e
    BY <1>10
  <2> HIDE DEF a, e
  <2>3. (r.start + a) % B = 0
    BY <1>1, <2>1, ModSum
  <2>4. ((r.start + a) + stride) % B = 0
    BY <1>1, <1>3, <2>1, <2>3, ModSum
  <2>5. (((r.start + a) + stride) + e) % B = 0
    BY <1>1, <1>3, <2>1, <2>4, ModSum
  <2> QED BY <2>2, <2>3, <2>5
<1> QED BY <1>3, <1>11, <1>12, <1>13, <1>14 DEF size, rem, s

-----------------------------------------------------------------------------
(* The inductive invariant. *)

LEMMA InitIInv == Init => IInv
<1> SUFFICES ASSUME Init PROVE IInv
  OBVIOUS
<1>1. RW_slice = <<>> /\ remain = 0
  BY DEF Init
<1>2. Len(RW_slice) = 0 /\ DOMAIN RW_slice = {} /\ RW_slice \in Seq(Seq(Slice))
  BY <1>1
<1>3. RW_list \in Seq(Range)
  BY RangeAssumption DEF Init
<1>4. TypeOK
  BY <1>1, <1>2, <1>3 DEF Init, TypeOK
<1>5. RangesPartitioned /\ CoresAssigned /\ PageSlices
  BY <1>2 DEF RangesPartitioned, CoresAssigned, PageSlices
<1> QED BY <1>1, <1>4, <1>5 DEF IInv, RemainClean

\* The step that splits one range.
LEMMA SplitRangeIInv ==
  ASSUME IInv, SplitRange
  PROVE  IInv'
<1> DEFINE now == Len(RW_slice) + 1
           r == RW_list[now]
           rem == Remain(r.end - r.start, core_num, mode, remain)
           s == SliceList(r, core_num, mode, cpu, rem)
<1>1. /\ core_num \in CoreNums /\ cpu \in Cpus /\ mode \in Mode /\ RW_list \in RWLists
      /\ RW_slice \in Seq(Seq(Slice)) /\ remain \in Nat
      /\ (mode = SPECIFIC => remain = 0)
  BY DEF IInv, TypeOK, RemainClean
<1>2. RW_list \in Seq(Range) /\ Len(RW_slice) \in Nat /\ Len(RW_list) \in Nat
  BY <1>1, RangeAssumption
<1>3. now \in 1..Len(RW_list) /\ now \in DOMAIN RW_list
  BY <1>2 DEF SplitRange
<1>4. PageRange(r)
  BY <1>1, <1>3, RangeAssumption
<1>5. core_num \in Nat \ {0} /\ cpu < core_num /\ (cpu # NO_SPECIFY_CPU => mode = SPECIFIC)
  <2>1. core_num \in Nat /\ cpu \in Int
    BY <1>1, CoreAssumption, CpuAssumption DEF NO_SPECIFY_CPU
  <2> QED BY <2>1 DEF SplitRange, Refused
<1>6. /\ rem \in Nat /\ (mode = SPECIFIC => rem = 0)
      /\ s \in Seq(Slice) /\ Partition(s, r) /\ WellAssigned(s, core_num, cpu) /\ WholePages(s)
  <2> HIDE DEF r
  <2> QED BY <1>1, <1>4, <1>5, SliceListFacts
<1>7. /\ remain' = rem /\ RW_slice' = Append(RW_slice, s)
      /\ UNCHANGED <<core_num, cpu, RW_list, mode, ret>>
  BY DEF SplitRange, params
<1> HIDE DEF rem, s, r
<1>8. /\ RW_slice' \in Seq(Seq(Slice)) /\ Len(RW_slice') = now
      /\ DOMAIN RW_slice' = 1..now /\ DOMAIN RW_slice = 1..(now - 1)
      /\ \A i \in 1..(now - 1) : RW_slice'[i] = RW_slice[i]
      /\ RW_slice'[now] = s
  BY <1>1, <1>6, <1>7
<1>9. \A i \in 1..now : i = now \/ i \in DOMAIN RW_slice
  BY <1>2, <1>8
<1>10. TypeOK'
  BY <1>3, <1>6, <1>7, <1>8 DEF IInv, TypeOK
<1>11. RangesPartitioned'
  <2> SUFFICES ASSUME NEW i \in 1..now PROVE Partition(RW_slice'[i], RW_list[i])
    BY <1>7, <1>8 DEF RangesPartitioned
  <2>1. CASE i = now
    BY <1>6, <1>8, <2>1 DEF r
  <2>2. CASE i \in DOMAIN RW_slice
    BY <1>8, <2>2 DEF IInv, RangesPartitioned
  <2> QED BY <1>9, <2>1, <2>2
<1>12. CoresAssigned'
  <2> SUFFICES ASSUME NEW i \in 1..now PROVE WellAssigned(RW_slice'[i], core_num, cpu)
    BY <1>7, <1>8 DEF CoresAssigned, WellAssigned
  <2>1. CASE i = now
    BY <1>6, <1>8, <2>1
  <2>2. CASE i \in DOMAIN RW_slice
    BY <1>8, <2>2 DEF IInv, CoresAssigned, WellAssigned
  <2> QED BY <1>9, <2>1, <2>2
<1>13. PageSlices'
  <2> SUFFICES ASSUME NEW i \in 1..now PROVE WholePages(RW_slice'[i])
    BY <1>8 DEF PageSlices, WholePages
  <2>1. CASE i = now
    BY <1>6, <1>8, <2>1
  <2>2. CASE i \in DOMAIN RW_slice
    BY <1>8, <2>2 DEF IInv, PageSlices, WholePages
  <2> QED BY <1>9, <2>1, <2>2
<1>14. RemainClean'
  <2>1. RW_slice' # <<>>
    BY <1>3, <1>8
  <2> QED BY <1>6, <1>7, <2>1 DEF RemainClean
<1> QED BY <1>10, <1>11, <1>12, <1>13, <1>14 DEF IInv

LEMMA NextIInv == IInv /\ [Next]_vars => IInv'
<1> SUFFICES ASSUME IInv, [Next]_vars PROVE IInv'
  OBVIOUS
<1> USE DEF IInv, TypeOK, RangesPartitioned, CoresAssigned, PageSlices, RemainClean, params
<1>1. CASE Refuse
  BY <1>1 DEF Refuse
<1>2. CASE SelectTable
  BY <1>2 DEF SelectTable, Mode
<1>3. CASE SplitRange
  BY <1>3, SplitRangeIInv
<1>4. CASE Return
  BY <1>4 DEF Return
<1>5. CASE UNCHANGED vars
  BY <1>5 DEF vars
<1> QED BY <1>1, <1>2, <1>3, <1>4, <1>5 DEF Next

THEOREM Invariance == Spec => []IInv
<1> QED BY InitIInv, NextIInv, PTL DEF Spec

\* Type correctness of test_policy().
THEOREM TypeCorrect == Spec => []TypeOK
<1>1. IInv => TypeOK
  BY DEF IInv
<1> QED BY <1>1, Invariance, PTL

\* Each range of init_module() is partitioned into non-empty slices, whatever
\* its size, the page size and the number of cores.
THEOREM PartitionSound == Spec => []RangesPartitioned
<1>1. IInv => RangesPartitioned
  BY DEF IInv
<1> QED BY <1>1, Invariance, PTL

\* Each slice has an existing core: the one of -d, or one of its own.
THEOREM CoresSound == Spec => []CoresAssigned
<1>1. IInv => CoresAssigned
  BY DEF IInv
<1> QED BY <1>1, Invariance, PTL

\* Slices begin and end at page boundaries.
THEOREM PagesSound == Spec => []PageSlices
<1>1. IInv => PageSlices
  BY DEF IInv
<1> QED BY <1>1, Invariance, PTL

\* What test_policy() hands to the threads is right.
THEOREM PolicySound == Spec => []SlicesRight
<1>1. IInv => SlicesRight
  BY DEF IInv, SlicesRight
<1> QED BY <1>1, Invariance, PTL

-----------------------------------------------------------------------------
(* The table: rows of slots.                                               *)

Slot == [start : Nat, end : Nat, word : Nat]
Table == [Slots -> Slot]
Row == 0..HALF_CORE_COUNT   \* the slots of a row

LEMMA DivUnique ==
  ASSUME NEW b \in Nat \ {0}, NEW k \in Nat, NEW j \in 0..(b - 1)
  PROVE  (b * k + j) \div b = k /\ (b * k + j) % b = j
OBVIOUS

LEMMA RowSize == ROW \in Nat \ {0} /\ Row = 0..(ROW - 1) /\ HALF_CORE_COUNT \in Row /\ HALF_CORE_COUNT \in Nat
BY TableAssumption DEF ROW, Row

\* Slot j of row k is a slot of no other row.
LEMMA SlotOfRow ==
  ASSUME NEW k \in Nat, NEW j \in Row
  PROVE  /\ k * ROW + j \in Nat /\ (k * ROW + j) \div ROW = k /\ (k * ROW + j) % ROW = j
         /\ k < RANGE_COUNT => k * ROW + j \in Slots
         /\ (k + 1) * ROW + j = (k * ROW + j) + ROW
<1>1. ROW \in Nat \ {0} /\ j \in 0..(ROW - 1) /\ RANGE_COUNT \in Nat
  BY RowSize, TableAssumption
<1> HIDE DEF ROW, Row
<1>2. k * ROW = ROW * k /\ k * ROW \in Nat /\ (k + 1) * ROW = k * ROW + ROW
  BY <1>1
<1>3. (k * ROW + j) \div ROW = k /\ (k * ROW + j) % ROW = j
  BY <1>1, <1>2, DivUnique
<1>4. ASSUME k < RANGE_COUNT PROVE k * ROW + j \in Slots
  <2>1. ROW * (k + 1) <= ROW * RANGE_COUNT
    BY <1>1, <1>4, Mono
  <2>2. ROW * (k + 1) = k * ROW + ROW /\ ROW * RANGE_COUNT = RANGE_COUNT * ROW /\ RANGE_COUNT * ROW \in Nat
    BY <1>1, <1>2
  <2> QED BY <1>1, <1>2, <2>1, <2>2 DEF Slots
<1> QED BY <1>1, <1>2, <1>3, <1>4

\* Every slot is a slot of a row.
LEMMA SlotHasRow ==
  ASSUME NEW i \in Slots
  PROVE  i \in Nat /\ i \div ROW \in 0..(RANGE_COUNT - 1)
<1>1. ROW \in Nat \ {0} /\ RANGE_COUNT \in Nat \ {0}
  BY RowSize, TableAssumption
<1> HIDE DEF ROW
<1>2. RANGE_COUNT * ROW \in Nat /\ RANGE_COUNT * ROW = ROW * RANGE_COUNT
  BY <1>1
<1>3. i \in Nat /\ i < RANGE_COUNT * ROW
  BY <1>2 DEF Slots
<1>4. i \div ROW \in Nat /\ i % ROW \in 0..(ROW - 1) /\ i = ROW * (i \div ROW) + (i % ROW)
  BY <1>1, <1>3, DivMod
<1>5. i \div ROW < RANGE_COUNT
  <2>1. SUFFICES ASSUME RANGE_COUNT <= i \div ROW PROVE FALSE
    BY <1>1, <1>4
  <2>2. ROW * RANGE_COUNT <= ROW * (i \div ROW)
    BY <1>1, <1>4, <2>1, Mono
  <2>3. ROW * (i \div ROW) \in Nat
    BY <1>1, <1>4
  <2> QED BY <1>2, <1>3, <1>4, <2>2, <2>3
<1>6. i \div ROW \in 0..(RANGE_COUNT - 1)
  BY <1>1, <1>4, <1>5
<1> QED BY <1>3, <1>6

LEMMA SetIntFacts ==
  ASSUME NEW w \in Nat, NEW i \in Nat
  PROVE  SetInt(w, i) \in Nat /\ (i < UINT => SetInt(w, i) % UINT = i)
<1>1. UINT \in Nat \ {0}
  BY TableAssumption
<1>2. w \div UINT \in Nat
  BY <1>1, DivMod
<1>3. (w \div UINT) * UINT = UINT * (w \div UINT) /\ (w \div UINT) * UINT \in Nat
  BY <1>1, <1>2
<1>4. i < UINT => i \in 0..(UINT - 1)
  BY <1>1
<1> QED BY <1>1, <1>2, <1>3, <1>4, DivUnique DEF SetInt

\* The size the sort compares is a number, whatever the slots hold.
LEMMA BlockIsNat ==
  ASSUME NEW t \in Table, NEW k \in 0..(RANGE_COUNT - 1)
  PROVE  Block(t, k) \in Nat
<1>0. k \in Nat /\ k < RANGE_COUNT
  BY TableAssumption
<1>1. Trailer(k) \in Slots
  BY <1>0, SlotOfRow, RowSize DEF Trailer
<1>2. RowStart(t, k) \in Nat /\ RowEnd(t, k) \in Nat
  BY <1>1 DEF RowStart, RowEnd, Table, Slot
<1>3. UINT * UINT \in Nat \ {0}
  BY TableAssumption
<1> DEFINE d == RowEnd(t, k) - RowStart(t, k)
           u == UINT * UINT
<1>4. d \in Int /\ u \in Nat \ {0}
  BY <1>2, <1>3
<1> HIDE DEF d, u
<1>5. d % u \in Nat
  BY <1>4
<1> QED BY <1>5 DEF Block, d, u

\* Two rows with the same slots are of the same size and hold the same ranges.
LEMMA SameRow ==
  ASSUME NEW t, NEW u, NEW k \in Nat, NEW l \in Nat,
         \A j \in Row : t[k * ROW + j] = u[l * ROW + j]
  PROVE  /\ Block(t, k) = Block(u, l)
         /\ \A i : Len(RW_slice[i]) <= HALF_CORE_COUNT /\ Len(RW_slice[i]) \in Nat =>
              (RowHolds(t, k, i) <=> RowHolds(u, l, i))
<1>1. t[Trailer(k)] = u[Trailer(l)]
  BY RowSize DEF Trailer
<1>2. /\ slice_num(t, k) = slice_num(u, l)
      /\ RowStart(t, k) = RowStart(u, l) /\ RowEnd(t, k) = RowEnd(u, l)
  BY <1>1 DEF slice_num, RowStart, RowEnd
<1>3. \A j \in Row : Sinfo(t, k, j) = Sinfo(u, l, j)
  BY DEF Sinfo
<1>4. ASSUME slice_num(t, k) \in Nat, slice_num(t, k) <= HALF_CORE_COUNT
      PROVE  RowSlices(t, k) = RowSlices(u, l)
  <2>1. \A j \in 0..(slice_num(t, k) - 1) : j \in Row
    BY <1>4, RowSize, TableAssumption DEF Row
  <2> QED BY <1>2, <1>3, <2>1 DEF RowSlices
<1> QED BY <1>2, <1>4 DEF Block, RowHolds

-----------------------------------------------------------------------------
(* The sort. *)

\* The row whose slots are in row k once rows q and q + 1 have changed places.
Other(q, k) == IF k = q THEN q + 1 ELSE IF k = q + 1 THEN q ELSE k

LEMMA SwappedFacts ==
  ASSUME NEW t \in Table, NEW q \in Nat, q + 1 < RANGE_COUNT
  PROVE  /\ Swapped(t, q) \in Table
         /\ \A k \in 0..(RANGE_COUNT - 1) : \A j \in Row :
              Swapped(t, q)[k * ROW + j] = t[Other(q, k) * ROW + j]
<1>0. RANGE_COUNT \in Nat /\ ROW \in Nat \ {0} /\ Row = 0..(ROW - 1) /\ q \in 0..(RANGE_COUNT - 1)
  BY RowSize, TableAssumption
<1>1. ASSUME NEW k \in 0..(RANGE_COUNT - 1), NEW j \in Row
      PROVE  /\ Swapped(t, q)[k * ROW + j] = t[Other(q, k) * ROW + j]
             /\ Other(q, k) * ROW + j \in Slots
  <2>1. k \in Nat /\ k < RANGE_COUNT
    BY <1>0
  <2>2. k * ROW + j \in Slots /\ (k * ROW + j) \div ROW = k /\ k * ROW + j \in Nat
    BY <2>1, SlotOfRow
  <2>3. Other(q, k) \in Nat /\ Other(q, k) < RANGE_COUNT
    BY <1>0, <2>1 DEF Other
  <2>4. Other(q, k) * ROW + j \in Slots
    BY <2>3, SlotOfRow
  <2>5. CASE k = q
    <3>1. (q + 1) * ROW + j = (k * ROW + j) + ROW
      BY <2>5, SlotOfRow
    <3>2. Swapped(t, q)[k * ROW + j] = t[(k * ROW + j) + ROW]
      BY <2>2, <2>5 DEF Swapped
    <3> QED BY <2>4, <2>5, <3>1, <3>2 DEF Other
  <2>6. CASE k = q + 1
    <3>1. (q + 1) * ROW + j = (q * ROW + j) + ROW /\ q * ROW + j \in Nat
      BY SlotOfRow
    <3>2. (k * ROW + j) - ROW = q * ROW + j
      BY <1>0, <2>6, <3>1
    <3>3. q # q + 1
      OBVIOUS
    <3>4. Swapped(t, q)[k * ROW + j] = t[(k * ROW + j) - ROW]
      BY <2>2, <2>6, <3>3 DEF Swapped
    <3> QED BY <2>4, <2>6, <3>2, <3>3, <3>4 DEF Other
  <2>7. CASE k # q /\ k # q + 1
    BY <2>2, <2>4, <2>7 DEF Swapped, Other
  <2> QED BY <2>5, <2>6, <2>7
<1>2. ASSUME NEW i \in Slots PROVE Swapped(t, q)[i] \in Slot
  <2> DEFINE k == i \div ROW
             j == i % ROW
  <2>1. i \in Nat /\ k \in 0..(RANGE_COUNT - 1)
    BY SlotHasRow
  <2>2. j \in Row /\ i = ROW * k + j
    BY <1>0, <2>1, DivMod
  <2> HIDE DEF k, j
  <2>3. i = k * ROW + j
    BY <1>0, <2>1, <2>2
  <2>4. Swapped(t, q)[i] = t[Other(q, k) * ROW + j] /\ Other(q, k) * ROW + j \in Slots
    BY <1>1, <2>1, <2>2, <2>3
  <2> QED BY <2>4 DEF Table
<1>3. Swapped(t, q) = [i \in Slots |-> Swapped(t, q)[i]]
  BY DEF Swapped
<1>4. Swapped(t, q) \in Table
  BY <1>2, <1>3 DEF Table
<1> QED BY <1>1, <1>4

-----------------------------------------------------------------------------
(* The copy. *)

LEMMA CopiedRowFacts ==
  ASSUME NEW t \in Table, NEW k \in 0..(RANGE_COUNT - 1), NEW r \in Range, NEW s \in Seq(Slice)
  PROVE  /\ CopiedRow(t, k, r, s) \in Table
         /\ Len(s) <= HALF_CORE_COUNT /\ (\A i \in DOMAIN s : s[i].cpuid < UINT) =>
              LET u == CopiedRow(t, k, r, s) IN
                /\ \A l \in 0..(RANGE_COUNT - 1) : l # k => \A j \in Row : u[l * ROW + j] = t[l * ROW + j]
                /\ RowStart(u, k) = r.start /\ RowEnd(u, k) = r.end
                /\ slice_num(u, k) = Len(s)
                /\ RowSlices(u, k) = {s[i] : i \in DOMAIN s}
<1> DEFINE b == k * ROW
           h == Trailer(k)
           bounds == [t EXCEPT ![h].end = r.start, ![h].word = r.end]
           Written == b..(b + Len(s) - 1)
           slices == [i \in Slots |->
                        IF i \in Written
                        THEN LET e == s[i - b + 1]
                             IN [start |-> e.start, end |-> e.end, word |-> SetInt(bounds[i].word, e.cpuid)]
                        ELSE bounds[i]]
           u == [slices EXCEPT ![h].start = SetInt(@, Len(s))]
<1>1. u = CopiedRow(t, k, r, s)
  BY DEF CopiedRow
<1>2. /\ k \in Nat /\ k < RANGE_COUNT /\ RANGE_COUNT \in Nat /\ HALF_CORE_COUNT \in Nat
      /\ HALF_CORE_COUNT \in Row /\ HALF_CORE_COUNT < UINT /\ UINT \in Nat
      /\ Row = 0..HALF_CORE_COUNT /\ ROW \in Nat
  BY RowSize, TableAssumption DEF Row
<1>3. h \in Slots /\ h = b + HALF_CORE_COUNT /\ b \in Nat
  <2>1. b + HALF_CORE_COUNT \in Slots
    BY <1>2, SlotOfRow
  <2>2. b \in Nat
    BY <1>2
  <2> QED BY <2>1, <2>2 DEF Trailer
<1>4. r.start \in Nat /\ r.end \in Nat /\ Len(s) \in Nat /\ DOMAIN s = 1..Len(s)
  BY DEF Range
<1>5. \A i \in 1..Len(s) : s[i] \in Slice
  BY <1>4
<1>6. \A i \in Slots : t[i] \in Slot
  BY DEF Table
<1>7. bounds \in Table
  BY <1>3, <1>4, <1>6 DEF Table, Slot
<1>8. \A i \in Slots : bounds[i] \in Slot /\ bounds[i].word \in Nat
  <2> HIDE DEF bounds
  <2> QED BY <1>7 DEF Table, Slot
<1>9. bounds[h].end = r.start /\ bounds[h].word = r.end /\ \A i \in Slots : i # h => bounds[i] = t[i]
  BY <1>3, <1>6 DEF Table, Slot
<1> HIDE DEF bounds, h
<1>10. \A i \in Slots : slices[i] \in Slot
  <2> SUFFICES ASSUME NEW i \in Slots, i \in Written PROVE slices[i] \in Slot
    BY <1>8
  <2>1. i \in Int /\ i - b + 1 \in 1..Len(s)
    BY <1>3, <1>4
  <2>2. s[i - b + 1] \in Slice
    BY <1>5, <2>1
  <2>3. SetInt(bounds[i].word, s[i - b + 1].cpuid) \in Nat
    BY <1>8, <2>2, SetIntFacts DEF Slice
  <2> QED BY <2>2, <2>3 DEF Slot, Slice
<1>11. slices \in Table
  BY <1>10 DEF Table
<1>12. SetInt(slices[h].start, Len(s)) \in Nat
  BY <1>3, <1>4, <1>10, SetIntFacts DEF Slot
<1>13. \A i \in Slots \ Written : slices[i] = bounds[i]
  OBVIOUS
<1>14. ASSUME NEW i \in Slots, i \in Written
       PROVE  slices[i] = [start |-> s[i - b + 1].start, end |-> s[i - b + 1].end,
                           word |-> SetInt(bounds[i].word, s[i - b + 1].cpuid)]
  BY <1>14
<1> HIDE DEF slices
<1>15. u \in Table
  BY <1>3, <1>11, <1>12 DEF Table, Slot
<1>16. ASSUME Len(s) <= HALF_CORE_COUNT, \A i \in DOMAIN s : s[i].cpuid < UINT
       PROVE  /\ \A l \in 0..(RANGE_COUNT - 1) : l # k => \A j \in Row : u[l * ROW + j] = t[l * ROW + j]
              /\ RowStart(u, k) = r.start /\ RowEnd(u, k) = r.end
              /\ slice_num(u, k) = Len(s)
              /\ RowSlices(u, k) = {s[i] : i \in DOMAIN s}
  <2>1. ASSUME NEW i \in Written PROVE i - b \in Row /\ i - b # HALF_CORE_COUNT /\ i = b + (i - b)
    BY <1>2, <1>3, <1>4, <1>16
  <2>2. h \notin Written
    BY <1>2, <1>3, <2>1
  <2>3. ASSUME NEW l \in 0..(RANGE_COUNT - 1), l # k, NEW j \in Row
        PROVE  u[l * ROW + j] = t[l * ROW + j]
    <3>1. l \in Nat /\ l < RANGE_COUNT
      BY <1>2
    <3>2. l * ROW + j \in Slots /\ (l * ROW + j) \div ROW = l
      BY <3>1, SlotOfRow
    <3>3. \A g \in Row : (b + g) \div ROW = k
      BY <1>2, SlotOfRow
    <3>4. l * ROW + j \notin Written /\ l * ROW + j # h
      BY <1>2, <1>3, <2>1, <2>3, <3>2, <3>3
    <3>5. u[l * ROW + j] = slices[l * ROW + j]
      BY <3>2, <3>4, <1>11 DEF Table
    <3> QED BY <1>9, <1>13, <3>2, <3>4, <3>5
  <2>4. slices[h] = bounds[h]
    BY <1>3, <1>13, <2>2
  <2>5. u[h].start = SetInt(slices[h].start, Len(s)) /\ u[h].end = r.start /\ u[h].word = r.end
    BY <1>3, <1>9, <1>10, <1>11, <2>4 DEF Table, Slot
  <2>6. SetInt(slices[h].start, Len(s)) % UINT = Len(s)
    <3>1. slices[h].start \in Nat /\ Len(s) < UINT
      BY <1>2, <1>3, <1>4, <1>10, <1>16 DEF Slot
    <3> QED BY <1>4, <3>1, SetIntFacts
  <2>7. RowStart(u, k) = r.start /\ RowEnd(u, k) = r.end /\ slice_num(u, k) = Len(s)
    BY <2>5, <2>6 DEF RowStart, RowEnd, slice_num, h
  <2>8. ASSUME NEW j \in 0..(Len(s) - 1) PROVE Sinfo(u, k, j) = s[j + 1]
    <3>1. j + 1 \in 1..Len(s) /\ j \in Row /\ j # HALF_CORE_COUNT /\ j \in Nat
      BY <1>2, <1>4, <1>16
    <3>2. b + j \in Slots /\ b + j \in Written /\ b + j # h /\ (b + j) - b + 1 = j + 1
      <4>1. b + j \in Slots
        BY <1>2, <3>1, SlotOfRow
      <4> QED BY <1>2, <1>3, <1>4, <3>1, <4>1
    <3>3. s[j + 1] \in Slice /\ s[j + 1].cpuid < UINT
      BY <1>4, <1>5, <1>16, <3>1
    <3>4. u[b + j] = slices[b + j]
      BY <1>11, <3>2 DEF Table
    <3>5. slices[b + j] = [start |-> s[j + 1].start, end |-> s[j + 1].end,
                           word |-> SetInt(bounds[b + j].word, s[j + 1].cpuid)]
      BY <1>14, <3>2
    <3>6. SetInt(bounds[b + j].word, s[j + 1].cpuid) % UINT = s[j + 1].cpuid
      BY <1>8, <3>2, <3>3, SetIntFacts DEF Slice
    <3> HIDE DEF u
    <3>7. Sinfo(u, k, j) = [start |-> s[j + 1].start, end |-> s[j + 1].end, cpuid |-> s[j + 1].cpuid]
      BY <3>4, <3>5, <3>6 DEF Sinfo
    <3> QED BY <3>3, <3>7 DEF Slice
  <2> HIDE DEF u
  <2>9. RowSlices(u, k) = {s[j + 1] : j \in 0..(Len(s) - 1)}
    BY <2>7, <2>8 DEF RowSlices
  <2>10. {s[j + 1] : j \in 0..(Len(s) - 1)} = {s[i] : i \in DOMAIN s}
    <3>1. \A j \in 0..(Len(s) - 1) : j + 1 \in DOMAIN s
      BY <1>4
    <3>2. \A i \in DOMAIN s : i - 1 \in 0..(Len(s) - 1) /\ (i - 1) + 1 = i
      BY <1>4
    <3> QED BY <3>1, <3>2
  <2> QED BY <2>3, <2>7, <2>9, <2>10
<1> HIDE DEF u
<1> QED BY <1>1, <1>15, <1>16

-----------------------------------------------------------------------------
(* The inductive invariant of the table. *)

\* What the lists are once test_policy() has returned.
LEMMA ListFacts ==
  ASSUME IInv
  PROVE  /\ RW_list \in Seq(Range) /\ Len(RW_list) \in Nat /\ DOMAIN RW_list = 1..Len(RW_list)
         /\ \A i \in DOMAIN RW_list : RW_list[i] \in Range
         /\ Len(RW_slice) \in Nat /\ DOMAIN RW_slice = 1..Len(RW_slice)
         /\ \A i \in DOMAIN RW_slice : RW_slice[i] \in Seq(Slice) /\ Len(RW_slice[i]) \in Nat \ {0}
<1>1. RW_list \in Seq(Range) /\ RW_slice \in Seq(Seq(Slice))
  BY RangeAssumption DEF IInv, TypeOK
<1>2. \A i \in DOMAIN RW_slice : RW_slice[i] \in Seq(Slice)
  BY <1>1
<1>3. \A i \in DOMAIN RW_slice : Len(RW_slice[i]) \in Nat \ {0}
  <2> SUFFICES ASSUME NEW i \in DOMAIN RW_slice PROVE Len(RW_slice[i]) \in Nat \ {0}
    OBVIOUS
  <2>1. Len(RW_slice[i]) \in Nat
    BY <1>2
  <2>2. Len(RW_slice[i]) > 0
    BY DEF IInv, RangesPartitioned, Partition
  <2> QED BY <2>1, <2>2
<1> QED BY <1>1, <1>2, <1>3

\* An int of the table holds the number of a core.
LEMMA CpuidFits ==
  ASSUME IInv, Progress, ret = ERR_SUCCESS
  PROVE  \A i \in DOMAIN RW_slice : \A j \in DOMAIN RW_slice[i] : RW_slice[i][j].cpuid < UINT
<1> SUFFICES ASSUME NEW i \in DOMAIN RW_slice, NEW j \in DOMAIN RW_slice[i]
             PROVE  RW_slice[i][j].cpuid < UINT
  OBVIOUS
<1>1. core_num \in Nat /\ CORE_COUNT \in Nat /\ UINT \in Nat /\ CORE_COUNT <= UINT
  BY CoreAssumption, TableAssumption DEF IInv, TypeOK
<1>2. RW_slice[i][j].cpuid \in 0..(core_num - 1)
  BY DEF IInv, CoresAssigned
<1>3. core_num <= CORE_COUNT
  BY DEF Progress
<1> QED BY <1>1, <1>2, <1>3

LEMMA TableInitIInv == TableInit => TableIInv
<1> SUFFICES ASSUME TableInit PROVE TableIInv
  OBVIOUS
<1>1. IInv
  BY InitIInv DEF TableInit
<1>2. ret = "none" /\ range_num = 0 /\ step = "copy" /\ m = 0 /\ n = 0 /\ overrun = FALSE
  BY DEF TableInit, Init
<1>3. Len(RW_list) \in Nat /\ RANGE_COUNT \in Nat
  BY <1>1, ListFacts, TableAssumption
<1>4. TableTypeOK
  <2>1. istr \in [Slots -> [start : Nat, end : Nat, word : Nat]]
    BY DEF TableInit
  <2>2. range_num \in 0..Len(RW_list) /\ m \in Nat /\ n \in Nat
    BY <1>2, <1>3
  <2>3. step \in {"copy", "sort", "test"} /\ overrun \in BOOLEAN
    BY <1>2
  <2> QED BY <2>1, <2>2, <2>3, Zenon DEF TableTypeOK
<1>5. Progress
  BY <1>2, <1>3 DEF Progress, ERR_SUCCESS
<1>6. RowsAreRanges /\ PassesSort
  BY <1>2 DEF RowsAreRanges, PassesSort, ERR_SUCCESS
<1> QED BY <1>1, <1>4, <1>5, <1>6 DEF TableIInv

\* While test_policy() works, the table is empty.
LEMMA PolicyStep ==
  ASSUME TableIInv, Next, UNCHANGED tvars
  PROVE  TableIInv'
<1>1. IInv'
  BY NextIInv DEF TableIInv
<1>2. ret = "none" /\ UNCHANGED RW_list
  BY DEF Next, Refuse, SelectTable, SplitRange, Return, params
<1>3. range_num = 0 /\ step = "copy" /\ ~overrun /\ m = 0 /\ n = 0
  BY <1>2 DEF TableIInv, Progress, TableTypeOK, ERR_SUCCESS
<1>4. UNCHANGED <<istr, range_num, step, m, n, overrun>>
  BY DEF tvars
<1>5. TableTypeOK'
  BY <1>2, <1>4 DEF TableIInv, TableTypeOK
<1>6. ret' = ERR_SUCCESS => Len(RW_slice') = Len(RW_list') /\ core_num' <= CORE_COUNT
  <2>1. core_num \in Nat /\ CORE_COUNT \in Nat
    BY CoreAssumption DEF TableIInv, IInv, TypeOK
  <2>2. ret' = ERR_SUCCESS => Return
    BY <1>2 DEF Next, Refuse, SelectTable, SplitRange, ERR_SUCCESS, ERR_CORE_NUM
  <2> QED BY <2>1, <2>2 DEF Return, Refused, params
<1>7. Progress'
  BY <1>3, <1>4, <1>6, TableAssumption DEF Progress
<1>8. RowsAreRanges' /\ PassesSort'
  BY <1>3, <1>4 DEF RowsAreRanges, PassesSort
<1> QED BY <1>1, <1>5, <1>7, <1>8 DEF TableIInv

\* A step that leaves the lists alone keeps what they say.
LEMMA ListsKept ==
  ASSUME TableIInv, UNCHANGED vars
  PROVE  /\ IInv' /\ (TableFits' <=> TableFits)
         /\ \A k, i : RowHolds(istr, k, i)' <=> RowHolds(istr', k, i)
<1>1. UNCHANGED <<core_num, cpu, RW_list, mode, RW_slice, remain, ret>>
  BY DEF vars, params
<1>2. IInv'
  BY NextIInv DEF TableIInv
<1> QED BY <1>1, <1>2 DEF TableFits, RowHolds, RowSlices, RowStart, RowEnd, slice_num, Sinfo

LEMMA CopyStep ==
  ASSUME TableIInv, CopyRange
  PROVE  TableIInv'
<1> DEFINE k == range_num
           r == RW_list[k + 1]
           s == RW_slice[k + 1]
<1>1. /\ IInv /\ ret = ERR_SUCCESS /\ step = "copy" /\ m = 0 /\ n = 0
      /\ k \in Nat /\ k < Len(RW_list) /\ k' = k + 1
      /\ UNCHANGED <<vars, step, m, n>> /\ UNCHANGED <<core_num, RW_list, RW_slice, ret>>
  BY ListFacts DEF TableIInv, CopyRange, Progress, TableTypeOK, vars, params
<1>2. /\ RANGE_COUNT \in Nat \ {0} /\ Len(RW_list) \in Nat /\ Len(RW_slice) = Len(RW_list)
      /\ k + 1 \in DOMAIN RW_list /\ k + 1 \in DOMAIN RW_slice
      /\ r \in Range /\ s \in Seq(Slice) /\ Len(s) \in Nat \ {0}
  <2>1. Len(RW_slice) = Len(RW_list) /\ Len(RW_list) \in Nat
    BY <1>1, ListFacts DEF TableIInv, Progress
  <2>2. k + 1 \in DOMAIN RW_list /\ k + 1 \in DOMAIN RW_slice
    BY <1>1, <2>1, ListFacts
  <2> QED BY <1>1, <2>1, <2>2, ListFacts, TableAssumption
<1>3. istr \in Table
  BY DEF TableIInv, TableTypeOK, Table, Slot
<1>4. \/ /\ k < RANGE_COUNT /\ istr' = CopiedRow(istr, k, r, s)
         /\ overrun' = (overrun \/ k * ROW + Len(s) - 1 \notin Slots)
      \/ ~(k < RANGE_COUNT) /\ overrun' = TRUE /\ istr' = istr
  BY DEF CopyRange
<1> HIDE DEF k, r, s
<1>5. IInv' /\ (TableFits' <=> TableFits) /\ \A l, i : RowHolds(istr, l, i)' <=> RowHolds(istr', l, i)
  BY <1>1, ListsKept
<1>6. istr' \in Table
  <2>1. k < RANGE_COUNT => k \in 0..(RANGE_COUNT - 1)
    BY <1>1, <1>2
  <2> QED BY <1>2, <1>3, <1>4, <2>1, CopiedRowFacts
<1>7. overrun \in BOOLEAN
  BY DEF TableIInv, TableTypeOK
<1>8. TableTypeOK'
  <2>1. k' \in 0..Len(RW_list')
    BY <1>1, <1>2
  <2> QED BY <1>1, <1>4, <1>6, <1>7, <2>1 DEF TableTypeOK, Table, Slot, k
<1>9. ASSUME TableFits
      PROVE  k < RANGE_COUNT /\ Len(s) <= HALF_CORE_COUNT /\ ~overrun'
  <2>1. k < RANGE_COUNT /\ Len(s) <= HALF_CORE_COUNT
    BY <1>1, <1>2, <1>9 DEF TableFits, s
  <2>2. Len(s) - 1 \in Row
    BY <1>2, <2>1, RowSize DEF Row
  <2>3. k * ROW + (Len(s) - 1) \in Slots
    BY <1>1, <2>1, <2>2, SlotOfRow
  <2>4. k * ROW \in Nat
    BY <1>1, RowSize
  <2>5. k * ROW + (Len(s) - 1) = k * ROW + Len(s) - 1
    BY <1>2, <2>4
  <2>6. ~overrun
    BY <1>1, <1>9 DEF TableIInv, Progress
  <2> QED BY <1>4, <2>1, <2>3, <2>5, <2>6
<1>10. Progress'
  <2>1. ~overrun' => k' <= RANGE_COUNT
    BY <1>1, <1>2, <1>4
  <2>2. TableFits' => ~overrun'
    BY <1>5, <1>9
  <2>3. Len(RW_slice) = Len(RW_list) /\ core_num <= CORE_COUNT
    BY <1>1 DEF TableIInv, Progress
  <2> QED BY <1>1, <1>2, <2>1, <2>2, <2>3 DEF Progress, k
<1>11. RowsAreRanges'
  <2> SUFFICES ASSUME TableFits
               PROVE  /\ \A i \in 1..(k + 1) : \E l \in 0..k : RowHolds(istr', l, i)
                      /\ \A l \in 0..k : \E i \in 1..(k + 1) : RowHolds(istr', l, i)
    <3>1. 0..(k + 1 - 1) = 0..k
      BY <1>1
    <3> QED BY <1>1, <1>5, <3>1 DEF RowsAreRanges, k
  <2>1. k \in 0..(RANGE_COUNT - 1) /\ k < RANGE_COUNT /\ Len(s) <= HALF_CORE_COUNT
    BY <1>1, <1>2, <1>9
  <2>2. istr' = CopiedRow(istr, k, r, s)
    BY <1>4, <2>1
  <2>3. \A j \in DOMAIN s : s[j].cpuid < UINT
    BY <1>1, <1>2, CpuidFits DEF TableIInv, s
  <2>4. /\ \A l \in 0..(RANGE_COUNT - 1) : l # k => \A j \in Row : istr'[l * ROW + j] = istr[l * ROW + j]
        /\ RowStart(istr', k) = r.start /\ RowEnd(istr', k) = r.end
        /\ slice_num(istr', k) = Len(s)
        /\ RowSlices(istr', k) = {s[j] : j \in DOMAIN s}
    BY <1>2, <1>3, <2>1, <2>2, <2>3, CopiedRowFacts
  <2>5. RowHolds(istr', k, k + 1)
    BY <2>4 DEF RowHolds, r, s
  <2>6. /\ \A i \in 1..k : \E l \in 0..(k - 1) : RowHolds(istr, l, i)
        /\ \A l \in 0..(k - 1) : \E i \in 1..k : RowHolds(istr, l, i)
    BY <1>1 DEF TableIInv, RowsAreRanges, k
  <2>7. ASSUME NEW l \in 0..(k - 1), NEW i \in 1..k, RowHolds(istr, l, i) PROVE RowHolds(istr', l, i)
    <3>1. l \in Nat /\ l \in 0..(RANGE_COUNT - 1) /\ l # k /\ i \in DOMAIN RW_slice
      BY <1>1, <1>2, <2>1, ListFacts
    <3>2. \A j \in Row : istr'[l * ROW + j] = istr[l * ROW + j]
      BY <2>4, <3>1
    <3>3. Len(RW_slice[i]) <= HALF_CORE_COUNT /\ Len(RW_slice[i]) \in Nat
      BY <1>1, <3>1, ListFacts DEF TableFits
    <3> QED BY <2>7, <3>1, <3>2, <3>3, SameRow
  <2>8. \A i \in 1..(k + 1) : i = k + 1 \/ i \in 1..k
    BY <1>1
  <2>9. \A l \in 0..k : l = k \/ l \in 0..(k - 1)
    BY <1>1
  <2>10. k \in 0..k /\ k + 1 \in 1..(k + 1) /\ 0..(k - 1) \subseteq 0..k /\ 1..k \subseteq 1..(k + 1)
    BY <1>1
  <2> QED BY <2>5, <2>6, <2>7, <2>8, <2>9, <2>10
<1>12. PassesSort'
  BY <1>1 DEF PassesSort
<1> QED BY <1>5, <1>8, <1>10, <1>11, <1>12 DEF TableIInv

\* Nothing is sorted when the sort begins, and one row or none needs no sort.
LEMMA ReleaseStep ==
  ASSUME TableIInv, ReleaseLists
  PROVE  TableIInv'
<1>1. /\ ret = ERR_SUCCESS /\ range_num = Len(RW_list) /\ step' = "sort"
      /\ m = 0 /\ n = 0 /\ m' = 0 /\ n' = 0 /\ range_num \in Nat
      /\ UNCHANGED vars /\ UNCHANGED <<core_num, RW_list, RW_slice, ret>>
      /\ UNCHANGED <<istr, range_num, overrun>>
  BY ListFacts DEF TableIInv, ReleaseLists, Progress, TableTypeOK, vars, params
<1>2. IInv' /\ (TableFits' <=> TableFits) /\ \A k, i : RowHolds(istr, k, i)' <=> RowHolds(istr', k, i)
  BY <1>1, ListsKept
<1>3. TableTypeOK'
  BY <1>1 DEF TableIInv, TableTypeOK
<1>4. Progress'
  BY <1>1, <1>2 DEF TableIInv, Progress
<1>5. RowsAreRanges'
  BY <1>1, <1>2 DEF TableIInv, RowsAreRanges
<1>6. PassesSort'
  BY <1>1 DEF PassesSort, SortedFrom
<1> QED BY <1>2, <1>3, <1>4, <1>5, <1>6 DEF TableIInv

LEMMA SortedStep ==
  ASSUME TableIInv, Sorted
  PROVE  TableIInv'
<1>1. /\ step = "sort" /\ step' = "test" /\ (n >= range_num - 1 \/ overrun)
      /\ UNCHANGED vars /\ UNCHANGED <<core_num, RW_list, RW_slice, ret>>
      /\ UNCHANGED <<istr, range_num, m, n, overrun>>
  BY DEF Sorted, vars, params
<1>2. IInv' /\ (TableFits' <=> TableFits) /\ \A k, i : RowHolds(istr, k, i)' <=> RowHolds(istr', k, i)
  BY <1>1, ListsKept
<1>3. TableTypeOK'
  BY <1>1 DEF TableIInv, TableTypeOK
<1>4. Progress'
  BY <1>1, <1>2 DEF TableIInv, Progress
<1>5. RowsAreRanges'
  BY <1>1, <1>2 DEF TableIInv, RowsAreRanges
<1>6. PassesSort'
  BY <1>1 DEF TableIInv, PassesSort, SortedFrom, Block, RowStart, RowEnd
<1> QED BY <1>2, <1>3, <1>4, <1>5, <1>6 DEF TableIInv

\* Where the rows are after a comparison, and how large.
LEMMA SortMoves ==
  ASSUME TableIInv, SortStep
  PROVE  /\ range_num \in Nat /\ range_num <= RANGE_COUNT /\ RANGE_COUNT \in Nat
         /\ m \in Nat /\ n \in Nat /\ n < range_num - 1 /\ m <= range_num - 2
         /\ istr \in Table /\ istr' \in Table
         /\ \/ /\ Block(istr, m) < Block(istr, m + 1)
               /\ \A k \in 0..(range_num - 1) : \A j \in Row :
                    istr'[k * ROW + j] = istr[Other(m, k) * ROW + j]
            \/ ~(Block(istr, m) < Block(istr, m + 1)) /\ istr' = istr
<1>1. /\ range_num \in Nat /\ range_num <= RANGE_COUNT /\ RANGE_COUNT \in Nat /\ istr \in Table
      /\ m \in Nat /\ n \in Nat /\ n < range_num - 1 /\ m <= range_num - 2
  <2>1. Len(RW_list) \in Nat
    BY ListFacts DEF TableIInv
  <2>2. istr \in Table
    BY DEF TableIInv, TableTypeOK, Table, Slot
  <2> QED BY <2>1, <2>2, TableAssumption DEF TableIInv, TableTypeOK, Progress, SortStep
<1>2. m + 1 < RANGE_COUNT
  BY <1>1
<1>3. /\ Swapped(istr, m) \in Table
      /\ \A k \in 0..(RANGE_COUNT - 1) : \A j \in Row :
           Swapped(istr, m)[k * ROW + j] = istr[Other(m, k) * ROW + j]
  BY <1>1, <1>2, SwappedFacts
<1>4. \A k \in 0..(range_num - 1) : k \in 0..(RANGE_COUNT - 1)
  BY <1>1
<1>5. istr' = IF Block(istr, m) < Block(istr, m + 1) THEN Swapped(istr, m) ELSE istr
  BY DEF SortStep
<1> QED BY <1>1, <1>3, <1>4, <1>5

\* The bubble sort: what a comparison does to the order of the rows.
LEMMA BubbleStep ==
  ASSUME NEW B, NEW C, NEW size \in Nat, NEW q \in Nat, NEW done \in Nat,
         q <= size - 2, done < size - 1,
         \A k \in 0..(size - 1) : B[k] \in Nat,
         \/ B[q] < B[q + 1] /\ \A k \in 0..(size - 1) : C[k] = B[Other(q, k)]
         \/ ~(B[q] < B[q + 1]) /\ \A k \in 0..(size - 1) : C[k] = B[k],
         \A i, k \in 0..(size - 1) : i < k /\ size - done <= k => B[i] >= B[k],
         \A k \in 0..(q - 1) : B[k] >= B[q],
         q >= size - done - 1 =>
           \A i, k \in 0..(size - 1) : i < k /\ size - done - 1 <= k => B[i] >= B[k]
  PROVE  /\ \A i, k \in 0..(size - 1) : i < k /\ size - done <= k => C[i] >= C[k]
         /\ \A k \in 0..q : C[k] >= C[q + 1]
         /\ q + 1 >= size - done - 1 =>
              \A i, k \in 0..(size - 1) : i < k /\ size - done - 1 <= k => C[i] >= C[k]
<1>0. q \in 0..(size - 1) /\ q + 1 \in 0..(size - 1) /\ \A k \in 0..q : k = q \/ k \in 0..(q - 1)
  OBVIOUS
<1>1. CASE B[q] < B[q + 1] /\ \A k \in 0..(size - 1) : C[k] = B[Other(q, k)]
  <2>1. q + 1 < size - done
    BY <1>0, <1>1
  <2>2. /\ C[q] = B[q + 1] /\ C[q + 1] = B[q]
        /\ \A k \in 0..(size - 1) : k # q /\ k # q + 1 => C[k] = B[k]
    BY <1>0, <1>1 DEF Other
  <2>3. ASSUME NEW k \in 0..q PROVE C[k] >= C[q + 1]
    BY <1>0, <1>1, <2>2, <2>3
  <2>4. ASSUME NEW i \in 0..(size - 1), NEW k \in 0..(size - 1), i < k, size - done <= k
        PROVE  C[i] >= C[k]
    BY <1>0, <2>1, <2>2, <2>4
  <2>5. ASSUME q + 1 >= size - done - 1,
               NEW i \in 0..(size - 1), NEW k \in 0..(size - 1), i < k, size - done - 1 <= k
        PROVE  C[i] >= C[k]
    <3>1. q + 1 = size - done - 1
      BY <2>1, <2>5
    <3>2. CASE k = q + 1
      BY <2>3, <2>5, <3>2
    <3>3. CASE k # q + 1
      BY <2>4, <2>5, <3>1, <3>3
    <3> QED BY <3>2, <3>3
  <2> QED BY <2>3, <2>4, <2>5
<1>2. CASE ~(B[q] < B[q + 1]) /\ \A k \in 0..(size - 1) : C[k] = B[k]
  <2>1. B[q] >= B[q + 1]
    BY <1>0, <1>2
  <2>2. ASSUME NEW k \in 0..q PROVE C[k] >= C[q + 1]
    BY <1>0, <1>2, <2>1, <2>2
  <2>3. ASSUME NEW i \in 0..(size - 1), NEW k \in 0..(size - 1), i < k, size - done <= k
        PROVE  C[i] >= C[k]
    BY <1>2, <2>3
  <2>4. ASSUME q + 1 >= size - done - 1,
               NEW i \in 0..(size - 1), NEW k \in 0..(size - 1), i < k, size - done - 1 <= k
        PROVE  C[i] >= C[k]
    <3>1. CASE q >= size - done - 1
      BY <1>2, <2>4, <3>1
    <3>2. CASE q + 1 = size - done - 1 /\ k = q + 1
      BY <2>2, <2>4, <3>2
    <3>3. CASE q + 1 = size - done - 1 /\ k # q + 1
      BY <2>3, <2>4, <3>3
    <3> QED BY <2>4, <3>1, <3>2, <3>3
  <2> QED BY <2>2, <2>3, <2>4
<1> QED BY <1>1, <1>2

LEMMA SortStepIInv ==
  ASSUME TableIInv, SortStep
  PROVE  TableIInv'
<1> DEFINE R == range_num
           B == [k \in 0..(R - 1) |-> Block(istr, k)]
           C == [k \in 0..(R - 1) |-> Block(istr', k)]
<1>1. /\ R \in Nat /\ R <= RANGE_COUNT /\ RANGE_COUNT \in Nat
      /\ m \in Nat /\ n \in Nat /\ n < R - 1 /\ m <= R - 2
      /\ istr \in Table /\ istr' \in Table
  BY SortMoves
<1>2. /\ step = "sort" /\ ~overrun /\ ret = ERR_SUCCESS
      /\ UNCHANGED vars /\ UNCHANGED <<core_num, RW_list, RW_slice, ret>>
      /\ UNCHANGED <<range_num, step, overrun>>
  BY DEF TableIInv, Progress, SortStep, vars, params
<1>3. \/ m < R - 2 /\ m' = m + 1 /\ n' = n
      \/ m = R - 2 /\ m' = 0 /\ n' = n + 1
  BY <1>1 DEF SortStep
<1>4. IInv' /\ (TableFits' <=> TableFits) /\ \A k, i : RowHolds(istr, k, i)' <=> RowHolds(istr', k, i)
  BY <1>2, ListsKept
<1>5. TableTypeOK'
  <2>1. m' \in Nat /\ n' \in Nat
    BY <1>1, <1>3
  <2> QED BY <1>1, <1>2, <2>1 DEF TableIInv, TableTypeOK, Table, Slot
<1>6. Progress'
  BY <1>1, <1>2, <1>3, <1>4 DEF TableIInv, Progress
<1>7. /\ \A k \in 0..(R - 1) : Other(m, k) \in 0..(R - 1) /\ Other(m, Other(m, k)) = k
      /\ m \in 0..(R - 1) /\ m + 1 \in 0..(R - 1)
  BY <1>1 DEF Other
<1>8. PICK Moved \in [0..(R - 1) -> 0..(R - 1)] :
        /\ \A k \in 0..(R - 1) : \E l \in 0..(R - 1) : Moved[l] = k
        /\ \A k \in 0..(R - 1) : \A j \in Row : istr'[k * ROW + j] = istr[Moved[k] * ROW + j]
  <2>1. CASE istr' = istr
    <3>1. [k \in 0..(R - 1) |-> k] \in [0..(R - 1) -> 0..(R - 1)]
      OBVIOUS
    <3> QED BY <2>1, <3>1
  <2>2. CASE \A k \in 0..(R - 1) : \A j \in Row : istr'[k * ROW + j] = istr[Other(m, k) * ROW + j]
    <3> DEFINE f == [k \in 0..(R - 1) |-> Other(m, k)]
    <3>1. f \in [0..(R - 1) -> 0..(R - 1)]
      BY <1>7
    <3>2. \A k \in 0..(R - 1) : f[Other(m, k)] = k
      BY <1>7
    <3>3. \A k \in 0..(R - 1) : f[k] = Other(m, k)
      OBVIOUS
    <3> HIDE DEF f
    <3>4. \A k \in 0..(R - 1) : \E l \in 0..(R - 1) : f[l] = k
      BY <1>7, <3>2
    <3>5. \A k \in 0..(R - 1) : \A j \in Row : istr'[k * ROW + j] = istr[f[k] * ROW + j]
      BY <2>2, <3>3
    <3> QED BY <3>1, <3>4, <3>5
  <2> QED BY <2>1, <2>2, SortMoves
<1>9. \A k \in 0..(R - 1) : Moved[k] \in 0..(R - 1)
  OBVIOUS
<1>10. RowsAreRanges'
  <2> SUFFICES ASSUME TableFits
               PROVE  /\ \A i \in 1..R : \E k \in 0..(R - 1) : RowHolds(istr', k, i)
                      /\ \A k \in 0..(R - 1) : \E i \in 1..R : RowHolds(istr', k, i)
    BY <1>2, <1>4 DEF RowsAreRanges
  <2>1. /\ \A i \in 1..R : \E k \in 0..(R - 1) : RowHolds(istr, k, i)
        /\ \A k \in 0..(R - 1) : \E i \in 1..R : RowHolds(istr, k, i)
    BY <1>2 DEF TableIInv, RowsAreRanges
  <2>2. ASSUME NEW k \in 0..(R - 1), NEW i \in 1..R
        PROVE  RowHolds(istr', k, i) <=> RowHolds(istr, Moved[k], i)
    <3>1. k \in Nat /\ Moved[k] \in Nat
      BY <1>1, <1>9
    <3>2. i \in DOMAIN RW_slice
      BY <1>1, <1>2, ListFacts DEF TableIInv, Progress
    <3>3. Len(RW_slice[i]) <= HALF_CORE_COUNT /\ Len(RW_slice[i]) \in Nat
      BY <3>2, ListFacts DEF TableIInv, TableFits
    <3> QED BY <1>8, <3>1, <3>3, SameRow
  <2> QED BY <1>8, <1>9, <2>1, <2>2
<1>11. \A k \in 0..(R - 1) : B[k] = Block(istr, k) /\ C[k] = Block(istr', k) /\ B[k] \in Nat
  <2>1. \A k \in 0..(R - 1) : k \in 0..(RANGE_COUNT - 1)
    BY <1>1
  <2> QED BY <1>1, <2>1, BlockIsNat
<1>12. \/ B[m] < B[m + 1] /\ \A k \in 0..(R - 1) : C[k] = B[Other(m, k)]
       \/ ~(B[m] < B[m + 1]) /\ \A k \in 0..(R - 1) : C[k] = B[k]
  <2> HIDE DEF B, C
  <2>1. CASE istr' = istr /\ ~(Block(istr, m) < Block(istr, m + 1))
    BY <1>7, <1>11, <2>1
  <2>2. CASE /\ Block(istr, m) < Block(istr, m + 1)
             /\ \A k \in 0..(R - 1) : \A j \in Row : istr'[k * ROW + j] = istr[Other(m, k) * ROW + j]
    <3>1. ASSUME NEW k \in 0..(R - 1) PROVE Block(istr', k) = Block(istr, Other(m, k))
      <4>1. k \in Nat /\ Other(m, k) \in Nat
        BY <1>1, <1>7
      <4> QED BY <2>2, <4>1, SameRow
    <3> QED BY <1>7, <1>11, <2>2, <3>1
  <2> QED BY <2>1, <2>2, SortMoves
<1> HIDE DEF B, C
<1>13. /\ \A i, k \in 0..(R - 1) : i < k /\ R - n <= k => B[i] >= B[k]
       /\ \A k \in 0..(m - 1) : B[k] >= B[m]
       /\ m >= R - n - 1 => \A i, k \in 0..(R - 1) : i < k /\ R - n - 1 <= k => B[i] >= B[k]
  <2>1. /\ SortedFrom(R - n) /\ \A k \in 0..(m - 1) : Block(istr, k) >= Block(istr, m)
        /\ m >= R - n - 1 => SortedFrom(R - n - 1)
    BY <1>2 DEF TableIInv, PassesSort
  <2>2. \A k \in 0..(m - 1) : k \in 0..(R - 1)
    BY <1>1
  <2> QED BY <1>7, <1>11, <2>1, <2>2 DEF SortedFrom
<1>14. /\ \A i, k \in 0..(R - 1) : i < k /\ R - n <= k => C[i] >= C[k]
       /\ \A k \in 0..m : C[k] >= C[m + 1]
       /\ m + 1 >= R - n - 1 =>
            \A i, k \in 0..(R - 1) : i < k /\ R - n - 1 <= k => C[i] >= C[k]
  BY <1>1, <1>11, <1>12, <1>13, BubbleStep
<1>15. ASSUME NEW b \in Int, \A i, k \in 0..(R - 1) : i < k /\ b <= k => C[i] >= C[k]
       PROVE  \A i, k \in 0..(R - 1) : i < k /\ b <= k => Block(istr', i) >= Block(istr', k)
  BY <1>11, <1>15
<1>16. /\ \A i, k \in 0..(R - 1) : i < k /\ R - n' <= k => Block(istr', i) >= Block(istr', k)
       /\ \A k \in 0..(m' - 1) : Block(istr', k) >= Block(istr', m')
       /\ m' >= R - n' - 1 =>
            \A i, k \in 0..(R - 1) : i < k /\ R - n' - 1 <= k => Block(istr', i) >= Block(istr', k)
  <2>1. CASE m < R - 2 /\ m' = m + 1 /\ n' = n
    <3>1. \A k \in 0..(m' - 1) : k \in 0..m /\ k \in 0..(R - 1)
      BY <1>1, <2>1
    <3>2. \A k \in 0..(m' - 1) : Block(istr', k) >= Block(istr', m')
      BY <1>7, <1>11, <1>14, <2>1, <3>1
    <3>3. R - n \in Int /\ R - n - 1 \in Int
      BY <1>1
    <3> QED BY <1>14, <1>15, <2>1, <3>2, <3>3
  <2>2. CASE m = R - 2 /\ m' = 0 /\ n' = n + 1
    <3>0. R - n' \in Int /\ R - n' - 1 \in Int /\ 0..(m' - 1) = {}
      BY <1>1, <2>2
    <3>1. \A i, k \in 0..(R - 1) : i < k /\ R - n' <= k => C[i] >= C[k]
      BY <1>1, <1>14, <2>2
    <3>2. 0 >= R - n' - 1 => R - n' = 1
      BY <1>1, <2>2
    <3>3. 0 >= R - n' - 1 => \A i, k \in 0..(R - 1) : i < k /\ R - n' - 1 <= k => C[i] >= C[k]
      BY <1>1, <2>2, <3>1, <3>2
    <3> QED BY <1>15, <2>2, <3>0, <3>1, <3>3
  <2> QED BY <1>3, <2>1, <2>2
<1>17. PassesSort'
  BY <1>2, <1>16 DEF PassesSort, SortedFrom
<1> QED BY <1>4, <1>5, <1>6, <1>10, <1>17 DEF TableIInv

LEMMA TableNextIInv == TableIInv /\ [TableNext]_<<vars, tvars>> => TableIInv'
<1> SUFFICES ASSUME TableIInv, [TableNext]_<<vars, tvars>> PROVE TableIInv'
  OBVIOUS
<1>1. CASE Next /\ UNCHANGED tvars
  BY <1>1, PolicyStep
<1>2. CASE CopyRange
  BY <1>2, CopyStep
<1>3. CASE ReleaseLists
  BY <1>3, ReleaseStep
<1>4. CASE SortStep
  BY <1>4, SortStepIInv
<1>5. CASE Sorted
  BY <1>5, SortedStep
<1>6. CASE UNCHANGED <<vars, tvars>>
  <2>1. UNCHANGED vars /\ UNCHANGED <<istr, range_num, step, m, n, overrun>>
    BY <1>6 DEF tvars
  <2>2. UNCHANGED <<core_num, RW_list, RW_slice, ret>>
    BY <2>1 DEF vars, params
  <2>3. IInv' /\ (TableFits' <=> TableFits) /\ \A k, i : RowHolds(istr, k, i)' <=> RowHolds(istr', k, i)
    BY <2>1, ListsKept
  <2>4. TableTypeOK' /\ Progress'
    BY <2>1, <2>2, <2>3 DEF TableIInv, TableTypeOK, Progress
  <2>5. RowsAreRanges'
    BY <2>1, <2>2, <2>3 DEF TableIInv, RowsAreRanges
  <2>6. PassesSort'
    BY <2>1 DEF TableIInv, PassesSort, SortedFrom, Block, RowStart, RowEnd
  <2> QED BY <2>3, <2>4, <2>5, <2>6 DEF TableIInv
<1> QED BY <1>1, <1>2, <1>3, <1>4, <1>5, <1>6 DEF TableNext

THEOREM TableInvariance == TableSpec => []TableIInv
<1> QED BY TableInitIInv, TableNextIInv, PTL DEF TableSpec

\* The threads are started from a table that holds exactly the ranges with their slices,
\* unless the lists overrun it, and the largest range comes first, for every number of
\* ranges and cores and every size of the table.
THEOREM TableHandsOverSound == TableSpec => []TableHandsOver
<1>1. TableIInv => TableHandsOver
  <2> SUFFICES ASSUME TableIInv PROVE TableHandsOver
    OBVIOUS
  <2>1. TableTypeOK
    BY DEF TableIInv
  <2>2. EverySliceTested
    <3> SUFFICES ASSUME step = "test", TableFits
                 PROVE  /\ ~overrun /\ range_num = Len(RW_list)
                        /\ \A i \in DOMAIN RW_list : \E k \in 0..(range_num - 1) : RowHolds(istr, k, i)
                        /\ \A k \in 0..(range_num - 1) : \E i \in DOMAIN RW_list : RowHolds(istr, k, i)
      BY DEF EverySliceTested
    <3>1. ret = ERR_SUCCESS /\ ~overrun /\ range_num = Len(RW_list)
      BY DEF TableIInv, Progress
    <3>2. DOMAIN RW_list = 1..range_num
      BY <3>1, ListFacts DEF TableIInv
    <3> QED BY <3>1, <3>2 DEF TableIInv, RowsAreRanges
  <2>3. LargestFirst
    <3> SUFFICES ASSUME step = "test", ~overrun, NEW k \in 0..(range_num - 2)
                 PROVE  Block(istr, k) >= Block(istr, k + 1)
      BY DEF LargestFirst
    <3>1. range_num \in Nat /\ n \in Nat /\ n >= range_num - 1 /\ SortedFrom(range_num - n)
      BY ListFacts DEF TableIInv, TableTypeOK, PassesSort
    <3> QED BY <3>1 DEF SortedFrom
  <2> QED BY <2>1, <2>2, <2>3 DEF TableHandsOver
<1> QED BY <1>1, TableInvariance, PTL
=============================================================================
