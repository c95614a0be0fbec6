--------------------------- MODULE BootmemRegions ---------------------------
(***************************************************************************)
(* Which pages the driver offers for testing.  At load time it reads the   *)
(* memory blocks of the NUMA nodes from the SRAT.  On every run the        *)
(* program hands it the firmware's e820 map (ioctl MEMORY_SET_E820_INFO),  *)
(* whose RAM it registers node by node, and the amount of memory the       *)
(* kernel was started with (MEMORY_SET_MEM_INFO), at which it cuts the     *)
(* ranges in a read-only and a read/write part.  The tables outlive a run. *)
(*                                                                         *)
(* Addresses are numbers of bytes, a pfn is an address divided by          *)
(* PAGE_SIZE.  The bounds per node in nodes[] are left out: only messages  *)
(* read them.  mem= of the kernel's command line is an input.              *)
(***************************************************************************)
EXTENDS Integers, Sequences, FiniteSets

CONSTANTS
  PAGE_SIZE,
  MAX_NUMNODES,
  PXM,                  \* proximity domains
  NR_NODE_MEMBLKS,      \* entries of the SRAT that are looked at
  E820_X_MAX,           \* entries of an e820 map
  MAX_ACTIVE_REGIONS,
  MAX_BOOTMEM_REGIONS,
  Srats,                \* what the SRAT may say
  Firmwares,            \* what /sys/firmware/memmap may say
  MemLimits,            \* what mem= may say
  MaxRuns               \* bound on the runs of the program

Type == {"RAM", "RESERVED", "ACPI", "NVS"}
CpuEntry == [pxm : PXM, enabled : BOOLEAN]
MemEntry == [base : Nat, length : Nat, pxm : PXM, enabled : BOOLEAN]
FirmwareEntry == [start : Nat, end : Nat, type : Type]  \* end is the last byte

ASSUME SizeAssumption ==
  /\ PAGE_SIZE \in Nat \ {0} /\ MAX_NUMNODES \in Nat \ {0} /\ NR_NODE_MEMBLKS \in Nat
  /\ E820_X_MAX \in Nat /\ MAX_ACTIVE_REGIONS \in Nat /\ MAX_BOOTMEM_REGIONS \in Nat
  /\ MaxRuns \in Nat

ASSUME InputAssumption ==
  /\ Srats \subseteq [cpu : Seq(CpuEntry), mem : Seq(MemEntry)]
  /\ Firmwares \subseteq Seq(FirmwareEntry)
  /\ MemLimits \subseteq Nat

MMTEST_RO == "RO"
MMTEST_RW == "RW"

NID_INVAL == -1
Node == 0..(MAX_NUMNODES - 1)

Memblk == [start : Nat, end : Nat, nid : Node]
E820Record == [addr : Nat, size : Nat, type : Type]
ActiveRegion == [nid : Node, start_pfn : Nat, end_pfn : Nat]
Region == [nid : Node, start_pfn : Nat, end_pfn : Nat, type : {MMTEST_RO, MMTEST_RW}]

VARIABLES
  srat, firmware, memLimit,   \* inputs
  pc,
  pxm_to_node_map, nodes_found_map,
  node_memblk_range,          \* with memblk_nodeid
  mye820, early_node_map, bootmem_regions,
  m, n,                       \* loop counters
  ret,                        \* what generate_bootmem_region() returned
  runs                        \* of the program, so far

inputs == <<srat, firmware, memLimit>>
nodemap == <<pxm_to_node_map, nodes_found_map>>
vars == <<inputs, pc, nodemap, node_memblk_range, mye820, early_node_map, bootmem_regions, m, n, ret, runs>>

-----------------------------------------------------------------------------
(* Loading of the driver: acpi_numa_init(). *)

Least(S) == CHOOSE x \in S : \A y \in S : x <= y

\* The node of proximity domain p: the one it has, the first free one, or none.
NodeFor(p) ==
  IF pxm_to_node_map[p] >= 0 THEN pxm_to_node_map[p]
  ELSE IF Node \subseteq nodes_found_map THEN NID_INVAL
  ELSE Least(Node \ nodes_found_map)

setup_node(p) ==
  IF NodeFor(p) = NID_INVAL THEN UNCHANGED nodemap
  ELSE /\ pxm_to_node_map' = [pxm_to_node_map EXCEPT ![p] = NodeFor(p)]
       /\ nodes_found_map' = nodes_found_map \cup {NodeFor(p)}

\* The node of the first block that [start, end) overlaps.
conflicting_memblks(start, end) ==
  LET Conflicts(b) ==
        /\ b.start # b.end
        /\ (b.end > start /\ b.start < end) \/ (b.end = end /\ b.start = start)
      found == {i \in DOMAIN node_memblk_range : Conflicts(node_memblk_range[i])}
  IN IF found = {} THEN -1 ELSE node_memblk_range[Least(found)].nid

ParseProcessorAffinity ==
  /\ pc = "cpus" /\ m <= Len(srat.cpu)
  /\ IF srat.cpu[m].enabled THEN setup_node(srat.cpu[m].pxm) ELSE UNCHANGED nodemap
  /\ m' = m + 1
  /\ UNCHANGED <<inputs, pc, node_memblk_range, mye820, early_node_map, bootmem_regions, n, ret, runs>>

ProcessorsParsed ==
  /\ pc = "cpus" /\ m > Len(srat.cpu)
  /\ pc' = "memory" /\ m' = 1
  /\ UNCHANGED <<inputs, nodemap, node_memblk_range, mye820, early_node_map, bootmem_regions, n, ret, runs>>

\* A block that overlaps one of its own node is taken with a warning.
MemblkAccepted(e, node) ==
  /\ node # NID_INVAL
  /\ conflicting_memblks(e.base, e.base + e.length) \in {-1, node}

\* Entries beyond NR_NODE_MEMBLKS are ignored, disabled ones count.
ParseMemoryAffinity ==
  /\ pc = "memory" /\ m <= Len(srat.mem)
  /\ LET e == srat.mem[m]
         node == NodeFor(e.pxm)
     IN IF e.enabled /\ m <= NR_NODE_MEMBLKS
        THEN /\ setup_node(e.pxm)
             /\ node_memblk_range' =
                  IF MemblkAccepted(e, node)
                  THEN Append(node_memblk_range, [start |-> e.base, end |-> e.base + e.length, nid |-> node])
                  ELSE node_memblk_range
        ELSE UNCHANGED <<nodemap, node_memblk_range>>
  /\ m' = m + 1
  /\ UNCHANGED <<inputs, pc, mye820, early_node_map, bootmem_regions, n, ret, runs>>

Loaded ==
  /\ pc = "memory" /\ m > Len(srat.mem)
  /\ pc' = "ready"
  /\ UNCHANGED <<inputs, nodemap, node_memblk_range, mye820, early_node_map, bootmem_regions, m, n, ret, runs>>

-----------------------------------------------------------------------------
(* ioctl MEMORY_SET_E820_INFO *)

\* e820AddEntry(): an entry keeps its number; one without bytes leaves a hole of
\* size 0 and does not count.
Counted(fw) == {i \in DOMAIN fw : i <= E820_X_MAX /\ fw[i].end > fw[i].start}

E820Entry(fw, i) ==
  IF i \in Counted(fw)
  THEN [addr |-> fw[i].start, size |-> fw[i].end - fw[i].start + 1, type |-> fw[i].type]
  ELSE [addr |-> 0, size |-> 0, type |-> "RESERVED"]

E820Map(fw) == [i \in 1..Cardinality(Counted(fw)) |-> E820Entry(fw, i)]

SetE820Info ==
  /\ pc = "ready" /\ runs < MaxRuns
  /\ runs' = runs + 1
  /\ mye820' = E820Map(firmware)
  /\ pc' = "register" /\ m' = 1 /\ n' = 1
  /\ UNCHANGED <<inputs, nodemap, node_memblk_range, early_node_map, bootmem_regions, ret>>

\* What RAM is registered for: the memory blocks, or without any the map's own
\* entries, all for node 0.
Windows ==
  IF node_memblk_range # <<>>
  THEN [i \in DOMAIN node_memblk_range |->
         [nid |-> node_memblk_range[i].nid,
          start_pfn |-> node_memblk_range[i].start \div PAGE_SIZE,
          end_pfn |-> node_memblk_range[i].end \div PAGE_SIZE]]
  ELSE [i \in DOMAIN mye820 |->
         [nid |-> 0,
          start_pfn |-> mye820[i].addr \div PAGE_SIZE,
          end_pfn |-> (mye820[i].addr + mye820[i].size) \div PAGE_SIZE]]

Greater(a, b) == IF a >= b THEN a ELSE b
Smaller(a, b) == IF a <= b THEN a ELSE b

\* The whole pages of an entry.
FirstPfn(e) == (e.addr + PAGE_SIZE - 1) \div PAGE_SIZE
EndPfn(e) == (e.addr + e.size) \div PAGE_SIZE

\* e820_find_active_region(): the entry has whole pages of RAM in window w...
Active(e, w) ==
  /\ FirstPfn(e) < EndPfn(e)
  /\ e.type = "RAM" /\ EndPfn(e) > w.start_pfn /\ FirstPfn(e) < w.end_pfn

\* ... namely these.
RangeIn(e, w) ==
  [nid |-> w.nid,
   start_pfn |-> Greater(FirstPfn(e), w.start_pfn),
   end_pfn |-> Smaller(EndPfn(e), w.end_pfn)]

\* How range r lies to entry a.
Covers(a, r) == r.start_pfn >= a.start_pfn /\ r.end_pfn <= a.end_pfn
MergesForward(a, r) == r.start_pfn <= a.end_pfn /\ r.end_pfn > a.end_pfn
MergesBackward(a, r) == r.start_pfn < a.end_pfn /\ r.end_pfn >= a.start_pfn

\* Variant: a range that an entry covers is not recognized.
add_active_range_covered(map, r) ==
  LET fits == {i \in DOMAIN map : map[i].nid = r.nid /\
                 (MergesForward(map[i], r) \/ MergesBackward(map[i], r))}
      i == Least(fits)
  IN IF fits = {} THEN IF Len(map) >= MAX_ACTIVE_REGIONS THEN map ELSE Append(map, r)
     ELSE IF MergesForward(map[i], r) THEN [map EXCEPT ![i].end_pfn = r.end_pfn]
     ELSE [map EXCEPT ![i].start_pfn = r.start_pfn]

\* The first entry of the same node that fits takes the range; otherwise it
\* becomes an entry, or is dropped when the table is full.
add_active_range(map, r) ==
  LET fits == {i \in DOMAIN map : map[i].nid = r.nid /\
                 (Covers(map[i], r) \/ MergesForward(map[i], r) \/ MergesBackward(map[i], r))}
      i == Least(fits)
  IN IF fits = {} THEN IF Len(map) >= MAX_ACTIVE_REGIONS THEN map ELSE Append(map, r)
     ELSE IF Covers(map[i], r) THEN map
     ELSE IF MergesForward(map[i], r) THEN [map EXCEPT ![i].end_pfn = r.end_pfn]
     ELSE [map EXCEPT ![i].start_pfn = r.start_pfn]

\* Window m against entry n.
Register ==
  /\ pc = "register" /\ m <= Len(Windows) /\ n <= Len(mye820)
  /\ early_node_map' = IF Active(mye820[n], Windows[m])
                       THEN add_active_range(early_node_map, RangeIn(mye820[n], Windows[m]))
                       ELSE early_node_map
  /\ n' = n + 1
  /\ UNCHANGED <<inputs, pc, nodemap, node_memblk_range, mye820, bootmem_regions, m, ret, runs>>

NextWindow ==
  /\ pc = "register" /\ m <= Len(Windows) /\ n > Len(mye820)
  /\ m' = m + 1 /\ n' = 1
  /\ UNCHANGED <<inputs, pc, nodemap, node_memblk_range, mye820, early_node_map, bootmem_regions, ret, runs>>

\* The orders of a map that sort() may leave it in (it is not stable).
Orders(map) ==
  {f \in [DOMAIN map -> DOMAIN map] :
     \A i, k \in DOMAIN map : i < k => /\ f[i] # f[k]
                                       /\ map[f[i]].start_pfn <= map[f[k]].start_pfn}

Sort ==
  /\ pc = "register" /\ m > Len(Windows)
  /\ \E f \in Orders(early_node_map) :
       early_node_map' = [i \in DOMAIN early_node_map |-> early_node_map[f[i]]]
  /\ pc' = "sorted"
  /\ UNCHANGED <<inputs, nodemap, node_memblk_range, mye820, bootmem_regions, m, n, ret, runs>>

-----------------------------------------------------------------------------
(* ioctl MEMORY_SET_MEM_INFO *)

SetMemInfo ==
  /\ pc = "sorted"
  /\ pc' = "generate" /\ m' = 1 /\ bootmem_regions' = <<>>
  /\ UNCHANGED <<inputs, nodemap, node_memblk_range, mye820, early_node_map, n, ret, runs>>

memLimit_pfn == memLimit \div PAGE_SIZE

\* Variant: a range that ends above the limit is read/write as a whole.
PartsUncut(a) ==
  LET Part(s, e, t) == [start_pfn |-> s, end_pfn |-> e, nid |-> a.nid, type |-> t]
  IN <<Part(a.start_pfn, a.end_pfn, IF a.end_pfn <= memLimit_pfn THEN MMTEST_RO ELSE MMTEST_RW)>>

\* Variant: what is below the limit of a range that is cut is left out.
PartsAbove(a) ==
  LET Part(s, e, t) == [start_pfn |-> s, end_pfn |-> e, nid |-> a.nid, type |-> t]
  IN IF a.end_pfn <= memLimit_pfn THEN <<Part(a.start_pfn, a.end_pfn, MMTEST_RO)>>
     ELSE <<Part(Greater(a.start_pfn, memLimit_pfn), a.end_pfn, MMTEST_RW)>>

\* The regions of one entry: it is cut at the limit.
Parts(a) ==
  LET Part(s, e, t) == [start_pfn |-> s, end_pfn |-> e, nid |-> a.nid, type |-> t]
  IN IF a.end_pfn <= memLimit_pfn THEN <<Part(a.start_pfn, a.end_pfn, MMTEST_RO)>>
     ELSE IF a.start_pfn >= memLimit_pfn THEN <<Part(a.start_pfn, a.end_pfn, MMTEST_RW)>>
     ELSE <<Part(a.start_pfn, memLimit_pfn, MMTEST_RO), Part(memLimit_pfn, a.end_pfn, MMTEST_RW)>>

GenerateRegion ==
  /\ pc = "generate" /\ m <= Len(early_node_map)
  /\ Len(bootmem_regions) + Len(Parts(early_node_map[m])) <= MAX_BOOTMEM_REGIONS
  /\ bootmem_regions' = bootmem_regions \o Parts(early_node_map[m])
  /\ m' = m + 1
  /\ UNCHANGED <<inputs, pc, nodemap, node_memblk_range, mye820, early_node_map, n, ret, runs>>

\* "Too many regions": the first part may still have found a place.  The ioctl
\* does not look at the -1.
TooManyRegions ==
  /\ pc = "generate" /\ m <= Len(early_node_map)
  /\ LET parts == Parts(early_node_map[m])
         room == MAX_BOOTMEM_REGIONS - Len(bootmem_regions)
     IN /\ room < Len(parts)
        /\ bootmem_regions' = bootmem_regions \o SubSeq(parts, 1, room)
  /\ ret' = -1 /\ pc' = "testing"
  /\ UNCHANGED <<inputs, nodemap, node_memblk_range, mye820, early_node_map, m, n, runs>>

Generated ==
  /\ pc = "generate" /\ m > Len(early_node_map)
  /\ ret' = 0 /\ pc' = "testing"
  /\ UNCHANGED <<inputs, nodemap, node_memblk_range, mye820, early_node_map, bootmem_regions, m, n, runs>>

\* The program reads the regions, tests them and ends.
ProgramEnds ==
  /\ pc = "testing"
  /\ pc' = "ready"
  /\ UNCHANGED <<inputs, nodemap, node_memblk_range, mye820, early_node_map, bootmem_regions, m, n, ret, runs>>

Init ==
  /\ srat \in Srats /\ firmware \in Firmwares /\ memLimit \in MemLimits
  /\ pc = "cpus"
  /\ pxm_to_node_map = [p \in PXM |-> NID_INVAL] /\ nodes_found_map = {}
  /\ node_memblk_range = <<>> /\ mye820 = <<>> /\ early_node_map = <<>> /\ bootmem_regions = <<>>
  /\ m = 1 /\ n = 1 /\ ret = 0 /\ runs = 0

Load == ParseProcessorAffinity \/ ProcessorsParsed \/ ParseMemoryAffinity \/ Loaded
SetE820 == SetE820Info \/ Register \/ NextWindow \/ Sort
SetLimit == SetMemInfo \/ GenerateRegion \/ TooManyRegions \/ Generated

Next == Load \/ SetE820 \/ SetLimit \/ ProgramEnds

Spec == Init /\ [][Next]_vars

-----------------------------------------------------------------------------
\* The elements of a table.
Seqs(map) == {map[i] : i \in DOMAIN map}

TypeOK ==
  /\ srat \in Srats /\ firmware \in Firmwares /\ memLimit \in MemLimits
  /\ pc \in {"cpus", "memory", "ready", "register", "sorted", "generate", "testing"}
  /\ pxm_to_node_map \in [PXM -> Node \cup {NID_INVAL}] /\ nodes_found_map \subseteq Node
  /\ node_memblk_range \in Seq(Memblk)
  /\ Len(node_memblk_range) <= NR_NODE_MEMBLKS
  /\ mye820 \in Seq(E820Record)
  /\ early_node_map \in Seq(ActiveRegion)
  /\ Len(early_node_map) <= MAX_ACTIVE_REGIONS
  /\ bootmem_regions \in Seq(Region)
  /\ Len(bootmem_regions) <= MAX_BOOTMEM_REGIONS
  /\ m \in Nat \ {0} /\ n \in Nat \ {0} /\ ret \in {0, -1} /\ runs \in Nat

Pages(r) == r.start_pfn..(r.end_pfn - 1)

\* All bytes of page p are RAM of firmware entry f.
HasPage(f, p) == f.type = "RAM" /\ f.start <= p * PAGE_SIZE /\ (p + 1) * PAGE_SIZE <= f.end + 1

RamPage(p) == \E i \in Counted(firmware) : HasPage(firmware[i], p)

InWindow(p, nid) == \E i \in DOMAIN Windows : Windows[i].nid = nid /\ p \in Pages(Windows[i])

\* Only memory is offered for testing: whatever the SRAT says, every page of a
\* region is a whole page of RAM, and belongs to the node of the region.
OnlyRam ==
  \A r \in Seqs(bootmem_regions) : \A p \in Pages(r) : RamPage(p) /\ InWindow(p, r.nid)

\* The memory the kernel runs in is never written: a read/write region lies
\* above the limit, on every run.
KernelUntouched ==
  \A r \in Seqs(bootmem_regions) :
    IF r.type = MMTEST_RW THEN r.start_pfn >= memLimit_pfn ELSE r.end_pfn <= memLimit_pfn

Disjoint(a, b) == a.end <= b.start \/ b.end <= a.start

\* What a sane firmware map says: no entry is shorter than two bytes (the map loses as
\* many at its end as it has of those), and none overlaps another...
FirmwareSane ==
  /\ \A i \in DOMAIN firmware : firmware[i].start < firmware[i].end
  /\ \A i, k \in DOMAIN firmware :
       i # k => firmware[i].end < firmware[k].start \/ firmware[k].end < firmware[i].start

\* ... and what a sane SRAT says: its blocks do not overlap.
BlocksDisjoint ==
  \A i, k \in DOMAIN node_memblk_range :
    i # k => Disjoint(node_memblk_range[i], node_memblk_range[k])

Sane == FirmwareSane /\ BlocksDisjoint

\* Both may list what they have by address, ...
Ascending ==
  /\ \A i, k \in DOMAIN firmware : i < k => firmware[i].end < firmware[k].start
  /\ \A i, k \in DOMAIN node_memblk_range :
       i < k => node_memblk_range[i].end <= node_memblk_range[k].start

\* ... and no block may end in the page it starts in.
BlocksHavePages ==
  \A b \in Seqs(node_memblk_range) : b.start \div PAGE_SIZE < b.end \div PAGE_SIZE

\* No memory is left out: unless a table was full, every whole page of RAM of a
\* node is in a region of that node, in whatever order entries and blocks are listed
\* and however often the program has run.
AllRamListed ==
  pc = "testing" /\ ret = 0 /\ Len(early_node_map) < MAX_ACTIVE_REGIONS /\ Sane =>
    \A i \in DOMAIN Windows : \A p \in Pages(Windows[i]) :
      RamPage(p) => \E r \in Seqs(bootmem_regions) : r.nid = Windows[i].nid /\ p \in Pages(r)

\* No page is tested by two threads at once: the regions are not empty, sorted and
\* disjoint.  When entries and blocks are not listed by address, this is promised for
\* the first run only: ranges that are not merged then overlap on the next.
RegionsDisjoint ==
  pc = "testing" /\ Sane /\ BlocksHavePages /\ (runs = 1 \/ Ascending) =>
    /\ \A r \in Seqs(bootmem_regions) : r.start_pfn < r.end_pfn
    /\ \A i \in 1..(Len(bootmem_regions) - 1) :
         bootmem_regions[i].end_pfn <= bootmem_regions[i + 1].start_pfn

\* The tables are never reset, yet another run of the program finds every range
\* there and adds nothing.
RerunAddsNothing ==
  [][runs > 1 /\ Sane /\ BlocksHavePages /\ Ascending => early_node_map' = early_node_map]_vars

\* Testing a region harms nothing: its pages are RAM of its node and none that
\* is written to is one of the running kernel, on any run of the program, whose
\* tables the runs before have left behind (numa.c:102), and no table outgrows its
\* size when a region that is cut has room for one part only (numa.c:172).
RegionsSafe == TypeOK /\ OnlyRam /\ KernelUntouched

\* And nothing is left out or given to two threads, in whatever order the
\* firmware lists its blocks.
RegionsComplete == AllRamListed /\ RegionsDisjoint
-----------------------------------------------------------------------------
(* The inductive invariant behind OnlyRam and KernelUntouched. *)

\* Nothing was registered while blocks are still added, and what is registered
\* comes from the firmware's map: the windows it lies in stay as they are.
Tables ==
  /\ pc = "cpus" => node_memblk_range = <<>>
  /\ pc = "memory" => Len(node_memblk_range) < m
  /\ \/ early_node_map = <<>> /\ bootmem_regions = <<>>
     \/ mye820 = E820Map(firmware) /\ pc \notin {"cpus", "memory"}
  /\ pc = "register" => mye820 = E820Map(firmware)

\* What OnlyRam says of the regions holds of the registered ranges they are cut from.
RangesRam ==
  \A r \in Seqs(early_node_map) : \A p \in Pages(r) : RamPage(p) /\ InWindow(p, r.nid)

IInv == TypeOK /\ Tables /\ RangesRam /\ OnlyRam /\ KernelUntouched

-----------------------------------------------------------------------------
(* The inductive invariant behind RegionsComplete and RerunAddsNothing. *)

\* What is registered for entry k and window i, and whether that has been done.
Piece(i, k) == RangeIn(mye820[k], Windows[i])
Live == {q \in (DOMAIN Windows) \X (DOMAIN mye820) : Active(mye820[q[2]], Windows[q[1]])}
Registered(q) ==
  runs > 0 /\ (pc = "register" /\ runs = 1 => q[1] < m \/ (q[1] = m /\ q[2] < n))
LivePieces == {Piece(q[1], q[2]) : q \in Live}
RegisteredPieces == {Piece(q[1], q[2]) : q \in {x \in Live : Registered(x)}}

Holds(r) == \E a \in Seqs(early_node_map) : a.nid = r.nid /\ Covers(a, r)

\* The map has been read once a run has begun, and sorted when the limit is set.
Phase ==
  /\ \A b \in Seqs(node_memblk_range) : b.start <= b.end
  /\ runs = 0 => early_node_map = <<>>
  /\ runs > 0 => mye820 = E820Map(firmware) /\ pc \notin {"cpus", "memory"}
  /\ pc \in {"register", "sorted", "generate", "testing"} => runs > 0
  /\ pc \in {"sorted", "generate", "testing"} =>
       \A i, k \in DOMAIN early_node_map : i < k => early_node_map[i].start_pfn <= early_node_map[k].start_pfn

\* Registering loses no piece: an entry holds one already, so that none surrounds it.
NothingLost ==
  Sane /\ Len(early_node_map) < MAX_ACTIVE_REGIONS =>
    /\ \A r \in RegisteredPieces : Holds(r)
    /\ \A a \in Seqs(early_node_map) : \E r \in LivePieces : Covers(a, r)

\* Entries are made of what is registered, and disjoint.
EntriesDisjoint ==
  Sane /\ BlocksHavePages /\ (runs <= 1 \/ Ascending) =>
    /\ \A a \in Seqs(early_node_map) :
         /\ a.start_pfn < a.end_pfn
         /\ \A p \in Pages(a) : \E r \in RegisteredPieces : p \in Pages(r)
    /\ \A i, k \in DOMAIN early_node_map :
         i # k => Pages(early_node_map[i]) \cap Pages(early_node_map[k]) = {}

\* Listed by address, entries of a node do not even touch, and a piece that found the
\* table full touches none.
EntriesApart ==
  Sane /\ BlocksHavePages /\ Ascending =>
    /\ \A i, k \in DOMAIN early_node_map : i < k =>
         /\ early_node_map[i].end_pfn <= early_node_map[k].start_pfn
         /\ early_node_map[i].nid = early_node_map[k].nid =>
              early_node_map[i].end_pfn < early_node_map[k].start_pfn
    /\ \A r \in RegisteredPieces :
         \/ Holds(r)
         \/ /\ Len(early_node_map) >= MAX_ACTIVE_REGIONS
            /\ \A a \in Seqs(early_node_map) :
                 a.nid = r.nid => a.end_pfn < r.start_pfn \/ r.end_pfn < a.start_pfn

\* The entries cut so far are in the regions.
RegionsSoFar ==
  pc = "generate" \/ (pc = "testing" /\ ret = 0) =>
    \A i \in DOMAIN early_node_map : pc = "testing" \/ i < m =>
      \A p \in Pages(early_node_map[i]) :
        \E r \in Seqs(bootmem_regions) : r.nid = early_node_map[i].nid /\ p \in Pages(r)

\* The regions are disjoint, and end before what is still to be cut.
RegionsSorted ==
  pc \in {"generate", "testing"} /\ Sane /\ BlocksHavePages /\ (runs <= 1 \/ Ascending) =>
    /\ \A r \in Seqs(bootmem_regions) : r.start_pfn < r.end_pfn
    /\ \A i, k \in DOMAIN bootmem_regions :
         i < k => bootmem_regions[i].end_pfn <= bootmem_regions[k].start_pfn
    /\ pc = "generate" =>
         \A r \in Seqs(bootmem_regions), k \in DOMAIN early_node_map :
           k >= m => r.end_pfn <= early_node_map[k].start_pfn

CompleteIInv ==
  IInv /\ Phase /\ NothingLost /\ EntriesDisjoint /\ EntriesApart /\ RegionsSoFar /\ RegionsSorted
=============================================================================
