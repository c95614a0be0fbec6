------------------------ MODULE BootmemRegionsProofs ------------------------
(***************************************************************************)
(* For every SRAT, firmware map, limit and table size: the driver offers   *)
(* RAM only, and nothing below the limit for writing.  A range that        *)
(* add_active_range() changes is made of pages of the range it was and of  *)
(* the new one (AddedPages); the rest of a step follows from the pages of  *)
(* one e820 entry (EntryPages) and of one window (RangeInPages).           *)
(*                                                                         *)
(* And, of tables that are sane: all whole pages of RAM are offered, once. *)
(* What is registered for an entry and a window, a piece, overlaps no      *)
(* other (PiecesApart); entries only grow (AddLosesNothing), so that each  *)
(* piece stays in one, and they are made of pieces, so that they stay      *)
(* disjoint.  Listed by address, pieces come in order: an entry takes the  *)
(* next one or is left behind for good, and the next run finds each piece  *)
(* where it is (RerunFits) and nothing to sort (IncreasingIsIdentity).     *)
(***************************************************************************)
EXTENDS BootmemRegions, SequenceTheorems, FiniteSetTheorems, WellFoundedInduction, TLAPS

(* Arithmetic. *)

\* What division with remainder gives.
LEMMA DivMod ==
  ASSUME NEW a \in Nat, NEW b \in Nat \ {0}
  PROVE  /\ a \div b \in Nat /\ a % b \in 0..(b - 1)
         /\ a = b * (a \div b) + (a % b)
OBVIOUS

\* Multiplication is monotonic.
LEMMA Mono ==
  ASSUME NEW a \in Nat, NEW b \in Nat, NEW c \in Nat, a <= b
  PROVE  a * c <= b * c
OBVIOUS

\* A page below the quotient, rounded down, ends within a.
LEMMA PageEnds ==
  ASSUME NEW a \in Nat, NEW b \in Nat \ {0}, NEW p \in Nat, p + 1 <= a \div b
  PROVE  (p + 1) * b <= a
<1> DEFINE q == a \div b
<1>1. q \in Nat /\ a >= b * q BY DivMod
<1> HIDE DEF q
<1>2. (p + 1) * b <= q * b BY <1>1, Mono, p + 1 <= q DEF q
<1>3. q * b = b * q BY <1>1
<1> QED BY <1>1, <1>2, <1>3

\* A page from the quotient, rounded up, begins at or after a.
LEMMA PageBegins ==
  ASSUME NEW a \in Nat, NEW b \in Nat \ {0}, NEW p \in Nat, p >= (a + b - 1) \div b
  PROVE  a <= p * b
<1> DEFINE q == (a + b - 1) \div b
<1>1. a + b - 1 \in Nat OBVIOUS
<1>2. q \in Nat /\ a + b - 1 <= b * q + (b - 1) BY <1>1, DivMod
<1> HIDE DEF q
<1>3. q * b <= p * b BY <1>2, Mono, p >= q DEF q
<1>4. q * b = b * q BY <1>2
<1>5. b * q \in Nat /\ p * b \in Nat BY <1>2
<1> QED BY <1>2, <1>3, <1>4, <1>5

\* Least() finds the least element.
LEMMA LeastIn ==
  ASSUME NEW S \in SUBSET Nat, S # {}
  PROVE  Least(S) \in S /\ \A y \in S : Least(S) <= y
<1>1. \E x \in S : \A y \in S : ~(<<y, x>> \in OpToRel(<, Nat))
  BY NatLessThanWellFounded, WFMin, Zenon
<1>2. \A x \in S : \A y \in S : ~(<<y, x>> \in OpToRel(<, Nat)) => x <= y
  BY DEF OpToRel
<1>3. \E x \in S : \A y \in S : x <= y
  BY <1>1, <1>2
<1> QED BY <1>3 DEF Least

-----------------------------------------------------------------------------
(* Loading. *)

\* A block gets a node, or none.
LEMMA NodeForType ==
  ASSUME TypeOK, NEW p \in PXM
  PROVE  NodeFor(p) \in Node \cup {NID_INVAL}
<1>1. CASE pxm_to_node_map[p] >= 0
  BY <1>1 DEF TypeOK, NodeFor, NID_INVAL, Node
<1>2. CASE Node \subseteq nodes_found_map
  BY <1>2 DEF TypeOK, NodeFor, NID_INVAL, Node
<1>3. CASE ~(pxm_to_node_map[p] >= 0) /\ ~(Node \subseteq nodes_found_map)
  <2>1. Node \ nodes_found_map \in SUBSET Nat /\ Node \ nodes_found_map # {}
    BY <1>3 DEF Node
  <2> QED BY <1>3, <2>1, LeastIn DEF NodeFor
<1> QED BY <1>1, <1>2, <1>3

\* setup_node() keeps the maps of nodes well typed.
LEMMA SetupNodeType ==
  ASSUME TypeOK, NEW p \in PXM, setup_node(p)
  PROVE  pxm_to_node_map' \in [PXM -> Node \cup {NID_INVAL}] /\ nodes_found_map' \subseteq Node
BY NodeForType DEF TypeOK, setup_node, nodemap

-----------------------------------------------------------------------------
(* Registering. *)

\* The number of entries that count is a number.
LEMMA CountedFinite ==
  ASSUME NEW fw \in Seq(FirmwareEntry)
  PROVE  Cardinality(Counted(fw)) \in Nat
<1>1. Counted(fw) \in SUBSET (1..Len(fw)) /\ Len(fw) \in Nat
  BY DEF Counted
<1>2. IsFiniteSet(1..Len(fw)) BY <1>1, FS_Interval
<1>3. IsFiniteSet(Counted(fw)) BY <1>1, <1>2, FS_Subset
<1> QED BY <1>3, FS_CardinalityType

\* The map the program hands over is a sequence of entries.
LEMMA E820MapType ==
  ASSUME NEW fw \in Seq(FirmwareEntry)
  PROVE  /\ E820Map(fw) \in Seq(E820Record)
         /\ \A i \in 1..Len(E820Map(fw)) : E820Map(fw)[i] = E820Entry(fw, i)
<1> DEFINE c == Cardinality(Counted(fw))
<1>1. c \in Nat BY CountedFinite
<1>2. ASSUME NEW i \in 1..c PROVE E820Entry(fw, i) \in E820Record
  <2> HIDE DEF c
  <2>1. CASE i \in Counted(fw)
    <3>1. fw[i] \in FirmwareEntry /\ fw[i].end > fw[i].start BY <2>1 DEF Counted
    <3>2. fw[i].end - fw[i].start + 1 \in Nat BY <3>1 DEF FirmwareEntry
    <3> QED BY <2>1, <3>1, <3>2 DEF E820Entry, E820Record, FirmwareEntry
  <2>2. CASE i \notin Counted(fw) BY <2>2 DEF E820Entry, E820Record, Type
  <2> QED BY <2>1, <2>2
<1> HIDE DEF c
<1>3. [i \in 1..c |-> E820Entry(fw, i)] \in [1..c -> E820Record] BY <1>2
<1>4. [i \in 1..c |-> E820Entry(fw, i)] \in Seq(E820Record)
      /\ Len([i \in 1..c |-> E820Entry(fw, i)]) = c
  BY <1>1, <1>3, SeqDef
<1> QED BY <1>4 DEF E820Map, c

\* So are the windows.
LEMMA WindowsType ==
  ASSUME TypeOK
  PROVE  Windows \in Seq(ActiveRegion)
<1>1. CASE node_memblk_range # <<>>
  <2> DEFINE w(i) == [nid |-> node_memblk_range[i].nid,
                      start_pfn |-> node_memblk_range[i].start \div PAGE_SIZE,
                      end_pfn |-> node_memblk_range[i].end \div PAGE_SIZE]
             k == Len(node_memblk_range)
  <2>1. k \in Nat /\ DOMAIN node_memblk_range = 1..k BY DEF TypeOK
  <2>2. ASSUME NEW i \in 1..k PROVE w(i) \in ActiveRegion
    <3>1. node_memblk_range[i] \in Memblk BY <2>1 DEF TypeOK
    <3>2. w(i).start_pfn \in Nat /\ w(i).end_pfn \in Nat
      BY <3>1, DivMod, SizeAssumption DEF Memblk
    <3> QED BY <3>1, <3>2 DEF Memblk, ActiveRegion
  <2>3. Windows = [i \in 1..k |-> w(i)] BY <1>1, <2>1 DEF Windows
  <2> HIDE DEF w
  <2> QED BY <2>1, <2>2, <2>3, SeqDef
<1>2. CASE node_memblk_range = <<>>
  <2> DEFINE w(i) == [nid |-> 0,
                      start_pfn |-> mye820[i].addr \div PAGE_SIZE,
                      end_pfn |-> (mye820[i].addr + mye820[i].size) \div PAGE_SIZE]
             k == Len(mye820)
  <2>1. k \in Nat /\ DOMAIN mye820 = 1..k BY DEF TypeOK
  <2>2. ASSUME NEW i \in 1..k PROVE w(i) \in ActiveRegion
    <3>1. mye820[i] \in E820Record BY <2>1 DEF TypeOK
    <3>2. mye820[i].addr \in Nat /\ mye820[i].addr + mye820[i].size \in Nat BY <3>1 DEF E820Record
    <3>3. w(i).start_pfn \in Nat /\ w(i).end_pfn \in Nat BY <3>2, DivMod, SizeAssumption
    <3> QED BY <3>3, SizeAssumption DEF ActiveRegion, Node
  <2>3. Windows = [i \in 1..k |-> w(i)] BY <1>2, <2>1 DEF Windows
  <2> HIDE DEF w
  <2> QED BY <2>1, <2>2, <2>3, SeqDef
<1> QED BY <1>1, <1>2

\* The pages of an entry have numbers.
LEMMA PfnType ==
  ASSUME NEW e \in E820Record
  PROVE  FirstPfn(e) \in Nat /\ EndPfn(e) \in Nat
<1>1. e.addr + PAGE_SIZE - 1 \in Nat /\ e.addr + e.size \in Nat
  BY SizeAssumption DEF E820Record
<1> QED BY <1>1, DivMod, SizeAssumption DEF FirstPfn, EndPfn

\* The pages of an entry of RAM are whole pages of RAM of the firmware's map.
LEMMA EntryPages ==
  ASSUME NEW fw \in Seq(FirmwareEntry), NEW i \in 1..Cardinality(Counted(fw)),
         E820Entry(fw, i).type = "RAM",
         NEW p \in Nat, FirstPfn(E820Entry(fw, i)) <= p, p + 1 <= EndPfn(E820Entry(fw, i))
  PROVE  i \in Counted(fw) /\ HasPage(fw[i], p)
<1>1. i \in Counted(fw) BY DEF E820Entry
<1>2. fw[i] \in FirmwareEntry /\ fw[i].end > fw[i].start BY <1>1 DEF Counted
<1>3. fw[i].start \in Nat /\ fw[i].end \in Nat BY <1>2 DEF FirmwareEntry
<1>4. E820Entry(fw, i) = [addr |-> fw[i].start, size |-> fw[i].end - fw[i].start + 1, type |-> fw[i].type]
  BY <1>1 DEF E820Entry
<1>5. fw[i].type = "RAM" BY <1>4
<1>6. (fw[i].start + PAGE_SIZE - 1) \div PAGE_SIZE <= p BY <1>4 DEF FirstPfn
<1>7. fw[i].start <= p * PAGE_SIZE BY <1>3, <1>6, PageBegins, SizeAssumption
<1>8. p + 1 <= (fw[i].end + 1) \div PAGE_SIZE
  <2>1. fw[i].start + (fw[i].end - fw[i].start + 1) = fw[i].end + 1 BY <1>3
  <2> QED BY <1>4, <2>1 DEF EndPfn
<1>9. (p + 1) * PAGE_SIZE <= fw[i].end + 1
  <2>1. fw[i].end + 1 \in Nat BY <1>3
  <2> QED BY <2>1, <1>8, PageEnds, SizeAssumption
<1> QED BY <1>1, <1>5, <1>7, <1>9 DEF HasPage

\* What is registered for a window is in the entry and in the window.
LEMMA RangeInPages ==
  ASSUME NEW e \in E820Record, NEW w \in ActiveRegion
  PROVE  /\ RangeIn(e, w) \in ActiveRegion /\ RangeIn(e, w).nid = w.nid
         /\ \A p \in Pages(RangeIn(e, w)) :
              /\ p \in Nat /\ FirstPfn(e) <= p /\ p + 1 <= EndPfn(e)
              /\ p \in Pages(w)
BY PfnType DEF RangeIn, ActiveRegion, Pages, Greater, Smaller

\* What add_active_range() does to one entry.
LEMMA MergedPages ==
  ASSUME NEW a \in ActiveRegion, NEW r \in ActiveRegion, a.nid = r.nid, ~Covers(a, r)
  PROVE  /\ [a EXCEPT !.end_pfn = r.end_pfn] \in ActiveRegion
         /\ [a EXCEPT !.start_pfn = r.start_pfn] \in ActiveRegion
         /\ MergesForward(a, r) =>
              Pages([a EXCEPT !.end_pfn = r.end_pfn]) \subseteq Pages(a) \cup Pages(r)
         /\ MergesBackward(a, r) =>
              Pages([a EXCEPT !.start_pfn = r.start_pfn]) \subseteq Pages(a) \cup Pages(r)
BY DEF Covers, MergesForward, MergesBackward, Pages, ActiveRegion

\* Every entry of the new map has an old entry or the new range for each page.
LEMMA AddedPages ==
  ASSUME NEW map \in Seq(ActiveRegion), NEW r \in ActiveRegion, Len(map) <= MAX_ACTIVE_REGIONS
  PROVE  LET new == add_active_range(map, r)
         IN /\ new \in Seq(ActiveRegion) /\ Len(new) <= MAX_ACTIVE_REGIONS
            /\ \A a \in Seqs(new) : \A p \in Pages(a) :
                 \E b \in Seqs(map) \cup {r} : b.nid = a.nid /\ p \in Pages(b)
<1> DEFINE new == add_active_range(map, r)
           fits == {i \in DOMAIN map : map[i].nid = r.nid /\
                     (Covers(map[i], r) \/ MergesForward(map[i], r) \/ MergesBackward(map[i], r))}
           i == Least(fits)
           From(s) == \A a \in Seqs(s) : \A p \in Pages(a) :
                        \E b \in Seqs(map) \cup {r} : b.nid = a.nid /\ p \in Pages(b)
<1> SUFFICES new \in Seq(ActiveRegion) /\ Len(new) <= MAX_ACTIVE_REGIONS /\ From(new)
  OBVIOUS
<1>1. From(map) BY DEF Seqs
<1>2. CASE fits = {}
  <2>1. CASE Len(map) >= MAX_ACTIVE_REGIONS
    <3>1. new = map BY <1>2, <2>1 DEF add_active_range
    <3> QED BY <1>1, <3>1
  <2>2. CASE ~(Len(map) >= MAX_ACTIVE_REGIONS)
    <3>1. new = Append(map, r) BY <1>2, <2>2 DEF add_active_range
    <3>2. Seqs(Append(map, r)) \subseteq Seqs(map) \cup {r} BY DEF Seqs
    <3>3. From(Append(map, r)) BY <3>2
    <3>4. Append(map, r) \in Seq(ActiveRegion) /\ Len(Append(map, r)) = Len(map) + 1
      BY AppendProperties
    <3>5. Len(map) \in Nat /\ MAX_ACTIVE_REGIONS \in Nat BY SizeAssumption
    <3> HIDE DEF new, From
    <3> QED BY <2>2, <3>1, <3>3, <3>4, <3>5
  <2> QED BY <2>1, <2>2
<1>3. CASE fits # {}
  <2>1. fits \in SUBSET Nat BY DEF Seqs
  <2>2. i \in fits BY <1>3, <2>1, LeastIn
  <2>3. i \in 1..Len(map) /\ map[i] \in ActiveRegion /\ map[i].nid = r.nid BY <2>2
  <2>4. Covers(map[i], r) \/ MergesForward(map[i], r) \/ MergesBackward(map[i], r) BY <2>2
  <2>5. new = IF Covers(map[i], r) THEN map
              ELSE IF MergesForward(map[i], r) THEN [map EXCEPT ![i].end_pfn = r.end_pfn]
              ELSE [map EXCEPT ![i].start_pfn = r.start_pfn]
    BY <1>3 DEF add_active_range
  <2> HIDE DEF i, fits, new
  <2>6. ASSUME NEW x \in ActiveRegion, x.nid = r.nid, Pages(x) \subseteq Pages(map[i]) \cup Pages(r)
        PROVE  LET s == [map EXCEPT ![i] = x]
               IN s \in Seq(ActiveRegion) /\ Len(s) = Len(map) /\ From(s)
    <3> DEFINE s == [map EXCEPT ![i] = x]
    <3>1. s \in Seq(ActiveRegion) /\ Len(s) = Len(map)
          /\ \A j \in 1..Len(map) : s[j] = IF j = i THEN x ELSE map[j]
      BY <2>3, <2>6, ExceptSeq
    <3>2. DOMAIN s = 1..Len(map) /\ DOMAIN map = 1..Len(map) BY <2>3
    <3> HIDE DEF s
    <3>3. From(s)
      <4> SUFFICES ASSUME NEW j \in 1..Len(map), NEW p \in Pages(s[j])
                   PROVE \E b \in Seqs(map) \cup {r} : b.nid = s[j].nid /\ p \in Pages(b)
        BY <3>2 DEF Seqs
      <4>1. CASE j = i BY <4>1, <2>3, <2>6, <3>1, <3>2 DEF Seqs
      <4>2. CASE j # i BY <4>2, <3>1, <3>2 DEF Seqs
      <4> QED BY <4>1, <4>2
    <3> QED BY <3>1, <3>3 DEF s
  <2>7. CASE Covers(map[i], r) BY <1>1, <2>5, <2>7
  <2>8. CASE ~Covers(map[i], r) /\ MergesForward(map[i], r)
    <3> DEFINE x == [map[i] EXCEPT !.end_pfn = r.end_pfn]
    <3>1. new = [map EXCEPT ![i] = x] BY <2>5, <2>8
    <3>2. x \in ActiveRegion /\ x.nid = r.nid BY <2>3 DEF ActiveRegion
    <3>3. Pages(x) \subseteq Pages(map[i]) \cup Pages(r) BY <2>3, <2>8, MergedPages
    <3> HIDE DEF x
    <3> QED BY <2>6, <3>1, <3>2, <3>3
  <2>9. CASE ~Covers(map[i], r) /\ ~MergesForward(map[i], r)
    <3> DEFINE x == [map[i] EXCEPT !.start_pfn = r.start_pfn]
    <3>1. new = [map EXCEPT ![i] = x] BY <2>5, <2>9
    <3>2. x \in ActiveRegion /\ x.nid = r.nid BY <2>3 DEF ActiveRegion
    <3>3. Pages(x) \subseteq Pages(map[i]) \cup Pages(r) BY <2>3, <2>4, <2>9, MergedPages
    <3> HIDE DEF x
    <3> QED BY <2>6, <3>1, <3>2, <3>3
  <2> QED BY <2>7, <2>8, <2>9
<1> QED BY <1>2, <1>3

\* One step of the registration keeps to RAM.
LEMMA RegisterStep ==
  ASSUME TypeOK, Tables, RangesRam, Register
  PROVE  /\ early_node_map' \in Seq(ActiveRegion) /\ Len(early_node_map') <= MAX_ACTIVE_REGIONS
         /\ \A a \in Seqs(early_node_map') : \A p \in Pages(a) : RamPage(p) /\ InWindow(p, a.nid)
<1> DEFINE e == mye820[n]
           w == Windows[m]
           r == RangeIn(e, w)
<1>1. early_node_map \in Seq(ActiveRegion) /\ Len(early_node_map) <= MAX_ACTIVE_REGIONS
  BY DEF TypeOK
<1>2. CASE ~Active(e, w)
  <2>1. early_node_map' = early_node_map BY <1>2 DEF Register
  <2> QED BY <1>1, <2>1 DEF RangesRam
<1>3. CASE Active(e, w)
  <2>1. early_node_map' = add_active_range(early_node_map, r) BY <1>3 DEF Register
  <2>2. /\ m \in 1..Len(Windows) /\ n \in 1..Len(mye820) /\ firmware \in Seq(FirmwareEntry)
        /\ mye820 = E820Map(firmware)
    BY InputAssumption DEF TypeOK, Tables, Register
  <2>3. w \in ActiveRegion BY <2>2, WindowsType, ElementOfSeq
  <2>4. e \in E820Record /\ e = E820Entry(firmware, n) /\ n \in 1..Cardinality(Counted(firmware))
    <3>1. Len(mye820) = Cardinality(Counted(firmware))
      <4>1. Cardinality(Counted(firmware)) \in Nat BY <2>2, CountedFinite
      <4> QED BY <2>2, <4>1 DEF E820Map
    <3>2. e \in E820Record BY <2>2, ElementOfSeq DEF TypeOK
    <3> QED BY <2>2, <3>1, <3>2, E820MapType
  <2>5. r \in ActiveRegion /\ r.nid = w.nid BY <2>3, <2>4, RangeInPages
  <2>6. ASSUME NEW p \in Pages(r) PROVE RamPage(p) /\ InWindow(p, r.nid)
    <3>1. p \in Nat /\ FirstPfn(e) <= p /\ p + 1 <= EndPfn(e) /\ p \in Pages(w)
      BY <2>3, <2>4, RangeInPages
    <3>2. e.type = "RAM" BY <1>3 DEF Active
    <3>3. n \in Counted(firmware) /\ HasPage(firmware[n], p)
      <4> HIDE DEF e
      <4> QED BY <2>2, <2>4, <3>1, <3>2, EntryPages
    <3>4. m \in DOMAIN Windows BY <2>2, WindowsType
    <3> HIDE DEF r
    <3> QED BY <2>5, <3>1, <3>3, <3>4 DEF RamPage, InWindow
  <2> HIDE DEF r
  <2>7. /\ early_node_map' \in Seq(ActiveRegion) /\ Len(early_node_map') <= MAX_ACTIVE_REGIONS
        /\ \A a \in Seqs(early_node_map') : \A p \in Pages(a) :
             \E b \in Seqs(early_node_map) \cup {r} : b.nid = a.nid /\ p \in Pages(b)
    BY <1>1, <2>1, <2>5, AddedPages
  <2> QED BY <2>6, <2>7 DEF RangesRam
<1> QED BY <1>2, <1>3

-----------------------------------------------------------------------------
(* Generating. *)

\* The parts of a range are made of its pages, on their side of the limit.
LEMMA PartsPages ==
  ASSUME NEW a \in ActiveRegion, NEW lim \in Nat, lim = memLimit_pfn
  PROVE  /\ Parts(a) \in Seq(Region) /\ Len(Parts(a)) \in 1..2
         /\ \A r \in Seqs(Parts(a)) :
              /\ r.nid = a.nid /\ Pages(r) \subseteq Pages(a)
              /\ IF r.type = MMTEST_RW THEN r.start_pfn >= memLimit_pfn ELSE r.end_pfn <= memLimit_pfn
<1> DEFINE P(s, e, t) == [start_pfn |-> s, end_pfn |-> e, nid |-> a.nid, type |-> t]
<1> USE DEF ActiveRegion
<1>1. \A s, e \in Nat : P(s, e, MMTEST_RO) \in Region /\ P(s, e, MMTEST_RW) \in Region
  BY DEF Region
<1>2. CASE a.end_pfn <= lim
  <2>1. Parts(a) = <<P(a.start_pfn, a.end_pfn, MMTEST_RO)>> BY <1>2 DEF Parts
  <2>2. \A r \in Seqs(Parts(a)) : r = P(a.start_pfn, a.end_pfn, MMTEST_RO) BY <2>1 DEF Seqs
  <2>3. Parts(a) \in Seq(Region) /\ Len(Parts(a)) = 1
    <3>1. P(a.start_pfn, a.end_pfn, MMTEST_RO) \in Region BY <1>1
    <3> HIDE DEF P
    <3> QED BY <2>1, <3>1
  <2>4. LET r == P(a.start_pfn, a.end_pfn, MMTEST_RO)
        IN /\ r.nid = a.nid /\ Pages(r) \subseteq Pages(a)
           /\ IF r.type = MMTEST_RW THEN r.start_pfn >= memLimit_pfn ELSE r.end_pfn <= memLimit_pfn
    BY <1>2 DEF Pages, MMTEST_RO, MMTEST_RW
  <2> HIDE DEF P
  <2> QED BY <2>2, <2>3, <2>4
<1>3. CASE ~(a.end_pfn <= lim) /\ a.start_pfn >= lim
  <2>1. Parts(a) = <<P(a.start_pfn, a.end_pfn, MMTEST_RW)>> BY <1>3 DEF Parts
  <2>2. \A r \in Seqs(Parts(a)) : r = P(a.start_pfn, a.end_pfn, MMTEST_RW) BY <2>1 DEF Seqs
  <2>3. Parts(a) \in Seq(Region) /\ Len(Parts(a)) = 1
    <3>1. P(a.start_pfn, a.end_pfn, MMTEST_RW) \in Region BY <1>1
    <3> HIDE DEF P
    <3> QED BY <2>1, <3>1
  <2>4. LET r == P(a.start_pfn, a.end_pfn, MMTEST_RW)
        IN /\ r.nid = a.nid /\ Pages(r) \subseteq Pages(a)
           /\ IF r.type = MMTEST_RW THEN r.start_pfn >= memLimit_pfn ELSE r.end_pfn <= memLimit_pfn
    BY <1>3 DEF Pages, MMTEST_RO, MMTEST_RW
  <2> HIDE DEF P
  <2> QED BY <2>2, <2>3, <2>4
<1>4. CASE ~(a.end_pfn <= lim) /\ ~(a.start_pfn >= lim)
  <2> DEFINE lo == P(a.start_pfn, lim, MMTEST_RO)
             hi == P(lim, a.end_pfn, MMTEST_RW)
  <2>1. Parts(a) = <<lo, hi>> BY <1>4 DEF Parts
  <2>2. \A r \in Seqs(Parts(a)) : r = lo \/ r = hi BY <2>1 DEF Seqs
  <2>3. Parts(a) \in Seq(Region) /\ Len(Parts(a)) = 2
    <3>1. lo \in Region /\ hi \in Region BY <1>1
    <3> HIDE DEF lo, hi
    <3> QED BY <2>1, <3>1
  <2>4. ASSUME NEW r, r = lo \/ r = hi
        PROVE  /\ r.nid = a.nid /\ Pages(r) \subseteq Pages(a)
               /\ IF r.type = MMTEST_RW THEN r.start_pfn >= memLimit_pfn ELSE r.end_pfn <= memLimit_pfn
    BY <1>4, <2>4 DEF Pages, MMTEST_RO, MMTEST_RW
  <2> HIDE DEF lo, hi
  <2> QED BY <2>2, <2>3, <2>4
<1> QED BY <1>2, <1>3, <1>4

\* The regions after some of the parts of entry m were added.
LEMMA AddedRegions ==
  ASSUME TypeOK, RangesRam, OnlyRam, KernelUntouched, m <= Len(early_node_map),
         NEW k \in Nat, k <= Len(Parts(early_node_map[m])),
         Len(bootmem_regions) + k <= MAX_BOOTMEM_REGIONS,
         NEW new, new = bootmem_regions \o SubSeq(Parts(early_node_map[m]), 1, k)
  PROVE  /\ new \in Seq(Region) /\ Len(new) <= MAX_BOOTMEM_REGIONS
         /\ \A r \in Seqs(new) :
              /\ \A p \in Pages(r) : RamPage(p) /\ InWindow(p, r.nid)
              /\ IF r.type = MMTEST_RW THEN r.start_pfn >= memLimit_pfn ELSE r.end_pfn <= memLimit_pfn
<1> DEFINE a == early_node_map[m]
           parts == Parts(a)
           sub == SubSeq(parts, 1, k)
<1>1. a \in ActiveRegion /\ a \in Seqs(early_node_map)
  BY DEF TypeOK, Seqs
<1>2. memLimit_pfn \in Nat
  BY DivMod, SizeAssumption, InputAssumption DEF TypeOK, memLimit_pfn
<1>3. /\ parts \in Seq(Region) /\ Len(parts) \in 1..2
      /\ \A r \in Seqs(parts) :
           /\ r.nid = a.nid /\ Pages(r) \subseteq Pages(a)
           /\ IF r.type = MMTEST_RW THEN r.start_pfn >= memLimit_pfn ELSE r.end_pfn <= memLimit_pfn
  BY <1>1, <1>2, PartsPages
<1> HIDE DEF parts
<1>4. sub \in Seq(Region) /\ Len(sub) = k /\ \A i \in 1..k : sub[i] = parts[i]
  <2>1. \A i \in 1..k : parts[i] \in Region BY <1>3 DEF parts
  <2>2. /\ sub \in Seq(Region) /\ Len(sub) = IF 1 <= k THEN k - 1 + 1 ELSE 0
        /\ \A i \in 1..(k - 1 + 1) : sub[i] = parts[1 + i - 1]
    BY <2>1, SubSeqProperties
  <2> QED BY <2>2
<1>5. Seqs(sub) \subseteq Seqs(parts)
  BY <1>3, <1>4 DEF Seqs, parts
<1>6. new = bootmem_regions \o sub BY DEF parts
<1>7. bootmem_regions \in Seq(Region) BY DEF TypeOK
<1> HIDE DEF sub
<1>8. /\ new \in Seq(Region) /\ Len(new) = Len(bootmem_regions) + Len(sub)
      /\ \A i \in 1..Len(bootmem_regions) + Len(sub) :
           new[i] = IF i <= Len(bootmem_regions) THEN bootmem_regions[i] ELSE sub[i - Len(bootmem_regions)]
  <2>1. sub \in Seq(Region) BY <1>4
  <2>2. /\ bootmem_regions \o sub \in Seq(Region)
        /\ Len(bootmem_regions \o sub) = Len(bootmem_regions) + Len(sub)
        /\ \A i \in 1..Len(bootmem_regions) + Len(sub) : (bootmem_regions \o sub)[i] =
             IF i <= Len(bootmem_regions) THEN bootmem_regions[i] ELSE sub[i - Len(bootmem_regions)]
    BY <1>7, <2>1, ConcatProperties, Zenon
  <2> QED BY <1>6, <2>2, Zenon
<1>9. Seqs(new) \subseteq Seqs(bootmem_regions) \cup Seqs(sub)
  BY <1>4, <1>7, <1>8 DEF Seqs
<1>10. ASSUME NEW r \in Seqs(parts)
       PROVE  /\ \A p \in Pages(r) : RamPage(p) /\ InWindow(p, r.nid)
              /\ IF r.type = MMTEST_RW THEN r.start_pfn >= memLimit_pfn ELSE r.end_pfn <= memLimit_pfn
  BY <1>1, <1>3 DEF RangesRam
<1>11. Len(new) <= MAX_BOOTMEM_REGIONS BY <1>4, <1>8
<1> QED BY <1>5, <1>8, <1>9, <1>10, <1>11 DEF OnlyRam, KernelUntouched

-----------------------------------------------------------------------------
(* The invariant. *)

\* The invariant holds initially.
LEMMA InitIInv == Init => IInv
<1> SUFFICES ASSUME Init PROVE IInv OBVIOUS
<1> USE DEF Init
<1>1. TypeOK BY SizeAssumption DEF TypeOK, NID_INVAL
<1>2. Tables BY DEF Tables
<1>3. RangesRam /\ OnlyRam /\ KernelUntouched BY DEF RangesRam, OnlyRam, KernelUntouched, Seqs
<1> QED BY <1>1, <1>2, <1>3 DEF IInv

\* What is RAM and what is in a window depends on tables that a step may leave alone.
LEMMA PagesStay ==
  ASSUME UNCHANGED <<firmware, node_memblk_range, mye820>>
  PROVE  \A p, nid : /\ RamPage(p) => RamPage(p)'
                     /\ InWindow(p, nid) => InWindow(p, nid)'
BY DEF RamPage, InWindow, HasPage, Counted, Windows, Pages

\* A step that leaves the registered ranges alone.
LEMMA RangesFrame ==
  ASSUME RangesRam, UNCHANGED <<firmware, node_memblk_range, mye820, early_node_map>>
  PROVE  RangesRam'
BY PagesStay DEF RangesRam, Seqs, Pages

\* A step that leaves the regions alone.
LEMMA RegionsFrame ==
  ASSUME OnlyRam, KernelUntouched,
         UNCHANGED <<firmware, memLimit, node_memblk_range, mye820, bootmem_regions>>
  PROVE  OnlyRam' /\ KernelUntouched'
<1>1. OnlyRam' BY PagesStay DEF OnlyRam, Seqs, Pages
<1>2. KernelUntouched' BY DEF KernelUntouched, Seqs, memLimit_pfn
<1> QED BY <1>1, <1>2

\* A step that leaves the tables empty.
LEMMA EmptyTables ==
  ASSUME early_node_map' = <<>>, bootmem_regions' = <<>>
  PROVE  RangesRam' /\ OnlyRam' /\ KernelUntouched'
BY DEF RangesRam, OnlyRam, KernelUntouched, Seqs

\* Every step preserves the invariant.
LEMMA NextIInv ==
  ASSUME IInv, [Next]_vars
  PROVE  IInv'
<1>0. TypeOK /\ Tables /\ RangesRam /\ OnlyRam /\ KernelUntouched BY DEF IInv
<1> USE DEF inputs, nodemap
<1>1. ASSUME ParseProcessorAffinity PROVE IInv'
  <2> USE <1>0, <1>1 DEF ParseProcessorAffinity
  <2>1. srat.cpu[m].pxm \in PXM
    <3>1. srat.cpu \in Seq(CpuEntry) BY InputAssumption DEF TypeOK
    <3>2. m \in 1..Len(srat.cpu) BY <3>1 DEF TypeOK
    <3>3. srat.cpu[m] \in CpuEntry BY <3>1, <3>2, ElementOfSeq
    <3> QED BY <3>3 DEF CpuEntry
  <2>2. pxm_to_node_map' \in [PXM -> Node \cup {NID_INVAL}] /\ nodes_found_map' \subseteq Node
    <3>1. CASE setup_node(srat.cpu[m].pxm) BY <2>1, <3>1, SetupNodeType
    <3>2. CASE UNCHANGED nodemap BY <3>2 DEF TypeOK
    <3> QED BY <3>1, <3>2
  <2>3. TypeOK' BY <2>2 DEF TypeOK
  <2>4. Tables' /\ early_node_map' = <<>> /\ bootmem_regions' = <<>> BY DEF Tables
  <2> QED BY <2>3, <2>4, EmptyTables DEF IInv
<1>2. ASSUME ProcessorsParsed PROVE IInv'
  <2> USE <1>0, <1>2 DEF ProcessorsParsed
  <2>1. TypeOK' BY DEF TypeOK
  <2>2. Tables' /\ early_node_map' = <<>> /\ bootmem_regions' = <<>> BY DEF Tables
  <2> QED BY <2>1, <2>2, EmptyTables DEF IInv
<1>3. ASSUME ParseMemoryAffinity PROVE IInv'
  <2> USE <1>0, <1>3
  <2> DEFINE b == srat.mem[m]
             node == NodeFor(b.pxm)
             blk == [start |-> b.base, end |-> b.base + b.length, nid |-> node]
  <2>1. b \in MemEntry
    <3>1. srat.mem \in Seq(MemEntry) BY InputAssumption DEF TypeOK
    <3>2. m \in 1..Len(srat.mem) BY <3>1 DEF TypeOK, ParseMemoryAffinity
    <3> QED BY <3>1, <3>2, ElementOfSeq
  <2>2. b.pxm \in PXM /\ b.base \in Nat /\ b.base + b.length \in Nat BY <2>1 DEF MemEntry
  <2>3. /\ pxm_to_node_map' \in [PXM -> Node \cup {NID_INVAL}] /\ nodes_found_map' \subseteq Node
        /\ node_memblk_range' \in Seq(Memblk) /\ Len(node_memblk_range') <= NR_NODE_MEMBLKS
        /\ Len(node_memblk_range') < m + 1
    <3>1. /\ node_memblk_range \in Seq(Memblk) /\ Len(node_memblk_range) <= NR_NODE_MEMBLKS
          /\ Len(node_memblk_range) < m /\ Len(node_memblk_range) \in Nat /\ m \in Nat
      BY DEF TypeOK, Tables, ParseMemoryAffinity
    <3>2. CASE b.enabled /\ m <= NR_NODE_MEMBLKS
      <4>1. setup_node(b.pxm) BY <3>2 DEF ParseMemoryAffinity
      <4>2. pxm_to_node_map' \in [PXM -> Node \cup {NID_INVAL}] /\ nodes_found_map' \subseteq Node
        BY <2>2, <4>1, SetupNodeType
      <4>3. CASE MemblkAccepted(b, node)
        <5>1. node_memblk_range' = Append(node_memblk_range, blk)
          BY <3>2, <4>3 DEF ParseMemoryAffinity
        <5>2. node \in Node BY <2>2, <4>3, NodeForType DEF MemblkAccepted
        <5>3. blk \in Memblk BY <2>2, <5>2 DEF Memblk
        <5> HIDE DEF blk
        <5>4. node_memblk_range' \in Seq(Memblk) /\ Len(node_memblk_range') = Len(node_memblk_range) + 1
          BY <3>1, <5>1, <5>3, AppendProperties
        <5> QED BY <3>1, <3>2, <4>2, <5>4, SizeAssumption
      <4>4. CASE ~MemblkAccepted(b, node)
        <5>1. node_memblk_range' = node_memblk_range BY <3>2, <4>4 DEF ParseMemoryAffinity
        <5> QED BY <3>1, <4>2, <5>1
      <4> QED BY <4>3, <4>4
    <3>3. CASE ~(b.enabled /\ m <= NR_NODE_MEMBLKS)
      <4>1. UNCHANGED <<nodemap, node_memblk_range>> BY <3>3 DEF ParseMemoryAffinity
      <4> QED BY <3>1, <4>1 DEF TypeOK
    <3> QED BY <3>2, <3>3
  <2>4. /\ pc = "memory" /\ m' = m + 1
        /\ UNCHANGED <<inputs, pc, mye820, early_node_map, bootmem_regions, n, ret, runs>>
    BY DEF ParseMemoryAffinity
  <2>5. TypeOK' BY <2>3, <2>4 DEF TypeOK
  <2>6. Tables' /\ early_node_map' = <<>> /\ bootmem_regions' = <<>> BY <2>3, <2>4 DEF Tables
  <2> QED BY <2>5, <2>6, EmptyTables DEF IInv
<1>4. ASSUME Loaded PROVE IInv'
  <2> USE <1>0, <1>4 DEF Loaded
  <2>1. TypeOK' BY DEF TypeOK
  <2>2. Tables' BY DEF Tables
  <2>3. RangesRam' BY RangesFrame
  <2>4. OnlyRam' /\ KernelUntouched' BY RegionsFrame
  <2> QED BY <2>1, <2>2, <2>3, <2>4 DEF IInv
<1>5. ASSUME SetE820Info PROVE IInv'
  <2> USE <1>0, <1>5 DEF SetE820Info
  <2>1. TypeOK'
    <3>1. E820Map(firmware) \in Seq(E820Record) BY E820MapType, InputAssumption DEF TypeOK
    <3> QED BY <3>1 DEF TypeOK
  <2>2. Tables'
    <3>1. E820Map(firmware)' = E820Map(firmware') OBVIOUS
    <3> QED BY <3>1 DEF Tables
  <2>3. CASE early_node_map = <<>> /\ bootmem_regions = <<>>
    <3>1. early_node_map' = <<>> /\ bootmem_regions' = <<>> BY <2>3
    <3> QED BY <2>1, <2>2, <3>1, EmptyTables DEF IInv
  <2>4. CASE mye820 = E820Map(firmware)
    <3>1. mye820' = mye820 BY <2>4
    <3>2. RangesRam' BY <3>1, RangesFrame
    <3>3. OnlyRam' /\ KernelUntouched' BY <3>1, RegionsFrame
    <3> QED BY <2>1, <2>2, <3>2, <3>3 DEF IInv
  <2> QED BY <2>3, <2>4 DEF Tables
<1>6. ASSUME Register PROVE IInv'
  <2> USE <1>0, <1>6
  <2>1. /\ pc = "register" /\ n' = n + 1
        /\ UNCHANGED <<inputs, pc, nodemap, node_memblk_range, mye820, bootmem_regions, m, ret, runs>>
    BY DEF Register
  <2>2. TypeOK' BY <2>1, RegisterStep DEF TypeOK
  <2>3. Tables' BY <2>1 DEF Tables
  <2>4. RangesRam'
    <3>1. \A a \in Seqs(early_node_map') : \A p \in Pages(a) : RamPage(p) /\ InWindow(p, a.nid)
      BY RegisterStep
    <3> QED BY <2>1, <3>1, PagesStay DEF RangesRam, Seqs, Pages
  <2>5. OnlyRam' /\ KernelUntouched' BY <2>1, RegionsFrame
  <2> QED BY <2>2, <2>3, <2>4, <2>5 DEF IInv
<1>7. ASSUME NextWindow PROVE IInv'
  <2> USE <1>0, <1>7 DEF NextWindow
  <2>1. TypeOK' BY DEF TypeOK
  <2>2. Tables' BY DEF Tables
  <2>3. RangesRam' BY RangesFrame
  <2>4. OnlyRam' /\ KernelUntouched' BY RegionsFrame
  <2> QED BY <2>1, <2>2, <2>3, <2>4 DEF IInv
<1>8. ASSUME Sort PROVE IInv'
  <2> USE <1>0, <1>8
  <2>1. /\ pc = "register" /\ pc' = "sorted"
        /\ UNCHANGED <<inputs, nodemap, node_memblk_range, mye820, bootmem_regions, m, n, ret, runs>>
    BY DEF Sort
  <2>2. PICK f \in [DOMAIN early_node_map -> DOMAIN early_node_map] :
          early_node_map' = [i \in DOMAIN early_node_map |-> early_node_map[f[i]]]
    BY DEF Sort, Orders
  <2>3. early_node_map' \in Seq(ActiveRegion) /\ Len(early_node_map') = Len(early_node_map)
    <3> DEFINE k == Len(early_node_map)
    <3>1. k \in Nat /\ DOMAIN early_node_map = 1..k /\ early_node_map \in [1..k -> ActiveRegion]
      BY DEF TypeOK
    <3>2. early_node_map' \in [1..k -> ActiveRegion] BY <2>2, <3>1
    <3> HIDE DEF k
    <3>3. early_node_map' \in Seq(ActiveRegion) /\ Len(early_node_map') = k BY <3>1, <3>2, SeqDef
    <3> QED BY <3>3 DEF k
  <2>4. Seqs(early_node_map') \subseteq Seqs(early_node_map)
    BY <2>2 DEF Seqs
  <2>5. TypeOK' BY <2>1, <2>3 DEF TypeOK
  <2>6. Tables' BY <2>1 DEF Tables
  <2>7. RangesRam' BY <2>1, <2>4, PagesStay DEF RangesRam, Seqs, Pages
  <2>8. OnlyRam' /\ KernelUntouched' BY <2>1, RegionsFrame
  <2> QED BY <2>5, <2>6, <2>7, <2>8 DEF IInv
<1>9. ASSUME SetMemInfo PROVE IInv'
  <2> USE <1>0, <1>9 DEF SetMemInfo
  <2>1. TypeOK' BY SizeAssumption DEF TypeOK
  <2>2. Tables' BY DEF Tables
  <2>3. RangesRam' BY RangesFrame
  <2>4. OnlyRam' /\ KernelUntouched' BY DEF OnlyRam, KernelUntouched, Seqs
  <2> QED BY <2>1, <2>2, <2>3, <2>4 DEF IInv
<1>10. ASSUME NEW k \in Nat, m <= Len(early_node_map), k <= Len(Parts(early_node_map[m])),
              Len(bootmem_regions) + k <= MAX_BOOTMEM_REGIONS, pc = "generate",
              bootmem_regions' = bootmem_regions \o SubSeq(Parts(early_node_map[m]), 1, k),
              pc' \in {"generate", "testing"}, m' \in Nat \ {0}, ret' \in {0, -1},
              UNCHANGED <<inputs, nodemap, node_memblk_range, mye820, early_node_map, n, runs>>
       PROVE  IInv'
  <2> USE <1>0, <1>10
  <2>1. /\ bootmem_regions' \in Seq(Region) /\ Len(bootmem_regions') <= MAX_BOOTMEM_REGIONS
        /\ \A r \in Seqs(bootmem_regions') :
             /\ \A p \in Pages(r) : RamPage(p) /\ InWindow(p, r.nid)
             /\ IF r.type = MMTEST_RW THEN r.start_pfn >= memLimit_pfn ELSE r.end_pfn <= memLimit_pfn
    BY AddedRegions
  <2>2. TypeOK' BY <2>1 DEF TypeOK
  <2>3. Tables'
    <3>1. early_node_map # <<>> BY DEF TypeOK
    <3> QED BY <3>1 DEF Tables
  <2>4. RangesRam' BY RangesFrame
  <2>5. OnlyRam' BY <2>1, PagesStay DEF OnlyRam, Seqs, Pages
  <2>6. KernelUntouched' BY <2>1 DEF KernelUntouched, Seqs, memLimit_pfn
  <2> QED BY <2>2, <2>3, <2>4, <2>5, <2>6 DEF IInv
<1>11. ASSUME pc = "generate", m <= Len(early_node_map)
       PROVE  Parts(early_node_map[m]) \in Seq(Region) /\ Len(Parts(early_node_map[m])) \in 1..2
  <2>1. m \in 1..Len(early_node_map) /\ early_node_map \in Seq(ActiveRegion)
    BY <1>0, <1>11 DEF TypeOK
  <2>2. early_node_map[m] \in ActiveRegion BY <2>1, ElementOfSeq
  <2>3. memLimit_pfn \in Nat
    BY <1>0, DivMod, SizeAssumption, InputAssumption DEF TypeOK, memLimit_pfn
  <2> QED BY <2>2, <2>3, PartsPages
<1>12. ASSUME GenerateRegion PROVE IInv'
  <2> DEFINE parts == Parts(early_node_map[m])
  <2>1. parts \in Seq(Region) /\ Len(parts) \in Nat BY <1>11, <1>12 DEF GenerateRegion
  <2>2. SubSeq(parts, 1, Len(parts)) = parts BY <2>1, SubSeqFull
  <2>3. Len(bootmem_regions) + Len(parts) <= MAX_BOOTMEM_REGIONS BY <1>12 DEF GenerateRegion
  <2>4. bootmem_regions' = bootmem_regions \o SubSeq(parts, 1, Len(parts))
    BY <1>12, <2>2 DEF GenerateRegion
  <2>5. m' \in Nat \ {0} /\ ret' \in {0, -1} BY <1>0, <1>12 DEF GenerateRegion, TypeOK
  <2>6. /\ m <= Len(early_node_map) /\ pc = "generate" /\ pc' \in {"generate", "testing"}
        /\ UNCHANGED <<inputs, nodemap, node_memblk_range, mye820, early_node_map, n, runs>>
    BY <1>12 DEF GenerateRegion
  <2> QED BY <2>1, <2>3, <2>4, <2>5, <2>6, <1>10
<1>13. ASSUME TooManyRegions PROVE IInv'
  <2> DEFINE parts == Parts(early_node_map[m])
             room == MAX_BOOTMEM_REGIONS - Len(bootmem_regions)
  <2>1. parts \in Seq(Region) /\ Len(parts) \in Nat BY <1>11, <1>13 DEF TooManyRegions
  <2>2. room \in Nat BY <1>0, SizeAssumption DEF TypeOK
  <2>3. room <= Len(parts) /\ Len(bootmem_regions) + room <= MAX_BOOTMEM_REGIONS
    <3>1. room < Len(parts) BY <1>13 DEF TooManyRegions
    <3> QED BY <1>0, <2>1, <2>2, <3>1, SizeAssumption DEF TypeOK
  <2>4. bootmem_regions' = bootmem_regions \o SubSeq(parts, 1, room) BY <1>13 DEF TooManyRegions
  <2>5. m' \in Nat \ {0} /\ ret' \in {0, -1} BY <1>0, <1>13 DEF TooManyRegions, TypeOK
  <2>6. /\ m <= Len(early_node_map) /\ pc = "generate" /\ pc' \in {"generate", "testing"}
        /\ UNCHANGED <<inputs, nodemap, node_memblk_range, mye820, early_node_map, n, runs>>
    BY <1>13 DEF TooManyRegions
  <2> QED BY <2>2, <2>3, <2>4, <2>5, <2>6, <1>10
<1>14. ASSUME Generated PROVE IInv'
  <2> USE <1>0, <1>14 DEF Generated
  <2>1. TypeOK' BY DEF TypeOK
  <2>2. Tables' BY DEF Tables
  <2>3. RangesRam' BY RangesFrame
  <2>4. OnlyRam' /\ KernelUntouched' BY RegionsFrame
  <2> QED BY <2>1, <2>2, <2>3, <2>4 DEF IInv
<1>15. ASSUME ProgramEnds PROVE IInv'
  <2> USE <1>0, <1>15 DEF ProgramEnds
  <2>1. TypeOK' BY DEF TypeOK
  <2>2. Tables' BY DEF Tables
  <2>3. RangesRam' BY RangesFrame
  <2>4. OnlyRam' /\ KernelUntouched' BY RegionsFrame
  <2> QED BY <2>1, <2>2, <2>3, <2>4 DEF IInv
<1>16. CASE UNCHANGED vars
  <2> USE <1>0, <1>16 DEF vars
  <2>1. TypeOK' BY DEF TypeOK
  <2>2. Tables' BY DEF Tables
  <2>3. RangesRam' BY RangesFrame
  <2>4. OnlyRam' /\ KernelUntouched' BY RegionsFrame
  <2> QED BY <2>1, <2>2, <2>3, <2>4 DEF IInv
<1> QED
  BY <1>1, <1>2, <1>3, <1>4, <1>5, <1>6, <1>7, <1>8, <1>9, <1>12, <1>13, <1>14, <1>15, <1>16
  DEF Next, Load, SetE820, SetLimit

\* Every reachable state satisfies the invariant.
THEOREM Invariance == Spec => []IInv
<1>1. IInv /\ [Next]_vars => IInv' BY NextIInv
<1> QED BY InitIInv, <1>1, PTL DEF Spec

\* Every reachable state of the driver's tables is well typed and no table
\* exceeds its size, whatever the SRAT, the firmware and mem= say.
THEOREM TypeCorrect == Spec => []TypeOK
<1>1. IInv => TypeOK BY DEF IInv
<1> QED BY Invariance, <1>1, PTL

\* generate_bootmem_region() and add_active_range() never make a page of
\* something that is no RAM, or of another node, a page to test.
THEOREM OnlyRamOffered == Spec => []OnlyRam
<1>1. IInv => OnlyRam BY DEF IInv
<1> QED BY Invariance, <1>1, PTL

\* generate_bootmem_region() never offers memory of the kernel for writing.
THEOREM KernelSafe == Spec => []KernelUntouched
<1>1. IInv => KernelUntouched BY DEF IInv
<1> QED BY Invariance, <1>1, PTL

\* Testing the regions harms nothing.
THEOREM RegionsSound == Spec => []RegionsSafe
<1>1. IInv => RegionsSafe BY DEF IInv, RegionsSafe
<1> QED BY Invariance, <1>1, PTL

-----------------------------------------------------------------------------
(* Pieces: what is registered for an entry and a window. *)

\* A number below a multiple is below it after division, too.
LEMMA DivBelow ==
  ASSUME NEW a \in Nat, NEW b \in Nat \ {0}, NEW c \in Nat, a < (c + 1) * b
  PROVE  a \div b <= c
<1> DEFINE q == a \div b
<1>1. q \in Nat /\ a >= b * q BY DivMod
<1> HIDE DEF q
<1>2. CASE q <= c BY <1>2 DEF q
<1>3. CASE c + 1 <= q
  <2>1. (c + 1) * b <= q * b BY <1>1, <1>3, Mono
  <2>2. q * b = b * q BY <1>1
  <2> QED BY <1>1, <2>1, <2>2
<1> QED BY <1>1, <1>2, <1>3

\* Division is monotonic.
LEMMA DivMono ==
  ASSUME NEW a \in Nat, NEW c \in Nat, NEW b \in Nat \ {0}, a <= c
  PROVE  a \div b <= c \div b
<1> DEFINE q == c \div b
<1>1. q \in Nat /\ c = b * q + (c % b) /\ c % b \in 0..(b - 1) BY DivMod
<1> HIDE DEF q
<1>2. (q + 1) * b = b * q + b BY <1>1
<1>3. a < (q + 1) * b BY <1>1, <1>2
<1> QED BY <1>1, <1>3, DivBelow DEF q

\* The numbers of whole pages: rounding down and up.
LEMMA PageInside ==
  ASSUME NEW a \in Nat, NEW b \in Nat \ {0}, NEW p \in Nat
  PROVE  /\ a <= p * b => (a + b - 1) \div b <= p
         /\ (p + 1) * b <= a => p + 1 <= a \div b
         /\ a \div b <= (a + b - 1) \div b
<1>1. ASSUME a <= p * b PROVE (a + b - 1) \div b <= p
  <2>1. a + b - 1 \in Nat OBVIOUS
  <2>2. (p + 1) * b = p * b + b OBVIOUS
  <2>3. a + b - 1 < (p + 1) * b BY <1>1, <2>2
  <2> QED BY <2>1, <2>3, DivBelow
<1>2. ASSUME (p + 1) * b <= a PROVE p + 1 <= a \div b
  <2> DEFINE q == a \div b
  <2>1. q \in Nat /\ a = b * q + (a % b) /\ a % b \in 0..(b - 1) BY DivMod
  <2> HIDE DEF q
  <2>2. CASE p + 1 <= q BY <2>2 DEF q
  <2>3. CASE q <= p
    <3>1. q * b <= p * b BY <2>1, <2>3, Mono
    <3>2. (p + 1) * b = p * b + b /\ q * b = b * q BY <2>1
    <3> QED BY <1>2, <2>1, <3>1, <3>2
  <2> QED BY <2>1, <2>2, <2>3
<1>3. a \div b <= (a + b - 1) \div b BY DivMono
<1> QED BY <1>1, <1>2, <1>3

\* A sane firmware map keeps all of its entries, up to the size of the table.
LEMMA SaneMap ==
  ASSUME TypeOK, FirmwareSane, mye820 = E820Map(firmware)
  PROVE  /\ Counted(firmware) = DOMAIN mye820 /\ DOMAIN mye820 \subseteq DOMAIN firmware
         /\ \A i \in DOMAIN mye820 :
              /\ firmware[i] \in FirmwareEntry
              /\ mye820[i].addr = firmware[i].start /\ mye820[i].type = firmware[i].type
              /\ mye820[i].addr + mye820[i].size = firmware[i].end + 1
<1>1. firmware \in Seq(FirmwareEntry) /\ E820_X_MAX \in Nat
  BY InputAssumption, SizeAssumption DEF TypeOK
<1> DEFINE c == IF Len(firmware) <= E820_X_MAX THEN Len(firmware) ELSE E820_X_MAX
<1>2. c \in Nat /\ 1..c \subseteq DOMAIN firmware BY <1>1
<1>3. Counted(firmware) = 1..c BY <1>1 DEF Counted, FirmwareSane
<1>4. Cardinality(1..c) = c
  <2> HIDE DEF c
  <2> QED BY <1>2, FS_Interval
<1>5. mye820 = [i \in 1..c |-> E820Entry(firmware, i)] BY <1>3, <1>4 DEF E820Map
<1>6. ASSUME NEW i \in 1..c
      PROVE  /\ firmware[i] \in FirmwareEntry
             /\ mye820[i].addr = firmware[i].start /\ mye820[i].type = firmware[i].type
             /\ mye820[i].addr + mye820[i].size = firmware[i].end + 1
  <2>1. firmware[i] \in FirmwareEntry BY <1>1, <1>2, ElementOfSeq
  <2>2. mye820[i] = [addr |-> firmware[i].start, size |-> firmware[i].end - firmware[i].start + 1,
                     type |-> firmware[i].type]
    BY <1>3, <1>5 DEF E820Entry
  <2> QED BY <2>1, <2>2 DEF FirmwareEntry
<1> HIDE DEF c
<1> QED BY <1>2, <1>3, <1>5, <1>6

\* Entries of a sane map have their own pages.
LEMMA EntriesOwnPages ==
  ASSUME TypeOK, FirmwareSane, mye820 = E820Map(firmware),
         NEW i \in DOMAIN mye820, NEW k \in DOMAIN mye820, firmware[i].end < firmware[k].start
  PROVE  /\ EndPfn(mye820[i]) <= FirstPfn(mye820[k])
         /\ EndPfn(mye820[i]) <= mye820[k].addr \div PAGE_SIZE
         /\ mye820[k].addr \div PAGE_SIZE <= FirstPfn(mye820[k])
<1>1. /\ firmware[i] \in FirmwareEntry /\ firmware[k] \in FirmwareEntry
      /\ mye820[k].addr = firmware[k].start
      /\ mye820[i].addr + mye820[i].size = firmware[i].end + 1
  BY SaneMap
<1>2. firmware[i].end + 1 \in Nat /\ firmware[k].start \in Nat /\ firmware[i].end + 1 <= firmware[k].start
  BY <1>1 DEF FirmwareEntry
<1>3. EndPfn(mye820[i]) <= mye820[k].addr \div PAGE_SIZE BY <1>1, <1>2, DivMono, SizeAssumption DEF EndPfn
<1>4. mye820[k].addr \div PAGE_SIZE <= FirstPfn(mye820[k])
  BY <1>1, <1>2, PageInside, SizeAssumption DEF FirstPfn
<1>5. EndPfn(mye820[i]) \in Nat /\ FirstPfn(mye820[k]) \in Nat /\ mye820[k].addr \div PAGE_SIZE \in Nat
  <2>1. mye820[i] \in E820Record /\ mye820[k] \in E820Record BY DEF TypeOK
  <2> QED BY <2>1, PfnType, <1>1, <1>2, DivMod, SizeAssumption
<1> QED BY <1>3, <1>4, <1>5

\* What a window and an entry are, and that windows do not end before they start.
LEMMA WindowOrder ==
  ASSUME TypeOK, \A b \in Seqs(node_memblk_range) : b.start <= b.end, NEW i \in DOMAIN Windows
  PROVE  /\ Windows[i] \in ActiveRegion /\ Windows[i].start_pfn <= Windows[i].end_pfn
<1>1. Windows[i] \in ActiveRegion BY WindowsType, ElementOfSeq
<1>2. CASE node_memblk_range # <<>>
  <2>1. i \in DOMAIN node_memblk_range
        /\ Windows[i].start_pfn = node_memblk_range[i].start \div PAGE_SIZE
        /\ Windows[i].end_pfn = node_memblk_range[i].end \div PAGE_SIZE
    BY <1>2 DEF Windows
  <2>2. node_memblk_range[i] \in Memblk /\ node_memblk_range[i].start <= node_memblk_range[i].end
    BY <2>1 DEF TypeOK, Seqs
  <2> QED BY <1>1, <2>1, <2>2, DivMono, SizeAssumption DEF Memblk
<1>3. CASE node_memblk_range = <<>>
  <2>1. i \in DOMAIN mye820
        /\ Windows[i].start_pfn = mye820[i].addr \div PAGE_SIZE
        /\ Windows[i].end_pfn = (mye820[i].addr + mye820[i].size) \div PAGE_SIZE
    BY <1>3 DEF Windows
  <2>2. mye820[i] \in E820Record BY <2>1 DEF TypeOK
  <2>3. mye820[i].addr \in Nat /\ mye820[i].addr + mye820[i].size \in Nat
        /\ mye820[i].addr <= mye820[i].addr + mye820[i].size
    BY <2>2 DEF E820Record
  <2> QED BY <1>1, <2>1, <2>3, DivMono, SizeAssumption
<1> QED BY <1>2, <1>3

\* Windows do not overlap; listed by address, they ascend.
LEMMA WindowsApart ==
  ASSUME TypeOK, Sane, mye820 = E820Map(firmware), NEW i \in DOMAIN Windows, NEW k \in DOMAIN Windows, i # k
  PROVE  /\ \/ Windows[i].end_pfn <= Windows[k].start_pfn
            \/ Windows[k].end_pfn <= Windows[i].start_pfn
         /\ Ascending /\ i < k => Windows[i].end_pfn <= Windows[k].start_pfn
<1>1. CASE node_memblk_range # <<>>
  <2>1. /\ i \in DOMAIN node_memblk_range /\ k \in DOMAIN node_memblk_range
        /\ Windows[i].start_pfn = node_memblk_range[i].start \div PAGE_SIZE
        /\ Windows[i].end_pfn = node_memblk_range[i].end \div PAGE_SIZE
        /\ Windows[k].start_pfn = node_memblk_range[k].start \div PAGE_SIZE
        /\ Windows[k].end_pfn = node_memblk_range[k].end \div PAGE_SIZE
    BY <1>1 DEF Windows
  <2>2. node_memblk_range[i] \in Memblk /\ node_memblk_range[k] \in Memblk
    BY <2>1 DEF TypeOK
  <2>3. Disjoint(node_memblk_range[i], node_memblk_range[k]) BY <2>1 DEF Sane, BlocksDisjoint
  <2>4. Ascending /\ i < k => node_memblk_range[i].end <= node_memblk_range[k].start
    BY <2>1 DEF Ascending
  <2> QED BY <2>1, <2>2, <2>3, <2>4, DivMono, SizeAssumption DEF Memblk, Disjoint
<1>2. CASE node_memblk_range = <<>>
  <2>1. /\ i \in DOMAIN mye820 /\ k \in DOMAIN mye820
        /\ Windows[i].start_pfn = mye820[i].addr \div PAGE_SIZE
        /\ Windows[i].end_pfn = EndPfn(mye820[i])
        /\ Windows[k].start_pfn = mye820[k].addr \div PAGE_SIZE
        /\ Windows[k].end_pfn = EndPfn(mye820[k])
    BY <1>2 DEF Windows, EndPfn
  <2>2. i \in DOMAIN firmware /\ k \in DOMAIN firmware BY <2>1, SaneMap DEF Sane
  <2>3. firmware[i].end < firmware[k].start \/ firmware[k].end < firmware[i].start
    BY <2>2 DEF Sane, FirmwareSane
  <2>4. Ascending /\ i < k => firmware[i].end < firmware[k].start BY <2>2 DEF Ascending
  <2> QED BY <2>1, <2>3, <2>4, EntriesOwnPages DEF Sane
<1> QED BY <1>1, <1>2

\* A piece lies in its window and in its entry.
LEMMA PieceBounds ==
  ASSUME TypeOK, \A b \in Seqs(node_memblk_range) : b.start <= b.end, NEW q \in Live
  PROVE  LET r == Piece(q[1], q[2])
             w == Windows[q[1]]
             e == mye820[q[2]]
         IN /\ q[1] \in DOMAIN Windows /\ q[2] \in DOMAIN mye820 /\ Active(e, w)
            /\ w \in ActiveRegion /\ e \in E820Record
            /\ r \in ActiveRegion /\ r.nid = w.nid /\ r.start_pfn <= r.end_pfn
            /\ w.start_pfn <= r.start_pfn /\ r.end_pfn <= w.end_pfn
            /\ FirstPfn(e) <= r.start_pfn /\ r.end_pfn <= EndPfn(e)
            /\ w.start_pfn < w.end_pfn => r.start_pfn < r.end_pfn
<1> DEFINE r == Piece(q[1], q[2])
           w == Windows[q[1]]
           e == mye820[q[2]]
<1>1. q[1] \in DOMAIN Windows /\ q[2] \in DOMAIN mye820 /\ Active(e, w) BY DEF Live
<1>2. e \in E820Record BY <1>1 DEF TypeOK
<1>3. w \in ActiveRegion /\ w.start_pfn <= w.end_pfn BY <1>1, WindowOrder
<1>4. FirstPfn(e) \in Nat /\ EndPfn(e) \in Nat BY <1>2, PfnType
<1>5. r = RangeIn(e, w) BY DEF Piece
<1>6. w.start_pfn \in Nat /\ w.end_pfn \in Nat BY <1>3 DEF ActiveRegion
<1>7. FirstPfn(e) < EndPfn(e) /\ EndPfn(e) > w.start_pfn /\ FirstPfn(e) < w.end_pfn BY <1>1 DEF Active
<1>8. r \in ActiveRegion /\ r.nid = w.nid BY <1>2, <1>3, <1>5, RangeInPages
<1> HIDE DEF w, e
<1>9. r.start_pfn = Greater(FirstPfn(e), w.start_pfn) /\ r.end_pfn = Smaller(EndPfn(e), w.end_pfn)
  BY <1>5 DEF RangeIn
<1> HIDE DEF r
<1>10. /\ r.start_pfn <= r.end_pfn /\ w.start_pfn <= r.start_pfn /\ r.end_pfn <= w.end_pfn
       /\ FirstPfn(e) <= r.start_pfn /\ r.end_pfn <= EndPfn(e)
       /\ w.start_pfn < w.end_pfn => r.start_pfn < r.end_pfn
  BY <1>3, <1>4, <1>6, <1>7, <1>9 DEF Greater, Smaller
<1> QED BY <1>1, <1>2, <1>3, <1>8, <1>10 DEF r, w, e

Before(x, y) == x[1] < y[1] \/ (x[1] = y[1] /\ x[2] < y[2])

\* Two pieces do not overlap; listed by address, they ascend.
LEMMA PiecesApart ==
  ASSUME TypeOK, Sane, mye820 = E820Map(firmware),
         \A b \in Seqs(node_memblk_range) : b.start <= b.end,
         NEW x \in Live, NEW y \in Live, x # y
  PROVE  /\ \/ Piece(x[1], x[2]).end_pfn <= Piece(y[1], y[2]).start_pfn
            \/ Piece(y[1], y[2]).end_pfn <= Piece(x[1], x[2]).start_pfn
         /\ Ascending /\ Before(x, y) => Piece(x[1], x[2]).end_pfn <= Piece(y[1], y[2]).start_pfn
<1> DEFINE r == Piece(x[1], x[2])
           s == Piece(y[1], y[2])
           w == Windows[x[1]]
           v == Windows[y[1]]
           e == mye820[x[2]]
           f == mye820[y[2]]
<1>1. /\ x[1] \in DOMAIN Windows /\ x[2] \in DOMAIN mye820
      /\ w \in ActiveRegion /\ e \in E820Record /\ r \in ActiveRegion
      /\ w.start_pfn <= r.start_pfn /\ r.end_pfn <= w.end_pfn
      /\ FirstPfn(e) <= r.start_pfn /\ r.end_pfn <= EndPfn(e)
  BY PieceBounds
<1>2. /\ y[1] \in DOMAIN Windows /\ y[2] \in DOMAIN mye820
      /\ v \in ActiveRegion /\ f \in E820Record /\ s \in ActiveRegion
      /\ v.start_pfn <= s.start_pfn /\ s.end_pfn <= v.end_pfn
      /\ FirstPfn(f) <= s.start_pfn /\ s.end_pfn <= EndPfn(f)
  BY PieceBounds
<1>3. FirstPfn(e) \in Nat /\ EndPfn(e) \in Nat /\ FirstPfn(f) \in Nat /\ EndPfn(f) \in Nat
  BY <1>1, <1>2, PfnType
<1>4. CASE x[1] # y[1]
  <2>1. /\ w.end_pfn <= v.start_pfn \/ v.end_pfn <= w.start_pfn
        /\ Ascending /\ x[1] < y[1] => w.end_pfn <= v.start_pfn
    BY <1>1, <1>2, <1>4, WindowsApart
  <2> HIDE DEF r, s, w, v
  <2> SUFFICES /\ r.end_pfn <= s.start_pfn \/ s.end_pfn <= r.start_pfn
               /\ Ascending /\ Before(x, y) => r.end_pfn <= s.start_pfn
    BY DEF r, s
  <2> QED BY <1>1, <1>2, <1>4, <2>1 DEF Before, ActiveRegion
<1>5. CASE x[1] = y[1]
  <2>1. x[2] # y[2] BY <1>5 DEF Live
  <2>2. x[2] \in DOMAIN firmware /\ y[2] \in DOMAIN firmware BY <1>1, <1>2, SaneMap DEF Sane
  <2>3. firmware[x[2]].end < firmware[y[2]].start \/ firmware[y[2]].end < firmware[x[2]].start
    BY <2>1, <2>2 DEF Sane, FirmwareSane
  <2>4. Ascending /\ x[2] < y[2] => firmware[x[2]].end < firmware[y[2]].start BY <2>2 DEF Ascending
  <2>5. /\ EndPfn(e) <= FirstPfn(f) \/ EndPfn(f) <= FirstPfn(e)
        /\ Ascending /\ x[2] < y[2] => EndPfn(e) <= FirstPfn(f)
    BY <1>1, <1>2, <2>3, <2>4, EntriesOwnPages DEF Sane
  <2>6. Before(x, y) => x[2] < y[2] BY <1>1, <1>2, <1>5, WindowsType DEF Before
  <2> HIDE DEF r, s, e, f
  <2> SUFFICES /\ r.end_pfn <= s.start_pfn \/ s.end_pfn <= r.start_pfn
               /\ Ascending /\ Before(x, y) => r.end_pfn <= s.start_pfn
    BY DEF r, s
  <2> QED BY <1>1, <1>2, <1>3, <2>5, <2>6 DEF ActiveRegion
<1> QED BY <1>4, <1>5

\* When blocks have pages, so have pieces.
LEMMA PieceNonEmpty ==
  ASSUME TypeOK, Sane, mye820 = E820Map(firmware), BlocksHavePages,
         \A b \in Seqs(node_memblk_range) : b.start <= b.end, NEW q \in Live
  PROVE  Piece(q[1], q[2]).start_pfn < Piece(q[1], q[2]).end_pfn
<1> DEFINE w == Windows[q[1]]
           e == mye820[q[2]]
<1>1. /\ q[1] \in DOMAIN Windows /\ q[2] \in DOMAIN mye820 /\ Active(e, w)
      /\ w \in ActiveRegion /\ e \in E820Record
      /\ w.start_pfn < w.end_pfn => Piece(q[1], q[2]).start_pfn < Piece(q[1], q[2]).end_pfn
  BY PieceBounds
<1>2. CASE node_memblk_range # <<>>
  <2>1. /\ q[1] \in DOMAIN node_memblk_range
        /\ w.start_pfn = node_memblk_range[q[1]].start \div PAGE_SIZE
        /\ w.end_pfn = node_memblk_range[q[1]].end \div PAGE_SIZE
    BY <1>1, <1>2 DEF Windows
  <2> QED BY <1>1, <2>1 DEF BlocksHavePages, Seqs
<1>3. CASE node_memblk_range = <<>>
  <2> DEFINE f == mye820[q[1]]
  <2>1. /\ q[1] \in DOMAIN mye820
        /\ w.start_pfn = f.addr \div PAGE_SIZE /\ w.end_pfn = EndPfn(f)
    BY <1>1, <1>3 DEF Windows, EndPfn
  <2>2. FirstPfn(e) < EndPfn(e) /\ EndPfn(e) > w.start_pfn /\ FirstPfn(e) < w.end_pfn
    BY <1>1 DEF Active
  <2>3. f \in E820Record /\ FirstPfn(e) \in Nat /\ EndPfn(e) \in Nat /\ FirstPfn(f) \in Nat /\ EndPfn(f) \in Nat
    BY <1>1, <2>1, PfnType DEF TypeOK
  <2>4. w.start_pfn <= FirstPfn(f) /\ w.start_pfn \in Nat
    <3>1. f.addr \in Nat BY <2>3 DEF E820Record
    <3>2. f.addr \div PAGE_SIZE \in Nat /\ f.addr \div PAGE_SIZE <= (f.addr + PAGE_SIZE - 1) \div PAGE_SIZE
      <4> HIDE DEF f
      <4>1. 0 \in Nat OBVIOUS
      <4> QED BY <3>1, <4>1, PageInside, SizeAssumption, DivMod
    <3> QED BY <2>1, <3>2 DEF FirstPfn
  <2>5. CASE q[1] = q[2] BY <1>1, <2>1, <2>2, <2>3, <2>4, <2>5
  <2>6. CASE q[1] # q[2]
    <3>1. q[1] \in DOMAIN firmware /\ q[2] \in DOMAIN firmware BY <1>1, <2>1, SaneMap DEF Sane
    <3>2. firmware[q[1]].end < firmware[q[2]].start \/ firmware[q[2]].end < firmware[q[1]].start
      BY <2>6, <3>1 DEF Sane, FirmwareSane
    <3>3. EndPfn(f) <= FirstPfn(e) \/ EndPfn(e) <= w.start_pfn
      BY <1>1, <2>1, <3>2, EntriesOwnPages DEF Sane
    <3> HIDE DEF w, e, f
    <3> QED BY <2>1, <2>2, <2>3, <2>4, <3>3
  <2> QED BY <2>5, <2>6
<1> QED BY <1>2, <1>3

-----------------------------------------------------------------------------
(* What add_active_range() does to the table. *)

Fits(a, r) == Covers(a, r) \/ MergesForward(a, r) \/ MergesBackward(a, r)

\* What becomes of entry a, which r fits.
Merged(a, r) ==
  IF Covers(a, r) THEN a
  ELSE IF MergesForward(a, r) THEN [a EXCEPT !.end_pfn = r.end_pfn]
  ELSE [a EXCEPT !.start_pfn = r.start_pfn]

\* The range finds the table full, becomes an entry, or is merged with an entry.
LEMMA AddCases ==
  ASSUME NEW map \in Seq(ActiveRegion), NEW r \in ActiveRegion, Len(map) <= MAX_ACTIVE_REGIONS
  PROVE  LET new == add_active_range(map, r)
             none == \A a \in Seqs(map) : a.nid = r.nid => ~Fits(a, r)
         IN \/ none /\ Len(map) >= MAX_ACTIVE_REGIONS /\ new = map
            \/ none /\ Len(map) < MAX_ACTIVE_REGIONS /\ new = Append(map, r)
            \/ \E j \in 1..Len(map) :
                 map[j].nid = r.nid /\ Fits(map[j], r) /\ new = [map EXCEPT ![j] = Merged(map[j], r)]
<1> DEFINE new == add_active_range(map, r)
           fits == {i \in DOMAIN map : map[i].nid = r.nid /\
                     (Covers(map[i], r) \/ MergesForward(map[i], r) \/ MergesBackward(map[i], r))}
           j == Least(fits)
<1>1. CASE fits = {}
  <2>1. \A a \in Seqs(map) : a.nid = r.nid => ~Fits(a, r) BY <1>1 DEF Seqs, Fits
  <2>2. new = IF Len(map) >= MAX_ACTIVE_REGIONS THEN map ELSE Append(map, r)
    BY <1>1 DEF add_active_range
  <2>3. Len(map) \in Nat /\ MAX_ACTIVE_REGIONS \in Nat BY SizeAssumption
  <2> HIDE DEF new
  <2> QED BY <2>1, <2>2, <2>3 DEF new
<1>2. CASE fits # {}
  <2>1. fits \in SUBSET Nat OBVIOUS
  <2>2. j \in fits BY <1>2, <2>1, LeastIn
  <2>3. new = IF Covers(map[j], r) THEN map
              ELSE IF MergesForward(map[j], r) THEN [map EXCEPT ![j].end_pfn = r.end_pfn]
              ELSE [map EXCEPT ![j].start_pfn = r.start_pfn]
    BY <1>2 DEF add_active_range
  <2>4. j \in 1..Len(map) /\ map[j].nid = r.nid /\ Fits(map[j], r) BY <2>2 DEF Fits
  <2> HIDE DEF j, fits
  <2>5. CASE Covers(map[j], r)
    <3>1. new = map /\ Merged(map[j], r) = map[j] BY <2>3, <2>5 DEF Merged
    <3>2. [map EXCEPT ![j] = map[j]] = map BY <2>4
    <3> QED BY <2>4, <3>1, <3>2
  <2>6. CASE ~Covers(map[j], r) /\ MergesForward(map[j], r)
    <3>1. new = [map EXCEPT ![j] = [map[j] EXCEPT !.end_pfn = r.end_pfn]] BY <2>3, <2>6
    <3>2. Merged(map[j], r) = [map[j] EXCEPT !.end_pfn = r.end_pfn] BY <2>6 DEF Merged
    <3> HIDE DEF new
    <3>3. new = [map EXCEPT ![j] = Merged(map[j], r)] BY <3>1, <3>2
    <3> QED BY <2>4, <3>3 DEF new
  <2>7. CASE ~Covers(map[j], r) /\ ~MergesForward(map[j], r)
    <3>1. new = [map EXCEPT ![j] = [map[j] EXCEPT !.start_pfn = r.start_pfn]] BY <2>3, <2>7
    <3>2. Merged(map[j], r) = [map[j] EXCEPT !.start_pfn = r.start_pfn] BY <2>7 DEF Merged
    <3> HIDE DEF new
    <3>3. new = [map EXCEPT ![j] = Merged(map[j], r)] BY <3>1, <3>2
    <3> QED BY <2>4, <3>3 DEF new
  <2> QED BY <2>5, <2>6, <2>7
<1> QED BY <1>1, <1>2

\* A range that fits makes the entry grow; only one that surrounds it is not all taken.
LEMMA MergedGrows ==
  ASSUME NEW a \in ActiveRegion, NEW r \in ActiveRegion, a.nid = r.nid, Fits(a, r),
         a.start_pfn <= a.end_pfn, r.start_pfn <= r.end_pfn
  PROVE  LET x == Merged(a, r)
         IN /\ x \in ActiveRegion /\ x.nid = r.nid
            /\ Covers(x, a) /\ x.start_pfn <= x.end_pfn
            /\ a.start_pfn < a.end_pfn => x.start_pfn < x.end_pfn
            /\ Covers(x, r) \/ (r.start_pfn < a.start_pfn /\ a.end_pfn < r.end_pfn)
            /\ Pages(x) \subseteq Pages(a) \cup Pages(r)
            /\ x.start_pfn = a.start_pfn \/ x.start_pfn = r.start_pfn
            /\ x.end_pfn = a.end_pfn \/ x.end_pfn = r.end_pfn
<1> USE DEF Fits
<1>1. CASE Covers(a, r) BY <1>1 DEF Merged, Covers, ActiveRegion
<1>2. CASE ~Covers(a, r) /\ MergesForward(a, r)
  <2> DEFINE x == [a EXCEPT !.end_pfn = r.end_pfn]
  <2>1. Merged(a, r) = x BY <1>2 DEF Merged
  <2>2. x \in ActiveRegion /\ x.nid = a.nid /\ x.start_pfn = a.start_pfn /\ x.end_pfn = r.end_pfn
    BY DEF ActiveRegion
  <2>3. Pages(x) \subseteq Pages(a) \cup Pages(r) BY <1>2, MergedPages
  <2> HIDE DEF x
  <2> QED BY <1>2, <2>1, <2>2, <2>3 DEF Covers, MergesForward, ActiveRegion
<1>3. CASE ~Covers(a, r) /\ ~MergesForward(a, r)
  <2> DEFINE x == [a EXCEPT !.start_pfn = r.start_pfn]
  <2>1. Merged(a, r) = x BY <1>3 DEF Merged
  <2>2. x \in ActiveRegion /\ x.nid = a.nid /\ x.start_pfn = r.start_pfn /\ x.end_pfn = a.end_pfn
    BY DEF ActiveRegion
  <2>3. Pages(x) \subseteq Pages(a) \cup Pages(r) BY <1>3, MergedPages
  <2> HIDE DEF x
  <2> QED BY <1>3, <2>1, <2>2, <2>3 DEF Covers, MergesForward, MergesBackward, ActiveRegion
<1> QED BY <1>1, <1>2, <1>3

\* The entries of a longer table.
LEMMA AppendedSeqs ==
  ASSUME NEW map \in Seq(ActiveRegion), NEW r \in ActiveRegion
  PROVE  Seqs(Append(map, r)) = Seqs(map) \cup {r}
<1> DEFINE s == Append(map, r)
<1>1. /\ s \in Seq(ActiveRegion) /\ Len(s) = Len(map) + 1 /\ s[Len(map) + 1] = r
      /\ \A i \in 1..Len(map) : s[i] = map[i]
  BY AppendProperties
<1>2. Len(map) \in Nat /\ DOMAIN map = 1..Len(map) /\ DOMAIN s = 1..(Len(map) + 1) BY <1>1
<1> HIDE DEF s
<1>3. Seqs(s) \subseteq Seqs(map) \cup {r}
  <2> SUFFICES ASSUME NEW i \in DOMAIN s PROVE s[i] \in Seqs(map) \cup {r} BY DEF Seqs
  <2>1. CASE i \in 1..Len(map) BY <1>1, <1>2, <2>1 DEF Seqs
  <2>2. CASE i \notin 1..Len(map)
    <3>1. i = Len(map) + 1 BY <1>2, <2>2
    <3> QED BY <1>1, <3>1
  <2> QED BY <2>1, <2>2
<1>4. Seqs(map) \subseteq Seqs(s)
  <2> SUFFICES ASSUME NEW i \in 1..Len(map) PROVE map[i] \in Seqs(s) BY <1>2 DEF Seqs
  <2>1. i \in DOMAIN s /\ s[i] = map[i] BY <1>1, <1>2
  <2> QED BY <2>1 DEF Seqs
<1>5. r \in Seqs(s)
  <2>1. Len(map) + 1 \in DOMAIN s BY <1>2
  <2> QED BY <1>1, <2>1 DEF Seqs
<1> QED BY <1>3, <1>4, <1>5 DEF s

\* Nothing is lost: entries grow, and unless the table is full the range is taken, if it
\* surrounds no entry.
LEMMA AddLosesNothing ==
  ASSUME NEW map \in Seq(ActiveRegion), NEW r \in ActiveRegion, Len(map) <= MAX_ACTIVE_REGIONS,
         \A a \in Seqs(map) : a.start_pfn <= a.end_pfn, r.start_pfn <= r.end_pfn
  PROVE  LET new == add_active_range(map, r)
         IN /\ Len(map) <= Len(new)
            /\ \A a \in Seqs(map) : \E x \in Seqs(new) : x.nid = a.nid /\ Covers(x, a)
            /\ \A x \in Seqs(new) : Covers(x, r) \/ \E a \in Seqs(map) : Covers(x, a)
            /\ \A x \in Seqs(new) : x.start_pfn <= x.end_pfn
            /\ \/ Len(new) >= MAX_ACTIVE_REGIONS
               \/ \E a \in Seqs(map) : r.start_pfn < a.start_pfn /\ a.end_pfn < r.end_pfn
               \/ \E x \in Seqs(new) : x.nid = r.nid /\ Covers(x, r)
<1> DEFINE new == add_active_range(map, r)
           Goal(s) ==
             /\ Len(map) <= Len(s)
             /\ \A a \in Seqs(map) : \E x \in Seqs(s) : x.nid = a.nid /\ Covers(x, a)
             /\ \A x \in Seqs(s) : Covers(x, r) \/ \E a \in Seqs(map) : Covers(x, a)
             /\ \A x \in Seqs(s) : x.start_pfn <= x.end_pfn
             /\ \/ Len(s) >= MAX_ACTIVE_REGIONS
                \/ \E a \in Seqs(map) : r.start_pfn < a.start_pfn /\ a.end_pfn < r.end_pfn
                \/ \E x \in Seqs(s) : x.nid = r.nid /\ Covers(x, r)
<1> SUFFICES Goal(new) OBVIOUS
<1>0. \A a \in Seqs(map) : a \in ActiveRegion BY DEF Seqs
<1>1. \A a \in ActiveRegion : Covers(a, a) BY DEF Covers, ActiveRegion
<1>2. Len(map) \in Nat /\ MAX_ACTIVE_REGIONS \in Nat BY SizeAssumption
<1>3. CASE new = map /\ Len(map) >= MAX_ACTIVE_REGIONS
  <2> HIDE DEF new
  <2>1. Goal(map) BY <1>0, <1>1, <1>2, <1>3
  <2> QED BY <1>3, <2>1
<1>4. CASE new = Append(map, r)
  <2>1. Append(map, r) \in Seq(ActiveRegion) /\ Len(Append(map, r)) = Len(map) + 1
    BY AppendProperties
  <2>2. Seqs(Append(map, r)) = Seqs(map) \cup {r} BY AppendedSeqs
  <2>3. Goal(Append(map, r)) BY <1>0, <1>1, <1>2, <2>1, <2>2
  <2> HIDE DEF new, Goal
  <2> QED BY <1>4, <2>3
<1>5. ASSUME NEW j \in 1..Len(map), map[j].nid = r.nid, Fits(map[j], r),
             new = [map EXCEPT ![j] = Merged(map[j], r)]
      PROVE  Goal(new)
  <2> DEFINE x == Merged(map[j], r)
             s == [map EXCEPT ![j] = x]
  <2>1. map[j] \in ActiveRegion /\ map[j] \in Seqs(map) BY DEF Seqs
  <2>2. /\ x \in ActiveRegion /\ x.nid = r.nid /\ Covers(x, map[j]) /\ x.start_pfn <= x.end_pfn
        /\ Covers(x, r) \/ (r.start_pfn < map[j].start_pfn /\ map[j].end_pfn < r.end_pfn)
    BY <1>5, <2>1, MergedGrows
  <2> HIDE DEF x
  <2>3. /\ s \in Seq(ActiveRegion) /\ Len(s) = Len(map)
        /\ \A i \in 1..Len(map) : s[i] = IF i = j THEN x ELSE map[i]
    BY <2>2, ExceptSeq
  <2>4. DOMAIN s = 1..Len(map) /\ DOMAIN map = 1..Len(map) BY <2>3
  <2>5. x \in Seqs(s) BY <2>3, <2>4 DEF Seqs
  <2>6. \A i \in 1..Len(map) : i # j => map[i] \in Seqs(s)
    <3> SUFFICES ASSUME NEW i \in 1..Len(map), i # j PROVE map[i] \in Seqs(s) OBVIOUS
    <3>1. s[i] = map[i] BY <2>3
    <3> HIDE DEF s
    <3> QED BY <2>4, <3>1 DEF Seqs
  <2>7. \A y \in Seqs(s) : y = x \/ y \in Seqs(map)
    <3> HIDE DEF s
    <3> QED BY <2>3, <2>4 DEF Seqs
  <2> HIDE DEF s
  <2>8. \A a \in Seqs(map) : \E y \in Seqs(s) : y.nid = a.nid /\ Covers(y, a)
    <3> SUFFICES ASSUME NEW i \in 1..Len(map)
                 PROVE  \E y \in Seqs(s) : y.nid = map[i].nid /\ Covers(y, map[i])
      BY DEF Seqs
    <3>1. CASE i = j BY <1>5, <2>2, <2>5, <3>1
    <3>2. CASE i # j
      <4>1. map[i] \in Seqs(s) /\ map[i] \in ActiveRegion BY <2>6, <3>2
      <4> QED BY <1>1, <4>1
    <3> QED BY <3>1, <3>2
  <2>9. \A y \in Seqs(s) : Covers(y, r) \/ \E a \in Seqs(map) : Covers(y, a)
    BY <1>0, <1>1, <2>1, <2>2, <2>7
  <2>10. \A y \in Seqs(s) : y.start_pfn <= y.end_pfn BY <2>2, <2>7
  <2>11. \/ \E a \in Seqs(map) : r.start_pfn < a.start_pfn /\ a.end_pfn < r.end_pfn
         \/ \E y \in Seqs(s) : y.nid = r.nid /\ Covers(y, r)
    BY <2>1, <2>2, <2>5
  <2>12. Goal(s) BY <1>2, <2>3, <2>8, <2>9, <2>10, <2>11
  <2> HIDE DEF new, Goal
  <2> QED BY <1>5, <2>12 DEF s, x
<1>6. \/ new = map /\ Len(map) >= MAX_ACTIVE_REGIONS
      \/ new = Append(map, r)
      \/ \E j \in 1..Len(map) :
           map[j].nid = r.nid /\ Fits(map[j], r) /\ new = [map EXCEPT ![j] = Merged(map[j], r)]
  BY AddCases
<1> HIDE DEF new, Goal
<1> QED BY <1>3, <1>4, <1>5, <1>6

-----------------------------------------------------------------------------
(* Registration: NothingLost, EntriesDisjoint and EntriesApart. *)

\* What TLAPS has to know of a run that registers.
Facts ==
  /\ TypeOK /\ Tables
  /\ mye820 = E820Map(firmware)
  /\ \A b \in Seqs(node_memblk_range) : b.start <= b.end

\* Pieces depend on the tables that are read only.
LEMMA PiecesFrame ==
  ASSUME UNCHANGED <<node_memblk_range, mye820>>
  PROVE  /\ Live' = Live /\ LivePieces' = LivePieces
         /\ (\A q \in Live : Registered(q)' <=> Registered(q)) => RegisteredPieces' = RegisteredPieces
<1>1. Windows' = Windows BY DEF Windows
<1>2. \A q : Piece(q[1], q[2])' = Piece(q[1], q[2]) BY <1>1 DEF Piece, RangeIn, Greater, Smaller, FirstPfn, EndPfn
<1>3. Live' = Live BY <1>1 DEF Live, Active, FirstPfn, EndPfn
<1>4. LivePieces' = LivePieces BY <1>2, <1>3 DEF LivePieces
<1>5. ASSUME \A q \in Live : Registered(q)' <=> Registered(q)
      PROVE  RegisteredPieces' = RegisteredPieces
  <2>1. {x \in Live : Registered(x)}' = {x \in Live : Registered(x)} BY <1>3, <1>5
  <2> QED BY <1>2, <2>1 DEF RegisteredPieces
<1> QED BY <1>3, <1>4, <1>5

\* A piece has the type of an entry, does not end before it starts, and does not overlap
\* another one.
LEMMA PieceFacts ==
  ASSUME Facts
  PROVE  /\ \A r \in LivePieces : r \in ActiveRegion /\ r.start_pfn <= r.end_pfn
         /\ Sane => \A r, s \in LivePieces : r = s \/ r.end_pfn <= s.start_pfn \/ s.end_pfn <= r.start_pfn
         /\ Sane /\ BlocksHavePages => \A r \in LivePieces : r.start_pfn < r.end_pfn
         /\ RegisteredPieces \subseteq LivePieces
<1> USE DEF Facts
<1>1. \A r \in LivePieces : r \in ActiveRegion /\ r.start_pfn <= r.end_pfn
  BY PieceBounds DEF LivePieces
<1>2. ASSUME Sane, NEW r \in LivePieces, NEW s \in LivePieces
      PROVE  r = s \/ r.end_pfn <= s.start_pfn \/ s.end_pfn <= r.start_pfn
  <2>1. PICK x \in Live : r = Piece(x[1], x[2]) BY DEF LivePieces
  <2>2. PICK y \in Live : s = Piece(y[1], y[2]) BY DEF LivePieces
  <2> QED BY <1>2, <2>1, <2>2, PiecesApart
<1>3. Sane /\ BlocksHavePages => \A r \in LivePieces : r.start_pfn < r.end_pfn
  BY PieceNonEmpty DEF LivePieces
<1>4. RegisteredPieces \subseteq LivePieces BY DEF RegisteredPieces, LivePieces
<1> QED BY <1>1, <1>2, <1>3, <1>4

\* What a step of the registration registers.
LEMMA RegisteredNow ==
  ASSUME Facts, Phase, Register
  PROVE  LET w == Windows[m]
             e == mye820[n]
             r == Piece(m, n)
         IN /\ UNCHANGED <<node_memblk_range, mye820>>
            /\ Active(e, w) => r \in LivePieces
            /\ early_node_map' = IF Active(e, w) THEN add_active_range(early_node_map, r) ELSE early_node_map
            /\ runs > 1 => RegisteredPieces = LivePieces /\ RegisteredPieces' = LivePieces
            /\ RegisteredPieces \subseteq RegisteredPieces'
            /\ RegisteredPieces' \subseteq RegisteredPieces \cup (IF Active(e, w) THEN {r} ELSE {})
            /\ Active(e, w) => r \in RegisteredPieces'
            /\ Active(e, w) /\ Sane /\ runs = 1 =>
                 \A s \in RegisteredPieces :
                   /\ s.end_pfn <= r.start_pfn \/ r.end_pfn <= s.start_pfn
                   /\ Ascending => s.end_pfn <= r.start_pfn
<1> USE DEF Facts
<1> DEFINE w == Windows[m]
           e == mye820[n]
           r == Piece(m, n)
           z == <<m, n>>
<1>1. /\ pc = "register" /\ m \in DOMAIN Windows /\ n \in DOMAIN mye820 /\ m \in Nat /\ n \in Nat
      /\ DOMAIN Windows \subseteq Nat /\ DOMAIN mye820 \subseteq Nat
      /\ pc' = pc /\ m' = m /\ n' = n + 1 /\ runs' = runs
      /\ UNCHANGED <<node_memblk_range, mye820>>
  BY WindowsType DEF Register, TypeOK
<1>2. early_node_map' = IF Active(e, w) THEN add_active_range(early_node_map, r) ELSE early_node_map
  BY DEF Register, Piece
<1>3. runs \in Nat /\ runs > 0 BY <1>1 DEF Phase, TypeOK
<1>4. \A q \in Live : q[1] \in Nat /\ q[2] \in Nat /\ q = <<q[1], q[2]>> BY <1>1 DEF Live
<1>5. Active(e, w) <=> z \in Live BY <1>1 DEF Live
<1>6. z \in Live => r \in LivePieces BY DEF LivePieces
<1>7. /\ \A q : Registered(q) <=> (runs = 1 => Before(q, z))
      /\ \A q : Registered(q)' <=> (runs = 1 => Before(q, <<m, n + 1>>))
  BY <1>1, <1>3 DEF Registered, Before
<1>8. Live' = Live /\ \A q : Piece(q[1], q[2])' = Piece(q[1], q[2])
  <2>1. Windows' = Windows BY <1>1 DEF Windows
  <2> QED BY <1>1, <2>1, PiecesFrame DEF Piece, RangeIn, Greater, Smaller, FirstPfn, EndPfn
<1>9. RegisteredPieces' = {Piece(q[1], q[2]) : q \in {x \in Live : runs = 1 => Before(x, <<m, n + 1>>)}}
  BY <1>7, <1>8 DEF RegisteredPieces
<1>10. RegisteredPieces = {Piece(q[1], q[2]) : q \in {x \in Live : runs = 1 => Before(x, z)}}
  BY <1>7 DEF RegisteredPieces
<1>11. \A q \in Live : Before(q, <<m, n + 1>>) <=> Before(q, z) \/ q = z
  BY <1>1, <1>4 DEF Before
<1>12. runs > 1 => RegisteredPieces = LivePieces /\ RegisteredPieces' = LivePieces
  <2> SUFFICES ASSUME runs > 1 PROVE RegisteredPieces = LivePieces /\ RegisteredPieces' = LivePieces
    OBVIOUS
  <2>1. ~(runs = 1) BY <1>3
  <2>2. {x \in Live : runs = 1 => Before(x, z)} = Live
        /\ {x \in Live : runs = 1 => Before(x, <<m, n + 1>>)} = Live
    BY <2>1
  <2> QED BY <1>9, <1>10, <2>2 DEF LivePieces
<1>13. RegisteredPieces \subseteq RegisteredPieces' BY <1>9, <1>10, <1>11
<1>14. RegisteredPieces' \subseteq RegisteredPieces \cup (IF Active(e, w) THEN {r} ELSE {})
  <2> SUFFICES ASSUME NEW q \in Live, runs = 1 => Before(q, <<m, n + 1>>)
               PROVE  Piece(q[1], q[2]) \in RegisteredPieces \cup (IF Active(e, w) THEN {r} ELSE {})
    BY <1>9
  <2>1. CASE q = z BY <1>5, <2>1
  <2>2. CASE q # z BY <1>10, <1>11, <2>2
  <2> QED BY <2>1, <2>2
<1>15. Active(e, w) => r \in RegisteredPieces'
  <2> SUFFICES ASSUME Active(e, w) PROVE r \in RegisteredPieces' OBVIOUS
  <2>1. z \in {x \in Live : runs = 1 => Before(x, <<m, n + 1>>)} BY <1>5, <1>11
  <2>2. r = Piece(z[1], z[2]) OBVIOUS
  <2> HIDE DEF r, z
  <2> QED BY <1>9, <2>1, <2>2
<1>16. ASSUME Active(e, w), Sane, runs = 1, NEW s \in RegisteredPieces
       PROVE  /\ s.end_pfn <= r.start_pfn \/ r.end_pfn <= s.start_pfn
              /\ Ascending => s.end_pfn <= r.start_pfn
  <2>1. PICK q \in Live : Before(q, z) /\ s = Piece(q[1], q[2]) BY <1>10, <1>16
  <2>2. q # z BY <1>1, <2>1 DEF Before
  <2>3. z \in Live BY <1>5, <1>16
  <2>4. r = Piece(z[1], z[2]) OBVIOUS
  <2> HIDE DEF r, z
  <2> QED BY <1>16, <2>1, <2>2, <2>3, <2>4, PiecesApart
<1> HIDE DEF w, e, r
<1> QED BY <1>1, <1>2, <1>5, <1>6, <1>12, <1>13, <1>14, <1>15, <1>16 DEF w, e, r

\* Registering a piece loses nothing.
LEMMA RegisterLosesNothing ==
  ASSUME Facts, Phase, NothingLost, Register
  PROVE  NothingLost'
<1> DEFINE r == Piece(m, n)
<1>1. early_node_map \in Seq(ActiveRegion) /\ Len(early_node_map) <= MAX_ACTIVE_REGIONS
      /\ Len(early_node_map) \in Nat /\ MAX_ACTIVE_REGIONS \in Nat
  BY SizeAssumption DEF Facts, TypeOK
<1>2. LivePieces' = LivePieces BY RegisteredNow, PiecesFrame
<1>3. Sane' <=> Sane BY DEF Register, Sane, FirmwareSane, BlocksDisjoint, Disjoint, inputs
<1>4. CASE ~Active(mye820[n], Windows[m])
  <2>1. early_node_map' = early_node_map /\ RegisteredPieces' \subseteq RegisteredPieces
    BY <1>4, RegisteredNow
  <2> QED BY <1>2, <1>3, <2>1 DEF NothingLost, Holds, Seqs, Covers
<1>5. CASE Active(mye820[n], Windows[m])
  <2> DEFINE map == early_node_map
             new == add_active_range(map, r)
  <2>1. /\ early_node_map' = new /\ RegisteredPieces' \subseteq RegisteredPieces \cup {r}
        /\ r \in LivePieces
    BY <1>5, RegisteredNow
  <2>2. r \in ActiveRegion /\ r.start_pfn <= r.end_pfn BY <2>1, PieceFacts
  <2> SUFFICES ASSUME Sane, Len(new) < MAX_ACTIVE_REGIONS
               PROVE  /\ \A s \in RegisteredPieces' : \E a \in Seqs(new) : a.nid = s.nid /\ Covers(a, s)
                      /\ \A a \in Seqs(new) : \E s \in LivePieces : Covers(a, s)
    BY <1>2, <1>3, <2>1 DEF NothingLost, Holds, Seqs, Covers
  <2>3. new \in Seq(ActiveRegion) /\ Len(new) \in Nat
    <3> HIDE DEF r
    <3> QED BY <1>1, <2>2, AddedPages
  <2> HIDE DEF r
  <2>4. CASE Len(map) >= MAX_ACTIVE_REGIONS
    <3>1. Len(new) >= Len(map)
      <4>1. \/ new = map \/ new = Append(map, r)
            \/ \E j \in 1..Len(map) : new = [map EXCEPT ![j] = Merged(map[j], r)]
        BY <1>1, <2>2, AddCases
      <4>2. Len(Append(map, r)) = Len(map) + 1 BY <1>1, <2>2, AppendProperties
      <4>3. \A x : \A j \in 1..Len(map) : Len([map EXCEPT ![j] = x]) = Len(map) BY <1>1
      <4> QED BY <1>1, <4>1, <4>2, <4>3
    <3> QED BY <1>1, <2>3, <2>4, <3>1
  <2>5. CASE Len(map) < MAX_ACTIVE_REGIONS
    <3>1. /\ \A s \in RegisteredPieces : \E a \in Seqs(map) : a.nid = s.nid /\ Covers(a, s)
          /\ \A a \in Seqs(map) : \E s \in LivePieces : Covers(a, s)
      BY <2>5 DEF NothingLost, Holds
    <3>2. \A s \in LivePieces : /\ s \in ActiveRegion /\ s.start_pfn <= s.end_pfn
                                /\ r = s \/ r.end_pfn <= s.start_pfn \/ s.end_pfn <= r.start_pfn
      BY <2>1, PieceFacts
    <3>3. \A a \in Seqs(map) : a \in ActiveRegion BY <1>1 DEF Seqs
    <3>4. \A a \in Seqs(map) : a.start_pfn <= a.end_pfn
      BY <3>1, <3>2, <3>3 DEF Covers, ActiveRegion
    <3>5. ~\E a \in Seqs(map) : r.start_pfn < a.start_pfn /\ a.end_pfn < r.end_pfn
      BY <2>2, <3>1, <3>2, <3>3 DEF Covers, ActiveRegion
    <3>6. /\ \A a \in Seqs(map) : \E x \in Seqs(new) : x.nid = a.nid /\ Covers(x, a)
          /\ \A x \in Seqs(new) : Covers(x, r) \/ \E a \in Seqs(map) : Covers(x, a)
          /\ \/ Len(new) >= MAX_ACTIVE_REGIONS
             \/ \E a \in Seqs(map) : r.start_pfn < a.start_pfn /\ a.end_pfn < r.end_pfn
             \/ \E x \in Seqs(new) : x.nid = r.nid /\ Covers(x, r)
      BY <1>1, <2>2, <3>4, AddLosesNothing
    <3>7. \E x \in Seqs(new) : x.nid = r.nid /\ Covers(x, r)
      <4>1. ~(Len(new) >= MAX_ACTIVE_REGIONS) BY <1>1, <2>3
      <4> QED BY <3>5, <3>6, <4>1, Zenon
    <3>8. \A x \in Seqs(new) : x \in ActiveRegion BY <2>3 DEF Seqs
    <3> HIDE DEF new, map
    <3>9. \A s \in RegisteredPieces' : \E a \in Seqs(new) : a.nid = s.nid /\ Covers(a, s)
      <4> SUFFICES ASSUME NEW s \in RegisteredPieces, s \in LivePieces
                   PROVE  \E a \in Seqs(new) : a.nid = s.nid /\ Covers(a, s)
        BY <2>1, <3>7, PieceFacts
      <4>1. PICK a \in Seqs(map) : a.nid = s.nid /\ Covers(a, s) BY <3>1
      <4>2. PICK x \in Seqs(new) : x.nid = a.nid /\ Covers(x, a) BY <3>6
      <4>3. x \in ActiveRegion /\ a \in ActiveRegion /\ s \in ActiveRegion BY <3>2, <3>3, <3>8
      <4>4. Covers(x, s) BY <4>1, <4>2, <4>3 DEF Covers, ActiveRegion
      <4> QED BY <4>1, <4>2, <4>4
    <3>10. \A a \in Seqs(new) : \E s \in LivePieces : Covers(a, s)
      <4> SUFFICES ASSUME NEW x \in Seqs(new) PROVE \E s \in LivePieces : Covers(x, s) OBVIOUS
      <4>1. CASE Covers(x, r) BY <2>1, <4>1
      <4>2. ASSUME NEW a \in Seqs(map), Covers(x, a) PROVE \E s \in LivePieces : Covers(x, s)
        <5>1. PICK s \in LivePieces : Covers(a, s) BY <3>1
        <5>2. x \in ActiveRegion /\ a \in ActiveRegion /\ s \in ActiveRegion BY <3>2, <3>3, <3>8
        <5>3. Covers(x, s) BY <4>2, <5>1, <5>2 DEF Covers, ActiveRegion
        <5> QED BY <5>3
      <4> QED BY <3>6, <4>1, <4>2
    <3> QED BY <3>9, <3>10
  <2> QED BY <1>1, <2>4, <2>5
<1> QED BY <1>4, <1>5

\* The entries after a range was merged.
LEMMA MergedSeqs ==
  ASSUME NEW map \in Seq(ActiveRegion), NEW j \in 1..Len(map), NEW x \in ActiveRegion
  PROVE  LET s == [map EXCEPT ![j] = x]
         IN /\ s \in Seq(ActiveRegion) /\ Len(s) = Len(map) /\ DOMAIN s = DOMAIN map
            /\ \A i \in DOMAIN s : s[i] = IF i = j THEN x ELSE map[i]
            /\ \A a \in Seqs(s) : a = x \/ a \in Seqs(map)
<1> DEFINE s == [map EXCEPT ![j] = x]
<1>1. /\ s \in Seq(ActiveRegion) /\ Len(s) = Len(map)
      /\ \A i \in 1..Len(map) : s[i] = IF i = j THEN x ELSE map[i]
  BY ExceptSeq
<1>2. DOMAIN s = 1..Len(map) /\ DOMAIN map = 1..Len(map) BY <1>1
<1> HIDE DEF s
<1>3. \A a \in Seqs(s) : a = x \/ a \in Seqs(map) BY <1>1, <1>2 DEF Seqs
<1> QED BY <1>1, <1>2, <1>3 DEF s

\* On a later run, when all is listed by address, the entry that holds a piece is the only
\* one the piece fits, and one that found the table full fits none.
LEMMA RerunFits ==
  ASSUME Facts, Phase, EntriesDisjoint, EntriesApart, Register,
         runs > 1, Sane, BlocksHavePages, Ascending
  PROVE  early_node_map' = early_node_map
<1> DEFINE r == Piece(m, n)
           map == early_node_map
<1>1. map \in Seq(ActiveRegion) /\ Len(map) <= MAX_ACTIVE_REGIONS
      /\ Len(map) \in Nat /\ MAX_ACTIVE_REGIONS \in Nat
  BY SizeAssumption DEF Facts, TypeOK
<1>2. CASE ~Active(mye820[n], Windows[m]) BY <1>2, RegisteredNow
<1>3. CASE Active(mye820[n], Windows[m])
  <2>1. map' = add_active_range(map, r) /\ r \in LivePieces /\ r \in RegisteredPieces
    BY <1>3, RegisteredNow
  <2>2. r \in ActiveRegion /\ r.start_pfn < r.end_pfn BY <2>1, PieceFacts
  <2> HIDE DEF r
  <2>3. \A i \in 1..Len(map) : map[i] \in ActiveRegion /\ map[i].start_pfn < map[i].end_pfn
        /\ map[i] \in Seqs(map)
    BY <1>1 DEF EntriesDisjoint, Seqs
  <2>4. \A i, k \in 1..Len(map) : i < k =>
          /\ map[i].end_pfn <= map[k].start_pfn
          /\ map[i].nid = map[k].nid => map[i].end_pfn < map[k].start_pfn
    BY <1>1 DEF EntriesApart
  <2>5. CASE Holds(r)
    <3>1. PICK b \in 1..Len(map) : map[b].nid = r.nid /\ Covers(map[b], r)
      BY <1>1, <2>5 DEF Holds, Seqs
    <3>2. ASSUME NEW j \in 1..Len(map), map[j].nid = r.nid, Fits(map[j], r)
          PROVE  j = b
      <4>1. map[j] \in ActiveRegion /\ map[b] \in ActiveRegion
            /\ map[j].start_pfn < map[j].end_pfn /\ map[b].start_pfn < map[b].end_pfn
        BY <2>3
      <4>2. CASE j < b
        <5>1. map[j].end_pfn < map[b].start_pfn BY <2>4, <3>1, <3>2, <4>2
        <5> HIDE DEF map
        <5> QED BY <2>2, <3>1, <3>2, <4>1, <5>1
            DEF Fits, Covers, MergesForward, MergesBackward, ActiveRegion
      <4>3. CASE b < j
        <5>1. map[b].end_pfn < map[j].start_pfn BY <2>4, <3>1, <3>2, <4>3
        <5> HIDE DEF map
        <5> QED BY <2>2, <3>1, <3>2, <4>1, <5>1
            DEF Fits, Covers, MergesForward, MergesBackward, ActiveRegion
      <4> QED BY <1>1, <4>2, <4>3
    <3>3. map[b] \in Seqs(map) /\ Fits(map[b], r) BY <2>3, <3>1 DEF Fits
    <3>4. map' = [map EXCEPT ![b] = Merged(map[b], r)]
      <4>1. \E j \in 1..Len(map) :
              map[j].nid = r.nid /\ Fits(map[j], r) /\ add_active_range(map, r) = [map EXCEPT ![j] = Merged(map[j], r)]
        BY <1>1, <2>2, <3>1, <3>3, AddCases
      <4> QED BY <2>1, <3>2, <4>1
    <3>5. Merged(map[b], r) = map[b] BY <3>1 DEF Merged
    <3> QED BY <1>1, <3>4, <3>5
  <2>6. CASE ~Holds(r)
    <3>1. /\ Len(map) >= MAX_ACTIVE_REGIONS
          /\ \A a \in Seqs(map) : a.nid = r.nid => a.end_pfn < r.start_pfn \/ r.end_pfn < a.start_pfn
      BY <2>1, <2>6 DEF EntriesApart
    <3>2. \A j \in 1..Len(map) : map[j].nid = r.nid => ~Fits(map[j], r)
      <4> SUFFICES ASSUME NEW j \in 1..Len(map), map[j].nid = r.nid PROVE ~Fits(map[j], r)
        OBVIOUS
      <4>1. map[j] \in ActiveRegion /\ map[j].start_pfn < map[j].end_pfn BY <2>3
      <4>2. map[j].end_pfn < r.start_pfn \/ r.end_pfn < map[j].start_pfn BY <2>3, <3>1
      <4> HIDE DEF map
      <4> QED BY <2>2, <4>1, <4>2 DEF Fits, Covers, MergesForward, MergesBackward, ActiveRegion
    <3>3. add_active_range(map, r) = map
      <4>1. \/ Len(map) >= MAX_ACTIVE_REGIONS /\ add_active_range(map, r) = map
            \/ Len(map) < MAX_ACTIVE_REGIONS
            \/ \E j \in 1..Len(map) : map[j].nid = r.nid /\ Fits(map[j], r)
        BY <1>1, <2>2, AddCases
      <4> QED BY <1>1, <3>1, <3>2, <4>1
    <3> QED BY <2>1, <3>3
  <2> QED BY <2>5, <2>6
<1> QED BY <1>2, <1>3

\* On the first run a piece is disjoint from all entries.
LEMMA RegisterKeepsDisjoint ==
  ASSUME Facts, Phase, EntriesDisjoint, EntriesApart, Register
  PROVE  EntriesDisjoint'
<1> DEFINE r == Piece(m, n)
           map == early_node_map
           new == add_active_range(map, r)
<1>1. map \in Seq(ActiveRegion) /\ Len(map) <= MAX_ACTIVE_REGIONS
      /\ Len(map) \in Nat /\ MAX_ACTIVE_REGIONS \in Nat
  BY SizeAssumption DEF Facts, TypeOK
<1>2. /\ Sane' <=> Sane
      /\ BlocksHavePages' <=> BlocksHavePages
      /\ Ascending' <=> Ascending
      /\ runs' = runs /\ runs \in Nat
  BY DEF Register, Sane, FirmwareSane, BlocksDisjoint, Disjoint, inputs, BlocksHavePages, Seqs, Ascending,
         Facts, TypeOK
<1> SUFFICES ASSUME Sane, BlocksHavePages, runs <= 1 \/ Ascending
             PROVE  EntriesDisjoint'
  BY <1>2 DEF EntriesDisjoint
<1>3. RegisteredPieces \subseteq RegisteredPieces' BY RegisteredNow
<1>4. CASE early_node_map' = early_node_map
  BY <1>3, <1>4 DEF EntriesDisjoint, Seqs, Pages
<1>5. CASE ~(early_node_map' = early_node_map)
  <2>1. runs = 1
    <3>1. runs <= 1 BY <1>2, <1>5, RerunFits
    <3> QED BY <1>2, <3>1 DEF Phase, Register
  <2>2. /\ Active(mye820[n], Windows[m]) /\ map' = new
        /\ r \in LivePieces /\ r \in RegisteredPieces'
        /\ \A s \in RegisteredPieces : s.end_pfn <= r.start_pfn \/ r.end_pfn <= s.start_pfn
    BY <1>5, <2>1, RegisteredNow
  <2>3. r \in ActiveRegion /\ r.start_pfn < r.end_pfn BY <2>2, PieceFacts
  <2> HIDE DEF r
  <2>4. /\ \A a \in Seqs(map) : /\ a.start_pfn < a.end_pfn
                                /\ \A p \in Pages(a) : \E s \in RegisteredPieces : p \in Pages(s)
        /\ \A i, k \in 1..Len(map) : i # k => Pages(map[i]) \cap Pages(map[k]) = {}
    BY <1>1 DEF EntriesDisjoint
  <2>5. \A a \in Seqs(map) : a \in ActiveRegion BY <1>1 DEF Seqs
  <2>6. \A s \in RegisteredPieces : s \in ActiveRegion BY PieceFacts
  <2>7. \A s \in RegisteredPieces : Pages(s) \cap Pages(r) = {}
    BY <2>2, <2>3, <2>6 DEF Pages, ActiveRegion
  <2>8. \A a \in Seqs(map) : Pages(a) \cap Pages(r) = {} BY <2>4, <2>7
  <2> DEFINE Goal(s) ==
               /\ \A a \in Seqs(s) : /\ a.start_pfn < a.end_pfn
                                     /\ \A p \in Pages(a) : \E x \in RegisteredPieces' : p \in Pages(x)
               /\ \A i, k \in DOMAIN s : i # k => Pages(s[i]) \cap Pages(s[k]) = {}
  <2>9. \A p \in Pages(r) : \E x \in RegisteredPieces' : p \in Pages(x) BY <2>2
  <2>10. \A a \in Seqs(map) : \A p \in Pages(a) : \E x \in RegisteredPieces' : p \in Pages(x)
    BY <1>3, <2>4
  <2>11. CASE new = Append(map, r)
    <3> DEFINE s == Append(map, r)
    <3>1. Seqs(s) = Seqs(map) \cup {r} BY <1>1, <2>3, AppendedSeqs
    <3>2. /\ \A i \in 1..Len(map) : s[i] = map[i] /\ s[i] \in Seqs(map)
          /\ s[Len(map) + 1] = r /\ DOMAIN s = 1..(Len(map) + 1)
      BY <1>1, <2>3, AppendProperties DEF Seqs
    <3> HIDE DEF s
    <3>3. ASSUME NEW i \in DOMAIN s, NEW k \in DOMAIN s, i # k PROVE Pages(s[i]) \cap Pages(s[k]) = {}
      <4>1. CASE i \in 1..Len(map) /\ k \in 1..Len(map) BY <2>4, <3>2, <3>3, <4>1
      <4>2. CASE i \in 1..Len(map) /\ k \notin 1..Len(map)
        <5>1. k = Len(map) + 1 BY <1>1, <3>2, <4>2
        <5> QED BY <2>8, <3>2, <4>2, <5>1
      <4>3. CASE i \notin 1..Len(map)
        <5>1. i = Len(map) + 1 /\ k \in 1..Len(map) BY <1>1, <3>2, <3>3, <4>3
        <5> QED BY <2>8, <3>2, <5>1
      <4> QED BY <4>1, <4>2, <4>3
    <3>4. Goal(s) BY <2>3, <2>4, <2>9, <2>10, <3>1, <3>3
    <3> HIDE DEF Goal
    <3>5. Goal(new) BY <2>11, <3>4 DEF s
    <3> QED BY <1>2, <2>2, <3>5 DEF EntriesDisjoint, Goal, Seqs, Pages
  <2>12. ASSUME NEW j \in 1..Len(map), map[j].nid = r.nid, Fits(map[j], r),
                new = [map EXCEPT ![j] = Merged(map[j], r)]
         PROVE  EntriesDisjoint'
    <3> DEFINE x == Merged(map[j], r)
               s == [map EXCEPT ![j] = x]
    <3>1. map[j] \in ActiveRegion /\ map[j] \in Seqs(map) /\ map[j].start_pfn < map[j].end_pfn
      BY <1>1, <2>4 DEF Seqs
    <3>2. x \in ActiveRegion /\ x.start_pfn < x.end_pfn /\ Pages(x) \subseteq Pages(map[j]) \cup Pages(r)
      <4>1. map[j].start_pfn <= map[j].end_pfn /\ r.start_pfn <= r.end_pfn
        BY <2>3, <3>1 DEF ActiveRegion
      <4> QED BY <2>3, <2>12, <3>1, <4>1, MergedGrows
    <3> HIDE DEF x
    <3>3. /\ DOMAIN s = 1..Len(map) /\ \A i \in 1..Len(map) : s[i] = IF i = j THEN x ELSE map[i]
          /\ \A a \in Seqs(s) : a = x \/ a \in Seqs(map)
      BY <1>1, <3>2, MergedSeqs
    <3> HIDE DEF s
    <3>4. ASSUME NEW i \in DOMAIN s, NEW k \in DOMAIN s, i # k PROVE Pages(s[i]) \cap Pages(s[k]) = {}
      <4>1. i \in 1..Len(map) /\ k \in 1..Len(map) BY <3>3
      <4>2. map[i] \in Seqs(map) /\ map[k] \in Seqs(map) BY <1>1, <4>1 DEF Seqs
      <4>3. Pages(map[i]) \cap Pages(map[k]) = {} BY <2>4, <3>4, <4>1
      <4>4. CASE i = j BY <2>8, <3>2, <3>3, <3>4, <4>1, <4>2, <4>3, <4>4
      <4>5. CASE k = j BY <2>8, <3>2, <3>3, <3>4, <4>1, <4>2, <4>3, <4>5
      <4>6. CASE i # j /\ k # j BY <3>3, <4>1, <4>3, <4>6
      <4> QED BY <4>4, <4>5, <4>6
    <3>5. Goal(s)
      <4>1. \A p \in Pages(x) : \E y \in RegisteredPieces' : p \in Pages(y)
        BY <2>9, <2>10, <3>1, <3>2
      <4> QED BY <2>4, <2>10, <3>2, <3>3, <3>4, <4>1
    <3> HIDE DEF Goal
    <3>6. Goal(new) BY <2>12, <3>5 DEF s, x
    <3> QED BY <1>2, <2>2, <3>6 DEF EntriesDisjoint, Goal, Seqs, Pages
  <2>13. \/ new = map \/ new = Append(map, r)
         \/ \E j \in 1..Len(map) :
              map[j].nid = r.nid /\ Fits(map[j], r) /\ new = [map EXCEPT ![j] = Merged(map[j], r)]
    BY <1>1, <2>3, AddCases
  <2> QED BY <1>5, <2>2, <2>11, <2>12, <2>13
<1> QED BY <1>4, <1>5

\* On the first run a piece comes after all entries, and touches the last one at most.
LEMMA RegisterKeepsApart ==
  ASSUME Facts, Phase, EntriesDisjoint, EntriesApart, Register
  PROVE  EntriesApart'
<1> DEFINE r == Piece(m, n)
           map == early_node_map
           new == add_active_range(map, r)
           Ordered(s) == \A i, k \in DOMAIN s : i < k =>
                           /\ s[i].end_pfn <= s[k].start_pfn
                           /\ s[i].nid = s[k].nid => s[i].end_pfn < s[k].start_pfn
           Held(s, x) == \E a \in Seqs(s) : a.nid = x.nid /\ Covers(a, x)
           Dropped(s, x) == /\ Len(s) >= MAX_ACTIVE_REGIONS
                            /\ \A a \in Seqs(s) : a.nid = x.nid => a.end_pfn < x.start_pfn \/ x.end_pfn < a.start_pfn
<1>1. map \in Seq(ActiveRegion) /\ Len(map) <= MAX_ACTIVE_REGIONS
      /\ Len(map) \in Nat /\ MAX_ACTIVE_REGIONS \in Nat
  BY SizeAssumption DEF Facts, TypeOK
<1>2. /\ Sane' <=> Sane
      /\ BlocksHavePages' <=> BlocksHavePages
      /\ Ascending' <=> Ascending
      /\ runs' = runs /\ runs \in Nat /\ runs > 0
  BY DEF Register, Sane, FirmwareSane, BlocksDisjoint, Disjoint, inputs, BlocksHavePages, Seqs, Ascending,
         Facts, TypeOK, Phase
<1> SUFFICES ASSUME Sane, BlocksHavePages, Ascending,
                    NEW s, s = map'
             PROVE  Ordered(s) /\ \A x \in RegisteredPieces' : Held(s, x) \/ Dropped(s, x)
  BY <1>2 DEF EntriesApart, Holds, Seqs, Covers
<1>3. Ordered(map) /\ \A x \in RegisteredPieces : Held(map, x) \/ Dropped(map, x)
  BY DEF EntriesApart, Holds
<1>4. \A x \in RegisteredPieces : x \in ActiveRegion /\ x.start_pfn < x.end_pfn BY PieceFacts
<1>5. CASE runs > 1
  <2>1. s = map /\ RegisteredPieces' = RegisteredPieces BY <1>5, RerunFits, RegisteredNow
  <2> HIDE DEF Ordered, Held, Dropped
  <2> QED BY <1>3, <2>1
<1>6. CASE ~Active(mye820[n], Windows[m])
  <2>1. s = map /\ RegisteredPieces' \subseteq RegisteredPieces BY <1>6, RegisteredNow
  <2> HIDE DEF Ordered, Held, Dropped
  <2> QED BY <1>3, <2>1
<1>7. CASE runs = 1 /\ Active(mye820[n], Windows[m])
  <2>1. /\ s = new /\ r \in LivePieces /\ RegisteredPieces' \subseteq RegisteredPieces \cup {r}
        /\ \A x \in RegisteredPieces : x.end_pfn <= r.start_pfn
    BY <1>7, RegisteredNow
  <2>2. r \in ActiveRegion /\ r.start_pfn < r.end_pfn BY <2>1, PieceFacts
  <2> HIDE DEF r
  <2>3. \A a \in Seqs(map) :
          a \in ActiveRegion /\ a.start_pfn < a.end_pfn /\ a.end_pfn <= r.start_pfn
    <3> SUFFICES ASSUME NEW a \in Seqs(map)
                 PROVE a \in ActiveRegion /\ a.start_pfn < a.end_pfn /\ a.end_pfn <= r.start_pfn
      OBVIOUS
    <3>1. a \in ActiveRegion BY <1>1 DEF Seqs
    <3>2. a.start_pfn < a.end_pfn BY DEF EntriesDisjoint
    <3>3. a.end_pfn - 1 \in Pages(a) BY <3>1, <3>2 DEF Pages, ActiveRegion
    <3>4. PICK x \in RegisteredPieces : a.end_pfn - 1 \in Pages(x) BY <3>3 DEF EntriesDisjoint
    <3> QED BY <1>4, <2>1, <2>2, <3>1, <3>2, <3>4 DEF Pages, ActiveRegion
  <2>4. \A i \in 1..Len(map) : map[i] \in Seqs(map) BY <1>1 DEF Seqs
  <2>5. \A a \in Seqs(map) : ~Fits(a, r) => a.end_pfn < r.start_pfn
    BY <2>2, <2>3 DEF Fits, MergesForward, ActiveRegion
  <2>6. \A a \in Seqs(map) : Fits(a, r) => a.end_pfn = r.start_pfn /\ ~Covers(a, r) /\ MergesForward(a, r)
    <3> SUFFICES ASSUME NEW a \in Seqs(map), Fits(a, r)
                 PROVE a.end_pfn = r.start_pfn /\ ~Covers(a, r) /\ MergesForward(a, r)
      OBVIOUS
    <3>1. a \in ActiveRegion /\ a.start_pfn < a.end_pfn /\ a.end_pfn <= r.start_pfn BY <2>3
    <3> QED BY <2>2, <3>1 DEF Fits, Covers, MergesForward, MergesBackward, ActiveRegion
  <2>7. CASE new = map /\ Len(map) >= MAX_ACTIVE_REGIONS /\ \A a \in Seqs(map) : a.nid = r.nid => ~Fits(a, r)
    <3>1. Dropped(map, r) BY <2>5, <2>7
    <3>2. \A x \in RegisteredPieces' : Held(map, x) \/ Dropped(map, x)
      <4> HIDE DEF Held, Dropped
      <4> QED BY <1>3, <2>1, <3>1
    <3> HIDE DEF Ordered, Held, Dropped
    <3> QED BY <1>3, <2>1, <2>7, <3>2
  <2>8. CASE new = Append(map, r) /\ Len(map) < MAX_ACTIVE_REGIONS /\ \A a \in Seqs(map) : a.nid = r.nid => ~Fits(a, r)
    <3>1. Seqs(s) = Seqs(map) \cup {r} BY <1>1, <2>1, <2>2, <2>8, AppendedSeqs
    <3>2. /\ \A i \in 1..Len(map) : s[i] = map[i]
          /\ s[Len(map) + 1] = r /\ DOMAIN s = 1..(Len(map) + 1)
      BY <1>1, <2>1, <2>2, <2>8, AppendProperties
    <3>3. Ordered(s)
      <4> SUFFICES ASSUME NEW i \in DOMAIN s, NEW k \in DOMAIN s, i < k
                   PROVE  /\ s[i].end_pfn <= s[k].start_pfn
                          /\ s[i].nid = s[k].nid => s[i].end_pfn < s[k].start_pfn
        OBVIOUS
      <4>1. i \in 1..Len(map) /\ s[i] = map[i] BY <1>1, <3>2
      <4>2. CASE k \in 1..Len(map) BY <1>1, <1>3, <3>2, <4>1, <4>2
      <4>3. CASE k \notin 1..Len(map)
        <5>1. k = Len(map) + 1 /\ s[k] = r BY <1>1, <3>2, <4>3
        <5>2. map[i].end_pfn <= r.start_pfn /\ (map[i].nid = r.nid => map[i].end_pfn < r.start_pfn)
          BY <2>3, <2>4, <2>5, <2>8, <4>1
        <5> QED BY <4>1, <5>1, <5>2
      <4> QED BY <4>2, <4>3
    <3>4. ASSUME NEW x \in RegisteredPieces PROVE Held(s, x)
      <4>1. Held(map, x)
        <5>1. ~(Len(map) >= MAX_ACTIVE_REGIONS) BY <1>1, <2>8
        <5> QED BY <1>3, <5>1
      <4> QED BY <3>1, <4>1
    <3>5. Held(s, r) BY <2>2, <3>1 DEF Covers, ActiveRegion
    <3> HIDE DEF Ordered, Held, Dropped
    <3> QED BY <2>1, <3>3, <3>4, <3>5
  <2>9. ASSUME NEW j \in 1..Len(map), map[j].nid = r.nid, Fits(map[j], r),
               new = [map EXCEPT ![j] = Merged(map[j], r)]
        PROVE  Ordered(s) /\ \A x \in RegisteredPieces' : Held(s, x) \/ Dropped(s, x)
    <3> DEFINE b == map[j]
               x == Merged(b, r)
    <3>1. b \in ActiveRegion /\ b \in Seqs(map) /\ b.start_pfn < b.end_pfn /\ b.end_pfn = r.start_pfn
      BY <2>3, <2>4, <2>6, <2>9
    <3>2. x = [b EXCEPT !.end_pfn = r.end_pfn] BY <2>6, <2>9, <3>1 DEF Merged
    <3>3. x \in ActiveRegion /\ x.nid = b.nid /\ x.start_pfn = b.start_pfn /\ x.end_pfn = r.end_pfn
      <4> HIDE DEF b
      <4>1. [b EXCEPT !.end_pfn = r.end_pfn] \in ActiveRegion BY <2>2, <3>1 DEF ActiveRegion
      <4> HIDE DEF x
      <4> QED BY <3>1, <3>2, <4>1 DEF ActiveRegion
    <3> HIDE DEF x
    <3>4. /\ DOMAIN s = 1..Len(map) /\ Len(s) = Len(map)
          /\ \A i \in 1..Len(map) : s[i] = IF i = j THEN x ELSE map[i]
          /\ \A a \in Seqs(s) : a = x \/ a \in Seqs(map)
      <4>1. s = [map EXCEPT ![j] = x] BY <2>1, <2>9 DEF x
      <4> DEFINE g == [map EXCEPT ![j] = x]
      <4>2. /\ Len(g) = Len(map) /\ DOMAIN g = DOMAIN map
            /\ \A i \in DOMAIN g : g[i] = IF i = j THEN x ELSE map[i]
            /\ \A a \in Seqs(g) : a = x \/ a \in Seqs(map)
        BY <1>1, <3>3, MergedSeqs
      <4>3. s = g BY <4>1
      <4> HIDE DEF g
      <4> QED BY <1>1, <4>2, <4>3
    <3>5. Ordered(s)
      <4> SUFFICES ASSUME NEW i \in 1..Len(map), NEW k \in 1..Len(map), i < k
                   PROVE  /\ s[i].end_pfn <= s[k].start_pfn
                          /\ s[i].nid = s[k].nid => s[i].end_pfn < s[k].start_pfn
        BY <3>4
      <4>1. map[i].end_pfn <= map[k].start_pfn
            /\ (map[i].nid = map[k].nid => map[i].end_pfn < map[k].start_pfn)
        BY <1>1, <1>3
      <4>2. map[k] \in ActiveRegion /\ map[k].start_pfn < map[k].end_pfn /\ map[k].end_pfn <= r.start_pfn
        BY <2>3, <2>4
      <4>3. i # j
        <5> SUFFICES ASSUME i = j PROVE FALSE OBVIOUS
        <5>1. b.end_pfn <= map[k].start_pfn BY <4>1
        <5> HIDE DEF b, map
        <5> QED BY <2>2, <3>1, <4>2, <5>1 DEF ActiveRegion
      <4>4. s[i] = map[i] BY <3>4, <4>3
      <4>5. s[k].start_pfn = map[k].start_pfn /\ s[k].nid = map[k].nid
        <5>1. CASE k = j BY <3>3, <3>4, <5>1
        <5>2. CASE k # j BY <3>4, <5>2
        <5> QED BY <5>1, <5>2
      <4> QED BY <4>1, <4>4, <4>5
    <3>6. x \in Seqs(s) BY <3>4 DEF Seqs
    <3>7. \A a \in Seqs(map) : a = b \/ a \in Seqs(s)
      <4> SUFFICES ASSUME NEW i \in 1..Len(map) PROVE map[i] = b \/ map[i] \in Seqs(s)
        BY <1>1 DEF Seqs
      <4>1. CASE i = j BY <4>1
      <4>2. CASE i # j
        <5>1. s[i] = map[i] BY <3>4, <4>2
        <5> HIDE DEF map
        <5> QED BY <3>4, <5>1 DEF Seqs, map
      <4> QED BY <4>1, <4>2
    <3>8. Held(s, r)
      <4>1. Covers(x, r) BY <2>2, <3>1, <3>3 DEF Covers, ActiveRegion
      <4> QED BY <2>9, <3>3, <3>6, <4>1
    <3>9. ASSUME NEW y \in RegisteredPieces PROVE Held(s, y) \/ Dropped(s, y)
      <4>1. y \in ActiveRegion /\ y.start_pfn < y.end_pfn /\ y.end_pfn <= r.start_pfn BY <1>4, <2>1
      <4>2. CASE Held(map, y)
        <5>1. PICK a \in Seqs(map) : a.nid = y.nid /\ Covers(a, y) BY <4>2
        <5>2. CASE a = b
          <6>1. Covers(x, y)
            <7> HIDE DEF b
            <7> QED BY <2>2, <3>1, <3>3, <4>1, <5>1, <5>2 DEF Covers, ActiveRegion
          <6> QED BY <3>3, <3>6, <5>1, <5>2, <6>1
        <5>3. CASE a # b BY <3>7, <5>1, <5>3
        <5> QED BY <5>2, <5>3
      <4>3. CASE Dropped(map, y)
        <5>1. y.nid = b.nid => y.end_pfn < b.start_pfn
          <6> SUFFICES ASSUME y.nid = b.nid PROVE y.end_pfn < b.start_pfn OBVIOUS
          <6>1. b.end_pfn < y.start_pfn \/ y.end_pfn < b.start_pfn BY <3>1, <4>3
          <6> HIDE DEF b
          <6> QED BY <2>2, <3>1, <4>1, <6>1 DEF ActiveRegion
        <5>2. Dropped(s, y) BY <3>3, <3>4, <4>3, <5>1
        <5> QED BY <5>2
      <4> HIDE DEF Held, Dropped
      <4> QED BY <1>3, <4>2, <4>3
    <3> HIDE DEF Ordered, Held, Dropped
    <3> QED BY <2>1, <3>5, <3>8, <3>9
  <2>10. \/ new = map /\ Len(map) >= MAX_ACTIVE_REGIONS /\ \A a \in Seqs(map) : a.nid = r.nid => ~Fits(a, r)
         \/ new = Append(map, r) /\ Len(map) < MAX_ACTIVE_REGIONS /\ \A a \in Seqs(map) : a.nid = r.nid => ~Fits(a, r)
         \/ \E j \in 1..Len(map) :
              map[j].nid = r.nid /\ Fits(map[j], r) /\ new = [map EXCEPT ![j] = Merged(map[j], r)]
    BY <1>1, <2>2, AddCases
  <2> HIDE DEF Ordered, Held, Dropped, new
  <2> QED BY <2>7, <2>8, <2>9, <2>10
<1>8. runs = 1 \/ runs > 1 BY <1>2
<1> HIDE DEF Ordered, Held, Dropped
<1> QED BY <1>5, <1>6, <1>7, <1>8

-----------------------------------------------------------------------------
(* Sorting. *)

\* A function that increases on 1..k, into 1..k, leaves everything where it is.
LEMMA IncreasingIsIdentity ==
  ASSUME NEW k \in Nat, NEW f \in [1..k -> 1..k], \A i, j \in 1..k : i < j => f[i] < f[j]
  PROVE  \A i \in 1..k : f[i] = i
<1>1. \A i \in 1..k : f[i] >= i
  <2> DEFINE low == {i \in 1..k : f[i] < i}
  <2> SUFFICES ASSUME low # {} PROVE FALSE OBVIOUS
  <2>1. low \in SUBSET Nat OBVIOUS
  <2> DEFINE l == Least(low)
  <2>2. l \in low /\ \A y \in low : l <= y BY <2>1, LeastIn
  <2> HIDE DEF l
  <2>3. l \in 1..k /\ f[l] < l /\ f[l] \in 1..k BY <2>2
  <2>4. l - 1 \in 1..k BY <2>3
  <2>5. f[l - 1] < f[l] /\ f[l - 1] \in 1..k BY <2>3, <2>4
  <2>6. l - 1 \in low BY <2>3, <2>4, <2>5
  <2> QED BY <2>2, <2>3, <2>6
<1>2. \A i \in 1..k : f[i] <= i
  <2> DEFINE high == {d \in 0..(k - 1) : f[k - d] > k - d}
  <2> SUFFICES ASSUME NEW i \in 1..k, f[i] > i PROVE FALSE OBVIOUS
  <2>1. high \in SUBSET Nat OBVIOUS
  <2>2. k - i \in high
    <3>1. k - (k - i) = i /\ k - i \in 0..(k - 1) OBVIOUS
    <3> QED BY <3>1
  <2> DEFINE d == Least(high)
  <2>3. d \in high /\ \A y \in high : d <= y BY <2>1, <2>2, LeastIn
  <2> HIDE DEF d
  <2>4. d \in 0..(k - 1) /\ k - d \in 1..k /\ f[k - d] > k - d /\ f[k - d] \in 1..k BY <2>3
  <2>5. d # 0 BY <2>4
  <2>6. d - 1 \in 0..(k - 1) /\ k - (d - 1) \in 1..k /\ k - d < k - (d - 1) BY <2>4, <2>5
  <2>7. f[k - d] < f[k - (d - 1)] BY <2>4, <2>6
  <2>8. d - 1 \in high BY <2>4, <2>6, <2>7
  <2> HIDE DEF high
  <2> QED BY <2>3, <2>4, <2>8
<1> QED BY <1>1, <1>2

\* sort() orders the entries by their start, and keeps them all.
LEMMA SortOrder ==
  ASSUME TypeOK, Sort
  PROVE  \E f \in [1..Len(early_node_map) -> 1..Len(early_node_map)] :
           /\ Len(early_node_map') = Len(early_node_map) /\ DOMAIN early_node_map' = 1..Len(early_node_map)
           /\ \A i \in 1..Len(early_node_map) : early_node_map'[i] = early_node_map[f[i]]
           /\ \A i, k \in 1..Len(early_node_map) : i < k =>
                f[i] # f[k] /\ early_node_map[f[i]].start_pfn <= early_node_map[f[k]].start_pfn
           /\ \A i \in 1..Len(early_node_map) : \E k \in 1..Len(early_node_map) : f[k] = i
<1> DEFINE map == early_node_map
           l == Len(map)
<1>1. map \in Seq(ActiveRegion) /\ l \in Nat /\ DOMAIN map = 1..l BY DEF TypeOK
<1>2. PICK f \in Orders(map) : map' = [i \in DOMAIN map |-> map[f[i]]] BY DEF Sort
<1>3. /\ f \in [1..l -> 1..l]
      /\ \A i, k \in 1..l : i < k => f[i] # f[k] /\ map[f[i]].start_pfn <= map[f[k]].start_pfn
  BY <1>1, <1>2 DEF Orders
<1>4. map' = [i \in 1..l |-> map[f[i]]] BY <1>1, <1>2
<1>5. Len(map') = l
  <2> DEFINE g == [i \in 1..l |-> map[f[i]]]
  <2>1. g \in [1..l -> ActiveRegion]
    <3>1. \A i \in 1..l : map[f[i]] \in ActiveRegion BY <1>1, <1>3
    <3> QED BY <3>1
  <2> HIDE DEF g
  <2>2. Len(g) = l BY <1>1, <2>1, SeqDef
  <2> QED BY <1>4, <2>2 DEF g
<1>6. \A i \in 1..l : \E k \in 1..l : f[k] = i
  <2> HIDE DEF l
  <2>1. \A i, k \in 1..l : f[i] = f[k] => i = k BY <1>1, <1>3
  <2>2. f \in Injection(1..l, 1..l) BY <1>3, <2>1 DEF Injection, IsInjective
  <2>3. IsFiniteSet(1..l) BY <1>1, FS_Interval
  <2>4. f \in Surjection(1..l, 1..l) BY <2>2, <2>3, FS_Injection
  <2> QED BY <2>4 DEF Surjection
<1> HIDE DEF l
<1> QED BY <1>3, <1>4, <1>5, <1>6 DEF l

\* Sorting changes the order of entries only, and not even that when they were listed by
\* address.
LEMMA SortKeeps ==
  ASSUME Facts, Phase, NothingLost, EntriesDisjoint, EntriesApart, Sort
  PROVE  /\ NothingLost' /\ EntriesDisjoint' /\ EntriesApart'
         /\ Sane /\ BlocksHavePages /\ Ascending => early_node_map' = early_node_map
<1> DEFINE map == early_node_map
           l == Len(map)
<1>1. map \in Seq(ActiveRegion) /\ l \in Nat /\ DOMAIN map = 1..l BY DEF Facts, TypeOK
<1>2. PICK f \in [1..l -> 1..l] :
        /\ Len(map') = l /\ DOMAIN map' = 1..l
        /\ \A i \in 1..l : map'[i] = map[f[i]]
        /\ \A i, k \in 1..l : i < k => f[i] # f[k] /\ map[f[i]].start_pfn <= map[f[k]].start_pfn
        /\ \A i \in 1..l : \E k \in 1..l : f[k] = i
  BY SortOrder DEF Facts
<1>3. /\ pc = "register" /\ pc' = "sorted" /\ m > Len(Windows) /\ runs' = runs
      /\ UNCHANGED <<inputs, node_memblk_range, mye820>>
  BY DEF Sort
<1>4. /\ Sane' <=> Sane
      /\ BlocksHavePages' <=> BlocksHavePages
      /\ Ascending' <=> Ascending
  BY <1>3 DEF Sane, FirmwareSane, BlocksDisjoint, Disjoint, inputs, BlocksHavePages, Seqs, Ascending
<1>5. RegisteredPieces' = RegisteredPieces /\ LivePieces' = LivePieces
  <2>1. \A q \in Live : Registered(q)' <=> Registered(q)
    <3> SUFFICES ASSUME NEW q \in Live PROVE Registered(q)' <=> Registered(q) OBVIOUS
    <3>1. q[1] \in 1..Len(Windows) /\ Len(Windows) \in Nat BY WindowsType DEF Live, Facts
    <3>2. m \in Nat BY DEF Facts, TypeOK
    <3> QED BY <1>3, <3>1, <3>2 DEF Registered
  <2> QED BY <1>3, <2>1, PiecesFrame
<1>6. Seqs(map') = Seqs(map)
  <2>1. Seqs(map') \subseteq Seqs(map) BY <1>1, <1>2 DEF Seqs
  <2>2. ASSUME NEW i \in 1..l PROVE map[i] \in Seqs(map')
    <3>1. PICK k \in 1..l : f[k] = i BY <1>2
    <3>2. map'[k] = map[i] BY <1>2, <3>1
    <3> HIDE DEF map, l
    <3> QED BY <1>2, <3>2 DEF Seqs
  <2> QED BY <1>1, <2>1, <2>2 DEF Seqs
<1>7. Seqs(early_node_map)' = Seqs(map') BY DEF Seqs
<1>8. NothingLost'
  BY <1>2, <1>4, <1>5, <1>6, <1>7 DEF NothingLost, Holds, Covers
<1>9. EntriesDisjoint'
  <2> SUFFICES ASSUME Sane, BlocksHavePages, runs <= 1 \/ Ascending
               PROVE  EntriesDisjoint'
    BY <1>3, <1>4 DEF EntriesDisjoint
  <2>1. /\ \A a \in Seqs(map) : /\ a.start_pfn < a.end_pfn
                                /\ \A p \in Pages(a) : \E s \in RegisteredPieces : p \in Pages(s)
        /\ \A i, k \in 1..l : i # k => Pages(map[i]) \cap Pages(map[k]) = {}
    BY <1>1 DEF EntriesDisjoint
  <2>2. \A i, k \in 1..l : i # k => f[i] # f[k] BY <1>1, <1>2
  <2>3. ASSUME NEW i \in 1..l, NEW k \in 1..l, i # k PROVE Pages(map'[i]) \cap Pages(map'[k]) = {}
    <3>1. f[i] \in 1..l /\ f[k] \in 1..l /\ f[i] # f[k] BY <2>2, <2>3
    <3>2. map'[i] = map[f[i]] /\ map'[k] = map[f[k]] BY <1>2
    <3> QED BY <2>1, <3>1, <3>2
  <2> QED BY <1>2, <1>5, <1>6, <1>7, <2>1, <2>3 DEF EntriesDisjoint, Pages
<1>10. ASSUME Sane, BlocksHavePages, Ascending PROVE map' = map
  <2>1. \A i \in 1..l : map[i] \in ActiveRegion /\ map[i].start_pfn < map[i].end_pfn
    BY <1>1, <1>10 DEF EntriesDisjoint, Seqs
  <2>2. \A i, k \in 1..l : i < k => map[i].end_pfn <= map[k].start_pfn
    BY <1>1, <1>10 DEF EntriesApart
  <2>3. \A i, k \in 1..l : i < k => map[i].start_pfn < map[k].start_pfn
    <3> HIDE DEF map, l
    <3> QED BY <2>1, <2>2 DEF ActiveRegion
  <2>4. \A i, k \in 1..l : i < k => f[i] < f[k]
    <3> SUFFICES ASSUME NEW i \in 1..l, NEW k \in 1..l, i < k PROVE f[i] < f[k] OBVIOUS
    <3>1. f[i] # f[k] /\ map[f[i]].start_pfn <= map[f[k]].start_pfn BY <1>2
    <3>2. f[i] \in 1..l /\ f[k] \in 1..l OBVIOUS
    <3>3. map[f[i]] \in ActiveRegion /\ map[f[k]] \in ActiveRegion BY <2>1, <3>2
    <3>4. ~(f[k] < f[i])
      <4> SUFFICES ASSUME f[k] < f[i] PROVE FALSE OBVIOUS
      <4>1. map[f[k]].start_pfn < map[f[i]].start_pfn BY <2>3, <3>2
      <4> HIDE DEF map
      <4> QED BY <3>1, <3>3, <4>1 DEF ActiveRegion
    <3> HIDE DEF l
    <3> QED BY <1>1, <3>1, <3>2, <3>4
  <2>5. \A i \in 1..l : f[i] = i
    <3> HIDE DEF l
    <3> QED BY <1>1, <2>4, IncreasingIsIdentity
  <2>6. map' = [i \in DOMAIN map |-> map'[i]]
    <3>1. PICK g \in Orders(map) : map' = [i \in DOMAIN map |-> map[g[i]]] BY DEF Sort
    <3> QED BY <3>1
  <2>7. map = [i \in DOMAIN map |-> map[i]] BY <1>1
  <2>8. \A i \in DOMAIN map : map'[i] = map[i] BY <1>1, <1>2, <2>5
  <2>9. [i \in DOMAIN map |-> map'[i]] = [i \in DOMAIN map |-> map[i]] BY <2>8
  <2> QED BY <2>6, <2>7, <2>9
<1>11. EntriesApart'
  <2> SUFFICES ASSUME Sane, BlocksHavePages, Ascending PROVE EntriesApart'
    BY <1>4 DEF EntriesApart
  <2>1. map' = map BY <1>10
  <2> QED BY <1>5, <2>1 DEF EntriesApart, Holds, Seqs, Covers
<1> QED BY <1>8, <1>9, <1>10, <1>11

\* Steps that leave the entries and what is registered alone.
LEMMA EntriesFrame ==
  ASSUME NothingLost, EntriesDisjoint, EntriesApart,
         UNCHANGED <<firmware, node_memblk_range, mye820, early_node_map>>,
         RegisteredPieces' = RegisteredPieces, runs <= 1 \/ ~(runs' <= 1)
  PROVE  NothingLost' /\ EntriesDisjoint' /\ EntriesApart'
<1>1. /\ Sane' <=> Sane
      /\ BlocksHavePages' <=> BlocksHavePages
      /\ Ascending' <=> Ascending
  BY DEF Sane, FirmwareSane, BlocksDisjoint, Disjoint, BlocksHavePages, Seqs, Ascending
<1>2. LivePieces' = LivePieces BY PiecesFrame
<1>3. NothingLost' BY <1>1, <1>2 DEF NothingLost, Holds, Seqs, Covers
<1>4. EntriesDisjoint' BY <1>1 DEF EntriesDisjoint, Seqs, Pages
<1>5. EntriesApart' BY <1>1 DEF EntriesApart, Holds, Seqs, Covers
<1> QED BY <1>3, <1>4, <1>5

\* Without a run there is nothing to say.
LEMMA NoEntries ==
  ASSUME early_node_map' = <<>>, RegisteredPieces' = {}
  PROVE  NothingLost' /\ EntriesDisjoint' /\ EntriesApart'
BY DEF NothingLost, EntriesDisjoint, EntriesApart, Seqs

-----------------------------------------------------------------------------
(* The regions. *)

\* The parts of an entry have all of its pages, and are in order.
LEMMA PartsOrder ==
  ASSUME NEW a \in ActiveRegion, NEW lim \in Nat, lim = memLimit_pfn
  PROVE  /\ \A p \in Pages(a) : \E r \in Seqs(Parts(a)) : r.nid = a.nid /\ p \in Pages(r)
         /\ \A r \in Seqs(Parts(a)) :
              /\ r.start_pfn \in Nat /\ r.end_pfn \in Nat
              /\ a.start_pfn < a.end_pfn => a.start_pfn <= r.start_pfn /\ r.start_pfn < r.end_pfn
              /\ r.end_pfn <= a.end_pfn
         /\ \A i, k \in DOMAIN Parts(a) : i < k => Parts(a)[i].end_pfn <= Parts(a)[k].start_pfn
<1> DEFINE P(s, e, t) == [start_pfn |-> s, end_pfn |-> e, nid |-> a.nid, type |-> t]
           Goal(s) ==
             /\ \A p \in Pages(a) : \E r \in Seqs(s) : r.nid = a.nid /\ p \in Pages(r)
             /\ \A r \in Seqs(s) :
                  /\ r.start_pfn \in Nat /\ r.end_pfn \in Nat
                  /\ a.start_pfn < a.end_pfn => a.start_pfn <= r.start_pfn /\ r.start_pfn < r.end_pfn
                  /\ r.end_pfn <= a.end_pfn
             /\ \A i, k \in DOMAIN s : i < k => s[i].end_pfn <= s[k].start_pfn
<1> SUFFICES Goal(Parts(a)) OBVIOUS
<1>0. a.start_pfn \in Nat /\ a.end_pfn \in Nat BY DEF ActiveRegion
<1>1. ASSUME NEW t PROVE Goal(<<P(a.start_pfn, a.end_pfn, t)>>)
  <2> DEFINE r == P(a.start_pfn, a.end_pfn, t)
  <2>1. r.start_pfn = a.start_pfn /\ r.end_pfn = a.end_pfn /\ r.nid = a.nid OBVIOUS
  <2> HIDE DEF r
  <2>2. Seqs(<<r>>) = {r} BY DEF Seqs
  <2>3. \A i, k \in DOMAIN <<r>> : ~(i < k) OBVIOUS
  <2>4. Pages(r) = Pages(a) BY <2>1 DEF Pages
  <2>5. Goal(<<r>>) BY <1>0, <2>1, <2>2, <2>3, <2>4
  <2> QED BY <2>5 DEF r
<1>2. CASE a.end_pfn <= lim
  <2>1. Parts(a) = <<P(a.start_pfn, a.end_pfn, MMTEST_RO)>> BY <1>2 DEF Parts
  <2> HIDE DEF Goal, P
  <2> QED BY <1>1, <2>1
<1>3. CASE ~(a.end_pfn <= lim) /\ a.start_pfn >= lim
  <2>1. Parts(a) = <<P(a.start_pfn, a.end_pfn, MMTEST_RW)>> BY <1>3 DEF Parts
  <2> HIDE DEF Goal, P
  <2> QED BY <1>1, <2>1
<1>4. CASE ~(a.end_pfn <= lim) /\ ~(a.start_pfn >= lim)
  <2> DEFINE lo == P(a.start_pfn, lim, MMTEST_RO)
             hi == P(lim, a.end_pfn, MMTEST_RW)
  <2>1. Parts(a) = <<lo, hi>> BY <1>4 DEF Parts
  <2>2. /\ lo.start_pfn = a.start_pfn /\ lo.end_pfn = lim /\ lo.nid = a.nid
        /\ hi.start_pfn = lim /\ hi.end_pfn = a.end_pfn /\ hi.nid = a.nid
    OBVIOUS
  <2> HIDE DEF lo, hi
  <2>3. Seqs(<<lo, hi>>) = {lo, hi}
    <3>1. DOMAIN <<lo, hi>> = {1, 2} OBVIOUS
    <3> QED BY <3>1 DEF Seqs
  <2>4. Pages(a) \subseteq Pages(lo) \cup Pages(hi) BY <1>0, <1>4, <2>2 DEF Pages
  <2>5. \A i, k \in DOMAIN <<lo, hi>> : i < k => <<lo, hi>>[i].end_pfn <= <<lo, hi>>[k].start_pfn
    BY <2>2
  <2>6. Goal(<<lo, hi>>) BY <1>0, <1>4, <2>2, <2>3, <2>4, <2>5
  <2> HIDE DEF Goal
  <2> QED BY <2>1, <2>6
<1> HIDE DEF Goal
<1> QED BY <1>2, <1>3, <1>4

\* Sorted entries that are disjoint end before the next begins.
LEMMA SortedApart ==
  ASSUME TypeOK, Phase, EntriesDisjoint, pc \in {"sorted", "generate", "testing"},
         Sane, BlocksHavePages, runs <= 1 \/ Ascending,
         NEW i \in DOMAIN early_node_map, NEW k \in DOMAIN early_node_map, i < k
  PROVE  early_node_map[i].end_pfn <= early_node_map[k].start_pfn
<1> DEFINE a == early_node_map[i]
           b == early_node_map[k]
<1>1. a \in ActiveRegion /\ b \in ActiveRegion /\ a \in Seqs(early_node_map) /\ b \in Seqs(early_node_map)
  BY DEF TypeOK, Seqs
<1>2. a.start_pfn <= b.start_pfn BY DEF Phase
<1>3. /\ a.start_pfn < a.end_pfn /\ b.start_pfn < b.end_pfn
      /\ Pages(a) \cap Pages(b) = {}
  <2>1. i # k BY DEF TypeOK
  <2> QED BY <1>1, <2>1 DEF EntriesDisjoint
<1> HIDE DEF a, b
<1>4. b.start_pfn \in Pages(b) BY <1>1, <1>3 DEF Pages, ActiveRegion
<1>5. b.start_pfn \notin Pages(a) BY <1>3, <1>4
<1> QED BY <1>1, <1>2, <1>5 DEF Pages, ActiveRegion, a, b

\* The regions after k parts of entry m were added.
LEMMA RegionsAdded ==
  ASSUME TypeOK, m <= Len(early_node_map),
         NEW k \in Nat, k <= Len(Parts(early_node_map[m])),
         NEW new, new = bootmem_regions \o SubSeq(Parts(early_node_map[m]), 1, k)
  PROVE  LET l == Len(bootmem_regions)
             parts == Parts(early_node_map[m])
         IN /\ early_node_map[m] \in ActiveRegion /\ m \in DOMAIN early_node_map
            /\ parts \in Seq(Region) /\ l \in Nat /\ DOMAIN bootmem_regions = 1..l
            /\ DOMAIN new = 1..(l + k) /\ DOMAIN parts = 1..Len(parts) /\ Len(parts) \in Nat
            /\ \A i \in 1..(l + k) : new[i] = IF i <= l THEN bootmem_regions[i] ELSE parts[i - l]
<1> DEFINE l == Len(bootmem_regions)
           parts == Parts(early_node_map[m])
           sub == SubSeq(parts, 1, k)
<1>1. early_node_map[m] \in ActiveRegion /\ m \in DOMAIN early_node_map BY DEF TypeOK
<1>2. memLimit_pfn \in Nat
  BY DivMod, SizeAssumption, InputAssumption DEF TypeOK, memLimit_pfn
<1>3. parts \in Seq(Region) /\ Len(parts) \in Nat BY <1>1, <1>2, PartsPages
<1> HIDE DEF parts
<1>4. sub \in Seq(Region) /\ Len(sub) = k /\ \A i \in 1..k : sub[i] = parts[i]
  <2>1. \A i \in 1..k : parts[i] \in Region BY <1>3 DEF parts
  <2>2. /\ sub \in Seq(Region) /\ Len(sub) = IF 1 <= k THEN k - 1 + 1 ELSE 0
        /\ \A i \in 1..(k - 1 + 1) : sub[i] = parts[1 + i - 1]
    BY <2>1, SubSeqProperties
  <2> QED BY <2>2
<1>5. new = bootmem_regions \o sub BY DEF parts
<1>6. bootmem_regions \in Seq(Region) BY DEF TypeOK
<1> HIDE DEF sub
<1>7. /\ new \in Seq(Region) /\ Len(new) = l + Len(sub)
      /\ \A i \in 1..l + Len(sub) : new[i] = IF i <= l THEN bootmem_regions[i] ELSE sub[i - l]
  <2>1. /\ bootmem_regions \o sub \in Seq(Region)
        /\ Len(bootmem_regions \o sub) = Len(bootmem_regions) + Len(sub)
        /\ \A i \in 1..Len(bootmem_regions) + Len(sub) : (bootmem_regions \o sub)[i] =
             IF i <= Len(bootmem_regions) THEN bootmem_regions[i] ELSE sub[i - Len(bootmem_regions)]
    BY <1>4, <1>6, ConcatProperties, Zenon
  <2> QED BY <1>5, <2>1, Zenon
<1>8. l \in Nat /\ DOMAIN bootmem_regions = 1..l BY <1>6
<1> HIDE DEF l
<1>9. DOMAIN new = 1..(l + k) BY <1>4, <1>7
<1>10. ASSUME NEW i \in 1..(l + k) PROVE new[i] = IF i <= l THEN bootmem_regions[i] ELSE parts[i - l]
  <2>1. new[i] = IF i <= l THEN bootmem_regions[i] ELSE sub[i - l] BY <1>4, <1>7
  <2>2. CASE i <= l BY <2>1, <2>2
  <2>3. CASE ~(i <= l)
    <3>1. i - l \in 1..k BY <1>8, <2>3
    <3>2. sub[i - l] = parts[i - l] BY <1>4, <3>1
    <3> QED BY <2>1, <2>3, <3>2
  <2> QED BY <2>2, <2>3
<1> QED BY <1>1, <1>3, <1>8, <1>9, <1>10 DEF l, parts

\* The parts of the entries come in the order of the entries.
LEMMA RegionsStaySorted ==
  ASSUME TypeOK, Phase, EntriesDisjoint, RegionsSorted, pc = "generate", m <= Len(early_node_map),
         Sane, BlocksHavePages, runs <= 1 \/ Ascending,
         NEW k \in Nat, k <= Len(Parts(early_node_map[m])),
         NEW new, new = bootmem_regions \o SubSeq(Parts(early_node_map[m]), 1, k)
  PROVE  /\ \A r \in Seqs(new) : r.start_pfn < r.end_pfn
         /\ \A i, j \in DOMAIN new : i < j => new[i].end_pfn <= new[j].start_pfn
         /\ \A r \in Seqs(new), j \in DOMAIN early_node_map :
              j >= m + 1 => r.end_pfn <= early_node_map[j].start_pfn
<1> DEFINE l == Len(bootmem_regions)
           a == early_node_map[m]
           parts == Parts(a)
<1>1. /\ a \in ActiveRegion /\ m \in DOMAIN early_node_map
      /\ parts \in Seq(Region) /\ l \in Nat /\ DOMAIN bootmem_regions = 1..l
      /\ DOMAIN new = 1..(l + k) /\ DOMAIN parts = 1..Len(parts) /\ Len(parts) \in Nat
      /\ \A i \in 1..(l + k) : new[i] = IF i <= l THEN bootmem_regions[i] ELSE parts[i - l]
  BY RegionsAdded
<1>2. memLimit_pfn \in Nat
  BY DivMod, SizeAssumption, InputAssumption DEF TypeOK, memLimit_pfn
<1>3. a.start_pfn < a.end_pfn BY <1>1 DEF EntriesDisjoint, Seqs
<1>4. /\ \A i \in DOMAIN parts :
           /\ parts[i].start_pfn \in Nat /\ parts[i].end_pfn \in Nat
           /\ a.start_pfn <= parts[i].start_pfn /\ parts[i].start_pfn < parts[i].end_pfn
           /\ parts[i].end_pfn <= a.end_pfn
      /\ \A i, j \in DOMAIN parts : i < j => parts[i].end_pfn <= parts[j].start_pfn
  <2>1. \A i \in DOMAIN parts : parts[i] \in Seqs(Parts(a)) BY DEF Seqs
  <2> HIDE DEF a
  <2> QED BY <1>1, <1>2, <1>3, <2>1, PartsOrder
<1>5. /\ \A i \in 1..l : /\ bootmem_regions[i].start_pfn < bootmem_regions[i].end_pfn
                         /\ bootmem_regions[i].start_pfn \in Nat /\ bootmem_regions[i].end_pfn \in Nat
      /\ \A i, j \in 1..l : i < j => bootmem_regions[i].end_pfn <= bootmem_regions[j].start_pfn
      /\ \A i \in 1..l, j \in DOMAIN early_node_map :
           j >= m => bootmem_regions[i].end_pfn <= early_node_map[j].start_pfn
  <2>1. \A i \in 1..l : bootmem_regions[i] \in Region /\ bootmem_regions[i] \in Seqs(bootmem_regions)
    <3>1. bootmem_regions \in Seq(Region) BY DEF TypeOK
    <3> QED BY <1>1, <3>1, ElementOfSeq DEF Seqs
  <2> QED BY <1>1, <2>1 DEF RegionsSorted, Region
<1>6. m \in Nat /\ \A j \in DOMAIN early_node_map : j \in Nat BY DEF TypeOK
<1>7. \A j \in DOMAIN early_node_map : j >= m + 1 =>
        early_node_map[j].start_pfn \in Nat /\ a.end_pfn <= early_node_map[j].start_pfn
  <2> SUFFICES ASSUME NEW j \in DOMAIN early_node_map, j >= m + 1
               PROVE  early_node_map[j].start_pfn \in Nat /\ a.end_pfn <= early_node_map[j].start_pfn
    OBVIOUS
  <2>1. m < j BY <1>6
  <2>2. early_node_map[j] \in ActiveRegion BY DEF TypeOK
  <2> QED BY <1>1, <2>1, <2>2, SortedApart DEF ActiveRegion
<1>8. a.start_pfn \in Nat /\ a.end_pfn \in Nat BY <1>1 DEF ActiveRegion
<1> HIDE DEF a, parts, l
<1>9. ASSUME NEW i \in 1..(l + k)
      PROVE  \/ i \in 1..l /\ new[i] = bootmem_regions[i]
             \/ i - l \in 1..k /\ ~(i <= l) /\ new[i] = parts[i - l] /\ i - l \in DOMAIN parts
  <2>1. k <= Len(parts) BY DEF parts, a
  <2> QED BY <1>1, <2>1
<1>10. ASSUME NEW i \in 1..(l + k)
       PROVE  /\ new[i].start_pfn < new[i].end_pfn
              /\ \A j \in DOMAIN early_node_map : j >= m + 1 => new[i].end_pfn <= early_node_map[j].start_pfn
  <2>1. CASE i \in 1..l /\ new[i] = bootmem_regions[i]
    <3>1. \A j \in DOMAIN early_node_map : j >= m + 1 => j >= m BY <1>6
    <3>2. \A j \in DOMAIN early_node_map : j >= m + 1 => bootmem_regions[i].end_pfn <= early_node_map[j].start_pfn
      BY <1>5, <2>1, <3>1
    <3>3. bootmem_regions[i].start_pfn < bootmem_regions[i].end_pfn BY <1>5, <2>1
    <3> QED BY <2>1, <3>2, <3>3
  <2>2. CASE i - l \in DOMAIN parts /\ new[i] = parts[i - l]
    <3>1. new[i].start_pfn < new[i].end_pfn /\ new[i].end_pfn <= a.end_pfn /\ new[i].end_pfn \in Nat
      BY <1>4, <2>2
    <3> SUFFICES ASSUME NEW j \in DOMAIN early_node_map, j >= m + 1
                 PROVE  new[i].end_pfn <= early_node_map[j].start_pfn
      BY <3>1
    <3>2. early_node_map[j].start_pfn \in Nat /\ a.end_pfn <= early_node_map[j].start_pfn BY <1>7
    <3>3. \A x, y, z \in Nat : x <= y /\ y <= z => x <= z OBVIOUS
    <3> QED BY <1>8, <3>1, <3>2, <3>3, Zenon
  <2> QED BY <1>9, <2>1, <2>2
<1>11. ASSUME NEW i \in 1..(l + k), NEW j \in 1..(l + k), i < j
       PROVE  new[i].end_pfn <= new[j].start_pfn
  <2>1. CASE i \in 1..l /\ j \in 1..l
    <3>1. new[i] = bootmem_regions[i] /\ new[j] = bootmem_regions[j] BY <1>1, <1>9, <2>1
    <3> QED BY <1>5, <1>11, <2>1, <3>1
  <2>2. CASE i \in 1..l /\ j \notin 1..l
    <3>1. new[i] = bootmem_regions[i] BY <1>1, <1>9, <2>2
    <3>2. new[j] = parts[j - l] /\ j - l \in DOMAIN parts BY <1>9, <2>2
    <3>3. bootmem_regions[i].end_pfn <= a.start_pfn /\ bootmem_regions[i].end_pfn \in Nat
      <4>1. m \in DOMAIN early_node_map /\ m >= m BY <1>1, <1>6
      <4> QED BY <1>5, <2>2, <4>1 DEF a
    <3>4. a.start_pfn <= parts[j - l].start_pfn /\ parts[j - l].start_pfn \in Nat BY <1>4, <3>2
    <3>5. bootmem_regions[i].end_pfn <= parts[j - l].start_pfn BY <1>8, <3>3, <3>4
    <3> QED BY <3>1, <3>2, <3>5
  <2>3. CASE i \notin 1..l
    <3>1. j \notin 1..l BY <1>1, <1>11, <2>3
    <3>2. /\ new[i] = parts[i - l] /\ i - l \in DOMAIN parts
          /\ new[j] = parts[j - l] /\ j - l \in DOMAIN parts
      BY <1>9, <2>3, <3>1
    <3>3. i - l < j - l BY <1>1, <1>11
    <3> QED BY <1>4, <3>2, <3>3
  <2> QED BY <2>1, <2>2, <2>3
<1> QED BY <1>1, <1>10, <1>11 DEF Seqs

\* All pages of an entry are in its parts, and no region goes away.
LEMMA RegionsStayComplete ==
  ASSUME TypeOK, RegionsSoFar, pc = "generate", m <= Len(early_node_map),
         NEW new, new = bootmem_regions \o SubSeq(Parts(early_node_map[m]), 1, Len(Parts(early_node_map[m])))
  PROVE  \A i \in DOMAIN early_node_map : i < m + 1 =>
           \A p \in Pages(early_node_map[i]) :
             \E r \in Seqs(new) : r.nid = early_node_map[i].nid /\ p \in Pages(r)
<1> DEFINE l == Len(bootmem_regions)
           a == early_node_map[m]
           parts == Parts(a)
           k == Len(parts)
<1>1. a \in ActiveRegion /\ m \in DOMAIN early_node_map BY DEF TypeOK
<1>2. memLimit_pfn \in Nat
  BY DivMod, SizeAssumption, InputAssumption DEF TypeOK, memLimit_pfn
<1>3. k \in Nat
  <2>1. Len(Parts(a)) \in 1..2 BY <1>1, <1>2, PartsPages
  <2> QED BY <2>1
<1>4. /\ l \in Nat /\ DOMAIN bootmem_regions = 1..l
      /\ DOMAIN new = 1..(l + k) /\ DOMAIN parts = 1..k
      /\ \A i \in 1..(l + k) : new[i] = IF i <= l THEN bootmem_regions[i] ELSE parts[i - l]
  BY <1>3, RegionsAdded
<1>5. \A p \in Pages(a) : \E r \in Seqs(parts) : r.nid = a.nid /\ p \in Pages(r)
  <2> HIDE DEF a
  <2> QED BY <1>1, <1>2, PartsOrder
<1> HIDE DEF a, parts, l, k
<1>6. \A r \in Seqs(bootmem_regions) : r \in Seqs(new)
  <2> SUFFICES ASSUME NEW i \in 1..l PROVE bootmem_regions[i] \in Seqs(new) BY <1>4 DEF Seqs
  <2>1. i \in DOMAIN new /\ new[i] = bootmem_regions[i] BY <1>3, <1>4
  <2> QED BY <2>1 DEF Seqs
<1>7. \A r \in Seqs(parts) : r \in Seqs(new)
  <2> SUFFICES ASSUME NEW i \in 1..k PROVE parts[i] \in Seqs(new) BY <1>4 DEF Seqs
  <2>1. l + i \in DOMAIN new /\ ~(l + i <= l) /\ (l + i) - l = i BY <1>3, <1>4
  <2>2. new[l + i] = parts[i] BY <1>4, <2>1
  <2> QED BY <2>1, <2>2 DEF Seqs
<1> SUFFICES ASSUME NEW i \in DOMAIN early_node_map, i < m + 1, NEW p \in Pages(early_node_map[i])
             PROVE  \E r \in Seqs(new) : r.nid = early_node_map[i].nid /\ p \in Pages(r)
  OBVIOUS
<1>8. CASE i = m BY <1>5, <1>7, <1>8 DEF a
<1>9. CASE i < m
  <2>1. \E r \in Seqs(bootmem_regions) : r.nid = early_node_map[i].nid /\ p \in Pages(r)
    BY <1>9 DEF RegionsSoFar
  <2> QED BY <1>6, <2>1
<1>10. i = m \/ i < m BY DEF TypeOK
<1> QED BY <1>8, <1>9, <1>10

-----------------------------------------------------------------------------
(* The invariant behind RegionsComplete. *)

\* Steps after which no region has to be looked at.
LEMMA NoRegionsAsked ==
  ASSUME pc' \notin {"generate", "testing"}
  PROVE  RegionsSoFar' /\ RegionsSorted'
BY DEF RegionsSoFar, RegionsSorted

\* A step of the loading.
LEMMA LoadKeeps ==
  ASSUME CompleteIInv, IInv', Load
  PROVE  CompleteIInv'
<1> USE DEF CompleteIInv
<1>1. pc \in {"cpus", "memory"} /\ pc' \in {"cpus", "memory", "ready"} /\ runs' = runs
      /\ UNCHANGED <<early_node_map, runs>>
  BY DEF Load, ParseProcessorAffinity, ProcessorsParsed, ParseMemoryAffinity, Loaded
<1>2. runs = 0
  <2>1. runs \in Nat /\ ~(runs > 0) BY <1>1 DEF IInv, TypeOK, Phase
  <2> QED BY <2>1
<1>3. early_node_map' = <<>> BY <1>1, <1>2 DEF Phase
<1>4. RegisteredPieces' = {} BY <1>1, <1>2 DEF RegisteredPieces, Registered
<1>5. NothingLost' /\ EntriesDisjoint' /\ EntriesApart' BY <1>3, <1>4, NoEntries
<1>6. RegionsSoFar' /\ RegionsSorted' BY <1>1, NoRegionsAsked
<1>7. ASSUME NEW b \in Seqs(node_memblk_range') PROVE b.start <= b.end
  <2>1. \A c \in Seqs(node_memblk_range) : c.start <= c.end BY DEF Phase
  <2>2. CASE node_memblk_range' = node_memblk_range BY <1>7, <2>1, <2>2
  <2>3. CASE ~(node_memblk_range' = node_memblk_range)
    <3> DEFINE e == srat.mem[m]
               blk == [start |-> e.base, end |-> e.base + e.length, nid |-> NodeFor(e.pxm)]
    <3>1. ParseMemoryAffinity BY <2>3 DEF Load, ParseProcessorAffinity, ProcessorsParsed, Loaded
    <3>2. node_memblk_range' = Append(node_memblk_range, blk) BY <2>3, <3>1 DEF ParseMemoryAffinity
    <3>3. e \in MemEntry
      <4>1. srat.mem \in Seq(MemEntry) BY InputAssumption DEF IInv, TypeOK
      <4>2. m \in 1..Len(srat.mem) BY <3>1, <4>1 DEF IInv, TypeOK, ParseMemoryAffinity
      <4> QED BY <4>1, <4>2, ElementOfSeq
    <3>4. blk.start <= blk.end BY <3>3 DEF MemEntry
    <3> HIDE DEF blk
    <3>5. b = blk \/ b \in Seqs(node_memblk_range)
      <4>1. node_memblk_range \in Seq(Memblk) BY DEF IInv, TypeOK
      <4> QED BY <1>7, <3>2, <4>1 DEF Seqs
    <3> QED BY <2>1, <3>4, <3>5
  <2> QED BY <2>2, <2>3
<1>8. Phase' BY <1>1, <1>2, <1>3, <1>7 DEF Phase, Seqs
<1> QED BY <1>5, <1>6, <1>8

\* When a run has begun, the map has been read.
LEMMA RunFacts ==
  ASSUME CompleteIInv, runs > 0
  PROVE  Facts
BY DEF CompleteIInv, IInv, Phase, Facts

\* The first ioctl, step by step.
LEMMA SetE820Keeps ==
  ASSUME CompleteIInv, IInv', SetE820
  PROVE  CompleteIInv'
<1> USE DEF CompleteIInv
<1>0. runs \in Nat BY DEF IInv, TypeOK
<1>1. ASSUME SetE820Info PROVE CompleteIInv'
  <2> USE <1>1 DEF SetE820Info, inputs, nodemap
  <2>1. RegionsSoFar' /\ RegionsSorted' BY NoRegionsAsked
  <2>2. Phase' BY <1>0 DEF Phase, Seqs, E820Map, Counted, E820Entry
  <2>3. CASE runs = 0
    <3>1. early_node_map' = <<>> BY <2>3 DEF Phase
    <3>2. \A q \in Live' : ~Registered(q)'
      <4> SUFFICES ASSUME NEW q \in Live' PROVE ~Registered(q)' OBVIOUS
      <4>1. (Windows \in Seq(ActiveRegion))' BY WindowsType, PTL DEF IInv
      <4>2. (mye820 \in Seq(E820Record))' BY DEF IInv, TypeOK
      <4>3. q[1] \in 1..Len(Windows') /\ q[2] \in 1..Len(mye820') BY <4>1, <4>2 DEF Live
      <4>4. q[1] >= 1 /\ q[2] >= 1 /\ q[1] \in Int /\ q[2] \in Int BY <4>1, <4>2, <4>3
      <4> QED BY <2>3, <4>4 DEF Registered
    <3>3. RegisteredPieces' = {} BY <3>2 DEF RegisteredPieces
    <3> QED BY <2>1, <2>2, <3>1, <3>3, NoEntries
  <2>4. CASE runs > 0
    <3>1. mye820' = mye820 BY <2>4 DEF Phase
    <3>2. \A q \in Live : Registered(q)' <=> Registered(q) BY <1>0, <2>4 DEF Registered
    <3>3. RegisteredPieces' = RegisteredPieces BY <3>1, <3>2, PiecesFrame
    <3>4. NothingLost' /\ EntriesDisjoint' /\ EntriesApart' BY <1>0, <2>4, <3>1, <3>3, EntriesFrame
    <3> QED BY <2>1, <2>2, <3>4
  <2> QED BY <1>0, <2>3, <2>4
<1>2. ASSUME Register PROVE CompleteIInv'
  <2>1. pc = "register" /\ pc' = "register" /\ runs' = runs /\ UNCHANGED <<firmware, node_memblk_range, mye820>>
    BY <1>2 DEF Register, inputs
  <2>2. RegionsSoFar' /\ RegionsSorted' BY <2>1, NoRegionsAsked
  <2>3. runs > 0 BY <2>1 DEF Phase
  <2>4. Facts BY <2>3, RunFacts
  <2>5. NothingLost' /\ EntriesDisjoint' /\ EntriesApart'
    BY <1>2, <2>4, RegisterLosesNothing, RegisterKeepsDisjoint, RegisterKeepsApart
  <2>6. Phase' BY <1>0, <2>1, <2>3 DEF Phase, Seqs, E820Map, Counted, E820Entry
  <2> QED BY <2>2, <2>5, <2>6
<1>3. ASSUME NextWindow PROVE CompleteIInv'
  <2>1. /\ pc = "register" /\ pc' = "register" /\ runs' = runs /\ n > Len(mye820) /\ m' = m + 1 /\ n' = 1
        /\ UNCHANGED <<firmware, node_memblk_range, mye820, early_node_map>>
    BY <1>3 DEF NextWindow, inputs
  <2>2. RegionsSoFar' /\ RegionsSorted' BY <2>1, NoRegionsAsked
  <2>3. runs > 0 BY <2>1 DEF Phase
  <2>4. \A q \in Live : Registered(q)' <=> Registered(q)
    <3> SUFFICES ASSUME NEW q \in Live PROVE Registered(q)' <=> Registered(q) OBVIOUS
    <3>1. Windows \in Seq(ActiveRegion) /\ mye820 \in Seq(E820Record) /\ m \in Nat /\ n \in Nat
      BY WindowsType DEF IInv, TypeOK
    <3>2. q[1] \in 1..Len(Windows) /\ q[2] \in 1..Len(mye820) BY <3>1 DEF Live
    <3>3. q[1] \in Nat /\ q[2] \in Nat /\ q[2] < n /\ q[2] >= 1 BY <2>1, <3>1, <3>2
    <3> QED BY <2>1, <3>1, <3>3 DEF Registered
  <2>5. RegisteredPieces' = RegisteredPieces BY <2>1, <2>4, PiecesFrame
  <2>6. NothingLost' /\ EntriesDisjoint' /\ EntriesApart' BY <1>0, <2>1, <2>5, EntriesFrame
  <2>7. Phase' BY <1>0, <2>1, <2>3 DEF Phase, Seqs, E820Map, Counted, E820Entry
  <2> QED BY <2>2, <2>6, <2>7
<1>4. ASSUME Sort PROVE CompleteIInv'
  <2>1. pc = "register" /\ pc' = "sorted" /\ runs' = runs /\ UNCHANGED <<firmware, node_memblk_range, mye820>>
    BY <1>4 DEF Sort, inputs
  <2>2. RegionsSoFar' /\ RegionsSorted' BY <2>1, NoRegionsAsked
  <2>3. runs > 0 BY <2>1 DEF Phase
  <2>4. Facts BY <2>3, RunFacts
  <2>5. NothingLost' /\ EntriesDisjoint' /\ EntriesApart' BY <1>4, <2>4, SortKeeps
  <2>6. \A i, k \in DOMAIN early_node_map' : i < k => early_node_map'[i].start_pfn <= early_node_map'[k].start_pfn
    BY <1>4, SortOrder DEF IInv
  <2>7. Phase' BY <1>0, <2>1, <2>3, <2>6 DEF Phase, Seqs, E820Map, Counted, E820Entry
  <2> QED BY <2>2, <2>5, <2>7
<1> QED BY <1>1, <1>2, <1>3, <1>4 DEF SetE820

\* What RegionsSorted depends on, when the entries are as they were.
LEMMA LimitFrame ==
  ASSUME UNCHANGED <<firmware, node_memblk_range, runs>>
  PROVE  /\ Sane' <=> Sane
         /\ BlocksHavePages' <=> BlocksHavePages
         /\ Ascending' <=> Ascending
BY DEF Sane, FirmwareSane, BlocksDisjoint, Disjoint, BlocksHavePages, Seqs, Ascending

\* The second ioctl, step by step, and the end of the program.
LEMMA SetLimitKeeps ==
  ASSUME CompleteIInv, IInv', SetLimit \/ ProgramEnds \/ UNCHANGED vars
  PROVE  CompleteIInv'
<1> USE DEF CompleteIInv
<1>0. runs \in Nat /\ TypeOK BY DEF IInv, TypeOK
<1>1. ASSUME UNCHANGED <<firmware, node_memblk_range, mye820, early_node_map, runs>>,
             pc # "register", pc' # "register", pc' \in {"cpus", "memory"} => pc' = pc,
             pc' \in {"register", "sorted", "generate", "testing"} => pc \in {"register", "sorted", "generate", "testing"}
      PROVE  NothingLost' /\ EntriesDisjoint' /\ EntriesApart' /\ Phase'
  <2>1. \A q \in Live : Registered(q)' <=> Registered(q) BY <1>1 DEF Registered
  <2>2. RegisteredPieces' = RegisteredPieces BY <1>1, <2>1, PiecesFrame
  <2>3. NothingLost' /\ EntriesDisjoint' /\ EntriesApart' BY <1>0, <1>1, <2>2, EntriesFrame
  <2>4. Phase' BY <1>0, <1>1 DEF Phase, Seqs, E820Map, Counted, E820Entry
  <2> QED BY <2>3, <2>4
<1>2. ASSUME SetMemInfo PROVE CompleteIInv'
  <2>1. /\ pc = "sorted" /\ pc' = "generate" /\ m' = 1 /\ bootmem_regions' = <<>>
        /\ UNCHANGED <<firmware, node_memblk_range, mye820, early_node_map, runs>>
    BY <1>2 DEF SetMemInfo, inputs
  <2>2. NothingLost' /\ EntriesDisjoint' /\ EntriesApart' /\ Phase' BY <1>1, <2>1
  <2>3. RegionsSoFar'
    <3>1. \A i \in DOMAIN early_node_map : ~(i < 1) BY <1>0 DEF TypeOK
    <3> QED BY <2>1, <3>1 DEF RegionsSoFar
  <2>4. RegionsSorted' BY <2>1 DEF RegionsSorted, Seqs
  <2> QED BY <2>2, <2>3, <2>4
<1>3. ASSUME GenerateRegion PROVE CompleteIInv'
  <2> DEFINE parts == Parts(early_node_map[m])
             k == Len(parts)
  <2>1. /\ pc = "generate" /\ pc' = "generate" /\ m' = m + 1 /\ m <= Len(early_node_map)
        /\ bootmem_regions' = bootmem_regions \o parts
        /\ UNCHANGED <<firmware, node_memblk_range, mye820, early_node_map, runs>>
    BY <1>3 DEF GenerateRegion, inputs
  <2>2. NothingLost' /\ EntriesDisjoint' /\ EntriesApart' /\ Phase' BY <1>1, <2>1
  <2>3. parts \in Seq(Region) /\ k \in Nat
    <3>1. early_node_map[m] \in ActiveRegion BY <1>0, <2>1 DEF TypeOK
    <3>2. memLimit_pfn \in Nat
      BY <1>0, DivMod, SizeAssumption, InputAssumption DEF TypeOK, memLimit_pfn
    <3> QED BY <3>1, <3>2, PartsPages
  <2>4. bootmem_regions' = bootmem_regions \o SubSeq(parts, 1, k)
    <3>1. SubSeq(parts, 1, k) = parts BY <2>3, SubSeqFull
    <3> QED BY <2>1, <3>1
  <2>5. RegionsSoFar'
    <3>1. \A i \in DOMAIN early_node_map : i < m + 1 =>
            \A p \in Pages(early_node_map[i]) :
              \E r \in Seqs(bootmem_regions') : r.nid = early_node_map[i].nid /\ p \in Pages(r)
      BY <1>0, <2>1, <2>4, RegionsStayComplete
    <3> QED BY <2>1, <3>1 DEF RegionsSoFar, Seqs, Pages
  <2>6. RegionsSorted'
    <3> SUFFICES ASSUME Sane, BlocksHavePages, runs <= 1 \/ Ascending PROVE RegionsSorted'
      BY <2>1, LimitFrame DEF RegionsSorted
    <3>1. /\ \A r \in Seqs(bootmem_regions') : r.start_pfn < r.end_pfn
          /\ \A i, j \in DOMAIN bootmem_regions' : i < j => bootmem_regions'[i].end_pfn <= bootmem_regions'[j].start_pfn
          /\ \A r \in Seqs(bootmem_regions'), j \in DOMAIN early_node_map :
               j >= m + 1 => r.end_pfn <= early_node_map[j].start_pfn
      <4> HIDE DEF parts
      <4> k <= k BY <2>3
      <4> QED BY <1>0, <2>1, <2>3, <2>4, RegionsStaySorted DEF parts
    <3> QED BY <2>1, <3>1 DEF RegionsSorted, Seqs
  <2> QED BY <2>2, <2>5, <2>6
<1>4. ASSUME TooManyRegions PROVE CompleteIInv'
  <2> DEFINE parts == Parts(early_node_map[m])
             room == MAX_BOOTMEM_REGIONS - Len(bootmem_regions)
  <2>1. /\ pc = "generate" /\ pc' = "testing" /\ ret' = -1 /\ m <= Len(early_node_map)
        /\ room < Len(parts)
        /\ bootmem_regions' = bootmem_regions \o SubSeq(parts, 1, room)
        /\ UNCHANGED <<firmware, node_memblk_range, mye820, early_node_map, runs>>
    BY <1>4 DEF TooManyRegions, inputs
  <2>2. NothingLost' /\ EntriesDisjoint' /\ EntriesApart' /\ Phase' BY <1>1, <2>1
  <2>3. RegionsSoFar' BY <2>1 DEF RegionsSoFar
  <2>4. RegionsSorted'
    <3> SUFFICES ASSUME Sane, BlocksHavePages, runs <= 1 \/ Ascending PROVE RegionsSorted'
      BY <2>1, LimitFrame DEF RegionsSorted
    <3>1. room \in Nat BY <1>0, SizeAssumption DEF TypeOK
    <3>2. Len(parts) \in Nat
      <4>1. early_node_map[m] \in ActiveRegion BY <1>0, <2>1 DEF TypeOK
      <4>2. memLimit_pfn \in Nat
        BY <1>0, DivMod, SizeAssumption, InputAssumption DEF TypeOK, memLimit_pfn
      <4> QED BY <4>1, <4>2, PartsPages
    <3>3. room <= Len(parts) BY <2>1, <3>1, <3>2
    <3> HIDE DEF room
    <3>4. /\ \A r \in Seqs(bootmem_regions') : r.start_pfn < r.end_pfn
          /\ \A i, j \in DOMAIN bootmem_regions' : i < j => bootmem_regions'[i].end_pfn <= bootmem_regions'[j].start_pfn
      BY <1>0, <2>1, <3>1, <3>3, RegionsStaySorted
    <3> QED BY <2>1, <3>4 DEF RegionsSorted, Seqs
  <2> QED BY <2>2, <2>3, <2>4
<1>5. ASSUME Generated PROVE CompleteIInv'
  <2>1. /\ pc = "generate" /\ pc' = "testing" /\ m > Len(early_node_map)
        /\ UNCHANGED <<firmware, node_memblk_range, mye820, early_node_map, bootmem_regions, runs>>
    BY <1>5 DEF Generated, inputs
  <2>2. NothingLost' /\ EntriesDisjoint' /\ EntriesApart' /\ Phase' BY <1>1, <2>1
  <2>3. RegionsSoFar'
    <3>1. \A i \in DOMAIN early_node_map : i < m BY <1>0, <2>1 DEF TypeOK
    <3> QED BY <2>1, <3>1 DEF RegionsSoFar, Seqs, Pages
  <2>4. RegionsSorted' BY <2>1, LimitFrame DEF RegionsSorted, Seqs
  <2> QED BY <2>2, <2>3, <2>4
<1>6. ASSUME ProgramEnds PROVE CompleteIInv'
  <2>1. /\ pc = "testing" /\ pc' = "ready"
        /\ UNCHANGED <<firmware, node_memblk_range, mye820, early_node_map, runs>>
    BY <1>6 DEF ProgramEnds, inputs
  <2>2. NothingLost' /\ EntriesDisjoint' /\ EntriesApart' /\ Phase' BY <1>1, <2>1
  <2>3. RegionsSoFar' /\ RegionsSorted' BY <2>1, NoRegionsAsked
  <2> QED BY <2>2, <2>3
<1>7. CASE UNCHANGED vars
  <2>1. UNCHANGED <<firmware, node_memblk_range, mye820, early_node_map, bootmem_regions, runs, pc, m, n, ret>>
    BY <1>7 DEF vars, inputs
  <2>2. \A q \in Live : Registered(q)' <=> Registered(q) BY <2>1 DEF Registered
  <2>3. RegisteredPieces' = RegisteredPieces BY <2>1, <2>2, PiecesFrame
  <2>4. NothingLost' /\ EntriesDisjoint' /\ EntriesApart' BY <1>0, <2>1, <2>3, EntriesFrame
  <2>5. Phase' BY <2>1 DEF Phase, Seqs, E820Map, Counted, E820Entry
  <2>6. RegionsSoFar' BY <2>1 DEF RegionsSoFar, Seqs, Pages
  <2>7. RegionsSorted' BY <2>1, LimitFrame DEF RegionsSorted, Seqs
  <2> QED BY <2>4, <2>5, <2>6, <2>7
<1> QED BY <1>2, <1>3, <1>4, <1>5, <1>6, <1>7 DEF SetLimit

\* The invariant holds initially.
LEMMA InitComplete == Init => CompleteIInv
<1> SUFFICES ASSUME Init PROVE CompleteIInv OBVIOUS
<1>1. runs = 0 /\ early_node_map = <<>> /\ node_memblk_range = <<>> /\ pc = "cpus" BY DEF Init
<1>2. IInv BY InitIInv
<1>3. RegisteredPieces = {} BY <1>1 DEF RegisteredPieces, Registered
<1>4. NothingLost /\ EntriesDisjoint /\ EntriesApart
  BY <1>1, <1>3 DEF NothingLost, EntriesDisjoint, EntriesApart, Seqs
<1>5. Phase /\ RegionsSoFar /\ RegionsSorted BY <1>1 DEF Phase, RegionsSoFar, RegionsSorted, Seqs
<1> QED BY <1>2, <1>4, <1>5 DEF CompleteIInv

\* Every reachable state satisfies the invariant.
THEOREM CompleteInvariance == Spec => []CompleteIInv
<1>1. ASSUME CompleteIInv, [Next]_vars PROVE CompleteIInv'
  <2>1. IInv' BY <1>1, NextIInv DEF CompleteIInv
  <2> QED BY <1>1, <2>1, LoadKeeps, SetE820Keeps, SetLimitKeeps DEF Next
<1> QED BY InitComplete, <1>1, PTL DEF Spec

\* The pages of an entry of the firmware's map are found in every window.
LEMMA RamIsRegistered ==
  ASSUME CompleteIInv, pc = "testing", Sane, NEW i \in DOMAIN Windows, NEW p \in Pages(Windows[i]), RamPage(p)
  PROVE  \E r \in RegisteredPieces : r.nid = Windows[i].nid /\ p \in Pages(r)
<1>1. Facts /\ TypeOK /\ runs > 0
  <2>1. runs > 0 BY DEF CompleteIInv, Phase
  <2> QED BY <2>1, RunFacts DEF Facts
<1> DEFINE w == Windows[i]
<1>2. w \in ActiveRegion BY <1>1, WindowsType, ElementOfSeq DEF Facts
<1>3. w.start_pfn \in Nat /\ w.end_pfn \in Nat /\ p \in Nat /\ w.start_pfn <= p /\ p < w.end_pfn
  BY <1>2 DEF ActiveRegion, Pages
<1>4. PICK k \in Counted(firmware) : HasPage(firmware[k], p) BY DEF RamPage
<1> DEFINE e == mye820[k]
<1>5. /\ k \in DOMAIN mye820 /\ firmware[k] \in FirmwareEntry
      /\ e.addr = firmware[k].start /\ e.type = firmware[k].type
      /\ e.addr + e.size = firmware[k].end + 1
  BY <1>1, <1>4, SaneMap DEF Facts, Sane
<1>6. firmware[k].start \in Nat /\ firmware[k].end + 1 \in Nat BY <1>5 DEF FirmwareEntry
<1>7. e.type = "RAM" /\ firmware[k].start <= p * PAGE_SIZE /\ (p + 1) * PAGE_SIZE <= firmware[k].end + 1
  BY <1>4, <1>5 DEF HasPage
<1>8. FirstPfn(e) <= p /\ p + 1 <= EndPfn(e)
  <2> HIDE DEF e
  <2>1. (firmware[k].start + PAGE_SIZE - 1) \div PAGE_SIZE <= p
    BY <1>3, <1>6, <1>7, PageInside, SizeAssumption
  <2>2. p + 1 <= (firmware[k].end + 1) \div PAGE_SIZE
    BY <1>3, <1>6, <1>7, PageInside, SizeAssumption
  <2> QED BY <1>5, <2>1, <2>2 DEF FirstPfn, EndPfn
<1>9. FirstPfn(e) \in Nat /\ EndPfn(e) \in Nat
  <2>1. e \in E820Record BY <1>1, <1>5 DEF TypeOK
  <2> QED BY <2>1, PfnType
<1> HIDE DEF e, w
<1>10. Active(e, w) BY <1>3, <1>7, <1>8, <1>9 DEF Active
<1> DEFINE r == RangeIn(e, w)
<1>11. r.nid = w.nid /\ p \in Pages(r)
  BY <1>3, <1>8, <1>9 DEF RangeIn, Pages, Greater, Smaller
<1>12. r \in RegisteredPieces
  <2>1. <<i, k>> \in Live BY <1>5, <1>10 DEF Live, e, w
  <2>2. Registered(<<i, k>>) BY <1>1 DEF Registered
  <2>3. r = Piece(i, k) BY DEF Piece, e, w
  <2>4. <<i, k>>[1] = i /\ <<i, k>>[2] = k OBVIOUS
  <2> HIDE DEF r
  <2> QED BY <2>1, <2>2, <2>3, <2>4 DEF RegisteredPieces
<1> QED BY <1>11, <1>12 DEF w

\* Whole pages of RAM are all offered, once: registering, sorting and cutting lose no
\* page and make no two regions overlap.
THEOREM RegionsCompleteSound == Spec => []RegionsComplete
<1>1. ASSUME CompleteIInv PROVE AllRamListed
  <2> SUFFICES ASSUME pc = "testing", ret = 0, Len(early_node_map) < MAX_ACTIVE_REGIONS, Sane,
                      NEW i \in DOMAIN Windows, NEW p \in Pages(Windows[i]), RamPage(p)
               PROVE  \E r \in Seqs(bootmem_regions) : r.nid = Windows[i].nid /\ p \in Pages(r)
    BY DEF AllRamListed
  <2>1. PICK r \in RegisteredPieces : r.nid = Windows[i].nid /\ p \in Pages(r)
    BY <1>1, RamIsRegistered
  <2>2. PICK a \in Seqs(early_node_map) : a.nid = r.nid /\ Covers(a, r)
    BY <1>1 DEF CompleteIInv, NothingLost, Holds
  <2>3. Facts BY <1>1, RunFacts DEF CompleteIInv, Phase
  <2>4. r \in ActiveRegion /\ a \in ActiveRegion
    BY <2>3, PieceFacts DEF Facts, TypeOK, Seqs
  <2>5. p \in Pages(a) BY <2>1, <2>2, <2>4 DEF Pages, Covers, ActiveRegion
  <2>6. PICK j \in DOMAIN early_node_map : a = early_node_map[j] BY <2>2 DEF Seqs
  <2>7. \E x \in Seqs(bootmem_regions) : x.nid = a.nid /\ p \in Pages(x)
    BY <1>1, <2>5, <2>6 DEF CompleteIInv, RegionsSoFar
  <2> QED BY <2>1, <2>2, <2>7
<1>2. ASSUME CompleteIInv PROVE RegionsDisjoint
  <2> SUFFICES ASSUME pc = "testing", Sane, BlocksHavePages, runs = 1 \/ Ascending
               PROVE  /\ \A r \in Seqs(bootmem_regions) : r.start_pfn < r.end_pfn
                      /\ \A i \in 1..(Len(bootmem_regions) - 1) :
                           bootmem_regions[i].end_pfn <= bootmem_regions[i + 1].start_pfn
    BY DEF RegionsDisjoint
  <2>1. /\ \A r \in Seqs(bootmem_regions) : r.start_pfn < r.end_pfn
        /\ \A i, k \in DOMAIN bootmem_regions : i < k => bootmem_regions[i].end_pfn <= bootmem_regions[k].start_pfn
    BY <1>2 DEF CompleteIInv, RegionsSorted
  <2>2. Len(bootmem_regions) \in Nat /\ DOMAIN bootmem_regions = 1..Len(bootmem_regions)
    BY <1>2 DEF CompleteIInv, IInv, TypeOK
  <2>3. \A i \in 1..(Len(bootmem_regions) - 1) :
          i \in DOMAIN bootmem_regions /\ i + 1 \in DOMAIN bootmem_regions /\ i < i + 1
    BY <2>2
  <2> QED BY <2>1, <2>3
<1>3. CompleteIInv => RegionsComplete BY <1>1, <1>2 DEF RegionsComplete
<1> QED BY CompleteInvariance, <1>3, PTL

\* The tables that are never reset stay as they are on every later run.
THEOREM RerunSound == Spec => RerunAddsNothing
<1>1. ASSUME CompleteIInv, [Next]_vars, runs > 1, Sane, BlocksHavePages, Ascending
      PROVE  early_node_map' = early_node_map
  <2>1. Facts /\ Phase /\ NothingLost /\ EntriesDisjoint /\ EntriesApart
    BY <1>1, RunFacts DEF CompleteIInv, Facts, IInv, TypeOK
  <2>2. CASE Register BY <1>1, <2>1, <2>2, RerunFits
  <2>3. CASE Sort BY <1>1, <2>1, <2>3, SortKeeps
  <2>4. CASE ~Register /\ ~Sort
    BY <1>1, <2>4 DEF Next, Load, SetE820, SetLimit, vars, ParseProcessorAffinity, ProcessorsParsed,
       ParseMemoryAffinity, Loaded, SetE820Info, NextWindow, SetMemInfo, GenerateRegion, TooManyRegions,
       Generated, ProgramEnds
  <2> QED BY <2>2, <2>3, <2>4
<1> QED BY CompleteInvariance, <1>1, PTL DEF Spec, RerunAddsNothing
=============================================================================
